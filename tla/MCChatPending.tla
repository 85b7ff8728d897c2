--------------------------- MODULE MCChatPending ---------------------------
(* ChatPending on a small instance. *)
EXTENDS ChatPending, TLC
=============================================================================
