---------------------------- MODULE MCDesktopDaemon ----------------------------
(* DesktopDaemon on small bounds.                                               *)
EXTENDS DesktopDaemon
=============================================================================
