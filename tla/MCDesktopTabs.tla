--------------------------- MODULE MCDesktopTabs ---------------------------
(* DesktopTabs on two workspaces that TLC may exchange.                       *)
EXTENDS DesktopTabs, TLC

\* Workspaces are interchangeable.
Symmetry == Permutations(Slugs)
=============================================================================
