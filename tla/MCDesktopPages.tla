--------------------------- MODULE MCDesktopPages ---------------------------
(* Instances of DesktopPages for TLC.                                      *)
EXTENDS DesktopPages
=============================================================================
