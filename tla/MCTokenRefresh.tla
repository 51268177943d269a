--------------------------- MODULE MCTokenRefresh ---------------------------
(* Instances of TokenRefresh for TLC.                                      *)
EXTENDS TokenRefresh

CONSTANTS c1, c2, c3
ThreeCallers == {c1, c2, c3}
=============================================================================
