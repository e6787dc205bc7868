--------------------------- MODULE MCReleaseFanout ---------------------------
(***************************************************************************)
(* A small instance of ReleaseFanout for TLC.                              *)
(***************************************************************************)
EXTENDS ReleaseFanout

CONSTANTS m1, x1, s1, s2, p1, p2

OneRelease == {m1}
OnePoison == {x1}
TwoSubscribers == {s1, s2}
TwoReplicas == {p1, p2}
=============================================================================
