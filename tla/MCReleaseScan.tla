---------------------------- MODULE MCReleaseScan ----------------------------
(***************************************************************************)
(* Small instances of ReleaseScan for TLC.                                 *)
(***************************************************************************)
EXTENDS ReleaseScan

CONSTANTS r1, r2, w1, w2

TwoRepos == {r1, r2}
TwoTags == {"v1", "v2"}
TwoScanners == {w1, w2}
=============================================================================
