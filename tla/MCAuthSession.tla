---------------------------- MODULE MCAuthSession ----------------------------
(***************************************************************************)
(* Small instances of AuthSession for TLC.                                 *)
(***************************************************************************)
EXTENDS AuthSession

CONSTANTS c1, c2

TwoCalls == {c1, c2}
=============================================================================
