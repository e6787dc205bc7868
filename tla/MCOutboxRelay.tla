--------------------------- MODULE MCOutboxRelay ---------------------------
(***************************************************************************)
(* Small instances of OutboxRelay for TLC.                                 *)
(***************************************************************************)
EXTENDS OutboxRelay

CONSTANTS p1, p2

\* The two services whose relays publish into one stream.
SharedStream == {"subscription", "auth"}
TwoReplicas == {p1, p2}
============================================================================
