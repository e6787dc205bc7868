--------------------------- MODULE ReliableOutbox ---------------------------
(***************************************************************************)
(* What a transactional outbox promises to the state changes that write    *)
(* to it (docs/SDD.md, "Transactional Outbox"): every accepted event       *)
(* reaches its stream, and the outbox forgets an event only after it did.  *)
(* It promises neither an order nor a single delivery.                     *)
(***************************************************************************)
CONSTANT Events

VARIABLES
    accepted,   \* events whose transaction committed
    delivered,  \* events the stream has stored at least once
    retired     \* events the outbox will not publish again

vars == <<accepted, delivered, retired>>

Init == accepted = {} /\ delivered = {} /\ retired = {}

Accept(e) ==
    /\ e \notin accepted
    /\ accepted' = accepted \cup {e}
    /\ UNCHANGED <<delivered, retired>>

Deliver(e) ==
    /\ e \in accepted \ retired
    /\ e \notin delivered
    /\ delivered' = delivered \cup {e}
    /\ UNCHANGED <<accepted, retired>>

\* A relay retires a whole batch in one transaction.
Retire(E) ==
    /\ E # {}
    /\ E \subseteq delivered \ retired
    /\ retired' = retired \cup E
    /\ UNCHANGED <<accepted, delivered>>

Next ==
    \/ \E e \in Events : Accept(e) \/ Deliver(e)
    \/ \E E \in SUBSET Events : Retire(E)

Spec == Init /\ [][Next]_vars /\ \A e \in Events : WF_vars(Deliver(e))
=============================================================================
