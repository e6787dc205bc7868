----------------------- MODULE SubscriptionLifecycle -----------------------
(***************************************************************************)
(* What the subscription service promises about one subscribe attempt: the *)
(* subscription row and its saga, as any reader of the two tables sees     *)
(* them, without goroutines, messages, repositories or faults.             *)
(*                                                                         *)
(* A pending subscription is either confirmed, or abandoned: deleted in    *)
(* the very step that ends its saga as FAILED.  COMPLETED is written only  *)
(* when no pending row is left.  A terminal saga never changes again.      *)
(***************************************************************************)
CONSTANT SubIds

VARIABLES row, saga

Active == {"STARTED", "AWAITING_CONFIRMATION"}

Init ==
    /\ row = [s \in SubIds |-> "unused"]
    /\ saga = [s \in SubIds |-> "NONE"]

Open(s) ==
    /\ row[s] = "unused" /\ saga[s] = "NONE"
    /\ row' = [row EXCEPT ![s] = "pending"]
    /\ saga' = [saga EXCEPT ![s] = "STARTED"]

Await(s) ==
    /\ saga[s] = "STARTED"
    /\ saga' = [saga EXCEPT ![s] = "AWAITING_CONFIRMATION"]
    /\ UNCHANGED row

Confirm(s) ==
    /\ row[s] = "pending"
    /\ row' = [row EXCEPT ![s] = "confirmed"]
    /\ UNCHANGED saga

Complete(s) ==
    /\ row[s] # "pending"
    /\ saga[s] \in Active \cup {"COMPENSATING"}
    /\ saga' = [saga EXCEPT ![s] = "COMPLETED"]
    /\ UNCHANGED row

BeginCompensation(S) ==
    /\ \A s \in S : saga[s] \in Active
    /\ saga' = [s \in SubIds |-> IF s \in S THEN "COMPENSATING" ELSE saga[s]]
    /\ UNCHANGED row

Abandon(s) ==
    /\ row[s] = "pending" /\ saga[s] = "COMPENSATING"
    /\ row' = [row EXCEPT ![s] = "deleted"]
    /\ saga' = [saga EXCEPT ![s] = "FAILED"]

\* An unsubscribe removes one row, the deletion of a repository all of its rows.
Remove(S) ==
    /\ \A s \in S : row[s] \in {"pending", "confirmed"}
    /\ row' = [s \in SubIds |-> IF s \in S THEN "deleted" ELSE row[s]]
    /\ UNCHANGED saga

Next ==
    \/ \E s \in SubIds :
         Open(s) \/ Await(s) \/ Confirm(s) \/ Complete(s) \/ Abandon(s)
    \/ \E S \in SUBSET SubIds : BeginCompensation(S) \/ Remove(S)

Spec == Init /\ [][Next]_<<row, saga>>
============================================================================
