---------------------------- MODULE ReleaseFanout ----------------------------
(***************************************************************************)
(* The fan-out worker of the subscription service: it takes ReleaseFound   *)
(* messages of one repository from the stream RELEASES and writes one      *)
(* outbox row for each confirmed subscriber.                               *)
(*                                                                         *)
(* The recipients are read before the transaction that writes the rows, so *)
(* subscribers come and go in between; the message is acknowledged after   *)
(* it.  The queue shared by the replicas is JetStreamConsumer.             *)
(***************************************************************************)
EXTENDS Naturals, FiniteSets

CONSTANTS
    Releases,     \* ReleaseFound messages of the repository
    Poison,       \* messages that cannot be unmarshalled
    Subscribers,  \* rows of subscriptions for the repository
    Replicas,     \* replicas of the subscription service
    MaxDeliver,   \* MaxDeliver
    MaxFaults     \* bound: failed statements, lost Acks, crashes, slow callbacks

ASSUME FanoutAssumption ==
    /\ Releases \cap Poison = {}
    /\ MaxDeliver \in Nat \ {0}
    /\ MaxFaults \in Nat

Msgs == Releases \cup Poison

NoRelease == "none"   \* no row of the repository names a release yet

ASSUME ReleasesAssumption == NoRelease \notin Releases

VARIABLES
    count, due, acked, inbox,  \* the work queue: see JetStreamConsumer
    work,      \* the callback a replica is running
    state,     \* a subscriber's row: "pending", "confirmed" or "gone"
    repo,      \* does the row of the repository exist?
    rows,      \* outbox rows written for a release and a subscriber
    seenTag,   \* repositories.last_seen_tag, as the release it is from
    steady,    \* subscribers confirmed ever since a release was published
    wanted,    \* subscribers confirmed at its publication or at any time since
    faults     \* faults so far

INSTANCE JetStreamConsumer

queue == <<count, due, acked>>
tables == <<state, repo, rows, seenTag>>
history == <<steady, wanted>>
vars == <<queue, inbox, work, tables, history, faults>>

Idle == [pc |-> "idle"]
Callbacks == [pc : {"commit", "ack", "nak"}, msg : Msgs, recs : SUBSET Subscribers]

TypeOK ==
    /\ QueueTypeOK
    /\ work \in [Replicas -> {Idle} \cup Callbacks]
    /\ state \in [Subscribers -> {"pending", "confirmed", "gone"}]
    /\ repo \in BOOLEAN
    /\ rows \in [Releases -> [Subscribers -> Nat]]
    /\ seenTag \in Releases \cup {NoRelease}
    /\ steady \in [Releases -> SUBSET Subscribers]
    /\ wanted \in [Releases -> SUBSET Subscribers]
    /\ faults \in 0..MaxFaults

Init ==
    /\ count = [m \in Msgs |-> 0]
    /\ due = {} /\ acked = {}
    /\ inbox = [w \in Replicas |-> {}]
    /\ work = [w \in Replicas |-> Idle]
    /\ state \in [Subscribers -> {"pending", "confirmed"}]
    /\ repo = TRUE
    /\ rows = [m \in Releases |-> [s \in Subscribers |-> 0]]
    /\ seenTag = NoRelease
    /\ steady = [m \in Releases |-> {}]
    /\ wanted = [m \in Releases |-> {}]
    /\ faults = 0

Fault == faults < MaxFaults /\ faults' = faults + 1

In(s) == {x \in Subscribers : state[x] = s}

InProgress(m) ==
    Pulled(m) \/ \E w \in Replicas : work[w] # Idle /\ work[w].msg = m

----------------------------------------------------------------------------
(* The world: the relay of monitoring, the subscribers, the server.        *)

Publish(m) ==
    /\ m \notin due /\ count[m] = 0
    /\ due' = due \cup {m}
    /\ IF m \in Releases
       THEN /\ steady' = [steady EXCEPT ![m] = In("confirmed")]
            /\ wanted' = [wanted EXCEPT ![m] = In("confirmed")]
       ELSE UNCHANGED history
    /\ UNCHANGED <<count, acked, inbox, work, tables, faults>>

Confirm(s) ==
    /\ state[s] = "pending"
    /\ state' = [state EXCEPT ![s] = "confirmed"]
    /\ wanted' = [m \in Releases |-> wanted[m] \cup {s}]
    /\ UNCHANGED <<queue, inbox, work, repo, rows, seenTag, steady, faults>>

\* Unsubscribed, or removed by the saga; a new subscription is a new row.
Leave(s) ==
    /\ state[s] # "gone"
    /\ state' = [state EXCEPT ![s] = "gone"]
    /\ steady' = [m \in Releases |-> steady[m] \ {s}]
    /\ UNCHANGED <<queue, inbox, work, repo, rows, seenTag, wanted, faults>>

\* DeleteIfOrphaned, after the last subscriber left.
DeleteRepo ==
    /\ repo /\ In("gone") = Subscribers
    /\ repo' = FALSE
    /\ UNCHANGED <<queue, inbox, work, state, rows, seenTag, history, faults>>

Receive(w, m) == Deliver(w, m) /\ UNCHANGED <<work, tables, history, faults>>

AckWaitExpires(m) ==
    ~InProgress(m) /\ GiveBack(m) /\ UNCHANGED <<work, tables, history, faults>>

\* A replica is too slow, and the message is delivered to another one.
AckWaitTooShort(m) ==
    InProgress(m) /\ GiveBack(m) /\ Fault /\ UNCHANGED <<work, tables, history>>

----------------------------------------------------------------------------
(* The callback of Consume and handleReleaseFound.                         *)

Enter(w, pc, m, recs) ==
    work' = [work EXCEPT ![w] = [pc |-> pc, msg |-> m, recs |-> recs]]

\* Faulty variant: the query without "AND confirmed = TRUE".
ListUnconfirmed == In("pending") \cup In("confirmed")

ListConfirmed == In("confirmed")

\* ListConfirmed or BeginTx fails, and the callback sends a Nak.
ListFails(w, d) ==
    /\ d.msg \in Releases
    /\ Fault
    /\ Enter(w, "nak", d.msg, {})

\* Faulty variant: no return after a failed Unmarshal.
ProcessAnything(w, d) ==
    /\ work[w] = Idle
    /\ Take(w, d)
    /\ \/ Enter(w, "commit", d.msg, ListConfirmed) /\ UNCHANGED faults
       \/ ListFails(w, d)
    /\ UNCHANGED <<queue, tables, history>>

\* Unmarshal and read the recipients; a poison message is acknowledged.
Process(w, d) ==
    /\ work[w] = Idle
    /\ Take(w, d)
    /\ \/ /\ d.msg \in Poison
          /\ Enter(w, "ack", d.msg, {})
          /\ UNCHANGED faults
       \/ /\ d.msg \in Releases
          /\ Enter(w, "commit", d.msg, ListConfirmed)
          /\ UNCHANGED faults
       \/ ListFails(w, d)
    /\ UNCHANGED <<queue, tables, history>>

\* UpdateLastSeenTag finds no row if the repository is gone.
WriteRows(m, recs) ==
    /\ seenTag' = IF repo THEN m ELSE seenTag
    /\ rows' = [x \in Releases |->
                   [s \in Subscribers |->
                       IF x = m /\ s \in recs THEN rows[x][s] + 1 ELSE rows[x][s]]]

\* Faulty variant: the tag in the transaction, the rows after its Commit.
CommitFailsHalfway(w) ==
    /\ work[w].pc = "commit"
    /\ Fault
    /\ Enter(w, "nak", work[w].msg, {})
    /\ seenTag' = IF repo THEN work[w].msg ELSE seenTag
    /\ UNCHANGED <<queue, inbox, state, repo, rows, history>>

\* A statement or Commit fails; Commit may have taken effect all the same.
CommitFails(w) ==
    /\ work[w].pc = "commit"
    /\ Fault
    /\ Enter(w, "nak", work[w].msg, {})
    /\ WriteRows(work[w].msg, work[w].recs) \/ UNCHANGED <<rows, seenTag>>
    /\ UNCHANGED <<queue, inbox, state, repo, history>>

\* The transaction: last_seen_tag and one outbox row for each recipient.
CommitRows(w) ==
    /\ work[w].pc = "commit"
    /\ Enter(w, "ack", work[w].msg, {})
    /\ WriteRows(work[w].msg, work[w].recs)
    /\ UNCHANGED <<queue, inbox, state, repo, history, faults>>

\* Faulty variant: the callback returns without an Ack.
AckForgotten(w) ==
    /\ work[w].pc = "ack"
    /\ work' = [work EXCEPT ![w] = Idle]
    /\ UNCHANGED <<queue, inbox, tables, history, faults>>

\* msg.Ack; an Ack that is lost is not noticed.
Ack(w) ==
    /\ work[w].pc = "ack"
    /\ work' = [work EXCEPT ![w] = Idle]
    /\ \/ AckEffect(work[w].msg) /\ UNCHANGED faults
       \/ UNCHANGED <<acked, due>> /\ Fault
    /\ UNCHANGED <<count, inbox, tables, history>>

\* msg.Nak, without a delay.
Nak(w) ==
    /\ work[w].pc = "nak"
    /\ work' = [work EXCEPT ![w] = Idle]
    /\ NakEffect(work[w].msg)
    /\ UNCHANGED <<count, acked, inbox, tables, history, faults>>

\* The replica stops; a transaction in flight is rolled back.
Crash(w) ==
    /\ work[w] # Idle \/ inbox[w] # {}
    /\ Fault
    /\ work' = [work EXCEPT ![w] = Idle]
    /\ inbox' = [inbox EXCEPT ![w] = {}]
    /\ UNCHANGED <<queue, tables, history>>

Callback(w) ==
    \/ \E d \in Deliveries : Process(w, d)
    \/ CommitRows(w) \/ CommitFails(w) \/ Ack(w) \/ Nak(w)

Next ==
    \/ \E m \in Msgs : Publish(m) \/ AckWaitExpires(m) \/ AckWaitTooShort(m)
    \/ \E s \in Subscribers : Confirm(s) \/ Leave(s)
    \/ DeleteRepo
    \/ \E w \in Replicas : Callback(w) \/ Crash(w) \/ \E m \in Msgs : Receive(w, m)

(***************************************************************************)
(* The server delivers what is due to some replica, AckWait runs out, and  *)
(* a callback that was started goes on: its context is only cancelled when *)
(* the service stops.                                                      *)
(***************************************************************************)
Fairness ==
    /\ \A m \in Msgs : WF_vars(\E w \in Replicas : Receive(w, m))
    /\ \A m \in Msgs : WF_vars(AckWaitExpires(m))
    /\ \A w \in Replicas : WF_vars(Callback(w))

Spec == Init /\ [][Next]_vars /\ Fairness

----------------------------------------------------------------------------
(* Properties.                                                             *)

(***************************************************************************)
(* A release is not acknowledged, nor shown as the repository's last seen  *)
(* tag, before every subscriber who was confirmed all the time since its   *)
(* publication has a row: a failed list, a failed transaction or another   *)
(* delivery in progress never makes handleReleaseFound skip one.           *)
(***************************************************************************)
SteadySubscribersAreNotified ==
    \A m \in Releases : m \in acked \/ m = seenTag =>
        \A s \in steady[m] : rows[m][s] > 0

(***************************************************************************)
(* A release is only told to those who had confirmed when it was published *)
(* or did so since, however often and however late it is delivered again:  *)
(* not to an address that never answered its confirmation mail, nor to     *)
(* someone who had left before.  (Who leaves while a callback holds its    *)
(* list still gets a row: it is read before the transaction.)              *)
(***************************************************************************)
OnlyTheConfirmedAreTold ==
    \A m \in Releases : \A s \in Subscribers : rows[m][s] > 0 => s \in wanted[m]

(***************************************************************************)
(* The handler is not idempotent, so delivery is at least once; but each   *)
(* row beyond the first one is paid for by a fault.                        *)
(***************************************************************************)
SurplusRowsNeedFaults ==
    \A m \in Releases : \A s \in Subscribers : rows[m][s] <= 1 + faults

(***************************************************************************)
(* A published release is acknowledged in the end, unless each one of its  *)
(* MaxDeliver deliveries met a fault of its own.  (RELEASES has no dead    *)
(* letters, and the Nak has no delay: such a release is lost.)             *)
(***************************************************************************)
ReleasesAreFannedOut ==
    \A m \in Msgs : m \in due ~> m \in acked \/ faults >= MaxDeliver
=============================================================================
