----------------------------- MODULE OutboxRelay -----------------------------
(***************************************************************************)
(* The outbox relays of the subscription, monitoring and auth services and *)
(* the JetStream deduplication they rely on.  The three relays are the     *)
(* same program with another table, another stream and another prefix of   *)
(* the Msg-Id; every replica of a service runs one.                        *)
(*                                                                         *)
(* One run of publishPending is one open transaction: Fetch locks a batch, *)
(* PublishNext publishes its rows one by one, Finish marks the rows that   *)
(* were accepted and commits.  The transaction can be lost under the       *)
(* relay, which does not notice before it marks; the relay can crash.      *)
(***************************************************************************)
EXTENDS Naturals, FiniteSets

CONSTANTS
    Outboxes,   \* services with an outbox table
    Replicas,   \* replicas of each service
    MaxId,      \* bound: ids each BIGSERIAL sequence hands out
    BatchSize,  \* batchSize
    MaxFaults   \* bound: failed publishes, lost transactions and crashes

ASSUME OutboxesAssumption == Outboxes \subseteq {"subscription", "monitoring", "auth"}

ASSUME RelayBounds ==
    /\ MaxId \in Nat
    /\ BatchSize \in Nat \ {0}
    /\ MaxFaults \in Nat

Rows == Outboxes \X (1..MaxId)
Relays == Outboxes \X Replicas

VARIABLES
    table,    \* each outbox row: not committed, pending or published
    todo,     \* rows a relay fetched and has not tried to publish yet
    sent,     \* rows a relay published in this batch: the slice `published`
    locked,   \* rows locked by the transaction a relay has open
    copies,   \* messages the stream stored for a row
    window,   \* stream and Msg-Id pairs inside their deduplication window
    faults    \* faults so far

relayVars == <<todo, sent, locked>>
vars == <<table, relayVars, copies, window, faults>>

RowStates == {"unused", "pending", "published"}

(***************************************************************************)
(* The relays of subscription and auth share a stream, and all sequences   *)
(* start at 1: the prefix keeps their Msg-Ids apart.                       *)
(***************************************************************************)
StreamOf(o) == IF o = "monitoring" THEN "RELEASES" ELSE "NOTIFICATIONS"

\* Faulty variant: the bare id of strconv.FormatInt in every relay.
PrefixMissing(o) == ""

Prefix(o) ==
    CASE o = "subscription" -> ""
      [] o = "monitoring" -> "mon-"
      [] o = "auth" -> "auth-"

MsgId(row) == <<Prefix(row[1]), row[2]>>
DedupKey(row) == <<StreamOf(row[1]), MsgId(row)>>
DedupKeys == {DedupKey(row) : row \in Rows}

TypeOK ==
    /\ table \in [Rows -> RowStates]
    /\ todo \in [Relays -> SUBSET Rows]
    /\ sent \in [Relays -> SUBSET Rows]
    /\ locked \in [Relays -> SUBSET Rows]
    /\ \A r \in Relays : \A row \in todo[r] \cup sent[r] : row[1] = r[1]
    /\ copies \in [Rows -> Nat]
    /\ window \subseteq DedupKeys
    /\ faults \in 0..MaxFaults

Init ==
    /\ table = [row \in Rows |-> "unused"]
    /\ todo = [r \in Relays |-> {}]
    /\ sent = [r \in Relays |-> {}]
    /\ locked = [r \in Relays |-> {}]
    /\ copies = [row \in Rows |-> 0]
    /\ window = {}
    /\ faults = 0

Fault == faults < MaxFaults /\ faults' = faults + 1

(***************************************************************************)
(* A transaction of the service commits a row.  Sequences do not roll back *)
(* and transactions overlap, so rows become visible in any order of ids.   *)
(***************************************************************************)
Insert(row) ==
    /\ table[row] = "unused"
    /\ table' = [table EXCEPT ![row] = "pending"]
    /\ UNCHANGED <<relayVars, copies, window, faults>>

----------------------------------------------------------------------------
(* publishPending.                                                         *)

\* Faulty variant: the query without FOR UPDATE SKIP LOCKED.
UnlockedIgnored(row) == TRUE

Unlocked(row) == \A r \in Relays : row \notin locked[r]

\* Faulty variant: the auth relay is given the store of the other outbox table.
VisibleWrongTable(o) ==
    {row \in Rows : /\ row[1] = IF o = "auth" THEN "subscription" ELSE o
                    /\ table[row] = "pending" /\ Unlocked(row)}

\* Rows the query can return, and its LIMIT: the lowest ids first.
Visible(o) == {row \in Rows : row[1] = o /\ table[row] = "pending" /\ Unlocked(row)}

Batch(o) ==
    {row \in Visible(o) :
        Cardinality({low \in Visible(o) : low[2] < row[2]}) < BatchSize}

Busy(r) == todo[r] # {} \/ sent[r] # {} \/ locked[r] # {}

Fetch(r) ==
    /\ ~Busy(r)
    /\ Batch(r[1]) # {}
    /\ todo' = [todo EXCEPT ![r] = Batch(r[1])]
    /\ locked' = [locked EXCEPT ![r] = Batch(r[1])]
    /\ UNCHANGED <<table, sent, copies, window, faults>>

\* The loop walks through the batch in the order of the ids.
IsNext(r, row) == row \in todo[r] /\ \A other \in todo[r] : row[2] <= other[2]

\* The stream stores the message unless it remembers the Msg-Id.
Store(row) ==
    IF DedupKey(row) \in window
    THEN UNCHANGED <<copies, window>>
    ELSE /\ copies' = [copies EXCEPT ![row] = @ + 1]
         /\ window' = window \cup {DedupKey(row)}

PublishOk(r, row) ==
    /\ IsNext(r, row)
    /\ Store(row)
    /\ todo' = [todo EXCEPT ![r] = @ \ {row}]
    /\ sent' = [sent EXCEPT ![r] = @ \cup {row}]
    /\ UNCHANGED <<table, locked, faults>>

\* Publish returned an error, and the loop continues; the stream may have
\* stored the message all the same.
PublishFails(r, row) ==
    /\ IsNext(r, row)
    /\ Fault
    /\ \/ Store(row)
       \/ UNCHANGED <<copies, window>>
    /\ todo' = [todo EXCEPT ![r] = @ \ {row}]
    /\ UNCHANGED <<table, sent, locked>>

\* The batch is through: the relay is idle and its locks are gone.
Release(r) ==
    /\ todo' = [todo EXCEPT ![r] = {}]
    /\ sent' = [sent EXCEPT ![r] = {}]
    /\ locked' = [locked EXCEPT ![r] = {}]

\* Faulty variant: without rows to mark, return before the deferred Rollback.
FinishLeaksLocks(r) ==
    /\ Busy(r) /\ todo[r] = {}
    /\ IF sent[r] = {}
       THEN UNCHANGED <<table, relayVars>>
       ELSE /\ sent[r] \subseteq locked[r]
            /\ table' = [row \in Rows |->
                            IF row \in sent[r] THEN "published" ELSE table[row]]
            /\ Release(r)
    /\ UNCHANGED <<copies, window, faults>>

MarkPublished(r) ==
    table' = [row \in Rows |-> IF row \in sent[r] THEN "published" ELSE table[row]]

\* MarkPublished and Commit, or Rollback when no row was published.
Finish(r) ==
    /\ Busy(r) /\ todo[r] = {}
    /\ sent[r] \subseteq locked[r]
    /\ MarkPublished(r)
    /\ Release(r)
    /\ UNCHANGED <<copies, window, faults>>

\* MarkPublished fails because the transaction was lost before.
FinishLost(r) ==
    /\ todo[r] = {}
    /\ sent[r] # {} /\ locked[r] = {}
    /\ Release(r)
    /\ UNCHANGED <<table, copies, window, faults>>

----------------------------------------------------------------------------
(* Faults and time.                                                        *)

\* The database drops the connection and with it the locks; the relay does
\* not read from it until MarkPublished and goes on publishing.
LoseTransaction(r) ==
    /\ locked[r] # {}
    /\ Fault
    /\ locked' = [locked EXCEPT ![r] = {}]
    /\ UNCHANGED <<table, todo, sent, copies, window>>

\* The service stops, or MarkPublished or Commit fails.
Crash(r) ==
    /\ Busy(r)
    /\ Fault
    /\ Release(r)
    /\ UNCHANGED <<table, copies, window>>

\* Two minutes after a message was stored its Msg-Id is forgotten.
WindowExpires(k) ==
    /\ k \in window
    /\ window' = window \ {k}
    /\ UNCHANGED <<table, relayVars, copies, faults>>

RelayStep(r) ==
    \/ Fetch(r)
    \/ \E row \in Rows : PublishOk(r, row)
    \/ Finish(r)
    \/ FinishLost(r)

Next ==
    \/ \E row \in Rows : Insert(row)
    \/ \E r \in Relays :
          \/ RelayStep(r)
          \/ \E row \in Rows : PublishFails(r, row)
          \/ LoseTransaction(r)
          \/ Crash(r)
    \/ \E k \in DedupKeys : WindowExpires(k)

(***************************************************************************)
(* The ticker starts publishPending again and again, and a run that was    *)
(* started goes on: weak fairness on each relay.  Nothing is assumed of    *)
(* inserts and faults.                                                     *)
(***************************************************************************)
Spec == Init /\ [][Next]_vars /\ \A r \in Relays : WF_vars(RelayStep(r))

----------------------------------------------------------------------------
(* Properties.                                                             *)

(***************************************************************************)
(* No row is marked as published (MarkPublished) before its own message is *)
(* in the stream: neither a failed Publish nor the deduplication of        *)
(* another row with an equal Msg-Id loses an event.                        *)
(***************************************************************************)
MarkedIsStored == \A row \in Rows : table[row] = "published" => copies[row] > 0

(***************************************************************************)
(* Why: a relay only marks rows that it published, and the stream only     *)
(* treats a message as a duplicate if it stored that row's message before. *)
(***************************************************************************)
SentIsStored == \A r \in Relays : \A row \in sent[r] : copies[row] > 0
WindowIsStored == \A row \in Rows : DedupKey(row) \in window => copies[row] > 0

\* SKIP LOCKED: a row locked by one relay is pending and not locked by another.
LocksExclude ==
    \A r \in Relays : \A row \in locked[r] :
        /\ table[row] = "pending"
        /\ \A other \in Relays \ {r} : row \notin locked[other]

FetchedIsCommitted ==
    \A r \in Relays : \A row \in todo[r] \cup sent[r] : table[row] # "unused"

IInv ==
    /\ TypeOK
    /\ SentIsStored
    /\ WindowIsStored
    /\ MarkedIsStored
    /\ LocksExclude
    /\ FetchedIsCommitted

(***************************************************************************)
(* Duplication is bounded (docs/SDD.md:183): however many replicas relay   *)
(* the same table with SKIP LOCKED, and however short the deduplication    *)
(* window, every message beyond the first one is paid for by a fault.      *)
(***************************************************************************)
DuplicatesNeedFaults == \A row \in Rows : copies[row] <= 1 + faults

(***************************************************************************)
(* The relays implement the transactional outbox: no committed row is      *)
(* lost, and each one is published once the faults are over.               *)
(***************************************************************************)
Outbox == INSTANCE ReliableOutbox WITH
    Events <- Rows,
    accepted <- {row \in Rows : table[row] # "unused"},
    delivered <- {row \in Rows : copies[row] > 0},
    retired <- {row \in Rows : table[row] = "published"}

ImplementsOutbox == Outbox!Spec

\* The part of it that says what the relays may do, without its liveness.
OutboxSafety == Outbox!Init /\ [][Outbox!Next]_(Outbox!vars)
=============================================================================
