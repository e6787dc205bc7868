-------------------------- MODULE OutboxRelay_proofs --------------------------
(***************************************************************************)
(* Proofs about OutboxRelay: for any outboxes, replicas, batch size and    *)
(* number of faults, a row marked as published is in its stream, and the   *)
(* steps of the relays are steps of ReliableOutbox.                        *)
(***************************************************************************)
EXTENDS OutboxRelay, FiniteSetTheorems, TLAPS

(***************************************************************************)
(* The prefixes of the three services differ (Prefix).                     *)
(***************************************************************************)
LEMMA PrefixesAreDistinct ==
    ASSUME NEW o \in Outboxes, NEW other \in Outboxes, Prefix(o) = Prefix(other)
    PROVE  o = other
BY OutboxesAssumption DEF Prefix

(***************************************************************************)
(* Two rows never share a deduplication key (MsgId): in one stream the     *)
(* prefixes tell the services apart, in one service the ids do.            *)
(***************************************************************************)
LEMMA KeysAreDistinct ==
    ASSUME NEW row \in Rows, NEW other \in Rows, DedupKey(row) = DedupKey(other)
    PROVE  row = other
<1>1. MsgId(row) = MsgId(other)
  BY DEF DedupKey
<1>2. Prefix(row[1]) = Prefix(other[1]) /\ row[2] = other[2]
  BY <1>1 DEF MsgId
<1>3. row[1] = other[1]
  BY <1>2, PrefixesAreDistinct DEF Rows
<1>4. QED
  BY <1>2, <1>3 DEF Rows

(***************************************************************************)
(* Publish (Store) leaves the row's message in the stream and takes none   *)
(* away, whether or not the stream recognises a duplicate.                 *)
(***************************************************************************)
LEMMA StoreKeepsStored ==
    ASSUME TypeOK, WindowIsStored, NEW row \in Rows, Store(row)
    PROVE  /\ copies' \in [Rows -> Nat]
           /\ window' \subseteq DedupKeys
           /\ copies'[row] > 0
           /\ \A any \in Rows : copies[any] > 0 => copies'[any] > 0
           /\ WindowIsStored'
<1>1. CASE DedupKey(row) \in window
  BY <1>1 DEF Store, TypeOK, WindowIsStored
<1>2. CASE DedupKey(row) \notin window
  <2>1. copies' = [copies EXCEPT ![row] = @ + 1] /\ window' = window \cup {DedupKey(row)}
    BY <1>2 DEF Store
  <2>2. copies' \in [Rows -> Nat] /\ copies'[row] > 0
        /\ \A any \in Rows : copies[any] > 0 => copies'[any] > 0
    BY <2>1 DEF TypeOK
  <2>3. window' \subseteq DedupKeys
    BY <2>1 DEF TypeOK, DedupKeys
  <2>4. WindowIsStored'
    <3> SUFFICES ASSUME NEW any \in Rows, DedupKey(any) \in window'
                 PROVE  copies'[any] > 0
      BY DEF WindowIsStored, DedupKey, MsgId, StreamOf
    <3>1. CASE DedupKey(any) \in window
      BY <3>1, <2>2 DEF WindowIsStored
    <3>2. CASE DedupKey(any) = DedupKey(row)
      <4>1. any = row
        BY <3>2, KeysAreDistinct
      <4>2. QED
        BY <4>1, <2>2
    <3>3. QED
      BY <3>1, <3>2, <2>1
  <2>5. QED
    BY <2>2, <2>3, <2>4
<1>3. QED
  BY <1>1, <1>2

LEMMA InitIInv == ASSUME Init PROVE IInv
BY RelayBounds
   DEF Init, IInv, TypeOK, SentIsStored, WindowIsStored, MarkedIsStored, RowStates,
       LocksExclude, FetchedIsCommitted

LEMMA FaultTyped == ASSUME TypeOK, Fault PROVE faults' \in 0..MaxFaults
BY RelayBounds DEF TypeOK, Fault

LEMMA InsertStep == ASSUME IInv, NEW row \in Rows, Insert(row) PROVE IInv'
BY DEF IInv, Insert, relayVars, TypeOK, SentIsStored, WindowIsStored, MarkedIsStored, RowStates,
       LocksExclude, FetchedIsCommitted

LEMMA FetchStep == ASSUME IInv, NEW r \in Relays, Fetch(r) PROVE IInv'
<1>1. /\ Batch(r[1]) \subseteq Rows
      /\ \A row \in Batch(r[1]) : row[1] = r[1] /\ table[row] = "pending" /\ Unlocked(row)
  BY DEF Batch, Visible
<1>2. TypeOK' /\ SentIsStored' /\ WindowIsStored' /\ MarkedIsStored' /\ FetchedIsCommitted'
  BY <1>1 DEF IInv, Fetch, TypeOK, SentIsStored, WindowIsStored, MarkedIsStored,
              FetchedIsCommitted
<1>3. LocksExclude'
  BY <1>1 DEF IInv, TypeOK, Fetch, LocksExclude, Unlocked
<1>4. QED
  BY <1>2, <1>3 DEF IInv

LEMMA PublishOkStep ==
    ASSUME IInv, NEW r \in Relays, NEW row \in Rows, PublishOk(r, row) PROVE IInv'
<1>1. /\ copies' \in [Rows -> Nat] /\ window' \subseteq DedupKeys
      /\ copies'[row] > 0
      /\ \A any \in Rows : copies[any] > 0 => copies'[any] > 0
      /\ WindowIsStored'
  BY StoreKeepsStored DEF IInv, PublishOk
<1>2. row \in todo[r]
  BY DEF PublishOk, IsNext
<1>3. TypeOK'
  BY <1>1, <1>2 DEF IInv, TypeOK, PublishOk
<1>4. SentIsStored' /\ MarkedIsStored'
  BY <1>1 DEF IInv, TypeOK, PublishOk, SentIsStored, MarkedIsStored
<1>5. LocksExclude' /\ FetchedIsCommitted'
  BY <1>2 DEF IInv, TypeOK, PublishOk, LocksExclude, FetchedIsCommitted
<1>6. QED
  BY <1>1, <1>3, <1>4, <1>5 DEF IInv

LEMMA PublishFailsStep ==
    ASSUME IInv, NEW r \in Relays, NEW row \in Rows, PublishFails(r, row) PROVE IInv'
<1>1. /\ copies' \in [Rows -> Nat] /\ window' \subseteq DedupKeys
      /\ \A any \in Rows : copies[any] > 0 => copies'[any] > 0
      /\ WindowIsStored'
  <2>1. CASE Store(row)
    BY <2>1, StoreKeepsStored DEF IInv
  <2>2. CASE UNCHANGED <<copies, window>>
    BY <2>2 DEF IInv, TypeOK, WindowIsStored
  <2>3. QED
    BY <2>1, <2>2 DEF PublishFails
<1>2. TypeOK'
  BY <1>1, FaultTyped DEF IInv, TypeOK, PublishFails
<1>3. SentIsStored' /\ MarkedIsStored'
  BY <1>1 DEF IInv, TypeOK, PublishFails, SentIsStored, MarkedIsStored
<1>4. LocksExclude' /\ FetchedIsCommitted'
  BY DEF IInv, TypeOK, PublishFails, LocksExclude, FetchedIsCommitted
<1>5. QED
  BY <1>1, <1>2, <1>3, <1>4 DEF IInv

LEMMA FinishStep == ASSUME IInv, NEW r \in Relays, Finish(r) PROVE IInv'
<1>1. TypeOK' /\ SentIsStored' /\ WindowIsStored' /\ MarkedIsStored' /\ FetchedIsCommitted'
  BY DEF IInv, Finish, MarkPublished, Release, TypeOK, SentIsStored, WindowIsStored, MarkedIsStored,
         RowStates, FetchedIsCommitted
<1>2. LocksExclude'
  BY DEF IInv, TypeOK, Finish, MarkPublished, Release, LocksExclude
<1>3. QED
  BY <1>1, <1>2 DEF IInv

LEMMA FinishLostStep == ASSUME IInv, NEW r \in Relays, FinishLost(r) PROVE IInv'
BY DEF IInv, FinishLost, Release, TypeOK, SentIsStored, WindowIsStored, MarkedIsStored,
       LocksExclude, FetchedIsCommitted

LEMMA LoseTransactionStep ==
    ASSUME IInv, NEW r \in Relays, LoseTransaction(r) PROVE IInv'
BY FaultTyped
   DEF IInv, LoseTransaction, TypeOK, SentIsStored, WindowIsStored, MarkedIsStored,
       LocksExclude, FetchedIsCommitted

LEMMA CrashStep == ASSUME IInv, NEW r \in Relays, Crash(r) PROVE IInv'
BY FaultTyped
   DEF IInv, Crash, Release, TypeOK, SentIsStored, WindowIsStored, MarkedIsStored,
       LocksExclude, FetchedIsCommitted

LEMMA WindowExpiresStep ==
    ASSUME IInv, NEW k \in DedupKeys, WindowExpires(k) PROVE IInv'
BY DEF IInv, WindowExpires, relayVars, TypeOK, SentIsStored, WindowIsStored, MarkedIsStored,
       LocksExclude, FetchedIsCommitted

(***************************************************************************)
(* The invariant is kept by every step, one lemma per action.              *)
(***************************************************************************)
LEMMA NextStep == ASSUME IInv, [Next]_vars PROVE IInv'
<1>1. CASE \E row \in Rows : Insert(row)
  BY <1>1, InsertStep
<1>2. ASSUME NEW r \in Relays, RelayStep(r) PROVE IInv'
  BY <1>2, FetchStep, PublishOkStep, FinishStep, FinishLostStep DEF RelayStep
<1>3. ASSUME NEW r \in Relays, NEW row \in Rows, PublishFails(r, row) PROVE IInv'
  BY <1>3, PublishFailsStep
<1>4. ASSUME NEW r \in Relays, LoseTransaction(r) \/ Crash(r) PROVE IInv'
  BY <1>4, LoseTransactionStep, CrashStep
<1>5. CASE \E k \in DedupKeys : WindowExpires(k)
  BY <1>5, WindowExpiresStep
<1>6. CASE UNCHANGED vars
  BY <1>6 DEF IInv, vars, relayVars, TypeOK, SentIsStored, WindowIsStored, MarkedIsStored,
              LocksExclude, FetchedIsCommitted
<1>7. QED
  BY <1>1, <1>2, <1>3, <1>4, <1>5, <1>6 DEF Next

(***************************************************************************)
(* publishPending and the stream keep their tables typed and coherent.     *)
(***************************************************************************)
THEOREM RelayInvariant == Spec => []IInv
<1>1. Init => IInv
  BY InitIInv
<1>2. IInv /\ [Next]_vars => IInv'
  BY NextStep
<1>3. QED
  BY <1>1, <1>2, PTL DEF Spec

(***************************************************************************)
(* Every relay holds rows of its own table only (FetchForUpdate).          *)
(***************************************************************************)
THEOREM RelayTypeCorrect == Spec => []TypeOK
BY RelayInvariant, PTL DEF IInv

(***************************************************************************)
(* MarkPublished never marks an event that is not in the stream.           *)
(***************************************************************************)
THEOREM NoEventIsLost == Spec => []MarkedIsStored
BY RelayInvariant, PTL DEF IInv


(***************************************************************************)
(* A step of a relay is a step of the outbox contract or changes nothing   *)
(* it speaks of: Insert accepts, a first Store delivers, Finish retires.   *)
(***************************************************************************)
LEMMA StoreDelivers ==
    ASSUME IInv, NEW row \in Rows, Store(row), table[row] # "unused",
           UNCHANGED table
    PROVE  [Outbox!Next]_(Outbox!vars)
<1>1. CASE copies' = copies
  BY <1>1 DEF Outbox!vars
<1>2. CASE copies' # copies
  <2>1. copies' = [copies EXCEPT ![row] = @ + 1]
    BY <1>2 DEF Store
  <2>2. CASE copies[row] > 0
    <3>1. {any \in Rows : copies'[any] > 0} = {any \in Rows : copies[any] > 0}
      BY <2>1, <2>2 DEF IInv, TypeOK
    <3>2. QED
      BY <3>1 DEF Outbox!vars
  <2>3. CASE ~(copies[row] > 0)
    <3>1. {any \in Rows : copies'[any] > 0}
            = {any \in Rows : copies[any] > 0} \cup {row}
      BY <2>1, <2>3 DEF IInv, TypeOK
    <3>2. table[row] # "published"
      BY <2>3 DEF IInv, MarkedIsStored
    <3>3. Outbox!Deliver(row)
      BY <2>3, <3>1, <3>2 DEF Outbox!Deliver
    <3>4. QED
      BY <3>3 DEF Outbox!Next
  <2>4. QED
    BY <2>2, <2>3
<1>3. QED
  BY <1>1, <1>2

LEMMA FinishRetires ==
    ASSUME IInv, NEW r \in Relays, Finish(r)
    PROVE  [Outbox!Next]_(Outbox!vars)
<1>1. sent[r] \in SUBSET Rows /\ sent[r] \subseteq locked[r]
  BY DEF IInv, TypeOK, Finish, MarkPublished
<1>2. {row \in Rows : table'[row] = "published"}
        = {row \in Rows : table[row] = "published"} \cup sent[r]
  BY <1>1 DEF Finish, MarkPublished
<1>3. {row \in Rows : table'[row] # "unused"} = {row \in Rows : table[row] # "unused"}
  BY <1>1 DEF Finish, MarkPublished, IInv, LocksExclude
<1>4. UNCHANGED copies
  BY DEF Finish, MarkPublished
<1>5. CASE sent[r] = {}
  BY <1>2, <1>3, <1>4, <1>5 DEF Outbox!vars
<1>6. CASE sent[r] # {}
  <2>1. PICK E \in SUBSET Rows : E = sent[r]
    BY <1>1
  <2>2. \A row \in E : copies[row] > 0 /\ table[row] # "published"
    BY <1>1, <2>1 DEF IInv, SentIsStored, LocksExclude
  <2>3. Outbox!Retire(E)
    BY <1>2, <1>3, <1>4, <1>6, <2>1, <2>2 DEF Outbox!Retire
  <2>4. QED
    BY <2>3 DEF Outbox!Next
<1>7. QED
  BY <1>5, <1>6

LEMMA InsertAccepts ==
    ASSUME IInv, NEW row \in Rows, Insert(row)
    PROVE  [Outbox!Next]_(Outbox!vars)
<1>1. {any \in Rows : table'[any] # "unused"}
        = {any \in Rows : table[any] # "unused"} \cup {row}
  BY DEF IInv, TypeOK, Insert
<1>2. {any \in Rows : table'[any] = "published"} = {any \in Rows : table[any] = "published"}
  BY DEF IInv, TypeOK, Insert
<1>3. Outbox!Accept(row)
  BY <1>1, <1>2 DEF Outbox!Accept, Insert
<1>4. QED
  BY <1>3 DEF Outbox!Next

LEMMA StepRefines ==
    ASSUME IInv, [Next]_vars PROVE [Outbox!Next]_(Outbox!vars)
<1>1. CASE \E row \in Rows : Insert(row)
  BY <1>1, InsertAccepts
<1>2. ASSUME NEW r \in Relays, NEW row \in Rows, PublishOk(r, row) \/ PublishFails(r, row)
      PROVE  [Outbox!Next]_(Outbox!vars)
  <2>1. table[row] # "unused" /\ UNCHANGED table
    BY <1>2 DEF PublishOk, PublishFails, IsNext, IInv, FetchedIsCommitted
  <2>2. CASE Store(row)
    BY <2>1, <2>2, StoreDelivers
  <2>3. CASE UNCHANGED <<copies, window>>
    BY <2>1, <2>3 DEF Outbox!vars
  <2>4. QED
    BY <1>2, <2>2, <2>3 DEF PublishOk, PublishFails
<1>3. ASSUME NEW r \in Relays, Finish(r) PROVE [Outbox!Next]_(Outbox!vars)
  BY <1>3, FinishRetires
<1>4. ASSUME NEW r \in Relays,
             Fetch(r) \/ FinishLost(r) \/ LoseTransaction(r) \/ Crash(r)
      PROVE  [Outbox!Next]_(Outbox!vars)
  BY <1>4 DEF Fetch, FinishLost, LoseTransaction, Crash, Outbox!vars
<1>5. CASE \E k \in DedupKeys : WindowExpires(k)
  BY <1>5 DEF WindowExpires, Outbox!vars
<1>6. CASE UNCHANGED vars
  BY <1>6 DEF vars, Outbox!vars
<1>7. QED
  BY <1>1, <1>2, <1>3, <1>4, <1>5, <1>6 DEF Next, RelayStep

(***************************************************************************)
(* The relays implement the safety part of the transactional outbox: they  *)
(* deliver accepted events only and retire delivered events only.          *)
(***************************************************************************)
THEOREM RelaysImplementOutbox == Spec => OutboxSafety
<1>1. Init => Outbox!Init
  BY DEF Init, Outbox!Init
<1>2. IInv /\ [Next]_vars => [Outbox!Next]_(Outbox!vars)
  BY StepRefines
<1>3. QED
  BY <1>1, <1>2, RelayInvariant, PTL DEF Spec, OutboxSafety

----------------------------------------------------------------------------
(* Duplicates are paid for by faults.                                      *)

(***************************************************************************)
(* Who can still publish a row: the relays whose batch holds it, one of    *)
(* them under its lock and the others after their transaction was lost,    *)
(* and the relay that fetches it next.                                     *)
(***************************************************************************)
Holders(row) == {r \in Relays : row \in todo[r]}

\* The row is pending or will be, and whoever has its lock gave it up.
Refetchable(row) ==
    /\ table[row] # "published"
    /\ \A r \in Relays : row \in locked[r] => row \notin todo[r] \cup sent[r]

(***************************************************************************)
(* The account of a row: its messages, and every message that can still    *)
(* come without another fault, stay within one more than the faults.  A    *)
(* relay that fetches the row takes over the claim of the free row, and a  *)
(* message in the stream takes over the claim of the relay; only a failed  *)
(* Publish, a lost transaction or a crash opens a claim again.             *)
(***************************************************************************)
Claims(row) == Cardinality(Holders(row)) + (IF Refetchable(row) THEN 1 ELSE 0)

Budget ==
    \A row \in Rows :
        IsFiniteSet(Holders(row)) /\ copies[row] + Claims(row) <= 1 + faults

\* What a step may do to the account of a row.
Calm(row) ==
    /\ copies'[row] = copies[row] /\ faults' = faults
    /\ Holders(row)' \subseteq Holders(row)
    /\ Refetchable(row)' => Refetchable(row)

Fetched(row) ==
    /\ copies'[row] = copies[row] /\ faults' = faults
    /\ \E r \in Relays : Holders(row)' \subseteq Holders(row) \cup {r}
    /\ Refetchable(row) /\ ~Refetchable(row)'

Published(row) ==
    /\ copies'[row] <= copies[row] + 1
    /\ \E r \in Holders(row) : Holders(row)' \subseteq Holders(row) \ {r}
    /\ \/ faults' = faults /\ (Refetchable(row)' => Refetchable(row))
       \/ faults' = faults + 1

Paid(row) ==
    /\ copies'[row] = copies[row] /\ faults' = faults + 1
    /\ Holders(row)' \subseteq Holders(row)

(***************************************************************************)
(* How the number of holders moves with the set of holders.                *)
(***************************************************************************)
LEMMA Counting ==
    ASSUME NEW S, IsFiniteSet(S), NEW T
    PROVE  /\ Cardinality(S) \in Nat
           /\ T \subseteq S =>
                 IsFiniteSet(T) /\ Cardinality(T) \in Nat /\ Cardinality(T) <= Cardinality(S)
           /\ \A x : T \subseteq S \cup {x} =>
                 IsFiniteSet(T) /\ Cardinality(T) \in Nat /\ Cardinality(T) <= Cardinality(S) + 1
           /\ \A x \in S : T \subseteq S \ {x} =>
                 IsFiniteSet(T) /\ Cardinality(T) \in Nat /\ Cardinality(T) + 1 <= Cardinality(S)
<1>1. Cardinality(S) \in Nat
  BY FS_CardinalityType
<1>2. ASSUME T \subseteq S
      PROVE  IsFiniteSet(T) /\ Cardinality(T) \in Nat /\ Cardinality(T) <= Cardinality(S)
  BY <1>2, FS_Subset, FS_CardinalityType
<1>3. ASSUME NEW x, T \subseteq S \cup {x}
      PROVE  IsFiniteSet(T) /\ Cardinality(T) \in Nat /\ Cardinality(T) <= Cardinality(S) + 1
  <2>1. IsFiniteSet(S \cup {x}) /\ Cardinality(S \cup {x}) \in Nat
    BY FS_AddElement, FS_CardinalityType
  <2>2. Cardinality(S \cup {x}) = IF x \in S THEN Cardinality(S) ELSE Cardinality(S) + 1
    BY FS_AddElement
  <2>3. IsFiniteSet(T) /\ Cardinality(T) \in Nat /\ Cardinality(T) <= Cardinality(S \cup {x})
    BY <1>3, <2>1, FS_Subset, FS_CardinalityType
  <2>4. QED
    BY <1>1, <2>1, <2>2, <2>3
<1>4. ASSUME NEW x \in S, T \subseteq S \ {x}
      PROVE  IsFiniteSet(T) /\ Cardinality(T) \in Nat /\ Cardinality(T) + 1 <= Cardinality(S)
  <2>1. IsFiniteSet(S \ {x}) /\ Cardinality(S \ {x}) \in Nat
    BY FS_RemoveElement, FS_CardinalityType
  <2>2. Cardinality(S \ {x}) = Cardinality(S) - 1
    BY FS_RemoveElement
  <2>3. IsFiniteSet(T) /\ Cardinality(T) \in Nat /\ Cardinality(T) <= Cardinality(S \ {x})
    BY <1>4, <2>1, FS_Subset, FS_CardinalityType
  <2>4. QED
    BY <1>1, <2>1, <2>2, <2>3
<1>5. QED
  BY <1>1, <1>2, <1>3, <1>4

(***************************************************************************)
(* Each of the four keeps the account.                                     *)
(***************************************************************************)
LEMMA AccountKept ==
    ASSUME TypeOK, TypeOK', Budget, NEW row \in Rows,
           Calm(row) \/ Fetched(row) \/ Published(row) \/ Paid(row)
    PROVE  IsFiniteSet(Holders(row)') /\ copies'[row] + Claims(row)' <= 1 + faults'
<1> DEFINE h == Cardinality(Holders(row))
           k == Cardinality(Holders(row)')
<1>1. copies[row] \in Nat /\ copies'[row] \in Nat /\ faults \in Nat /\ faults' \in Nat
  BY RelayBounds DEF TypeOK
<1>2. IsFiniteSet(Holders(row)) /\ h \in Nat
  BY Counting DEF Budget
<1>3. copies[row] + h + (IF Refetchable(row) THEN 1 ELSE 0) <= 1 + faults
  BY <1>1, <1>2 DEF Budget, Claims
<1>4. Claims(row)' = k + (IF Refetchable(row)' THEN 1 ELSE 0)
  BY DEF Claims
<1>5. CASE Calm(row)
  <2>1. IsFiniteSet(Holders(row)') /\ k \in Nat /\ k <= h
    BY <1>2, <1>5, Counting DEF Calm
  <2> HIDE DEF h, k
  <2>2. QED
    BY <1>1, <1>2, <1>3, <1>4, <1>5, <2>1 DEF Calm
<1>6. CASE Fetched(row)
  <2>1. IsFiniteSet(Holders(row)') /\ k \in Nat /\ k <= h + 1
    BY <1>2, <1>6, Counting DEF Fetched
  <2> HIDE DEF h, k
  <2>2. QED
    BY <1>1, <1>2, <1>3, <1>4, <1>6, <2>1 DEF Fetched
<1>7. CASE Published(row)
  <2>1. IsFiniteSet(Holders(row)') /\ k \in Nat /\ k + 1 <= h
    BY <1>2, <1>7, Counting DEF Published
  <2> HIDE DEF h, k
  <2>2. QED
    BY <1>1, <1>2, <1>3, <1>4, <1>7, <2>1 DEF Published
<1>8. CASE Paid(row)
  <2>1. IsFiniteSet(Holders(row)') /\ k \in Nat /\ k <= h
    BY <1>2, <1>8, Counting DEF Paid
  <2> HIDE DEF h, k
  <2>2. QED
    BY <1>1, <1>2, <1>3, <1>4, <1>8, <2>1 DEF Paid
<1>9. QED
  BY <1>5, <1>6, <1>7, <1>8

(***************************************************************************)
(* Which action does which.  A relay that fetches a row had nothing in its *)
(* batch, and nobody else holds the row under a lock (SKIP LOCKED).        *)
(***************************************************************************)
LEMMA FetchAccount ==
    ASSUME IInv, NEW r \in Relays, Fetch(r), NEW row \in Rows
    PROVE  Calm(row) \/ Fetched(row)
<1>1. /\ todo[r] = {} /\ sent[r] = {} /\ locked[r] = {}
      /\ UNCHANGED <<table, sent, copies, faults>>
  BY DEF Fetch, Busy
<1>2. \A q \in Relays : /\ todo'[q] = IF q = r THEN Batch(r[1]) ELSE todo[q]
                        /\ locked'[q] = IF q = r THEN Batch(r[1]) ELSE locked[q]
  BY DEF Fetch, IInv, TypeOK
<1>3. CASE row \in Batch(r[1])
  <2>1. Refetchable(row)
    BY <1>3 DEF Refetchable, Batch, Visible, Unlocked
  <2>2. ~Refetchable(row)'
    BY <1>2, <1>3 DEF Refetchable
  <2>3. Holders(row)' \subseteq Holders(row) \cup {r}
    BY <1>2 DEF Holders
  <2>4. QED
    BY <1>1, <2>1, <2>2, <2>3 DEF Fetched
<1>4. CASE row \notin Batch(r[1])
  BY <1>1, <1>2, <1>4 DEF Calm, Holders, Refetchable
<1>5. QED
  BY <1>3, <1>4

LEMMA StoreCounts ==
    ASSUME TypeOK, NEW row \in Rows, Store(row) \/ UNCHANGED <<copies, window>>,
           NEW any \in Rows
    PROVE  /\ copies'[any] <= copies[any] + 1
           /\ any # row => copies'[any] = copies[any]
<1>1. copies[any] \in Nat
  BY DEF TypeOK
<1>2. CASE copies' = copies
  BY <1>1, <1>2
<1>3. CASE copies' = [copies EXCEPT ![row] = @ + 1]
  BY <1>1, <1>3 DEF TypeOK
<1>4. QED
  BY <1>2, <1>3 DEF Store

LEMMA PublishOkAccount ==
    ASSUME IInv, NEW r \in Relays, NEW row \in Rows, PublishOk(r, row), NEW any \in Rows
    PROVE  Calm(any) \/ Published(any)
<1>1. row \in todo[r] /\ UNCHANGED <<table, locked, faults>>
  BY DEF PublishOk, IsNext
<1>2. \A q \in Relays : /\ todo'[q] = IF q = r THEN todo[r] \ {row} ELSE todo[q]
                        /\ sent'[q] = IF q = r THEN sent[r] \cup {row} ELSE sent[q]
  BY DEF PublishOk, IInv, TypeOK
<1>3. copies'[any] <= copies[any] + 1 /\ (any # row => copies'[any] = copies[any])
  BY StoreCounts DEF PublishOk, IInv
<1>4. Refetchable(any)' => Refetchable(any)
  BY <1>1, <1>2 DEF Refetchable
<1>5. CASE any = row
  <2>1. r \in Holders(any) /\ Holders(any)' \subseteq Holders(any) \ {r}
    BY <1>1, <1>2, <1>5 DEF Holders
  <2>2. QED
    BY <1>1, <1>3, <1>4, <2>1 DEF Published
<1>6. CASE any # row
  <2>1. Holders(any)' \subseteq Holders(any)
    BY <1>2, <1>6 DEF Holders
  <2>2. QED
    BY <1>1, <1>3, <1>4, <1>6, <2>1 DEF Calm
<1>7. QED
  BY <1>5, <1>6

LEMMA PublishFailsAccount ==
    ASSUME IInv, NEW r \in Relays, NEW row \in Rows, PublishFails(r, row), NEW any \in Rows
    PROVE  Published(any) \/ Paid(any)
<1>1. row \in todo[r] /\ faults' = faults + 1
  BY DEF PublishFails, IsNext, Fault
<1>2. \A q \in Relays : todo'[q] = IF q = r THEN todo[r] \ {row} ELSE todo[q]
  BY DEF PublishFails, IInv, TypeOK
<1>3. copies'[any] <= copies[any] + 1 /\ (any # row => copies'[any] = copies[any])
  BY StoreCounts DEF PublishFails, IInv
<1>4. CASE any = row
  <2>1. r \in Holders(any) /\ Holders(any)' \subseteq Holders(any) \ {r}
    BY <1>1, <1>2, <1>4 DEF Holders
  <2>2. QED
    BY <1>1, <1>3, <2>1 DEF Published
<1>5. CASE any # row
  <2>1. Holders(any)' \subseteq Holders(any)
    BY <1>2, <1>5 DEF Holders
  <2>2. QED
    BY <1>1, <1>3, <1>5, <2>1 DEF Paid
<1>6. QED
  BY <1>4, <1>5

(***************************************************************************)
(* Finish frees the rows that failed, which were free to be fetched again  *)
(* already, and retires those that were published.                         *)
(***************************************************************************)
LEMMA FinishAccount ==
    ASSUME IInv, NEW r \in Relays, Finish(r), NEW row \in Rows
    PROVE  Calm(row)
<1>1. todo[r] = {} /\ sent[r] \subseteq locked[r] /\ UNCHANGED <<copies, faults>>
  BY DEF Finish
<1>2. \A q \in Relays : /\ todo'[q] = IF q = r THEN {} ELSE todo[q]
                        /\ sent'[q] = IF q = r THEN {} ELSE sent[q]
                        /\ locked'[q] = IF q = r THEN {} ELSE locked[q]
  BY DEF Finish, Release, IInv, TypeOK
<1>3. table'[row] = IF row \in sent[r] THEN "published" ELSE table[row]
  BY DEF Finish, MarkPublished
<1>4. Holders(row)' \subseteq Holders(row)
  BY <1>2 DEF Holders
<1>5. ASSUME Refetchable(row)' PROVE Refetchable(row)
  <2>1. row \notin sent[r] /\ table[row] # "published"
    BY <1>3, <1>5 DEF Refetchable
  <2>2. \A q \in Relays : row \in locked[q] => row \notin todo[q] \cup sent[q]
    BY <1>1, <1>2, <1>5, <2>1 DEF Refetchable
  <2>3. QED
    BY <2>1, <2>2 DEF Refetchable
<1>6. QED
  BY <1>1, <1>4, <1>5 DEF Calm

LEMMA FinishLostAccount ==
    ASSUME IInv, NEW r \in Relays, FinishLost(r), NEW row \in Rows
    PROVE  Calm(row)
<1>1. locked[r] = {} /\ UNCHANGED <<table, copies, faults>>
  BY DEF FinishLost
<1>2. \A q \in Relays : /\ todo'[q] = IF q = r THEN {} ELSE todo[q]
                        /\ sent'[q] = IF q = r THEN {} ELSE sent[q]
                        /\ locked'[q] = IF q = r THEN {} ELSE locked[q]
  BY DEF FinishLost, Release, IInv, TypeOK
<1>3. Holders(row)' \subseteq Holders(row) /\ (Refetchable(row)' => Refetchable(row))
  BY <1>1, <1>2 DEF Holders, Refetchable
<1>4. QED
  BY <1>1, <1>3 DEF Calm

LEMMA LossAccount ==
    ASSUME IInv, NEW r \in Relays, LoseTransaction(r) \/ Crash(r), NEW row \in Rows
    PROVE  Paid(row)
<1>1. UNCHANGED copies /\ faults' = faults + 1
  BY DEF LoseTransaction, Crash, Fault
<1>2. \A q \in Relays : todo'[q] \subseteq todo[q]
  BY DEF LoseTransaction, Crash, Release, IInv, TypeOK
<1>3. QED
  BY <1>1, <1>2 DEF Paid, Holders

LEMMA QuietAccount ==
    ASSUME IInv, NEW row \in Rows,
           \/ \E any \in Rows : Insert(any)
           \/ \E k \in DedupKeys : WindowExpires(k)
           \/ UNCHANGED vars
    PROVE  Calm(row)
<1>1. UNCHANGED <<relayVars, copies, faults>>
  BY DEF Insert, WindowExpires, vars
<1>2. table'[row] = "published" <=> table[row] = "published"
  BY DEF Insert, WindowExpires, vars, IInv, TypeOK
<1>3. QED
  BY <1>1, <1>2 DEF Calm, Holders, Refetchable, relayVars

LEMMA NextBudget == ASSUME IInv, IInv', Budget, [Next]_vars PROVE Budget'
<1>1. ASSUME NEW row \in Rows PROVE Calm(row) \/ Fetched(row) \/ Published(row) \/ Paid(row)
  <2>1. ASSUME NEW r \in Relays, RelayStep(r) PROVE Calm(row) \/ Fetched(row) \/ Published(row)
    BY <2>1, FetchAccount, PublishOkAccount, FinishAccount, FinishLostAccount DEF RelayStep
  <2>2. ASSUME NEW r \in Relays, NEW any \in Rows, PublishFails(r, any)
        PROVE  Published(row) \/ Paid(row)
    BY <2>2, PublishFailsAccount
  <2>3. ASSUME NEW r \in Relays, LoseTransaction(r) \/ Crash(r) PROVE Paid(row)
    BY <2>3, LossAccount
  <2>4. QED
    BY <2>1, <2>2, <2>3, QuietAccount DEF Next
<1>2. TypeOK /\ TypeOK'
  BY DEF IInv
<1>3. ASSUME NEW row \in Rows
      PROVE  IsFiniteSet(Holders(row)') /\ copies'[row] + Claims(row)' <= 1 + faults'
  BY <1>1, <1>2, <1>3, AccountKept
<1>4. QED
  BY <1>3 DEF Budget

LEMMA InitBudget == ASSUME Init PROVE Budget
<1> SUFFICES ASSUME NEW row \in Rows
             PROVE  IsFiniteSet(Holders(row)) /\ copies[row] + Claims(row) <= 1 + faults
  BY DEF Budget
<1>1. Holders(row) = {}
  BY DEF Init, Holders
<1>2. IsFiniteSet(Holders(row)) /\ Cardinality(Holders(row)) = 0
  BY <1>1, FS_EmptySet
<1>3. QED
  BY <1>2 DEF Claims, Init

(***************************************************************************)
(* However many replicas relay the same table (FOR UPDATE SKIP LOCKED) and *)
(* however early the stream forgets a Msg-Id, every message of a row       *)
(* beyond the first one is paid for by a fault.                            *)
(***************************************************************************)
THEOREM DuplicatesArePaidFor == Spec => []DuplicatesNeedFaults
<1>1. Init => Budget
  BY InitBudget
<1>2. IInv /\ IInv' /\ Budget /\ [Next]_vars => Budget'
  BY NextBudget
<1>3. IInv /\ Budget => DuplicatesNeedFaults
  <2> SUFFICES ASSUME IInv, Budget, NEW row \in Rows
               PROVE  copies[row] <= 1 + faults
    BY DEF DuplicatesNeedFaults
  <2>1. copies[row] \in Nat /\ faults \in Nat
    BY RelayBounds DEF IInv, TypeOK
  <2>2. Cardinality(Holders(row)) \in Nat /\ copies[row] + Claims(row) <= 1 + faults
    BY Counting DEF Budget
  <2>3. QED
    BY <2>1, <2>2 DEF Claims
<1>4. QED
  BY <1>1, <1>2, <1>3, RelayInvariant, PTL DEF Spec

=============================================================================
