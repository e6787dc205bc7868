------------------------- MODULE ReleaseFanout_proofs -------------------------
(***************************************************************************)
(* Proofs about the fan-out worker, for any releases, subscribers and      *)
(* replicas, and any number of deliveries and faults.                      *)
(*                                                                         *)
(* The argument follows the recipients a callback has read: all who have   *)
(* been confirmed ever since the publication, and only such who have been  *)
(* confirmed at the publication or since.  Both stay true of the list when *)
(* subscribers come and go before the transaction.                         *)
(***************************************************************************)
EXTENDS ReleaseFanout, FiniteSetTheorems, TLAPS

Held(w) == work[w].msg

\* Nothing is known of a message that was never delivered.
DeliveredFirst ==
    /\ \A w \in Replicas : \A d \in inbox[w] : count[d.msg] > 0
    /\ \A w \in Replicas : work[w] # Idle => count[Held(w)] > 0
    /\ \A m \in acked : count[m] > 0
    /\ seenTag # NoRelease => count[seenTag] > 0
    /\ \A m \in Releases : \A s \in Subscribers : rows[m][s] > 0 => count[m] > 0

Published(m) == m \in due \/ count[m] > 0

\* The confirmed subscribers of this moment, between the two histories.
HistoryHolds ==
    \A m \in Releases :
        /\ steady[m] \subseteq In("confirmed")
        /\ Published(m) => In("confirmed") \subseteq wanted[m]

\* The recipients a callback has read.
RecipientsHold ==
    \A w \in Replicas : work[w] # Idle /\ work[w].pc = "commit" =>
        /\ Held(w) \in Releases
        /\ steady[Held(w)] \subseteq work[w].recs
        /\ work[w].recs \subseteq wanted[Held(w)]

Notified(m) == \A s \in steady[m] : rows[m][s] > 0

\* A callback that is going to acknowledge has written the rows.
AckingIsNotified ==
    \A w \in Replicas :
        work[w] # Idle /\ work[w].pc = "ack" /\ Held(w) \in Releases => Notified(Held(w))

IInv ==
    /\ TypeOK
    /\ DeliveredFirst
    /\ HistoryHolds
    /\ RecipientsHold
    /\ AckingIsNotified
    /\ SteadySubscribersAreNotified
    /\ OnlyTheConfirmedAreTold

LEMMA IdleIsNoCallback == Idle \notin Callbacks /\ Idle.pc = "idle"
  BY DEF Idle, Callbacks

LEMMA InitIInv == Init => IInv
  <1> SUFFICES ASSUME Init PROVE IInv
    OBVIOUS
  <1> USE DEF Init
  <1>1. 0 \in 0..MaxDeliver /\ 0 \in 0..MaxFaults
    BY FanoutAssumption
  <1>2. TypeOK
    BY <1>1 DEF TypeOK, QueueTypeOK
  <1>3. \A m \in Releases : \A s \in Subscribers : rows[m][s] = 0
    OBVIOUS
  <1>4. DeliveredFirst
    BY <1>3 DEF DeliveredFirst
  <1>5. HistoryHolds /\ RecipientsHold /\ AckingIsNotified
    BY DEF HistoryHolds, Published, Msgs, RecipientsHold, AckingIsNotified
  <1>6. SteadySubscribersAreNotified /\ OnlyTheConfirmedAreTold
    BY <1>3 DEF SteadySubscribersAreNotified, OnlyTheConfirmedAreTold
  <1> QED BY <1>2, <1>4, <1>5, <1>6 DEF IInv

(***************************************************************************)
(* A release is published once, when nothing is known of it.               *)
(***************************************************************************)
LEMMA PublishKeeps ==
  ASSUME IInv, NEW m \in Msgs, Publish(m)
  PROVE  IInv'
  <1> USE DEF IInv
  <1>1. /\ UNCHANGED <<count, acked, inbox, work, state, repo, rows, seenTag, faults>>
        /\ due' = due \cup {m} /\ count[m] = 0
        /\ \/ m \notin Releases /\ UNCHANGED <<steady, wanted>>
           \/ /\ m \in Releases
              /\ steady' = [steady EXCEPT ![m] = In("confirmed")]
              /\ wanted' = [wanted EXCEPT ![m] = In("confirmed")]
    BY DEF Publish, tables, history
  <1>2. \A x \in Releases : x # m => steady'[x] = steady[x] /\ wanted'[x] = wanted[x]
    BY <1>1 DEF TypeOK
  <1>3. \A x \in Releases : /\ steady'[x] \subseteq In("confirmed")
                            /\ Published(x)' => In("confirmed") \subseteq wanted'[x]
    BY <1>1, <1>2 DEF HistoryHolds, Published, TypeOK
  <1>4. TypeOK'
    <2>1. steady' \in [Releases -> SUBSET Subscribers] /\ wanted' \in [Releases -> SUBSET Subscribers]
      BY <1>1 DEF TypeOK, In
    <2> QED BY <1>1, <2>1 DEF TypeOK, QueueTypeOK
  <1>5. DeliveredFirst'
    BY <1>1 DEF DeliveredFirst, Held
  <1>6. HistoryHolds'
    BY <1>1, <1>3 DEF HistoryHolds, In
  <1>7. \A w \in Replicas : work[w] # Idle => Held(w) # m
    BY <1>1, FanoutAssumption DEF DeliveredFirst
  <1>8. RecipientsHold'
    BY <1>1, <1>2, <1>7 DEF RecipientsHold, Held
  <1>9. AckingIsNotified'
    BY <1>1, <1>2, <1>7 DEF AckingIsNotified, Notified, Held
  <1>10. SteadySubscribersAreNotified'
    <2> SUFFICES ASSUME NEW x \in Releases, x \in acked \/ x = seenTag
                 PROVE  \A s \in steady'[x] : rows[x][s] > 0
      BY <1>1 DEF SteadySubscribersAreNotified
    <2>1. x # m
      BY <1>1, ReleasesAssumption DEF DeliveredFirst
    <2> QED BY <1>2, <2>1 DEF SteadySubscribersAreNotified
  <1>11. OnlyTheConfirmedAreTold'
    <2> SUFFICES ASSUME NEW x \in Releases, NEW s \in Subscribers, rows[x][s] > 0
                 PROVE  s \in wanted'[x]
      BY <1>1 DEF OnlyTheConfirmedAreTold
    <2>1. x # m
      BY <1>1, FanoutAssumption DEF DeliveredFirst
    <2> QED BY <1>2, <2>1 DEF OnlyTheConfirmedAreTold
  <1> QED BY <1>4, <1>5, <1>6, <1>8, <1>9, <1>10, <1>11

(***************************************************************************)
(* Subscribers come and go: a list that was read before does not get worse.*)
(***************************************************************************)
LEMMA SubscribersKeep ==
  ASSUME IInv, DeleteRepo \/ \E s \in Subscribers : Confirm(s) \/ Leave(s)
  PROVE  IInv'
  <1> USE DEF IInv
  <1>1. /\ UNCHANGED <<count, due, acked, inbox, work, rows, seenTag, faults>>
        /\ repo' \in BOOLEAN
        /\ state' \in [Subscribers -> {"pending", "confirmed", "gone"}]
        /\ steady' \in [Releases -> SUBSET Subscribers]
        /\ wanted' \in [Releases -> SUBSET Subscribers]
        /\ \A m \in Releases : /\ steady'[m] \subseteq steady[m]
                                /\ wanted[m] \subseteq wanted'[m]
    <2>1. CASE DeleteRepo
      BY <2>1 DEF DeleteRepo, queue, history, TypeOK
    <2>2. ASSUME NEW s \in Subscribers, Confirm(s)
          PROVE  /\ UNCHANGED <<count, due, acked, inbox, work, rows, seenTag, faults>>
                 /\ repo' \in BOOLEAN
                 /\ state' \in [Subscribers -> {"pending", "confirmed", "gone"}]
                 /\ steady' \in [Releases -> SUBSET Subscribers]
                 /\ wanted' \in [Releases -> SUBSET Subscribers]
                 /\ \A m \in Releases : /\ steady'[m] \subseteq steady[m]
                                         /\ wanted[m] \subseteq wanted'[m]
      <3>1. /\ wanted' = [m \in Releases |-> wanted[m] \cup {s}] /\ steady' = steady
            /\ state' = [state EXCEPT ![s] = "confirmed"]
        BY <2>2 DEF Confirm
      <3>2. /\ wanted' \in [Releases -> SUBSET Subscribers]
            /\ \A m \in Releases : wanted[m] \subseteq wanted'[m]
        BY <3>1 DEF TypeOK
      <3> QED BY <2>2, <3>1, <3>2 DEF Confirm, queue, TypeOK
    <2>3. ASSUME NEW s \in Subscribers, Leave(s)
          PROVE  /\ UNCHANGED <<count, due, acked, inbox, work, rows, seenTag, faults>>
                 /\ repo' \in BOOLEAN
                 /\ state' \in [Subscribers -> {"pending", "confirmed", "gone"}]
                 /\ steady' \in [Releases -> SUBSET Subscribers]
                 /\ wanted' \in [Releases -> SUBSET Subscribers]
                 /\ \A m \in Releases : /\ steady'[m] \subseteq steady[m]
                                         /\ wanted[m] \subseteq wanted'[m]
      <3>1. /\ steady' = [m \in Releases |-> steady[m] \ {s}] /\ wanted' = wanted
            /\ state' = [state EXCEPT ![s] = "gone"]
        BY <2>3 DEF Leave
      <3>2. /\ steady' \in [Releases -> SUBSET Subscribers]
            /\ \A m \in Releases : steady'[m] \subseteq steady[m]
        BY <3>1 DEF TypeOK
      <3> QED BY <2>3, <3>1, <3>2 DEF Leave, queue, TypeOK
    <2> QED BY <2>1, <2>2, <2>3
  <1>2. \A m \in Releases : \A x \in steady'[m] : state'[x] = "confirmed"
    BY DEF DeleteRepo, Confirm, Leave, history, HistoryHolds, TypeOK, In
  <1>3. \A m \in Releases : \A x \in Subscribers :
           state'[x] = "confirmed" => state[x] = "confirmed" \/ x \in wanted'[m]
    BY DEF DeleteRepo, Confirm, Leave, TypeOK
  <1>4. TypeOK'
    BY <1>1 DEF TypeOK, QueueTypeOK
  <1>5. DeliveredFirst'
    BY <1>1 DEF DeliveredFirst, Held
  <1>6. HistoryHolds'
    <2>1. \A m \in Releases : steady'[m] \subseteq In("confirmed")'
      BY <1>1, <1>2 DEF In, TypeOK
    <2>2. \A m \in Releases : Published(m)' => In("confirmed")' \subseteq wanted'[m]
      BY <1>1, <1>3 DEF HistoryHolds, Published, In
    <2> QED BY <2>1, <2>2 DEF HistoryHolds
  <1>7. RecipientsHold'
    BY <1>1 DEF RecipientsHold, Held
  <1>8. AckingIsNotified'
    BY <1>1 DEF AckingIsNotified, Notified, Held
  <1>9. SteadySubscribersAreNotified' /\ OnlyTheConfirmedAreTold'
    BY <1>1 DEF SteadySubscribersAreNotified, OnlyTheConfirmedAreTold
  <1> QED BY <1>4, <1>5, <1>6, <1>7, <1>8, <1>9

LEMMA QueueKeeps ==
  ASSUME IInv, NEW m \in Msgs,
         \/ AckWaitExpires(m) \/ AckWaitTooShort(m)
         \/ \E w \in Replicas : Receive(w, m)
  PROVE  IInv'
  <1> USE DEF IInv
  <1>1. /\ UNCHANGED <<acked, work, state, repo, rows, seenTag, steady, wanted>>
        /\ due' \subseteq due \cup {m}
        /\ faults' \in 0..MaxFaults
    BY FanoutAssumption
       DEF AckWaitExpires, AckWaitTooShort, GiveBack, Receive, Deliver, Fault, tables,
           history, TypeOK
  <1>9. \/ UNCHANGED <<inbox, count>>
        \/ \E w \in Replicas : Deliver(w, m)
    BY DEF AckWaitExpires, AckWaitTooShort, GiveBack, Receive
  <1>10. count[m] \in 0..MaxDeliver
    BY DEF TypeOK, QueueTypeOK
  <1>2. /\ count' \in [Msgs -> 0..MaxDeliver]
        /\ \A x \in Msgs : count[x] > 0 => count'[x] > 0
    <2>1. CASE UNCHANGED count
      BY <2>1 DEF TypeOK, QueueTypeOK
    <2>2. CASE count' = [count EXCEPT ![m] = @ + 1] /\ count[m] < MaxDeliver
      <3>1. count[m] + 1 \in 0..MaxDeliver /\ count[m] + 1 > 0
        BY <2>2, <1>10, FanoutAssumption
      <3> QED BY <2>2, <3>1 DEF TypeOK, QueueTypeOK
    <2> QED BY <1>9, <2>1, <2>2 DEF Deliver
  <1>3. \/ UNCHANGED <<inbox, count>>
        \/ \E w \in Replicas :
              /\ count[m] + 1 \in 1..MaxDeliver /\ count'[m] > 0
              /\ inbox' = [inbox EXCEPT ![w] = @ \cup {[msg |-> m, n |-> count[m] + 1]}]
    <2> SUFFICES ASSUME NEW w \in Replicas, Deliver(w, m)
                 PROVE  /\ count[m] + 1 \in 1..MaxDeliver /\ count'[m] > 0
                        /\ inbox' = [inbox EXCEPT ![w] = @ \cup {[msg |-> m, n |-> count[m] + 1]}]
      BY <1>9
    <2>1. count[m] + 1 \in 1..MaxDeliver
      BY <1>10, FanoutAssumption DEF Deliver
    <2>2. count'[m] = count[m] + 1
      BY DEF Deliver, TypeOK, QueueTypeOK
    <2> QED BY <2>1, <2>2, <1>10 DEF Deliver
  <1>4. /\ inbox' \in [Replicas -> SUBSET Deliveries]
        /\ \A w \in Replicas : \A d \in inbox'[w] : d \in inbox[w] \/ (d.msg = m /\ count'[m] > 0)
    <2>1. CASE UNCHANGED <<inbox, count>>
      BY <2>1 DEF TypeOK, QueueTypeOK
    <2>2. CASE \E w \in Replicas :
              /\ count[m] + 1 \in 1..MaxDeliver /\ count'[m] > 0
              /\ inbox' = [inbox EXCEPT ![w] = @ \cup {[msg |-> m, n |-> count[m] + 1]}]
      <3> DEFINE e == [msg |-> m, n |-> count[m] + 1]
      <3>1. PICK w \in Replicas : inbox' = [inbox EXCEPT ![w] = @ \cup {e}]
        BY <2>2
      <3>2. e \in Deliveries /\ e.msg = m /\ count'[m] > 0
        BY <2>2 DEF Deliveries
      <3> HIDE DEF e
      <3> QED BY <3>1, <3>2 DEF TypeOK, QueueTypeOK
    <2> QED BY <1>3, <2>1, <2>2
  <1>5. TypeOK'
    BY <1>1, <1>2, <1>4 DEF TypeOK, QueueTypeOK
  <1>6. DeliveredFirst'
    <2>1. \A w \in Replicas : \A d \in inbox'[w] : count'[d.msg] > 0
      BY <1>2, <1>4 DEF DeliveredFirst, TypeOK, QueueTypeOK, Deliveries
    <2>2. \A w \in Replicas : work[w] # Idle => count'[Held(w)] > 0
      BY <1>2 DEF DeliveredFirst, Held, TypeOK, Callbacks
    <2>3. \A x \in acked : count'[x] > 0
      BY <1>2 DEF DeliveredFirst, TypeOK, QueueTypeOK
    <2>4. \A x \in Releases : x \in Msgs
      BY DEF Msgs
    <2> QED BY <1>1, <1>2, <2>1, <2>2, <2>3, <2>4 DEF DeliveredFirst, Held, TypeOK
  <1>7. HistoryHolds' /\ RecipientsHold' /\ AckingIsNotified'
    <2>1. \A x \in Releases : Published(x)' => Published(x)
      <3>1. count[m] > 0 \/ m \in due
        BY DEF AckWaitExpires, AckWaitTooShort, GiveBack, Receive, Deliver
      <3>2. \A x \in Msgs : x # m => count'[x] = count[x]
        BY <1>9 DEF Deliver, TypeOK, QueueTypeOK
      <3> QED BY <1>1, <3>1, <3>2 DEF Published, Msgs
    <2>2. HistoryHolds'
      BY <1>1, <2>1 DEF HistoryHolds, In
    <2> QED BY <1>1, <2>2 DEF RecipientsHold, AckingIsNotified, Notified, Held
  <1>8. SteadySubscribersAreNotified' /\ OnlyTheConfirmedAreTold'
    BY <1>1 DEF SteadySubscribersAreNotified, OnlyTheConfirmedAreTold
  <1> QED BY <1>5, <1>6, <1>7, <1>8

(***************************************************************************)
(* Steps of one replica: the rest of the system stays as it is.            *)
(***************************************************************************)
LEMMA ReplicaWork ==
  ASSUME IInv, NEW w \in Replicas, NEW j \in {Idle} \cup Callbacks,
         work' = [work EXCEPT ![w] = j],
         UNCHANGED <<count, steady, wanted, state>>,
         \A m \in Releases : Published(m)' => Published(m),
         \A v \in Replicas : inbox'[v] \subseteq inbox[v],
         j # Idle => count[j.msg] > 0,
         \A m \in Releases : \A s \in Subscribers : rows'[m][s] >= rows[m][s],
         rows' \in [Releases -> [Subscribers -> Nat]],
         j # Idle /\ j.pc = "commit" =>
            /\ j.msg \in Releases
            /\ steady[j.msg] \subseteq j.recs /\ j.recs \subseteq wanted[j.msg],
         j # Idle /\ j.pc = "ack" /\ j.msg \in Releases =>
            \A s \in steady[j.msg] : rows'[j.msg][s] > 0
  PROVE  /\ work' \in [Replicas -> {Idle} \cup Callbacks]
         /\ \A v \in Replicas : \A d \in inbox'[v] : count'[d.msg] > 0
         /\ \A v \in Replicas : work'[v] # Idle => count'[work'[v].msg] > 0
         /\ HistoryHolds' /\ RecipientsHold' /\ AckingIsNotified'
  <1> USE DEF IInv
  <1>1. \A v \in Replicas : work'[v] = IF v = w THEN j ELSE work[v]
    BY DEF TypeOK
  <1>2. work' \in [Replicas -> {Idle} \cup Callbacks]
    BY DEF TypeOK
  <1>3. /\ \A v \in Replicas : \A d \in inbox'[v] : count'[d.msg] > 0
        /\ \A v \in Replicas : work'[v] # Idle => count'[work'[v].msg] > 0
    BY <1>1 DEF DeliveredFirst, Held
  <1>4. HistoryHolds'
    BY DEF HistoryHolds, In
  <1>5. RecipientsHold'
    BY <1>1 DEF RecipientsHold, Held
  <1>6. AckingIsNotified'
    <2> SUFFICES ASSUME NEW v \in Replicas, work'[v] # Idle, work'[v].pc = "ack",
                        work'[v].msg \in Releases, NEW s \in steady[work'[v].msg]
                 PROVE  rows'[work'[v].msg][s] > 0
      BY DEF AckingIsNotified, Notified, Held
    <2>1. CASE v = w
      BY <1>1, <2>1
    <2>2. CASE v # w
      <3>1. work'[v] = work[v] /\ s \in Subscribers
        BY <1>1, <2>2 DEF TypeOK
      <3>2. rows[work[v].msg][s] > 0
        BY <3>1 DEF AckingIsNotified, Notified, Held
      <3> QED BY <3>1, <3>2 DEF TypeOK
    <2> QED BY <2>1, <2>2
  <1> QED BY <1>2, <1>3, <1>4, <1>5, <1>6

\* The deliveries, tables and history of a step that only reads.
LEMMA ReadingKeeps ==
  ASSUME IInv, NEW w \in Replicas, NEW j \in {Idle} \cup Callbacks,
         work' = [work EXCEPT ![w] = j],
         UNCHANGED <<count, tables, history>>,
         due' \subseteq Msgs, \A m \in Releases : Published(m)' => Published(m),
         faults' \in 0..MaxFaults,
         acked' = acked \/ \E m \in Msgs : acked' = acked \cup {m} /\ count[m] > 0
                                           /\ (m \in Releases => Notified(m)),
         inbox' \in [Replicas -> SUBSET Deliveries],
         \A v \in Replicas : inbox'[v] \subseteq inbox[v],
         j # Idle => count[j.msg] > 0,
         j # Idle /\ j.pc = "commit" =>
            /\ j.msg \in Releases
            /\ steady[j.msg] \subseteq j.recs /\ j.recs \subseteq wanted[j.msg],
         j # Idle /\ j.pc = "ack" /\ j.msg \in Releases => Notified(j.msg)
  PROVE  IInv'
  <1> USE DEF IInv
  <1>1. UNCHANGED <<state, repo, rows, seenTag, steady, wanted>>
    BY DEF tables, history
  <1>2. /\ work' \in [Replicas -> {Idle} \cup Callbacks]
        /\ \A v \in Replicas : \A d \in inbox'[v] : count'[d.msg] > 0
        /\ \A v \in Replicas : work'[v] # Idle => count'[work'[v].msg] > 0
        /\ HistoryHolds' /\ RecipientsHold' /\ AckingIsNotified'
    <2>1. \A m \in Releases : \A s \in Subscribers : rows'[m][s] >= rows[m][s]
      BY <1>1 DEF TypeOK
    <2>2. rows' \in [Releases -> [Subscribers -> Nat]]
      BY <1>1 DEF TypeOK
    <2>3. j # Idle /\ j.pc = "ack" /\ j.msg \in Releases =>
             \A s \in steady[j.msg] : rows'[j.msg][s] > 0
      BY <1>1 DEF Notified
    <2> QED BY <1>1, <2>1, <2>2, <2>3, ReplicaWork
  <1>3. TypeOK'
    BY <1>1, <1>2 DEF TypeOK, QueueTypeOK
  <1>4. DeliveredFirst'
    BY <1>1, <1>2 DEF DeliveredFirst, Held
  <1>5. SteadySubscribersAreNotified'
    BY <1>1 DEF SteadySubscribersAreNotified, Notified
  <1>6. OnlyTheConfirmedAreTold'
    BY <1>1 DEF OnlyTheConfirmedAreTold
  <1> QED BY <1>2, <1>3, <1>4, <1>5, <1>6

(***************************************************************************)
(* The recipients are the confirmed subscribers of this moment.            *)
(***************************************************************************)
LEMMA ProcessKeeps ==
  ASSUME IInv, NEW w \in Replicas, NEW d \in Deliveries, Process(w, d)
  PROVE  IInv'
  <1> USE DEF IInv
  <1>1. PICK pc \in {"commit", "ack", "nak"}, recs \in SUBSET Subscribers :
          /\ work' = [work EXCEPT ![w] = [pc |-> pc, msg |-> d.msg, recs |-> recs]]
          /\ pc = "commit" => d.msg \in Releases /\ recs = In("confirmed")
          /\ pc = "ack" => d.msg \notin Releases
    BY FanoutAssumption DEF Process, Enter, ListConfirmed, ListFails, In
  <1>2. /\ UNCHANGED <<count, due, acked, tables, history>>
        /\ d \in inbox[w] /\ inbox' = [inbox EXCEPT ![w] = @ \ {d}]
        /\ faults' \in 0..MaxFaults
    BY FanoutAssumption DEF Process, Take, queue, ListFails, Fault, TypeOK
  <1> DEFINE j == [pc |-> pc, msg |-> d.msg, recs |-> recs]
  <1>3. d.msg \in Msgs /\ count[d.msg] > 0
    BY <1>2 DEF Deliveries, DeliveredFirst
  <1>4. j \in Callbacks /\ j.pc = pc /\ j.msg = d.msg /\ j.recs = recs
    BY <1>3 DEF Callbacks
  <1> HIDE DEF j
  <1>5. j.pc = "commit" => /\ steady[j.msg] \subseteq j.recs
                           /\ j.recs \subseteq wanted[j.msg]
    BY <1>1, <1>3, <1>4 DEF HistoryHolds, Published, In
  <1>6. inbox' \in [Replicas -> SUBSET Deliveries] /\ \A v \in Replicas : inbox'[v] \subseteq inbox[v]
    BY <1>2 DEF TypeOK, QueueTypeOK
  <1>7. work' = [work EXCEPT ![w] = j] /\ due' \subseteq Msgs
    BY <1>1, <1>2 DEF j, TypeOK, QueueTypeOK
  <1>8. \A m \in Releases : Published(m)' => Published(m)
    BY <1>2 DEF Published
  <1> QED BY <1>1, <1>2, <1>3, <1>4, <1>5, <1>6, <1>7, <1>8, ReadingKeeps

LEMMA AckKeeps ==
  ASSUME IInv, NEW w \in Replicas, Ack(w) \/ Nak(w) \/ Crash(w)
  PROVE  IInv'
  <1> USE DEF IInv
  <1>1. /\ work' = [work EXCEPT ![w] = Idle]
        /\ UNCHANGED <<count, tables, history>>
        /\ faults' \in 0..MaxFaults
    BY FanoutAssumption DEF Ack, Nak, Crash, Fault, TypeOK, queue
  <1>2. inbox' = inbox \/ inbox' = [inbox EXCEPT ![w] = {}]
    BY DEF Ack, Nak, Crash
  <1>3. inbox' \in [Replicas -> SUBSET Deliveries] /\ \A v \in Replicas : inbox'[v] \subseteq inbox[v]
    BY <1>2 DEF TypeOK, QueueTypeOK
  <1>4. work[w] # Idle => work[w].msg \in Msgs /\ count[work[w].msg] > 0
    BY DEF TypeOK, Callbacks, DeliveredFirst, Held
  <1>5. due' \subseteq Msgs
    BY <1>4, IdleIsNoCallback
       DEF Ack, Nak, Crash, AckEffect, NakEffect, queue, TypeOK, QueueTypeOK
  <1>6. acked' = acked \/ \E m \in Msgs : acked' = acked \cup {m} /\ count[m] > 0
                                          /\ (m \in Releases => Notified(m))
    <2>1. CASE Ack(w) /\ acked' # acked
      <3>1. work[w] # Idle /\ work[w].pc = "ack" /\ acked' = acked \cup {work[w].msg}
        BY <2>1, IdleIsNoCallback DEF Ack, AckEffect
      <3> QED BY <3>1, <1>4 DEF AckingIsNotified, Held
    <2>2. CASE ~Ack(w)
      BY <2>2 DEF Nak, Crash, queue
    <2> QED BY <2>1, <2>2
  <1>7. \A m \in Releases : Published(m)' => Published(m)
    BY <1>1, <1>4, IdleIsNoCallback
       DEF Ack, Nak, Crash, AckEffect, NakEffect, queue, Published
  <1> QED BY <1>1, <1>3, <1>5, <1>6, <1>7, ReadingKeeps

(***************************************************************************)
(* The transaction.  A subscriber of its list may be gone by now, but was  *)
(* confirmed when the list was read, after the publication.                *)
(***************************************************************************)
LEMMA CommitKeeps ==
  ASSUME IInv, NEW w \in Replicas, CommitRows(w) \/ CommitFails(w)
  PROVE  IInv'
  <1> USE DEF IInv
  <1> DEFINE m == work[w].msg
             recs == work[w].recs
  <1>1. /\ work[w] # Idle /\ work[w].pc = "commit"
        /\ UNCHANGED <<count, due, acked, inbox, state, repo, steady, wanted>>
        /\ faults' \in 0..MaxFaults
    BY IdleIsNoCallback, FanoutAssumption
       DEF CommitRows, CommitFails, Fault, queue, history, TypeOK
  <1>2. /\ m \in Releases /\ count[m] > 0 /\ recs \in SUBSET Subscribers
        /\ steady[m] \subseteq recs /\ recs \subseteq wanted[m]
    BY <1>1 DEF RecipientsHold, DeliveredFirst, Held, TypeOK, Callbacks
  <1>3. PICK pc \in {"ack", "nak"} :
          /\ work' = [work EXCEPT ![w] = [pc |-> pc, msg |-> m, recs |-> {}]]
          /\ \/ WriteRows(m, recs)
             \/ pc = "nak" /\ UNCHANGED <<rows, seenTag>>
    BY DEF CommitRows, CommitFails, Enter
  <1>4. /\ rows' \in [Releases -> [Subscribers -> Nat]]
        /\ \A x \in Releases : \A s \in Subscribers :
              /\ rows'[x][s] >= rows[x][s]
              /\ rows'[x][s] # rows[x][s] => x = m /\ s \in recs
              /\ x = m /\ s \in recs /\ pc = "ack" => rows'[x][s] > 0
        /\ seenTag' = seenTag \/ (seenTag' = m /\ \A s \in recs : rows'[m][s] > 0)
    <2>1. CASE UNCHANGED <<rows, seenTag>> /\ pc = "nak"
      BY <2>1 DEF TypeOK
    <2>2. CASE WriteRows(m, recs)
      <3>1. rows' = [x \in Releases |-> [s \in Subscribers |->
                        IF x = m /\ s \in recs THEN rows[x][s] + 1 ELSE rows[x][s]]]
        BY <2>2 DEF WriteRows
      <3>2. \A x \in Releases : \A s \in Subscribers :
               /\ rows[x][s] \in Nat
               /\ rows'[x][s] = IF x = m /\ s \in recs THEN rows[x][s] + 1 ELSE rows[x][s]
        BY <3>1 DEF TypeOK
      <3>3. rows' \in [Releases -> [Subscribers -> Nat]]
        BY <3>1, <3>2
      <3>4. seenTag' = seenTag \/ seenTag' = m
        BY <2>2 DEF WriteRows
      <3> QED BY <3>2, <3>3, <3>4, <1>2
    <2> QED BY <1>3, <2>1, <2>2
  <1> DEFINE j == [pc |-> pc, msg |-> m, recs |-> {}]
  <1>5. j \in Callbacks /\ j.pc = pc /\ j.msg = m /\ work' = [work EXCEPT ![w] = j]
    BY <1>2, <1>3 DEF Callbacks, Msgs
  <1> HIDE DEF j
  <1>6. /\ work' \in [Replicas -> {Idle} \cup Callbacks]
        /\ \A v \in Replicas : \A d \in inbox'[v] : count'[d.msg] > 0
        /\ \A v \in Replicas : work'[v] # Idle => count'[work'[v].msg] > 0
        /\ HistoryHolds' /\ RecipientsHold' /\ AckingIsNotified'
    <2>1. \A v \in Replicas : inbox'[v] \subseteq inbox[v]
      BY <1>1
    <2>2. j.pc # "commit"
      BY <1>3, <1>5
    <2>3. j.pc = "ack" => \A s \in steady[m] : rows'[m][s] > 0
      BY <1>2, <1>4, <1>5
    <2>4. \A x \in Releases : Published(x)' => Published(x)
      BY <1>1 DEF Published
    <2> QED BY <1>1, <1>2, <1>4, <1>5, <2>1, <2>2, <2>3, <2>4, ReplicaWork
  <1>7. TypeOK'
    BY <1>1, <1>2, <1>4, <1>6 DEF TypeOK, QueueTypeOK
  <1>8. DeliveredFirst'
    <2>1. seenTag' # NoRelease => count[seenTag'] > 0
      BY <1>2, <1>4 DEF DeliveredFirst
    <2>2. \A x \in Releases : \A s \in Subscribers : rows'[x][s] > 0 => count[x] > 0
      BY <1>2, <1>4 DEF DeliveredFirst
    <2>3. \A x \in acked : count[x] > 0
      BY DEF DeliveredFirst
    <2> QED BY <1>1, <1>6, <2>1, <2>2, <2>3 DEF DeliveredFirst, Held
  <1>9. SteadySubscribersAreNotified'
    <2> SUFFICES ASSUME NEW x \in Releases, x \in acked \/ x = seenTag', NEW s \in steady[x]
                 PROVE  rows'[x][s] > 0
      BY <1>1 DEF SteadySubscribersAreNotified
    <2>1. s \in Subscribers /\ rows[x][s] \in Nat /\ rows'[x][s] \in Nat
      BY <1>4 DEF TypeOK
    <2>2. CASE x \in acked \/ x = seenTag
      <3>1. rows[x][s] > 0
        BY <2>2 DEF SteadySubscribersAreNotified
      <3> QED BY <3>1, <2>1, <1>4
    <2>3. CASE x = seenTag' /\ x # seenTag
      BY <2>3, <1>2, <1>4
    <2> QED BY <2>2, <2>3
  <1>10. OnlyTheConfirmedAreTold'
    <2> SUFFICES ASSUME NEW x \in Releases, NEW s \in Subscribers, rows'[x][s] > 0
                 PROVE  s \in wanted[x]
      BY <1>1 DEF OnlyTheConfirmedAreTold
    <2>1. CASE rows'[x][s] = rows[x][s]
      BY <2>1 DEF OnlyTheConfirmedAreTold
    <2>2. CASE rows'[x][s] # rows[x][s]
      BY <1>2, <1>4, <2>2
    <2> QED BY <2>1, <2>2
  <1> QED BY <1>6, <1>7, <1>8, <1>9, <1>10

LEMMA NextIInv == IInv /\ [Next]_vars => IInv'
  <1> SUFFICES ASSUME IInv, [Next]_vars PROVE IInv'
    OBVIOUS
  <1>1. ASSUME NEW m \in Msgs,
               Publish(m) \/ AckWaitExpires(m) \/ AckWaitTooShort(m)
                  \/ \E w \in Replicas : Receive(w, m)
        PROVE  IInv'
    BY <1>1, PublishKeeps, QueueKeeps
  <1>2. CASE DeleteRepo \/ \E s \in Subscribers : Confirm(s) \/ Leave(s)
    BY <1>2, SubscribersKeep
  <1>3. ASSUME NEW w \in Replicas, Callback(w) \/ Crash(w)
        PROVE  IInv'
    BY <1>3, ProcessKeeps, AckKeeps, CommitKeeps DEF Callback
  <1>4. CASE UNCHANGED vars
    BY <1>4 DEF vars, queue, tables, history, IInv, TypeOK, QueueTypeOK, DeliveredFirst, Held,
                HistoryHolds, Published, In, RecipientsHold, AckingIsNotified, Notified,
                SteadySubscribersAreNotified, OnlyTheConfirmedAreTold
  <1> QED BY <1>1, <1>2, <1>3, <1>4 DEF Next

----------------------------------------------------------------------------

(***************************************************************************)
(* Queue, callbacks, tables and history are well typed.                    *)
(***************************************************************************)
THEOREM TypeCorrect == Spec => []TypeOK
  <1>1. IInv => TypeOK
    BY DEF IInv
  <1> QED BY <1>1, InitIInv, NextIInv, PTL DEF Spec

(***************************************************************************)
(* handleReleaseFound (worker.go 82-124) leaves out nobody who stayed: for *)
(* any releases in any order, redeliveries, failures and crashes.          *)
(***************************************************************************)
THEOREM NobodySteadyIsLeftOut == Spec => []SteadySubscribersAreNotified
  <1>1. IInv => SteadySubscribersAreNotified
    BY DEF IInv
  <1> QED BY <1>1, InitIInv, NextIInv, PTL DEF Spec

(***************************************************************************)
(* No redelivery, however late, and no transaction after a stale read      *)
(* (worker.go 89-124) tells a release to somebody who was not confirmed at *)
(* its publication or since.                                               *)
(***************************************************************************)
THEOREM OnlySubscribersAreTold == Spec => []OnlyTheConfirmedAreTold
  <1>1. IInv => OnlyTheConfirmedAreTold
    BY DEF IInv
  <1> QED BY <1>1, InitIInv, NextIInv, PTL DEF Spec

----------------------------------------------------------------------------
(* Surplus rows are paid for by faults.                                    *)

\* The deliveries of a message that a replica has pulled and not begun.
Waiting(m) ==
    {n \in 1..MaxDeliver : \E w \in Replicas : [msg |-> m, n |-> n] \in inbox[w]}

\* The callbacks that will write rows of the message or hand it back.
Holders(m) ==
    {w \in Replicas : work[w] # Idle /\ work[w].pc \in {"commit", "nak"} /\ Held(w) = m}

\* A delivery is counted, and with one replica; what is due is not acknowledged.
CopiesAreCounted ==
    /\ \A w \in Replicas : \A d \in inbox[w] : d.n <= count[d.msg]
    /\ \A v, w \in Replicas : v # w => inbox[v] \cap inbox[w] = {}
    /\ due \cap acked = {}

\* The server delivers the message again without another fault.
Open(m) == m \notin acked /\ (m \in due \/ ~InProgress(m))

(***************************************************************************)
(* The account of a release and a subscriber: the rows, and every row that *)
(* can still be written without another fault.  A delivery takes over the  *)
(* claim of the open message, the callback that of the delivery, and the   *)
(* row that of the callback; a Nak opens the message again with the claim  *)
(* of a callback that could not write, for which the failure had paid.     *)
(***************************************************************************)
Claims(m) ==
    Cardinality(Waiting(m)) + Cardinality(Holders(m)) + (IF Open(m) THEN 1 ELSE 0)

Budget ==
    \A m \in Releases :
        /\ IsFiniteSet(Holders(m))
        /\ \A s \in Subscribers : rows[m][s] + Claims(m) <= 1 + faults

LEMMA CopiesStep == ASSUME IInv, IInv', CopiesAreCounted, [Next]_vars PROVE CopiesAreCounted'
  <1> USE DEF IInv
  <1>1. ASSUME NEW w \in Replicas, NEW m \in Msgs, Receive(w, m) PROVE CopiesAreCounted'
    <2> DEFINE e == [msg |-> m, n |-> count[m] + 1]
    <2>1. e.msg = m /\ e.n = count[m] + 1
      OBVIOUS
    <2>2. /\ m \in due /\ due' = due \ {m} /\ UNCHANGED acked
          /\ \A v \in Replicas : inbox'[v] = IF v = w THEN inbox[w] \cup {e} ELSE inbox[v]
          /\ \A x \in Msgs : count'[x] = IF x = m THEN count[m] + 1 ELSE count[x]
      BY <1>1 DEF Receive, Deliver, TypeOK, QueueTypeOK
    <2>3. \A v \in Replicas : e \notin inbox[v]
      BY <2>1 DEF CopiesAreCounted, TypeOK, QueueTypeOK
    <2> HIDE DEF e
    <2>4. ASSUME NEW v \in Replicas, NEW d \in inbox'[v] PROVE d.n <= count'[d.msg]
      <3>1. CASE d = e
        BY <2>1, <2>2, <3>1 DEF TypeOK, QueueTypeOK
      <3>2. CASE d \in inbox[v]
        BY <2>2, <3>2 DEF CopiesAreCounted, TypeOK, QueueTypeOK, Deliveries
      <3> QED BY <2>2, <3>1, <3>2
    <2>5. \A u, v \in Replicas : u # v => inbox'[u] \cap inbox'[v] = {}
      BY <2>2, <2>3 DEF CopiesAreCounted
    <2> QED BY <2>2, <2>4, <2>5 DEF CopiesAreCounted
  <1>2. ASSUME UNCHANGED count, \A v \in Replicas : inbox'[v] \subseteq inbox[v],
               due' \cap acked' = {}
        PROVE  CopiesAreCounted'
    BY <1>2 DEF CopiesAreCounted
  <1>3. ASSUME NEW m \in Msgs, Publish(m) \/ AckWaitExpires(m) \/ AckWaitTooShort(m)
        PROVE  CopiesAreCounted'
    BY <1>2, <1>3 DEF Publish, AckWaitExpires, AckWaitTooShort, GiveBack, CanReturn,
                      CopiesAreCounted, DeliveredFirst
  <1>4. ASSUME NEW w \in Replicas, Callback(w) \/ Crash(w) PROVE CopiesAreCounted'
    <2>1. UNCHANGED count
      BY <1>4 DEF Callback, Crash, Process, CommitRows, CommitFails, Ack, Nak, queue
    <2>2. \A v \in Replicas : inbox'[v] \subseteq inbox[v]
      BY <1>4 DEF Callback, Crash, Process, CommitRows, CommitFails, Ack, Nak, Take,
                  TypeOK, QueueTypeOK
    <2>3. due' \cap acked' = {}
      BY <1>4 DEF Callback, Crash, Process, CommitRows, CommitFails, Ack, Nak, queue,
                  AckEffect, NakEffect, CanReturn, CopiesAreCounted
    <2> QED BY <1>2, <2>1, <2>2, <2>3
  <1>5. CASE UNCHANGED vars \/ DeleteRepo \/ \E s \in Subscribers : Confirm(s) \/ Leave(s)
    BY <1>5 DEF vars, DeleteRepo, Confirm, Leave, queue, CopiesAreCounted
  <1> QED BY <1>1, <1>3, <1>4, <1>5 DEF Next

(***************************************************************************)
(* How a number of claims moves with the set of those who hold them.       *)
(***************************************************************************)
LEMMA Counting ==
  ASSUME NEW S, IsFiniteSet(S), NEW T
  PROVE  /\ Cardinality(S) \in Nat
         /\ T \subseteq S =>
               IsFiniteSet(T) /\ Cardinality(T) \in Nat /\ Cardinality(T) <= Cardinality(S)
         /\ \A x : T \subseteq S \cup {x} =>
               IsFiniteSet(T) /\ Cardinality(T) \in Nat /\ Cardinality(T) <= Cardinality(S) + 1
         /\ \A x \in S : T \subseteq S \ {x} =>
               IsFiniteSet(T) /\ Cardinality(T) \in Nat /\ Cardinality(T) + 1 <= Cardinality(S)
  <1>1. Cardinality(S) \in Nat
    BY FS_CardinalityType
  <1>2. ASSUME T \subseteq S
        PROVE  IsFiniteSet(T) /\ Cardinality(T) \in Nat /\ Cardinality(T) <= Cardinality(S)
    BY <1>2, FS_Subset, FS_CardinalityType
  <1>3. ASSUME NEW x, T \subseteq S \cup {x}
        PROVE  IsFiniteSet(T) /\ Cardinality(T) \in Nat /\ Cardinality(T) <= Cardinality(S) + 1
    <2>1. IsFiniteSet(S \cup {x}) /\ Cardinality(S \cup {x}) \in Nat
      BY FS_AddElement, FS_CardinalityType
    <2>2. Cardinality(S \cup {x}) = IF x \in S THEN Cardinality(S) ELSE Cardinality(S) + 1
      BY FS_AddElement
    <2>3. IsFiniteSet(T) /\ Cardinality(T) \in Nat /\ Cardinality(T) <= Cardinality(S \cup {x})
      BY <1>3, <2>1, FS_Subset, FS_CardinalityType
    <2> QED BY <1>1, <2>1, <2>2, <2>3
  <1>4. ASSUME NEW x \in S, T \subseteq S \ {x}
        PROVE  IsFiniteSet(T) /\ Cardinality(T) \in Nat /\ Cardinality(T) + 1 <= Cardinality(S)
    <2>1. IsFiniteSet(S \ {x}) /\ Cardinality(S \ {x}) \in Nat
      BY FS_RemoveElement, FS_CardinalityType
    <2>2. Cardinality(S \ {x}) = Cardinality(S) - 1
      BY FS_RemoveElement
    <2>3. IsFiniteSet(T) /\ Cardinality(T) \in Nat /\ Cardinality(T) <= Cardinality(S \ {x})
      BY <1>4, <2>1, FS_Subset, FS_CardinalityType
    <2> QED BY <1>1, <2>1, <2>2, <2>3
  <1> QED BY <1>1, <1>2, <1>3, <1>4

\* What a step may do to the claims on a message, and to its rows.
Fewer(m) == Waiting(m)' \subseteq Waiting(m) /\ Holders(m)' \subseteq Holders(m)

\* Nothing new is claimed.
Calm(m) == Fewer(m) /\ (Open(m)' => Open(m)) /\ rows'[m] = rows[m] /\ faults' >= faults

\* The open message becomes a delivery.
Pulls(m) ==
    /\ \E n \in 1..MaxDeliver : Waiting(m)' \subseteq Waiting(m) \cup {n}
    /\ Holders(m)' \subseteq Holders(m)
    /\ Open(m) /\ ~Open(m)'
    /\ rows'[m] = rows[m] /\ faults' = faults

\* A delivery becomes a callback.
Begins(m) ==
    /\ \E n \in Waiting(m) : Waiting(m)' \subseteq Waiting(m) \ {n}
    /\ \E w \in Replicas : Holders(m)' \subseteq Holders(m) \cup {w}
    /\ Open(m)' => Open(m)
    /\ rows'[m] = rows[m] /\ faults' >= faults

\* The callback of a replica becomes rows, or opens the message again.
Ends(m) ==
    /\ Waiting(m)' \subseteq Waiting(m)
    /\ \E w \in Holders(m) : Holders(m)' \subseteq Holders(m) \ {w}
    /\ \/ rows'[m] = rows[m]
       \/ (Open(m)' => Open(m)) /\ \A s \in Subscribers : rows'[m][s] <= rows[m][s] + 1
    /\ faults' = faults

\* A fault pays for one of the two.
Paid(m) ==
    /\ Fewer(m) /\ faults' = faults + 1
    /\ \/ rows'[m] = rows[m]
       \/ (Open(m)' => Open(m)) /\ \A s \in Subscribers : rows'[m][s] <= rows[m][s] + 1

(***************************************************************************)
(* Each of the five keeps the account.                                     *)
(***************************************************************************)
LEMMA AccountKept ==
  ASSUME TypeOK, TypeOK', Budget, NEW m \in Releases,
         Calm(m) \/ Pulls(m) \/ Begins(m) \/ Ends(m) \/ Paid(m)
  PROVE  /\ IsFiniteSet(Holders(m)')
         /\ \A s \in Subscribers : rows'[m][s] + Claims(m)' <= 1 + faults'
  <1> DEFINE p == Cardinality(Waiting(m))
             q == Cardinality(Waiting(m)')
             h == Cardinality(Holders(m))
             k == Cardinality(Holders(m)')
  <1>1. IsFiniteSet(Waiting(m)) /\ p \in Nat /\ IsFiniteSet(Holders(m)) /\ h \in Nat
    <2>1. IsFiniteSet(1..MaxDeliver)
      BY FS_Interval, FanoutAssumption
    <2>2. IsFiniteSet(Waiting(m))
      BY <2>1, FS_Subset DEF Waiting
    <2>3. IsFiniteSet(Holders(m))
      BY DEF Budget
    <2> QED BY <2>2, <2>3, FS_CardinalityType
  <1>2. \A s \in Subscribers :
           /\ rows[m][s] \in Nat /\ rows'[m][s] \in Nat
           /\ rows[m][s] + (p + h + (IF Open(m) THEN 1 ELSE 0)) <= 1 + faults
    BY DEF Budget, Claims, TypeOK
  <1>3. faults \in Nat /\ faults' \in Nat
    BY FanoutAssumption DEF TypeOK
  <1>4. Claims(m)' = q + k + (IF Open(m)' THEN 1 ELSE 0)
    BY DEF Claims
  <1>5. ASSUME Fewer(m)
        PROVE  IsFiniteSet(Holders(m)') /\ q \in Nat /\ q <= p /\ k \in Nat /\ k <= h
    BY <1>1, <1>5, Counting DEF Fewer
  <1>6. CASE Calm(m)
    <2>1. IsFiniteSet(Holders(m)') /\ q \in Nat /\ q <= p /\ k \in Nat /\ k <= h
      BY <1>5, <1>6 DEF Calm
    <2>2. (Open(m)' => Open(m)) /\ rows'[m] = rows[m] /\ faults' >= faults
      BY <1>6 DEF Calm
    <2> HIDE DEF p, q, h, k
    <2> QED BY <1>1, <1>2, <1>3, <1>4, <2>1, <2>2
  <1>7. CASE Pulls(m)
    <2>1. q \in Nat /\ q <= p + 1
      BY <1>1, <1>7, Counting DEF Pulls
    <2>2. IsFiniteSet(Holders(m)') /\ k \in Nat /\ k <= h
      BY <1>1, <1>7, Counting DEF Pulls
    <2>3. Open(m) /\ ~Open(m)' /\ rows'[m] = rows[m] /\ faults' = faults
      BY <1>7 DEF Pulls
    <2> HIDE DEF p, q, h, k
    <2> QED BY <1>1, <1>2, <1>3, <1>4, <2>1, <2>2, <2>3
  <1>8. CASE Begins(m)
    <2>1. q \in Nat /\ q + 1 <= p
      BY <1>1, <1>8, Counting DEF Begins
    <2>2. IsFiniteSet(Holders(m)') /\ k \in Nat /\ k <= h + 1
      BY <1>1, <1>8, Counting DEF Begins
    <2>3. (Open(m)' => Open(m)) /\ rows'[m] = rows[m] /\ faults' >= faults
      BY <1>8 DEF Begins
    <2> HIDE DEF p, q, h, k
    <2> QED BY <1>1, <1>2, <1>3, <1>4, <2>1, <2>2, <2>3
  <1>9. CASE Ends(m)
    <2>1. q \in Nat /\ q <= p
      BY <1>1, <1>9, Counting DEF Ends
    <2>2. IsFiniteSet(Holders(m)') /\ k \in Nat /\ k + 1 <= h
      BY <1>1, <1>9, Counting DEF Ends
    <2>3. /\ \/ rows'[m] = rows[m]
             \/ (Open(m)' => Open(m)) /\ \A s \in Subscribers : rows'[m][s] <= rows[m][s] + 1
          /\ faults' = faults
      BY <1>9 DEF Ends
    <2> HIDE DEF p, q, h, k
    <2> QED BY <1>1, <1>2, <1>3, <1>4, <2>1, <2>2, <2>3
  <1>10. CASE Paid(m)
    <2>1. IsFiniteSet(Holders(m)') /\ q \in Nat /\ q <= p /\ k \in Nat /\ k <= h
      BY <1>5, <1>10 DEF Paid
    <2>2. /\ \/ rows'[m] = rows[m]
             \/ (Open(m)' => Open(m)) /\ \A s \in Subscribers : rows'[m][s] <= rows[m][s] + 1
          /\ faults' = faults + 1
      BY <1>10 DEF Paid
    <2> HIDE DEF p, q, h, k
    <2> QED BY <1>1, <1>2, <1>3, <1>4, <2>1, <2>2
  <1> QED BY <1>6, <1>7, <1>8, <1>9, <1>10

(***************************************************************************)
(* Which action does which.                                                *)
(***************************************************************************)
LEMMA ReceiveAccount ==
  ASSUME IInv, CopiesAreCounted, NEW w \in Replicas, NEW x \in Msgs, Receive(w, x),
         NEW m \in Releases
  PROVE  Calm(m) \/ Pulls(m)
  <1> USE DEF IInv
  <1> DEFINE e == [msg |-> x, n |-> count[x] + 1]
  <1>1. /\ UNCHANGED <<acked, work, rows, faults>>
        /\ x \in due /\ due' = due \ {x} /\ count[x] + 1 \in 1..MaxDeliver
        /\ \A v \in Replicas : inbox'[v] = IF v = w THEN inbox[w] \cup {e} ELSE inbox[v]
        /\ faults \in Nat
    BY FanoutAssumption DEF Receive, Deliver, tables, TypeOK, QueueTypeOK
  <1>2. e.msg = x /\ e.n = count[x] + 1
    OBVIOUS
  <1>3. Holders(m)' = Holders(m)
    BY <1>1 DEF Holders, Held
  <1> HIDE DEF e
  <1>4. CASE m # x
    <2>1. Waiting(m)' \subseteq Waiting(m)
      BY <1>1, <1>2, <1>4 DEF Waiting
    <2>2. Pulled(m)' <=> Pulled(m)
      BY <1>1, <1>2, <1>4 DEF Pulled
    <2>3. Open(m)' => Open(m)
      BY <1>1, <1>4, <2>2 DEF Open, InProgress
    <2> QED BY <1>1, <1>3, <2>1, <2>3 DEF Calm, Fewer
  <1>5. CASE m = x
    <2>1. Waiting(m)' \subseteq Waiting(m) \cup {count[x] + 1}
      BY <1>1, <1>2, <1>5 DEF Waiting
    <2>2. Pulled(m)'
      BY <1>1, <1>2, <1>5 DEF Pulled
    <2>3. Open(m) /\ ~Open(m)'
      BY <1>1, <1>5, <2>2 DEF Open, InProgress, CopiesAreCounted
    <2> QED BY <1>1, <1>3, <2>1, <2>3 DEF Pulls
  <1> QED BY <1>4, <1>5

(***************************************************************************)
(* Publish, AckWait and the subscribers leave the callbacks as they are.   *)
(***************************************************************************)
LEMMA WorldAccount ==
  ASSUME IInv, NEW m \in Releases,
         \/ \E x \in Msgs : Publish(x) \/ AckWaitExpires(x) \/ AckWaitTooShort(x)
         \/ \E s \in Subscribers : Confirm(s) \/ Leave(s)
         \/ DeleteRepo
         \/ UNCHANGED vars
  PROVE  Calm(m) \/ Paid(m)
  <1> USE DEF IInv
  <1>1. UNCHANGED <<inbox, work, rows, acked>>
    BY DEF Publish, AckWaitExpires, AckWaitTooShort, GiveBack, Confirm, Leave, DeleteRepo,
           vars, queue, tables
  <1>2. Waiting(m)' = Waiting(m) /\ Holders(m)' = Holders(m) /\ InProgress(m)' = InProgress(m)
    BY <1>1 DEF Waiting, Holders, Held, InProgress, Pulled
  <1>3. faults \in Nat
    BY FanoutAssumption DEF TypeOK
  <1>4. CASE \E x \in Msgs : AckWaitTooShort(x)
    BY <1>1, <1>2, <1>4 DEF AckWaitTooShort, Fault, Paid, Fewer
  <1>5. CASE \E x \in Msgs : Publish(x) \/ AckWaitExpires(x)
    <2>1. PICK x \in Msgs : Publish(x) \/ AckWaitExpires(x)
      BY <1>5
    <2>2. faults' = faults /\ due' = due \cup {x} /\ ~InProgress(x)
      <3>1. CASE Publish(x)
        BY <3>1 DEF Publish, InProgress, Pulled, DeliveredFirst, Held
      <3>2. CASE AckWaitExpires(x)
        BY <3>2 DEF AckWaitExpires, GiveBack, history
      <3> QED BY <2>1, <3>1, <3>2
    <2>3. Open(m)' => Open(m)
      BY <1>1, <1>2, <2>2 DEF Open
    <2> QED BY <1>1, <1>2, <1>3, <2>2, <2>3 DEF Calm, Fewer
  <1>6. CASE \/ \E s \in Subscribers : Confirm(s) \/ Leave(s)
             \/ DeleteRepo
             \/ UNCHANGED vars
    <2>1. faults' = faults /\ due' = due
      BY <1>6 DEF Confirm, Leave, DeleteRepo, vars, queue, history
    <2>2. Open(m)' => Open(m)
      BY <1>1, <1>2, <2>1 DEF Open
    <2> QED BY <1>1, <1>2, <1>3, <2>1, <2>2 DEF Calm, Fewer
  <1> QED BY <1>4, <1>5, <1>6

\* A replica begins with a delivery: nobody else has it, and it is now at work.
LEMMA ProcessAccount ==
  ASSUME IInv, CopiesAreCounted, NEW w \in Replicas, NEW d \in Deliveries, Process(w, d),
         NEW m \in Releases
  PROVE  Calm(m) \/ Begins(m)
  <1> USE DEF IInv
  <1>1. PICK pc \in {"commit", "ack", "nak"}, recs \in SUBSET Subscribers :
          work' = [work EXCEPT ![w] = [pc |-> pc, msg |-> d.msg, recs |-> recs]]
    BY DEF Process, Enter, ListConfirmed, ListFails, In
  <1> DEFINE j == [pc |-> pc, msg |-> d.msg, recs |-> recs]
  <1>2. j.pc = pc /\ j.msg = d.msg /\ j \in Callbacks
    BY DEF Callbacks, Deliveries
  <1>3. j # Idle
    BY <1>2, IdleIsNoCallback
  <1>4. \A v \in Replicas : work'[v] = IF v = w THEN j ELSE work[v]
    BY <1>1 DEF TypeOK
  <1> HIDE DEF j
  <1>5. /\ UNCHANGED <<due, acked, rows>> /\ faults \in Nat /\ faults' \in Nat
        /\ faults' >= faults /\ work[w] = Idle /\ d \in inbox[w]
        /\ \A v \in Replicas : inbox'[v] = IF v = w THEN inbox[w] \ {d} ELSE inbox[v]
    BY FanoutAssumption DEF Process, Take, ListFails, Fault, queue, tables, TypeOK, QueueTypeOK
  <1>6. CASE m # d.msg
    <2>1. Waiting(m)' \subseteq Waiting(m)
      BY <1>5 DEF Waiting
    <2>2. Holders(m)' \subseteq Holders(m)
      BY <1>2, <1>4, <1>6 DEF Holders, Held
    <2>3. InProgress(m) => InProgress(m)'
      BY <1>2, <1>3, <1>4, <1>5, <1>6 DEF InProgress, Pulled
    <2> QED BY <1>5, <2>1, <2>2, <2>3 DEF Calm, Fewer, Open
  <1>7. CASE m = d.msg
    <2>1. d = [msg |-> m, n |-> d.n] /\ d.n \in 1..MaxDeliver
      BY <1>7 DEF Deliveries
    <2>2. d.n \in Waiting(m)
      BY <1>5, <2>1 DEF Waiting
    <2>3. Waiting(m)' \subseteq Waiting(m) \ {d.n}
      BY <1>5, <2>1 DEF Waiting, CopiesAreCounted
    <2>4. Holders(m)' \subseteq Holders(m) \cup {w}
      BY <1>4 DEF Holders, Held
    <2>5. InProgress(m)'
      BY <1>2, <1>3, <1>4, <1>7 DEF InProgress
    <2> QED BY <1>5, <2>2, <2>3, <2>4, <2>5 DEF Begins, Open
  <1> QED BY <1>6, <1>7

\* The transaction of a callback, which writes one row for each recipient.
LEMMA CommitAccount ==
  ASSUME IInv, NEW w \in Replicas, CommitRows(w) \/ CommitFails(w), NEW m \in Releases
  PROVE  Calm(m) \/ Ends(m) \/ Paid(m)
  <1> USE DEF IInv
  <1> DEFINE x == work[w].msg
  <1>1. /\ work[w] # Idle /\ work[w].pc = "commit" /\ x \in Msgs
        /\ UNCHANGED <<due, acked, inbox>>
    BY IdleIsNoCallback DEF CommitRows, CommitFails, queue, TypeOK, Callbacks
  <1>2. PICK pc \in {"ack", "nak"} :
          /\ work' = [work EXCEPT ![w] = [pc |-> pc, msg |-> x, recs |-> {}]]
          /\ \/ pc = "ack" /\ faults' = faults
             \/ pc = "nak" /\ faults' = faults + 1
    BY DEF CommitRows, CommitFails, Enter, Fault
  <1> DEFINE j == [pc |-> pc, msg |-> x, recs |-> {}]
  <1>3. j.pc = pc /\ j.msg = x /\ j \in Callbacks
    BY <1>1 DEF Callbacks
  <1>4. j # Idle
    BY <1>3, IdleIsNoCallback
  <1>5. \A v \in Replicas : work'[v] = IF v = w THEN j ELSE work[v]
    BY <1>2 DEF TypeOK
  <1>6. \A s \in Subscribers : rows'[m][s] <= rows[m][s] + 1
    BY DEF CommitRows, CommitFails, WriteRows, TypeOK
  <1>7. m # x => rows'[m] = rows[m]
    BY DEF CommitRows, CommitFails, WriteRows, TypeOK
  <1> HIDE DEF j
  <1>8. Waiting(m)' = Waiting(m) /\ Pulled(m)' = Pulled(m)
    BY <1>1 DEF Waiting, Pulled
  <1>9. Holders(m)' \subseteq Holders(m)
    BY <1>1, <1>3, <1>5 DEF Holders, Held
  <1>10. InProgress(m)' <=> InProgress(m)
    BY <1>1, <1>3, <1>4, <1>5, <1>8 DEF InProgress
  <1>11. Open(m)' => Open(m)
    BY <1>1, <1>10 DEF Open
  <1>12. faults \in Nat
    BY FanoutAssumption DEF TypeOK
  <1>13. CASE faults' = faults + 1
    BY <1>6, <1>8, <1>9, <1>11, <1>13 DEF Paid, Fewer
  <1>14. CASE faults' = faults /\ m # x
    BY <1>7, <1>8, <1>9, <1>11, <1>12, <1>14 DEF Calm, Fewer
  <1>15. CASE faults' = faults /\ pc = "ack" /\ m = x
    <2>1. w \in Holders(m)
      BY <1>1, <1>15 DEF Holders, Held
    <2>2. Holders(m)' \subseteq Holders(m) \ {w}
      BY <1>3, <1>5, <1>9, <1>15 DEF Holders, Held
    <2> QED BY <1>6, <1>8, <1>11, <1>15, <2>1, <2>2 DEF Ends
  <1> QED BY <1>2, <1>12, <1>13, <1>14, <1>15

\* A callback ends with an Ack, or hands the message back with a Nak.
LEMMA AnswerAccount ==
  ASSUME IInv, NEW w \in Replicas, Ack(w) \/ Nak(w), NEW m \in Releases
  PROVE  Calm(m) \/ Ends(m) \/ Paid(m)
  <1> USE DEF IInv
  <1> DEFINE x == work[w].msg
  <1>1. /\ work[w] # Idle /\ x \in Msgs /\ UNCHANGED <<inbox, rows>>
        /\ \A v \in Replicas : work'[v] = IF v = w THEN Idle ELSE work[v]
        /\ faults \in Nat
    BY IdleIsNoCallback, FanoutAssumption DEF Ack, Nak, tables, TypeOK, Callbacks
  <1>2. Waiting(m)' = Waiting(m) /\ Pulled(m)' = Pulled(m)
    BY <1>1 DEF Waiting, Pulled
  <1>3. Holders(m)' \subseteq Holders(m) /\ w \notin Holders(m)'
    BY <1>1 DEF Holders, Held
  <1>4. m # x => (InProgress(m)' <=> InProgress(m))
    BY <1>1, <1>2 DEF InProgress
  <1>5. CASE Ack(w) /\ faults' = faults
    <2>1. acked' = acked \cup {x} /\ due' = due \ {x}
      BY <1>5, <1>1 DEF Ack, AckEffect, Fault
    <2>2. Open(m)' => Open(m)
      BY <1>4, <2>1 DEF Open
    <2> QED BY <1>1, <1>2, <1>3, <1>5, <2>2 DEF Calm, Fewer
  <1>6. CASE Ack(w) /\ faults' = faults + 1
    BY <1>1, <1>2, <1>3, <1>6 DEF Paid, Fewer
  <1>7. CASE Nak(w)
    <2>1. /\ work[w].pc = "nak" /\ UNCHANGED <<acked, faults>>
          /\ due' \subseteq due \cup {x}
      BY <1>7 DEF Nak, NakEffect
    <2>2. CASE m = x
      <3>1. w \in Holders(m)
        BY <1>1, <2>1, <2>2 DEF Holders, Held
      <3> QED BY <1>1, <1>2, <1>3, <2>1, <3>1 DEF Ends
    <2>3. CASE m # x
      <3>1. Open(m)' => Open(m)
        BY <1>4, <2>1, <2>3 DEF Open
      <3> QED BY <1>1, <1>2, <1>3, <2>1, <3>1 DEF Calm, Fewer
    <2> QED BY <2>2, <2>3
  <1>8. Ack(w) => faults' = faults \/ faults' = faults + 1
    BY DEF Ack, Fault
  <1> QED BY <1>5, <1>6, <1>7, <1>8

LEMMA CrashAccount ==
  ASSUME IInv, NEW w \in Replicas, Crash(w), NEW m \in Releases
  PROVE  Paid(m)
  <1>1. /\ UNCHANGED rows /\ faults' = faults + 1
        /\ \A v \in Replicas : /\ inbox'[v] \subseteq inbox[v]
                               /\ work'[v] = Idle \/ work'[v] = work[v]
    BY DEF Crash, Fault, tables, IInv, TypeOK, QueueTypeOK
  <1>2. Fewer(m)
    BY <1>1 DEF Fewer, Waiting, Holders, Held
  <1> QED BY <1>1, <1>2 DEF Paid

LEMMA NextBudget ==
  ASSUME IInv, IInv', CopiesAreCounted, Budget, [Next]_vars PROVE Budget'
  <1>1. ASSUME NEW m \in Releases
        PROVE  Calm(m) \/ Pulls(m) \/ Begins(m) \/ Ends(m) \/ Paid(m)
    <2>1. ASSUME NEW w \in Replicas, Callback(w) \/ Crash(w)
          PROVE  Calm(m) \/ Begins(m) \/ Ends(m) \/ Paid(m)
      BY <2>1, ProcessAccount, CommitAccount, AnswerAccount, CrashAccount DEF Callback
    <2>2. ASSUME NEW w \in Replicas, NEW x \in Msgs, Receive(w, x)
          PROVE  Calm(m) \/ Pulls(m)
      BY <2>2, ReceiveAccount
    <2>3. CASE \/ \E x \in Msgs : Publish(x) \/ AckWaitExpires(x) \/ AckWaitTooShort(x)
               \/ \E s \in Subscribers : Confirm(s) \/ Leave(s)
               \/ DeleteRepo
               \/ UNCHANGED vars
      BY <2>3, WorldAccount
    <2> QED BY <2>1, <2>2, <2>3 DEF Next
  <1>2. TypeOK /\ TypeOK'
    BY DEF IInv
  <1>3. ASSUME NEW m \in Releases
        PROVE  /\ IsFiniteSet(Holders(m)')
               /\ \A s \in Subscribers : rows'[m][s] + Claims(m)' <= 1 + faults'
    BY <1>1, <1>2, AccountKept
  <1> QED BY <1>3 DEF Budget

LEMMA InitBudget == ASSUME Init PROVE CopiesAreCounted /\ Budget
  <1>1. CopiesAreCounted
    BY DEF Init, CopiesAreCounted
  <1>2. ASSUME NEW m \in Releases
        PROVE  IsFiniteSet(Holders(m)) /\ \A s \in Subscribers : rows[m][s] + Claims(m) <= 1 + faults
    <2>1. Holders(m) = {} /\ Waiting(m) = {}
      BY DEF Init, Holders, Waiting
    <2>2. IsFiniteSet({}) /\ Cardinality({}) = 0
      BY FS_EmptySet
    <2> QED BY <2>1, <2>2 DEF Claims, Init
  <1> QED BY <1>1, <1>2 DEF Budget

(***************************************************************************)
(* However often and to however many replicas a release is delivered,      *)
(* every row handleReleaseFound (worker.go 82-124) writes for a subscriber *)
(* beyond the first one is paid for by a fault.                            *)
(***************************************************************************)
THEOREM SurplusRowsArePaidFor == Spec => []SurplusRowsNeedFaults
  <1>1. Init => IInv /\ CopiesAreCounted /\ Budget
    BY InitIInv, InitBudget
  <1>2. IInv /\ [Next]_vars => IInv'
    BY NextIInv
  <1>3. IInv /\ IInv' /\ CopiesAreCounted /\ Budget /\ [Next]_vars => CopiesAreCounted' /\ Budget'
    BY CopiesStep, NextBudget
  <1>4. IInv /\ Budget => SurplusRowsNeedFaults
    <2> SUFFICES ASSUME IInv, Budget, NEW m \in Releases, NEW s \in Subscribers
                 PROVE  rows[m][s] <= 1 + faults
      BY DEF SurplusRowsNeedFaults
    <2>1. rows[m][s] \in Nat /\ faults \in Nat
      BY FanoutAssumption DEF IInv, TypeOK
    <2>2. Cardinality(Waiting(m)) \in Nat /\ Cardinality(Holders(m)) \in Nat
      <3>1. IsFiniteSet(1..MaxDeliver)
        BY FS_Interval, FanoutAssumption
      <3>2. IsFiniteSet(Waiting(m))
        BY <3>1, FS_Subset DEF Waiting
      <3> QED BY <3>2, FS_CardinalityType DEF Budget
    <2>3. rows[m][s] + Claims(m) <= 1 + faults
      BY DEF Budget
    <2> QED BY <2>1, <2>2, <2>3 DEF Claims
  <1> QED BY <1>1, <1>2, <1>3, <1>4, PTL DEF Spec

=============================================================================
