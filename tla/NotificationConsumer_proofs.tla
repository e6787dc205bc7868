--------------------- MODULE NotificationConsumer_proofs ---------------------
(***************************************************************************)
(* Proofs about the notification consumer, for any messages, any number of *)
(* replicas and deliveries, and any number of faults.                      *)
(*                                                                         *)
(* A copy of a message carries the number n of its delivery.  The proof    *)
(* follows the copies: n never exceeds the number of deliveries the server *)
(* has made, so a callback that gives up because its n is MaxDeliver knows *)
(* that the server will not deliver again; and a callback on its way to an *)
(* Ack has the mail or the dead letter behind it.                          *)
(***************************************************************************)
EXTENDS NotificationConsumer, FiniteSetTheorems, TLAPS

\* The deliveries of a message are numbered by what the server has counted.
CopiesAreCounted ==
    /\ \A w \in Replicas : \A d \in inbox[w] : d.n <= count[d.msg]
    /\ \A w \in Replicas : work[w] # Idle => work[w].n <= count[work[w].msg]

\* A callback that is going to acknowledge has handled its message.
AckingIsHandled ==
    \A w \in Replicas : work[w] # Idle =>
        /\ work[w].pc = "ack" => mails[work[w].msg] > 0
        /\ work[w].pc = "dlqAck" => work[w].msg \in dead

\* A callback that has given up had the last delivery, or a poison message.
GivingUpIsLast ==
    \A w \in Replicas :
        work[w] # Idle /\ work[w].pc \in {"dlq", "dlqAck", "emailFailed"} =>
            work[w].msg \in Poison \/ work[w].n = MaxDeliver

(***************************************************************************)
(* The copies of a message that may still lead to a mail or a redelivery:  *)
(* those a client has pulled, and those whose callback has decided against *)
(* an Ack of a mail.                                                       *)
(***************************************************************************)
Undone == {"nak", "dlq", "dlqAck"}
Waiting(m) == {n \in 1..MaxDeliver : \E w \in Replicas : [msg |-> m, n |-> n] \in inbox[w]}
Held(m) ==
    {n \in 1..MaxDeliver :
        \E w \in Replicas :
            /\ work[w] # Idle /\ work[w].pc \in Undone
            /\ work[w].msg = m /\ work[w].n = n}

\* A copy is with one replica, and there at one place.
OneHolder ==
    /\ \A v, w \in Replicas : v # w => inbox[v] \cap inbox[w] = {}
    /\ \A v, w \in Replicas : \A d \in inbox[v] :
          work[w] # Idle => ~(work[w].msg = d.msg /\ work[w].n = d.n)
    /\ \A v, w \in Replicas :
          /\ work[v] # Idle /\ work[w] # Idle
          /\ work[v].msg = work[w].msg /\ work[v].n = work[w].n
          => v = w

\* Each delivery sends one mail at most.
MailsAreCounted ==
    \A m \in Msgs : mails[m] + Cardinality(Waiting(m)) <= count[m]

DueIsOpen == due \cap acked = {}

\* Only a confirmation is answered.
RepliesAreConfirmations ==
    \A w \in Replicas : work[w] # Idle /\ work[w].pc \in {"emailSent", "emailFailed"} =>
        work[w].msg \in Confirmations

IInv ==
    /\ TypeOK
    /\ CopiesAreCounted
    /\ OneHolder
    /\ MailsAreCounted
    /\ DueIsOpen
    /\ AckingIsHandled
    /\ GivingUpIsLast
    /\ RepliesAreConfirmations
    /\ AckedIsHandled
    /\ GivingUpIsLastResort

(***************************************************************************)
(* A message is open when the server is going to deliver it again without  *)
(* another fault.  An open message costs what a mail costs, and so does a  *)
(* copy that may still be mailed; only faults pay for more than one.       *)
(***************************************************************************)
Open(m) == m \notin acked /\ (m \in due \/ ~InProgress(m))

Budget ==
    \A m \in Msgs :
        mails[m] + Cardinality(Waiting(m) \cup Held(m))
            <= (IF Open(m) THEN 0 ELSE 1) + faults

(***************************************************************************)
(* Sets of delivery numbers.                                               *)
(***************************************************************************)
LEMMA Numbers ==
  ASSUME NEW S \in SUBSET (1..MaxDeliver), NEW T \in SUBSET (1..MaxDeliver)
  PROVE  /\ Cardinality(S) \in Nat
         /\ T \subseteq S => Cardinality(T) <= Cardinality(S)
         /\ T \subseteq S /\ T # S => Cardinality(T) + 1 <= Cardinality(S)
         /\ \A n \in 1..MaxDeliver : T \subseteq S \cup {n} => Cardinality(T) <= Cardinality(S) + 1
  <1>1. IsFiniteSet(1..MaxDeliver)
    BY FS_Interval, DeliveryAssumption
  <1>2. IsFiniteSet(S) /\ IsFiniteSet(T)
    BY <1>1, FS_Subset
  <1>3. Cardinality(S) \in Nat /\ Cardinality(T) \in Nat
    BY <1>2, FS_CardinalityType
  <1>4. T \subseteq S => Cardinality(T) <= Cardinality(S)
    BY <1>2, FS_Subset
  <1>5. T \subseteq S /\ T # S => Cardinality(T) # Cardinality(S)
    BY <1>2, FS_Subset
  <1>6. ASSUME NEW n \in 1..MaxDeliver, T \subseteq S \cup {n}
        PROVE  Cardinality(T) <= Cardinality(S) + 1
    <2>1. IsFiniteSet(S \cup {n}) /\ Cardinality(S \cup {n}) <= Cardinality(S) + 1
      <3>1. IsFiniteSet(S \cup {n})
        BY <1>2, FS_AddElement
      <3>2. Cardinality(S \cup {n}) = IF n \in S THEN Cardinality(S) ELSE Cardinality(S) + 1
        BY <1>2, FS_AddElement
      <3> QED BY <3>1, <3>2, <1>3
    <2>2. Cardinality(T) <= Cardinality(S \cup {n}) /\ Cardinality(S \cup {n}) \in Nat
      BY <1>6, <2>1, FS_Subset, FS_CardinalityType
    <2> QED BY <2>1, <2>2, <1>3
  <1> QED BY <1>3, <1>4, <1>5, <1>6

LEMMA NumbersOfCopies ==
  /\ \A m : Waiting(m) \in SUBSET (1..MaxDeliver) /\ Waiting(m)' \in SUBSET (1..MaxDeliver)
  /\ \A m : Held(m) \in SUBSET (1..MaxDeliver) /\ Held(m)' \in SUBSET (1..MaxDeliver)
  BY DEF Waiting, Held

(***************************************************************************)
(* The value of Idle is not a callback: its pc differs from all of Steps.  *)
(***************************************************************************)
LEMMA IdleIsNoCallback == Idle \notin Callbacks /\ Idle.pc = "idle"
  BY DEF Idle, Callbacks, Steps

LEMMA InitIInv == Init => IInv
  <1> SUFFICES ASSUME Init PROVE IInv
    OBVIOUS
  <1> USE DEF Init
  <1>1. 0 \in 0..MaxDeliver /\ 0 \in 0..MaxFaults
    BY DeliveryAssumption
  <1>2. TypeOK
    BY <1>1 DEF TypeOK, QueueTypeOK
  <1>3. CopiesAreCounted /\ AckingIsHandled /\ GivingUpIsLast /\ OneHolder
         /\ RepliesAreConfirmations
    BY DEF CopiesAreCounted, AckingIsHandled, GivingUpIsLast, OneHolder,
           RepliesAreConfirmations
  <1>4. AckedIsHandled /\ GivingUpIsLastResort /\ DueIsOpen
    BY DEF AckedIsHandled, GivingUpIsLastResort, DueIsOpen
  <1>5. \A m \in Msgs : Waiting(m) = {}
    BY DEF Waiting
  <1>6. MailsAreCounted
    BY <1>5, FS_EmptySet DEF MailsAreCounted
  <1> QED BY <1>2, <1>3, <1>4, <1>6 DEF IInv

(***************************************************************************)
(* Steps of the queue and of the server leave the callbacks and their      *)
(* results alone, and only ever raise a count.                             *)
(***************************************************************************)
LEMMA ReceiveKeeps ==
  ASSUME IInv, NEW w \in Replicas, NEW m \in Msgs, Receive(w, m)
  PROVE  IInv'
  <1> USE DEF IInv
  <1>1. /\ UNCHANGED <<acked, work, mails, dead, sent, failed, faults>>
        /\ m \in due /\ count[m] < MaxDeliver /\ due' = due \ {m}
        /\ count' = [count EXCEPT ![m] = @ + 1]
        /\ inbox' = [inbox EXCEPT ![w] = @ \cup {[msg |-> m, n |-> count[m] + 1]}]
    BY DEF Receive, Deliver, results
  <1>2. count[m] + 1 \in 1..MaxDeliver
    BY <1>1, DeliveryAssumption DEF TypeOK, QueueTypeOK
  <1>3. \A x \in Msgs : count'[x] = IF x = m THEN count[m] + 1 ELSE count[x]
    BY <1>1 DEF TypeOK, QueueTypeOK
  <1>4. TypeOK'
    <2>1. count' \in [Msgs -> 0..MaxDeliver]
      BY <1>1, <1>2 DEF TypeOK, QueueTypeOK
    <2>2. inbox' \in [Replicas -> SUBSET Deliveries]
      BY <1>1, <1>2 DEF TypeOK, QueueTypeOK, Deliveries
    <2> QED BY <1>1, <2>1, <2>2 DEF TypeOK, QueueTypeOK
  <1>5. \A x \in Msgs : count[x] \in Nat /\ count'[x] \in Nat /\ count[x] <= count'[x]
    BY <1>1, <1>3, DeliveryAssumption DEF TypeOK, QueueTypeOK
  <1>6. \A v \in Replicas : \A d \in inbox'[v] : d.n <= count'[d.msg]
    <2> SUFFICES ASSUME NEW v \in Replicas, NEW d \in inbox'[v]
                 PROVE  d.n <= count'[d.msg]
      OBVIOUS
    <2>1. CASE d \in inbox[v]
      <3>1. d.n <= count[d.msg] /\ d.n \in Nat /\ d.msg \in Msgs
        BY <2>1, DeliveryAssumption DEF CopiesAreCounted, TypeOK, QueueTypeOK, Deliveries
      <3> QED BY <3>1, <1>5
    <2>2. CASE d \notin inbox[v]
      <3>1. d = [msg |-> m, n |-> count[m] + 1]
        BY <2>2, <1>1 DEF TypeOK, QueueTypeOK
      <3> QED BY <3>1, <1>3, <1>5
    <2> QED BY <2>1, <2>2
  <1>7. CopiesAreCounted'
    <2> SUFFICES ASSUME NEW v \in Replicas, work[v] # Idle
                 PROVE  work[v].n <= count'[work[v].msg]
      BY <1>1, <1>6 DEF CopiesAreCounted
    <2>1. work[v].n \in Nat /\ work[v].msg \in Msgs /\ work[v].n <= count[work[v].msg]
      BY DeliveryAssumption DEF CopiesAreCounted, TypeOK, Callbacks
    <2> QED BY <2>1, <1>5
  <1>8. AckingIsHandled' /\ GivingUpIsLast' /\ AckedIsHandled' /\ RepliesAreConfirmations'
    BY <1>1 DEF AckingIsHandled, GivingUpIsLast, AckedIsHandled, RepliesAreConfirmations
  <1>9. GivingUpIsLastResort'
    BY <1>1, <1>3, DeliveryAssumption DEF GivingUpIsLastResort, TypeOK, QueueTypeOK
  <1>10. OneHolder'
    <2> DEFINE e == [msg |-> m, n |-> count[m] + 1]
    <2>1. \A v \in Replicas : e \notin inbox[v]
      BY <1>5 DEF CopiesAreCounted
    <2>2. \A v \in Replicas : work[v] # Idle => ~(work[v].msg = e.msg /\ work[v].n = e.n)
      BY <1>5 DEF CopiesAreCounted
    <2>3. \A v \in Replicas : inbox'[v] = IF v = w THEN inbox[v] \cup {e} ELSE inbox[v]
      BY <1>1 DEF TypeOK, QueueTypeOK
    <2> HIDE DEF e
    <2>4. \A v, u \in Replicas : v # u => inbox'[v] \cap inbox'[u] = {}
      <3> SUFFICES ASSUME NEW v \in Replicas, NEW u \in Replicas, v # u,
                          NEW x, x \in inbox'[v], x \in inbox'[u]
                   PROVE  FALSE
        OBVIOUS
      <3>1. inbox[v] \cap inbox[u] = {}
        BY DEF OneHolder
      <3> QED BY <3>1, <2>1, <2>3
    <2>5. \A v, u \in Replicas : \A d \in inbox'[v] :
             work[u] # Idle => ~(work[u].msg = d.msg /\ work[u].n = d.n)
      <3> SUFFICES ASSUME NEW v \in Replicas, NEW u \in Replicas, NEW d \in inbox'[v],
                          work[u] # Idle, work[u].msg = d.msg, work[u].n = d.n
                   PROVE  FALSE
        OBVIOUS
      <3>1. CASE d \in inbox[v]
        BY <3>1 DEF OneHolder
      <3>2. CASE d \notin inbox[v]
        <4>1. d = e
          BY <3>2, <2>3
        <4> QED BY <4>1, <2>2
      <3> QED BY <3>1, <3>2
    <2> QED BY <2>4, <2>5, <1>1 DEF OneHolder
  <1>11. \A x \in Msgs : Waiting(x)' \subseteq Waiting(x) \cup (IF x = m THEN {count[m] + 1} ELSE {})
    BY <1>1 DEF Waiting, TypeOK, QueueTypeOK
  <1>12. MailsAreCounted'
    <2> SUFFICES ASSUME NEW x \in Msgs
                 PROVE  mails[x] + Cardinality(Waiting(x)') <= count'[x]
      BY <1>1 DEF MailsAreCounted
    <2>1. mails[x] + Cardinality(Waiting(x)) <= count[x] /\ mails[x] \in Nat
      BY DeliveryAssumption DEF MailsAreCounted, TypeOK
    <2>2. Cardinality(Waiting(x)) \in Nat /\ Cardinality(Waiting(x)') \in Nat
      BY Numbers, NumbersOfCopies
    <2>3. Cardinality(Waiting(x)') <= Cardinality(Waiting(x)) + (IF x = m THEN 1 ELSE 0)
      BY <1>2, <1>11, Numbers, NumbersOfCopies
    <2> QED BY <2>1, <2>2, <2>3, <1>3, <1>5
  <1>13. DueIsOpen'
    BY <1>1 DEF DueIsOpen
  <1> QED BY <1>4, <1>7, <1>8, <1>9, <1>10, <1>12, <1>13

LEMMA ReturnsKeep ==
  ASSUME IInv, NEW m \in Msgs, AckWaitExpires(m) \/ AckWaitTooShort(m)
  PROVE  IInv'
  <1> USE DEF IInv
  <1>1. /\ UNCHANGED <<count, acked, inbox, work, mails, dead, sent, failed>>
        /\ due' = due \cup {m}
    BY DEF AckWaitExpires, AckWaitTooShort, GiveBack, results
  <1>2. faults' \in 0..MaxFaults
    BY DeliveryAssumption DEF AckWaitExpires, AckWaitTooShort, Fault, TypeOK
  <1>3. TypeOK'
    BY <1>1, <1>2 DEF TypeOK, QueueTypeOK
  <1>4. CopiesAreCounted' /\ AckingIsHandled' /\ GivingUpIsLast' /\ RepliesAreConfirmations'
    BY <1>1 DEF CopiesAreCounted, AckingIsHandled, GivingUpIsLast, RepliesAreConfirmations
  <1>5. AckedIsHandled' /\ GivingUpIsLastResort'
    BY <1>1 DEF AckedIsHandled, GivingUpIsLastResort
  <1>6. OneHolder' /\ DueIsOpen'
    BY <1>1 DEF OneHolder, DueIsOpen, AckWaitExpires, AckWaitTooShort, GiveBack, CanReturn
  <1>7. \A x \in Msgs : Waiting(x)' = Waiting(x)
    BY <1>1 DEF Waiting
  <1>8. MailsAreCounted'
    BY <1>1, <1>7 DEF MailsAreCounted
  <1> QED BY <1>3, <1>4, <1>5, <1>6, <1>8

(***************************************************************************)
(* A delivery becomes a callback with its own number; the mail is counted  *)
(* in the step that decides on the Ack.                                    *)
(***************************************************************************)
LEMMA ProcessKeeps ==
  ASSUME IInv, NEW w \in Replicas, NEW d \in Deliveries, Process(w, d)
  PROVE  IInv'
  <1> USE DEF IInv
  <1>1. PICK pc \in Steps :
          /\ work' = [work EXCEPT ![w] = [pc |-> pc, msg |-> d.msg, n |-> d.n]]
          /\ \/ d.msg \in Poison /\ pc = "dlq" /\ UNCHANGED <<mails, faults>>
             \/ d.msg \notin Poison /\ pc = "ack" /\ SendOne(d.msg, TRUE)
             \/ d.msg \notin Poison /\ pc = DecideAction(d.n) /\ SendOne(d.msg, FALSE)
    BY DEF Process
  <1>2. /\ UNCHANGED <<count, due, acked, dead, sent, failed>>
        /\ d \in inbox[w] /\ inbox' = [inbox EXCEPT ![w] = @ \ {d}]
    BY DEF Process, Take, queue
  <1>3. d.msg \in Msgs /\ d.n \in 1..MaxDeliver /\ d.n <= count[d.msg]
    BY <1>2 DEF Deliveries, CopiesAreCounted
  <1> DEFINE r == [pc |-> pc, msg |-> d.msg, n |-> d.n]
  <1>4. r \in Callbacks /\ r.pc = pc /\ r.msg = d.msg /\ r.n = d.n
    BY <1>3 DEF Callbacks
  <1>5. \A v \in Replicas : work'[v] = IF v = w THEN r ELSE work[v]
    BY <1>1 DEF TypeOK
  <1>6. \A v \in Replicas : inbox'[v] \subseteq inbox[v]
    BY <1>2 DEF TypeOK, QueueTypeOK
  <1>7. /\ \A x \in Msgs : /\ mails[x] \in Nat /\ mails'[x] \in Nat /\ mails'[x] >= mails[x]
                           /\ mails'[x] <= mails[x] + (IF x = d.msg THEN 1 ELSE 0)
        /\ pc = "ack" => mails'[d.msg] > 0
        /\ DOMAIN mails' = Msgs /\ mails' = [x \in Msgs |-> mails'[x]]
        /\ faults' \in 0..MaxFaults
    BY <1>1, <1>3, DeliveryAssumption DEF SendOne, DecideAction, Fault, TypeOK
  <1>8. d = [msg |-> d.msg, n |-> d.n]
    BY DEF Deliveries
  <1>9. \A x \in Msgs :
           /\ Waiting(x)' \subseteq Waiting(x)
           /\ x = d.msg => Waiting(x)' # Waiting(x)
    <2>1. \A v \in Replicas : d \notin inbox'[v]
      BY <1>2 DEF OneHolder, TypeOK, QueueTypeOK
    <2>2. d.n \in Waiting(d.msg) /\ d.n \notin Waiting(d.msg)'
      BY <2>1, <1>2, <1>3, <1>8 DEF Waiting
    <2>3. \A x \in Msgs : Waiting(x)' \subseteq Waiting(x)
      BY <1>6 DEF Waiting
    <2> QED BY <2>2, <2>3
  <1>10. MailsAreCounted'
    <2> SUFFICES ASSUME NEW x \in Msgs
                 PROVE  mails'[x] + Cardinality(Waiting(x)') <= count[x]
      BY <1>2 DEF MailsAreCounted
    <2>1. mails[x] + Cardinality(Waiting(x)) <= count[x] /\ count[x] \in Nat
      BY DeliveryAssumption DEF MailsAreCounted, TypeOK, QueueTypeOK
    <2>2. Cardinality(Waiting(x)) \in Nat /\ Cardinality(Waiting(x)') \in Nat
      BY Numbers, NumbersOfCopies
    <2>3. Cardinality(Waiting(x)') + (IF x = d.msg THEN 1 ELSE 0) <= Cardinality(Waiting(x))
      BY <1>9, <2>2, Numbers, NumbersOfCopies
    <2> QED BY <2>1, <2>2, <2>3, <1>7
  <1>11. TypeOK'
    <2>1. \A x \in Msgs : mails'[x] \in 0..MaxDeliver
      <3> TAKE x \in Msgs
      <3>1. mails'[x] + Cardinality(Waiting(x)') <= count[x] /\ count[x] \in 0..MaxDeliver
        BY <1>10, <1>2 DEF MailsAreCounted, TypeOK, QueueTypeOK
      <3>2. Cardinality(Waiting(x)') \in Nat
        BY Numbers, NumbersOfCopies
      <3> QED BY <3>1, <3>2, <1>7, DeliveryAssumption
    <2>2. mails' \in [Msgs -> 0..MaxDeliver]
      BY <2>1, <1>7
    <2>3. work' \in [Replicas -> {Idle} \cup Callbacks]
      BY <1>1, <1>4 DEF TypeOK
    <2>4. inbox' \in [Replicas -> SUBSET Deliveries]
      BY <1>2 DEF TypeOK, QueueTypeOK
    <2> QED BY <2>2, <2>3, <2>4, <1>2, <1>7 DEF TypeOK, QueueTypeOK
  <1> HIDE DEF r
  <1>12. CopiesAreCounted'
    BY <1>2, <1>3, <1>4, <1>5, <1>6 DEF CopiesAreCounted
  <1>13. OneHolder'
    <2>1. \A v, u \in Replicas : v # u => inbox'[v] \cap inbox'[u] = {}
      BY <1>6 DEF OneHolder
    <2>2. \A v, u \in Replicas : \A e \in inbox'[v] :
             work'[u] # Idle => ~(work'[u].msg = e.msg /\ work'[u].n = e.n)
      <3> SUFFICES ASSUME NEW v \in Replicas, NEW u \in Replicas, NEW e \in inbox'[v],
                          work'[u] # Idle, work'[u].msg = e.msg, work'[u].n = e.n
                   PROVE  FALSE
        OBVIOUS
      <3>1. CASE u = w
        <4>1. e.msg = d.msg /\ e.n = d.n /\ e \in Deliveries
          BY <3>1, <1>4, <1>5, <1>6 DEF TypeOK, QueueTypeOK
        <4>2. e = d
          BY <4>1 DEF Deliveries
        <4> QED BY <4>2, <1>2 DEF OneHolder, TypeOK, QueueTypeOK
      <3>2. CASE u # w
        BY <3>2, <1>5, <1>6 DEF OneHolder
      <3> QED BY <3>1, <3>2
    <2>3. \A v \in Replicas : v # w /\ work[v] # Idle => ~(work[v].msg = r.msg /\ work[v].n = r.n)
      BY <1>2, <1>4 DEF OneHolder
    <2>4. \A v, u \in Replicas :
             work'[v] # Idle /\ work'[u] # Idle /\ work'[v].msg = work'[u].msg
                /\ work'[v].n = work'[u].n => v = u
      BY <2>3, <1>5 DEF OneHolder
    <2> QED BY <2>1, <2>2, <2>4 DEF OneHolder
  <1>14. AckingIsHandled'
    <2>1. pc # "dlqAck"
      BY <1>1 DEF DecideAction
    <2>2. \A v \in Replicas : work[v] # Idle => work[v].msg \in Msgs
      BY DEF TypeOK, Callbacks
    <2> QED BY <2>1, <2>2, <1>2, <1>4, <1>5, <1>7 DEF AckingIsHandled
  <1>15. GivingUpIsLast'
    <2>1. pc \in {"dlq", "dlqAck", "emailFailed"} => d.msg \in Poison \/ d.n = MaxDeliver
      <3>1. \/ d.msg \in Poison
            \/ pc = "ack"
            \/ pc = IF d.n >= MaxDeliver THEN "dlq" ELSE "nak"
        BY <1>1 DEF DecideAction
      <3> QED BY <3>1, <1>3, DeliveryAssumption
    <2> QED BY <2>1, <1>4, <1>5 DEF GivingUpIsLast
  <1>16. AckedIsHandled'
    BY <1>2, <1>7 DEF AckedIsHandled, TypeOK, QueueTypeOK
  <1>17. GivingUpIsLastResort' /\ DueIsOpen'
    BY <1>2 DEF GivingUpIsLastResort, DueIsOpen
  <1>18. RepliesAreConfirmations'
    <2>1. pc \notin {"emailSent", "emailFailed"}
      BY <1>1 DEF DecideAction
    <2> QED BY <2>1, <1>4, <1>5 DEF RepliesAreConfirmations
  <1> QED BY <1>10, <1>11, <1>12, <1>13, <1>14, <1>15, <1>16, <1>17, <1>18

(***************************************************************************)
(* All other steps of a callback: the replica goes on with the same copy,  *)
(* or is done with it.                                                     *)
(***************************************************************************)
Becomes(w, j) ==
    /\ work' = [work EXCEPT ![w] = j]
    /\ \/ j = Idle
       \/ j \in Callbacks /\ j.msg = work[w].msg /\ j.n = work[w].n

LEMMA ReplyBecomes ==
  ASSUME TypeOK, NEW w \in Replicas, work[w] # Idle, NEW pc \in Steps,
         Reply(w, pc) \/ GoTo(w, pc) \/ Done(w)
  PROVE  \E j \in {Idle} \cup Callbacks :
            Becomes(w, j) /\ (j # Idle => j.pc = pc)
  <1> DEFINE r == [pc |-> pc, msg |-> work[w].msg, n |-> work[w].n]
  <1>1. work[w] \in Callbacks
    BY DEF TypeOK
  <1>2. r \in Callbacks /\ r.pc = pc /\ r.msg = work[w].msg /\ r.n = work[w].n
    BY <1>1 DEF Callbacks
  <1>3. r = [work[w] EXCEPT !.pc = pc]
    BY <1>1 DEF Callbacks
  <1>4. CASE GoTo(w, pc)
    <2>1. work' = [work EXCEPT ![w] = r]
      BY <1>4, <1>3 DEF GoTo
    <2> USE <1>2
    <2> HIDE DEF r
    <2> WITNESS r \in {Idle} \cup Callbacks
    <2> QED BY <2>1, <1>2 DEF Becomes
  <1>5. CASE Done(w)
    <2>1. work' = [work EXCEPT ![w] = Idle]
      BY <1>5 DEF Done
    <2> WITNESS Idle \in {Idle} \cup Callbacks
    <2> QED BY <2>1 DEF Becomes
  <1> QED BY <1>4, <1>5 DEF Reply

LEMMA CallbackKeeps ==
  ASSUME IInv, NEW w \in Replicas, work[w] # Idle,
         NEW j \in {Idle} \cup Callbacks, Becomes(w, j),
         UNCHANGED <<count, inbox, mails>>, dead \subseteq dead',
         j # Idle => j.pc \in {"emailSent", "emailFailed", "dlqAck"},
         j # Idle /\ j.pc = "dlqAck" => work[w].msg \in dead',
         j # Idle /\ j.pc # "emailSent" => work[w].pc \in {"dlq", "dlqAck"},
         j # Idle /\ j.pc # "dlqAck" => work[w].msg \in Confirmations
  PROVE  /\ work' \in [Replicas -> {Idle} \cup Callbacks]
         /\ CopiesAreCounted' /\ OneHolder' /\ MailsAreCounted'
         /\ AckingIsHandled' /\ GivingUpIsLast' /\ RepliesAreConfirmations'
  <1> USE DEF IInv
  <1>1. /\ \A v \in Replicas : work'[v] = IF v = w THEN j ELSE work[v]
        /\ j # Idle => j.msg = work[w].msg /\ j.n = work[w].n
    BY DEF Becomes, TypeOK
  <1>2. work' \in [Replicas -> {Idle} \cup Callbacks]
    BY DEF Becomes, TypeOK
  <1>3. CopiesAreCounted'
    BY <1>1 DEF CopiesAreCounted
  <1>4. OneHolder'
    <2>1. \A v, u \in Replicas : \A d \in inbox[v] :
             work'[u] # Idle => ~(work'[u].msg = d.msg /\ work'[u].n = d.n)
      BY <1>1 DEF OneHolder
    <2>2. \A v, u \in Replicas :
             /\ work'[v] # Idle /\ work'[u] # Idle
             /\ work'[v].msg = work'[u].msg /\ work'[v].n = work'[u].n
             => v = u
      BY <1>1 DEF OneHolder
    <2> QED BY <2>1, <2>2 DEF OneHolder
  <1>5. \A x \in Msgs : Waiting(x)' = Waiting(x)
    BY DEF Waiting
  <1>6. MailsAreCounted'
    BY <1>5 DEF MailsAreCounted
  <1>7. AckingIsHandled'
    BY <1>1 DEF AckingIsHandled
  <1>8. GivingUpIsLast'
    BY <1>1 DEF GivingUpIsLast
  <1>9. RepliesAreConfirmations'
    BY <1>1 DEF RepliesAreConfirmations
  <1> QED BY <1>2, <1>3, <1>4, <1>6, <1>7, <1>8, <1>9

(***************************************************************************)
(* The steps that acknowledge: the mail or the dead letter is there.       *)
(***************************************************************************)
LEMMA AckKeeps ==
  ASSUME IInv, NEW w \in Replicas, Ack(w) \/ DLQAck(w)
  PROVE  IInv'
  <1> USE DEF IInv
  <1> DEFINE m == work[w].msg
  <1>1. /\ UNCHANGED <<count, inbox, mails, dead, sent, failed>>
        /\ work[w] # Idle /\ work[w].pc \in {"ack", "dlqAck"}
        /\ \/ acked' = acked \cup {m} /\ due' = due \ {m}
           \/ UNCHANGED <<acked, due>>
        /\ faults' \in 0..MaxFaults
    BY IdleIsNoCallback, DeliveryAssumption
       DEF Ack, DLQAck, AckEffect, Fault, results, TypeOK
  <1>2. m \in Msgs
    BY <1>1 DEF TypeOK, Callbacks
  <1>3. PICK j \in {Idle} \cup Callbacks :
          /\ Becomes(w, j)
          /\ j # Idle =>
                /\ m \in Confirmations
                /\ j.pc = "emailSent" \/ (j.pc = "emailFailed" /\ work[w].pc = "dlqAck")
    <2>1. CASE m \notin Confirmations
      <3>1. Becomes(w, Idle)
        BY <2>1 DEF Ack, DLQAck, Reply, Done, Becomes
      <3> QED BY <3>1
    <2>2. CASE m \in Confirmations /\ Ack(w)
      BY <1>1, <2>2, ReplyBecomes DEF Ack, Steps
    <2>3. CASE m \in Confirmations /\ DLQAck(w)
      BY <1>1, <2>3, ReplyBecomes DEF DLQAck, Steps
    <2> QED BY <2>1, <2>2, <2>3
  <1>4. /\ work' \in [Replicas -> {Idle} \cup Callbacks]
        /\ CopiesAreCounted' /\ OneHolder' /\ MailsAreCounted'
        /\ AckingIsHandled' /\ GivingUpIsLast' /\ RepliesAreConfirmations'
    BY <1>1, <1>3, CallbackKeeps
  <1>5. TypeOK'
    BY <1>1, <1>2, <1>4 DEF TypeOK, QueueTypeOK
  <1>6. mails[m] > 0 \/ m \in dead
    BY <1>1 DEF AckingIsHandled
  <1>7. AckedIsHandled'
    BY <1>1, <1>6 DEF AckedIsHandled
  <1>8. GivingUpIsLastResort' /\ DueIsOpen'
    BY <1>1 DEF GivingUpIsLastResort, DueIsOpen
  <1> QED BY <1>4, <1>5, <1>7, <1>8

LEMMA NakKeeps ==
  ASSUME IInv, NEW w \in Replicas, Nak(w)
  PROVE  IInv'
  <1> USE DEF IInv
  <1>1. /\ UNCHANGED <<count, acked, inbox, mails, dead, sent, failed, faults>>
        /\ work[w] # Idle
        /\ due' = IF CanReturn(work[w].msg) THEN due \cup {work[w].msg} ELSE due
    BY IdleIsNoCallback DEF Nak, NakEffect, results
  <1>2. work[w].msg \in Msgs
    BY <1>1 DEF TypeOK, Callbacks
  <1>3. Becomes(w, Idle)
    BY DEF Nak, Done, Becomes
  <1>4. /\ work' \in [Replicas -> {Idle} \cup Callbacks]
        /\ CopiesAreCounted' /\ OneHolder' /\ MailsAreCounted'
        /\ AckingIsHandled' /\ GivingUpIsLast' /\ RepliesAreConfirmations'
    BY <1>1, <1>3, CallbackKeeps
  <1>5. TypeOK'
    BY <1>1, <1>2, <1>4 DEF TypeOK, QueueTypeOK
  <1>6. AckedIsHandled' /\ GivingUpIsLastResort'
    BY <1>1 DEF AckedIsHandled, GivingUpIsLastResort
  <1>7. DueIsOpen'
    BY <1>1 DEF DueIsOpen, CanReturn
  <1> QED BY <1>4, <1>5, <1>6, <1>7

(***************************************************************************)
(* The dead letter and EmailFailed: the callback that gives up had n equal *)
(* to MaxDeliver, and n does not exceed what the server has counted.       *)
(***************************************************************************)
LEMMA LastIsLast ==
  ASSUME IInv, NEW w \in Replicas, work[w] # Idle,
         work[w].pc \in {"dlq", "dlqAck", "emailFailed"}
  PROVE  work[w].msg \in Poison \/ count[work[w].msg] = MaxDeliver
  <1>1. /\ work[w].msg \in Msgs /\ work[w].n <= count[work[w].msg]
        /\ work[w].msg \in Poison \/ work[w].n = MaxDeliver
    BY DEF IInv, TypeOK, Callbacks, CopiesAreCounted, GivingUpIsLast
  <1>2. count[work[w].msg] \in 0..MaxDeliver
    BY <1>1 DEF IInv, TypeOK, QueueTypeOK
  <1> QED BY <1>1, <1>2, DeliveryAssumption

LEMMA ToDLQKeeps ==
  ASSUME IInv, NEW w \in Replicas, ToDLQ(w)
  PROVE  IInv'
  <1> USE DEF IInv
  <1> DEFINE m == work[w].msg
  <1>1. /\ UNCHANGED <<count, acked, inbox, mails, sent, failed>>
        /\ work[w] # Idle /\ work[w].pc = "dlq"
        /\ dead \subseteq dead' /\ dead' \subseteq dead \cup {m}
        /\ due' \subseteq (IF CanReturn(m) THEN due \cup {m} ELSE due)
        /\ faults' \in 0..MaxFaults
    BY IdleIsNoCallback, DeliveryAssumption DEF ToDLQ, NakEffect, Fault, TypeOK
  <1>2. m \in Msgs
    BY <1>1 DEF TypeOK, Callbacks
  <1>3. PICK j \in {Idle} \cup Callbacks :
          /\ Becomes(w, j)
          /\ j # Idle => \/ j.pc = "emailFailed" /\ m \in Confirmations
                         \/ j.pc = "dlqAck" /\ m \in dead'
    <2>1. CASE GoTo(w, "dlqAck") /\ dead' = dead \cup {m}
      BY <1>1, <2>1, ReplyBecomes DEF Steps
    <2>2. CASE Reply(w, "emailFailed") /\ m \in Confirmations
      BY <1>1, <2>2, ReplyBecomes DEF Steps
    <2>3. CASE Reply(w, "emailFailed") /\ m \notin Confirmations
      <3>1. Becomes(w, Idle)
        BY <2>3 DEF Reply, Done, Becomes
      <3> QED BY <3>1
    <2> QED BY <2>1, <2>2, <2>3 DEF ToDLQ
  <1>4. /\ work' \in [Replicas -> {Idle} \cup Callbacks]
        /\ CopiesAreCounted' /\ OneHolder' /\ MailsAreCounted'
        /\ AckingIsHandled' /\ GivingUpIsLast' /\ RepliesAreConfirmations'
    BY <1>1, <1>3, CallbackKeeps
  <1>5. TypeOK'
    BY <1>1, <1>2, <1>4 DEF TypeOK, QueueTypeOK
  <1>6. AckedIsHandled'
    BY <1>1 DEF AckedIsHandled
  <1>7. GivingUpIsLastResort'
    BY <1>1, LastIsLast DEF GivingUpIsLastResort
  <1>8. DueIsOpen'
    BY <1>1 DEF DueIsOpen, CanReturn
  <1> QED BY <1>4, <1>5, <1>6, <1>7, <1>8

LEMMA PublishKeeps ==
  ASSUME IInv, NEW w \in Replicas, PublishEmailSent(w) \/ PublishEmailFailed(w)
  PROVE  IInv'
  <1> USE DEF IInv
  <1> DEFINE m == work[w].msg
  <1>1. /\ UNCHANGED <<count, due, acked, inbox, mails, dead>>
        /\ work[w] # Idle /\ work[w].pc \in {"emailSent", "emailFailed"}
        /\ sent' \subseteq sent \cup {m}
        /\ failed' \subseteq failed \cup {m}
        /\ failed' # failed => work[w].pc = "emailFailed"
        /\ Done(w)
        /\ faults' \in 0..MaxFaults
    BY IdleIsNoCallback, DeliveryAssumption
       DEF PublishEmailSent, PublishEmailFailed, Fault, queue, TypeOK
  <1>2. m \in Confirmations /\ m \in Msgs
    BY <1>1 DEF RepliesAreConfirmations, Msgs
  <1>3. Becomes(w, Idle)
    BY <1>1 DEF Done, Becomes
  <1>4. /\ work' \in [Replicas -> {Idle} \cup Callbacks]
        /\ CopiesAreCounted' /\ OneHolder' /\ MailsAreCounted'
        /\ AckingIsHandled' /\ GivingUpIsLast' /\ RepliesAreConfirmations'
    BY <1>1, <1>3, CallbackKeeps
  <1>5. TypeOK'
    BY <1>1, <1>2, <1>4 DEF TypeOK, QueueTypeOK
  <1>6. AckedIsHandled' /\ DueIsOpen'
    BY <1>1 DEF AckedIsHandled, DueIsOpen
  <1>7. GivingUpIsLastResort'
    BY <1>1, LastIsLast DEF GivingUpIsLastResort
  <1> QED BY <1>4, <1>5, <1>6, <1>7

LEMMA CrashKeeps ==
  ASSUME IInv, NEW w \in Replicas, Crash(w)
  PROVE  IInv'
  <1> USE DEF IInv
  <1>1. /\ UNCHANGED <<count, due, acked, mails, dead, sent, failed>>
        /\ faults' \in 0..MaxFaults
    BY DeliveryAssumption DEF Crash, Fault, queue, results, TypeOK
  <1>2. /\ work' = [work EXCEPT ![w] = Idle]
        /\ inbox' = [inbox EXCEPT ![w] = {}]
    BY DEF Crash, Done
  <1>3. \A v \in Replicas : /\ inbox'[v] \subseteq inbox[v]
                            /\ work'[v] = Idle \/ work'[v] = work[v]
    BY <1>2 DEF TypeOK, QueueTypeOK
  <1>4. TypeOK'
    BY <1>1, <1>2 DEF TypeOK, QueueTypeOK
  <1>5. CopiesAreCounted' /\ AckingIsHandled' /\ GivingUpIsLast' /\ RepliesAreConfirmations'
    BY <1>1, <1>3 DEF CopiesAreCounted, AckingIsHandled, GivingUpIsLast, RepliesAreConfirmations
  <1>6. OneHolder'
    <2>1. \A v, u \in Replicas : v # u => inbox'[v] \cap inbox'[u] = {}
      BY <1>3 DEF OneHolder
    <2>2. \A v, u \in Replicas : \A d \in inbox'[v] :
             work'[u] # Idle => ~(work'[u].msg = d.msg /\ work'[u].n = d.n)
      BY <1>3 DEF OneHolder
    <2>3. \A v, u \in Replicas :
             /\ work'[v] # Idle /\ work'[u] # Idle
             /\ work'[v].msg = work'[u].msg /\ work'[v].n = work'[u].n
             => v = u
      BY <1>3 DEF OneHolder
    <2> QED BY <2>1, <2>2, <2>3 DEF OneHolder
  <1>7. MailsAreCounted'
    <2> SUFFICES ASSUME NEW x \in Msgs
                 PROVE  mails[x] + Cardinality(Waiting(x)') <= count[x]
      BY <1>1 DEF MailsAreCounted
    <2>1. Waiting(x)' \subseteq Waiting(x)
      BY <1>3 DEF Waiting
    <2>2. /\ Cardinality(Waiting(x)) \in Nat /\ Cardinality(Waiting(x)') \in Nat
          /\ Cardinality(Waiting(x)') <= Cardinality(Waiting(x))
      BY <2>1, Numbers, NumbersOfCopies
    <2>3. mails[x] + Cardinality(Waiting(x)) <= count[x] /\ mails[x] \in Nat /\ count[x] \in Nat
      BY DeliveryAssumption DEF MailsAreCounted, TypeOK, QueueTypeOK
    <2> QED BY <2>2, <2>3
  <1>8. AckedIsHandled' /\ GivingUpIsLastResort' /\ DueIsOpen'
    BY <1>1 DEF AckedIsHandled, GivingUpIsLastResort, DueIsOpen
  <1> QED BY <1>4, <1>5, <1>6, <1>7, <1>8

LEMMA NextIInv == IInv /\ [Next]_vars => IInv'
  <1> SUFFICES ASSUME IInv, [Next]_vars PROVE IInv'
    OBVIOUS
  <1>1. ASSUME NEW w \in Replicas, NEW m \in Msgs, Receive(w, m) PROVE IInv'
    BY <1>1, ReceiveKeeps
  <1>2. ASSUME NEW w \in Replicas, Callback(w) PROVE IInv'
    BY <1>2, ProcessKeeps, AckKeeps, NakKeeps, ToDLQKeeps, PublishKeeps DEF Callback
  <1>3. ASSUME NEW w \in Replicas, Crash(w) PROVE IInv'
    BY <1>3, CrashKeeps
  <1>4. ASSUME NEW m \in Msgs, AckWaitExpires(m) \/ AckWaitTooShort(m) PROVE IInv'
    BY <1>4, ReturnsKeep
  <1>5. CASE UNCHANGED vars
    <2>1. \A x \in Msgs : Waiting(x)' = Waiting(x)
      BY <1>5 DEF Waiting, vars
    <2> QED BY <1>5, <2>1
         DEF vars, queue, results, IInv, TypeOK, QueueTypeOK, CopiesAreCounted, OneHolder,
             MailsAreCounted, DueIsOpen, AckingIsHandled, GivingUpIsLast,
             RepliesAreConfirmations, AckedIsHandled, GivingUpIsLastResort
  <1> QED BY <1>1, <1>2, <1>3, <1>4, <1>5 DEF Next

----------------------------------------------------------------------------
(* Mails and the faults that pay for them.                                 *)

Live(m) == Waiting(m) \cup Held(m)

LEMMA LiveCopies ==
  ASSUME NEW m
  PROVE  Live(m) \in SUBSET (1..MaxDeliver) /\ Live(m)' \in SUBSET (1..MaxDeliver)
  BY NumbersOfCopies DEF Live

(***************************************************************************)
(* The three ways in which a step that sends no mail keeps the budget of a *)
(* message: nothing gets worse, a fault pays, or a copy that ends pays for *)
(* the message to become open.                                             *)
(***************************************************************************)
LEMMA BudgetOf ==
  ASSUME TypeOK, TypeOK', NEW x \in Msgs, mails'[x] = mails[x],
         mails[x] + Cardinality(Live(x)) <= (IF Open(x) THEN 0 ELSE 1) + faults,
         Live(x)' \subseteq Live(x),
         \/ (Open(x)' => Open(x)) /\ faults' >= faults
         \/ faults' = faults + 1
         \/ Live(x)' # Live(x) /\ faults' = faults
  PROVE  mails'[x] + Cardinality(Live(x)') <= (IF Open(x)' THEN 0 ELSE 1) + faults'
  <1>1. mails[x] \in Nat /\ faults \in Nat /\ faults' \in Nat
    BY DeliveryAssumption DEF TypeOK
  <1>2. /\ Cardinality(Live(x)) \in Nat /\ Cardinality(Live(x)') \in Nat
        /\ Cardinality(Live(x)') <= Cardinality(Live(x))
        /\ Live(x)' # Live(x) => Cardinality(Live(x)') + 1 <= Cardinality(Live(x))
    BY LiveCopies, Numbers
  <1> QED BY <1>1, <1>2

(***************************************************************************)
(* What a step of a callback that is under way does to the live copies.    *)
(***************************************************************************)
LEMMA LiveOfCallback ==
  ASSUME IInv, NEW w \in Replicas, work[w] # Idle,
         NEW j \in {Idle} \cup Callbacks, Becomes(w, j), UNCHANGED inbox,
         j # Idle => j.pc \in {"emailSent", "emailFailed", "dlqAck"},
         j # Idle /\ j.pc = "dlqAck" => work[w].pc = "dlq"
  PROVE  /\ \A x \in Msgs : Live(x)' \subseteq Live(x)
         /\ work[w].pc \in Undone /\ (j # Idle => j.pc # "dlqAck")
               => \A x \in Msgs : x = work[w].msg => Live(x)' # Live(x)
         /\ \A x \in Msgs : x # work[w].msg => InProgress(x)' = InProgress(x)
         /\ j # Idle /\ j.pc = "dlqAck" => \A x \in Msgs : InProgress(x)' = InProgress(x)
  <1> USE DEF IInv
  <1>1. /\ \A v \in Replicas : work'[v] = IF v = w THEN j ELSE work[v]
        /\ j # Idle => j.msg = work[w].msg /\ j.n = work[w].n
    BY DEF Becomes, TypeOK
  <1>2. \A x \in Msgs : Waiting(x)' = Waiting(x)
    BY DEF Waiting
  <1>3. \A x \in Msgs : Held(x)' \subseteq Held(x)
    BY <1>1 DEF Held, Undone
  <1>4. ASSUME work[w].pc \in Undone, j # Idle => j.pc # "dlqAck",
               NEW m \in Msgs, m = work[w].msg
        PROVE  Live(m)' # Live(m)
    <2>1. PICK n \in 1..MaxDeliver : n = work[w].n
      BY DEF TypeOK, Callbacks
    <2>2. n \in Held(m)
      BY <1>4, <2>1 DEF Held
    <2>3. n \notin Held(m)'
      <3> SUFFICES ASSUME NEW v \in Replicas, work'[v] # Idle, work'[v].pc \in Undone,
                          work'[v].msg = m, work'[v].n = n
                   PROVE  FALSE
        BY DEF Held
      <3>1. v # w
        BY <1>1, <1>4 DEF Undone
      <3> QED BY <3>1, <1>1, <1>4, <2>1 DEF OneHolder
    <2>4. n \notin Waiting(m)
      <3> SUFFICES ASSUME NEW v \in Replicas, [msg |-> m, n |-> n] \in inbox[v]
                   PROVE  FALSE
        BY DEF Waiting
      <3> QED BY <1>4, <2>1 DEF OneHolder
    <2> QED BY <2>2, <2>3, <2>4, <1>2, <2>1 DEF Live
  <1>5. \A x \in Msgs : Pulled(x)' = Pulled(x)
    BY DEF Pulled
  <1>6. \A x \in Msgs : x # work[w].msg => InProgress(x)' = InProgress(x)
    BY <1>1, <1>5, IdleIsNoCallback DEF InProgress
  <1>7. ASSUME j # Idle, j.pc = "dlqAck", NEW m \in Msgs, m = work[w].msg
        PROVE  InProgress(m)' = InProgress(m)
    BY <1>1, <1>5, <1>7 DEF InProgress
  <1> QED BY <1>2, <1>3, <1>4, <1>6, <1>7 DEF Live

LEMMA ReceiveBudget ==
  ASSUME IInv, IInv', Budget, NEW w \in Replicas, NEW m \in Msgs, Receive(w, m)
  PROVE  Budget'
  <1> SUFFICES ASSUME NEW x \in Msgs
               PROVE  mails'[x] + Cardinality(Live(x)') <= (IF Open(x)' THEN 0 ELSE 1) + faults'
    BY DEF Budget, Live
  <1> USE DEF IInv
  <1>1. /\ UNCHANGED <<acked, work, mails, faults>>
        /\ m \in due /\ count[m] < MaxDeliver /\ due' = due \ {m}
        /\ inbox' = [inbox EXCEPT ![w] = @ \cup {[msg |-> m, n |-> count[m] + 1]}]
    BY DEF Receive, Deliver, results
  <1>2. mails[x] + Cardinality(Live(x)) <= (IF Open(x) THEN 0 ELSE 1) + faults
    BY DEF Budget, Live
  <1>3. CASE x # m
    <2>1. Waiting(x)' = Waiting(x) /\ Held(x)' = Held(x)
      BY <1>1, <1>3 DEF Waiting, Held, TypeOK, QueueTypeOK
    <2>2. Pulled(x)' = Pulled(x)
      BY <1>1, <1>3 DEF Pulled, TypeOK, QueueTypeOK
    <2>3. Open(x)' = Open(x)
      BY <1>1, <1>3, <2>2 DEF Open, InProgress
    <2> QED BY <1>1, <1>2, <2>1, <2>3 DEF Live
  <1>4. CASE x = m
    <2>1. Open(x)
      BY <1>1, <1>4 DEF Open, DueIsOpen
    <2>2. Pulled(m)'
      <3> DEFINE e == [msg |-> m, n |-> count[m] + 1]
      <3>1. e \in inbox'[w] /\ e.msg = m
        BY <1>1 DEF TypeOK, QueueTypeOK
      <3> HIDE DEF e
      <3> QED BY <3>1 DEF Pulled
    <2>3. ~Open(x)'
      BY <1>1, <1>4, <2>2 DEF Open, InProgress
    <2>4. Live(x)' \subseteq Live(x) \cup {count[m] + 1} /\ count[m] + 1 \in 1..MaxDeliver
      BY <1>1, <1>4, DeliveryAssumption DEF Live, Waiting, Held, TypeOK, QueueTypeOK
    <2>5. /\ Cardinality(Live(x)) \in Nat /\ Cardinality(Live(x)') \in Nat
          /\ Cardinality(Live(x)') <= Cardinality(Live(x)) + 1
      BY <2>4, LiveCopies, Numbers
    <2>6. mails[x] \in Nat /\ faults \in Nat
      BY DeliveryAssumption DEF TypeOK
    <2> QED BY <1>1, <1>2, <2>1, <2>3, <2>5, <2>6
  <1> QED BY <1>3, <1>4

LEMMA ReturnsBudget ==
  ASSUME IInv, IInv', Budget, NEW m \in Msgs, AckWaitExpires(m) \/ AckWaitTooShort(m)
  PROVE  Budget'
  <1> SUFFICES ASSUME NEW x \in Msgs
               PROVE  mails'[x] + Cardinality(Live(x)') <= (IF Open(x)' THEN 0 ELSE 1) + faults'
    BY DEF Budget, Live
  <1> USE DEF IInv
  <1>1. /\ UNCHANGED <<count, acked, inbox, work, mails>>
        /\ due' = due \cup {m} /\ m \notin acked
        /\ \/ ~InProgress(m) /\ UNCHANGED faults
           \/ faults' = faults + 1
    BY DEF AckWaitExpires, AckWaitTooShort, GiveBack, CanReturn, Fault, results
  <1>2. mails[x] + Cardinality(Live(x)) <= (IF Open(x) THEN 0 ELSE 1) + faults
    BY DEF Budget, Live
  <1>3. Live(x)' = Live(x) /\ InProgress(x)' = InProgress(x)
    BY <1>1 DEF Live, Waiting, Held, InProgress, Pulled
  <1>4. faults \in Nat
    BY DeliveryAssumption DEF TypeOK
  <1>5. ((Open(x)' => Open(x)) /\ faults' = faults) \/ faults' = faults + 1
    BY <1>1, <1>3 DEF Open
  <1> QED BY <1>1, <1>2, <1>3, <1>4, <1>5, BudgetOf

LEMMA CrashBudget ==
  ASSUME IInv, IInv', Budget, NEW w \in Replicas, Crash(w)
  PROVE  Budget'
  <1> SUFFICES ASSUME NEW x \in Msgs
               PROVE  mails'[x] + Cardinality(Live(x)') <= (IF Open(x)' THEN 0 ELSE 1) + faults'
    BY DEF Budget, Live
  <1> USE DEF IInv
  <1>1. UNCHANGED mails /\ faults' = faults + 1
    BY DEF Crash, Fault, results
  <1>2. \A v \in Replicas : /\ inbox'[v] \subseteq inbox[v]
                            /\ work'[v] = Idle \/ work'[v] = work[v]
    BY DEF Crash, Done, TypeOK, QueueTypeOK
  <1>3. Live(x)' \subseteq Live(x)
    BY <1>2 DEF Live, Waiting, Held
  <1>4. mails[x] + Cardinality(Live(x)) <= (IF Open(x) THEN 0 ELSE 1) + faults
    BY DEF Budget, Live
  <1> QED BY <1>1, <1>3, <1>4, BudgetOf

LEMMA CallbackBudget ==
  ASSUME IInv, IInv', Budget, NEW w \in Replicas,
         Ack(w) \/ DLQAck(w) \/ Nak(w) \/ ToDLQ(w) \/ PublishEmailSent(w) \/ PublishEmailFailed(w)
  PROVE  Budget'
  <1> SUFFICES ASSUME NEW x \in Msgs
               PROVE  mails'[x] + Cardinality(Live(x)') <= (IF Open(x)' THEN 0 ELSE 1) + faults'
    BY DEF Budget, Live
  <1> USE DEF IInv
  <1>1. mails[x] + Cardinality(Live(x)) <= (IF Open(x) THEN 0 ELSE 1) + faults
    BY DEF Budget, Live
  <1>2. PICK j \in {Idle} \cup Callbacks :
          /\ Becomes(w, j)
          /\ j # Idle => j.pc \in {"emailSent", "emailFailed", "dlqAck"}
          /\ j # Idle /\ j.pc = "dlqAck" => ToDLQ(w) /\ UNCHANGED <<due, faults>>
    <2>1. work[w] # Idle
      BY IdleIsNoCallback
         DEF Ack, DLQAck, Nak, ToDLQ, PublishEmailSent, PublishEmailFailed
    <2>2. CASE \/ Done(w)
               \/ \E pc \in {"emailSent", "emailFailed"} : Reply(w, pc)
      BY <2>1, <2>2, ReplyBecomes DEF Steps
    <2>3. CASE ToDLQ(w) /\ UNCHANGED <<due, faults>> /\ GoTo(w, "dlqAck")
      BY <2>1, <2>3, ReplyBecomes DEF Steps
    <2> QED BY <2>2, <2>3
         DEF Ack, DLQAck, Nak, ToDLQ, PublishEmailSent, PublishEmailFailed
  <1>3. /\ work[w] # Idle /\ UNCHANGED <<inbox, mails>>
        /\ ToDLQ(w) => work[w].pc = "dlq" /\ UNCHANGED acked
    BY IdleIsNoCallback
       DEF Ack, DLQAck, Nak, ToDLQ, PublishEmailSent, PublishEmailFailed, queue, results
  <1>4. /\ Live(x)' \subseteq Live(x)
        /\ work[w].pc \in Undone /\ (j # Idle => j.pc # "dlqAck") /\ x = work[w].msg
              => Live(x)' # Live(x)
        /\ x # work[w].msg => InProgress(x)' = InProgress(x)
        /\ j # Idle /\ j.pc = "dlqAck" => InProgress(x)' = InProgress(x)
    BY <1>2, <1>3, LiveOfCallback
  <1>5. faults' = faults \/ faults' = faults + 1
    BY DEF Ack, DLQAck, Nak, ToDLQ, PublishEmailSent, PublishEmailFailed, Fault, results
  <1>6. faults \in Nat
    BY DeliveryAssumption DEF TypeOK
  <1>7. CASE j # Idle /\ j.pc = "dlqAck"
    BY <1>1, <1>2, <1>3, <1>4, <1>6, <1>7, BudgetOf DEF Open
  <1>8. CASE ~(j # Idle /\ j.pc = "dlqAck") /\ x # work[w].msg
    <2>1. (x \in acked' <=> x \in acked) /\ (x \in due' <=> x \in due)
      BY <1>8 DEF Ack, DLQAck, Nak, ToDLQ, PublishEmailSent, PublishEmailFailed,
                  AckEffect, NakEffect, queue
    <2>2. Open(x)' = Open(x)
      BY <2>1, <1>4, <1>8 DEF Open
    <2> QED BY <1>1, <1>3, <1>4, <1>5, <1>6, <2>2, BudgetOf
  <1>9. CASE ~(j # Idle /\ j.pc = "dlqAck") /\ x = work[w].msg /\ work[w].pc \in Undone
    <2>1. Live(x)' # Live(x)
      BY <1>4, <1>9
    <2> QED BY <1>1, <1>3, <1>4, <1>5, <2>1, BudgetOf
  <1>10. CASE x = work[w].msg /\ work[w].pc \notin Undone
    <2>1. CASE Ack(w)
      <3>1. x \in acked' \/ faults' = faults + 1
        BY <1>10, <2>1 DEF Ack, AckEffect, Fault
      <3>2. ~Open(x)' \/ faults' = faults + 1
        BY <3>1 DEF Open
      <3> QED BY <1>1, <1>3, <1>4, <1>5, <1>6, <3>2, BudgetOf
    <2>2. CASE PublishEmailSent(w) \/ PublishEmailFailed(w)
      <3>1. /\ UNCHANGED <<acked, due, inbox>> /\ work[w].pc \in {"emailSent", "emailFailed"}
            /\ work' = [work EXCEPT ![w] = Idle]
        BY <2>2 DEF PublishEmailSent, PublishEmailFailed, queue, Done
      <3>2. \A v \in Replicas : work'[v] = IF v = w THEN Idle ELSE work[v]
        BY <3>1 DEF TypeOK
      <3>3. Pulled(x)' = Pulled(x)
        BY <3>1 DEF Pulled
      <3>4. InProgress(x)' = InProgress(x)
        BY <3>1, <3>2, <3>3, IdleIsNoCallback DEF InProgress
      <3>5. Open(x)' = Open(x)
        BY <3>1, <3>4 DEF Open
      <3> QED BY <1>1, <1>3, <1>4, <1>5, <1>6, <3>5, BudgetOf
    <2> QED BY <1>10, <2>1, <2>2 DEF DLQAck, Nak, ToDLQ, Undone
  <1> QED BY <1>7, <1>8, <1>9, <1>10

LEMMA ProcessBudget ==
  ASSUME IInv, IInv', Budget, NEW w \in Replicas, NEW d \in Deliveries, Process(w, d)
  PROVE  Budget'
  <1> SUFFICES ASSUME NEW x \in Msgs
               PROVE  mails'[x] + Cardinality(Live(x)') <= (IF Open(x)' THEN 0 ELSE 1) + faults'
    BY DEF Budget, Live
  <1> USE DEF IInv
  <1>1. PICK pc \in Steps :
          /\ work' = [work EXCEPT ![w] = [pc |-> pc, msg |-> d.msg, n |-> d.n]]
          /\ \/ d.msg \in Poison /\ pc = "dlq" /\ UNCHANGED <<mails, faults>>
             \/ d.msg \notin Poison /\ pc = "ack" /\ SendOne(d.msg, TRUE)
             \/ d.msg \notin Poison /\ pc = DecideAction(d.n) /\ SendOne(d.msg, FALSE)
    BY DEF Process
  <1>2. /\ UNCHANGED <<acked, due>> /\ work[w] = Idle
        /\ d \in inbox[w] /\ inbox' = [inbox EXCEPT ![w] = @ \ {d}]
        /\ d.msg \in Msgs /\ d.n \in 1..MaxDeliver /\ d = [msg |-> d.msg, n |-> d.n]
    BY DEF Process, Take, queue, Deliveries
  <1> DEFINE r == [pc |-> pc, msg |-> d.msg, n |-> d.n]
  <1>3. r # Idle /\ r.pc = pc /\ r.msg = d.msg /\ r.n = d.n
    BY DEF Idle, Steps
  <1>4. \A v \in Replicas : work'[v] = IF v = w THEN r ELSE work[v]
    BY <1>1 DEF TypeOK
  <1> HIDE DEF r
  <1>5. \A v \in Replicas : inbox'[v] = IF v = w THEN inbox[w] \ {d} ELSE inbox[v]
    BY <1>2 DEF TypeOK, QueueTypeOK
  <1>6. \A v \in Replicas : d \notin inbox'[v]
    BY <1>2, <1>5 DEF OneHolder
  <1>7. pc \in {"ack", "nak", "dlq"}
    BY <1>1 DEF DecideAction
  <1>8. mails[x] + Cardinality(Live(x)) <= (IF Open(x) THEN 0 ELSE 1) + faults
    BY DEF Budget, Live
  <1>9. CASE x # d.msg
    <2>1. mails'[x] = mails[x]
      BY <1>1, <1>9 DEF SendOne, TypeOK
    <2>2. Live(x)' \subseteq Live(x)
      BY <1>3, <1>4, <1>5, <1>9 DEF Live, Waiting, Held
    <2>3. Pulled(x)' = Pulled(x)
      BY <1>5, <1>9 DEF Pulled
    <2>4. InProgress(x)' = InProgress(x)
      BY <1>2, <1>3, <1>4, <1>9, <2>3, IdleIsNoCallback DEF InProgress
    <2>5. Open(x)' = Open(x)
      BY <1>2, <2>4 DEF Open
    <2>6. faults' >= faults
      BY <1>1, DeliveryAssumption DEF SendOne, Fault, TypeOK
    <2> QED BY <1>8, <2>1, <2>2, <2>5, <2>6, BudgetOf
  <1>10. CASE x = d.msg
    <2>1. d.n \in Waiting(x) /\ d.n \notin Waiting(x)'
      BY <1>2, <1>6, <1>10 DEF Waiting
    <2>2. Live(x)' \subseteq Live(x)
      <3>1. Waiting(x)' \subseteq Waiting(x)
        BY <1>5 DEF Waiting
      <3>2. Held(x)' \subseteq Held(x) \cup {d.n}
        BY <1>3, <1>4 DEF Held
      <3> QED BY <2>1, <3>1, <3>2 DEF Live
    <2>3. pc = "ack" => d.n \notin Live(x)'
      <3> SUFFICES ASSUME pc = "ack", d.n \in Held(x)' PROVE FALSE
        BY <2>1 DEF Live
      <3>1. PICK v \in Replicas : work'[v] # Idle /\ work'[v].pc \in Undone
                                  /\ work'[v].msg = x /\ work'[v].n = d.n
        BY DEF Held
      <3>2. v # w
        BY <3>1, <1>3, <1>4 DEF Undone
      <3> QED BY <3>1, <3>2, <1>2, <1>4, <1>10 DEF OneHolder
    <2>4. InProgress(x) /\ InProgress(x)'
      <3>1. Pulled(x)
        BY <1>2, <1>10 DEF Pulled
      <3> QED BY <3>1, <1>3, <1>4, <1>7, <1>10 DEF InProgress
    <2>5. Open(x)' = Open(x)
      BY <1>2, <2>4 DEF Open
    <2>6. /\ Cardinality(Live(x)) \in Nat /\ Cardinality(Live(x)') \in Nat
          /\ Cardinality(Live(x)') <= Cardinality(Live(x))
          /\ pc = "ack" => Cardinality(Live(x)') + 1 <= Cardinality(Live(x))
      BY <2>1, <2>2, <2>3, LiveCopies, Numbers DEF Live
    <2>7. /\ mails[x] \in Nat /\ faults \in Nat
          /\ \/ mails'[x] = mails[x] /\ faults' = faults
             \/ mails'[x] = mails[x] + 1 /\ faults' = faults /\ pc = "ack"
             \/ mails'[x] = mails[x] + 1 /\ faults' = faults + 1
      BY <1>1, <1>10, DeliveryAssumption DEF SendOne, Fault, TypeOK
    <2> QED BY <1>8, <2>5, <2>6, <2>7
  <1> QED BY <1>9, <1>10

LEMMA InitBudget == Init => Budget
  <1> SUFFICES ASSUME Init, NEW x \in Msgs
               PROVE  mails[x] + Cardinality(Live(x)) <= (IF Open(x) THEN 0 ELSE 1) + faults
    BY DEF Budget, Live
  <1>1. Live(x) = {} /\ Open(x) /\ mails[x] = 0 /\ faults = 0
    BY DEF Init, Live, Waiting, Held, Open
  <1>2. Cardinality({}) = 0
    BY FS_EmptySet
  <1> QED BY <1>1, <1>2

LEMMA NextBudget == IInv /\ IInv' /\ Budget /\ [Next]_vars => Budget'
  <1> SUFFICES ASSUME IInv, IInv', Budget, [Next]_vars PROVE Budget'
    OBVIOUS
  <1>1. ASSUME NEW w \in Replicas, NEW m \in Msgs, Receive(w, m) PROVE Budget'
    BY <1>1, ReceiveBudget
  <1>2. ASSUME NEW w \in Replicas, Callback(w) PROVE Budget'
    BY <1>2, ProcessBudget, CallbackBudget DEF Callback
  <1>3. ASSUME NEW w \in Replicas, Crash(w) PROVE Budget'
    BY <1>3, CrashBudget
  <1>4. ASSUME NEW m \in Msgs, AckWaitExpires(m) \/ AckWaitTooShort(m) PROVE Budget'
    BY <1>4, ReturnsBudget
  <1>5. CASE UNCHANGED vars
    <2>1. \A x \in Msgs : Live(x)' = Live(x) /\ Open(x)' = Open(x)
      BY <1>5 DEF Live, Waiting, Held, Open, InProgress, Pulled, vars, queue
    <2> QED BY <1>5, <2>1 DEF Budget, Live, vars, results
  <1> QED BY <1>1, <1>2, <1>3, <1>4, <1>5 DEF Next

----------------------------------------------------------------------------

(***************************************************************************)
(* The queue, the callbacks and their results are well typed; no message   *)
(* is mailed more often than it was delivered.                             *)
(***************************************************************************)
THEOREM TypeCorrect == Spec => []TypeOK
  <1>1. IInv => TypeOK
    BY DEF IInv
  <1> QED BY <1>1, InitIInv, NextIInv, PTL DEF Spec

(***************************************************************************)
(* An Ack never drops a message that nobody handled (consumer.go 79-85 and *)
(* 208-211), for any replicas, redeliveries and crashes.                   *)
(***************************************************************************)
THEOREM NoMessageIsDropped == Spec => []AckedIsHandled
  <1>1. IInv => AckedIsHandled
    BY DEF IInv
  <1> QED BY <1>1, InitIInv, NextIInv, PTL DEF Spec

(***************************************************************************)
(* decideAction (consumer.go 102-114) gives up on the last delivery only.  *)
(***************************************************************************)
THEOREM GivingUpIsLate == Spec => []GivingUpIsLastResort
  <1>1. IInv => GivingUpIsLastResort
    BY DEF IInv
  <1> QED BY <1>1, InitIInv, NextIInv, PTL DEF Spec

(***************************************************************************)
(* Each mail beyond the first one was paid for by a fault.                 *)
(***************************************************************************)
THEOREM SurplusMailsAreFaults == Spec => []DuplicateMailNeedsFault
  <1>1. IInv /\ Budget => DuplicateMailNeedsFault
    <2> SUFFICES ASSUME IInv, Budget, NEW m \in Msgs PROVE mails[m] <= 1 + faults
      BY DEF DuplicateMailNeedsFault
    <2>1. mails[m] + Cardinality(Live(m)) <= (IF Open(m) THEN 0 ELSE 1) + faults
      BY DEF Budget, Live
    <2>2. Cardinality(Live(m)) \in Nat
      BY LiveCopies, Numbers
    <2>3. mails[m] \in Nat /\ faults \in Nat
      BY DeliveryAssumption DEF IInv, TypeOK
    <2> QED BY <2>1, <2>2, <2>3
  <1> QED BY <1>1, InitIInv, NextIInv, InitBudget, NextBudget, PTL DEF Spec

----------------------------------------------------------------------------
(* The safety core of EveryMessageSettles and EveryConfirmationAnswered.   *)

Working == {"ack", "nak", "dlq", "dlqAck"}

\* Only a delivery that is not the last one is returned with a Nak.
NakIsNotLast == \A w \in Replicas : work[w].pc = "nak" => work[w].n < MaxDeliver

\* What the server is going to deliver, it can deliver.
DueCanBeDelivered == \A m \in due : count[m] < MaxDeliver

\* The reply to a confirmation is in the stream SAGA or about to be published.
Answered(m) ==
    m \in Confirmations =>
        \/ m \in sent \cup failed
        \/ \E w \in Replicas : work[w].pc \in {"emailSent", "emailFailed"} /\ work[w].msg = m

\* While nothing fails, each message is in one place: the copy that a replica
\* has is the one the server counted last, and the server keeps none.
OneCopyWithoutFaults ==
    faults = 0 =>
        /\ \A w \in Replicas : \A d \in inbox[w] :
              d.n = count[d.msg] /\ d.msg \notin due \cup acked
        /\ \A w \in Replicas : work[w].pc \in Working =>
              work[w].n = count[work[w].msg] /\ work[w].msg \notin due \cup acked

(***************************************************************************)
(* While nothing fails, each message can be delivered, is in the hands of  *)
(* a replica, or was acknowledged and its reply, if it needs one, is sent  *)
(* or about to be: no Ack, Nak or dead letter leaves it stranded.          *)
(***************************************************************************)
MessagesAreInHand ==
    faults = 0 =>
        \A m \in Msgs :
            \/ m \in due /\ count[m] < MaxDeliver
            \/ InProgress(m)
            \/ m \in acked /\ Answered(m)

FlowInv ==
    /\ NakIsNotLast
    /\ DueCanBeDelivered
    /\ OneCopyWithoutFaults
    /\ MessagesAreInHand

\* A callback under way has the fields of one.
LEMMA WorkShape ==
  ASSUME IInv, NEW w \in Replicas, work[w].pc # "idle"
  PROVE  work[w] \in Callbacks /\ work[w].msg \in Msgs /\ work[w].n \in 1..MaxDeliver
  BY IdleIsNoCallback DEF IInv, TypeOK, Callbacks

\* After a fault FlowInv promises little.
LEMMA FaultKeepsFlow ==
  ASSUME faults' # 0, NakIsNotLast', DueCanBeDelivered'
  PROVE  FlowInv'
  BY DEF FlowInv, OneCopyWithoutFaults, MessagesAreInHand

LEMMA ReceiveKeepsFlow ==
  ASSUME IInv, FlowInv, NEW w \in Replicas, NEW m \in Msgs, Receive(w, m)
  PROVE  FlowInv'
  <1> DEFINE e == [msg |-> m, n |-> count[m] + 1]
  <1>1. /\ m \in due /\ due' = due \ {m} /\ UNCHANGED <<acked, work, results, faults>>
        /\ \A x \in Msgs : count'[x] = IF x = m THEN count[m] + 1 ELSE count[x]
        /\ \A v \in Replicas : inbox'[v] = IF v = w THEN inbox[v] \cup {e} ELSE inbox[v]
    BY DEF Receive, Deliver, IInv, TypeOK, QueueTypeOK
  <1>2. \A v \in Replicas : \A d \in inbox[v] : d.msg \in Msgs
    BY DEF IInv, TypeOK, QueueTypeOK, Deliveries
  <1>3. NakIsNotLast' /\ DueCanBeDelivered'
    BY <1>1 DEF FlowInv, NakIsNotLast, DueCanBeDelivered, IInv, TypeOK, QueueTypeOK
  <1>4. ASSUME faults = 0
        PROVE  /\ \A v \in Replicas : \A d \in inbox[v] : d.msg # m
               /\ \A v \in Replicas : work[v].pc \in Working => work[v].msg # m
               /\ m \notin acked
    BY <1>1, <1>4 DEF FlowInv, OneCopyWithoutFaults, IInv, DueIsOpen
  <1>5. OneCopyWithoutFaults'
    <2> SUFFICES ASSUME faults = 0
                 PROVE  /\ \A v \in Replicas : \A d \in inbox'[v] :
                              d.n = count'[d.msg] /\ d.msg \notin due' \cup acked'
                        /\ \A v \in Replicas : work'[v].pc \in Working =>
                              work'[v].n = count'[work'[v].msg] /\ work'[v].msg \notin due' \cup acked'
      BY <1>1 DEF OneCopyWithoutFaults
    <2>1. ASSUME NEW v \in Replicas, NEW d \in inbox'[v]
          PROVE  d.n = count'[d.msg] /\ d.msg \notin due' \cup acked'
      <3>1. CASE d \in inbox[v]
        BY <3>1, <1>1, <1>2, <1>4 DEF FlowInv, OneCopyWithoutFaults
      <3>2. CASE d = e
        BY <3>2, <1>1, <1>4
      <3> QED BY <2>1, <3>1, <3>2, <1>1
    <2>2. ASSUME NEW v \in Replicas, work[v].pc \in Working
          PROVE  work[v].n = count'[work[v].msg] /\ work[v].msg \notin due' \cup acked'
      <3>1. work[v].msg \in Msgs
        BY <2>2, WorkShape DEF Working
      <3> QED BY <2>2, <3>1, <1>1, <1>4 DEF FlowInv, OneCopyWithoutFaults
    <2> QED BY <2>1, <2>2, <1>1
  <1>6. MessagesAreInHand'
    <2> SUFFICES ASSUME faults = 0, NEW x \in Msgs
                 PROVE  \/ x \in due' /\ count'[x] < MaxDeliver
                        \/ InProgress(x)'
                        \/ x \in acked' /\ Answered(x)'
      BY <1>1 DEF MessagesAreInHand
    <2>1. CASE x = m
      <3>1. e \in inbox'[w] /\ e.msg = x
        BY <2>1, <1>1
      <3> QED BY <3>1 DEF InProgress, Pulled
    <2>2. CASE x # m
      <3>1. InProgress(x) => InProgress(x)'
        BY <1>1 DEF InProgress, Pulled
      <3>2. Answered(x) => Answered(x)'
        BY <1>1 DEF Answered, results
      <3> QED BY <2>2, <3>1, <3>2, <1>1 DEF FlowInv, MessagesAreInHand
    <2> QED BY <2>1, <2>2
  <1> QED BY <1>3, <1>5, <1>6 DEF FlowInv

\* Without a fault AckWait expires for nobody.
LEMMA ReturnsKeepFlow ==
  ASSUME IInv, FlowInv, NEW m \in Msgs, AckWaitExpires(m) \/ AckWaitTooShort(m)
  PROVE  FlowInv'
  <1>1. /\ CanReturn(m) /\ m \notin due /\ due' = due \cup {m}
        /\ UNCHANGED <<count, acked, inbox, work, results>>
    BY DEF AckWaitExpires, AckWaitTooShort, GiveBack
  <1>2. NakIsNotLast' /\ DueCanBeDelivered'
    BY <1>1 DEF FlowInv, NakIsNotLast, DueCanBeDelivered, CanReturn
  <1>3. faults' # 0
    <2>1. faults \in Nat
      BY DeliveryAssumption DEF IInv, TypeOK
    <2>2. CASE AckWaitTooShort(m)
      BY <2>1, <2>2 DEF AckWaitTooShort, Fault
    <2>3. CASE AckWaitExpires(m)
      BY <2>3, <1>1 DEF AckWaitExpires, CanReturn, FlowInv, MessagesAreInHand
    <2> QED BY <2>2, <2>3
  <1> QED BY <1>2, <1>3, FaultKeepsFlow

LEMMA ProcessKeepsFlow ==
  ASSUME IInv, FlowInv, NEW w \in Replicas, NEW d \in Deliveries, Process(w, d)
  PROVE  FlowInv'
  <1>1. PICK pc \in {"dlq", "ack", "nak"} :
          /\ work' = [work EXCEPT ![w] = [pc |-> pc, msg |-> d.msg, n |-> d.n]]
          /\ pc = "nak" => d.n < MaxDeliver
          /\ faults' # faults => faults' = faults + 1
    <2>1. PICK pc \in Steps :
            /\ work' = [work EXCEPT ![w] = [pc |-> pc, msg |-> d.msg, n |-> d.n]]
            /\ pc \in {"dlq", "ack"} \/ pc = DecideAction(d.n)
            /\ faults' # faults => faults' = faults + 1
      BY DEF Process, SendOne, Fault
    <2>2. pc \in {"dlq", "ack", "nak"} /\ (pc = "nak" => ~(d.n >= MaxDeliver))
      BY <2>1 DEF DecideAction
    <2>3. d.n \in Nat /\ MaxDeliver \in Nat
      BY DeliveryAssumption DEF Deliveries
    <2>4. pc = "nak" => d.n < MaxDeliver
      BY <2>2, <2>3
    <2> QED BY <2>1, <2>2, <2>4
  <1> DEFINE r == [pc |-> pc, msg |-> d.msg, n |-> d.n]
  <1>2. \A v \in Replicas : work'[v] = IF v = w THEN r ELSE work[v]
    BY <1>1 DEF IInv, TypeOK
  <1>3. /\ UNCHANGED <<count, due, acked, dead, sent, failed>> /\ work[w] = Idle
        /\ d \in inbox[w]
        /\ \A v \in Replicas : inbox'[v] = IF v = w THEN inbox[v] \ {d} ELSE inbox[v]
    BY DEF Process, Take, queue, IInv, TypeOK, QueueTypeOK
  <1>4. NakIsNotLast' /\ DueCanBeDelivered'
    BY <1>1, <1>2, <1>3 DEF FlowInv, NakIsNotLast, DueCanBeDelivered
  <1>5. CASE faults' # faults
    <2>1. faults' # 0
      BY <1>1, <1>5, DeliveryAssumption DEF IInv, TypeOK
    <2> QED BY <1>4, <2>1, FaultKeepsFlow
  <1>6. CASE faults' = faults
    <2>1. OneCopyWithoutFaults'
      <3> SUFFICES ASSUME faults = 0
                   PROVE  /\ \A v \in Replicas : \A e \in inbox'[v] :
                                e.n = count[e.msg] /\ e.msg \notin due \cup acked
                          /\ \A v \in Replicas : work'[v].pc \in Working =>
                                work'[v].n = count[work'[v].msg] /\ work'[v].msg \notin due \cup acked
        BY <1>3, <1>6 DEF OneCopyWithoutFaults
      <3>1. r.n = count[r.msg] /\ r.msg \notin due \cup acked
        BY <1>3 DEF FlowInv, OneCopyWithoutFaults
      <3> QED BY <1>2, <1>3, <3>1 DEF FlowInv, OneCopyWithoutFaults
    <2>2. MessagesAreInHand'
      <3> SUFFICES ASSUME faults = 0, NEW x \in Msgs
                   PROVE  \/ x \in due /\ count[x] < MaxDeliver
                          \/ InProgress(x)'
                          \/ x \in acked /\ Answered(x)'
        BY <1>3, <1>6 DEF MessagesAreInHand
      <3>1. d.msg = x => InProgress(x)'
        BY <1>1, <1>2 DEF InProgress
      <3>2. InProgress(x) /\ d.msg # x => InProgress(x)'
        <4>1. CASE Pulled(x)
          BY <4>1, <1>3 DEF InProgress, Pulled
        <4>2. CASE \E v \in Replicas :
                      work[v].pc \in {"ack", "nak", "dlq", "dlqAck"} /\ work[v].msg = x
          BY <4>2, <1>2, <1>3, IdleIsNoCallback DEF InProgress
        <4> QED BY <4>1, <4>2 DEF InProgress
      <3>3. Answered(x) => Answered(x)'
        BY <1>2, <1>3, IdleIsNoCallback DEF Answered
      <3> QED BY <3>1, <3>2, <3>3 DEF FlowInv, MessagesAreInHand
    <2> QED BY <1>4, <2>1, <2>2 DEF FlowInv
  <1> QED BY <1>5, <1>6

(***************************************************************************)
(* While nothing fails, the copy of a working callback is the only one.    *)
(***************************************************************************)
LEMMA OnlyCopy ==
  ASSUME IInv, FlowInv, faults = 0, NEW w \in Replicas, work[w].pc \in Working
  PROVE  /\ work[w].n = count[work[w].msg] /\ work[w].msg \notin due \cup acked
         /\ \A v \in Replicas : \A d \in inbox[v] : d.msg # work[w].msg
         /\ \A v \in Replicas \ {w} : work[v].pc \in Working => work[v].msg # work[w].msg
  <1>1. work[w].n = count[work[w].msg] /\ work[w].msg \notin due \cup acked
    BY DEF FlowInv, OneCopyWithoutFaults
  <1>2. work[w] # Idle
    BY IdleIsNoCallback DEF Working
  <1>3. ASSUME NEW v \in Replicas, NEW d \in inbox[v], d.msg = work[w].msg
        PROVE  FALSE
    BY <1>1, <1>2, <1>3 DEF FlowInv, OneCopyWithoutFaults, IInv, OneHolder
  <1>4. ASSUME NEW v \in Replicas \ {w}, work[v].pc \in Working, work[v].msg = work[w].msg
        PROVE  FALSE
    <2>1. work[v] # Idle /\ work[v].n = work[w].n
      BY <1>1, <1>4, IdleIsNoCallback DEF FlowInv, OneCopyWithoutFaults, Working
    <2> QED BY <1>2, <1>4, <2>1 DEF IInv, OneHolder
  <1> QED BY <1>1, <1>3, <1>4

(***************************************************************************)
(* A callback that goes on with j, without a fault: it touches nothing but *)
(* its own message m, gives m back to the server or acknowledges it only   *)
(* as the last thing it does with its copy, and leaves m in somebody's     *)
(* hands.                                                                  *)
(***************************************************************************)
LEMMA StepKeepsFlow ==
  ASSUME IInv, FlowInv, UNCHANGED <<count, inbox, faults>>,
         NEW w \in Replicas, work[w].pc # "idle", NEW m, m = work[w].msg,
         NEW j, \A v \in Replicas : work'[v] = IF v = w THEN j ELSE work[v],
         j.pc # "nak",
         j.pc \in Working =>
            j.msg = m /\ j.n = work[w].n /\ work[w].pc \in Working /\ UNCHANGED <<due, acked>>,
         work[w].pc \in Working \/ UNCHANGED <<due, acked>>,
         due \ {m} \subseteq due', due' \subseteq due \cup {m},
         acked \subseteq acked', acked' \subseteq acked \cup {m},
         sent \subseteq sent', failed \subseteq failed',
         m \in due' => count[m] < MaxDeliver,
         faults = 0 =>
            \/ m \in due'
            \/ j.pc \in Working \/ InProgress(m)'
            \/ m \in acked' /\ Answered(m)'
  PROVE  FlowInv'
  <1>1. NakIsNotLast' /\ DueCanBeDelivered'
    BY DEF FlowInv, NakIsNotLast, DueCanBeDelivered
  <1>2. OneCopyWithoutFaults'
    <2> SUFFICES ASSUME faults = 0
                 PROVE  /\ \A v \in Replicas : \A d \in inbox[v] :
                              d.n = count[d.msg] /\ d.msg \notin due' \cup acked'
                        /\ \A v \in Replicas : work'[v].pc \in Working =>
                              work'[v].n = count[work'[v].msg] /\ work'[v].msg \notin due' \cup acked'
      BY DEF OneCopyWithoutFaults
    <2>1. CASE UNCHANGED <<due, acked>>
      BY <2>1 DEF FlowInv, OneCopyWithoutFaults
    <2>2. CASE work[w].pc \in Working /\ j.pc \notin Working
      <3>1. /\ \A v \in Replicas : \A d \in inbox[v] : d.msg # m
            /\ \A v \in Replicas \ {w} : work[v].pc \in Working => work[v].msg # m
        BY <2>2, OnlyCopy
      <3> QED BY <2>2, <3>1 DEF FlowInv, OneCopyWithoutFaults
    <2> QED BY <2>1, <2>2
  <1>3. MessagesAreInHand'
    <2> SUFFICES ASSUME faults = 0, NEW x \in Msgs
                 PROVE  \/ x \in due' /\ count[x] < MaxDeliver
                        \/ InProgress(x)'
                        \/ x \in acked' /\ Answered(x)'
      BY DEF MessagesAreInHand
    <2>1. CASE x = m
      <3>1. j.pc \in Working => InProgress(x)'
        BY <2>1 DEF Working, InProgress
      <3> QED BY <2>1, <3>1
    <2>2. CASE x # m
      <3>1. InProgress(x) => InProgress(x)'
        BY <2>2 DEF InProgress, Pulled
      <3>2. Answered(x) => Answered(x)'
        BY <2>2 DEF Answered
      <3> QED BY <2>2, <3>1, <3>2 DEF FlowInv, MessagesAreInHand
    <2> QED BY <2>1, <2>2
  <1> QED BY <1>1, <1>2, <1>3 DEF FlowInv

\* A callback that meets a fault, or a crash, starts no Nak.
LEMMA FaultyCallbackKeepsFlow ==
  ASSUME IInv, FlowInv, Fault, UNCHANGED count,
         \A v \in Replicas : work'[v].pc = "nak" => work'[v] = work[v],
         \A m \in due' : m \in due \/ CanReturn(m)
  PROVE  FlowInv'
  <1>1. faults' # 0
    BY DeliveryAssumption DEF Fault, IInv, TypeOK
  <1>2. NakIsNotLast' /\ DueCanBeDelivered'
    BY DEF FlowInv, NakIsNotLast, DueCanBeDelivered, CanReturn
  <1> QED BY <1>1, <1>2, FaultKeepsFlow

\* What a step of callback w writes into work, as one value.
LEMMA WorkBecomes ==
  ASSUME IInv, NEW w \in Replicas, work[w].pc # "idle", NEW pc \in Steps,
         Reply(w, pc) \/ GoTo(w, pc) \/ Done(w)
  PROVE  \E j : /\ \A v \in Replicas : work'[v] = IF v = w THEN j ELSE work[v]
                /\ j = Idle \/ (j.pc = pc /\ j.msg = work[w].msg /\ j.n = work[w].n)
                /\ j = Idle => Done(w)
                /\ Reply(w, pc) /\ work[w].msg \in Confirmations => j # Idle
                /\ GoTo(w, pc) => j # Idle
  <1>1. work \in [Replicas -> {Idle} \cup Callbacks] /\ work[w] \in Callbacks
    BY WorkShape DEF IInv, TypeOK
  <1> DEFINE r == [pc |-> pc, msg |-> work[w].msg, n |-> work[w].n]
  <1>2. r = [work[w] EXCEPT !.pc = pc] /\ r # Idle
    BY <1>1, IdleIsNoCallback DEF Callbacks
  <1>3. CASE GoTo(w, pc)
    <2>1. \A v \in Replicas : work'[v] = IF v = w THEN r ELSE work[v]
      BY <1>1, <1>2, <1>3 DEF GoTo
    <2>2. r.pc = pc /\ r.msg = work[w].msg /\ r.n = work[w].n
      OBVIOUS
    <2> HIDE DEF r
    <2> QED BY <1>2, <2>1, <2>2
  <1>4. CASE Done(w) /\ ~GoTo(w, pc)
    <2>1. \A v \in Replicas : work'[v] = IF v = w THEN Idle ELSE work[v]
      BY <1>1, <1>4 DEF Done
    <2>2. ~(Reply(w, pc) /\ work[w].msg \in Confirmations)
      BY <1>4 DEF Reply
    <2> QED BY <1>4, <2>1, <2>2
  <1> QED BY <1>3, <1>4 DEF Reply

(***************************************************************************)
(* The steps that acknowledge a mail or a dead letter and go on with the   *)
(* reply.                                                                  *)
(***************************************************************************)
LEMMA AckKeepsFlow ==
  ASSUME IInv, FlowInv, NEW w \in Replicas, Ack(w) \/ DLQAck(w)
  PROVE  FlowInv'
  <1>0. PICK m : m = work[w].msg
    OBVIOUS
  <1>1. PICK pc \in {"emailSent", "emailFailed"} :
          /\ work[w].pc \in {"ack", "dlqAck"} /\ Reply(w, pc)
          /\ UNCHANGED <<count, inbox, mails, dead, sent, failed>>
          /\ \/ acked' = acked \cup {m} /\ due' = due \ {m} /\ UNCHANGED faults
             \/ UNCHANGED <<acked, due>> /\ Fault
    BY <1>0 DEF Ack, DLQAck, AckEffect, results
  <1>2. work[w].pc # "idle" /\ work[w].pc \in Working /\ pc \in Steps /\ m \in Msgs
    BY <1>0, <1>1, WorkShape DEF Working, Steps
  <1>3. PICK j : /\ \A v \in Replicas : work'[v] = IF v = w THEN j ELSE work[v]
                 /\ j = Idle \/ (j.pc = pc /\ j.msg = m /\ j.n = work[w].n)
                 /\ m \in Confirmations => j # Idle
    BY <1>0, <1>1, <1>2, WorkBecomes
  <1>4. j.pc \notin Working /\ j.pc # "nak"
    BY <1>1, <1>3, IdleIsNoCallback DEF Working
  <1>5. CASE acked' = acked \cup {m} /\ due' = due \ {m} /\ UNCHANGED faults
    <2>1. m \in Confirmations => j.pc \in {"emailSent", "emailFailed"} /\ j.msg = m
      BY <1>1, <1>3
    <2>2. Answered(m)'
      BY <1>3, <2>1 DEF Answered
    <2>3. /\ due \ {m} \subseteq due' /\ due' \subseteq due \cup {m} /\ m \notin due'
          /\ acked \subseteq acked' /\ acked' \subseteq acked \cup {m} /\ m \in acked'
          /\ sent \subseteq sent' /\ failed \subseteq failed'
          /\ UNCHANGED <<count, inbox, faults>>
      BY <1>1, <1>5
    <2> QED BY <1>0, <1>2, <1>3, <1>4, <2>2, <2>3, StepKeepsFlow
  <1>6. CASE UNCHANGED <<acked, due>> /\ Fault
    <2>1. \A v \in Replicas : work'[v].pc = "nak" => work'[v] = work[v]
      BY <1>3, <1>4
    <2> QED BY <1>1, <1>6, <2>1, FaultyCallbackKeepsFlow
  <1> QED BY <1>1, <1>5, <1>6

(***************************************************************************)
(* A Nak returns the message: without a fault its copy is the one counted  *)
(* last, and decideAction has seen that it is not the last delivery.       *)
(***************************************************************************)
LEMMA NakKeepsFlow ==
  ASSUME IInv, FlowInv, NEW w \in Replicas, Nak(w)
  PROVE  FlowInv'
  <1>0. PICK m : m = work[w].msg
    OBVIOUS
  <1>1. /\ work[w].pc = "nak" /\ Done(w)
        /\ UNCHANGED <<count, acked, inbox, mails, dead, sent, failed, faults>>
        /\ due' = IF CanReturn(m) THEN due \cup {m} ELSE due
    BY <1>0 DEF Nak, NakEffect, results
  <1>2. work[w].pc # "idle" /\ work[w].pc \in Working /\ m \in Msgs
    BY <1>0, <1>1, WorkShape DEF Working
  <1>3. \A v \in Replicas : work'[v] = IF v = w THEN Idle ELSE work[v]
    BY <1>1 DEF Done, IInv, TypeOK
  <1>4. Idle.pc \notin Working /\ Idle.pc # "nak"
    BY IdleIsNoCallback DEF Working
  <1>5. faults = 0 => CanReturn(m)
    BY <1>0, <1>1, <1>2, OnlyCopy DEF FlowInv, NakIsNotLast, CanReturn
  <1>6. m \in due' => count[m] < MaxDeliver
    BY <1>1 DEF FlowInv, DueCanBeDelivered, CanReturn
  <1>7. /\ due \ {m} \subseteq due' /\ due' \subseteq due \cup {m}
        /\ faults = 0 => m \in due'
    BY <1>1, <1>5
  <1> QED BY <1>0, <1>1, <1>2, <1>3, <1>4, <1>6, <1>7, StepKeepsFlow

LEMMA ToDLQKeepsFlow ==
  ASSUME IInv, FlowInv, NEW w \in Replicas, ToDLQ(w)
  PROVE  FlowInv'
  <1>0. PICK m : m = work[w].msg
    OBVIOUS
  <1>1. /\ work[w].pc = "dlq" /\ UNCHANGED <<count, acked, inbox, mails, sent, failed>>
        /\ \/ GoTo(w, "dlqAck") /\ UNCHANGED <<due, faults>>
           \/ /\ Fault /\ Reply(w, "emailFailed")
              /\ due' = IF CanReturn(m) THEN due \cup {m} ELSE due
    BY <1>0 DEF ToDLQ, NakEffect
  <1>2. /\ work[w].pc # "idle" /\ work[w].pc \in Working /\ m \in Msgs
        /\ "dlqAck" \in Steps /\ "emailFailed" \in Steps
    BY <1>0, <1>1, WorkShape DEF Working, Steps
  <1>3. CASE GoTo(w, "dlqAck") /\ UNCHANGED <<due, faults>>
    <2>1. PICK j : /\ \A v \in Replicas : work'[v] = IF v = w THEN j ELSE work[v]
                   /\ j.pc = "dlqAck" /\ j.msg = m /\ j.n = work[w].n
      BY <1>0, <1>2, <1>3, WorkBecomes
    <2>2. j.pc \in Working /\ j.pc # "nak"
      BY <2>1 DEF Working
    <2>3. m \in due' => count[m] < MaxDeliver
      BY <1>3 DEF FlowInv, DueCanBeDelivered
    <2> QED BY <1>0, <1>1, <1>2, <1>3, <2>1, <2>2, <2>3, StepKeepsFlow
  <1>4. CASE /\ Fault /\ Reply(w, "emailFailed")
             /\ due' = IF CanReturn(m) THEN due \cup {m} ELSE due
    <2>1. PICK j : /\ \A v \in Replicas : work'[v] = IF v = w THEN j ELSE work[v]
                   /\ j = Idle \/ j.pc = "emailFailed"
      BY <1>2, <1>4, WorkBecomes
    <2>2. \A v \in Replicas : work'[v].pc = "nak" => work'[v] = work[v]
      BY <2>1, IdleIsNoCallback
    <2>3. \A x \in due' : x \in due \/ CanReturn(x)
      BY <1>4
    <2> QED BY <1>1, <1>4, <2>2, <2>3, FaultyCallbackKeepsFlow
  <1> QED BY <1>1, <1>3, <1>4

(***************************************************************************)
(* The reply is published, or lost with a fault.                           *)
(***************************************************************************)
LEMMA PublishKeepsFlow ==
  ASSUME IInv, FlowInv, NEW w \in Replicas, PublishEmailSent(w) \/ PublishEmailFailed(w)
  PROVE  FlowInv'
  <1>0. PICK m : m = work[w].msg
    OBVIOUS
  <1>1. /\ work[w].pc \in {"emailSent", "emailFailed"} /\ Done(w)
        /\ UNCHANGED <<count, due, acked, inbox>>
        /\ \/ /\ UNCHANGED faults /\ m \in sent' \cup failed'
              /\ sent \subseteq sent' /\ failed \subseteq failed'
           \/ Fault
    BY <1>0 DEF PublishEmailSent, PublishEmailFailed, queue
  <1>2. work[w].pc # "idle" /\ m \in Msgs /\ work[w].pc \notin Working
    BY <1>0, <1>1, WorkShape DEF Working
  <1>3. \A v \in Replicas : work'[v] = IF v = w THEN Idle ELSE work[v]
    BY <1>1 DEF Done, IInv, TypeOK
  <1>4. Idle.pc \notin Working /\ Idle.pc # "nak"
    BY IdleIsNoCallback DEF Working
  <1>5. CASE /\ UNCHANGED faults /\ m \in sent' \cup failed'
             /\ sent \subseteq sent' /\ failed \subseteq failed'
    <2>1. m \in due' => count[m] < MaxDeliver
      BY <1>1 DEF FlowInv, DueCanBeDelivered
    <2>2. InProgress(m) => InProgress(m)'
      <3>1. CASE Pulled(m)
        BY <3>1, <1>1 DEF InProgress, Pulled
      <3>2. CASE \E v \in Replicas :
                    work[v].pc \in {"ack", "nak", "dlq", "dlqAck"} /\ work[v].msg = m
        BY <3>2, <1>1, <1>3 DEF InProgress
      <3> QED BY <3>1, <3>2 DEF InProgress
    <2>3. Answered(m)'
      BY <1>5 DEF Answered
    <2>4. faults = 0 => \/ m \in due'
                        \/ InProgress(m)'
                        \/ m \in acked' /\ Answered(m)'
      BY <1>1, <1>2, <2>2, <2>3 DEF FlowInv, MessagesAreInHand
    <2> QED BY <1>0, <1>1, <1>2, <1>3, <1>4, <1>5, <2>1, <2>4, StepKeepsFlow
  <1>6. CASE Fault
    BY <1>1, <1>3, <1>4, <1>6, FaultyCallbackKeepsFlow
  <1> QED BY <1>1, <1>5, <1>6

LEMMA CrashKeepsFlow ==
  ASSUME IInv, FlowInv, NEW w \in Replicas, Crash(w)
  PROVE  FlowInv'
  <1>1. Fault /\ UNCHANGED <<count, due>>
    BY DEF Crash, queue
  <1>2. \A v \in Replicas : work'[v] = IF v = w THEN Idle ELSE work[v]
    BY DEF Crash, Done, IInv, TypeOK
  <1>3. \A v \in Replicas : work'[v].pc = "nak" => work'[v] = work[v]
    BY <1>2, IdleIsNoCallback
  <1> QED BY <1>1, <1>3, FaultyCallbackKeepsFlow

LEMMA InitFlow == Init => FlowInv
  BY DeliveryAssumption, IdleIsNoCallback
     DEF Init, FlowInv, NakIsNotLast, DueCanBeDelivered, OneCopyWithoutFaults, MessagesAreInHand, Working

LEMMA NextKeepsFlow == IInv /\ FlowInv /\ [Next]_vars => FlowInv'
  <1> SUFFICES ASSUME IInv, FlowInv, [Next]_vars PROVE FlowInv'
    OBVIOUS
  <1>1. ASSUME NEW w \in Replicas, NEW m \in Msgs, Receive(w, m) PROVE FlowInv'
    BY <1>1, ReceiveKeepsFlow
  <1>2. ASSUME NEW w \in Replicas, NEW d \in Deliveries, Process(w, d) PROVE FlowInv'
    BY <1>2, ProcessKeepsFlow
  <1>3. ASSUME NEW w \in Replicas, Ack(w) \/ DLQAck(w) PROVE FlowInv'
    BY <1>3, AckKeepsFlow
  <1>4. ASSUME NEW w \in Replicas, Nak(w) PROVE FlowInv'
    BY <1>4, NakKeepsFlow
  <1>5. ASSUME NEW w \in Replicas, ToDLQ(w) PROVE FlowInv'
    BY <1>5, ToDLQKeepsFlow
  <1>6. ASSUME NEW w \in Replicas, PublishEmailSent(w) \/ PublishEmailFailed(w) PROVE FlowInv'
    BY <1>6, PublishKeepsFlow
  <1>7. ASSUME NEW w \in Replicas, Crash(w) PROVE FlowInv'
    BY <1>7, CrashKeepsFlow
  <1>8. ASSUME NEW m \in Msgs, AckWaitExpires(m) \/ AckWaitTooShort(m) PROVE FlowInv'
    BY <1>8, ReturnsKeepFlow
  <1>9. CASE UNCHANGED vars
    BY <1>9 DEF vars, queue, results, FlowInv, NakIsNotLast, DueCanBeDelivered,
                OneCopyWithoutFaults, MessagesAreInHand, InProgress, Pulled, Answered
  <1> QED BY <1>1, <1>2, <1>3, <1>4, <1>5, <1>6, <1>7, <1>8, <1>9 DEF Next, Callback

(***************************************************************************)
(* While nothing fails, no path through processMessage, decideAction and   *)
(* toDLQ strands a message: it waits for a delivery the server can still   *)
(* make, a replica has it, or it was acknowledged and the saga has the     *)
(* answer to it or is about to.  With the fairness that TLC assumes, this  *)
(* is why EveryMessageSettles and EveryConfirmationAnswered hold.          *)
(***************************************************************************)
THEOREM NoMessageIsStranded == Spec => []MessagesAreInHand
  <1>1. FlowInv => MessagesAreInHand
    BY DEF FlowInv
  <1> QED BY <1>1, InitIInv, NextIInv, InitFlow, NextKeepsFlow, PTL DEF Spec
=============================================================================
