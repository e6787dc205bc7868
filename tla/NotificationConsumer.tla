------------------------- MODULE NotificationConsumer -------------------------
(***************************************************************************)
(* The notification service: the durable JetStream consumer of the stream  *)
(* NOTIFICATIONS, the callback that turns a message into a mail, a dead    *)
(* letter or a redelivery, and its replies to the subscribe saga.          *)
(*                                                                         *)
(* Each replica runs the callback for one message at a time; the queue it  *)
(* shares with the other replicas is JetStreamConsumer.                    *)
(***************************************************************************)
EXTENDS Naturals, FiniteSets

CONSTANTS
    Confirmations,  \* ConfirmationRequested messages: they carry a saga id
    Others,         \* VerificationRequested and ReleaseDetected messages
    Poison,         \* messages that cannot be unmarshalled
    Replicas,       \* replicas of the service
    MaxDeliver,     \* maxDeliver
    MaxFaults       \* bound: crashes, lost publishes and Acks, slow or lying SMTP

ASSUME MessagesAssumption ==
    /\ Confirmations \cap Others = {}
    /\ Confirmations \cap Poison = {}
    /\ Others \cap Poison = {}

ASSUME DeliveryAssumption == MaxDeliver \in Nat \ {0} /\ MaxFaults \in Nat

Msgs == Confirmations \cup Others \cup Poison

VARIABLES
    count, due, acked, inbox,  \* the work queue: see JetStreamConsumer
    work,     \* the callback a replica is running
    mails,    \* mails the SMTP server accepted for a message
    dead,     \* messages with a dead letter in NOTIFICATIONS_DLQ
    sent,     \* confirmations for which EmailSent is in the stream SAGA
    failed,   \* confirmations for which EmailFailed is in the stream SAGA
    faults    \* faults so far

INSTANCE JetStreamConsumer

queue == <<count, due, acked>>
results == <<mails, dead, sent, failed>>
vars == <<queue, inbox, work, results, faults>>

Idle == [pc |-> "idle"]

\* What the callback does next with its delivery.
Steps == {"ack", "nak", "dlq", "dlqAck", "emailSent", "emailFailed"}
Callbacks == [pc : Steps, msg : Msgs, n : 1..MaxDeliver]

TypeOK ==
    /\ QueueTypeOK
    /\ work \in [Replicas -> {Idle} \cup Callbacks]
    /\ mails \in [Msgs -> 0..MaxDeliver]
    /\ dead \subseteq Msgs
    /\ sent \subseteq Confirmations
    /\ failed \subseteq Confirmations
    /\ faults \in 0..MaxFaults

Init ==
    /\ count = [m \in Msgs |-> 0]
    /\ due = Msgs
    /\ acked = {}
    /\ inbox = [w \in Replicas |-> {}]
    /\ work = [w \in Replicas |-> Idle]
    /\ mails = [m \in Msgs |-> 0]
    /\ dead = {} /\ sent = {} /\ failed = {}
    /\ faults = 0

Fault == faults < MaxFaults /\ faults' = faults + 1

\* A copy of m is pulled or in progress somewhere.
InProgress(m) ==
    \/ Pulled(m)
    \/ \E w \in Replicas :
          work[w].pc \in {"ack", "nak", "dlq", "dlqAck"} /\ work[w].msg = m

\* The server delivers to a replica.
Receive(w, m) == Deliver(w, m) /\ UNCHANGED <<work, results, faults>>

\* Nobody works on it any more: a crash, or an Ack that was lost.
AckWaitExpires(m) ==
    ~InProgress(m) /\ GiveBack(m) /\ UNCHANGED <<work, results, faults>>

\* A replica was too slow for AckWait, which runs from the moment of delivery.
AckWaitTooShort(m) ==
    InProgress(m) /\ GiveBack(m) /\ Fault /\ UNCHANGED <<work, results>>

----------------------------------------------------------------------------
(* The callback.                                                           *)

\* The callback of replica w goes on with pc, or is done.
GoTo(w, pc) == work' = [work EXCEPT ![w].pc = pc]
Done(w) == work' = [work EXCEPT ![w] = Idle]

\* Faulty variant: EmailSent and EmailFailed without the check of sagaID.
ReplyToAll(w, pc) == GoTo(w, pc)

\* Faulty variant: no EmailFailed after a dead letter.
ReplySentOnly(w, pc) ==
    IF work[w].msg \in Confirmations /\ pc = "emailSent" THEN GoTo(w, pc) ELSE Done(w)

\* Only a ConfirmationRequested has a saga id to reply to.
Reply(w, pc) ==
    IF work[w].msg \in Confirmations THEN GoTo(w, pc) ELSE Done(w)

\* Faulty variant: > instead of >= in the comparison with maxDeliver.
DecideActionOneMore(n) == IF n > MaxDeliver THEN "dlq" ELSE "nak"

\* Faulty variant: one retry fewer than the server would grant.
DecideActionOneFewer(n) == IF n + 1 >= MaxDeliver THEN "dlq" ELSE "nak"

\* decideAction for a transient failure.
DecideAction(n) == IF n >= MaxDeliver THEN "dlq" ELSE "nak"

\* sendOne: a mail the server accepted counts, even if the connection broke
\* before its answer was read (w.Close).
SendOne(m, ok) ==
    \/ /\ mails' = [mails EXCEPT ![m] = @ + 1]
       /\ IF ok THEN UNCHANGED faults ELSE Fault
    \/ ~ok /\ UNCHANGED <<mails, faults>>

(***************************************************************************)
(* processMessage and decideAction: unmarshal, send the mail and choose    *)
(* the next step.                                                          *)
(***************************************************************************)
Process(w, d) ==
    /\ work[w] = Idle
    /\ Take(w, d)
    /\ \E pc \in Steps :
          /\ work' = [work EXCEPT ![w] = [pc |-> pc, msg |-> d.msg, n |-> d.n]]
          /\ \/ /\ d.msg \in Poison
                /\ pc = "dlq"
                /\ UNCHANGED <<mails, faults>>
             \/ /\ d.msg \notin Poison
                /\ pc = "ack"
                /\ SendOne(d.msg, TRUE)
             \/ /\ d.msg \notin Poison
                /\ pc = DecideAction(d.n)
                /\ SendOne(d.msg, FALSE)
    /\ UNCHANGED <<queue, dead, sent, failed>>

\* Faulty variant: a confirmation is not acknowledged, only answered.
AckForgotten(w) ==
    /\ work[w].pc = "ack"
    /\ IF work[w].msg \in Confirmations THEN UNCHANGED <<acked, due>> ELSE AckEffect(work[w].msg)
    /\ Reply(w, "emailSent")
    /\ UNCHANGED <<count, inbox, results, faults>>

\* msg.Ack after a mail; an Ack that does not arrive is not noticed.
Ack(w) ==
    /\ work[w].pc = "ack"
    /\ \/ AckEffect(work[w].msg) /\ UNCHANGED faults
       \/ UNCHANGED <<acked, due>> /\ Fault
    /\ Reply(w, "emailSent")
    /\ UNCHANGED <<count, inbox, results>>

\* msg.Nak.
Nak(w) ==
    /\ work[w].pc = "nak"
    /\ NakEffect(work[w].msg)
    /\ Done(w)
    /\ UNCHANGED <<count, acked, inbox, results, faults>>

\* Faulty variant: no return after a failed publish, so the message is acked.
ToDLQAcksAnyway(w) ==
    /\ work[w].pc = "dlq"
    /\ \/ dead' = dead \cup {work[w].msg} /\ UNCHANGED faults
       \/ UNCHANGED dead /\ Fault
    /\ GoTo(w, "dlqAck")
    /\ UNCHANGED <<queue, inbox, mails, sent, failed>>

(***************************************************************************)
(* toDLQ: publish the dead letter; if that fails, Nak and return.  Either  *)
(* way the callback goes on with EmailFailed.                              *)
(***************************************************************************)
ToDLQ(w) ==
    /\ work[w].pc = "dlq"
    /\ \/ /\ dead' = dead \cup {work[w].msg}
          /\ GoTo(w, "dlqAck")
          /\ UNCHANGED <<due, faults>>
       \/ /\ Fault
          /\ NakEffect(work[w].msg)
          /\ Reply(w, "emailFailed")
          /\ UNCHANGED dead
    /\ UNCHANGED <<count, acked, inbox, mails, sent, failed>>

\* msg.Ack in toDLQ.
DLQAck(w) ==
    /\ work[w].pc = "dlqAck"
    /\ \/ AckEffect(work[w].msg) /\ UNCHANGED faults
       \/ UNCHANGED <<acked, due>> /\ Fault
    /\ Reply(w, "emailFailed")
    /\ UNCHANGED <<count, inbox, results>>

\* publishEmailSent: an error is logged only.
PublishEmailSent(w) ==
    /\ work[w].pc = "emailSent"
    /\ \/ sent' = sent \cup {work[w].msg} /\ UNCHANGED faults
       \/ UNCHANGED sent /\ Fault
    /\ Done(w)
    /\ UNCHANGED <<queue, inbox, mails, dead, failed>>

\* publishEmailFailed: an error is logged only.
PublishEmailFailed(w) ==
    /\ work[w].pc = "emailFailed"
    /\ \/ failed' = failed \cup {work[w].msg} /\ UNCHANGED faults
       \/ UNCHANGED failed /\ Fault
    /\ Done(w)
    /\ UNCHANGED <<queue, inbox, mails, dead, sent>>

\* The replica stops, with the deliveries it has pulled.
Crash(w) ==
    /\ work[w] # Idle \/ inbox[w] # {}
    /\ Fault
    /\ Done(w)
    /\ inbox' = [inbox EXCEPT ![w] = {}]
    /\ UNCHANGED <<queue, results>>

Callback(w) ==
    \/ \E d \in Deliveries : Process(w, d)
    \/ Ack(w) \/ Nak(w) \/ ToDLQ(w) \/ DLQAck(w)
    \/ PublishEmailSent(w) \/ PublishEmailFailed(w)

Next ==
    \/ \E w \in Replicas :
          \/ \E m \in Msgs : Receive(w, m)
          \/ Callback(w)
          \/ Crash(w)
    \/ \E m \in Msgs : AckWaitExpires(m) \/ AckWaitTooShort(m)

(***************************************************************************)
(* The server delivers what is due to some replica, AckWait runs out, and  *)
(* a callback that was started goes on: SMTP calls are assumed to return.  *)
(***************************************************************************)
Fairness ==
    /\ \A m \in Msgs : WF_vars(\E w \in Replicas : Receive(w, m))
    /\ \A m \in Msgs : WF_vars(AckWaitExpires(m))
    /\ \A w \in Replicas : WF_vars(Callback(w))

Spec == Init /\ [][Next]_vars /\ Fairness

----------------------------------------------------------------------------
(* Properties.                                                             *)

(***************************************************************************)
(* A message leaves the work queue only with a mail or a dead letter: no   *)
(* Ack, however late or repeated, drops a message that nobody handled.     *)
(***************************************************************************)
AckedIsHandled == \A m \in acked : mails[m] > 0 \/ m \in dead

(***************************************************************************)
(* decideAction gives up on a message that can be unmarshalled, with a     *)
(* dead letter or EmailFailed, only when the server has made its last      *)
(* delivery, whichever copies were delivered or crashed before.            *)
(***************************************************************************)
GivingUpIsLastResort ==
    \A m \in dead \cup failed : m \in Poison \/ count[m] = MaxDeliver

(***************************************************************************)
(* SMTP is not idempotent (docs/ADR/0004): every mail beyond the first one *)
(* needs a crash, a lost Ack, an AckWait too short or a mail server that   *)
(* accepted a mail and did not say so.                                     *)
(***************************************************************************)
DuplicateMailNeedsFault == \A m \in Msgs : mails[m] <= 1 + faults

(***************************************************************************)
(* A message that leaves the queue undecided was out of deliveries, and    *)
(* only a fault can do that: every other one is acknowledged in the end.   *)
(***************************************************************************)
EveryMessageSettles ==
    \A m \in Msgs : <>(m \in acked \/ (count[m] = MaxDeliver /\ faults > 0))

(***************************************************************************)
(* While nothing is lost the saga always hears from the notification       *)
(* service: EmailSent or EmailFailed for each confirmation.                *)
(***************************************************************************)
EveryConfirmationAnswered ==
    \A m \in Confirmations : <>(m \in sent \cup failed \/ faults > 0)

----------------------------------------------------------------------------
(* What the documents say and the code does not do.                        *)

(***************************************************************************)
(* README.md:28: NOTIFICATIONS_DLQ holds the poison and max-retry          *)
(* messages.  So a message without an Ack that is out of deliveries, and   *)
(* that no replica works on, should have its dead letter.                  *)
(***************************************************************************)
MaxRetryMessagesAreDead ==
    \A m \in Msgs :
        count[m] = MaxDeliver /\ m \notin acked /\ ~InProgress(m) /\ mails[m] = 0
            => m \in dead
=============================================================================
