-------------------------- MODULE JetStreamConsumer --------------------------
(***************************************************************************)
(* A durable JetStream consumer on a work queue, as the notification and   *)
(* the fan-out consumers configure it: AckExplicit, MaxDeliver and the     *)
(* default AckWait, shared by the replicas of a service.  It is modelled   *)
(* from how the services use it.                                           *)
(*                                                                         *)
(* The server counts deliveries.  It gives a message back on a Nak or when *)
(* AckWait is over, whether or not a replica still works on it, MaxDeliver *)
(* times in all; an Ack of any delivery removes the message.  The client   *)
(* of a replica pulls messages ahead of the callback.                      *)
(***************************************************************************)
EXTENDS Naturals

CONSTANTS Msgs, Replicas, MaxDeliver

VARIABLES
    count,  \* NumDelivered of each message
    due,    \* messages the server is going to deliver (again)
    acked,  \* messages removed from the work queue by an Ack
    inbox   \* deliveries a replica has pulled and not begun

Deliveries == [msg : Msgs, n : 1..MaxDeliver]

QueueTypeOK ==
    /\ count \in [Msgs -> 0..MaxDeliver]
    /\ due \subseteq Msgs
    /\ acked \subseteq Msgs
    /\ inbox \in [Replicas -> SUBSET Deliveries]

Pulled(m) == \E w \in Replicas : \E d \in inbox[w] : d.msg = m

\* Only deliveries below MaxDeliver are followed by another one.
CanReturn(m) == count[m] < MaxDeliver /\ m \notin acked

Deliver(w, m) ==
    /\ m \in due /\ count[m] < MaxDeliver
    /\ due' = due \ {m}
    /\ count' = [count EXCEPT ![m] = @ + 1]
    /\ inbox' = [inbox EXCEPT ![w] = @ \cup {[msg |-> m, n |-> count[m] + 1]}]
    /\ UNCHANGED acked

\* The callback begins with one of the deliveries its client has pulled.
Take(w, d) == d \in inbox[w] /\ inbox' = [inbox EXCEPT ![w] = @ \ {d}]

\* AckWait is over for a message that was delivered and not acknowledged.
GiveBack(m) ==
    /\ CanReturn(m) /\ count[m] > 0 /\ m \notin due
    /\ due' = due \cup {m}
    /\ UNCHANGED <<count, acked, inbox>>

\* What an Ack or a Nak does when it reaches the server.
AckEffect(m) == acked' = acked \cup {m} /\ due' = due \ {m}
NakEffect(m) == due' = IF CanReturn(m) THEN due \cup {m} ELSE due
=============================================================================
