------------------------ MODULE ServiceRuntime_proofs ------------------------
(***************************************************************************)
(* Proofs about the start and the shutdown of the processes, for any       *)
(* deployments and any number of faults.                                   *)
(*                                                                         *)
(* A request needs the pool.  The proof follows the scripts: as long as    *)
(* "pool" is ahead in a boot script nothing is accepted, and the shutdown  *)
(* comes to its last step, which closes the pool, only after both servers  *)
(* have stopped, so that no request is left but those of late services.    *)
(*                                                                         *)
(* A consumer needs its stream and the connection.  The same argument on   *)
(* the boot scripts: what has left the script is there, and the rest is    *)
(* ahead, whatever the other services have or have not created.            *)
(***************************************************************************)
EXTENDS ServiceRuntime, TLAPS

FromGRPC == <<"grpc", "http", "nats", "pool">>
FromHTTP == <<"http", "nats", "pool">>
FromNats == <<"nats", "pool">>
FromPool == <<"pool">>

\* A step the running script has still before it.
Ahead(s, step) == \E i \in 1..Len(todo[s]) : todo[s][i] = step
PoolAhead(s) == Ahead(s, "pool")
QuietOrLate(s) == request[s] = Quiet \/ s \in late

\* Where a service is in its scripts, and what may be going on there.
ClientInv(s) ==
    /\ phase[s] \in {"absent", "down", "boot"} => request[s] = Quiet
    /\ phase[s] = "boot" => s \in pool \/ PoolAhead(s)
    /\ phase[s] = "serve" => s \in pool
    /\ phase[s] = "stop" =>
          \/ todo[s] = FromGRPC /\ s \in pool
          \/ todo[s] = FromHTTP /\ s \in pool /\ ~request[s].rpc
          \/ todo[s] \in {FromNats, FromPool} /\ s \in pool /\ QuietOrLate(s)
          \/ todo[s] = <<>> /\ QuietOrLate(s)

\* The key file is replaced by a fault only.
FileIsCounted == file <= faults + 1

\* What the process of a consumer has when it serves: its own script connects
\* to NATS and creates the stream, whatever the other services do.
ConsumerInv(c) ==
    LET s == Consumer[c].in  of == Consumer[c].of IN
    /\ phase[s] = "boot" =>
          /\ of \in streams \/ Ahead(s, of)
          /\ conn[s] = "connected" \/ s \in torn \/ Ahead(s, "nats")
    /\ phase[s] = "serve" =>
          /\ of \in streams
          /\ s \in torn \/ (conn[s] = "connected" /\ cons[c] \in {"starting", "running"})

IInv ==
    /\ TypeOK
    /\ FileIsCounted
    /\ \A s \in Clients : ClientInv(s)
    /\ \A c \in Consumers : ConsumerInv(c)

ProcessTypes ==
    /\ phase \in [Services -> {"absent", "down", "boot", "serve", "stop"}]
    /\ todo \in [Services -> Seq(Steps)]
    /\ conn \in [Services -> {"none", "connected", "reconnecting", "closed"}]
    /\ pool \subseteq Services
    /\ cons \in [Consumers -> {"off", "starting", "running", "dead"}]
    /\ torn \subseteq Services
    /\ request \in [Clients -> [http : {"none", "handling", "inTx"}, rpc : BOOLEAN]]
    /\ late \subseteq Services
    /\ signer \in Keys \cup {NoKey} /\ cached \in Keys \cup {NoKey}

----------------------------------------------------------------------------
(* The scripts.                                                            *)

LEMMA AuthScript ==
  /\ AuthBuild \in Seq(Steps) /\ Len(AuthBuild) >= 2 /\ AuthBuild[2] = "pool"
  /\ <<>> \in Seq(Steps)
  BY DEF AuthBuild, Steps, Streams

LEMMA SubscriptionScript ==
  /\ SubscriptionBuild \in Seq(Steps) /\ Len(SubscriptionBuild) >= 2
  /\ SubscriptionBuild[2] = "pool"
  /\ <<"keys">> \in Seq(Steps)
  BY DEF SubscriptionBuild, Steps, Streams

\* The scripts of a service whose requests are modelled.
LEMMA JoinedScript ==
  ASSUME NEW s \in {"auth", "subscription"}
  PROVE  \E p, q \in Seq(Steps) :
            /\ Program[s].boot = p \o q /\ Len(p) >= 2 /\ p[2] = "pool"
            /\ Program[s].stop = FromGRPC
  <1>1. CASE s = "auth"
    <2>1. Program[s].boot = AuthBuild \o AuthServe.boot /\ Program[s].stop = FromGRPC
      BY <1>1 DEF Program, AuthServe, FromGRPC
    <2>2. AuthServe.boot \in Seq(Steps)
      BY AuthScript DEF AuthServe
    <2> QED BY <2>1, <2>2, AuthScript
  <1>2. CASE s = "subscription"
    <2>1. /\ Program[s].boot = SubscriptionBuild \o SubscriptionServe.boot
          /\ Program[s].stop = FromGRPC
      BY <1>2 DEF Program, SubscriptionServe, FromGRPC
    <2>2. SubscriptionServe.boot \in Seq(Steps)
      BY SubscriptionScript DEF SubscriptionServe
    <2> QED BY <2>1, <2>2, SubscriptionScript
  <1> QED BY <1>1, <1>2

LEMMA ScriptTypes ==
  ASSUME NEW s \in Services
  PROVE  Program[s].boot \in Seq(Steps) /\ Program[s].stop \in Seq(Steps)
  <1>1. CASE s \in {"auth", "subscription"}
    <2>1. FromGRPC \in Seq(Steps)
      BY DEF FromGRPC, Steps, Streams
    <2>2. PICK p, q \in Seq(Steps) :
             /\ Program[s].boot = p \o q /\ Len(p) >= 2 /\ p[2] = "pool"
             /\ Program[s].stop = FromGRPC
      BY <1>1, JoinedScript
    <2> QED BY <2>1, <2>2
  <1>2. CASE s = "monitoring"
    <2>1. Program[s] = MonitoringRun
      BY <1>2 DEF Program
    <2> QED BY <2>1 DEF MonitoringRun, Steps, Streams
  <1>3. CASE s = "notification"
    <2>1. Program[s] = NotificationRun
      BY <1>3 DEF Program
    <2> QED BY <2>1 DEF NotificationRun, Steps, Streams
  <1> QED BY <1>1, <1>2, <1>3 DEF Services

LEMMA ClientScripts ==
  ASSUME NEW s \in Clients
  PROVE  /\ s \in Services
         /\ \E i \in 1..Len(Program[s].boot) : Program[s].boot[i] = "pool"
         /\ Program[s].stop = FromGRPC
  <1>1. s \in {"auth", "subscription"}
    BY RuntimeBounds
  <1>2. PICK p, q \in Seq(Steps) :
           /\ Program[s].boot = p \o q /\ Len(p) >= 2 /\ p[2] = "pool"
           /\ Program[s].stop = FromGRPC
    BY <1>1, JoinedScript
  <1>3. 2 \in 1..Len(p \o q) /\ (p \o q)[2] = "pool"
    BY <1>2
  <1> QED BY <1>1, <1>2, <1>3 DEF Services

LEMMA StopScripts ==
  /\ Head(FromGRPC) = "grpc" /\ Tail(FromGRPC) = FromHTTP /\ FromGRPC # <<>>
  /\ Head(FromHTTP) = "http" /\ Tail(FromHTTP) = FromNats /\ FromHTTP # <<>>
  /\ Head(FromNats) = "nats" /\ Tail(FromNats) = FromPool /\ FromNats # <<>>
  /\ Head(FromPool) = "pool" /\ Tail(FromPool) = <<>> /\ FromPool # <<>>
  BY DEF FromGRPC, FromHTTP, FromNats, FromPool

\* The first script of two comes first.
LEMMA FirstPart ==
  ASSUME NEW p \in Seq(Steps), NEW q \in Seq(Steps)
  PROVE  \A i \in 1..Len(p) : i \in 1..Len(p \o q) /\ (p \o q)[i] = p[i]
  OBVIOUS

\* The scripts of the services with consumers connect to NATS and create the
\* stream of each consumer.
LEMMA ConsumerScripts ==
  ASSUME NEW c \in Consumers
  PROVE  /\ Consumer[c].in \in Services
         /\ Consumer[c].of \in Streams
         /\ \E i \in 1..Len(Program[Consumer[c].in].boot) :
               Program[Consumer[c].in].boot[i] = Consumer[c].of
         /\ \E i \in 1..Len(Program[Consumer[c].in].boot) :
               Program[Consumer[c].in].boot[i] = "nats"
  <1>1. \/ Consumer[c].in = "subscription" /\ Consumer[c].of \in {"RELEASES", "SAGA"}
        \/ /\ Consumer[c].in = "notification"
           /\ Consumer[c].of \in {"NOTIFICATIONS", "NOTIFICATIONS_DLQ"}
    BY DEF Consumers, Consumer, FanoutConsumer, SagaConsumer, DLQInspector, MailConsumer
  <1>2. CASE Consumer[c].in = "subscription"
    <2>1. /\ Program["subscription"].boot = SubscriptionBuild \o SubscriptionServe.boot
          /\ SubscriptionServe.boot \in Seq(Steps)
      BY SubscriptionScript DEF Program, SubscriptionServe
    <2>2. /\ SubscriptionBuild \in Seq(Steps) /\ Len(SubscriptionBuild) = 6
          /\ SubscriptionBuild[3] = "nats" /\ SubscriptionBuild[5] = "SAGA"
          /\ SubscriptionBuild[6] = "RELEASES"
      BY DEF SubscriptionBuild, Steps, Streams
    <2>3. PICK p, q \in Seq(Steps) :
             /\ Program["subscription"].boot = p \o q /\ Len(p) = 6
             /\ p[3] = "nats" /\ p[5] = "SAGA" /\ p[6] = "RELEASES"
      BY <2>1, <2>2
    <2>4. \A i \in 1..6 : i \in 1..Len(p \o q) /\ (p \o q)[i] = p[i]
      BY <2>3, FirstPart
    <2>5. \A x \in {"nats", "SAGA", "RELEASES"} : \E i \in 1..Len(p \o q) : (p \o q)[i] = x
      BY <2>3, <2>4
    <2>6. Consumer[c].of \in {"RELEASES", "SAGA"}
      BY <1>1, <1>2
    <2> QED BY <1>2, <2>3, <2>5, <2>6 DEF Services, Streams
  <1>3. CASE Consumer[c].in = "notification"
    <2>1. /\ Program["notification"].boot = NotificationRun.boot
          /\ Len(NotificationRun.boot) = 3 /\ NotificationRun.boot[1] = "nats"
          /\ NotificationRun.boot[2] = "NOTIFICATIONS"
          /\ NotificationRun.boot[3] = "NOTIFICATIONS_DLQ"
      BY DEF Program, NotificationRun
    <2>2. Consumer[c].of \in {"NOTIFICATIONS", "NOTIFICATIONS_DLQ"}
      BY <1>1, <1>3
    <2> QED BY <1>3, <2>1, <2>2 DEF Services, Streams
  <1> QED BY <1>1, <1>2, <1>3

\* A step that is ahead of the first one stays ahead when that is done.
LEMMA AheadWhenDone ==
  ASSUME TypeOK, NEW t \in Services, todo[t] # <<>>, Done(t),
         NEW step, Ahead(t, step), Head(todo[t]) # step
  PROVE  Ahead(t, step)'
  <1>1. todo[t] \in Seq(Steps) /\ todo'[t] = Tail(todo[t])
    BY DEF Done, TypeOK
  <1>2. PICK i \in 1..Len(todo[t]) : todo[t][i] = step
    BY DEF Ahead
  <1>3. i # 1
    BY <1>1, <1>2
  <1>4. i - 1 \in 1..Len(todo'[t]) /\ todo'[t][i - 1] = step
    BY <1>1, <1>2, <1>3
  <1> QED BY <1>4 DEF Ahead

\* "migrating" takes the place of "migrate".
LEMMA AheadWhenMigrating ==
  ASSUME TypeOK, NEW t \in Services, MigrateBegin(t),
         NEW step, Ahead(t, step), step # "migrate"
  PROVE  Ahead(t, step)'
  <1>1. /\ todo[t] \in Seq(Steps) /\ todo[t] # <<>> /\ todo[t][1] = "migrate"
        /\ todo'[t] = <<"migrating">> \o Tail(todo[t])
    BY DEF MigrateBegin, Runs, TypeOK
  <1>2. PICK i \in 1..Len(todo[t]) : todo[t][i] = step
    BY DEF Ahead
  <1>3. i # 1
    BY <1>1, <1>2
  <1>4. Tail(todo[t]) \in Seq(Steps) /\ Len(Tail(todo[t])) = Len(todo[t]) - 1
        /\ Tail(todo[t])[i - 1] = todo[t][i]
    BY <1>1, <1>3
  <1>5. \A q \in Seq(Steps) : /\ Len(<<"migrating">> \o q) = Len(q) + 1
                              /\ \A k \in 1..Len(q) : (<<"migrating">> \o q)[k + 1] = q[k]
    BY DEF Steps
  <1>6. i - 1 \in 1..Len(Tail(todo[t])) /\ (i - 1) + 1 = i
    BY <1>1, <1>3, <1>4
  <1>7. i \in 1..Len(todo'[t]) /\ todo'[t][i] = step
    BY <1>1, <1>2, <1>4, <1>5, <1>6
  <1> QED BY <1>7 DEF Ahead

----------------------------------------------------------------------------
(* What groups of actions do to a client.                                  *)

LEMMA FrameKeeps ==
  ASSUME NEW s \in Clients, ClientInv(s),
         phase'[s] = phase[s], todo'[s] = todo[s], request'[s] = request[s],
         s \in pool' <=> s \in pool, s \in late' <=> s \in late
  PROVE  ClientInv(s)'
  BY DEF ClientInv, PoolAhead, Ahead, QuietOrLate

\* A process that ended has no requests.
LEMMA ExitKeeps ==
  ASSUME TypeOK, NEW s \in Clients, ClientInv(s), NEW t \in Services, Exit(t)
  PROVE  ClientInv(s)'
  <1>1. s \in Services
    BY ClientScripts
  <1>2. CASE s = t
    <2>1. phase'[s] = "down" /\ request'[s] = Quiet
      BY <1>1, <1>2 DEF Exit, TypeOK
    <2> QED BY <2>1 DEF ClientInv
  <1>3. CASE s # t
    <2>1. /\ phase'[s] = phase[s] /\ todo'[s] = todo[s] /\ request'[s] = request[s]
          /\ s \in pool' <=> s \in pool
          /\ s \in late' <=> s \in late
      BY <1>1, <1>3 DEF Exit, TypeOK
    <2> QED BY <2>1, FrameKeeps
  <1> QED BY <1>2, <1>3

LEMMA ExitTypes ==
  ASSUME TypeOK, NEW t \in Services, Exit(t)
  PROVE  ProcessTypes' /\ file' = file
  <1>1. /\ phase' \in [Services -> {"absent", "down", "boot", "serve", "stop"}]
        /\ conn' \in [Services -> {"none", "connected", "reconnecting", "closed"}]
        /\ pool' \subseteq Services /\ torn' \subseteq Services /\ late' \subseteq Services
        /\ signer' \in Keys \cup {NoKey} /\ cached' \in Keys \cup {NoKey}
    BY DEF Exit, TypeOK
  <1>2. todo' \in [Services -> Seq(Steps)]
    BY DEF Exit, TypeOK
  <1>3. cons' \in [Consumers -> {"off", "starting", "running", "dead"}]
    BY DEF Exit, SetConsumers, TypeOK
  <1>4. Quiet \in [http : {"none", "handling", "inTx"}, rpc : BOOLEAN]
    BY DEF Quiet
  <1>5. request' \in [Clients -> [http : {"none", "handling", "inTx"}, rpc : BOOLEAN]]
    BY <1>4 DEF Exit, TypeOK
  <1> QED BY <1>1, <1>2, <1>3, <1>5 DEF ProcessTypes, Exit

(***************************************************************************)
(* A step of a boot script that is done.                                   *)
(***************************************************************************)
LEMMA BootStepKeeps ==
  ASSUME TypeOK, NEW s \in Clients, ClientInv(s), NEW t \in Services,
         phase[t] = "boot", todo[t] # <<>>, Head(todo[t]) # "pool" \/ t \in pool',
         Done(t), pool' = pool \/ pool' = pool \cup {t}, UNCHANGED <<phase, request, late>>
  PROVE  ClientInv(s)'
  <1>1. s \in Services
    BY ClientScripts
  <1>2. CASE s = t
    <2>1. todo[s] \in Seq(Steps) /\ todo'[s] = Tail(todo[s]) /\ todo[s] # <<>>
      BY <1>1, <1>2 DEF Done, TypeOK
    <2>2. PoolAhead(s) /\ Head(todo[s]) # "pool" => PoolAhead(s)'
      BY <1>1, <1>2, <2>1, AheadWhenDone DEF PoolAhead
    <2> QED BY <1>2, <2>2 DEF ClientInv
  <1>3. CASE s # t
    <2>1. todo'[s] = todo[s]
      BY <1>1, <1>3 DEF Done, TypeOK
    <2> QED BY <1>3, <2>1, FrameKeeps
  <1> QED BY <1>2, <1>3

----------------------------------------------------------------------------
(* Clients, action by action.                                              *)

\* The actions that leave scripts, pools and requests alone.
Still ==
    \/ NatsDown \/ NatsUp \/ RotateKey \/ RefreshKey
    \/ \E d \in Servers : DbDown(d) \/ DbUp(d)
    \/ \E c \in Consumers : StartConsumer(c)
    \/ \E t \in Services : Reconnect(t) \/ GiveUp(t)
    \/ UNCHANGED vars

LEMMA StillKeeps ==
  ASSUME NEW s \in Clients, ClientInv(s), Still
  PROVE  ClientInv(s)'
  <1>1. UNCHANGED <<phase, todo, pool, request, late>>
    BY DEF Still, NatsDown, NatsUp, RotateKey, RefreshKey, DbDown, DbUp, StartConsumer,
           Reconnect, GiveUp, process, traffic, keys, infra, vars
  <1> QED BY <1>1, FrameKeeps

LEMMA LaunchKeeps ==
  ASSUME TypeOK, NEW s \in Clients, ClientInv(s), NEW t \in Services, Launch(t)
  PROVE  ClientInv(s)'
  <1>1. s \in Services /\ \E i \in 1..Len(Program[s].boot) : Program[s].boot[i] = "pool"
    BY ClientScripts
  <1>2. /\ phase[t] = "down" /\ phase' = [phase EXCEPT ![t] = "boot"]
        /\ todo' = [todo EXCEPT ![t] = Program[t].boot]
        /\ UNCHANGED <<pool, request, late>>
    BY DEF Launch, traffic
  <1>3. CASE s = t
    <2>1. phase'[s] = "boot" /\ todo'[s] = Program[s].boot /\ phase[s] = "down"
      BY <1>1, <1>2, <1>3 DEF TypeOK
    <2>2. PoolAhead(s)'
      BY <1>1, <2>1 DEF PoolAhead, Ahead
    <2> QED BY <1>2, <2>1, <2>2 DEF ClientInv
  <1>4. CASE s # t
    <2>1. phase'[s] = phase[s] /\ todo'[s] = todo[s]
      BY <1>1, <1>2, <1>4 DEF TypeOK
    <2> QED BY <1>2, <2>1, FrameKeeps
  <1> QED BY <1>3, <1>4

\* The step of the script that takes the place of "migrate" is not "pool".
LEMMA MigrateBeginKeeps ==
  ASSUME TypeOK, NEW s \in Clients, ClientInv(s), NEW t \in Services, MigrateBegin(t)
  PROVE  ClientInv(s)'
  <1>1. s \in Services
    BY ClientScripts
  <1>2. /\ phase[t] = "boot" /\ todo[t] # <<>> /\ Head(todo[t]) = "migrate"
        /\ todo' = [todo EXCEPT ![t] = <<"migrating">> \o Tail(@)]
        /\ UNCHANGED <<phase, pool, request, late>>
    BY DEF MigrateBegin, Runs, traffic
  <1>3. CASE s = t
    <2>1. PoolAhead(s) => PoolAhead(s)'
      BY <1>1, <1>3, AheadWhenMigrating DEF PoolAhead
    <2> QED BY <1>2, <1>3, <2>1 DEF ClientInv
  <1>4. CASE s # t
    <2>1. todo'[s] = todo[s]
      BY <1>1, <1>2, <1>4 DEF TypeOK
    <2> QED BY <1>2, <2>1, FrameKeeps
  <1> QED BY <1>3, <1>4

\* The other steps of a boot script.
BootStep(t) ==
    \/ MigrateEnd(t) \/ MigrateNothing(t) \/ OpenPool(t) \/ ConnectNats(t)
    \/ EnsureStream(t) \/ LoadKeys(t)

LEMMA BootStepsKeep ==
  ASSUME TypeOK, NEW s \in Clients, ClientInv(s), NEW t \in Services, BootStep(t)
  PROVE  ClientInv(s)'
  <1>1. phase[t] = "boot" /\ todo[t] # <<>> /\ (Head(todo[t]) # "pool" \/ t \in pool')
    BY DEF BootStep, MigrateEnd, MigrateNothing, OpenPool, ConnectNats, EnsureStream, LoadKeys,
           Runs, Streams
  <1>2. Done(t) /\ (pool' = pool \/ pool' = pool \cup {t}) /\ UNCHANGED <<phase, request, late>>
    BY DEF BootStep, MigrateEnd, MigrateNothing, OpenPool, ConnectNats, EnsureStream, LoadKeys,
           traffic
  <1> QED BY <1>1, <1>2, BootStepKeeps

LEMMA ServeKeeps ==
  ASSUME TypeOK, NEW s \in Clients, ClientInv(s), NEW t \in Services, Serve(t)
  PROVE  ClientInv(s)'
  <1>1. s \in Services
    BY ClientScripts
  <1>2. /\ phase[t] = "boot" /\ todo[t] = <<>> /\ phase' = [phase EXCEPT ![t] = "serve"]
        /\ UNCHANGED <<todo, pool, request, late>>
    BY DEF Serve, traffic
  <1>3. CASE s = t
    <2>1. phase'[s] = "serve" /\ ~PoolAhead(s)
      BY <1>1, <1>2, <1>3 DEF PoolAhead, Ahead, TypeOK
    <2> QED BY <1>2, <1>3, <2>1 DEF ClientInv
  <1>4. CASE s # t
    <2>1. phase'[s] = phase[s]
      BY <1>1, <1>2, <1>4 DEF TypeOK
    <2> QED BY <1>2, <2>1, FrameKeeps
  <1> QED BY <1>3, <1>4

Ends(t) ==
    \/ MigrateSlowly(t) \/ BootFails(t) \/ Stopped(t) \/ Kill(t)

LEMMA EndsKeep ==
  ASSUME TypeOK, NEW s \in Clients, ClientInv(s), NEW t \in Services, Ends(t)
  PROVE  ClientInv(s)'
  BY ExitKeeps DEF Ends, MigrateSlowly, BootFails, Stopped, Kill

LEMMA StartConsumerFailsKeeps ==
  ASSUME TypeOK, NEW s \in Clients, ClientInv(s), NEW c \in Consumers, StartConsumerFails(c)
  PROVE  ClientInv(s)'
  <1>1. CASE Exit(Consumer[c].in)
    <2>1. Consumer[c].in \in Services
      BY DEF Consumers, Consumer, FanoutConsumer, SagaConsumer, DLQInspector, MailConsumer, Services
    <2> QED BY <1>1, <2>1, ExitKeeps
  <1>2. CASE UNCHANGED <<phase, todo, conn, pool, torn, traffic, keys>>
    BY <1>2, FrameKeeps DEF traffic
  <1> QED BY <1>1, <1>2 DEF StartConsumerFails

----------------------------------------------------------------------------
(* Requests and the shutdown.                                              *)

LEMMA RequestKeeps ==
  ASSUME TypeOK, NEW s \in Clients, ClientInv(s), NEW t \in Clients,
         Accept(t) \/ Call(t) \/ BeginTx(t) \/ EndTx(t) \/ Answer(t) \/ Return(t)
  PROVE  ClientInv(s)'
  <1>1. UNCHANGED <<phase, todo, pool, late>>
    BY DEF Accept, Call, BeginTx, EndTx, Answer, Return, SetHTTP, SetRPC, SetRequest, process
  <1>2. request[s] \in [http : {"none", "handling", "inTx"}, rpc : BOOLEAN]
    BY DEF TypeOK
  <1>3. CASE s # t
    <2>1. request'[s] = request[s]
      BY <1>3 DEF Accept, Call, BeginTx, EndTx, Answer, Return, SetHTTP, SetRPC, SetRequest, TypeOK
    <2> QED BY <1>1, <2>1, FrameKeeps
  <1>4. CASE s = t /\ phase[s] = "serve"
    BY <1>1, <1>4 DEF ClientInv
  <1>5. CASE s = t /\ phase[s] = "stop"
    <2>1. CASE todo[s] = FromGRPC
      <3>1. s \in pool
        BY <1>5, <2>1, StopScripts DEF ClientInv
      <3> QED BY <1>1, <1>5, <2>1, <3>1 DEF ClientInv
    <2>2. CASE todo[s] # FromGRPC
      <3>1. ~Accept(s) /\ ~Call(s)
        <4>1. Head(todo[s]) # "grpc" \/ todo[s] = <<>>
          BY <1>5, <2>2, StopScripts DEF ClientInv
        <4> QED BY <1>5, <4>1 DEF Accept, Call, AcceptsHTTP, AcceptsRPC, Runs
      <3>2. BeginTx(s) \/ EndTx(s) \/ Answer(s) \/ Return(s)
        BY <1>5, <3>1
      <3>3. request[s] # Quiet
        <4>1. Quiet.http = "none" /\ Quiet.rpc = FALSE
          BY DEF Quiet
        <4>2. CASE BeginTx(s) \/ EndTx(s) \/ Answer(s)
          BY <4>1, <4>2 DEF BeginTx, EndTx, Answer
        <4>3. CASE Return(s)
          <5>1. request[s].rpc = TRUE
            BY <1>2, <4>3 DEF Return
          <5> QED BY <4>1, <5>1
        <4> QED BY <3>2, <4>2, <4>3
      <3>4. request'[s].rpc \in {request[s].rpc, FALSE}
        <4>1. PICK h, r : r \in {request[s].rpc, FALSE} /\ request' = [request EXCEPT ![s] = [http |-> h, rpc |-> r]]
          BY <3>2 DEF BeginTx, EndTx, Answer, Return, SetHTTP, SetRPC, SetRequest
        <4>2. request'[s] = [http |-> h, rpc |-> r]
          BY <4>1 DEF TypeOK
        <4>3. request'[s].rpc = r
          BY <4>2
        <4> QED BY <4>1, <4>3
      <3>6. CASE todo[s] = FromHTTP /\ s \in pool /\ ~request[s].rpc
        <4>1. ~request'[s].rpc
          BY <3>4, <3>6
        <4> QED BY <1>1, <1>5, <3>6, <4>1 DEF ClientInv
      <3>7. CASE s \in late
        <4>1. \/ todo[s] \in {FromNats, FromPool} /\ s \in pool
              \/ todo[s] = FromHTTP /\ s \in pool /\ ~request[s].rpc
              \/ todo[s] = <<>>
          BY <1>5, <2>2 DEF ClientInv
        <4>2. QuietOrLate(s)' /\ phase'[s] = "stop" /\ todo'[s] = todo[s] /\ (s \in pool' <=> s \in pool)
          BY <1>1, <1>5, <3>7 DEF QuietOrLate
        <4>3. ~request[s].rpc => ~request'[s].rpc
          BY <3>4
        <4> QED BY <4>1, <4>2, <4>3 DEF ClientInv
      <3> QED BY <1>5, <2>2, <3>3, <3>6, <3>7 DEF ClientInv, QuietOrLate
    <2> QED BY <2>1, <2>2
  <1>6. CASE s = t /\ phase[s] \in {"absent", "down", "boot"}
    <2>1. request[s] = Quiet
      BY <1>6 DEF ClientInv
    <2>2. request[s].http = "none" /\ request[s].rpc = FALSE
      BY <2>1 DEF Quiet
    <2>3. ~Accept(s) /\ ~Call(s)
      BY <1>6 DEF Accept, Call, AcceptsHTTP, AcceptsRPC, Runs
    <2>4. ~BeginTx(s) /\ ~EndTx(s) /\ ~Answer(s)
      BY <2>2 DEF BeginTx, EndTx, Answer
    <2>5. ~Return(s)
      BY <2>2 DEF Return
    <2> QED BY <1>6, <2>3, <2>4, <2>5
  <1>7. phase[s] \in {"absent", "down", "boot", "serve", "stop"}
    BY ClientScripts DEF TypeOK
  <1> QED BY <1>3, <1>4, <1>5, <1>6, <1>7

LEMMA StopKeeps ==
  ASSUME TypeOK, NEW s \in Clients, ClientInv(s), NEW t \in Services, Stop(t) \/ ServerFails(t)
  PROVE  ClientInv(s)'
  <1>1. s \in Services /\ Program[s].stop = FromGRPC
    BY ClientScripts
  <1>2. /\ phase[t] = "serve" /\ phase' = [phase EXCEPT ![t] = "stop"]
        /\ UNCHANGED <<pool, request>>
        /\ \/ todo' = [todo EXCEPT ![t] = Program[t].stop] /\ late' = late
           \/ todo' = [todo EXCEPT ![t] = FromNats] /\ late' = late \cup {t}
    BY DEF Stop, ServerFails, traffic, FromNats
  <1>3. CASE s = t
    <2>1. phase'[s] = "stop" /\ s \in pool'
      BY <1>1, <1>2, <1>3 DEF ClientInv, TypeOK
    <2>2. todo'[s] = FromGRPC \/ (todo'[s] = FromNats /\ s \in late')
      BY <1>1, <1>2, <1>3 DEF TypeOK
    <2> QED BY <2>1, <2>2 DEF ClientInv, QuietOrLate
  <1>4. CASE s # t
    <2>1. phase'[s] = phase[s] /\ todo'[s] = todo[s] /\ (s \in late' <=> s \in late)
      BY <1>1, <1>2, <1>4 DEF TypeOK
    <2> QED BY <1>2, <2>1, FrameKeeps
  <1> QED BY <1>3, <1>4

\* The steps of a shutdown.
StopStep(t) ==
    \/ StopGRPC(t) \/ StopHTTP(t) \/ StopHTTPTimesOut(t) \/ DrainNats(t) \/ ClosePool(t)

LEMMA StopStepsKeep ==
  ASSUME TypeOK, NEW s \in Clients, ClientInv(s), NEW t \in Services, StopStep(t)
  PROVE  ClientInv(s)'
  <1>1. s \in Services
    BY ClientScripts
  <1>2. /\ phase[t] = "stop" /\ todo[t] # <<>> /\ todo' = [todo EXCEPT ![t] = Tail(@)]
        /\ UNCHANGED <<phase, request>>
        /\ late' = late \/ late' = late \cup {t}
        /\ pool' = pool \/ pool' = pool \ {t}
    BY DEF StopStep, StopGRPC, StopHTTP, StopHTTPTimesOut, DrainNats, ClosePool, Runs, Done, traffic
  <1>3. CASE s # t
    <2>1. todo'[s] = todo[s] /\ (s \in late' <=> s \in late) /\ (s \in pool' <=> s \in pool)
      BY <1>1, <1>2, <1>3 DEF TypeOK
    <2> QED BY <1>2, <2>1, FrameKeeps
  <1>4. CASE s = t
    <2>1. phase'[s] = "stop" /\ todo'[s] = Tail(todo[s]) /\ todo[s] # <<>>
      BY <1>1, <1>2, <1>4 DEF TypeOK
    <2>2. request[s] \in [http : {"none", "handling", "inTx"}, rpc : BOOLEAN]
          /\ Working(s) = request[s]
      BY DEF TypeOK, Working
    <2>3. CASE todo[s] = FromGRPC
      <3>1. StopGRPC(s)
        BY <1>4, <2>3, StopScripts DEF StopStep, StopHTTP, StopHTTPTimesOut, DrainNats, ClosePool, Runs
      <3>2. ~request'[s].rpc /\ s \in pool'
        BY <1>2, <1>4, <2>2, <2>3, <3>1, StopScripts DEF StopGRPC, ClientInv, FromGRPC, FromHTTP, FromNats, FromPool
      <3> QED BY <2>1, <2>3, <3>2, StopScripts DEF ClientInv
    <2>4. CASE todo[s] = FromHTTP
      <3>1. StopHTTP(s) \/ StopHTTPTimesOut(s)
        BY <1>4, <2>4, StopScripts DEF StopStep, StopGRPC, DrainNats, ClosePool, Runs
      <3>2. s \in pool' /\ ~request[s].rpc
        BY <1>2, <1>4, <2>4, <3>1, StopScripts DEF StopHTTP, StopHTTPTimesOut, ClientInv, FromGRPC, FromHTTP, FromNats, FromPool
      <3>3. QuietOrLate(s)'
        BY <1>2, <2>2, <3>1, <3>2 DEF StopHTTP, StopHTTPTimesOut, QuietOrLate, Quiet
      <3> QED BY <2>1, <2>4, <3>2, <3>3, StopScripts DEF ClientInv
    <2>5. CASE todo[s] = FromNats
      <3>1. DrainNats(s)
        BY <1>4, <2>5, StopScripts DEF StopStep, StopGRPC, StopHTTP, StopHTTPTimesOut, ClosePool, Runs
      <3>2. s \in pool /\ QuietOrLate(s)
        BY <1>2, <1>4, <2>5, StopScripts DEF ClientInv
      <3>3. s \in pool' /\ QuietOrLate(s)'
        BY <3>1, <3>2 DEF DrainNats, traffic, QuietOrLate
      <3> QED BY <2>1, <2>5, <3>3, StopScripts DEF ClientInv
    <2>6. CASE todo[s] = FromPool
      <3>1. QuietOrLate(s)
        BY <1>2, <1>4, <2>6, StopScripts DEF ClientInv
      <3>2. QuietOrLate(s)'
        BY <1>2, <3>1 DEF QuietOrLate
      <3> QED BY <2>1, <2>6, <3>2, StopScripts DEF ClientInv
    <2> QED BY <1>2, <1>4, <2>1, <2>3, <2>4, <2>5, <2>6 DEF ClientInv
  <1> QED BY <1>3, <1>4

----------------------------------------------------------------------------
(* Consumers, group by group.                                              *)

(***************************************************************************)
(* A stream stays once it is there, and a connection that breaks is        *)
(* remembered in torn.                                                     *)
(***************************************************************************)
LEMMA ConsumerFrame ==
  ASSUME NEW c \in Consumers, ConsumerInv(c), streams \subseteq streams',
         phase'[Consumer[c].in] = phase[Consumer[c].in],
         todo'[Consumer[c].in] = todo[Consumer[c].in],
         Consumer[c].in \in torn => Consumer[c].in \in torn',
         conn[Consumer[c].in] = "connected" =>
            conn'[Consumer[c].in] = "connected" \/ Consumer[c].in \in torn',
         phase[Consumer[c].in] = "serve" =>
            \/ cons'[c] = cons[c] \/ cons'[c] = "running"
            \/ Consumer[c].in \in torn'
  PROVE  ConsumerInv(c)'
  <1> DEFINE s == Consumer[c].in
             of == Consumer[c].of
  <1>1. Ahead(s, of)' = Ahead(s, of) /\ Ahead(s, "nats")' = Ahead(s, "nats")
    BY DEF Ahead
  <1>2. /\ phase[s] = "boot" =>
              /\ of \in streams \/ Ahead(s, of)
              /\ conn[s] = "connected" \/ s \in torn \/ Ahead(s, "nats")
        /\ phase[s] = "serve" =>
              /\ of \in streams
              /\ s \in torn \/ (conn[s] = "connected" /\ cons[c] \in {"starting", "running"})
    BY DEF ConsumerInv
  <1>3. /\ phase'[s] = "boot" =>
              /\ of \in streams' \/ Ahead(s, of)'
              /\ conn'[s] = "connected" \/ s \in torn' \/ Ahead(s, "nats")'
        /\ phase'[s] = "serve" =>
              /\ of \in streams'
              /\ s \in torn' \/ (conn'[s] = "connected" /\ cons'[c] \in {"starting", "running"})
    BY <1>1, <1>2
  <1> QED BY <1>3 DEF ConsumerInv

\* The same for a step of another service.
LEMMA ElsewhereFrame ==
  ASSUME NEW c \in Consumers, ConsumerInv(c), streams \subseteq streams',
         phase'[Consumer[c].in] = phase[Consumer[c].in],
         todo'[Consumer[c].in] = todo[Consumer[c].in],
         Consumer[c].in \in torn <=> Consumer[c].in \in torn',
         conn'[Consumer[c].in] = conn[Consumer[c].in],
         cons'[c] = cons[c]
  PROVE  ConsumerInv(c)'
  BY ConsumerFrame

LEMMA StillConsumers ==
  ASSUME TypeOK, NEW c \in Consumers, ConsumerInv(c), Still
  PROVE  ConsumerInv(c)'
  <1> DEFINE s == Consumer[c].in
  <1>1. UNCHANGED <<phase, todo>> /\ streams \subseteq streams' /\ torn \subseteq torn'
    BY DEF Still, NatsDown, NatsUp, RotateKey, RefreshKey, DbDown, DbUp, StartConsumer,
           Reconnect, GiveUp, process, traffic, keys, infra, vars
  <1>2. s \in Services
    BY ConsumerScripts
  <1>3. conn[s] = "connected" => conn'[s] = "connected" \/ s \in torn'
    <2>1. CASE NatsDown
      BY <1>2, <2>1 DEF NatsDown
    <2>2. ASSUME NEW t \in Services, Reconnect(t) \/ GiveUp(t)
          PROVE  conn[s] = "connected" => conn'[s] = "connected"
      BY <1>2, <2>2 DEF Reconnect, GiveUp, TypeOK
    <2>3. CASE UNCHANGED conn
      BY <2>3
    <2> QED BY <2>1, <2>2, <2>3
         DEF Still, NatsUp, RotateKey, RefreshKey, DbDown, DbUp, StartConsumer, process, vars
  <1>4. cons'[c] = cons[c] \/ cons'[c] = "running"
    <2>1. ASSUME NEW e \in Consumers, StartConsumer(e)
          PROVE  cons'[c] = cons[c] \/ cons'[c] = "running"
      BY <2>1 DEF StartConsumer, TypeOK
    <2>2. CASE UNCHANGED cons
      BY <2>2
    <2> QED BY <2>1, <2>2
         DEF Still, NatsDown, NatsUp, RotateKey, RefreshKey, DbDown, DbUp, Reconnect, GiveUp,
             process, vars
  <1> QED BY <1>1, <1>3, <1>4, ConsumerFrame

LEMMA ExitConsumers ==
  ASSUME TypeOK, NEW c \in Consumers, ConsumerInv(c), NEW t \in Services, Exit(t),
         UNCHANGED streams
  PROVE  ConsumerInv(c)'
  <1> DEFINE s == Consumer[c].in
  <1>1. s \in Services
    BY ConsumerScripts
  <1>2. CASE s = t
    <2>1. phase'[s] = "down"
      BY <1>1, <1>2 DEF Exit, TypeOK
    <2> QED BY <2>1 DEF ConsumerInv
  <1>3. CASE s # t
    <2>1. phase'[s] = phase[s] /\ todo'[s] = todo[s] /\ conn'[s] = conn[s]
          /\ (s \in torn' <=> s \in torn)
      BY <1>1, <1>3 DEF Exit, TypeOK
    <2>2. cons'[c] = cons[c]
      BY <1>3 DEF Exit, SetConsumers, ConsumersOf
    <2> QED BY <2>1, <2>2, ElsewhereFrame
  <1> QED BY <1>2, <1>3

\* A start fails only for want of a connection: the stream is there.
LEMMA StartConsumerFailsConsumers ==
  ASSUME TypeOK, NEW c \in Consumers, ConsumerInv(c), NEW e \in Consumers, StartConsumerFails(e)
  PROVE  ConsumerInv(c)'
  <1>1. UNCHANGED streams
    BY DEF StartConsumerFails, infra
  <1>2. CASE Exit(Consumer[e].in)
    BY <1>1, <1>2, ConsumerScripts, ExitConsumers
  <1>3. CASE /\ cons' = [cons EXCEPT ![e] = "dead"]
             /\ UNCHANGED <<phase, todo, conn, pool, torn, traffic, keys>>
    <2>1. phase[Consumer[c].in] = "serve" => cons'[c] = cons[c] \/ Consumer[c].in \in torn
      <3>1. CASE c = e
        BY <3>1 DEF StartConsumerFails, Starting, ConsumerInv
      <3>2. CASE c # e
        BY <1>3, <3>2 DEF TypeOK
      <3> QED BY <3>1, <3>2
    <2> QED BY <1>1, <1>3, <2>1, ConsumerFrame
  <1> QED BY <1>2, <1>3 DEF StartConsumerFails

LEMMA RequestConsumers ==
  ASSUME NEW c \in Consumers, ConsumerInv(c), NEW t \in Clients,
         Accept(t) \/ Call(t) \/ BeginTx(t) \/ EndTx(t) \/ Answer(t) \/ Return(t)
  PROVE  ConsumerInv(c)'
  <1>1. UNCHANGED <<streams, phase, todo, conn, torn, cons>>
    BY DEF Accept, Call, BeginTx, EndTx, Answer, Return, SetHTTP, SetRPC, SetRequest, process, infra
  <1> QED BY <1>1, ElsewhereFrame

\* A boot script: what it has done is there, and the rest is ahead.
LEMMA BootConsumers ==
  ASSUME TypeOK, NEW c \in Consumers, ConsumerInv(c), NEW t \in Services,
         Launch(t) \/ MigrateBegin(t) \/ BootStep(t)
  PROVE  ConsumerInv(c)'
  <1> DEFINE s == Consumer[c].in
             of == Consumer[c].of
  <1>1. s \in Services /\ of \in Streams
    BY ConsumerScripts
  <1>2. streams \subseteq streams' /\ UNCHANGED <<cons, torn>>
    BY DEF Launch, MigrateBegin, BootStep, MigrateEnd, MigrateNothing, OpenPool, ConnectNats,
           EnsureStream, LoadKeys, infra
  <1>3. CASE s # t
    <2>1. phase'[s] = phase[s] /\ todo'[s] = todo[s] /\ conn'[s] = conn[s]
      BY <1>1, <1>3 DEF Launch, MigrateBegin, BootStep, MigrateEnd, MigrateNothing, OpenPool,
                        ConnectNats, EnsureStream, LoadKeys, Done, TypeOK
    <2> QED BY <1>2, <2>1, ElsewhereFrame
  <1>4. CASE s = t /\ Launch(t)
    <2>1. phase'[s] = "boot" /\ todo'[s] = Program[s].boot
      BY <1>1, <1>4 DEF Launch, TypeOK
    <2>2. Ahead(s, of)' /\ Ahead(s, "nats")'
      BY <2>1, ConsumerScripts DEF Ahead
    <2> QED BY <2>1, <2>2 DEF ConsumerInv
  <1>5. CASE s = t /\ MigrateBegin(t)
    <2>1. phase[s] = "boot" /\ UNCHANGED <<phase, conn>>
      BY <1>5 DEF MigrateBegin, Runs
    <2>2. of # "migrate"
      BY <1>1 DEF Streams
    <2>3. (Ahead(s, of) => Ahead(s, of)') /\ (Ahead(s, "nats") => Ahead(s, "nats")')
      BY <1>1, <1>5, <2>2, AheadWhenMigrating
    <2> QED BY <1>2, <2>1, <2>3 DEF ConsumerInv
  <1>6. CASE s = t /\ BootStep(t)
    <2>1. phase[s] = "boot" /\ UNCHANGED phase /\ todo[s] # <<>> /\ Done(s)
      BY <1>6 DEF BootStep, MigrateEnd, MigrateNothing, OpenPool, ConnectNats, EnsureStream,
                  LoadKeys, Runs
    <2>2. Head(todo[s]) = of => of \in streams'
      BY <1>1, <1>6 DEF BootStep, MigrateEnd, MigrateNothing, OpenPool, ConnectNats, EnsureStream,
                        LoadKeys, Runs, Streams
    <2>3. Head(todo[s]) = "nats" => conn'[s] = "connected"
      BY <1>1, <1>6 DEF BootStep, MigrateEnd, MigrateNothing, OpenPool, ConnectNats, EnsureStream,
                        LoadKeys, Runs, Streams, TypeOK
    <2>4. conn[s] = "connected" => conn'[s] = "connected"
      BY <1>1, <1>6 DEF BootStep, MigrateEnd, MigrateNothing, OpenPool, ConnectNats, EnsureStream,
                        LoadKeys, TypeOK
    <2>5. Ahead(s, of) => Ahead(s, of)' \/ of \in streams'
      BY <1>1, <2>1, <2>2, AheadWhenDone
    <2>6. Ahead(s, "nats") => Ahead(s, "nats")' \/ conn'[s] = "connected"
      BY <1>1, <2>1, <2>3, AheadWhenDone
    <2> QED BY <1>2, <2>1, <2>4, <2>5, <2>6 DEF ConsumerInv
  <1> QED BY <1>3, <1>4, <1>5, <1>6

\* When the script is through, the connection and the streams are there.
LEMMA ServeConsumers ==
  ASSUME TypeOK, NEW c \in Consumers, ConsumerInv(c), NEW t \in Services, Serve(t)
  PROVE  ConsumerInv(c)'
  <1> DEFINE s == Consumer[c].in
             of == Consumer[c].of
  <1>1. s \in Services
    BY ConsumerScripts
  <1>2. /\ phase[t] = "boot" /\ todo[t] = <<>> /\ phase' = [phase EXCEPT ![t] = "serve"]
        /\ cons'[c] = IF s = t THEN "starting" ELSE cons[c]
        /\ UNCHANGED <<streams, todo, conn, torn>>
    BY DEF Serve, SetConsumers, ConsumersOf, infra
  <1>3. CASE s # t
    <2>1. phase'[s] = phase[s]
      BY <1>1, <1>2, <1>3 DEF TypeOK
    <2> QED BY <1>2, <1>3, <2>1, ElsewhereFrame
  <1>4. CASE s = t
    <2>1. ~Ahead(s, of) /\ ~Ahead(s, "nats")
      BY <1>2, <1>4 DEF Ahead
    <2>2. phase'[s] = "serve" /\ cons'[c] = "starting"
      BY <1>1, <1>2, <1>4 DEF TypeOK
    <2>3. of \in streams /\ (conn[s] = "connected" \/ s \in torn)
      BY <1>2, <1>4, <2>1 DEF ConsumerInv
    <2> QED BY <1>2, <2>2, <2>3 DEF ConsumerInv
  <1> QED BY <1>3, <1>4

LEMMA StopConsumers ==
  ASSUME TypeOK, NEW c \in Consumers, ConsumerInv(c), NEW t \in Services,
         Stop(t) \/ ServerFails(t) \/ StopStep(t)
  PROVE  ConsumerInv(c)'
  <1> DEFINE s == Consumer[c].in
  <1>1. s \in Services
    BY ConsumerScripts
  <1>2. UNCHANGED <<streams, torn>>
    BY DEF Stop, ServerFails, StopStep, StopGRPC, StopHTTP, StopHTTPTimesOut, DrainNats, ClosePool,
           infra
  <1>3. CASE s # t
    <2>1. phase'[s] = phase[s] /\ todo'[s] = todo[s] /\ conn'[s] = conn[s]
      BY <1>1, <1>3 DEF Stop, ServerFails, StopStep, StopGRPC, StopHTTP, StopHTTPTimesOut,
                        DrainNats, ClosePool, Done, TypeOK
    <2>2. cons'[c] = cons[c]
      BY <1>3 DEF Stop, ServerFails, StopStep, StopGRPC, StopHTTP, StopHTTPTimesOut,
                  DrainNats, ClosePool, SetConsumers, ConsumersOf
    <2> QED BY <1>2, <2>1, <2>2, ElsewhereFrame
  <1>4. CASE s = t
    <2>1. phase'[s] = "stop"
      BY <1>1, <1>4 DEF Stop, ServerFails, StopStep, StopGRPC, StopHTTP, StopHTTPTimesOut,
                        DrainNats, ClosePool, Runs, TypeOK
    <2> QED BY <2>1 DEF ConsumerInv
  <1> QED BY <1>3, <1>4

----------------------------------------------------------------------------
(* Types.                                                                  *)

InfraTypes ==
    /\ nats \in BOOLEAN
    /\ streams \subseteq Streams
    /\ db \subseteq Servers
    /\ schema \in [Services -> {"old", "dirty", "current"}]
    /\ file \in Keys
    /\ faults \in 0..MaxFaults

LEMMA TypeParts == TypeOK <=> InfraTypes /\ ProcessTypes
  BY DEF TypeOK, InfraTypes, ProcessTypes

LEMMA FaultTypes ==
  ASSUME TypeOK, Fault
  PROVE  faults' \in 0..MaxFaults /\ faults' = faults + 1
  BY RuntimeBounds DEF TypeOK, Fault

LEMMA DoneTypes ==
  ASSUME TypeOK, NEW t \in Services, todo[t] # <<>>, Done(t)
  PROVE  todo' \in [Services -> Seq(Steps)]
  <1>1. Tail(todo[t]) \in Seq(Steps)
    BY DEF TypeOK
  <1> QED BY <1>1 DEF Done, TypeOK

LEMMA ConsumerTypes ==
  ASSUME TypeOK, NEW t \in Services, NEW x \in {"off", "starting", "running", "dead"},
         SetConsumers(t, x)
  PROVE  cons' \in [Consumers -> {"off", "starting", "running", "dead"}]
  BY DEF SetConsumers, TypeOK

\* NATS, the databases, the consumers and the keys.
LEMMA StillTypes ==
  ASSUME TypeOK, FileIsCounted, Still
  PROVE  TypeOK' /\ FileIsCounted'
  <1> USE DEF Still, infra, process, traffic, keys
  <1>1. CASE NatsDown
    <2>1. conn' \in [Services -> {"none", "connected", "reconnecting", "closed"}]
          /\ torn' \subseteq Services
      BY <1>1 DEF NatsDown, TypeOK
    <2>2. faults' \in 0..MaxFaults /\ faults' = faults + 1
      BY <1>1, FaultTypes DEF NatsDown
    <2>3. FileIsCounted'
      BY <1>1, <2>2, RuntimeBounds DEF NatsDown, TypeOK, FileIsCounted, Keys
    <2> QED BY <1>1, <2>1, <2>2, <2>3 DEF NatsDown, TypeOK
  <1>2. CASE NatsUp
    BY <1>2 DEF NatsUp, TypeOK, FileIsCounted
  <1>3. CASE RotateKey
    <2>1. file' \in Keys /\ file' <= faults' + 1
      BY <1>3, FaultTypes, RuntimeBounds DEF RotateKey, TypeOK, FileIsCounted, Keys
    <2> QED BY <1>3, <2>1, FaultTypes DEF RotateKey, TypeOK, FileIsCounted
  <1>4. CASE RefreshKey
    BY <1>4 DEF RefreshKey, TypeOK, FileIsCounted
  <1>5. ASSUME NEW d \in Servers, DbDown(d) PROVE TypeOK' /\ FileIsCounted'
    BY <1>5, FaultTypes DEF DbDown, TypeOK, FileIsCounted, Keys
  <1>6. ASSUME NEW d \in Servers, DbUp(d) PROVE TypeOK' /\ FileIsCounted'
    BY <1>6 DEF DbUp, TypeOK, FileIsCounted
  <1>7. ASSUME NEW c \in Consumers, StartConsumer(c) PROVE TypeOK' /\ FileIsCounted'
    BY <1>7 DEF StartConsumer, TypeOK, FileIsCounted
  <1>8. ASSUME NEW t \in Services, Reconnect(t) \/ GiveUp(t) PROVE TypeOK' /\ FileIsCounted'
    BY <1>8 DEF Reconnect, GiveUp, TypeOK, FileIsCounted
  <1>9. CASE UNCHANGED vars
    BY <1>9 DEF vars, TypeOK, FileIsCounted
  <1> QED BY <1>1, <1>2, <1>3, <1>4, <1>5, <1>6, <1>7, <1>8, <1>9

\* The steps of the scripts up to Serve.
LEMMA BootTypes ==
  ASSUME TypeOK, FileIsCounted, NEW t \in Services,
         Launch(t) \/ MigrateBegin(t) \/ BootStep(t) \/ Serve(t)
  PROVE  TypeOK' /\ FileIsCounted'
  <1> USE DEF infra, traffic, keys
  <1>1. CASE Launch(t)
    <2>1. todo' \in [Services -> Seq(Steps)]
      BY <1>1, ScriptTypes DEF Launch, TypeOK
    <2> QED BY <1>1, <2>1 DEF Launch, TypeOK, FileIsCounted
  <1>2. CASE MigrateBegin(t)
    <2>1. <<"migrating">> \o Tail(todo[t]) \in Seq(Steps)
      <3>1. Tail(todo[t]) \in Seq(Steps)
        BY <1>2 DEF MigrateBegin, Runs, TypeOK
      <3>2. <<"migrating">> \in Seq(Steps)
        BY DEF Steps
      <3> QED BY <3>1, <3>2
    <2>2. todo' \in [Services -> Seq(Steps)]
      BY <1>2, <2>1 DEF MigrateBegin, TypeOK
    <2> QED BY <1>2, <2>2 DEF MigrateBegin, TypeOK, FileIsCounted
  <1>3. CASE Serve(t)
    <2>1. cons' \in [Consumers -> {"off", "starting", "running", "dead"}]
      BY <1>3, ConsumerTypes DEF Serve
    <2> QED BY <1>3, <2>1 DEF Serve, TypeOK, FileIsCounted
  <1>4. CASE BootStep(t)
    <2>1. todo[t] # <<>> /\ Done(t)
      BY <1>4 DEF BootStep, MigrateEnd, MigrateNothing, OpenPool, ConnectNats, EnsureStream,
                  LoadKeys, Runs
    <2>2. todo' \in [Services -> Seq(Steps)]
      BY <2>1, DoneTypes
    <2>3. CASE MigrateEnd(t)
      BY <2>2, <2>3 DEF MigrateEnd, TypeOK, FileIsCounted
    <2>4. CASE MigrateNothing(t)
      BY <2>2, <2>4 DEF MigrateNothing, TypeOK, FileIsCounted
    <2>5. CASE OpenPool(t)
      BY <2>2, <2>5 DEF OpenPool, TypeOK, FileIsCounted
    <2>6. CASE ConnectNats(t)
      BY <2>2, <2>6 DEF ConnectNats, TypeOK, FileIsCounted
    <2>7. CASE EnsureStream(t)
      BY <2>2, <2>7 DEF EnsureStream, TypeOK, FileIsCounted
    <2>8. CASE LoadKeys(t)
      BY <2>2, <2>8 DEF LoadKeys, TypeOK, FileIsCounted
    <2> QED BY <1>4, <2>3, <2>4, <2>5, <2>6, <2>7, <2>8 DEF BootStep
  <1> QED BY <1>1, <1>2, <1>3, <1>4

\* The ends of a process.
LEMMA EndsTypes ==
  ASSUME TypeOK, FileIsCounted, NEW t \in Services, Ends(t)
  PROVE  TypeOK' /\ FileIsCounted'
  <1>1. Exit(t)
    BY DEF Ends, MigrateSlowly, BootFails, Stopped, Kill
  <1>2. ProcessTypes' /\ file' = file
    BY <1>1, ExitTypes
  <1>3. UNCHANGED <<nats, streams, db>>
        /\ schema' \in [Services -> {"old", "dirty", "current"}]
    BY DEF Ends, MigrateSlowly, BootFails, Stopped, Kill, infra, TypeOK
  <1>4. faults' = faults \/ Fault
    BY DEF Ends, MigrateSlowly, BootFails, Stopped, Kill
  <1>5. faults' \in 0..MaxFaults /\ (faults' = faults \/ faults' = faults + 1)
    BY <1>4, FaultTypes DEF TypeOK
  <1>6. FileIsCounted'
    <2>1. file \in Nat
      BY RuntimeBounds DEF TypeOK, Keys
    <2>2. faults \in Nat
      BY RuntimeBounds DEF TypeOK
    <2>3. CASE faults' = faults
      BY <1>2, <2>3 DEF FileIsCounted
    <2>4. CASE faults' = faults + 1
      BY <1>2, <2>1, <2>2, <2>4 DEF FileIsCounted
    <2> QED BY <1>5, <2>3, <2>4
  <1> QED BY <1>2, <1>3, <1>5, <1>6 DEF ProcessTypes, TypeOK

LEMMA StartConsumerFailsTypes ==
  ASSUME TypeOK, FileIsCounted, NEW c \in Consumers, StartConsumerFails(c)
  PROVE  TypeOK' /\ FileIsCounted'
  <1>1. Consumer[c].in \in Services
    BY DEF Consumers, Consumer, FanoutConsumer, SagaConsumer, DLQInspector, MailConsumer, Services
  <1>2. UNCHANGED <<nats, streams, db, schema, faults>>
    BY DEF StartConsumerFails, infra
  <1>3. CASE Exit(Consumer[c].in)
    <2>1. ProcessTypes' /\ file' = file
      BY <1>1, <1>3, ExitTypes
    <2> QED BY <1>2, <2>1 DEF ProcessTypes, FileIsCounted, TypeOK
  <1>4. CASE /\ cons' = [cons EXCEPT ![c] = "dead"]
             /\ UNCHANGED <<phase, todo, conn, pool, torn, traffic, keys>>
    BY <1>2, <1>4 DEF TypeOK, FileIsCounted, traffic, keys
  <1> QED BY <1>3, <1>4 DEF StartConsumerFails

\* Requests.
LEMMA RequestTypes ==
  ASSUME TypeOK, FileIsCounted, NEW t \in Clients,
         Accept(t) \/ Call(t) \/ BeginTx(t) \/ EndTx(t) \/ Answer(t) \/ Return(t)
  PROVE  TypeOK' /\ FileIsCounted'
  <1>1. request[t].http \in {"none", "handling", "inTx"} /\ request[t].rpc \in BOOLEAN
    BY DEF TypeOK
  <1>2. PICK h \in {"none", "handling", "inTx"}, r \in BOOLEAN : SetRequest(t, h, r)
    BY <1>1 DEF Accept, Call, BeginTx, EndTx, Answer, Return, SetHTTP, SetRPC
  <1>3. [http |-> h, rpc |-> r] \in [http : {"none", "handling", "inTx"}, rpc : BOOLEAN]
    OBVIOUS
  <1>4. request' \in [Clients -> [http : {"none", "handling", "inTx"}, rpc : BOOLEAN]]
    BY <1>2, <1>3 DEF SetRequest, TypeOK
  <1> QED BY <1>2, <1>4 DEF SetRequest, TypeOK, FileIsCounted, infra, process, keys

\* The shutdown.
LEMMA StopTypes ==
  ASSUME TypeOK, FileIsCounted, NEW t \in Services, Stop(t) \/ ServerFails(t) \/ StopStep(t)
  PROVE  TypeOK' /\ FileIsCounted'
  <1> USE DEF infra, traffic, keys
  <1>1. CASE Stop(t)
    <2>1. todo' \in [Services -> Seq(Steps)]
      BY <1>1, ScriptTypes DEF Stop, TypeOK
    <2>2. cons' \in [Consumers -> {"off", "starting", "running", "dead"}]
      BY <1>1, ConsumerTypes DEF Stop
    <2> QED BY <1>1, <2>1, <2>2, FaultTypes DEF Stop, TypeOK, FileIsCounted, Keys
  <1>2. CASE ServerFails(t)
    <2>1. <<"nats", "pool">> \in Seq(Steps)
      BY DEF Steps
    <2>2. todo' \in [Services -> Seq(Steps)]
      BY <1>2, <2>1 DEF ServerFails, TypeOK
    <2> QED BY <1>2, <2>2, FaultTypes DEF ServerFails, TypeOK, FileIsCounted, Keys
  <1>3. CASE StopStep(t)
    <2>1. todo[t] # <<>> /\ Done(t)
      BY <1>3 DEF StopStep, StopGRPC, StopHTTP, StopHTTPTimesOut, DrainNats, ClosePool, Runs
    <2>2. todo' \in [Services -> Seq(Steps)]
      BY <2>1, DoneTypes
    <2>3. CASE StopGRPC(t) \/ StopHTTP(t)
      BY <2>2, <2>3 DEF StopGRPC, StopHTTP, TypeOK, FileIsCounted
    <2>4. CASE StopHTTPTimesOut(t)
      BY <2>2, <2>4 DEF StopHTTPTimesOut, TypeOK, FileIsCounted
    <2>5. CASE DrainNats(t) \/ ClosePool(t)
      BY <2>2, <2>5 DEF DrainNats, ClosePool, TypeOK, FileIsCounted
    <2> QED BY <1>3, <2>3, <2>4, <2>5 DEF StopStep
  <1> QED BY <1>1, <1>2, <1>3

----------------------------------------------------------------------------
(* The invariant and the theorems.                                         *)

LEMMA InitIInv == Init => IInv
  <1> SUFFICES ASSUME Init PROVE IInv
    OBVIOUS
  <1> USE DEF Init
  <1>1. PICK D \in Deployments :
          phase = [s \in Services |-> IF s \in D THEN "down" ELSE "absent"]
    OBVIOUS
  <1>2. 0 \in 0..MaxFaults /\ 1 \in Keys
    BY RuntimeBounds DEF Keys
  <1>3. Quiet \in [http : {"none", "handling", "inTx"}, rpc : BOOLEAN]
    BY DEF Quiet
  <1>4. InfraTypes
    BY <1>2 DEF InfraTypes
  <1>5. ProcessTypes
    BY <1>1, <1>2, <1>3 DEF ProcessTypes
  <1>6. FileIsCounted
    BY DEF FileIsCounted
  <1>7. ASSUME NEW s \in Clients PROVE ClientInv(s)
    <2>1. phase[s] \in {"down", "absent"} /\ request[s] = Quiet
      BY <1>1, ClientScripts
    <2> QED BY <2>1 DEF ClientInv
  <1>8. ASSUME NEW c \in Consumers PROVE ConsumerInv(c)
    <2>1. phase[Consumer[c].in] \in {"down", "absent"}
      BY <1>1, ConsumerScripts
    <2> QED BY <2>1 DEF ConsumerInv
  <1> QED BY <1>4, <1>5, <1>6, <1>7, <1>8, TypeParts DEF IInv

\* What the actions of Next are, sorted by the lemmas that deal with them.
LEMMA StepCases ==
  ASSUME [Next]_vars
  PROVE  \/ Still
         \/ \E c \in Consumers : StartConsumerFails(c)
         \/ \E t \in Clients :
               Accept(t) \/ Call(t) \/ BeginTx(t) \/ EndTx(t) \/ Answer(t) \/ Return(t)
         \/ \E t \in Services :
               \/ Launch(t) \/ MigrateBegin(t) \/ BootStep(t) \/ Serve(t)
               \/ Stop(t) \/ ServerFails(t) \/ StopStep(t) \/ Ends(t)
  BY DEF Next, Boot, Finish, Still, BootStep, StopStep, Ends

LEMMA NextIInv == IInv /\ [Next]_vars => IInv'
  <1> SUFFICES ASSUME IInv, [Next]_vars PROVE IInv'
    OBVIOUS
  <1>1. /\ TypeOK /\ FileIsCounted
        /\ \A s \in Clients : ClientInv(s)
        /\ \A c \in Consumers : ConsumerInv(c)
    BY DEF IInv
  <1>2. CASE Still
    BY <1>1, <1>2, StillTypes, StillKeeps, StillConsumers DEF IInv
  <1>3. ASSUME NEW c \in Consumers, StartConsumerFails(c) PROVE IInv'
    BY <1>1, <1>3, StartConsumerFailsTypes, StartConsumerFailsKeeps, StartConsumerFailsConsumers
       DEF IInv
  <1>4. ASSUME NEW t \in Clients,
               Accept(t) \/ Call(t) \/ BeginTx(t) \/ EndTx(t) \/ Answer(t) \/ Return(t)
        PROVE  IInv'
    BY <1>1, <1>4, RequestTypes, RequestKeeps, RequestConsumers DEF IInv
  <1>5. ASSUME NEW t \in Services, Launch(t) \/ MigrateBegin(t) \/ BootStep(t) \/ Serve(t)
        PROVE  IInv'
    <2>1. TypeOK' /\ FileIsCounted'
      BY <1>1, <1>5, BootTypes
    <2>2. \A s \in Clients : ClientInv(s)'
      BY <1>1, <1>5, LaunchKeeps, MigrateBeginKeeps, BootStepsKeep, ServeKeeps
    <2>3. \A c \in Consumers : ConsumerInv(c)'
      BY <1>1, <1>5, BootConsumers, ServeConsumers
    <2> QED BY <2>1, <2>2, <2>3 DEF IInv
  <1>6. ASSUME NEW t \in Services, Stop(t) \/ ServerFails(t) \/ StopStep(t) PROVE IInv'
    <2>1. TypeOK' /\ FileIsCounted'
      BY <1>1, <1>6, StopTypes
    <2>2. \A s \in Clients : ClientInv(s)'
      BY <1>1, <1>6, StopKeeps, StopStepsKeep
    <2>3. \A c \in Consumers : ConsumerInv(c)'
      BY <1>1, <1>6, StopConsumers
    <2> QED BY <2>1, <2>2, <2>3 DEF IInv
  <1>7. ASSUME NEW t \in Services, Ends(t) PROVE IInv'
    <2>1. TypeOK' /\ FileIsCounted'
      BY <1>1, <1>7, EndsTypes
    <2>2. \A s \in Clients : ClientInv(s)'
      BY <1>1, <1>7, EndsKeep
    <2>3. \A c \in Consumers : ConsumerInv(c)'
      <3>1. Exit(t) /\ UNCHANGED streams
        BY <1>7 DEF Ends, MigrateSlowly, BootFails, Stopped, Kill, infra
      <3> QED BY <1>1, <3>1, ExitConsumers
    <2> QED BY <2>1, <2>2, <2>3 DEF IInv
  <1> QED BY <1>2, <1>3, <1>4, <1>5, <1>6, <1>7, StepCases

(***************************************************************************)
(* The scripts, connections, consumers and requests keep their types.      *)
(***************************************************************************)
THEOREM TypeCorrect == Spec => []TypeOK
  <1>1. IInv => TypeOK
    BY DEF IInv
  <1> QED BY <1>1, InitIInv, NextIInv, PTL DEF Spec

(***************************************************************************)
(* Build opens the pool before anything is accepted, and the deferred Close*)
(* runs after both servers (app.go 197-260): for any deployments, outages, *)
(* kills and orders to stop no request loses its pool, unless it outlives  *)
(* the ten seconds of Shutdown or a listener failed.                       *)
(***************************************************************************)
THEOREM NoRequestLosesItsPool == Spec => []PoolOutlivesRequests
  <1>1. ASSUME IInv, NEW s \in Clients PROVE request[s] # Quiet => s \in pool \/ s \in late
    <2>1. ClientInv(s) /\ phase[s] \in {"absent", "down", "boot", "serve", "stop"}
      BY <1>1, ClientScripts DEF IInv, TypeOK
    <2> QED BY <2>1 DEF ClientInv, QuietOrLate
  <1>2. IInv => PoolOutlivesRequests
    BY <1>1 DEF PoolOutlivesRequests
  <1> QED BY <1>2, InitIInv, NextIInv, PTL DEF Spec

(***************************************************************************)
(* In any deployment and whatever order the services start in, a healthy   *)
(* process that has not lost NATS since it connected has all its consumers:*)
(* Build and Run create each stream before Serve starts its consumer       *)
(* (subscription app.go, notification app.go), and nothing deletes one.    *)
(***************************************************************************)
THEOREM HealthyConsumersDeliver == Spec => []DeafOnlyAfterOutage
  <1>1. ASSUME IInv, NEW c \in Consumers, phase[Consumer[c].in] = "serve"
        PROVE  Delivers(c) \/ Starting(c) \/ Consumer[c].in \in torn
    <2>1. \/ Consumer[c].in \in torn
          \/ conn[Consumer[c].in] = "connected" /\ cons[c] \in {"starting", "running"}
      BY <1>1 DEF IInv, ConsumerInv
    <2> QED BY <1>1, <2>1 DEF Delivers, Starting
  <1>2. IInv => DeafOnlyAfterOutage
    BY <1>1 DEF DeafOnlyAfterOutage
  <1> QED BY <1>2, InitIInv, NextIInv, PTL DEF Spec

=============================================================================
