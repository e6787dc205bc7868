---------------------------- MODULE ServiceRuntime ----------------------------
(***************************************************************************)
(* The four processes of the system around their business code: what they  *)
(* need to start, the consumers they start as goroutines, an outage of     *)
(* NATS or of the database while they run, and how they stop.              *)
(*                                                                         *)
(* A process runs a script: the steps of Build and of the first part of    *)
(* Serve one after the other, each of which either succeeds or ends the    *)
(* process, which the orchestrator starts again (restart: unless-stopped). *)
(* When it serves, its consumers subscribe to their streams on their own.  *)
(* SIGTERM makes it run a second script that releases what it holds.       *)
(*                                                                         *)
(* The auth service reads its signing key when it starts; the subscription *)
(* service caches the public part of it and fetches it again by a ticker.  *)
(***************************************************************************)
EXTENDS Naturals, Sequences, FiniteSets

CONSTANTS
    Deployments, \* the sets of services that are deployed together
    Clients,     \* services whose requests are modelled
    MaxFaults    \* bound: outages, kills and orders to stop

Services == {"auth", "subscription", "monitoring", "notification"}
Streams == {"NOTIFICATIONS", "SAGA", "RELEASES", "NOTIFICATIONS_DLQ"}

ASSUME RuntimeBounds ==
    /\ Deployments \subseteq SUBSET Services
    /\ Clients \subseteq {"auth", "subscription"}
    /\ MaxFaults \in Nat

----------------------------------------------------------------------------
(* The scripts.                                                            *)

\* Faulty variants: a misspelt stream, and one that is left to the scanner.
SubscriptionBuildMisspelt == <<"migrate", "pool", "nats", "NOTIFICATIONS", "SAGA", "RELEASE">>
SubscriptionBuildNoReleases == <<"migrate", "pool", "nats", "NOTIFICATIONS", "SAGA">>

SubscriptionBuild == <<"migrate", "pool", "nats", "NOTIFICATIONS", "SAGA", "RELEASES">>

\* Faulty variant: the deferred calls in the order of their source lines,
\* before the servers have stopped.
SubscriptionServePoolFirst ==
    [boot |-> <<"keys">>, stop |-> <<"pool", "nats", "grpc", "http">>]

SubscriptionServe == [boot |-> <<"keys">>, stop |-> <<"grpc", "http", "nats", "pool">>]

AuthBuild == <<"migrate", "pool", "nats", "NOTIFICATIONS">>
AuthServe == [boot |-> <<>>, stop |-> <<"grpc", "http", "nats", "pool">>]

MonitoringRun == [boot |-> <<"migrate", "pool", "nats">>, stop |-> <<"http", "nats", "pool">>]

NotificationRun ==
    [boot |-> <<"nats", "NOTIFICATIONS", "NOTIFICATIONS_DLQ">>, stop |-> <<"http", "nats">>]

Program ==
    [auth         |-> [AuthServe EXCEPT !.boot = AuthBuild \o @],
     subscription |-> [SubscriptionServe EXCEPT !.boot = SubscriptionBuild \o @],
     monitoring   |-> MonitoringRun,
     notification |-> NotificationRun]

\* What a consumer reads, and whether its process ends when it cannot start.
FanoutConsumer == [in |-> "subscription", of |-> "RELEASES", fatal |-> FALSE]
SagaConsumer   == [in |-> "subscription", of |-> "SAGA", fatal |-> FALSE]
DLQInspector   == [in |-> "notification", of |-> "NOTIFICATIONS_DLQ", fatal |-> FALSE]

\* Faulty variant: the error of Start is logged and forgotten.
MailConsumerLogged == [in |-> "notification", of |-> "NOTIFICATIONS", fatal |-> FALSE]

MailConsumer == [in |-> "notification", of |-> "NOTIFICATIONS", fatal |-> TRUE]

Consumer == [fanout |-> FanoutConsumer, saga |-> SagaConsumer,
             inspector |-> DLQInspector, mail |-> MailConsumer]

Consumers == DOMAIN Consumer
ConsumersOf(s) == {c \in Consumers : Consumer[c].in = s}

\* The databases: the scanner shares the server of the subscription service.
Server(s) == IF s = "auth" THEN "auth-db" ELSE "db"
Servers == {"auth-db", "db"}

----------------------------------------------------------------------------

VARIABLES
    nats,     \* is the NATS server up
    streams,  \* the streams that exist; they are kept in files
    db,       \* the database servers that are up
    schema,   \* the migrations of each service
    phase,    \* absent, down, booting, serving or stopping
    todo,     \* the steps of the running script that are left
    conn,     \* the connection to NATS
    pool,     \* services whose connection pool is open
    cons,     \* the consumers
    torn,     \* services that have lost NATS since they connected
    request,  \* the HTTP request and the RPC a service is working on
    file,     \* the version of the signing key in the mounted file
    signer,   \* the version the auth service has read
    cached,   \* the version the subscription service has cached, or NoKey
    late,     \* services that stop without waiting for their requests
    faults    \* faults so far

infra == <<nats, streams, db, schema>>
process == <<phase, todo, conn, pool, cons, torn>>
traffic == <<request, late>>
keys == <<file, signer, cached>>
vars == <<infra, process, traffic, keys, faults>>

NoKey == 0
Keys == 1..MaxFaults + 1

Steps == {"migrate", "migrating", "pool", "nats", "keys", "grpc", "http"} \cup Streams
Quiet == [http |-> "none", rpc |-> FALSE]

TypeOK ==
    /\ nats \in BOOLEAN
    /\ streams \subseteq Streams
    /\ db \subseteq Servers
    /\ schema \in [Services -> {"old", "dirty", "current"}]
    /\ phase \in [Services -> {"absent", "down", "boot", "serve", "stop"}]
    /\ todo \in [Services -> Seq(Steps)]
    /\ conn \in [Services -> {"none", "connected", "reconnecting", "closed"}]
    /\ pool \subseteq Services
    /\ cons \in [Consumers -> {"off", "starting", "running", "dead"}]
    /\ torn \subseteq Services
    /\ request \in [Clients -> [http : {"none", "handling", "inTx"}, rpc : BOOLEAN]]
    /\ late \subseteq Services
    /\ file \in Keys /\ signer \in Keys \cup {NoKey} /\ cached \in Keys \cup {NoKey}
    /\ faults \in 0..MaxFaults

Init ==
    /\ nats \in BOOLEAN
    /\ streams = {}
    /\ db = Servers
    /\ schema = [s \in Services |-> "old"]
    /\ \E D \in Deployments :
          phase = [s \in Services |-> IF s \in D THEN "down" ELSE "absent"]
    /\ todo = [s \in Services |-> <<>>]
    /\ conn = [s \in Services |-> "none"]
    /\ pool = {}
    /\ cons = [c \in Consumers |-> "off"]
    /\ torn = {}
    /\ request = [s \in Clients |-> Quiet]
    /\ late = {}
    /\ file = 1 /\ signer = NoKey /\ cached = NoKey
    /\ faults = 0

Fault == faults < MaxFaults /\ faults' = faults + 1

Runs(s, p, step) == phase[s] = p /\ todo[s] # <<>> /\ Head(todo[s]) = step
Done(s) == todo' = [todo EXCEPT ![s] = Tail(@)]

SetConsumers(s, state) ==
    cons' = [c \in Consumers |-> IF c \in ConsumersOf(s) THEN state ELSE cons[c]]

\* The process ends, with all it held in memory.
Exit(s) ==
    /\ phase' = [phase EXCEPT ![s] = "down"]
    /\ todo' = [todo EXCEPT ![s] = <<>>]
    /\ conn' = [conn EXCEPT ![s] = "none"]
    /\ pool' = pool \ {s}
    /\ SetConsumers(s, "off")
    /\ torn' = torn \ {s}
    /\ request' = [c \in Clients |-> IF c = s THEN Quiet ELSE request[c]]
    /\ late' = late \ {s}
    /\ signer' = IF s = "auth" THEN NoKey ELSE signer
    /\ cached' = IF s = "subscription" THEN NoKey ELSE cached
    /\ UNCHANGED file

----------------------------------------------------------------------------
(* Start.                                                                  *)

\* The auth service loads its signer first of all.
Launch(s) ==
    /\ phase[s] = "down"
    /\ phase' = [phase EXCEPT ![s] = "boot"]
    /\ todo' = [todo EXCEPT ![s] = Program[s].boot]
    /\ signer' = IF s = "auth" THEN file ELSE signer
    /\ UNCHANGED <<infra, conn, pool, cons, torn, traffic, file, cached, faults>>

\* migrate marks the version dirty before it runs the statements of it.
MigrateBegin(s) ==
    /\ Runs(s, "boot", "migrate")
    /\ Server(s) \in db
    /\ schema[s] = "old"
    /\ schema' = [schema EXCEPT ![s] = "dirty"]
    /\ todo' = [todo EXCEPT ![s] = <<"migrating">> \o Tail(@)]
    /\ UNCHANGED <<nats, streams, db, phase, conn, pool, cons, torn, traffic, keys, faults>>

MigrateEnd(s) ==
    /\ Runs(s, "boot", "migrating")
    /\ Server(s) \in db
    /\ schema' = [schema EXCEPT ![s] = "current"]
    /\ Done(s)
    /\ UNCHANGED <<nats, streams, db, phase, conn, pool, cons, torn, traffic, keys, faults>>

\* The migration took longer than the context of Build lives: the ping of
\* the pool that follows fails.
MigrateSlowly(s) ==
    /\ Runs(s, "boot", "migrating")
    /\ Server(s) \in db
    /\ schema' = [schema EXCEPT ![s] = "current"]
    /\ Exit(s)
    /\ UNCHANGED <<nats, streams, db, faults>>

\* ErrNoChange.
MigrateNothing(s) ==
    /\ Runs(s, "boot", "migrate")
    /\ Server(s) \in db
    /\ schema[s] = "current"
    /\ Done(s)
    /\ UNCHANGED <<infra, phase, conn, pool, cons, torn, traffic, keys, faults>>

OpenPool(s) ==
    /\ Runs(s, "boot", "pool")
    /\ Server(s) \in db
    /\ pool' = pool \cup {s}
    /\ Done(s)
    /\ UNCHANGED <<infra, phase, conn, cons, torn, traffic, keys, faults>>

\* natsgo.Connect makes a single attempt.
ConnectNats(s) ==
    /\ Runs(s, "boot", "nats")
    /\ nats
    /\ conn' = [conn EXCEPT ![s] = "connected"]
    /\ Done(s)
    /\ UNCHANGED <<infra, phase, pool, cons, torn, traffic, keys, faults>>

\* CreateOrUpdateStream.
EnsureStream(s) ==
    /\ conn[s] = "connected"
    /\ \E stream \in Streams : Runs(s, "boot", stream) /\ streams' = streams \cup {stream}
    /\ Done(s)
    /\ UNCHANGED <<nats, db, schema, phase, conn, pool, cons, torn, traffic, keys, faults>>

\* Does the auth service answer GetSigningKey.
KeysServed == phase["auth"] = "serve"

\* The key is fetched before anything is served.
LoadKeys(s) ==
    /\ Runs(s, "boot", "keys")
    /\ KeysServed
    /\ cached' = signer
    /\ Done(s)
    /\ UNCHANGED <<infra, phase, conn, pool, cons, torn, traffic, file, signer, faults>>

Needs(s) ==
    LET step == Head(todo[s]) IN
    CASE step = "migrate"              -> Server(s) \in db /\ schema[s] # "dirty"
      [] step \in {"migrating", "pool"} -> Server(s) \in db
      [] step = "nats"                 -> nats
      [] step = "keys"                 -> KeysServed
      [] OTHER                         -> conn[s] = "connected"

\* Faulty variant: a step waits for what it needs, and the process does not end.
BootWaits(s) == phase[s] = "boot" /\ todo[s] # <<>> /\ ~Needs(s) /\ UNCHANGED vars

\* An error of Build or of the first part of Serve ends the process.
BootFails(s) ==
    /\ phase[s] = "boot" /\ todo[s] # <<>>
    /\ ~Needs(s)
    /\ Exit(s)
    /\ UNCHANGED <<infra, faults>>

\* The servers listen, and every consumer is started by a goroutine.
Serve(s) ==
    /\ phase[s] = "boot" /\ todo[s] = <<>>
    /\ phase' = [phase EXCEPT ![s] = "serve"]
    /\ SetConsumers(s, "starting")
    /\ UNCHANGED <<infra, todo, conn, pool, torn, traffic, keys, faults>>

Boot(s) ==
    \/ Launch(s) \/ MigrateBegin(s) \/ MigrateEnd(s) \/ MigrateNothing(s)
    \/ OpenPool(s) \/ ConnectNats(s) \/ EnsureStream(s) \/ LoadKeys(s)
    \/ BootFails(s) \/ Serve(s)

----------------------------------------------------------------------------
(* The consumers.                                                          *)

Starting(c) == phase[Consumer[c].in] = "serve" /\ cons[c] = "starting"

\* CreateOrUpdateConsumer and Consume succeed.
StartConsumer(c) ==
    /\ Starting(c)
    /\ conn[Consumer[c].in] = "connected"
    /\ Consumer[c].of \in streams
    /\ cons' = [cons EXCEPT ![c] = "running"]
    /\ UNCHANGED <<infra, phase, todo, conn, pool, torn, traffic, keys, faults>>

\* The request times out, or there is no such stream: the error is logged and
\* the goroutine is gone, or the process ends.
StartConsumerFails(c) ==
    /\ Starting(c)
    /\ conn[Consumer[c].in] # "connected" \/ Consumer[c].of \notin streams
    /\ IF Consumer[c].fatal
       THEN Exit(Consumer[c].in)
       ELSE /\ cons' = [cons EXCEPT ![c] = "dead"]
            /\ UNCHANGED <<phase, todo, conn, pool, torn, traffic, keys>>
    /\ UNCHANGED <<infra, faults>>

----------------------------------------------------------------------------
(* The signing key.                                                        *)

\* The mounted file is replaced, for instance when a key has leaked.
RotateKey ==
    /\ Fault
    /\ file' = file + 1
    /\ UNCHANGED <<infra, process, traffic, signer, cached>>

\* Faulty variant: the key is kept once it is there.
KeepKey ==
    /\ phase["subscription"] = "serve" /\ KeysServed
    /\ cached = NoKey
    /\ cached' = signer
    /\ UNCHANGED <<infra, process, traffic, file, signer, faults>>

\* A tick of Run; a Load that fails leaves the key as it is.
RefreshKey ==
    /\ phase["subscription"] = "serve" /\ KeysServed
    /\ cached' = signer
    /\ UNCHANGED <<infra, process, traffic, file, signer, faults>>

----------------------------------------------------------------------------
(* NATS and the databases.                                                 *)

NatsDown ==
    /\ nats /\ Fault
    /\ nats' = FALSE
    /\ conn' = [s \in Services |-> IF conn[s] = "connected" THEN "reconnecting" ELSE conn[s]]
    /\ torn' = torn \cup {s \in Services : conn[s] = "connected"}
    /\ UNCHANGED <<streams, db, schema, phase, todo, pool, cons, traffic, keys>>

NatsUp ==
    /\ ~nats
    /\ nats' = TRUE
    /\ UNCHANGED <<streams, db, schema, process, traffic, keys, faults>>

Reconnect(s) ==
    /\ conn[s] = "reconnecting" /\ nats
    /\ conn' = [conn EXCEPT ![s] = "connected"]
    /\ UNCHANGED <<infra, phase, todo, pool, cons, torn, traffic, keys, faults>>

\* After 60 attempts in two minutes the client closes the connection.
GiveUp(s) ==
    /\ conn[s] = "reconnecting" /\ ~nats
    /\ conn' = [conn EXCEPT ![s] = "closed"]
    /\ UNCHANGED <<infra, phase, todo, pool, cons, torn, traffic, keys, faults>>

DbDown(d) ==
    /\ d \in db /\ Fault
    /\ db' = db \ {d}
    /\ UNCHANGED <<nats, streams, schema, process, traffic, keys>>

DbUp(d) ==
    /\ d \notin db
    /\ db' = db \cup {d}
    /\ UNCHANGED <<nats, streams, schema, process, traffic, keys, faults>>

----------------------------------------------------------------------------
(* Requests.                                                               *)

\* The HTTP listener is open until Shutdown is called, the gRPC listener until
\* GracefulStop is.
AcceptsHTTP(s) == phase[s] = "serve" \/ Runs(s, "stop", "grpc")
AcceptsRPC(s) == phase[s] = "serve"

SetRequest(s, http, rpc) ==
    /\ request' = [request EXCEPT ![s] = [http |-> http, rpc |-> rpc]]
    /\ UNCHANGED <<infra, process, keys, late, faults>>

SetHTTP(s, http) == SetRequest(s, http, request[s].rpc)
SetRPC(s, rpc) == SetRequest(s, request[s].http, rpc)

Accept(s) == AcceptsHTTP(s) /\ request[s].http = "none" /\ SetHTTP(s, "handling")
Call(s) == AcceptsRPC(s) /\ ~request[s].rpc /\ SetRPC(s, TRUE)

\* A pool that is being closed gives out no connection.
BeginTx(s) ==
    /\ request[s].http = "handling"
    /\ s \in pool /\ ~Runs(s, "stop", "pool")
    /\ SetHTTP(s, "inTx")

EndTx(s) == request[s].http = "inTx" /\ SetHTTP(s, "handling")
Answer(s) == request[s].http = "handling" /\ SetHTTP(s, "none")
Return(s) == request[s].rpc /\ SetRPC(s, FALSE)

----------------------------------------------------------------------------
(* Stop.                                                                   *)

\* SIGTERM cancels the context: the consumers return.
Stop(s) ==
    /\ phase[s] = "serve" /\ Fault
    /\ phase' = [phase EXCEPT ![s] = "stop"]
    /\ todo' = [todo EXCEPT ![s] = Program[s].stop]
    /\ SetConsumers(s, "off")
    /\ UNCHANGED <<infra, conn, pool, torn, traffic, keys>>

\* A listener fails: Serve returns at once and only the deferred calls run.
ServerFails(s) ==
    /\ s \in Clients /\ phase[s] = "serve" /\ Fault
    /\ phase' = [phase EXCEPT ![s] = "stop"]
    /\ todo' = [todo EXCEPT ![s] = <<"nats", "pool">>]
    /\ late' = late \cup {s}
    /\ UNCHANGED <<infra, conn, pool, cons, torn, keys, request>>

Working(s) == IF s \in Clients THEN request[s] ELSE Quiet

\* GracefulStop waits for the calls, without a limit.
StopGRPC(s) ==
    /\ Runs(s, "stop", "grpc")
    /\ ~Working(s).rpc
    /\ Done(s)
    /\ UNCHANGED <<infra, phase, conn, pool, cons, torn, traffic, keys, faults>>

StopHTTP(s) ==
    /\ Runs(s, "stop", "http")
    /\ Working(s).http = "none"
    /\ Done(s)
    /\ UNCHANGED <<infra, phase, conn, pool, cons, torn, traffic, keys, faults>>

\* Shutdown has waited for its ten seconds.
StopHTTPTimesOut(s) ==
    /\ Runs(s, "stop", "http")
    /\ Working(s).http # "none"
    /\ late' = late \cup {s}
    /\ Done(s)
    /\ UNCHANGED <<infra, phase, conn, pool, cons, torn, keys, request, faults>>

DrainNats(s) ==
    /\ Runs(s, "stop", "nats")
    /\ conn' = [conn EXCEPT ![s] = "none"]
    /\ Done(s)
    /\ UNCHANGED <<infra, phase, pool, cons, torn, traffic, keys, faults>>

\* Close waits for the connections that are in use.
ClosePool(s) ==
    /\ Runs(s, "stop", "pool")
    /\ Working(s).http # "inTx"
    /\ pool' = pool \ {s}
    /\ Done(s)
    /\ UNCHANGED <<infra, phase, conn, cons, torn, traffic, keys, faults>>

Stopped(s) ==
    /\ phase[s] = "stop" /\ todo[s] = <<>>
    /\ Exit(s)
    /\ UNCHANGED <<infra, faults>>

Finish(s) ==
    \/ StopGRPC(s) \/ StopHTTP(s) \/ StopHTTPTimesOut(s)
    \/ DrainNats(s) \/ ClosePool(s) \/ Stopped(s)

\* The process is killed; SIGTERM does that too until Serve listens to it.
Kill(s) ==
    /\ phase[s] \notin {"absent", "down"} /\ Fault
    /\ Exit(s)
    /\ UNCHANGED infra

----------------------------------------------------------------------------

Next ==
    \/ NatsDown \/ NatsUp \/ RotateKey \/ RefreshKey
    \/ \E d \in Servers : DbDown(d) \/ DbUp(d)
    \/ \E c \in Consumers : StartConsumer(c) \/ StartConsumerFails(c)
    \/ \E s \in Clients :
          Accept(s) \/ Call(s) \/ BeginTx(s) \/ EndTx(s) \/ Answer(s) \/ Return(s)
    \/ \E s \in Services :
          \/ Boot(s) \/ MigrateSlowly(s) \/ Reconnect(s) \/ GiveUp(s)
          \/ Stop(s) \/ ServerFails(s) \/ Finish(s) \/ Kill(s)

(***************************************************************************)
(* Processes, goroutines and handlers go on, the orchestrator starts what  *)
(* ended and the servers it runs come back, and a client that can reconnect*)
(* does.  Faults, requests and slow migrations are free.                   *)
(***************************************************************************)
Spec ==
    /\ Init /\ [][Next]_vars
    /\ WF_vars(NatsUp) /\ WF_vars(RefreshKey)
    /\ \A d \in Servers : WF_vars(DbUp(d))
    /\ \A s \in Services : WF_vars(Boot(s)) /\ WF_vars(Finish(s)) /\ WF_vars(Reconnect(s))
    /\ \A s \in Clients : WF_vars(EndTx(s)) /\ WF_vars(Return(s))
    /\ \A c \in Consumers : WF_vars(StartConsumer(c) \/ StartConsumerFails(c))

----------------------------------------------------------------------------
(* Properties.                                                             *)

Delivers(c) == cons[c] = "running" /\ conn[Consumer[c].in] = "connected"

\* What /health reports.
CheckDb(s) == Server(s) \in db
CheckNats(s) == conn[s] = "connected"
Checks(s) == IF s = "notification" THEN {CheckNats(s)} ELSE {CheckNats(s), CheckDb(s)}
Healthy(s) == \A ok \in Checks(s) : ok

(***************************************************************************)
(* A request never finds the pool closed under it, neither while the       *)
(* process starts nor while it stops: the servers stop before the deferred *)
(* calls of Serve run.  The exceptions are a request that outlives the ten *)
(* seconds of Shutdown, and a listener that failed.                        *)
(***************************************************************************)
PoolOutlivesRequests ==
    \A s \in Clients : request[s] # Quiet => s \in pool \/ s \in late

(***************************************************************************)
(* A process that reports itself healthy on /health has its consumers, in  *)
(* whatever order the services are started: no consumer is started before  *)
(* its stream exists.  The exception is a process that lost NATS at some   *)
(* time: a start that fails then is logged at most, and /health is silent  *)
(* about it when the connection is back.                                   *)
(***************************************************************************)
DeafOnlyAfterOutage ==
    \A c \in Consumers :
        LET s == Consumer[c].in IN
        phase[s] = "serve" /\ Healthy(s) => Delivers(c) \/ Starting(c) \/ s \in torn

\* A migration that was interrupted is refused at every later start.
Blocked(s) ==
    \/ schema[s] = "dirty"
    \/ s = "subscription" /\ schema["auth"] = "dirty"

(***************************************************************************)
(* No cycle of dependencies, and no outage, keeps the system from serving: *)
(* every process serves in the end, unless a migration was interrupted,    *)
(* its own or that of the auth service, whose key the subscription service *)
(* needs.                                                                  *)
(***************************************************************************)
EveryServiceServes ==
    \A s \in Services : <>[](phase[s] \in {"absent", "serve"} \/ Blocked(s))

(***************************************************************************)
(* After any outage or restart each consumer gets its messages again, with *)
(* two exceptions: a connection the client has given up, and a consumer    *)
(* whose failed start was only logged.  The process reports itself alive   *)
(* in both cases, and nothing restarts it.                                 *)
(***************************************************************************)
DeliveryResumes ==
    \A c \in Consumers :
        LET s == Consumer[c].in IN
        <>[]( \/ Delivers(c) \/ phase[s] = "absent"
              \/ Blocked(s)
              \/ conn[s] = "closed"
              \/ c # "mail" /\ cons[c] = "dead" )
(***************************************************************************)
(* authclient.go:71: the ticker is there "so an auth-side key rotation is  *)
(* picked up without restarting subscription".  Whatever order the auth    *)
(* service is restarted in, with whatever key, and whichever fetches failed*)
(* meanwhile, the subscription service ends with the key that signs.       *)
(***************************************************************************)
RotationIsPickedUp ==
    <>[](phase["subscription"] = "absent" \/ Blocked("subscription") \/ cached = signer)
=============================================================================
