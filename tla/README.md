# GitHub release notifications: a TLA+ verification project

The repository is a set of four Go services, a React single-page frontend and
an nginx edge that let a user subscribe to the releases of a GitHub repository
by e-mail. This directory models the parts in which goroutines, messages,
transactions or browser tabs meet, checks them with TLC on small instances, and
proves the central facts for every instance with TLAPS.

Paths below are relative to the repository; `PROJECT.json` maps each definition
to the lines it stands for.

## 1. Inventory

| Component | State it keeps | Operations | Modelled by |
|---|---|---|---|
| Subscription use cases, catalog (`services/subscription/internal/subscription`, `internal/catalog`) | tables `repositories`, `subscriptions` | `Subscribe`, `Confirm`, `Unsubscribe`, `Ensure`, `DeleteIfOrphaned`; read-only lists | `SubscribeSaga` |
| Subscribe saga (`internal/saga`) | table `subscribe_sagas` | `HandleEmailSent`, `HandleEmailFailed`, `HandleConfirmed`, `reap`, `compensate` | `SubscribeSaga`, `SubscriptionLifecycle` |
| Outbox relays (`subscription/internal/outbox`, `monitoring/internal/relay`, `auth/internal/outbox`) | tables `outbox` (two databases), `monitoring_outbox` | insert with a state change, `publishPending` | `OutboxRelay`, `ReliableOutbox` |
| Notification service (`services/notification`) | none of its own; delivery state of its NATS consumer | mail, Ack, Nak, dead letter, reply to the saga | `NotificationConsumer`, `JetStreamConsumer` |
| Release scanner (`services/monitoring`) | table `scan_cursors` | `runOneScan`, `processRepository`, `seedCursor` | `ReleaseScan` |
| Fan-out (`subscription/internal/fanout`) | outbox rows, `repositories.last_seen_tag` | `handleReleaseFound` | `ReleaseFanout`, `JetStreamConsumer` |
| Auth service (`services/auth`) | tables `users`, `email_verifications`, `refresh_tokens` | `Register`, `VerifyEmail`, `Login`, `Refresh`, `Logout` | `AuthSession`, `LoginSessions` |
| Frontend session (`frontend/src/auth`) | the token pair in `localStorage` | `authedFetch`, login, logout | `AuthSession` |
| Start and shutdown (`subscription/internal/app`, `auth/internal/app`, `cmd/*/main.go`) | connections, pools, consumers, servers | `Build`, `Serve`, `run`, the deferred calls | `ServiceRuntime` |
| Migrations runner (`*/internal/db/migrator.go`) | `schema_migrations` | `Migrate` | `ServiceRuntime` |
| Signing key cache (`subscription/internal/authclient`) | one public key | `Load`, ticker | `ServiceRuntime` |
| Health checks, dead letter inspector | none | `/health`, log and Ack | `ServiceRuntime` |
| Mailer (`notification/internal/mailer`) | none | `sendOne` | `NotificationConsumer` (`SendOne`) |
| HTTP handlers, JWT middleware, gRPC handlers, GitHub clients | none | decode, call a use case, map its error | as the outcomes of the steps they call; see section 6 |

How they interact. Users reach the subscription and auth services by HTTP.
Monitoring asks the subscription service for its repositories by gRPC;
subscription asks auth for its public key by gRPC. Everything else is a row in
an outbox that a relay publishes to JetStream: `ConfirmationRequested`,
`ReleaseDetected` and `VerificationRequested` go to `NOTIFICATIONS` (one stream
for the relays of subscription and auth), `ReleaseFound` goes to `RELEASES`, the
notification service answers in `SAGA` and leaves dead letters in
`NOTIFICATIONS_DLQ`. Subscription and monitoring share one database, auth has
its own.

What is hard, and what has to hold nevertheless:

* **Saga and use cases.** Requests, reply consumers and reapers of several
  replicas interleave between transactions; replies come never, twice, late or
  out of order; confirm and the saga's completion are two transactions, and so
  are COMPENSATING and the compensation; Ensure and the orphan check run outside
  the transactions that insert and delete subscriptions. A confirmation must
  never be undone, a pending row must never be without a saga that ends it, a
  verdict must be final, a repository must exist as long as it is wanted.
* **Relays.** Replicas poll one table; a transaction may be lost while its relay
  publishes; equal row ids of two services meet in one stream. No event may be
  marked that is not in the stream, and duplicates must be paid for by faults.
* **Notification.** At-least-once delivery meets non-idempotent mail. A message
  may leave the queue only when it was handled, and the client's idea of the
  last delivery must agree with the server's.
* **Scanner.** Decisions rest on a snapshot; one rate limit cancels all
  goroutines of a pass. Cursor and announcement must move together, and a
  release that stays must be announced once.
* **Fan-out.** Recipients are read before the transaction; redelivery repeats
  the whole handler. Nobody who was subscribed all the time may be left out, and
  nobody told who was not.
* **Start and shutdown.** Services start in any order and need each other's
  streams and keys; a consumer's goroutine that fails to start is only logged;
  NATS and the databases go away and come back; servers, NATS and pool are
  released in an order while requests are still running. A request must never
  find the pool closed, a healthy process must have its consumers, and no cycle
  of needs may keep the system from serving.
* **Session.** Tabs share `localStorage`, and refresh tokens are used once. A
  login must not have two live tokens, and the browser must not be left with a
  revoked one.

## 2. The modules

`SubscribeSaga` — one action is one database transaction or one autocommitted
statement. `job[p]` is what a goroutine will do next with the values it has
read, so everything may happen in between: `SubscribeFind`, `SubscribeCreate`,
`SubscribeRefind` and `SubscribeInsert` are `Subscribe.Execute` with `Ensure`;
`ConfirmUpdate` and `HandleConfirmed` are `Confirm.Execute`; `UnsubscribeFind`
and `UnsubscribeDelete` are `Unsubscribe.Execute`; `OrphanCheck` and
`OrphanDrop` are `DeleteIfOrphaned`; `Reap` is the transaction of `reap`;
`Compensate` that of `compensate`. `batch[w]` holds the sagas a worker committed
as COMPENSATING and has not compensated. Saga and subscription are inserted
together and share an id in the model. The statements of the stores are
operators with the names of their methods (`FindByFullName`, `CreateRepo`,
`ConfirmByToken`, `DeleteRepoByID`, `UpdateState` ...), and the actions call
them. `RequestFails` is any error or cancellation that ends a request. The mail and the replies are the
environment: a confirmation link works for a subscription whose mail arrived, an
unsubscribe link for one that was confirmed at some time, and replies to a saga
arrive any number of times in any order. `DELETE` of a repository cascades.

`SubscriptionLifecycle` — what a reader of the two tables may see: a pending row
is confirmed, or deleted in the very step that ends its saga as FAILED;
COMPLETED is written when no pending row is left; a verdict never changes.

`OutboxRelay` — the three relays as one program. `Fetch` opens the transaction
and locks a batch (SKIP LOCKED), `PublishOk` and `PublishFails` walk through it,
`Finish` marks and commits. `LoseTransaction` drops the locks under the relay,
which only notices in `FinishLost`; `Crash` also stands for a failed
`MarkPublished` or `Commit`. The stream keeps a `window` of Msg-Ids that may
expire at any time, which includes the two minutes of the server.

`ReliableOutbox` — the promise of a transactional outbox: accepted events are
delivered, and retired only afterwards; no order, no single delivery.

`JetStreamConsumer` — a durable consumer with explicit acknowledgement and
`MaxDeliver`, in the form both services configure it. It is external: the
modules take its operators and define `queue` themselves. Assumed: any copy's
Ack removes the message; a Nak after the last delivery has no effect.

`NotificationConsumer` — `Process` is `processMessage` with `decideAction`; the
`SendOne` is the SMTP conversation, in which a server may accept the mail and the
answer may be lost. The rest of the callback is one action per effect: `Ack`, `Nak`, `ToDLQ`, `DLQAck`,
`PublishEmailSent`, `PublishEmailFailed`. A replica may stop between any two.

`ReleaseScan` — `ListTracked` takes the snapshot `todo`, `GetLatestTag` turns an
entry into an answer, `SeedCursor`, `Announce` or `Unchanged` deal with it,
`RateLimited` cancels the context (`limited`), `EndOfPass` is `wg.Wait`. The
cursors are read one by one in the code; since each decision depends on its own
cursor only, the model reads them together (`Snapshot`). The limit of ten
goroutines is left out: the model allows any order of requests. Several scanner
processes may run; `overlap` remembers that two of them did at the same time.

`ReleaseFanout` — `Process` reads the recipients, `CommitRows` is the
transaction, `CommitFails` includes a Commit that took effect and returned an
error. `steady` remembers who has been confirmed ever since a release was
published, `wanted` who was confirmed then or at any time since.

`ServiceRuntime` — the four processes around their business code. A process
runs a script: `SubscriptionBuild` and `SubscriptionServe` are `Build` and
`Serve` of the subscription service, `AuthBuild` and `AuthServe` those of auth,
`MonitoringRun` and `NotificationRun` the `run` functions. Each step of a script
is an action (`MigrateBegin`, `OpenPool`, `ConnectNats`, `EnsureStream`,
`LoadKeys`, ...) that succeeds or, when what it needs is missing, ends the
process (`BootFails`). `Serve` starts the consumers, each of which subscribes on
its own: for all but the mail consumer a failure is logged and the goroutine is
gone (`StartConsumerFails`). The second half of a script is the shutdown:
`StopGRPC` waits for its calls, `StopHTTP` for ten seconds at most, then the
deferred calls run in reverse. The migrator, the pool and the health check exist
once in every service with the same code; one action stands for all copies. The
services influence each other only through NATS, a database server or the
signing key, so the model looks at two deployments, auth with subscription and
auth with monitoring and notification.

`AuthSession` — the token tables and the browser together. A pair is an access
and a refresh token. A refresh is `RefreshLock` (SELECT ... FOR UPDATE) and
`RefreshCommit`, so that a second refresh or a logout can meet the lock.
`authedFetch` is `Ask`, `AnswerOk` or `AnswerExpired`, then `TakePair` or
`ClearRefused`, then the second attempt; a page that gets a 401 logs out
(`PageLogout`), as `Profile.jsx` does. An HTTP 500 of the refresh is a refusal
for the browser (`RefreshFails`, `HandleError`), a broken connection is an
exception (`AnswerLost`). The conditions of the use cases have the names they
serve (`EmailIsFree`, `UsableLink`, `EmailVerified`, `Accepted`).

`LoginSessions` — what the refresh tokens of a login promise, without calls,
locks, the browser or faults: a login is a chain of tokens of which the last one
can be exchanged, and a chain that has ended stays ended. In `AuthSession` the
chain of a login is the set of tokens with its number in `login`; the token it
may exchange is the live one (`LiveTokens`), the tokens handed out are `Issued`.

Definitions marked "Faulty variant" are not used by any specification. Each is
the form a definition would have after a plausible mistake in the code; with it
in place the property named in `PROJECT.json` fails, which shows that the
property watches that mistake.

## 3. Runs

All runs finish within five minutes on two cores.

| Run | Expect | What it shows |
|---|---|---|
| `saga_safety` | pass | No confirmation is undone (`FailedNeverConfirmed`), no pending row loses its saga (`PendingHasOpenSaga`), one goroutine compensates a saga (`OneCompensator`), verdicts are final (`TerminalIsFinal`), nothing is leaked without a fault (`NoLeakedRepository`), and the tables follow `SubscriptionLifecycle` |
| `saga_recovery` | pass | Every saga is decided although replies are lost, two statements fail and the service crashes; a confirmed subscription's saga becomes COMPLETED although one statement fails, whichever it is (a second failure or a crash may prevent it, see finding 1); without a fault a compensation is finished |
| `saga_stuck` | violation | A crash after COMPENSATING leaves saga and pending row for ever |
| `saga_cascade` | violation | A subscription inserted between orphan check and DELETE is deleted with the repository |
| `relay` | pass | Two services, two replicas each: marked rows are stored, duplicates need faults, and the relays implement `ReliableOutbox` with its liveness |
| `notif` | pass | Acknowledged means handled, giving up happens on the last delivery only, surplus mails need faults, messages settle, confirmations are answered |
| `notif_stranded` | violation | A stop or a failed dead letter during the last delivery leaves a message without dead letter |
| `scan` | pass | A release is announced twice in a row only after two scanners have run at the same time, cursor and event of a scanner that is alone move together, and what GitHub answers for good, a release or none, is remembered in any case |
| `fanout` | pass | Steady subscribers get a row; those who were not confirmed at the publication or since do not, be they pending or gone before; surplus rows and lost releases need faults |
| `runtime` | pass | No request loses its pool (`PoolOutlivesRequests`), a healthy process has its consumers unless it lost NATS before (`DeafOnlyAfterOutage`), every service serves in the end (`EveryServiceServes`), messages flow again after an outage (`DeliveryResumes`) and a new signing key is picked up (`RotationIsPickedUp`), each with the exceptions the code makes |
| `session` | pass | One live refresh token per login (`OneLiveTokenPerLogin`), the tokens of a login are a chain that is not revived (`ImplementsSessions`), no revoked token is kept without a fault (`StoredPairIsBacked`), every call returns |
| `session_refused` | violation | Two concurrent refreshes: the loser wipes the winner's tokens |

### Bounds

* `saga_safety`: two addresses, one name, two repository ids, two subscriptions,
  two requests, one reply consumer, one reaper with batches of two, one failing
  statement, one crash. Two requests are enough for each race of the code, since
  each is between one writer and one stale reader; a second repository id lets a
  name come back after its deletion. Symmetry over ids, addresses and requests;
  no liveness is checked there. `saga_recovery` has one address, which subscribes
  again while the saga of its first subscription is still open, one request, and
  batches of one, so that a reaper leaves something over. It has two failing
  statements, because one is repaired and two are not: `HandleConfirmed` and then
  the reaper's compensation. `MaxErrors` and `MaxCrashes`
  bound faults, the id sets bound the sequences; `IdsLeft` keeps
  `NoLeakedRepository` from judging states in which a request cannot go on only
  because ids ran out.
* `relay`: two rows in each of two tables with equal ids, batches of two, one
  fault. `MaxId` bounds the sequence, `MaxFaults` the faults.
* `notif`: a confirmation and a poison message, `MaxDeliver` 3 (5 in the code:
  only first, middle and last delivery differ), three faults. The other mails
  behave as a confirmation that nobody waits for. `notif_stranded` has 2.
* `scan`: two repositories (a rate limit of one hits the other), two tags, any
  of which or none may be the latest one at the start, a change on GitHub
  (`MaxReleases`), one fault. `MaxShared` = 1: while two scanners run there is
  one tracked repository, which suffices because they meet at one cursor only.
* `fanout`: a release and a poison message, two subscribers, two replicas,
  `MaxDeliver` 2 and two faults, so that a release may be lost.
* `runtime`: two deployments, requests at the subscription service, two faults
  (`MaxFaults`), that is outages, kills, orders to stop and new keys: one fault
  to bring a process into a state and a second one to hit it there.
* `session`: two activities, three pairs (login, refresh, refresh or second
  login), one fault. `EveryCallReturns` is judged while pairs are left.

`CHECK_DEADLOCK FALSE` stands where a finite workload may be finished: all rows
relayed, all messages settled, all pairs issued.

### Fairness

* Saga: weak fairness on the steps that continue a request or a compensation
  (goroutines are scheduled) and on the passing of deadlines; strong fairness on
  a reaper taking a given expired saga, since the ticker fires every 30 s, but a
  row may be locked or the reaper busy at times. None for users, mail, replies
  or faults.
* Relays: weak fairness on each relay (a ticker and a running loop).
* Consumers: the server delivers what is due, AckWait runs out, a callback goes
  on. This assumes that SMTP calls return: the mailer sets no deadline.
* Scanner: a stopped process is restarted, the ticker fires, and a pass goes on,
  since its HTTP and gRPC calls have timeouts.
* Runtime: the orchestrator starts a process that ended (`restart:
  unless-stopped` in `compose.yaml`), NATS and the databases come back, the NATS
  client reconnects unless it has given up, the key ticker fires, goroutines and
  handlers go on. Requests, faults and slow migrations are free.
* Session: the service answers and the browser continues; time and users are
  free.

## 4. Findings

1. **A compensation can be abandoned** (`saga_stuck`; `orchestrator.go:77`).
   COMPENSATING is committed before the compensation. If the service stops in
   between, redelivery and reaper both look for STARTED and
   AWAITING_CONFIRMATION only, and the pending row blocks a new subscription.
   A compensation transaction that fails does the same without a crash: the
   reaper only logs it (`reaper.go:69-72`). If `HandleConfirmed` (`confirm.go:38`)
   had failed before, the row is confirmed and its saga stays COMPENSATING; only
   another click on the confirmation link completes it.
2. **A fresh subscription can be deleted by an orphan check**
   (`saga_cascade`; `delete_orphaned.go:33`). The check and the DELETE are two
   statements, and the foreign key cascades. The saga of the deleted row ends as
   COMPLETED, because `compensate` takes a missing pending row for a
   confirmation (`orchestrator.go:101`).
3. **A max-retry message may miss the DLQ** (`notif_stranded`;
   `consumer.go:202`). A Nak after the last delivery brings nothing back.
4. **Concurrent refreshes log the user out** (`session_refused`;
   `authedFetch.js:30`).

Also met while modelling, without a run: `HandleConfirmed` takes a saga from
STARTED straight to COMPLETED when the link is clicked before EmailSent is
handled, an edge that the diagram of `docs/SDD.md:273-284` does not have;
EmailFailed can follow a delivery that did put the mail into the mailbox, while
`docs/SDD.md:166` calls it "permanently undeliverable";
`repositories.last_seen_tag` is written by the fan-out (`worker.go:100`), while
`docs/SDD.md:543` says that it "is never written". Two scanners, as during a
rolling update of `deploy/k8s/monitoring/deployment.yaml` (which sets no
strategy), can announce a release twice, since a pass overwrites the cursor
without comparing it (`cursors.go:45-61`); `docs/SDD.md:551` asks for a single
replica for that reason, and `RepeatNeedsOverlap` says that nothing else causes
it. A fan-out or saga consumer that cannot start is logged once
(`app.go:230-239`), and a NATS client that used up its reconnects stays closed,
while the process reports itself alive; `docs/ADR/0004:38` promises that events
are "redelivered on reconnect". `DeliveryResumes` has both as
exceptions, besides a service that an interrupted migration keeps from starting. An auth service blocked by a dirty migration keeps the subscription
service from starting, although its own migrations are fine.

## 5. What is proved

For every value of the constants that meets the ASSUMEs of the modules
(disjoint process sets, names and tags that differ from the markers, natural
bounds, positive batch sizes):

* **`SubscribeSaga_proofs`**: `TypeCorrect`, `ConfirmationIsNeverUndone`,
  `NoAbandonedPendingRow`, `SingleCompensator`, `VerdictsAreFinal`, and
  `Refinement` (the service implements `SubscriptionLifecycle`). None of these
  is inductive alone. The invariant `IInv` adds that a row and its saga exist
  together (`RowsHaveSagas`), that a confirmation leaves the row confirmed until
  it is deleted (`ConfirmedStays`), and that `HandleConfirmed` is only reached
  after the confirmation was committed (`AdvanceAfterConfirm`). The core of the
  argument is `OneCompensator`: the step to COMPENSATING puts a saga into one
  batch, no other step takes it from there, so `compensate` may write its
  verdict without reading the saga again, and it writes FAILED only in the
  transaction that deleted a pending, hence never confirmed, row. There is one
  lemma per action; `StepRefines` maps each action to a step of the life cycle
  or to a stutter.

  `OrphansAreTended` (`NoLeakedRepository`) follows a repository without
  subscribers to the goroutine that will insert into it or check it. `LeakInv`
  adds only that an unsubscription holds the repository of the row it deletes
  (`DeletesKnowTheirRepo`); the work is in the interleavings, since the DELETE,
  the orphan check and Ensure each see the tables of another moment. The lemmas
  divide the actions by what they do to an orphan: `TendingStep` for those that
  create one and take it on, `BystanderStep` for those that touch none,
  `ReadingStep` for those that only read, `FaultyStep` for the rest.

  Two more theorems are what safety can say about `CompensationEnds`.
  `CompensationsAreInHand`: without a fault every COMPENSATING saga is on the
  list of a worker. `GoroutinesEnd`: each step of a goroutine leaves it fewer
  statements (`StatementsLeft`), and a worker takes no sagas before it is done
  with the old ones.
* **`OutboxRelay_proofs`**: `RelayTypeCorrect`, `NoEventIsLost`
  (`MarkedIsStored`) and `RelaysImplementOutbox`, the safety part of
  `ImplementsOutbox`. `IInv` says why a relay may believe its own list:
  published rows are stored (`SentIsStored`), and a Msg-Id in the deduplication
  window belongs to a row that is stored (`WindowIsStored`). The latter rests on
  `KeysAreDistinct`: two rows never share stream and Msg-Id, thanks to the
  prefixes. `LocksExclude` and `FetchedIsCommitted` carry the refinement, which
  needs that only committed rows are delivered and that a row is not delivered
  again once retired, unless it was before. `DuplicatesArePaidFor`
  (`DuplicatesNeedFaults`) is a count. `Budget` gives each row an account: its
  messages, the relays whose batch holds it (`Holders`) and the relay that
  will fetch it (`Refetchable`) exceed the faults by one at most. A fetch turns
  the claim of a free row into that of a relay, a publish turns the latter into
  a message, and only a failed Publish, a lost transaction or a crash opens a
  claim again. The set of relays may be infinite; that the holders are finitely
  many is part of the invariant.
* **`NotificationConsumer_proofs`**: `TypeCorrect`, `NoMessageIsDropped`
  (`AckedIsHandled`), `GivingUpIsLate` (`GivingUpIsLastResort`) and
  `SurplusMailsAreFaults` (`DuplicateMailNeedsFault`). The first two follow the
  copies of a message: the number of a copy never exceeds the server's count
  (`CopiesAreCounted`), so a callback whose number is `MaxDeliver` knows that
  there will be no other, and a callback on its way to an Ack has its mail or
  its dead letter behind it (`AckingIsHandled`, `GivingUpIsLast`). The last one
  is a count: `Budget` says that the mails of a message and the copies of it
  that may still lead to a mail exceed the faults by one at most, and not at all
  while the server is going to deliver the message without another fault
  (`Open`). A delivery turns that claim into a copy, a mail uses its copy up. `OneHolder` makes copies countable: each is with
  one replica and there in one place.

  `NoMessageIsStranded` is what safety can say about `EveryMessageSettles` and
  `EveryConfirmationAnswered`: while nothing fails, a message is due for a
  delivery the server can still make, is with a replica, or is acknowledged and
  its reply sent or about to be. `FlowInv` adds that the copy of a replica is the
  one the server counted last (`OneCopyWithoutFaults`) and that a Nak is never
  the answer to the last delivery (`NakIsNotLast`), so a Nak always brings the
  message back. It relates two numbers of two programs, the maxDeliver of
  `decideAction` and the MaxDeliver of the server: with `>` in place of `>=` the
  proof fails.
* **`ReleaseScan_proofs`**: `TypeCorrect`, `NoReleaseIsRepeated`
  (`RepeatNeedsOverlap`) and `CursorMovesWithItsEvent`
  (`CursorAndEventsMoveTogether`). Decisions rest on a snapshot, so the
  invariant says when a snapshot is right: unless two scanners have overlapped
  one of them runs (`OneScanner`), each entry of its snapshot and each answer it
  has not dealt with carries the cursor that is still stored, and there is one
  entry or answer per repository (`SnapshotIsCurrent`); the cursor is the last
  announcement (`CursorIsLast`). So the comparison in `HasNewRelease` is one
  with the last announcement.
* **`ReleaseFanout_proofs`**: `TypeCorrect`, `NobodySteadyIsLeftOut`
  (`SteadySubscribersAreNotified`) and `OnlySubscribersAreTold`
  (`OnlyTheConfirmedAreTold`). Recipients are read before the transaction, and
  people come and go in between: `RecipientsHold` says that the list a callback
  holds contains all who were confirmed ever since the publication and only such
  who were confirmed at some time since, `HistoryHolds` that the confirmed of any
  moment lie between the two, and `AckingIsNotified` that an Ack has the rows
  behind it.
  `SurplusRowsArePaidFor` (`SurplusRowsNeedFaults`) is an account as in the
  relay: rows of a subscriber, deliveries that wait in a client (`Waiting`),
  callbacks that will write or hand back (`Holders`) and the open message
  (`Open`) exceed the faults by one at most. `CopiesAreCounted` says that a
  delivery is with one replica and its number within the server's count, which
  makes a new one distinct from all that wait.
* **`AuthSession_proofs`**: `TypeCorrect`, `RotationIsSingleUse`
  (`OneLiveTokenPerLogin`) and `StorageIsBacked` (`StoredPairIsBacked`).
  `TokenInv` is about the service: the owner of a row lock finds its token live
  when it commits (`LockedIsLive`, `LocksExclude`), so revocation and successor
  are one step. `BrowserInv` is about the browser: a pair on its way to
  `localStorage` is known to its call only, hence nobody can have had it revoked
  (`NewIsPrivate`), and without a fault whoever has a stored pair revoked is the
  call that is about to replace or clear it. `SessionsAreChains`
  (`ImplementsSessions`) maps each action to a step of `LoginSessions` or to a
  stutter: a login opens a chain, the commit of a refresh is a rotation because
  the lock kept its token live, a logout or the expiry of the live token ends
  the chain, and everything else is invisible. `NoCallLoops` is the safety part
  of `EveryCallReturns`: each step of a call lowers `StepsLeft`, so
  `authedFetch` retries, refreshes and logs out once at most.
* **`ServiceRuntime_proofs`**: `TypeCorrect`, `NoRequestLosesItsPool`
  (`PoolOutlivesRequests`) and `HealthyConsumersDeliver`
  (`DeafOnlyAfterOutage`). `ClientInv` follows a process through its scripts:
  "pool" is ahead in the boot script or the pool is open, nothing is accepted
  before `Serve`, and each remainder of the shutdown says which listeners are
  closed and that the pool is open until the last step, where no request is left
  but those of a late service.
  `ConsumerInv` says the same of what a consumer needs: the stream and the
  connection are there or ahead in the boot script of its own process, so the
  theorem holds whichever services are deployed and in whatever order they
  start.

Each of these invariants was checked by TLC on the instances of section 3 before
it was proved. The proofs assume nothing of the processes but that they are
different from each other: replicas, relays, requests and tabs may be infinitely
many.

Every safety property of the passing runs, and both refinements without
liveness, are theorems. What is only model-checked is liveness, and the liveness
half of `ImplementsOutbox`: the prover has no rules for ENABLED and fairness.
For `CompensationEnds`, `EveryMessageSettles`, `EveryConfirmationAnswered` and
`EveryCallReturns` the part that is not about fairness is proved, as said above
(nothing gets lost between two owners, and no owner goes round in circles); that
the next step is enabled, and taken, remains with TLC. The four runs that
expect a violation show executions and have nothing to prove.

## 6. What is not modelled

* Age and size limits of the streams, and the acknowledgement of messages with
  an unknown subject.
* A mail server that never answers: the mailer sets no deadline, so a replica
  would wait for ever and no liveness property could hold.
* What the HTTP and gRPC layers do besides calling a use case and mapping its
  error: decoding, validation, templates, JSON; the generated code.
* Passwords and signatures: a token is its number, a key its version.
* Configuration, TLS, metrics, logging, deployment files, load and end-to-end
  tests; the pages of the frontend that only render or send one request.
* The order in which the fan-out writes `repositories.last_seen_tag` for two
  releases: a redelivered older release may overwrite a newer one, which a list
  request shows. Nothing else reads the column.
* The rest of a user's life at the auth service: an address whose link expired
  stays taken, and nothing sends a second link. `AuthSession` has one user.

`PROJECT.json` gives the reason for each component.

## 7. Plan

Most important behaviour first; items 1 to 9, 12 and 13 are in place.

1. `SubscribeSaga`, `SubscriptionLifecycle`, proofs of safety and refinement.
2. `OutboxRelay`, `ReliableOutbox`, proofs of safety and refinement.
3. `JetStreamConsumer`, `NotificationConsumer`.
4. `ReleaseScan`.
5. `ReleaseFanout`.
6. `AuthSession`, service and browser together.
7. Runs, faulty variants and findings for each.
8. `ServiceRuntime`: start, outages, shutdown and the signing key.
9. Proofs of the safety of the notification consumer, the scanner, the fan-out,
   the session and the runtime.
10. Composition `SubscribePipeline`: saga, relay and notification consumer joined
    by the outbox and the stream `SAGA`, as an implementation of a contract "a
    subscribe attempt is confirmed or withdrawn, and the user was asked", to see
    which of the environment's liberties in `SubscribeSaga` are real.
11. Composition `ReleasePipeline`: scanner, relay, fan-out and notification as an
    implementation of "each steady subscriber is told of a release at least
    once", with the deduplication of `mon-` ids and subscribers that come and go.
12. `LoginSessions`, an abstract session specification that `AuthSession`
    refines, with the proof.
13. Proofs of the surplus bounds of relay and fan-out, of `NoLeakedRepository`,
    of `DeafOnlyAfterOutage`, and of the safety parts of the liveness properties
    of saga, notification consumer and session.
14. The safety parts of the other liveness properties: `EverySagaIsDecided`,
    `EveryServiceServes`, and those of scanner and fan-out.
