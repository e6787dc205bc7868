--------------------------- MODULE SubscribeSaga ---------------------------
(***************************************************************************)
(* The subscription service: the tables repositories, subscriptions and    *)
(* subscribe_sagas, and every goroutine that writes them.                  *)
(*                                                                         *)
(*   - HTTP handlers run Subscribe, Confirm and Unsubscribe;               *)
(*   - saga reply consumers run HandleEmailSent and HandleEmailFailed;     *)
(*   - saga reapers run reap and CompensateExpired.                        *)
(*                                                                         *)
(* One action is one database transaction or one autocommitted statement:  *)
(* between two actions of one goroutine any other goroutine may run, the   *)
(* statement may fail, or the service may crash.  Rows of repositories and *)
(* subscriptions are identified by BIGSERIAL ids, which are never reused.  *)
(* The saga row is inserted in the transaction that inserts its            *)
(* subscription and points to it by id, so SubIds identifies both.         *)
(*                                                                         *)
(* The notification service is the environment here: it delivers the       *)
(* confirmation mail, or not, and its EmailSent and EmailFailed replies    *)
(* reach a consumer never, once or several times, in any order.            *)
(***************************************************************************)
EXTENDS Naturals, FiniteSets

CONSTANTS
    Emails,       \* subscriber addresses
    Names,        \* GitHub repository names, owner/repo
    RepoIds,      \* ids the repositories sequence can hand out
    SubIds,       \* ids the subscriptions sequence can hand out
    Handlers,     \* HTTP requests that can be in flight at once
    Consumers,    \* saga reply consumers, one per replica of the service
    Reapers,      \* saga reapers, one per replica of the service
    ReaperBatch,  \* reaperBatch: the LIMIT of FindExpiredForUpdate
    MaxErrors,    \* bound: statements that fail or requests that are cancelled
    MaxCrashes    \* bound: crashes of the whole service

ASSUME ProcessesAssumption ==
    /\ Handlers \cap Consumers = {}
    /\ Handlers \cap Reapers = {}
    /\ Consumers \cap Reapers = {}

ASSUME NamesAssumption == {"unused", "deleted"} \cap Names = {}

ASSUME BoundsAssumption ==
    /\ ReaperBatch \in Nat \ {0}
    /\ MaxErrors \in Nat
    /\ MaxCrashes \in Nat

Workers == Consumers \cup Reapers
Procs == Handlers \cup Workers

VARIABLES
    repos,         \* repositories: its name while the row exists
    row,           \* subscriptions: is the row there, and is it confirmed
    key,           \* the (email, repository_id) of a subscription and its saga
    saga,          \* subscribe_sagas.state
    expired,       \* sagas whose deadline_at is in the past
    mailed,        \* subscriptions whose confirmation link reached the user
    confirmedOnce, \* history: subscriptions that were confirmed at some time
    job,           \* what each goroutine does next
    batch,         \* sagas a worker moved to COMPENSATING and still compensates
    errors,        \* statements failed so far
    crashes        \* crashes so far

tables == <<repos, row, key, saga>>
history == <<expired, mailed, confirmedOnce>>
faults == <<errors, crashes>>
vars == <<tables, history, job, batch, faults>>

----------------------------------------------------------------------------
(* Types.                                                                  *)

\* The states of saga/store.go; "NONE" is a saga that is not inserted yet.
ActiveStates == {"STARTED", "AWAITING_CONFIRMATION"}
TerminalStates == {"COMPLETED", "FAILED"}
SagaStates == {"NONE", "COMPENSATING"} \cup ActiveStates \cup TerminalStates

RowStates == {"unused", "pending", "confirmed", "deleted"}
LiveRow(s) == row[s] \in {"pending", "confirmed"}

\* The columns email and repository_id; both tables keep the same values.
Keys == [email : Emails, repo : RepoIds]
NoKey == [email |-> "none"]

Idle == [pc |-> "idle"]

(***************************************************************************)
(* The suspended goroutines: what is left to do and the values read so far *)
(* that it will be done with.                                              *)
(***************************************************************************)
SubscribeJobs == [pc : {"create", "refind"}, email : Emails, name : Names]
                   \cup [pc : {"insert"}, email : Emails, repo : RepoIds]
ConfirmJobs == [pc : {"advance"}, sub : SubIds]
DeleteJobs == [pc : {"delete"}, sub : SubIds, repo : RepoIds]
CleanupJobs == [pc : {"check", "drop"}, repo : RepoIds]
Jobs == {Idle} \cup SubscribeJobs \cup ConfirmJobs \cup DeleteJobs \cup CleanupJobs

TypeOK ==
    /\ repos \in [RepoIds -> Names \cup {"unused", "deleted"}]
    /\ row \in [SubIds -> RowStates]
    /\ key \in [SubIds -> Keys \cup {NoKey}]
    /\ saga \in [SubIds -> SagaStates]
    /\ expired \subseteq SubIds
    /\ mailed \subseteq SubIds
    /\ confirmedOnce \subseteq SubIds
    /\ job \in [Procs -> Jobs]
    /\ batch \in [Workers -> SUBSET SubIds]
    /\ errors \in 0..MaxErrors
    /\ crashes \in 0..MaxCrashes

Init ==
    /\ repos = [r \in RepoIds |-> "unused"]
    /\ row = [s \in SubIds |-> "unused"]
    /\ key = [s \in SubIds |-> NoKey]
    /\ saga = [s \in SubIds |-> "NONE"]
    /\ expired = {} /\ mailed = {} /\ confirmedOnce = {}
    /\ job = [p \in Procs |-> Idle]
    /\ batch = [w \in Workers |-> {}]
    /\ errors = 0 /\ crashes = 0

\* Process p goes on with job j, or is done with the request.
Continue(p, j) == job' = [job EXCEPT ![p] = j]
Return(p) == Continue(p, Idle)

LiveRepo(r) == repos[r] \in Names

----------------------------------------------------------------------------
(* The statements of the three stores; a token names its subscription.     *)

FindByFullName(name) == {r \in RepoIds : repos[r] = name}
CreateRepo(r, name) == repos[r] = "unused" /\ repos' = [repos EXCEPT ![r] = name]

\* HasAnyByRepositoryID asks whether there are any.
Subscribers(r) == {s \in SubIds : LiveRow(s) /\ key[s].repo = r}

\* DELETE FROM repositories; ON DELETE CASCADE takes the subscriptions along.
DeleteRepoByID(r) ==
    /\ repos' = [repos EXCEPT ![r] = "deleted"]
    /\ row' = [s \in SubIds |-> IF s \in Subscribers(r) THEN "deleted" ELSE row[s]]

\* UPDATE ... SET confirmed = TRUE, whether or not it is TRUE already.
ConfirmByToken(s) == LiveRow(s) /\ row' = [row EXCEPT ![s] = "confirmed"]
FindByUnsubscribeToken(s) == IF LiveRow(s) THEN {key[s].repo} ELSE {}
DeleteByUnsubscribeToken(s) == LiveRow(s) /\ row' = [row EXCEPT ![s] = "deleted"]

\* DELETE ... AND confirmed = FALSE.
DeleteUnconfirmedSubscription(s) == row[s] = "pending" /\ row' = [row EXCEPT ![s] = "deleted"]

InsertSaga(s) == saga' = [saga EXCEPT ![s] = "STARTED"]
UpdateState(s, state) == saga' = [saga EXCEPT ![s] = state]

----------------------------------------------------------------------------
(* POST /subscribe: find or create the repository, each statement on its   *)
(* own, then one transaction for the subscription, the saga and the        *)
(* confirmation event.                                                     *)

\* The insert job of a request that knows its repository_id.
InsertJob(email, r) == [pc |-> "insert", email |-> email, repo |-> r]

\* Ensure's first statement, after the input and GitHub checks passed.
SubscribeFind(h, email, name) ==
    /\ job[h] = Idle
    /\ \/ \E r \in FindByFullName(name) : Continue(h, InsertJob(email, r))
       \/ /\ FindByFullName(name) = {}
          /\ Continue(h, [pc |-> "create", email |-> email, name |-> name])
    /\ UNCHANGED <<tables, history, batch, faults>>

\* INSERT INTO repositories: the unique name turns a lost race into a new find.
\* Once the sequence has no id left (a bound of the model) the INSERT fails.
SubscribeCreate(h) ==
    /\ job[h].pc = "create"
    /\ \/ /\ FindByFullName(job[h].name) # {}
          /\ Continue(h, [job[h] EXCEPT !.pc = "refind"])
          /\ UNCHANGED repos
       \/ /\ FindByFullName(job[h].name) = {}
          /\ \E r \in RepoIds :
               CreateRepo(r, job[h].name) /\ Continue(h, InsertJob(job[h].email, r))
       \/ /\ \A r \in RepoIds : repos[r] \notin {job[h].name, "unused"}
          /\ Return(h)
          /\ UNCHANGED repos
    /\ UNCHANGED <<row, key, saga, history, batch, faults>>

\* The find after a create conflict; the row may be gone again by now.
SubscribeRefind(h) ==
    /\ job[h].pc = "refind"
    /\ \/ \E r \in FindByFullName(job[h].name) : Continue(h, InsertJob(job[h].email, r))
       \/ FindByFullName(job[h].name) = {} /\ Return(h)
    /\ UNCHANGED <<tables, history, batch, faults>>

\* The foreign key and UNIQUE (email, repository_id) of the subscriptions table;
\* IdsLeft is the bound of the model on its sequence.
IdsLeft == \E s \in SubIds : row[s] = "unused"
CanInsert(email, r) ==
    /\ IdsLeft
    /\ LiveRepo(r)
    /\ \A s \in Subscribers(r) : key[s].email # email

\* createAndEnqueue: subscription, saga and outbox row, or nothing.  A token
\* conflict rolls back and tries again with fresh tokens: no step of the model.
SubscribeInsert(h) ==
    /\ job[h].pc = "insert"
    /\ \/ /\ CanInsert(job[h].email, job[h].repo)
          /\ \E s \in SubIds :
               /\ row[s] = "unused"
               /\ row' = [row EXCEPT ![s] = "pending"]
               /\ key' = [key EXCEPT ![s] = [email |-> job[h].email, repo |-> job[h].repo]]
               /\ InsertSaga(s)
       \/ ~CanInsert(job[h].email, job[h].repo) /\ UNCHANGED <<row, key, saga>>
    /\ Return(h)
    /\ UNCHANGED <<repos, history, batch, faults>>

----------------------------------------------------------------------------
(* GET /confirm/{token}: two transactions.  The token travels in the       *)
(* confirmation mail only, so it names a mailed subscription.              *)

ConfirmUpdate(h, s) ==
    /\ job[h] = Idle
    /\ s \in mailed
    /\ ConfirmByToken(s)
    /\ confirmedOnce' = confirmedOnce \cup {s}
    /\ Continue(h, [pc |-> "advance", sub |-> s])
    /\ UNCHANGED <<repos, key, saga, expired, mailed, batch, faults>>

\* Faulty variant: only the state of the SDD's diagram is advanced.
HandleConfirmedFromAwaiting(h) ==
    /\ job[h].pc = "advance"
    /\ saga' = IF saga[job[h].sub] = "AWAITING_CONFIRMATION"
                 THEN [saga EXCEPT ![job[h].sub] = "COMPLETED"]
                 ELSE saga
    /\ Return(h)
    /\ UNCHANGED <<repos, row, key, history, batch, faults>>

\* HandleConfirmed: anything but a terminal saga becomes COMPLETED.
HandleConfirmed(h) ==
    /\ job[h].pc = "advance"
    /\ IF saga[job[h].sub] \in TerminalStates
         THEN UNCHANGED saga
         ELSE UpdateState(job[h].sub, "COMPLETED")
    /\ Return(h)
    /\ UNCHANGED <<repos, row, key, history, batch, faults>>

----------------------------------------------------------------------------
(* GET /unsubscribe/{token}: find, delete, then DeleteIfOrphaned.  The     *)
(* token travels in release mails only, which go to subscriptions listed   *)
(* as confirmed.                                                           *)

CheckJob(r) == [pc |-> "check", repo |-> r]

UnsubscribeFind(h, s) ==
    /\ job[h] = Idle
    /\ s \in confirmedOnce
    /\ \E r \in FindByUnsubscribeToken(s) :
          Continue(h, [pc |-> "delete", sub |-> s, repo |-> r])
    /\ UNCHANGED <<tables, history, batch, faults>>

\* Faulty variant: the catalog is not told.
UnsubscribeDeleteNoCleanup(h) ==
    /\ job[h].pc = "delete"
    /\ row' = [row EXCEPT ![job[h].sub] = "deleted"]
    /\ Return(h)
    /\ UNCHANGED <<repos, key, saga, history, batch, faults>>

\* DELETE by token; no row left means ErrTokenNotFound and no cleanup.
UnsubscribeDelete(h) ==
    /\ job[h].pc = "delete"
    /\ \/ /\ DeleteByUnsubscribeToken(job[h].sub)
          /\ Continue(h, CheckJob(job[h].repo))
       \/ ~LiveRow(job[h].sub) /\ Return(h) /\ UNCHANGED row
    /\ UNCHANGED <<repos, key, saga, history, batch, faults>>

----------------------------------------------------------------------------
(* DeleteIfOrphaned, at the end of Unsubscribe and of a compensation: two  *)
(* statements, no transaction around them.                                 *)

OrphanCheck(p) ==
    /\ job[p].pc = "check"
    /\ \/ Subscribers(job[p].repo) # {} /\ Return(p)
       \/ Subscribers(job[p].repo) = {} /\ Continue(p, [job[p] EXCEPT !.pc = "drop"])
    /\ UNCHANGED <<tables, history, batch, faults>>

\* DeleteByID; the repository may be gone already: ErrNotFound.
OrphanDrop(p) ==
    /\ job[p].pc = "drop"
    /\ \/ LiveRepo(job[p].repo) /\ DeleteRepoByID(job[p].repo)
       \/ ~LiveRepo(job[p].repo) /\ UNCHANGED <<repos, row>>
    /\ Return(p)
    /\ UNCHANGED <<key, saga, history, batch, faults>>

----------------------------------------------------------------------------
(* Saga replies.  A message may be delivered any number of times: it is    *)
(* redelivered after a Nak, a lost Ack or a crash, and the notification    *)
(* service publishes it again when its own delivery repeats.               *)

ReadyWorker(w) == job[w] = Idle /\ batch[w] = {}

\* Faulty variant: a late EmailSent reopens a saga that went on meanwhile.
HandleEmailSentLate(c, s) ==
    /\ ReadyWorker(c)
    /\ s \in mailed
    /\ saga' = [saga EXCEPT ![s] = "AWAITING_CONFIRMATION"]
    /\ UNCHANGED <<repos, row, key, history, job, batch, faults>>

\* An EmailSent exists only after the mail left; a no-op unless STARTED.
HandleEmailSent(c, s) ==
    /\ ReadyWorker(c)
    /\ s \in mailed
    /\ saga[s] = "STARTED"
    /\ UpdateState(s, "AWAITING_CONFIRMATION")
    /\ UNCHANGED <<repos, row, key, history, job, batch, faults>>

\* Faulty variant: a redelivered EmailFailed compensates again.
HandleEmailFailedAgain(c, s) ==
    /\ ReadyWorker(c)
    /\ saga[s] \in ActiveStates \cup {"COMPENSATING"}
    /\ saga' = [saga EXCEPT ![s] = "COMPENSATING"]
    /\ batch' = [batch EXCEPT ![c] = {s}]
    /\ UNCHANGED <<repos, row, key, history, job, faults>>

\* Faulty variant: the verdict is written before the subscription is deleted.
HandleEmailFailedEarlyVerdict(c, s) ==
    /\ ReadyWorker(c)
    /\ saga[s] \in ActiveStates
    /\ saga' = [saga EXCEPT ![s] = "FAILED"]
    /\ batch' = [batch EXCEPT ![c] = {s}]
    /\ UNCHANGED <<repos, row, key, history, job, faults>>

\* First transaction of HandleEmailFailed; compensate follows on its own.
HandleEmailFailed(c, s) ==
    /\ ReadyWorker(c)
    /\ saga[s] \in ActiveStates
    /\ UpdateState(s, "COMPENSATING")
    /\ batch' = [batch EXCEPT ![c] = {s}]
    /\ UNCHANGED <<repos, row, key, history, job, faults>>

----------------------------------------------------------------------------
(* The reaper, and the compensation it shares with HandleEmailFailed.      *)

\* Faulty variant: compensations are retried without a new lock on the saga.
ExpirableWithRetry ==
    {s \in expired : saga[s] \in ActiveStates \cup {"COMPENSATING"}}

\* Faulty variant: a saga whose EmailSent was lost is not looked for.
ExpirableAwaiting == {s \in expired : saga[s] = "AWAITING_CONFIRMATION"}

\* The sagas FindExpiredForUpdate can select.
Expirable == {s \in expired : saga[s] \in ActiveStates}

\* reap's transaction: LIMIT and SKIP LOCKED leave some candidates to the next tick.
Reap(w, S) ==
    /\ ReadyWorker(w)
    /\ S # {} /\ S \subseteq Expirable
    /\ Cardinality(S) <= ReaperBatch
    /\ saga' = [s \in SubIds |-> IF s \in S THEN "COMPENSATING" ELSE saga[s]]
    /\ batch' = [batch EXCEPT ![w] = S]
    /\ UNCHANGED <<repos, row, key, history, job, faults>>

\* Faulty variant: DELETE ... WHERE id = $1, confirmed or not.
CompensateAnyRow(w, s) ==
    /\ job[w] = Idle
    /\ s \in batch[w]
    /\ IF LiveRow(s)
         THEN /\ row' = [row EXCEPT ![s] = "deleted"]
              /\ saga' = [saga EXCEPT ![s] = "FAILED"]
              /\ Continue(w, CheckJob(key[s].repo))
         ELSE saga' = [saga EXCEPT ![s] = "COMPLETED"] /\ UNCHANGED <<row, job>>
    /\ batch' = [batch EXCEPT ![w] = @ \ {s}]
    /\ UNCHANGED <<repos, key, history, faults>>

\* Faulty variant: nothing is written when the DELETE finds no row.
CompensateDeletedOnly(w, s) ==
    /\ job[w] = Idle
    /\ s \in batch[w]
    /\ IF row[s] = "pending"
         THEN /\ row' = [row EXCEPT ![s] = "deleted"]
              /\ saga' = [saga EXCEPT ![s] = "FAILED"]
              /\ Continue(w, CheckJob(key[s].repo))
         ELSE UNCHANGED <<row, saga, job>>
    /\ batch' = [batch EXCEPT ![w] = @ \ {s}]
    /\ UNCHANGED <<repos, key, history, faults>>

\* Faulty variant: the catalog is asked about the wrong int64, the subscription's.
CompensateWrongId(w, s) ==
    /\ job[w] = Idle
    /\ s \in batch[w]
    /\ row[s] = "pending"
    /\ row' = [row EXCEPT ![s] = "deleted"]
    /\ saga' = [saga EXCEPT ![s] = "FAILED"]
    /\ Continue(w, CheckJob(s))
    /\ batch' = [batch EXCEPT ![w] = @ \ {s}]
    /\ UNCHANGED <<repos, key, history, faults>>

\* compensate's transaction.  It neither locks nor reads the saga row again:
\* what becomes of the saga is decided by what the DELETE found.
Compensate(w, s) ==
    /\ job[w] = Idle
    /\ s \in batch[w]
    /\ \/ /\ DeleteUnconfirmedSubscription(s)
          /\ UpdateState(s, "FAILED")
          /\ Continue(w, CheckJob(key[s].repo))
       \/ /\ row[s] # "pending"
          /\ UpdateState(s, "COMPLETED")
          /\ UNCHANGED <<row, job>>
    /\ batch' = [batch EXCEPT ![w] = @ \ {s}]
    /\ UNCHANGED <<repos, key, history, faults>>

----------------------------------------------------------------------------
(* Faults.                                                                 *)

\* A request's statement fails or its client goes away: the handler returns
\* with what is committed so far.
RequestFails(h) ==
    /\ errors < MaxErrors
    /\ job[h] # Idle
    /\ Return(h)
    /\ errors' = errors + 1
    /\ UNCHANGED <<tables, history, batch, crashes>>

\* compensate's transaction rolls back: the reaper logs the error and takes
\* the next row, the consumer Naks and its redelivery is a no-op.
CompensateFails(w, s) ==
    /\ errors < MaxErrors
    /\ job[w] = Idle
    /\ s \in batch[w]
    /\ batch' = [batch EXCEPT ![w] = @ \ {s}]
    /\ errors' = errors + 1
    /\ UNCHANGED <<tables, history, job, crashes>>

\* The catalog cleanup after a compensation fails: the error is only logged.
CleanupFails(w) ==
    /\ errors < MaxErrors
    /\ job[w] # Idle
    /\ Return(w)
    /\ errors' = errors + 1
    /\ UNCHANGED <<tables, history, batch, crashes>>

\* The service stops; what is not committed is gone with every goroutine.
Crash ==
    /\ crashes < MaxCrashes
    /\ job' = [p \in Procs |-> Idle]
    /\ batch' = [w \in Workers |-> {}]
    /\ crashes' = crashes + 1
    /\ UNCHANGED <<tables, history, errors>>

----------------------------------------------------------------------------
(* The environment: time, and the notification service.                    *)

DeadlinePasses(s) ==
    /\ saga[s] # "NONE"
    /\ s \notin expired
    /\ expired' = expired \cup {s}
    /\ UNCHANGED <<tables, mailed, confirmedOnce, job, batch, faults>>

DeliverConfirmationMail(s) ==
    /\ saga[s] # "NONE"
    /\ s \notin mailed
    /\ mailed' = mailed \cup {s}
    /\ UNCHANGED <<tables, expired, confirmedOnce, job, batch, faults>>

----------------------------------------------------------------------------

\* The steps that go on with a request already in flight.
HandlerStep(h) ==
    \/ SubscribeCreate(h)
    \/ SubscribeRefind(h)
    \/ SubscribeInsert(h)
    \/ HandleConfirmed(h)
    \/ UnsubscribeDelete(h)
    \/ OrphanCheck(h)
    \/ OrphanDrop(h)

HandlerStart(h) ==
    \/ \E email \in Emails, name \in Names : SubscribeFind(h, email, name)
    \/ \E s \in SubIds : ConfirmUpdate(h, s)
    \/ \E s \in SubIds : UnsubscribeFind(h, s)

\* The steps that go on with a compensation already begun.
WorkerStep(w) ==
    \/ \E s \in SubIds : Compensate(w, s)
    \/ OrphanCheck(w)
    \/ OrphanDrop(w)

ConsumerStart(c) ==
    \E s \in SubIds : HandleEmailSent(c, s) \/ HandleEmailFailed(c, s)

ReaperStart(w) == \E S \in SUBSET SubIds : Reap(w, S)

Fault ==
    \/ \E h \in Handlers : RequestFails(h)
    \/ \E w \in Workers, s \in SubIds : CompensateFails(w, s)
    \/ \E w \in Workers : CleanupFails(w)
    \/ Crash

Environment ==
    \E s \in SubIds : DeadlinePasses(s) \/ DeliverConfirmationMail(s)

Next ==
    \/ \E h \in Handlers : HandlerStart(h) \/ HandlerStep(h)
    \/ \E c \in Consumers : ConsumerStart(c)
    \/ \E w \in Reapers : ReaperStart(w)
    \/ \E w \in Workers : WorkerStep(w)
    \/ Fault
    \/ Environment

Spec == Init /\ [][Next]_vars

(***************************************************************************)
(* A goroutine that started something goes on with it, time passes, and    *)
(* the 30 s ticker lets a reaper pick every expired saga in the end.  No   *)
(* fairness for users, for mails, for replies or for faults.               *)
(***************************************************************************)
Fairness ==
    /\ \A h \in Handlers : WF_vars(HandlerStep(h))
    /\ \A w \in Workers : WF_vars(WorkerStep(w))
    /\ \A w \in Reapers, s \in SubIds :
         SF_vars(\E S \in SUBSET SubIds : s \in S /\ Reap(w, S))
    /\ \A s \in SubIds : WF_vars(DeadlinePasses(s))

FairSpec == Spec /\ Fairness

----------------------------------------------------------------------------
(* What makes the component correct.                                       *)

(***************************************************************************)
(* A saga ends as FAILED only together with the deletion of a subscription *)
(* that was never confirmed (compensate: DELETE ... AND confirmed = FALSE   *)
(* and the update of the saga in one transaction).  A confirmation that    *)
(* races with the reaper or with an EmailFailed is never lost.             *)
(***************************************************************************)
FailedNeverConfirmed ==
    \A s \in SubIds : saga[s] = "FAILED" => row[s] = "deleted" /\ s \notin confirmedOnce

(***************************************************************************)
(* A pending subscription has a saga that can still end: none is left      *)
(* behind by a COMPLETED or FAILED saga, whatever the interleaving of      *)
(* confirm, replies, reaper, unsubscribe and crashes.                      *)
(***************************************************************************)
PendingHasOpenSaga ==
    \A s \in SubIds :
        row[s] = "pending" => saga[s] \in ActiveStates \cup {"COMPENSATING"}

(***************************************************************************)
(* COMPLETED and FAILED are final (SDD: "COMPLETED --> [*]"), although     *)
(* compensate writes its verdict without looking at the saga's state: it   *)
(* relies on being the only compensator of that saga.                      *)
(***************************************************************************)
TerminalIsFinal ==
    [][\A s \in SubIds : saga[s] \in TerminalStates => saga'[s] = saga[s]]_vars

(***************************************************************************)
(* No saga is compensated by two goroutines, and none is compensated that  *)
(* did not go through COMPENSATING: the row lock of HandleEmailFailed and  *)
(* the SKIP LOCKED of the reaper hand each saga to one of them, for good.  *)
(***************************************************************************)
OneCompensator ==
    \A w \in Workers : \A s \in batch[w] :
        /\ saga[s] \in {"COMPENSATING", "COMPLETED"}
        /\ \A v \in Workers \ {w} : s \notin batch[v]

(***************************************************************************)
(* No fault, no leak: a repository without subscribers is still in the     *)
(* hands of a goroutine that will insert a subscription into it, or check  *)
(* and delete it (Ensure and DeleteIfOrphaned run outside the transactions *)
(* that insert and delete subscriptions).                                  *)
(***************************************************************************)
NoLeakedRepository ==
    IdsLeft /\ errors = 0 /\ crashes = 0 =>
      \A r \in RepoIds :
          LiveRepo(r) /\ Subscribers(r) = {} =>
              \E p \in Procs : job[p].pc \in {"insert", "check", "drop"} /\ job[p].repo = r

(***************************************************************************)
(* A saga is decided in the end: confirmation, failure or the deadline     *)
(* takes it out of STARTED and AWAITING_CONFIRMATION, even if every reply  *)
(* is lost and the service crashes in between.                             *)
(***************************************************************************)
EverySagaIsDecided ==
    \A s \in SubIds : saga[s] \in ActiveStates ~> saga[s] \notin ActiveStates

(***************************************************************************)
(* A confirmed subscription's saga becomes COMPLETED although confirm.go   *)
(* commits the two in separate transactions: if the second one fails, the  *)
(* reaper's compensation finds the subscription confirmed.  One failure is *)
(* repaired that way.  Two are not: when that compensation fails as well   *)
(* (the reaper only logs it), or the service stops, the saga stays         *)
(* COMPENSATING until the confirmation link is used once more.             *)
(***************************************************************************)
ConfirmationCompletesSaga ==
    \A s \in SubIds :
        s \in confirmedOnce ~> saga[s] = "COMPLETED" \/ errors > 1 \/ crashes > 0

(***************************************************************************)
(* Without a fault every compensation that was begun, by an EmailFailed or *)
(* by the reaper, ends in COMPLETED or FAILED.                             *)
(***************************************************************************)
CompensationEnds ==
    \A s \in SubIds :
        saga[s] = "COMPENSATING" ~> saga[s] \in TerminalStates \/ errors + crashes > 0

(***************************************************************************)
(* SDD.md, Subscribe Saga Orchestrator: the saga is "a recoverable         *)
(* multi-step transaction".  A compensation that was begun is finished.    *)
(***************************************************************************)
CompensationIsRecovered ==
    \A s \in SubIds : saga[s] = "COMPENSATING" ~> saga[s] \in TerminalStates

(***************************************************************************)
(* SDD.md, Unsubscribe Flow: "opt No remaining subscriptions for this      *)
(* repository: Delete repository".                                         *)
(***************************************************************************)
RepositoryDeletedOnlyWhenOrphaned ==
    [][\A r \in RepoIds :
          LiveRepo(r) /\ repos'[r] = "deleted" => Subscribers(r) = {}]_vars

(***************************************************************************)
(* Whatever the goroutines, replies and faults do to the tables, a reader  *)
(* of subscriptions and subscribe_sagas sees the abstract life cycle.      *)
(***************************************************************************)
Lifecycle == INSTANCE SubscriptionLifecycle
ImplementsLifecycle == Lifecycle!Spec

----------------------------------------------------------------------------
(* The inductive invariant behind the theorems of SubscribeSaga_proofs.    *)

\* A row that was ever inserted has its saga, and both have their key.
RowsHaveSagas ==
    \A s \in SubIds :
        /\ row[s] = "unused" <=> saga[s] = "NONE"
        /\ row[s] # "unused" => key[s] \in Keys

\* The confirmed flag is never taken back: only a deletion ends it.
ConfirmedStays ==
    \A s \in SubIds :
        /\ s \in confirmedOnce => row[s] \in {"confirmed", "deleted"}
        /\ row[s] = "confirmed" => s \in confirmedOnce

\* HandleConfirmed runs after the subscription was confirmed.
AdvanceAfterConfirm ==
    \A p \in Procs : job[p].pc = "advance" => job[p].sub \in confirmedOnce

IInv ==
    /\ TypeOK
    /\ RowsHaveSagas
    /\ ConfirmedStays
    /\ AdvanceAfterConfirm
    /\ PendingHasOpenSaga
    /\ FailedNeverConfirmed
    /\ OneCompensator
============================================================================
