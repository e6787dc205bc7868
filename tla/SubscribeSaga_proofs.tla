------------------------ MODULE SubscribeSaga_proofs ------------------------
(***************************************************************************)
(* Theorems about SubscribeSaga, for any number of subscribers,            *)
(* repositories, requests, replicas and faults.                            *)
(***************************************************************************)
EXTENDS SubscribeSaga, TLAPS

\* The statements of the stores are part of the actions that execute them.
USE DEF FindByFullName, CreateRepo, DeleteRepoByID, ConfirmByToken, FindByUnsubscribeToken,
        DeleteByUnsubscribeToken, DeleteUnconfirmedSubscription, InsertSaga, UpdateState

(***************************************************************************)
(* The jobs by their program counter: what a goroutine at a given point    *)
(* carries with it.                                                        *)
(***************************************************************************)
LEMMA JobShape ==
  ASSUME NEW j \in Jobs
  PROVE  /\ j.pc \in {"create", "refind"} =>
              /\ j.email \in Emails /\ j.name \in Names
              /\ j = [pc |-> j.pc, email |-> j.email, name |-> j.name]
         /\ j.pc = "insert" => j.email \in Emails /\ j.repo \in RepoIds
         /\ j.pc = "advance" => j.sub \in SubIds
         /\ j.pc = "delete" => j.sub \in SubIds /\ j.repo \in RepoIds
         /\ j.pc \in {"check", "drop"} =>
              j.repo \in RepoIds /\ j = [pc |-> j.pc, repo |-> j.repo]
  BY DEF Jobs, Idle, SubscribeJobs, ConfirmJobs, DeleteJobs, CleanupJobs

(***************************************************************************)
(* The jobs the actions build are jobs.                                    *)
(***************************************************************************)
LEMMA JobsBuilt ==
  /\ Idle \in Jobs
  /\ \A e \in Emails, n \in Names, k \in {"create", "refind"} :
       [pc |-> k, email |-> e, name |-> n] \in Jobs
  /\ \A e \in Emails, r \in RepoIds : InsertJob(e, r) \in Jobs
  /\ \A s \in SubIds : [pc |-> "advance", sub |-> s] \in Jobs
  /\ \A s \in SubIds, r \in RepoIds : [pc |-> "delete", sub |-> s, repo |-> r] \in Jobs
  /\ \A r \in RepoIds : CheckJob(r) \in Jobs /\ [pc |-> "drop", repo |-> r] \in Jobs
  BY DEF Jobs, Idle, SubscribeJobs, ConfirmJobs, DeleteJobs, CleanupJobs, InsertJob, CheckJob

----------------------------------------------------------------------------
(* Type correctness and the inductive invariant.                           *)

LEMMA InitIInv == Init => IInv
  <1> SUFFICES ASSUME Init PROVE IInv
    OBVIOUS
  <1>1. TypeOK
    BY JobsBuilt, BoundsAssumption
       DEF Init, TypeOK, RowStates, SagaStates
  <1>2. RowsHaveSagas /\ ConfirmedStays /\ PendingHasOpenSaga /\ FailedNeverConfirmed
    BY DEF Init, RowsHaveSagas, ConfirmedStays, PendingHasOpenSaga, FailedNeverConfirmed
  <1>3. AdvanceAfterConfirm /\ OneCompensator
    BY DEF Init, AdvanceAfterConfirm, OneCompensator, Idle
  <1> QED BY <1>1, <1>2, <1>3 DEF IInv

(***************************************************************************)
(* A goroutine that takes up a typed job keeps the facts about jobs, if    *)
(* confirmed subscriptions stay recorded.                                  *)
(***************************************************************************)
LEMMA ContinueKeepsJobs ==
  ASSUME TypeOK, AdvanceAfterConfirm,
         NEW p \in Procs, NEW j \in Jobs, Continue(p, j),
         confirmedOnce \subseteq confirmedOnce',
         j.pc = "advance" => j.sub \in confirmedOnce'
  PROVE  job' \in [Procs -> Jobs] /\ AdvanceAfterConfirm'
  BY DEF TypeOK, AdvanceAfterConfirm, Continue

(***************************************************************************)
(* A step that only moves goroutines, and may make workers forget sagas,   *)
(* keeps the invariant: every read and every fault is of this kind.        *)
(***************************************************************************)
LEMMA ForgettingKeepsIInv ==
  ASSUME IInv, UNCHANGED <<tables, expired, confirmedOnce>>,
         mailed' \subseteq SubIds,
         job' \in [Procs -> Jobs], AdvanceAfterConfirm',
         batch' \in [Workers -> SUBSET SubIds],
         \A w \in Workers : batch'[w] \subseteq batch[w],
         errors' \in 0..MaxErrors, crashes' \in 0..MaxCrashes
  PROVE  IInv'
  <1> USE DEF tables, IInv
  <1>1. TypeOK'
    BY DEF TypeOK
  <1>2. RowsHaveSagas' /\ ConfirmedStays' /\ PendingHasOpenSaga' /\ FailedNeverConfirmed'
    BY DEF RowsHaveSagas, ConfirmedStays, PendingHasOpenSaga, FailedNeverConfirmed
  <1>3. OneCompensator'
    BY DEF OneCompensator
  <1> QED BY <1>1, <1>2, <1>3

(***************************************************************************)
(* A request that returns, and one that goes on after a read.              *)
(***************************************************************************)
LEMMA ReadKeepsIInv ==
  ASSUME IInv, NEW p \in Procs, NEW j \in Jobs, j.pc # "advance",
         Continue(p, j), UNCHANGED <<tables, history, batch, faults>>
  PROVE  IInv'
  <1>1. job' \in [Procs -> Jobs] /\ AdvanceAfterConfirm'
    BY ContinueKeepsJobs DEF IInv, history
  <1>2. batch' \in [Workers -> SUBSET SubIds] /\ \A w \in Workers : batch'[w] \subseteq batch[w]
    BY DEF IInv, TypeOK
  <1>3. mailed' \subseteq SubIds /\ errors' \in 0..MaxErrors /\ crashes' \in 0..MaxCrashes
    BY DEF IInv, TypeOK, history, faults
  <1> QED BY <1>1, <1>2, <1>3, ForgettingKeepsIInv DEF history

LEMMA SubscribeFindKeeps ==
  ASSUME IInv, NEW h \in Handlers, NEW e \in Emails, NEW n \in Names, SubscribeFind(h, e, n)
  PROVE  IInv'
  <1>1. PICK j \in Jobs : j.pc # "advance" /\ Continue(h, j)
    BY JobsBuilt DEF SubscribeFind, InsertJob
  <1> QED BY <1>1, ReadKeepsIInv DEF SubscribeFind, Procs

LEMMA SubscribeCreateKeeps ==
  ASSUME IInv, NEW h \in Handlers, SubscribeCreate(h)
  PROVE  IInv'
  <1>1. job[h] \in Jobs
    BY DEF IInv, TypeOK, Procs
  <1>2. PICK j \in Jobs : j.pc # "advance" /\ Continue(h, j)
    <2>1. CASE Continue(h, [job[h] EXCEPT !.pc = "refind"])
      <3>1. [job[h] EXCEPT !.pc = "refind"]
              = [pc |-> "refind", email |-> job[h].email, name |-> job[h].name]
        BY <1>1, JobShape DEF SubscribeCreate
      <3> QED BY <1>1, <2>1, <3>1, JobShape, JobsBuilt DEF SubscribeCreate
    <2>2. CASE \E r \in RepoIds : Continue(h, InsertJob(job[h].email, r))
      BY <1>1, <2>2, JobShape, JobsBuilt DEF SubscribeCreate, InsertJob
    <2>3. CASE Return(h)
      BY <2>3, JobsBuilt DEF Return, Idle
    <2> QED BY <2>1, <2>2, <2>3 DEF SubscribeCreate
  <1>3. job' \in [Procs -> Jobs] /\ AdvanceAfterConfirm'
    BY <1>2, ContinueKeepsJobs DEF IInv, SubscribeCreate, history, Procs
  <1>4. repos' \in [RepoIds -> Names \cup {"unused", "deleted"}]
    BY <1>1, JobShape DEF IInv, TypeOK, SubscribeCreate
  <1>5. TypeOK'
    BY <1>3, <1>4 DEF IInv, TypeOK, SubscribeCreate, history, faults
  <1>6. /\ RowsHaveSagas' /\ ConfirmedStays' /\ PendingHasOpenSaga'
        /\ FailedNeverConfirmed' /\ OneCompensator'
    BY DEF IInv, SubscribeCreate, history, RowsHaveSagas, ConfirmedStays,
           PendingHasOpenSaga, FailedNeverConfirmed, OneCompensator
  <1> QED BY <1>3, <1>5, <1>6 DEF IInv

LEMMA SubscribeRefindKeeps ==
  ASSUME IInv, NEW h \in Handlers, SubscribeRefind(h)
  PROVE  IInv'
  <1>1. job[h] \in Jobs
    BY DEF IInv, TypeOK, Procs
  <1>2. PICK j \in Jobs : j.pc # "advance" /\ Continue(h, j)
    BY <1>1, JobShape, JobsBuilt DEF SubscribeRefind, InsertJob, Return, Idle
  <1> QED BY <1>2, ReadKeepsIInv DEF SubscribeRefind, Procs

LEMMA SubscribeInsertKeeps ==
  ASSUME IInv, NEW h \in Handlers, SubscribeInsert(h)
  PROVE  IInv'
  <1>1. job[h] \in Jobs /\ job[h].email \in Emails /\ job[h].repo \in RepoIds
    BY JobShape DEF IInv, TypeOK, Procs, SubscribeInsert
  <1>2. job' \in [Procs -> Jobs] /\ AdvanceAfterConfirm'
    BY JobsBuilt, ContinueKeepsJobs DEF IInv, SubscribeInsert, history, Procs, Return, Idle
  <1>3. CASE UNCHANGED <<row, key, saga>>
    BY <1>2, <1>3, ForgettingKeepsIInv
       DEF IInv, TypeOK, SubscribeInsert, tables, history, faults
  <1>4. ASSUME NEW s \in SubIds, row[s] = "unused",
               row' = [row EXCEPT ![s] = "pending"],
               key' = [key EXCEPT ![s] = [email |-> job[h].email, repo |-> job[h].repo]],
               saga' = [saga EXCEPT ![s] = "STARTED"]
        PROVE  IInv'
    <2>1. TypeOK'
      BY <1>1, <1>2, <1>4
         DEF IInv, TypeOK, SubscribeInsert, history, faults, Keys, RowStates, SagaStates, ActiveStates
    <2>2. RowsHaveSagas' /\ PendingHasOpenSaga'
      BY <1>1, <1>4 DEF IInv, TypeOK, RowsHaveSagas, PendingHasOpenSaga, Keys, ActiveStates
    <2>3. ConfirmedStays' /\ FailedNeverConfirmed'
      BY <1>4 DEF IInv, TypeOK, SubscribeInsert, history, ConfirmedStays, FailedNeverConfirmed
    <2>4. OneCompensator'
      BY <1>4 DEF IInv, TypeOK, SubscribeInsert, RowsHaveSagas, OneCompensator
    <2> QED BY <1>2, <2>1, <2>2, <2>3, <2>4 DEF IInv
  <1> QED BY <1>3, <1>4 DEF SubscribeInsert

LEMMA ConfirmUpdateKeeps ==
  ASSUME IInv, NEW h \in Handlers, NEW s \in SubIds, ConfirmUpdate(h, s)
  PROVE  IInv'
  <1>1. job' \in [Procs -> Jobs] /\ AdvanceAfterConfirm'
    BY JobsBuilt, ContinueKeepsJobs DEF IInv, ConfirmUpdate, Procs
  <1>2. TypeOK'
    BY <1>1 DEF IInv, TypeOK, ConfirmUpdate, faults, RowStates
  <1>3. RowsHaveSagas' /\ ConfirmedStays' /\ PendingHasOpenSaga'
    BY DEF IInv, TypeOK, ConfirmUpdate, LiveRow, RowsHaveSagas, ConfirmedStays, PendingHasOpenSaga
  <1>4. FailedNeverConfirmed' /\ OneCompensator'
    BY DEF IInv, TypeOK, ConfirmUpdate, LiveRow, FailedNeverConfirmed, OneCompensator
  <1> QED BY <1>1, <1>2, <1>3, <1>4 DEF IInv

LEMMA HandleConfirmedKeeps ==
  ASSUME IInv, NEW h \in Handlers, HandleConfirmed(h)
  PROVE  IInv'
  <1> DEFINE s == job[h].sub
  <1>1. s \in SubIds /\ s \in confirmedOnce
    BY JobShape DEF IInv, TypeOK, Procs, HandleConfirmed, AdvanceAfterConfirm
  <1>2. job' \in [Procs -> Jobs] /\ AdvanceAfterConfirm'
    BY JobsBuilt, ContinueKeepsJobs DEF IInv, HandleConfirmed, history, Procs, Return, Idle
  <1>3. saga' \in [SubIds -> SagaStates]
    BY <1>1 DEF IInv, TypeOK, HandleConfirmed, SagaStates, TerminalStates
  <1>4. /\ \A t \in SubIds : saga'[t] = saga[t] \/ (t = s /\ saga'[t] = "COMPLETED")
        /\ \A t \in SubIds : saga'[t] = "FAILED" => saga[t] = "FAILED"
    BY <1>1 DEF IInv, TypeOK, HandleConfirmed
  <1>5. TypeOK'
    BY <1>2, <1>3 DEF IInv, TypeOK, HandleConfirmed, history, faults
  <1>6. row[s] # "pending" /\ row[s] # "unused"
    BY <1>1 DEF IInv, ConfirmedStays
  <1>7. RowsHaveSagas' /\ ConfirmedStays' /\ PendingHasOpenSaga' /\ FailedNeverConfirmed'
    BY <1>4, <1>6
       DEF IInv, HandleConfirmed, history, RowsHaveSagas, ConfirmedStays,
           PendingHasOpenSaga, FailedNeverConfirmed
  <1>8. OneCompensator'
    BY <1>4 DEF IInv, TypeOK, HandleConfirmed, OneCompensator
  <1> QED BY <1>2, <1>5, <1>7, <1>8 DEF IInv

LEMMA UnsubscribeFindKeeps ==
  ASSUME IInv, NEW h \in Handlers, NEW s \in SubIds, UnsubscribeFind(h, s)
  PROVE  IInv'
  <1>1. key[s].repo \in RepoIds
    BY DEF IInv, UnsubscribeFind, LiveRow, RowsHaveSagas, Keys
  <1> QED BY <1>1, JobsBuilt, ReadKeepsIInv DEF UnsubscribeFind, Procs

(***************************************************************************)
(* A step that deletes live rows, and touches neither sagas nor workers'   *)
(* lists, keeps the invariant: unsubscribing, and the cascade.             *)
(***************************************************************************)
LEMMA DeletionKeepsIInv ==
  ASSUME IInv, UNCHANGED <<key, saga, history, batch, faults>>,
         repos' \in [RepoIds -> Names \cup {"unused", "deleted"}],
         job' \in [Procs -> Jobs], AdvanceAfterConfirm',
         row' \in [SubIds -> RowStates],
         \A s \in SubIds : row'[s] = row[s] \/ (row'[s] = "deleted" /\ LiveRow(s))
  PROVE  IInv'
  <1>1. TypeOK'
    BY DEF IInv, TypeOK, history, faults
  <1>2. RowsHaveSagas' /\ ConfirmedStays' /\ PendingHasOpenSaga' /\ FailedNeverConfirmed'
    BY DEF IInv, history, LiveRow, RowsHaveSagas, ConfirmedStays, PendingHasOpenSaga,
           FailedNeverConfirmed
  <1>3. OneCompensator'
    BY DEF IInv, OneCompensator
  <1> QED BY <1>1, <1>2, <1>3 DEF IInv

LEMMA UnsubscribeDeleteKeeps ==
  ASSUME IInv, NEW h \in Handlers, UnsubscribeDelete(h)
  PROVE  IInv'
  <1>1. job[h] \in Jobs /\ job[h].sub \in SubIds /\ job[h].repo \in RepoIds
    BY JobShape DEF IInv, TypeOK, Procs, UnsubscribeDelete
  <1>2. PICK j \in Jobs : j.pc # "advance" /\ Continue(h, j)
    BY <1>1, JobsBuilt DEF UnsubscribeDelete, CheckJob, Return, Idle
  <1>3. job' \in [Procs -> Jobs] /\ AdvanceAfterConfirm'
    BY <1>2, ContinueKeepsJobs DEF IInv, UnsubscribeDelete, history, Procs
  <1>4. /\ row' \in [SubIds -> RowStates]
        /\ \A s \in SubIds : row'[s] = row[s] \/ (row'[s] = "deleted" /\ LiveRow(s))
    BY <1>1 DEF IInv, TypeOK, UnsubscribeDelete, RowStates
  <1> QED BY <1>3, <1>4, DeletionKeepsIInv DEF UnsubscribeDelete, IInv, TypeOK

LEMMA OrphanCheckKeeps ==
  ASSUME IInv, NEW p \in Procs, OrphanCheck(p)
  PROVE  IInv'
  <1>1. job[p] \in Jobs /\ job[p].repo \in RepoIds /\ job[p] = [pc |-> "check", repo |-> job[p].repo]
    BY JobShape DEF IInv, TypeOK, OrphanCheck
  <1>2. [job[p] EXCEPT !.pc = "drop"] = [pc |-> "drop", repo |-> job[p].repo]
    BY <1>1
  <1>3. PICK j \in Jobs : j.pc # "advance" /\ Continue(p, j)
    BY <1>1, <1>2, JobsBuilt DEF OrphanCheck, Return, Idle
  <1> QED BY <1>3, ReadKeepsIInv DEF OrphanCheck

LEMMA OrphanDropKeeps ==
  ASSUME IInv, NEW p \in Procs, OrphanDrop(p)
  PROVE  IInv'
  <1>1. job[p].repo \in RepoIds
    BY JobShape DEF IInv, TypeOK, OrphanDrop
  <1>2. job' \in [Procs -> Jobs] /\ AdvanceAfterConfirm'
    BY JobsBuilt, ContinueKeepsJobs DEF IInv, OrphanDrop, history, Return, Idle
  <1>3. /\ row' \in [SubIds -> RowStates]
        /\ \A s \in SubIds : row'[s] = row[s] \/ (row'[s] = "deleted" /\ LiveRow(s))
    BY DEF IInv, TypeOK, OrphanDrop, RowStates, Subscribers
  <1>4. repos' \in [RepoIds -> Names \cup {"unused", "deleted"}]
    BY <1>1 DEF IInv, TypeOK, OrphanDrop
  <1> QED BY <1>2, <1>3, <1>4, DeletionKeepsIInv DEF OrphanDrop

(***************************************************************************)
(* Workers.                                                                *)
(***************************************************************************)
LEMMA HandleEmailSentKeeps ==
  ASSUME IInv, NEW c \in Consumers, NEW s \in SubIds, HandleEmailSent(c, s)
  PROVE  IInv'
  <1>1. TypeOK' /\ AdvanceAfterConfirm'
    BY DEF IInv, TypeOK, HandleEmailSent, history, faults, SagaStates, ActiveStates, AdvanceAfterConfirm
  <1>2. RowsHaveSagas' /\ ConfirmedStays' /\ PendingHasOpenSaga' /\ FailedNeverConfirmed'
    BY DEF IInv, TypeOK, HandleEmailSent, history, ActiveStates, RowsHaveSagas, ConfirmedStays,
           PendingHasOpenSaga, FailedNeverConfirmed
  <1>3. OneCompensator'
    BY DEF IInv, TypeOK, HandleEmailSent, OneCompensator
  <1> QED BY <1>1, <1>2, <1>3 DEF IInv

(***************************************************************************)
(* Taking a set of active sagas into a worker's empty list: the first      *)
(* transaction of HandleEmailFailed and of reap.  No other worker holds an *)
(* active saga, so each saga still has one compensator.                    *)
(***************************************************************************)
LEMMA TakingKeepsIInv ==
  ASSUME IInv, NEW w \in Workers, NEW S \in SUBSET SubIds,
         \A s \in S : saga[s] \in ActiveStates,
         saga' = [s \in SubIds |-> IF s \in S THEN "COMPENSATING" ELSE saga[s]],
         batch' = [batch EXCEPT ![w] = S],
         UNCHANGED <<repos, row, key, history, job, faults>>
  PROVE  IInv'
  <1>1. TypeOK' /\ AdvanceAfterConfirm'
    BY DEF IInv, TypeOK, history, faults, SagaStates, AdvanceAfterConfirm
  <1>2. RowsHaveSagas' /\ ConfirmedStays' /\ PendingHasOpenSaga' /\ FailedNeverConfirmed'
    BY DEF IInv, TypeOK, history, ActiveStates, RowsHaveSagas, ConfirmedStays,
           PendingHasOpenSaga, FailedNeverConfirmed
  <1>3. ASSUME NEW v \in Workers, NEW s \in batch[v] PROVE s \notin S
    BY <1>3 DEF IInv, OneCompensator, ActiveStates
  <1>4. OneCompensator'
    BY <1>3 DEF IInv, TypeOK, OneCompensator
  <1> QED BY <1>1, <1>2, <1>4 DEF IInv

LEMMA HandleEmailFailedKeeps ==
  ASSUME IInv, NEW c \in Consumers, NEW s \in SubIds, HandleEmailFailed(c, s)
  PROVE  IInv'
  <1>1. saga' = [t \in SubIds |-> IF t \in {s} THEN "COMPENSATING" ELSE saga[t]]
    BY DEF IInv, TypeOK, HandleEmailFailed
  <1> QED BY <1>1, TakingKeepsIInv DEF HandleEmailFailed, Workers

LEMMA ReapKeeps ==
  ASSUME IInv, NEW w \in Reapers, NEW S \in SUBSET SubIds, Reap(w, S)
  PROVE  IInv'
  BY TakingKeepsIInv DEF Reap, Expirable, Workers

LEMMA CompensateKeeps ==
  ASSUME IInv, NEW w \in Workers, NEW s \in SubIds, Compensate(w, s)
  PROVE  IInv'
  <1>1. saga[s] \in {"COMPENSATING", "COMPLETED"}
    BY DEF IInv, OneCompensator, Compensate
  <1>2. /\ batch' \in [Workers -> SUBSET SubIds]
        /\ \A v \in Workers : batch'[v] \subseteq batch[v] \ {s}
    BY DEF IInv, TypeOK, OneCompensator, Compensate
  <1>3. CASE row[s] = "pending"
    <2>1. /\ row' = [row EXCEPT ![s] = "deleted"]
          /\ saga' = [saga EXCEPT ![s] = "FAILED"]
          /\ Continue(w, CheckJob(key[s].repo))
          /\ s \notin confirmedOnce
          /\ key[s].repo \in RepoIds
      BY <1>3 DEF IInv, Compensate, ConfirmedStays, RowsHaveSagas, Keys
    <2>2. job' \in [Procs -> Jobs] /\ AdvanceAfterConfirm'
      BY <2>1, JobsBuilt, ContinueKeepsJobs DEF IInv, Compensate, history, CheckJob, Procs
    <2>3. TypeOK'
      BY <1>2, <2>1, <2>2
         DEF IInv, TypeOK, Compensate, history, faults, RowStates, SagaStates, TerminalStates
    <2>4. RowsHaveSagas' /\ ConfirmedStays' /\ PendingHasOpenSaga' /\ FailedNeverConfirmed'
      BY <1>1, <2>1
         DEF IInv, TypeOK, Compensate, history, RowsHaveSagas, ConfirmedStays,
             PendingHasOpenSaga, FailedNeverConfirmed
    <2>5. OneCompensator'
      BY <1>2, <2>1 DEF IInv, TypeOK, OneCompensator
    <2> QED BY <2>2, <2>3, <2>4, <2>5 DEF IInv
  <1>4. CASE row[s] # "pending"
    <2>1. saga' = [saga EXCEPT ![s] = "COMPLETED"] /\ UNCHANGED <<row, job>>
      BY <1>4 DEF Compensate
    <2>2. TypeOK' /\ AdvanceAfterConfirm'
      BY <1>2, <2>1
         DEF IInv, TypeOK, Compensate, history, faults, SagaStates, TerminalStates, AdvanceAfterConfirm
    <2>3. RowsHaveSagas' /\ ConfirmedStays' /\ PendingHasOpenSaga' /\ FailedNeverConfirmed'
      BY <1>1, <1>4, <2>1
         DEF IInv, TypeOK, Compensate, history, RowsHaveSagas, ConfirmedStays,
             PendingHasOpenSaga, FailedNeverConfirmed
    <2>4. OneCompensator'
      BY <1>2, <2>1 DEF IInv, TypeOK, OneCompensator
    <2> QED BY <2>2, <2>3, <2>4 DEF IInv
  <1> QED BY <1>3, <1>4

(***************************************************************************)
(* Faults and the environment.                                             *)
(***************************************************************************)
LEMMA FaultKeeps ==
  ASSUME IInv, Fault
  PROVE  IInv'
  <1>1. ASSUME NEW p \in Procs, Return(p), errors < MaxErrors, errors' = errors + 1,
               UNCHANGED <<tables, history, batch, crashes>>
        PROVE  IInv'
    <2>1. job' \in [Procs -> Jobs] /\ AdvanceAfterConfirm'
      BY <1>1, JobsBuilt, ContinueKeepsJobs DEF IInv, history, Return, Idle
    <2> QED BY <1>1, <2>1, BoundsAssumption, ForgettingKeepsIInv DEF IInv, TypeOK, history
  <1>2. ASSUME NEW h \in Handlers, RequestFails(h) PROVE IInv'
    BY <1>1, <1>2 DEF RequestFails, Procs
  <1>3. ASSUME NEW w \in Workers, CleanupFails(w) PROVE IInv'
    BY <1>1, <1>3 DEF CleanupFails, Procs
  <1>4. ASSUME NEW w \in Workers, NEW s \in SubIds, CompensateFails(w, s) PROVE IInv'
    <2>1. /\ batch' \in [Workers -> SUBSET SubIds]
          /\ \A v \in Workers : batch'[v] \subseteq batch[v]
      BY <1>4 DEF IInv, TypeOK, CompensateFails
    <2>2. AdvanceAfterConfirm' /\ job' \in [Procs -> Jobs] /\ mailed' \subseteq SubIds
      BY <1>4 DEF IInv, TypeOK, CompensateFails, history, AdvanceAfterConfirm
    <2>3. errors' \in 0..MaxErrors /\ crashes' \in 0..MaxCrashes
      BY <1>4, BoundsAssumption DEF IInv, TypeOK, CompensateFails
    <2> QED BY <1>4, <2>1, <2>2, <2>3, ForgettingKeepsIInv DEF CompensateFails, history
  <1>5. ASSUME Crash PROVE IInv'
    <2>1. job' \in [Procs -> Jobs] /\ AdvanceAfterConfirm'
      BY <1>5, JobsBuilt DEF Crash, AdvanceAfterConfirm, Idle
    <2>2. batch' \in [Workers -> SUBSET SubIds] /\ \A v \in Workers : batch'[v] \subseteq batch[v]
      BY <1>5 DEF Crash
    <2>3. mailed' \subseteq SubIds /\ errors' \in 0..MaxErrors /\ crashes' \in 0..MaxCrashes
      BY <1>5, BoundsAssumption DEF IInv, TypeOK, Crash, history
    <2> QED BY <1>5, <2>1, <2>2, <2>3, ForgettingKeepsIInv DEF Crash, history
  <1> QED BY <1>2, <1>3, <1>4, <1>5 DEF Fault

LEMMA EnvironmentKeeps ==
  ASSUME IInv, Environment
  PROVE  IInv'
  <1>1. ASSUME NEW s \in SubIds, DeadlinePasses(s) PROVE IInv'
    BY <1>1
       DEF IInv, DeadlinePasses, tables, faults, TypeOK, RowsHaveSagas, ConfirmedStays,
           AdvanceAfterConfirm, PendingHasOpenSaga, FailedNeverConfirmed, OneCompensator
  <1>2. ASSUME NEW s \in SubIds, DeliverConfirmationMail(s) PROVE IInv'
    BY <1>2
       DEF IInv, DeliverConfirmationMail, tables, faults, TypeOK, RowsHaveSagas, ConfirmedStays,
           AdvanceAfterConfirm, PendingHasOpenSaga, FailedNeverConfirmed, OneCompensator
  <1> QED BY <1>1, <1>2 DEF Environment

LEMMA StutterKeeps ==
  ASSUME IInv, UNCHANGED vars
  PROVE  IInv'
  BY DEF IInv, vars, tables, history, faults, TypeOK, RowsHaveSagas, ConfirmedStays,
         AdvanceAfterConfirm, PendingHasOpenSaga, FailedNeverConfirmed, OneCompensator

LEMMA NextKeeps == IInv /\ [Next]_vars => IInv'
  <1> SUFFICES ASSUME IInv, [Next]_vars PROVE IInv'
    OBVIOUS
  <1>1. ASSUME NEW h \in Handlers, HandlerStart(h) PROVE IInv'
    BY <1>1, SubscribeFindKeeps, ConfirmUpdateKeeps, UnsubscribeFindKeeps DEF HandlerStart
  <1>2. ASSUME NEW h \in Handlers, HandlerStep(h) PROVE IInv'
    BY <1>2, SubscribeCreateKeeps, SubscribeRefindKeeps, SubscribeInsertKeeps,
       HandleConfirmedKeeps, UnsubscribeDeleteKeeps, OrphanCheckKeeps, OrphanDropKeeps
       DEF HandlerStep, Procs
  <1>3. ASSUME NEW c \in Consumers, ConsumerStart(c) PROVE IInv'
    BY <1>3, HandleEmailSentKeeps, HandleEmailFailedKeeps DEF ConsumerStart
  <1>4. ASSUME NEW w \in Reapers, ReaperStart(w) PROVE IInv'
    BY <1>4, ReapKeeps DEF ReaperStart
  <1>5. ASSUME NEW w \in Workers, WorkerStep(w) PROVE IInv'
    BY <1>5, CompensateKeeps, OrphanCheckKeeps, OrphanDropKeeps DEF WorkerStep, Procs
  <1>6. ASSUME UNCHANGED vars PROVE IInv'
    BY <1>6, StutterKeeps
  <1> QED BY <1>1, <1>2, <1>3, <1>4, <1>5, <1>6, FaultKeeps, EnvironmentKeeps DEF Next

(***************************************************************************)
(* The inductive invariant holds in every reachable state.                 *)
(***************************************************************************)
THEOREM InductiveInvariant == Spec => []IInv
  <1> QED BY InitIInv, NextKeeps, PTL DEF Spec

----------------------------------------------------------------------------
(* What follows from it.                                                   *)

(***************************************************************************)
(* Tables, goroutines and workers' lists are always well typed.            *)
(***************************************************************************)
THEOREM TypeCorrect == Spec => []TypeOK
  <1>1. IInv => TypeOK
    BY DEF IInv
  <1> QED BY <1>1, InductiveInvariant, PTL

(***************************************************************************)
(* A FAILED saga's subscription is deleted and was never confirmed: no     *)
(* confirmation is undone by compensate, whoever wins the race.            *)
(***************************************************************************)
THEOREM ConfirmationIsNeverUndone == Spec => []FailedNeverConfirmed
  <1>1. IInv => FailedNeverConfirmed
    BY DEF IInv
  <1> QED BY <1>1, InductiveInvariant, PTL

(***************************************************************************)
(* Every pending subscription has a saga that is not terminal.             *)
(***************************************************************************)
THEOREM NoAbandonedPendingRow == Spec => []PendingHasOpenSaga
  <1>1. IInv => PendingHasOpenSaga
    BY DEF IInv
  <1> QED BY <1>1, InductiveInvariant, PTL

(***************************************************************************)
(* However many replicas run consumers and reapers, a saga is compensated  *)
(* by one goroutine at most.                                               *)
(***************************************************************************)
THEOREM SingleCompensator == Spec => []OneCompensator
  <1>1. IInv => OneCompensator
    BY DEF IInv
  <1> QED BY <1>1, InductiveInvariant, PTL

----------------------------------------------------------------------------
(* The refinement: every step of the service is a step of the abstract     *)
(* life cycle, or invisible to it.                                         *)

LEMMA InitRefines == Init => Lifecycle!Init
  BY DEF Init, Lifecycle!Init

LEMMA StepRefines == IInv /\ [Next]_vars => [Lifecycle!Next]_<<row, saga>>
  <1> SUFFICES ASSUME IInv, [Next]_vars
               PROVE  Lifecycle!Next \/ UNCHANGED <<row, saga>>
    OBVIOUS
  <1> USE DEF Lifecycle!Next, IInv, TypeOK
  <1>1. ASSUME NEW h \in Handlers, HandlerStart(h)
        PROVE  Lifecycle!Next \/ UNCHANGED <<row, saga>>
    <2>1. ASSUME NEW s \in SubIds, ConfirmUpdate(h, s)
          PROVE  Lifecycle!Confirm(s) \/ UNCHANGED <<row, saga>>
      BY <2>1 DEF ConfirmUpdate, LiveRow, Lifecycle!Confirm
    <2> QED BY <1>1, <2>1 DEF HandlerStart, SubscribeFind, UnsubscribeFind, tables
  <1>2. ASSUME NEW p \in Procs, OrphanCheck(p) \/ OrphanDrop(p)
        PROVE  Lifecycle!Next \/ UNCHANGED <<row, saga>>
    <2>1. CASE UNCHANGED <<row, saga>>
      BY <2>1
    <2>2. CASE row' = [s \in SubIds |-> IF s \in Subscribers(job[p].repo)
                                          THEN "deleted" ELSE row[s]]
               /\ UNCHANGED saga
      <3>1. Lifecycle!Remove(Subscribers(job[p].repo)) /\ Subscribers(job[p].repo) \in SUBSET SubIds
        BY <2>2 DEF Lifecycle!Remove, Subscribers, LiveRow
      <3> QED BY <3>1
    <2> QED BY <1>2, <2>1, <2>2 DEF OrphanCheck, OrphanDrop, tables
  <1>3. ASSUME NEW h \in Handlers, SubscribeInsert(h)
        PROVE  Lifecycle!Next \/ UNCHANGED <<row, saga>>
    <2>1. ASSUME NEW s \in SubIds, row[s] = "unused",
                 row' = [row EXCEPT ![s] = "pending"],
                 saga' = [saga EXCEPT ![s] = "STARTED"]
          PROVE  Lifecycle!Open(s)
      BY <2>1 DEF Lifecycle!Open, RowsHaveSagas
    <2> QED BY <1>3, <2>1 DEF SubscribeInsert
  <1>4. ASSUME NEW h \in Handlers, HandleConfirmed(h)
        PROVE  Lifecycle!Next \/ UNCHANGED <<row, saga>>
    <2> DEFINE s == job[h].sub
    <2>1. s \in SubIds /\ row[s] \in {"confirmed", "deleted"}
      BY <1>4, JobShape DEF Procs, HandleConfirmed, AdvanceAfterConfirm, ConfirmedStays
    <2>2. CASE saga[s] \in TerminalStates
      BY <1>4, <2>2 DEF HandleConfirmed
    <2>3. CASE saga[s] \notin TerminalStates
      <3>1. saga[s] \in ActiveStates \cup {"COMPENSATING"}
        BY <2>1, <2>3 DEF RowsHaveSagas, SagaStates
      <3>2. Lifecycle!Complete(s)
        BY <1>4, <2>1, <2>3, <3>1
           DEF HandleConfirmed, Lifecycle!Complete, Lifecycle!Active, ActiveStates
      <3> QED BY <2>1, <3>2
    <2> QED BY <2>2, <2>3
  <1>5. ASSUME NEW h \in Handlers, UnsubscribeDelete(h)
        PROVE  Lifecycle!Next \/ UNCHANGED <<row, saga>>
    <2>1. job[h].sub \in SubIds
      BY <1>5, JobShape DEF Procs, UnsubscribeDelete
    <2>2. CASE LiveRow(job[h].sub) /\ row' = [row EXCEPT ![job[h].sub] = "deleted"]
      <3>1. Lifecycle!Remove({job[h].sub})
        BY <1>5, <2>1, <2>2 DEF UnsubscribeDelete, Lifecycle!Remove, LiveRow
      <3> QED BY <2>1, <3>1
    <2> QED BY <1>5, <2>2 DEF UnsubscribeDelete
  <1>6. ASSUME NEW h \in Handlers, HandlerStep(h)
        PROVE  Lifecycle!Next \/ UNCHANGED <<row, saga>>
    BY <1>2, <1>3, <1>4, <1>5, <1>6
       DEF HandlerStep, Procs, SubscribeCreate, SubscribeRefind, tables
  <1>7. ASSUME NEW c \in Consumers, ConsumerStart(c)
        PROVE  Lifecycle!Next \/ UNCHANGED <<row, saga>>
    <2>1. ASSUME NEW s \in SubIds, HandleEmailSent(c, s) PROVE Lifecycle!Await(s)
      BY <2>1 DEF HandleEmailSent, Lifecycle!Await
    <2>2. ASSUME NEW s \in SubIds, HandleEmailFailed(c, s)
          PROVE  Lifecycle!BeginCompensation({s})
      BY <2>2 DEF HandleEmailFailed, Lifecycle!BeginCompensation, Lifecycle!Active, ActiveStates
    <2> QED BY <1>7, <2>1, <2>2 DEF ConsumerStart
  <1>8. ASSUME NEW w \in Reapers, ReaperStart(w)
        PROVE  Lifecycle!Next \/ UNCHANGED <<row, saga>>
    <2>1. ASSUME NEW S \in SUBSET SubIds, Reap(w, S)
          PROVE  Lifecycle!BeginCompensation(S)
      BY <2>1 DEF Reap, Expirable, Lifecycle!BeginCompensation, Lifecycle!Active, ActiveStates
    <2> QED BY <1>8, <2>1 DEF ReaperStart
  <1>9. ASSUME NEW w \in Workers, WorkerStep(w)
        PROVE  Lifecycle!Next \/ UNCHANGED <<row, saga>>
    <2>1. ASSUME NEW s \in SubIds, Compensate(w, s)
          PROVE  Lifecycle!Abandon(s) \/ Lifecycle!Complete(s) \/ UNCHANGED <<row, saga>>
      <3>1. saga[s] \in {"COMPENSATING", "COMPLETED"}
        BY <2>1 DEF Compensate, OneCompensator
      <3>2. CASE row[s] = "pending"
        <4>1. saga[s] = "COMPENSATING"
          BY <3>1, <3>2 DEF PendingHasOpenSaga, ActiveStates
        <4> QED BY <2>1, <3>2, <4>1 DEF Compensate, Lifecycle!Abandon
      <3>3. CASE row[s] # "pending" /\ saga[s] = "COMPENSATING"
        BY <2>1, <3>3 DEF Compensate, Lifecycle!Complete
      <3>4. CASE row[s] # "pending" /\ saga[s] = "COMPLETED"
        BY <2>1, <3>4 DEF Compensate
      <3> QED BY <3>1, <3>2, <3>3, <3>4
    <2> QED BY <1>2, <1>9, <2>1 DEF WorkerStep, Procs
  <1>10. ASSUME Fault \/ Environment \/ UNCHANGED vars PROVE UNCHANGED <<row, saga>>
    BY <1>10
       DEF Fault, RequestFails, CompensateFails, CleanupFails, Crash, Environment,
           DeadlinePasses, DeliverConfirmationMail, vars, tables
  <1> QED BY <1>1, <1>6, <1>7, <1>8, <1>9, <1>10 DEF Next

(***************************************************************************)
(* The service implements SubscriptionLifecycle: a reader of subscriptions *)
(* and subscribe_sagas sees each attempt confirmed or abandoned as a whole.*)
(***************************************************************************)
THEOREM Refinement == Spec => ImplementsLifecycle
  <1> QED BY InitRefines, StepRefines, InductiveInvariant, PTL
          DEF Spec, ImplementsLifecycle, Lifecycle!Spec

(***************************************************************************)
(* COMPLETED and FAILED are final.                                         *)
(***************************************************************************)
LEMMA StepKeepsTerminal ==
  IInv /\ [Next]_vars =>
    [\A s \in SubIds : saga[s] \in TerminalStates => saga'[s] = saga[s]]_vars
  <1> SUFFICES ASSUME IInv, [Next]_vars, NEW s \in SubIds, saga[s] \in TerminalStates
               PROVE  saga'[s] = saga[s]
    OBVIOUS
  <1> USE DEF TerminalStates, IInv, TypeOK
  <1>1. CASE UNCHANGED <<row, saga>>
    BY <1>1
  <1>2. CASE Lifecycle!Next
    <2>1. ASSUME NEW t \in SubIds,
                 \/ Lifecycle!Open(t) \/ Lifecycle!Await(t) \/ Lifecycle!Confirm(t)
                 \/ Lifecycle!Complete(t) \/ Lifecycle!Abandon(t)
          PROVE  saga'[s] = saga[s]
      BY <2>1 DEF Lifecycle!Open, Lifecycle!Await, Lifecycle!Confirm, Lifecycle!Complete,
                  Lifecycle!Abandon, Lifecycle!Active
    <2>2. ASSUME NEW S \in SUBSET SubIds, Lifecycle!BeginCompensation(S) \/ Lifecycle!Remove(S)
          PROVE  saga'[s] = saga[s]
      BY <2>2 DEF Lifecycle!BeginCompensation, Lifecycle!Remove, Lifecycle!Active
    <2> QED BY <1>2, <2>1, <2>2 DEF Lifecycle!Next
  <1> QED BY <1>1, <1>2, StepRefines

THEOREM VerdictsAreFinal == Spec => TerminalIsFinal
  <1> QED BY StepKeepsTerminal, InductiveInvariant, PTL DEF Spec, TerminalIsFinal

----------------------------------------------------------------------------
(* No fault, no leaked repository.                                         *)

(***************************************************************************)
(* An unsubscription carries the repository_id its subscription was found  *)
(* with, and a subscription never changes its repository: the cleanup that *)
(* follows the DELETE looks at the repository that lost a subscriber.      *)
(***************************************************************************)
DeletesKnowTheirRepo ==
    \A p \in Procs :
        job[p].pc = "delete" =>
            row[job[p].sub] # "unused" /\ key[job[p].sub].repo = job[p].repo

LeakInv == DeletesKnowTheirRepo /\ NoLeakedRepository

\* A goroutine with job j will still insert into repository r, or check it.
Tends(j, r) == j.pc \in {"insert", "check", "drop"} /\ j.repo = r

\* Repository r is stored and nobody is subscribed to it.
Orphan(r) == LiveRepo(r) /\ Subscribers(r) = {}

(***************************************************************************)
(* No step gives an id back or changes the columns of a stored row, so     *)
(* ids only run out.                                                       *)
(***************************************************************************)
LEMMA RowsKeepTheirKey ==
  ASSUME IInv, [Next]_vars
  PROVE  /\ \A s \in SubIds : row[s] # "unused" => row'[s] # "unused" /\ key'[s] = key[s]
         /\ IdsLeft' => IdsLeft
  <1>1. ASSUME NEW s \in SubIds, row[s] # "unused"
        PROVE  row'[s] # "unused" /\ key'[s] = key[s]
    <2> USE DEF IInv, TypeOK
    <2>1. CASE UNCHANGED <<row, key>>
      BY <1>1, <2>1
    <2>2. ASSUME NEW h \in Handlers, SubscribeInsert(h) PROVE row'[s] # "unused" /\ key'[s] = key[s]
      BY <1>1, <2>2 DEF SubscribeInsert
    <2>3. ASSUME UNCHANGED key,
                 \E t \in SubIds, v \in {"confirmed", "deleted"} : row' = [row EXCEPT ![t] = v]
          PROVE row'[s] # "unused" /\ key'[s] = key[s]
      BY <1>1, <2>3
    <2>4. ASSUME NEW p \in Procs, OrphanDrop(p) PROVE row'[s] # "unused" /\ key'[s] = key[s]
      BY <1>1, <2>4 DEF OrphanDrop
    <2>5. ASSUME NEW h \in Handlers, HandlerStart(h) PROVE row'[s] # "unused" /\ key'[s] = key[s]
      BY <2>1, <2>3, <2>5 DEF HandlerStart, SubscribeFind, ConfirmUpdate, UnsubscribeFind, tables
    <2>6. ASSUME NEW h \in Handlers, HandlerStep(h) PROVE row'[s] # "unused" /\ key'[s] = key[s]
      <3>1. CASE UnsubscribeDelete(h)
        <4>1. job[h].sub \in SubIds
          BY <3>1, JobShape DEF Procs, UnsubscribeDelete
        <4> QED BY <2>1, <2>3, <3>1, <4>1 DEF UnsubscribeDelete
      <3> QED BY <2>1, <2>2, <2>4, <2>6, <3>1
              DEF HandlerStep, SubscribeCreate, SubscribeRefind, HandleConfirmed, OrphanCheck,
                  tables, Procs
    <2>7. ASSUME NEW w \in Workers, WorkerStep(w) PROVE row'[s] # "unused" /\ key'[s] = key[s]
      BY <2>1, <2>3, <2>4, <2>7 DEF WorkerStep, Compensate, OrphanCheck, tables, Procs
    <2>8. ASSUME \/ \E c \in Consumers : ConsumerStart(c)
                 \/ \E w \in Reapers : ReaperStart(w)
                 \/ Fault \/ Environment \/ UNCHANGED vars
          PROVE  row'[s] # "unused" /\ key'[s] = key[s]
      BY <2>1, <2>8 DEF ConsumerStart, HandleEmailSent, HandleEmailFailed, ReaperStart, Reap, Fault,
            RequestFails, CompensateFails, CleanupFails, Crash, Environment, DeadlinePasses,
            DeliverConfirmationMail, tables, vars
    <2> QED BY <2>5, <2>6, <2>7, <2>8 DEF Next
  <1> QED BY <1>1 DEF IdsLeft

(***************************************************************************)
(* What one goroutine may do without leaking a repository: if repository r *)
(* becomes an orphan, or p has its hands on an orphan r, then p goes on    *)
(* with a job that tends r.                                                *)
(***************************************************************************)
LEMMA TendingStep ==
  ASSUME IInv, LeakInv, [Next]_vars,
         NEW p \in Procs, NEW j \in Jobs, Continue(p, j),
         j.pc = "delete" => row[j.sub] # "unused" /\ key[j.sub].repo = j.repo,
         errors' = errors, crashes' = crashes,
         \A r \in RepoIds : IdsLeft' /\ Orphan(r)' /\ ~Orphan(r) => Tends(j, r),
         \A r \in RepoIds : IdsLeft' /\ Orphan(r)' /\ Tends(job[p], r) => Tends(j, r)
  PROVE  LeakInv'
  <1>1. \A q \in Procs : job'[q] = IF q = p THEN j ELSE job[q]
    BY DEF Continue, IInv, TypeOK
  <1>2. DeletesKnowTheirRepo'
    <2> SUFFICES ASSUME NEW q \in Procs, job'[q].pc = "delete"
                 PROVE  row'[job'[q].sub] # "unused" /\ key'[job'[q].sub].repo = job'[q].repo
      BY DEF DeletesKnowTheirRepo
    <2>1. job'[q] \in Jobs /\ job'[q].sub \in SubIds
      <3>1. job'[q] \in Jobs
        BY <1>1 DEF IInv, TypeOK
      <3> QED BY <3>1, JobShape
    <2>2. row[job'[q].sub] # "unused" /\ key[job'[q].sub].repo = job'[q].repo
      BY <1>1 DEF LeakInv, DeletesKnowTheirRepo
    <2> QED BY <2>1, <2>2, RowsKeepTheirKey
  <1>3. NoLeakedRepository'
    <2> SUFFICES ASSUME IdsLeft', errors' = 0, crashes' = 0, NEW r \in RepoIds, Orphan(r)'
                 PROVE  \E q \in Procs : Tends(job'[q], r)
      BY DEF NoLeakedRepository, Orphan, Tends
    <2>1. CASE ~Orphan(r)
      BY <1>1, <2>1
    <2>2. CASE Orphan(r)
      <3>1. PICK q \in Procs : Tends(job[q], r)
        BY <2>2, RowsKeepTheirKey DEF LeakInv, NoLeakedRepository, Orphan, Tends
      <3> QED BY <1>1, <3>1
    <2> QED BY <2>1, <2>2
  <1> QED BY <1>2, <1>3 DEF LeakInv

\* A step that moves no goroutine and stores nothing about repositories.
LEMMA BystanderStep ==
  ASSUME IInv, LeakInv, UNCHANGED <<repos, row, key, job>>, UNCHANGED faults
  PROVE  LeakInv'
  BY DEF LeakInv, DeletesKnowTheirRepo, NoLeakedRepository, IdsLeft, LiveRepo, Subscribers, LiveRow,
         faults

\* After a fault nothing is promised but that unsubscriptions know their repository.
LEMMA FaultyStep ==
  ASSUME IInv, LeakInv, UNCHANGED tables,
         \A q \in Procs : job'[q] \in {job[q], Idle},
         errors' # 0 \/ crashes' # 0
  PROVE  LeakInv'
  <1>1. DeletesKnowTheirRepo'
    BY DEF LeakInv, DeletesKnowTheirRepo, tables, Idle
  <1>2. NoLeakedRepository'
    BY DEF NoLeakedRepository
  <1> QED BY <1>1, <1>2 DEF LeakInv

\* A step that only moves p, by a read: p must not let go of an orphan.
LEMMA ReadingStep ==
  ASSUME IInv, LeakInv, [Next]_vars, UNCHANGED <<repos, row, key, faults>>,
         NEW p \in Procs, NEW j \in Jobs, Continue(p, j),
         j.pc = "delete" => row[j.sub] # "unused" /\ key[j.sub].repo = j.repo,
         \A r \in RepoIds : Orphan(r) /\ Tends(job[p], r) => Tends(j, r)
  PROVE  LeakInv'
  <1>1. \A r \in RepoIds : Orphan(r)' <=> Orphan(r)
    BY DEF Orphan, LiveRepo, Subscribers, LiveRow
  <1>2. errors' = errors /\ crashes' = crashes
    BY DEF faults
  <1> QED BY <1>1, <1>2, TendingStep

LEMMA HandlerStartLeaksNothing ==
  ASSUME IInv, LeakInv, [Next]_vars, NEW h \in Handlers, HandlerStart(h)
  PROVE  LeakInv'
  <1>1. h \in Procs /\ \A r \in RepoIds : ~Tends(job[h], r)
    <2>1. job[h] = Idle
      BY DEF HandlerStart, SubscribeFind, ConfirmUpdate, UnsubscribeFind
    <2> QED BY <2>1 DEF Procs, Tends, Idle
  <1>2. ASSUME NEW e \in Emails, NEW n \in Names, SubscribeFind(h, e, n) PROVE LeakInv'
    <2>1. PICK j \in Jobs : j.pc # "delete" /\ Continue(h, j)
      BY <1>2, JobsBuilt DEF SubscribeFind, InsertJob
    <2> QED BY <1>1, <1>2, <2>1, ReadingStep DEF SubscribeFind, tables
  <1>3. ASSUME NEW s \in SubIds, ConfirmUpdate(h, s) PROVE LeakInv'
    <2>1. \A r \in RepoIds : Orphan(r)' <=> Orphan(r)
      BY <1>3 DEF ConfirmUpdate, IInv, TypeOK, Orphan, LiveRepo, Subscribers, LiveRow
    <2>2. [pc |-> "advance", sub |-> s] \in Jobs
      BY JobsBuilt
    <2> QED BY <1>1, <1>3, <2>1, <2>2, TendingStep DEF ConfirmUpdate, faults
  <1>4. ASSUME NEW s \in SubIds, UnsubscribeFind(h, s) PROVE LeakInv'
    <2> DEFINE j == [pc |-> "delete", sub |-> s, repo |-> key[s].repo]
    <2>1. LiveRow(s) /\ Continue(h, j)
      BY <1>4 DEF UnsubscribeFind
    <2>2. row[s] # "unused" /\ j \in Jobs
      BY <2>1, JobsBuilt DEF LiveRow, IInv, RowsHaveSagas, Keys
    <2> QED BY <1>1, <1>4, <2>1, <2>2, ReadingStep DEF UnsubscribeFind, tables
  <1> QED BY <1>2, <1>3, <1>4 DEF HandlerStart

LEMMA SubscribeCreateLeaksNothing ==
  ASSUME IInv, LeakInv, [Next]_vars, NEW h \in Handlers, SubscribeCreate(h)
  PROVE  LeakInv'
  <1>1. h \in Procs /\ job[h] \in Jobs /\ job[h].pc = "create" /\ job[h].email \in Emails
    BY JobShape DEF IInv, TypeOK, Procs, SubscribeCreate
  <1>2. CASE UNCHANGED repos
    <2>1. PICK j \in Jobs : j.pc # "delete" /\ Continue(h, j)
      <3>1. CASE Continue(h, [job[h] EXCEPT !.pc = "refind"])
        <4>1. [job[h] EXCEPT !.pc = "refind"]
                = [pc |-> "refind", email |-> job[h].email, name |-> job[h].name]
          BY <1>1, JobShape
        <4> QED BY <1>1, <3>1, <4>1, JobShape, JobsBuilt
      <3>2. CASE \E r \in RepoIds : Continue(h, InsertJob(job[h].email, r))
        BY <1>1, <3>2, JobsBuilt DEF InsertJob
      <3>3. CASE Return(h)
        BY <3>3, JobsBuilt DEF Return, Idle
      <3> QED BY <3>1, <3>2, <3>3 DEF SubscribeCreate
    <2> QED BY <1>1, <1>2, <2>1, ReadingStep DEF SubscribeCreate, Tends
  <1>3. ASSUME NEW r \in RepoIds, CreateRepo(r, job[h].name), Continue(h, InsertJob(job[h].email, r))
        PROVE  LeakInv'
    <2>1. InsertJob(job[h].email, r) \in Jobs
      BY <1>1, JobsBuilt
    <2>2. \A q \in RepoIds : Orphan(q)' /\ ~Orphan(q) => Tends(InsertJob(job[h].email, r), q)
      BY <1>3
         DEF SubscribeCreate, IInv, TypeOK, Orphan, LiveRepo, Subscribers, LiveRow, Tends, InsertJob
    <2>3. \A q \in RepoIds : ~Tends(job[h], q)
      BY <1>1 DEF Tends
    <2>4. errors' = errors /\ crashes' = crashes /\ InsertJob(job[h].email, r).pc # "delete"
      BY DEF SubscribeCreate, faults, InsertJob
    <2> QED BY <1>1, <1>3, <2>1, <2>2, <2>3, <2>4, TendingStep
  <1> QED BY <1>2, <1>3 DEF SubscribeCreate

LEMMA SubscribeInsertLeaksNothing ==
  ASSUME IInv, LeakInv, [Next]_vars, NEW h \in Handlers, SubscribeInsert(h)
  PROVE  LeakInv'
  <1> DEFINE r == job[h].repo
  <1>1. h \in Procs /\ job[h].pc = "insert" /\ r \in RepoIds
    BY JobShape DEF IInv, TypeOK, Procs, SubscribeInsert
  <1>2. \A q \in RepoIds : IdsLeft' /\ Orphan(q)' => Orphan(q) /\ q # r
    <2>1. ASSUME NEW s \in SubIds, row[s] = "unused",
                 row' = [row EXCEPT ![s] = "pending"],
                 key' = [key EXCEPT ![s] = [email |-> job[h].email, repo |-> r]]
          PROVE  \A q \in RepoIds : Orphan(q)' => Orphan(q) /\ q # r
      <3>1. \A t \in SubIds : LiveRow(t) => LiveRow(t)' /\ key'[t] = key[t]
        BY <2>1 DEF LiveRow, IInv, TypeOK
      <3>2. LiveRow(s)' /\ key'[s].repo = r
        BY <2>1 DEF LiveRow, IInv, TypeOK
      <3> QED BY <3>1, <3>2 DEF Orphan, Subscribers, LiveRepo, SubscribeInsert
    <2>2. CASE ~CanInsert(job[h].email, r) /\ UNCHANGED <<row, key, saga>>
      BY <2>2 DEF CanInsert, Orphan, Subscribers, LiveRepo, LiveRow, IdsLeft, SubscribeInsert
    <2> QED BY <2>1, <2>2 DEF SubscribeInsert
  <1>3. \A q \in RepoIds : Tends(job[h], q) => q = r
    BY DEF Tends
  <1>4. /\ Idle \in Jobs /\ Idle.pc # "delete" /\ Continue(h, Idle)
        /\ errors' = errors /\ crashes' = crashes
    BY JobsBuilt DEF SubscribeInsert, Return, faults, Idle
  <1> QED BY <1>1, <1>2, <1>3, <1>4, TendingStep

LEMMA UnsubscribeDeleteLeaksNothing ==
  ASSUME IInv, LeakInv, [Next]_vars, NEW h \in Handlers, UnsubscribeDelete(h)
  PROVE  LeakInv'
  <1> DEFINE r == job[h].repo
             s == job[h].sub
  <1>1. h \in Procs /\ job[h].pc = "delete" /\ r \in RepoIds /\ s \in SubIds
    BY JobShape DEF IInv, TypeOK, Procs, UnsubscribeDelete
  <1>2. key[s].repo = r /\ \A q \in RepoIds : ~Tends(job[h], q)
    BY <1>1 DEF LeakInv, DeletesKnowTheirRepo, Tends
  <1>3. CASE row' = [row EXCEPT ![s] = "deleted"] /\ Continue(h, CheckJob(r))
    <2>1. \A q \in RepoIds : Orphan(q)' /\ ~Orphan(q) => Tends(CheckJob(r), q)
      BY <1>1, <1>2, <1>3
         DEF UnsubscribeDelete, IInv, TypeOK, Orphan, LiveRepo, Subscribers, LiveRow, Tends, CheckJob
    <2>2. CheckJob(r) \in Jobs /\ CheckJob(r).pc # "delete"
      BY <1>1, JobsBuilt DEF CheckJob
    <2>3. errors' = errors /\ crashes' = crashes
      BY DEF UnsubscribeDelete, faults
    <2> QED BY <1>1, <1>2, <1>3, <2>1, <2>2, <2>3, TendingStep
  <1>4. CASE Return(h) /\ UNCHANGED row
    BY <1>1, <1>2, <1>4, JobsBuilt, ReadingStep DEF UnsubscribeDelete, Return, Idle
  <1> QED BY <1>3, <1>4 DEF UnsubscribeDelete

LEMMA OrphanCheckLeaksNothing ==
  ASSUME IInv, LeakInv, [Next]_vars, NEW p \in Procs, OrphanCheck(p)
  PROVE  LeakInv'
  <1> DEFINE r == job[p].repo
  <1>1. r \in RepoIds /\ job[p] = [pc |-> "check", repo |-> r]
    BY JobShape DEF IInv, TypeOK, OrphanCheck
  <1>2. CASE Subscribers(r) # {} /\ Return(p)
    <2>1. \A q \in RepoIds : ~(Orphan(q) /\ Tends(job[p], q))
      BY <1>2 DEF Orphan, Tends
    <2>2. Idle \in Jobs /\ Idle.pc # "delete"
      BY JobsBuilt DEF Idle
    <2> QED BY <1>2, <2>1, <2>2, ReadingStep DEF OrphanCheck, Return, tables
  <1>3. CASE Continue(p, [job[p] EXCEPT !.pc = "drop"])
    <2> DEFINE j == [pc |-> "drop", repo |-> r]
    <2>1. j \in Jobs /\ [job[p] EXCEPT !.pc = "drop"] = j
      BY <1>1, JobsBuilt
    <2>2. \A q \in RepoIds : Tends(job[p], q) => Tends(j, q)
      BY DEF Tends
    <2> QED BY <1>3, <2>1, <2>2, ReadingStep DEF OrphanCheck, tables
  <1> QED BY <1>2, <1>3 DEF OrphanCheck

LEMMA OrphanDropLeaksNothing ==
  ASSUME IInv, LeakInv, [Next]_vars, NEW p \in Procs, OrphanDrop(p)
  PROVE  LeakInv'
  <1>1. PICK r \in RepoIds : r = job[p].repo
    BY JobShape DEF IInv, TypeOK, OrphanDrop
  <1>2. ~LiveRepo(r)'
    <2>1. CASE LiveRepo(r) /\ repos' = [repos EXCEPT ![r] = "deleted"]
      BY <2>1, NamesAssumption DEF LiveRepo, IInv, TypeOK
    <2>2. CASE ~LiveRepo(r) /\ UNCHANGED repos
      BY <2>2 DEF LiveRepo
    <2> QED BY <1>1, <2>1, <2>2 DEF OrphanDrop
  <1>3. \A q \in RepoIds \ {r} : Orphan(q)' => Orphan(q)
    <2> SUFFICES ASSUME NEW q \in RepoIds \ {r}, NEW t \in SubIds, LiveRow(t), key[t].repo = q
                 PROVE  LiveRow(t)'
      <3>1. \A q \in RepoIds \ {r} : LiveRepo(q)' => LiveRepo(q)
        BY <1>1 DEF OrphanDrop, IInv, TypeOK, LiveRepo
      <3> QED BY <3>1 DEF OrphanDrop, Orphan, Subscribers
    <2>1. t \notin Subscribers(r)
      BY DEF Subscribers
    <2>2. row'[t] = row[t]
      BY <1>1, <2>1 DEF OrphanDrop
    <2> QED BY <2>2 DEF LiveRow
  <1>4. /\ Idle \in Jobs /\ Idle.pc # "delete" /\ Continue(p, Idle)
        /\ errors' = errors /\ crashes' = crashes
    BY JobsBuilt DEF OrphanDrop, Return, faults, Idle
  <1>5. \A q \in RepoIds : Orphan(q)' => Orphan(q) /\ q # r
    BY <1>2, <1>3 DEF Orphan
  <1>6. \A q \in RepoIds : Tends(job[p], q) => q = r
    BY <1>1 DEF Tends
  <1> QED BY <1>4, <1>5, <1>6, TendingStep

LEMMA CompensateLeaksNothing ==
  ASSUME IInv, LeakInv, [Next]_vars, NEW w \in Workers, NEW s \in SubIds, Compensate(w, s)
  PROVE  LeakInv'
  <1> DEFINE r == key[s].repo
  <1>1. w \in Procs /\ \A q \in RepoIds : ~Tends(job[w], q)
    BY DEF Compensate, Procs, Tends, Idle
  <1>2. CASE row[s] = "pending" /\ row' = [row EXCEPT ![s] = "deleted"] /\ Continue(w, CheckJob(r))
    <2>1. \A q \in RepoIds : Orphan(q)' /\ ~Orphan(q) => Tends(CheckJob(r), q)
      BY <1>2
         DEF Compensate, IInv, TypeOK, Orphan, LiveRepo, Subscribers, LiveRow, Tends, CheckJob
    <2>2. CheckJob(r) \in Jobs /\ CheckJob(r).pc # "delete"
      BY <1>2, JobsBuilt DEF CheckJob, IInv, RowsHaveSagas, Keys
    <2>3. errors' = errors /\ crashes' = crashes
      BY DEF Compensate, faults
    <2> QED BY <1>1, <1>2, <2>1, <2>2, <2>3, TendingStep
  <1>3. CASE UNCHANGED <<row, job>>
    BY <1>3, BystanderStep DEF Compensate
  <1> QED BY <1>2, <1>3 DEF Compensate

(***************************************************************************)
(* LeakInv is inductive, given the inductive invariant of the tables.      *)
(***************************************************************************)
LEMMA NextLeaksNothing == IInv /\ LeakInv /\ [Next]_vars => LeakInv'
  <1> SUFFICES ASSUME IInv, LeakInv, [Next]_vars PROVE LeakInv'
    OBVIOUS
  <1>1. ASSUME NEW h \in Handlers, HandlerStep(h) PROVE LeakInv'
    <2>1. CASE SubscribeRefind(h)
      <3>1. PICK j \in Jobs : j.pc # "delete" /\ Continue(h, j)
        <4>1. job[h] \in Jobs
          BY DEF IInv, TypeOK, Procs
        <4> QED BY <2>1, <4>1, JobShape, JobsBuilt DEF SubscribeRefind, InsertJob, Return, Idle
      <3> QED BY <2>1, <3>1, ReadingStep DEF SubscribeRefind, tables, Tends, Procs
    <2>2. CASE HandleConfirmed(h)
      BY <2>2, JobsBuilt, ReadingStep DEF HandleConfirmed, Return, Idle, Tends, Procs
    <2> QED BY <1>1, <2>1, <2>2, SubscribeCreateLeaksNothing, SubscribeInsertLeaksNothing,
               UnsubscribeDeleteLeaksNothing, OrphanCheckLeaksNothing, OrphanDropLeaksNothing
            DEF HandlerStep, Procs
  <1>2. ASSUME NEW w \in Workers, WorkerStep(w) PROVE LeakInv'
    BY <1>2, CompensateLeaksNothing, OrphanCheckLeaksNothing, OrphanDropLeaksNothing
       DEF WorkerStep, Procs
  <1>3. CASE \/ \E c \in Consumers : ConsumerStart(c)
             \/ \E w \in Reapers : ReaperStart(w)
             \/ Environment \/ UNCHANGED vars
    BY <1>3, BystanderStep
       DEF ConsumerStart, HandleEmailSent, HandleEmailFailed, ReaperStart, Reap, Environment,
           DeadlinePasses, DeliverConfirmationMail, tables, vars
  <1>4. CASE Fault
    <2>1. UNCHANGED tables /\ \A q \in Procs : job'[q] \in {job[q], Idle}
      BY <1>4 DEF Fault, RequestFails, CompensateFails, CleanupFails, Crash, Return, Continue,
            tables, IInv, TypeOK
    <2>2. errors' # 0 \/ crashes' # 0
      BY <1>4 DEF Fault, RequestFails, CompensateFails, CleanupFails, Crash, IInv, TypeOK
    <2> QED BY <2>1, <2>2, FaultyStep
  <1> QED BY <1>1, <1>2, <1>3, <1>4, HandlerStartLeaksNothing DEF Next

LEMMA InitLeaksNothing == Init => LeakInv
  BY NamesAssumption
     DEF Init, LeakInv, DeletesKnowTheirRepo, NoLeakedRepository, LiveRepo, Idle

(***************************************************************************)
(* Ensure and DeleteIfOrphaned run outside the transactions that insert    *)
(* and delete subscriptions.  Without failed statements and crashes they   *)
(* still leave no repository behind that nobody is subscribed to: whatever *)
(* the interleaving of requests, replies, reapers and replicas, an orphan  *)
(* is in the hands of a goroutine that will subscribe to it or check it.   *)
(***************************************************************************)
THEOREM OrphansAreTended == Spec => []NoLeakedRepository
  <1>1. LeakInv => NoLeakedRepository
    BY DEF LeakInv
  <1> QED BY <1>1, InitIInv, NextKeeps, InitLeaksNothing, NextLeaksNothing, PTL DEF Spec

----------------------------------------------------------------------------
(* The safety core of CompensationEnds: what was begun is in somebody's    *)
(* hands, and whoever has it goes on with it.                              *)

(***************************************************************************)
(* Without a fault a saga is COMPENSATING only while a consumer or a       *)
(* reaper has it on its list (orchestrator.go:68, reaper.go:50).  A crash  *)
(* is what makes one of them stay for ever (see CompensationIsRecovered).  *)
(***************************************************************************)
CompensationsAreHeld ==
    errors = 0 /\ crashes = 0 =>
        \A s \in SubIds : saga[s] = "COMPENSATING" => \E w \in Workers : s \in batch[w]

\* How many statements a goroutine has ahead of it at most.
StatementsLeft(j) ==
    CASE j.pc \in {"create", "delete"} -> 3
      [] j.pc \in {"refind", "check"} -> 2
      [] j.pc \in {"insert", "drop", "advance"} -> 1
      [] OTHER -> 0

\* What a step may do to the goroutines.
Advances ==
    /\ \A p \in Procs :
          job[p] # Idle /\ job'[p] # job[p] => StatementsLeft(job'[p]) < StatementsLeft(job[p])
    /\ \A w \in Workers : batch[w] # {} => batch'[w] \subseteq batch[w]

(***************************************************************************)
(* A goroutine that is under way gets nearer to its end with each step,    *)
(* and a worker takes no new sagas before it has gone through its list.    *)
(***************************************************************************)
GoroutinesAdvance == [][Advances]_vars

\* A saga that is COMPENSATING after a step is on a list then, or was and stays there.
LEMMA HeldStep ==
  ASSUME CompensationsAreHeld, UNCHANGED faults,
         \A s \in SubIds : saga'[s] = "COMPENSATING" =>
            \/ \E w \in Workers : s \in batch'[w]
            \/ saga[s] = "COMPENSATING" /\ \A w \in Workers : s \in batch[w] => s \in batch'[w]
  PROVE  CompensationsAreHeld'
  <1>1. errors' = errors /\ crashes' = crashes
    BY DEF faults
  <1> SUFFICES ASSUME errors = 0, crashes = 0, NEW s \in SubIds, saga'[s] = "COMPENSATING"
               PROVE  \E w \in Workers : s \in batch'[w]
    BY <1>1 DEF CompensationsAreHeld
  <1> QED BY DEF CompensationsAreHeld

LEMMA NextHolds == IInv /\ CompensationsAreHeld /\ [Next]_vars => CompensationsAreHeld'
  <1> SUFFICES ASSUME IInv, CompensationsAreHeld, [Next]_vars PROVE CompensationsAreHeld'
    OBVIOUS
  <1>1. CASE UNCHANGED <<saga, batch, faults>>
    BY <1>1, HeldStep
  <1>2. ASSUME NEW h \in Handlers, HandlerStart(h) \/ HandlerStep(h)
        PROVE  CompensationsAreHeld'
    <2>1. CASE SubscribeInsert(h)
      <3>1. \A s \in SubIds : saga'[s] = "COMPENSATING" => saga[s] = "COMPENSATING"
        BY <2>1 DEF SubscribeInsert, IInv, TypeOK
      <3> QED BY <2>1, <3>1, HeldStep DEF SubscribeInsert
    <2>2. CASE HandleConfirmed(h)
      <3>1. \A s \in SubIds : saga'[s] = "COMPENSATING" => saga[s] = "COMPENSATING"
        BY <2>2 DEF HandleConfirmed, IInv, TypeOK
      <3> QED BY <2>2, <3>1, HeldStep DEF HandleConfirmed
    <2> QED BY <1>1, <1>2, <2>1, <2>2
            DEF HandlerStart, SubscribeFind, ConfirmUpdate, UnsubscribeFind, HandlerStep,
                SubscribeCreate, SubscribeRefind, UnsubscribeDelete, OrphanCheck, OrphanDrop, tables
  <1>3. ASSUME NEW c \in Consumers, NEW s \in SubIds, HandleEmailSent(c, s)
        PROVE  CompensationsAreHeld'
    <2>1. \A t \in SubIds : saga'[t] = "COMPENSATING" => saga[t] = "COMPENSATING"
      BY <1>3 DEF HandleEmailSent, IInv, TypeOK
    <2> QED BY <1>3, <2>1, HeldStep DEF HandleEmailSent
  <1>4. ASSUME NEW w \in Workers, NEW S \in SUBSET SubIds, batch[w] = {}, UNCHANGED faults,
               batch' = [batch EXCEPT ![w] = S],
               \A t \in SubIds : saga'[t] = IF t \in S THEN "COMPENSATING" ELSE saga[t]
        PROVE  CompensationsAreHeld'
    <2>1. \A v \in Workers : batch'[v] = IF v = w THEN S ELSE batch[v]
      BY <1>4 DEF IInv, TypeOK
    <2> QED BY <1>4, <2>1, HeldStep
  <1>5. ASSUME NEW c \in Consumers, NEW s \in SubIds, HandleEmailFailed(c, s)
        PROVE  CompensationsAreHeld'
    <2>1. /\ batch[c] = {} /\ batch' = [batch EXCEPT ![c] = {s}] /\ UNCHANGED faults
          /\ \A t \in SubIds : saga'[t] = IF t \in {s} THEN "COMPENSATING" ELSE saga[t]
      BY <1>5 DEF HandleEmailFailed, ReadyWorker, IInv, TypeOK
    <2>2. c \in Workers /\ {s} \in SUBSET SubIds
      BY DEF Workers
    <2> QED BY <1>4, <2>1, <2>2
  <1>6. ASSUME NEW w \in Reapers, NEW S \in SUBSET SubIds, Reap(w, S)
        PROVE  CompensationsAreHeld'
    BY <1>4, <1>6 DEF Reap, ReadyWorker, Workers
  <1>7. ASSUME NEW w \in Workers, NEW s \in SubIds, Compensate(w, s)
        PROVE  CompensationsAreHeld'
    <2>1. \A v \in Workers : batch[v] \ {s} \subseteq batch'[v]
      BY <1>7 DEF Compensate, IInv, TypeOK
    <2>2. \A t \in SubIds : saga'[t] = "COMPENSATING" => t # s /\ saga[t] = "COMPENSATING"
      BY <1>7 DEF Compensate, IInv, TypeOK
    <2> QED BY <1>7, <2>1, <2>2, HeldStep DEF Compensate
  <1>8. CASE Fault
    <2>1. errors' # 0 \/ crashes' # 0
      BY <1>8 DEF Fault, RequestFails, CompensateFails, CleanupFails, Crash, IInv, TypeOK
    <2> QED BY <2>1 DEF CompensationsAreHeld
  <1>9. CASE Environment \/ UNCHANGED vars
    BY <1>1, <1>9 DEF Environment, DeadlinePasses, DeliverConfirmationMail, tables, vars
  <1>10. ASSUME NEW w \in Workers, WorkerStep(w)
         PROVE  CompensationsAreHeld'
    BY <1>1, <1>7, <1>10 DEF WorkerStep, OrphanCheck, OrphanDrop, tables
  <1> QED BY <1>2, <1>3, <1>5, <1>6, <1>8, <1>9, <1>10 DEF Next, ConsumerStart, ReaperStart

(***************************************************************************)
(* Without a fault every COMPENSATING saga is on the list of a consumer or *)
(* a reaper, however many of them run: the commit of COMPENSATING and the  *)
(* compensation that follows it are separated by nothing but a crash or a  *)
(* failed transaction.                                                     *)
(***************************************************************************)
THEOREM CompensationsAreInHand == Spec => []CompensationsAreHeld
  <1>1. Init => CompensationsAreHeld
    BY DEF Init, CompensationsAreHeld
  <1> QED BY <1>1, InitIInv, NextKeeps, NextHolds, PTL DEF Spec

(***************************************************************************)
(* A goroutine that takes up job j while the others stand still.           *)
(***************************************************************************)
LEMMA ContinueAdvances ==
  ASSUME TypeOK, NEW p \in Procs, NEW j, Continue(p, j),
         job[p] # Idle => StatementsLeft(j) < StatementsLeft(job[p]),
         \A w \in Workers : batch[w] # {} => batch'[w] \subseteq batch[w]
  PROVE  Advances
  BY DEF TypeOK, Continue, Advances

\* A job other than Idle has a statement left.
LEMMA ReturnIsLess ==
  ASSUME NEW j \in Jobs, j # Idle
  PROVE  StatementsLeft(Idle) < StatementsLeft(j)
  BY DEF Jobs, Idle, SubscribeJobs, ConfirmJobs, DeleteJobs, CleanupJobs, StatementsLeft

LEMMA ReturnAdvances ==
  ASSUME TypeOK, NEW p \in Procs, Return(p),
         \A w \in Workers : batch[w] # {} => batch'[w] \subseteq batch[w]
  PROVE  Advances
  <1>1. job[p] \in Jobs
    BY DEF TypeOK
  <1> QED BY <1>1, ReturnIsLess, ContinueAdvances DEF Return

LEMMA StandingStillAdvances ==
  ASSUME UNCHANGED job, \A w \in Workers : batch[w] # {} => batch'[w] \subseteq batch[w]
  PROVE  Advances
  BY DEF Advances

LEMMA HandlerAdvances ==
  ASSUME TypeOK, NEW h \in Handlers, HandlerStart(h) \/ HandlerStep(h) \/ RequestFails(h)
  PROVE  Advances
  <1> USE DEF Procs
  <1>1. \A w \in Workers : batch[w] # {} => batch'[w] \subseteq batch[w]
    BY DEF HandlerStart, SubscribeFind, ConfirmUpdate, UnsubscribeFind, HandlerStep, SubscribeCreate,
           SubscribeRefind, SubscribeInsert, HandleConfirmed, UnsubscribeDelete, OrphanCheck,
           OrphanDrop, RequestFails
  <1>2. CASE Return(h)
    BY <1>1, <1>2, ReturnAdvances
  <1>3. CASE HandlerStart(h)
    <2>1. job[h] = Idle /\ \E j : Continue(h, j)
      BY <1>3 DEF HandlerStart, SubscribeFind, ConfirmUpdate, UnsubscribeFind
    <2> QED BY <1>1, <2>1, ContinueAdvances
  <1>4. ASSUME NEW j, Continue(h, j), StatementsLeft(j) < StatementsLeft(job[h])
        PROVE  Advances
    BY <1>1, <1>4, ContinueAdvances
  <1>5. CASE SubscribeCreate(h) /\ ~Return(h)
    <2>1. job[h].pc = "create" /\ [job[h] EXCEPT !.pc = "refind"].pc = "refind"
      BY <1>5, JobShape DEF SubscribeCreate, TypeOK
    <2>2. StatementsLeft(job[h]) = 3 /\ StatementsLeft([job[h] EXCEPT !.pc = "refind"]) = 2
      BY <2>1 DEF StatementsLeft
    <2>3. \A r \in RepoIds : StatementsLeft(InsertJob(job[h].email, r)) = 1
      BY DEF StatementsLeft, InsertJob
    <2> QED BY <1>4, <1>5, <2>2, <2>3 DEF SubscribeCreate
  <1>6. CASE SubscribeRefind(h) /\ ~Return(h)
    <2>1. StatementsLeft(job[h]) = 2
      BY <1>6 DEF SubscribeRefind, StatementsLeft
    <2>2. \A r \in RepoIds : StatementsLeft(InsertJob(job[h].email, r)) = 1
      BY DEF StatementsLeft, InsertJob
    <2> QED BY <1>4, <1>6, <2>1, <2>2 DEF SubscribeRefind
  <1>7. CASE UnsubscribeDelete(h) /\ ~Return(h)
    <2>1. StatementsLeft(job[h]) = 3 /\ StatementsLeft(CheckJob(job[h].repo)) = 2
      BY <1>7 DEF UnsubscribeDelete, StatementsLeft, CheckJob
    <2> QED BY <1>4, <1>7, <2>1 DEF UnsubscribeDelete
  <1>8. CASE OrphanCheck(h) /\ ~Return(h)
    <2>1. job[h] = [pc |-> "check", repo |-> job[h].repo]
      BY <1>8, JobShape DEF OrphanCheck, TypeOK
    <2>2. StatementsLeft(job[h]) = 2 /\ StatementsLeft([job[h] EXCEPT !.pc = "drop"]) = 1
      BY <2>1 DEF StatementsLeft
    <2> QED BY <1>4, <1>8, <2>2 DEF OrphanCheck
  <1> QED BY <1>2, <1>3, <1>5, <1>6, <1>7, <1>8
          DEF HandlerStep, SubscribeInsert, HandleConfirmed, OrphanDrop, RequestFails

LEMMA WorkerAdvances ==
  ASSUME TypeOK, NEW w \in Workers,
         \/ WorkerStep(w) \/ CleanupFails(w)
         \/ \E s \in SubIds : CompensateFails(w, s)
         \/ w \in Consumers /\ ConsumerStart(w)
         \/ w \in Reapers /\ ReaperStart(w)
  PROVE  Advances
  <1> USE DEF Procs
  <1>1. \A v \in Workers : batch[v] # {} => batch'[v] \subseteq batch[v]
    <2>1. \/ UNCHANGED batch
          \/ \E s \in SubIds : batch' = [batch EXCEPT ![w] = @ \ {s}]
          \/ batch[w] = {} /\ \E S \in SUBSET SubIds : batch' = [batch EXCEPT ![w] = S]
      BY DEF WorkerStep, Compensate, OrphanCheck, OrphanDrop, CleanupFails, CompensateFails,
             ConsumerStart, HandleEmailSent, HandleEmailFailed, ReaperStart, Reap, ReadyWorker
    <2> QED BY <2>1 DEF TypeOK
  <1>2. CASE Return(w)
    BY <1>1, <1>2, ReturnAdvances
  <1>3. CASE UNCHANGED job
    BY <1>1, <1>3, StandingStillAdvances
  <1>4. CASE \E s \in SubIds : Compensate(w, s)
    <2>1. CASE job[w] = Idle /\ \E j : Continue(w, j)
      BY <1>1, <2>1, ContinueAdvances
    <2> QED BY <1>3, <1>4, <2>1 DEF Compensate
  <1>5. CASE OrphanCheck(w) /\ ~Return(w)
    <2>1. job[w] = [pc |-> "check", repo |-> job[w].repo]
      BY <1>5, JobShape DEF OrphanCheck, TypeOK
    <2>2. StatementsLeft(job[w]) = 2 /\ StatementsLeft([job[w] EXCEPT !.pc = "drop"]) = 1
      BY <2>1 DEF StatementsLeft
    <2> QED BY <1>1, <1>5, <2>2, ContinueAdvances DEF OrphanCheck
  <1> QED BY <1>2, <1>3, <1>4, <1>5
          DEF WorkerStep, OrphanDrop, CleanupFails, CompensateFails, ConsumerStart,
              HandleEmailSent, HandleEmailFailed, ReaperStart, Reap

LEMMA NextAdvances == TypeOK /\ [Next]_vars => [Advances]_vars
  <1> SUFFICES ASSUME TypeOK, Next PROVE Advances
    OBVIOUS
  <1>1. CASE Environment
    BY <1>1, StandingStillAdvances DEF Environment, DeadlinePasses, DeliverConfirmationMail
  <1>2. CASE Crash
    <2>1. \A p \in Procs : job[p] \in Jobs /\ job'[p] = Idle
      BY <1>2 DEF Crash, TypeOK
    <2>2. \A w \in Workers : batch'[w] = {}
      BY <1>2 DEF Crash
    <2> QED BY <2>1, <2>2, ReturnIsLess DEF Advances
  <1> QED BY <1>1, <1>2, HandlerAdvances, WorkerAdvances DEF Next, Fault, Workers

(***************************************************************************)
(* No goroutine goes round in circles and no worker takes new sagas before *)
(* it is done with the old ones: a request has four statements at most, a  *)
(* compensation a transaction and two (confirm.go, unsubscribe.go,         *)
(* delete_orphaned.go, reaper.go).  With CompensationsAreInHand, only      *)
(* fairness is missing to CompensationEnds.                                *)
(***************************************************************************)
THEOREM GoroutinesEnd == Spec => GoroutinesAdvance
  <1> QED BY TypeCorrect, NextAdvances, PTL DEF Spec, GoroutinesAdvance, Advances

=============================================================================
