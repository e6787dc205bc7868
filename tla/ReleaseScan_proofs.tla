-------------------------- MODULE ReleaseScan_proofs --------------------------
(***************************************************************************)
(* Proofs about the release scanner, for any repositories, tags, scanner   *)
(* processes and faults.                                                   *)
(*                                                                         *)
(* As long as the scanners have not overlapped, the one that runs knows    *)
(* the cursors: every entry of its snapshot, and every answer it has not   *)
(* dealt with, carries the cursor the repository still has, and there is   *)
(* one such entry or answer for a repository.  So HasNewRelease compares   *)
(* with the current cursor, although it reads the snapshot.                *)
(***************************************************************************)
EXTENDS ReleaseScan, TLAPS

\* Only one process runs, unless two of them have overlapped.
OneScanner ==
    /\ \A w \in Scanners : mode[w] = "off" => todo[w] = {} /\ answers[w] = {}
    /\ ~overlap => \A v, w \in Scanners : mode[v] # "off" /\ mode[w] # "off" => v = w
    /\ \A w \in Scanners : mode[w] = "idle" => todo[w] = {} /\ answers[w] = {}

\* The scanner that is alone knows the cursors.
SnapshotIsCurrent ==
    ~overlap =>
        \A w \in Scanners :
            /\ \A t \in todo[w] : t.seen = cursor[t.repo]
            /\ \A a \in answers[w] : a.seen = cursor[a.repo]
            /\ \A t \in todo[w] : \A a \in answers[w] : t.repo # a.repo
            /\ \A a, b \in answers[w] : a.repo = b.repo => a = b

\* The cursor is the last announcement, and nothing precedes the first scan.
CursorIsLast ==
    ~overlap =>
        \A r \in Repos :
            /\ cursor[r] = Missing => events[r] = <<>>
            /\ events[r] # <<>> => cursor[r] = events[r][Len(events[r])]

IInv ==
    /\ TypeOK
    /\ OneScanner
    /\ SnapshotIsCurrent
    /\ CursorIsLast
    /\ RepeatNeedsOverlap

LEMMA InitIInv == Init => IInv
  <1> SUFFICES ASSUME Init PROVE IInv
    OBVIOUS
  <1> USE DEF Init
  <1>1. TypeOK
    <2>1. 0 \in 0..MaxReleases /\ 0 \in 0..MaxFaults
      BY ScanBounds
    <2>2. /\ catalog \in [Repos -> {"new", "tracked", "deleted"}]
          /\ cursor \in [Repos -> Cursors]
          /\ events \in [Repos -> Seq(Tags)]
      BY DEF Cursors
    <2>3. /\ mode \in [Scanners -> {"off", "idle", "scanning"}]
          /\ todo \in [Scanners -> SUBSET [repo : Repos, seen : Cursors]]
          /\ answers \in [Scanners -> SUBSET [repo : Repos, seen : Cursors, tag : Answers]]
          /\ limited \in [Scanners -> BOOLEAN]
      OBVIOUS
    <2> QED BY <2>1, <2>2, <2>3 DEF TypeOK
  <1>2. OneScanner /\ SnapshotIsCurrent /\ CursorIsLast
    BY DEF OneScanner, SnapshotIsCurrent, CursorIsLast
  <1>3. RepeatNeedsOverlap
    BY DEF RepeatNeedsOverlap
  <1> QED BY <1>1, <1>2, <1>3 DEF IInv

(***************************************************************************)
(* The catalog, GitHub and the start of a process.                         *)
(***************************************************************************)
LEMMA WorldKeeps ==
  ASSUME IInv, \E r \in Repos : Track(r) \/ Untrack(r) \/ \E a \in Answers : GitHubChanges(r, a)
  PROVE  IInv'
  <1> USE DEF IInv
  <1>1. UNCHANGED <<cursor, events, mode, todo, answers, limited, overlap, faults>>
    BY DEF Track, Untrack, GitHubChanges, scanVars
  <1>2. /\ catalog' \in [Repos -> {"new", "tracked", "deleted"}]
        /\ latest' \in [Repos -> Answers]
        /\ releases' \in 0..MaxReleases
    <2>1. /\ catalog \in [Repos -> {"new", "tracked", "deleted"}]
          /\ latest \in [Repos -> Answers] /\ releases \in 0..MaxReleases
      BY DEF TypeOK
    <2>2. CASE \E r \in Repos : Track(r) \/ Untrack(r)
      BY <2>1, <2>2 DEF Track, Untrack
    <2>3. CASE \E r \in Repos : \E a \in Answers : GitHubChanges(r, a)
      BY <2>1, <2>3, ScanBounds DEF GitHubChanges
    <2> QED BY <2>2, <2>3
  <1>3. TypeOK'
    BY <1>1, <1>2 DEF TypeOK
  <1>4. OneScanner' /\ SnapshotIsCurrent' /\ CursorIsLast' /\ RepeatNeedsOverlap'
    BY <1>1 DEF OneScanner, SnapshotIsCurrent, CursorIsLast, RepeatNeedsOverlap
  <1> QED BY <1>3, <1>4

LEMMA StartKeeps ==
  ASSUME IInv, NEW w \in Scanners, Start(w)
  PROVE  IInv'
  <1> USE DEF IInv
  <1>1. /\ UNCHANGED <<catalog, latest, cursor, events, todo, answers, limited, releases, faults>>
        /\ mode[w] = "off" /\ mode' = [mode EXCEPT ![w] = "idle"]
        /\ overlap' = (overlap \/ Running # {})
    BY DEF Start
  <1>2. \A v \in Scanners : mode'[v] = IF v = w THEN "idle" ELSE mode[v]
    BY <1>1 DEF TypeOK
  <1>3. overlap' \in BOOLEAN /\ (~overlap' => ~overlap /\ Running = {})
    BY <1>1 DEF TypeOK
  <1>4. TypeOK'
    BY <1>1, <1>3 DEF TypeOK
  <1>5. OneScanner'
    <2>1. ~overlap' => \A v \in Scanners : mode[v] = "off"
      BY <1>3 DEF Running
    <2> QED BY <1>1, <1>2, <2>1 DEF OneScanner
  <1>6. SnapshotIsCurrent' /\ CursorIsLast' /\ RepeatNeedsOverlap'
    BY <1>1, <1>3 DEF SnapshotIsCurrent, CursorIsLast, RepeatNeedsOverlap
  <1> QED BY <1>4, <1>5, <1>6

(***************************************************************************)
(* Steps that drop entries and answers, or turn an entry into an answer.   *)
(***************************************************************************)
LEMMA StopKeeps ==
  ASSUME IInv, NEW w \in Scanners, Stop(w)
  PROVE  IInv'
  <1> USE DEF IInv
  <1>1. /\ UNCHANGED <<catalog, latest, cursor, events, overlap, releases>>
        /\ mode' = [mode EXCEPT ![w] = "off"]
        /\ todo' = [todo EXCEPT ![w] = {}]
        /\ answers' = [answers EXCEPT ![w] = {}]
        /\ limited' = [limited EXCEPT ![w] = FALSE]
        /\ faults' \in 0..MaxFaults
    BY ScanBounds DEF Stop, Fault, TypeOK
  <1>2. TypeOK'
    BY <1>1 DEF TypeOK
  <1>3. /\ OneScanner' /\ SnapshotIsCurrent'
    BY <1>1 DEF OneScanner, SnapshotIsCurrent, TypeOK
  <1>4. CursorIsLast' /\ RepeatNeedsOverlap'
    BY <1>1 DEF CursorIsLast, RepeatNeedsOverlap
  <1> QED BY <1>2, <1>3, <1>4

LEMMA ListKeeps ==
  ASSUME IInv, NEW w \in Scanners, ListTracked(w) \/ EndOfPass(w)
  PROVE  IInv'
  <1> USE DEF IInv
  <1>1. /\ UNCHANGED <<catalog, latest, cursor, events, answers, overlap, releases, faults>>
        /\ mode[w] # "off" /\ answers[w] = {}
        /\ \/ /\ mode' = [mode EXCEPT ![w] = "scanning"]
              /\ todo' = [todo EXCEPT ![w] = Snapshot]
           \/ mode' = [mode EXCEPT ![w] = "idle"] /\ UNCHANGED todo /\ todo[w] = {}
        /\ limited' \in [Scanners -> BOOLEAN]
    BY DEF ListTracked, EndOfPass, OneScanner, TypeOK
  <1>2. Snapshot \in SUBSET [repo : Repos, seen : Cursors]
    BY DEF Snapshot, Tracked, TypeOK
  <1>3. \A t \in Snapshot : t.seen = cursor[t.repo]
    BY DEF Snapshot
  <1> HIDE DEF IInv
  <1>4. TypeOK'
    BY <1>1, <1>2 DEF IInv, TypeOK
  <1>5. OneScanner'
    <2>1. \A v \in Scanners :
             /\ v # w => mode'[v] = mode[v] /\ todo'[v] = todo[v]
             /\ answers'[v] = answers[v]
             /\ v = w => mode'[v] = "scanning" \/ (mode'[v] = "idle" /\ todo'[v] = {} /\ answers[v] = {})
      BY <1>1 DEF IInv, TypeOK
    <2> QED BY <1>1, <2>1 DEF IInv, OneScanner
  <1>6. SnapshotIsCurrent'
    <2>1. \A v \in Scanners : todo'[v] = todo[v] \/ (v = w /\ todo'[v] = Snapshot)
      BY <1>1 DEF IInv, TypeOK
    <2> QED BY <1>1, <1>3, <2>1 DEF IInv, SnapshotIsCurrent
  <1>7. CursorIsLast' /\ RepeatNeedsOverlap'
    BY <1>1 DEF IInv, CursorIsLast, RepeatNeedsOverlap
  <1> QED BY <1>4, <1>5, <1>6, <1>7 DEF IInv

LEMMA AskKeeps ==
  ASSUME IInv, NEW w \in Scanners, NEW t \in todo[w],
         GetLatestTag(w, t) \/ SkipRepository(w, t) \/ RateLimited(w, t)
  PROVE  IInv'
  <1> DEFINE a == [repo |-> t.repo, seen |-> t.seen, tag |-> latest[t.repo]]
  <1>1. /\ UNCHANGED <<catalog, latest, cursor, events, mode, overlap, releases>>
        /\ todo' = [todo EXCEPT ![w] = @ \ {t}]
        /\ \/ UNCHANGED answers
           \/ answers' = [answers EXCEPT ![w] = @ \cup {a}]
        /\ limited' \in [Scanners -> BOOLEAN]
        /\ faults' \in 0..MaxFaults
    <2>1. faults \in 0..MaxFaults /\ limited \in [Scanners -> BOOLEAN]
      BY DEF IInv, TypeOK
    <2>2. CASE GetLatestTag(w, t)
      BY <2>1, <2>2 DEF GetLatestTag
    <2>3. CASE SkipRepository(w, t)
      BY <2>1, <2>3, ScanBounds DEF SkipRepository, Fault
    <2>4. CASE RateLimited(w, t)
      BY <2>1, <2>4, ScanBounds DEF RateLimited, Fault
    <2> QED BY <2>2, <2>3, <2>4
  <1>2. t.repo \in Repos /\ t.seen \in Cursors /\ t = [repo |-> t.repo, seen |-> t.seen]
    BY DEF IInv, TypeOK
  <1>3. a \in [repo : Repos, seen : Cursors, tag : Answers] /\ a.repo = t.repo /\ a.seen = t.seen
    BY <1>2 DEF IInv, TypeOK
  <1> HIDE DEF a
  <1>4. \A v \in Scanners : /\ todo'[v] = IF v = w THEN todo[w] \ {t} ELSE todo[v]
                            /\ answers'[v] = answers[v] \/ (v = w /\ answers'[v] = answers[w] \cup {a})
    BY <1>1 DEF IInv, TypeOK
  <1>5. TypeOK'
    <2>1. /\ todo \in [Scanners -> SUBSET [repo : Repos, seen : Cursors]]
          /\ answers \in [Scanners -> SUBSET [repo : Repos, seen : Cursors, tag : Answers]]
      BY DEF IInv, TypeOK
    <2>2. /\ todo' \in [Scanners -> SUBSET [repo : Repos, seen : Cursors]]
          /\ answers' \in [Scanners -> SUBSET [repo : Repos, seen : Cursors, tag : Answers]]
      BY <1>1, <1>3, <2>1
    <2> QED BY <1>1, <2>2 DEF IInv, TypeOK
  <1>6. OneScanner'
    BY <1>1, <1>4 DEF IInv, OneScanner
  <1>7. SnapshotIsCurrent'
    <2> SUFFICES ASSUME ~overlap, NEW v \in Scanners
                 PROVE  /\ \A x \in todo'[v] : x.seen = cursor[x.repo]
                        /\ \A x \in answers'[v] : x.seen = cursor[x.repo]
                        /\ \A x \in todo'[v] : \A y \in answers'[v] : x.repo # y.repo
                        /\ \A x, y \in answers'[v] : x.repo = y.repo => x = y
      BY <1>1 DEF SnapshotIsCurrent
    <2>1. /\ \A x \in todo[v] : x.seen = cursor[x.repo]
          /\ \A x \in answers[v] : x.seen = cursor[x.repo]
          /\ \A x \in todo[v] : \A y \in answers[v] : x.repo # y.repo
          /\ \A x, y \in answers[v] : x.repo = y.repo => x = y
      BY DEF IInv, SnapshotIsCurrent
    <2>2. \A x \in todo[v] : x = [repo |-> x.repo, seen |-> x.seen]
      BY DEF IInv, TypeOK
    <2>3. v = w => \A x \in todo'[v] : x.repo # t.repo
      BY <1>2, <1>4, <2>1, <2>2
    <2> QED BY <1>3, <1>4, <2>1, <2>3
  <1>8. CursorIsLast' /\ RepeatNeedsOverlap'
    BY <1>1 DEF IInv, CursorIsLast, RepeatNeedsOverlap
  <1> QED BY <1>5, <1>6, <1>7, <1>8 DEF IInv

(***************************************************************************)
(* The end of an answer.  SettleKeeps is what all four ends have in        *)
(* common: the answer is dropped, and only its repository changes.         *)
(***************************************************************************)
Settles(w, a) ==
    SeedCursor(w, a) \/ Announce(w, a) \/ Unchanged(w, a) \/ UpdateFails(w, a)

\* What an end of an answer does to the cursor and the events.
LEMMA SettleEffect ==
  ASSUME IInv, NEW w \in Scanners, NEW a \in answers[w], Settles(w, a)
  PROVE  /\ a.repo \in Repos /\ a.seen \in Cursors /\ a.tag \in Answers
         /\ UNCHANGED <<catalog, latest, mode, todo, limited, overlap, releases>>
         /\ answers' = [answers EXCEPT ![w] = @ \ {a}]
         /\ faults' \in 0..MaxFaults
         /\ \/ UNCHANGED <<cursor, events>>
            \/ /\ a.seen = Missing
               /\ cursor' = [cursor EXCEPT ![a.repo] = SeedTag(a.tag)]
               /\ UNCHANGED events
            \/ /\ HasNewRelease(a)
               /\ cursor' = [cursor EXCEPT ![a.repo] = a.tag]
               /\ events' = [events EXCEPT ![a.repo] = Append(@, a.tag)]
  <1>1. a.repo \in Repos /\ a.seen \in Cursors /\ a.tag \in Answers
    BY DEF IInv, TypeOK
  <1>2. faults \in 0..MaxFaults
    BY DEF IInv, TypeOK
  <1>3. CASE SeedCursor(w, a)
    BY <1>1, <1>2, <1>3 DEF SeedCursor, Answered
  <1>4. CASE Announce(w, a)
    BY <1>1, <1>2, <1>4 DEF Announce, Answered
  <1>5. CASE Unchanged(w, a)
    BY <1>1, <1>2, <1>5 DEF Unchanged, Answered
  <1>6. CASE UpdateFails(w, a)
    BY <1>1, <1>2, <1>6, ScanBounds DEF UpdateFails, Fault
  <1> QED BY <1>3, <1>4, <1>5, <1>6 DEF Settles

LEMMA SettleKeeps ==
  ASSUME IInv, NEW w \in Scanners, NEW a \in answers[w], Settles(w, a)
  PROVE  IInv'
  <1>1. /\ a.repo \in Repos /\ a.seen \in Cursors /\ a.tag \in Answers
        /\ UNCHANGED <<catalog, latest, mode, todo, limited, overlap, releases>>
        /\ answers' = [answers EXCEPT ![w] = @ \ {a}]
        /\ faults' \in 0..MaxFaults
    BY SettleEffect
  <1>2. \/ UNCHANGED <<cursor, events>>
        \/ /\ a.seen = Missing
           /\ cursor' = [cursor EXCEPT ![a.repo] = SeedTag(a.tag)]
           /\ UNCHANGED events
        \/ /\ HasNewRelease(a)
           /\ cursor' = [cursor EXCEPT ![a.repo] = a.tag]
           /\ events' = [events EXCEPT ![a.repo] = Append(@, a.tag)]
    BY SettleEffect
  <1>3. SeedTag(a.tag) \in Cursors /\ SeedTag(a.tag) # Missing
    BY <1>1, TagsAssumption DEF SeedTag, Answers, Cursors, Missing, NoReleaseYet, NotFound
  <1>4. HasNewRelease(a) => a.tag \in Tags /\ a.tag # Missing /\ a.tag # a.seen /\ a.seen # Missing
    BY <1>1, TagsAssumption DEF HasNewRelease, Answers
  <1>5. \A r \in Repos : r # a.repo => cursor'[r] = cursor[r] /\ events'[r] = events[r]
    BY <1>1, <1>2 DEF IInv, TypeOK
  <1>6. ~overlap => a.seen = cursor[a.repo]
    BY DEF IInv, SnapshotIsCurrent
  <1>7. \A v \in Scanners : answers'[v] = IF v = w THEN answers[w] \ {a} ELSE answers[v]
    BY <1>1 DEF IInv, TypeOK
  <1>8. TypeOK'
    <2>1. cursor' \in [Repos -> Cursors]
      BY <1>1, <1>2, <1>3, <1>4 DEF IInv, TypeOK, Cursors
    <2>2. events' \in [Repos -> Seq(Tags)]
      <3>1. events \in [Repos -> Seq(Tags)] /\ events[a.repo] \in Seq(Tags)
        BY <1>1 DEF IInv, TypeOK
      <3>2. HasNewRelease(a) => Append(events[a.repo], a.tag) \in Seq(Tags)
        BY <1>4, <3>1
      <3> QED BY <1>2, <3>1, <3>2
    <2>3. answers' \in [Scanners -> SUBSET [repo : Repos, seen : Cursors, tag : Answers]]
      BY <1>1 DEF IInv, TypeOK
    <2> QED BY <1>1, <2>1, <2>2, <2>3 DEF IInv, TypeOK
  <1>9. OneScanner'
    BY <1>1, <1>7 DEF IInv, OneScanner
  <1>10. SnapshotIsCurrent'
    <2> SUFFICES ASSUME ~overlap, NEW v \in Scanners
                 PROVE  /\ \A x \in todo'[v] : x.seen = cursor'[x.repo]
                        /\ \A x \in answers'[v] : x.seen = cursor'[x.repo]
                        /\ \A x \in todo'[v] : \A y \in answers'[v] : x.repo # y.repo
                        /\ \A x, y \in answers'[v] : x.repo = y.repo => x = y
      BY <1>1 DEF SnapshotIsCurrent
    <2>1. /\ \A x \in todo[v] : x.seen = cursor[x.repo]
          /\ \A x \in answers[v] : x.seen = cursor[x.repo]
          /\ \A x \in todo[v] : \A y \in answers[v] : x.repo # y.repo
          /\ \A x, y \in answers[v] : x.repo = y.repo => x = y
      BY DEF IInv, SnapshotIsCurrent
    <2>2. /\ \A x \in todo[v] : x.repo \in Repos
          /\ \A x \in answers[v] : x.repo \in Repos
      BY DEF IInv, TypeOK
    <2>3. CASE v = w
      BY <1>1, <1>5, <1>7, <2>1, <2>2, <2>3
    <2>4. CASE v # w
      <3>1. mode[w] # "off"
        BY DEF IInv, OneScanner
      <3>2. todo[v] = {} /\ answers[v] = {}
        BY <2>4, <3>1 DEF IInv, OneScanner
      <3> QED BY <1>1, <1>7, <2>4, <3>2
    <2> QED BY <2>3, <2>4
  <1>11. CursorIsLast' /\ RepeatNeedsOverlap'
    <2> SUFFICES ASSUME ~overlap, NEW r \in Repos
                 PROVE  /\ cursor'[r] = Missing => events'[r] = <<>>
                        /\ events'[r] # <<>> => cursor'[r] = events'[r][Len(events'[r])]
                        /\ \A i \in 1..(Len(events'[r]) - 1) : events'[r][i] # events'[r][i + 1]
      <3>1. overlap' = overlap
        BY <1>1
      <3>2. CASE overlap
        BY <3>1, <3>2 DEF CursorIsLast, RepeatNeedsOverlap
      <3>3. CASE ~overlap
        BY <3>1, <3>3 DEF CursorIsLast, RepeatNeedsOverlap
      <3> QED BY <3>2, <3>3
    <2>1. /\ cursor[r] = Missing => events[r] = <<>>
          /\ events[r] # <<>> => cursor[r] = events[r][Len(events[r])]
          /\ \A i \in 1..(Len(events[r]) - 1) : events[r][i] # events[r][i + 1]
          /\ events[r] \in Seq(Tags)
      BY DEF IInv, CursorIsLast, RepeatNeedsOverlap, TypeOK
    <2>2. CASE cursor'[r] = cursor[r] /\ events'[r] = events[r]
      BY <2>1, <2>2
    <2>3. CASE a.seen = Missing /\ cursor' = [cursor EXCEPT ![a.repo] = SeedTag(a.tag)]
               /\ UNCHANGED events /\ r = a.repo
      <3>1. cursor'[r] # Missing /\ events'[r] = <<>>
        BY <1>3, <1>6, <2>1, <2>3 DEF IInv, TypeOK
      <3> QED BY <3>1
    <2>4. CASE HasNewRelease(a) /\ cursor' = [cursor EXCEPT ![a.repo] = a.tag]
               /\ events' = [events EXCEPT ![a.repo] = Append(@, a.tag)] /\ r = a.repo
      <3>1. /\ cursor'[r] = a.tag /\ a.tag # Missing /\ a.tag # cursor[r] /\ a.tag \in Tags
        BY <1>4, <1>6, <2>4 DEF IInv, TypeOK
      <3>2. /\ events'[r] \in Seq(Tags) /\ Len(events'[r]) = Len(events[r]) + 1
            /\ events'[r][Len(events[r]) + 1] = a.tag
            /\ \A i \in 1..Len(events[r]) : events'[r][i] = events[r][i]
        <4> DEFINE q == events[r]
        <4>1. \A k \in Repos : k = a.repo => events'[k] = Append(events[k], a.tag)
          BY <2>4, <1>1 DEF IInv, TypeOK
        <4>2. events'[r] = Append(q, a.tag) /\ q \in Seq(Tags)
          BY <2>1, <2>4, <4>1
        <4> HIDE DEF q
        <4> QED BY <3>1, <4>2 DEF q
      <3>3. Len(events[r]) \in Nat /\ (events[r] # <<>> => Len(events[r]) >= 1)
        BY <2>1
      <3>4. ASSUME NEW i \in 1..(Len(events'[r]) - 1)
            PROVE  events'[r][i] # events'[r][i + 1]
        <4>1. CASE i = Len(events[r])
          BY <2>1, <3>1, <3>2, <3>3, <4>1
        <4>2. CASE i # Len(events[r])
          BY <2>1, <3>2, <3>3, <4>2
        <4> QED BY <4>1, <4>2
      <3> QED BY <3>1, <3>2, <3>3, <3>4
    <2> QED BY <1>2, <1>5, <2>2, <2>3, <2>4
  <1> QED BY <1>8, <1>9, <1>10, <1>11 DEF IInv


(***************************************************************************)
(* Every step, and the theorems.                                           *)
(***************************************************************************)
LEMMA StutterKeeps == IInv /\ UNCHANGED vars => IInv'
  BY DEF vars, scanVars, IInv, TypeOK, OneScanner, SnapshotIsCurrent, CursorIsLast,
         RepeatNeedsOverlap

\* What the actions of Next are, sorted by the lemma that deals with them.
LEMMA StepCases ==
  ASSUME Next
  PROVE  \/ \E r \in Repos : Track(r) \/ Untrack(r) \/ \E a \in Answers : GitHubChanges(r, a)
         \/ \E w \in Scanners : Start(w) \/ Stop(w) \/ ListTracked(w) \/ EndOfPass(w)
         \/ \E w \in Scanners : \E t \in todo[w] :
               GetLatestTag(w, t) \/ SkipRepository(w, t) \/ RateLimited(w, t)
         \/ \E w \in Scanners : \E a \in answers[w] : Settles(w, a)
  BY DEF Next, Progress, Settles

LEMMA NextIInv == IInv /\ [Next]_vars => IInv'
  <1> SUFFICES ASSUME IInv, Next PROVE IInv'
    BY StutterKeeps
  <1>1. CASE \E r \in Repos : Track(r) \/ Untrack(r) \/ \E a \in Answers : GitHubChanges(r, a)
    BY <1>1, WorldKeeps
  <1>2. CASE \E w \in Scanners : Start(w) \/ Stop(w) \/ ListTracked(w) \/ EndOfPass(w)
    BY <1>2, StartKeeps, StopKeeps, ListKeeps
  <1>3. CASE \E w \in Scanners : \E t \in todo[w] :
                GetLatestTag(w, t) \/ SkipRepository(w, t) \/ RateLimited(w, t)
    BY <1>3, AskKeeps
  <1>4. CASE \E w \in Scanners : \E a \in answers[w] : Settles(w, a)
    BY <1>4, SettleKeeps
  <1> QED BY <1>1, <1>2, <1>3, <1>4, StepCases

LEMMA SpecIInv == Spec => []IInv
  BY InitIInv, NextIInv, PTL DEF Spec

\* The variables of the scanner keep their types.
THEOREM TypeCorrect == Spec => []TypeOK
  <1>1. IInv => TypeOK
    BY DEF IInv
  <1> QED BY SpecIInv, <1>1, PTL

\* No release is announced twice in a row unless two scanners overlapped
\* (docs/SDD.md:551): no pass that was cut short and no restart repeats one.
THEOREM NoReleaseIsRepeated == Spec => []RepeatNeedsOverlap
  <1>1. IInv => RepeatNeedsOverlap
    BY DEF IInv
  <1> QED BY SpecIInv, <1>1, PTL

\* A step moves the cursor exactly when it announces the cursor's new tag,
\* except at the first scan of a repository.
LEMMA StepMovesTogether ==
  ASSUME IInv, Next, NEW r \in Repos, ~overlap
  PROVE  /\ cursor[r] = Missing => events'[r] = events[r]
         /\ cursor[r] # Missing =>
               IF cursor'[r] = cursor[r]
               THEN events'[r] = events[r]
               ELSE events'[r] = Append(events[r], cursor'[r])
  <1>1. CASE UNCHANGED <<cursor, events>>
    BY <1>1
  <1>2. CASE \E w \in Scanners : \E a \in answers[w] : Settles(w, a)
    <2> PICK w \in Scanners : \E a \in answers[w] : Settles(w, a)
      BY <1>2
    <2>1. PICK a \in answers[w] : Settles(w, a)
      OBVIOUS
    <2>2. a.repo \in Repos /\ a.seen = cursor[a.repo]
      BY <2>1, SettleEffect DEF IInv, SnapshotIsCurrent
    <2>3. cursor \in [Repos -> Cursors] /\ events \in [Repos -> Seq(Tags)]
      BY DEF IInv, TypeOK
    <2>4. \/ UNCHANGED <<cursor, events>>
          \/ /\ a.seen = Missing
             /\ cursor' = [cursor EXCEPT ![a.repo] = SeedTag(a.tag)]
             /\ UNCHANGED events
          \/ /\ HasNewRelease(a)
             /\ cursor' = [cursor EXCEPT ![a.repo] = a.tag]
             /\ events' = [events EXCEPT ![a.repo] = Append(@, a.tag)]
      BY <2>1, SettleEffect
    <2>5. CASE UNCHANGED <<cursor, events>>
      BY <2>5
    <2>6. CASE /\ a.seen = Missing
               /\ cursor' = [cursor EXCEPT ![a.repo] = SeedTag(a.tag)]
               /\ UNCHANGED events
      BY <2>2, <2>3, <2>6
    <2>7. CASE /\ HasNewRelease(a)
               /\ cursor' = [cursor EXCEPT ![a.repo] = a.tag]
               /\ events' = [events EXCEPT ![a.repo] = Append(@, a.tag)]
      <3>1. a.seen # Missing /\ a.tag # a.seen
        BY <2>7 DEF HasNewRelease
      <3>2. CASE r = a.repo
        BY <2>2, <2>3, <2>7, <3>1, <3>2
      <3>3. CASE r # a.repo
        BY <2>2, <2>3, <2>7, <3>3
      <3> QED BY <3>2, <3>3
    <2> QED BY <2>4, <2>5, <2>6, <2>7
  <1>3. UNCHANGED <<cursor, events>> \/ \E w \in Scanners : \E a \in answers[w] : Settles(w, a)
    BY StepCases DEF Track, Untrack, GitHubChanges, Start, Stop, ListTracked, EndOfPass,
                     GetLatestTag, SkipRepository, RateLimited
  <1> QED BY <1>1, <1>2, <1>3

\* Subscribers are told of each change of the cursor once, and of nothing else.
THEOREM CursorMovesWithItsEvent == Spec => CursorAndEventsMoveTogether
  <1>1. ASSUME IInv, Next, NEW r \in Repos
        PROVE  /\ cursor[r] = Missing => events'[r] = events[r] \/ overlap
               /\ cursor[r] # Missing =>
                     IF cursor'[r] = cursor[r]
                     THEN events'[r] = events[r] \/ overlap
                     ELSE events'[r] = Append(events[r], cursor'[r]) \/ overlap
    <2>1. CASE overlap
      BY <2>1
    <2>2. CASE ~overlap
      BY <1>1, <2>2, StepMovesTogether
    <2> QED BY <2>1, <2>2, <1>1 DEF IInv, TypeOK
  <1>2. IInv /\ [Next]_vars =>
          [\A r \in Repos :
             /\ cursor[r] = Missing => events'[r] = events[r] \/ overlap
             /\ cursor[r] # Missing =>
                   IF cursor'[r] = cursor[r]
                   THEN events'[r] = events[r] \/ overlap
                   ELSE events'[r] = Append(events[r], cursor'[r]) \/ overlap]_vars
    BY <1>1
  <1> QED BY <1>2, SpecIInv, PTL DEF Spec, CursorAndEventsMoveTogether
=============================================================================
