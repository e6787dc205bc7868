----------------------------- MODULE ReleaseScan -----------------------------
(***************************************************************************)
(* The release scanner of the monitoring service: one pass takes a         *)
(* snapshot of the tracked repositories and of their cursors, asks GitHub  *)
(* for the latest release of each one concurrently, and advances the       *)
(* cursor of a repository in the transaction that announces the release.   *)
(*                                                                         *)
(* A decision rests on the cursor of the snapshot, not on the cursor it    *)
(* overwrites.  A scanner is one process of the service; docs/SDD.md wants *)
(* it to be alone, and during a rolling update of the Kubernetes           *)
(* deployment, which has no strategy, it is not.                           *)
(***************************************************************************)
EXTENDS Naturals, Sequences, FiniteSets

CONSTANTS
    Repos,        \* repository ids of the catalog
    Tags,         \* release tags
    Scanners,     \* processes of the monitoring service
    MaxShared,    \* bound: tracked repositories while two scanners run
    MaxReleases,  \* bound: changes of the latest release on GitHub
    MaxFaults     \* bound: failed calls, rate limits and stops of a scanner

ASSUME ScanBounds == MaxShared \in Nat /\ MaxReleases \in Nat /\ MaxFaults \in Nat

Missing == ""                      \* no row in scan_cursors
NoReleaseYet == "(no release)"     \* noReleaseYet
NotFound == "404"                  \* GitHub's answer without a release

ASSUME TagsAssumption == {Missing, NoReleaseYet, NotFound} \cap Tags = {}

VARIABLES
    catalog,  \* life of a repository row: "new", "tracked" or "deleted"
    latest,   \* what GitHub answers for a repository
    cursor,   \* scan_cursors.last_seen_tag
    events,   \* per repository, the tags of its monitoring_outbox rows
    mode,     \* is a scanner stopped, waiting for its tick, or in a pass
    todo,     \* repositories of the snapshot GitHub was not asked about yet
    answers,  \* repositories with GitHub's answer, before the transaction
    limited,  \* the pass met a rate limit, and its context is cancelled
    overlap,  \* two scanners have run at the same time
    releases, \* changes of the latest release so far
    faults    \* faults so far

scanVars == <<mode, todo, answers, limited, overlap>>
vars == <<catalog, latest, cursor, events, scanVars, releases, faults>>

Answers == Tags \cup {NotFound}
Cursors == Tags \cup {Missing, NoReleaseYet}

TypeOK ==
    /\ catalog \in [Repos -> {"new", "tracked", "deleted"}]
    /\ latest \in [Repos -> Answers]
    /\ cursor \in [Repos -> Cursors]
    /\ events \in [Repos -> Seq(Tags)]
    /\ mode \in [Scanners -> {"off", "idle", "scanning"}]
    /\ todo \in [Scanners -> SUBSET [repo : Repos, seen : Cursors]]
    /\ answers \in [Scanners -> SUBSET [repo : Repos, seen : Cursors, tag : Answers]]
    /\ limited \in [Scanners -> BOOLEAN]
    /\ overlap \in BOOLEAN
    /\ releases \in 0..MaxReleases
    /\ faults \in 0..MaxFaults

Init ==
    /\ catalog = [r \in Repos |-> "new"]
    /\ latest \in [Repos -> Answers]
    /\ cursor = [r \in Repos |-> Missing]
    /\ events = [r \in Repos |-> <<>>]
    /\ mode = [w \in Scanners |-> "off"]
    /\ todo = [w \in Scanners |-> {}]
    /\ answers = [w \in Scanners |-> {}]
    /\ limited = [w \in Scanners |-> FALSE]
    /\ overlap = FALSE
    /\ releases = 0
    /\ faults = 0

Tracked == {r \in Repos : catalog[r] = "tracked"}
Snapshot == {[repo |-> r, seen |-> cursor[r]] : r \in Tracked}
Running == {w \in Scanners : mode[w] # "off"}

Fault == faults < MaxFaults /\ faults' = faults + 1

----------------------------------------------------------------------------
(* The world: the catalog of the subscription service, and GitHub.         *)

Track(r) ==
    /\ catalog[r] = "new"
    /\ Cardinality(Running) < 2 \/ Cardinality(Tracked) < MaxShared
    /\ catalog' = [catalog EXCEPT ![r] = "tracked"]
    /\ UNCHANGED <<latest, cursor, events, scanVars, releases, faults>>

\* The repository row is deleted; its cursor stays, and its id is not reused.
Untrack(r) ==
    /\ catalog[r] = "tracked"
    /\ catalog' = [catalog EXCEPT ![r] = "deleted"]
    /\ UNCHANGED <<latest, cursor, events, scanVars, releases, faults>>

\* A release is published, or deleted, which uncovers an older one or none.
GitHubChanges(r, a) ==
    /\ a # latest[r]
    /\ releases < MaxReleases
    /\ releases' = releases + 1
    /\ latest' = [latest EXCEPT ![r] = a]
    /\ UNCHANGED <<catalog, cursor, events, scanVars, faults>>

----------------------------------------------------------------------------
(* One pass of a scanner: runOneScan.                                      *)

Start(w) ==
    /\ mode[w] = "off"
    /\ Running = {} \/ Cardinality(Tracked) <= MaxShared
    /\ overlap' = (overlap \/ Running # {})
    /\ mode' = [mode EXCEPT ![w] = "idle"]
    /\ UNCHANGED <<catalog, latest, cursor, events, todo, answers, limited, releases, faults>>

\* The process is stopped or crashes; a transaction in flight is rolled back.
Stop(w) ==
    /\ mode[w] # "off"
    /\ Fault
    /\ mode' = [mode EXCEPT ![w] = "off"]
    /\ todo' = [todo EXCEPT ![w] = {}]
    /\ answers' = [answers EXCEPT ![w] = {}]
    /\ limited' = [limited EXCEPT ![w] = FALSE]
    /\ UNCHANGED <<catalog, latest, cursor, events, overlap, releases>>

\* Faulty variant: the cancelled context of a rate-limited pass is used again.
ListTrackedStaleContext(w) ==
    /\ mode[w] = "idle"
    /\ mode' = [mode EXCEPT ![w] = "scanning"]
    /\ todo' = [todo EXCEPT ![w] = Snapshot]
    /\ UNCHANGED <<catalog, latest, cursor, events, answers, limited, overlap, releases, faults>>

(***************************************************************************)
(* ListTracked: the catalog by gRPC and each repository's cursor.  The     *)
(* cursors are read one after the other, but what a pass decides about a   *)
(* repository only depends on its own one.                                 *)
(***************************************************************************)
ListTracked(w) ==
    /\ mode[w] = "idle"
    /\ mode' = [mode EXCEPT ![w] = "scanning"]
    /\ todo' = [todo EXCEPT ![w] = Snapshot]
    /\ limited' = [limited EXCEPT ![w] = FALSE]
    /\ UNCHANGED <<catalog, latest, cursor, events, answers, overlap, releases, faults>>

\* GetLatestTag for one repository; repositories are asked in any order.
GetLatestTag(w, t) ==
    /\ t \in todo[w] /\ ~limited[w]
    /\ todo' = [todo EXCEPT ![w] = @ \ {t}]
    /\ answers' = [answers EXCEPT ![w] =
                     @ \cup {[repo |-> t.repo, seen |-> t.seen, tag |-> latest[t.repo]]}]
    /\ UNCHANGED <<catalog, latest, cursor, events, mode, limited, overlap, releases, faults>>

\* The request fails, or the cancelled context ends it or never starts it.
SkipRepository(w, t) ==
    /\ t \in todo[w]
    /\ IF limited[w] THEN UNCHANGED faults ELSE Fault
    /\ todo' = [todo EXCEPT ![w] = @ \ {t}]
    /\ UNCHANGED <<catalog, latest, cursor, events, mode, answers, limited, overlap, releases>>

\* GitHub answers with ErrRateLimited: the whole pass is cancelled.
RateLimited(w, t) ==
    /\ t \in todo[w] /\ ~limited[w]
    /\ Fault
    /\ todo' = [todo EXCEPT ![w] = @ \ {t}]
    /\ limited' = [limited EXCEPT ![w] = TRUE]
    /\ UNCHANGED <<catalog, latest, cursor, events, mode, answers, overlap, releases>>

Answered(w, a) ==
    /\ a \in answers[w]
    /\ answers' = [answers EXCEPT ![w] = @ \ {a}]
    /\ UNCHANGED <<catalog, latest, mode, todo, limited, overlap, releases, faults>>

\* Faulty variant: "no release" is stored as the empty tag, which reads as
\* no row at all.
SeedTagEmpty(tag) == IF tag = NotFound THEN Missing ELSE tag

\* Faulty variant: GitHub's "no release" is stored as it is.
SeedTagRaw(tag) == tag

\* The cursor of a repository that is scanned for the first time.
SeedTag(tag) == IF tag = NotFound THEN NoReleaseYet ELSE tag

\* seedCursor: the first scan remembers what there is and announces nothing.
SeedCursor(w, a) ==
    /\ Answered(w, a)
    /\ a.seen = Missing
    /\ cursor' = [cursor EXCEPT ![a.repo] = SeedTag(a.tag)]
    /\ UNCHANGED events

\* HasNewRelease.
HasNewRelease(a) == a.seen # Missing /\ a.tag # NotFound /\ a.tag # a.seen

\* Faulty variant: the event and the cursor in two transactions, of which
\* the second one may be missing.
AnnounceTwice(w, a) ==
    /\ Answered(w, a)
    /\ HasNewRelease(a)
    /\ events' = [events EXCEPT ![a.repo] = Append(@, a.tag)]
    /\ \/ cursor' = [cursor EXCEPT ![a.repo] = a.tag]
       \/ UNCHANGED cursor

\* UpdateLastSeenTagAtomic with Enqueue: cursor and event in one transaction.
Announce(w, a) ==
    /\ Answered(w, a)
    /\ HasNewRelease(a)
    /\ cursor' = [cursor EXCEPT ![a.repo] = a.tag]
    /\ events' = [events EXCEPT ![a.repo] = Append(@, a.tag)]

\* No release, or the one of the snapshot.
Unchanged(w, a) ==
    /\ Answered(w, a)
    /\ a.seen # Missing /\ ~HasNewRelease(a)
    /\ UNCHANGED <<cursor, events>>

\* The transaction fails, or the cancelled context ends it.  (A Commit that
\* took effect but returned an error is logged: that is Announce.)
UpdateFails(w, a) ==
    /\ a \in answers[w]
    /\ IF limited[w] THEN UNCHANGED faults ELSE Fault
    /\ answers' = [answers EXCEPT ![w] = @ \ {a}]
    /\ UNCHANGED <<catalog, latest, cursor, events, mode, todo, limited, overlap, releases>>

\* Faulty variant: the pass ends without wg.Wait.
EndOfPassNoWait(w) ==
    /\ mode[w] = "scanning"
    /\ todo[w] = {}
    /\ mode' = [mode EXCEPT ![w] = "idle"]
    /\ UNCHANGED <<catalog, latest, cursor, events, todo, answers, limited, overlap, releases, faults>>

\* wg.Wait returned: the pass is over and the scanner waits for its ticker.
EndOfPass(w) ==
    /\ mode[w] = "scanning"
    /\ todo[w] = {} /\ answers[w] = {}
    /\ mode' = [mode EXCEPT ![w] = "idle"]
    /\ UNCHANGED <<catalog, latest, cursor, events, todo, answers, limited, overlap, releases, faults>>

Progress(w) ==
    \/ ListTracked(w)
    \/ \E t \in todo[w] : GetLatestTag(w, t) \/ (limited[w] /\ SkipRepository(w, t))
    \/ \E a \in answers[w] : SeedCursor(w, a) \/ Announce(w, a) \/ Unchanged(w, a)
    \/ EndOfPass(w)

Next ==
    \/ \E r \in Repos : Track(r) \/ Untrack(r) \/ \E a \in Answers : GitHubChanges(r, a)
    \/ \E w \in Scanners :
          \/ Start(w)
          \/ Stop(w)
          \/ Progress(w)
          \/ \E t \in todo[w] : SkipRepository(w, t) \/ RateLimited(w, t)
          \/ \E a \in answers[w] : UpdateFails(w, a)

(***************************************************************************)
(* A scanner that is stopped is started again (the deployment restarts     *)
(* it), its ticker fires, and a pass that was begun goes on: every call in *)
(* it has a timeout.  Nothing is assumed of GitHub's releases or faults.   *)
(***************************************************************************)
Fairness ==
    /\ WF_vars(\E w \in Scanners : Start(w))
    /\ \A w \in Scanners : WF_vars(Progress(w))

Spec == Init /\ [][Next]_vars /\ Fairness

----------------------------------------------------------------------------
(* Properties.                                                             *)

(***************************************************************************)
(* docs/SDD.md:551 "avoids duplicate GitHub polling and race conditions on *)
(* scan_cursors": as long as the scanner is alone no release is announced  *)
(* twice in a row: no pass that was cut short, no restart and no stale     *)
(* snapshot repeats the last ReleaseFound.                                 *)
(***************************************************************************)
RepeatNeedsOverlap ==
    \A r \in Repos : \A i \in 1..(Len(events[r]) - 1) :
        events[r][i] = events[r][i + 1] => overlap

(***************************************************************************)
(* What subscribers of r were told, and what the next pass compares with,  *)
(* move together: the first scan seeds the cursor and announces nothing,   *)
(* and afterwards each change of the cursor is one ReleaseFound with a tag *)
(* that differs from it, also when the repository had no release before.   *)
(***************************************************************************)
CursorAndEventsMoveTogether ==
    [][\A r \in Repos :
          /\ cursor[r] = Missing => events'[r] = events[r] \/ overlap
          /\ cursor[r] # Missing =>
                IF cursor'[r] = cursor[r]
                THEN events'[r] = events[r] \/ overlap
                ELSE events'[r] = Append(events[r], cursor'[r]) \/ overlap]_vars

(***************************************************************************)
(* An answer of GitHub that stays is taken in, whatever cut earlier passes *)
(* short: a release that stays the latest one of a tracked repository is   *)
(* announced, or was the one of the first scan; and a repository that has  *)
(* no release gets a cursor all the same, so that its first release will   *)
(* be news and not the one of a first scan.                                *)
(***************************************************************************)
StableReleaseIsSeen ==
    \A r \in Repos : \A a \in Answers :
        <>[](catalog[r] = "tracked" /\ latest[r] = a) =>
            <>[](IF a = NotFound THEN cursor[r] # Missing ELSE cursor[r] = a)
=============================================================================
