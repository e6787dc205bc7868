------------------------- MODULE MCSubscribeSaga -------------------------
(***************************************************************************)
(* Small instances of SubscribeSaga for TLC.  Ids, addresses and the       *)
(* requests in flight are interchangeable, so the safety runs use symmetry *)
(* (the runs that check a leads-to property do not).                       *)
(***************************************************************************)
EXTENDS SubscribeSaga, TLC

CONSTANTS e1, e2, n1, r1, r2, s1, s2, h1, h2, c1, w1

OneEmail == {e1}
TwoEmails == {e1, e2}
OneName == {n1}
OneRepoId == {r1}
TwoRepoIds == {r1, r2}
OneSub == {s1}
TwoSubs == {s1, s2}
OneHandler == {h1}
TwoHandlers == {h1, h2}
OneConsumer == {c1}
OneReaper == {w1}

SafetySymmetry ==
    Permutations(Emails) \cup Permutations(RepoIds) \cup Permutations(SubIds)
      \cup Permutations(Handlers) \cup Permutations(Reapers)
==========================================================================
