---------------------------- MODULE LoginSessions ----------------------------
(***************************************************************************)
(* What the auth service promises about the refresh tokens of its logins,  *)
(* without calls, locks, the browser or faults (docs/SDD.md, "Auth         *)
(* Service": "single-use - rotated on every /refresh call").               *)
(*                                                                         *)
(* A login is a chain of tokens of which the last one can be exchanged for *)
(* a new one.  Once that is taken back or has expired the chain has ended: *)
(* no token of it, old or new, brings the login back.                      *)
(***************************************************************************)
CONSTANT Tokens

VARIABLES
    current,  \* by login, named by its first token: the tokens it may exchange
    issued    \* the tokens handed out so far

Init == current = [l \in Tokens |-> {}] /\ issued = {}

Open(l) ==
    /\ l \notin issued
    /\ current' = [current EXCEPT ![l] = {l}]
    /\ issued' = issued \cup {l}

Rotate(l, t, n) ==
    /\ current[l] = {t} /\ n \notin issued
    /\ current' = [current EXCEPT ![l] = {n}]
    /\ issued' = issued \cup {n}

\* A logout, or time.
End(l) ==
    /\ current[l] # {}
    /\ current' = [current EXCEPT ![l] = {}]
    /\ UNCHANGED issued

Next ==
    \/ \E l \in Tokens : Open(l) \/ End(l)
    \/ \E l, t, n \in Tokens : Rotate(l, t, n)

Spec == Init /\ [][Next]_<<current, issued>>
=============================================================================
