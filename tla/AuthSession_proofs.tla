-------------------------- MODULE AuthSession_proofs --------------------------
(***************************************************************************)
(* Theorems about AuthSession, for any number of concurrent calls, of      *)
(* token pairs and of faults.                                              *)
(***************************************************************************)
EXTENDS AuthSession, TLAPS

----------------------------------------------------------------------------
(* The inductive invariant.                                                *)

\* Refreshes and logouts that go to the service carry an issued token.
AsksWithPair ==
    \A c \in Calls : call[c].pc \in {"refresh", "locked", "renewed", "revoke"} =>
        call[c].pair \in Pairs

\* Whoever holds the row lock finds the token live when it commits.
LockedIsLive ==
    \A c \in Calls : At(c, "locked") => refresh[call[c].pair] = "live"

LocksExclude ==
    \A c, d \in Calls :
        At(c, "locked") /\ At(d, "locked") /\ call[c].pair = call[d].pair => c = d

\* No pair of a login exists before the login.
LoginsAreIssued ==
    \A p \in Pairs : login[p] \in Pairs => refresh[login[p]] # "unissued"

IssuedHaveLogin ==
    \A p \in Pairs : refresh[p] # "unissued" => login[p] \in Pairs

TokenInv ==
    /\ TypeOK
    /\ AsksWithPair
    /\ LockedIsLive
    /\ LocksExclude
    /\ LoginsAreIssued
    /\ IssuedHaveLogin
    /\ OneLiveTokenPerLogin

\* The browser holds pairs that were issued.
HeldAreIssued ==
    /\ stored \in Pairs => refresh[stored] # "unissued"
    /\ \A c \in Calls : call[c] # Idle =>
          /\ call[c].pair \in Pairs => refresh[call[c].pair] # "unissued"
          /\ call[c].new \in Pairs => refresh[call[c].new] # "unissued"

\* A pair that is on its way to localStorage is known to its call only, so
\* nobody can have had it revoked.
NewIsPrivate ==
    \A c \in Calls : call[c] # Idle /\ call[c].new \in Pairs =>
        /\ refresh[call[c].new] # "revoked"
        /\ stored # call[c].new
        /\ \A d \in Calls : call[d] # Idle =>
              /\ call[d].pair # call[c].new
              /\ d # c => call[d].new # call[c].new

NewIsCarried ==
    \A c \in Calls : call[c].pc \in {"renewed", "loggedIn"} => call[c].new \in Pairs

BrowserInv ==
    /\ TokenInv
    /\ HeldAreIssued
    /\ NewIsPrivate
    /\ NewIsCarried
    /\ StoredPairIsBacked

----------------------------------------------------------------------------
(* Calls.                                                                  *)

CallStates == {Idle} \cup [pc : Waits, pair : Pairs \cup {NoPair}, new : Pairs \cup {NoPair}]

LEMMA NoPairIsNoPair == NoPair \notin Pairs
  BY SessionBounds DEF NoPair, Pairs

(***************************************************************************)
(* A call is idle, or waits and carries two pairs, each of which may be    *)
(* missing.                                                                *)
(***************************************************************************)
LEMMA CallShape ==
  ASSUME NEW j \in CallStates
  PROVE  \/ j = Idle /\ j.pc = "idle"
         \/ /\ j.pc \in Waits /\ j # Idle
            /\ j.pair \in Pairs \cup {NoPair} /\ j.new \in Pairs \cup {NoPair}
  BY DEF CallStates, Idle, Waits

----------------------------------------------------------------------------
(* The token tables.                                                       *)

LEMMA InitTokenInv == Init => TokenInv
  <1> SUFFICES ASSUME Init PROVE TokenInv
    OBVIOUS
  <1>1. TypeOK
    <2>1. faults \in 0..MaxFaults
      <3>1. faults = 0
        BY DEF Init
      <3> QED BY <3>1, SessionBounds
    <2>2. /\ account \in {"none", "mailed", "expired", "verified"}
          /\ refresh \in [Pairs -> {"unissued", "live", "revoked", "expired"}]
          /\ login \in [Pairs -> Pairs \cup {NoPair}]
          /\ access \subseteq Pairs /\ stored \in Pairs \cup {NoPair} /\ ended \in BOOLEAN
      BY DEF Init
    <2>3. call \in [Calls -> {Idle} \cup [pc : Waits, pair : Pairs \cup {NoPair},
                                         new : Pairs \cup {NoPair}]]
      BY DEF Init
    <2> QED BY <2>1, <2>2, <2>3 DEF TypeOK
  <1>2. AsksWithPair /\ LockedIsLive /\ LocksExclude
    BY DEF Init, AsksWithPair, LockedIsLive, LocksExclude, At, Idle
  <1>3. LoginsAreIssued /\ IssuedHaveLogin /\ OneLiveTokenPerLogin
    BY NoPairIsNoPair DEF Init, LoginsAreIssued, IssuedHaveLogin, OneLiveTokenPerLogin
  <1> QED BY <1>1, <1>2, <1>3 DEF TokenInv

(***************************************************************************)
(* A step that takes one call from a state to another and leaves the       *)
(* tables alone keeps the invariant, if the call takes a lock only on a    *)
(* live token that nobody else has locked.                                 *)
(***************************************************************************)
LEMMA CallStepKeepsTokens ==
  ASSUME TokenInv, NEW c \in Calls, NEW j \in CallStates,
         call' = [call EXCEPT ![c] = j],
         UNCHANGED service,
         stored' \in Pairs \cup {NoPair}, ended' \in BOOLEAN, faults' \in 0..MaxFaults,
         j.pc \in {"refresh", "locked", "renewed", "revoke"} => j.pair \in Pairs,
         j.pc = "locked" => refresh[j.pair] = "live" /\ ~Locked(j.pair)
  PROVE  TokenInv'
  <1> USE DEF TokenInv
  <1>1. TypeOK'
    BY DEF TypeOK, service, CallStates
  <1>2. \A d \in Calls : call'[d] = IF d = c THEN j ELSE call[d]
    BY DEF TypeOK
  <1>3. AsksWithPair' /\ LockedIsLive'
    BY <1>2 DEF AsksWithPair, LockedIsLive, At, service
  <1>4. LocksExclude'
    BY <1>2 DEF LocksExclude, Locked, At
  <1>5. LoginsAreIssued' /\ IssuedHaveLogin' /\ OneLiveTokenPerLogin'
    BY DEF LoginsAreIssued, IssuedHaveLogin, OneLiveTokenPerLogin, service
  <1> QED BY <1>1, <1>3, <1>4, <1>5

\* The steps of a call that leave the tables alone.
CallOnly(c) ==
    \/ RefreshLock(c) \/ RefreshRefused(c) \/ RefreshFails(c)
    \/ Ask(c) \/ AnswerOk(c) \/ AnswerExpired(c) \/ RetryRefused(c)
    \/ TakePair(c) \/ ClearRefused(c) \/ AnswerLost(c) \/ LoggedIn(c)
    \/ UserLogout(c) \/ PageLogout(c) \/ LogoutLost(c) \/ Clear(c)

LEMMA CallOnlyKeepsTokens ==
  ASSUME TokenInv, NEW c \in Calls, CallOnly(c)
  PROVE  TokenInv'
  <1> USE NoPairIsNoPair
  <1>1. call[c] \in CallStates /\ stored \in Pairs \cup {NoPair} /\ faults \in 0..MaxFaults
    BY DEF TokenInv, TypeOK, CallStates
  <1>2. UNCHANGED service /\ ended' \in BOOLEAN
    BY DEF CallOnly, RefreshLock, RefreshRefused, RefreshFails, Ask, AnswerOk, AnswerExpired,
           RetryRefused, TakePair, ClearRefused, AnswerLost, LoggedIn, UserLogout, PageLogout,
           LogoutLost, Clear, BeginLogout, TokenInv, TypeOK
  <1>3. faults' \in 0..MaxFaults
    BY <1>1, SessionBounds
       DEF CallOnly, RefreshLock, RefreshRefused, RefreshFails, Ask, AnswerOk, AnswerExpired,
           RetryRefused, TakePair, ClearRefused, AnswerLost, LoggedIn, UserLogout, PageLogout,
           LogoutLost, Clear, BeginLogout, Fault
  <1>4. stored' \in Pairs \cup {NoPair}
    BY <1>1, CallShape
       DEF CallOnly, RefreshLock, RefreshRefused, RefreshFails, Ask, AnswerOk, AnswerExpired,
           RetryRefused, TakePair, ClearRefused, AnswerLost, LoggedIn, UserLogout, PageLogout,
           LogoutLost, Clear, BeginLogout, At, Waits
  <1>5. PICK j \in CallStates :
          /\ call' = [call EXCEPT ![c] = j]
          /\ j.pc \in {"refresh", "locked", "renewed", "revoke"} => j.pair \in Pairs
          /\ j.pc = "locked" => refresh[j.pair] = "live" /\ ~Locked(j.pair)
    <2>1. CASE AnswerOk(c) \/ AnswerLost(c) \/ LoggedIn(c) \/ Clear(c)
      <3>1. Idle \in CallStates /\ Idle.pc = "idle"
        BY DEF CallStates, Idle
      <3>2. call' = [call EXCEPT ![c] = Idle]
        BY <2>1 DEF AnswerOk, AnswerLost, LoggedIn, Clear, Return
      <3> QED BY <3>1, <3>2
    <2>2. CASE RefreshLock(c)
      <3> DEFINE j == [pc |-> "locked", pair |-> call[c].pair, new |-> NoPair]
      <3>1. call[c].pair \in Pairs
        BY <2>2 DEF RefreshLock, At, TokenInv, AsksWithPair
      <3>2. j \in CallStates /\ j.pair = call[c].pair
        BY <3>1 DEF CallStates, Waits
      <3> QED BY <2>2, <3>1, <3>2 DEF RefreshLock, Go
    <2>3. CASE RefreshRefused(c) \/ RefreshFails(c) \/ ClearRefused(c) \/ RetryRefused(c) \/ LogoutLost(c)
      BY <1>1, <2>3, CallShape
         DEF RefreshRefused, RefreshFails, ClearRefused, RetryRefused, LogoutLost, RefreshAnswer,
             RefreshStatus, HandleError, Go, CallStates, Waits, At
    <2>4. CASE Ask(c) \/ UserLogout(c) \/ PageLogout(c)
      BY <1>1, <2>4 DEF Ask, UserLogout, PageLogout, BeginLogout, Go, CallStates, Waits
    <2>5. CASE AnswerExpired(c) \/ TakePair(c)
      BY <1>1, <2>5, CallShape DEF AnswerExpired, TakePair, Go, CallStates, Waits, At
    <2> QED BY <2>1, <2>2, <2>3, <2>4, <2>5 DEF CallOnly
  <1> QED BY <1>2, <1>3, <1>4, <1>5, CallStepKeepsTokens

----------------------------------------------------------------------------
(* The steps that change the tables.                                       *)

LEMMA AccountKeepsTokens ==
  ASSUME TokenInv, Register \/ VerifyEmail \/ LinkExpires \/ \E p \in Pairs : AccessExpires(p)
  PROVE  TokenInv'
  <1>1. /\ UNCHANGED <<refresh, login, stored, call, ended, faults>>
        /\ account' \in {"none", "mailed", "expired", "verified"} /\ access' \subseteq Pairs
    BY DEF TokenInv, TypeOK, Register, VerifyEmail, LinkExpires, AccessExpires
  <1>2. TypeOK'
    BY <1>1 DEF TokenInv, TypeOK
  <1>3. AsksWithPair' /\ LockedIsLive' /\ LocksExclude'
    BY <1>1 DEF TokenInv, AsksWithPair, LockedIsLive, LocksExclude, At
  <1>4. LoginsAreIssued' /\ IssuedHaveLogin' /\ OneLiveTokenPerLogin'
    BY <1>1 DEF TokenInv, LoginsAreIssued, IssuedHaveLogin, OneLiveTokenPerLogin
  <1> QED BY <1>2, <1>3, <1>4 DEF TokenInv

LEMMA RefreshExpiresKeepsTokens ==
  ASSUME TokenInv, NEW p \in Pairs, RefreshExpires(p)
  PROVE  TokenInv'
  <1>1. TypeOK'
    BY DEF TokenInv, TypeOK, RefreshExpires
  <1>2. AsksWithPair' /\ LockedIsLive' /\ LocksExclude'
    BY DEF TokenInv, TypeOK, RefreshExpires, Locked, AsksWithPair, LockedIsLive, LocksExclude, At
  <1>3. LoginsAreIssued' /\ IssuedHaveLogin' /\ OneLiveTokenPerLogin'
    BY DEF TokenInv, TypeOK, RefreshExpires, LoginsAreIssued, IssuedHaveLogin, OneLiveTokenPerLogin
  <1> QED BY <1>1, <1>2, <1>3 DEF TokenInv

LEMMA LoginKeepsTokens ==
  ASSUME TokenInv, NEW c \in Calls, NEW n \in Pairs, Login(c, n)
  PROVE  TokenInv'
  <1> USE NoPairIsNoPair
  <1>1. refresh[n] = "unissued"
    BY DEF Login, IsNext, Unissued
  <1>2. TypeOK'
    BY DEF TokenInv, TypeOK, Login, InsertRefreshToken, Issue, Go, Waits
  <1>3. AsksWithPair' /\ LockedIsLive' /\ LocksExclude'
    BY <1>1 DEF TokenInv, TypeOK, Login, InsertRefreshToken, Go, AsksWithPair, LockedIsLive,
                LocksExclude, At
  <1>4. LoginsAreIssued' /\ IssuedHaveLogin'
    BY <1>1 DEF TokenInv, TypeOK, Login, InsertRefreshToken, Issue, LoginsAreIssued, IssuedHaveLogin
  <1>5. OneLiveTokenPerLogin'
    BY <1>1 DEF TokenInv, TypeOK, Login, InsertRefreshToken, Issue, LoginsAreIssued,
                IssuedHaveLogin, OneLiveTokenPerLogin
  <1> QED BY <1>2, <1>3, <1>4, <1>5 DEF TokenInv

(***************************************************************************)
(* The rotation: the token it revokes was the live one of its login, since *)
(* the row was locked from the check of the token to the commit.           *)
(***************************************************************************)
LEMMA RefreshCommitKeepsTokens ==
  ASSUME TokenInv, NEW c \in Calls, NEW n \in Pairs, RefreshCommit(c, n)
  PROVE  TokenInv'
  <1> DEFINE p == call[c].pair
  <1> USE NoPairIsNoPair
  <1>1. refresh[n] = "unissued" /\ At(c, "locked") /\ p \in Pairs /\ refresh[p] = "live"
    BY DEF RefreshCommit, IsNext, Unissued, TokenInv, LockedIsLive, AsksWithPair, At
  <1>2. call' = [call EXCEPT ![c] = [pc |-> "renewed", pair |-> p, new |-> n]]
    BY DEF RefreshCommit, RefreshAnswer, RefreshStatus, Go
  <1>3. refresh' = [refresh EXCEPT ![p] = "revoked", ![n] = "live"]
    BY <1>1 DEF RefreshCommit, InsertRefreshToken, RevokeRefreshToken, TokenInv, TypeOK
  <1>4. TypeOK'
    BY <1>1, <1>2, <1>3 DEF TokenInv, TypeOK, RefreshCommit, Issue, Waits
  <1>5. AsksWithPair' /\ LockedIsLive' /\ LocksExclude'
    BY <1>1, <1>2, <1>3 DEF TokenInv, TypeOK, AsksWithPair, LockedIsLive, LocksExclude, At
  <1>6. LoginsAreIssued' /\ IssuedHaveLogin'
    BY <1>1, <1>3 DEF TokenInv, TypeOK, RefreshCommit, Issue, LoginsAreIssued, IssuedHaveLogin
  <1>7. OneLiveTokenPerLogin'
    BY <1>1, <1>3 DEF TokenInv, TypeOK, RefreshCommit, Issue, OneLiveTokenPerLogin
  <1> QED BY <1>4, <1>5, <1>6, <1>7 DEF TokenInv

LEMMA LogoutKeepsTokens ==
  ASSUME TokenInv, NEW c \in Calls, Logout(c)
  PROVE  TokenInv'
  <1> DEFINE p == call[c].pair
  <1>1. p \in Pairs /\ ~Locked(p)
    BY DEF Logout, TokenInv, AsksWithPair, At
  <1>2. call' = [call EXCEPT ![c] = [pc |-> "clear", pair |-> p, new |-> NoPair]]
    BY DEF Logout, Go
  <1>3. /\ refresh' \in [Pairs -> {"unissued", "live", "revoked", "expired"}]
        /\ \A q \in Pairs : q # p => refresh'[q] = refresh[q]
        /\ refresh'[p] # "live" /\ (refresh'[p] = "unissued" <=> refresh[p] = "unissued")
    BY <1>1 DEF Logout, RevokeRefreshToken, TokenInv, TypeOK
  <1>4. TypeOK'
    BY <1>1, <1>2, <1>3 DEF TokenInv, TypeOK, Logout, Waits
  <1>5. AsksWithPair' /\ LockedIsLive' /\ LocksExclude'
    BY <1>1, <1>2, <1>3
       DEF TokenInv, TypeOK, AsksWithPair, LockedIsLive, LocksExclude, Locked, At
  <1>6. LoginsAreIssued' /\ IssuedHaveLogin' /\ OneLiveTokenPerLogin'
    BY <1>1, <1>3
       DEF TokenInv, TypeOK, Logout, LoginsAreIssued, IssuedHaveLogin, OneLiveTokenPerLogin
  <1> QED BY <1>4, <1>5, <1>6 DEF TokenInv

LEMMA NextKeepsTokens == TokenInv /\ [Next]_vars => TokenInv'
  <1> SUFFICES ASSUME TokenInv, [Next]_vars PROVE TokenInv'
    OBVIOUS
  <1>1. CASE Register \/ VerifyEmail \/ LinkExpires \/ \E p \in Pairs : AccessExpires(p)
    BY <1>1, AccountKeepsTokens
  <1>2. CASE \E p \in Pairs : RefreshExpires(p)
    BY <1>2, RefreshExpiresKeepsTokens
  <1>3. CASE \E c \in Calls : CallOnly(c)
    BY <1>3, CallOnlyKeepsTokens
  <1>4. CASE \E c \in Calls, n \in Pairs : Login(c, n)
    BY <1>4, LoginKeepsTokens
  <1>5. CASE \E c \in Calls, n \in Pairs : RefreshCommit(c, n)
    BY <1>5, RefreshCommitKeepsTokens
  <1>6. CASE \E c \in Calls : Logout(c)
    BY <1>6, LogoutKeepsTokens
  <1>7. CASE UNCHANGED vars
    BY <1>7 DEF vars, service, TokenInv, TypeOK, AsksWithPair, LockedIsLive, LocksExclude,
                LoginsAreIssued, IssuedHaveLogin, OneLiveTokenPerLogin, At
  <1> QED BY <1>1, <1>2, <1>3, <1>4, <1>5, <1>6, <1>7 DEF Next, Continue, CallOnly

(***************************************************************************)
(* Type correctness: the token tables, localStorage and the calls keep     *)
(* their types in every reachable state.                                   *)
(***************************************************************************)
THEOREM TypeCorrect == Spec => []TypeOK
  <1>1. TokenInv => TypeOK
    BY DEF TokenInv
  <1> QED BY <1>1, InitTokenInv, NextKeepsTokens, PTL DEF Spec

(***************************************************************************)
(* Rotation (refresh.go:31-73): for any number of tabs, of logins and of   *)
(* lost answers, a login never has two live refresh tokens.                *)
(***************************************************************************)
THEOREM RotationIsSingleUse == Spec => []OneLiveTokenPerLogin
  <1>1. TokenInv => OneLiveTokenPerLogin
    BY DEF TokenInv
  <1> QED BY <1>1, InitTokenInv, NextKeepsTokens, PTL DEF Spec

----------------------------------------------------------------------------
(* The refinement of LoginSessions.                                        *)

\* A step that issues nothing and changes no state of a token is invisible.
LEMMA QuietIsInvisible ==
  ASSUME UNCHANGED <<refresh, login>>
  PROVE  UNCHANGED <<LiveTokens, Issued>>
  BY DEF LiveTokens, Issued, Unissued

(***************************************************************************)
(* A live token that expires or is revoked is the only one of its login,   *)
(* which ends with it.                                                     *)
(***************************************************************************)
LEMMA LosingTheTokenEnds ==
  ASSUME TokenInv, NEW p \in Pairs, refresh[p] = "live", UNCHANGED login,
         NEW v \in {"revoked", "expired"}, refresh' = [refresh EXCEPT ![p] = v]
  PROVE  login[p] \in Pairs /\ Sessions!End(login[p])
  <1>1. PICK l \in Pairs : l = login[p]
    BY DEF TokenInv, IssuedHaveLogin
  <1>2. \A q \in Pairs : refresh'[q] = IF q = p THEN v ELSE refresh[q]
    BY DEF TokenInv, TypeOK
  <1>3. \A q \in Pairs : refresh[q] = "live" /\ login[q] = l => q = p
    BY <1>1 DEF TokenInv, OneLiveTokenPerLogin
  <1>4. LiveTokens' = [LiveTokens EXCEPT ![l] = {}]
    <2>1. \A m \in Pairs :
            {q \in Pairs : refresh'[q] = "live" /\ login'[q] = m}
              = IF m = l THEN {} ELSE {q \in Pairs : refresh[q] = "live" /\ login[q] = m}
      BY <1>1, <1>2, <1>3
    <2> QED BY <2>1 DEF LiveTokens
  <1>5. LiveTokens[l] # {}
    BY <1>1 DEF LiveTokens
  <1>6. Issued' = Issued
    BY <1>2 DEF Issued, Unissued
  <1> QED BY <1>1, <1>4, <1>5, <1>6 DEF Sessions!End

LEMMA LoginOpens ==
  ASSUME TokenInv, NEW c \in Calls, NEW n \in Pairs, Login(c, n)
  PROVE  Sessions!Open(n)
  <1>1. /\ refresh[n] = "unissued"
        /\ \A q \in Pairs : refresh'[q] = IF q = n THEN "live" ELSE refresh[q]
        /\ \A q \in Pairs : login'[q] = IF q = n THEN n ELSE login[q]
    BY DEF Login, IsNext, Unissued, InsertRefreshToken, Issue, TokenInv, TypeOK
  <1>2. \A q \in Pairs : refresh[q] = "live" => login[q] # n
    BY <1>1 DEF TokenInv, LoginsAreIssued
  <1>3. LiveTokens' = [LiveTokens EXCEPT ![n] = {n}]
    BY <1>1, <1>2 DEF LiveTokens
  <1>4. Issued' = Issued \cup {n} /\ n \notin Issued
    BY <1>1 DEF Issued, Unissued
  <1> QED BY <1>3, <1>4 DEF Sessions!Open

(***************************************************************************)
(* The commit of a refresh: under the row lock the token it takes is still *)
(* the live one of its login, so the login goes on from it.                *)
(***************************************************************************)
LEMMA RefreshCommitRotates ==
  ASSUME TokenInv, NEW c \in Calls, NEW n \in Pairs, RefreshCommit(c, n)
  PROVE  \E l, t \in Pairs : Sessions!Rotate(l, t, n)
  <1>1. PICK p \in Pairs : p = call[c].pair /\ refresh[p] = "live"
    BY DEF RefreshCommit, TokenInv, LockedIsLive, AsksWithPair, At
  <1>2. PICK l \in Pairs : l = login[p]
    BY <1>1 DEF TokenInv, IssuedHaveLogin
  <1>3. refresh[n] = "unissued" /\ n # p
    BY <1>1 DEF RefreshCommit, IsNext, Unissued
  <1>4. \A q \in Pairs :
          refresh'[q] = IF q = n THEN "live" ELSE IF q = p THEN "revoked" ELSE refresh[q]
    BY <1>1 DEF RefreshCommit, InsertRefreshToken, RevokeRefreshToken, TokenInv, TypeOK
  <1>5. \A q \in Pairs : login'[q] = IF q = n THEN l ELSE login[q]
    BY <1>1, <1>2 DEF RefreshCommit, Issue, TokenInv, TypeOK
  <1>6. \A q \in Pairs : refresh[q] = "live" /\ login[q] = l => q = p
    BY <1>1, <1>2 DEF TokenInv, OneLiveTokenPerLogin
  <1>7. LiveTokens[l] = {p}
    BY <1>1, <1>2, <1>6 DEF LiveTokens
  <1>8. LiveTokens' = [LiveTokens EXCEPT ![l] = {n}]
    <2>1. {q \in Pairs : refresh'[q] = "live" /\ login'[q] = l} = {n}
      BY <1>1, <1>3, <1>4, <1>5, <1>6
    <2>2. ASSUME NEW m \in Pairs, m # l
          PROVE  {q \in Pairs : refresh'[q] = "live" /\ login'[q] = m}
                   = {q \in Pairs : refresh[q] = "live" /\ login[q] = m}
      BY <1>2, <1>3, <1>4, <1>5, <2>2
    <2> QED BY <2>1, <2>2 DEF LiveTokens
  <1>9. Issued' = Issued \cup {n} /\ n \notin Issued
    BY <1>1, <1>3, <1>4 DEF Issued, Unissued
  <1> QED BY <1>7, <1>8, <1>9 DEF Sessions!Rotate

\* A logout with the live token ends the login; with an older one it does nothing.
LEMMA LogoutEnds ==
  ASSUME TokenInv, NEW c \in Calls, Logout(c)
  PROVE  Sessions!Next \/ UNCHANGED <<LiveTokens, Issued>>
  <1>1. PICK p \in Pairs : p = call[c].pair
    BY DEF Logout, TokenInv, AsksWithPair, At
  <1>2. CASE refresh[p] = "live"
    <2>1. refresh' = [refresh EXCEPT ![p] = "revoked"] /\ UNCHANGED login
      BY <1>1, <1>2 DEF Logout, RevokeRefreshToken, TokenInv, TypeOK
    <2> QED BY <1>2, <2>1, LosingTheTokenEnds DEF Sessions!Next
  <1>3. CASE refresh[p] # "live"
    <2>1. UNCHANGED <<refresh, login>>
      BY <1>1, <1>3 DEF Logout, RevokeRefreshToken, TokenInv, TypeOK
    <2> QED BY <2>1, QuietIsInvisible
  <1> QED BY <1>2, <1>3

LEMMA InitOpensNoSession == Init => Sessions!Init
  BY NoPairIsNoPair DEF Init, Sessions!Init, LiveTokens, Issued, Unissued

LEMMA SessionStep == TokenInv /\ [Next]_vars => [Sessions!Next]_<<LiveTokens, Issued>>
  <1> SUFFICES ASSUME TokenInv, [Next]_vars
               PROVE  Sessions!Next \/ UNCHANGED <<LiveTokens, Issued>>
    OBVIOUS
  <1>1. CASE \/ Register \/ VerifyEmail \/ LinkExpires
             \/ \E p \in Pairs : AccessExpires(p)
             \/ UNCHANGED vars
    BY <1>1, QuietIsInvisible DEF Register, VerifyEmail, LinkExpires, AccessExpires, vars, service
  <1>2. CASE \E p \in Pairs : RefreshExpires(p)
    BY <1>2, LosingTheTokenEnds DEF RefreshExpires, Sessions!Next
  <1>3. CASE \E c \in Calls : CallOnly(c)
    <2>1. UNCHANGED service
      BY <1>3
         DEF CallOnly, RefreshLock, RefreshRefused, RefreshFails, Ask, AnswerOk, AnswerExpired,
             RetryRefused, TakePair, ClearRefused, AnswerLost, LoggedIn, UserLogout, PageLogout,
             LogoutLost, Clear, BeginLogout
    <2> QED BY <2>1, QuietIsInvisible DEF service
  <1>4. CASE \E c \in Calls, n \in Pairs : Login(c, n)
    BY <1>4, LoginOpens DEF Sessions!Next
  <1>5. CASE \E c \in Calls, n \in Pairs : RefreshCommit(c, n)
    BY <1>5, RefreshCommitRotates DEF Sessions!Next
  <1>6. CASE \E c \in Calls : Logout(c)
    BY <1>6, LogoutEnds
  <1> QED BY <1>1, <1>2, <1>3, <1>4, <1>5, <1>6 DEF Next, Continue, CallOnly

(***************************************************************************)
(* AuthSession implements LoginSessions: whatever refreshes, logins,       *)
(* logouts and expiries do at the same time, the refresh tokens of a login *)
(* form one chain that is never revived once it has ended (refresh.go,     *)
(* login.go, logout.go).                                                   *)
(***************************************************************************)
THEOREM SessionsAreChains == Spec => ImplementsSessions
  <1> QED BY InitTokenInv, NextKeepsTokens, InitOpensNoSession, SessionStep, PTL
          DEF Spec, ImplementsSessions, Sessions!Spec

----------------------------------------------------------------------------
(* The browser: what it holds, and what backs the pair in localStorage.    *)

LEMMA InitBrowserInv == Init => BrowserInv
  <1> SUFFICES ASSUME Init PROVE BrowserInv
    OBVIOUS
  <1>1. TokenInv
    BY InitTokenInv
  <1>2. HeldAreIssued /\ NewIsPrivate /\ NewIsCarried /\ StoredPairIsBacked
    BY NoPairIsNoPair
       DEF Init, HeldAreIssued, NewIsPrivate, NewIsCarried, StoredPairIsBacked, Idle
  <1> QED BY <1>1, <1>2 DEF BrowserInv

(***************************************************************************)
(* A call that changes hands without touching the tables or localStorage   *)
(* keeps the invariant if it carries on a pair that is issued and that no  *)
(* call is about to store, brings no new pair along, and, if it gives up a *)
(* pair it had revoked, a fault is counted.                                *)
(***************************************************************************)
LEMMA CallStepKeepsBrowser ==
  ASSUME BrowserInv, TokenInv', NEW c \in Calls, NEW j \in CallStates,
         call' = [call EXCEPT ![c] = j],
         UNCHANGED <<refresh, stored>>,
         faults' = 0 => faults = 0 /\ call[c].pc \notin {"renewed", "clear"},
         j # Idle =>
            /\ j.pc \notin {"renewed", "loggedIn"}
            /\ j.new = NoPair
            /\ j.pair \in Pairs => j.pair = stored \/ (call[c] # Idle /\ j.pair = call[c].pair)
  PROVE  BrowserInv'
  <1> USE NoPairIsNoPair DEF BrowserInv
  <1>1. \A d \in Calls : call'[d] = IF d = c THEN j ELSE call[d]
    BY DEF TokenInv, TypeOK
  <1>2. j # Idle => j.pair \in Pairs \cup {NoPair}
    BY CallShape
  <1>3. HeldAreIssued'
    BY <1>1 DEF HeldAreIssued
  <1>4. NewIsPrivate'
    BY <1>1, <1>2 DEF NewIsPrivate
  <1>5. NewIsCarried'
    BY <1>1, CallShape DEF NewIsCarried
  <1>6. StoredPairIsBacked'
    BY <1>1 DEF StoredPairIsBacked
  <1> QED BY <1>3, <1>4, <1>5, <1>6

\* The steps of a call that change neither the tables nor localStorage.
CallMoves(c) ==
    \/ RefreshLock(c) \/ RefreshRefused(c) \/ RefreshFails(c)
    \/ Ask(c) \/ AnswerOk(c) \/ AnswerExpired(c) \/ RetryRefused(c)
    \/ AnswerLost(c) \/ UserLogout(c) \/ PageLogout(c) \/ LogoutLost(c)

LEMMA CallMovesKeepsBrowser ==
  ASSUME BrowserInv, TokenInv', NEW c \in Calls, CallMoves(c)
  PROVE  BrowserInv'
  <1> USE NoPairIsNoPair
  <1>1. /\ call[c] \in CallStates /\ stored \in Pairs \cup {NoPair}
        /\ faults \in Nat
    BY SessionBounds DEF BrowserInv, TokenInv, TypeOK, CallStates
  <1>2. UNCHANGED <<refresh, stored>>
    BY DEF CallMoves, RefreshLock, RefreshRefused, RefreshFails, Ask, AnswerOk, AnswerExpired,
           RetryRefused, AnswerLost, UserLogout, PageLogout, LogoutLost, BeginLogout, service
  <1>3. faults' = 0 => faults = 0 /\ call[c].pc \notin {"renewed", "clear"}
    <2>1. CASE RefreshFails(c) \/ AnswerLost(c) \/ LogoutLost(c)
      BY <1>1, <2>1 DEF RefreshFails, AnswerLost, LogoutLost, Fault
    <2>2. CASE ~(RefreshFails(c) \/ AnswerLost(c) \/ LogoutLost(c))
      BY <2>2 DEF CallMoves, RefreshLock, RefreshRefused, Ask, AnswerOk, AnswerExpired,
                  RetryRefused, UserLogout, PageLogout, BeginLogout, At, Idle
    <2> QED BY <2>1, <2>2
  <1>4. PICK j \in CallStates :
          /\ call' = [call EXCEPT ![c] = j]
          /\ j # Idle =>
               /\ j.pc \notin {"renewed", "loggedIn"}
               /\ j.new = NoPair
               /\ j.pair \in Pairs => j.pair = stored \/ (call[c] # Idle /\ j.pair = call[c].pair)
    <2>1. CASE AnswerOk(c) \/ AnswerLost(c)
      <3>1. Idle \in CallStates
        BY DEF CallStates
      <3>2. call' = [call EXCEPT ![c] = Idle]
        BY <2>1 DEF AnswerOk, AnswerLost, Return
      <3> QED BY <3>1, <3>2
    <2>2. CASE Ask(c) \/ UserLogout(c) \/ PageLogout(c)
      BY <1>1, <2>2 DEF Ask, UserLogout, PageLogout, BeginLogout, Go, CallStates, Waits
    <2>3. CASE \/ RefreshLock(c) \/ RefreshRefused(c) \/ RefreshFails(c)
               \/ AnswerExpired(c) \/ RetryRefused(c) \/ LogoutLost(c)
      <3>1. call[c] # Idle /\ call[c].pair \in Pairs \cup {NoPair}
        BY <1>1, <2>3, CallShape
           DEF RefreshLock, RefreshRefused, RefreshFails, AnswerExpired, RetryRefused,
               LogoutLost, At
      <3>2. PICK pc \in Waits \ {"renewed", "loggedIn"} : Go(c, pc, call[c].pair, NoPair)
        BY <2>3
           DEF RefreshLock, RefreshRefused, RefreshFails, AnswerExpired, RetryRefused,
               LogoutLost, RefreshAnswer, RefreshStatus, HandleError, Waits
      <3>3. [pc |-> pc, pair |-> call[c].pair, new |-> NoPair] \in CallStates
        BY <3>1 DEF CallStates
      <3> QED BY <3>1, <3>2, <3>3 DEF Go
    <2> QED BY <2>1, <2>2, <2>3 DEF CallMoves
  <1> QED BY <1>2, <1>3, <1>4, CallStepKeepsBrowser

(***************************************************************************)
(* Storing a new pair: it is private until then and not revoked, so it     *)
(* needs no backing.                                                       *)
(***************************************************************************)
LEMMA StoringKeepsBrowser ==
  ASSUME BrowserInv, TokenInv', NEW c \in Calls, TakePair(c) \/ LoggedIn(c)
  PROVE  BrowserInv'
  <1> DEFINE n == call[c].new
  <1> USE NoPairIsNoPair DEF BrowserInv
  <1>1. /\ call[c] # Idle /\ n \in Pairs /\ stored' = n /\ UNCHANGED <<refresh, faults>>
        /\ refresh[n] \notin {"unissued", "revoked"}
    BY DEF TakePair, LoggedIn, At, Idle, service, NewIsCarried, NewIsPrivate, HeldAreIssued
  <1>2. PICK j \in CallStates :
          /\ call' = [call EXCEPT ![c] = j]
          /\ j # Idle => j.pc = "retried" /\ j.pair = n /\ j.new = NoPair
    <2>1. CASE TakePair(c)
      <3> DEFINE r == [pc |-> "retried", pair |-> n, new |-> NoPair]
      <3>1. r \in CallStates
        BY <1>1 DEF CallStates, Waits
      <3>2. call' = [call EXCEPT ![c] = r]
        BY <2>1 DEF TakePair, Go
      <3>3. r.pc = "retried" /\ r.pair = n /\ r.new = NoPair
        OBVIOUS
      <3> HIDE DEF r, n
      <3> WITNESS r \in CallStates
      <3> QED BY <3>2, <3>3
    <2>2. CASE LoggedIn(c)
      <3>1. Idle \in CallStates
        BY DEF CallStates
      <3>2. call' = [call EXCEPT ![c] = Idle]
        BY <2>2 DEF LoggedIn, Return
      <3> QED BY <3>1, <3>2
    <2> QED BY <2>1, <2>2
  <1>3. \A d \in Calls : call'[d] = IF d = c THEN j ELSE call[d]
    BY <1>2 DEF TokenInv, TypeOK
  <1>4. HeldAreIssued'
    BY <1>1, <1>2, <1>3 DEF HeldAreIssued
  <1>5. NewIsPrivate'
    BY <1>1, <1>2, <1>3 DEF NewIsPrivate
  <1>6. NewIsCarried'
    BY <1>2, <1>3, CallShape DEF NewIsCarried
  <1>7. StoredPairIsBacked'
    BY <1>1 DEF StoredPairIsBacked
  <1> QED BY <1>4, <1>5, <1>6, <1>7

LEMMA ClearingKeepsBrowser ==
  ASSUME BrowserInv, TokenInv', NEW c \in Calls, ClearRefused(c) \/ Clear(c)
  PROVE  BrowserInv'
  <1> USE NoPairIsNoPair DEF BrowserInv
  <1>1. call[c] # Idle /\ stored' = NoPair /\ UNCHANGED refresh
    BY DEF ClearRefused, Clear, At, Idle, service
  <1>2. PICK j \in CallStates :
          /\ call' = [call EXCEPT ![c] = j]
          /\ j # Idle => j.pc = "unauthorized" /\ j.pair = call[c].pair /\ j.new = NoPair
    <2>1. CASE ClearRefused(c)
      <3>1. call[c].pair \in Pairs \cup {NoPair}
        BY <1>1, CallShape DEF TokenInv, TypeOK, CallStates
      <3> DEFINE r == [pc |-> "unauthorized", pair |-> call[c].pair, new |-> NoPair]
      <3>2. r \in CallStates
        BY <3>1 DEF CallStates, Waits
      <3>3. call' = [call EXCEPT ![c] = r]
        BY <2>1 DEF ClearRefused, Go
      <3>4. r.pc = "unauthorized" /\ r.pair = call[c].pair /\ r.new = NoPair
        OBVIOUS
      <3> HIDE DEF r
      <3> WITNESS r \in CallStates
      <3> QED BY <3>3, <3>4
    <2>2. CASE Clear(c)
      <3>1. Idle \in CallStates
        BY DEF CallStates
      <3>2. call' = [call EXCEPT ![c] = Idle]
        BY <2>2 DEF Clear, Return
      <3> QED BY <3>1, <3>2
    <2> QED BY <2>1, <2>2
  <1>3. \A d \in Calls : call'[d] = IF d = c THEN j ELSE call[d]
    BY <1>2 DEF TokenInv, TypeOK
  <1>4. HeldAreIssued' /\ StoredPairIsBacked'
    BY <1>1, <1>2, <1>3 DEF HeldAreIssued, StoredPairIsBacked
  <1>5. NewIsPrivate'
    BY <1>1, <1>2, <1>3 DEF NewIsPrivate
  <1>6. NewIsCarried'
    BY <1>2, <1>3, CallShape DEF NewIsCarried
  <1> QED BY <1>4, <1>5, <1>6

(***************************************************************************)
(* A token that expires is not revoked, and an account does not matter.    *)
(***************************************************************************)
LEMMA TimeKeepsBrowser ==
  ASSUME BrowserInv, TokenInv', UNCHANGED <<stored, call, faults>>,
         \A p \in Pairs :
            /\ refresh'[p] = "revoked" <=> refresh[p] = "revoked"
            /\ refresh'[p] = "unissued" => refresh[p] = "unissued"
  PROVE  BrowserInv'
  <1> USE NoPairIsNoPair DEF BrowserInv
  <1>1. HeldAreIssued' /\ NewIsPrivate' /\ NewIsCarried'
    BY DEF HeldAreIssued, NewIsPrivate, NewIsCarried
  <1>2. StoredPairIsBacked'
    BY DEF StoredPairIsBacked, TokenInv, TypeOK
  <1> QED BY <1>1, <1>2

LEMMA LoginKeepsBrowser ==
  ASSUME BrowserInv, TokenInv', NEW c \in Calls, NEW n \in Pairs, Login(c, n)
  PROVE  BrowserInv'
  <1> USE NoPairIsNoPair DEF BrowserInv
  <1> DEFINE j == [pc |-> "loggedIn", pair |-> NoPair, new |-> n]
  <1>1. refresh[n] = "unissued" /\ call[c] = Idle /\ UNCHANGED <<stored, faults>>
    BY DEF Login, IsNext, Unissued
  <1>2. refresh' = [refresh EXCEPT ![n] = "live"] /\ refresh \in [Pairs -> {"unissued", "live", "revoked", "expired"}]
    BY DEF Login, InsertRefreshToken, TokenInv, TypeOK
  <1>3. \A d \in Calls : call'[d] = IF d = c THEN j ELSE call[d]
    BY DEF TokenInv, TypeOK, Login, Go
  <1>4. HeldAreIssued'
    BY <1>1, <1>2, <1>3 DEF HeldAreIssued
  <1>5. NewIsPrivate'
    BY <1>1, <1>2, <1>3 DEF NewIsPrivate, HeldAreIssued, TokenInv, TypeOK
  <1>6. NewIsCarried'
    BY <1>3 DEF NewIsCarried
  <1>7. StoredPairIsBacked'
    BY <1>1, <1>2, <1>3 DEF StoredPairIsBacked, TokenInv, TypeOK, Idle
  <1> QED BY <1>4, <1>5, <1>6, <1>7

(***************************************************************************)
(* The pair whose rotation is committed is backed by the call that asked   *)
(* for it, until that call stores the successor.                           *)
(***************************************************************************)
LEMMA RefreshCommitKeepsBrowser ==
  ASSUME BrowserInv, TokenInv', NEW c \in Calls, NEW n \in Pairs, RefreshCommit(c, n)
  PROVE  BrowserInv'
  <1> USE NoPairIsNoPair DEF BrowserInv
  <1> DEFINE p == call[c].pair
             j == [pc |-> "renewed", pair |-> p, new |-> n]
  <1>1. /\ refresh[n] = "unissued" /\ p \in Pairs /\ refresh[p] = "live" /\ call[c] # Idle
        /\ At(c, "locked") /\ UNCHANGED <<stored, faults>>
    BY DEF RefreshCommit, IsNext, Unissued, TokenInv, LockedIsLive, AsksWithPair, At, Idle
  <1>2. \A d \in Calls : call'[d] = IF d = c THEN j ELSE call[d]
    BY DEF RefreshCommit, RefreshAnswer, RefreshStatus, Go, TokenInv, TypeOK
  <1>3. \A q \in Pairs : refresh'[q] = IF q = n THEN "live" ELSE IF q = p THEN "revoked" ELSE refresh[q]
    BY <1>1 DEF RefreshCommit, InsertRefreshToken, RevokeRefreshToken, TokenInv, TypeOK
  <1>4. HeldAreIssued'
    BY <1>1, <1>2, <1>3 DEF HeldAreIssued, TokenInv, TypeOK
  <1>5. NewIsPrivate'
    BY <1>1, <1>2, <1>3 DEF NewIsPrivate, HeldAreIssued, TokenInv, TypeOK
  <1>6. NewIsCarried'
    BY <1>2 DEF NewIsCarried
  <1>7. StoredPairIsBacked'
    BY <1>1, <1>2, <1>3 DEF StoredPairIsBacked, TokenInv, TypeOK, At
  <1> QED BY <1>4, <1>5, <1>6, <1>7

LEMMA LogoutKeepsBrowser ==
  ASSUME BrowserInv, TokenInv', NEW c \in Calls, Logout(c)
  PROVE  BrowserInv'
  <1> USE NoPairIsNoPair DEF BrowserInv
  <1> DEFINE p == call[c].pair
             j == [pc |-> "clear", pair |-> p, new |-> NoPair]
  <1>1. p \in Pairs /\ call[c] # Idle /\ At(c, "revoke") /\ UNCHANGED <<stored, faults>>
    BY DEF Logout, TokenInv, AsksWithPair, At, Idle
  <1>2. \A d \in Calls : call'[d] = IF d = c THEN j ELSE call[d]
    BY DEF Logout, Go, TokenInv, TypeOK
  <1>3. /\ \A q \in Pairs : q # p => refresh'[q] = refresh[q]
        /\ refresh'[p] = "unissued" => refresh[p] = "unissued"
    BY <1>1 DEF Logout, RevokeRefreshToken, TokenInv, TypeOK
  <1>4. HeldAreIssued'
    BY <1>1, <1>2, <1>3 DEF HeldAreIssued, TokenInv, TypeOK
  <1>5. NewIsPrivate'
    BY <1>1, <1>2, <1>3 DEF NewIsPrivate
  <1>6. NewIsCarried'
    BY <1>2 DEF NewIsCarried
  <1>7. StoredPairIsBacked'
    BY <1>1, <1>2, <1>3 DEF StoredPairIsBacked, TokenInv, TypeOK, At
  <1> QED BY <1>4, <1>5, <1>6, <1>7

LEMMA NextKeepsBrowser == BrowserInv /\ [Next]_vars => BrowserInv'
  <1> SUFFICES ASSUME BrowserInv, [Next]_vars PROVE BrowserInv'
    OBVIOUS
  <1>1. TokenInv'
    BY NextKeepsTokens DEF BrowserInv
  <1>2. CASE Register \/ VerifyEmail \/ LinkExpires \/ \E p \in Pairs : AccessExpires(p)
    BY <1>1, <1>2, TimeKeepsBrowser DEF Register, VerifyEmail, LinkExpires, AccessExpires
  <1>3. CASE \E p \in Pairs : RefreshExpires(p)
    <2>1. \A p \in Pairs : /\ refresh'[p] = "revoked" <=> refresh[p] = "revoked"
                           /\ refresh'[p] = "unissued" => refresh[p] = "unissued"
      BY <1>3 DEF RefreshExpires, BrowserInv, TokenInv, TypeOK
    <2> QED BY <1>1, <1>3, <2>1, TimeKeepsBrowser DEF RefreshExpires
  <1>4. CASE \E c \in Calls : CallMoves(c)
    BY <1>1, <1>4, CallMovesKeepsBrowser
  <1>5. CASE \E c \in Calls : TakePair(c) \/ LoggedIn(c)
    BY <1>1, <1>5, StoringKeepsBrowser
  <1>6. CASE \E c \in Calls : ClearRefused(c) \/ Clear(c)
    BY <1>1, <1>6, ClearingKeepsBrowser
  <1>7. CASE \E c \in Calls, n \in Pairs : Login(c, n)
    BY <1>1, <1>7, LoginKeepsBrowser
  <1>8. CASE \E c \in Calls, n \in Pairs : RefreshCommit(c, n)
    BY <1>1, <1>8, RefreshCommitKeepsBrowser
  <1>9. CASE \E c \in Calls : Logout(c)
    BY <1>1, <1>9, LogoutKeepsBrowser
  <1>10. CASE UNCHANGED vars
    BY <1>1, <1>10, TimeKeepsBrowser DEF vars, service
  <1> QED BY <1>2, <1>3, <1>4, <1>5, <1>6, <1>7, <1>8, <1>9, <1>10 DEF Next, Continue, CallMoves

(***************************************************************************)
(* Without a fault localStorage keeps a revoked refresh token only as long *)
(* as the call that had it revoked, for any number of tabs that refresh,   *)
(* log in and log out at the same time.                                    *)
(***************************************************************************)
THEOREM StorageIsBacked == Spec => []StoredPairIsBacked
  <1>1. BrowserInv => StoredPairIsBacked
    BY DEF BrowserInv
  <1> QED BY <1>1, InitBrowserInv, NextKeepsBrowser, PTL DEF Spec

----------------------------------------------------------------------------
(* The safety core of EveryCallReturns: no call goes round in circles.     *)

\* How many steps a call has ahead of it at most.
StepsLeft(j) ==
    CASE j.pc = "asked" -> 8
      [] j.pc = "refresh" -> 7
      [] j.pc = "locked" -> 6
      [] j.pc \in {"renewed", "refused"} -> 5
      [] j.pc = "retried" -> 4
      [] j.pc = "unauthorized" -> 3
      [] j.pc = "revoke" -> 2
      [] j.pc \in {"clear", "loggedIn"} -> 1
      [] OTHER -> 0

(***************************************************************************)
(* A step of a call, or a fault it meets, brings it nearer to its end: an  *)
(* authedFetch tries again once and refreshes once, and a page that gets a *)
(* 401 logs out once (authedFetch.js, AuthContext.jsx), whatever the other *)
(* tabs do to the pair meanwhile.                                          *)
(***************************************************************************)
CallsAdvance ==
    [][\A c \in Calls :
          call[c] # Idle /\ call'[c] # call[c] => StepsLeft(call'[c]) < StepsLeft(call[c])]_vars

LEMMA StepAdvances ==
  ASSUME TypeOK, NEW c \in Calls, Continue(c) \/ RefreshFails(c) \/ AnswerLost(c) \/ LogoutLost(c)
  PROVE  /\ \A d \in Calls \ {c} : call'[d] = call[d]
         /\ StepsLeft(call'[c]) < StepsLeft(call[c])
  <1>1. call \in [Calls -> CallStates]
    BY DEF TypeOK, CallStates
  <1>2. CASE AnswerOk(c) \/ AnswerLost(c) \/ LoggedIn(c) \/ Clear(c)
    <2>1. call' = [call EXCEPT ![c] = Idle]
      BY <1>2 DEF AnswerOk, AnswerLost, LoggedIn, Clear, Return
    <2>2. call[c].pc \in {"asked", "refresh", "locked", "renewed", "refused", "retried",
                          "loggedIn", "clear"}
      BY <1>2 DEF AnswerOk, AnswerLost, LoggedIn, Clear, At
    <2> QED BY <1>1, <2>1, <2>2 DEF StepsLeft, Idle
  <1>3. ASSUME NEW from \in Waits, NEW to \in Waits, NEW pair, NEW new,
               call[c].pc = from, Go(c, to, pair, new),
               <<from, to>> \in
                 {<<"refresh", "locked">>, <<"refresh", "refused">>, <<"locked", "refused">>,
                  <<"locked", "renewed">>, <<"revoke", "clear">>, <<"asked", "refresh">>,
                  <<"asked", "unauthorized">>, <<"retried", "unauthorized">>,
                  <<"renewed", "retried">>, <<"refused", "unauthorized">>,
                  <<"unauthorized", "revoke">>, <<"unauthorized", "clear">>}
        PROVE  /\ \A d \in Calls \ {c} : call'[d] = call[d]
               /\ StepsLeft(call'[c]) < StepsLeft(call[c])
    BY <1>1, <1>3 DEF Go, StepsLeft
  <1>4. CASE RefreshLock(c) \/ RefreshRefused(c) \/ RefreshFails(c)
             \/ \E n \in Pairs : RefreshCommit(c, n)
    BY <1>3, <1>4 DEF RefreshLock, RefreshRefused, RefreshFails, RefreshCommit, RefreshAnswer,
                      RefreshStatus, HandleError, At, Waits
  <1>5. CASE Logout(c) \/ LogoutLost(c) \/ RetryRefused(c)
    BY <1>3, <1>5 DEF Logout, LogoutLost, RetryRefused, At, Waits
  <1>6. CASE AnswerExpired(c) \/ TakePair(c) \/ ClearRefused(c)
    BY <1>3, <1>6 DEF AnswerExpired, TakePair, ClearRefused, At, Waits
  <1>7. CASE PageLogout(c)
    BY <1>3, <1>7 DEF PageLogout, BeginLogout, At, Waits
  <1> QED BY <1>2, <1>4, <1>5, <1>6, <1>7 DEF Continue

LEMMA NextAdvances ==
  TypeOK /\ [Next]_vars =>
    [\A c \in Calls :
        call[c] # Idle /\ call'[c] # call[c] => StepsLeft(call'[c]) < StepsLeft(call[c])]_vars
  <1> SUFFICES ASSUME TypeOK, Next, NEW c \in Calls, call[c] # Idle, call'[c] # call[c]
               PROVE  StepsLeft(call'[c]) < StepsLeft(call[c])
    OBVIOUS
  <1>1. CASE Register \/ VerifyEmail \/ LinkExpires
             \/ \E p \in Pairs : AccessExpires(p) \/ RefreshExpires(p)
    BY <1>1 DEF Register, VerifyEmail, LinkExpires, AccessExpires, RefreshExpires
  <1>2. ASSUME NEW d \in Calls, Ask(d) \/ UserLogout(d) \/ \E n \in Pairs : Login(d, n)
        PROVE  FALSE
    <2>1. call[d] = Idle /\ \E j : call' = [call EXCEPT ![d] = j]
      BY <1>2 DEF Ask, UserLogout, BeginLogout, Login, Go
    <2> QED BY <2>1 DEF TypeOK
  <1>3. ASSUME NEW d \in Calls,
               Continue(d) \/ RefreshFails(d) \/ AnswerLost(d) \/ LogoutLost(d)
        PROVE  StepsLeft(call'[c]) < StepsLeft(call[c])
    BY <1>3, StepAdvances
  <1> QED BY <1>1, <1>2, <1>3 DEF Next

(***************************************************************************)
(* No call of the browser goes round in circles: eight steps at most, with *)
(* one retry, one refresh and one logout, for any number of tabs, pairs    *)
(* and faults.  Only fairness is missing to EveryCallReturns.              *)
(***************************************************************************)
THEOREM NoCallLoops == Spec => CallsAdvance
  <1> QED BY TypeCorrect, NextAdvances, PTL DEF CallsAdvance, Spec
=============================================================================
