----------------------------- MODULE AuthSession -----------------------------
(***************************************************************************)
(* A user's session: the token tables of the auth service, and the browser *)
(* that keeps one pair of an access and a refresh token in localStorage.   *)
(*                                                                         *)
(* Requests of all tabs run concurrently.  On a 401 authedFetch refreshes  *)
(* the pair it has read and tries once more; a page that gets a 401 all    *)
(* the same logs out.  A refresh token is used once: the service revokes   *)
(* it and issues its successor in one transaction, under a row lock.       *)
(***************************************************************************)
EXTENDS Naturals, FiniteSets

CONSTANTS
    Calls,     \* concurrent activities of the browser: authedFetch, login, logout
    MaxPairs,  \* bound: token pairs the service issues
    MaxFaults  \* bound: failed transactions and lost answers

ASSUME SessionBounds == MaxPairs \in Nat \ {0} /\ MaxFaults \in Nat

Pairs == 1..MaxPairs
NoPair == 0

VARIABLES
    account,  \* the user's row and its verification link
    refresh,  \* refresh_tokens: the state of each row
    access,   \* access tokens that have not expired
    login,    \* the login a pair descends from, as the first pair of it
    stored,   \* the pair in localStorage
    call,     \* what each activity of the browser waits for
    ended,    \* a user or a page without a pair logged out, or a refresh token expired
    faults    \* faults so far

service == <<account, refresh, access, login>>
vars == <<service, stored, call, ended, faults>>

Idle == [pc |-> "idle"]
Waits ==
    {"asked", "refresh", "locked", "renewed", "refused", "retried",
     "unauthorized", "revoke", "clear", "loggedIn"}

TypeOK ==
    /\ account \in {"none", "mailed", "expired", "verified"}
    /\ refresh \in [Pairs -> {"unissued", "live", "revoked", "expired"}]
    /\ access \subseteq Pairs
    /\ login \in [Pairs -> Pairs \cup {NoPair}]
    /\ stored \in Pairs \cup {NoPair}
    /\ call \in [Calls -> {Idle} \cup [pc : Waits, pair : Pairs \cup {NoPair},
                                       new : Pairs \cup {NoPair}]]
    /\ ended \in BOOLEAN
    /\ faults \in 0..MaxFaults

Init ==
    /\ account = "none"
    /\ refresh = [p \in Pairs |-> "unissued"]
    /\ access = {}
    /\ login = [p \in Pairs |-> NoPair]
    /\ stored = NoPair
    /\ call = [c \in Calls |-> Idle]
    /\ ended = FALSE
    /\ faults = 0

Fault == faults < MaxFaults /\ faults' = faults + 1

At(c, pc) == call[c].pc = pc
Go(c, pc, pair, new) ==
    call' = [call EXCEPT ![c] = [pc |-> pc, pair |-> pair, new |-> new]]
\* Faulty variant: a call that is over keeps its pair.
ReturnKeepsPair(c) == call' = [call EXCEPT ![c].pc = "idle"]

Return(c) == call' = [call EXCEPT ![c] = Idle]

Unissued == {p \in Pairs : refresh[p] = "unissued"}
IsNext(n) == n \in Unissued /\ \A p \in Unissued : n <= p

\* The transaction of a refresh holds the row of its token FOR UPDATE.
Locked(p) == \E c \in Calls : At(c, "locked") /\ call[c].pair = p

----------------------------------------------------------------------------
(* The store of the service, its handlers and the middleware of the other  *)
(* service.                                                                *)

EmailIsFree == account = "none"
UsableLink == account = "mailed"
EmailVerified == account = "verified"

InsertRefreshToken(tokens, n) == [tokens EXCEPT ![n] = "live"]
RevokeRefreshToken(tokens, p) ==
    [tokens EXCEPT ![p] = IF @ = "live" THEN "revoked" ELSE @]

\* The pair n of the login that began with pair l.
Issue(n, l) == access' = access \cup {n} /\ login' = [login EXCEPT ![n] = l]

\* AuthJWT of the subscription service.
Accepted(p) == p \in access

HandleError == [ErrRefreshTokenInvalid |-> 401, InternalError |-> 500]
RefreshStatus(err) == IF err = "none" THEN 200 ELSE HandleError[err]

\* refreshAccessToken distinguishes the status 200 from all others.
RefreshAnswer(c, err, new) ==
    Go(c, IF RefreshStatus(err) = 200 THEN "renewed" ELSE "refused", call[c].pair, new)

----------------------------------------------------------------------------
(* The account, and time.                                                  *)

\* Execute of Register: the user, the link and its mail in one transaction.
Register ==
    /\ EmailIsFree
    /\ account' = "mailed"
    /\ UNCHANGED <<refresh, access, login, stored, call, ended, faults>>

\* Execute of VerifyEmail: the link is used up and the user verified.
VerifyEmail ==
    /\ UsableLink
    /\ account' = "verified"
    /\ UNCHANGED <<refresh, access, login, stored, call, ended, faults>>

\* An account whose link expired stays taken and cannot log in.
LinkExpires ==
    /\ UsableLink
    /\ account' = "expired"
    /\ UNCHANGED <<refresh, access, login, stored, call, ended, faults>>

AccessExpires(p) ==
    /\ p \in access
    /\ access' = access \ {p}
    /\ UNCHANGED <<account, refresh, login, stored, call, ended, faults>>

RefreshExpires(p) ==
    /\ refresh[p] = "live" /\ ~Locked(p)
    /\ refresh' = [refresh EXCEPT ![p] = "expired"]
    /\ ended' = TRUE
    /\ UNCHANGED <<account, access, login, stored, call, faults>>

----------------------------------------------------------------------------
(* Execute of Login, Refresh and Logout.                                   *)

Login(c, n) ==
    /\ call[c] = Idle
    /\ EmailVerified
    /\ IsNext(n)
    /\ refresh' = InsertRefreshToken(refresh, n)
    /\ Issue(n, n)
    /\ Go(c, "loggedIn", NoPair, n)
    /\ UNCHANGED <<account, stored, ended, faults>>

\* Faulty variant: the SELECT without FOR UPDATE.
RefreshLockShared(c) ==
    /\ At(c, "refresh")
    /\ refresh[call[c].pair] = "live"
    /\ Go(c, "locked", call[c].pair, NoPair)
    /\ UNCHANGED <<service, stored, ended, faults>>

\* Faulty variant: only revoked_at is checked.
RefreshLockExpired(c) ==
    /\ At(c, "refresh")
    /\ refresh[call[c].pair] \in {"live", "expired"} /\ ~Locked(call[c].pair)
    /\ Go(c, "locked", call[c].pair, NoPair)
    /\ UNCHANGED <<service, stored, ended, faults>>

RefreshLock(c) ==
    /\ At(c, "refresh")
    /\ refresh[call[c].pair] = "live" /\ ~Locked(call[c].pair)
    /\ Go(c, "locked", call[c].pair, NoPair)
    /\ UNCHANGED <<service, stored, ended, faults>>

\* The token is revoked or expired: 401.
RefreshRefused(c) ==
    /\ At(c, "refresh")
    /\ refresh[call[c].pair] \in {"revoked", "expired"}
    /\ RefreshAnswer(c, "ErrRefreshTokenInvalid", NoPair)
    /\ UNCHANGED <<service, stored, ended, faults>>

\* A statement or Commit fails: 500, which the browser takes for a refusal.
RefreshFails(c) ==
    /\ At(c, "locked")
    /\ Fault
    /\ RefreshAnswer(c, "InternalError", NoPair)
    /\ UNCHANGED <<service, stored, ended>>

\* The old token is revoked and its successor inserted; Commit.
RefreshCommit(c, n) ==
    /\ At(c, "locked")
    /\ IsNext(n)
    /\ refresh' = InsertRefreshToken(RevokeRefreshToken(refresh, call[c].pair), n)
    /\ Issue(n, login[call[c].pair])
    /\ RefreshAnswer(c, "none", n)
    /\ UNCHANGED <<account, stored, ended, faults>>

\* RevokeRefreshToken waits for the row lock of a refresh.
Logout(c) ==
    /\ At(c, "revoke")
    /\ ~Locked(call[c].pair)
    /\ refresh' = RevokeRefreshToken(refresh, call[c].pair)
    /\ Go(c, "clear", call[c].pair, NoPair)
    /\ UNCHANGED <<account, access, login, stored, ended, faults>>

----------------------------------------------------------------------------
(* The browser: authedFetch, login and logout of AuthContext, the pages.   *)

\* authedFetch reads the pair and sends the request.
Ask(c) ==
    /\ call[c] = Idle
    /\ Go(c, "asked", stored, NoPair)
    /\ UNCHANGED <<service, stored, ended, faults>>

\* The access token is accepted, at the first or the second attempt.
AnswerOk(c) ==
    /\ At(c, "asked") \/ At(c, "retried")
    /\ Accepted(call[c].pair)
    /\ Return(c)
    /\ UNCHANGED <<service, stored, ended, faults>>

\* The first 401 leads to a refresh, if there is a refresh token.
AnswerExpired(c) ==
    /\ At(c, "asked")
    /\ ~Accepted(call[c].pair)
    /\ Go(c, IF call[c].pair = NoPair THEN "unauthorized" ELSE "refresh", call[c].pair, NoPair)
    /\ UNCHANGED <<service, stored, ended, faults>>

\* Faulty variant: a second 401 leads to a retry with the same pair.
RetryRefusedAgain(c) ==
    /\ At(c, "retried")
    /\ ~Accepted(call[c].pair)
    /\ UNCHANGED vars

\* The second 401 is returned to the page.
RetryRefused(c) ==
    /\ At(c, "retried")
    /\ ~Accepted(call[c].pair)
    /\ Go(c, "unauthorized", call[c].pair, NoPair)
    /\ UNCHANGED <<service, stored, ended, faults>>

\* Faulty variant: the new pair is used and not kept.
TakePairUnstored(c) ==
    /\ At(c, "renewed")
    /\ Go(c, "retried", call[c].new, NoPair)
    /\ UNCHANGED <<service, stored, ended, faults>>

\* setTokens and the second attempt.
TakePair(c) ==
    /\ At(c, "renewed")
    /\ stored' = call[c].new
    /\ Go(c, "retried", call[c].new, NoPair)
    /\ UNCHANGED <<service, ended, faults>>

\* clearTokens after a refresh that failed; the page gets the first 401.
ClearRefused(c) ==
    /\ At(c, "refused")
    /\ stored' = NoPair
    /\ Go(c, "unauthorized", call[c].pair, NoPair)
    /\ UNCHANGED <<service, ended, faults>>

\* The connection breaks: fetch throws, and the pair stays as it is.
AnswerLost(c) ==
    /\ call[c].pc \in {"asked", "refresh", "locked", "renewed", "refused", "retried", "loggedIn"}
    /\ Fault
    /\ Return(c)
    /\ UNCHANGED <<service, stored, ended>>

\* The new pair of a login is kept.
LoggedIn(c) ==
    /\ At(c, "loggedIn")
    /\ stored' = call[c].new
    /\ Return(c)
    /\ UNCHANGED <<service, ended, faults>>

\* logout reads the refresh token and sends it, if there is one.
BeginLogout(c) ==
    /\ Go(c, IF stored = NoPair THEN "clear" ELSE "revoke", stored, NoPair)
    /\ UNCHANGED <<service, stored, faults>>

\* The user presses "Log out", or a page got a 401.
UserLogout(c) == call[c] = Idle /\ BeginLogout(c) /\ ended' = TRUE
PageLogout(c) ==
    /\ At(c, "unauthorized")
    /\ BeginLogout(c)
    /\ ended' = (ended \/ call[c].pair = NoPair)

\* The request fails before or after the service has revoked the token; the
\* error is caught.
LogoutLost(c) ==
    /\ At(c, "revoke")
    /\ Fault
    /\ Go(c, "clear", call[c].pair, NoPair)
    /\ UNCHANGED <<service, stored, ended>>

\* clearTokens at the end of logout.
Clear(c) ==
    /\ At(c, "clear")
    /\ stored' = NoPair
    /\ Return(c)
    /\ UNCHANGED <<service, ended, faults>>

Continue(c) ==
    \/ RefreshLock(c) \/ RefreshRefused(c) \/ Logout(c)
    \/ \E n \in Pairs : RefreshCommit(c, n)
    \/ AnswerOk(c) \/ AnswerExpired(c) \/ RetryRefused(c)
    \/ TakePair(c) \/ ClearRefused(c) \/ LoggedIn(c) \/ PageLogout(c) \/ Clear(c)

Next ==
    \/ Register \/ VerifyEmail \/ LinkExpires
    \/ \E p \in Pairs : AccessExpires(p) \/ RefreshExpires(p)
    \/ \E c \in Calls :
          \/ Ask(c) \/ UserLogout(c)
          \/ \E n \in Pairs : Login(c, n)
          \/ Continue(c)
          \/ RefreshFails(c) \/ AnswerLost(c) \/ LogoutLost(c)

(***************************************************************************)
(* The service answers what it was asked and the browser goes on; a waiter *)
(* for a row lock gets it in the end.  Users, time and faults are free.    *)
(***************************************************************************)
Spec == Init /\ [][Next]_vars /\ \A c \in Calls : WF_vars(Continue(c))

----------------------------------------------------------------------------
(* Properties.                                                             *)

(***************************************************************************)
(* docs/SDD.md:171: a refresh token is "single-use - rotated on every      *)
(* /refresh call".  However many refreshes of one pair meet, a login never *)
(* has two live refresh tokens.                                            *)
(***************************************************************************)
OneLiveTokenPerLogin ==
    \A p, q \in Pairs :
        refresh[p] = "live" /\ refresh[q] = "live" /\ login[p] = login[q] => p = q

\* The tokens a login may exchange.
LiveTokens == [l \in Pairs |-> {p \in Pairs : refresh[p] = "live" /\ login[p] = l}]
Issued == Pairs \ Unissued

(***************************************************************************)
(* The refresh tokens of a login are one chain: only its last token is     *)
(* exchanged, a token that was used, revoked or has expired never works    *)
(* again, and neither a rotation that races with a logout nor one that     *)
(* waited for a row lock revives a login that has ended.                   *)
(***************************************************************************)
Sessions == INSTANCE LoginSessions WITH
    Tokens <- Pairs, current <- LiveTokens, issued <- Issued
ImplementsSessions == Sessions!Spec

(***************************************************************************)
(* While nothing fails, localStorage holds a revoked refresh token only    *)
(* until the call that had it revoked writes the next pair or clears it:   *)
(* no interleaving of tabs brings an old pair back, or keeps one.          *)
(***************************************************************************)
StoredPairIsBacked ==
    stored # NoPair /\ refresh[stored] = "revoked" /\ faults = 0 =>
        \E c \in Calls : call[c].pc \in {"renewed", "clear"} /\ call[c].pair = stored

(***************************************************************************)
(* Each call of the browser comes to an end, with at most one refresh and  *)
(* one logout, whatever the others do (as long as there are pairs left).   *)
(***************************************************************************)
EveryCallReturns ==
    \A c \in Calls : call[c] # Idle ~> call[c] = Idle \/ Unissued = {}

(***************************************************************************)
(* authedFetch.js:17: "an expired access token is the expected case, not   *)
(* an error worth surfacing to the caller".  So the refresh of a session   *)
(* that nobody ended, and that met no fault, should not be refused, which  *)
(* makes authedFetch give the 401 to the page.                             *)
(***************************************************************************)
ExpiredAccessIsNotSurfaced ==
    \A c \in Calls : At(c, "refused") => ended \/ faults > 0
=============================================================================
