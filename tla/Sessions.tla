------------------------------- MODULE Sessions -------------------------------
(***************************************************************************)
(* The sessions of one account: sign-in with its lockout, rotation of the  *)
(* refresh token, sign-out, change and reset of the password, and what an  *)
(* administrator does to the account.                                      *)
(*                                                                         *)
(* As in the other services a request reads, judges what it read, and      *)
(* commits a transaction that does not look again.  A request is modelled  *)
(* in steps, one for each read and one for its commit.  The commits of an  *)
(* account are atomic: each updates the user's row first, or the session's *)
(* row; a refresh and a sign-out lock the token and the session in         *)
(* opposite orders, and PostgreSQL rolls one of them back (Abandon).       *)
(*                                                                         *)
(* An access token names its session and is only good for that, so it is   *)
(* the session.  Devices, profiles, roles and the password policy are left *)
(* out.                                                                    *)
(***************************************************************************)
EXTENDS Integers, FiniteSets

CONSTANTS
  Requests,            \* slots for requests the server handles at one time
  SessionIds,          \* bound: the sessions that may be opened
  Tokens,              \* bound: the refresh tokens that may be issued
  Links,               \* bound: the password reset links that may be sent
  Passwords,
  NoSession,           \* null
  NoToken,             \* null
  NoLink,              \* null
  MAX_FAILED_ATTEMPTS,
  MaxTries             \* bound: no sign-in is tried beyond this many failures

ASSUME SessionsAssumption ==
  /\ NoSession \notin SessionIds
  /\ NoToken \notin Tokens
  /\ NoLink \notin Links
  /\ Passwords # {}
  /\ MAX_FAILED_ATTEMPTS \in Nat \ {0}
  /\ MaxTries \in Nat

VARIABLES
  account,     \* the user's row
  sessions,    \* the sessions' rows
  tokens,      \* the refresh tokens' rows
  links,       \* the password reset links
  requests,    \* what each request slot is doing
  openedWith,  \* history: the password a session was opened or kept with
  failures,    \* history: sign-ins failed since the count last started over
  deactivated, \* history: whether an administrator's last word on it was no
  replayed     \* history: the sessions of which a rotated token came again

history == <<openedWith, failures, deactivated, replayed>>
data == <<account, sessions, tokens, links>>
vars == <<account, sessions, tokens, links, requests, openedWith, failures,
          deactivated, replayed>>

UserStatus == {"PENDING_ACTIVATION", "ACTIVE", "SUSPENDED", "DISABLED"}
Deactivated == {"SUSPENDED", "DISABLED"}

Account == [status : UserStatus, password : Passwords, attempts : Nat,
            locked : BOOLEAN]

SessionStates == {"none", "live", "expired", "revoked"}

\* A token that was revoked or has expired is spent; one that was exchanged for
\* another is rotated, which is to say used and revoked.
Token == [state : {"none", "usable", "rotated", "spent"},
          session : SessionIds \cup {NoSession}]

Operations == {"none", "login", "refresh", "logout", "changePassword",
               "resetPassword", "setStatus", "setPassword", "unlock"}

Request == [op : Operations,
            step : {"idle", "read", "checked", "ready", "failing"},
            session : SessionIds \cup {NoSession},
            token : Tokens \cup {NoToken},
            link : Links \cup {NoLink}, password : Passwords,
            status : UserStatus, attempts : Nat]

Idle == [op |-> "none", step |-> "idle", session |-> NoSession,
         token |-> NoToken, link |-> NoLink,
         password |-> CHOOSE p \in Passwords : TRUE,
         status |-> "ACTIVE", attempts |-> 0]

SessionsTypeOK ==
  /\ account \in Account
  /\ sessions \in [SessionIds -> SessionStates]
  /\ tokens \in [Tokens -> Token]
  /\ links \in [Links -> {"none", "issued", "spent"}]
  /\ requests \in [Requests -> Request]
  /\ openedWith \in [SessionIds -> Passwords]
  /\ failures \in Nat
  /\ deactivated \in BOOLEAN
  /\ replayed \subseteq SessionIds

-----------------------------------------------------------------------------
(* Helpers *)

At(r, op, step) == requests[r].op = op /\ requests[r].step = step

\* A request arrives and has made its first read.
Receive(r, q) ==
  /\ requests[r].step = "idle"
  /\ requests' = [requests EXCEPT ![r] = q]
  /\ UNCHANGED <<data, history>>

Proceed(r, step) ==
  /\ requests' = [requests EXCEPT ![r].step = step]
  /\ UNCHANGED <<data, history>>

Finish(r) == requests' = [requests EXCEPT ![r] = Idle]

\* Mutant: the lock is lifted and the count is kept.
ForgivenLock(row) == [row EXCEPT !.locked = FALSE]

Forgiven(row) == [row EXCEPT !.attempts = 0, !.locked = FALSE]

\* Mutant: a token without its session.
IssuedToNobody(rows, k, s) ==
  [rows EXCEPT ![k] = [state |-> "usable", session |-> "nobody"]]

Issued(rows, k, s) ==
  [rows EXCEPT ![k] = [state |-> "usable", session |-> s]]

\* Mutant: the old token stays.
StillUsable(k) == tokens

Rotated(k) == [tokens EXCEPT ![k].state = "rotated"]

\* The sessions of a set, and their tokens, are revoked.
Revoke(ended) ==
  /\ sessions' = [s \in SessionIds |->
       IF s \in ended /\ sessions[s] # "none" THEN "revoked" ELSE sessions[s]]
  /\ tokens' = [k \in Tokens |->
       IF tokens[k].session \in ended /\ tokens[k].state = "usable"
       THEN [tokens[k] EXCEPT !.state = "spent"] ELSE tokens[k]]

-----------------------------------------------------------------------------
(* Signing in *)

LoginRead(r, given) ==
  /\ account.attempts < MaxTries
  /\ ~ account.locked
  /\ account.status \notin Deactivated
  /\ Receive(r, [Idle EXCEPT !.op = "login",
       !.step = IF given = account.password THEN "ready" ELSE "failing",
       !.password = given, !.status = account.status,
       !.attempts = account.attempts])

\* The status read is written back, activated if it was pending.
LoginCommit(r, s, k) ==
  LET q == requests[r]
  IN  /\ At(r, "login", "ready")
      /\ sessions[s] = "none"
      /\ tokens[k].state = "none"
      /\ account' = [Forgiven(account) EXCEPT !.status =
           IF q.status = "PENDING_ACTIVATION" THEN "ACTIVE" ELSE q.status]
      /\ sessions' = [sessions EXCEPT ![s] = "live"]
      /\ tokens' = Issued(tokens, k, s)
      /\ openedWith' = [openedWith EXCEPT ![s] = q.password]
      /\ failures' = 0
      /\ Finish(r)
      /\ UNCHANGED <<links, deactivated, replayed>>

\* registerFailedAttempt writes the count that was read, plus one, and a lock
\* or none.
RegisterFailedAttempt(r) ==
  LET attempts == requests[r].attempts + 1
  IN  /\ At(r, "login", "failing")
      /\ account' = [account EXCEPT !.attempts = attempts,
                       !.locked = attempts >= MAX_FAILED_ATTEMPTS]
      /\ failures' = failures + 1
      /\ Finish(r)
      /\ UNCHANGED <<sessions, tokens, links, openedWith, deactivated,
                     replayed>>

-----------------------------------------------------------------------------
(* Refreshing: the token and its user are read, then the session. *)

RefreshRead(r, k) ==
  /\ tokens[k].state = "usable"
  /\ account.status \notin Deactivated
  /\ Receive(r, [Idle EXCEPT !.op = "refresh", !.step = "read", !.token = k,
                             !.session = tokens[k].session])

\* A rotated token is refused for being revoked.  The branch after that, which
\* revokes the family of a used token, is never taken: used means revoked.
RefreshWithRotated(k) ==
  /\ tokens[k].state = "rotated"
  /\ replayed' = replayed \cup {tokens[k].session}
  /\ UNCHANGED <<data, requests, openedWith, failures, deactivated>>

RefreshReadSession(r) ==
  /\ At(r, "refresh", "read")
  /\ sessions[requests[r].session] = "live"
  /\ Proceed(r, "ready")

RefreshCommit(r, k) ==
  LET q == requests[r]
  IN  /\ At(r, "refresh", "ready")
      /\ tokens[k].state = "none"
      /\ tokens' = Issued(Rotated(q.token), k, q.session)
      /\ Finish(r)
      /\ UNCHANGED <<account, sessions, links, history>>

-----------------------------------------------------------------------------
(* What a signed-in user does: the guard reads the user, then the session. *)

\* canActivate: the bearer token verifies, so it was signed for a session, in
\* whatever state that is by now.
Verified(s) == sessions[s] # "none"

GuardRead(r, op, s) ==
  /\ op \in {"logout", "changePassword"}
  /\ Verified(s)
  /\ account.status \notin Deactivated
  /\ ~ account.locked
  /\ Receive(r, [Idle EXCEPT !.op = op, !.step = "read", !.session = s])

GuardReadSession(r) ==
  /\ requests[r].op \in {"logout", "changePassword"}
  /\ requests[r].step = "read"
  /\ sessions[requests[r].session] = "live"
  /\ Proceed(r, "checked")

LogoutCommit(r) ==
  /\ At(r, "logout", "checked")
  /\ Revoke({requests[r].session})
  /\ Finish(r)
  /\ UNCHANGED <<account, links, history>>

\* The current password is given, and a new one that differs from it.
ChangeReadPassword(r, new) ==
  /\ At(r, "changePassword", "checked")
  /\ new # account.password
  /\ requests' = [requests EXCEPT ![r].step = "ready", ![r].password = new]
  /\ UNCHANGED <<data, history>>

\* Mutant: the other devices stay signed in.
NoOtherSessions(s) == {}

\* "Every other device authenticated with the old password."
OtherSessions(s) == SessionIds \ {s}

ChangeCommit(r) ==
  LET q == requests[r]
  IN  /\ At(r, "changePassword", "ready")
      /\ account' = [account EXCEPT !.password = q.password]
      /\ Revoke(OtherSessions(q.session))
      /\ openedWith' = [openedWith EXCEPT ![q.session] = q.password]
      /\ Finish(r)
      /\ UNCHANGED <<links, failures, deactivated, replayed>>

-----------------------------------------------------------------------------
(* Resetting a forgotten password *)

RequestPasswordReset(l) ==
  /\ links[l] = "none"
  /\ links' = [links EXCEPT ![l] = "issued"]
  /\ UNCHANGED <<account, sessions, tokens, requests, history>>

ResetRead(r, l, new) ==
  /\ links[l] = "issued"
  /\ Receive(r, [Idle EXCEPT !.op = "resetPassword", !.step = "ready",
                             !.link = l, !.password = new])

ResetCommit(r) ==
  LET q == requests[r]
  IN  /\ At(r, "resetPassword", "ready")
      /\ account' = [Forgiven(account) EXCEPT !.password = q.password]
      /\ links' = [links EXCEPT ![q.link] = "spent"]
      /\ Revoke(SessionIds)
      /\ failures' = 0
      /\ Finish(r)
      /\ UNCHANGED <<openedWith, deactivated, replayed>>

-----------------------------------------------------------------------------
(* What an administrator does: each reads the user, to see that it exists. *)

AdminRead(r, op, status, password) ==
  /\ op \in {"setStatus", "setPassword", "unlock"}
  /\ Receive(r, [Idle EXCEPT !.op = op, !.step = "ready", !.status = status,
                             !.password = password])

\* Mutant: only a suspension ends sessions.
RevokedBySuspension(status) == IF status = "SUSPENDED" THEN SessionIds ELSE {}

\* The sessions that a change of status ends.
RevokedBy(status) == IF status \in Deactivated THEN SessionIds ELSE {}

SetStatusCommit(r) ==
  LET status == requests[r].status
  IN  /\ At(r, "setStatus", "ready")
      /\ account' = [account EXCEPT !.status = status]
      /\ Revoke(RevokedBy(status))
      /\ deactivated' = (status \in Deactivated)
      /\ Finish(r)
      /\ UNCHANGED <<links, openedWith, failures, replayed>>

SetPasswordCommit(r) ==
  /\ At(r, "setPassword", "ready")
  /\ account' = [Forgiven(account) EXCEPT !.password = requests[r].password]
  /\ Revoke(SessionIds)
  /\ failures' = 0
  /\ Finish(r)
  /\ UNCHANGED <<links, openedWith, deactivated, replayed>>

UnlockCommit(r) ==
  /\ At(r, "unlock", "ready")
  /\ account' = Forgiven(account)
  /\ failures' = 0
  /\ Finish(r)
  /\ UNCHANGED <<sessions, tokens, links, openedWith, deactivated, replayed>>

-----------------------------------------------------------------------------

\* The request ends without a commit: refused, rolled back, or cut off.
Abandon(r) ==
  /\ requests[r].step # "idle"
  /\ Finish(r)
  /\ UNCHANGED <<data, history>>

\* Time runs out for a lock, a session, a token or a link.
TimePasses ==
  /\ \/ /\ account.locked
        /\ account' = [account EXCEPT !.locked = FALSE]
        /\ UNCHANGED <<sessions, tokens, links>>
     \/ \E s \in SessionIds :
          /\ sessions[s] = "live"
          /\ sessions' = [sessions EXCEPT ![s] = "expired"]
          /\ UNCHANGED <<account, tokens, links>>
     \/ \E k \in Tokens :
          /\ tokens[k].state = "usable"
          /\ tokens' = [tokens EXCEPT ![k].state = "spent"]
          /\ UNCHANGED <<account, sessions, links>>
     \/ \E l \in Links :
          /\ links[l] = "issued"
          /\ links' = [links EXCEPT ![l] = "spent"]
          /\ UNCHANGED <<account, sessions, tokens>>
  /\ UNCHANGED <<requests, history>>

\* An account as an administrator creates it.
Init ==
  /\ account \in [status : {"PENDING_ACTIVATION"}, password : Passwords,
                  attempts : {0}, locked : {FALSE}]
  /\ sessions = [s \in SessionIds |-> "none"]
  /\ tokens = [k \in Tokens |-> [state |-> "none", session |-> NoSession]]
  /\ links = [l \in Links |-> "none"]
  /\ requests = [r \in Requests |-> Idle]
  /\ openedWith = [s \in SessionIds |-> account.password]
  /\ failures = 0
  /\ deactivated = FALSE
  /\ replayed = {}

Arrive(r) ==
  \/ \E given \in Passwords : LoginRead(r, given)
  \/ \E k \in Tokens : RefreshRead(r, k)
  \/ \E op \in Operations, s \in SessionIds : GuardRead(r, op, s)
  \/ \E l \in Links, new \in Passwords : ResetRead(r, l, new)
  \/ \E op \in Operations, status \in UserStatus, password \in Passwords :
       AdminRead(r, op, status, password)

ReadAgain(r) ==
  \/ RefreshReadSession(r)
  \/ GuardReadSession(r)
  \/ \E new \in Passwords : ChangeReadPassword(r, new)

Commit(r) ==
  \/ \E s \in SessionIds, k \in Tokens : LoginCommit(r, s, k)
  \/ RegisterFailedAttempt(r)
  \/ \E k \in Tokens : RefreshCommit(r, k)
  \/ LogoutCommit(r)
  \/ ChangeCommit(r)
  \/ ResetCommit(r)
  \/ SetStatusCommit(r)
  \/ SetPasswordCommit(r)
  \/ UnlockCommit(r)

Next ==
  \/ \E r \in Requests : Arrive(r) \/ ReadAgain(r) \/ Commit(r) \/ Abandon(r)
  \/ \E k \in Tokens : RefreshWithRotated(k)
  \/ \E l \in Links : RequestPasswordReset(l)
  \/ TimePasses

Spec == Init /\ [][Next]_vars

-----------------------------------------------------------------------------
(* Properties of an account whose requests do not overlap *)

(***************************************************************************)
(* users.service.ts: "Deactivation takes effect immediately rather than at *)
(* token expiry": from then on, and until an administrator says otherwise, *)
(* the account is not active and has no session and no token.              *)
(***************************************************************************)
DeactivationTakesEffect ==
  deactivated =>
    /\ account.status \in Deactivated
    /\ \A s \in SessionIds : sessions[s] # "live"
    /\ \A k \in Tokens : tokens[k].state # "usable"

(***************************************************************************)
(* Whoever is signed in knows the account's password of today: a change or *)
(* a reset, by whomever, leaves no session of an earlier password.         *)
(***************************************************************************)
OnlyTheCurrentPassword ==
  \A s \in SessionIds :
    sessions[s] = "live" => openedWith[s] = account.password

(***************************************************************************)
(* Rotation: a session has at most one usable refresh token, and none once *)
(* it was revoked.                                                         *)
(***************************************************************************)
UsableTokensOf(s) ==
  {k \in Tokens : tokens[k].state = "usable" /\ tokens[k].session = s}

OneUsableToken ==
  \A s \in SessionIds :
    /\ Cardinality(UsableTokensOf(s)) <= 1
    /\ sessions[s] = "revoked" => UsableTokensOf(s) = {}

(***************************************************************************)
(* auth.service.ts, on a token presented after it was exchanged: the whole *)
(* family is revoked, and the session ends.                                *)
(***************************************************************************)
ReuseEndsTheSession ==
  \A s \in replayed : sessions[s] # "live"

(***************************************************************************)
(* Every failed attempt since the last successful one counts, and below    *)
(* MAX_FAILED_ATTEMPTS of them the account is not locked.                  *)
(***************************************************************************)
EveryFailureCounts ==
  /\ account.attempts = failures
  /\ account.locked => failures >= MAX_FAILED_ATTEMPTS

=============================================================================
