---------------------------- MODULE SessionsProofs ----------------------------
(***************************************************************************)
(* Theorems about Sessions: types, for any number of requests at a time,   *)
(* and, for one at a time and any sessions, tokens, links, passwords and   *)
(* bounds, what the account's security rests on.                           *)
(***************************************************************************)
EXTENDS Sessions, FiniteSetTheorems, TLAPS

(***************************************************************************)
(* What a request carries names rows that exist: a token, once issued,     *)
(* keeps its session and is never unissued.                                *)
(***************************************************************************)
Named ==
  \A k \in Tokens : tokens[k].state # "none" => tokens[k].session \in SessionIds

Carried(q) ==
  /\ q.op \in {"refresh", "logout", "changePassword"} =>
       q.session \in SessionIds
  /\ q.op = "refresh" => q.token \in Tokens /\ tokens[q.token].state # "none"

TypeInv ==
  /\ SessionsTypeOK
  /\ Named
  /\ \A r \in Requests : Carried(requests[r])

LEMMA IdleIsRequest ==
  /\ Idle \in Request /\ Idle.op = "none" /\ Idle.step = "idle"
  /\ Idle.session = NoSession /\ Idle.token = NoToken
<1>1. (CHOOSE p \in Passwords : TRUE) \in Passwords
  BY SessionsAssumption
<1>2. QED
  BY <1>1 DEF Idle, Request, Operations, UserStatus

\* A request goes on, and no token is unissued.
LEMMA RequestStep ==
  ASSUME TypeInv, NEW r \in Requests, NEW q \in Request,
         requests' = [requests EXCEPT ![r] = q],
         \A k \in Tokens :
           tokens[k].state # "none" => tokens'[k].state # "none",
         Carried(q)'
  PROVE  /\ requests' \in [Requests -> Request]
         /\ \A other \in Requests : Carried(requests[other])'
<1>1. requests' \in [Requests -> Request]
  BY DEF TypeInv, SessionsTypeOK
<1>2. ASSUME NEW other \in Requests
      PROVE  Carried(requests[other])'
  <2>1. PICK p \in Request : p = requests[other] /\ Carried(p)
    BY DEF TypeInv, SessionsTypeOK
  <2>2. Carried(p)'
    BY <2>1 DEF Carried
  <2>3. requests'[other] = q \/ requests'[other] = p
    BY <2>1 DEF TypeInv, SessionsTypeOK
  <2>4. ASSUME NEW n, n = requests'[other], Carried(n)'
        PROVE  Carried(requests[other])'
    BY <2>4 DEF Carried
  <2>5. QED
    BY <2>2, <2>3, <2>4
<1>3. QED
  BY <1>1, <1>2

\* A request that arrives or reads on writes nothing.
LEMMA ReadingKeepsTypes ==
  ASSUME TypeInv, NEW r \in Requests, NEW q \in Request,
         requests' = [requests EXCEPT ![r] = q], Carried(q),
         UNCHANGED <<data, history>>
  PROVE  TypeInv'
<1>1. UNCHANGED <<account, sessions, tokens, links, openedWith, failures,
                  deactivated, replayed>>
  BY DEF data, history
<1>2. Carried(q)'
  BY <1>1 DEF Carried
<1>3. QED
  BY <1>1, <1>2, RequestStep DEF TypeInv, SessionsTypeOK, Named

LEMMA ArrivalKeepsTypes ==
  ASSUME TypeInv, NEW r \in Requests, Arrive(r)
  PROVE  TypeInv'
<1>1. SessionsTypeOK
  BY DEF TypeInv
<1>2. SUFFICES \E q \in Request :
                 /\ requests' = [requests EXCEPT ![r] = q] /\ Carried(q)
                 /\ UNCHANGED <<data, history>>
  BY ReadingKeepsTypes
<1>3. ASSUME NEW given \in Passwords, LoginRead(r, given)
      PROVE  \E q \in Request :
               /\ requests' = [requests EXCEPT ![r] = q] /\ Carried(q)
               /\ UNCHANGED <<data, history>>
  <2> DEFINE q == [Idle EXCEPT !.op = "login",
                !.step = IF given = account.password THEN "ready"
                         ELSE "failing",
                !.password = given, !.status = account.status,
                !.attempts = account.attempts]
  <2>1. requests' = [requests EXCEPT ![r] = q] /\ UNCHANGED <<data, history>>
    BY <1>3 DEF LoginRead, Receive
  <2>2. account.status \in UserStatus /\ account.attempts \in Nat
    BY <1>1 DEF SessionsTypeOK, Account
  <2>3. q \in Request /\ q.op = "login"
    BY <2>2, IdleIsRequest DEF Request, Operations
  <2> HIDE DEF q
  <2>4. Carried(q)
    BY <2>3 DEF Carried
  <2>5. QED
    BY <2>1, <2>3, <2>4
<1>4. ASSUME NEW k \in Tokens, RefreshRead(r, k)
      PROVE  \E q \in Request :
               /\ requests' = [requests EXCEPT ![r] = q] /\ Carried(q)
               /\ UNCHANGED <<data, history>>
  <2> DEFINE q == [Idle EXCEPT !.op = "refresh", !.step = "read", !.token = k,
                               !.session = tokens[k].session]
  <2>1. /\ requests' = [requests EXCEPT ![r] = q] /\ UNCHANGED <<data, history>>
        /\ tokens[k].state = "usable"
    BY <1>4 DEF RefreshRead, Receive
  <2>2. tokens[k].session \in SessionIds
    BY <2>1 DEF TypeInv, Named
  <2>3. /\ q \in Request /\ q.op = "refresh" /\ q.token = k
        /\ q.session = tokens[k].session
    BY <2>2, IdleIsRequest DEF Request, Operations
  <2> HIDE DEF q
  <2>4. Carried(q)
    BY <2>1, <2>2, <2>3 DEF Carried
  <2>5. QED
    BY <2>1, <2>3, <2>4
<1>5. ASSUME NEW op \in Operations, NEW s \in SessionIds, GuardRead(r, op, s)
      PROVE  \E q \in Request :
               /\ requests' = [requests EXCEPT ![r] = q] /\ Carried(q)
               /\ UNCHANGED <<data, history>>
  <2> DEFINE q == [Idle EXCEPT !.op = op, !.step = "read", !.session = s]
  <2>1. /\ requests' = [requests EXCEPT ![r] = q] /\ UNCHANGED <<data, history>>
        /\ op # "refresh"
    BY <1>5 DEF GuardRead, Receive
  <2>2. q \in Request /\ q.op = op /\ q.session = s
    BY IdleIsRequest DEF Request
  <2> HIDE DEF q
  <2>3. Carried(q)
    BY <2>1, <2>2 DEF Carried
  <2>4. QED
    BY <2>1, <2>2, <2>3
<1>6. ASSUME NEW l \in Links, NEW new \in Passwords, ResetRead(r, l, new)
      PROVE  \E q \in Request :
               /\ requests' = [requests EXCEPT ![r] = q] /\ Carried(q)
               /\ UNCHANGED <<data, history>>
  <2> DEFINE q == [Idle EXCEPT !.op = "resetPassword", !.step = "ready",
                               !.link = l, !.password = new]
  <2>1. requests' = [requests EXCEPT ![r] = q] /\ UNCHANGED <<data, history>>
    BY <1>6 DEF ResetRead, Receive
  <2>2. q \in Request /\ q.op = "resetPassword"
    BY IdleIsRequest DEF Request, Operations
  <2> HIDE DEF q
  <2>3. Carried(q)
    BY <2>2 DEF Carried
  <2>4. QED
    BY <2>1, <2>2, <2>3
<1>7. ASSUME NEW op \in Operations, NEW status \in UserStatus,
             NEW password \in Passwords, AdminRead(r, op, status, password)
      PROVE  \E q \in Request :
               /\ requests' = [requests EXCEPT ![r] = q] /\ Carried(q)
               /\ UNCHANGED <<data, history>>
  <2> DEFINE q == [Idle EXCEPT !.op = op, !.step = "ready", !.status = status,
                               !.password = password]
  <2>1. /\ requests' = [requests EXCEPT ![r] = q] /\ UNCHANGED <<data, history>>
        /\ op \in {"setStatus", "setPassword", "unlock"}
    BY <1>7 DEF AdminRead, Receive
  <2>2. q \in Request /\ q.op = op
    BY IdleIsRequest DEF Request
  <2> HIDE DEF q
  <2>3. Carried(q)
    BY <2>1, <2>2 DEF Carried
  <2>4. QED
    BY <2>1, <2>2, <2>3
<1>8. QED
  BY <1>3, <1>4, <1>5, <1>6, <1>7 DEF Arrive

LEMMA ReadAgainKeepsTypes ==
  ASSUME TypeInv, NEW r \in Requests, ReadAgain(r)
  PROVE  TypeInv'
<1>1. PICK p \in Request : p = requests[r] /\ Carried(p)
  BY DEF TypeInv, SessionsTypeOK
<1>2. PICK step \in {"ready", "checked"}, new \in Passwords :
        /\ requests' = [requests EXCEPT ![r] =
             [p EXCEPT !.step = step, !.password = new]]
        /\ UNCHANGED <<data, history>>
  <2>1. ASSUME NEW step
        PROVE  [p EXCEPT !.step = step] =
                 [p EXCEPT !.step = step, !.password = p.password]
    BY DEF Request
  <2>2. CASE RefreshReadSession(r) \/ GuardReadSession(r)
    <3>1. PICK step \in {"ready", "checked"} :
            /\ requests' = [requests EXCEPT ![r] = [p EXCEPT !.step = step]]
            /\ UNCHANGED <<data, history>>
      BY <1>1, <2>2 DEF RefreshReadSession, GuardReadSession, Proceed
    <3>2. p.password \in Passwords
      BY DEF Request
    <3>3. QED
      BY <2>1, <3>1, <3>2
  <2>3. ASSUME NEW new \in Passwords, ChangeReadPassword(r, new)
        PROVE  /\ requests' = [requests EXCEPT ![r] =
                    [p EXCEPT !.step = "ready", !.password = new]]
               /\ UNCHANGED <<data, history>>
    BY <1>1, <2>3 DEF ChangeReadPassword, TypeInv, SessionsTypeOK, Request
  <2>4. QED
    BY <2>2, <2>3 DEF ReadAgain
<1> DEFINE q == [p EXCEPT !.step = step, !.password = new]
<1>3. /\ q \in Request /\ q.op = p.op /\ q.session = p.session
      /\ q.token = p.token
  BY DEF Request
<1>4. requests' = [requests EXCEPT ![r] = q]
  BY <1>2
<1> HIDE DEF q
<1>5. Carried(q)
  BY <1>1, <1>3 DEF Carried
<1>6. QED
  BY <1>2, <1>3, <1>4, <1>5, ReadingKeepsTypes

-----------------------------------------------------------------------------

LEMMA RevokedRows ==
  ASSUME TypeInv, NEW ended \in SUBSET SessionIds, Revoke(ended)
  PROVE  /\ sessions' \in [SessionIds -> SessionStates]
         /\ tokens' \in [Tokens -> Token]
         /\ \A s \in SessionIds :
              sessions'[s] = IF s \in ended /\ sessions[s] # "none"
                             THEN "revoked" ELSE sessions[s]
         /\ \A k \in Tokens :
              /\ tokens'[k].session = tokens[k].session
              /\ tokens'[k].state =
                   IF tokens[k].session \in ended /\ tokens[k].state = "usable"
                   THEN "spent" ELSE tokens[k].state
         /\ Named'
<1>1. SessionsTypeOK
  BY DEF TypeInv
<1>2. /\ sessions' \in [SessionIds -> SessionStates]
      /\ \A s \in SessionIds :
           sessions'[s] = IF s \in ended /\ sessions[s] # "none"
                          THEN "revoked" ELSE sessions[s]
  BY <1>1 DEF Revoke, SessionsTypeOK, SessionStates
<1>3. ASSUME NEW k \in Tokens
      PROVE  /\ tokens'[k] \in Token
             /\ tokens'[k].session = tokens[k].session
             /\ tokens'[k].state =
                  IF tokens[k].session \in ended /\ tokens[k].state = "usable"
                  THEN "spent" ELSE tokens[k].state
  <2>1. PICK t \in Token : t = tokens[k]
    BY <1>1 DEF SessionsTypeOK
  <2>2. tokens'[k] = IF t.session \in ended /\ t.state = "usable"
                     THEN [t EXCEPT !.state = "spent"] ELSE t
    BY <2>1 DEF Revoke
  <2>3. /\ [t EXCEPT !.state = "spent"] \in Token
        /\ [t EXCEPT !.state = "spent"].session = t.session
        /\ [t EXCEPT !.state = "spent"].state = "spent"
    BY DEF Token
  <2>4. QED
    BY <2>1, <2>2, <2>3
<1>4. tokens' \in [Tokens -> Token]
  BY <1>3 DEF Revoke
<1>5. Named'
  BY <1>3 DEF TypeInv, Named
<1>6. QED
  BY <1>2, <1>3, <1>4, <1>5

\* What a token becomes that is issued, or given back for a new one.
LEMMA IssuedRows ==
  ASSUME NEW rows \in [Tokens -> Token], NEW k \in Tokens, NEW s \in SessionIds
  PROVE  /\ Issued(rows, k, s) \in [Tokens -> Token]
         /\ Issued(rows, k, s)[k].state = "usable"
         /\ Issued(rows, k, s)[k].session = s
         /\ \A j \in Tokens \ {k} : Issued(rows, k, s)[j] = rows[j]
<1>1. PICK t \in Token : t = [state |-> "usable", session |-> s]
  BY DEF Token
<1>2. Issued(rows, k, s) = [rows EXCEPT ![k] = t]
  BY <1>1 DEF Issued
<1>3. t.state = "usable" /\ t.session = s
  BY <1>1
<1>4. QED
  BY <1>2, <1>3

LEMMA RotatedRows ==
  ASSUME TypeInv, NEW k \in Tokens
  PROVE  /\ Rotated(k) \in [Tokens -> Token]
         /\ Rotated(k)[k].state = "rotated"
         /\ Rotated(k)[k].session = tokens[k].session
         /\ \A j \in Tokens \ {k} : Rotated(k)[j] = tokens[j]
<1>1. PICK t \in Token : t = tokens[k]
  BY DEF TypeInv, SessionsTypeOK
<1>2. /\ [t EXCEPT !.state = "rotated"] \in Token
      /\ [t EXCEPT !.state = "rotated"].state = "rotated"
      /\ [t EXCEPT !.state = "rotated"].session = t.session
  BY DEF Token
<1>3. Rotated(k) = [tokens EXCEPT ![k] = [t EXCEPT !.state = "rotated"]]
  BY <1>1 DEF Rotated
<1>4. QED
  BY <1>1, <1>2, <1>3 DEF TypeInv, SessionsTypeOK

\* The rows of the tokens after a refresh.
LEMMA RefreshedRows ==
  ASSUME TypeInv, NEW r \in Requests, NEW k \in Tokens, RefreshCommit(r, k)
  PROVE  \E old \in Tokens, s \in SessionIds :
           /\ old = requests[r].token /\ s = requests[r].session
           /\ old # k /\ tokens' \in [Tokens -> Token]
           /\ tokens'[k].state = "usable" /\ tokens'[k].session = s
           /\ tokens'[old].state = "rotated"
           /\ tokens'[old].session = tokens[old].session
           /\ \A j \in Tokens \ {k, old} : tokens'[j] = tokens[j]
<1>1. PICK old \in Tokens, s \in SessionIds :
        /\ old = requests[r].token /\ s = requests[r].session
        /\ tokens[old].state # "none" /\ tokens[k].state = "none"
        /\ tokens' = Issued(Rotated(old), k, s)
  BY DEF RefreshCommit, At, TypeInv, Carried
<1>2. PICK rows \in [Tokens -> Token] :
        /\ rows = Rotated(old) /\ rows[old].state = "rotated"
        /\ rows[old].session = tokens[old].session
        /\ \A j \in Tokens \ {old} : rows[j] = tokens[j]
  BY RotatedRows
<1>3. QED
  BY <1>1, <1>2, IssuedRows

-----------------------------------------------------------------------------

LEMMA FinishKeepsTypes ==
  ASSUME TypeInv, NEW r \in Requests, Finish(r), account' \in Account,
         sessions' \in [SessionIds -> SessionStates],
         tokens' \in [Tokens -> Token],
         links' \in [Links -> {"none", "issued", "spent"}],
         openedWith' \in [SessionIds -> Passwords], failures' \in Nat,
         deactivated' \in BOOLEAN, UNCHANGED replayed, Named',
         \A k \in Tokens :
           tokens[k].state # "none" => tokens'[k].state # "none"
  PROVE  TypeInv'
<1>1. Carried(Idle)'
  BY IdleIsRequest DEF Carried
<1>2. requests' = [requests EXCEPT ![r] = Idle]
  BY DEF Finish
<1>3. QED
  BY <1>1, <1>2, IdleIsRequest, RequestStep DEF TypeInv, SessionsTypeOK

LEMMA AccountRows ==
  ASSUME account \in Account
  PROVE  /\ Forgiven(account) \in Account
         /\ Forgiven(account).attempts = 0 /\ Forgiven(account).locked = FALSE
         /\ Forgiven(account).status = account.status
         /\ Forgiven(account).password = account.password
BY DEF Forgiven, Account

LEMMA CommitKeepsTypes ==
  ASSUME TypeInv, NEW r \in Requests, Commit(r)
  PROVE  TypeInv'
<1>1. SessionsTypeOK /\ Named /\ account \in Account
  BY DEF TypeInv, SessionsTypeOK
<1>2. PICK p \in Request : p = requests[r] /\ Carried(p)
  BY DEF TypeInv, SessionsTypeOK
<1>3. PICK row \in Account : row = Forgiven(account)
  BY <1>1, AccountRows
<1>4. /\ p.status \in UserStatus /\ p.password \in Passwords
      /\ p.attempts \in Nat
  BY DEF Request
<1>5. ASSUME NEW s \in SessionIds, NEW k \in Tokens, LoginCommit(r, s, k)
      PROVE  TypeInv'
  <2>1. [row EXCEPT !.status = IF p.status = "PENDING_ACTIVATION"
                               THEN "ACTIVE" ELSE p.status] \in Account
    BY <1>4 DEF Account, UserStatus
  <2>2. /\ tokens' \in [Tokens -> Token] /\ tokens'[k].session = s
        /\ tokens'[k].state = "usable"
        /\ \A j \in Tokens \ {k} : tokens'[j] = tokens[j]
    BY <1>1, <1>5, IssuedRows DEF LoginCommit, SessionsTypeOK
  <2>3. /\ sessions' \in [SessionIds -> SessionStates]
        /\ openedWith' \in [SessionIds -> Passwords]
    BY <1>1, <1>2, <1>4, <1>5
    DEF LoginCommit, SessionsTypeOK, SessionStates
  <2>4. /\ account' \in Account /\ Finish(r) /\ failures' = 0
        /\ UNCHANGED <<links, deactivated, replayed>>
    BY <1>2, <1>3, <1>5, <2>1 DEF LoginCommit
  <2>5. Named'
    BY <1>1, <2>2 DEF Named
  <2>6. QED
    BY <1>1, <2>2, <2>3, <2>4, <2>5, FinishKeepsTypes DEF SessionsTypeOK
<1>6. CASE RegisterFailedAttempt(r)
  <2>1. /\ UNCHANGED <<sessions, tokens, links, openedWith, deactivated,
                       replayed>>
        /\ Finish(r) /\ failures' = failures + 1
        /\ account' = [account EXCEPT !.attempts = p.attempts + 1,
                         !.locked = p.attempts + 1 >= MAX_FAILED_ATTEMPTS]
    BY <1>2, <1>6 DEF RegisterFailedAttempt
  <2>2. /\ p.attempts + 1 \in Nat
        /\ (p.attempts + 1 >= MAX_FAILED_ATTEMPTS) \in BOOLEAN
    BY <1>4
  <2>3. account' \in Account
    BY <1>1, <2>1, <2>2 DEF Account
  <2>4. QED
    BY <1>1, <2>1, <2>3, FinishKeepsTypes DEF SessionsTypeOK, Named
<1>7. ASSUME NEW k \in Tokens, RefreshCommit(r, k)
      PROVE  TypeInv'
  <2>1. PICK old \in Tokens, s \in SessionIds :
          /\ tokens' \in [Tokens -> Token]
          /\ tokens'[k].state = "usable" /\ tokens'[k].session = s
          /\ tokens'[old].state = "rotated" /\ old = p.token
          /\ tokens'[old].session = tokens[old].session
          /\ \A j \in Tokens \ {k, old} : tokens'[j] = tokens[j]
    BY <1>2, <1>7, RefreshedRows
  <2>2. Finish(r) /\ UNCHANGED <<account, sessions, links, openedWith, failures,
                                 deactivated, replayed>> /\ p.op = "refresh"
    BY <1>2, <1>7 DEF RefreshCommit, history, At
  <2>3. tokens[old].state # "none" /\ Named'
    BY <1>1, <1>2, <2>1, <2>2 DEF Carried, Named
  <2>4. QED
    BY <1>1, <2>1, <2>2, <2>3, FinishKeepsTypes DEF SessionsTypeOK
<1>8. ASSUME NEW ended \in SUBSET SessionIds, Revoke(ended), Finish(r),
             account' \in Account, UNCHANGED replayed,
             links' \in [Links -> {"none", "issued", "spent"}],
             openedWith' \in [SessionIds -> Passwords], failures' \in Nat,
             deactivated' \in BOOLEAN
      PROVE  TypeInv'
  BY <1>8, RevokedRows, FinishKeepsTypes
<1>9. CASE LogoutCommit(r)
  <2>1. p.session \in SessionIds /\ Revoke({p.session}) /\ Finish(r)
        /\ UNCHANGED <<account, links, openedWith, failures, deactivated,
                       replayed>>
    BY <1>2, <1>9 DEF LogoutCommit, At, Carried, history
  <2>2. QED
    BY <1>1, <1>8, <2>1 DEF SessionsTypeOK
<1>10. CASE ChangeCommit(r)
  <2>1. /\ Revoke(OtherSessions(p.session)) /\ Finish(r)
        /\ account' = [account EXCEPT !.password = p.password]
        /\ openedWith' = [openedWith EXCEPT ![p.session] = p.password]
        /\ UNCHANGED <<links, failures, deactivated, replayed>>
    BY <1>2, <1>10 DEF ChangeCommit
  <2>2. account' \in Account /\ openedWith' \in [SessionIds -> Passwords]
    BY <1>1, <1>4, <2>1 DEF Account, SessionsTypeOK
  <2>3. OtherSessions(p.session) \in SUBSET SessionIds
    BY DEF OtherSessions
  <2>4. QED
    BY <1>1, <1>8, <2>1, <2>2, <2>3 DEF SessionsTypeOK
<1>11. CASE ResetCommit(r)
  <2>1. /\ Revoke(SessionIds) /\ Finish(r) /\ failures' = 0
        /\ account' = [row EXCEPT !.password = p.password]
        /\ links' = [links EXCEPT ![p.link] = "spent"]
        /\ UNCHANGED <<openedWith, deactivated, replayed>>
    BY <1>2, <1>3, <1>11 DEF ResetCommit
  <2>2. /\ account' \in Account
        /\ links' \in [Links -> {"none", "issued", "spent"}]
    BY <1>1, <1>4, <2>1 DEF Account, SessionsTypeOK
  <2>3. QED
    BY <1>1, <1>8, <2>1, <2>2 DEF SessionsTypeOK
<1>12. CASE SetStatusCommit(r)
  <2>1. /\ Revoke(RevokedBy(p.status)) /\ Finish(r)
        /\ account' = [account EXCEPT !.status = p.status]
        /\ deactivated' \in BOOLEAN
        /\ UNCHANGED <<links, openedWith, failures, replayed>>
    BY <1>2, <1>12 DEF SetStatusCommit
  <2>2. /\ account' \in Account /\ RevokedBy(p.status) \in SUBSET SessionIds
    BY <1>1, <1>4, <2>1 DEF Account, RevokedBy
  <2>3. QED
    BY <1>1, <1>8, <2>1, <2>2 DEF SessionsTypeOK
<1>13. CASE SetPasswordCommit(r)
  <2>1. /\ Revoke(SessionIds) /\ Finish(r) /\ failures' = 0
        /\ account' = [row EXCEPT !.password = p.password]
        /\ UNCHANGED <<links, openedWith, deactivated, replayed>>
    BY <1>2, <1>3, <1>13 DEF SetPasswordCommit
  <2>2. account' \in Account
    BY <1>1, <1>4, <2>1 DEF Account
  <2>3. QED
    BY <1>1, <1>8, <2>1, <2>2 DEF SessionsTypeOK
<1>14. CASE UnlockCommit(r)
  <2>1. /\ Finish(r) /\ failures' = 0 /\ account' = row
        /\ UNCHANGED <<sessions, tokens, links, openedWith, deactivated,
                       replayed>>
    BY <1>3, <1>14 DEF UnlockCommit
  <2>2. QED
    BY <1>1, <1>3, <2>1, FinishKeepsTypes DEF SessionsTypeOK, Named
<1>15. QED
  BY <1>5, <1>6, <1>7, <1>9, <1>10, <1>11, <1>12, <1>13, <1>14 DEF Commit

\* A request ends, a link is sent, a rotated token comes again, time passes.
LEMMA SurroundingsKeepTypes ==
  ASSUME TypeInv,
         \/ \E r \in Requests : Abandon(r)
         \/ \E k \in Tokens : RefreshWithRotated(k)
         \/ \E l \in Links : RequestPasswordReset(l)
         \/ TimePasses
  PROVE  TypeInv'
<1>1. SessionsTypeOK /\ Named
  BY DEF TypeInv
<1>2. ASSUME NEW r \in Requests, Abandon(r)
      PROVE  TypeInv'
  BY <1>1, <1>2, FinishKeepsTypes
  DEF Abandon, data, history, SessionsTypeOK, Named
<1>3. ASSUME UNCHANGED requests, SessionsTypeOK', Named',
             \A k \in Tokens :
               tokens[k].state # "none" => tokens'[k].state # "none"
      PROVE  TypeInv'
  BY <1>3 DEF TypeInv, Carried
<1>4. ASSUME NEW k \in Tokens, RefreshWithRotated(k)
      PROVE  TypeInv'
  <2>1. tokens[k].session \in SessionIds
    BY <1>1, <1>4 DEF RefreshWithRotated, Named
  <2>2. QED
    BY <1>1, <1>3, <1>4, <2>1
    DEF RefreshWithRotated, data, SessionsTypeOK, Named
<1>5. ASSUME NEW l \in Links, RequestPasswordReset(l)
      PROVE  TypeInv'
  BY <1>1, <1>3, <1>5 DEF RequestPasswordReset, history, SessionsTypeOK, Named
<1>6. CASE TimePasses
  <2>1. UNCHANGED <<requests, openedWith, failures, deactivated, replayed>>
    BY <1>6 DEF TimePasses, history
  <2>2. CASE /\ account' = [account EXCEPT !.locked = FALSE]
             /\ UNCHANGED <<sessions, tokens, links>>
    <3>1. account' \in Account
      BY <1>1, <2>2 DEF SessionsTypeOK, Account
    <3>2. QED
      BY <1>1, <1>3, <2>1, <2>2, <3>1 DEF SessionsTypeOK, Named
  <2>3. ASSUME NEW s \in SessionIds, UNCHANGED <<account, tokens, links>>,
               sessions' = [sessions EXCEPT ![s] = "expired"]
        PROVE  TypeInv'
    BY <1>1, <1>3, <2>1, <2>3 DEF SessionsTypeOK, SessionStates, Named
  <2>4. ASSUME NEW k \in Tokens, UNCHANGED <<account, sessions, links>>,
               tokens[k].state = "usable",
               tokens' = [tokens EXCEPT ![k].state = "spent"]
        PROVE  TypeInv'
    <3>1. PICK t \in Token : t = tokens[k]
      BY <1>1 DEF SessionsTypeOK
    <3>2. /\ [t EXCEPT !.state = "spent"] \in Token
          /\ [t EXCEPT !.state = "spent"].state = "spent"
          /\ [t EXCEPT !.state = "spent"].session = t.session
      BY DEF Token
    <3>3. tokens' = [tokens EXCEPT ![k] = [t EXCEPT !.state = "spent"]]
      BY <2>4, <3>1
    <3>4. /\ tokens' \in [Tokens -> Token] /\ tokens'[k].state = "spent"
          /\ \A j \in Tokens : tokens'[j].session = tokens[j].session
          /\ \A j \in Tokens \ {k} : tokens'[j] = tokens[j]
      BY <1>1, <3>1, <3>2, <3>3 DEF SessionsTypeOK
    <3>5. Named'
      BY <1>1, <2>4, <3>4 DEF Named
    <3>6. QED
      BY <1>1, <1>3, <2>1, <2>4, <3>4, <3>5 DEF SessionsTypeOK
  <2>5. ASSUME NEW l \in Links, UNCHANGED <<account, sessions, tokens>>,
               links' = [links EXCEPT ![l] = "spent"]
        PROVE  TypeInv'
    BY <1>1, <1>3, <2>1, <2>5 DEF SessionsTypeOK, Named
  <2>6. QED
    BY <1>6, <2>2, <2>3, <2>4, <2>5 DEF TimePasses
<1>7. QED
  BY <1>2, <1>4, <1>5, <1>6

LEMMA StepKeepsTypes == TypeInv /\ [Next]_vars => TypeInv'
<1>1. CASE UNCHANGED vars
  BY <1>1 DEF vars, TypeInv, SessionsTypeOK, Named, Carried
<1>2. QED
  BY <1>1, ArrivalKeepsTypes, ReadAgainKeepsTypes, CommitKeepsTypes,
     SurroundingsKeepTypes DEF Next

LEMMA InitTypes == Init => TypeInv
<1> SUFFICES ASSUME Init
             PROVE  TypeInv
  OBVIOUS
<1>1. account \in Account
  <2>1. /\ {"PENDING_ACTIVATION"} \subseteq UserStatus
        /\ {0} \subseteq Nat /\ {FALSE} \subseteq BOOLEAN
    BY DEF UserStatus
  <2>2. QED
    BY <2>1 DEF Init, Account
<1>2. tokens \in [Tokens -> Token] /\ \A k \in Tokens : tokens[k].state = "none"
  BY DEF Init, Token
<1>3. account.password \in Passwords
  BY <1>1 DEF Account
<1>4. SessionsTypeOK
  BY <1>1, <1>2, <1>3, IdleIsRequest DEF Init, SessionsTypeOK, SessionStates
<1>5. \A r \in Requests : Carried(requests[r])
  BY IdleIsRequest DEF Init, Carried
<1>6. QED
  BY <1>2, <1>4, <1>5 DEF TypeInv, Named

LEMMA TypeInvariant == Spec => []TypeInv
BY InitTypes, StepKeepsTypes, PTL DEF Spec

(***************************************************************************)
(* Every variable of Sessions keeps its type, however requests overlap: no *)
(* token is issued or replayed without its session.                        *)
(***************************************************************************)
THEOREM SessionsTypeCorrect == Spec => []SessionsTypeOK
<1>1. TypeInv => SessionsTypeOK
  BY DEF TypeInv
<1>2. QED
  BY <1>1, TypeInvariant, PTL

-----------------------------------------------------------------------------
(* One request at a time *)

OneAtATime == \A q, r \in Requests : q = r

Open(s) == sessions[s] \in {"live", "expired"}

(***************************************************************************)
(* The properties of the rows, with that of tokens in a form that a step   *)
(* preserves: usable tokens are of open sessions, of different ones.       *)
(***************************************************************************)
OneTokenEach ==
  /\ \A k \in Tokens : tokens[k].state = "usable" => Open(tokens[k].session)
  /\ \A j, k \in Tokens :
       /\ tokens[j].state = "usable" /\ tokens[k].state = "usable"
       /\ tokens[j].session = tokens[k].session
       => j = k

Rows ==
  /\ DeactivationTakesEffect
  /\ OnlyTheCurrentPassword
  /\ EveryFailureCounts
  /\ OneTokenEach

(***************************************************************************)
(* What the one request has read is still so: nobody else writes, and time *)
(* only spends tokens, closes sessions and lifts locks.                    *)
(***************************************************************************)
Current(q) ==
  /\ q.op = "login" /\ q.step \in {"ready", "failing"} =>
       /\ account.status \notin Deactivated
       /\ q.status = account.status /\ q.attempts = account.attempts
       /\ q.step = "ready" => q.password = account.password
  /\ q.op = "refresh" /\ q.step \in {"read", "ready"} =>
       /\ ~ deactivated
       /\ \A k \in Tokens :
            tokens[k].state = "usable" /\ tokens[k].session = q.session
              => k = q.token
       /\ q.step = "ready" => Open(q.session)

SerialInv == Rows /\ \A r \in Requests : Current(requests[r])

LEMMA QuietRows ==
  ASSUME Rows, UNCHANGED <<account, sessions, tokens, openedWith, failures,
                           deactivated>>
  PROVE  Rows'
BY DEF Rows, DeactivationTakesEffect, OnlyTheCurrentPassword,
       EveryFailureCounts, OneTokenEach, Open

LEMMA IdleIsCurrent == Current(Idle)'
BY IdleIsRequest DEF Current

LEMMA ArrivalIsCurrent ==
  ASSUME TypeInv, Rows, NEW r \in Requests, Arrive(r)
  PROVE  Rows' /\ Current(requests[r])'
<1>1. UNCHANGED <<account, sessions, tokens, openedWith, failures, deactivated>>
  BY DEF Arrive, LoginRead, RefreshRead, GuardRead, ResetRead, AdminRead,
         Receive, data, history
<1>2. Rows'
  BY <1>1, QuietRows
<1>3. requests \in [Requests -> Request]
  BY DEF TypeInv, SessionsTypeOK
<1>4. CASE \E given \in Passwords : LoginRead(r, given)
  <2>1. PICK given \in Passwords : LoginRead(r, given)
    BY <1>4
  <2>2. PICK q :
          /\ requests' = [requests EXCEPT ![r] = q]
          /\ q = [Idle EXCEPT !.op = "login",
               !.step = IF given = account.password THEN "ready" ELSE "failing",
               !.password = given, !.status = account.status,
               !.attempts = account.attempts]
    BY <2>1 DEF LoginRead, Receive
  <2>3. /\ q.op = "login" /\ q.password = given
        /\ q.step = IF given = account.password THEN "ready" ELSE "failing"
        /\ q.status = account.status /\ q.attempts = account.attempts
    BY <2>2 DEF Idle
  <2>4. account.status \notin Deactivated /\ requests'[r] = q
    BY <1>3, <2>1, <2>2 DEF LoginRead
  <2>5. QED
    BY <1>1, <1>2, <2>3, <2>4 DEF Current
<1>5. CASE \E k \in Tokens : RefreshRead(r, k)
  <2>1. PICK k \in Tokens : RefreshRead(r, k)
    BY <1>5
  <2>2. PICK q :
          /\ requests' = [requests EXCEPT ![r] = q]
          /\ q = [Idle EXCEPT !.op = "refresh", !.step = "read", !.token = k,
                              !.session = tokens[k].session]
    BY <2>1 DEF RefreshRead, Receive
  <2>3. /\ q.op = "refresh" /\ q.step = "read" /\ q.token = k
        /\ q.session = tokens[k].session
    BY <2>2 DEF Idle
  <2>4. /\ account.status \notin Deactivated /\ requests'[r] = q
        /\ tokens[k].state = "usable"
    BY <1>3, <2>1, <2>2 DEF RefreshRead
  <2>5. ~ deactivated
    BY <2>4 DEF Rows, DeactivationTakesEffect
  <2>6. QED
    BY <1>1, <1>2, <2>3, <2>4, <2>5 DEF Current, Rows, OneTokenEach
<1>6. CASE \/ \E op \in Operations, s \in SessionIds : GuardRead(r, op, s)
           \/ \E l \in Links, new \in Passwords : ResetRead(r, l, new)
           \/ \E op \in Operations, status \in UserStatus,
                 password \in Passwords : AdminRead(r, op, status, password)
  <2>1. requests'[r].op \notin {"login", "refresh"}
    <3>1. ASSUME NEW op \in Operations, NEW s \in SessionIds,
                 GuardRead(r, op, s)
          PROVE  requests'[r].op \notin {"login", "refresh"}
      BY <1>3, <3>1 DEF GuardRead, Receive, Idle
    <3>2. ASSUME NEW l \in Links, NEW new \in Passwords, ResetRead(r, l, new)
          PROVE  requests'[r].op \notin {"login", "refresh"}
      BY <1>3, <3>2 DEF ResetRead, Receive, Idle
    <3>3. ASSUME NEW op \in Operations, NEW status \in UserStatus,
                 NEW password \in Passwords, AdminRead(r, op, status, password)
          PROVE  requests'[r].op \notin {"login", "refresh"}
      BY <1>3, <3>3 DEF AdminRead, Receive, Idle
    <3>4. QED
      BY <1>6, <3>1, <3>2, <3>3
  <2>2. QED
    BY <1>2, <2>1 DEF Current
<1>7. QED
  BY <1>4, <1>5, <1>6 DEF Arrive

LEMMA ReadAgainIsCurrent ==
  ASSUME TypeInv, Rows, NEW r \in Requests, Current(requests[r]), ReadAgain(r)
  PROVE  Rows' /\ Current(requests[r])'
<1>1. UNCHANGED <<account, sessions, tokens, openedWith, failures, deactivated>>
  BY DEF ReadAgain, RefreshReadSession, GuardReadSession, ChangeReadPassword,
         Proceed, data, history
<1>2. Rows'
  BY <1>1, QuietRows
<1>3. PICK p \in Request : p = requests[r] /\ Current(p)
  BY DEF TypeInv, SessionsTypeOK
<1>4. requests \in [Requests -> Request]
  BY DEF TypeInv, SessionsTypeOK
<1>5. CASE RefreshReadSession(r)
  <2>1. /\ p.op = "refresh" /\ p.step = "read" /\ sessions[p.session] = "live"
        /\ requests' = [requests EXCEPT ![r].step = "ready"]
    BY <1>3, <1>5 DEF RefreshReadSession, At, Proceed
  <2>2. /\ requests'[r].op = p.op /\ requests'[r].step = "ready"
        /\ requests'[r].session = p.session /\ requests'[r].token = p.token
    BY <1>3, <1>4, <2>1 DEF Request
  <2>3. QED
    BY <1>1, <1>2, <1>3, <2>1, <2>2 DEF Current, Open
<1>6. CASE \/ GuardReadSession(r)
           \/ \E new \in Passwords : ChangeReadPassword(r, new)
  <2>1. p.op \in {"logout", "changePassword"}
    BY <1>3, <1>6 DEF GuardReadSession, ChangeReadPassword, At
  <2>2. requests'[r].op = p.op
    BY <1>3, <1>4, <1>6
    DEF GuardReadSession, ChangeReadPassword, Proceed, Request
  <2>3. QED
    BY <1>2, <2>1, <2>2 DEF Current
<1>7. QED
  BY <1>5, <1>6 DEF ReadAgain

\* Revoked sessions have no tokens, and the others keep theirs.
LEMMA RevokedTokens ==
  ASSUME TypeInv, OneTokenEach, NEW ended \in SUBSET SessionIds, Revoke(ended)
  PROVE  /\ OneTokenEach'
         /\ \A s \in SessionIds :
              sessions'[s] = "live" => s \notin ended /\ sessions[s] = "live"
         /\ \A k \in Tokens :
              tokens'[k].state = "usable" =>
                tokens[k].state = "usable" /\ tokens[k].session \notin ended
<1>1. /\ \A s \in SessionIds :
           sessions'[s] = IF s \in ended /\ sessions[s] # "none"
                          THEN "revoked" ELSE sessions[s]
      /\ \A k \in Tokens :
           /\ tokens'[k].session = tokens[k].session
           /\ tokens'[k].state =
                IF tokens[k].session \in ended /\ tokens[k].state = "usable"
                THEN "spent" ELSE tokens[k].state
  BY RevokedRows
<1>2. \A k \in Tokens :
        tokens'[k].state = "usable" =>
          tokens[k].state = "usable" /\ tokens[k].session \notin ended
  BY <1>1
<1>3. \A k \in Tokens :
        tokens'[k].state = "usable" => tokens[k].session \in SessionIds
  BY <1>2 DEF TypeInv, Named
<1>4. OneTokenEach'
  BY <1>1, <1>2, <1>3 DEF OneTokenEach, Open
<1>5. QED
  BY <1>1, <1>2, <1>4

LEMMA CommitKeepsRows ==
  ASSUME TypeInv, Rows, NEW r \in Requests, Current(requests[r]), Commit(r)
  PROVE  Rows'
<1>1. SessionsTypeOK /\ Named /\ account \in Account
  BY DEF TypeInv, SessionsTypeOK
<1>2. PICK p \in Request : p = requests[r] /\ Current(p) /\ Carried(p)
  BY DEF TypeInv, SessionsTypeOK
<1>3. PICK row \in Account :
        /\ row = Forgiven(account) /\ row.attempts = 0 /\ row.locked = FALSE
        /\ row.status = account.status /\ row.password = account.password
  BY <1>1, AccountRows
<1>4. /\ DeactivationTakesEffect /\ OnlyTheCurrentPassword
      /\ EveryFailureCounts /\ OneTokenEach
  BY DEF Rows
<1>5. ASSUME NEW s \in SessionIds, NEW k \in Tokens, LoginCommit(r, s, k)
      PROVE  Rows'
  <2>1. /\ p.op = "login" /\ p.step = "ready" /\ sessions[s] = "none"
        /\ sessions' = [sessions EXCEPT ![s] = "live"]
        /\ openedWith' = [openedWith EXCEPT ![s] = p.password]
        /\ account' = [row EXCEPT !.status =
             IF p.status = "PENDING_ACTIVATION" THEN "ACTIVE" ELSE p.status]
        /\ failures' = 0 /\ tokens' = Issued(tokens, k, s)
        /\ UNCHANGED deactivated
    BY <1>2, <1>3, <1>5 DEF LoginCommit, At
  <2>2. /\ account.status \notin Deactivated /\ p.password = account.password
    BY <1>2, <2>1 DEF Current
  <2>3. DeactivationTakesEffect'
    BY <1>4, <2>1, <2>2 DEF DeactivationTakesEffect
  <2>4. /\ account'.password = account.password /\ account'.attempts = 0
        /\ account'.locked = FALSE
    BY <1>3, <2>1 DEF Account
  <2>5. OnlyTheCurrentPassword'
    BY <1>1, <1>4, <2>1, <2>2, <2>4
    DEF OnlyTheCurrentPassword, SessionsTypeOK
  <2>6. EveryFailureCounts'
    BY <2>1, <2>4 DEF EveryFailureCounts
  <2>7. /\ tokens'[k].state = "usable" /\ tokens'[k].session = s
        /\ \A j \in Tokens \ {k} : tokens'[j] = tokens[j]
    BY <1>1, <2>1, IssuedRows DEF SessionsTypeOK
  <2>8. \A j \in Tokens : tokens[j].state = "usable" =>
          tokens[j].session \in SessionIds /\ tokens[j].session # s
    BY <1>1, <1>4, <2>1 DEF OneTokenEach, Open, Named
  <2>9. \A t \in SessionIds : t # s => sessions'[t] = sessions[t]
    BY <2>1
  <2>10. sessions'[s] = "live"
    BY <1>1, <2>1 DEF SessionsTypeOK
  <2>11. OneTokenEach'
    BY <1>4, <2>7, <2>8, <2>9, <2>10 DEF OneTokenEach, Open
  <2>12. QED
    BY <2>3, <2>5, <2>6, <2>11 DEF Rows
<1>6. CASE RegisterFailedAttempt(r)
  <2>1. /\ p.op = "login" /\ p.step = "failing"
        /\ failures' = failures + 1
        /\ account' = [account EXCEPT !.attempts = p.attempts + 1,
                         !.locked = p.attempts + 1 >= MAX_FAILED_ATTEMPTS]
        /\ UNCHANGED <<sessions, tokens, openedWith, deactivated>>
    BY <1>2, <1>6 DEF RegisterFailedAttempt, At
  <2>2. p.attempts = failures
    BY <1>2, <1>4, <2>1 DEF Current, EveryFailureCounts
  <2>3. /\ account'.attempts = p.attempts + 1
        /\ account'.locked = (p.attempts + 1 >= MAX_FAILED_ATTEMPTS)
        /\ account'.status = account.status
        /\ account'.password = account.password
    BY <1>1, <2>1 DEF Account
  <2>4. EveryFailureCounts'
    BY <2>1, <2>2, <2>3 DEF EveryFailureCounts
  <2>5. QED
    BY <1>4, <2>1, <2>3, <2>4
    DEF Rows, DeactivationTakesEffect, OnlyTheCurrentPassword, OneTokenEach,
        Open
<1>7. ASSUME NEW k \in Tokens, RefreshCommit(r, k)
      PROVE  Rows'
  <2>1. PICK old \in Tokens, s \in SessionIds :
          /\ old = p.token /\ s = p.session /\ old # k
          /\ tokens'[k].state = "usable" /\ tokens'[k].session = s
          /\ tokens'[old].state = "rotated"
          /\ \A j \in Tokens \ {k, old} : tokens'[j] = tokens[j]
    BY <1>2, <1>7, RefreshedRows
  <2>2. /\ p.op = "refresh" /\ p.step = "ready"
        /\ UNCHANGED <<account, sessions, openedWith, failures, deactivated>>
    BY <1>2, <1>7 DEF RefreshCommit, At, history
  <2>3. /\ ~ deactivated /\ Open(s)
        /\ \A j \in Tokens :
             tokens[j].state = "usable" /\ tokens[j].session = s => j = old
    BY <1>2, <2>1, <2>2 DEF Current
  <2>4. OneTokenEach'
    BY <1>4, <2>1, <2>2, <2>3 DEF OneTokenEach, Open
  <2>5. QED
    BY <1>4, <2>2, <2>3, <2>4
    DEF Rows, DeactivationTakesEffect, OnlyTheCurrentPassword,
        EveryFailureCounts
<1>8. CASE LogoutCommit(r)
  <2>1. /\ p.session \in SessionIds /\ Revoke({p.session})
        /\ UNCHANGED <<account, openedWith, failures, deactivated>>
    BY <1>2, <1>8 DEF LogoutCommit, At, Carried, history
  <2>2. /\ OneTokenEach'
        /\ \A s \in SessionIds : sessions'[s] = "live" => sessions[s] = "live"
        /\ \A k \in Tokens :
             tokens'[k].state = "usable" => tokens[k].state = "usable"
    BY <1>4, <2>1, RevokedTokens
  <2>3. QED
    BY <1>4, <2>1, <2>2
    DEF Rows, DeactivationTakesEffect, OnlyTheCurrentPassword,
        EveryFailureCounts
<1>9. CASE ChangeCommit(r)
  <2>1. /\ Revoke(OtherSessions(p.session))
        /\ account' = [account EXCEPT !.password = p.password]
        /\ openedWith' = [openedWith EXCEPT ![p.session] = p.password]
        /\ UNCHANGED <<failures, deactivated>>
    BY <1>2, <1>9 DEF ChangeCommit
  <2>2. OtherSessions(p.session) \in SUBSET SessionIds
    BY DEF OtherSessions
  <2>3. /\ OneTokenEach'
        /\ \A s \in SessionIds :
             sessions'[s] = "live" =>
               s \notin OtherSessions(p.session) /\ sessions[s] = "live"
        /\ \A k \in Tokens :
             tokens'[k].state = "usable" => tokens[k].state = "usable"
    BY <1>4, <2>1, <2>2, RevokedTokens
  <2>4. /\ account'.password = p.password /\ account'.status = account.status
        /\ account'.attempts = account.attempts
        /\ account'.locked = account.locked
    BY <1>1, <2>1 DEF Account
  <2>5. \A s \in SessionIds :
          sessions'[s] = "live" => openedWith'[s] = p.password
    BY <1>1, <2>1, <2>3 DEF OtherSessions, SessionsTypeOK
  <2>6. QED
    BY <1>4, <2>1, <2>3, <2>4, <2>5
    DEF Rows, DeactivationTakesEffect, OnlyTheCurrentPassword,
        EveryFailureCounts
<1>10. CASE ResetCommit(r) \/ SetPasswordCommit(r)
  <2>1. /\ Revoke(SessionIds) /\ failures' = 0
        /\ account' = [row EXCEPT !.password = p.password]
        /\ UNCHANGED <<openedWith, deactivated>>
    BY <1>2, <1>3, <1>10 DEF ResetCommit, SetPasswordCommit
  <2>2. /\ OneTokenEach'
        /\ \A s \in SessionIds : sessions'[s] # "live"
        /\ \A k \in Tokens :
             tokens'[k].state = "usable" => tokens[k].state = "usable"
    BY <1>4, <2>1, RevokedTokens
  <2>3. /\ account'.status = account.status /\ account'.attempts = 0
        /\ account'.locked = FALSE
    BY <1>3, <2>1 DEF Account
  <2>4. QED
    BY <1>4, <2>1, <2>2, <2>3
    DEF Rows, DeactivationTakesEffect, OnlyTheCurrentPassword,
        EveryFailureCounts
<1>11. CASE SetStatusCommit(r)
  <2>1. /\ Revoke(RevokedBy(p.status))
        /\ deactivated' = (p.status \in Deactivated)
        /\ account' = [account EXCEPT !.status = p.status]
        /\ UNCHANGED <<openedWith, failures>>
    BY <1>2, <1>11 DEF SetStatusCommit
  <2>2. RevokedBy(p.status) \in SUBSET SessionIds
    BY DEF RevokedBy
  <2>3. /\ OneTokenEach'
        /\ \A s \in SessionIds :
             sessions'[s] = "live" =>
               s \notin RevokedBy(p.status) /\ sessions[s] = "live"
        /\ \A k \in Tokens :
             tokens'[k].state = "usable" =>
               /\ tokens[k].session \notin RevokedBy(p.status)
               /\ tokens[k].session \in SessionIds
    BY <1>1, <1>4, <2>1, <2>2, RevokedTokens DEF Named
  <2>4. /\ account'.status = p.status /\ account'.attempts = account.attempts
        /\ account'.locked = account.locked
        /\ account'.password = account.password
    BY <1>1, <2>1 DEF Account
  <2>5. QED
    BY <1>4, <2>1, <2>3, <2>4
    DEF Rows, DeactivationTakesEffect, OnlyTheCurrentPassword,
        EveryFailureCounts, RevokedBy
<1>12. CASE UnlockCommit(r)
  <2>1. /\ account' = row /\ failures' = 0
        /\ UNCHANGED <<sessions, tokens, openedWith, deactivated>>
    BY <1>3, <1>12 DEF UnlockCommit
  <2>2. QED
    BY <1>3, <1>4, <2>1
    DEF Rows, DeactivationTakesEffect, OnlyTheCurrentPassword,
        EveryFailureCounts, OneTokenEach, Open
<1>13. QED
  BY <1>5, <1>6, <1>7, <1>8, <1>9, <1>10, <1>11, <1>12 DEF Commit

\* Time passes, a link is sent, a rotated token comes again.
LEMMA SurroundingsKeepSerialInv ==
  ASSUME TypeInv, SerialInv,
         \/ \E k \in Tokens : RefreshWithRotated(k)
         \/ \E l \in Links : RequestPasswordReset(l)
         \/ TimePasses
  PROVE  SerialInv'
<1>1. SessionsTypeOK /\ account \in Account
  BY DEF TypeInv, SessionsTypeOK
<1>2. UNCHANGED <<requests, openedWith, failures, deactivated>>
  BY DEF RefreshWithRotated, RequestPasswordReset, TimePasses, history
<1>3. /\ account'.status = account.status
      /\ account'.password = account.password
      /\ account'.attempts = account.attempts
      /\ account'.locked => account.locked
  <2>1. \/ UNCHANGED account
        \/ account' = [account EXCEPT !.locked = FALSE]
    BY DEF RefreshWithRotated, RequestPasswordReset, TimePasses, data
  <2>2. QED
    BY <1>1, <2>1 DEF Account
<1>4. \A s \in SessionIds :
        \/ sessions'[s] = sessions[s]
        \/ sessions[s] = "live" /\ sessions'[s] = "expired"
  <2>1. \/ UNCHANGED sessions
        \/ \E s \in SessionIds :
             /\ sessions[s] = "live"
             /\ sessions' = [sessions EXCEPT ![s] = "expired"]
    BY DEF RefreshWithRotated, RequestPasswordReset, TimePasses, data
  <2>2. QED
    BY <1>1, <2>1 DEF SessionsTypeOK
<1>5. \A k \in Tokens :
        /\ tokens'[k].session = tokens[k].session
        /\ tokens'[k].state = "usable" => tokens[k].state = "usable"
  <2>1. \/ UNCHANGED tokens
        \/ \E k \in Tokens : tokens' = [tokens EXCEPT ![k].state = "spent"]
    BY DEF RefreshWithRotated, RequestPasswordReset, TimePasses, data
  <2>2. ASSUME NEW k \in Tokens, tokens' = [tokens EXCEPT ![k].state = "spent"]
        PROVE  /\ tokens'[k].session = tokens[k].session
               /\ tokens'[k].state = "spent"
               /\ \A j \in Tokens \ {k} : tokens'[j] = tokens[j]
    BY <1>1, <2>2 DEF SessionsTypeOK, Token
  <2>3. QED
    BY <2>1, <2>2
<1>6. \A k \in Tokens :
        tokens[k].state = "usable" => tokens[k].session \in SessionIds
  BY DEF TypeInv, Named
<1>7. Rows'
  BY <1>2, <1>3, <1>4, <1>5, <1>6
  DEF SerialInv, Rows, DeactivationTakesEffect, OnlyTheCurrentPassword,
      EveryFailureCounts, OneTokenEach, Open
<1>8. ASSUME NEW r \in Requests
      PROVE  Current(requests[r])'
  <2>1. PICK p \in Request : p = requests[r] /\ Current(p) /\ Carried(p)
    BY <1>1 DEF SerialInv, TypeInv, SessionsTypeOK
  <2>2. requests'[r] = p
    BY <1>2, <2>1
  <2>3. p.op = "refresh" => p.session \in SessionIds
    BY <2>1 DEF Carried
  <2>4. QED
    BY <1>2, <1>3, <1>4, <1>5, <2>1, <2>2, <2>3 DEF Current, Open
<1>9. QED
  BY <1>7, <1>8 DEF SerialInv

LEMMA StepKeepsSerialInv ==
  ASSUME OneAtATime, TypeInv, SerialInv, [Next]_vars
  PROVE  SerialInv'
<1>1. CASE UNCHANGED vars
  BY <1>1, QuietRows DEF vars, SerialInv, Current, Open
<1>2. ASSUME NEW r \in Requests,
             Arrive(r) \/ ReadAgain(r) \/ Commit(r) \/ Abandon(r)
      PROVE  SerialInv'
  <2>1. Rows /\ Current(requests[r])
    BY DEF SerialInv
  <2>2. \A q \in Requests : q = r
    BY DEF OneAtATime
  <2>3. CASE Arrive(r) \/ ReadAgain(r)
    BY <2>1, <2>2, <2>3, ArrivalIsCurrent, ReadAgainIsCurrent DEF SerialInv
  <2>4. CASE Commit(r) \/ Abandon(r)
    <3>1. Rows'
      BY <2>1, <2>4, CommitKeepsRows, QuietRows DEF Abandon, data, history
    <3>2. requests' = [requests EXCEPT ![r] = Idle]
      BY <2>4 DEF Commit, LoginCommit, RegisterFailedAttempt, RefreshCommit,
                  LogoutCommit, ChangeCommit, ResetCommit, SetStatusCommit,
                  SetPasswordCommit, UnlockCommit, Abandon, Finish
    <3>3. requests'[r] = Idle
      BY <3>2 DEF TypeInv, SessionsTypeOK
    <3>4. ASSUME NEW n, n = requests'[r], Current(n)'
          PROVE  Current(requests[r])'
      BY <3>4 DEF Current, Open
    <3>5. QED
      BY <2>2, <3>1, <3>3, <3>4, IdleIsCurrent DEF SerialInv
  <2>5. QED
    BY <1>2, <2>3, <2>4
<1>3. QED
  BY <1>1, <1>2, SurroundingsKeepSerialInv DEF Next

LEMMA InitSerial == Init => SerialInv
<1> SUFFICES ASSUME Init
             PROVE  SerialInv
  OBVIOUS
<1>1. account.attempts = 0 /\ account.locked = FALSE
  BY DEF Init
<1>2. Rows
  BY <1>1 DEF Init, Rows, DeactivationTakesEffect, OnlyTheCurrentPassword,
              EveryFailureCounts, OneTokenEach
<1>3. \A r \in Requests : Current(requests[r])
  BY IdleIsRequest DEF Init, Current
<1>4. QED
  BY <1>2, <1>3 DEF SerialInv

LEMMA SerialInvariant ==
  ASSUME OneAtATime
  PROVE  Spec => []SerialInv
<1>1. TypeInv /\ SerialInv /\ [Next]_vars => SerialInv'
  BY StepKeepsSerialInv
<1>2. QED
  BY <1>1, InitSerial, TypeInvariant, PTL DEF Spec

(***************************************************************************)
(* One request at a time, for any sessions and tokens: once an             *)
(* administrator has deactivated the account it has no session and no      *)
(* token, and no sign-in or refresh brings one back.                       *)
(***************************************************************************)
THEOREM DeactivationHolds ==
  ASSUME OneAtATime
  PROVE  Spec => []DeactivationTakesEffect
<1>1. SerialInv => DeactivationTakesEffect
  BY DEF SerialInv, Rows
<1>2. QED
  BY <1>1, SerialInvariant, PTL

(***************************************************************************)
(* One request at a time: no session outlives the password that it was     *)
(* opened or kept with.                                                    *)
(***************************************************************************)
THEOREM PasswordsEndSessions ==
  ASSUME OneAtATime
  PROVE  Spec => []OnlyTheCurrentPassword
<1>1. SerialInv => OnlyTheCurrentPassword
  BY DEF SerialInv, Rows
<1>2. QED
  BY <1>1, SerialInvariant, PTL

(***************************************************************************)
(* One request at a time: rotation leaves a session one usable token at    *)
(* most, and a revoked session none.                                       *)
(***************************************************************************)
THEOREM RotationIsSingle ==
  ASSUME OneAtATime
  PROVE  Spec => []OneUsableToken
<1>1. SerialInv => OneUsableToken
  <2> SUFFICES ASSUME SerialInv, NEW s \in SessionIds
               PROVE  /\ Cardinality(UsableTokensOf(s)) <= 1
                      /\ sessions[s] = "revoked" => UsableTokensOf(s) = {}
    BY DEF OneUsableToken
  <2>1. /\ \A j, k \in UsableTokensOf(s) : j = k
        /\ sessions[s] = "revoked" => UsableTokensOf(s) = {}
    BY DEF SerialInv, Rows, OneTokenEach, Open, UsableTokensOf
  <2>2. CASE UsableTokensOf(s) = {}
    BY <2>1, <2>2, FS_EmptySet
  <2>3. ASSUME NEW k \in UsableTokensOf(s)
        PROVE  Cardinality(UsableTokensOf(s)) <= 1
    <3>1. UsableTokensOf(s) = {k}
      BY <2>1
    <3>2. Cardinality({k}) = 1
      BY FS_Singleton
    <3>3. QED
      BY <3>1, <3>2
  <2>4. QED
    BY <2>1, <2>2, <2>3
<1>2. QED
  BY <1>1, SerialInvariant, PTL

(***************************************************************************)
(* One request at a time: every failed attempt since the last success is   *)
(* counted, and nobody is locked out before the limit.                     *)
(***************************************************************************)
THEOREM FailuresAreCounted ==
  ASSUME OneAtATime
  PROVE  Spec => []EveryFailureCounts
<1>1. SerialInv => EveryFailureCounts
  BY DEF SerialInv, Rows
<1>2. QED
  BY <1>1, SerialInvariant, PTL

=============================================================================
