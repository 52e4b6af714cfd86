--------------------------- MODULE AccountsProofs ---------------------------
(***************************************************************************)
(* Proofs about Accounts, for every number of accounts, tokens, requests,  *)
(* links and passwords.                                                    *)
(*                                                                         *)
(* Every step of Accounts is a step of Sessions or leaves its variables    *)
(* alone, so what SessionsProofs shows of the denylist holds of the whole  *)
(* system of requests; a cutoff is never in the future when it is stored.  *)
(* What is shown of overlapping requests rests on a few observations: a    *)
(* request's `since` is never later than the ban or the password that      *)
(* overtakes it; a write that does not race writes what                    *)
(* is already in the row, its own change excepted; a request about to      *)
(* write has found the account and the link it was given (`Reads`); and no *)
(* link is stored twice (`Sound`).                                         *)
(***************************************************************************)
EXTENDS Accounts, SessionsProofs

\* A request in progress works for an account.
Busy == \A r \in Req : req[r].step # "idle" => req[r].user \in User

\* No request comes from the future.
Past == \A r \in Req : req[r].since <= now

Typed == TypeOK /\ Busy

-----------------------------------------------------------------------------
(* What the helpers do to the types *)

LEMMA NoRowType ==
    ASSUME SessionAssumption, AccountAssumption
    PROVE  NoRow \in Row
  <1>1. (CHOOSE p \in Password : TRUE) \in Password  BY DEF AccountAssumption
  <1>2. (CHOOSE r \in Role : TRUE) \in Role  BY DEF SessionAssumption
  <1>3. 0 \in 0..MaxLink  BY DEF AccountAssumption
  <1> QED  BY <1>1, <1>2, <1>3 DEF NoRow, Row, NoBan

LEMMA AskType ==
    ASSUME SessionAssumption, AccountAssumption,
           NEW kind \in Kind \cup {"none"}, NEW step \in Step, NEW u \in User \cup {NoUser}
    PROVE  /\ Idle \in Request
           /\ Ask(kind, step, u) \in Request
           /\ Ask(kind, step, u).user = u
           /\ Idle.step = "idle" /\ Idle.since = 0 /\ Ask(kind, step, u).since = 0
           /\ Ask(kind, step, u).kind = kind /\ Ask(kind, step, u).step = step
  <1>1. NoRow \in Row /\ NoRow.pw \in Password /\ NoRow.role \in Role
    BY NoRowType DEF Row
  <1>2. 0 \in 0..MaxLink  BY DEF AccountAssumption
  <1>3. Idle \in Request
    BY <1>1, <1>2 DEF Idle, Request, Step
  <1> QED  BY <1>3 DEF Ask, Request, Idle

LEMMA BeginType ==
    ASSUME AccountAssumption, TypeOK, Busy, NEW r \in Req, NEW q \in Request, q.user \in User,
           Begin(r, q)
    PROVE  req' \in [Req -> Request] /\ Busy' /\ started' \in 0..MaxRequests
  <1>1. req' = [req EXCEPT ![r] = q] /\ started < MaxRequests /\ started' = started + 1
    BY DEF Begin
  <1>2. req' \in [Req -> Request]  BY <1>1 DEF TypeOK
  <1>3. started' \in 0..MaxRequests  BY <1>1 DEF TypeOK, AccountAssumption
  <1> QED  BY <1>1, <1>2, <1>3 DEF Busy, TypeOK

LEMMA FinishType ==
    ASSUME SessionAssumption, AccountAssumption, TypeOK, Busy, NEW r \in Req, Finish(r)
    PROVE  req' \in [Req -> Request] /\ Busy'
  <1>1. Idle \in Request /\ Idle.step = "idle"
    BY AskType DEF Step
  <1> QED  BY <1>1 DEF Finish, TypeOK, Busy

LEMMA GotoType ==
    ASSUME TypeOK, Busy, NEW r \in Req, NEW s \in Step, req[r].step # "idle", Goto(r, s)
    PROVE  req' \in [Req -> Request] /\ Busy'
  BY DEF Goto, TypeOK, Busy, Request

LEMMA ReadType ==
    ASSUME TypeOK, Busy, NEW r \in Req, NEW s \in Step, req[r].step # "idle",
           Read(r, req[r], s)
    PROVE  req' \in [Req -> Request] /\ Busy'
  <1>1. req[r].user \in User /\ row[req[r].user] \in Row  BY DEF Busy, TypeOK
  <1>2. [req[r] EXCEPT !.snap = row[req[r].user], !.step = s] \in Request
    <2>1. req[r] \in Request  BY DEF TypeOK
    <2> QED  BY <1>1, <2>1 DEF Request
  <1>3. req' = [req EXCEPT ![r] = [req[r] EXCEPT !.snap = row[req[r].user], !.step = s]]
    BY DEF Read
  <1>4. req \in [Req -> Request]  BY DEF TypeOK
  <1>5. req' \in [Req -> Request]  BY <1>2, <1>3, <1>4
  <1>6. req'[r].user = req[r].user  BY <1>3, <1>4 DEF Request
  <1>7. \A i \in Req : i # r => req'[i] = req[i]  BY <1>3, <1>4
  <1> QED  BY <1>1, <1>5, <1>6, <1>7 DEF Busy

LEMMA UpdateType ==
    ASSUME TypeOK, NEW id \in User, NEW u \in Row, Update(id, u)
    PROVE  row' \in [User -> Row]
  BY DEF Update, TypeOK, Row

LEMMA WriteBackType ==
    ASSUME TypeOK, Busy, NEW r \in Req, req[r].step # "idle", NEW u \in Row, WriteBack(r, u)
    PROVE  row' \in [User -> Row] /\ raced' \in BOOLEAN
  <1>1. req[r].user \in User  BY DEF Busy
  <1>2. row' \in [User -> Row]  BY <1>1, UpdateType DEF WriteBack
  <1>3. raced' \in BOOLEAN  BY DEF WriteBack, TypeOK
  <1> QED  BY <1>2, <1>3

LEMMA SettleType ==
    ASSUME TypeOK, NEW l \in 0..MaxLink, NEW how \in Fate
    PROVE  Settle(l, how) \in [Link -> Fate]
  BY DEF Settle, TypeOK, Link

\* The updates of a row in the code keep its type.
LEMMA RowUpdates ==
    ASSUME AccountAssumption, NEW u \in Row, NEW p \in Password
    PROVE  /\ VerifyEmail(u) \in Row
           /\ ClearPasswordResetToken(u) \in Row
           /\ [u EXCEPT !.pw = p] \in Row
  <1>1. 0 \in 0..MaxLink  BY DEF AccountAssumption
  <1>2. VerifyEmail(u) \in Row  BY <1>1 DEF VerifyEmail, Row
  <1>3. ClearPasswordResetToken(u) \in Row  BY <1>1 DEF ClearPasswordResetToken, Row
  <1>4. [u EXCEPT !.pw = p] \in Row  BY DEF Row
  <1> QED  BY <1>2, <1>3, <1>4

\* The fields of a request in progress.
LEMMA RequestFields ==
    ASSUME TypeOK, Busy, NEW r \in Req, req[r].step # "idle"
    PROVE  /\ req[r] \in Request /\ req[r].user \in User
           /\ req[r].snap \in Row /\ req[r].snap.role \in Role
           /\ req[r].pw \in Password /\ req[r].role \in Role
           /\ req[r].link \in 0..MaxLink /\ req[r].since \in Nat
           /\ row[req[r].user] \in Row
           /\ row[req[r].user].vtok \in 0..MaxLink /\ row[req[r].user].rtok \in 0..MaxLink
  BY DEF TypeOK, Busy, Request, Row

-----------------------------------------------------------------------------
(* Type correctness, and every step is a step of Sessions *)

AccountTypes ==
    /\ row \in [User -> Row]
    /\ req \in [Req -> Request]
    /\ started \in 0..MaxRequests
    /\ links \in 0..MaxLink
    /\ fate \in [Link -> Fate]
    /\ lastSet \in [User -> [pw : Password, at : Nat]]
    /\ raced \in BOOLEAN

LEMMA ArriveTyped ==
    ASSUME SessionAssumption, AccountAssumption, Typed, NEW r \in Req, Arrive(r)
    PROVE  [SessionsNext]_svars /\ AccountTypes' /\ Busy'
  <1> USE DEF Typed
  <1>1. ASSUME NEW q \in Request, q.user \in User, Begin(r, q),
               UNCHANGED <<svars, row, links, fate, lastSet, raced>>
        PROVE  [SessionsNext]_svars /\ AccountTypes' /\ Busy'
    <2>1. UNCHANGED svars  BY <1>1
    <2>2. req' \in [Req -> Request] /\ Busy' /\ started' \in 0..MaxRequests
      BY <1>1, BeginType
    <2> QED  BY <1>1, <2>1, <2>2 DEF AccountTypes, TypeOK
  <1>2. ASSUME NEW kind \in Kind, NEW step \in Step, NEW u \in User
        PROVE  /\ Ask(kind, step, u) \in Request /\ Ask(kind, step, u).user = u
    BY AskType
  <1>3. now \in Nat /\ \A j \in issued : j \in Jti /\ tok[j].user \in User
    BY DEF TypeOK, SessionsTypeOK, Token
  <1>4. ASSUME NEW id \in User, NEW p \in Password, StartRegister(r, id, p)
        PROVE  [SessionsNext]_svars /\ AccountTypes' /\ Busy'
    <2> DEFINE q == [Ask("register", "insert", id) EXCEPT !.pw = p, !.role = NoRow.role]
    <2>1. NoRow.role \in Role  BY NoRowType DEF Row
    <2>ask. Ask("register", "insert", id) \in Request /\ Ask("register", "insert", id).user = id
      BY <1>2 DEF Kind, Step
    <2>2. q \in Request /\ q.user = id
      BY <2>ask, <2>1 DEF Request
    <2> HIDE DEF q
    <2> QED  BY <1>1, <1>4, <2>2 DEF StartRegister, q
  <1>5. ASSUME NEW id \in User, NEW p \in Password, StartLogin(r, id, p)
        PROVE  [SessionsNext]_svars /\ AccountTypes' /\ Busy'
    <2> DEFINE q == [Ask("login", "lookup", id) EXCEPT !.pw = p, !.since = now]
    <2>ask. Ask("login", "lookup", id) \in Request /\ Ask("login", "lookup", id).user = id
      BY <1>2 DEF Kind, Step
    <2>1. q \in Request /\ q.user = id
      BY <2>ask, <1>3 DEF Request
    <2> HIDE DEF q
    <2> QED  BY <1>1, <1>5, <2>1 DEF StartLogin, q
  <1>6. ASSUME NEW j \in Jti, StartRefresh(r, j)
        PROVE  [SessionsNext]_svars /\ AccountTypes' /\ Busy'
    <2> DEFINE q == [Ask("refresh", "check", tok[j].user) EXCEPT !.jti = j, !.since = now]
    <2>1. tok[j].user \in User  BY <1>3, <1>6 DEF StartRefresh, ValidAs, Valid
    <2>ask. Ask("refresh", "check", tok[j].user) \in Request /\ Ask("refresh", "check", tok[j].user).user = tok[j].user
      BY <1>2, <2>1 DEF Kind, Step
    <2>2. q \in Request /\ q.user = tok[j].user
      BY <2>ask, <1>3 DEF Request
    <2> HIDE DEF q
    <2> QED  BY <1>1, <1>6, <2>1, <2>2 DEF StartRefresh, q
  <1>7. ASSUME NEW j \in Jti, StartLogoutAll(r, j) \/ StartSend(r, j)
        PROVE  [SessionsNext]_svars /\ AccountTypes' /\ Busy'
    <2>1. tok[j].user \in User
      BY <1>3, <1>7 DEF StartLogoutAll, StartSend, Accepted, ValidAs, Valid
    <2>2. /\ Ask("logoutall", "revoke", tok[j].user) \in Request
          /\ Ask("logoutall", "revoke", tok[j].user).user = tok[j].user
          /\ Ask("send", "read", tok[j].user) \in Request
          /\ Ask("send", "read", tok[j].user).user = tok[j].user
      BY <1>2, <2>1 DEF Kind, Step
    <2> QED  BY <1>1, <1>7, <2>1, <2>2 DEF StartLogoutAll, StartSend
  <1>8. ASSUME NEW j \in Jti, NEW k \in Jti \cup {NoJti}, StartLogout(r, j, k)
        PROVE  [SessionsNext]_svars /\ AccountTypes' /\ Busy'
    <2> DEFINE q == [Ask("logout", "deny", tok[j].user) EXCEPT !.jti = j, !.other = k]
    <2>1. tok[j].user \in User  BY <1>3, <1>8 DEF StartLogout, Accepted, ValidAs, Valid
    <2>ask. Ask("logout", "deny", tok[j].user) \in Request /\ Ask("logout", "deny", tok[j].user).user = tok[j].user
      BY <1>2, <2>1 DEF Kind, Step
    <2>2. q \in Request /\ q.user = tok[j].user
      BY <2>ask DEF Request
    <2> HIDE DEF q
    <2> QED  BY <1>1, <1>8, <2>1, <2>2 DEF StartLogout, q
  <1>9. ASSUME NEW l \in Link, NEW id \in User, StartVerify(r, l, id)
        PROVE  [SessionsNext]_svars /\ AccountTypes' /\ Busy'
    <2> DEFINE q == [Ask("verify", "read", id) EXCEPT !.link = l]
    <2>ask. Ask("verify", "read", id) \in Request /\ Ask("verify", "read", id).user = id
      BY <1>2 DEF Kind, Step
    <2>1. q \in Request /\ q.user = id
      BY <2>ask DEF Request, Link, AccountAssumption
    <2> HIDE DEF q
    <2> QED  BY <1>1, <1>9, <2>1 DEF StartVerify, q
  <1>10. ASSUME NEW l \in Link, NEW id \in User, NEW p \in Password, StartReset(r, l, id, p)
         PROVE  [SessionsNext]_svars /\ AccountTypes' /\ Busy'
    <2> DEFINE q == [Ask("reset", "read", id) EXCEPT !.link = l, !.pw = p]
    <2>link. l \in 0..MaxLink  BY DEF Link, AccountAssumption
    <2>ask. Ask("reset", "read", id) \in Request /\ Ask("reset", "read", id).user = id
      BY <1>2 DEF Kind, Step
    <2>1. q \in Request /\ q.user = id
      BY <2>ask, <2>link DEF Request
    <2> HIDE DEF q
    <2> QED  BY <1>1, <1>10, <2>1 DEF StartReset, q
  <1>11. ASSUME NEW id \in User, StartForgot(r, id)
         PROVE  [SessionsNext]_svars /\ AccountTypes' /\ Busy'
    <2>1. Ask("forgot", "read", id) \in Request /\ Ask("forgot", "read", id).user = id
      BY <1>2 DEF Kind, Step
    <2> QED  BY <1>1, <1>11, <2>1 DEF StartForgot
  <1>12. ASSUME NEW j \in Jti, NEW p \in Password, StartChange(r, j, p)
         PROVE  [SessionsNext]_svars /\ AccountTypes' /\ Busy'
    <2> DEFINE q == [Ask("change", "read", tok[j].user) EXCEPT !.pw = p]
    <2>1. tok[j].user \in User  BY <1>3, <1>12 DEF StartChange, Accepted, ValidAs, Valid
    <2>ask. Ask("change", "read", tok[j].user) \in Request /\ Ask("change", "read", tok[j].user).user = tok[j].user
      BY <1>2, <2>1 DEF Kind, Step
    <2>2. q \in Request /\ q.user = tok[j].user
      BY <2>ask DEF Request
    <2> HIDE DEF q
    <2> QED  BY <1>1, <1>12, <2>1, <2>2 DEF StartChange, q
  <1>13. ASSUME NEW id \in User, NEW role \in Role, StartPromote(r, id, role)
         PROVE  [SessionsNext]_svars /\ AccountTypes' /\ Busy'
    <2> DEFINE q == [Ask("promote", "write", id) EXCEPT !.role = role, !.snap = row[id]]
    <2>1. row[id] \in Row  BY DEF TypeOK
    <2>ask. Ask("promote", "write", id) \in Request /\ Ask("promote", "write", id).user = id
      BY <1>2 DEF Kind, Step
    <2>2. q \in Request /\ q.user = id
      BY <2>ask, <2>1 DEF Request
    <2> HIDE DEF q
    <2> QED  BY <1>1, <1>13, <2>2 DEF StartPromote, q
  <1> QED
    BY <1>4, <1>5, <1>6, <1>7, <1>8, <1>9, <1>10, <1>11, <1>12, <1>13 DEF Arrive

\* Steps that only move the request on, or end it.
LEMMA MovesOn ==
    ASSUME SessionAssumption, AccountAssumption, Typed, NEW r \in Req, req[r].step # "idle",
           UNCHANGED <<svars, row, started, links, fate, lastSet, raced>>,
           \/ Finish(r)
           \/ \E s \in Step : Goto(r, s) \/ Read(r, req[r], s)
    PROVE  [SessionsNext]_svars /\ AccountTypes' /\ Busy'
  <1> USE DEF Typed
  <1>1. req' \in [Req -> Request] /\ Busy'
    BY FinishType, GotoType, ReadType
  <1>2. UNCHANGED svars  OBVIOUS
  <1> QED  BY <1>1, <1>2 DEF AccountTypes, TypeOK

\* Steps that write the row back and do not touch tokens.
LEMMA WritesBack ==
    ASSUME SessionAssumption, AccountAssumption, Typed, NEW r \in Req, req[r].step # "idle",
           NEW u \in Row, WriteBack(r, u),
           Finish(r) \/ \E s \in Step : Goto(r, s),
           UNCHANGED <<svars, started>>,
           links' \in 0..MaxLink, fate' \in [Link -> Fate],
           lastSet' \in [User -> [pw : Password, at : Nat]]
    PROVE  [SessionsNext]_svars /\ AccountTypes' /\ Busy'
  <1> USE DEF Typed
  <1>1. req' \in [Req -> Request] /\ Busy'
    BY FinishType, GotoType
  <1>2. row' \in [User -> Row] /\ raced' \in BOOLEAN
    BY WriteBackType
  <1>3. UNCHANGED svars  OBVIOUS
  <1> QED  BY <1>1, <1>2, <1>3 DEF AccountTypes, TypeOK

\* Steps that mint or revoke a token and do not touch the row.
LEMMA ChangesTokens ==
    ASSUME SessionAssumption, AccountAssumption, Typed, NEW r \in Req, req[r].step # "idle",
           SessionsNext, Finish(r) \/ \E s \in Step : Goto(r, s),
           UNCHANGED <<row, started, links, fate, lastSet, raced>>
    PROVE  [SessionsNext]_svars /\ AccountTypes' /\ Busy'
  <1> USE DEF Typed
  <1>1. req' \in [Req -> Request] /\ Busy'
    BY FinishType, GotoType
  <1> QED  BY <1>1 DEF AccountTypes, TypeOK

LEMMA ProceedTyped ==
    ASSUME SessionAssumption, AccountAssumption, Typed, NEW r \in Req, Proceed(r),
           ~MarkSessions(r)
    PROVE  [SessionsNext]_svars /\ AccountTypes' /\ Busy'
  <1> DEFINE Good == [SessionsNext]_svars /\ AccountTypes' /\ Busy'
  <1> USE DEF Typed
  <1>1. CASE Register(r)
    <2>1. req[r].step = "insert" /\ req[r].step # "idle"  BY <1>1 DEF Register, At
    <2> DEFINE u == NewUser(req[r].pw, req[r].role)
    <2>2. u \in Row
      BY <2>1, RequestFields, NoRowType DEF NewUser, Row
    <2> HIDE DEF u
    <2>3. CASE Create(req[r].user, u) /\ req' = [req EXCEPT ![r].step = "mint", ![r].snap = u]
      <3>1. req[r].user \in User /\ req[r] \in Request  BY <2>1, RequestFields
      <3>2. row' \in [User -> Row]  BY <2>2, <2>3 DEF Create, TypeOK
      <3>3. lastSet' \in [User -> [pw : Password, at : Nat]]
        BY <2>2, <2>3 DEF Create, TypeOK, SessionsTypeOK, Row
      <3>4. req' \in [Req -> Request]
        BY <2>2, <2>3, <3>1 DEF TypeOK, Request, Step
      <3>5. Busy'  BY <2>3, <3>1 DEF Busy, TypeOK
      <3> QED  BY <1>1, <3>2, <3>3, <3>4, <3>5 DEF Register, AccountTypes, TypeOK
    <2>4. CASE Finish(r) /\ UNCHANGED <<row, lastSet>>
      BY <1>1, <2>1, <2>4, MovesOn DEF Register
    <2> QED  BY <1>1, <2>3, <2>4 DEF Register, u
  <1>2. CASE LoginLookup(r)
    BY <1>2, MovesOn DEF LoginLookup, At, Step
  <1>3. CASE LoginRecord(r)
    <2>1. req[r].step # "idle" /\ req[r].snap \in Row
      BY <1>3, RequestFields DEF LoginRecord, At
    <2>2. CASE WriteBack(r, req[r].snap)
      BY <1>3, <2>1, <2>2, WritesBack DEF LoginRecord, Step, TypeOK
    <2>3. CASE UNCHANGED <<row, raced>>
      BY <1>3, <2>1, <2>3, MovesOn DEF LoginRecord, Step
    <2> QED  BY <1>3, <2>2, <2>3 DEF LoginRecord
  <1>4. CASE IssueRefresh(r)
    <2>1. req[r].step # "idle"  BY <1>4 DEF IssueRefresh
    <2>2. req[r].user \in User /\ req[r].snap.role \in Role  BY <2>1, RequestFields
    <2>3. SessionsNext  BY <1>4, <2>2 DEF IssueRefresh, SessionsNext, TokenType
    <2> QED  BY <1>4, <2>1, <2>3, ChangesTokens DEF IssueRefresh, Step
  <1>5. CASE RenewAccess(r)
    <2>1. req[r].step # "idle"  BY <1>5 DEF RenewAccess
    <2>2. req[r].user \in User /\ req[r].snap.role \in Role  BY <2>1, RequestFields
    <2>3. SessionsNext  BY <1>5, <2>2 DEF RenewAccess, SessionsNext, TokenType
    <2> QED  BY <1>5, <2>1, <2>3, ChangesTokens DEF RenewAccess, Step
  <1>6. CASE RefreshCheck(r) \/ RefreshLookup(r)
    BY <1>6, MovesOn DEF RefreshCheck, RefreshLookup, At, Step
  <1>7. CASE LogoutAccess(r) \/ LogoutRefresh(r)
    <2>1. req[r].step # "idle"  BY <1>7 DEF LogoutAccess, LogoutRefresh, At
    <2>2. Finish(r) \/ \E s \in Step : Goto(r, s)
      BY <1>7 DEF LogoutAccess, LogoutRefresh, Step
    <2>3. UNCHANGED <<row, started, links, fate, lastSet, raced>>
      BY <1>7 DEF LogoutAccess, LogoutRefresh
    <2>4. (\E j : RevokeToken(j)) \/ UNCHANGED svars
      BY <1>7 DEF LogoutAccess, LogoutRefresh
    <2>5. CASE UNCHANGED svars
      BY <2>1, <2>2, <2>3, <2>5, MovesOn
    <2>6. ASSUME NEW j, RevokeToken(j)  PROVE Good
      <3>1. j \in Jti  BY <2>6 DEF RevokeToken, Valid, TypeOK, SessionsTypeOK
      <3>2. SessionsNext  BY <2>6, <3>1 DEF SessionsNext
      <3> QED  BY <2>1, <2>2, <2>3, <3>2, ChangesTokens
    <2> QED  BY <2>4, <2>5, <2>6
  <1>8. CASE RevokeSessions(r)
    <2>1. req[r] \in Request /\ req[r].user \in User
      BY <1>8, RequestFields DEF RevokeSessions
    <2>2. req'[r] = [req[r] EXCEPT !.step = "mark", !.since = now]
      BY <1>8 DEF RevokeSessions, TypeOK
    <2>3. req'[r] \in Request /\ req'[r].user \in User
      BY <2>1, <2>2 DEF Request, Step, TypeOK, SessionsTypeOK
    <2>4. req' \in [Req -> Request] /\ Busy'
      BY <1>8, <2>3 DEF RevokeSessions, TypeOK, Busy
    <2> QED  BY <1>8, <2>4 DEF RevokeSessions, AccountTypes, TypeOK
  <1>9. CASE SendRead(r) \/ VerifyRead(r) \/ ForgotRead(r) \/ ResetRead(r)
    BY <1>9, MovesOn DEF SendRead, VerifyRead, ForgotRead, ResetRead, At, Step
  <1>10. ASSUME NEW cur \in Password, ChangeRead(r, cur)  PROVE Good
    BY <1>10, MovesOn DEF ChangeRead, At, Step
  <1>11. CASE SendVerificationEmail(r)
    <2>1. req[r].step # "idle"  BY <1>11 DEF SendVerificationEmail, At
    <2>2. links + 1 \in 0..MaxLink
      BY <1>11 DEF SendVerificationEmail, TypeOK, AccountAssumption
    <2>3. [req[r].snap EXCEPT !.vtok = links + 1] \in Row
      BY <2>1, <2>2, RequestFields DEF Row
    <2>4. Settle(row[req[r].user].vtok, "replaced") \in [Link -> Fate]
      BY <2>1, RequestFields, SettleType DEF Fate
    <2>5. fate' \in [Link -> Fate]
      BY <1>11, <2>4 DEF SendVerificationEmail, Fate
    <2>6. links' \in 0..MaxLink /\ lastSet' \in [User -> [pw : Password, at : Nat]]
      BY <1>11, <2>2 DEF SendVerificationEmail, TypeOK
    <2> QED  BY <1>11, <2>1, <2>3, <2>5, <2>6, WritesBack DEF SendVerificationEmail
  <1>12. CASE VerifyWrite(r)
    <2>1. req[r].step # "idle"  BY <1>12 DEF VerifyWrite, At
    <2>2. VerifyEmail(req[r].snap) \in Row
      BY <2>1, RequestFields, RowUpdates
    <2>3. fate' \in [Link -> Fate]
      BY <1>12, <2>1, RequestFields, SettleType DEF VerifyWrite, Use, Fate
    <2>4. links' \in 0..MaxLink /\ lastSet' \in [User -> [pw : Password, at : Nat]]
      BY <1>12 DEF VerifyWrite, TypeOK
    <2> QED  BY <1>12, <2>1, <2>2, <2>3, <2>4, WritesBack DEF VerifyWrite
  <1>13. CASE RequestPasswordReset(r)
    <2>1. req[r].step # "idle"  BY <1>13 DEF RequestPasswordReset, At
    <2>2. links + 1 \in 0..MaxLink /\ now + ResetTTL \in Nat
      BY <1>13 DEF RequestPasswordReset, TypeOK, SessionsTypeOK, AccountAssumption
    <2>3. [req[r].snap EXCEPT !.rtok = links + 1, !.rexp = now + ResetTTL] \in Row
      BY <2>1, <2>2, RequestFields DEF Row
    <2>4. Settle(row[req[r].user].rtok, "replaced") \in [Link -> Fate]
      BY <2>1, RequestFields, SettleType DEF Fate
    <2>5. fate' \in [Link -> Fate]
      BY <1>13, <2>4 DEF RequestPasswordReset, Fate
    <2>6. links' \in 0..MaxLink /\ lastSet' \in [User -> [pw : Password, at : Nat]]
      BY <1>13, <2>2 DEF RequestPasswordReset, TypeOK
    <2> QED  BY <1>13, <2>1, <2>3, <2>5, <2>6, WritesBack DEF RequestPasswordReset
  <1>14. CASE ResetWrite(r) \/ ChangeWrite(r)
    <2>1. req[r].step # "idle" /\ SetPassword(r) /\ UNCHANGED <<svars, started, links>>
      BY <1>14 DEF ResetWrite, ChangeWrite, At
    <2>2. ClearPasswordResetToken([req[r].snap EXCEPT !.pw = req[r].pw]) \in Row
      BY <2>1, RequestFields, RowUpdates
    <2>3. lastSet' \in [User -> [pw : Password, at : Nat]]
      BY <2>1, RequestFields DEF SetPassword, TypeOK, SessionsTypeOK
    <2>4. fate' \in [Link -> Fate]
      BY <1>14, <2>1, RequestFields, SettleType DEF ResetWrite, ChangeWrite, Use, Fate
    <2>5. links' \in 0..MaxLink  BY <2>1 DEF TypeOK
    <2> QED  BY <2>1, <2>2, <2>3, <2>4, <2>5, WritesBack DEF SetPassword, Step
  <1>15. CASE Promote(r)
    <2>1. req[r].step # "idle"  BY <1>15 DEF Promote, At
    <2>2. [req[r].snap EXCEPT !.role = req[r].role] \in Row
      BY <2>1, RequestFields DEF Row
    <2>3. /\ links' \in 0..MaxLink /\ fate' \in [Link -> Fate]
          /\ lastSet' \in [User -> [pw : Password, at : Nat]]
      BY <1>15 DEF Promote, TypeOK
    <2> QED  BY <1>15, <2>1, <2>2, <2>3, WritesBack DEF Promote
  <1> QED
    BY <1>1, <1>2, <1>3, <1>4, <1>5, <1>6, <1>7, <1>8, <1>9, <1>10, <1>11, <1>12, <1>13,
       <1>14, <1>15 DEF Proceed

\* Whenever the cutoff was computed, the types are kept; it takes one of the past to
\* make the step one of Sessions.
LEMMA MarkTyped ==
    ASSUME SessionAssumption, AccountAssumption, Typed, NEW r \in Req, MarkSessions(r)
    PROVE  /\ SessionsTypeOK' /\ AccountTypes' /\ Busy'
           /\ Past => [SessionsNext]_svars
  <1> USE DEF Typed
  <1>1. req[r].step # "idle" /\ req[r] \in Request /\ req[r].user \in User
    BY RequestFields DEF MarkSessions
  <1>2. AccountTypes' /\ Busy'
    BY <1>1, FinishType DEF MarkSessions, AccountTypes, TypeOK
  <1>3. req[r].since \in Nat  BY <1>1 DEF Request
  <1>4. CASE UNCHANGED svars
    <2>1. SessionsTypeOK'
      BY <1>4, StepType DEF TypeOK
    <2> QED  BY <1>2, <1>4, <2>1
  <1>5. CASE RevokeAllUserSessions(req[r].user, req[r].since)
    <2>1. SessionsTypeOK'
      BY <1>1, <1>3, <1>5, RevokeAllType DEF TypeOK
    <2>2. Past => req[r].since \in 0..now
      BY <1>3 DEF Past, TypeOK, SessionsTypeOK
    <2>3. Past => SessionsNext
      BY <1>1, <1>5, <2>2 DEF SessionsNext
    <2> QED  BY <1>2, <2>1, <2>3
  <1> QED  BY <1>4, <1>5 DEF MarkSessions

LEMMA EnvironmentTyped ==
    ASSUME SessionAssumption, AccountAssumption, Typed, Environment
    PROVE  [SessionsNext]_svars /\ AccountTypes' /\ Busy'
  <1> DEFINE Good == [SessionsNext]_svars /\ AccountTypes' /\ Busy'
  <1> USE DEF Typed
  <1>0. now \in Nat  BY DEF TypeOK, SessionsTypeOK
  <1>1. CASE (Tick \/ Outage) /\ UNCHANGED avars
    <2>1. SessionsNext  BY <1>1 DEF SessionsNext
    <2> QED  BY <1>1, <2>1 DEF avars, AccountTypes, TypeOK, Busy
  <1>2. ASSUME NEW id \in User, NEW p \in Password, NEW role \in Role, CreateByAdmin(id, p, role)
        PROVE  Good
    <2> DEFINE u == [NewUser(p, role) EXCEPT !.verified = TRUE]
    <2>1. u \in Row  BY NoRowType DEF NewUser, Row
    <2>2. u.pw \in Password  BY <2>1 DEF Row
    <2> HIDE DEF u
    <2>3. Create(id, u)  BY <1>2 DEF CreateByAdmin, u
    <2>4. row' \in [User -> Row] /\ lastSet' \in [User -> [pw : Password, at : Nat]]
      BY <1>0, <2>1, <2>2, <2>3 DEF Create, TypeOK
    <2> QED  BY <1>2, <2>4 DEF CreateByAdmin, AccountTypes, TypeOK, Busy
  <1>3. ASSUME NEW id \in User, NEW until \in {0, now + BanTTL}, BanUser(id, until)  PROVE Good
    <2>1. until \in Nat  BY <1>0 DEF AccountAssumption
    <2> DEFINE b == [on |-> TRUE, until |-> until, at |-> now]
    <2>2. [row[id] EXCEPT !.ban = b] \in Row
      <3>1. row[id] \in Row  BY DEF TypeOK
      <3>2. b \in [on : BOOLEAN, until : Nat, at : Nat]  BY <1>0, <2>1
      <3> QED  BY <3>1, <3>2 DEF Row
    <2>3. row' = [row EXCEPT ![id] = [row[id] EXCEPT !.ban = b]]  BY <1>3 DEF BanUser
    <2>4. row' \in [User -> Row]  BY <2>2, <2>3 DEF TypeOK
    <2> QED  BY <1>3, <2>4 DEF BanUser, AccountTypes, TypeOK, Busy
  <1>4. ASSUME NEW id \in User, UnbanUser(id)  PROVE Good
    <2>1. [row[id] EXCEPT !.ban = NoBan] \in Row
      <3>1. row[id] \in Row  BY DEF TypeOK
      <3>2. NoBan \in [on : BOOLEAN, until : Nat, at : Nat]  BY DEF NoBan
      <3> QED  BY <3>1, <3>2 DEF Row
    <2>2. row' = [row EXCEPT ![id] = [row[id] EXCEPT !.ban = NoBan]]  BY <1>4 DEF UnbanUser
    <2>3. row' \in [User -> Row]  BY <2>1, <2>2 DEF TypeOK
    <2> QED  BY <1>4, <2>3 DEF UnbanUser, AccountTypes, TypeOK, Busy
  <1> QED  BY <1>1, <1>2, <1>3, <1>4 DEF Environment

LEMMA InitTyped ==
    ASSUME SessionAssumption, AccountAssumption, Init
    PROVE  Typed
  <1>1. SessionsTypeOK  BY InitInv DEF Init, SessionsInv
  <1>2. Idle \in Request /\ Idle.step = "idle"  BY AskType DEF Step
  <1>3. NoRow \in Row /\ NoRow.pw \in Password  BY NoRowType DEF Row
  <1>4. 0 \in 0..MaxRequests /\ 0 \in 0..MaxLink  BY DEF AccountAssumption
  <1> QED  BY <1>1, <1>2, <1>3, <1>4 DEF Init, Typed, TypeOK, Busy, Fate

LEMMA BreakOffTyped ==
    ASSUME SessionAssumption, AccountAssumption, Typed, NEW r \in Req, BreakOff(r)
    PROVE  [SessionsNext]_svars /\ AccountTypes' /\ Busy'
  <1>1. req' \in [Req -> Request] /\ Busy'  BY FinishType DEF BreakOff, Typed
  <1> QED  BY <1>1 DEF BreakOff, AccountTypes, Typed, TypeOK

LEMMA StepTyped ==
    ASSUME SessionAssumption, AccountAssumption, Typed, [Next]_vars
    PROVE  /\ Typed'
           /\ Past => [SessionsNext]_svars
  <1> DEFINE Good == [SessionsNext]_svars /\ AccountTypes' /\ Busy'
  <1>1. CASE Good
    <2>1. SessionsTypeOK'  BY <1>1, StepType DEF Typed, TypeOK
    <2> QED  BY <1>1, <2>1 DEF Typed, TypeOK, AccountTypes
  <1>2. ASSUME NEW r \in Req, MarkSessions(r)
        PROVE  Typed' /\ (Past => [SessionsNext]_svars)
    BY <1>2, MarkTyped DEF Typed, TypeOK, AccountTypes
  <1>3. UNCHANGED vars => Good
    BY DEF vars, svars, avars, AccountTypes, Typed, TypeOK, Busy
  <1>4. Next => Good \/ \E r \in Req : MarkSessions(r)
    BY ArriveTyped, ProceedTyped, BreakOffTyped, EnvironmentTyped DEF Next
  <1> QED  BY <1>1, <1>2, <1>3, <1>4

LEMMA TypedInvariance == Spec => []Typed
  <1>1. Init => Typed
    BY InitTyped, SessionAssumption, AccountAssumption
  <1>2. Typed /\ [Next]_vars => Typed'
    BY StepTyped, SessionAssumption, AccountAssumption
  <1> QED  BY <1>1, <1>2, PTL DEF Spec

\* Every reachable state is well typed, for every number of accounts, tokens,
\* concurrent requests, links and passwords: a request only ever mints tokens of
\* an account's own user and role, no link is written that was not generated, and
\* the bound on requests is kept.
THEOREM AccountsTypeCorrect == Spec => []TypeOK
  <1>1. Typed => TypeOK  BY DEF Typed
  <1> QED  BY <1>1, TypedInvariance, PTL

-----------------------------------------------------------------------------
(* Requests on their way to a token *)

Minting(q) == q.kind \in {"login", "refresh"} /\ q.step \in {"write", "mint", "renew"}

\* The same request, seen again.
SameRequest(i) ==
    /\ req'[i].kind = req[i].kind /\ req'[i].user = req[i].user
    /\ req'[i].pw = req[i].pw /\ req'[i].since = req[i].since

\* How a request gets on that way: past a lookup, which read the row.
Admitted(i) ==
    /\ UNCHANGED <<now, row, lastSet, raced>>
    /\ SameRequest(i)
    /\ row[req[i].user].here /\ ~IsCurrentlyBanned(row[req[i].user])
    /\ req[i].kind = "login" => row[req[i].user].pw = req[i].pw

LEMMA MovedRequest ==
    ASSUME Typed, NEW r \in Req, NEW s \in Step, Goto(r, s) \/ Read(r, req[r], s)
    PROVE  SameRequest(r) /\ req'[r].step = s
  <1>1. req \in [Req -> Request]  BY DEF Typed, TypeOK
  <1>2. CASE Goto(r, s)
    <2>1. req'[r] = [req[r] EXCEPT !.step = s]  BY <1>1, <1>2 DEF Goto
    <2> QED  BY <1>1, <2>1 DEF SameRequest, Request
  <1>3. CASE Read(r, req[r], s)
    <2>1. req'[r] = [req[r] EXCEPT !.snap = row[req[r].user], !.step = s]
      BY <1>1, <1>3 DEF Read
    <2> QED  BY <1>1, <2>1 DEF SameRequest, Request
  <1> QED  BY <1>2, <1>3

LEMMA ProceedMints ==
    ASSUME SessionAssumption, AccountAssumption, Typed, NEW r \in Req, Proceed(r), Minting(req'[r])
    PROVE  \/ Minting(req[r]) /\ SameRequest(r)
           \/ Admitted(r)
  <1> DEFINE Good == (Minting(req[r]) /\ SameRequest(r)) \/ Admitted(r)
  <1>0. ~Finish(r)
    BY DEF Finish, Typed, TypeOK, Minting, Idle
  <1>1. CASE Register(r)
    <2>1. req'[r].kind = "register"
      BY <1>0, <1>1 DEF Register, At, Typed, TypeOK, Request
    <2> QED  BY <2>1 DEF Minting
  <1>2. CASE LoginLookup(r)
    <2>1. req[r].kind = "login" /\ Read(r, req[r], "write")
      BY <1>0, <1>2 DEF LoginLookup, At
    <2>2. SameRequest(r)  BY <2>1, MovedRequest DEF Step
    <2>3. /\ row[req[r].user].here /\ row[req[r].user].pw = req[r].pw
          /\ ~IsCurrentlyBanned(row[req[r].user])
      BY <1>0, <1>2 DEF LoginLookup
    <2> QED  BY <1>2, <2>2, <2>3 DEF LoginLookup, Admitted, svars
  <1>3. CASE LoginRecord(r)
    <2>1. SameRequest(r)  BY <1>3, MovedRequest DEF LoginRecord, Step
    <2> QED  BY <1>3, <2>1 DEF LoginRecord, At, Minting
  <1>4. CASE IssueRefresh(r)
    <2>1. SameRequest(r)  BY <1>4, MovedRequest DEF IssueRefresh, Step
    <2> QED  BY <1>4, <2>1 DEF IssueRefresh, Minting, SameRequest
  <1>5. CASE RenewAccess(r)
    BY <1>0, <1>5 DEF RenewAccess
  <1>6. CASE RefreshCheck(r)
    <2>1. Goto(r, "lookup")  BY <1>0, <1>6 DEF RefreshCheck
    <2>2. req'[r].step = "lookup"  BY <2>1, MovedRequest DEF Step
    <2> QED  BY <2>2 DEF Minting
  <1>7. CASE RefreshLookup(r)
    <2>1. req[r].kind = "refresh" /\ Read(r, req[r], "renew")
      BY <1>0, <1>7 DEF RefreshLookup, At
    <2>2. SameRequest(r)  BY <2>1, MovedRequest DEF Step
    <2>3. row[req[r].user].here /\ ~IsCurrentlyBanned(row[req[r].user])
      BY <1>0, <1>7 DEF RefreshLookup
    <2> QED  BY <1>7, <2>1, <2>2, <2>3 DEF RefreshLookup, Admitted, svars
  <1>8. CASE LogoutAccess(r)
    <2>1. Goto(r, "denyrefresh")  BY <1>0, <1>8 DEF LogoutAccess
    <2>2. req'[r].step = "denyrefresh"  BY <2>1, MovedRequest DEF Step
    <2> QED  BY <2>2 DEF Minting
  <1>9. CASE \/ LogoutRefresh(r) \/ MarkSessions(r) \/ SendVerificationEmail(r)
             \/ VerifyWrite(r) \/ RequestPasswordReset(r) \/ Promote(r)
    BY <1>0, <1>9 DEF LogoutRefresh, MarkSessions, SendVerificationEmail, VerifyWrite,
                      RequestPasswordReset, Promote
  <1>10. ASSUME SendRead(r) \/ VerifyRead(r) \/ ForgotRead(r) \/ ResetRead(r)
                \/ \E cur \in Password : ChangeRead(r, cur)
         PROVE  Good
    <2>1. req[r].kind \in {"send", "verify", "forgot", "reset", "change"}
      BY <1>10 DEF SendRead, VerifyRead, ForgotRead, ResetRead, ChangeRead, At
    <2>2. Read(r, req[r], "write")
      BY <1>0, <1>10 DEF SendRead, VerifyRead, ForgotRead, ResetRead, ChangeRead
    <2>3. req'[r].kind = req[r].kind  BY <2>2, MovedRequest DEF Step, SameRequest
    <2> QED  BY <2>1, <2>3 DEF Minting
  <1>11. CASE ResetWrite(r) \/ ChangeWrite(r)
    <2>1. Goto(r, "revoke")  BY <1>11 DEF ResetWrite, ChangeWrite, SetPassword
    <2>2. req'[r].step = "revoke"  BY <2>1, MovedRequest DEF Step
    <2> QED  BY <2>2 DEF Minting
  <1>12. CASE RevokeSessions(r)
    <2>1. req'[r].step = "mark"
      BY <1>12 DEF RevokeSessions, Typed, TypeOK, Request
    <2> QED  BY <2>1 DEF Minting
  <1> QED
    BY <1>1, <1>2, <1>3, <1>4, <1>5, <1>6, <1>7, <1>8, <1>9, <1>10, <1>11, <1>12 DEF Proceed

\* A request that has just arrived is on no such way yet.
Fresh(q) == ~Minting(q) /\ q.since \in {0, now}

LEMMA ArrivesFresh ==
    ASSUME SessionAssumption, AccountAssumption, Typed, NEW r \in Req, Arrive(r)
    PROVE  Fresh(req'[r])
  <1>1. ASSUME NEW q, Begin(r, q), Fresh(q)
        PROVE  Fresh(req'[r])
    BY <1>1 DEF Begin, Typed, TypeOK
  <1>2. ASSUME NEW kind \in Kind, NEW step \in Step, NEW u \in User
        PROVE  /\ Ask(kind, step, u) \in Request
               /\ Ask(kind, step, u).kind = kind /\ Ask(kind, step, u).step = step
               /\ Ask(kind, step, u).since = 0
    BY AskType
  <1>3. \A j \in issued : tok[j].user \in User
    BY DEF Typed, TypeOK, SessionsTypeOK, Token
  <1>4. ASSUME NEW id \in User, NEW p \in Password,
               StartRegister(r, id, p) \/ StartLogin(r, id, p)
        PROVE  Fresh(req'[r])
    <2>ask. /\ Ask("register", "insert", id) \in Request
            /\ Ask("register", "insert", id).kind = "register"
            /\ Ask("register", "insert", id).step = "insert"
            /\ Ask("register", "insert", id).since = 0
            /\ Ask("login", "lookup", id) \in Request
            /\ Ask("login", "lookup", id).kind = "login"
            /\ Ask("login", "lookup", id).step = "lookup"
            /\ Ask("login", "lookup", id).since = 0
      BY <1>2 DEF Kind, Step
    <2>1. /\ Fresh([Ask("register", "insert", id) EXCEPT !.pw = p, !.role = NoRow.role])
          /\ Fresh([Ask("login", "lookup", id) EXCEPT !.pw = p, !.since = now])
      BY <2>ask DEF Fresh, Minting, Request
    <2> QED  BY <1>1, <1>4, <2>1 DEF StartRegister, StartLogin
  <1>5. ASSUME NEW j \in Jti, StartRefresh(r, j) \/ StartLogoutAll(r, j) \/ StartSend(r, j)
        PROVE  Fresh(req'[r])
    <2>1. tok[j].user \in User
      BY <1>3, <1>5 DEF StartRefresh, StartLogoutAll, StartSend, Accepted, ValidAs, Valid
    <2>ask. /\ Ask("refresh", "check", tok[j].user) \in Request
            /\ Ask("refresh", "check", tok[j].user).kind = "refresh"
            /\ Ask("refresh", "check", tok[j].user).step = "check"
            /\ Ask("refresh", "check", tok[j].user).since = 0
            /\ Ask("logoutall", "revoke", tok[j].user) \in Request
            /\ Ask("logoutall", "revoke", tok[j].user).kind = "logoutall"
            /\ Ask("logoutall", "revoke", tok[j].user).step = "revoke"
            /\ Ask("logoutall", "revoke", tok[j].user).since = 0
            /\ Ask("send", "read", tok[j].user) \in Request
            /\ Ask("send", "read", tok[j].user).kind = "send"
            /\ Ask("send", "read", tok[j].user).step = "read"
            /\ Ask("send", "read", tok[j].user).since = 0
      BY <1>2, <2>1 DEF Kind, Step
    <2>2. /\ Fresh([Ask("refresh", "check", tok[j].user) EXCEPT !.jti = j, !.since = now])
          /\ Fresh(Ask("logoutall", "revoke", tok[j].user))
          /\ Fresh(Ask("send", "read", tok[j].user))
      BY <2>ask DEF Fresh, Minting, Request
    <2> QED  BY <1>1, <1>5, <2>2 DEF StartRefresh, StartLogoutAll, StartSend
  <1>6. ASSUME NEW j \in Jti, NEW k \in Jti \cup {NoJti}, StartLogout(r, j, k)
        PROVE  Fresh(req'[r])
    <2>1. tok[j].user \in User  BY <1>3, <1>6 DEF StartLogout, Accepted, ValidAs, Valid
    <2>ask. /\ Ask("logout", "deny", tok[j].user) \in Request
            /\ Ask("logout", "deny", tok[j].user).kind = "logout"
            /\ Ask("logout", "deny", tok[j].user).step = "deny"
            /\ Ask("logout", "deny", tok[j].user).since = 0
      BY <1>2, <2>1 DEF Kind, Step
    <2>2. Fresh([Ask("logout", "deny", tok[j].user) EXCEPT !.jti = j, !.other = k])
      BY <2>ask DEF Fresh, Minting, Request
    <2> QED  BY <1>1, <1>6, <2>2 DEF StartLogout
  <1>7. ASSUME NEW l \in Link, NEW id \in User, StartVerify(r, l, id)
        PROVE  Fresh(req'[r])
    <2>ask. /\ Ask("verify", "read", id) \in Request
            /\ Ask("verify", "read", id).kind = "verify"
            /\ Ask("verify", "read", id).step = "read"
            /\ Ask("verify", "read", id).since = 0
      BY <1>2 DEF Kind, Step
    <2>1. Fresh([Ask("verify", "read", id) EXCEPT !.link = l])
      BY <2>ask DEF Fresh, Minting, Request
    <2> QED  BY <1>1, <1>7, <2>1 DEF StartVerify
  <1>8. ASSUME NEW l \in Link, NEW id \in User, NEW p \in Password, StartReset(r, l, id, p)
        PROVE  Fresh(req'[r])
    <2>ask. /\ Ask("reset", "read", id) \in Request
            /\ Ask("reset", "read", id).kind = "reset"
            /\ Ask("reset", "read", id).step = "read"
            /\ Ask("reset", "read", id).since = 0
      BY <1>2 DEF Kind, Step
    <2>1. Fresh([Ask("reset", "read", id) EXCEPT !.link = l, !.pw = p])
      BY <2>ask DEF Fresh, Minting, Request
    <2> QED  BY <1>1, <1>8, <2>1 DEF StartReset
  <1>9. ASSUME NEW id \in User, StartForgot(r, id)
        PROVE  Fresh(req'[r])
    <2>ask. /\ Ask("forgot", "read", id) \in Request
            /\ Ask("forgot", "read", id).kind = "forgot"
            /\ Ask("forgot", "read", id).step = "read"
            /\ Ask("forgot", "read", id).since = 0
      BY <1>2 DEF Kind, Step
    <2>1. Fresh(Ask("forgot", "read", id))
      BY <2>ask DEF Fresh, Minting, Request
    <2> QED  BY <1>1, <1>9, <2>1 DEF StartForgot
  <1>10. ASSUME NEW j \in Jti, NEW p \in Password, StartChange(r, j, p)
         PROVE  Fresh(req'[r])
    <2>1. tok[j].user \in User  BY <1>3, <1>10 DEF StartChange, Accepted, ValidAs, Valid
    <2>ask. /\ Ask("change", "read", tok[j].user) \in Request
            /\ Ask("change", "read", tok[j].user).kind = "change"
            /\ Ask("change", "read", tok[j].user).step = "read"
            /\ Ask("change", "read", tok[j].user).since = 0
      BY <1>2, <2>1 DEF Kind, Step
    <2>2. Fresh([Ask("change", "read", tok[j].user) EXCEPT !.pw = p])
      BY <2>ask DEF Fresh, Minting, Request
    <2> QED  BY <1>1, <1>10, <2>2 DEF StartChange
  <1>11. ASSUME NEW id \in User, NEW role \in Role, StartPromote(r, id, role)
         PROVE  Fresh(req'[r])
    <2>ask. /\ Ask("promote", "write", id) \in Request
            /\ Ask("promote", "write", id).kind = "promote"
            /\ Ask("promote", "write", id).step = "write"
            /\ Ask("promote", "write", id).since = 0
      BY <1>2 DEF Kind, Step
    <2>1. Fresh([Ask("promote", "write", id) EXCEPT !.role = role, !.snap = row[id]])
      BY <2>ask DEF Fresh, Minting, Request
    <2> QED  BY <1>1, <1>11, <2>1 DEF StartPromote
  <1> QED
    BY <1>4, <1>5, <1>6, <1>7, <1>8, <1>9, <1>10, <1>11 DEF Arrive

LEMMA ArriveLeaves ==
    ASSUME NEW r \in Req, Arrive(r)
    PROVE  UNCHANGED <<svars, row, links, fate, lastSet, raced>>
  BY DEF Arrive, StartRegister, StartLogin, StartRefresh, StartLogoutAll, StartSend,
         StartLogout, StartVerify, StartReset, StartForgot, StartChange, StartPromote

\* A step of one request leaves the others where they are.
LEMMA OthersWait ==
    ASSUME Typed, NEW r \in Req, Arrive(r) \/ Proceed(r) \/ BreakOff(r)
    PROVE  \A i \in Req : i # r => req'[i] = req[i]
  <1>1. \/ Finish(r)
        \/ \E s : Goto(r, s)
        \/ \E q, s : Read(r, q, s)
        \/ \E q : Begin(r, q)
        \/ \E u : req' = [req EXCEPT ![r].step = "mint", ![r].snap = u]
        \/ req' = [req EXCEPT ![r].step = "mark", ![r].since = now]
    <2>1. CASE Arrive(r)
      BY <2>1 DEF Arrive, StartRegister, StartLogin, StartRefresh, StartLogoutAll, StartSend,
                  StartLogout, StartVerify, StartReset, StartForgot, StartChange, StartPromote
    <2>2. CASE Proceed(r)
      BY <2>2 DEF Proceed, Register, LoginLookup, LoginRecord, IssueRefresh, RenewAccess,
                  RefreshCheck, RefreshLookup, LogoutAccess, LogoutRefresh, RevokeSessions,
                  MarkSessions, SendRead, SendVerificationEmail, VerifyRead, VerifyWrite, ForgotRead,
                  RequestPasswordReset, ResetRead, ResetWrite, ChangeRead, ChangeWrite,
                  SetPassword, Promote
    <2>3. CASE BreakOff(r)
      BY <2>3 DEF BreakOff
    <2> QED  BY <2>1, <2>2, <2>3
  <1> QED
    BY <1>1 DEF Finish, Goto, Read, Begin, Typed, TypeOK

LEMMA StepMints ==
    ASSUME SessionAssumption, AccountAssumption, Typed, [Next]_vars,
           NEW i \in Req, Minting(req'[i])
    PROVE  \/ Minting(req[i]) /\ SameRequest(i)
           \/ Admitted(i)
  <1>1. CASE req'[i] = req[i]
    BY <1>1 DEF SameRequest
  <1>2. ASSUME NEW r \in Req, Arrive(r) \/ Proceed(r) \/ BreakOff(r), req'[i] # req[i]
        PROVE  \/ Minting(req[i]) /\ SameRequest(i)
               \/ Admitted(i)
    <2>1. i = r  BY <1>2, OthersWait
    <2>2. ~BreakOff(r)
      BY <2>1 DEF BreakOff, Finish, Idle, Minting, Typed, TypeOK
    <2> QED  BY <1>2, <2>1, <2>2, ProceedMints, ArrivesFresh DEF Fresh
  <1>3. UNCHANGED vars \/ Environment => UNCHANGED req
    BY DEF vars, avars, Environment, CreateByAdmin, BanUser, UnbanUser
  <1> QED  BY <1>1, <1>2, <1>3 DEF Next

-----------------------------------------------------------------------------
(* What the steps do to the columns of the ban and of the password *)

\* A write of the whole row keeps the ban; one that does not race keeps every
\* column the request has not set itself.
LEMMA WriteBackKeeps ==
    ASSUME Typed, NEW r \in Req, req[r].step # "idle", NEW u \in Row, WriteBack(r, u)
    PROVE  /\ \A id \in User : row'[id].ban = row[id].ban
           /\ \A id \in User : id # req[r].user => row'[id] = row[id]
           /\ row'[req[r].user].pw = u.pw /\ row'[req[r].user].here = u.here
           /\ ~raced' => /\ ~raced
                         /\ row[req[r].user].pw = req[r].snap.pw
                         /\ row[req[r].user].here = req[r].snap.here
  <1>1. req[r].user \in User /\ req[r].snap \in Row /\ row \in [User -> Row]
    BY RequestFields DEF Typed, TypeOK
  <1>2. row' = [row EXCEPT ![req[r].user] = [u EXCEPT !.ban = row[req[r].user].ban]]
    BY DEF WriteBack, Update
  <1>3. ~raced' => ~raced /\ Columns(req[r].snap) = Columns(row[req[r].user])
    BY DEF WriteBack
  <1>4. row'[req[r].user] = [u EXCEPT !.ban = row[req[r].user].ban]
    BY <1>1, <1>2
  <1>5. \A id \in User : id # req[r].user => row'[id] = row[id]
    BY <1>1, <1>2
  <1>6. /\ row'[req[r].user].ban = row[req[r].user].ban
        /\ row'[req[r].user].pw = u.pw /\ row'[req[r].user].here = u.here
    BY <1>4 DEF Row
  <1>7. ASSUME NEW v \in Row  PROVE Columns(v).pw = v.pw /\ Columns(v).here = v.here
    BY DEF Columns, Row
  <1>8. ~raced' => /\ row[req[r].user].pw = req[r].snap.pw
                   /\ row[req[r].user].here = req[r].snap.here
    BY <1>1, <1>3, <1>7
  <1> QED  BY <1>3, <1>5, <1>6, <1>8

\* What one step does to a ban: nothing, or it lifts it, or it sets it now.
BanStep(id) ==
    \/ row'[id].ban = row[id].ban
    \/ row'[id].ban = NoBan
    \/ row'[id].ban.at = now /\ now' = now

\* What one step does to a password: nothing, or it is set now.
PasswordStep(id) ==
    \/ /\ row'[id].pw = row[id].pw /\ row'[id].here = row[id].here
       /\ lastSet'[id] = lastSet[id]
    \/ row'[id].pw = lastSet'[id].pw /\ lastSet'[id].at = now

RowStep ==
    /\ now <= now'
    /\ \A id \in User : BanStep(id)
    /\ ~raced' => ~raced /\ \A id \in User : PasswordStep(id)

LEMMA ProceedRows ==
    ASSUME SessionAssumption, AccountAssumption, Typed, NEW r \in Req, Proceed(r)
    PROVE  RowStep
  <1>0. now \in Nat  BY DEF Typed, TypeOK, SessionsTypeOK
  <1>1. ASSUME UNCHANGED <<now, row, lastSet, raced>>  PROVE RowStep
    BY <1>0, <1>1 DEF RowStep, BanStep, PasswordStep
  <1>2. ASSUME req[r].step # "idle", NEW u \in Row, WriteBack(r, u),
               u.pw = req[r].snap.pw, u.here = req[r].snap.here,
               UNCHANGED <<now, lastSet>>
        PROVE  RowStep
    <2>1. /\ \A id \in User : row'[id].ban = row[id].ban
          /\ \A id \in User : id # req[r].user => row'[id] = row[id]
          /\ row'[req[r].user].pw = u.pw /\ row'[req[r].user].here = u.here
          /\ ~raced' => /\ ~raced
                        /\ row[req[r].user].pw = req[r].snap.pw
                        /\ row[req[r].user].here = req[r].snap.here
      BY <1>2, WriteBackKeeps
    <2> QED  BY <1>0, <1>2, <2>1 DEF RowStep, BanStep, PasswordStep
  <1>3. CASE \/ LoginLookup(r) \/ IssueRefresh(r) \/ RenewAccess(r) \/ RefreshCheck(r)
             \/ RefreshLookup(r) \/ LogoutAccess(r) \/ LogoutRefresh(r) \/ RevokeSessions(r)
             \/ MarkSessions(r)
    BY <1>1, <1>3 DEF LoginLookup, IssueRefresh, RenewAccess, RefreshCheck, RefreshLookup,
                      LogoutAccess, LogoutRefresh, RevokeSessions, MarkSessions, Sign, RevokeToken,
                      RevokeAllUserSessions, svars
  <1>4. CASE \/ SendRead(r) \/ VerifyRead(r) \/ ForgotRead(r) \/ ResetRead(r)
             \/ \E cur \in Password : ChangeRead(r, cur)
    BY <1>1, <1>4 DEF SendRead, VerifyRead, ForgotRead, ResetRead, ChangeRead, svars
  <1>5. CASE Register(r)
    <2>1. req[r].step # "idle"  BY <1>5 DEF Register, At
    <2>2. CASE UNCHANGED <<row, lastSet>>
      BY <1>1, <1>5, <2>2 DEF Register, svars
    <2>3. CASE Create(req[r].user, NewUser(req[r].pw, req[r].role))
      <3> DEFINE id == req[r].user
                 u == NewUser(req[r].pw, req[r].role)
      <3>1. id \in User /\ u \in Row /\ u.ban = NoBan
        BY <2>1, RequestFields, NoRowType DEF NewUser, Row, NoRow, Typed
      <3> HIDE DEF u, id
      <3>2. /\ row' = [row EXCEPT ![id] = u]
            /\ lastSet' = [lastSet EXCEPT ![id] = [pw |-> u.pw, at |-> now]]
        BY <2>3 DEF Create, u, id
      <3>3. UNCHANGED <<now, raced>>  BY <1>5 DEF Register, svars
      <3> QED
        BY <1>0, <3>1, <3>2, <3>3 DEF RowStep, BanStep, PasswordStep, Typed, TypeOK
    <2> QED  BY <1>5, <2>2, <2>3 DEF Register
  <1>6. CASE LoginRecord(r)
    <2>1. req[r].step # "idle" /\ req[r].snap \in Row
      BY <1>6, RequestFields DEF LoginRecord, At, Typed
    <2> QED  BY <1>1, <1>2, <1>6, <2>1 DEF LoginRecord, svars
  <1>7. ASSUME req[r].step # "idle", NEW u \in Row, WriteBack(r, u),
               u.pw = req[r].snap.pw /\ u.here = req[r].snap.here, UNCHANGED <<svars, lastSet>>
        PROVE  RowStep
    BY <1>2, <1>7 DEF svars
  <1>8. CASE SendVerificationEmail(r) \/ RequestPasswordReset(r)
    <2>1. req[r].step # "idle"  BY <1>8 DEF SendVerificationEmail, RequestPasswordReset, At
    <2>2. req[r].snap \in Row  BY <2>1, RequestFields DEF Typed
    <2>3. links + 1 \in 0..MaxLink /\ now + ResetTTL \in Nat
      BY <1>0, <1>8
      DEF SendVerificationEmail, RequestPasswordReset, Typed, TypeOK, AccountAssumption
    <2> DEFINE v == [req[r].snap EXCEPT !.vtok = links + 1]
               w == [req[r].snap EXCEPT !.rtok = links + 1, !.rexp = now + ResetTTL]
    <2>4. /\ v \in Row /\ v.pw = req[r].snap.pw /\ v.here = req[r].snap.here
          /\ w \in Row /\ w.pw = req[r].snap.pw /\ w.here = req[r].snap.here
      BY <2>2, <2>3 DEF Row
    <2>5. (WriteBack(r, v) \/ WriteBack(r, w)) /\ UNCHANGED <<svars, lastSet>>
      BY <1>8 DEF SendVerificationEmail, RequestPasswordReset
    <2> HIDE DEF v, w
    <2> QED  BY <1>7, <2>1, <2>4, <2>5
  <1>9. CASE VerifyWrite(r) \/ Promote(r)
    <2>1. req[r].step # "idle"  BY <1>9 DEF VerifyWrite, Promote, At
    <2>2. req[r].snap \in Row /\ req[r].role \in Role  BY <2>1, RequestFields DEF Typed
    <2> DEFINE v == VerifyEmail(req[r].snap)
               w == [req[r].snap EXCEPT !.role = req[r].role]
    <2>3. /\ v \in Row /\ v.pw = req[r].snap.pw /\ v.here = req[r].snap.here
          /\ w \in Row /\ w.pw = req[r].snap.pw /\ w.here = req[r].snap.here
      <3>1. v \in Row  BY <2>1, <2>2, RowUpdates, RequestFields DEF Typed
      <3>2. v.pw = req[r].snap.pw /\ v.here = req[r].snap.here
        BY <2>2 DEF VerifyEmail, Row
      <3>3. w \in Row /\ w.pw = req[r].snap.pw /\ w.here = req[r].snap.here
        BY <2>2 DEF Row
      <3> QED  BY <3>1, <3>2, <3>3
    <2>4. (WriteBack(r, v) \/ WriteBack(r, w)) /\ UNCHANGED <<svars, lastSet>>
      BY <1>9 DEF VerifyWrite, Promote
    <2> HIDE DEF v, w
    <2> QED  BY <1>7, <2>1, <2>3, <2>4
  <1>10. CASE ResetWrite(r) \/ ChangeWrite(r)
    <2>1. req[r].step # "idle" /\ SetPassword(r) /\ UNCHANGED svars
      BY <1>10 DEF ResetWrite, ChangeWrite, At
    <2>2. req[r].snap \in Row /\ req[r].pw \in Password /\ req[r].user \in User
      BY <2>1, RequestFields DEF Typed
    <2> DEFINE s == [req[r].snap EXCEPT !.pw = req[r].pw]
               u == ClearPasswordResetToken(s)
    <2>3. s \in Row /\ s.pw = req[r].pw
      BY <2>2 DEF Row
    <2> HIDE DEF s
    <2>4. u \in Row /\ u.pw = req[r].pw
      BY <2>2, <2>3, RowUpdates DEF ClearPasswordResetToken, Row
    <2>5. /\ WriteBack(r, u)
          /\ lastSet' = [lastSet EXCEPT ![req[r].user] = [pw |-> req[r].pw, at |-> now]]
      BY <2>1 DEF SetPassword, s
    <2> HIDE DEF u
    <2>6. /\ \A id \in User : row'[id].ban = row[id].ban
          /\ \A id \in User : id # req[r].user => row'[id] = row[id]
          /\ row'[req[r].user].pw = u.pw
          /\ ~raced' => ~raced
      BY <2>1, <2>4, <2>5, WriteBackKeeps
    <2>7. lastSet'[req[r].user] = [pw |-> req[r].pw, at |-> now]
      BY <2>2, <2>5 DEF Typed, TypeOK
    <2>8. \A id \in User : id # req[r].user => lastSet'[id] = lastSet[id]
      BY <2>5 DEF Typed, TypeOK
    <2>9. now' = now  BY <2>1 DEF svars
    <2> QED
      BY <1>0, <2>4, <2>6, <2>7, <2>8, <2>9 DEF RowStep, BanStep, PasswordStep
  <1> QED
    BY <1>3, <1>4, <1>5, <1>6, <1>8, <1>9, <1>10 DEF Proceed

LEMMA StepRows ==
    ASSUME SessionAssumption, AccountAssumption, Typed, [Next]_vars
    PROVE  RowStep
  <1>0. now \in Nat /\ row \in [User -> Row]  BY DEF Typed, TypeOK, SessionsTypeOK
  <1>1. ASSUME UNCHANGED <<row, lastSet, raced>>, now <= now'  PROVE RowStep
    BY <1>1 DEF RowStep, BanStep, PasswordStep
  <1>2. CASE UNCHANGED vars
    BY <1>0, <1>1, <1>2 DEF vars, svars, avars
  <1>3. ASSUME NEW r \in Req, Arrive(r) \/ BreakOff(r)  PROVE RowStep
    BY <1>0, <1>1, <1>3, ArriveLeaves DEF BreakOff, svars
  <1>4. CASE (Tick \/ Outage) /\ UNCHANGED avars
    BY <1>0, <1>1, <1>4 DEF Tick, Outage, avars
  <1>5. ASSUME NEW id \in User, NEW p \in Password, NEW role \in Role, CreateByAdmin(id, p, role)
        PROVE  RowStep
    <2> DEFINE u == [NewUser(p, role) EXCEPT !.verified = TRUE]
    <2>1. u \in Row /\ u.ban = NoBan
      BY NoRowType DEF NewUser, Row, NoRow
    <2> HIDE DEF u
    <2>2. /\ row' = [row EXCEPT ![id] = u]
          /\ lastSet' = [lastSet EXCEPT ![id] = [pw |-> u.pw, at |-> now]]
          /\ UNCHANGED <<now, raced>>
      BY <1>5 DEF CreateByAdmin, Create, svars, u
    <2> QED  BY <1>0, <2>1, <2>2 DEF RowStep, BanStep, PasswordStep, Typed, TypeOK
  <1>6. ASSUME NEW id \in User, NEW b,
               row' = [row EXCEPT ![id].ban = b], b = NoBan \/ b.at = now,
               UNCHANGED <<svars, lastSet, raced>>
        PROVE  RowStep
    <2>1. \A i \in User : i # id => row'[i] = row[i]  BY <1>0, <1>6
    <2>2. row'[id] = [row[id] EXCEPT !.ban = b]  BY <1>0, <1>6
    <2>3. row'[id].ban = b /\ row'[id].pw = row[id].pw /\ row'[id].here = row[id].here
      BY <1>0, <2>2 DEF Row
    <2> QED  BY <1>0, <1>6, <2>1, <2>3 DEF RowStep, BanStep, PasswordStep, svars
  <1>7. ASSUME NEW id \in User, UnbanUser(id) \/ \E until : BanUser(id, until)  PROVE RowStep
    BY <1>6, <1>7 DEF UnbanUser, BanUser
  <1> QED
    BY <1>2, <1>3, <1>4, <1>5, <1>7, ProceedRows DEF Next, Environment

-----------------------------------------------------------------------------
(* Requests against bans and new passwords *)

LEMMA StepPast ==
    ASSUME SessionAssumption, AccountAssumption, Typed, Past, [Next]_vars
    PROVE  Past'
  <1>0. now \in Nat /\ req \in [Req -> Request] /\ now <= now' /\ now' \in Nat
    BY StepRows, StepTyped DEF RowStep, Typed, TypeOK, SessionsTypeOK
  <1> SUFFICES ASSUME NEW i \in Req  PROVE req'[i].since <= now'
    BY DEF Past
  <1>1. req[i].since \in Nat /\ req[i].since <= now  BY <1>0 DEF Past, Request
  <1>2. CASE req'[i] = req[i]
    BY <1>0, <1>1, <1>2
  <1>3. ASSUME NEW r \in Req, Arrive(r), req'[i] # req[i]  PROVE req'[i].since <= now'
    <2>1. i = r  BY <1>3, OthersWait
    <2>2. req'[i].since \in {0, now}  BY <1>3, <2>1, ArrivesFresh DEF Fresh
    <2> QED  BY <1>0, <2>2
  <1>4. ASSUME NEW r \in Req, Proceed(r) \/ BreakOff(r), req'[i] # req[i]
        PROVE  req'[i].since <= now'
    <2>1. i = r  BY <1>4, OthersWait
    <2>2. \/ Finish(r)
          \/ \E s : Goto(r, s)
          \/ \E s : Read(r, req[r], s)
          \/ \E u : req' = [req EXCEPT ![r].step = "mint", ![r].snap = u]
          \/ req' = [req EXCEPT ![r].step = "mark", ![r].since = now]
      <3>1. CASE BreakOff(r)  BY <3>1 DEF BreakOff
      <3>2. CASE Proceed(r)
        BY <3>2 DEF Proceed, Register, LoginLookup, LoginRecord, IssueRefresh, RenewAccess,
                  RefreshCheck, RefreshLookup, LogoutAccess, LogoutRefresh, RevokeSessions,
                  MarkSessions, SendRead, SendVerificationEmail, VerifyRead, VerifyWrite, ForgotRead,
                  RequestPasswordReset, ResetRead, ResetWrite, ChangeRead, ChangeWrite,
                  SetPassword, Promote
      <3> QED  BY <1>4, <3>1, <3>2
    <2>3. req'[r].since \in {0, now, req[r].since}
      <3>1. CASE Finish(r)
        BY <1>0, <3>1 DEF Finish, Idle
      <3>2. CASE (\E s : Goto(r, s)) \/ (\E s : Read(r, req[r], s))
        BY <1>0, <3>2 DEF Goto, Read, Request
      <3>3. ASSUME NEW u, req' = [req EXCEPT ![r].step = "mint", ![r].snap = u]
            PROVE  req'[r].since = req[r].since
        <4>1. req'[r] = [req[r] EXCEPT !.step = "mint", !.snap = u]  BY <1>0, <3>3
        <4> QED  BY <1>0, <4>1 DEF Request
      <3>4. CASE req' = [req EXCEPT ![r].step = "mark", ![r].since = now]
        <4>1. req'[r] = [req[r] EXCEPT !.step = "mark", !.since = now]  BY <1>0, <3>4
        <4> QED  BY <1>0, <4>1 DEF Request
      <3> QED  BY <2>2, <3>1, <3>2, <3>3, <3>4
    <2> QED  BY <1>0, <1>1, <2>1, <2>3
  <1>5. UNCHANGED vars \/ Environment => UNCHANGED req
    BY DEF vars, avars, Environment, CreateByAdmin, BanUser, UnbanUser
  <1> QED  BY <1>2, <1>3, <1>4, <1>5 DEF Next

LEMMA PastInvariance == Spec => [](Typed /\ Past)
  <1>1. Init => Past
    <2>1. Idle.since = 0  BY DEF Idle
    <2> QED  BY <2>1 DEF Init, SessionsInit, Past
  <1>2. Typed /\ Past /\ [Next]_vars => Past'
    BY StepPast, SessionAssumption, AccountAssumption
  <1> QED  BY <1>1, <1>2, TypedInvariance, PTL DEF Spec

LEMMA StepBans ==
    ASSUME SessionAssumption, AccountAssumption, Typed, Past, BannedMintsNothing, [Next]_vars
    PROVE  BannedMintsNothing'
  <1> SUFFICES ASSUME NEW i \in Req, Minting(req'[i]), IsCurrentlyBanned(row[req[i].user])'
               PROVE  req'[i].since <= row'[req'[i].user].ban.at
    BY DEF BannedMintsNothing, Minting
  <1> DEFINE id == req[i].user
  <1>0. /\ Typed' /\ RowStep /\ SameRequest(i)
    BY StepTyped, StepRows, StepMints DEF Admitted
  <1>1. req'[i].step # "idle"  BY DEF Minting
  <1>2. id \in User /\ req'[i].user = id /\ req'[i].since = req[i].since
    BY <1>0, <1>1 DEF SameRequest, Typed, Busy
  <1>3. now \in Nat /\ now' \in Nat /\ now <= now' /\ row[id] \in Row /\ row'[id] \in Row
    BY <1>0, <1>2 DEF RowStep, Typed, TypeOK, SessionsTypeOK
  <1>4. row'[id].ban.on /\ (row'[id].ban.until = 0 \/ now' < row'[id].ban.until)
    BY <1>2 DEF IsCurrentlyBanned
  <1>5. CASE row'[id].ban.at = now
    BY <1>2, <1>5 DEF Past
  <1>6. CASE row'[id].ban = row[id].ban
    <2>1. IsCurrentlyBanned(row[id])
      BY <1>3, <1>4, <1>6 DEF IsCurrentlyBanned, Row
    <2>2. Minting(req[i])
      BY <2>1, StepMints DEF Admitted
    <2>3. req[i].since <= row[id].ban.at
      BY <2>1, <2>2 DEF BannedMintsNothing, Minting
    <2> QED  BY <1>2, <1>6, <2>3
  <1>7. row'[id].ban # NoBan  BY <1>4 DEF NoBan
  <1> QED  BY <1>0, <1>2, <1>5, <1>6, <1>7 DEF RowStep, BanStep

\* A ban holds against every request that comes after it, whatever the number of
\* requests under way and however their whole-row writes overlap with it: a login
\* or a refresh that mints for a banned user came in before the ban was set.
THEOREM BansHold == Spec => []BannedMintsNothing
  <1>1. Init => BannedMintsNothing
    <2>1. Idle.step = "idle"  BY DEF Idle
    <2> QED  BY <2>1 DEF Init, BannedMintsNothing
  <1>2. Typed /\ Past /\ BannedMintsNothing /\ [Next]_vars => BannedMintsNothing'
    BY StepBans, SessionAssumption, AccountAssumption
  <1> QED  BY <1>1, <1>2, PastInvariance, PTL DEF Spec

-----------------------------------------------------------------------------

\* Without a race, the stored password is the one last accepted.
StoredIsLastSet ==
    ~raced => \A id \in User : row[id].here => row[id].pw = lastSet[id].pw

LEMMA StepPasswords ==
    ASSUME SessionAssumption, AccountAssumption, Typed, Past, StoredIsLastSet,
           OldPasswordBuysNothing, [Next]_vars
    PROVE  StoredIsLastSet' /\ OldPasswordBuysNothing'
  <1>0. RowStep  BY StepRows
  <1>1. StoredIsLastSet'
    BY <1>0 DEF RowStep, PasswordStep, StoredIsLastSet
  <1>2. OldPasswordBuysNothing'
    <2> SUFFICES ASSUME ~raced', NEW i \in Req, Minting(req'[i]), req'[i].kind = "login"
                 PROVE  \/ req'[i].pw = lastSet'[req'[i].user].pw
                        \/ req'[i].since <= lastSet'[req'[i].user].at
      BY DEF OldPasswordBuysNothing, Minting
    <2> DEFINE id == req[i].user
    <2>1. ~raced /\ SameRequest(i) /\ Typed'
      BY <1>0, StepTyped, StepMints DEF RowStep, Admitted
    <2>2. id \in User
      <3>1. req'[i].step # "idle"  BY DEF Minting
      <3> QED  BY <2>1, <3>1 DEF Typed, Busy, SameRequest
    <2>3. CASE Admitted(i)
      <3>1. row[id].here /\ row[id].pw = req[i].pw /\ UNCHANGED lastSet
        BY <2>1, <2>3 DEF Admitted, SameRequest
      <3>2. row[id].pw = lastSet[id].pw  BY <2>1, <2>2, <3>1 DEF StoredIsLastSet
      <3> QED  BY <2>1, <3>1, <3>2 DEF SameRequest
    <2>4. CASE Minting(req[i])
      <3>1. req[i].pw = lastSet[id].pw \/ req[i].since <= lastSet[id].at
        BY <2>1, <2>4 DEF OldPasswordBuysNothing, Minting, SameRequest
      <3>2. CASE lastSet'[id] = lastSet[id]
        BY <2>1, <3>1, <3>2 DEF SameRequest
      <3>3. CASE lastSet'[id].at = now
        BY <2>1, <3>3 DEF SameRequest, Past
      <3> QED  BY <1>0, <2>2, <3>2, <3>3 DEF RowStep, PasswordStep
    <2> QED  BY <2>3, <2>4, StepMints
  <1> QED  BY <1>1, <1>2

\* As long as no whole-row write has undone another, a password that has been
\* replaced gets nobody in who asks after that, for every number of overlapping
\* resets, changes, logins, promotions and e-mail links.
THEOREM OldPasswordsAreOut == Spec => []OldPasswordBuysNothing
  <1>1. Init => StoredIsLastSet /\ OldPasswordBuysNothing
    <2>1. Idle.step = "idle" /\ ~NoRow.here  BY DEF Idle, NoRow
    <2> QED  BY <2>1 DEF Init, StoredIsLastSet, OldPasswordBuysNothing
  <1>2. /\ Typed /\ Past /\ StoredIsLastSet /\ OldPasswordBuysNothing /\ [Next]_vars
        => StoredIsLastSet' /\ OldPasswordBuysNothing'
    BY StepPasswords, SessionAssumption, AccountAssumption
  <1> QED  BY <1>1, <1>2, PastInvariance, PTL DEF Spec
-----------------------------------------------------------------------------
(* What requests have read *)

\* A request about to write has found the account, and in it the link it was given.
HasRead(q) ==
    /\ q.kind \in {"verify", "reset"} => q.link \in Link
    /\ q.step = "write" => /\ q.snap.here
                           /\ q.kind = "verify" => q.snap.vtok = q.link
                           /\ q.kind = "reset" => q.snap.rtok = q.link

Reads == \A r \in Req : HasRead(req[r])

LEMMA ArriveHasRead ==
    ASSUME SessionAssumption, AccountAssumption, Typed, NEW r \in Req, Arrive(r)
    PROVE  HasRead(req'[r])
  <1>1. ASSUME NEW q, Begin(r, q), HasRead(q)  PROVE HasRead(req'[r])
    BY <1>1 DEF Begin, Typed, TypeOK
  <1>2. \A j \in issued : j \in Jti /\ tok[j].user \in User
    BY DEF Typed, TypeOK, SessionsTypeOK, Token
  <1>3. ASSUME NEW kind \in Kind, NEW step \in Step, NEW u \in User
        PROVE  /\ Ask(kind, step, u) \in Request
               /\ Ask(kind, step, u).kind = kind /\ Ask(kind, step, u).step = step
    BY AskType
  <1>4. ASSUME NEW id \in User, NEW p \in Password,
               StartRegister(r, id, p) \/ StartLogin(r, id, p)
        PROVE  HasRead(req'[r])
    <2>2. /\ Ask("register", "insert", id) \in Request
          /\ Ask("register", "insert", id).kind = "register" /\ Ask("register", "insert", id).step = "insert"
          /\ Ask("login", "lookup", id) \in Request
          /\ Ask("login", "lookup", id).kind = "login" /\ Ask("login", "lookup", id).step = "lookup"
      BY <1>3 DEF Kind, Step
    <2>3. /\ HasRead([Ask("register", "insert", id) EXCEPT !.pw = p, !.role = NoRow.role])
          /\ HasRead([Ask("login", "lookup", id) EXCEPT !.pw = p, !.since = now])
      BY <2>2 DEF HasRead, Request
    <2> QED  BY <1>1, <1>4, <2>3 DEF StartRegister, StartLogin
  <1>5. ASSUME NEW j \in Jti, StartRefresh(r, j) \/ StartLogoutAll(r, j) \/ StartSend(r, j)
        PROVE  HasRead(req'[r])
    <2>1. tok[j].user \in User
      BY <1>2, <1>5 DEF StartRefresh, StartLogoutAll, StartSend, Accepted, ValidAs, Valid
    <2>2. /\ Ask("refresh", "check", tok[j].user) \in Request
          /\ Ask("refresh", "check", tok[j].user).kind = "refresh" /\ Ask("refresh", "check", tok[j].user).step = "check"
          /\ Ask("logoutall", "revoke", tok[j].user) \in Request
          /\ Ask("logoutall", "revoke", tok[j].user).kind = "logoutall" /\ Ask("logoutall", "revoke", tok[j].user).step = "revoke"
          /\ Ask("send", "read", tok[j].user) \in Request
          /\ Ask("send", "read", tok[j].user).kind = "send" /\ Ask("send", "read", tok[j].user).step = "read"
      BY <1>3, <2>1 DEF Kind, Step
    <2>3. /\ HasRead([Ask("refresh", "check", tok[j].user) EXCEPT !.jti = j, !.since = now])
          /\ HasRead(Ask("logoutall", "revoke", tok[j].user))
          /\ HasRead(Ask("send", "read", tok[j].user))
      BY <2>2 DEF HasRead, Request
    <2> QED  BY <1>1, <1>5, <2>3 DEF StartRefresh, StartLogoutAll, StartSend
  <1>6. ASSUME NEW j \in Jti, NEW k \in Jti \cup {NoJti}, StartLogout(r, j, k)
        PROVE  HasRead(req'[r])
    <2>1. tok[j].user \in User
      BY <1>2, <1>6 DEF StartLogout, Accepted, ValidAs, Valid
    <2>2. /\ Ask("logout", "deny", tok[j].user) \in Request
          /\ Ask("logout", "deny", tok[j].user).kind = "logout" /\ Ask("logout", "deny", tok[j].user).step = "deny"
      BY <1>3, <2>1 DEF Kind, Step
    <2>3. HasRead([Ask("logout", "deny", tok[j].user) EXCEPT !.jti = j, !.other = k])
      BY <2>2 DEF HasRead, Request
    <2> QED  BY <1>1, <1>6, <2>3 DEF StartLogout
  <1>7. ASSUME NEW l \in Link, NEW id \in User, NEW p \in Password,
               StartVerify(r, l, id) \/ StartReset(r, l, id, p)
        PROVE  HasRead(req'[r])
    <2>2. /\ Ask("verify", "read", id) \in Request
          /\ Ask("verify", "read", id).kind = "verify" /\ Ask("verify", "read", id).step = "read"
          /\ Ask("reset", "read", id) \in Request
          /\ Ask("reset", "read", id).kind = "reset" /\ Ask("reset", "read", id).step = "read"
      BY <1>3 DEF Kind, Step
    <2>3. /\ HasRead([Ask("verify", "read", id) EXCEPT !.link = l])
          /\ HasRead([Ask("reset", "read", id) EXCEPT !.link = l, !.pw = p])
      BY <2>2 DEF HasRead, Request
    <2> QED  BY <1>1, <1>7, <2>3 DEF StartVerify, StartReset
  <1>8. ASSUME NEW id \in User, StartForgot(r, id)
        PROVE  HasRead(req'[r])
    <2>2. /\ Ask("forgot", "read", id) \in Request
          /\ Ask("forgot", "read", id).kind = "forgot" /\ Ask("forgot", "read", id).step = "read"
      BY <1>3 DEF Kind, Step
    <2>3. HasRead(Ask("forgot", "read", id))
      BY <2>2 DEF HasRead, Request
    <2> QED  BY <1>1, <1>8, <2>3 DEF StartForgot
  <1>9. ASSUME NEW j \in Jti, NEW p \in Password, StartChange(r, j, p)
        PROVE  HasRead(req'[r])
    <2>1. tok[j].user \in User
      BY <1>2, <1>9 DEF StartChange, Accepted, ValidAs, Valid
    <2>2. /\ Ask("change", "read", tok[j].user) \in Request
          /\ Ask("change", "read", tok[j].user).kind = "change" /\ Ask("change", "read", tok[j].user).step = "read"
      BY <1>3, <2>1 DEF Kind, Step
    <2>3. HasRead([Ask("change", "read", tok[j].user) EXCEPT !.pw = p])
      BY <2>2 DEF HasRead, Request
    <2> QED  BY <1>1, <1>9, <2>3 DEF StartChange
  <1>10. ASSUME NEW id \in User, NEW role \in Role, StartPromote(r, id, role)
         PROVE  HasRead(req'[r])
    <2>1. /\ Ask("promote", "write", id) \in Request
          /\ Ask("promote", "write", id).kind = "promote"
      BY <1>3 DEF Kind, Step
    <2>2. row[id].here =>
            HasRead([Ask("promote", "write", id) EXCEPT !.role = role, !.snap = row[id]])
      BY <2>1 DEF HasRead, Request
    <2> QED  BY <1>1, <1>10, <2>2 DEF StartPromote
  <1>11. Password # {}  BY DEF AccountAssumption
  <1> QED
    BY <1>4, <1>5, <1>6, <1>7, <1>8, <1>9, <1>10, <1>11 DEF Arrive

LEMMA ProceedHasRead ==
    ASSUME SessionAssumption, AccountAssumption, Typed, Reads, NEW r \in Req, Proceed(r)
    PROVE  HasRead(req'[r])
  <1>0. req \in [Req -> Request] /\ req[r] \in Request /\ HasRead(req[r])
    BY DEF Typed, TypeOK, Reads
  <1>1. ASSUME Finish(r)  PROVE HasRead(req'[r])
    <2>1. req'[r] = Idle  BY <1>0, <1>1 DEF Finish
    <2> QED  BY <2>1 DEF Idle, HasRead
  <1>2. ASSUME NEW s \in Step, s # "write", Goto(r, s)  PROVE HasRead(req'[r])
    <2>1. req'[r] = [req[r] EXCEPT !.step = s]  BY <1>0, <1>2 DEF Goto
    <2> QED  BY <1>0, <1>2, <2>1 DEF HasRead, Request
  <1>3. ASSUME NEW s \in Step, Read(r, req[r], s), row[req[r].user].here,
               req[r].kind = "verify" => row[req[r].user].vtok = req[r].link,
               req[r].kind = "reset" => row[req[r].user].rtok = req[r].link
        PROVE  HasRead(req'[r])
    <2>1. req'[r] = [req[r] EXCEPT !.snap = row[req[r].user], !.step = s]
      BY <1>0, <1>3 DEF Read
    <2>2. /\ req'[r].snap = row[req[r].user] /\ req'[r].kind = req[r].kind
          /\ req'[r].link = req[r].link
      BY <1>0, <2>1 DEF Request
    <2> QED  BY <1>0, <1>3, <2>2 DEF HasRead
  <1>4. CASE Register(r)
    <2>1. ASSUME NEW u, req' = [req EXCEPT ![r].step = "mint", ![r].snap = u]
          PROVE  HasRead(req'[r])
      <3>1. req'[r] = [req[r] EXCEPT !.step = "mint", !.snap = u]  BY <1>0, <2>1
      <3>2. req[r].kind = "register"  BY <1>4 DEF Register, At
      <3> QED  BY <1>0, <3>1, <3>2 DEF HasRead, Request
    <2> QED  BY <1>1, <1>4, <2>1 DEF Register
  <1>5. CASE \/ LoginRecord(r) \/ IssueRefresh(r) \/ RenewAccess(r) \/ RefreshCheck(r)
             \/ LogoutAccess(r) \/ LogoutRefresh(r) \/ MarkSessions(r)
             \/ SendVerificationEmail(r) \/ VerifyWrite(r) \/ RequestPasswordReset(r)
             \/ ResetWrite(r) \/ ChangeWrite(r) \/ Promote(r)
    <2>1. Finish(r) \/ \E s \in {"mint", "renew", "lookup", "denyrefresh", "revoke"} : Goto(r, s)
      BY <1>5 DEF LoginRecord, IssueRefresh, RenewAccess, RefreshCheck, LogoutAccess,
                  LogoutRefresh, MarkSessions, SendVerificationEmail, VerifyWrite,
                  RequestPasswordReset, ResetWrite, ChangeWrite, SetPassword, Promote
    <2> QED  BY <1>1, <1>2, <2>1 DEF Step
  <1>6. CASE LoginLookup(r) \/ RefreshLookup(r) \/ SendRead(r) \/ ForgotRead(r)
    <2>1. \/ Finish(r)
          \/ row[req[r].user].here /\ \E s \in {"write", "renew"} : Read(r, req[r], s)
      BY <1>6 DEF LoginLookup, RefreshLookup, SendRead, ForgotRead
    <2>2. req[r].kind \in {"login", "refresh", "send", "forgot"}
      BY <1>6 DEF LoginLookup, RefreshLookup, SendRead, ForgotRead, At
    <2> QED  BY <1>1, <1>3, <2>1, <2>2 DEF Step
  <1>7. CASE VerifyRead(r)
    BY <1>1, <1>3, <1>7 DEF VerifyRead, At, Step
  <1>8. CASE ResetRead(r)
    BY <1>1, <1>3, <1>8 DEF ResetRead, At, Step
  <1>9. ASSUME NEW cur \in Password, ChangeRead(r, cur)  PROVE HasRead(req'[r])
    BY <1>1, <1>3, <1>9 DEF ChangeRead, At, Step
  <1>10. CASE RevokeSessions(r)
    <2>1. req'[r] = [req[r] EXCEPT !.step = "mark", !.since = now]
      BY <1>0, <1>10 DEF RevokeSessions
    <2> QED  BY <1>0, <2>1 DEF HasRead, Request
  <1> QED
    BY <1>4, <1>5, <1>6, <1>7, <1>8, <1>9, <1>10 DEF Proceed

LEMMA StepReads ==
    ASSUME SessionAssumption, AccountAssumption, Typed, Reads, [Next]_vars
    PROVE  Reads'
  <1> SUFFICES ASSUME NEW i \in Req  PROVE HasRead(req'[i])
    BY DEF Reads, HasRead
  <1>1. CASE req'[i] = req[i]
    BY <1>1 DEF Reads
  <1>2. ASSUME NEW r \in Req, Arrive(r) \/ Proceed(r) \/ BreakOff(r), req'[i] # req[i]
        PROVE  HasRead(req'[i])
    <2>1. i = r  BY <1>2, OthersWait
    <2>2. BreakOff(r) => HasRead(req'[r])
      BY DEF BreakOff, Finish, Idle, HasRead, Typed, TypeOK
    <2> QED  BY <1>2, <2>1, <2>2, ArriveHasRead, ProceedHasRead
  <1>3. UNCHANGED vars \/ Environment => UNCHANGED req
    BY DEF vars, avars, Environment, CreateByAdmin, BanUser, UnbanUser
  <1> QED  BY <1>1, <1>2, <1>3 DEF Next

-----------------------------------------------------------------------------
(* What one step does to the links of a row *)

\* A link is generated: `k` is stored where `o` was.
Sends(o, k) ==
    /\ links < MaxLink /\ k = links + 1 /\ links' = k
    /\ \E sent \in {"mailed", "lost"} : fate' = [Settle(o, "replaced") EXCEPT ![k] = sent]

\* A link ends: nothing is stored where `o` was.
Ends(o, k, how) ==
    /\ k = 0 /\ links' = links /\ fate' = Settle(o, how)

\* The row is written back as `u`; at most one link changes, as its fate does.
Writes(r, u) ==
    LET s == req[r].snap
        old == row[req[r].user]
    IN  /\ WriteBack(r, u) /\ u.here = s.here
        /\ \/ UNCHANGED <<links, fate>> /\ u.vtok = s.vtok /\ u.rtok = s.rtok
           \/ /\ u.rtok = s.rtok
              /\ \/ Sends(old.vtok, u.vtok)
                 \/ req[r].kind = "verify" /\ u.vtok = 0 /\ links' = links /\ fate' = Use(req[r].link)
           \/ /\ u.vtok = s.vtok
              /\ \/ Sends(old.rtok, u.rtok)
                 \/ Ends(old.rtok, u.rtok, "cancelled")
                 \/ req[r].kind = "reset" /\ u.rtok = 0 /\ links' = links /\ fate' = Use(req[r].link)

\* A new account, with neither ban nor links.
Opens(id, u) ==
    /\ Create(id, u) /\ u.ban = NoBan /\ u.vtok = 0 /\ u.rtok = 0
    /\ UNCHANGED <<links, fate, raced>>

NewUserIs(u) == u \in Row /\ u.ban = NoBan /\ u.vtok = 0 /\ u.rtok = 0

LEMMA NewUserFields ==
    ASSUME SessionAssumption, AccountAssumption, NEW p \in Password, NEW role \in Role
    PROVE  NewUserIs(NewUser(p, role)) /\ NewUserIs([NewUser(p, role) EXCEPT !.verified = TRUE])
  <1>1. NoRow \in Row /\ NoRow.ban = NoBan /\ NoRow.vtok = 0 /\ NoRow.rtok = 0
    BY NoRowType DEF NoRow
  <1> QED  BY <1>1 DEF NewUser, Row, NewUserIs

LEMMA ProceedWrites ==
    ASSUME SessionAssumption, AccountAssumption, Typed, NEW r \in Req, Proceed(r)
    PROVE  \/ UNCHANGED <<row, links, fate, raced>>
           \/ \E id \in User, u \in Row : Opens(id, u)
           \/ req[r].step = "write" /\ \E u \in Row : Writes(r, u)
  <1> DEFINE Good == \/ UNCHANGED <<row, links, fate, raced>>
                     \/ \E id \in User, u \in Row : Opens(id, u)
                     \/ req[r].step = "write" /\ \E u \in Row : Writes(r, u)
             s == req[r].snap
  <1>0. req[r].step # "idle" => /\ s \in Row /\ req[r].pw \in Password /\ req[r].role \in Role
                                /\ req[r].user \in User
    BY RequestFields DEF Typed
  <1>1. CASE \/ LoginLookup(r) \/ IssueRefresh(r) \/ RenewAccess(r) \/ RefreshCheck(r)
             \/ RefreshLookup(r) \/ LogoutAccess(r) \/ LogoutRefresh(r) \/ RevokeSessions(r)
             \/ MarkSessions(r) \/ SendRead(r) \/ VerifyRead(r) \/ ForgotRead(r) \/ ResetRead(r)
             \/ \E cur \in Password : ChangeRead(r, cur)
    BY <1>1 DEF LoginLookup, IssueRefresh, RenewAccess, RefreshCheck, RefreshLookup,
                LogoutAccess, LogoutRefresh, RevokeSessions, MarkSessions, SendRead,
                VerifyRead, ForgotRead, ResetRead, ChangeRead
  <1>2. CASE Register(r)
    <2>1. req[r].step # "idle"  BY <1>2 DEF Register, At
    <2> DEFINE u == NewUser(req[r].pw, req[r].role)
    <2>2. NewUserIs(u)  BY <1>0, <2>1, NewUserFields
    <2> HIDE DEF u
    <2>3. UNCHANGED <<links, fate, raced>>  BY <1>2 DEF Register
    <2>4. Create(req[r].user, u) \/ UNCHANGED row  BY <1>2 DEF Register, u
    <2>5. CASE Create(req[r].user, u)
      <3>1. Opens(req[r].user, u)  BY <2>2, <2>3, <2>5 DEF Opens, NewUserIs
      <3> QED  BY <1>0, <2>1, <2>2, <3>1 DEF NewUserIs
    <2> QED  BY <2>3, <2>4, <2>5
  <1>3. CASE LoginRecord(r)
    <2>1. req[r].step = "write" /\ UNCHANGED <<links, fate>>  BY <1>3 DEF LoginRecord, At
    <2>2. CASE WriteBack(r, s)
      <3>1. Writes(r, s)  BY <2>1, <2>2 DEF Writes
      <3> QED  BY <1>0, <2>1, <3>1
    <2>3. CASE UNCHANGED <<row, raced>>  BY <2>1, <2>3
    <2> QED  BY <1>3, <2>2, <2>3 DEF LoginRecord
  <1>4. CASE SendVerificationEmail(r)
    <2> DEFINE u == [s EXCEPT !.vtok = links + 1]
    <2>1. req[r].step = "write" /\ links < MaxLink /\ links' = links + 1
      BY <1>4 DEF SendVerificationEmail, At
    <2>2. links + 1 \in 0..MaxLink  BY <2>1 DEF Typed, TypeOK, AccountAssumption
    <2>3. u \in Row /\ u.here = s.here /\ u.rtok = s.rtok /\ u.vtok = links + 1
      BY <1>0, <2>1, <2>2 DEF Row
    <2>4. WriteBack(r, u)  BY <1>4 DEF SendVerificationEmail
    <2>5. Sends(row[req[r].user].vtok, links + 1)
      BY <1>4, <2>1 DEF SendVerificationEmail, Sends
    <2> HIDE DEF u
    <2>6. Writes(r, u)  BY <2>3, <2>4, <2>5 DEF Writes
    <2> QED  BY <2>1, <2>3, <2>6
  <1>5. CASE RequestPasswordReset(r)
    <2> DEFINE u == [s EXCEPT !.rtok = links + 1, !.rexp = now + ResetTTL]
    <2>1. req[r].step = "write" /\ links < MaxLink /\ links' = links + 1
      BY <1>5 DEF RequestPasswordReset, At
    <2>2. links + 1 \in 0..MaxLink /\ now + ResetTTL \in Nat
      BY <2>1 DEF Typed, TypeOK, SessionsTypeOK, AccountAssumption
    <2>3. u \in Row /\ u.here = s.here /\ u.vtok = s.vtok /\ u.rtok = links + 1
      BY <1>0, <2>1, <2>2 DEF Row
    <2>4. WriteBack(r, u)  BY <1>5 DEF RequestPasswordReset
    <2>5. Sends(row[req[r].user].rtok, links + 1)
      BY <1>5, <2>1 DEF RequestPasswordReset, Sends
    <2> HIDE DEF u
    <2>6. Writes(r, u)  BY <2>3, <2>4, <2>5 DEF Writes
    <2> QED  BY <2>1, <2>3, <2>6
  <1>6. CASE VerifyWrite(r)
    <2> DEFINE u == VerifyEmail(s)
    <2>1. req[r].step = "write" /\ req[r].kind = "verify"  BY <1>6 DEF VerifyWrite, At
    <2>2. u.here = s.here /\ u.rtok = s.rtok /\ u.vtok = 0
      BY <1>0, <2>1 DEF VerifyEmail, Row
    <2>3. u \in Row  BY <1>0, <2>1, RowUpdates
    <2>4. WriteBack(r, u) /\ links' = links /\ fate' = Use(req[r].link)
      BY <1>6 DEF VerifyWrite
    <2> HIDE DEF u
    <2>5. Writes(r, u)  BY <2>1, <2>2, <2>4 DEF Writes
    <2> QED  BY <2>1, <2>3, <2>5
  <1>7. CASE ResetWrite(r) \/ ChangeWrite(r)
    <2> DEFINE v == [s EXCEPT !.pw = req[r].pw]
               u == ClearPasswordResetToken(v)
    <2>1. req[r].step = "write" /\ links' = links  BY <1>7 DEF ResetWrite, ChangeWrite, At
    <2>2. v \in Row /\ v.here = s.here /\ v.vtok = s.vtok
      BY <1>0, <2>1 DEF Row
    <2>3. WriteBack(r, u)  BY <1>7 DEF ResetWrite, ChangeWrite, SetPassword
    <2> HIDE DEF v
    <2>4. u.here = s.here /\ u.vtok = s.vtok /\ u.rtok = 0
      BY <2>2 DEF ClearPasswordResetToken, Row
    <2>5. u \in Row  BY <1>0, <2>1, <2>2, RowUpdates
    <2>6. \/ req[r].kind = "reset" /\ fate' = Use(req[r].link)
          \/ fate' = Settle(row[req[r].user].rtok, "cancelled")
      BY <1>7 DEF ResetWrite, ChangeWrite, At
    <2> HIDE DEF u
    <2>7. Writes(r, u)  BY <2>1, <2>3, <2>4, <2>6 DEF Writes, Ends
    <2> QED  BY <2>1, <2>5, <2>7
  <1>8. CASE Promote(r)
    <2> DEFINE u == [s EXCEPT !.role = req[r].role]
    <2>1. req[r].step = "write" /\ UNCHANGED <<links, fate>> /\ WriteBack(r, u)
      BY <1>8 DEF Promote, At
    <2>2. u \in Row /\ u.here = s.here /\ u.vtok = s.vtok /\ u.rtok = s.rtok
      BY <1>0, <2>1 DEF Row
    <2> HIDE DEF u
    <2>3. Writes(r, u)  BY <2>1, <2>2 DEF Writes
    <2> QED  BY <2>1, <2>2, <2>3
  <1> QED
    BY <1>1, <1>2, <1>3, <1>4, <1>5, <1>6, <1>7, <1>8 DEF Proceed

\* A ban is set or lifted, and nothing else.
Moderates(id, b) ==
    /\ row[id].here /\ row' = [row EXCEPT ![id].ban = b]
    /\ UNCHANGED <<req, links, fate, raced>>

LEMMA StepWrites ==
    ASSUME SessionAssumption, AccountAssumption, Typed, [Next]_vars
    PROVE  \/ UNCHANGED <<row, links, fate, raced>>
           \/ \E id \in User, u \in Row : Opens(id, u)
           \/ \E r \in Req, u \in Row : req[r].step = "write" /\ Writes(r, u)
           \/ \E id \in User : \E b : Moderates(id, b)
  <1>1. CASE UNCHANGED vars
    BY <1>1 DEF vars, avars
  <1>2. ASSUME NEW r \in Req, Arrive(r) \/ BreakOff(r)
        PROVE  UNCHANGED <<row, links, fate, raced>>
    BY <1>2, ArriveLeaves DEF BreakOff
  <1>3. ASSUME NEW id \in User, NEW p \in Password, NEW role \in Role, CreateByAdmin(id, p, role)
        PROVE  \E u \in Row : Opens(id, u)
    <2> DEFINE u == [NewUser(p, role) EXCEPT !.verified = TRUE]
    <2>1. NewUserIs(u)  BY NewUserFields
    <2>2. Create(id, u) /\ UNCHANGED <<links, fate, raced>>  BY <1>3 DEF CreateByAdmin
    <2> HIDE DEF u
    <2> QED  BY <2>1, <2>2 DEF Opens, NewUserIs
  <1>4. ASSUME NEW id \in User, UnbanUser(id) \/ \E until : BanUser(id, until)
        PROVE  \E b : Moderates(id, b)
    BY <1>4 DEF UnbanUser, BanUser, Moderates
  <1>5. (Tick \/ Outage) /\ UNCHANGED avars => UNCHANGED <<row, links, fate, raced>>
    BY DEF avars
  <1> QED
    BY <1>1, <1>2, <1>3, <1>4, <1>5, ProceedWrites DEF Next, Environment

-----------------------------------------------------------------------------
(* Bans *)

\* Only an account can be banned.
Vacant == \A id \in User : ~row[id].here => row[id].ban = NoBan

\* A ban changes by itself or not at all, and only where there is an account.
LEMMA StepVacant ==
    ASSUME SessionAssumption, AccountAssumption, Typed, Reads, Vacant, [Next]_vars
    PROVE  /\ Vacant'
           /\ \A id \in User : row'[id].ban # row[id].ban =>
                 Columns(row'[id]) = Columns(row[id]) /\ UNCHANGED req
  <1> DEFINE Good == /\ Vacant'
                     /\ \A id \in User : row'[id].ban # row[id].ban =>
                           Columns(row'[id]) = Columns(row[id]) /\ UNCHANGED req
  <1>0. row \in [User -> Row]  BY DEF Typed, TypeOK
  <1>1. CASE UNCHANGED row
    BY <1>1 DEF Vacant
  <1>2. ASSUME NEW id \in User, NEW u \in Row, Opens(id, u)  PROVE Good
    <2>1. row' = [row EXCEPT ![id] = u] /\ u.ban = NoBan /\ ~row[id].here
      BY <1>2 DEF Opens, Create
    <2>2. row[id].ban = NoBan  BY <2>1 DEF Vacant
    <2>3. \A i \in User : row'[i].ban = row[i].ban /\ (row'[i] = row[i] \/ row'[i].ban = NoBan)
      BY <1>0, <2>1, <2>2
    <2> QED  BY <2>3 DEF Vacant
  <1>3. ASSUME NEW r \in Req, NEW u \in Row, req[r].step = "write", Writes(r, u)  PROVE Good
    <2>1. HasRead(req[r]) /\ WriteBack(r, u) /\ u.here
      BY <1>3 DEF Reads, HasRead, Writes
    <2>2. /\ \A id \in User : row'[id].ban = row[id].ban
          /\ \A id \in User : id # req[r].user => row'[id] = row[id]
          /\ row'[req[r].user].here
      BY <1>3, <2>1, WriteBackKeeps
    <2> QED  BY <2>2 DEF Vacant
  <1>4. ASSUME NEW id \in User, NEW b, Moderates(id, b)  PROVE Good
    <2>1. row'[id] = [row[id] EXCEPT !.ban = b] /\ row[id].here /\ UNCHANGED req
      BY <1>0, <1>4 DEF Moderates
    <2>2. \A i \in User : i # id => row'[i] = row[i]
      BY <1>0, <1>4 DEF Moderates
    <2>3. row'[id].here /\ Columns(row'[id]) = Columns(row[id])
      BY <1>0, <2>1 DEF Row, Columns
    <2> QED  BY <2>1, <2>2, <2>3 DEF Vacant
  <1> QED  BY <1>1, <1>2, <1>3, <1>4, StepWrites

LEMMA ReadsInvariance == Spec => [](Typed /\ Reads /\ Vacant)
  <1>1. Init => Reads /\ Vacant
    <2>1. HasRead(Idle) /\ NoRow.ban = NoBan  BY DEF HasRead, Idle, NoRow
    <2> QED  BY <2>1 DEF Init, Reads, Vacant
  <1>2. Typed /\ Reads /\ Vacant /\ [Next]_vars => Reads' /\ Vacant'
    BY StepReads, StepVacant, SessionAssumption, AccountAssumption
  <1> QED  BY <1>1, <1>2, TypedInvariance, PTL DEF Spec

\* No write of a whole row, by any of the flows that do so and however old the row it
\* has read, lifts, restores or invents a ban: it takes a moderator, who changes
\* nothing but the ban.
THEOREM BansAreModerators == Spec => BanOnlyByModerators
  <1>1. Typed /\ Reads /\ Vacant /\ [Next]_vars =>
          [\A id \in User : row'[id].ban # row[id].ban =>
              Columns(row'[id]) = Columns(row[id]) /\ UNCHANGED req]_vars
    BY StepVacant, SessionAssumption, AccountAssumption
  <1> QED  BY <1>1, ReadsInvariance, PTL DEF Spec, BanOnlyByModerators

-----------------------------------------------------------------------------
(* Revoked refresh tokens *)

LEMMA ArriveStarts ==
    ASSUME NEW r \in Req, Arrive(r)
    PROVE  req[r] = Idle
  <1>1. ASSUME NEW q, Begin(r, q)  PROVE req[r] = Idle
    BY <1>1 DEF Begin
  <1>2. ASSUME NEW id \in User, NEW p \in Password, StartRegister(r, id, p) \/ StartLogin(r, id, p)
        PROVE  req[r] = Idle
    BY <1>1, <1>2 DEF StartRegister, StartLogin
  <1>3. ASSUME NEW j \in Jti, StartRefresh(r, j) \/ StartLogoutAll(r, j) \/ StartSend(r, j)
        PROVE  req[r] = Idle
    BY <1>1, <1>3 DEF StartRefresh, StartLogoutAll, StartSend
  <1>4. ASSUME NEW j \in Jti, NEW k \in Jti \cup {NoJti}, StartLogout(r, j, k)
        PROVE  req[r] = Idle
    BY <1>1, <1>4 DEF StartLogout
  <1>5. ASSUME NEW l \in Link, NEW id \in User, StartVerify(r, l, id)
        PROVE  req[r] = Idle
    BY <1>1, <1>5 DEF StartVerify
  <1>6. ASSUME NEW l \in Link, NEW id \in User, NEW p \in Password, StartReset(r, l, id, p)
        PROVE  req[r] = Idle
    BY <1>1, <1>6 DEF StartReset
  <1>7. ASSUME NEW id \in User, StartForgot(r, id)
        PROVE  req[r] = Idle
    BY <1>1, <1>7 DEF StartForgot
  <1>8. ASSUME NEW j \in Jti, NEW p \in Password, StartChange(r, j, p)
        PROVE  req[r] = Idle
    BY <1>1, <1>8 DEF StartChange
  <1>9. ASSUME NEW id \in User, NEW role \in Role, StartPromote(r, id, role)
        PROVE  req[r] = Idle
    BY <1>1, <1>9 DEF StartPromote
  <1> QED
    BY <1>2, <1>3, <1>4, <1>5, <1>6, <1>7, <1>8, <1>9 DEF Arrive

\* The check is the only way on, and it asks Redis.
LEMMA CheckAsks ==
    ASSUME Typed, NEW i \in Req, At(i, "refresh", "check"), [Next]_vars,
           req'[i].step = "lookup"
    PROVE  storeUp /\ ~IsRevoked(req[i].jti)
  <1>1. req'[i] # req[i] /\ req[i] # Idle /\ req'[i] # Idle
    BY DEF At, Idle
  <1>2. ~(UNCHANGED vars \/ Environment)
    BY <1>1 DEF vars, avars, Environment, CreateByAdmin, BanUser, UnbanUser
  <1>3. PICK r \in Req : Arrive(r) \/ Proceed(r) \/ BreakOff(r)
    BY <1>2 DEF Next
  <1>4. r = i
    BY <1>1, <1>3, OthersWait
  <1>5. ~Finish(i)
    BY <1>1 DEF Finish, Typed, TypeOK
  <1>6. ~Arrive(i)
    BY <1>1, ArriveStarts
  <1>7. Proceed(i)
    BY <1>3, <1>4, <1>5, <1>6 DEF BreakOff
  <1>8. RefreshCheck(i)
    BY <1>7 DEF Proceed, At, Register, LoginLookup, LoginRecord, IssueRefresh, RenewAccess,
                RefreshLookup, LogoutAccess, LogoutRefresh, RevokeSessions, MarkSessions, SendRead,
                SendVerificationEmail, VerifyRead, VerifyWrite, ForgotRead,
                RequestPasswordReset, ResetRead, ResetWrite, ChangeRead, ChangeWrite, Promote
  <1> QED  BY <1>5, <1>8 DEF RefreshCheck

\* The requests use the denylist of Sessions as it is meant to be used: every step of
\* theirs is one of its operations, with a cutoff that lies in the past.
LEMMA RequestsFollowSessions == Spec => SessionsSpec
  <1>1. Init => SessionsInit  BY DEF Init
  <1>2. Typed /\ Past /\ [Next]_vars => [SessionsNext]_svars
    BY StepTyped, SessionAssumption, AccountAssumption
  <1> QED  BY <1>1, <1>2, PastInvariance, PTL DEF Spec, SessionsSpec

\* So what any of these requests revoked stays useless, however they overlap and break
\* off: an access token always, a refresh token logged out by itself always, one that
\* a logout-all or a new password revoked as long as the marker of its user lives.
\* Excepted are the tokens that a request whose SET came late has uncovered.
THEOREM LogoutsHold == Spec => []RevokedStayUseless
  BY RequestsFollowSessions, RevocationHolds, PTL

\* A refresh whose token was revoked before its check, by a logout, a logout-all or a new
\* password, gets no further, however these overlap: unless the token has expired by
\* then, or is one of those that LogoutsHold excepts.
THEOREM RevokedTokensBuyNothing == Spec => RevokedBuysNothing
  <1>1. Typed /\ RevokedStayUseless /\ [Next]_vars =>
          [\A r \in Req : At(r, "refresh", "check") /\ req'[r].step = "lookup" =>
              LET j == req[r].jti
              IN  j \in dead \ revived => Forgotten(j) \/ ~Valid(j)]_vars
    <2> SUFFICES ASSUME Typed, RevokedStayUseless, [Next]_vars, NEW r \in Req,
                        At(r, "refresh", "check"), req'[r].step = "lookup",
                        req[r].jti \in dead \ revived, ~Forgotten(req[r].jti),
                        Valid(req[r].jti)
                 PROVE  FALSE
      OBVIOUS
    <2> DEFINE j == req[r].jti
    <2>1. storeUp /\ ~IsRevoked(j)  BY CheckAsks
    <2>2. tok[j].type \in TokenType
      BY DEF Typed, TypeOK, SessionsTypeOK, Valid, Token
    <2>3. ValidAs(j, "access") \/ ValidAs(j, "refresh")
      BY <2>2 DEF ValidAs, TokenType
    <2> QED  BY <2>1, <2>3 DEF RevokedStayUseless, Useless, Accepted, Unrevoked
  <1> QED  BY <1>1, TypedInvariance, LogoutsHold, PTL DEF Spec, RevokedBuysNothing

-----------------------------------------------------------------------------
(* Links *)

Stores(u, l) == l # 0 /\ (u.vtok = l \/ u.rtok = l)

\* The links in the rows were generated, are live, and each is stored once.
Sound(rows, fates, n) ==
    /\ \A l \in Link : fates[l] # "reused"
    /\ \A id \in User, l \in Link : Stores(rows[id], l) => l <= n /\ fates[l] \in {"mailed", "lost"}
    /\ \A id \in User : rows[id].vtok # 0 => rows[id].vtok # rows[id].rtok
    /\ \A id \in User, i \in User, l \in Link :
          Stores(rows[id], l) /\ Stores(rows[i], l) => id = i

LinksSound == ~raced => Sound(row, fate, links)

SameLinks(u, v) == u.vtok = v.vtok /\ u.rtok = v.rtok

LEMMA SoundStays ==
    ASSUME NEW rows, NEW rows2, NEW fates, NEW n, Sound(rows, fates, n),
           \A id \in User : SameLinks(rows2[id], rows[id])
    PROVE  Sound(rows2, fates, n)
  BY DEF Sound, SameLinks, Stores

\* In the row of `id`, `k` is stored where `o` was: nothing, or the next link.
Replaces(rows, rows2, fates, fates2, n, m, id, o, k) ==
    /\ \/ k = 0 /\ m = n
       \/ k = n + 1 /\ m = n + 1 /\ fates2[k] \in {"mailed", "lost"}
    /\ \A l \in Link : l # o /\ l # k => fates2[l] = fates[l]
    /\ o # 0 => fates2[o] # "reused"
    /\ \A i \in User : i # id => SameLinks(rows2[i], rows[i])
    /\ \/ rows[id].vtok = o /\ rows2[id].vtok = k /\ rows2[id].rtok = rows[id].rtok
       \/ rows[id].rtok = o /\ rows2[id].rtok = k /\ rows2[id].vtok = rows[id].vtok

LEMMA ReplacedIsSound ==
    ASSUME AccountAssumption, NEW rows, NEW rows2, NEW fates, NEW fates2,
           NEW n \in Nat, NEW m \in Nat, NEW id \in User,
           NEW o \in 0..MaxLink, NEW k \in 0..MaxLink,
           Sound(rows, fates, n), Replaces(rows, rows2, fates, fates2, n, m, id, o, k)
    PROVE  Sound(rows2, fates2, m)
  <1> USE DEF Replaces
  <1>0. \A l \in Link : l \in Nat /\ l # 0
    BY DEF Link, AccountAssumption
  <1>1. \A i \in User, l \in Link : Stores(rows2[i], l) =>
            \/ l = k /\ i = id
            \/ l # k /\ l # o /\ Stores(rows[i], l)
    <2> SUFFICES ASSUME NEW i \in User, NEW l \in Link, Stores(rows2[i], l)
                 PROVE  \/ l = k /\ i = id
                        \/ l # k /\ l # o /\ Stores(rows[i], l)
      OBVIOUS
    <2>1. \A j \in User : Stores(rows[j], l) => l <= n /\ l # n + 1 /\ (Stores(rows[id], l) => j = id)
      BY <1>0 DEF Sound
    <2>2. l = o => Stores(rows[id], l)
      BY <1>0 DEF Stores
    <2>3. CASE i # id
      <3>1. Stores(rows[i], l)  BY <2>3 DEF Stores, SameLinks
      <3> QED  BY <1>0, <2>1, <2>2, <2>3, <3>1
    <2>4. CASE i = id
      <3>1. CASE l = k
        BY <2>4, <3>1
      <3>2. CASE l # k
        <4>1. Stores(rows[id], l)
          BY <2>4, <3>2 DEF Stores
        <4>2. rows[id].vtok # 0 => rows[id].vtok # rows[id].rtok
          BY DEF Sound
        <4>3. l # o
          BY <1>0, <2>4, <3>2, <4>2 DEF Stores
        <4> QED  BY <2>4, <3>2, <4>1, <4>3
      <3> QED  BY <3>1, <3>2
    <2> QED  BY <2>3, <2>4
  <1>2. \A l \in Link : fates2[l] # "reused"
    BY <1>0 DEF Sound
  <1>3. \A i \in User, l \in Link : Stores(rows2[i], l) => l <= m /\ fates2[l] \in {"mailed", "lost"}
    <2> SUFFICES ASSUME NEW i \in User, NEW l \in Link, Stores(rows2[i], l)
                 PROVE  l <= m /\ fates2[l] \in {"mailed", "lost"}
      OBVIOUS
    <2>1. CASE l = k
      BY <1>0, <2>1
    <2>2. CASE l # k
      <3>1. l # o /\ Stores(rows[i], l)  BY <1>1, <2>2
      <3>2. l <= n /\ fates[l] \in {"mailed", "lost"}  BY <3>1 DEF Sound
      <3> QED  BY <1>0, <2>2, <3>1, <3>2
    <2> QED  BY <2>1, <2>2
  <1>4. \A i \in User : rows2[i].vtok # 0 => rows2[i].vtok # rows2[i].rtok
    <2> SUFFICES ASSUME NEW i \in User, rows2[i].vtok # 0  PROVE rows2[i].vtok # rows2[i].rtok
      OBVIOUS
    <2>1. rows[i].vtok # 0 => rows[i].vtok # rows[i].rtok
      BY DEF Sound
    <2>2. CASE i # id
      BY <2>1, <2>2 DEF SameLinks
    <2>3. CASE i = id /\ k = 0
      BY <2>1, <2>3
    <2>4. CASE i = id /\ k = n + 1
      <3>1. k \in Link  BY <2>4 DEF Link
      <3>2. ~Stores(rows[id], k)
        BY <2>4, <3>1 DEF Sound
      <3> QED  BY <2>4, <3>1, <3>2, <1>0 DEF Stores
    <2> QED  BY <2>2, <2>3, <2>4
  <1>5. \A i \in User, j \in User, l \in Link :
            Stores(rows2[i], l) /\ Stores(rows2[j], l) => i = j
    BY <1>1 DEF Sound
  <1> QED  BY <1>2, <1>3, <1>4, <1>5 DEF Sound

LEMMA SettleFates ==
    ASSUME AccountAssumption, Typed, NEW o \in 0..MaxLink, NEW how
    PROVE  Settle(o, how) = [l \in Link |-> IF l = o THEN how ELSE fate[l]]
  <1>1. fate \in [Link -> Fate]  BY DEF Typed, TypeOK
  <1>2. o = 0 => o \notin Link  BY DEF Link, AccountAssumption
  <1> QED  BY <1>1, <1>2 DEF Settle

LEMMA WriteLinks ==
    ASSUME SessionAssumption, AccountAssumption, Typed, Typed', Reads, LinksSound,
           NEW r \in Req, NEW u \in Row, req[r].step = "write", Writes(r, u)
    PROVE  LinksSound'
  <1> SUFFICES ASSUME ~raced'  PROVE Sound(row', fate', links')
    BY DEF LinksSound
  <1> DEFINE id == req[r].user
             s == req[r].snap
             old == row[id]
  <1>0. /\ id \in User /\ s \in Row /\ old \in Row
        /\ row \in [User -> Row] /\ row' \in [User -> Row]
        /\ links \in Nat /\ links \in 0..MaxLink /\ links' \in Nat
        /\ old.vtok \in 0..MaxLink /\ old.rtok \in 0..MaxLink
        /\ u.vtok \in 0..MaxLink /\ u.rtok \in 0..MaxLink
    BY RequestFields DEF Typed, TypeOK, Row
  <1>1. row' = [row EXCEPT ![id] = [u EXCEPT !.ban = old.ban]]
    BY DEF Writes, WriteBack, Update
  <1>2. /\ row'[id].vtok = u.vtok /\ row'[id].rtok = u.rtok
        /\ \A i \in User : i # id => SameLinks(row'[i], row[i])
    <2>1. row'[id] = [u EXCEPT !.ban = old.ban]  BY <1>0, <1>1
    <2>2. \A i \in User : i # id => row'[i] = row[i]  BY <1>0, <1>1
    <2> QED  BY <2>1, <2>2 DEF Row, SameLinks
  <1>3. ~raced /\ old.vtok = s.vtok /\ old.rtok = s.rtok
    <2>1. ~raced /\ Columns(s) = Columns(old)
      BY DEF Writes, WriteBack
    <2>2. ASSUME NEW v \in Row  PROVE Columns(v).vtok = v.vtok /\ Columns(v).rtok = v.rtok
      BY DEF Columns, Row
    <2> QED  BY <1>0, <2>1, <2>2
  <1>4. Sound(row, fate, links)
    BY <1>3 DEF LinksSound
  <1>5. HasRead(req[r])
    BY DEF Reads
  <1> HIDE DEF id, s, old
  <1>6. ASSUME NEW o \in 0..MaxLink, NEW k \in 0..MaxLink,
               Sends(o, k) \/ \E how : how # "reused" /\ Ends(o, k, how),
               \/ old.vtok = o /\ u.vtok = k /\ u.rtok = old.rtok
               \/ old.rtok = o /\ u.rtok = k /\ u.vtok = old.vtok
        PROVE  Sound(row', fate', links')
    <2>1. /\ \/ k = 0 /\ links' = links
             \/ k = links + 1 /\ links' = links + 1 /\ fate'[k] \in {"mailed", "lost"}
          /\ \A l \in Link : l # o /\ l # k => fate'[l] = fate[l]
          /\ o # 0 => fate'[o] # "reused"
      <3>1. CASE Sends(o, k)
        <4>1. k \in Link  BY <1>0, <3>1 DEF Sends, Link
        <4>2. PICK sent \in {"mailed", "lost"} : fate' = [Settle(o, "replaced") EXCEPT ![k] = sent]
          BY <3>1 DEF Sends
        <4>3. fate' = [[l \in Link |-> IF l = o THEN "replaced" ELSE fate[l]] EXCEPT ![k] = sent]
          BY <4>2, SettleFates
        <4>4. \A l \in Link : fate'[l] = IF l = k THEN sent ELSE IF l = o THEN "replaced" ELSE fate[l]
          BY <4>1, <4>3
        <4>5. o # 0 => o \in Link  BY DEF Link, AccountAssumption
        <4> QED  BY <3>1, <4>1, <4>2, <4>4, <4>5 DEF Sends
      <3>2. ASSUME NEW how, how # "reused", Ends(o, k, how)
            PROVE  /\ k = 0 /\ links' = links
                   /\ \A l \in Link : l # o /\ l # k => fate'[l] = fate[l]
                   /\ o # 0 => fate'[o] # "reused"
        <4>1. fate' = [l \in Link |-> IF l = o THEN how ELSE fate[l]]
          BY <3>2, SettleFates DEF Ends
        <4>2. o # 0 => o \in Link  BY DEF Link, AccountAssumption
        <4> QED  BY <3>2, <4>1, <4>2 DEF Ends
      <3> QED  BY <1>6, <3>1, <3>2
    <2>2. Replaces(row, row', fate, fate', links, links', id, o, k)
      BY <1>2, <1>6, <2>1 DEF Replaces, old
    <2> QED  BY <1>0, <1>4, <2>2, ReplacedIsSound
  <1>7. ASSUME fate' = Use(req[r].link), links' = links, req[r].link \in Link,
               \/ s.vtok = req[r].link /\ u.vtok = 0 /\ u.rtok = s.rtok
               \/ s.rtok = req[r].link /\ u.rtok = 0 /\ u.vtok = s.vtok
        PROVE  Sound(row', fate', links')
    <2> DEFINE l == req[r].link
    <2>0. l # 0 /\ l \in 0..MaxLink /\ 0 \in 0..MaxLink
      BY <1>7 DEF Link, AccountAssumption
    <2>1. Stores(row[id], l)
      BY <1>3, <1>7, <2>0 DEF Stores, old
    <2>2. fate[l] # "used"
      BY <1>0, <1>4, <1>7, <2>1 DEF Sound
    <2>3. Ends(l, 0, "used")
      BY <1>7, <2>2 DEF Ends, Use
    <2> QED  BY <1>3, <1>6, <1>7, <2>0, <2>3
  <1>8. CASE UNCHANGED <<links, fate>> /\ u.vtok = s.vtok /\ u.rtok = s.rtok
    <2>1. \A i \in User : SameLinks(row'[i], row[i])
      BY <1>2, <1>3, <1>8 DEF SameLinks, old
    <2> QED  BY <1>4, <1>8, <2>1, SoundStays
  <1>9. CASE Sends(old.vtok, u.vtok) /\ u.rtok = s.rtok
    BY <1>0, <1>3, <1>6, <1>9
  <1>10. CASE (Sends(old.rtok, u.rtok) \/ Ends(old.rtok, u.rtok, "cancelled")) /\ u.vtok = s.vtok
    BY <1>0, <1>3, <1>6, <1>10
  <1>11. CASE /\ req[r].kind = "verify" /\ u.vtok = 0 /\ u.rtok = s.rtok
              /\ links' = links /\ fate' = Use(req[r].link)
    BY <1>5, <1>7, <1>11 DEF HasRead, s
  <1>12. CASE /\ req[r].kind = "reset" /\ u.rtok = 0 /\ u.vtok = s.vtok
              /\ links' = links /\ fate' = Use(req[r].link)
    BY <1>5, <1>7, <1>12 DEF HasRead, s
  <1> QED
    BY <1>8, <1>9, <1>10, <1>11, <1>12 DEF Writes, s, old, id

LEMMA StepLinks ==
    ASSUME SessionAssumption, AccountAssumption, Typed, Reads, LinksSound, [Next]_vars
    PROVE  LinksSound'
  <1>0. Typed' /\ row \in [User -> Row]  BY StepTyped DEF Typed, TypeOK
  <1>1. CASE UNCHANGED <<row, links, fate, raced>>
    BY <1>1 DEF LinksSound
  <1>2. ASSUME NEW id \in User, NEW u \in Row, Opens(id, u)  PROVE LinksSound'
    <2>1. /\ row' = [row EXCEPT ![id] = u] /\ u.vtok = 0 /\ u.rtok = 0
          /\ UNCHANGED <<links, fate, raced>>
      BY <1>2 DEF Opens, Create
    <2>2. \A i \in User : row'[i] = IF i = id THEN u ELSE row[i]
      BY <1>0, <2>1
    <2> QED  BY <2>1, <2>2 DEF LinksSound, Sound, Stores
  <1>3. ASSUME NEW id \in User, NEW b, Moderates(id, b)  PROVE LinksSound'
    <2>1. \A i \in User : SameLinks(row'[i], row[i])
      BY <1>0, <1>3 DEF Moderates, SameLinks, Row
    <2> QED  BY <1>3, <2>1, SoundStays DEF LinksSound, Moderates
  <1> QED  BY <1>0, <1>1, <1>2, <1>3, WriteLinks, StepWrites

\* As long as no whole-row write has undone another, a link works once at most, and one
\* that was used, replaced or cancelled is stored nowhere, for every number of accounts,
\* links and overlapping requests: what VerifyEmail and ResetPassword find in the row they
\* have read is still in it, and no two rows or columns ever share a link.
THEOREM LinksAreSpent == Spec => []LinksEndOnce
  <1>1. Init => LinksSound
    <2>1. NoRow.vtok = 0 /\ NoRow.rtok = 0  BY DEF NoRow
    <2> QED  BY <2>1 DEF Init, LinksSound, Sound, Stores
  <1>2. Typed /\ Reads /\ LinksSound /\ [Next]_vars => LinksSound'
    BY StepLinks, SessionAssumption, AccountAssumption
  <1>3. Typed /\ LinksSound => LinksEndOnce
    <2> SUFFICES ASSUME Typed, LinksSound, ~raced  PROVE LinksEndOnce
      BY DEF LinksEndOnce
    <2>1. ASSUME NEW id \in User, NEW l \in {row[id].vtok, row[id].rtok} \ {0}
          PROVE  fate[l] \in {"mailed", "lost"}
      <3>1. row[id] \in Row  BY DEF Typed, TypeOK
      <3>2. l \in Link  BY <3>1, AccountAssumption DEF Row, Link, AccountAssumption
      <3> QED  BY <3>2 DEF LinksSound, Sound, Stores
    <2> QED  BY <2>1 DEF LinksEndOnce, LinksSound, Sound
  <1> QED  BY <1>1, <1>2, <1>3, ReadsInvariance, PTL DEF Spec

-----------------------------------------------------------------------------
(* What can bring a cancelled reset link back *)

\* The row of `id` is written by a request that read it before it changed, and gets back
\* the reset link of then.
OutdatedWrite(id) ==
    \E r \in Req :
        /\ req[r].step = "write" /\ req[r].user = id
        /\ Columns(req[r].snap) # Columns(row[id])
        /\ row'[id].rtok = req[r].snap.rtok /\ row'[id].rtok # row[id].rtok

\* A link is known to an account that stores it, or to which a pending write may store
\* it again.
Pending(q, id, l) == q.step = "write" /\ q.user = id /\ q.snap.rtok = l
KnownTo(id, l) == row[id].rtok = l \/ \E r \in Req : Pending(req[r], id, l)

\* Races included: a link was generated, and for one account.
Own == \A i, j \in User, l \in Link : KnownTo(i, l) => l <= links /\ (KnownTo(j, l) => i = j)

\* A request that comes to write has just read the row.
JustRead(r) == req'[r].step = "write" => req'[r].snap = row[req'[r].user]

LEMMA ArriveReads ==
    ASSUME SessionAssumption, AccountAssumption, Typed, NEW r \in Req, Arrive(r)
    PROVE  JustRead(r)
  <1>1. ASSUME NEW q, Begin(r, q), q.step # "write"  PROVE JustRead(r)
    <2>1. req'[r] = q  BY <1>1 DEF Begin, Typed, TypeOK
    <2> QED  BY <1>1, <2>1 DEF JustRead
  <1>2. \A j \in issued : tok[j].user \in User
    BY DEF Typed, TypeOK, SessionsTypeOK, Token
  <1>3. ASSUME NEW kind \in Kind, NEW step \in Step, NEW u \in User
        PROVE  Ask(kind, step, u) \in Request /\ Ask(kind, step, u).step = step
    BY AskType
  <1>4. ASSUME NEW id \in User, NEW p \in Password,
               StartRegister(r, id, p) \/ StartLogin(r, id, p)
        PROVE  JustRead(r)
    <2>1. /\ [Ask("register", "insert", id) EXCEPT !.pw = p, !.role = NoRow.role].step = "insert"
          /\ [Ask("login", "lookup", id) EXCEPT !.pw = p, !.since = now].step = "lookup"
      BY <1>3 DEF Kind, Step, Request
    <2> QED  BY <1>1, <1>4, <2>1 DEF StartRegister, StartLogin
  <1>5. ASSUME NEW j \in Jti, StartRefresh(r, j) \/ StartLogoutAll(r, j) \/ StartSend(r, j)
        PROVE  JustRead(r)
    <2>1. tok[j].user \in User
      BY <1>2, <1>5 DEF StartRefresh, StartLogoutAll, StartSend, Accepted, ValidAs, Valid
    <2>2. /\ [Ask("refresh", "check", tok[j].user) EXCEPT !.jti = j, !.since = now].step = "check"
          /\ Ask("logoutall", "revoke", tok[j].user).step = "revoke"
          /\ Ask("send", "read", tok[j].user).step = "read"
      BY <1>3, <2>1 DEF Kind, Step, Request
    <2> QED  BY <1>1, <1>5, <2>2 DEF StartRefresh, StartLogoutAll, StartSend
  <1>6. ASSUME NEW j \in Jti, NEW k \in Jti \cup {NoJti}, StartLogout(r, j, k)
        PROVE  JustRead(r)
    <2>1. tok[j].user \in User
      BY <1>2, <1>6 DEF StartLogout, Accepted, ValidAs, Valid
    <2>2. [Ask("logout", "deny", tok[j].user) EXCEPT !.jti = j, !.other = k].step = "deny"
      BY <1>3, <2>1 DEF Kind, Step, Request
    <2> QED  BY <1>1, <1>6, <2>2 DEF StartLogout
  <1>7. ASSUME NEW l \in Link, NEW id \in User, NEW p \in Password,
               StartVerify(r, l, id) \/ StartReset(r, l, id, p)
        PROVE  JustRead(r)
    <2>1. /\ [Ask("verify", "read", id) EXCEPT !.link = l].step = "read"
          /\ [Ask("reset", "read", id) EXCEPT !.link = l, !.pw = p].step = "read"
      BY <1>3 DEF Kind, Step, Request
    <2> QED  BY <1>1, <1>7, <2>1 DEF StartVerify, StartReset
  <1>8. ASSUME NEW id \in User, StartForgot(r, id)
        PROVE  JustRead(r)
    <2>1. Ask("forgot", "read", id).step = "read"
      BY <1>3 DEF Kind, Step
    <2> QED  BY <1>1, <1>8, <2>1 DEF StartForgot
  <1>9. ASSUME NEW j \in Jti, NEW p \in Password, StartChange(r, j, p)
        PROVE  JustRead(r)
    <2>1. tok[j].user \in User
      BY <1>2, <1>9 DEF StartChange, Accepted, ValidAs, Valid
    <2>2. [Ask("change", "read", tok[j].user) EXCEPT !.pw = p].step = "read"
      BY <1>3, <2>1 DEF Kind, Step, Request
    <2> QED  BY <1>1, <1>9, <2>2 DEF StartChange
  <1>10. ASSUME NEW id \in User, NEW role \in Role, StartPromote(r, id, role)
         PROVE  JustRead(r)
    <2> DEFINE q == [Ask("promote", "write", id) EXCEPT !.role = role, !.snap = row[id]]
    <2>1. q.user = id /\ q.snap = row[id]
      <3>1. Ask("promote", "write", id) \in Request /\ Ask("promote", "write", id).user = id
        BY AskType DEF Kind, Step
      <3> QED  BY <3>1 DEF Request
    <2>2. req'[r] = q
      BY <1>10 DEF StartPromote, Begin, Typed, TypeOK
    <2> HIDE DEF q
    <2> QED  BY <2>1, <2>2 DEF JustRead
  <1>11. Password # {}  BY DEF AccountAssumption
  <1> QED
    BY <1>4, <1>5, <1>6, <1>7, <1>8, <1>9, <1>10, <1>11 DEF Arrive

LEMMA ProceedReads ==
    ASSUME SessionAssumption, AccountAssumption, Typed, NEW r \in Req, Proceed(r)
    PROVE  JustRead(r)
  <1>0. req \in [Req -> Request] /\ req[r] \in Request
    BY DEF Typed, TypeOK
  <1>1. ASSUME Finish(r)  PROVE JustRead(r)
    <2>1. req'[r] = Idle  BY <1>0, <1>1 DEF Finish
    <2> QED  BY <2>1 DEF Idle, JustRead
  <1>2. ASSUME NEW s \in Step, s # "write", Goto(r, s)  PROVE JustRead(r)
    BY <1>2, MovedRequest DEF JustRead
  <1>3. ASSUME NEW s \in Step, Read(r, req[r], s)  PROVE JustRead(r)
    <2>1. req'[r] = [req[r] EXCEPT !.snap = row[req[r].user], !.step = s]
      BY <1>0, <1>3 DEF Read
    <2>2. req'[r].snap = row[req[r].user] /\ req'[r].user = req[r].user
      BY <1>0, <2>1 DEF Request
    <2> QED  BY <2>2 DEF JustRead
  <1>4. CASE Register(r)
    <2>1. ASSUME NEW u, req' = [req EXCEPT ![r].step = "mint", ![r].snap = u]
          PROVE  JustRead(r)
      <3>1. req'[r] = [req[r] EXCEPT !.step = "mint", !.snap = u]  BY <1>0, <2>1
      <3>2. req'[r].step = "mint"  BY <1>0, <3>1 DEF Request
      <3> QED  BY <3>2 DEF JustRead
    <2> QED  BY <1>1, <1>4, <2>1 DEF Register
  <1>5. CASE \/ LoginRecord(r) \/ IssueRefresh(r) \/ RenewAccess(r) \/ RefreshCheck(r)
             \/ LogoutAccess(r) \/ LogoutRefresh(r) \/ MarkSessions(r)
             \/ SendVerificationEmail(r) \/ VerifyWrite(r) \/ RequestPasswordReset(r)
             \/ ResetWrite(r) \/ ChangeWrite(r) \/ Promote(r)
    <2>1. Finish(r) \/ \E s \in {"mint", "renew", "lookup", "denyrefresh", "revoke"} : Goto(r, s)
      BY <1>5 DEF LoginRecord, IssueRefresh, RenewAccess, RefreshCheck, LogoutAccess,
                  LogoutRefresh, MarkSessions, SendVerificationEmail, VerifyWrite,
                  RequestPasswordReset, ResetWrite, ChangeWrite, SetPassword, Promote
    <2> QED  BY <1>1, <1>2, <2>1 DEF Step
  <1>6. CASE \/ LoginLookup(r) \/ RefreshLookup(r) \/ SendRead(r) \/ VerifyRead(r)
             \/ ForgotRead(r) \/ ResetRead(r) \/ \E cur \in Password : ChangeRead(r, cur)
    <2>1. Finish(r) \/ \E s \in {"write", "renew"} : Read(r, req[r], s)
      BY <1>6 DEF LoginLookup, RefreshLookup, SendRead, VerifyRead, ForgotRead, ResetRead,
                  ChangeRead
    <2> QED  BY <1>1, <1>3, <2>1 DEF Step
  <1>7. CASE RevokeSessions(r)
    <2>1. req'[r].step = "mark"
      BY <1>0, <1>7 DEF RevokeSessions, Request
    <2> QED  BY <2>1 DEF JustRead
  <1> QED
    BY <1>4, <1>5, <1>6, <1>7 DEF Proceed

\* Nothing becomes known through what requests read.
LEMMA PendingWasKnown ==
    ASSUME SessionAssumption, AccountAssumption, Typed, [Next]_vars,
           NEW i \in Req, NEW id \in User, NEW l, Pending(req'[i], id, l)
    PROVE  KnownTo(id, l)
  <1>1. CASE req'[i] = req[i]
    BY <1>1 DEF KnownTo
  <1>2. ASSUME NEW r \in Req, Arrive(r) \/ Proceed(r) \/ BreakOff(r), req'[i] # req[i]
        PROVE  KnownTo(id, l)
    <2>1. i = r  BY <1>2, OthersWait
    <2>2. ~BreakOff(r)
      BY <2>1 DEF BreakOff, Finish, Idle, Pending, Typed, TypeOK
    <2>3. JustRead(i)
      BY <1>2, <2>1, <2>2, ArriveReads, ProceedReads
    <2> QED  BY <2>3 DEF JustRead, Pending, KnownTo
  <1>3. UNCHANGED vars \/ Environment => UNCHANGED req
    BY DEF vars, avars, Environment, CreateByAdmin, BanUser, UnbanUser
  <1> QED  BY <1>1, <1>2, <1>3 DEF Next

\* What a whole-row write does to the reset links and to the fates of links.
LEMMA WriteRtok ==
    ASSUME SessionAssumption, AccountAssumption, Typed, NEW r \in Req, NEW u \in Row,
           req[r].step = "write", Writes(r, u)
    PROVE  LET id == req[r].user
               old == row[id].rtok
           IN  /\ id \in User /\ links \in Nat /\ links' \in Nat /\ links <= links'
               /\ \A i \in User : i # id => row'[i] = row[i]
               /\ \/ row'[id].rtok = 0
                  \/ row'[id].rtok = req[r].snap.rtok
                  \/ row'[id].rtok = links + 1 /\ links' = links + 1 /\ fate'[links + 1] # "cancelled"
               /\ \A l \in Link : fate'[l] = "cancelled" => \/ fate[l] = "cancelled"
                                                            \/ l = old /\ row'[id].rtok = 0
               /\ Columns(req[r].snap) = Columns(row[id]) => old = req[r].snap.rtok
  <1> DEFINE id == req[r].user
             s == req[r].snap
             old == row[id].rtok
             vold == row[id].vtok
  <1>0. /\ id \in User /\ s \in Row /\ row[id] \in Row /\ row \in [User -> Row]
        /\ fate \in [Link -> Fate] /\ links \in 0..MaxLink /\ req[r].link \in 0..MaxLink
        /\ old \in 0..MaxLink /\ vold \in 0..MaxLink /\ MaxLink \in Nat
    BY RequestFields DEF Typed, TypeOK, AccountAssumption
  <1>1. row' = [row EXCEPT ![id] = [u EXCEPT !.ban = row[id].ban]]
    BY DEF Writes, WriteBack, Update
  <1>2. row'[id].rtok = u.rtok /\ \A i \in User : i # id => row'[i] = row[i]
    <2>1. row'[id] = [u EXCEPT !.ban = row[id].ban]  BY <1>0, <1>1
    <2> QED  BY <1>0, <1>1, <2>1 DEF Row
  <1>3. Columns(s) = Columns(row[id]) => old = s.rtok
    <2>1. \A v \in Row : Columns(v).rtok = v.rtok  BY DEF Columns, Row
    <2> QED  BY <1>0, <2>1
  <1>4. ASSUME NEW o \in 0..MaxLink, NEW k, Sends(o, k)
        PROVE  /\ links' = links + 1 /\ k = links + 1 /\ fate'[k] # "cancelled"
               /\ \A l \in Link : fate'[l] = "cancelled" => fate[l] = "cancelled"
    <2>1. k \in Link  BY <1>0, <1>4 DEF Sends, Link
    <2>2. PICK sent \in {"mailed", "lost"} : fate' = [Settle(o, "replaced") EXCEPT ![k] = sent]
      BY <1>4 DEF Sends
    <2>3. fate' = [[l \in Link |-> IF l = o THEN "replaced" ELSE fate[l]] EXCEPT ![k] = sent]
      BY <2>2, SettleFates
    <2>4. \A l \in Link : fate'[l] = IF l = k THEN sent ELSE IF l = o THEN "replaced" ELSE fate[l]
      BY <2>1, <2>3
    <2> QED  BY <1>4, <2>1, <2>4 DEF Sends
  <1>5. ASSUME NEW o \in 0..MaxLink, NEW how, fate' = Settle(o, how)
        PROVE  \A l \in Link : fate'[l] = IF l = o THEN how ELSE fate[l]
    <2>1. fate' = [l \in Link |-> IF l = o THEN how ELSE fate[l]]
      BY <1>5, SettleFates
    <2> QED  BY <2>1
  <1>6. ASSUME fate' = Use(req[r].link)
        PROVE  \A l \in Link : fate'[l] = "cancelled" => fate[l] = "cancelled"
    <2>1. PICK how \in {"used", "reused"} : fate' = Settle(req[r].link, how)
      BY <1>6 DEF Use
    <2>2. \A l \in Link : fate'[l] = IF l = req[r].link THEN how ELSE fate[l]
      BY <1>0, <1>5, <2>1
    <2> QED  BY <2>2
  <1>w. \/ UNCHANGED <<links, fate>> /\ u.rtok = s.rtok
        \/ u.rtok = s.rtok /\ Sends(vold, u.vtok)
        \/ (u.rtok = s.rtok \/ u.rtok = 0) /\ links' = links /\ fate' = Use(req[r].link)
        \/ Sends(old, u.rtok)
        \/ Ends(old, u.rtok, "cancelled")
    BY DEF Writes
  <1> DEFINE Good == /\ links' \in Nat /\ links <= links'
                     /\ \/ u.rtok = 0 \/ u.rtok = s.rtok
                        \/ u.rtok = links + 1 /\ links' = links + 1 /\ fate'[links + 1] # "cancelled"
                     /\ \A l \in Link : fate'[l] = "cancelled" =>
                            fate[l] = "cancelled" \/ (l = old /\ u.rtok = 0)
  <1> HIDE DEF id, s, old, vold
  <1>7. ASSUME UNCHANGED <<links, fate>>, u.rtok = s.rtok  PROVE Good
    BY <1>0, <1>7
  <1>8. ASSUME u.rtok = s.rtok, Sends(vold, u.vtok)  PROVE Good
    BY <1>0, <1>4, <1>8
  <1>9. ASSUME u.rtok = s.rtok \/ u.rtok = 0, links' = links, fate' = Use(req[r].link)
        PROVE  Good
    BY <1>0, <1>6, <1>9
  <1>10. ASSUME Sends(old, u.rtok)  PROVE Good
    BY <1>0, <1>4, <1>10
  <1>11. ASSUME Ends(old, u.rtok, "cancelled")  PROVE Good
    BY <1>0, <1>5, <1>11 DEF Ends
  <1>12. Good
    <2> HIDE DEF Good
    <2> QED  BY <1>w, <1>7, <1>8, <1>9, <1>10, <1>11
  <1> QED  BY <1>0, <1>2, <1>3, <1>12 DEF id, s, old

\* What any step does to them: the links stay as they are in all rows but one.
LEMMA StepRtok ==
    ASSUME SessionAssumption, AccountAssumption, Typed, [Next]_vars
    PROVE  \/ /\ \A i \in User : row'[i].rtok \in {0, row[i].rtok}
              /\ UNCHANGED <<links, fate>>
           \/ \E r \in Req, u \in Row : req[r].step = "write" /\ Writes(r, u)
  <1>0. row \in [User -> Row]  BY DEF Typed, TypeOK
  <1>1. CASE UNCHANGED <<row, links, fate, raced>>
    BY <1>1
  <1>2. ASSUME NEW id \in User, NEW u \in Row, Opens(id, u)
        PROVE  (\A i \in User : row'[i].rtok \in {0, row[i].rtok}) /\ UNCHANGED <<links, fate>>
    <2>1. /\ row' = [row EXCEPT ![id] = u] /\ u.rtok = 0 /\ UNCHANGED <<links, fate>>
      BY <1>2 DEF Opens, Create
    <2> QED  BY <1>0, <2>1
  <1>3. ASSUME NEW id \in User, NEW b, Moderates(id, b)
        PROVE  (\A i \in User : row'[i].rtok \in {0, row[i].rtok}) /\ UNCHANGED <<links, fate>>
    <2>1. row'[id] = [row[id] EXCEPT !.ban = b] /\ \A i \in User : i # id => row'[i] = row[i]
      BY <1>0, <1>3 DEF Moderates
    <2>2. row'[id].rtok = row[id].rtok
      BY <1>0, <2>1 DEF Row
    <2> QED  BY <1>3, <2>1, <2>2 DEF Moderates
  <1> QED  BY <1>1, <1>2, <1>3, StepWrites

LEMMA StepOwn ==
    ASSUME SessionAssumption, AccountAssumption, Typed, Own, [Next]_vars
    PROVE  Own'
  <1>0. \A l \in Link : l \in Nat /\ l # 0
    BY DEF Link, AccountAssumption
  <1>1. links \in Nat
    BY DEF Typed, TypeOK, AccountAssumption
  <1>2. ASSUME NEW i \in User, NEW l \in Link, KnownTo(i, l)', ~KnownTo(i, l)
        PROVE  row'[i].rtok = l
    BY <1>2, PendingWasKnown DEF KnownTo
  <1>3. CASE (\A i \in User : row'[i].rtok \in {0, row[i].rtok}) /\ UNCHANGED links
    <2>1. ASSUME NEW i \in User, NEW l \in Link, KnownTo(i, l)'  PROVE KnownTo(i, l)
      BY <1>0, <1>2, <1>3, <2>1 DEF KnownTo
    <2> QED  BY <1>3, <2>1 DEF Own
  <1>4. ASSUME NEW r \in Req, NEW u \in Row, req[r].step = "write", Writes(r, u)
        PROVE  Own'
    <2> DEFINE id == req[r].user
    <2>1. /\ id \in User /\ links \in Nat /\ links' \in Nat /\ links <= links'
          /\ \A i \in User : i # id => row'[i] = row[i]
          /\ \/ row'[id].rtok = 0
             \/ row'[id].rtok = req[r].snap.rtok
             \/ row'[id].rtok = links + 1 /\ links' = links + 1
      BY <1>4, WriteRtok
    <2>2. KnownTo(id, req[r].snap.rtok)
      BY <1>4 DEF KnownTo, Pending
    <2>3. ASSUME NEW i \in User, NEW l \in Link, KnownTo(i, l)', ~KnownTo(i, l)
          PROVE  i = id /\ l = links + 1 /\ links' = links + 1
      <3>1. row'[i].rtok = l /\ row[i].rtok # l
        BY <1>2, <2>3 DEF KnownTo
      <3>2. i = id
        BY <2>1, <3>1
      <3>3. ~KnownTo(id, l) /\ row'[id].rtok = l
        BY <2>3, <3>1, <3>2
      <3>4. l # req[r].snap.rtok
        BY <2>2, <3>3
      <3> HIDE DEF id
      <3> QED  BY <1>0, <2>1, <3>2, <3>3, <3>4
    <2> HIDE DEF id
    <2>4. ASSUME NEW i \in User, NEW l \in Link, KnownTo(i, l)'
          PROVE  l <= links' /\ (KnownTo(i, l) \/ (i = id /\ l = links + 1))
      BY <1>0, <2>1, <2>3, <2>4 DEF Own
    <2>5. ASSUME NEW i \in User, NEW j \in User, NEW l \in Link, KnownTo(i, l)', KnownTo(j, l)'
          PROVE  i = j
      <3>1. KnownTo(i, l) \/ KnownTo(j, l) => l # links + 1
        BY <1>0, <1>1 DEF Own
      <3> QED  BY <2>4, <2>5, <3>1 DEF Own
    <2> QED  BY <2>4, <2>5 DEF Own
  <1> QED  BY <1>3, <1>4, StepRtok

LEMMA StepRevives ==
    ASSUME SessionAssumption, AccountAssumption, Typed, Typed', Own, [Next]_vars, CancelledLinkIsDead
    PROVE  CancelledLinkIsDead' \/ \E id \in User : OutdatedWrite(id)
  <1>1. CASE (\A i \in User : row'[i].rtok \in {0, row[i].rtok}) /\ UNCHANGED fate
    BY <1>1 DEF CancelledLinkIsDead
  <1>2. ASSUME NEW r \in Req, NEW u \in Row, req[r].step = "write", Writes(r, u)
        PROVE  CancelledLinkIsDead' \/ \E id \in User : OutdatedWrite(id)
    <2> DEFINE id == req[r].user
               old == row[id].rtok
    <2>1. /\ id \in User
          /\ \A i \in User : i # id => row'[i] = row[i]
          /\ \/ row'[id].rtok = 0
             \/ row'[id].rtok = req[r].snap.rtok
             \/ row'[id].rtok = links + 1 /\ fate'[links + 1] # "cancelled"
          /\ \A l \in Link : fate'[l] = "cancelled" => \/ fate[l] = "cancelled"
                                                       \/ l = old /\ row'[id].rtok = 0
          /\ Columns(req[r].snap) = Columns(row[id]) => old = req[r].snap.rtok
      BY <1>2, WriteRtok
    <2>0. \A i \in User : /\ row[i].rtok # 0 => row[i].rtok \in Link
                          /\ row'[i].rtok # 0 => row'[i].rtok \in Link
      <3>1. row \in [User -> Row] /\ row' \in [User -> Row] /\ MaxLink \in Nat
        BY DEF Typed, TypeOK, AccountAssumption
      <3>2. \A v \in Row : v.rtok # 0 => v.rtok \in Link
        BY <3>1 DEF Row, Link
      <3> QED  BY <3>1, <3>2
    <2>2. ASSUME ~OutdatedWrite(id)  PROVE CancelledLinkIsDead'
      <3> SUFFICES ASSUME NEW i \in User, row'[i].rtok # 0, fate'[row'[i].rtok] = "cancelled"
                   PROVE  FALSE
        BY DEF CancelledLinkIsDead
      <3> DEFINE l == row'[i].rtok
      <3>0. l \in Link /\ fate'[l] = "cancelled"
        BY <2>0
      <3> HIDE DEF l
      <3>1. fate[l] = "cancelled" \/ (l = old /\ row'[id].rtok = 0)
        BY <2>1, <3>0
      <3>2. CASE i # id
        <4>1. row[i].rtok = l  BY <2>1, <3>2 DEF l
        <4>2. fate[l] # "cancelled"  BY <3>0, <4>1 DEF CancelledLinkIsDead, Link
        <4>3. l = old  BY <3>1, <4>2
        <4>4. KnownTo(i, l) /\ KnownTo(id, l)  BY <4>1, <4>3 DEF KnownTo
        <4> QED  BY <2>1, <3>0, <3>2, <4>4 DEF Own
      <3>3. CASE i = id
        <4>0. row'[id].rtok = l /\ l # 0
          BY <3>0, <3>3 DEF l, Link
        <4>1. fate[l] = "cancelled"  BY <3>1, <4>0
        <4>2. l # old  BY <2>1, <4>0, <4>1 DEF CancelledLinkIsDead
        <4>3. l = req[r].snap.rtok  BY <2>1, <3>0, <4>0
        <4>4. OutdatedWrite(id)
          BY <1>2, <2>1, <4>0, <4>2, <4>3 DEF OutdatedWrite
        <4> QED  BY <2>2, <4>4
      <3> QED  BY <3>2, <3>3
    <2> QED  BY <2>1, <2>2
  <1> QED  BY <1>1, <1>2, StepRtok

\* What ChangePassword's comment asks for, CancelledLinkIsDead, is undone by one thing
\* alone: a request that read the account before it changed writes all of it back.  No
\* other step of any request, of a moderator or of Redis brings a cancelled reset link
\* back, not even when such writes have raced before.
THEOREM OnlyOutdatedWritesRevive ==
    Spec => [][CancelledLinkIsDead =>
                  CancelledLinkIsDead' \/ \E id \in User : OutdatedWrite(id)]_vars
  <1>1. Init => Own
    <2>1. NoRow.rtok = 0 /\ Idle.step = "idle" /\ 0 \notin Link
      BY DEF NoRow, Idle, Link
    <2> QED  BY <2>1 DEF Init, Own, KnownTo, Pending
  <1>2. Typed /\ Own /\ [Next]_vars => Own'
    BY StepOwn, SessionAssumption, AccountAssumption
  <1>3. Typed /\ Typed' /\ Own /\ [Next]_vars =>
          [CancelledLinkIsDead => CancelledLinkIsDead' \/ \E id \in User : OutdatedWrite(id)]_vars
    BY StepRevives, SessionAssumption, AccountAssumption
  <1> QED  BY <1>1, <1>2, <1>3, TypedInvariance, PTL DEF Spec

=============================================================================
