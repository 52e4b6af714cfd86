------------------------------ MODULE Accounts ------------------------------
(***************************************************************************)
(* Accounts and the requests that work on them: registration, login,       *)
(* refresh, logout, the e-mail links, password changes, bans and the       *)
(* admin command, over the users table and the denylist of Sessions.       *)
(*                                                                         *)
(* Every flow but the bans reads a row, decides, and writes the whole row  *)
(* back with UserRepository.Update, and several requests do so at once.    *)
(* A request is a record in `req`; each of its steps is one statement on   *)
(* the database or one command to Redis.                                   *)
(*                                                                         *)
(* A password stands for its hash, a link for the secret in it and for the *)
(* digest stored in the row; 0 is the NULL of a token column.  Replies are *)
(* left out: a request that ends, well or not, becomes Idle.               *)
(***************************************************************************)
EXTENDS Sessions

CONSTANTS
    Req,         \* requests that may be in progress at once
    MaxRequests, \* bound on the requests of a behaviour
    Password,
    Strong,      \* the passwords ValidatePassword accepts
    MaxLink,     \* bound on the links ever generated
    ResetTTL,    \* cfg.Mail.PasswordResetTTL
    BanTTL,      \* length of a temporary ban
    Fails        \* may a request break off between two steps?

ASSUME AccountAssumption ==
    /\ MaxRequests \in Nat /\ MaxLink \in Nat
    /\ Strong \subseteq Password /\ Strong # {}
    /\ ResetTTL \in Nat \ {0} /\ BanTTL \in Nat \ {0}
    /\ Fails \in BOOLEAN

VARIABLES
    row,     \* the users table
    req,     \* the requests in progress
    started, \* how many requests there have been
    links,   \* how many links have been generated
    fate,    \* history: what became of each link
    lastSet, \* history: the password last accepted for each row, and when
    raced    \* history: has a write undone one its request had not seen?

avars == <<row, req, started, links, fate, lastSet, raced>>
vars == <<svars, avars>>

Link == 1..MaxLink

Fate == {"none", "mailed", "lost", "used", "reused", "replaced", "cancelled"}

-----------------------------------------------------------------------------
(* The users table *)

\* Never, or no longer, banned; a ban whose `until` is 0 is permanent.
NoBan == [on |-> FALSE, until |-> 0, at |-> 0]

Row == [here : BOOLEAN, pw : Password, role : Role, verified : BOOLEAN,
        vtok : 0..MaxLink, rtok : 0..MaxLink, rexp : Nat,
        ban : [on : BOOLEAN, until : Nat, at : Nat]]

NoRow == [here |-> FALSE, pw |-> CHOOSE p \in Password : TRUE,
          role |-> CHOOSE r \in Role : TRUE, verified |-> FALSE,
          vtok |-> 0, rtok |-> 0, rexp |-> 0, ban |-> NoBan]

\* NewUser
NewUser(p, role) == [NoRow EXCEPT !.here = TRUE, !.pw = p, !.role = role]

IsCurrentlyBanned(u) == u.ban.on /\ (u.ban.until = 0 \/ now < u.ban.until)

\* Mutant of VerifyEmail: the token stays.
VerifyEmailKeepsToken(u) == [u EXCEPT !.verified = TRUE]

\* User.VerifyEmail
VerifyEmail(u) == [u EXCEPT !.verified = TRUE, !.vtok = 0]

ClearPasswordResetToken(u) == [u EXCEPT !.rtok = 0, !.rexp = 0]

IsPasswordResetTokenValid(u) == u.rtok # 0 /\ now < u.rexp

\* UserRepository.Create: username and email are unique.
Create(id, u) ==
    /\ ~row[id].here
    /\ row' = [row EXCEPT ![id] = u]
    /\ lastSet' = [lastSet EXCEPT ![id] = [pw |-> u.pw, at |-> now]]

\* Mutants of Update: a column is missing, or one too many is there.
UpdateWithoutPassword(id, u) ==
    row' = [row EXCEPT ![id] = [u EXCEPT !.ban = row[id].ban, !.pw = row[id].pw]]
UpdateWithBan(id, u) == row' = [row EXCEPT ![id] = u]

\* UserRepository.Update: every column but those of the ban.
Update(id, u) == row' = [row EXCEPT ![id] = [u EXCEPT !.ban = row[id].ban]]

-----------------------------------------------------------------------------
(* Requests *)

Kind == {"register", "login", "refresh", "logout", "logoutall", "send",
         "verify", "forgot", "reset", "change", "promote"}

Step == {"idle", "insert", "lookup", "read", "write", "mint", "renew",
         "check", "deny", "denyrefresh", "revoke", "mark"}

NoJti == "none"
NoUser == "nobody"

Request == [kind : Kind \cup {"none"}, step : Step, user : User \cup {NoUser},
            snap : Row, jti : Jti \cup {NoJti}, other : Jti \cup {NoJti},
            link : 0..MaxLink, pw : Password, role : Role, since : Nat]

Idle == [kind |-> "none", step |-> "idle", user |-> NoUser, snap |-> NoRow,
         jti |-> NoJti, other |-> NoJti, link |-> 0, pw |-> NoRow.pw,
         role |-> NoRow.role, since |-> 0]

At(r, kind, step) == req[r].kind = kind /\ req[r].step = step

\* The request that arrives, and the first thing it waits for.
Begin(r, q) ==
    /\ req[r] = Idle
    /\ started < MaxRequests
    /\ started' = started + 1
    /\ req' = [req EXCEPT ![r] = q]

Ask(kind, step, u) == [Idle EXCEPT !.kind = kind, !.step = step, !.user = u]

Goto(r, s) == req' = [req EXCEPT ![r].step = s]
Finish(r) == req' = [req EXCEPT ![r] = Idle]

\* The row the request has just read, and where it goes with it.
Read(r, q, s) == req' = [req EXCEPT ![r] = [q EXCEPT !.snap = row[q.user], !.step = s]]

\* The columns Update writes.
Columns(u) == [u EXCEPT !.ban = NoBan]

\* The row is written back as `u`.  The write races when the row has changed
\* since this request read it.
WriteBack(r, u) ==
    /\ Update(req[r].user, u)
    /\ raced' = (raced \/ Columns(req[r].snap) # Columns(row[req[r].user]))

\* A link that was live is used up, replaced or cancelled.
Settle(l, how) == IF l = 0 THEN fate ELSE [fate EXCEPT ![l] = how]

\* A link can be followed once more: by the owner, who may click twice.
Use(l) == Settle(l, IF fate[l] = "used" THEN "reused" ELSE "used")

-----------------------------------------------------------------------------
(* Sign-up and sign-in *)

\* AuthHandler.Register and the checks of AuthService.Register
StartRegister(r, id, p) ==
    /\ p \in Strong
    /\ Begin(r, [Ask("register", "insert", id) EXCEPT !.pw = p, !.role = NoRow.role])
    /\ UNCHANGED <<svars, row, links, fate, lastSet, raced>>

\* The insert; on a conflict the request ends.
Register(r) ==
    /\ At(r, "register", "insert")
    /\ LET q == req[r]
           u == NewUser(q.pw, q.role)
       IN  \/ /\ Create(q.user, u)
              /\ req' = [req EXCEPT ![r].step = "mint", ![r].snap = u]
           \/ /\ row[q.user].here
              /\ Finish(r)
              /\ UNCHANGED <<row, lastSet>>
    /\ UNCHANGED <<svars, started, links, fate, raced>>

\* AuthHandler.Login
StartLogin(r, id, p) ==
    /\ Begin(r, [Ask("login", "lookup", id) EXCEPT !.pw = p, !.since = now])
    /\ UNCHANGED <<svars, row, links, fate, lastSet, raced>>

\* Login up to the write: an unknown user, a wrong password and a banned user
\* are turned away.
LoginLookup(r) ==
    /\ At(r, "login", "lookup")
    /\ LET q == req[r]
           u == row[q.user]
       IN  IF u.here /\ u.pw = q.pw /\ ~IsCurrentlyBanned(u)
           THEN Read(r, q, "write")
           ELSE Finish(r)
    /\ UNCHANGED <<svars, row, started, links, fate, lastSet, raced>>

\* The last login is recorded with a write of the whole row, whose failure is
\* ignored.
LoginRecord(r) ==
    /\ At(r, "login", "write")
    /\ \/ WriteBack(r, req[r].snap)
       \/ Fails /\ UNCHANGED <<row, raced>>
    /\ Goto(r, "mint")
    /\ UNCHANGED <<svars, started, links, fate, lastSet>>

\* issueTokens: the refresh token
IssueRefresh(r) ==
    /\ req[r].step = "mint"
    /\ \E j \in Jti : Sign(j, req[r].user, "refresh", req[r].snap.role)
    /\ Goto(r, "renew")
    /\ UNCHANGED <<row, started, links, fate, lastSet, raced>>

\* renewAccess: the access token, and the answer
RenewAccess(r) ==
    /\ req[r].step = "renew"
    /\ \E j \in Jti : Sign(j, req[r].user, "access", req[r].snap.role)
    /\ Finish(r)
    /\ UNCHANGED <<row, started, links, fate, lastSet, raced>>

-----------------------------------------------------------------------------
(* Refresh and logout *)

\* AuthHandler.Refresh and ValidateRefreshToken
StartRefresh(r, j) ==
    /\ ValidAs(j, "refresh")
    /\ Begin(r, [Ask("refresh", "check", tok[j].user) EXCEPT !.jti = j, !.since = now])
    /\ UNCHANGED <<svars, row, links, fate, lastSet, raced>>

\* Mutant of RefreshCheck: fails open, as the middleware may.
RefreshCheckOpen(r) ==
    /\ At(r, "refresh", "check")
    /\ IF storeUp /\ IsRevoked(req[r].jti) THEN Finish(r) ELSE Goto(r, "lookup")
    /\ UNCHANGED <<svars, row, started, links, fate, lastSet, raced>>

\* A revoked token, and any token while Redis does not answer, buys nothing.
RefreshCheck(r) ==
    /\ At(r, "refresh", "check")
    /\ IF storeUp /\ ~IsRevoked(req[r].jti) THEN Goto(r, "lookup") ELSE Finish(r)
    /\ UNCHANGED <<svars, row, started, links, fate, lastSet, raced>>

\* Mutant of RefreshLookup: the ban is only looked at when signing in.
RefreshLookupBanned(r) ==
    /\ At(r, "refresh", "lookup")
    /\ IF row[req[r].user].here THEN Read(r, req[r], "renew") ELSE Finish(r)
    /\ UNCHANGED <<svars, row, started, links, fate, lastSet, raced>>

\* The user is read again, for the ban and for the role.
RefreshLookup(r) ==
    /\ At(r, "refresh", "lookup")
    /\ LET q == req[r]
       IN  IF row[q.user].here /\ ~IsCurrentlyBanned(row[q.user])
           THEN Read(r, q, "renew")
           ELSE Finish(r)
    /\ UNCHANGED <<svars, row, started, links, fate, lastSet, raced>>

\* AuthHandler.Logout behind RequireAuth; the body may name a second token.
StartLogout(r, j, k) ==
    /\ Accepted(j)
    /\ k \in (issued \cup {NoJti}) \ {j}
    /\ Begin(r, [Ask("logout", "deny", tok[j].user) EXCEPT !.jti = j, !.other = k])
    /\ UNCHANGED <<svars, row, links, fate, lastSet, raced>>

\* AuthService.Logout, the access token: it must still be valid.
LogoutAccess(r) ==
    /\ At(r, "logout", "deny")
    /\ \/ /\ RevokeToken(req[r].jti)
          /\ IF req[r].other = NoJti THEN Finish(r) ELSE Goto(r, "denyrefresh")
       \/ /\ ~storeUp \/ ~Valid(req[r].jti)
          /\ Finish(r)
          /\ UNCHANGED svars
    /\ UNCHANGED <<row, started, links, fate, lastSet, raced>>

\* The second token is revoked if it is still good for anything.
LogoutRefresh(r) ==
    /\ At(r, "logout", "denyrefresh")
    /\ \/ RevokeToken(req[r].other)
       \/ /\ ~storeUp \/ ~Valid(req[r].other)
          /\ UNCHANGED svars
    /\ Finish(r)
    /\ UNCHANGED <<row, started, links, fate, lastSet, raced>>

\* AuthHandler.LogoutAll behind RequireAuth
StartLogoutAll(r, j) ==
    /\ Accepted(j)
    /\ Begin(r, Ask("logoutall", "revoke", tok[j].user))
    /\ UNCHANGED <<svars, row, links, fate, lastSet, raced>>

\* RevokeAllSessions, for logout-all and after a new password: the cutoff is computed
\* from the clock ...
RevokeSessions(r) ==
    /\ req[r].step = "revoke"
    /\ req' = [req EXCEPT ![r].step = "mark", ![r].since = now]
    /\ UNCHANGED <<svars, row, started, links, fate, lastSet, raced>>

\* ... and stored.  After a new password a failure is only logged.
MarkSessions(r) ==
    /\ req[r].step = "mark"
    /\ \/ RevokeAllUserSessions(req[r].user, req[r].since)
       \/ ~storeUp /\ UNCHANGED svars
    /\ Finish(r)
    /\ UNCHANGED <<row, started, links, fate, lastSet, raced>>

-----------------------------------------------------------------------------
(* E-mail links *)

\* AccountHandler.SendVerificationEmail behind RequireAuth
StartSend(r, j) ==
    /\ Accepted(j)
    /\ Begin(r, Ask("send", "read", tok[j].user))
    /\ UNCHANGED <<svars, row, links, fate, lastSet, raced>>

SendRead(r) ==
    /\ At(r, "send", "read")
    /\ LET q == req[r]
       IN  IF row[q.user].here /\ ~row[q.user].verified
           THEN Read(r, q, "write")
           ELSE Finish(r)
    /\ UNCHANGED <<svars, row, started, links, fate, lastSet, raced>>

\* A new digest replaces the stored one; the mail may still not get through.
SendVerificationEmail(r) ==
    /\ At(r, "send", "write")
    /\ links < MaxLink
    /\ WriteBack(r, [req[r].snap EXCEPT !.vtok = links + 1])
    /\ links' = links + 1
    /\ \E sent \in {"mailed", "lost"} :
          fate' = [Settle(row[req[r].user].vtok, "replaced") EXCEPT ![links + 1] = sent]
    /\ Finish(r)
    /\ UNCHANGED <<svars, started, lastSet>>

\* A link somebody can follow, and the row its first 16 bytes address.
Followed(l) == l \in Link /\ fate[l] \notin {"none", "lost"}

\* AccountHandler.VerifyEmail
StartVerify(r, l, id) ==
    /\ Followed(l)
    /\ Begin(r, [Ask("verify", "read", id) EXCEPT !.link = l])
    /\ UNCHANGED <<svars, row, links, fate, lastSet, raced>>

\* lookupByToken and digestMatches
VerifyRead(r) ==
    /\ At(r, "verify", "read")
    /\ LET q == req[r]
       IN  IF row[q.user].here /\ row[q.user].vtok = q.link
           THEN Read(r, q, "write")
           ELSE Finish(r)
    /\ UNCHANGED <<svars, row, started, links, fate, lastSet, raced>>

VerifyWrite(r) ==
    /\ At(r, "verify", "write")
    /\ WriteBack(r, VerifyEmail(req[r].snap))
    /\ fate' = Use(req[r].link)
    /\ Finish(r)
    /\ UNCHANGED <<svars, started, links, lastSet>>

-----------------------------------------------------------------------------
(* Passwords *)

\* AccountHandler.ForgotPassword
StartForgot(r, id) ==
    /\ Begin(r, Ask("forgot", "read", id))
    /\ UNCHANGED <<svars, row, links, fate, lastSet, raced>>

ForgotRead(r) ==
    /\ At(r, "forgot", "read")
    /\ IF row[req[r].user].here THEN Read(r, req[r], "write") ELSE Finish(r)
    /\ UNCHANGED <<svars, row, started, links, fate, lastSet, raced>>

\* The digest is stored; the mail is sent by a goroutine of its own.
RequestPasswordReset(r) ==
    /\ At(r, "forgot", "write")
    /\ links < MaxLink
    /\ WriteBack(r, [req[r].snap EXCEPT !.rtok = links + 1, !.rexp = now + ResetTTL])
    /\ links' = links + 1
    /\ \E sent \in {"mailed", "lost"} :
          fate' = [Settle(row[req[r].user].rtok, "replaced") EXCEPT ![links + 1] = sent]
    /\ Finish(r)
    /\ UNCHANGED <<svars, started, lastSet>>

\* AccountHandler.ResetPassword
StartReset(r, l, id, p) ==
    /\ Followed(l)
    /\ Begin(r, [Ask("reset", "read", id) EXCEPT !.link = l, !.pw = p])
    /\ UNCHANGED <<svars, row, links, fate, lastSet, raced>>

\* lookupByToken, the expiry, the digest, then the strength of the password
ResetRead(r) ==
    /\ At(r, "reset", "read")
    /\ LET q == req[r]
           u == row[q.user]
       IN  IF u.here /\ IsPasswordResetTokenValid(u) /\ u.rtok = q.link /\ q.pw \in Strong
           THEN Read(r, q, "write")
           ELSE Finish(r)
    /\ UNCHANGED <<svars, row, started, links, fate, lastSet, raced>>

\* The new password is written with what the request has read of the row.
SetPassword(r) ==
    /\ WriteBack(r, ClearPasswordResetToken([req[r].snap EXCEPT !.pw = req[r].pw]))
    /\ lastSet' = [lastSet EXCEPT ![req[r].user] = [pw |-> req[r].pw, at |-> now]]
    /\ Goto(r, "revoke")

ResetWrite(r) ==
    /\ At(r, "reset", "write")
    /\ SetPassword(r)
    /\ fate' = Use(req[r].link)
    /\ UNCHANGED <<svars, started, links>>

\* AccountHandler.ChangePassword behind RequireAuth
StartChange(r, j, p) ==
    /\ Accepted(j)
    /\ Begin(r, [Ask("change", "read", tok[j].user) EXCEPT !.pw = p])
    /\ UNCHANGED <<svars, row, links, fate, lastSet, raced>>

\* The current password `cur` must match, the new one must be strong.
ChangeRead(r, cur) ==
    /\ At(r, "change", "read")
    /\ LET q == req[r]
           u == row[q.user]
       IN  IF u.here /\ u.pw = cur /\ q.pw \in Strong
           THEN Read(r, q, "write")
           ELSE Finish(r)
    /\ UNCHANGED <<svars, row, started, links, fate, lastSet, raced>>

\* An outstanding reset link goes with the old password.
ChangeWrite(r) ==
    /\ At(r, "change", "write")
    /\ SetPassword(r)
    /\ fate' = Settle(row[req[r].user].rtok, "cancelled")
    /\ UNCHANGED <<svars, started, links>>

-----------------------------------------------------------------------------
(* Operators and moderators *)

\* admin create: the operator vouches for the address.
CreateByAdmin(id, p, role) ==
    /\ p \in Strong
    /\ Create(id, [NewUser(p, role) EXCEPT !.verified = TRUE])
    /\ UNCHANGED <<svars, req, started, links, fate, raced>>

\* admin promote reads the row ...
StartPromote(r, id, role) ==
    /\ row[id].here /\ row[id].role # role
    /\ Begin(r, [Ask("promote", "write", id) EXCEPT !.role = role, !.snap = row[id]])
    /\ UNCHANGED <<svars, row, links, fate, lastSet, raced>>

\* ... and writes it back with the new role.
Promote(r) ==
    /\ At(r, "promote", "write")
    /\ WriteBack(r, [req[r].snap EXCEPT !.role = req[r].role])
    /\ Finish(r)
    /\ UNCHANGED <<svars, started, links, fate, lastSet>>

\* UserRepository.BanUser, for good or for a while; the moderator's own session
\* is not among those modelled here.
BanUser(id, until) ==
    /\ row[id].here
    /\ row' = [row EXCEPT ![id].ban = [on |-> TRUE, until |-> until, at |-> now]]
    /\ UNCHANGED <<svars, req, started, links, fate, lastSet, raced>>

UnbanUser(id) ==
    /\ row[id].here /\ row[id].ban.on
    /\ row' = [row EXCEPT ![id].ban = NoBan]
    /\ UNCHANGED <<svars, req, started, links, fate, lastSet, raced>>

\* A statement fails, the client goes away or the process dies: what is left of
\* the request does not happen.
BreakOff(r) ==
    /\ Fails /\ req[r] # Idle
    /\ Finish(r)
    /\ UNCHANGED <<svars, row, started, links, fate, lastSet, raced>>

-----------------------------------------------------------------------------

Init ==
    /\ SessionsInit
    /\ row = [u \in User |-> NoRow]
    /\ req = [r \in Req |-> Idle]
    /\ started = 0
    /\ links = 0
    /\ fate = [l \in Link |-> "none"]
    /\ lastSet = [u \in User |-> [pw |-> NoRow.pw, at |-> 0]]
    /\ raced = FALSE

Arrive(r) ==
    \/ \E id \in User, p \in Password : StartRegister(r, id, p) \/ StartLogin(r, id, p)
    \/ \E j \in Jti : StartRefresh(r, j) \/ StartLogoutAll(r, j) \/ StartSend(r, j)
    \/ \E j \in Jti, k \in Jti \cup {NoJti} : StartLogout(r, j, k)
    \/ \E l \in Link, id \in User : StartVerify(r, l, id)
    \/ \E l \in Link, id \in User, p \in Password : StartReset(r, l, id, p)
    \/ \E id \in User : StartForgot(r, id)
    \/ \E j \in Jti, p \in Password : StartChange(r, j, p)
    \/ \E id \in User, role \in Role : StartPromote(r, id, role)

Proceed(r) ==
    \/ Register(r) \/ LoginLookup(r) \/ LoginRecord(r) \/ IssueRefresh(r) \/ RenewAccess(r)
    \/ RefreshCheck(r) \/ RefreshLookup(r)
    \/ LogoutAccess(r) \/ LogoutRefresh(r) \/ RevokeSessions(r) \/ MarkSessions(r)
    \/ SendRead(r) \/ SendVerificationEmail(r) \/ VerifyRead(r) \/ VerifyWrite(r)
    \/ ForgotRead(r) \/ RequestPasswordReset(r) \/ ResetRead(r) \/ ResetWrite(r)
    \/ \E cur \in Password : ChangeRead(r, cur)
    \/ ChangeWrite(r) \/ Promote(r)

Environment ==
    \/ (Tick \/ Outage) /\ UNCHANGED avars
    \/ \E id \in User, p \in Password, role \in Role : CreateByAdmin(id, p, role)
    \/ \E id \in User, until \in {0, now + BanTTL} : BanUser(id, until)
    \/ \E id \in User : UnbanUser(id)

Next ==
    \/ \E r \in Req : Arrive(r) \/ Proceed(r) \/ BreakOff(r)
    \/ Environment

Spec == Init /\ [][Next]_vars

-----------------------------------------------------------------------------
(* Properties *)

TypeOK ==
    /\ SessionsTypeOK
    /\ row \in [User -> Row]
    /\ req \in [Req -> Request]
    /\ started \in 0..MaxRequests
    /\ links \in 0..MaxLink
    /\ fate \in [Link -> Fate]
    /\ lastSet \in [User -> [pw : Password, at : Nat]]
    /\ raced \in BOOLEAN

\* As long as no write has undone another, a link works at most once, and a link
\* that was used, replaced by a newer one or cancelled by a password change is
\* not the one stored in the row.
LinksEndOnce ==
    ~raced => /\ \A l \in Link : fate[l] # "reused"
              /\ \A id \in User : \A l \in {row[id].vtok, row[id].rtok} \ {0} :
                    fate[l] \in {"mailed", "lost"}

\* As long as no write has undone another, a login on its way to a token brought
\* the password last accepted for the account, or arrived no later than that one
\* was set: whatever else was written to the row since, an old password is out.
OldPasswordBuysNothing ==
    ~raced => \A r \in Req :
        LET q == req[r] IN
        q.kind = "login" /\ q.step \in {"write", "mint", "renew"} =>
            q.pw = lastSet[q.user].pw \/ q.since <= lastSet[q.user].at

\* A login or a refresh that is on its way to a token while the user is banned
\* arrived no later than the ban: nothing that starts afterwards gets through.
BannedMintsNothing ==
    \A r \in Req :
        LET q == req[r] IN
        /\ q.kind \in {"login", "refresh"}
        /\ q.step \in {"write", "mint", "renew"}
        /\ IsCurrentlyBanned(row[q.user])
        => q.since <= row[q.user].ban.at

\* Whole-row writes of rows read before a ban, or before it was lifted, neither
\* lift nor restore it: what changes a ban changes nothing else.
BanOnlyByModerators ==
    [][\A id \in User : row'[id].ban # row[id].ban =>
          Columns(row'[id]) = Columns(row[id]) /\ UNCHANGED req]_vars

\* No refresh gets past its check with a token that was revoked before it: it has
\* expired since the request came in, or it is one of those RevokedStayUseless excepts.
RevokedBuysNothing ==
    [][\A r \in Req : At(r, "refresh", "check") /\ req'[r].step = "lookup" =>
          LET j == req[r].jti
          IN  j \in dead \ revived => Forgotten(j) \/ ~Valid(j)]_vars

\* What the comment on ChangePassword asks for: "a live reset link must not
\* outlast a deliberate password change".  It does, when a request that read the
\* row before the change writes it back afterwards.
CancelledLinkIsDead ==
    \A id \in User : row[id].rtok # 0 => fate[row[id].rtok] # "cancelled"
=============================================================================
