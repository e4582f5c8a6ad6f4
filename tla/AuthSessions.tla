---------------------------- MODULE AuthSessions ----------------------------
(***************************************************************************)
(* Refresh tokens and device sessions of the API: who is given one, who    *)
(* may exchange one, and what takes them away.  Models the part of         *)
(* auth.service.ts and users.service.ts that reads or writes the tables    *)
(* refresh_tokens and user_sessions and the column users.is_active.        *)
(*                                                                         *)
(* A request is one execution of an async handler.  Between two awaited    *)
(* statements any other request may run, so a handler is one action per    *)
(* database statement; what it read earlier is kept in req[r].             *)
(*                                                                         *)
(* The password, lockout and second-factor checks are not in this module   *)
(* (LoginLockout, SecondFactor): a request they refuse ends by Abandon,    *)
(* as does one whose server crashes or whose statement fails.              *)
(***************************************************************************)
EXTENDS FiniteSets

CONSTANTS
    User,       \* rows of users
    Admin,      \* ids that call the admin endpoints; may meet User
    Token,      \* ids for rows of refresh_tokens
    Session,    \* ids for rows of user_sessions
    Request,    \* handlers the server runs at the same time
    None        \* a null reference

ASSUME NoneAssumption == None \notin User \cup Token \cup Session \cup Request

VARIABLES
    account,        \* users.is_active, or "absent" before the row exists
    refreshToken,   \* the rows of refresh_tokens
    userSession,    \* the rows of user_sessions
    mfaPending,     \* signed mfa_pending JWTs that have not expired
    req             \* what each handler has done and read

vars == <<account, refreshToken, userSession, mfaPending, req>>

(***************************************************************************)
(* A purge is the transaction that revokes all tokens and deletes all      *)
(* sessions of a user.  Lineage is history, read by no guard.  An          *)
(* admission is "fresh" until the next purge of its user.  Every row that  *)
(* a purge finds is "purged", whatever it was; a request or a pending JWT  *)
(* that had passed its check is "escaped", as is what it then writes: it   *)
(* was checked before the last purge.  A rotation is a new check of        *)
(* is_active, so it carries no escape on to the successor.                 *)
(***************************************************************************)
Lineage == {"fresh", "purged", "escaped"}

\* Handlers past the read that admits them and with a row still to write.
Admitted == {"login", "mfa", "rotate", "remint", "session"}

\* What the handlers wait at: the statement they run next.
Pc == Admitted \cup {"idle", "logout", "logoutSession", "revokeSession", "revokeAll",
                    "reset", "deactivate", "activate", "forceLogout"}

Account == {"absent", "active", "inactive"}

NoRow == [status |-> "absent", user |-> None, parent |-> None, by |-> None,
          lineage |-> "fresh"]

NoSession == [user |-> None, lineage |-> "fresh"]

TokenRow == {NoRow} \cup
    [status : {"live", "dead"}, user : User, parent : Token \cup {None}, by : Request,
     lineage : Lineage]

SessionRow == {NoSession} \cup [user : User, lineage : Lineage]

PendingJwt == [user : User, lineage : {"fresh", "escaped"}]

Handler ==
    [pc : Pc, user : User \cup {None}, tok : Token \cup {None}, ses : Session \cup {None},
     lineage : Lineage]

\* user_id is a foreign key of both tables.
OwnersExist ==
    /\ \A t \in Token : refreshToken[t] # NoRow
                            => account[refreshToken[t].user] # "absent"
    /\ \A s \in Session : userSession[s] # NoSession
                            => account[userSession[s].user] # "absent"

\* Every variable has its type, and the rows of both tables have an owner:
\* no path mints before the account it mints for exists.
TypeOK ==
    /\ account \in [User -> Account]
    /\ refreshToken \in [Token -> TokenRow]
    /\ userSession \in [Session -> SessionRow]
    /\ mfaPending \subseteq PendingJwt
    /\ req \in [Request -> Handler]
    /\ OwnersExist

Idle == [pc |-> "idle", user |-> None, tok |-> None, ses |-> None, lineage |-> "fresh"]

Init ==
    /\ account = [u \in User |-> "absent"]
    /\ refreshToken = [t \in Token |-> NoRow]
    /\ userSession = [s \in Session |-> NoSession]
    /\ mfaPending = {}
    /\ req = [r \in Request |-> Idle]

Live(t) == refreshToken[t].status = "live"

Start(r, pc, u, t, lineage) ==
    /\ req[r] = Idle
    /\ req' = [req EXCEPT ![r] =
            [pc |-> pc, user |-> u, tok |-> t, ses |-> None, lineage |-> lineage]]

\* A handler of the session list takes the id of a session along.
StartOnSession(r, pc, u, s) ==
    /\ req[r] = Idle
    /\ req' = [req EXCEPT ![r] =
            [pc |-> pc, user |-> u, tok |-> None, ses |-> s, lineage |-> "fresh"]]

Continue(r, pc) == req' = [req EXCEPT ![r].pc = pc]

Finish(r) == req' = [req EXCEPT ![r] = Idle]

Rows == <<account, refreshToken, userSession, mfaPending>>

-----------------------------------------------------------------------------
(* Accounts come to exist.                                                 *)

\* register(): the admin of a new organisation; gets no token until login.
Register(u) ==
    /\ account[u] = "absent"
    /\ account' = [account EXCEPT ![u] = "active"]
    /\ UNCHANGED <<refreshToken, userSession, mfaPending, req>>

\* Seeded fault: acceptInvite() goes on to the tokens before user.create.
AcceptInviteUncreated(r, u) ==
    /\ account[u] = "absent"
    /\ Start(r, "mfa", u, None, "fresh")
    /\ UNCHANGED Rows

\* acceptInvite() up to user.create: the new user is logged in at once.
AcceptInvite(r, u) ==
    /\ account[u] = "absent"
    /\ account' = [account EXCEPT ![u] = "active"]
    /\ Start(r, "mfa", u, None, "fresh")
    /\ UNCHANGED <<refreshToken, userSession, mfaPending>>

-----------------------------------------------------------------------------
(* Login, its second step, and what both mint.                             *)

MayLogIn(u) == account[u] = "active"

\* validateUser() reads the row; an inactive account is refused.
LoginFind(r, u) ==
    /\ MayLogIn(u)
    /\ Start(r, "login", u, None, "fresh")
    /\ UNCHANGED Rows

\* login() for an account that needs a second factor: no row is written.
LoginMfaRequired(r) ==
    /\ req[r].pc = "login"
    /\ mfaPending' = mfaPending \cup {[user |-> req[r].user, lineage |-> req[r].lineage]}
    /\ Finish(r)
    /\ UNCHANGED <<account, refreshToken, userSession>>

\* verifyMfaChallenge(), recoverMfa(), verifyMfaEmailChallenge(): the JWT
\* names the user; the row that is read is not asked for is_active.
MfaFind(r, jwt) ==
    /\ jwt \in mfaPending
    /\ Start(r, "mfa", jwt.user, None, jwt.lineage)
    /\ UNCHANGED Rows

\* refreshToken.create in generateTokens().  After a rotation the handler
\* answers; after a login it goes on to createSession().
Mint(r, t) ==
    /\ req[r].pc \in {"login", "mfa", "remint"}
    /\ refreshToken[t] = NoRow
    /\ refreshToken' = [refreshToken EXCEPT ![t] =
            [status |-> "live", user |-> req[r].user, parent |-> req[r].tok,
             by |-> r, lineage |-> req[r].lineage]]
    /\ IF req[r].pc = "remint" THEN Finish(r) ELSE Continue(r, "session")
    /\ UNCHANGED <<account, userSession, mfaPending>>

\* userSession.create in createSession(), the last row of a login; the id is
\* a new uuid, so no handler has it in hand.
CreateSession(r, s) ==
    /\ req[r].pc = "session"
    /\ userSession[s] = NoSession
    /\ \A q \in Request : req[q].ses # s
    /\ userSession' = [userSession EXCEPT ![s] =
            [user |-> req[r].user, lineage |-> req[r].lineage]]
    /\ Finish(r)
    /\ UNCHANGED <<account, refreshToken, mfaPending>>

-----------------------------------------------------------------------------
(* Rotation.                                                               *)

\* Seeded fault: refreshTokens() does not look at revoked_at.
RefreshableOnceRevoked(t) ==
    /\ refreshToken[t] # NoRow
    /\ account[refreshToken[t].user] = "active"

\* Seeded fault: refreshTokens() does not look at the user's is_active.
RefreshableInactive(t) == Live(t)

Refreshable(t) ==
    /\ Live(t)
    /\ account[refreshToken[t].user] = "active"

\* The history a rotation hands on: that a purge saw the chain, never that
\* an earlier check preceded one.
HandedOn(lineage) == IF lineage = "purged" THEN "purged" ELSE "fresh"

\* refreshTokens(), findUnique with its user, and both refusals.
RefreshFind(r, t) ==
    /\ Refreshable(t)
    /\ Start(r, "rotate", refreshToken[t].user, t, HandedOn(refreshToken[t].lineage))
    /\ UNCHANGED Rows

\* refreshTokens(), update of revoked_at by id, whatever it is by now.
RefreshRevoke(r) ==
    /\ req[r].pc = "rotate"
    /\ refreshToken' = [refreshToken EXCEPT ![req[r].tok].status = "dead"]
    /\ Continue(r, "remint")
    /\ UNCHANGED <<account, userSession, mfaPending>>

-----------------------------------------------------------------------------
(* Logout and the user's own session list.                                 *)

\* logout(), findUnique of the token in the body, whoever owns it.
LogoutFind(r, u, t) ==
    /\ account[u] # "absent"
    /\ Start(r, IF Live(t) THEN "logout" ELSE "logoutSession", u, t, "fresh")
    /\ UNCHANGED Rows

\* logout(), update of revoked_at.
LogoutRevoke(r) ==
    /\ req[r].pc = "logout"
    /\ refreshToken' = [refreshToken EXCEPT ![req[r].tok].status = "dead"]
    /\ Continue(r, "logoutSession")
    /\ UNCHANGED <<account, userSession, mfaPending>>

DeleteSessions(gone) ==
    userSession' = [s \in Session |-> IF s \in gone THEN NoSession ELSE userSession[s]]

\* The user_id in the where clause of every statement on user_sessions.
SessionsOf(u) == {s \in Session : userSession[s].user = u}

\* logout(), deleteMany of the session the X-Session-ID header names, if any.
LogoutSession(r, sessionId) ==
    /\ req[r].pc = "logoutSession"
    /\ DeleteSessions({sessionId} \cap SessionsOf(req[r].user))
    /\ Finish(r)
    /\ UNCHANGED <<account, refreshToken, mfaPending>>

\* revokeSession(), findFirst: a session of the caller, or 404.
RevokeSessionFind(r, u, s) ==
    /\ s \in SessionsOf(u)
    /\ StartOnSession(r, "revokeSession", u, s)
    /\ UNCHANGED Rows

\* revokeSession(), delete by id; it throws if the row has gone by now.
RevokeSessionDelete(r) ==
    /\ req[r].pc = "revokeSession"
    /\ DeleteSessions({req[r].ses})
    /\ Finish(r)
    /\ UNCHANGED <<account, refreshToken, mfaPending>>

\* revokeAllSessions(), the user row and the password; the header names the
\* current session, if any.
RevokeAllFind(r, u, current) ==
    /\ account[u] # "absent"
    /\ StartOnSession(r, "revokeAll", u, current)
    /\ UNCHANGED Rows

\* revokeAllSessions(), deleteMany: all but the current one, those created
\* since the password was checked with them; no token is touched.
RevokeAllDelete(r) ==
    /\ req[r].pc = "revokeAll"
    /\ DeleteSessions(SessionsOf(req[r].user) \ {req[r].ses})
    /\ Finish(r)
    /\ UNCHANGED <<account, refreshToken, mfaPending>>

-----------------------------------------------------------------------------
(* What takes every row of a user away.                                    *)

\* The history a purge of u leaves behind.
PurgedRow(row, u) ==
    IF row.user # u THEN row ELSE [row EXCEPT !.lineage = "purged"]

Overtaken(u) ==
    [r \in Request |-> IF req[r].user = u /\ req[r].pc \in Admitted
                       THEN [req[r] EXCEPT !.lineage = "escaped"] ELSE req[r]]

OvertakenJwts(u) ==
    {IF jwt.user = u THEN [jwt EXCEPT !.lineage = "escaped"] ELSE jwt : jwt \in mfaPending}

\* refreshToken.updateMany: every row of u whose revoked_at is null.
RevokeTokensOf(u) ==
    [t \in Token |->
        IF refreshToken[t].user = u
        THEN [PurgedRow(refreshToken[t], u) EXCEPT !.status = "dead"]
        ELSE refreshToken[t]]

\* Seeded fault: the transaction leaves the tokens as they are.
PurgeOfSessionsOnly(r, u) ==
    /\ refreshToken' = [t \in Token |-> PurgedRow(refreshToken[t], u)]
    /\ userSession' = [s \in Session |->
            IF userSession[s].user = u THEN NoSession ELSE userSession[s]]
    /\ mfaPending' = OvertakenJwts(u)
    /\ req' = [Overtaken(u) EXCEPT ![r] = Idle]

\* The transaction shared by resetPassword(), deactivateUser(), forceLogout().
Purge(r, u) ==
    /\ refreshToken' = RevokeTokensOf(u)
    /\ userSession' = [s \in Session |->
            IF userSession[s].user = u THEN NoSession ELSE userSession[s]]
    /\ mfaPending' = OvertakenJwts(u)
    /\ req' = [Overtaken(u) EXCEPT ![r] = Idle]

\* resetPassword() with a valid link, up to the bcrypt hash.
ResetFind(r, u) ==
    /\ account[u] # "absent"
    /\ Start(r, "reset", u, None, "fresh")
    /\ UNCHANGED Rows

ResetCommit(r) ==
    /\ req[r].pc = "reset"
    /\ Purge(r, req[r].user)
    /\ UNCHANGED account

\* deactivateUser(): not the caller itself, and not already inactive.
DeactivateFind(r, admin, u) ==
    /\ admin # u
    /\ account[u] = "active"
    /\ Start(r, "deactivate", u, None, "fresh")
    /\ UNCHANGED Rows

\* Seeded fault: the column is written, the tables are left to forceLogout().
DeactivateRowOnly(r) ==
    /\ req[r].pc = "deactivate"
    /\ account' = [account EXCEPT ![req[r].user] = "inactive"]
    /\ Finish(r)
    /\ UNCHANGED <<refreshToken, userSession, mfaPending>>

DeactivateCommit(r) ==
    /\ req[r].pc = "deactivate"
    /\ account' = [account EXCEPT ![req[r].user] = "inactive"]
    /\ Purge(r, req[r].user)

ActivateFind(r, u) ==
    /\ account[u] = "inactive"
    /\ Start(r, "activate", u, None, "fresh")
    /\ UNCHANGED Rows

ActivateCommit(r) ==
    /\ req[r].pc = "activate"
    /\ account' = [account EXCEPT ![req[r].user] = "active"]
    /\ Finish(r)
    /\ UNCHANGED <<refreshToken, userSession, mfaPending>>

ForceLogoutFind(r, u) ==
    /\ account[u] # "absent"
    /\ Start(r, "forceLogout", u, None, "fresh")
    /\ UNCHANGED Rows

ForceLogoutCommit(r) ==
    /\ req[r].pc = "forceLogout"
    /\ Purge(r, req[r].user)
    /\ UNCHANGED account

-----------------------------------------------------------------------------
(* Refusals, failures and the passing of time.                             *)

\* A check outside this module refuses, a statement throws, or the server
\* stops: what the handler has written stays, the rest is never done.
Abandon(r) ==
    /\ req[r] # Idle
    /\ Finish(r)
    /\ UNCHANGED Rows

\* Seven days after its creation a token is refused like a revoked one.
TokenExpires(t) ==
    /\ Live(t)
    /\ refreshToken' = [refreshToken EXCEPT ![t].status = "dead"]
    /\ UNCHANGED <<account, userSession, mfaPending, req>>

\* Five minutes after login() signed it, verifyAsync rejects the JWT.
JwtExpires(jwt) ==
    /\ jwt \in mfaPending
    /\ mfaPending' = mfaPending \ {jwt}
    /\ UNCHANGED <<account, refreshToken, userSession, req>>

Next ==
    \/ \E u \in User : Register(u)
    \/ \E r \in Request, u \in User :
        \/ AcceptInvite(r, u)
        \/ LoginFind(r, u)
        \/ ResetFind(r, u)
        \/ ActivateFind(r, u)
        \/ ForceLogoutFind(r, u)
        \/ \E admin \in Admin : DeactivateFind(r, admin, u)
        \/ \E t \in Token : LogoutFind(r, u, t)
        \/ \E s \in Session : RevokeSessionFind(r, u, s)
        \/ \E s \in Session \cup {None} : RevokeAllFind(r, u, s)
    \/ \E r \in Request :
        \/ LoginMfaRequired(r)
        \/ RefreshRevoke(r)
        \/ LogoutRevoke(r)
        \/ RevokeSessionDelete(r)
        \/ RevokeAllDelete(r)
        \/ ResetCommit(r)
        \/ DeactivateCommit(r)
        \/ ActivateCommit(r)
        \/ ForceLogoutCommit(r)
        \/ Abandon(r)
        \/ \E jwt \in mfaPending : MfaFind(r, jwt)
        \/ \E t \in Token : Mint(r, t) \/ RefreshFind(r, t)
        \/ \E s \in Session : CreateSession(r, s)
        \/ \E s \in Session \cup {None} : LogoutSession(r, s)
    \/ \E t \in Token : TokenExpires(t)
    \/ \E jwt \in mfaPending : JwtExpires(jwt)

Spec == Init /\ [][Next]_vars

-----------------------------------------------------------------------------
(* What the handlers guarantee.                                            *)

\* A purge (deactivate, force logout, password reset) reaches every
\* descendant of what it found: no token that is live, and no session row,
\* goes back to a login before the last purge through rows that purge saw.
\* Rotation keeps a chain alive for months, so the refusal in
\* refreshTokens() and all statements of the transaction must agree.
PurgeReachesDescendants ==
    /\ \A t \in Token : Live(t) => refreshToken[t].lineage # "purged"
    /\ \A s \in Session : userSession[s] # NoSession => userSession[s].lineage # "purged"

\* While an account is inactive its only live tokens and sessions were
\* written by a handler, or through a pending JWT, whose is_active check came
\* before the last purge, so before the deactivation committed.  A rotation
\* checks again, so an escaped token yields nothing while the account is
\* inactive; and the next purge ends the excuse of whatever rows it finds.
InactiveOnlyEscaped ==
    \A u \in User : account[u] = "inactive" =>
        /\ \A t \in Token : Live(t) /\ refreshToken[t].user = u
                                => refreshToken[t].lineage = "escaped"
        /\ \A s \in Session : userSession[s].user = u
                                => userSession[s].lineage = "escaped"

\* One handler turns a refresh token into at most one new token: the
\* successors of a token, replayed any number of times, never outnumber the
\* requests the server ran at once.
OneSuccessorPerHandler ==
    \A c, d \in Token :
        /\ refreshToken[c].parent # None
        /\ refreshToken[c].parent = refreshToken[d].parent
        /\ refreshToken[c].by = refreshToken[d].by
        => c = d

-----------------------------------------------------------------------------
(* The abstract specification.                                             *)

\* A handler holds a grant while it is past its check with rows to write.
Gate == INSTANCE SessionGate WITH
    standing <- account,
    holder <- [t \in Token |-> refreshToken[t].user],
    good <- {t \in Token : Live(t)},
    session <- [s \in Session |-> userSession[s].user],
    grant <- [r \in Request |-> IF req[r].pc \in Admitted THEN req[r].user ELSE None],
    promised <- {jwt.user : jwt \in mfaPending}

\* The statements of all handlers, in any order, implement SessionGate: no
\* token or session is ever written for a user but by a handler admitted
\* while the account was active, or that redeems a pending JWT of one that
\* was; no revoked or expired token is good again, though two handlers may
\* rotate it; and the write that makes an account inactive leaves it nothing.
ImplementsSessionGate == Gate!Spec

-----------------------------------------------------------------------------
(* What makes them inductive: the same facts, about the handlers in flight *)
(* and the pending JWTs that will turn into rows.                          *)

FlightOK ==
    /\ \A r \in Request : req[r].pc # "idle" => req[r].user \in User
    /\ \A r \in Request : req[r].pc \in Admitted =>
        /\ account[req[r].user] # "absent"
        /\ req[r].lineage # "purged"
        /\ account[req[r].user] = "inactive" => req[r].lineage = "escaped"
    /\ \A jwt \in mfaPending :
        /\ account[jwt.user] # "absent"
        /\ account[jwt.user] = "inactive" => jwt.lineage = "escaped"

\* A token has successors only after it was revoked, and a handler that is
\* still to mint one for it has not done so before.  No token row vanishes
\* under a handler that is to revoke it.
RotationOK ==
    /\ \A c \in Token : refreshToken[c].parent # None
                            => refreshToken[refreshToken[c].parent].status = "dead"
    /\ \A r \in Request :
        /\ req[r].pc \in {"login", "mfa"} => req[r].tok = None
        /\ req[r].pc \in {"rotate", "remint", "logout"} =>
            /\ req[r].tok \in Token
            /\ refreshToken[req[r].tok] # NoRow
        /\ req[r].pc \in {"rotate", "remint"} =>
            \A c \in Token : refreshToken[c].parent = req[r].tok => refreshToken[c].by # r
        /\ req[r].pc = "remint" => refreshToken[req[r].tok].status = "dead"

IInv ==
    /\ TypeOK
    /\ FlightOK
    /\ PurgeReachesDescendants
    /\ InactiveOnlyEscaped
    /\ RotationOK
    /\ OneSuccessorPerHandler

-----------------------------------------------------------------------------
(* What the documentation says and the handlers do not keep.               *)

\* FSD 1.5: "Revoke ALL refresh tokens for this user", "Delete all
\* user_sessions for this user", "user cannot log in".
DeactivatedHasNothing ==
    \A u \in User : account[u] = "inactive" =>
        /\ \A t \in Token : ~(Live(t) /\ refreshToken[t].user = u)
        /\ \A s \in Session : userSession[s].user # u
=============================================================================
