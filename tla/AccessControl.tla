--------------------------- MODULE AccessControl ---------------------------
(***************************************************************************)
(* Roles: who may call which route, and what the answer rests on.  The     *)
(* role of a request is the one in its access token (jwt.strategy.ts reads *)
(* no row), a token is signed for the role and the account that login() or *)
(* refreshTokens() read (auth.service.ts), and RolesGuard compares it with *)
(* the permission of the route (permissions.ts, the controllers).          *)
(* changeRole(), deactivateUser() and activateUser() (users.service.ts)    *)
(* change the rows while older tokens are still out.                       *)
(*                                                                         *)
(* One organisation.  Requests that only read take no step, and the routes *)
(* of auth.controller.ts are left out: they ask for no role and change     *)
(* nothing but the caller's own account.  Which refresh tokens a           *)
(* deactivation ends is AuthSessions: here an account that is active may   *)
(* always get a token.                                                     *)
(***************************************************************************)
EXTENDS Naturals, FiniteSets

CONSTANTS
    User,     \* the users of the organisation
    Role,     \* the roles that are handed out
    Request,  \* handlers the server runs at the same time
    None      \* null

ASSUME NoneAssumption == None \notin User \cup Request

ASSUME RoleAssumption ==
    /\ Role \subseteq {"admin", "manager", "agent"}
    /\ {"admin", "agent"} \subseteq Role

VARIABLES
    role,      \* users.role
    active,    \* users.is_active
    claims,    \* access tokens that have not run out: a user and a role
    pending,   \* users with a login that waits for its second factor
    req        \* what each handler waits for, and what it has read

rows == <<role, active>>

tokens == <<claims, pending>>

vars == <<rows, tokens, req>>

Claim == [user : User, role : Role]

-----------------------------------------------------------------------------
(* The routes of an organisation, as functions from handler to permission. *)

\* permissions.ts, as far as a route below refers to it.
PERMISSIONS == [
    USERS_LIST |-> {"admin", "manager"}, USERS_INVITE |-> {"admin"},
    USERS_CHANGE_ROLE |-> {"admin"}, USERS_DEACTIVATE |-> {"admin"},
    USERS_ACTIVATE |-> {"admin"}, USERS_FORCE_LOGOUT |-> {"admin"},
    COMPLIANCE_CONSENT_WRITE |-> {"admin", "manager"},
    COMPLIANCE_DNC_READ |-> {"admin", "manager", "agent"},
    COMPLIANCE_DNC_WRITE |-> {"admin", "manager"}, COMPLIANCE_DNC_SYNC |-> {"admin"},
    COMPLIANCE_DISCLOSURES_READ |-> {"admin", "manager"},
    COMPLIANCE_DISCLOSURES_WRITE |-> {"admin", "manager"},
    COMPLIANCE_AUDIT_READ |-> {"admin"}, COMPLIANCE_AUDIT_EXPORT |-> {"admin"},
    CAMPAIGNS_READ |-> {"admin", "manager"}, CAMPAIGNS_WRITE |-> {"admin", "manager"},
    CAMPAIGNS_DELETE |-> {"admin"}, CAMPAIGNS_LEADS_UPLOAD |-> {"admin", "manager"},
    LEADS_READ |-> {"admin", "manager"}, LEADS_WRITE |-> {"admin", "manager"},
    LEADS_EXPORT |-> {"admin", "manager"},
    WEBHOOKS_READ |-> {"admin"}, WEBHOOKS_WRITE |-> {"admin"}]

UserRoutes == [
    listUsers |-> "USERS_LIST", inviteUser |-> "USERS_INVITE",
    changeRole |-> "USERS_CHANGE_ROLE", deactivateUser |-> "USERS_DEACTIVATE",
    activateUser |-> "USERS_ACTIVATE", forceLogout |-> "USERS_FORCE_LOGOUT"]

CampaignRoutes == [
    create |-> "CAMPAIGNS_WRITE", list |-> "CAMPAIGNS_READ", findOne |-> "CAMPAIGNS_READ",
    update |-> "CAMPAIGNS_WRITE", remove |-> "CAMPAIGNS_DELETE",
    activate |-> "CAMPAIGNS_WRITE", pause |-> "CAMPAIGNS_WRITE", resume |-> "CAMPAIGNS_WRITE",
    uploadLeads |-> "CAMPAIGNS_LEADS_UPLOAD", getUploadStatus |-> "CAMPAIGNS_READ"]

LeadRoutes == [
    list |-> "LEADS_READ", export |-> "LEADS_EXPORT", findOne |-> "LEADS_READ",
    update |-> "LEADS_WRITE"]

ComplianceRoutes == [
    recordConsent |-> "COMPLIANCE_CONSENT_WRITE", getConsent |-> "COMPLIANCE_CONSENT_WRITE",
    checkDnc |-> "COMPLIANCE_DNC_READ", addDnc |-> "COMPLIANCE_DNC_WRITE",
    syncDnc |-> "COMPLIANCE_DNC_SYNC", listDisclosures |-> "COMPLIANCE_DISCLOSURES_READ",
    createDisclosure |-> "COMPLIANCE_DISCLOSURES_WRITE",
    updateDisclosure |-> "COMPLIANCE_DISCLOSURES_WRITE",
    queryAudit |-> "COMPLIANCE_AUDIT_READ", exportAudit |-> "COMPLIANCE_AUDIT_EXPORT"]

WebhookRoutes == [
    create |-> "WEBHOOKS_WRITE", list |-> "WEBHOOKS_READ", findOne |-> "WEBHOOKS_READ",
    update |-> "WEBHOOKS_WRITE", remove |-> "WEBHOOKS_WRITE", rotateSecret |-> "WEBHOOKS_WRITE"]

\* The handlers that change no row, or one of users in an action of its own below.
Reads == {"listUsers", "list", "findOne", "getUploadStatus", "export", "getConsent",
          "checkDnc", "syncDnc", "listDisclosures", "queryAudit", "exportAudit"}

Apart == {"changeRole", "deactivateUser", "activateUser"}

\* The permissions behind which something is written.
WritePermissions ==
    UNION {{routes[op] : op \in DOMAIN routes \ (Reads \cup Apart)} :
             routes \in {UserRoutes, CampaignRoutes, LeadRoutes, ComplianceRoutes, WebhookRoutes}}

\* JwtAuthGuard and RolesGuard: u holds a token with a role of the permission.
CanActivate(u, permission) ==
    \E c \in claims : c.user = u /\ c.role \in PERMISSIONS[permission]

-----------------------------------------------------------------------------

Idle == [pc |-> "idle", actor |-> None, target |-> None, role |-> "agent"]

Handler ==
    [pc : {"idle", "write", "changeRole", "deactivate", "activate", "mfa", "mint"},
     actor : User \cup {None}, target : User \cup {None}, role : Role]

\* The admins that can still log in.
Admins == {u \in User : role[u] = "admin" /\ active[u]}

TypeOK ==
    /\ role \in [User -> Role]
    /\ active \in [User -> BOOLEAN]
    /\ claims \subseteq Claim
    /\ pending \subseteq User
    /\ req \in [Request -> Handler]
    /\ \A r \in Request :
         /\ req[r] # Idle => req[r].actor \in User
         /\ req[r].pc \in {"changeRole", "deactivate"} => req[r].actor # req[r].target

Init ==
    /\ role \in {f \in [User -> Role] : \E u \in User : f[u] = "admin"}
    /\ active = [u \in User |-> TRUE]
    /\ claims = {}
    /\ pending = {}
    /\ req = [r \in Request |-> Idle]

Begin(r, handler) ==
    /\ req[r] = Idle
    /\ req' = [req EXCEPT ![r] = handler]
    /\ UNCHANGED <<rows, tokens>>

Finish(r) == req' = [req EXCEPT ![r] = Idle]

-----------------------------------------------------------------------------
(* Access tokens.                                                          *)

\* Seeded fault: a refresh keeps the role of the token that it replaces.
RoleOfToken(u) ==
    IF [user |-> u, role |-> "admin"] \in claims THEN "admin" ELSE role[u]

RoleOfRow(u) == role[u]

\* Seeded fault: nobody asks whether the account is active.
Anybody(u) == TRUE

MayLogIn(u) == active[u]

\* validateUser() and login(): the row is read once, before the password, and
\* with it whether a second factor is asked for.
LoginFind(r, u) ==
    /\ MayLogIn(u)
    /\ \/ Begin(r, [Idle EXCEPT !.pc = "mint", !.actor = u, !.role = role[u]])
       \/ Begin(r, [Idle EXCEPT !.pc = "mfa", !.actor = u])

MfaRequired(r) ==
    /\ req[r].pc = "mfa"
    /\ pending' = pending \cup {req[r].actor}
    /\ Finish(r)
    /\ UNCHANGED <<rows, claims>>

\* The second step of a login reads the row again, but not is_active.
MfaFind(r, u) ==
    /\ u \in pending
    /\ Begin(r, [Idle EXCEPT !.pc = "mint", !.actor = u, !.role = role[u]])

RefreshFind(r, u) ==
    /\ MayLogIn(u)
    /\ Begin(r, [Idle EXCEPT !.pc = "mint", !.actor = u, !.role = RoleOfRow(u)])

Mint(r) ==
    /\ req[r].pc = "mint"
    /\ claims' = claims \cup {[user |-> req[r].actor, role |-> req[r].role]}
    /\ Finish(r)
    /\ UNCHANGED <<rows, pending>>

\* 15 minutes.
ExpireClaim(c) ==
    /\ c \in claims
    /\ claims' = claims \ {c}
    /\ UNCHANGED <<rows, pending, req>>

\* 5 minutes.
ExpirePending(u) ==
    /\ u \in pending
    /\ pending' = pending \ {u}
    /\ UNCHANGED <<rows, claims, req>>

-----------------------------------------------------------------------------
(* Requests.                                                               *)

ServeFind(r, u) ==
    /\ \E permission \in WritePermissions : CanActivate(u, permission)
    /\ Begin(r, [Idle EXCEPT !.pc = "write", !.actor = u])

Serve(r) == req[r].pc = "write" /\ Finish(r) /\ UNCHANGED <<rows, tokens>>

\* Seeded fault: an admin may change everybody, themselves included.
Everybody(u, v) == TRUE

Others(u, v) == u # v

ChangeRoleFind(r, u, v, new) ==
    /\ CanActivate(u, "USERS_CHANGE_ROLE")
    /\ Others(u, v)
    /\ Begin(r, [pc |-> "changeRole", actor |-> u, target |-> v, role |-> new])

ChangeRole(r) ==
    /\ req[r].pc = "changeRole"
    /\ role' = [role EXCEPT ![req[r].target] = req[r].role]
    /\ Finish(r)
    /\ UNCHANGED <<active, tokens>>

DeactivateFind(r, u, v) ==
    /\ CanActivate(u, "USERS_DEACTIVATE")
    /\ Others(u, v)
    /\ active[v]
    /\ Begin(r, [Idle EXCEPT !.pc = "deactivate", !.actor = u, !.target = v])

Deactivate(r) ==
    /\ req[r].pc = "deactivate"
    /\ active' = [active EXCEPT ![req[r].target] = FALSE]
    /\ Finish(r)
    /\ UNCHANGED <<role, tokens>>

ActivateFind(r, u, v) ==
    /\ CanActivate(u, "USERS_ACTIVATE")
    /\ ~active[v]
    /\ Begin(r, [Idle EXCEPT !.pc = "activate", !.actor = u, !.target = v])

Activate(r) ==
    /\ req[r].pc = "activate"
    /\ active' = [active EXCEPT ![req[r].target] = TRUE]
    /\ Finish(r)
    /\ UNCHANGED <<role, tokens>>

-----------------------------------------------------------------------------

\* A handler that throws or is stopped.
Abandon(r) == req[r] # Idle /\ Finish(r) /\ UNCHANGED <<rows, tokens>>

\* What a handler that waits does next.
Proceed(r) ==
    \/ MfaRequired(r)
    \/ Mint(r)
    \/ Serve(r)
    \/ ChangeRole(r)
    \/ Deactivate(r)
    \/ Activate(r)
    \/ Abandon(r)

Next ==
    \/ \E r \in Request :
         \/ Proceed(r)
         \/ \E u \in User :
              \/ LoginFind(r, u)
              \/ MfaFind(r, u)
              \/ RefreshFind(r, u)
              \/ ServeFind(r, u)
         \/ \E u, v \in User :
              \/ \E new \in Role : ChangeRoleFind(r, u, v, new)
              \/ DeactivateFind(r, u, v)
              \/ ActivateFind(r, u, v)
    \/ \E c \in Claim : ExpireClaim(c)
    \/ \E u \in User : ExpirePending(u)

\* A handler that waits for the database or for bcrypt goes on, and time passes.
\* Nobody has to call anything.
Fairness ==
    /\ \A r \in Request : WF_vars(Proceed(r))
    /\ \A c \in Claim : WF_vars(ExpireClaim(c))
    /\ \A u \in User : WF_vars(ExpirePending(u))

Spec == Init /\ [][Next]_vars /\ Fairness

-----------------------------------------------------------------------------

\* The last admin who can log in is demoted or deactivated only by somebody who
\* is no active admin any more when it is written: by a token from before, or
\* because two admins' requests cross.
LastAdminLeavesByOverrule ==
    [][Admins # {} /\ Admins' = {} =>
         \E r \in Request :
            /\ req[r].pc \in {"changeRole", "deactivate"}
            /\ req'[r] = Idle
            /\ req[r].actor \notin Admins]_vars

\* A user who stays an agent from some time on is in the end refused whatever
\* would change the organisation's tables, on every route of every controller,
\* although tokens with the old role are signed and honoured for a while.
DemotionTakesHold ==
    \A u \in User :
        <>[](role[u] = "agent")
            => <>[](\A r \in Request :
                      req[r].actor = u => req[r].pc \in {"mfa", "mint"})

\* A user who stays deactivated has in the end no token and no login under
\* way, although the second step of a login does not look at is_active.
DeactivationTakesHold ==
    \A u \in User :
        <>[](~active[u])
            => <>[](/\ \A c \in claims : c.user # u
                    /\ \A r \in Request : req[r].actor # u)

\* FSD AC-AUTH-11: "Deactivate -> user's existing session ends".  Nobody who
\* is deactivated has a request admitted, by an older access token either.
InactiveIsRefused ==
    [][\A r \in Request :
         req[r] = Idle /\ req'[r].pc \in {"write", "changeRole", "deactivate", "activate"}
            => active[req'[r].actor]]_vars
=============================================================================
