------------------------ MODULE AccessControl_proofs ------------------------
(* Proofs about AccessControl for any users, handlers and roles.           *)
EXTENDS AccessControl, TLAPS

LEMMA IdleIsHandler == Idle \in Handler
  BY RoleAssumption DEF Idle, Handler

\* A handler that starts is one of a user, and no admin's against themselves.
LEMMA BeginKeepsType ==
  ASSUME TypeOK, NEW r \in Request, NEW handler \in Handler, Begin(r, handler),
         handler.actor \in User,
         handler.pc \in {"changeRole", "deactivate"} => handler.actor # handler.target
  PROVE  TypeOK'
  BY DEF Begin, TypeOK, rows, tokens, Admins

\* A handler that ends leaves the others as they are.
LEMMA FinishKeepsType ==
  ASSUME TypeOK, NEW r \in Request, Finish(r),
         role' \in [User -> Role], active' \in [User -> BOOLEAN],
         claims' \subseteq Claim, pending' \subseteq User
  PROVE  TypeOK'
  <1>1. Idle.pc = "idle"
    BY DEF Idle
  <1>. QED
    BY <1>1, IdleIsHandler DEF Finish, TypeOK

\* A handler that waits is one of a user.
LEMMA WaitingHandler ==
  ASSUME TypeOK, NEW r \in Request, req[r].pc # "idle"
  PROVE  req[r] \in Handler /\ req[r].actor \in User /\ req[r].role \in Role
  <1>1. req[r] \in Handler /\ req[r] # Idle
    BY DEF TypeOK, Idle
  <1>. QED  BY <1>1 DEF TypeOK, Handler

LEMMA InitTypeOK == Init => TypeOK
  BY IdleIsHandler DEF Init, TypeOK, Idle

LEMMA ProceedKeepsType ==
  ASSUME TypeOK, NEW r \in Request, Proceed(r)
  PROVE  TypeOK'
  <1>. USE DEF TypeOK, rows, tokens
  <1>1. CASE MfaRequired(r)
    BY <1>1, WaitingHandler, FinishKeepsType DEF MfaRequired
  <1>2. CASE Mint(r)
    BY <1>2, WaitingHandler, FinishKeepsType DEF Mint, Claim
  <1>3. CASE Serve(r) \/ Abandon(r)
    BY <1>3, FinishKeepsType DEF Serve, Abandon
  <1>4. CASE ChangeRole(r)
    BY <1>4, WaitingHandler, FinishKeepsType DEF ChangeRole
  <1>5. CASE Deactivate(r)
    BY <1>5, FinishKeepsType DEF Deactivate
  <1>6. CASE Activate(r)
    BY <1>6, FinishKeepsType DEF Activate
  <1>. QED  BY <1>1, <1>2, <1>3, <1>4, <1>5, <1>6 DEF Proceed

LEMMA FindKeepsType ==
  ASSUME TypeOK, NEW r \in Request, NEW u \in User,
         LoginFind(r, u) \/ MfaFind(r, u) \/ RefreshFind(r, u) \/ ServeFind(r, u)
  PROVE  TypeOK'
  <1>. DEFINE mint == [Idle EXCEPT !.pc = "mint", !.actor = u, !.role = role[u]]
              mfa == [Idle EXCEPT !.pc = "mfa", !.actor = u]
              write == [Idle EXCEPT !.pc = "write", !.actor = u]
  <1>1. /\ mint \in Handler /\ mint.actor = u /\ mint.pc = "mint"
        /\ mfa \in Handler /\ mfa.actor = u /\ mfa.pc = "mfa"
        /\ write \in Handler /\ write.actor = u /\ write.pc = "write"
    BY IdleIsHandler, RoleAssumption DEF Idle, Handler, TypeOK
  <1>2. Begin(r, mint) \/ Begin(r, mfa) \/ Begin(r, write)
    BY DEF LoginFind, MfaFind, RefreshFind, ServeFind, RoleOfRow
  <1>. HIDE DEF mint, mfa, write
  <1>. QED  BY <1>1, <1>2, BeginKeepsType

\* The three routes of an admin about another user.
LEMMA AdminFindKeepsType ==
  ASSUME TypeOK, NEW r \in Request, NEW u \in User, NEW v \in User,
         \/ \E new \in Role : ChangeRoleFind(r, u, v, new)
         \/ DeactivateFind(r, u, v)
         \/ ActivateFind(r, u, v)
  PROVE  TypeOK'
  <1>1. ASSUME NEW new \in Role, ChangeRoleFind(r, u, v, new)
        PROVE  TypeOK'
    <2>. DEFINE handler == [pc |-> "changeRole", actor |-> u, target |-> v, role |-> new]
    <2>1. handler \in Handler /\ handler.actor = u /\ handler.target = v
      BY DEF Handler
    <2>2. Begin(r, handler) /\ u # v
      BY <1>1 DEF ChangeRoleFind, Others
    <2>. HIDE DEF handler
    <2>. QED  BY <2>1, <2>2, BeginKeepsType
  <1>2. CASE DeactivateFind(r, u, v)
    <2>. DEFINE handler == [Idle EXCEPT !.pc = "deactivate", !.actor = u, !.target = v]
    <2>1. handler \in Handler /\ handler.actor = u /\ handler.target = v
      BY IdleIsHandler DEF Handler, Idle
    <2>2. Begin(r, handler) /\ u # v
      BY <1>2 DEF DeactivateFind, Others
    <2>. HIDE DEF handler
    <2>. QED  BY <2>1, <2>2, BeginKeepsType
  <1>3. CASE ActivateFind(r, u, v)
    <2>. DEFINE handler == [Idle EXCEPT !.pc = "activate", !.actor = u, !.target = v]
    <2>1. handler \in Handler /\ handler.actor = u /\ handler.pc = "activate"
      BY IdleIsHandler DEF Handler, Idle
    <2>2. Begin(r, handler)
      BY <1>3 DEF ActivateFind
    <2>. HIDE DEF handler
    <2>. QED  BY <2>1, <2>2, BeginKeepsType
  <1>. QED  BY <1>1, <1>2, <1>3

LEMMA NextTypeOK == TypeOK /\ [Next]_vars => TypeOK'
  <1>. SUFFICES ASSUME TypeOK, [Next]_vars PROVE TypeOK'
    OBVIOUS
  <1>1. ASSUME NEW c \in Claim, ExpireClaim(c) PROVE TypeOK'
    BY <1>1 DEF ExpireClaim, TypeOK, rows
  <1>2. ASSUME NEW u \in User, ExpirePending(u) PROVE TypeOK'
    BY <1>2 DEF ExpirePending, TypeOK, rows
  <1>3. CASE UNCHANGED vars
    BY <1>3 DEF vars, rows, tokens, TypeOK
  <1>. QED
    BY <1>1, <1>2, <1>3, ProceedKeepsType, FindKeepsType, AdminFindKeepsType DEF Next

\* Roles, tokens and handlers keep their types; a handler under way belongs to
\* a user, and an admin's is about somebody else.
THEOREM TypeCorrect == Spec => []TypeOK
  BY InitTypeOK, NextTypeOK, PTL DEF Spec

-----------------------------------------------------------------------------

\* The rows of users change only when a handler that waits goes on.
LEMMA RowsChangeWhenServed ==
  ASSUME [Next]_vars, UNCHANGED rows => FALSE
  PROVE  \E r \in Request : ChangeRole(r) \/ Deactivate(r) \/ Activate(r)
  BY DEF Next, Proceed, MfaRequired, Mint, Serve, Abandon, LoginFind, MfaFind, RefreshFind,
         ServeFind, ChangeRoleFind, DeactivateFind, ActivateFind, ExpireClaim, ExpirePending,
         Begin, vars

\* Whatever the tokens still allow and however requests cross: the handler
\* that takes the last active admin away was started by somebody else, who
\* therefore is none.
LEMMA LastAdminStep ==
  ASSUME TypeOK, [Next]_vars, Admins # {}, Admins' = {}
  PROVE  \E r \in Request :
            /\ req[r].pc \in {"changeRole", "deactivate"}
            /\ req'[r] = Idle
            /\ req[r].actor \notin Admins
  <1>1. PICK u \in User : role[u] = "admin" /\ active[u]
    BY DEF Admins
  <1>2. UNCHANGED rows => FALSE
    BY DEF rows, Admins
  <1>3. PICK r \in Request : ChangeRole(r) \/ Deactivate(r) \/ Activate(r)
    BY <1>2, RowsChangeWhenServed
  <1>4. ~Activate(r)
    BY <1>1 DEF Activate, Admins, TypeOK
  <1>5. /\ req[r].pc \in {"changeRole", "deactivate"}
        /\ req'[r] = Idle
        /\ \A v \in Admins : v = req[r].target
    BY <1>3, <1>4 DEF ChangeRole, Deactivate, Finish, Admins, TypeOK
  <1>6. req[r].actor # req[r].target
    BY <1>5 DEF TypeOK
  <1>. QED  BY <1>5, <1>6

\* The last active admin is demoted or deactivated only by a caller who is no
\* active admin when it is written: users.service.ts compares caller and target,
\* and no other check keeps an organisation its admin.
THEOREM LastAdminOverruled == Spec => LastAdminLeavesByOverrule
  <1>1. TypeOK /\ [Next]_vars =>
          [Admins # {} /\ Admins' = {} =>
             \E r \in Request :
                /\ req[r].pc \in {"changeRole", "deactivate"}
                /\ req'[r] = Idle
                /\ req[r].actor \notin Admins]_vars
    BY LastAdminStep
  <1>. QED  BY <1>1, TypeCorrect, PTL DEF Spec, LastAdminLeavesByOverrule
-----------------------------------------------------------------------------
(* Why a demotion and a deactivation take hold: what has come to an end     *)
(* does not come back, so that only what is out has to run out.             *)

\* Of the permissions a route refers to an agent has one.
LEMMA AgentsPermission ==
  \A permission \in DOMAIN PERMISSIONS \ {"COMPLIANCE_DNC_READ"} :
      "agent" \notin PERMISSIONS[permission]
  BY DEF PERMISSIONS

\* checkDnc() is the only handler it admits to, and a read.
LEMMA RoutesOfAgents ==
  ASSUME NEW routes \in {UserRoutes, CampaignRoutes, LeadRoutes, ComplianceRoutes, WebhookRoutes},
         NEW op \in DOMAIN routes \ (Reads \cup Apart)
  PROVE  routes[op] \in DOMAIN PERMISSIONS \ {"COMPLIANCE_DNC_READ"}
  <1>1. CASE routes = UserRoutes
    BY <1>1 DEF UserRoutes, PERMISSIONS
  <1>2. CASE routes = CampaignRoutes
    BY <1>2 DEF CampaignRoutes, PERMISSIONS
  <1>3. CASE routes = LeadRoutes
    BY <1>3 DEF LeadRoutes, PERMISSIONS
  <1>4. CASE routes = ComplianceRoutes
    <2>1. op # "checkDnc"
      BY DEF Reads
    <2>. QED  BY <1>4, <2>1 DEF ComplianceRoutes, PERMISSIONS
  <1>5. CASE routes = WebhookRoutes
    BY <1>5 DEF WebhookRoutes, PERMISSIONS
  <1>. QED  BY <1>1, <1>2, <1>3, <1>4, <1>5

LEMMA AgentsWriteNothing ==
  \A permission \in WritePermissions : "agent" \notin PERMISSIONS[permission]
  <1>. SUFFICES ASSUME NEW permission \in WritePermissions
                PROVE  "agent" \notin PERMISSIONS[permission]
    OBVIOUS
  <1>1. PICK routes \in {UserRoutes, CampaignRoutes, LeadRoutes, ComplianceRoutes, WebhookRoutes} :
          \E op \in DOMAIN routes \ (Reads \cup Apart) : permission = routes[op]
    BY DEF WritePermissions
  <1>2. PICK op \in DOMAIN routes \ (Reads \cup Apart) : permission = routes[op]
    BY <1>1
  <1>. QED  BY <1>2, AgentsPermission, RoutesOfAgents

LEMMA AgentsAdminNothing ==
  /\ "agent" \notin PERMISSIONS["USERS_CHANGE_ROLE"]
  /\ "agent" \notin PERMISSIONS["USERS_DEACTIVATE"]
  /\ "agent" \notin PERMISSIONS["USERS_ACTIVATE"]
  BY DEF PERMISSIONS

\* Nothing of an earlier role of u is left: neither a token, nor a login that
\* would sign one, nor a request that a token has let in.
Demoted(u) ==
    /\ role[u] = "agent"
    /\ \A c \in claims : c.user = u => c.role = "agent"
    /\ \A r \in Request : req[r].actor = u =>
         \/ req[r].pc = "mfa"
         \/ req[r].pc = "mint" /\ req[r].role = "agent"

\* Nothing of u is left that a token or a login could come from.
Closed(u) ==
    /\ ~active[u]
    /\ u \notin pending
    /\ \A c \in claims : c.user # u
    /\ \A r \in Request : req[r].actor # u

\* A handler that goes on takes no new token but the one it was to sign.
LEMMA ProceedTakesNothing ==
  ASSUME TypeOK, NEW r \in Request, Proceed(r)
  PROVE  /\ req' = [req EXCEPT ![r] = Idle]
         /\ \/ claims' = claims
            \/ /\ req[r].pc = "mint"
               /\ claims' = claims \cup {[user |-> req[r].actor, role |-> req[r].role]}
         /\ \/ pending' = pending
            \/ /\ req[r].pc = "mfa"
               /\ pending' = pending \cup {req[r].actor}
  BY DEF Proceed, MfaRequired, Mint, Serve, ChangeRole, Deactivate, Activate, Abandon, Finish,
         tokens

\* A request writes nothing when it is let in, and runs for its caller.
LEMMA Begins ==
  ASSUME TypeOK, NEW r \in Request, NEW v \in User,
         \/ LoginFind(r, v) \/ MfaFind(r, v) \/ RefreshFind(r, v) \/ ServeFind(r, v)
         \/ \E w \in User : \/ \E new \in Role : ChangeRoleFind(r, v, w, new)
                            \/ DeactivateFind(r, v, w)
                            \/ ActivateFind(r, v, w)
  PROVE  /\ UNCHANGED <<rows, tokens>>
         /\ \A q \in Request : q # r => req'[q] = req[q]
         /\ req'[r].actor = v
         /\ LoginFind(r, v) \/ MfaFind(r, v) \/ RefreshFind(r, v)
              => req'[r].pc = "mfa" \/ (req'[r].pc = "mint" /\ req'[r].role = role[v])
  <1>. DEFINE mint == [Idle EXCEPT !.pc = "mint", !.actor = v, !.role = role[v]]
              mfa == [Idle EXCEPT !.pc = "mfa", !.actor = v]
              write == [Idle EXCEPT !.pc = "write", !.actor = v]
              change(w, new) == [pc |-> "changeRole", actor |-> v, target |-> w, role |-> new]
              deactivate(w) == [Idle EXCEPT !.pc = "deactivate", !.actor = v, !.target = w]
              activate(w) == [Idle EXCEPT !.pc = "activate", !.actor = v, !.target = w]
  <1>1. /\ mint.pc = "mint" /\ mint.actor = v /\ mint.role = role[v]
        /\ mfa.pc = "mfa" /\ mfa.actor = v
        /\ write.actor = v
        /\ \A w \in User, new \in Role : change(w, new).actor = v
        /\ \A w \in User : deactivate(w).actor = v /\ activate(w).actor = v
    BY DEF Idle
  <1>2. ASSUME NEW handler, Begin(r, handler)
        PROVE  /\ UNCHANGED <<rows, tokens>>
               /\ \A q \in Request : q # r => req'[q] = req[q]
               /\ req'[r] = handler
    BY <1>2 DEF Begin, TypeOK
  <1>3. LoginFind(r, v) \/ MfaFind(r, v) \/ RefreshFind(r, v) => Begin(r, mint) \/ Begin(r, mfa)
    BY DEF LoginFind, MfaFind, RefreshFind, RoleOfRow
  <1>4. \/ Begin(r, mint) \/ Begin(r, mfa) \/ Begin(r, write)
        \/ \E w \in User : \/ \E new \in Role : Begin(r, change(w, new))
                           \/ Begin(r, deactivate(w))
                           \/ Begin(r, activate(w))
    BY DEF LoginFind, MfaFind, RefreshFind, RoleOfRow, ServeFind, ChangeRoleFind,
           DeactivateFind, ActivateFind
  <1>. HIDE DEF mint, mfa, write, change, deactivate, activate
  <1>5. /\ UNCHANGED <<rows, tokens>>
        /\ \A q \in Request : q # r => req'[q] = req[q]
        /\ req'[r].actor = v
    BY <1>1, <1>2, <1>4
  <1>. QED  BY <1>1, <1>2, <1>3, <1>5

\* A request of an agent that has no other token is a login or a refresh.
LEMMA AgentBegins ==
  ASSUME TypeOK, NEW u \in User, Demoted(u), NEW r \in Request, NEW v \in User,
         \/ LoginFind(r, v) \/ MfaFind(r, v) \/ RefreshFind(r, v) \/ ServeFind(r, v)
         \/ \E w \in User : \/ \E new \in Role : ChangeRoleFind(r, v, w, new)
                            \/ DeactivateFind(r, v, w)
                            \/ ActivateFind(r, v, w)
  PROVE  v = u => \/ req'[r].pc = "mfa"
                  \/ req'[r].pc = "mint" /\ req'[r].role = "agent"
  <1>1. ASSUME v = u
        PROVE  /\ ~ServeFind(r, v)
               /\ \A w \in User : /\ \A new \in Role : ~ChangeRoleFind(r, v, w, new)
                                  /\ ~DeactivateFind(r, v, w)
                                  /\ ~ActivateFind(r, v, w)
    <2>1. ASSUME NEW permission, "agent" \notin PERMISSIONS[permission]
          PROVE  ~CanActivate(v, permission)
      BY <1>1, <2>1 DEF CanActivate, Demoted
    <2>. QED
      BY <2>1, AgentsWriteNothing, AgentsAdminNothing
         DEF ServeFind, ChangeRoleFind, DeactivateFind, ActivateFind
  <1>. QED  BY <1>1, Begins DEF Demoted

LEMMA DemotedStep ==
  ASSUME TypeOK, [Next]_vars, NEW u \in User, Demoted(u), role'[u] = "agent"
  PROVE  Demoted(u)'
  <1>1. ASSUME NEW r \in Request, Proceed(r) PROVE Demoted(u)'
    <2>1. \A c \in claims' : c.user = u => c.role = "agent"
      BY <1>1, ProceedTakesNothing DEF Demoted
    <2>2. \A q \in Request : req'[q].actor = u => req'[q] = req[q]
      BY <1>1, ProceedTakesNothing, NoneAssumption DEF Idle, TypeOK
    <2>. QED  BY <2>1, <2>2 DEF Demoted
  <1>2. ASSUME NEW r \in Request, NEW v \in User,
               \/ LoginFind(r, v) \/ MfaFind(r, v) \/ RefreshFind(r, v) \/ ServeFind(r, v)
               \/ \E w \in User : \/ \E new \in Role : ChangeRoleFind(r, v, w, new)
                                  \/ DeactivateFind(r, v, w)
                                  \/ ActivateFind(r, v, w)
        PROVE  Demoted(u)'
    BY <1>2, Begins, AgentBegins DEF Demoted, rows, tokens
  <1>3. CASE \/ UNCHANGED vars
             \/ \E c \in Claim : ExpireClaim(c)
             \/ \E v \in User : ExpirePending(v)
    BY <1>3 DEF vars, rows, tokens, ExpireClaim, ExpirePending, Demoted
  <1>. QED  BY <1>1, <1>2, <1>3 DEF Next

LEMMA ClosedStep ==
  ASSUME TypeOK, [Next]_vars, NEW u \in User, Closed(u), ~active'[u]
  PROVE  Closed(u)'
  <1>1. ASSUME NEW r \in Request, Proceed(r) PROVE Closed(u)'
    <2>1. u \notin pending' /\ \A c \in claims' : c.user # u
      BY <1>1, ProceedTakesNothing DEF Closed
    <2>2. \A q \in Request : req'[q].actor # u
      BY <1>1, ProceedTakesNothing, NoneAssumption DEF Idle, TypeOK, Closed
    <2>. QED  BY <2>1, <2>2 DEF Closed
  <1>2. ASSUME NEW r \in Request, NEW v \in User,
               \/ LoginFind(r, v) \/ MfaFind(r, v) \/ RefreshFind(r, v) \/ ServeFind(r, v)
               \/ \E w \in User : \/ \E new \in Role : ChangeRoleFind(r, v, w, new)
                                  \/ DeactivateFind(r, v, w)
                                  \/ ActivateFind(r, v, w)
        PROVE  Closed(u)'
    <2>1. v # u
      BY <1>2 DEF LoginFind, MfaFind, RefreshFind, MayLogIn, ServeFind, ChangeRoleFind,
                  DeactivateFind, ActivateFind, CanActivate, Closed
    <2>. QED  BY <1>2, <2>1, Begins DEF Closed, rows, tokens
  <1>3. CASE \/ UNCHANGED vars
             \/ \E c \in Claim : ExpireClaim(c)
             \/ \E v \in User : ExpirePending(v)
    BY <1>3 DEF vars, rows, tokens, ExpireClaim, ExpirePending, Closed
  <1>. QED  BY <1>1, <1>2, <1>3 DEF Next

\* As long as a user stays an agent, no old role comes back: once the tokens of
\* before have run out, no route that writes will let the user in, whatever
\* logins, refreshes and requests of others run.
THEOREM DemotionStays ==
    Spec => [][\A u \in User : Demoted(u) /\ role'[u] = "agent" => Demoted(u)']_vars
  <1>1. TypeOK /\ [Next]_vars =>
          [\A u \in User : Demoted(u) /\ role'[u] = "agent" => Demoted(u)']_vars
    BY DemotedStep
  <1>. QED  BY <1>1, TypeCorrect, PTL DEF Spec

\* As long as an account stays inactive, nothing that has run out is renewed,
\* although the second step of a login does not look at is_active: it needs a
\* login from before, and such a login needs an active account.
THEOREM DeactivationStays ==
    Spec => [][\A u \in User : Closed(u) /\ ~active'[u] => Closed(u)']_vars
  <1>1. TypeOK /\ [Next]_vars =>
          [\A u \in User : Closed(u) /\ ~active'[u] => Closed(u)']_vars
    BY ClosedStep
  <1>. QED  BY <1>1, TypeCorrect, PTL DEF Spec
=============================================================================
