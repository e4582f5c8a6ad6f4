----------------------------- MODULE Membership -----------------------------
(***************************************************************************)
(* How accounts come into an organisation: register() founds one,          *)
(* inviteUser() mails an invitation and acceptInvite() makes the account   *)
(* (auth.service.ts, users.service.ts); organizations.service.ts makes an  *)
(* organisation without any.  Each looks for the address first, awaits     *)
(* bcrypt or the database, and inserts later; the unique index on          *)
(* users.email is what an insert can still fail on.                        *)
(*                                                                         *)
(* Home is an organisation that exists, with an admin whose address is     *)
(* none of Email: the invitations are theirs.  Slug are the names that     *)
(* registrations ask for.  The login at the end of acceptInvite() is       *)
(* AuthSessions, the two statements of a change of address AccountLinks.   *)
(***************************************************************************)
EXTENDS Naturals, FiniteSets

CONSTANTS
    User,     \* ids for rows of users
    Email,    \* mail addresses
    Invite,   \* ids for rows of user_invitations, with their tokens
    Slug,     \* names of organisations
    Home,     \* the organisation that invites
    Request,  \* handlers the server runs at the same time
    None      \* null

ASSUME NoneAssumption == None \notin User \cup Email \cup Invite \cup Slug \cup {Home}

ASSUME HomeAssumption == Home \notin Slug

VARIABLES
    account,  \* the rows of users
    orgs,     \* organizations.slug, the registered ones
    invite,   \* the rows of user_invitations
    req,      \* what each handler waits for, and what it has read
    made,     \* history: the invitation that made each account
    moved,    \* history: accounts whose address was changed
    dropped,  \* history: invitations whose acceptance stopped halfway
    excused   \* history: organisations made without a user, or halfway

tables == <<account, orgs, invite>>

history == <<made, moved, dropped, excused>>

vars == <<tables, req, history>>

NoAccount == [email |-> None, org |-> None]

Account == {NoAccount} \cup [email : Email, org : Slug \cup {Home}]

NoInvite == [status |-> "unsent", email |-> None, late |-> FALSE]

\* Closed: accepted_at is set, or expires_at is past.  No handler tells them apart.
InviteRow == {NoInvite} \cup [status : {"pending", "closed"}, email : Email, late : BOOLEAN]

\* Each handler is at the statement it is named after: register() at "slug",
\* "found", "founder", inviteUser() at "pending", "invite", acceptInvite() at
\* "address", "accept", "mark".
\* late: what the handler had looked for and not found has been inserted since.
Idle == [pc |-> "idle", email |-> None, slug |-> None, invite |-> None, late |-> FALSE]

Handler ==
    [pc : {"idle", "slug", "found", "founder", "pending", "invite", "address", "accept", "mark"},
     email : Email \cup {None}, slug : Slug \cup {None}, invite : Invite \cup {None},
     late : BOOLEAN]

TypeOK ==
    /\ account \in [User -> Account]
    /\ \A u, v \in User :
         account[u].email = account[v].email /\ account[u] # NoAccount => u = v
    /\ orgs \subseteq Slug
    /\ invite \in [Invite -> InviteRow]
    /\ req \in [Request -> Handler]
    /\ made \in [User -> Invite \cup {None}]
    /\ moved \subseteq User
    /\ dropped \subseteq Invite
    /\ excused \subseteq Slug

Init ==
    /\ account = [u \in User |-> NoAccount]
    /\ orgs = {}
    /\ invite = [i \in Invite |-> NoInvite]
    /\ req = [r \in Request |-> Idle]
    /\ made = [u \in User |-> None]
    /\ moved = {}
    /\ dropped = {}
    /\ excused = {}

\* What findUnique by address sees.
Taken(e) == \E u \in User : account[u].email = e

\* Seeded fault: the address need only be unique within an organisation.
FreeInOrg(e, o) == [email |-> e, org |-> o] \notin {account[u] : u \in User}

\* Seeded fault: no index, and the read before the insert is all there is.
NoIndex(e, o) == TRUE

\* The unique index on users.email, when a row with address e is written for
\* organisation o.
Free(e, o) == ~Taken(e)

Begin(r, handler) == req[r] = Idle /\ req' = [req EXCEPT ![r] = handler]

Finish(r) == req' = [req EXCEPT ![r] = Idle]

\* Where a handler has seen that its address is free, and will write it.
Hoping == {"slug", "found", "founder", "accept"}

\* The handlers when r goes on as next, having given address e to an account.
Outrun(r, e, next) ==
    [q \in Request |->
        IF q = r THEN next
        ELSE IF req[q].email = e /\ req[q].pc \in Hoping
        THEN [req[q] EXCEPT !.late = TRUE] ELSE req[q]]

-----------------------------------------------------------------------------
(* Registration.                                                           *)

\* Seeded fault: the address is not looked for.
Registrable(e) == TRUE

\* register() looks for the address, and then for the name.
MayRegister(e) == ~Taken(e)

RegisterFind(r, e, s) ==
    /\ MayRegister(e)
    /\ Begin(r, [Idle EXCEPT !.pc = "slug", !.email = e, !.slug = s])
    /\ UNCHANGED <<tables, history>>

Goto(r, from, to) == req[r].pc = from /\ req' = [req EXCEPT ![r].pc = to]

RegisterFindOrg(r) ==
    /\ req[r].slug \notin orgs
    /\ Goto(r, "slug", "found")
    /\ UNCHANGED <<tables, history>>

\* The insert throws when the name was taken in between: that is Abandon.
FoundOrganization(r) ==
    /\ Goto(r, "found", "founder")
    /\ req[r].slug \notin orgs
    /\ orgs' = orgs \cup {req[r].slug}
    /\ UNCHANGED <<account, invite, history>>

CreateFounder(r, u) ==
    LET e == req[r].email IN
    /\ req[r].pc = "founder"
    /\ account[u] = NoAccount
    /\ Free(e, req[r].slug)
    /\ account' = [account EXCEPT ![u] = [email |-> e, org |-> req[r].slug]]
    /\ req' = Outrun(r, e, Idle)
    /\ UNCHANGED <<orgs, invite, history>>

\* The address was taken since: the organisation is there and nobody in it.
FounderRefused(r) ==
    /\ req[r].pc = "founder"
    /\ ~Free(req[r].email, req[r].slug)
    /\ excused' = IF req[r].late THEN excused \cup {req[r].slug} ELSE excused
    /\ Finish(r)
    /\ UNCHANGED <<tables, made, moved, dropped>>

\* organizations.service.ts makes one without a user.
CreateOrganization(s) ==
    /\ s \notin orgs
    /\ orgs' = orgs \cup {s}
    /\ excused' = excused \cup {s}
    /\ UNCHANGED <<account, invite, req, made, moved, dropped>>

-----------------------------------------------------------------------------
(* Invitations.                                                            *)

Pending(e) == {i \in Invite : invite[i].status = "pending" /\ invite[i].email = e}

Member(e) == \E u \in User : account[u] = [email |-> e, org |-> Home]

\* inviteUser() looks for a member, and then for a pending invitation.
InviteFind(r, e) ==
    /\ ~Member(e)
    /\ Begin(r, [Idle EXCEPT !.pc = "pending", !.email = e])
    /\ UNCHANGED <<tables, history>>

\* Seeded fault: nobody looks for a pending invitation.
Uninvited(e) == TRUE

Invitable(e) == Pending(e) = {}

InviteFindPending(r) ==
    /\ Invitable(req[r].email)
    /\ Goto(r, "pending", "invite")
    /\ UNCHANGED <<tables, history>>

SendInvite(r, i) ==
    LET e == req[r].email IN
    /\ req[r].pc = "invite"
    /\ invite[i] = NoInvite
    /\ invite' = [invite EXCEPT ![i] =
                    [status |-> "pending", email |-> e, late |-> req[r].late]]
    /\ req' = [q \in Request |->
                 IF q = r THEN Idle
                 ELSE IF req[q].pc = "invite" /\ req[q].email = e
                 THEN [req[q] EXCEPT !.late = TRUE] ELSE req[q]]
    /\ UNCHANGED <<account, orgs, history>>

ExpireInvite(i) ==
    /\ invite[i].status = "pending"
    /\ invite' = [invite EXCEPT ![i].status = "closed"]
    /\ UNCHANGED <<account, orgs, req, history>>

\* acceptInvite() reads the invitation, and then looks for its address.
AcceptFind(r, i) ==
    /\ invite[i].status = "pending"
    /\ Begin(r, [Idle EXCEPT !.pc = "address", !.invite = i, !.email = invite[i].email])
    /\ UNCHANGED <<tables, history>>

AcceptFindUser(r) ==
    /\ ~Taken(req[r].email)
    /\ Goto(r, "address", "accept")
    /\ UNCHANGED <<tables, history>>

\* The insert throws when the address was taken in between: that is Abandon.
CreateInvited(r, u) ==
    LET e == req[r].email IN
    /\ req[r].pc = "accept"
    /\ account[u] = NoAccount
    /\ Free(e, Home)
    /\ account' = [account EXCEPT ![u] = [email |-> e, org |-> Home]]
    /\ made' = [made EXCEPT ![u] = req[r].invite]
    /\ req' = Outrun(r, e, [req[r] EXCEPT !.pc = "mark", !.late = FALSE])
    /\ UNCHANGED <<orgs, invite, moved, dropped, excused>>

\* Seeded fault: the invitation is not marked.
LeaveInvite(r) ==
    /\ req[r].pc = "mark"
    /\ Finish(r)
    /\ UNCHANGED <<tables, history>>

MarkAccepted(r) ==
    /\ req[r].pc = "mark"
    /\ invite' = [invite EXCEPT ![req[r].invite].status = "closed"]
    /\ Finish(r)
    /\ UNCHANGED <<account, orgs, history>>

-----------------------------------------------------------------------------

\* updateMe() with a new address, as its last statement sees it.
Move(u, e) ==
    /\ account[u] # NoAccount
    /\ Free(e, account[u].org)
    /\ account' = [account EXCEPT ![u].email = e]
    /\ moved' = moved \cup {u}
    /\ req' = [q \in Request |->
                 IF req[q].email = e /\ req[q].pc \in Hoping
                 THEN [req[q] EXCEPT !.late = TRUE] ELSE req[q]]
    /\ UNCHANGED <<orgs, invite, made, dropped, excused>>

\* A handler that throws or is stopped.
Abandon(r) ==
    /\ req[r] # Idle
    /\ dropped' = IF req[r].pc = "mark" THEN dropped \cup {req[r].invite} ELSE dropped
    /\ excused' = IF req[r].pc = "founder" THEN excused \cup {req[r].slug} ELSE excused
    /\ Finish(r)
    /\ UNCHANGED <<tables, made, moved>>

Next ==
    \/ \E r \in Request :
         \/ \E e \in Email, s \in Slug : RegisterFind(r, e, s)
         \/ RegisterFindOrg(r)
         \/ FoundOrganization(r)
         \/ \E u \in User : CreateFounder(r, u)
         \/ FounderRefused(r)
         \/ \E e \in Email : InviteFind(r, e)
         \/ InviteFindPending(r)
         \/ \E i \in Invite : SendInvite(r, i)
         \/ \E i \in Invite : AcceptFind(r, i)
         \/ AcceptFindUser(r)
         \/ \E u \in User : CreateInvited(r, u)
         \/ MarkAccepted(r)
         \/ Abandon(r)
    \/ \E u \in User, e \in Email : Move(u, e)
    \/ \E i \in Invite : ExpireInvite(i)
    \/ \E s \in Slug : CreateOrganization(s)

Spec == Init /\ [][Next]_vars

-----------------------------------------------------------------------------

\* An organisation that nobody belongs to, and that no handler is filling, was
\* left by a registration that stopped, or one whose address was taken after it
\* had looked, or was made as such: register() never founds one for an address
\* that was taken before.
EmptyOrgsAreExcused ==
    \A s \in orgs \ excused :
        \/ \E u \in User : account[u].org = s
        \/ \E r \in Request : req[r].pc = "founder" /\ req[r].slug = s

\* Of two invitations that are pending for one address, one was written by a
\* handler that another had overtaken since it looked for a pending one.
PendingTwiceWasLate ==
    \A i, j \in Invite :
        /\ invite[i].status = "pending"
        /\ invite[j].status = "pending"
        /\ invite[i].email = invite[j].email
        /\ i # j
        => invite[i].late \/ invite[j].late

\* Of an invitation that made an account, accepted_at is set as soon as its
\* acceptInvite() has ended, unless that handler stopped before the statement.
\* (A handler that has read the invitation before goes on all the same: see
\* SecondAccountMoved.)
AcceptedIsClosed ==
    \A u \in User :
        LET i == made[u] IN
        i # None =>
            \/ invite[i].status = "closed"
            \/ i \in dropped
            \/ \E r \in Request : req[r].pc = "mark" /\ req[r].invite = i

\* Two accounts come from one invitation only when one of them has changed its
\* address since, whatever handlers overlapped or stopped: the unique index on
\* users.email is all that stands against it.
SecondAccountMoved ==
    \A u, v \in User : made[u] = made[v] /\ made[u] # None /\ u # v => {u, v} \cap moved # {}

-----------------------------------------------------------------------------
(* What makes them inductive.                                              *)

\* What a handler that waits relies on: unless it is late, what it looked for
\* and did not find is still not there.
FlightOK ==
    \A r \in Request :
        /\ req[r].pc \notin {"idle", "mark"} => req[r].email \in Email
        /\ req[r].pc \in {"slug", "found", "founder"} => req[r].slug \in Slug
        /\ req[r].pc \in Hoping /\ ~req[r].late => ~Taken(req[r].email)
        /\ req[r].pc = "invite" /\ ~req[r].late => Pending(req[r].email) = {}
        /\ req[r].pc \in {"address", "accept", "mark"} =>
             /\ req[r].invite \in Invite
             /\ invite[req[r].invite] # NoInvite
        /\ req[r].pc \in {"address", "accept"} => invite[req[r].invite].email = req[r].email

\* The address of an account that an invitation made is the invitation's,
\* until it is changed.
MadeOK ==
    \A u \in User : made[u] # None =>
        /\ invite[made[u]] # NoInvite
        /\ account[u] # NoAccount
        /\ u \notin moved => account[u].email = invite[made[u]].email

IInv ==
    /\ TypeOK
    /\ FlightOK
    /\ MadeOK
    /\ EmptyOrgsAreExcused
    /\ PendingTwiceWasLate
    /\ AcceptedIsClosed
=============================================================================
