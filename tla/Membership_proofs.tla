-------------------------- MODULE Membership_proofs --------------------------
(***************************************************************************)
(* Theorems about Membership, for any accounts, invitations and handlers.  *)
(***************************************************************************)
EXTENDS Membership, TLAPS

LEMMA InitIInv == Init => IInv
<1> SUFFICES ASSUME Init PROVE IInv
  OBVIOUS
<1>1. TypeOK
  BY DEF Init, TypeOK, Account, InviteRow, Handler, Idle
<1>2. FlightOK /\ MadeOK
  BY DEF Init, FlightOK, MadeOK, Idle, Hoping
<1>3. EmptyOrgsAreExcused /\ AcceptedIsClosed
  BY DEF Init, EmptyOrgsAreExcused, AcceptedIsClosed
<1>4. PendingTwiceWasLate
  BY DEF Init, PendingTwiceWasLate, NoInvite
<1> QED
  BY <1>1, <1>2, <1>3, <1>4 DEF IInv

\* Email of a row is an address or null, and null is no address.
LEMMA NoneIsNoEmail == \A e \in Email : e # None
BY NoneAssumption

LEMMA IdleOK == Idle \in Handler /\ Idle.pc = "idle"
BY DEF Idle, Handler

\* What a step may do to the handlers other than the one that takes it: it may
\* mark them as late, which loses nothing but what they had looked for.
Followed(r) ==
    \A q \in Request \ {r} : req'[q] = req[q] \/ req'[q] = [req[q] EXCEPT !.late = TRUE]

LEMMA Others ==
    ASSUME IInv, NEW r \in Request, Followed(r)
    PROVE  \A q \in Request \ {r} :
             /\ req'[q] \in Handler
             /\ req'[q].pc = req[q].pc
             /\ req'[q].email = req[q].email
             /\ req'[q].slug = req[q].slug
             /\ req'[q].invite = req[q].invite
             /\ ~req'[q].late => req'[q] = req[q]
<1> SUFFICES ASSUME NEW q \in Request \ {r}
             PROVE  /\ req'[q] \in Handler
                    /\ req'[q].pc = req[q].pc
                    /\ req'[q].email = req[q].email
                    /\ req'[q].slug = req[q].slug
                    /\ req'[q].invite = req[q].invite
                    /\ ~req'[q].late => req'[q] = req[q]
  OBVIOUS
<1>1. req[q] \in Handler
  BY DEF IInv, TypeOK
<1> QED
  BY <1>1 DEF Followed, Handler

-----------------------------------------------------------------------------
(* Steps that write no row.                                                *)

LEMMA ReqKeeps ==
    ASSUME IInv, NEW r \in Request, NEW h \in Handler,
           req' = [req EXCEPT ![r] = h],
           req[r].pc \notin {"founder", "mark"},
           UNCHANGED <<tables, history>>,
           h.pc \in {"slug", "found", "pending", "invite", "address", "accept"},
           h.email \in Email,
           h.pc \in {"slug", "found"} => h.slug \in Slug,
           h.pc \in Hoping /\ ~h.late => ~Taken(h.email),
           h.pc = "invite" => Pending(h.email) = {},
           h.pc \in {"address", "accept"} =>
             /\ h.invite \in Invite
             /\ invite[h.invite] # NoInvite
             /\ invite[h.invite].email = h.email
    PROVE  IInv'
<1>1. TypeOK'
  BY DEF IInv, TypeOK, tables, history
<1>2. FlightOK'
  BY DEF IInv, TypeOK, FlightOK, tables, Taken, Pending
<1>3. MadeOK'
  BY DEF IInv, MadeOK, tables, history
<1>4. EmptyOrgsAreExcused'
  <2>1. \A q \in Request : req[q].pc = "founder" => req'[q] = req[q]
    BY DEF IInv, TypeOK
  <2> QED
    BY <2>1 DEF IInv, EmptyOrgsAreExcused, tables, history
<1>5. PendingTwiceWasLate'
  BY DEF IInv, PendingTwiceWasLate, tables
<1>6. AcceptedIsClosed'
  <2>1. \A q \in Request : req[q].pc = "mark" => req'[q] = req[q]
    BY DEF IInv, TypeOK
  <2> QED
    BY <2>1 DEF IInv, AcceptedIsClosed, tables, history
<1> QED
  BY <1>1, <1>2, <1>3, <1>4, <1>5, <1>6 DEF IInv

\* The handlers that read.
LEMMA RegisterFindKeeps ==
    ASSUME IInv, NEW r \in Request, NEW e \in Email, NEW s \in Slug, RegisterFind(r, e, s)
    PROVE  IInv'
<1> DEFINE h == [Idle EXCEPT !.pc = "slug", !.email = e, !.slug = s]
<1>1. h \in Handler /\ h.pc = "slug" /\ h.email = e /\ h.slug = s
  BY DEF Idle, Handler
<1>2. req' = [req EXCEPT ![r] = h] /\ req[r].pc = "idle" /\ ~Taken(e)
  BY IdleOK DEF RegisterFind, Begin, MayRegister
<1>3. UNCHANGED <<tables, history>>
  BY DEF RegisterFind
<1> HIDE DEF h
<1> QED
  BY <1>1, <1>2, <1>3, ReqKeeps

LEMMA InviteFindKeeps ==
    ASSUME IInv, NEW r \in Request, NEW e \in Email, InviteFind(r, e) PROVE IInv'
<1> DEFINE h == [Idle EXCEPT !.pc = "pending", !.email = e]
<1>1. h \in Handler /\ h.pc = "pending" /\ h.email = e
  BY DEF Idle, Handler
<1>2. req' = [req EXCEPT ![r] = h] /\ req[r].pc = "idle"
  BY IdleOK DEF InviteFind, Begin
<1>3. UNCHANGED <<tables, history>>
  BY DEF InviteFind
<1> HIDE DEF h
<1> QED
  BY <1>1, <1>2, <1>3, ReqKeeps DEF Hoping

LEMMA AcceptFindKeeps ==
    ASSUME IInv, NEW r \in Request, NEW i \in Invite, AcceptFind(r, i) PROVE IInv'
<1> DEFINE h == [Idle EXCEPT !.pc = "address", !.invite = i, !.email = invite[i].email]
<1>1. invite[i] \in InviteRow /\ invite[i].status = "pending"
  BY DEF AcceptFind, IInv, TypeOK
<1>2. invite[i].email \in Email /\ invite[i] # NoInvite
  BY <1>1 DEF InviteRow, NoInvite
<1>3. h \in Handler /\ h.pc = "address" /\ h.email = invite[i].email /\ h.invite = i
  BY <1>2 DEF Idle, Handler
<1>4. req' = [req EXCEPT ![r] = h] /\ req[r].pc = "idle"
  BY IdleOK DEF AcceptFind, Begin
<1>5. UNCHANGED <<tables, history>>
  BY DEF AcceptFind
<1> HIDE DEF h
<1> QED
  BY <1>2, <1>3, <1>4, <1>5, ReqKeeps DEF Hoping

\* The second read of each: the handler goes on with what it had.
LEMMA SecondFindKeeps ==
    ASSUME IInv, NEW r \in Request,
           RegisterFindOrg(r) \/ InviteFindPending(r) \/ AcceptFindUser(r)
    PROVE  IInv'
<1>1. PICK from \in {"slug", "pending", "address"}, to \in {"found", "invite", "accept"} :
        /\ from = "slug" <=> to = "found"
        /\ from = "address" <=> to = "accept"
        /\ req[r].pc = from
        /\ req' = [req EXCEPT ![r].pc = to]
        /\ to = "invite" => Pending(req[r].email) = {}
        /\ to = "accept" => ~Taken(req[r].email)
  BY DEF RegisterFindOrg, InviteFindPending, AcceptFindUser, Goto, Invitable
<1> DEFINE h == [req[r] EXCEPT !.pc = to]
<1>2. req[r] \in Handler
  BY DEF IInv, TypeOK
<1>3. /\ h \in Handler /\ h.pc = to /\ h.email = req[r].email
      /\ h.slug = req[r].slug /\ h.invite = req[r].invite /\ h.late = req[r].late
  BY <1>2 DEF Handler
<1>4. req' = [req EXCEPT ![r] = h] /\ UNCHANGED <<tables, history>>
  BY <1>1 DEF RegisterFindOrg, InviteFindPending, AcceptFindUser
<1>5. /\ h.email \in Email
      /\ h.pc = "found" => h.slug \in Slug
      /\ h.pc \in Hoping /\ ~h.late => ~Taken(h.email)
      /\ h.pc = "invite" => Pending(h.email) = {}
      /\ h.pc = "accept" =>
           /\ h.invite \in Invite
           /\ invite[h.invite] # NoInvite
           /\ invite[h.invite].email = h.email
  BY <1>1, <1>3 DEF IInv, FlightOK, Hoping
<1> HIDE DEF h
<1> QED
  BY <1>1, <1>3, <1>4, <1>5, ReqKeeps

-----------------------------------------------------------------------------
(* Organisations.                                                          *)

\* A handler that ends, or goes on to be the founder, with the accounts and the
\* invitations as they are; an organisation it leaves behind is excused.
LEMMA OrgKeeps ==
    ASSUME IInv, NEW r \in Request, NEW h \in Handler,
           req' = [req EXCEPT ![r] = h],
           UNCHANGED <<account, invite, made, moved>>,
           h.pc \in {"idle", "founder"},
           h.pc = "founder" =>
             /\ req[r].pc = "found"
             /\ h.email = req[r].email
             /\ h.slug = req[r].slug
             /\ h.late = req[r].late,
           orgs' \subseteq Slug, orgs \subseteq orgs',
           excused \subseteq excused', excused' \subseteq Slug,
           dropped \subseteq dropped', dropped' \subseteq Invite,
           req[r].pc = "mark" => req[r].invite \in dropped',
           req[r].pc = "founder" => req[r].slug \in excused',
           \A s \in orgs' \ orgs : s \in excused' \/ (h.pc = "founder" /\ h.slug = s)
    PROVE  IInv'
<1>1. TypeOK'
  BY DEF IInv, TypeOK
<1>2. req[r] \in Handler /\ req \in [Request -> Handler]
  BY DEF IInv, TypeOK
<1>3. \A q \in Request \ {r} : req'[q] = req[q]
  BY <1>2
<1>4. FlightOK'
  BY <1>2, <1>3 DEF IInv, FlightOK, Taken, Pending, Hoping
<1>5. MadeOK'
  BY DEF IInv, MadeOK
<1>6. EmptyOrgsAreExcused'
  <2> SUFFICES ASSUME NEW s \in orgs' \ excused'
               PROVE  \/ \E u \in User : account[u].org = s
                      \/ \E q \in Request : req'[q].pc = "founder" /\ req'[q].slug = s
    BY DEF EmptyOrgsAreExcused
  <2>1. CASE s \in orgs
    BY <1>2, <1>3, <2>1 DEF IInv, EmptyOrgsAreExcused
  <2>2. CASE s \notin orgs
    BY <1>2, <2>2
  <2> QED
    BY <2>1, <2>2
<1>7. PendingTwiceWasLate'
  BY DEF IInv, PendingTwiceWasLate
<1>8. AcceptedIsClosed'
  BY <1>3 DEF IInv, AcceptedIsClosed
<1> QED
  BY <1>1, <1>4, <1>5, <1>6, <1>7, <1>8 DEF IInv

LEMMA FoundKeeps == ASSUME IInv, NEW r \in Request, FoundOrganization(r) PROVE IInv'
<1> DEFINE h == [req[r] EXCEPT !.pc = "founder"]
<1>1. req[r] \in Handler /\ req[r].pc = "found"
  BY DEF FoundOrganization, IInv, TypeOK, Goto
<1>2. /\ h \in Handler /\ h.pc = "founder"
      /\ h.email = req[r].email /\ h.slug = req[r].slug /\ h.late = req[r].late
  BY <1>1 DEF Handler
<1>3. req[r].slug \in Slug
  BY <1>1 DEF IInv, FlightOK
<1>4. /\ req' = [req EXCEPT ![r] = h]
      /\ orgs' = orgs \cup {req[r].slug}
      /\ UNCHANGED <<account, invite, made, moved, dropped, excused>>
  BY DEF FoundOrganization, history, Goto
<1>5. orgs \subseteq Slug /\ excused \subseteq Slug /\ dropped \subseteq Invite
  BY DEF IInv, TypeOK
<1> HIDE DEF h
<1> QED
  BY <1>1, <1>2, <1>3, <1>4, <1>5, OrgKeeps

\* A founder who is refused is late: the address was free when it looked.
LEMMA RefusedKeeps == ASSUME IInv, NEW r \in Request, FounderRefused(r) PROVE IInv'
<1>1. req[r].pc = "founder" /\ req[r].late
  BY DEF FounderRefused, Free, IInv, FlightOK, Hoping
<1>2. /\ req' = [req EXCEPT ![r] = Idle]
      /\ excused' = excused \cup {req[r].slug}
      /\ UNCHANGED <<account, orgs, invite, made, moved, dropped>>
  BY <1>1 DEF FounderRefused, Finish, tables
<1>3. req[r].slug \in Slug
  BY <1>1 DEF IInv, FlightOK
<1>4. orgs \subseteq Slug /\ excused \subseteq Slug /\ dropped \subseteq Invite
  BY DEF IInv, TypeOK
<1>5. /\ orgs' \subseteq Slug /\ orgs \subseteq orgs' /\ \A s \in orgs' : s \in orgs
      /\ excused \subseteq excused' /\ excused' \subseteq Slug
      /\ dropped \subseteq dropped' /\ dropped' \subseteq Invite
  BY <1>2, <1>3, <1>4
<1>6. req[r].slug \in excused'
  BY <1>2
<1> QED
  BY <1>1, <1>2, <1>5, <1>6, IdleOK, OrgKeeps

LEMMA AbandonKeeps == ASSUME IInv, NEW r \in Request, Abandon(r) PROVE IInv'
<1>1. /\ req' = [req EXCEPT ![r] = Idle]
      /\ UNCHANGED <<account, orgs, invite, made, moved>>
      /\ dropped' = IF req[r].pc = "mark" THEN dropped \cup {req[r].invite} ELSE dropped
      /\ excused' = IF req[r].pc = "founder" THEN excused \cup {req[r].slug} ELSE excused
  BY DEF Abandon, Finish, tables
<1>2. /\ req[r].pc = "founder" => req[r].slug \in Slug
      /\ req[r].pc = "mark" => req[r].invite \in Invite
  BY DEF IInv, FlightOK
<1>3. orgs \subseteq Slug /\ excused \subseteq Slug /\ dropped \subseteq Invite
  BY DEF IInv, TypeOK
<1>4. /\ orgs' \subseteq Slug /\ orgs \subseteq orgs' /\ \A s \in orgs' : s \in orgs
      /\ excused \subseteq excused' /\ excused' \subseteq Slug
      /\ dropped \subseteq dropped' /\ dropped' \subseteq Invite
  BY <1>1, <1>2, <1>3
<1>5. /\ req[r].pc = "founder" => req[r].slug \in excused'
      /\ req[r].pc = "mark" => req[r].invite \in dropped'
  BY <1>1
<1> QED
  BY <1>1, <1>4, <1>5, IdleOK, OrgKeeps

LEMMA CreateOrganizationKeeps == ASSUME IInv, NEW s \in Slug, CreateOrganization(s) PROVE IInv'
<1>1. /\ orgs' = orgs \cup {s}
      /\ excused' = excused \cup {s}
      /\ UNCHANGED <<account, invite, req, made, moved, dropped>>
  BY DEF CreateOrganization
<1>2. TypeOK'
  BY <1>1 DEF IInv, TypeOK
<1>3. FlightOK' /\ MadeOK'
  BY <1>1 DEF IInv, FlightOK, MadeOK, Taken, Pending
<1>4. EmptyOrgsAreExcused'
  BY <1>1 DEF IInv, EmptyOrgsAreExcused
<1>5. PendingTwiceWasLate' /\ AcceptedIsClosed'
  BY <1>1 DEF IInv, PendingTwiceWasLate, AcceptedIsClosed
<1> QED
  BY <1>2, <1>3, <1>4, <1>5 DEF IInv

-----------------------------------------------------------------------------
(* Accounts.                                                               *)

\* Account u gets address e, which nobody has; what waits for e is late.
Given(u, e, r, h) ==
    /\ account'[u].email = e
    /\ account' \in [User -> Account]
    /\ \A v \in User \ {u} : account'[v] = account[v]
    /\ account[u] # NoAccount => account'[u].org = account[u].org
    /\ req' = Outrun(r, e, h)

\* The handlers after a step of r that gives away address e.
LEMMA OutrunOK ==
    ASSUME IInv, NEW r \in Request, NEW e \in Email, NEW h \in Handler, NEW u \in User,
           ~Taken(e), Given(u, e, r, h), UNCHANGED invite,
           h.pc \in {"idle", "mark"},
           h.pc = "mark" => h.invite \in Invite /\ invite[h.invite] # NoInvite
    PROVE  /\ req' \in [Request -> Handler]
           /\ FlightOK'
           /\ Followed(r)
           /\ req'[r] = h
           /\ \A v, w \in User : account'[v].email = account'[w].email /\ account'[v] # NoAccount
                => v = w
<1>1. /\ req'[r] = h
      /\ \A q \in Request \ {r} :
           req'[q] = IF req[q].email = e /\ req[q].pc \in Hoping
                     THEN [req[q] EXCEPT !.late = TRUE] ELSE req[q]
  BY DEF Given, Outrun
<1>2. Followed(r)
  BY <1>1 DEF Followed
<1>3. req' \in [Request -> Handler]
  <2>1. \A q \in Request : req'[q] \in Handler
    BY <1>1, <1>2, Others
  <2> QED
    BY <2>1 DEF Given, Outrun
<1>4. \A f \in Email : Taken(f)' => f = e \/ Taken(f)
  BY DEF Given, Taken
<1>5. \A q \in Request \ {r} :
        req'[q].pc \in Hoping /\ ~req'[q].late
          => req[q].email # e /\ req'[q] = req[q]
  <2> SUFFICES ASSUME NEW q \in Request \ {r},
                      req'[q].pc \in Hoping, ~req'[q].late
               PROVE  req[q].email # e /\ req'[q] = req[q]
    OBVIOUS
  <2>1. req[q] \in Handler
    BY DEF IInv, TypeOK
  <2> QED
    BY <1>1, <2>1 DEF Handler, Hoping
<1>6. FlightOK'
  <2> SUFFICES ASSUME NEW q \in Request
               PROVE  /\ req'[q].pc \notin {"idle", "mark"} => req'[q].email \in Email
                      /\ req'[q].pc \in {"slug", "found", "founder"} => req'[q].slug \in Slug
                      /\ req'[q].pc \in Hoping /\ ~req'[q].late
                           => ~Taken(req[q].email)'
                      /\ req'[q].pc = "invite" /\ ~req'[q].late => Pending(req[q].email)' = {}
                      /\ req'[q].pc \in {"address", "accept", "mark"} =>
                           /\ req'[q].invite \in Invite
                           /\ invite'[req'[q].invite] # NoInvite
                      /\ req'[q].pc \in {"address", "accept"} => invite'[req'[q].invite].email = req'[q].email
    BY DEF FlightOK, Taken, Pending
  <2>1. CASE q = r
    BY <1>1, <2>1 DEF Hoping
  <2>2. CASE q # r
    <3>1. /\ req'[q].pc = req[q].pc /\ req'[q].email = req[q].email
          /\ req'[q].slug = req[q].slug /\ req'[q].invite = req[q].invite
          /\ ~req'[q].late => req'[q] = req[q]
      BY <1>2, <2>2, Others
    <3>2. req'[q].pc = "invite" /\ ~req'[q].late => Pending(req[q].email)' = {}
      BY <3>1 DEF Pending, IInv, FlightOK
    <3>3. req'[q].pc \in Hoping /\ ~req'[q].late
            => ~Taken(req[q].email)'
      BY <1>4, <1>5, <2>2 DEF IInv, FlightOK, Taken, Hoping
    <3> QED
      BY <3>1, <3>2, <3>3 DEF IInv, FlightOK
  <2> QED
    BY <2>1, <2>2
<1>7. \A v, w \in User : account'[v].email = account'[w].email /\ account'[v] # NoAccount
        => v = w
  <2> SUFFICES ASSUME NEW v \in User, NEW w \in User, v # w,
                      account'[v].email = account'[w].email, account'[v] # NoAccount
               PROVE  FALSE
    OBVIOUS
  <2>1. account'[u].email = e /\ \A x \in User : account[x].email # e
    BY DEF Given, Taken
  <2>2. v # u /\ w # u
    BY <2>1 DEF Given
  <2> QED
    BY <2>2 DEF Given, IInv, TypeOK
<1> QED
  BY <1>1, <1>2, <1>3, <1>6, <1>7

LEMMA FounderKeeps ==
    ASSUME IInv, NEW r \in Request, NEW u \in User, CreateFounder(r, u) PROVE IInv'
<1> DEFINE e == req[r].email
           s == req[r].slug
<1>1. req[r].pc = "founder" /\ e \in Email /\ s \in Slug /\ ~Taken(e)
  BY DEF CreateFounder, Free, IInv, FlightOK
<1>2. /\ account[u] = NoAccount
      /\ account' = [account EXCEPT ![u] = [email |-> e, org |-> s]]
      /\ req' = Outrun(r, e, Idle)
      /\ UNCHANGED <<orgs, invite, made, moved, dropped, excused>>
  BY DEF CreateFounder, history
<1> HIDE DEF e, s
<1>3. [email |-> e, org |-> s] \in Account
  BY <1>1 DEF Account
<1>4. Given(u, e, r, Idle)
  BY <1>2, <1>3 DEF Given, IInv, TypeOK
<1>5. /\ req' \in [Request -> Handler] /\ FlightOK' /\ Followed(r) /\ req'[r] = Idle
      /\ \A v, w \in User : account'[v].email = account'[w].email /\ account'[v] # NoAccount
           => v = w
  BY <1>1, <1>2, <1>4, IdleOK, OutrunOK
<1>6. TypeOK'
  BY <1>2, <1>4, <1>5 DEF IInv, TypeOK, Given
<1>7. MadeOK'
  BY <1>2 DEF IInv, MadeOK, TypeOK
<1>8. EmptyOrgsAreExcused'
  <2> SUFFICES ASSUME NEW t \in orgs \ excused
               PROVE  \/ \E v \in User : account'[v].org = t
                      \/ \E q \in Request : req'[q].pc = "founder" /\ req'[q].slug = t
    BY <1>2 DEF EmptyOrgsAreExcused
  <2>1. CASE \E v \in User : account[v].org = t
    <3>1. PICK v \in User : account[v].org = t
      BY <2>1
    <3>2. v # u
      BY <1>2, <3>1, NoneAssumption DEF NoAccount, IInv, TypeOK
    <3> QED
      BY <1>2, <3>1, <3>2 DEF IInv, TypeOK
  <2>2. CASE \E q \in Request : req[q].pc = "founder" /\ req[q].slug = t
    <3>1. PICK q \in Request : req[q].pc = "founder" /\ req[q].slug = t
      BY <2>2
    <3>2. CASE q = r
      BY <1>2, <3>1, <3>2 DEF s, IInv, TypeOK
    <3>3. CASE q # r
      BY <1>5, <3>1, <3>3, Others
    <3> QED
      BY <3>2, <3>3
  <2> QED
    BY <2>1, <2>2 DEF IInv, EmptyOrgsAreExcused
<1>9. PendingTwiceWasLate'
  BY <1>2 DEF IInv, PendingTwiceWasLate
<1>10. AcceptedIsClosed'
  <2>1. \A q \in Request : req[q].pc = "mark" => req'[q].pc = "mark" /\ req'[q].invite = req[q].invite
    BY <1>1, <1>5, Others
  <2> QED
    BY <1>2, <2>1 DEF IInv, AcceptedIsClosed
<1> QED
  BY <1>5, <1>6, <1>7, <1>8, <1>9, <1>10 DEF IInv

LEMMA InvitedKeeps ==
    ASSUME IInv, NEW r \in Request, NEW u \in User, CreateInvited(r, u) PROVE IInv'
<1> DEFINE e == req[r].email
           i == req[r].invite
           h == [req[r] EXCEPT !.pc = "mark", !.late = FALSE]
<1>1. /\ req[r].pc = "accept" /\ e \in Email /\ i \in Invite /\ ~Taken(e)
      /\ invite[i] # NoInvite /\ invite[i].email = e
  BY DEF CreateInvited, Free, IInv, FlightOK
<1>2. /\ account[u] = NoAccount
      /\ account' = [account EXCEPT ![u] = [email |-> e, org |-> Home]]
      /\ made' = [made EXCEPT ![u] = i]
      /\ req' = Outrun(r, e, h)
      /\ UNCHANGED <<orgs, invite, moved, dropped, excused>>
  BY DEF CreateInvited
<1>3. h \in Handler /\ h.pc = "mark" /\ h.invite = i
  <2>1. req[r] \in Handler
    BY DEF IInv, TypeOK
  <2> QED
    BY <2>1 DEF Handler
<1> HIDE DEF e, i, h
<1>4. [email |-> e, org |-> Home] \in Account /\ [email |-> e, org |-> Home] # NoAccount
  BY <1>1, NoneIsNoEmail DEF Account, NoAccount
<1>5. Given(u, e, r, h)
  BY <1>2, <1>4 DEF Given, IInv, TypeOK
<1>6. /\ req' \in [Request -> Handler] /\ FlightOK' /\ Followed(r) /\ req'[r] = h
      /\ \A v, w \in User : account'[v].email = account'[w].email /\ account'[v] # NoAccount
           => v = w
  BY <1>1, <1>2, <1>3, <1>5, OutrunOK
<1>7. TypeOK'
  BY <1>1, <1>2, <1>5, <1>6 DEF IInv, TypeOK, Given
<1>8. MadeOK'
  BY <1>1, <1>2, <1>4 DEF IInv, MadeOK, TypeOK
<1>9. EmptyOrgsAreExcused'
  <2> SUFFICES ASSUME NEW t \in orgs \ excused
               PROVE  \/ \E v \in User : account'[v].org = t
                      \/ \E q \in Request : req'[q].pc = "founder" /\ req'[q].slug = t
    BY <1>2 DEF EmptyOrgsAreExcused
  <2>1. CASE \E v \in User : account[v].org = t
    <3>1. PICK v \in User : account[v].org = t
      BY <2>1
    <3>2. v # u
      BY <1>2, <3>1, NoneAssumption DEF NoAccount, IInv, TypeOK
    <3> QED
      BY <1>2, <3>1, <3>2 DEF IInv, TypeOK
  <2>2. CASE \E q \in Request : req[q].pc = "founder" /\ req[q].slug = t
    BY <1>1, <1>6, <2>2, Others
  <2> QED
    BY <2>1, <2>2 DEF IInv, EmptyOrgsAreExcused
<1>10. PendingTwiceWasLate'
  BY <1>2 DEF IInv, PendingTwiceWasLate
<1>11. AcceptedIsClosed'
  <2>1. \A q \in Request : req[q].pc = "mark" => req'[q].pc = "mark" /\ req'[q].invite = req[q].invite
    BY <1>1, <1>6, Others
  <2>2. \A v \in User : made'[v] = IF v = u THEN i ELSE made[v]
    BY <1>2 DEF IInv, TypeOK
  <2> QED
    BY <1>2, <1>3, <1>6, <2>1, <2>2 DEF IInv, AcceptedIsClosed
<1> QED
  BY <1>6, <1>7, <1>8, <1>9, <1>10, <1>11 DEF IInv

-----------------------------------------------------------------------------
(* A change of address is a step of no handler.                            *)

LEMMA MoveKeeps == ASSUME IInv, NEW u \in User, NEW e \in Email, Move(u, e) PROVE IInv'
<1>1. /\ account[u] # NoAccount /\ ~Taken(e)
      /\ account' = [account EXCEPT ![u].email = e]
      /\ moved' = moved \cup {u}
      /\ UNCHANGED <<orgs, invite, made, dropped, excused>>
  BY DEF Move, Free
<1>2. req' = [q \in Request |->
                IF req[q].email = e /\ req[q].pc \in Hoping
                THEN [req[q] EXCEPT !.late = TRUE] ELSE req[q]]
  BY DEF Move
<1>3. \A q \in Request :
        /\ req'[q] \in Handler
        /\ req'[q].pc = req[q].pc /\ req'[q].email = req[q].email
        /\ req'[q].slug = req[q].slug /\ req'[q].invite = req[q].invite
        /\ ~req'[q].late => req'[q] = req[q]
        /\ ~req'[q].late /\ req'[q].pc \in Hoping => req[q].email # e
  <2> SUFFICES ASSUME NEW q \in Request
               PROVE  /\ req'[q] \in Handler
                      /\ req'[q].pc = req[q].pc /\ req'[q].email = req[q].email
                      /\ req'[q].slug = req[q].slug /\ req'[q].invite = req[q].invite
                      /\ ~req'[q].late => req'[q] = req[q]
                      /\ ~req'[q].late /\ req'[q].pc \in Hoping
                           => req[q].email # e
    OBVIOUS
  <2>1. req[q] \in Handler
    BY DEF IInv, TypeOK
  <2> QED
    BY <1>2, <2>1 DEF Handler
<1>4. account[u] \in [email : Email, org : Slug \cup {Home}]
  BY <1>1 DEF IInv, TypeOK, Account
<1>5. /\ account' \in [User -> Account]
      /\ account'[u].email = e /\ account'[u].org = account[u].org
      /\ account'[u] # NoAccount
      /\ \A v \in User \ {u} : account'[v] = account[v]
  BY <1>1, <1>4, NoneIsNoEmail DEF IInv, TypeOK, Account, NoAccount
<1>6. \A v, w \in User : account'[v].email = account'[w].email /\ account'[v] # NoAccount
        => v = w
  <2> SUFFICES ASSUME NEW v \in User, NEW w \in User, v # w,
                      account'[v].email = account'[w].email, account'[v] # NoAccount
               PROVE  FALSE
    OBVIOUS
  <2>1. \A x \in User : account[x].email # e
    BY <1>1 DEF Taken
  <2>2. v # u /\ w # u
    BY <1>5, <2>1
  <2> QED
    BY <1>5, <2>2 DEF IInv, TypeOK
<1>7. TypeOK'
  <2>1. req' \in [Request -> Handler]
    BY <1>2, <1>3
  <2> QED
    BY <1>1, <1>5, <1>6, <2>1 DEF IInv, TypeOK
<1>8. FlightOK'
  <2>1. \A f \in Email : Taken(f)' => f = e \/ Taken(f)
    BY <1>5 DEF Taken
  <2>2. \A q \in Request : req'[q].pc = "invite" /\ ~req'[q].late => Pending(req[q].email)' = {}
    BY <1>1, <1>3 DEF Pending, IInv, FlightOK
  <2>3. \A q \in Request :
          req'[q].pc \in Hoping /\ ~req'[q].late => ~Taken(req[q].email)'
    BY <1>3, <2>1 DEF IInv, FlightOK, Taken, Hoping
  <2> QED
    BY <1>1, <1>3, <2>2, <2>3 DEF IInv, FlightOK
<1>9. MadeOK'
  BY <1>1, <1>5 DEF IInv, MadeOK
<1>10. EmptyOrgsAreExcused'
  <2>1. \A v \in User : account'[v].org = account[v].org
    BY <1>5
  <2> QED
    BY <1>1, <1>3, <2>1 DEF IInv, EmptyOrgsAreExcused
<1>11. PendingTwiceWasLate' /\ AcceptedIsClosed'
  BY <1>1, <1>3 DEF IInv, PendingTwiceWasLate, AcceptedIsClosed
<1> QED
  BY <1>7, <1>8, <1>9, <1>10, <1>11 DEF IInv
-----------------------------------------------------------------------------
(* Invitations.                                                            *)

\* A new invitation is late if another is pending for its address.
LEMMA SendKeeps ==
    ASSUME IInv, NEW r \in Request, NEW i \in Invite, SendInvite(r, i) PROVE IInv'
<1> DEFINE e == req[r].email
           row == [status |-> "pending", email |-> e, late |-> req[r].late]
<1>1. /\ req[r].pc = "invite" /\ e \in Email /\ req[r].late \in BOOLEAN
      /\ ~req[r].late => Pending(e) = {}
  <2>1. req[r] \in Handler
    BY DEF IInv, TypeOK
  <2> QED
    BY <2>1 DEF SendInvite, Handler, IInv, FlightOK
<1>2. /\ invite[i] = NoInvite
      /\ invite' = [invite EXCEPT ![i] = row]
      /\ req' = [q \in Request |->
                   IF q = r THEN Idle
                   ELSE IF req[q].pc = "invite" /\ req[q].email = e
                   THEN [req[q] EXCEPT !.late = TRUE] ELSE req[q]]
      /\ UNCHANGED <<account, orgs, made, moved, dropped, excused>>
  BY DEF SendInvite, history
<1>3. /\ row \in InviteRow /\ row # NoInvite
      /\ row.status = "pending" /\ row.email = e /\ row.late = req[r].late
  BY <1>1 DEF InviteRow, NoInvite
<1> HIDE DEF e, row
<1>4. req'[r] = Idle /\ Followed(r)
  BY <1>2 DEF Followed
<1>5. \A q \in Request \ {r} :
        /\ req'[q] \in Handler
        /\ req'[q].pc = req[q].pc /\ req'[q].email = req[q].email
        /\ req'[q].slug = req[q].slug /\ req'[q].invite = req[q].invite
        /\ ~req'[q].late => req'[q] = req[q]
  BY <1>4, Others
<1>6. req' \in [Request -> Handler]
  <2>1. \A q \in Request : req'[q] \in Handler
    BY <1>4, <1>5, IdleOK
  <2> QED
    BY <1>2, <2>1
<1>7. invite' \in [Invite -> InviteRow] /\ invite'[i] = row
      /\ \A j \in Invite \ {i} : invite'[j] = invite[j]
  BY <1>2, <1>3 DEF IInv, TypeOK
<1>8. TypeOK'
  BY <1>2, <1>6, <1>7 DEF IInv, TypeOK
<1>9. FlightOK'
  <2>1. \A q \in Request \ {r} : req'[q].pc = "invite" /\ ~req'[q].late => req[q].email # e
    <3> SUFFICES ASSUME NEW q \in Request \ {r}, req'[q].pc = "invite", ~req'[q].late
                 PROVE  req[q].email # e
      OBVIOUS
    <3>1. req[q] \in Handler
      BY DEF IInv, TypeOK
    <3> QED
      BY <1>2, <3>1 DEF Handler
  <2>2. \A q \in Request \ {r} :
          req'[q].pc = "invite" /\ ~req'[q].late => Pending(req[q].email)' = {}
    BY <1>3, <1>5, <1>7, <2>1 DEF Pending, IInv, FlightOK
  <2>3. \A f \in Email : Taken(f)' <=> Taken(f)
    BY <1>2 DEF Taken
  <2>4. \A q \in Request \ {r} :
          req'[q].pc \in Hoping /\ ~req'[q].late
            => ~Taken(req[q].email)'
    BY <1>5, <2>3 DEF IInv, FlightOK, Taken, Hoping
  <2>5. \A q \in Request \ {r} : req'[q].pc \in {"address", "accept", "mark"} => req[q].invite \in Invite \ {i}
    BY <1>2, <1>5 DEF IInv, FlightOK
  <2> SUFFICES ASSUME NEW q \in Request
               PROVE  /\ req'[q].pc \notin {"idle", "mark"} => req'[q].email \in Email
                      /\ req'[q].pc \in {"slug", "found", "founder"} => req'[q].slug \in Slug
                      /\ req'[q].pc \in Hoping /\ ~req'[q].late
                           => ~Taken(req[q].email)'
                      /\ req'[q].pc = "invite" /\ ~req'[q].late => Pending(req[q].email)' = {}
                      /\ req'[q].pc \in {"address", "accept", "mark"} =>
                           /\ req'[q].invite \in Invite
                           /\ invite'[req'[q].invite] # NoInvite
                      /\ req'[q].pc \in {"address", "accept"} => invite'[req'[q].invite].email = req'[q].email
    BY DEF FlightOK, Taken, Pending
  <2>6. CASE q = r
    BY <1>4, <2>6, IdleOK DEF Hoping
  <2>7. CASE q # r
    BY <1>5, <1>7, <2>2, <2>4, <2>5, <2>7 DEF IInv, FlightOK
  <2> QED
    BY <2>6, <2>7
<1>10. \A u \in User : made[u] # i
  BY <1>2, NoneAssumption DEF IInv, MadeOK
<1>11. MadeOK'
  BY <1>2, <1>7, <1>10 DEF IInv, MadeOK, TypeOK
<1>12. EmptyOrgsAreExcused'
  <2>1. \A q \in Request : req[q].pc = "founder" => req'[q].pc = "founder" /\ req'[q].slug = req[q].slug
    BY <1>1, <1>5
  <2> QED
    BY <1>2, <2>1 DEF IInv, EmptyOrgsAreExcused
<1>13. PendingTwiceWasLate'
  BY <1>1, <1>3, <1>7 DEF IInv, PendingTwiceWasLate, Pending
<1>14. AcceptedIsClosed'
  <2>1. \A q \in Request : req[q].pc = "mark" => req'[q].pc = "mark" /\ req'[q].invite = req[q].invite
    BY <1>1, <1>5
  <2> QED
    BY <1>2, <1>7, <1>10, <2>1 DEF IInv, AcceptedIsClosed, TypeOK
<1> QED
  BY <1>8, <1>9, <1>11, <1>12, <1>13, <1>14 DEF IInv

\* An invitation that is closed stays what it was otherwise, and a handler that
\* ends with it has marked it.
CloseStep(i, row) ==
    /\ i \in Invite /\ invite[i] # NoInvite
    /\ row \in InviteRow /\ row # NoInvite
    /\ row.status = "closed" /\ row.email = invite[i].email
    /\ invite' = [invite EXCEPT ![i] = row]
    /\ req' \in [Request -> Handler]
    /\ \A q \in Request :
         req'[q] = req[q] \/ (req'[q] = Idle /\ req[q].pc = "mark" /\ req[q].invite = i)
    /\ UNCHANGED <<account, orgs, made, moved, dropped, excused>>

LEMMA CloseKeeps ==
    ASSUME IInv, NEW i, NEW row, CloseStep(i, row)
    PROVE  IInv'
<1> USE DEF CloseStep
<1>2. /\ invite' \in [Invite -> InviteRow]
      /\ invite'[i].status = "closed" /\ invite'[i] # NoInvite
      /\ \A j \in Invite : invite'[j].email = invite[j].email
      /\ \A j \in Invite \ {i} : invite'[j] = invite[j]
  BY DEF IInv, TypeOK
<1>3. TypeOK'
  BY <1>2 DEF IInv, TypeOK, history
<1>4. FlightOK'
  <2>1. \A f \in Email : Pending(f) = {} => Pending(f)' = {}
    BY <1>2 DEF Pending
  <2>2. \A q \in Request : req'[q].pc = "invite" /\ ~req'[q].late => Pending(req[q].email)' = {}
    BY <2>1, IdleOK DEF IInv, FlightOK, Pending
  <2>3. \A q \in Request :
          req'[q].pc \in Hoping /\ ~req'[q].late
            => ~Taken(req[q].email)'
    BY IdleOK DEF IInv, FlightOK, Taken, Hoping
  <2> SUFFICES ASSUME NEW q \in Request
               PROVE  /\ req'[q].pc \notin {"idle", "mark"} => req'[q].email \in Email
                      /\ req'[q].pc \in {"slug", "found", "founder"} => req'[q].slug \in Slug
                      /\ req'[q].pc \in Hoping /\ ~req'[q].late
                           => ~(\E u \in User : account'[u].email = req'[q].email)
                      /\ req'[q].pc = "invite" /\ ~req'[q].late
                           => {j \in Invite : invite'[j].status = "pending"
                                              /\ invite'[j].email = req'[q].email} = {}
                      /\ req'[q].pc \in {"address", "accept", "mark"} =>
                           /\ req'[q].invite \in Invite
                           /\ invite'[req'[q].invite] # NoInvite
                      /\ req'[q].pc \in {"address", "accept"} => invite'[req'[q].invite].email = req'[q].email
    BY DEF FlightOK, Taken, Pending
  <2>4. CASE req'[q] = Idle
    BY <2>4, IdleOK DEF Hoping
  <2>5. CASE req'[q] = req[q]
    BY <1>2, <2>2, <2>3, <2>5 DEF IInv, FlightOK, Taken, Pending
  <2> QED
    BY <2>4, <2>5
<1>5. MadeOK'
  BY <1>2 DEF IInv, MadeOK, TypeOK, history
<1>6. EmptyOrgsAreExcused'
  <2>1. \A q \in Request : req[q].pc = "founder" => req'[q] = req[q]
    OBVIOUS
  <2> QED
    BY <2>1 DEF IInv, EmptyOrgsAreExcused, history
<1>7. PendingTwiceWasLate'
  BY <1>2 DEF IInv, PendingTwiceWasLate
<1>8. AcceptedIsClosed'
  <2>1. \A q \in Request : req[q].pc = "mark" /\ req[q].invite # i => req'[q] = req[q]
    OBVIOUS
  <2>2. \A j \in Invite : invite[j].status = "closed" => invite'[j].status = "closed"
    BY <1>2
  <2> QED
    BY <1>2, <2>1, <2>2 DEF IInv, AcceptedIsClosed, history
<1> QED
  BY <1>3, <1>4, <1>5, <1>6, <1>7, <1>8 DEF IInv

\* The row of an invitation when it is closed.
LEMMA ClosedRow ==
    ASSUME IInv, NEW i \in Invite, invite[i] # NoInvite
    PROVE  LET row == [invite[i] EXCEPT !.status = "closed"] IN
           row \in InviteRow /\ row.status = "closed" /\ row.email = invite[i].email
           /\ row # NoInvite
<1>1. invite[i] \in [status : {"pending", "closed"}, email : Email, late : BOOLEAN]
  BY DEF IInv, TypeOK, InviteRow
<1> QED
  BY <1>1 DEF InviteRow, NoInvite

LEMMA ExpireKeeps == ASSUME IInv, NEW i \in Invite, ExpireInvite(i) PROVE IInv'
<1> DEFINE row == [invite[i] EXCEPT !.status = "closed"]
<1>1. invite[i] # NoInvite
  BY DEF ExpireInvite, NoInvite
<1>2. /\ req' \in [Request -> Handler] /\ \A q \in Request : req'[q] = req[q]
      /\ invite' = [invite EXCEPT ![i] = row]
      /\ UNCHANGED <<account, orgs, made, moved, dropped, excused>>
  BY DEF ExpireInvite, IInv, TypeOK, history
<1>3. /\ row \in InviteRow /\ row.status = "closed" /\ row.email = invite[i].email
      /\ row # NoInvite
  BY <1>1, ClosedRow
<1> HIDE DEF row
<1>4. CloseStep(i, row)
  BY <1>1, <1>2, <1>3 DEF CloseStep
<1> QED
  BY <1>4, CloseKeeps

LEMMA MarkKeeps == ASSUME IInv, NEW r \in Request, MarkAccepted(r) PROVE IInv'
<1> DEFINE i == req[r].invite
           row == [invite[i] EXCEPT !.status = "closed"]
<1>1. req[r].pc = "mark" /\ i \in Invite /\ invite[i] # NoInvite
  BY DEF MarkAccepted, IInv, FlightOK
<1>2. /\ req' = [req EXCEPT ![r] = Idle]
      /\ invite' = [invite EXCEPT ![i] = row]
      /\ UNCHANGED <<account, orgs, made, moved, dropped, excused>>
  BY DEF MarkAccepted, Finish, history
<1>3. /\ req' \in [Request -> Handler]
      /\ \A q \in Request :
           req'[q] = req[q] \/ (req'[q] = Idle /\ req[q].pc = "mark" /\ req[q].invite = i)
  BY <1>1, <1>2, IdleOK DEF IInv, TypeOK
<1>4. /\ row \in InviteRow /\ row.status = "closed" /\ row.email = invite[i].email
      /\ row # NoInvite
  BY <1>1, ClosedRow
<1> HIDE DEF i, row
<1>5. CloseStep(i, row)
  BY <1>1, <1>2, <1>3, <1>4 DEF CloseStep
<1> QED
  BY <1>5, CloseKeeps

-----------------------------------------------------------------------------

\* The invariant is inductive.
THEOREM NextIInv == IInv /\ [Next]_vars => IInv'
<1> SUFFICES ASSUME IInv, [Next]_vars PROVE IInv'
  OBVIOUS
<1>1. CASE UNCHANGED vars
  <2>1. UNCHANGED <<account, orgs, invite, req, made, moved, dropped, excused>>
    BY <1>1 DEF vars, tables, history
  <2> QED
    BY <2>1 DEF IInv, TypeOK, FlightOK, MadeOK, EmptyOrgsAreExcused, PendingTwiceWasLate,
                AcceptedIsClosed, Taken, Pending
<1>2. CASE Next
  BY <1>2, RegisterFindKeeps, InviteFindKeeps, AcceptFindKeeps, SecondFindKeeps,
     FoundKeeps, FounderKeeps, RefusedKeeps, CreateOrganizationKeeps,
     SendKeeps, InvitedKeeps, MarkKeeps, ExpireKeeps, MoveKeeps, AbandonKeeps DEF Next
<1> QED
  BY <1>1, <1>2

\* The invariant holds in every reachable state.
THEOREM SpecIInv == Spec => []IInv
  BY InitIInv, NextIInv, PTL DEF Spec

\* Type correctness; no two accounts have one address.
THEOREM TypeCorrect == Spec => []TypeOK
  BY SpecIInv, PTL DEF IInv

\* register() leaves an organisation without a user only when it stops, or
\* when its address is taken after it has looked.
THEOREM OrgsAreInhabited == Spec => []EmptyOrgsAreExcused
  BY SpecIInv, PTL DEF IInv

\* Two invitations are pending for one address only when one of them was
\* written by a handler that another had overtaken.
THEOREM InvitationsAreSingle == Spec => []PendingTwiceWasLate
  BY SpecIInv, PTL DEF IInv

\* An accepted invitation is closed, unless the handler stopped before that.
THEOREM AcceptanceCloses == Spec => []AcceptedIsClosed
  BY SpecIInv, PTL DEF IInv

\* An invitation makes a second account only when the first has moved: accounts
\* that have not moved share its address, which the index does not allow.
THEOREM SecondAccountsMoved == Spec => []SecondAccountMoved
<1>1. ASSUME IInv PROVE SecondAccountMoved
  <2> SUFFICES ASSUME NEW u \in User, NEW v \in User, made[u] = made[v], made[u] # None,
                      u \notin moved, v \notin moved
               PROVE  u = v
    BY DEF SecondAccountMoved
  <2>1. account[u].email = account[v].email /\ account[u] # NoAccount
    BY <1>1 DEF IInv, MadeOK
  <2> QED
    BY <1>1, <2>1 DEF IInv, TypeOK
<1> QED
  BY <1>1, SpecIInv, PTL

-----------------------------------------------------------------------------

\* With one handler at a time no inviter is overtaken.
NoneInvitesLate ==
    /\ \A i \in Invite : ~invite[i].late
    /\ \A r \in Request : req[r].pc \in {"pending", "invite"} => ~req[r].late

OnePendingPerAddress == \A e \in Email : \A i, j \in Pending(e) : i = j

\* With one handler at a time an address has one pending invitation at most:
\* the read of inviteUser() is enough then.
THEOREM SerialInvitationsAreSingle ==
  ASSUME \A r, q \in Request : r = q
  PROVE  Spec => []OnePendingPerAddress
  <1>1. Init => NoneInvitesLate
    BY DEF Init, NoneInvitesLate, NoInvite, Idle
  <1>2. IInv /\ NoneInvitesLate /\ [Next]_vars => NoneInvitesLate'
    <2>. SUFFICES ASSUME IInv, NoneInvitesLate, [Next]_vars PROVE NoneInvitesLate'
      OBVIOUS
    <2>. USE DEF NoneInvitesLate
    <2>1. req \in [Request -> Handler] /\ invite \in [Invite -> InviteRow]
      BY DEF IInv, TypeOK
    <2>2. \A i \in Invite : [invite[i] EXCEPT !.status = "closed"].late = invite[i].late
      BY <2>1 DEF InviteRow, NoInvite
    <2>3. ASSUME NEW r \in Request, UNCHANGED invite, req'[r].pc \notin {"pending", "invite"} \/ ~req'[r].late
          PROVE  NoneInvitesLate'
      BY <2>3
    <2>4. ASSUME NEW r \in Request, NEW i \in Invite, SendInvite(r, i) PROVE NoneInvitesLate'
      <3>1. req'[r] = Idle /\ \A q \in Request : q = r
        BY <2>4 DEF SendInvite
      <3>2. invite' = [invite EXCEPT ![i] =
                         [status |-> "pending", email |-> req[r].email, late |-> req[r].late]]
        BY <2>4 DEF SendInvite
      <3>3. ~req[r].late
        BY <2>4 DEF SendInvite
      <3>. QED  BY <2>1, <3>1, <3>2, <3>3, IdleOK
    <2>5. ASSUME NEW r \in Request, MarkAccepted(r) PROVE NoneInvitesLate'
      <3>1. invite' = [invite EXCEPT ![req[r].invite].status = "closed"] /\ req'[r] = Idle
        BY <2>1, <2>5 DEF MarkAccepted, Finish
      <3>. QED  BY <2>1, <2>2, <3>1, IdleOK
    <2>6. ASSUME NEW i \in Invite, ExpireInvite(i) PROVE NoneInvitesLate'
      BY <2>1, <2>2, <2>6 DEF ExpireInvite
    <2>7. ASSUME NEW r \in Request, \E e \in Email, s \in Slug : RegisterFind(r, e, s)
          PROVE  NoneInvitesLate'
      <3>1. req'[r].pc = "slug" /\ UNCHANGED invite
        BY <2>1, <2>7, IdleOK DEF RegisterFind, Begin, Idle, Handler, tables
      <3>. QED  BY <2>3, <3>1
    <2>8. ASSUME NEW r \in Request, \E e \in Email : InviteFind(r, e) PROVE NoneInvitesLate'
      <3>1. ~req'[r].late /\ UNCHANGED invite
        BY <2>1, <2>8, IdleOK DEF InviteFind, Begin, Idle, Handler, tables
      <3>. QED  BY <2>3, <3>1
    <2>9. ASSUME NEW r \in Request, \E i \in Invite : AcceptFind(r, i) PROVE NoneInvitesLate'
      <3>1. req'[r].pc = "address" /\ UNCHANGED invite
        BY <2>1, <2>9, IdleOK DEF AcceptFind, Begin, Idle, Handler, tables
      <3>. QED  BY <2>3, <3>1
    <2>10. ASSUME NEW r \in Request, NEW from \in {"slug", "found", "pending", "address"},
                  NEW to \in {"found", "founder", "invite", "accept"}, Goto(r, from, to),
                  to = "invite" => from = "pending", UNCHANGED invite
           PROVE  NoneInvitesLate'
      <3>1. req[r] \in Handler /\ req[r].pc = from /\ req'[r] = [req[r] EXCEPT !.pc = to]
        BY <2>1, <2>10 DEF Goto
      <3>2. req'[r].pc = to /\ req'[r].late = req[r].late
        BY <3>1 DEF Handler
      <3>. QED  BY <2>3, <2>10, <3>1, <3>2
    <2>11. ASSUME NEW r \in Request,
                  RegisterFindOrg(r) \/ InviteFindPending(r) \/ AcceptFindUser(r) \/ FoundOrganization(r)
           PROVE  NoneInvitesLate'
      BY <2>10, <2>11 DEF RegisterFindOrg, InviteFindPending, AcceptFindUser, FoundOrganization, tables
    <2>12. ASSUME NEW r \in Request, \E u \in User : CreateFounder(r, u) PROVE NoneInvitesLate'
      <3>1. req'[r] = Idle /\ UNCHANGED invite
        BY <2>12 DEF CreateFounder, Outrun
      <3>. QED  BY <2>3, <3>1, IdleOK
    <2>13. ASSUME NEW r \in Request, \E u \in User : CreateInvited(r, u) PROVE NoneInvitesLate'
      <3>1. /\ req[r] \in Handler /\ UNCHANGED invite
            /\ req'[r] = [req[r] EXCEPT !.pc = "mark", !.late = FALSE]
        BY <2>1, <2>13 DEF CreateInvited, Outrun
      <3>2. req'[r].pc = "mark"
        BY <3>1 DEF Handler
      <3>. QED  BY <2>3, <3>1, <3>2
    <2>14. ASSUME NEW r \in Request, FounderRefused(r) \/ Abandon(r) PROVE NoneInvitesLate'
      <3>1. req'[r] = Idle /\ UNCHANGED invite
        BY <2>1, <2>14 DEF FounderRefused, Abandon, Finish, tables
      <3>. QED  BY <2>3, <3>1, IdleOK
    <2>15. ASSUME NEW u \in User, NEW e \in Email, Move(u, e) PROVE NoneInvitesLate'
      <3>1. \A q \in Request : req'[q].pc = req[q].pc /\ (req[q].pc \in {"pending", "invite"} => req'[q] = req[q])
        BY <2>1, <2>15 DEF Move, Handler, Hoping
      <3>. QED  BY <2>15, <3>1 DEF Move
    <2>16. CASE UNCHANGED vars \/ \E s \in Slug : CreateOrganization(s)
      BY <2>16 DEF vars, tables, CreateOrganization
    <2>. QED
      BY <2>4, <2>5, <2>6, <2>7, <2>8, <2>9, <2>11, <2>12, <2>13, <2>14, <2>15, <2>16 DEF Next
  <1>3. IInv /\ NoneInvitesLate => OnePendingPerAddress
    BY DEF IInv, PendingTwiceWasLate, NoneInvitesLate, OnePendingPerAddress, Pending
  <1>. QED  BY <1>1, <1>2, <1>3, SpecIInv, PTL DEF Spec
=============================================================================
