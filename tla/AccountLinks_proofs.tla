------------------------- MODULE AccountLinks_proofs -------------------------
(***************************************************************************)
(* Theorems about AccountLinks, for any accounts, addresses and handlers.  *)
(***************************************************************************)
EXTENDS AccountLinks, TLAPS

LEMMA InitIInv == Init => IInv
<1> SUFFICES ASSUME Init PROVE IInv
  OBVIOUS
<1>1. TypeOK
  BY DEF Init, TypeOK, LinkRow, Handler, Idle
<1>2. FlightOK
  BY DEF Init, FlightOK, Idle
<1>3. OneLinkPerHandler
  BY DEF Init, OneLinkPerHandler, Unsent
<1>4. HadOK /\ SpentOK /\ VerifiedWasProven
  BY DEF Init, HadOK, SpentOK, VerifiedWasProven
<1> QED
  BY <1>1, <1>2, <1>3, <1>4 DEF IInv

\* What is said of the accounts, and of the reset links: no handler writes both.
AccountsOK ==
    /\ email \in [User -> Email]
    /\ \A u, v \in User : email[u] = email[v] => u = v
    /\ verified \in [User -> BOOLEAN]
    /\ proof \in [User -> {"none", "link", "race"}]
    /\ had \in [User -> SUBSET Email]
    /\ \A u \in User : email[u] \in had[u]
    /\ \A u \in User : verified[u] => proof[u] # "none"

LinksOK ==
    /\ link \in [Link -> LinkRow]
    /\ spent \subseteq Link
    /\ SpentOK
    /\ OneLinkPerHandler

LEMMA Parts == IInv => AccountsOK /\ LinksOK /\ FlightOK /\ req \in [Request -> Handler]
BY DEF IInv, TypeOK, HadOK, VerifiedWasProven, AccountsOK, LinksOK

LEMMA Whole ==
    ASSUME AccountsOK', LinksOK', FlightOK', req' \in [Request -> Handler] PROVE IInv'
BY DEF IInv, TypeOK, HadOK, VerifiedWasProven, AccountsOK, LinksOK

LEMMA AccountsSame == ASSUME AccountsOK, UNCHANGED accounts PROVE AccountsOK'
BY DEF AccountsOK, accounts

LEMMA LinksSame == ASSUME LinksOK, UNCHANGED resets PROVE LinksOK'
BY DEF LinksOK, SpentOK, OneLinkPerHandler, resets

\* A handler that ends relies on nothing.
LEMMA IdleOK == Idle \in Handler /\ Idle.pc = "idle"
BY DEF Idle, Handler

\* A handler that goes on with h, and writes nothing.
LEMMA ReqKeeps ==
    ASSUME IInv, NEW r \in Request, NEW h \in Handler,
           req' = [req EXCEPT ![r] = h],
           UNCHANGED <<accounts, resets>>,
           h.pc \notin {"create"},
           h.pc \in {"verify", "update", "reset"} => h.user \in User,
           h.pc \in {"update", "delete", "find", "reset"} => h.email \in Email,
           h.pc = "verify" => proof[h.user] # "none",
           h.pc \in {"find", "reset"} => h.link \in Link /\ link[h.link].email = h.email,
           h.pc = "reset" => h.email \in had[h.user]
    PROVE  IInv'
<1>1. AccountsOK' /\ LinksOK'
  BY Parts, AccountsSame, LinksSame
<1>2. req' \in [Request -> Handler]
  BY Parts
<1>3. FlightOK'
  BY Parts DEF FlightOK, accounts, resets
<1> QED
  BY <1>1, <1>2, <1>3, Whole

\* The handlers that read, and those that end with nothing written.
LEMMA VerifyFindKeeps ==
    ASSUME IInv, NEW r \in Request, NEW u \in User, NEW e \in Email, VerifyFind(r, u, e)
    PROVE  IInv'
<1> DEFINE h == [Idle EXCEPT !.pc = "verify", !.user = u]
<1>1. e = email[u]
  BY DEF VerifyFind, VerificationHash
<1>2. proof' = [proof EXCEPT ![u] = "link"] /\ UNCHANGED <<email, verified, had, resets>>
  BY <1>1 DEF VerifyFind
<1>3. req' = [req EXCEPT ![r] = h]
  BY DEF VerifyFind, Begin
<1>4. h \in Handler /\ h.pc = "verify" /\ h.user = u
  BY DEF Idle, Handler
<1>5. AccountsOK' /\ LinksOK'
  BY <1>2, Parts, LinksSame DEF AccountsOK
<1>6. req' \in [Request -> Handler]
  BY <1>3, <1>4, Parts
<1>7. FlightOK'
  BY <1>2, <1>3, <1>4, Parts DEF FlightOK, AccountsOK, resets
<1> QED
  BY <1>5, <1>6, <1>7, Whole

LEMMA FindKeeps ==
    ASSUME IInv, NEW r \in Request,
           \/ \E u \in User, e \in Email : UpdateFind(r, u, e)
           \/ \E e \in Email : ForgotFind(r, e)
           \/ \E l \in Link, e \in Email : ResetFind(r, l, e)
           \/ Abandon(r)
    PROVE  IInv'
<1>1. ASSUME NEW u \in User, NEW e \in Email, UpdateFind(r, u, e) PROVE IInv'
  <2> DEFINE h == [Idle EXCEPT !.pc = "update", !.user = u, !.email = e]
  <2>1. h \in Handler /\ h.pc = "update" /\ h.user = u /\ h.email = e
    BY DEF Idle, Handler
  <2> HIDE DEF h
  <2>2. req' = [req EXCEPT ![r] = h] /\ UNCHANGED <<accounts, resets>>
    BY <1>1 DEF UpdateFind, Begin, h
  <2> QED
    BY <2>1, <2>2, ReqKeeps
<1>2. ASSUME NEW e \in Email, ForgotFind(r, e) PROVE IInv'
  <2> DEFINE h == [Idle EXCEPT !.pc = "delete", !.email = e]
  <2>1. h \in Handler /\ h.pc = "delete" /\ h.email = e
    BY DEF Idle, Handler
  <2> HIDE DEF h
  <2>2. req' = [req EXCEPT ![r] = h] /\ UNCHANGED <<accounts, resets>>
    BY <1>2 DEF ForgotFind, Begin, h
  <2> QED
    BY <2>1, <2>2, ReqKeeps
<1>3. ASSUME NEW l \in Link, NEW e \in Email, ResetFind(r, l, e) PROVE IInv'
  <2> DEFINE h == [Idle EXCEPT !.pc = "find", !.email = e, !.link = l]
  <2>1. h \in Handler /\ h.pc = "find" /\ h.email = e /\ h.link = l
    BY DEF Idle, Handler
  <2> HIDE DEF h
  <2>2. req' = [req EXCEPT ![r] = h] /\ UNCHANGED <<accounts, resets>> /\ link[l].email = e
    BY <1>3 DEF ResetFind, Found, Begin, h
  <2> QED
    BY <2>1, <2>2, ReqKeeps
<1>4. CASE Abandon(r)
  <2>1. req' = [req EXCEPT ![r] = Idle] /\ UNCHANGED <<accounts, resets>>
    BY <1>4 DEF Abandon, Finish
  <2> QED
    BY <2>1, IdleOK, ReqKeeps
<1> QED
  BY <1>1, <1>2, <1>3, <1>4

\* resetPassword() reads the account that has the address now.
LEMMA ResetUserKeeps ==
    ASSUME IInv, NEW r \in Request, NEW u \in User, ResetUser(r, u) PROVE IInv'
<1> DEFINE h == [req[r] EXCEPT !.pc = "reset", !.user = u]
<1>1. req[r] \in Handler /\ req[r].pc = "find" /\ email[u] = req[r].email
  BY Parts DEF ResetUser
<1>2. /\ h \in Handler /\ h.pc = "reset" /\ h.user = u
      /\ h.email = req[r].email /\ h.link = req[r].link
  BY <1>1 DEF Handler
<1>3. /\ req[r].email \in Email /\ req[r].link \in Link
      /\ link[req[r].link].email = req[r].email
  BY <1>1, Parts DEF FlightOK
<1>4. req[r].email \in had[u]
  BY <1>1, Parts DEF AccountsOK
<1>5. req' = [req EXCEPT ![r] = h] /\ UNCHANGED <<accounts, resets>>
  BY DEF ResetUser
<1> HIDE DEF h
<1> QED
  BY <1>2, <1>3, <1>4, <1>5, ReqKeeps

\* verifyEmail() marks an account that was shown a link, or has moved since.
LEMMA VerifyKeeps == ASSUME IInv, NEW r \in Request, Verify(r) PROVE IInv'
<1>1. req' = [req EXCEPT ![r] = Idle] /\ UNCHANGED <<email, proof, had, resets>>
  BY DEF Verify, Finish
<1>2. req[r].user \in User /\ proof[req[r].user] # "none"
  BY Parts DEF Verify, FlightOK
<1>3. AccountsOK' /\ LinksOK'
  BY <1>1, <1>2, Parts, LinksSame DEF Verify, AccountsOK
<1>4. req' \in [Request -> Handler]
  BY <1>1, IdleOK, Parts
<1>5. FlightOK'
  BY <1>1, IdleOK, Parts DEF FlightOK, resets
<1> QED
  BY <1>3, <1>4, <1>5, Whole

\* A new address is not verified, and whoever was about to verify the old one
\* has lost the race.
LEMMA UpdateKeeps == ASSUME IInv, NEW r \in Request, Update(r) PROVE IInv'
<1> DEFINE u == req[r].user
           e == req[r].email
<1>1. u \in User /\ e \in Email
  BY Parts DEF Update, FlightOK
<1>2. /\ email' = [email EXCEPT ![u] = e]
      /\ verified' = [verified EXCEPT ![u] = FALSE]
      /\ had' = [had EXCEPT ![u] = @ \cup {e}]
      /\ proof' = [proof EXCEPT ![u] = IF Verifying(u) THEN "race" ELSE "none"]
      /\ req' = [req EXCEPT ![r] = Idle]
      /\ req[r].pc = "update"
      /\ UNCHANGED resets
      /\ \A v \in User \ {u} : email[v] # e
  BY DEF Update, Finish, Unverified, FreeFor
<1>3. AccountsOK' /\ LinksOK'
  <2> HIDE DEF u, e
  <2> QED
    BY <1>1, <1>2, Parts, LinksSame DEF AccountsOK
<1>4. req' \in [Request -> Handler]
  BY <1>2, IdleOK, Parts
<1>5. ASSUME NEW q \in Request, req'[q].pc = "verify" PROVE proof'[req'[q].user] # "none"
  <2>1. q # r /\ req'[q] = req[q]
    BY <1>2, <1>5, IdleOK, Parts
  <2>2. req[q].user = u => Verifying(u)
    BY <2>1, <1>5 DEF Verifying
  <2>3. req[q].user \in User /\ proof[req[q].user] # "none"
    BY <2>1, <1>5, Parts DEF FlightOK
  <2> QED
    BY <1>2, <2>1, <2>2, <2>3, Parts DEF AccountsOK
<1>6. \A v \in User : had[v] \subseteq had'[v]
  BY <1>1, <1>2, Parts DEF AccountsOK
<1>7. \A q \in Request : req'[q] = req[q] \/ req'[q] = Idle
  BY <1>2, Parts
<1>8. FlightOK'
  BY <1>2, <1>5, <1>6, <1>7, IdleOK, Parts DEF FlightOK, resets
<1> QED
  BY <1>3, <1>4, <1>8, Whole

\* deleteMany: rows of an address only get closed, and keep their address.
LEMMA WithoutLinks ==
    ASSUME LinksOK, NEW e \in Email
    PROVE  /\ WithoutLinksTo(e) \in [Link -> LinkRow]
           /\ \A l \in Link :
                /\ WithoutLinksTo(e)[l].email = link[l].email
                /\ link[l].status = "gone" => WithoutLinksTo(e)[l].status = "gone"
                /\ WithoutLinksTo(e)[l].status = "live" =>
                     WithoutLinksTo(e)[l] = link[l] /\ link[l].email # e
                /\ link[l].email = e => WithoutLinksTo(e)[l].status = "gone"
<1> SUFFICES ASSUME NEW l \in Link
             PROVE  LET row == WithoutLinksTo(e)[l] IN
                    /\ row \in LinkRow
                    /\ row.email = link[l].email
                    /\ link[l].status = "gone" => row.status = "gone"
                    /\ row.status = "live" => row = link[l] /\ link[l].email # e
                    /\ link[l].email = e => row.status = "gone"
  BY DEF WithoutLinksTo
<1>1. link[l] \in LinkRow
  BY DEF LinksOK
<1>2. e # None
  BY NoneAssumption
<1>3. CASE link[l].status = "live" /\ link[l].email = e
  <2>1. /\ link[l] \in [status : {"live"}, email : Email, by : Request]
        /\ WithoutLinksTo(e)[l] = Gone(link[l])
    BY <1>1, <1>3 DEF LinkRow, Unsent, WithoutLinksTo
  <2> QED
    BY <1>3, <2>1 DEF Gone, LinkRow
<1>4. CASE ~(link[l].status = "live" /\ link[l].email = e)
  <2>1. WithoutLinksTo(e)[l] = link[l]
    BY <1>4 DEF WithoutLinksTo
  <2> QED
    BY <1>1, <1>2, <1>4, <2>1 DEF LinkRow, Unsent
<1> QED
  BY <1>3, <1>4

\* forgotPassword() has none of the links in force when it is to send one.
LEMMA ForgotDeleteKeeps == ASSUME IInv, NEW r \in Request, ForgotDelete(r) PROVE IInv'
<1> DEFINE e == req[r].email
<1>1. e \in Email /\ req[r] \in Handler
  BY Parts DEF ForgotDelete, FlightOK
<1>2. link' = WithoutLinksTo(e) /\ UNCHANGED <<accounts, spent>>
  BY DEF ForgotDelete
<1> DEFINE h == [req[r] EXCEPT !.pc = "create"]
<1>3. h \in Handler /\ h.pc = "create" /\ h.email = e
  BY <1>1 DEF Handler
<1>4. req' = [req EXCEPT ![r] = h]
  BY DEF ForgotDelete
<1> HIDE DEF e, h
<1>5. AccountsOK' /\ LinksOK'
  BY <1>1, <1>2, WithoutLinks, AccountsSame, Parts DEF LinksOK, SpentOK, OneLinkPerHandler
<1>6. req' \in [Request -> Handler]
  BY <1>3, <1>4, Parts
<1>7. FlightOK'
  BY <1>1, <1>2, <1>3, <1>4, WithoutLinks, Parts DEF FlightOK, accounts
<1> QED
  BY <1>5, <1>6, <1>7, Whole

LEMMA ForgotCreateKeeps ==
    ASSUME IInv, NEW r \in Request, NEW l \in Link, ForgotCreate(r, l) PROVE IInv'
<1> DEFINE row == [status |-> "live", email |-> req[r].email, by |-> r]
<1>1. req[r].pc = "create" /\ req[r].email \in Email
  BY Parts DEF ForgotCreate, FlightOK
<1>2. /\ link[l] = Unsent
      /\ link' = [link EXCEPT ![l] = row]
      /\ req' = [req EXCEPT ![r] = Idle]
      /\ UNCHANGED <<accounts, spent>>
  BY DEF ForgotCreate, Finish
<1>3. row \in LinkRow /\ row.status = "live" /\ row.email = req[r].email /\ row.by = r
  BY <1>1 DEF LinkRow
<1>4. \A m \in Link : link[m].status = "live" /\ link[m].email = req[r].email => link[m].by # r
  BY <1>1, Parts DEF FlightOK
<1> HIDE DEF row
<1>5. OneLinkPerHandler'
  BY <1>2, <1>3, <1>4, Parts DEF LinksOK, OneLinkPerHandler
<1>6. AccountsOK' /\ LinksOK'
  BY <1>2, <1>3, <1>5, AccountsSame, Parts DEF LinksOK, SpentOK, Unsent
<1>7. req' \in [Request -> Handler]
  BY <1>2, IdleOK, Parts
<1>8. FlightOK'
  <2>1. ASSUME NEW q \in Request, req[q].pc \in {"find", "reset"} PROVE req[q].link # l
    <3>1. req[q].email \in Email /\ link[req[q].link].email = req[q].email
      BY <2>1, Parts DEF FlightOK
    <3> QED
      BY <1>2, <3>1, NoneAssumption DEF Unsent
  <2> QED
    BY <1>2, <1>3, <2>1, IdleOK, Parts DEF FlightOK, accounts, LinksOK
<1> QED
  BY <1>6, <1>7, <1>8, Whole

\* The transaction of resetPassword() closes every link to the address.
LEMMA ResetKeeps == ASSUME IInv, NEW r \in Request, Reset(r) PROVE IInv'
<1> DEFINE e == req[r].email
<1>1. e \in Email
  BY Parts DEF Reset, FlightOK
<1>2. /\ link' = WithoutLinksTo(e)
      /\ spent' = spent \cup {l \in Link : link[l].email = e}
      /\ req' = [req EXCEPT ![r] = Idle]
      /\ UNCHANGED accounts
  BY DEF Reset, Finish
<1> HIDE DEF e
<1>3. AccountsOK' /\ LinksOK'
  BY <1>1, <1>2, WithoutLinks, AccountsSame, Parts DEF LinksOK, SpentOK, OneLinkPerHandler
<1>4. req' \in [Request -> Handler]
  BY <1>2, IdleOK, Parts
<1>5. FlightOK'
  BY <1>1, <1>2, IdleOK, WithoutLinks, Parts DEF FlightOK, accounts
<1> QED
  BY <1>3, <1>4, <1>5, Whole

\* Time passes.
LEMMA ExpireKeeps == ASSUME IInv, NEW l \in Link, Expire(l) PROVE IInv'
<1>1. /\ link[l] \in [status : {"live"}, email : Email, by : Request]
      /\ link' = [link EXCEPT ![l] = Gone(link[l])]
      /\ UNCHANGED <<accounts, spent, req>>
  BY Parts DEF Expire, LinksOK, LinkRow, Unsent
<1>2. /\ Gone(link[l]) \in LinkRow
      /\ Gone(link[l]).status = "gone"
      /\ Gone(link[l]).email = link[l].email
  BY <1>1 DEF Gone, LinkRow
<1>3. AccountsOK' /\ LinksOK'
  BY <1>1, <1>2, AccountsSame, Parts DEF LinksOK, SpentOK, OneLinkPerHandler
<1>4. FlightOK'
  BY <1>1, <1>2, Parts DEF FlightOK, accounts, LinksOK
<1> QED
  BY <1>1, <1>3, <1>4, Parts, Whole

\* The invariant is inductive.
THEOREM NextIInv == IInv /\ [Next]_vars => IInv'
<1> SUFFICES ASSUME IInv, [Next]_vars PROVE IInv'
  OBVIOUS
<1>1. CASE UNCHANGED vars
  <2>1. UNCHANGED <<accounts, resets, req>>
    BY <1>1 DEF vars
  <2>2. FlightOK'
    BY <2>1, Parts DEF FlightOK, accounts, resets
  <2> QED
    BY <2>1, <2>2, Parts, Whole, AccountsSame, LinksSame
<1>2. CASE Next
  BY <1>2, VerifyFindKeeps, FindKeeps, ResetUserKeeps, VerifyKeeps, UpdateKeeps,
     ForgotDeleteKeeps, ForgotCreateKeeps, ResetKeeps, ExpireKeeps DEF Next
<1> QED
  BY <1>1, <1>2

\* The invariant holds in every reachable state.
THEOREM SpecIInv == Spec => []IInv
  BY InitIInv, NextIInv, PTL DEF Spec

\* Type correctness; no two accounts have one address.
THEOREM TypeCorrect == Spec => []TypeOK
  BY SpecIInv, PTL DEF IInv

\* An address is marked as verified only by its own link, or by a handler that
\* a change of the address overtook.
THEOREM VerificationIsProven == Spec => []VerifiedWasProven
  BY SpecIInv, PTL DEF IInv

\* A reset link that was used, and every older one to its address, is dead.
THEOREM LinksStaySpent == Spec => []SpentLinksAreDead
<1>1. IInv => SpentLinksAreDead
  BY DEF IInv, SpentOK, SpentLinksAreDead
<1> QED
  BY <1>1, SpecIInv, PTL

\* A handler of forgotPassword() leaves one link in force at most.
THEOREM LinksAreReplaced == Spec => []OneLinkPerHandler
  BY SpecIInv, PTL DEF IInv

\* A password is set only through a link to an address the account has had.
THEOREM ResetsAreOwn == Spec => []OnlyOwnersReset
<1>1. IInv => OnlyOwnersReset
  BY DEF IInv, FlightOK, OnlyOwnersReset
<1> QED
  BY <1>1, SpecIInv, PTL

-----------------------------------------------------------------------------

\* With one handler at a time no address changes under a verification.
NoRace == \A u \in User : proof[u] # "race"

\* A verified address has a link of its own behind it, and each address one
\* reset link that is good at most.
LinksAreExact ==
    /\ \A u \in User : verified[u] => proof[u] = "link"
    /\ \A l, m \in Link :
         link[l].status = "live" /\ link[m].status = "live" /\ link[l].email = link[m].email
           => l = m

\* With one handler at a time, verification and reset links keep what their
\* names promise; only a change of address between the check and the mark, or
\* two requests for a link that cross, are in the way of it.
THEOREM SerialLinksAreExact ==
  ASSUME \A r, q \in Request : r = q
  PROVE  Spec => []LinksAreExact
  <1>1. Init => NoRace
    BY DEF Init, NoRace
  <1>2. IInv /\ NoRace /\ [Next]_vars => NoRace'
    <2>. SUFFICES ASSUME IInv, NoRace, [Next]_vars PROVE NoRace'
      OBVIOUS
    <2>1. proof \in [User -> {"none", "link", "race"}]
      BY DEF IInv, TypeOK
    <2>2. ASSUME NEW r \in Request, Update(r) PROVE NoRace'
      <3>1. \A q \in Request : req[q].pc # "verify"
        BY <2>2 DEF Update
      <3>. QED  BY <2>1, <2>2, <3>1 DEF Update, Verifying, NoRace
    <2>3. ASSUME NEW r \in Request, NEW u \in User, NEW e \in Email, VerifyFind(r, u, e)
          PROVE  NoRace'
      BY <2>1, <2>3 DEF VerifyFind, NoRace
    <2>. QED
      BY <2>2, <2>3
         DEF Next, UpdateFind, Verify, ForgotFind, ForgotDelete, ForgotCreate, ResetFind,
             ResetUser, Reset, Expire, Abandon, vars, accounts, NoRace
  <1>3. IInv /\ NoRace => LinksAreExact
    <2>. SUFFICES ASSUME IInv, NoRace PROVE LinksAreExact
      OBVIOUS
    <2>1. \A u \in User : verified[u] => proof[u] = "link"
      BY DEF IInv, TypeOK, VerifiedWasProven, NoRace
    <2>2. \A l \in Link : link[l].status = "live" => link[l].by \in Request
      BY DEF IInv, TypeOK, LinkRow, Unsent
    <2>. QED  BY <2>1, <2>2 DEF IInv, OneLinkPerHandler, LinksAreExact
  <1>. QED  BY <1>1, <1>2, <1>3, SpecIInv, PTL DEF Spec
=============================================================================
