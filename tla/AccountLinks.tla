---------------------------- MODULE AccountLinks ----------------------------
(***************************************************************************)
(* The address of an account and the links that are mailed to it,          *)
(* auth.service.ts: verifyEmail, updateMe, forgotPassword, resetPassword.  *)
(* Every handler reads, awaits bcrypt or the database, and then writes by  *)
(* id or by address.                                                       *)
(*                                                                         *)
(* The accounts exist when a behaviour begins: register() has made them,   *)
(* with the mail that it sends (one that acceptInvite() made is like one   *)
(* that has followed its link).  A verification link is an HMAC of the     *)
(* account's id and an address: it is good for ever, and it was mailed     *)
(* before the account got that address, so that it can be followed at any  *)
(* time.  resendVerification() mails the same link again and changes       *)
(* nothing.  What a reset does to refresh tokens and sessions is           *)
(* AuthSessions (ResetCommit).  A password is left out: what counts is the *)
(* link that sets it.                                                      *)
(***************************************************************************)
EXTENDS Naturals, FiniteSets

CONSTANTS
    User,     \* accounts
    Email,    \* mail addresses
    Link,     \* ids for rows of password_reset_tokens, random tokens
    Request,  \* handlers the server runs at the same time
    None      \* null

ASSUME NoneAssumption == None \notin User \cup Email \cup Link \cup Request

VARIABLES
    email,     \* users.email, unique
    verified,  \* users.email_verified_at is set
    link,      \* the rows of password_reset_tokens
    req,       \* what each handler waits for, and what it has read
    proof,     \* history: what there is to say for the present address
    had,       \* history: the addresses of each account
    spent      \* history: reset links older than a reset through their address

accounts == <<email, verified, proof, had>>

resets == <<link, spent>>

vars == <<accounts, resets, req>>

Unsent == [status |-> "unsent", email |-> None, by |-> None]

\* A row that expired is one that was deleted: every read asks for the time.
LinkRow ==
    {Unsent} \cup [status : {"live"}, email : Email, by : Request]
             \cup [status : {"gone"}, email : Email, by : {None}]

Gone(row) == [row EXCEPT !.status = "gone", !.by = None]

Idle == [pc |-> "idle", user |-> None, email |-> None, link |-> None]

Handler ==
    [pc : {"idle", "verify", "update", "delete", "create", "find", "reset"},
     user : User \cup {None}, email : Email \cup {None}, link : Link \cup {None}]

TypeOK ==
    /\ email \in [User -> Email]
    /\ \A u, v \in User : email[u] = email[v] => u = v
    /\ verified \in [User -> BOOLEAN]
    /\ link \in [Link -> LinkRow]
    /\ req \in [Request -> Handler]
    /\ proof \in [User -> {"none", "link", "race"}]
    /\ had \in [User -> SUBSET Email]
    /\ spent \subseteq Link

Init ==
    /\ email \in {f \in [User -> Email] : \A u, v \in User : f[u] = f[v] => u = v}
    /\ verified = [u \in User |-> FALSE]
    /\ link = [l \in Link |-> Unsent]
    /\ req = [r \in Request |-> Idle]
    /\ proof = [u \in User |-> "none"]
    /\ had = [u \in User |-> {email[u]}]
    /\ spent = {}

\* What findUnique by address sees.
Taken(e) == \E u \in User : email[u] = e

\* Seeded fault: an address is free until it was verified.
FreeUntilVerified(u, e) == \A v \in User \ {u} : email[v] = e => ~verified[v]

\* The unique index, when account u gets address e.
FreeFor(u, e) == \A v \in User \ {u} : email[v] # e

Begin(r, handler) == req[r] = Idle /\ req' = [req EXCEPT ![r] = handler]

Finish(r) == req' = [req EXCEPT ![r] = Idle]

-----------------------------------------------------------------------------
(* The address, and its verification.                                      *)

\* Seeded fault: the link is good for whatever address the account has.
HashOfUser(u, e) == u

\* makeEmailVerificationHash: an HMAC of the two.
VerificationHash(u, e) == <<u, e>>

\* A link that was mailed to e is followed.
VerifyFind(r, u, e) ==
    /\ e \in had[u]
    /\ ~verified[u]
    /\ VerificationHash(u, e) = VerificationHash(u, email[u])
    /\ proof' = [proof EXCEPT ![u] = IF e = email[u] THEN "link" ELSE @]
    /\ Begin(r, [Idle EXCEPT !.pc = "verify", !.user = u])
    /\ UNCHANGED <<email, verified, had, resets>>

Verify(r) ==
    /\ req[r].pc = "verify"
    /\ verified' = [verified EXCEPT ![req[r].user] = TRUE]
    /\ Finish(r)
    /\ UNCHANGED <<email, proof, had, resets>>

\* That the address differs from the one that was read earlier follows:
\* nobody has it.  The mail with the link is sent before the address is written.
UpdateFind(r, u, e) ==
    /\ ~Taken(e)
    /\ Begin(r, [Idle EXCEPT !.pc = "update", !.user = u, !.email = e])
    /\ UNCHANGED <<accounts, resets>>

\* email_verified_at of the accounts when u has a new address.
Unverified(u) == [verified EXCEPT ![u] = FALSE]

Verifying(u) == \E r \in Request : req[r].pc = "verify" /\ req[r].user = u

\* The update throws when the address was taken in between: that is Abandon.
Update(r) ==
    LET u == req[r].user IN
    /\ req[r].pc = "update"
    /\ FreeFor(u, req[r].email)
    /\ email' = [email EXCEPT ![u] = req[r].email]
    /\ verified' = Unverified(u)
    /\ had' = [had EXCEPT ![u] = @ \cup {req[r].email}]
    /\ proof' = [proof EXCEPT ![u] = IF Verifying(u) THEN "race" ELSE "none"]
    /\ Finish(r)
    /\ UNCHANGED resets

-----------------------------------------------------------------------------
(* Reset links.                                                            *)

ForgotFind(r, e) ==
    /\ Taken(e)
    /\ Begin(r, [Idle EXCEPT !.pc = "delete", !.email = e])
    /\ UNCHANGED <<accounts, resets>>

\* Seeded fault: a transaction that leaves the links where they are.
KeepLinks(e) == link

\* password_reset_tokens without the rows of address e.
WithoutLinksTo(e) ==
    [l \in Link |-> IF link[l].status = "live" /\ link[l].email = e
                    THEN Gone(link[l]) ELSE link[l]]

\* Seeded fault: the links to the address are not looked for.
SkipDelete(r) ==
    /\ req[r].pc = "delete"
    /\ req' = [req EXCEPT ![r].pc = "create"]
    /\ UNCHANGED <<accounts, resets>>

ForgotDelete(r) ==
    /\ req[r].pc = "delete"
    /\ link' = WithoutLinksTo(req[r].email)
    /\ req' = [req EXCEPT ![r].pc = "create"]
    /\ UNCHANGED <<accounts, spent>>

ForgotCreate(r, l) ==
    /\ req[r].pc = "create"
    /\ link[l] = Unsent
    /\ link' = [link EXCEPT ![l] = [status |-> "live", email |-> req[r].email, by |-> r]]
    /\ Finish(r)
    /\ UNCHANGED <<accounts, spent>>

\* Seeded fault: a link is looked for by its token alone.
FoundByToken(l, e) == link[l].status = "live"

\* findFirst by token and address, and the check of expires_at.
Found(l, e) == link[l].status = "live" /\ link[l].email = e

ResetFind(r, l, e) ==
    /\ Found(l, e)
    /\ Begin(r, [Idle EXCEPT !.pc = "find", !.email = e, !.link = l])
    /\ UNCHANGED <<accounts, resets>>

ResetUser(r, u) ==
    /\ req[r].pc = "find"
    /\ email[u] = req[r].email
    /\ req' = [req EXCEPT ![r].pc = "reset", ![r].user = u]
    /\ UNCHANGED <<accounts, resets>>

\* One transaction, after bcrypt.hash.
Reset(r) ==
    /\ req[r].pc = "reset"
    /\ link' = WithoutLinksTo(req[r].email)
    /\ spent' = spent \cup {l \in Link : link[l].email = req[r].email}
    /\ Finish(r)
    /\ UNCHANGED accounts

Expire(l) ==
    /\ link[l].status = "live"
    /\ link' = [link EXCEPT ![l] = Gone(@)]
    /\ UNCHANGED <<accounts, spent, req>>

-----------------------------------------------------------------------------

\* A handler that throws, is refused by what it reads, or is stopped.
Abandon(r) == req[r] # Idle /\ Finish(r) /\ UNCHANGED <<accounts, resets>>

Next ==
    \/ \E r \in Request :
         \/ \E u \in User, e \in Email : VerifyFind(r, u, e) \/ UpdateFind(r, u, e)
         \/ Verify(r)
         \/ Update(r)
         \/ \E e \in Email : ForgotFind(r, e)
         \/ ForgotDelete(r)
         \/ \E l \in Link : ForgotCreate(r, l)
         \/ \E l \in Link, e \in Email : ResetFind(r, l, e)
         \/ \E u \in User : ResetUser(r, u)
         \/ Reset(r)
         \/ Abandon(r)
    \/ \E l \in Link : Expire(l)

Spec == Init /\ [][Next]_vars

-----------------------------------------------------------------------------

\* The address of an account is marked as verified only when a link for this
\* account and this address was followed.  The one way round it is a change of
\* the address between the check of verifyEmail() and its write.
VerifiedWasProven == \A u \in User : verified[u] => proof[u] # "none"

\* Once a password was set through a link, neither that link nor any that was
\* mailed to its address before is found again: a second password is set only
\* by a request that had found its link before the transaction.
SpentLinksAreDead == \A l \in spent : link[l].status # "live"

\* Of the links to one address that are good at the same time no two were
\* sent by the same handler: forgotPassword() deletes before it inserts.
OneLinkPerHandler ==
    \A l, m \in Link :
        /\ link[l].status = "live"
        /\ link[m].status = "live"
        /\ link[l].email = link[m].email
        /\ link[l].by = link[m].by
        => l = m

\* The password of an account is set only through a link that was mailed to an
\* address it has had, whoever moves to or from that address meanwhile.
OnlyOwnersReset ==
    \A r \in Request :
        req[r].pc = "reset" => link[req[r].link].email \in had[req[r].user]

-----------------------------------------------------------------------------
(* What makes them inductive.                                              *)

\* What a handler that waits relies on: the account it is to verify was shown
\* a link, or has lost its address since; none of the links to an address are
\* its own while it is to send one; the link it has found was mailed to the
\* address it was asked for, which the account of a reset has had.
FlightOK ==
    \A r \in Request :
        /\ req[r].pc \in {"verify", "update", "reset"} => req[r].user \in User
        /\ req[r].pc \in {"update", "delete", "create", "find", "reset"} => req[r].email \in Email
        /\ req[r].pc = "verify" => proof[req[r].user] # "none"
        /\ req[r].pc = "create" =>
             \A l \in Link : link[l].status = "live" /\ link[l].email = req[r].email
                              => link[l].by # r
        /\ req[r].pc \in {"find", "reset"} =>
             /\ req[r].link \in Link
             /\ link[req[r].link].email = req[r].email
        /\ req[r].pc = "reset" => req[r].email \in had[req[r].user]

\* An account has had its present address.
HadOK == \A u \in User : email[u] \in had[u]

\* A row is never sent again under the same token.
SpentOK == \A l \in spent : link[l].status = "gone"

IInv ==
    /\ TypeOK
    /\ FlightOK
    /\ HadOK
    /\ SpentOK
    /\ VerifiedWasProven
    /\ OneLinkPerHandler
=============================================================================
