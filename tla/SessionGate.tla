----------------------------- MODULE SessionGate -----------------------------
(***************************************************************************)
(* What auth.service.ts and users.service.ts promise together about        *)
(* credentials, whoever runs at the same time.  Nothing is issued but      *)
(* under a grant; a grant is given to an active account, or redeems the    *)
(* promise made under an earlier grant; a token that is void stays void;   *)
(* and an account is closed only together with all it has been issued.     *)
(* AuthSessions is shown to implement this.                                *)
(***************************************************************************)
CONSTANTS
    User,       \* accounts
    Token,      \* refresh tokens
    Session,    \* device sessions
    Request,    \* handlers
    None        \* nobody

VARIABLES
    standing,   \* of an account: "absent", "active" or "inactive"
    holder,     \* whom a token was issued to, None before it was
    good,       \* the tokens that may be exchanged
    session,    \* whose session it is, None if there is none
    grant,      \* whom a handler may issue credentials to, None if nobody
    promised    \* whom a signed mfa_pending JWT still entitles to a grant

vars == <<standing, holder, good, session, grant, promised>>

Init ==
    /\ standing = [u \in User |-> "absent"]
    /\ holder = [t \in Token |-> None]
    /\ good = {}
    /\ session = [s \in Session |-> None]
    /\ grant = [r \in Request |-> None]
    /\ promised = {}

\* An account is created, or activated again.
Open(u) ==
    /\ standing' = [standing EXCEPT ![u] = "active"]
    /\ UNCHANGED <<holder, good, session, grant, promised>>

\* An invitation is accepted: the new account needs no password check.
OpenGranted(r, u) ==
    /\ standing[u] = "absent"
    /\ grant[r] = None
    /\ standing' = [standing EXCEPT ![u] = "active"]
    /\ grant' = [grant EXCEPT ![r] = u]
    /\ UNCHANGED <<holder, good, session, promised>>

Grant(r, u) ==
    /\ grant[r] = None
    /\ standing[u] = "active" \/ u \in promised
    /\ grant' = [grant EXCEPT ![r] = u]
    /\ UNCHANGED <<standing, holder, good, session, promised>>

\* The grant of a login is put off until its second factor.
Promise(r) ==
    /\ grant[r] # None
    /\ promised' = promised \cup {grant[r]}
    /\ grant' = [grant EXCEPT ![r] = None]
    /\ UNCHANGED <<standing, holder, good, session>>

\* A login goes on under its grant to its session; a rotation ends here.
IssueToken(r, t) ==
    /\ grant[r] # None
    /\ holder[t] = None
    /\ holder' = [holder EXCEPT ![t] = grant[r]]
    /\ good' = good \cup {t}
    /\ grant' \in {grant, [grant EXCEPT ![r] = None]}
    /\ UNCHANGED <<standing, session, promised>>

IssueSession(r, s) ==
    /\ grant[r] # None
    /\ session[s] = None
    /\ session' = [session EXCEPT ![s] = grant[r]]
    /\ grant' = [grant EXCEPT ![r] = None]
    /\ UNCHANGED <<standing, holder, good, promised>>

\* Everything a user was issued goes in one step, and the account with it if
\* the user is deactivated.
Close(u) ==
    /\ standing' \in {standing, [standing EXCEPT ![u] = "inactive"]}
    /\ good' = {t \in good : holder[t] # u}
    /\ session' = [s \in Session |-> IF session[s] = u THEN None ELSE session[s]]
    /\ UNCHANGED <<holder, grant, promised>>

\* Exchange, logout, failure, expiry: what there is may go at any time.
Lapse ==
    /\ good' \subseteq good
    /\ promised' \subseteq promised
    /\ session' \in [Session -> User \cup {None}]
    /\ \A s \in Session : session'[s] \in {session[s], None}
    /\ grant' \in [Request -> User \cup {None}]
    /\ \A r \in Request : grant'[r] \in {grant[r], None}
    /\ UNCHANGED <<standing, holder>>

Next ==
    \/ Lapse
    \/ \E u \in User : Open(u) \/ Close(u)
    \/ \E r \in Request :
        \/ Promise(r)
        \/ \E u \in User : OpenGranted(r, u) \/ Grant(r, u)
        \/ \E t \in Token : IssueToken(r, t)
        \/ \E s \in Session : IssueSession(r, s)

Spec == Init /\ [][Next]_vars
=============================================================================
