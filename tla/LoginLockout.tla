---------------------------- MODULE LoginLockout ----------------------------
(***************************************************************************)
(* The password check of a login, auth.service.ts validateUser(), on one   *)
(* account: the counter of failed attempts and the lock it leads to.       *)
(*                                                                         *)
(* validateUser() reads the row, awaits bcrypt.compare, and then writes    *)
(* values it computed from what it read; any other login of the same       *)
(* account may run in between.  No other code writes these two columns.    *)
(***************************************************************************)
EXTENDS Naturals

CONSTANTS
    Login,              \* logins the server checks at the same time
    LoginMaxAttempts    \* LOGIN_MAX_ATTEMPTS, 5 in the code

ASSUME MaxAttemptsAssumption == LoginMaxAttempts \in Nat \ {0}

VARIABLES
    failedAttempts,     \* users.failed_login_attempts
    lockedUntil,        \* users.locked_until against the clock, see LockState
    check,              \* what each login in flight has read
    wrongInARow         \* history: wrong passwords answered since a right one

lockoutVars == <<failedAttempts, lockedUntil, check, wrongInARow>>

\* locked_until is null, in the future, or in the past.
LockState == {"null", "future", "past"}

\* The code only compares the counter with LoginMaxAttempts, so values from
\* the one above it on are one value.
Attempts == 0 .. LoginMaxAttempts + 1

Succ(n) == IF n \in 0 .. LoginMaxAttempts THEN n + 1 ELSE n

NotRunning == [pc |-> "idle", attempts |-> 0, lock |-> "null"]

Check == {NotRunning} \cup
         [pc : {"bcrypt"}, attempts : Attempts, lock : {"null", "past"}]

LockoutTypeOK ==
    /\ failedAttempts \in Attempts
    /\ lockedUntil \in LockState
    /\ check \in [Login -> Check]
    /\ wrongInARow \in 0 .. LoginMaxAttempts

LockoutInit ==
    /\ failedAttempts = 0
    /\ lockedUntil = "null"
    /\ check = [r \in Login |-> NotRunning]
    /\ wrongInARow = 0

-----------------------------------------------------------------------------

\* locked_until > now answers 429 and checks no password.
NotLocked == lockedUntil # "future"

\* findUnique, the checks on the row, and the wait for bcrypt.
FindUser(r) ==
    /\ check[r] = NotRunning
    /\ NotLocked
    /\ check' = [check EXCEPT ![r] =
            [pc |-> "bcrypt", attempts |-> failedAttempts, lock |-> lockedUntil]]
    /\ UNCHANGED <<failedAttempts, lockedUntil, wrongInARow>>

\* Seeded fault: the lock is set at the limit only, not past it.
LocksAtLimitOnly(attempts) == attempts = LoginMaxAttempts

\* Seeded fault: the counter is one attempt late.
LocksOneLate(attempts) == attempts > LoginMaxAttempts

\* isLocked
Locks(attempts) == attempts >= LoginMaxAttempts

\* The user.update after a wrong password; locked_until is left as it is
\* when the counter read was too low, whatever it is by now.
WrongPassword(r) ==
    LET newAttempts == Succ(check[r].attempts) IN
    /\ check[r] # NotRunning
    /\ failedAttempts' = newAttempts
    /\ lockedUntil' = IF Locks(newAttempts) THEN "future" ELSE lockedUntil
    /\ wrongInARow' = IF wrongInARow < LoginMaxAttempts THEN wrongInARow + 1 ELSE wrongInARow
    /\ check' = [check EXCEPT ![r] = NotRunning]

\* The user.update after a right password, skipped when the row read had
\* nothing to clear.
ClearIfNeeded(r) ==
    IF check[r].attempts > 0 \/ check[r].lock # "null"
    THEN failedAttempts' = 0 /\ lockedUntil' = "null"
    ELSE UNCHANGED <<failedAttempts, lockedUntil>>

RightPassword(r) ==
    /\ check[r] # NotRunning
    /\ ClearIfNeeded(r)
    /\ wrongInARow' = 0
    /\ check' = [check EXCEPT ![r] = NotRunning]

\* The server stops between the read and the write.
Crash(r) ==
    /\ check[r] # NotRunning
    /\ check' = [check EXCEPT ![r] = NotRunning]
    /\ UNCHANGED <<failedAttempts, lockedUntil, wrongInARow>>

\* LOGIN_LOCKOUT_MINUTES pass; the row is not written.
LockLapses ==
    /\ lockedUntil = "future"
    /\ lockedUntil' = "past"
    /\ UNCHANGED <<failedAttempts, check, wrongInARow>>

AnyWrong == \E r \in Login : WrongPassword(r)

AnyRight == \E r \in Login : RightPassword(r)

LockoutNext ==
    \/ \E r \in Login : FindUser(r) \/ Crash(r)
    \/ AnyWrong
    \/ AnyRight
    \/ LockLapses

LockoutSpec == LockoutInit /\ [][LockoutNext]_lockoutVars

-----------------------------------------------------------------------------

\* Two columns written by separate branches of concurrent logins agree: a
\* counter at the limit never comes without a lock, so that the account
\* cannot be left with a full counter and no lock.
FullCounterIsLocked == failedAttempts >= LoginMaxAttempts => lockedUntil # "null"

\* However logins interleave and lose each other's increments: if passwords
\* keep being wrong and none is right any more, the account is locked again
\* and again.  The lock cannot be starved by lost updates.
WrongPasswordsLock ==
    []<><<AnyWrong>>_lockoutVars /\ <>[][~AnyRight]_lockoutVars => []<>(lockedUntil = "future")

\* FSD line 330: "Account locked for 15 minutes."  A lock ends by the clock only:
\* no login that was let in before it lifts it.
LockRunsOut == [][lockedUntil = "future" => lockedUntil' # "null"]_lockoutVars

\* FSD AC-AUTH-03: "5 wrong passwords -> 6th returns 429".  Once that many
\* wrong passwords were answered since a right one, and none is in flight,
\* the account has a lock (running, or lapsed with its 15 minutes).
SixthIsRefused ==
    /\ wrongInARow >= LoginMaxAttempts
    /\ \A r \in Login : check[r] = NotRunning
    => lockedUntil # "null"
=============================================================================
