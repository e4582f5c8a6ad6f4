---------------------------- MODULE SecondFactor ----------------------------
(***************************************************************************)
(* The second factors of one account, auth.service.ts: its TOTP secret and *)
(* recovery codes (setupMfa, confirmMfa, disableMfa, recoverMfa) and the   *)
(* one-time codes sent by mail (sendMfaEmailOtp, verifyMfaEmailChallenge). *)
(* Every handler reads, awaits bcrypt, the TOTP library or the database,   *)
(* and then writes by id.                                                  *)
(*                                                                         *)
(* The organisation enforces a second factor, so that a login that is      *)
(* waiting for one can be had at any time.  What a second factor is        *)
(* exchanged for is AuthSessions (MfaFind, Mint, CreateSession); a TOTP    *)
(* login writes nothing else.  Passwords and codes that do not match make  *)
(* a handler end by Abandon, or not begin.                                 *)
(***************************************************************************)
EXTENDS Naturals, FiniteSets

CONSTANTS
    Secret,     \* TOTP secrets; random, so that none is drawn twice
    CodeCount,  \* recovery codes of a setup, 8 in the code
    Otp,        \* ids for rows of mfa_email_tokens, each with a code of its own
    Request,    \* handlers the server runs at the same time
    None        \* null

ASSUME CountAssumption == CodeCount \in Nat

ASSUME NoneAssumption == None \notin Secret \cup Otp \cup Request

VARIABLES
    mfaEnabled,     \* users.mfa_enabled
    mfaSecret,      \* users.mfa_secret
    recoveryCodes,  \* users.mfa_recovery_codes
    otp,            \* the rows of mfa_email_tokens
    req,            \* what each handler waits for, and what it has read
    drawn,          \* the secrets that were drawn
    void,           \* history: recovery codes that were used or replaced
    restored,       \* history: void codes that a stale write brought back
    confirmed,      \* history: secrets that a code was shown for, and then written
    crossed,        \* history: the last write of secret or mfa_enabled was a stale one
    otpLogins       \* history: logins that each one-time code was good for, up to 2

totp == <<mfaEnabled, mfaSecret, drawn, confirmed, crossed>>

recovery == <<recoveryCodes, void, restored>>

account == <<totp, recovery>>

mail == <<otp, otpLogins>>

vars == <<account, mail, req>>

Code == [of : Secret, n : 1..CodeCount]

\* Seeded fault: every setup hands out the same codes.
SameCodes(secret) == Code

\* The codes that are drawn with a secret.
CodesOf(secret) == {c \in Code : c.of = secret}

DrawnCodes == {c \in Code : c.of \in drawn}

Unsent == [status |-> "unsent", by |-> None]

OtpRow == {Unsent} \cup [status : {"live", "expired", "deleted"}, by : Request]

\* What a handler read of the row is stale when it was written since: the codes
\* for recoverMfa(), the secret for confirmMfa(), mfa_enabled for setupMfa().
Idle == [pc |-> "idle", otp |-> None, codes |-> {}, code |-> None, secret |-> None,
         copy |-> "current"]

Handler ==
    [pc : {"idle", "setup", "confirm", "disable", "send", "recover", "otp"},
     otp : Otp \cup {None}, codes : SUBSET Code, code : Code \cup {None},
     secret : Secret \cup {None}, copy : {"current", "stale"}]

TypeOK ==
    /\ mfaEnabled \in BOOLEAN
    /\ mfaSecret \in drawn \cup {None}
    /\ recoveryCodes \subseteq DrawnCodes
    /\ otp \in [Otp -> OtpRow]
    /\ req \in [Request -> Handler]
    /\ drawn \subseteq Secret
    /\ void \subseteq Code
    /\ restored \subseteq void
    /\ confirmed \subseteq drawn
    /\ crossed \in BOOLEAN
    /\ otpLogins \in [Otp -> 0..2]

Init ==
    /\ mfaEnabled = FALSE
    /\ mfaSecret = None
    /\ recoveryCodes = {}
    /\ otp = [o \in Otp |-> Unsent]
    /\ req = [r \in Request |-> Idle]
    /\ drawn = {}
    /\ void = {}
    /\ restored = {}
    /\ confirmed = {}
    /\ crossed = FALSE
    /\ otpLogins = [o \in Otp |-> 0]

Start(r, pc) ==
    /\ req[r] = Idle
    /\ req' = [req EXCEPT ![r] = [Idle EXCEPT !.pc = pc]]
    /\ UNCHANGED <<account, mail>>

Finish(r) == req' = [req EXCEPT ![r] = Idle]

\* The handlers when r, which ends, has written what those at pcs have read.
FinishOverwriting(r, pcs) ==
    req' = [q \in Request |->
        IF q = r THEN Idle
        ELSE IF req[q].pc \in pcs THEN [req[q] EXCEPT !.copy = "stale"] ELSE req[q]]

-----------------------------------------------------------------------------
(* TOTP and recovery codes.                                                *)

\* Seeded fault: an account with a second factor may set up another.
SetupFindAlways(r) == Start(r, "setup")

SetupFind(r) == ~mfaEnabled /\ Start(r, "setup")

\* A setup that draws secret and leaves codes as the recovery codes.
Draw(r, secret, codes) ==
    /\ req[r].pc = "setup"
    /\ secret \notin drawn
    /\ mfaSecret' = secret
    /\ recoveryCodes' = codes
    /\ drawn' = drawn \cup {secret}
    /\ void' = void \cup recoveryCodes
    /\ crossed' = (req[r].copy = "stale")
    /\ FinishOverwriting(r, {"recover", "confirm"})
    /\ UNCHANGED <<mfaEnabled, restored, confirmed, mail>>

\* Seeded fault: the codes of an earlier setup are kept.
SetupKeepingCodes(r, secret) == Draw(r, secret, recoveryCodes \cup CodesOf(secret))

Setup(r, secret) == Draw(r, secret, CodesOf(secret))

\* The code that comes with the request is one of the secret that is read.
ConfirmFind(r) ==
    /\ ~mfaEnabled
    /\ mfaSecret # None
    /\ req[r] = Idle
    /\ req' = [req EXCEPT ![r] = [Idle EXCEPT !.pc = "confirm", !.secret = mfaSecret]]
    /\ UNCHANGED <<account, mail>>

\* Whatever secret is in the row now, or none.
Confirm(r) ==
    /\ req[r].pc = "confirm"
    /\ mfaEnabled' = TRUE
    /\ confirmed' = confirmed \cup {req[r].secret}
    /\ crossed' = (req[r].copy = "stale")
    /\ FinishOverwriting(r, {"setup"})
    /\ UNCHANGED <<mfaSecret, drawn, recovery, mail>>

DisableFind(r) == mfaEnabled /\ mfaSecret # None /\ Start(r, "disable")

\* mfa_recovery_codes: undefined leaves the column as it is.
Disable(r) ==
    /\ req[r].pc = "disable"
    /\ mfaEnabled' = FALSE
    /\ mfaSecret' = None
    /\ crossed' = FALSE
    /\ FinishOverwriting(r, {"confirm"})
    /\ UNCHANGED <<drawn, confirmed, recovery, mail>>

\* recoverMfa() up to the hash that matches.
RecoverFind(r, code) ==
    /\ req[r] = Idle
    /\ code \in recoveryCodes
    /\ req' = [req EXCEPT ![r] =
            [Idle EXCEPT !.pc = "recover", !.codes = recoveryCodes, !.code = code]]
    /\ UNCHANGED <<account, mail>>

\* The codes that were read, without the one that was used.
Recover(r) ==
    LET used == void \cup {req[r].code} IN
    /\ req[r].pc = "recover"
    /\ recoveryCodes' = req[r].codes \ {req[r].code}
    /\ void' = used
    /\ restored' = IF req[r].copy = "stale"
                   THEN restored \cup (recoveryCodes' \cap used) ELSE restored
    /\ FinishOverwriting(r, {"recover"})
    /\ UNCHANGED <<totp, mail>>

-----------------------------------------------------------------------------
(* One-time codes by mail.                                                 *)

\* Seeded fault: a new code leaves the old ones as they are.
KeepOtps == UNCHANGED otp

DeleteOtps ==
    otp' = [o \in Otp |-> IF otp[o] = Unsent THEN Unsent ELSE [otp[o] EXCEPT !.status = "deleted"]]

\* sendMfaEmailOtp(), mfaEmailToken.deleteMany.
ClearOtps(r) ==
    /\ req[r] = Idle
    /\ DeleteOtps
    /\ req' = [req EXCEPT ![r].pc = "send"]
    /\ UNCHANGED <<account, otpLogins>>

\* sendMfaEmailOtp(), mfaEmailToken.create, and the mail.
SendOtp(r, o) ==
    /\ req[r].pc = "send"
    /\ otp[o] = Unsent
    /\ otp' = [otp EXCEPT ![o] = [status |-> "live", by |-> r]]
    /\ Finish(r)
    /\ UNCHANGED <<account, otpLogins>>

\* verifyMfaEmailChallenge(): findFirst returns one of the rows that have
\* not expired, and the code that was sent in is the one of that row.
FindOtp(r, o) ==
    /\ req[r] = Idle
    /\ otp[o].status = "live"
    /\ req' = [req EXCEPT ![r].pc = "otp", ![r].otp = o]
    /\ UNCHANGED <<account, mail>>

\* Seeded fault: deleteMany, which accepts that there is no row.
MayBeDeleted(o) == TRUE

\* delete throws when there is no row.
Deletable(o) == otp[o].status \in {"live", "expired"}

\* mfaEmailToken.delete by id; the login follows.
ConsumeOtp(r) ==
    /\ req[r].pc = "otp"
    /\ Deletable(req[r].otp)
    /\ otp' = [otp EXCEPT ![req[r].otp].status = "deleted"]
    /\ otpLogins' = [otpLogins EXCEPT ![req[r].otp] = IF @ < 2 THEN @ + 1 ELSE @]
    /\ Finish(r)
    /\ UNCHANGED account

OtpExpires(o) ==
    /\ otp[o].status = "live"
    /\ otp' = [otp EXCEPT ![o].status = "expired"]
    /\ UNCHANGED <<account, otpLogins, req>>

\* A check refuses, a statement throws or the server stops.
Abandon(r) ==
    /\ req[r] # Idle
    /\ Finish(r)
    /\ UNCHANGED <<account, mail>>

Next ==
    \/ \E r \in Request :
        \/ SetupFind(r)
        \/ ConfirmFind(r)
        \/ Confirm(r)
        \/ DisableFind(r)
        \/ Disable(r)
        \/ Recover(r)
        \/ ClearOtps(r)
        \/ ConsumeOtp(r)
        \/ Abandon(r)
        \/ \E secret \in Secret : Setup(r, secret)
        \/ \E code \in Code : RecoverFind(r, code)
        \/ \E o \in Otp : SendOtp(r, o) \/ FindOtp(r, o)
    \/ \E o \in Otp : OtpExpires(o)

Spec == Init /\ [][Next]_vars

-----------------------------------------------------------------------------

\* A one-time code is good for one login, with any number of challenges
\* that found its row at the same time: the delete decides between them.
OtpUsedOnce == \A o \in Otp : otpLogins[o] <= 1

\* However sends overlap, the codes that are valid at the same time were
\* sent by different handlers: each clears what it sent before.
OneOtpPerHandler ==
    \A o, p \in Otp :
        otp[o].status = "live" /\ otp[p].status = "live" /\ otp[o].by = otp[p].by => o = p

\* The codes in the row that are void are those that a recoverMfa() put back
\* that had read the codes before another handler wrote them.
OnlyRestored == recoveryCodes \cap void \subseteq restored

\* Void are the recovery codes that were used, and those a new setup replaced;
\* disableMfa() voids none (DisabledHasNoCodes).  A void code is in the row
\* only if a stale recoverMfa() put it back; and a login is finished with one
\* only by a handler that read the codes before it became void, as the second
\* of two that overlap does, or after it was put back.
VoidStaysVoid ==
    /\ OnlyRestored
    /\ \A r \in Request : req[r].pc = "recover" /\ req[r].code \in void
            => req[r].copy = "stale" \/ req[r].code \in restored

\* When a second factor is in force, the secret in the row is one that a code
\* was shown for, whatever setups were repeated: unless a setup or a disable
\* came between the read and the write of confirmMfa(), or a confirmation
\* between those of setupMfa().
EnabledWasConfirmed == mfaEnabled => mfaSecret \in confirmed \/ crossed

-----------------------------------------------------------------------------
(* What makes them inductive.                                              *)

\* What a handler that waits relies on: it has no code by mail in force
\* while it is to send one, and it knows the recovery codes, the secret or
\* mfa_enabled as they are, unless they were written since.
FlightOK ==
    \A r \in Request :
        /\ req[r].pc = "send" => \A o \in Otp : otp[o].status = "live" => otp[o].by # r
        /\ req[r].pc = "otp" => req[r].otp \in Otp
        /\ req[r].pc = "recover" =>
            /\ req[r].codes \subseteq DrawnCodes
            /\ req[r].code \in req[r].codes
            /\ req[r].copy = "current" => req[r].codes = recoveryCodes
        /\ req[r].pc = "setup" /\ req[r].copy = "current" => ~mfaEnabled
        /\ req[r].pc = "confirm" =>
            /\ req[r].secret \in drawn
            /\ req[r].copy = "current" => req[r].secret = mfaSecret

\* The row of a code that was good for a login is gone.
ConsumedOK == \A o \in Otp : otpLogins[o] > 0 => otp[o].status = "deleted"

\* Only codes that were handed out can be void; a new setup hands out others.
VoidOK == void \subseteq DrawnCodes

IInv ==
    /\ TypeOK
    /\ FlightOK
    /\ ConsumedOK
    /\ VoidOK
    /\ OtpUsedOnce
    /\ OneOtpPerHandler
    /\ OnlyRestored
    /\ EnabledWasConfirmed

-----------------------------------------------------------------------------
(* What the documentation says and the handlers do not keep.               *)

\* FSD 1.3.11, of DELETE /auth/mfa: "null out `mfa_secret` and
\* `mfa_recovery_codes`".  An account without a secret has no codes.
DisabledHasNoCodes == ~mfaEnabled /\ mfaSecret = None => recoveryCodes = {}
=============================================================================
