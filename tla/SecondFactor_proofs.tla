------------------------- MODULE SecondFactor_proofs -------------------------
(***************************************************************************)
(* Theorems about SecondFactor, for any secrets, codes and handlers.       *)
(***************************************************************************)
EXTENDS SecondFactor, TLAPS

LEMMA InitIInv == Init => IInv
<1> SUFFICES ASSUME Init PROVE IInv
  OBVIOUS
<1>1. TypeOK
  <2>1. req \in [Request -> Handler]
    BY DEF Init, Handler, Idle
  <2>2. otp \in [Otp -> OtpRow] /\ otpLogins \in [Otp -> 0..2]
    BY DEF Init, OtpRow
  <2>3. recoveryCodes \subseteq DrawnCodes /\ void \subseteq Code
    BY DEF Init
  <2> QED
    BY <2>1, <2>2, <2>3 DEF Init, TypeOK
<1>2. FlightOK
  BY DEF Init, FlightOK, Idle
<1>3. ConsumedOK /\ OneOtpPerHandler
  BY DEF Init, ConsumedOK, OneOtpPerHandler, Unsent
<1>4. VoidOK /\ OtpUsedOnce /\ OnlyRestored /\ EnabledWasConfirmed
  BY DEF Init, VoidOK, OtpUsedOnce, OnlyRestored, EnabledWasConfirmed
<1> QED
  BY <1>1, <1>2, <1>3, <1>4 DEF IInv

\* What is said of the recovery codes, and of the codes by mail: a handler
\* writes one or the other.
CodesOK ==
    /\ mfaEnabled \in BOOLEAN
    /\ mfaSecret \in drawn \cup {None}
    /\ recoveryCodes \subseteq DrawnCodes
    /\ drawn \subseteq Secret
    /\ void \subseteq DrawnCodes
    /\ restored \subseteq void
    /\ recoveryCodes \cap void \subseteq restored
    /\ confirmed \subseteq drawn
    /\ crossed \in BOOLEAN
    /\ mfaEnabled => mfaSecret \in confirmed \/ crossed

MailOK ==
    /\ otp \in [Otp -> OtpRow]
    /\ otpLogins \in [Otp -> 0..1]
    /\ ConsumedOK
    /\ OneOtpPerHandler

LEMMA Parts == IInv => CodesOK /\ MailOK /\ FlightOK /\ req \in [Request -> Handler]
<1>1. otpLogins \in [Otp -> 0..2] /\ OtpUsedOnce => otpLogins \in [Otp -> 0..1]
  BY DEF OtpUsedOnce
<1> QED
  BY <1>1 DEF IInv, TypeOK, CodesOK, MailOK, VoidOK, OnlyRestored, EnabledWasConfirmed

LEMMA Whole ==
    ASSUME CodesOK', MailOK', FlightOK', req' \in [Request -> Handler] PROVE IInv'
<1>1. otpLogins' \in [Otp -> 0..2] /\ OtpUsedOnce'
  BY DEF MailOK, OtpUsedOnce
<1>2. void' \subseteq Code
  BY DEF CodesOK, DrawnCodes
<1> QED
  BY <1>1, <1>2 DEF IInv, TypeOK, CodesOK, MailOK, VoidOK, OnlyRestored, EnabledWasConfirmed

\* A handler that begins to wait, or ends, with nothing written.
LEMMA ReqKeeps ==
    ASSUME IInv, NEW r \in Request, NEW h \in Handler,
           req' = [req EXCEPT ![r] = h],
           UNCHANGED <<account, mail>>,
           h.pc \notin {"send", "recover"},
           h.pc = "otp" => h.otp \in Otp,
           h.pc = "setup" => ~mfaEnabled,
           h.pc = "confirm" => h.secret = mfaSecret /\ mfaSecret \in drawn
    PROVE  IInv'
<1>1. CodesOK' /\ MailOK'
  BY Parts DEF CodesOK, MailOK, account, totp, recovery, mail, DrawnCodes,
     ConsumedOK, OneOtpPerHandler
<1>2. req' \in [Request -> Handler]
  BY DEF IInv, TypeOK
<1>3. FlightOK'
  BY DEF IInv, TypeOK, FlightOK, account, totp, recovery, mail, DrawnCodes
<1> QED
  BY <1>1, <1>2, <1>3, Whole

\* The handlers that begin by a read, and those that end with nothing written.
LEMMA WaitKeeps ==
    ASSUME IInv, NEW r \in Request,
           SetupFind(r) \/ ConfirmFind(r) \/ DisableFind(r) \/ Abandon(r)
           \/ (\E o \in Otp : FindOtp(r, o))
    PROVE  IInv'
<1>1. Idle \in Handler /\ Idle.pc = "idle"
  BY DEF Idle, Handler
<1>2. ASSUME NEW pc \in {"setup", "disable"}, Start(r, pc), pc = "setup" => ~mfaEnabled
      PROVE  IInv'
  <2>1. [Idle EXCEPT !.pc = pc] \in Handler /\ [Idle EXCEPT !.pc = pc].pc = pc
    BY DEF Idle, Handler
  <2> QED
    BY <1>2, <2>1, ReqKeeps DEF Start
<1>5. CASE ConfirmFind(r)
  <2> DEFINE h == [Idle EXCEPT !.pc = "confirm", !.secret = mfaSecret]
  <2>1. mfaSecret \in drawn /\ drawn \subseteq Secret
    BY <1>5 DEF ConfirmFind, IInv, TypeOK
  <2>2. h \in Handler /\ h.pc = "confirm" /\ h.secret = mfaSecret
    BY <2>1 DEF Idle, Handler
  <2> QED
    BY <1>5, <2>1, <2>2, ReqKeeps DEF ConfirmFind
<1>3. ASSUME NEW o \in Otp, FindOtp(r, o) PROVE IInv'
  <2> DEFINE h == [req[r] EXCEPT !.pc = "otp", !.otp = o]
  <2>1. h \in Handler /\ h.pc = "otp" /\ h.otp = o
    <3>1. req[r] \in Handler
      BY DEF IInv, TypeOK
    <3> QED
      BY <3>1 DEF Handler
  <2>2. req' = [req EXCEPT ![r] = h]
    BY <1>3 DEF FindOtp
  <2> QED
    BY <1>3, <2>1, <2>2, ReqKeeps DEF FindOtp
<1>4. CASE Abandon(r)
  BY <1>1, <1>4, ReqKeeps DEF Abandon, Finish
<1> QED
  BY <1>2, <1>3, <1>4, <1>5 DEF SetupFind, DisableFind

\* recoverMfa() reads the codes.
LEMMA RecoverFindKeeps ==
    ASSUME IInv, NEW r \in Request, NEW code \in Code, RecoverFind(r, code) PROVE IInv'
<1> DEFINE h == [Idle EXCEPT !.pc = "recover", !.codes = recoveryCodes, !.code = code]
<1>1. req' = [req EXCEPT ![r] = h] /\ UNCHANGED <<account, mail>> /\ code \in recoveryCodes
  BY DEF RecoverFind
<1>2. h \in Handler
  BY DEF IInv, TypeOK, Handler, Idle, DrawnCodes
<1>3. CodesOK' /\ MailOK'
  BY <1>1, Parts DEF CodesOK, MailOK, account, totp, recovery, mail, DrawnCodes,
     ConsumedOK, OneOtpPerHandler
<1>4. req' \in [Request -> Handler]
  BY <1>1, <1>2 DEF IInv, TypeOK
<1>5. FlightOK'
  BY <1>1 DEF IInv, TypeOK, FlightOK, account, totp, recovery, mail, DrawnCodes
<1> QED
  BY <1>3, <1>4, <1>5, Whole

\* Whoever writes what a handler has read makes its copy stale.
LEMMA OverwriteKeeps ==
    ASSUME IInv, NEW r \in Request, NEW pcs, FinishOverwriting(r, pcs),
           drawn \subseteq drawn', UNCHANGED mail,
           recoveryCodes' = recoveryCodes \/ "recover" \in pcs,
           mfaSecret' = mfaSecret \/ "confirm" \in pcs,
           mfaEnabled' => mfaEnabled \/ "setup" \in pcs
    PROVE  req' \in [Request -> Handler] /\ FlightOK' /\ MailOK'
<1>1. ASSUME NEW q \in Request PROVE req'[q] \in Handler
  <2>1. req[q] \in Handler /\ Idle \in Handler
    BY DEF IInv, TypeOK, Handler, Idle
  <2>2. [req[q] EXCEPT !.copy = "stale"] \in Handler
    BY <2>1 DEF Handler
  <2> QED
    BY <2>1, <2>2 DEF FinishOverwriting
<1>2. req' \in [Request -> Handler]
  BY <1>1 DEF FinishOverwriting
<1>3. DrawnCodes \subseteq DrawnCodes'
  BY DEF DrawnCodes
<1>4. ASSUME NEW q \in Request, req'[q].pc # "idle"
      PROVE  /\ req'[q].pc = req[q].pc /\ req'[q].codes = req[q].codes
             /\ req'[q].code = req[q].code /\ req'[q].otp = req[q].otp
             /\ req'[q].secret = req[q].secret
             /\ req'[q].copy = "current" => req[q].copy = "current" /\ req[q].pc \notin pcs
  <2>1. q # r
    BY <1>4 DEF FinishOverwriting, Idle
  <2>2. req[q] \in Handler
    BY DEF IInv, TypeOK
  <2>3. req'[q] = IF req[q].pc \in pcs THEN [req[q] EXCEPT !.copy = "stale"] ELSE req[q]
    BY <2>1 DEF FinishOverwriting
  <2> QED
    BY <2>2, <2>3 DEF Handler
<1>5. FlightOK'
  BY <1>3, <1>4 DEF IInv, FlightOK, mail
<1>6. MailOK'
  BY Parts DEF MailOK, mail, ConsumedOK, OneOtpPerHandler
<1> QED
  BY <1>2, <1>5, <1>6

\* confirmMfa() and disableMfa() write neither codes nor one-time codes.  The
\* secret in the row is the one a code was shown for, unless the copy is stale.
LEMMA EnableKeeps ==
    ASSUME IInv, NEW r \in Request, Confirm(r) \/ Disable(r) PROVE IInv'
<1>1. CASE Confirm(r)
  <2>1. req' \in [Request -> Handler] /\ FlightOK' /\ MailOK'
    BY <1>1, OverwriteKeeps DEF Confirm, recovery
  <2>2. /\ req[r].secret \in drawn
        /\ req[r].copy = "stale" \/ req[r].secret = mfaSecret
    BY <1>1 DEF Confirm, IInv, FlightOK, TypeOK, Handler
  <2>3. CodesOK'
    BY <1>1, <2>2, Parts DEF Confirm, recovery, CodesOK, DrawnCodes
  <2> QED
    BY <2>1, <2>3, Whole
<1>2. CASE Disable(r)
  <2>1. req' \in [Request -> Handler] /\ FlightOK' /\ MailOK'
    BY <1>2, OverwriteKeeps DEF Disable, recovery
  <2>2. CodesOK'
    BY <1>2, Parts DEF Disable, recovery, CodesOK, DrawnCodes
  <2> QED
    BY <2>1, <2>2, Whole
<1> QED
  BY <1>1, <1>2

\* A setup voids the codes of the one before, and hands out others.
LEMMA SetupKeeps ==
    ASSUME IInv, NEW r \in Request, NEW secret \in Secret, Setup(r, secret) PROVE IInv'
<1> USE DEF Draw
<1>1. req' \in [Request -> Handler] /\ FlightOK' /\ MailOK'
  BY OverwriteKeeps DEF Setup
<1>2. CodesOf(secret) \cap DrawnCodes = {}
  BY DEF Setup, CodesOf, DrawnCodes
<1>3. DrawnCodes' = DrawnCodes \cup CodesOf(secret)
  BY DEF Setup, CodesOf, DrawnCodes
<1>4. mfaEnabled => req[r].copy = "stale"
  BY DEF Setup, IInv, FlightOK, TypeOK, Handler
<1>5. CodesOK'
  BY <1>2, <1>3, <1>4, Parts DEF Setup, CodesOK
<1> QED
  BY <1>1, <1>5, Whole

\* A recovery writes the codes it read without the one it used.
LEMMA RecoverKeeps ==
    ASSUME IInv, NEW r \in Request, Recover(r) PROVE IInv'
<1>1. req' \in [Request -> Handler] /\ FlightOK' /\ MailOK'
  BY OverwriteKeeps DEF Recover, totp
<1>2. /\ req[r].codes \subseteq DrawnCodes
      /\ req[r].code \in req[r].codes
      /\ req[r].copy = "stale" \/ req[r].codes = recoveryCodes
  BY DEF Recover, IInv, FlightOK, TypeOK, Handler
<1>3. DrawnCodes' = DrawnCodes
  BY DEF Recover, totp, DrawnCodes
<1>4. recoveryCodes' \cap void' \subseteq restored' /\ restored' \subseteq void'
  BY <1>2 DEF Recover, IInv, OnlyRestored, TypeOK
<1>5. CodesOK'
  BY <1>2, <1>3, <1>4, Parts DEF Recover, totp, CodesOK
<1> QED
  BY <1>1, <1>5, Whole

\* deleteMany leaves no code in force.
LEMMA ClearKeeps ==
    ASSUME IInv, NEW r \in Request, ClearOtps(r) PROVE IInv'
<1> USE DEF IInv
<1>a. UNCHANGED account
  BY DEF ClearOtps
<1>b. CodesOK'
  BY <1>a, Parts DEF CodesOK, account, totp, recovery, DrawnCodes
<1>1. req' \in [Request -> Handler] /\ UNCHANGED otpLogins
  BY DEF ClearOtps, TypeOK, Handler, Idle
<1>2. otp' \in [Otp -> OtpRow]
  BY DEF ClearOtps, DeleteOtps, TypeOK, OtpRow, Unsent
<1>3. \A p \in Otp : /\ otp'[p].status # "live"
                     /\ otp[p].status = "deleted" => otp'[p].status = "deleted"
  BY DEF ClearOtps, DeleteOtps, TypeOK, OtpRow, Unsent
<1>4. MailOK'
  BY <1>1, <1>2, <1>3, Parts DEF MailOK, ConsumedOK, OneOtpPerHandler
<1>5. \A q \in Request : req'[q].pc \in {"recover", "otp", "setup", "confirm"} => req'[q] = req[q]
  BY DEF ClearOtps, TypeOK, Idle
<1>6. FlightOK'
  BY <1>a, <1>3, <1>5 DEF FlightOK, account, totp, recovery, DrawnCodes
<1> QED
  BY <1>b, <1>1, <1>4, <1>6, Whole

\* A handler that sends a code has no other in force.
LEMMA SendKeeps ==
    ASSUME IInv, NEW r \in Request, NEW o \in Otp, SendOtp(r, o) PROVE IInv'
<1> USE DEF IInv
<1>a. UNCHANGED account
  BY DEF SendOtp
<1>b. CodesOK'
  BY <1>a, Parts DEF CodesOK, account, totp, recovery, DrawnCodes
<1>1. req' = [req EXCEPT ![r] = Idle] /\ UNCHANGED otpLogins
  BY DEF SendOtp, Finish
<1>2. req' \in [Request -> Handler]
  BY <1>1 DEF TypeOK, Handler, Idle
<1>3. /\ otp' \in [Otp -> OtpRow]
      /\ otp'[o].by = r
      /\ \A p \in Otp \ {o} : otp'[p] = otp[p]
  BY DEF SendOtp, TypeOK, OtpRow
<1>4. \A p \in Otp : otp[p].status = "live" => otp[p].by # r
  BY DEF SendOtp, FlightOK
<1>5. otpLogins[o] = 0
  BY Parts DEF SendOtp, Unsent, MailOK, ConsumedOK
<1>6. MailOK'
  BY <1>1, <1>3, <1>4, <1>5, Parts DEF MailOK, ConsumedOK, OneOtpPerHandler
<1>7. FlightOK'
  BY <1>a, <1>1, <1>3 DEF FlightOK, account, totp, recovery, DrawnCodes, TypeOK, Idle
<1> QED
  BY <1>b, <1>2, <1>6, <1>7, Whole

\* The delete succeeds for a code that was good for no login yet.
LEMMA ConsumeKeeps ==
    ASSUME IInv, NEW r \in Request, ConsumeOtp(r) PROVE IInv'
<1> USE DEF IInv
<1>a. UNCHANGED account
  BY DEF ConsumeOtp
<1>b. CodesOK'
  BY <1>a, Parts DEF CodesOK, account, totp, recovery, DrawnCodes
<1> DEFINE p == req[r].otp
<1>1. p \in Otp /\ otp[p].status \in {"live", "expired"}
  BY DEF ConsumeOtp, Deletable, FlightOK
<1>2. req' = [req EXCEPT ![r] = Idle]
  BY DEF ConsumeOtp, Finish
<1>3. req' \in [Request -> Handler]
  BY <1>2 DEF TypeOK, Handler, Idle
<1>4. /\ otp' \in [Otp -> OtpRow]
      /\ otp'[p].status = "deleted"
      /\ \A x \in Otp \ {p} : otp'[x] = otp[x]
  BY <1>1 DEF ConsumeOtp, TypeOK, OtpRow, Unsent
<1>5. otpLogins[p] = 0
  BY <1>1, Parts DEF MailOK, ConsumedOK
<1>6. otpLogins' = [otpLogins EXCEPT ![p] = 1]
  BY <1>1, <1>5 DEF ConsumeOtp, TypeOK
<1>7. MailOK'
  BY <1>1, <1>4, <1>6, Parts DEF MailOK, ConsumedOK, OneOtpPerHandler
<1>8. FlightOK'
  BY <1>a, <1>2, <1>4 DEF FlightOK, account, totp, recovery, DrawnCodes, TypeOK, Idle
<1> QED
  BY <1>b, <1>3, <1>7, <1>8, Whole

\* Time passes.
LEMMA ExpiresKeeps ==
    ASSUME IInv, NEW o \in Otp, OtpExpires(o) PROVE IInv'
<1> USE DEF IInv
<1>a. UNCHANGED account
  BY DEF OtpExpires
<1>b. CodesOK'
  BY <1>a, Parts DEF CodesOK, account, totp, recovery, DrawnCodes
<1>1. /\ otp' \in [Otp -> OtpRow]
      /\ otp'[o].status = "expired" /\ otp[o].status = "live"
      /\ \A p \in Otp \ {o} : otp'[p] = otp[p]
      /\ UNCHANGED <<otpLogins, req>>
  BY DEF OtpExpires, TypeOK, OtpRow, Unsent
<1>2. MailOK'
  BY <1>1, Parts DEF MailOK, ConsumedOK, OneOtpPerHandler
<1>3. FlightOK'
  BY <1>a, <1>1 DEF FlightOK, account, totp, recovery, DrawnCodes
<1>4. req' \in [Request -> Handler]
  BY <1>1 DEF TypeOK
<1> QED
  BY <1>b, <1>2, <1>3, <1>4, Whole

\* The invariant is inductive.
THEOREM NextIInv == IInv /\ [Next]_vars => IInv'
<1> SUFFICES ASSUME IInv, [Next]_vars PROVE IInv'
  OBVIOUS
<1>1. CASE UNCHANGED vars
  <2>1. UNCHANGED <<account, mail, req>>
    BY <1>1 DEF vars
  <2>2. CodesOK' /\ MailOK'
    BY <2>1, Parts DEF account, totp, recovery, mail, CodesOK, MailOK, DrawnCodes,
       ConsumedOK, OneOtpPerHandler
  <2>3. FlightOK' /\ req' \in [Request -> Handler]
    BY <2>1, Parts DEF account, totp, recovery, mail, FlightOK, DrawnCodes
  <2> QED
    BY <2>2, <2>3, Whole
<1>2. CASE Next
  BY <1>2, WaitKeeps, RecoverFindKeeps, EnableKeeps, SetupKeeps, RecoverKeeps,
     ClearKeeps, SendKeeps, ConsumeKeeps, ExpiresKeeps DEF Next
<1> QED
  BY <1>1, <1>2

\* The invariant holds in every reachable state.
THEOREM SpecIInv == Spec => []IInv
  BY InitIInv, NextIInv, PTL DEF Spec

\* Type correctness.
THEOREM TypeCorrect == Spec => []TypeOK
  BY SpecIInv, PTL DEF IInv

\* No one-time code logs in twice, for any number of challenges at once: a
\* code that was good for a login has lost its row, and delete needs it.
THEOREM OtpsAreSingleUse == Spec => []OtpUsedOnce
  BY SpecIInv, PTL DEF IInv

\* A handler has one valid code by mail at most: it cleared the others
\* before, and they stay cleared while it waits to send.
THEOREM OtpsAreReplaced == Spec => []OneOtpPerHandler
  BY SpecIInv, PTL DEF IInv

\* A used or replaced recovery code comes back by a stale write only, and is
\* good for another login only in a handler that overlapped or after it came
\* back: a copy that is not stale is what the row still holds.
THEOREM RecoveryIsFinal == Spec => []VoidStaysVoid
<1>1. IInv => VoidStaysVoid
  BY DEF IInv, TypeOK, Handler, FlightOK, OnlyRestored, VoidStaysVoid
<1> QED
  BY <1>1, SpecIInv, PTL

\* A second factor in force has a secret that a code was shown for, unless its
\* setup or its confirmation was overtaken: a copy that is not stale is the row.
THEOREM EnabledIsConfirmed == Spec => []EnabledWasConfirmed
  BY SpecIInv, PTL DEF IInv

-----------------------------------------------------------------------------

\* What holds besides when only one handler runs at a time: nothing is written
\* between a handler's read and its write.
NothingStale ==
    /\ restored = {}
    /\ ~crossed
    /\ \A r \in Request : req[r].copy = "current"

\* What a reader of the documentation takes for granted of the second factors.
FactorsAreExact ==
    /\ recoveryCodes \cap void = {}
    /\ \A r \in Request : req[r].pc = "recover" => req[r].code \notin void
    /\ mfaEnabled => mfaSecret \in confirmed
    /\ \A o, p \in Otp : otp[o].status = "live" /\ otp[p].status = "live" => o = p

LEMMA NothingStaleStep ==
  ASSUME \A r, q \in Request : r = q, IInv, NothingStale, [Next]_vars
  PROVE  NothingStale'
<1> USE DEF NothingStale, account, totp, recovery, mail
<1>1. ASSUME NEW r \in Request, Finish(r) \/ \E pcs : FinishOverwriting(r, pcs),
             restored' = {}, ~crossed'
      PROVE  NothingStale'
  BY <1>1 DEF Finish, FinishOverwriting, Idle, IInv, TypeOK
<1>2. ASSUME NEW r \in Request, NEW pc, Start(r, pc) PROVE NothingStale'
  BY <1>2 DEF Start, Idle, IInv, TypeOK
<1>3. ASSUME NEW r \in Request, ConfirmFind(r) PROVE NothingStale'
  BY <1>3 DEF ConfirmFind, Idle, IInv, TypeOK
<1>4. ASSUME NEW r \in Request, NEW code \in Code, RecoverFind(r, code) PROVE NothingStale'
  BY <1>4 DEF RecoverFind, Idle, IInv, TypeOK
<1>5. ASSUME NEW r \in Request, ClearOtps(r) \/ \E o \in Otp : FindOtp(r, o) PROVE NothingStale'
  <2>1. req[r] = Idle /\ Idle \in Handler
    BY <1>5 DEF ClearOtps, FindOtp, Idle, Handler
  <2>2. \A q \in Request : req'[q].copy = "current"
    BY <1>5, <2>1 DEF ClearOtps, FindOtp, Idle, Handler, IInv, TypeOK
  <2> QED
    BY <1>5, <2>2 DEF ClearOtps, FindOtp
<1>6. ASSUME NEW r \in Request, NEW secret \in Secret, Setup(r, secret) PROVE NothingStale'
  BY <1>1, <1>6 DEF Setup, Draw
<1>7. ASSUME NEW r \in Request, Confirm(r) \/ Disable(r) \/ Recover(r) PROVE NothingStale'
  <2>1. req[r].copy # "stale"
    OBVIOUS
  <2>2. CASE Confirm(r)
    BY <1>1, <2>1, <2>2 DEF Confirm
  <2>3. CASE Disable(r)
    BY <1>1, <2>3 DEF Disable
  <2>4. CASE Recover(r)
    BY <1>1, <2>1, <2>4 DEF Recover
  <2> QED
    BY <1>7, <2>2, <2>3, <2>4
<1>8. ASSUME NEW r \in Request,
             ConsumeOtp(r) \/ Abandon(r) \/ \E o \in Otp : SendOtp(r, o)
      PROVE  NothingStale'
  BY <1>1, <1>8 DEF ConsumeOtp, Abandon, SendOtp
<1>9. CASE UNCHANGED vars \/ \E o \in Otp : OtpExpires(o)
  BY <1>9 DEF vars, OtpExpires
<1> QED
  BY <1>2, <1>3, <1>4, <1>5, <1>6, <1>7, <1>8, <1>9 DEF Next, SetupFind, DisableFind

\* With one handler at a time the second factors are exact: a void recovery
\* code is never in the row again nor used again, a factor in force has a
\* secret that a code was shown for, and one mailed code is good at most.
\* What RecoveryIsFinal, EnabledIsConfirmed and OtpsAreReplaced leave open
\* takes a race.
THEOREM SerialFactorsHold ==
  ASSUME \A r, q \in Request : r = q
  PROVE  Spec => []FactorsAreExact
<1>1. Init => NothingStale
  BY DEF Init, NothingStale, Idle
<1>2. IInv /\ NothingStale /\ [Next]_vars => NothingStale'
  BY NothingStaleStep
<1>3. IInv /\ NothingStale => FactorsAreExact
  <2> SUFFICES ASSUME IInv, NothingStale PROVE FactorsAreExact
    OBVIOUS
  <2>1. \A o \in Otp : otp[o].status = "live" => otp[o].by \in Request
    BY DEF IInv, TypeOK, OtpRow, Unsent
  <2>2. recoveryCodes \cap void = {}
    BY DEF IInv, OnlyRestored, NothingStale
  <2>3. \A r \in Request : req[r].pc = "recover" => req[r].code \notin void
    BY <2>2 DEF IInv, FlightOK, NothingStale
  <2> QED
    BY <2>1, <2>2, <2>3 DEF FactorsAreExact, IInv, NothingStale, EnabledWasConfirmed,
                OneOtpPerHandler
<1> QED
  BY <1>1, <1>2, <1>3, SpecIInv, PTL DEF Spec
=============================================================================
