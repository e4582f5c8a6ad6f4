---------------------------- MODULE CallPipeline ----------------------------
(***************************************************************************)
(* The dialling pipeline: placeCall() of telephony.service.ts, the         *)
(* compliance checks it awaits (runComplianceChecks() of                   *)
(* compliance.service.ts) and the handlers that change what they read      *)
(* (recordConsent(), addDnc()).  Every await is a point where other calls  *)
(* and handlers go on, where the statement may throw, and where the server *)
(* may stop.                                                               *)
(***************************************************************************)
EXTENDS Integers

CONSTANTS
    Call,           \* executions of placeCall()
    Lead,           \* leads
    Phone,          \* telephone numbers
    Clock,          \* the times that pass: quarters of an hour since a midnight of UTC
    Expiry,         \* what the rows of consent_records have in expires_at
    Timezone,       \* what callers pass as `timezone`: any string, nobody validates it
    Offset,         \* the zones Intl knows: how far ahead of UTC each is, at each time
    WindowStart,    \* campaigns.calling_window_start, an hour
    WindowEnd,      \* campaigns.calling_window_end, an hour
    None            \* null

ASSUME ClockAssumption == Clock \subseteq Nat /\ Expiry \subseteq Nat \cup {None}

ASSUME ZoneAssumption ==
    /\ \A zone \in DOMAIN Offset : Offset[zone] \in [Clock -> Int]
    /\ WindowStart \in Int /\ WindowEnd \in Int

ASSUME NoneAssumption == None \notin Lead \cup Phone \cup Clock \cup Call

VARIABLES
    clock,      \* the time
    consent,    \* the rows of consent_records: a lead, and when it expires
    dnc,        \* the numbers of dnc_registry
    audit,      \* the rows of compliance_checks
    call,       \* what each placeCall() waits for, and its local variables
    row,        \* the row of calls each placeCall() has written
    line        \* the providers that have put the call through

vars == <<clock, consent, dnc, audit, call, row, line>>

Provider == {"telnyx", "twilio"}

\* The checks in the order in which they run.
Check == <<"consent", "dnc", "calling_window">>

Consent == [lead : Lead, expires : Expiry]

\* call_id is null in every row.  `by` is history, the execution that wrote
\* the row: the database cannot join a row of the trail to its call.
AuditRow ==
    [by : Call, call_id : Call \cup {None}, lead : Lead, check : {Check[i] : i \in 1..3},
     passed : BOOLEAN, at : Clock]

\* `next` is the check that runs, `passed` its result, `used` is usedProvider.
\* `listed` is history: the number was in the registry when the call began.
Waiting == [pc |-> "waiting", lead |-> None, phone |-> None, zone |-> None, now |-> None,
            next |-> 1, passed |-> FALSE, used |-> "telnyx", listed |-> FALSE]

CallState ==
    {Waiting} \cup
    [pc : {"lookup", "log", "blocked", "telnyx", "twilio", "queue", "fail", "done", "lost"},
     lead : Lead, phone : Phone, zone : Timezone, now : Clock, next : 1..3, passed : BOOLEAN,
     used : Provider, listed : BOOLEAN]

NoRow == [status |-> "none", provider |-> None, reason |-> None]

Reason ==
    [i \in 1..3 |-> CASE i = 1 -> "NO_CONSENT"
                      [] i = 2 -> "DNC_BLOCKED"
                      [] i = 3 -> "OUTSIDE_CALLING_WINDOW"]

CallRow ==
    {NoRow} \cup
    [status : {"cancelled", "queued", "failed"}, provider : Provider,
     reason : {None} \cup {Reason[i] : i \in 1..3}]

TypeOK ==
    /\ clock \in Clock
    /\ consent \subseteq Consent
    /\ dnc \subseteq Phone
    /\ audit \subseteq AuditRow
    /\ call \in [Call -> CallState]
    /\ row \in [Call -> CallRow]
    /\ line \in [Call -> SUBSET Provider]

Init ==
    /\ clock \in Clock
    /\ consent = {}
    /\ dnc = {}
    /\ audit = {}
    /\ call = [k \in Call |-> Waiting]
    /\ row = [k \in Call |-> NoRow]
    /\ line = [k \in Call |-> {}]

Goto(k, pc) == call' = [call EXCEPT ![k].pc = pc]

-----------------------------------------------------------------------------
(* What changes under a call that is being placed.                         *)

Tick ==
    /\ \E time \in Clock : time > clock /\ clock' = time
    /\ UNCHANGED <<consent, dnc, audit, call, row, line>>

\* recordConsent(); expires_at is optional and not compared with the clock.
RecordConsent(lead, expires) ==
    /\ consent' = consent \cup {[lead |-> lead, expires |-> expires]}
    /\ UNCHANGED <<clock, dnc, audit, call, row, line>>

\* addDnc().  No code removes a number from the registry.
AddDnc(phone) ==
    /\ dnc' = dnc \cup {phone}
    /\ UNCHANGED <<clock, consent, audit, call, row, line>>

-----------------------------------------------------------------------------
(* runComplianceChecks().                                                  *)

\* `now` is taken once, and serves every check.
Begin(k, lead, phone, zone) ==
    /\ call[k] = Waiting
    /\ call' = [call EXCEPT ![k] =
            [pc |-> "lookup", lead |-> lead, phone |-> phone, zone |-> zone, now |-> clock,
             next |-> 1, passed |-> FALSE, used |-> "telnyx", listed |-> phone \in dnc]]
    /\ UNCHANGED <<clock, consent, dnc, audit, row, line>>

HasConsent(lead, now) ==
    \E r \in consent : r.lead = lead /\ (r.expires = None \/ r.expires > now)

\* getUTCHours().
UtcHour(time) == (time \div 4) % 24

\* The hour Intl shows in a zone it knows; with hour12 off, midnight is 24.
IntlHour(time, zone) ==
    LET hour == ((time + Offset[zone][time]) \div 4) % 24
    IN  IF hour = 0 THEN 24 ELSE hour

\* Seeded fault: the zone is not looked at.
HourInUtc(time, zone) == UtcHour(time)

\* getHourInTimezone(): for a name that Intl does not know it throws, and the
\* hour is that of UTC.
Hour(time, zone) ==
    IF zone \in DOMAIN Offset THEN IntlHour(time, zone) % 24 ELSE UtcHour(time)

\* No hour is in a window that ends at or before the hour it starts with.
Within(time, zone) == WindowStart <= Hour(time, zone) /\ Hour(time, zone) < WindowEnd

Passes(k) ==
    \/ Check[call[k].next] = "consent" /\ HasConsent(call[k].lead, call[k].now)
    \/ Check[call[k].next] = "dnc" /\ call[k].phone \notin dnc
    \/ Check[call[k].next] = "calling_window" /\ Within(call[k].now, call[k].zone)

\* The statement that a check reads with; the window reads nothing but now.
Lookup(k) ==
    /\ call[k].pc = "lookup"
    /\ call' = [call EXCEPT ![k].pc = "log", ![k].passed = Passes(k)]
    /\ UNCHANGED <<clock, consent, dnc, audit, row, line>>

\* Seeded fault: only failures are recorded.
LogFailure(k) ==
    audit' = IF call[k].passed THEN audit ELSE audit \cup
        {[by |-> k, call_id |-> None, lead |-> call[k].lead, check |-> Check[call[k].next],
          passed |-> call[k].passed, at |-> call[k].now]}

\* complianceCheck.create.
LogCheck(k) ==
    audit' = audit \cup
        {[by |-> k, call_id |-> None, lead |-> call[k].lead, check |-> Check[call[k].next],
          passed |-> call[k].passed, at |-> call[k].now]}

\* Seeded fault: a check too many.
JudgeOneMore(k) ==
    /\ call[k].pc = "log"
    /\ LogCheck(k)
    /\ call' = [call EXCEPT ![k].pc = "lookup", ![k].next = @ + 1]
    /\ UNCHANGED <<clock, consent, dnc, row, line>>

\* A check is recorded; it blocks the call, or hands over to the next one.
Judge(k) ==
    /\ call[k].pc = "log"
    /\ LogCheck(k)
    /\ \/ /\ ~call[k].passed
          /\ Goto(k, "blocked")
       \/ /\ call[k].passed
          /\ call[k].next < 3
          /\ call' = [call EXCEPT ![k].pc = "lookup", ![k].next = @ + 1]
       \/ /\ call[k].passed
          /\ call[k].next = 3
          /\ Goto(k, "telnyx")
    /\ UNCHANGED <<clock, consent, dnc, row, line>>

-----------------------------------------------------------------------------
(* placeCall(), after the checks.                                          *)

WriteRow(k, status, provider, reason) ==
    /\ row' = [row EXCEPT ![k] = [status |-> status, provider |-> provider, reason |-> reason]]
    /\ Goto(k, "done")
    /\ UNCHANGED <<clock, consent, dnc, audit, line>>

RecordBlocked(k) ==
    /\ call[k].pc = "blocked"
    /\ WriteRow(k, "cancelled", "telnyx", Reason[call[k].next])

\* The provider puts the call through; its answer is still to come.
PutThrough(k) ==
    /\ call[k].pc \in Provider
    /\ call[k].pc \notin line[k]
    /\ line' = [line EXCEPT ![k] = @ \cup {call[k].pc}]
    /\ UNCHANGED <<clock, consent, dnc, audit, call, row>>

\* The provider answers with the id of the call.
Answer(k) ==
    /\ call[k].pc \in Provider
    /\ call[k].pc \in line[k]
    /\ Goto(k, "queue")
    /\ UNCHANGED <<clock, consent, dnc, audit, row, line>>

\* Seeded fault: usedProvider stays what it was.
FailOverUnnoted(k) == call' = [call EXCEPT ![k].pc = "twilio"]

FailOver(k) == call' = [call EXCEPT ![k].pc = "twilio", ![k].used = "twilio"]

\* The adapter throws: the provider refused the call, or put it through and
\* its answer was lost.
AdapterThrows(k) ==
    /\ \/ call[k].pc = "telnyx" /\ FailOver(k)
       \/ call[k].pc = "twilio" /\ Goto(k, "fail")
    /\ UNCHANGED <<clock, consent, dnc, audit, row, line>>

RecordQueued(k) ==
    /\ call[k].pc = "queue"
    /\ WriteRow(k, "queued", call[k].used, None)

\* Seeded fault: when both providers refused, the first is tried again.
DialAgain(k) ==
    /\ call[k].pc = "fail"
    /\ Goto(k, "telnyx")
    /\ UNCHANGED <<clock, consent, dnc, audit, row, line>>

\* disconnect_reason holds both errors; it is left out.
RecordFailed(k) ==
    /\ call[k].pc = "fail"
    /\ WriteRow(k, "failed", call[k].used, None)

Placing == {"lookup", "log", "blocked", "telnyx", "twilio", "queue", "fail"}

\* A statement on the database throws, or the server stops.
Lose(k) ==
    /\ call[k].pc \in Placing
    /\ Goto(k, "lost")
    /\ UNCHANGED <<clock, consent, dnc, audit, row, line>>

\* What goes on by itself once placeCall() was called.
Step(k) ==
    \/ Lookup(k)
    \/ Judge(k)
    \/ RecordBlocked(k)
    \/ Answer(k)
    \/ AdapterThrows(k)
    \/ RecordQueued(k)
    \/ RecordFailed(k)

Next ==
    \/ Tick
    \/ \E lead \in Lead, expires \in Expiry : RecordConsent(lead, expires)
    \/ \E phone \in Phone : AddDnc(phone)
    \/ \E k \in Call :
        \/ \E lead \in Lead, phone \in Phone, zone \in Timezone : Begin(k, lead, phone, zone)
        \/ Step(k)
        \/ PutThrough(k)
        \/ Lose(k)

\* Node runs what can go on, and an adapter comes back in the end: the stubs
\* throw at once, and the clients they stand for have timeouts.
Fairness == \A k \in Call : WF_vars(Step(k))

Spec == Init /\ [][Next]_vars /\ Fairness

-----------------------------------------------------------------------------

Written(k, passed) == {r.check : r \in {q \in audit : q.by = k /\ q.passed = passed}}

\* The verdict that can be read off the audit trail.
Verdict(k) ==
    IF Written(k, FALSE) # {} THEN "refused"
    ELSE IF \A i \in 1..3 : Check[i] \in Written(k, TRUE) THEN "cleared"
    ELSE "open"

Gate == INSTANCE CallGate WITH
    verdict <- [k \in Call |-> Verdict(k)],
    status <- [k \in Call |-> row[k].status]

\* placeCall() implements CallGate, with the verdict read off the rows that
\* this execution wrote to the audit trail: nothing rings before they hold all
\* three checks as passed, even if the server stops in between; a call they
\* refuse is cancelled and never rings; a queued call rang.  (Whoever reads the
\* database cannot tell whose rows they are: call_id is null in all of them.)
ImplementsGate == Gate!Spec

\* The time on the clocks of a zone, for a zone that is known; the code takes
\* UTC for any other.
LocalTime(time, zone) ==
    time + IF zone \in DOMAIN Offset THEN Offset[zone][time] ELSE 0

\* When a telephone rings, the three conditions held when this call began:
\* there is a consent that was valid then, the number was not yet in the
\* registry, and the local time of the call, to the quarter of an hour, was
\* within the calling window (that of UTC, if its zone has a name nobody knows).
RingsWereAllowed ==
    \A k \in Call : line[k] # {} =>
        /\ \E r \in consent :
            r.lead = call[k].lead /\ (r.expires = None \/ call[k].now < r.expires)
        /\ ~call[k].listed
        /\ LocalTime(call[k].now, call[k].zone) % 96 \in 4 * WindowStart .. 4 * WindowEnd - 1

\* No call is placed to a number that is on the registry: what the
\* acceptance criterion says of the moment the telephone rings.
RegisteredDoNotRing ==
    [][\A k \in Call : line'[k] # line[k] => call[k].phone \notin dnc]_vars

\* No call is placed outside the calling window: again of the moment the
\* telephone rings, and only for zones that are known.
RingsWithinWindow ==
    [][\A k \in Call : line'[k] # line[k] /\ call[k].zone \in DOMAIN Offset
         => Within(clock, call[k].zone)]_vars

\* The row of a queued call names a provider that did put it through, in
\* every order of refusals, lost answers and failover.
QueuedByWhoRings ==
    \A k \in Call : row[k].status = "queued" => row[k].provider \in line[k]

\* Every placeCall() ends with a row for its call, unless it is lost.
CallIsRecorded ==
    \A k \in Call : call[k].pc \in Placing ~> row[k] # NoRow \/ call[k].pc = "lost"
=============================================================================
