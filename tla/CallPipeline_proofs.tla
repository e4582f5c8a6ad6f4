------------------------ MODULE CallPipeline_proofs ------------------------
(***************************************************************************)
(* Proofs about CallPipeline, for any number of calls, leads and numbers   *)
(* and any calling window: what must hold when a telephone rings, and that *)
(* the pipeline implements CallGate.  And about Disclosures, of the same   *)
(* service but with no variable in common: when a second default appears.  *)
(***************************************************************************)
EXTENDS CallPipeline, Disclosures, TLAPS

\* The row of compliance_checks that the call writes next.
NewRow(k) ==
    [by |-> k, call_id |-> None, lead |-> call[k].lead, check |-> Check[call[k].next],
     passed |-> call[k].passed, at |-> call[k].now]

Refused(k) == \E r \in audit : r.by = k /\ ~r.passed

Passed(k, i) == \E r \in audit : r.by = k /\ r.passed /\ r.check = Check[i]

PassedAll(k) == ~Refused(k) /\ \A i \in 1..3 : Passed(k, i)

\* What a check that passed has found.
Evidence(k, i) ==
    \/ i = 1 /\ HasConsent(call[k].lead, call[k].now)
    \/ i = 2 /\ ~call[k].listed
    \/ i = 3 /\ Within(call[k].now, call[k].zone)

Checking == {"lookup", "log"}

Dialling == {"telnyx", "twilio", "queue", "fail"}

\* The audit trail of a call at each of its statements.
Trail(k) ==
    /\ call[k].pc = "waiting" => \A r \in audit : r.by # k
    /\ call[k].pc \in Checking =>
        /\ ~Refused(k)
        /\ \A i \in 1..3 : Passed(k, i) <=> i < call[k].next
    /\ call[k].pc = "blocked" => Refused(k)
    /\ call[k].pc \in Dialling \/ line[k] # {} => PassedAll(k)

\* The evidence for the checks that passed; it cannot be lost, as consent
\* and registry only grow, and the call keeps its own `now`.
Evident(k) ==
    /\ call[k].listed => call[k].phone \in dnc
    /\ call[k].pc \in Checking => \A i \in 1..3 : i < call[k].next => Evidence(k, i)
    /\ call[k].pc = "log" /\ call[k].passed => Evidence(k, call[k].next)
    /\ call[k].pc \in Dialling \/ line[k] # {} => \A i \in 1..3 : Evidence(k, i)

\* The providers, and the row of the call.
Line(k) ==
    /\ call[k].pc \in {"waiting", "blocked"} \cup Checking => line[k] = {}
    /\ call[k].pc \in {"lookup", "log", "telnyx"} => call[k].used = "telnyx"
    /\ call[k].pc = "twilio" => call[k].used = "twilio"
    /\ call[k].pc = "queue" => call[k].used \in line[k]
    /\ call[k].pc # "done" => row[k] = NoRow
    /\ row[k].status = "queued" => row[k].provider \in line[k]

IInv == TypeOK /\ \A k \in Call : Trail(k) /\ Evident(k) /\ Line(k)

-----------------------------------------------------------------------------

\* None is no time, so that `now` of a call that runs is one.
LEMMA RunningCall ==
    ASSUME TypeOK, NEW k \in Call, call[k].pc # "waiting"
    PROVE  /\ call[k] \in
                [pc : {"lookup", "log", "blocked", "telnyx", "twilio", "queue", "fail", "done", "lost"},
                 lead : Lead, phone : Phone, zone : Timezone, now : Clock, next : 1..3,
                 passed : BOOLEAN,
                 used : Provider, listed : BOOLEAN]
           /\ call[k] # Waiting
  BY DEF TypeOK, CallState, Waiting

\* The invariant holds initially.
LEMMA InitIInv == Init => IInv
<1> SUFFICES ASSUME Init PROVE IInv
  OBVIOUS
<1> USE DEF Init
<1>1. TypeOK
  BY DEF TypeOK, CallState, CallRow
<1>2. ASSUME NEW k \in Call PROVE Trail(k) /\ Evident(k) /\ Line(k)
  <2>1. call[k] = Waiting /\ line[k] = {} /\ row[k] = NoRow /\ audit = {}
    OBVIOUS
  <2>2. Trail(k)
    BY <2>1 DEF Trail, Waiting, Checking, Dialling
  <2>3. Evident(k)
    BY <2>1 DEF Evident, Waiting, Checking, Dialling
  <2>4. Line(k)
    BY <2>1 DEF Line, Waiting, Checking, NoRow, Provider
  <2> QED
    BY <2>2, <2>3, <2>4
<1> QED
  BY <1>1, <1>2 DEF IInv

\* What a check has found stays found: consents are only added.
LEMMA EvidenceStays ==
    ASSUME NEW k \in Call, NEW i \in 1..3, Evidence(k, i), consent \subseteq consent',
           call'[k].lead = call[k].lead, call'[k].zone = call[k].zone,
           call'[k].now = call[k].now, call'[k].listed = call[k].listed
    PROVE  Evidence(k, i)'
<1>1. CASE i = 1
  BY <1>1 DEF Evidence, HasConsent
<1>2. CASE i = 2
  BY <1>2 DEF Evidence
<1>3. CASE i = 3
  <2>1. Within(call[k].now, call[k].zone)
    BY <1>3 DEF Evidence
  <2>2. Within(call'[k].now, call'[k].zone)
    BY <2>1
  <2> QED
    BY <1>3, <2>2 DEF Evidence
<1> QED
  BY <1>1, <1>2, <1>3

\* The invariant of a call that does not move itself.
LEMMA Bystander ==
    ASSUME IInv, NEW j \in Call, call'[j] = call[j], line'[j] = line[j], row'[j] = row[j],
           consent \subseteq consent', dnc \subseteq dnc',
           \A r : r.by = j => (r \in audit' <=> r \in audit)
    PROVE  Trail(j)' /\ Evident(j)' /\ Line(j)'
<1>1. Refused(j)' <=> Refused(j)
  BY DEF Refused
<1>2. \A i \in 1..3 : Passed(j, i)' <=> Passed(j, i)
  BY DEF Passed
<1>3. \A i \in 1..3 : Evidence(j, i) => Evidence(j, i)'
  BY EvidenceStays
<1>4. Trail(j)'
  <2>1. PassedAll(j)' <=> PassedAll(j)
    BY <1>1, <1>2 DEF PassedAll
  <2>2. call[j].pc = "waiting" => \A r \in audit' : r.by # j
    BY DEF IInv, Trail
  <2> QED
    BY <1>1, <1>2, <2>1, <2>2 DEF IInv, Trail
<1>5. Evident(j)'
  <2>1. call[j].pc = "log" => call[j].next \in 1..3
    BY RunningCall DEF IInv
  <2> QED
    BY <1>3, <2>1 DEF IInv, Evident
<1>6. Line(j)'
  BY DEF IInv, Line
<1> QED
  BY <1>4, <1>5, <1>6

\* The clock, the consents and the registry move under the calls.
LEMMA WorldKeeps ==
    ASSUME IInv, clock' \in Clock, consent' \subseteq Consent, consent \subseteq consent',
           dnc' \subseteq Phone, dnc \subseteq dnc', UNCHANGED <<audit, call, row, line>>
    PROVE  IInv'
<1>1. TypeOK'
  BY DEF IInv, TypeOK
<1> QED
  BY <1>1, Bystander DEF IInv

\* A step of one call: what is left to show is about that call alone.
LEMMA OwnStep ==
    ASSUME IInv, NEW k \in Call, UNCHANGED <<clock, consent, dnc>>,
           NEW c \in CallState, call' = [call EXCEPT ![k] = c],
           \/ audit' = audit
           \/ audit' = audit \cup {NewRow(k)} /\ NewRow(k) \in AuditRow,
           NEW l \in SUBSET Provider, line' = [line EXCEPT ![k] = l],
           NEW w \in CallRow, row' = [row EXCEPT ![k] = w],
           Trail(k)', Evident(k)', Line(k)'
    PROVE  IInv'
<1>1. TypeOK'
  BY DEF IInv, TypeOK
<1>2. ASSUME NEW j \in Call, j # k PROVE Trail(j)' /\ Evident(j)' /\ Line(j)'
  <2>1. call'[j] = call[j] /\ line'[j] = line[j] /\ row'[j] = row[j]
    BY <1>2 DEF IInv, TypeOK
  <2>2. \A r : r.by = j => (r \in audit' <=> r \in audit)
    BY <1>2 DEF NewRow
  <2> QED
    BY <2>1, <2>2, Bystander
<1> QED
  BY <1>1, <1>2 DEF IInv

\* Without a new row the trail of a call is what it was.
LEMMA SameTrail ==
    ASSUME UNCHANGED audit, NEW k \in Call
    PROVE  /\ Refused(k)' <=> Refused(k)
           /\ \A i \in 1..3 : Passed(k, i)' <=> Passed(k, i)
           /\ PassedAll(k)' <=> PassedAll(k)
<1>1. Refused(k)' <=> Refused(k)
  BY DEF Refused
<1>2. \A i \in 1..3 : Passed(k, i)' <=> Passed(k, i)
  BY DEF Passed
<1> QED
  BY <1>1, <1>2 DEF PassedAll

\* placeCall() begins, with the state of the registry.
LEMMA BeginKeeps ==
    ASSUME IInv, NEW k \in Call, NEW lead \in Lead, NEW phone \in Phone, NEW zone \in Timezone,
           Begin(k, lead, phone, zone)
    PROVE  IInv'
<1> DEFINE c == [pc |-> "lookup", lead |-> lead, phone |-> phone, zone |-> zone, now |-> clock,
                 next |-> 1, passed |-> FALSE, used |-> "telnyx", listed |-> phone \in dnc]
<1>1. /\ call' = [call EXCEPT ![k] = c] /\ UNCHANGED <<clock, consent, dnc, audit, row, line>>
      /\ call[k] = Waiting
  BY DEF Begin
<1>2. c \in CallState /\ call'[k] = c
  BY <1>1 DEF IInv, TypeOK, CallState, Provider
<1>2a. c.pc = "lookup" /\ c.next = 1 /\ c.phone = phone /\ c.used = "telnyx"
      /\ (c.listed <=> phone \in dnc)
  OBVIOUS
<1> HIDE DEF c
<1>3. call[k].pc = "waiting" /\ (\A r \in audit : r.by # k) /\ line[k] = {} /\ row[k] = NoRow
  BY <1>1 DEF IInv, Trail, Line, Waiting
<1>4. Trail(k)'
  BY <1>1, <1>2, <1>3, <1>2a DEF Trail, Refused, Passed, Checking, Dialling
<1>5. Evident(k)'
  BY <1>1, <1>2, <1>3, <1>2a DEF Evident, Checking, Dialling
<1>6. Line(k)'
  BY <1>1, <1>2, <1>3, <1>2a DEF Line, Provider, NoRow
<1>7. line' = [line EXCEPT ![k] = line[k]] /\ row' = [row EXCEPT ![k] = row[k]]
      /\ line[k] \in SUBSET Provider /\ row[k] \in CallRow
  BY <1>1 DEF IInv, TypeOK
<1> QED
  BY <1>1, <1>2, <1>4, <1>5, <1>6, <1>7, OwnStep

\* A check reads, and its answer is evidence if the call may go on.
LEMMA LookupKeeps ==
    ASSUME IInv, NEW k \in Call, Lookup(k) PROVE IInv'
<1> DEFINE c == [call[k] EXCEPT !.pc = "log", !.passed = Passes(k)]
<1>1. /\ call[k].pc = "lookup" /\ call[k].next \in 1..3 /\ call[k] \in CallState
      /\ UNCHANGED <<clock, consent, dnc, audit, row, line>>
  BY RunningCall DEF Lookup, IInv, TypeOK
<1>2. call' = [call EXCEPT ![k] = c]
  BY DEF Lookup, IInv, TypeOK
<1>3. Passes(k) \in BOOLEAN
  BY DEF Passes
<1>4. c \in CallState /\ c.pc = "log" /\ c.passed = Passes(k) /\ c.next = call[k].next
      /\ c.lead = call[k].lead /\ c.zone = call[k].zone
      /\ c.now = call[k].now /\ c.listed = call[k].listed
      /\ c.phone = call[k].phone /\ c.used = call[k].used
  BY <1>1, <1>3, RunningCall DEF IInv, CallState
<1>5. call'[k] = c
  BY <1>2 DEF IInv, TypeOK
<1> HIDE DEF c
<1>6. Trail(k)'
  BY <1>1, <1>4, <1>5, SameTrail DEF IInv, Trail, Checking, Dialling
<1>7. Line(k)'
  BY <1>1, <1>4, <1>5 DEF IInv, Line, Checking, Provider
<1>8. Evident(k)'
  <2>1. \A i \in 1..3 : Evidence(k, i) => Evidence(k, i)'
    BY <1>1, <1>4, <1>5, EvidenceStays
  <2>2. Passes(k) => Evidence(k, call[k].next)
    <3>1. \A i \in 1..3 :
            /\ Check[i] = "consent" <=> i = 1
            /\ Check[i] = "dnc" <=> i = 2
            /\ Check[i] = "calling_window" <=> i = 3
      BY DEF Check
    <3>2. call[k].phone \notin dnc => ~call[k].listed
      BY DEF IInv, Evident
    <3> QED
      BY <1>1, <3>1, <3>2 DEF Passes, Evidence
  <2>3. line[k] = {}
    BY <1>1 DEF IInv, Line, Checking
  <2> QED
    BY <1>1, <1>4, <1>5, <2>1, <2>2, <2>3 DEF IInv, Evident, Checking, Dialling
<1>9. line' = [line EXCEPT ![k] = line[k]] /\ row' = [row EXCEPT ![k] = row[k]]
      /\ line[k] \in SUBSET Provider /\ row[k] \in CallRow
  BY <1>1 DEF IInv, TypeOK
<1> QED
  BY <1>1, <1>2, <1>4, <1>6, <1>7, <1>8, <1>9, OwnStep

\* What the new row does to the trail of its call.
LEMMA RowWritten ==
    ASSUME IInv, NEW k \in Call, Judge(k)
    PROVE  /\ audit' = audit \cup {NewRow(k)} /\ NewRow(k) \in AuditRow
           /\ call[k].pc = "log" /\ call[k].next \in 1..3 /\ call[k].passed \in BOOLEAN
           /\ ~Refused(k) /\ \A i \in 1..3 : Passed(k, i) <=> i < call[k].next
           /\ Refused(k)' <=> ~call[k].passed
           /\ call[k].passed => \A i \in 1..3 : Passed(k, i)' <=> i <= call[k].next
<1>1. audit' = audit \cup {NewRow(k)} /\ call[k].pc = "log"
  BY DEF Judge, LogCheck, NewRow
<1>2. call[k].next \in 1..3 /\ call[k].passed \in BOOLEAN /\ call[k].lead \in Lead
      /\ call[k].now \in Clock
  BY <1>1, RunningCall DEF IInv
<1>3. NewRow(k) \in AuditRow
  BY <1>2 DEF NewRow, AuditRow
<1>4. ~Refused(k) /\ \A i \in 1..3 : Passed(k, i) <=> i < call[k].next
  BY <1>1 DEF IInv, Trail, Checking
<1>5. /\ NewRow(k).by = k /\ NewRow(k).passed = call[k].passed
      /\ NewRow(k).check = Check[call[k].next]
  BY DEF NewRow
<1>6. Refused(k)' <=> ~call[k].passed
  BY <1>1, <1>4, <1>5 DEF Refused
<1>7. \A i \in 1..3 : Check[i] = Check[call[k].next] <=> i = call[k].next
  BY <1>2 DEF Check
<1>8. call[k].passed => \A i \in 1..3 : Passed(k, i)' <=> Passed(k, i) \/ i = call[k].next
  BY <1>1, <1>5, <1>7 DEF Passed
<1> QED
  BY <1>1, <1>2, <1>3, <1>4, <1>6, <1>8

\* The row of a check is written, and the call goes on or is blocked.
LEMMA JudgeKeeps ==
    ASSUME IInv, NEW k \in Call, Judge(k) PROVE IInv'
<1>1. /\ UNCHANGED <<clock, consent, dnc, row, line>>
      /\ line' = [line EXCEPT ![k] = line[k]] /\ row' = [row EXCEPT ![k] = row[k]]
      /\ line[k] \in SUBSET Provider /\ row[k] \in CallRow
  BY DEF Judge, IInv, TypeOK
<1>2. call[k] \in CallState /\ call[k].pc = "log" /\ line[k] = {} /\ row[k] = NoRow
      /\ call[k].next \in 1..3 /\ Evident(k) /\ call[k].used = "telnyx"
  BY RowWritten DEF IInv, TypeOK, Line, Checking
<1>3. ASSUME NEW c \in CallState, call' = [call EXCEPT ![k] = c],
             c.lead = call[k].lead, c.phone = call[k].phone,
             c.zone = call[k].zone, c.now = call[k].now,
             c.listed = call[k].listed, c.used = call[k].used,
             \/ ~call[k].passed /\ c.pc = "blocked"
             \/ call[k].passed /\ call[k].next < 3 /\ c.pc = "lookup" /\ c.next = call[k].next + 1
             \/ call[k].passed /\ call[k].next = 3 /\ c.pc = "telnyx" /\ c.used = "telnyx"
      PROVE  IInv'
  <2>1. call'[k] = c
    BY <1>3 DEF IInv, TypeOK
  <2>2. Trail(k)'
    BY <1>1, <1>2, <1>3, <2>1, RowWritten DEF Trail, Checking, Dialling, PassedAll
  <2>3. Line(k)'
    BY <1>1, <1>2, <1>3, <2>1 DEF Line, Checking, Provider, NoRow
  <2>4. Evident(k)'
    <3>1. \A i \in 1..3 : Evidence(k, i) => Evidence(k, i)'
      BY <1>1, <1>3, <2>1, EvidenceStays
    <3>2. call[k].passed => \A i \in 1..3 : i <= call[k].next => Evidence(k, i)
      BY <1>2 DEF Evident, Checking
    <3> QED
      BY <1>1, <1>2, <1>3, <2>1, <3>1, <3>2 DEF Evident, Checking, Dialling
  <2> QED
    BY <1>1, <1>3, <2>2, <2>3, <2>4, RowWritten, OwnStep
<1>4. CASE ~call[k].passed /\ Goto(k, "blocked")
  <2> DEFINE c == [call[k] EXCEPT !.pc = "blocked"]
  <2>1. call' = [call EXCEPT ![k] = c]
    BY <1>4 DEF Goto, IInv, TypeOK
  <2>2. c \in CallState /\ c.pc = "blocked" /\ c.lead = call[k].lead /\ c.phone = call[k].phone
        /\ c.zone = call[k].zone
        /\ c.now = call[k].now /\ c.listed = call[k].listed /\ c.used = call[k].used
    BY <1>2, RunningCall DEF IInv, CallState
  <2> QED
    BY <1>3, <1>4, <2>1, <2>2
<1>5. CASE call[k].passed /\ call[k].next < 3 /\ call' = [call EXCEPT ![k].pc = "lookup", ![k].next = @ + 1]
  <2> DEFINE c == [call[k] EXCEPT !.pc = "lookup", !.next = @ + 1]
  <2>1. call' = [call EXCEPT ![k] = c]
    BY <1>5 DEF IInv, TypeOK
  <2>2. call[k].next + 1 \in 1..3
    BY <1>2, <1>5
  <2>3. c \in CallState /\ c.pc = "lookup" /\ c.lead = call[k].lead /\ c.phone = call[k].phone
        /\ c.zone = call[k].zone
        /\ c.now = call[k].now /\ c.listed = call[k].listed /\ c.used = call[k].used
        /\ c.next = call[k].next + 1
    BY <1>2, <2>2, RunningCall DEF IInv, CallState
  <2> QED
    BY <1>3, <1>5, <2>1, <2>3
<1>6. CASE call[k].passed /\ call[k].next = 3 /\ Goto(k, "telnyx")
  <2> DEFINE c == [call[k] EXCEPT !.pc = "telnyx"]
  <2>1. call' = [call EXCEPT ![k] = c]
    BY <1>6 DEF Goto, IInv, TypeOK
  <2>2. c \in CallState /\ c.pc = "telnyx" /\ c.lead = call[k].lead /\ c.phone = call[k].phone
        /\ c.zone = call[k].zone
        /\ c.now = call[k].now /\ c.listed = call[k].listed /\ c.used = call[k].used
    BY <1>2, RunningCall DEF IInv, CallState
  <2>3. call[k].used = "telnyx"
    BY <1>2 DEF IInv, Line
  <2> QED
    BY <1>3, <1>6, <2>1, <2>2, <2>3
<1> QED
  BY <1>4, <1>5, <1>6 DEF Judge

\* A step after the checks: the call goes on as c, no check is written, and
\* the providers l and the row w are right for it.
After(k, c, l, w) ==
    /\ UNCHANGED <<clock, consent, dnc, audit>>
    /\ c \in CallState
    /\ call' = [call EXCEPT ![k] = c]
    /\ c.lead = call[k].lead /\ c.phone = call[k].phone
    /\ c.zone = call[k].zone /\ c.now = call[k].now /\ c.listed = call[k].listed
    /\ c.pc \in Dialling \cup {"done", "lost"}
    /\ l \in SUBSET Provider
    /\ line' = [line EXCEPT ![k] = l]
    /\ w \in CallRow
    /\ row' = [row EXCEPT ![k] = w]
    /\ c.pc \in Dialling \/ l # {} => call[k].pc \in Dialling \/ line[k] # {}
    /\ c.pc = "telnyx" => c.used = "telnyx"
    /\ c.pc = "twilio" => c.used = "twilio"
    /\ c.pc = "queue" => c.used \in l
    /\ c.pc # "done" => w = NoRow
    /\ w.status = "queued" => w.provider \in l

\* Such a step keeps the invariant.
LEMMA AfterKeeps ==
    ASSUME IInv, NEW k \in Call, NEW c, NEW l, NEW w, After(k, c, l, w) PROVE IInv'
<1> USE DEF After
<1>1. call'[k] = c /\ line'[k] = l /\ row'[k] = w
  BY DEF IInv, TypeOK
<1>2. Trail(k)'
  BY <1>1, SameTrail DEF IInv, Trail, Checking, Dialling
<1>3. Evident(k)'
  <2>1. \A i \in 1..3 : Evidence(k, i) => Evidence(k, i)'
    BY <1>1, EvidenceStays
  <2>2. c.listed => c.phone \in dnc'
    BY DEF IInv, Evident
  <2>3. c.pc \in Dialling \/ l # {} => \A i \in 1..3 : Evidence(k, i)'
    BY <2>1 DEF IInv, Evident
  <2> QED
    BY <1>1, <2>2, <2>3 DEF Evident, Checking, Dialling
<1>4. Line(k)'
  BY <1>1 DEF Line, Checking, Dialling
<1>5. \/ audit' = audit
      \/ audit' = audit \cup {NewRow(k)} /\ NewRow(k) \in AuditRow
  OBVIOUS
<1>6. /\ UNCHANGED <<clock, consent, dnc>> /\ c \in CallState /\ call' = [call EXCEPT ![k] = c]
      /\ l \in SUBSET Provider /\ line' = [line EXCEPT ![k] = l]
      /\ w \in CallRow /\ row' = [row EXCEPT ![k] = w]
  OBVIOUS
<1> HIDE DEF After
<1> QED
  BY <1>2, <1>3, <1>4, <1>5, <1>6, OwnStep

\* The row of the call is written.
LEMMA WriteRowKeeps ==
    ASSUME IInv, NEW k \in Call, call[k].pc \in {"blocked", "queue", "fail"},
           NEW status \in {"cancelled", "queued", "failed"}, NEW provider \in Provider,
           NEW reason \in {None} \cup {Reason[i] : i \in 1..3},
           status = "queued" => provider \in line[k],
           WriteRow(k, status, provider, reason)
    PROVE  IInv'
<1> DEFINE w == [status |-> status, provider |-> provider, reason |-> reason]
           c == [call[k] EXCEPT !.pc = "done"]
<1>1. w \in CallRow /\ w.status = status /\ w.provider = provider
  BY DEF CallRow
<1>2. /\ row' = [row EXCEPT ![k] = w]
      /\ call' = [call EXCEPT ![k].pc = "done"]
      /\ UNCHANGED <<clock, consent, dnc, audit, line>>
  BY DEF WriteRow, Goto
<1>3. line[k] \in SUBSET Provider /\ line' = [line EXCEPT ![k] = line[k]]
  BY <1>2 DEF IInv, TypeOK
<1>4. /\ c \in CallState /\ c.pc = "done" /\ call' = [call EXCEPT ![k] = c]
      /\ c.lead = call[k].lead /\ c.phone = call[k].phone /\ c.zone = call[k].zone
      /\ c.now = call[k].now
      /\ c.listed = call[k].listed
  BY <1>2, RunningCall DEF IInv, TypeOK, CallState
<1> HIDE DEF w, c
<1>5. After(k, c, line[k], w)
  BY <1>1, <1>2, <1>3, <1>4 DEF After, Dialling
<1> QED
  BY <1>5, AfterKeeps

\* The steps of the providers, and of the failover.
LEMMA DiallingKeeps ==
    ASSUME IInv, NEW k \in Call, PutThrough(k) \/ Answer(k) \/ AdapterThrows(k)
    PROVE  IInv'
<1>1. call[k].pc \in Provider /\ call[k].used = call[k].pc /\ call[k].pc \in Dialling
      /\ call[k].pc # "waiting" /\ call[k].pc # "done"
  <2>1. call[k].pc \in Provider
    BY DEF PutThrough, Answer, AdapterThrows, Provider
  <2> QED
    BY <2>1 DEF IInv, Line, Provider, Dialling
<1>2. /\ line[k] \in SUBSET Provider /\ row[k] \in CallRow /\ row[k] = NoRow
      /\ NoRow.status # "queued" /\ call[k] \in CallState /\ call \in [Call -> CallState]
  BY <1>1 DEF IInv, TypeOK, Line, NoRow
<1>3. /\ UNCHANGED <<clock, consent, dnc, audit, row>>
      /\ row' = [row EXCEPT ![k] = row[k]]
  BY DEF PutThrough, Answer, AdapterThrows, IInv, TypeOK
<1>4. CASE PutThrough(k)
  <2> DEFINE l == line[k] \cup {call[k].pc}
  <2>1. line' = [line EXCEPT ![k] = l] /\ l \in SUBSET Provider /\ UNCHANGED call
    BY <1>1, <1>2, <1>4 DEF PutThrough
  <2>2. call' = [call EXCEPT ![k] = call[k]]
    BY <2>1 DEF IInv, TypeOK
  <2> HIDE DEF l
  <2>3. After(k, call[k], l, row[k])
    BY <1>1, <1>2, <1>3, <2>1, <2>2 DEF After, Provider
  <2> QED
    BY <2>3, AfterKeeps
<1>5. ASSUME UNCHANGED line, NEW c \in CallState, call' = [call EXCEPT ![k] = c],
             c.lead = call[k].lead, c.phone = call[k].phone,
             c.zone = call[k].zone, c.now = call[k].now, c.listed = call[k].listed,
             \/ c.pc = "queue" /\ c.used \in line[k]
             \/ c.pc = "twilio" /\ c.used = "twilio"
             \/ c.pc = "fail"
      PROVE  IInv'
  <2>1. line' = [line EXCEPT ![k] = line[k]]
    BY <1>5 DEF IInv, TypeOK
  <2>2. After(k, c, line[k], row[k])
    BY <1>1, <1>2, <1>3, <1>5, <2>1 DEF After, Dialling
  <2> QED
    BY <2>2, AfterKeeps
<1>6. CASE Answer(k)
  <2> DEFINE c == [call[k] EXCEPT !.pc = "queue"]
  <2>1. call[k].used \in line[k] /\ call' = [call EXCEPT ![k].pc = "queue"] /\ UNCHANGED line
    BY <1>1, <1>6 DEF Answer, Goto
  <2>2. /\ c \in CallState /\ c.pc = "queue" /\ c.used = call[k].used
        /\ c.lead = call[k].lead /\ c.phone = call[k].phone /\ c.zone = call[k].zone
        /\ c.now = call[k].now
        /\ c.listed = call[k].listed /\ call' = [call EXCEPT ![k] = c]
    BY <1>1, <1>2, <2>1, RunningCall DEF IInv, CallState
  <2> HIDE DEF c
  <2> QED
    BY <1>5, <2>1, <2>2
<1>7. CASE FailOver(k) /\ UNCHANGED line
  <2> DEFINE c == [call[k] EXCEPT !.pc = "twilio", !.used = "twilio"]
  <2>1. /\ c \in CallState /\ c.pc = "twilio" /\ c.used = "twilio"
        /\ c.lead = call[k].lead /\ c.phone = call[k].phone /\ c.zone = call[k].zone
        /\ c.now = call[k].now
        /\ c.listed = call[k].listed /\ call' = [call EXCEPT ![k] = c]
    BY <1>1, <1>2, <1>7, RunningCall DEF IInv, CallState, FailOver, Provider
  <2> HIDE DEF c
  <2> QED
    BY <1>5, <1>7, <2>1
<1>8. CASE Goto(k, "fail") /\ UNCHANGED line
  <2> DEFINE c == [call[k] EXCEPT !.pc = "fail"]
  <2>1. /\ c \in CallState /\ c.pc = "fail"
        /\ c.lead = call[k].lead /\ c.phone = call[k].phone /\ c.zone = call[k].zone
        /\ c.now = call[k].now
        /\ c.listed = call[k].listed /\ call' = [call EXCEPT ![k] = c]
    BY <1>1, <1>2, <1>8, RunningCall DEF IInv, CallState, Goto
  <2> HIDE DEF c
  <2> QED
    BY <1>5, <1>8, <2>1
<1> QED
  BY <1>4, <1>6, <1>7, <1>8 DEF AdapterThrows

\* A call is lost at whatever statement it is.
LEMMA LoseKeeps ==
    ASSUME IInv, NEW k \in Call, Lose(k) PROVE IInv'
<1> DEFINE c == [call[k] EXCEPT !.pc = "lost"]
<1>1. call[k].pc \in Placing /\ call[k].pc # "waiting" /\ call[k].pc # "done"
      /\ call' = [call EXCEPT ![k].pc = "lost"]
      /\ UNCHANGED <<clock, consent, dnc, audit, row, line>>
  BY DEF Lose, Goto, Placing
<1>2. /\ line[k] \in SUBSET Provider /\ row[k] \in CallRow /\ row[k] = NoRow
      /\ NoRow.status # "queued"
  BY <1>1 DEF IInv, TypeOK, Line, NoRow
<1>3. /\ c \in CallState /\ c.pc = "lost" /\ call' = [call EXCEPT ![k] = c]
      /\ c.lead = call[k].lead /\ c.phone = call[k].phone /\ c.zone = call[k].zone
      /\ c.now = call[k].now
      /\ c.listed = call[k].listed
  BY <1>1, RunningCall DEF IInv, TypeOK, CallState
<1>4. line' = [line EXCEPT ![k] = line[k]] /\ row' = [row EXCEPT ![k] = row[k]]
  BY <1>1 DEF IInv, TypeOK
<1> HIDE DEF c
<1>5. After(k, c, line[k], row[k])
  BY <1>1, <1>2, <1>3, <1>4 DEF After, Dialling
<1> QED
  BY <1>5, AfterKeeps

-----------------------------------------------------------------------------

\* IInv is inductive: no order of calls, handlers, losses and hours breaks it.
THEOREM NextIInv == IInv /\ [Next]_vars => IInv'
<1> SUFFICES ASSUME IInv, [Next]_vars PROVE IInv'
  OBVIOUS
<1>1. CASE Tick
  BY <1>1, WorldKeeps DEF Tick, IInv, TypeOK
<1>2. ASSUME NEW lead \in Lead, NEW expires \in Expiry, RecordConsent(lead, expires) PROVE IInv'
  <2>1. [lead |-> lead, expires |-> expires] \in Consent
    BY DEF Consent
  <2> QED
    BY <1>2, <2>1, WorldKeeps DEF RecordConsent, IInv, TypeOK
<1>3. ASSUME NEW phone \in Phone, AddDnc(phone) PROVE IInv'
  BY <1>3, WorldKeeps DEF AddDnc, IInv, TypeOK
<1>4. CASE UNCHANGED vars
  BY <1>4, WorldKeeps DEF vars, IInv, TypeOK
<1>5. ASSUME NEW k \in Call, RecordBlocked(k) \/ RecordQueued(k) \/ RecordFailed(k) PROVE IInv'
  <2>1. CASE RecordBlocked(k)
    <3>1. Reason[call[k].next] \in {Reason[i] : i \in 1..3}
      BY <2>1, RunningCall DEF RecordBlocked, IInv
    <3>2. "telnyx" \in Provider
      BY DEF Provider
    <3> HIDE DEF Reason
    <3> QED
      BY <2>1, <3>1, <3>2, WriteRowKeeps DEF RecordBlocked
  <2>2. CASE RecordQueued(k)
    <3>1. call[k].used \in Provider /\ call[k].used \in line[k]
      BY <2>2, RunningCall DEF RecordQueued, IInv, Line
    <3> QED
      BY <2>2, <3>1, WriteRowKeeps DEF RecordQueued
  <2>3. CASE RecordFailed(k)
    <3>1. call[k].used \in Provider
      BY <2>3, RunningCall DEF RecordFailed, IInv
    <3> QED
      BY <2>3, <3>1, WriteRowKeeps DEF RecordFailed
  <2> QED
    BY <1>5, <2>1, <2>2, <2>3
<1>6. ASSUME NEW k \in Call,
             \/ \E lead \in Lead, phone \in Phone, zone \in Timezone : Begin(k, lead, phone, zone)
             \/ Lookup(k) \/ Judge(k)
             \/ PutThrough(k) \/ Answer(k) \/ AdapterThrows(k)
             \/ Lose(k)
      PROVE  IInv'
  BY <1>6, BeginKeeps, LookupKeeps, JudgeKeeps, DiallingKeeps, LoseKeeps
<1> QED
  BY <1>1, <1>2, <1>3, <1>4, <1>5, <1>6 DEF Next, Step

\* The inductive invariant, for every behaviour.
THEOREM SpecIInv == Spec => []IInv
  BY InitIInv, NextIInv, PTL DEF Spec

\* The types of the pipeline.
THEOREM TypeCorrect == Spec => []TypeOK
<1>1. IInv => TypeOK
  BY DEF IInv
<1> QED
  BY <1>1, SpecIInv, PTL

\* An hour is in a window exactly if the quarters of that hour are.
LEMMA HourOfQuarter ==
    ASSUME NEW t \in Int, NEW a \in Int, NEW b \in Int, a <= (t \div 4) % 24, (t \div 4) % 24 < b
    PROVE  t % 96 \in 4 * a .. 4 * b - 1
<1>1. PICK q \in Int, r \in 0..3 : t = 4 * q + r /\ t \div 4 = q
  OBVIOUS
<1>2. PICK d \in Int, h \in 0..23 : q = 24 * d + h /\ q % 24 = h
  OBVIOUS
<1>3. t = 96 * d + (4 * h + r) /\ 4 * h + r \in 0..95
  BY <1>1, <1>2
<1>4. t % 96 = 4 * h + r
  BY <1>3
<1> QED
  BY <1>1, <1>2, <1>4

\* What the check of the window finds says where the local time lies.
LEMMA WindowIsLocal ==
    ASSUME NEW time \in Clock, NEW zone, Within(time, zone)
    PROVE  LocalTime(time, zone) % 96 \in 4 * WindowStart .. 4 * WindowEnd - 1
<1>1. CASE zone \in DOMAIN Offset
  <2>1. Offset[zone][time] \in Int /\ time \in Int
    BY <1>1, ZoneAssumption, ClockAssumption
  <2>2. LocalTime(time, zone) = time + Offset[zone][time]
    BY <1>1 DEF LocalTime
  <2> DEFINE t == time + Offset[zone][time]
             hour == (t \div 4) % 24
  <2>3. t \in Int /\ hour \in 0..23
    BY <2>1
  <2>4. Hour(time, zone) = (IF hour = 0 THEN 24 ELSE hour) % 24
    BY <1>1 DEF Hour, IntlHour
  <2> HIDE DEF hour
  <2>5. Hour(time, zone) = hour
    BY <2>3, <2>4
  <2> USE DEF hour
  <2> HIDE DEF t
  <2> QED
    BY <2>2, <2>3, <2>5, ZoneAssumption, HourOfQuarter DEF Within, t
<1>2. CASE zone \notin DOMAIN Offset
  <2>1. LocalTime(time, zone) = time /\ time \in Int
    BY <1>2, ClockAssumption DEF LocalTime
  <2>2. Hour(time, zone) = (time \div 4) % 24
    BY <1>2 DEF Hour, UtcHour
  <2> QED
    BY <2>1, <2>2, ZoneAssumption, HourOfQuarter DEF Within
<1> QED
  BY <1>1, <1>2

\* No telephone rings without a consent, for a number that was listed before
\* the call began, or for a call that began when the clocks of its zone, with
\* whatever offset and changes of it, were outside the calling window.
THEOREM RingsAreAllowed == Spec => []RingsWereAllowed
<1>1. IInv => RingsWereAllowed
  <2> SUFFICES ASSUME IInv, NEW k \in Call, line[k] # {}
               PROVE  /\ \E r \in consent :
                            r.lead = call[k].lead /\ (r.expires = None \/ call[k].now < r.expires)
                      /\ ~call[k].listed
                      /\ LocalTime(call[k].now, call[k].zone) % 96
                            \in 4 * WindowStart .. 4 * WindowEnd - 1
    BY DEF RingsWereAllowed
  <2>1. Evidence(k, 1) /\ Evidence(k, 2) /\ Evidence(k, 3)
    BY DEF IInv, Evident
  <2>2. /\ HasConsent(call[k].lead, call[k].now) /\ ~call[k].listed
        /\ Within(call[k].now, call[k].zone)
    BY <2>1 DEF Evidence
  <2>3. call[k].now \in Clock
    <3>1. call[k].pc # "waiting"
      BY DEF IInv, Line
    <3> QED
      BY <3>1, RunningCall DEF IInv
  <2>4. LocalTime(call[k].now, call[k].zone) % 96 \in 4 * WindowStart .. 4 * WindowEnd - 1
    BY <2>2, <2>3, WindowIsLocal
  <2>5. \E r \in consent :
            r.lead = call[k].lead /\ (r.expires = None \/ call[k].now < r.expires)
    BY <2>2 DEF HasConsent
  <2> QED
    BY <2>2, <2>4, <2>5
<1> QED
  BY <1>1, SpecIInv, PTL

\* A queued call rings with the provider its row names.
THEOREM QueuedCallsRing == Spec => []QueuedByWhoRings
<1>1. IInv => QueuedByWhoRings
  BY DEF IInv, Line, QueuedByWhoRings
<1> QED
  BY <1>1, SpecIInv, PTL

-----------------------------------------------------------------------------
(* The pipeline implements CallGate.                                       *)

\* The verdict, in the terms of the invariant.
LEMMA VerdictIs ==
    ASSUME TypeOK, NEW k \in Call
    PROVE  Verdict(k) = IF Refused(k) THEN "refused"
                        ELSE IF \A i \in 1..3 : Passed(k, i) THEN "cleared" ELSE "open"
<1>1. \A r \in audit : r.passed \in BOOLEAN
  BY DEF TypeOK, AuditRow
<1>2. Written(k, FALSE) # {} <=> Refused(k)
  BY <1>1 DEF Written, Refused
<1>3. \A i \in 1..3 : Check[i] \in Written(k, TRUE) <=> Passed(k, i)
  BY <1>1 DEF Written, Passed
<1> QED
  BY <1>2, <1>3 DEF Verdict

\* A step without a new row leaves every verdict as it is.
LEMMA SameVerdicts ==
    ASSUME UNCHANGED audit PROVE \A k \in Call : Verdict(k)' = Verdict(k)
  BY DEF Verdict, Written

\* Only the call that writes a row can change its verdict.
LEMMA JudgeDecides ==
    ASSUME IInv, IInv', NEW k \in Call, Judge(k)
    PROVE  /\ \A j \in Call \ {k} : Verdict(j)' = Verdict(j)
           /\ Verdict(k) = "open"
           /\ Verdict(k)' \in {"open", "cleared", "refused"}
<1>1. audit' = audit \cup {NewRow(k)} /\ NewRow(k).by = k
  BY RowWritten DEF NewRow
<1>2. ASSUME NEW j \in Call \ {k} PROVE Verdict(j)' = Verdict(j)
  <2>1. Written(j, TRUE)' = Written(j, TRUE) /\ Written(j, FALSE)' = Written(j, FALSE)
    BY <1>1 DEF Written
  <2> QED
    BY <2>1 DEF Verdict
<1>3. Verdict(k) = "open"
  <2>1. ~Refused(k) /\ ~Passed(k, call[k].next) /\ call[k].next \in 1..3
    BY RowWritten
  <2> QED
    BY <2>1, VerdictIs DEF IInv
<1>4. Verdict(k)' \in {"open", "cleared", "refused"}
  BY DEF Verdict
<1> QED
  BY <1>2, <1>3, <1>4

\* The initial states of the pipeline are initial states of the gate.
LEMMA GateInit == Init => Gate!Init
<1> SUFFICES ASSUME Init PROVE Gate!Init
  OBVIOUS
<1>1. \A k \in Call : Verdict(k) = "open"
  <2> SUFFICES ASSUME NEW k \in Call PROVE Verdict(k) = "open"
    OBVIOUS
  <2>1. Written(k, FALSE) = {} /\ Written(k, TRUE) = {}
    BY DEF Init, Written
  <2>2. ~\A i \in 1..3 : Check[i] \in Written(k, TRUE)
    <3>1. 1 \in 1..3
      OBVIOUS
    <3>2. Check[1] \notin Written(k, TRUE)
      BY <2>1
    <3> QED
      BY <3>1, <3>2, Zenon
  <2> QED
    BY <2>1, <2>2 DEF Verdict
<1>2. \A k \in Call : row[k].status = "none"
  BY DEF Init, NoRow
<1> QED
  BY <1>1, <1>2 DEF Init, Gate!Init

\* A step that writes neither a check nor a row, and at which nothing rings,
\* is no step of the gate.
LEMMA GateStutters ==
    ASSUME UNCHANGED <<audit, row, line>> PROVE UNCHANGED Gate!vars
  BY SameVerdicts DEF Gate!vars

\* Every step of the pipeline is a step of the gate, or none.
LEMMA GateStep == IInv /\ IInv' /\ [Next]_vars => [Gate!Next]_(Gate!vars)
<1> SUFFICES ASSUME IInv, IInv', [Next]_vars PROVE Gate!Next \/ UNCHANGED Gate!vars
  OBVIOUS
<1>1. ASSUME \/ UNCHANGED vars
             \/ Tick
             \/ \E lead \in Lead, expires \in Expiry : RecordConsent(lead, expires)
             \/ \E phone \in Phone : AddDnc(phone)
             \/ \E k \in Call :
                    \/ \E lead \in Lead, phone \in Phone, zone \in Timezone : Begin(k, lead, phone, zone)
                    \/ Lookup(k) \/ Answer(k) \/ AdapterThrows(k) \/ Lose(k)
      PROVE  UNCHANGED Gate!vars
  <2>1. UNCHANGED <<audit, row, line>>
    BY <1>1 DEF vars, Tick, RecordConsent, AddDnc, Begin, Lookup, Answer, AdapterThrows, Lose
  <2> QED
    BY <2>1, GateStutters
<1>2. ASSUME NEW k \in Call, Judge(k) PROVE Gate!Next \/ UNCHANGED Gate!vars
  <2>1. UNCHANGED <<row, line>>
    BY <1>2 DEF Judge
  <2>2. CASE Verdict(k)' = "open"
    <3>1. \A j \in Call : Verdict(j)' = Verdict(j)
      BY <1>2, <2>2, JudgeDecides
    <3> QED
      BY <2>1, <3>1 DEF Gate!vars
  <2>3. CASE Verdict(k)' \in {"cleared", "refused"}
    <3>1. [j \in Call |-> Verdict(j)]' = [[j \in Call |-> Verdict(j)] EXCEPT ![k] = Verdict(k)']
      BY <1>2, JudgeDecides
    <3>2. Gate!Decide(k)
      BY <1>2, <2>1, <2>3, <3>1, JudgeDecides DEF Gate!Decide
    <3> QED
      BY <3>2 DEF Gate!Next
  <2> QED
    BY <1>2, <2>2, <2>3, JudgeDecides
<1>3. ASSUME NEW k \in Call, PassedAll(k) PROVE Verdict(k) = "cleared"
  BY <1>3, VerdictIs DEF IInv, PassedAll
<1>4. ASSUME NEW k \in Call, PutThrough(k) PROVE Gate!Next
  <2>1. call[k].pc \in Dialling /\ call[k].pc # "done" /\ call[k].pc \in Provider \ line[k]
        /\ UNCHANGED <<audit, row>> /\ line' = [line EXCEPT ![k] = @ \cup {call[k].pc}]
    BY <1>4 DEF PutThrough, Dialling, Provider
  <2>2. Verdict(k) = "cleared"
    BY <1>3, <2>1 DEF IInv, Trail
  <2>3. row[k].status = "none"
    BY <2>1 DEF IInv, Line, NoRow
  <2>4. Gate!Ring(k)
    BY <2>1, <2>2, <2>3, SameVerdicts DEF Gate!Ring
  <2> QED
    BY <2>4 DEF Gate!Next
<1>5. ASSUME NEW k \in Call, NEW status, NEW provider, NEW reason,
             WriteRow(k, status, provider, reason), call[k].pc # "done",
             \/ Verdict(k) = "refused" /\ status = "cancelled"
             \/ Verdict(k) = "cleared" /\ status = "failed"
             \/ Verdict(k) = "cleared" /\ line[k] # {} /\ status = "queued"
      PROVE  Gate!Next
  <2>1. row[k].status = "none"
    BY <1>5 DEF IInv, Line, NoRow
  <2>2. UNCHANGED <<audit, line>>
        /\ row' = [row EXCEPT ![k] = [status |-> status, provider |-> provider, reason |-> reason]]
    BY <1>5 DEF WriteRow
  <2>3. [j \in Call |-> row[j].status]' = [[j \in Call |-> row[j].status] EXCEPT ![k] = status]
    BY <2>2 DEF IInv, TypeOK
  <2>4. Gate!Record(k)
    BY <1>5, <2>1, <2>2, <2>3, SameVerdicts DEF Gate!Record
  <2> QED
    BY <2>4 DEF Gate!Next
<1>6. ASSUME NEW k \in Call, RecordBlocked(k) PROVE Gate!Next
  <2>1. Verdict(k) = "refused"
    BY <1>6, VerdictIs DEF IInv, Trail, RecordBlocked
  <2> QED
    BY <1>5, <1>6, <2>1 DEF RecordBlocked
<1>7. ASSUME NEW k \in Call, RecordQueued(k) PROVE Gate!Next
  <2>1. Verdict(k) = "cleared" /\ line[k] # {}
    BY <1>3, <1>7 DEF IInv, Trail, Line, RecordQueued, Dialling
  <2> QED
    BY <1>5, <1>7, <2>1 DEF RecordQueued
<1>8. ASSUME NEW k \in Call, RecordFailed(k) PROVE Gate!Next
  <2>1. Verdict(k) = "cleared"
    BY <1>3, <1>8 DEF IInv, Trail, RecordFailed, Dialling
  <2> QED
    BY <1>5, <1>8, <2>1 DEF RecordFailed
<1> QED
  BY <1>1, <1>2, <1>4, <1>6, <1>7, <1>8 DEF Next, Step

\* placeCall() and the compliance checks implement the gate: what rings, what
\* is written down and what the audit trail says of it never disagree.
THEOREM PipelineImplementsGate == Spec => ImplementsGate
  BY GateInit, GateStep, SpecIInv, PTL DEF Spec, ImplementsGate, Gate!Spec

-----------------------------------------------------------------------------
(* The default disclosure of a jurisdiction and language.                  *)

\* What a handler of a disclosure relies on when it goes on: the row of an
\* update is there, the key it clears has the parts that the request gives,
\* and, as long as it is not late, nobody has become a default there since.
HandlerOK(r) ==
    LET h == req[r] IN
    h.pc # "idle" =>
        /\ h.key \in Key
        /\ \A part \in Part : h.to[part] # Null => h.key[part] = h.to[part]
        /\ h.pc # "write" => h.default = TRUE
        /\ h.pc = "insert" => h.row = Null
        /\ h.pc = "write" => h.row # Null
        /\ h.row # Null => disclosure[h.row] # NoDisclosure
        /\ h.pc # "clear" /\ h.default = TRUE /\ ~h.late => DefaultsOf(h.key) \subseteq {h.row}

\* The inductive invariant of Disclosures.
DisclosureIInv ==
    /\ DisclosureTypeOK
    /\ \A r \in Request : HandlerOK(r)
    /\ TwoDefaultsAreLate

\* A row that is there has a key; one that is not is no default.
LEMMA DisclosureFields ==
  ASSUME DisclosureTypeOK, NEW d \in Disclosure
  PROVE  /\ disclosure[d].default \in BOOLEAN
         /\ disclosure[d] # NoDisclosure =>
              /\ disclosure[d].key \in Key
              /\ disclosure[d] \in [key : Key, default : BOOLEAN]
         /\ disclosure[d] = NoDisclosure => ~disclosure[d].default /\ how[d] = "none"
         /\ disclosure[d].default <=> how[d] # "none"
  <1>1. disclosure[d] \in DisclosureRow /\ (disclosure[d].default <=> how[d] # "none")
    BY DEF DisclosureTypeOK
  <1>2. CASE disclosure[d] = NoDisclosure
    <2>1. disclosure[d].default = FALSE
      BY <1>2 DEF NoDisclosure
    <2>. QED  BY <1>1, <1>2, <2>1
  <1>3. CASE disclosure[d] \in [key : Key, default : BOOLEAN]
    <2>1. /\ disclosure[d].key \in Key /\ disclosure[d].default \in BOOLEAN
          /\ disclosure[d] = [key |-> disclosure[d].key, default |-> disclosure[d].default]
      BY <1>3
    <2>2. disclosure[d] # NoDisclosure
      BY <2>1, NullAssumption DEF NoDisclosure
    <2>. QED  BY <1>1, <1>3, <2>1, <2>2
  <1>. QED  BY <1>1, <1>2, <1>3 DEF DisclosureRow

\* A handler's fields, one by one.
LEMMA HandlerFields ==
  ASSUME DisclosureTypeOK, NEW r \in Request
  PROVE  /\ req[r].pc \in {"idle", "clear", "insert", "write"}
         /\ req[r].row \in Disclosure \cup {Null}
         /\ req[r].key \in Key \cup {Null}
         /\ req[r].to \in Change
         /\ req[r].default \in {TRUE, FALSE, Null}
         /\ req[r].late \in BOOLEAN
  BY DEF DisclosureTypeOK, Handler

\* A request gives parts of a key, and what it leaves is a key.
LEMMA NoChangeIsChange == NoChange \in Change
  BY DEF NoChange, Change

LEMMA WithIsKey ==
  ASSUME NEW k \in Key, NEW to \in Change
  PROVE  With(k, to) \in Key
  BY DEF With, Part, Key, Change

\* A key that has all parts that are given, and the others of k.
LEMMA WithIs ==
  ASSUME NEW k \in Key, NEW to \in Change, NEW key \in Key,
         \A part \in Part : key[part] = IF to[part] = Null THEN k[part] ELSE to[part]
  PROVE  With(k, to) = key
  <1>1. With(k, to) \in Key
    BY WithIsKey
  <1>2. \A part \in Part : With(k, to)[part] = key[part]
    BY DEF With
  <1>. HIDE DEF With
  <1>. QED  BY <1>1, <1>2 DEF Key, Part

LEMMA IdleHandler == Idle \in Handler /\ Idle.pc = "idle"
  BY NoChangeIsChange DEF Idle, Handler

\* A handler that starts has cleared nothing yet, so that it writes no row.
LEMMA StartKeeps ==
  ASSUME DisclosureIInv, NEW r \in Request, NEW h \in Handler, Start(r, h),
         UNCHANGED <<disclosure, how>>,
         h.key \in Key, h.pc # "idle", h.pc # "insert",
         \A part \in Part : h.to[part] # Null => h.key[part] = h.to[part],
         h.pc = "clear" => h.default = TRUE,
         h.pc = "write" => h.row # Null /\ h.default # TRUE,
         h.row # Null => disclosure[h.row] # NoDisclosure
  PROVE  DisclosureIInv'
  <1>1. DisclosureTypeOK'
    BY DEF DisclosureIInv, DisclosureTypeOK, Start
  <1>2. ASSUME NEW q \in Request PROVE HandlerOK(q)'
    <2>1. CASE q = r
      <3>1. req'[q] = h
        BY <2>1 DEF Start, DisclosureIInv, DisclosureTypeOK
      <3>2. h.pc # "clear" => h.default # TRUE
        BY DEF Handler
      <3>. QED  BY <3>1, <3>2 DEF HandlerOK, Handler
    <2>2. CASE q # r
      <3>1. HandlerOK(q) /\ req'[q] = req[q]
        BY <2>2 DEF Start, DisclosureIInv, DisclosureTypeOK
      <3>. QED  BY <3>1 DEF HandlerOK, DefaultsOf
    <2>. QED  BY <2>1, <2>2
  <1>3. TwoDefaultsAreLate'
    BY DEF DisclosureIInv, TwoDefaultsAreLate, DefaultsOf
  <1>. QED  BY <1>1, <1>2, <1>3 DEF DisclosureIInv

LEMMA FindKeeps ==
  ASSUME DisclosureIInv, NEW r \in Request,
         \/ \E k \in Key : CreateBegin(r, k)
         \/ \E d \in Disclosure, to \in Change, default \in {TRUE, FALSE, Null} :
              UpdateFind(r, d, to, default)
  PROVE  DisclosureIInv'
  <1>1. ASSUME NEW k \in Key, CreateBegin(r, k) PROVE DisclosureIInv'
    <2>. DEFINE h == [pc |-> "clear", row |-> Null, key |-> k, to |-> NoChange,
                      default |-> TRUE, late |-> FALSE]
    <2>2. h \in Handler
      BY NoChangeIsChange DEF Handler
    <2>3. Start(r, h) /\ UNCHANGED <<disclosure, how>>
      BY <1>1 DEF CreateBegin
    <2>4. /\ h.key = k /\ h.pc = "clear" /\ h.row = Null /\ h.default = TRUE
          /\ \A part \in Part : h.to[part] = Null
      BY DEF NoChange, Part
    <2>. HIDE DEF h
    <2>. QED  BY <2>2, <2>3, <2>4, StartKeeps
  <1>2. ASSUME NEW d \in Disclosure, NEW to \in Change,
               NEW default \in {TRUE, FALSE, Null}, UpdateFind(r, d, to, default)
        PROVE  DisclosureIInv'
    <2>. DEFINE h == [pc |-> IF default = TRUE THEN "clear" ELSE "write", row |-> d,
                      key |-> KeyAfter(d, to), to |-> to, default |-> default, late |-> FALSE]
    <2>1. KeyAfter(d, to) \in Key
      BY <1>2, DisclosureFields, WithIsKey DEF UpdateFind, KeyAfter, DisclosureIInv
    <2>2. h \in Handler
      BY <2>1 DEF Handler
    <2>3. Start(r, h) /\ UNCHANGED <<disclosure, how>> /\ disclosure[d] # NoDisclosure
      BY <1>2 DEF UpdateFind
    <2>4. /\ h.key = KeyAfter(d, to) /\ h.to = to /\ h.row = d /\ h.default = default
          /\ h.pc = IF default = TRUE THEN "clear" ELSE "write"
      OBVIOUS
    <2>5. /\ h.pc # "idle" /\ h.pc # "insert"
          /\ h.pc = "clear" => h.default = TRUE
          /\ h.pc = "write" => h.default # TRUE
      BY <2>4
    <2>6. h.row # Null /\ \A part \in Part : h.to[part] # Null => h.key[part] = h.to[part]
      BY <2>4, NullAssumption DEF KeyAfter, With
    <2>. HIDE DEF h
    <2>. QED  BY <2>1, <2>2, <2>3, <2>4, <2>5, <2>6, StartKeeps
  <1>. QED  BY <1>1, <1>2

\* A handler that ends, and perhaps makes others late, is none of the others'.
LEMMA OthersWait ==
  ASSUME DisclosureTypeOK, NEW r \in Request, NEW k,
         Finish(r) \/ FinishDefault(r, k)
  PROVE  /\ req' \in [Request -> Handler]
         /\ req'[r] = Idle
         /\ \A q \in Request \ {r} :
              \/ req'[q] = req[q]
              \/ /\ FinishDefault(r, k)
                 /\ req[q].pc \in {"insert", "write"} /\ req[q].key = k
                 /\ req'[q] = [req[q] EXCEPT !.late = TRUE]
         /\ FinishDefault(r, k) =>
              \A q \in Request \ {r} :
                 req[q].pc \in {"insert", "write"} /\ req[q].key = k => req'[q].late
  <1>. USE IdleHandler DEF DisclosureTypeOK
  <1>1. ASSUME NEW q \in Request
        PROVE  /\ [req[q] EXCEPT !.late = TRUE] \in Handler
               /\ [req[q] EXCEPT !.late = TRUE].late
    BY DEF Handler
  <1>2. CASE Finish(r) /\ ~FinishDefault(r, k)
    BY <1>2 DEF Finish
  <1>3. CASE FinishDefault(r, k)
    BY <1>1, <1>3 DEF FinishDefault
  <1>. QED  BY <1>2, <1>3

\* What another handler relies on is still so when no row went, and no row
\* other than its own became a default of its key unless it is late.
LEMMA OthersKeep ==
  ASSUME DisclosureTypeOK, NEW q \in Request, HandlerOK(q),
         \/ req'[q] = req[q]
         \/ req[q].pc # "clear" /\ req'[q] = [req[q] EXCEPT !.late = TRUE],
         \A d \in Disclosure : disclosure[d] # NoDisclosure => disclosure'[d] # NoDisclosure,
         req[q].pc \in {"insert", "write"} /\ ~req'[q].late =>
            DefaultsOf(req[q].key)' \subseteq DefaultsOf(req[q].key)
  PROVE  HandlerOK(q)'
  <1>1. req[q] \in Handler
    BY DEF DisclosureTypeOK
  <1>2. CASE req'[q] = req[q]
    <2>1. ASSUME req[q].pc # "idle", req[q].pc # "clear" , ~req[q].late, req[q].default = TRUE
          PROVE  DefaultsOf(req[q].key)' \subseteq {req[q].row}
      BY <1>1, <1>2, <2>1 DEF HandlerOK, Handler
    <2>2. req[q].row # Null => req[q].row \in Disclosure
      BY <1>1 DEF Handler
    <2>. QED  BY <1>2, <2>1, <2>2 DEF HandlerOK, DefaultsOf
  <1>3. CASE req[q].pc # "clear" /\ req'[q] = [req[q] EXCEPT !.late = TRUE]
    <2>1. /\ req'[q].pc = req[q].pc /\ req'[q].key = req[q].key /\ req'[q].to = req[q].to
          /\ req'[q].row = req[q].row /\ req'[q].default = req[q].default /\ req'[q].late
      BY <1>1, <1>3 DEF Handler
    <2>2. req[q].row # Null => req[q].row \in Disclosure
      BY <1>1 DEF Handler
    <2>. QED  BY <2>1, <2>2 DEF HandlerOK
  <1>. QED  BY <1>2, <1>3

\* A plain row is no default.
LEMMA CreatePlainKeeps ==
  ASSUME DisclosureIInv, NEW d \in Disclosure, NEW k \in Key, CreatePlain(d, k)
  PROVE  DisclosureIInv'
  <1>. DEFINE new == [key |-> k, default |-> FALSE]
  <1>0. new \in DisclosureRow /\ new.default = FALSE /\ new # NoDisclosure
    BY NullAssumption DEF DisclosureRow, NoDisclosure
  <1>1. /\ disclosure' = [disclosure EXCEPT ![d] = new]
        /\ disclosure[d] = NoDisclosure
        /\ UNCHANGED <<req, how>>
    BY DEF CreatePlain
  <1>. HIDE DEF new
  <1>. USE DEF DisclosureIInv
  <1>2. DisclosureTypeOK'
    BY <1>0, <1>1, DisclosureFields DEF DisclosureTypeOK
  <1>3. /\ disclosure'[d] = new
        /\ \A c \in Disclosure \ {d} : disclosure'[c] = disclosure[c]
    BY <1>1 DEF DisclosureTypeOK
  <1>4. \A j : DefaultsOf(j)' \subseteq DefaultsOf(j)
    BY <1>0, <1>3 DEF DefaultsOf
  <1>5. ASSUME NEW q \in Request PROVE HandlerOK(q)'
    BY <1>0, <1>1, <1>3, <1>4, OthersKeep
  <1>6. TwoDefaultsAreLate'
    BY <1>1, <1>4 DEF TwoDefaultsAreLate
  <1>. QED  BY <1>2, <1>5, <1>6

\* Clearing takes no row away and changes no key.
LEMMA ClearedRows ==
  ASSUME DisclosureTypeOK, NEW r \in Request, Clear(r), NEW d \in Disclosure
  PROVE  LET gone == Cleared(req[r].key, req[r].row) IN
         /\ disclosure'[d] \in DisclosureRow
         /\ disclosure'[d] = NoDisclosure <=> disclosure[d] = NoDisclosure
         /\ disclosure'[d].key = disclosure[d].key
         /\ d \in gone => ~disclosure'[d].default /\ how'[d] = "none"
         /\ d \notin gone => disclosure'[d] = disclosure[d] /\ how'[d] = how[d]
  <1>. DEFINE gone == Cleared(req[r].key, req[r].row)
  <1>1. /\ disclosure' = [c \in Disclosure |->
             IF c \in gone THEN [disclosure[c] EXCEPT !.default = FALSE] ELSE disclosure[c]]
        /\ how' = [c \in Disclosure |-> IF c \in gone THEN "none" ELSE how[c]]
    BY DEF Clear
  <1>2. CASE d \notin gone
    BY <1>1, <1>2 DEF DisclosureTypeOK
  <1>3. CASE d \in gone
    <2>1. disclosure[d].default /\ disclosure[d] # NoDisclosure
      BY <1>3, DisclosureFields DEF Cleared, DefaultsOf
    <2>2. disclosure[d].key \in Key /\ disclosure[d] \in [key : Key, default : BOOLEAN]
      BY <2>1, DisclosureFields
    <2>3. disclosure'[d] = [disclosure[d] EXCEPT !.default = FALSE] /\ how'[d] = "none"
      BY <1>1, <1>3
    <2>. HIDE DEF gone
    <2>4. /\ disclosure'[d] \in [key : Key, default : BOOLEAN]
          /\ disclosure'[d].key = disclosure[d].key
          /\ ~disclosure'[d].default
      BY <2>2, <2>3
    <2>5. disclosure'[d] # NoDisclosure
      BY <2>2, <2>4, NullAssumption DEF NoDisclosure
    <2>. QED  BY <1>3, <2>1, <2>3, <2>4, <2>5 DEF DisclosureRow, gone
  <1>. QED  BY <1>2, <1>3

\* Clearing the old default leaves none but the row itself.
LEMMA ClearKeeps ==
  ASSUME DisclosureIInv, NEW r \in Request, Clear(r)
  PROVE  DisclosureIInv'
  <1>. USE DEF DisclosureIInv
  <1>. DEFINE gone == Cleared(req[r].key, req[r].row)
              pc == IF req[r].row = Null THEN "insert" ELSE "write"
  <1>1. /\ req[r].pc = "clear"
        /\ disclosure' = [d \in Disclosure |->
             IF d \in gone THEN [disclosure[d] EXCEPT !.default = FALSE] ELSE disclosure[d]]
        /\ how' = [d \in Disclosure |-> IF d \in gone THEN "none" ELSE how[d]]
        /\ req' = [req EXCEPT ![r].pc = pc]
    BY DEF Clear
  <1>2. ASSUME NEW d \in Disclosure
        PROVE  /\ disclosure'[d] \in DisclosureRow
               /\ disclosure'[d] = NoDisclosure <=> disclosure[d] = NoDisclosure
               /\ disclosure'[d].key = disclosure[d].key
               /\ d \in gone => ~disclosure'[d].default /\ how'[d] = "none"
               /\ d \notin gone => disclosure'[d] = disclosure[d] /\ how'[d] = how[d]
    BY ClearedRows
  <1>3. /\ req[r] \in Handler
        /\ req'[r] = [req[r] EXCEPT !.pc = pc]
        /\ \A q \in Request \ {r} : req'[q] = req[q]
    BY <1>1 DEF DisclosureTypeOK
  <1>4. /\ req'[r] \in Handler /\ req'[r].pc = pc /\ req'[r].key = req[r].key
        /\ req'[r].row = req[r].row /\ req'[r].to = req[r].to
        /\ req'[r].default = req[r].default /\ req'[r].late = req[r].late
    BY <1>3 DEF Handler
  <1>5. \A j : DefaultsOf(j)' = DefaultsOf(j) \ gone
    BY <1>2 DEF DefaultsOf
  <1>6. DefaultsOf(req[r].key)' \subseteq {req[r].row}
    BY <1>4, <1>5 DEF Cleared
  <1>7. DisclosureTypeOK'
    <2>1. req' \in [Request -> Handler]
      BY <1>1, <1>3, <1>4 DEF DisclosureTypeOK
    <2>2. \A d \in Disclosure : disclosure'[d].default <=> how'[d] # "none"
      BY <1>2 DEF DisclosureTypeOK
    <2>. HIDE DEF gone
    <2>3. disclosure' \in [Disclosure -> DisclosureRow]
      BY <1>1, <1>2
    <2>4. how' \in [Disclosure -> {"none", "cleared", "late", "moved"}]
      BY <1>1 DEF DisclosureTypeOK
    <2>. QED  BY <2>1, <2>2, <2>3, <2>4 DEF DisclosureTypeOK
  <1>8. HandlerOK(r)'
    <2>1. HandlerOK(r)
      OBVIOUS
    <2>2. req[r].row # Null => req[r].row \in Disclosure
      BY <1>3 DEF Handler
    <2>. HIDE DEF gone
    <2>. QED  BY <1>1, <1>2, <1>4, <1>6, <2>1, <2>2 DEF HandlerOK
  <1>9. ASSUME NEW q \in Request \ {r} PROVE HandlerOK(q)'
    BY <1>2, <1>3, <1>5, OthersKeep
  <1>10. TwoDefaultsAreLate'
    BY <1>2, <1>5 DEF TwoDefaultsAreLate, DefaultsOf
  <1>. QED  BY <1>7, <1>8, <1>9, <1>10

\* A new default of k is the only one unless it is late.
LEMMA NewDefaultKeeps ==
  ASSUME DisclosureIInv, NEW r \in Request, NEW d \in Disclosure, NEW k \in Key,
         NEW new \in DisclosureRow, NEW h \in {"cleared", "late", "moved"},
         new.key = k, new.default = TRUE,
         disclosure' = [disclosure EXCEPT ![d] = new],
         how' = [how EXCEPT ![d] = h],
         FinishDefault(r, k),
         h = "cleared" => DefaultsOf(k) \subseteq {d}
  PROVE  DisclosureIInv'
  <1>. USE DEF DisclosureIInv
  <1>1. /\ disclosure'[d] = new /\ how'[d] = h
        /\ \A c \in Disclosure \ {d} : disclosure'[c] = disclosure[c] /\ how'[c] = how[c]
    BY DEF DisclosureTypeOK
  <1>2. req' \in [Request -> Handler] /\ req'[r] = Idle
    BY OthersWait
  <1>3. DisclosureTypeOK'
    <2>1. \A c \in Disclosure : disclosure'[c].default <=> how'[c] # "none"
      BY <1>1, DisclosureFields
    <2>. QED  BY <1>2, <2>1 DEF DisclosureTypeOK
  <1>4. new # NoDisclosure
    BY NullAssumption DEF NoDisclosure
  <1>5. \A j : j # k => DefaultsOf(j)' \subseteq DefaultsOf(j)
    BY <1>1 DEF DefaultsOf
  <1>6. DefaultsOf(k)' \subseteq DefaultsOf(k) \cup {d}
    BY <1>1 DEF DefaultsOf
  <1>7. ASSUME NEW q \in Request PROVE HandlerOK(q)'
    <2>1. CASE q = r
      BY <1>2, <2>1, IdleHandler DEF HandlerOK
    <2>2. CASE q # r
      <3>1. \/ req'[q] = req[q]
            \/ /\ req[q].pc \in {"insert", "write"} /\ req[q].key = k
               /\ req'[q] = [req[q] EXCEPT !.late = TRUE]
        BY <2>2, OthersWait
      <3>2. req[q].pc \in {"insert", "write"} /\ req[q].key = k => req'[q].late
        BY <2>2, OthersWait
      <3>3. req[q].pc \in {"insert", "write"} /\ ~req'[q].late => req'[q] = req[q] /\ req[q].key # k
        BY <3>1, <3>2
      <3>4. req[q].pc \in {"insert", "write"} /\ ~req'[q].late
               => DefaultsOf(req[q].key)' \subseteq DefaultsOf(req[q].key)
        BY <3>3, <1>5
      <3>5. \A c \in Disclosure : disclosure[c] # NoDisclosure => disclosure'[c] # NoDisclosure
        BY <1>1, <1>4
      <3>. QED  BY <3>1, <3>4, <3>5, OthersKeep
    <2>. QED  BY <2>1, <2>2
  <1>8. TwoDefaultsAreLate'
    <2>. SUFFICES ASSUME NEW j \in Key, NEW b \in DefaultsOf(j)', NEW c \in DefaultsOf(j)', b # c
                  PROVE  {how'[b], how'[c]} \cap {"late", "moved"} # {}
      BY DEF TwoDefaultsAreLate
    <2>1. b \in Disclosure /\ c \in Disclosure
      BY DEF DefaultsOf
    <2>2. CASE b # d /\ c # d
      <3>1. b \in DefaultsOf(j) /\ c \in DefaultsOf(j)
        BY <1>1, <2>1, <2>2 DEF DefaultsOf
      <3>. QED  BY <1>1, <2>1, <2>2, <3>1 DEF TwoDefaultsAreLate
    <2>3. CASE (b = d \/ c = d) /\ h = "cleared"
      <3>1. j = k
        BY <1>1, <2>1, <2>3 DEF DefaultsOf
      <3>. QED  BY <1>6, <2>3, <3>1
    <2>4. CASE (b = d \/ c = d) /\ h # "cleared"
      BY <1>1, <2>4
    <2>. QED  BY <2>2, <2>3, <2>4
  <1>. QED  BY <1>3, <1>7, <1>8

LEMMA InsertKeeps ==
  ASSUME DisclosureIInv, NEW r \in Request, NEW d \in Disclosure, Insert(r, d)
  PROVE  DisclosureIInv'
  <1>. DEFINE k == req[r].key
              new == [key |-> k, default |-> TRUE]
              h == IF req[r].late THEN "late" ELSE "cleared"
  <1>1. HandlerOK(r) /\ req[r].pc = "insert" /\ req[r].late \in BOOLEAN
    BY HandlerFields DEF DisclosureIInv, Insert
  <1>2. k \in Key /\ req[r].row = Null /\ req[r].default = TRUE
    BY <1>1 DEF HandlerOK
  <1>3. ~req[r].late => DefaultsOf(k) = {}
    BY <1>1, <1>2, NullAssumption DEF HandlerOK, DefaultsOf
  <1>4. new \in DisclosureRow /\ new.key = k /\ new.default = TRUE
    BY <1>2 DEF DisclosureRow
  <1>5. /\ disclosure' = [disclosure EXCEPT ![d] = new]
        /\ how' = [how EXCEPT ![d] = h]
        /\ FinishDefault(r, k)
    BY DEF Insert
  <1>6. h \in {"cleared", "late", "moved"} /\ (h = "cleared" => DefaultsOf(k) \subseteq {d})
    BY <1>3
  <1>. HIDE DEF new, h, k
  <1>. QED  BY <1>2, <1>4, <1>5, <1>6, NewDefaultKeeps

\* What an update is about to write, and what its handler knows.
LEMMA UpdateFacts ==
  ASSUME DisclosureIInv, NEW r \in Request, req[r].pc = "write"
  PROVE  LET d == req[r].row
             new == Updated(r)
             h == HowUpdated(r)
         IN  /\ d \in Disclosure
             /\ disclosure[d] # NoDisclosure
             /\ new \in [key : Key, default : BOOLEAN]
             /\ new # NoDisclosure
             /\ h \in {"none", "cleared", "late", "moved"}
             /\ new.default <=> h # "none"
             /\ \/ h = "cleared" /\ DefaultsOf(new.key) \subseteq {d}
                \/ h \in {"none", "late", "moved"}
                \/ h = how[d] /\ new = disclosure[d]
  <1>. DEFINE d == req[r].row
              new == Updated(r)
              h == HowUpdated(r)
  <1>1. /\ d \in Disclosure /\ disclosure[d] # NoDisclosure /\ req[r].key \in Key
        /\ req[r].to \in Change
        /\ \A part \in Part : req[r].to[part] # Null => req[r].key[part] = req[r].to[part]
        /\ req[r].default \in {TRUE, FALSE, Null} /\ req[r].late \in BOOLEAN
        /\ req[r].default = TRUE /\ ~req[r].late => DefaultsOf(req[r].key) \subseteq {d}
    BY HandlerFields DEF DisclosureIInv, HandlerOK
  <1>2. /\ disclosure[d].key \in Key /\ disclosure[d].default \in BOOLEAN
        /\ disclosure[d] \in [key : Key, default : BOOLEAN]
        /\ disclosure[d].default <=> how[d] # "none"
        /\ how[d] \in {"none", "cleared", "late", "moved"}
    BY <1>1, DisclosureFields DEF DisclosureIInv, DisclosureTypeOK
  <1>3. /\ new.key = With(disclosure[d].key, req[r].to)
        /\ new.default = IF req[r].default = Null THEN disclosure[d].default ELSE req[r].default
        /\ new = [key |-> new.key, default |-> new.default]
    BY DEF Updated
  <1>4. new.key \in Key
    BY <1>1, <1>2, <1>3, WithIsKey
  <1>5. new.default \in BOOLEAN
    BY <1>1, <1>2, <1>3
  <1>6. new \in [key : Key, default : BOOLEAN]
    BY <1>3, <1>4, <1>5
  <1>7. new # NoDisclosure
    BY <1>4, NullAssumption DEF NoDisclosure
  <1>8. h = IF ~new.default THEN "none"
            ELSE IF req[r].default = TRUE
            THEN IF req[r].late \/ Rekeyed(r) THEN "late" ELSE "cleared"
            ELSE IF new.key # disclosure[d].key THEN "moved" ELSE how[d]
    BY DEF HowUpdated
  <1>. HIDE DEF new, h, d
  <1>9. CASE ~new.default
    BY <1>1, <1>2, <1>6, <1>7, <1>8, <1>9 DEF new, h, d
  <1>10. CASE new.default /\ req[r].default = TRUE
    <2>1. \/ h = "late"
          \/ h = "cleared" /\ ~req[r].late /\ new.key = req[r].key
      <3>1. ~Rekeyed(r) => new.key = req[r].key
        BY <1>1, <1>2, <1>3, WithIs DEF Rekeyed, d
      <3>. QED  BY <1>8, <1>10, <3>1
    <2>. QED  BY <1>1, <1>6, <1>7, <1>10, <2>1 DEF new, h, d
  <1>11. CASE new.default /\ req[r].default # TRUE
    <2>1. req[r].default = Null /\ new.default = disclosure[d].default
      BY <1>1, <1>3, <1>5, <1>11
    <2>2. \/ h = "moved"
          \/ h = how[d] /\ new.key = disclosure[d].key
      BY <1>8, <1>11
    <2>3. new.key = disclosure[d].key => new = disclosure[d]
      BY <1>2, <1>6, <2>1
    <2>. QED  BY <1>1, <1>2, <1>6, <1>7, <1>11, <2>1, <2>2, <2>3 DEF new, h, d
  <1>. QED  BY <1>9, <1>10, <1>11

\* A row that is no default any more, or stays as it is, gains no rival.
LEMMA NoNewDefaultKeeps ==
  ASSUME DisclosureIInv, NEW r \in Request, NEW d \in Disclosure,
         NEW new \in DisclosureRow, NEW h \in {"none", "cleared", "late", "moved"},
         ~new.default \/ new = disclosure[d], new # NoDisclosure,
         new.default <=> h # "none",
         disclosure' = [disclosure EXCEPT ![d] = new],
         how' = [how EXCEPT ![d] = h],
         Finish(r),
         \/ h = "cleared" /\ DefaultsOf(new.key) \subseteq {d}
         \/ h \in {"none", "late", "moved"}
         \/ h = how[d]
  PROVE  DisclosureIInv'
  <1>. USE DEF DisclosureIInv
  <1>1. /\ disclosure'[d] = new /\ how'[d] = h
        /\ \A c \in Disclosure \ {d} : disclosure'[c] = disclosure[c] /\ how'[c] = how[c]
    BY DEF DisclosureTypeOK
  <1>2. /\ req' \in [Request -> Handler] /\ req'[r] = Idle
        /\ \A q \in Request \ {r} : req'[q] = req[q]
    BY IdleHandler DEF DisclosureTypeOK, Finish
  <1>3. DisclosureTypeOK'
    <2>1. \A c \in Disclosure : disclosure'[c].default <=> how'[c] # "none"
      BY <1>1, DisclosureFields
    <2>. QED  BY <1>2, <2>1 DEF DisclosureTypeOK
  <1>4. \A j : DefaultsOf(j)' \subseteq DefaultsOf(j)
    BY <1>1 DEF DefaultsOf
  <1>5. ASSUME NEW q \in Request PROVE HandlerOK(q)'
    <2>1. CASE q = r
      BY <1>2, <2>1, IdleHandler DEF HandlerOK
    <2>2. CASE q # r
      BY <1>1, <1>2, <1>4, <2>2, OthersKeep
    <2>. QED  BY <2>1, <2>2
  <1>6. TwoDefaultsAreLate'
    <2>. SUFFICES ASSUME NEW j \in Key, NEW b \in DefaultsOf(j)', NEW c \in DefaultsOf(j)', b # c
                  PROVE  {how'[b], how'[c]} \cap {"late", "moved"} # {}
      BY DEF TwoDefaultsAreLate
    <2>1. b \in DefaultsOf(j) /\ c \in DefaultsOf(j) /\ b \in Disclosure /\ c \in Disclosure
      BY <1>4 DEF DefaultsOf
    <2>2. {how[b], how[c]} \cap {"late", "moved"} # {}
      BY <2>1 DEF TwoDefaultsAreLate
    <2>3. CASE b # d /\ c # d
      BY <1>1, <2>1, <2>2, <2>3
    <2>4. CASE b = d \/ c = d
      <3>1. h # "none" /\ j = new.key
        BY <1>1, <2>4 DEF DefaultsOf
      <3>2. ~(h = "cleared" /\ DefaultsOf(new.key) \subseteq {d})
        BY <2>1, <3>1
      <3>. QED  BY <1>1, <2>1, <2>2, <2>4, <3>1, <3>2
    <2>. QED  BY <2>3, <2>4
  <1>. QED  BY <1>3, <1>5, <1>6

LEMMA UpdateKeeps ==
  ASSUME DisclosureIInv, NEW r \in Request, Update(r)
  PROVE  DisclosureIInv'
  <1>. DEFINE d == req[r].row
              new == Updated(r)
              h == HowUpdated(r)
  <1>1. /\ d \in Disclosure /\ disclosure[d] # NoDisclosure
        /\ new \in [key : Key, default : BOOLEAN] /\ new # NoDisclosure
        /\ h \in {"none", "cleared", "late", "moved"}
        /\ new.default <=> h # "none"
        /\ \/ h = "cleared" /\ DefaultsOf(new.key) \subseteq {d}
           \/ h \in {"none", "late", "moved"}
           \/ h = how[d] /\ new = disclosure[d]
    BY UpdateFacts DEF Update
  <1>2. /\ disclosure' = [disclosure EXCEPT ![d] = new]
        /\ how' = [how EXCEPT ![d] = h]
        /\ new.default /\ new # disclosure[d] => FinishDefault(r, new.key)
        /\ ~(new.default /\ new # disclosure[d]) => Finish(r)
    BY DEF Update
  <1>. HIDE DEF d, new, h
  <1>3. new \in DisclosureRow /\ new.key \in Key /\ new.default \in BOOLEAN
    BY <1>1 DEF DisclosureRow
  <1>4. CASE new.default /\ new # disclosure[d]
    <2>1. h \in {"cleared", "late", "moved"} /\ (h = "cleared" => DefaultsOf(new.key) \subseteq {d})
      BY <1>1, <1>4
    <2>. QED  BY <1>1, <1>2, <1>3, <1>4, <2>1, NewDefaultKeeps
  <1>5. CASE ~(new.default /\ new # disclosure[d])
    <2>1. ~new.default \/ new = disclosure[d]
      BY <1>5
    <2>. QED  BY <1>1, <1>2, <1>3, <1>5, <2>1, NoNewDefaultKeeps
  <1>. QED  BY <1>4, <1>5

LEMMA AbandonKeeps ==
  ASSUME DisclosureIInv, NEW r \in Request, Abandon(r)
  PROVE  DisclosureIInv'
  <1>. USE DEF DisclosureIInv, Abandon
  <1>1. /\ req' \in [Request -> Handler] /\ req'[r] = Idle
        /\ \A q \in Request \ {r} : req'[q] = req[q]
    BY IdleHandler DEF DisclosureTypeOK, Finish
  <1>2. ASSUME NEW q \in Request PROVE HandlerOK(q)'
    <2>1. CASE q = r
      BY <1>1, <2>1, IdleHandler DEF HandlerOK
    <2>2. CASE q # r
      BY <1>1, <2>2 DEF HandlerOK, DefaultsOf
    <2>. QED  BY <2>1, <2>2
  <1>. QED  BY <1>1, <1>2 DEF DisclosureTypeOK, TwoDefaultsAreLate, DefaultsOf

LEMMA InitDisclosureIInv == DisclosureInit => DisclosureIInv
  <1>. SUFFICES ASSUME DisclosureInit PROVE DisclosureIInv
    OBVIOUS
  <1>1. \A d \in Disclosure : disclosure[d] = NoDisclosure /\ disclosure[d].default = FALSE
    BY DEF DisclosureInit, NoDisclosure
  <1>2. DisclosureTypeOK
    BY <1>1, IdleHandler DEF DisclosureInit, DisclosureTypeOK, DisclosureRow
  <1>3. \A r \in Request : HandlerOK(r)
    BY IdleHandler DEF DisclosureInit, HandlerOK
  <1>4. TwoDefaultsAreLate
    BY <1>1 DEF TwoDefaultsAreLate, DefaultsOf
  <1>. QED  BY <1>2, <1>3, <1>4 DEF DisclosureIInv

\* Every statement of createDisclosure() and updateDisclosure() keeps it.
THEOREM DisclosureNextIInv == DisclosureIInv /\ [DisclosureNext]_disclosureVars => DisclosureIInv'
  <1>. SUFFICES ASSUME DisclosureIInv, [DisclosureNext]_disclosureVars PROVE DisclosureIInv'
    OBVIOUS
  <1>1. CASE UNCHANGED disclosureVars
    BY <1>1 DEF disclosureVars, DisclosureIInv, DisclosureTypeOK, HandlerOK, TwoDefaultsAreLate,
                DefaultsOf
  <1>. QED
    BY <1>1, FindKeeps, CreatePlainKeeps, ClearKeeps, InsertKeeps, UpdateKeeps, AbandonKeeps
       DEF DisclosureNext

\* What createDisclosure() and updateDisclosure() rely on between their two
\* statements holds in every reachable state.
THEOREM DisclosureSpecIInv == DisclosureSpec => []DisclosureIInv
  BY InitDisclosureIInv, DisclosureNextIInv, PTL DEF DisclosureSpec

\* The rows and the handlers of disclosures keep their types, and a row is a
\* default exactly when its history says how it became one.
THEOREM DisclosureTypeCorrect == DisclosureSpec => []DisclosureTypeOK
  BY DisclosureSpecIInv, PTL DEF DisclosureIInv

\* However the two statements of concurrent handlers interleave, a jurisdiction
\* and language has two defaults only by one that was overtaken or moved.
THEOREM SecondDefaultIsLate == DisclosureSpec => []TwoDefaultsAreLate
  BY DisclosureSpecIInv, PTL DEF DisclosureIInv

-----------------------------------------------------------------------------

\* What holds besides when only one handler of disclosures runs at a time: it
\* is never late, and the row of an update still has the key it was found with.
OnTime ==
    /\ \A d \in Disclosure : how[d] # "late"
    /\ \A r \in Request : req[r].pc # "idle" =>
         /\ ~req[r].late
         /\ req[r].row # Null => req[r].key = With(disclosure[req[r].row].key, req[r].to)

\* Two defaults of one key, one of which an update that does not mention
\* is_default has moved there.
TwoDefaultsWereMoved ==
    \A k \in Key : \A c, d \in DefaultsOf(k) : c # d => "moved" \in {how[c], how[d]}

LEMMA OnTimeStep ==
  ASSUME \A r, q \in Request : r = q, DisclosureIInv, OnTime, [DisclosureNext]_disclosureVars
  PROVE  OnTime'
  <1>. USE DEF DisclosureIInv
  <1>1. ASSUME NEW r \in Request, req'[r] = Idle, \A d \in Disclosure : how'[d] # "late"
        PROVE  OnTime'
    BY <1>1, IdleHandler DEF OnTime
  <1>2. ASSUME NEW r \in Request, NEW k \in Key, CreateBegin(r, k) PROVE OnTime'
    BY <1>2 DEF CreateBegin, Start, OnTime, DisclosureTypeOK
  <1>3. ASSUME NEW r \in Request, NEW d \in Disclosure, NEW to \in Change,
               NEW default \in {TRUE, FALSE, Null}, UpdateFind(r, d, to, default)
        PROVE  OnTime'
    BY <1>3 DEF UpdateFind, KeyAfter, Start, OnTime, DisclosureTypeOK
  <1>4. ASSUME NEW d \in Disclosure, NEW k \in Key, CreatePlain(d, k) PROVE OnTime'
    <2>1. \A c \in Disclosure : disclosure[c] # NoDisclosure => disclosure'[c] = disclosure[c]
      BY <1>4 DEF CreatePlain, DisclosureTypeOK
    <2>2. \A r \in Request : req[r].pc # "idle" /\ req[r].row # Null
            => disclosure[req[r].row] # NoDisclosure /\ req[r].row \in Disclosure
      BY HandlerFields DEF HandlerOK
    <2>. QED  BY <1>4, <2>1, <2>2 DEF CreatePlain, OnTime
  <1>5. ASSUME NEW r \in Request, Clear(r) PROVE OnTime'
    <2>1. \A d \in Disclosure : disclosure'[d].key = disclosure[d].key /\ how'[d] # "late"
      BY <1>5, ClearedRows DEF OnTime
    <2>2. /\ req[r].pc = "clear" /\ req[r] \in Handler
          /\ req'[r] = [req[r] EXCEPT !.pc = IF req[r].row = Null THEN "insert" ELSE "write"]
      BY <1>5 DEF Clear, DisclosureTypeOK
    <2>3. /\ req'[r].key = req[r].key /\ req'[r].row = req[r].row
          /\ req'[r].to = req[r].to /\ req'[r].late = req[r].late
          /\ req[r].row \in Disclosure \cup {Null}
      BY <2>2 DEF Handler
    <2>4. ~req'[r].late
      BY <2>2, <2>3 DEF OnTime
    <2>5. req[r].row # Null => req[r].key = With(disclosure[req[r].row].key, req[r].to)
      BY <2>2 DEF OnTime
    <2>6. \A q \in Request : q = r
      OBVIOUS
    <2>. QED  BY <2>1, <2>3, <2>4, <2>5, <2>6 DEF OnTime
  <1>6. ASSUME NEW r \in Request, NEW d \in Disclosure, Insert(r, d) PROVE OnTime'
    <2>1. req'[r] = Idle
      BY <1>6, OthersWait DEF Insert
    <2>. QED  BY <1>1, <1>6, <2>1 DEF Insert, OnTime, DisclosureTypeOK
  <1>7. ASSUME NEW r \in Request, Update(r) PROVE OnTime'
    <2>. DEFINE d == req[r].row
    <2>1. req'[r] = Idle
      BY <1>7, OthersWait DEF Update
    <2>2. HowUpdated(r) # "late"
      <3>1. /\ d \in Disclosure /\ ~req[r].late
            /\ req[r].key = With(disclosure[d].key, req[r].to)
        BY <1>7, UpdateFacts, HandlerFields DEF Update, HandlerOK, OnTime
      <3>2. ~Rekeyed(r)
        BY <3>1 DEF Rekeyed, With
      <3>. QED  BY <3>1, <3>2 DEF HowUpdated, OnTime
    <2>3. \A c \in Disclosure : how'[c] # "late"
      BY <1>7, <2>2 DEF Update, OnTime, DisclosureTypeOK
    <2>. QED  BY <1>1, <2>1, <2>3
  <1>8. ASSUME NEW r \in Request, Abandon(r) PROVE OnTime'
    BY <1>8, <1>1, IdleHandler DEF Abandon, Finish, OnTime, DisclosureTypeOK
  <1>9. CASE UNCHANGED disclosureVars
    BY <1>9 DEF disclosureVars, OnTime
  <1>. QED
    BY <1>2, <1>3, <1>4, <1>5, <1>6, <1>7, <1>8, <1>9 DEF DisclosureNext

\* With one handler at a time the only way to two defaults is an update that
\* moves a default to another jurisdiction or language and says nothing about
\* is_default: that one needs no race.
THEOREM SerialDefaultsMove ==
  ASSUME \A r, q \in Request : r = q
  PROVE  DisclosureSpec => []TwoDefaultsWereMoved
  <1>1. DisclosureInit => OnTime
    BY IdleHandler DEF DisclosureInit, OnTime
  <1>2. DisclosureIInv /\ OnTime /\ [DisclosureNext]_disclosureVars => OnTime'
    BY OnTimeStep
  <1>3. DisclosureIInv /\ OnTime => TwoDefaultsWereMoved
    BY DEF DisclosureIInv, OnTime, TwoDefaultsAreLate, TwoDefaultsWereMoved, DefaultsOf
  <1>. QED  BY <1>1, <1>2, <1>3, DisclosureSpecIInv, PTL DEF DisclosureSpec
=============================================================================
