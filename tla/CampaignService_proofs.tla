----------------------- MODULE CampaignService_proofs -----------------------
(***************************************************************************)
(* Proofs about CampaignService, for any number of campaigns, handlers,    *)
(* uploads and files.                                                      *)
(***************************************************************************)
EXTENDS CampaignService, FiniteSetTheorems, TLAPS

\* What the handlers of a campaign rely on while they wait.  A campaign that
\* left draft never comes back to it, and leads are never removed.
HandlersKnow ==
    \A h \in Handler :
        /\ handler[h].pc = "activateCommit" => L!HasLeads(handler[h].id)
        /\ handler[h].pc \in {"pause", "resume"} => campaign[handler[h].id].status \in L!Running

LInv == L!TypeOK /\ HandlersKnow /\ RunningHasLeads

\* What is known of the uploads that run, for DuplicatesOnlyFromOverlap: all
\* that run at the same time are recorded as such, and an upload about to
\* insert has only missed the leads of uploads it overlaps.
OverlapsKnown ==
    /\ \A u, v \in Upload : <<u, v>> \in overlap => u # v /\ <<v, u>> \in overlap
    /\ \A u, v \in Upload : U!Running(u) /\ U!Running(v) /\ u # v => <<u, v>> \in overlap
    /\ \A u \in Upload : worker[u].pc = "insert" =>
        \A l \in lead : l.campaign = worker[u].id /\ l.phone = U!Row(u) =>
            <<l.upload, u>> \in overlap

\* Where a worker is that has been through its file, or will not be.
Over == {"failing", "done", "lost"}

\* The counters of a worker against the rows it went through and the leads
\* it inserted.
CountersAddUp ==
    /\ IsFiniteSet(lead)
    /\ \A l \in lead : l.row < worker[l.upload].next
    /\ \A u \in Upload :
        /\ worker[u].next = 1 + worker[u].valid + worker[u].invalid + worker[u].duplicate
        /\ worker[u].valid = Cardinality(U!LeadsFrom(u))
        /\ worker[u].pc \in {"accepted", "row", "insert"} => worker[u].next <= Len(worker[u].file) + 1
        /\ U!Reported(u) => worker[u].pc \in Over

\* What a worker relies on: its campaign, and a valid row to insert.
WorkersKnow ==
    \A u \in Upload :
        /\ worker[u].pc \in U!Alive => worker[u].id \in Campaign
        /\ worker[u].pc = "insert" => U!RowsLeft(u) /\ U!Row(u) # Invalid

UInv ==
    /\ U!TypeOK
    /\ WorkersKnow
    /\ OverlapsKnown
    /\ CountersAddUp
    /\ DuplicatesOnlyFromOverlap
    /\ ReportAddsUp

\* LeadUpload counts with the Cardinality of its own instance.
LEMMA SameCardinality == \A S : U!Cardinality(S) = Cardinality(S)
  BY DEF U!Cardinality, Cardinality

-----------------------------------------------------------------------------
(* The handlers of a campaign.                                             *)

\* Lengths of files are natural numbers.
LEMMA FileLength ==
    ASSUME NEW file \in File \cup {<<>>} PROVE Len(file) \in Nat
  BY FileAssumption

\* The invariants hold initially.
LEMMA InitLU == Init => LInv /\ UInv
<1> SUFFICES ASSUME Init PROVE LInv /\ UInv
  OBVIOUS
<1> USE DEF Init, L!Init, U!Init
<1>1. LInv
  BY DEF LInv, L!TypeOK, L!CampaignRow, L!HandlerState, L!Idle, L!NoCampaign, HandlersKnow,
         RunningHasLeads, L!RunningHasLeads, L!Running
<1>2. U!TypeOK
  BY DEF U!TypeOK, U!UploadRow, U!NoUpload, U!Worker, U!Waiting
<1>3. OverlapsKnown /\ DuplicatesOnlyFromOverlap /\ ReportAddsUp
  BY DEF OverlapsKnown, U!Running, U!Waiting, DuplicatesOnlyFromOverlap,
         U!DuplicatesOnlyFromOverlap, ReportAddsUp, U!ReportAddsUp, U!Reported, U!NoUpload
<1>4. CountersAddUp
  <2>1. \A u \in Upload : U!LeadsFrom(u) = {}
    BY DEF U!LeadsFrom
  <2>2. IsFiniteSet(lead) /\ \A u \in Upload : Cardinality(U!LeadsFrom(u)) = 0
    BY <2>1, FS_EmptySet
  <2>3. \A u \in Upload : worker[u] = U!Waiting /\ ~U!Reported(u)
    BY DEF U!NoUpload, U!Reported
  <2>4. /\ lead = {}
        /\ U!Waiting.pc = "waiting"
        /\ U!Waiting.next = 1
        /\ U!Waiting.valid = 0 /\ U!Waiting.invalid = 0 /\ U!Waiting.duplicate = 0
    BY DEF U!Waiting
  <2> QED
    BY <2>1, <2>2, <2>3, <2>4 DEF CountersAddUp
<1>5. WorkersKnow
  BY DEF WorkersKnow, U!Waiting, U!Alive
<1> QED
  BY <1>1, <1>2, <1>3, <1>4, <1>5 DEF UInv

\* Writing the row a handler found: what must hold of the new row.
LEMMA WriteKeeps ==
    ASSUME LInv, NEW h \in Handler, handler[h] # L!Idle,
           NEW row \in L!CampaignRow \ {L!NoCampaign},
           campaign[handler[h].id].status \in L!Running => row.status \in L!Running,
           row.status \in L!Running => row.started /\ L!HasLeads(handler[h].id),
           L!Write(h, row), UNCHANGED lead
    PROVE  LInv'
<1> DEFINE c == handler[h].id
<1>1. c \in Campaign
  BY DEF LInv, L!TypeOK, L!HandlerState, L!Idle
<1>2. /\ campaign' = [campaign EXCEPT ![c] = row]
      /\ handler' = [handler EXCEPT ![h] = L!Idle]
  BY DEF L!Write, L!Finish
<1>3. L!TypeOK'
  BY <1>1, <1>2 DEF LInv, L!TypeOK, L!HandlerState, L!Idle
<1>4. HandlersKnow'
  BY <1>1, <1>2 DEF LInv, HandlersKnow, L!HasLeads, L!LeadsOf, L!TypeOK, L!HandlerState, L!Idle
<1>5. RunningHasLeads'
  BY <1>1, <1>2 DEF LInv, L!TypeOK, RunningHasLeads, L!RunningHasLeads, L!HasLeads, L!LeadsOf
<1> QED
  BY <1>3, <1>4, <1>5 DEF LInv

\* A handler that only moves on.
LEMMA MoveKeeps ==
    ASSUME LInv, NEW h \in Handler, NEW state \in L!HandlerState,
           state # L!Idle => campaign[state.id] # L!NoCampaign,
           state.pc = "activateCommit" => L!HasLeads(state.id),
           state.pc \in {"pause", "resume"} => campaign[state.id].status \in L!Running,
           handler' = [handler EXCEPT ![h] = state], UNCHANGED <<campaign, lead>>
    PROVE  LInv'
<1>1. L!TypeOK'
  BY DEF LInv, L!TypeOK
<1>2. HandlersKnow'
  BY DEF LInv, HandlersKnow, L!TypeOK, L!HasLeads, L!LeadsOf
<1>3. RunningHasLeads'
  BY DEF LInv, RunningHasLeads, L!RunningHasLeads, L!LeadsOf
<1> QED
  BY <1>1, <1>2, <1>3 DEF LInv

\* Every step of a handler keeps the invariant of the handlers.
LEMMA LifecycleKeeps ==
    ASSUME LInv, L!Next, UNCHANGED lead PROVE LInv'
<1> USE DEF LInv
<1>1. CASE \E c \in Campaign, setting \in Setting : L!Create(c, setting)
  <2> PICK c \in Campaign, setting \in Setting : L!Create(c, setting)
    BY <1>1
  <2> USE DEF L!Create
  <2>1. L!TypeOK'
    BY DEF L!TypeOK, L!CampaignRow, L!NoCampaign, L!Status
  <2>2. HandlersKnow'
    <3> SUFFICES ASSUME NEW h \in Handler, handler[h] # L!Idle
                 PROVE  handler[h].id # c
      BY DEF HandlersKnow, L!TypeOK, L!HandlerState, L!Idle, L!HasLeads, L!LeadsOf
    <3> QED
      BY DEF L!TypeOK
  <2>3. RunningHasLeads'
    BY DEF RunningHasLeads, L!RunningHasLeads, L!LeadsOf, L!TypeOK, L!Running
  <2> QED
    BY <2>1, <2>2, <2>3
<1>2. ASSUME NEW h \in Handler, NEW c \in Campaign, NEW op \in DOMAIN L!AllowedFrom,
             L!Find(h, c, op)
      PROVE  LInv'
  <2> DEFINE state == [pc |-> op, id |-> c]
  <2>1. op \in {"update", "remove", "activate", "pause", "resume"}
    BY DEF L!AllowedFrom
  <2>2. state \in L!HandlerState /\ state.pc # "activateCommit"
    BY <2>1 DEF L!HandlerState
  <2>3. op \in {"pause", "resume"} => campaign[c].status \in L!Running
    BY <1>2, <2>1 DEF L!Find, L!AllowedFrom, L!Running
  <2>4. handler' = [handler EXCEPT ![h] = state] /\ UNCHANGED campaign /\ campaign[c] # L!NoCampaign
    BY <1>2 DEF L!Find
  <2> HIDE DEF LInv
  <2> QED
    BY <2>2, <2>3, <2>4, MoveKeeps
<1>3. ASSUME NEW h \in Handler, handler[h] # L!Idle
      PROVE  /\ handler[h].id \in Campaign
             /\ handler[h] \in L!HandlerState
             /\ campaign[handler[h].id] \in L!CampaignRow \ {L!NoCampaign}
  BY <1>3 DEF L!TypeOK, L!HandlerState, L!Idle
<1>4. ASSUME NEW row \in L!CampaignRow \ {L!NoCampaign}
      PROVE  row \in [status : L!Status, started : BOOLEAN, deleted : BOOLEAN, setting : Setting]
  BY <1>4 DEF L!CampaignRow
<1>5. ASSUME NEW row \in [status : L!Status, started : BOOLEAN, deleted : BOOLEAN, setting : Setting]
      PROVE  row \in L!CampaignRow \ {L!NoCampaign}
  BY <1>5 DEF L!CampaignRow, L!NoCampaign, L!Status
<1>6. ASSUME NEW c \in Campaign, campaign[c].status \in L!Running
      PROVE  campaign[c].started /\ L!HasLeads(c)
  BY <1>6 DEF RunningHasLeads, L!RunningHasLeads, L!HasLeads
<1> HIDE DEF LInv
<1>7. ASSUME NEW h \in Handler, NEW setting \in Setting, L!Update(h, setting) PROVE LInv'
  <2>1. handler[h] # L!Idle
    BY <1>7 DEF L!Update, L!Idle
  <2> DEFINE c == handler[h].id
             row == [campaign[c] EXCEPT !.setting = setting]
  <2>2. row \in L!CampaignRow \ {L!NoCampaign} /\ row.status = campaign[c].status
        /\ row.started = campaign[c].started
    BY <2>1, <1>3, <1>4, <1>5
  <2> QED
    BY <1>3, <1>6, <1>7, <2>1, <2>2, WriteKeeps DEF L!Update
<1>8. ASSUME NEW h \in Handler, L!Remove(h) PROVE LInv'
  <2>1. handler[h] # L!Idle
    BY <1>8 DEF L!Remove, L!Idle
  <2> DEFINE c == handler[h].id
             row == [campaign[c] EXCEPT !.deleted = TRUE]
  <2>2. row \in L!CampaignRow \ {L!NoCampaign} /\ row.status = campaign[c].status
        /\ row.started = campaign[c].started
    BY <2>1, <1>3, <1>4, <1>5
  <2> QED
    BY <1>3, <1>6, <1>8, <2>1, <2>2, WriteKeeps DEF L!Remove
<1>9. ASSUME NEW h \in Handler, L!CountLeads(h) PROVE LInv'
  <2>1. handler[h] # L!Idle
    BY <1>9 DEF L!CountLeads, L!Idle
  <2> DEFINE state == [handler[h] EXCEPT !.pc = "activateCommit"]
  <2>2. state \in L!HandlerState /\ state.id = handler[h].id /\ state.pc = "activateCommit"
    BY <2>1, <1>3 DEF L!HandlerState, L!Idle
  <2>3. handler' = [handler EXCEPT ![h] = state] /\ L!HasLeads(handler[h].id) /\ UNCHANGED campaign
    BY <1>9 DEF L!CountLeads
  <2> QED
    BY <1>3, <2>1, <2>2, <2>3, MoveKeeps
<1>10. ASSUME NEW h \in Handler, L!Activate(h) PROVE LInv'
  <2>1. handler[h] # L!Idle
    BY <1>10 DEF L!Activate, L!Idle
  <2> DEFINE row == L!Activated(campaign[handler[h].id])
  <2>2. row \in L!CampaignRow \ {L!NoCampaign} /\ row.status = "active" /\ row.started
    <3> DEFINE old == campaign[handler[h].id]
    <3>1. old \in [status : L!Status, started : BOOLEAN, deleted : BOOLEAN, setting : Setting]
      BY <2>1, <1>3, <1>4
    <3>2. row = [old EXCEPT !.status = "active", !.started = TRUE]
      BY DEF L!Activated
    <3> HIDE DEF old, row
    <3>3. /\ row \in [status : L!Status, started : BOOLEAN, deleted : BOOLEAN, setting : Setting]
          /\ row.status = "active" /\ row.started
      BY <3>1, <3>2 DEF L!Status
    <3> QED
      BY <3>3, <1>5
  <2>3. L!HasLeads(handler[h].id)
    BY <1>10 DEF L!Activate, LInv, HandlersKnow
  <2> QED
    BY <1>10, <2>1, <2>2, <2>3, WriteKeeps DEF L!Activate, L!Running
<1>11. ASSUME NEW h \in Handler, L!Pause(h) \/ L!Resume(h) PROVE LInv'
  <2>1. handler[h] # L!Idle /\ handler[h].pc \in {"pause", "resume"}
    BY <1>11 DEF L!Pause, L!Resume, L!Idle
  <2>2. campaign[handler[h].id].status \in L!Running
    BY <2>1 DEF LInv, HandlersKnow
  <2>3. PICK status \in L!Running :
            L!Write(h, [campaign[handler[h].id] EXCEPT !.status = status])
    BY <1>11 DEF L!Pause, L!Resume, L!Running
  <2> DEFINE row == [campaign[handler[h].id] EXCEPT !.status = status]
  <2>4. row \in L!CampaignRow \ {L!NoCampaign} /\ row.status = status
        /\ row.started = campaign[handler[h].id].started
    BY <2>1, <1>3, <1>4, <1>5 DEF L!Running, L!Status
  <2> QED
    BY <1>3, <1>6, <2>1, <2>2, <2>3, <2>4, WriteKeeps
<1>12. ASSUME NEW h \in Handler, L!Abandon(h) PROVE LInv'
  BY <1>12, MoveKeeps DEF L!Abandon, L!Finish, L!HandlerState, L!Idle
<1> QED
  BY <1>1, <1>2, <1>7, <1>8, <1>9, <1>10, <1>11, <1>12 DEF L!Next

-----------------------------------------------------------------------------
(* The uploads.                                                            *)

\* Uploads only add leads, which is all the handlers need of them.
LEMMA UploadsAreSafe ==
    ASSUME LInv, lead \subseteq lead', UNCHANGED <<campaign, handler>> PROVE LInv'
<1>1. \A c \in Campaign : L!LeadsOf(c) \subseteq L!LeadsOf(c)'
  BY DEF L!LeadsOf
<1>2. L!TypeOK'
  BY DEF LInv, L!TypeOK
<1>3. HandlersKnow'
  <2> SUFFICES ASSUME NEW h \in Handler, handler[h].pc = "activateCommit"
               PROVE  L!HasLeads(handler[h].id)'
    BY DEF LInv, HandlersKnow
  <2>1. handler[h].id \in Campaign /\ L!HasLeads(handler[h].id)
    BY DEF LInv, HandlersKnow, L!TypeOK, L!HandlerState, L!Idle
  <2> QED
    BY <1>1, <2>1 DEF L!HasLeads
<1>4. RunningHasLeads'
  BY <1>1 DEF LInv, RunningHasLeads, L!RunningHasLeads
<1> QED
  BY <1>2, <1>3, <1>4 DEF LInv

\* The type of a worker, and what the row it is at is.
LEMMA WorkerFacts ==
    ASSUME U!TypeOK, NEW u \in Upload
    PROVE  /\ worker[u] \in U!Worker
           /\ worker[u].next \in Nat \ {0}
           /\ worker[u].valid \in Nat /\ worker[u].invalid \in Nat /\ worker[u].duplicate \in Nat
           /\ Len(worker[u].file) \in Nat
           /\ U!RowsLeft(u) => U!Row(u) \in Phone \cup {Invalid}
<1>1. worker[u] \in U!Worker
  BY DEF U!TypeOK
<1>2. worker[u].file \in Seq(Phone \cup {Invalid})
  <2>1. worker[u].file \in File \cup {<<>>}
    BY <1>1 DEF U!Worker
  <2>2. <<>> \in Seq(Phone \cup {Invalid})
    OBVIOUS
  <2> QED
    BY <2>1, <2>2, FileAssumption
<1>3. worker[u].next \in Nat \ {0}
  BY <1>1 DEF U!Worker
<1>4. U!RowsLeft(u) => U!Row(u) \in Phone \cup {Invalid}
  BY <1>2, <1>3 DEF U!RowsLeft, U!Row
<1> QED
  BY <1>1, <1>2, <1>3, <1>4 DEF U!Worker

\* A step of a worker that inserts nothing: its counters and its row change,
\* and it does not enter the uploads that run.
LEMMA CountingKeeps ==
    ASSUME UInv, NEW u \in Upload, NEW w \in U!Worker,
           worker' = [worker EXCEPT ![u] = w], UNCHANGED <<lead, overlap>>,
           w.pc \in {"row", "insert", "failing"} => U!Running(u),
           w.pc = "insert" => w = [worker[u] EXCEPT !.pc = "insert"]
                              /\ ~U!Known(u) /\ U!RowsLeft(u) /\ U!Row(u) # Invalid,
           w.pc \in U!Alive => w.id \in Campaign,
           w.next >= worker[u].next, w.valid = worker[u].valid,
           w.next = 1 + w.valid + w.invalid + w.duplicate,
           w.pc \in {"accepted", "row", "insert"} => w.next <= Len(w.file) + 1,
           upload' \in [Upload -> U!UploadRow],
           \A v \in Upload \ {u} : upload'[v] = upload[v],
           upload'[u].total = upload'[u].valid + upload'[u].invalid + upload'[u].duplicate,
           U!Reported(u)' => w.pc \in Over /\ upload'[u].valid = w.valid
    PROVE  UInv'
<1> USE DEF UInv
<1>1. worker \in [Upload -> U!Worker]
  BY DEF U!TypeOK
<1>2. OverlapsKnown'
  <2>1. \A v \in Upload : U!Running(v)' => U!Running(v)
    BY <1>1 DEF U!Running
  <2>2. ASSUME NEW v \in Upload, worker'[v].pc = "insert", NEW l \in lead,
               l.campaign = worker'[v].id, l.phone = U!Row(v)'
        PROVE  <<l.upload, v>> \in overlap
    <3>1. CASE v = u
      BY <1>1, <2>2, <3>1 DEF U!Known, U!Row, U!Worker
    <3>2. CASE v # u
      BY <1>1, <2>2, <3>2 DEF OverlapsKnown, U!Row
    <3> QED
      BY <3>1, <3>2
  <2> QED
    BY <2>1, <2>2 DEF OverlapsKnown
<1>3. CountersAddUp'
  <2>1. \A l \in lead : l.row < worker'[l.upload].next
    <3>1. ASSUME NEW l \in lead
          PROVE  l.row < worker[l.upload].next /\ l.row \in Nat /\ l.upload \in Upload
      BY DEF CountersAddUp, U!TypeOK, U!Lead
    <3>2. \A v \in Upload :
            worker[v].next \in Nat /\ worker'[v].next \in Nat /\ worker'[v].next >= worker[v].next
      BY <1>1 DEF U!Worker
    <3> QED
      BY <3>1, <3>2
  <2>2. \A v \in Upload : U!LeadsFrom(v)' = U!LeadsFrom(v)
    BY DEF U!LeadsFrom
  <2>3. ASSUME NEW v \in Upload
        PROVE  /\ worker'[v].next =
                    1 + worker'[v].valid + worker'[v].invalid + worker'[v].duplicate
               /\ worker'[v].valid = Cardinality(U!LeadsFrom(v))
               /\ worker'[v].pc \in {"accepted", "row", "insert"} =>
                    worker'[v].next <= Len(worker'[v].file) + 1
               /\ U!Reported(v)' => worker'[v].pc \in Over
    <3>1. CASE v = u
      BY <1>1, <3>1 DEF CountersAddUp
    <3>2. CASE v # u
      BY <1>1, <3>2 DEF CountersAddUp, U!Reported
    <3> QED
      BY <3>1, <3>2
  <2> QED
    BY <2>1, <2>2, <2>3 DEF CountersAddUp
<1>4. U!TypeOK'
  BY <1>1 DEF U!TypeOK
<1>5. DuplicatesOnlyFromOverlap'
  BY DEF DuplicatesOnlyFromOverlap, U!DuplicatesOnlyFromOverlap
<1>6. ReportAddsUp'
  <2>1. \A v \in Upload : U!LeadsFrom(v)' = U!LeadsFrom(v)
    BY DEF U!LeadsFrom
  <2>2. worker[u].valid = Cardinality(U!LeadsFrom(u))
    BY DEF CountersAddUp
  <2>3. ASSUME NEW v \in Upload
        PROVE  /\ upload'[v].total =
                    upload'[v].valid + upload'[v].invalid + upload'[v].duplicate
               /\ U!Reported(v)' => upload'[v].valid = Cardinality(U!LeadsFrom(v))
    <3>1. CASE v = u
      BY <2>2, <3>1
    <3>2. CASE v # u
      BY <3>2, SameCardinality DEF ReportAddsUp, U!ReportAddsUp, U!Reported
    <3> QED
      BY <3>1, <3>2
  <2> QED
    BY <2>1, <2>3, SameCardinality DEF ReportAddsUp, U!ReportAddsUp
<1>7. WorkersKnow'
  <2> SUFFICES ASSUME NEW v \in Upload
               PROVE  /\ worker'[v].pc \in U!Alive => worker'[v].id \in Campaign
                      /\ worker'[v].pc = "insert" => U!RowsLeft(v)' /\ U!Row(v)' # Invalid
    BY DEF WorkersKnow
  <2>1. CASE v = u
    BY <1>1, <2>1 DEF U!RowsLeft, U!Row, U!Worker
  <2>2. CASE v # u
    BY <1>1, <2>2 DEF WorkersKnow, U!RowsLeft, U!Row
  <2> QED
    BY <2>1, <2>2
<1> QED
  BY <1>2, <1>3, <1>4, <1>5, <1>6, <1>7 DEF UInv

\* Start of a worker: it joins the uploads that run.
LEMMA StartKeeps ==
    ASSUME UInv, NEW u \in Upload, U!Start(u) PROVE UInv'
<1> USE DEF UInv, U!Start
<1>1. worker \in [Upload -> U!Worker] /\ worker[u] \in U!Worker
  BY DEF U!TypeOK
<1>2. /\ worker' = [worker EXCEPT ![u].pc = "row"]
      /\ worker' \in [Upload -> U!Worker]
      /\ ~U!Running(u)
  BY <1>1 DEF U!Worker, U!Alive, U!Running
<1>3. upload' \in [Upload -> U!UploadRow] /\ upload'[u].status = "processing"
      /\ \A v \in Upload \ {u} : upload'[v] = upload[v]
  BY DEF U!TypeOK, U!UploadRow
<1>a. \A v \in Upload :
        /\ upload'[v].total = upload[v].total /\ upload'[v].valid = upload[v].valid
        /\ upload'[v].invalid = upload[v].invalid /\ upload'[v].duplicate = upload[v].duplicate
  BY DEF U!TypeOK, U!UploadRow
<1>4. \A v, w \in Upload : <<v, w>> \in overlap' <=>
        \/ <<v, w>> \in overlap
        \/ v = u /\ U!Running(w)
        \/ w = u /\ U!Running(v)
  OBVIOUS
<1>5. overlap' \subseteq Upload \X Upload /\ overlap \subseteq overlap'
  BY DEF U!TypeOK
<1>6. U!TypeOK'
  BY <1>2, <1>3, <1>5 DEF U!TypeOK
<1>7. OverlapsKnown'
  <2>1. \A v, w \in Upload : <<v, w>> \in overlap' => v # w /\ <<w, v>> \in overlap'
    BY <1>2, <1>4 DEF OverlapsKnown
  <2>2. \A v \in Upload : U!Running(v)' <=> U!Running(v) \/ v = u
    BY <1>1, <1>2 DEF U!Running, U!Worker
  <2>3. \A v, w \in Upload : U!Running(v)' /\ U!Running(w)' /\ v # w => <<v, w>> \in overlap'
    BY <1>4, <2>2 DEF OverlapsKnown
  <2>4. \A v \in Upload : worker'[v].pc = "insert" => worker'[v] = worker[v]
    BY <1>1, <1>2 DEF U!Worker
  <2>5. ASSUME NEW v \in Upload, worker'[v].pc = "insert", NEW l \in lead,
               l.campaign = worker'[v].id, l.phone = U!Row(v)'
        PROVE  <<l.upload, v>> \in overlap'
    BY <1>5, <2>4, <2>5 DEF OverlapsKnown, U!Row
  <2> QED
    BY <2>1, <2>3, <2>5 DEF OverlapsKnown
<1>8. CountersAddUp'
  <2>1. \A v \in Upload :
            /\ worker'[v].next = worker[v].next /\ worker'[v].valid = worker[v].valid
            /\ worker'[v].invalid = worker[v].invalid /\ worker'[v].duplicate = worker[v].duplicate
            /\ worker'[v].file = worker[v].file
            /\ v # u => worker'[v] = worker[v]
            /\ v = u => worker'[v].pc = "row"
    BY <1>1, <1>2 DEF U!Worker
  <2>2. \A v \in Upload : U!LeadsFrom(v)' = U!LeadsFrom(v)
    BY DEF U!LeadsFrom
  <2>3. \A l \in lead : l.upload \in Upload
    BY DEF U!TypeOK, U!Lead
  <2>4. \A v \in Upload : U!Reported(v)' => U!Reported(v)
    BY <1>3, <1>a DEF U!Reported
  <2>5. worker[u].pc = "accepted"
    OBVIOUS
  <2>6. ~U!Reported(u)
    BY <2>5 DEF CountersAddUp, Over
  <2> QED
    BY <2>1, <2>2, <2>3, <2>4, <2>5, <2>6 DEF CountersAddUp
<1>9. DuplicatesOnlyFromOverlap'
  BY <1>5 DEF DuplicatesOnlyFromOverlap, U!DuplicatesOnlyFromOverlap
<1>10. ReportAddsUp'
  <2>1. \A v \in Upload : U!LeadsFrom(v)' = U!LeadsFrom(v)
    BY DEF U!LeadsFrom
  <2>2. \A v \in Upload : U!Reported(v)' => U!Reported(v)
    BY <1>3, <1>a DEF U!Reported
  <2> QED
    BY <1>a, <2>1, <2>2 DEF ReportAddsUp, U!ReportAddsUp
<1>11. WorkersKnow'
  BY <1>1, <1>2 DEF WorkersKnow, U!Alive, U!RowsLeft, U!Row, U!Worker
<1> QED
  BY <1>6, <1>7, <1>8, <1>9, <1>10, <1>11 DEF UInv

\* The insertion of a lead: the new lead meets older ones of its number only
\* from uploads that overlap this one, and is the newest of its own upload.
LEMMA InsertKeeps ==
    ASSUME UInv, NEW u \in Upload, U!InsertLead(u) PROVE UInv'
<1> USE DEF UInv, U!InsertLead
<1> DEFINE new == [campaign |-> worker[u].id, phone |-> U!Row(u), upload |-> u,
                   row |-> worker[u].next]
           w == [worker[u] EXCEPT !.pc = "row", !.next = @ + 1, !.valid = @ + 1]
<1>1. worker \in [Upload -> U!Worker] /\ worker[u] \in U!Worker /\ worker[u].next \in Nat \ {0}
      /\ worker[u].valid \in Nat /\ worker[u].invalid \in Nat /\ worker[u].duplicate \in Nat
  BY WorkerFacts DEF U!TypeOK
<1>2. /\ lead' = lead \cup {new}
      /\ worker' = [worker EXCEPT ![u] = w]
      /\ w.pc = "row" /\ w.next = worker[u].next + 1 /\ w.valid = worker[u].valid + 1
      /\ w.invalid = worker[u].invalid /\ w.duplicate = worker[u].duplicate
      /\ w.file = worker[u].file /\ w.id = worker[u].id
  BY <1>1 DEF U!Worker
<1>3. w \in U!Worker
  BY <1>1 DEF U!Worker, U!Alive
<1> HIDE DEF w
<1>4. \A v \in Upload \ {u} : worker'[v] = worker[v] /\ U!LeadsFrom(v)' = U!LeadsFrom(v)
  BY <1>1, <1>2 DEF U!LeadsFrom
<1>5. worker'[u] = w
  BY <1>1, <1>2
<1>6. U!Running(u) /\ \A v \in Upload : U!Running(v)' <=> U!Running(v)
  <2>1. U!Running(u) /\ U!Running(u)'
    BY <1>2, <1>5 DEF U!Running
  <2>2. \A v \in Upload \ {u} : U!Running(v)' <=> U!Running(v)
    BY <1>4 DEF U!Running
  <2> QED
    BY <2>1, <2>2
<1>7. U!TypeOK'
  <2>1. U!Row(u) \in Phone
    BY WorkerFacts DEF WorkersKnow
  <2>2. new \in U!Lead
    BY <1>1, <2>1 DEF U!Lead, WorkersKnow, U!Alive
  <2> QED
    BY <1>1, <1>2, <1>3, <2>2 DEF U!TypeOK
<1>8. OverlapsKnown'
  <2>1. ASSUME NEW v \in Upload, worker'[v].pc = "insert", NEW l \in lead',
               l.campaign = worker'[v].id, l.phone = U!Row(v)'
        PROVE  <<l.upload, v>> \in overlap
    <3>1. v # u
      BY <1>2, <1>5, <2>1
    <3>2. worker'[v] = worker[v] /\ U!Row(v)' = U!Row(v)
      BY <1>4, <3>1 DEF U!Row
    <3>3. CASE l \in lead
      BY <2>1, <3>2, <3>3 DEF OverlapsKnown
    <3>4. CASE l = new
      BY <1>6, <2>1, <3>1, <3>2, <3>4 DEF OverlapsKnown, U!Running
    <3> QED
      BY <1>2, <3>3, <3>4
  <2> QED
    BY <1>6, <2>1 DEF OverlapsKnown
<1>9. new \notin lead /\ \A l \in lead : l.upload \in Upload /\ l.row \in Nat
  <2>1. \A l \in lead : l.row < worker[l.upload].next /\ l.upload \in Upload /\ l.row \in Nat
    BY DEF CountersAddUp, U!TypeOK, U!Lead
  <2>2. new \in lead => worker[u].next < worker[u].next
    BY <2>1
  <2> QED
    BY <1>1, <2>1, <2>2
<1>10. CountersAddUp'
  <2>1. IsFiniteSet(lead')
    BY <1>2, FS_AddElement DEF CountersAddUp
  <2>2. U!LeadsFrom(u)' = U!LeadsFrom(u) \cup {new} /\ new \notin U!LeadsFrom(u)
    BY <1>2, <1>9 DEF U!LeadsFrom
  <2>3. IsFiniteSet(U!LeadsFrom(u))
    BY FS_Subset DEF U!LeadsFrom, CountersAddUp
  <2>4. Cardinality(U!LeadsFrom(u)') = worker[u].valid + 1
    BY <2>2, <2>3, FS_AddElement DEF CountersAddUp
  <2>5. \A l \in lead' : l.row < worker'[l.upload].next
    <3> SUFFICES ASSUME NEW l \in lead' PROVE l.row < worker'[l.upload].next
      OBVIOUS
    <3>1. CASE l = new
      BY <1>1, <1>2, <1>5, <3>1
    <3>2. CASE l \in lead
      BY <1>1, <1>2, <1>4, <1>5, <1>9, <3>2 DEF CountersAddUp
    <3> QED
      BY <1>2, <3>1, <3>2
  <2>6. ASSUME NEW v \in Upload
        PROVE  /\ worker'[v].next =
                    1 + worker'[v].valid + worker'[v].invalid + worker'[v].duplicate
               /\ worker'[v].valid = Cardinality(U!LeadsFrom(v)')
               /\ worker'[v].pc \in {"accepted", "row", "insert"} =>
                    worker'[v].next <= Len(worker'[v].file) + 1
               /\ U!Reported(v)' => worker'[v].pc \in Over
    <3>1. CASE v = u
      <4>1. worker[u].next <= Len(worker[u].file) /\ Len(worker[u].file) \in Nat
        BY WorkerFacts DEF WorkersKnow, U!RowsLeft
      <4>2. ~U!Reported(u)'
        BY DEF CountersAddUp, Over, U!Reported
      <4>3. worker[u].next = 1 + worker[u].valid + worker[u].invalid + worker[u].duplicate
        BY DEF CountersAddUp
      <4> QED
        BY <1>1, <1>2, <1>5, <2>4, <3>1, <4>1, <4>2, <4>3
    <3>2. CASE v # u
      BY <1>4, <3>2 DEF CountersAddUp, U!Reported
    <3> QED
      BY <3>1, <3>2
  <2> QED
    BY <2>1, <2>5, <2>6 DEF CountersAddUp
<1>11. DuplicatesOnlyFromOverlap'
  <2>1. \A l \in lead : l.campaign = new.campaign /\ l.phone = new.phone =>
            l.upload # u /\ <<l.upload, u>> \in overlap /\ <<u, l.upload>> \in overlap
    BY <1>9 DEF OverlapsKnown
  <2> SUFFICES ASSUME NEW k \in lead', NEW l \in lead', k # l,
                      k.campaign = l.campaign, k.phone = l.phone
               PROVE  k.upload # l.upload /\ <<k.upload, l.upload>> \in overlap
    BY DEF DuplicatesOnlyFromOverlap, U!DuplicatesOnlyFromOverlap
  <2> HIDE DEF new
  <2>2. CASE k \in lead /\ l \in lead
    BY <2>2 DEF DuplicatesOnlyFromOverlap, U!DuplicatesOnlyFromOverlap
  <2>3. new.upload = u
    BY DEF new
  <2>4. CASE k = new \/ l = new
    BY <1>2, <2>1, <2>3, <2>4
  <2> QED
    BY <1>2, <2>2, <2>4
<1>12. ReportAddsUp'
  <2>1. ~U!Reported(u)
    BY DEF CountersAddUp, Over
  <2> QED
    BY <1>4, <2>1, SameCardinality DEF ReportAddsUp, U!ReportAddsUp, U!Reported
<1>13. WorkersKnow'
  BY <1>2, <1>4, <1>5 DEF WorkersKnow, U!Alive, U!RowsLeft, U!Row
<1> QED
  BY <1>7, <1>8, <1>10, <1>11, <1>12, <1>13 DEF UInv

\* A worker that goes past a row which is invalid or a duplicate.
LEMMA PastRow ==
    ASSUME NEW old \in U!Worker, old.pc = "row", NEW w,
           \/ w = [old EXCEPT !.next = @ + 1, !.invalid = @ + 1]
           \/ w = [old EXCEPT !.next = @ + 1, !.duplicate = @ + 1]
    PROVE  /\ w \in U!Worker
           /\ w.pc = "row" /\ w.id = old.id /\ w.file = old.file
           /\ w.next = old.next + 1 /\ w.valid = old.valid
           /\ w.invalid + w.duplicate = old.invalid + old.duplicate + 1
<1>1. /\ old.next \in Nat \ {0} /\ old.next + 1 \in Nat \ {0}
      /\ old.invalid \in Nat /\ old.invalid + 1 \in Nat
      /\ old.duplicate \in Nat /\ old.duplicate + 1 \in Nat
  BY DEF U!Worker
<1>2. \A n \in Nat \ {0}, i, d \in Nat :
        /\ [old EXCEPT !.next = n, !.invalid = i] \in U!Worker
        /\ [old EXCEPT !.next = n, !.duplicate = d] \in U!Worker
  BY DEF U!Worker
<1>3. w \in U!Worker
  BY <1>1, <1>2
<1>4. CASE w = [old EXCEPT !.next = @ + 1, !.invalid = @ + 1]
  <2>1. /\ w.pc = old.pc /\ w.id = old.id /\ w.file = old.file /\ w.valid = old.valid
        /\ w.next = old.next + 1 /\ w.invalid = old.invalid + 1 /\ w.duplicate = old.duplicate
    BY <1>4 DEF U!Worker
  <2> QED
    BY <1>1, <1>3, <2>1
<1>5. CASE w = [old EXCEPT !.next = @ + 1, !.duplicate = @ + 1]
  <2>1. /\ w.pc = old.pc /\ w.id = old.id /\ w.file = old.file /\ w.valid = old.valid
        /\ w.next = old.next + 1 /\ w.duplicate = old.duplicate + 1 /\ w.invalid = old.invalid
    BY <1>5 DEF U!Worker
  <2> QED
    BY <1>1, <1>3, <2>1
<1> QED
  BY <1>4, <1>5

\* The steps of a worker that only count, or end.
LEMMA OthersKeep ==
    ASSUME UInv, NEW u \in Upload,
           \/ \E c \in Campaign, file \in File : U!Accept(u, c, file)
           \/ U!CheckRow(u)
           \/ U!Complete(u)
           \/ U!Throw(u)
           \/ U!Catch(u)
           \/ U!Lose(u)
    PROVE  UInv'
<1>1. /\ worker \in [Upload -> U!Worker] /\ worker[u] \in U!Worker
      /\ worker[u].next \in Nat \ {0} /\ worker[u].valid \in Nat
      /\ worker[u].invalid \in Nat /\ worker[u].duplicate \in Nat
      /\ Len(worker[u].file) \in Nat
      /\ upload \in [Upload -> U!UploadRow]
  BY WorkerFacts DEF UInv, U!TypeOK
<1>2. /\ worker[u].next = 1 + worker[u].valid + worker[u].invalid + worker[u].duplicate
      /\ worker[u].pc \in {"accepted", "row", "insert"} => worker[u].next <= Len(worker[u].file) + 1
      /\ worker[u].pc \in U!Alive => worker[u].id \in Campaign
      /\ U!Reported(u) => worker[u].pc \in Over
      /\ upload[u].total = upload[u].valid + upload[u].invalid + upload[u].duplicate
      /\ U!Reported(u) => upload[u].valid = worker[u].valid
  BY SameCardinality DEF UInv, CountersAddUp, WorkersKnow, ReportAddsUp, U!ReportAddsUp
<1>3. ASSUME NEW c \in Campaign, NEW file \in File, U!Accept(u, c, file) PROVE UInv'
  <2> DEFINE w == [worker[u] EXCEPT !.pc = "accepted", !.id = c, !.file = file]
  <2>1. worker' = [worker EXCEPT ![u] = w] /\ UNCHANGED <<lead, upload, overlap>>
        /\ worker[u] = U!Waiting
    BY <1>1, <1>3 DEF U!Accept, U!Worker
  <2>2. w \in U!Worker /\ w.pc = "accepted" /\ w.id = c /\ w.file = file
        /\ w.next = worker[u].next /\ w.valid = worker[u].valid
        /\ w.invalid = worker[u].invalid /\ w.duplicate = worker[u].duplicate
    BY <1>1 DEF U!Worker, U!Alive
  <2>3. worker[u].pc = "waiting" /\ worker[u].next = 1
    BY <2>1 DEF U!Waiting
  <2>4. Len(file) \in Nat
    BY FileLength
  <2>5. w.next >= worker[u].next /\ w.next = 1 + w.valid + w.invalid + w.duplicate
        /\ w.next <= Len(w.file) + 1
    BY <1>1, <1>2, <2>2, <2>3, <2>4
  <2>6. w.pc \notin {"row", "insert", "failing"} /\ ~U!Reported(u)'
    BY <1>2, <2>1, <2>2, <2>3 DEF Over, U!Reported
  <2> HIDE DEF w
  <2> QED
    BY <1>1, <1>2, <2>1, <2>2, <2>5, <2>6, CountingKeeps
<1>4. ASSUME U!CheckRow(u) PROVE UInv'
  <2>1. worker[u].pc = "row" /\ U!RowsLeft(u) /\ UNCHANGED <<lead, upload, overlap>>
        /\ worker[u].next <= Len(worker[u].file)
    BY <1>4 DEF U!CheckRow, U!RowsLeft
  <2>2. U!Running(u) /\ ~U!Reported(u)' /\ worker[u].id \in Campaign
    BY <1>2, <2>1 DEF U!Running, U!Alive, Over, U!Reported
  <2>3. ASSUME NEW w, worker' = [worker EXCEPT ![u] = w],
               \/ w = [worker[u] EXCEPT !.next = @ + 1, !.invalid = @ + 1]
               \/ w = [worker[u] EXCEPT !.next = @ + 1, !.duplicate = @ + 1]
        PROVE  UInv'
    <3>1. /\ w \in U!Worker
          /\ w.pc = "row" /\ w.id = worker[u].id /\ w.file = worker[u].file
          /\ w.next = worker[u].next + 1 /\ w.valid = worker[u].valid
          /\ w.invalid + w.duplicate = worker[u].invalid + worker[u].duplicate + 1
      BY <1>1, <2>1, <2>3, PastRow
    <3>2. w.valid \in Nat /\ w.invalid \in Nat /\ w.duplicate \in Nat
      BY <3>1 DEF U!Worker
    <3>3. w.next >= worker[u].next /\ w.next <= Len(w.file) + 1
      BY <1>1, <2>1, <3>1
    <3>4. w.next = 1 + w.valid + w.invalid + w.duplicate
      <4> DEFINE sum == worker[u].invalid + worker[u].duplicate
      <4>1. sum \in Nat /\ worker[u].next = 1 + worker[u].valid + sum
        BY <1>1, <1>2
      <4>2. w.next = 1 + w.valid + (w.invalid + w.duplicate)
        BY <1>1, <3>1, <4>1
      <4> QED
        BY <1>1, <3>1, <3>2, <4>2
    <3> QED
      BY <1>1, <1>2, <2>1, <2>2, <2>3, <3>1, <3>3, <3>4, CountingKeeps
  <2>4. CASE \/ worker' = [worker EXCEPT ![u].next = @ + 1, ![u].invalid = @ + 1]
             \/ worker' = [worker EXCEPT ![u].next = @ + 1, ![u].duplicate = @ + 1]
    BY <1>1, <2>3, <2>4
  <2>5. CASE /\ worker' = [worker EXCEPT ![u].pc = "insert"]
             /\ U!Row(u) # Invalid
             /\ ~U!Known(u)
    <3> DEFINE w == [worker[u] EXCEPT !.pc = "insert"]
    <3>1. worker' = [worker EXCEPT ![u] = w]
      BY <1>1, <2>5 DEF U!Worker
    <3>2. w \in U!Worker /\ w.pc = "insert" /\ w.id = worker[u].id /\ w.file = worker[u].file
          /\ w.next = worker[u].next /\ w.valid = worker[u].valid
          /\ w.invalid = worker[u].invalid /\ w.duplicate = worker[u].duplicate
      BY <1>1, <2>1 DEF U!Worker, U!Alive
    <3>3. w = [worker[u] EXCEPT !.pc = "insert"]
      OBVIOUS
    <3>4. w.next >= worker[u].next /\ w.next <= Len(w.file) + 1
          /\ w.next = 1 + w.valid + w.invalid + w.duplicate
      BY <1>1, <1>2, <2>1, <3>2
    <3> HIDE DEF w
    <3> QED
      BY <1>1, <1>2, <2>1, <2>2, <2>5, <3>1, <3>2, <3>3, <3>4, CountingKeeps
  <2> QED
    BY <1>4, <2>4, <2>5 DEF U!CheckRow, U!CountDuplicate
<1>5. ASSUME NEW pc \in Over,
             worker' = [worker EXCEPT ![u].pc = pc], UNCHANGED <<lead, overlap>>,
             pc = "failing" => U!Running(u),
             upload' \in [Upload -> U!UploadRow], \A v \in Upload \ {u} : upload'[v] = upload[v],
             upload'[u].total = upload'[u].valid + upload'[u].invalid + upload'[u].duplicate,
             U!Reported(u)' => upload'[u].valid = worker[u].valid,
             worker[u].pc \in U!Alive
      PROVE  UInv'
  <2> DEFINE w == [worker[u] EXCEPT !.pc = pc]
  <2>1. worker' = [worker EXCEPT ![u] = w]
    BY <1>1, <1>5 DEF U!Worker
  <2>2. w \in U!Worker /\ w.pc = pc /\ w.id = worker[u].id
        /\ w.next = worker[u].next /\ w.valid = worker[u].valid
        /\ w.invalid = worker[u].invalid /\ w.duplicate = worker[u].duplicate
    BY <1>1 DEF U!Worker, U!Alive, Over
  <2>3. w.next >= worker[u].next /\ w.next = 1 + w.valid + w.invalid + w.duplicate
    BY <1>1, <1>2, <2>2
  <2>4. w.pc \notin {"accepted", "row", "insert"} /\ w.id \in Campaign
        /\ (w.pc \in {"row", "insert", "failing"} => U!Running(u))
    BY <1>2, <1>5, <2>2 DEF Over
  <2>5. /\ upload'[u].total = upload'[u].valid + upload'[u].invalid + upload'[u].duplicate
        /\ U!Reported(u)' => w.pc \in Over /\ upload'[u].valid = w.valid
    BY <1>5, <2>2
  <2>6. w.pc # "insert" /\ UNCHANGED <<lead, overlap>>
        /\ upload' \in [Upload -> U!UploadRow] /\ \A v \in Upload \ {u} : upload'[v] = upload[v]
    BY <1>5, <2>2 DEF Over
  <2> HIDE DEF w
  <2> QED
    BY <2>1, <2>2, <2>3, <2>4, <2>5, <2>6, CountingKeeps
<1>6. ASSUME U!Complete(u) PROVE UInv'
  <2> DEFINE report == [status |-> "completed", total |-> Len(worker[u].file),
                        valid |-> worker[u].valid, invalid |-> worker[u].invalid,
                        duplicate |-> worker[u].duplicate]
  <2>1. worker[u].pc = "row" /\ ~U!RowsLeft(u) /\ UNCHANGED <<lead, overlap>>
        /\ upload' = [upload EXCEPT ![u] = report]
    BY <1>6 DEF U!Complete
  <2>a. PICK pc \in Over : worker' = [worker EXCEPT ![u].pc = pc]
    BY <1>6 DEF U!Complete, Over
  <2>2. Len(worker[u].file) = worker[u].valid + worker[u].invalid + worker[u].duplicate
    <3>1. worker[u].next = Len(worker[u].file) + 1
      BY <1>1, <1>2, <2>1 DEF U!RowsLeft
    <3>2. worker[u].next = 1 + worker[u].valid + worker[u].invalid + worker[u].duplicate
      BY <1>2
    <3> QED
      BY <1>1, <3>1, <3>2
  <2>3. report \in U!UploadRow
    BY <1>1 DEF U!UploadRow
  <2>4. /\ upload' \in [Upload -> U!UploadRow] /\ upload'[u] = report
        /\ \A v \in Upload \ {u} : upload'[v] = upload[v]
    BY <1>1, <2>1, <2>3
  <2>5. /\ upload'[u].total = upload'[u].valid + upload'[u].invalid + upload'[u].duplicate
        /\ upload'[u].valid = worker[u].valid
    BY <2>2, <2>4
  <2> QED
    BY <1>5, <2>1, <2>a, <2>4, <2>5 DEF U!Alive, U!Running
<1>7. ASSUME U!Throw(u) PROVE UInv'
  <2>1. /\ worker' = [worker EXCEPT ![u].pc = "failing"] /\ UNCHANGED <<lead, upload, overlap>>
        /\ U!Running(u) /\ worker[u].pc \in U!Alive /\ "failing" \in Over
    BY <1>7 DEF U!Throw, U!Running, U!Alive, Over
  <2>2. U!Reported(u)' => U!Reported(u)
    BY <2>1 DEF U!Reported
  <2> QED
    BY <1>1, <1>2, <1>5, <2>1, <2>2
<1>8. ASSUME U!Catch(u) PROVE UInv'
  <2>1. /\ worker' = [worker EXCEPT ![u].pc = "done"] /\ UNCHANGED <<lead, overlap>>
        /\ upload' \in [Upload -> U!UploadRow] /\ \A v \in Upload \ {u} : upload'[v] = upload[v]
        /\ upload'[u].status = "failed" /\ worker[u].pc \in U!Alive
        /\ upload'[u].total = upload[u].total /\ upload'[u].valid = upload[u].valid
        /\ upload'[u].invalid = upload[u].invalid /\ upload'[u].duplicate = upload[u].duplicate
    BY <1>1, <1>8 DEF U!Catch, U!MarkFailed, U!UploadRow, U!Alive
  <2>2. U!Reported(u)' => U!Reported(u)
    BY <2>1 DEF U!Reported
  <2>3. "done" \in Over
    BY DEF Over
  <2> QED
    BY <1>2, <1>5, <2>1, <2>2, <2>3
<1>9. ASSUME U!Lose(u) PROVE UInv'
  <2>1. /\ worker' = [worker EXCEPT ![u].pc = "lost"] /\ UNCHANGED <<lead, upload, overlap>>
        /\ worker[u].pc \in U!Alive /\ "lost" \in Over
    BY <1>9 DEF U!Lose, Over
  <2>2. U!Reported(u)' => U!Reported(u)
    BY <2>1 DEF U!Reported
  <2> QED
    BY <1>1, <1>2, <1>5, <2>1, <2>2
<1> QED
  BY <1>3, <1>4, <1>6, <1>7, <1>8, <1>9

\* Every step of an upload keeps the invariant of the uploads, and the leads.
LEMMA UploadKeeps ==
    ASSUME UInv, U!Next PROVE UInv' /\ lead \subseteq lead'
<1>1. PICK u \in Upload :
        \/ \E c \in Campaign, file \in File : U!Accept(u, c, file)
        \/ U!Step(u)
        \/ U!Throw(u)
        \/ U!Lose(u)
  BY DEF U!Next
<1>2. UInv'
  BY <1>1, StartKeeps, InsertKeeps, OthersKeep DEF U!Step
<1>3. lead \subseteq lead'
  BY <1>1 DEF U!Step, U!Accept, U!Start, U!CheckRow, U!InsertLead, U!Complete, U!Throw, U!Catch, U!Lose
<1> QED
  BY <1>2, <1>3

-----------------------------------------------------------------------------
(* Both together.                                                          *)

\* The inductive invariant of campaigns.service.ts: what its handlers and its
\* uploads rely on, in every interleaving.
THEOREM SpecInv == Spec => [](LInv /\ UInv)
<1>1. LInv /\ UInv /\ [Next]_vars => (LInv /\ UInv)'
  <2> SUFFICES ASSUME LInv, UInv, [Next]_vars PROVE LInv' /\ UInv'
    OBVIOUS
  <2>1. CASE L!Next /\ UNCHANGED <<lead, upload, worker, overlap>>
    <3>1. LInv'
      BY <2>1, LifecycleKeeps
    <3>2. UInv'
      BY <2>1 DEF UInv, U!TypeOK, WorkersKnow, OverlapsKnown, CountersAddUp, U!Running, U!Row,
                  U!RowsLeft, U!LeadsFrom, DuplicatesOnlyFromOverlap,
                  U!DuplicatesOnlyFromOverlap, ReportAddsUp, U!ReportAddsUp, U!Reported
    <3> QED
      BY <3>1, <3>2
  <2>2. CASE U!Next /\ UNCHANGED <<campaign, handler>>
    BY <2>2, UploadKeeps, UploadsAreSafe
  <2>3. CASE UNCHANGED vars
    <3>1. LInv'
      BY <2>3, UploadsAreSafe DEF vars
    <3>2. UInv'
      BY <2>3 DEF vars, UInv, U!TypeOK, WorkersKnow, OverlapsKnown, CountersAddUp, U!Running, U!Row,
                  U!RowsLeft, U!LeadsFrom, DuplicatesOnlyFromOverlap,
                  U!DuplicatesOnlyFromOverlap, ReportAddsUp, U!ReportAddsUp, U!Reported
    <3> QED
      BY <3>1, <3>2
  <2> QED
    BY <2>1, <2>2, <2>3 DEF Next
<1> QED
  BY <1>1, InitLU, PTL DEF Spec

\* The types of the campaigns, their handlers and the uploads.
THEOREM TypeCorrect == Spec => []TypeOK
<1>1. LInv /\ UInv => TypeOK
  BY DEF LInv, UInv, TypeOK
<1> QED
  BY <1>1, SpecInv, PTL

\* A campaign that is active or paused was activated with a lead.
THEOREM RunningCampaignsHaveLeads == Spec => []RunningHasLeads
<1>1. LInv /\ UInv => RunningHasLeads
  BY DEF LInv
<1> QED
  BY <1>1, SpecInv, PTL

\* Two leads of one number in a campaign come from uploads that ran at the
\* same time.
THEOREM DuplicatesNeedOverlap == Spec => []DuplicatesOnlyFromOverlap
<1>1. LInv /\ UInv => DuplicatesOnlyFromOverlap
  BY DEF UInv
<1> QED
  BY <1>1, SpecInv, PTL

\* The counts of an upload are all zero, or they add up and count its leads,
\* whether it is said to have completed or to have failed.
THEOREM ReportsAreRight == Spec => []ReportAddsUp
<1>1. LInv /\ UInv => ReportAddsUp
  BY DEF UInv
<1> QED
  BY <1>1, SpecInv, PTL

-----------------------------------------------------------------------------
(* One handler of a campaign at a time.                                    *)

\* What a handler has found is still so when it writes.
StillAsFound ==
    /\ \A h \in Handler : handler[h] # L!Idle =>
         /\ ~campaign[handler[h].id].deleted
         /\ handler[h].pc = "remove" => campaign[handler[h].id].status = "draft"
    /\ \A c \in Campaign : campaign[c] # L!NoCampaign /\ campaign[c].deleted
                             => campaign[c].status = "draft"

\* What a handler that writes a row has to see to.
LEMMA WriteStillAsFound ==
    ASSUME \A g, h \in Handler : g = h, LInv, StillAsFound,
           NEW h \in Handler, handler[h] # L!Idle, NEW row, L!Write(h, row),
           row.deleted => row.status = "draft"
    PROVE  StillAsFound'
<1>1. /\ handler'[h] = L!Idle
      /\ handler[h].id \in Campaign
      /\ campaign' = [campaign EXCEPT ![handler[h].id] = row]
  BY DEF LInv, L!TypeOK, L!HandlerState, L!Idle, L!Write, L!Finish
<1>2. \A g \in Handler : g = h
  OBVIOUS
<1>3. \A c \in Campaign : c # handler[h].id => campaign'[c] = campaign[c]
  BY <1>1 DEF LInv, L!TypeOK
<1>4. campaign'[handler[h].id] = row
  BY <1>1 DEF LInv, L!TypeOK
<1> QED
  BY <1>1, <1>2, <1>3, <1>4 DEF StillAsFound

LEMMA StillAsFoundStep ==
    ASSUME \A g, h \in Handler : g = h, LInv, StillAsFound, L!Next
    PROVE  StillAsFound'
<1>1. ASSUME NEW h \in Handler, handler[h] # L!Idle
      PROVE  /\ handler[h].id \in Campaign
             /\ handler[h] \in [pc : {"update", "remove", "activate", "activateCommit", "pause",
                                      "resume"}, id : Campaign]
             /\ campaign[handler[h].id] \in
                  [status : L!Status, started : BOOLEAN, deleted : BOOLEAN, setting : Setting]
             /\ ~campaign[handler[h].id].deleted
  BY <1>1 DEF LInv, L!TypeOK, L!HandlerState, L!CampaignRow, StillAsFound
<1>2. ASSUME NEW c \in Campaign, NEW setting \in Setting, L!Create(c, setting)
      PROVE  StillAsFound'
  <2>1. \A h \in Handler : handler[h] # L!Idle => handler[h].id # c /\ handler[h].id \in Campaign
    BY <1>1, <1>2 DEF L!Create, LInv, L!TypeOK
  <2> DEFINE row == [status |-> "draft", started |-> FALSE, deleted |-> FALSE,
                     setting |-> setting]
  <2>2. /\ campaign'[c] = row /\ row.deleted = FALSE /\ UNCHANGED handler
        /\ \A d \in Campaign \ {c} : campaign'[d] = campaign[d]
    BY <1>2 DEF L!Create, LInv, L!TypeOK
  <2> HIDE DEF row
  <2> QED
    BY <2>1, <2>2 DEF StillAsFound
<1>3. ASSUME NEW h \in Handler, NEW c \in Campaign, NEW op \in DOMAIN L!AllowedFrom,
             L!Find(h, c, op)
      PROVE  StillAsFound'
  <2> DEFINE state == [pc |-> op, id |-> c]
  <2>1. /\ ~campaign[c].deleted /\ UNCHANGED campaign
        /\ handler' = [handler EXCEPT ![h] = state]
        /\ op = "remove" => campaign[c].status = "draft"
    BY <1>3 DEF L!Find, L!AllowedFrom
  <2>2. handler'[h] = state /\ \A g \in Handler : g = h
    BY <2>1 DEF LInv, L!TypeOK
  <2> QED
    BY <2>1, <2>2 DEF StillAsFound
<1>4. ASSUME NEW h \in Handler, L!CountLeads(h) PROVE StillAsFound'
  <2>1. handler[h] # L!Idle /\ UNCHANGED campaign
        /\ handler' = [handler EXCEPT ![h].pc = "activateCommit"]
    BY <1>4 DEF L!CountLeads, L!Idle
  <2>2. /\ handler'[h].id = handler[h].id /\ handler'[h].pc = "activateCommit"
        /\ \A g \in Handler : g = h
    BY <1>1, <2>1 DEF LInv, L!TypeOK
  <2> QED
    BY <2>1, <2>2 DEF StillAsFound
<1>5. ASSUME NEW h \in Handler, NEW setting \in Setting, L!Update(h, setting)
      PROVE  StillAsFound'
  <2> DEFINE row == [campaign[handler[h].id] EXCEPT !.setting = setting]
  <2>1. handler[h] # L!Idle /\ L!Write(h, row)
    BY <1>5 DEF L!Update, L!Idle
  <2>2. ~row.deleted
    BY <1>1, <2>1
  <2> HIDE DEF row
  <2> QED
    BY <2>1, <2>2, WriteStillAsFound
<1>6. ASSUME NEW h \in Handler, L!Remove(h) PROVE StillAsFound'
  <2> DEFINE row == [campaign[handler[h].id] EXCEPT !.deleted = TRUE]
  <2>1. handler[h] # L!Idle /\ L!Write(h, row)
    BY <1>6 DEF L!Remove, L!Idle
  <2>2. row.status = "draft"
    BY <1>1, <1>6, <2>1 DEF L!Remove, StillAsFound
  <2> HIDE DEF row
  <2> QED
    BY <2>1, <2>2, WriteStillAsFound
<1>7. ASSUME NEW h \in Handler, L!Activate(h) PROVE StillAsFound'
  <2> DEFINE row == L!Activated(campaign[handler[h].id])
  <2>1. handler[h] # L!Idle /\ L!Write(h, row)
    BY <1>7 DEF L!Activate, L!Idle
  <2>2. ~row.deleted
    BY <1>1, <2>1 DEF L!Activated
  <2> HIDE DEF row
  <2> QED
    BY <2>1, <2>2, WriteStillAsFound
<1>8. ASSUME NEW h \in Handler, L!Pause(h) \/ L!Resume(h) PROVE StillAsFound'
  <2>1. PICK status \in L!Status : L!Write(h, [campaign[handler[h].id] EXCEPT !.status = status])
    BY <1>8 DEF L!Pause, L!Resume, L!Status
  <2> DEFINE row == [campaign[handler[h].id] EXCEPT !.status = status]
  <2>2. handler[h] # L!Idle
    BY <1>8 DEF L!Pause, L!Resume, L!Idle
  <2>3. ~row.deleted
    BY <1>1, <2>2
  <2> HIDE DEF row
  <2> QED
    BY <2>1, <2>2, <2>3, WriteStillAsFound DEF row
<1>9. ASSUME NEW h \in Handler, L!Abandon(h) PROVE StillAsFound'
  BY <1>9 DEF L!Abandon, L!Finish, StillAsFound, LInv, L!TypeOK
<1> QED
  BY <1>2, <1>3, <1>4, <1>5, <1>6, <1>7, <1>8, <1>9 DEF L!Next

\* "Only allowed when status is draft" is kept by handlers that run one at a
\* time: that a deleted campaign can come to run takes two of them.  Uploads
\* may run meanwhile.
THEOREM SerialDeletionIsSafe ==
    ASSUME \A g, h \in Handler : g = h
    PROVE  Spec => []DeletedIsNotRunning
<1>1. Init => StillAsFound
  BY DEF Init, L!Init, StillAsFound
<1>2. LInv /\ StillAsFound /\ [Next]_vars => StillAsFound'
  <2> SUFFICES ASSUME LInv, StillAsFound, [Next]_vars PROVE StillAsFound'
    OBVIOUS
  <2>1. CASE UNCHANGED <<campaign, handler>>
    BY <2>1 DEF StillAsFound
  <2>2. L!Next \/ UNCHANGED <<campaign, handler>>
    BY DEF Next, vars
  <2> QED
    BY <2>1, <2>2, StillAsFoundStep
<1>3. LInv /\ StillAsFound => DeletedIsNotRunning
  BY DEF StillAsFound, DeletedIsNotRunning, L!DeletedIsNotRunning, L!Running, L!NoCampaign
<1> QED
  BY <1>1, <1>2, <1>3, SpecInv, PTL DEF Spec
=============================================================================
