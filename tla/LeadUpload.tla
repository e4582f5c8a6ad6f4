----------------------------- MODULE LeadUpload -----------------------------
(***************************************************************************)
(* CSV uploads of leads: uploadLeads(), which answers 202, and the work it *)
(* leaves running, processLeadUpload().  The worker awaits the database    *)
(* twice for each row, so that several uploads, and the handlers of        *)
(* CampaignLifecycle, interleave with it.  `campaign` is read here and     *)
(* never written.                                                          *)
(***************************************************************************)
EXTENDS Naturals, Sequences, FiniteSets

CONSTANTS
    Campaign,   \* ids for rows of campaigns
    Phone,      \* normalised phone numbers
    Invalid,    \* a row without a name or a phone normalizePhone() accepts
    File,       \* uploaded files: sequences of Phone and Invalid
    Upload,     \* ids for rows of lead_uploads
    None        \* no campaign

VARIABLES
    campaign,   \* the rows of campaigns
    lead,       \* the rows of leads
    upload,     \* the rows of lead_uploads
    worker,     \* the execution of processLeadUpload for each upload
    overlap     \* history: the pairs of uploads that ran at the same time

vars == <<lead, upload, worker, overlap>>

Lead == [campaign : Campaign, phone : Phone, upload : Upload, row : Nat \ {0}]

NoUpload == [status |-> "absent", total |-> 0, valid |-> 0, invalid |-> 0, duplicate |-> 0]

UploadRow ==
    [status : {"absent", "processing", "completed", "failed"},
     total : Nat, valid : Nat, invalid : Nat, duplicate : Nat]

Waiting == [pc |-> "waiting", id |-> None, file |-> <<>>, next |-> 1,
            valid |-> 0, invalid |-> 0, duplicate |-> 0]

\* Statements at which a worker awaits the database.
Alive == {"accepted", "row", "insert", "failing"}

Worker ==
    [pc : Alive \cup {"waiting", "done", "lost"}, id : Campaign \cup {None},
     file : File \cup {<<>>}, next : Nat \ {0}, valid : Nat, invalid : Nat, duplicate : Nat]

TypeOK ==
    /\ lead \subseteq Lead
    /\ upload \in [Upload -> UploadRow]
    /\ worker \in [Upload -> Worker]
    /\ overlap \subseteq Upload \X Upload

Init ==
    /\ lead = {}
    /\ upload = [u \in Upload |-> NoUpload]
    /\ worker = [u \in Upload |-> Waiting]
    /\ overlap = {}

Row(u) == worker[u].file[worker[u].next]

RowsLeft(u) == worker[u].next <= Len(worker[u].file)

LeadsFrom(u) == {l \in lead : l.upload = u}

Running(u) == worker[u].pc \in {"row", "insert", "failing"}

-----------------------------------------------------------------------------

\* uploadLeads(): findOne() of the campaign, and a usable field mapping.
Accept(u, c, file) ==
    /\ worker[u] = Waiting
    /\ campaign[c].status # "absent"
    /\ ~campaign[c].deleted
    /\ worker' = [worker EXCEPT ![u].pc = "accepted", ![u].id = c, ![u].file = file]
    /\ UNCHANGED <<lead, upload, overlap>>

\* uploadLeads(): leadUpload.create; the worker runs from here on.
Start(u) ==
    /\ worker[u].pc = "accepted"
    /\ upload' = [upload EXCEPT ![u].status = "processing"]
    /\ worker' = [worker EXCEPT ![u].pc = "row"]
    /\ overlap' = overlap \cup UNION {{<<u, v>>, <<v, u>>} : v \in {w \in Upload : Running(w)}}
    /\ UNCHANGED lead

\* Seeded fault: duplicates are looked for in the same upload only.
KnownFromUpload(u) ==
    \E l \in lead : l.upload = u /\ l.phone = Row(u)

\* lead.findFirst by campaign and phone number.
Known(u) ==
    \E l \in lead : l.campaign = worker[u].id /\ l.phone = Row(u)

\* Seeded fault: a duplicate is not counted.
SkipUncounted(u) ==
    worker' = [worker EXCEPT ![u].next = @ + 1]

CountDuplicate(u) ==
    worker' = [worker EXCEPT ![u].next = @ + 1, ![u].duplicate = @ + 1]

\* One row of the loop up to the answer of findFirst.
CheckRow(u) ==
    /\ worker[u].pc = "row"
    /\ RowsLeft(u)
    /\ \/ /\ Row(u) = Invalid
          /\ worker' = [worker EXCEPT ![u].next = @ + 1, ![u].invalid = @ + 1]
       \/ /\ Row(u) # Invalid
          /\ Known(u)
          /\ CountDuplicate(u)
       \/ /\ Row(u) # Invalid
          /\ ~Known(u)
          /\ worker' = [worker EXCEPT ![u].pc = "insert"]
    /\ UNCHANGED <<lead, upload, overlap>>

\* lead.create; there is no unique index over campaign and phone number.
InsertLead(u) ==
    /\ worker[u].pc = "insert"
    /\ lead' = lead \cup {[campaign |-> worker[u].id, phone |-> Row(u), upload |-> u,
                           row |-> worker[u].next]}
    /\ worker' = [worker EXCEPT ![u].pc = "row", ![u].next = @ + 1, ![u].valid = @ + 1]
    /\ UNCHANGED <<upload, overlap>>

\* The last update of the try block.  If its answer is lost it has thrown,
\* and the catch block follows a report that is already in the row.
Complete(u) ==
    /\ worker[u].pc = "row"
    /\ ~RowsLeft(u)
    /\ upload' = [upload EXCEPT ![u] =
            [status |-> "completed", total |-> Len(worker[u].file), valid |-> worker[u].valid,
             invalid |-> worker[u].invalid, duplicate |-> worker[u].duplicate]]
    /\ \E pc \in {"done", "failing"} : worker' = [worker EXCEPT ![u].pc = pc]
    /\ UNCHANGED <<lead, overlap>>

\* A statement of the try block throws; the leads inserted so far stay.
Throw(u) ==
    /\ worker[u].pc \in {"row", "insert"}
    /\ worker' = [worker EXCEPT ![u].pc = "failing"]
    /\ UNCHANGED <<lead, upload, overlap>>

\* Seeded fault: the catch block only logs.
LogOnly(u) == UNCHANGED upload

MarkFailed(u) == upload' = [upload EXCEPT ![u].status = "failed"]

\* The update in the catch block; it leaves the counts as they are.
Catch(u) ==
    /\ worker[u].pc = "failing"
    /\ MarkFailed(u)
    /\ worker' = [worker EXCEPT ![u].pc = "done"]
    /\ UNCHANGED <<lead, overlap>>

\* The server stops, or the update in the catch block throws as well.
\* Nothing looks for the upload again.
Lose(u) ==
    /\ worker[u].pc \in Alive
    /\ worker' = [worker EXCEPT ![u].pc = "lost"]
    /\ UNCHANGED <<lead, upload, overlap>>

\* What the event loop runs of one upload.
Step(u) == Start(u) \/ CheckRow(u) \/ InsertLead(u) \/ Complete(u) \/ Catch(u)

Next ==
    \E u \in Upload :
        \/ \E c \in Campaign, file \in File : Accept(u, c, file)
        \/ Step(u)
        \/ Throw(u)
        \/ Lose(u)

-----------------------------------------------------------------------------

\* The lookup runs before each insert, so one upload never inserts a number
\* twice; and two uploads insert the same number into a campaign only if
\* they ran at the same time, each between the other's lookup and insert.
DuplicatesOnlyFromOverlap ==
    \A k, l \in lead :
        k.campaign = l.campaign /\ k.phone = l.phone =>
            k = l \/ (k.upload # l.upload /\ <<k.upload, l.upload>> \in overlap)

\* The row holds a report: that of an upload that completed, or of one whose
\* completion was answered by an error.
Reported(u) == upload[u].status = "completed" \/ upload[u].total # 0

\* An upload never reports a part of its rows, however it ended: the counts
\* of its row are all zero, although a failed upload may leave leads, or they
\* add up over the whole file and the valid rows are exactly the leads it
\* inserted, for every interleaving with other uploads.  Valid, invalid and
\* duplicate rows are three kinds; the FSD has two (TotalIsValidOrInvalid).
ReportAddsUp ==
    \A u \in Upload :
        /\ upload[u].total = upload[u].valid + upload[u].invalid + upload[u].duplicate
        /\ Reported(u) => upload[u].valid = Cardinality(LeadsFrom(u))

\* FSD 5.2.3, the report of an upload: 500 total rows, 487 valid, 13 invalid
\* and 5 duplicate; a duplicate is no kind of its own there.
TotalIsValidOrInvalid ==
    \A u \in Upload : upload[u].status = "completed" =>
        upload[u].total = upload[u].valid + upload[u].invalid

\* Every upload that is polled comes to an end, if its worker is not lost.
UploadSettles ==
    \A u \in Upload :
        upload[u].status = "processing" ~>
            upload[u].status \in {"completed", "failed"} \/ worker[u].pc = "lost"
=============================================================================
