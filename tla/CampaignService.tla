-------------------------- MODULE CampaignService --------------------------
(***************************************************************************)
(* campaigns.service.ts: the lifecycle handlers and the uploads over one   *)
(* database.  Activation counts the leads that uploads insert; an upload   *)
(* looks for its campaign once and goes on after it was deleted.           *)
(***************************************************************************)
EXTENDS Naturals, Sequences, FiniteSets

CONSTANTS Campaign, Setting, Handler, Phone, Invalid, File, Upload, None

ASSUME CampaignAssumption == None \notin Campaign

ASSUME FileAssumption == File \subseteq Seq(Phone \cup {Invalid}) /\ Invalid \notin Phone

VARIABLES campaign, handler, lead, upload, worker, overlap

vars == <<campaign, handler, lead, upload, worker, overlap>>

L == INSTANCE CampaignLifecycle

U == INSTANCE LeadUpload

Init == L!Init /\ U!Init

Next ==
    \/ L!Next /\ UNCHANGED <<lead, upload, worker, overlap>>
    \/ U!Next /\ UNCHANGED <<campaign, handler>>

\* Node runs every promise that can go on.
Fairness == \A u \in Upload : WF_vars(U!Step(u) /\ UNCHANGED <<campaign, handler>>)

Spec == Init /\ [][Next]_vars /\ Fairness

\* The types of both components.
TypeOK == L!TypeOK /\ U!TypeOK

\* AC-CAM-06: see CampaignLifecycle.  It holds against uploads that start,
\* fail and are lost at any time, because leads are only ever added.
RunningHasLeads == L!RunningHasLeads

\* See LeadUpload: where two leads of one number can come from.
DuplicatesOnlyFromOverlap == U!DuplicatesOnlyFromOverlap

\* See LeadUpload: AC-CAM-02, counts match; no report is partial.
ReportAddsUp == U!ReportAddsUp

\* FSD 5.2.3: see LeadUpload.
TotalIsValidOrInvalid == U!TotalIsValidOrInvalid

\* See LeadUpload: the poller gets an answer.
UploadSettles == U!UploadSettles

\* FSD 5.2: see CampaignLifecycle.
DeletedIsNotRunning == L!DeletedIsNotRunning
=============================================================================
