------------------------- MODULE CampaignLifecycle -------------------------
(***************************************************************************)
(* Campaigns and the handlers of campaigns.service.ts that change them.    *)
(* Every handler starts with findOne(), checks the status it read, and     *)
(* later updates the row by its id alone; other handlers run in between.   *)
(*                                                                         *)
(* The leads of a campaign are another component's (LeadUpload): `lead` is *)
(* read here and never written.  No code sets the statuses completed and   *)
(* archived of the schema.                                                 *)
(***************************************************************************)
EXTENDS FiniteSets

CONSTANTS
    Campaign,   \* ids for rows of campaigns
    Setting,    \* what update() may write: script, schedule, disclosure ...
    Handler,    \* handlers the server runs at the same time
    None        \* no campaign

VARIABLES
    campaign,   \* the rows of campaigns
    lead,       \* the rows of leads, each with its campaign
    handler     \* what each handler waits for, and what it has read

vars == <<campaign, handler>>

Status == {"draft", "active", "paused"}

NoCampaign == [status |-> "absent"]

\* started is started_at # null, deleted is deleted_at # null.
CampaignRow == {NoCampaign} \cup
    [status : Status, started : BOOLEAN, deleted : BOOLEAN, setting : Setting]

Idle == [pc |-> "idle", id |-> None]

HandlerState == {Idle} \cup
    [pc : {"update", "remove", "activate", "activateCommit", "pause", "resume"}, id : Campaign]

TypeOK ==
    /\ campaign \in [Campaign -> CampaignRow]
    /\ handler \in [Handler -> HandlerState]
    /\ \A h \in Handler : handler[h] # Idle => campaign[handler[h].id] # NoCampaign

Init ==
    /\ campaign = [c \in Campaign |-> NoCampaign]
    /\ handler = [h \in Handler |-> Idle]

LeadsOf(c) == {l \in lead : l.campaign = c}

-----------------------------------------------------------------------------

\* create(), once the disclosure was found in the organisation.
Create(c, setting) ==
    /\ campaign[c] = NoCampaign
    /\ campaign' = [campaign EXCEPT ![c] =
            [status |-> "draft", started |-> FALSE, deleted |-> FALSE, setting |-> setting]]
    /\ UNCHANGED handler

\* Seeded fault: a draft can be resumed.
AllowedFromDraftToo ==
    [update |-> {"draft", "paused"}, remove |-> {"draft"}, activate |-> {"draft", "paused"},
     pause |-> {"active", "draft"}, resume |-> {"paused"}]

\* The statuses from which each handler goes on.
AllowedFrom ==
    [update |-> {"draft", "paused"}, remove |-> {"draft"}, activate |-> {"draft", "paused"},
     pause |-> {"active"}, resume |-> {"paused"}]

\* findOne() and the status check of every handler.
Find(h, c, op) ==
    /\ handler[h] = Idle
    /\ campaign[c] # NoCampaign
    /\ ~campaign[c].deleted
    /\ campaign[c].status \in AllowedFrom[op]
    /\ handler' = [handler EXCEPT ![h] = [pc |-> op, id |-> c]]
    /\ UNCHANGED campaign

Finish(h) == handler' = [handler EXCEPT ![h] = Idle]

\* campaign.update({where: {id}}): whatever the row is by now.
Write(h, row) ==
    /\ campaign' = [campaign EXCEPT ![handler[h].id] = row]
    /\ Finish(h)

Update(h, setting) ==
    /\ handler[h].pc = "update"
    /\ Write(h, [campaign[handler[h].id] EXCEPT !.setting = setting])

\* Seeded fault: the row is deleted for good.
RemoveRow(h) ==
    /\ handler[h].pc = "remove"
    /\ Write(h, NoCampaign)

Remove(h) ==
    /\ handler[h].pc = "remove"
    /\ Write(h, [campaign[handler[h].id] EXCEPT !.deleted = TRUE])

HasLeads(c) == LeadsOf(c) # {}

\* activate() counts the leads and reads the disclosure.
CountLeads(h) ==
    /\ handler[h].pc = "activate"
    /\ HasLeads(handler[h].id)
    /\ handler' = [handler EXCEPT ![h].pc = "activateCommit"]
    /\ UNCHANGED campaign

Activated(row) == [row EXCEPT !.status = "active", !.started = TRUE]

Activate(h) ==
    /\ handler[h].pc = "activateCommit"
    /\ Write(h, Activated(campaign[handler[h].id]))

Pause(h) ==
    /\ handler[h].pc = "pause"
    /\ Write(h, [campaign[handler[h].id] EXCEPT !.status = "paused"])

Resume(h) ==
    /\ handler[h].pc = "resume"
    /\ Write(h, [campaign[handler[h].id] EXCEPT !.status = "active"])

\* A check refuses, a statement throws or the server stops.
Abandon(h) ==
    /\ handler[h] # Idle
    /\ Finish(h)
    /\ UNCHANGED campaign

Next ==
    \/ \E c \in Campaign, setting \in Setting : Create(c, setting)
    \/ \E h \in Handler :
        \/ \E c \in Campaign, op \in DOMAIN AllowedFrom : Find(h, c, op)
        \/ \E setting \in Setting : Update(h, setting)
        \/ Remove(h)
        \/ CountLeads(h)
        \/ Activate(h)
        \/ Pause(h)
        \/ Resume(h)
        \/ Abandon(h)

-----------------------------------------------------------------------------

Running == {"active", "paused"}

\* AC-CAM-06 and campaigns.started_at: whatever handlers overlap, a campaign
\* that is active or paused was activated with at least one lead and has the
\* time of its activation; pause() and resume() write the status alone, so
\* they must never be the first to take a campaign out of draft.
RunningHasLeads ==
    \A c \in Campaign : campaign[c].status \in Running =>
        campaign[c].started /\ LeadsOf(c) # {}

\* FSD 5.2: "Soft delete. Only allowed when status is draft or completed."
DeletedIsNotRunning ==
    \A c \in Campaign : campaign[c].status \in Running => ~campaign[c].deleted
=============================================================================
