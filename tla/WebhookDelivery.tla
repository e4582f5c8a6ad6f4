--------------------------- MODULE WebhookDelivery ---------------------------
(***************************************************************************)
(* webhooks.service.ts: the handlers that keep the endpoints of an         *)
(* organisation, and dispatch(), which posts an event to the endpoints     *)
(* that want it and leaves the retries running.  A delivery keeps the      *)
(* secret it read; handlers and a stop of the server come in between its   *)
(* attempts.  The URL of an endpoint is read and written with the secret   *)
(* and is left out.                                                        *)
(***************************************************************************)
EXTENDS Integers, Sequences

CONSTANTS
    Endpoint,   \* ids for rows of webhook_endpoints
    Secret,     \* signing secrets; random, so that none is drawn twice
    Event,      \* event types
    Handler,    \* handlers the server runs at the same time
    Dispatch,   \* executions of dispatch()
    None        \* null

ASSUME NoneAssumption == None \notin Event \cup BOOLEAN

VARIABLES
    endpoint,   \* the rows of webhook_endpoints
    handler,    \* what each handler waits for, and the row it has read
    dispatch,   \* the event each dispatch() was called with
    delivery,   \* the execution of deliverWithRetry() for each dispatch and endpoint
    retired     \* history: the secrets that were rotated away

vars == <<endpoint, handler, dispatch, delivery, retired>>

\* RETRY_DELAYS_MS, in seconds.
RetryDelays == <<10, 60, 300>>

NoEndpoint == [status |-> "absent"]

Deleted == [status |-> "deleted"]

Row == [status : {"exists"}, secret : Secret, events : SUBSET Event, active : BOOLEAN]

Exists(e) == endpoint[e].status = "exists"

Idle == [pc |-> "idle"]

HandlerState == {Idle} \cup [pc : {"update", "remove", "rotate"}, id : Endpoint, existing : Row]

Job == Dispatch \X Endpoint

NoDelivery == [pc |-> "none"]

Pending == {"start", "post", "sleep"}

\* A delivery has waited for the first `attempt` delays.
Delivery == {NoDelivery} \cup
    [pc : Pending \cup {"delivered", "failed", "lost"}, secret : Secret,
     attempt : 0..Len(RetryDelays)]

TypeOK ==
    /\ endpoint \in [Endpoint -> Row \cup {NoEndpoint, Deleted}]
    /\ handler \in [Handler -> HandlerState]
    /\ dispatch \in [Dispatch -> Event \cup {None}]
    /\ delivery \in [Job -> Delivery]
    /\ retired \subseteq Secret

Init ==
    /\ endpoint = [e \in Endpoint |-> NoEndpoint]
    /\ handler = [h \in Handler |-> Idle]
    /\ dispatch = [d \in Dispatch |-> None]
    /\ delivery = [job \in Job |-> NoDelivery]
    /\ retired = {}

-----------------------------------------------------------------------------
(* The handlers of the endpoints.                                          *)

Unused(secret) == secret \notin retired /\ \A e \in Endpoint : Exists(e) => endpoint[e].secret # secret

Create(e, secret, events) ==
    /\ endpoint[e] = NoEndpoint
    /\ Unused(secret)
    /\ endpoint' = [endpoint EXCEPT ![e] =
            [status |-> "exists", secret |-> secret, events |-> events, active |-> TRUE]]
    /\ UNCHANGED <<handler, dispatch, delivery, retired>>

\* findOne(), with which update(), remove() and rotateSecret() begin.
FindOne(h, e, op) ==
    /\ handler[h] = Idle
    /\ Exists(e)
    /\ handler' = [handler EXCEPT ![h] = [pc |-> op, id |-> e, existing |-> endpoint[e]]]
    /\ UNCHANGED <<endpoint, dispatch, delivery, retired>>

\* Their second statement, by id; it throws when the row is gone (Abandon).
Write(h, op, row) ==
    /\ handler[h].pc = op
    /\ Exists(handler[h].id)
    /\ endpoint' = [endpoint EXCEPT ![handler[h].id] = row]
    /\ handler' = [handler EXCEPT ![h] = Idle]
    /\ UNCHANGED <<dispatch, delivery>>

\* What update() may be asked to change: any of the columns, or none.  A
\* list of events that is given is not empty.
Changes == [events : SUBSET Event, active : {None} \cup BOOLEAN]

Apply(row, changes) ==
    [row EXCEPT !.events = IF changes.events = {} THEN @ ELSE changes.events,
                !.active = IF changes.active = None THEN @ ELSE changes.active]

\* Seeded fault: the whole row that was read is written back.
UpdateWhole(h, changes) ==
    /\ Write(h, "update", Apply(handler[h].existing, changes))
    /\ UNCHANGED retired

\* update() writes the columns of the request alone.
Update(h, changes) ==
    /\ Write(h, "update", Apply(endpoint[handler[h].id], changes))
    /\ UNCHANGED retired

Remove(h) ==
    /\ Write(h, "remove", Deleted)
    /\ UNCHANGED retired

RotateSecret(h, secret) ==
    /\ Unused(secret)
    /\ Write(h, "rotate", [endpoint[handler[h].id] EXCEPT !.secret = secret])
    /\ retired' = retired \cup {endpoint[handler[h].id].secret}

\* A statement throws.
Abandon(h) ==
    /\ handler[h] # Idle
    /\ handler' = [handler EXCEPT ![h] = Idle]
    /\ UNCHANGED <<endpoint, dispatch, delivery, retired>>

-----------------------------------------------------------------------------
(* dispatch() and deliverWithRetry().                                      *)

Wants(e, event) == Exists(e) /\ endpoint[e].active /\ event \in endpoint[e].events

\* findMany.  The rows it finds, with their secrets, are what will be posted.
DispatchFind(d, event) ==
    /\ dispatch[d] = None
    /\ dispatch' = [dispatch EXCEPT ![d] = event]
    /\ delivery' = [job \in Job |->
            IF job[1] = d /\ Wants(job[2], event)
            THEN [pc |-> "start", secret |-> endpoint[job[2]].secret, attempt |-> 0]
            ELSE delivery[job]]
    /\ UNCHANGED <<endpoint, handler, retired>>

\* dispatch() goes on, and starts its deliveries before anything else runs.
DispatchStart(d) ==
    /\ \E job \in Job : job[1] = d /\ delivery[job].pc = "start"
    /\ delivery' = [job \in Job |->
            IF job[1] = d /\ delivery[job].pc = "start"
            THEN [delivery[job] EXCEPT !.pc = "post"] ELSE delivery[job]]
    /\ UNCHANGED <<endpoint, handler, dispatch, retired>>

\* res.ok
Ok(job) ==
    /\ delivery[job].pc = "post"
    /\ delivery' = [delivery EXCEPT ![job].pc = "delivered"]
    /\ UNCHANGED <<endpoint, handler, dispatch, retired>>

\* Seeded fault: an attempt more than there are delays.
MayRetryPastDelays(attempt) == attempt <= Len(RetryDelays)

MayRetry(attempt) == attempt < Len(RetryDelays) - 1

\* Another status, no connection, or no answer within ten seconds; the
\* endpoint may have received the POST all the same.
Fail(job) ==
    /\ delivery[job].pc = "post"
    /\ delivery' = [delivery EXCEPT ![job].pc =
            IF MayRetry(delivery[job].attempt) THEN "sleep" ELSE "failed"]
    /\ UNCHANGED <<endpoint, handler, dispatch, retired>>

\* Seeded fault: the attempts are not counted.
AgainUncounted(job) ==
    delivery' = [delivery EXCEPT ![job].pc = "post"]

Again(job) ==
    delivery' = [delivery EXCEPT ![job].pc = "post", ![job].attempt = @ + 1]

\* The delay is over.
Wake(job) ==
    /\ delivery[job].pc = "sleep"
    /\ Again(job)
    /\ UNCHANGED <<endpoint, handler, dispatch, retired>>

\* The server stops; what its handlers and deliveries waited for is gone.
Crash ==
    /\ handler' = [h \in Handler |-> Idle]
    /\ delivery' = [job \in Job |->
            IF delivery[job].pc \in Pending
            THEN [delivery[job] EXCEPT !.pc = "lost"] ELSE delivery[job]]
    /\ UNCHANGED <<endpoint, dispatch, retired>>

Step(job) == Ok(job) \/ Fail(job) \/ Wake(job)

Next ==
    \/ \E e \in Endpoint, secret \in Secret, events \in SUBSET Event \ {{}} :
        Create(e, secret, events)
    \/ \E h \in Handler :
        \/ \E e \in Endpoint, op \in {"update", "remove", "rotate"} : FindOne(h, e, op)
        \/ \E changes \in Changes : Update(h, changes)
        \/ \E secret \in Secret : RotateSecret(h, secret)
        \/ Remove(h)
        \/ Abandon(h)
    \/ \E d \in Dispatch :
        \/ \E event \in Event : DispatchFind(d, event)
        \/ DispatchStart(d)
    \/ \E job \in Job : Step(job)
    \/ Crash

\* Node runs what can go on, fetch ends within its timeout of ten seconds, and
\* timers fire.
Fairness ==
    /\ \A d \in Dispatch : WF_vars(DispatchStart(d))
    /\ \A job \in Job : WF_vars(Step(job))

Spec == Init /\ [][Next]_vars /\ Fairness

-----------------------------------------------------------------------------

\* A rotated secret signs nothing whose endpoints are looked up later (FSD
\* AC-INT-04), with updates of the same endpoint that read the row before the
\* rotation and write it after.  What was looked up before goes on with it.
RotationIsFinal ==
    [][\A job \in Job :
        delivery[job] = NoDelivery /\ delivery'[job] # NoDelivery
            => delivery'[job].secret \notin retired]_vars

\* Every delivery comes to an end: whatever its endpoint answers, or if it
\* never answers, and however often the endpoint is changed meanwhile.
DeliveriesSettle ==
    \A job \in Job :
        delivery[job].pc \in Pending ~> delivery[job].pc \in {"delivered", "failed", "lost"}

\* A failed webhook is retried three times before it is given up: what the
\* acceptance criterion and the comment on RETRY_DELAYS_MS say.
FailedAfterThreeRetries ==
    \A job \in Job : delivery[job].pc = "failed" => delivery[job].attempt = Len(RetryDelays)

\* An endpoint that is inactive, or gone, is not called: what the acceptance
\* criterion says, asked of the retries, up to 70 seconds after findMany.
InactiveAreNotCalled ==
    [][\A job \in Job :
        delivery[job].pc = "sleep" /\ delivery'[job].pc = "post"
            => Exists(job[2]) /\ endpoint[job[2]].active]_vars

-----------------------------------------------------------------------------
(* What makes them inductive.                                              *)

\* No row has a secret that was rotated away, and no two have the same, so
\* that a rotation retires the secret of one endpoint alone.
SecretsOK ==
    \A e \in Endpoint : Exists(e) =>
        /\ endpoint[e].secret \notin retired
        /\ \A f \in Endpoint : Exists(f) /\ endpoint[f].secret = endpoint[e].secret => e = f

\* A delivery sleeps only before an attempt it may still make.
SleepOK == \A job \in Job : delivery[job].pc = "sleep" => delivery[job].attempt < 2

IInv == TypeOK /\ SecretsOK /\ SleepOK
=============================================================================
