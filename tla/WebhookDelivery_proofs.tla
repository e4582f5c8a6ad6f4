----------------------- MODULE WebhookDelivery_proofs -----------------------
(***************************************************************************)
(* Theorems about WebhookDelivery, for any endpoints, secrets, events,     *)
(* handlers and dispatches.                                                *)
(***************************************************************************)
EXTENDS WebhookDelivery, TLAPS

\* A handler that waits at a statement has read the row of an endpoint.
LEMMA Busy ==
    ASSUME TypeOK, NEW h \in Handler, handler[h].pc \in {"update", "remove", "rotate"}
    PROVE  handler[h].id \in Endpoint /\ handler[h].existing \in Row
  BY DEF TypeOK, HandlerState, Idle

\* A row is one of the type that has a secret.
LEMMA RowOf ==
    ASSUME TypeOK, NEW e \in Endpoint, Exists(e)
    PROVE  endpoint[e] \in Row
  BY DEF TypeOK, Exists, NoEndpoint, Deleted

\* A request to update() leaves a row a row, with its secret.
LEMMA Applied ==
    ASSUME NEW row \in Row, NEW changes \in Changes
    PROVE  Apply(row, changes) \in Row /\ Apply(row, changes).secret = row.secret
  BY NoneAssumption DEF Row, Apply, Changes

\* What a statement by id writes keeps the types, if the row it writes does.
LEMMA WriteTyped ==
    ASSUME TypeOK, NEW h \in Handler, NEW op \in {"update", "remove", "rotate"},
           NEW row \in Row \cup {Deleted}, Write(h, op, row), retired' \subseteq Secret
    PROVE  TypeOK' /\ handler[h].id \in Endpoint
<1>1. handler[h].id \in Endpoint
  BY Busy DEF Write
<1>2. endpoint' \in [Endpoint -> Row \cup {NoEndpoint, Deleted}]
  BY <1>1 DEF TypeOK, Write
<1>3. handler' \in [Handler -> HandlerState]
  BY DEF TypeOK, Write, HandlerState
<1> QED
  BY <1>1, <1>2, <1>3 DEF TypeOK, Write

\* A retry is the second or the third attempt: the last delay is never used.
LEMMA RetryBound ==
    ASSUME NEW attempt \in 0..Len(RetryDelays) PROVE MayRetry(attempt) <=> attempt < 2
<1>1. Len(RetryDelays) = 3
  BY DEF RetryDelays
<1> QED
  BY <1>1 DEF MayRetry

\* Every step of a delivery keeps its type and the bound on its attempts.
LEMMA StepTyped ==
    ASSUME TypeOK, SleepOK, NEW job \in Job, Step(job)
    PROVE  delivery' \in [Job -> Delivery] /\ SleepOK'
<1> USE DEF TypeOK, SleepOK, Delivery, Pending, NoDelivery
<1>1. CASE Ok(job)
  BY <1>1 DEF Ok
<1>2. CASE Fail(job)
  BY <1>2, RetryBound DEF Fail
<1>3. CASE Wake(job)
  <2>1. delivery[job].attempt + 1 \in 0..Len(RetryDelays)
    BY <1>3 DEF Wake, RetryDelays
  <2> QED
    BY <1>3, <2>1 DEF Wake, Again
<1> QED
  BY <1>1, <1>2, <1>3 DEF Step

\* The handlers' statements, and what each does to the secrets.
LEMMA HandlersKeep ==
    ASSUME IInv, NEW h \in Handler,
           \/ \E e \in Endpoint, op \in {"update", "remove", "rotate"} : FindOne(h, e, op)
           \/ \E changes \in Changes : Update(h, changes)
           \/ \E secret \in Secret : RotateSecret(h, secret)
           \/ Remove(h)
           \/ Abandon(h)
    PROVE  TypeOK' /\ SecretsOK' /\ UNCHANGED delivery
<1> USE DEF IInv
<1>1. ASSUME NEW e \in Endpoint, NEW op \in {"update", "remove", "rotate"}, FindOne(h, e, op)
      PROVE  TypeOK' /\ SecretsOK' /\ UNCHANGED delivery
  <2>1. endpoint[e] \in Row
    BY <1>1, RowOf DEF FindOne
  <2>2. handler' \in [Handler -> HandlerState]
    BY <1>1, <2>1 DEF FindOne, TypeOK, HandlerState
  <2> QED
    BY <1>1, <2>2 DEF FindOne, TypeOK, SecretsOK, Exists
<1>2. ASSUME NEW changes \in Changes, Update(h, changes)
      PROVE  TypeOK' /\ SecretsOK' /\ UNCHANGED delivery
  <2> DEFINE id == handler[h].id
             row == Apply(endpoint[id], changes)
  <2>1. id \in Endpoint /\ Exists(id)
    BY <1>2, Busy DEF Update, Write
  <2>2. row \in Row /\ row.secret = endpoint[id].secret
    BY <2>1, RowOf, Applied
  <2>3. TypeOK'
    BY <1>2, <2>2, WriteTyped DEF Update, TypeOK
  <2>4. \A e \in Endpoint : Exists(e)' => Exists(e) /\ endpoint'[e].secret = endpoint[e].secret
    BY <1>2, <2>1, <2>2 DEF Update, Write, TypeOK, Exists
  <2> QED
    BY <1>2, <2>3, <2>4 DEF Update, Write, SecretsOK
<1>3. ASSUME NEW secret \in Secret, RotateSecret(h, secret)
      PROVE  TypeOK' /\ SecretsOK' /\ UNCHANGED delivery
  <2> DEFINE id == handler[h].id
             row == [endpoint[id] EXCEPT !.secret = secret]
  <2>1. id \in Endpoint /\ Exists(id)
    BY <1>3, Busy DEF RotateSecret, Write
  <2>2. endpoint[id] \in Row
    BY <2>1, RowOf
  <2>3. row \in Row /\ row.secret = secret
    BY <2>2 DEF Row
  <2>4. TypeOK'
    <3>1. retired' \subseteq Secret
      BY <1>3, <2>2 DEF RotateSecret, TypeOK, Row
    <3> QED
      BY <1>3, <2>3, <3>1, WriteTyped DEF RotateSecret
  <2>5. endpoint' = [endpoint EXCEPT ![id] = row] /\ retired' = retired \cup {endpoint[id].secret}
    BY <1>3 DEF RotateSecret, Write
  <2>6. secret \notin retired /\ \A e \in Endpoint : Exists(e) => endpoint[e].secret # secret
    BY <1>3 DEF RotateSecret, Unused
  <2>7. \A e \in Endpoint \ {id} : Exists(e)' => Exists(e) /\ endpoint'[e] = endpoint[e]
    BY <2>5 DEF TypeOK, Exists
  <2>8. endpoint'[id].secret = secret
    BY <2>1, <2>3, <2>5 DEF TypeOK
  <2>9. SecretsOK'
    BY <2>1, <2>5, <2>6, <2>7, <2>8 DEF SecretsOK
  <2> QED
    BY <1>3, <2>4, <2>9 DEF RotateSecret, Write
<1>4. ASSUME Remove(h)
      PROVE  TypeOK' /\ SecretsOK' /\ UNCHANGED delivery
  <2>1. TypeOK' /\ handler[h].id \in Endpoint
    BY <1>4, WriteTyped DEF Remove, TypeOK
  <2>2. \A e \in Endpoint : Exists(e)' => Exists(e) /\ endpoint'[e] = endpoint[e]
    BY <1>4, <2>1 DEF Remove, Write, TypeOK, Exists, Deleted
  <2> QED
    BY <1>4, <2>1, <2>2 DEF Remove, Write, SecretsOK
<1>5. ASSUME Abandon(h)
      PROVE  TypeOK' /\ SecretsOK' /\ UNCHANGED delivery
  BY <1>5 DEF Abandon, TypeOK, HandlerState, SecretsOK, Exists
<1> QED
  BY <1>1, <1>2, <1>3, <1>4, <1>5

\* The invariant is inductive.
THEOREM NextIInv == IInv /\ [Next]_vars => IInv'
<1> SUFFICES ASSUME IInv, [Next]_vars PROVE IInv'
  OBVIOUS
<1> USE DEF IInv
<1>1. ASSUME NEW e \in Endpoint, NEW secret \in Secret, NEW events \in SUBSET Event \ {{}},
             Create(e, secret, events)
      PROVE  IInv'
  <2> DEFINE row == [status |-> "exists", secret |-> secret, events |-> events, active |-> TRUE]
  <2>1. row \in Row
    BY DEF Row
  <2>2. TypeOK'
    BY <1>1, <2>1 DEF Create, TypeOK
  <2>3. \A f \in Endpoint \ {e} : Exists(f)' => Exists(f) /\ endpoint'[f] = endpoint[f]
    BY <1>1 DEF Create, TypeOK, Exists
  <2>4. endpoint'[e].secret = secret
    BY <1>1 DEF Create, TypeOK
  <2>5. SecretsOK'
    BY <1>1, <2>3, <2>4 DEF Create, Unused, SecretsOK
  <2> QED
    BY <1>1, <2>2, <2>5 DEF Create, SleepOK
<1>2. ASSUME NEW h \in Handler,
             \/ \E e \in Endpoint, op \in {"update", "remove", "rotate"} : FindOne(h, e, op)
             \/ \E changes \in Changes : Update(h, changes)
             \/ \E secret \in Secret : RotateSecret(h, secret)
             \/ Remove(h)
             \/ Abandon(h)
      PROVE  IInv'
  BY <1>2, HandlersKeep DEF SleepOK
<1>3. ASSUME NEW d \in Dispatch, NEW event \in Event, DispatchFind(d, event)
      PROVE  IInv'
  <2>1. \A e \in Endpoint : Wants(e, event) => endpoint[e].secret \in Secret
    BY RowOf DEF Wants, Row
  <2>2. delivery' \in [Job -> Delivery] /\ SleepOK'
    BY <1>3, <2>1 DEF DispatchFind, Job, TypeOK, Delivery, Pending, SleepOK, RetryDelays
  <2>3. dispatch' \in [Dispatch -> Event \cup {None}]
    BY <1>3 DEF DispatchFind, TypeOK
  <2> QED
    BY <1>3, <2>2, <2>3 DEF DispatchFind, TypeOK, SecretsOK, Exists
<1>4. ASSUME NEW job \in Job, Step(job)
      PROVE  IInv'
  <2>1. UNCHANGED <<endpoint, handler, dispatch, retired>>
    BY <1>4 DEF Step, Ok, Fail, Wake
  <2> QED
    BY <1>4, <2>1, StepTyped DEF TypeOK, SecretsOK, Exists
<1>5. CASE Crash
  <2>1. handler' \in [Handler -> HandlerState]
    BY <1>5 DEF Crash, HandlerState
  <2>2. delivery' \in [Job -> Delivery] /\ SleepOK'
    BY <1>5 DEF Crash, TypeOK, Delivery, Pending, NoDelivery, SleepOK
  <2> QED
    BY <1>5, <2>1, <2>2 DEF Crash, TypeOK, SecretsOK, Exists
<1>6. ASSUME NEW d \in Dispatch, DispatchStart(d)
      PROVE  IInv'
  <2>1. delivery' \in [Job -> Delivery] /\ SleepOK'
    BY <1>6 DEF DispatchStart, TypeOK, Delivery, Pending, NoDelivery, SleepOK
  <2> QED
    BY <1>6, <2>1 DEF DispatchStart, TypeOK, SecretsOK, Exists
<1>7. CASE UNCHANGED vars
  BY <1>7 DEF vars, TypeOK, SecretsOK, SleepOK, Exists
<1> QED
  BY <1>1, <1>2, <1>3, <1>4, <1>5, <1>6, <1>7 DEF Next

\* The invariant holds in every reachable state.
THEOREM SpecIInv == Spec => []IInv
<1>1. Init => IInv
  BY DEF Init, IInv, TypeOK, SecretsOK, SleepOK, HandlerState, Delivery, Exists,
         NoEndpoint, NoDelivery
<1> QED
  BY <1>1, NextIInv, PTL DEF Spec

\* Type correctness: of the endpoints and handlers, and that no attempt of a
\* delivery lies behind the last delay there is.
THEOREM TypeCorrect == Spec => []TypeOK
  BY SpecIInv, PTL DEF IInv

\* A secret that rotateSecret() replaced signs no later dispatch, however
\* update(), remove() and other rotations of the endpoint interleave with it:
\* a delivery takes the secret of a row, and no row has a retired one.
THEOREM RotationHolds == Spec => RotationIsFinal
<1>1. IInv /\ [Next]_vars =>
        \A job \in Job : delivery[job] = NoDelivery /\ delivery'[job] # NoDelivery
                            => delivery'[job].secret \notin retired
  <2> SUFFICES ASSUME IInv, [Next]_vars, NEW job \in Job,
                      delivery[job] = NoDelivery, delivery'[job] # NoDelivery
               PROVE  delivery'[job].secret \notin retired
    OBVIOUS
  <2>1. ASSUME NEW d \in Dispatch, NEW event \in Event, DispatchFind(d, event)
        PROVE  delivery'[job].secret \notin retired
    <3>1. /\ Wants(job[2], event)
          /\ delivery'[job].secret = endpoint[job[2]].secret
      BY <2>1 DEF DispatchFind
    <3>2. job[2] \in Endpoint
      BY DEF Job
    <3> QED
      BY <3>1, <3>2 DEF Wants, IInv, SecretsOK
  <2>2. ASSUME NEW j \in Job, Step(j) PROVE FALSE
    BY <2>2 DEF Step, Ok, Fail, Wake, Again, NoDelivery, IInv, TypeOK
  <2>3. ASSUME Crash \/ \E d \in Dispatch : DispatchStart(d) PROVE FALSE
    BY <2>3 DEF Crash, DispatchStart, NoDelivery, Pending
  <2>4. ASSUME NEW h \in Handler,
               \/ \E e \in Endpoint, op \in {"update", "remove", "rotate"} : FindOne(h, e, op)
               \/ \E changes \in Changes : Update(h, changes)
               \/ \E secret \in Secret : RotateSecret(h, secret)
               \/ Remove(h)
               \/ Abandon(h)
        PROVE  FALSE
    BY <2>4, HandlersKeep
  <2> QED
    BY <2>1, <2>2, <2>3, <2>4 DEF Next, Create, vars
<1>2. IInv /\ [Next]_vars =>
        [\A job \in Job : delivery[job] = NoDelivery /\ delivery'[job] # NoDelivery
                             => delivery'[job].secret \notin retired]_vars
  BY <1>1
<1> QED
  BY <1>2, SpecIInv, PTL DEF Spec, RotationIsFinal
=============================================================================
