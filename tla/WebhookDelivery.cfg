\* One endpoint and its rotation, two handlers, two dispatches.
CONSTANTS
    Endpoint = {e1}
    Secret = {s1, s2}
    Event = {completed}
    Handler = {h1, h2}
    Dispatch = {d1, d2}
    None = None
SPECIFICATION Spec
INVARIANTS
    TypeOK
PROPERTIES
    RotationIsFinal
    DeliveriesSettle
\* Secrets and dispatches are used up in the end.
CHECK_DEADLOCK FALSE
