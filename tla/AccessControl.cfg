\* Two users, two handlers at a time, two roles.
CONSTANTS
    User = {u1, u2}
    Role = {"admin", "agent"}
    Request = {r1, r2}
    None = None
SPECIFICATION Spec
INVARIANT
    TypeOK
PROPERTIES
    LastAdminLeavesByOverrule
    DemotionTakesHold
    DeactivationTakesHold
\* When everybody is deactivated and the tokens have run out nobody can act.
CHECK_DEADLOCK FALSE
