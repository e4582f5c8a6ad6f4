\* Three accounts, two addresses, two invitations, two names, three handlers.
CONSTANTS
    User = {u1, u2, u3}
    Email = {e1, e2}
    Invite = {i1, i2}
    Slug = {s1, s2}
    Home = Home
    Request = {r1, r2, r3}
    None = None
SPECIFICATION Spec
SYMMETRY Symmetry
INVARIANTS
    TypeOK
    EmptyOrgsAreExcused
    PendingTwiceWasLate
    AcceptedIsClosed
    SecondAccountMoved
\* Rows are never removed: when the ids are used up nothing is left to do.
CHECK_DEADLOCK FALSE
