\* One campaign, one upload, two handlers.
CONSTANTS
    p1 = p1
    p2 = p2
    Campaign = {c1}
    Setting = {s1}
    Handler = {h1, h2}
    Phone = {p1, p2}
    Invalid = Invalid
    File <- MCFile
    Upload = {u1}
    None = None
SPECIFICATION Spec
INVARIANT
    DeletedIsNotRunning
CHECK_DEADLOCK FALSE
