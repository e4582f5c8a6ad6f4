\* One campaign, two handlers, two uploads of either file.
CONSTANTS
    p1 = p1
    p2 = p2
    Campaign = {c1}
    Setting = {s1}
    Handler = {h1, h2}
    Phone = {p1, p2}
    Invalid = Invalid
    File <- MCFile
    Upload = {u1, u2}
    None = None
SPECIFICATION Spec
INVARIANTS
    TypeOK
    RunningHasLeads
    DuplicatesOnlyFromOverlap
    ReportAddsUp
PROPERTIES
    UploadSettles
\* A deleted campaign and finished uploads leave nothing to do.
CHECK_DEADLOCK FALSE
