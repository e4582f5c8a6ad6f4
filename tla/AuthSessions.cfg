\* One user the admin endpoints act on, two handlers at a time, three token rows.
CONSTANTS
    User = {u1}
    Admin = {root, u1}
    Token = {t1, t2, t3}
    Session = {s1, s2}
    Request = {r1, r2}
    None = None
SPECIFICATION Spec
SYMMETRY Symmetry
INVARIANTS
    TypeOK
    
    InactiveOnlyEscaped
    OneSuccessorPerHandler
PROPERTY ImplementsSessionGate
