\* Two accounts and a free address, two reset links, two handlers.
CONSTANTS
    User = {u1, u2}
    Email = {e1, e2, e3}
    Link = {l1, l2}
    Request = {r1, r2}
    None = None
SPECIFICATION Spec
SYMMETRY Symmetry
INVARIANTS
    TypeOK
    VerifiedWasProven
    SpentLinksAreDead
    OneLinkPerHandler
    OnlyOwnersReset
