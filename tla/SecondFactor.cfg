\* Two setups of two codes each, three one-time codes, two handlers.
CONSTANTS
    Secret = {s1, s2}
    CodeCount = 2
    Otp = {o1, o2, o3}
    Request = {r1, r2}
    None = None
SPECIFICATION Spec
SYMMETRY Symmetry
INVARIANTS
    TypeOK
    OtpUsedOnce
    OneOtpPerHandler
    VoidStaysVoid
    EnabledWasConfirmed
