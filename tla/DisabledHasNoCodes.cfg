\* One handler at a time: a setup, its confirmation, and the factor is disabled.
CONSTANTS
    Secret = {s1, s2}
    CodeCount = 2
    Otp = {o1}
    Request = {r1}
    None = None
SPECIFICATION Spec
INVARIANT
    DisabledHasNoCodes
