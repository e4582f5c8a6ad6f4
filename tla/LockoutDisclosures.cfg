\* The limit of the code and three logins of one account; two disclosures, two
\* languages of one jurisdiction and of another, two handlers.
CONSTANTS
    Login = {l1, l2, l3}
    LoginMaxAttempts = 5
    Disclosure = {d1, d2}
    Jurisdiction = {se, no}
    Language = {sv, en}
    Request = {r1, r2}
    Null = Null
SPECIFICATION Spec
SYMMETRY Symmetry
INVARIANTS
    FullCounterIsLocked
    TwoDefaultsAreLate
PROPERTY WrongPasswordsLock
