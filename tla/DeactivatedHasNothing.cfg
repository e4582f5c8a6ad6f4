\* One handler at a time: a login is half done when the account is deactivated.
CONSTANTS
    User = {u1}
    Admin = {root}
    Token = {t1, t2}
    Session = {s1}
    Request = {r1}
    None = None
SPECIFICATION Spec
INVARIANT
    DeactivatedHasNothing
