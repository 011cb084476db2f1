\* Two tabs that share the cookies, one request; nothing is lost.
SPECIFICATION Spec
CONSTANTS
    Tabs = {t1, t2}
    Users = {u1, u2}
    Calls = {c1}
    NoUser = NoUser
    MaxLogins = 2
    MaxRefusals = 1
    MaxLosses = 0
SYMMETRY Interchangeable
INVARIANTS
    NeverAsSomebodyElse
