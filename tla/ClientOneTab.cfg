\* One tab, two accounts, two requests; two sign-ins, three refusals, two losses.
SPECIFICATION Spec
CONSTANTS
    Tabs = {t1}
    Users = {u1, u2}
    Calls = {c1, c2}
    NoUser = NoUser
    MaxLogins = 2
    MaxRefusals = 3
    MaxLosses = 2
SYMMETRY Interchangeable
INVARIANTS
    SessionIsOnePerson
    LogoutIsFinal
    NeverReplayed
