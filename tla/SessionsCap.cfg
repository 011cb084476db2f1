\* A refresh that waits while its cookie expires, next to a login, under a cap of one family.
SPECIFICATION Spec
CONSTANTS
    Users = {u1}
    Tokens = {t1, t2, t3}
    Requests = {r1, r2}
    NoUser = NoUser
    NoToken = NoToken
    NoRequest = NoRequest
    MaxFamilies = 1
    Lifetime = 2
    AbsoluteLifetime = 3
    MaxTime = 2
    MaxPassword = 0
SYMMETRY Interchangeable
INVARIANTS
    WithinFamilyCap
