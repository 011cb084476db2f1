\* One request at a time under a cap of two families: which family a login evicts.
SPECIFICATION Spec
CONSTANTS
    Users = {u1}
    Tokens = {t1, t2, t3, t4}
    Requests = {r1}
    NoUser = NoUser
    NoToken = NoToken
    NoRequest = NoRequest
    MaxFamilies = 2
    Lifetime = 3
    AbsoluteLifetime = 3
    MaxTime = 2
    MaxPassword = 0
SYMMETRY Interchangeable
INVARIANTS
    EvictsOldestFamily
