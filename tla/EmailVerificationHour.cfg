\* A request that waits longer than half the cooldown counts on an old snapshot.
SPECIFICATION Spec
CONSTANTS
    Users = {u1}
    Codes = {c1, c2}
    Requests = {r1, r2}
    NoUser = NoUser
    NoCode = NoCode
    Expiry = 2
    Cooldown = 2
    Hour = 4
    HourlyLimit = 1
    MaxAttempts = 1
    Patience = 2
    MaxTime = 4
SYMMETRY Interchangeable
INVARIANTS
    IssuingIsLimited
