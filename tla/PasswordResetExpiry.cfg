\* One code and a reset that waits for the row of its account.
SPECIFICATION Spec
CONSTANTS
    Users = {u1}
    Codes = {c1}
    Requests = {r1, r2}
    NoUser = NoUser
    NoCode = NoCode
    Expiry = 1
    Cooldown = 1
    Hour = 2
    HourlyLimit = 2
    MaxAttempts = 1
    MaxTime = 2
    MaxPassword = 1
SYMMETRY Interchangeable
INVARIANTS
    AcceptedCodesAreUnexpired
