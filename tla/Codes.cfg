\* Two overlapping requests and three codes of an account; two overlapping registrations.
SPECIFICATION CodesSpec
CONSTANTS
    Users = {u1}
    NewUsers = {n1, n2}
    Codes = {c1, c2, c3}
    Requests = {r1, r2}
    NoUser = NoUser
    NoCode = NoCode
    None = None
    Emails = {e1}
    Phones = {p1}
    Expiry = 2
    Cooldown = 1
    Hour = 2
    HourlyLimit = 2
    MaxAttempts = 1
    Patience = 2
    MaxTime = 3
    MaxPassword = 2
SYMMETRY Interchangeable
INVARIANTS
    NewestUntilVerified
    AccountsAreWhole
    VerifiedByTheNewest
    OnlyTheNewestIsUsable
    CodesFollowThePassword
    CodesAreLimited
