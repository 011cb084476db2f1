\* Two overlapping requests on one account with three rows; no row expires.
SPECIFICATION Spec
CONSTANTS
    Users = {u1}
    Tokens = {t1, t2, t3}
    Requests = {r1, r2}
    NoUser = NoUser
    NoToken = NoToken
    NoRequest = NoRequest
    MaxFamilies = 1
    Lifetime = 1
    AbsoluteLifetime = 1
    MaxTime = 0
    MaxPassword = 1
SYMMETRY Interchangeable
INVARIANTS
    SessionInvariant
    OneLiveTokenPerFamily
    ClosedFamilyStaysClosed
    LiveSessionsHaveCurrentPassword
    LogoutAllCoversEverySession
    LoginsStayWithinCap
PROPERTIES
    RevocationIsFinal
    ImplementsRegistry
