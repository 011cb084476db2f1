\* Two overlapping requests under the database's lock scheduling, over the deadline of both rows.
SPECIFICATION FairSpec
CONSTANTS
    Users = {u1}
    Tokens = {t1, t2}
    Requests = {r1, r2}
    NoUser = NoUser
    NoToken = NoToken
    NoRequest = NoRequest
    MaxFamilies = 1
    Lifetime = 1
    AbsoluteLifetime = 1
    MaxTime = 1
    MaxPassword = 0
INVARIANTS
    RejectionClosesFamily
    FamilyIsOneChain

    
