\* Two threads: a dictionary of two of three keys and waits of one tick; routes in
\* pairs that share a limiter or a slot; an inbox of one message.
SPECIFICATION AdmissionSpec
CONSTANTS
    Keys = {k1, k2, k3}
    Threads = {t1, t2}
    NoKey = NoKey
    MaxRequests = 2
    Window = 3
    MaxKeys = 2
    MaxDelay = 1
    MaxTime = 4
    Peers = {p1, p2}
    Accounts = {a1, a2}
    PeerLimit = 2
    AccountLimit = 2
    EvidenceSlots = 1
    ImageSlots = 1
    DecoderSlots = 1
    MaxArrivals = 3
    Delay = 1
    Ttl = 3
    Lifetime = 2
    Capacity = 1
    MaxCodes = 2
SYMMETRY Interchangeable
INVARIANTS
    LimitHolds
    RetryAfterIsEnough
    AccountsAreProtected
    SlotsComeBack
    
