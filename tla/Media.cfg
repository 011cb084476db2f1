\* Two overlapping requests of each component, a quota of two images, two reviewers.
SPECIFICATION MediaSpec
CONSTANTS
    Images = {i1, i2, i3}
    Requests = {r1, r2}
    NoImage = NoImage
    MaxImages = 2
    MaxAttempts = 2
    None = None
    MaxTime = 1
    First = first
    Attempts = {a1, a2}
    Kinds = {hand, face}
    Handwritten = hand
    Lifetime = 1
    Users = {owner, reviewer}
    Owner = owner
    Keys = {k1, k2}
    Nonces = {a1, a2}
    Life = 1
    Capacity = 1
SYMMETRY Interchangeable
INVARIANTS
    OrderIsKept
    
    EvidenceIsInOrder
    OneLiveAttempt
    ReviewersNeverWaitInACircle
    OneReadingPerTicket
PROPERTIES
    SubmissionsAreFrozen
    DecidedByAnotherAdmin
    OnlyPresentGrantsAreServed
