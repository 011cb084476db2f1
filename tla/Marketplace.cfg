\* A seller with one listing, three categories; caps of one; pages of two rows.
SPECIFICATION MarketSpec
CONSTANTS
    Sellers = {s1}
    Cities = {c1, c2}
    Categories = {k1, k2, k3}
    Listings = {l1}
    None = None
    MaxCities = 2
    MaxCategories = 3
    Products = {1, 2}
    Requests = {r1, r2}
    Quota = 1
    Retention = 1
    MaxTime = 2
    Slugs = {1, 2, 3, 4}
    Queries = {{1, 2, 3, 4}, {2, 3, 4}}
    Limit = 2
    MaxValue = 1
SYMMETRY Interchangeable
INVARIANTS
    TreeIsTwoLevels
    ListsStayBounded
    
PROPERTIES
    PublishedUnderPresentConditions
    OnboardingIsEarned
    HistoryMovesForward
