-------------------------- MODULE MarketplaceProofs --------------------------
(***************************************************************************)
(* Proofs about what is sold and how it is found, for every set of         *)
(* sellers, cities, categories, listings and requests: the catalog is a    *)
(* tree of two levels, a listing is published only while seller, city and  *)
(* category are in order, and onboarding is completed only with a name and *)
(* an active city; the private lists stay in their caps and keep the       *)
(* newest; and the cursors lead through every row that stayed.             *)
(***************************************************************************)
EXTENDS MCMarketplace, FiniteSetTheorems, WellFoundedInduction, TLAPS

\* The types of a row of each table.
LEMMA RowTypes ==
  ASSUME TypeOK
  PROVE  /\ \A k \in Categories : category[k] # None =>
              /\ category[k] \in Category
              /\ category[k].parent \in Categories \cup {None}
         /\ \A s \in Sellers : profile[s] \in Profile
         /\ \A l \in Listings : listing[l] # None => listing[l] \in Listing
         /\ \A s \in Sellers : tx[s] # None => tx[s] \in Tx
  BY DEF TypeOK, Category

\* Nothing is in the catalog, no listing exists and no transaction is open at first.
LEMMA InitEstablishesInvariant == Init => MarketInvariant
<1> SUFFICES ASSUME Init PROVE MarketInvariant
  OBVIOUS
<1>1. TypeOK
  BY DEF Init, TypeOK, Profile
<1>2. TreeIsTwoLevels
  BY DEF Init, TreeIsTwoLevels, InCatalog
<1>3. OnboardingIsWhole
  BY DEF Init, OnboardingIsWhole
<1>4. Readings
  BY DEF Init, Readings
<1> QED
  BY <1>1, <1>2, <1>3, <1>4 DEF MarketInvariant

-----------------------------------------------------------------------------
\* The catalog.  A mutation finds no transaction on a listing that has read the
\* catalog, nor one on a profile that has read the city.

\* A step on cities and categories only, that leaves the rows read as they are.
LEMMA CatalogStepKeepsReadings ==
  ASSUME TypeOK, Readings, UNCHANGED <<profile, standing, listing, tx>>,
         CatalogIsFree,
         \A s \in Sellers, c \in Cities : HoldsCity(s) /\ tx[s].row = c =>
            city'[c] = city[c] \/ city'[c] = "active"
  PROVE  Readings'
<1> SUFFICES ASSUME NEW s \in Sellers, tx[s] # None
             PROVE  ReadingsHold(s, tx[s])' /\ (tx[s].stage = "commit" => Acceptable(s)')
  BY DEF Readings
<1>1. ReadingsHold(s, tx[s]) /\ (tx[s].stage = "commit" => Acceptable(s)) /\ tx[s] \in Tx
  BY RowTypes DEF Readings
<1>2. ReadingsHold(s, tx[s])'
  BY <1>1 DEF ReadingsHold, ListingIsMine, Eligible
<1>3. ASSUME tx[s].stage = "commit" PROVE Acceptable(s)'
  <2>1. tx[s].op \in ProfileOps
    BY <1>1, <1>3 DEF CatalogIsFree, HoldsCatalog, Tx
  <2>2. tx[s].city \in Cities \cup {None}
    BY <1>1 DEF Tx
  <2>3. \A c \in Cities : tx[s].row = c => city'[c] = city[c] \/ city'[c] = "active"
    BY <1>3 DEF HoldsCity
  <2>4. CASE tx[s].op \in {"name", "unname"}
    BY <2>4 DEF Acceptable
  <2>5. CASE tx[s].op = "move"
    BY <1>1, <1>3, <2>2, <2>3, <2>5 DEF Acceptable, ReadingsHold
  <2>6. CASE tx[s].op = "complete"
    <3>1. tx[s].city \in Cities /\ tx[s].row = tx[s].city
      BY <1>1, <2>2, <2>6 DEF ReadingsHold, HasRequiredFields
    <3> QED BY <1>1, <1>3, <2>3, <2>6, <3>1 DEF Acceptable
  <2> QED BY <2>1, <2>4, <2>5, <2>6 DEF ProfileOps
<1> QED
  BY <1>2, <1>3

\* Creating and switching a city waits for the transactions that have read it.
LEMMA CityStepsKeepInvariant ==
  ASSUME MarketInvariant, NEW c \in Cities,
         CreateCity(c) \/ \E active \in BOOLEAN : SetCityActive(c, active)
  PROVE  MarketInvariant'
<1>0. TypeOK /\ TreeIsTwoLevels /\ OnboardingIsWhole /\ Readings
  BY DEF MarketInvariant
<1>1. /\ UNCHANGED <<category, profile, standing, listing, tx>> /\ CatalogIsFree
      /\ \/ city' = [city EXCEPT ![c] = "active"]
         \/ CityIsFree(c) /\ city' = [city EXCEPT ![c] = "inactive"]
  BY DEF CreateCity, SetCityActive, accounts
<1>2. TypeOK'
  BY <1>0, <1>1 DEF TypeOK
<1>3. TreeIsTwoLevels'
  BY <1>0, <1>1 DEF TreeIsTwoLevels, InCatalog, IsRoot
<1>4. OnboardingIsWhole'
  BY <1>0, <1>1 DEF OnboardingIsWhole
<1>5. Readings'
  <2>1. \A s \in Sellers, d \in Cities : HoldsCity(s) /\ tx[s].row = d =>
            city'[d] = city[d] \/ city'[d] = "active"
    BY <1>0, <1>1 DEF CityIsFree, TypeOK
  <2> QED BY <1>0, <1>1, <2>1, CatalogStepKeepsReadings
<1> QED
  BY <1>2, <1>3, <1>4, <1>5 DEF MarketInvariant

\* A category is created or moved under an active root, and is then no parent.
LEMMA PlacingKeepsTree ==
  ASSUME TypeOK, TreeIsTwoLevels, NEW k \in Categories, NEW p \in Categories \cup {None},
         CreateCategory(k, p) \/ UpdateCategory(k, p)
  PROVE  TypeOK' /\ TreeIsTwoLevels'
<1> DEFINE active == IF k \in InCatalog THEN category[k].active ELSE TRUE
           row == [active |-> active, parent |-> p]
<1>1. None \notin Categories
  BY MarketplaceConstants
<1>2. ValidParent(k, p) /\ UNCHANGED <<city, standing, profile, listing, tx>>
  BY DEF CreateCategory, UpdateCategory, accounts
<1>3. category' = [category EXCEPT ![k] = row]
  <2>1. CASE CreateCategory(k, p)
    BY <2>1 DEF CreateCategory
  <2>2. CASE UpdateCategory(k, p)
    <3>1. category[k] \in Category /\ k \in InCatalog
      BY <2>2, RowTypes DEF UpdateCategory, InCatalog
    <3>2. [category[k] EXCEPT !.parent = p] = row
      BY <3>1 DEF Category
    <3> QED BY <2>2, <3>2 DEF UpdateCategory
  <2> QED BY <2>1, <2>2
<1>4. active \in BOOLEAN
  BY RowTypes DEF InCatalog, Category
<1>5. row \in Category
  BY <1>4 DEF Category
<1>6. TypeOK'
  BY <1>2, <1>3, <1>5 DEF TypeOK
<1>7. row # None
  BY <1>5, NoneIsNoRow
<1>8. category'[k] = row /\ \A j \in Categories \ {k} : category'[j] = category[j]
  BY <1>3 DEF TypeOK
<1>9. InCatalog' = InCatalog \cup {k}
  BY <1>7, <1>8 DEF InCatalog
<1>10. k \notin InCatalog => Children(k) = {}
  BY <1>1 DEF TreeIsTwoLevels, Children, IsRoot
<1>11. TreeIsTwoLevels'
  <2> SUFFICES ASSUME NEW j \in InCatalog', category'[j].parent # None
               PROVE  LET q == category'[j].parent
                      IN  /\ q \in InCatalog' /\ category'[q].parent = None
                          /\ category'[j].active => category'[q].active
    BY DEF TreeIsTwoLevels, IsRoot
  <2>1. CASE j = k
    BY <1>2, <1>8, <1>9, <2>1 DEF ValidParent, IsRoot, InCatalog
  <2>2. CASE j # k
    <3> DEFINE q == category[j].parent
    <3>1. j \in InCatalog /\ category'[j] = category[j]
      BY <1>8, <1>9, <2>2 DEF InCatalog
    <3>2. q \in InCatalog /\ IsRoot(q) /\ (category[j].active => category[q].active)
      BY <3>1 DEF TreeIsTwoLevels, IsRoot
    <3>3. q # k => category'[q] = category[q]
      BY <1>8, <3>2 DEF InCatalog
    <3>4. q = k => Children(k) # {} /\ k \in InCatalog
      BY <3>1, <3>2 DEF Children
    <3>5. q = k => p = None
      BY <1>2, <3>4 DEF ValidParent
    <3>6. q = k => row = category[k]
      BY <3>2, <3>4, <3>5, RowTypes DEF IsRoot, Category, InCatalog
    <3> QED BY <1>8, <1>9, <3>1, <3>2, <3>3, <3>6 DEF IsRoot
  <2> QED BY <2>1, <2>2
<1> QED
  BY <1>6, <1>11

\* A category is activated under an active parent and deactivated above inactive children.
LEMMA SwitchingKeepsTree ==
  ASSUME TypeOK, TreeIsTwoLevels, NEW k \in Categories, NEW active \in BOOLEAN,
         SetCategoryActive(k, active)
  PROVE  TypeOK' /\ TreeIsTwoLevels'
<1>1. /\ k \in InCatalog /\ category' = [category EXCEPT ![k].active = active]
      /\ UNCHANGED <<city, standing, profile, listing, tx>>
  BY DEF SetCategoryActive, accounts
<1> DEFINE row == [category[k] EXCEPT !.active = active]
<1>2. row \in Category /\ row.parent = category[k].parent /\ row.active = active
  BY <1>1, RowTypes DEF Category, InCatalog
<1>3. row # None
  BY <1>2, NoneIsNoRow
<1>4. category'[k] = row /\ \A j \in Categories \ {k} : category'[j] = category[j]
  BY <1>1 DEF TypeOK
<1>5. TypeOK'
  BY <1>1, <1>2 DEF TypeOK
<1>6. InCatalog' = InCatalog
  BY <1>1, <1>3, <1>4 DEF InCatalog
<1>7. \A j \in Categories : category'[j].parent = category[j].parent
  BY <1>2, <1>4
<1>8. ASSUME NEW j \in InCatalog, ~IsRoot(j), category'[j].active
      PROVE  category'[category[j].parent].active
  <2> DEFINE q == category[j].parent
  <2>1. j \in Categories /\ q \in InCatalog /\ q \in Categories /\ IsRoot(q)
    BY <1>8 DEF TreeIsTwoLevels, InCatalog
  <2>2. j # q
    BY <1>8, <2>1
  <2>3. CASE j = k
    BY <1>2, <1>4, <1>8, <2>1, <2>2, <2>3 DEF SetCategoryActive
  <2>4. CASE q = k
    <3>1. category[j].active
      BY <1>4, <1>8, <2>1, <2>2, <2>4
    <3>2. j \in Children(k)
      BY <1>8, <2>4 DEF Children
    <3>3. active
      BY <3>1, <3>2 DEF SetCategoryActive
    <3> QED BY <1>2, <1>4, <2>4, <3>3
  <2>5. CASE j # k /\ q # k
    BY <1>4, <1>8, <2>1, <2>5 DEF TreeIsTwoLevels
  <2> QED BY <2>3, <2>4, <2>5
<1>9. TreeIsTwoLevels'
  BY <1>6, <1>7, <1>8 DEF TreeIsTwoLevels, IsRoot, InCatalog
<1> QED
  BY <1>5, <1>9

\* So do creating, moving and switching a category.
LEMMA CategoryStepsKeepInvariant ==
  ASSUME MarketInvariant, NEW k \in Categories,
         \/ \E p \in Categories \cup {None} : CreateCategory(k, p) \/ UpdateCategory(k, p)
         \/ \E active \in BOOLEAN : SetCategoryActive(k, active)
  PROVE  MarketInvariant'
<1>0. TypeOK /\ TreeIsTwoLevels /\ OnboardingIsWhole /\ Readings
  BY DEF MarketInvariant
<1>1. UNCHANGED <<city, profile, standing, listing, tx>> /\ CatalogIsFree
  BY DEF CreateCategory, UpdateCategory, SetCategoryActive, accounts
<1>2. TypeOK' /\ TreeIsTwoLevels'
  BY <1>0, PlacingKeepsTree, SwitchingKeepsTree
<1>3. OnboardingIsWhole'
  BY <1>0, <1>1 DEF OnboardingIsWhole
<1>4. Readings'
  BY <1>0, <1>1, CatalogStepKeepsReadings
<1> QED
  BY <1>2, <1>3, <1>4 DEF MarketInvariant

-----------------------------------------------------------------------------
\* A step of a seller leaves what the others have read: their accounts are locked, and
\* no listing is theirs and his.
LEMMA OthersKeepReadings ==
  ASSUME TypeOK, Readings, NEW s \in Sellers, UNCHANGED catalog,
         \A u \in Sellers \ {s} :
            /\ tx'[u] = tx[u] /\ profile'[u] = profile[u] /\ standing'[u] = standing[u]
            /\ tx[u] # None /\ tx[u].op \in ListingOps =>
                  /\ listing'[tx[u].listing] = listing[tx[u].listing]
                  /\ tx'[s] # None => tx'[s].listing # tx[u].listing,
         tx'[s] # None => ReadingsHold(s, tx[s])' /\ (tx'[s].stage = "commit" => Acceptable(s)')
  PROVE  Readings'
<1> SUFFICES ASSUME NEW u \in Sellers, tx'[u] # None, u # s
             PROVE  ReadingsHold(u, tx[u])' /\ (tx'[u].stage = "commit" => Acceptable(u)')
  BY DEF Readings
<1>1. /\ ReadingsHold(u, tx[u]) /\ (tx[u].stage = "commit" => Acceptable(u))
      /\ tx'[u] = tx[u] /\ profile'[u] = profile[u] /\ standing'[u] = standing[u]
      /\ tx[u].op \in ListingOps =>
            /\ listing'[tx[u].listing] = listing[tx[u].listing]
            /\ tx'[s] # None => tx'[s].listing # tx[u].listing
  BY DEF Readings
<1>2. tx[u].op \in ListingOps => ListingIsMine(u, tx[u])'
  <2> SUFFICES ASSUME tx[u].op \in ListingOps PROVE ListingIsMine(u, tx[u])'
    OBVIOUS
  <2>1. ListingIsMine(u, tx[u])
    BY <1>1 DEF ReadingsHold
  <2>2. \A v \in Sellers \ {u} : tx'[v] # None => tx'[v].listing # tx[u].listing
    BY <1>1, <2>1 DEF ListingIsMine
  <2> QED BY <1>1, <2>1, <2>2 DEF ListingIsMine
<1>3. ReadingsHold(u, tx[u])'
  BY <1>1, <1>2 DEF ReadingsHold, Eligible, ListingOps
<1>4. Acceptable(u)' <=> Acceptable(u)
  BY <1>1 DEF Acceptable, catalog, PubliclyActive, InCatalog, IsRoot
<1> QED
  BY <1>1, <1>3, <1>4

\* Two sellers have no listing in common.
LEMMA ListingsAreApart ==
  ASSUME Readings, NEW s \in Sellers, NEW l \in Owned(s), NEW u \in Sellers \ {s},
         tx[u] # None, tx[u].op \in ListingOps
  PROVE  tx[u].listing # l
<1>1. ListingIsMine(u, tx[u])
  BY DEF Readings, ReadingsHold
<1> QED
  BY <1>1 DEF ListingIsMine, Owned

\* A transaction that begins has read rows as they are, under the account's lock.
LEMMA BeginKeepsInvariant ==
  ASSUME MarketInvariant, NEW s \in Sellers, NEW op \in ListingOps \cup ProfileOps,
         NEW l \in Listings \cup {None}, NEW c \in Cities \cup {None},
         NEW k \in Categories \cup {None}, NEW row \in Cities \cup {None},
         Begin(s, op, l, c, k, row),
         op \in ProfileOps => l = None,
         op \in ListingOps /\ op # "create" => l \in Owned(s),
         op = "create" => /\ l \in Listings /\ c \in Cities /\ k \in Categories
                          /\ listing[l] = None
                          /\ \A u \in Sellers \ {s} : tx[u] # None => tx[u].listing # l,
         op = "publish" => Eligible(s) /\ c = listing[l].city /\ k = listing[l].category,
         op = "complete" => HasRequiredFields(profile[s]) /\ c = profile[s].city,
         op \in {"move", "complete"} => row = c
  PROVE  MarketInvariant'
<1> DEFINE t == [stage |-> "resolve", op |-> op, listing |-> l,
                 city |-> c, category |-> k, row |-> row]
<1>0. TypeOK /\ TreeIsTwoLevels /\ OnboardingIsWhole /\ Readings
  BY DEF MarketInvariant
<1>1. /\ tx[s] = None /\ tx' = [tx EXCEPT ![s] = t]
      /\ UNCHANGED <<city, category, standing, profile, listing>>
  BY DEF Begin, catalog, accounts
<1>2. t \in Tx
  BY DEF Tx
<1>3. TypeOK'
  BY <1>0, <1>1, <1>2 DEF TypeOK
<1>4. TreeIsTwoLevels'
  BY <1>0, <1>1 DEF TreeIsTwoLevels, InCatalog, IsRoot
<1>5. OnboardingIsWhole'
  BY <1>0, <1>1 DEF OnboardingIsWhole
<1>6. tx'[s] = t /\ \A u \in Sellers \ {s} : tx'[u] = tx[u]
  BY <1>0, <1>1 DEF TypeOK
<1>7. \A u \in Sellers \ {s} : tx[u] # None /\ tx[u].op \in ListingOps => l # tx[u].listing
  <2> TAKE u \in Sellers \ {s}
  <2> HAVE tx[u] # None /\ tx[u].op \in ListingOps
  <2>1. CASE op = "create"
    BY <2>1
  <2>2. CASE op \in ListingOps /\ op # "create"
    BY <1>0, <2>2, ListingsAreApart
  <2>3. CASE op \in ProfileOps
    BY <1>0, <2>3, MarketplaceConstants DEF Readings, ReadingsHold, ListingIsMine
  <2> QED BY <2>1, <2>2, <2>3
<1>8. ReadingsHold(s, t)'
  <2>1. op \in ListingOps => ListingIsMine(s, t)'
    <3> SUFFICES ASSUME op \in ListingOps PROVE ListingIsMine(s, t)'
      OBVIOUS
    <3>1. \A u \in Sellers \ {s} : tx'[u] # None => tx'[u].listing # l
      <4> SUFFICES ASSUME NEW u \in Sellers \ {s}, tx[u] # None PROVE tx[u].listing # l
        BY <1>6
      <4>1. CASE tx[u].op \in ListingOps
        BY <1>7, <4>1
      <4>2. CASE tx[u].op \notin ListingOps
        <5>1. tx[u].listing = None
          BY <1>0, <4>2 DEF Readings, ReadingsHold
        <5>2. l \in Listings
          BY DEF Owned
        <5> QED BY <5>1, <5>2, MarketplaceConstants
      <4> QED BY <4>1, <4>2
    <3> QED BY <1>1, <3>1 DEF ListingIsMine, Owned
  <2>2. op \notin ListingOps => l = None
    OBVIOUS
  <2> QED BY <1>1, <2>1, <2>2 DEF ReadingsHold, Eligible
<1>9. Readings'
  BY <1>0, <1>1, <1>6, <1>7, <1>8, OthersKeepReadings DEF catalog
<1> QED
  BY <1>3, <1>4, <1>5, <1>9 DEF MarketInvariant

\* The four ways a seller's transaction begins.
LEMMA BeginningsKeepInvariant ==
  ASSUME MarketInvariant, NEW s \in Sellers,
         \/ BeginCreate(s) \/ BeginUpdate(s) \/ BeginProfile(s)
         \/ \E action \in {"publish", "pause", "archive"} : BeginTransition(s, action)
  PROVE  MarketInvariant'
<1>0. TypeOK
  BY DEF MarketInvariant
<1>1. \A l \in Owned(s) : /\ l \in Listings
                          /\ listing[l].city \in Cities /\ listing[l].category \in Categories
  BY <1>0, RowTypes DEF Owned, Listing
<1>2. profile[s].city \in Cities \cup {None}
  BY <1>0, RowTypes DEF Profile
<1>3. ListingOps \cap ProfileOps = {} /\ "create" \in ListingOps
  BY DEF ListingOps, ProfileOps
<1>4. CASE BeginCreate(s)
  <2> PICK l \in Listings, c \in Cities, k \in Categories :
         /\ listing[l] = None /\ \A t \in Sellers \ {s} : tx[t] # None => tx[t].listing # l
         /\ Begin(s, "create", l, c, k, c)
    BY <1>4 DEF BeginCreate
  <2> QED BY <1>3, BeginKeepsInvariant
<1>5. CASE BeginUpdate(s)
  <2> PICK l \in Owned(s), c \in Cities \cup {None}, k \in Categories \cup {None} :
         Begin(s, "update", l, c, k, IF c = None THEN listing[l].city ELSE c)
    BY <1>5 DEF BeginUpdate
  <2>1. "update" \in ListingOps
    BY DEF ListingOps
  <2> QED BY <1>1, <1>3, <2>1, BeginKeepsInvariant
<1>6. CASE \E action \in {"publish", "pause", "archive"} : BeginTransition(s, action)
  <2> PICK action \in {"publish", "pause", "archive"} : BeginTransition(s, action)
    BY <1>6
  <2> PICK l \in Owned(s) :
         Begin(s, action, l, listing[l].city, listing[l].category, listing[l].city)
    BY DEF BeginTransition
  <2>1. action \in ListingOps /\ action # "create" /\ (action = "publish" => Eligible(s))
    BY DEF ListingOps, BeginTransition
  <2> QED BY <1>1, <1>3, <2>1, BeginKeepsInvariant
<1>7. CASE BeginProfile(s)
  <2>1. CASE \E op \in {"name", "unname"} : Begin(s, op, None, None, None, profile[s].city)
    <3> PICK op \in {"name", "unname"} : Begin(s, op, None, None, None, profile[s].city)
      BY <2>1
    <3>1. op \in ProfileOps
      BY DEF ProfileOps
    <3> QED BY <1>2, <1>3, <3>1, BeginKeepsInvariant
  <2>2. CASE \E c \in Cities \cup {None} : Begin(s, "move", None, c, None, c)
    <3>1. "move" \in ProfileOps
      BY DEF ProfileOps
    <3> QED BY <1>3, <2>2, <3>1, BeginKeepsInvariant
  <2>3. CASE /\ HasRequiredFields(profile[s])
             /\ Begin(s, "complete", None, profile[s].city, None, profile[s].city)
    <3>1. "complete" \in ProfileOps
      BY DEF ProfileOps
    <3> QED BY <1>2, <1>3, <2>3, <3>1, BeginKeepsInvariant
  <2> QED BY <1>7, <2>1, <2>2, <2>3 DEF BeginProfile
<1> QED
  BY <1>4, <1>5, <1>6, <1>7

\* Steps that change no row: the catalog is read, an operation fails, or the standing of
\* an account that is not locked changes.
LEMMA QuietStepsKeepInvariant ==
  ASSUME MarketInvariant, NEW s \in Sellers, Resolve(s) \/ Fail(s) \/ ChangeStanding(s)
  PROVE  MarketInvariant'
<1>0. TypeOK /\ TreeIsTwoLevels /\ OnboardingIsWhole /\ Readings
  BY DEF MarketInvariant
<1>1. /\ UNCHANGED <<city, category, profile, listing>>
      /\ \A u \in Sellers \ {s} : tx'[u] = tx[u] /\ standing'[u] = standing[u]
  BY <1>0 DEF Resolve, Fail, ChangeStanding, catalog, accounts, TypeOK
<1>2. TreeIsTwoLevels' /\ OnboardingIsWhole'
  BY <1>0, <1>1 DEF TreeIsTwoLevels, InCatalog, IsRoot, OnboardingIsWhole
<1>3. CASE tx'[s] = None
  <2>1. TypeOK'
    BY <1>0, <1>3 DEF Resolve, Fail, ChangeStanding, catalog, accounts, TypeOK
  <2>2. Readings'
    BY <1>0, <1>1, <1>3, OthersKeepReadings DEF catalog
  <2> QED BY <1>2, <2>1, <2>2 DEF MarketInvariant
<1>4. CASE tx'[s] # None
  <2> DEFINE t == [tx[s] EXCEPT !.stage = "commit"]
  <2>1. /\ Resolve(s) /\ tx[s] # None /\ tx[s] \in Tx /\ Acceptable(s)
        /\ tx' = [tx EXCEPT ![s] = t] /\ standing' = standing
    BY <1>0, <1>4, RowTypes DEF Resolve, Fail, ChangeStanding, accounts, TypeOK
  <2>2. /\ t \in Tx /\ tx'[s] = t
        /\ t.op = tx[s].op /\ t.listing = tx[s].listing /\ t.city = tx[s].city
        /\ t.category = tx[s].category /\ t.row = tx[s].row
    BY <1>0, <2>1 DEF Tx, TypeOK
  <2> HIDE DEF t
  <2>3. TypeOK'
    BY <1>0, <1>1, <2>1, <2>2 DEF TypeOK
  <2>4. ReadingsHold(s, tx[s])
    BY <1>0, <2>1 DEF Readings
  <2>5. ReadingsHold(s, tx[s])'
    BY <1>1, <2>1, <2>2, <2>4 DEF ReadingsHold, ListingIsMine, Eligible
  <2>6. Acceptable(s)'
    BY <1>1, <2>1, <2>2 DEF Acceptable, PubliclyActive, InCatalog, IsRoot
  <2>7. \A u \in Sellers \ {s} : tx[u] # None /\ tx[u].op \in ListingOps =>
           tx'[s].listing # tx[u].listing
    BY <1>0, <2>1, <2>2 DEF Readings, ReadingsHold, ListingIsMine
  <2>8. Readings'
    BY <1>0, <1>1, <2>1, <2>5, <2>6, <2>7, OthersKeepReadings DEF catalog
  <2> QED BY <1>2, <2>3, <2>8 DEF MarketInvariant
<1> QED
  BY <1>3, <1>4

-----------------------------------------------------------------------------
\* The commit: what it writes is in order at this moment.

\* What a commit writes on a listing.
ListingEffect(s) ==
    LET l == tx[s].listing
        x == listing[l]
        y == listing'[l]
    IN  /\ l \in Listings /\ y \in Listing /\ y.seller = s
        /\ x # None => x \in Listing /\ x.seller = s
        /\ listing' = [listing EXCEPT ![l] = y]
        /\ y.status = "PUBLISHED" /\ (x = None \/ x.status # "PUBLISHED") =>
              /\ Eligible(s) /\ y.published
              /\ city[y.city] = "active" /\ PubliclyActive(y.category)
        /\ x = None \/ x.city # y.city => city[y.city] = "active"
        /\ x = None \/ x.category # y.category => PubliclyActive(y.category)

\* The row that a listing operation commits has these properties, since what it has read
\* still holds.
LEMMA CommitOfListing ==
  ASSUME MarketInvariant, NEW s \in Sellers, Commit(s), tx[s].op \in ListingOps
  PROVE  ListingEffect(s) /\ UNCHANGED profile
<1> DEFINE t == tx[s]
           l == t.listing
           x == listing[l]
           y == ListingAfter(s, t, x)
<1>0. TypeOK /\ ReadingsHold(s, t) /\ Acceptable(s) /\ t \in Tx
  BY RowTypes DEF MarketInvariant, Readings, Commit
<1>1. /\ UNCHANGED profile /\ l \in Listings
      /\ listing' = [listing EXCEPT ![l] = y]
      /\ IF t.op = "create" THEN x = None ELSE x # None /\ x.seller = s
  BY <1>0 DEF Commit, ReadingsHold, ListingIsMine, ListingOps, ProfileOps
<1>2. listing'[l] = y
  BY <1>0, <1>1 DEF TypeOK
<1>3. x # None => x \in Listing
  BY <1>0, <1>1, RowTypes
<1>4. CASE t.op = "create"
  <2>1. t.city \in Cities /\ t.category \in Categories /\ x = None
    BY <1>0, <1>1, <1>4 DEF ReadingsHold
  <2>2. y = [seller |-> s, status |-> "DRAFT", city |-> t.city,
             category |-> t.category, published |-> FALSE]
    BY <1>4 DEF ListingAfter
  <2>3. y \in Listing
    BY <2>1, <2>2 DEF Listing, Statuses
  <2>4. city[t.city] = "active" /\ PubliclyActive(t.category)
    BY <1>0, <1>4 DEF Acceptable
  <2>5. /\ y.seller = s /\ y.status # "PUBLISHED"
        /\ city[y.city] = "active" /\ PubliclyActive(y.category)
    BY <2>2, <2>4
  <2> DEFINE z == listing'[l]
  <2>6. /\ z \in Listing /\ z.seller = s /\ z.status # "PUBLISHED"
        /\ city[z.city] = "active" /\ PubliclyActive(z.category)
        /\ listing' = [listing EXCEPT ![l] = z]
    BY <1>1, <1>2, <2>3, <2>5
  <2> HIDE DEF y, z
  <2> QED BY <1>1, <2>1, <2>6 DEF ListingEffect, z
<1>5. CASE t.op = "update"
  <2> DEFINE c == IF t.city = None THEN x.city ELSE t.city
             k == IF t.category = None THEN x.category ELSE t.category
  <2>1. x \in Listing /\ x.seller = s
    BY <1>1, <1>3, <1>5
  <2>2. y = [x EXCEPT !.city = c, !.category = k]
    BY <1>5 DEF ListingAfter
  <2>3. c \in Cities /\ k \in Categories
    BY <1>0, <2>1 DEF Tx, Listing
  <2>4. /\ y \in Listing /\ y.seller = s /\ y.status = x.status
        /\ y.city = c /\ y.category = k
    BY <2>1, <2>2, <2>3 DEF Listing
  <2>5. /\ t.city # None => city[t.city] = "active"
        /\ t.category # None => PubliclyActive(t.category)
    BY <1>0, <1>5 DEF Acceptable
  <2>6. x # None
    BY <2>1, NoneIsNoRow
  <2> QED BY <1>1, <1>2, <2>1, <2>4, <2>5, <2>6 DEF ListingEffect
<1>6. CASE t.op = "publish"
  <2>1. x \in Listing /\ x.seller = s /\ x # None
    BY <1>1, <1>3, <1>6
  <2>2. y = [x EXCEPT !.status = "PUBLISHED", !.published = TRUE]
    BY <1>6 DEF ListingAfter
  <2>3. /\ y \in Listing /\ y.seller = s /\ y.published
        /\ y.city = x.city /\ y.category = x.category
    BY <2>1, <2>2 DEF Listing, Statuses
  <2>4. /\ Eligible(s) /\ t.city = x.city /\ t.category = x.category
        /\ city[t.city] = "active" /\ PubliclyActive(t.category)
    BY <1>0, <1>6 DEF ReadingsHold, Acceptable
  <2> QED BY <1>1, <1>2, <2>1, <2>3, <2>4 DEF ListingEffect
<1>7. CASE t.op \in {"pause", "archive"}
  <2>1. x \in Listing /\ x.seller = s /\ x # None
    BY <1>1, <1>3, <1>7
  <2>2. PICK status \in {"PAUSED", "ARCHIVED"} : y = [x EXCEPT !.status = status]
    BY <1>7 DEF ListingAfter
  <2>3. /\ y \in Listing /\ y.seller = s /\ y.status = status
        /\ y.city = x.city /\ y.category = x.category
    BY <2>1, <2>2 DEF Listing, Statuses
  <2> QED BY <1>1, <1>2, <2>1, <2>3 DEF ListingEffect
<1> QED
  BY <1>1, <1>4, <1>5, <1>6, <1>7 DEF ListingOps

\* What a commit writes on a profile.
ProfileEffect(s) ==
    LET p == profile'[s]
    IN  /\ p \in Profile
        /\ profile' = [profile EXCEPT ![s] = p]
        /\ p.complete => HasRequiredFields(p)
        /\ p.complete => profile[s].complete \/ city[p.city] = "active"

\* Onboarding is withdrawn from a profile that lost its name or its city.
LEMMA RevisedProfile ==
  ASSUME NEW p \in Profile
  PROVE  /\ Revised(p) \in Profile
         /\ Revised(p).complete => p.complete /\ HasRequiredFields(Revised(p))
<1>1. PICK b \in BOOLEAN : b <=> (p.complete /\ HasRequiredFields(p))
  OBVIOUS
<1>2. Revised(p) = [p EXCEPT !.complete = b]
  BY <1>1 DEF Revised, Profile
<1>3. /\ Revised(p) \in Profile /\ Revised(p).complete = b
      /\ Revised(p).named = p.named /\ Revised(p).city = p.city
  BY <1>2 DEF Profile
<1> QED
  BY <1>1, <1>3 DEF HasRequiredFields

\* So does the profile that an update commits.
LEMMA CommitOfProfile ==
  ASSUME MarketInvariant, NEW s \in Sellers, Commit(s), tx[s].op \in ProfileOps
  PROVE  ProfileEffect(s) /\ UNCHANGED listing
<1> DEFINE t == tx[s]
           x == profile[s]
           y == ProfileAfter(t, x)
<1>0. TypeOK /\ ReadingsHold(s, t) /\ Acceptable(s) /\ t \in Tx /\ x \in Profile
  BY RowTypes DEF MarketInvariant, Readings, Commit
<1>1. UNCHANGED listing /\ profile' = [profile EXCEPT ![s] = y]
  BY DEF Commit, ListingOps, ProfileOps
<1>2. profile'[s] = y
  BY <1>0, <1>1 DEF TypeOK
<1>3. CASE t.op # "complete"
  <2>1. PICK p \in Profile : y = Revised(p) /\ p.complete = x.complete
    <3>0. \A b \in BOOLEAN : /\ [x EXCEPT !.named = b] \in Profile
                           /\ [x EXCEPT !.named = b].complete = x.complete
      BY <1>0 DEF Profile
    <3>1. CASE t.op = "name"
      <4>1. y = Revised([x EXCEPT !.named = TRUE])
        BY <3>1 DEF ProfileAfter
      <4> QED BY <3>0, <4>1
    <3>2. CASE t.op = "unname"
      <4>1. y = Revised([x EXCEPT !.named = FALSE])
        BY <3>2 DEF ProfileAfter
      <4> QED BY <3>0, <4>1
    <3>3. CASE t.op = "move"
      BY <1>0, <3>3 DEF ProfileAfter, Profile, Tx
    <3> QED BY <1>3, <3>1, <3>2, <3>3 DEF ProfileOps
  <2> HIDE DEF y
  <2> QED BY <1>1, <1>2, <2>1, RevisedProfile DEF ProfileEffect
<1>4. CASE t.op = "complete"
  <2>1. y = [x EXCEPT !.complete = TRUE]
    BY <1>4 DEF ProfileAfter
  <2>2. y \in Profile /\ y.named = x.named /\ y.city = x.city
    BY <1>0, <2>1 DEF Profile
  <2>3. HasRequiredFields(x) /\ t.city = x.city
    BY <1>0, <1>4 DEF ReadingsHold
  <2>4. x.complete \/ city[x.city] = "active"
    BY <1>0, <1>4, <2>3 DEF Acceptable
  <2>5. HasRequiredFields(y)
    BY <2>2, <2>3 DEF HasRequiredFields
  <2> HIDE DEF y
  <2> QED BY <1>1, <1>2, <2>2, <2>4, <2>5 DEF ProfileEffect
<1> QED
  BY <1>3, <1>4

\* A commit leaves what the other transactions have read.
LEMMA CommitKeepsInvariant ==
  ASSUME MarketInvariant, NEW s \in Sellers, Commit(s)
  PROVE  MarketInvariant'
<1>0. TypeOK /\ TreeIsTwoLevels /\ OnboardingIsWhole /\ Readings
  BY DEF MarketInvariant
<1>1. /\ UNCHANGED <<city, category, standing>> /\ tx[s] # None
      /\ tx' = [tx EXCEPT ![s] = None]
  BY DEF Commit, catalog
<1>2. \/ tx[s].op \in ListingOps /\ ListingEffect(s) /\ UNCHANGED profile
      \/ tx[s].op \notin ListingOps /\ ProfileEffect(s) /\ UNCHANGED listing
  <2>1. tx[s] \in Tx /\ ListingOps \cap ProfileOps = {}
    BY <1>0, <1>1, RowTypes DEF ListingOps, ProfileOps
  <2>2. tx[s].op \in ListingOps \cup ProfileOps
    BY <2>1 DEF Tx
  <2> QED BY <2>1, <2>2, CommitOfListing, CommitOfProfile
<1>3. TypeOK'
  BY <1>0, <1>1, <1>2 DEF TypeOK, ListingEffect, ProfileEffect
<1>4. TreeIsTwoLevels'
  BY <1>0, <1>1 DEF TreeIsTwoLevels, InCatalog, IsRoot
<1>5. OnboardingIsWhole'
  BY <1>0, <1>2 DEF OnboardingIsWhole, ProfileEffect, TypeOK
<1>6. /\ tx'[s] = None
      /\ \A u \in Sellers \ {s} : tx'[u] = tx[u] /\ profile'[u] = profile[u]
  BY <1>0, <1>1, <1>2 DEF TypeOK, ProfileEffect
<1>7. ASSUME NEW u \in Sellers \ {s}, tx[u] # None, tx[u].op \in ListingOps
      PROVE  listing'[tx[u].listing] = listing[tx[u].listing]
  <2>1. tx[u].listing \in Listings /\ tx[s].listing # tx[u].listing
    BY <1>0, <1>1, <1>7 DEF Readings, ReadingsHold, ListingIsMine
  <2> QED BY <1>0, <1>2, <2>1 DEF ListingEffect, TypeOK
<1>8. Readings'
  BY <1>0, <1>1, <1>6, <1>7, OthersKeepReadings DEF catalog
<1> QED
  BY <1>3, <1>4, <1>5, <1>8 DEF MarketInvariant

-----------------------------------------------------------------------------
\* Every step keeps the invariant.
LEMMA NextKeepsInvariant == MarketInvariant /\ [Next]_vars => MarketInvariant'
<1> SUFFICES ASSUME MarketInvariant, [Next]_vars PROVE MarketInvariant'
  OBVIOUS
<1>1. CASE CatalogMutation
  BY <1>1, CityStepsKeepInvariant, CategoryStepsKeepInvariant DEF CatalogMutation
<1>2. ASSUME NEW s \in Sellers,
             \/ BeginCreate(s) \/ BeginUpdate(s) \/ BeginProfile(s)
             \/ \E action \in {"publish", "pause", "archive"} : BeginTransition(s, action)
      PROVE  MarketInvariant'
  BY <1>2, BeginningsKeepInvariant
<1>3. ASSUME NEW s \in Sellers, Resolve(s) \/ Fail(s) \/ ChangeStanding(s)
      PROVE  MarketInvariant'
  BY <1>3, QuietStepsKeepInvariant
<1>4. ASSUME NEW s \in Sellers, Commit(s) PROVE MarketInvariant'
  BY <1>4, CommitKeepsInvariant
<1>5. CASE UNCHANGED vars
  BY <1>5 DEF MarketInvariant, TypeOK, TreeIsTwoLevels, OnboardingIsWhole, Readings,
              ReadingsHold, ListingIsMine, Eligible, Acceptable, PubliclyActive,
              InCatalog, IsRoot, vars, catalog, accounts
<1> QED
  BY <1>1, <1>2, <1>3, <1>4, <1>5 DEF Next

\* What a transaction has read under its locks (account, city, category, listing) still
\* holds when it commits, next to the shape of catalog and profiles.
THEOREM MarketInvariantHolds == Spec => []MarketInvariant
  BY InitEstablishesInvariant, NextKeepsInvariant, PTL DEF Spec

\* The categories are a tree of two levels, active only under active roots, after any
\* sequence of creations, moves and switches (validate_parent, set_active).
THEOREM CatalogIsATree == Spec => []TreeIsTwoLevels
<1>1. MarketInvariant => TreeIsTwoLevels
  BY DEF MarketInvariant
<1> QED
  BY <1>1, MarketInvariantHolds, PTL

\* No step but a seller's commit changes a listing or a profile.
LEMMA OnlyCommitsWrite ==
  ASSUME [Next]_vars
  PROVE  UNCHANGED <<listing, profile>> \/ \E s \in Sellers : Commit(s)
<1>1. CatalogMutation => UNCHANGED <<listing, profile>>
  BY DEF CatalogMutation, CreateCity, SetCityActive, CreateCategory, UpdateCategory,
         SetCategoryActive, accounts
<1>2. ASSUME NEW s \in Sellers,
             \/ BeginCreate(s) \/ BeginUpdate(s) \/ BeginProfile(s)
             \/ \E action \in {"publish", "pause", "archive"} : BeginTransition(s, action)
      PROVE  UNCHANGED <<listing, profile>>
  BY <1>2 DEF BeginCreate, BeginUpdate, BeginProfile, BeginTransition, Begin, accounts
<1>3. ASSUME NEW s \in Sellers, Resolve(s) \/ Fail(s) \/ ChangeStanding(s)
      PROVE  UNCHANGED <<listing, profile>>
  BY <1>3 DEF Resolve, Fail, ChangeStanding, accounts
<1> QED
  BY <1>1, <1>2, <1>3 DEF Next, vars

\* A listing is published only when seller, profile, city and category are in order at
\* that moment, and never moves to an inactive city or category (transition, update).
THEOREM PublicationIsInOrder == Spec => PublishedUnderPresentConditions
<1> DEFINE InOrder(l) ==
        listing'[l] # None =>
          LET x == listing[l]
              y == listing'[l]
          IN  /\ y.status = "PUBLISHED" /\ (x = None \/ x.status # "PUBLISHED")
                    => PubliclyVisible(l)'
              /\ x = None \/ x.city # y.city => city'[y.city] = "active"
              /\ \A k \in Categories :
                   y.category = k /\ (x = None \/ x.category # k) => PubliclyActive(k)'
           Ordered == \A l \in Listings : InOrder(l)
<1>1. ASSUME MarketInvariant, [Next]_vars PROVE Ordered
  <2> SUFFICES ASSUME NEW l \in Listings PROVE InOrder(l)
    OBVIOUS
  <2>1. CASE listing'[l] = listing[l]
    BY <2>1
  <2>2. CASE listing'[l] # listing[l]
    <3>1. PICK s \in Sellers : Commit(s)
      BY <1>1, <2>2, OnlyCommitsWrite
    <3>2. TypeOK /\ tx[s] \in Tx /\ ListingOps \cap ProfileOps = {}
      BY <1>1, <3>1, RowTypes DEF MarketInvariant, Commit, ListingOps, ProfileOps
    <3>3. tx[s].op \in ListingOps
      BY <1>1, <2>2, <3>1, <3>2, CommitOfProfile DEF Tx
    <3>4. ListingEffect(s) /\ UNCHANGED <<city, category, standing, profile>>
      BY <1>1, <3>1, <3>3, CommitOfListing DEF Commit, catalog
    <3>5. l = tx[s].listing
      BY <2>2, <3>2, <3>4 DEF ListingEffect, TypeOK
    <3>6. Eligible(s)' <=> Eligible(s)
      BY <3>4 DEF Eligible
    <3>7. \A k \in Categories : PubliclyActive(k)' <=> PubliclyActive(k)
      BY <3>4 DEF PubliclyActive, InCatalog, IsRoot
    <3> DEFINE x == listing[l]
               y == listing'[l]
    <3>8. /\ y \in Listing /\ y.seller = s /\ y.category \in Categories
          /\ y.status = "PUBLISHED" /\ (x = None \/ x.status # "PUBLISHED") =>
                /\ Eligible(s) /\ y.published
                /\ city[y.city] = "active" /\ PubliclyActive(y.category)
          /\ x = None \/ x.city # y.city => city[y.city] = "active"
          /\ x = None \/ x.category # y.category => PubliclyActive(y.category)
      BY <3>4, <3>5 DEF ListingEffect, Listing
    <3>9. y.status = "PUBLISHED" /\ (x = None \/ x.status # "PUBLISHED")
             => PubliclyVisible(l)'
      BY <3>4, <3>6, <3>7, <3>8, NoneIsNoRow DEF PubliclyVisible
    <3> QED BY <3>4, <3>7, <3>8, <3>9
  <2> QED BY <2>1, <2>2
<1>2. Ordered <=>
        \A l \in Listings : listing'[l] # None =>
          LET x == listing[l]
              y == listing'[l]
          IN  /\ y.status = "PUBLISHED" /\ (x = None \/ x.status # "PUBLISHED")
                    => PubliclyVisible(l)'
              /\ x = None \/ x.city # y.city => city'[y.city] = "active"
              /\ \A k \in Categories :
                   y.category = k /\ (x = None \/ x.category # k) => PubliclyActive(k)'
  OBVIOUS
<1> HIDE DEF Ordered
<1> QED
  BY <1>1, <1>2, MarketInvariantHolds, PTL DEF Spec, PublishedUnderPresentConditions

\* Onboarding is complete only with a name and a city, and becomes so only while that
\* city is active (update_own, complete_onboarding).
THEOREM OnboardingIsKept == Spec => OnboardingIsEarned
<1> DEFINE Earned ==
        \A s \in Sellers : profile'[s].complete =>
          /\ HasRequiredFields(profile'[s])
          /\ profile[s].complete \/ city'[profile'[s].city] = "active"
<1>1. ASSUME MarketInvariant, [Next]_vars PROVE Earned
  <2> SUFFICES ASSUME NEW s \in Sellers, profile'[s].complete
               PROVE  /\ HasRequiredFields(profile'[s])
                      /\ profile[s].complete \/ city'[profile'[s].city] = "active"
    OBVIOUS
  <2>1. CASE profile'[s] = profile[s]
    BY <1>1, <2>1 DEF MarketInvariant, OnboardingIsWhole
  <2>2. CASE profile'[s] # profile[s]
    <3>1. PICK u \in Sellers : Commit(u)
      BY <1>1, <2>2, OnlyCommitsWrite
    <3>2. TypeOK /\ tx[u] \in Tx
      BY <1>1, <3>1, RowTypes DEF MarketInvariant, Commit
    <3>3. tx[u].op \in ProfileOps
      BY <1>1, <2>2, <3>1, <3>2, CommitOfListing DEF Tx
    <3>4. ProfileEffect(u) /\ UNCHANGED city
      BY <1>1, <3>1, <3>3, CommitOfProfile DEF Commit, catalog
    <3>5. s = u
      BY <2>2, <3>2, <3>4 DEF ProfileEffect, TypeOK
    <3> QED BY <3>4, <3>5 DEF ProfileEffect
  <2> QED BY <2>1, <2>2
<1> HIDE DEF Earned
<1>2. Earned <=>
        \A s \in Sellers : profile'[s].complete =>
          /\ HasRequiredFields(profile'[s])
          /\ profile[s].complete \/ city'[profile'[s].city] = "active"
  BY DEF Earned
<1> QED
  BY <1>1, <1>2, MarketInvariantHolds, PTL DEF Spec, OnboardingIsEarned

-----------------------------------------------------------------------------
(* Saved listings and the viewing history (module PersonalLists).                *)

\* The instance's finite sets and cardinalities are those of the library.
LEMMA ListsCount ==
  /\ \A S : Lists!IsFiniteSet(S) <=> IsFiniteSet(S)
  /\ \A S : Lists!Cardinality(S) = Cardinality(S)
  BY DEF Lists!IsFiniteSet, IsFiniteSet, Lists!Cardinality, Cardinality

\* Some time is the least.
LEMMA LeastOf ==
  ASSUME NEW T, T \subseteq Nat, T # {}
  PROVE  \E x \in T : \A y \in T : x <= y
<1>1. PICK x \in T : \A y \in T : ~ (<<y, x>> \in OpToRel(<, Nat))
  BY NatLessThanWellFounded, WFMin
<1>2. \A y \in T : ~ (y < x)
  BY <1>1 DEF OpToRel
<1>3. x \in T /\ \A y \in T : x <= y
  BY <1>2
<1> QED
  BY <1>3

\* The bounds, and the rows.
LEMMA ListNumbers ==
  ASSUME Lists!ConstantsAreValid
  PROVE  /\ Products \subseteq Nat /\ Lists!IsFiniteSet(Products) /\ MaxTime \in Nat
         /\ Quota \in Nat /\ Quota > 0 /\ Retention \in Nat /\ Retention > 0
         /\ \A t \in Lists!Times : t \in Nat /\ t # Lists!Never
  BY DEF Lists!ConstantsAreValid, Lists!Times, Lists!Never

\* Of some views one comes last in the history.
LEMMA OldestView ==
  ASSUME Lists!ConstantsAreValid, NEW S, S \subseteq Products, S # {}, NEW v,
         \A p \in S : v[p] \in Nat
  PROVE  \E m \in S : \A q \in S \ {m} : Lists!Newer(v, q, m)
<1> DEFINE T == {v[p] : p \in S}
<1>1. PICK x \in T : \A y \in T : x <= y
  <2>1. T \subseteq Nat /\ T # {}
    OBVIOUS
  <2> HIDE DEF T
  <2> QED BY <2>1, LeastOf
<1> DEFINE U == {p \in S : v[p] = x}
<1>2. PICK m \in U : \A p \in U : m <= p
  <2>1. U \subseteq Nat /\ U # {}
    BY <1>1, ListNumbers
  <2> HIDE DEF U
  <2> QED BY <2>1, LeastOf
<1>3. ASSUME NEW q \in S \ {m} PROVE Lists!Newer(v, q, m)
  <2>1. v[q] \in Nat /\ v[m] \in Nat /\ v[m] = x /\ x <= v[q] /\ q \in Nat /\ m \in Nat
    BY <1>1, <1>2, ListNumbers
  <2>2. v[q] = x => m <= q
    BY <1>2
  <2> QED BY <2>1, <2>2 DEF Lists!Newer
<1> QED
  BY <1>2, <1>3

\* What the upsert keeps of the history is no more than the retention.
LEMMA KeptIsBounded ==
  ASSUME Lists!ConstantsAreValid, NEW v \in [Products -> Lists!Times \cup {Lists!Never}]
  PROVE  Lists!IsFiniteSet(Lists!Kept(v)) /\ Lists!Cardinality(Lists!Kept(v)) <= Retention
<1>1. /\ Lists!Kept(v) \subseteq Products /\ Lists!IsFiniteSet(Lists!Kept(v))
            /\ Lists!IsFiniteSet(Products)
      /\ Retention \in Nat /\ Retention > 0
  BY ListNumbers, FS_Subset, ListsCount DEF Lists!Kept
<1>2. CASE Lists!Kept(v) = {}
  BY <1>1, <1>2, FS_EmptySet, ListsCount
<1>3. CASE Lists!Kept(v) # {}
  <2>1. PICK m \in Lists!Kept(v) : \A q \in Lists!Kept(v) \ {m} : Lists!Newer(v, q, m)
    <3>1. \A p \in Lists!Kept(v) : v[p] \in Nat
      BY ListNumbers DEF Lists!Kept
    <3> QED BY <1>1, <1>3, <3>1, OldestView
  <2> DEFINE A == {q \in Products : v[q] # Lists!Never /\ Lists!Newer(v, q, m)}
  <2>2. Lists!IsFiniteSet(A) /\ Lists!Cardinality(A) \in Nat /\ Lists!Cardinality(A) < Retention
    <3>1. Lists!Cardinality(A) < Retention
      BY <2>1 DEF Lists!Kept
    <3>2. Lists!IsFiniteSet(A)
      BY <1>1, FS_Subset, ListsCount
    <3> QED BY <3>1, <3>2, FS_CardinalityType, ListsCount
  <2>3. Lists!Kept(v) \ {m} \subseteq A
    BY <2>1 DEF Lists!Kept
  <2>4. Lists!Cardinality(Lists!Kept(v) \ {m}) <= Lists!Cardinality(A)
    BY <2>2, <2>3, FS_Subset, ListsCount
  <2>5. Lists!Cardinality(Lists!Kept(v) \ {m}) = Lists!Cardinality(Lists!Kept(v)) - 1 /\ Lists!Cardinality(Lists!Kept(v)) \in Nat
    BY <1>1, <2>1, FS_RemoveElement, FS_CardinalityType, ListsCount
  <2> QED BY <1>1, <2>2, <2>4, <2>5
<1> QED
  BY <1>2, <1>3

\* What is newer than something kept is kept.
LEMMA NewerIsKept ==
  ASSUME Lists!ConstantsAreValid, NEW v \in [Products -> Lists!Times \cup {Lists!Never}],
         NEW q \in Lists!Kept(v), NEW p \in Products, v[p] # Lists!Never, Lists!Newer(v, p, q)
  PROVE  p \in Lists!Kept(v)
<1> DEFINE Before(x) == {y \in Products : v[y] # Lists!Never /\ Lists!Newer(v, y, x)}
<1>1. Lists!IsFiniteSet(Before(q)) /\ Lists!Cardinality(Before(q)) \in Nat
  BY ListNumbers, FS_Subset, FS_CardinalityType, ListsCount
<1>2. Before(p) \subseteq Before(q)
  <2> SUFFICES ASSUME NEW y \in Before(p) PROVE Lists!Newer(v, y, q)
    OBVIOUS
  <2>1. /\ v[y] \in Nat /\ v[p] \in Nat /\ v[q] \in Nat /\ y \in Nat /\ p \in Nat /\ q \in Nat
        /\ Lists!Newer(v, y, p)
    BY ListNumbers DEF Lists!Kept
  <2> QED BY <2>1 DEF Lists!Newer
<1>3. Lists!Cardinality(Before(p)) <= Lists!Cardinality(Before(q)) /\ Lists!Cardinality(Before(p)) \in Nat
  <2> HIDE DEF Before
  <2> QED BY <1>1, <1>2, FS_Subset, FS_CardinalityType, ListsCount
<1>4. Lists!Cardinality(Before(q)) < Retention
  BY DEF Lists!Kept
<1>5. Lists!Cardinality(Before(p)) < Retention
  <2> HIDE DEF Before
  <2> QED BY <1>1, <1>3, <1>4, ListNumbers
<1> QED
  BY <1>5 DEF Lists!Kept

-----------------------------------------------------------------------------

\* The caps hold of rows of the right types.
ListsInvariant == Lists!TypeOK /\ Lists!ListsStayBounded

\* The history with the view of r, before the oldest entries go.
Upserted(r) == [views EXCEPT ![ctx[r].product] = Lists!Latest(@, ctx[r].at)]

\* What is asked and what is kept are of their types.
LEMMA AskedTypes ==
  ASSUME Lists!ConstantsAreValid, Lists!TypeOK
  PROVE  /\ Lists!Saved \subseteq Products /\ Lists!IsFiniteSet(Lists!Saved)
               /\ Lists!Cardinality(Lists!Saved) \in Nat
         /\ \A op \in Lists!Ops, p \in Products : Lists!Asked(op, p) \in Lists!Context
         /\ \A r \in Requests : Lists!Open(r) => ctx[r] \in Lists!Context
         /\ \A x \in Lists!Context : x.op \in {"add", "record", "remove", "forget"} =>
               x.product \in Products
         /\ \A x \in Lists!Context : x.op = "record" => x.at \in Lists!Times
<1>1. Lists!Saved \subseteq Products /\ Lists!IsFiniteSet(Lists!Saved)
                                           /\ Lists!Cardinality(Lists!Saved) \in Nat
  BY ListNumbers, FS_Subset, FS_CardinalityType, ListsCount DEF Lists!Saved
<1>2. ASSUME NEW op \in Lists!Ops, NEW p \in Products PROVE Lists!Asked(op, p) \in Lists!Context
  <2>1. CASE op = "add"
    BY <1>1, <2>1 DEF Lists!Asked, Lists!Context
  <2>2. CASE op = "record"
    BY <2>2 DEF Lists!Asked, Lists!Context, Lists!TypeOK
  <2>3. CASE op = "clear"
    BY <2>3 DEF Lists!Asked, Lists!Context
  <2>4. CASE op \in {"remove", "forget"}
    BY <2>4 DEF Lists!Asked, Lists!Context
  <2> QED BY <2>1, <2>2, <2>3, <2>4 DEF Lists!Ops
<1>3. \A r \in Requests : Lists!Open(r) => ctx[r] \in Lists!Context
  BY DEF Lists!TypeOK, Lists!Open
<1>4. \A x \in Lists!Context : x.op \in {"add", "record", "remove", "forget"} =>
        x.product \in Products
  BY DEF Lists!Context
<1>5. \A x \in Lists!Context : x.op = "record" => x.at \in Lists!Times
  BY DEF Lists!Context
<1> QED
  BY <1>1, <1>2, <1>3, <1>4, <1>5

\* A view that is recorded: what becomes of the history.
LEMMA RecordedViews ==
  ASSUME Lists!ConstantsAreValid, Lists!TypeOK, NEW r \in Requests, Lists!Record(r), ctx[r].found
  PROVE  /\ Upserted(r) \in [Products -> Lists!Times \cup {Lists!Never}]
         /\ views' = [q \in Products |-> IF q \in Lists!Kept(Upserted(r)) THEN Upserted(r)[q] ELSE Lists!Never]
         /\ Lists!Viewed' = Lists!Kept(Upserted(r))
         /\ \A p \in Products : Upserted(r)[p] >= views[p]
         /\ \A p \in Lists!Viewed : Upserted(r)[p] # Lists!Never
<1> DEFINE up == Upserted(r)
<1> USE DEF Upserted
<1> DEFINE p == ctx[r].product
           at == ctx[r].at
<1>1. p \in Products /\ at \in Lists!Times
  BY AskedTypes DEF Lists!Record
<1>2. views \in [Products -> Lists!Times \cup {Lists!Never}]
  BY DEF Lists!TypeOK
<1>3. Lists!Latest(views[p], at) \in Lists!Times /\ Lists!Latest(views[p], at) >= views[p]
  <2>1. at \in Nat /\ at <= MaxTime /\ MaxTime \in Nat /\ views[p] \in Int /\ views[p] <= MaxTime
                         /\ views[p] >= -1
    BY <1>1, <1>2, ListNumbers DEF Lists!Times, Lists!Never
  <2> HIDE DEF p, at
  <2> QED BY <2>1 DEF Lists!Latest, Lists!Times
<1>4. up \in [Products -> Lists!Times \cup {Lists!Never}]
  BY <1>1, <1>2, <1>3
<1>5. views' = [q \in Products |-> IF q \in Lists!Kept(up) THEN up[q] ELSE Lists!Never]
  BY DEF Lists!Record
<1>6. Lists!Kept(up) \subseteq Products /\ \A q \in Lists!Kept(up) : up[q] # Lists!Never
  BY DEF Lists!Kept
<1>7. Lists!Viewed' = Lists!Kept(up)
  BY <1>5, <1>6 DEF Lists!Viewed
<1>8. \A q \in Products : up[q] >= views[q]
  <2> SUFFICES ASSUME NEW q \in Products PROVE up[q] >= views[q]
    OBVIOUS
  <2>1. views[q] \in Int
    BY <1>2, ListNumbers DEF Lists!Never
  <2>2. CASE q = p
    BY <1>2, <1>3, <2>2
  <2>3. CASE q # p
    BY <1>2, <2>1, <2>3
  <2> QED BY <2>2, <2>3
<1>9. \A q \in Lists!Viewed : up[q] # Lists!Never
  <2> SUFFICES ASSUME NEW q \in Lists!Viewed PROVE up[q] # Lists!Never
    OBVIOUS
  <2>1. q \in Products /\ views[q] # Lists!Never
    BY DEF Lists!Viewed
  <2>2. CASE q = p
    BY <1>2, <1>3, <2>1, <2>2, ListNumbers
  <2>3. CASE q # p
    BY <1>2, <2>1, <2>3
  <2> QED BY <2>2, <2>3
<1> QED
  BY <1>4, <1>5, <1>7, <1>8, <1>9

\* A listing that is saved adds a row where there is room; a removal takes one.
LEMMA SavedStay ==
  ASSUME Lists!ConstantsAreValid, ListsInvariant, [Lists!Next]_(Lists!vars)
  PROVE  /\ Lists!TypeOK' /\ Lists!Cardinality(Lists!Saved') <= Quota
         /\ \A p \in Lists!Saved \cap Lists!Saved' : favorites'[p] = favorites[p]
<1> USE DEF ListsInvariant, Lists!ListsStayBounded
<1>0. favorites \in [Products -> Lists!Times \cup {Lists!Never}] /\ views \in [Products -> Lists!Times \cup {Lists!Never}]
  BY DEF Lists!TypeOK
<1>1. ASSUME NEW r \in Requests, Lists!Add(r)
      PROVE  /\ Lists!TypeOK' /\ Lists!Cardinality(Lists!Saved') <= Quota
             /\ \A p \in Lists!Saved \cap Lists!Saved' : favorites'[p] = favorites[p]
  <2> DEFINE p == ctx[r].product
  <2>1. p \in Products /\ now \in Lists!Times /\ Lists!Saved \subseteq Products
    BY <1>1, AskedTypes DEF Lists!Add, Lists!TypeOK
  <2>2. Lists!TypeOK'
    <3> HIDE DEF p
    <3>1. favorites' \in {favorites, [favorites EXCEPT ![p] = now]}
      BY <1>1 DEF Lists!Add, p
    <3> QED BY <1>0, <1>1, <2>1, <3>1 DEF Lists!Add, Lists!TypeOK, Lists!Finish
  <2>3. CASE favorites' = favorites
    BY <2>2, <2>3 DEF Lists!Saved
  <2>4. CASE favorites' = [favorites EXCEPT ![p] = now] /\ p \notin Lists!Saved
                                                              /\ Lists!Cardinality(Lists!Saved) < Quota
    <3>1. now # Lists!Never
      BY <2>1, ListNumbers
    <3>2. Lists!Saved' = Lists!Saved \cup {p}
      <4> HIDE DEF p
      <4> QED BY <1>0, <2>1, <2>4, <3>1 DEF Lists!Saved
    <3>3. Lists!Cardinality(Lists!Saved') <= Quota
      <4>1. Lists!IsFiniteSet(Lists!Saved) /\ Lists!Cardinality(Lists!Saved) \in Nat
        BY AskedTypes
      <4>2. Lists!Cardinality(Lists!Saved \cup {p}) = Lists!Cardinality(Lists!Saved) + 1
        BY <2>4, <4>1, FS_AddElement, ListsCount
      <4> HIDE DEF p
      <4> QED BY <2>4, <3>2, <4>1, <4>2, ListNumbers
    <3>4. \A q \in Lists!Saved : favorites'[q] = favorites[q]
      BY <1>0, <2>1, <2>4
    <3> QED BY <2>2, <3>3, <3>4
  <2> QED BY <1>1, <2>3, <2>4 DEF Lists!Add, Lists!Entries
<1>2. ASSUME NEW r \in Requests, Lists!Remove(r)
      PROVE  /\ Lists!TypeOK' /\ Lists!Cardinality(Lists!Saved') <= Quota
             /\ \A p \in Lists!Saved \cap Lists!Saved' : favorites'[p] = favorites[p]
  <2> DEFINE p == ctx[r].product
  <2>1. ctx[r].op # "clear" => p \in Products
    BY <1>2, AskedTypes DEF Lists!Remove
  <2>2. \/ favorites' = favorites
        \/ p \in Products /\ favorites' = [favorites EXCEPT ![p] = Lists!Never]
    BY <1>2, <2>1 DEF Lists!Remove
  <2>3. views' \in [Products -> Lists!Times \cup {Lists!Never}]
    BY <1>0, <1>2, <2>1 DEF Lists!Remove
  <2> HIDE DEF p
  <2>4. favorites' \in [Products -> Lists!Times \cup {Lists!Never}]
    BY <1>0, <2>2
  <2>5. Lists!TypeOK'
    BY <1>2, <2>3, <2>4 DEF Lists!Remove, Lists!TypeOK, Lists!Finish
  <2>6. Lists!Saved' \subseteq Lists!Saved /\ \A q \in Lists!Saved' : favorites'[q] = favorites[q]
    BY <1>0, <2>2 DEF Lists!Saved
  <2>7. Lists!Cardinality(Lists!Saved') <= Lists!Cardinality(Lists!Saved) /\ Lists!Cardinality(Lists!Saved') \in Nat
    BY <2>6, AskedTypes, FS_Subset, FS_CardinalityType, ListsCount
  <2> QED BY <2>5, <2>6, <2>7, AskedTypes, ListNumbers
<1>3. CASE UNCHANGED favorites /\ Lists!TypeOK'
  BY <1>3 DEF Lists!Saved
<1>4. ASSUME NEW r \in Requests,
             Lists!Arrive(r) \/ Lists!Abort(r) PROVE UNCHANGED favorites /\ Lists!TypeOK'
  <2>1. PICK x \in Lists!Context \cup {Lists!Idle} :
           /\ ctx' = [ctx EXCEPT ![r] = x]
           /\ UNCHANGED <<now, visible, favorites, views>>
    <3>1. CASE Lists!Arrive(r)
      BY <3>1, AskedTypes DEF Lists!Arrive
    <3>2. CASE Lists!Abort(r)
      <4>1. ctx[r].op \in {"add", "record"} =>
              ctx[r].op \in Lists!Ops /\ ctx[r].product \in Products
        BY <3>2, AskedTypes DEF Lists!Abort, Lists!Ops
      <4> QED BY <3>2, <4>1, AskedTypes DEF Lists!Abort, Lists!Finish
    <3> QED BY <1>4, <3>1, <3>2
  <2> QED BY <2>1 DEF Lists!TypeOK
<1>5. ASSUME NEW r \in Requests, Lists!Record(r) PROVE UNCHANGED favorites /\ Lists!TypeOK'
  <2>1. views' \in [Products -> Lists!Times \cup {Lists!Never}]
    <3>1. CASE ctx[r].found
      BY <1>5, <3>1, RecordedViews
    <3>2. CASE ~ctx[r].found
      BY <1>0, <1>5, <3>2 DEF Lists!Record
    <3> QED BY <3>1, <3>2
  <2> QED BY <1>5, <2>1 DEF Lists!Record, Lists!TypeOK, Lists!Finish
<1>6. CASE Lists!ChangeVisibility \/ Lists!Tick \/ UNCHANGED Lists!vars
  <2>1. now' \in Lists!Times
    BY <1>6, ListNumbers
       DEF Lists!ChangeVisibility, Lists!Tick, Lists!vars, Lists!TypeOK, Lists!Times
  <2>2. visible' \subseteq Products
    BY <1>6 DEF Lists!ChangeVisibility, Lists!Tick, Lists!vars, Lists!TypeOK
  <2> QED BY <1>3, <1>6, <2>1, <2>2
             DEF Lists!ChangeVisibility, Lists!Tick, Lists!vars, Lists!TypeOK
<1> QED
  BY <1>1, <1>2, <1>3, <1>4, <1>5, <1>6 DEF Lists!Next

\* The history keeps the newest, and no view goes back.
LEMMA HistoryMoves ==
  ASSUME Lists!ConstantsAreValid, ListsInvariant, [Lists!Next]_(Lists!vars)
  PROVE  /\ Lists!Cardinality(Lists!Viewed') <= Retention
         /\ \A p \in Lists!Viewed \cap Lists!Viewed' : views'[p] >= views[p]
         /\ (\E q \in Lists!Viewed' : views'[q] # views[q]) =>
               \A p \in Lists!Viewed \ Lists!Viewed', q \in Lists!Viewed' : views[p] <= views'[q]
<1> USE DEF ListsInvariant, Lists!ListsStayBounded
<1>0. /\ views \in [Products -> Lists!Times \cup {Lists!Never}]
            /\ \A p \in Products : views[p] \in Int
      /\ Lists!IsFiniteSet(Lists!Viewed) /\ Lists!Cardinality(Lists!Viewed) \in Nat
            /\ Lists!Viewed \subseteq Products
  BY ListNumbers, FS_Subset, FS_CardinalityType, ListsCount
     DEF Lists!TypeOK, Lists!Never, Lists!Viewed
<1>1. ASSUME NEW r \in Requests, Lists!Record(r), ctx[r].found
      PROVE  /\ Lists!Cardinality(Lists!Viewed') <= Retention
             /\ \A p \in Lists!Viewed \cap Lists!Viewed' : views'[p] >= views[p]
             /\ \A p \in Lists!Viewed \ Lists!Viewed', q \in Lists!Viewed' : views[p] <= views'[q]
  <2> DEFINE up == Upserted(r)
  <2>2. /\ up \in [Products -> Lists!Times \cup {Lists!Never}]
        /\ views' = [q \in Products |-> IF q \in Lists!Kept(up) THEN up[q] ELSE Lists!Never]
        /\ Lists!Viewed' = Lists!Kept(up)
        /\ \A p \in Products : up[p] >= views[p]
        /\ \A p \in Lists!Viewed : up[p] # Lists!Never
    BY <1>1, RecordedViews
  <2> HIDE DEF up
  <2>3. Lists!Cardinality(Lists!Viewed') <= Retention
    BY <2>2, KeptIsBounded
  <2>4. ASSUME NEW p \in Lists!Viewed \ Lists!Viewed',
               NEW q \in Lists!Viewed' PROVE views[p] <= views'[q]
    <3>1. p \in Products /\ q \in Products /\ q \in Lists!Kept(up) /\ p \notin Lists!Kept(up)
                               /\ up[p] # Lists!Never
      BY <1>0, <2>2 DEF Lists!Kept
    <3>2. ~Lists!Newer(up, p, q)
      BY <2>2, <3>1, NewerIsKept
    <3>3. /\ up[p] \in Int /\ up[q] \in Int /\ views[p] \in Int /\ views'[q] = up[q]
          /\ up[p] >= views[p]
      BY <1>0, <2>2, <3>1, ListNumbers DEF Lists!Never
    <3> QED BY <3>2, <3>3 DEF Lists!Newer
  <2>5. \A p \in Lists!Viewed \cap Lists!Viewed' : views'[p] >= views[p]
    BY <1>0, <2>2
  <2> QED BY <2>3, <2>4, <2>5
<1>2. ASSUME NEW r \in Requests, Lists!Remove(r)
      PROVE  Lists!Viewed' \subseteq Lists!Viewed /\ \A p \in Lists!Viewed' : views'[p] = views[p]
  <2> DEFINE p == ctx[r].product
  <2>1. ctx[r].op # "clear" => p \in Products
    BY <1>2, AskedTypes DEF Lists!Remove
  <2>2. \/ views' = views
        \/ p \in Products /\ views' = [views EXCEPT ![p] = Lists!Never]
        \/ views' = [q \in Products |-> Lists!Never]
    BY <1>2, <2>1 DEF Lists!Remove
  <2> HIDE DEF p
  <2> QED BY <1>0, <2>2 DEF Lists!Viewed
<1>3. ASSUME Lists!Viewed' \subseteq Lists!Viewed /\ \A p \in Lists!Viewed' : views'[p] = views[p]
      PROVE  /\ Lists!Cardinality(Lists!Viewed') <= Retention
             /\ \A p \in Lists!Viewed \cap Lists!Viewed' : views'[p] >= views[p]
             /\ ~ \E q \in Lists!Viewed' : views'[q] # views[q]
  <2>1. Lists!Cardinality(Lists!Viewed') <= Lists!Cardinality(Lists!Viewed) /\ Lists!Cardinality(Lists!Viewed') \in Nat
    BY <1>0, <1>3, FS_Subset, FS_CardinalityType, ListsCount
  <2> QED BY <1>0, <1>3, <2>1, ListNumbers
<1>4. ASSUME views' = views
      PROVE  Lists!Viewed' \subseteq Lists!Viewed /\ \A p \in Lists!Viewed' : views'[p] = views[p]
  BY <1>4 DEF Lists!Viewed
<1>5. ASSUME NEW r \in Requests,
             \/ Lists!Arrive(r) \/ Lists!Abort(r) \/ Lists!Add(r) \/ (Lists!Record(r) /\ ~ctx[r].found)
      PROVE  views' = views
  BY <1>5 DEF Lists!Arrive, Lists!Abort, Lists!Add, Lists!Record
<1>6. ASSUME Lists!ChangeVisibility \/ Lists!Tick \/ UNCHANGED Lists!vars PROVE views' = views
  BY <1>6 DEF Lists!ChangeVisibility, Lists!Tick, Lists!vars
<1> QED
  BY <1>1, <1>2, <1>3, <1>4, <1>5, <1>6 DEF Lists!Next

\* A step keeps the lists in their bounds.
LEMMA ListsStepKeepsInvariant ==
  ASSUME Lists!ConstantsAreValid, ListsInvariant, [Lists!Next]_(Lists!vars)
  PROVE  ListsInvariant'
  BY SavedStay, HistoryMoves DEF ListsInvariant, Lists!ListsStayBounded

\* Nothing is saved or viewed at first.
LEMMA ListsInitHasInvariant ==
  ASSUME Lists!ConstantsAreValid, Lists!Init PROVE ListsInvariant
<1>1. Lists!TypeOK
  BY ListNumbers DEF Lists!Init, Lists!TypeOK, Lists!Times
<1>2. Lists!Saved = {} /\ Lists!Viewed = {}
  BY DEF Lists!Init, Lists!Saved, Lists!Viewed
<1> QED
  BY <1>1, <1>2, FS_EmptySet, ListsCount, ListNumbers DEF ListsInvariant, Lists!ListsStayBounded

-----------------------------------------------------------------------------
(* Reading page by page (module BrowsePages).                                   *)

\* The instance's finite sets and cardinalities are those of the library.
LEMMA PagesCount ==
  /\ \A S : Pages!IsFiniteSet(S) <=> IsFiniteSet(S)
  /\ \A S : Pages!Cardinality(S) = Cardinality(S)
  BY DEF Pages!IsFiniteSet, IsFiniteSet, Pages!Cardinality, Cardinality

\* The order of the statement, for any positions.
LEMMA OrderOfRows ==
  ASSUME NEW v \in Nat, NEW p \in Nat, NEW w \in Nat, NEW q \in Nat, NEW x \in Nat, NEW y \in Nat
  PROVE  /\ Pages!Comes(v, p, w, q) \/ Pages!Comes(w, q, v, p) \/ p = q
         /\ ~Pages!Comes(v, p, v, p)
         /\ Pages!Comes(v, p, w, q) => ~Pages!Comes(w, q, v, p)
         /\ Pages!Comes(v, p, w, q) /\ Pages!Comes(w, q, x, y) => Pages!Comes(v, p, x, y)
  BY DEF Pages!Comes

\* The rows before one are fewer than those before a later one.
LEMMA RankGrows ==
  ASSUME Pages!ConstantsAreValid, Pages!TypeOK
  PROVE  /\ \A p \in Pages!Rows : p \in Slugs /\ p \in Nat /\ value[p] \in Nat
               /\ Pages!Rank(p) \in Nat
         /\ \A p, q \in Pages!Rows : Pages!Comes(value[p], p, value[q], q) =>
               Pages!Rank(p) < Pages!Rank(q)
         /\ Limit \in Nat /\ Limit > 0
<1>1. Pages!IsFiniteSet(Pages!Rows) /\ \A p \in Pages!Rows : p \in Slugs /\ p \in Nat
                                          /\ value[p] \in Nat
  <2>1. Pages!Rows \subseteq Slugs /\ Pages!IsFiniteSet(Slugs) /\ Slugs \subseteq Nat
                                         /\ MaxValue \in Nat
    BY DEF Pages!TypeOK, Pages!Rows, Pages!ConstantsAreValid
  <2>2. \A p \in Slugs : value[p] \in Nat
    BY <2>1 DEF Pages!TypeOK
  <2> QED BY <2>1, <2>2, FS_Subset, PagesCount
<1> DEFINE Before(p) == {q \in Pages!Rows : Pages!Comes(value[q], q, value[p], p)}
<1>2. \A p : Pages!IsFiniteSet(Before(p)) /\ Pages!Cardinality(Before(p)) \in Nat
  BY <1>1, FS_Subset, FS_CardinalityType, PagesCount
<1>3. ASSUME NEW p \in Pages!Rows, NEW q \in Pages!Rows, Pages!Comes(value[p], p, value[q], q)
      PROVE  Pages!Rank(p) < Pages!Rank(q)
  <2>1. p \notin Before(p)
    BY <1>1, OrderOfRows
  <2>2. Before(p) \cup {p} \subseteq Before(q)
    <3> SUFFICES ASSUME NEW x \in Before(p) \cup {p}
                 PROVE  Pages!Comes(value[x], x, value[q], q) /\ x \in Pages!Rows
      OBVIOUS
    <3>1. CASE x = p
      BY <1>3, <3>1
    <3>2. CASE x # p
      <4>1. x \in Pages!Rows /\ Pages!Comes(value[x], x, value[p], p)
        BY <3>2
      <4> QED BY <1>1, <1>3, <4>1, OrderOfRows
    <3> QED BY <3>1, <3>2
  <2>3. Pages!Cardinality(Before(p) \cup {p}) = Pages!Cardinality(Before(p)) + 1
    <3> HIDE DEF Before
    <3> QED BY <1>2, <2>1, FS_AddElement, PagesCount
  <2>4. Pages!Cardinality(Before(p) \cup {p}) <= Pages!Cardinality(Before(q))
    <3> HIDE DEF Before
    <3> QED BY <1>2, <2>2, FS_Subset, PagesCount
  <2>5. Pages!Cardinality(Before(p)) < Pages!Cardinality(Before(q))
    <3> HIDE DEF Before
    <3> QED BY <1>2, <2>3, <2>4
  <2> QED BY <2>5 DEF Pages!Rank
<1>4. \A p \in Pages!Rows : Pages!Rank(p) \in Nat
  BY <1>2 DEF Pages!Rank
<1> QED
  BY <1>1, <1>3, <1>4 DEF Pages!ConstantsAreValid

\* Where no row comes right after the page, none comes later.
LEMMA NoGap ==
  ASSUME Pages!ConstantsAreValid, Pages!TypeOK, ~Pages!HasMore
  PROVE  \A p \in Pages!Rows : Pages!Rank(p) < Limit
<1> SUFFICES ASSUME NEW o \in Pages!Rows, ~(Pages!Rank(o) < Limit) PROVE FALSE
  OBVIOUS
<1> DEFINE T == {Pages!Rank(p) : p \in {q \in Pages!Rows : ~(Pages!Rank(q) < Limit)}}
<1>1. PICK x \in T : \A y \in T : x <= y
  <2>1. T \subseteq Nat /\ T # {}
    BY RankGrows
  <2> HIDE DEF T
  <2> QED BY <2>1, LeastOf
<1>2. PICK p \in Pages!Rows : x = Pages!Rank(p) /\ ~(Pages!Rank(p) < Limit)
  OBVIOUS
<1>3. Pages!Rank(p) \in Nat /\ Limit \in Nat /\ Limit > 0 /\ Pages!Rank(p) > Limit
  BY <1>2, RankGrows DEF Pages!HasMore
<1> DEFINE Before(q) == {y \in Pages!Rows : Pages!Comes(value[y], y, value[q], q)}
<1>4. Pages!IsFiniteSet(Before(p)) /\ Pages!Cardinality(Before(p)) = Pages!Rank(p)
  <2>1. Pages!IsFiniteSet(Pages!Rows)
    BY FS_Subset, PagesCount DEF Pages!TypeOK, Pages!Rows, Pages!ConstantsAreValid
  <2> QED BY <2>1, FS_Subset, PagesCount DEF Pages!Rank
<1>5. \A q \in Before(p) : q \in Pages!Rows /\ Pages!Rank(q) \in Nat
                                                  /\ Pages!Rank(q) < Pages!Rank(p)
  BY RankGrows
<1>6. \A q \in Before(p) : Pages!Rank(q) < Limit
  <2> SUFFICES ASSUME NEW q \in Before(p), ~(Pages!Rank(q) < Limit) PROVE FALSE
    OBVIOUS
  <2>1. Pages!Rank(q) \in T
    BY <1>5
  <2>2. Pages!Rank(p) <= Pages!Rank(q)
    BY <1>1, <1>2, <2>1
  <2> QED BY <1>3, <1>5, <2>2
<1>7. Before(p) # {}
  BY <1>3, <1>4, FS_EmptySet, PagesCount
<1> DEFINE U == {Limit - Pages!Rank(q) : q \in Before(p)}
<1>8. PICK z \in U : \A y \in U : z <= y
  <2>1. U \subseteq Nat /\ U # {}
    <3> HIDE DEF Before
    <3> QED BY <1>3, <1>5, <1>6, <1>7
  <2> HIDE DEF U
  <2> QED BY <2>1, LeastOf
<1>9. PICK m \in Before(p) : z = Limit - Pages!Rank(m)
  OBVIOUS
<1>10. \A q \in Before(p) : Pages!Rank(q) <= Pages!Rank(m)
  <2> SUFFICES ASSUME NEW q \in Before(p) PROVE Pages!Rank(q) <= Pages!Rank(m)
    OBVIOUS
  <2>1. Limit - Pages!Rank(m) <= Limit - Pages!Rank(q)
    BY <1>8, <1>9
  <2> HIDE DEF Before
  <2> QED BY <1>3, <1>5, <2>1
<1>11. Before(p) \ {m} \subseteq Before(m)
  <2> SUFFICES ASSUME NEW q \in Before(p) \ {m} PROVE Pages!Comes(value[q], q, value[m], m)
    BY <1>5
  <2>1. ~Pages!Comes(value[m], m, value[q], q)
    BY <1>5, <1>10, RankGrows
  <2>2. q \in Nat /\ value[q] \in Nat /\ m \in Nat /\ value[m] \in Nat
    BY <1>5, RankGrows
  <2> QED BY <2>1, <2>2, OrderOfRows
<1>12. Pages!Cardinality(Before(p) \ {m}) = Pages!Rank(p) - 1
  <2> HIDE DEF Before
  <2> QED BY <1>4, <1>9, FS_RemoveElement, PagesCount
<1>13. Pages!Cardinality(Before(p) \ {m}) <= Pages!Rank(m)
  <2>1. Pages!IsFiniteSet(Before(m))
    <3>1. Pages!IsFiniteSet(Pages!Rows)
      BY FS_Subset, PagesCount DEF Pages!TypeOK, Pages!Rows, Pages!ConstantsAreValid
    <3> QED BY <3>1, FS_Subset, PagesCount
  <2>2. Pages!Rank(m) = Pages!Cardinality(Before(m))
    BY DEF Pages!Rank
  <2> HIDE DEF Before
  <2> QED BY <1>11, <2>1, <2>2, FS_Subset, PagesCount
<1>14. Pages!Rank(m) < Limit /\ Pages!Rank(m) \in Nat
  BY <1>5, <1>6
<1> QED
  BY <1>3, <1>12, <1>13, <1>14

-----------------------------------------------------------------------------

\* Beyond the cursor the reader holds, which a start does not look at.
Ahead(p) == Pages!Comes(cursor.value, cursor.slug, value[p], p)

\* Rows behind the cursor were given if they stayed, and rows that were given stay
\* behind it unless prices change order.
PagesInvariant ==
    /\ Pages!TypeOK
    /\ state = "reading" => cursor \in [query: Queries, value: 0..MaxValue, slug: Slugs]
    /\ state = "start" => \A p \in Slugs : times[p] = 0
    /\ state = "reading" /\ Pages!Bound => \A p \in steady \cap query : ~Ahead(p) => times[p] > 0
    /\ state = "reading" /\ sort \in {"newest", "recent"} =>
         \A p \in Slugs : times[p] > 0 => ~Ahead(p)
    /\ Pages!PagesCoverTheSteady

\* Slugs and values are numbers.
LEMMA PageNumbers ==
  ASSUME Pages!ConstantsAreValid, Pages!TypeOK
  PROVE  /\ Slugs \subseteq Nat /\ MaxValue \in Nat /\ \A p \in Slugs : p \in Nat
               /\ value[p] \in Nat
         /\ \A p \in Slugs : times[p] \in 0..2
         /\ steady \subseteq shown /\ shown \subseteq Slugs
         /\ \A c \in [query: Queries, value: 0..MaxValue, slug: Slugs] :
              c.value \in Nat /\ c.slug \in Nat /\ c.query \in Queries
<1>1. Slugs \subseteq Nat /\ MaxValue \in Nat
  BY DEF Pages!ConstantsAreValid
<1>2. \A p \in Slugs : p \in Nat /\ value[p] \in Nat
  BY <1>1 DEF Pages!TypeOK
<1>3. \A c \in [query: Queries, value: 0..MaxValue, slug: Slugs] :
        c.value \in Nat /\ c.slug \in Nat /\ c.query \in Queries
  <2> TAKE c \in [query: Queries, value: 0..MaxValue, slug: Slugs]
  <2>1. c.value \in 0..MaxValue /\ c.slug \in Slugs /\ c.query \in Queries
    OBVIOUS
  <2>2. c.slug \in Nat
    BY <1>1, <2>1
  <2>3. c.value \in Nat
    BY <1>1, <2>1, SMT
  <2> QED BY <2>1, <2>2, <2>3
<1> QED
  BY <1>1, <1>2, <1>3 DEF Pages!TypeOK

\* A row of a page was not given before, unless prices change order.
LEMMA NewOnThePage ==
  ASSUME Pages!ConstantsAreValid, PagesInvariant, Pages!Page, NEW p \in Pages!Emitted,
         sort \in {"newest", "recent"}
  PROVE  times[p] = 0
<1>1. p \in Slugs /\ Pages!Beyond(p) /\ times[p] \in 0..2
  BY PageNumbers DEF Pages!Emitted, Pages!Rows, PagesInvariant
<1>2. CASE state = "start"
  BY <1>1, <1>2 DEF PagesInvariant
<1>3. CASE state = "reading"
  <2>1. ~(times[p] > 0)
    BY <1>1, <1>3 DEF PagesInvariant, Pages!Beyond, Ahead
  <2> QED BY <1>1, <2>1
<1> QED
  BY <1>2, <1>3 DEF Pages!Page

\* How often rows were given after a page.
LEMMA GivenByThePage ==
  ASSUME Pages!ConstantsAreValid, PagesInvariant, Pages!Page
  PROVE  /\ times' \in [Slugs -> 0..2]
         /\ \A p \in Pages!Emitted : times'[p] > 0
         /\ \A p \in Slugs : times[p] > 0 => times'[p] > 0
         /\ sort \in {"newest", "recent"} => \A p \in Slugs : times'[p] <= 1
         /\ \A p \in Slugs : times'[p] > 0 => p \in Pages!Emitted \/ times[p] > 0
<1>1. times' = [p \in Slugs |-> IF p \in Pages!Emitted /\ times[p] < 2 THEN times[p] + 1 ELSE times[p]]
  BY DEF Pages!Page
<1>2. Pages!Emitted \subseteq Slugs /\ \A p \in Slugs : times[p] \in 0..2
  BY PageNumbers DEF Pages!Emitted, Pages!Rows, PagesInvariant
<1>3. sort \in {"newest", "recent"} => \A p \in Slugs : times'[p] <= 1
  <2> SUFFICES ASSUME sort \in {"newest", "recent"}, NEW p \in Slugs PROVE times'[p] <= 1
    OBVIOUS
  <2>1. times[p] <= 1
    BY DEF PagesInvariant, Pages!PagesCoverTheSteady
  <2>2. p \in Pages!Emitted => times[p] = 0
    BY NewOnThePage
  <2> QED BY <1>1, <1>2, <2>1, <2>2
<1>4. \A p \in Slugs : times'[p] \in 0..2 /\ (times[p] > 0 => times'[p] > 0)
                       /\ (p \in Pages!Emitted => times'[p] > 0)
                       /\ (times'[p] > 0 => p \in Pages!Emitted \/ times[p] > 0)
  BY <1>1, <1>2
<1> QED
  BY <1>1, <1>2, <1>3, <1>4

\* A page gives every row up to its last one.
LEMMA PageKeepsInvariant ==
  ASSUME Pages!ConstantsAreValid, PagesInvariant, Pages!Page PROVE PagesInvariant'
<1>0. /\ state \in {"start", "reading"} /\ Pages!Bound
      /\ UNCHANGED <<sort, shown, value, query, steady>> /\ Pages!TypeOK
  BY DEF Pages!Page, PagesInvariant
\* A row that stayed and matches is on the page, or was given before.
<1>1. ASSUME NEW p \in steady \cap query
      PROVE  p \in Pages!Rows \/ (p \notin Pages!Rows /\ times[p] > 0 /\ p \in Slugs)
  <2>1. p \in shown /\ p \in Slugs
    BY <1>0, PageNumbers
  <2>2. p \in Pages!Rows <=> Pages!Beyond(p)
    BY <2>1 DEF Pages!Rows
  <2>3. ~Pages!Beyond(p) => times[p] > 0
    BY <1>0 DEF Pages!Beyond, Ahead, PagesInvariant
  <2> QED BY <2>1, <2>2, <2>3
<1>2. CASE Pages!HasMore
  <2>1. PICK last \in Pages!Emitted : /\ Pages!Rank(last) = Limit - 1 /\ state' = "reading"
                                      /\ cursor' = [query |-> query, value |-> value[last], slug |-> last]
    BY <1>2 DEF Pages!Page
  <2>2. last \in Pages!Rows /\ last \in Slugs /\ value[last] \in 0..MaxValue /\ query \in Queries
    BY <1>0 DEF Pages!Emitted, Pages!Rows, Pages!TypeOK
  <2>3. cursor' \in [query: Queries, value: 0..MaxValue, slug: Slugs]
    BY <2>1, <2>2
  <2>4. Pages!TypeOK'
    BY <1>0, <2>1, <2>3, GivenByThePage DEF Pages!TypeOK
  <2>5. \A p \in Slugs : Ahead(p)' <=> Pages!Comes(value[last], last, value[p], p)
    BY <1>0, <2>1 DEF Ahead, Pages!Comes
  <2>6. ASSUME NEW p \in steady \cap query, ~Pages!Comes(value[last], last, value[p], p)
        PROVE  times'[p] > 0
    <3>1. CASE p \in Pages!Rows
      <4>1. /\ p \in Nat /\ value[p] \in Nat /\ last \in Nat /\ value[last] \in Nat
            /\ Pages!Rank(p) \in Nat /\ Pages!Rank(last) \in Nat /\ Limit \in Nat
        BY <1>0, <2>2, <3>1, RankGrows
      <4>2. p = last \/ Pages!Rank(p) < Pages!Rank(last)
        <5>1. p = last \/ Pages!Comes(value[p], p, value[last], last)
          BY <2>6, <4>1, OrderOfRows
        <5> QED BY <1>0, <2>2, <3>1, <5>1, RankGrows
      <4>3. Pages!Rank(p) < Limit
        BY <2>1, <4>1, <4>2
      <4> QED BY <3>1, <4>3, GivenByThePage DEF Pages!Emitted
    <3>2. CASE p \notin Pages!Rows
      BY <1>1, <3>2, GivenByThePage
    <3> QED BY <3>1, <3>2
  <2>7. ASSUME NEW p \in Slugs, sort \in {"newest", "recent"}, times'[p] > 0
        PROVE  ~Pages!Comes(value[last], last, value[p], p)
    <3> SUFFICES ASSUME Pages!Comes(value[last], last, value[p], p) PROVE FALSE
      OBVIOUS
    <3>0. /\ p \in Nat /\ value[p] \in Nat /\ last \in Nat /\ value[last] \in Nat
          /\ Pages!Rank(last) \in Nat /\ Limit \in Nat
      BY <1>0, <2>2, PageNumbers, RankGrows
    <3>1. CASE p \in Pages!Emitted
      <4>1. p \in Pages!Rows /\ Pages!Rank(p) < Limit
        BY <3>1 DEF Pages!Emitted
      <4>2. Pages!Rank(p) \in Nat /\ Pages!Rank(last) < Pages!Rank(p)
        BY <1>0, <2>2, <4>1, RankGrows
      <4> QED BY <2>1, <3>0, <4>1, <4>2
    <3>2. CASE p \notin Pages!Emitted
      <4>1. times[p] > 0
        BY <2>7, <3>2, GivenByThePage
      <4>2. state = "reading" /\ ~Ahead(p)
        <5>1. times[p] # 0
          BY <4>1
        <5> QED BY <1>0, <2>7, <4>1, <5>1 DEF PagesInvariant
      <4>3. Pages!Comes(cursor.value, cursor.slug, value[last], last)
        BY <2>2, <4>2 DEF Pages!Rows, Pages!Beyond
      <4>4. cursor.value \in Nat /\ cursor.slug \in Nat
        BY <1>0, <4>2, PageNumbers DEF PagesInvariant
      <4>5. Pages!Comes(cursor.value, cursor.slug, value[p], p)
        BY <3>0, <4>3, <4>4 DEF Pages!Comes
      <4> QED BY <4>2, <4>5 DEF Ahead
    <3> QED BY <3>1, <3>2
  <2>8. Pages!PagesCoverTheSteady'
    BY <1>0, <2>1, GivenByThePage DEF Pages!PagesCoverTheSteady
  <2> QED
    BY <1>0, <2>1, <2>3, <2>4, <2>5, <2>6, <2>7, <2>8, PageNumbers DEF PagesInvariant
<1>3. CASE ~Pages!HasMore
  <2>1. state' = "done" /\ cursor' = Pages!Start
    BY <1>3 DEF Pages!Page
  <2>2. Pages!TypeOK'
    BY <1>0, <2>1, GivenByThePage DEF Pages!TypeOK
  <2>3. \A p \in steady \cap query : times'[p] > 0
    BY <1>0, <1>1, <1>3, NoGap, GivenByThePage DEF Pages!Emitted
  <2> QED
    BY <1>0, <2>1, <2>2, <2>3, GivenByThePage DEF PagesInvariant, Pages!PagesCoverTheSteady
<1> QED
  BY <1>2, <1>3

\* A row that changes is no longer steady, and goes up where times are not prices.
LEMMA ChangeKeepsInvariant ==
  ASSUME Pages!ConstantsAreValid, PagesInvariant, NEW o \in Slugs,
         Pages!Change(o) PROVE PagesInvariant'
<1>1. PICK v \in Pages!NewValues(o) : value' = [value EXCEPT ![o] = v]
  BY DEF Pages!Change
<1>2. /\ state = "reading" /\ steady' = steady \ {o}
      /\ UNCHANGED <<sort, query, cursor, state, times>> /\ Pages!TypeOK
      /\ shown' \in {shown \cup {o}, shown \ {o}}
  BY DEF Pages!Change, PagesInvariant
<1>3. v \in 0..MaxValue /\ v \in Nat /\ value[o] \in Nat /\ o \in Nat
      /\ (sort \in {"newest", "recent"} => v >= value[o])
  <2>1. value[o] \in 0..MaxValue /\ MaxValue \in Nat /\ o \in Nat
    BY <1>2, PageNumbers DEF Pages!TypeOK
  <2> QED BY <2>1 DEF Pages!NewValues
<1>4. Pages!TypeOK'
  BY <1>1, <1>2, <1>3 DEF Pages!TypeOK
<1>5. value'[o] = v /\ \A p \in Slugs \ {o} : value'[p] = value[p]
  BY <1>1, <1>2 DEF Pages!TypeOK
<1>6. \A p \in Slugs \ {o} : Ahead(p)' <=> Ahead(p)
  BY <1>2, <1>5 DEF Ahead, Pages!Comes
<1>7. sort \in {"newest", "recent"} => (~Ahead(o) => ~Ahead(o)')
  <2>1. cursor.value \in Nat /\ cursor.slug \in Nat
    BY <1>2, PageNumbers DEF PagesInvariant
  <2> QED BY <1>2, <1>3, <1>5, <2>1 DEF Ahead, Pages!Comes
<1>8. \A p \in steady' \cap query' : p \in (steady \cap query) \ {o} /\ p \in Slugs
  BY <1>2, PageNumbers
<1>9. Pages!Bound' = Pages!Bound
  BY <1>2 DEF Pages!Bound
<1>10. Pages!PagesCoverTheSteady'
  BY <1>2 DEF PagesInvariant, Pages!PagesCoverTheSteady
<1>11. state' = "reading" /\ Pages!Bound' => \A p \in steady' \cap query' : ~Ahead(p)' =>
                                times'[p] > 0
  BY <1>2, <1>6, <1>8, <1>9 DEF PagesInvariant
<1>12. state' = "reading" /\ sort' \in {"newest", "recent"} =>
         \A p \in Slugs : times'[p] > 0 => ~Ahead(p)'
  BY <1>2, <1>6, <1>7 DEF PagesInvariant
<1> QED
  BY <1>2, <1>4, <1>10, <1>11, <1>12 DEF PagesInvariant

\* Where nothing was given yet, nothing is missing.
LEMMA NothingGiven ==
  ASSUME Pages!ConstantsAreValid, PagesInvariant,
         Pages!Refuse \/ Pages!ChangeQuery \/ Pages!Restart PROVE PagesInvariant'
<1> USE DEF PagesInvariant
<1>1. CASE Pages!Refuse
  <2>1. Pages!TypeOK'
    BY <1>1 DEF Pages!Refuse, Pages!TypeOK
  <2> QED BY <1>1, <2>1 DEF Pages!Refuse, Pages!PagesCoverTheSteady
<1>2. CASE Pages!ChangeQuery
  <2>1. /\ state = "reading" /\ state' = "reading" /\ cursor' = cursor /\ cursor.query = query
        /\ query' # query /\ query' \in Queries /\ times' = [p \in Slugs |-> 0]
        /\ steady' = shown /\ UNCHANGED <<sort, shown, value>>
    BY <1>2 DEF Pages!ChangeQuery, Pages!Bound
  <2>2. Pages!TypeOK'
    BY <2>1 DEF Pages!TypeOK
  <2>3. ~Pages!Bound'
    BY <2>1 DEF Pages!Bound
  <2>4. \A p \in Slugs : times'[p] = 0
    BY <2>1
  <2> QED BY <2>1, <2>2, <2>3, <2>4 DEF Pages!PagesCoverTheSteady
<1>3. CASE Pages!Restart
  <2>1. /\ state' = "start" /\ times' = [p \in Slugs |-> 0]
        /\ steady' = shown /\ UNCHANGED <<sort, shown, value, query, cursor>>
    BY <1>3 DEF Pages!Restart
  <2>2. Pages!TypeOK'
    BY <2>1 DEF Pages!TypeOK
  <2> QED BY <2>1, <2>2 DEF Pages!PagesCoverTheSteady
<1> QED
  BY <1>1, <1>2, <1>3

\* Every step together, and none.
LEMMA PagesStepKeepsInvariant ==
  ASSUME Pages!ConstantsAreValid, PagesInvariant, [Pages!Next]_(Pages!vars) PROVE PagesInvariant'
<1>1. CASE UNCHANGED Pages!vars
  <2>1. Pages!TypeOK' /\ Pages!PagesCoverTheSteady'
    BY <1>1 DEF Pages!vars, PagesInvariant, Pages!TypeOK, Pages!PagesCoverTheSteady
  <2>2. Pages!Bound' = Pages!Bound /\ \A p \in Slugs : Ahead(p)' <=> Ahead(p)
    BY <1>1 DEF Pages!vars, Pages!Bound, Ahead, Pages!Comes
  <2> QED BY <1>1, <2>1, <2>2, PageNumbers DEF Pages!vars, PagesInvariant
<1> QED
  BY <1>1, PageKeepsInvariant, ChangeKeepsInvariant, NothingGiven DEF Pages!Next

\* Nothing was given before the first page.
LEMMA PagesInitHasInvariant ==
  ASSUME Pages!ConstantsAreValid, Pages!Init PROVE PagesInvariant
<1>1. Pages!TypeOK
  BY DEF Pages!Init, Pages!TypeOK
<1> QED
  BY <1>1 DEF Pages!Init, PagesInvariant, Pages!PagesCoverTheSteady

-----------------------------------------------------------------------------
(* Listings, lists and pages side by side: module MCMarketplace, whose          *)
(* properties the run Marketplace checks on a small instance.                   *)

\* A behaviour of the composition is one of listings, catalog and profiles.
LEMMA MarketplaceRuns == MarketSpec => Spec
<1>1. MarketInit => Init
  BY DEF MarketInit
<1>2. [MarketNext]_<<side, vars, listVars, pageVars>> => [Next]_vars
  BY DEF MarketNext
<1> QED
  BY <1>1, <1>2, PTL DEF MarketSpec, Spec

\* It is one of the private lists as well.
LEMMA ListsRun == MarketSpec => Lists!Spec
<1>1. MarketInit => Lists!Init
  BY DEF MarketInit
<1>2. [MarketNext]_<<side, vars, listVars, pageVars>> => [Lists!Next]_(Lists!vars)
  BY DEF MarketNext, listVars, Lists!vars
<1> QED
  BY <1>1, <1>2, PTL DEF MarketSpec, Lists!Spec

\* The lists keep their invariant.
LEMMA ListsInvariantHolds ==
  ASSUME Lists!ConstantsAreValid PROVE Lists!Spec => []ListsInvariant
<1>1. Lists!Init => ListsInvariant
  BY ListsInitHasInvariant
<1>2. ListsInvariant /\ [Lists!Next]_(Lists!vars) => ListsInvariant'
  BY ListsStepKeepsInvariant
<1> QED
  BY <1>1, <1>2, PTL DEF Lists!Spec

\* No account saves more listings than its quota, and no history is longer than its
\* retention, however the requests overlap (add, record, entries_for_update).
THEOREM SavesAndViewsAreCapped ==
  ASSUME OtherConstantsAreValid PROVE MarketSpec => []ListsStayBounded
<1>1. ListsInvariant => ListsStayBounded
  BY DEF ListsInvariant, ListsStayBounded
<1>2. Lists!ConstantsAreValid
  BY DEF OtherConstantsAreValid
<1> QED
  BY <1>1, <1>2, ListsRun, ListsInvariantHolds, PTL

\* A saved listing keeps its first time, a view never goes back, and what a view drops
\* from the history is never newer than what stays (add, upsert, record).
THEOREM HistoryIsTheNewest ==
  ASSUME OtherConstantsAreValid PROVE MarketSpec => HistoryMovesForward
<1> DEFINE Moves ==
      /\ \A p \in Lists!Saved \cap Lists!Saved' : favorites'[p] = favorites[p]
      /\ \A p \in Lists!Viewed \cap Lists!Viewed' : views'[p] >= views[p]
      /\ (\E q \in Lists!Viewed' : views'[q] # views[q]) =>
            \A p \in Lists!Viewed \ Lists!Viewed', q \in Lists!Viewed' : views[p] <= views'[q]
<1>1. Lists!ConstantsAreValid
  BY DEF OtherConstantsAreValid
<1>2. ListsInvariant /\ [Lists!Next]_(Lists!vars) => Moves
  BY <1>1, SavedStay, HistoryMoves
<1>3. Moves <=>
        /\ \A p \in Lists!Saved \cap Lists!Saved' : favorites'[p] = favorites[p]
        /\ \A p \in Lists!Viewed \cap Lists!Viewed' : views'[p] >= views[p]
        /\ (\E q \in Lists!Viewed' : views'[q] # views[q]) =>
              \A p \in Lists!Viewed \ Lists!Viewed', q \in Lists!Viewed' : views[p] <= views'[q]
  OBVIOUS
<1> HIDE DEF Moves
<1> QED
  BY <1>1, <1>2, <1>3, ListsRun, ListsInvariantHolds, PTL
     DEF Lists!Spec, HistoryMovesForward, Lists!HistoryMovesForward

\* Whoever reads to the end was given every row that matched throughout, and no row twice
\* unless prices change order (page, position_condition, order_by).
THEOREM CursorsCoverTheSteady ==
  ASSUME OtherConstantsAreValid PROVE MarketSpec => []PagesCoverTheSteady
<1> DEFINE OnItsSide == side = "pages" => PagesInvariant
<1>1. Pages!ConstantsAreValid
  BY DEF OtherConstantsAreValid
<1>2. MarketInit => OnItsSide
  BY <1>1, PagesInitHasInvariant DEF MarketInit
<1>3. OnItsSide /\ [MarketNext]_<<side, vars, listVars, pageVars>> => OnItsSide'
  <2> SUFFICES ASSUME OnItsSide, [MarketNext]_<<side, vars, listVars, pageVars>>, side' = "pages"
               PROVE  PagesInvariant'
    OBVIOUS
  <2>1. side = "pages" /\ PagesInvariant
    BY DEF MarketNext
  <2>2. [Pages!Next]_(Pages!vars)
    BY <2>1 DEF MarketNext, pageVars, Pages!vars
  <2> QED BY <1>1, <2>1, <2>2, PagesStepKeepsInvariant
<1>4. OnItsSide => PagesCoverTheSteady
  BY DEF PagesInvariant, PagesCoverTheSteady
<1> HIDE DEF OnItsSide
<1> QED
  BY <1>2, <1>3, <1>4, PTL DEF MarketSpec

\* The tree of categories stays a tree beside lists and pages (_move, create_category).
THEOREM MarketKeepsItsTree == MarketSpec => []TreeIsTwoLevels
  BY MarketplaceRuns, CatalogIsATree, PTL
=============================================================================
