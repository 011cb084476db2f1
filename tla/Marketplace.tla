----------------------------- MODULE Marketplace -----------------------------
(***************************************************************************)
(* Listings, the catalog they refer to, and the profiles of their sellers  *)
(* (product_service.py, catalog_service.py, profile_service.py, their      *)
(* repositories and models, product_visibility.py).                        *)
(*                                                                         *)
(* A seller's transaction locks the row of the account first and then only *)
(* rows of that account, so a seller has one transaction that has begun.   *)
(* It then meets the administrators: an operation on a listing takes the   *)
(* row catalog_write_lock, one on a profile only the row of the city.  A   *)
(* catalog mutation holds catalog_write_lock from before its first read of *)
(* the catalog to its commit, and is one step.                             *)
(***************************************************************************)
EXTENDS Integers, FiniteSets

CONSTANTS
    Sellers,
    Cities, Categories,  \* the rows the catalog can ever have (bounds)
    Listings,            \* the rows product_listings can ever have (a bound)
    None,
    MaxCities,           \* 200
    MaxCategories        \* 500

ASSUME MarketplaceConstants ==
    /\ None \notin (Sellers \cup Cities \cup Categories \cup Listings)
    /\ IsFiniteSet(Cities) /\ IsFiniteSet(Categories)
    /\ MaxCities \in Nat /\ MaxCategories \in Nat

VARIABLES
    city,      \* cities: absent, or whether is_active
    category,  \* categories: [active, parent], None when there is no row
    standing,  \* users and seller_verifications of the sellers
    profile,   \* user_profiles: a valid display_name, city_id, onboarding_completed
    listing,   \* product_listings, None when there is no row
    tx         \* the transaction of a seller that holds the account's row

vars == <<city, category, standing, profile, listing, tx>>

Category == [active: BOOLEAN, parent: Categories \cup {None}]
Profile == [named: BOOLEAN, city: Cities \cup {None}, complete: BOOLEAN]
Statuses == {"DRAFT", "PUBLISHED", "PAUSED", "ARCHIVED"}
Listing == [seller: Sellers, status: Statuses, city: Cities, category: Categories,
            published: BOOLEAN]

ListingOps == {"create", "update", "publish", "pause", "archive"}
ProfileOps == {"name", "unname", "move", "complete"}

Tx == [stage: {"resolve", "commit"}, op: ListingOps \cup ProfileOps, listing: Listings \cup {None},
       city: Cities \cup {None}, category: Categories \cup {None}, row: Cities \cup {None}]

\* No row and no transaction is taken for its absence.
ASSUME NoneIsNoRow == None \notin Category \cup Listing \cup Tx

TypeOK ==
    /\ city \in [Cities -> {"absent", "active", "inactive"}]
    /\ category \in [Categories -> Category \cup {None}]
    /\ standing \in [Sellers -> {"verified", "active", "suspended"}]
    /\ profile \in [Sellers -> Profile]
    /\ listing \in [Listings -> Listing \cup {None}]
    /\ tx \in [Sellers -> Tx \cup {None}]

Init ==
    /\ city = [c \in Cities |-> "absent"]
    /\ category = [k \in Categories |-> None]
    /\ standing = [s \in Sellers |-> "active"]
    /\ profile = [s \in Sellers |-> [named |-> FALSE, city |-> None, complete |-> FALSE]]
    /\ listing = [l \in Listings |-> None]
    /\ tx = [s \in Sellers |-> None]

catalog == <<city, category>>
accounts == <<standing, profile>>

-----------------------------------------------------------------------------
\* The rules

InCatalog == {k \in Categories : category[k] # None}
Children(k) == {j \in InCatalog : category[j].parent = k}
IsRoot(k) == category[k].parent = None

\* Category.is_publicly_active
PubliclyActive(k) ==
    /\ k \in InCatalog /\ category[k].active
    /\ ~IsRoot(k) => LET p == category[k].parent IN category[p].active /\ IsRoot(p)

\* required_onboarding_fields_valid
HasRequiredFields(p) == p.named /\ p.city # None

\* lock_verified_seller and get_completed_for_update
Eligible(s) ==
    standing[s] = "verified" /\ profile[s].complete /\ HasRequiredFields(profile[s])

\* publicly_visible
PubliclyVisible(l) ==
    /\ listing[l] # None
    /\ listing[l].status = "PUBLISHED" /\ listing[l].published
    /\ Eligible(listing[l].seller)
    /\ city[listing[l].city] = "active" /\ PubliclyActive(listing[l].category)

\* Mutant: the locks on the catalog end with the reading.
HoldsNothing(s) == FALSE

\* The transaction has read the catalog and keeps its locks until it ends.
HoldsCatalog(s) == tx[s] # None /\ tx[s].stage = "commit"

CatalogIsFree == ~\E s \in Sellers : HoldsCatalog(s) /\ tx[s].op \in ListingOps

\* Mutant: resolve_profile_city reads without FOR UPDATE.
NoLock(s) == FALSE

HoldsCity(s) == tx[s] # None /\ tx[s].stage = "commit"

CityIsFree(c) == \A s \in Sellers : ~(HoldsCity(s) /\ tx[s].row = c)

-----------------------------------------------------------------------------
\* Catalog mutations, by administrators

CreateCity(c) ==
    /\ CatalogIsFree /\ \A d \in Cities : CityIsFree(d)
    /\ city[c] = "absent" /\ Cardinality({d \in Cities : city[d] # "absent"}) < MaxCities
    /\ city' = [city EXCEPT ![c] = "active"]
    /\ UNCHANGED <<category, accounts, listing, tx>>

SetCityActive(c, active) ==
    /\ CatalogIsFree /\ CityIsFree(c)
    /\ city[c] # "absent"
    /\ city' = [city EXCEPT ![c] = IF active THEN "active" ELSE "inactive"]
    /\ UNCHANGED <<category, accounts, listing, tx>>

\* Mutant: a category with children may become a child.
ValidParentOfAny(k, p) ==
    p = None \/ (p # k /\ p \in InCatalog /\ category[p].active /\ IsRoot(p))

\* validate_parent
ValidParent(k, p) ==
    \/ p = None
    \/ p # k /\ p \in InCatalog /\ category[p].active /\ IsRoot(p) /\ Children(k) = {}

CreateCategory(k, p) ==
    /\ CatalogIsFree
    /\ k \notin InCatalog /\ Cardinality(InCatalog) < MaxCategories
    /\ ValidParent(k, p)
    /\ category' = [category EXCEPT ![k] = [active |-> TRUE, parent |-> p]]
    /\ UNCHANGED <<city, accounts, listing, tx>>

UpdateCategory(k, p) ==
    /\ CatalogIsFree
    /\ k \in InCatalog /\ ValidParent(k, p)
    /\ category' = [category EXCEPT ![k].parent = p]
    /\ UNCHANGED <<city, accounts, listing, tx>>

SetCategoryActive(k, active) ==
    /\ CatalogIsFree
    /\ k \in InCatalog
    /\ IF active THEN ~IsRoot(k) => category[category[k].parent].active
                 ELSE \A j \in Children(k) : ~category[j].active
    /\ category' = [category EXCEPT ![k].active = active]
    /\ UNCHANGED <<city, accounts, listing, tx>>

CatalogMutation ==
    \/ \E c \in Cities : CreateCity(c) \/ \E active \in BOOLEAN : SetCityActive(c, active)
    \/ \E k \in Categories :
         \/ \E p \in Categories \cup {None} : CreateCategory(k, p) \/ UpdateCategory(k, p)
         \/ \E active \in BOOLEAN : SetCategoryActive(k, active)

-----------------------------------------------------------------------------
\* Transactions of a seller

Begin(s, op, l, c, k, row) ==
    /\ tx[s] = None
    /\ tx' = [tx EXCEPT ![s] = [stage |-> "resolve", op |-> op, listing |-> l,
                                city |-> c, category |-> k, row |-> row]]
    /\ UNCHANGED <<catalog, accounts, listing>>

Owned(s) == {l \in Listings : listing[l] # None /\ listing[l].seller = s}

BeginCreate(s) ==
    /\ Eligible(s)
    /\ \E l \in Listings, c \in Cities, k \in Categories :
         listing[l] = None /\ (\A t \in Sellers \ {s} : tx[t] # None => tx[t].listing # l)
            /\ Begin(s, "create", l, c, k, c)

\* row is the city whose row is locked last, by resolve_active or by owned_view.
BeginUpdate(s) ==
    /\ Eligible(s)
    /\ \E l \in Owned(s), c \in Cities \cup {None}, k \in Categories \cup {None} :
         /\ listing[l].status # "ARCHIVED"
         /\ Begin(s, "update", l, c, k, IF c = None THEN listing[l].city ELSE c)

Allowed(action) ==
    CASE action = "publish" -> {"DRAFT", "PAUSED"}
      [] action = "pause" -> {"PUBLISHED"}
      [] action = "archive" -> {"DRAFT", "PUBLISHED", "PAUSED"}

BeginTransition(s, action) ==
    /\ IF action = "publish" THEN Eligible(s) ELSE standing[s] # "suspended"
    /\ \E l \in Owned(s) :
         /\ listing[l].status \in Allowed(action)
         /\ Begin(s, action, l, listing[l].city, listing[l].category, listing[l].city)

\* update_own and complete_onboarding
BeginProfile(s) ==
    /\ standing[s] # "suspended"
    /\ \/ \E op \in {"name", "unname"} : Begin(s, op, None, None, None, profile[s].city)
       \/ \E c \in Cities \cup {None} : Begin(s, "move", None, c, None, c)
       \/ HasRequiredFields(profile[s])
            /\ Begin(s, "complete", None, profile[s].city, None, profile[s].city)

\* What resolve_active and complete_onboarding ask of the catalog, read locked.
Acceptable(s) ==
    LET t == tx[s] IN
    CASE t.op \in {"create", "publish"} -> city[t.city] = "active" /\ PubliclyActive(t.category)
      [] t.op = "update" -> /\ t.city # None => city[t.city] = "active"
                            /\ t.category # None => PubliclyActive(t.category)
      [] t.op = "move" -> t.city # None => city[t.city] = "active"
      [] t.op = "complete" -> profile[s].complete \/ city[t.city] = "active"
      [] OTHER -> TRUE

Resolve(s) ==
    /\ tx[s] # None /\ tx[s].stage = "resolve"
    /\ tx[s].op \in ListingOps => CatalogIsFree
    /\ tx[s].row # None => CityIsFree(tx[s].row)
    /\ Acceptable(s)
    /\ tx' = [tx EXCEPT ![s].stage = "commit"]
    /\ UNCHANGED <<catalog, accounts, listing>>

\* Any error before the commit: a refusal, a deadlock, a crash.  retry_deadlock
\* begins the same operation anew.
Fail(s) ==
    /\ tx[s] # None
    /\ tx' = [tx EXCEPT ![s] = None]
    /\ UNCHANGED <<catalog, accounts, listing>>

\* The end of update_own.
Revised(p) == [p EXCEPT !.complete = @ /\ HasRequiredFields(p)]

ProfileAfter(t, p) ==
    CASE t.op = "name" -> Revised([p EXCEPT !.named = TRUE])
      [] t.op = "unname" -> Revised([p EXCEPT !.named = FALSE])
      [] t.op = "move" -> Revised([p EXCEPT !.city = t.city])
      [] t.op = "complete" -> [p EXCEPT !.complete = TRUE]

ListingAfter(s, t, x) ==
    CASE t.op = "create" -> [seller |-> s, status |-> "DRAFT", city |-> t.city,
                             category |-> t.category, published |-> FALSE]
      [] t.op = "update" -> [x EXCEPT !.city = IF t.city = None THEN @ ELSE t.city,
                                      !.category = IF t.category = None THEN @ ELSE t.category]
      [] t.op = "publish" -> [x EXCEPT !.status = "PUBLISHED", !.published = TRUE]
      [] t.op = "pause" -> [x EXCEPT !.status = "PAUSED"]
      [] t.op = "archive" -> [x EXCEPT !.status = "ARCHIVED"]

Commit(s) ==
    /\ tx[s] # None /\ tx[s].stage = "commit"
    /\ LET t == tx[s] IN
         \/ /\ t.op \in ListingOps
            /\ listing' = [listing EXCEPT ![t.listing] = ListingAfter(s, t, @)]
            /\ UNCHANGED profile
         \/ /\ t.op \in ProfileOps
            /\ profile' = [profile EXCEPT ![s] = ProfileAfter(t, @)]
            /\ UNCHANGED listing
    /\ tx' = [tx EXCEPT ![s] = None]
    /\ UNCHANGED <<catalog, standing>>

\* Suspensions and decisions on the verification lock the account's row as well.
ChangeStanding(s) ==
    /\ tx[s] = None
    /\ \E x \in {"verified", "active", "suspended"} : standing' = [standing EXCEPT ![s] = x]
    /\ UNCHANGED <<catalog, profile, listing, tx>>

Next ==
    \/ CatalogMutation
    \/ \E s \in Sellers :
         \/ BeginCreate(s) \/ BeginUpdate(s) \/ BeginProfile(s)
         \/ \E action \in {"publish", "pause", "archive"} : BeginTransition(s, action)
         \/ Resolve(s) \/ Commit(s) \/ Fail(s)
         \/ ChangeStanding(s)

Spec == Init /\ [][Next]_vars
=============================================================================
