-------------------------- MODULE MarketplaceSafety --------------------------
(***************************************************************************)
(* What must be true of listings, catalog and profiles.                    *)
(***************************************************************************)
EXTENDS Marketplace

\* "no self-reference, cycle or third level" (models/catalog.py), and no active
\* category under an inactive one, after any sequence of creations, moves,
\* activations and deactivations (validate_parent, set_active).
TreeIsTwoLevels ==
    \A k \in InCatalog : ~IsRoot(k) =>
        LET p == category[k].parent
        IN  /\ p \in InCatalog /\ IsRoot(p)
            /\ category[k].active => category[p].active

\* At the moment a listing is published it is visible: seller, profile, city and
\* category are all in order then, not only when they were looked at.  And a
\* listing never moves to a city or category that is not active (transition, update).
PublishedUnderPresentConditions ==
    [][\A l \in Listings : listing'[l] # None =>
         LET x == listing[l]
             y == listing'[l]
         IN  /\ y.status = "PUBLISHED" /\ (x = None \/ x.status # "PUBLISHED") => PubliclyVisible(l)'
             /\ x = None \/ x.city # y.city => city'[y.city] = "active"
             /\ \A k \in Categories :
                  y.category = k /\ (x = None \/ x.category # k) => PubliclyActive(k)']_vars

\* "Deactivation and a new assignment must serialize on authoritative current
\* state": onboarding is complete only with a name and a city, and becomes so only
\* while that city is active (update_own, complete_onboarding).
OnboardingIsEarned ==
    [][\A s \in Sellers : profile'[s].complete =>
         /\ HasRequiredFields(profile'[s])
         /\ profile[s].complete \/ city'[profile'[s].city] = "active"]_vars

-----------------------------------------------------------------------------
\* Why they hold: what the transaction of a seller has found out is still so when it
\* commits, because of the locks on the account and on the catalog.

\* A listing that does not exist yet belongs to the one transaction that creates it, and
\* an existing one to its seller, who has no other transaction.
ListingIsMine(s, t) ==
    /\ t.listing \in Listings
    /\ IF t.op = "create" THEN listing[t.listing] = None
       ELSE listing[t.listing] # None /\ listing[t.listing].seller = s
    /\ \A u \in Sellers \ {s} : tx[u] # None => tx[u].listing # t.listing

\* What was read under the lock on the account's row.
ReadingsHold(s, t) ==
    /\ IF t.op \in ListingOps THEN ListingIsMine(s, t) ELSE t.listing = None
    /\ t.op = "create" => t.city \in Cities /\ t.category \in Categories
    /\ t.op = "publish" => /\ Eligible(s)
                           /\ t.city = listing[t.listing].city
                           /\ t.category = listing[t.listing].category
    /\ t.op = "complete" => HasRequiredFields(profile[s]) /\ t.city = profile[s].city
    /\ t.op \in {"move", "complete"} => t.row = t.city

Readings ==
    \A s \in Sellers : tx[s] # None =>
        /\ ReadingsHold(s, tx[s])
        /\ tx[s].stage = "commit" => Acceptable(s)

OnboardingIsWhole == \A s \in Sellers : profile[s].complete => HasRequiredFields(profile[s])

MarketInvariant == TypeOK /\ TreeIsTwoLevels /\ OnboardingIsWhole /\ Readings
=============================================================================
