---------------------------- MODULE PersonalLists ----------------------------
(***************************************************************************)
(* The saved listings and the viewing history of one account               *)
(* (favorites_service.py, recently_viewed_service.py, their repositories). *)
(*                                                                         *)
(* A writing request first locks the row of the account and keeps it to    *)
(* its commit, and nothing else writes the rows of the account: from that  *)
(* lock on it is one step.  What it read before, the snapshot of its       *)
(* transaction and the clock of record, was fixed when it arrived.         *)
(***************************************************************************)
EXTENDS Integers, FiniteSets

CONSTANTS
    Products,   \* their internal ids, which break ties
    Requests,   \* the requests of the account that can be open at a time
    Quota,      \* favorites_quota: 500
    Retention,  \* recently_viewed_retention: 100
    MaxTime     \* bound on the clock

ConstantsAreValid ==
    /\ Products \subseteq Nat /\ IsFiniteSet(Products)
    /\ Quota \in Nat \ {0} /\ Retention \in Nat \ {0} /\ MaxTime \in Nat

VARIABLES
    now,
    visible,    \* the listings publicly_visible accepts
    favorites,  \* product_favorites: favorited_at, Never when there is no row
    views,      \* product_recent_views: last_viewed_at
    ctx         \* what an open request asks and what it read on arrival

vars == <<now, visible, favorites, views, ctx>>

Never == -1
Times == 0..MaxTime

Saved == {p \in Products : favorites[p] # Never}

Ops == {"add", "record", "remove", "forget", "clear"}
Idle == [op |-> "none"]
Context ==
    [op: {"add"}, product: Products, found: BOOLEAN, saved: SUBSET Products]
        \cup [op: {"record"}, product: Products, found: BOOLEAN, at: Times]
        \cup [op: {"remove", "forget"}, product: Products] \cup [op: {"clear"}]

TypeOK ==
    /\ now \in Times
    /\ visible \subseteq Products
    /\ favorites \in [Products -> Times \cup {Never}]
    /\ views \in [Products -> Times \cup {Never}]
    /\ ctx \in [Requests -> Context \cup {Idle}]

Init ==
    /\ now = 0
    /\ visible = {}
    /\ favorites = [p \in Products |-> Never]
    /\ views = [p \in Products |-> Never]
    /\ ctx = [r \in Requests |-> Idle]

\* What a request for p knows on arrival, with the consistent read of
\* public_product_id, which returns what the snapshot has.
Asked(op, p) ==
    CASE op = "add" -> [op |-> op, product |-> p, found |-> p \in visible, saved |-> Saved]
      [] op = "record" -> [op |-> op, product |-> p, found |-> p \in visible, at |-> now]
      [] op = "clear" -> [op |-> op]
      [] OTHER -> [op |-> op, product |-> p]

Open(r) == ctx[r] # Idle
Finish(r) == ctx' = [ctx EXCEPT ![r] = Idle]

\* The authentication opens the transaction, and with it the snapshot.
Arrive(r) ==
    /\ ~Open(r)
    /\ \E op \in Ops, p \in Products : ctx' = [ctx EXCEPT ![r] = Asked(op, p)]
    /\ UNCHANGED <<now, visible, favorites, views>>

\* retry_deadlock, or an error: what was read is read again, or never used.
Abort(r) ==
    /\ Open(r)
    /\ \/ Finish(r)
       \/ ctx[r].op \in {"add", "record"}
            /\ ctx' = [ctx EXCEPT ![r] = Asked(@.op, @.product)]
    /\ UNCHANGED <<now, visible, favorites, views>>

-----------------------------------------------------------------------------
\* Mutant: the entries are counted in the snapshot.
EntriesOnArrival(r) == ctx[r].saved

\* entries_for_update of the favorites, a locking and so a current read.
Entries(r) == IF Open(r) THEN Saved ELSE {}

Add(r) ==
    /\ Open(r) /\ ctx[r].op = "add"
    /\ LET p == ctx[r].product
       IN  favorites' = IF ctx[r].found /\ p \notin Saved /\ Cardinality(Entries(r)) < Quota
                        THEN [favorites EXCEPT ![p] = now] ELSE favorites
    /\ Finish(r)
    /\ UNCHANGED <<now, visible, views>>

\* Mutant: the last view to be written wins.
Last(old, at) == at

\* GREATEST of the upsert.
Latest(old, at) == IF old > at THEN old ELSE at

Newer(v, p, q) == v[p] > v[q] \/ (v[p] = v[q] /\ p > q)

\* entries[:retention] of the ordered history.
Kept(v) ==
    {p \in Products : v[p] # Never /\
        Cardinality({q \in Products : v[q] # Never /\ Newer(v, q, p)}) < Retention}

Record(r) ==
    /\ Open(r) /\ ctx[r].op = "record"
    /\ LET p == ctx[r].product
           upserted == [views EXCEPT ![p] = Latest(@, ctx[r].at)]
       IN  views' = IF ctx[r].found
                    THEN [q \in Products |-> IF q \in Kept(upserted) THEN upserted[q] ELSE Never]
                    ELSE views
    /\ Finish(r)
    /\ UNCHANGED <<now, visible, favorites>>

\* remove of both services and clear, which ask nothing of the listing.
Remove(r) ==
    /\ Open(r)
    /\ \/ ctx[r].op = "remove" /\ favorites' = [favorites EXCEPT ![ctx[r].product] = Never]
            /\ UNCHANGED views
       \/ ctx[r].op = "forget" /\ views' = [views EXCEPT ![ctx[r].product] = Never]
            /\ UNCHANGED favorites
       \/ ctx[r].op = "clear" /\ views' = [p \in Products |-> Never] /\ UNCHANGED favorites
    /\ Finish(r)
    /\ UNCHANGED <<now, visible>>

\* Listings appear and disappear meanwhile.
ChangeVisibility ==
    /\ \E p \in Products : visible' = (visible \ {p}) \cup ({p} \ visible)
    /\ UNCHANGED <<now, favorites, views, ctx>>

Tick ==
    /\ now < MaxTime /\ now' = now + 1
    /\ UNCHANGED <<visible, favorites, views, ctx>>

Next ==
    \/ \E r \in Requests : Arrive(r) \/ Abort(r) \/ Add(r) \/ Record(r) \/ Remove(r)
    \/ ChangeVisibility
    \/ Tick

Spec == Init /\ [][Next]_vars
=============================================================================
