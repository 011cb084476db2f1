----------------------------- MODULE BrowsePages -----------------------------
(***************************************************************************)
(* Reading a list page by page while it changes: the public listings       *)
(* (product_browse_service.py, product_browse_repository.py,               *)
(* product_browse_cursor.py) and the private lists (list of                *)
(* favorites_service.py and recently_viewed_service.py,                    *)
(* personalization_cursor.py).                                             *)
(*                                                                         *)
(* A query is the set of products that match its filters.  One reader      *)
(* follows the cursors; every page is a snapshot of its own.               *)
(***************************************************************************)
EXTENDS Integers, FiniteSets

CONSTANTS
    Slugs,    \* public_slug, ordered, unique
    Queries,  \* the filters: sets of slugs
    Limit,    \* the size of a page
    MaxValue  \* bound on the sort column

ConstantsAreValid ==
    /\ Slugs \subseteq Nat /\ IsFiniteSet(Slugs) /\ Queries \subseteq SUBSET Slugs
    /\ Limit \in Nat \ {0} /\ MaxValue \in Nat

VARIABLES
    sort,    \* newest, price_asc, price_desc, or recent: a private list
    shown,   \* the rows the statement may return, publicly_visible included
    value,   \* their sort column: published_at, price, favorited_at, last_viewed_at
    query,   \* what the reader asks
    cursor,  \* the cursor it holds: the query it is bound to, and the position
    state,   \* start, reading, done, or refused
    times,   \* how often the reader was given a row
    steady   \* the rows that were shown and unchanged since the reader started

vars == <<sort, shown, value, query, cursor, state, times, steady>>

Start == [query |-> {}, value |-> 0, slug |-> 0]

TypeOK ==
    /\ sort \in {"newest", "price_asc", "price_desc", "recent"}
    /\ shown \subseteq Slugs
    /\ value \in [Slugs -> 0..MaxValue]
    /\ query \in Queries
    /\ cursor \in [query: Queries, value: 0..MaxValue, slug: Slugs] \cup {Start}
    /\ state \in {"start", "reading", "done", "refused"}
    /\ times \in [Slugs -> 0..2]
    /\ steady \subseteq shown

Init ==
    /\ sort \in {"newest", "price_asc", "price_desc", "recent"}
    /\ shown \in SUBSET Slugs
    /\ value \in [Slugs -> 0..MaxValue]
    /\ query \in Queries
    /\ cursor = Start
    /\ state = "start"
    /\ times = [p \in Slugs |-> 0]
    /\ steady = shown

-----------------------------------------------------------------------------
\* order_by of the page statements: both keys ascend or both descend.
Comes(v, p, w, q) ==
    IF sort = "price_asc" THEN v < w \/ (v = w /\ p < q)
                          ELSE v > w \/ (v = w /\ p > q)

\* Mutant: the slug does not break ties.
BeyondByValue(p) ==
    state = "start" \/ (IF sort = "price_asc" THEN value[p] > cursor.value
                                              ELSE value[p] < cursor.value)

\* The condition the position adds to the statement.
Beyond(p) == state = "start" \/ Comes(cursor.value, cursor.slug, value[p], p)

Rows == {p \in shown \cap query : Beyond(p)}

\* How many rows the page has before p.
Rank(p) == Cardinality({q \in Rows : Comes(value[q], q, value[p], p)})

Emitted == {p \in Rows : Rank(p) < Limit}

\* limit + 1 rows were asked for.
HasMore == \E p \in Rows : Rank(p) = Limit

\* decode refuses a cursor of another query.
Bound == state = "start" \/ cursor.query = query

Page ==
    /\ state \in {"start", "reading"} /\ Bound
    /\ times' = [p \in Slugs |-> IF p \in Emitted /\ times[p] < 2 THEN times[p] + 1 ELSE times[p]]
    /\ IF HasMore
       THEN /\ state' = "reading"
            /\ \E last \in Emitted : Rank(last) = Limit - 1
                 /\ cursor' = [query |-> query, value |-> value[last], slug |-> last]
       ELSE state' = "done" /\ cursor' = Start
    /\ UNCHANGED <<sort, shown, value, query, steady>>

Refuse ==
    /\ state = "reading" /\ ~Bound
    /\ state' = "refused" /\ cursor' = Start
    /\ UNCHANGED <<sort, shown, value, query, times, steady>>

\* The reader turns to another query and forgets to drop its cursor.
ChangeQuery ==
    /\ state = "reading" /\ Bound
    /\ \E q \in Queries \ {query} : query' = q
    /\ times' = [p \in Slugs |-> 0] /\ steady' = shown
    /\ UNCHANGED <<sort, shown, value, cursor, state>>

\* What may become of the sort column: published_at is set once, favorited_at and
\* last_viewed_at never go back while the row is there, and a price is any price.
NewValues(p) ==
    CASE sort = "newest" -> {value[p]}
      [] sort = "recent" -> value[p]..MaxValue
      [] OTHER -> 0..MaxValue

Change(p) ==
    /\ state = "reading"
    /\ \E b \in BOOLEAN : shown' = IF b THEN shown \cup {p} ELSE shown \ {p}
    /\ \E v \in NewValues(p) : value' = [value EXCEPT ![p] = v]
    /\ steady' = steady \ {p}
    /\ UNCHANGED <<sort, query, cursor, state, times>>

\* A reader that came to an end starts again.
Restart ==
    /\ state \in {"done", "refused"}
    /\ state' = "start" /\ times' = [p \in Slugs |-> 0] /\ steady' = shown
    /\ UNCHANGED <<sort, shown, value, query, cursor>>

Next == Page \/ Refuse \/ ChangeQuery \/ Restart \/ \E p \in Slugs : Change(p)

Spec == Init /\ [][Next]_vars

-----------------------------------------------------------------------------
\* Cursors lead through everything: whoever reads to the end was given every row
\* that matched throughout, whatever appeared, vanished or moved meanwhile, also at
\* equal prices or times; and unless prices change order, no row twice (page).
PagesCoverTheSteady ==
    /\ state = "done" => \A p \in steady \cap query : times[p] > 0
    /\ sort \in {"newest", "recent"} => \A p \in Slugs : times[p] <= 1
=============================================================================
