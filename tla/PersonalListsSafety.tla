------------------------- MODULE PersonalListsSafety -------------------------
(***************************************************************************)
(* What must be true of the private lists of module PersonalLists.         *)
(***************************************************************************)
EXTENDS PersonalLists

Viewed == {p \in Products : views[p] # Never}

\* "Distinct saves at cap cannot overflow" (PHASE_12_FAVORITES_RECENTLY_VIEWED_
\* BACKEND.md): the caps hold however the requests of the account overlap.
ListsStayBounded == Cardinality(Saved) <= Quota /\ Cardinality(Viewed) <= Retention

\* A saved listing keeps its first time; a view never moves back in time although
\* the clock was read before the lock was waited for; and what a new view drops
\* from the history is never newer than anything that stays (add, upsert, record).
HistoryMovesForward ==
    [][/\ \A p \in Saved \cap Saved' : favorites'[p] = favorites[p]
       /\ \A p \in Viewed \cap Viewed' : views'[p] >= views[p]
       /\ (\E q \in Viewed' : views'[q] # views[q]) =>
             \A p \in Viewed \ Viewed', q \in Viewed' : views[p] <= views'[q]]_vars
=============================================================================
