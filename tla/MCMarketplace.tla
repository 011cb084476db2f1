---------------------------- MODULE MCMarketplace ----------------------------
(***************************************************************************)
(* Small instances for TLC of what is sold and how it is found: listings   *)
(* with their catalog and profiles, the private lists of an account, and   *)
(* the pages of a list.  Lists and pages know of a listing only that it is *)
(* visible or not, so the three are explored side by side: a behaviour     *)
(* belongs to one, and side says which.                                    *)
(***************************************************************************)
EXTENDS MarketplaceSafety, TLC

CONSTANTS
    Products, Requests, Quota, Retention, MaxTime, Slugs, Queries, Limit, MaxValue

VARIABLES
    side,
    now, visible, favorites, views, ctx,
    sort, shown, value, query, cursor, state, times, steady

Lists == INSTANCE PersonalListsSafety

Pages == INSTANCE BrowsePages

ASSUME OtherConstantsAreValid == Lists!ConstantsAreValid /\ Pages!ConstantsAreValid

listVars == <<now, visible, favorites, views, ctx>>
pageVars == <<sort, shown, value, query, cursor, state, times, steady>>

NoPages ==
    /\ sort = "newest" /\ shown = {} /\ value = <<>> /\ query = {} /\ cursor = Pages!Start
    /\ state = "start" /\ times = <<>> /\ steady = {}

MarketInit ==
    /\ Init /\ Lists!Init
    /\ \/ side \in {"listings", "lists"} /\ NoPages
       \/ side = "pages" /\ Pages!Init

MarketNext ==
    \/ side = "listings" /\ Next /\ UNCHANGED <<side, listVars, pageVars>>
    \/ side = "lists" /\ Lists!Next /\ UNCHANGED <<side, vars, pageVars>>
    \/ side = "pages" /\ Pages!Next /\ UNCHANGED <<side, vars, listVars>>

MarketSpec == MarketInit /\ [][MarketNext]_<<side, vars, listVars, pageVars>>

\* The caps of saved listings and of the history hold (add, record).
ListsStayBounded == Lists!ListsStayBounded

\* Saved listings keep their time, views never go back (add, upsert, record).
HistoryMovesForward == Lists!HistoryMovesForward

\* Following the cursors reaches every row that stayed, and none twice (page).
PagesCoverTheSteady == side = "pages" => Pages!PagesCoverTheSteady

\* Cities, categories and requests are interchangeable.
Interchangeable == Permutations(Cities) \cup Permutations(Categories) \cup Permutations(Requests)
=============================================================================
