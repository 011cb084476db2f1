------------------------- MODULE RateLimiterSafety -------------------------
(***************************************************************************)
(* What the limiter of module RateLimiter promises a process.              *)
(***************************************************************************)
EXTENDS RateLimiter

Recent(k, span) == {e \in accepted[k] : e.at > now - span}

\* However calls overlap and keys come and go, the requests of one key that
\* were accepted in a window shorter by the longest wait for the lock than the
\* configured one never exceed max_requests (consume, _make_room_for_key).
LimitHolds == \A k \in Keys : Cardinality(Recent(k, Window - MaxDelay)) <= MaxRequests

\* Whether a call of k at that time would be accepted.
Admits(k, at) ==
    LET deque == Opened(k, at)[k]
    IN  /\ Known(k) \/ HasRoom(at)
        /\ \E n \in 0..Len(deque) : Pops(deque, n, at) /\ Len(deque) - n < MaxRequests

\* Retry-After is enough: a refused client that waits for it is accepted then
\* and at any later time, unless another request was accepted meanwhile.
RetryAfterIsEnough ==
    \A k \in Keys : promised[k] > 0 =>
        \A at \in promised[k]..(MaxTime + Window) : Admits(k, at)

-----------------------------------------------------------------------------
\* The inductive invariant behind LimitHolds and WithinCapacity.

CallsAreRecent ==
    \A r \in Threads : call[r] # NoCall => call[r].at \in (now - MaxDelay)..now

\* No deque is empty or over the limit, and none holds a time to come.
DequesAreBounded ==
    \A k \in DOMAIN requests :
        /\ Len(requests[k]) \in 1..MaxRequests
        /\ \A i \in 1..Len(requests[k]) : requests[k][i].at <= now

\* Entries are out of order by no more than the longest wait.
DequesAreNearlySorted ==
    \A k \in DOMAIN requests : \A j \in 1..Len(requests[k]) : \A i \in 1..j :
        requests[k][i].at <= requests[k][j].at + MaxDelay

\* The dictionary never outgrows max_keys.
WithinCapacity == IsFiniteSet(DOMAIN requests) /\ Cardinality(DOMAIN requests) <= MaxKeys

\* What may still count is in the deque.
RecentAreKept ==
    \A k \in Keys : \A e \in Recent(k, Window - MaxDelay) :
        /\ k \in DOMAIN requests
        /\ \E i \in 1..Len(requests[k]) : requests[k][i] = e

RateInvariant ==
    /\ TypeOK
    /\ CallsAreRecent
    /\ DequesAreBounded
    /\ DequesAreNearlySorted
    /\ RecentAreKept
    /\ WithinCapacity

\* What a refused client was told to wait for is still there: the first entry of its
\* full deque, or the last entry of a key that keeps it out of the dictionary.
PromisesFollowTheDeques ==
    \A k \in Keys : promised[k] > 0 =>
        \/ k \in DOMAIN requests /\ promised[k] = requests[k][1].at + Window
        \/ /\ k \notin DOMAIN requests
           /\ \E j \in DOMAIN requests : promised[k] = Final(requests[j]).at + Window
=============================================================================
