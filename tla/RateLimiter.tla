---------------------------- MODULE RateLimiter ----------------------------
(***************************************************************************)
(* InMemoryRateLimiter (core/rate_limit.py): a sliding window of request   *)
(* times for each key, shared by the threads of a process.                 *)
(*                                                                         *)
(* The routes' dependencies are plain functions, which the framework runs  *)
(* in a pool of threads.  consume reads the clock before it waits for the  *)
(* lock, so threads may be served with their times in any order.           *)
(***************************************************************************)
EXTENDS Integers, Sequences, FiniteSets

CONSTANTS
    Keys,        \* clients and identifiers
    Threads,     \* calls of consume under way at a time
    NoKey,
    MaxRequests, \* max_requests
    Window,      \* window_seconds
    MaxKeys,     \* max_keys
    MaxDelay,    \* bound on how long a thread waits for the lock
    MaxTime      \* bound on the clock

ASSUME KeysAreNamed == NoKey \notin Keys

\* The constructor refuses values below 1.
ASSUME LimitsArePositive ==
    /\ MaxRequests \in Nat \ {0} /\ Window \in Nat \ {0} /\ MaxKeys \in Nat \ {0}
    /\ MaxDelay \in Nat /\ MaxTime \in Nat

VARIABLES
    now,      \* now_provider(), a monotonic clock
    requests, \* _requests, a deque of entries for each key it has
    call,     \* what a thread waiting for the lock has: its key and its time
    served,   \* how many requests were accepted (history)
    accepted, \* the entries accepted for each key (history)
    promised  \* from when on a refused key may come back, 0 for no promise (history)

vars == <<now, requests, call, served, accepted, promised>>

Time == 0..MaxTime

\* An element of a deque; n, a history field, tells entries of one time apart.
Entry == [at: Time, n: Nat]

NoCall == [key |-> NoKey, at |-> 0]

TypeOK ==
    /\ now \in Time
    /\ DOMAIN requests \in SUBSET Keys
    /\ requests \in [DOMAIN requests -> Seq(Entry)]
    /\ call \in [Threads -> [key: Keys \cup {NoKey}, at: Time]]
    /\ served \in Nat
    /\ accepted \in [Keys -> SUBSET Entry]
    /\ promised \in [Keys -> Nat]

Init ==
    /\ now = 0
    /\ requests = [k \in {} |-> <<>>]
    /\ call = [r \in Threads |-> NoCall]
    /\ served = 0
    /\ accepted = [k \in Keys |-> {}]
    /\ promised = [k \in Keys |-> 0]

-----------------------------------------------------------------------------
\* The clock is read, then the lock is awaited.

Call(r, k) ==
    /\ call[r] = NoCall
    /\ call' = [call EXCEPT ![r] = [key |-> k, at |-> now]]
    /\ UNCHANGED <<now, requests, served, accepted, promised>>

Cutoff(at) == at - Window
Final(deque) == deque[Len(deque)]

\* Mutant: a key is dropped when its oldest request has left the window.
LiveByOldest(at) == {k \in DOMAIN requests : requests[k][1].at > Cutoff(at)}

\* The keys _make_room_for_key leaves.
Live(at) ==
    {k \in DOMAIN requests : requests[k] # <<>> /\ Final(requests[k]).at > Cutoff(at)}

Known(k) == k \in DOMAIN requests

HasRoom(at) == Cardinality(Live(at)) < MaxKeys

\* _requests when the deque of k is looked at, k a known key or a new one.
Opened(k, at) ==
    IF Known(k) THEN requests
    ELSE [j \in Live(at) \cup {k} |-> IF j = k THEN <<>> ELSE requests[j]]

\* Mutant: a request exactly as old as the window is kept.
PopsStrictly(deque, n, at) ==
    /\ \A i \in 1..n : deque[i].at < Cutoff(at)
    /\ n < Len(deque) => deque[n + 1].at >= Cutoff(at)

\* The popleft loop stops after n elements.
Pops(deque, n, at) ==
    /\ \A i \in 1..n : deque[i].at <= Cutoff(at)
    /\ n < Len(deque) => deque[n + 1].at > Cutoff(at)

Kept(deque, n) == SubSeq(deque, n + 1, Len(deque))

Return(r) == call' = [call EXCEPT ![r] = NoCall]

Accept(r) ==
    LET k == call[r].key
        at == call[r].at
        entry == [at |-> at, n |-> served]
        deque == Opened(k, at)[k]
    IN  /\ k # NoKey
        /\ Known(k) \/ HasRoom(at)
        /\ \E n \in 0..Len(deque) :
             /\ Pops(deque, n, at)
             /\ Len(deque) - n < MaxRequests
             /\ requests' = [Opened(k, at) EXCEPT ![k] = Append(Kept(deque, n), entry)]
        /\ served' = served + 1
        /\ accepted' = [accepted EXCEPT ![k] = @ \cup {entry}]
        /\ promised' = [j \in Keys |-> 0]
        /\ Return(r)
        /\ UNCHANGED now

\* retry_after_seconds, counted from the time of the refused call.
RefuseFull(r) ==
    LET k == call[r].key
        at == call[r].at
        deque == requests[k]
    IN  /\ k # NoKey
        /\ Known(k)
        /\ \E n \in 0..Len(deque) :
             /\ Pops(deque, n, at)
             /\ Len(deque) - n >= MaxRequests
             /\ requests' = [requests EXCEPT ![k] = Kept(deque, n)]
             /\ promised' = [promised EXCEPT ![k] = deque[n + 1].at + Window]
        /\ Return(r)
        /\ UNCHANGED <<now, served, accepted>>

\* There will be room when the first of the keys has left its window.
RefuseNewKey(r) ==
    LET k == call[r].key
        live == Live(call[r].at)
    IN  /\ k # NoKey
        /\ ~Known(k)
        /\ ~HasRoom(call[r].at)
        /\ requests' = [j \in live |-> requests[j]]
        /\ \E first \in live :
             /\ \A j \in live : Final(requests[first]).at <= Final(requests[j]).at
             /\ promised' = [promised EXCEPT ![k] = Final(requests[first]).at + Window]
        /\ Return(r)
        /\ UNCHANGED <<now, served, accepted>>

\* The clock moves while no thread has waited MaxDelay.
Tick ==
    /\ now < MaxTime
    /\ \A r \in Threads : call[r] # NoCall => now - call[r].at < MaxDelay
    /\ now' = now + 1
    /\ UNCHANGED <<requests, call, served, accepted, promised>>

Consume(r) == Accept(r) \/ RefuseFull(r) \/ RefuseNewKey(r)

Next ==
    \/ \E r \in Threads, k \in Keys : Call(r, k)
    \/ \E r \in Threads : Consume(r)
    \/ Tick

Spec == Init /\ [][Next]_vars
=============================================================================
