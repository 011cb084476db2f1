-------------------------- MODULE AdmissionProofs --------------------------
(***************************************************************************)
(* Proofs about what guards the operations, for every set of keys,         *)
(* threads, peers and accounts and every limit: a limiter accepts no more  *)
(* than its limit and tells a refused client when it may come back; on     *)
(* every route a peer pays before an account does, and every slot comes    *)
(* back; and the inboxes of a development service show only the latest     *)
(* code for a recipient.                                                   *)
(***************************************************************************)
EXTENDS MCAdmission, FiniteSetTheorems, SequenceTheorems,
        WellFoundedInduction, TLAPS

\* What a deque must be, whatever its length.
Sound(s) ==
    /\ s \in Seq(Entry)
    /\ \A i \in 1..Len(s) : s[i].at <= now
    /\ \A j \in 1..Len(s) : \A i \in 1..j : s[i].at <= s[j].at + MaxDelay

Contains(s, e) == \E i \in 1..Len(s) : s[i] = e

\* A deque that contains a set of entries is at least as long as the set is large.
LEMMA DequeBoundsItsEntries ==
  ASSUME NEW s \in Seq(Entry), NEW X, \A e \in X : Contains(s, e)
  PROVE  IsFiniteSet(X) /\ Cardinality(X) <= Len(s)
<1> DEFINE R == {s[i] : i \in 1..Len(s)}
           f == [i \in 1..Len(s) |-> s[i]]
<1>1. Len(s) \in Nat
  BY LenProperties
<1>2. IsFiniteSet(1..Len(s)) /\ Cardinality(1..Len(s)) = Len(s)
  BY <1>1, FS_Interval
<1>3. f \in Surjection(1..Len(s), R)
  BY DEF Surjection
<1>4. IsFiniteSet(R) /\ Cardinality(R) <= Len(s)
  <2> HIDE DEF R, f
  <2> QED BY <1>2, <1>3, FS_Surjection
<1>5. X \in SUBSET R
  BY DEF Contains
<1>6. IsFiniteSet(X) /\ Cardinality(X) <= Cardinality(R)
  BY <1>4, <1>5, FS_Subset
<1> QED
  BY <1>1, <1>4, <1>6, FS_CardinalityType

\* The entries of a sound deque are entries.
LEMMA EntriesOfADeque ==
  ASSUME NEW s \in Seq(Entry), NEW i \in 1..Len(s)
  PROVE  s[i] \in Entry /\ s[i].at \in Time /\ s[i].at \in Int
<1>1. s[i] \in Entry
  BY ElementOfSeq
<1> QED
  BY <1>1, LimitsArePositive DEF Entry, Time

\* What the popleft loop leaves is a suffix, and as sound as the whole.
LEMMA KeptIsSound ==
  ASSUME now \in Time, NEW s, Sound(s), NEW n \in 0..Len(s)
  PROVE  /\ Sound(Kept(s, n))
         /\ Len(Kept(s, n)) = Len(s) - n
         /\ \A i \in 1..Len(s) : i > n => Contains(Kept(s, n), s[i])
<1>1. Len(s) \in Nat /\ s \in Seq(Entry) /\ now \in Int /\ MaxDelay \in Nat
  BY LenProperties, LimitsArePositive DEF Sound, Time
<1>2. /\ Kept(s, n) \in Seq(Entry)
      /\ Len(Kept(s, n)) = Len(s) - n
      /\ \A i \in 1..(Len(s) - n) : Kept(s, n)[i] = s[n + i]
  <2>1. \A i \in (n + 1)..Len(s) : s[i] \in Entry
    BY <1>1, EntriesOfADeque
  <2> DEFINE m == n + 1
  <2>2. /\ SubSeq(s, m, Len(s)) \in Seq(Entry)
        /\ Len(SubSeq(s, m, Len(s))) = IF m <= Len(s) THEN Len(s) - m + 1 ELSE 0
        /\ \A i \in 1..(Len(s) - m + 1) : SubSeq(s, m, Len(s))[i] = s[m + i - 1]
    <3>1. m \in Int /\ Len(s) \in Int
      BY <1>1
    <3> HIDE DEF m
    <3> QED BY <2>1, <3>1, SubSeqProperties DEF m
  <2> QED
    BY <1>1, <2>2 DEF Kept
<1>3. \A i \in 1..Len(s) : i > n => Contains(Kept(s, n), s[i])
  <2> SUFFICES ASSUME NEW i \in 1..Len(s), i > n PROVE Contains(Kept(s, n), s[i])
    OBVIOUS
  <2>1. i - n \in 1..Len(Kept(s, n)) /\ Kept(s, n)[i - n] = s[i]
    BY <1>1, <1>2
  <2> QED BY <2>1 DEF Contains
<1>4. \A i \in 1..(Len(s) - n) : n + i \in 1..Len(s)
  BY <1>1
<1>5. \A i \in 1..(Len(s) - n) : Kept(s, n)[i].at <= now
  BY <1>2, <1>4 DEF Sound
<1>6. ASSUME NEW j \in 1..(Len(s) - n), NEW i \in 1..j
      PROVE  Kept(s, n)[i].at <= Kept(s, n)[j].at + MaxDelay
  <2>1. i \in 1..(Len(s) - n) /\ n + i \in 1..(n + j) /\ n + j \in 1..Len(s)
    BY <1>1
  <2>2. s[n + i].at <= s[n + j].at + MaxDelay
    BY <2>1 DEF Sound
  <2> QED BY <1>2, <2>1, <2>2
<1> QED
  BY <1>2, <1>3, <1>5, <1>6 DEF Sound

\* Appending a time no older than the longest wait keeps a deque sound.
LEMMA AppendIsSound ==
  ASSUME now \in Time, NEW s, Sound(s), NEW e \in Entry, e.at \in (now - MaxDelay)..now
  PROVE  /\ Sound(Append(s, e))
         /\ Len(Append(s, e)) = Len(s) + 1
         /\ Contains(Append(s, e), e)
         /\ \A x : Contains(s, x) => Contains(Append(s, e), x)
<1>1. Len(s) \in Nat /\ s \in Seq(Entry) /\ now \in Int /\ MaxDelay \in Nat
  BY LenProperties, LimitsArePositive DEF Sound, Time
<1>2. /\ Append(s, e) \in Seq(Entry)
      /\ Len(Append(s, e)) = Len(s) + 1
      /\ \A i \in 1..Len(s) : Append(s, e)[i] = s[i]
      /\ Append(s, e)[Len(s) + 1] = e
  BY <1>1, AppendProperties
<1>3. Contains(Append(s, e), e)
  BY <1>1, <1>2 DEF Contains
<1>4. \A x : Contains(s, x) => Contains(Append(s, e), x)
  BY <1>1, <1>2 DEF Contains
<1>5. \A i \in 1..Len(s) : s[i].at \in Int /\ s[i].at <= now
  BY <1>1, EntriesOfADeque DEF Sound
<1>6. \A i \in 1..(Len(s) + 1) : Append(s, e)[i].at <= now
  BY <1>1, <1>2, <1>5
<1>7. ASSUME NEW j \in 1..(Len(s) + 1), NEW i \in 1..j
      PROVE  Append(s, e)[i].at <= Append(s, e)[j].at + MaxDelay
  <2>1. CASE j \in 1..Len(s)
    <3>1. i \in 1..Len(s)
      BY <1>1, <2>1
    <3> QED BY <1>2, <2>1, <3>1 DEF Sound
  <2>2. CASE j = Len(s) + 1 /\ i \in 1..Len(s)
    BY <1>1, <1>2, <1>5, <2>2
  <2>3. CASE j = Len(s) + 1 /\ i = j
    BY <1>1, <1>2, <2>3
  <2> QED BY <1>1, <2>1, <2>2, <2>3
<1> QED
  BY <1>2, <1>3, <1>4, <1>6, <1>7 DEF Sound

-----------------------------------------------------------------------------
\* The parts of RateInvariant, key by key.

Good(k) ==
    /\ Sound(requests[k])
    /\ Len(requests[k]) \in 1..MaxRequests

Remembers(k) ==
    \A e \in Recent(k, Window - MaxDelay) : k \in DOMAIN requests /\ Contains(requests[k], e)

\* RateInvariant is what holds of the calls, and of each key by itself.
LEMMA InvariantByKey ==
  RateInvariant <=> /\ TypeOK
                    /\ CallsAreRecent
                    /\ \A k \in DOMAIN requests : Good(k)
                    /\ \A k \in Keys : Remembers(k)
                    /\ WithinCapacity
<1>1. TypeOK => \A k \in DOMAIN requests : requests[k] \in Seq(Entry)
  BY DEF TypeOK
<1> QED
  BY <1>1 DEF RateInvariant, DequesAreBounded, DequesAreNearlySorted, RecentAreKept,
              Good, Remembers, Sound, Contains

\* The same of the state a step leads to.
LEMMA InvariantByKeyNext ==
  ASSUME TypeOK', CallsAreRecent', \A k \in DOMAIN requests' : Good(k)',
         \A k \in Keys : Remembers(k)', WithinCapacity'
  PROVE  RateInvariant'
  BY DEF RateInvariant, DequesAreBounded, DequesAreNearlySorted, RecentAreKept,
         Good, Remembers, Sound, Contains

\* _make_room_for_key only drops keys without an entry that may still count.
LEMMA DroppedKeysAreOld ==
  ASSUME RateInvariant, NEW k \in DOMAIN requests, NEW at \in Time, at <= now,
         k \notin Live(at)
  PROVE  Recent(k, Window - MaxDelay) = {}
<1> SUFFICES ASSUME NEW e \in Recent(k, Window - MaxDelay) PROVE FALSE
  OBVIOUS
<1> DEFINE s == requests[k]
<1>1. k \in Keys /\ Good(k) /\ Remembers(k) /\ now \in Time
  BY InvariantByKey DEF TypeOK
<1>2. s \in Seq(Entry) /\ Len(s) \in Nat /\ Len(s) >= 1 /\ s # <<>>
  BY <1>1, LenProperties, LimitsArePositive, EmptySeq DEF Good, Sound
<1>3. Final(s).at <= at - Window
  <2>1. ~(Final(s).at > at - Window)
    BY <1>2 DEF Live, Cutoff
  <2>2. Final(s).at \in Int /\ at \in Int /\ Window \in Int
    BY <1>2, EntriesOfADeque, LimitsArePositive DEF Final, Time
  <2> QED BY <2>1, <2>2
<1>4. PICK i \in 1..Len(s) : s[i] = e
  BY <1>1 DEF Remembers, Contains
<1>5. e.at <= Final(s).at + MaxDelay
  BY <1>1, <1>2, <1>4 DEF Good, Sound, Final
<1>6. e.at > now - (Window - MaxDelay)
  BY DEF Recent
<1>7. e.at \in Int /\ Final(s).at \in Int /\ at \in Int /\ now \in Int
  BY <1>1, <1>2, <1>4, EntriesOfADeque DEF Final, Time
<1> QED
  BY <1>3, <1>5, <1>6, <1>7, LimitsArePositive

\* What consume has in hand once it has looked up, or made, the deque of k.
LEMMA OpeningKeepsRecent ==
  ASSUME RateInvariant, NEW k \in Keys, NEW at \in Time, at <= now
  PROVE  LET O == Opened(k, at)
         IN  /\ DOMAIN O \in SUBSET Keys /\ k \in DOMAIN O
             /\ O \in [DOMAIN O -> Seq(Entry)]
             /\ Sound(O[k])
             /\ \A j \in DOMAIN O \ {k} : j \in DOMAIN requests /\ O[j] = requests[j]
             /\ \A j \in Keys : \A e \in Recent(j, Window - MaxDelay) :
                   j \in DOMAIN O /\ Contains(O[j], e)
<1>1. TypeOK /\ (\A j \in DOMAIN requests : Good(j)) /\ (\A j \in Keys : Remembers(j))
  BY InvariantByKey
<1>2. CASE Known(k)
  BY <1>1, <1>2 DEF Opened, Known, Good, Remembers, TypeOK
<1>3. CASE ~Known(k)
  <2> DEFINE O == Opened(k, at)
  <2>1. /\ DOMAIN O = Live(at) \cup {k}
        /\ O[k] = <<>>
        /\ \A j \in Live(at) : O[j] = requests[j] /\ j \in DOMAIN requests /\ j # k
    BY <1>3 DEF Opened, Known, Live
  <2>2. Sound(O[k])
    BY <2>1, EmptySeq DEF Sound
  <2>3. ASSUME NEW j \in Keys, NEW e \in Recent(j, Window - MaxDelay)
        PROVE  j \in DOMAIN O /\ Contains(O[j], e)
    <3>1. j \in DOMAIN requests /\ Contains(requests[j], e)
      BY <1>1 DEF Remembers
    <3>2. j \in Live(at)
      BY <3>1, DroppedKeysAreOld
    <3> QED BY <2>1, <3>1, <3>2
  <2>4. DOMAIN O \in SUBSET Keys /\ k \in DOMAIN O
    BY <1>1, <2>1 DEF TypeOK
  <2>5. O \in [DOMAIN O -> Seq(Entry)]
    <3>1. \A j \in DOMAIN O : O[j] \in Seq(Entry)
      BY <1>1, <2>1, EmptySeq DEF TypeOK
    <3> QED BY <1>3, <3>1 DEF Opened
  <2> QED
    BY <2>1, <2>2, <2>3, <2>4, <2>5
<1> QED
  BY <1>2, <1>3

\* What the popleft loop removes cannot count any more.
LEMMA PoppedAreOld ==
  ASSUME now \in Time, NEW s, Sound(s), NEW at \in Time, at <= now,
         NEW n \in 0..Len(s), Pops(s, n, at),
         NEW e, Contains(s, e), e.at > now - (Window - MaxDelay)
  PROVE  Contains(Kept(s, n), e)
<1>1. PICK i \in 1..Len(s) : s[i] = e
  BY DEF Contains
<1>2. e.at \in Int /\ at \in Int /\ now \in Int /\ Len(s) \in Nat
  BY <1>1, EntriesOfADeque, LenProperties DEF Sound, Time
<1>3. ~(i <= n)
  <2> SUFFICES ASSUME i <= n PROVE FALSE
    OBVIOUS
  <2>1. e.at <= at - Window
    BY <1>1, <1>2 DEF Pops, Cutoff
  <2> QED BY <1>2, <2>1, LimitsArePositive
<1> QED
  BY <1>1, <1>2, <1>3, KeptIsSound

-----------------------------------------------------------------------------
\* A process starts without deques (__init__).
LEMMA InitEstablishesInvariant == Init => RateInvariant
<1> SUFFICES ASSUME Init PROVE RateInvariant
  OBVIOUS
<1>1. TypeOK
  BY LimitsArePositive DEF Init, TypeOK, Time, NoCall
<1>2. CallsAreRecent /\ (\A k \in Keys : Remembers(k)) /\ (\A k \in DOMAIN requests : Good(k))
  BY DEF Init, CallsAreRecent, Remembers, Recent
<1>3. WithinCapacity
  <2>1. DOMAIN requests = {}
    BY DEF Init
  <2> QED BY <2>1, FS_EmptySet, LimitsArePositive DEF WithinCapacity
<1> QED
  BY <1>1, <1>2, <1>3, InvariantByKey

\* Moving the clock or starting a call keeps the deques as they are.
LEMMA TickKeepsInvariant == RateInvariant /\ Tick => RateInvariant'
<1> SUFFICES ASSUME RateInvariant, Tick PROVE RateInvariant'
  OBVIOUS
<1>1. TypeOK /\ CallsAreRecent /\ now \in Int /\ now' \in Time /\ now' = now + 1
  BY LimitsArePositive DEF RateInvariant, TypeOK, Tick, Time
<1>2. TypeOK'
  BY <1>1 DEF TypeOK, Tick
<1>3. CallsAreRecent'
  BY <1>1, LimitsArePositive DEF CallsAreRecent, Tick, TypeOK, Time
<1>4. ASSUME NEW k \in DOMAIN requests' PROVE Good(k)'
  <2>1. Good(k) /\ requests' = requests
    BY <1>4, InvariantByKey DEF Tick
  <2>2. \A i \in 1..Len(requests[k]) : requests[k][i].at \in Int
    BY <2>1, EntriesOfADeque DEF Good, Sound
  <2> QED BY <1>1, <2>1, <2>2 DEF Good, Sound
<1>5. ASSUME NEW k \in Keys PROVE Remembers(k)'
  <2>1. Remembers(k) /\ requests' = requests /\ accepted' = accepted
    BY InvariantByKey DEF Tick
  <2>2. \A e \in accepted[k] : e.at \in Int
    BY <1>1 DEF TypeOK, Entry, Time
  <2>3. Recent(k, Window - MaxDelay)' \in SUBSET Recent(k, Window - MaxDelay)
    BY <1>1, <2>1, <2>2, LimitsArePositive DEF Recent
  <2> QED BY <2>1, <2>3 DEF Remembers, Contains
<1>6. WithinCapacity'
  BY DEF RateInvariant, WithinCapacity, Tick
<1> QED
  BY <1>2, <1>3, <1>4, <1>5, <1>6, InvariantByKeyNext

\* A thread that comes to the lock holds the time of now.
LEMMA CallKeepsInvariant ==
  ASSUME RateInvariant, NEW r \in Threads, NEW k \in Keys, Call(r, k)
  PROVE  RateInvariant'
<1>1. TypeOK /\ now \in Int
  BY DEF RateInvariant, TypeOK, Time
<1>2. TypeOK'
  BY <1>1 DEF TypeOK, Call
<1>3. CallsAreRecent'
  BY <1>1, LimitsArePositive DEF RateInvariant, CallsAreRecent, Call, TypeOK
<1> QED
  BY <1>2, <1>3 DEF RateInvariant, Call, DequesAreBounded, DequesAreNearlySorted,
                    RecentAreKept, Recent, WithinCapacity

\* The lock is held with a time the clock showed at most MaxDelay ago.
LEMMA CallerHoldsATime ==
  ASSUME RateInvariant, NEW r \in Threads, call[r].key # NoKey
  PROVE  /\ call[r].key \in Keys /\ call[r].at \in Time
         /\ call[r].at \in (now - MaxDelay)..now /\ call[r].at <= now
<1>1. call[r].key \in Keys /\ call[r].at \in Time /\ now \in Int /\ call[r] # NoCall
  BY DEF RateInvariant, TypeOK, NoCall, Time
<1> QED
  BY <1>1, LimitsArePositive DEF RateInvariant, CallsAreRecent, Time

\* Once a thread has returned, the other calls are as they were.
LEMMA ReturnKeepsCalls ==
  ASSUME RateInvariant, NEW r \in Threads, Return(r), UNCHANGED now
  PROVE  CallsAreRecent' /\ call' \in [Threads -> [key: Keys \cup {NoKey}, at: Time]]
<1>1. NoCall \in [key: Keys \cup {NoKey}, at: Time]
  BY LimitsArePositive DEF NoCall, Time
<1> QED
  BY <1>1 DEF RateInvariant, CallsAreRecent, TypeOK, Return

\* An accepted request is remembered, and the limit was not reached.
LEMMA AcceptKeepsInvariant ==
  ASSUME RateInvariant, NEW r \in Threads, Accept(r)
  PROVE  RateInvariant'
<1> DEFINE k == call[r].key
           at == call[r].at
           entry == [at |-> at, n |-> served]
           O == Opened(k, at)
<1>1. /\ k \in Keys /\ at \in Time /\ at \in (now - MaxDelay)..now /\ at <= now
      /\ TypeOK /\ now \in Time /\ entry \in Entry
  BY CallerHoldsATime DEF Accept, RateInvariant, TypeOK, Entry
<1>2. PICK n \in 0..Len(O[k]) :
        /\ Pops(O[k], n, at)
        /\ Len(O[k]) - n < MaxRequests
        /\ requests' = [O EXCEPT ![k] = Append(Kept(O[k], n), entry)]
  BY DEF Accept
<1>3. /\ DOMAIN O \in SUBSET Keys /\ k \in DOMAIN O
      /\ O \in [DOMAIN O -> Seq(Entry)]
      /\ Sound(O[k])
      /\ \A j \in DOMAIN O \ {k} : j \in DOMAIN requests /\ O[j] = requests[j]
      /\ \A j \in Keys : \A e \in Recent(j, Window - MaxDelay) :
            j \in DOMAIN O /\ Contains(O[j], e)
  BY <1>1, OpeningKeepsRecent
<1> DEFINE kept == Kept(O[k], n)
           deque == Append(kept, entry)
<1>4. Sound(kept) /\ Len(kept) = Len(O[k]) - n
  BY <1>1, <1>3, KeptIsSound
<1>5. /\ Sound(deque) /\ Len(deque) = Len(kept) + 1 /\ Contains(deque, entry)
      /\ \A x : Contains(kept, x) => Contains(deque, x)
  BY <1>1, <1>4, AppendIsSound
<1>6. /\ DOMAIN requests' = DOMAIN O /\ requests'[k] = deque
      /\ \A j \in DOMAIN O \ {k} : requests'[j] = requests[j]
      /\ requests' \in [DOMAIN O -> Seq(Entry)]
  BY <1>2, <1>3, <1>5 DEF Sound
<1>7. Len(O[k]) \in Nat /\ Len(deque) \in 1..MaxRequests
  BY <1>2, <1>3, <1>4, <1>5, LenProperties, LimitsArePositive DEF Sound
<1>8. now' = now /\ accepted' = [accepted EXCEPT ![k] = @ \cup {entry}]
  BY DEF Accept
<1>9. TypeOK'
  <2>1. CallsAreRecent' /\ call' \in [Threads -> [key: Keys \cup {NoKey}, at: Time]]
    BY ReturnKeepsCalls DEF Accept
  <2>2. accepted' \in [Keys -> SUBSET Entry] /\ served' \in Nat /\ promised' \in [Keys -> Nat]
    BY <1>1, <1>8 DEF Accept, TypeOK
  <2> QED BY <1>1, <1>3, <1>6, <1>8, <2>1, <2>2 DEF TypeOK
<1>10. CallsAreRecent'
  BY ReturnKeepsCalls DEF Accept
<1>11. ASSUME NEW j \in DOMAIN requests' PROVE Good(j)'
  <2>1. CASE j = k
    BY <1>5, <1>6, <1>7, <1>8, <2>1 DEF Good, Sound
  <2>2. CASE j # k
    <3>1. j \in DOMAIN requests /\ requests'[j] = requests[j]
      BY <1>3, <1>6, <1>11, <2>2
    <3>2. Good(j)
      BY <3>1, InvariantByKey
    <3> QED BY <1>8, <3>1, <3>2 DEF Good, Sound
  <2> QED BY <2>1, <2>2
<1>12. ASSUME NEW j \in Keys PROVE Remembers(j)'
  <2> SUFFICES ASSUME NEW e \in Recent(j, Window - MaxDelay)'
               PROVE  j \in DOMAIN requests' /\ Contains(requests'[j], e)
    BY DEF Remembers, Contains
  <2>1. CASE j = k /\ e = entry
    BY <1>3, <1>5, <1>6, <2>1
  <2>2. CASE ~(j = k /\ e = entry)
    <3>1. e \in Recent(j, Window - MaxDelay)
      BY <1>1, <1>8, <2>2 DEF Recent, TypeOK
    <3>2. j \in DOMAIN O /\ Contains(O[j], e)
      BY <1>3, <3>1
    <3>3. CASE j = k
      <4>1. e.at > now - (Window - MaxDelay)
        BY <3>1 DEF Recent
      <4>2. Contains(kept, e)
        BY <1>1, <1>2, <1>3, <3>2, <3>3, <4>1, PoppedAreOld
      <4> QED BY <1>3, <1>5, <1>6, <3>3, <4>2
    <3>4. CASE j # k
      BY <1>3, <1>6, <3>2, <3>4
    <3> QED BY <3>3, <3>4
  <2> QED BY <2>1, <2>2
<1>13. WithinCapacity'
  <2>1. IsFiniteSet(DOMAIN requests) /\ Cardinality(DOMAIN requests) <= MaxKeys
    BY DEF RateInvariant, WithinCapacity
  <2>2. CASE Known(k)
    BY <1>6, <2>1, <2>2 DEF Opened, WithinCapacity
  <2>3. CASE ~Known(k)
    <3>1. DOMAIN O = Live(at) \cup {k} /\ HasRoom(at)
      BY <2>3 DEF Opened, Accept
    <3>2. IsFiniteSet(Live(at)) /\ Cardinality(Live(at)) < MaxKeys
      BY <2>1, <3>1, FS_Subset DEF Live, HasRoom
    <3>3. /\ IsFiniteSet(Live(at) \cup {k})
          /\ Cardinality(Live(at) \cup {k}) =
                IF k \in Live(at) THEN Cardinality(Live(at)) ELSE Cardinality(Live(at)) + 1
      <4> HIDE DEF k, at
      <4> QED BY <3>2, FS_AddElement
    <3>4. Cardinality(Live(at)) \in Nat
      BY <3>2, FS_CardinalityType
    <3> QED BY <1>6, <3>1, <3>2, <3>3, <3>4, LimitsArePositive DEF WithinCapacity
  <2> QED BY <2>2, <2>3
<1> QED
  BY <1>9, <1>10, <1>11, <1>12, <1>13, InvariantByKeyNext

\* A known key over its limit only loses what has left the window.
LEMMA RefuseFullKeepsInvariant ==
  ASSUME RateInvariant, NEW r \in Threads, RefuseFull(r)
  PROVE  RateInvariant'
<1> DEFINE k == call[r].key
           at == call[r].at
           deque == requests[k]
<1>1. /\ k \in Keys /\ at \in Time /\ at <= now /\ k \in DOMAIN requests
      /\ TypeOK /\ now \in Time /\ Good(k)
  BY CallerHoldsATime, InvariantByKey DEF RefuseFull, Known, TypeOK
<1>2. PICK n \in 0..Len(deque) :
        /\ Pops(deque, n, at)
        /\ Len(deque) - n >= MaxRequests
        /\ requests' = [requests EXCEPT ![k] = Kept(deque, n)]
        /\ promised' = [promised EXCEPT ![k] = deque[n + 1].at + Window]
  BY DEF RefuseFull
<1>3. Len(deque) \in 1..MaxRequests /\ Len(deque) \in Nat /\ deque \in Seq(Entry)
  BY <1>1, LenProperties DEF Good, Sound
<1>4. n = 0
  BY <1>2, <1>3, LimitsArePositive
<1>5. Sound(Kept(deque, n)) /\ Len(Kept(deque, n)) = Len(deque)
  BY <1>1, <1>3, <1>4, KeptIsSound DEF Good
<1>6. /\ DOMAIN requests' = DOMAIN requests /\ requests'[k] = Kept(deque, n)
      /\ \A j \in DOMAIN requests \ {k} : requests'[j] = requests[j]
      /\ requests' \in [DOMAIN requests -> Seq(Entry)]
  BY <1>1, <1>2, <1>5 DEF Sound, TypeOK
<1>7. now' = now /\ accepted' = accepted /\ served' = served
  BY DEF RefuseFull
<1>8. TypeOK'
  <2>1. CallsAreRecent' /\ call' \in [Threads -> [key: Keys \cup {NoKey}, at: Time]]
    BY ReturnKeepsCalls DEF RefuseFull
  <2>2. deque[n + 1].at + Window \in Nat
    <3>1. deque[1].at \in Time
      BY <1>3, EntriesOfADeque
    <3> QED BY <1>4, <3>1, LimitsArePositive DEF Time
  <2> QED BY <1>1, <1>2, <1>6, <1>7, <2>1, <2>2 DEF TypeOK
<1>9. CallsAreRecent'
  BY ReturnKeepsCalls DEF RefuseFull
<1>10. ASSUME NEW j \in DOMAIN requests' PROVE Good(j)'
  <2>1. CASE j = k
    BY <1>3, <1>5, <1>6, <1>7, <2>1 DEF Good, Sound
  <2>2. CASE j # k
    <3>1. Good(j) /\ requests'[j] = requests[j]
      BY <1>6, <1>10, <2>2, InvariantByKey
    <3> QED BY <1>7, <3>1 DEF Good, Sound
  <2> QED BY <2>1, <2>2
<1>11. ASSUME NEW j \in Keys PROVE Remembers(j)'
  <2> SUFFICES ASSUME NEW e \in Recent(j, Window - MaxDelay)
               PROVE  j \in DOMAIN requests' /\ Contains(requests'[j], e)
    BY <1>7 DEF Remembers, Contains, Recent
  <2>1. j \in DOMAIN requests /\ Contains(requests[j], e)
    BY InvariantByKey DEF Remembers
  <2>2. CASE j = k
    <3>1. e.at > now - (Window - MaxDelay)
      BY DEF Recent
    <3> QED BY <1>1, <1>2, <1>6, <2>1, <2>2, <3>1, PoppedAreOld DEF Good
  <2>3. CASE j # k
    BY <1>6, <2>1, <2>3
  <2> QED BY <2>2, <2>3
<1>12. WithinCapacity'
  BY <1>6 DEF RateInvariant, WithinCapacity
<1> QED
  BY <1>8, <1>9, <1>10, <1>11, <1>12, InvariantByKeyNext

\* A refused new key leaves the keys that are still live.
LEMMA RefuseNewKeyKeepsInvariant ==
  ASSUME RateInvariant, NEW r \in Threads, RefuseNewKey(r)
  PROVE  RateInvariant'
<1> DEFINE k == call[r].key
           at == call[r].at
           live == Live(at)
<1>1. k \in Keys /\ at \in Time /\ at <= now /\ TypeOK
  BY CallerHoldsATime, InvariantByKey DEF RefuseNewKey
<1>2. /\ requests' = [j \in live |-> requests[j]] /\ live \in SUBSET DOMAIN requests
      /\ now' = now /\ accepted' = accepted /\ served' = served
  BY DEF RefuseNewKey, Live
<1>3. TypeOK'
  <2>1. CallsAreRecent' /\ call' \in [Threads -> [key: Keys \cup {NoKey}, at: Time]]
    BY ReturnKeepsCalls DEF RefuseNewKey
  <2>2. PICK first \in live :
          promised' = [promised EXCEPT ![k] = Final(requests[first]).at + Window]
    BY DEF RefuseNewKey
  <2>3. Final(requests[first]).at + Window \in Nat
    <3>1. Good(first)
      BY <1>2, InvariantByKey
    <3>2. requests[first] \in Seq(Entry) /\ Len(requests[first]) \in 1..Len(requests[first])
      BY <3>1, LenProperties, LimitsArePositive DEF Good, Sound
    <3>3. Final(requests[first]).at \in Time
      BY <3>2, EntriesOfADeque DEF Final
    <3> QED BY <3>3, LimitsArePositive DEF Time
  <2>4. promised' \in [Keys -> Nat]
    BY <1>1, <2>2, <2>3 DEF TypeOK
  <2>5. /\ DOMAIN requests' \in SUBSET Keys
        /\ requests' \in [DOMAIN requests' -> Seq(Entry)]
    BY <1>1, <1>2 DEF TypeOK
  <2> QED BY <1>1, <1>2, <2>1, <2>4, <2>5 DEF TypeOK
<1>4. CallsAreRecent'
  BY ReturnKeepsCalls DEF RefuseNewKey
<1>5. ASSUME NEW j \in DOMAIN requests' PROVE Good(j)'
  <2>1. Good(j) /\ requests'[j] = requests[j]
    BY <1>2, <1>5, InvariantByKey
  <2> QED BY <1>2, <2>1 DEF Good, Sound
<1>6. ASSUME NEW j \in Keys PROVE Remembers(j)'
  <2> SUFFICES ASSUME NEW e \in Recent(j, Window - MaxDelay)
               PROVE  j \in DOMAIN requests' /\ Contains(requests'[j], e)
    BY <1>2 DEF Remembers, Contains, Recent
  <2>1. j \in DOMAIN requests /\ Contains(requests[j], e)
    BY InvariantByKey DEF Remembers
  <2>2. j \in live
    BY <1>1, <2>1, DroppedKeysAreOld
  <2> QED BY <1>2, <2>1, <2>2
<1>7. WithinCapacity'
  <2>1. IsFiniteSet(DOMAIN requests) /\ Cardinality(DOMAIN requests) <= MaxKeys
    BY DEF RateInvariant, WithinCapacity
  <2>2. IsFiniteSet(live) /\ Cardinality(live) <= Cardinality(DOMAIN requests)
    BY <1>2, <2>1, FS_Subset
  <2>3. Cardinality(live) \in Nat /\ Cardinality(DOMAIN requests) \in Nat
    BY <2>1, <2>2, FS_CardinalityType
  <2> QED BY <1>2, <2>1, <2>2, <2>3, LimitsArePositive DEF WithinCapacity
<1> QED
  BY <1>3, <1>4, <1>5, <1>6, <1>7, InvariantByKeyNext

-----------------------------------------------------------------------------
\* A call of the limiter, in any order with others, keeps RateInvariant.
LEMMA RateStepKeepsInvariant == RateInvariant /\ [Next]_vars => RateInvariant'
<1> SUFFICES ASSUME RateInvariant, [Next]_vars PROVE RateInvariant'
  OBVIOUS
<1>1. ASSUME NEW r \in Threads, NEW k \in Keys, Call(r, k) PROVE RateInvariant'
  BY <1>1, CallKeepsInvariant
<1>2. ASSUME NEW r \in Threads, Consume(r) PROVE RateInvariant'
  BY <1>2, AcceptKeepsInvariant, RefuseFullKeepsInvariant, RefuseNewKeyKeepsInvariant
     DEF Consume
<1>3. CASE Tick
  BY <1>3, TickKeepsInvariant
<1>4. CASE UNCHANGED vars
  BY <1>4 DEF vars, RateInvariant, TypeOK, CallsAreRecent, DequesAreBounded,
              DequesAreNearlySorted, RecentAreKept, Recent, WithinCapacity
<1> QED
  BY <1>1, <1>2, <1>3, <1>4 DEF Next

\* The limiter keeps RateInvariant.
THEOREM RateInvariantHolds == Spec => []RateInvariant
  BY RateStepKeepsInvariant, InitEstablishesInvariant, PTL DEF Spec

\* What was accepted within the window, less the longest wait for the lock, is in the
\* deque of the key.
LEMMA InvariantLimits ==
  ASSUME RateInvariant PROVE LimitHolds
<1> SUFFICES ASSUME NEW k \in Keys
             PROVE  Cardinality(Recent(k, Window - MaxDelay)) <= MaxRequests
  BY DEF LimitHolds
<1>1. Remembers(k) /\ \A j \in DOMAIN requests : Good(j)
  BY InvariantByKey
<1>2. CASE Recent(k, Window - MaxDelay) = {}
  BY <1>2, FS_EmptySet, LimitsArePositive
<1>3. CASE Recent(k, Window - MaxDelay) # {}
  <2>1. k \in DOMAIN requests /\ Good(k)
    BY <1>1, <1>3 DEF Remembers
  <2>2. requests[k] \in Seq(Entry) /\ Len(requests[k]) <= MaxRequests
    BY <2>1, LimitsArePositive DEF Good, Sound
  <2>3. \A e \in Recent(k, Window - MaxDelay) : Contains(requests[k], e)
    BY <1>1 DEF Remembers
  <2>4. Cardinality(Recent(k, Window - MaxDelay)) <= Len(requests[k])
    BY <2>2, <2>3, DequeBoundsItsEntries
  <2>5. IsFiniteSet(Recent(k, Window - MaxDelay))
    BY <2>2, <2>3, DequeBoundsItsEntries
  <2> QED BY <2>2, <2>4, <2>5, LenProperties, FS_CardinalityType, LimitsArePositive
<1> QED
  BY <1>2, <1>3

\* The requests of a key accepted within the window, less the longest wait for
\* the lock, are in its deque, so they are at most max_requests.
THEOREM LimitAlwaysHolds == Spec => []LimitHolds
  BY InvariantLimits, RateInvariantHolds, PTL

-----------------------------------------------------------------------------
\* Retry-After: a refusal changes no deque, so a promise lasts until a request is
\* accepted, which ends all promises.

\* The popleft loop stops, and takes the first element if that is old.
LEMMA LoopStops ==
  ASSUME NEW s \in Seq(Entry), NEW at \in Nat, Len(s) > 0 => s[1].at <= Cutoff(at)
  PROVE  \E n \in 0..Len(s) : Pops(s, n, at) /\ (Len(s) > 0 => n > 0)
<1> DEFINE T == {i \in 1..Len(s) : s[i].at > Cutoff(at)}
<1>1. Len(s) \in Nat /\ Cutoff(at) \in Int
  BY LenProperties, LimitsArePositive DEF Cutoff
<1>2. \A i \in 1..Len(s) : s[i].at \in Int
  BY EntriesOfADeque
<1>3. CASE T = {}
  <2>1. \A i \in 1..Len(s) : s[i].at <= Cutoff(at)
    BY <1>1, <1>2, <1>3
  <2>2. Pops(s, Len(s), at)
    BY <1>1, <2>1 DEF Pops
  <2> QED BY <1>1, <2>2
<1>4. CASE T # {}
  <2>1. T \subseteq Nat
    BY <1>1
  <2>2. PICK m \in T : \A i \in T : ~ (<<i, m>> \in OpToRel(<, Nat))
    <3> HIDE DEF T
    <3> QED BY <1>4, <2>1, NatLessThanWellFounded, WFMin
  <2>3. \A i \in T : ~ (i < m)
    <3> HIDE DEF T
    <3> QED BY <2>1, <2>2 DEF OpToRel
  <2>4. m # 1
    BY <1>1, <1>2
  <2> DEFINE n == m - 1
  <2>5. n \in 0..Len(s) /\ n > 0 /\ n + 1 = m
    BY <1>1, <2>4
  <2>6. \A i \in 1..n : s[i].at <= Cutoff(at)
    <3> SUFFICES ASSUME NEW i \in 1..n PROVE s[i].at <= Cutoff(at)
      OBVIOUS
    <3>1. i \in 1..Len(s) /\ i < m
      BY <1>1, <2>5
    <3>2. i \notin T
      BY <1>1, <2>3, <3>1
    <3> QED BY <1>1, <1>2, <3>1, <3>2
  <2>7. Pops(s, n, at)
    BY <2>5, <2>6 DEF Pops
  <2> QED BY <2>5, <2>7
<1> QED
  BY <1>3, <1>4

\* A full deque loses nothing when it refuses.
LEMMA RefuseFullKeepsDeques ==
  ASSUME RateInvariant, NEW r \in Threads, RefuseFull(r)
  PROVE  /\ requests' = requests
         /\ call[r].key \in DOMAIN requests
         /\ promised' = [promised EXCEPT ![call[r].key] = requests[call[r].key][1].at + Window]
<1> DEFINE k == call[r].key
           deque == requests[k]
<1>1. k \in DOMAIN requests /\ k \in Keys
  BY CallerHoldsATime DEF RefuseFull, Known
<1>2. Len(deque) \in Nat /\ Len(deque) <= MaxRequests /\ deque \in Seq(Entry)
  BY <1>1, LenProperties, LimitsArePositive DEF RateInvariant, DequesAreBounded, TypeOK
<1>3. PICK n \in 0..Len(deque) :
          /\ Len(deque) - n >= MaxRequests
          /\ requests' = [requests EXCEPT ![k] = Kept(deque, n)]
          /\ promised' = [promised EXCEPT ![k] = deque[n + 1].at + Window]
  BY DEF RefuseFull
<1>4. n = 0
  BY <1>2, <1>3, LimitsArePositive
<1>5. Kept(deque, 0) = deque
  <2>1. /\ SubSeq(deque, 1, Len(deque)) \in Seq(Entry)
        /\ Len(SubSeq(deque, 1, Len(deque))) = Len(deque)
        /\ \A i \in 1..Len(deque) : SubSeq(deque, 1, Len(deque))[i] = deque[i]
    <3>1. \A i \in 1..Len(deque) : deque[i] \in Entry
      BY <1>2, EntriesOfADeque
    <3> HIDE DEF deque
    <3> QED BY <1>2, <3>1, SubSeqProperties
  <2>2. SubSeq(deque, 1, Len(deque)) = deque
    <3> HIDE DEF deque
    <3> QED BY <1>2, <2>1, SeqEqual
  <2> QED BY <2>2 DEF Kept
<1>6. [requests EXCEPT ![k] = deque] = requests
  BY <1>1 DEF RateInvariant, TypeOK
<1> QED
  BY <1>1, <1>3, <1>4, <1>5, <1>6

\* When the dictionary has no room, all its keys are alive.
LEMMA RefuseNewKeyKeepsDeques ==
  ASSUME RateInvariant, NEW r \in Threads, RefuseNewKey(r)
  PROVE  /\ requests' = requests
         /\ call[r].key \notin DOMAIN requests
         /\ \E j \in DOMAIN requests :
              promised' = [promised EXCEPT ![call[r].key] = Final(requests[j]).at + Window]
<1> DEFINE live == Live(call[r].at)
<1>1. live \subseteq DOMAIN requests
  BY DEF Live
<1>2. IsFiniteSet(DOMAIN requests) /\ Cardinality(DOMAIN requests) <= MaxKeys
  BY DEF RateInvariant, WithinCapacity
<1>3. ~(Cardinality(live) < MaxKeys)
  BY DEF RefuseNewKey, HasRoom
<1>4. live = DOMAIN requests
  <2> HIDE DEF live
  <2>1. /\ IsFiniteSet(live) /\ Cardinality(live) <= Cardinality(DOMAIN requests)
        /\ Cardinality(live) = Cardinality(DOMAIN requests) => live = DOMAIN requests
    BY <1>1, <1>2, FS_Subset
  <2>2. Cardinality(live) \in Nat /\ Cardinality(DOMAIN requests) \in Nat
    BY <1>2, <2>1, FS_CardinalityType
  <2> QED BY <1>2, <1>3, <2>1, <2>2, LimitsArePositive
<1>5. requests' = [j \in live |-> requests[j]]
  BY DEF RefuseNewKey
<1>6. requests' = requests
  BY <1>4, <1>5 DEF RateInvariant, TypeOK
<1> QED
  BY <1>4, <1>6 DEF RefuseNewKey, Known

\* A refusal changes no deque, so the promise follows the deque until a request is accepted.
LEMMA PromisesAreKept ==
  ASSUME RateInvariant, PromisesFollowTheDeques, [Next]_vars
  PROVE  PromisesFollowTheDeques'
<1>1. promised \in [Keys -> Nat]
  BY DEF RateInvariant, TypeOK
<1>2. CASE UNCHANGED <<requests, promised>>
  BY <1>2 DEF PromisesFollowTheDeques
<1>3. ASSUME NEW r \in Threads, Accept(r) PROVE PromisesFollowTheDeques'
  BY <1>3 DEF Accept, PromisesFollowTheDeques
<1>4. ASSUME NEW r \in Threads, RefuseFull(r) PROVE PromisesFollowTheDeques'
  BY <1>1, <1>4, RefuseFullKeepsDeques DEF PromisesFollowTheDeques
<1>5. ASSUME NEW r \in Threads, RefuseNewKey(r) PROVE PromisesFollowTheDeques'
  BY <1>1, <1>5, RefuseNewKeyKeepsDeques DEF PromisesFollowTheDeques
<1>6. (\E r \in Threads, k \in Keys : Call(r, k)) \/ Tick \/ UNCHANGED vars
        => UNCHANGED <<requests, promised>>
  BY DEF Call, Tick, vars
<1> QED
  BY <1>2, <1>3, <1>4, <1>5, <1>6 DEF Next, Consume

\* From the promised time on the first entry of a full deque is old, or one of the keys
\* that fill the dictionary has left it.
LEMMA PromiseAdmits ==
  ASSUME RateInvariant, PromisesFollowTheDeques, NEW k \in Keys, promised[k] > 0,
         NEW at \in promised[k]..(MaxTime + Window)
  PROVE  Admits(k, at)
<1>1. /\ promised[k] \in Nat /\ at \in Nat /\ promised[k] <= at
      /\ MaxRequests \in Nat /\ MaxRequests > 0 /\ Window \in Nat
  BY LimitsArePositive DEF RateInvariant, TypeOK
<1>2. \A j \in DOMAIN requests :
        requests[j] \in Seq(Entry) /\ Len(requests[j]) \in 1..MaxRequests
  BY DEF RateInvariant, TypeOK, DequesAreBounded
<1>3. CASE k \in DOMAIN requests /\ promised[k] = requests[k][1].at + Window
  <2> DEFINE s == requests[k]
  <2>1. s \in Seq(Entry) /\ Len(s) \in Nat /\ Len(s) > 0 /\ Len(s) <= MaxRequests
    BY <1>1, <1>2, <1>3
  <2>2. s[1].at \in Int
    BY <2>1, EntriesOfADeque
  <2>3. s[1].at <= Cutoff(at)
    BY <1>1, <1>3, <2>2 DEF Cutoff
  <2>4. PICK n \in 0..Len(s) : Pops(s, n, at) /\ (Len(s) > 0 => n > 0)
    <3> HIDE DEF s
    <3> QED BY <1>1, <2>1, <2>3, LoopStops
  <2>5. Len(s) - n < MaxRequests
    BY <1>1, <2>1, <2>4
  <2> QED BY <1>3, <2>4, <2>5 DEF Admits, Opened, Known
<1>4. CASE /\ k \notin DOMAIN requests
           /\ \E j \in DOMAIN requests : promised[k] = Final(requests[j]).at + Window
  <2>1. PICK j \in DOMAIN requests : promised[k] = Final(requests[j]).at + Window
    BY <1>4
  <2>2. Final(requests[j]).at \in Int
    <3>1. requests[j] \in Seq(Entry) /\ Len(requests[j]) \in 1..Len(requests[j])
      BY <1>1, <1>2, LenProperties
    <3> QED BY <3>1, EntriesOfADeque DEF Final
  <2>3. j \notin Live(at)
    BY <1>1, <2>1, <2>2 DEF Live, Cutoff
  <2>4. HasRoom(at)
    <3>1. IsFiniteSet(DOMAIN requests) /\ Cardinality(DOMAIN requests) <= MaxKeys
      BY DEF RateInvariant, WithinCapacity
    <3>2. Live(at) \subseteq DOMAIN requests
      BY DEF Live
    <3>3. /\ IsFiniteSet(Live(at)) /\ Cardinality(Live(at)) <= Cardinality(DOMAIN requests)
          /\ Cardinality(Live(at)) = Cardinality(DOMAIN requests) => Live(at) = DOMAIN requests
      BY <3>1, <3>2, FS_Subset
    <3>4. Cardinality(Live(at)) \in Nat /\ Cardinality(DOMAIN requests) \in Nat
      BY <3>1, <3>3, FS_CardinalityType
    <3> QED BY <2>3, <3>1, <3>3, <3>4, LimitsArePositive DEF HasRoom
  <2>5. Opened(k, at)[k] = <<>>
    BY <1>4 DEF Opened, Known
  <2>6. Pops(<<>>, 0, at) /\ Len(<<>>) - 0 < MaxRequests /\ 0 \in 0..Len(<<>>)
    BY <1>1 DEF Pops
  <2> QED BY <2>4, <2>5, <2>6 DEF Admits
<1> QED
  BY <1>3, <1>4 DEF PromisesFollowTheDeques

\* A refused client that comes back when it was told to, or later, is accepted, unless
\* another request was accepted meanwhile (retry_after_seconds).
THEOREM RetryAfterSuffices == Spec => []RetryAfterIsEnough
<1>1. Init => PromisesFollowTheDeques
  BY DEF Init, PromisesFollowTheDeques
<1>2. RateInvariant /\ PromisesFollowTheDeques /\ [Next]_vars => PromisesFollowTheDeques'
  BY PromisesAreKept
<1>3. RateInvariant /\ PromisesFollowTheDeques => RetryAfterIsEnough
  BY PromiseAdmits DEF RetryAfterIsEnough
<1> QED
  BY <1>1, <1>2, <1>3, RateInvariantHolds, PTL DEF Spec

-----------------------------------------------------------------------------
(* The gates of the routes (module Admission).                                  *)

\* The instance's finite sets and cardinalities are those of the library.
LEMMA GateCount ==
  /\ \A S : Gate!IsFiniteSet(S) <=> IsFiniteSet(S)
  /\ \A S : Gate!Cardinality(S) = Cardinality(S)
  BY DEF Gate!IsFiniteSet, IsFiniteSet, Gate!Cardinality, Cardinality

\* What gates are of.
Names == {
    "registration", "phone", "login", "forgot", "reset", "change", "refresh", "logout",
    "logout-all", "resend-email", "verify-email", "profile", "onboarding", "public-profile",
    "admin-catalog", "catalog", "catalog-admins", "catalog-admin", "listings", "browse",
    "listing-writes", "products", "product-read", "product-write", "lists", "list-writes",
    "personal", "personal-read", "personal-write", "evidence", "submission", "seller-admins",
    "seller-reads", "seller-read", "seller-submission", "seller-admin", "seller-upload",
    "image-uploads", "image-writes", "image-reads", "image-upload", "images", "decoder",
    "body", "upload", "origin", "bearer", "headers", "parameters", "preflight", "form", "image",
    "role"}

AnyGate == [by: {"peer", "user", "name", "check", "take", "return"}, of: Names]

\* The limiter of peers that comes before a limiter of accounts.
PeerOf(gate) ==
    Gate!Peer(CASE gate.of \in {"product-read", "product-write", "image-upload"} -> "products"
           [] gate.of \in {"personal-read", "personal-write"} -> "personal"
           [] gate.of = "catalog-admin" -> "catalog-admins"
           [] OTHER -> gate.of)

\* A gate may come next after those that were passed.
InTurn(g, passed) ==
    /\ g \in AnyGate
    /\ g.by = "user" => Gate!Bearer \in passed
    /\ g.by \in {"user", "name"} /\ g # Gate!User("logout-all") => PeerOf(g) \in passed
    /\ g.by \in {"user", "name", "take", "return"} => g \notin passed
    /\ g.by = "take" =>
         /\ g.of \in Gate!Pools /\ Gate!Return(g.of) \notin passed
         /\ g.of = "decoder" => Gate!Take("images") \in passed
    /\ g.by = "return" => g = Gate!Return("decoder") /\ Gate!Take("decoder") \in passed

\* The first i - 1 gates of a route.
Earlier(s, i) == {s[j] : j \in 1..(i - 1)}

\* All of them.
All(s) == Earlier(s, Len(s) + 1)

\* A part of a route is in order after what came before it.
InOrder(s, passed) ==
    /\ s \in Seq(AnyGate)
    /\ \A i \in 1..Len(s) : InTurn(s[i], passed \cup Earlier(s, i))

\* What routes are put together from: two gates to four, and parts in a row.
LEMMA TwoGates ==
  ASSUME NEW a, NEW b, NEW passed, InTurn(a, passed), InTurn(b, passed \cup {a})
  PROVE  InOrder(<<a, b>>, passed) /\ All(<<a, b>>) = {a, b}
<1>1. a \in AnyGate /\ b \in AnyGate
  BY DEF InTurn
<1> DEFINE s == <<a, b>>
<1>2. s \in Seq(AnyGate) /\ Len(s) = 2 /\ s[1] = a /\ s[2] = b
  BY <1>1
<1> HIDE DEF s
<1>3. Earlier(s, 1) = {} /\ Earlier(s, 2) = {a}
  BY <1>2 DEF Earlier
<1>4. \A i \in 1..Len(s) : i = 1 \/ i = 2
  BY <1>2
<1>5. InTurn(s[1], passed \cup Earlier(s, 1))
  <2>1. passed \cup Earlier(s, 1) = passed
    BY <1>3
  <2> QED BY <1>2, <2>1
<1>6. InTurn(s[2], passed \cup Earlier(s, 2))
  BY <1>2, <1>3
<1>10. InOrder(s, passed)
  BY <1>2, <1>3, <1>4, <1>5, <1>6 DEF InOrder
<1>11. All(s) = {a, b}
  BY <1>2 DEF All, Earlier
<1> QED
  BY <1>10, <1>11 DEF s

\* Three gates.
LEMMA ThreeGates ==
  ASSUME NEW a, NEW b, NEW c, NEW passed,
         InTurn(a, passed), InTurn(b, passed \cup {a}), InTurn(c, passed \cup {a, b})
  PROVE  InOrder(<<a, b, c>>, passed) /\ All(<<a, b, c>>) = {a, b, c}
<1>1. a \in AnyGate /\ b \in AnyGate /\ c \in AnyGate
  BY DEF InTurn
<1> DEFINE s == <<a, b, c>>
<1>2. s \in Seq(AnyGate) /\ Len(s) = 3 /\ s[1] = a /\ s[2] = b /\ s[3] = c
  BY <1>1
<1> HIDE DEF s
<1>3. Earlier(s, 1) = {} /\ Earlier(s, 2) = {a} /\ Earlier(s, 3) = {a, b}
  BY <1>2 DEF Earlier
<1>4. \A i \in 1..Len(s) : i = 1 \/ i = 2 \/ i = 3
  BY <1>2
<1>5. InTurn(s[1], passed \cup Earlier(s, 1))
  <2>1. passed \cup Earlier(s, 1) = passed
    BY <1>3
  <2> QED BY <1>2, <2>1
<1>6. InTurn(s[2], passed \cup Earlier(s, 2))
  BY <1>2, <1>3
<1>7. InTurn(s[3], passed \cup Earlier(s, 3))
  BY <1>2, <1>3
<1>10. InOrder(s, passed)
  BY <1>2, <1>3, <1>4, <1>5, <1>6, <1>7 DEF InOrder
<1>11. All(s) = {a, b, c}
  BY <1>2 DEF All, Earlier
<1> QED
  BY <1>10, <1>11 DEF s

\* Four gates.
LEMMA FourGates ==
  ASSUME NEW a, NEW b, NEW c, NEW d, NEW passed,
         InTurn(a, passed), InTurn(b, passed \cup {a}), InTurn(c, passed \cup {a, b}),
         InTurn(d, passed \cup {a, b, c})
  PROVE  InOrder(<<a, b, c, d>>, passed) /\ All(<<a, b, c, d>>) = {a, b, c, d}
<1>1. a \in AnyGate /\ b \in AnyGate /\ c \in AnyGate /\ d \in AnyGate
  BY DEF InTurn
<1> DEFINE s == <<a, b, c, d>>
<1>2. s \in Seq(AnyGate) /\ Len(s) = 4 /\ s[1] = a /\ s[2] = b /\ s[3] = c /\ s[4] = d
  BY <1>1
<1> HIDE DEF s
<1>3. /\ Earlier(s, 1) = {} /\ Earlier(s, 2) = {a} /\ Earlier(s, 3) = {a, b}
      /\ Earlier(s, 4) = {a, b, c}
  BY <1>2 DEF Earlier
<1>4. \A i \in 1..Len(s) : i = 1 \/ i = 2 \/ i = 3 \/ i = 4
  BY <1>2
<1>5. InTurn(s[1], passed \cup Earlier(s, 1))
  <2>1. passed \cup Earlier(s, 1) = passed
    BY <1>3
  <2> QED BY <1>2, <2>1
<1>6. InTurn(s[2], passed \cup Earlier(s, 2))
  BY <1>2, <1>3
<1>7. InTurn(s[3], passed \cup Earlier(s, 3))
  BY <1>2, <1>3
<1>8. InTurn(s[4], passed \cup Earlier(s, 4))
  BY <1>2, <1>3
<1>10. InOrder(s, passed)
  BY <1>2, <1>3, <1>4, <1>5, <1>6, <1>7, <1>8 DEF InOrder
<1>11. All(s) = {a, b, c, d}
  BY <1>2 DEF All, Earlier
<1> QED
  BY <1>10, <1>11 DEF s

\* A part that is in order after another one.
LEMMA PartsInARow ==
  ASSUME NEW s, NEW t, NEW passed, InOrder(s, passed), InOrder(t, passed \cup All(s))
  PROVE  /\ InOrder(s \o t, passed)
         /\ All(s \o t) = All(s) \cup All(t)
<1> DEFINE m == Len(s)
           n == Len(t)
           u == s \o t
<1>1. /\ u \in Seq(AnyGate) /\ m \in Nat /\ n \in Nat /\ Len(u) = m + n
      /\ \A i \in 1..(m + n) : u[i] = IF i <= m THEN s[i] ELSE t[i - m]
  BY ConcatProperties, LenProperties DEF InOrder
<1> HIDE DEF u
<1>2. \A i \in 1..(m + n) : i <= m => Earlier(u, i) = Earlier(s, i)
  BY <1>1 DEF Earlier
<1>3. ASSUME NEW i \in 0..n PROVE Earlier(u, m + i + 1) = Earlier(s, m + 1) \cup Earlier(t, i + 1)
  <2>0. (m + i + 1) - 1 = m + i /\ (i + 1) - 1 = i /\ (m + 1) - 1 = m
    BY <1>1
  <2>4. /\ Earlier(u, m + i + 1) = {u[j] : j \in 1..(m + i)}
        /\ Earlier(s, m + 1) = {s[j] : j \in 1..m}
        /\ Earlier(t, i + 1) = {t[j] : j \in 1..i}
    BY <2>0 DEF Earlier
  <2>1. \A x \in Earlier(u, m + i + 1) : x \in Earlier(s, m + 1) \cup Earlier(t, i + 1)
    <3> SUFFICES ASSUME NEW j \in 1..(m + i)
                 PROVE  u[j] \in Earlier(s, m + 1) \cup Earlier(t, i + 1)
      BY <2>4
    <3>1. CASE j <= m
      BY <1>1, <2>4, <3>1
    <3>2. CASE ~(j <= m)
      <4>1. j - m \in 1..i /\ u[j] = t[j - m]
        BY <1>1, <3>2
      <4> QED BY <2>4, <4>1
    <3> QED BY <3>1, <3>2
  <2>2. \A x \in Earlier(s, m + 1) : x \in Earlier(u, m + i + 1)
    <3> SUFFICES ASSUME NEW j \in 1..m PROVE s[j] \in Earlier(u, m + i + 1)
      BY <2>4
    <3>1. j \in 1..(m + i) /\ u[j] = s[j]
      BY <1>1
    <3> QED BY <1>1, <2>4, <3>1
  <2>3. \A x \in Earlier(t, i + 1) : x \in Earlier(u, m + i + 1)
    <3> SUFFICES ASSUME NEW j \in 1..i PROVE t[j] \in Earlier(u, m + i + 1)
      BY <2>4
    <3> DEFINE k == m + j
    <3>1. k \in 1..(m + i) /\ u[k] = t[j]
      BY <1>1
    <3> HIDE DEF k
    <3> QED BY <2>4, <3>1
  <2> QED BY <2>1, <2>2, <2>3
<1>4. \A i \in 1..(m + n) : InTurn(u[i], passed \cup Earlier(u, i))
  <2> SUFFICES ASSUME NEW i \in 1..(m + n) PROVE InTurn(u[i], passed \cup Earlier(u, i))
    OBVIOUS
  <2>1. CASE i <= m
    <3>1. u[i] = s[i] /\ Earlier(u, i) = Earlier(s, i) /\ i \in 1..m
      BY <1>1, <1>2, <2>1
    <3> QED BY <3>1 DEF InOrder
  <2>2. CASE ~(i <= m)
    <3>1. u[i] = t[i - m] /\ i - m \in 1..n /\ i - m - 1 \in 0..n
      BY <1>1, <2>2
    <3>2. Earlier(u, m + (i - m - 1) + 1) = Earlier(s, m + 1) \cup Earlier(t, i - m - 1 + 1)
      BY <1>3, <3>1
    <3>3. Earlier(u, i) = Earlier(s, m + 1) \cup Earlier(t, i - m)
      <4>1. m + (i - m - 1) + 1 = i /\ i - m - 1 + 1 = i - m
        BY <1>1
      <4> QED BY <3>2, <4>1
    <3>4. InTurn(t[i - m], (passed \cup Earlier(s, m + 1)) \cup Earlier(t, i - m))
      BY <3>1 DEF InOrder, All
    <3>5. (passed \cup Earlier(s, m + 1)) \cup Earlier(t, i - m) = passed \cup Earlier(u, i)
      BY <3>3
    <3> QED BY <3>1, <3>4, <3>5
  <2> QED BY <2>1, <2>2
<1>5. Earlier(u, Len(u) + 1) = Earlier(s, m + 1) \cup Earlier(t, n + 1)
  BY <1>1, <1>3
<1> QED
  BY <1>1, <1>4, <1>5 DEF InOrder, All, u

\* A limiter of peers and a check are never out of turn.
LEMMA PeersAndChecksInTurn ==
  ASSUME NEW what \in Names, NEW passed
  PROVE  InTurn(Gate!Peer(what), passed) /\ InTurn(Gate!Check(what), passed)
BY DEF InTurn, AnyGate, Gate!Peer, Gate!Check, Gate!User

\* The checks that have a name are not either.
LEMMA ChecksAre ==
  ASSUME NEW passed
  PROVE  InTurn(Gate!Body, passed) /\ InTurn(Gate!Upload, passed) /\ InTurn(Gate!Origin, passed)
                                         /\ InTurn(Gate!Bearer, passed)
<1>1. InTurn(Gate!Body, passed)
  BY PeersAndChecksInTurn DEF Gate!Body, Names
<1>2. InTurn(Gate!Upload, passed)
  BY PeersAndChecksInTurn DEF Gate!Upload, Names
<1>3. InTurn(Gate!Origin, passed)
  BY PeersAndChecksInTurn DEF Gate!Origin, Names
<1>4. InTurn(Gate!Bearer, passed)
  BY PeersAndChecksInTurn DEF Gate!Bearer, Names
<1> QED
  BY <1>1, <1>2, <1>3, <1>4

\* The limiter of an account comes after the one of peers with its name.
LEMMA NamedInTurn ==
  ASSUME NEW what \in {"login", "forgot", "reset", "refresh"}, NEW passed,
         Gate!Peer(what) \in passed, Gate!Named(what) \notin passed
  PROVE  InTurn(Gate!Named(what), passed)
<1>0. Gate!Named(what) \in AnyGate /\ Gate!Named(what).by = "name" /\ Gate!Named(what).of = what
  BY DEF Gate!Named, AnyGate, Names
<1>1. PeerOf(Gate!Named(what)) = Gate!Peer(what)
  <2>1. /\ what \notin {"product-read", "product-write", "image-upload"}
        /\ what \notin {"personal-read", "personal-write"}
        /\ what # "catalog-admin"
    OBVIOUS
  <2> QED BY <1>0, <2>1 DEF PeerOf
<1> QED
  BY <1>0, <1>1 DEF InTurn

\* The limiter of a user comes after the sign-in and the one of peers beside it.
LEMMA UserInTurn ==
  ASSUME NEW u \in Names, NEW passed, u # "logout-all" => PeerOf(Gate!User(u)) \in passed,
         Gate!Bearer \in passed, Gate!User(u) \notin passed
  PROVE  InTurn(Gate!User(u), passed)
<1>1. Gate!User(u) \in AnyGate /\ Gate!User(u).by = "user"
                                     /\ (Gate!User(u) # Gate!User("logout-all") => u # "logout-all")
  BY DEF Gate!User, AnyGate
<1> QED
  BY <1>1 DEF InTurn


\* Limiters of peers and checks may stand anywhere.
Free == {g \in AnyGate : g.by \in {"peer", "check"}}

\* They are gates of these kinds.
LEMMA FreeGates ==
  ASSUME NEW what \in Names PROVE Gate!Peer(what) \in Free /\ Gate!Check(what) \in Free
BY DEF Free, AnyGate, Gate!Peer, Gate!Check

\* So are the checks that have a name.
LEMMA ChecksAreFree == {Gate!Body, Gate!Upload, Gate!Origin, Gate!Bearer} \subseteq Free
<1>1. Gate!Body \in Free
  BY FreeGates DEF Gate!Body, Names
<1>2. Gate!Upload \in Free
  BY FreeGates DEF Gate!Upload, Names
<1>3. Gate!Origin \in Free
  BY FreeGates DEF Gate!Origin, Names
<1>4. Gate!Bearer \in Free
  BY FreeGates DEF Gate!Bearer, Names
<1> QED
  BY <1>1, <1>2, <1>3, <1>4

\* A part made of them is in order wherever it stands.
LEMMA FreeInOrder ==
  ASSUME NEW s \in Seq(Free), NEW passed
  PROVE  InOrder(s, passed) /\ All(s) \subseteq Free
<1>1. ASSUME NEW i \in 1..Len(s) PROVE s[i] \in Free /\ InTurn(s[i], passed \cup Earlier(s, i))
  <2>1. s[i] \in Free
    OBVIOUS
  <2> QED
    BY <2>1 DEF Free, InTurn, Gate!User
<1>2. s \in Seq(AnyGate)
  BY DEF Free
<1>3. All(s) \subseteq Free
  BY <1>1 DEF All, Earlier
<1> QED
  BY <1>1, <1>2, <1>3 DEF InOrder

\* enforce_authenticated_limit after other gates.
LEMMA ThenSignedIn ==
  ASSUME NEW s \in Seq(Free), NEW p \in Names, NEW u \in Names,
         PeerOf(Gate!User(u)) = Gate!Peer(p)
  PROVE  /\ InOrder(s \o Gate!SignedIn(p, u), {})
         /\ All(s \o Gate!SignedIn(p, u)) = All(s) \cup {Gate!Bearer, Gate!Peer(p), Gate!User(u)}
         /\ All(s) \subseteq Free
<1>1. Gate!User(u) \notin All(s) \cup {Gate!Bearer, Gate!Peer(p)} /\ InOrder(s, {})
  BY FreeInOrder DEF Gate!User, Gate!Bearer, Gate!Check, Gate!Peer, Free
<1>2. InTurn(Gate!User(u), All(s) \cup {Gate!Bearer, Gate!Peer(p)})
  BY <1>1, UserInTurn
<1>3. InTurn(Gate!Bearer, All(s)) /\ InTurn(Gate!Peer(p), All(s) \cup {Gate!Bearer})
  BY ChecksAre, PeersAndChecksInTurn
<1>4. InOrder(<<Gate!Bearer, Gate!Peer(p), Gate!User(u)>>, All(s))
  BY <1>2, <1>3, ThreeGates
<1>5. All(<<Gate!Bearer, Gate!Peer(p), Gate!User(u)>>) = {Gate!Bearer, Gate!Peer(p), Gate!User(u)}
  BY <1>2, <1>3, ThreeGates
<1>6. {} \cup All(s) = All(s)
  OBVIOUS
<1> DEFINE b == <<Gate!Bearer, Gate!Peer(p), Gate!User(u)>>
<1>7. InOrder(b, {} \cup All(s))
  BY <1>4, <1>6
<1>8. InOrder(s \o b, {}) /\ All(s \o b) = All(s) \cup All(b)
  <2> HIDE DEF b
  <2> QED BY <1>1, <1>7, PartsInARow
<1> QED
  BY <1>5, <1>8, FreeInOrder DEF Gate!SignedIn

-----------------------------------------------------------------------------
(* The routes.                                                                *)

\* The routes on which only a peer pays.
LEMMA AccountRoutes ==
  /\ InOrder(Gate!Register, {}) /\ InOrder(Gate!VerifyPhone, {}) /\ InOrder(Gate!Logout, {})
  /\ InOrder(Gate!PublicProfile, {})
<1>1. InOrder(Gate!Register, {})
  <2>1. <<Gate!Body, Gate!Peer("registration")>> \in Seq(Free)
    BY FreeGates, ChecksAreFree DEF Names
  <2> QED BY <2>1, FreeInOrder DEF Gate!Register
<1>2. InOrder(Gate!VerifyPhone, {})
  <2>1. <<Gate!Body, Gate!Peer("phone")>> \in Seq(Free)
    BY FreeGates, ChecksAreFree DEF Names
  <2> QED BY <2>1, FreeInOrder DEF Gate!VerifyPhone
<1>3. InOrder(Gate!Logout, {})
  <2>1. <<Gate!Origin, Gate!Peer("logout")>> \in Seq(Free)
    BY FreeGates, ChecksAreFree DEF Names
  <2> QED BY <2>1, FreeInOrder DEF Gate!Logout
<1>4. InOrder(Gate!PublicProfile, {})
  <2>1. <<Gate!Peer("public-profile")>> \in Seq(Free)
    BY FreeGates, ChecksAreFree DEF Names
  <2> QED BY <2>1, FreeInOrder DEF Gate!PublicProfile
<1> QED
  BY <1>1, <1>2, <1>3, <1>4

\* The limiter of the account that a request names comes after that of its peer.
LEMMA NamedRoutes ==
  InOrder(Gate!Login, {}) /\ InOrder(Gate!ForgotPassword, {}) /\ InOrder(Gate!ResetPassword, {})
                                /\ InOrder(Gate!Refresh, {})
<1>1. InOrder(Gate!Login, {})
  <2>1. InTurn(Gate!Body, {})
    BY ChecksAre
  <2>2. InTurn(Gate!Peer("login"), {} \cup {Gate!Body})
    BY PeersAndChecksInTurn DEF Names
  <2>3. InTurn(Gate!Named("login"), {} \cup {Gate!Body, Gate!Peer("login")})
    <3>1. /\ Gate!Named("login") \notin {} \cup {Gate!Body, Gate!Peer("login")}
          /\ Gate!Peer("login") \in {} \cup {Gate!Body, Gate!Peer("login")}
      BY DEF Gate!Named, Gate!Peer, Gate!Body, Gate!Origin, Gate!Check
    <3> QED BY <3>1, NamedInTurn
  <2>4. InTurn(Gate!Origin, {} \cup {Gate!Body, Gate!Peer("login"), Gate!Named("login")})
    BY ChecksAre
  <2> QED BY <2>1, <2>2, <2>3, <2>4, FourGates DEF Gate!Login
<1>2. InOrder(Gate!ForgotPassword, {})
  <2>1. InTurn(Gate!Body, {})
    BY ChecksAre
  <2>2. InTurn(Gate!Origin, {} \cup {Gate!Body})
    BY ChecksAre
  <2>3. InTurn(Gate!Peer("forgot"), {} \cup {Gate!Body, Gate!Origin})
    BY PeersAndChecksInTurn DEF Names
  <2>4. InTurn(Gate!Named("forgot"), {} \cup {Gate!Body, Gate!Origin, Gate!Peer("forgot")})
    <3>1. /\ Gate!Named("forgot") \notin {} \cup {Gate!Body, Gate!Origin, Gate!Peer("forgot")}
          /\ Gate!Peer("forgot") \in {} \cup {Gate!Body, Gate!Origin, Gate!Peer("forgot")}
      BY DEF Gate!Named, Gate!Peer, Gate!Body, Gate!Origin, Gate!Check
    <3> QED BY <3>1, NamedInTurn
  <2> QED BY <2>1, <2>2, <2>3, <2>4, FourGates DEF Gate!ForgotPassword
<1>3. InOrder(Gate!ResetPassword, {})
  <2>1. InTurn(Gate!Body, {})
    BY ChecksAre
  <2>2. InTurn(Gate!Origin, {} \cup {Gate!Body})
    BY ChecksAre
  <2>3. InTurn(Gate!Peer("reset"), {} \cup {Gate!Body, Gate!Origin})
    BY PeersAndChecksInTurn DEF Names
  <2>4. InTurn(Gate!Named("reset"), {} \cup {Gate!Body, Gate!Origin, Gate!Peer("reset")})
    <3>1. /\ Gate!Named("reset") \notin {} \cup {Gate!Body, Gate!Origin, Gate!Peer("reset")}
          /\ Gate!Peer("reset") \in {} \cup {Gate!Body, Gate!Origin, Gate!Peer("reset")}
      BY DEF Gate!Named, Gate!Peer, Gate!Body, Gate!Origin, Gate!Check
    <3> QED BY <3>1, NamedInTurn
  <2> QED BY <2>1, <2>2, <2>3, <2>4, FourGates DEF Gate!ResetPassword
<1>4. InOrder(Gate!Refresh, {})
  <2>1. InTurn(Gate!Origin, {})
    BY ChecksAre
  <2>2. InTurn(Gate!Peer("refresh"), {} \cup {Gate!Origin})
    BY PeersAndChecksInTurn DEF Names
  <2>3. InTurn(Gate!Named("refresh"), {} \cup {Gate!Origin, Gate!Peer("refresh")})
    <3>1. /\ Gate!Named("refresh") \notin {} \cup {Gate!Origin, Gate!Peer("refresh")}
          /\ Gate!Peer("refresh") \in {} \cup {Gate!Origin, Gate!Peer("refresh")}
      BY DEF Gate!Named, Gate!Peer, Gate!Body, Gate!Origin, Gate!Check
    <3> QED BY <3>1, NamedInTurn
  <2> QED BY <2>1, <2>2, <2>3, ThreeGates DEF Gate!Refresh
<1> QED
  BY <1>1, <1>2, <1>3, <1>4

\* Logging out everywhere has a limiter of users alone.
LEMMA LogoutAllRoute == InOrder(Gate!LogoutAll, {})
<1>1. InTurn(Gate!Origin, {}) /\ InTurn(Gate!Bearer, {} \cup {Gate!Origin})
  BY ChecksAre
<1>2. Gate!User("logout-all") \notin {} \cup {Gate!Origin, Gate!Bearer}
  BY DEF Gate!User, Gate!Origin, Gate!Bearer, Gate!Check
<1>3. InTurn(Gate!User("logout-all"), {} \cup {Gate!Origin, Gate!Bearer})
  BY <1>2, UserInTurn DEF Names
<1> QED
  BY <1>1, <1>3, ThreeGates DEF Gate!LogoutAll

\* A route may go on with limiters of peers and checks.
LEMMA ThenFree ==
  ASSUME NEW s, NEW t \in Seq(Free), InOrder(s, {})
  PROVE  InOrder(s \o t, {})
<1>1. InOrder(t, {} \cup All(s))
  BY FreeInOrder
<1> QED
  BY <1>1, PartsInARow


\* The routes of a user's own account.
LEMMA SignedInRoutes ==
  /\ InOrder(Gate!ChangePassword, {})
  /\ InOrder(Gate!ResendEmail, {})
  /\ InOrder(Gate!VerifyEmail, {})
  /\ InOrder(Gate!UpdateProfile, {})
  /\ InOrder(Gate!Onboard, {})
<1>1. InOrder(Gate!ChangePassword, {})
  <2> DEFINE a == <<Gate!Body, Gate!Origin>>
  <2>1. a \in Seq(Free)
    BY FreeGates, ChecksAreFree DEF Names
  <2>2. PeerOf(Gate!User("change")) = Gate!Peer("change")
    BY DEF PeerOf, Gate!User, Gate!Peer
  <2>3. InOrder(a \o Gate!SignedIn("change", "change"), {})
    BY <2>1, <2>2, ThenSignedIn DEF Names
  <2> QED BY <2>3 DEF Gate!ChangePassword
<1>2. InOrder(Gate!ResendEmail, {})
  <2> DEFINE a == <<Gate!Body, Gate!Origin>>
  <2>1. a \in Seq(Free)
    BY FreeGates, ChecksAreFree DEF Names
  <2>2. PeerOf(Gate!User("resend-email")) = Gate!Peer("resend-email")
    BY DEF PeerOf, Gate!User, Gate!Peer
  <2>3. InOrder(a \o Gate!SignedIn("resend-email", "resend-email"), {})
    BY <2>1, <2>2, ThenSignedIn DEF Names
  <2> QED BY <2>3 DEF Gate!ResendEmail
<1>3. InOrder(Gate!VerifyEmail, {})
  <2> DEFINE a == <<Gate!Body, Gate!Origin>>
  <2>1. a \in Seq(Free)
    BY FreeGates, ChecksAreFree DEF Names
  <2>2. PeerOf(Gate!User("verify-email")) = Gate!Peer("verify-email")
    BY DEF PeerOf, Gate!User, Gate!Peer
  <2>3. InOrder(a \o Gate!SignedIn("verify-email", "verify-email"), {})
    BY <2>1, <2>2, ThenSignedIn DEF Names
  <2> QED BY <2>3 DEF Gate!VerifyEmail
<1>4. InOrder(Gate!UpdateProfile, {})
  <2> DEFINE a == <<Gate!Body>>
  <2>1. a \in Seq(Free)
    BY FreeGates, ChecksAreFree DEF Names
  <2>2. PeerOf(Gate!User("profile")) = Gate!Peer("profile")
    BY DEF PeerOf, Gate!User, Gate!Peer
  <2>3. InOrder(a \o Gate!SignedIn("profile", "profile"), {})
    BY <2>1, <2>2, ThenSignedIn DEF Names
  <2> QED BY <2>3 DEF Gate!UpdateProfile
<1>5. InOrder(Gate!Onboard, {})
  <2> DEFINE a == <<Gate!Body>>
  <2>1. a \in Seq(Free)
    BY FreeGates, ChecksAreFree DEF Names
  <2>2. PeerOf(Gate!User("onboarding")) = Gate!Peer("onboarding")
    BY DEF PeerOf, Gate!User, Gate!Peer
  <2>3. InOrder(a \o Gate!SignedIn("onboarding", "onboarding"), {})
    BY <2>1, <2>2, ThenSignedIn DEF Names
  <2> QED BY <2>3 DEF Gate!Onboard
<1> QED
  BY <1>1, <1>2, <1>3, <1>4, <1>5

\* The routes of the catalog and of the listings.
LEMMA CatalogRoutes ==
  /\ InOrder(Gate!CatalogBoundary(FALSE), {})
  /\ InOrder(Gate!CatalogBoundary(TRUE) \o Gate!CatalogAdmin, {})
  /\ InOrder(Gate!ListingBoundary("read"), {})
  /\ InOrder(Gate!ListingBoundary("browse"), {})
  /\ InOrder(Gate!ListingBoundary("read") \o Gate!ListingUser("read"), {})
  /\ InOrder(Gate!ListingBoundary("write") \o Gate!ListingUser("write"), {})
<1>1. InOrder(Gate!CatalogBoundary(FALSE), {})
  <2>1. <<Gate!Peer("catalog")>> \in Seq(Free)
    BY FreeGates, ChecksAreFree DEF Names
  <2> QED BY <2>1, FreeInOrder DEF Gate!CatalogBoundary
<1>2. InOrder(Gate!CatalogBoundary(TRUE) \o Gate!CatalogAdmin, {})
  <2> DEFINE a == <<Gate!Peer("admin-catalog"), Gate!Body>>
  <2>1. a \in Seq(Free)
    BY FreeGates, ChecksAreFree DEF Names
  <2>2. PeerOf(Gate!User("catalog-admin")) = Gate!Peer("catalog-admins")
    BY DEF PeerOf, Gate!User, Gate!Peer
  <2>3. InOrder(a \o Gate!SignedIn("catalog-admins", "catalog-admin"), {})
    BY <2>1, <2>2, ThenSignedIn DEF Names
  <2> QED BY <2>3 DEF Gate!CatalogBoundary, Gate!CatalogAdmin
<1>3. InOrder(Gate!ListingBoundary("read"), {})
  <2>1. <<Gate!Peer("listings")>> \in Seq(Free)
    BY FreeGates, ChecksAreFree DEF Names
  <2> QED BY <2>1, FreeInOrder DEF Gate!ListingBoundary
<1>4. InOrder(Gate!ListingBoundary("browse"), {})
  <2>1. <<Gate!Peer("listings"), Gate!Peer("browse")>> \in Seq(Free)
    BY FreeGates, ChecksAreFree DEF Names
  <2> QED BY <2>1, FreeInOrder DEF Gate!ListingBoundary
<1>5. InOrder(Gate!ListingBoundary("read") \o Gate!ListingUser("read"), {})
  <2> DEFINE a == <<Gate!Peer("listings")>>
  <2>1. a \in Seq(Free)
    BY FreeGates, ChecksAreFree DEF Names
  <2>2. PeerOf(Gate!User("product-read")) = Gate!Peer("products")
    BY DEF PeerOf, Gate!User, Gate!Peer
  <2>3. InOrder(a \o Gate!SignedIn("products", "product-read"), {})
    BY <2>1, <2>2, ThenSignedIn DEF Names
  <2> QED BY <2>3 DEF Gate!ListingBoundary, Gate!ListingUser
<1>6. InOrder(Gate!ListingBoundary("write") \o Gate!ListingUser("write"), {})
  <2> DEFINE a == <<Gate!Peer("listing-writes"), Gate!Body>>
  <2>1. a \in Seq(Free)
    BY FreeGates, ChecksAreFree DEF Names
  <2>2. PeerOf(Gate!User("product-write")) = Gate!Peer("products")
    BY DEF PeerOf, Gate!User, Gate!Peer
  <2>3. InOrder(a \o Gate!SignedIn("products", "product-write"), {})
    BY <2>1, <2>2, ThenSignedIn DEF Names
  <2> QED BY <2>3 DEF Gate!ListingBoundary, Gate!ListingUser
<1> QED
  BY <1>1, <1>2, <1>3, <1>4, <1>5, <1>6

\* A signed-in user may have more to fulfil.
LEMMA ThenSignedInAndFree ==
  ASSUME NEW a \in Seq(Free), NEW c \in Seq(Free), NEW p \in Names, NEW u \in Names,
         PeerOf(Gate!User(u)) = Gate!Peer(p)
  PROVE  InOrder(a \o Gate!SignedIn(p, u) \o c, {}) /\ InOrder(a \o (Gate!SignedIn(p, u) \o c), {})
<1>1. InOrder(a \o Gate!SignedIn(p, u) \o c, {})
  BY ThenSignedIn, ThenFree
<1> DEFINE G == Free \cup {Gate!User(u)}
<1>2. a \in Seq(G) /\ Gate!SignedIn(p, u) \in Seq(G) /\ c \in Seq(G)
  BY FreeGates, ChecksAreFree DEF Gate!SignedIn
<1> HIDE DEF G
<1>3. (a \o Gate!SignedIn(p, u)) \o c = a \o (Gate!SignedIn(p, u) \o c)
  BY <1>2, ConcatAssociative
<1> QED
  BY <1>1, <1>3

\* The routes of the private lists.
LEMMA ListRoutes ==
  /\ InOrder(Gate!PersonalBoundary("read") \o Gate!PersonalUser("read"), {})
  /\ InOrder(Gate!PersonalBoundary("write") \o Gate!PersonalUser("write"), {})
<1>1. InOrder(Gate!PersonalBoundary("read") \o Gate!PersonalUser("read"), {})
  <2> DEFINE a == <<Gate!Peer("lists"), Gate!Body>>
             c == <<Gate!Check("parameters")>>
  <2>1. a \in Seq(Free) /\ c \in Seq(Free)
    BY FreeGates, ChecksAreFree DEF Names
  <2>2. PeerOf(Gate!User("personal-read")) = Gate!Peer("personal")
    BY DEF PeerOf, Gate!User, Gate!Peer
  <2>3. "personal" \in Names /\ "personal-read" \in Names
    BY DEF Names
  <2>4. InOrder(a \o (Gate!SignedIn("personal", "personal-read") \o c), {})
    <3> HIDE DEF a, c
    <3> QED BY <2>1, <2>2, <2>3, ThenSignedInAndFree
  <2> QED BY <2>4 DEF Gate!PersonalBoundary, Gate!PersonalUser
<1>2. InOrder(Gate!PersonalBoundary("write") \o Gate!PersonalUser("write"), {})
  <2> DEFINE a == <<Gate!Peer("list-writes"), Gate!Body>>
             c == <<Gate!Check("parameters")>>
  <2>1. a \in Seq(Free) /\ c \in Seq(Free)
    BY FreeGates, ChecksAreFree DEF Names
  <2>2. PeerOf(Gate!User("personal-write")) = Gate!Peer("personal")
    BY DEF PeerOf, Gate!User, Gate!Peer
  <2>3. "personal" \in Names /\ "personal-write" \in Names
    BY DEF Names
  <2>4. InOrder(a \o (Gate!SignedIn("personal", "personal-write") \o c), {})
    <3> HIDE DEF a, c
    <3> QED BY <2>1, <2>2, <2>3, ThenSignedInAndFree
  <2> QED BY <2>4 DEF Gate!PersonalBoundary, Gate!PersonalUser
<1> QED
  BY <1>1, <1>2

\* The routes of verification without an upload.
LEMMA SellerRoutes ==
  /\ InOrder(Gate!SellerBoundary("read") \o Gate!SellerUser("seller-read"), {})
  /\ InOrder(Gate!SellerBoundary("submission") \o Gate!SellerUser("seller-submission"), {})
  /\ InOrder(Gate!SellerBoundary("admin") \o Gate!SellerUser("seller-admin") \o <<Gate!Check("role")>>, {})
<1>1. InOrder(Gate!SellerBoundary("read") \o Gate!SellerUser("seller-read"), {})
  <2> DEFINE a == <<Gate!Peer("seller-reads"), Gate!Body>>
  <2>1. a \in Seq(Free)
    BY FreeGates, ChecksAreFree DEF Names
  <2>2. PeerOf(Gate!User("seller-read")) = Gate!Peer("seller-read")
    BY DEF PeerOf, Gate!User, Gate!Peer
  <2>3. InOrder(a \o Gate!SignedIn("seller-read", "seller-read"), {})
    BY <2>1, <2>2, ThenSignedIn DEF Names
  <2> QED BY <2>3 DEF Gate!SellerBoundary, Gate!SellerUser
<1>2. InOrder(Gate!SellerBoundary("submission") \o Gate!SellerUser("seller-submission"), {})
  <2> DEFINE a == <<Gate!Peer("submission"), Gate!Body>>
  <2>1. a \in Seq(Free)
    BY FreeGates, ChecksAreFree DEF Names
  <2>2. PeerOf(Gate!User("seller-submission")) = Gate!Peer("seller-submission")
    BY DEF PeerOf, Gate!User, Gate!Peer
  <2>3. InOrder(a \o Gate!SignedIn("seller-submission", "seller-submission"), {})
    BY <2>1, <2>2, ThenSignedIn DEF Names
  <2> QED BY <2>3 DEF Gate!SellerBoundary, Gate!SellerUser
<1>3. InOrder(Gate!SellerBoundary("admin") \o Gate!SellerUser("seller-admin") \o <<Gate!Check("role")>>, {})
  <2> DEFINE a == <<Gate!Peer("seller-admins"), Gate!Body>>
             c == <<Gate!Check("role")>>
  <2>1. a \in Seq(Free)
    BY FreeGates, ChecksAreFree DEF Names
  <2>2. PeerOf(Gate!User("seller-admin")) = Gate!Peer("seller-admin")
    BY DEF PeerOf, Gate!User, Gate!Peer
  <2>3. c \in Seq(Free) /\ "seller-admin" \in Names
    BY FreeGates DEF Names
  <2>4. InOrder(a \o Gate!SignedIn("seller-admin", "seller-admin") \o c, {})
    <3> HIDE DEF a, c
    <3> QED BY <2>1, <2>2, <2>3, ThenSignedInAndFree
  <2> QED BY <2>4 DEF Gate!SellerBoundary, Gate!SellerUser
<1> QED
  BY <1>1, <1>2, <1>3

\* The routes of pictures without an upload.
LEMMA ImageRoutes ==
  /\ InOrder(Gate!ImageBoundary("read"), {})
  /\ InOrder(Gate!ImageBoundary("read") \o Gate!ListingUser("read"), {})
  /\ InOrder(Gate!ImageBoundary("write") \o Gate!ListingUser("write"), {})
<1>1. InOrder(Gate!ImageBoundary("read"), {})
  <2>1. <<Gate!Peer("image-reads")>> \in Seq(Free)
    BY FreeGates, ChecksAreFree DEF Names
  <2> QED BY <2>1, FreeInOrder DEF Gate!ImageBoundary
<1>2. InOrder(Gate!ImageBoundary("read") \o Gate!ListingUser("read"), {})
  <2> DEFINE a == <<Gate!Peer("image-reads")>>
  <2>1. a \in Seq(Free)
    BY FreeGates, ChecksAreFree DEF Names
  <2>2. PeerOf(Gate!User("product-read")) = Gate!Peer("products")
    BY DEF PeerOf, Gate!User, Gate!Peer
  <2>3. InOrder(a \o Gate!SignedIn("products", "product-read"), {})
    BY <2>1, <2>2, ThenSignedIn DEF Names
  <2> QED BY <2>3 DEF Gate!ImageBoundary, Gate!ListingUser
<1>3. InOrder(Gate!ImageBoundary("write") \o Gate!ListingUser("write"), {})
  <2> DEFINE a == <<Gate!Peer("image-writes"), Gate!Body>>
  <2>1. a \in Seq(Free)
    BY FreeGates, ChecksAreFree DEF Names
  <2>2. PeerOf(Gate!User("product-write")) = Gate!Peer("products")
    BY DEF PeerOf, Gate!User, Gate!Peer
  <2>3. InOrder(a \o Gate!SignedIn("products", "product-write"), {})
    BY <2>1, <2>2, ThenSignedIn DEF Names
  <2> QED BY <2>3 DEF Gate!ImageBoundary, Gate!ListingUser
<1> QED
  BY <1>1, <1>2, <1>3

\* An upload of evidence has its slot before the user is known.
LEMMA EvidenceRoute == InOrder(Gate!SellerBoundary("upload") \o Gate!SellerUser("seller-upload"), {})
<1> DEFINE s == <<Gate!Peer("evidence"), Gate!Check("headers"), Gate!Take("evidence"), Gate!Body>>
           b == <<Gate!Bearer, Gate!Peer("seller-upload"), Gate!User("seller-upload")>>
           before == {Gate!Peer("evidence"), Gate!Check("headers"), Gate!Take("evidence"), Gate!Body}
<1>1. /\ InTurn(Gate!Peer("evidence"), {})
      /\ InTurn(Gate!Check("headers"), {} \cup {Gate!Peer("evidence")})
      /\ InTurn(Gate!Body, {} \cup {Gate!Peer("evidence"), Gate!Check("headers"), Gate!Take("evidence")})
  BY PeersAndChecksInTurn, ChecksAre DEF Names
<1>2. InTurn(Gate!Take("evidence"), {} \cup {Gate!Peer("evidence"), Gate!Check("headers")})
  <2>1. /\ Gate!Take("evidence") \in AnyGate /\ Gate!Take("evidence").by = "take"
        /\ Gate!Take("evidence").of = "evidence"
    BY DEF Gate!Take, AnyGate, Names
  <2>2. Gate!Take("evidence") \notin {Gate!Peer("evidence"), Gate!Check("headers")}
    BY DEF Gate!Take, Gate!Peer, Gate!Check
  <2>3. Gate!Return("evidence") \notin {Gate!Peer("evidence"), Gate!Check("headers")}
    BY DEF Gate!Return, Gate!Peer, Gate!Check
  <2>4. "evidence" \in Gate!Pools
    BY DEF Gate!Pools, Gate!Size
  <2> QED BY <2>1, <2>2, <2>3, <2>4 DEF InTurn
<1>3. InOrder(s, {}) /\ All(s) = before
  BY <1>1, <1>2, FourGates
<1>4. PeerOf(Gate!User("seller-upload")) = Gate!Peer("seller-upload")
  BY DEF PeerOf, Gate!User, Gate!Peer
<1>5. Gate!User("seller-upload") \notin before \cup {Gate!Bearer, Gate!Peer("seller-upload")}
  BY DEF Gate!User, Gate!Bearer, Gate!Peer, Gate!Check, Gate!Take, Gate!Body
<1>6. InTurn(Gate!User("seller-upload"), before \cup {Gate!Bearer, Gate!Peer("seller-upload")})
  BY <1>4, <1>5, UserInTurn DEF Names
<1>7. InTurn(Gate!Bearer, before) /\ InTurn(Gate!Peer("seller-upload"), before \cup {Gate!Bearer})
  BY ChecksAre, PeersAndChecksInTurn DEF Names
<1>8. InOrder(b, before)
  BY <1>6, <1>7, ThreeGates
<1>9. {} \cup before = before
  OBVIOUS
<1>10. InOrder(s \o b, {})
  <2> HIDE DEF s, b, before
  <2> QED BY <1>3, <1>8, <1>9, PartsInARow
<1> QED
  BY <1>10 DEF Gate!SellerBoundary, Gate!SellerUser, Gate!SignedIn

\* An upload of a picture pays twice as a peer and once as a user, and has a slot
\* of uploads when it takes one of the decoders.
LEMMA PictureRoute ==
  InOrder(Gate!ImageBoundary("upload") \o Gate!ListingUser("write") \o Gate!ImageUploadUser
            \o Gate!ImageFile \o Gate!Sanitize, {})
<1> DEFINE s1 == <<Gate!Peer("image-uploads"), Gate!Check("headers")>>
           a1 == All(s1) \cup {Gate!Bearer, Gate!Peer("products"), Gate!User("product-write")}
           s2 == s1 \o Gate!SignedIn("products", "product-write")
           a3 == a1 \cup {Gate!Peer("products"), Gate!User("image-upload")}
           s3 == s2 \o Gate!ImageUploadUser
           a4 == a3 \cup {Gate!Check("preflight"), Gate!Take("images"), Gate!Upload, Gate!Check("form")}
           s4 == s3 \o Gate!ImageFile
<1>1. s1 \in Seq(Free)
  BY FreeGates, ChecksAreFree DEF Names
<1>2. /\ PeerOf(Gate!User("product-write")) = Gate!Peer("products")
      /\ PeerOf(Gate!User("image-upload")) = Gate!Peer("products")
  BY DEF PeerOf, Gate!User, Gate!Peer
<1>3. InOrder(s2, {}) /\ All(s2) = a1 /\ All(s1) \subseteq Free
  <2>1. "products" \in Names /\ "product-write" \in Names
    BY DEF Names
  <2> HIDE DEF s1
  <2> QED BY <1>1, <1>2, <2>1, ThenSignedIn
<1> HIDE DEF s1
<1>4. InOrder(s3, {}) /\ All(s3) = a3
  <2>1. Gate!User("image-upload") \notin a1 \cup {Gate!Peer("products")}
    BY <1>3 DEF Gate!User, Gate!Bearer, Gate!Peer, Gate!Check, Free
  <2>2. InTurn(Gate!User("image-upload"), a1 \cup {Gate!Peer("products")})
    BY <1>2, <2>1, UserInTurn DEF Names
  <2>3. InTurn(Gate!Peer("products"), a1)
    BY PeersAndChecksInTurn DEF Names
  <2>4. /\ InOrder(Gate!ImageUploadUser, a1)
        /\ All(Gate!ImageUploadUser) = {Gate!Peer("products"), Gate!User("image-upload")}
    BY <2>2, <2>3, TwoGates DEF Gate!ImageUploadUser
  <2>5. {} \cup a1 = a1
    OBVIOUS
  <2> HIDE DEF a1, s2
  <2>6. InOrder(Gate!ImageUploadUser, {} \cup All(s2))
    BY <1>3, <2>4, <2>5
  <2>7. /\ InOrder(s2 \o Gate!ImageUploadUser, {})
        /\ All(s2 \o Gate!ImageUploadUser) = All(s2) \cup All(Gate!ImageUploadUser)
    BY <1>3, <2>6, PartsInARow
  <2> QED BY <1>3, <2>4, <2>7
<1>5. InOrder(s4, {}) /\ All(s4) = a4
  <2>1. InTurn(Gate!Take("images"), a3 \cup {Gate!Check("preflight")})
    <3>1. Gate!Take("images") \in AnyGate /\ Gate!Take("images").by = "take"
                                                /\ Gate!Take("images").of = "images"
      BY DEF Gate!Take, AnyGate, Names
    <3>2. Gate!Take("images") \notin a3 \cup {Gate!Check("preflight")}
      BY <1>3 DEF Gate!Take, Gate!Peer, Gate!User, Gate!Check, Gate!Bearer, Free
    <3>3. Gate!Return("images") \notin a3 \cup {Gate!Check("preflight")}
      BY <1>3 DEF Gate!Return, Gate!Peer, Gate!User, Gate!Check, Gate!Bearer, Free
    <3>4. "images" \in Gate!Pools
      BY DEF Gate!Pools, Gate!Size
    <3> QED BY <3>1, <3>2, <3>3, <3>4 DEF InTurn
  <2>2. InTurn(Gate!Check("preflight"), a3)
    BY PeersAndChecksInTurn DEF Names
  <2>3. InTurn(Gate!Upload, a3 \cup {Gate!Check("preflight"), Gate!Take("images")})
    BY ChecksAre
  <2>4. InTurn(Gate!Check("form"), a3 \cup {Gate!Check("preflight"), Gate!Take("images"), Gate!Upload})
    BY PeersAndChecksInTurn DEF Names
  <2>5. /\ InOrder(Gate!ImageFile, a3)
        /\ All(Gate!ImageFile) = {Gate!Check("preflight"), Gate!Take("images"), Gate!Upload, Gate!Check("form")}
    <3> HIDE DEF a3
    <3> QED BY <2>1, <2>2, <2>3, <2>4, FourGates DEF Gate!ImageFile
  <2>6. {} \cup a3 = a3
    OBVIOUS
  <2> HIDE DEF a3, s3
  <2>7. InOrder(Gate!ImageFile, {} \cup All(s3))
    BY <1>4, <2>5, <2>6
  <2>8. InOrder(s3 \o Gate!ImageFile, {}) /\ All(s3 \o Gate!ImageFile) = All(s3) \cup All(Gate!ImageFile)
    BY <1>4, <2>7, PartsInARow
  <2> QED BY <1>4, <2>5, <2>8
<1>6. InOrder(s4 \o Gate!Sanitize, {})
  <2>1. InTurn(Gate!Take("decoder"), a4)
    <3>1. Gate!Take("decoder") \in AnyGate /\ Gate!Take("decoder").by = "take"
                                                 /\ Gate!Take("decoder").of = "decoder"
      BY DEF Gate!Take, AnyGate, Names
    <3>2. Gate!Take("decoder") \notin a4
      BY <1>3 DEF Gate!Take, Gate!Peer, Gate!User, Gate!Check, Gate!Bearer, Gate!Upload, Free
    <3>3. Gate!Return("decoder") \notin a4
      BY <1>3
         DEF Gate!Return, Gate!Peer, Gate!User, Gate!Check, Gate!Bearer, Gate!Upload, Free,
         Gate!Take
    <3>4. "decoder" \in Gate!Pools
      BY DEF Gate!Pools, Gate!Size
    <3> QED BY <3>1, <3>2, <3>3, <3>4 DEF InTurn
  <2>2. InTurn(Gate!Check("image"), a4 \cup {Gate!Take("decoder")})
    BY PeersAndChecksInTurn DEF Names
  <2>3. InTurn(Gate!Return("decoder"), a4 \cup {Gate!Take("decoder"), Gate!Check("image")})
    <3>1. Gate!Return("decoder") \in AnyGate /\ Gate!Return("decoder").by = "return"
      BY DEF Gate!Return, AnyGate, Names
    <3>2. Gate!Return("decoder") \notin a4 \cup {Gate!Take("decoder"), Gate!Check("image")}
      BY <1>3
         DEF Gate!Return, Gate!Peer, Gate!User, Gate!Check, Gate!Bearer, Gate!Upload, Free,
         Gate!Take
    <3> QED BY <3>1, <3>2 DEF InTurn
  <2>4. InOrder(Gate!Sanitize, a4)
    <3> HIDE DEF a4
    <3> QED BY <2>1, <2>2, <2>3, ThreeGates DEF Gate!Sanitize
  <2>5. {} \cup a4 = a4
    OBVIOUS
  <2> HIDE DEF a4, s4
  <2>6. InOrder(Gate!Sanitize, {} \cup All(s4))
    BY <1>5, <2>4, <2>5
  <2> QED BY <1>5, <2>6, PartsInARow
<1> QED
  BY <1>6 DEF Gate!ImageBoundary, Gate!ListingUser, s1

\* Every route has its gates in order.
LEMMA RoutesAreInOrder ==
  ASSUME NEW route \in Gate!Routes PROVE InOrder(Gate!Gates[route], {})
<1>1. \/ route = "register" \/ route = "verify_phone" \/ route = "login"
      \/ route = "forgot" \/ route = "reset" \/ route = "change"
      \/ route = "refresh" \/ route = "logout" \/ route = "logout_all"
      \/ route = "resend_email" \/ route = "verify_email" \/ route = "update_profile"
      \/ route = "onboard" \/ route = "public_profile" \/ route = "catalog"
      \/ route = "admin_catalog" \/ route = "public_listing" \/ route = "browse"
      \/ route = "own_listing" \/ route = "write_listing" \/ route = "read_list"
      \/ route = "write_list" \/ route = "seller_read" \/ route = "submission"
      \/ route = "review" \/ route = "upload_evidence" \/ route = "public_image"
      \/ route = "own_image" \/ route = "write_image" \/ route = "upload_image"
  BY DEF Gate!Routes, Gate!Gates
<1>2. CASE route = "register"
  <2>1. Gate!Gates["register"] = Gate!Register
    BY DEF Gate!Gates
  <2> QED
    BY <1>2, <2>1, AccountRoutes
<1>3. CASE route = "verify_phone"
  <2>1. Gate!Gates["verify_phone"] = Gate!VerifyPhone
    BY DEF Gate!Gates
  <2> QED
    BY <1>3, <2>1, AccountRoutes
<1>4. CASE route = "login"
  <2>1. Gate!Gates["login"] = Gate!Login
    BY DEF Gate!Gates
  <2> QED
    BY <1>4, <2>1, NamedRoutes
<1>5. CASE route = "forgot"
  <2>1. Gate!Gates["forgot"] = Gate!ForgotPassword
    BY DEF Gate!Gates
  <2> QED
    BY <1>5, <2>1, NamedRoutes
<1>6. CASE route = "reset"
  <2>1. Gate!Gates["reset"] = Gate!ResetPassword
    BY DEF Gate!Gates
  <2> QED
    BY <1>6, <2>1, NamedRoutes
<1>7. CASE route = "change"
  <2>1. Gate!Gates["change"] = Gate!ChangePassword
    BY DEF Gate!Gates
  <2> QED
    BY <1>7, <2>1, SignedInRoutes
<1>8. CASE route = "refresh"
  <2>1. Gate!Gates["refresh"] = Gate!Refresh
    BY DEF Gate!Gates
  <2> QED
    BY <1>8, <2>1, NamedRoutes
<1>9. CASE route = "logout"
  <2>1. Gate!Gates["logout"] = Gate!Logout
    BY DEF Gate!Gates
  <2> QED
    BY <1>9, <2>1, AccountRoutes
<1>10. CASE route = "logout_all"
  <2>1. Gate!Gates["logout_all"] = Gate!LogoutAll
    BY DEF Gate!Gates
  <2> QED
    BY <1>10, <2>1, LogoutAllRoute
<1>11. CASE route = "resend_email"
  <2>1. Gate!Gates["resend_email"] = Gate!ResendEmail
    BY DEF Gate!Gates
  <2> QED
    BY <1>11, <2>1, SignedInRoutes
<1>12. CASE route = "verify_email"
  <2>1. Gate!Gates["verify_email"] = Gate!VerifyEmail
    BY DEF Gate!Gates
  <2> QED
    BY <1>12, <2>1, SignedInRoutes
<1>13. CASE route = "update_profile"
  <2>1. Gate!Gates["update_profile"] = Gate!UpdateProfile
    BY DEF Gate!Gates
  <2> QED
    BY <1>13, <2>1, SignedInRoutes
<1>14. CASE route = "onboard"
  <2>1. Gate!Gates["onboard"] = Gate!Onboard
    BY DEF Gate!Gates
  <2> QED
    BY <1>14, <2>1, SignedInRoutes
<1>15. CASE route = "public_profile"
  <2>1. Gate!Gates["public_profile"] = Gate!PublicProfile
    BY DEF Gate!Gates
  <2> QED
    BY <1>15, <2>1, AccountRoutes
<1>16. CASE route = "catalog"
  <2>1. Gate!Gates["catalog"] = Gate!CatalogBoundary(FALSE)
    BY DEF Gate!Gates
  <2> QED
    BY <1>16, <2>1, CatalogRoutes
<1>17. CASE route = "admin_catalog"
  <2>1. Gate!Gates["admin_catalog"] = Gate!CatalogBoundary(TRUE) \o Gate!CatalogAdmin
    BY DEF Gate!Gates
  <2> QED
    BY <1>17, <2>1, CatalogRoutes
<1>18. CASE route = "public_listing"
  <2>1. Gate!Gates["public_listing"] = Gate!ListingBoundary("read")
    BY DEF Gate!Gates
  <2> QED
    BY <1>18, <2>1, CatalogRoutes
<1>19. CASE route = "browse"
  <2>1. Gate!Gates["browse"] = Gate!ListingBoundary("browse")
    BY DEF Gate!Gates
  <2> QED
    BY <1>19, <2>1, CatalogRoutes
<1>20. CASE route = "own_listing"
  <2>1. Gate!Gates["own_listing"] = Gate!ListingBoundary("read") \o Gate!ListingUser("read")
    BY DEF Gate!Gates
  <2> QED
    BY <1>20, <2>1, CatalogRoutes
<1>21. CASE route = "write_listing"
  <2>1. Gate!Gates["write_listing"] = Gate!ListingBoundary("write") \o Gate!ListingUser("write")
    BY DEF Gate!Gates
  <2> QED
    BY <1>21, <2>1, CatalogRoutes
<1>22. CASE route = "read_list"
  <2>1. Gate!Gates["read_list"] = Gate!PersonalBoundary("read") \o Gate!PersonalUser("read")
    BY DEF Gate!Gates
  <2> QED
    BY <1>22, <2>1, ListRoutes
<1>23. CASE route = "write_list"
  <2>1. Gate!Gates["write_list"] = Gate!PersonalBoundary("write") \o Gate!PersonalUser("write")
    BY DEF Gate!Gates
  <2> QED
    BY <1>23, <2>1, ListRoutes
<1>24. CASE route = "seller_read"
  <2>1. Gate!Gates["seller_read"] = Gate!SellerBoundary("read") \o Gate!SellerUser("seller-read")
    BY DEF Gate!Gates
  <2> QED
    BY <1>24, <2>1, SellerRoutes
<1>25. CASE route = "submission"
  <2>1. Gate!Gates["submission"] = Gate!SellerBoundary("submission") \o Gate!SellerUser("seller-submission")
    BY DEF Gate!Gates
  <2> QED
    BY <1>25, <2>1, SellerRoutes
<1>26. CASE route = "review"
  <2>1. Gate!Gates["review"]
        = Gate!SellerBoundary("admin") \o Gate!SellerUser("seller-admin") \o <<Gate!Check("role")>>
    BY DEF Gate!Gates
  <2> QED
    BY <1>26, <2>1, SellerRoutes
<1>27. CASE route = "upload_evidence"
  <2>1. Gate!Gates["upload_evidence"] = Gate!SellerBoundary("upload") \o Gate!SellerUser("seller-upload")
    BY DEF Gate!Gates
  <2> QED
    BY <1>27, <2>1, EvidenceRoute
<1>28. CASE route = "public_image"
  <2>1. Gate!Gates["public_image"] = Gate!ImageBoundary("read")
    BY DEF Gate!Gates
  <2> QED
    BY <1>28, <2>1, ImageRoutes
<1>29. CASE route = "own_image"
  <2>1. Gate!Gates["own_image"] = Gate!ImageBoundary("read") \o Gate!ListingUser("read")
    BY DEF Gate!Gates
  <2> QED
    BY <1>29, <2>1, ImageRoutes
<1>30. CASE route = "write_image"
  <2>1. Gate!Gates["write_image"] = Gate!ImageBoundary("write") \o Gate!ListingUser("write")
    BY DEF Gate!Gates
  <2> QED
    BY <1>30, <2>1, ImageRoutes
<1>31. CASE route = "upload_image"
  <2>1. Gate!Gates["upload_image"]
        = Gate!ImageBoundary("upload") \o Gate!ListingUser("write")
          \o Gate!ImageUploadUser \o Gate!ImageFile \o Gate!Sanitize
    BY DEF Gate!Gates
  <2> QED
    BY <1>31, <2>1, PictureRoute
<1> QED
  BY <1>1, <1>2, <1>3, <1>4, <1>5, <1>6, <1>7, <1>8, <1>9, <1>10, <1>11, <1>12, <1>13, <1>14,
     <1>15, <1>16, <1>17, <1>18, <1>19, <1>20, <1>21, <1>22, <1>23, <1>24, <1>25, <1>26, <1>27,
     <1>28, <1>29, <1>30, <1>31

-----------------------------------------------------------------------------
(* What holds while requests pass their gates.                                *)

Visit == [left: Seq(AnyGate), n: Nat, peer: Peers, account: Accounts, signedIn: BOOLEAN,
          holds: SUBSET Gate!Pools]

\* What the receipts, the sign-in and the slots of a request say of the gates it has
\* passed.
Matches(r, passed) ==
    /\ \A g \in passed : g.by = "peer" =>
         \E f \in receipts : f.gate = g /\ f.key = request[r].peer /\ f.n = request[r].n
    /\ \A e \in receipts : e.n = request[r].n /\ e.gate.by # "peer" => e.gate \in passed
    /\ Gate!Bearer \in passed => request[r].signedIn
    /\ \A p \in Gate!Pools : p \in request[r].holds <=> Gate!Take(p) \in passed
          /\ Gate!Return(p) \notin passed
    /\ Gate!Take("decoder") \in passed => Gate!Take("images") \in passed
    /\ Gate!Return("images") \notin passed

\* What is left of a route is in order after what was passed of it.
Standing(r) ==
    /\ request[r] \in Visit /\ request[r].n \in 1..arrivals
    /\ \E passed \in SUBSET AnyGate : Matches(r, passed) /\ InOrder(request[r].left, passed)

RequestsFit ==
    /\ offered \subseteq Gate!Routes /\ arrivals \in Nat
    /\ request \in [Threads -> {Gate!Away} \cup Visit]
    /\ \A r \in Threads : Gate!Present(r) => Standing(r)
    /\ \A r, q \in Threads : Gate!Present(r) /\ Gate!Present(q) /\ r # q =>
          request[r].n # request[q].n

\* A receipt of an account has one of the peer from the same request beside it.
ReceiptFits(e) ==
    /\ e.gate \in AnyGate /\ e.gate.by \in {"peer", "user", "name"} /\ e.n \in 1..arrivals
    /\ e.gate.by = "user" => e.signedIn
    /\ e.gate.by # "peer" /\ e.gate # Gate!User("logout-all") =>
         \E f \in receipts : f.gate = PeerOf(e.gate) /\ f.key = e.from /\ f.n = e.n
    /\ \A f \in receipts : e.gate.by # "peer" /\ f.gate = e.gate /\ f.n = e.n => f = e
    /\ Gate!Cardinality(Gate!Spent(e.gate, e.key)) <= Gate!Limit(e.gate)

ReceiptsFit == Gate!IsFiniteSet(receipts) /\ \A e \in receipts : ReceiptFits(e)

Holders(p) == {r \in Threads : Gate!Present(r) /\ p \in request[r].holds}

SlotsFit ==
    /\ free \in [Gate!Pools -> Nat]
    /\ \A p \in Gate!Pools : Gate!IsFiniteSet(Holders(p))
          /\ free[p] + Gate!Cardinality(Holders(p)) = Gate!Size[p]

GateInvariant == RequestsFit /\ ReceiptsFit /\ SlotsFit

\* The bounds, as numbers.
LEMMA GateNumbers ==
  ASSUME Gate!ConstantsAreValid
  PROVE  /\ Gate!Size \in [Gate!Pools -> Nat] /\ Gate!Size["images"] <= Gate!Size["decoder"]
         /\ MaxArrivals \in Nat /\ PeerLimit \in Nat
         /\ \A g : Gate!Limit(g) \in Nat
         /\ "images" \in Gate!Pools /\ "decoder" \in Gate!Pools
BY DEF Gate!ConstantsAreValid, Gate!Size, Gate!Pools, Gate!Limit

\* The first gate of what is left is in turn, and the others come after it.
LEMMA FirstInOrder ==
  ASSUME NEW s, NEW passed \in SUBSET AnyGate, InOrder(s, passed), s # <<>>
  PROVE  /\ Head(s) \in AnyGate /\ InTurn(Head(s), passed)
         /\ passed \cup {Head(s)} \in SUBSET AnyGate
         /\ Tail(s) \in Seq(AnyGate) /\ InOrder(Tail(s), passed \cup {Head(s)})
<1>1. s \in Seq(AnyGate) /\ Len(s) \in Nat /\ Len(s) >= 1
  BY EmptySeq, LenProperties DEF InOrder
<1>2. /\ Head(s) = s[1] /\ Tail(s) \in Seq(AnyGate) /\ Len(Tail(s)) = Len(s) - 1
      /\ \A i \in 1..(Len(s) - 1) : Tail(s)[i] = s[i + 1]
  BY <1>1, HeadTailProperties
<1>3. InTurn(s[1], passed)
  <2>1. passed \cup Earlier(s, 1) = passed
    BY DEF Earlier
  <2>2. 1 \in 1..Len(s)
    BY <1>1
  <2>3. InTurn(s[1], passed \cup Earlier(s, 1))
    BY <2>2 DEF InOrder
  <2> QED BY <2>1, <2>3
<1>4. Head(s) \in AnyGate
  BY <1>2, <1>3 DEF InTurn
<1>5. ASSUME NEW i \in 1..Len(Tail(s))
      PROVE  InTurn(Tail(s)[i], (passed \cup {Head(s)}) \cup Earlier(Tail(s), i))
  <2>1. i + 1 \in 1..Len(s) /\ Tail(s)[i] = s[i + 1]
    BY <1>1, <1>2
  <2>2. InTurn(s[i + 1], passed \cup Earlier(s, i + 1))
    BY <2>1 DEF InOrder
  <2>3. Earlier(s, i + 1) = {s[j] : j \in 1..i}
    <3>1. (i + 1) - 1 = i
      OBVIOUS
    <3> QED BY <3>1 DEF Earlier
  <2>4. \A x \in Earlier(s, i + 1) : x \in {Head(s)} \cup Earlier(Tail(s), i)
    <3> SUFFICES ASSUME NEW j \in 1..i PROVE s[j] \in {Head(s)} \cup Earlier(Tail(s), i)
      BY <2>3
    <3>1. CASE j = 1
      BY <1>2, <3>1
    <3>2. CASE j # 1
      <4>1. j - 1 \in 1..(i - 1) /\ Tail(s)[j - 1] = s[j]
        BY <1>1, <1>2, <3>2, <2>1
      <4> QED BY <4>1 DEF Earlier
    <3> QED BY <3>1, <3>2
  <2>5. \A x \in {Head(s)} \cup Earlier(Tail(s), i) : x \in Earlier(s, i + 1)
    <3>1. s[1] \in Earlier(s, i + 1)
      BY <2>3
    <3>2. ASSUME NEW j \in 1..(i - 1) PROVE Tail(s)[j] \in Earlier(s, i + 1)
      <4>1. j + 1 \in 1..i /\ Tail(s)[j] = s[j + 1]
        BY <1>1, <1>2, <2>1
      <4> QED BY <2>3, <4>1
    <3>3. \A x \in Earlier(Tail(s), i) : x \in Earlier(s, i + 1)
      BY <3>2 DEF Earlier
    <3> QED BY <1>2, <3>1, <3>3
  <2>6. (passed \cup {Head(s)}) \cup Earlier(Tail(s), i) = passed \cup Earlier(s, i + 1)
    BY <2>4, <2>5
  <2> QED BY <2>1, <2>2, <2>6
<1> QED
  BY <1>2, <1>3, <1>4, <1>5 DEF InOrder

\* A request that is not away is a visit, and has a number.
LEMMA PresentIsVisit ==
  ASSUME RequestsFit, NEW r \in Threads, Gate!Present(r)
  PROVE  /\ request[r] \in Visit /\ request[r].n \in 1..arrivals
         /\ request[r].left \in Seq(AnyGate) /\ request[r].holds \subseteq Gate!Pools
         /\ request[r].signedIn \in BOOLEAN /\ request[r].peer \in Peers
         /\ request[r].account \in Accounts
BY DEF RequestsFit, Standing, Visit

\* Requests that a step does not touch stand where they stood.
LEMMA OthersStand ==
  ASSUME RequestsFit, NEW q \in Threads, Gate!Present(q), request'[q] = request[q],
         arrivals' \in Nat, arrivals <= arrivals', receipts \subseteq receipts',
         \A e \in receipts' : e \in receipts \/ e.n # request[q].n
  PROVE  Standing(q)'
<1>1. PICK passed \in SUBSET AnyGate : Matches(q, passed) /\ InOrder(request[q].left, passed)
  BY DEF RequestsFit, Standing
<1>2. Matches(q, passed)'
  BY <1>1 DEF Matches
<1>3. request[q] \in Visit /\ request[q].n \in 1..arrivals
  BY PresentIsVisit
<1>4. request'[q].n \in 1..arrivals'
  BY <1>3 DEF RequestsFit
<1> QED
  BY <1>1, <1>2, <1>3, <1>4 DEF Standing

\* A request that has come stands at the beginning of a route.
LEMMA ArriveKeepsRequests ==
  ASSUME RequestsFit, ReceiptsFit, NEW r \in Threads, Gate!Arrive(r)
  PROVE  RequestsFit'
<1>1. /\ arrivals \in Nat /\ arrivals' = arrivals + 1 /\ ~Gate!Present(r)
      /\ offered' = offered /\ receipts' = receipts
  BY DEF Gate!Arrive, RequestsFit, Gate!Present
<1>2. PICK route \in offered, p \in Peers, a \in Accounts :
        request' = [request EXCEPT ![r] =
            [left |-> Gate!Gates[route], n |-> arrivals', peer |-> p, account |-> a,
             signedIn |-> FALSE, holds |-> {}]]
  BY DEF Gate!Arrive
<1> DEFINE new == [left |-> Gate!Gates[route], n |-> arrivals', peer |-> p, account |-> a,
                   signedIn |-> FALSE, holds |-> {}]
<1>3. route \in Gate!Routes /\ InOrder(Gate!Gates[route], {})
  BY RoutesAreInOrder DEF RequestsFit
<1>4. new \in Visit
  BY <1>1, <1>3 DEF Visit, InOrder
<1>5. request' \in [Threads -> {Gate!Away} \cup Visit] /\ request'[r] = new
      /\ \A q \in Threads : q # r => request'[q] = request[q]
  BY <1>2, <1>4 DEF RequestsFit
<1>6. new.n = arrivals + 1 /\ new.holds = {} /\ new.left = Gate!Gates[route]
  BY <1>1
<1>7. \A e \in receipts : e.n \in 1..arrivals
  BY DEF ReceiptsFit, ReceiptFits
<1> HIDE DEF new
<1>8. Matches(r, {})'
  BY <1>1, <1>5, <1>6, <1>7 DEF Matches
<1>9. Standing(r)'
  BY <1>1, <1>3, <1>4, <1>5, <1>6, <1>8 DEF Standing
<1>10. ASSUME NEW q \in Threads, q # r, Gate!Present(q)' PROVE Gate!Present(q) /\ Standing(q)'
  <2>1. Gate!Present(q)
    BY <1>5, <1>10 DEF Gate!Present
  <2> QED BY <1>1, <1>5, <1>10, <2>1, OthersStand
<1>11. ASSUME NEW q \in Threads, q # r, Gate!Present(q)' PROVE request'[q].n \in 1..arrivals
  BY <1>5, <1>10, <1>11, PresentIsVisit
<1>12. ASSUME NEW q \in Threads, NEW s \in Threads, Gate!Present(q)', Gate!Present(s)', q # s
       PROVE  request'[q].n # request'[s].n
  <2>1. CASE q = r
    BY <1>1, <1>5, <1>6, <1>11, <1>12, <2>1
  <2>2. CASE s = r
    BY <1>1, <1>5, <1>6, <1>11, <1>12, <2>2
  <2>3. CASE q # r /\ s # r
    BY <1>5, <1>10, <1>12, <2>3 DEF RequestsFit
  <2> QED BY <2>1, <2>2, <2>3
<1> QED
  BY <1>1, <1>5, <1>9, <1>10, <1>12 DEF RequestsFit

\* One that leaves is away.
LEMMA LeaveKeepsRequests ==
  ASSUME RequestsFit, NEW r \in Threads, Gate!Leave(r), UNCHANGED <<offered, arrivals>>
  PROVE  RequestsFit'
<1>1. /\ arrivals \in Nat /\ arrivals' = arrivals /\ offered' = offered /\ receipts' = receipts
      /\ request' \in [Threads -> {Gate!Away} \cup Visit] /\ request'[r] = Gate!Away
      /\ \A q \in Threads : q # r => request'[q] = request[q]
  BY DEF Gate!Leave, RequestsFit
<1>2. ASSUME NEW q \in Threads, Gate!Present(q)'
      PROVE  q # r /\ Gate!Present(q) /\ request'[q] = request[q] /\ Standing(q)'
  <2>1. q # r /\ Gate!Present(q) /\ request'[q] = request[q]
    BY <1>1, <1>2 DEF Gate!Present
  <2> QED BY <1>1, <2>1, OthersStand
<1>3. \A q, s \in Threads : Gate!Present(q)' /\ Gate!Present(s)' /\ q # s =>
                                                   request'[q].n # request'[s].n
  BY <1>2 DEF RequestsFit
<1> QED
  BY <1>1, <1>2, <1>3 DEF RequestsFit

\* One that goes on: what is left is in order after the gate as well.
LEMMA GoOnKeepsRequests ==
  ASSUME RequestsFit, NEW r \in Threads, Gate!Present(r),
         request' \in [Threads -> {Gate!Away} \cup Visit], request'[r] \in Visit,
         \A q \in Threads : q # r => request'[q] = request[q],
         request'[r].n = request[r].n, UNCHANGED <<offered, arrivals>>,
         receipts \subseteq receipts',
         \A e \in receipts' : e \in receipts \/ e.n = request[r].n,
         NEW passed \in SUBSET AnyGate, Matches(r, passed)', InOrder(request'[r].left, passed)
  PROVE  RequestsFit'
<1>1. arrivals \in Nat /\ arrivals' = arrivals /\ request[r].n \in 1..arrivals
  BY PresentIsVisit DEF RequestsFit
<1>2. Standing(r)'
  BY <1>1 DEF Standing
<1>3. ASSUME NEW q \in Threads, q # r, Gate!Present(q)'
      PROVE  Gate!Present(q) /\ Standing(q)'
  <2>1. Gate!Present(q) /\ request'[q] = request[q]
    BY <1>3 DEF Gate!Present
  <2>2. request[q].n # request[r].n
    BY <1>3, <2>1 DEF RequestsFit
  <2>3. \A e \in receipts' : e \in receipts \/ e.n # request[q].n
    BY <2>2
  <2> QED BY <1>1, <2>1, <2>3, OthersStand
<1>4. ASSUME NEW q \in Threads, NEW s \in Threads, Gate!Present(q)', Gate!Present(s)', q # s
      PROVE  request'[q].n # request'[s].n
  BY <1>3, <1>4 DEF RequestsFit
<1> QED
  BY <1>1, <1>2, <1>3, <1>4 DEF RequestsFit

\* At a gate a request has a next one, in turn after those it has passed.
LEMMA AtItsGate ==
  ASSUME RequestsFit, NEW r \in Threads, NEW kinds, Gate!At(r, kinds)
  PROVE  /\ Gate!Present(r) /\ request[r] \in Visit /\ Gate!Gate(r) \in AnyGate
               /\ Gate!Gate(r).by \in kinds
         /\ Tail(request[r].left) \in Seq(AnyGate)
         /\ \E passed \in SUBSET AnyGate :
              /\ Matches(r, passed) /\ InTurn(Gate!Gate(r), passed)
              /\ passed \cup {Gate!Gate(r)} \in SUBSET AnyGate
              /\ InOrder(Tail(request[r].left), passed \cup {Gate!Gate(r)})
<1>1. Gate!Present(r) /\ request[r].left # <<>> /\ Gate!Gate(r).by \in kinds
  BY DEF Gate!At, Gate!Passed
<1>2. PICK passed \in SUBSET AnyGate : Matches(r, passed) /\ InOrder(request[r].left, passed)
  BY <1>1 DEF RequestsFit, Standing
<1>3. /\ Gate!Gate(r) \in AnyGate /\ InTurn(Gate!Gate(r), passed)
            /\ passed \cup {Gate!Gate(r)} \in SUBSET AnyGate
      /\ Tail(request[r].left) \in Seq(AnyGate)
      /\ InOrder(Tail(request[r].left), passed \cup {Gate!Gate(r)})
  BY <1>1, <1>2, FirstInOrder DEF Gate!Gate
<1> QED
  BY <1>1, <1>2, <1>3, PresentIsVisit

\* What a gate by its kind is not.
LEMMA KindsDiffer ==
  ASSUME NEW p
  PROVE  /\ Gate!Take(p).by = "take" /\ Gate!Take(p).of = p /\ Gate!Return(p).by = "return"
               /\ Gate!Return(p).of = p
         /\ Gate!Bearer.by = "check" /\ Gate!Take(p) # Gate!Bearer /\ Gate!Return(p) # Gate!Bearer
         /\ \A q : Gate!Take(p) # Gate!Return(q)
BY DEF Gate!Take, Gate!Return, Gate!Bearer, Gate!Check

\* A check that is passed is noted, and the sign-in with it.
LEMMA PassKeepsRequests ==
  ASSUME RequestsFit, NEW r \in Threads, Gate!Pass(r)
  PROVE  RequestsFit'
<1>1. /\ Gate!At(r, {"check"}) /\ UNCHANGED <<offered, receipts, free, arrivals>>
      /\ request' = [request EXCEPT ![r].left = Tail(@), ![r].signedIn = @ \/ Gate!Gate(r) = Gate!Bearer]
  BY DEF Gate!Pass
<1>2. /\ Gate!Present(r) /\ request[r] \in Visit /\ Gate!Gate(r) \in AnyGate
            /\ Gate!Gate(r).by = "check"
      /\ Tail(request[r].left) \in Seq(AnyGate)
  BY <1>1, AtItsGate
<1>3. PICK passed \in SUBSET AnyGate :
        /\ Matches(r, passed) /\ passed \cup {Gate!Gate(r)} \in SUBSET AnyGate
        /\ InOrder(Tail(request[r].left), passed \cup {Gate!Gate(r)})
  BY <1>1, AtItsGate
<1>20. PICK upto \in SUBSET AnyGate : upto = passed \cup {Gate!Gate(r)}
  BY <1>3
<1>4. request' = [request EXCEPT ![r] = [request[r] EXCEPT !.left = Tail(request[r].left),
                                   !.signedIn = request[r].signedIn \/ Gate!Gate(r) = Gate!Bearer]]
  BY <1>1, <1>2 DEF RequestsFit, Visit
<1>5. /\ request'[r] = [request[r] EXCEPT !.left = Tail(request[r].left),
                                   !.signedIn = request[r].signedIn \/ Gate!Gate(r) = Gate!Bearer]
      /\ \A q \in Threads : q # r => request'[q] = request[q]
  BY <1>4 DEF RequestsFit
<1>6. /\ request'[r] \in Visit /\ request'[r].left = Tail(request[r].left)
      /\ request'[r].n = request[r].n /\ request'[r].peer = request[r].peer
      /\ request'[r].holds = request[r].holds
      /\ request'[r].signedIn = (request[r].signedIn \/ Gate!Gate(r) = Gate!Bearer)
  BY <1>2, <1>5 DEF Visit
<1>7. request' \in [Threads -> {Gate!Away} \cup Visit]
  <2>1. request' = [request EXCEPT ![r] = request'[r]]
    BY <1>4, <1>5
  <2> QED BY <1>6, <2>1 DEF RequestsFit
<1>8. Matches(r, upto)'
  <2>1. \A p \in Gate!Pools : Gate!Take(p) # Gate!Gate(r) /\ Gate!Return(p) # Gate!Gate(r)
    BY <1>2, KindsDiffer
  <2>2. /\ \A g \in upto : g.by = "peer" => g \in passed
        /\ receipts' = receipts
    BY <1>20, <1>1, <1>2
  <2>3. \A p \in Gate!Pools : p \in request'[r].holds <=>
                           Gate!Take(p) \in upto /\ Gate!Return(p) \notin upto
    BY <1>20, <1>3, <1>6, <2>1 DEF Matches
  <2>4. Gate!Bearer \in upto => request'[r].signedIn
    BY <1>20, <1>3, <1>6 DEF Matches
  <2>5. /\ Gate!Take("decoder") \in upto => Gate!Take("images") \in upto
        /\ Gate!Return("images") \notin upto
    BY <1>20, <1>2, <1>3, KindsDiffer DEF Matches
  <2> QED BY <1>20, <1>3, <1>6, <2>2, <2>3, <2>4, <2>5 DEF Matches
<1> QED
  BY <1>20, <1>1, <1>2, <1>3, <1>5, <1>6, <1>7, <1>8, GoOnKeepsRequests

\* What a limiter writes down of a request.
Receipt(r) == [gate |-> Gate!Gate(r), key |-> Gate!Key(r), from |-> request[r].peer,
               signedIn |-> request[r].signedIn, n |-> request[r].n, left |-> Len(request[r].left)]

\* A limiter lets a request on with a receipt, or ends it.
LEMMA ChargeDoes ==
  ASSUME RequestsFit, NEW r \in Threads, Gate!Charge(r)
  PROVE  /\ Gate!At(r, {"peer", "user", "name"}) /\ UNCHANGED <<offered, arrivals>>
         /\ \/ Gate!Leave(r)
            \/ /\ ~(Gate!Cardinality(Gate!Spent(Gate!Gate(r), Gate!Key(r))) >= Gate!Limit(Gate!Gate(r)))
               /\ receipts' = receipts \cup {Receipt(r)}
               /\ request' = [request EXCEPT ![r] = [request[r] EXCEPT !.left = Tail(request[r].left)]]
               /\ free' = free
<1>1. Gate!At(r, {"peer", "user", "name"}) /\ UNCHANGED <<offered, arrivals>>
  BY DEF Gate!Charge
<1>2. CASE Gate!Cardinality(Gate!Spent(Gate!Gate(r), Gate!Key(r))) >= Gate!Limit(Gate!Gate(r))
  BY <1>1, <1>2 DEF Gate!Charge
<1>3. CASE ~(Gate!Cardinality(Gate!Spent(Gate!Gate(r), Gate!Key(r))) >= Gate!Limit(Gate!Gate(r)))
  <2>1. /\ receipts' = receipts \cup {Receipt(r)}
        /\ request' = [request EXCEPT ![r].left = Tail(@)]
        /\ UNCHANGED free
    BY <1>3 DEF Gate!Charge, Receipt
  <2>2. request' = [request EXCEPT ![r] = [request[r] EXCEPT !.left = Tail(request[r].left)]]
    BY <2>1 DEF RequestsFit
  <2> QED BY <1>1, <1>3, <2>1, <2>2
<1> QED
  BY <1>2, <1>3

\* Of a limiter that lets a request on there is a receipt.
LEMMA ChargeKeepsRequests ==
  ASSUME RequestsFit, NEW r \in Threads, Gate!Charge(r)
  PROVE  RequestsFit'
<1>1. Gate!At(r, {"peer", "user", "name"}) /\ UNCHANGED <<offered, arrivals>>
  BY ChargeDoes
<1>2. CASE Gate!Leave(r)
  BY <1>1, <1>2, LeaveKeepsRequests
<1>3. CASE ~Gate!Leave(r)
  <2>1. /\ receipts' = receipts \cup {Receipt(r)}
        /\ request' = [request EXCEPT ![r] = [request[r] EXCEPT !.left = Tail(request[r].left)]]
    BY <1>3, ChargeDoes
  <2>2. /\ Gate!Present(r) /\ request[r] \in Visit /\ Gate!Gate(r) \in AnyGate
        /\ Gate!Gate(r).by \in {"peer", "user", "name"} /\ Tail(request[r].left) \in Seq(AnyGate)
    BY <1>1, AtItsGate
  <2>3. PICK passed \in SUBSET AnyGate :
          /\ Matches(r, passed) /\ passed \cup {Gate!Gate(r)} \in SUBSET AnyGate
          /\ InOrder(Tail(request[r].left), passed \cup {Gate!Gate(r)})
    BY <1>1, AtItsGate
  <2>20. PICK upto \in SUBSET AnyGate : upto = passed \cup {Gate!Gate(r)}
    BY <2>3
  <2>4. /\ request'[r] = [request[r] EXCEPT !.left = Tail(request[r].left)]
        /\ \A q \in Threads : q # r => request'[q] = request[q]
    BY <2>1 DEF RequestsFit
  <2>5. /\ request'[r] \in Visit /\ request'[r].left = Tail(request[r].left)
        /\ request'[r].n = request[r].n /\ request'[r].peer = request[r].peer
        /\ request'[r].holds = request[r].holds /\ request'[r].signedIn = request[r].signedIn
    BY <2>2, <2>4 DEF Visit
  <2>6. request' \in [Threads -> {Gate!Away} \cup Visit]
    BY <2>1, <2>4, <2>5 DEF RequestsFit
  <2>7. /\ Receipt(r).gate = Gate!Gate(r) /\ Receipt(r).n = request[r].n
        /\ Gate!Gate(r).by = "peer" => Receipt(r).key = request[r].peer
    BY DEF Receipt, Gate!Key
  <2>8. Matches(r, upto)'
    <3>1. \A p \in Gate!Pools : Gate!Take(p) # Gate!Gate(r) /\ Gate!Return(p) # Gate!Gate(r)
      BY <2>2, KindsDiffer
    <3>2. \A p \in Gate!Pools : p \in request'[r].holds <=>
                           Gate!Take(p) \in upto /\ Gate!Return(p) \notin upto
      BY <2>20, <2>3, <2>5, <3>1 DEF Matches
    <3>3. Gate!Bearer \in upto => request'[r].signedIn
      BY <2>20, <2>2, <2>3, <2>5, KindsDiffer DEF Matches
    <3>4. /\ Gate!Take("decoder") \in upto => Gate!Take("images") \in upto
          /\ Gate!Return("images") \notin upto
      BY <2>20, <2>2, <2>3, KindsDiffer DEF Matches
    <3>5. ASSUME NEW g \in upto, g.by = "peer"
          PROVE  \E f \in receipts' : f.gate = g /\ f.key = request'[r].peer
                                                       /\ f.n = request'[r].n
      <4>1. CASE g \in passed
        BY <2>1, <2>3, <2>5, <3>5, <4>1 DEF Matches
      <4>2. CASE g = Gate!Gate(r)
        BY <2>1, <2>5, <2>7, <3>5, <4>2
      <4> QED BY <2>20, <4>1, <4>2
    <3>6. ASSUME NEW e \in receipts', e.n = request'[r].n, e.gate.by # "peer"
          PROVE  e.gate \in upto
      <4>1. CASE e \in receipts
        BY <2>3, <2>20, <2>5, <3>6, <4>1 DEF Matches
      <4>2. CASE e = Receipt(r)
        BY <2>7, <2>20, <4>2
      <4> QED BY <2>1, <4>1, <4>2
    <3> QED BY <2>20, <3>2, <3>3, <3>4, <3>5, <3>6 DEF Matches
  <2>9. receipts \subseteq receipts' /\ \A e \in receipts' : e \in receipts \/ e.n = request[r].n
    BY <2>1, <2>7
  <2> QED
    BY <2>20, <1>1, <2>2, <2>3, <2>4, <2>5, <2>6, <2>8, <2>9, GoOnKeepsRequests
<1> QED
  BY <1>2, <1>3

\* A pool gives a slot or ends the request.
LEMMA AcquireDoes ==
  ASSUME RequestsFit, NEW r \in Threads, Gate!Acquire(r)
  PROVE  /\ Gate!At(r, {"take"}) /\ UNCHANGED <<offered, arrivals>>
         /\ \/ Gate!Leave(r)
            \/ /\ free[Gate!Gate(r).of] # 0 /\ receipts' = receipts
               /\ request' = [request EXCEPT ![r] = [request[r] EXCEPT !.left = Tail(request[r].left),
                                   !.holds = request[r].holds \cup {Gate!Gate(r).of}]]
               /\ free' = [free EXCEPT ![Gate!Gate(r).of] = @ - 1]
<1>1. Gate!At(r, {"take"}) /\ UNCHANGED <<offered, arrivals>>
  BY DEF Gate!Acquire
<1>2. CASE free[Gate!Gate(r).of] = 0
  BY <1>1, <1>2 DEF Gate!Acquire
<1>3. CASE free[Gate!Gate(r).of] # 0
  <2>1. /\ request' = [request EXCEPT ![r].left = Tail(@), ![r].holds = @ \cup {Gate!Gate(r).of}]
        /\ free' = [free EXCEPT ![Gate!Gate(r).of] = @ - 1]
        /\ UNCHANGED receipts
    BY <1>3 DEF Gate!Acquire
  <2>2. request[r] \in Visit
    BY <1>1, AtItsGate
  <2>3. request' = [request EXCEPT ![r] = [request[r] EXCEPT !.left = Tail(request[r].left),
                                   !.holds = request[r].holds \cup {Gate!Gate(r).of}]]
    BY <2>1, <2>2 DEF RequestsFit, Visit
  <2> QED BY <1>1, <1>3, <2>1, <2>3
<1> QED
  BY <1>2, <1>3

\* Only who has a slot of images comes to take a decoder.
LEMMA AcquireKeepsRequests ==
  ASSUME RequestsFit, NEW r \in Threads, Gate!Acquire(r)
  PROVE  RequestsFit'
<1>1. Gate!At(r, {"take"}) /\ UNCHANGED <<offered, arrivals>>
  BY AcquireDoes
<1>2. CASE Gate!Leave(r)
  BY <1>1, <1>2, LeaveKeepsRequests
<1>3. CASE ~Gate!Leave(r)
  <2> DEFINE pool == Gate!Gate(r).of
  <2>1. /\ receipts' = receipts
        /\ request' = [request EXCEPT ![r] = [request[r] EXCEPT !.left = Tail(request[r].left),
                                   !.holds = request[r].holds \cup {pool}]]
    BY <1>3, AcquireDoes
  <2>2. /\ Gate!Present(r) /\ request[r] \in Visit /\ Gate!Gate(r) \in AnyGate
        /\ Gate!Gate(r).by = "take" /\ Tail(request[r].left) \in Seq(AnyGate)
    BY <1>1, AtItsGate
  <2>3. PICK passed \in SUBSET AnyGate :
          /\ Matches(r, passed) /\ InTurn(Gate!Gate(r), passed)
          /\ passed \cup {Gate!Gate(r)} \in SUBSET AnyGate
          /\ InOrder(Tail(request[r].left), passed \cup {Gate!Gate(r)})
    BY <1>1, AtItsGate
  <2>20. PICK upto \in SUBSET AnyGate : upto = passed \cup {Gate!Gate(r)}
    BY <2>3
  <2>4. /\ request'[r] = [request[r] EXCEPT !.left = Tail(request[r].left),
                                   !.holds = request[r].holds \cup {pool}]
        /\ \A q \in Threads : q # r => request'[q] = request[q]
    BY <2>1 DEF RequestsFit
  <2>5. pool \in Gate!Pools /\ Gate!Return(pool) \notin passed
                                  /\ (pool = "decoder" => Gate!Take("images") \in passed)
    BY <2>2, <2>3 DEF InTurn
  <2>6. Gate!Gate(r) = Gate!Take(pool)
    BY <2>2 DEF AnyGate, Gate!Take
  <2>7. /\ request'[r] \in Visit /\ request'[r].left = Tail(request[r].left)
        /\ request'[r].n = request[r].n /\ request'[r].peer = request[r].peer
        /\ request'[r].holds = request[r].holds \cup {pool}
        /\ request'[r].signedIn = request[r].signedIn
    <3> HIDE DEF pool
    <3>1. request[r].holds \cup {pool} \in SUBSET Gate!Pools
      BY <2>2, <2>5 DEF Visit
    <3> QED BY <2>2, <2>4, <3>1 DEF Visit
  <2>8. request' \in [Threads -> {Gate!Away} \cup Visit]
    BY <2>1, <2>4, <2>7 DEF RequestsFit
  <2> HIDE DEF pool
  <2>9. Matches(r, upto)'
    <3>1. \A p \in Gate!Pools : Gate!Return(p) # Gate!Gate(r) /\ (Gate!Take(p) = Gate!Gate(r) <=> p = pool)
      BY <2>2, <2>6, KindsDiffer
    <3>2. \A p \in Gate!Pools : p \in request'[r].holds <=>
                           Gate!Take(p) \in upto /\ Gate!Return(p) \notin upto
      BY <2>20, <2>3, <2>5, <2>7, <3>1 DEF Matches
    <3>3. Gate!Bearer \in upto => request'[r].signedIn
      BY <2>20, <2>2, <2>3, <2>7, KindsDiffer DEF Matches
    <3>4. Gate!Take("decoder") \in upto => Gate!Take("images") \in upto
      BY <2>20, <2>3, <2>5, <2>6, KindsDiffer DEF Matches
    <3>5. Gate!Return("images") \notin upto
      BY <2>20, <2>2, <2>3, KindsDiffer DEF Matches
    <3>6. \A g \in upto : g.by = "peer" => g \in passed
      BY <2>20, <2>2
    <3> QED BY <2>20, <2>1, <2>3, <2>7, <3>2, <3>3, <3>4, <3>5, <3>6 DEF Matches
  <2> QED
    BY <2>20, <1>1, <2>1, <2>2, <2>3, <2>4, <2>7, <2>8, <2>9, GoOnKeepsRequests
<1> QED
  BY <1>2, <1>3

\* A slot is given back by who holds it.
LEMMA ReleaseDoes ==
  ASSUME RequestsFit, NEW r \in Threads, Gate!Release(r)
  PROVE  /\ Gate!At(r, {"return"}) /\ UNCHANGED <<offered, arrivals, receipts>>
         /\ Gate!Gate(r) = Gate!Return("decoder") /\ "decoder" \in request[r].holds
         /\ request' = [request EXCEPT ![r] = [request[r] EXCEPT !.left = Tail(request[r].left),
                                   !.holds = request[r].holds \ {"decoder"}]]
         /\ free' = [free EXCEPT !["decoder"] = @ + 1]
<1>1. /\ Gate!At(r, {"return"}) /\ UNCHANGED <<offered, arrivals, receipts>>
      /\ request' = [request EXCEPT ![r].left = Tail(@), ![r].holds = @ \ {Gate!Gate(r).of}]
      /\ free' = [free EXCEPT ![Gate!Gate(r).of] = @ + 1]
  BY DEF Gate!Release
<1>2. request[r] \in Visit /\ Gate!Gate(r).by = "return"
  BY <1>1, AtItsGate
<1>3. PICK passed \in SUBSET AnyGate : Matches(r, passed) /\ InTurn(Gate!Gate(r), passed)
  BY <1>1, AtItsGate
<1>4. Gate!Gate(r) = Gate!Return("decoder") /\ Gate!Take("decoder") \in passed
                                                  /\ Gate!Return("decoder") \notin passed
  BY <1>2, <1>3 DEF InTurn
<1>5. "decoder" \in request[r].holds
  <2>1. "decoder" \in Gate!Pools
    BY DEF Gate!Pools, Gate!Size
  <2> QED BY <1>3, <1>4, <2>1 DEF Matches
<1>6. Gate!Gate(r).of = "decoder"
  BY <1>4, KindsDiffer
<1>7. request' = [request EXCEPT ![r] = [request[r] EXCEPT !.left = Tail(request[r].left),
                                   !.holds = request[r].holds \ {"decoder"}]]
  BY <1>1, <1>2, <1>6 DEF RequestsFit, Visit
<1> QED
  BY <1>1, <1>4, <1>5, <1>6, <1>7

\* Who gives back its decoder goes on without it.
LEMMA ReleaseKeepsRequests ==
  ASSUME RequestsFit, NEW r \in Threads, Gate!Release(r)
  PROVE  RequestsFit'
<1>1. /\ Gate!At(r, {"return"}) /\ UNCHANGED <<offered, arrivals>> /\ receipts' = receipts
      /\ Gate!Gate(r) = Gate!Return("decoder")
      /\ request' = [request EXCEPT ![r] = [request[r] EXCEPT !.left = Tail(request[r].left),
                                   !.holds = request[r].holds \ {"decoder"}]]
  BY ReleaseDoes
<1>2. /\ Gate!Present(r) /\ request[r] \in Visit /\ Gate!Gate(r) \in AnyGate
      /\ Gate!Gate(r).by = "return" /\ Tail(request[r].left) \in Seq(AnyGate)
  BY <1>1, AtItsGate
<1>3. PICK passed \in SUBSET AnyGate :
        /\ Matches(r, passed) /\ passed \cup {Gate!Gate(r)} \in SUBSET AnyGate
        /\ InOrder(Tail(request[r].left), passed \cup {Gate!Gate(r)})
  BY <1>1, AtItsGate
<1>20. PICK upto \in SUBSET AnyGate : upto = passed \cup {Gate!Gate(r)}
  BY <1>3
<1>4. /\ request'[r] = [request[r] EXCEPT !.left = Tail(request[r].left),
                                   !.holds = request[r].holds \ {"decoder"}]
      /\ \A q \in Threads : q # r => request'[q] = request[q]
  BY <1>1 DEF RequestsFit
<1>5. /\ request'[r] \in Visit /\ request'[r].left = Tail(request[r].left)
      /\ request'[r].n = request[r].n /\ request'[r].peer = request[r].peer
      /\ request'[r].holds = request[r].holds \ {"decoder"}
      /\ request'[r].signedIn = request[r].signedIn
  BY <1>2, <1>4 DEF Visit
<1>6. request' \in [Threads -> {Gate!Away} \cup Visit]
  BY <1>1, <1>4, <1>5 DEF RequestsFit
<1>7. Matches(r, upto)'
  <2>1. \A p \in Gate!Pools : Gate!Take(p) # Gate!Gate(r) /\ (Gate!Return(p) = Gate!Gate(r) <=> p = "decoder")
    BY <1>1, KindsDiffer
  <2>2. \A p \in Gate!Pools : p \in request'[r].holds <=>
                           Gate!Take(p) \in upto /\ Gate!Return(p) \notin upto
    BY <1>20, <1>3, <1>5, <2>1 DEF Matches
  <2>3. Gate!Bearer \in upto => request'[r].signedIn
    BY <1>20, <1>2, <1>3, <1>5, KindsDiffer DEF Matches
  <2>4. Gate!Take("decoder") \in upto => Gate!Take("images") \in upto
    BY <1>20, <1>2, <1>3, KindsDiffer DEF Matches
  <2>5. Gate!Return("images") # Gate!Gate(r)
    BY <1>1 DEF Gate!Return
  <2>6. \A g \in upto : g.by = "peer" => g \in passed
    BY <1>20, <1>2
  <2> QED BY <1>20, <1>1, <1>3, <1>5, <2>2, <2>3, <2>4, <2>5, <2>6 DEF Matches
<1> QED
  BY <1>20, <1>1, <1>2, <1>3, <1>4, <1>5, <1>6, <1>7, GoOnKeepsRequests

\* Receipts that stay fit as they did.
LEMMA SameReceipts ==
  ASSUME ReceiptsFit, receipts' = receipts, arrivals \in Nat, arrivals' \in Nat,
         arrivals <= arrivals'
  PROVE  ReceiptsFit'
<1>1. ASSUME NEW e \in receipts PROVE ReceiptFits(e)'
  <2>1. ReceiptFits(e)
    BY DEF ReceiptsFit
  <2>2. Gate!Spent(e.gate, e.key)' = Gate!Spent(e.gate, e.key)
    BY DEF Gate!Spent
  <2>3. e.n \in 1..arrivals'
    BY <2>1 DEF ReceiptFits
  <2> QED BY <2>1, <2>2, <2>3 DEF ReceiptFits
<1> QED
  BY <1>1 DEF ReceiptsFit

\* A limiter writes down no more than its limit, of an account only beside the
\* receipt of the peer, and once for a request.
LEMMA ChargeKeepsReceipts ==
  ASSUME Gate!ConstantsAreValid, RequestsFit, ReceiptsFit, NEW r \in Threads, Gate!Charge(r)
  PROVE  ReceiptsFit'
<1>1. Gate!At(r, {"peer", "user", "name"}) /\ arrivals' = arrivals
  BY ChargeDoes
<1>2. CASE Gate!Leave(r)
  BY <1>1, <1>2, SameReceipts DEF Gate!Leave, RequestsFit
<1>3. CASE ~Gate!Leave(r)
  <2>1. /\ receipts' = receipts \cup {Receipt(r)}
        /\ ~(Gate!Cardinality(Gate!Spent(Gate!Gate(r), Gate!Key(r))) >= Gate!Limit(Gate!Gate(r)))
    BY <1>3, ChargeDoes
  <2>2. PICK gate, key, new : gate = Gate!Gate(r) /\ key = Gate!Key(r) /\ new = Receipt(r)
    OBVIOUS
  <2>3. /\ Gate!Present(r) /\ request[r] \in Visit /\ gate \in AnyGate
        /\ gate.by \in {"peer", "user", "name"} /\ request[r].n \in 1..arrivals
    BY <1>1, <2>2, AtItsGate, PresentIsVisit
  <2>4. PICK passed \in SUBSET AnyGate : Matches(r, passed) /\ InTurn(gate, passed)
    BY <1>1, <2>2, AtItsGate
  <2>5. /\ new.gate = gate /\ new.n = request[r].n /\ new.key = key
        /\ new.from = request[r].peer /\ new.signedIn = request[r].signedIn
    BY <2>2 DEF Receipt
  <2>6. Gate!IsFiniteSet(receipts') /\ receipts' = receipts \cup {new}
    BY <2>1, <2>2, FS_AddElement, GateCount DEF ReceiptsFit
  <2>7. \A e \in receipts' : e \in receipts \/ e = new
    BY <2>6
  <2>8. \A e \in receipts : ReceiptFits(e)
    BY DEF ReceiptsFit
  <2>9. ASSUME NEW e \in receipts'
        PROVE  /\ e.gate \in AnyGate /\ e.gate.by \in {"peer", "user", "name"}
                     /\ e.n \in 1..arrivals'
               /\ e.gate.by = "user" => e.signedIn
    <3>1. CASE e \in receipts
      BY <1>1, <2>8, <3>1 DEF ReceiptFits
    <3>2. CASE e = new
      <4>1. gate.by = "user" => request[r].signedIn
        BY <2>4 DEF InTurn, Matches
      <4> QED BY <1>1, <2>3, <2>5, <3>2, <4>1
    <3> QED BY <2>7, <3>1, <3>2
  <2>10. ASSUME NEW e \in receipts', e.gate.by # "peer", e.gate # Gate!User("logout-all")
         PROVE  \E f \in receipts' : f.gate = PeerOf(e.gate) /\ f.key = e.from /\ f.n = e.n
    <3>1. CASE e \in receipts
      <4>1. \E f \in receipts : f.gate = PeerOf(e.gate) /\ f.key = e.from /\ f.n = e.n
        BY <2>8, <2>10, <3>1 DEF ReceiptFits
      <4> QED BY <2>6, <4>1
    <3>2. CASE e = new
      <4>1. PeerOf(gate) \in passed
        BY <2>3, <2>4, <2>5, <2>10, <3>2 DEF InTurn
      <4>2. PeerOf(gate).by = "peer"
        BY DEF PeerOf, Gate!Peer
      <4>3. \E f \in receipts : f.gate = PeerOf(gate) /\ f.key = request[r].peer
                                                            /\ f.n = request[r].n
        BY <2>4, <4>1, <4>2 DEF Matches
      <4> QED BY <2>5, <2>6, <3>2, <4>3
    <3> QED BY <2>7, <3>1, <3>2
  <2>11. ASSUME NEW e \in receipts, e.gate.by # "peer", e.gate = gate, e.n = new.n PROVE FALSE
    <3>1. gate \in passed
      BY <2>4, <2>5, <2>11 DEF Matches
    <3>2. gate \notin passed
      BY <2>3, <2>4, <2>11 DEF InTurn
    <3> QED BY <3>1, <3>2
  <2>12. ASSUME NEW e \in receipts', NEW f \in receipts',
                e.gate.by # "peer", f.gate = e.gate, f.n = e.n
         PROVE  f = e
    <3>1. CASE e \in receipts /\ f \in receipts
      BY <2>8, <2>12, <3>1 DEF ReceiptFits
    <3>2. CASE e = new /\ f \in receipts
      BY <2>5, <2>11, <2>12, <3>2
    <3>3. CASE e \in receipts /\ f = new
      BY <2>5, <2>11, <2>12, <3>3
    <3> QED BY <2>7, <3>1, <3>2, <3>3
  <2>13. /\ Gate!Cardinality(Gate!Spent(gate, key)') \in Nat
         /\ Gate!Cardinality(Gate!Spent(gate, key)') <= Gate!Limit(gate)
    <3>1. Gate!Spent(gate, key)' = Gate!Spent(gate, key) \cup {new}
      BY <2>5, <2>6 DEF Gate!Spent
    <3>2. Gate!IsFiniteSet(Gate!Spent(gate, key))
      BY FS_Subset, GateCount DEF Gate!Spent, ReceiptsFit
    <3>3. Gate!Cardinality(Gate!Spent(gate, key)) \in Nat /\ Gate!Limit(gate) \in Nat
      BY <3>2, FS_CardinalityType, GateCount, GateNumbers
    <3>4. Gate!Cardinality(Gate!Spent(gate, key)) + 1 <= Gate!Limit(gate)
      BY <2>1, <2>2, <3>3
    <3>5. /\ Gate!Cardinality(Gate!Spent(gate, key) \cup {new}) \in Nat
          /\ Gate!Cardinality(Gate!Spent(gate, key) \cup {new}) <= Gate!Cardinality(Gate!Spent(gate, key)) + 1
      BY <3>2, <3>3, FS_AddElement, GateCount
    <3> QED BY <3>1, <3>3, <3>4, <3>5
  <2>14. ASSUME NEW e \in receipts'
         PROVE  Gate!Cardinality(Gate!Spent(e.gate, e.key)') <= Gate!Limit(e.gate)
    <3>1. CASE e.gate = gate /\ e.key = key
      BY <2>13, <3>1
    <3>2. CASE ~(e.gate = gate /\ e.key = key)
      <4>1. Gate!Spent(e.gate, e.key)' = Gate!Spent(e.gate, e.key)
        BY <2>5, <2>6, <3>2 DEF Gate!Spent
      <4>2. e \in receipts
        BY <2>5, <2>7, <3>2
      <4> QED BY <2>8, <4>1, <4>2 DEF ReceiptFits
    <3> QED BY <3>1, <3>2
  <2>15. \A e \in receipts' : ReceiptFits(e)'
    BY <2>9, <2>10, <2>12, <2>14 DEF ReceiptFits
  <2> QED BY <2>6, <2>15 DEF ReceiptsFit
<1> QED
  BY <1>2, <1>3

-----------------------------------------------------------------------------
(* The slots.                                                                 *)

\* A step that neither takes nor gives a slot.
LEMMA SameHolders ==
  ASSUME SlotsFit, free' = free,
         \A q \in Threads : \A p \in Gate!Pools :
           (Gate!Present(q)' /\ p \in request'[q].holds) <=> (Gate!Present(q) /\ p \in request[q].holds)
  PROVE  SlotsFit'
<1>1. \A p \in Gate!Pools : Holders(p)' = Holders(p)
  BY DEF Holders
<1> QED
  BY <1>1 DEF SlotsFit

\* Who leaves gives back what it held.
LEMMA LeaveKeepsSlots ==
  ASSUME RequestsFit, SlotsFit, NEW r \in Threads, Gate!Present(r), Gate!Leave(r)
  PROVE  SlotsFit'
<1>1. /\ free' = [p \in Gate!Pools |-> IF p \in request[r].holds THEN free[p] + 1 ELSE free[p]]
      /\ request'[r] = Gate!Away /\ \A q \in Threads : q # r => request'[q] = request[q]
  BY DEF Gate!Leave, RequestsFit
<1>2. free' \in [Gate!Pools -> Nat]
  BY <1>1 DEF SlotsFit
<1>3. ASSUME NEW p \in Gate!Pools
      PROVE  Gate!IsFiniteSet(Holders(p)') /\ free'[p] + Gate!Cardinality(Holders(p)') = Gate!Size[p]
  <2>1. Holders(p)' = Holders(p) \ {r}
    BY <1>1 DEF Holders, Gate!Present
  <2>2. /\ Gate!IsFiniteSet(Holders(p)) /\ Gate!Cardinality(Holders(p)) \in Nat /\ free[p] \in Nat
        /\ free[p] + Gate!Cardinality(Holders(p)) = Gate!Size[p]
    BY FS_CardinalityType, GateCount DEF SlotsFit
  <2>3. CASE p \in request[r].holds
    <3>1. r \in Holders(p) /\ free'[p] = free[p] + 1
      BY <1>1, <2>3 DEF Holders
    <3>2. /\ Gate!IsFiniteSet(Holders(p) \ {r})
          /\ Gate!Cardinality(Holders(p) \ {r}) = Gate!Cardinality(Holders(p)) - 1
      BY <2>2, <3>1, FS_RemoveElement, GateCount
    <3> QED BY <2>1, <2>2, <3>1, <3>2
  <2>4. CASE p \notin request[r].holds
    <3>1. Holders(p) \ {r} = Holders(p) /\ free'[p] = free[p]
      BY <1>1, <2>4 DEF Holders
    <3> QED BY <2>1, <2>2, <3>1
  <2> QED BY <2>3, <2>4
<1> QED
  BY <1>2, <1>3 DEF SlotsFit

\* A slot that is taken is free no more.
LEMMA AcquireKeepsSlots ==
  ASSUME RequestsFit, SlotsFit, NEW r \in Threads, Gate!Acquire(r)
  PROVE  SlotsFit'
<1>1. Gate!At(r, {"take"})
  BY AcquireDoes
<1>2. Gate!Present(r) /\ request[r] \in Visit
  BY <1>1, AtItsGate
<1>3. CASE Gate!Leave(r)
  BY <1>2, <1>3, LeaveKeepsSlots
<1>4. CASE ~Gate!Leave(r)
  <2>1. PICK pool : pool = Gate!Gate(r).of
    OBVIOUS
  <2>2. /\ free[pool] # 0
        /\ request' = [request EXCEPT ![r] = [request[r] EXCEPT !.left = Tail(request[r].left),
                                                  !.holds = request[r].holds \cup {pool}]]
        /\ free' = [free EXCEPT ![pool] = @ - 1]
    BY <1>4, <2>1, AcquireDoes
  <2>3. /\ pool \in Gate!Pools /\ pool \notin request[r].holds
    <3>1. PICK passed \in SUBSET AnyGate : Matches(r, passed) /\ InTurn(Gate!Gate(r), passed)
      BY <1>1, AtItsGate
    <3>2. Gate!Gate(r).by = "take" /\ Gate!Gate(r) \in AnyGate
      BY <1>1, AtItsGate
    <3>3. Gate!Gate(r) = Gate!Take(pool)
      BY <2>1, <3>2 DEF AnyGate, Gate!Take
    <3>4. pool \in Gate!Pools /\ Gate!Take(pool) \notin passed
      BY <2>1, <3>1, <3>2, <3>3 DEF InTurn
    <3> QED BY <3>1, <3>4 DEF Matches
  <2>4. /\ Gate!Present(r)' /\ request'[r].holds = request[r].holds \cup {pool}
        /\ \A q \in Threads : q # r => request'[q] = request[q]
    <3>1. /\ request'[r] = [request[r] EXCEPT !.left = Tail(request[r].left),
                                      !.holds = request[r].holds \cup {pool}]
          /\ \A q \in Threads : q # r => request'[q] = request[q]
      BY <2>2 DEF RequestsFit
    <3>2. request'[r].holds = request[r].holds \cup {pool} /\ request'[r].n = request[r].n
      BY <1>2, <3>1 DEF Visit
    <3>3. request[r].n # 0
      BY <1>2, PresentIsVisit
    <3>4. Gate!Away.n = 0
      BY DEF Gate!Away
    <3>5. Gate!Present(r)'
      BY <3>2, <3>3, <3>4 DEF Gate!Present
    <3> QED BY <3>1, <3>2, <3>5
  <2>5. ASSUME NEW p \in Gate!Pools
        PROVE  /\ Gate!IsFiniteSet(Holders(p)')
                     /\ free'[p] + Gate!Cardinality(Holders(p)') = Gate!Size[p]
               /\ free'[p] \in Nat
    <3>1. /\ Gate!IsFiniteSet(Holders(p)) /\ Gate!Cardinality(Holders(p)) \in Nat
                /\ free[p] \in Nat
          /\ free[p] + Gate!Cardinality(Holders(p)) = Gate!Size[p]
      BY FS_CardinalityType, GateCount DEF SlotsFit
    <3>2. CASE p = pool
      <4>1. Holders(p)' = Holders(p) \cup {r} /\ r \notin Holders(p)
        BY <2>3, <2>4, <3>2 DEF Holders, Gate!Present
      <4>2. free'[p] = free[p] - 1 /\ free[p] # 0
        BY <2>2, <3>2 DEF SlotsFit
      <4>3. /\ Gate!IsFiniteSet(Holders(p) \cup {r})
            /\ Gate!Cardinality(Holders(p) \cup {r}) = Gate!Cardinality(Holders(p)) + 1
        BY <3>1, <4>1, FS_AddElement, GateCount
      <4> QED BY <3>1, <4>1, <4>2, <4>3
    <3>3. CASE p # pool
      <4>1. Holders(p)' = Holders(p)
        BY <1>2, <2>4, <3>3 DEF Holders, Gate!Present
      <4>2. free'[p] = free[p]
        BY <2>2, <3>3 DEF SlotsFit
      <4> QED BY <3>1, <4>1, <4>2
    <3> QED BY <3>2, <3>3
  <2>6. free' \in [Gate!Pools -> Nat]
    <3>1. free' = [free EXCEPT ![pool] = free'[pool]]
      BY <2>2, <2>3 DEF SlotsFit
    <3> QED BY <2>3, <2>5, <3>1 DEF SlotsFit
  <2> QED BY <2>5, <2>6 DEF SlotsFit
<1> QED
  BY <1>3, <1>4

\* A slot that is given back is free again.
LEMMA ReleaseKeepsSlots ==
  ASSUME RequestsFit, SlotsFit, NEW r \in Threads, Gate!Release(r)
  PROVE  SlotsFit'
<1>1. /\ Gate!At(r, {"return"}) /\ "decoder" \in request[r].holds
      /\ request' = [request EXCEPT ![r] = [request[r] EXCEPT !.left = Tail(request[r].left),
                                                !.holds = request[r].holds \ {"decoder"}]]
      /\ free' = [free EXCEPT !["decoder"] = @ + 1]
  BY ReleaseDoes
<1>2. Gate!Present(r) /\ request[r] \in Visit
  BY <1>1, AtItsGate
<1>3. /\ Gate!Present(r)' /\ request'[r].holds = request[r].holds \ {"decoder"}
      /\ \A q \in Threads : q # r => request'[q] = request[q]
  <2>1. /\ request'[r] = [request[r] EXCEPT !.left = Tail(request[r].left),
                                    !.holds = request[r].holds \ {"decoder"}]
        /\ \A q \in Threads : q # r => request'[q] = request[q]
    BY <1>1 DEF RequestsFit
  <2>2. request'[r].holds = request[r].holds \ {"decoder"} /\ request'[r].n = request[r].n
    BY <1>2, <2>1 DEF Visit
  <2>3. request[r].n # 0
    BY <1>2, PresentIsVisit
  <2>4. Gate!Away.n = 0
    BY DEF Gate!Away
  <2>5. Gate!Present(r)'
    BY <2>2, <2>3, <2>4 DEF Gate!Present
  <2> QED BY <2>1, <2>2, <2>5
<1>4. ASSUME NEW p \in Gate!Pools
      PROVE  /\ Gate!IsFiniteSet(Holders(p)')
                   /\ free'[p] + Gate!Cardinality(Holders(p)') = Gate!Size[p]
             /\ free'[p] \in Nat
  <2>1. /\ Gate!IsFiniteSet(Holders(p)) /\ Gate!Cardinality(Holders(p)) \in Nat /\ free[p] \in Nat
        /\ free[p] + Gate!Cardinality(Holders(p)) = Gate!Size[p]
    BY FS_CardinalityType, GateCount DEF SlotsFit
  <2>2. CASE p = "decoder"
    <3>1. Holders(p)' = Holders(p) \ {r} /\ r \in Holders(p)
      BY <1>1, <1>2, <1>3, <2>2 DEF Holders, Gate!Present
    <3>2. free'[p] = free[p] + 1
      BY <1>1, <2>2 DEF SlotsFit
    <3>3. /\ Gate!IsFiniteSet(Holders(p) \ {r})
          /\ Gate!Cardinality(Holders(p) \ {r}) = Gate!Cardinality(Holders(p)) - 1
      BY <2>1, <3>1, FS_RemoveElement, GateCount
    <3> QED BY <2>1, <3>1, <3>2, <3>3
  <2>3. CASE p # "decoder"
    <3>1. Holders(p)' = Holders(p)
      BY <1>2, <1>3, <2>3 DEF Holders, Gate!Present
    <3>2. free'[p] = free[p]
      BY <1>1, <2>3 DEF SlotsFit
    <3> QED BY <2>1, <3>1, <3>2
  <2> QED BY <2>2, <2>3
<1>5. free' \in [Gate!Pools -> Nat]
  <2>1. "decoder" \in Gate!Pools
    BY DEF Gate!Pools, Gate!Size
  <2>2. free' = [free EXCEPT !["decoder"] = free'["decoder"]]
    BY <1>1, <2>1 DEF SlotsFit
  <2> QED BY <1>4, <2>1, <2>2 DEF SlotsFit
<1> QED
  BY <1>4, <1>5 DEF SlotsFit

-----------------------------------------------------------------------------
(* The invariant.                                                             *)

\* At first nobody has come.
LEMMA GateInitHasInvariant ==
  ASSUME Gate!ConstantsAreValid, Gate!Init PROVE GateInvariant
<1>1. /\ offered \subseteq Gate!Routes /\ arrivals = 0 /\ receipts = {} /\ free = Gate!Size
      /\ request = [r \in Threads |-> Gate!Away]
  BY DEF Gate!Init
<1>2. \A r \in Threads : ~Gate!Present(r)
  BY <1>1 DEF Gate!Present
<1>3. RequestsFit
  BY <1>1, <1>2 DEF RequestsFit
<1>4. ReceiptsFit
  BY <1>1, FS_EmptySet, GateCount DEF ReceiptsFit
<1>5. SlotsFit
  <2>1. \A p \in Gate!Pools : Holders(p) = {}
    BY <1>2 DEF Holders
  <2>2. Gate!Size \in [Gate!Pools -> Nat]
    BY GateNumbers
  <2>3. ASSUME NEW p \in Gate!Pools
        PROVE  Gate!IsFiniteSet(Holders(p)) /\ free[p] + Gate!Cardinality(Holders(p)) = Gate!Size[p]
    <3>1. Gate!IsFiniteSet(Holders(p)) /\ Gate!Cardinality(Holders(p)) = 0
      BY <2>1, FS_EmptySet, GateCount
    <3>2. free[p] = Gate!Size[p] /\ Gate!Size[p] \in Nat
      BY <1>1, <2>2
    <3> QED BY <3>1, <3>2
  <2> QED BY <1>1, <2>2, <2>3 DEF SlotsFit
<1> QED
  BY <1>3, <1>4, <1>5 DEF GateInvariant

\* Every step of a request, and the next window, keep the invariant.
LEMMA GateStepKeepsInvariant ==
  ASSUME Gate!ConstantsAreValid, GateInvariant, [Gate!Next]_(Gate!vars) PROVE GateInvariant'
<1> USE DEF GateInvariant
<1>1. CASE UNCHANGED Gate!vars
  <2>1. RequestsFit'
    BY <1>1 DEF Gate!vars, RequestsFit, Standing, Matches, Gate!Present
  <2>2. ReceiptsFit'
    BY <1>1, SameReceipts DEF Gate!vars, RequestsFit
  <2>3. SlotsFit'
    BY <1>1, SameHolders DEF Gate!vars, Gate!Present
  <2> QED BY <2>1, <2>2, <2>3
<1>2. CASE Gate!NewWindow
  <2>1. /\ \A r \in Threads : ~Gate!Present(r) /\ ~Gate!Present(r)'
        /\ request' = request /\ offered' = offered /\ receipts' = {} /\ arrivals' = 0
              /\ free' = free
    BY <1>2 DEF Gate!NewWindow, Gate!Present
  <2>2. RequestsFit'
    BY <2>1 DEF RequestsFit
  <2>3. ReceiptsFit'
    BY <2>1, FS_EmptySet, GateCount DEF ReceiptsFit
  <2>4. SlotsFit'
    BY <2>1, SameHolders
  <2> QED BY <2>2, <2>3, <2>4
<1>3. ASSUME NEW r \in Threads, Gate!Arrive(r) PROVE GateInvariant'
  <2>1. RequestsFit'
    BY <1>3, ArriveKeepsRequests
  <2>2. ReceiptsFit'
    BY <1>3, SameReceipts DEF Gate!Arrive, RequestsFit
  <2>3. SlotsFit'
    <3>1. /\ ~Gate!Present(r) /\ free' = free /\ request'[r].holds = {}
          /\ \A q \in Threads : q # r => request'[q] = request[q]
      BY <1>3 DEF Gate!Arrive, Gate!Present, RequestsFit
    <3> QED BY <3>1, SameHolders DEF Gate!Present
  <2> QED BY <2>1, <2>2, <2>3
<1>4. ASSUME NEW r \in Threads, Gate!Charge(r) PROVE GateInvariant'
  <2>1. RequestsFit'
    BY <1>4, ChargeKeepsRequests
  <2>2. ReceiptsFit'
    BY <1>4, ChargeKeepsReceipts
  <2>3. SlotsFit'
    <3>1. Gate!At(r, {"peer", "user", "name"})
      BY <1>4, ChargeDoes
    <3>2. Gate!Present(r) /\ request[r] \in Visit
      BY <3>1, AtItsGate
    <3>3. CASE Gate!Leave(r)
      BY <3>2, <3>3, LeaveKeepsSlots
    <3>4. CASE ~Gate!Leave(r)
      <4>1. /\ free' = free
            /\ request' = [request EXCEPT ![r] = [request[r] EXCEPT !.left = Tail(request[r].left)]]
        BY <1>4, <3>4, ChargeDoes
      <4>2. /\ request'[r] = [request[r] EXCEPT !.left = Tail(request[r].left)]
            /\ \A q \in Threads : q # r => request'[q] = request[q]
        BY <4>1 DEF RequestsFit
      <4>3. request'[r].holds = request[r].holds /\ request'[r].n = request[r].n
        BY <3>2, <4>2 DEF Visit
      <4>4. Gate!Present(r)'
        <5>1. request[r].n # 0
          BY <3>2, PresentIsVisit
        <5>2. Gate!Away.n = 0
          BY DEF Gate!Away
        <5> QED BY <4>3, <5>1, <5>2 DEF Gate!Present
      <4> QED BY <3>2, <4>1, <4>2, <4>3, <4>4, SameHolders DEF Gate!Present
    <3> QED BY <3>3, <3>4
  <2> QED BY <2>1, <2>2, <2>3
<1>5. ASSUME NEW r \in Threads, Gate!Pass(r) PROVE GateInvariant'
  <2>1. RequestsFit'
    BY <1>5, PassKeepsRequests
  <2>2. ReceiptsFit'
    BY <1>5, SameReceipts DEF Gate!Pass, RequestsFit
  <2>3. SlotsFit'
    <3>1. /\ Gate!At(r, {"check"}) /\ free' = free
          /\ request' = [request EXCEPT ![r].left = Tail(@), ![r].signedIn = @ \/ Gate!Gate(r) = Gate!Bearer]
      BY <1>5 DEF Gate!Pass
    <3>2. Gate!Present(r) /\ request[r] \in Visit
      BY <3>1, AtItsGate
    <3>3. request' = [request EXCEPT ![r] = [request[r] EXCEPT !.left = Tail(request[r].left),
                                       !.signedIn = request[r].signedIn \/ Gate!Gate(r) = Gate!Bearer]]
      BY <3>1, <3>2 DEF RequestsFit, Visit
    <3>4. /\ request'[r] = [request[r] EXCEPT !.left = Tail(request[r].left),
                                       !.signedIn = request[r].signedIn \/ Gate!Gate(r) = Gate!Bearer]
          /\ \A q \in Threads : q # r => request'[q] = request[q]
      BY <3>3 DEF RequestsFit
    <3>5. request'[r].holds = request[r].holds /\ request'[r].n = request[r].n
      BY <3>2, <3>4 DEF Visit
    <3>6. Gate!Present(r)'
      <4>1. request[r].n # 0
        BY <3>2, PresentIsVisit
      <4>2. Gate!Away.n = 0
        BY DEF Gate!Away
      <4> QED BY <3>5, <4>1, <4>2 DEF Gate!Present
    <3> QED BY <3>1, <3>2, <3>4, <3>5, <3>6, SameHolders DEF Gate!Present
  <2> QED BY <2>1, <2>2, <2>3
<1>6. ASSUME NEW r \in Threads, Gate!Present(r), Gate!Leave(r), UNCHANGED <<offered, arrivals>>
      PROVE  GateInvariant'
  <2>1. RequestsFit'
    BY <1>6, LeaveKeepsRequests
  <2>2. ReceiptsFit'
    BY <1>6, SameReceipts DEF Gate!Leave, RequestsFit
  <2>3. SlotsFit'
    BY <1>6, LeaveKeepsSlots
  <2> QED BY <2>1, <2>2, <2>3
<1>7. ASSUME NEW r \in Threads, Gate!Refuse(r) PROVE GateInvariant'
  BY <1>6, <1>7 DEF Gate!Refuse, Gate!At
<1>8. ASSUME NEW r \in Threads, Gate!Finish(r) PROVE GateInvariant'
  BY <1>6, <1>8 DEF Gate!Finish
<1>9. ASSUME NEW r \in Threads, Gate!Acquire(r) PROVE GateInvariant'
  <2>1. RequestsFit'
    BY <1>9, AcquireKeepsRequests
  <2>2. ReceiptsFit'
    <3>1. receipts' = receipts /\ arrivals' = arrivals
      BY <1>9, AcquireDoes DEF Gate!Leave
    <3> QED BY <3>1, SameReceipts DEF RequestsFit
  <2>3. SlotsFit'
    BY <1>9, AcquireKeepsSlots
  <2> QED BY <2>1, <2>2, <2>3
<1>10. ASSUME NEW r \in Threads, Gate!Release(r) PROVE GateInvariant'
  <2>1. RequestsFit'
    BY <1>10, ReleaseKeepsRequests
  <2>2. ReceiptsFit'
    <3>1. receipts' = receipts /\ arrivals' = arrivals
      BY <1>10, ReleaseDoes
    <3> QED BY <3>1, SameReceipts DEF RequestsFit
  <2>3. SlotsFit'
    BY <1>10, ReleaseKeepsSlots
  <2> QED BY <2>1, <2>2, <2>3
<1> QED
  BY <1>1, <1>2, <1>3, <1>4, <1>5, <1>7, <1>8, <1>9, <1>10 DEF Gate!Next

\* What a peer takes from the budget of an account is paired with what it spends.
LEMMA PeersPayFirst ==
  ASSUME Gate!ConstantsAreValid, GateInvariant PROVE Gate!AccountsAreProtected
<1> SUFFICES ASSUME NEW e \in receipts
             PROVE  /\ e.gate.by = "user" => e.signedIn
                    /\ e.gate.by # "peer" /\ e.gate # Gate!User("logout-all") =>
                         Gate!Cardinality(Gate!Taken(e.from, e.gate)) <= PeerLimit
  BY DEF Gate!AccountsAreProtected
<1>1. \A f \in receipts : ReceiptFits(f)
  BY DEF GateInvariant, ReceiptsFit
<1>2. e.gate.by = "user" => e.signedIn
  BY <1>1 DEF ReceiptFits
<1>3. ASSUME e.gate.by # "peer", e.gate # Gate!User("logout-all")
      PROVE  Gate!Cardinality(Gate!Taken(e.from, e.gate)) <= PeerLimit
  <2> DEFINE peer == PeerOf(e.gate)
             S == Gate!Taken(e.from, e.gate)
             T == Gate!Spent(peer, e.from)
             Beside(x) == CHOOSE f \in receipts : f.gate = peer /\ f.key = e.from /\ f.n = x.n
             pair == [x \in S |-> Beside(x)]
  <2>1. ASSUME NEW x \in S PROVE Beside(x) \in T /\ Beside(x).n = x.n
    <3>1. x \in receipts /\ x.gate = e.gate /\ x.from = e.from
      BY DEF Gate!Taken
    <3>2. \E f \in receipts : f.gate = peer /\ f.key = e.from /\ f.n = x.n
      BY <1>1, <1>3, <3>1 DEF ReceiptFits
    <3>3. Beside(x) \in receipts /\ Beside(x).gate = peer /\ Beside(x).key = e.from
                                       /\ Beside(x).n = x.n
      <4> HIDE DEF peer
      <4> QED BY <3>2
    <3> QED BY <3>3 DEF Gate!Spent
  <2>2. ASSUME NEW x \in S, NEW y \in S, x.n = y.n PROVE x = y
    <3>1. x \in receipts /\ y \in receipts /\ x.gate = e.gate /\ y.gate = e.gate
      BY DEF Gate!Taken
    <3> QED BY <1>1, <1>3, <2>2, <3>1 DEF ReceiptFits
  <2>3. pair \in [S -> T] /\ \A x \in S : pair[x].n = x.n
    <3> HIDE DEF S, T, Beside
    <3> QED BY <2>1
  <2> HIDE DEF pair, S, T
  <2>4. pair \in Injection(S, T)
    BY <2>2, <2>3 DEF Injection, IsInjective
  <2>5. Gate!IsFiniteSet(receipts) /\ T \subseteq receipts /\ S \subseteq receipts
    BY DEF GateInvariant, ReceiptsFit, T, S, Gate!Spent, Gate!Taken
  <2>6. Gate!IsFiniteSet(T) /\ Gate!IsFiniteSet(S)
    BY <2>5, FS_Subset, GateCount
  <2>7. Gate!Cardinality(S) <= Gate!Cardinality(T)
    BY <2>4, <2>6, FS_Injection, GateCount
  <2>8. Gate!Cardinality(T) <= PeerLimit
    <3>1. e \in S
      BY DEF S, Gate!Taken
    <3>2. Beside(e) \in receipts /\ Beside(e).gate = peer /\ Beside(e).key = e.from
      BY <2>1, <3>1 DEF T, Gate!Spent
    <3>3. Gate!Cardinality(Gate!Spent(Beside(e).gate, Beside(e).key)) <= Gate!Limit(Beside(e).gate)
      BY <1>1, <3>2 DEF ReceiptFits
    <3>4. Gate!Limit(peer) = PeerLimit
      BY DEF Gate!Limit, PeerOf, Gate!Peer
    <3> QED BY <3>2, <3>3, <3>4 DEF T
  <2>9. Gate!Cardinality(S) \in Nat /\ Gate!Cardinality(T) \in Nat /\ PeerLimit \in Nat
    BY <2>6, FS_CardinalityType, GateCount, GateNumbers
  <2> QED BY <2>7, <2>8, <2>9 DEF S
<1> QED
  BY <1>2, <1>3

\* Who stands before a decoder holds a slot of images, as all who have one do, and
\* of those there are no more than decoders.
LEMMA ADecoderIsFree ==
  ASSUME Gate!ConstantsAreValid, GateInvariant PROVE Gate!SlotsComeBack
<1>1. /\ free \in [Gate!Pools -> Nat]
      /\ \A p \in Gate!Pools : Gate!IsFiniteSet(Holders(p))
            /\ free[p] + Gate!Cardinality(Holders(p)) = Gate!Size[p]
  BY DEF GateInvariant, SlotsFit
<1>2. ASSUME NEW r \in Threads, Gate!At(r, {"take"}), Gate!Gate(r).of = "decoder"
      PROVE  free["decoder"] > 0
  <2>1. "images" \in Gate!Pools /\ "decoder" \in Gate!Pools /\ Gate!Size \in [Gate!Pools -> Nat]
                                      /\ Gate!Size["images"] <= Gate!Size["decoder"]
    BY GateNumbers
  <2>0. RequestsFit
    BY DEF GateInvariant
  <2>2. Gate!Present(r) /\ Gate!Gate(r) \in AnyGate /\ Gate!Gate(r).by = "take"
    BY <1>2, <2>0, AtItsGate
  <2>3. PICK passed \in SUBSET AnyGate : Matches(r, passed) /\ InTurn(Gate!Gate(r), passed)
    BY <1>2, <2>0, AtItsGate
  <2>4. Gate!Gate(r) = Gate!Take("decoder")
    BY <1>2, <2>2 DEF AnyGate, Gate!Take
  <2>5. /\ Gate!Take("decoder") \notin passed /\ Gate!Take("images") \in passed
              /\ Gate!Return("images") \notin passed
    BY <1>2, <2>2, <2>3, <2>4 DEF InTurn, Matches
  <2>6. r \notin Holders("decoder") /\ r \in Holders("images")
    BY <2>1, <2>2, <2>3, <2>5 DEF Holders, Matches
  <2>7. Holders("decoder") \cup {r} \subseteq Holders("images")
    <3> SUFFICES ASSUME NEW q \in Holders("decoder") PROVE q \in Holders("images")
      BY <2>6
    <3>1. q \in Threads /\ Gate!Present(q) /\ "decoder" \in request[q].holds
      BY DEF Holders
    <3>2. PICK done \in SUBSET AnyGate : Matches(q, done)
      BY <3>1 DEF GateInvariant, RequestsFit, Standing
    <3>3. "images" \in request[q].holds
      BY <2>1, <3>1, <3>2 DEF Matches
    <3> QED BY <3>1, <3>3 DEF Holders
  <2>8. /\ Gate!IsFiniteSet(Holders("decoder")) /\ Gate!IsFiniteSet(Holders("images"))
        /\ Gate!Cardinality(Holders("decoder")) \in Nat
              /\ Gate!Cardinality(Holders("images")) \in Nat
    BY <1>1, <2>1, FS_CardinalityType, GateCount
  <2>9. Gate!Cardinality(Holders("decoder") \cup {r}) = Gate!Cardinality(Holders("decoder")) + 1
    BY <2>6, <2>8, FS_AddElement, GateCount
  <2>10. Gate!Cardinality(Holders("decoder") \cup {r}) <= Gate!Cardinality(Holders("images"))
    BY <2>7, <2>8, FS_Subset, GateCount
  <2>11. free["decoder"] \in Nat /\ free["images"] \in Nat /\ Gate!Size["images"] \in Nat
                                       /\ Gate!Size["decoder"] \in Nat
    BY <1>1, <2>1
  <2>12. /\ free["decoder"] + Gate!Cardinality(Holders("decoder")) = Gate!Size["decoder"]
         /\ free["images"] + Gate!Cardinality(Holders("images")) = Gate!Size["images"]
    BY <1>1, <2>1
  <2> QED BY <2>1, <2>8, <2>9, <2>10, <2>11, <2>12
<1> QED
  BY <1>1, <1>2 DEF Gate!SlotsComeBack, Holders

-----------------------------------------------------------------------------
(* The inboxes of a development service (module CodeInbox).                     *)

\* The instance's finite sets and cardinalities are those of the library.
LEMMA InboxCount ==
  /\ \A S : Inbox!IsFiniteSet(S) <=> IsFiniteSet(S)
  /\ \A S : Inbox!Cardinality(S) = Cardinality(S)
  BY DEF Inbox!IsFiniteSet, IsFiniteSet, Inbox!Cardinality, Cardinality

\* Some position has any rank there is.
LEMMA EveryRankIsTaken ==
  ASSUME NEW n \in Nat, NEW kept \in SUBSET (1..n), NEW k \in 1..Inbox!Cardinality(kept)
  PROVE  \E i \in kept : Inbox!Cardinality({j \in kept : j <= i}) = k
<1> DEFINE upto(i) == {j \in kept : j <= i}
           rank == [i \in kept |-> Inbox!Cardinality(upto(i))]
<1>1. Inbox!IsFiniteSet(kept) /\ Inbox!Cardinality(kept) \in Nat /\ kept \subseteq Nat
  <2>1. Inbox!IsFiniteSet(1..n)
    BY FS_Interval, InboxCount
  <2>2. Inbox!IsFiniteSet(kept)
    BY <2>1, FS_Subset, InboxCount
  <2> QED BY <2>2, FS_CardinalityType, InboxCount
<1>2. \A i \in kept : /\ Inbox!IsFiniteSet(upto(i)) /\ Inbox!Cardinality(upto(i)) \in Nat
                      /\ Inbox!Cardinality(upto(i)) <= Inbox!Cardinality(kept)
                            /\ Inbox!Cardinality(upto(i)) # 0
  <2> SUFFICES ASSUME NEW i \in kept
               PROVE  /\ Inbox!IsFiniteSet(upto(i)) /\ Inbox!Cardinality(upto(i)) \in Nat
                      /\ Inbox!Cardinality(upto(i)) <= Inbox!Cardinality(kept)
                            /\ Inbox!Cardinality(upto(i)) # 0
    OBVIOUS
  <2>1. upto(i) \subseteq kept /\ i \in upto(i)
    BY <1>1
  <2> HIDE DEF upto
  <2> QED BY <1>1, <2>1, FS_Subset, FS_CardinalityType, FS_EmptySet, InboxCount
<1>3. rank \in [kept -> 1..Inbox!Cardinality(kept)]
  <2> HIDE DEF upto
  <2> QED BY <1>1, <1>2
<1>4. ASSUME NEW i \in kept, NEW j \in kept, i < j PROVE rank[i] < rank[j]
  <2>1. upto(i) \subseteq upto(j) \ {j} /\ j \in upto(j)
    <3>1. i \in Nat /\ j \in Nat
      BY <1>1
    <3>2. \A x \in upto(i) : x \in kept /\ x \in Nat /\ x <= i
      BY <1>1
    <3>3. \A x \in upto(i) : x <= j /\ x # j
      <4> HIDE DEF upto
      <4> QED BY <1>4, <3>1, <3>2
    <3>4. \A x \in upto(i) : x \in kept
      OBVIOUS
    <3>5. j \in upto(j)
      BY <3>1
    <3>6. \A x \in kept : x <= j => x \in upto(j)
      OBVIOUS
    <3> HIDE DEF upto
    <3> QED BY <3>3, <3>4, <3>5, <3>6
  <2>2. /\ Inbox!IsFiniteSet(upto(j) \ {j})
        /\ Inbox!Cardinality(upto(j) \ {j}) = Inbox!Cardinality(upto(j)) - 1
    <3> HIDE DEF upto
    <3> QED BY <1>2, <2>1, FS_RemoveElement, InboxCount
  <2>3. Inbox!Cardinality(upto(i)) <= Inbox!Cardinality(upto(j) \ {j})
    <3> HIDE DEF upto
    <3> QED BY <2>1, <2>2, FS_Subset, InboxCount
  <2> HIDE DEF upto
  <2> QED BY <1>2, <2>2, <2>3
<1>5. rank \in Injection(kept, 1..Inbox!Cardinality(kept))
  <2> HIDE DEF rank
  <2>1. \A i, j \in kept : rank[i] = rank[j] => i = j
    <3> SUFFICES ASSUME NEW i \in kept, NEW j \in kept, rank[i] = rank[j], i # j PROVE FALSE
      OBVIOUS
    <3>1. rank[i] \in Int /\ rank[j] \in Int /\ i \in Nat /\ j \in Nat
      BY <1>1, <1>3
    <3>2. CASE i < j
      BY <1>4, <3>1, <3>2
    <3>3. CASE j < i
      BY <1>4, <3>1, <3>3
    <3> QED BY <3>1, <3>2, <3>3
  <2> QED BY <1>3, <2>1 DEF Injection, IsInjective
<1>6. rank \in Surjection(kept, 1..Inbox!Cardinality(kept))
  <2>1. /\ Inbox!IsFiniteSet(1..Inbox!Cardinality(kept))
        /\ Inbox!Cardinality(1..Inbox!Cardinality(kept)) = Inbox!Cardinality(kept)
    BY <1>1, FS_Interval, InboxCount
  <2> HIDE DEF rank
  <2> QED BY <1>5, <2>1, FS_Injection, InboxCount
<1>7. PICK i \in kept : rank[i] = k
  <2> HIDE DEF rank
  <2> QED BY <1>6 DEF Surjection
<1> QED
  BY <1>7

\* A message that is stored.
Message == [to: Accounts, code: Nat, sent: Nat, available: Nat, expires: Nat]

\* The messages kept are messages of the inbox, no two of them from one position.
LEMMA OnlySomeMessages ==
  ASSUME messages \in Seq(Message), NEW kept \in SUBSET DOMAIN messages
  PROVE  /\ Inbox!Only(kept) \in Seq(Message) /\ Len(Inbox!Only(kept)) = Inbox!Cardinality(kept)
         /\ Inbox!Cardinality(kept) \in Nat /\ Inbox!Cardinality(kept) <= Len(messages)
         /\ \A k \in DOMAIN Inbox!Only(kept) : \E i \in kept : Inbox!Only(kept)[k] = messages[i]
         /\ \A k, l \in DOMAIN Inbox!Only(kept) : k # l =>
              \E i, j \in kept : i # j /\ Inbox!Only(kept)[k] = messages[i]
                                             /\ Inbox!Only(kept)[l] = messages[j]
<1> DEFINE n == Len(messages)
           at == [k \in 1..Inbox!Cardinality(kept) |->
                    CHOOSE i \in kept : Inbox!Cardinality({j \in kept : j <= i}) = k]
<1>1. n \in Nat /\ DOMAIN messages = 1..n
  BY LenProperties
<1>2. Inbox!Cardinality(kept) \in Nat /\ Inbox!Cardinality(kept) <= n
  <2> HIDE DEF n
  <2>1. Inbox!IsFiniteSet(1..n) /\ Inbox!Cardinality(1..n) = n
    BY <1>1, FS_Interval, InboxCount
  <2>2. Inbox!IsFiniteSet(kept) /\ Inbox!Cardinality(kept) <= n
    BY <1>1, <2>1, FS_Subset, InboxCount
  <2> QED BY <2>2, FS_CardinalityType, InboxCount
<1>3. \A k \in 1..Inbox!Cardinality(kept) :
        at[k] \in kept /\ Inbox!Cardinality({j \in kept : j <= at[k]}) = k
  <2> SUFFICES ASSUME NEW k \in 1..Inbox!Cardinality(kept)
               PROVE  at[k] \in kept /\ Inbox!Cardinality({j \in kept : j <= at[k]}) = k
    OBVIOUS
  <2>1. \E i \in kept : Inbox!Cardinality({j \in kept : j <= i}) = k
    <3> HIDE DEF n
    <3> QED BY <1>1, EveryRankIsTaken
  <2> QED BY <2>1
<1>4. Inbox!Only(kept) = [k \in 1..Inbox!Cardinality(kept) |-> messages[at[k]]]
  BY DEF Inbox!Only
<1>5. \A k, l \in 1..Inbox!Cardinality(kept) : k # l => at[k] # at[l]
  <2> HIDE DEF at
  <2> QED BY <1>3
<1>6. \A i \in kept : messages[i] \in Message
  BY <1>1, ElementOfSeq
<1> HIDE DEF at, n
<1>7. Inbox!Only(kept) \in Seq(Message) /\ Len(Inbox!Only(kept)) = Inbox!Cardinality(kept)
      /\ DOMAIN Inbox!Only(kept) = 1..Inbox!Cardinality(kept)
  <2> DEFINE c == Inbox!Cardinality(kept)
  <2>1. c \in Nat /\ \A k \in 1..c : messages[at[k]] \in Message
    BY <1>2, <1>3, <1>6
  <2>2. Inbox!Only(kept) = [k \in 1..c |-> messages[at[k]]]
    BY <1>4
  <2> HIDE DEF c
  <2>3. Inbox!Only(kept) \in Seq(Message)
    BY <2>1, <2>2, IsASeq
  <2>4. DOMAIN Inbox!Only(kept) = 1..c
    BY <2>2
  <2>5. Len(Inbox!Only(kept)) = c
    BY <2>1, <2>3, <2>4, LenProperties
  <2> QED BY <2>3, <2>4, <2>5 DEF c
<1>8. \A k \in 1..Inbox!Cardinality(kept) : Inbox!Only(kept)[k] = messages[at[k]]
  BY <1>4
<1>9. \A k \in DOMAIN Inbox!Only(kept) : \E i \in kept : Inbox!Only(kept)[k] = messages[i]
  BY <1>3, <1>7, <1>8
<1>10. \A k, l \in DOMAIN Inbox!Only(kept) : k # l =>
         \E i, j \in kept : i # j /\ Inbox!Only(kept)[k] = messages[i]
                                        /\ Inbox!Only(kept)[l] = messages[j]
  <2> TAKE k, l \in DOMAIN Inbox!Only(kept)
  <2>1. k \in 1..Inbox!Cardinality(kept) /\ l \in 1..Inbox!Cardinality(kept)
    BY <1>7
  <2> HAVE k # l
  <2>2. at[k] \in kept /\ at[l] \in kept /\ at[k] # at[l]
    BY <1>3, <1>5, <2>1
  <2>3. Inbox!Only(kept)[k] = messages[at[k]] /\ Inbox!Only(kept)[l] = messages[at[l]]
    BY <1>8, <2>1
  <2> QED BY <2>2, <2>3
<1> QED
  BY <1>2, <1>7, <1>9, <1>10 DEF n

-----------------------------------------------------------------------------

Calls == [op: {"add", "latest", "consume", "spend"}, to: Accounts, code: Nat, at: Nat]

\* When a message was stored, when it may be shown and when it ends.
TimesOf(m) ==
    /\ m.sent <= now /\ m.available = m.sent + Delay
    /\ channel # "sms" => m.expires <= m.sent + Lifetime

MessagesFit == \A i \in DOMAIN messages : TimesOf(messages[i])

\* No recipient has two messages.
OneMessageEach ==
    \A i, j \in DOMAIN messages : i # j => messages[i].to # messages[j].to

\* A call that waits is one a running service takes, and has not waited too long.
CallFits(t) ==
    asked[t] # Inbox!Quiet =>
        /\ service = "running" /\ asked[t].at <= now /\ now <= asked[t].at + MaxDelay
        /\ asked[t].op = "latest" => Inbox!Mounted

InboxInvariant ==
    /\ now \in Nat /\ codes \in Nat
    /\ asked \in [Threads -> Calls \cup {Inbox!Quiet}]
    /\ messages \in Seq(Message) /\ Len(messages) <= Capacity
    /\ MessagesFit
    /\ OneMessageEach
    /\ \A t \in Threads : CallFits(t)
    /\ service = "running" => Inbox!FakeIsSafe(settings) /\ Inbox!SecretIsSafe(settings)

\* The bounds.
LEMMA InboxNumbers ==
  ASSUME Inbox!ConstantsAreValid
  PROVE  /\ Delay \in Nat /\ Ttl \in Nat /\ Lifetime \in Nat /\ Capacity \in Nat
               /\ MaxDelay \in Nat
         /\ Capacity > 0
  BY DEF Inbox!ConstantsAreValid

\* What a waiting call has.
LEMMA WaitingCalls ==
  ASSUME InboxInvariant, NEW t \in Threads, asked[t].op # "none"
  PROVE  /\ asked[t] \in Calls /\ asked[t].to \in Accounts /\ asked[t].code \in Nat
               /\ asked[t].at \in Nat
         /\ asked[t].at <= now /\ now <= asked[t].at + MaxDelay /\ service = "running"
<1>1. asked[t] \in Calls
  BY DEF InboxInvariant, Inbox!Quiet
<1>2. asked[t] # Inbox!Quiet
  BY DEF Inbox!Quiet
<1> QED
  BY <1>1, <1>2 DEF InboxInvariant, CallFits, Calls

\* Messages that are kept fit as before.
LEMMA KeptFit ==
  ASSUME Inbox!ConstantsAreValid, InboxInvariant, NEW kept \in SUBSET DOMAIN messages,
         messages' = Inbox!Only(kept),
         UNCHANGED <<channel, now>>
  PROVE  /\ messages' \in Seq(Message) /\ Len(messages') <= Capacity
         /\ MessagesFit'
         /\ OneMessageEach'
<1> USE DEF InboxInvariant
<1>1. Inbox!Only(kept) \in Seq(Message) /\ Len(Inbox!Only(kept)) <= Len(messages)
                                              /\ Len(messages) \in Nat
      /\ Len(Inbox!Only(kept)) \in Nat
  BY OnlySomeMessages, LenProperties
<1>2. MessagesFit'
  <2> SUFFICES ASSUME NEW i \in DOMAIN messages'
               PROVE  /\ messages'[i].sent <= now'
                            /\ messages'[i].available = messages'[i].sent + Delay
                      /\ channel' # "sms" => messages'[i].expires <= messages'[i].sent + Lifetime
    BY DEF MessagesFit, TimesOf
  <2>1. PICK j \in kept : messages'[i] = messages[j]
    BY OnlySomeMessages
  <2>2. TimesOf(messages[j])
    BY DEF MessagesFit
  <2> QED BY <2>1, <2>2 DEF TimesOf
<1>3. OneMessageEach'
  <2> SUFFICES ASSUME NEW k \in DOMAIN messages', NEW l \in DOMAIN messages', k # l
               PROVE  messages'[k].to # messages'[l].to
    BY DEF OneMessageEach
  <2>1. PICK i, j \in kept : i # j /\ messages'[k] = messages[i] /\ messages'[l] = messages[j]
    BY OnlySomeMessages
  <2> QED BY <2>1 DEF OneMessageEach
<1> QED
  BY <1>1, <1>2, <1>3, InboxNumbers

\* A message is stored behind those of the others, and the oldest go.
LEMMA AddFits ==
  ASSUME Inbox!ConstantsAreValid, InboxInvariant, NEW t \in Threads, Inbox!Add(t)
  PROVE  /\ messages' \in Seq(Message) /\ Len(messages') <= Capacity
         /\ MessagesFit'
         /\ OneMessageEach'
<1> USE DEF InboxInvariant
<1> DEFINE c == asked[t]
           kept == {i \in Inbox!Live(c.at) : messages[i].to # c.to}
           m == [to |-> c.to, code |-> c.code, sent |-> c.at,
                 available |-> c.at + Delay, expires |-> Inbox!Expiry(c.at)]
           old == Inbox!Only(kept)
           long == Append(old, m)
<1>1. c.to \in Accounts /\ c.code \in Nat /\ c.at \in Nat /\ c.at <= now
  BY WaitingCalls DEF Inbox!Add
<1>2. m \in Message /\ TimesOf(m)
  <2>1. Inbox!Expiry(c.at) \in Nat /\ (channel # "sms" => Inbox!Expiry(c.at) <= c.at + Lifetime)
    BY <1>1, InboxNumbers DEF Inbox!Expiry
  <2> QED BY <1>1, <2>1, InboxNumbers DEF Message, TimesOf
<1>3. kept \in SUBSET DOMAIN messages /\ MessagesFit /\ \A i \in kept : messages[i].to # m.to
  BY DEF Inbox!Live
<1>4. messages' = Inbox!Newest(long) /\ UNCHANGED <<channel, now>>
  BY DEF Inbox!Add, Inbox!Done
<1> HIDE DEF c, kept, m
<1>5. /\ old \in Seq(Message) /\ Len(old) \in Nat
      /\ \A k \in 1..Len(old) : TimesOf(old[k]) /\ old[k].to # m.to
      /\ \A k, l \in 1..Len(old) : k # l => old[k].to # old[l].to
  <2>1. /\ old \in Seq(Message)
        /\ \A k \in DOMAIN old : \E i \in kept : old[k] = messages[i]
        /\ \A k, l \in DOMAIN old : k # l =>
              \E i, j \in kept : i # j /\ old[k] = messages[i] /\ old[l] = messages[j]
    BY <1>3, OnlySomeMessages
  <2> HIDE DEF old
  <2>2. DOMAIN old = 1..Len(old) /\ Len(old) \in Nat
    BY <2>1, LenProperties
  <2>3. \A k \in 1..Len(old) : TimesOf(old[k]) /\ old[k].to # m.to
    <3> TAKE k \in 1..Len(old)
    <3>1. PICK i \in kept : old[k] = messages[i]
      BY <2>1, <2>2
    <3> QED BY <1>3, <3>1 DEF MessagesFit
  <2>4. \A k, l \in 1..Len(old) : k # l => old[k].to # old[l].to
    <3> TAKE k, l \in 1..Len(old)
    <3> HAVE k # l
    <3>1. PICK i, j \in kept : i # j /\ old[k] = messages[i] /\ old[l] = messages[j]
      BY <2>1, <2>2
    <3> QED BY <1>3, <3>1 DEF OneMessageEach
  <2> QED BY <2>1, <2>2, <2>3, <2>4
<1> HIDE DEF old
<1> DEFINE n == Len(old) + 1
<1>6. /\ long \in Seq(Message) /\ Len(long) = n /\ n \in Nat
      /\ \A k \in 1..n : k < n => long[k] = old[k]
      /\ long[n] = m
  BY <1>2, <1>5, AppendProperties
<1>7. \A k \in 1..n : long[k] \in Message /\ TimesOf(long[k])
  <2> TAKE k \in 1..n
  <2>1. k = n \/ (k < n /\ k \in 1..Len(old))
    BY <1>5
  <2> QED BY <1>2, <1>5, <1>6, <2>1, ElementOfSeq
<1>8. \A k, l \in 1..n : k # l => long[k].to # long[l].to
  <2> TAKE k, l \in 1..n
  <2> HAVE k # l
  <2>1. (k = n \/ (k < n /\ k \in 1..Len(old))) /\ (l = n \/ (l < n /\ l \in 1..Len(old)))
    BY <1>5
  <2> QED BY <1>5, <1>6, <2>1
<1> HIDE DEF long, n
<1>9. PICK shift \in Nat :
        /\ Inbox!Newest(long) \in Seq(Message) /\ Len(Inbox!Newest(long)) <= Capacity
              /\ Len(Inbox!Newest(long)) \in Nat
        /\ Len(Inbox!Newest(long)) + shift <= n
        /\ \A k \in 1..Len(Inbox!Newest(long)) : Inbox!Newest(long)[k] = long[k + shift]
  <2>1. CASE n > Capacity
    <3> DEFINE from == n - Capacity + 1
               short == SubSeq(long, from, n)
    <3>1. Inbox!Newest(long) = short
      BY <1>6, <2>1 DEF Inbox!Newest
    <3>2. from \in Nat /\ from >= 1 /\ from <= n /\ n - from + 1 = Capacity
      BY <1>6, <2>1, InboxNumbers
    <3> HIDE DEF from
    <3>3. \A i \in from..n : long[i] \in Message
      BY <1>6, <1>7, <3>2
    <3>4. short \in Seq(Message) /\ Len(short) = Capacity
          /\ \A i \in 1..Capacity : short[i] = long[from + i - 1]
      BY <1>6, <3>2, <3>3, SubSeqProperties
    <3>5. \A i \in 1..Capacity : short[i] = long[i + (from - 1)]
      BY <3>2, <3>4, InboxNumbers
    <3> HIDE DEF short
    <3>6. from - 1 \in Nat /\ Capacity + (from - 1) <= n
      BY <1>6, <3>2, InboxNumbers
    <3>7. Inbox!Newest(long) \in Seq(Message) /\ Len(Inbox!Newest(long)) = Capacity
      BY <3>1, <3>4
    <3>8. \A k \in 1..Len(Inbox!Newest(long)) : Inbox!Newest(long)[k] = long[k + (from - 1)]
      BY <3>1, <3>5, <3>7
    <3> QED BY <3>6, <3>7, <3>8, InboxNumbers
  <2>2. CASE ~(n > Capacity)
    <3> WITNESS 0 \in Nat
    <3> QED BY <1>6, <2>2, InboxNumbers DEF Inbox!Newest
  <2> QED BY <2>1, <2>2
<1>10. DOMAIN messages' = 1..Len(messages')
  BY <1>4, <1>9, LenProperties
<1>11. \A k \in 1..Len(messages') : k + shift \in 1..n /\ messages'[k] = long[k + shift]
  BY <1>4, <1>6, <1>9
<1>12. MessagesFit'
  <2> SUFFICES ASSUME NEW i \in 1..Len(messages')
               PROVE  /\ messages'[i].sent <= now'
                            /\ messages'[i].available = messages'[i].sent + Delay
                      /\ channel' # "sms" => messages'[i].expires <= messages'[i].sent + Lifetime
    BY <1>10 DEF MessagesFit, TimesOf
  <2>1. TimesOf(long[i + shift]) /\ messages'[i] = long[i + shift]
    BY <1>7, <1>11
  <2> QED BY <1>4, <2>1 DEF TimesOf
<1>13. OneMessageEach'
  <2> SUFFICES ASSUME NEW k \in 1..Len(messages'), NEW l \in 1..Len(messages'), k # l
               PROVE  messages'[k].to # messages'[l].to
    BY <1>10 DEF OneMessageEach
  <2>1. k + shift # l + shift
    BY <1>4, <1>9
  <2> QED BY <1>8, <1>11, <2>1
<1> QED
  BY <1>4, <1>9, <1>12, <1>13

\* Where messages, clock and channel stay, so does what fits.
LEMMA StoredStay ==
  ASSUME InboxInvariant, UNCHANGED <<channel, messages>>, now' \in Nat, now' >= now
  PROVE  /\ messages' \in Seq(Message) /\ Len(messages') <= Capacity
         /\ MessagesFit'
         /\ OneMessageEach'
<1> USE DEF InboxInvariant
<1>1. \A i \in DOMAIN messages : messages[i].sent \in Nat /\ TimesOf(messages[i])
  <2> TAKE i \in DOMAIN messages
  <2>1. messages[i] \in Message
    BY LenProperties, ElementOfSeq
  <2> QED BY <2>1 DEF Message, MessagesFit
<1>2. MessagesFit'
  BY <1>1 DEF TimesOf, MessagesFit
<1> QED
  BY <1>2 DEF OneMessageEach

\* Steps of the threads with the lock.
LEMMA LockedStepsKeepInvariant ==
  ASSUME Inbox!ConstantsAreValid, InboxInvariant, NEW t \in Threads,
         Inbox!Add(t) \/ Inbox!Latest(t) \/ Inbox!Consume(t) \/ Inbox!ConsumeCode(t)
  PROVE  InboxInvariant'
<1> USE DEF InboxInvariant
<1>1. UNCHANGED <<channel, settings, service, now, codes>> /\ asked' = [asked EXCEPT ![t] = Inbox!Quiet]
  BY DEF Inbox!Add, Inbox!Latest, Inbox!Consume, Inbox!ConsumeCode, Inbox!Done
<1>2. /\ messages' \in Seq(Message) /\ Len(messages') <= Capacity
      /\ MessagesFit'
      /\ OneMessageEach'
  <2>1. CASE Inbox!Add(t)
    BY <2>1, AddFits
  <2>2. CASE Inbox!Latest(t) \/ Inbox!Consume(t) \/ Inbox!ConsumeCode(t)
    <3>1. PICK kept \in SUBSET DOMAIN messages : messages' = Inbox!Only(kept)
      <4>1. Inbox!Live(asked[t].at) \in SUBSET DOMAIN messages
        BY DEF Inbox!Live
      <4>2. CASE Inbox!Latest(t)
        BY <4>1, <4>2 DEF Inbox!Latest
      <4>3. CASE Inbox!Consume(t)
        <5> DEFINE c == asked[t]
                   kept == {i \in Inbox!Live(c.at) :
                              ~(messages[i].code = c.code /\ (channel = "email" => messages[i].to = c.to))}
        <5>1. kept \in SUBSET DOMAIN messages /\ messages' = Inbox!Only(kept)
          BY <4>1, <4>3 DEF Inbox!Consume
        <5> QED BY <5>1
      <4>4. CASE Inbox!ConsumeCode(t)
        <5> DEFINE c == asked[t]
                   kept == {i \in Inbox!Live(c.at) : ~(messages[i].to = c.to /\ messages[i].code = c.code)}
        <5>1. kept \in SUBSET DOMAIN messages /\ messages' = Inbox!Only(kept)
          BY <4>1, <4>4 DEF Inbox!ConsumeCode
        <5> QED BY <5>1
      <4> QED BY <2>2, <4>2, <4>3, <4>4
    <3> QED BY <1>1, <3>1, KeptFit
  <2> QED BY <2>1, <2>2
<1>3. asked' \in [Threads -> Calls \cup {Inbox!Quiet}]
  BY <1>1
<1>4. \A u \in Threads : CallFits(u)'
  <2> TAKE u \in Threads
  <2>1. asked'[u] \in {asked[u], Inbox!Quiet} /\ Inbox!Mounted' = Inbox!Mounted /\ CallFits(u)
    BY <1>1 DEF Inbox!Mounted
  <2> QED BY <1>1, <2>1 DEF CallFits
<1>5. service' = "running" => Inbox!FakeIsSafe(settings)' /\ Inbox!SecretIsSafe(settings)'
  BY <1>1 DEF Inbox!FakeIsSafe, Inbox!SecretIsSafe
<1> QED
  BY <1>1, <1>2, <1>3, <1>4, <1>5

\* A call that begins.
LEMMA CallsKeepInvariant ==
  ASSUME Inbox!ConstantsAreValid, InboxInvariant, NEW t \in Threads, NEW r \in Accounts,
         NEW code \in Nat, NEW op \in {"add", "latest", "consume", "spend"},
         Inbox!Call(t, op, r, code), op = "latest" => Inbox!Mounted, codes' \in Nat
  PROVE  InboxInvariant'
<1> USE DEF InboxInvariant
<1>1. /\ service = "running"
      /\ asked' = [asked EXCEPT ![t] = [op |-> op, to |-> r, code |-> code, at |-> now]]
      /\ UNCHANGED <<channel, settings, service, now, messages>>
  BY DEF Inbox!Call
<1>2. asked' \in [Threads -> Calls \cup {Inbox!Quiet}]
  BY <1>1 DEF Calls
<1>3. \A u \in Threads : CallFits(u)'
  <2> TAKE u \in Threads
  <2>1. Inbox!Mounted' = Inbox!Mounted /\ CallFits(u)
    BY <1>1 DEF Inbox!Mounted
  <2>2. CASE u # t
    BY <1>1, <2>1, <2>2 DEF CallFits
  <2>3. CASE u = t
    BY <1>1, <2>1, <2>3, InboxNumbers DEF CallFits
  <2> QED BY <2>2, <2>3
<1>4. service' = "running" => Inbox!FakeIsSafe(settings)' /\ Inbox!SecretIsSafe(settings)'
  BY <1>1 DEF Inbox!FakeIsSafe, Inbox!SecretIsSafe
<1> QED
  BY <1>1, <1>2, <1>3, <1>4, StoredStay

\* Every step, and none.
LEMMA InboxStepKeepsInvariant ==
  ASSUME Inbox!ConstantsAreValid, InboxInvariant, [Inbox!Next]_(Inbox!vars) PROVE InboxInvariant'
<1> USE DEF InboxInvariant
<1>1. CASE Inbox!Start
  <2>1. UNCHANGED <<channel, settings, now, messages, asked, codes>> /\ service = "starting"
    BY <1>1 DEF Inbox!Start
  <2>2. \A t \in Threads : CallFits(t)'
    <3> TAKE t \in Threads
    <3>1. asked[t] = Inbox!Quiet
      BY <2>1 DEF CallFits
    <3> QED BY <2>1, <3>1 DEF CallFits, Inbox!Quiet
  <2>3. service' = "running" => Inbox!FakeIsSafe(settings)' /\ Inbox!SecretIsSafe(settings)'
    <3>1. service' = "running" => Inbox!FakeIsSafe(settings) /\ Inbox!SecretIsSafe(settings)
      BY <1>1 DEF Inbox!Start
    <3> QED BY <2>1, <3>1 DEF Inbox!FakeIsSafe, Inbox!SecretIsSafe
  <2> QED BY <2>1, <2>2, <2>3, StoredStay
<1>2. CASE Inbox!Tick
  <2>1. /\ UNCHANGED <<channel, settings, service, messages, asked, codes>> /\ now' = now + 1
        /\ \A t \in Threads : asked[t] # Inbox!Quiet => now - asked[t].at < MaxDelay
    BY <1>2 DEF Inbox!Tick
  <2>2. \A t \in Threads : CallFits(t)'
    <3> TAKE t \in Threads
    <3>1. asked[t] # Inbox!Quiet => asked[t].at \in Nat
      BY DEF Calls
    <3>2. Inbox!Mounted' = Inbox!Mounted /\ CallFits(t)
      BY <2>1 DEF Inbox!Mounted
    <3> QED BY <2>1, <3>1, <3>2, InboxNumbers DEF CallFits, Inbox!Quiet
  <2>3. service' = "running" => Inbox!FakeIsSafe(settings)' /\ Inbox!SecretIsSafe(settings)'
    BY <2>1 DEF Inbox!FakeIsSafe, Inbox!SecretIsSafe
  <2> QED BY <2>1, <2>2, <2>3, StoredStay
<1>3. CASE UNCHANGED Inbox!vars
  <2>1. UNCHANGED <<channel, settings, service, now, messages, asked, codes>>
    BY <1>3 DEF Inbox!vars
  <2>2. \A t \in Threads : CallFits(t)'
    BY <2>1 DEF CallFits, Inbox!Mounted
  <2>3. service' = "running" => Inbox!FakeIsSafe(settings)' /\ Inbox!SecretIsSafe(settings)'
    BY <2>1 DEF Inbox!FakeIsSafe, Inbox!SecretIsSafe
  <2> QED BY <2>1, <2>2, <2>3, StoredStay
<1>4. ASSUME NEW t \in Threads, NEW r \in Accounts, Inbox!Send(t, r) \/ Inbox!AskLatest(t,
             r) PROVE InboxInvariant'
  <2>1. CASE Inbox!Send(t, r)
    BY <2>1, CallsKeepInvariant DEF Inbox!Send
  <2>2. CASE Inbox!AskLatest(t, r)
    BY <2>2, CallsKeepInvariant DEF Inbox!AskLatest
  <2> QED BY <1>4, <2>1, <2>2
<1>5. ASSUME NEW t \in Threads, NEW r \in Accounts, NEW code \in 1..codes,
             Inbox!AskConsume(t, r, code) \/ Inbox!Spend(t, r, code)
      PROVE  InboxInvariant'
  <2>1. code \in Nat
    BY <1>5
  <2>2. CASE Inbox!AskConsume(t, r, code)
    BY <2>1, <2>2, CallsKeepInvariant DEF Inbox!AskConsume
  <2>3. CASE Inbox!Spend(t, r, code)
    BY <2>1, <2>3, CallsKeepInvariant DEF Inbox!Spend
  <2> QED BY <1>5, <2>2, <2>3
<1> HIDE DEF InboxInvariant
<1>6. CASE Inbox!Idle
  BY <1>3, <1>6 DEF Inbox!Idle
<1> QED
  BY <1>1, <1>2, <1>3, <1>4, <1>5, <1>6, LockedStepsKeepInvariant DEF Inbox!Next

\* A service that has not started has no messages.
LEMMA InboxInitHasInvariant ==
  ASSUME Inbox!ConstantsAreValid, Inbox!Init PROVE InboxInvariant
<1>1. messages \in Seq(Message) /\ Len(messages) = 0 /\ DOMAIN messages = {}
  BY EmptySeq DEF Inbox!Init
<1>2. asked \in [Threads -> Calls \cup {Inbox!Quiet}] /\ \A t \in Threads : CallFits(t)
  BY DEF Inbox!Init, CallFits
<1> QED
  BY <1>1, <1>2, InboxNumbers DEF Inbox!Init, InboxInvariant, OneMessageEach, MessagesFit

\* What may be shown.
LEMMA InboxInvariantMeans ==
  ASSUME Inbox!ConstantsAreValid, InboxInvariant PROVE Inbox!InboxShowsTheLatest
<1> USE DEF InboxInvariant
<1> SUFFICES ASSUME NEW t \in Threads, asked[t].op = "latest", NEW m \in Inbox!Shown(t)
             PROVE  /\ settings.development /\ settings.localhostOnly
                    /\ m.available <= now
                    /\ channel # "sms" => settings.strongSecret
                          /\ now < m.sent + Lifetime + MaxDelay
                    /\ \A i \in DOMAIN messages : messages[i].to = m.to => messages[i] = m
  BY DEF Inbox!InboxShowsTheLatest
<1>1. PICK j \in Inbox!Live(asked[t].at) : m = messages[j] /\ m.available <= asked[t].at
  BY DEF Inbox!Shown
<1>2. /\ j \in DOMAIN messages /\ m.expires > asked[t].at /\ TimesOf(m)
      /\ m.sent \in Nat /\ m.available \in Nat /\ m.expires \in Nat
  <2>1. m \in Message
    BY <1>1, LenProperties, ElementOfSeq DEF Inbox!Live
  <2> QED BY <1>1, <2>1 DEF Inbox!Live, Message, MessagesFit
<1>3. asked[t].at \in Nat /\ asked[t].at <= now /\ now <= asked[t].at + MaxDelay
                                /\ service = "running" /\ Inbox!Mounted
  <2>1. asked[t] # Inbox!Quiet
    BY DEF Inbox!Quiet
  <2> QED BY <2>1, WaitingCalls DEF CallFits
<1>4. settings.development /\ settings.localhostOnly /\ (channel # "sms" => settings.strongSecret)
  BY <1>3 DEF Inbox!Mounted, Inbox!FakeIsSafe, Inbox!SecretIsSafe
<1>5. m.available <= now /\ (channel # "sms" => now < m.sent + Lifetime + MaxDelay)
  <2>1. now \in Nat /\ MaxDelay \in Nat /\ Lifetime \in Nat
    BY InboxNumbers
  <2>2. m.available <= now
    BY <1>1, <1>2, <1>3, <2>1
  <2>3. ASSUME channel # "sms" PROVE m.expires <= m.sent + Lifetime
    BY <2>3, <1>2, <2>1 DEF TimesOf
  <2>4. now < m.expires + MaxDelay
    BY <1>2, <1>3, <2>1
  <2> QED BY <1>2, <2>1, <2>2, <2>3, <2>4
<1>6. \A i \in DOMAIN messages : messages[i].to = m.to => messages[i] = m
  BY <1>1, <1>2 DEF OneMessageEach
<1> QED
  BY <1>4, <1>5, <1>6

-----------------------------------------------------------------------------
(* Limiter, gates and inbox side by side: module MCAdmission, whose properties  *)
(* the run Admission checks on a small instance.                                *)

\* On the side of the gates a request has one position, and what it passed is
\* what its receipts and slots say.
LEMMA GatesKeepTheirSide ==
  ASSUME OtherConstantsAreValid
  PROVE  AdmissionSpec => [](side = "gates" => GateInvariant)
<1> DEFINE OnItsSide == side = "gates" => GateInvariant
<1>1. Gate!ConstantsAreValid
  BY DEF OtherConstantsAreValid
<1>2. AdmissionInit => OnItsSide
  BY <1>1, GateInitHasInvariant DEF AdmissionInit
<1>3. OnItsSide /\ [AdmissionNext]_<<side, vars, gateVars, inboxVars>> => OnItsSide'
  <2> SUFFICES ASSUME OnItsSide, [AdmissionNext]_<<side, vars, gateVars, inboxVars>>,
                      side' = "gates"
               PROVE  GateInvariant'
    OBVIOUS
  <2>1. side = "gates" /\ GateInvariant
    BY DEF AdmissionNext
  <2>2. [Gate!Next]_(Gate!vars)
    BY <2>1 DEF AdmissionNext, gateVars, Gate!vars
  <2> QED BY <1>1, <2>1, <2>2, GateStepKeepsInvariant
<1> HIDE DEF OnItsSide
<1>4. AdmissionSpec => []OnItsSide
  BY <1>2, <1>3, PTL DEF AdmissionSpec
<1> QED
  BY <1>4 DEF OnItsSide

\* On the side of the inbox its messages are one for a recipient and in time.
LEMMA InboxKeepsItsSide ==
  ASSUME OtherConstantsAreValid
  PROVE  AdmissionSpec => [](side = "inbox" => InboxInvariant)
<1> DEFINE OnItsSide == side = "inbox" => InboxInvariant
<1>1. Inbox!ConstantsAreValid
  BY DEF OtherConstantsAreValid
<1>2. AdmissionInit => OnItsSide
  BY <1>1, InboxInitHasInvariant DEF AdmissionInit
<1>3. OnItsSide /\ [AdmissionNext]_<<side, vars, gateVars, inboxVars>> => OnItsSide'
  <2> SUFFICES ASSUME OnItsSide, [AdmissionNext]_<<side, vars, gateVars, inboxVars>>,
                      side' = "inbox"
               PROVE  InboxInvariant'
    OBVIOUS
  <2>1. side = "inbox" /\ InboxInvariant
    BY DEF AdmissionNext
  <2>2. [Inbox!Next]_(Inbox!vars)
    BY <2>1 DEF AdmissionNext, inboxVars, vars, Inbox!vars
  <2> QED BY <1>1, <2>1, <2>2, InboxStepKeepsInvariant
<1> HIDE DEF OnItsSide
<1>4. AdmissionSpec => []OnItsSide
  BY <1>2, <1>3, PTL DEF AdmissionSpec
<1> QED
  BY <1>4 DEF OnItsSide

\* Whoever it names, a peer takes from the budgets of accounts no more requests than
\* its own budget has, and only who is signed in takes from that of a user
\* (enforce_*_rate_limit, enforce_authenticated_limit).
THEOREM PeersPayForAccounts ==
  ASSUME OtherConstantsAreValid PROVE AdmissionSpec => []AccountsAreProtected
<1>1. Gate!ConstantsAreValid
  BY DEF OtherConstantsAreValid
<1>2. (side = "gates" => GateInvariant) => AccountsAreProtected
  BY <1>1, PeersPayFirst DEF AccountsAreProtected
<1> QED
  BY <1>2, GatesKeepTheirSide, PTL

\* A slot comes back once on every way out, and an upload that was let in finds a
\* decoder (EvidenceUploadBoundary, image_file, sanitize_product_image).
THEOREM EverySlotComesBack ==
  ASSUME OtherConstantsAreValid PROVE AdmissionSpec => []SlotsComeBack
<1>1. Gate!ConstantsAreValid
  BY DEF OtherConstantsAreValid
<1>2. (side = "gates" => GateInvariant) => SlotsComeBack
  BY <1>1, ADecoderIsFree DEF SlotsComeBack
<1> QED
  BY <1>2, GatesKeepTheirSide, PTL

\* A code is shown only by a development service, from when it is available until it
\* ends, and only the latest for a recipient (add, latest_available,
\* validate_runtime_security).
THEOREM OnlyTheLatestIsShown ==
  ASSUME OtherConstantsAreValid PROVE AdmissionSpec => []InboxShowsTheLatest
<1>1. Inbox!ConstantsAreValid
  BY DEF OtherConstantsAreValid
<1>2. (side = "inbox" => InboxInvariant) => InboxShowsTheLatest
  BY <1>1, InboxInvariantMeans DEF InboxShowsTheLatest
<1> QED
  BY <1>2, InboxKeepsItsSide, PTL

\* Beside gates and inbox the limiter keeps its limit and its promises (consume).
THEOREM LimiterKeepsItsWord == AdmissionSpec => [](LimitHolds /\ RetryAfterIsEnough)
<1> DEFINE Quietly == (\A k \in Keys : accepted[k] = {} /\ promised[k] = 0)
           Inv == IF side = "limiter" THEN RateInvariant /\ PromisesFollowTheDeques ELSE Quietly
<1>1. AdmissionInit => Inv
  BY InitEstablishesInvariant DEF AdmissionInit, Init, PromisesFollowTheDeques
<1>2. Inv /\ [AdmissionNext]_<<side, vars, gateVars, inboxVars>> => Inv'
  <2> SUFFICES ASSUME Inv, [AdmissionNext]_<<side, vars, gateVars, inboxVars>> PROVE Inv'
    OBVIOUS
  <2>1. side' = side
    BY DEF AdmissionNext
  <2>2. CASE side = "limiter"
    <3>1. [Next]_vars
      BY <2>2 DEF AdmissionNext
    <3> QED BY <2>1, <2>2, <3>1, RateStepKeepsInvariant, PromisesAreKept
  <2>3. CASE side # "limiter"
    <3>1. accepted' = accepted /\ promised' = promised
      BY <2>3 DEF AdmissionNext, vars
    <3> QED BY <2>1, <2>3, <3>1
  <2> QED BY <2>2, <2>3
<1>3. Inv => LimitHolds /\ RetryAfterIsEnough
  <2>1. CASE side = "limiter"
    BY <2>1, InvariantLimits, PromiseAdmits DEF RetryAfterIsEnough
  <2>2. ASSUME side # "limiter", Quietly PROVE LimitHolds /\ RetryAfterIsEnough
    <3>1. \A k \in Keys : Recent(k, Window - MaxDelay) = {}
      BY <2>2 DEF Recent
    <3>2. LimitHolds
      BY <3>1, FS_EmptySet, LimitsArePositive DEF LimitHolds
    <3> QED BY <2>2, <3>2 DEF RetryAfterIsEnough
  <2> QED BY <2>1, <2>2
<1> HIDE DEF Inv
<1> QED
  BY <1>1, <1>2, <1>3, PTL DEF AdmissionSpec
=============================================================================
