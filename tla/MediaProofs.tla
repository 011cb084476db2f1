----------------------------- MODULE MediaProofs -----------------------------
(***************************************************************************)
(* Proofs about what is kept in the object store, for every set of         *)
(* tickets, images, attempts and requests.  Tickets keep TicketInvariant   *)
(* and pictures PicturesInvariant; with the invariants of module           *)
(* SellerVerificationProofs, once with evidence and once with review, they *)
(* make MediaInvariant, that of the four groups side by side.              *)
(***************************************************************************)
EXTENDS MCMedia, FiniteSetTheorems, TLAPS

\* What the assumptions say of each bound.
LEMMA Constants ==
  ASSUME ConstantsAreValid
  PROVE  /\ Owner \in Users /\ None \notin Users /\ None \notin Keys /\ None \notin Nonces
         /\ Life \in Nat /\ MaxTime \in Nat
  BY DEF ConstantsAreValid

\* At most one element, and at most one in two sets of which one is empty.
LEMMA AtMostOne ==
  ASSUME NEW S, \A x, y \in S : x = y
  PROVE  Cardinality(S) \in Nat /\ Cardinality(S) <= 1 /\ (S = {} => Cardinality(S) = 0)
<1>1. CASE S = {}
  BY <1>1, FS_EmptySet
<1>2. ASSUME NEW x \in S PROVE Cardinality(S) = 1
  <2>1. S = {x}
    BY <1>2
  <2> QED BY <2>1, FS_Singleton
<1> QED
  BY <1>1, <1>2

-----------------------------------------------------------------------------

\* A request that ends changes nothing of the others.
LEMMA Ended ==
  ASSUME ConstantsAreValid, TicketInvariant, NEW r \in Requests, Finish(r)
  PROVE  /\ pc' \in [Requests -> {"idle", "issue", "redeemed"}] /\ ctx' \in [Requests -> Context]
         /\ pc'[r] = "idle" /\ ctx'[r] = NoContext /\ NoContext.nonce = None
         /\ \A q \in Requests \ {r} : pc'[q] = pc[q] /\ ctx'[q] = ctx[q]
         /\ \A q \in Requests : ContextIsSound(q)'
<1>1. /\ pc' \in [Requests -> {"idle", "issue", "redeemed"}] /\ ctx' \in [Requests -> Context]
      /\ pc'[r] = "idle" /\ ctx'[r] = NoContext /\ NoContext.nonce = None
      /\ \A q \in Requests \ {r} : pc'[q] = pc[q] /\ ctx'[q] = ctx[q]
  BY Constants DEF Finish, Goto, NoContext, Context, TicketInvariant, TypeOK
<1>2. ASSUME NEW q \in Requests PROVE ContextIsSound(q)'
  BY <1>1 DEF ContextIsSound, TicketInvariant
<1> QED
  BY <1>1, <1>2

\* A request that may have a ticket holds no nonce yet.
LEMMA AuthorizeKeepsInvariant ==
  ASSUME ConstantsAreValid, TicketInvariant, NEW r \in Requests, NEW u \in Users, Authorize(r, u)
  PROVE  TicketInvariant'
<1> USE DEF TicketInvariant
<1>1. /\ pc[r] = "idle" /\ key \in Keys
      /\ pc' = [pc EXCEPT ![r] = "issue"]
      /\ ctx' = [ctx EXCEPT ![r] = [user |-> u, key |-> key, nonce |-> None]]
      /\ UNCHANGED <<now, admins, away, key, used, tickets, drawn, served>>
  BY DEF Authorize, MaySee, Goto, TypeOK, database, memory
<1>2. TypeOK'
  BY <1>1 DEF TypeOK, Context
<1>3. /\ pc'[r] = "issue" /\ ctx'[r] = [user |-> u, key |-> key, nonce |-> None]
      /\ \A q \in Requests \ {r} : pc'[q] = pc[q] /\ ctx'[q] = ctx[q]
  BY <1>1 DEF TypeOK
<1>4. \A q \in Requests : ContextIsSound(q)'
  BY <1>1, <1>3 DEF ContextIsSound
<1>5. NoncesAreInOnePlace'
  <2>1. \A q \in Requests, n \in Nonces : ctx'[q].nonce = n => ctx[q].nonce = n
    BY <1>3, Constants
  <2> QED BY <1>1, <2>1 DEF NoncesAreInOnePlace, Held
<1> QED
  BY <1>2, <1>4, <1>5

\* A new ticket has a nonce that nobody holds (issue).
LEMMA IssueKeepsInvariant ==
  ASSUME ConstantsAreValid, TicketInvariant, NEW r \in Requests, Issue(r)
  PROVE  TicketInvariant'
<1> USE DEF TicketInvariant
<1> DEFINE rest == [n \in Nonces |-> IF n \in Swept THEN tickets[n] ELSE Nothing]
           ticket == [expires |-> Deadline, user |-> ctx[r].user, key |-> ctx[r].key]
<1>1. /\ pc[r] = "issue" /\ Finish(r)
      /\ UNCHANGED <<now, admins, away, key, used, served>>
      /\ \/ tickets' = rest /\ drawn' = drawn
         \/ \E n \in Nonces \ drawn : /\ tickets' = [rest EXCEPT ![n] = ticket]
                                      /\ drawn' = drawn \cup {n}
  BY DEF Issue, database
<1>2. ticket \in Ticket
  <2>1. ctx[r].user \in Users /\ ctx[r].key \in Keys
    BY <1>1 DEF TypeOK, Context, ContextIsSound
  <2>2. Deadline \in 0..(MaxTime + Life)
    BY Constants DEF Deadline, TypeOK
  <2> QED BY <2>1, <2>2 DEF Ticket
<1>3. rest \in [Nonces -> Ticket \cup {Nothing}]
  BY DEF TypeOK
<1>4. TypeOK'
  <2>1. tickets' \in [Nonces -> Ticket \cup {Nothing}] /\ drawn' \subseteq Nonces
    <3> HIDE DEF rest, ticket
    <3> QED BY <1>1, <1>2, <1>3 DEF TypeOK
  <2> QED BY <1>1, <2>1, Ended DEF TypeOK
<1>5. \A q \in Requests, n \in Nonces : ctx'[q].nonce = n => ctx[q].nonce = n
  BY <1>1, Ended, Constants
<1>6. /\ drawn \subseteq drawn'
      /\ \A n \in Nonces : n \in Held' => n \in drawn' /\ (n \in Held \/ n \notin drawn)
  <2>1. \A n \in Nonces : rest[n] # Nothing => n \in Held
    BY DEF Swept, Held
  <2> HIDE DEF rest, ticket
  <2>2. CASE tickets' = rest /\ drawn' = drawn
    BY <2>1, <2>2 DEF Held, NoncesAreInOnePlace
  <2>3. ASSUME NEW n \in Nonces \ drawn, tickets' = [rest EXCEPT ![n] = ticket], drawn' = drawn \cup {n}
        PROVE  /\ drawn \subseteq drawn'
               /\ \A m \in Nonces : m \in Held' => m \in drawn' /\ (m \in Held \/ m \notin drawn)
    <3>1. \A m \in Nonces \ {n} : tickets'[m] = rest[m]
      BY <1>3, <2>3
    <3> QED BY <2>1, <2>3, <3>1 DEF Held, NoncesAreInOnePlace
  <2> QED BY <1>1, <2>2, <2>3
<1>7. NoncesAreInOnePlace'
  <2> SUFFICES ASSUME NEW n \in Nonces
               PROVE  /\ n \in Held' \/ served'[n] # {} \/ (\E q \in Requests : ctx'[q].nonce = n) => n \in drawn'
                      /\ n \in Held' => served'[n] = {} /\ \A q \in Requests : ctx'[q].nonce # n
                      /\ served'[n] # {} => \A q \in Requests : ctx'[q].nonce # n
                      /\ \A q, p \in Requests : ctx'[q].nonce = n /\ ctx'[p].nonce = n => q = p
                      /\ \A s, t \in served'[n] : s = t
    BY DEF NoncesAreInOnePlace
  <2>1. served' = served
    BY <1>1
  <2> QED BY <1>5, <1>6, <2>1 DEF NoncesAreInOnePlace
<1> QED
  BY <1>1, <1>4, <1>7, Ended

\* Redeeming moves the nonce from the store to the request (pop under the lock).
LEMMA RedeemKeepsInvariant ==
  ASSUME ConstantsAreValid, TicketInvariant, NEW r \in Requests, NEW u \in Users, NEW n \in Nonces,
         Redeem(r, u, n)
  PROVE  TicketInvariant'
<1> USE DEF TicketInvariant
<1>1. /\ pc[r] = "idle" /\ n \in Held
      /\ tickets' = [tickets EXCEPT ![n] = Nothing]
      /\ pc' = [pc EXCEPT ![r] = "redeemed"]
      /\ ctx' = [ctx EXCEPT ![r] = [user |-> u, key |-> tickets[n].key, nonce |-> n]]
      /\ UNCHANGED <<now, admins, away, key, used, drawn, served>>
  BY DEF Redeem, Redeemable, Popped, Goto, database
<1>2. tickets[n].key \in Keys
  BY <1>1 DEF Held, TypeOK, Ticket
<1>3. TypeOK'
  BY <1>1, <1>2 DEF TypeOK, Context
<1>4. /\ pc'[r] = "redeemed" /\ ctx'[r] = [user |-> u, key |-> tickets[n].key, nonce |-> n]
      /\ \A q \in Requests \ {r} : pc'[q] = pc[q] /\ ctx'[q] = ctx[q]
  BY <1>1 DEF TypeOK
<1>5. \A q \in Requests : ContextIsSound(q)'
  BY <1>2, <1>4, Constants DEF ContextIsSound
<1>6. n \notin Held' /\ \A m \in Nonces \ {n} : m \in Held' => m \in Held
  BY <1>1 DEF Held, TypeOK
<1>7. n \in drawn /\ served[n] = {} /\ \A q \in Requests : ctx[q].nonce # n
  BY <1>1 DEF NoncesAreInOnePlace
<1>8. NoncesAreInOnePlace'
  <2> SUFFICES ASSUME NEW m \in Nonces
               PROVE  /\ m \in Held' \/ served[m] # {} \/ (\E q \in Requests : ctx'[q].nonce = m) => m \in drawn
                      /\ m \in Held' => served[m] = {} /\ \A q \in Requests : ctx'[q].nonce # m
                      /\ served[m] # {} => \A q \in Requests : ctx'[q].nonce # m
                      /\ \A q, p \in Requests : ctx'[q].nonce = m /\ ctx'[p].nonce = m => q = p
                      /\ \A s, t \in served[m] : s = t
    BY <1>1 DEF NoncesAreInOnePlace
  <2>1. CASE m = n
    BY <1>4, <1>6, <1>7, <2>1
  <2>2. CASE m # n
    <3>1. \A q \in Requests : ctx'[q].nonce = m => ctx[q].nonce = m
      BY <1>4, <2>2
    <3> QED BY <1>6, <2>2, <3>1 DEF NoncesAreInOnePlace
  <2> QED BY <2>1, <2>2
<1> QED
  BY <1>3, <1>5, <1>8

\* Sending the picture moves the nonce from the request to the reading.
LEMMA ServeKeepsInvariant ==
  ASSUME ConstantsAreValid, TicketInvariant, NEW r \in Requests, Serve(r)
  PROVE  TicketInvariant'
<1> USE DEF TicketInvariant
<1>1. PICK n \in Nonces : n = ctx[r].nonce
  BY DEF Serve, ContextIsSound, TypeOK, Context
<1> DEFINE reading == [user |-> ctx[r].user, key |-> ctx[r].key]
<1>2. /\ served' = [served EXCEPT ![n] = @ \cup {reading}]
      /\ Finish(r) /\ reading \in [user: Users, key: Keys]
      /\ UNCHANGED <<now, admins, away, key, used, tickets, drawn>>
  BY <1>1 DEF Serve, ContextIsSound, TypeOK, Context, database, memory
<1> HIDE DEF reading
<1>3. served[n] = {} /\ n \in drawn /\ n \notin Held /\ \A q \in Requests \ {r} : ctx[q].nonce # n
  BY <1>1 DEF NoncesAreInOnePlace
<1>4. served'[n] = {reading} /\ \A m \in Nonces \ {n} : served'[m] = served[m]
  BY <1>2, <1>3 DEF TypeOK
<1>5. TypeOK'
  BY <1>2, Ended DEF TypeOK
<1>6. /\ \A q \in Requests : ctx'[q].nonce # n
      /\ \A q \in Requests, m \in Nonces : ctx'[q].nonce = m => ctx[q].nonce = m
  BY <1>2, <1>3, Ended, Constants
<1>7. NoncesAreInOnePlace'
  <2> SUFFICES ASSUME NEW m \in Nonces
               PROVE  /\ m \in Held \/ served'[m] # {} \/ (\E q \in Requests : ctx'[q].nonce = m) => m \in drawn
                      /\ m \in Held => served'[m] = {} /\ \A q \in Requests : ctx'[q].nonce # m
                      /\ served'[m] # {} => \A q \in Requests : ctx'[q].nonce # m
                      /\ \A q, p \in Requests : ctx'[q].nonce = m /\ ctx'[p].nonce = m => q = p
                      /\ \A s, t \in served'[m] : s = t
    BY <1>2 DEF NoncesAreInOnePlace, Held
  <2>1. CASE m = n
    BY <1>3, <1>4, <1>6, <2>1
  <2>2. CASE m # n
    BY <1>4, <1>6, <2>2 DEF NoncesAreInOnePlace
  <2> QED BY <2>1, <2>2
<1> QED
  BY <1>2, <1>5, <1>7, Ended

\* A request that fails loses its nonce for good.
LEMMA FailKeepsInvariant ==
  ASSUME ConstantsAreValid, TicketInvariant, NEW r \in Requests, Fail(r)
  PROVE  TicketInvariant'
<1> USE DEF TicketInvariant
<1>1. Finish(r) /\ UNCHANGED <<now, admins, away, key, used, tickets, drawn, served>>
  BY DEF Fail, database, memory
<1>2. \A q \in Requests, m \in Nonces : ctx'[q].nonce = m => ctx[q].nonce = m
  BY <1>1, Ended, Constants
<1>3. NoncesAreInOnePlace'
  BY <1>1, <1>2 DEF NoncesAreInOnePlace, Held
<1> QED
  BY <1>1, <1>3, Ended DEF TypeOK

\* A restart empties the store and ends the requests.
LEMMA RestartKeepsInvariant ==
  ASSUME ConstantsAreValid, TicketInvariant, Restart
  PROVE  TicketInvariant'
<1> USE DEF TicketInvariant
<1>1. /\ \A n \in Nonces : tickets'[n] = Nothing
      /\ \A r \in Requests : pc'[r] = "idle" /\ ctx'[r] = NoContext /\ ctx'[r].nonce = None
      /\ UNCHANGED <<now, admins, away, key, used, drawn, served>>
  BY DEF Restart, database, NoContext
<1>2. TypeOK'
  BY <1>1, Constants DEF Restart, TypeOK, NoContext, Context
<1>3. \A r \in Requests : ContextIsSound(r)'
  BY <1>1 DEF ContextIsSound
<1>4. NoncesAreInOnePlace'
  BY <1>1, Constants DEF NoncesAreInOnePlace, Held
<1> QED
  BY <1>2, <1>3, <1>4

\* The clock, the owner's uploads, roles and suspensions.
LEMMA OutsideKeepsInvariant ==
  ASSUME ConstantsAreValid, TicketInvariant,
         Replace \/ Tick \/ (\E u \in Users : ChangeStanding(u)) \/ UNCHANGED vars
  PROVE  TicketInvariant'
<1> USE DEF TicketInvariant
<1>1. UNCHANGED <<tickets, drawn, served, pc, ctx>>
  BY DEF Replace, Tick, ChangeStanding, vars, memory
<1>2. /\ now' \in 0..MaxTime /\ admins' \subseteq Users /\ away' \subseteq Users
      /\ key' \in Keys \cup {None} /\ used' \subseteq Keys
  BY Constants DEF Replace, Tick, ChangeStanding, vars, database, TypeOK
<1>3. TypeOK'
  BY <1>1, <1>2 DEF TypeOK
<1>4. (\A r \in Requests : ContextIsSound(r)') /\ NoncesAreInOnePlace'
  BY <1>1 DEF ContextIsSound, NoncesAreInOnePlace, Held
<1> QED
  BY <1>3, <1>4

-----------------------------------------------------------------------------

\* No ticket exists at first.
LEMMA InitHasInvariant ==
  ASSUME ConstantsAreValid, Init
  PROVE  TicketInvariant
<1>1. TypeOK
  BY Constants DEF Init, TypeOK, Context, NoContext
<1>2. \A r \in Requests : pc[r] = "idle" /\ ctx[r].nonce = None
  BY DEF Init, NoContext
<1>3. \A n \in Nonces : n \notin Held /\ served[n] = {}
  BY DEF Init, Held
<1> QED
  BY <1>1, <1>2, <1>3, Constants DEF TicketInvariant, ContextIsSound, NoncesAreInOnePlace

\* Every step together.
LEMMA NextKeepsInvariant ==
  ASSUME ConstantsAreValid, TicketInvariant, [Next]_vars
  PROVE  TicketInvariant'
<1>1. ASSUME NEW r \in Requests,
             \/ \E u \in Users : Authorize(r, u) \/ \E n \in Nonces : Redeem(r, u, n)
             \/ Issue(r) \/ Serve(r) \/ Fail(r)
      PROVE  TicketInvariant'
  BY <1>1, AuthorizeKeepsInvariant, RedeemKeepsInvariant, IssueKeepsInvariant, ServeKeepsInvariant,
     FailKeepsInvariant
<1>2. CASE Replace \/ Tick \/ (\E u \in Users : ChangeStanding(u)) \/ UNCHANGED vars
  BY <1>2, OutsideKeepsInvariant
<1>3. CASE Restart
  BY <1>3, RestartKeepsInvariant
<1> QED
  BY <1>1, <1>2, <1>3 DEF Next

\* A nonce in one place is read at most once.
LEMMA InvariantMeansOneReading ==
  ASSUME TicketInvariant
  PROVE  OneReadingPerTicket
<1> SUFFICES ASSUME NEW n \in Nonces
             PROVE  LET readers == {r \in Requests : ctx[r].nonce = n}
                    IN  /\ Cardinality(served[n]) + Cardinality(readers) <= 1
                        /\ served[n] # {} \/ readers # {} => n \notin Held
  BY DEF OneReadingPerTicket
<1> DEFINE readers == {r \in Requests : ctx[r].nonce = n}
<1>1. /\ \A s, t \in served[n] : s = t
      /\ \A r, q \in readers : r = q
      /\ served[n] = {} \/ readers = {}
      /\ served[n] # {} \/ readers # {} => n \notin Held
  BY DEF TicketInvariant, NoncesAreInOnePlace
<1>2. /\ Cardinality(served[n]) \in Nat /\ Cardinality(served[n]) <= 1
      /\ served[n] = {} => Cardinality(served[n]) = 0
  BY <1>1, AtMostOne
<1>3. /\ Cardinality(readers) \in Nat /\ Cardinality(readers) <= 1
      /\ readers = {} => Cardinality(readers) = 0
  <2> HIDE DEF readers
  <2> QED BY <1>1, AtMostOne
<1> HIDE DEF readers
<1>4. Cardinality(served[n]) + Cardinality(readers) <= 1
  BY <1>1, <1>2, <1>3
<1> QED
  BY <1>1, <1>4 DEF readers

\* Whatever redemptions, failures and restarts overlap, a nonce is in one place.
THEOREM TicketInvariantHolds == ASSUME ConstantsAreValid PROVE Spec => []TicketInvariant
<1>1. Init => TicketInvariant
  BY InitHasInvariant
<1>2. TicketInvariant /\ [Next]_vars => TicketInvariant'
  BY NextKeepsInvariant
<1> QED
  BY <1>1, <1>2, PTL DEF Spec

\* A ticket is read once (redeem).
THEOREM TicketsAreReadOnce == ASSUME ConstantsAreValid PROVE Spec => []OneReadingPerTicket
<1>1. TicketInvariant => OneReadingPerTicket
  BY InvariantMeansOneReading
<1> QED
  BY <1>1, TicketInvariantHolds, PTL

-----------------------------------------------------------------------------

\* Only Serve adds a reading, under the locks that keep the grant.
LEMMA ReadingsAreGranted ==
  ASSUME TicketInvariant, [Next]_vars, NEW n \in Nonces, NEW s \in served'[n] \ served[n]
  PROVE  MaySee(s.user) /\ s.key = key
<1>1. ASSUME NEW r \in Requests, Serve(r)
      PROVE  MaySee(s.user) /\ s.key = key
  <2> DEFINE reading == [user |-> ctx[r].user, key |-> ctx[r].key]
  <2>1. MaySee(reading.user) /\ reading.key = key
    BY <1>1 DEF Serve, StillGranted
  <2>2. ctx[r].nonce = n /\ s = reading
    BY <1>1 DEF Serve, TicketInvariant, TypeOK
  <2> QED BY <2>1, <2>2
<1>2. ASSUME NEW r \in Requests,
             \/ \E u \in Users : Authorize(r, u) \/ \E m \in Nonces : Redeem(r, u, m)
             \/ Issue(r) \/ Fail(r)
      PROVE  served' = served
  BY <1>2 DEF Authorize, Redeem, Issue, Fail
<1>3. CASE Replace \/ Restart \/ Tick \/ (\E u \in Users : ChangeStanding(u)) \/ UNCHANGED vars
  BY <1>3 DEF Replace, Restart, Tick, ChangeStanding, vars
<1> QED
  BY <1>1, <1>2, <1>3 DEF Next

\* A picture is sent to nobody who may not see it at that moment, and never one that
\* was replaced since the ticket was issued (read_evidence).
THEOREM GrantsArePresent ==
  ASSUME ConstantsAreValid PROVE Spec => OnlyPresentGrantsAreServed
<1> DEFINE Granted == \A n \in Nonces : \A s \in served'[n] \ served[n] :
                          MaySee(s.user) /\ s.key = key
<1>1. TicketInvariant /\ [Next]_vars => [Granted]_vars
  BY ReadingsAreGranted
<1>2. Spec => []TicketInvariant
  BY TicketInvariantHolds
<1> QED
  BY <1>1, <1>2, PTL DEF Spec, OnlyPresentGrantsAreServed

-----------------------------------------------------------------------------
(* Pictures of listings (module ProductImages).                                *)

\* The instance's finite sets and cardinalities are those of the library.
LEMMA PicturesCount ==
  /\ \A S : Pictures!IsFiniteSet(S) <=> IsFiniteSet(S)
  /\ \A S : Pictures!Cardinality(S) = Cardinality(S)
  BY DEF Pictures!IsFiniteSet, IsFiniteSet, Pictures!Cardinality, Cardinality

\* The constants, and the fields of a request.
LEMMA PictureNumbers ==
  ASSUME Pictures!ConstantsAreValid
  PROVE  /\ Pictures!IsFiniteSet(Images) /\ NoImage \notin Images
         /\ MaxImages \in Nat /\ MaxImages > 0 /\ MaxAttempts \in Nat /\ MaxAttempts > 0
  BY DEF Pictures!ConstantsAreValid

\* How many have a value below m, where the values are those below n.
LEMMA CountBelow ==
  ASSUME NEW S, Pictures!IsFiniteSet(S), NEW f, NEW n \in Nat,
         {f[i] : i \in S} = 0..(n - 1), \A i, j \in S : i # j => f[i] # f[j],
         NEW m \in Nat, m <= n
  PROVE  Pictures!Cardinality({j \in S : f[j] < m}) = m
<1> DEFINE B == {j \in S : f[j] < m}
           g == [j \in B |-> f[j]]
<1>1. \A j \in S : f[j] \in 0..(n - 1)
  OBVIOUS
<1>2. g \in [B -> 0..(m - 1)]
  BY <1>1
<1>3. \A v \in 0..(m - 1) : \E j \in B : g[j] = v
  <2> SUFFICES ASSUME NEW v \in 0..(m - 1) PROVE \E j \in B : g[j] = v
    OBVIOUS
  <2>1. v \in 0..(n - 1)
    OBVIOUS
  <2>2. PICK j \in S : f[j] = v
    BY <2>1
  <2> QED BY <2>2
<1>4. g \in Bijection(B, 0..(m - 1))
  BY <1>2, <1>3 DEF Bijection, Injection, Surjection, IsInjective
<1>5. Pictures!IsFiniteSet(B)
  BY FS_Subset, PicturesCount
<1>6. Pictures!Cardinality(0..(m - 1)) = Pictures!Cardinality(B)
  <2> HIDE DEF B, g
  <2> QED BY <1>4, <1>5, FS_Bijection, PicturesCount DEF ExistsBijection
<1>7. Pictures!Cardinality(0..(m - 1)) = m
  <2>1. 0 \in Int /\ m - 1 \in Int
    OBVIOUS
  <2>2. Pictures!Cardinality(0..(m - 1)) = IF 0 > m - 1 THEN 0 ELSE m - 1 - 0 + 1
    BY <2>1, FS_Interval, PicturesCount
  <2> QED BY <2>2
<1> QED
  BY <1>6, <1>7

\* An order that names every image once names all positions.
LEMMA PicturesBijectionsAreContiguous ==
  ASSUME NEW S, Pictures!IsFiniteSet(S), NEW f \in Pictures!Bijections(S)
  PROVE  /\ {f[i] : i \in S} = 0..(Pictures!Cardinality(S) - 1)
         /\ \A i, j \in S : i # j => f[i] # f[j]
         /\ \A i \in S : f[i] \in 0..(Pictures!Cardinality(S) - 1)
<1> DEFINE n == Pictures!Cardinality(S)
           T == 0..(n - 1)
<1>1. f \in [S -> T] /\ \A i, j \in S : i # j => f[i] # f[j]
  BY DEF Pictures!Bijections
<1>2. n \in Nat
  BY FS_CardinalityType, PicturesCount
<1>3. f \in Injection(S, T)
  BY <1>1 DEF Injection, IsInjective
<1>4. Pictures!IsFiniteSet(T) /\ Pictures!Cardinality(T) = n
  <2>1. 0 \in Int /\ n - 1 \in Int
    BY <1>2
  <2>2. Pictures!IsFiniteSet(T) /\ Pictures!Cardinality(T) = IF 0 > n - 1 THEN 0 ELSE n - 1 - 0 + 1
    BY <2>1, FS_Interval, PicturesCount
  <2> QED BY <1>2, <2>2
<1>5. f \in Surjection(S, T)
  <2>1. Pictures!Cardinality(S) = Pictures!Cardinality(T)
    BY <1>4
  <2> HIDE DEF T, n
  <2> QED BY <1>3, <1>4, <2>1, FS_Injection, PicturesCount
<1>6. \A v \in T : \E i \in S : f[i] = v
  BY <1>5 DEF Surjection
<1>7. {f[i] : i \in S} = T
  BY <1>1, <1>6
<1> QED
  BY <1>1, <1>7

\* The images of S have the positions from 0 on, one each; and the positions they
\* have when i is gone.
Gapless(f, S) ==
    {f[k] : k \in S} = 0..(Pictures!Cardinality(S) - 1) /\ \A j, k \in S : j # k => f[j] # f[k]
ClosesUp(rank, f, S, i) ==
    \A k \in S \ {i} : rank[k] = Pictures!Cardinality({j \in S \ {i} : f[j] < f[k]})

\* When the row of i goes, those behind it move up by one.
LEMMA RanksWithout ==
  ASSUME NEW S, Pictures!IsFiniteSet(S), NEW f, NEW i \in S, Gapless(f, S), NEW rank,
         ClosesUp(rank, f, S, i)
  PROVE  /\ Gapless(rank, S \ {i})
         /\ Pictures!Cardinality(S \ {i}) = Pictures!Cardinality(S) - 1
               /\ Pictures!Cardinality(S) \in Nat
         /\ Pictures!Cardinality(S) > 0
<1> USE DEF Gapless
<1> DEFINE n == Pictures!Cardinality(S)
<1>1. n \in Nat /\ Pictures!Cardinality(S \ {i}) = n - 1 /\ Pictures!Cardinality(S \ {i}) \in Nat
  <2>1. n \in Nat /\ Pictures!IsFiniteSet(S \ {i}) /\ Pictures!Cardinality(S \ {i}) = n - 1
    BY FS_CardinalityType, FS_RemoveElement, PicturesCount
  <2> QED BY <2>1, FS_CardinalityType, PicturesCount
<1>2. \A k \in S : f[k] \in 0..(n - 1)
  OBVIOUS
<1>3. ASSUME NEW k \in S \ {i} PROVE rank[k] = IF f[i] < f[k] THEN f[k] - 1 ELSE f[k]
  <2> DEFINE B == {j \in S : f[j] < f[k]}
  <2>1. f[k] \in Nat /\ f[k] <= n
    BY <1>1, <1>2
  <2>2. Pictures!IsFiniteSet(B) /\ Pictures!Cardinality(B) = f[k]
    <3>1. Pictures!Cardinality(B) = f[k]
      BY <1>1, <2>1, CountBelow
    <3>2. Pictures!IsFiniteSet(B)
      BY FS_Subset, PicturesCount
    <3> QED BY <3>1, <3>2
  <2>3. {j \in S \ {i} : f[j] < f[k]} = B \ {i}
    OBVIOUS
  <2>4. Pictures!Cardinality(B \ {i}) = IF i \in B THEN Pictures!Cardinality(B) - 1 ELSE Pictures!Cardinality(B)
    <3> HIDE DEF B
    <3> QED BY <2>2, FS_RemoveElement, PicturesCount
  <2>5. rank[k] = Pictures!Cardinality(B \ {i})
    BY <2>3 DEF ClosesUp
  <2> QED BY <2>2, <2>4, <2>5
<1>4. \A k \in S \ {i} : f[k] # f[i]
  OBVIOUS
<1>5. \A k \in S \ {i} : rank[k] \in 0..(n - 2)
  <2> SUFFICES ASSUME NEW k \in S \ {i} PROVE rank[k] \in 0..(n - 2)
    OBVIOUS
  <2> HIDE DEF n
  <2> QED BY <1>1, <1>2, <1>3, <1>4
<1>6. \A j, k \in S \ {i} : j # k => rank[j] # rank[k]
  <2> SUFFICES ASSUME NEW j \in S \ {i}, NEW k \in S \ {i}, j # k PROVE rank[j] # rank[k]
    OBVIOUS
  <2>1. f[j] # f[k]
    OBVIOUS
  <2> HIDE DEF n
  <2> QED BY <1>1, <1>2, <1>3, <1>4, <2>1
<1>7. \A v \in 0..(n - 2) : \E k \in S \ {i} : rank[k] = v
  <2> SUFFICES ASSUME NEW v \in 0..(n - 2) PROVE \E k \in S \ {i} : rank[k] = v
    OBVIOUS
  <2>1. CASE v < f[i]
    <3>1. v \in 0..(n - 1)
      BY <1>1
    <3>2. PICK k \in S : f[k] = v
      BY <3>1
    <3> HIDE DEF n
    <3> QED BY <1>2, <1>3, <2>1, <3>2
  <2>2. CASE ~ (v < f[i])
    <3>1. v + 1 \in 0..(n - 1)
      BY <1>1
    <3>2. PICK k \in S : f[k] = v + 1
      BY <3>1
    <3> HIDE DEF n
    <3> QED BY <1>1, <1>2, <1>3, <2>2, <3>2
  <2> QED BY <2>1, <2>2
<1>8. {rank[k] : k \in S \ {i}} = 0..(n - 2)
  <2> HIDE DEF n
  <2> QED BY <1>5, <1>7
<1>9. n - 2 = (n - 1) - 1 /\ n > 0
  <2> HIDE DEF n
  <2> QED BY <1>1
<1> QED
  BY <1>1, <1>6, <1>8, <1>9

-----------------------------------------------------------------------------
(* What most steps have in common.                                            *)

\* The types of what a step looks at.
LEMMA PictureTypes ==
  ASSUME Pictures!ConstantsAreValid, Pictures!TypeOK
  PROVE  /\ \A r \in Requests : /\ upload[r] \in Pictures!Context
               /\ upload[r].image \in Images \cup {NoImage}
                                /\ upload[r].attempt \in 0..MaxAttempts
                                /\ upload[r].order \in [Images -> Pictures!Positions \cup {Pictures!Absent}]
         /\ Pictures!NoContext \in Pictures!Context /\ Pictures!NoContext.image = NoImage
         /\ Pictures!Rows \subseteq Images /\ Pictures!IsFiniteSet(Pictures!Rows)
               /\ Pictures!Cardinality(Pictures!Rows) \in Nat
<1>1. \A r \in Requests : upload[r] \in Pictures!Context
  BY DEF Pictures!TypeOK
<1>2. \A x \in Pictures!Context : /\ x.image \in Images \cup {NoImage}
                                        /\ x.attempt \in 0..MaxAttempts
                                  /\ x.order \in [Images -> Pictures!Positions \cup {Pictures!Absent}]
  BY DEF Pictures!Context
<1>3. Pictures!NoContext \in Pictures!Context /\ Pictures!NoContext.image = NoImage
  BY PictureNumbers DEF Pictures!NoContext, Pictures!Context, Pictures!NoOrder
<1>4. Pictures!Rows \subseteq Images
  BY DEF Pictures!Rows
<1>5. Pictures!IsFiniteSet(Pictures!Rows) /\ Pictures!Cardinality(Pictures!Rows) \in Nat
  BY <1>4, PictureNumbers, FS_Subset, FS_CardinalityType, PicturesCount
<1> QED
  BY <1>1, <1>2, <1>3, <1>4, <1>5

\* A request ends.
LEMMA PicturesFinishTypes ==
  ASSUME Pictures!ConstantsAreValid, Pictures!TypeOK, NEW r \in Requests, Pictures!Finish(r)
  PROVE  /\ phase' \in [Requests -> Pictures!Stages] /\ upload' \in [Requests -> Pictures!Context]
         /\ phase'[r] = "idle" /\ upload'[r] = Pictures!NoContext /\ upload'[r].image = NoImage
         /\ \A q \in Requests \ {r} : phase'[q] = phase[q] /\ upload'[q] = upload[q]
  BY PictureTypes DEF Pictures!TypeOK, Pictures!Finish, Pictures!Goto, Pictures!Stages

\* A request moves on.
LEMMA PicturesMoveTypes ==
  ASSUME Pictures!ConstantsAreValid, Pictures!TypeOK, NEW r \in Requests,
         NEW to \in Pictures!Stages, Pictures!Goto(r, to),
         NEW x \in Pictures!Context, upload' = [upload EXCEPT ![r] = x]
  PROVE  /\ phase' \in [Requests -> Pictures!Stages] /\ upload' \in [Requests -> Pictures!Context]
         /\ phase'[r] = to /\ upload'[r] = x
         /\ \A q \in Requests \ {r} : phase'[q] = phase[q] /\ upload'[q] = upload[q]
  BY DEF Pictures!TypeOK, Pictures!Goto

\* A step of a request about one image i (or none), whose row and object alone it
\* changes.
LEMMA PicturesFilesStayInOrder ==
  ASSUME Pictures!ConstantsAreValid, Pictures!PicturesInvariant, NEW r \in Requests, NEW i,
         \A q \in Requests \ {r} : phase'[q] = phase[q] /\ upload'[q] = upload[q],
         \A j \in Images : blamed[j] \subseteq blamed'[j],
         \A j \in Images \ {i} : object'[j] = object[j] /\ (j \in Pictures!Rows' <=> j \in Pictures!Rows),
         \A q \in Requests \ {r} : phase[q] \in {"save", "insert"} =>
             upload[q].image # i /\ upload'[r].image # upload[q].image,
         i \in Pictures!Rows' =>
             \/ i \in Pictures!Rows
             \/ \A q \in Requests \ {r} : upload[q].image # i,
         Pictures!RequestFits(r)',
         i \in Pictures!Rows' /\ object'[i] # "stored" => "commit" \in blamed'[i],
         phase[r] \in Pictures!Working => upload[r].image = i,
         i \in Pictures!OrphanObjects' /\ "cleanup" \notin blamed'[i] =>
             \E q \in Requests : upload'[q].image = i /\ phase'[q] \in Pictures!Working
  PROVE  (\A q \in Requests : Pictures!RequestFits(q)') /\ Pictures!RowsHaveObjects'
                                                              /\ Pictures!NoOrphans'
<1>1. Pictures!Rows \subseteq Images /\ Pictures!Rows' \subseteq Images
  BY DEF Pictures!Rows
<1>2. ASSUME NEW q \in Requests PROVE Pictures!RequestFits(q)'
  <2>1. CASE q # r
    <3> DEFINE k == upload[q].image
    <3>1. Pictures!RequestFits(q) /\ phase'[q] = phase[q] /\ upload'[q] = upload[q]
      BY <2>1 DEF Pictures!PicturesInvariant
    <3>2. phase[q] \in {"save", "insert", "compensate", "delete", "unlink"} => k \in Images
      BY <3>1 DEF Pictures!RequestFits
    <3>3. phase[q] \in {"save", "insert"} =>
            k \notin Pictures!Rows' /\ \A p \in Requests \ {q} : upload'[p].image # k
      <4> SUFFICES ASSUME phase[q] \in {"save", "insert"}
                   PROVE  k \notin Pictures!Rows' /\ \A p \in Requests \ {q} : upload'[p].image # k
        OBVIOUS
      <4>1. k \notin Pictures!Rows /\ k \in Images
                                         /\ \A p \in Requests \ {q} : upload[p].image # k
        BY <3>1 DEF Pictures!RequestFits
      <4>2. k # i /\ upload'[r].image # k
        BY <2>1
      <4> QED BY <4>1, <4>2
    <3>4. phase[q] = "insert" => object'[k] = "stored"
      BY <2>1, <3>1, <3>2 DEF Pictures!RequestFits
    <3>5. phase[q] = "compensate" /\ k \in Pictures!Rows' => "commit" \in blamed'[k]
      <4> SUFFICES ASSUME phase[q] = "compensate", k \in Pictures!Rows'
                   PROVE  "commit" \in blamed'[k]
        OBVIOUS
      <4>1. k \in Images /\ (k \in Pictures!Rows => "commit" \in blamed[k])
        BY <3>1 DEF Pictures!RequestFits
      <4>2. k \in Pictures!Rows
        BY <2>1, <4>1
      <4> QED BY <4>1, <4>2
    <3>6. phase[q] = "unlink" => k \notin Pictures!Rows'
      <4> SUFFICES ASSUME phase[q] = "unlink", k \in Pictures!Rows' PROVE FALSE
        OBVIOUS
      <4>1. k \in Images /\ k \notin Pictures!Rows
        BY <3>1 DEF Pictures!RequestFits
      <4> QED BY <2>1, <4>1
    <3>7. phase[q] = "reorder" => Pictures!OrderIsContiguous(upload[q].order)
      BY <3>1 DEF Pictures!RequestFits
    <3> QED BY <3>1, <3>2, <3>3, <3>4, <3>5, <3>6, <3>7 DEF Pictures!RequestFits
  <2> QED BY <2>1
<1>3. Pictures!RowsHaveObjects'
  <2> SUFFICES ASSUME NEW j \in Pictures!Rows', object'[j] # "stored"
               PROVE  "commit" \in blamed'[j]
    BY DEF Pictures!RowsHaveObjects, Pictures!MissingObjects
  <2>1. CASE j # i
    <3>1. j \in Pictures!Rows /\ object[j] # "stored" /\ blamed[j] \subseteq blamed'[j]
      BY <1>1, <2>1
    <3> QED BY <3>1
               DEF Pictures!PicturesInvariant, Pictures!RowsHaveObjects, Pictures!MissingObjects
  <2> QED BY <2>1
<1>4. Pictures!NoOrphans'
  <2> SUFFICES ASSUME NEW j \in Pictures!OrphanObjects', "cleanup" \notin blamed'[j]
               PROVE  \E q \in Requests : upload'[q].image = j /\ phase'[q] \in Pictures!Working
    BY DEF Pictures!NoOrphans, Pictures!Working
  <2>1. CASE j # i
    <3>1. j \in Images /\ j \in Pictures!OrphanObjects
      BY <2>1 DEF Pictures!OrphanObjects
    <3>2. PICK q \in Requests : upload[q].image = j /\ phase[q] \in Pictures!Working
      BY <3>1 DEF Pictures!PicturesInvariant, Pictures!NoOrphans, Pictures!Working
    <3>3. q # r
      BY <2>1, <3>2
    <3> QED BY <3>2, <3>3
  <2> QED BY <2>1
<1> QED
  BY <1>2, <1>3, <1>4

\* Where no row moves, positions are as they were.
LEMMA PicturesPositionsStay ==
  ASSUME Pictures!PicturesInvariant, position' = position
  PROVE  Pictures!PositionsAreContiguous' /\ Pictures!PositionsAreDistinct'
                                                /\ Pictures!Rows' = Pictures!Rows
  BY DEF Pictures!PicturesInvariant, Pictures!PositionsAreContiguous,
     Pictures!PositionsAreDistinct, Pictures!Rows

-----------------------------------------------------------------------------
(* Steps that change no row.                                                  *)

\* A request that has no object to account for arrives, moves on or ends.
LEMMA PicturesAskingKeepsInvariant ==
  ASSUME Pictures!ConstantsAreValid, Pictures!PicturesInvariant, NEW r \in Requests,
         Pictures!Preflight(r) \/ Pictures!Refuse(r) \/ Pictures!BeginReorder(r) \/ Pictures!BeginDelete(r)
  PROVE  Pictures!PicturesInvariant'
<1> USE DEF Pictures!PicturesInvariant
<1>1. /\ UNCHANGED <<seller, archived, position, object, blamed>>
      /\ phase[r] \in {"idle", "receive", "reorder", "delete"}
  BY DEF Pictures!Preflight, Pictures!Refuse, Pictures!BeginReorder, Pictures!BeginDelete
<1>2. Pictures!Rows' = Pictures!Rows /\ Pictures!OrphanObjects' = Pictures!OrphanObjects
  BY <1>1 DEF Pictures!Rows, Pictures!OrphanObjects
<1>3. /\ phase' \in [Requests -> Pictures!Stages] /\ upload' \in [Requests -> Pictures!Context]
      /\ \A q \in Requests \ {r} : phase'[q] = phase[q] /\ upload'[q] = upload[q]
      /\ Pictures!RequestFits(r)'
      /\ upload'[r].image \in Pictures!Rows \cup {NoImage, upload[r].image}
  <2>1. CASE Pictures!Preflight(r)
    <3>1. Pictures!Goto(r, "receive") /\ upload' = [upload EXCEPT ![r] = upload[r]]
      BY <2>1 DEF Pictures!Preflight, Pictures!TypeOK
    <3>2. /\ phase' \in [Requests -> Pictures!Stages]
                /\ upload' \in [Requests -> Pictures!Context]
          /\ \A q \in Requests \ {r} : phase'[q] = phase[q] /\ upload'[q] = upload[q]
          /\ phase'[r] = "receive" /\ upload'[r] = upload[r]
      BY <3>1, PictureTypes, PicturesMoveTypes DEF Pictures!Stages
    <3> QED BY <3>2 DEF Pictures!RequestFits
  <2>2. CASE Pictures!Refuse(r)
    <3>1. Pictures!Finish(r)
      BY <2>2 DEF Pictures!Refuse
    <3> QED BY <3>1, PicturesFinishTypes DEF Pictures!RequestFits
  <2>3. CASE Pictures!BeginReorder(r)
    <3>1. PICK f \in Pictures!Bijections(Pictures!Rows) :
            upload' = [upload EXCEPT ![r].order = [i \in Images |-> IF i \in Pictures!Rows THEN f[i] ELSE Pictures!Absent]]
      BY <2>3 DEF Pictures!BeginReorder
    <3> DEFINE order == [i \in Images |-> IF i \in Pictures!Rows THEN f[i] ELSE Pictures!Absent]
               x == [upload[r] EXCEPT !.order = order]
    <3>2. /\ {f[i] : i \in Pictures!Rows} = 0..(Pictures!Cardinality(Pictures!Rows) - 1)
          /\ \A i, j \in Pictures!Rows : i # j => f[i] # f[j]
          /\ \A i \in Pictures!Rows : f[i] \in 0..(Pictures!Cardinality(Pictures!Rows) - 1)
          /\ Pictures!Cardinality(Pictures!Rows) \in Nat
                /\ Pictures!Cardinality(Pictures!Rows) <= MaxImages
          /\ Pictures!Rows \subseteq Images
      BY PictureTypes, PicturesBijectionsAreContiguous DEF Pictures!PositionsAreContiguous
    <3>3. order \in [Images -> Pictures!Positions \cup {Pictures!Absent}]
      BY <3>2, PictureNumbers DEF Pictures!Positions
    <3>4. x \in Pictures!Context /\ x.image = upload[r].image /\ x.order = order
      BY <3>3, PictureTypes DEF Pictures!Context
    <3>5. Pictures!Goto(r, "reorder") /\ upload' = [upload EXCEPT ![r] = x]
      BY <2>3, <3>1 DEF Pictures!BeginReorder, Pictures!TypeOK
    <3>6. Pictures!OrderIsContiguous(order)
      <4>1. \A i \in Images : order[i] # Pictures!Absent <=> i \in Pictures!Rows
        BY <3>2 DEF Pictures!Absent
      <4>2. {i \in Images : order[i] # Pictures!Absent} = Pictures!Rows
        BY <3>2, <4>1
      <4>3. \A i \in Pictures!Rows : order[i] = f[i]
        BY <3>2
      <4>4. {order[i] : i \in Pictures!Rows} = {f[i] : i \in Pictures!Rows}
        BY <4>3
      <4> HIDE DEF order
      <4> QED BY <3>2, <4>2, <4>3, <4>4 DEF Pictures!OrderIsContiguous
    <3>7. /\ phase' \in [Requests -> Pictures!Stages]
                /\ upload' \in [Requests -> Pictures!Context]
          /\ \A q \in Requests \ {r} : phase'[q] = phase[q] /\ upload'[q] = upload[q]
          /\ phase'[r] = "reorder" /\ upload'[r] = x
      BY <3>4, <3>5, PicturesMoveTypes DEF Pictures!Stages
    <3>8. Pictures!OrderIsContiguous(upload'[r].order)
      BY <3>4, <3>6, <3>7
    <3>9. Pictures!RequestFits(r)'
      BY <3>7, <3>8 DEF Pictures!RequestFits, Pictures!OrderIsContiguous
    <3> QED BY <3>4, <3>7, <3>9
  <2>4. CASE Pictures!BeginDelete(r)
    <3>1. PICK i \in Pictures!Rows : upload' = [upload EXCEPT ![r].image = i]
      BY <2>4 DEF Pictures!BeginDelete
    <3> DEFINE x == [upload[r] EXCEPT !.image = i]
    <3>2. x \in Pictures!Context /\ x.image = i /\ i \in Images
      BY PictureTypes DEF Pictures!Context
    <3>3. Pictures!Goto(r, "delete") /\ upload' = [upload EXCEPT ![r] = x]
      BY <2>4, <3>1 DEF Pictures!BeginDelete, Pictures!TypeOK
    <3>4. /\ phase' \in [Requests -> Pictures!Stages]
                /\ upload' \in [Requests -> Pictures!Context]
          /\ \A q \in Requests \ {r} : phase'[q] = phase[q] /\ upload'[q] = upload[q]
          /\ phase'[r] = "delete" /\ upload'[r] = x
      BY <3>2, <3>3, PicturesMoveTypes DEF Pictures!Stages
    <3> QED BY <3>2, <3>4 DEF Pictures!RequestFits
  <2> QED BY <2>1, <2>2, <2>3, <2>4
<1>4. Pictures!TypeOK'
  BY <1>1, <1>3 DEF Pictures!TypeOK
<1>5. \A q \in Requests \ {r} : phase[q] \in {"save", "insert"} =>
        upload[q].image # NoImage /\ upload'[r].image # upload[q].image
  BY <1>3, PictureNumbers DEF Pictures!RequestFits
<1>6. phase[r] \notin Pictures!Working
  BY <1>1 DEF Pictures!Working
<1>7. NoImage \notin Images /\ NoImage \notin Pictures!Rows'
                                  /\ NoImage \notin Pictures!OrphanObjects'
  BY PictureNumbers DEF Pictures!Rows, Pictures!OrphanObjects
<1>8. (\A q \in Requests : Pictures!RequestFits(q)') /\ Pictures!RowsHaveObjects'
                                                           /\ Pictures!NoOrphans'
  BY <1>1, <1>2, <1>3, <1>5, <1>6, <1>7, PicturesFilesStayInOrder
<1> QED
  BY <1>1, <1>4, <1>8, PicturesPositionsStay

\* The object of an upload is begun under a key nobody has in hand.
LEMMA PicturesStartSaveKeepsInvariant ==
  ASSUME Pictures!ConstantsAreValid, Pictures!PicturesInvariant, NEW r \in Requests,
         Pictures!StartSave(r)
  PROVE  Pictures!PicturesInvariant'
<1> USE DEF Pictures!PicturesInvariant
<1>1. PICK i \in Images :
        /\ object[i] = "none" /\ position[i] = Pictures!Absent
        /\ \A q \in Requests : upload[q].image # i
        /\ object' = [object EXCEPT ![i] = "pending"]
        /\ upload' = [upload EXCEPT ![r].image = i]
  BY DEF Pictures!StartSave
<1>2. /\ phase[r] = "receive" /\ Pictures!Goto(r, "save")
      /\ UNCHANGED <<seller, archived, position, blamed>>
  BY DEF Pictures!StartSave
<1>3. [upload[r] EXCEPT !.image = i] \in Pictures!Context /\ [upload[r] EXCEPT !.image = i].image = i
  BY PictureTypes DEF Pictures!Context
<1>4. upload' = [upload EXCEPT ![r] = [upload[r] EXCEPT !.image = i]]
  BY <1>1 DEF Pictures!TypeOK
<1>5. /\ phase' \in [Requests -> Pictures!Stages] /\ upload' \in [Requests -> Pictures!Context]
      /\ \A q \in Requests \ {r} : phase'[q] = phase[q] /\ upload'[q] = upload[q]
      /\ phase'[r] = "save" /\ upload'[r].image = i
  BY <1>2, <1>3, <1>4, PicturesMoveTypes DEF Pictures!Stages
<1>6. Pictures!Rows' = Pictures!Rows /\ i \notin Pictures!Rows
  BY <1>1, <1>2 DEF Pictures!Rows
<1>7. Pictures!TypeOK'
  BY <1>1, <1>2, <1>5 DEF Pictures!TypeOK, Pictures!Objects
<1>8. Pictures!RequestFits(r)'
  BY <1>1, <1>5, <1>6 DEF Pictures!RequestFits
<1>9. \A j \in Images \ {i} : object'[j] = object[j] /\ (j \in Pictures!Rows' <=> j \in Pictures!Rows)
  BY <1>1, <1>6 DEF Pictures!TypeOK
<1>10. phase[r] \notin Pictures!Working /\ phase'[r] \in Pictures!Working
  BY <1>2, <1>5 DEF Pictures!Working
<1>11. (\A q \in Requests : Pictures!RequestFits(q)') /\ Pictures!RowsHaveObjects'
                                                            /\ Pictures!NoOrphans'
  BY <1>1, <1>2, <1>5, <1>6, <1>8, <1>9, <1>10, PicturesFilesStayInOrder
<1> QED
  BY <1>2, <1>7, <1>11, PicturesPositionsStay

\* The object of the request at hand is complete, or gone, or left behind; no row
\* changes.
LEMMA PicturesObjectKeepsInvariant ==
  ASSUME Pictures!ConstantsAreValid, Pictures!PicturesInvariant, NEW r \in Requests,
         \/ Pictures!Publish(r) \/ Pictures!FailSave(r) \/ Pictures!FailInsert(r) \/ Pictures!Deadlock(r)
         \/ Pictures!Compensate(r) \/ Pictures!FailCleanup(r) \/ Pictures!Unlink(r)
  PROVE  Pictures!PicturesInvariant'
<1> USE DEF Pictures!PicturesInvariant
<1> DEFINE i == upload[r].image
<1>1. /\ phase[r] \in Pictures!Working /\ i \in Images /\ Pictures!RequestFits(r)
      /\ UNCHANGED <<seller, archived, position>>
  BY DEF Pictures!Publish, Pictures!FailSave, Pictures!FailInsert, Pictures!Deadlock,
     Pictures!Compensate, Pictures!FailCleanup, Pictures!Unlink, Pictures!RequestFits,
     Pictures!Working
<1>2. Pictures!Rows' = Pictures!Rows
  BY <1>1 DEF Pictures!Rows
<1>3. \A q \in Requests \ {r} : phase[q] \in {"save", "insert"} =>
        upload[q].image # i /\ upload[q].image \in Images
  BY DEF Pictures!RequestFits
<1>4. /\ phase' \in [Requests -> Pictures!Stages] /\ upload' \in [Requests -> Pictures!Context]
      /\ \A q \in Requests \ {r} : phase'[q] = phase[q] /\ upload'[q] = upload[q]
      /\ upload'[r].image \in {i, NoImage}
      /\ blamed' \in [Images -> SUBSET {"cleanup", "commit"}]
      /\ \A j \in Images : blamed[j] \subseteq blamed'[j]
      /\ object' \in [Images -> Pictures!Objects]
      /\ \A j \in Images \ {i} : object'[j] = object[j]
      /\ Pictures!RequestFits(r)'
      /\ i \in Pictures!Rows /\ object'[i] # "stored" => "commit" \in blamed'[i]
      /\ \/ object'[i] = "none"
         \/ "cleanup" \in blamed'[i]
         \/ upload'[r].image = i /\ phase'[r] \in Pictures!Working
  <2>1. CASE Pictures!Publish(r)
    <3>1. /\ phase[r] = "save" /\ object' = [object EXCEPT ![i] = "stored"]
                /\ Pictures!Goto(r, "insert")
          /\ upload' = [upload EXCEPT ![r] = upload[r]] /\ blamed' = blamed
      BY <2>1 DEF Pictures!Publish, Pictures!TypeOK
    <3>2. /\ phase' \in [Requests -> Pictures!Stages]
                /\ upload' \in [Requests -> Pictures!Context]
          /\ \A q \in Requests \ {r} : phase'[q] = phase[q] /\ upload'[q] = upload[q]
          /\ phase'[r] = "insert" /\ upload'[r] = upload[r]
      BY <3>1, PictureTypes, PicturesMoveTypes DEF Pictures!Stages
    <3>3. object' \in [Images -> Pictures!Objects] /\ object'[i] = "stored"
          /\ \A j \in Images \ {i} : object'[j] = object[j]
      BY <1>1, <3>1 DEF Pictures!TypeOK, Pictures!Objects
    <3>4. Pictures!RequestFits(r)'
      BY <1>1, <1>2, <3>1, <3>2, <3>3 DEF Pictures!RequestFits
    <3> QED BY <3>1, <3>2, <3>3, <3>4 DEF Pictures!TypeOK, Pictures!Working
  <2>2. CASE Pictures!FailInsert(r) \/ Pictures!Deadlock(r)
    <3>1. PICK to \in {"insert", "compensate"}, x \in Pictures!Context :
            /\ phase[r] = "insert" /\ object' = object /\ blamed' = blamed
            /\ Pictures!Goto(r, to) /\ upload' = [upload EXCEPT ![r] = x] /\ x.image = i
      <4>1. CASE Pictures!FailInsert(r)
        BY <4>1, PictureTypes DEF Pictures!FailInsert, Pictures!TypeOK
      <4>2. CASE Pictures!Deadlock(r)
        <5> DEFINE x == [upload[r] EXCEPT !.attempt = @ + 1]
        <5>1. upload[r].attempt + 1 \in 0..MaxAttempts
          BY <4>2, PictureTypes, PictureNumbers DEF Pictures!Deadlock, Pictures!MayRetry
        <5>2. x \in Pictures!Context /\ x.image = i
          BY <5>1, PictureTypes DEF Pictures!Context
        <5>3. upload' = [upload EXCEPT ![r] = x]
          BY <4>2 DEF Pictures!Deadlock, Pictures!TypeOK
        <5> QED BY <4>2, <5>2, <5>3 DEF Pictures!Deadlock, Pictures!Retried
      <4> QED BY <2>2, <4>1, <4>2
    <3>2. /\ phase' \in [Requests -> Pictures!Stages]
                /\ upload' \in [Requests -> Pictures!Context]
          /\ \A q \in Requests \ {r} : phase'[q] = phase[q] /\ upload'[q] = upload[q]
          /\ phase'[r] = to /\ upload'[r].image = i
      BY <3>1, PicturesMoveTypes DEF Pictures!Stages
    <3>3. object'[i] = "stored"
      BY <1>1, <3>1 DEF Pictures!RequestFits
    <3>4. Pictures!RequestFits(r)'
      BY <1>1, <1>2, <3>1, <3>2, <3>3 DEF Pictures!RequestFits
    <3> QED BY <3>1, <3>2, <3>3, <3>4 DEF Pictures!TypeOK, Pictures!Working
  <2>3. CASE Pictures!FailSave(r) \/ Pictures!Compensate(r) \/ Pictures!Unlink(r)
    <3>1. Pictures!Finish(r) /\ object' = [object EXCEPT ![i] = "none"] /\ blamed' = blamed
      BY <2>3 DEF Pictures!FailSave, Pictures!Compensate, Pictures!Unlink
    <3>2. /\ object' \in [Images -> Pictures!Objects] /\ object'[i] = "none"
          /\ \A j \in Images \ {i} : object'[j] = object[j]
      BY <1>1, <3>1 DEF Pictures!TypeOK, Pictures!Objects
    <3>3. i \in Pictures!Rows => "commit" \in blamed[i]
      BY <1>1, <2>3
         DEF Pictures!FailSave, Pictures!Compensate, Pictures!Unlink, Pictures!RequestFits
    <3>4. /\ phase' \in [Requests -> Pictures!Stages]
                /\ upload' \in [Requests -> Pictures!Context]
          /\ \A q \in Requests \ {r} : phase'[q] = phase[q] /\ upload'[q] = upload[q]
          /\ upload'[r].image = NoImage /\ Pictures!RequestFits(r)'
      BY <3>1, PicturesFinishTypes DEF Pictures!RequestFits
    <3> QED BY <3>1, <3>2, <3>3, <3>4 DEF Pictures!TypeOK
  <2>4. CASE Pictures!FailCleanup(r)
    <3>1. /\ Pictures!Finish(r) /\ object' = object
          /\ blamed' = [blamed EXCEPT ![i] = @ \cup {"cleanup"}]
      BY <2>4 DEF Pictures!FailCleanup
    <3>2. /\ blamed' \in [Images -> SUBSET {"cleanup", "commit"}]
          /\ \A j \in Images : blamed[j] \subseteq blamed'[j]
          /\ "cleanup" \in blamed'[i]
      BY <1>1, <3>1 DEF Pictures!TypeOK
    <3>3. i \in Pictures!Rows /\ object[i] # "stored" => "commit" \in blamed[i]
      BY DEF Pictures!RowsHaveObjects, Pictures!MissingObjects
    <3>4. /\ phase' \in [Requests -> Pictures!Stages]
                /\ upload' \in [Requests -> Pictures!Context]
          /\ \A q \in Requests \ {r} : phase'[q] = phase[q] /\ upload'[q] = upload[q]
          /\ upload'[r].image = NoImage /\ Pictures!RequestFits(r)'
      BY <3>1, PicturesFinishTypes DEF Pictures!RequestFits
    <3> QED BY <1>1, <3>1, <3>2, <3>3, <3>4 DEF Pictures!TypeOK
  <2> QED BY <2>1, <2>2, <2>3, <2>4
<1>5. Pictures!TypeOK'
  BY <1>1, <1>4 DEF Pictures!TypeOK
<1>6. i \in Pictures!OrphanObjects' /\ "cleanup" \notin blamed'[i] =>
        \E q \in Requests : upload'[q].image = i /\ phase'[q] \in Pictures!Working
  BY <1>4 DEF Pictures!OrphanObjects
<1>7. \A q \in Requests \ {r} : phase[q] \in {"save", "insert"} =>
        upload'[r].image # upload[q].image
  BY <1>3, <1>4, PictureNumbers
<1>8. (\A q \in Requests : Pictures!RequestFits(q)') /\ Pictures!RowsHaveObjects'
                                                           /\ Pictures!NoOrphans'
  <2> HIDE DEF i
  <2>1. phase[r] \in Pictures!Working => upload[r].image = i
    BY DEF i
  <2> QED BY <1>2, <1>3, <1>4, <1>6, <1>7, <2>1, PicturesFilesStayInOrder
<1> QED
  BY <1>1, <1>5, <1>8, PicturesPositionsStay

\* The process stops and leaves what it had in hand.
LEMMA PicturesCrashKeepsInvariant ==
  ASSUME Pictures!ConstantsAreValid, Pictures!PicturesInvariant, NEW r \in Requests,
         Pictures!Crash(r)
  PROVE  Pictures!PicturesInvariant'
<1> USE DEF Pictures!PicturesInvariant
<1> DEFINE i == upload[r].image
<1>1. /\ Pictures!Finish(r) /\ UNCHANGED <<seller, archived, position, object>>
      /\ blamed' = [j \in Images |-> IF j = i /\ phase[r] # "delete"
                                     THEN blamed[j] \cup {"cleanup"} ELSE blamed[j]]
  BY DEF Pictures!Crash
<1>2. Pictures!Rows' = Pictures!Rows
  BY <1>1 DEF Pictures!Rows
<1>3. /\ phase' \in [Requests -> Pictures!Stages] /\ upload' \in [Requests -> Pictures!Context]
      /\ phase'[r] = "idle" /\ upload'[r].image = NoImage
      /\ \A q \in Requests \ {r} : phase'[q] = phase[q] /\ upload'[q] = upload[q]
  BY <1>1, PicturesFinishTypes
<1>4. /\ blamed' \in [Images -> SUBSET {"cleanup", "commit"}]
      /\ \A j \in Images : blamed[j] \subseteq blamed'[j]
  BY <1>1 DEF Pictures!TypeOK
<1>5. Pictures!RequestFits(r)'
  BY <1>3 DEF Pictures!RequestFits
<1>6. Pictures!TypeOK'
  BY <1>1, <1>3, <1>4 DEF Pictures!TypeOK
<1>7. PICK k : /\ phase[r] \in Pictures!Working => i = k
               /\ k \in Images => phase[r] \in Pictures!Working /\ k = i
  BY PictureNumbers
<1>8. k \in Images => "cleanup" \in blamed'[k]
  BY <1>1, <1>7 DEF Pictures!Working
<1>9. k \in Pictures!Rows /\ object[k] # "stored" => "commit" \in blamed'[k]
  <2>1. Pictures!Rows \subseteq Images
    BY DEF Pictures!Rows
  <2> QED BY <1>4, <2>1 DEF Pictures!RowsHaveObjects, Pictures!MissingObjects
<1>10. \A q \in Requests \ {r} : phase[q] \in {"save", "insert"} =>
         upload[q].image # k /\ upload'[r].image # upload[q].image
  BY <1>3, <1>7, PictureNumbers DEF Pictures!RequestFits
<1>11. (\A q \in Requests : Pictures!RequestFits(q)') /\ Pictures!RowsHaveObjects'
                                                            /\ Pictures!NoOrphans'
  <2>1. k \in Pictures!OrphanObjects' => k \in Images
    BY DEF Pictures!OrphanObjects
  <2>2. phase[r] \in Pictures!Working => upload[r].image = k
    BY <1>7
  <2> HIDE DEF i
  <2> QED BY <1>1, <1>2, <1>3, <1>4, <1>5, <1>8, <1>9, <1>10, <2>1, <2>2, PicturesFilesStayInOrder
<1> QED
  BY <1>1, <1>6, <1>11, PicturesPositionsStay

-----------------------------------------------------------------------------
(* Steps that change rows.                                                    *)

\* A row is inserted behind the others, answered or not (_insert_metadata).
LEMMA PicturesInsertKeepsInvariant ==
  ASSUME Pictures!ConstantsAreValid, Pictures!PicturesInvariant, NEW r \in Requests,
         Pictures!Insert(r) \/ Pictures!InsertUnanswered(r)
  PROVE  Pictures!PicturesInvariant'
<1> USE DEF Pictures!PicturesInvariant
<1> DEFINE i == upload[r].image
           n == Pictures!Cardinality(Pictures!Rows)
<1>1. /\ phase[r] = "insert" /\ n < MaxImages /\ position' = [position EXCEPT ![i] = n]
      /\ UNCHANGED <<seller, archived, object>>
      /\ i \in Images /\ i \notin Pictures!Rows /\ object[i] = "stored"
      /\ \A q \in Requests \ {r} : upload[q].image # i
  BY DEF Pictures!Insert, Pictures!InsertUnanswered, Pictures!Admissible, Pictures!HasRoom,
     Pictures!RequestFits
<1>2. n \in Nat /\ Pictures!IsFiniteSet(Pictures!Rows) /\ Pictures!Rows \subseteq Images
  BY PictureTypes
<1>3. /\ position'[i] = n /\ \A j \in Images \ {i} : position'[j] = position[j]
      /\ position' \in [Images -> Pictures!Positions \cup {Pictures!Absent}]
  <2>1. n \in Pictures!Positions
    BY <1>1, <1>2, PictureNumbers DEF Pictures!Positions
  <2> HIDE DEF i, n
  <2> QED BY <1>1, <2>1 DEF Pictures!TypeOK
<1>4. Pictures!Rows' = Pictures!Rows \cup {i}
  <2>1. n # Pictures!Absent
    BY <1>2 DEF Pictures!Absent
  <2> HIDE DEF i, n
  <2> QED BY <1>1, <1>3, <2>1 DEF Pictures!Rows
<1>5. Pictures!Cardinality(Pictures!Rows') = n + 1
  BY <1>1, <1>2, <1>4, FS_AddElement, PicturesCount
<1>6. Pictures!PositionsAreContiguous' /\ Pictures!PositionsAreDistinct'
  <2>1. {position[j] : j \in Pictures!Rows} = 0..(n - 1)
    BY DEF Pictures!PositionsAreContiguous
  <2>2. \A j \in Pictures!Rows : position'[j] = position[j] /\ position[j] \in 0..(n - 1)
    BY <1>1, <1>2, <1>3, <2>1
  <2>3. {position'[j] : j \in Pictures!Rows'} = {position[j] : j \in Pictures!Rows} \cup {n}
    <3> HIDE DEF i, n
    <3> QED BY <1>3, <1>4, <2>2
  <2>4. (0..(n - 1)) \cup {n} = 0..((n + 1) - 1)
    <3> HIDE DEF n
    <3> QED BY <1>2
  <2>5. {position'[j] : j \in Pictures!Rows'} = 0..(Pictures!Cardinality(Pictures!Rows') - 1)
    BY <1>5, <2>1, <2>3, <2>4
  <2>6. Pictures!Cardinality(Pictures!Rows') <= MaxImages
    <3> HIDE DEF n
    <3> QED BY <1>1, <1>2, <1>5, PictureNumbers
  <2>7. Pictures!PositionsAreDistinct'
    <3> SUFFICES ASSUME NEW j \in Pictures!Rows', NEW k \in Pictures!Rows', j # k
                 PROVE  position'[j] # position'[k]
      BY DEF Pictures!PositionsAreDistinct
    <3>1. \A l \in Pictures!Rows' : l = i \/ l \in Pictures!Rows
      BY <1>4
    <3>2. \A l \in Pictures!Rows : position[l] # n
      <4> HIDE DEF n
      <4> QED BY <1>2, <2>2
    <3> HIDE DEF i, n
    <3> QED BY <1>3, <2>2, <3>1, <3>2 DEF Pictures!PositionsAreDistinct
  <2> QED BY <2>5, <2>6, <2>7 DEF Pictures!PositionsAreContiguous
<1>7. /\ phase' \in [Requests -> Pictures!Stages] /\ upload' \in [Requests -> Pictures!Context]
      /\ \A q \in Requests \ {r} : phase'[q] = phase[q] /\ upload'[q] = upload[q]
      /\ upload'[r].image \in {i, NoImage}
      /\ Pictures!RequestFits(r)'
      /\ blamed' \in [Images -> SUBSET {"cleanup", "commit"}]
      /\ \A j \in Images : blamed[j] \subseteq blamed'[j]
  <2>1. CASE Pictures!Insert(r)
    <3>1. Pictures!Finish(r) /\ blamed' = blamed
      BY <2>1 DEF Pictures!Insert
    <3> QED BY <3>1, PicturesFinishTypes DEF Pictures!RequestFits, Pictures!TypeOK
  <2>2. CASE Pictures!InsertUnanswered(r)
    <3>1. /\ blamed' = [blamed EXCEPT ![i] = @ \cup {"commit"}]
          /\ Pictures!Goto(r, "compensate") /\ upload' = [upload EXCEPT ![r] = upload[r]]
      BY <2>2 DEF Pictures!InsertUnanswered, Pictures!TypeOK
    <3>2. /\ phase' \in [Requests -> Pictures!Stages]
                /\ upload' \in [Requests -> Pictures!Context]
          /\ \A q \in Requests \ {r} : phase'[q] = phase[q] /\ upload'[q] = upload[q]
          /\ phase'[r] = "compensate" /\ upload'[r] = upload[r]
      BY <3>1, PictureTypes, PicturesMoveTypes DEF Pictures!Stages
    <3>3. /\ blamed' \in [Images -> SUBSET {"cleanup", "commit"}]
          /\ \A j \in Images : blamed[j] \subseteq blamed'[j]
          /\ "commit" \in blamed'[i]
      BY <1>1, <3>1 DEF Pictures!TypeOK
    <3>4. Pictures!RequestFits(r)'
      BY <1>1, <3>2, <3>3 DEF Pictures!RequestFits
    <3> QED BY <3>2, <3>3, <3>4
  <2> QED BY <2>1, <2>2
<1>8. Pictures!TypeOK'
  BY <1>1, <1>3, <1>7 DEF Pictures!TypeOK
<1>9. \A q \in Requests \ {r} : phase[q] \in {"save", "insert"} =>
         upload[q].image # i /\ upload'[r].image # upload[q].image
  <2>1. \A q \in Requests \ {r} : phase[q] \in {"save", "insert"} => upload[q].image \in Images
    BY DEF Pictures!RequestFits
  <2> HIDE DEF i
  <2> QED BY <1>1, <1>7, <2>1, PictureNumbers
<1>10. i \notin Pictures!OrphanObjects' /\ object'[i] = "stored"
  BY <1>1, <1>4 DEF Pictures!OrphanObjects
<1>11. (\A q \in Requests : Pictures!RequestFits(q)') /\ Pictures!RowsHaveObjects'
                                                            /\ Pictures!NoOrphans'
  <2>1. phase[r] \in Pictures!Working => upload[r].image = i
    OBVIOUS
  <2>2. \A j \in Images \ {i} : object'[j] = object[j] /\ (j \in Pictures!Rows' <=> j \in Pictures!Rows)
    BY <1>1, <1>4
  <2> HIDE DEF i, n
  <2> QED BY <1>1, <1>7, <1>9, <1>10, <2>1, <2>2, PicturesFilesStayInOrder
<1> QED
  BY <1>6, <1>8, <1>11

\* The rows take the positions that were asked for (reorder).
LEMMA PicturesReorderKeepsInvariant ==
  ASSUME Pictures!ConstantsAreValid, Pictures!PicturesInvariant, NEW r \in Requests,
         Pictures!Reorder(r)
  PROVE  Pictures!PicturesInvariant'
<1> USE DEF Pictures!PicturesInvariant
<1> DEFINE order == upload[r].order
<1>1. /\ phase[r] = "reorder" /\ position' = order /\ Pictures!Finish(r)
      /\ UNCHANGED <<seller, archived, object, blamed>>
      /\ {i \in Images : order[i] # Pictures!Absent} = Pictures!Rows
      /\ Pictures!OrderIsContiguous(order)
  BY DEF Pictures!Reorder, Pictures!NamesTheRows, Pictures!RequestFits
<1>2. Pictures!Rows' = Pictures!Rows
  <2> HIDE DEF order
  <2> QED BY <1>1 DEF Pictures!Rows
<1>3. Pictures!PositionsAreContiguous' /\ Pictures!PositionsAreDistinct'
  <2>1. /\ {order[i] : i \in Pictures!Rows} = 0..(Pictures!Cardinality(Pictures!Rows) - 1)
        /\ \A i, j \in Pictures!Rows : i # j => order[i] # order[j]
    <3> HIDE DEF order
    <3> QED BY <1>1 DEF Pictures!OrderIsContiguous
  <2> HIDE DEF order
  <2> QED BY <1>1, <1>2, <2>1 DEF Pictures!PositionsAreContiguous, Pictures!PositionsAreDistinct
<1>4. /\ phase' \in [Requests -> Pictures!Stages] /\ upload' \in [Requests -> Pictures!Context]
      /\ \A q \in Requests \ {r} : phase'[q] = phase[q] /\ upload'[q] = upload[q]
      /\ upload'[r].image = NoImage /\ phase'[r] = "idle"
  BY <1>1, PicturesFinishTypes
<1>5. Pictures!RequestFits(r)'
  BY <1>4 DEF Pictures!RequestFits
<1>6. Pictures!TypeOK'
  BY <1>1, <1>4, PictureTypes DEF Pictures!TypeOK
<1>7. \A q \in Requests \ {r} : phase[q] \in {"save", "insert"} =>
        upload[q].image # NoImage /\ upload'[r].image # upload[q].image
  BY <1>4, PictureNumbers DEF Pictures!RequestFits
<1>8. NoImage \notin Images /\ NoImage \notin Pictures!Rows'
                                  /\ NoImage \notin Pictures!OrphanObjects'
  BY PictureNumbers DEF Pictures!Rows, Pictures!OrphanObjects
<1>9. phase[r] \notin Pictures!Working
  BY <1>1 DEF Pictures!Working
<1>10. (\A q \in Requests : Pictures!RequestFits(q)') /\ Pictures!RowsHaveObjects'
                                                            /\ Pictures!NoOrphans'
  <2>1. \A j \in Images \ {NoImage} : object'[j] = object[j] /\ (j \in Pictures!Rows' <=> j \in Pictures!Rows)
    BY <1>1, <1>2
  <2>2. \A j \in Images : blamed[j] \subseteq blamed'[j]
    BY <1>1
  <2> QED BY <1>4, <1>5, <1>7, <1>8, <1>9, <2>1, <2>2, PicturesFilesStayInOrder
<1> QED
  BY <1>3, <1>6, <1>10

\* A row goes and the others close up, answered or not (_delete_metadata).
LEMMA PicturesDeleteKeepsInvariant ==
  ASSUME Pictures!ConstantsAreValid, Pictures!PicturesInvariant, NEW r \in Requests,
         Pictures!Delete(r) \/ Pictures!DeleteUnanswered(r)
  PROVE  Pictures!PicturesInvariant'
<1> USE DEF Pictures!PicturesInvariant
<1> DEFINE i == upload[r].image
           S == Pictures!Rows \ {i}
           rank == [k \in Images |-> IF k \in S
                                     THEN Pictures!Cardinality({j \in S : position[j] < position[k]})
                                     ELSE Pictures!Absent]
<1>1. /\ phase[r] = "delete" /\ i \in Pictures!Rows /\ position' = rank
      /\ UNCHANGED <<seller, archived, object>>
  BY DEF Pictures!Delete, Pictures!DeleteUnanswered, Pictures!DeleteRow, Pictures!Remaining,
     Pictures!Closed
<1>2. Pictures!IsFiniteSet(Pictures!Rows) /\ Pictures!Rows \subseteq Images
  BY PictureTypes
<1>3. ClosesUp(rank, position, Pictures!Rows, i)
  BY <1>2 DEF ClosesUp
<1>4. /\ {rank[k] : k \in S} = 0..(Pictures!Cardinality(S) - 1)
      /\ \A j, k \in S : j # k => rank[j] # rank[k]
      /\ Pictures!Cardinality(S) = Pictures!Cardinality(Pictures!Rows) - 1
            /\ Pictures!Cardinality(Pictures!Rows) \in Nat
      /\ Pictures!Cardinality(Pictures!Rows) > 0
  <2>1. Gapless(position, Pictures!Rows)
    BY DEF Gapless, Pictures!PositionsAreContiguous, Pictures!PositionsAreDistinct
  <2>2. /\ Gapless(rank, S)
        /\ Pictures!Cardinality(S) = Pictures!Cardinality(Pictures!Rows) - 1
              /\ Pictures!Cardinality(Pictures!Rows) \in Nat
        /\ Pictures!Cardinality(Pictures!Rows) > 0
    <3> HIDE DEF rank, i
    <3> QED BY <1>1, <1>2, <1>3, <2>1, RanksWithout
  <2> HIDE DEF rank, S
  <2> QED BY <2>2 DEF Gapless
<1>5. \A k \in S : rank[k] \in Pictures!Positions /\ rank[k] # Pictures!Absent
  <2> SUFFICES ASSUME NEW k \in S
               PROVE  rank[k] \in Pictures!Positions /\ rank[k] # Pictures!Absent
    OBVIOUS
  <2>1. rank[k] \in 0..(Pictures!Cardinality(S) - 1)
    BY <1>4
  <2>2. Pictures!Cardinality(Pictures!Rows) <= MaxImages
    BY DEF Pictures!PositionsAreContiguous
  <2> HIDE DEF rank, S
  <2> QED BY <1>4, <2>1, <2>2, PictureNumbers DEF Pictures!Positions, Pictures!Absent
<1>6. Pictures!Rows' = S /\ position' \in [Images -> Pictures!Positions \cup {Pictures!Absent}]
  <2>1. \A k \in Images \ S : rank[k] = Pictures!Absent
    OBVIOUS
  <2>2. rank = [k \in Images |-> rank[k]]
    OBVIOUS
  <2>3. S \subseteq Images
    BY <1>2
  <2> HIDE DEF rank, S
  <2> QED BY <1>1, <1>5, <2>1, <2>2, <2>3 DEF Pictures!Rows
<1>7. Pictures!PositionsAreContiguous' /\ Pictures!PositionsAreDistinct'
  <2>1. Pictures!Cardinality(Pictures!Rows) <= MaxImages
    BY DEF Pictures!PositionsAreContiguous
  <2> HIDE DEF rank, S
  <2> QED BY <1>1, <1>4, <1>6, <2>1, PictureNumbers
             DEF Pictures!PositionsAreContiguous, Pictures!PositionsAreDistinct
<1>8. /\ phase' \in [Requests -> Pictures!Stages] /\ upload' \in [Requests -> Pictures!Context]
      /\ \A q \in Requests \ {r} : phase'[q] = phase[q] /\ upload'[q] = upload[q]
      /\ upload'[r].image \in {i, NoImage}
      /\ Pictures!RequestFits(r)'
      /\ blamed' \in [Images -> SUBSET {"cleanup", "commit"}]
      /\ \A j \in Images : blamed[j] \subseteq blamed'[j]
      /\ "cleanup" \in blamed'[i] \/ (upload'[r].image = i /\ phase'[r] \in Pictures!Working)
  <2> HIDE DEF rank
  <2>1. CASE Pictures!Delete(r)
    <3>1. Pictures!Goto(r, "unlink") /\ upload' = [upload EXCEPT ![r] = upload[r]]
                                           /\ blamed' = blamed
      BY <2>1 DEF Pictures!Delete, Pictures!TypeOK
    <3>2. /\ phase' \in [Requests -> Pictures!Stages]
                /\ upload' \in [Requests -> Pictures!Context]
          /\ \A q \in Requests \ {r} : phase'[q] = phase[q] /\ upload'[q] = upload[q]
          /\ phase'[r] = "unlink" /\ upload'[r] = upload[r]
      BY <3>1, PictureTypes, PicturesMoveTypes DEF Pictures!Stages
    <3>3. Pictures!RequestFits(r)'
      BY <1>1, <1>2, <1>6, <3>2 DEF Pictures!RequestFits
    <3> QED BY <3>1, <3>2, <3>3 DEF Pictures!TypeOK, Pictures!Working
  <2>2. CASE Pictures!DeleteUnanswered(r)
    <3>1. /\ blamed' = [blamed EXCEPT ![i] = @ \cup {"cleanup"}] /\ Pictures!Finish(r)
      BY <2>2 DEF Pictures!DeleteUnanswered
    <3>2. /\ blamed' \in [Images -> SUBSET {"cleanup", "commit"}]
          /\ \A j \in Images : blamed[j] \subseteq blamed'[j]
          /\ "cleanup" \in blamed'[i]
      BY <1>1, <1>2, <3>1 DEF Pictures!TypeOK
    <3>3. /\ phase' \in [Requests -> Pictures!Stages]
                /\ upload' \in [Requests -> Pictures!Context]
          /\ \A q \in Requests \ {r} : phase'[q] = phase[q] /\ upload'[q] = upload[q]
          /\ upload'[r].image = NoImage /\ phase'[r] = "idle"
      BY <3>1, PicturesFinishTypes
    <3>4. Pictures!RequestFits(r)'
      BY <3>3 DEF Pictures!RequestFits
    <3> QED BY <3>2, <3>3, <3>4
  <2> QED BY <2>1, <2>2
<1>9. Pictures!TypeOK'
  BY <1>1, <1>6, <1>8 DEF Pictures!TypeOK
<1>10. \A q \in Requests \ {r} : phase[q] \in {"save", "insert"} =>
         upload[q].image # i /\ upload'[r].image # upload[q].image
  <2>1. \A q \in Requests \ {r} : phase[q] \in {"save", "insert"} =>
          upload[q].image \in Images /\ upload[q].image \notin Pictures!Rows
    BY DEF Pictures!RequestFits
  <2> HIDE DEF i, rank
  <2> QED BY <1>1, <1>8, <2>1, PictureNumbers
<1>11. (\A q \in Requests : Pictures!RequestFits(q)') /\ Pictures!RowsHaveObjects'
                                                            /\ Pictures!NoOrphans'
  <2>1. phase[r] \in Pictures!Working => upload[r].image = i
    OBVIOUS
  <2>2. \A j \in Images \ {i} : object'[j] = object[j] /\ (j \in Pictures!Rows' <=> j \in Pictures!Rows)
    BY <1>1, <1>6
  <2>3. i \notin Pictures!Rows'
    BY <1>6
  <2> HIDE DEF i, S, rank
  <2> QED BY <1>1, <1>8, <1>10, <2>1, <2>2, <2>3, PicturesFilesStayInOrder
<1> QED
  BY <1>7, <1>9, <1>11

-----------------------------------------------------------------------------
(* Together.                                                                  *)

\* Other transactions on the account and the listing.
LEMMA PicturesOutsideKeepsInvariant ==
  ASSUME Pictures!ConstantsAreValid, Pictures!PicturesInvariant,
         Pictures!ChangeSeller \/ Pictures!Archive
  PROVE  Pictures!PicturesInvariant'
<1> USE DEF Pictures!PicturesInvariant
<1>1. UNCHANGED <<position, object, phase, upload, blamed>> /\ Pictures!TypeOK'
  BY DEF Pictures!ChangeSeller, Pictures!Archive, Pictures!TypeOK
<1>2. Pictures!Rows' = Pictures!Rows
  BY <1>1 DEF Pictures!Rows
<1>3. \A q \in Requests : Pictures!RequestFits(q)'
  BY <1>1, <1>2 DEF Pictures!RequestFits
<1>4. Pictures!RowsHaveObjects' /\ Pictures!NoOrphans'
  BY <1>1, <1>2
     DEF Pictures!RowsHaveObjects, Pictures!MissingObjects, Pictures!NoOrphans,
     Pictures!OrphanObjects
<1> QED
  BY <1>1, <1>3, <1>4, PicturesPositionsStay

\* No rows, objects or requests at first.
LEMMA PicturesInitHasInvariant ==
  ASSUME Pictures!ConstantsAreValid, Pictures!Init
  PROVE  Pictures!PicturesInvariant
<1>1. Pictures!TypeOK
  <2>1. Pictures!NoContext \in Pictures!Context
    BY PictureNumbers DEF Pictures!NoContext, Pictures!Context, Pictures!NoOrder
  <2>2. position \in [Images -> Pictures!Positions \cup {Pictures!Absent}] /\ object \in [Images -> Pictures!Objects]
    BY DEF Pictures!Init, Pictures!Objects
  <2>3. phase \in [Requests -> Pictures!Stages] /\ upload \in [Requests -> Pictures!Context]
    BY <2>1 DEF Pictures!Init, Pictures!Stages
  <2> QED BY <2>2, <2>3 DEF Pictures!Init, Pictures!TypeOK
<1>2. Pictures!Rows = {} /\ Pictures!OrphanObjects = {}
  BY DEF Pictures!Init, Pictures!Rows, Pictures!OrphanObjects
<1>3. Pictures!PositionsAreContiguous /\ Pictures!PositionsAreDistinct
  <2>1. Pictures!Cardinality(Pictures!Rows) = 0
    BY <1>2, FS_EmptySet, PicturesCount
  <2>2. 0..(0 - 1) = {} /\ 0 <= MaxImages
    BY PictureNumbers
  <2> QED BY <1>2, <2>1, <2>2 DEF Pictures!PositionsAreContiguous, Pictures!PositionsAreDistinct
<1>4. \A r \in Requests : Pictures!RequestFits(r)
  BY DEF Pictures!Init, Pictures!RequestFits
<1> QED
  BY <1>1, <1>2, <1>3, <1>4
     DEF Pictures!PicturesInvariant, Pictures!RowsHaveObjects, Pictures!MissingObjects,
     Pictures!NoOrphans

\* Every step together.
LEMMA PicturesNextKeepsInvariant ==
  ASSUME Pictures!ConstantsAreValid, Pictures!PicturesInvariant, Pictures!Next
  PROVE  Pictures!PicturesInvariant'
<1>1. ASSUME NEW r \in Requests,
             Pictures!Upload(r) \/ Pictures!Edit(r) \/ Pictures!Refuse(r) \/ Pictures!Crash(r)
      PROVE  Pictures!PicturesInvariant'
  <2>1. CASE Pictures!Preflight(r) \/ Pictures!Refuse(r) \/ Pictures!BeginReorder(r) \/ Pictures!BeginDelete(r)
    BY <2>1, PicturesAskingKeepsInvariant
  <2>2. CASE Pictures!StartSave(r)
    BY <2>2, PicturesStartSaveKeepsInvariant
  <2>3. CASE \/ Pictures!Publish(r) \/ Pictures!FailSave(r) \/ Pictures!FailInsert(r) \/ Pictures!Deadlock(r)
             \/ Pictures!Compensate(r) \/ Pictures!FailCleanup(r) \/ Pictures!Unlink(r)
    BY <2>3, PicturesObjectKeepsInvariant
  <2>4. CASE Pictures!Insert(r) \/ Pictures!InsertUnanswered(r)
    BY <2>4, PicturesInsertKeepsInvariant
  <2>5. CASE Pictures!Reorder(r)
    BY <2>5, PicturesReorderKeepsInvariant
  <2>6. CASE Pictures!Delete(r) \/ Pictures!DeleteUnanswered(r)
    BY <2>6, PicturesDeleteKeepsInvariant
  <2>7. CASE Pictures!Crash(r)
    BY <2>7, PicturesCrashKeepsInvariant
  <2> QED BY <1>1, <2>1, <2>2, <2>3, <2>4, <2>5, <2>6, <2>7 DEF Pictures!Upload, Pictures!Edit
<1>2. CASE Pictures!ChangeSeller \/ Pictures!Archive
  BY <1>2, PicturesOutsideKeepsInvariant
<1> QED
  BY <1>1, <1>2 DEF Pictures!Next

\* Positions from 0 on leave room to park every row above them.
LEMMA PicturesContiguousRowsCanBeMoved ==
  ASSUME Pictures!ConstantsAreValid, Pictures!PicturesInvariant
  PROVE  Pictures!ResequencingNeverCollides
<1>1. ASSUME NEW kept \in {Pictures!Rows} \cup {Pictures!Rows \ {i} : i \in Pictures!Rows},
             NEW f \in Pictures!Bijections(kept), NEW moved \in SUBSET kept
      PROVE  LET first == [i \in kept |-> IF i \in moved THEN Pictures!Parked(f[i]) ELSE position[i]]
                 second == [i \in kept |-> IF i \in moved THEN f[i] ELSE Pictures!Parked(f[i])]
             IN  \A i \in kept :
                   /\ first[i] \in Pictures!Positions /\ second[i] \in Pictures!Positions
                   /\ \A j \in kept \ {i} : first[i] # first[j] /\ second[i] # second[j]
  <2> DEFINE first == [i \in kept |-> IF i \in moved THEN Pictures!Parked(f[i]) ELSE position[i]]
             second == [i \in kept |-> IF i \in moved THEN f[i] ELSE Pictures!Parked(f[i])]
  <2>1. kept \subseteq Pictures!Rows /\ Pictures!IsFiniteSet(Pictures!Rows)
                                           /\ Pictures!Cardinality(Pictures!Rows) \in Nat
    BY PictureTypes DEF Pictures!PicturesInvariant
  <2>2. Pictures!IsFiniteSet(kept) /\ Pictures!Cardinality(kept) \in Nat
                                         /\ Pictures!Cardinality(kept) <= Pictures!Cardinality(Pictures!Rows)
    BY <2>1, FS_Subset, FS_CardinalityType, PicturesCount
  <2>3. Pictures!Cardinality(Pictures!Rows) <= MaxImages
    BY DEF Pictures!PicturesInvariant, Pictures!PositionsAreContiguous
  <2>4. \A j \in kept : f[j] \in Nat /\ f[j] < MaxImages
    <3>1. \A j \in kept : f[j] \in 0..(Pictures!Cardinality(kept) - 1)
      BY <2>2, PicturesBijectionsAreContiguous
    <3> QED BY <2>1, <2>2, <2>3, <3>1, PictureNumbers
  <2>5. \A j, k \in kept : j # k => f[j] # f[k] /\ position[j] # position[k]
    <3>1. \A j, k \in kept : j # k => f[j] # f[k]
      BY <2>2, PicturesBijectionsAreContiguous
    <3> QED BY <2>1, <3>1 DEF Pictures!PicturesInvariant, Pictures!PositionsAreDistinct
  <2>6. \A j \in kept : position[j] \in Nat /\ position[j] < MaxImages
    <3>1. \A j \in Pictures!Rows : position[j] \in 0..(Pictures!Cardinality(Pictures!Rows) - 1)
      BY DEF Pictures!PicturesInvariant, Pictures!PositionsAreContiguous
    <3> QED BY <2>1, <2>3, <3>1, PictureNumbers
  <2>7. \A i \in kept : first[i] = IF i \in moved THEN Pictures!Parked(f[i]) ELSE position[i]
    OBVIOUS
  <2>8. \A i \in kept : second[i] = IF i \in moved THEN f[i] ELSE Pictures!Parked(f[i])
    OBVIOUS
  <2>9. \A i \in kept :
          /\ first[i] \in Pictures!Positions /\ second[i] \in Pictures!Positions
          /\ \A j \in kept \ {i} : first[i] # first[j] /\ second[i] # second[j]
    <3> HIDE DEF first, second
    <3> QED BY <2>4, <2>5, <2>6, <2>7, <2>8, PictureNumbers
               DEF Pictures!Parked, Pictures!Positions
  <2> QED BY <2>9
<1> QED
  BY <1>1 DEF Pictures!ResequencingNeverCollides

-----------------------------------------------------------------------------
(* The components side by side: module MCMedia, whose properties the run      *)
(* Media checks on a small instance.                                          *)

\* Each component keeps its invariant, whichever of them a behaviour belongs to.
MediaInvariant ==
    /\ Pictures!PicturesInvariant
    /\ side = "evidence" => Evidence!SellerInvariant
    /\ side = "review" => Review!SellerInvariant
    /\ side = "tickets" => TicketInvariant

\* Where no request about pictures takes a step, all stays as it is.
LEMMA PicturesStay ==
  ASSUME Pictures!PicturesInvariant, UNCHANGED pictureVars
  PROVE  Pictures!PicturesInvariant'
<1>1. UNCHANGED <<seller, archived, position, object, phase, upload, blamed>>
  BY DEF pictureVars
<1>2. Pictures!Rows' = Pictures!Rows
  BY <1>1 DEF Pictures!Rows
<1>3. Pictures!TypeOK' /\ Pictures!RowsHaveObjects' /\ Pictures!NoOrphans'
  BY <1>1, <1>2 DEF Pictures!PicturesInvariant, Pictures!TypeOK, Pictures!RowsHaveObjects,
     Pictures!MissingObjects, Pictures!NoOrphans, Pictures!OrphanObjects
<1>4. \A r \in Requests : Pictures!RequestFits(r)'
  BY <1>1, <1>2 DEF Pictures!PicturesInvariant, Pictures!RequestFits
<1> QED
  BY <1>1, <1>3, <1>4, PicturesPositionsStay DEF Pictures!PicturesInvariant

\* A step of one component, or of none.
LEMMA MediaStepKeepsInvariant ==
  ASSUME MediaConstantsAreValid, MediaInvariant,
         [MediaNext]_<<side, now, pictureVars, sellerVars, ticketVars>>
  PROVE  MediaInvariant'
<1> USE DEF MediaConstantsAreValid, MediaInvariant
<1>1. UNCHANGED side
  BY DEF MediaNext
<1>2. Pictures!PicturesInvariant'
  <2>1. CASE UNCHANGED pictureVars
    BY <2>1, PicturesStay
  <2>2. CASE Pictures!Next
    BY <2>2, PicturesNextKeepsInvariant
  <2> QED BY <2>1, <2>2 DEF MediaNext
<1>3. ASSUME side = "evidence" PROVE Evidence!SellerInvariant'
  <2>1. [Evidence!Next]_(Evidence!vars)
    BY <1>3 DEF MediaNext, sellerVars, Evidence!vars
  <2> QED BY <1>3, <2>1, Evidence!NextKeepsInvariant
<1>4. ASSUME side = "review" PROVE Review!SellerInvariant'
  <2>1. [Review!Next]_(Review!vars)
    BY <1>4 DEF MediaNext, sellerVars, Review!vars
  <2> QED BY <1>4, <2>1, Review!NextKeepsInvariant
<1>5. ASSUME side = "tickets" PROVE TicketInvariant'
  <2>1. [Next]_vars
    BY <1>5 DEF MediaNext, ticketVars, vars
  <2> QED BY <1>5, <2>1, NextKeepsInvariant
<1> QED
  BY <1>1, <1>2, <1>3, <1>4, <1>5

\* The invariants of all components hold in the composition.
THEOREM MediaInvariantHolds ==
  ASSUME MediaConstantsAreValid PROVE MediaSpec => []MediaInvariant
<1>1. MediaInit => MediaInvariant
  BY InitHasInvariant, PicturesInitHasInvariant, Evidence!InitHasInvariant, Review!InitHasInvariant
     DEF MediaInit, MediaInvariant, MediaConstantsAreValid
<1>2. MediaInvariant /\ [MediaNext]_<<side, now, pictureVars, sellerVars, ticketVars>>
         => MediaInvariant'
  BY MediaStepKeepsInvariant
<1> QED
  BY <1>1, <1>2, PTL DEF MediaSpec

\* The pictures of a listing are numbered from 0 on, whatever requests overlap, and on the
\* way to any new order no two rows share a position (reorder, delete, resequence).
THEOREM PicturesKeepTheirOrder ==
  ASSUME MediaConstantsAreValid PROVE MediaSpec => []OrderIsKept
<1>1. MediaInvariant => OrderIsKept
  BY PicturesContiguousRowsCanBeMoved
     DEF MediaConstantsAreValid, MediaInvariant, Pictures!PicturesInvariant, OrderIsKept
<1> QED
  BY <1>1, MediaInvariantHolds, PTL

\* A picture has its object and an object its picture, but after a commit nobody saw, a
\* crash or a cleanup that failed (upload, delete).
THEOREM PicturesHaveTheirObjects ==
  ASSUME MediaConstantsAreValid PROVE MediaSpec => []RowsAndObjectsAgree
<1>1. MediaInvariant => RowsAndObjectsAgree
  BY DEF MediaInvariant, Pictures!PicturesInvariant, RowsAndObjectsAgree
<1> QED
  BY <1>1, MediaInvariantHolds, PTL

\* Evidence shows the present challenge, is whole once submitted, and has its private file
\* (renew_challenge, upload, submit).
THEOREM EvidenceKeepsInOrder ==
  ASSUME MediaConstantsAreValid PROVE MediaSpec => []EvidenceIsInOrder
<1>1. MediaInvariant => EvidenceIsInOrder
  BY DEF MediaInvariant, Evidence!SellerInvariant, EvidenceIsInOrder
<1> QED
  BY <1>1, MediaInvariantHolds, PTL

\* One attempt of an account counts while the account is reviewed (lock_verified_seller).
THEOREM ReviewedAttemptIsTheNewest ==
  ASSUME MediaConstantsAreValid PROVE MediaSpec => []OneLiveAttempt
<1>1. MediaInvariant => OneLiveAttempt
  BY Review!NewestAttemptCounts DEF MediaInvariant, OneLiveAttempt
<1> QED
  BY <1>1, MediaInvariantHolds, PTL

\* Two administrators who review each other do not deadlock (review).
THEOREM ReviewersEndTheirWait ==
  ASSUME MediaConstantsAreValid PROVE MediaSpec => []ReviewersNeverWaitInACircle
<1>1. MediaInvariant => ReviewersNeverWaitInACircle
  BY Review!LockOrderExcludesCircles
     DEF MediaConstantsAreValid, MediaInvariant, ReviewersNeverWaitInACircle
<1> QED
  BY <1>1, MediaInvariantHolds, PTL

\* What was submitted stays as it was until the verdict (upload, review).
THEOREM SubmittedEvidenceIsFrozen ==
  ASSUME MediaConstantsAreValid PROVE MediaSpec => SubmissionsAreFrozen
<1>1. MediaInvariant /\ [MediaNext]_<<side, now, pictureVars, sellerVars, ticketVars>>
         => [side = "evidence" => Evidence!Freezes]_sellerVars
  <2> SUFFICES ASSUME MediaInvariant, MediaNext, side = "evidence" PROVE Evidence!Freezes
    OBVIOUS
  <2>1. Evidence!SellerInvariant /\ [Evidence!Next]_(Evidence!vars)
    BY DEF MediaInvariant, MediaNext
  <2> QED BY <2>1, Evidence!FrozenInAStep DEF MediaConstantsAreValid
<1> QED
  BY <1>1, MediaInvariantHolds, PTL DEF MediaSpec, SubmissionsAreFrozen

\* A decision is an active administrator's, on somebody else's request (review).
THEOREM VerdictsAreByAnotherAdmin ==
  ASSUME MediaConstantsAreValid PROVE MediaSpec => DecidedByAnotherAdmin
<1>1. MediaInvariant /\ [MediaNext]_<<side, now, pictureVars, sellerVars, ticketVars>>
         => [side = "review" => Review!DecidesAsAnotherAdmin]_sellerVars
  <2> SUFFICES ASSUME MediaInvariant, MediaNext, side = "review"
               PROVE  Review!DecidesAsAnotherAdmin
    OBVIOUS
  <2>1. Review!SellerInvariant /\ [Review!Next]_(Review!vars)
    BY DEF MediaInvariant, MediaNext
  <2> QED BY <2>1, Review!DecidedInAStep DEF MediaConstantsAreValid
<1> QED
  BY <1>1, MediaInvariantHolds, PTL DEF MediaSpec, DecidedByAnotherAdmin
=============================================================================
