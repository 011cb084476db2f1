------------------------- MODULE SellerVerification -------------------------
(***************************************************************************)
(* Seller verification: a draft with a challenge that expires, three       *)
(* pictures as evidence, the submission, and the review by an              *)
(* administrator (seller_verification_service.py,                          *)
(* seller_verification_repository.py, models/seller_verification.py,       *)
(* LocalPrivateStorage of storage_service.py).                             *)
(*                                                                         *)
(* Every transaction first locks the row of the account it is about; those *)
(* of the seller are one step.  A review locks two accounts, one after the *)
(* other.  The pictures are objects in a store that takes part in no       *)
(* transaction: a new one is stored before the commit, a replaced one is   *)
(* deleted after it.                                                       *)
(***************************************************************************)
EXTENDS Integers, FiniteSets

CONSTANTS
    Users,        \* the ids of the accounts, which have an order
    Sellers,      \* those that ask for verification
    Admins,       \* those that are administrators at the start
    Changing,     \* those whose standing or role changes (a bound)
    Attempts,     \* the rows seller_verifications can ever hold (a bound)
    Objects,      \* the keys the store can ever see (a bound)
    Requests,     \* the requests that can be open at a time
    None,
    Kinds,        \* EvidenceType
    Handwritten,  \* the kind that shows the challenge
    Lifetime,     \* challenge_lifetime_minutes
    MaxChallenge, \* bound on the number of challenges of a draft
    MaxTime       \* bound on the clock

ConstantsAreValid ==
    /\ None \notin (Users \cup Attempts \cup Objects \cup Requests) /\ Handwritten \in Kinds
    /\ Users \subseteq Nat /\ Sellers \cup Admins \cup Changing \subseteq Users
    /\ IsFiniteSet(Attempts) /\ IsFiniteSet(Objects)
    /\ Lifetime \in Nat \ {0} /\ MaxChallenge \in Nat /\ MaxTime \in Nat

VARIABLES
    now,      \* the clock
    person,   \* users and user_roles: [standing, admin]
    attempt,  \* seller_verifications with their seller_evidence
    stored,   \* the keys of the store that have a file
    shows,    \* the challenge the picture of a key shows
    lock,     \* which request holds the row of an account across steps
    pc,       \* what r does next
    ctx,      \* the local variables of r
    blamed    \* what went wrong with a key: a cleanup undone, a commit unanswered

vars == <<now, person, attempt, stored, shows, lock, pc, ctx, blamed>>

Time == 0..MaxTime
Challenges == 0..MaxChallenge

Person == [standing: {"eligible", "active", "suspended"}, admin: BOOLEAN]

Statuses == {"none", "PENDING", "UNDER_REVIEW", "VERIFIED", "REJECTED"}

\* serial is the place of created_at among the attempts of the account: a new one
\* follows a review, so the two are assumed not to fall into the same second.
Row == [user: Users \cup {None}, status: Statuses, serial: 0..Cardinality(Attempts),
        challenge: Challenges, expires: 0..(MaxTime + Lifetime),
        evidence: [Kinds -> Objects \cup {None}]]

Blank == [user |-> None, status |-> "none", serial |-> 0, challenge |-> 0, expires |-> 0,
          evidence |-> [k \in Kinds |-> None]]

Stages == {"idle", "upload", "unlink", "compensate", "first", "second", "decide"}

Context == [user: Users \cup {None}, kind: Kinds, challenge: Challenges,
            object: Objects \cup {None}, attempt: Attempts \cup {None}]

NoContext == [user |-> None, kind |-> Handwritten, challenge |-> 0, object |-> None,
              attempt |-> None]

TypeOK ==
    /\ now \in Time
    /\ person \in [Users -> Person]
    /\ attempt \in [Attempts -> Row]
    /\ stored \subseteq Objects
    /\ shows \in [Objects -> Challenges]
    /\ lock \in [Users -> Requests \cup {None}]
    /\ pc \in [Requests -> Stages]
    /\ ctx \in [Requests -> Context]
    /\ blamed \in [Objects -> SUBSET {"cleanup", "commit"}]

Init ==
    /\ now = 0
    /\ person = [u \in Users |-> [standing |-> "eligible", admin |-> u \in Admins]]
    /\ attempt = [a \in Attempts |-> Blank]
    /\ stored = {}
    /\ shows = [o \in Objects |-> 0]
    /\ lock = [u \in Users |-> None]
    /\ pc = [r \in Requests |-> "idle"]
    /\ ctx = [r \in Requests |-> NoContext]
    /\ blamed = [o \in Objects |-> {}]

rows == <<person, attempt>>
store == <<stored, shows, blamed>>

-----------------------------------------------------------------------------
\* The repository's queries.

AttemptsOf(u) == {a \in Attempts : attempt[a].user = u}

\* latest
IsLatest(a, u) ==
    a \in AttemptsOf(u) /\ \A b \in AttemptsOf(u) : attempt[b].serial <= attempt[a].serial

\* verified_predicate, which decides what the public sees
VerifiedPredicate(u) == \E a \in AttemptsOf(u) : attempt[a].status = "VERIFIED"

\* lock_verified_seller, which decides what the seller may do
VerifiedSeller(u) == \E a \in Attempts : IsLatest(a, u) /\ attempt[a].status = "VERIFIED"

EvidenceIsWhole(a) == \A k \in Kinds : attempt[a].evidence[k] # None

Live(a) == attempt[a].expires > now

InUse(o) ==
    \/ o \in stored \/ blamed[o] # {}
    \/ \E a \in Attempts, k \in Kinds : attempt[a].evidence[k] = o
    \/ \E r \in Requests : ctx[r].object = o

-----------------------------------------------------------------------------
\* Locks and stages

Goto(r, stage) == pc' = [pc EXCEPT ![r] = stage]

Finish(r) == Goto(r, "idle") /\ ctx' = [ctx EXCEPT ![r] = NoContext]

Released(r) == [u \in Users |-> IF lock[u] = r THEN None ELSE lock[u]]

\* lock_user of a step that commits at once.
MayLock(u) == lock[u] = None /\ person[u].standing # "suspended"
MayLockEligible(u) == lock[u] = None /\ person[u].standing = "eligible"

\* Delete the file of o after this step, or be done.
Cleanup(r, o) ==
    \/ o = None /\ Finish(r)
    \/ o # None /\ Goto(r, "unlink") /\ ctx' = [ctx EXCEPT ![r] = [NoContext EXCEPT !.object = o]]

-----------------------------------------------------------------------------
\* start, renew_challenge and submit

Deadline == now + Lifetime

\* Mutant: a verified account may start again.
MayStartAnew(u) == \A a \in Attempts : IsLatest(a, u) => attempt[a].status \in {"REJECTED", "VERIFIED"}

MayStart(u) == \A a \in Attempts : IsLatest(a, u) => attempt[a].status = "REJECTED"

Start(u) ==
    /\ MayLockEligible(u)
    /\ MayStart(u)
    /\ \E a \in Attempts :
         /\ attempt[a].status = "none"
         /\ attempt' = [attempt EXCEPT ![a] =
                [Blank EXCEPT !.user = u, !.status = "PENDING", !.expires = Deadline,
                              !.serial = Cardinality(AttemptsOf(u)) + 1]]
    /\ UNCHANGED <<now, person, lock, pc, ctx, store>>

\* Mutant: the picture of the old challenge stays in place.
Kept(evidence) == evidence

Dropped(evidence) == [evidence EXCEPT ![Handwritten] = None]

\* A new challenge takes the picture of the old one away.
Renew(r, u) ==
    /\ pc[r] = "idle"
    /\ MayLockEligible(u)
    /\ \E a \in Attempts :
         /\ IsLatest(a, u) /\ attempt[a].status = "PENDING"
         /\ attempt[a].challenge < MaxChallenge
         /\ attempt' = [attempt EXCEPT ![a].challenge = @ + 1, ![a].expires = Deadline,
                                       ![a].evidence = Dropped(@)]
         /\ Cleanup(r, attempt[a].evidence[Handwritten])
    /\ UNCHANGED <<now, person, lock, store>>

Ready(a) == attempt[a].status = "PENDING" /\ Live(a) /\ EvidenceIsWhole(a)

Submit(u) ==
    /\ MayLockEligible(u)
    /\ \E a \in Attempts :
         /\ IsLatest(a, u) /\ Ready(a)
         /\ attempt' = [attempt EXCEPT ![a].status = "UNDER_REVIEW"]
    /\ UNCHANGED <<now, person, lock, pc, ctx, store>>

-----------------------------------------------------------------------------
\* upload

\* The picture was taken for the challenge the client was shown.
BeginUpload(r, u, k) ==
    /\ pc[r] = "idle"
    /\ \E a \in Attempts :
         /\ IsLatest(a, u)
         /\ ctx' = [ctx EXCEPT ![r] = [NoContext EXCEPT !.user = u, !.kind = k,
                                                        !.challenge = attempt[a].challenge]]
    /\ Goto(r, "upload")
    /\ UNCHANGED <<now, rows, lock, store>>

\* Mutant: the draft may have been submitted meanwhile.
AcceptsAfterSubmission(r, a) ==
    LET k == ctx[r].kind
    IN  /\ IsLatest(a, ctx[r].user)
        /\ attempt[a].status \in {"PENDING", "UNDER_REVIEW"}
        /\ k = Handwritten => Live(a) /\ ctx[r].challenge = attempt[a].challenge

Accepts(r, a) ==
    LET k == ctx[r].kind
    IN  /\ IsLatest(a, ctx[r].user)
        /\ attempt[a].status = "PENDING"
        /\ k = Handwritten => Live(a) /\ ctx[r].challenge = attempt[a].challenge

\* The body of the transaction: a new object o for attempt a.
Place(r, a, o) ==
    /\ pc[r] = "upload"
    /\ MayLockEligible(ctx[r].user)
    /\ Accepts(r, a)
    /\ ~InUse(o)
    /\ stored' = stored \cup {o}
    /\ shows' = [shows EXCEPT ![o] = ctx[r].challenge]
    /\ UNCHANGED <<now, person, lock>>

Replaced(r, a, o) == attempt' = [attempt EXCEPT ![a].evidence[ctx[r].kind] = o]

ToDelete(old, new) == old

Upload(r) ==
    \E a \in Attempts, o \in Objects :
        /\ Place(r, a, o)
        /\ Replaced(r, a, o)
        /\ Cleanup(r, ToDelete(attempt[a].evidence[ctx[r].kind], o))
        /\ UNCHANGED blamed

\* The transaction fails after the object was stored.
UploadFails(r) ==
    \E a \in Attempts, o \in Objects :
        /\ Place(r, a, o)
        /\ Goto(r, "compensate")
        /\ ctx' = [ctx EXCEPT ![r] = [NoContext EXCEPT !.object = o]]
        /\ UNCHANGED <<attempt, blamed>>

\* It commits, but the connection breaks before the answer.
UploadUnanswered(r) ==
    \E a \in Attempts, o \in Objects :
        /\ Place(r, a, o)
        /\ Replaced(r, a, o)
        /\ blamed' = [p \in Objects |->
              IF p = o THEN {"commit"}
              ELSE IF p = attempt[a].evidence[ctx[r].kind] THEN blamed[p] \cup {"cleanup"}
              ELSE blamed[p]]
        /\ Goto(r, "compensate")
        /\ ctx' = [ctx EXCEPT ![r] = [NoContext EXCEPT !.object = o]]

\* The old object after the commit, or the new one after a failure.
Unlink(r) ==
    /\ pc[r] \in {"unlink", "compensate"}
    /\ stored' = stored \ {ctx[r].object}
    /\ Finish(r)
    /\ UNCHANGED <<now, rows, lock, shows, blamed>>

\* The store refuses, or the process stops: only the log knows.
FailCleanup(r) ==
    /\ pc[r] \in {"unlink", "compensate"}
    /\ blamed' = [blamed EXCEPT ![ctx[r].object] = @ \cup {"cleanup"}]
    /\ Finish(r)
    /\ UNCHANGED <<now, rows, lock, stored, shows>>

-----------------------------------------------------------------------------
\* review

\* The owner is looked up without a lock; an attempt never changes hands.
BeginReview(r, u, a) ==
    /\ pc[r] = "idle" /\ attempt[a].status # "none"
    /\ Goto(r, "first")
    /\ ctx' = [ctx EXCEPT ![r] = [NoContext EXCEPT !.user = u, !.attempt = a]]
    /\ UNCHANGED <<now, rows, lock, store>>

OwnerOf(r) == attempt[ctx[r].attempt].user

\* Mutant: the owner of the request is locked first.
OwnerFirst(r) == <<OwnerOf(r), ctx[r].user>>

\* sorted({owner, actor_id})
Ordered(r) == IF OwnerOf(r) <= ctx[r].user THEN <<OwnerOf(r), ctx[r].user>>
                                           ELSE <<ctx[r].user, OwnerOf(r)>>

\* The row r waits for next.
Wants(r) == IF pc[r] = "first" THEN Ordered(r)[1] ELSE Ordered(r)[2]

\* Only the owner has to be eligible; lock_user refuses and the review ends.
LockReviewed(r) ==
    LET u == Wants(r)
    IN  /\ pc[r] \in {"first", "second"}
        /\ lock[u] = None \/ lock[u] = r
        /\ IF u = OwnerOf(r) THEN person[u].standing = "eligible"
                             ELSE person[u].standing # "suspended"
        /\ lock' = [lock EXCEPT ![u] = r]
        /\ Goto(r, IF pc[r] = "first" THEN "second" ELSE "decide")
        /\ UNCHANGED <<now, rows, store, ctx>>

\* Mutant: an administrator may decide on the own request.
MayDecideOwn(r) ==
    /\ person[ctx[r].user].admin
    /\ attempt[ctx[r].attempt].status = "UNDER_REVIEW"
    /\ EvidenceIsWhole(ctx[r].attempt)

MayDecide(r) ==
    /\ person[ctx[r].user].admin /\ OwnerOf(r) # ctx[r].user
    /\ attempt[ctx[r].attempt].status = "UNDER_REVIEW"
    /\ EvidenceIsWhole(ctx[r].attempt)

Decide(r, verdict) ==
    /\ pc[r] = "decide"
    /\ MayDecide(r)
    /\ attempt' = [attempt EXCEPT ![ctx[r].attempt].status = verdict]
    /\ lock' = Released(r)
    /\ Finish(r)
    /\ UNCHANGED <<now, person, store>>

\* Any refusal, exception or crash of a transaction, which holds no object yet.
GiveUp(r) ==
    /\ pc[r] \in {"upload", "first", "second", "decide"}
    /\ lock' = Released(r)
    /\ Finish(r)
    /\ UNCHANGED <<now, rows, store>>

-----------------------------------------------------------------------------
Tick ==
    /\ now < MaxTime
    /\ now' = now + 1
    /\ UNCHANGED <<rows, lock, pc, ctx, store>>

\* Suspensions, verified addresses and roles, granted or taken by other parts.
ChangePerson(u) ==
    /\ lock[u] = None
    /\ \E p \in Person : p # person[u] /\ person' = [person EXCEPT ![u] = p]
    /\ UNCHANGED <<now, attempt, lock, pc, ctx, store>>

\* The pool has a key for every upload that is under way.
RoomForAnObject ==
    Cardinality({o \in Objects : ~InUse(o)})
        > Cardinality({r \in Requests : pc[r] = "upload"})

Evidence(r) ==
    \/ \E u \in Sellers, k \in Kinds : RoomForAnObject /\ BeginUpload(r, u, k)
    \/ Upload(r) \/ UploadFails(r) \/ UploadUnanswered(r)
    \/ Unlink(r) \/ FailCleanup(r)

Review(r) ==
    \/ \E u \in Users, a \in Attempts : BeginReview(r, u, a)
    \/ LockReviewed(r)
    \/ \E verdict \in {"VERIFIED", "REJECTED"} : Decide(r, verdict)

Next ==
    \/ \E u \in Sellers : Start(u) \/ Submit(u)
    \/ \E r \in Requests :
         \/ \E u \in Sellers : Renew(r, u)
         \/ Evidence(r) \/ Review(r) \/ GiveUp(r)
    \/ Tick
    \/ \E u \in Changing : ChangePerson(u)

Spec == Init /\ [][Next]_vars
=============================================================================
