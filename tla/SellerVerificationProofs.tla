---------------------- MODULE SellerVerificationProofs ----------------------
(***************************************************************************)
(* Proofs about the verification of sellers, for every set of accounts,    *)
(* attempts, kinds of evidence and requests: one attempt of an account     *)
(* counts, evidence shows the present challenge and has its file, what was *)
(* submitted is what is reviewed, by another administrator, and reviewers  *)
(* never wait in a circle.                                                 *)
(***************************************************************************)
EXTENDS SellerVerificationSafety, FiniteSetTheorems, TLAPS

Submitted == {"UNDER_REVIEW", "VERIFIED", "REJECTED"}

EvidenceFacts ==
    ObjectsAreApart /\ EvidenceMatchesTheChallenge /\ EvidenceHasItsObject /\ NoOrphanEvidence

\* What the assumptions say of the names and bounds.
LEMMA Names ==
  ASSUME ConstantsAreValid
  PROVE  /\ None \notin Users /\ None \notin Attempts /\ None \notin Objects
         /\ None \notin Requests /\ Handwritten \in Kinds
         /\ Users \subseteq Nat /\ Sellers \subseteq Users
         /\ Lifetime \in Nat /\ MaxChallenge \in Nat /\ MaxTime \in Nat
         /\ Cardinality(Attempts) \in Nat
  BY FS_CardinalityType DEF ConstantsAreValid

\* The fields of a row.
LEMMA RowTypes ==
  ASSUME ConstantsAreValid, TypeOK, NEW a \in Attempts
  PROVE  /\ attempt[a] \in Row
         /\ attempt[a].user \in Users \cup {None} /\ attempt[a].status \in Statuses
         /\ attempt[a].serial \in Nat /\ attempt[a].challenge \in Nat
         /\ attempt[a].evidence \in [Kinds -> Objects \cup {None}]
<1>1. attempt[a] \in Row
  BY DEF TypeOK
<1> QED
  BY <1>1, Names DEF Row, Challenges

\* The context of a request that does nothing has the type of a context.
LEMMA EmptyContext == ConstantsAreValid => NoContext \in Context
  BY Names DEF NoContext, Context, Challenges

\* The attempts of an account are a finite set, and no more than all.
LEMMA AttemptsAreFinite ==
  ASSUME ConstantsAreValid, NEW u
  PROVE  /\ IsFiniteSet(AttemptsOf(u)) /\ Cardinality(AttemptsOf(u)) \in Nat
         /\ Cardinality(AttemptsOf(u)) <= Cardinality(Attempts)
<1>1. AttemptsOf(u) \subseteq Attempts /\ IsFiniteSet(Attempts)
  BY DEF AttemptsOf, ConstantsAreValid
<1> QED
  BY <1>1, FS_Subset, FS_CardinalityType

-----------------------------------------------------------------------------
(* What the steps have in common.                                          *)

\* Attempts keep their numbers when nobody's attempts and serials change.
LEMMA NumbersStand ==
  ASSUME ConstantsAreValid, TypeOK, AttemptsAreNumbered,
         \A a \in Attempts :
            \/ attempt'[a] = attempt[a]
            \/ /\ attempt[a].status # "none" /\ attempt'[a].status # "none"
               /\ attempt'[a].user = attempt[a].user /\ attempt'[a].serial = attempt[a].serial
               /\ attempt[a].status = "REJECTED" => attempt'[a].status = "REJECTED"
  PROVE  AttemptsAreNumbered'
<1>1. \A u \in Users : AttemptsOf(u)' = AttemptsOf(u)
  BY DEF AttemptsOf
<1>2. \A a \in Attempts : attempt'[a].serial = attempt[a].serial
                          /\ attempt'[a].user = attempt[a].user
  OBVIOUS
<1>3. \A u \in Users, a \in Attempts : IsLatest(a, u) => IsLatest(a, u)'
  BY <1>1, <1>2 DEF IsLatest, AttemptsOf
<1>4. \A a \in Attempts : attempt'[a].status = "none" => attempt'[a] = Blank
  BY DEF AttemptsAreNumbered
<1>5. \A a \in Attempts : attempt'[a].status # "none" => attempt'[a].user \in Users
  BY <1>2 DEF AttemptsAreNumbered
<1>6. ASSUME NEW u \in Users, NEW a \in AttemptsOf(u)
      PROVE  /\ attempt'[a].serial <= Cardinality(AttemptsOf(u))
             /\ attempt'[a].status # "REJECTED" => IsLatest(a, u)'
  BY <1>2, <1>3, <1>6 DEF AttemptsAreNumbered, AttemptsOf
<1> QED
  BY <1>1, <1>4, <1>5, <1>6 DEF AttemptsAreNumbered

\* Evidence stays in order when no picture or file changes and what is submitted is whole.
LEMMA EvidenceStands ==
  ASSUME ConstantsAreValid, TypeOK, EvidenceFacts, \A r \in Requests : CleanupFits(r),
         UNCHANGED store,
         \A a \in Attempts :
            /\ attempt'[a].evidence = attempt[a].evidence
            /\ attempt'[a].challenge = attempt[a].challenge
            /\ attempt'[a].status \in Submitted =>
                  attempt[a].status \in Submitted \/ EvidenceIsWhole(a),
         \A r \in Requests : pc[r] \in {"unlink", "compensate"} \/ pc'[r] \in {"unlink", "compensate"} =>
            pc'[r] = pc[r] /\ ctx'[r] = ctx[r]
  PROVE  EvidenceFacts' /\ \A r \in Requests : CleanupFits(r)'
<1>1. stored' = stored /\ shows' = shows /\ blamed' = blamed
  BY DEF store
<1>2. ObjectsAreApart'
  BY DEF EvidenceFacts, ObjectsAreApart
<1>3. EvidenceMatchesTheChallenge'
  BY <1>1 DEF EvidenceFacts, EvidenceMatchesTheChallenge, EvidenceIsWhole, Submitted
<1>4. EvidenceHasItsObject'
  BY <1>1 DEF EvidenceFacts, EvidenceHasItsObject
<1>5. NoOrphanEvidence'
  BY <1>1 DEF EvidenceFacts, NoOrphanEvidence
<1>6. \A r \in Requests : CleanupFits(r)'
  BY <1>1 DEF CleanupFits, InPlace
<1> QED
  BY <1>2, <1>3, <1>4, <1>5, <1>6 DEF EvidenceFacts

\* The owner of an attempt under review is an account.
LEMMA OwnersAreUsers ==
  ASSUME ConstantsAreValid, AttemptsAreNumbered, NEW r \in Requests, ReviewFits(r),
         pc[r] \in {"first", "second", "decide"}
  PROVE  /\ OwnerOf(r) \in Users /\ ctx[r].user \in Users /\ ctx[r].attempt \in Attempts
         /\ Ordered(r)[1] \in Users /\ Ordered(r)[2] \in Users
         /\ Ordered(r)[1] <= Ordered(r)[2]
         /\ {Ordered(r)[1], Ordered(r)[2]} = {OwnerOf(r), ctx[r].user}
<1>1. OwnerOf(r) \in Users /\ ctx[r].user \in Users /\ ctx[r].attempt \in Attempts
  BY DEF ReviewFits, AttemptsAreNumbered, OwnerOf
<1>2. OwnerOf(r) \in Nat /\ ctx[r].user \in Nat
  BY <1>1, Names
<1> QED
  BY <1>1, <1>2 DEF Ordered

\* A review goes on as it was when its attempt, its locks and the accounts it holds stay.
LEMMA ReviewStands ==
  ASSUME ConstantsAreValid, AttemptsAreNumbered, NEW r \in Requests, ReviewFits(r),
         pc'[r] = pc[r], ctx'[r] = ctx[r],
         \A u \in Users : lock'[u] = r <=> lock[u] = r,
         \A u \in Users : lock[u] = r => person'[u] = person[u],
         \A a \in Attempts : attempt[a].status # "none" =>
            attempt'[a].status # "none" /\ attempt'[a].user = attempt[a].user
  PROVE  ReviewFits(r)'
<1>1. CASE pc[r] \in {"first", "second", "decide"}
  <2>1. OwnerOf(r)' = OwnerOf(r) /\ Ordered(r)' = Ordered(r)
    BY <1>1 DEF OwnerOf, Ordered, ReviewFits
  <2>2. /\ ctx'[r].attempt \in Attempts /\ ctx'[r].user \in Users
        /\ attempt'[ctx'[r].attempt].status # "none"
    BY <1>1 DEF ReviewFits
  <2>3. \A u \in Users : Holds(r, u) => Holds(r, u)'
    BY <2>1 DEF Holds
  <2>4. /\ pc'[r] \in {"second", "decide"} => Holds(r, Ordered(r)[1])'
        /\ pc'[r] = "decide" => Holds(r, Ordered(r)[2])'
    BY <1>1, <2>1, <2>3, OwnersAreUsers DEF ReviewFits, Holds
  <2>5. \A u \in Users : lock'[u] = r => /\ pc'[r] \in {"second", "decide"}
                                         /\ pc'[r] = "second" => u = Ordered(r)'[1]
    BY <2>1 DEF ReviewFits
  <2> QED
    BY <2>2, <2>4, <2>5 DEF ReviewFits
<1>2. CASE pc[r] \notin {"first", "second", "decide"}
  BY <1>2 DEF ReviewFits
<1> QED
  BY <1>1, <1>2

\* A request that reviews nothing and holds no account.
LEMMA NoReview ==
  ASSUME NEW r \in Requests, pc'[r] \notin {"first", "second", "decide"},
         \A u \in Users : lock'[u] # r
  PROVE  ReviewFits(r)'
  BY DEF ReviewFits

\* The invariant with its facts about evidence in one.
LEMMA Parts ==
  SellerInvariant <=> /\ TypeOK /\ AttemptsAreNumbered /\ EvidenceFacts
                      /\ \A r \in Requests : CleanupFits(r)
                      /\ \A r \in Requests : ReviewFits(r)
  BY DEF SellerInvariant, EvidenceFacts

\* The same of the state after a step.
LEMMA PartsAfter ==
  ASSUME TypeOK', AttemptsAreNumbered', EvidenceFacts', \A r \in Requests : CleanupFits(r)',
         \A r \in Requests : ReviewFits(r)'
  PROVE  SellerInvariant'
  BY DEF SellerInvariant, EvidenceFacts

-----------------------------------------------------------------------------
(* start, renew_challenge and submit.                                      *)

\* A new attempt is the newest and alone, for all before it were rejected.
LEMMA StartKeepsInvariant ==
  ASSUME ConstantsAreValid, SellerInvariant, NEW u \in Sellers, Start(u)
  PROVE  SellerInvariant'
<1>0. /\ TypeOK /\ AttemptsAreNumbered /\ EvidenceFacts /\ u \in Users /\ MayStart(u)
      /\ \A r \in Requests : CleanupFits(r) /\ ReviewFits(r)
      /\ UNCHANGED <<now, person, lock, pc, ctx, stored, shows, blamed>>
  BY Parts, Names DEF Start, store
<1>1. PICK a \in Attempts, row \in {[Blank EXCEPT !.user = u, !.status = "PENDING", !.expires = Deadline,
                              !.serial = Cardinality(AttemptsOf(u)) + 1]} :
         attempt[a].status = "none" /\ attempt' = [attempt EXCEPT ![a] = row]
  BY DEF Start
<1>2. /\ row.user = u /\ row.status = "PENDING" /\ row.challenge = 0
      /\ row.serial = Cardinality(AttemptsOf(u)) + 1
      /\ row.evidence = Blank.evidence
  BY DEF Blank
<1>3. attempt[a] = Blank /\ attempt[a].user = None /\ u # None
  BY <1>0, <1>1, Names DEF AttemptsAreNumbered, Blank
<1>4. attempt'[a] = row /\ \A b \in Attempts \ {a} : attempt'[b] = attempt[b]
  BY <1>0, <1>1 DEF TypeOK
<1>5. AttemptsOf(u)' = AttemptsOf(u) \cup {a} /\ a \notin AttemptsOf(u)
  <2>1. \A b \in Attempts : attempt'[b].user = u <=> b = a \/ attempt[b].user = u
    BY <1>2, <1>4
  <2> QED
    BY <1>3, <2>1 DEF AttemptsOf
<1>6. Cardinality(AttemptsOf(u)') = Cardinality(AttemptsOf(u)) + 1
  BY <1>5, AttemptsAreFinite, FS_AddElement
<1>7. Cardinality(AttemptsOf(u)) + 1 <= Cardinality(Attempts)
  <2>1. AttemptsOf(u)' \subseteq Attempts /\ IsFiniteSet(Attempts)
    BY DEF AttemptsOf, ConstantsAreValid
  <2> QED
    BY <1>6, <2>1, FS_Subset
<1>8. TypeOK'
  <2>1. Deadline \in 0..(MaxTime + Lifetime)
    BY <1>0, Names DEF Deadline, TypeOK, Time
  <2>2. Cardinality(AttemptsOf(u)) + 1 \in 0..Cardinality(Attempts)
    BY <1>7, AttemptsAreFinite, Names
  <2>3. Blank \in Row
    BY Names DEF Row, Blank, Statuses, Challenges
  <2>4. PICK blank \in Row : blank = Blank
    BY <2>3
  <2>5. [blank EXCEPT !.user = u, !.status = "PENDING", !.expires = Deadline,
                      !.serial = Cardinality(AttemptsOf(u)) + 1] \in Row
    BY <1>0, <2>1, <2>2 DEF Row, Statuses
  <2> QED
    BY <1>0, <1>1, <2>4, <2>5 DEF TypeOK
<1>9. AttemptsAreNumbered'
  <2>1. \A b \in Attempts : attempt'[b].status = "none" => attempt'[b] = Blank
    BY <1>0, <1>2, <1>4 DEF AttemptsAreNumbered
  <2>2. \A b \in Attempts : attempt'[b].status # "none" => attempt'[b].user \in Users
    BY <1>0, <1>2, <1>4 DEF AttemptsAreNumbered
  <2>3. \A b \in AttemptsOf(u) : /\ attempt[b].status = "REJECTED"
                                 /\ attempt[b].serial <= Cardinality(AttemptsOf(u))
    BY <1>0 DEF MayStart, AttemptsAreNumbered, AttemptsOf
  <2>4. \A b \in AttemptsOf(u) : attempt[b].serial \in Nat
    BY <1>0, RowTypes DEF AttemptsOf
  <2>5. ASSUME NEW b \in AttemptsOf(u)' PROVE attempt'[b].serial <= attempt'[a].serial
    <3>1. CASE b = a
      <4>1. attempt'[a].serial \in Nat
        BY <1>2, <1>4, AttemptsAreFinite
      <4> QED
        BY <3>1, <4>1
    <3>2. CASE b # a
      <4>1. b \in AttemptsOf(u) /\ attempt'[b] = attempt[b]
        BY <1>4, <1>5, <2>5, <3>2 DEF AttemptsOf
      <4> QED
        BY <1>2, <1>4, <2>3, <2>4, <4>1, AttemptsAreFinite
    <3> QED
      BY <3>1, <3>2
  <2>6. \A b \in AttemptsOf(u)' :
           /\ attempt'[b].serial <= Cardinality(AttemptsOf(u)')
           /\ attempt'[b].status # "REJECTED" => IsLatest(b, u)'
    <3>1. IsLatest(a, u)'
      BY <1>5, <2>5 DEF IsLatest
    <3>2. attempt'[a].serial = Cardinality(AttemptsOf(u)')
      BY <1>2, <1>4, <1>6
    <3>3. \A b \in AttemptsOf(u)' : b # a => attempt'[b].status = "REJECTED"
      BY <1>4, <1>5, <2>3 DEF AttemptsOf
    <3> QED
      BY <2>5, <3>1, <3>2, <3>3
  <2>7. ASSUME NEW v \in Users \ {u} PROVE AttemptsOf(v)' = AttemptsOf(v)
    <3>1. \A b \in Attempts : attempt'[b].user = v <=> attempt[b].user = v
      BY <1>2, <1>3, <1>4, Names
    <3> QED
      BY <3>1 DEF AttemptsOf
  <2>8. ASSUME NEW v \in Users \ {u}, NEW b \in AttemptsOf(v)'
        PROVE  /\ attempt'[b].serial <= Cardinality(AttemptsOf(v)')
               /\ attempt'[b].status # "REJECTED" => IsLatest(b, v)'
    <3>1. \A c \in AttemptsOf(v) : c # a /\ attempt'[c] = attempt[c]
      BY <1>3, <1>4, Names DEF AttemptsOf
    <3>2. IsLatest(b, v) => IsLatest(b, v)'
      BY <2>7, <3>1 DEF IsLatest
    <3> QED
      BY <1>0, <2>7, <2>8, <3>1, <3>2 DEF AttemptsAreNumbered
  <2> QED
    BY <2>1, <2>2, <2>6, <2>8 DEF AttemptsAreNumbered
<1>10. EvidenceFacts' /\ \A r \in Requests : CleanupFits(r)'
  <2>1. \A b \in Attempts :
            /\ attempt'[b].evidence = attempt[b].evidence
            /\ attempt'[b].challenge = attempt[b].challenge
            /\ attempt'[b].status \in Submitted => attempt[b].status \in Submitted
    <3>1. /\ Blank.challenge = 0 /\ attempt[a].evidence = Blank.evidence
          /\ attempt[a].challenge = 0 /\ attempt'[a].status \notin Submitted
      BY <1>2, <1>3, <1>4 DEF Blank, Submitted
    <3> QED
      BY <1>2, <1>4, <3>1
  <2> QED
    BY <1>0, <2>1, EvidenceStands DEF store
<1>11. \A r \in Requests : ReviewFits(r)'
  <2>1. \A b \in Attempts : attempt[b].status # "none" =>
            attempt'[b].status # "none" /\ attempt'[b].user = attempt[b].user
    BY <1>1, <1>4
  <2> QED
    BY <1>0, <2>1, ReviewStands
<1> QED
  BY <1>8, <1>9, <1>10, <1>11, PartsAfter

\* Submitting changes the status of a whole draft.
LEMMA SubmitKeepsInvariant ==
  ASSUME ConstantsAreValid, SellerInvariant, NEW u \in Sellers, Submit(u)
  PROVE  SellerInvariant'
<1>0. /\ TypeOK /\ AttemptsAreNumbered /\ EvidenceFacts
      /\ \A r \in Requests : CleanupFits(r) /\ ReviewFits(r)
      /\ UNCHANGED <<now, person, lock, pc, ctx, stored, shows, blamed>>
  BY Parts DEF Submit, store
<1>1. PICK a \in Attempts : /\ attempt[a].status = "PENDING" /\ EvidenceIsWhole(a)
                            /\ attempt' = [attempt EXCEPT ![a].status = "UNDER_REVIEW"]
  BY DEF Submit, Ready
<1>2. PICK old \in Row : old = attempt[a]
  BY <1>0 DEF TypeOK
<1>3. /\ attempt' = [attempt EXCEPT ![a] = [old EXCEPT !.status = "UNDER_REVIEW"]]
      /\ attempt'[a] = [old EXCEPT !.status = "UNDER_REVIEW"]
      /\ \A b \in Attempts \ {a} : attempt'[b] = attempt[b]
  BY <1>0, <1>1, <1>2 DEF TypeOK
<1>4. /\ attempt'[a].status = "UNDER_REVIEW" /\ attempt'[a].user = attempt[a].user
      /\ attempt'[a].serial = attempt[a].serial /\ attempt'[a].evidence = attempt[a].evidence
      /\ attempt'[a].challenge = attempt[a].challenge
  BY <1>2, <1>3 DEF Row
<1>5. TypeOK'
  <2>1. [old EXCEPT !.status = "UNDER_REVIEW"] \in Row
    BY DEF Row, Statuses
  <2> QED
    BY <1>0, <1>3, <2>1 DEF TypeOK
<1>6. AttemptsAreNumbered'
  BY <1>0, <1>1, <1>3, <1>4, NumbersStand
<1>7. EvidenceFacts' /\ \A r \in Requests : CleanupFits(r)'
  BY <1>0, <1>1, <1>3, <1>4, EvidenceStands DEF store
<1>8. \A r \in Requests : ReviewFits(r)'
  BY <1>0, <1>1, <1>3, <1>4, ReviewStands
<1> QED
  BY <1>5, <1>6, <1>7, <1>8, PartsAfter

-----------------------------------------------------------------------------
(* upload, and what becomes of its object.                                 *)

\* A request begins to upload, or to review an attempt, and writes nothing.
LEMMA BeginningsKeepInvariant ==
  ASSUME ConstantsAreValid, SellerInvariant, NEW r \in Requests,
         \/ \E u \in Sellers, k \in Kinds : BeginUpload(r, u, k)
         \/ \E u \in Users, a \in Attempts : BeginReview(r, u, a)
  PROVE  SellerInvariant'
<1>0. /\ TypeOK /\ AttemptsAreNumbered /\ EvidenceFacts
      /\ \A q \in Requests : CleanupFits(q) /\ ReviewFits(q)
      /\ pc[r] = "idle" /\ UNCHANGED <<now, person, attempt, lock, stored, shows, blamed>>
  BY Parts DEF BeginUpload, BeginReview, rows, store
<1>1. PICK new : /\ ctx' = [ctx EXCEPT ![r] = new] /\ new \in Context
                 /\ \/ pc' = [pc EXCEPT ![r] = "upload"]
                    \/ /\ pc' = [pc EXCEPT ![r] = "first"]
                       /\ new.attempt \in Attempts /\ new.user \in Users
                       /\ attempt[new.attempt].status # "none"
  <2>1. CASE \E u \in Sellers, k \in Kinds : BeginUpload(r, u, k)
    <3>0. PICK u \in Users, k \in Kinds : BeginUpload(r, u, k)
      BY <2>1, Names
    <3>1. PICK a \in Attempts :
             /\ ctx' = [ctx EXCEPT ![r] = [NoContext EXCEPT !.user = u, !.kind = k,
                                                   !.challenge = attempt[a].challenge]]
             /\ pc' = [pc EXCEPT ![r] = "upload"]
      BY <3>0 DEF BeginUpload, Goto
    <3>2. PICK c \in Challenges : c = attempt[a].challenge
      BY <1>0 DEF TypeOK, Row
    <3>3. [NoContext EXCEPT !.user = u, !.kind = k, !.challenge = c] \in Context
      BY <3>2, Names DEF NoContext, Context
    <3> QED
      BY <3>1, <3>2, <3>3
  <2>2. CASE \E u \in Users, a \in Attempts : BeginReview(r, u, a)
    <3>1. PICK u \in Users, a \in Attempts :
             /\ attempt[a].status # "none"
             /\ ctx' = [ctx EXCEPT ![r] = [NoContext EXCEPT !.user = u, !.attempt = a]]
             /\ pc' = [pc EXCEPT ![r] = "first"]
      BY <2>2 DEF BeginReview, Goto
    <3>2. PICK empty \in Context : empty = NoContext
      BY EmptyContext
    <3>3. PICK new : new = [empty EXCEPT !.user = u, !.attempt = a]
      OBVIOUS
    <3>4. new \in Context /\ new.user = u /\ new.attempt = a
      BY <3>3 DEF Context
    <3> QED
      BY <3>1, <3>2, <3>3, <3>4
  <2> QED
    BY <2>1, <2>2
<1>2. /\ ctx'[r] = new /\ pc'[r] \in {"upload", "first"}
      /\ \A q \in Requests \ {r} : pc'[q] = pc[q] /\ ctx'[q] = ctx[q]
  BY <1>0, <1>1 DEF TypeOK
<1>3. TypeOK'
  BY <1>0, <1>1 DEF TypeOK, Stages
<1>4. AttemptsAreNumbered'
  BY <1>0, NumbersStand
<1>5. EvidenceFacts' /\ \A q \in Requests : CleanupFits(q)'
  BY <1>0, <1>2, EvidenceStands DEF store
<1>6. ReviewFits(r)'
  BY <1>0, <1>1, <1>2 DEF ReviewFits, TypeOK
<1>7. \A q \in Requests \ {r} : ReviewFits(q)'
  BY <1>0, <1>2, ReviewStands
<1> QED
  BY <1>3, <1>4, <1>5, <1>6, <1>7, PartsAfter

\* A request that uploads or cleans up holds no account, before and after its step.
LEMMA UploadsHoldNothing ==
  ASSUME ConstantsAreValid, SellerInvariant, NEW r \in Requests, lock' = lock, person' = person,
         pc[r] \in {"idle", "upload", "unlink", "compensate"},
         pc'[r] \in {"idle", "upload", "unlink", "compensate"},
         \A q \in Requests \ {r} : pc'[q] = pc[q] /\ ctx'[q] = ctx[q],
         \A a \in Attempts : attempt[a].status # "none" =>
            attempt'[a].status # "none" /\ attempt'[a].user = attempt[a].user
  PROVE  \A q \in Requests : ReviewFits(q)'
<1>1. AttemptsAreNumbered /\ \A q \in Requests : ReviewFits(q)
  BY Parts
<1>2. ReviewFits(r)'
  BY <1>1 DEF ReviewFits
<1>3. \A q \in Requests \ {r} : ReviewFits(q)'
  BY <1>1, ReviewStands
<1> QED
  BY <1>2, <1>3

\* The file is deleted, or that is left to somebody who reads the log.
LEMMA CleanupsKeepInvariant ==
  ASSUME ConstantsAreValid, SellerInvariant, NEW r \in Requests, Unlink(r) \/ FailCleanup(r)
  PROVE  SellerInvariant'
<1>0. /\ TypeOK /\ AttemptsAreNumbered /\ EvidenceFacts
      /\ \A q \in Requests : CleanupFits(q) /\ ReviewFits(q)
      /\ pc[r] \in {"unlink", "compensate"} /\ Finish(r)
      /\ UNCHANGED <<now, person, attempt, lock, shows>>
  BY Parts DEF Unlink, FailCleanup, rows
<1>1. PICK o \in Objects : /\ ctx[r].object = o
                           /\ InPlace(o) => "commit" \in blamed[o]
  BY <1>0 DEF CleanupFits
<1>2. /\ pc'[r] = "idle" /\ pc' \in [Requests -> Stages] /\ ctx' \in [Requests -> Context]
      /\ \A q \in Requests \ {r} : pc'[q] = pc[q] /\ ctx'[q] = ctx[q]
  BY <1>0, EmptyContext DEF TypeOK, Finish, Goto, Stages
<1>3. /\ \/ stored' = stored \ {o} /\ blamed' = blamed
         \/ stored' = stored /\ blamed' = [blamed EXCEPT ![o] = @ \cup {"cleanup"}]
      /\ stored' \subseteq stored /\ stored \subseteq stored' \cup {o}
      /\ \A p \in Objects : blamed[p] \subseteq blamed'[p]
      /\ o \in stored' => "cleanup" \in blamed'[o]
      /\ blamed' \in [Objects -> SUBSET {"cleanup", "commit"}]
  BY <1>0, <1>1 DEF Unlink, FailCleanup, TypeOK
<1>4. TypeOK'
  BY <1>0, <1>2, <1>3 DEF TypeOK
<1>5. AttemptsAreNumbered'
  BY <1>0, NumbersStand
<1>6. EvidenceFacts'
  <2>1. ObjectsAreApart' /\ EvidenceMatchesTheChallenge'
    BY <1>0 DEF EvidenceFacts, ObjectsAreApart, EvidenceMatchesTheChallenge, EvidenceIsWhole
  <2>2. EvidenceHasItsObject'
    <3> SUFFICES ASSUME NEW a \in Attempts, NEW k \in Kinds, NEW p \in Objects,
                        attempt[a].evidence[k] = p
                 PROVE  p \in stored' \/ "commit" \in blamed'[p]
      BY <1>0, RowTypes DEF EvidenceHasItsObject
    <3>1. p \in stored \/ "commit" \in blamed[p]
      BY <1>0, Names DEF EvidenceFacts, EvidenceHasItsObject
    <3>2. p = o => "commit" \in blamed[p]
      BY <1>1 DEF InPlace
    <3> QED
      BY <1>3, <3>1, <3>2
  <2>3. NoOrphanEvidence'
    <3> SUFFICES ASSUME NEW p \in stored'
                 PROVE  \/ \E a \in Attempts, k \in Kinds : attempt[a].evidence[k] = p
                        \/ \E q \in Requests : pc'[q] \in {"unlink", "compensate"} /\ ctx'[q].object = p
                        \/ "cleanup" \in blamed'[p]
      BY <1>0 DEF NoOrphanEvidence
    <3>1. CASE p = o
      BY <1>3, <3>1
    <3>2. CASE p # o
      <4>1. p \in stored /\ p \in Objects
        BY <1>0, <1>3 DEF TypeOK
      <4>2. \A q \in Requests : ctx[q].object = p => q # r
        BY <1>1, <3>2
      <4> QED
        BY <1>0, <1>2, <1>3, <4>1, <4>2 DEF EvidenceFacts, NoOrphanEvidence
    <3> QED
      BY <3>1, <3>2
  <2> QED
    BY <2>1, <2>2, <2>3 DEF EvidenceFacts
<1>7. \A q \in Requests : CleanupFits(q)'
  BY <1>0, <1>2, <1>3 DEF CleanupFits, InPlace
<1>8. \A q \in Requests : ReviewFits(q)'
  BY <1>0, <1>2, UploadsHoldNothing
<1> QED
  BY <1>4, <1>5, <1>6, <1>7, <1>8, PartsAfter

\* One picture of a draft gives way to a new one or to none; its file is about to be
\* deleted, or the log knows.
PictureChange(r, a, k, old, new) ==
    /\ attempt[a].evidence[k] = old /\ attempt[a].status = "PENDING"
    /\ \A b \in Attempts, m \in Kinds :
          attempt'[b].evidence[m] = IF b = a /\ m = k THEN new ELSE attempt[b].evidence[m]
    /\ \A b \in Attempts : attempt'[b].status = attempt[b].status
    /\ \A b \in Attempts \ {a} : attempt'[b].challenge = attempt[b].challenge
    /\ attempt'[a].evidence[Handwritten] # None =>
          shows'[attempt'[a].evidence[Handwritten]] = attempt'[a].challenge
    /\ new # None => ~InUse(new)
    /\ stored' = stored \cup ({new} \ {None})
    /\ \A p \in Objects \ {new} : shows'[p] = shows[p] /\ blamed[p] \subseteq blamed'[p]
    /\ old # None => \/ pc'[r] = "unlink" /\ ctx'[r].object = old
                     \/ "cleanup" \in blamed'[old]
    /\ pc[r] \notin {"unlink", "compensate"}
    /\ pc'[r] \in {"unlink", "compensate"} =>
          /\ ctx'[r].object \in Objects
          /\ \/ ctx'[r].object = old
             \/ ctx'[r].object = new /\ "commit" \in blamed'[new]
    /\ \A q \in Requests \ {r} : pc'[q] = pc[q] /\ ctx'[q] = ctx[q]

\* Such a change leaves the evidence in order.
LEMMA PictureChanges ==
  ASSUME ConstantsAreValid, TypeOK, EvidenceFacts, \A q \in Requests : CleanupFits(q),
         NEW r \in Requests, NEW a \in Attempts, NEW k \in Kinds,
         NEW old \in Objects \cup {None}, NEW new \in Objects \cup {None},
         PictureChange(r, a, k, old, new)
  PROVE  EvidenceFacts' /\ \A q \in Requests : CleanupFits(q)'
<1> USE DEF EvidenceFacts, PictureChange
<1>1. \A b \in Attempts, m \in Kinds : attempt[b].evidence[m] \in Objects \cup {None}
  BY RowTypes
<1>2. \A b \in Attempts, m \in Kinds : new # None => attempt[b].evidence[m] # new
  BY DEF InUse
<1>3. ASSUME old # None
      PROVE  /\ old # new /\ old \in Objects
             /\ \A b \in Attempts, m \in Kinds : attempt'[b].evidence[m] # old
  BY <1>2, <1>3 DEF ObjectsAreApart
<1>4. ObjectsAreApart'
  <2> SUFFICES ASSUME NEW b \in Attempts, NEW c \in Attempts, NEW l \in Kinds, NEW m \in Kinds,
                      attempt'[b].evidence[l] # None,
                      attempt'[b].evidence[l] = attempt'[c].evidence[m]
               PROVE  b = c /\ l = m
    BY DEF ObjectsAreApart
  <2>1. CASE attempt'[b].evidence[l] = new
    <3>1. new # None
      BY <2>1
    <3>2. b = a /\ l = k
      BY <1>2, <2>1, <3>1
    <3>3. attempt'[c].evidence[m] = new
      BY <2>1
    <3>4. c = a /\ m = k
      BY <1>2, <3>1, <3>3
    <3> QED
      BY <3>2, <3>4
  <2>2. CASE attempt'[b].evidence[l] # new
    BY <2>2 DEF ObjectsAreApart
  <2> QED
    BY <2>1, <2>2
<1>5. EvidenceMatchesTheChallenge'
  <2> SUFFICES ASSUME NEW b \in Attempts
               PROVE  /\ attempt'[b].evidence[Handwritten] # None =>
                           shows'[attempt'[b].evidence[Handwritten]] = attempt'[b].challenge
                      /\ attempt'[b].status \in Submitted => EvidenceIsWhole(b)'
    BY DEF EvidenceMatchesTheChallenge, Submitted
  <2>1. CASE b = a
    BY <2>1 DEF Submitted
  <2>2. CASE b # a
    <3>1. \A m \in Kinds : attempt'[b].evidence[m] = attempt[b].evidence[m]
      BY <2>2
    <3>2. attempt[b].evidence[Handwritten] # None =>
             shows'[attempt[b].evidence[Handwritten]] = shows[attempt[b].evidence[Handwritten]]
      BY <1>1, <1>2, Names
    <3> QED
      BY <2>2, <3>1, <3>2, Names DEF EvidenceMatchesTheChallenge, EvidenceIsWhole, Submitted
  <2> QED
    BY <2>1, <2>2
<1>6. EvidenceHasItsObject'
  <2> SUFFICES ASSUME NEW b \in Attempts, NEW m \in Kinds, attempt'[b].evidence[m] # None
               PROVE  \/ attempt'[b].evidence[m] \in stored'
                      \/ "commit" \in blamed'[attempt'[b].evidence[m]]
    BY DEF EvidenceHasItsObject
  <2>1. CASE attempt'[b].evidence[m] = new
    BY <2>1
  <2>2. CASE attempt'[b].evidence[m] # new
    <3>1. PICK p \in Objects : p = attempt'[b].evidence[m] /\ p = attempt[b].evidence[m]
      BY <1>1, <2>2
    <3>2. p \in stored \/ "commit" \in blamed[p]
      BY <3>1, Names DEF EvidenceHasItsObject
    <3> QED
      BY <2>2, <3>1, <3>2
  <2> QED
    BY <2>1, <2>2
<1>7. NoOrphanEvidence'
  <2> SUFFICES ASSUME NEW p \in stored'
               PROVE  \/ \E b \in Attempts, m \in Kinds : attempt'[b].evidence[m] = p
                      \/ \E q \in Requests : pc'[q] \in {"unlink", "compensate"} /\ ctx'[q].object = p
                      \/ "cleanup" \in blamed'[p]
    BY DEF NoOrphanEvidence
  <2>1. CASE p = new
    BY <2>1
  <2>2. CASE p # new
    <3>1. p \in stored /\ p \in Objects /\ p # None
      BY <2>2, Names DEF TypeOK
    <3>2. CASE \E b \in Attempts, m \in Kinds : attempt[b].evidence[m] = p
      BY <3>1, <3>2
    <3>3. CASE \E q \in Requests : pc[q] \in {"unlink", "compensate"} /\ ctx[q].object = p
      BY <3>3
    <3>4. CASE "cleanup" \in blamed[p]
      BY <2>2, <3>1, <3>4
    <3> QED
      BY <3>1, <3>2, <3>3, <3>4 DEF NoOrphanEvidence
  <2> QED
    BY <2>1, <2>2
<1>8. ASSUME NEW q \in Requests PROVE CleanupFits(q)'
  <2>1. CASE q = r
    <3> SUFFICES ASSUME pc'[r] \in {"unlink", "compensate"},
                        NEW b \in Attempts, NEW m \in Kinds,
                        attempt'[b].evidence[m] = ctx'[r].object
                 PROVE  "commit" \in blamed'[ctx'[r].object]
      BY <2>1 DEF CleanupFits, InPlace
    <3> QED
      BY <1>3, Names
  <2>2. CASE q # r
    <3> SUFFICES ASSUME pc[q] \in {"unlink", "compensate"}
                 PROVE  /\ ctx[q].object \in Objects
                        /\ InPlace(ctx[q].object)' => "commit" \in blamed'[ctx[q].object]
      BY <2>2 DEF CleanupFits, InPlace
    <3>1. PICK p \in Objects : ctx[q].object = p /\ (InPlace(p) => "commit" \in blamed[p])
      BY DEF CleanupFits
    <3>2. p # new
      BY <3>1, Names DEF InUse
    <3>3. InPlace(p)' => InPlace(p)
      BY <3>2 DEF InPlace
    <3> QED
      BY <3>1, <3>2, <3>3 DEF InPlace
  <2> QED
    BY <2>1, <2>2
<1> QED
  BY <1>4, <1>5, <1>6, <1>7, <1>8

\* After a step that ends, or goes on to delete the file of old.
LEMMA CleanupTypes ==
  ASSUME ConstantsAreValid, TypeOK, NEW r \in Requests, NEW old \in Objects \cup {None},
         Cleanup(r, old)
  PROVE  /\ pc' \in [Requests -> Stages] /\ ctx' \in [Requests -> Context]
         /\ \A q \in Requests \ {r} : pc'[q] = pc[q] /\ ctx'[q] = ctx[q]
         /\ \/ old = None /\ pc'[r] = "idle"
            \/ old # None /\ pc'[r] = "unlink" /\ ctx'[r].object = old
<1>1. PICK empty \in Context : empty = NoContext
  BY EmptyContext
<1>2. [empty EXCEPT !.object = old] \in Context /\ [empty EXCEPT !.object = old].object = old
  BY DEF Context
<1>3. CASE old = None
  BY <1>1, <1>3 DEF Cleanup, Finish, Goto, TypeOK, Stages
<1>4. CASE old # None
  <2>1. pc' = [pc EXCEPT ![r] = "unlink"] /\ ctx' = [ctx EXCEPT ![r] = [empty EXCEPT !.object = old]]
    BY <1>1, <1>4 DEF Cleanup, Goto
  <2> QED
    BY <1>2, <1>4, <2>1 DEF TypeOK, Stages
<1> QED
  BY <1>3, <1>4

\* A new challenge takes the handwritten picture away.
LEMMA RenewKeepsInvariant ==
  ASSUME ConstantsAreValid, SellerInvariant, NEW r \in Requests, NEW u \in Sellers, Renew(r, u)
  PROVE  SellerInvariant'
<1>0. /\ TypeOK /\ AttemptsAreNumbered /\ EvidenceFacts
      /\ \A q \in Requests : CleanupFits(q) /\ ReviewFits(q)
      /\ pc[r] = "idle" /\ UNCHANGED <<now, person, lock, stored, shows, blamed>>
  BY Parts DEF Renew, store
<1>1. PICK a \in Attempts :
        /\ attempt[a].status = "PENDING" /\ attempt[a].challenge < MaxChallenge
        /\ attempt' = [attempt EXCEPT ![a].challenge = @ + 1, ![a].expires = Deadline,
                                      ![a].evidence = Dropped(@)]
        /\ Cleanup(r, attempt[a].evidence[Handwritten])
  BY DEF Renew
<1>2. PICK row \in Row, old \in Objects \cup {None}, e \in [Kinds -> Objects \cup {None}] :
        row = attempt[a] /\ old = row.evidence[Handwritten] /\ e = Dropped(row.evidence)
  <2>1. attempt[a].evidence \in [Kinds -> Objects \cup {None}] /\ attempt[a] \in Row
    BY <1>0, RowTypes
  <2> QED
    BY <2>1, Names DEF Dropped
<1>3. PICK new : new = [row EXCEPT !.challenge = @ + 1, !.expires = Deadline, !.evidence = e]
  OBVIOUS
<1>4. /\ new.challenge = row.challenge + 1 /\ new.evidence = e /\ new.user = row.user
      /\ new.status = row.status /\ new.serial = row.serial
  BY <1>3 DEF Row
<1>5. attempt' = [attempt EXCEPT ![a] = new]
  BY <1>0, <1>1, <1>2, <1>3 DEF TypeOK
<1>6. attempt'[a] = new /\ \A b \in Attempts \ {a} : attempt'[b] = attempt[b]
  BY <1>0, <1>5 DEF TypeOK
<1>7. \A m \in Kinds : e[m] = IF m = Handwritten THEN None ELSE row.evidence[m]
  BY <1>2 DEF Dropped, Row
<1>8. /\ pc' \in [Requests -> Stages] /\ ctx' \in [Requests -> Context]
      /\ \A q \in Requests \ {r} : pc'[q] = pc[q] /\ ctx'[q] = ctx[q]
      /\ \/ old = None /\ pc'[r] = "idle"
         \/ old # None /\ pc'[r] = "unlink" /\ ctx'[r].object = old
  BY <1>0, <1>1, <1>2, CleanupTypes
<1>9. TypeOK'
  <2>1. Deadline \in 0..(MaxTime + Lifetime)
    BY <1>0, Names DEF Deadline, TypeOK, Time
  <2>2. row.challenge + 1 \in Challenges
    BY <1>1, <1>2, Names DEF Row, Challenges
  <2>3. new \in Row
    BY <1>3, <2>1, <2>2 DEF Row
  <2> QED
    BY <1>0, <1>5, <1>8, <2>3 DEF TypeOK
<1>10. AttemptsAreNumbered'
  BY <1>0, <1>1, <1>2, <1>4, <1>6, NumbersStand
<1>11. EvidenceFacts' /\ \A q \in Requests : CleanupFits(q)'
  <2>1. \A b \in Attempts, m \in Kinds :
           attempt'[b].evidence[m] = IF b = a /\ m = Handwritten THEN None ELSE attempt[b].evidence[m]
    BY <1>2, <1>4, <1>6, <1>7
  <2>2. \A b \in Attempts : /\ attempt'[b].status = attempt[b].status
                            /\ b # a => attempt'[b].challenge = attempt[b].challenge
    BY <1>2, <1>4, <1>6
  <2>3. attempt'[a].evidence[Handwritten] = None
    BY <2>1, Names
  <2>4. /\ stored' = stored \cup ({None} \ {None})
        /\ \A p \in Objects \ {None} : shows'[p] = shows[p] /\ blamed[p] \subseteq blamed'[p]
    BY <1>0
  <2>5. /\ attempt[a].evidence[Handwritten] = old /\ Handwritten \in Kinds
        /\ None \in Objects \cup {None}
    BY <1>2, Names
  <2>6. /\ pc'[r] \in {"unlink", "compensate"} => old # None /\ ctx'[r].object = old
        /\ old # None => pc'[r] = "unlink" /\ ctx'[r].object = old
    BY <1>8
  <2>7. PictureChange(r, a, Handwritten, old, None)
    BY <1>0, <1>1, <1>8, <2>1, <2>2, <2>3, <2>4, <2>5, <2>6 DEF PictureChange
  <2> QED
    BY <1>0, <2>5, <2>7, PictureChanges
<1>12. \A q \in Requests : ReviewFits(q)'
  BY <1>0, <1>1, <1>2, <1>4, <1>6, <1>8, UploadsHoldNothing
<1> QED
  BY <1>9, <1>10, <1>11, <1>12, PartsAfter

\* A transaction that stores an object under a key nobody uses.
LEMMA Placing ==
  ASSUME ConstantsAreValid, SellerInvariant, NEW r \in Requests, NEW a \in Attempts,
         NEW o \in Objects, Place(r, a, o)
  PROVE  /\ pc[r] = "upload" /\ UNCHANGED <<now, person, lock>>
         /\ attempt[a].status = "PENDING" /\ ctx[r].kind \in Kinds /\ ~InUse(o)
         /\ stored' = stored \cup {o} /\ stored' \subseteq Objects
         /\ shows' \in [Objects -> Challenges]
         /\ \A p \in Objects \ {o} : shows'[p] = shows[p]
         /\ ctx[r].kind = Handwritten => shows'[o] = attempt[a].challenge
         /\ \A b \in Attempts, m \in Kinds : attempt[b].evidence[m] # o
<1>1. TypeOK /\ ctx[r] \in Context
  BY Parts DEF TypeOK
<1>2. PICK c \in Challenges : c = ctx[r].challenge
  BY <1>1 DEF Context
<1>3. shows' = [shows EXCEPT ![o] = c]
  BY <1>2 DEF Place
<1>4. ctx[r].kind = Handwritten => c = attempt[a].challenge
  BY <1>2 DEF Place, Accepts
<1>5. \A b \in Attempts, m \in Kinds : attempt[b].evidence[m] # o
  BY DEF Place, InUse
<1> QED
  BY <1>1, <1>3, <1>4, <1>5 DEF Place, Accepts, TypeOK, Context

\* The picture of the request's kind is replaced by o.
LEMMA Replacing ==
  ASSUME ConstantsAreValid, SellerInvariant, NEW r \in Requests, NEW a \in Attempts,
         NEW o \in Objects, Place(r, a, o), Replaced(r, a, o)
  PROVE  /\ attempt' \in [Attempts -> Row] /\ AttemptsAreNumbered'
         /\ \A b \in Attempts : /\ attempt'[b].user = attempt[b].user
                                /\ attempt'[b].status = attempt[b].status
                                /\ attempt'[b].challenge = attempt[b].challenge
         /\ \A b \in Attempts, m \in Kinds : attempt'[b].evidence[m] =
               IF b = a /\ m = ctx[r].kind THEN o ELSE attempt[b].evidence[m]
         /\ attempt'[a].evidence[Handwritten] # None =>
               shows'[attempt'[a].evidence[Handwritten]] = attempt'[a].challenge
<1>1. /\ TypeOK /\ AttemptsAreNumbered /\ EvidenceFacts
      /\ ctx[r].kind = Handwritten => shows'[o] = attempt[a].challenge
  BY Parts, Placing
<1>2. PICK k \in Kinds, row \in Row : k = ctx[r].kind /\ row = attempt[a]
  BY <1>1, Placing DEF TypeOK
<1>3. PICK e \in [Kinds -> Objects \cup {None}] : e = [row.evidence EXCEPT ![k] = o]
  BY <1>2 DEF Row
<1>4. \A m \in Kinds : e[m] = IF m = k THEN o ELSE row.evidence[m]
  BY <1>2, <1>3 DEF Row
<1>5. PICK new : new = [row EXCEPT !.evidence = e]
  OBVIOUS
<1>6. /\ new \in Row /\ new.evidence = e /\ new.user = row.user /\ new.status = row.status
      /\ new.serial = row.serial /\ new.challenge = row.challenge
  BY <1>2, <1>5 DEF Row
<1>7. attempt' = [attempt EXCEPT ![a] = new]
  BY <1>1, <1>2, <1>3, <1>5 DEF Replaced, TypeOK
<1>8. attempt'[a] = new /\ \A b \in Attempts \ {a} : attempt'[b] = attempt[b]
  BY <1>1, <1>7 DEF TypeOK
<1>9. attempt' \in [Attempts -> Row]
  BY <1>1, <1>6, <1>7 DEF TypeOK
<1>10. /\ attempt'[a].user = attempt[a].user /\ attempt'[a].status = attempt[a].status
       /\ attempt'[a].serial = attempt[a].serial /\ attempt'[a].challenge = attempt[a].challenge
  BY <1>2, <1>6, <1>8
<1>11. AttemptsAreNumbered'
  <2>1. attempt[a].status # "none"
    BY Placing
  <2> QED
    BY <1>1, <1>8, <1>10, <2>1, NumbersStand
<1>12. \A b \in Attempts, m \in Kinds : attempt'[b].evidence[m] =
               IF b = a /\ m = k THEN o ELSE attempt[b].evidence[m]
  BY <1>2, <1>4, <1>6, <1>8
<1>13. attempt'[a].evidence[Handwritten] # None =>
          shows'[attempt'[a].evidence[Handwritten]] = attempt'[a].challenge
  <2>1. CASE k = Handwritten
    <3>1. attempt'[a].evidence[Handwritten] = o
      BY <1>12, <2>1
    <3>2. shows'[o] = attempt[a].challenge
      BY <1>1, <1>2, <2>1
    <3> QED
      BY <1>10, <3>1, <3>2
  <2>2. CASE k # Handwritten
    <3>1. PICK h \in Objects \cup {None} : h = attempt[a].evidence[Handwritten]
      BY <1>1, RowTypes, Names
    <3>2. h # None => shows'[h] = shows[h]
      BY <3>1, Placing, Names
    <3>3. h # None => shows[h] = attempt[a].challenge
      BY <1>1, <3>1 DEF EvidenceFacts, EvidenceMatchesTheChallenge
    <3> QED
      BY <1>10, <1>12, <2>2, <3>1, <3>2, <3>3, Names
  <2> QED
    BY <2>1, <2>2
<1> QED
  BY <1>2, <1>8, <1>9, <1>10, <1>11, <1>12, <1>13

\* The upload commits: the old file is to be deleted next.
LEMMA UploadKeepsInvariant ==
  ASSUME ConstantsAreValid, SellerInvariant, NEW r \in Requests, Upload(r)
  PROVE  SellerInvariant'
<1>0. /\ TypeOK /\ AttemptsAreNumbered /\ EvidenceFacts
      /\ \A q \in Requests : CleanupFits(q) /\ ReviewFits(q)
  BY Parts
<1>1. PICK a \in Attempts, o \in Objects :
        /\ Place(r, a, o) /\ Replaced(r, a, o) /\ UNCHANGED blamed
        /\ Cleanup(r, attempt[a].evidence[ctx[r].kind])
  BY DEF Upload, ToDelete
<1>2. PICK k \in Kinds, old \in Objects \cup {None} :
        k = ctx[r].kind /\ old = attempt[a].evidence[k]
  BY <1>0, <1>1, Placing, RowTypes
<1>3. /\ pc' \in [Requests -> Stages] /\ ctx' \in [Requests -> Context]
      /\ \A q \in Requests \ {r} : pc'[q] = pc[q] /\ ctx'[q] = ctx[q]
      /\ \/ old = None /\ pc'[r] = "idle"
         \/ old # None /\ pc'[r] = "unlink" /\ ctx'[r].object = old
  BY <1>0, <1>1, <1>2, CleanupTypes
<1>4. TypeOK'
  BY <1>0, <1>1, <1>3, Placing, Replacing DEF TypeOK
<1>5. PictureChange(r, a, k, old, o)
  <2>1. stored' = stored \cup ({o} \ {None}) /\ o # None
    BY <1>1, Placing, Names
  <2>2. /\ \A p \in Objects \ {o} : shows'[p] = shows[p] /\ blamed[p] \subseteq blamed'[p]
        /\ ~InUse(o) /\ attempt[a].status = "PENDING" /\ pc[r] = "upload"
    BY <1>1, Placing
  <2>3. /\ pc'[r] \in {"unlink", "compensate"} => old # None /\ ctx'[r].object = old
        /\ old # None => pc'[r] = "unlink" /\ ctx'[r].object = old
    BY <1>3
  <2> QED
    BY <1>1, <1>2, <1>3, <2>1, <2>2, <2>3, Replacing DEF PictureChange
<1>6. EvidenceFacts' /\ \A q \in Requests : CleanupFits(q)'
  BY <1>0, <1>5, PictureChanges
<1>7. \A q \in Requests : ReviewFits(q)'
  BY <1>1, <1>3, Placing, Replacing, UploadsHoldNothing
<1> QED
  BY <1>1, <1>4, <1>6, <1>7, Replacing, PartsAfter

\* The request goes on to delete the new object.
LEMMA CompensationTypes ==
  ASSUME ConstantsAreValid, TypeOK, NEW r \in Requests, NEW o \in Objects,
         Goto(r, "compensate"), ctx' = [ctx EXCEPT ![r] = [NoContext EXCEPT !.object = o]]
  PROVE  /\ pc' \in [Requests -> Stages] /\ ctx' \in [Requests -> Context]
         /\ \A q \in Requests \ {r} : pc'[q] = pc[q] /\ ctx'[q] = ctx[q]
         /\ pc'[r] = "compensate" /\ ctx'[r].object = o
<1>1. PICK empty \in Context : empty = NoContext
  BY EmptyContext
<1>2. [empty EXCEPT !.object = o] \in Context /\ [empty EXCEPT !.object = o].object = o
  BY DEF Context
<1> QED
  BY <1>1, <1>2 DEF Goto, TypeOK, Stages

\* The commit is not answered: the new object stays in place although it is deleted.
LEMMA UnansweredKeepsInvariant ==
  ASSUME ConstantsAreValid, SellerInvariant, NEW r \in Requests, UploadUnanswered(r)
  PROVE  SellerInvariant'
<1>0. /\ TypeOK /\ AttemptsAreNumbered /\ EvidenceFacts
      /\ \A q \in Requests : CleanupFits(q) /\ ReviewFits(q)
  BY Parts
<1>1. PICK a \in Attempts, o \in Objects :
        /\ Place(r, a, o) /\ Replaced(r, a, o)
        /\ blamed' = [p \in Objects |->
              IF p = o THEN {"commit"}
              ELSE IF p = attempt[a].evidence[ctx[r].kind] THEN blamed[p] \cup {"cleanup"}
              ELSE blamed[p]]
        /\ Goto(r, "compensate") /\ ctx' = [ctx EXCEPT ![r] = [NoContext EXCEPT !.object = o]]
  BY DEF UploadUnanswered
<1>2. PICK k \in Kinds, old \in Objects \cup {None} :
        k = ctx[r].kind /\ old = attempt[a].evidence[k]
  BY <1>0, <1>1, Placing, RowTypes
<1>3. /\ pc' \in [Requests -> Stages] /\ ctx' \in [Requests -> Context]
      /\ \A q \in Requests \ {r} : pc'[q] = pc[q] /\ ctx'[q] = ctx[q]
      /\ pc'[r] = "compensate" /\ ctx'[r].object = o
  BY <1>0, <1>1, CompensationTypes
<1>4. /\ blamed' \in [Objects -> SUBSET {"cleanup", "commit"}]
      /\ \A p \in Objects \ {o} : blamed[p] \subseteq blamed'[p]
      /\ "commit" \in blamed'[o] /\ old # o
      /\ old # None => "cleanup" \in blamed'[old]
  <2>1. old # o
    BY <1>1, <1>2, Placing
  <2>2. \A p \in Objects : blamed'[p] = IF p = o THEN {"commit"}
                                        ELSE IF p = old THEN blamed[p] \cup {"cleanup"}
                                        ELSE blamed[p]
    BY <1>1, <1>2
  <2>3. \A p \in Objects : blamed[p] \in SUBSET {"cleanup", "commit"}
    BY <1>0 DEF TypeOK
  <2>4. \A p \in Objects : blamed'[p] \in SUBSET {"cleanup", "commit"}
    BY <2>2, <2>3
  <2>5. blamed' \in [Objects -> SUBSET {"cleanup", "commit"}]
    BY <1>1, <2>4
  <2> QED
    BY <2>1, <2>2, <2>5
<1>5. TypeOK'
  BY <1>0, <1>1, <1>3, <1>4, Placing, Replacing DEF TypeOK
<1>6. PictureChange(r, a, k, old, o)
  <2>1. stored' = stored \cup ({o} \ {None}) /\ o # None
    BY <1>1, Placing, Names
  <2>2. /\ \A p \in Objects \ {o} : shows'[p] = shows[p]
        /\ ~InUse(o) /\ attempt[a].status = "PENDING" /\ pc[r] = "upload"
    BY <1>1, Placing
  <2> QED
    BY <1>1, <1>2, <1>3, <1>4, <2>1, <2>2, Replacing DEF PictureChange
<1>7. EvidenceFacts' /\ \A q \in Requests : CleanupFits(q)'
  BY <1>0, <1>6, PictureChanges
<1>8. \A q \in Requests : ReviewFits(q)'
  BY <1>1, <1>3, Placing, Replacing, UploadsHoldNothing
<1> QED
  BY <1>1, <1>5, <1>7, <1>8, Replacing, PartsAfter

\* The transaction fails: the new object is in nobody's place and is deleted next.
LEMMA FailureKeepsInvariant ==
  ASSUME ConstantsAreValid, SellerInvariant, NEW r \in Requests, UploadFails(r)
  PROVE  SellerInvariant'
<1>0. /\ TypeOK /\ AttemptsAreNumbered /\ EvidenceFacts
      /\ \A q \in Requests : CleanupFits(q) /\ ReviewFits(q)
  BY Parts
<1>1. PICK a \in Attempts, o \in Objects :
        /\ Place(r, a, o) /\ UNCHANGED <<attempt, blamed>>
        /\ Goto(r, "compensate") /\ ctx' = [ctx EXCEPT ![r] = [NoContext EXCEPT !.object = o]]
  BY DEF UploadFails
<1>2. /\ pc' \in [Requests -> Stages] /\ ctx' \in [Requests -> Context]
      /\ \A q \in Requests \ {r} : pc'[q] = pc[q] /\ ctx'[q] = ctx[q]
      /\ pc'[r] = "compensate" /\ ctx'[r].object = o
  BY <1>0, <1>1, CompensationTypes
<1>3. /\ pc[r] = "upload" /\ stored' = stored \cup {o}
      /\ \A p \in Objects \ {o} : shows'[p] = shows[p]
      /\ \A b \in Attempts, m \in Kinds : attempt[b].evidence[m] # o
  BY <1>1, Placing
<1>4. TypeOK'
  BY <1>0, <1>1, <1>2, Placing DEF TypeOK
<1>5. AttemptsAreNumbered'
  BY <1>0, <1>1, NumbersStand
<1>6. EvidenceFacts'
  <2>1. ObjectsAreApart' /\ EvidenceHasItsObject'
    BY <1>0, <1>1, <1>3 DEF EvidenceFacts, ObjectsAreApart, EvidenceHasItsObject
  <2>2. EvidenceMatchesTheChallenge'
    <3>1. \A b \in Attempts : attempt[b].evidence[Handwritten] # None =>
             shows'[attempt[b].evidence[Handwritten]] = shows[attempt[b].evidence[Handwritten]]
      BY <1>0, <1>3, RowTypes, Names
    <3> QED
      BY <1>0, <1>1, <3>1 DEF EvidenceFacts, EvidenceMatchesTheChallenge, EvidenceIsWhole
  <2>3. NoOrphanEvidence'
    BY <1>0, <1>1, <1>2, <1>3 DEF EvidenceFacts, NoOrphanEvidence
  <2> QED
    BY <2>1, <2>2, <2>3 DEF EvidenceFacts
<1>7. \A q \in Requests : CleanupFits(q)'
  BY <1>0, <1>1, <1>2, <1>3 DEF CleanupFits, InPlace
<1>8. \A q \in Requests : ReviewFits(q)'
  BY <1>1, <1>2, Placing, UploadsHoldNothing
<1> QED
  BY <1>4, <1>5, <1>6, <1>7, <1>8, PartsAfter

-----------------------------------------------------------------------------
(* review, and the world around it.                                        *)

\* A review locks the owner and the reviewer in ascending order.
LEMMA LockingKeepsInvariant ==
  ASSUME ConstantsAreValid, SellerInvariant, NEW r \in Requests, LockReviewed(r)
  PROVE  SellerInvariant'
<1>0. /\ TypeOK /\ AttemptsAreNumbered /\ EvidenceFacts
      /\ \A q \in Requests : CleanupFits(q) /\ ReviewFits(q)
      /\ pc[r] \in {"first", "second"}
      /\ UNCHANGED <<now, person, attempt, stored, shows, blamed, ctx>>
  BY Parts DEF LockReviewed, rows, store
<1>1. /\ OwnerOf(r) \in Users /\ ctx[r].user \in Users /\ ctx[r].attempt \in Attempts
      /\ Ordered(r)[1] \in Users /\ Ordered(r)[2] \in Users
  BY <1>0, OwnersAreUsers
<1>2. PICK u \in Users :
        /\ u = IF pc[r] = "first" THEN Ordered(r)[1] ELSE Ordered(r)[2]
        /\ lock[u] = None \/ lock[u] = r
        /\ lock' = [lock EXCEPT ![u] = r]
        /\ IF u = OwnerOf(r) THEN person[u].standing = "eligible"
                             ELSE person[u].standing # "suspended"
  BY <1>1 DEF LockReviewed, Wants
<1>3. /\ lock'[u] = r /\ \A v \in Users \ {u} : lock'[v] = lock[v]
      /\ lock' \in [Users -> Requests \cup {None}]
  BY <1>0, <1>2 DEF TypeOK
<1>4. /\ pc'[r] = IF pc[r] = "first" THEN "second" ELSE "decide"
      /\ pc' \in [Requests -> Stages] /\ \A q \in Requests \ {r} : pc'[q] = pc[q]
  BY <1>0 DEF LockReviewed, Goto, TypeOK, Stages
<1>5. TypeOK'
  BY <1>0, <1>3, <1>4 DEF TypeOK
<1>6. AttemptsAreNumbered'
  BY <1>0, NumbersStand
<1>7. EvidenceFacts' /\ \A q \in Requests : CleanupFits(q)'
  <2>1. \A q \in Requests : pc[q] \in {"unlink", "compensate"} \/ pc'[q] \in {"unlink", "compensate"} =>
           pc'[q] = pc[q] /\ ctx'[q] = ctx[q]
    BY <1>0, <1>4
  <2> QED
    BY <1>0, <2>1, EvidenceStands DEF store
<1>8. ReviewFits(r)'
  <2>1. OwnerOf(r)' = OwnerOf(r) /\ Ordered(r)' = Ordered(r)
    BY <1>0 DEF OwnerOf, Ordered
  <2>2. Holds(r, u)'
    BY <1>0, <1>2, <1>3, <2>1 DEF Holds
  <2>3. \A v \in Users : Holds(r, v) => Holds(r, v)'
    BY <1>0, <1>3, <2>1, <2>2 DEF Holds
  <2>4. /\ ctx'[r].attempt \in Attempts /\ ctx'[r].user \in Users
        /\ attempt'[ctx'[r].attempt].status # "none"
    BY <1>0 DEF ReviewFits
  <2>5. CASE pc[r] = "first"
    <3>1. \A v \in Users : lock[v] # r
      BY <1>0, <2>5 DEF ReviewFits
    <3> QED
      BY <1>2, <1>3, <1>4, <2>1, <2>2, <2>4, <2>5, <3>1 DEF ReviewFits
  <2>6. CASE pc[r] = "second"
    <3>1. Holds(r, Ordered(r)[1])
      BY <1>0, <2>6 DEF ReviewFits
    <3>2. pc'[r] = "decide" /\ u = Ordered(r)[2]
      BY <1>2, <1>4, <2>6
    <3>3. Holds(r, Ordered(r)[1])' /\ Holds(r, Ordered(r)[2])'
      BY <1>1, <2>1, <2>2, <2>3, <3>1, <3>2 DEF Holds
    <3> QED
      BY <2>4, <3>2, <3>3 DEF ReviewFits
  <2> QED
    BY <1>0, <2>5, <2>6
<1>9. ASSUME NEW q \in Requests \ {r} PROVE ReviewFits(q)'
  <2>1. \A v \in Users : lock'[v] = q <=> lock[v] = q
    BY <1>2, <1>3, Names
  <2> QED
    BY <1>0, <1>4, <2>1, ReviewStands
<1> QED
  BY <1>5, <1>6, <1>7, <1>8, <1>9, PartsAfter

\* A request ends and gives back what it held.
LEMMA EndingReleases ==
  ASSUME ConstantsAreValid, TypeOK, NEW r \in Requests, Finish(r), lock' = Released(r)
  PROVE  /\ pc' \in [Requests -> Stages] /\ ctx' \in [Requests -> Context]
         /\ lock' \in [Users -> Requests \cup {None}]
         /\ pc'[r] = "idle" /\ \A q \in Requests \ {r} : pc'[q] = pc[q] /\ ctx'[q] = ctx[q]
         /\ \A u \in Users : lock'[u] # r
         /\ \A q \in Requests \ {r}, u \in Users : lock'[u] = q <=> lock[u] = q
  BY EmptyContext, Names DEF Finish, Goto, Released, TypeOK, Stages

\* The decision changes the status of a submitted attempt.
LEMMA DecisionKeepsInvariant ==
  ASSUME ConstantsAreValid, SellerInvariant, NEW r \in Requests,
         NEW verdict \in {"VERIFIED", "REJECTED"}, Decide(r, verdict)
  PROVE  SellerInvariant'
<1>0. /\ TypeOK /\ AttemptsAreNumbered /\ EvidenceFacts
      /\ \A q \in Requests : CleanupFits(q) /\ ReviewFits(q)
      /\ pc[r] = "decide" /\ Finish(r) /\ lock' = Released(r)
      /\ UNCHANGED <<now, person, stored, shows, blamed>>
  BY Parts DEF Decide, store
<1>1. PICK a \in Attempts, old \in Row :
        /\ a = ctx[r].attempt /\ old = attempt[a] /\ old.status = "UNDER_REVIEW"
        /\ attempt' = [attempt EXCEPT ![a] = [old EXCEPT !.status = verdict]]
  <2>1. ctx[r].attempt \in Attempts
    BY <1>0, OwnersAreUsers
  <2> QED
    BY <1>0, <2>1 DEF Decide, MayDecide, TypeOK
<1>2. attempt'[a] = [old EXCEPT !.status = verdict] /\ \A b \in Attempts \ {a} : attempt'[b] = attempt[b]
  BY <1>0, <1>1 DEF TypeOK
<1>3. /\ attempt'[a].status = verdict /\ attempt'[a].user = attempt[a].user
      /\ attempt'[a].serial = attempt[a].serial /\ attempt'[a].evidence = attempt[a].evidence
      /\ attempt'[a].challenge = attempt[a].challenge /\ attempt'[a] \in Row
  BY <1>1, <1>2 DEF Row, Statuses
<1>4. /\ pc' \in [Requests -> Stages] /\ ctx' \in [Requests -> Context]
      /\ lock' \in [Users -> Requests \cup {None}]
      /\ pc'[r] = "idle" /\ \A q \in Requests \ {r} : pc'[q] = pc[q] /\ ctx'[q] = ctx[q]
      /\ \A u \in Users : lock'[u] # r
      /\ \A q \in Requests \ {r}, u \in Users : lock'[u] = q <=> lock[u] = q
  BY <1>0, EndingReleases
<1>5. TypeOK'
  BY <1>0, <1>1, <1>2, <1>3, <1>4 DEF TypeOK
<1>6. AttemptsAreNumbered'
  BY <1>0, <1>1, <1>2, <1>3, NumbersStand
<1>7. EvidenceFacts' /\ \A q \in Requests : CleanupFits(q)'
  <2>1. \A b \in Attempts :
            /\ attempt'[b].evidence = attempt[b].evidence
            /\ attempt'[b].challenge = attempt[b].challenge
            /\ attempt'[b].status \in Submitted => attempt[b].status \in Submitted
    BY <1>1, <1>2, <1>3 DEF Submitted
  <2> QED
    BY <1>0, <1>4, <2>1, EvidenceStands DEF store
<1>8. \A q \in Requests : ReviewFits(q)'
  <2>1. ReviewFits(r)'
    BY <1>4, NoReview
  <2>2. \A b \in Attempts : attempt[b].status # "none" =>
            attempt'[b].status # "none" /\ attempt'[b].user = attempt[b].user
    BY <1>2, <1>3
  <2>3. \A q \in Requests \ {r} : ReviewFits(q)'
    BY <1>0, <1>4, <2>2, ReviewStands
  <2> QED
    BY <2>1, <2>3
<1> QED
  BY <1>5, <1>6, <1>7, <1>8, PartsAfter

\* A request gives up; time passes; the standing or role of an account that nobody
\* holds changes.
LEMMA OutsideKeepsInvariant ==
  ASSUME ConstantsAreValid, SellerInvariant,
         \/ \E r \in Requests : GiveUp(r)
         \/ Tick \/ (\E u \in Changing : ChangePerson(u)) \/ UNCHANGED vars
  PROVE  SellerInvariant'
<1>0. /\ TypeOK /\ AttemptsAreNumbered /\ EvidenceFacts
      /\ \A q \in Requests : CleanupFits(q) /\ ReviewFits(q)
      /\ UNCHANGED <<attempt, stored, shows, blamed>>
  BY Parts DEF GiveUp, Tick, ChangePerson, vars, rows, store
<1>1. AttemptsAreNumbered'
  BY <1>0, NumbersStand
<1>2. CASE \E r \in Requests : GiveUp(r)
  <2>1. PICK r \in Requests : GiveUp(r)
    BY <1>2
  <2>2. /\ pc[r] \in {"upload", "first", "second", "decide"} /\ UNCHANGED <<now, person>>
        /\ pc' \in [Requests -> Stages] /\ ctx' \in [Requests -> Context]
        /\ lock' \in [Users -> Requests \cup {None}]
        /\ pc'[r] = "idle" /\ \A q \in Requests \ {r} : pc'[q] = pc[q] /\ ctx'[q] = ctx[q]
        /\ \A u \in Users : lock'[u] # r
        /\ \A q \in Requests \ {r}, u \in Users : lock'[u] = q <=> lock[u] = q
    BY <1>0, <2>1, EndingReleases DEF GiveUp, rows
  <2>3. TypeOK'
    BY <1>0, <2>2 DEF TypeOK
  <2>4. EvidenceFacts' /\ \A q \in Requests : CleanupFits(q)'
    BY <1>0, <2>2, EvidenceStands DEF store
  <2>5. ReviewFits(r)' /\ \A q \in Requests \ {r} : ReviewFits(q)'
    BY <1>0, <2>2, NoReview, ReviewStands
  <2> QED
    BY <1>1, <2>3, <2>4, <2>5, PartsAfter
<1>3. CASE Tick \/ (\E u \in Changing : ChangePerson(u)) \/ UNCHANGED vars
  <2>1. /\ UNCHANGED <<lock, pc, ctx>> /\ now' \in Time /\ person' \in [Users -> Person]
        /\ \A u \in Users : lock[u] # None => person'[u] = person[u]
    BY <1>0, <1>3, Names DEF Tick, ChangePerson, vars, rows, TypeOK, Time
  <2>2. TypeOK'
    BY <1>0, <2>1 DEF TypeOK
  <2>3. EvidenceFacts' /\ \A q \in Requests : CleanupFits(q)'
    BY <1>0, <2>1, EvidenceStands DEF store
  <2>4. \A q \in Requests : ReviewFits(q)'
    BY <1>0, <2>1, ReviewStands, Names
  <2> QED
    BY <1>1, <2>2, <2>3, <2>4, PartsAfter
<1> QED
  BY <1>2, <1>3

-----------------------------------------------------------------------------
(* Every step together, and what follows.                                  *)

\* No account has asked for anything at first.
LEMMA InitHasInvariant ==
  ASSUME ConstantsAreValid, Init
  PROVE  SellerInvariant
<1>1. Blank \in Row /\ NoContext \in Context
  BY Names, EmptyContext DEF Row, Blank, Statuses, Challenges
<1>2. TypeOK
  BY <1>1, Names DEF Init, TypeOK, Time, Person, Challenges, Stages
<1>3. \A a \in Attempts : /\ attempt[a] = Blank /\ attempt[a].user = None
                          /\ attempt[a].status = "none"
                          /\ \A k \in Kinds : attempt[a].evidence[k] = None
  BY DEF Init, Blank
<1>4. AttemptsAreNumbered
  BY <1>3, Names DEF AttemptsAreNumbered, AttemptsOf
<1>5. EvidenceFacts
  BY <1>3, Names DEF EvidenceFacts, ObjectsAreApart, EvidenceMatchesTheChallenge,
                     EvidenceHasItsObject, NoOrphanEvidence, Init
<1>6. \A r \in Requests : CleanupFits(r) /\ ReviewFits(r)
  BY Names DEF Init, CleanupFits, ReviewFits
<1> QED
  BY <1>2, <1>4, <1>5, <1>6, Parts

\* Every step keeps the invariant.
LEMMA NextKeepsInvariant ==
  ASSUME ConstantsAreValid, SellerInvariant, [Next]_vars
  PROVE  SellerInvariant'
<1>1. ASSUME NEW u \in Sellers, Start(u) \/ Submit(u) PROVE SellerInvariant'
  BY <1>1, StartKeepsInvariant, SubmitKeepsInvariant
<1>2. ASSUME NEW r \in Requests, NEW u \in Sellers, Renew(r, u) PROVE SellerInvariant'
  BY <1>2, RenewKeepsInvariant
<1>3. ASSUME NEW r \in Requests, Evidence(r) PROVE SellerInvariant'
  BY <1>3, BeginningsKeepInvariant, UploadKeepsInvariant, UnansweredKeepsInvariant,
     FailureKeepsInvariant, CleanupsKeepInvariant DEF Evidence
<1>4. ASSUME NEW r \in Requests, Review(r) PROVE SellerInvariant'
  BY <1>4, BeginningsKeepInvariant, LockingKeepsInvariant, DecisionKeepsInvariant DEF Review
<1>5. CASE \/ \E r \in Requests : GiveUp(r)
           \/ Tick \/ (\E u \in Changing : ChangePerson(u)) \/ UNCHANGED vars
  BY <1>5, OutsideKeepsInvariant
<1> QED
  BY <1>1, <1>2, <1>3, <1>4, <1>5 DEF Next

\* Whatever uploads, renewals, submissions and reviews overlap, fail or stay unanswered:
\* numbers, pictures, files and locks fit together.
THEOREM SellerInvariantHolds ==
  ASSUME ConstantsAreValid PROVE Spec => []SellerInvariant
<1>1. Init => SellerInvariant
  BY InitHasInvariant
<1>2. SellerInvariant /\ [Next]_vars => SellerInvariant'
  BY NextKeepsInvariant
<1> QED
  BY <1>1, <1>2, PTL DEF Spec

\* The attempt of an account that counts is its newest.
LEMMA NewestAttemptCounts ==
  ASSUME SellerInvariant PROVE OneLiveAttempt
<1>1. \A u \in Users : \A a \in AttemptsOf(u) : attempt[a].status # "REJECTED" => IsLatest(a, u)
  BY DEF SellerInvariant, AttemptsAreNumbered
<1>2. \A u \in Users : VerifiedPredicate(u) = VerifiedSeller(u)
  BY <1>1 DEF VerifiedPredicate, VerifiedSeller, AttemptsOf, IsLatest
<1> QED
  BY <1>1, <1>2 DEF OneLiveAttempt

\* The one attempt of an account that was not rejected is its newest, so what the public
\* sees and what the seller may do agree (verified_predicate, lock_verified_seller).
THEOREM OneAttemptCounts ==
  ASSUME ConstantsAreValid PROVE Spec => []OneLiveAttempt
  BY NewestAttemptCounts, SellerInvariantHolds, PTL

\* The handwritten picture of an attempt shows its present challenge, what was submitted
\* is whole, a picture in place has its file, and a file without one is accounted for
\* (renew_challenge, upload, submit).
THEOREM EvidenceStaysInOrder ==
  ASSUME ConstantsAreValid
  PROVE  Spec => [](EvidenceMatchesTheChallenge /\ EvidenceHasItsObject /\ NoOrphanEvidence)
<1>1. SellerInvariant =>
         EvidenceMatchesTheChallenge /\ EvidenceHasItsObject /\ NoOrphanEvidence
  BY DEF SellerInvariant
<1> QED
  BY <1>1, SellerInvariantHolds, PTL

\* Two reviewers who wait have locked in ascending order.
LEMMA LockOrderExcludesCircles ==
  ASSUME ConstantsAreValid, SellerInvariant PROVE ReviewersNeverWaitInACircle
<1> SUFFICES ASSUME NEW r \in Requests, NEW q \in Requests,
                    pc[r] = "second", pc[q] = "second", r # q,
                    lock[Wants(r)] = q, lock[Wants(q)] = r
             PROVE  FALSE
  BY DEF ReviewersNeverWaitInACircle
<1>1. AttemptsAreNumbered /\ ReviewFits(r) /\ ReviewFits(q)
  BY Parts
<1>2. /\ Ordered(r)[1] \in Users /\ Ordered(r)[2] \in Users
      /\ Ordered(q)[1] \in Users /\ Ordered(q)[2] \in Users
      /\ Ordered(r)[1] <= Ordered(r)[2] /\ Ordered(q)[1] <= Ordered(q)[2]
  BY <1>1, OwnersAreUsers
<1>3. Wants(r) = Ordered(r)[2] /\ Wants(q) = Ordered(q)[2]
  BY DEF Wants
<1>4. Ordered(r)[2] = Ordered(q)[1] /\ Ordered(q)[2] = Ordered(r)[1]
  BY <1>1, <1>2, <1>3 DEF ReviewFits
<1>5. Ordered(r)[1] = Ordered(r)[2]
  BY <1>2, <1>4, Names
<1>6. lock[Ordered(r)[1]] = r
  BY <1>1 DEF ReviewFits, Holds
<1> QED
  BY <1>3, <1>5, <1>6

\* Reviewers lock two accounts in ascending order, so none holds what the other one waits
\* for, also when they review each other (review).
THEOREM ReviewersDoNotDeadlock ==
  ASSUME ConstantsAreValid PROVE Spec => []ReviewersNeverWaitInACircle
  BY LockOrderExcludesCircles, SellerInvariantHolds, PTL

\* Only a decision changes an attempt that was submitted.
LEMMA OnlyDecisionsTouchSubmissions ==
  ASSUME ConstantsAreValid, SellerInvariant, [Next]_vars, NEW a \in Attempts,
         attempt[a].status \notin {"none", "PENDING"}, attempt'[a] # attempt[a]
  PROVE  \E r \in Requests, verdict \in {"VERIFIED", "REJECTED"} : Decide(r, verdict)
<1>0. TypeOK
  BY Parts
<1>1. ASSUME NEW u \in Sellers, Start(u) \/ Submit(u) PROVE FALSE
  BY <1>0, <1>1 DEF Start, Submit, Ready, TypeOK
<1>2. ASSUME NEW r \in Requests, NEW u \in Sellers, Renew(r, u) PROVE FALSE
  BY <1>0, <1>2 DEF Renew, TypeOK
<1>3. ASSUME NEW r \in Requests, Evidence(r) PROVE FALSE
  <2>1. CASE Upload(r) \/ UploadUnanswered(r)
    <3>1. PICK b \in Attempts, o \in Objects : Place(r, b, o) /\ Replaced(r, b, o)
      BY <2>1 DEF Upload, UploadUnanswered
    <3>2. attempt[b].status = "PENDING"
      BY <3>1 DEF Place, Accepts
    <3> QED
      BY <1>0, <3>1, <3>2 DEF Replaced, TypeOK
  <2>2. CASE ~(Upload(r) \/ UploadUnanswered(r))
    BY <1>3, <2>2 DEF Evidence, BeginUpload, UploadFails, Unlink, FailCleanup, rows
  <2> QED
    BY <2>1, <2>2
<1>4. ASSUME NEW r \in Requests, Review(r) PROVE \E v \in {"VERIFIED", "REJECTED"} : Decide(r, v)
  BY <1>4 DEF Review, BeginReview, LockReviewed, rows
<1>5. CASE \/ \E r \in Requests : GiveUp(r)
           \/ Tick \/ (\E u \in Changing : ChangePerson(u)) \/ UNCHANGED vars
  BY <1>5 DEF GiveUp, Tick, ChangePerson, rows, vars
<1> QED
  BY <1>1, <1>2, <1>3, <1>4, <1>5 DEF Next

\* A step keeps what was submitted, but for the verdict.
LEMMA FrozenInAStep ==
  ASSUME ConstantsAreValid, SellerInvariant, [Next]_vars PROVE Freezes
<1>1. ASSUME NEW a \in Attempts,
             attempt[a].status \notin {"none", "PENDING"}
      PROVE  /\ attempt'[a] = [attempt[a] EXCEPT !.status = attempt'[a].status]
             /\ attempt[a].status # attempt'[a].status => attempt[a].status = "UNDER_REVIEW"
  <2>0. PICK old \in Row : old = attempt[a] /\ attempt \in [Attempts -> Row]
    BY <1>1 DEF SellerInvariant, TypeOK
  <2>1. CASE attempt'[a] = attempt[a]
    BY <2>0, <2>1 DEF Row
  <2>2. CASE attempt'[a] # attempt[a]
    <3>1. PICK r \in Requests, verdict \in {"VERIFIED", "REJECTED"} : Decide(r, verdict)
      BY <1>1, <2>0, <2>2, OnlyDecisionsTouchSubmissions
    <3>2. /\ a = ctx[r].attempt /\ old.status = "UNDER_REVIEW"
          /\ attempt' = [attempt EXCEPT ![a] = [old EXCEPT !.status = verdict]]
      BY <2>0, <2>2, <3>1 DEF Decide, MayDecide
    <3>3. attempt'[a] = [old EXCEPT !.status = verdict]
      BY <2>0, <3>2
    <3> QED
      BY <2>0, <3>2, <3>3 DEF Row
  <2> QED
    BY <2>1, <2>2
<1> QED
  BY <1>1 DEF Freezes

\* What was submitted never changes but for its status, and that once, by a review: an
\* upload or renewal that began before the submission finds it closed (upload, renew_challenge).
THEOREM SubmissionsStand ==
  ASSUME ConstantsAreValid PROVE Spec => [][Freezes]_vars
  BY FrozenInAStep, SellerInvariantHolds, PTL DEF Spec

\* A step that decides holds both accounts.
LEMMA DecidedInAStep ==
  ASSUME ConstantsAreValid, SellerInvariant, [Next]_vars PROVE DecidesAsAnotherAdmin
<1>1. ASSUME NEW a \in Attempts,
             attempt[a].status = "UNDER_REVIEW", attempt'[a].status # "UNDER_REVIEW"
      PROVE  \E r \in Requests : /\ ctx[r].attempt = a /\ ctx[r].user # attempt[a].user
                                 /\ person[ctx[r].user].admin
                                 /\ person[ctx[r].user].standing # "suspended"
                                 /\ person[attempt[a].user].standing = "eligible"
  <2>1. attempt'[a] # attempt[a]
    BY <1>1
  <2>2. PICK r \in Requests, verdict \in {"VERIFIED", "REJECTED"} : Decide(r, verdict)
    BY <1>1, <2>1, OnlyDecisionsTouchSubmissions
  <2>3. TypeOK /\ AttemptsAreNumbered /\ ReviewFits(r) /\ pc[r] = "decide"
    BY <1>1, <2>2, Parts DEF Decide
  <2>4. /\ OwnerOf(r) \in Users /\ ctx[r].user \in Users
        /\ {Ordered(r)[1], Ordered(r)[2]} = {OwnerOf(r), ctx[r].user}
    BY <2>3, OwnersAreUsers
  <2>5. Holds(r, OwnerOf(r)) /\ Holds(r, ctx[r].user)
    BY <2>3, <2>4 DEF ReviewFits
  <2>6. a = ctx[r].attempt
    BY <2>1, <2>2, <2>3 DEF Decide, TypeOK
  <2> QED
    BY <2>2, <2>5, <2>6 DEF Decide, MayDecide, Holds, OwnerOf
<1> QED
  BY <1>1 DEF DecidesAsAnotherAdmin

\* Every decision is an administrator's who is not suspended, on the request of somebody
\* else who is still eligible, since both accounts are locked (review).
THEOREM DecisionsAreByAnotherAdmin ==
  ASSUME ConstantsAreValid PROVE Spec => [][DecidesAsAnotherAdmin]_vars
  BY DecidedInAStep, SellerInvariantHolds, PTL DEF Spec
=============================================================================
