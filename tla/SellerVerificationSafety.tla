---------------------- MODULE SellerVerificationSafety ----------------------
(***************************************************************************)
(* What must be true of the requests of module SellerVerification.         *)
(***************************************************************************)
EXTENDS SellerVerification

\* An account has one attempt that was not rejected, its newest, so the public
\* predicate and the one the seller's own operations use never disagree
\* (active_slot, verified_predicate, lock_verified_seller).
OneLiveAttempt ==
    \A u \in Users :
        /\ \A a \in AttemptsOf(u) : attempt[a].status # "REJECTED" => IsLatest(a, u)
        /\ VerifiedPredicate(u) = VerifiedSeller(u)

\* "Evidence of the old challenge must never satisfy a new submission"
\* (seller_verification_service.py): the handwritten picture of an attempt shows
\* its present challenge, and from the submission on nothing is missing, however
\* uploads and renewals overlap.
EvidenceMatchesTheChallenge ==
    \A a \in Attempts :
        LET h == attempt[a].evidence[Handwritten]
        IN  /\ h # None => shows[h] = attempt[a].challenge
            /\ attempt[a].status \in {"UNDER_REVIEW", "VERIFIED", "REJECTED"} => EvidenceIsWhole(a)

\* What was submitted is what is reviewed and what stays on file: no upload or
\* renewal that began before changes it, and a decision is never undone.
Freezes ==
    \A a \in Attempts : attempt[a].status \notin {"none", "PENDING"} =>
        /\ attempt'[a] = [attempt[a] EXCEPT !.status = attempt'[a].status]
        /\ attempt[a].status # attempt'[a].status => attempt[a].status = "UNDER_REVIEW"

\* Nobody decides on the own request, and every decision is an administrator's,
\* also when the role or the account changes while the review waits for its locks.
DecidesAsAnotherAdmin ==
    \A a \in Attempts : attempt[a].status = "UNDER_REVIEW" /\ attempt'[a].status # "UNDER_REVIEW" =>
        \E r \in Requests : /\ ctx[r].attempt = a /\ ctx[r].user # attempt[a].user
                            /\ person[ctx[r].user].admin
                            /\ person[ctx[r].user].standing # "suspended"
                            /\ person[attempt[a].user].standing = "eligible"

\* The picture in place has its file, whatever failed, except after a commit
\* whose outcome the service did not learn (upload: old after, new on failure).
EvidenceHasItsObject ==
    \A a \in Attempts, k \in Kinds :
        LET o == attempt[a].evidence[k]
        IN  o # None => o \in stored \/ "commit" \in blamed[o]

\* A file without a picture in place is about to be deleted, or its cleanup failed.
NoOrphanEvidence ==
    \A o \in stored :
        \/ \E a \in Attempts, k \in Kinds : attempt[a].evidence[k] = o
        \/ \E r \in Requests : pc[r] \in {"unlink", "compensate"} /\ ctx[r].object = o
        \/ "cleanup" \in blamed[o]

\* Two administrators who review each other's requests never hold what the other
\* one waits for.
ReviewersNeverWaitInACircle ==
    \A r, q \in Requests :
        ~ /\ pc[r] = "second" /\ pc[q] = "second" /\ r # q
          /\ lock[Wants(r)] = q /\ lock[Wants(q)] = r

-----------------------------------------------------------------------------
\* Why they hold.  A row belongs to nobody until it is an attempt, and the serials
\* of an account are those of its attempts.
AttemptsAreNumbered ==
    /\ \A a \in Attempts : attempt[a].status = "none" => attempt[a] = Blank
    /\ \A a \in Attempts : attempt[a].status # "none" => attempt[a].user \in Users
    /\ \A u \in Users : \A a \in AttemptsOf(u) :
         /\ attempt[a].serial <= Cardinality(AttemptsOf(u))
         /\ attempt[a].status # "REJECTED" => IsLatest(a, u)

InPlace(o) == \E a \in Attempts, k \in Kinds : attempt[a].evidence[k] = o

\* An object is one picture of one attempt.
ObjectsAreApart ==
    \A a, b \in Attempts, k, m \in Kinds :
        attempt[a].evidence[k] # None /\ attempt[a].evidence[k] = attempt[b].evidence[m] =>
            a = b /\ k = m

\* What is about to be deleted is not in place, unless its upload was committed unanswered.
CleanupFits(r) ==
    pc[r] \in {"unlink", "compensate"} =>
        /\ ctx[r].object \in Objects
        /\ InPlace(ctx[r].object) => "commit" \in blamed[ctx[r].object]

\* A review holds u, whose standing was in order when it was locked.
Holds(r, u) ==
    /\ lock[u] = r
    /\ IF u = OwnerOf(r) THEN person[u].standing = "eligible"
                         ELSE person[u].standing # "suspended"

ReviewFits(r) ==
    /\ pc[r] \in {"first", "second", "decide"} =>
         /\ ctx[r].attempt \in Attempts /\ ctx[r].user \in Users
         /\ attempt[ctx[r].attempt].status # "none"
    /\ pc[r] \in {"second", "decide"} => Holds(r, Ordered(r)[1])
    /\ pc[r] = "decide" => Holds(r, Ordered(r)[2])
    /\ \A u \in Users : lock[u] = r => /\ pc[r] \in {"second", "decide"}
                                       /\ pc[r] = "second" => u = Ordered(r)[1]

SellerInvariant ==
    /\ TypeOK
    /\ AttemptsAreNumbered
    /\ ObjectsAreApart
    /\ EvidenceMatchesTheChallenge /\ EvidenceHasItsObject /\ NoOrphanEvidence
    /\ \A r \in Requests : CleanupFits(r) /\ ReviewFits(r)
=============================================================================
