------------------------------- MODULE MCMedia -------------------------------
(***************************************************************************)
(* Small instances for TLC of the components that keep files: the pictures *)
(* of a listing, the evidence of a seller, its review, and the tickets     *)
(* with which it is read.  No row or file is in two of them, so they are   *)
(* explored side by side: a behaviour belongs to one, and side says which. *)
(* One seller with two kinds of evidence uploads and submits; two accounts *)
(* that may both be seller and administrator review each other.  Evidence  *)
(* and Review bring their lemmas along, for module MediaProofs.            *)
(***************************************************************************)
EXTENDS EvidenceTicketsSafety, TLC

CONSTANTS
    Images, NoImage, MaxImages, MaxAttempts,
    First, Attempts, Kinds, Handwritten, Lifetime

VARIABLES
    side,
    seller, archived, position, object, phase, upload, blamed,
    person, attempt, stored, shows, lock, stage, local, faults

Pictures == INSTANCE ProductImagesSafety WITH pc <- phase, ctx <- upload

Evidence == INSTANCE SellerVerificationProofs
    WITH pc <- stage, ctx <- local, blamed <- faults, Objects <- Images,
         Users <- {1, 2}, Sellers <- {1}, Admins <- {2}, Changing <- {},
         Attempts <- {First}, MaxChallenge <- 1

Review == INSTANCE SellerVerificationProofs
    WITH pc <- stage, ctx <- local, blamed <- faults, Objects <- Attempts,
         Users <- {1, 2}, Sellers <- {1, 2}, Admins <- {1, 2}, Changing <- {2},
         Kinds <- {Handwritten}, MaxChallenge <- 0, MaxTime <- 0

ASSUME MediaConstantsAreValid ==
    /\ ConstantsAreValid /\ Pictures!ConstantsAreValid
    /\ Evidence!ConstantsAreValid /\ Review!ConstantsAreValid

pictureVars == <<seller, archived, position, object, phase, upload, blamed>>
sellerVars == <<person, attempt, stored, shows, lock, stage, local, faults>>
ticketVars == <<admins, away, key, used, tickets, drawn, served, pc, ctx>>

MediaInit ==
    /\ Init /\ Pictures!Init
    /\ \/ side \in {"pictures", "evidence", "tickets"} /\ Evidence!Init
       \/ side = "review" /\ Review!Init

MediaNext ==
    /\ UNCHANGED side
    /\ \/ side = "pictures" /\ Pictures!Next /\ UNCHANGED <<now, sellerVars, ticketVars>>
       \/ side = "evidence" /\ Evidence!Next /\ UNCHANGED <<pictureVars, ticketVars>>
       \/ side = "review" /\ Review!Next /\ UNCHANGED <<pictureVars, ticketVars>>
       \/ side = "tickets" /\ Next /\ UNCHANGED <<pictureVars, sellerVars>>

MediaSpec == MediaInit /\ [][MediaNext]_<<side, now, pictureVars, sellerVars, ticketVars>>

\* The order of a listing's pictures is contiguous whatever requests overlap, and
\* on the way to a new order no two rows share a position (upload, reorder, delete,
\* resequence).
OrderIsKept == Pictures!PositionsAreContiguous /\ Pictures!ResequencingNeverCollides

\* Rows of pictures and public objects agree, whatever failed (upload, delete).
RowsAndObjectsAgree == Pictures!RowsHaveObjects /\ Pictures!NoOrphans

\* Evidence shows the present challenge, is whole once submitted, and its rows and
\* private files agree, whatever failed (renew_challenge, upload, submit: the old
\* file goes after the commit, the new one when it fails).
EvidenceIsInOrder ==
    side = "evidence" =>
        /\ Evidence!EvidenceMatchesTheChallenge
        /\ Evidence!EvidenceHasItsObject /\ Evidence!NoOrphanEvidence

\* What was submitted is what is reviewed and kept (upload, review).
SubmissionsAreFrozen == [][side = "evidence" => Evidence!Freezes]_sellerVars

\* An account has one attempt that counts (active_slot, lock_verified_seller).
OneLiveAttempt == side = "review" => Review!OneLiveAttempt

\* Reviewers lock in one order (review).
ReviewersNeverWaitInACircle == side = "review" => Review!ReviewersNeverWaitInACircle

\* A decision is an active administrator's on somebody else's request (review).
DecidedByAnotherAdmin == [][side = "review" => Review!DecidesAsAnotherAdmin]_sellerVars

\* Requests, attempts and images are interchangeable; images also name the keys of
\* the evidence, and attempts the nonces and the keys of the reviewed evidence.
Interchangeable == Permutations(Requests) \cup Permutations(Images) \cup Permutations(Attempts)
=============================================================================
