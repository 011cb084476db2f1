------------------------ MODULE ProductImagesSafety ------------------------
(***************************************************************************)
(* What must be true of the rows and objects of module ProductImages.      *)
(***************************************************************************)
EXTENDS ProductImages

\* "Committed positions contiguous 0..N-1, N<=8" (PHASE_10_PRODUCT_IMAGES_STORAGE
\* .md), whatever uploads, reorders and deletions overlap.
PositionsAreContiguous ==
    /\ Cardinality(Rows) <= MaxImages
    /\ {position[i] : i \in Rows} = 0..(Cardinality(Rows) - 1)

\* resequence moves the rows one at a time under a unique index on the position.
\* From any committed state, towards any order of all images or of all but the
\* deleted one, no two rows ever share a position and none leaves the column's
\* range, whatever rows have been moved already.
ResequencingNeverCollides ==
    \A kept \in {Rows} \cup {Rows \ {i} : i \in Rows} :
      \A f \in Bijections(kept) :
        \A moved \in SUBSET kept :
          LET first == [i \in kept |-> IF i \in moved THEN Parked(f[i]) ELSE position[i]]
              second == [i \in kept |-> IF i \in moved THEN f[i] ELSE Parked(f[i])]
          IN  \A i \in kept :
                /\ first[i] \in Positions /\ second[i] \in Positions
                /\ \A j \in kept \ {i} : first[i] # first[j] /\ second[i] # second[j]

\* A row points to a complete object, except after the "ambiguous COMMIT" that
\* PHASE_10_FINAL_ADVERSARIAL_AUDIT.md grants: a public picture is never deleted
\* by the compensation of an upload that only seemed to fail, nor half written.
RowsHaveObjects ==
    \A i \in MissingObjects : "commit" \in blamed[i]

\* An object without a row belongs to a request that will still insert or delete
\* it; only a crash or a failed cleanup leaves one behind (upload, delete).
NoOrphans ==
    \A i \in OrphanObjects : "cleanup" \notin blamed[i] =>
        \E r \in Requests : ctx[r].image = i /\ pc[r] \in {"save", "insert", "compensate", "unlink"}

-----------------------------------------------------------------------------
\* What the proofs need beside the properties.

\* No two rows share a position.
PositionsAreDistinct ==
    \A i, j \in Rows : i # j => position[i] # position[j]

\* A reorder names its images once each, from 0 on.
OrderIsContiguous(order) ==
    LET named == {i \in Images : order[i] # Absent}
    IN  /\ {order[i] : i \in named} = 0..(Cardinality(named) - 1)
        /\ \A i, j \in named : i # j => order[i] # order[j]

\* The stages of a request that has an object to account for.
Working == {"save", "insert", "compensate", "unlink"}

\* The image of an upload has no row before the insert and is in no other
\* request's hands; a row that is compensated or unlinked is gone, unless its
\* commit was not answered.
RequestFits(r) ==
    LET i == ctx[r].image
    IN  /\ pc[r] \in {"save", "insert", "compensate", "delete", "unlink"} => i \in Images
        /\ pc[r] \in {"save", "insert"} =>
               i \notin Rows /\ \A q \in Requests \ {r} : ctx[q].image # i
        /\ pc[r] = "insert" => object[i] = "stored"
        /\ pc[r] = "compensate" /\ i \in Rows => "commit" \in blamed[i]
        /\ pc[r] = "unlink" => i \notin Rows
        /\ pc[r] = "reorder" => OrderIsContiguous(ctx[r].order)

\* The inductive invariant.
PicturesInvariant ==
    /\ TypeOK
    /\ PositionsAreContiguous /\ PositionsAreDistinct
    /\ \A r \in Requests : RequestFits(r)
    /\ RowsHaveObjects /\ NoOrphans
=============================================================================
