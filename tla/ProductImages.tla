--------------------------- MODULE ProductImages ---------------------------
(***************************************************************************)
(* The pictures of a listing: rows of product_images in the database, and  *)
(* objects in a store that takes part in no transaction                    *)
(* (product_image_service.py, product_image_repository.py,                 *)
(* product_image_storage.py; retry_deadlock of transactions.py).           *)
(*                                                                         *)
(* An upload stores its object in a first transaction and inserts the row  *)
(* in a second one, which alone is repeated after a deadlock; any failure  *)
(* after the save deletes the object again.  A deletion commits first and  *)
(* removes the object afterwards.  Every transaction begins by locking the *)
(* row of the seller, who owns the one listing modelled: listings do not   *)
(* share rows or objects.  Reading a picture changes nothing.              *)
(***************************************************************************)
EXTENDS Integers, FiniteSets

CONSTANTS
    Images,     \* the uploads that can ever be made, with their keys and refs (a bound)
    Requests,   \* the requests that can be open at a time
    NoImage,
    MaxImages,  \* MAX_IMAGES
    MaxAttempts \* the three attempts of retry_deadlock

ConstantsAreValid ==
    /\ NoImage \notin Images /\ IsFiniteSet(Images)
    /\ MaxImages \in Nat \ {0} /\ MaxAttempts \in Nat \ {0}

VARIABLES
    seller,   \* may the seller sell, only sign in, or neither
    archived, \* the listing was archived
    position, \* product_images: the position of each image, Absent if it has no row
    object,   \* the files of the store
    pc,       \* what r does next
    ctx,      \* the local variables of r
    blamed    \* what went wrong with an image: a cleanup undone, a commit unanswered

vars == <<seller, archived, position, object, pc, ctx, blamed>>

Absent == -1
Positions == 0..(2 * MaxImages - 1)

\* A file is written under a pending name and linked to its key when complete.
Objects == {"none", "pending", "stored"}

Stages == {"idle", "receive", "save", "insert", "compensate", "reorder", "delete", "unlink"}

\* order is the position a reorder wants for each image it names.
Context == [image: Images \cup {NoImage}, attempt: 0..MaxAttempts,
            order: [Images -> Positions \cup {Absent}]]

NoOrder == [i \in Images |-> Absent]
NoContext == [image |-> NoImage, attempt |-> 0, order |-> NoOrder]

TypeOK ==
    /\ seller \in {"sells", "reads", "suspended"}
    /\ archived \in BOOLEAN
    /\ position \in [Images -> Positions \cup {Absent}]
    /\ object \in [Images -> Objects]
    /\ pc \in [Requests -> Stages]
    /\ ctx \in [Requests -> Context]
    /\ blamed \in [Images -> SUBSET {"cleanup", "commit"}]

Init ==
    /\ seller = "sells"
    /\ archived = FALSE
    /\ position = [i \in Images |-> Absent]
    /\ object = [i \in Images |-> "none"]
    /\ pc = [r \in Requests |-> "idle"]
    /\ ctx = [r \in Requests |-> NoContext]
    /\ blamed = [i \in Images |-> {}]

-----------------------------------------------------------------------------
\* Helpers

Rows == {i \in Images : position[i] # Absent}

\* The upload that stores an object holds the seller's row until it commits.
Unlocked == \A r \in Requests : pc[r] # "save"

Sells == seller = "sells" /\ ~archived

\* What audit reports: rows without their object, files no row points to
\* (an unfinished file too, under its pending name).
MissingObjects == {i \in Rows : object[i] # "stored"}
OrphanObjects == {i \in Images : object[i] = "pending" \/ (object[i] = "stored" /\ i \notin Rows)}

HasRoom == Cardinality(Rows) < MaxImages

\* _upload_context
Admissible == Unlocked /\ Sells /\ HasRoom

Goto(r, stage) == pc' = [pc EXCEPT ![r] = stage]

Finish(r) == Goto(r, "idle") /\ ctx' = [ctx EXCEPT ![r] = NoContext]

\* The images of the set in the order of their positions, as 0, 1, 2...
Closed(images) ==
    [i \in Images |-> IF i \in images
                      THEN Cardinality({j \in images : position[j] < position[i]})
                      ELSE Absent]

\* Mutant: the intermediate positions overlap the final ones.
ParkedTooLow(index) == MaxImages - 1 + index

\* Where resequence keeps a row while it moves the others.
Parked(index) == MaxImages + index

-----------------------------------------------------------------------------
\* upload

\* preflight_upload is an admission that locks nothing for later.
Preflight(r) ==
    /\ pc[r] = "idle"
    /\ Admissible
    /\ Goto(r, "receive")
    /\ UNCHANGED <<seller, archived, position, object, ctx, blamed>>

\* The request body is in: the first transaction checks again and starts to save.
StartSave(r) ==
    /\ pc[r] = "receive"
    /\ Admissible
    /\ \E i \in Images :
         /\ object[i] = "none" /\ position[i] = Absent
         /\ \A q \in Requests : ctx[q].image # i
         /\ blamed[i] = {}
         /\ object' = [object EXCEPT ![i] = "pending"]
         /\ ctx' = [ctx EXCEPT ![r].image = i]
    /\ Goto(r, "save")
    /\ UNCHANGED <<seller, archived, position, blamed>>

\* No longer admissible, an unsafe picture, or no decoder free.
Refuse(r) ==
    /\ pc[r] \in {"receive", "reorder", "delete"}
    /\ Finish(r)
    /\ UNCHANGED <<seller, archived, position, object, blamed>>

Publish(r) ==
    /\ pc[r] = "save"
    /\ object' = [object EXCEPT ![ctx[r].image] = "stored"]
    /\ Goto(r, "insert")
    /\ UNCHANGED <<seller, archived, position, ctx, blamed>>

\* save removes its own files when it fails.
FailSave(r) ==
    /\ pc[r] = "save"
    /\ object' = [object EXCEPT ![ctx[r].image] = "none"]
    /\ Finish(r)
    /\ UNCHANGED <<seller, archived, position, blamed>>

\* _insert_metadata: a new row at the end, if the checks still hold.
Insert(r) ==
    /\ pc[r] = "insert"
    /\ Admissible
    /\ position' = [position EXCEPT ![ctx[r].image] = Cardinality(Rows)]
    /\ Finish(r)
    /\ UNCHANGED <<seller, archived, object, blamed>>

\* The row is committed, but the connection breaks before the answer.
InsertUnanswered(r) ==
    /\ pc[r] = "insert"
    /\ Admissible
    /\ position' = [position EXCEPT ![ctx[r].image] = Cardinality(Rows)]
    /\ blamed' = [blamed EXCEPT ![ctx[r].image] = @ \cup {"commit"}]
    /\ Goto(r, "compensate")
    /\ UNCHANGED <<seller, archived, object, ctx>>

\* What retry_deadlock repeats.
Retried(r) == "insert"

MayRetry(r) == ctx[r].attempt + 1 < MaxAttempts

\* InnoDB makes the transaction a victim, and retry_deadlock begins it again.
Deadlock(r) ==
    /\ pc[r] = "insert"
    /\ MayRetry(r)
    /\ Goto(r, Retried(r))
    /\ ctx' = [ctx EXCEPT ![r].attempt = @ + 1]
    /\ UNCHANGED <<seller, archived, position, object, blamed>>

\* Quota or authority lost meanwhile, a failing commit, the last deadlock.
FailInsert(r) ==
    /\ pc[r] = "insert"
    /\ Goto(r, "compensate")
    /\ UNCHANGED <<seller, archived, position, object, ctx, blamed>>

\* upload's except clause deletes the object it saved.
Compensate(r) ==
    /\ pc[r] = "compensate"
    /\ object' = [object EXCEPT ![ctx[r].image] = "none"]
    /\ Finish(r)
    /\ UNCHANGED <<seller, archived, position, blamed>>

\* The store refuses: only the log knows.
FailCleanup(r) ==
    /\ pc[r] \in {"compensate", "unlink"}
    /\ blamed' = [blamed EXCEPT ![ctx[r].image] = @ \cup {"cleanup"}]
    /\ Finish(r)
    /\ UNCHANGED <<seller, archived, position, object>>

-----------------------------------------------------------------------------
\* reorder and delete

Bijections(images) ==
    {f \in [images -> 0..(Cardinality(images) - 1)] :
        \A i, j \in images : i # j => f[i] # f[j]}

\* The client names the images it was shown, in the order it wants.
BeginReorder(r) ==
    /\ pc[r] = "idle" /\ Rows # {}
    /\ \E f \in Bijections(Rows) :
         ctx' = [ctx EXCEPT ![r].order = [i \in Images |-> IF i \in Rows THEN f[i] ELSE Absent]]
    /\ Goto(r, "reorder")
    /\ UNCHANGED <<seller, archived, position, object, blamed>>

\* Mutant: the set of references is not compared with the rows.
NamesTheRowsLoosely(order) == TRUE

NamesTheRows(order) == {i \in Images : order[i] # Absent} = Rows

Reorder(r) ==
    /\ pc[r] = "reorder"
    /\ Unlocked /\ Sells
    /\ NamesTheRows(ctx[r].order)
    /\ position' = ctx[r].order
    /\ Finish(r)
    /\ UNCHANGED <<seller, archived, object, blamed>>

BeginDelete(r) ==
    /\ pc[r] = "idle"
    /\ \E i \in Rows : ctx' = [ctx EXCEPT ![r].image = i]
    /\ Goto(r, "delete")
    /\ UNCHANGED <<seller, archived, position, object, blamed>>

Remaining(images) == Closed(images)

\* _delete_metadata needs an active account only, and also serves archived listings.
DeleteRow(r) ==
    LET i == ctx[r].image
    IN  /\ pc[r] = "delete"
        /\ Unlocked /\ seller # "suspended"
        /\ i \in Rows
        /\ position' = Remaining(Rows \ {i})
        /\ UNCHANGED <<seller, archived, object>>

Delete(r) == DeleteRow(r) /\ Goto(r, "unlink") /\ UNCHANGED <<ctx, blamed>>

\* The deletion is committed, but seems to have failed: the object is left.
DeleteUnanswered(r) ==
    /\ DeleteRow(r)
    /\ blamed' = [blamed EXCEPT ![ctx[r].image] = @ \cup {"cleanup"}]
    /\ Finish(r)

Unlink(r) ==
    /\ pc[r] = "unlink"
    /\ object' = [object EXCEPT ![ctx[r].image] = "none"]
    /\ Finish(r)
    /\ UNCHANGED <<seller, archived, position, blamed>>

-----------------------------------------------------------------------------
\* The process stops; nothing repeats what it had begun.
Crash(r) ==
    LET i == ctx[r].image
    IN  /\ pc[r] # "idle"
        /\ blamed' = [j \in Images |-> IF j = i /\ pc[r] # "delete"
                                      THEN blamed[j] \cup {"cleanup"} ELSE blamed[j]]
        /\ Finish(r)
        /\ UNCHANGED <<seller, archived, position, object>>

\* Another transaction on the seller's account or on the listing.
ChangeSeller ==
    /\ Unlocked
    /\ seller' \in {"sells", "reads", "suspended"} \ {seller}
    /\ UNCHANGED <<archived, position, object, pc, ctx, blamed>>

Archive ==
    /\ Unlocked /\ ~archived
    /\ archived' = TRUE
    /\ UNCHANGED <<seller, position, object, pc, ctx, blamed>>

\* The pool has a key for every upload that may still save.
RoomForAnUpload ==
    Cardinality({i \in Images : object[i] = "none" /\ position[i] = Absent /\ blamed[i] = {}
                                /\ \A q \in Requests : ctx[q].image # i})
        > Cardinality({r \in Requests : pc[r] = "receive"})

Upload(r) ==
    \/ RoomForAnUpload /\ Preflight(r)
    \/ StartSave(r) \/ Publish(r) \/ FailSave(r)
    \/ Insert(r) \/ InsertUnanswered(r) \/ Deadlock(r) \/ FailInsert(r)
    \/ Compensate(r) \/ FailCleanup(r)

Edit(r) ==
    \/ BeginReorder(r) \/ Reorder(r)
    \/ BeginDelete(r) \/ Delete(r) \/ DeleteUnanswered(r) \/ Unlink(r)

Next ==
    \/ \E r \in Requests : Upload(r) \/ Edit(r) \/ Refuse(r) \/ Crash(r)
    \/ ChangeSeller
    \/ Archive

Spec == Init /\ [][Next]_vars
=============================================================================
