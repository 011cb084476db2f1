--------------------------- MODULE MCClientSession ---------------------------
(* Small instances of the session coordinator for TLC: one tab, and two. *)
EXTENDS ClientSessionSafety, TLC

ASSUME ClientConstantsAreValid == ConstantsAreValid

\* Accounts, families and requests are interchangeable.
Interchangeable == Permutations(Users) \cup Permutations(Calls)
=============================================================================
