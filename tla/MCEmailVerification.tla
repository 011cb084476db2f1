------------------------ MODULE MCEmailVerification ------------------------
(***************************************************************************)
(* Small instances of EmailVerificationSafety for TLC.                     *)
(***************************************************************************)
EXTENDS EmailVerificationSafety, TLC

\* Requests and rows are interchangeable.
Interchangeable == Permutations(Requests) \cup Permutations(Codes)
=============================================================================
