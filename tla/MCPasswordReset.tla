--------------------------- MODULE MCPasswordReset ---------------------------
(***************************************************************************)
(* Small instances of PasswordResetSafety for TLC.                         *)
(***************************************************************************)
EXTENDS PasswordResetSafety, TLC

\* Requests and rows are interchangeable.
Interchangeable == Permutations(Requests) \cup Permutations(Codes)
=============================================================================
