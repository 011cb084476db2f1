----------------------------- MODULE MCSessions -----------------------------
(***************************************************************************)
(* Small instances of SessionSafety for TLC.                               *)
(***************************************************************************)
EXTENDS SessionSafety, TLC

\* Requests and rows are interchangeable; users are too, and are left apart.
Interchangeable == Permutations(Requests) \cup Permutations(Tokens)
=============================================================================
