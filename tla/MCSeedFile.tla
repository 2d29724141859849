----------------------------- MODULE MCSeedFile -----------------------------
(* Instances of SeedFile for TLC *)
EXTENDS SeedFile, TLC

CONSTANTS a, b, p, q

\* Seeds and passwords are interchangeable; only invariants are checked with this
Interchangeable == Permutations(Seeds) \cup Permutations(Passwords)
=============================================================================
