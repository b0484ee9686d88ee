----------------------------- MODULE MCIdentity -----------------------------
(* Model-checking instances of Identity. *)
EXTENDS Identity, TLC

Symmetry == Permutations(Clients) \cup Permutations(Names)
=============================================================================
