------------------------------ MODULE MCServer ------------------------------
(* Model-checking instances of Server. *)
EXTENDS Server, TLC

Symmetry == Permutations(Clients) \cup Permutations(Sessions)
              \cup Permutations(Ids) \cup Permutations(Names)
=============================================================================
