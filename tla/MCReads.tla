------------------------------ MODULE MCReads ------------------------------
(* Finite instances of AccountReads. *)
EXTENDS AccountReads, TLC

Symmetry == Permutations(Keys) \cup Permutations(Requests)

=============================================================================
