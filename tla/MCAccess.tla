------------------------------ MODULE MCAccess ------------------------------
(* A finite instance of Access. *)
EXTENDS Access, TLC

Symmetry == Permutations(Clients) \cup Permutations(Passwords) \cup Permutations(Keys)

=============================================================================
