------------------------------ MODULE MCRegistry ------------------------------
(* Registry with servers, keys and commands interchangeable: no liveness is
   checked, and the properties name none of them. *)
EXTENDS Registry, TLC

Symmetry == Permutations(Servers) \cup Permutations(Keys) \cup Permutations(Commands)
=============================================================================
