------------------------------ MODULE MCWorkItems ------------------------------
(* Instances of WorkItems for TLC. *)
EXTENDS WorkItems, TLC

Interchangeable == Permutations(Calls)
=============================================================================
