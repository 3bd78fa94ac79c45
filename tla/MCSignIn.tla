-------------------------------- MODULE MCSignIn --------------------------------
(* Instances of SignIn for TLC.                                              *)
EXTENDS SignIn, TLC

Interchangeable == Permutations(Requests) \union Permutations(Links)
=============================================================================
