----------------------------- MODULE MCInvitations -----------------------------
(* Instances of Invitations for TLC. *)
EXTENDS Invitations, TLC

Interchangeable == Permutations(Ids) \union Permutations(Emails)
                       \union Permutations(Requests)
=============================================================================
