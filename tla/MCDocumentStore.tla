---------------------------- MODULE MCDocumentStore ----------------------------
(* Instances of DocumentStore for TLC. *)
EXTENDS DocumentStore, TLC

Interchangeable == Permutations(Docs) \union Permutations(Folders)
                     \union Permutations(Requests) \union Permutations(Owners)

(* Rows and sub-folders share nothing but whether their folder lives: a      *)
(* state with two folders and two rows, or with three rows while a folder is *)
(* made or renamed, is checked and not gone on from.                         *)
FoldersApart ==
    /\ Cardinality({f \in Folders : folders[f].state # "absent"}) > 1 => Cardinality(Rows) < 2
    /\ Cardinality(Rows) = 3 => \A r \in Requests : calls[r].step \notin {"make", "rename"}
=============================================================================
