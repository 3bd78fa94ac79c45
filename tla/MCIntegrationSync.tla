--------------------------- MODULE MCIntegrationSync ---------------------------
(* Instances of IntegrationSync for TLC. *)
EXTENDS IntegrationSync, TLC

Interchangeable == Permutations(Syncs) \union Permutations(Callers)

(* A second and a third fault only once nothing but one item is in motion.   *)
FaultsApart ==
    faults > 1 => /\ \A c \in Callers : calls[c] = NoCall
                  /\ Cardinality({i \in Items : jobs[i].state \in {"waiting", "active"}} \union listeners) <= 1
                  /\ Cardinality({s \in Syncs : syncs[s] # NoSync}) <= 1
=============================================================================
