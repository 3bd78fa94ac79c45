---------------------------- MODULE MCLeadPipeline ----------------------------
(* Instances of LeadPipeline for TLC. *)
EXTENDS LeadPipeline, TLC

Interchangeable ==
    Permutations(Leads) \union Permutations(Contacts)
        \union Permutations(Callers) \union Permutations(Users)

(* The staff of leads and the business side share nothing but the leads'     *)
(* life: a state in which both have moved, two leads have been staffed, two  *)
(* pairs of primaries have been missed, a lead is deleted that nobody        *)
(* converts or is assigned to, or has a contact and no business, is checked  *)
(* and not gone on from.                                                     *)
Staffed(l) == \/ \E u \in Users : staff[<<l, u>>] # "absent"
              \/ \E c \in Callers : calls[c].step \in {"unown", "own"} /\ calls[c].row[1] = l
OneSideAtATime ==
    LET staffed == {l \in Leads : Staffed(l)} IN
    /\ \A l \in Leads : Live(l) \/ Staffed(l) \/ \E c \in Callers : calls[c].lead = l
    /\ \A l \in Leads : leads[l].business = Unset => leads[l].contact = Unset
    /\ \A p, q \in missed : p = q
    /\ \/ staffed = {} /\ \A pair \in missed : pair \subseteq Roles
       \/ /\ Cardinality(staffed) = 1
          /\ \A l \in Leads : leads[l].business = Unset /\ leads[l].contact = Unset
          /\ \A r \in Roles : roles[r] = "absent"
          /\ \A c \in Callers : calls[c].step \in {"none", "unown", "own"}
=============================================================================
