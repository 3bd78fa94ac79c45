--------------------------- MODULE GatewayCollection ---------------------------
(***************************************************************************)
(* What collecting through a payment gateway promises whoever collects,    *)
(* the firm from its clients or the platform from its tenants, with        *)
(* requests, retries and tables left out: money moves from a link to the   *)
(* books once, and an invoice is settled only by a booking of a link that  *)
(* was made for it.                                                        *)
(***************************************************************************)
CONSTANTS Invoices, Links, None

VARIABLES
    stage,    \* how far the money of each link has come
    target,   \* the invoice each link was made for, None until it is saved
    settled   \* invoices that count as paid

Init ==
    /\ stage = [l \in Links |-> "unissued"]
    /\ target = [l \in Links |-> None]
    /\ settled = {}

Issue(l) ==
    /\ stage[l] = "unissued"
    /\ stage' = [stage EXCEPT ![l] = "open"]
    /\ UNCHANGED <<target, settled>>

(* The link is saved for its invoice, perhaps after the client has paid. *)
Save(l, i) ==
    /\ stage[l] \in {"open", "captured"}
    /\ target[l] = None
    /\ target' = [target EXCEPT ![l] = i]
    /\ UNCHANGED <<stage, settled>>

Capture(l) ==
    /\ stage[l] = "open"
    /\ stage' = [stage EXCEPT ![l] = "captured"]
    /\ UNCHANGED <<target, settled>>

(* Booking settles the invoice, unless it is no longer kept. *)
Book(l) ==
    /\ stage[l] = "captured"
    /\ target[l] # None
    /\ stage' = [stage EXCEPT ![l] = "booked"]
    /\ settled' = settled \/ settled' = settled \union {target[l]}
    /\ UNCHANGED target

Next ==
    \E l \in Links :
        \/ Issue(l)
        \/ \E i \in Invoices : Save(l, i)
        \/ Capture(l)
        \/ Book(l)

Spec == Init /\ [][Next]_<<stage, target, settled>>
=============================================================================
