------------------------------ MODULE LeadPipeline ------------------------------
(***************************************************************************)
(* Leads and what they become: linking a lead, converting it into a client *)
(* of its business, the roles contacts have in a business, and the staff   *)
(* assigned to a lead.  "At most one is primary" (the primary contact of a *)
(* business, the owner of a lead) is kept by clearing the others first,    *)
(* inside a transaction for contacts and outside of any for owners.        *)
(*                                                                         *)
(* Transactions are READ COMMITTED: what one has written is in its call    *)
(* until it commits; an update sees the rows committed when it starts,     *)
(* waits for those another transaction holds and then takes the ones that  *)
(* still match; an insert waits for an uncommitted row of the same key.    *)
(* Contacts, businesses and users stay; their deletion is soft and reaches *)
(* none of these tables.  Stages, proposals and notes are left out.        *)
(***************************************************************************)
EXTENDS FiniteSets

CONSTANTS
    Leads, Businesses, Contacts, Users,
    OtherTypes,       \* roleTypes besides the one a conversion gives
    Callers,          \* requests in flight (bound)
    Representative,   \* ContactRoleType.CLIENT_REPRESENTATIVE
    Unset

ASSUME UnsetAssumption == Unset \notin Leads \union Businesses \union Contacts
ASSUME TypesAssumption == Representative \notin OtherTypes

VARIABLES
    leads,        \* [business, contact, life]
    clients,      \* clients, unique by business; "imported" ones no lead became
    conversions,  \* lead_conversions, unique by lead and by client
    roles,        \* contact_roles, unique by business, contact and type
    staff,        \* lead_assignments, unique by lead and user
    calls,        \* requests in flight, with what their transaction holds
    read,         \* observation: the contact a conversion read in its lead
    missed,       \* observation: pairs of primaries, one set unseen by the other
    owned         \* observation: leads given an owner and not bereft of it since

crmTables == <<leads, clients, conversions, roles, staff>>
leadObservations == <<read, missed, owned>>
leadVars == <<crmTables, calls, leadObservations>>

-----------------------------------------------------------------------------
Types == {Representative} \union OtherTypes
Roles == Businesses \X Contacts \X Types
Seats == Leads \X Users
Mark == {"absent", "plain", "primary"}

Lead == [business : Businesses \union {Unset}, contact : Contacts \union {Unset},
         life : {"live", "deleted"}]

(* A call: the lead it converts, the row it is to insert and whether as the  *)
(* primary; sees holds the primaries its update found and, from then on, the *)
(* ones it has cleared; late the ones that appeared since; whether it made a *)
(* client.                                                                   *)
Steps == {"none", "client", "newClient", "existing", "clear", "lock", "role", "conversion",
          "commit", "unown", "own"}
Call == [step : Steps, lead : Leads \union {Unset},
         row : (Businesses \X (Contacts \union {Unset}) \X Types) \union Seats \union {<<>>},
         primary : BOOLEAN, sees : SUBSET Roles, late : SUBSET (Roles \union Seats),
         made : BOOLEAN]

LeadTypeOK ==
    /\ leads \in [Leads -> Lead]
    /\ clients \in [Businesses -> {"absent", "imported", "converted"}]
    /\ conversions \in [Leads -> Businesses \union {Unset}]
    /\ roles \in [Roles -> Mark]
    /\ staff \in [Seats -> Mark]
    /\ calls \in [Callers -> Call]
    /\ read \in [Leads -> Contacts \union {Unset}]
    /\ missed \subseteq SUBSET (Roles \union Seats)
    /\ owned \subseteq Leads

NoCall == [step |-> "none", lead |-> Unset, row |-> <<>>, primary |-> FALSE,
           sees |-> {}, late |-> {}, made |-> FALSE]

(* createLead, its links given or not: see UpdateLead. *)
LeadInit ==
    /\ leads = [l \in Leads |-> [business |-> Unset, contact |-> Unset, life |-> "live"]]
    /\ clients \in [Businesses -> {"absent", "imported"}]
    /\ conversions = [l \in Leads |-> Unset]
    /\ roles = [r \in Roles |-> "absent"]
    /\ staff = [s \in Seats |-> "absent"]
    /\ calls = [c \in Callers |-> NoCall]
    /\ read = [l \in Leads |-> Unset]
    /\ missed = {}
    /\ owned = {}

-----------------------------------------------------------------------------
At(c, step) == calls[c].step = step
Goto(c, step) == calls' = [calls EXCEPT ![c].step = step]
Reply(c) == calls' = [calls EXCEPT ![c] = NoCall]
Others(c) == Callers \ {c}
Live(l) == leads[l].life = "live"

(* The business a call works on. *)
Firm(c) == calls[c].row[1]

-----------------------------------------------------------------------------
(* Leads                                                                     *)

UpdateLead(l, b, k) ==
    /\ Live(l)
    /\ leads' = [leads EXCEPT ![l] = [business |-> b, contact |-> k, life |-> "live"]]
    /\ UNCHANGED <<clients, conversions, roles, staff, calls, leadObservations>>

DeleteLead(l) ==
    /\ Live(l)
    /\ leads' = [leads EXCEPT ![l].life = "deleted"]
    /\ UNCHANGED <<clients, conversions, roles, staff, calls, leadObservations>>

-----------------------------------------------------------------------------
(* What transactions hold                                                    *)

(* The role a transaction has inserted: a conversion whose contact has one,  *)
(* or that has no contact, inserts none.                                     *)
HasInserted(c, r) ==
    /\ At(c, "conversion") \/ At(c, "commit")
    /\ calls[c].lead = Unset \/ calls[c].primary
    /\ calls[c].row = r

Cleared(c) == IF calls[c].step \in {"role", "conversion", "commit"} THEN calls[c].sees ELSE {}

(* A transaction whose update has started and that is to set a primary. *)
SetsPrimary(c, b) ==
    /\ calls[c].step \in {"lock", "role", "conversion", "commit"}
    /\ calls[c].primary
    /\ Firm(c) = b

Primaries(b) == {r \in Roles : r[1] = b /\ roles[r] = "primary"}

-----------------------------------------------------------------------------
(* assignContactRole: the check, then the transaction                        *)

AssignContactRole(c, b, k, t, primary) ==
    /\ At(c, "none")
    /\ roles[<<b, k, t>>] = "absent"
    /\ calls' = [calls EXCEPT ![c] = [NoCall EXCEPT !.step = IF primary THEN "clear" ELSE "role",
                                                    !.row = <<b, k, t>>, !.primary = primary]]
    /\ UNCHANGED <<crmTables, leadObservations>>

(* Fault: only the contact's own other roles are cleared. *)
ClearPrimaryOfContact(c) ==
    /\ At(c, "clear")
    /\ calls' = [calls EXCEPT ![c].step = "lock",
                              ![c].sees = {r \in Primaries(Firm(c)) : r[2] = calls[c].row[2]}]
    /\ UNCHANGED <<crmTables, leadObservations>>

(* clearPrimaryForBusiness starts, and sees what is committed. *)
ClearPrimary(c) ==
    /\ At(c, "clear")
    /\ calls' = [calls EXCEPT ![c].step = "lock", ![c].sees = Primaries(Firm(c))]
    /\ UNCHANGED <<crmTables, leadObservations>>

(* Fault: the update is not part of the transaction. *)
LockAndCommit(c) ==
    /\ At(c, "lock")
    /\ \A d \in Others(c) : Cleared(d) \intersect calls[c].sees = {}
    /\ roles' = [r \in Roles |-> IF r \in calls[c].sees THEN "plain" ELSE roles[r]]
    /\ calls' = [calls EXCEPT ![c].step = "role", ![c].sees = {}]
    /\ UNCHANGED <<leads, clients, conversions, staff, leadObservations>>

(* It gets the rows it saw, and writes those still primary. *)
LockPrimaries(c) ==
    /\ At(c, "lock")
    /\ \A d \in Others(c) : Cleared(d) \intersect calls[c].sees = {}
    /\ calls' = [calls EXCEPT ![c].step = "role",
                              ![c].sees = {r \in @ : roles[r] = "primary"}]
    /\ UNCHANGED <<crmTables, leadObservations>>

(* P2002 on business, contact and type rolls back. *)
InsertRole(c) ==
    /\ At(c, "role")
    /\ \A d \in Others(c) : ~HasInserted(d, calls[c].row)
    /\ IF roles[calls[c].row] # "absent" THEN Reply(c)
       ELSE Goto(c, IF calls[c].lead = Unset THEN "commit" ELSE "conversion")
    /\ UNCHANGED <<crmTables, leadObservations>>

-----------------------------------------------------------------------------
(* convertLead                                                               *)

(* The lead, its conversion and its business are read before the transaction. *)
ConvertLead(c, l) ==
    /\ At(c, "none")
    /\ Live(l)
    /\ conversions[l] = Unset
    /\ leads[l].business # Unset
    /\ calls' = [calls EXCEPT ![c] =
                   [NoCall EXCEPT !.step = "client", !.lead = l,
                                  !.row = <<leads[l].business, leads[l].contact, Representative>>]]
    /\ UNCHANGED <<crmTables, leadObservations>>

FindClient(c) ==
    /\ At(c, "client")
    /\ Goto(c, IF clients[Firm(c)] = "absent" THEN "newClient" ELSE "existing")
    /\ UNCHANGED <<crmTables, leadObservations>>

MadeClient(c, b) == calls[c].made /\ Firm(c) = b

(* Fault: the client is made outside the transaction. *)
CreateClientAtOnce(c) ==
    /\ At(c, "newClient")
    /\ IF clients[Firm(c)] # "absent" THEN Reply(c) ELSE Goto(c, "existing")
    /\ clients' = [clients EXCEPT ![Firm(c)] = IF @ = "absent" THEN "converted" ELSE @]
    /\ UNCHANGED <<leads, conversions, roles, staff, leadObservations>>

CreateClient(c) ==
    /\ At(c, "newClient")
    /\ \A d \in Others(c) : ~MadeClient(d, Firm(c))
    /\ IF clients[Firm(c)] # "absent" THEN Reply(c)
       ELSE calls' = [calls EXCEPT ![c].step = "existing", ![c].made = TRUE]
    /\ UNCHANGED <<crmTables, leadObservations>>

(* A contact without the role gets it, and becomes the primary one. *)
FindExistingRole(c) ==
    /\ At(c, "existing")
    /\ IF calls[c].row[2] = Unset \/ (calls[c].row \in Roles /\ roles[calls[c].row] # "absent")
       THEN Goto(c, "conversion")
       ELSE calls' = [calls EXCEPT ![c].step = "clear", ![c].primary = TRUE]
    /\ UNCHANGED <<crmTables, leadObservations>>

Converting(c, l, b) ==
    At(c, "commit") /\ calls[c].lead # Unset /\ (calls[c].lead = l \/ Firm(c) = b)
Converted(l, b) == conversions[l] # Unset \/ \E m \in Leads : conversions[m] = b

(* P2002 on the lead or on the client rolls back. *)
CreateConversion(c) ==
    LET l == calls[c].lead
    IN  /\ At(c, "conversion")
        /\ \A d \in Others(c) : ~Converting(d, l, Firm(c))
        /\ IF Converted(l, Firm(c)) THEN Reply(c) ELSE Goto(c, "commit")
        /\ UNCHANGED <<crmTables, leadObservations>>

-----------------------------------------------------------------------------
CommitTransaction(c) ==
    LET call == calls[c]
    IN  /\ At(c, "commit")
        /\ roles' = [r \in Roles |-> IF HasInserted(c, r)
                                     THEN IF call.primary THEN "primary" ELSE "plain"
                                     ELSE IF r \in call.sees THEN "plain" ELSE roles[r]]
        /\ clients' = IF call.made THEN [clients EXCEPT ![Firm(c)] = "converted"] ELSE clients
        /\ IF call.lead = Unset THEN UNCHANGED <<conversions, read>>
           ELSE /\ conversions' = [conversions EXCEPT ![call.lead] = Firm(c)]
                /\ read' = [read EXCEPT ![call.lead] = call.row[2]]
        /\ missed' = missed \union {{call.row, r} : r \in call.late}
        /\ calls' = [d \in Callers |->
                       IF d = c THEN NoCall
                       ELSE IF call.primary /\ SetsPrimary(d, Firm(c))
                       THEN [calls[d] EXCEPT !.late = @ \union {call.row}]
                       ELSE calls[d]]
        /\ UNCHANGED <<leads, staff, owned>>

-----------------------------------------------------------------------------
(* Staff of a lead: three statements on their own                            *)

Owners(l) == {s \in Seats : s[1] = l /\ staff[s] = "primary"}

AssignLeadUser(c, l, u, primary) ==
    /\ At(c, "none")
    /\ Live(l)
    /\ staff[<<l, u>>] = "absent"
    /\ calls' = [calls EXCEPT ![c] = [NoCall EXCEPT !.step = IF primary THEN "unown" ELSE "own",
                                                    !.row = <<l, u>>, !.primary = primary]]
    /\ UNCHANGED <<crmTables, leadObservations>>

(* Fault: an owner is cleared only if the lead is still live. *)
ClearOwnersIfLive(c) ==
    /\ At(c, "unown")
    /\ staff' = [s \in Seats |-> IF s \in Owners(calls[c].row[1]) /\ Live(calls[c].row[1])
                                 THEN "plain" ELSE staff[s]]
    /\ Goto(c, "own")
    /\ UNCHANGED <<leads, clients, conversions, roles, leadObservations>>

(* clearPrimaryForLead *)
ClearOwners(c) ==
    /\ At(c, "unown")
    /\ staff' = [s \in Seats |-> IF s \in Owners(calls[c].row[1]) THEN "plain" ELSE staff[s]]
    /\ Goto(c, "own")
    /\ UNCHANGED <<leads, clients, conversions, roles, leadObservations>>

(* A call between the two statements that are to change the owner of a lead. *)
ChangesOwner(c, l) == At(c, "own") /\ calls[c].primary /\ calls[c].row[1] = l

CreateAssignment(c) ==
    LET call == calls[c]
    IN  /\ At(c, "own")
        /\ staff[call.row] = "absent"
        /\ staff' = [staff EXCEPT ![call.row] = IF call.primary THEN "primary" ELSE "plain"]
        /\ missed' = missed \union {{call.row, s} : s \in call.late}
        /\ owned' = IF call.primary THEN owned \union {call.row[1]} ELSE owned
        /\ calls' = [d \in Callers |->
                       IF d = c THEN NoCall
                       ELSE IF call.primary /\ ChangesOwner(d, call.row[1])
                       THEN [calls[d] EXCEPT !.late = @ \union {call.row}]
                       ELSE calls[d]]
        /\ UNCHANGED <<leads, clients, conversions, roles, read>>

(* unassignLeadUser deletes the row it has found, by its id: gone meanwhile, *)
(* or gone and made again, it changes nothing.                               *)
UnassignLeadUser(l, u) ==
    /\ Live(l)
    /\ staff[<<l, u>>] # "absent"
    /\ staff' = [staff EXCEPT ![<<l, u>>] = "absent"]
    /\ owned' = IF Owners(l) = {<<l, u>>} THEN owned \ {l} ELSE owned
    /\ UNCHANGED <<leads, clients, conversions, roles, calls, read, missed>>

-----------------------------------------------------------------------------
(* A statement is refused (a user id that names nobody, a user assigned      *)
(* meanwhile, a deadlock, a transaction's time limit) or the process dies: a *)
(* transaction leaves nothing, and an owner cleared stays cleared.           *)
Stop(c) ==
    /\ ~At(c, "none")
    /\ owned' = IF At(c, "own") /\ calls[c].primary /\ Owners(calls[c].row[1]) = {}
                THEN owned \ {calls[c].row[1]} ELSE owned
    /\ Reply(c)
    /\ UNCHANGED <<crmTables, read, missed>>

-----------------------------------------------------------------------------
Request(c) ==
    \/ \E b \in Businesses, k \in Contacts, t \in Types, primary \in BOOLEAN :
          AssignContactRole(c, b, k, t, primary)
    \/ \E l \in Leads : ConvertLead(c, l)
    \/ \E l \in Leads, u \in Users, primary \in BOOLEAN : AssignLeadUser(c, l, u, primary)

Transact(c) ==
    \/ FindClient(c) \/ CreateClient(c) \/ FindExistingRole(c)
    \/ ClearPrimary(c) \/ LockPrimaries(c) \/ InsertRole(c)
    \/ CreateConversion(c)
    \/ CommitTransaction(c)

LeadNext ==
    \/ \E l \in Leads, b \in Businesses \union {Unset}, k \in Contacts \union {Unset} :
          UpdateLead(l, b, k)
    \/ \E l \in Leads : DeleteLead(l)
    \/ \E l \in Leads, u \in Users : UnassignLeadUser(l, u)
    \/ \E c \in Callers :
          Request(c) \/ Transact(c) \/ ClearOwners(c) \/ CreateAssignment(c) \/ Stop(c)

LeadSpec == LeadInit /\ [][LeadNext]_leadVars

-----------------------------------------------------------------------------
(* A business that has a primary contact never stops having one, whatever    *)
(* transactions overlap, wait for each other or roll back: contact.service   *)
(* "never briefly left with ... zero primary contacts".                      *)
PrimaryContactIsKept ==
    [][\A b \in Businesses : Primaries(b) # {} => Primaries(b)' # {}]_leadVars

(* Two contacts are primary for one business only if the one's transaction   *)
(* committed after the other's update had started; the next one to set a     *)
(* primary clears both.                                                      *)
TwoPrimariesOverlapped ==
    \A b \in Businesses : \A r, q \in Primaries(b) : r # q => {r, q} \in missed

(* A conversion is whole or not there: every client the firm did not import  *)
(* came of exactly one lead, every conversion has its client, and the        *)
(* contact it read in the lead represents the business.                      *)
ConversionIsWhole ==
    /\ \A b \in Businesses : clients[b] = "converted" => \E l \in Leads : conversions[l] = b
    /\ \A l, m \in Leads : conversions[l] = conversions[m] /\ conversions[l] # Unset => l = m
    /\ \A l \in Leads : conversions[l] # Unset =>
          /\ clients[conversions[l]] # "absent"
          /\ read[l] # Unset => roles[<<conversions[l], read[l], Representative>>] # "absent"

(* A lead has two owners only if both assignments cleared before either was  *)
(* made; and once it has one, it is without only while a new one is being    *)
(* made, or after the owner was unassigned or the making failed.             *)
OwnersAccountedFor ==
    \A l \in Leads :
        /\ \A s, t \in Owners(l) : s # t => {s, t} \in missed
        /\ l \in owned /\ Owners(l) = {} => \E c \in Callers : ChangesOwner(c, l)
=============================================================================
