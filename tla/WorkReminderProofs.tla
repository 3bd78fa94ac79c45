------------------------- MODULE WorkReminderProofs -------------------------
(***************************************************************************)
(* Theorems about WorkItems, for any number of calls in flight, and about  *)
(* ReminderScan, which reminds of work items, for any number of scans,     *)
(* days, subjects and users.  The two share no state and no definition.    *)
(***************************************************************************)
EXTENDS WorkItems, ReminderScan, TLAPS

(* WorkItems                                                               *)

(* What the calls in flight hold: a write goes along a move that was legal   *)
(* when it was read, and into the simple flow only with an approval; a       *)
(* deletion read a deletable status; the one audit record still to be        *)
(* written, if nothing went astray, names the status.                        *)
KindsKeepTheirStatuses == /\ item.began \in Starts[item.kind]
                          /\ item.status \in Statuses[item.kind]

WritesAreLegal ==
    \A c \in Calls :
        /\ calls[c].step = "write" => <<calls[c].read, calls[c].to>> \in Moves[item.kind]
        /\ calls[c].step = "delete" => calls[c].read \in Deletable[item.kind]

NeedsApproval(s) == item.began = "REQUESTED" /\ s \in (SimpleFlow \ {"CANCELLED"}) \union {"APPROVED"}
ApprovedBeforeUse == NeedsApproval(item.status) => item.approved = "yes"
WritesNeedApproval ==
    \A c \in Calls : calls[c].step = "write" /\ calls[c].to # "APPROVED" /\ NeedsApproval(calls[c].to)
                         => item.approved = "yes"

AuditFollowsStatus ==
    item.kind = "task" /\ astray = "no" /\ "life" \notin overtaken =>
        \A c, d \in Calls : calls[c].step = "audit" =>
            /\ calls[c].to = item.status
            /\ calls[d].step = "audit" => c = d

IInv == /\ TypeOK
        /\ KindsKeepTheirStatuses
        /\ WritesAreLegal
        /\ ApprovedBeforeUse
        /\ WritesNeedApproval
        /\ ClosedCarriesItsStamp
        /\ InconsistentOnlyIfOvertaken
        /\ AuditNamesStatus
        /\ AuditFollowsStatus

-----------------------------------------------------------------------------

LEMMA StatusesOf ==
  /\ \A k \in Kinds : Statuses[k] \subseteq AnyStatus /\ Starts[k] \subseteq Statuses[k]
  /\ "CANCELLED" \in AnyStatus /\ "IN_PROGRESS" \in AnyStatus /\ "REQUESTED" \in AnyStatus
<1>1. \A k \in Kinds : Statuses[k] \subseteq AnyStatus
  BY DEF AnyStatus
<1>2. \A k \in Kinds : Starts[k] \subseteq Statuses[k]
  BY DEF Starts, Statuses, Kinds, SimpleFlow, ApprovalFlow
<1>3. /\ "task" \in Kinds
      /\ {"CANCELLED", "IN_PROGRESS", "REQUESTED"} \subseteq Statuses["task"]
  BY DEF Statuses, Kinds, SimpleFlow, ApprovalFlow
<1> QED
  BY <1>1, <1>2, <1>3

(* What a legal move says of its two ends. *)
LEMMA Moved ==
  ASSUME NEW k \in Kinds, NEW s, NEW t, <<s, t>> \in Moves[k]
  PROVE  /\ s \in Statuses[k] /\ t \in Statuses[k]
         /\ k = "task" /\ t \in SimpleFlow \ {"CANCELLED"}
              => s \in (SimpleFlow \ {"CANCELLED"}) \union {"APPROVED"}
         /\ k = "task" => t # "ARCHIVED"
         /\ k = "project" => s # "ARCHIVED" /\ (t = "ARCHIVED" => s = "COMPLETED")
         /\ k = "request" => s = "PENDING" /\ t # "PENDING"
         /\ k = "approval" /\ t # "PENDING_APPROVAL"
              => t \in {"APPROVED", "REJECTED"} /\ <<s, t>> \in Decisions
<1>1. CASE k = "task"
  BY <1>1 DEF Moves, TaskMoves, Statuses, SimpleFlow, ApprovalFlow
<1>2. CASE k = "project"
  BY <1>2 DEF Moves, ProjectMoves, Archival, Statuses
<1>3. CASE k = "request"
  BY <1>3 DEF Moves, RequestMoves, Statuses
<1>4. CASE k = "approval"
  BY <1>4 DEF Moves, Requests, Decisions, Statuses
<1> QED
  BY <1>1, <1>2, <1>3, <1>4 DEF Kinds

LEMMA Taken ==
  ASSUME TypeOK, NEW c \in Calls, NEW to \in AnyStatus,
         NEW s \in {"recheck", "write", "delete", "restore"}, Take(c, s, to)
  PROVE  /\ calls' \in [Calls -> Call]
         /\ calls'[c] = [step |-> s, read |-> item.status, round |-> item.round, to |-> to]
         /\ \A d \in Calls \ {c} : calls'[d] = calls[d]
  BY DEF Take, At, TypeOK, Call, Item

LEMMA Replied ==
  ASSUME TypeOK, NEW c \in Calls, Reply(c)
  PROVE  /\ calls' \in [Calls -> Call]
         /\ calls'[c].step = "idle"
         /\ \A d \in Calls \ {c} : calls'[d] = calls[d]
  BY StatusesOf DEF Reply, Idle, TypeOK, Call

LEMMA Noted ==
  ASSUME NEW c \in Calls, NEW l, Note(c, l)
  PROVE  /\ overtaken \subseteq overtaken'
         /\ overtaken' \subseteq overtaken \union {"status", "life"}
         /\ "status" \notin overtaken' => calls[c].read = item.status /\ calls[c].round = item.round
         /\ "life" \notin overtaken' => item.life = l
  BY DEF Note, Changed

(* A write that lands makes this row, and moves its call on. *)
LEMMA WriteLands ==
  ASSUME TypeOK, KindsKeepTheirStatuses, WritesAreLegal, NEW c \in Calls, Write(c)
  PROVE  /\ <<calls[c].read, calls[c].to>> \in Moves[item.kind]
         /\ calls[c].to \in Statuses[item.kind]
         /\ item' \in Item
         /\ item.life # "live" => item' = item
         /\ item.life = "live" => item' = Written(c)
         /\ item'.kind = item.kind /\ item'.began = item.began /\ item'.life = item.life
         /\ calls' \in [Calls -> Call]
         /\ calls'[c].step = IF item.kind = "task" THEN "audit" ELSE "idle"
         /\ item.kind = "task" => calls'[c].to = calls[c].to
         /\ \A d \in Calls \ {c} : calls'[d] = calls[d]
<1>1. /\ <<calls[c].read, calls[c].to>> \in Moves[item.kind]
      /\ item.kind \in Kinds
      /\ calls[c] \in Call /\ item \in Item
  BY DEF Write, WritesAreLegal, TypeOK, Item
<1>2. calls[c].to \in Statuses[item.kind] /\ calls[c].to \in AnyStatus
  BY <1>1, Moved, StatusesOf
<1>3. Stamp(calls[c].read, calls[c].to) \in {"none", "set"}
  BY <1>1 DEF Stamp, Item, Kinds
<1>4. Written(c) \in Item
  BY <1>1, <1>2, <1>3 DEF Written, Item, Call
<1>5. /\ calls' \in [Calls -> Call]
      /\ calls'[c].step = IF item.kind = "task" THEN "audit" ELSE "idle"
      /\ item.kind = "task" => calls'[c].to = calls[c].to
      /\ \A d \in Calls \ {c} : calls'[d] = calls[d]
  <2>1. CASE item.kind = "task"
    BY <1>1, <2>1 DEF Write, TypeOK, Call
  <2>2. CASE item.kind # "task"
    BY <2>2, Replied DEF Write
  <2> QED
    BY <2>1, <2>2
<1>6. item.life = "live" => Written(c).life = item.life /\ Written(c).kind = item.kind /\ Written(c).began = item.began
  BY DEF Written
<1> QED
  BY <1>1, <1>2, <1>4, <1>5, <1>6 DEF Write

(* Taking a step that may be taken, and dropping out, keep the types. *)
LEMMA CallsKeepTypes ==
  ASSUME TypeOK, UNCHANGED <<item, last, overtaken>>, astray' \in {"no", "yes"},
         calls' \in [Calls -> Call]
  PROVE  TypeOK'
  BY DEF TypeOK

(* A call that has read the row, and may do what it read it for, keeps the       *)
(* invariant. *)
LEMMA TakingKeepsInvariant ==
  ASSUME IInv, NEW c \in Calls, NEW to \in AnyStatus,
         NEW s \in {"recheck", "write", "delete", "restore"},
         calls[c].step # "audit", Take(c, s, to),
         s = "write" => <<item.status, to>> \in Moves[item.kind],
         s = "delete" => item.status \in Deletable[item.kind],
         UNCHANGED <<item, last, overtaken, astray>>
  PROVE  IInv'
<1> USE DEF IInv
<1>1. /\ calls' \in [Calls -> Call]
      /\ calls'[c] = [step |-> s, read |-> item.status, round |-> item.round, to |-> to]
      /\ \A d \in Calls \ {c} : calls'[d] = calls[d]
  BY Taken
<1>2. TypeOK'
  BY <1>1, CallsKeepTypes DEF TypeOK
<1>3. /\ KindsKeepTheirStatuses' /\ ApprovedBeforeUse' /\ ClosedCarriesItsStamp'
      /\ InconsistentOnlyIfOvertaken'
  BY DEF KindsKeepTheirStatuses, ApprovedBeforeUse, NeedsApproval, ClosedCarriesItsStamp,
         InconsistentOnlyIfOvertaken, Consistent
<1>4. WritesAreLegal'
  BY <1>1 DEF WritesAreLegal
<1>5. WritesNeedApproval'
  <2>1. s = "write" /\ to # "APPROVED" /\ NeedsApproval(to) => NeedsApproval(item.status)
    <3> SUFFICES ASSUME s = "write", to # "APPROVED", NeedsApproval(to) PROVE NeedsApproval(item.status)
      OBVIOUS
    <3>1. item.kind = "task"
      BY DEF NeedsApproval, KindsKeepTheirStatuses, TypeOK, Item, Kinds, Starts
    <3> QED
      BY <3>1, Moved DEF NeedsApproval, Kinds
  <2> QED
    BY <1>1, <2>1 DEF WritesNeedApproval, ApprovedBeforeUse, NeedsApproval
<1>6. AuditNamesStatus' /\ AuditFollowsStatus'
  BY <1>1 DEF AuditNamesStatus, AuditFollowsStatus, Quiet
<1> QED
  BY <1>2, <1>3, <1>4, <1>5, <1>6

(* So does a call that is over, when it had nothing left to write. *)
LEMMA EndingKeepsInvariant ==
  ASSUME IInv, NEW c \in Calls, calls[c].step # "audit" \/ astray' = "yes",
         Reply(c), UNCHANGED <<item, last, overtaken>>, astray' \in {astray, "yes"}
  PROVE  IInv'
<1> USE DEF IInv
<1>1. /\ calls' \in [Calls -> Call]
      /\ calls'[c].step = "idle"
      /\ \A d \in Calls \ {c} : calls'[d] = calls[d]
  BY Replied
<1>2. TypeOK'
  BY <1>1, CallsKeepTypes DEF TypeOK
<1>3. /\ KindsKeepTheirStatuses' /\ ApprovedBeforeUse' /\ ClosedCarriesItsStamp'
      /\ InconsistentOnlyIfOvertaken'
  BY DEF KindsKeepTheirStatuses, ApprovedBeforeUse, NeedsApproval, ClosedCarriesItsStamp,
         InconsistentOnlyIfOvertaken, Consistent
<1>4. WritesAreLegal' /\ WritesNeedApproval'
  BY <1>1 DEF WritesAreLegal, WritesNeedApproval, NeedsApproval
<1>5. AuditNamesStatus' /\ AuditFollowsStatus'
  BY <1>1 DEF AuditNamesStatus, AuditFollowsStatus, Quiet
<1> QED
  BY <1>2, <1>3, <1>4, <1>5

LEMMA InitialTypes == Init => TypeOK
<1> SUFFICES ASSUME Init PROVE TypeOK
  OBVIOUS
<1>1. PICK k \in Kinds : \E s \in Starts[k] :
         item = Row(k, s) /\ last = IF k = "task" THEN s ELSE "CANCELLED"
  BY DEF Init
<1>2. PICK s \in Starts[k] : item = Row(k, s) /\ last = IF k = "task" THEN s ELSE "CANCELLED"
  BY <1>1
<1>3. item \in Item
  BY <1>2, StatusesOf DEF Row, Item
<1>4. last \in AnyStatus
  BY <1>2, StatusesOf
<1> QED
  BY <1>3, <1>4, StatusesOf DEF Init, TypeOK, Call, Idle

LEMMA StepKeepsTypes == TypeOK /\ KindsKeepTheirStatuses /\ WritesAreLegal /\ [Next]_vars => TypeOK'
<1> SUFFICES ASSUME TypeOK, KindsKeepTheirStatuses, WritesAreLegal, [Next]_vars PROVE TypeOK'
  OBVIOUS
<1> USE RoundsAssumption
        DEF TypeOK
<1>1. ASSUME NEW c \in Calls, NEW to \in Statuses[item.kind], BeginChange(c, to) PROVE TypeOK'
  <2>1. item.kind \in Kinds /\ to \in AnyStatus
    BY StatusesOf DEF Item
  <2> QED
    BY <1>1, <2>1, Taken, CallsKeepTypes DEF BeginChange
<1>2. ASSUME NEW c \in Calls, BeginReopen(c) PROVE TypeOK'
  BY <1>2, StatusesOf, Taken, CallsKeepTypes DEF BeginReopen
<1>3. ASSUME NEW c \in Calls, Recheck(c) PROVE TypeOK'
  <2>1. calls[c].to \in AnyStatus
    BY DEF Call
  <2> QED
    BY <1>3, <2>1, Taken, Replied, CallsKeepTypes DEF Recheck
<1>4. ASSUME NEW c \in Calls, BeginDelete(c) PROVE TypeOK'
  BY <1>4, Taken, CallsKeepTypes DEF BeginDelete, Item
<1>5. ASSUME NEW c \in Calls, BeginRestore(c) PROVE TypeOK'
  BY <1>5, Taken, CallsKeepTypes DEF BeginRestore, Item
<1>6. ASSUME NEW c \in Calls, Write(c) PROVE TypeOK'
  <2>1. item' \in Item /\ calls' \in [Calls -> Call]
    BY <1>6, WriteLands
  <2>2. overtaken' \subseteq {"status", "life"}
    BY <1>6, Noted DEF Write
  <2> QED
    BY <1>6, <2>1, <2>2 DEF Write
<1>7. ASSUME NEW c \in Calls, Delete(c) PROVE TypeOK'
  <2>1. item' \in Item
    BY <1>7 DEF Delete, Item
  <2>2. overtaken' \subseteq {"status", "life"}
    BY <1>7, Noted DEF Delete
  <2> QED
    BY <1>7, <2>1, <2>2, Replied DEF Delete
<1>8. ASSUME NEW c \in Calls, Restore(c) PROVE TypeOK'
  <2>1. item' \in Item
    BY <1>8 DEF Restore, Item
  <2>2. overtaken' \subseteq {"status", "life"}
    BY <1>8, Noted DEF Restore
  <2> QED
    BY <1>8, <2>1, <2>2, Replied DEF Restore
<1>9. ASSUME NEW c \in Calls, Audit(c) PROVE TypeOK'
  BY <1>9, Replied DEF Audit, Call, Item
<1>10. ASSUME NEW c \in Calls, Stop(c) PROVE TypeOK'
  BY <1>10, Replied, CallsKeepTypes DEF Stop
<1>11. CASE UNCHANGED vars
  BY <1>11 DEF vars
<1> QED
  BY <1>1, <1>2, <1>3, <1>4, <1>5, <1>6, <1>7, <1>8, <1>9, <1>10, <1>11 DEF Next

(* A step that leaves the variables of a conjunct alone leaves the conjunct true. *)
LEMMA Frame ==
    /\ KindsKeepTheirStatuses /\ UNCHANGED <<item>> => KindsKeepTheirStatuses'
    /\ WritesAreLegal /\ UNCHANGED <<calls, item>> => WritesAreLegal'
    /\ ApprovedBeforeUse /\ UNCHANGED <<item>> => ApprovedBeforeUse'
    /\ WritesNeedApproval /\ UNCHANGED <<calls, item>> => WritesNeedApproval'
    /\ ClosedCarriesItsStamp /\ UNCHANGED <<item>> => ClosedCarriesItsStamp'
    /\ InconsistentOnlyIfOvertaken /\ UNCHANGED <<item, overtaken>> => InconsistentOnlyIfOvertaken'
    /\ AuditNamesStatus /\ UNCHANGED <<item, calls, last, overtaken, astray>> => AuditNamesStatus'
    /\ AuditFollowsStatus /\ UNCHANGED <<item, calls, overtaken, astray>> => AuditFollowsStatus'
  BY DEF KindsKeepTheirStatuses, WritesAreLegal, ApprovedBeforeUse, WritesNeedApproval,
         ClosedCarriesItsStamp, InconsistentOnlyIfOvertaken, AuditNamesStatus,
         AuditFollowsStatus, NeedsApproval, Consistent, Quiet

LEMMA InvariantHoldsInitially == Init => IInv
<1> SUFFICES ASSUME Init PROVE IInv
  OBVIOUS
<1>1. PICK k \in Kinds : \E s \in Starts[k] :
         item = Row(k, s) /\ last = IF k = "task" THEN s ELSE "CANCELLED"
  BY DEF Init
<1>2. PICK s \in Starts[k] : item = Row(k, s) /\ last = IF k = "task" THEN s ELSE "CANCELLED"
  BY <1>1
<1>3. /\ item.kind = k /\ item.began = s /\ item.status = s /\ item.life = "live"
      /\ item.stamp = "none"
      /\ \A c \in Calls : calls[c].step = "idle"
  BY <1>2 DEF Row, Init, Idle
<1>4. KindsKeepTheirStatuses
  BY <1>3, StatusesOf DEF KindsKeepTheirStatuses
<1>5. WritesAreLegal /\ WritesNeedApproval /\ AuditFollowsStatus
  BY <1>3 DEF WritesAreLegal, WritesNeedApproval, AuditFollowsStatus
<1>6. AuditNamesStatus
  BY <1>2, <1>3 DEF AuditNamesStatus
<1>7. ApprovedBeforeUse /\ ClosedCarriesItsStamp /\ InconsistentOnlyIfOvertaken
  BY <1>3 DEF ApprovedBeforeUse, NeedsApproval, ClosedCarriesItsStamp, StampedIn, Starts, Kinds,
              InconsistentOnlyIfOvertaken, Consistent, SimpleFlow
<1> QED
  BY <1>4, <1>5, <1>6, <1>7, InitialTypes DEF IInv

(* One step per action, and under it one per conjunct the action disturbs. *)
LEMMA StepKeepsInvariant == IInv /\ [Next]_vars => IInv'
<1> SUFFICES ASSUME IInv, [Next]_vars PROVE IInv'
  OBVIOUS
<1> USE DEF IInv, TypeOK
<1>1. ASSUME NEW c \in Calls, NEW to \in Statuses[item.kind], BeginChange(c, to) PROVE IInv'
  <2>1. item.kind \in Kinds /\ to \in AnyStatus
    BY StatusesOf DEF Item
  <2> QED
    BY <1>1, <2>1, TakingKeepsInvariant DEF BeginChange, Allowed
<1>2. ASSUME NEW c \in Calls, BeginReopen(c) PROVE IInv'
  BY <1>2, StatusesOf, TakingKeepsInvariant DEF BeginReopen
<1>3. ASSUME NEW c \in Calls, Recheck(c) PROVE IInv'
  <2>1. calls[c].to \in AnyStatus
    BY DEF Call
  <2> QED
    BY <1>3, <2>1, TakingKeepsInvariant, EndingKeepsInvariant DEF Recheck, Allowed
<1>4. ASSUME NEW c \in Calls, BeginDelete(c) PROVE IInv'
  BY <1>4, TakingKeepsInvariant DEF BeginDelete, Item
<1>5. ASSUME NEW c \in Calls, BeginRestore(c) PROVE IInv'
  BY <1>5, TakingKeepsInvariant DEF BeginRestore, Item
<1>6. ASSUME NEW c \in Calls, Write(c) PROVE IInv'
  <2>a. /\ <<calls[c].read, calls[c].to>> \in Moves[item.kind]
        /\ calls[c].to \in Statuses[item.kind]
        /\ item.life # "live" => item' = item
        /\ item.life = "live" => item' = Written(c)
        /\ item'.kind = item.kind /\ item'.began = item.began /\ item'.life = item.life
        /\ calls' \in [Calls -> Call]
        /\ calls'[c].step = IF item.kind = "task" THEN "audit" ELSE "idle"
        /\ item.kind = "task" => calls'[c].to = calls[c].to
        /\ \A d \in Calls \ {c} : calls'[d] = calls[d]
    BY <1>6, WriteLands
  <2>b. item.kind \in Kinds
    BY DEF Item
  <2>c. /\ overtaken \subseteq overtaken'
        /\ "status" \notin overtaken' => calls[c].read = item.status /\ calls[c].round = item.round
        /\ "life" \notin overtaken' => item.life = "live"
    BY <1>6, Noted DEF Write
  <2>d. item.life = "live" => /\ item'.status = calls[c].to
                              /\ item'.stamp = Stamp(calls[c].read, calls[c].to)
                              /\ item'.approved = IF item.kind = "task" /\ calls[c].to = "APPROVED"
                                                  THEN "yes" ELSE item.approved
                              /\ item'.round = IF calls[c].to = "PENDING_APPROVAL"
                                               THEN item.round + 1 ELSE item.round
                              /\ item'.judged = IF <<calls[c].read, calls[c].to>> \in Decisions
                                                THEN calls[c].round ELSE item.judged
    BY <2>a DEF Written
  <2>e. item.began = "REQUESTED" => item.kind = "task"
    BY <2>b DEF KindsKeepTheirStatuses, Kinds, Starts
  <2>1. KindsKeepTheirStatuses'
    BY <2>a, <2>d DEF KindsKeepTheirStatuses
  <2>2. WritesAreLegal'
    BY <2>a DEF WritesAreLegal
  <2>3. ApprovedBeforeUse'
    <3>1. CASE item.life # "live"
      BY <2>a, <3>1 DEF ApprovedBeforeUse, NeedsApproval
    <3>2. CASE item.life = "live"
      BY <1>6, <2>a, <2>d, <2>e, <3>2 DEF ApprovedBeforeUse, NeedsApproval, WritesNeedApproval, Write
    <3> QED
      BY <3>1, <3>2
  <2>4. WritesNeedApproval'
    <3>1. item.approved = "yes" => item'.approved = "yes"
      BY <2>a, <2>d
    <3> QED
      BY <2>a, <3>1 DEF WritesNeedApproval, NeedsApproval
  <2>5. ClosedCarriesItsStamp'
    <3>1. CASE item.life # "live"
      BY <2>a, <3>1 DEF ClosedCarriesItsStamp
    <3>2. CASE item.life = "live" /\ item.kind \in {"task", "project"}
      <4>1. calls[c].to # "FULFILLED"
        BY <2>a, <3>2 DEF Statuses, SimpleFlow, ApprovalFlow
      <4> QED
        BY <2>a, <2>d, <3>2, <4>1 DEF ClosedCarriesItsStamp, Stamp
    <3>3. CASE item.life = "live" /\ item.kind = "request"
      <4>1. calls[c].to # "COMPLETED"
        BY <2>a, <3>3 DEF Statuses
      <4> QED
        BY <2>a, <2>d, <3>3, <4>1 DEF ClosedCarriesItsStamp, Stamp
    <3>4. CASE item.life = "live" /\ item.kind = "approval"
      BY <2>a, <2>b, <2>d, <3>4, Moved DEF ClosedCarriesItsStamp, Stamp
    <3> QED
      BY <2>b, <3>1, <3>2, <3>3, <3>4 DEF Kinds
  <2>6. InconsistentOnlyIfOvertaken'
    <3> SUFFICES ASSUME "status" \notin overtaken' PROVE Consistent'
      BY DEF InconsistentOnlyIfOvertaken
    <3>1. Consistent /\ calls[c].read = item.status /\ calls[c].round = item.round
      BY <2>c DEF InconsistentOnlyIfOvertaken
    <3>2. CASE item.life # "live"
      BY <2>a, <3>1, <3>2 DEF Consistent
    <3>3. CASE item.life = "live" /\ item.kind = "task"
      BY <2>a, <2>b, <2>d, <3>1, <3>3, Moved DEF Consistent, Stamp, StampedIn
    <3>4. CASE item.life = "live" /\ item.kind = "project"
      BY <2>a, <2>b, <2>d, <3>1, <3>4, Moved DEF Consistent, Stamp, StampedIn
    <3>5. CASE item.life = "live" /\ item.kind = "request"
      BY <2>a, <2>b, <2>d, <3>1, <3>5, Moved DEF Consistent, Stamp, StampedIn
    <3>6. CASE item.life = "live" /\ item.kind = "approval"
      BY <2>a, <2>b, <2>d, <3>1, <3>6, Moved DEF Consistent, Stamp, StampedIn
    <3> QED
      BY <2>b, <3>2, <3>3, <3>4, <3>5, <3>6 DEF Item, Kinds
  <2>7. AuditNamesStatus'
    BY <2>a DEF AuditNamesStatus, Quiet
  <2>8. AuditFollowsStatus'
    <3> SUFFICES ASSUME item'.kind = "task", astray' = "no", "life" \notin overtaken'
                 PROVE  \A e, d \in Calls : calls'[e].step = "audit" =>
                            /\ calls'[e].to = item'.status
                            /\ calls'[d].step = "audit" => e = d
      BY DEF AuditFollowsStatus
    <3>1. \A d \in Calls : calls[d].step # "audit"
      BY <1>6 DEF Write
    <3>2. item.life = "live"
      BY <2>c
    <3> QED
      BY <2>a, <2>d, <3>1, <3>2
  <2> QED
    BY <2>1, <2>2, <2>3, <2>4, <2>5, <2>6, <2>7, <2>8, StepKeepsTypes
<1>7. ASSUME NEW c \in Calls, Delete(c) PROVE IInv'
  <2>a. /\ calls' \in [Calls -> Call]
        /\ calls'[c].step = "idle" /\ calls[c].step # "audit"
        /\ \A d \in Calls \ {c} : calls'[d] = calls[d]
    BY <1>7, Replied DEF Delete
  <2>b. /\ item'.kind = item.kind /\ item'.began = item.began /\ item'.status = item.status
        /\ item'.stamp = item.stamp /\ item'.approved = item.approved
        /\ item'.round = item.round /\ item'.judged = item.judged
        /\ item'.life = "deleted"
    BY <1>7 DEF Delete, Item
  <2>c. /\ overtaken \subseteq overtaken'
        /\ "status" \notin overtaken' => calls[c].read = item.status
        /\ UNCHANGED <<last, astray>>
    BY <1>7, Noted DEF Delete
  <2>1. KindsKeepTheirStatuses'
    BY <2>a, <2>b, <2>c DEF KindsKeepTheirStatuses
  <2>2. WritesAreLegal'
    BY <2>a, <2>b, <2>c DEF WritesAreLegal
  <2>3. ApprovedBeforeUse'
    BY <2>a, <2>b, <2>c DEF ApprovedBeforeUse, NeedsApproval
  <2>4. WritesNeedApproval'
    BY <2>a, <2>b, <2>c DEF WritesNeedApproval, NeedsApproval
  <2>5. ClosedCarriesItsStamp'
    BY <2>a, <2>b, <2>c DEF ClosedCarriesItsStamp
  <2>6. InconsistentOnlyIfOvertaken'
    <3>1. "status" \notin overtaken' => item.status \in Deletable[item.kind]
      BY <1>7, <2>c DEF Delete, WritesAreLegal
    <3> QED
      BY <2>b, <2>c, <3>1 DEF InconsistentOnlyIfOvertaken, Consistent
  <2>7. AuditNamesStatus'
    BY <2>a, <2>b, <2>c DEF AuditNamesStatus, Quiet
  <2>8. AuditFollowsStatus'
    BY <2>a, <2>b, <2>c DEF AuditFollowsStatus
  <2> QED
    BY <2>1, <2>2, <2>3, <2>4, <2>5, <2>6, <2>7, <2>8, StepKeepsTypes
<1>8. ASSUME NEW c \in Calls, Restore(c) PROVE IInv'
  <2>a. /\ calls' \in [Calls -> Call]
        /\ calls'[c].step = "idle" /\ calls[c].step # "audit"
        /\ \A d \in Calls \ {c} : calls'[d] = calls[d]
    BY <1>8, Replied DEF Restore
  <2>b. /\ item'.kind = item.kind /\ item'.began = item.began /\ item'.status = item.status
        /\ item'.stamp = item.stamp /\ item'.approved = item.approved
        /\ item'.round = item.round /\ item'.judged = item.judged
        /\ item'.life = "live"
    BY <1>8 DEF Restore, Item
  <2>c. /\ overtaken \subseteq overtaken'
        /\ "status" \notin overtaken' => calls[c].read = item.status
        /\ UNCHANGED <<last, astray>>
    BY <1>8, Noted DEF Restore
  <2>1. KindsKeepTheirStatuses'
    BY <2>a, <2>b, <2>c DEF KindsKeepTheirStatuses
  <2>2. WritesAreLegal'
    BY <2>a, <2>b, <2>c DEF WritesAreLegal
  <2>3. ApprovedBeforeUse'
    BY <2>a, <2>b, <2>c DEF ApprovedBeforeUse, NeedsApproval
  <2>4. WritesNeedApproval'
    BY <2>a, <2>b, <2>c DEF WritesNeedApproval, NeedsApproval
  <2>5. ClosedCarriesItsStamp'
    BY <2>a, <2>b, <2>c DEF ClosedCarriesItsStamp
  <2>6. InconsistentOnlyIfOvertaken'
    BY <1>8, <2>a, <2>b, <2>c DEF InconsistentOnlyIfOvertaken, Consistent, Restore, WritesAreLegal
  <2>7. AuditNamesStatus'
    BY <2>a, <2>b, <2>c DEF AuditNamesStatus, Quiet
  <2>8. AuditFollowsStatus'
    BY <2>a, <2>b, <2>c DEF AuditFollowsStatus
  <2> QED
    BY <2>1, <2>2, <2>3, <2>4, <2>5, <2>6, <2>7, <2>8, StepKeepsTypes
<1>9. ASSUME NEW c \in Calls, Audit(c) PROVE IInv'
  <2>a. /\ calls[c].step = "audit" /\ last' = calls[c].to
        /\ UNCHANGED <<item, overtaken, astray>>
        /\ calls'[c].step = "idle"
        /\ \A d \in Calls \ {c} : calls'[d] = calls[d]
    BY <1>9, Replied DEF Audit
  <2>1. KindsKeepTheirStatuses' /\ ApprovedBeforeUse' /\ ClosedCarriesItsStamp'
        /\ InconsistentOnlyIfOvertaken'
    BY <1>9, Frame DEF Audit
  <2>2. WritesAreLegal'
    BY <1>9, Replied DEF Audit, WritesAreLegal, NeedsApproval
  <2>3. WritesNeedApproval'
    BY <1>9, Replied DEF Audit, WritesNeedApproval, NeedsApproval
  <2>4. AuditNamesStatus'
    BY <2>a DEF AuditNamesStatus, AuditFollowsStatus, Quiet
  <2>5. AuditFollowsStatus'
    BY <2>a DEF AuditFollowsStatus
  <2> QED
    BY <2>1, <2>2, <2>3, <2>4, <2>5, StepKeepsTypes
<1>10. ASSUME NEW c \in Calls, Stop(c) PROVE IInv'
  BY <1>10, EndingKeepsInvariant DEF Stop
<1>11. CASE UNCHANGED vars
  BY <1>11, Frame, StepKeepsTypes DEF vars
<1> QED
  BY <1>1, <1>2, <1>3, <1>4, <1>5, <1>6, <1>7, <1>8, <1>9, <1>10, <1>11 DEF Next

--------------------------------------------------------------------------------
(* The invariant of all the proofs holds in every reachable state. *)
THEOREM InvariantCorrect == Spec => []IInv
  BY InvariantHoldsInitially, StepKeepsInvariant, PTL DEF Spec

(* No interleaving of any number of calls closes a row without its stamp. *)
THEOREM ClosedIsStamped == Spec => []ClosedCarriesItsStamp
  BY InvariantCorrect, PTL DEF IInv

(* A task of the approval workflow is never completed unapproved, however its    *)
(* transitions overlap. *)
THEOREM NoCompletionUnapproved == Spec => []CompletionNeedsApproval
<1>1. IInv => CompletionNeedsApproval
  BY DEF IInv, CompletionNeedsApproval, ApprovedBeforeUse, NeedsApproval
<1> QED
  BY <1>1, InvariantCorrect, PTL

(* Every inconsistent row is the work of a write that was overtaken. *)
THEOREM ConsistentUnlessOvertaken == Spec => []InconsistentOnlyIfOvertaken
  BY InvariantCorrect, PTL DEF IInv

(* The last audit record names the status, with the named exceptions. *)
THEOREM AuditIsTrue == Spec => []AuditNamesStatus
  BY InvariantCorrect, PTL DEF IInv

(* A closed status is left by an overtaken write only.                           *)
THEOREM FinalIsFinal == Spec => FinalUnlessOvertaken
<1> DEFINE Stays == item.status \in Final /\ item'.status # item.status => "status" \in overtaken'
<1>1. IInv /\ [Next]_vars => Stays
  <2> SUFFICES ASSUME IInv, Next, item.status \in Final, item'.status # item.status,
                      "status" \notin overtaken'
               PROVE  FALSE
    BY DEF vars
  <2>1. PICK c \in Calls : Write(c)
    <3>1. PICK c \in Calls :
            \/ \E to \in Statuses[item.kind] : BeginChange(c, to)
            \/ BeginReopen(c) \/ Recheck(c) \/ BeginDelete(c) \/ BeginRestore(c)
            \/ Write(c) \/ Delete(c) \/ Restore(c) \/ Audit(c) \/ Stop(c)
      BY DEF Next
    <3>2. ~Delete(c) /\ ~Restore(c)
      BY DEF Delete, Restore, IInv, TypeOK, Item
    <3> QED
      BY <3>1, <3>2 DEF BeginChange, BeginReopen, Recheck, BeginDelete, BeginRestore, Audit, Stop
  <2>2. <<item.status, calls[c].to>> \in Moves[item.kind]
    BY <2>1, WriteLands, Noted DEF IInv, Write
  <2>3. item.kind \in Kinds
    BY DEF IInv, TypeOK, Item
  <2> QED
    BY <2>2, <2>3 DEF Kinds, Final, Moves, TaskMoves, ProjectMoves, Archival, RequestMoves, Requests, Decisions
<1> QED
  BY <1>1, InvariantCorrect, PTL DEF Spec, FinalUnlessOvertaken

-----------------------------------------------------------------------------
(* ReminderScan                                                            *)

(* The inductive invariant                                                   *)

(* The users of a subject are looked up once, nobody is left to remind whose *)
(* row the scan has found, nor whom it has just reminded, and no reminder    *)
(* is to be recorded that did not go out.                                    *)
WorkIsSound ==
    \A r \in Runs :
        /\ runs[r].step = "idle" => runs[r].work = {}
        /\ runs[r].work \intersect runs[r].known = {}
        /\ \A p \in runs[r].work : p[2] # None => <<p[1], None>> \notin runs[r].work
        /\ runs[r].step = "record" =>
              /\ runs[r].subject \in Subjects /\ runs[r].user \in Users
              /\ <<runs[r].subject, runs[r].user>> \notin Pairs(runs[r].work, runs[r].known)
              /\ Recorded(r) \in sent

(* What a scan is still to dispatch is in no ledger, and what it has in hand *)
(* no other scan has, unless the two loaded it side by side.                 *)
RacesAreSeen ==
    /\ \A r \in Runs :
          ToSend(runs[r].work, runs[r].known, runs[r].type, runs[r].now) \intersect ledger \subseteq raced
    /\ \A r, q \in Runs : r # q => InHand(r) \intersect InHand(q) \subseteq raced

(* What a scan has read is still so, until an edit or a midnight.            *)
FreshScansAreApt ==
    \A r \in Runs : ~runs[r].stale =>
        \A p \in runs[r].work : /\ subjects[p[1]].open
                                /\ InWindow(runs[r].type, subjects[p[1]].due, day)
                                /\ p[2] # None => p[2] \in subjects[p[1]].holders

ReminderInv == /\ ReminderTypeOK /\ WorkIsSound /\ RacesAreSeen /\ FreshScansAreApt
               /\ LedgerTellsWhatWasSent /\ TwiceForAReason

-----------------------------------------------------------------------------

(* Weeks do not go backwards. *)
LEMMA WeeksGrow ==
    ASSUME NEW d \in Days
    PROVE  Week(d) \in 0 .. Week(LastDay)
<1> DEFINE W == WeekLength  a == d \div W  b == LastDay \div W
<1>1. W \in Nat /\ W > 0 /\ LastDay \in Nat /\ d \in Nat /\ d <= LastDay
  BY DaysAssumption DEF Days
<1>2. a \in Nat /\ b \in Nat
  BY <1>1
<1>3. a <= b
  BY <1>1, <1>2
<1> QED
  BY <1>2, <1>3 DEF Week

LEMMA KeysAreTyped ==
    ASSUME NEW s \in Subjects, NEW u \in Users, NEW d \in Days,
           NEW t \in TaskNotice \union OtherNotice \union {Overdue}
    PROVE  Key(s, u, t, d) \in Keys
<1>1. 0 \in 0 .. Week(LastDay)
  BY DaysAssumption, WeeksGrow DEF Days, Week
<1> QED
  BY <1>1, WeeksGrow DEF Key, Keys, Bucket

LEMMA ReminderInitialTypes == ReminderInit => ReminderTypeOK
<1> SUFFICES ASSUME ReminderInit PROVE ReminderTypeOK
  OBVIOUS
<1>1. 0 \in Days
  BY DaysAssumption DEF Days
<1>2. NoScan \in Run
  BY <1>1 DEF NoScan, Run
<1>3. Crews \subseteq SUBSET Users
  BY DEF Crews
<1>4. subjects \in [Subjects -> [due : DueDays, open : BOOLEAN, holders : SUBSET Users]]
  <2>1. subjects \in [Subjects -> [due : DueDays, open : {TRUE}, holders : Crews]]
    BY DEF ReminderInit
  <2>2. \A s \in Subjects : subjects[s] \in [due : DueDays, open : BOOLEAN, holders : SUBSET Users]
    BY <1>3, <2>1
  <2> QED
    BY <2>1, <2>2
<1>5. runs \in [Runs -> Run]
  BY <1>2 DEF ReminderInit
<1> QED
  BY <1>1, <1>4, <1>5, BoundsAssumption DEF ReminderInit, ReminderTypeOK

(* What a scan has in hand is keyed by its subjects and users. *)
LEMMA HandsAreTyped ==
    ASSUME ReminderTypeOK, NEW work, NEW known,
           NEW t \in TaskNotice \union OtherNotice \union {Overdue}, NEW d \in Days
    PROVE  ToSend(work, known, t, d) \subseteq Keys
<1> SUFFICES ASSUME NEW k \in ToSend(work, known, t, d) PROVE k \in Keys
  OBVIOUS
<1>1. PICK p \in Pairs(work, known) : k = Key(p[1], p[2], t, d)
  BY DEF ToSend
<1>2. p[1] \in Subjects /\ p[2] \in Users
  BY DEF Pairs
<1> QED
  BY <1>1, <1>2, KeysAreTyped

LEMMA ReminderKeepsTypes ==
    ReminderTypeOK /\ WorkIsSound /\ [ReminderNext]_reminderVars => ReminderTypeOK'
<1> SUFFICES ASSUME ReminderTypeOK, WorkIsSound, [ReminderNext]_reminderVars
             PROVE  ReminderTypeOK'
  OBVIOUS
<1> USE DaysAssumption, BoundsAssumption DEF ReminderTypeOK, world, seen, Put, Days
<1>0. /\ NoScan \in Run
      /\ \A r \in Runs : runs[r] \in Run
  BY DEF NoScan, Run
<1>a. \A r \in Runs : \A x : x \in Run => [runs EXCEPT ![r] = x] \in [Runs -> Run]
  OBVIOUS
<1>b. \A r \in Runs : runs[r].step = "record" => Recorded(r) \in Keys
  BY <1>0, KeysAreTyped DEF WorkIsSound, Recorded, Run
<1>c. \A r \in Runs : [runs[r] EXCEPT !.step = "send", !.subject = None, !.user = None] \in Run
  BY <1>0 DEF Run
<1>1. ASSUME NEW r \in Runs, Start(r) PROVE ReminderTypeOK'
  <2>1. [NoScan EXCEPT !.step = "send", !.now = day, !.left = Types] \in Run
    BY DEF NoScan, Run, Types, Notice
  <2> QED
    BY <1>1, <1>a, <2>1 DEF Start
<1>2. ASSUME NEW r \in Runs, NEW t \in Types, Load(r, t) PROVE ReminderTypeOK'
  <2> DEFINE x == runs[r]
             due == Candidates(t, x.now)
             known == AlreadySent(t, x.now)
             work == IF weekly THEN due \X {None}
                     ELSE (UNION {{s} \X subjects[s].holders : s \in due}) \ known
             mine == ToSend(work, known, t, x.now)
             y == [x EXCEPT !.type = t, !.left = x.left \ {t}, !.work = work,
                            !.known = known, !.stale = x.now # day]
  <2>1. t \in TaskNotice \union OtherNotice \union {Overdue} /\ x.now \in Days
    BY <1>0 DEF Types, Notice, Run
  <2>2. known \subseteq Subjects \X Users
    BY DEF AlreadySent, Keys
  <2>3. work \subseteq Subjects \X (Users \union {None})
    BY DEF Candidates
  <2>4. y \in Run
    <3>1. x \in Run /\ x.left \ {t} \in SUBSET (TaskNotice \union OtherNotice \union {Overdue})
      BY <1>0 DEF Run
    <3> HIDE DEF x, work, known
    <3> DEFINE b == x.now # day
    <3>2. b \in BOOLEAN
      OBVIOUS
    <3> HIDE DEF b
    <3>3. [x EXCEPT !.type = t, !.left = x.left \ {t}, !.work = work, !.known = known, !.stale = b] \in Run
      BY <2>1, <2>2, <2>3, <3>1, <3>2 DEF Run
    <3> QED
      BY <3>3 DEF b
  <2>5. mine \subseteq Keys
    BY <2>1, HandsAreTyped
  <2>6. UNCHANGED <<weekly, world, ledger, jobs, faults, sent, twice, loose>>
    BY <1>2 DEF Load
  <2>7. runs' = [runs EXCEPT ![r] = y]
    BY <1>2 DEF Load
  <2>8. raced' = raced \union (mine \intersect UNION {InHand(q) : q \in Runs \ {r}})
    BY <1>2 DEF Load
  <2> HIDE DEF y, mine
  <2> QED
    BY <1>a, <2>4, <2>5, <2>6, <2>7, <2>8
<1>3. ASSUME NEW r \in Runs, NEW s \in Subjects, Resolve(r, s) PROVE ReminderTypeOK'
  <2> DEFINE w == (runs[r].work \ {<<s, None>>}) \union (({s} \X subjects[s].holders) \ runs[r].known)
  <2>1. w \subseteq Subjects \X (Users \union {None})
    BY <1>0 DEF Run
  <2>2. [runs[r] EXCEPT !.work = w] \in Run
    BY <1>0, <2>1 DEF Run
  <2> QED
    BY <1>3, <1>a, <2>2 DEF Resolve
<1>4. ASSUME NEW r \in Runs, NEW s \in Subjects, NEW u \in Users, Dispatch(r, s, u)
      PROVE ReminderTypeOK'
  <2>1. [runs[r] EXCEPT !.step = "record", !.work = runs[r].work \ {<<s, u>>},
                        !.subject = s, !.user = u] \in Run
    BY <1>0 DEF Run
  <2>2. Key(s, u, runs[r].type, runs[r].now) \in Keys
    BY <1>0, KeysAreTyped DEF Run
  <2> QED
    BY <1>4, <1>a, <2>1, <2>2 DEF Dispatch
<1>5. ASSUME NEW r \in Runs, NEW s \in Subjects, NEW u \in Users, DispatchFails(r, s, u)
      PROVE ReminderTypeOK'
  <2>1. [runs[r] EXCEPT !.work = runs[r].work \ {<<s, u>>}] \in Run
    BY <1>0 DEF Run
  <2>2. Key(s, u, runs[r].type, runs[r].now) \in Keys
    BY <1>0, KeysAreTyped DEF Run
  <2>3. sent' \subseteq Keys /\ twice' \subseteq Keys /\ loose' \subseteq Keys
    BY <1>5, <2>2 DEF DispatchFails
  <2> QED
    BY <1>5, <1>a, <2>1, <2>3 DEF DispatchFails, Fault
<1>6. ASSUME NEW r \in Runs, Record(r) PROVE ReminderTypeOK'
  BY <1>6, <1>a, <1>b, <1>c DEF Record, Sent
<1>7. ASSUME NEW r \in Runs, RecordFails(r) PROVE ReminderTypeOK'
  <2>1. runs' \in [Runs -> Run]
    BY <1>7, <1>a, <1>c DEF RecordFails, Sent
  <2>2. loose' \subseteq Keys
    BY <1>7, <1>b DEF RecordFails
  <2> QED
    BY <1>7, <2>1, <2>2 DEF RecordFails, Fault
<1>8. ASSUME NEW r \in Runs, End(r) PROVE ReminderTypeOK'
  BY <1>8, <1>a, <1>0 DEF End
<1>9. ASSUME NEW r \in Runs, Crash(r) PROVE ReminderTypeOK'
  BY <1>9, <1>a, <1>b, <1>0 DEF Crash, Fault
<1>10. ASSUME NEW r \in Runs, Stall(r) PROVE ReminderTypeOK'
  BY <1>10 DEF Stall, Fault
<1>d. Aged => runs' \in [Runs -> Run]
  <2>1. \A r \in Runs : [runs[r] EXCEPT !.stale = ~Waits(r)] \in Run
    BY <1>0 DEF Run, Waits
  <2> QED
    BY <2>1 DEF Aged
<1>11. CASE Tick
  BY <1>11, <1>d DEF Tick
<1>12. ASSUME NEW s \in Subjects, Edit(s) PROVE ReminderTypeOK'
  <2>1. subjects' \in [Subjects -> [due : DueDays, open : BOOLEAN, holders : SUBSET Users]]
    <3> DEFINE S == [due : DueDays, open : BOOLEAN, holders : SUBSET Users]
    <3>1. subjects[s] \in S
      OBVIOUS
    <3>2. \A z \in S : [subjects EXCEPT ![s] = z] \in [Subjects -> S]
      OBVIOUS
    <3>3. ASSUME NEW d \in DueDays PROVE [subjects[s] EXCEPT !.due = d] \in S
      BY <3>1
    <3>4. [subjects[s] EXCEPT !.open = ~subjects[s].open] \in S
      BY <3>1
    <3>5. ASSUME NEW h \in Crews PROVE [subjects[s] EXCEPT !.holders = h] \in S
      BY <3>1 DEF Crews
    <3>6. \/ \E d \in DueDays : subjects' = [subjects EXCEPT ![s] = [subjects[s] EXCEPT !.due = d]]
          \/ subjects' = [subjects EXCEPT ![s] = [subjects[s] EXCEPT !.open = ~subjects[s].open]]
          \/ \E h \in Crews : subjects' = [subjects EXCEPT ![s] = [subjects[s] EXCEPT !.holders = h]]
      BY <1>12 DEF Edit
    <3> HIDE DEF S
    <3>7. \E z \in S : subjects' = [subjects EXCEPT ![s] = z]
      BY <3>3, <3>4, <3>5, <3>6
    <3>8. subjects' \in [Subjects -> S]
      BY <3>2, <3>7
    <3> QED
      BY <3>8 DEF S
  <2> QED
    BY <1>12, <1>d, <2>1 DEF Edit
<1>13. CASE UNCHANGED reminderVars
  BY <1>13 DEF reminderVars
<1> QED
  BY <1>1, <1>2, <1>3, <1>4, <1>5, <1>6, <1>7, <1>8, <1>9, <1>10, <1>11, <1>12, <1>13
     DEF ReminderNext, RunStep, Trouble

-----------------------------------------------------------------------------
(* What a scan x has in hand, with the form w of the scans as a parameter,   *)
(* so that it reads the same before a step and after it.                     *)
KeyIn(w, s, u, t, d) == [subject |-> s, user |-> u, type |-> t,
                         bucket |-> IF w /\ t = Overdue THEN Week(d) ELSE 0]
ToSendIn(w, x) == {KeyIn(w, p[1], p[2], x.type, x.now) : p \in Pairs(x.work, x.known)}
RecordedIn(w, x) == KeyIn(w, x.subject, x.user, x.type, x.now)
HandIn(w, x) == ToSendIn(w, x) \union (IF x.step = "record" THEN {RecordedIn(w, x)} ELSE {})

SoundIn(w, x, z) ==
    /\ x.step = "idle" => x.work = {}
    /\ x.work \intersect x.known = {}
    /\ \A p \in x.work : p[2] # None => <<p[1], None>> \notin x.work
    /\ x.step = "record" =>
          /\ x.subject \in Subjects /\ x.user \in Users
          /\ <<x.subject, x.user>> \notin Pairs(x.work, x.known)
          /\ RecordedIn(w, x) \in z

RacesIn(w, rs, l, z) ==
    /\ \A r \in Runs : ToSendIn(w, rs[r]) \intersect l \subseteq z
    /\ \A r, q \in Runs : r # q => HandIn(w, rs[r]) \intersect HandIn(w, rs[q]) \subseteq z

TellsIn(w, rs, l, z, o) ==
    /\ l \subseteq z
    /\ \A k \in z : k \in l \/ k \in o \/ \E q \in Runs : rs[q].step = "record" /\ k = RecordedIn(w, rs[q])

FreshIn(x, f, d) ==
    ~x.stale => \A p \in x.work : /\ f[p[1]].open
                                  /\ InWindow(x.type, f[p[1]].due, d)
                                  /\ p[2] # None => p[2] \in f[p[1]].holders

LEMMA HandsRead ==
    /\ \A s, u, t, d : Key(s, u, t, d) = KeyIn(weekly, s, u, t, d)
    /\ \A r \in Runs : Recorded(r) = RecordedIn(weekly, runs[r])
    /\ \A r \in Runs : InHand(r) = HandIn(weekly, runs[r])
    /\ WorkIsSound <=> \A r \in Runs : SoundIn(weekly, runs[r], sent)
    /\ RacesAreSeen <=> RacesIn(weekly, runs, ledger, raced)
    /\ LedgerTellsWhatWasSent <=> TellsIn(weekly, runs, ledger, sent, loose)
    /\ FreshScansAreApt <=> \A r \in Runs : FreshIn(runs[r], subjects, day)
<1>1. \A s, u, t, d : Key(s, u, t, d) = KeyIn(weekly, s, u, t, d)
  BY DEF Key, KeyIn, Bucket
<1>2. \A r \in Runs : Recorded(r) = RecordedIn(weekly, runs[r])
  BY <1>1 DEF Recorded, RecordedIn
<1>3. \A r \in Runs : ToSend(runs[r].work, runs[r].known, runs[r].type, runs[r].now)
                         = ToSendIn(weekly, runs[r])
  BY <1>1 DEF ToSend, ToSendIn
<1>4. \A r \in Runs : InHand(r) = HandIn(weekly, runs[r])
  BY <1>2, <1>3 DEF InHand, HandIn
<1>5. WorkIsSound <=> \A r \in Runs : SoundIn(weekly, runs[r], sent)
  BY <1>2 DEF WorkIsSound, SoundIn
<1>6. RacesAreSeen <=> RacesIn(weekly, runs, ledger, raced)
  BY <1>3, <1>4 DEF RacesAreSeen, RacesIn
<1>7. LedgerTellsWhatWasSent <=> TellsIn(weekly, runs, ledger, sent, loose)
  BY <1>2 DEF LedgerTellsWhatWasSent, TellsIn
<1>8. FreshScansAreApt <=> \A r \in Runs : FreshIn(runs[r], subjects, day)
  BY DEF FreshScansAreApt, FreshIn
<1> QED
  BY <1>1, <1>2, <1>4, <1>5, <1>6, <1>7, <1>8

LEMMA HandsReadNext ==
    /\ (\A r \in Runs : Recorded(r) = RecordedIn(weekly, runs[r]))'
    /\ (WorkIsSound <=> \A r \in Runs : SoundIn(weekly, runs[r], sent))'
    /\ (RacesAreSeen <=> RacesIn(weekly, runs, ledger, raced))'
    /\ (LedgerTellsWhatWasSent <=> TellsIn(weekly, runs, ledger, sent, loose))'
    /\ (FreshScansAreApt <=> \A r \in Runs : FreshIn(runs[r], subjects, day))'
  BY HandsRead, PTL

(* The keys of two pairs differ. *)
LEMMA KeysTellPairs ==
    ASSUME NEW w, NEW s, NEW u, NEW t, NEW d, NEW v, NEW y
    PROVE  KeyIn(w, s, u, t, d) = KeyIn(w, v, y, t, d) => s = v /\ u = y
  BY DEF KeyIn

-----------------------------------------------------------------------------
(* A step of one scan keeps what is sound of the others.                     *)
LEMMA SoundScanStep ==
    ASSUME ReminderTypeOK, WorkIsSound, weekly' = weekly, sent \subseteq sent',
           NEW r \in Runs, NEW x, runs' = [runs EXCEPT ![r] = x], SoundIn(weekly, x, sent')
    PROVE  WorkIsSound'
<1>1. \A q \in Runs : SoundIn(weekly, runs[q], sent')
  <2>1. ASSUME NEW q \in Runs PROVE SoundIn(weekly, runs[q], sent')
    <3>1. SoundIn(weekly, runs[q], sent)
      BY HandsRead
    <3> QED
      BY <3>1 DEF SoundIn
  <2> QED
    BY <2>1
<1>2. \A q \in Runs : runs'[q] = x \/ runs'[q] = runs[q]
  BY DEF ReminderTypeOK
<1>3. \A q \in Runs : SoundIn(weekly', runs'[q], sent')
  BY <1>1, <1>2
<1> QED
  BY <1>3, HandsReadNext

LEMMA RacesStep ==
    ASSUME ReminderTypeOK, RacesAreSeen, weekly' = weekly, ledger' = ledger, raced \subseteq raced',
           NEW r \in Runs, NEW x, runs' = [runs EXCEPT ![r] = x],
           ToSendIn(weekly, x) \subseteq ToSendIn(weekly, runs[r]),
           HandIn(weekly, x) \subseteq HandIn(weekly, runs[r])
    PROVE  RacesAreSeen'
<1>0. RacesIn(weekly, runs, ledger, raced)
  BY HandsRead
<1>1. \A q \in Runs : /\ ToSendIn(weekly, runs'[q]) \subseteq ToSendIn(weekly, runs[q])
                       /\ HandIn(weekly, runs'[q]) \subseteq HandIn(weekly, runs[q])
  <2>1. \A q \in Runs : runs'[q] = IF q = r THEN x ELSE runs[q]
    BY DEF ReminderTypeOK
  <2> QED
    BY <2>1
<1>2. ASSUME NEW q \in Runs PROVE ToSendIn(weekly, runs'[q]) \intersect ledger \subseteq raced'
  BY <1>0, <1>1 DEF RacesIn
<1>3. ASSUME NEW q \in Runs, NEW p \in Runs, q # p
      PROVE  HandIn(weekly, runs'[q]) \intersect HandIn(weekly, runs'[p]) \subseteq raced'
  <2>1. HandIn(weekly, runs[q]) \intersect HandIn(weekly, runs[p]) \subseteq raced
    BY <1>0, <1>3 DEF RacesIn
  <2>2. /\ HandIn(weekly, runs'[q]) \subseteq HandIn(weekly, runs[q])
        /\ HandIn(weekly, runs'[p]) \subseteq HandIn(weekly, runs[p])
    BY <1>1
  <2> QED
    BY <2>1, <2>2
<1>4. RacesIn(weekly', runs', ledger', raced')
  BY <1>2, <1>3 DEF RacesIn
<1> QED
  BY <1>4, HandsReadNext

(* What goes out is in the ledger, loose, or of a scan that records it.      *)
LEMMA TellsStep ==
    ASSUME ReminderTypeOK, LedgerTellsWhatWasSent, weekly' = weekly,
           ledger \subseteq ledger', ledger' \subseteq sent', loose \subseteq loose',
           NEW r \in Runs, NEW x, runs' = [runs EXCEPT ![r] = x],
           \A k \in sent' \ sent : k \in loose' \/ (x.step = "record" /\ k = RecordedIn(weekly, x)),
           runs[r].step = "record" => Recorded(r) \in ledger' \union loose'
    PROVE  LedgerTellsWhatWasSent'
<1>0. TellsIn(weekly, runs, ledger, sent, loose) /\ Recorded(r) = RecordedIn(weekly, runs[r])
  BY HandsRead
<1>1. \A q \in Runs : runs'[q] = IF q = r THEN x ELSE runs[q]
  BY DEF ReminderTypeOK
<1>2. ASSUME NEW k \in sent'
      PROVE  k \in ledger' \/ k \in loose' \/ \E q \in Runs : runs'[q].step = "record" /\ k = RecordedIn(weekly, runs'[q])
  <2>1. CASE k \notin sent
    BY <1>1, <2>1
  <2>2. CASE k \in sent
    <3>1. k \in ledger \/ k \in loose \/ \E q \in Runs : runs[q].step = "record" /\ k = RecordedIn(weekly, runs[q])
      BY <1>0, <2>2 DEF TellsIn
    <3>2. ASSUME NEW q \in Runs, runs[q].step = "record", k = RecordedIn(weekly, runs[q])
          PROVE  k \in ledger' \/ k \in loose' \/ (runs'[q].step = "record" /\ k = RecordedIn(weekly, runs'[q]))
      BY <1>0, <1>1, <3>2
    <3> QED
      BY <3>1, <3>2
  <2> QED
    BY <2>1, <2>2
<1>3. TellsIn(weekly', runs', ledger', sent', loose')
  BY <1>2 DEF TellsIn
<1> QED
  BY <1>3, HandsReadNext

LEMMA FreshStep ==
    ASSUME ReminderTypeOK, FreshScansAreApt, subjects' = subjects, day' = day,
           NEW r \in Runs, NEW x, runs' = [runs EXCEPT ![r] = x], FreshIn(x, subjects, day)
    PROVE  FreshScansAreApt'
<1>1. \A q \in Runs : FreshIn(runs[q], subjects, day)
  BY HandsRead
<1>2. \A q \in Runs : runs'[q] = IF q = r THEN x ELSE runs[q]
  BY DEF ReminderTypeOK
<1>3. \A q \in Runs : FreshIn(runs'[q], subjects', day')
  BY <1>1, <1>2
<1> QED
  BY <1>3, HandsReadNext

(* Days and edits age the scans and change nothing that they have in hand.   *)
LEMMA AgedScans ==
    ASSUME ReminderTypeOK, Aged
    PROVE  \A r \in Runs :
               /\ runs'[r].step = runs[r].step /\ runs'[r].work = runs[r].work
               /\ runs'[r].known = runs[r].known /\ runs'[r].type = runs[r].type
               /\ runs'[r].now = runs[r].now /\ runs'[r].subject = runs[r].subject
               /\ runs'[r].user = runs[r].user
               /\ ~runs'[r].stale => runs[r].step = "idle"
               /\ \A w : /\ ToSendIn(w, runs'[r]) = ToSendIn(w, runs[r])
                         /\ RecordedIn(w, runs'[r]) = RecordedIn(w, runs[r])
                         /\ HandIn(w, runs'[r]) = HandIn(w, runs[r])
<1> SUFFICES ASSUME NEW r \in Runs
             PROVE  /\ runs'[r].step = runs[r].step /\ runs'[r].work = runs[r].work
                    /\ runs'[r].known = runs[r].known /\ runs'[r].type = runs[r].type
                    /\ runs'[r].now = runs[r].now /\ runs'[r].subject = runs[r].subject
                    /\ runs'[r].user = runs[r].user
                    /\ ~runs'[r].stale => runs[r].step = "idle"
                    /\ \A w : /\ ToSendIn(w, runs'[r]) = ToSendIn(w, runs[r])
                              /\ RecordedIn(w, runs'[r]) = RecordedIn(w, runs[r])
                              /\ HandIn(w, runs'[r]) = HandIn(w, runs[r])
  OBVIOUS
<1>0. runs[r] \in Run /\ runs'[r] = [runs[r] EXCEPT !.stale = ~Waits(r)]
  BY DEF ReminderTypeOK, Aged
<1>1. /\ runs'[r].step = runs[r].step /\ runs'[r].work = runs[r].work
      /\ runs'[r].known = runs[r].known /\ runs'[r].type = runs[r].type
      /\ runs'[r].now = runs[r].now /\ runs'[r].subject = runs[r].subject
      /\ runs'[r].user = runs[r].user
  BY <1>0 DEF Run
<1>2. runs'[r].stale = ~Waits(r)
  BY <1>0 DEF Run
<1>3. ~runs'[r].stale => runs[r].step = "idle"
  BY <1>2 DEF Waits
<1>4. \A w : /\ ToSendIn(w, runs'[r]) = ToSendIn(w, runs[r])
            /\ RecordedIn(w, runs'[r]) = RecordedIn(w, runs[r])
  BY <1>1 DEF ToSendIn, RecordedIn
<1>5. \A w : HandIn(w, runs'[r]) = HandIn(w, runs[r])
  BY <1>1, <1>4 DEF HandIn
<1> QED
  BY <1>1, <1>3, <1>4, <1>5

(* A scan that steps without dispatching or loading: what it has in hand     *)
(* may only shrink, and what it was to record is recorded or loose.          *)
LEMMA QuietStep ==
    ASSUME ReminderInv, weekly' = weekly, subjects' = subjects, day' = day, sent' = sent,
           twice' = twice, raced' = raced, ledger' = ledger, loose \subseteq loose',
           NEW r \in Runs, NEW x, runs' = [runs EXCEPT ![r] = x],
           x.step # "record", SoundIn(weekly, x, sent), FreshIn(x, subjects, day),
           ToSendIn(weekly, x) \subseteq ToSendIn(weekly, runs[r]),
           runs[r].step = "record" => Recorded(r) \in ledger' \union loose'
    PROVE  WorkIsSound' /\ RacesAreSeen' /\ FreshScansAreApt' /\ LedgerTellsWhatWasSent' /\ TwiceForAReason'
<1>1. WorkIsSound'
  BY SoundScanStep DEF ReminderInv
<1>2. HandIn(weekly, x) \subseteq HandIn(weekly, runs[r])
  BY DEF HandIn
<1>3. RacesAreSeen'
  BY <1>2, RacesStep DEF ReminderInv
<1>4. FreshScansAreApt'
  BY FreshStep DEF ReminderInv
<1>5. ledger' \subseteq sent'
  BY DEF ReminderInv, LedgerTellsWhatWasSent
<1>6. LedgerTellsWhatWasSent'
  BY <1>5, TellsStep DEF ReminderInv
<1>7. TwiceForAReason'
  BY DEF ReminderInv, TwiceForAReason
<1> QED
  BY <1>1, <1>3, <1>4, <1>6, <1>7

LEMMA ToSendShrinks ==
    ASSUME NEW w, NEW x, NEW y, y.known = x.known, y.type = x.type, y.now = x.now,
           Pairs(y.work, y.known) \subseteq Pairs(x.work, x.known)
    PROVE  ToSendIn(w, y) \subseteq ToSendIn(w, x)
  BY DEF ToSendIn

LEMMA NothingToSend ==
    ASSUME NEW w, NEW x, x.work = {}
    PROVE  ToSendIn(w, x) = {}
  BY DEF ToSendIn, Pairs

LEMMA NoScanIsQuiet ==
    /\ NoScan.work = {} /\ NoScan.step = "idle" /\ NoScan.type = Overdue
    /\ \A w : ToSendIn(w, NoScan) = {}
    /\ \A w, z : SoundIn(w, NoScan, z)
    /\ \A f, d : FreshIn(NoScan, f, d)
<1>1. NoScan.work = {} /\ NoScan.step = "idle" /\ NoScan.type = Overdue
  BY DEF NoScan
<1> QED
  BY <1>1, NothingToSend DEF SoundIn, FreshIn

LEMMA StartKeeps ==
    ASSUME ReminderInv, NEW r \in Runs, Start(r)
    PROVE  WorkIsSound' /\ RacesAreSeen' /\ FreshScansAreApt' /\ LedgerTellsWhatWasSent' /\ TwiceForAReason'
<1> DEFINE x == [NoScan EXCEPT !.step = "send", !.now = day, !.left = Types]
<1>1. x.work = {} /\ x.step = "send"
  BY DEF NoScan
<1>2. /\ runs' = [runs EXCEPT ![r] = x] /\ runs[r].step = "idle"
      /\ UNCHANGED <<weekly, subjects, day, sent, twice, raced, ledger, loose>>
  BY DEF Start, Put, world, seen, Waits
<1> HIDE DEF x
<1>3. SoundIn(weekly, x, sent) /\ FreshIn(x, subjects, day) /\ ToSendIn(weekly, x) = {}
  BY <1>1, NothingToSend DEF SoundIn, FreshIn
<1> QED
  BY <1>1, <1>2, <1>3, QuietStep

LEMMA LoadKeeps ==
    ASSUME ReminderInv, NEW r \in Runs, NEW t \in Types, Load(r, t)
    PROVE  WorkIsSound' /\ RacesAreSeen' /\ FreshScansAreApt' /\ LedgerTellsWhatWasSent' /\ TwiceForAReason'
<1> DEFINE x == runs[r]
           due == Candidates(t, x.now)
           known == AlreadySent(t, x.now)
           work == IF weekly THEN due \X {None}
                   ELSE (UNION {{s} \X subjects[s].holders : s \in due}) \ known
           y == [x EXCEPT !.type = t, !.left = x.left \ {t}, !.work = work,
                          !.known = known, !.stale = x.now # day]
           mine == ToSend(work, known, t, x.now)
<1>0. x \in Run /\ ReminderTypeOK
  BY DEF ReminderInv, ReminderTypeOK
<1>1. /\ runs' = [runs EXCEPT ![r] = y]
      /\ x.step = "send" /\ x.work = {}
      /\ raced' = raced \union (mine \intersect UNION {InHand(q) : q \in Runs \ {r}})
      /\ UNCHANGED <<weekly, subjects, day, ledger, sent, twice, loose>>
  BY DEF Load, Put, world
<1>2. /\ y.step = "send" /\ y.work = work /\ y.known = known /\ y.type = t /\ y.now = x.now
      /\ y.stale = (x.now # day)
  BY <1>0, <1>1 DEF Run
<1>3. known \subseteq Subjects \X Users
  BY <1>0 DEF AlreadySent, Keys, ReminderTypeOK
<1>4. \A p \in work : p[1] \in Candidates(t, x.now) /\ (p[2] # None => ~weekly /\ p[2] \in subjects[p[1]].holders)
  OBVIOUS
<1>5. /\ weekly => \A p \in work : p[2] = None
      /\ ~weekly => \A p \in work : p \notin known /\ p[2] # None
  <2>1. weekly => \A p \in work : p[2] = None
    OBVIOUS
  <2>2. ASSUME ~weekly, NEW p \in work PROVE p \notin known /\ p[2] # None
    <3>1. PICK s \in due : p \in {s} \X subjects[s].holders
      BY <2>2
    <3>2. s \in Subjects
      BY DEF Candidates
    <3>3. subjects[s].holders \subseteq Users
      BY <1>0, <3>2 DEF ReminderTypeOK
    <3>4. p[2] # None
      BY <3>1, <3>3, NoneAssumption
    <3>5. p \notin known
      BY <2>2
    <3> QED
      BY <3>4, <3>5
  <2> QED
    BY <2>1, <2>2
<1>6. work \intersect known = {}
  BY <1>3, <1>5, NoneAssumption
<1>7. \A p \in work : p[2] # None => <<p[1], None>> \notin work
  BY <1>4, <1>5
<1>8. mine \intersect ledger = {}
  <2> SUFFICES ASSUME NEW k \in mine, k \in ledger PROVE FALSE
    OBVIOUS
  <2>1. PICK p \in Pairs(work, known) : k = Key(p[1], p[2], t, x.now)
    BY DEF ToSend
  <2>2. /\ k.subject = p[1] /\ k.user = p[2] /\ k.type = t /\ k.bucket = Bucket(t, x.now)
        /\ p \notin known /\ p = <<p[1], p[2]>>
    BY <2>1 DEF Key, Pairs
  <2>3. <<k.subject, k.user>> \in known
    BY <2>2 DEF AlreadySent
  <2> QED
    BY <2>2, <2>3
<1>9. mine = ToSendIn(weekly, y)
  <2>1. mine = {Key(p[1], p[2], t, x.now) : p \in Pairs(work, known)}
    BY DEF ToSend
  <2>2. ToSendIn(weekly, y) = {KeyIn(weekly, p[1], p[2], t, x.now) : p \in Pairs(work, known)}
    BY <1>2 DEF ToSendIn
  <2> HIDE DEF mine, y, work, known, x
  <2> QED
    BY <2>1, <2>2, HandsRead
<1>10. FreshIn(y, subjects, day)
  <2> SUFFICES ASSUME x.now = day, NEW p \in work
               PROVE  /\ subjects[p[1]].open /\ InWindow(t, subjects[p[1]].due, day)
                      /\ p[2] # None => p[2] \in subjects[p[1]].holders
    <3> HIDE DEF y, work, x
    <3> QED
      BY <1>2 DEF FreshIn
  <2> QED
    BY <1>4 DEF Candidates
<1> HIDE DEF y, work, known, mine, due, x
<1>11. SoundIn(weekly, y, sent)
  BY <1>2, <1>6, <1>7 DEF SoundIn
<1>12. WorkIsSound'
  BY <1>1, <1>11, SoundScanStep DEF ReminderInv
<1>13. FreshScansAreApt'
  BY <1>1, <1>10, FreshStep DEF ReminderInv
<1>14. LedgerTellsWhatWasSent'
  <2>1. ledger' \subseteq sent'
    BY <1>1 DEF ReminderInv, LedgerTellsWhatWasSent
  <2>2. runs[r].step # "record"
    BY <1>1 DEF x
  <2> QED
    BY <1>1, <2>1, <2>2, TellsStep DEF ReminderInv
<1>15. TwiceForAReason'
  BY <1>1 DEF ReminderInv, TwiceForAReason
<1>16. RacesAreSeen'
  <2>0. RacesIn(weekly, runs, ledger, raced) /\ \A q \in Runs : InHand(q) = HandIn(weekly, runs[q])
    BY HandsRead DEF ReminderInv
  <2>1. runs'[r] = y /\ \A q \in Runs \ {r} : runs'[q] = runs[q]
    BY <1>0, <1>1 DEF ReminderTypeOK
  <2>2. HandIn(weekly, y) = mine
    BY <1>2, <1>9 DEF HandIn
  <2>3. \A q \in Runs \ {r} : mine \intersect HandIn(weekly, runs[q]) \subseteq raced'
    BY <1>1, <2>0
  <2>4. \A q \in Runs : ToSendIn(weekly, runs'[q]) \intersect ledger \subseteq raced'
    BY <1>1, <1>8, <1>9, <2>0, <2>1 DEF RacesIn
  <2>5. ASSUME NEW q \in Runs, NEW p \in Runs, q # p
        PROVE  HandIn(weekly, runs'[q]) \intersect HandIn(weekly, runs'[p]) \subseteq raced'
    <3>1. CASE q = r
      BY <2>1, <2>2, <2>3, <2>5, <3>1
    <3>2. CASE p = r
      BY <2>1, <2>2, <2>3, <2>5, <3>2
    <3>3. CASE q # r /\ p # r
      <4>1. HandIn(weekly, runs[q]) \intersect HandIn(weekly, runs[p]) \subseteq raced
        BY <2>0, <2>5 DEF RacesIn
      <4> QED
        BY <1>1, <2>1, <3>3, <4>1
    <3> QED
      BY <3>1, <3>2, <3>3
  <2>6. RacesIn(weekly', runs', ledger', raced')
    BY <1>1, <2>4, <2>5 DEF RacesIn
  <2> QED
    BY <2>6, HandsReadNext
<1> QED
  BY <1>12, <1>13, <1>14, <1>15, <1>16

LEMMA ResolveKeeps ==
    ASSUME ReminderInv, NEW r \in Runs, NEW s \in Subjects, Resolve(r, s)
    PROVE  WorkIsSound' /\ RacesAreSeen' /\ FreshScansAreApt' /\ LedgerTellsWhatWasSent' /\ TwiceForAReason'
<1> DEFINE x == runs[r]
           w == (x.work \ {<<s, None>>}) \union (({s} \X subjects[s].holders) \ x.known)
           y == [x EXCEPT !.work = w]
<1>0. x \in Run /\ subjects[s].holders \subseteq Users
  BY DEF ReminderInv, ReminderTypeOK
<1>1. /\ runs' = [runs EXCEPT ![r] = y]
      /\ x.step = "send" /\ <<s, None>> \in x.work
      /\ UNCHANGED <<weekly, subjects, day, sent, twice, raced, ledger, loose>>
  BY DEF Resolve, Put, world, seen
<1>2. /\ y.step = "send" /\ y.work = w /\ y.known = x.known /\ y.type = x.type /\ y.now = x.now
      /\ y.stale = x.stale
  BY <1>0, <1>1 DEF Run
<1>3. SoundIn(weekly, x, sent) /\ FreshIn(x, subjects, day)
  BY HandsRead DEF ReminderInv
<1>4. \A p \in ({s} \X subjects[s].holders) \ x.known : /\ p[1] = s /\ p[2] \in subjects[s].holders
                                                         /\ p[2] # None /\ p \notin x.known
  BY <1>0, NoneAssumption
<1>5. \A p \in w : \/ p \in x.work
                   \/ p[1] = s /\ p[2] \in subjects[s].holders /\ p[2] # None /\ p \notin x.known
  BY <1>4
<1>6. \A v : <<v, None>> \in w => <<v, None>> \in x.work /\ v # s
  BY <1>4
<1> HIDE DEF w, y, x
<1>7. SoundIn(weekly, y, sent)
  <2>1. y.work \intersect y.known = {}
    BY <1>2, <1>3, <1>5 DEF SoundIn
  <2>2. ASSUME NEW p \in w, p[2] # None PROVE <<p[1], None>> \notin w
    BY <1>3, <1>5, <1>6, <2>2 DEF SoundIn
  <2> QED
    BY <1>2, <2>1, <2>2 DEF SoundIn
<1>8. FreshIn(y, subjects, day)
  <2> SUFFICES ASSUME ~x.stale, NEW p \in w
               PROVE  /\ subjects[p[1]].open /\ InWindow(x.type, subjects[p[1]].due, day)
                      /\ p[2] # None => p[2] \in subjects[p[1]].holders
    BY <1>2 DEF FreshIn
  <2>1. CASE p \in x.work
    BY <1>3, <2>1 DEF FreshIn
  <2>2. CASE p[1] = s /\ p[2] \in subjects[s].holders
    <3>1. subjects[s].open /\ InWindow(x.type, subjects[s].due, day)
      <4> DEFINE n == <<s, None>>
      <4>1. n \in x.work /\ n[1] = s
        BY <1>1
      <4> HIDE DEF n
      <4> QED
        BY <1>3, <4>1 DEF FreshIn
    <3> QED
      BY <2>2, <3>1
  <2> QED
    BY <1>5, <2>1, <2>2
<1>9. Pairs(y.work, y.known) \subseteq Pairs(x.work, x.known)
  <2> SUFFICES ASSUME NEW p \in Pairs(w, x.known) PROVE p \in Pairs(x.work, x.known)
    BY <1>2
  <2>1. p \in (Subjects \X Users) \ x.known /\ (p \in w \/ <<p[1], None>> \in w)
    BY DEF Pairs
  <2>2. p \in x.work \/ <<p[1], None>> \in x.work
    BY <1>1, <1>5, <1>6, <2>1
  <2> QED
    BY <2>1, <2>2 DEF Pairs
<1>10. ToSendIn(weekly, y) \subseteq ToSendIn(weekly, x)
  BY <1>2, <1>9, ToSendShrinks
<1> QED
  BY <1>1, <1>2, <1>7, <1>8, <1>10, QuietStep DEF x

(* A reminder whose turn it is: what the scan then holds, with it to record  *)
(* or without.                                                               *)
LEMMA TurnTaken ==
    ASSUME ReminderInv, NEW r \in Runs, NEW s \in Subjects, NEW u \in Users,
           runs[r].step = "send", <<s, u>> \in runs[r].work,
           NEW y, y.work = runs[r].work \ {<<s, u>>}, y.known = runs[r].known,
           y.type = runs[r].type, y.now = runs[r].now, y.stale = runs[r].stale
    PROVE  /\ ToSendIn(weekly, y) \subseteq ToSendIn(weekly, runs[r])
           /\ Key(s, u, runs[r].type, runs[r].now) \in ToSendIn(weekly, runs[r])
           /\ <<s, u>> \notin Pairs(y.work, y.known)
           /\ y.work \intersect y.known = {}
           /\ \A p \in y.work : p[2] # None => <<p[1], None>> \notin y.work
           /\ FreshIn(y, subjects, day)
           /\ ~runs[r].stale => Apt(s, u, runs[r].type)
<1> DEFINE x == runs[r]  n == <<s, u>>
<1>1. SoundIn(weekly, x, sent) /\ FreshIn(x, subjects, day)
  BY HandsRead DEF ReminderInv
<1>2. n[1] = s /\ n[2] = u /\ n \in x.work /\ u # None /\ n \in Subjects \X Users
  BY NoneAssumption
<1>3. n \in Pairs(x.work, x.known)
  BY <1>1, <1>2 DEF SoundIn, Pairs
<1>4. Key(s, u, x.type, x.now) \in ToSendIn(weekly, x)
  BY <1>2, <1>3, HandsRead DEF ToSendIn
<1>5. <<s, None>> \notin x.work
  BY <1>1, <1>2 DEF SoundIn
<1>6. n \notin Pairs(y.work, y.known)
  BY <1>2, <1>5 DEF Pairs
<1>7. Pairs(y.work, y.known) \subseteq Pairs(x.work, x.known)
  BY DEF Pairs
<1>8. ToSendIn(weekly, y) \subseteq ToSendIn(weekly, x)
  BY <1>7, ToSendShrinks
<1>9. /\ y.work \intersect y.known = {}
      /\ \A p \in y.work : p[2] # None => <<p[1], None>> \notin y.work
  BY <1>1 DEF SoundIn
<1>10. FreshIn(y, subjects, day)
  BY <1>1 DEF FreshIn
<1>11. ~x.stale => Apt(s, u, x.type)
  <2> HIDE DEF n, x
  <2> QED
    BY <1>1, <1>2 DEF FreshIn, Apt
<1> QED
  BY <1>4, <1>6, <1>8, <1>9, <1>10, <1>11

LEMMA DispatchKeeps ==
    ASSUME ReminderInv, NEW r \in Runs, NEW s \in Subjects, NEW u \in Users, Dispatch(r, s, u)
    PROVE  /\ WorkIsSound' /\ RacesAreSeen' /\ FreshScansAreApt' /\ LedgerTellsWhatWasSent'
           /\ TwiceForAReason'
           /\ runs'[r].subject = s /\ runs'[r].user = u /\ runs'[r].type = runs[r].type
           /\ ~runs[r].stale => Apt(s, u, runs[r].type)
<1> DEFINE x == runs[r]
           k == Key(s, u, x.type, x.now)
           y == [x EXCEPT !.step = "record", !.work = x.work \ {<<s, u>>}, !.subject = s, !.user = u]
<1>0. x \in Run /\ ReminderTypeOK
  BY DEF ReminderInv, ReminderTypeOK
<1>1. /\ runs' = [runs EXCEPT ![r] = y] /\ x.step = "send" /\ <<s, u>> \in x.work
      /\ sent' = sent \union {k} /\ twice' = (IF k \in sent THEN twice \union {k} ELSE twice)
      /\ UNCHANGED <<weekly, subjects, day, raced, ledger, loose>>
  BY DEF Dispatch, Put, world
<1>2. /\ y.step = "record" /\ y.work = x.work \ {<<s, u>>} /\ y.known = x.known /\ y.type = x.type
      /\ y.now = x.now /\ y.stale = x.stale /\ y.subject = s /\ y.user = u
  BY <1>0 DEF Run
<1> HIDE DEF y
<1>3. /\ ToSendIn(weekly, y) \subseteq ToSendIn(weekly, x)
      /\ k \in ToSendIn(weekly, x)
      /\ <<s, u>> \notin Pairs(y.work, y.known)
      /\ y.work \intersect y.known = {}
      /\ \A p \in y.work : p[2] # None => <<p[1], None>> \notin y.work
      /\ FreshIn(y, subjects, day)
      /\ ~x.stale => Apt(s, u, x.type)
  BY <1>1, <1>2, TurnTaken
<1>4. k = RecordedIn(weekly, y)
  BY <1>2, HandsRead DEF RecordedIn
<1> HIDE DEF x, k
<1>5. SoundIn(weekly, y, sent')
  BY <1>1, <1>2, <1>3, <1>4 DEF SoundIn
<1>6. WorkIsSound'
  BY <1>1, <1>5, SoundScanStep DEF ReminderInv
<1>7. HandIn(weekly, y) \subseteq HandIn(weekly, x)
  BY <1>2, <1>3, <1>4 DEF HandIn
<1>8. RacesAreSeen'
  BY <1>1, <1>3, <1>7, RacesStep DEF ReminderInv, x
<1>9. FreshScansAreApt'
  BY <1>1, <1>3, FreshStep DEF ReminderInv
<1>10. LedgerTellsWhatWasSent'
  <2>1. ledger' \subseteq sent'
    BY <1>1 DEF ReminderInv, LedgerTellsWhatWasSent
  <2>2. \A z \in sent' \ sent : z = k
    BY <1>1
  <2> QED
    BY <1>1, <1>2, <1>4, <2>1, <2>2, TellsStep DEF ReminderInv, x
<1>11. k \in sent => k \in raced \union loose
  <2> SUFFICES ASSUME k \in sent, k \notin loose PROVE k \in raced
    OBVIOUS
  <2>1. TellsIn(weekly, runs, ledger, sent, loose) /\ RacesIn(weekly, runs, ledger, raced)
    BY HandsRead DEF ReminderInv
  <2>2. CASE k \in ledger
    BY <1>3, <2>1, <2>2 DEF RacesIn, x
  <2>3. ASSUME NEW q \in Runs, runs[q].step = "record", k = RecordedIn(weekly, runs[q])
        PROVE  k \in raced
    <3>1. q # r
      BY <1>1, <2>3 DEF x
    <3>2. k \in HandIn(weekly, runs[q]) /\ k \in HandIn(weekly, runs[r])
      BY <1>3, <2>3 DEF HandIn, x
    <3> QED
      BY <2>1, <3>1, <3>2 DEF RacesIn
  <2> QED
    BY <2>1, <2>2, <2>3 DEF TellsIn
<1>12. TwiceForAReason'
  BY <1>1, <1>11 DEF ReminderInv, TwiceForAReason
<1>13. runs'[r] = y
  BY <1>0, <1>1 DEF ReminderTypeOK
<1> QED
  BY <1>2, <1>3, <1>6, <1>8, <1>9, <1>10, <1>12, <1>13 DEF x

LEMMA DispatchFailsKeeps ==
    ASSUME ReminderInv, NEW r \in Runs, NEW s \in Subjects, NEW u \in Users, DispatchFails(r, s, u)
    PROVE  WorkIsSound' /\ RacesAreSeen' /\ FreshScansAreApt' /\ LedgerTellsWhatWasSent' /\ TwiceForAReason'
<1> DEFINE x == runs[r]
           k == Key(s, u, x.type, x.now)
           y == [x EXCEPT !.work = x.work \ {<<s, u>>}]
<1>0. x \in Run /\ ReminderTypeOK
  BY DEF ReminderInv, ReminderTypeOK
<1>1. /\ runs' = [runs EXCEPT ![r] = y] /\ x.step = "send" /\ <<s, u>> \in x.work
      /\ \/ UNCHANGED <<sent, twice, loose>>
         \/ /\ sent' = sent \union {k} /\ loose' = loose \union {k}
            /\ twice' = (IF k \in sent THEN twice \union {k} ELSE twice)
      /\ UNCHANGED <<weekly, subjects, day, raced, ledger>>
  BY DEF DispatchFails, Put, world
<1>2. /\ y.step = "send" /\ y.work = x.work \ {<<s, u>>} /\ y.known = x.known /\ y.type = x.type
      /\ y.now = x.now /\ y.stale = x.stale
  BY <1>0, <1>1 DEF Run
<1> HIDE DEF y
<1>3. /\ ToSendIn(weekly, y) \subseteq ToSendIn(weekly, x)
      /\ y.work \intersect y.known = {}
      /\ \A p \in y.work : p[2] # None => <<p[1], None>> \notin y.work
      /\ FreshIn(y, subjects, day)
  BY <1>1, <1>2, TurnTaken
<1> HIDE DEF x, k
<1>4. /\ sent \subseteq sent' /\ loose \subseteq loose' /\ sent' \ sent \subseteq loose'
      /\ twice' \subseteq twice \union loose'
  BY <1>1
<1>5. SoundIn(weekly, y, sent')
  BY <1>2, <1>3 DEF SoundIn
<1>6. WorkIsSound'
  BY <1>1, <1>4, <1>5, SoundScanStep DEF ReminderInv
<1>7. HandIn(weekly, y) \subseteq HandIn(weekly, x)
  BY <1>2, <1>3 DEF HandIn
<1>8. RacesAreSeen'
  BY <1>1, <1>3, <1>7, RacesStep DEF ReminderInv, x
<1>9. FreshScansAreApt'
  BY <1>1, <1>3, FreshStep DEF ReminderInv
<1>10. LedgerTellsWhatWasSent'
  <2>1. ledger' \subseteq sent'
    BY <1>1, <1>4 DEF ReminderInv, LedgerTellsWhatWasSent
  <2>2. runs[r].step # "record"
    BY <1>1 DEF x
  <2> QED
    BY <1>1, <1>4, <2>1, <2>2, TellsStep DEF ReminderInv
<1>11. TwiceForAReason'
  BY <1>1, <1>4 DEF ReminderInv, TwiceForAReason
<1> QED
  BY <1>6, <1>8, <1>9, <1>10, <1>11

(* The insert, done or failed: the reminder is in hand no more.              *)
LEMMA SentIsQuiet ==
    ASSUME ReminderInv, NEW r \in Runs, runs[r].step = "record", Sent(r)
    PROVE  \E y : /\ runs' = [runs EXCEPT ![r] = y] /\ y.step = "send"
                 /\ SoundIn(weekly, y, sent) /\ FreshIn(y, subjects, day)
                 /\ ToSendIn(weekly, y) = ToSendIn(weekly, runs[r])
<1> DEFINE x == runs[r]
           y == [x EXCEPT !.step = "send", !.subject = None, !.user = None]
<1>0. x \in Run
  BY DEF ReminderInv, ReminderTypeOK
<1>1. runs' = [runs EXCEPT ![r] = y]
  BY DEF Sent, Put
<1>2. /\ y.step = "send" /\ y.work = x.work /\ y.known = x.known /\ y.type = x.type
      /\ y.now = x.now /\ y.stale = x.stale
  BY <1>0 DEF Run
<1>3. SoundIn(weekly, x, sent) /\ FreshIn(x, subjects, day)
  BY HandsRead DEF ReminderInv
<1> HIDE DEF x, y
<1>4. SoundIn(weekly, y, sent) /\ FreshIn(y, subjects, day)
  BY <1>2, <1>3 DEF SoundIn, FreshIn
<1>5. ToSendIn(weekly, y) = ToSendIn(weekly, x)
  BY <1>2 DEF ToSendIn
<1> QED
  BY <1>1, <1>2, <1>4, <1>5 DEF x

LEMMA RecordKeeps ==
    ASSUME ReminderInv, NEW r \in Runs, Record(r)
    PROVE  WorkIsSound' /\ RacesAreSeen' /\ FreshScansAreApt' /\ LedgerTellsWhatWasSent' /\ TwiceForAReason'
<1>0. ReminderTypeOK /\ runs[r].step = "record"
  BY DEF ReminderInv, Record
<1> DEFINE k == Recorded(r)
<1>1. /\ ledger' = ledger \union {k}
      /\ UNCHANGED <<weekly, subjects, day, sent, twice, raced, loose>>
  BY DEF Record, world, seen
<1>2. PICK y : /\ runs' = [runs EXCEPT ![r] = y] /\ y.step = "send"
               /\ SoundIn(weekly, y, sent) /\ FreshIn(y, subjects, day)
               /\ ToSendIn(weekly, y) = ToSendIn(weekly, runs[r])
  BY <1>0, SentIsQuiet DEF Record
<1>3. WorkIsSound'
  BY <1>1, <1>2, SoundScanStep DEF ReminderInv
<1>4. FreshScansAreApt'
  BY <1>1, <1>2, FreshStep DEF ReminderInv
<1>5. /\ k = RecordedIn(weekly, runs[r]) /\ SoundIn(weekly, runs[r], sent)
      /\ RacesIn(weekly, runs, ledger, raced)
  BY HandsRead DEF ReminderInv
<1>6. LedgerTellsWhatWasSent'
  <2>1. ledger' \subseteq sent'
    BY <1>0, <1>1, <1>5 DEF ReminderInv, LedgerTellsWhatWasSent, SoundIn
  <2> QED
    BY <1>0, <1>1, <1>2, <2>1, TellsStep DEF ReminderInv
<1>7. TwiceForAReason'
  BY <1>1 DEF ReminderInv, TwiceForAReason
<1>8. k \notin ToSendIn(weekly, runs[r])
  <2> SUFFICES ASSUME NEW p \in Pairs(runs[r].work, runs[r].known),
                      k = KeyIn(weekly, p[1], p[2], runs[r].type, runs[r].now)
               PROVE  FALSE
    BY DEF ToSendIn
  <2>0. KeyIn(weekly, p[1], p[2], runs[r].type, runs[r].now)
            = KeyIn(weekly, runs[r].subject, runs[r].user, runs[r].type, runs[r].now)
    BY <1>5 DEF RecordedIn
  <2>1. p[1] = runs[r].subject /\ p[2] = runs[r].user
    BY <2>0, KeysTellPairs
  <2>2. p = <<runs[r].subject, runs[r].user>>
    BY <2>1 DEF Pairs
  <2> QED
    BY <1>0, <1>5, <2>2 DEF SoundIn
<1>9. ASSUME NEW q \in Runs PROVE ToSendIn(weekly, runs[q]) \intersect ledger' \subseteq raced
  <2>1. ToSendIn(weekly, runs[q]) \intersect ledger \subseteq raced
    BY <1>5 DEF RacesIn
  <2>2. k \in HandIn(weekly, runs[r])
    BY <1>0, <1>5 DEF HandIn
  <2>3. ASSUME k \in ToSendIn(weekly, runs[q]) PROVE k \in raced
    <3>1. q # r
      BY <1>8, <2>3
    <3>2. k \in HandIn(weekly, runs[q])
      BY <2>3 DEF HandIn
    <3>3. HandIn(weekly, runs[r]) \intersect HandIn(weekly, runs[q]) \subseteq raced
      BY <1>5, <3>1 DEF RacesIn
    <3> QED
      BY <2>2, <3>2, <3>3
  <2> QED
    BY <1>1, <2>1, <2>3
<1>10. RacesAreSeen'
  <2>1. \A q \in Runs : runs'[q] = IF q = r THEN y ELSE runs[q]
    BY <1>0, <1>2 DEF ReminderTypeOK
  <2>2. \A q \in Runs : ToSendIn(weekly, runs'[q]) = ToSendIn(weekly, runs[q])
    BY <1>2, <2>1
  <2>3. \A q \in Runs : HandIn(weekly, runs'[q]) \subseteq HandIn(weekly, runs[q])
    <3>1. ASSUME NEW q \in Runs PROVE HandIn(weekly, runs'[q]) \subseteq HandIn(weekly, runs[q])
      <4>1. CASE q = r
        BY <1>2, <2>1, <2>2, <4>1 DEF HandIn
      <4>2. CASE q # r
        BY <2>1, <4>2
      <4> QED
        BY <4>1, <4>2
    <3> QED
      BY <3>1
  <2>4. ASSUME NEW q \in Runs, NEW p \in Runs, q # p
        PROVE  HandIn(weekly, runs'[q]) \intersect HandIn(weekly, runs'[p]) \subseteq raced
    <3>1. HandIn(weekly, runs[q]) \intersect HandIn(weekly, runs[p]) \subseteq raced
      BY <1>5, <2>4 DEF RacesIn
    <3> QED
      BY <2>3, <3>1
  <2>5. RacesIn(weekly', runs', ledger', raced')
    BY <1>1, <1>9, <2>2, <2>4 DEF RacesIn
  <2> QED
    BY <2>5, HandsReadNext
<1> QED
  BY <1>3, <1>4, <1>6, <1>7, <1>10

LEMMA RecordFailsKeeps ==
    ASSUME ReminderInv, NEW r \in Runs, RecordFails(r)
    PROVE  WorkIsSound' /\ RacesAreSeen' /\ FreshScansAreApt' /\ LedgerTellsWhatWasSent' /\ TwiceForAReason'
<1>1. /\ runs[r].step = "record" /\ loose' = loose \union {Recorded(r)}
      /\ UNCHANGED <<weekly, subjects, day, sent, twice, raced, ledger>>
  BY DEF RecordFails, world
<1>2. PICK y : /\ runs' = [runs EXCEPT ![r] = y] /\ y.step = "send"
               /\ SoundIn(weekly, y, sent) /\ FreshIn(y, subjects, day)
               /\ ToSendIn(weekly, y) = ToSendIn(weekly, runs[r])
  BY <1>1, SentIsQuiet DEF RecordFails
<1> QED
  BY <1>1, <1>2, QuietStep

LEMMA EndKeeps ==
    ASSUME ReminderInv, NEW r \in Runs, End(r)
    PROVE  WorkIsSound' /\ RacesAreSeen' /\ FreshScansAreApt' /\ LedgerTellsWhatWasSent' /\ TwiceForAReason'
<1>1. /\ runs[r].step = "send" /\ runs' = [runs EXCEPT ![r] = NoScan]
      /\ UNCHANGED <<weekly, subjects, day, sent, twice, raced, ledger, loose>>
  BY DEF End, Put, world, seen
<1> QED
  BY <1>1, NoScanIsQuiet, QuietStep

LEMMA CrashKeeps ==
    ASSUME ReminderInv, NEW r \in Runs, Crash(r)
    PROVE  WorkIsSound' /\ RacesAreSeen' /\ FreshScansAreApt' /\ LedgerTellsWhatWasSent' /\ TwiceForAReason'
<1>1. /\ runs' = [runs EXCEPT ![r] = NoScan]
      /\ loose' = (IF runs[r].step = "record" THEN loose \union {Recorded(r)} ELSE loose)
      /\ UNCHANGED <<weekly, subjects, day, sent, twice, raced, ledger>>
  BY DEF Crash, Put, world
<1> QED
  BY <1>1, NoScanIsQuiet, QuietStep

(* Midnight and the edits of a subject.                                      *)
LEMMA AgedKeeps ==
    ASSUME ReminderInv, Aged, UNCHANGED <<weekly, ledger, seen>>
    PROVE  WorkIsSound' /\ RacesAreSeen' /\ FreshScansAreApt' /\ LedgerTellsWhatWasSent' /\ TwiceForAReason'
<1>0. /\ ReminderTypeOK
      /\ \A q \in Runs : SoundIn(weekly, runs[q], sent)
      /\ RacesIn(weekly, runs, ledger, raced)
      /\ TellsIn(weekly, runs, ledger, sent, loose)
      /\ UNCHANGED <<weekly, ledger, sent, twice, raced, loose>>
  BY HandsRead DEF ReminderInv, seen
<1>1. \A q \in Runs :
          /\ runs'[q].step = runs[q].step /\ runs'[q].work = runs[q].work
          /\ runs'[q].known = runs[q].known
          /\ runs'[q].subject = runs[q].subject /\ runs'[q].user = runs[q].user
          /\ ~runs'[q].stale => runs[q].step = "idle"
          /\ ToSendIn(weekly, runs'[q]) = ToSendIn(weekly, runs[q])
          /\ RecordedIn(weekly, runs'[q]) = RecordedIn(weekly, runs[q])
          /\ HandIn(weekly, runs'[q]) = HandIn(weekly, runs[q])
  BY <1>0, AgedScans
<1>2. WorkIsSound'
  <2>1. ASSUME NEW q \in Runs PROVE SoundIn(weekly, runs'[q], sent)
    BY <1>0, <1>1 DEF SoundIn
  <2> QED
    BY <1>0, <2>1, HandsReadNext
<1>3. RacesAreSeen'
  <2>1. RacesIn(weekly, runs', ledger, raced)
    BY <1>0, <1>1 DEF RacesIn
  <2> QED
    BY <1>0, <2>1, HandsReadNext
<1>4. LedgerTellsWhatWasSent'
  <2>1. TellsIn(weekly, runs', ledger, sent, loose)
    BY <1>0, <1>1 DEF TellsIn
  <2> QED
    BY <1>0, <2>1, HandsReadNext
<1>5. FreshScansAreApt'
  <2>1. ASSUME NEW q \in Runs PROVE FreshIn(runs'[q], subjects', day')
    <3>1. ~runs'[q].stale => runs'[q].work = {}
      BY <1>0, <1>1 DEF SoundIn
    <3> QED
      BY <3>1 DEF FreshIn
  <2> QED
    BY <2>1, HandsReadNext
<1>6. TwiceForAReason'
  BY <1>0 DEF ReminderInv, TwiceForAReason
<1> QED
  BY <1>2, <1>3, <1>4, <1>5, <1>6

LEMMA ReminderInvHoldsInitially == ReminderInit => ReminderInv
<1> SUFFICES ASSUME ReminderInit PROVE ReminderInv
  OBVIOUS
<1>1. ReminderTypeOK
  BY ReminderInitialTypes
<1>2. /\ \A r \in Runs : runs[r] = NoScan
      /\ ledger = {} /\ sent = {} /\ twice = {} /\ raced = {} /\ loose = {}
  BY DEF ReminderInit
<1>3. WorkIsSound
  BY <1>2, NoScanIsQuiet, HandsRead
<1>4. RacesAreSeen
  <2>1. \A r \in Runs : HandIn(weekly, runs[r]) = {} /\ ToSendIn(weekly, runs[r]) = {}
    BY <1>2, NoScanIsQuiet DEF HandIn
  <2>2. RacesIn(weekly, runs, ledger, raced)
    BY <2>1 DEF RacesIn
  <2> QED
    BY <2>2, HandsRead
<1>5. FreshScansAreApt
  BY <1>2, NoScanIsQuiet, HandsRead
<1>6. LedgerTellsWhatWasSent
  BY <1>2 DEF LedgerTellsWhatWasSent
<1>7. TwiceForAReason
  BY <1>2 DEF TwiceForAReason
<1> QED
  BY <1>1, <1>3, <1>4, <1>5, <1>6, <1>7 DEF ReminderInv

LEMMA ReminderKeepsInv == ReminderInv /\ [ReminderNext]_reminderVars => ReminderInv'
<1> SUFFICES ASSUME ReminderInv, [ReminderNext]_reminderVars PROVE ReminderInv'
  OBVIOUS
<1>0. ReminderTypeOK'
  BY ReminderKeepsTypes DEF ReminderInv
<1> DEFINE Rest == WorkIsSound' /\ RacesAreSeen' /\ FreshScansAreApt' /\ LedgerTellsWhatWasSent' /\ TwiceForAReason'
<1>1. ASSUME NEW r \in Runs, RunStep(r) PROVE Rest
  <2>1. CASE Start(r)
    BY <2>1, StartKeeps
  <2>2. ASSUME NEW t \in Types, Load(r, t) PROVE Rest
    BY <2>2, LoadKeeps
  <2>3. ASSUME NEW s \in Subjects, Resolve(r, s) PROVE Rest
    BY <2>3, ResolveKeeps
  <2>4. ASSUME NEW s \in Subjects, NEW u \in Users, Dispatch(r, s, u) PROVE Rest
    BY <2>4, DispatchKeeps
  <2>5. CASE Record(r)
    BY <2>5, RecordKeeps
  <2>6. CASE End(r)
    BY <2>6, EndKeeps
  <2> HIDE DEF Rest
  <2> QED
    BY <1>1, <2>1, <2>2, <2>3, <2>4, <2>5, <2>6 DEF RunStep
<1>2. ASSUME NEW r \in Runs, Trouble(r) PROVE Rest
  <2>1. ASSUME NEW s \in Subjects, NEW u \in Users, DispatchFails(r, s, u) PROVE Rest
    BY <2>1, DispatchFailsKeeps
  <2>2. CASE RecordFails(r)
    BY <2>2, RecordFailsKeeps
  <2>3. CASE Crash(r)
    BY <2>3, CrashKeeps
  <2>4. CASE Stall(r)
    <3>1. UNCHANGED <<weekly, subjects, day, ledger, runs, sent, twice, raced, loose>>
      BY <2>4 DEF Stall, world, seen
    <3> QED
      BY <3>1, HandsRead, HandsReadNext DEF ReminderInv, TwiceForAReason
  <2> HIDE DEF Rest
  <2> QED
    BY <1>2, <2>1, <2>2, <2>3, <2>4 DEF Trouble
<1>3. ASSUME Tick PROVE Rest
  <2>1. Aged /\ UNCHANGED <<weekly, ledger, seen>>
    BY <1>3 DEF Tick
  <2> QED
    BY <2>1, AgedKeeps
<1>4. ASSUME NEW s \in Subjects, Edit(s) PROVE Rest
  <2>1. Aged /\ UNCHANGED <<weekly, ledger, seen>>
    BY <1>4 DEF Edit
  <2> QED
    BY <2>1, AgedKeeps
<1>5. ASSUME UNCHANGED reminderVars PROVE Rest
  <2>1. UNCHANGED <<weekly, subjects, day, ledger, runs, sent, twice, raced, loose>>
    BY <1>5 DEF reminderVars, world, seen
  <2>2. WorkIsSound' /\ RacesAreSeen'
    BY <2>1, HandsRead, HandsReadNext DEF ReminderInv
  <2>3. FreshScansAreApt' /\ LedgerTellsWhatWasSent'
    BY <2>1, HandsRead, HandsReadNext DEF ReminderInv
  <2>4. TwiceForAReason'
    BY <2>1 DEF ReminderInv, TwiceForAReason
  <2> QED
    BY <2>2, <2>3, <2>4
<1> HIDE DEF Rest
<1>6. Rest
  BY <1>1, <1>2, <1>3, <1>4, <1>5 DEF ReminderNext
<1> QED
  BY <1>0, <1>6 DEF Rest, ReminderInv

-----------------------------------------------------------------------------
(* The inductive invariant holds in every reachable state.                   *)
THEOREM ReminderInvariantCorrect == ReminderSpec => []ReminderInv
<1>1. ReminderInit => ReminderInv
  BY ReminderInvHoldsInitially
<1>2. ReminderInv /\ [ReminderNext]_reminderVars => ReminderInv'
  BY ReminderKeepsInv
<1> QED
  BY <1>1, <1>2, PTL DEF ReminderSpec

(* Nobody is reminded twice of one case unless two scans had the reminder in *)
(* hand together, or an earlier dispatch of it was never recorded.           *)
THEOREM NobodyIsRemindedTwice == ReminderSpec => []TwiceForAReason
<1>1. ReminderInv => TwiceForAReason
  BY DEF ReminderInv
<1> QED
  BY <1>1, ReminderInvariantCorrect, PTL

(* The ledger holds only reminders that went out, and each of them unless    *)
(* its insert is yet to come or was lost.                                    *)
THEOREM LedgerIsTrue == ReminderSpec => []LedgerTellsWhatWasSent
<1>1. ReminderInv => LedgerTellsWhatWasSent
  BY DEF ReminderInv
<1> QED
  BY <1>1, ReminderInvariantCorrect, PTL

(* A scan that neither an edit nor a midnight overtook reminds of what is    *)
(* due, and reminds the people it concerns.                                  *)
THEOREM FreshRemindersAreApt == ReminderSpec => AptUnlessStale
<1> DEFINE Step == \A r \in Runs : runs[r].step = "send" /\ runs'[r].step = "record" /\ ~runs[r].stale
                      => Apt(runs'[r].subject, runs'[r].user, runs'[r].type)
<1>1. ReminderInv /\ [ReminderNext]_reminderVars => [Step]_reminderVars
  <2> SUFFICES ASSUME ReminderInv, ReminderNext, NEW r \in Runs,
                      runs[r].step = "send", runs'[r].step = "record", ~runs[r].stale
               PROVE  Apt(runs'[r].subject, runs'[r].user, runs'[r].type)
    OBVIOUS
  <2>0. runs \in [Runs -> Run] /\ runs[r] \in Run
    BY DEF ReminderInv, ReminderTypeOK
  <2>1. ASSUME NEW q \in Runs, NEW s \in Subjects, NEW u \in Users, Dispatch(q, s, u)
        PROVE  Apt(runs'[r].subject, runs'[r].user, runs'[r].type)
    <3>1. q = r
      BY <2>0, <2>1 DEF Dispatch, Put
    <3> QED
      BY <2>1, <3>1, DispatchKeeps
  <2>2. ASSUME NEW q \in Runs, NEW y, Put(q, y), q # r \/ y.step # "record" PROVE FALSE
    BY <2>0, <2>2 DEF Put
  <2>3. ASSUME NEW q \in Runs, Start(q) PROVE FALSE
    BY <2>0, <2>3 DEF Start, Put, NoScan
  <2>4. ASSUME NEW q \in Runs, NEW t \in Types, Load(q, t) PROVE FALSE
    BY <2>0, <2>4 DEF Load, Put, Run
  <2>5. ASSUME NEW q \in Runs, NEW s \in Subjects, Resolve(q, s) PROVE FALSE
    BY <2>0, <2>5 DEF Resolve, Put, Run
  <2>6. ASSUME NEW q \in Runs, Record(q) \/ RecordFails(q) PROVE FALSE
    BY <2>0, <2>6 DEF Record, RecordFails, Sent, Put, Run
  <2>7. ASSUME NEW q \in Runs, End(q) \/ Crash(q) PROVE FALSE
    BY <2>0, <2>7 DEF End, Crash, Put, NoScan
  <2>8. ASSUME NEW q \in Runs, NEW s \in Subjects, NEW u \in Users, DispatchFails(q, s, u) PROVE FALSE
    BY <2>0, <2>8 DEF DispatchFails, Put, Run
  <2>9. ASSUME NEW q \in Runs, Stall(q) PROVE FALSE
    BY <2>9 DEF Stall
  <2>10. ASSUME Aged PROVE FALSE
    BY <2>10, AgedScans DEF ReminderInv
  <2> QED
    BY <2>1, <2>3, <2>4, <2>5, <2>6, <2>7, <2>8, <2>9, <2>10
       DEF ReminderNext, RunStep, Trouble, Tick, Edit
<1> QED
  BY <1>1, ReminderInvariantCorrect, PTL DEF ReminderSpec, AptUnlessStale
=============================================================================
