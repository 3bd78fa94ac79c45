------------------------------- MODULE WorkItems -------------------------------
(***************************************************************************)
(* One row with a status machine: a task, a project, a request for a       *)
(* document, or the approval of a document.  Their services share one      *)
(* shape: read the row, check the status read, write by id.  The write     *)
(* filters on id, tenant and deletedAt, never on the status, so what a     *)
(* call writes may rest on a row that another call has changed since.      *)
(*                                                                         *)
(* Left out: fields that no status check reads, reasons and comments,      *)
(* notifications, and the audit of documents (as that of tasks).           *)
(***************************************************************************)
EXTENDS Naturals

CONSTANTS
    Calls,      \* requests in flight (bound)
    MaxRounds   \* approval requests made of one document (bound)

ASSUME RoundsAssumption == MaxRounds \in Nat

VARIABLES
    item,       \* the row
    calls,      \* what each request in flight has read and is about to write
    last,       \* target status of the last audit record of a task
    overtaken,  \* observation: what had changed under a call that wrote
    astray      \* observation: audit records lost, or written out of turn

vars == <<item, calls, last, overtaken, astray>>

-----------------------------------------------------------------------------
Kinds == {"task", "project", "request", "approval"}

(* Tasks with and without a type start in two families of statuses.          *)
SimpleFlow == {"TODO", "IN_PROGRESS", "REVIEW", "COMPLETED", "CANCELLED"}
ApprovalFlow == {"REQUESTED", "SUBMITTED", "UNDER_REVIEW", "APPROVED", "REJECTED",
                 "COMPLETED", "CANCELLED"}

Statuses ==
    [task |-> SimpleFlow \union ApprovalFlow,
     project |-> {"DRAFT", "PLANNED", "ACTIVE", "ON_HOLD", "COMPLETED", "CANCELLED", "ARCHIVED"},
     request |-> {"PENDING", "FULFILLED", "CANCELLED"},
     approval |-> {"NOT_REQUIRED", "PENDING_APPROVAL", "APPROVED", "REJECTED"}]

AnyStatus == UNION {Statuses[k] : k \in Kinds}

Starts == [task |-> {"TODO", "REQUESTED"}, project |-> {"DRAFT"},
           request |-> {"PENDING"}, approval |-> {"NOT_REQUIRED"}]

(* Variant: a submitted task may be completed at once.                       *)
HastyMoves ==
    ({"TODO"} \X {"IN_PROGRESS", "CANCELLED"}) \union ({"IN_PROGRESS"} \X {"REVIEW"})
    \union ({"REVIEW"} \X {"COMPLETED"}) \union ({"REQUESTED"} \X {"SUBMITTED"})
    \union ({"SUBMITTED"} \X {"APPROVED", "COMPLETED"}) \union ({"APPROVED"} \X {"COMPLETED"})
TaskMoves ==
    ({"TODO"} \X {"IN_PROGRESS", "CANCELLED"})
    \union ({"IN_PROGRESS"} \X {"REVIEW", "CANCELLED"})
    \union ({"REVIEW"} \X {"IN_PROGRESS", "COMPLETED", "CANCELLED"})
    \union ({"REQUESTED"} \X {"SUBMITTED", "CANCELLED"})
    \union ({"SUBMITTED"} \X {"UNDER_REVIEW", "APPROVED", "REJECTED", "CANCELLED"})
    \union ({"UNDER_REVIEW"} \X {"APPROVED", "REJECTED", "CANCELLED"})
    \union {<<"APPROVED", "COMPLETED">>, <<"REJECTED", "REQUESTED">>,
            <<"COMPLETED", "IN_PROGRESS">>}

(* Variant: a cancelled project may be planned again.                        *)
RevivingMoves == ({"DRAFT", "CANCELLED"} \X {"PLANNED", "CANCELLED"})
                     \union ({"PLANNED"} \X {"ACTIVE", "CANCELLED"})
ProjectMoves ==
    ({"DRAFT"} \X {"PLANNED", "CANCELLED"})
    \union ({"PLANNED", "ON_HOLD"} \X {"ACTIVE", "CANCELLED"})
    \union ({"ACTIVE"} \X {"ON_HOLD", "COMPLETED", "CANCELLED"})
    \union {<<"COMPLETED", "ACTIVE">>}

Archival == {<<"COMPLETED", "ARCHIVED">>}
RequestMoves == {"PENDING"} \X {"FULFILLED", "CANCELLED"}
Requests == {"NOT_REQUIRED", "REJECTED"} \X {"PENDING_APPROVAL"}
Decisions == {"PENDING_APPROVAL"} \X {"APPROVED", "REJECTED"}

Moves == [task |-> TaskMoves, project |-> ProjectMoves \union Archival,
          request |-> RequestMoves, approval |-> Requests \union Decisions]

Deletable == [task |-> {"TODO", "REQUESTED", "CANCELLED"},
              project |-> {"DRAFT", "PLANNED", "CANCELLED"},
              request |-> {}, approval |-> Statuses.approval]

(* stamp: completedAt, fulfilledAt with its document, reviewedAt.  approved  *)
(* is a task's approvedBy.  round counts the approval requests, judged is    *)
(* the round that the last decision was read for.                            *)
Item == [kind : Kinds, began : AnyStatus, status : AnyStatus, life : {"live", "deleted"},
         stamp : {"none", "set"}, approved : {"no", "yes"}, round : Nat, judged : Nat]

Row(k, s) == [kind |-> k, began |-> s, status |-> s, life |-> "live", stamp |-> "none",
              approved |-> "no", round |-> 0, judged |-> 0]

(* A call: its step, the status and round it read, the status it will write. *)
Call == [step : {"idle", "recheck", "write", "delete", "restore", "audit"},
         read : AnyStatus, round : Nat, to : AnyStatus]

At(s, to) == [step |-> s, read |-> item.status, round |-> item.round, to |-> to]
Idle == [step |-> "idle", read |-> "CANCELLED", round |-> 0, to |-> "CANCELLED"]

TypeOK == /\ item \in Item
          /\ calls \in [Calls -> Call]
          /\ last \in AnyStatus
          /\ overtaken \subseteq {"status", "life"}
          /\ astray \in {"no", "yes"}

(* createTask with and without a type, createProject, createRequest, upload. *)
Init == /\ \E k \in Kinds : \E s \in Starts[k] :
             /\ item = Row(k, s)
             /\ last = IF k = "task" THEN s ELSE "CANCELLED"
        /\ calls = [c \in Calls |-> Idle]
        /\ overtaken = {}
        /\ astray = "no"

-----------------------------------------------------------------------------
Take(c, s, to) == calls' = [calls EXCEPT ![c] = At(s, to)]
Reply(c) == calls' = [calls EXCEPT ![c] = Idle]

(* assertValidTransition, "only COMPLETED can be archived", "only PENDING".  *)
Allowed(to) == /\ <<item.status, to>> \in Moves[item.kind]
               /\ to = "PENDING_APPROVAL" => item.round < MaxRounds

(* The first half of every operation that changes the status.                *)
BeginChange(c, to) ==
    /\ calls[c].step = "idle"
    /\ item.life = "live"
    /\ Allowed(to)
    /\ Take(c, "write", to)
    /\ UNCHANGED <<item, last, overtaken, astray>>

(* reopenTask picks the target from one read, updateTaskStatus reads again.  *)
BeginReopen(c) ==
    /\ calls[c].step = "idle"
    /\ item.kind = "task" /\ item.life = "live"
    /\ \/ item.status = "COMPLETED" /\ Take(c, "recheck", "IN_PROGRESS")
       \/ item.status = "REJECTED" /\ Take(c, "recheck", "REQUESTED")
    /\ UNCHANGED <<item, last, overtaken, astray>>

Recheck(c) ==
    /\ calls[c].step = "recheck"
    /\ IF item.life = "live" /\ Allowed(calls[c].to)
       THEN Take(c, "write", calls[c].to)
       ELSE Reply(c)
    /\ UNCHANGED <<item, last, overtaken, astray>>

(* deleteTask and deleteProject check the status; deleteDocument does not.   *)
BeginDelete(c) ==
    /\ calls[c].step = "idle"
    /\ item.life = "live"
    /\ item.status \in Deletable[item.kind]
    /\ Take(c, "delete", item.status)
    /\ UNCHANGED <<item, last, overtaken, astray>>

BeginRestore(c) ==
    /\ calls[c].step = "idle"
    /\ item.kind \in {"task", "project"} /\ item.life = "deleted"
    /\ Take(c, "restore", item.status)
    /\ UNCHANGED <<item, last, overtaken, astray>>

-----------------------------------------------------------------------------
Changed(c) == calls[c].read # item.status \/ calls[c].round # item.round
Note(c, life) == overtaken' = overtaken
                    \union (IF Changed(c) THEN {"status"} ELSE {})
                    \union (IF item.life # life THEN {"life"} ELSE {})

(* Variant: reopening keeps the stamp.                                       *)
StampKept(from, to) == IF to \in {"COMPLETED", "FULFILLED", "APPROVED", "REJECTED"}
                       THEN "set" ELSE item.stamp

(* completedAt is set on entering COMPLETED and cleared by a call that read  *)
(* COMPLETED; archiving leaves it.  The others write it with the status.     *)
Stamp(from, to) ==
    CASE item.kind \in {"task", "project"} ->
           IF to = "COMPLETED" THEN "set"
           ELSE IF from = "COMPLETED" /\ to # "ARCHIVED" THEN "none" ELSE item.stamp
      [] item.kind = "request" -> IF to = "FULFILLED" THEN "set" ELSE item.stamp
      [] item.kind = "approval" -> IF to = "PENDING_APPROVAL" THEN "none" ELSE "set"

Written(c) ==
    LET to == calls[c].to IN
    [kind |-> item.kind, began |-> item.began, status |-> to, life |-> item.life,
     stamp |-> Stamp(calls[c].read, to),
     approved |-> IF item.kind = "task" /\ to = "APPROVED" THEN "yes" ELSE item.approved,
     round |-> IF to = "PENDING_APPROVAL" THEN item.round + 1 ELSE item.round,
     judged |-> IF <<calls[c].read, to>> \in Decisions THEN calls[c].round ELSE item.judged]

(* BaseRepository.update: updateMany on a live row, whatever its status.  An *)
(* update that met a deleted row changes nothing and is audited all the      *)
(* same; only then does the missing row fail the call.                       *)
Write(c) ==
    /\ calls[c].step = "write"
    /\ item' = IF item.life = "live" THEN Written(c) ELSE item
    /\ Note(c, "live")
    /\ IF item.kind = "task" THEN calls' = [calls EXCEPT ![c].step = "audit"] ELSE Reply(c)
    /\ astray' = IF \E d \in Calls : calls[d].step = "audit" THEN "yes" ELSE astray
    /\ UNCHANGED last

Delete(c) ==
    /\ calls[c].step = "delete"
    /\ item' = [item EXCEPT !.life = "deleted"]
    /\ Note(c, "live")
    /\ Reply(c)
    /\ UNCHANGED <<last, astray>>

Restore(c) ==
    /\ calls[c].step = "restore"
    /\ item' = [item EXCEPT !.life = "live"]
    /\ Note(c, "deleted")
    /\ Reply(c)
    /\ UNCHANGED <<last, astray>>

(* AuditLogRecorder.record runs after the write and swallows its errors.     *)
Audit(c) ==
    /\ calls[c].step = "audit"
    /\ last' = calls[c].to
    /\ Reply(c)
    /\ UNCHANGED <<item, overtaken, astray>>

(* The process stops, or the record is lost.                                 *)
Stop(c) ==
    /\ calls[c].step # "idle"
    /\ astray' = IF calls[c].step = "audit" THEN "yes" ELSE astray
    /\ Reply(c)
    /\ UNCHANGED <<item, last, overtaken>>

Next == \E c \in Calls :
    \/ \E to \in Statuses[item.kind] : BeginChange(c, to)
    \/ BeginReopen(c) \/ Recheck(c)
    \/ BeginDelete(c) \/ BeginRestore(c)
    \/ Write(c) \/ Delete(c) \/ Restore(c)
    \/ Audit(c) \/ Stop(c)

Spec == Init /\ [][Next]_vars

-----------------------------------------------------------------------------
(* A closed row carries what closed it, whatever calls overlapped: COMPLETED *)
(* its completedAt, FULFILLED its document, a decided approval its review    *)
(* (and a pending one none), for the status and its stamp are one write.     *)
ClosedCarriesItsStamp ==
    /\ item.kind # "approval" /\ item.status \in {"COMPLETED", "FULFILLED"} => item.stamp = "set"
    /\ item.kind = "approval" => (item.stamp = "set" <=> item.status \in {"APPROVED", "REJECTED"})

(* A task that began in the approval workflow is COMPLETED, or in the simple *)
(* flow it is reopened into, only if somebody approved it once, and no       *)
(* overlap of calls gets round it: every read behind a completing write saw  *)
(* APPROVED, or a status that only an approved task reaches.                 *)
CompletionNeedsApproval ==
    item.began = "REQUESTED" /\ item.status \in SimpleFlow \ {"CANCELLED"}
        => item.approved = "yes"

(* When no write landed on a row that had changed since it was read, the     *)
(* stamp is there exactly while the row is closed, a deleted row is one that *)
(* may be deleted, and a decision was made for the round it decides.         *)
StampedIn == [task |-> {"COMPLETED"}, project |-> {"COMPLETED", "ARCHIVED"},
              request |-> {"FULFILLED"}, approval |-> {"APPROVED", "REJECTED"}]
Consistent == /\ item.stamp = "set" <=> item.status \in StampedIn[item.kind]
              /\ item.life = "deleted" => item.status \in Deletable[item.kind]
              /\ item.kind = "approval" /\ item.stamp = "set" => item.judged = item.round
InconsistentOnlyIfOvertaken == "status" \notin overtaken => Consistent

(* The last audit record of a task names its status once nothing is in       *)
(* flight: unless records were lost or overtook each other, or a change met  *)
(* a deleted row, which is audited though it did not happen.                 *)
Quiet == \A c \in Calls : calls[c].step # "audit"
AuditNamesStatus ==
    item.kind = "task" /\ Quiet /\ astray = "no" /\ "life" \notin overtaken
        => last = item.status

(* A status nothing leads out of is left only by a call that read the row    *)
(* before it was closed and wrote after.                                     *)
Final == {"CANCELLED", "ARCHIVED", "FULFILLED"}
FinalUnlessOvertaken ==
    [][item.status \in Final /\ item'.status # item.status => "status" \in overtaken']_vars
=============================================================================
