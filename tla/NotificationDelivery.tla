------------------------- MODULE NotificationDelivery -------------------------
(***************************************************************************)
(* Delivery of notifications on the external channels (EMAIL, WHATSAPP,    *)
(* SMS): NotificationDispatchService.send and cancel in the API process,   *)
(* the delivery worker and the listener of failed jobs in the worker       *)
(* process, and the BullMQ queue between them.                             *)
(*                                                                         *)
(* All sends of the model are for one user, one channel and one dedupeKey: *)
(* other notifications touch neither each other's rows nor jobs.  A send   *)
(* makes at most one row and one job, with the row's id: all three are     *)
(* named by the send.  An IN_APP notification is one insert with status    *)
(* SENT and is not modelled; nor are isRead and the audit log, on which no *)
(* step depends.  The provider is a library: it accepts a message or not.  *)
(***************************************************************************)
EXTENDS Naturals

CONSTANTS
    Sends,      \* calls of send() (bound)
    Attempts,   \* notificationQueue's attempts
    MaxCrashes  \* processes that stop between two steps (bound)

ASSUME AttemptsAssumption == Attempts \in Nat \ {0}
ASSUME CrashAssumption == MaxCrashes \in Nat

VARIABLES
    status,      \* notifications.status, "absent" before the insert
    deleted,     \* notifications.deletedAt is set
    old,         \* notifications created more than DEDUPE_WINDOW_MS ago
    sending,     \* where a call of send() is
    cancelling,  \* where a call of cancel() is
    jobs,        \* the queue: [state, attemptsMade]
    working,     \* where the worker is in an active job
    failing,     \* where the 'failed' listener is
    stalled,     \* jobs that were found stalled once
    crashes,
    delivered,   \* observation: how often the provider accepted the message
    unrecorded,  \* observation: how often it did and SENT was not written
    orphaned     \* observation: rows whose send, cancel or listener died

vars == <<status, deleted, old, sending, cancelling, jobs, working, failing, stalled,
          crashes, delivered, unrecorded, orphaned>>
table == <<status, deleted, old>>
calls == <<sending, cancelling>>
worker == <<jobs, working, failing, stalled>>
observed == <<delivered, unrecorded, orphaned>>

-----------------------------------------------------------------------------
NotificationStatus == {"PENDING", "SENT", "FAILED", "CANCELLED"}

Job == [state : {"none", "waiting", "active", "completed", "failed", "removed"},
        attemptsMade : 0..Attempts]

TypeOK ==
    /\ status \in [Sends -> NotificationStatus \union {"absent"}]
    /\ deleted \in SUBSET Sends
    /\ old \in SUBSET Sends
    /\ sending \in [Sends -> {"idle", "create", "enqueue", "done"}]
    /\ cancelling \in [Sends -> {"idle", "remove", "update"}]
    /\ jobs \in [Sends -> Job]
    /\ working \in [Sends -> {"none", "read", "fail", "send", "markSent", "count", "finish"}]
    /\ failing \in [Sends -> {"none", "read", "update"}]
    /\ stalled \in SUBSET Sends
    /\ crashes \in 0..MaxCrashes
    /\ delivered \in [Sends -> Nat]
    /\ unrecorded \in [Sends -> Nat]
    /\ orphaned \in SUBSET Sends

Init ==
    /\ status = [n \in Sends |-> "absent"]
    /\ deleted = {}
    /\ old = {}
    /\ sending = [n \in Sends |-> "idle"]
    /\ cancelling = [n \in Sends |-> "idle"]
    /\ jobs = [n \in Sends |-> [state |-> "none", attemptsMade |-> 0]]
    /\ working = [n \in Sends |-> "none"]
    /\ failing = [n \in Sends |-> "none"]
    /\ stalled = {}
    /\ crashes = 0
    /\ delivered = [n \in Sends |-> 0]
    /\ unrecorded = [n \in Sends |-> 0]
    /\ orphaned = {}

-----------------------------------------------------------------------------
(* send()                                                                    *)

(* findRecentByDedupeKey: a PENDING or SENT row of the last 24 hours. *)
Duplicates == {n \in Sends : status[n] \in {"PENDING", "SENT"} /\ n \notin deleted \union old}

CheckDuplicate(n) ==
    /\ sending[n] = "idle"
    /\ sending' = [sending EXCEPT ![n] = IF Duplicates # {} THEN "done" ELSE "create"]
    /\ UNCHANGED <<table, cancelling, worker, crashes, observed>>

(* The preferences forbid the channel; quiet hours delay the job instead. *)
SkipChannel(n) ==
    /\ sending[n] = "create"
    /\ sending' = [sending EXCEPT ![n] = "done"]
    /\ UNCHANGED <<table, cancelling, worker, crashes, observed>>

CreateRow(n) ==
    /\ sending[n] = "create"
    /\ status' = [status EXCEPT ![n] = "PENDING"]
    /\ sending' = [sending EXCEPT ![n] = "enqueue"]
    /\ UNCHANGED <<deleted, old, cancelling, worker, crashes, observed>>

(* A delayed job is one no worker claims yet. *)
Enqueue(n) ==
    /\ sending[n] = "enqueue"
    /\ jobs' = [jobs EXCEPT ![n].state = "waiting"]
    /\ sending' = [sending EXCEPT ![n] = "done"]
    /\ UNCHANGED <<table, cancelling, working, failing, stalled, crashes, observed>>

-----------------------------------------------------------------------------
(* cancel(), and the other requests on a row                                 *)

StartCancel(n) ==
    /\ cancelling[n] = "idle"
    /\ status[n] = "PENDING"
    /\ n \notin deleted
    /\ cancelling' = [cancelling EXCEPT ![n] = "remove"]
    /\ UNCHANGED <<table, sending, worker, crashes, observed>>

(* job.remove() of a job a worker has claimed leaves it, and throws or not;  *)
(* a job not enqueued yet is not found.                                      *)
RemoveJob(n) ==
    /\ cancelling[n] = "remove"
    /\ jobs' = IF jobs[n].state \in {"waiting", "failed", "completed"}
               THEN [jobs EXCEPT ![n].state = "removed"]
               ELSE jobs
    /\ \/ cancelling' = [cancelling EXCEPT ![n] = "update"]
       \/ /\ jobs[n].state = "active"
          /\ cancelling' = [cancelling EXCEPT ![n] = "idle"]
    /\ UNCHANGED <<table, sending, working, failing, stalled, crashes, observed>>

(* The update skips a row deleted meanwhile, and no other. *)
MarkCancelled(n) ==
    /\ cancelling[n] = "update"
    /\ status' = IF n \in deleted THEN status ELSE [status EXCEPT ![n] = "CANCELLED"]
    /\ cancelling' = [cancelling EXCEPT ![n] = "idle"]
    /\ UNCHANGED <<deleted, old, sending, worker, crashes, observed>>

DeleteNotification(n) ==
    /\ status[n] # "absent"
    /\ n \notin deleted
    /\ deleted' = deleted \union {n}
    /\ UNCHANGED <<status, old, calls, worker, crashes, observed>>

DedupeWindowPasses(n) ==
    /\ status[n] # "absent"
    /\ n \notin old
    /\ old' = old \union {n}
    /\ UNCHANGED <<status, deleted, calls, worker, crashes, observed>>

-----------------------------------------------------------------------------
(* The delivery worker                                                       *)

Claim(n) ==
    /\ jobs[n].state = "waiting"
    /\ jobs' = [jobs EXCEPT ![n].state = "active"]
    /\ working' = [working EXCEPT ![n] = "read"]
    /\ UNCHANGED <<table, calls, failing, stalled, crashes, observed>>

Complete(n) ==
    /\ jobs' = [jobs EXCEPT ![n].state = "completed"]
    /\ working' = [working EXCEPT ![n] = "none"]

(* Fault: the listener takes every failed job for one with retries left. *)
FailAttemptUnheard(n) ==
    LET made == jobs[n].attemptsMade + 1
    IN  /\ jobs' = [jobs EXCEPT ![n] = [state |-> IF made < Attempts THEN "waiting" ELSE "failed",
                                        attemptsMade |-> made]]
        /\ working' = [working EXCEPT ![n] = "none"]
        /\ UNCHANGED failing

(* A job that throws is tried again, or has failed. *)
FailAttempt(n) ==
    LET made == jobs[n].attemptsMade + 1
    IN  /\ jobs' = [jobs EXCEPT ![n] = [state |-> IF made < Attempts THEN "waiting" ELSE "failed",
                                        attemptsMade |-> made]]
        /\ failing' = [failing EXCEPT ![n] = IF made < Attempts THEN @ ELSE "read"]
        /\ working' = [working EXCEPT ![n] = "none"]

(* Fault: the row's status is not tested. *)
ReadAnyRow(n) ==
    /\ working[n] = "read"
    /\ \E next \in {"send", "fail"} : working' = [working EXCEPT ![n] = next]
    /\ UNCHANGED <<table, calls, jobs, failing, stalled, crashes, observed>>

(* A user without address or a provider not configured: FAILED, no retry. *)
ReadRow(n) ==
    /\ working[n] = "read"
    /\ IF status[n] = "PENDING"
       THEN /\ \E next \in {"send", "fail"} : working' = [working EXCEPT ![n] = next]
            /\ UNCHANGED jobs
       ELSE Complete(n)
    /\ UNCHANGED <<table, calls, failing, stalled, crashes, observed>>

MarkUndeliverable(n) ==
    /\ working[n] = "fail"
    /\ status' = [status EXCEPT ![n] = "FAILED"]
    /\ working' = [working EXCEPT ![n] = "finish"]
    /\ UNCHANGED <<deleted, old, calls, jobs, failing, stalled, crashes, observed>>

ProviderAccepts(n) ==
    /\ working[n] = "send"
    /\ delivered' = [delivered EXCEPT ![n] = @ + 1]
    /\ working' = [working EXCEPT ![n] = "markSent"]
    /\ UNCHANGED <<table, calls, jobs, failing, stalled, crashes, unrecorded, orphaned>>

ProviderRefuses(n) ==
    /\ working[n] = "send"
    /\ working' = [working EXCEPT ![n] = "count"]
    /\ UNCHANGED <<table, calls, jobs, failing, stalled, crashes, observed>>

MarkSent(n) ==
    /\ working[n] = "markSent"
    /\ status' = [status EXCEPT ![n] = "SENT"]
    /\ working' = [working EXCEPT ![n] = "finish"]
    /\ UNCHANGED <<deleted, old, calls, jobs, failing, stalled, crashes, observed>>

(* The audit event, then the job is done. *)
Finish(n) ==
    /\ working[n] = "finish"
    /\ Complete(n)
    /\ UNCHANGED <<table, calls, failing, stalled, crashes, observed>>

(* retryCount, then RetryableDeliveryError. *)
CountFailure(n) ==
    /\ working[n] = "count"
    /\ FailAttempt(n)
    /\ UNCHANGED <<table, calls, stalled, crashes, observed>>

(* A statement of the worker fails: BullMQ counts an attempt all the same. *)
StatementFails(n) ==
    /\ working[n] \in {"read", "fail", "markSent", "count"}
    /\ FailAttempt(n)
    /\ unrecorded' = [unrecorded EXCEPT ![n] = IF working[n] = "markSent" THEN @ + 1 ELSE @]
    /\ UNCHANGED <<table, calls, stalled, crashes, delivered, orphaned>>

(* handleNotificationJobExhausted *)
ReadExhausted(n) ==
    /\ failing[n] = "read"
    /\ failing' = [failing EXCEPT ![n] = IF status[n] = "PENDING" THEN "update" ELSE "none"]
    /\ UNCHANGED <<table, calls, jobs, working, stalled, crashes, observed>>

MarkExhausted(n) ==
    /\ failing[n] = "update"
    /\ status' = [status EXCEPT ![n] = "FAILED"]
    /\ failing' = [failing EXCEPT ![n] = "none"]
    /\ UNCHANGED <<deleted, old, calls, jobs, working, stalled, crashes, observed>>

-----------------------------------------------------------------------------
(* Processes stop                                                            *)

(* The worker process: its stalled job is run again, and is no attempt; a    *)
(* job stalled a second time (maxStalledCount) fails, retries left or not,   *)
(* and the listener goes by attemptsMade alone.                              *)
WorkerDies(n) ==
    /\ jobs[n].state = "active"
    /\ crashes < MaxCrashes
    /\ crashes' = crashes + 1
    /\ stalled' = stalled \union {n}
    /\ working' = [working EXCEPT ![n] = "none"]
    /\ unrecorded' = [unrecorded EXCEPT ![n] = IF working[n] = "markSent" THEN @ + 1 ELSE @]
    /\ LET made == jobs[n].attemptsMade + 1
       IN  \/ /\ n \notin stalled
              /\ jobs' = [jobs EXCEPT ![n].state = "waiting"]
              /\ UNCHANGED failing
           \/ /\ n \in stalled
              /\ jobs' = [jobs EXCEPT ![n] = [state |-> "failed", attemptsMade |-> made]]
              /\ failing' = [failing EXCEPT ![n] = IF made < Attempts THEN @ ELSE "read"]
    /\ UNCHANGED <<table, calls, delivered, orphaned>>

CallDies(n) ==
    /\ crashes < MaxCrashes
    /\ crashes' = crashes + 1
    /\ orphaned' = orphaned \union {n}
    /\ \/ /\ sending[n] = "enqueue"
          /\ sending' = [sending EXCEPT ![n] = "done"]
          /\ UNCHANGED <<cancelling, failing>>
       \/ /\ cancelling[n] = "update"
          /\ cancelling' = [cancelling EXCEPT ![n] = "idle"]
          /\ UNCHANGED <<sending, failing>>
       \/ /\ failing[n] # "none"
          /\ failing' = [failing EXCEPT ![n] = "none"]
          /\ UNCHANGED <<sending, cancelling>>
    /\ UNCHANGED <<table, jobs, working, stalled, delivered, unrecorded>>

-----------------------------------------------------------------------------
Send(n) == CheckDuplicate(n) \/ SkipChannel(n) \/ CreateRow(n) \/ Enqueue(n)

Cancel(n) == StartCancel(n) \/ RemoveJob(n) \/ MarkCancelled(n)

Work(n) ==
    \/ Claim(n) \/ ReadRow(n) \/ MarkUndeliverable(n)
    \/ ProviderAccepts(n) \/ ProviderRefuses(n)
    \/ MarkSent(n) \/ Finish(n) \/ CountFailure(n) \/ StatementFails(n)

Exhaust(n) == ReadExhausted(n) \/ MarkExhausted(n)

Next ==
    \E n \in Sends :
        \/ Send(n)
        \/ Cancel(n)
        \/ DeleteNotification(n)
        \/ DedupeWindowPasses(n)
        \/ Work(n)
        \/ Exhaust(n)
        \/ WorkerDies(n)
        \/ CallDies(n)

Spec == Init /\ [][Next]_vars

-----------------------------------------------------------------------------
(* The worker writes SENT only after the provider accepted the message, and  *)
(* nobody else writes it for an external channel, whatever was retried,      *)
(* cancelled or failed meanwhile.                                            *)
SentMeansDelivered ==
    \A n \in Sends : status[n] = "SENT" \/ working[n] = "markSent" => delivered[n] > 0

(* Rows that may stay PENDING: deleted ones, those whose call or listener    *)
(* died, and those whose job BullMQ gave up with attempts left.              *)
Stranded ==
    deleted \union orphaned
        \union {n \in Sends : jobs[n].state = "failed" /\ jobs[n].attemptsMade < Attempts}

(* Every other PENDING row has someone who will settle it: its send before   *)
(* the enqueue, a job, the listener of the exhausted job or a cancellation   *)
(* that has removed the job.                                                 *)
PendingIsCaredFor ==
    \A n \in Sends : status[n] = "PENDING" /\ n \notin Stranded =>
        \/ sending[n] = "enqueue"
        \/ jobs[n].state \in {"waiting", "active"}
        \/ failing[n] # "none"
        \/ cancelling[n] = "update"

(* A message is delivered once, and once more for each time the provider     *)
(* accepted it and SENT was not written: retries and stalled jobs never      *)
(* repeat a recorded delivery.                                               *)
DeliveriesRecorded ==
    \A n \in Sends : delivered[n] <= unrecorded[n] + 1
=============================================================================
