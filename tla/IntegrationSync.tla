---------------------------- MODULE IntegrationSync ----------------------------
(***************************************************************************)
(* Synchronisation of one connected third-party integration: the sync      *)
(* engine and its three triggers (a person, the scheduled scan, a webhook),*)
(* the webhook service, the two BullMQ queues and their workers.           *)
(*                                                                         *)
(* A sync's queue job carries the sync's id, a webhook job's the log's, so *)
(* row and job are both named by the item.  A log is named by its          *)
(* externalEventId, which is unique.  Nothing deletes a connection.  The   *)
(* integration_jobs rows are a history no step reads, and are left out:    *)
(* the insert of one is part of the step that enqueues its item.  Time is  *)
(* free: nextSyncAt, once set, may have come or not, and two scheduled     *)
(* syncs fall in one slot of syncFrequencyMinutes or in two.               *)
(***************************************************************************)
EXTENDS Naturals, FiniteSets

CONSTANTS
    Syncs,      \* integration_syncs rows that may be created (bound)
    Events,     \* webhook events the provider may announce (bound)
    Callers,    \* requests and scans in flight (bound)
    Attempts,   \* attempts of both queues (the code's 3 and 5)
    MaxFaults,  \* statements that fail and processes that die (bound)
    None

ASSUME NamesAssumption == None \notin Syncs \union Events /\ Syncs \intersect Events = {}
ASSUME AttemptsAssumption == Attempts \in Nat \ {0}
ASSUME FaultAssumption == MaxFaults \in Nat

VARIABLES
    connection,  \* integration_connections row: [connected, auto, next set]
    syncs,       \* integration_syncs: [status, trigger, event]
    logs,        \* integration_webhook_logs.status, "absent" before the insert
    jobs,        \* BullMQ: [state, made]
    work,        \* where the worker is in an active job, and what it has read
    listeners,   \* logs whose job is exhausted and not yet marked FAILED
    calls,       \* requests and scans in flight
    stalled,     \* jobs found stalled once
    faults,
    off,         \* observation: disconnected and not connected again
    ignored,     \* observation: verified events the provider does not want processed
    dropped,     \* observation: items inserted and never enqueued, or with a lost listener
    raced,       \* observation: running syncs whose trigger passed its check beside another
    rerun        \* observation: running syncs that had a result stored before

tables == <<connection, syncs, logs>>
queue == <<jobs, work, listeners, stalled>>
observed == <<off, ignored, dropped, raced, rerun>>
vars == <<tables, queue, calls, faults, observed>>

-----------------------------------------------------------------------------
Items == Syncs \union Events

(* status = CONNECTED; PENDING, ERROR and DISCONNECTED are the same to all   *)
(* who read it.  auto: autoSyncEnabled, with a syncFrequencyMinutes.         *)
Connection == [connected : BOOLEAN, auto : BOOLEAN, next : BOOLEAN]

(* "ENDED" is SUCCESS, PARTIAL_SUCCESS or FAILED, which only the connection  *)
(* hears of.                                                                 *)
SyncRow == [status : {"absent", "PENDING", "RUNNING", "ENDED"},
            trigger : {"MANUAL", "SCHEDULED", "WEBHOOK", "none"},
            event : Events \union {None}]

LogStatus == {"absent", "REJECTED", "VERIFIED", "PROCESSED", "FAILED"}
Job == [state : {"none", "waiting", "active", "completed", "failed"}, made : Nat]

(* A worker that makes a sync for a webhook holds it in sync; one that runs  *)
(* a sync holds autoSyncEnabled as it read it, and whether the run failed.   *)
Steps == {"none", "start", "result", "connection",
          "create", "enqueue", "processed", "finish"}
Work == [step : Steps, auto : BOOLEAN, failed : BOOLEAN, sync : Syncs \union {None}]

(* A caller that passed its check goes to "insert", or to "contested" if it  *)
(* is not the only one.                                                      *)
Call == [step : {"none", "check", "insert", "contested", "enqueue"},
         trigger : {"none", "MANUAL", "SCHEDULED"},
         item : Items \union {None}]

TypeOK ==
    /\ connection \in Connection
    /\ syncs \in [Syncs -> SyncRow]
    /\ logs \in [Events -> LogStatus]
    /\ jobs \in [Items -> Job]
    /\ work \in [Items -> Work]
    /\ listeners \in SUBSET Events
    /\ calls \in [Callers -> Call]
    /\ stalled \in SUBSET Items
    /\ faults \in 0..MaxFaults
    /\ off \in BOOLEAN
    /\ ignored \in SUBSET Events
    /\ dropped \in SUBSET Items
    /\ raced \in SUBSET Syncs
    /\ rerun \in SUBSET Syncs

NoSync == [status |-> "absent", trigger |-> "none", event |-> None]
WorkAt(step) == [step |-> step, auto |-> FALSE, failed |-> FALSE, sync |-> None]
NoCall == [step |-> "none", trigger |-> "none", item |-> None]

Init ==
    /\ connection \in [connected : {FALSE}, auto : BOOLEAN, next : {FALSE}]
    /\ syncs = [s \in Syncs |-> NoSync]
    /\ logs = [e \in Events |-> "absent"]
    /\ jobs = [i \in Items |-> [state |-> "none", made |-> 0]]
    /\ work = [i \in Items |-> WorkAt("none")]
    /\ listeners = {}
    /\ calls = [c \in Callers |-> NoCall]
    /\ stalled = {}
    /\ faults = 0
    /\ off = FALSE
    /\ ignored = {}
    /\ dropped = {}
    /\ raced = {}
    /\ rerun = {}

-----------------------------------------------------------------------------
(* The connection                                                            *)

(* Connecting, or storing new credentials.  nextSyncAt is left alone; a      *)
(* provider that is not registered leaves the status PENDING.                *)
Connect ==
    /\ \E connected, auto \in BOOLEAN :
          connection' = [connected |-> connected, auto |-> auto, next |-> connection.next]
    /\ off' = FALSE
    /\ UNCHANGED <<syncs, logs, queue, calls, faults, ignored, dropped, raced, rerun>>

(* Fault: the schedule is left on. *)
DisconnectStatusOnly ==
    /\ connection' = [connection EXCEPT !.connected = FALSE]
    /\ off' = TRUE
    /\ UNCHANGED <<syncs, logs, queue, calls, faults, ignored, dropped, raced, rerun>>

Disconnect ==
    /\ connection' = [connected |-> FALSE, auto |-> FALSE, next |-> FALSE]
    /\ off' = TRUE
    /\ UNCHANGED <<syncs, logs, queue, calls, faults, ignored, dropped, raced, rerun>>

-----------------------------------------------------------------------------
(* Triggering a sync                                                         *)

Active(s) == syncs[s].status \in {"PENDING", "RUNNING"}

(* Fault: only a run that has started counts. *)
HasRunningRun == \E s \in Syncs : syncs[s].status = "RUNNING"

HasActiveRun == \E s \in Syncs : Active(s)

(* findDueForScheduledSync *)
Due ==
    /\ connection.connected
    /\ connection.auto
    /\ connection.next

AtCheck == [step |-> "check", trigger |-> "SCHEDULED", item |-> None]
AtInsert(step, trigger) == [step |-> step, trigger |-> trigger, item |-> None]
AtEnqueue(item) == [step |-> "enqueue", trigger |-> "none", item |-> item]

Inserting(c) == calls[c].step \in {"insert", "contested"}

(* The caller goes on to the insert, beside every other one on its way there. *)
PassCheck(c, trigger) ==
    LET beside == {d \in Callers \ {c} : Inserting(d)}
    IN  calls' = [d \in Callers |->
                    IF d = c THEN AtInsert(IF beside = {} THEN "insert" ELSE "contested", trigger)
                    ELSE IF d \in beside THEN AtInsert("contested", calls[d].trigger)
                    ELSE calls[d]]

(* triggerManual; with a run active it answers 409 and nothing changes. *)
TriggerManual(c) ==
    /\ calls[c].step = "none"
    /\ ~HasActiveRun
    /\ PassCheck(c, "MANUAL")
    /\ UNCHANGED <<tables, queue, faults, observed>>

(* The scan reads the due connections, then asks for each. *)
ScanFindsDue(c) ==
    /\ calls[c].step = "none"
    /\ Due
    /\ calls' = [calls EXCEPT ![c] = AtCheck]
    /\ UNCHANGED <<tables, queue, faults, observed>>

TriggerScheduled(c) ==
    /\ calls[c].step = "check"
    /\ IF HasActiveRun
       THEN calls' = [calls EXCEPT ![c] = NoCall]
       ELSE PassCheck(c, "SCHEDULED")
    /\ UNCHANGED <<tables, queue, faults, observed>>

InsertSync(s, trigger, event) ==
    /\ syncs[s].status = "absent"
    /\ syncs' = [syncs EXCEPT ![s] = [status |-> "PENDING", trigger |-> trigger, event |-> event]]

CreateSync(c, s) ==
    /\ Inserting(c)
    /\ InsertSync(s, calls[c].trigger, None)
    /\ calls' = [calls EXCEPT ![c] = AtEnqueue(s)]
    /\ raced' = IF calls[c].step = "contested" THEN raced \union {s} ELSE raced
    /\ UNCHANGED <<connection, logs, queue, faults, off, ignored, dropped, rerun>>

(* P2002 on the unique idempotencyKey: the slot has its sync.  The key of a  *)
(* manual sync is random.                                                    *)
SlotTaken(c) ==
    /\ Inserting(c)
    /\ calls[c].trigger = "SCHEDULED"
    /\ \E s \in Syncs : syncs[s].trigger = "SCHEDULED"
    /\ calls' = [calls EXCEPT ![c] = NoCall]
    /\ UNCHANGED <<tables, queue, faults, observed>>

-----------------------------------------------------------------------------
(* A webhook arrives; a provider may send it any number of times             *)

(* The log, of a valid signature or not.  A replay finds the log and is      *)
(* answered 200 with nothing done.                                           *)
LogWebhook(c, e) ==
    /\ calls[c].step = "none"
    /\ logs[e] = "absent"
    /\ \/ /\ logs' = [logs EXCEPT ![e] = "REJECTED"]
          /\ UNCHANGED <<calls, ignored>>
       \/ /\ logs' = [logs EXCEPT ![e] = "VERIFIED"]
          /\ \/ ignored' = ignored \union {e} /\ UNCHANGED calls
             \/ /\ calls' = [calls EXCEPT ![c] = AtEnqueue(e)]
                /\ UNCHANGED ignored
    /\ UNCHANGED <<connection, syncs, queue, faults, off, dropped, raced, rerun>>

JobBecomes(i, state) == jobs' = [jobs EXCEPT ![i] = [state |-> state, made |-> jobs[i].made]]

(* Both kinds of item get their integration_jobs row, and then their job. *)
Enqueue(c) ==
    /\ calls[c].step = "enqueue"
    /\ JobBecomes(calls[c].item, "waiting")
    /\ calls' = [calls EXCEPT ![c] = NoCall]
    /\ UNCHANGED <<tables, work, listeners, stalled, faults, observed>>

(* Any of the failures below. *)
Fault == faults < MaxFaults /\ faults' = faults + 1

(* A statement or the queue refuses, or the process dies. *)
CallFails(c) ==
    /\ calls[c].step # "none"
    /\ Fault
    /\ dropped' = IF calls[c].step = "enqueue" THEN dropped \union {calls[c].item} ELSE dropped
    /\ calls' = [calls EXCEPT ![c] = NoCall]
    /\ UNCHANGED <<tables, queue, off, ignored, raced, rerun>>

-----------------------------------------------------------------------------
(* The workers                                                               *)

At(i, step) == work[i].step = step
Goto(i, step) == work' = [work EXCEPT ![i] = WorkAt(step)]

Claim(i) ==
    /\ jobs[i].state = "waiting"
    /\ JobBecomes(i, "active")
    /\ Goto(i, IF i \in Syncs THEN "start" ELSE "create")
    /\ UNCHANGED <<tables, listeners, calls, stalled, faults, observed>>

StatusBecomes(s, status) ==
    syncs' = [syncs EXCEPT ![s] = [status |-> status, trigger |-> syncs[s].trigger,
                                   event |-> syncs[s].event]]

(* executeSync reads the sync and the connection once, and writes RUNNING.   *)
StartRun(s) ==
    /\ At(s, "start")
    /\ work' = [work EXCEPT ![s] = [step |-> "result", auto |-> connection.auto,
                                    failed |-> FALSE, sync |-> None]]
    /\ StatusBecomes(s, "RUNNING")
    /\ rerun' = IF syncs[s].status = "ENDED" THEN rerun \union {s} ELSE rerun
    /\ UNCHANGED <<connection, logs, jobs, listeners, calls, stalled, faults,
                   off, ignored, dropped, raced>>

(* resolveStatus gives FAILED; a provider that throws processed nothing.      *)
RunFailed(success, processed, succeeded, failed) ==
    \/ ~success /\ processed = 0
    \/ failed > 0 /\ succeeded = 0

HasResult(s, failed) ==
    [step |-> "connection", auto |-> work[s].auto, failed |-> failed, sync |-> None]

(* Fault: a run with no failed record is never closed. *)
StoreFailedResult(s) ==
    /\ At(s, "result")
    /\ \E failed \in BOOLEAN :
          /\ IF failed THEN StatusBecomes(s, "ENDED") ELSE UNCHANGED syncs
          /\ work' = [work EXCEPT ![s] = HasResult(s, failed)]
    /\ raced' = raced \ {s}
    /\ rerun' = rerun \ {s}
    /\ UNCHANGED <<connection, logs, jobs, listeners, calls, stalled, faults,
                   off, ignored, dropped>>

StoreResult(s) ==
    /\ At(s, "result")
    /\ StatusBecomes(s, "ENDED")
    /\ \E success \in BOOLEAN, processed, succeeded, failed \in 0..1 :
          work' = [work EXCEPT ![s] = HasResult(s, RunFailed(success, processed, succeeded, failed))]
    /\ raced' = raced \ {s}
    /\ rerun' = rerun \ {s}
    /\ UNCHANGED <<connection, logs, jobs, listeners, calls, stalled, faults,
                   off, ignored, dropped>>

(* updateAfterSync: the schedule goes by what was read before the run. *)
UpdateAfterSync(s) ==
    /\ At(s, "connection")
    /\ connection' = [connected |-> ~work[s].failed, auto |-> connection.auto,
                      next |-> work[s].auto]
    /\ Goto(s, "finish")
    /\ UNCHANGED <<syncs, logs, jobs, listeners, calls, stalled, faults, observed>>

(* triggerWebhook makes the sync, without a check for an active run; the     *)
(* idempotencyKey holds the log's id, so a job run again finds it there.     *)
Triggered(e) == \E s \in Syncs : syncs[s].event = e

TriggerWebhook(e, s) ==
    /\ At(e, "create")
    /\ ~Triggered(e)
    /\ InsertSync(s, "WEBHOOK", e)
    /\ work' = [work EXCEPT ![e] = [step |-> "enqueue", auto |-> FALSE,
                                    failed |-> FALSE, sync |-> s]]
    /\ UNCHANGED <<connection, logs, jobs, listeners, calls, stalled, faults, observed>>

TriggeredBefore(e) ==
    /\ At(e, "create")
    /\ Triggered(e)
    /\ Goto(e, "processed")
    /\ UNCHANGED <<tables, jobs, listeners, calls, stalled, faults, observed>>

EnqueueSync(e) ==
    /\ At(e, "enqueue")
    /\ JobBecomes(work[e].sync, "waiting")
    /\ Goto(e, "processed")
    /\ UNCHANGED <<tables, listeners, calls, stalled, faults, observed>>

MarkProcessed(e) ==
    /\ At(e, "processed")
    /\ logs' = [logs EXCEPT ![e] = "PROCESSED"]
    /\ Goto(e, "finish")
    /\ UNCHANGED <<connection, syncs, jobs, listeners, calls, stalled, faults, observed>>

Complete(i) ==
    /\ At(i, "finish")
    /\ JobBecomes(i, "completed")
    /\ Goto(i, "none")
    /\ UNCHANGED <<tables, listeners, calls, stalled, faults, observed>>

-----------------------------------------------------------------------------
(* Failed attempts, and the 'failed' listeners                               *)

(* What the worker leaves half made when it stops: a sync without a job. *)
LeavesBehind(i) == IF work[i].step = "enqueue" THEN {work[i].sync} ELSE {}

(* Fault: one attempt more than the queue makes. *)
ExhaustedLate(i, made) == IF i \in Events /\ made > Attempts THEN {i} ELSE {}

(* The 'failed' listener writes the log of an exhausted webhook job only.    *)
Exhausted(i, made) == IF i \in Events /\ made >= Attempts THEN {i} ELSE {}

FailAttempt(i) ==
    LET made == jobs[i].made + 1
    IN  /\ jobs' = [jobs EXCEPT ![i] = [state |-> IF made < Attempts THEN "waiting" ELSE "failed",
                                        made |-> made]]
        /\ listeners' = listeners \union Exhausted(i, made)
        /\ Goto(i, "none")

(* A statement throws, or the credentials cannot be decrypted. *)
StatementFails(i) ==
    /\ work[i].step # "none"
    /\ Fault
    /\ FailAttempt(i)
    /\ dropped' = dropped \union LeavesBehind(i)
    /\ UNCHANGED <<tables, calls, stalled, off, ignored, raced, rerun>>

(* The job of a dead worker runs again, and is no attempt; one that stalls   *)
(* a second time fails, retries left or not, and the listener hears of it.   *)
WorkerDies(i) ==
    /\ jobs[i].state = "active"
    /\ Fault
    /\ stalled' = stalled \union {i}
    /\ dropped' = dropped \union LeavesBehind(i)
    /\ Goto(i, "none")
    /\ LET made == jobs[i].made + 1
       IN  \/ /\ i \notin stalled
              /\ JobBecomes(i, "waiting")
              /\ UNCHANGED listeners
           \/ /\ i \in stalled
              /\ jobs' = [jobs EXCEPT ![i] = [state |-> "failed", made |-> made]]
              /\ listeners' = listeners \union Exhausted(i, made)
    /\ UNCHANGED <<tables, calls, off, ignored, raced, rerun>>

(* handleIntegrationWebhookJobExhausted; the one of syncs leaves the sync    *)
(* as it is.                                                                 *)
MarkFailed(e) ==
    /\ e \in listeners
    /\ listeners' = listeners \ {e}
    /\ logs' = [logs EXCEPT ![e] = "FAILED"]
    /\ UNCHANGED <<connection, syncs, jobs, work, calls, stalled, faults, observed>>

ListenerFails(e) ==
    /\ e \in listeners
    /\ Fault
    /\ listeners' = listeners \ {e}
    /\ dropped' = dropped \union {e}
    /\ UNCHANGED <<tables, jobs, work, calls, stalled, off, ignored, raced, rerun>>

-----------------------------------------------------------------------------
Trigger(c) ==
    \/ TriggerManual(c)
    \/ ScanFindsDue(c)
    \/ \E e \in Events : LogWebhook(c, e)

Continue(c) ==
    \/ TriggerScheduled(c)
    \/ \E s \in Syncs : CreateSync(c, s)
    \/ SlotTaken(c)
    \/ Enqueue(c)
    \/ CallFails(c)

RunSync(s) == StartRun(s) \/ StoreResult(s) \/ UpdateAfterSync(s)

RunWebhook(e) ==
    \/ \E s \in Syncs : TriggerWebhook(e, s)
    \/ TriggeredBefore(e)
    \/ EnqueueSync(e)
    \/ MarkProcessed(e)

RunJob(i) ==
    \/ Claim(i)
    \/ i \in Syncs /\ RunSync(i)
    \/ i \in Events /\ RunWebhook(i)
    \/ Complete(i)
    \/ StatementFails(i)

Listen(e) == MarkFailed(e) \/ ListenerFails(e)

Next ==
    \/ Connect
    \/ Disconnect
    \/ \E c \in Callers : Trigger(c) \/ Continue(c)
    \/ \E i \in Items : RunJob(i) \/ WorkerDies(i)
    \/ \E e \in Events : Listen(e)

Spec == Init /\ [][Next]_vars

-----------------------------------------------------------------------------
(* The trigger, or the webhook worker, that is about to enqueue an item. *)
InHand(i) ==
    \/ \E c \in Callers : calls[c].item = i /\ calls[c].step = "enqueue"
    \/ \E e \in Events : work[e].sync = i

(* Runs the code lets go: their trigger stopped between the insert and the   *)
(* queue, or their job used up its attempts or stalled twice.                *)
StrandedRun(s) == s \in dropped \/ jobs[s].state = "failed"

(* A run that has not ended is about to be enqueued, queued or running, or   *)
(* is one of those: a completed job always leaves its run ended.             *)
RunsAccountedFor ==
    \A s \in Syncs : Active(s) /\ ~StrandedRun(s) =>
        InHand(s) \/ jobs[s].state \in {"waiting", "active"}

(* A verified event to be processed is in hand, queued or being worked on,   *)
(* is about to be marked FAILED, or was let go by a caller or listener that  *)
(* stopped or a job that stalled twice; a processed one has its sync.        *)
EventsAccountedFor ==
    \A e \in Events :
        /\ logs[e] = "VERIFIED" /\ e \notin ignored \union dropped =>
              \/ InHand(e)
              \/ jobs[e].state \in {"waiting", "active"}
              \/ e \in listeners
              \/ jobs[e].state = "failed" /\ jobs[e].made < Attempts
        /\ logs[e] = "PROCESSED" => Triggered(e)

(* An unfinished run that a trigger who checks must have found, were it there. *)
Counts(s) ==
    /\ Active(s)
    /\ syncs[s].trigger \in {"MANUAL", "SCHEDULED"}
    /\ s \notin rerun

(* Two runs of a connection overlap only if one came from a webhook, one was *)
(* started again by the queue, or both triggers passed the overlap guard at  *)
(* the same time; and the queue starts a run again only after a failed       *)
(* attempt or a stall.                                                       *)
OverlapsExplained ==
    /\ \A s, t \in Syncs : s # t /\ Counts(s) /\ Counts(t) => s \in raced /\ t \in raced
    /\ \A s \in rerun : jobs[s].made > 0 \/ s \in stalled

(* A disconnected connection is not scheduled again, whatever a run that     *)
(* began earlier writes over it.                                             *)
DisconnectedIsNotDue == off => ~Due
=============================================================================
