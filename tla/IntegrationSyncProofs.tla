------------------------- MODULE IntegrationSyncProofs -------------------------
(***************************************************************************)
(* Theorems about IntegrationSync, for any number of syncs, events and     *)
(* callers in flight, every number of attempts and any number of faults.   *)
(***************************************************************************)
EXTENDS IntegrationSync, TLAPS

(* The inductive invariant                                                   *)

(* A call holds an item exactly when it is about to enqueue it. *)
CallsAreSound ==
    \A c \in Callers :
        /\ calls[c].step = "enqueue" <=> calls[c].item # None
        /\ calls[c].step = "check" \/ Inserting(c) => calls[c].trigger \in {"MANUAL", "SCHEDULED"}

(* A job is active exactly while a worker is somewhere in it. *)
WorkIsSound ==
    \A i \in Items :
        /\ work[i].step # "none" <=> jobs[i].state = "active"
        /\ work[i].sync # None <=> work[i].step = "enqueue"
        /\ work[i].step \in IF i \in Syncs THEN {"none", "start", "result", "connection", "finish"}
                            ELSE {"none", "create", "enqueue", "processed", "finish"}

(* An item in hand is in one hand, and has no job yet. *)
OneHand ==
    /\ \A c, d \in Callers :
          c # d /\ calls[c].step = "enqueue" => calls[c].item # calls[d].item
    /\ \A e, f \in Events :
          e # f /\ work[e].step = "enqueue" => work[e].sync # work[f].sync
    /\ \A c \in Callers, e \in Events :
          calls[c].step = "enqueue" => calls[c].item # work[e].sync
    /\ \A i \in Items :
          InHand(i) => /\ jobs[i].state = "none"
                       /\ i \in Syncs => syncs[i].status = "PENDING"
                       /\ i \in Events => logs[i] = "VERIFIED"

(* What a sync's job tells of its row. *)
RunsFollowJobs ==
    \A s \in Syncs :
        /\ syncs[s].status = "absent" =>
              jobs[s].state = "none" /\ syncs[s].event = None
        /\ jobs[s].state = "none" => syncs[s].status \in {"absent", "PENDING"}
        /\ work[s].step = "result" => syncs[s].status = "RUNNING"
        /\ work[s].step \in {"connection", "finish"} => syncs[s].status = "ENDED"
        /\ jobs[s].state = "completed" => syncs[s].status = "ENDED"
        /\ s \in rerun => syncs[s].status = "RUNNING"
        /\ jobs[s].made = 0 /\ s \notin stalled =>
              (jobs[s].state = "waiting" \/ work[s].step = "start" => syncs[s].status = "PENDING")

(* What a webhook's job tells of its log. *)
EventsFollowJobs ==
    \A e \in Events :
        /\ jobs[e].state # "none" => logs[e] \in {"VERIFIED", "PROCESSED", "FAILED"}
        /\ e \in listeners => jobs[e].state = "failed"
        /\ logs[e] = "FAILED" => jobs[e].state = "failed"
        /\ work[e].step = "enqueue" => syncs[work[e].sync].event = e
        /\ work[e].step \in {"processed", "finish"} => Triggered(e)
        /\ work[e].step = "finish" \/ jobs[e].state = "completed" => logs[e] = "PROCESSED"

(* A caller on its way to the insert is alone, or marked with all it may meet. *)
ChecksAreSound ==
    \A c \in Callers : Inserting(c) =>
        /\ \A d \in Callers : d # c /\ Inserting(d) => calls[c].step = "contested"
        /\ \A s \in Syncs : Counts(s) => calls[c].step = "contested" /\ s \in raced

OffIsUnscheduled == off => ~connection.auto

IInv ==
    /\ TypeOK
    /\ CallsAreSound
    /\ WorkIsSound
    /\ OneHand
    /\ RunsFollowJobs
    /\ EventsFollowJobs
    /\ ChecksAreSound
    /\ OffIsUnscheduled
    /\ RunsAccountedFor
    /\ EventsAccountedFor
    /\ OverlapsExplained

-----------------------------------------------------------------------------

LEMMA PassTypes ==
  ASSUME TypeOK, NEW c \in Callers, NEW trigger \in {"MANUAL", "SCHEDULED"}, PassCheck(c, trigger)
  PROVE  calls' \in [Callers -> Call]
<1> DEFINE beside == {d \in Callers \ {c} : Inserting(d)}
           After(d) == IF d = c THEN AtInsert(IF beside = {} THEN "insert" ELSE "contested", trigger)
                       ELSE IF d \in beside THEN AtInsert("contested", calls[d].trigger)
                       ELSE calls[d]
<1>1. calls' = [d \in Callers |-> After(d)]
  BY DEF PassCheck
<1>2. ASSUME NEW d \in Callers PROVE After(d) \in Call
  <2>1. calls[d] \in Call
    BY DEF TypeOK
  <2> QED
    BY <2>1 DEF AtInsert, Call
<1> QED
  BY <1>1, <1>2

(* What a caller that passes its check changes, caller by caller. *)
LEMMA Passed ==
  ASSUME TypeOK, CallsAreSound, NEW c \in Callers, NEW trigger, PassCheck(c, trigger)
  PROVE  /\ Inserting(c)'
         /\ calls'[c].item = None /\ calls'[c].trigger = trigger
         /\ \A d \in Callers : d # c /\ Inserting(d) => calls'[c].step = "contested"
         /\ \A d \in Callers : d # c =>
               /\ calls'[d].item = calls[d].item /\ calls'[d].trigger = calls[d].trigger
               /\ Inserting(d) => calls'[d].step = "contested"
               /\ ~Inserting(d) => calls'[d].step = calls[d].step
<1>1. /\ calls'[c].item = None /\ calls'[c].trigger = trigger
      /\ calls'[c].step = IF {d \in Callers \ {c} : Inserting(d)} = {} THEN "insert" ELSE "contested"
  BY DEF PassCheck, AtInsert
<1>2. Inserting(c)'
  BY <1>1 DEF Inserting
<1>3. \A d \in Callers : d # c /\ Inserting(d) => calls'[c].step = "contested"
  BY <1>1
<1>4. ASSUME NEW d \in Callers, d # c
      PROVE  /\ calls'[d].item = calls[d].item /\ calls'[d].trigger = calls[d].trigger
             /\ Inserting(d) => calls'[d].step = "contested"
             /\ ~Inserting(d) => calls'[d].step = calls[d].step
  <2>1. Inserting(d) => calls[d].item = None /\ calls'[d] = AtInsert("contested", calls[d].trigger)
    BY <1>4 DEF PassCheck, CallsAreSound, Inserting
  <2>2. ~Inserting(d) => calls'[d] = calls[d]
    BY <1>4 DEF PassCheck
  <2> QED
    BY <2>1, <2>2 DEF AtInsert
<1> QED
  BY <1>1, <1>2, <1>3, <1>4

LEMMA InitialTypes == Init => TypeOK
<1> SUFFICES ASSUME Init PROVE TypeOK
  OBVIOUS
<1>1. connection \in Connection
  <2>1. PICK a \in BOOLEAN : connection = [connected |-> FALSE, auto |-> a, next |-> FALSE]
    BY DEF Init
  <2> QED
    BY <2>1 DEF Connection
<1>2. NoSync \in SyncRow /\ WorkAt("none") \in Work /\ NoCall \in Call
  BY DEF NoSync, SyncRow, WorkAt, Work, Steps, NoCall, Call
<1>3. [state |-> "none", made |-> 0] \in Job
  BY DEF Job
<1>4. /\ syncs \in [Syncs -> SyncRow] /\ logs \in [Events -> LogStatus]
      /\ jobs \in [Items -> Job] /\ work \in [Items -> Work] /\ calls \in [Callers -> Call]
  BY <1>2, <1>3 DEF Init, LogStatus
<1>5. faults = 0 /\ off = FALSE
  BY DEF Init
<1>6. faults \in 0..MaxFaults
  BY <1>5, FaultAssumption
<1> QED
  BY <1>1, <1>4, <1>5, <1>6 DEF Init, TypeOK

LEMMA StepKeepsTypes == TypeOK /\ CallsAreSound /\ WorkIsSound /\ [Next]_vars => TypeOK'
<1> SUFFICES ASSUME TypeOK, CallsAreSound, WorkIsSound, [Next]_vars PROVE TypeOK'
  OBVIOUS
<1> USE NamesAssumption, AttemptsAssumption, FaultAssumption
        DEF TypeOK, Items, tables, queue, observed
<1>1. ASSUME Connect PROVE TypeOK'
  <2>1. PICK c, a \in BOOLEAN : connection' = [connected |-> c, auto |-> a, next |-> connection.next]
    BY <1>1 DEF Connect
  <2>2. connection' \in Connection
    BY <2>1 DEF Connection
  <2> QED
    BY <1>1, <2>2 DEF Connect
<1>2. ASSUME Disconnect PROVE TypeOK'
  BY <1>2 DEF Disconnect, Connection
<1>3. ASSUME NEW c \in Callers, TriggerManual(c) PROVE TypeOK'
  BY <1>3, PassTypes DEF TriggerManual, Call
<1>4. ASSUME NEW c \in Callers, ScanFindsDue(c) PROVE TypeOK'
  BY <1>4 DEF ScanFindsDue, AtCheck, Call
<1>5. ASSUME NEW c \in Callers, TriggerScheduled(c) PROVE TypeOK'
  BY <1>5, PassTypes DEF TriggerScheduled, NoCall, Call
<1>6. ASSUME NEW c \in Callers, NEW s \in Syncs, CreateSync(c, s) PROVE TypeOK'
  BY <1>6 DEF CreateSync, InsertSync, AtEnqueue, SyncRow, Call
<1>7. ASSUME NEW c \in Callers, SlotTaken(c) PROVE TypeOK'
  BY <1>7 DEF SlotTaken, NoCall, Call
<1>8. ASSUME NEW c \in Callers, NEW e \in Events, LogWebhook(c, e) PROVE TypeOK'
  BY <1>8 DEF LogWebhook, AtEnqueue, LogStatus, Call
<1>9. ASSUME NEW c \in Callers, Enqueue(c) PROVE TypeOK'
  BY <1>9 DEF Enqueue, JobBecomes, NoCall, Job, Call
<1>10. ASSUME NEW c \in Callers, CallFails(c) PROVE TypeOK'
  <2>1. calls[c].step = "enqueue" => calls[c].item \in Items
    BY DEF CallsAreSound, Call
  <2> QED
    BY <1>10, <2>1 DEF CallFails, Fault, NoCall, Call
<1>11. ASSUME NEW i \in Items, Claim(i) PROVE TypeOK'
  BY <1>11 DEF Claim, JobBecomes, Goto, WorkAt, Job, Work, Steps
<1>12. ASSUME NEW s \in Syncs, StartRun(s) PROVE TypeOK'
  <2>1. [step |-> "result", auto |-> connection.auto, failed |-> FALSE, sync |-> None] \in Work
    BY DEF Connection, Work, Steps
  <2>2. syncs' \in [Syncs -> SyncRow]
    BY <1>12 DEF StartRun, StatusBecomes, SyncRow
  <2> QED
    BY <1>12, <2>1, <2>2 DEF StartRun
<1>13. ASSUME NEW s \in Syncs, StoreResult(s) PROVE TypeOK'
  <2>1. PICK f \in BOOLEAN : work' = [work EXCEPT ![s] = HasResult(s, f)]
    BY <1>13 DEF StoreResult, RunFailed
  <2>2. HasResult(s, f) \in Work
    BY DEF HasResult, Work, Steps
  <2>3. syncs' \in [Syncs -> SyncRow]
    BY <1>13 DEF StoreResult, StatusBecomes, SyncRow
  <2> QED
    BY <1>13, <2>1, <2>2, <2>3 DEF StoreResult
<1>14. ASSUME NEW s \in Syncs, UpdateAfterSync(s) PROVE TypeOK'
  BY <1>14 DEF UpdateAfterSync, At, Goto, WorkAt, Connection, Work, Steps
<1>15. ASSUME NEW e \in Events, NEW s \in Syncs, TriggerWebhook(e, s) PROVE TypeOK'
  BY <1>15 DEF TriggerWebhook, At, InsertSync, SyncRow, Work, Steps
<1>16. ASSUME NEW e \in Events, TriggeredBefore(e) PROVE TypeOK'
  BY <1>16 DEF TriggeredBefore, At, Goto, WorkAt, Work, Steps
<1>17. ASSUME NEW e \in Events, EnqueueSync(e) PROVE TypeOK'
  BY <1>17 DEF EnqueueSync, At, JobBecomes, Goto, WorkAt, Job, Work, Steps
<1>18. ASSUME NEW e \in Events, MarkProcessed(e) PROVE TypeOK'
  BY <1>18 DEF MarkProcessed, At, Goto, WorkAt, LogStatus, Work, Steps
<1>19. ASSUME NEW i \in Items, Complete(i) PROVE TypeOK'
  BY <1>19 DEF Complete, At, JobBecomes, Goto, WorkAt, Job, Work, Steps
<1>20. ASSUME NEW i \in Items, StatementFails(i) PROVE TypeOK'
  <2>1. LeavesBehind(i) \subseteq Items
    BY DEF LeavesBehind, WorkIsSound, Work
  <2>2. jobs[i].made + 1 \in Nat
    BY DEF Job
  <2>3. WorkAt("none") \in Work
    BY DEF WorkAt, Work, Steps
  <2>4. Exhausted(i, jobs[i].made + 1) \subseteq Events
    BY DEF Exhausted
  <2>5. \A state \in {"waiting", "failed"}, made \in Nat : [state |-> state, made |-> made] \in Job
    BY DEF Job
  <2>6. jobs' \in [Items -> Job]
    BY <1>20, <2>2, <2>5 DEF StatementFails, FailAttempt
  <2> QED
    BY <1>20, <2>1, <2>3, <2>4, <2>6 DEF StatementFails, Fault, FailAttempt, Goto
<1>21. ASSUME NEW i \in Items, WorkerDies(i) PROVE TypeOK'
  <2>1. LeavesBehind(i) \subseteq Items
    BY DEF LeavesBehind, WorkIsSound, Work
  <2>2. jobs[i].made + 1 \in Nat
    BY DEF Job
  <2>3. WorkAt("none") \in Work
    BY DEF WorkAt, Work, Steps
  <2>4. Exhausted(i, jobs[i].made + 1) \subseteq Events
    BY DEF Exhausted
  <2>5. \A state \in {"waiting", "failed"}, made \in Nat : [state |-> state, made |-> made] \in Job
    BY DEF Job
  <2>6. jobs' \in [Items -> Job]
    BY <1>21, <2>2, <2>5 DEF WorkerDies, JobBecomes, Job
  <2>7. listeners' \in SUBSET Events
    BY <1>21, <2>4 DEF WorkerDies
  <2> QED
    BY <1>21, <2>1, <2>3, <2>6, <2>7 DEF WorkerDies, Fault, Goto
<1>22. ASSUME NEW e \in Events, MarkFailed(e) PROVE TypeOK'
  BY <1>22 DEF MarkFailed, LogStatus
<1>23. ASSUME NEW e \in Events, ListenerFails(e) PROVE TypeOK'
  BY <1>23 DEF ListenerFails, Fault
<1>24. CASE UNCHANGED vars
  BY <1>24 DEF vars
<1> QED
  <2>1. ASSUME NEW c \in Callers, Trigger(c) \/ Continue(c) PROVE TypeOK'
    BY <1>3, <1>4, <1>5, <1>6, <1>7, <1>8, <1>9, <1>10, <2>1 DEF Trigger, Continue
  <2>2. ASSUME NEW i \in Items, RunJob(i) PROVE TypeOK'
    BY <1>11, <1>12, <1>13, <1>14, <1>15, <1>16, <1>17, <1>18, <1>19, <1>20, <2>2
       DEF RunJob, RunSync, RunWebhook
  <2>3. ASSUME NEW e \in Events, Listen(e) PROVE TypeOK'
    BY <1>22, <1>23, <2>3 DEF Listen
  <2> QED
    BY <1>1, <1>2, <1>21, <1>24, <2>1, <2>2, <2>3 DEF Next

(* A step that leaves the variables of a conjunct alone leaves the conjunct true. *)
LEMMA Frame ==
    /\ CallsAreSound /\ UNCHANGED <<calls>> => CallsAreSound'
    /\ WorkIsSound /\ UNCHANGED <<work, jobs>> => WorkIsSound'
    /\ OneHand /\ UNCHANGED <<calls, work, jobs, syncs, logs>> => OneHand'
    /\ RunsFollowJobs /\ UNCHANGED <<syncs, jobs, work, rerun, stalled>> => RunsFollowJobs'
    /\ EventsFollowJobs /\ UNCHANGED <<jobs, logs, listeners, work, syncs>> => EventsFollowJobs'
    /\ ChecksAreSound /\ UNCHANGED <<calls, syncs, rerun, raced>> => ChecksAreSound'
    /\ OffIsUnscheduled /\ UNCHANGED <<off, connection>> => OffIsUnscheduled'
    /\ RunsAccountedFor /\ UNCHANGED <<syncs, dropped, jobs, calls, work>> => RunsAccountedFor'
    /\ EventsAccountedFor /\ UNCHANGED <<logs, ignored, dropped, calls, work, jobs, listeners, syncs>> => EventsAccountedFor'
    /\ OverlapsExplained /\ UNCHANGED <<syncs, rerun, raced, jobs, stalled>> => OverlapsExplained'
  BY DEF CallsAreSound, WorkIsSound, OneHand, RunsFollowJobs, EventsFollowJobs, ChecksAreSound,
         OffIsUnscheduled, RunsAccountedFor, EventsAccountedFor, OverlapsExplained, Inserting,
         InHand, Triggered, Counts, Active, StrandedRun

LEMMA InvariantHoldsInitially == Init => IInv
  BY InitialTypes, NamesAssumption, AttemptsAssumption, FaultAssumption
     DEF Init, IInv, CallsAreSound, WorkIsSound, OneHand, RunsFollowJobs, EventsFollowJobs,
         ChecksAreSound, OffIsUnscheduled, RunsAccountedFor, EventsAccountedFor,
         OverlapsExplained, Inserting, InHand, Triggered, Counts, Active, HasActiveRun,
         StrandedRun, NoSync, NoCall, WorkAt, Items

(* One step per action, and under it one per conjunct the action disturbs. *)
LEMMA StepKeepsInvariant == IInv /\ [Next]_vars => IInv'
<1> SUFFICES ASSUME IInv, [Next]_vars PROVE IInv'
  OBVIOUS
<1> USE NamesAssumption
        DEF IInv, TypeOK, Items, tables, queue, observed
<1>1. ASSUME Connect PROVE IInv'
  <2>1. CallsAreSound' /\ WorkIsSound' /\ OneHand' /\ RunsFollowJobs' /\ EventsFollowJobs'
        /\ ChecksAreSound' /\ RunsAccountedFor' /\ EventsAccountedFor' /\ OverlapsExplained'
    BY <1>1, Frame DEF Connect
  <2>2. OffIsUnscheduled'
    BY <1>1 DEF Connect, OffIsUnscheduled
  <2> QED
    BY <2>1, <2>2, StepKeepsTypes
<1>2. ASSUME Disconnect PROVE IInv'
  <2>1. CallsAreSound' /\ WorkIsSound' /\ OneHand' /\ RunsFollowJobs' /\ EventsFollowJobs'
        /\ ChecksAreSound' /\ RunsAccountedFor' /\ EventsAccountedFor' /\ OverlapsExplained'
    BY <1>2, Frame DEF Disconnect
  <2>2. OffIsUnscheduled'
    BY <1>2 DEF Disconnect, OffIsUnscheduled
  <2> QED
    BY <2>1, <2>2, StepKeepsTypes
<1>3. ASSUME NEW c \in Callers, TriggerManual(c) PROVE IInv'
  <2>a. \A d \in Callers : /\ calls'[d].item = calls[d].item
                           /\ calls'[d].step = "enqueue" <=> calls[d].step = "enqueue"
    BY <1>3, Passed DEF TriggerManual, Inserting, CallsAreSound
  <2>b. \A i \in Items : InHand(i)' <=> InHand(i)
    BY <1>3, <2>a DEF TriggerManual, InHand
  <2>1. WorkIsSound' /\ RunsFollowJobs' /\ EventsFollowJobs' /\ OffIsUnscheduled'
        /\ OverlapsExplained'
    BY <1>3, Frame DEF TriggerManual
  <2>2. CallsAreSound'
    BY <1>3, <2>a, <2>b, Passed DEF TriggerManual, CallsAreSound, Inserting
  <2>3. OneHand'
    BY <1>3, <2>a, <2>b DEF TriggerManual, OneHand
  <2>4. ChecksAreSound'
    BY <1>3, <2>a, <2>b, Passed
       DEF TriggerManual, ChecksAreSound, Inserting, Counts, Active, HasActiveRun,
           CallsAreSound
  <2>5. RunsAccountedFor'
    BY <1>3, <2>b DEF TriggerManual, RunsAccountedFor, Active, StrandedRun, WorkIsSound
  <2>6. EventsAccountedFor'
    BY <1>3, <2>b DEF TriggerManual, EventsAccountedFor, Triggered
  <2> QED
    BY <2>1, <2>2, <2>3, <2>4, <2>5, <2>6, StepKeepsTypes
<1>4. ASSUME NEW c \in Callers, ScanFindsDue(c) PROVE IInv'
  <2>1. WorkIsSound' /\ RunsFollowJobs' /\ EventsFollowJobs' /\ OffIsUnscheduled'
        /\ OverlapsExplained'
    BY <1>4, Frame DEF ScanFindsDue
  <2>2. CallsAreSound'
    BY <1>4 DEF ScanFindsDue, AtCheck, CallsAreSound, Inserting
  <2>3. OneHand'
    BY <1>4
       DEF ScanFindsDue, AtCheck, OneHand, InHand, Inserting, CallsAreSound, WorkIsSound,
           RunsFollowJobs, EventsFollowJobs
  <2>4. ChecksAreSound'
    BY <1>4
       DEF ScanFindsDue, AtCheck, ChecksAreSound, Inserting, Counts, Active, HasActiveRun,
           CallsAreSound
  <2>5. RunsAccountedFor'
    BY <1>4
       DEF ScanFindsDue, AtCheck, RunsAccountedFor, Active, StrandedRun, InHand, Inserting,
           WorkIsSound, CallsAreSound, RunsFollowJobs, OneHand
  <2>6. EventsAccountedFor'
    BY <1>4
       DEF ScanFindsDue, AtCheck, EventsAccountedFor, InHand, Inserting, Triggered,
           WorkIsSound, CallsAreSound, EventsFollowJobs, RunsFollowJobs, OneHand
  <2> QED
    BY <2>1, <2>2, <2>3, <2>4, <2>5, <2>6, StepKeepsTypes
<1>5. ASSUME NEW c \in Callers, TriggerScheduled(c) PROVE IInv'
  <2>a. \A d \in Callers : /\ calls'[d].item = calls[d].item
                           /\ calls'[d].step = "enqueue" <=> calls[d].step = "enqueue"
    BY <1>5, Passed DEF TriggerScheduled, Inserting, CallsAreSound, NoCall
  <2>b. \A i \in Items : InHand(i)' <=> InHand(i)
    BY <1>5, <2>a DEF TriggerScheduled, InHand
  <2>1. WorkIsSound' /\ RunsFollowJobs' /\ EventsFollowJobs' /\ OffIsUnscheduled'
        /\ OverlapsExplained'
    BY <1>5, Frame DEF TriggerScheduled
  <2>2. CallsAreSound'
    BY <1>5, <2>a, <2>b, Passed DEF TriggerScheduled, NoCall, CallsAreSound, Inserting
  <2>3. OneHand'
    BY <1>5, <2>a, <2>b DEF TriggerScheduled, OneHand
  <2>4. ChecksAreSound'
    BY <1>5, <2>a, <2>b, Passed
       DEF TriggerScheduled, NoCall, ChecksAreSound, Inserting, Counts, Active, HasActiveRun,
           CallsAreSound
  <2>5. RunsAccountedFor'
    BY <1>5, <2>b DEF TriggerScheduled, RunsAccountedFor, Active, StrandedRun, WorkIsSound
  <2>6. EventsAccountedFor'
    BY <1>5, <2>b DEF TriggerScheduled, EventsAccountedFor, Triggered
  <2> QED
    BY <2>1, <2>2, <2>3, <2>4, <2>5, <2>6, StepKeepsTypes
<1>6. ASSUME NEW c \in Callers, NEW s \in Syncs, CreateSync(c, s) PROVE IInv'
  <2>1. WorkIsSound' /\ OffIsUnscheduled'
    BY <1>6, Frame DEF CreateSync
  <2>2. CallsAreSound'
    BY <1>6 DEF CreateSync, InsertSync, AtEnqueue, CallsAreSound, Inserting
  <2>3. OneHand'
    BY <1>6
       DEF CreateSync, InsertSync, AtEnqueue, OneHand, InHand, Inserting, CallsAreSound,
           WorkIsSound, RunsFollowJobs, EventsFollowJobs
  <2>4. RunsFollowJobs'
    BY <1>6
       DEF CreateSync, InsertSync, AtEnqueue, RunsFollowJobs, OneHand, InHand, Inserting,
           WorkIsSound, CallsAreSound
  <2>5. EventsFollowJobs'
    BY <1>6
       DEF CreateSync, InsertSync, AtEnqueue, EventsFollowJobs, Triggered, OneHand, InHand,
           Inserting, WorkIsSound, CallsAreSound, RunsFollowJobs
  <2>6. ChecksAreSound'
    BY <1>6
       DEF CreateSync, InsertSync, AtEnqueue, ChecksAreSound, Inserting, Counts, Active,
           HasActiveRun, CallsAreSound
  <2>7. RunsAccountedFor'
    BY <1>6
       DEF CreateSync, InsertSync, AtEnqueue, RunsAccountedFor, Active, StrandedRun, InHand,
           Inserting, WorkIsSound, CallsAreSound, RunsFollowJobs, OneHand
  <2>8. EventsAccountedFor'
    BY <1>6
       DEF CreateSync, InsertSync, AtEnqueue, EventsAccountedFor, InHand, Inserting, Triggered,
           WorkIsSound, CallsAreSound, EventsFollowJobs, RunsFollowJobs, OneHand
  <2>9. OverlapsExplained'
    BY <1>6
       DEF CreateSync, InsertSync, AtEnqueue, OverlapsExplained, Inserting, Active, Counts,
           ChecksAreSound, RunsFollowJobs, WorkIsSound, CallsAreSound
  <2> QED
    BY <2>1, <2>2, <2>3, <2>4, <2>5, <2>6, <2>7, <2>8, <2>9, StepKeepsTypes
<1>7. ASSUME NEW c \in Callers, SlotTaken(c) PROVE IInv'
  <2>1. WorkIsSound' /\ RunsFollowJobs' /\ EventsFollowJobs' /\ OffIsUnscheduled'
        /\ OverlapsExplained'
    BY <1>7, Frame DEF SlotTaken
  <2>2. CallsAreSound'
    BY <1>7 DEF SlotTaken, NoCall, CallsAreSound, Inserting
  <2>3. OneHand'
    BY <1>7
       DEF SlotTaken, NoCall, OneHand, InHand, Inserting, CallsAreSound, WorkIsSound,
           RunsFollowJobs, EventsFollowJobs
  <2>4. ChecksAreSound'
    BY <1>7
       DEF SlotTaken, NoCall, ChecksAreSound, Inserting, Counts, Active, HasActiveRun,
           CallsAreSound
  <2>5. RunsAccountedFor'
    BY <1>7
       DEF SlotTaken, NoCall, RunsAccountedFor, Active, StrandedRun, InHand, Inserting,
           WorkIsSound, CallsAreSound, RunsFollowJobs, OneHand
  <2>6. EventsAccountedFor'
    BY <1>7
       DEF SlotTaken, NoCall, EventsAccountedFor, InHand, Inserting, Triggered, WorkIsSound,
           CallsAreSound, EventsFollowJobs, RunsFollowJobs, OneHand
  <2> QED
    BY <2>1, <2>2, <2>3, <2>4, <2>5, <2>6, StepKeepsTypes
<1>8. ASSUME NEW c \in Callers, NEW e \in Events, LogWebhook(c, e) PROVE IInv'
  <2>a. calls' = calls \/ calls' = [calls EXCEPT ![c] = AtEnqueue(e)]
    BY <1>8 DEF LogWebhook
  <2>b. jobs[e].state = "none" /\ ~InHand(e) /\ calls[c].step = "none" /\ calls[c].item = None
    BY <1>8 DEF LogWebhook, EventsFollowJobs, OneHand, CallsAreSound, Job
  <2>c. \A i \in Items : InHand(i) => InHand(i)'
    BY <1>8, <2>a, <2>b DEF LogWebhook, InHand, AtEnqueue
  <2>d. \A i \in Items : i # e => (InHand(i)' <=> InHand(i))
    BY <1>8, <2>a, <2>b DEF LogWebhook, InHand, AtEnqueue
  <2>1. WorkIsSound' /\ RunsFollowJobs' /\ OffIsUnscheduled' /\ OverlapsExplained'
    BY <1>8, Frame DEF LogWebhook
  <2>2. CallsAreSound'
    BY <1>8, <2>a, <2>b, <2>c, <2>d DEF LogWebhook, AtEnqueue, CallsAreSound, Inserting
  <2>3. OneHand'
      <3>1. \A i \in Items : InHand(i)' =>
               /\ jobs[i].state = "none"
               /\ i \in Syncs => syncs[i].status = "PENDING"
               /\ i \in Events => logs'[i] = "VERIFIED"
        <4>1. InHand(e)' => logs'[e] = "VERIFIED"
          BY <1>8, <2>b DEF LogWebhook, InHand
        <4> QED
          BY <1>8, <2>b, <2>d, <4>1 DEF LogWebhook, OneHand
      <3>2. \A d \in Callers : d # c => calls'[d] = calls[d]
        BY <2>a
      <3>3. calls'[c].step = "enqueue" => calls'[c].item = e
        BY <2>a, <2>b DEF AtEnqueue
      <3>4. \A d \in Callers : calls[d].step = "enqueue" => calls[d].item # e
        BY <2>b DEF InHand
      <3>5. \A f \in Events : work[f].sync # e
        BY DEF Work
      <3>6. UNCHANGED <<syncs, jobs, work>>
        BY <1>8 DEF LogWebhook
      <3>7. \A b, d \in Callers :
               b # d /\ calls'[b].step = "enqueue" => calls'[b].item # calls'[d].item
        BY <2>a, <2>b, <3>2, <3>3, <3>4, NamesAssumption DEF OneHand, CallsAreSound, AtEnqueue
      <3>8. \A d \in Callers, f \in Events :
               calls'[d].step = "enqueue" => calls'[d].item # work[f].sync
        BY <3>2, <3>3, <3>5 DEF OneHand
      <3> QED
        BY <3>1, <3>6, <3>7, <3>8 DEF OneHand
  <2>4. EventsFollowJobs'
    BY <1>8, <2>a, <2>b, <2>c, <2>d
       DEF LogWebhook, AtEnqueue, EventsFollowJobs, Triggered, OneHand, InHand, Inserting,
           WorkIsSound, CallsAreSound, RunsFollowJobs
  <2>5. ChecksAreSound'
    BY <1>8, <2>a, <2>b, <2>c, <2>d
       DEF LogWebhook, AtEnqueue, ChecksAreSound, Inserting, Counts, Active, HasActiveRun,
           CallsAreSound
  <2>6. RunsAccountedFor'
    BY <1>8, <2>c DEF LogWebhook, RunsAccountedFor, Active, StrandedRun
  <2>7. EventsAccountedFor'
    BY <1>8, <2>a, <2>b, <2>c, <2>d
       DEF LogWebhook, AtEnqueue, EventsAccountedFor, InHand, Inserting, Triggered,
           WorkIsSound, CallsAreSound, EventsFollowJobs, RunsFollowJobs, OneHand
  <2> QED
    BY <2>1, <2>2, <2>3, <2>4, <2>5, <2>6, <2>7, StepKeepsTypes
<1>9. ASSUME NEW c \in Callers, Enqueue(c) PROVE IInv'
  <2>a. /\ calls[c].item \in Items /\ InHand(calls[c].item) /\ calls[c].step = "enqueue"
        /\ jobs[calls[c].item].state = "none"
    BY <1>9 DEF Enqueue, CallsAreSound, Call, InHand, OneHand
  <2>1. OffIsUnscheduled'
    BY <1>9, Frame DEF Enqueue
  <2>2. CallsAreSound'
    BY <1>9, <2>a DEF Enqueue, JobBecomes, NoCall, CallsAreSound, Inserting
  <2>3. WorkIsSound'
    BY <1>9, <2>a DEF Enqueue, JobBecomes, NoCall, WorkIsSound
  <2>4. OneHand'
    BY <1>9, <2>a
       DEF Enqueue, JobBecomes, NoCall, OneHand, InHand, Inserting, CallsAreSound, WorkIsSound,
           RunsFollowJobs, EventsFollowJobs
  <2>5. RunsFollowJobs'
    BY <1>9, <2>a
       DEF Enqueue, JobBecomes, NoCall, RunsFollowJobs, OneHand, InHand, Inserting,
           WorkIsSound, CallsAreSound
  <2>6. EventsFollowJobs'
    BY <1>9, <2>a
       DEF Enqueue, JobBecomes, NoCall, EventsFollowJobs, Triggered, OneHand, InHand,
           Inserting, WorkIsSound, CallsAreSound, RunsFollowJobs
  <2>7. ChecksAreSound'
    BY <1>9, <2>a
       DEF Enqueue, JobBecomes, NoCall, ChecksAreSound, Inserting, Counts, Active,
           HasActiveRun, CallsAreSound
  <2>8. RunsAccountedFor'
    BY <1>9, <2>a
       DEF Enqueue, JobBecomes, NoCall, RunsAccountedFor, Active, StrandedRun, InHand,
           Inserting, WorkIsSound, CallsAreSound, RunsFollowJobs, OneHand
  <2>9. EventsAccountedFor'
    BY <1>9, <2>a
       DEF Enqueue, JobBecomes, NoCall, EventsAccountedFor, InHand, Inserting, Triggered,
           WorkIsSound, CallsAreSound, EventsFollowJobs, RunsFollowJobs, OneHand
  <2>10. OverlapsExplained'
    BY <1>9, <2>a
       DEF Enqueue, JobBecomes, NoCall, OverlapsExplained, Inserting, Active, Counts,
           ChecksAreSound, RunsFollowJobs, WorkIsSound, CallsAreSound
  <2> QED
    BY <2>1, <2>2, <2>3, <2>4, <2>5, <2>6, <2>7, <2>8, <2>9, <2>10, StepKeepsTypes
<1>10. ASSUME NEW c \in Callers, CallFails(c) PROVE IInv'
  <2>1. WorkIsSound' /\ RunsFollowJobs' /\ EventsFollowJobs' /\ OffIsUnscheduled'
        /\ OverlapsExplained'
    BY <1>10, Frame DEF CallFails
  <2>2. CallsAreSound'
    BY <1>10 DEF CallFails, Fault, NoCall, CallsAreSound, Inserting
  <2>3. OneHand'
    BY <1>10
       DEF CallFails, Fault, NoCall, OneHand, InHand, Inserting, CallsAreSound, WorkIsSound,
           RunsFollowJobs, EventsFollowJobs
  <2>4. ChecksAreSound'
    BY <1>10
       DEF CallFails, Fault, NoCall, ChecksAreSound, Inserting, Counts, Active, HasActiveRun,
           CallsAreSound
  <2>5. RunsAccountedFor'
    BY <1>10
       DEF CallFails, Fault, NoCall, RunsAccountedFor, Active, StrandedRun, InHand, Inserting,
           WorkIsSound, CallsAreSound, RunsFollowJobs, OneHand
  <2>6. EventsAccountedFor'
    BY <1>10
       DEF CallFails, Fault, NoCall, EventsAccountedFor, InHand, Inserting, Triggered,
           WorkIsSound, CallsAreSound, EventsFollowJobs, RunsFollowJobs, OneHand
  <2> QED
    BY <2>1, <2>2, <2>3, <2>4, <2>5, <2>6, StepKeepsTypes
<1>11. ASSUME NEW i \in Items, Claim(i) PROVE IInv'
  <2>1. CallsAreSound' /\ ChecksAreSound' /\ OffIsUnscheduled'
    BY <1>11, Frame DEF Claim
  <2>2. WorkIsSound'
    BY <1>11 DEF Claim, JobBecomes, Goto, WorkAt, WorkIsSound
  <2>3. OneHand'
    BY <1>11
       DEF Claim, JobBecomes, Goto, WorkAt, OneHand, InHand, Inserting, CallsAreSound,
           WorkIsSound, RunsFollowJobs, EventsFollowJobs
  <2>4. RunsFollowJobs'
    BY <1>11
       DEF Claim, JobBecomes, Goto, WorkAt, RunsFollowJobs, OneHand, InHand, Inserting,
           WorkIsSound, CallsAreSound
  <2>5. EventsFollowJobs'
    BY <1>11
       DEF Claim, JobBecomes, Goto, WorkAt, EventsFollowJobs, Triggered, OneHand, InHand,
           Inserting, WorkIsSound, CallsAreSound, RunsFollowJobs
  <2>6. RunsAccountedFor'
    BY <1>11
       DEF Claim, JobBecomes, Goto, WorkAt, RunsAccountedFor, Active, StrandedRun, InHand,
           Inserting, WorkIsSound, CallsAreSound, RunsFollowJobs, OneHand
  <2>7. EventsAccountedFor'
    BY <1>11
       DEF Claim, JobBecomes, Goto, WorkAt, EventsAccountedFor, InHand, Inserting, Triggered,
           WorkIsSound, CallsAreSound, EventsFollowJobs, RunsFollowJobs, OneHand
  <2>8. OverlapsExplained'
    BY <1>11
       DEF Claim, JobBecomes, Goto, WorkAt, OverlapsExplained, Inserting, Active, Counts,
           ChecksAreSound, RunsFollowJobs, WorkIsSound, CallsAreSound
  <2> QED
    BY <2>1, <2>2, <2>3, <2>4, <2>5, <2>6, <2>7, <2>8, StepKeepsTypes
<1>12. ASSUME NEW s \in Syncs, StartRun(s) PROVE IInv'
  <2>a. \A t \in Syncs : Counts(t)' => Counts(t)
    <3> SUFFICES ASSUME NEW t \in Syncs, Counts(t)' PROVE Counts(t)
      OBVIOUS
    <3>1. CASE t = s
      BY <1>12, <3>1 DEF StartRun, StatusBecomes, At, Counts, Active, RunsFollowJobs, WorkIsSound, SyncRow
    <3>2. CASE t # s
      BY <1>12, <3>2 DEF StartRun, StatusBecomes, Counts, Active
    <3> QED
      BY <3>1, <3>2
  <2>1. CallsAreSound' /\ OffIsUnscheduled'
    BY <1>12, Frame DEF StartRun
  <2>2. WorkIsSound'
    BY <1>12, <2>a DEF StartRun, At, StatusBecomes, WorkIsSound
  <2>3. OneHand'
    BY <1>12, <2>a
       DEF StartRun, At, StatusBecomes, OneHand, InHand, Inserting, CallsAreSound, WorkIsSound,
           RunsFollowJobs, EventsFollowJobs
  <2>4. RunsFollowJobs'
    BY <1>12, <2>a
       DEF StartRun, At, StatusBecomes, RunsFollowJobs, OneHand, InHand, Inserting,
           WorkIsSound, CallsAreSound
  <2>5. EventsFollowJobs'
    BY <1>12, <2>a
       DEF StartRun, At, StatusBecomes, EventsFollowJobs, Triggered, OneHand, InHand,
           Inserting, WorkIsSound, CallsAreSound, RunsFollowJobs
  <2>6. ChecksAreSound'
    BY <1>12, <2>a
       DEF StartRun, At, StatusBecomes, ChecksAreSound, Inserting, Counts, Active,
           HasActiveRun, CallsAreSound
  <2>7. RunsAccountedFor'
    BY <1>12, <2>a
       DEF StartRun, At, StatusBecomes, RunsAccountedFor, Active, StrandedRun, InHand,
           Inserting, WorkIsSound, CallsAreSound, RunsFollowJobs, OneHand
  <2>8. EventsAccountedFor'
    BY <1>12, <2>a
       DEF StartRun, At, StatusBecomes, EventsAccountedFor, InHand, Inserting, Triggered,
           WorkIsSound, CallsAreSound, EventsFollowJobs, RunsFollowJobs, OneHand
  <2>9. OverlapsExplained'
      <3>1. \A t \in rerun' : jobs[t].made > 0 \/ t \in stalled
        BY <1>12 DEF StartRun, At, OverlapsExplained, RunsFollowJobs, Job
      <3> QED
        BY <1>12, <2>a, <3>1 DEF StartRun, OverlapsExplained
  <2> QED
    BY <2>1, <2>2, <2>3, <2>4, <2>5, <2>6, <2>7, <2>8, <2>9, StepKeepsTypes
<1>13. ASSUME NEW s \in Syncs, StoreResult(s) PROVE IInv'
  <2>1. CallsAreSound' /\ OffIsUnscheduled'
    BY <1>13, Frame DEF StoreResult
  <2>2. WorkIsSound'
    BY <1>13 DEF StoreResult, At, StatusBecomes, HasResult, WorkIsSound
  <2>3. OneHand'
    BY <1>13
       DEF StoreResult, At, StatusBecomes, HasResult, OneHand, InHand, Inserting,
           CallsAreSound, WorkIsSound, RunsFollowJobs, EventsFollowJobs
  <2>4. RunsFollowJobs'
    BY <1>13
       DEF StoreResult, At, StatusBecomes, HasResult, RunsFollowJobs, OneHand, InHand,
           Inserting, WorkIsSound, CallsAreSound
  <2>5. EventsFollowJobs'
    BY <1>13
       DEF StoreResult, At, StatusBecomes, HasResult, EventsFollowJobs, Triggered, OneHand,
           InHand, Inserting, WorkIsSound, CallsAreSound, RunsFollowJobs
  <2>6. ChecksAreSound'
    BY <1>13
       DEF StoreResult, At, StatusBecomes, HasResult, ChecksAreSound, Inserting, Counts,
           Active, HasActiveRun, CallsAreSound
  <2>7. RunsAccountedFor'
    BY <1>13
       DEF StoreResult, At, StatusBecomes, HasResult, RunsAccountedFor, Active, StrandedRun,
           InHand, Inserting, WorkIsSound, CallsAreSound, RunsFollowJobs, OneHand
  <2>8. EventsAccountedFor'
    BY <1>13
       DEF StoreResult, At, StatusBecomes, HasResult, EventsAccountedFor, InHand, Inserting,
           Triggered, WorkIsSound, CallsAreSound, EventsFollowJobs, RunsFollowJobs, OneHand
  <2>9. OverlapsExplained'
    BY <1>13
       DEF StoreResult, At, StatusBecomes, HasResult, OverlapsExplained, Inserting, Active,
           Counts, ChecksAreSound, RunsFollowJobs, WorkIsSound, CallsAreSound
  <2> QED
    BY <2>1, <2>2, <2>3, <2>4, <2>5, <2>6, <2>7, <2>8, <2>9, StepKeepsTypes
<1>14. ASSUME NEW s \in Syncs, UpdateAfterSync(s) PROVE IInv'
  <2>1. CallsAreSound' /\ ChecksAreSound' /\ OverlapsExplained'
    BY <1>14, Frame DEF UpdateAfterSync
  <2>2. WorkIsSound'
    BY <1>14 DEF UpdateAfterSync, At, Goto, WorkAt, WorkIsSound
  <2>3. OneHand'
    BY <1>14
       DEF UpdateAfterSync, At, Goto, WorkAt, OneHand, InHand, Inserting, CallsAreSound,
           WorkIsSound, RunsFollowJobs, EventsFollowJobs
  <2>4. RunsFollowJobs'
    BY <1>14
       DEF UpdateAfterSync, At, Goto, WorkAt, RunsFollowJobs, OneHand, InHand, Inserting,
           WorkIsSound, CallsAreSound
  <2>5. EventsFollowJobs'
    BY <1>14
       DEF UpdateAfterSync, At, Goto, WorkAt, EventsFollowJobs, Triggered, OneHand, InHand,
           Inserting, WorkIsSound, CallsAreSound, RunsFollowJobs
  <2>6. OffIsUnscheduled'
    BY <1>14 DEF UpdateAfterSync, At, Goto, WorkAt, OffIsUnscheduled
  <2>7. RunsAccountedFor'
    BY <1>14
       DEF UpdateAfterSync, At, Goto, WorkAt, RunsAccountedFor, Active, StrandedRun, InHand,
           Inserting, WorkIsSound, CallsAreSound, RunsFollowJobs, OneHand
  <2>8. EventsAccountedFor'
    BY <1>14
       DEF UpdateAfterSync, At, Goto, WorkAt, EventsAccountedFor, InHand, Inserting, Triggered,
           WorkIsSound, CallsAreSound, EventsFollowJobs, RunsFollowJobs, OneHand
  <2> QED
    BY <2>1, <2>2, <2>3, <2>4, <2>5, <2>6, <2>7, <2>8, StepKeepsTypes
<1>15. ASSUME NEW e \in Events, NEW s \in Syncs, TriggerWebhook(e, s) PROVE IInv'
  <2>1. CallsAreSound' /\ OffIsUnscheduled'
    BY <1>15, Frame DEF TriggerWebhook
  <2>2. WorkIsSound'
    BY <1>15 DEF TriggerWebhook, At, InsertSync, WorkIsSound
  <2>3. OneHand'
    BY <1>15
       DEF TriggerWebhook, At, InsertSync, OneHand, InHand, Inserting, CallsAreSound,
           WorkIsSound, RunsFollowJobs, EventsFollowJobs
  <2>4. RunsFollowJobs'
    BY <1>15
       DEF TriggerWebhook, At, InsertSync, RunsFollowJobs, OneHand, InHand, Inserting,
           WorkIsSound, CallsAreSound
  <2>5. EventsFollowJobs'
    BY <1>15
       DEF TriggerWebhook, At, InsertSync, EventsFollowJobs, Triggered, OneHand, InHand,
           Inserting, WorkIsSound, CallsAreSound, RunsFollowJobs
  <2>6. ChecksAreSound'
    BY <1>15
       DEF TriggerWebhook, At, InsertSync, ChecksAreSound, Inserting, Counts, Active,
           HasActiveRun, CallsAreSound
  <2>7. RunsAccountedFor'
    BY <1>15
       DEF TriggerWebhook, At, InsertSync, RunsAccountedFor, Active, StrandedRun, InHand,
           Inserting, WorkIsSound, CallsAreSound, RunsFollowJobs, OneHand
  <2>8. EventsAccountedFor'
    BY <1>15
       DEF TriggerWebhook, At, InsertSync, EventsAccountedFor, InHand, Inserting, Triggered,
           WorkIsSound, CallsAreSound, EventsFollowJobs, RunsFollowJobs, OneHand
  <2>9. OverlapsExplained'
    BY <1>15
       DEF TriggerWebhook, At, InsertSync, OverlapsExplained, Inserting, Active, Counts,
           ChecksAreSound, RunsFollowJobs, WorkIsSound, CallsAreSound
  <2> QED
    BY <2>1, <2>2, <2>3, <2>4, <2>5, <2>6, <2>7, <2>8, <2>9, StepKeepsTypes
<1>16. ASSUME NEW e \in Events, TriggeredBefore(e) PROVE IInv'
  <2>1. CallsAreSound' /\ ChecksAreSound' /\ OffIsUnscheduled' /\ OverlapsExplained'
    BY <1>16, Frame DEF TriggeredBefore
  <2>2. WorkIsSound'
    BY <1>16 DEF TriggeredBefore, At, Goto, WorkAt, WorkIsSound
  <2>3. OneHand'
    BY <1>16
       DEF TriggeredBefore, At, Goto, WorkAt, OneHand, InHand, Inserting, CallsAreSound,
           WorkIsSound, RunsFollowJobs, EventsFollowJobs
  <2>4. RunsFollowJobs'
    BY <1>16
       DEF TriggeredBefore, At, Goto, WorkAt, RunsFollowJobs, OneHand, InHand, Inserting,
           WorkIsSound, CallsAreSound
  <2>5. EventsFollowJobs'
    BY <1>16
       DEF TriggeredBefore, At, Goto, WorkAt, EventsFollowJobs, Triggered, OneHand, InHand,
           Inserting, WorkIsSound, CallsAreSound, RunsFollowJobs
  <2>6. RunsAccountedFor'
    BY <1>16
       DEF TriggeredBefore, At, Goto, WorkAt, RunsAccountedFor, Active, StrandedRun, InHand,
           Inserting, WorkIsSound, CallsAreSound, RunsFollowJobs, OneHand
  <2>7. EventsAccountedFor'
    BY <1>16
       DEF TriggeredBefore, At, Goto, WorkAt, EventsAccountedFor, InHand, Inserting, Triggered,
           WorkIsSound, CallsAreSound, EventsFollowJobs, RunsFollowJobs, OneHand
  <2> QED
    BY <2>1, <2>2, <2>3, <2>4, <2>5, <2>6, <2>7, StepKeepsTypes
<1>17. ASSUME NEW e \in Events, EnqueueSync(e) PROVE IInv'
  <2>a. /\ work[e].sync \in Syncs /\ InHand(work[e].sync) /\ work[e].step = "enqueue"
        /\ jobs[work[e].sync].state = "none"
    BY <1>17 DEF EnqueueSync, At, WorkIsSound, Work, InHand, OneHand
  <2>1. CallsAreSound' /\ ChecksAreSound' /\ OffIsUnscheduled'
    BY <1>17, Frame DEF EnqueueSync
  <2>2. WorkIsSound'
    BY <1>17, <2>a DEF EnqueueSync, At, JobBecomes, Goto, WorkAt, WorkIsSound
  <2>3. OneHand'
    BY <1>17, <2>a
       DEF EnqueueSync, At, JobBecomes, Goto, WorkAt, OneHand, InHand, Inserting,
           CallsAreSound, WorkIsSound, RunsFollowJobs, EventsFollowJobs
  <2>4. RunsFollowJobs'
    BY <1>17, <2>a
       DEF EnqueueSync, At, JobBecomes, Goto, WorkAt, RunsFollowJobs, OneHand, InHand,
           Inserting, WorkIsSound, CallsAreSound
  <2>5. EventsFollowJobs'
    BY <1>17, <2>a
       DEF EnqueueSync, At, JobBecomes, Goto, WorkAt, EventsFollowJobs, Triggered, OneHand,
           InHand, Inserting, WorkIsSound, CallsAreSound, RunsFollowJobs
  <2>6. RunsAccountedFor'
    BY <1>17, <2>a
       DEF EnqueueSync, At, JobBecomes, Goto, WorkAt, RunsAccountedFor, Active, StrandedRun,
           InHand, Inserting, WorkIsSound, CallsAreSound, RunsFollowJobs, OneHand
  <2>7. EventsAccountedFor'
    BY <1>17, <2>a
       DEF EnqueueSync, At, JobBecomes, Goto, WorkAt, EventsAccountedFor, InHand, Inserting,
           Triggered, WorkIsSound, CallsAreSound, EventsFollowJobs, RunsFollowJobs, OneHand
  <2>8. OverlapsExplained'
    BY <1>17, <2>a
       DEF EnqueueSync, At, JobBecomes, Goto, WorkAt, OverlapsExplained, Inserting, Active,
           Counts, ChecksAreSound, RunsFollowJobs, WorkIsSound, CallsAreSound
  <2> QED
    BY <2>1, <2>2, <2>3, <2>4, <2>5, <2>6, <2>7, <2>8, StepKeepsTypes
<1>18. ASSUME NEW e \in Events, MarkProcessed(e) PROVE IInv'
  <2>1. CallsAreSound' /\ ChecksAreSound' /\ OffIsUnscheduled' /\ OverlapsExplained'
    BY <1>18, Frame DEF MarkProcessed
  <2>2. WorkIsSound'
    BY <1>18 DEF MarkProcessed, At, Goto, WorkAt, WorkIsSound
  <2>3. OneHand'
    BY <1>18
       DEF MarkProcessed, At, Goto, WorkAt, OneHand, InHand, Inserting, CallsAreSound,
           WorkIsSound, RunsFollowJobs, EventsFollowJobs
  <2>4. RunsFollowJobs'
    BY <1>18
       DEF MarkProcessed, At, Goto, WorkAt, RunsFollowJobs, OneHand, InHand, Inserting,
           WorkIsSound, CallsAreSound
  <2>5. EventsFollowJobs'
    BY <1>18
       DEF MarkProcessed, At, Goto, WorkAt, EventsFollowJobs, Triggered, OneHand, InHand,
           Inserting, WorkIsSound, CallsAreSound, RunsFollowJobs
  <2>6. RunsAccountedFor'
    BY <1>18
       DEF MarkProcessed, At, Goto, WorkAt, RunsAccountedFor, Active, StrandedRun, InHand,
           Inserting, WorkIsSound, CallsAreSound, RunsFollowJobs, OneHand
  <2>7. EventsAccountedFor'
    BY <1>18
       DEF MarkProcessed, At, Goto, WorkAt, EventsAccountedFor, InHand, Inserting, Triggered,
           WorkIsSound, CallsAreSound, EventsFollowJobs, RunsFollowJobs, OneHand
  <2> QED
    BY <2>1, <2>2, <2>3, <2>4, <2>5, <2>6, <2>7, StepKeepsTypes
<1>19. ASSUME NEW i \in Items, Complete(i) PROVE IInv'
  <2>1. CallsAreSound' /\ ChecksAreSound' /\ OffIsUnscheduled'
    BY <1>19, Frame DEF Complete
  <2>2. WorkIsSound'
    BY <1>19 DEF Complete, At, JobBecomes, Goto, WorkAt, WorkIsSound
  <2>3. OneHand'
    BY <1>19
       DEF Complete, At, JobBecomes, Goto, WorkAt, OneHand, InHand, Inserting, CallsAreSound,
           WorkIsSound, RunsFollowJobs, EventsFollowJobs
  <2>4. RunsFollowJobs'
    BY <1>19
       DEF Complete, At, JobBecomes, Goto, WorkAt, RunsFollowJobs, OneHand, InHand, Inserting,
           WorkIsSound, CallsAreSound
  <2>5. EventsFollowJobs'
    BY <1>19
       DEF Complete, At, JobBecomes, Goto, WorkAt, EventsFollowJobs, Triggered, OneHand,
           InHand, Inserting, WorkIsSound, CallsAreSound, RunsFollowJobs
  <2>6. RunsAccountedFor'
    BY <1>19
       DEF Complete, At, JobBecomes, Goto, WorkAt, RunsAccountedFor, Active, StrandedRun,
           InHand, Inserting, WorkIsSound, CallsAreSound, RunsFollowJobs, OneHand
  <2>7. EventsAccountedFor'
    BY <1>19
       DEF Complete, At, JobBecomes, Goto, WorkAt, EventsAccountedFor, InHand, Inserting,
           Triggered, WorkIsSound, CallsAreSound, EventsFollowJobs, RunsFollowJobs, OneHand
  <2>8. OverlapsExplained'
    BY <1>19
       DEF Complete, At, JobBecomes, Goto, WorkAt, OverlapsExplained, Inserting, Active,
           Counts, ChecksAreSound, RunsFollowJobs, WorkIsSound, CallsAreSound
  <2> QED
    BY <2>1, <2>2, <2>3, <2>4, <2>5, <2>6, <2>7, <2>8, StepKeepsTypes
<1>20. ASSUME NEW i \in Items, StatementFails(i) PROVE IInv'
  <2>a. jobs[i].state = "active" /\ jobs[i].made \in Nat
    BY <1>20 DEF StatementFails, WorkIsSound, Job
  <2>b. /\ jobs' = [jobs EXCEPT ![i] = [state |-> IF jobs[i].made + 1 < Attempts THEN "waiting"
                                                  ELSE "failed", made |-> jobs[i].made + 1]]
        /\ work' = [work EXCEPT ![i] = WorkAt("none")]
    BY <1>20 DEF StatementFails, FailAttempt, Goto
  <2>1. CallsAreSound' /\ ChecksAreSound' /\ OffIsUnscheduled'
    BY <1>20, Frame DEF StatementFails
  <2>2. WorkIsSound'
    BY <1>20, <2>a, <2>b
       DEF StatementFails, Fault, FailAttempt, LeavesBehind, Exhausted, Goto, WorkAt,
           WorkIsSound
  <2>3. OneHand'
    BY <1>20, <2>a, <2>b
       DEF StatementFails, Fault, FailAttempt, LeavesBehind, Exhausted, Goto, WorkAt, OneHand,
           InHand, Inserting, CallsAreSound, WorkIsSound, RunsFollowJobs, EventsFollowJobs
  <2>4. RunsFollowJobs'
    BY <1>20, <2>a, <2>b
       DEF StatementFails, Fault, FailAttempt, LeavesBehind, Exhausted, Goto, WorkAt,
           RunsFollowJobs, OneHand, InHand, Inserting, WorkIsSound, CallsAreSound
  <2>5. EventsFollowJobs'
      <3> SUFFICES ASSUME NEW e \in Events
                   PROVE  EventsFollowJobs!(e)'
        BY DEF EventsFollowJobs
      <3>1. CASE e = i
        <4>1. /\ work'[i].step = "none" /\ jobs'[i].state \in {"waiting", "failed"} /\ logs' = logs
              /\ i \in listeners' => i \in listeners \/ jobs'[i].state = "failed"
          BY <1>20, <2>a, <2>b, AttemptsAssumption DEF StatementFails, FailAttempt, Exhausted, WorkAt
        <4> QED
          BY <2>a, <3>1, <4>1 DEF EventsFollowJobs
      <3>2. CASE e # i
        BY <1>20, <2>a, <2>b, <3>2 DEF StatementFails, FailAttempt, Exhausted, EventsFollowJobs, Triggered
      <3> QED
        BY <3>1, <3>2
  <2>6. RunsAccountedFor'
    BY <1>20, <2>a, <2>b
       DEF StatementFails, Fault, FailAttempt, LeavesBehind, Exhausted, Goto, WorkAt,
           RunsAccountedFor, Active, StrandedRun, InHand, Inserting, WorkIsSound,
           CallsAreSound, RunsFollowJobs, OneHand
  <2>7. EventsAccountedFor'
      <3>1. jobs' = [jobs EXCEPT ![i] = jobs'[i]] /\ jobs'[i].state \in {"waiting", "failed"}
        BY <2>a, <2>b
      <3>2. \A e \in Events : InHand(e) => InHand(e)'
        BY <1>20, NamesAssumption DEF StatementFails, FailAttempt, Goto, WorkAt, InHand, Work, WorkIsSound
      <3>3. \A e \in Events : Triggered(e)' <=> Triggered(e)
        BY <1>20 DEF StatementFails, Triggered
      <3>4. /\ logs' = logs /\ ignored' = ignored /\ dropped \subseteq dropped'
            /\ listeners \subseteq listeners'
        BY <1>20 DEF StatementFails, FailAttempt
      <3>5. i \in Events /\ jobs'[i].state = "failed" =>
               i \in listeners' \/ jobs'[i].made < Attempts
        BY <1>20, <2>a, AttemptsAssumption DEF StatementFails, FailAttempt, Exhausted
      <3> QED
        BY <3>1, <3>2, <3>3, <3>4, <3>5 DEF EventsAccountedFor
  <2>8. OverlapsExplained'
    BY <1>20, <2>a, <2>b
       DEF StatementFails, Fault, FailAttempt, LeavesBehind, Exhausted, Goto, WorkAt,
           OverlapsExplained, Inserting, Active, Counts, ChecksAreSound, RunsFollowJobs,
           WorkIsSound, CallsAreSound
  <2> QED
    BY <2>1, <2>2, <2>3, <2>4, <2>5, <2>6, <2>7, <2>8, StepKeepsTypes
<1>21. ASSUME NEW i \in Items, WorkerDies(i) PROVE IInv'
  <2>a. jobs[i].state = "active" /\ jobs[i].made \in Nat
    BY <1>21 DEF WorkerDies, WorkIsSound, Job
  <2>1. CallsAreSound' /\ ChecksAreSound' /\ OffIsUnscheduled'
    BY <1>21, Frame DEF WorkerDies
  <2>2. WorkIsSound'
    BY <1>21, <2>a
       DEF WorkerDies, Fault, LeavesBehind, Exhausted, JobBecomes, Goto, WorkAt, WorkIsSound
  <2>3. OneHand'
    BY <1>21, <2>a
       DEF WorkerDies, Fault, LeavesBehind, Exhausted, JobBecomes, Goto, WorkAt, OneHand,
           InHand, Inserting, CallsAreSound, WorkIsSound, RunsFollowJobs, EventsFollowJobs
  <2>4. RunsFollowJobs'
    BY <1>21, <2>a
       DEF WorkerDies, Fault, LeavesBehind, Exhausted, JobBecomes, Goto, WorkAt,
           RunsFollowJobs, OneHand, InHand, Inserting, WorkIsSound, CallsAreSound
  <2>5. EventsFollowJobs'
    BY <1>21, <2>a
       DEF WorkerDies, Fault, LeavesBehind, Exhausted, JobBecomes, Goto, WorkAt,
           EventsFollowJobs, Triggered, OneHand, InHand, Inserting, WorkIsSound, CallsAreSound,
           RunsFollowJobs
  <2>6. RunsAccountedFor'
    BY <1>21, <2>a
       DEF WorkerDies, Fault, LeavesBehind, Exhausted, JobBecomes, Goto, WorkAt,
           RunsAccountedFor, Active, StrandedRun, InHand, Inserting, WorkIsSound,
           CallsAreSound, RunsFollowJobs, OneHand
  <2>7. EventsAccountedFor'
      <3>1. jobs' = [jobs EXCEPT ![i] = jobs'[i]] /\ jobs'[i].state \in {"waiting", "failed"}
        BY <1>21, <2>a DEF WorkerDies, JobBecomes
      <3>2. \A e \in Events : InHand(e) => InHand(e)'
        BY <1>21, NamesAssumption DEF WorkerDies, JobBecomes, Goto, WorkAt, InHand, Work, WorkIsSound
      <3>3. \A e \in Events : Triggered(e)' <=> Triggered(e)
        BY <1>21 DEF WorkerDies, Triggered
      <3>4. /\ logs' = logs /\ ignored' = ignored /\ dropped \subseteq dropped'
            /\ listeners \subseteq listeners'
        BY <1>21 DEF WorkerDies, JobBecomes
      <3>5. i \in Events /\ jobs'[i].state = "failed" =>
               i \in listeners' \/ jobs'[i].made < Attempts
        BY <1>21, <2>a, AttemptsAssumption DEF WorkerDies, JobBecomes, Exhausted
      <3> QED
        BY <3>1, <3>2, <3>3, <3>4, <3>5 DEF EventsAccountedFor
  <2>8. OverlapsExplained'
    BY <1>21, <2>a
       DEF WorkerDies, Fault, LeavesBehind, Exhausted, JobBecomes, Goto, WorkAt,
           OverlapsExplained, Inserting, Active, Counts, ChecksAreSound, RunsFollowJobs,
           WorkIsSound, CallsAreSound
  <2> QED
    BY <2>1, <2>2, <2>3, <2>4, <2>5, <2>6, <2>7, <2>8, StepKeepsTypes
<1>22. ASSUME NEW e \in Events, MarkFailed(e) PROVE IInv'
  <2>1. CallsAreSound' /\ WorkIsSound' /\ RunsFollowJobs' /\ ChecksAreSound'
        /\ OffIsUnscheduled' /\ RunsAccountedFor' /\ OverlapsExplained'
    BY <1>22, Frame DEF MarkFailed
  <2>2. OneHand'
    BY <1>22
       DEF MarkFailed, OneHand, InHand, Inserting, CallsAreSound, WorkIsSound, RunsFollowJobs,
           EventsFollowJobs
  <2>3. EventsFollowJobs'
    BY <1>22
       DEF MarkFailed, EventsFollowJobs, Triggered, OneHand, InHand, Inserting, WorkIsSound,
           CallsAreSound, RunsFollowJobs
  <2>4. EventsAccountedFor'
    BY <1>22
       DEF MarkFailed, EventsAccountedFor, InHand, Inserting, Triggered, WorkIsSound,
           CallsAreSound, EventsFollowJobs, RunsFollowJobs, OneHand
  <2> QED
    BY <2>1, <2>2, <2>3, <2>4, StepKeepsTypes
<1>23. ASSUME NEW e \in Events, ListenerFails(e) PROVE IInv'
  <2>1. CallsAreSound' /\ WorkIsSound' /\ OneHand' /\ RunsFollowJobs' /\ ChecksAreSound'
        /\ OffIsUnscheduled' /\ OverlapsExplained'
    BY <1>23, Frame DEF ListenerFails
  <2>2. EventsFollowJobs'
    BY <1>23
       DEF ListenerFails, Fault, EventsFollowJobs, Triggered, OneHand, InHand, Inserting,
           WorkIsSound, CallsAreSound, RunsFollowJobs
  <2>3. RunsAccountedFor'
    BY <1>23
       DEF ListenerFails, Fault, RunsAccountedFor, Active, StrandedRun, InHand, Inserting,
           WorkIsSound, CallsAreSound, RunsFollowJobs, OneHand
  <2>4. EventsAccountedFor'
    BY <1>23
       DEF ListenerFails, Fault, EventsAccountedFor, InHand, Inserting, Triggered, WorkIsSound,
           CallsAreSound, EventsFollowJobs, RunsFollowJobs, OneHand
  <2> QED
    BY <2>1, <2>2, <2>3, <2>4, StepKeepsTypes
<1>24. CASE UNCHANGED vars
  BY <1>24, Frame, StepKeepsTypes DEF vars
<1> QED
  <2>1. ASSUME NEW c \in Callers, Trigger(c) \/ Continue(c) PROVE IInv'
    BY <1>3, <1>4, <1>5, <1>6, <1>7, <1>8, <1>9, <1>10, <2>1 DEF Trigger, Continue
  <2>2. ASSUME NEW i \in Items, RunJob(i) PROVE IInv'
    BY <1>11, <1>12, <1>13, <1>14, <1>15, <1>16, <1>17, <1>18, <1>19, <1>20, <2>2
       DEF RunJob, RunSync, RunWebhook
  <2>3. ASSUME NEW e \in Events, Listen(e) PROVE IInv'
    BY <1>22, <1>23, <2>3 DEF Listen
  <2> QED
    BY <1>1, <1>2, <1>21, <1>24, <2>1, <2>2, <2>3 DEF Next

--------------------------------------------------------------------------------
(* The invariant of all the proofs holds in every reachable state. *)
THEOREM InvariantCorrect == Spec => []IInv
  BY InvariantHoldsInitially, StepKeepsInvariant, PTL DEF Spec

(* Rows, jobs and calls keep their types. *)
THEOREM TypeCorrect == Spec => []TypeOK
  BY InvariantCorrect, PTL DEF IInv

(* A sync that has not ended is in hand, queued or running, or was let go by a  *)
(* crash or by its job's last attempt: the guard hasActiveRun never waits for    *)
(* anything else.                                                               *)
THEOREM NoRunForgotten == Spec => []RunsAccountedFor
  BY InvariantCorrect, PTL DEF IInv

(* A verified webhook is in hand, queued, about to be marked FAILED, or let go;  *)
(* a processed one has its sync.                                                *)
THEOREM NoEventForgotten == Spec => []EventsAccountedFor
  BY InvariantCorrect, PTL DEF IInv

(* Two runs overlap only for one of the three causes the code leaves open. *)
THEOREM OverlapsHaveACause == Spec => []OverlapsExplained
  BY InvariantCorrect, PTL DEF IInv

(* No run that began before a disconnect puts the connection back on schedule. *)
THEOREM DisconnectedStaysOff == Spec => []DisconnectedIsNotDue
<1>1. IInv => DisconnectedIsNotDue
  BY DEF IInv, OffIsUnscheduled, DisconnectedIsNotDue, Due
<1> QED
  BY <1>1, InvariantCorrect, PTL
================================================================================
