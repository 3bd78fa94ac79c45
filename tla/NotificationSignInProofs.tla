---------------------- MODULE NotificationSignInProofs ----------------------
(***************************************************************************)
(* Theorems about NotificationDelivery, for every set of sends, every      *)
(* number of attempts and any number of crashes, and about SignIn, whose   *)
(* lockouts send notifications, for any number of requests and links.      *)
(* The two share no state and no definition.                               *)
(***************************************************************************)
EXTENDS NotificationDelivery, SignIn, TLAPS

(* NotificationDelivery                                                    *)

(* Strengthening of the invariants                                           *)

(* The row exists once send() has inserted it, the job once it is enqueued;  *)
(* the worker is in a job exactly while the job is active, and a job that    *)
(* may still run has attempts left.                                          *)
JobFollowsRow ==
    \A n \in Sends :
        /\ sending[n] \in {"idle", "create"} => status[n] = "absent"
        /\ sending[n] = "enqueue" => status[n] # "absent"
        /\ sending[n] # "done" => jobs[n].state = "none"
        /\ status[n] = "absent" =>
              /\ jobs[n].state = "none"
              /\ cancelling[n] = "idle"
              /\ failing[n] = "none"
              /\ delivered[n] = unrecorded[n]
        /\ jobs[n].state = "active" <=> working[n] # "none"
        /\ jobs[n].state \in {"none", "waiting", "active"} => jobs[n].attemptsMade < Attempts
        /\ working[n] = "finish" => status[n] # "PENDING"

(* The worker sends again only what went unrecorded before. *)
SendsUnrecordedOnly ==
    \A n \in Sends :
        /\ working[n] = "markSent" => delivered[n] = unrecorded[n] + 1
        /\ working[n] = "send" => delivered[n] = unrecorded[n]
        /\ status[n] = "PENDING" /\ working[n] # "markSent" => delivered[n] = unrecorded[n]

(* Inductive: the three safety invariants with where a row's job stands. *)
IInv ==
    /\ TypeOK
    /\ JobFollowsRow
    /\ SendsUnrecordedOnly
    /\ SentMeansDelivered
    /\ PendingIsCaredFor
    /\ DeliveriesRecorded

-----------------------------------------------------------------------------

LEMMA InitialTypes == Init => TypeOK
  BY AttemptsAssumption, CrashAssumption DEF Init, TypeOK, Job, NotificationStatus

LEMMA StepKeepsTypes == TypeOK /\ JobFollowsRow /\ [Next]_vars => TypeOK'
<1> SUFFICES ASSUME TypeOK, JobFollowsRow, [Next]_vars PROVE TypeOK'
  OBVIOUS
<1> USE AttemptsAssumption, CrashAssumption
        DEF TypeOK, NotificationStatus, table, calls, worker, observed
<1>1. ASSUME NEW n \in Sends, CheckDuplicate(n) PROVE TypeOK'
  BY <1>1 DEF CheckDuplicate
<1>2. ASSUME NEW n \in Sends, SkipChannel(n) PROVE TypeOK'
  BY <1>2 DEF SkipChannel
<1>3. ASSUME NEW n \in Sends, CreateRow(n) PROVE TypeOK'
  BY <1>3 DEF CreateRow
<1>4. ASSUME NEW n \in Sends, Enqueue(n) PROVE TypeOK'
  BY <1>4 DEF Enqueue, Job
<1>5. ASSUME NEW n \in Sends, StartCancel(n) PROVE TypeOK'
  BY <1>5 DEF StartCancel
<1>6. ASSUME NEW n \in Sends, RemoveJob(n) PROVE TypeOK'
  <2>1. [jobs[n] EXCEPT !.state = "removed"] \in Job
    BY DEF Job
  <2> QED
    BY <1>6, <2>1 DEF RemoveJob
<1>7. ASSUME NEW n \in Sends, MarkCancelled(n) PROVE TypeOK'
  BY <1>7 DEF MarkCancelled
<1>8. ASSUME NEW n \in Sends, DeleteNotification(n) PROVE TypeOK'
  BY <1>8 DEF DeleteNotification
<1>9. ASSUME NEW n \in Sends, DedupeWindowPasses(n) PROVE TypeOK'
  BY <1>9 DEF DedupeWindowPasses
<1>10. ASSUME NEW n \in Sends, Claim(n) PROVE TypeOK'
  BY <1>10 DEF Claim, Job
<1>11. ASSUME NEW n \in Sends, ReadRow(n) PROVE TypeOK'
  <2>1. [jobs[n] EXCEPT !.state = "completed"] \in Job
    BY DEF Job
  <2> QED
    BY <1>11, <2>1 DEF ReadRow, Complete
<1>12. ASSUME NEW n \in Sends, MarkUndeliverable(n) PROVE TypeOK'
  BY <1>12 DEF MarkUndeliverable
<1>13. ASSUME NEW n \in Sends, ProviderAccepts(n) PROVE TypeOK'
  BY <1>13 DEF ProviderAccepts
<1>14. ASSUME NEW n \in Sends, ProviderRefuses(n) PROVE TypeOK'
  BY <1>14 DEF ProviderRefuses
<1>15. ASSUME NEW n \in Sends, MarkSent(n) PROVE TypeOK'
  BY <1>15 DEF MarkSent
<1>16. ASSUME NEW n \in Sends, Finish(n) PROVE TypeOK'
  BY <1>16 DEF Finish, Complete, Job
<1>17. ASSUME NEW n \in Sends, CountFailure(n) PROVE TypeOK'
  <2>1. [state |-> IF jobs[n].attemptsMade + 1 < Attempts THEN "waiting" ELSE "failed",
         attemptsMade |-> jobs[n].attemptsMade + 1] \in Job
    BY <1>17 DEF CountFailure, JobFollowsRow, Job
  <2> QED
    BY <1>17, <2>1 DEF CountFailure, FailAttempt
<1>18. ASSUME NEW n \in Sends, StatementFails(n) PROVE TypeOK'
  <2>1. [state |-> IF jobs[n].attemptsMade + 1 < Attempts THEN "waiting" ELSE "failed",
         attemptsMade |-> jobs[n].attemptsMade + 1] \in Job
    BY <1>18 DEF StatementFails, JobFollowsRow, Job
  <2> QED
    BY <1>18, <2>1 DEF StatementFails, FailAttempt
<1>19. ASSUME NEW n \in Sends, ReadExhausted(n) PROVE TypeOK'
  BY <1>19 DEF ReadExhausted
<1>20. ASSUME NEW n \in Sends, MarkExhausted(n) PROVE TypeOK'
  BY <1>20 DEF MarkExhausted
<1>21. ASSUME NEW n \in Sends, WorkerDies(n) PROVE TypeOK'
  <2>1. jobs[n].attemptsMade + 1 \in 0..Attempts
    BY <1>21 DEF WorkerDies, JobFollowsRow, Job
  <2>2. [jobs[n] EXCEPT !.state = "waiting"] \in Job
    BY DEF Job
  <2>3. [state |-> "failed", attemptsMade |-> jobs[n].attemptsMade + 1] \in Job
    BY <2>1 DEF Job
  <2> QED
    BY <1>21, <2>2, <2>3 DEF WorkerDies
<1>22. ASSUME NEW n \in Sends, CallDies(n) PROVE TypeOK'
  BY <1>22 DEF CallDies
<1>23. CASE UNCHANGED vars
  BY <1>23 DEF vars
<1> QED
  BY <1>1, <1>2, <1>3, <1>4, <1>5, <1>6, <1>7, <1>8, <1>9, <1>10, <1>11, <1>12, <1>13, <1>14,
     <1>15, <1>16, <1>17, <1>18, <1>19, <1>20, <1>21, <1>22, <1>23
     DEF Next, Send, Cancel, Work, Exhaust

(* A step that leaves the variables of a conjunct alone leaves the conjunct true. *)
LEMMA Frame ==
    /\ JobFollowsRow
       /\ UNCHANGED <<status, sending, cancelling, jobs, working, failing, delivered, unrecorded>>
          => JobFollowsRow'
    /\ SendsUnrecordedOnly
       /\ UNCHANGED <<status, working, delivered, unrecorded>>
          => SendsUnrecordedOnly'
    /\ SentMeansDelivered
       /\ UNCHANGED <<status, working, delivered>>
          => SentMeansDelivered'
    /\ PendingIsCaredFor
       /\ UNCHANGED <<status, deleted, orphaned, sending, jobs, failing, cancelling>>
          => PendingIsCaredFor'
    /\ DeliveriesRecorded
       /\ UNCHANGED <<delivered, unrecorded>>
          => DeliveriesRecorded'
  BY DEF JobFollowsRow, SendsUnrecordedOnly, SentMeansDelivered, PendingIsCaredFor,
         Stranded, DeliveriesRecorded

LEMMA InvariantHoldsInitially == Init => IInv
  BY InitialTypes, AttemptsAssumption
     DEF Init, IInv, JobFollowsRow, SendsUnrecordedOnly, SentMeansDelivered, PendingIsCaredFor,
         Stranded, DeliveriesRecorded

(* One step per action, and under it one per conjunct the action disturbs. *)
LEMMA StepKeepsInvariant == IInv /\ [Next]_vars => IInv'
<1> SUFFICES ASSUME IInv, [Next]_vars PROVE IInv'
  OBVIOUS
<1> USE DEF IInv, TypeOK, table, calls, worker, observed
<1>1. ASSUME NEW n \in Sends, CheckDuplicate(n) PROVE IInv'
  <2>1. SendsUnrecordedOnly' /\ SentMeansDelivered' /\ DeliveriesRecorded'
    BY <1>1, Frame DEF CheckDuplicate
  <2>2. JobFollowsRow'
    BY <1>1 DEF CheckDuplicate, JobFollowsRow, Job
  <2>3. PendingIsCaredFor'
    BY <1>1 DEF CheckDuplicate, PendingIsCaredFor, Stranded, JobFollowsRow, Job
  <2> QED
    BY <2>1, <2>2, <2>3, StepKeepsTypes
<1>2. ASSUME NEW n \in Sends, SkipChannel(n) PROVE IInv'
  <2>1. SendsUnrecordedOnly' /\ SentMeansDelivered' /\ DeliveriesRecorded'
    BY <1>2, Frame DEF SkipChannel
  <2>2. JobFollowsRow'
    BY <1>2 DEF SkipChannel, JobFollowsRow, Job
  <2>3. PendingIsCaredFor'
    BY <1>2 DEF SkipChannel, PendingIsCaredFor, Stranded, JobFollowsRow, Job
  <2> QED
    BY <2>1, <2>2, <2>3, StepKeepsTypes
<1>3. ASSUME NEW n \in Sends, CreateRow(n) PROVE IInv'
  <2>1. DeliveriesRecorded'
    BY <1>3, Frame DEF CreateRow
  <2>2. JobFollowsRow'
    BY <1>3 DEF CreateRow, JobFollowsRow, Job
  <2>3. SendsUnrecordedOnly'
    BY <1>3 DEF CreateRow, SendsUnrecordedOnly, JobFollowsRow
  <2>4. SentMeansDelivered'
    BY <1>3 DEF CreateRow, SentMeansDelivered, JobFollowsRow
  <2>5. PendingIsCaredFor'
    BY <1>3 DEF CreateRow, PendingIsCaredFor, Stranded, JobFollowsRow, Job
  <2> QED
    BY <2>1, <2>2, <2>3, <2>4, <2>5, StepKeepsTypes
<1>4. ASSUME NEW n \in Sends, Enqueue(n) PROVE IInv'
  <2>1. SendsUnrecordedOnly' /\ SentMeansDelivered' /\ DeliveriesRecorded'
    BY <1>4, Frame DEF Enqueue
  <2>2. JobFollowsRow'
    BY <1>4 DEF Enqueue, JobFollowsRow, Job
  <2>3. PendingIsCaredFor'
    BY <1>4 DEF Enqueue, PendingIsCaredFor, Stranded, JobFollowsRow, Job
  <2> QED
    BY <2>1, <2>2, <2>3, StepKeepsTypes
<1>5. ASSUME NEW n \in Sends, StartCancel(n) PROVE IInv'
  <2>1. SendsUnrecordedOnly' /\ SentMeansDelivered' /\ DeliveriesRecorded'
    BY <1>5, Frame DEF StartCancel
  <2>2. JobFollowsRow'
    BY <1>5 DEF StartCancel, JobFollowsRow, Job
  <2>3. PendingIsCaredFor'
    BY <1>5 DEF StartCancel, PendingIsCaredFor, Stranded, JobFollowsRow, Job
  <2> QED
    BY <2>1, <2>2, <2>3, StepKeepsTypes
<1>6. ASSUME NEW n \in Sends, RemoveJob(n) PROVE IInv'
  <2>1. SendsUnrecordedOnly' /\ SentMeansDelivered' /\ DeliveriesRecorded'
    BY <1>6, Frame DEF RemoveJob
  <2>2. JobFollowsRow'
    BY <1>6 DEF RemoveJob, JobFollowsRow, Job
  <2>3. PendingIsCaredFor'
    BY <1>6 DEF RemoveJob, PendingIsCaredFor, Stranded, JobFollowsRow, Job
  <2> QED
    BY <2>1, <2>2, <2>3, StepKeepsTypes
<1>7. ASSUME NEW n \in Sends, MarkCancelled(n) PROVE IInv'
  <2>1. DeliveriesRecorded'
    BY <1>7, Frame DEF MarkCancelled
  <2>2. JobFollowsRow'
    BY <1>7 DEF MarkCancelled, JobFollowsRow, Job
  <2>3. SendsUnrecordedOnly'
    BY <1>7 DEF MarkCancelled, SendsUnrecordedOnly, JobFollowsRow
  <2>4. SentMeansDelivered'
    BY <1>7 DEF MarkCancelled, SentMeansDelivered, JobFollowsRow
  <2>5. PendingIsCaredFor'
    BY <1>7 DEF MarkCancelled, PendingIsCaredFor, Stranded, JobFollowsRow, Job
  <2> QED
    BY <2>1, <2>2, <2>3, <2>4, <2>5, StepKeepsTypes
<1>8. ASSUME NEW n \in Sends, DeleteNotification(n) PROVE IInv'
  <2>1. JobFollowsRow' /\ SendsUnrecordedOnly' /\ SentMeansDelivered' /\ DeliveriesRecorded'
    BY <1>8, Frame DEF DeleteNotification
  <2>2. PendingIsCaredFor'
    BY <1>8 DEF DeleteNotification, PendingIsCaredFor, Stranded, JobFollowsRow, Job
  <2> QED
    BY <2>1, <2>2, StepKeepsTypes
<1>9. ASSUME NEW n \in Sends, DedupeWindowPasses(n) PROVE IInv'
  BY <1>9, Frame, StepKeepsTypes DEF DedupeWindowPasses
<1>10. ASSUME NEW n \in Sends, Claim(n) PROVE IInv'
  <2>1. DeliveriesRecorded'
    BY <1>10, Frame DEF Claim
  <2>2. JobFollowsRow'
    BY <1>10 DEF Claim, JobFollowsRow, Job
  <2>3. SendsUnrecordedOnly'
    BY <1>10 DEF Claim, SendsUnrecordedOnly, JobFollowsRow, Job
  <2>4. SentMeansDelivered'
    BY <1>10 DEF Claim, SentMeansDelivered, JobFollowsRow, Job
  <2>5. PendingIsCaredFor'
    BY <1>10 DEF Claim, PendingIsCaredFor, Stranded, JobFollowsRow, Job
  <2> QED
    BY <2>1, <2>2, <2>3, <2>4, <2>5, StepKeepsTypes
<1>11. ASSUME NEW n \in Sends, ReadRow(n) PROVE IInv'
  <2>1. DeliveriesRecorded'
    BY <1>11, Frame DEF ReadRow, Complete
  <2>2. JobFollowsRow'
    BY <1>11 DEF ReadRow, Complete, JobFollowsRow, Job
  <2>3. SendsUnrecordedOnly'
    BY <1>11 DEF ReadRow, Complete, SendsUnrecordedOnly, JobFollowsRow, Job
  <2>4. SentMeansDelivered'
    BY <1>11 DEF ReadRow, Complete, SentMeansDelivered, JobFollowsRow, Job
  <2>5. PendingIsCaredFor'
    BY <1>11 DEF ReadRow, Complete, PendingIsCaredFor, Stranded, JobFollowsRow, Job
  <2> QED
    BY <2>1, <2>2, <2>3, <2>4, <2>5, StepKeepsTypes
<1>12. ASSUME NEW n \in Sends, MarkUndeliverable(n) PROVE IInv'
  <2>1. DeliveriesRecorded'
    BY <1>12, Frame DEF MarkUndeliverable
  <2>2. JobFollowsRow'
    BY <1>12 DEF MarkUndeliverable, JobFollowsRow, Job
  <2>3. SendsUnrecordedOnly'
    BY <1>12 DEF MarkUndeliverable, SendsUnrecordedOnly, JobFollowsRow
  <2>4. SentMeansDelivered'
    BY <1>12 DEF MarkUndeliverable, SentMeansDelivered, JobFollowsRow
  <2>5. PendingIsCaredFor'
    BY <1>12 DEF MarkUndeliverable, PendingIsCaredFor, Stranded, JobFollowsRow, Job
  <2> QED
    BY <2>1, <2>2, <2>3, <2>4, <2>5, StepKeepsTypes
<1>13. ASSUME NEW n \in Sends, ProviderAccepts(n) PROVE IInv'
  <2>1. PendingIsCaredFor'
    BY <1>13, Frame DEF ProviderAccepts
  <2>2. JobFollowsRow'
    BY <1>13 DEF ProviderAccepts, JobFollowsRow, Job
  <2>3. SendsUnrecordedOnly'
    BY <1>13 DEF ProviderAccepts, SendsUnrecordedOnly, JobFollowsRow
  <2>4. SentMeansDelivered'
    BY <1>13 DEF ProviderAccepts, SentMeansDelivered, JobFollowsRow
  <2>5. DeliveriesRecorded'
    BY <1>13 DEF ProviderAccepts, DeliveriesRecorded, SendsUnrecordedOnly
  <2> QED
    BY <2>1, <2>2, <2>3, <2>4, <2>5, StepKeepsTypes
<1>14. ASSUME NEW n \in Sends, ProviderRefuses(n) PROVE IInv'
  <2>1. PendingIsCaredFor' /\ DeliveriesRecorded'
    BY <1>14, Frame DEF ProviderRefuses
  <2>2. JobFollowsRow'
    BY <1>14 DEF ProviderRefuses, JobFollowsRow, Job
  <2>3. SendsUnrecordedOnly'
    BY <1>14 DEF ProviderRefuses, SendsUnrecordedOnly, JobFollowsRow
  <2>4. SentMeansDelivered'
    BY <1>14 DEF ProviderRefuses, SentMeansDelivered, JobFollowsRow
  <2> QED
    BY <2>1, <2>2, <2>3, <2>4, StepKeepsTypes
<1>15. ASSUME NEW n \in Sends, MarkSent(n) PROVE IInv'
  <2>1. DeliveriesRecorded'
    BY <1>15, Frame DEF MarkSent
  <2>2. JobFollowsRow'
    BY <1>15 DEF MarkSent, JobFollowsRow, Job
  <2>3. SendsUnrecordedOnly'
    BY <1>15 DEF MarkSent, SendsUnrecordedOnly, JobFollowsRow
  <2>4. SentMeansDelivered'
    BY <1>15 DEF MarkSent, SentMeansDelivered, JobFollowsRow
  <2>5. PendingIsCaredFor'
    BY <1>15 DEF MarkSent, PendingIsCaredFor, Stranded, JobFollowsRow, Job
  <2> QED
    BY <2>1, <2>2, <2>3, <2>4, <2>5, StepKeepsTypes
<1>16. ASSUME NEW n \in Sends, Finish(n) PROVE IInv'
  <2>1. DeliveriesRecorded'
    BY <1>16, Frame DEF Finish, Complete
  <2>2. JobFollowsRow'
    BY <1>16 DEF Finish, Complete, JobFollowsRow, Job
  <2>3. SendsUnrecordedOnly'
    BY <1>16 DEF Finish, Complete, SendsUnrecordedOnly, JobFollowsRow, Job
  <2>4. SentMeansDelivered'
    BY <1>16 DEF Finish, Complete, SentMeansDelivered, JobFollowsRow, Job
  <2>5. PendingIsCaredFor'
    BY <1>16 DEF Finish, Complete, PendingIsCaredFor, Stranded, JobFollowsRow, Job
  <2> QED
    BY <2>1, <2>2, <2>3, <2>4, <2>5, StepKeepsTypes
<1>17. ASSUME NEW n \in Sends, CountFailure(n) PROVE IInv'
  <2>1. DeliveriesRecorded'
    BY <1>17, Frame DEF CountFailure, FailAttempt
  <2>2. JobFollowsRow'
    BY <1>17 DEF CountFailure, FailAttempt, JobFollowsRow, Job
  <2>3. SendsUnrecordedOnly'
    BY <1>17 DEF CountFailure, FailAttempt, SendsUnrecordedOnly, JobFollowsRow, Job
  <2>4. SentMeansDelivered'
    BY <1>17 DEF CountFailure, FailAttempt, SentMeansDelivered, JobFollowsRow, Job
  <2>5. PendingIsCaredFor'
    BY <1>17 DEF CountFailure, FailAttempt, PendingIsCaredFor, Stranded, JobFollowsRow, Job
  <2> QED
    BY <2>1, <2>2, <2>3, <2>4, <2>5, StepKeepsTypes
<1>18. ASSUME NEW n \in Sends, StatementFails(n) PROVE IInv'
  <2>1. JobFollowsRow'
    BY <1>18 DEF StatementFails, FailAttempt, JobFollowsRow, Job
  <2>2. SendsUnrecordedOnly'
    BY <1>18 DEF StatementFails, FailAttempt, SendsUnrecordedOnly, JobFollowsRow, Job
  <2>3. SentMeansDelivered'
    BY <1>18 DEF StatementFails, FailAttempt, SentMeansDelivered, JobFollowsRow, Job
  <2>4. PendingIsCaredFor'
    BY <1>18 DEF StatementFails, FailAttempt, PendingIsCaredFor, Stranded, JobFollowsRow, Job
  <2>5. DeliveriesRecorded'
    BY <1>18 DEF StatementFails, FailAttempt, DeliveriesRecorded, SendsUnrecordedOnly, Job
  <2> QED
    BY <2>1, <2>2, <2>3, <2>4, <2>5, StepKeepsTypes
<1>19. ASSUME NEW n \in Sends, ReadExhausted(n) PROVE IInv'
  <2>1. SendsUnrecordedOnly' /\ SentMeansDelivered' /\ DeliveriesRecorded'
    BY <1>19, Frame DEF ReadExhausted
  <2>2. JobFollowsRow'
    BY <1>19 DEF ReadExhausted, JobFollowsRow, Job
  <2>3. PendingIsCaredFor'
    BY <1>19 DEF ReadExhausted, PendingIsCaredFor, Stranded, JobFollowsRow, Job
  <2> QED
    BY <2>1, <2>2, <2>3, StepKeepsTypes
<1>20. ASSUME NEW n \in Sends, MarkExhausted(n) PROVE IInv'
  <2>1. DeliveriesRecorded'
    BY <1>20, Frame DEF MarkExhausted
  <2>2. JobFollowsRow'
    BY <1>20 DEF MarkExhausted, JobFollowsRow, Job
  <2>3. SendsUnrecordedOnly'
    BY <1>20 DEF MarkExhausted, SendsUnrecordedOnly, JobFollowsRow
  <2>4. SentMeansDelivered'
    BY <1>20 DEF MarkExhausted, SentMeansDelivered, JobFollowsRow
  <2>5. PendingIsCaredFor'
    BY <1>20 DEF MarkExhausted, PendingIsCaredFor, Stranded, JobFollowsRow, Job
  <2> QED
    BY <2>1, <2>2, <2>3, <2>4, <2>5, StepKeepsTypes
<1>21. ASSUME NEW n \in Sends, WorkerDies(n) PROVE IInv'
  <2>1. JobFollowsRow'
    BY <1>21 DEF WorkerDies, JobFollowsRow, Job
  <2>2. SendsUnrecordedOnly'
    BY <1>21 DEF WorkerDies, SendsUnrecordedOnly, JobFollowsRow, Job
  <2>3. SentMeansDelivered'
    BY <1>21 DEF WorkerDies, SentMeansDelivered, JobFollowsRow, Job
  <2>4. PendingIsCaredFor'
    BY <1>21 DEF WorkerDies, PendingIsCaredFor, Stranded, JobFollowsRow, Job
  <2>5. DeliveriesRecorded'
    BY <1>21 DEF WorkerDies, DeliveriesRecorded, SendsUnrecordedOnly, Job
  <2> QED
    BY <2>1, <2>2, <2>3, <2>4, <2>5, StepKeepsTypes
<1>22. ASSUME NEW n \in Sends, CallDies(n) PROVE IInv'
  <2>1. SendsUnrecordedOnly' /\ SentMeansDelivered' /\ DeliveriesRecorded'
    BY <1>22, Frame DEF CallDies
  <2>2. JobFollowsRow'
    BY <1>22 DEF CallDies, JobFollowsRow, Job
  <2>3. PendingIsCaredFor'
    BY <1>22 DEF CallDies, PendingIsCaredFor, Stranded, JobFollowsRow, Job
  <2> QED
    BY <2>1, <2>2, <2>3, StepKeepsTypes
<1>23. CASE UNCHANGED vars
  BY <1>23, Frame, StepKeepsTypes DEF vars
<1> QED
  BY <1>1, <1>2, <1>3, <1>4, <1>5, <1>6, <1>7, <1>8, <1>9, <1>10, <1>11, <1>12, <1>13, <1>14,
     <1>15, <1>16, <1>17, <1>18, <1>19, <1>20, <1>21, <1>22, <1>23
     DEF Next, Send, Cancel, Work, Exhaust

(* The inductive invariant: where a row's job stands, and what the worker    *)
(* may still send.                                                           *)
THEOREM InvariantCorrect == Spec => []IInv
  BY InvariantHoldsInitially, StepKeepsInvariant, PTL DEF Spec

(* Rows, jobs and calls keep their types: no job is tried more often than    *)
(* the queue's attempts.                                                     *)
THEOREM TypeCorrect == Spec => []TypeOK
  BY InvariantCorrect, PTL DEF IInv

(* A SENT notification was accepted by its provider.                         *)
THEOREM SentWasDelivered == Spec => []SentMeansDelivered
  BY InvariantCorrect, PTL DEF IInv

(* A PENDING notification has a send, job, listener or cancellation that     *)
(* will settle it, or that one died.                                         *)
THEOREM NothingForgotten == Spec => []PendingIsCaredFor
  BY InvariantCorrect, PTL DEF IInv

(* Retries and stalled jobs never repeat a recorded delivery.                *)
THEOREM NoRecordedDeliveryRepeated == Spec => []DeliveriesRecorded
  BY InvariantCorrect, PTL DEF IInv

-----------------------------------------------------------------------------
(* SignIn                                                                  *)

(* The inductive invariant                                                   *)

(* What a login has read: the counter as it is, unless it was overtaken, and *)
(* no more than the failures in a row, unless it straddles a success.  While *)
(* the account is locked, every login still under way was overtaken.         *)
LoginsReadTheCounter ==
    \A r \in Signing :
        /\ r \notin stale => reqs[r].n = count /\ lock # "locked"
        /\ r \notin straddling /\ trust # "inflated" => reqs[r].n <= wrong

(* A lockout that no stale login renewed has one notice at most, to come or  *)
(* gone out; there are none of lockouts to come.                             *)
NoticesAreOfLockouts ==
    /\ \A r \in Requests : At(r, "notify") => reqs[r].n <= lockout
    /\ \A k \in 1 .. MaxLogins :
          /\ k > lockout => notices[k] = 0
          /\ k \notin crossed =>
                /\ notices[k] <= 1
                /\ \A r \in Requests : At(r, "notify") /\ reqs[r].n = k => notices[k] = 0
                /\ \A r, q \in Requests :
                      /\ At(r, "notify") /\ reqs[r].n = k
                      /\ At(q, "notify") /\ reqs[q].n = k
                      => r = q

(* Where nobody overtook it, a request for a new link finds no usable one,   *)
(* and a reset finds its own still usable; only resets spend links.          *)
LinksAsRead ==
    /\ \A r \in Requests : At(r, "mint") /\ r \notin stale => \A l \in Links : ~Usable(l)
    /\ \A r \in Requests : At(r, "reset") =>
          reqs[r].link \in Links /\ (r \notin stale => Usable(reqs[r].link))
    /\ \A l \in Links : "used" \notin links[l] => commits[l] = 0

SignInInv == /\ SignInTypeOK
             /\ LoginsReadTheCounter /\ LockoutIsEarned
             /\ NoticesAreOfLockouts /\ NoticeOncePerLockout
             /\ LinksAsRead /\ OneUsableLink /\ LinkIsSpentOnce

-----------------------------------------------------------------------------

LEMMA SignInInitialTypes == SignInInit => SignInTypeOK
  BY LimitAssumption DEF SignInInit, SignInTypeOK, Req, Steps, Idle

LEMMA SignInKeepsTypes ==
    SignInTypeOK /\ LinksAsRead /\ [SignInNext]_signInVars => SignInTypeOK'
<1> SUFFICES ASSUME SignInTypeOK, LinksAsRead, [SignInNext]_signInVars PROVE SignInTypeOK'
  OBVIOUS
<1> USE LimitAssumption DEF SignInTypeOK, At, Goto, Done, Overtaken, account, reset
<1>0. /\ Idle \in Req
      /\ \A s \in Steps, n \in Nat, l \in Links \union {None} :
            [step |-> s, n |-> n, link |-> l] \in Req
      /\ \A r \in Requests : reqs[r].n \in Nat /\ reqs[r].link \in Links \union {None}
  BY DEF Req, Steps, Idle
<1>1. ASSUME NEW r \in Requests, Login(r) PROVE SignInTypeOK'
  BY <1>0, <1>1 DEF Login, Steps
<1>2. ASSUME NEW r \in Requests, RecordFailure(r) PROVE SignInTypeOK'
  <2>1. lockout' \in Nat /\ crossed' \subseteq Nat
    BY <1>2 DEF RecordFailure
  <2>2. reqs' \in [Requests -> Req]
    BY <1>0, <1>2, <2>1 DEF RecordFailure, Steps
  <2>3. /\ count' \in Nat /\ wrong' \in Nat
        /\ lock' \in {"open", "locked", "lapsed"}
        /\ trust' \in {"exact", "short", "inflated"}
        /\ stale' \subseteq Requests /\ straddling' \subseteq Requests
    BY <1>0, <1>2 DEF RecordFailure, Signing
  <2> QED
    BY <1>2, <2>1, <2>2, <2>3 DEF RecordFailure
<1>3. ASSUME NEW r \in Requests, Notify(r) PROVE SignInTypeOK'
  <2>1. ASSUME NEW k \in Nat PROVE [notices EXCEPT ![k] = notices[k] + 1] \in [1 .. MaxLogins -> Nat]
    <3>1. CASE k \in 1 .. MaxLogins
      BY <3>1
    <3>2. CASE k \notin 1 .. MaxLogins
      BY <3>2
    <3> QED
      BY <3>1, <3>2
  <2> QED
    BY <1>0, <1>3, <2>1 DEF Notify
<1>4. ASSUME NEW r \in Requests, RecordSuccess(r) PROVE SignInTypeOK'
  BY <1>0, <1>4 DEF RecordSuccess, Signing
<1>5. ASSUME NEW r \in Requests, Forgot(r) PROVE SignInTypeOK'
  BY <1>0, <1>5 DEF Forgot, Steps, Resetting
<1>6. ASSUME NEW r \in Requests, CommitReset(r) PROVE SignInTypeOK'
  BY <1>0, <1>6 DEF CommitReset, Resetting, LinksAsRead
<1>7. ASSUME NEW r \in Requests, Stop(r) PROVE SignInTypeOK'
  BY <1>0, <1>7 DEF Stop
<1>8. ASSUME NEW r \in Requests, NEW l \in Links, Mint(r, l) PROVE SignInTypeOK'
  BY <1>0, <1>8 DEF Mint
<1>9. ASSUME NEW r \in Requests, NEW l \in Links, OpenReset(r, l) PROVE SignInTypeOK'
  BY <1>0, <1>9 DEF OpenReset, Steps
<1>10. CASE LockLapses
  BY <1>10 DEF LockLapses
<1>11. ASSUME NEW l \in Links, LinkLapses(l) PROVE SignInTypeOK'
  BY <1>11 DEF LinkLapses, Resetting
<1>12. CASE UNCHANGED signInVars
  BY <1>12 DEF signInVars
<1> QED
  BY <1>1, <1>2, <1>3, <1>4, <1>5, <1>6, <1>7, <1>8, <1>9, <1>10, <1>11, <1>12 DEF SignInNext

(* The counter and the lock. *)
LEMMA CounterStep ==
    SignInTypeOK /\ LoginsReadTheCounter /\ LockoutIsEarned /\ [SignInNext]_signInVars
        => LoginsReadTheCounter' /\ LockoutIsEarned'
<1> SUFFICES ASSUME SignInTypeOK, LoginsReadTheCounter, LockoutIsEarned, [SignInNext]_signInVars
             PROVE  LoginsReadTheCounter' /\ LockoutIsEarned'
  OBVIOUS
<1> USE LimitAssumption DEF SignInTypeOK, At, Goto, Done, Overtaken, account, reset, Signing
<1>0. /\ Idle.step = "idle"
      /\ \A r \in Requests : reqs[r].n \in Nat
  BY DEF Req, Idle
<1>1. ASSUME NEW r \in Requests, Login(r) PROVE LoginsReadTheCounter' /\ LockoutIsEarned'
  BY <1>0, <1>1 DEF Login, LoginsReadTheCounter, LockoutIsEarned
<1>2. ASSUME NEW r \in Requests, RecordFailure(r) PROVE LoginsReadTheCounter' /\ LockoutIsEarned'
  <2>1. /\ Signing' = Signing \ {r}
        /\ \A q \in Requests \ {r} : reqs'[q] = reqs[q]
    BY <1>0, <1>2 DEF RecordFailure
  <2>2. LoginsReadTheCounter'
    BY <1>0, <1>2, <2>1 DEF RecordFailure, LoginsReadTheCounter
  <2>3. LockoutIsEarned'
    BY <1>0, <1>2 DEF RecordFailure, LoginsReadTheCounter, LockoutIsEarned
  <2> QED
    BY <2>2, <2>3
<1>3. ASSUME NEW r \in Requests, Notify(r) PROVE LoginsReadTheCounter' /\ LockoutIsEarned'
  BY <1>0, <1>3 DEF Notify, LoginsReadTheCounter, LockoutIsEarned
<1>4. ASSUME NEW r \in Requests, RecordSuccess(r) PROVE LoginsReadTheCounter' /\ LockoutIsEarned'
  <2>1. /\ Signing' = Signing \ {r}
        /\ \A q \in Requests \ {r} : reqs'[q] = reqs[q]
    BY <1>0, <1>4 DEF RecordSuccess
  <2> QED
    BY <1>0, <1>4, <2>1 DEF RecordSuccess, LoginsReadTheCounter, LockoutIsEarned
<1>5. ASSUME NEW r \in Requests, Forgot(r) PROVE LoginsReadTheCounter' /\ LockoutIsEarned'
  BY <1>0, <1>5 DEF Forgot, Resetting, LoginsReadTheCounter, LockoutIsEarned
<1>6. ASSUME NEW r \in Requests, CommitReset(r) PROVE LoginsReadTheCounter' /\ LockoutIsEarned'
  BY <1>0, <1>6 DEF CommitReset, Resetting, LoginsReadTheCounter, LockoutIsEarned
<1>7. ASSUME NEW r \in Requests, Stop(r) PROVE LoginsReadTheCounter' /\ LockoutIsEarned'
  BY <1>0, <1>7 DEF Stop, LoginsReadTheCounter, LockoutIsEarned
<1>8. ASSUME NEW r \in Requests, NEW l \in Links, Mint(r, l)
      PROVE LoginsReadTheCounter' /\ LockoutIsEarned'
  BY <1>0, <1>8 DEF Mint, LoginsReadTheCounter, LockoutIsEarned
<1>9. ASSUME NEW r \in Requests, NEW l \in Links, OpenReset(r, l)
      PROVE LoginsReadTheCounter' /\ LockoutIsEarned'
  BY <1>0, <1>9 DEF OpenReset, LoginsReadTheCounter, LockoutIsEarned
<1>10. CASE LockLapses
  BY <1>10 DEF LockLapses, LoginsReadTheCounter, LockoutIsEarned
<1>11. ASSUME NEW l \in Links, LinkLapses(l) PROVE LoginsReadTheCounter' /\ LockoutIsEarned'
  BY <1>11 DEF LinkLapses, Resetting, LoginsReadTheCounter, LockoutIsEarned
<1>12. CASE UNCHANGED signInVars
  BY <1>12 DEF signInVars, LoginsReadTheCounter, LockoutIsEarned
<1> QED
  BY <1>1, <1>2, <1>3, <1>4, <1>5, <1>6, <1>7, <1>8, <1>9, <1>10, <1>11, <1>12 DEF SignInNext

(* The notices. *)
LEMMA NoticeStep ==
    /\ SignInTypeOK /\ LoginsReadTheCounter /\ NoticesAreOfLockouts
    /\ [SignInNext]_signInVars
    => NoticesAreOfLockouts'
<1> SUFFICES ASSUME SignInTypeOK, LoginsReadTheCounter, NoticesAreOfLockouts,
                    [SignInNext]_signInVars
             PROVE  NoticesAreOfLockouts'
  OBVIOUS
<1> USE LimitAssumption DEF SignInTypeOK, At, Goto, Done, Overtaken, account, reset
<1>0. /\ Idle.step = "idle"
      /\ \A r \in Requests : reqs[r].n \in Nat
  BY DEF Req, Idle
<1>a. /\ UNCHANGED <<lockout, crossed, notices>>
      /\ \A r \in Requests : At(r, "notify")' => At(r, "notify") /\ reqs'[r] = reqs[r]
      => NoticesAreOfLockouts'
  <2> SUFFICES ASSUME UNCHANGED <<lockout, crossed, notices>>,
                      \A r \in Requests : At(r, "notify")' => At(r, "notify") /\ reqs'[r] = reqs[r]
               PROVE  NoticesAreOfLockouts'
    OBVIOUS
  <2>1. \A r \in Requests : reqs'[r].step = "notify" =>
            reqs[r].step = "notify" /\ reqs'[r].n = reqs[r].n
    OBVIOUS
  <2>2. \A r \in Requests : reqs'[r].step = "notify" => reqs'[r].n <= lockout
    BY <2>1 DEF NoticesAreOfLockouts
  <2>3. ASSUME NEW k \in 1 .. MaxLogins, k > lockout PROVE notices[k] = 0
    BY <2>3 DEF NoticesAreOfLockouts
  <2>4. ASSUME NEW k \in 1 .. MaxLogins, k \notin crossed
        PROVE  /\ notices[k] <= 1
               /\ \A r \in Requests : reqs'[r].step = "notify" /\ reqs'[r].n = k => notices[k] = 0
               /\ \A r, q \in Requests :
                     /\ reqs'[r].step = "notify" /\ reqs'[r].n = k
                     /\ reqs'[q].step = "notify" /\ reqs'[q].n = k
                     => r = q
    <3>1. /\ notices[k] <= 1
          /\ \A r \in Requests : reqs[r].step = "notify" /\ reqs[r].n = k => notices[k] = 0
          /\ \A r, q \in Requests :
                /\ reqs[r].step = "notify" /\ reqs[r].n = k
                /\ reqs[q].step = "notify" /\ reqs[q].n = k
                => r = q
      BY <2>4 DEF NoticesAreOfLockouts
    <3> QED
      BY <2>1, <3>1
  <2> QED
    BY <2>2, <2>3, <2>4 DEF NoticesAreOfLockouts
<1>1. ASSUME NEW r \in Requests, Login(r) PROVE NoticesAreOfLockouts'
  BY <1>0, <1>a, <1>1 DEF Login
<1>2. ASSUME NEW r \in Requests, RecordFailure(r) PROVE NoticesAreOfLockouts'
  <2>1. CASE reqs[r].n + 1 < MaxAttempts
    BY <1>0, <1>a, <1>2, <2>1 DEF RecordFailure
  <2>2. CASE reqs[r].n + 1 >= MaxAttempts /\ lock # "locked"
    <3>1. /\ lockout' = lockout + 1
          /\ UNCHANGED <<crossed, notices>>
          /\ reqs' = [reqs EXCEPT ![r] = [step |-> "notify", n |-> lockout + 1, link |-> None]]
      BY <1>0, <1>2, <2>2 DEF RecordFailure
    <3> QED
      BY <1>0, <3>1 DEF NoticesAreOfLockouts
  <2>3. CASE reqs[r].n + 1 >= MaxAttempts /\ lock = "locked"
    <3>1. r \in stale
      BY <1>2, <2>3 DEF RecordFailure, LoginsReadTheCounter, Signing
    <3>2. /\ lockout' = lockout
          /\ notices' = notices
          /\ crossed' = crossed \union {lockout}
          /\ reqs' = [reqs EXCEPT ![r] = [step |-> "notify", n |-> lockout, link |-> None]]
      BY <1>0, <1>2, <2>3, <3>1 DEF RecordFailure
    <3> QED
      BY <1>0, <3>2 DEF NoticesAreOfLockouts
  <2> QED
    BY <1>0, <2>1, <2>2, <2>3
<1>3. ASSUME NEW r \in Requests, Notify(r) PROVE NoticesAreOfLockouts'
  <2>1. /\ UNCHANGED <<lockout, crossed>>
        /\ notices' = [notices EXCEPT ![reqs[r].n] = @ + 1]
        /\ reqs' = [reqs EXCEPT ![r] = Idle]
    BY <1>3 DEF Notify
  <2> QED
    BY <1>0, <1>3, <2>1 DEF Notify, NoticesAreOfLockouts
<1>4. ASSUME NEW r \in Requests, RecordSuccess(r) PROVE NoticesAreOfLockouts'
  BY <1>0, <1>a, <1>4 DEF RecordSuccess
<1>5. ASSUME NEW r \in Requests, Forgot(r) PROVE NoticesAreOfLockouts'
  BY <1>0, <1>a, <1>5 DEF Forgot
<1>6. ASSUME NEW r \in Requests, CommitReset(r) PROVE NoticesAreOfLockouts'
  BY <1>0, <1>a, <1>6 DEF CommitReset
<1>7. ASSUME NEW r \in Requests, Stop(r) PROVE NoticesAreOfLockouts'
  BY <1>0, <1>a, <1>7 DEF Stop
<1>8. ASSUME NEW r \in Requests, NEW l \in Links, Mint(r, l) PROVE NoticesAreOfLockouts'
  BY <1>0, <1>a, <1>8 DEF Mint
<1>9. ASSUME NEW r \in Requests, NEW l \in Links, OpenReset(r, l) PROVE NoticesAreOfLockouts'
  BY <1>0, <1>a, <1>9 DEF OpenReset
<1>10. CASE LockLapses
  BY <1>a, <1>10 DEF LockLapses
<1>11. ASSUME NEW l \in Links, LinkLapses(l) PROVE NoticesAreOfLockouts'
  BY <1>a, <1>11 DEF LinkLapses
<1>12. CASE UNCHANGED signInVars
  BY <1>a, <1>12 DEF signInVars
<1> QED
  BY <1>1, <1>2, <1>3, <1>4, <1>5, <1>6, <1>7, <1>8, <1>9, <1>10, <1>11, <1>12 DEF SignInNext

(* The reset links. *)
LEMMA LinkStep ==
    /\ SignInTypeOK /\ LinksAsRead /\ OneUsableLink /\ LinkIsSpentOnce
    /\ [SignInNext]_signInVars
    => LinksAsRead' /\ OneUsableLink' /\ LinkIsSpentOnce'
<1> SUFFICES ASSUME SignInTypeOK, LinksAsRead, OneUsableLink, LinkIsSpentOnce,
                    [SignInNext]_signInVars
             PROVE  LinksAsRead' /\ OneUsableLink' /\ LinkIsSpentOnce'
  OBVIOUS
<1> USE DEF SignInTypeOK, At, Goto, Done, Overtaken, account, reset, Usable
<1>0. Idle.step = "idle"
  BY DEF Idle
<1>a. /\ UNCHANGED reset
      /\ \A r \in Requests : At(r, "mint")' \/ At(r, "reset")' =>
            \/ At(r, "reset")' /\ reqs'[r].link \in Links /\ Usable(reqs'[r].link)
            \/ reqs'[r] = reqs[r] /\ (r \in stale => r \in stale')
      => LinksAsRead' /\ OneUsableLink' /\ LinkIsSpentOnce'
  BY DEF LinksAsRead, OneUsableLink, LinkIsSpentOnce
<1>1. ASSUME NEW r \in Requests, Login(r) PROVE LinksAsRead' /\ OneUsableLink' /\ LinkIsSpentOnce'
  BY <1>0, <1>a, <1>1 DEF Login
<1>2. ASSUME NEW r \in Requests, RecordFailure(r)
      PROVE LinksAsRead' /\ OneUsableLink' /\ LinkIsSpentOnce'
  BY <1>0, <1>a, <1>2 DEF RecordFailure
<1>3. ASSUME NEW r \in Requests, Notify(r) PROVE LinksAsRead' /\ OneUsableLink' /\ LinkIsSpentOnce'
  BY <1>0, <1>a, <1>3 DEF Notify
<1>4. ASSUME NEW r \in Requests, RecordSuccess(r)
      PROVE LinksAsRead' /\ OneUsableLink' /\ LinkIsSpentOnce'
  BY <1>0, <1>a, <1>4 DEF RecordSuccess
<1>5. ASSUME NEW r \in Requests, Forgot(r) PROVE LinksAsRead' /\ OneUsableLink' /\ LinkIsSpentOnce'
  <2>1. /\ \A l \in Links : ~(links'[l] = {"made"})
        /\ \A l \in Links : "used" \in links'[l] <=> "used" \in links[l]
        /\ \A l \in Links : "used" \in links[l] => links'[l] = links[l]
    BY <1>5 DEF Forgot
  <2>2. \A q \in Requests \ {r} : At(q, "reset") /\ q \notin stale' =>
          q \notin stale /\ links'[reqs[q].link] = links[reqs[q].link]
    BY <1>5 DEF Forgot, Resetting, LinksAsRead
  <2>3. LinksAsRead'
    BY <1>5, <2>1, <2>2 DEF Forgot, LinksAsRead
  <2>4. OneUsableLink' /\ LinkIsSpentOnce'
    BY <1>5, <2>1 DEF Forgot, OneUsableLink, LinkIsSpentOnce
  <2> QED
    BY <2>3, <2>4
<1>6. ASSUME NEW r \in Requests, CommitReset(r)
      PROVE LinksAsRead' /\ OneUsableLink' /\ LinkIsSpentOnce'
  <2> DEFINE l == reqs[r].link
  <2>1. /\ l \in Links
        /\ links' = [links EXCEPT ![l] = links[l] \union {"used"}]
        /\ commits' = [commits EXCEPT ![l] = commits[l] + 1]
        /\ r \in stale => l \in overdone'
        /\ overdone \subseteq overdone'
        /\ r \notin stale => links[l] = {"made"}
    BY <1>6 DEF CommitReset, LinksAsRead
  <2>2. LinksAsRead'
    BY <1>0, <1>6, <2>1 DEF CommitReset, Resetting, LinksAsRead
  <2>3. OneUsableLink'
    BY <1>6, <2>1 DEF CommitReset, OneUsableLink
  <2>4. LinkIsSpentOnce'
    <3> SUFFICES ASSUME NEW m \in Links, m \notin overdone'
                 PROVE ~(commits'[m] > 1 \/ ("used" \in links'[m] /\ links'[m] # {"made", "used"}))
      BY DEF LinkIsSpentOnce
    <3>1. CASE m # l
      BY <2>1, <3>1 DEF LinkIsSpentOnce
    <3>2. CASE m = l
      <4>1. links[l] = {"made"} /\ commits[l] = 0
        BY <2>1, <3>2 DEF LinksAsRead
      <4> QED
        BY <2>1, <3>2, <4>1
    <3> QED
      BY <3>1, <3>2
  <2> QED
    BY <2>2, <2>3, <2>4
<1>7. ASSUME NEW r \in Requests, Stop(r) PROVE LinksAsRead' /\ OneUsableLink' /\ LinkIsSpentOnce'
  BY <1>0, <1>a, <1>7 DEF Stop
<1>8. ASSUME NEW r \in Requests, NEW l \in Links, Mint(r, l)
      PROVE LinksAsRead' /\ OneUsableLink' /\ LinkIsSpentOnce'
  <2>1. LinksAsRead'
    BY <1>0, <1>8 DEF Mint, LinksAsRead
  <2>2. OneUsableLink'
    BY <1>8 DEF Mint, LinksAsRead, OneUsableLink
  <2>3. LinkIsSpentOnce'
    BY <1>8 DEF Mint, LinksAsRead, LinkIsSpentOnce
  <2> QED
    BY <2>1, <2>2, <2>3
<1>9. ASSUME NEW r \in Requests, NEW l \in Links, OpenReset(r, l)
      PROVE LinksAsRead' /\ OneUsableLink' /\ LinkIsSpentOnce'
  BY <1>0, <1>a, <1>9 DEF OpenReset
<1>10. CASE LockLapses
  BY <1>a, <1>10 DEF LockLapses
<1>11. ASSUME NEW l \in Links, LinkLapses(l) PROVE LinksAsRead' /\ OneUsableLink' /\ LinkIsSpentOnce'
  <2>1. LinksAsRead'
    BY <1>11 DEF LinkLapses, Resetting, LinksAsRead
  <2>2. OneUsableLink' /\ LinkIsSpentOnce'
    BY <1>11 DEF LinkLapses, OneUsableLink, LinkIsSpentOnce
  <2> QED
    BY <2>1, <2>2
<1>12. CASE UNCHANGED signInVars
  BY <1>a, <1>12 DEF signInVars
<1> QED
  BY <1>1, <1>2, <1>3, <1>4, <1>5, <1>6, <1>7, <1>8, <1>9, <1>10, <1>11, <1>12 DEF SignInNext

LEMMA SignInInvHoldsInitially == SignInInit => SignInInv
<1> SUFFICES ASSUME SignInInit PROVE SignInInv
  OBVIOUS
<1> USE LimitAssumption DEF SignInInit, At, Idle
<1>1. SignInTypeOK
  BY SignInInitialTypes
<1>2. LoginsReadTheCounter /\ LockoutIsEarned
  BY DEF LoginsReadTheCounter, Signing, LockoutIsEarned
<1>3. NoticesAreOfLockouts
  BY DEF NoticesAreOfLockouts
<1>4. NoticeOncePerLockout
  BY DEF NoticeOncePerLockout
<1>5. LinksAsRead /\ OneUsableLink /\ LinkIsSpentOnce
  BY DEF LinksAsRead, OneUsableLink, LinkIsSpentOnce, Usable
<1> QED
  BY <1>1, <1>2, <1>3, <1>4, <1>5 DEF SignInInv

LEMMA SignInKeepsInv == SignInInv /\ [SignInNext]_signInVars => SignInInv'
<1> SUFFICES ASSUME SignInInv, [SignInNext]_signInVars PROVE SignInInv'
  OBVIOUS
<1>1. SignInTypeOK' /\ LoginsReadTheCounter' /\ LockoutIsEarned' /\ NoticesAreOfLockouts'
  BY SignInKeepsTypes, CounterStep, NoticeStep DEF SignInInv
<1>2. LinksAsRead' /\ OneUsableLink' /\ LinkIsSpentOnce'
  BY LinkStep DEF SignInInv
<1>3. NoticeOncePerLockout'
  BY <1>1 DEF NoticesAreOfLockouts, NoticeOncePerLockout, SignInTypeOK
<1> QED
  BY <1>1, <1>2, <1>3 DEF SignInInv

(* The inductive invariant: what each request read of the account and of its *)
(* link still stands, unless it was overtaken.                               *)
THEOREM SignInInvariantCorrect == SignInSpec => []SignInInv
  BY SignInInvHoldsInitially, SignInKeepsInv, PTL DEF SignInSpec

(* The counter is off only where logins crossed: for any limit and any       *)
(* number of requests in flight, a lockout was earned.                       *)
THEOREM LockoutsAreEarned == SignInSpec => []LockoutIsEarned
  BY SignInInvariantCorrect, PTL DEF SignInInv

(* A lockout is noticed twice only if a stale login renewed it.              *)
THEOREM OneNoticePerLockout == SignInSpec => []NoticeOncePerLockout
  BY SignInInvariantCorrect, PTL DEF SignInInv

(* Of two usable links one was made by a request another had overtaken.      *)
THEOREM OneLinkIsUsable == SignInSpec => []OneUsableLink
  BY SignInInvariantCorrect, PTL DEF SignInInv

(* A link is spent once, and not after its end, but by a stale request.      *)
THEOREM LinksAreSpentOnce == SignInSpec => []LinkIsSpentOnce
  BY SignInInvariantCorrect, PTL DEF SignInInv

(* A lock is lifted, before it lapses, by nobody but a login that read the   *)
(* account before it was locked.                                             *)
THEOREM LockHolds == SignInSpec => LockHoldsUntilItLapses
<1>1. SignInInv /\ [SignInNext]_signInVars
        => [lock = "locked" /\ lock' = "open" => \E r \in stale : reqs'[r] # reqs[r]]_signInVars
  <2> SUFFICES ASSUME SignInInv, [SignInNext]_signInVars, lock = "locked", lock' = "open"
               PROVE  \E r \in stale : reqs'[r] # reqs[r]
    OBVIOUS
  <2>1. PICK r \in Requests : RecordFailure(r) \/ RecordSuccess(r)
    BY DEF SignInNext, Login, Notify, Forgot, CommitReset, Stop, Mint, OpenReset, LockLapses,
           LinkLapses, account, signInVars
  <2>2. r \in Signing
    BY <2>1 DEF RecordFailure, RecordSuccess, Signing
  <2>3. r \in stale
    BY <2>2 DEF SignInInv, LoginsReadTheCounter
  <2>4. reqs'[r].step # reqs[r].step
    BY <2>1 DEF RecordFailure, RecordSuccess, Goto, Done, At, Idle, SignInInv, SignInTypeOK
  <2> QED
    BY <2>3, <2>4
<1> QED
  BY <1>1, SignInInvariantCorrect, PTL DEF SignInSpec, LockHoldsUntilItLapses
=============================================================================
