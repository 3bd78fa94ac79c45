----------------------------- MODULE ReminderScan -----------------------------
(***************************************************************************)
(* The daily scans that remind people of deadlines: of tasks to their      *)
(* assignee, once per case, and of invoices, filings and document requests *)
(* to everyone assigned to their Business, weekly once they are overdue.   *)
(* Each scan reads what is due and what its ledger holds, then dispatches  *)
(* and records one reminder after another.                                 *)
(*                                                                         *)
(* One behaviour is of one of the two forms; the four services are copies  *)
(* of it.  The scans run as BullMQ jobs, so one may stall and be taken for *)
(* dead while it still runs, and days pass beside them.                    *)
(***************************************************************************)
EXTENDS Integers, FiniteSets

CONSTANTS
    Subjects,     \* tasks, or invoices, filings and requests
    Users,
    Runs,         \* scans in flight (bound)
    LastDay,      \* days that pass (bound)
    DueDays,      \* days that subjects may be due (bound)
    WeekLength,   \* days of a week
    TaskNotice,   \* days ahead a task's reminders go out
    OtherNotice,  \* days ahead the others' do
    MaxFaults,    \* crashes, stalls, failed sends and inserts (bound)
    MaxEdits,     \* edits of subjects (bound)
    None

ASSUME DaysAssumption == /\ LastDay \in Nat /\ DueDays \subseteq 0 .. LastDay
                         /\ WeekLength \in Nat \ {0}
ASSUME BoundsAssumption == MaxFaults \in Nat /\ MaxEdits \in Nat
ASSUME NoticeAssumption == TaskNotice \subseteq Nat /\ OtherNotice \subseteq Nat
ASSUME NoneAssumption == None \notin Users

VARIABLES
    weekly,    \* which of the two forms the scans have
    day,       \* the day that it is
    subjects,  \* what is due when, whether it is open, and whom it concerns
    ledger,    \* reminder rows: sent before
    runs,      \* scans in flight
    jobs,      \* scan jobs waiting in the queue
    faults, edits,
    sent,      \* observation: reminders dispatched
    twice,     \* observation: reminders dispatched more than once
    raced,     \* observation: reminders two scans had in hand together
    loose      \* observation: reminders dispatched, at least in part, and not recorded

world == <<day, subjects, edits>>
seen == <<sent, twice, raced, loose>>
reminderVars == <<weekly, world, ledger, runs, jobs, faults, seen>>

-----------------------------------------------------------------------------
Overdue == -1
Days == 0 .. LastDay
Notice == IF weekly THEN OtherNotice ELSE TaskNotice
Types == Notice \union {Overdue}

(* The unique key of a reminder row: the subject, the user, the case and,    *)
(* for the weekly form, the week of the scan.                                *)
Week(d) == d \div WeekLength
Bucket(t, now) == IF weekly /\ t = Overdue THEN Week(now) ELSE 0
Keys == [subject : Subjects, user : Users, type : TaskNotice \union OtherNotice \union {Overdue},
         bucket : 0 .. Week(LastDay)]
Key(s, u, t, now) == [subject |-> s, user |-> u, type |-> t, bucket |-> Bucket(t, now)]

(* work pairs a subject with a user to remind, or with None while the users  *)
(* are not looked up.  stale: a day has passed or a subject has changed      *)
(* since the scan read what is due.                                          *)
Run == [step : {"idle", "send", "record"}, now : Days,
        left : SUBSET (TaskNotice \union OtherNotice \union {Overdue}),
        type : TaskNotice \union OtherNotice \union {Overdue},
        work : SUBSET (Subjects \X (Users \union {None})),
        known : SUBSET (Subjects \X Users),
        user : Users \union {None}, subject : Subjects \union {None}, stale : BOOLEAN]

NoScan == [step |-> "idle", now |-> 0, left |-> {}, type |-> Overdue, work |-> {}, known |-> {},
           user |-> None, subject |-> None, stale |-> FALSE]

ReminderTypeOK ==
    /\ weekly \in BOOLEAN /\ day \in Days
    /\ subjects \in [Subjects -> [due : DueDays, open : BOOLEAN, holders : SUBSET Users]]
    /\ ledger \subseteq Keys
    /\ runs \in [Runs -> Run]
    /\ jobs \in Nat
    /\ faults \in 0 .. MaxFaults /\ edits \in 0 .. MaxEdits
    /\ sent \subseteq Keys /\ twice \subseteq Keys
    /\ raced \subseteq Keys /\ loose \subseteq Keys

(* A task has one assignee or none, a Business any number of assigned users. *)
Crews == IF weekly THEN SUBSET Users ELSE {h \in SUBSET Users : Cardinality(h) <= 1}

ReminderInit ==
    /\ weekly \in BOOLEAN
    /\ day = 0
    /\ subjects \in [Subjects -> [due : DueDays, open : {TRUE}, holders : Crews]]
    /\ ledger = {}
    /\ runs = [r \in Runs |-> NoScan]
    /\ jobs = 0
    /\ faults = 0 /\ edits = 0
    /\ sent = {} /\ twice = {} /\ raced = {} /\ loose = {}

-----------------------------------------------------------------------------
(* findReminderCandidates: open, in the window of the case, and, of tasks,   *)
(* assigned.                                                                 *)
(* Variant: overdue for one day.                                             *)
InWindowOnce(t, due, now) == IF t = Overdue THEN due = now - 1 ELSE due = now + t
InWindow(t, due, now) == IF t = Overdue THEN due < now ELSE due = now + t

(* Variant: what is closed is still a candidate.                             *)
AnyCandidates(t, now) == {s \in Subjects : InWindow(t, subjects[s].due, now)}
Candidates(t, now) ==
    {s \in Subjects : subjects[s].open /\ InWindow(t, subjects[s].due, now)}

(* findExisting, for this case and this bucket.                              *)
AlreadySent(t, now) == {<<k.subject, k.user>> : k \in {l \in ledger : l.type = t /\ l.bucket = Bucket(t, now)}}

(* What a scan may still dispatch or record, as the keys of its rows.        *)
Recorded(r) == Key(runs[r].subject, runs[r].user, runs[r].type, runs[r].now)
Pairs(work, known) == {p \in (Subjects \X Users) \ known : p \in work \/ <<p[1], None>> \in work}
ToSend(work, known, t, now) == {Key(p[1], p[2], t, now) : p \in Pairs(work, known)}
InHand(r) == ToSend(runs[r].work, runs[r].known, runs[r].type, runs[r].now)
                 \union (IF runs[r].step = "record" THEN {Recorded(r)} ELSE {})

Waits(r) == runs[r].step = "idle"
Put(r, x) == runs' = [runs EXCEPT ![r] = x]

(* A job is taken; its now is the moment it starts.                          *)
Start(r) ==
    /\ Waits(r) /\ jobs > 0
    /\ jobs' = jobs - 1
    /\ Put(r, [NoScan EXCEPT !.step = "send", !.now = day, !.left = Types])
    /\ UNCHANGED <<weekly, world, ledger, faults, seen>>

(* processType for the next case, in the order of the enum, which is that of *)
(* the dates from the farthest: what is due, then what was sent.  Tasks      *)
(* carry their assignee, the others' users are looked up one by one later.   *)
Load(r, t) ==
    LET x == runs[r]
        due == Candidates(t, x.now)
        known == AlreadySent(t, x.now)
        work == IF weekly THEN due \X {None}
                ELSE (UNION {{s} \X subjects[s].holders : s \in due}) \ known
        mine == ToSend(work, known, t, x.now)
    IN /\ x.step = "send" /\ x.work = {}
       /\ t \in x.left /\ \A u \in x.left : t >= u
       /\ Put(r, [x EXCEPT !.type = t, !.left = x.left \ {t}, !.work = work,
                           !.known = known, !.stale = x.now # day])
       /\ raced' = raced \union (mine \intersect UNION {InHand(q) : q \in Runs \ {r}})
       /\ UNCHANGED <<weekly, world, ledger, jobs, faults, sent, twice, loose>>

(* BusinessAssignmentRepository.findByBusiness, as a subject's turn comes.   *)
Resolve(r, s) ==
    LET x == runs[r] IN
    /\ x.step = "send" /\ <<s, None>> \in x.work
    /\ Put(r, [x EXCEPT !.work = (x.work \ {<<s, None>>}) \union (({s} \X subjects[s].holders) \ x.known)])
    /\ UNCHANGED <<weekly, world, ledger, jobs, faults, seen>>

Fault == faults < MaxFaults /\ faults' = faults + 1

(* NotificationDispatchService.send returned.                                *)
Dispatch(r, s, u) ==
    LET x == runs[r]
        k == Key(s, u, x.type, x.now)
    IN /\ x.step = "send" /\ <<s, u>> \in x.work
       /\ Put(r, [x EXCEPT !.step = "record", !.work = x.work \ {<<s, u>>},
                           !.subject = s, !.user = u])
       /\ sent' = sent \union {k}
       /\ twice' = IF k \in sent THEN twice \union {k} ELSE twice
       /\ UNCHANGED <<weekly, world, ledger, jobs, faults, raced, loose>>

(* Variant: the error is swallowed, and the reminder recorded.               *)
DispatchFailsSilently(r, s, u) ==
    LET x == runs[r] IN
    /\ x.step = "send" /\ <<s, u>> \in x.work
    /\ Fault
    /\ Put(r, [x EXCEPT !.step = "record", !.work = x.work \ {<<s, u>>},
                        !.subject = s, !.user = u])
    /\ UNCHANGED <<weekly, world, ledger, jobs, seen>>

(* It threw, before or after the first channel's row was queued: skipped.    *)
DispatchFails(r, s, u) ==
    LET x == runs[r]
        k == Key(s, u, x.type, x.now)
    IN /\ x.step = "send" /\ <<s, u>> \in x.work
       /\ Fault
       /\ Put(r, [x EXCEPT !.work = x.work \ {<<s, u>>}])
       /\ \/ UNCHANGED <<sent, twice, loose>>
          \/ /\ sent' = sent \union {k}
             /\ twice' = IF k \in sent THEN twice \union {k} ELSE twice
             /\ loose' = loose \union {k}
       /\ UNCHANGED <<weekly, world, ledger, jobs, raced>>

Sent(r) == Put(r, [runs[r] EXCEPT !.step = "send", !.subject = None, !.user = None])

(* Variant: the row is keyed without its bucket.                             *)
RecordUnbucketed(r) ==
    /\ runs[r].step = "record"
    /\ ledger' = ledger \union {[Recorded(r) EXCEPT !.bucket = 0]}
    /\ Sent(r)
    /\ UNCHANGED <<weekly, world, jobs, faults, seen>>

(* The insert, or the P2002 of a row that is there, which is swallowed.      *)
Record(r) ==
    /\ runs[r].step = "record"
    /\ ledger' = ledger \union {Recorded(r)}
    /\ Sent(r)
    /\ UNCHANGED <<weekly, world, jobs, faults, seen>>

RecordFails(r) ==
    /\ runs[r].step = "record"
    /\ Fault
    /\ loose' = loose \union {Recorded(r)}
    /\ Sent(r)
    /\ UNCHANGED <<weekly, world, ledger, jobs, sent, twice, raced>>

(* The scan is done when its last case is.                                   *)
End(r) ==
    /\ runs[r].step = "send" /\ runs[r].work = {} /\ runs[r].left = {}
    /\ Put(r, NoScan)
    /\ UNCHANGED <<weekly, world, ledger, jobs, faults, seen>>

(* The process dies, or a read throws: the job runs again if it has an       *)
(* attempt left.                                                             *)
Crash(r) ==
    /\ ~Waits(r)
    /\ Fault
    /\ loose' = IF runs[r].step = "record" THEN loose \union {Recorded(r)} ELSE loose
    /\ Put(r, NoScan)
    /\ jobs' \in {jobs, jobs + 1}
    /\ UNCHANGED <<weekly, world, ledger, sent, twice, raced>>

(* A scan that outlives its lock is taken for dead and runs again beside     *)
(* itself.                                                                   *)
Stall(r) ==
    /\ ~Waits(r)
    /\ Fault
    /\ jobs' = jobs + 1
    /\ UNCHANGED <<weekly, world, ledger, runs, seen>>

-----------------------------------------------------------------------------
Aged == runs' = [r \in Runs |-> [runs[r] EXCEPT !.stale = ~Waits(r)]]

(* The repeatable job adds one scan a day.                                   *)
Tick ==
    /\ day < LastDay
    /\ day' = day + 1
    /\ jobs' = jobs + 1
    /\ Aged
    /\ UNCHANGED <<weekly, subjects, edits, ledger, faults, seen>>

(* A subject is rescheduled, closed or reopened, or its people change.       *)
Edit(s) ==
    /\ edits < MaxEdits /\ edits' = edits + 1
    /\ \/ \E d \in DueDays : subjects' = [subjects EXCEPT ![s].due = d]
       \/ subjects' = [subjects EXCEPT ![s].open = ~@]
       \/ \E h \in Crews : subjects' = [subjects EXCEPT ![s].holders = h]
    /\ Aged
    /\ UNCHANGED <<weekly, day, ledger, jobs, faults, seen>>

RunStep(r) ==
    \/ Start(r)
    \/ \E t \in Types : Load(r, t)
    \/ \E s \in Subjects : Resolve(r, s)
    \/ \E s \in Subjects, u \in Users : Dispatch(r, s, u)
    \/ Record(r) \/ End(r)

Trouble(r) ==
    \/ \E s \in Subjects, u \in Users : DispatchFails(r, s, u)
    \/ RecordFails(r) \/ Crash(r) \/ Stall(r)

ReminderNext ==
    \/ \E r \in Runs : RunStep(r) \/ Trouble(r)
    \/ Tick
    \/ \E s \in Subjects : Edit(s)

(* The schedule adds its job every day, and a worker that runs goes on.      *)
Fairness == WF_reminderVars(Tick) /\ \A r \in Runs : WF_reminderVars(RunStep(r))

ReminderSpec == ReminderInit /\ [][ReminderNext]_reminderVars /\ Fairness

-----------------------------------------------------------------------------
(* A reminder goes out twice only if two scans had it in hand together, or   *)
(* an earlier dispatch of it was never recorded: the ledger, written after   *)
(* the dispatch, guards against every other scan, on that day or later.      *)
TwiceForAReason == twice \subseteq raced \union loose

(* No reminder is recorded that did not go out, so a failed send is tried    *)
(* again; and what went out is recorded, about to be, or known to be loose.  *)
LedgerTellsWhatWasSent ==
    /\ ledger \subseteq sent
    /\ sent \subseteq ledger \union loose \union {Recorded(r) : r \in {q \in Runs : runs[q].step = "record"}}

(* A scan that no edit and no midnight overtook since it read what is due    *)
(* reminds of an open subject, in its window, the people it concerns.        *)
Apt(s, u, t) == /\ subjects[s].open /\ u \in subjects[s].holders
                /\ InWindow(t, subjects[s].due, day)
AptUnlessStale ==
    [][\A r \in Runs : runs[r].step = "send" /\ runs'[r].step = "record" /\ ~runs[r].stale
           => Apt(runs'[r].subject, runs'[r].user, runs'[r].type)]_reminderVars

(* Who is owed a reminder of an overdue subject gets one, or is owed it no   *)
(* more, although single scans die or fail: as long as a day is left for     *)
(* every fault that may still come, and the subject is left alone.           *)
Owed(s, u) == /\ subjects[s].open /\ u \in subjects[s].holders /\ subjects[s].due < day
              /\ ~\E k \in ledger : k.subject = s /\ k.user = u /\ k.type = Overdue
InTime == day + (MaxFaults - faults) < LastDay
OverdueIsReminded ==
    \A s \in Subjects, u \in Users, e \in 0 .. MaxEdits :
        (Owed(s, u) /\ InTime /\ edits = e) ~> (~Owed(s, u) \/ edits # e)
=============================================================================
