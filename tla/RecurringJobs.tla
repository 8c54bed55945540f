----------------------------- MODULE RecurringJobs ----------------------------
(***************************************************************************)
(* One recurring job of the OpenMAS OS: the evaluation of its timer and    *)
(* its runs by processes that call runDueRecurringJobsNow, the signals and *)
(* the scheduling of an operator, and a service tick on the same project   *)
(* (recurring-jobs.js, the job signals of signal-manager.js).              *)
(*                                                                         *)
(* Abstractions.  Every read and write of a record is a step, but a signal *)
(* cancels the timer, and a service tick fires it, in one step.  Threads   *)
(* and events are left out; of the processes those that no runner attends  *)
(* to any more are counted.  Bounds: MaxClock ends the clock, MaxActs the  *)
(* commands of the operator, the service ticks and the crashes together.   *)
(***************************************************************************)
EXTENDS Naturals

CONSTANTS Runners, Interval, MaxFailures, MaxClock, MaxActs

ASSUME BoundsAssumption ==
    /\ Interval \in Nat \ {0} /\ MaxFailures \in Nat \ {0}
    /\ MaxClock \in Nat /\ MaxActs \in Nat

VARIABLES
    clock,
    job, timer,                 \* the records
    left,                       \* active processes that no runner attends to
    pc,                         \* where each runner is
    copy,                       \* what each runner has read, when, and how its invocation has ended
    command, seen,              \* the operator's command; the job it has read, and when
    acts,                       \* bound: what is done to the job from outside
    streak,                     \* history: failed runs since the last one that did not fail
    last, repeated,             \* history: the last slot that has been run, and whether one has been run again
    slips                       \* history: what the code does not answer for

records == <<job, timer, left>>
operator == <<command, seen>>
history == <<streak, last, repeated>>
vars == <<clock, records, pc, copy, operator, acts, history, slips>>

Slots == 0..(MaxClock + Interval)
Terminal == {"cancelled", "expired"}
JobStatuses == {"scheduled", "active", "paused", "ready"} \union Terminal
Schedulable == {"scheduled", "paused"}
Timers == [status : {"scheduled", "fired", "cancelled"}, runAt : Slots, fails : 0..MaxFailures]
Results == {"completed", "blocked", "failed"}
Copies == [runAt : Slots, fails : 0..MaxFailures, job : JobStatuses, at : 0..MaxClock, result : Results]
Nothing == [runAt |-> 0, fails |-> 0, job |-> "ready", at |-> 0, result |-> "completed"]
NotSeen == [job |-> "ready", at |-> 0]

SlotTooLate(previous, now) == previous + Interval * ((now - previous) \div Interval + 2)

\* computeNextRunAt: the slots that have gone by are left out.
NextRunAt(previous, now) ==
    IF previous + Interval > now THEN previous + Interval
    ELSE previous + Interval * ((now - previous) \div Interval + 1)

Due == timer.status = "scheduled" /\ timer.runAt <= clock

\* The histories are kept until a run starts beside another or from records that
\* are no longer what it has read, a write undoes another, or the end of a run is
\* not counted.
Undisturbed == "disturbed" \notin slips

Running(r) == pc[r] = "invoke"

\* hasActiveProcessForJob
HasActiveProcess == left > 0 \/ \E r \in Runners : Running(r)

Goto(r, from, to) == pc[r] = from /\ pc' = [pc EXCEPT ![r] = to]
Return(r, from) == Goto(r, from, "idle") /\ copy' = [copy EXCEPT ![r] = Nothing]
\* A timer is listed while it is scheduled.
Listed(r) == [status |-> "scheduled", runAt |-> copy[r].runAt, fails |-> copy[r].fails]
Overwritten(old, new) == slips' = IF old = new THEN slips ELSE slips \union {"disturbed"}

-------------------------------------------------------------------------------
(* releaseDueRecurringJobs and evaluateRecurringTimer.                     *)

RunnerUnchanged == UNCHANGED <<clock, operator, acts>>

ListTimers(r) ==
    /\ Due
    /\ Goto(r, "idle", "check")
    /\ copy' = [copy EXCEPT ![r] = [Nothing EXCEPT !.runAt = timer.runAt, !.fails = timer.fails, !.at = clock]]
    /\ RunnerUnchanged /\ UNCHANGED <<records, history, slips>>

Inactive == job \in {"paused"} \union Terminal

LoadJob(r) ==
    /\ ~Inactive
    /\ Goto(r, "check", "overlap")
    /\ copy' = [copy EXCEPT ![r].job = job]
    /\ RunnerUnchanged /\ UNCHANGED <<records, history, slips>>

LeaveAlone(r) ==
    /\ Inactive
    /\ Return(r, "check")
    /\ RunnerUnchanged /\ UNCHANGED <<records, history, slips>>

\* markRecurringRunSkipped
Skip(r) ==
    /\ HasActiveProcess
    /\ Return(r, "overlap")
    /\ timer' = [Listed(r) EXCEPT !.runAt = NextRunAt(@, copy[r].at)]
    /\ Overwritten(Listed(r), timer)
    /\ RunnerUnchanged /\ UNCHANGED <<job, left, history>>

\* Another runner has passed the check and its process is not written yet:
\* whatever this one's check finds, it finds too early.
Races(r) == \E q \in Runners \ {r} : pc[q] \in {"start", "create"}

\* Faulty: a job is released without a look at its processes.
ReleaseUnchecked(r) ==
    /\ copy[r].job = "scheduled"
    /\ Goto(r, "overlap", "start")
    /\ copy' = [copy EXCEPT ![r].job = "ready", ![r].at = 0]
    /\ slips' = IF Races(r) THEN slips \union {"raced"} ELSE slips
    /\ RunnerUnchanged /\ UNCHANGED <<records, history>>

Release(r) ==
    /\ ~HasActiveProcess /\ copy[r].job = "scheduled"
    /\ Goto(r, "overlap", "start")
    /\ copy' = [copy EXCEPT ![r].job = "ready", ![r].at = 0]
    /\ slips' = IF Races(r) THEN slips \union {"raced"} ELSE slips
    /\ RunnerUnchanged /\ UNCHANGED <<records, history>>

NotScheduled(r) ==
    /\ ~HasActiveProcess /\ copy[r].job # "scheduled"
    /\ Return(r, "overlap")
    /\ RunnerUnchanged /\ UNCHANGED <<records, history, slips>>

-------------------------------------------------------------------------------
(* runRecurringJobOnce and finalizeRecurringTimerAfterRun.                 *)

\* A run that starts in the middle of another one is an act.
InRun(r) == pc[r] \in {"create", "invoke", "timer", "job"}
Alone(r) == \A q \in Runners \ {r} : ~InRun(q)

Fresh(r) == job = "scheduled" /\ timer = Listed(r) /\ Alone(r)

Activate(r) ==
    /\ Goto(r, "start", "create")
    /\ job' = "active"
    /\ slips' = IF Fresh(r) THEN slips ELSE slips \union {"disturbed"}
    /\ IF Alone(r) THEN UNCHANGED acts ELSE acts < MaxActs /\ acts' = acts + 1
    /\ UNCHANGED <<clock, operator, timer, left, copy, history>>

Create(r) ==
    /\ Goto(r, "create", "invoke")
    /\ last' = IF Undisturbed THEN copy[r].runAt ELSE last
    /\ repeated' = (repeated \/ (Undisturbed /\ copy[r].runAt <= last))
    /\ RunnerUnchanged /\ UNCHANGED <<records, copy, streak, slips>>

\* The invocation ends, and its process is written.
EndRun(r) ==
    /\ Goto(r, "invoke", "timer")
    /\ \E how \in Results :
        /\ copy' = [copy EXCEPT ![r] = [@ EXCEPT !.at = clock, !.result = how]]
        /\ left' = IF how = "blocked" THEN left + 1 ELSE left
        /\ streak' = IF ~Undisturbed THEN streak ELSE IF how = "failed" THEN streak + 1 ELSE 0
    /\ RunnerUnchanged /\ UNCHANGED <<job, timer, last, repeated, slips>>

FailuresKept(r) == copy[r].fails + (IF copy[r].result = "failed" THEN 1 ELSE 0)
Failures(r) == IF copy[r].result = "failed" THEN copy[r].fails + 1 ELSE 0

Pauses(r) == Failures(r) >= MaxFailures

SlotOfFailureKept(r) ==
    IF copy[r].result = "failed" THEN copy[r].runAt ELSE NextRunAt(copy[r].runAt, copy[r].at)
NextSlot(r) == NextRunAt(copy[r].runAt, copy[r].at)

WriteTimer(r) ==
    /\ Goto(r, "timer", "job")
    /\ timer' = IF Pauses(r)
                THEN [Listed(r) EXCEPT !.status = "cancelled", !.fails = Failures(r)]
                ELSE [Listed(r) EXCEPT !.runAt = NextSlot(r), !.fails = Failures(r)]
    /\ Overwritten(Listed(r), timer)
    /\ RunnerUnchanged /\ UNCHANGED <<job, left, copy, history>>

BlockedStaysActive(r) ==
    IF copy[r].result = "blocked" THEN "active" ELSE IF Pauses(r) THEN "paused" ELSE "scheduled"
StatusAfterRun(r) == IF Pauses(r) THEN "paused" ELSE "scheduled"

WriteJob(r) ==
    /\ Return(r, "job")
    /\ job' = StatusAfterRun(r)
    /\ Overwritten("active", job)
    /\ RunnerUnchanged /\ UNCHANGED <<timer, left, history>>

-------------------------------------------------------------------------------
(* applyJobSignal and scheduleRecurringJob.                                *)

OperatorUnchanged == UNCHANGED <<clock, left, pc, copy, repeated>>

Accepts(what) ==
    CASE what \in {"cancel", "timeout"} -> job \notin Terminal
      [] what = "pause"    -> job \notin Terminal \union {"paused"}
      [] what = "resume"   -> job = "paused"
      [] what = "schedule" -> job \in Schedulable

Command(what) ==
    /\ command = "none" /\ acts < MaxActs
    /\ Accepts(what)
    /\ command' = what /\ seen' = [job |-> job, at |-> IF what = "schedule" THEN clock ELSE 0]
    /\ acts' = acts + 1
    /\ OperatorUnchanged /\ UNCHANGED <<job, timer, streak, last, slips>>

CancelTimer ==
    /\ command = "cancel"
    /\ command' = "cancel job"
    /\ timer' = IF timer.status = "scheduled" THEN [timer EXCEPT !.status = "cancelled"] ELSE timer
    /\ OperatorUnchanged /\ UNCHANGED <<job, seen, acts, streak, last, slips>>

\* resumeScheduledJobStatus
ResumedStatus == IF timer.status = "scheduled" THEN "scheduled" ELSE "ready"

WriteSignalledJob ==
    /\ command \in {"cancel job", "pause", "resume", "timeout"}
    /\ job' = CASE command = "cancel job" -> "cancelled"
                [] command = "timeout"    -> "expired"
                [] command = "pause"      -> "paused"
                [] command = "resume"     -> ResumedStatus
    /\ command' = "none" /\ seen' = NotSeen
    /\ Overwritten(seen.job, job)
    /\ OperatorUnchanged /\ UNCHANGED <<timer, acts, streak, last>>

ScheduleJob ==
    /\ command = "schedule"
    /\ command' = "arm"
    /\ job' = "scheduled"
    /\ Overwritten(seen.job, job)
    /\ OperatorUnchanged /\ UNCHANGED <<timer, seen, acts, streak, last>>

\* A new timer replaces the old one, its slots and its count of failures.
ScheduleTimer ==
    /\ command = "arm"
    /\ command' = "none" /\ seen' = NotSeen
    /\ timer' = [status |-> "scheduled", runAt |-> seen.at + Interval, fails |-> 0]
    /\ streak' = 0 /\ last' = 0
    /\ slips' = IF \E r \in Runners : pc[r] # "idle" THEN slips \union {"disturbed"} ELSE slips
    /\ OperatorUnchanged /\ UNCHANGED <<job, acts>>

-------------------------------------------------------------------------------
(* The rest of the project, time, crashes.                                 *)

\* releaseOneShotTimer does not look at the type of a timer.
ServiceTick ==
    /\ Due /\ job = "scheduled" /\ acts < MaxActs
    /\ acts' = acts + 1
    /\ timer' = [timer EXCEPT !.status = "fired"]
    /\ job' = "ready"
    /\ UNCHANGED <<clock, left, pc, copy, operator, history, slips>>

\* A process is cancelled, or its wait is over.
ProcessEnds ==
    /\ left > 0
    /\ left' = left - 1
    /\ UNCHANGED <<clock, job, timer, pc, copy, operator, acts, history, slips>>

Tick ==
    /\ clock < MaxClock
    /\ clock' = clock + 1
    /\ UNCHANGED <<records, pc, copy, operator, acts, history, slips>>

\* The process of a run stays active, or its end is not counted.
Crash(r) ==
    /\ acts < MaxActs /\ pc[r] # "idle"
    /\ acts' = acts + 1
    /\ Return(r, pc[r])
    /\ left' = IF Running(r) THEN left + 1 ELSE left
    /\ slips' = CASE pc[r] \in {"invoke", "timer"} -> slips \union {"disturbed", "stuck"}
                  [] pc[r] \in {"create", "job"} -> slips \union {"stuck"}
                  [] OTHER -> slips
    /\ UNCHANGED <<clock, job, timer, operator, history>>

-------------------------------------------------------------------------------
(* Specification.                                                          *)

\* The job has been scheduled.
Init ==
    /\ clock = 0 /\ job = "scheduled" /\ left = 0
    /\ timer = [status |-> "scheduled", runAt |-> Interval, fails |-> 0]
    /\ pc = [r \in Runners |-> "idle"]
    /\ copy = [r \in Runners |-> Nothing]
    /\ command = "none" /\ seen = NotSeen /\ acts = 0
    /\ streak = 0 /\ last = 0 /\ repeated = FALSE /\ slips = {}

Run(r) ==
    \/ ListTimers(r) \/ LoadJob(r) \/ LeaveAlone(r) \/ Skip(r) \/ Release(r)
    \/ NotScheduled(r) \/ Activate(r) \/ Create(r) \/ EndRun(r) \/ WriteTimer(r) \/ WriteJob(r)

Operate ==
    \/ \E what \in {"cancel", "timeout", "pause", "resume", "schedule"} : Command(what)
    \/ CancelTimer \/ WriteSignalledJob \/ ScheduleJob \/ ScheduleTimer

Next ==
    \/ \E r \in Runners : Run(r) \/ Crash(r)
    \/ Operate \/ ServiceTick \/ ProcessEnds \/ Tick

Spec == Init /\ [][Next]_vars

\* A runner is called again and again, and an invocation ends.
Fairness == \A r \in Runners : WF_vars(Run(r))

FairSpec == Spec /\ Fairness

-------------------------------------------------------------------------------
(* Properties.                                                             *)

Slips == {"raced", "disturbed", "stuck"}
Steps == {"idle", "check", "overlap", "start", "create", "invoke", "timer", "job"}
Commands == {"none", "cancel", "cancel job", "timeout", "pause", "resume", "schedule", "arm"}

\* The type invariant.
TypeOK ==
    /\ clock \in 0..MaxClock /\ job \in JobStatuses /\ timer \in Timers /\ left \in Nat
    /\ pc \in [Runners -> Steps] /\ copy \in [Runners -> Copies]
    /\ command \in Commands /\ seen \in [job : JobStatuses, at : 0..MaxClock]
    /\ acts \in 0..MaxActs
    /\ streak \in Nat /\ last \in Slots /\ repeated \in BOOLEAN /\ slips \subseteq Slips

\* noOverlap: a job has one active process at most, running or blocked.  The
\* check keeps a runner out while a process is running or a blocked one is left;
\* it does not when a second runner passes it before the process of the first is
\* written, and from then on nothing is claimed.
NoOverlap ==
    "raced" \notin slips =>
        /\ \A r, q \in Runners : Running(r) /\ Running(q) => r = q
        /\ left + (IF \E r \in Runners : Running(r) THEN 1 ELSE 0) <= 1

\* The timer counts the consecutive failures that have happened, across skipped
\* runs, pauses and blocked runs, and the limit cancels it.  Nothing is claimed
\* once a run has started beside another or from old records, a write has undone
\* another or the end of a run has not been counted (Undisturbed).
FailuresAreCounted ==
    (Undisturbed /\ \A r \in Runners : pc[r] # "timer") =>
        /\ timer.fails = streak
        /\ streak >= MaxFailures => timer.status = "cancelled"

\* No slot of a timer is run twice, by skipping a slot, by counting to the next
\* one, by a pause or by a blocked run.  The history ends where Undisturbed does:
\* a run that starts from an old copy of the timer, or whose write brings an old
\* slot back, may run a slot again, and is not counted here.
SlotRunsOnce == ~repeated

\* A slot that is due is run or skipped, unless the job is taken out of the
\* schedule or a crash leaves it active.
DueSlotPasses ==
    (Due /\ job \in {"scheduled", "active"}) ~>
        (~Due \/ job \notin {"scheduled", "active"} \/ "stuck" \in slips)
===============================================================================
