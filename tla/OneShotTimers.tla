----------------------------- MODULE OneShotTimers -----------------------------
(***************************************************************************)
(* One-shot scheduled jobs: scheduler/one-shot-scheduled-jobs.js and the   *)
(* part of delegation/delegation-manager.js that schedules a delegated     *)
(* child job.  A job with trigger scheduled_once owns one timer file.  The *)
(* service releases due timers on every tick: each record it writes is a   *)
(* file of its own, so a release is a sequence of steps between which a    *)
(* host program may schedule or cancel a job, an executor may run one, and *)
(* the service may fail or die.                                            *)
(*                                                                         *)
(* Abstractions.  A job record is its status, a timer record is its        *)
(* status, whether its payload names the schedule_delegation action and    *)
(* whether it carries a releaseResultRef.  The service holding the kernel  *)
(* lock is one process (KernelLock is about that); events are left out.    *)
(* Bounds: MaxClock ends time, MaxFaults the failures of the service,      *)
(* MaxHostCalls the calls of the host.                                     *)
(***************************************************************************)
EXTENDS Naturals

CONSTANTS Jobs, Delegated, RunAt, MaxClock, MaxFaults, MaxHostCalls, NoJob

ASSUME JobsAssumption == Delegated \subseteq Jobs /\ NoJob \notin Jobs
ASSUME RunAtAssumption == MaxClock \in Nat /\ RunAt \in [Jobs -> 0 .. MaxClock]
ASSUME BoundsAssumption == MaxFaults \in Nat /\ MaxHostCalls \in Nat

VARIABLES
    clock,      \* wall clock
    job,        \* status on disk of each job
    timer,      \* timer record on disk of each job
    result,     \* release result: the job status it was materialized from
    pc,         \* what the service is doing
    now,        \* nowTimestamp of the service's current pass
    listed,     \* timer copies the service listed and has not dealt with
    cur,        \* job of the timer in hand
    held,       \* job status the service loaded
    host,       \* call the host program is in
    runner,     \* executor of each job
    faults,     \* failures of the service so far
    hostCalls,  \* host calls so far
    schedules,  \* history: timers armed by scheduleOneShotJob
    released,   \* history: releases of each job
    cancels,    \* history: jobs whose cancelScheduledJob returned
    cut         \* history: jobs whose release a failure cut off after the timer fired

service == <<pc, now, listed, cur, held>>
history == <<schedules, released, cancels, cut>>
vars == <<clock, job, timer, result, service, host, runner, faults, hostCalls, history>>

JobStatus == {"none", "draft", "admitted", "scheduled", "ready", "active",
              "completed", "cancelled"}
Timer == [status : {"none", "scheduled", "fired", "cancelled"},
          delegation : BOOLEAN, linked : BOOLEAN]
NoTimer == [status |-> "none", delegation |-> FALSE, linked |-> FALSE]

Schedulable == {"draft", "admitted", "scheduled"}

\* Faulty: releases a unit of time before runAt.
DueTooSoon(j) == RunAt[j] <= now + 1

\* isDueAt, against the time the pass began.
Due(j) == RunAt[j] <= now

\* Faulty: repairs a timer that has not fired.
UnlinkedUnfired(t) == t.delegation /\ ~t.linked

\* A fired delegation timer that recoverUnlinkedScheduledReleaseResults repairs.
Unlinked(t) == t.status = "fired" /\ t.delegation /\ ~t.linked

\* The timer scheduleOneShotJob writes.
FreshTimer == [status |-> "scheduled", delegation |-> FALSE, linked |-> FALSE]

Listing(wanted) == [j \in Jobs |-> IF timer[j] \in wanted THEN timer[j] ELSE NoTimer]
Pending(j) == listed[j] # NoTimer
Drop(j) == listed' = [listed EXCEPT ![j] = NoTimer]
NothingListed == listed = [j \in Jobs |-> NoTimer]

-------------------------------------------------------------------------------
(* The service schedules the child job of a schedule_delegation system     *)
(* call: draft job, scheduled job, plain timer, delegation payload.  After *)
(* a failure the call is handled again, from the draft, unless both the    *)
(* job and the timer exist: then its effects count as materialized.        *)

DraftJob(j) ==
    /\ pc = "idle" /\ j \in Delegated
    /\ job[j] = "none" \/ timer[j] = NoTimer
    /\ RunAt[j] >= clock
    /\ job' = [job EXCEPT ![j] = "draft"]
    /\ pc' = "drafted" /\ cur' = j
    /\ UNCHANGED <<clock, timer, result, now, listed, held, host, runner, faults, hostCalls, history>>

ScheduleDraft ==
    /\ pc = "drafted"
    /\ job[cur] \in Schedulable
    /\ job' = [job EXCEPT ![cur] = "scheduled"]
    /\ pc' = "jobScheduled"
    /\ UNCHANGED <<clock, timer, result, now, listed, cur, held, host, runner, faults, hostCalls, history>>

\* assertScheduledOnceJob refuses: the call fails and the tick goes on.
RefuseDraft ==
    /\ pc = "drafted"
    /\ job[cur] \notin Schedulable
    /\ pc' = "idle" /\ cur' = NoJob
    /\ UNCHANGED <<clock, job, timer, result, now, listed, held, host, runner, faults, hostCalls, history>>

ArmTimer ==
    /\ pc = "jobScheduled"
    /\ timer' = [timer EXCEPT ![cur] = FreshTimer]
    /\ schedules' = [schedules EXCEPT ![cur] = @ + 1]
    /\ pc' = "armed"
    /\ UNCHANGED <<clock, job, result, now, listed, cur, held, host, runner, faults, hostCalls, released, cancels, cut>>

\* The timer that scheduleOneShotJob returned, with the delegation payload.
MarkDelegation ==
    /\ pc = "armed"
    /\ timer' = [timer EXCEPT ![cur] = [FreshTimer EXCEPT !.delegation = TRUE]]
    /\ pc' = "idle" /\ cur' = NoJob
    /\ UNCHANGED <<clock, job, result, now, listed, held, host, runner, faults, hostCalls, history>>

-------------------------------------------------------------------------------
(* releaseDueOneShotJobs: first the fired delegation timers that carry no  *)
(* result reference, then the scheduled timers.                            *)

\* Faulty: starts without the timers to repair.
BeginPassUnrepaired ==
    /\ pc = "idle"
    /\ now' = clock
    /\ listed' = [j \in Jobs |-> NoTimer]
    /\ pc' = "recovering"
    /\ UNCHANGED <<clock, job, timer, result, cur, held, host, runner, faults, hostCalls, history>>

BeginPass ==
    /\ pc = "idle"
    /\ now' = clock
    /\ listed' = Listing({t \in Timer : Unlinked(t)})
    /\ pc' = "recovering"
    /\ UNCHANGED <<clock, job, timer, result, cur, held, host, runner, faults, hostCalls, history>>

\* persistResultRecordIfMissing
Materialize(j, status) ==
    result' = [result EXCEPT ![j] = IF @ = "none" THEN status ELSE @]

RecoverResult(j) ==
    /\ pc = "recovering" /\ Pending(j)
    /\ Materialize(j, job[j])
    /\ pc' = "recovered" /\ cur' = j
    /\ UNCHANGED <<clock, job, timer, now, listed, held, host, runner, faults, hostCalls, history>>

\* linkTimerToScheduledReleaseResult writes the copy back.
LinkTimer(from, to) ==
    /\ pc = from
    /\ timer' = [timer EXCEPT ![cur] = [listed[cur] EXCEPT !.linked = TRUE]]
    /\ Drop(cur)
    /\ pc' = to /\ cur' = NoJob
    /\ UNCHANGED <<clock, job, result, now, held, host, runner, faults, hostCalls, history>>

LinkRecovered == LinkTimer("recovered", "recovering")

\* Faulty: lists the timers without a delegation payload only.
ListScheduledPlain ==
    /\ pc = "recovering" /\ NothingListed
    /\ listed' = Listing({t \in Timer : t.status = "scheduled" /\ ~t.delegation})
    /\ pc' = "releasing"
    /\ UNCHANGED <<clock, job, timer, result, now, cur, held, host, runner, faults, hostCalls, history>>

ListScheduled ==
    /\ pc = "recovering" /\ NothingListed
    /\ listed' = Listing({t \in Timer : t.status = "scheduled"})
    /\ pc' = "releasing"
    /\ UNCHANGED <<clock, job, timer, result, now, cur, held, host, runner, faults, hostCalls, history>>

EndPass ==
    /\ pc = "releasing" /\ NothingListed
    /\ pc' = "idle"
    /\ UNCHANGED <<clock, job, timer, result, now, listed, cur, held, host, runner, faults, hostCalls, history>>

LeavePending(j) ==
    /\ pc = "releasing" /\ Pending(j) /\ ~Due(j)
    /\ Drop(j)
    /\ UNCHANGED <<clock, job, timer, result, pc, now, cur, held, host, runner, faults, hostCalls, history>>

LoadJob(j) ==
    /\ pc = "releasing" /\ Pending(j) /\ Due(j)
    /\ held' = job[j]
    /\ pc' = "loaded" /\ cur' = j
    /\ UNCHANGED <<clock, job, timer, result, now, listed, host, runner, faults, hostCalls, history>>

CancelTimer ==
    /\ pc = "loaded" /\ held = "cancelled"
    /\ timer' = [timer EXCEPT ![cur] = [listed[cur] EXCEPT !.status = "cancelled"]]
    /\ Drop(cur)
    /\ pc' = "releasing" /\ cur' = NoJob /\ held' = "none"
    /\ UNCHANGED <<clock, job, result, now, host, runner, faults, hostCalls, history>>

\* Faulty: keeps the job in hand.
SkipUnscheduledHolding ==
    /\ pc = "loaded" /\ held \notin {"cancelled", "scheduled"}
    /\ Drop(cur)
    /\ pc' = "releasing" /\ held' = "none"
    /\ UNCHANGED <<clock, job, timer, result, now, cur, host, runner, faults, hostCalls, history>>

SkipUnscheduled ==
    /\ pc = "loaded" /\ held \notin {"cancelled", "scheduled"}
    /\ Drop(cur)
    /\ pc' = "releasing" /\ cur' = NoJob /\ held' = "none"
    /\ UNCHANGED <<clock, job, timer, result, now, host, runner, faults, hostCalls, history>>

\* Faulty: the timer fires in memory only.
FireTimerUnwritten ==
    /\ pc = "loaded" /\ held = "scheduled"
    /\ listed' = [listed EXCEPT ![cur].status = "fired"]
    /\ pc' = "fired" /\ held' = "none"
    /\ UNCHANGED <<clock, job, timer, result, now, cur, host, runner, faults, hostCalls, history>>

FireTimer ==
    /\ pc = "loaded" /\ held = "scheduled"
    /\ LET fired == [listed[cur] EXCEPT !.status = "fired"]
       IN  /\ timer' = [timer EXCEPT ![cur] = fired]
           /\ listed' = [listed EXCEPT ![cur] = fired]
    /\ pc' = "fired" /\ held' = "none"
    /\ UNCHANGED <<clock, job, result, now, cur, host, runner, faults, hostCalls, history>>

ReadyJob ==
    /\ pc = "fired"
    /\ job' = [job EXCEPT ![cur] = "ready"]
    /\ released' = [released EXCEPT ![cur] = @ + 1]
    /\ IF listed[cur].delegation
         THEN pc' = "readied" /\ UNCHANGED <<listed, cur>>
         ELSE pc' = "releasing" /\ cur' = NoJob /\ Drop(cur)
    /\ UNCHANGED <<clock, timer, result, now, held, host, runner, faults, hostCalls, schedules, cancels, cut>>

RecordRelease ==
    /\ pc = "readied"
    /\ Materialize(cur, "ready")
    /\ pc' = "recorded"
    /\ UNCHANGED <<clock, job, timer, now, listed, cur, held, host, runner, faults, hostCalls, history>>

LinkReleased == LinkTimer("recorded", "releasing")

-------------------------------------------------------------------------------
(* The host program: scheduleOneShotJob and cancelScheduledJob.            *)

IdleHost == [at |-> "idle", job |-> NoJob, status |-> "none", timer |-> NoTimer]
Call(at, j, s, t) == [at |-> at, job |-> j, status |-> s, timer |-> t]

HostUnchanged == UNCHANGED <<clock, result, service, runner, faults>>

\* The load of the job and the status check of scheduleOneShotJob.
HostSchedule(j) ==
    /\ host = IdleHost /\ hostCalls < MaxHostCalls
    /\ job[j] # "none"
    /\ hostCalls' = hostCalls + 1
    /\ host' = IF job[j] \in Schedulable THEN Call("scheduling", j, job[j], NoTimer) ELSE IdleHost
    /\ UNCHANGED <<job, timer, history>> /\ HostUnchanged

HostScheduleJob ==
    /\ host.at = "scheduling"
    /\ job' = [job EXCEPT ![host.job] = "scheduled"]
    /\ host' = Call("arming", host.job, "scheduled", NoTimer)
    /\ UNCHANGED <<timer, hostCalls, history>> /\ HostUnchanged

HostArmTimer ==
    /\ host.at = "arming"
    /\ timer' = [timer EXCEPT ![host.job] = FreshTimer]
    /\ schedules' = [schedules EXCEPT ![host.job] = @ + 1]
    /\ host' = IdleHost
    /\ UNCHANGED <<job, hostCalls, released, cancels, cut>> /\ HostUnchanged

\* The load of the timer; a fired timer makes cancelScheduledJob throw.
HostCancel(j) ==
    /\ host = IdleHost /\ hostCalls < MaxHostCalls
    /\ timer[j] # NoTimer
    /\ hostCalls' = hostCalls + 1
    /\ host' = IF timer[j].status # "fired" THEN Call("loading", j, "none", timer[j]) ELSE IdleHost
    /\ UNCHANGED <<job, timer, history>> /\ HostUnchanged

HostLoadJob ==
    /\ host.at = "loading"
    /\ host' = IF job[host.job] \in Schedulable \union {"cancelled"}
                 THEN Call("cancelTimer", host.job, job[host.job], host.timer)
                 ELSE IdleHost
    /\ UNCHANGED <<job, timer, hostCalls, history>> /\ HostUnchanged

HostCancelTimer ==
    /\ host.at = "cancelTimer"
    /\ timer' = [timer EXCEPT ![host.job] = [host.timer EXCEPT !.status = "cancelled"]]
    /\ host' = [host EXCEPT !.at = "cancelJob"]
    /\ UNCHANGED <<job, hostCalls, history>> /\ HostUnchanged

HostCancelJob ==
    /\ host.at = "cancelJob"
    /\ job' = [job EXCEPT ![host.job] = "cancelled"]
    /\ cancels' = cancels \union {host.job}
    /\ host' = IdleHost
    /\ UNCHANGED <<timer, hostCalls, schedules, released, cut>> /\ HostUnchanged

-------------------------------------------------------------------------------
(* Execution of a ready job: claimReadyJob, then runJobNow, whose last     *)
(* write of the job comes from its own copy whatever the disk says.        *)

ClaimJob(j) ==
    /\ runner[j] = "idle" /\ job[j] = "ready"
    /\ runner' = [runner EXCEPT ![j] = "claiming"]
    /\ UNCHANGED <<clock, job, timer, result, service, host, faults, hostCalls, history>>

StartJob(j) ==
    /\ runner[j] = "claiming"
    /\ runner' = [runner EXCEPT ![j] = "running"]
    /\ job' = [job EXCEPT ![j] = "active"]
    /\ UNCHANGED <<clock, timer, result, service, host, faults, hostCalls, history>>

FinishJob(j) ==
    /\ runner[j] = "running"
    /\ runner' = [runner EXCEPT ![j] = "idle"]
    /\ job' = [job EXCEPT ![j] = "completed"]
    /\ UNCHANGED <<clock, timer, result, service, host, faults, hostCalls, history>>

\* A failed read or write abandons the pass; a dying process also takes the
\* executors with it.  Either way the next tick starts a pass from the files.
\* Between the writes of the fired timer and of the ready job it cuts off the
\* release: no later pass releases a job whose timer has fired.
Fault ==
    /\ pc # "idle" /\ faults < MaxFaults
    /\ faults' = faults + 1
    /\ pc' = "idle" /\ cur' = NoJob /\ held' = "none"
    /\ listed' = [j \in Jobs |-> NoTimer]
    /\ runner' \in {runner, [j \in Jobs |-> "idle"]}
    /\ cut' = IF pc = "fired" THEN cut \union {cur} ELSE cut
    /\ UNCHANGED <<clock, job, timer, result, now, host, hostCalls, schedules, released, cancels>>

Tick ==
    /\ clock < MaxClock
    /\ clock' = clock + 1
    /\ UNCHANGED <<job, timer, result, service, host, runner, faults, hostCalls, history>>

-------------------------------------------------------------------------------
Init ==
    /\ clock = 0
    /\ job = [j \in Jobs |-> IF j \in Delegated THEN "none" ELSE "admitted"]
    /\ timer = [j \in Jobs |-> NoTimer]
    /\ result = [j \in Jobs |-> "none"]
    /\ pc = "idle" /\ now = 0 /\ cur = NoJob /\ held = "none"
    /\ listed = [j \in Jobs |-> NoTimer]
    /\ host = IdleHost
    /\ runner = [j \in Jobs |-> "idle"]
    /\ faults = 0 /\ hostCalls = 0
    /\ schedules = [j \in Jobs |-> 0]
    /\ released = [j \in Jobs |-> 0]
    /\ cancels = {} /\ cut = {}

ServiceStep ==
    \/ \E j \in Jobs : DraftJob(j)
    \/ ScheduleDraft \/ RefuseDraft \/ ArmTimer \/ MarkDelegation
    \/ BeginPass \/ LinkRecovered \/ ListScheduled \/ EndPass
    \/ \E j \in Jobs : RecoverResult(j) \/ LeavePending(j) \/ LoadJob(j)
    \/ CancelTimer \/ SkipUnscheduled
    \/ FireTimer \/ ReadyJob \/ RecordRelease \/ LinkReleased

HostStep ==
    \/ HostScheduleJob \/ HostArmTimer
    \/ HostLoadJob \/ HostCancelTimer \/ HostCancelJob

RunnerStep(j) == ClaimJob(j) \/ StartJob(j) \/ FinishJob(j)

Next ==
    \/ ServiceStep
    \/ \E j \in Jobs : HostSchedule(j) \/ HostCancel(j)
    \/ HostStep
    \/ \E j \in Jobs : RunnerStep(j)
    \/ Fault
    \/ Tick

Spec == Init /\ [][Next]_vars

\* The watch loop keeps ticking, a host call that began goes on, an executor
\* runs what it claimed and time passes.  No fairness for faults or new calls.
FairSpec ==
    /\ Spec
    /\ WF_vars(ServiceStep) /\ WF_vars(HostStep) /\ WF_vars(Tick)
    /\ \A j \in Jobs : WF_vars(RunnerStep(j))

-------------------------------------------------------------------------------
\* Every variable stays in the domain its record or file ranges over.
TypeOK ==
    /\ clock \in 0 .. MaxClock /\ now \in 0 .. clock
    /\ job \in [Jobs -> JobStatus]
    /\ timer \in [Jobs -> Timer] /\ listed \in [Jobs -> Timer]
    /\ result \in [Jobs -> JobStatus]
    /\ pc \in {"idle", "drafted", "jobScheduled", "armed", "recovering", "recovered",
               "releasing", "loaded", "fired", "readied", "recorded"}
    /\ cur \in Jobs \union {NoJob} /\ held \in JobStatus
    /\ (cur = NoJob) <=> (pc \in {"idle", "recovering", "releasing"})
    /\ host \in [at : {"idle", "scheduling", "arming", "loading", "cancelTimer", "cancelJob"},
                 job : Jobs \union {NoJob}, status : JobStatus, timer : Timer]
    /\ (host.job = NoJob) <=> (host.at = "idle")
    /\ runner \in [Jobs -> {"idle", "claiming", "running"}]
    /\ faults \in 0 .. MaxFaults /\ hostCalls \in 0 .. MaxHostCalls
    /\ schedules \in [Jobs -> Nat] /\ released \in [Jobs -> Nat]
    /\ cancels \in SUBSET Jobs /\ cut \in SUBSET Jobs

(***************************************************************************)
(* One arming of a timer pays for at most one release, whatever the host,  *)
(* the executors and the faults of the service do in between: no due timer *)
(* puts its job into the ready queue twice (releaseOneShotTimer).          *)
(***************************************************************************)
ReleasePaidBySchedule == \A j \in Jobs : released[j] <= schedules[j]

(***************************************************************************)
(* A job released early would run before trigger.runAt: the pass judges    *)
(* every timer by the nowTimestamp it began with, however long it takes.   *)
(***************************************************************************)
NeverReleasedEarly == \A j \in Jobs : released[j] > 0 => RunAt[j] <= clock

(***************************************************************************)
(* A releaseResultRef never dangles, and a release result exists only for  *)
(* a due job that some pass has made ready, or whose release a failure has *)
(* cut off between the writes of the fired timer and of the ready job      *)
(* (releaseOneShotTimer).  In the second case the result is wrong:         *)
(* recovery takes the fired timer for a release and writes that the job    *)
(* was released, ready and verified (linkTimerToScheduledReleaseResult),   *)
(* and only its jobStatusAtMaterialization tells.  No other fault and no   *)
(* other order of steps makes recovery write a result for an unreleased    *)
(* job.                                                                    *)
(***************************************************************************)
ResultsAreBacked ==
    \A j \in Jobs :
        /\ timer[j].linked => result[j] # "none"
        /\ result[j] # "none" => RunAt[j] <= clock /\ (released[j] > 0 \/ j \in cut)

(***************************************************************************)
(* Once cancelScheduledJob has returned, the job is cancelled and stays    *)
(* so: it is neither released nor run.                                     *)
(***************************************************************************)
CancelIsFinal == \A j \in cancels : job[j] = "cancelled"

(***************************************************************************)
(* A fired delegation timer does not stay without its release result: the  *)
(* next passes repair it (recoverUnlinkedScheduledReleaseResults), unless  *)
(* the host arms or cancels the timer again.                               *)
(***************************************************************************)
FiredTimersGetLinked == \A j \in Jobs : Unlinked(timer[j]) ~> ~Unlinked(timer[j])

(***************************************************************************)
(* A due job whose timer was armed once leaves the scheduled status: it is *)
(* released or cancelled, unless the service failed or the host is arming  *)
(* it again (the write of a stale timer copy may undo that arming).        *)
(***************************************************************************)
DueJobsGetReleased ==
    \A j \in Jobs :
        (job[j] = "scheduled" /\ timer[j].status = "scheduled" /\ RunAt[j] <= clock)
            ~> (job[j] # "scheduled" \/ faults > 0 \/ schedules[j] > 1)

===============================================================================
