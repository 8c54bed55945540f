------------------------------ MODULE WatchService -----------------------------
(***************************************************************************)
(* The watch command of the OpenMAS OS service: the start of a service     *)
(* next to the traces of others, the runtime loop and its ticks, the       *)
(* executor of asynchronous executions, the queue of health snapshots, the *)
(* stop on a signal with its drain, and the clean-up after failures        *)
(* (openmas-os-service-cli.js, local-os-runtime-loop.js, the executor and  *)
(* the repairs of a tick in local-os-service.js).                          *)
(*                                                                         *)
(* Abstractions.  A claim, a refresh and a release of the kernel lock are  *)
(* one step each (KernelLock has their files); executions are counted;     *)
(* "lost" stands for the results that an interrupted tick or execution     *)
(* leaves unpublished, which a repairing tick publishes; a state and its   *)
(* heartbeat are written together.  All statuses of a service that neither *)
(* stops nor has ended are "active".  Of the time of a lock and of a       *)
(* heartbeat, the age is kept, up to StaleAfter.  Bounds: MaxFaults ends   *)
(* the crashes, failed ticks, executions and writes, the stalls and the    *)
(* late claims; a service is started once.                                 *)
(***************************************************************************)
EXTENDS Naturals, Sequences

CONSTANTS Services, NoLock, StaleAfter, Capacity, MaxFaults

\* A heartbeat is written several times before it can be stale.
ASSUME BoundsAssumption ==
    StaleAfter \in Nat \ {0, 1} /\ Capacity \in Nat \ {0} /\ MaxFaults \in Nat

VARIABLES
    lock, beat, state,          \* the kernel lock, the heartbeat, the service state
    main,                       \* where the command of each service is
    seen, unclean,              \* startup inspection: up to date; a last state that is not "stopped"
    repairs, failed,            \* terminalResultRecoveryPending; a failed result has settled
    failures, outcome,          \* a tick has failed; the status the command ends with
    stop, signal,               \* controller.stopRequested; the task of the signal handler
    active,                     \* executions of the executor
    outbox,                     \* healthWriteQueue: snapshots to write, in order
    lost,                       \* some result is unpublished
    faults,                     \* bound
    slips                       \* history: what the protocol does not answer for

files == <<lock, beat, state>>
startup == <<seen, unclean>>
loop == <<repairs, failed, failures>>
stopping == <<stop, signal>>
vars == <<files, main, startup, loop, outcome, stopping, active, outbox, lost, faults, slips>>

Outcomes == {"stopped", "stopped_with_failures", "failed"}
Statuses == {"active", "stopping"} \union Outcomes
Claims == [by : Services, age : 0..StaleAfter]
States == [by : Services, status : Statuses]

ASSUME NoLockAssumption == NoLock \notin Claims \union States

Entries == [from : {"main", "skip", "signal"}, status : Statuses]
NoState == NoLock

Ended == {"over", "finished", "dead"}
Before == {"new", "claim"}

\* isKernelLockStale and heartbeatStale
Stale(f) == f.age = StaleAfter
New(s) == [by |-> s, age |-> 0]
Older(f) == IF f # NoLock /\ ~Stale(f) THEN [f EXCEPT !.age = @ + 1] ELSE f

Holds(s) == lock # NoLock /\ lock.by = s

\* The files of a service that were written in this unit of time
Fresh(s) == New(s) \in {lock, beat}

Queued(s, from) == \E i \in DOMAIN outbox[s] : outbox[s][i].from = from
Enqueue(s, from, status) ==
    outbox' = [outbox EXCEPT ![s] = Append(@, [from |-> from, status |-> status])]

Fault == faults < MaxFaults /\ faults' = faults + 1
Slip(what) == Fault /\ slips' = slips \union {what}

\* The command awaits its own snapshots.
Goto(s, from, to) == main[s] = from /\ ~Queued(s, "main") /\ main' = [main EXCEPT ![s] = to]

\* A process that has work to do, or does it
Works(s) == main[s] \in {"tick", "settle"} \/ active[s] > 0

-------------------------------------------------------------------------------
(* inspectOpenMasOsServiceStartupRecovery and claimKernelLock.             *)

StartUnchanged == UNCHANGED <<beat, state, failed, failures, outcome, stopping, active, outbox, lost>>

OwnerBeats == beat # NoLock /\ beat.by = lock.by /\ ~Stale(beat)

LockGoesOn == lock # NoLock /\ ~Stale(lock)

HeartbeatIgnored == TRUE
MayClaim == ~(lock # NoLock /\ Stale(lock) /\ OwnerBeats)

\* The last state is not the one of a clean stop.
Unclean == state # NoState /\ state.status # "stopped"

OutOfDate(s) == ~seen[s] \/ unclean[s] # Unclean

Inspect(s) ==
    /\ Goto(s, "new", IF MayClaim THEN "claim" ELSE "over")
    /\ seen' = [seen EXCEPT ![s] = TRUE]
    /\ unclean' = [unclean EXCEPT ![s] = Unclean]
    /\ StartUnchanged /\ UNCHANGED <<lock, repairs, faults, slips>>

Claim(s) ==
    /\ ~LockGoesOn
    /\ Goto(s, "claim", "start")
    /\ lock' = New(s)
    /\ repairs' = [repairs EXCEPT ![s] = unclean[s] \/ lock # NoLock]
    /\ IF OutOfDate(s) THEN Slip("late") ELSE UNCHANGED <<faults, slips>>
    /\ seen' = [seen EXCEPT ![s] = FALSE] /\ unclean' = [unclean EXCEPT ![s] = FALSE]
    /\ StartUnchanged

ClaimRefused(s) ==
    /\ LockGoesOn
    /\ Goto(s, "claim", "over")
    /\ StartUnchanged /\ UNCHANGED <<lock, startup, repairs, faults, slips>>

-------------------------------------------------------------------------------
(* runOpenMasOsRuntimeLoop with the callbacks of the watch command.        *)

LoopUnchanged == UNCHANGED <<beat, state, startup, stopping, faults>>

Announce(s) ==
    /\ Goto(s, "start", "loop")
    /\ Enqueue(s, "main", "active")
    /\ LoopUnchanged /\ UNCHANGED <<slips, lock, loop, outcome, active, lost>>

BeginTick(s) ==
    /\ ~stop[s]
    /\ Goto(s, "loop", "tick")
    /\ Enqueue(s, "main", "active")
    /\ LoopUnchanged /\ UNCHANGED <<slips, lock, loop, outcome, active, lost>>

OverCapacity(s) == active[s] <= Capacity
HasRoom(s) == active[s] < Capacity

\* submit of the executor, which defers what is above its capacity
Submit(s) ==
    /\ main[s] = "tick" /\ ~Queued(s, "main")
    /\ HasRoom(s)
    /\ active' = [active EXCEPT ![s] = @ + 1]
    /\ LoopUnchanged /\ UNCHANGED <<slips, lock, main, loop, outcome, outbox, lost>>

\* The backpressure interval
Skip(s) ==
    /\ main[s] = "tick" /\ ~Queued(s, "main") /\ ~Queued(s, "skip") /\ ~Fresh(s)
    /\ Enqueue(s, "skip", "active")
    /\ LoopUnchanged /\ UNCHANGED <<slips, lock, main, loop, outcome, active, lost>>

Repairing(s) == repairs[s] \/ failed[s]

FailedUnrepaired(s) ==
    /\ Goto(s, "tick", "settle")
    /\ lost' = (lost /\ ~repairs[s])
    /\ failed' = [failed EXCEPT ![s] = FALSE]
    /\ LoopUnchanged /\ UNCHANGED <<slips, lock, repairs, failures, outcome, active, outbox>>

\* The tick repairs, and takes the results that have settled.
EndTick(s) ==
    /\ Goto(s, "tick", "settle")
    /\ lost' = (lost /\ ~Repairing(s))
    /\ failed' = [failed EXCEPT ![s] = FALSE]
    /\ LoopUnchanged /\ UNCHANGED <<slips, lock, repairs, failures, outcome, active, outbox>>

\* The repair of a result is caught and counted: the tick is over with
\* failures, and the loop owes no repair any more.
RepairFails(s) ==
    /\ Repairing(s) /\ lost
    /\ Goto(s, "tick", "settle")
    /\ failed' = [failed EXCEPT ![s] = FALSE]
    /\ slips' = slips \union {"unrepaired"}
    /\ LoopUnchanged /\ UNCHANGED <<lock, repairs, failures, outcome, active, outbox, lost>>

\* The tick is over once the skipped ticks are published.
Settle(s) ==
    /\ ~Queued(s, "skip")
    /\ Goto(s, "settle", "report")
    /\ repairs' = [repairs EXCEPT ![s] = FALSE]
    /\ LoopUnchanged /\ UNCHANGED <<slips, lock, failed, failures, outcome, active, outbox, lost>>

\* onTickResult ignores a lock that another service has taken.
Report(s) ==
    /\ Goto(s, "report", "rest")
    /\ lock' = IF Holds(s) THEN New(s) ELSE lock
    /\ Enqueue(s, "main", "active")
    /\ LoopUnchanged /\ UNCHANGED <<slips, loop, outcome, active, lost>>

\* The catch of the loop, and onTickError
FailedForgotten(s) ==
    /\ ~Queued(s, "skip")
    /\ Goto(s, "failed", "retry")
    /\ failures' = [failures EXCEPT ![s] = TRUE]
    /\ Enqueue(s, "main", "active")
    /\ LoopUnchanged /\ UNCHANGED <<slips, lock, repairs, failed, outcome, active, lost>>

Failed(s) ==
    /\ ~Queued(s, "skip")
    /\ Goto(s, "failed", "retry")
    /\ repairs' = [repairs EXCEPT ![s] = TRUE]
    /\ failures' = [failures EXCEPT ![s] = TRUE]
    /\ Enqueue(s, "main", "active")
    /\ LoopUnchanged /\ UNCHANGED <<slips, lock, failed, outcome, active, lost>>

Sleep(s) ==
    /\ ~stop[s]
    /\ Goto(s, "rest", "loop") \/ Goto(s, "retry", "loop")
    /\ LoopUnchanged /\ UNCHANGED <<slips, lock, loop, outcome, active, outbox, lost>>

\* A service that stops before it has repaired what it was to repair is
\* dismissed from it.
EndLoop(s) ==
    /\ stop[s]
    /\ \E from \in {"loop", "rest", "retry"} : Goto(s, from, "drain")
    /\ outcome' = [outcome EXCEPT ![s] = IF failures[s] THEN "stopped_with_failures" ELSE "stopped"]
    /\ Enqueue(s, "main", "stopping")
    /\ LoopUnchanged /\ UNCHANGED <<slips, lock, loop, active, lost>>

-------------------------------------------------------------------------------
(* The finally of the watch command: drain, signals, release, last state.  *)

EndUnchanged == UNCHANGED <<beat, state, startup, loop, outcome, stopping, active, lost, faults>>

\* Nothing reads the flags of a command that has ended.
Forget(s) ==
    /\ repairs' = [repairs EXCEPT ![s] = FALSE] /\ failed' = [failed EXCEPT ![s] = FALSE]
    /\ failures' = [failures EXCEPT ![s] = FALSE] /\ stop' = [stop EXCEPT ![s] = FALSE]

\* The first round and the ones the drain waiter wakes up for
Due(s) == main[s] = "drain" \/ (main[s] = "maintain" /\ lock # New(s))

Maintain(s) ==
    /\ active[s] > 0 /\ Due(s) /\ Holds(s)
    /\ Goto(s, main[s], "maintain")
    /\ lock' = New(s)
    /\ IF outcome[s] = "failed" THEN UNCHANGED outbox ELSE Enqueue(s, "main", "stopping")
    /\ EndUnchanged /\ UNCHANGED slips

\* publishShutdownDrainHealth throws.
MaintainRefused(s) ==
    /\ active[s] > 0 /\ Due(s) /\ ~Holds(s)
    /\ Goto(s, main[s], "cleanup")
    /\ EndUnchanged /\ UNCHANGED <<lock, outbox, slips>>

DrainedAtOnce(s) == active[s] = 0 /\ Goto(s, "drain", "signals")

Drained(s) ==
    /\ active[s] = 0 /\ main[s] \in {"drain", "maintain"}
    /\ Goto(s, main[s], "signals")

\* The handlers are uninstalled.
Uninstall(s) ==
    /\ Drained(s)
    /\ EndUnchanged /\ UNCHANGED <<lock, outbox, slips>>

SignalsOver(s) == signal[s] = "done" /\ ~Queued(s, "signal")

Unsignalled(s) == signal[s] = "none"

ReleaseEarly(s) == main[s] = "signals"
WaitForSignals(s) == Unsignalled(s) \/ SignalsOver(s)

Release(s) ==
    /\ WaitForSignals(s)
    /\ Goto(s, "signals", "publish")
    /\ lock' = IF Holds(s) THEN NoLock ELSE lock
    /\ Enqueue(s, "main", outcome[s])
    /\ slips' = IF outcome[s] = "stopped" /\ lost /\ Repairing(s) THEN slips \union {"dismissed"} ELSE slips
    /\ EndUnchanged

Finish(s) ==
    /\ Goto(s, "publish", "finished")
    /\ Forget(s)
    /\ UNCHANGED <<files, startup, outcome, signal, active, outbox, lost, faults, slips>>

\* The outer finally: whatever the executor still does.
Cleanup(s) ==
    /\ Goto(s, "cleanup", "over")
    /\ lock' = IF Holds(s) THEN NoLock ELSE lock
    /\ slips' = IF active[s] > 0 THEN slips \union {"abandoned"} ELSE slips
    /\ Forget(s)
    /\ UNCHANGED <<beat, state, startup, outcome, signal, active, outbox, lost, faults>>

-------------------------------------------------------------------------------
(* Executions, signals, health snapshots.                                  *)

ExecutionEnds(s) ==
    /\ active[s] > 0
    /\ active' = [active EXCEPT ![s] = @ - 1]
    /\ UNCHANGED <<files, main, startup, loop, outcome, stopping, outbox, lost, faults, slips>>

Signal(s) ==
    /\ main[s] \notin Before \union Ended \union {"signals", "publish", "cleanup"} /\ signal[s] = "none"
    /\ stop' = [stop EXCEPT ![s] = TRUE]
    /\ signal' = [signal EXCEPT ![s] = "event"]
    /\ UNCHANGED <<files, main, startup, loop, outcome, active, outbox, lost, faults, slips>>

\* The handler's task, once it has appended its event
SignalSnapshot(s) ==
    /\ signal[s] = "event" /\ main[s] # "dead"
    /\ signal' = [signal EXCEPT ![s] = "done"]
    /\ Enqueue(s, "signal", "stopping")
    /\ UNCHANGED <<files, main, startup, loop, outcome, stop, active, lost, faults, slips>>

\* The last state is written when the lock is released already: it may
\* replace the state of a service that has started since.
Overwrites(s) == main[s] = "publish" /\ state # NoState /\ state.by # s

WriteHealth(s) ==
    /\ outbox[s] # <<>>
    /\ state' = [by |-> s, status |-> Head(outbox[s]).status]
    /\ beat' = New(s)
    /\ outbox' = [outbox EXCEPT ![s] = Tail(@)]
    /\ slips' = IF Overwrites(s) THEN slips \union {"overwritten"} ELSE slips
    /\ UNCHANGED <<lock, main, startup, loop, outcome, stopping, active, lost, faults>>

-------------------------------------------------------------------------------
(* Time and faults.                                                        *)

Running(s) == main[s] \notin Before \union Ended \/ (main[s] # "dead" /\ active[s] > 0)

\* What a live process has yet to write
Unwritten(s) == main[s] # "dead" /\ (outbox[s] # <<>> \/ signal[s] = "event")

\* A service whose event loop is alive writes in every unit of time, and what
\* it has queued in it.
Stalls == \E s \in Services : (Running(s) /\ ~Fresh(s)) \/ Unwritten(s)

Tick ==
    /\ lock' = Older(lock) /\ beat' = Older(beat)
    /\ seen' = [s \in Services |-> FALSE]
    /\ IF Stalls THEN Slip("stalled") ELSE UNCHANGED <<faults, slips>>
    /\ UNCHANGED <<state, main, unclean, loop, outcome, stopping, active, outbox, lost>>

FaultUnchanged == UNCHANGED <<startup, stopping, slips>>

Crash(s) ==
    /\ Fault /\ main[s] \notin Before \union {"dead"} /\ (main[s] \in Ended => active[s] > 0)
    /\ main' = [main EXCEPT ![s] = "dead"]
    /\ lost' = (lost \/ Works(s))
    /\ active' = [active EXCEPT ![s] = 0] /\ outbox' = [outbox EXCEPT ![s] = <<>>]
    /\ Forget(s) /\ signal' = [signal EXCEPT ![s] = "none"]
    /\ UNCHANGED <<files, startup, outcome, slips>>

\* A tick fails anywhere, or its report does.
TickFails(s) ==
    /\ Fault
    /\ Goto(s, "tick", "failed") \/ Goto(s, "report", "failed")
    /\ lost' = (lost \/ main[s] = "tick")
    /\ \E f \in {failed[s], FALSE} : failed' = [failed EXCEPT ![s] = f]
    /\ FaultUnchanged /\ UNCHANGED <<files, repairs, failures, outcome, active, outbox>>

ExecutionFails(s) ==
    /\ Fault /\ active[s] > 0
    /\ active' = [active EXCEPT ![s] = @ - 1]
    /\ lost' = TRUE
    /\ failed' = [failed EXCEPT ![s] = main[s] \notin Ended]
    /\ FaultUnchanged /\ UNCHANGED <<files, main, repairs, failures, outcome, outbox>>

\* A snapshot of a live service is put off, for want of the file.
DeferHealth(s) ==
    /\ Fault
    /\ outbox[s] # <<>> /\ ~(main[s] \in {"loop", "publish"} /\ Head(outbox[s]).from = "main")
    /\ outbox' = [outbox EXCEPT ![s] = Tail(@)]
    /\ FaultUnchanged /\ UNCHANGED <<files, main, loop, outcome, active, lost>>

\* Any other failure of a snapshot is thrown where it is awaited; nobody
\* catches the one of a signal in time, which ends the process.  The one of
\* a skipped tick is thrown once the tick is over, the one of the first
\* snapshot before the loop has begun or in it, the one of the last in it.
ThrownTo(s, from) ==
    IF from = "skip" THEN {"failed"}
    ELSE CASE main[s] = "loop"                      -> {"cleanup", "drain"}
           [] main[s] \in {"tick", "retry", "drain"} -> {"drain"}
           [] main[s] = "rest"                      -> {"failed"}
           [] main[s] = "maintain"                  -> {"cleanup"}
           [] main[s] = "publish"                   -> {"over"}
           [] OTHER                                 -> {main[s]}

HealthFails(s) ==
    /\ Fault
    /\ outbox[s] # <<>> /\ Head(outbox[s]).from # "signal"
    /\ Head(outbox[s]).from = "skip" => main[s] \in {"settle", "failed"}
    /\ \E to \in ThrownTo(s, Head(outbox[s]).from) :
          /\ main' = [main EXCEPT ![s] = to]
          /\ outcome' = [outcome EXCEPT ![s] = IF to = "drain" THEN "failed" ELSE @]
    /\ outbox' = [outbox EXCEPT ![s] = Tail(@)]
    /\ FaultUnchanged /\ UNCHANGED <<files, loop, active, lost>>

-------------------------------------------------------------------------------
(* Specification.                                                          *)

Init ==
    /\ lock = NoLock /\ beat = NoLock /\ state = NoState
    /\ main = [s \in Services |-> "new"]
    /\ seen = [s \in Services |-> FALSE] /\ unclean = [s \in Services |-> FALSE]
    /\ repairs = [s \in Services |-> FALSE] /\ failed = [s \in Services |-> FALSE]
    /\ failures = [s \in Services |-> FALSE] /\ outcome = [s \in Services |-> "stopped"]
    /\ stop = [s \in Services |-> FALSE] /\ signal = [s \in Services |-> "none"]
    /\ active = [s \in Services |-> 0] /\ outbox = [s \in Services |-> <<>>]
    /\ lost = FALSE /\ faults = 0 /\ slips = {}

Start(s) == Inspect(s) \/ Claim(s) \/ ClaimRefused(s)

Loop(s) ==
    \/ Announce(s) \/ BeginTick(s) \/ EndTick(s) \/ Settle(s) \/ Report(s)
    \/ Failed(s) \/ Sleep(s) \/ EndLoop(s)

Ending(s) ==
    \/ Maintain(s) \/ MaintainRefused(s) \/ Uninstall(s)
    \/ Release(s) \/ Finish(s) \/ Cleanup(s)

Besides(s) ==
    \/ Submit(s) \/ Skip(s) \/ RepairFails(s) \/ ExecutionEnds(s)
    \/ Signal(s) \/ SignalSnapshot(s) \/ WriteHealth(s)

Faults(s) ==
    \/ Crash(s) \/ TickFails(s) \/ ExecutionFails(s)
    \/ DeferHealth(s) \/ HealthFails(s)

Next ==
    \/ Tick
    \/ \E s \in Services : Start(s) \/ Loop(s) \/ Ending(s) \/ Besides(s) \/ Faults(s)

Spec == Init /\ [][Next]_vars

\* The event loop of a live process goes on, and an execution ends.
Fairness ==
    \A s \in Services :
        WF_vars(Loop(s) \/ Ending(s)) /\ WF_vars(WriteHealth(s))
        /\ WF_vars(SignalSnapshot(s)) /\ WF_vars(ExecutionEnds(s))

FairSpec == Spec /\ Fairness

-------------------------------------------------------------------------------
(* Properties.                                                             *)

Mains == Before \union Ended \union
    {"start", "loop", "tick", "settle", "report", "failed", "rest", "retry",
     "drain", "maintain", "signals", "publish", "cleanup"}
Slips == {"late", "stalled", "dismissed", "abandoned", "overwritten", "unrepaired"}

\* The type invariant.
TypeOK ==
    /\ lock \in Claims \union {NoLock} /\ beat \in Claims \union {NoLock}
    /\ state \in States \union {NoState}
    /\ main \in [Services -> Mains]
    /\ seen \in [Services -> BOOLEAN] /\ unclean \in [Services -> BOOLEAN]
    /\ repairs \in [Services -> BOOLEAN] /\ failed \in [Services -> BOOLEAN]
    /\ failures \in [Services -> BOOLEAN] /\ outcome \in [Services -> Outcomes]
    /\ stop \in [Services -> BOOLEAN] /\ signal \in [Services -> {"none", "event", "done"}]
    /\ active \in [Services -> 0..Capacity] /\ outbox \in [Services -> Seq(Entries)]
    /\ lost \in BOOLEAN /\ faults \in 0..MaxFaults /\ slips \subseteq Slips

\* Unless a service stalls, abandons its executions or claims on an outdated
\* inspection, whoever ticks or executes holds the kernel lock, to the end of
\* the drain: no two services work at once.
WorksUnderLock ==
    slips \subseteq {"dismissed", "overwritten", "unrepaired"} => \A s \in Services : Works(s) => Holds(s)

\* The last state a command leaves is the one it ended with: no snapshot of a
\* signal or of a tick is written after it.
FinalStateStays ==
    \A s \in Services :
        (main[s] = "finished" /\ state # NoState /\ state.by = s) => (state.status = outcome[s] /\ outbox[s] = <<>>)

Alive(s) == main[s] \notin Before \union Ended \union {"publish"}

\* Unpublished results are remembered: by a service that is going to repair
\* them, by the lock a dead service has left, or by a last state that makes
\* the next service repair.
RepairIsOwed ==
    (lost /\ slips = {}) =>
        \/ \E s \in Services : Alive(s) /\ (Repairing(s) \/ main[s] = "failed")
        \/ lock # NoLock /\ main[lock.by] = "dead"
        \/ (\A s \in Services : ~Alive(s)) /\ Unclean

\* A service that is asked to stop drains and ends.
StopIsHeeded == \A s \in Services : stop[s] ~> main[s] \in Ended

\* A repair that is owed is made, unless the repair itself fails or a service
\* ends before.
Owed == lost /\ \E s \in Services : Alive(s) /\ Repairing(s)

RepairIsMade ==
    Owed ~> \/ ~lost \/ "unrepaired" \in slips
            \/ \E s \in Services : stop[s] \/ outcome[s] = "failed" \/ main[s] \in {"over", "dead"}

\* The kernel lock and the heartbeat together are the lease of a service that
\* is alive, unless a service stalls, abandons its executions or claims on an
\* outdated inspection: it is granted when it is gone, or stale in both its
\* files; the holder renews it with either file and gives it back in time.
Tenant == IF lock = NoLock THEN {} ELSE {lock.by}
Age ==
    IF lock = NoLock THEN 0
    ELSE IF OwnerBeats /\ beat.age < lock.age THEN beat.age ELSE lock.age
Holders == {s \in Services : Holds(s) /\ Alive(s)}

LockLease == INSTANCE Lease WITH
    Contenders <- Services, tenant <- Tenant, age <- Age, holders <- Holders,
    void <- ~(slips \subseteq {"dismissed", "overwritten", "unrepaired"})

LeaseKept == LockLease!Spec
===============================================================================
