------------------------------ MODULE SystemCalls ------------------------------
(***************************************************************************)
(* Delegation system calls: the file inbox (local-system-call-inbox.js),   *)
(* the kernel's processor (system-call-processor.js) and the callers, jobs *)
(* whose invocation submits a call and then waits (mas-os-delegate-runtime *)
(* and the end of runJobNow).  A call is one file that moves between state *)
(* directories by a hard link and an unlink, a result is a file that is    *)
(* written once, and the caller is three records written one by one.       *)
(*                                                                         *)
(* Abstractions.  One kernel process (KernelLock), one caller and one      *)
(* child job for each call; policy and target readiness are one            *)
(* nondeterministic verdict; the child's execution and the recovery of a   *)
(* parent whose child ended are single steps; the limit of calls for each  *)
(* tick, malformed files, events and warnings are left out.                *)
(* Bounds: MaxClock ends time, MaxFaults the failures of the kernel.       *)
(***************************************************************************)
EXTENDS Naturals

CONSTANTS Calls, Key, ExpiresAt, Repeated, MaxClock, MaxFaults, NoCall

ASSUME CallsAssumption == NoCall \notin Calls /\ Repeated \subseteq Calls
ASSUME ExpiryAssumption == MaxClock \in Nat /\ ExpiresAt \in [Calls -> Nat]
ASSUME BoundsAssumption == MaxFaults \in Nat
ASSUME KeyAssumption == \A c \in Calls : c \in DOMAIN Key

VARIABLES
    clock,
    files,      \* state directories that hold a snapshot of each call
    result,     \* status in the result file of each call
    record,     \* calls with a submission result record
    child,      \* child job of each call
    thread, process, job,   \* caller of each call: its current thread, ...
    phase, goal,            \* ... and where its invocation is
    repeat,     \* a second submission of the same call
    pc,         \* what the kernel is doing
    now,        \* time the pass began
    moving,     \* calls listed in processing and not yet taken
    waiting,    \* calls listed in pending and not yet taken
    cur, from, outcome,     \* call in hand, where it came from, its result
    faults,
    made        \* history: child jobs the handlers created

inbox == <<files, result, record>>
caller == <<thread, process, job, phase, goal>>
kernel == <<pc, now, moving, waiting, cur, from, outcome>>
vars == <<clock, inbox, child, caller, repeat, kernel, faults, made>>

Directories == {"pending", "processing", "completed", "denied", "failed", "expired"}
Outcomes == {"completed", "denied", "failed", "expired"}
Failures == Outcomes \ {"completed"}
None == "none"

\* findExistingSystemCallPath
Known(c) == files[c] # {} \/ result[c] # None

-------------------------------------------------------------------------------
(* The caller: submitSystemCall from its invocation, then the end of       *)
(* runJobNow.                                                              *)

CallerUnchanged == UNCHANGED <<clock, result, record, child, repeat, kernel, faults, made>>

CheckInbox(c) ==
    /\ phase[c] = "invoking"
    /\ ~Known(c)
    /\ phase' = [phase EXCEPT ![c] = "checked"]
    /\ UNCHANGED <<files, thread, process, job, goal>> /\ CallerUnchanged

Submit(c) ==
    /\ phase[c] = "checked"
    /\ "pending" \notin files[c]
    /\ files' = [files EXCEPT ![c] = @ \union {"pending"}]
    /\ phase' = [phase EXCEPT ![c] = "submitted"]
    /\ UNCHANGED <<thread, process, job, goal>> /\ CallerUnchanged

\* isNonTerminalDelegationWaitMapping; the other ways to return end the caller.
Waits == {"waitingCall", "waitingChild"}

\* runtimeStateAlreadyAdvanced, for a caller that means to wait.
AlreadyAdvanced(c, g) ==
    \/ job[c] # "active"
    \/ process[c] \in {"failed", "completed", "ready"}
    \/ thread[c] \in {"failed", "completed", "ready"}
    \/ process[c] = "blocked" /\ thread[c] = "waitingChild" /\ g = "waitingCall"

\* The invocation returns: it may have waited for the result of the call, have
\* stopped waiting for it, or have failed, with or without a result.
Return(c) ==
    /\ phase[c] = "submitted"
    /\ \E g \in {"waitingCall", "failed"} \union
                (IF result[c] = "completed" THEN {"waitingChild"} ELSE {}) \union
                (IF result[c] \in Failures THEN {"completed"} ELSE {}) :
        /\ goal' = [goal EXCEPT ![c] = g]
        /\ phase' = [phase EXCEPT ![c] =
                        IF g \in Waits /\ AlreadyAdvanced(c, g) THEN "done" ELSE "thread"]
    /\ UNCHANGED <<files, thread, process, job>> /\ CallerUnchanged

WriteThread(c) ==
    /\ phase[c] = "thread"
    /\ thread' = [thread EXCEPT ![c] = goal[c]]
    /\ phase' = [phase EXCEPT ![c] = "process"]
    /\ UNCHANGED <<files, process, job, goal>> /\ CallerUnchanged

WriteProcess(c) ==
    /\ phase[c] = "process"
    /\ process' = [process EXCEPT ![c] = IF goal[c] \in Waits THEN "blocked" ELSE goal[c]]
    /\ phase' = [phase EXCEPT ![c] = "job"]
    /\ UNCHANGED <<files, thread, job, goal>> /\ CallerUnchanged

WriteJob(c) ==
    /\ phase[c] = "job"
    /\ job' = [job EXCEPT ![c] = IF goal[c] \in Waits THEN "active" ELSE goal[c]]
    /\ phase' = [phase EXCEPT ![c] = "done"]
    /\ UNCHANGED <<files, thread, process, goal>> /\ CallerUnchanged

\* A second client submits the same call: refused when the scan finds it.
RepeatCheck(c) ==
    /\ repeat[c] = "possible" /\ ~Known(c)
    /\ repeat' = [repeat EXCEPT ![c] = "checked"]
    /\ UNCHANGED <<clock, inbox, child, caller, kernel, faults, made>>

RepeatSubmit(c) ==
    /\ repeat[c] = "checked"
    /\ repeat' = [repeat EXCEPT ![c] = "done"]
    /\ files' = [files EXCEPT ![c] = @ \union {"pending"}]
    /\ UNCHANGED <<clock, result, record, child, caller, kernel, faults, made>>

-------------------------------------------------------------------------------
(* The kernel takes the calls found in processing, then those in pending.  *)

KernelKeeps == UNCHANGED <<clock, phase, goal, repeat, faults>>

BeginPass ==
    /\ pc = "idle"
    /\ pc' = "pass" /\ now' = clock
    /\ moving' = {c \in Calls : "processing" \in files[c]}
    /\ waiting' = {c \in Calls : "pending" \in files[c]}
    /\ UNCHANGED <<inbox, child, thread, process, job, cur, from, outcome, made>> /\ KernelKeeps

TakeProcessing(c) ==
    /\ pc = "pass" /\ c \in moving
    /\ pc' = "handling" /\ cur' = c /\ from' = "processing"
    /\ moving' = moving \ {c}
    /\ UNCHANGED <<inbox, child, thread, process, job, now, waiting, outcome, made>> /\ KernelKeeps

TakePending(c) ==
    /\ pc = "pass" /\ moving = {} /\ c \in waiting
    /\ pc' = "claiming" /\ cur' = c /\ from' = "pending"
    /\ waiting' = waiting \ {c}
    /\ UNCHANGED <<inbox, child, thread, process, job, now, moving, outcome, made>> /\ KernelKeeps

\* moveSystemCall: the link fails when the target exists, and its error ends
\* the whole pass.
Link(target, next) ==
    /\ target \notin files[cur]
    /\ files' = [files EXCEPT ![cur] = @ \union {target}]
    /\ pc' = next
    /\ UNCHANGED <<result, record, child, thread, process, job, now, moving, waiting, cur, from, outcome, made>>
    /\ KernelKeeps

Unlink(source, next) ==
    /\ files' = [files EXCEPT ![cur] = @ \ {source}]
    /\ pc' = next
    /\ UNCHANGED <<result, record, child, thread, process, job, now, moving, waiting, cur, from, outcome, made>>
    /\ KernelKeeps

\* Faulty: the link into processing never makes it to the directory.
LinkProcessingLost == pc = "claiming" /\ pc' = "claimed" /\
    UNCHANGED <<files, result, record, child, thread, process, job, now, moving, waiting, cur, from, outcome, made>> /\
    KernelKeeps

LinkProcessing == pc = "claiming" /\ Link("processing", "claimed")

UnlinkPending == pc = "claimed" /\ Unlink("pending", "handling")

Answer(o) ==
    /\ outcome' = o /\ pc' = "answering"
    /\ UNCHANGED <<inbox, child, thread, process, job, now, moving, waiting, cur, from, made>>
    /\ KernelKeeps

ReuseResult == pc = "handling" /\ result[cur] # None /\ Answer(result[cur])

RecoverEffects ==
    /\ pc = "handling" /\ result[cur] = None
    /\ from = "processing" /\ child[cur] # None
    /\ Answer("completed")

\* What is left of processLoadedSystemCall when nothing was found to recover.
Fresh == pc = "handling" /\ result[cur] = None /\ (from = "processing" => child[cur] = None)
Expired == ExpiresAt[cur] <= now

\* Faulty: a result answers a duplicate only when it succeeded.
TwinsThatSucceeded(c) == {d \in Calls \ {c} : Key[d] = Key[c] /\ result[d] = "completed"}

Twins(c) == {d \in Calls \ {c} : Key[d] = Key[c] /\ result[d] # None}

Dispatched == Fresh /\ ~Expired /\ Twins(cur) = {}

\* Faulty: looks at the expiry before it looks for effects of an earlier try.
ExpireFirst == pc = "handling" /\ result[cur] = None /\ Expired /\ Answer("expired")

Expire == Fresh /\ Expired /\ Answer("expired")

\* Faulty: every earlier result counts as a success.
ReplaySuccess == Fresh /\ ~Expired /\ Twins(cur) # {} /\ Answer("completed")

Replay == Fresh /\ ~Expired /\ \E d \in Twins(cur) : Answer(result[d])

Deny == Dispatched /\ Answer("denied")

\* assertParentState
MayDelegate(c) ==
    \/ process[c] = "running" /\ thread[c] = "running"
    \/ process[c] = "blocked" /\ thread[c] = "waitingCall"

RejectParent == Dispatched /\ ~MayDelegate(cur) /\ Answer("failed")

CreateChild ==
    /\ Dispatched /\ MayDelegate(cur)
    /\ child' = [child EXCEPT ![cur] = "ready"]
    /\ made' = [made EXCEPT ![cur] = @ + 1]
    /\ pc' = "childMade"
    /\ UNCHANGED <<inbox, thread, process, job, now, moving, waiting, cur, from, outcome>> /\ KernelKeeps

BlockThread ==
    /\ pc = "childMade"
    /\ thread' = [thread EXCEPT ![cur] = "waitingChild"]
    /\ pc' = "threadBlocked"
    /\ UNCHANGED <<inbox, child, process, job, now, moving, waiting, cur, from, outcome, made>> /\ KernelKeeps

BlockProcess ==
    /\ pc = "threadBlocked"
    /\ process' = [process EXCEPT ![cur] = "blocked"]
    /\ outcome' = "completed" /\ pc' = "answering"
    /\ UNCHANGED <<inbox, child, thread, job, now, moving, waiting, cur, from, made>> /\ KernelKeeps

\* persistResultAndMoveSystemCall
PersistResult ==
    /\ pc = "answering"
    /\ result' = [result EXCEPT ![cur] = IF @ = None THEN outcome ELSE @]
    /\ pc' = "recording"
    /\ UNCHANGED <<files, record, child, thread, process, job, now, moving, waiting, cur, from, outcome, made>>
    /\ KernelKeeps

\* Faulty: the record is skipped for a call that created no child job.
RecordEffects ==
    /\ pc = "recording"
    /\ record' = IF child[cur] # None THEN record \union {cur} ELSE record
    /\ pc' = "filing"
    /\ UNCHANGED <<files, result, child, thread, process, job, now, moving, waiting, cur, from, outcome, made>>
    /\ KernelKeeps

RecordSubmission ==
    /\ pc = "recording"
    /\ record' = record \union {cur}
    /\ pc' = "filing"
    /\ UNCHANGED <<files, result, child, thread, process, job, now, moving, waiting, cur, from, outcome, made>>
    /\ KernelKeeps

LinkFinal == pc = "filing" /\ Link(outcome, "filed")

\* Faulty: the file in processing stays.
UnlinkForgotten == pc = "filed" /\ pc' = "settling" /\
    UNCHANGED <<inbox, child, thread, process, job, now, moving, waiting, cur, from, outcome, made>> /\
    KernelKeeps

UnlinkProcessing == pc = "filed" /\ Unlink("processing", "settling")

\* Faulty: only a pass that ends well looks for callers of failed calls.
EndPassQuickly == moving' = {} /\ waiting' = {} /\ pc' = "reconciling"

EndPass == moving' = {} /\ waiting' = {c \in Calls : result[c] \in Failures} /\ pc' = "reconciling"

\* The error of a move ends the pass, the end of the lists does too.  The tick
\* goes on with the failed results whose callers may still wait.
AbortPass ==
    /\ pc \in {"claiming", "filing"}
    /\ (IF pc = "claiming" THEN "processing" ELSE outcome) \in files[cur]
    /\ EndPass
    /\ cur' = NoCall /\ from' = None /\ outcome' = None
    /\ UNCHANGED <<inbox, child, thread, process, job, now, made>> /\ KernelKeeps

FinishPass ==
    /\ pc = "pass" /\ moving = {} /\ waiting = {}
    /\ EndPass
    /\ UNCHANGED <<inbox, child, thread, process, job, now, cur, from, outcome, made>> /\ KernelKeeps

-------------------------------------------------------------------------------
(* terminalizeDelegationSystemCallCaller, after a failed call and again on *)
(* every tick for every failed result.                                     *)

Trapped(c) == job[c] = "active" /\ process[c] = "blocked" /\ thread[c] = "waitingCall"

\* Faulty: keeps the call in hand.
ResumeHolding == /\ pc' = IF from = "results" THEN "reconciling" ELSE "pass"
                 /\ UNCHANGED <<cur, from, outcome>>

Resume == /\ pc' = IF from = "results" THEN "reconciling" ELSE "pass"
          /\ cur' = NoCall /\ from' = None /\ outcome' = None

SettleNobody ==
    /\ pc = "settling"
    /\ outcome \notin Failures \/ ~Trapped(cur)
    /\ Resume
    /\ UNCHANGED <<inbox, child, thread, process, job, now, moving, waiting, made>> /\ KernelKeeps

FailThread ==
    /\ pc = "settling"
    /\ outcome \in Failures /\ Trapped(cur)
    /\ thread' = [thread EXCEPT ![cur] = "failed"]
    /\ pc' = "threadFailed"
    /\ UNCHANGED <<inbox, child, process, job, now, moving, waiting, cur, from, outcome, made>> /\ KernelKeeps

FailProcess ==
    /\ pc = "threadFailed"
    /\ process' = [process EXCEPT ![cur] = "failed"]
    /\ pc' = "processFailed"
    /\ UNCHANGED <<inbox, child, thread, job, now, moving, waiting, cur, from, outcome, made>> /\ KernelKeeps

FailJob ==
    /\ pc = "processFailed"
    /\ job' = [job EXCEPT ![cur] = "failed"]
    /\ Resume
    /\ UNCHANGED <<inbox, child, thread, process, now, moving, waiting, made>> /\ KernelKeeps

\* A result whose call cannot be loaded from its directory is passed over.
Reconcile(c) ==
    /\ pc = "reconciling" /\ c \in waiting
    /\ waiting' = waiting \ {c}
    /\ IF result[c] \in files[c]
         THEN pc' = "settling" /\ cur' = c /\ from' = "results" /\ outcome' = result[c]
         ELSE UNCHANGED <<pc, cur, from, outcome>>
    /\ UNCHANGED <<inbox, child, thread, process, job, now, moving, made>> /\ KernelKeeps

\* recoverLostParentWaitsForTick: a blocked parent whose child has ended goes on.
Orphaned(c) ==
    /\ job[c] = "active" /\ process[c] = "blocked"
    /\ thread[c] \in {"waitingCall", "waitingChild"} /\ child[c] = "ended"

RecoverParents ==
    /\ pc = "reconciling" /\ waiting = {}
    /\ thread' = [c \in Calls |-> IF Orphaned(c) THEN "ready" ELSE thread[c]]
    /\ process' = [c \in Calls |-> IF Orphaned(c) THEN "ready" ELSE process[c]]
    /\ pc' = "idle"
    /\ UNCHANGED <<inbox, child, job, now, moving, waiting, cur, from, outcome, made>> /\ KernelKeeps

-------------------------------------------------------------------------------
EndChild(c) ==
    /\ child[c] = "ready"
    /\ child' = [child EXCEPT ![c] = "ended"]
    /\ UNCHANGED <<clock, inbox, caller, repeat, kernel, faults, made>>

Tick ==
    /\ clock < MaxClock
    /\ clock' = clock + 1
    /\ UNCHANGED <<inbox, child, caller, repeat, kernel, faults, made>>

\* A write of the delegation fails, the event after the write of the blocked
\* process at the latest: the handler answers with the error.
FailDelegation ==
    /\ pc \in {"childMade", "threadBlocked"} /\ faults < MaxFaults
    /\ faults' = faults + 1
    /\ \/ process' = process
       \/ pc = "threadBlocked" /\ process' = [process EXCEPT ![cur] = "blocked"]
    /\ outcome' = "failed" /\ pc' = "answering"
    /\ UNCHANGED <<clock, inbox, child, thread, job, phase, goal, repeat, now, moving, waiting, cur, from, made>>

\* The kernel dies and starts again; the callers it was running end where
\* they are, those of another process go on.
Crash ==
    /\ pc # "idle" /\ faults < MaxFaults
    /\ faults' = faults + 1
    /\ pc' = "idle" /\ moving' = {} /\ waiting' = {}
    /\ cur' = NoCall /\ from' = None /\ outcome' = None
    /\ phase' \in {phase, [c \in Calls |-> IF phase[c] = "invoking" THEN phase[c] ELSE "done"]}
    /\ UNCHANGED <<clock, inbox, child, thread, process, job, goal, repeat, now, made>>

-------------------------------------------------------------------------------
Init ==
    /\ clock = 0
    /\ files = [c \in Calls |-> {}]
    /\ result = [c \in Calls |-> None] /\ record = {}
    /\ child = [c \in Calls |-> None]
    /\ thread = [c \in Calls |-> "running"]
    /\ process = [c \in Calls |-> "running"]
    /\ job = [c \in Calls |-> "active"]
    /\ phase = [c \in Calls |-> "invoking"] /\ goal = [c \in Calls |-> None]
    /\ repeat = [c \in Calls |-> IF c \in Repeated THEN "possible" ELSE "done"]
    /\ pc = "idle" /\ now = 0 /\ moving = {} /\ waiting = {}
    /\ cur = NoCall /\ from = None /\ outcome = None
    /\ faults = 0
    /\ made = [c \in Calls |-> 0]

Handle ==
    \/ ReuseResult \/ RecoverEffects \/ Expire \/ Replay \/ Deny \/ RejectParent
    \/ CreateChild \/ BlockThread \/ BlockProcess

KernelStep ==
    \/ BeginPass \/ \E c \in Calls : TakeProcessing(c) \/ TakePending(c)
    \/ LinkProcessing \/ UnlinkPending \/ Handle
    \/ PersistResult \/ RecordSubmission \/ LinkFinal \/ UnlinkProcessing
    \/ AbortPass \/ FinishPass
    \/ SettleNobody \/ FailThread \/ FailProcess \/ FailJob
    \/ (\E c \in Calls : Reconcile(c)) \/ RecoverParents

\* What a caller does once it has submitted.
CallerStep(c) == Return(c) \/ WriteThread(c) \/ WriteProcess(c) \/ WriteJob(c)

Next ==
    \/ KernelStep
    \/ \E c \in Calls : CheckInbox(c) \/ Submit(c) \/ CallerStep(c)
    \/ \E c \in Calls : RepeatCheck(c) \/ RepeatSubmit(c) \/ EndChild(c)
    \/ Tick \/ FailDelegation \/ Crash

Spec == Init /\ [][Next]_vars

\* The watch loop keeps ticking, invocations return and children end; nothing
\* makes a caller submit, a clock reach an expiry or the kernel fail.
FairSpec ==
    /\ Spec
    /\ WF_vars(KernelStep)
    /\ \A c \in Calls : WF_vars(CallerStep(c)) /\ WF_vars(EndChild(c))

-------------------------------------------------------------------------------
\* Every variable stays in its domain; the kernel has a call in hand exactly
\* while it handles or settles one.
TypeOK ==
    /\ clock \in 0 .. MaxClock /\ now \in 0 .. clock
    /\ files \in [Calls -> SUBSET Directories]
    /\ result \in [Calls -> Outcomes \union {None}] /\ record \subseteq Calls
    /\ child \in [Calls -> {None, "ready", "ended"}]
    /\ thread \in [Calls -> {"running", "waitingCall", "waitingChild", "failed", "completed", "ready"}]
    /\ process \in [Calls -> {"running", "blocked", "failed", "completed", "ready"}]
    /\ job \in [Calls -> {"active", "failed", "completed"}]
    /\ phase \in [Calls -> {"invoking", "checked", "submitted", "thread", "process", "job", "done"}]
    /\ goal \in [Calls -> {None, "waitingCall", "waitingChild", "completed", "failed"}]
    /\ repeat \in [Calls -> {"possible", "checked", "done"}]
    /\ pc \in {"idle", "pass", "claiming", "claimed", "handling", "childMade", "threadBlocked",
               "answering", "recording", "filing", "filed", "settling", "threadFailed",
               "processFailed", "reconciling"}
    /\ moving \subseteq Calls /\ waiting \subseteq Calls
    /\ cur \in Calls \union {NoCall}
    /\ (cur = NoCall) <=> (pc \in {"idle", "pass", "reconciling"})
    /\ from \in {None, "pending", "processing", "results"}
    /\ outcome \in Outcomes \union {None}
    /\ faults \in 0 .. MaxFaults
    /\ made \in [Calls -> Nat]

(***************************************************************************)
(* However often a call is handled again after a failure or submitted      *)
(* again, and whatever became of the first try, one idempotency key makes  *)
(* at most one child job (findExistingMaterializedSystemCallEffects,       *)
(* findExistingIdempotentResult).                                          *)
(***************************************************************************)
OneChildPerKey ==
    \A c, d \in Calls :
        /\ made[c] <= 1
        /\ c # d /\ Key[c] = Key[d] => made[c] = 0 \/ made[d] = 0

(***************************************************************************)
(* A call that was refused or has expired made no child job, not even in   *)
(* an earlier try that a failure cut short.                                *)
(***************************************************************************)
RefusalsHaveNoEffect ==
    \A c \in Calls : result[c] \in {"denied", "expired"} => made[c] = 0

(***************************************************************************)
(* A call rests in a final directory only with the result that names this  *)
(* directory and with its submission record, across retries and repeated   *)
(* submissions (persistResultAndMoveSystemCall).                           *)
(***************************************************************************)
FiledAsAnswered ==
    \A c \in Calls : \A o \in Outcomes : o \in files[c] => result[c] = o /\ c \in record

(***************************************************************************)
(* A submitted call is in some directory at every moment, whenever the     *)
(* kernel may die (moveSystemCall links before it unlinks).                *)
(***************************************************************************)
NoCallLost == [][\A c \in Calls : files[c] # {} => files'[c] # {}]_vars

(***************************************************************************)
(* The processor keeps its promise to the callers (CallContract): a result *)
(* file is the answer, a child job once made counts even when it has ended *)
(* or its call was cut short.                                              *)
(***************************************************************************)
Contract == INSTANCE CallContract WITH
    answer <- result, children <- {c \in Calls : made[c] > 0}
ContractKept == Contract!Spec

(***************************************************************************)
(* Every submitted call gets a result, wherever the kernel died before.    *)
(***************************************************************************)
CallsGetAnswered == \A c \in Calls : files[c] # {} ~> result[c] # None

(***************************************************************************)
(* Every submitted call ends in final directories only: the kernel answers *)
(* it and files it away.                                                   *)
(***************************************************************************)
CallsGetFiled == \A c \in Calls : files[c] # {} ~> (files[c] # {} /\ files[c] \subseteq Outcomes)

(***************************************************************************)
(* A caller whose records say that it is blocked on its call or its child  *)
(* does not stay so: the kernel fails it, or its child ends and it goes on.*)
(* The exception is a call answered as completed without a child of its    *)
(* own, from the result of another call with its idempotency key.          *)
(***************************************************************************)
Parked(c) ==
    job[c] = "active" /\ process[c] = "blocked" /\ thread[c] \in {"waitingCall", "waitingChild"}
AnsweredByTwin(c) == result[c] = "completed" /\ made[c] = 0
ParkedCallersGoOn == \A c \in Calls : Parked(c) ~> (~Parked(c) \/ AnsweredByTwin(c))
===============================================================================
