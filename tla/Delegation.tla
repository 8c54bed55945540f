------------------------------ MODULE Delegation ------------------------------
(***************************************************************************)
(* A parent process that delegates and waits: the delegation of a pending  *)
(* call, the execution of the child job, the signal that wakes the parent  *)
(* (delegation-manager.js, signal-manager.js), the tick that recovers lost *)
(* waits, stale invocations and missing results (local-os-service.js), and *)
(* the resumption of the parent, which may delegate again.  Child          *)
(* executions and resumptions are tasks of the asynchronous executor of    *)
(* the watch command and overlap each other and the ticks.                 *)
(*                                                                         *)
(* Abstractions.  One kernel process (KernelLock) and one parent; call k   *)
(* has child k; a delegation is one step (SystemCalls has its writes) and  *)
(* is authorized; a child that completed and one that failed are both      *)
(* "ended"; a running invocation is taken for stale at any time when no    *)
(* task of the executor has its job; the parent is a root process (its     *)
(* parentProcessId is null); events and summaries are left out.            *)
(* Bounds: MaxCalls delegations, MaxThreads threads of the parent,         *)
(* MaxFaults crashes of the kernel and failures of tasks.                  *)
(***************************************************************************)
EXTENDS Naturals, Sequences

CONSTANTS MaxCalls, MaxThreads, MaxFaults

ASSUME BoundsAssumption ==
    /\ MaxCalls \in Nat \ {0} /\ MaxThreads \in Nat \ {0} /\ MaxFaults \in Nat

Calls == 1..MaxCalls
Threads == 1..MaxThreads
Kinds == {"delegation", "job"}      \* resolveDispatchType of a ready child job

VARIABLES
    process, thread, job,   \* the parent: its process, its threads, its job
    call,                   \* delegation calls of the parent, in order
    child, linked, run,     \* child jobs, whether their process names the parent, the process
    result, resumeResult,   \* result records of children and of resumptions
    tick,                   \* where the tick is
    task,                   \* executions of children
    resume,                 \* resumptions, one for each continuation thread
    wake,                   \* applications of a child's end to the parent
    lock,                   \* withProcessDelegationLock: the resumption inside
    repair, settled,        \* recoverTerminalResultPublications; a failed task to report
    latest,                 \* linked child that ended last
    faults, torn            \* history: faults, and what was cut between two writes

parent == <<process, thread, job>>
children == <<child, linked, run, latest>>
records == <<result, resumeResult>>
kernel == <<tick, repair, settled>>
vars == <<parent, call, children, records, kernel, task, resume, wake, lock, faults, torn>>

Ended == {"completed", "failed"}
Current == process.current
Waiting == {"waitingCall", "waitingChild"}
Waits == Waiting \union {"waitingResource"}
Parking == {"waitingCall", "waitingResource"}   \* mapParentResumeStatus: not terminal
Tears == {"handOver", "wait"}       \* by a fault, by the reconciliation of the tick
Wakers == Calls \union {0}          \* 0: the tick
NoTask == [at |-> "none", on |-> 0]
NoResume == [at |-> "none", answer |-> "none", by |-> 0, kids |-> <<>>]
NoWake == [at |-> "none", on |-> 0, by |-> 0, kids |-> <<>>]
Processes == [status : {"blocked", "ready", "running"} \union Ended, current : Threads \union {0}, kids : Seq(Calls)]
Tasks == [at : {"none", "queued", "claimed", "running", "ended", "finished", "recorded", "notifying"},
          on : Threads \union {0}]
Resumes == [at : {"none", "queued", "read", "thread", "invoked", "answered", "threadWritten", "processWritten",
                  "jobWritten"},
            answer : {"none"} \union Parking \union Ended, by : Calls \union {0}, kids : Seq(Calls)]
Wakes == [at : {"none", "read", "completed", "created"}, on : Threads \union {0},
          by : Calls \union {0}, kids : Seq(Calls)]
CurrentThread == IF Current = 0 THEN "none" ELSE thread[Current]

\* appendUniqueChildProcessId
With(kids, k) == IF \E i \in DOMAIN kids : kids[i] = k THEN kids ELSE Append(kids, k)

Spare == {t \in Threads : thread[t] = "none"}

Asked == {k \in Calls : call[k] # "none"}

LockFree == lock = 0

\* findLatestTerminalChildProcess once child k has ended
Latest(k) == IF linked[k] THEN k ELSE latest

\* persistResultRecordIfMissing, for a child and for a resumption
Recorded(k) == [result EXCEPT ![k] = TRUE]
ResumeRecorded(t) == [resumeResult EXCEPT ![t] = TRUE]

-------------------------------------------------------------------------------
(* The tick: calls, reconciliations, lost waits, dispatch, stale           *)
(* invocations, missing results.                                           *)

\* assertParentState
MayDelegate ==
    \/ process.status = "running" /\ CurrentThread = "running"
    \/ process.status = "blocked" /\ CurrentThread = "waitingCall"

Delegate(k) ==
    /\ tick = "calls" /\ call[k] = "pending" /\ LockFree
    /\ MayDelegate
    /\ call' = [call EXCEPT ![k] = "delegated"]
    /\ child' = [child EXCEPT ![k] = "ready"]
    /\ thread' = [thread EXCEPT ![Current] = "waitingChild"]
    /\ process' = [process EXCEPT !.status = "blocked"]
    /\ UNCHANGED <<job, linked, run, latest, records, kernel, task, resume, wake, lock, faults, torn>>

RefuseCall(k) ==
    /\ tick = "calls" /\ call[k] = "pending" /\ LockFree
    /\ ~MayDelegate
    /\ call' = [call EXCEPT ![k] = "refused"]
    /\ UNCHANGED <<parent, children, records, kernel, task, resume, wake, lock, faults, torn>>

Step(from, to) == tick = from /\ tick' = to

\* The calls are done; reconcileTerminalDelegationSystemCallCallers fails the
\* parent when the last of them was refused.
ReconcileCaller ==
    /\ Step("calls", "resources")
    /\ \A k \in Calls : call[k] # "pending"
    /\ IF /\ process.status = "blocked" /\ CurrentThread = "waitingCall" /\ job = "active"
          /\ \E k \in Calls : call[k] = "refused" /\ \A j \in Asked : j <= k
       THEN /\ thread' = [thread EXCEPT ![Current] = "failed"]
            /\ process' = [process EXCEPT !.status = "failed", !.current = 0]
            /\ job' = "failed"
       ELSE UNCHANGED parent
    /\ UNCHANGED <<call, children, records, repair, settled, task, resume, wake, lock, faults, torn>>

\* A wait for a resource has no end but this one, which does not look for the
\* task that may still be about to write the job of the parent.
ReconcileResource ==
    /\ Step("resources", "waits")
    /\ IF process.status = "blocked" /\ CurrentThread = "waitingResource" /\ job = "active"
       THEN /\ thread' = [thread EXCEPT ![Current] = "failed"]
            /\ process' = [process EXCEPT !.status = "failed", !.current = 0]
            /\ job' = "failed"
            /\ torn' = IF resume[Current].at = "processWritten" THEN torn \union {"wait"} ELSE torn
       ELSE UNCHANGED <<parent, torn>>
    /\ UNCHANGED <<call, children, records, repair, settled, task, resume, wake, lock, faults>>


\* resolveLostParentWaitCandidate: the child that ended last, of any wait.
LostWait == process.status = "blocked" /\ CurrentThread \in Waiting /\ job = "active" /\ latest # 0

RecoverLostWait ==
    /\ Step("waits", "waking") /\ LostWait
    /\ wake' = [wake EXCEPT ![0] = [at |-> "read", on |-> Current, by |-> latest, kids |-> process.kids]]
    /\ UNCHANGED <<parent, call, children, records, repair, settled, task, resume, lock, faults, torn>>

WaitsDone ==
    /\ \/ Step("waits", "collect") /\ ~LostWait
       \/ Step("waking", "collect") /\ wake[0].at = "none"
    /\ UNCHANGED <<parent, call, children, records, repair, settled, task, resume, wake, lock, faults, torn>>

\* resolveImmediateDelegationContext
Context == process.status = "blocked" /\ CurrentThread = "waitingChild"

\* collectReadyWorkCandidates and the submissions to the executor, which
\* defers a candidate whose key is active.
Dispatch ==
    /\ Step("collect", "stale")
    /\ LET kind == IF Context THEN "delegation" ELSE "job"
           on == IF Context THEN Current ELSE 0
       IN task' = [t \in Calls \X Kinds |->
              IF child[t[1]] = "ready" /\ t[2] = kind /\ task[t].at = "none"
              THEN [at |-> "queued", on |-> on] ELSE task[t]]
    /\ resume' = [t \in Threads |->
          IF process.status = "ready" /\ t = Current /\ thread[t] = "ready" /\ job = "active" /\ resume[t].at = "none"
          THEN [NoResume EXCEPT !.at = "queued", !.by = process.kids[Len(process.kids)]] ELSE resume[t]]
    /\ repair' = (repair \/ settled) /\ settled' = FALSE    \* takeSettledResults
    /\ UNCHANGED <<parent, call, children, records, wake, lock, faults, torn>>

\* isJobActive of the executor
ChildActive(k) == \E d \in Kinds : task[<<k, d>>].at # "none"
ParentActive == \E t \in Threads : resume[t].at # "none"

RequeueStaleChild(k) ==
    /\ tick = "stale" /\ run[k] = "running" /\ child[k] = "active" /\ ~ChildActive(k)
    /\ run' = [run EXCEPT ![k] = "ended"] /\ child' = [child EXCEPT ![k] = "ready"]
    /\ latest' = Latest(k)
    /\ repair' = TRUE
    /\ UNCHANGED <<parent, call, linked, records, tick, settled, task, resume, wake, lock, faults, torn>>

\* recoverStaleRunningInvocations
FailStaleChild(k) ==
    /\ tick = "stale" /\ run[k] = "running" /\ child[k] = "active" /\ ~ChildActive(k)
    /\ run' = [run EXCEPT ![k] = "ended"] /\ child' = [child EXCEPT ![k] = "ended"]
    /\ latest' = Latest(k)
    /\ repair' = TRUE
    /\ UNCHANGED <<parent, call, linked, records, tick, settled, task, resume, wake, lock, faults, torn>>

FailStaleParent ==
    /\ tick = "stale" /\ process.status = "running" /\ job = "active" /\ ~ParentActive
    /\ CurrentThread \in {"running"} \union Ended
    /\ thread' = [thread EXCEPT ![Current] = "failed"]
    /\ process' = [process EXCEPT !.status = "failed", !.current = 0]
    /\ job' = "failed" /\ repair' = TRUE
    /\ UNCHANGED <<call, children, records, tick, settled, task, resume, wake, lock, faults, torn>>

\* Evidence that recoverUnlinkedDelegatedChildResults and
\* recoverUnlinkedParentResumeResults find missing

\* hasChildResultRecoveryProvenance: the job was not ended with its process, or
\* the call has a submission record, which comes with its delegation.
Provenance(k) == child[k] = "active" \/ call[k] = "delegated"

UnlinkedChildren ==
    {k \in Calls : repair /\ run[k] = "ended" /\ linked[k] /\ ~ChildActive(k) /\ Provenance(k)}

\* hasParentResumeRecoveryProvenance: the job was not ended with its process, or
\* it is known, from an admission record or as failed by the recovery of stale
\* invocations, that the job was run by the OS.
UnlinkedResumes(known) ==
    {t \in Threads : /\ repair /\ process.status \in Ended /\ ~ParentActive /\ process.kids # <<>>
                     /\ job = "active" \/ known
                     /\ t # 1 /\ thread[t] \in Ended /\ ~resumeResult[t]}

LastChild == process.kids[Len(process.kids)]

RepairWith(kids, ends) ==
    /\ Step("stale", "calls")
    /\ child' = [k \in Calls |-> IF k \in kids THEN "ended" ELSE child[k]]
    /\ result' = [k \in Calls |-> result[k] \/ k \in kids \/ (ends # {} /\ k = LastChild)]
    /\ resumeResult' = [t \in Threads |-> resumeResult[t] \/ t \in ends]
    /\ repair' = FALSE
    /\ UNCHANGED <<process, thread, call, linked, run, latest, settled, task, resume, wake, lock, faults, torn>>

\* recoverTerminalJobStateFromProcess, for a parent that lacks a record, and
\* recoverUnlinkedForegroundCompletionResults, for one that a user runs, whose
\* admission is on record.
JobOfProcess(known) ==
    IF /\ job = "active"
       /\ \/ UnlinkedResumes(known) # {}
          \/ known /\ repair /\ process.status \in Ended /\ ~ParentActive
    THEN process.status ELSE job

\* Faulty: a child is given its result only if its job has ended too.
RepairFinished ==
    \E known \in BOOLEAN :
        /\ RepairWith({k \in UnlinkedChildren : child[k] = "ended"}, UnlinkedResumes(known))
        /\ job' = JobOfProcess(known)


\* The job follows its ended process, a missing record is written.  What is
\* known of a job whose end was written is left open.
Repair ==
    \E known \in BOOLEAN :
        /\ RepairWith(UnlinkedChildren, UnlinkedResumes(known))
        /\ job' = JobOfProcess(known)

-------------------------------------------------------------------------------
(* runDelegatedJobNow and runJobNow for a child job.                       *)

ChildUnchanged == UNCHANGED <<parent, call, resumeResult, kernel, resume, lock, faults, torn>>

At(k, d, from, to) == task[<<k, d>>].at = from /\ task' = [task EXCEPT ![<<k, d>>].at = to]

\* A child is queued once while it is ready, so no claim of one is refused
\* here (JobClaims has the claimers outside of the kernel).
Claim(k, d) ==
    /\ child[k] = "ready" /\ At(k, d, "queued", "claimed")
    /\ child' = [child EXCEPT ![k] = "active"]
    /\ ChildUnchanged /\ UNCHANGED <<linked, run, latest, result, wake>>

\* Process and thread of the execution
Start(k, d) ==
    /\ At(k, d, "claimed", "running")
    /\ run' = [run EXCEPT ![k] = "running"]
    /\ linked' = [linked EXCEPT ![k] = d = "delegation"]
    /\ ChildUnchanged /\ UNCHANGED <<child, latest, result, wake>>

EndProcess(k, d) ==
    /\ At(k, d, "running", "ended")
    /\ run' = [run EXCEPT ![k] = "ended"]
    /\ latest' = Latest(k)
    /\ ChildUnchanged /\ UNCHANGED <<child, linked, result, wake>>

EndJob(k, d) ==
    /\ At(k, d, "ended", IF d = "delegation" THEN "finished" ELSE "none")
    /\ child' = [child EXCEPT ![k] = "ended"]
    /\ ChildUnchanged /\ UNCHANGED <<linked, run, latest, result, wake>>

RecordResult(k) ==
    /\ At(k, "delegation", "finished", "recorded")
    /\ result' = Recorded(k)
    /\ ChildUnchanged /\ UNCHANGED <<children, wake>>

\* notifyDelegatedChildCompletion up to the guards of applyChildCompletionSignal
Applicable(k) ==
    LET t == task[<<k, "delegation">>].on
    IN process.status = "blocked" /\ t = Current /\ thread[t] = "waitingChild" /\ run[k] = "ended"

Notify(k) ==
    /\ Applicable(k) /\ At(k, "delegation", "recorded", "notifying")
    /\ wake' = [wake EXCEPT ![k] = [at |-> "read", on |-> Current, by |-> k, kids |-> process.kids]]
    /\ ChildUnchanged /\ UNCHANGED <<children, result>>

NotifyIgnored(k) ==
    /\ ~Applicable(k) /\ At(k, "delegation", "recorded", "none")
    /\ ChildUnchanged /\ UNCHANGED <<children, result, wake>>

-------------------------------------------------------------------------------
(* The three writes that hand an ended child to the parent, of the signal  *)
(* and of the recovery.                                                    *)

WakeUnchanged == UNCHANGED <<job, call, children, records, kernel, resume, lock, faults, torn>>

CompleteWait(w) ==
    /\ wake[w].at = "read"
    /\ thread' = [thread EXCEPT ![wake[w].on] = "completed"]
    /\ wake' = [wake EXCEPT ![w].at = "completed"]
    /\ UNCHANGED <<process, task>> /\ WakeUnchanged

CreateContinuation(w) ==
    /\ wake[w].at = "completed"
    /\ \E t \in Spare :
          /\ \A s \in Spare : t <= s
          /\ thread' = [thread EXCEPT ![t] = "ready"]
          /\ wake' = [wake EXCEPT ![w].at = "created", ![w].on = t]
    /\ UNCHANGED <<process, task>> /\ WakeUnchanged

ReadyParent(w) ==
    /\ wake[w].at = "created"
    /\ process' = [status |-> "ready", current |-> wake[w].on, kids |-> With(wake[w].kids, wake[w].by)]
    /\ wake' = [wake EXCEPT ![w] = NoWake]
    /\ task' = IF w = 0 THEN task ELSE [task EXCEPT ![<<w, "delegation">>] = NoTask]
    /\ UNCHANGED thread /\ WakeUnchanged

-------------------------------------------------------------------------------
(* resumeParentAfterDelegatedChild.                                        *)

ResumeUnchanged == UNCHANGED <<children, tick, repair, task, wake, faults, torn>>

Goes(t, from, to) == resume[t].at = from /\ resume' = [resume EXCEPT ![t].at = to]

BeginResumeUnlocked(t) ==
    /\ resume[t].at = "queued"
    /\ process.status = "ready" /\ thread[t] = "ready"
    /\ resume' = [resume EXCEPT ![t].at = "read", ![t].kids = process.kids]
    /\ lock' = t
    /\ UNCHANGED <<parent, call, records, settled>> /\ ResumeUnchanged

BeginResume(t) ==
    /\ LockFree /\ resume[t].at = "queued"
    /\ process.status = "ready" /\ thread[t] = "ready"
    /\ resume' = [resume EXCEPT ![t].at = "read", ![t].kids = process.kids]
    /\ lock' = t
    /\ UNCHANGED <<parent, call, records, settled>> /\ ResumeUnchanged

ResumeRefused(t) ==
    /\ LockFree /\ ~(process.status = "ready" /\ thread[t] = "ready")
    /\ Goes(t, "queued", "none")
    /\ settled' = TRUE
    /\ UNCHANGED <<parent, call, records, lock>> /\ ResumeUnchanged

RunThreadUnrecorded(t) ==
    /\ Goes(t, "read", "thread")
    /\ thread' = [thread EXCEPT ![t] = "running"]
    /\ UNCHANGED <<process, job, call, records, settled, lock>> /\ ResumeUnchanged

RunThread(t) ==
    /\ Goes(t, "read", "thread")
    /\ result' = Recorded(resume[t].by)
    /\ thread' = [thread EXCEPT ![t] = "running"]
    /\ UNCHANGED <<process, job, call, resumeResult, settled, lock>> /\ ResumeUnchanged

RunProcess(t) ==
    /\ Goes(t, "thread", "invoked")
    /\ process' = [status |-> "running", current |-> t, kids |-> resume[t].kids]
    /\ UNCHANGED <<thread, job, call, records, settled, lock>> /\ ResumeUnchanged

\* The invocation ends: with one more delegation call, blocked on a resource,
\* or for good.
Answer(t) ==
    /\ resume[t].at = "invoked"
    /\ \/ \E k \in Calls \ Asked :
             /\ \A j \in Calls \ Asked : k <= j
             /\ call' = [call EXCEPT ![k] = "pending"]
             /\ resume' = [resume EXCEPT ![t].at = "answered", ![t].answer = "waitingCall"]
       \/ \E s \in Ended \union {"waitingResource"} :
             /\ resume' = [resume EXCEPT ![t].at = "answered", ![t].answer = s]
             /\ UNCHANGED call
    /\ UNCHANGED <<parent, records, settled, lock>> /\ ResumeUnchanged

\* mapParentResumeStatus and the writes at the end of the resumption
FinishThread(t) ==
    /\ Goes(t, "answered", "threadWritten")
    /\ thread' = [thread EXCEPT ![t] = resume[t].answer]
    /\ UNCHANGED <<process, job, call, records, settled, lock>> /\ ResumeUnchanged

FinishProcessParked(t) ==
    /\ Goes(t, "threadWritten", "processWritten")
    /\ process' = IF resume[t].answer \in Parking
                  THEN [status |-> resume[t].answer, current |-> t, kids |-> resume[t].kids]
                  ELSE [status |-> resume[t].answer, current |-> 0, kids |-> resume[t].kids]
    /\ UNCHANGED <<thread, job, call, records, settled, lock>> /\ ResumeUnchanged

FinishProcess(t) ==
    /\ Goes(t, "threadWritten", "processWritten")
    /\ process' = IF resume[t].answer \in Parking
                  THEN [status |-> "blocked", current |-> t, kids |-> resume[t].kids]
                  ELSE [status |-> resume[t].answer, current |-> 0, kids |-> resume[t].kids]
    /\ UNCHANGED <<thread, job, call, records, settled, lock>> /\ ResumeUnchanged

FinishJob(t) ==
    /\ Goes(t, "processWritten", "jobWritten")
    /\ job' = IF resume[t].answer \in Parking THEN "active" ELSE resume[t].answer
    /\ UNCHANGED <<process, thread, call, records, settled, lock>> /\ ResumeUnchanged

RecordResume(t) ==
    /\ resume[t].at = "jobWritten"
    /\ resume' = [resume EXCEPT ![t] = NoResume]
    /\ resumeResult' = ResumeRecorded(t)
    /\ lock' = 0
    /\ UNCHANGED <<parent, call, result, settled>> /\ ResumeUnchanged

-------------------------------------------------------------------------------
(* Faults.  A hand-over that stops between two of its writes is torn.      *)

HalfChild(k, d) == task[<<k, d>>].at = "claimed"
HalfWake(w) == wake[w].at \in {"completed", "created"}
HalfResume(t) ==
    \/ resume[t].at = "thread"
    \/ resume[t].at = "threadWritten" /\ resume[t].answer \in Parking
    \/ resume[t].at = "processWritten" /\ resume[t].answer \in Parking /\ job # "active"

Tear(half) == IF half THEN torn \union {"handOver"} ELSE torn

FaultUnchanged == faults < MaxFaults /\ faults' = faults + 1 /\ UNCHANGED <<parent, call, children, records>>

Crash ==
    /\ FaultUnchanged
    /\ torn' = Tear(\/ \E k \in Calls, d \in Kinds : HalfChild(k, d)
                    \/ \E w \in Wakers : HalfWake(w) \/ \E t \in Threads : HalfResume(t))
    /\ task' = [t \in Calls \X Kinds |-> NoTask] /\ resume' = [t \in Threads |-> NoResume]
    /\ wake' = [w \in Wakers |-> NoWake] /\ lock' = 0
    /\ tick' = "calls" /\ repair' = TRUE /\ settled' = FALSE

ChildFails(k, d) ==
    /\ FaultUnchanged /\ task[<<k, d>>].at \notin {"none", "queued"}
    /\ torn' = Tear(HalfChild(k, d) \/ (d = "delegation" /\ HalfWake(k)))
    /\ task' = [task EXCEPT ![<<k, d>>] = NoTask]
    /\ wake' = IF d = "delegation" THEN [wake EXCEPT ![k] = NoWake] ELSE wake
    /\ settled' = TRUE
    /\ UNCHANGED <<tick, repair, resume, lock>>

ResumeFails(t) ==
    /\ FaultUnchanged /\ lock = t
    /\ torn' = Tear(HalfResume(t))
    /\ resume' = [resume EXCEPT ![t] = NoResume] /\ lock' = 0
    /\ settled' = TRUE
    /\ UNCHANGED <<tick, repair, task, wake>>

-------------------------------------------------------------------------------

Init ==
    /\ process = [status |-> "blocked", current |-> 1, kids |-> <<>>]
    /\ thread = [t \in Threads |-> IF t = 1 THEN "waitingCall" ELSE "none"]
    /\ job = "active"
    /\ call = [k \in Calls |-> IF k = 1 THEN "pending" ELSE "none"]
    /\ child = [k \in Calls |-> "none"] /\ linked = [k \in Calls |-> FALSE]
    /\ run = [k \in Calls |-> "none"] /\ latest = 0
    /\ result = [k \in Calls |-> FALSE] /\ resumeResult = [t \in Threads |-> FALSE]
    /\ tick = "calls" /\ repair = TRUE /\ settled = FALSE
    /\ task = [t \in Calls \X Kinds |-> NoTask] /\ resume = [t \in Threads |-> NoResume]
    /\ wake = [w \in Wakers |-> NoWake] /\ lock = 0
    /\ faults = 0 /\ torn = {}

TickStep ==
    \/ \E k \in Calls : Delegate(k) \/ RefuseCall(k)
    \/ ReconcileCaller \/ ReconcileResource \/ RecoverLostWait \/ WaitsDone \/ Dispatch \/ Repair

ChildStep(k) ==
    \/ \E d \in Kinds : \/ Claim(k, d) \/ Start(k, d)
                        \/ EndProcess(k, d) \/ EndJob(k, d)
    \/ RecordResult(k) \/ Notify(k) \/ NotifyIgnored(k)

WakeStep(w) == CompleteWait(w) \/ CreateContinuation(w) \/ ReadyParent(w)

ResumeStep(t) ==
    \/ BeginResume(t) \/ ResumeRefused(t) \/ RunThread(t) \/ RunProcess(t) \/ Answer(t)
    \/ FinishThread(t) \/ FinishProcess(t) \/ FinishJob(t) \/ RecordResume(t)

Fault == Crash \/ (\E k \in Calls, d \in Kinds : ChildFails(k, d)) \/ \E t \in Threads : ResumeFails(t)

Stale == FailStaleParent \/ \E k \in Calls : FailStaleChild(k)

TaskStep ==
    \/ \E k \in Calls : ChildStep(k)
    \/ \E w \in Wakers : WakeStep(w)
    \/ \E t \in Threads : ResumeStep(t)

Next == TickStep \/ Stale \/ TaskStep \/ Fault

\* The watch loop ticks on, the event loop runs some task on while one can
\* go on, and an invocation without a task is stale once it has aged.
Fairness == WF_vars(TickStep) /\ WF_vars(TaskStep) /\ SF_vars(Stale)

Spec == Init /\ [][Next]_vars /\ Fairness

-------------------------------------------------------------------------------
(* Properties.                                                             *)

\* Type invariant.
TypeOK ==
    /\ process \in Processes
    /\ thread \in [Threads -> {"none", "ready", "running"} \union Waits \union Ended]
    /\ job \in {"active"} \union Ended
    /\ call \in [Calls -> {"none", "pending", "delegated", "refused"}]
    /\ child \in [Calls -> {"none", "ready", "active", "ended"}]
    /\ run \in [Calls -> {"none", "running", "ended"}]
    /\ linked \in [Calls -> BOOLEAN] /\ result \in [Calls -> BOOLEAN]
    /\ resumeResult \in [Threads -> BOOLEAN] /\ latest \in Calls \union {0}
    /\ tick \in {"calls", "resources", "waits", "waking", "collect", "stale"}
    /\ task \in [Calls \X Kinds -> Tasks]
    /\ resume \in [Threads -> Resumes]
    /\ wake \in [Wakers -> Wakes]
    /\ lock \in Threads \union {0}
    /\ repair \in BOOLEAN /\ settled \in BOOLEAN /\ torn \in SUBSET Tears
    /\ faults \in 0..MaxFaults

\* Two resumptions of one parent, of a signal and of the recovery that both
\* answered the same wait, never have their invocations at the same time.
ParentRunsAlone ==
    \A s, t \in Threads :
        resume[s].at \in {"invoked", "answered"} /\ resume[t].at \in {"invoked", "answered"} => s = t

\* The invocation of a resumed parent is given a child that has ended and
\* whose result record exists.
ResumedOnEvidence ==
    \A t \in Threads :
        resume[t].at = "invoked" => run[resume[t].by] = "ended" /\ result[resume[t].by]

\* A child job is executed once, whatever candidates the ticks collect while
\* its execution is queued, running, abandoned or ended.
ChildRunsOnce == [][\A k \in Calls : run'[k] # run[k] /\ run'[k] = "running" => run[k] = "none"]_vars


\* Every child that was run for a parent and ended gets its result record,
\* whatever died in between.
EvidenceIsKept == \A k \in Calls : linked[k] /\ run[k] = "ended" ~> result[k]


\* A wait ends with the child it waits for.
WokenByOwnChild ==
    [][process.status = "blocked" /\ process'.status = "ready"
          => \E k \in Asked : run[k] = "ended" /\ \A j \in Asked : j <= k]_vars

-------------------------------------------------------------------------------
(* Delegation as a fork and a join, with the steps of ForkJoin.            *)

ChildLife == [k \in Calls |-> IF run[k] # "none" THEN run[k] ELSE IF child[k] = "none" THEN "none" ELSE "forked"]

LifeOf(status) == CASE status = "ready" -> "created"
                    [] status \in Waits -> "parked"
                    [] status \in Ended -> "over"
                    [] OTHER -> status

ThreadLife == [t \in Threads |-> LifeOf(thread[t])]

Resuming == {t \in Threads : resume[t].at \notin {"none", "queued"}}

Joining == INSTANCE ForkJoin
    WITH Children <- Calls, First <- 1, child <- ChildLife, life <- ThreadLife, inside <- Resuming

\* Ticks, tasks, signals, recovery and faults implement the fork and the join:
\* each child and each continuation is run once, and a parent goes on only
\* when a child of it has ended.
ForksAndJoins == Joining!Spec
===============================================================================
