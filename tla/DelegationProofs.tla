---------------------------- MODULE DelegationProofs ---------------------------
(***************************************************************************)
(* Proofs about Delegation, for every number of calls, threads and faults. *)
(***************************************************************************)
EXTENDS Delegation, SequenceTheorems, TLAPS

\* The invocation of a resumption has ended.
Answering == {"answered", "threadWritten", "processWritten", "jobWritten"}

\* A hand-over names a child, and a parent that is ready has one to resume
\* with, and an invocation that ended has an answer.
HandsOver ==
    /\ \A w \in Wakers : wake[w].at # "none" => wake[w].by \in Calls
    /\ process.status = "ready" => process.kids # <<>>
    /\ \A t \in Threads : resume[t].at \in Answering => resume[t].answer # "none"

TypeInv == TypeOK /\ HandsOver

LEMMA EmptyLocals == NoTask \in Tasks /\ NoResume \in Resumes /\ NoWake \in Wakes
BY EmptySeq DEF NoTask, NoResume, NoWake, Tasks, Resumes, Wakes

\* A child that is added to the children of a process is one of them.
LEMMA WithChild ==
    ASSUME NEW kids \in Seq(Calls), NEW k \in Calls
    PROVE  With(kids, k) \in Seq(Calls) /\ With(kids, k) # <<>>
<1>1. Append(kids, k) \in Seq(Calls) /\ Append(kids, k) # <<>>
  OBVIOUS
<1>2. DOMAIN <<>> = {}
  OBVIOUS
<1> QED
  BY <1>1, <1>2 DEF With

LEMMA LastIsChild ==
    ASSUME NEW kids \in Seq(Calls), kids # <<>>
    PROVE  kids[Len(kids)] \in Calls
<1>1. Len(kids) \in Nat \ {0}
  BY EmptySeq
<1> QED
  BY <1>1, ElementOfSeq

\* A task, a resumption and a hand-over that move on keep their type.
LEMMA TaskMoves ==
    ASSUME task \in [Calls \X Kinds -> Tasks], NEW k \in Calls, NEW d \in Kinds, NEW from,
           NEW to \in {"none", "queued", "claimed", "running", "ended", "finished", "recorded", "notifying"},
           At(k, d, from, to)
    PROVE  task' \in [Calls \X Kinds -> Tasks]
<1>1. <<k, d>> \in Calls \X Kinds
  OBVIOUS
<1>2. [task[<<k, d>>] EXCEPT !.at = to] \in Tasks
  BY <1>1 DEF Tasks
<1>3. task' = [task EXCEPT ![<<k, d>>] = [task[<<k, d>>] EXCEPT !.at = to]]
  BY DEF At
<1> QED
  BY <1>1, <1>2, <1>3

LEMMA ResumeMoves ==
    ASSUME resume \in [Threads -> Resumes], NEW t \in Threads, NEW from,
           NEW to \in {"none", "queued", "read", "thread", "invoked", "answered", "threadWritten", "processWritten",
                       "jobWritten"},
           Goes(t, from, to)
    PROVE  resume' \in [Threads -> Resumes]
BY DEF Goes, Resumes

LEMMA TypeInit == Init => TypeInv
<1> SUFFICES ASSUME Init PROVE TypeInv
  OBVIOUS
<1>1. /\ task \in [Calls \X Kinds -> Tasks] /\ resume \in [Threads -> Resumes] /\ wake \in [Wakers -> Wakes]
  BY EmptyLocals DEF Init
<1>2. process \in Processes
  <2>1. 1 \in Threads
    BY BoundsAssumption DEF Threads
  <2> QED
    BY <2>1, EmptySeq DEF Init, Processes
<1>3. lock \in Threads \union {0} /\ latest \in Calls \union {0} /\ faults \in 0..MaxFaults
  BY BoundsAssumption DEF Init
<1>4. TypeOK
  BY <1>1, <1>2, <1>3 DEF Init, TypeOK, Waits, Waiting, Ended
<1>5. HandsOver
  BY DEF Init, HandsOver, NoWake, NoResume, Answering
<1> QED
  BY <1>4, <1>5 DEF TypeInv

\* What a step leaves alone keeps its type.
LEMMA TypeStep == TypeInv /\ [Next]_vars => TypeInv'
<1> SUFFICES ASSUME TypeInv, [Next]_vars PROVE TypeInv'
  OBVIOUS
<1>t. TypeOK /\ HandsOver
  BY DEF TypeInv
<1>f. /\ process \in Processes /\ wake \in [Wakers -> Wakes] /\ resume \in [Threads -> Resumes]
      /\ task \in [Calls \X Kinds -> Tasks] /\ latest \in Calls \union {0} /\ Current \in Threads \union {0}
      /\ process.kids \in Seq(Calls)
  BY <1>t DEF TypeOK, Processes, Current
<1> DEFINE Parent == /\ process \in Processes
                     /\ thread \in [Threads -> {"none", "ready", "running"} \union Waits \union Ended]
                     /\ job \in {"active"} \union Ended
                     /\ process.status = "ready" => process.kids # <<>>
           Kids == /\ call \in [Calls -> {"none", "pending", "delegated", "refused"}]
                   /\ child \in [Calls -> {"none", "ready", "active", "ended"}]
                   /\ run \in [Calls -> {"none", "running", "ended"}]
                   /\ linked \in [Calls -> BOOLEAN] /\ latest \in Calls \union {0}
           Rest == /\ result \in [Calls -> BOOLEAN] /\ resumeResult \in [Threads -> BOOLEAN]
                   /\ tick \in {"calls", "resources", "waits", "waking", "collect", "stale"}
                   /\ repair \in BOOLEAN /\ settled \in BOOLEAN /\ torn \in SUBSET Tears
                   /\ faults \in 0..MaxFaults /\ lock \in Threads \union {0}
           Work == /\ task \in [Calls \X Kinds -> Tasks] /\ resume \in [Threads -> Resumes]
                   /\ \A t \in Threads : resume[t].at \in Answering => resume[t].answer # "none"
           Hand == /\ wake \in [Wakers -> Wakes]
                   /\ \A w \in Wakers : wake[w].at # "none" => wake[w].by \in Calls
<1>p. Parent /\ Kids /\ Rest /\ Work /\ Hand
  BY <1>t DEF TypeOK, HandsOver
<1>q. Parent' /\ Kids' /\ Rest' /\ Work' /\ Hand' => TypeInv'
  BY DEF TypeInv, TypeOK, HandsOver
<1>u. /\ UNCHANGED parent => Parent'
      /\ UNCHANGED <<call, child, run, linked, latest>> => Kids'
      /\ UNCHANGED <<task, resume>> => Work'
      /\ UNCHANGED wake => Hand'
  BY <1>p DEF parent
<1>r. UNCHANGED <<records, tick, repair, settled, torn, faults, lock>> => Rest'
  BY <1>p DEF records
<1>l. \A k \in Calls : Latest(k) \in Calls \union {0}
  BY <1>f DEF Latest
<1>1. ASSUME NEW k \in Calls, Delegate(k) \/ RefuseCall(k) PROVE TypeInv'
  <2>1. Parent'
    BY <1>1, <1>p, <1>f, <1>u DEF Delegate, RefuseCall, Processes, Waits, Waiting, Ended
  <2>2. Kids'
    BY <1>1, <1>p DEF Delegate, RefuseCall, children
  <2>3. Rest' /\ Work' /\ Hand'
    BY <1>1, <1>r, <1>u DEF Delegate, RefuseCall, kernel
  <2> QED
    BY <2>1, <2>2, <2>3, <1>q
<1>2. CASE ReconcileCaller \/ ReconcileResource
  <2>1. Parent'
    <3>1. [process EXCEPT !.status = "failed", !.current = 0] \in Processes
      BY <1>f DEF Processes, Ended
    <3>2. CASE UNCHANGED parent
      BY <3>2, <1>u
    <3>3. CASE /\ thread' = [thread EXCEPT ![Current] = "failed"]
               /\ process' = [process EXCEPT !.status = "failed", !.current = 0]
               /\ job' = "failed"
      BY <3>1, <3>3, <1>p, <1>f DEF Processes, Ended
    <3> QED
      BY <1>2, <3>2, <3>3 DEF ReconcileCaller, ReconcileResource
  <2>2. Rest'
    <3>1. torn' = torn \/ torn' = torn \union {"wait"}
      BY <1>2 DEF ReconcileCaller, ReconcileResource
    <3>2. torn' \in SUBSET Tears
      BY <3>1, <1>p DEF Tears
    <3> QED
      BY <1>2, <1>p, <3>2 DEF ReconcileCaller, ReconcileResource, Step, records
  <2> QED
    BY <1>2, <2>1, <2>2, <1>q, <1>u DEF ReconcileCaller, ReconcileResource, children
<1>3. CASE RecoverLostWait
  <2> DEFINE h == [at |-> "read", on |-> Current, by |-> latest, kids |-> process.kids]
  <2>1. wake' = [wake EXCEPT ![0] = h] /\ latest \in Calls
    BY <1>3, <1>f DEF RecoverLostWait, LostWait
  <2>2. h \in Wakes
    BY <1>f DEF Wakes
  <2>3. Hand'
    BY <1>p, <2>1, <2>2 DEF Wakers
  <2>4. Rest'
    BY <1>3, <1>p DEF RecoverLostWait, Step, records
  <2> QED
    BY <1>3, <2>3, <2>4, <1>q, <1>u DEF RecoverLostWait, children
<1>4. CASE WaitsDone
  <2>1. Rest'
    BY <1>4, <1>p DEF WaitsDone, Step, records
  <2> QED
    BY <1>4, <2>1, <1>q, <1>u DEF WaitsDone, children
<1>5. CASE Dispatch
  <2>1. Rest'
    BY <1>5, <1>p DEF Dispatch, Step, records
  <2>2. task' \in [Calls \X Kinds -> Tasks]
    <3>1. \A on \in {Current, 0} : [at |-> "queued", on |-> on] \in Tasks
      BY <1>f DEF Tasks
    <3>2. (IF Context THEN Current ELSE 0) \in {Current, 0}
      OBVIOUS
    <3> QED
      BY <1>5, <1>f, <3>1, <3>2 DEF Dispatch
  <2>3. resume' \in [Threads -> Resumes]
    <3>1. process.status = "ready" =>
             [NoResume EXCEPT !.at = "queued", !.by = process.kids[Len(process.kids)]] \in Resumes
      BY <1>f, <1>p, LastIsChild, EmptySeq DEF NoResume, Resumes
    <3> QED
      BY <1>5, <1>f, <3>1 DEF Dispatch
  <2>4. \A t \in Threads : resume'[t].at \in Answering => resume'[t].answer # "none"
    BY <1>5, <1>p DEF Dispatch, NoResume, Answering
  <2> QED
    BY <1>5, <2>1, <2>2, <2>3, <2>4, <1>q, <1>u DEF Dispatch, children
<1>6. CASE Repair
  <2>1. Parent'
    BY <1>6, <1>p, <1>t DEF Repair, RepairWith, JobOfProcess, UnlinkedResumes, TypeOK, Processes
  <2>2. Kids'
    BY <1>6, <1>p DEF Repair, RepairWith
  <2>3. Rest'
    BY <1>6, <1>p DEF Repair, RepairWith, Step
  <2> QED
    BY <1>6, <2>1, <2>2, <2>3, <1>q, <1>u DEF Repair, RepairWith
<1>7. CASE Stale
  <2>1. CASE FailStaleParent
    <3>1. Parent'
      BY <2>1, <1>p, <1>f DEF FailStaleParent, Processes, Ended
    <3>2. Rest'
      BY <2>1, <1>p DEF FailStaleParent, records
    <3> QED
      BY <2>1, <3>1, <3>2, <1>q, <1>u DEF FailStaleParent, children
  <2>2. ASSUME NEW k \in Calls, FailStaleChild(k) PROVE TypeInv'
    <3>1. Kids'
      BY <2>2, <1>p, <1>l DEF FailStaleChild
    <3>2. Rest'
      BY <2>2, <1>p DEF FailStaleChild, records
    <3> QED
      BY <2>2, <3>1, <3>2, <1>q, <1>u DEF FailStaleChild
  <2> QED
    BY <1>7, <2>1, <2>2 DEF Stale
<1>8. ASSUME NEW k \in Calls, ChildStep(k) PROVE TypeInv'
  <2>a. ASSUME NEW d \in Kinds, NEW from,
               NEW to \in {"none", "queued", "claimed", "running", "ended", "finished", "recorded", "notifying"},
               At(k, d, from, to), UNCHANGED resume
        PROVE  Work'
    BY <2>a, <1>f, <1>p, TaskMoves
  <2>k. "delegation" \in Kinds
    BY DEF Kinds
  <2>1. Work'
    BY <1>8, <2>a, <2>k DEF ChildStep, Claim, Start, EndProcess, EndJob, RecordResult, Notify,
                            NotifyIgnored, ChildUnchanged
  <2>2. Parent'
    BY <1>8, <1>u DEF ChildStep, Claim, Start, EndProcess, EndJob, RecordResult, Notify,
                      NotifyIgnored, ChildUnchanged
  <2>3. Kids'
    BY <1>8, <1>p, <1>l DEF ChildStep, Claim, Start, EndProcess, EndJob, RecordResult, Notify,
                      NotifyIgnored, ChildUnchanged, children
  <2>4. Rest'
    BY <1>8, <1>p DEF ChildStep, Claim, Start, EndProcess, EndJob, RecordResult, Recorded, Notify,
                      NotifyIgnored, ChildUnchanged, children, kernel
  <2>5. Hand'
    <3>1. [at |-> "read", on |-> Current, by |-> k, kids |-> process.kids] \in Wakes
      BY <1>f DEF Wakes
    <3>2. UNCHANGED wake \/ wake' = [wake EXCEPT ![k] = [at |-> "read", on |-> Current, by |-> k, kids |-> process.kids]]
      BY <1>8 DEF ChildStep, Claim, Start, EndProcess, EndJob, RecordResult, Notify, NotifyIgnored
    <3> QED
      BY <1>p, <3>1, <3>2
  <2> QED
    BY <1>q, <2>1, <2>2, <2>3, <2>4, <2>5
<1>9. ASSUME NEW w \in Wakers, WakeStep(w) PROVE TypeInv'
  <2>1. Kids' /\ Rest'
    BY <1>9, <1>u, <1>r DEF WakeStep, CompleteWait, CreateContinuation, ReadyParent, WakeUnchanged, children, kernel
  <2>2. Work'
    <3>1. task' \in [Calls \X Kinds -> Tasks]
      BY <1>9, <1>f, EmptyLocals DEF WakeStep, CompleteWait, CreateContinuation, ReadyParent, WakeUnchanged
    <3> QED
      BY <1>9, <1>p, <3>1 DEF WakeStep, CompleteWait, CreateContinuation, ReadyParent, WakeUnchanged
  <2>3. CASE CompleteWait(w)
    <3>1. Parent'
      BY <2>3, <1>p DEF CompleteWait, WakeUnchanged, Ended
    <3>2. Hand'
      BY <2>3, <1>p DEF CompleteWait, Wakes
    <3> QED
      BY <1>q, <2>1, <2>2, <3>1, <3>2
  <2>4. CASE CreateContinuation(w)
    <3>1. PICK t \in Threads : /\ thread' = [thread EXCEPT ![t] = "ready"]
                               /\ wake' = [wake EXCEPT ![w].at = "created", ![w].on = t]
      BY <2>4 DEF CreateContinuation, Spare
    <3>2. Parent'
      BY <2>4, <3>1, <1>p DEF CreateContinuation, WakeUnchanged
    <3>3. [wake[w] EXCEPT !.at = "created", !.on = t] \in Wakes
      BY <1>p DEF Wakes
    <3>b. wake[w].by \in Calls
      BY <2>4, <1>p DEF CreateContinuation
    <3>4. wake' = [wake EXCEPT ![w] = [wake[w] EXCEPT !.at = "created", !.on = t]]
      BY <3>1, <1>p
    <3>5. Hand'
      BY <3>3, <3>b, <3>4, <1>p DEF Wakes
    <3> QED
      BY <1>q, <2>1, <2>2, <3>2, <3>5
  <2>5. CASE ReadyParent(w)
    <3>1. wake[w].by \in Calls /\ wake[w].kids \in Seq(Calls) /\ wake[w].on \in Threads \union {0}
      BY <2>5, <1>p DEF ReadyParent, Wakes
    <3>2. Parent'
      BY <2>5, <3>1, <1>p, WithChild DEF ReadyParent, WakeUnchanged, Processes
    <3>3. Hand'
      BY <2>5, <1>p, EmptyLocals DEF ReadyParent, NoWake
    <3> QED
      BY <1>q, <2>1, <2>2, <3>2, <3>3
  <2> QED
    BY <1>9, <2>3, <2>4, <2>5 DEF WakeStep
<1>10. ASSUME NEW t \in Threads, ResumeStep(t) PROVE TypeInv'
  <2>e. resume[t].kids \in Seq(Calls) /\ resume[t].by \in Calls \union {0}
        /\ resume[t].answer \in {"none"} \union Parking \union Ended
    BY <1>f DEF Resumes
  <2>1. Hand' /\ task' = task
    BY <1>10, <1>u DEF ResumeStep, BeginResume, ResumeRefused, RunThread, RunProcess, Answer, FinishThread,
                       FinishProcess, FinishJob, RecordResume, ResumeUnchanged
  <2>2. Kids'
    BY <1>10, <1>p DEF ResumeStep, BeginResume, ResumeRefused, RunThread, RunProcess, Answer, FinishThread,
                       FinishProcess, FinishJob, RecordResume, ResumeUnchanged, children
  <2>3. Rest'
    BY <1>10, <1>p DEF ResumeStep, BeginResume, ResumeRefused, RunThread, RunProcess, Answer, FinishThread,
                       FinishProcess, FinishJob, RecordResume, ResumeUnchanged, records, Recorded, ResumeRecorded
  <2>4. resume' \in [Threads -> Resumes]
    <3>1. CASE BeginResume(t)
      <4>1. [resume[t] EXCEPT !.at = "read", !.kids = process.kids] \in Resumes
        BY <1>f DEF Resumes
      <4>2. resume' = [resume EXCEPT ![t] = [resume[t] EXCEPT !.at = "read", !.kids = process.kids]]
        BY <3>1, <1>f DEF BeginResume
      <4> QED
        BY <1>f, <4>1, <4>2
    <3>2. CASE Answer(t)
      <4>1. PICK a \in Parking \union Ended : resume' = [resume EXCEPT ![t].at = "answered", ![t].answer = a]
        BY <3>2 DEF Answer, Parking
      <4>2. [resume[t] EXCEPT !.at = "answered", !.answer = a] \in Resumes
        BY <1>f, <4>1 DEF Resumes
      <4>3. resume' = [resume EXCEPT ![t] = [resume[t] EXCEPT !.at = "answered", !.answer = a]]
        BY <4>1, <1>f
      <4> QED
        BY <1>f, <4>2, <4>3
    <3>3. CASE RecordResume(t)
      BY <3>3, <1>f, EmptyLocals DEF RecordResume
    <3> QED
      BY <1>10, <1>f, <3>1, <3>2, <3>3, ResumeMoves
         DEF ResumeStep, ResumeRefused, RunThread, RunProcess, FinishThread, FinishProcess, FinishJob
  <2>6. \A s \in Threads : resume'[s].at \in Answering => resume'[s].answer # "none"
    <3>1. CASE Answer(t)
      <4>1. PICK a \in Parking \union Ended : resume' = [resume EXCEPT ![t].at = "answered", ![t].answer = a]
        BY <3>1 DEF Answer, Parking
      <4>2. \A s \in Threads : resume'[s].answer = IF s = t THEN a ELSE resume[s].answer
        BY <4>1, <1>f DEF Resumes
      <4>3. \A s \in Threads \ {t} : resume'[s] = resume[s]
        BY <4>1, <1>f
      <4> QED
        BY <4>2, <4>3, <1>p DEF Ended, Parking
    <3>2. CASE BeginResume(t) \/ RecordResume(t)
      <4>1. \A s \in Threads \ {t} : resume'[s] = resume[s]
        BY <3>2, <1>f DEF BeginResume, RecordResume
      <4>2. resume'[t].at \in {"read", "none"}
        BY <3>2, <1>f DEF BeginResume, RecordResume, Resumes, NoResume
      <4> QED
        BY <4>1, <4>2, <1>p DEF Answering
    <3>3. ASSUME NEW from, NEW to, Goes(t, from, to), to \in Answering => from \in Answering
          PROVE  \A s \in Threads : resume'[s].at \in Answering => resume'[s].answer # "none"
      BY <3>3, <1>f, <1>p DEF Goes, Resumes
    <3> QED
      BY <1>10, <3>1, <3>2, <3>3 DEF ResumeStep, ResumeRefused, RunThread, RunProcess, FinishThread,
                       FinishProcess, FinishJob, Answering
  <2>5. Parent'
    <3>1. CASE RunProcess(t)
      BY <3>1, <2>e, <1>p DEF RunProcess, Processes
    <3>2. CASE FinishProcess(t)
      <4>1. resume[t].answer \notin Parking => resume[t].answer \in Ended
        BY <3>2, <2>e, <1>p DEF FinishProcess, Goes, Answering
      <4>2. process' \in Processes /\ process'.status # "ready"
        BY <3>2, <4>1, <2>e DEF FinishProcess, Processes, Ended
      <4> QED
        BY <3>2, <4>2, <1>p DEF FinishProcess
    <3>3. CASE RunThread(t)
      BY <3>3, <1>p DEF RunThread
    <3>4. CASE FinishThread(t)
      <4>1. resume[t].answer \in Parking \union Ended
        BY <3>4, <2>e, <1>p DEF FinishThread, Goes, Answering
      <4> QED
        BY <3>4, <4>1, <1>p DEF FinishThread, Waits, Waiting, Parking
    <3>5. CASE FinishJob(t)
      <4>1. resume[t].answer \notin Parking => resume[t].answer \in Ended
        BY <3>5, <2>e, <1>p DEF FinishJob, Goes, Answering
      <4> QED
        BY <3>5, <4>1, <1>p DEF FinishJob
    <3> QED
      BY <1>10, <1>u, <3>1, <3>2, <3>3, <3>4, <3>5
         DEF ResumeStep, BeginResume, ResumeRefused, Answer, RecordResume
  <2> QED
    BY <1>q, <1>p, <2>1, <2>2, <2>3, <2>4, <2>5, <2>6
<1>11. CASE Fault
  <2>1. FaultUnchanged
    BY <1>11 DEF Fault, Crash, ChildFails, ResumeFails
  <2>2. Parent' /\ Kids'
    BY <2>1, <1>u DEF FaultUnchanged, children
  <2>3. /\ faults' \in 0..MaxFaults
        /\ result' \in [Calls -> BOOLEAN] /\ resumeResult' \in [Threads -> BOOLEAN]
    BY <2>1, <1>p, BoundsAssumption DEF FaultUnchanged, records
  <2>t. \A half \in BOOLEAN : Tear(half) \in SUBSET Tears
    BY <1>p DEF Tear, Tears
  <2>4. CASE Crash
    <3>1. Work' /\ Hand'
      BY <2>4, EmptyLocals DEF Crash, NoWake, NoResume, Answering
    <3>2. Rest'
      BY <2>4, <2>3, <2>t DEF Crash, HalfChild, HalfWake, HalfResume
    <3> QED
      BY <1>q, <2>2, <3>1, <3>2
  <2>5. ASSUME NEW k \in Calls, NEW d \in Kinds, ChildFails(k, d) PROVE TypeInv'
    <3>1. Work' /\ Hand'
      BY <2>5, <1>p, EmptyLocals DEF ChildFails, NoWake
    <3>2. Rest'
      BY <2>3, <2>5, <2>t, <1>p DEF ChildFails, HalfChild, HalfWake
    <3> QED
      BY <1>q, <2>2, <3>1, <3>2
  <2>6. ASSUME NEW t \in Threads, ResumeFails(t) PROVE TypeInv'
    <3>1. Work' /\ Hand'
      BY <2>6, <1>p, EmptyLocals DEF ResumeFails, NoResume, Answering
    <3>2. Rest'
      BY <2>3, <2>6, <2>t, <1>p DEF ResumeFails, HalfResume
    <3> QED
      BY <1>q, <2>2, <3>1, <3>2
  <2> QED
    BY <1>11, <2>4, <2>5, <2>6 DEF Fault
<1>12. CASE UNCHANGED vars
  BY <1>12, <1>q, <1>u, <1>r DEF vars, children, kernel
<1> QED
  BY <1>1, <1>2, <1>3, <1>4, <1>5, <1>6, <1>7, <1>8, <1>9, <1>10, <1>11, <1>12 DEF Next, TickStep, TaskStep

\* Every variable keeps its type.
THEOREM TypeCorrect == Spec => []TypeOK
<1>1. TypeInv => TypeOK
  BY DEF TypeInv
<1> QED
  BY <1>1, TypeInit, TypeStep, PTL DEF Spec
-------------------------------------------------------------------------------
(* The lock of a process: one resumption of the parent at a time.          *)

Inside == {"read", "thread", "invoked"} \union Answering

LockHeld == \A t \in Threads : resume[t].at \in Inside => lock = t

LEMMA LockStep == TypeOK /\ LockHeld /\ [Next]_vars => LockHeld'
<1> SUFFICES ASSUME TypeOK, LockHeld, [Next]_vars PROVE LockHeld'
  OBVIOUS
<1>t. resume \in [Threads -> Resumes] /\ 0 \notin Threads
  BY BoundsAssumption DEF TypeOK, Threads
<1>1. ASSUME UNCHANGED <<resume, lock>> PROVE LockHeld'
  BY <1>1 DEF LockHeld
<1>2. CASE TickStep
  <2>1. lock' = lock
    BY <1>2 DEF TickStep, Delegate, RefuseCall, ReconcileCaller, ReconcileResource,
                RecoverLostWait, WaitsDone, Dispatch, Repair, RepairWith
  <2>2. resume' = resume \/ Dispatch
    BY <1>2 DEF TickStep, Delegate, RefuseCall, ReconcileCaller, ReconcileResource,
                RecoverLostWait, WaitsDone, Repair, RepairWith
  <2>3. \A t \in Threads : resume'[t].at \in Inside => resume'[t] = resume[t]
    BY <2>2 DEF Dispatch, NoResume, Inside, Answering
  <2> QED
    BY <2>1, <2>3 DEF LockHeld
<1>3. ASSUME NEW t \in Threads, ResumeStep(t) PROVE LockHeld'
  <2>1. \A s \in Threads \ {t} : resume'[s] = resume[s]
    BY <1>3, <1>t DEF ResumeStep, BeginResume, ResumeRefused, RunThread, RunProcess, Answer, FinishThread,
                      FinishProcess, FinishJob, RecordResume, Goes
  <2>2. CASE BeginResume(t)
    BY <2>1, <2>2, <1>t DEF BeginResume, LockFree, LockHeld
  <2>3. CASE ResumeRefused(t) \/ RecordResume(t)
    <3>1. resume'[t].at = "none" /\ (lock' = lock \/ lock = t)
      BY <2>3, <1>t DEF ResumeRefused, RecordResume, Goes, NoResume, Resumes, LockHeld, Inside, Answering
    <3> QED
      BY <2>1, <3>1 DEF LockHeld, Inside, Answering
  <2>4. CASE RunThread(t) \/ RunProcess(t) \/ Answer(t) \/ FinishThread(t) \/ FinishProcess(t) \/ FinishJob(t)
    <3>1. resume[t].at \in Inside /\ lock' = lock
      BY <2>4 DEF RunThread, RunProcess, Answer, FinishThread, FinishProcess, FinishJob, Goes, Inside, Answering
    <3> QED
      BY <2>1, <3>1 DEF LockHeld
  <2> QED
    BY <1>3, <2>2, <2>3, <2>4 DEF ResumeStep
<1>4. CASE Fault
  <2>1. CASE Crash
    BY <2>1 DEF Crash, LockHeld, NoResume, Inside, Answering
  <2>2. ASSUME NEW k \in Calls, NEW d \in Kinds, ChildFails(k, d) PROVE LockHeld'
    BY <2>2, <1>1 DEF ChildFails
  <2>3. ASSUME NEW t \in Threads, ResumeFails(t) PROVE LockHeld'
    BY <2>3, <1>t DEF ResumeFails, LockHeld, NoResume, Inside, Answering
  <2> QED
    BY <1>4, <2>1, <2>2, <2>3 DEF Fault
<1>5. CASE Stale \/ UNCHANGED vars
  BY <1>5, <1>1 DEF Stale, FailStaleParent, FailStaleChild, vars
<1>6. ASSUME NEW k \in Calls, ChildStep(k) PROVE LockHeld'
  BY <1>6, <1>1 DEF ChildStep, Claim, Start, EndProcess, EndJob, RecordResult, Notify, NotifyIgnored,
                    ChildUnchanged
<1>7. ASSUME NEW w \in Wakers, WakeStep(w) PROVE LockHeld'
  BY <1>7, <1>1 DEF WakeStep, CompleteWait, CreateContinuation, ReadyParent, WakeUnchanged
<1> QED
  BY <1>2, <1>3, <1>4, <1>5, <1>6, <1>7 DEF Next, TaskStep

\* No two resumptions of the parent have their invocations at the same time.
THEOREM Alone == Spec => []ParentRunsAlone
<1>1. Init => LockHeld
  BY DEF Init, LockHeld, NoResume, Inside, Answering
<1>2. LockHeld => ParentRunsAlone
  BY DEF LockHeld, ParentRunsAlone, Inside, Answering
<1> QED
  BY <1>1, <1>2, LockStep, TypeCorrect, PTL DEF Spec

-------------------------------------------------------------------------------
(* A child is executed once.                                               *)

Busy(k, d) == task[<<k, d>>].at \notin {"none", "queued"}

\* A child that is ready, or not there, has not been run and nobody runs it;
\* a child has one execution that got the claim.
OnceInv ==
    \A k \in Calls :
        /\ call[k] \in {"none", "pending"} => child[k] = "none"
        /\ child[k] \in {"none", "ready"} => run[k] = "none" /\ \A d \in Kinds : ~Busy(k, d)
        /\ \A d \in Kinds : task[<<k, d>>].at = "claimed" => run[k] = "none"
        /\ \A d, e \in Kinds : Busy(k, d) /\ Busy(k, e) => d = e

\* A child is run from nothing, and stays ended.
RunsOn ==
    \A k \in Calls : /\ run[k] = "ended" => run'[k] = "ended"
                     /\ run'[k] # run[k] /\ run'[k] = "running" => run[k] = "none"

LEMMA TaskOthers ==
    ASSUME task \in [Calls \X Kinds -> Tasks], NEW k \in Calls, NEW d \in Kinds, NEW from, NEW to, At(k, d, from, to)
    PROVE  /\ task'[<<k, d>>].at = to /\ task[<<k, d>>].at = from
           /\ \A j \in Calls, e \in Kinds : j # k \/ e # d => task'[<<j, e>>] = task[<<j, e>>]
<1>1. task' = [task EXCEPT ![<<k, d>>] = [task[<<k, d>>] EXCEPT !.at = to]]
  BY DEF At
<1>2. <<k, d>> \in Calls \X Kinds
  OBVIOUS
<1>3. task[<<k, d>>] \in Tasks
  BY <1>2
<1>4. \A j \in Calls, e \in Kinds : <<j, e>> = <<k, d>> => j = k /\ e = d
  OBVIOUS
<1> QED
  BY <1>1, <1>2, <1>3, <1>4 DEF At, Tasks

LEMMA OnceStep == TypeOK /\ OnceInv /\ [Next]_vars => OnceInv' /\ RunsOn
<1> SUFFICES ASSUME TypeOK, OnceInv, [Next]_vars PROVE OnceInv' /\ RunsOn
  OBVIOUS
<1>t. /\ task \in [Calls \X Kinds -> Tasks] /\ run \in [Calls -> {"none", "running", "ended"}]
      /\ child \in [Calls -> {"none", "ready", "active", "ended"}]
      /\ call \in [Calls -> {"none", "pending", "delegated", "refused"}]
  BY DEF TypeOK
\* Executions that end or are queued hold nobody up.
<1>1. ASSUME UNCHANGED <<call, child, run>>,
             \A k \in Calls, d \in Kinds : task'[<<k, d>>] = task[<<k, d>>] \/ task'[<<k, d>>].at \in {"none", "queued"}
      PROVE  OnceInv' /\ RunsOn
  BY <1>1 DEF OnceInv, RunsOn, Busy
<1>2. ASSUME NEW k \in Calls, Delegate(k) \/ RefuseCall(k) PROVE OnceInv' /\ RunsOn
  BY <1>2, <1>t DEF Delegate, RefuseCall, children, OnceInv, RunsOn, Busy
<1>3. CASE ReconcileCaller \/ ReconcileResource \/ RecoverLostWait \/ WaitsDone
  BY <1>3, <1>1 DEF ReconcileCaller, ReconcileResource, RecoverLostWait, WaitsDone, children
<1>4. CASE Dispatch
  <2>1. \A k \in Calls, d \in Kinds : task'[<<k, d>>] = task[<<k, d>>] \/ task'[<<k, d>>].at \in {"none", "queued"}
    <3> SUFFICES ASSUME NEW k \in Calls, NEW d \in Kinds
                 PROVE  task'[<<k, d>>] = task[<<k, d>>] \/ task'[<<k, d>>].at \in {"none", "queued"}
      OBVIOUS
    <3>1. <<k, d>> \in Calls \X Kinds
      OBVIOUS
    <3> QED
      BY <1>4, <3>1 DEF Dispatch
  <2> QED
    BY <1>4, <1>1, <2>1 DEF Dispatch, children
<1>5. CASE Repair
  <2>1. \A k \in UnlinkedChildren : k \in Calls /\ run[k] = "ended"
    BY DEF UnlinkedChildren
  <2>2. /\ child' = [k \in Calls |-> IF k \in UnlinkedChildren THEN "ended" ELSE child[k]]
        /\ UNCHANGED <<call, run, task>>
    BY <1>5 DEF Repair, RepairWith
  <2> QED
    BY <2>1, <2>2, <1>t DEF OnceInv, RunsOn, Busy
<1>6. CASE Stale
  <2>1. CASE FailStaleParent
    BY <2>1, <1>1 DEF FailStaleParent, children
  <2>2. ASSUME NEW k \in Calls, FailStaleChild(k) PROVE OnceInv' /\ RunsOn
    <3>1. \A d \in Kinds : task[<<k, d>>].at = "none"
      BY <2>2 DEF FailStaleChild, ChildActive
    <3> QED
      BY <2>2, <3>1, <1>t DEF FailStaleChild, OnceInv, RunsOn, Busy
  <2> QED
    BY <1>6, <2>1, <2>2 DEF Stale
<1>7. ASSUME NEW k \in Calls, ChildStep(k) PROVE OnceInv' /\ RunsOn
  <2>k. "delegation" \in Kinds
    BY DEF Kinds
  \* An execution goes on, and its child is no other one's.
  <2>a. ASSUME NEW d \in Kinds, NEW from, NEW to, At(k, d, from, to), from \notin {"none", "queued"}, to # "claimed",
               UNCHANGED call,
               \A j \in Calls \ {k} : child'[j] = child[j] /\ run'[j] = run[j],
               child'[k] \in {child[k], "ended"},
               run[k] = "ended" => run'[k] = "ended",
               run'[k] # run[k] /\ run'[k] = "running" => run[k] = "none"
        PROVE  OnceInv' /\ RunsOn
    <3>1. /\ task'[<<k, d>>].at = to /\ task[<<k, d>>].at = from
          /\ \A j \in Calls, e \in Kinds : j # k \/ e # d => task'[<<j, e>>] = task[<<j, e>>]
      BY <2>a, <1>t, TaskOthers
    <3>2. Busy(k, d) /\ child[k] \notin {"none", "ready"} /\ \A e \in Kinds \ {d} : ~Busy(k, e)
      BY <2>a, <3>1 DEF OnceInv, Busy
    <3>3. RunsOn
      BY <2>a DEF RunsOn
    <3>4. OnceInv'
      BY <2>a, <3>1, <3>2 DEF OnceInv, Busy
    <3> QED
      BY <3>3, <3>4
  <2>1. ASSUME NEW d \in Kinds, Claim(k, d) PROVE OnceInv' /\ RunsOn
    <3>1. /\ task'[<<k, d>>].at = "claimed"
          /\ \A j \in Calls, e \in Kinds : j # k \/ e # d => task'[<<j, e>>] = task[<<j, e>>]
      BY <2>1, <1>t, TaskOthers DEF Claim
    <3>2. run[k] = "none" /\ \A e \in Kinds : ~Busy(k, e)
      BY <2>1 DEF Claim, OnceInv
    <3> QED
      BY <2>1, <3>1, <3>2, <1>t DEF Claim, ChildUnchanged, OnceInv, RunsOn, Busy
  <2>2. ASSUME NEW d \in Kinds, Start(k, d) PROVE OnceInv' /\ RunsOn
    <3>1. run[k] = "none"
      BY <2>2 DEF Start, At, OnceInv
    <3> QED
      BY <2>2, <2>a, <3>1, <1>t DEF Start, ChildUnchanged
  <2>3. ASSUME NEW d \in Kinds, EndProcess(k, d) PROVE OnceInv' /\ RunsOn
    BY <2>3, <2>a, <1>t DEF EndProcess, ChildUnchanged
  <2>4. ASSUME NEW d \in Kinds, EndJob(k, d) PROVE OnceInv' /\ RunsOn
    BY <2>4, <2>a, <1>t DEF EndJob, ChildUnchanged
  <2>5. CASE RecordResult(k) \/ Notify(k) \/ NotifyIgnored(k)
    BY <2>5, <2>a, <2>k DEF RecordResult, Notify, NotifyIgnored, ChildUnchanged, children
  <2> QED
    BY <1>7, <2>1, <2>2, <2>3, <2>4, <2>5 DEF ChildStep
<1>8. ASSUME NEW w \in Wakers, WakeStep(w) PROVE OnceInv' /\ RunsOn
  <2>1. \/ task' = task
        \/ task' = [task EXCEPT ![<<w, "delegation">>] = NoTask]
    BY <1>8 DEF WakeStep, CompleteWait, CreateContinuation, ReadyParent
  <2>2. \A k \in Calls, d \in Kinds : task'[<<k, d>>] = task[<<k, d>>] \/ task'[<<k, d>>].at \in {"none", "queued"}
    BY <2>1, <1>t DEF NoTask
  <2> QED
    BY <1>8, <1>1, <2>2 DEF WakeStep, CompleteWait, CreateContinuation, ReadyParent, WakeUnchanged, children
<1>9. ASSUME NEW t \in Threads, ResumeStep(t) PROVE OnceInv' /\ RunsOn
  <2>1. UNCHANGED <<child, run, task>>
    BY <1>9 DEF ResumeStep, BeginResume, ResumeRefused, RunThread, RunProcess, Answer, FinishThread,
                FinishProcess, FinishJob, RecordResume, ResumeUnchanged, children
  <2>2. \A k \in Calls : call'[k] \in {"none", "pending"} => call[k] \in {"none", "pending"}
    BY <1>9, <1>t DEF ResumeStep, BeginResume, ResumeRefused, RunThread, RunProcess, Answer, FinishThread,
                FinishProcess, FinishJob, RecordResume, Asked
  <2> QED
    BY <2>1, <2>2 DEF OnceInv, RunsOn, Busy
<1>10. CASE Fault
  <2>1. UNCHANGED <<call, child, run>>
    BY <1>10 DEF Fault, Crash, ChildFails, ResumeFails, FaultUnchanged, children
  <2>2. \A k \in Calls, d \in Kinds : task'[<<k, d>>] = task[<<k, d>>] \/ task'[<<k, d>>].at \in {"none", "queued"}
    <3>1. CASE Crash
      BY <3>1 DEF Crash, NoTask
    <3>2. ASSUME NEW k \in Calls, NEW d \in Kinds, ChildFails(k, d)
          PROVE \A j \in Calls, e \in Kinds : task'[<<j, e>>] = task[<<j, e>>] \/ task'[<<j, e>>].at \in {"none", "queued"}
      BY <3>2, <1>t DEF ChildFails, NoTask
    <3> QED
      BY <1>10, <3>1, <3>2 DEF Fault, ResumeFails
  <2> QED
    BY <1>1, <2>1, <2>2
<1>11. CASE UNCHANGED vars
  BY <1>11, <1>1 DEF vars, children
<1> QED
  BY <1>2, <1>3, <1>4, <1>5, <1>6, <1>7, <1>8, <1>9, <1>10, <1>11 DEF Next, TickStep, TaskStep

LEMMA OnceInit == Init => OnceInv
<1> SUFFICES ASSUME Init PROVE OnceInv
  OBVIOUS
<1>1. \A k \in Calls, d \in Kinds : task[<<k, d>>].at = "none"
  BY DEF Init, NoTask
<1> QED
  BY <1>1 DEF Init, OnceInv, Busy

LEMMA Once == Spec => []OnceInv
BY OnceInit, OnceStep, TypeCorrect, PTL DEF Spec

\* A child job is executed once.
THEOREM RunOnce == Spec => ChildRunsOnce
<1>1. TypeOK /\ OnceInv /\ [Next]_vars
        => [\A k \in Calls : run'[k] # run[k] /\ run'[k] = "running" => run[k] = "none"]_vars
  BY OnceStep DEF RunsOn
<1> QED
  BY <1>1, Once, TypeCorrect, PTL DEF Spec, ChildRunsOnce

-------------------------------------------------------------------------------
(* A parent resumes with an ended child and its result.                    *)

AllEnded(kids) == \A i \in DOMAIN kids : run[kids[i]] = "ended"

\* A hand-over or a resumption carries children that have ended.
Carried(h) == AllEnded(h.kids) /\ (h.at # "none" => h.by \in Calls /\ run[h.by] = "ended")

\* The invocation is given a child that has its result.
Given(t) == resume[t].at \in Inside \ {"read"} => result[resume[t].by]

EvidenceInv ==
    /\ latest # 0 => run[latest] = "ended"
    /\ AllEnded(process.kids)
    /\ \A w \in Wakers : Carried(wake[w])
    /\ \A t \in Threads : Carried(resume[t]) /\ Given(t)

LEMMA WithEnded ==
    ASSUME NEW kids \in Seq(Calls), NEW k \in Calls, AllEnded(kids), run[k] = "ended"
    PROVE  AllEnded(With(kids, k))
<1>1. \A i \in DOMAIN Append(kids, k) : Append(kids, k)[i] = k \/ (i \in DOMAIN kids /\ Append(kids, k)[i] = kids[i])
  OBVIOUS
<1> QED
  BY <1>1 DEF With, AllEnded

LEMMA EvidenceStep == TypeInv /\ OnceInv /\ EvidenceInv /\ [Next]_vars => EvidenceInv'
<1> SUFFICES ASSUME TypeInv, OnceInv, EvidenceInv, [Next]_vars PROVE EvidenceInv'
  OBVIOUS
<1>t. /\ TypeOK /\ process.kids \in Seq(Calls) /\ resume \in [Threads -> Resumes] /\ wake \in [Wakers -> Wakes]
      /\ run \in [Calls -> {"none", "running", "ended"}] /\ result \in [Calls -> BOOLEAN]
      /\ latest \in Calls \union {0}
  BY DEF TypeInv, TypeOK, Processes
<1>h. /\ \A w \in Wakers : wake[w].at # "none" => wake[w].by \in Calls
      /\ process.status = "ready" => process.kids # <<>>
  BY DEF TypeInv, HandsOver
<1>r. RunsOn
  BY <1>t, OnceStep
\* What has ended in a sequence of children stays so.
<1>k. ASSUME NEW kids \in Seq(Calls), AllEnded(kids) PROVE AllEnded(kids)'
  <2>1. \A i \in DOMAIN kids : kids[i] \in Calls
    BY ElementOfSeq, LenProperties
  <2> QED
    BY <1>k, <1>r, <2>1 DEF AllEnded, RunsOn
<1>e. /\ latest # 0 => run[latest] = "ended"
      /\ AllEnded(process.kids)
      /\ \A w \in Wakers : Carried(wake[w])
      /\ \A t \in Threads : Carried(resume[t]) /\ Given(t)
  BY DEF EvidenceInv
<1>c. ASSUME NEW h, h.kids \in Seq(Calls), Carried(h)
      PROVE  AllEnded(h.kids)' /\ (h.at # "none" => h.by \in Calls /\ run'[h.by] = "ended")
  BY <1>c, <1>k, <1>r DEF Carried, RunsOn
<1>n. /\ \A w \in Wakers : wake[w].kids \in Seq(Calls)
      /\ \A t \in Threads : resume[t].kids \in Seq(Calls)
  BY <1>t DEF Wakes, Resumes
\* What is not replaced carries on.
<1>g. ASSUME latest' = latest \/ run'[latest'] = "ended",
             process'.kids = process.kids \/ AllEnded(process.kids)',
             \A w \in Wakers : wake'[w] = wake[w] \/ Carried(wake[w])',
             \A t \in Threads : resume'[t] = resume[t] \/ (Carried(resume[t])' /\ Given(t)'),
             \A k \in Calls : result[k] => result'[k]
      PROVE  EvidenceInv'
  <2>1. latest' # 0 => run'[latest'] = "ended"
    BY <1>g, <1>e, <1>t, <1>r DEF RunsOn
  <2>2. AllEnded(process.kids)'
    BY <1>g, <1>e, <1>t, <1>k DEF AllEnded
  <2>3. ASSUME NEW w \in Wakers PROVE Carried(wake[w])'
    BY <1>g, <1>e, <1>n, <1>c DEF Carried, AllEnded
  <2>4. ASSUME NEW t \in Threads PROVE Carried(resume[t])'
    BY <1>g, <1>e, <1>n, <1>c DEF Carried, AllEnded
  <2>5. ASSUME NEW t \in Threads PROVE Given(t)'
    <3>1. resume[t].at \in Inside => resume[t].by \in Calls
      BY <1>e DEF Carried, Inside, Answering
    <3> QED
      BY <1>g, <1>e, <3>1 DEF Given
  <2> QED
    BY <2>1, <2>2, <2>3, <2>4, <2>5 DEF EvidenceInv
<1>p. \A k \in Calls : Latest(k) = latest \/ Latest(k) = k
  BY DEF Latest
<1>1. CASE TickStep
  <2>1. CASE RecoverLostWait
    <3>1. latest \in Calls /\ run'[latest] = "ended"
      BY <2>1, <1>e, <1>t, <1>r DEF RecoverLostWait, LostWait, RunsOn
    <3>2. AllEnded(process.kids)'
      BY <2>1, <1>e, <1>t, <1>k DEF RecoverLostWait, parent, AllEnded
    <3>3. \A w \in Wakers : wake'[w] = wake[w] \/ Carried(wake[w])'
      BY <2>1, <1>t, <3>1, <3>2 DEF RecoverLostWait, Carried, AllEnded, parent
    <3> QED
      BY <2>1, <3>3, <1>g DEF RecoverLostWait, children, records, parent
  <2>2. CASE Dispatch
    <3>1. ASSUME NEW t \in Threads, resume'[t] # resume[t] PROVE Carried(resume[t])' /\ Given(t)'
      <4>1. /\ process.status = "ready"
            /\ resume'[t] = [at |-> "queued", answer |-> "none", by |-> process.kids[Len(process.kids)], kids |-> <<>>]
        BY <2>2, <3>1 DEF Dispatch, NoResume
      <4>2. process.kids[Len(process.kids)] \in Calls /\ Len(process.kids) \in DOMAIN process.kids
        BY <4>1, <1>h, <1>t, LastIsChild, LenProperties, EmptySeq
      <4>3. run'[process.kids[Len(process.kids)]] = "ended"
        BY <4>2, <1>e, <1>r DEF AllEnded, RunsOn
      <4>4. AllEnded(<<>>)'
        BY DEF AllEnded
      <4> QED
        BY <4>1, <4>2, <4>3, <4>4 DEF Carried, Given, Inside, Answering
    <3> QED
      BY <2>2, <3>1, <1>g DEF Dispatch, children, records, parent
  <2>3. CASE Repair
    BY <2>3, <1>t, <1>g DEF Repair, RepairWith
  <2>4. CASE ReconcileCaller \/ ReconcileResource
    <3>1. process'.kids = process.kids
      BY <2>4, <1>t DEF ReconcileCaller, ReconcileResource, parent, TypeOK, Processes
    <3> QED
      BY <2>4, <3>1, <1>g DEF ReconcileCaller, ReconcileResource, children, records
  <2>5. ASSUME NEW k \in Calls, Delegate(k) \/ RefuseCall(k) PROVE EvidenceInv'
    <3>1. process'.kids = process.kids
      BY <2>5, <1>t DEF Delegate, RefuseCall, parent, TypeOK, Processes
    <3> QED
      BY <2>5, <3>1, <1>g DEF Delegate, RefuseCall, children, records
  <2>6. CASE WaitsDone
    BY <2>6, <1>g DEF WaitsDone, children, records, parent
  <2> QED
    BY <1>1, <2>1, <2>2, <2>3, <2>4, <2>5, <2>6 DEF TickStep
<1>2. CASE Stale
  <2>1. CASE FailStaleParent
    <3>1. process'.kids = process.kids
      BY <2>1, <1>t DEF FailStaleParent, TypeOK, Processes
    <3> QED
      BY <2>1, <3>1, <1>g DEF FailStaleParent, children, records
  <2>2. ASSUME NEW k \in Calls, FailStaleChild(k) PROVE EvidenceInv'
    <3>1. latest' = latest \/ run'[latest'] = "ended"
      BY <2>2, <1>t, <1>p DEF FailStaleChild
    <3> QED
      BY <2>2, <3>1, <1>g DEF FailStaleChild, records, parent
  <2> QED
    BY <1>2, <2>1, <2>2 DEF Stale
<1>3. ASSUME NEW k \in Calls, ChildStep(k) PROVE EvidenceInv'
  <2>1. UNCHANGED <<process, resume>>
    BY <1>3 DEF ChildStep, Claim, Start, EndProcess, EndJob, RecordResult, Notify, NotifyIgnored,
                ChildUnchanged, parent
  <2>2. latest' = latest \/ run'[latest'] = "ended"
    BY <1>3, <1>t, <1>p DEF ChildStep, Claim, Start, EndProcess, EndJob, RecordResult, Notify,
                NotifyIgnored, children
  <2>3. \A j \in Calls : result[j] => result'[j]
    BY <1>3, <1>t DEF ChildStep, Claim, Start, EndProcess, EndJob, RecordResult, Recorded, Notify,
                NotifyIgnored
  <2>4. ASSUME NEW w \in Wakers, wake'[w] # wake[w] PROVE Carried(wake[w])'
    <3>1. Notify(k)
      BY <1>3, <2>4 DEF ChildStep, Claim, Start, EndProcess, EndJob, RecordResult, NotifyIgnored
    <3>2. run'[k] = "ended"
      BY <3>1, <1>r DEF Notify, Applicable, RunsOn
    <3>3. AllEnded(process.kids)'
      BY <2>1, <1>e, <1>t, <1>k DEF AllEnded
    <3> QED
      BY <2>1, <2>4, <3>1, <3>2, <3>3, <1>t DEF Notify, Carried, AllEnded
  <2> QED
    BY <1>g, <2>1, <2>2, <2>3, <2>4
<1>4. ASSUME NEW w \in Wakers, WakeStep(w) PROVE EvidenceInv'
  <2>u. UNCHANGED <<latest, run, result, resume>>
    BY <1>4 DEF WakeStep, CompleteWait, CreateContinuation, ReadyParent, WakeUnchanged, children, records
  <2>1. CASE CompleteWait(w) \/ CreateContinuation(w)
    <3>1. process' = process /\ \A v \in Wakers \ {w} : wake'[v] = wake[v]
      BY <2>1, <1>t DEF CompleteWait, CreateContinuation
    <3>2. wake'[w].kids = wake[w].kids /\ wake'[w].by = wake[w].by /\ wake[w].at # "none"
      BY <2>1, <1>t DEF CompleteWait, CreateContinuation, Wakes
    <3>3. Carried(wake[w])'
      BY <2>u, <3>2, <1>e DEF Carried, AllEnded
    <3> QED
      BY <2>u, <3>1, <3>3, <1>g
  <2>2. CASE ReadyParent(w)
    <3>1. wake[w].by \in Calls /\ wake[w].kids \in Seq(Calls) /\ AllEnded(wake[w].kids) /\ run[wake[w].by] = "ended"
      BY <2>2, <1>e, <1>n DEF ReadyParent, Carried
    <3>2. AllEnded(With(wake[w].kids, wake[w].by))
      BY <3>1, WithEnded
    <3>3. AllEnded(process.kids)'
      BY <2>2, <2>u, <3>2 DEF ReadyParent, AllEnded
    <3>4. \A v \in Wakers : wake'[v] = wake[v] \/ Carried(wake[v])'
      BY <2>2, <1>t DEF ReadyParent, NoWake, Carried, AllEnded
    <3> QED
      BY <2>u, <3>3, <3>4, <1>g
  <2> QED
    BY <1>4, <2>1, <2>2 DEF WakeStep
<1>5. ASSUME NEW t \in Threads, ResumeStep(t) PROVE EvidenceInv'
  <2>1. /\ UNCHANGED <<latest, run, wake>>
        /\ \A s \in Threads \ {t} : resume'[s] = resume[s]
        /\ \A k \in Calls : result[k] => result'[k]
    BY <1>5, <1>t DEF ResumeStep, BeginResume, ResumeRefused, RunThread, RunProcess, Answer, FinishThread,
                FinishProcess, FinishJob, RecordResume, ResumeUnchanged, children, Goes, records, Recorded
  <2>2. process'.kids = process.kids \/ process'.kids = resume[t].kids
    BY <1>5 DEF ResumeStep, BeginResume, ResumeRefused, RunThread, RunProcess, Answer, FinishThread,
                FinishProcess, FinishJob, RecordResume, parent
  <2>3. AllEnded(process.kids)'
    BY <2>1, <2>2, <1>e DEF Carried, AllEnded
  <2>4. resume'[t].kids \in {resume[t].kids, process.kids, <<>>} /\ resume'[t].by \in {resume[t].by, 0}
    BY <1>5, <1>t DEF ResumeStep, BeginResume, ResumeRefused, RunThread, RunProcess, Answer, FinishThread,
                FinishProcess, FinishJob, RecordResume, Goes, Resumes, NoResume
  <2>5. resume'[t].at # "none" => resume[t].at # "none" /\ resume'[t].by = resume[t].by
    BY <1>5, <1>t DEF ResumeStep, BeginResume, ResumeRefused, RunThread, RunProcess, Answer, FinishThread,
                FinishProcess, FinishJob, RecordResume, Goes, Resumes, NoResume
  <2>6. Carried(resume[t])'
    BY <2>1, <2>4, <2>5, <1>e DEF Carried, AllEnded
  <2>7. Given(t)'
    <3>1. CASE RunThread(t)
      <4>1. resume'[t].by = resume[t].by /\ resume[t].by \in Calls
        BY <3>1, <1>t, <1>e DEF RunThread, Goes, Resumes, Carried
      <4> QED
        BY <3>1, <4>1, <1>t DEF RunThread, Recorded, Given
    <3>2. CASE RunProcess(t) \/ Answer(t) \/ FinishThread(t) \/ FinishProcess(t) \/ FinishJob(t)
      <4>1. resume[t].at \in Inside \ {"read"}
        BY <3>2 DEF RunProcess, Answer, FinishThread, FinishProcess, FinishJob, Goes, Inside, Answering
      <4>2. resume[t].by \in Calls
        BY <4>1, <1>e DEF Carried, Inside, Answering
      <4> QED
        BY <2>1, <2>5, <4>1, <4>2, <1>e DEF Given, Inside, Answering
    <3>3. CASE BeginResume(t) \/ ResumeRefused(t) \/ RecordResume(t)
      <4>1. resume'[t].at \in {"read", "none"}
        BY <3>3, <1>t DEF BeginResume, ResumeRefused, RecordResume, Goes, Resumes, NoResume
      <4> QED
        BY <4>1 DEF Given, Inside, Answering
    <3> QED
      BY <1>5, <3>1, <3>2, <3>3 DEF ResumeStep
  <2> QED
    BY <2>1, <2>3, <2>6, <2>7, <1>g
<1>6. CASE Fault
  <2>1. UNCHANGED <<process, latest, result>>
    BY <1>6 DEF Fault, Crash, ChildFails, ResumeFails, FaultUnchanged, parent, children, records
  <2>2. \A w \in Wakers : wake'[w] = wake[w] \/ wake'[w] = NoWake
    BY <1>6, <1>t DEF Fault, Crash, ChildFails, ResumeFails
  <2>3. \A t \in Threads : resume'[t] = resume[t] \/ resume'[t] = NoResume
    BY <1>6, <1>t DEF Fault, Crash, ChildFails, ResumeFails
  <2>4. \A w \in Wakers : wake'[w] = NoWake => Carried(wake[w])'
    BY DEF NoWake, Carried, AllEnded
  <2>5. \A t \in Threads : resume'[t] = NoResume => Carried(resume[t])' /\ Given(t)'
    BY DEF NoResume, Carried, AllEnded, Given, Inside, Answering
  <2> QED
    BY <2>1, <2>2, <2>3, <2>4, <2>5, <1>g
<1>7. CASE UNCHANGED vars
  BY <1>7, <1>g DEF vars, parent, children, records
<1> QED
  BY <1>1, <1>2, <1>3, <1>4, <1>5, <1>6, <1>7 DEF Next, TaskStep

LEMMA EvidenceInit == Init => EvidenceInv
<1> SUFFICES ASSUME Init PROVE EvidenceInv
  OBVIOUS
<1>1. process.kids = <<>> /\ latest = 0
  BY DEF Init
<1>2. AllEnded(<<>>)
  BY DEF AllEnded
<1> QED
  BY <1>1, <1>2 DEF Init, EvidenceInv, NoWake, NoResume, Carried, Given, Inside, Answering

\* The invocation of a resumed parent is given a child that has ended and its
\* result.
THEOREM OnEvidence == Spec => []ResumedOnEvidence
<1>2. EvidenceInv => ResumedOnEvidence
  BY DEF EvidenceInv, Carried, Given, ResumedOnEvidence, Inside, Answering
<1>3. Spec => []TypeInv
  BY TypeInit, TypeStep, PTL DEF Spec
<1> QED
  BY <1>2, <1>3, EvidenceInit, EvidenceStep, Once, PTL DEF Spec

-------------------------------------------------------------------------------
(* Delegation implements ForkJoin.                                         *)

Invoking == {"thread", "invoked", "answered"}

\* A resumption finds its thread as it left it, and a hand-over the thread
\* whose wait it is to complete.
PlaceInv ==
    /\ \A t \in Threads : /\ resume[t].at = "read" => thread[t] = "ready"
                          /\ resume[t].at \in Invoking => thread[t] = "running"
    /\ \A w \in Wakers : wake[w].at \in {"read", "completed"}
                            => wake[w].on \in Threads /\ thread[wake[w].on] \in Waits \union Ended

\* A delegated execution knows the thread that waits, and the process of a
\* running one runs.
StageInv ==
    \A k \in Calls :
        /\ task[<<k, "delegation">>].at # "none" => task[<<k, "delegation">>].on \in Threads
        /\ \A d \in Kinds : task[<<k, d>>].at = "running" => run[k] = "running"

LEMMA TaskKeepsThread ==
    ASSUME task \in [Calls \X Kinds -> Tasks], NEW k \in Calls, NEW d \in Kinds, NEW from, NEW to, At(k, d, from, to)
    PROVE  \A j \in Calls, e \in Kinds : task'[<<j, e>>].on = task[<<j, e>>].on
<1>1. task' = [task EXCEPT ![<<k, d>>] = [task[<<k, d>>] EXCEPT !.at = to]]
  BY DEF At
<1>2. task[<<k, d>>] \in Tasks
  OBVIOUS
<1> QED
  BY <1>1, <1>2 DEF Tasks

LEMMA StageStep == TypeOK /\ OnceInv /\ StageInv /\ [Next]_vars => StageInv'
<1> SUFFICES ASSUME TypeOK, OnceInv, StageInv, [Next]_vars PROVE StageInv'
  OBVIOUS
<1>t. /\ task \in [Calls \X Kinds -> Tasks] /\ run \in [Calls -> {"none", "running", "ended"}]
      /\ Current \in Threads \union {0} /\ 0 \notin Threads /\ "delegation" \in Kinds
  BY BoundsAssumption DEF TypeOK, Processes, Current, Threads, Kinds
\* Executions stay where they are, or give up.
<1>g. ASSUME UNCHANGED run,
             \A k \in Calls, d \in Kinds : task'[<<k, d>>] = task[<<k, d>>] \/ task'[<<k, d>>] = NoTask
      PROVE  StageInv'
  <2>1. NoTask.at = "none"
    BY DEF NoTask
  <2>2. ASSUME NEW k \in Calls, task'[<<k, "delegation">>].at # "none"
        PROVE  task'[<<k, "delegation">>].on \in Threads
    <3>1. task'[<<k, "delegation">>] = task[<<k, "delegation">>]
      BY <1>g, <1>t, <2>1, <2>2
    <3> QED
      BY <2>2, <3>1 DEF StageInv
  <2>3. ASSUME NEW k \in Calls, NEW d \in Kinds, task'[<<k, d>>].at = "running"
        PROVE  run'[k] = "running"
    <3>1. task'[<<k, d>>] = task[<<k, d>>]
      BY <1>g, <2>1, <2>3
    <3> QED
      BY <1>g, <2>3, <3>1 DEF StageInv
  <2> QED
    BY <2>2, <2>3 DEF StageInv
<1>1. ASSUME NEW k \in Calls, Delegate(k) \/ RefuseCall(k) PROVE StageInv'
  BY <1>1, <1>g DEF Delegate, RefuseCall, children
<1>2. CASE ReconcileCaller \/ ReconcileResource \/ RecoverLostWait \/ WaitsDone \/ Repair
  BY <1>2, <1>g DEF ReconcileCaller, ReconcileResource, RecoverLostWait, WaitsDone, Repair, RepairWith, children
<1>3. CASE Dispatch
  <2> SUFFICES ASSUME NEW k \in Calls, NEW d \in Kinds
               PROVE  /\ d = "delegation" /\ task'[<<k, d>>].at # "none" => task'[<<k, d>>].on \in Threads
                      /\ task'[<<k, d>>].at = "running" => run'[k] = "running"
    BY <1>t DEF StageInv
  <2>1. run' = run
    BY <1>3 DEF Dispatch, children
  <2>2. CASE task'[<<k, d>>] = task[<<k, d>>]
    BY <2>1, <2>2 DEF StageInv
  <2>3. CASE task'[<<k, d>>] # task[<<k, d>>]
    <3>1. /\ task'[<<k, d>>] = [at |-> "queued", on |-> IF Context THEN Current ELSE 0]
          /\ d = IF Context THEN "delegation" ELSE "job"
      BY <1>3, <2>3 DEF Dispatch
    <3>2. Context => Current \in Threads
      BY <1>t DEF Context, CurrentThread
    <3> QED
      BY <3>1, <3>2
  <2> QED
    BY <2>2, <2>3
<1>4. CASE Stale
  <2>1. CASE FailStaleParent
    BY <2>1, <1>g DEF FailStaleParent, children
  <2>2. ASSUME NEW k \in Calls, FailStaleChild(k) PROVE StageInv'
    BY <2>2, <1>t DEF FailStaleChild, ChildActive, StageInv
  <2> QED
    BY <1>4, <2>1, <2>2 DEF Stale
<1>5. ASSUME NEW k \in Calls, ChildStep(k) PROVE StageInv'
  <2>a. ASSUME NEW d \in Kinds, NEW from, NEW to, At(k, d, from, to), from # "none",
               \A j \in Calls \ {k} : run'[j] = run[j],
               to = "running" => run'[k] = "running",
               run'[k] # run[k] => Busy(k, d)
        PROVE  StageInv'
    <3>1. /\ task'[<<k, d>>].at = to /\ task[<<k, d>>].at = from
          /\ \A j \in Calls, e \in Kinds : j # k \/ e # d => task'[<<j, e>>] = task[<<j, e>>]
      BY <2>a, <1>t, TaskOthers
    <3>2. task'[<<k, d>>].on = task[<<k, d>>].on
      BY <2>a, <1>t, TaskKeepsThread
    <3>3. \A e \in Kinds \ {d} : task[<<k, e>>].at = "running" => run'[k] = run[k]
      BY <2>a DEF OnceInv, Busy
    <3>4. ASSUME NEW j \in Calls, task'[<<j, "delegation">>].at # "none"
          PROVE  task'[<<j, "delegation">>].on \in Threads
      BY <2>a, <3>1, <3>2, <3>4, <1>t DEF StageInv
    <3>5. ASSUME NEW j \in Calls, NEW e \in Kinds, task'[<<j, e>>].at = "running"
          PROVE  run'[j] = "running"
      BY <2>a, <3>1, <3>3, <3>5 DEF StageInv
    <3> QED
      BY <3>4, <3>5 DEF StageInv
  <2>1. ASSUME NEW d \in Kinds, Claim(k, d) \/ Start(k, d) \/ EndProcess(k, d) \/ EndJob(k, d) PROVE StageInv'
    <3>1. CASE Claim(k, d)
      BY <3>1, <2>a DEF Claim
    <3>2. CASE Start(k, d)
      BY <3>2, <2>a, <1>t DEF Start, At, Busy
    <3>3. CASE EndProcess(k, d)
      BY <3>3, <2>a, <1>t DEF EndProcess, At, Busy
    <3>4. CASE EndJob(k, d)
      BY <3>4, <2>a DEF EndJob
    <3> QED
      BY <2>1, <3>1, <3>2, <3>3, <3>4
  <2>2. CASE RecordResult(k) \/ Notify(k) \/ NotifyIgnored(k)
    BY <2>2, <2>a, <1>t DEF RecordResult, Notify, NotifyIgnored, children
  <2> QED
    BY <1>5, <2>1, <2>2 DEF ChildStep
<1>6. ASSUME NEW w \in Wakers, WakeStep(w) PROVE StageInv'
  <2>1. task' = task \/ task' = [task EXCEPT ![<<w, "delegation">>] = NoTask]
    BY <1>6 DEF WakeStep, CompleteWait, CreateContinuation, ReadyParent
  <2>2. \A k \in Calls, d \in Kinds : task'[<<k, d>>] = task[<<k, d>>] \/ task'[<<k, d>>] = NoTask
    BY <2>1, <1>t
  <2> QED
    BY <1>6, <1>g, <2>2 DEF WakeStep, CompleteWait, CreateContinuation, ReadyParent, WakeUnchanged, children
<1>7. ASSUME NEW t \in Threads, ResumeStep(t) PROVE StageInv'
  BY <1>7, <1>g DEF ResumeStep, BeginResume, ResumeRefused, RunThread, RunProcess, Answer, FinishThread,
                    FinishProcess, FinishJob, RecordResume, ResumeUnchanged, children
<1>8. CASE Fault
  <2>1. \A k \in Calls, d \in Kinds : task'[<<k, d>>] = task[<<k, d>>] \/ task'[<<k, d>>] = NoTask
    <3>1. CASE Crash
      BY <3>1 DEF Crash
    <3>2. ASSUME NEW k \in Calls, NEW d \in Kinds, ChildFails(k, d)
          PROVE \A j \in Calls, e \in Kinds : task'[<<j, e>>] = task[<<j, e>>] \/ task'[<<j, e>>] = NoTask
      BY <3>2, <1>t DEF ChildFails
    <3> QED
      BY <1>8, <3>1, <3>2 DEF Fault, ResumeFails
  <2> QED
    BY <1>8, <1>g, <2>1 DEF Fault, Crash, ChildFails, ResumeFails, FaultUnchanged, children
<1>9. CASE UNCHANGED vars
  BY <1>9, <1>g DEF vars, children
<1> QED
  BY <1>1, <1>2, <1>3, <1>4, <1>5, <1>6, <1>7, <1>8, <1>9 DEF Next, TickStep, TaskStep

LEMMA PlaceStep == TypeOK /\ LockHeld /\ StageInv /\ PlaceInv /\ [Next]_vars => PlaceInv'
<1> SUFFICES ASSUME TypeOK, LockHeld, StageInv, PlaceInv, [Next]_vars PROVE PlaceInv'
  OBVIOUS
<1>t. /\ thread \in [Threads -> {"none", "ready", "running"} \union Waits \union Ended]
      /\ resume \in [Threads -> Resumes] /\ wake \in [Wakers -> Wakes]
      /\ Current \in Threads \union {0} /\ 0 \notin Threads
  BY BoundsAssumption DEF TypeOK, Processes, Current, Threads
<1>i. /\ \A t \in Threads : /\ resume[t].at = "read" => thread[t] = "ready"
                            /\ resume[t].at \in Invoking => thread[t] = "running"
      /\ \A w \in Wakers : wake[w].at \in {"read", "completed"}
                              => wake[w].on \in Threads /\ thread[wake[w].on] \in Waits \union Ended
  BY DEF PlaceInv
\* Nothing begins, and nobody writes the thread of another one.
<1>g. ASSUME \A t \in Threads : \/ thread'[t] = thread[t]
                                \/ thread[t] \in {"running"} \union Waits \union Ended
                                     /\ thread'[t] \in Waits \union Ended
                                     /\ resume[t].at \notin Invoking,
             \A t \in Threads : resume'[t] = resume[t] \/ resume'[t].at \in {"none", "queued"},
             \A w \in Wakers : wake'[w] = wake[w] \/ wake'[w].at \in {"none", "created"}
      PROVE  PlaceInv'
  <2>1. ASSUME NEW t \in Threads
        PROVE  /\ resume'[t].at = "read" => thread'[t] = "ready"
               /\ resume'[t].at \in Invoking => thread'[t] = "running"
    BY <1>g, <1>i DEF Waits, Waiting, Ended, Invoking
  <2>2. ASSUME NEW w \in Wakers, wake'[w].at \in {"read", "completed"}
        PROVE  wake'[w].on \in Threads /\ thread'[wake'[w].on] \in Waits \union Ended
    BY <1>g, <1>i, <2>2
  <2> QED
    BY <2>1, <2>2 DEF PlaceInv
<1>1. ASSUME NEW k \in Calls, Delegate(k) \/ RefuseCall(k) PROVE PlaceInv'
  <2>1. CASE Delegate(k)
    <3>1. \A t \in Threads : resume[t].at \notin Invoking
      BY <2>1, <1>t DEF Delegate, LockFree, LockHeld, Inside, Answering, Invoking
    <3>2. /\ thread' = [thread EXCEPT ![Current] = "waitingChild"]
          /\ CurrentThread \in {"running", "waitingCall"} /\ UNCHANGED <<resume, wake>>
      BY <2>1 DEF Delegate, MayDelegate
    <3>3. Current \in Threads /\ thread[Current] \in {"running", "waitingCall"}
      BY <3>2, <1>t DEF CurrentThread
    <3>4. \A t \in Threads : \/ thread'[t] = thread[t]
                             \/ thread[t] \in {"running"} \union Waits \union Ended
                                  /\ thread'[t] \in Waits \union Ended /\ resume[t].at \notin Invoking
      BY <3>1, <3>2, <3>3, <1>t DEF Waits, Waiting
    <3> QED
      BY <3>2, <3>4, <1>g
  <2>2. CASE RefuseCall(k)
    BY <2>2, <1>g DEF RefuseCall, parent
  <2> QED
    BY <1>1, <2>1, <2>2
<1>2. CASE ReconcileCaller \/ ReconcileResource
  <2>1. /\ UNCHANGED <<resume, wake>>
        /\ \/ thread' = thread
           \/ CurrentThread \in Parking /\ thread' = [thread EXCEPT ![Current] = "failed"]
    BY <1>2 DEF ReconcileCaller, ReconcileResource, parent, Parking
  <2>2. \A t \in Threads : \/ thread'[t] = thread[t]
                           \/ thread[t] \in {"running"} \union Waits \union Ended
                                /\ thread'[t] \in Waits \union Ended /\ resume[t].at \notin Invoking
    BY <2>1, <1>t, <1>i DEF CurrentThread, Waits, Waiting, Parking, Ended
  <2> QED
    BY <2>1, <2>2, <1>g
<1>3. CASE RecoverLostWait
  <2>1. /\ Current \in Threads /\ thread[Current] \in Waits /\ UNCHANGED <<thread, resume>>
        /\ wake' = [wake EXCEPT ![0] = [at |-> "read", on |-> Current, by |-> latest, kids |-> process.kids]]
    BY <1>3, <1>t DEF RecoverLostWait, LostWait, CurrentThread, Waits, Waiting, parent
  <2>2. ASSUME NEW w \in Wakers, wake'[w].at \in {"read", "completed"}
        PROVE  wake'[w].on \in Threads /\ thread'[wake'[w].on] \in Waits \union Ended
    BY <2>1, <2>2, <1>i, <1>t
  <2> QED
    BY <2>1, <2>2, <1>i DEF PlaceInv
<1>4. CASE Dispatch
  <2>1. \A t \in Threads : resume'[t] = resume[t] \/ resume'[t].at \in {"none", "queued"}
    BY <1>4 DEF Dispatch, NoResume
  <2> QED
    BY <1>4, <1>g, <2>1 DEF Dispatch, parent
<1>5. CASE WaitsDone \/ Repair
  BY <1>5, <1>g DEF WaitsDone, Repair, RepairWith, parent
<1>6. CASE Stale
  <2>1. CASE FailStaleParent
    <3>1. \A t \in Threads : resume[t].at = "none"
      BY <2>1 DEF FailStaleParent, ParentActive
    <3>2. Current \in Threads /\ thread[Current] \in {"running"} \union Ended
      BY <2>1, <1>t DEF FailStaleParent, CurrentThread, Ended
    <3>3. thread' = [thread EXCEPT ![Current] = "failed"] /\ UNCHANGED <<resume, wake>>
      BY <2>1 DEF FailStaleParent
    <3>4. \A t \in Threads : \/ thread'[t] = thread[t]
                             \/ thread[t] \in {"running"} \union Waits \union Ended
                                  /\ thread'[t] \in Waits \union Ended /\ resume[t].at \notin Invoking
      BY <3>1, <3>2, <3>3, <1>t DEF Ended, Invoking
    <3> QED
      BY <3>3, <3>4, <1>g
  <2>2. ASSUME NEW k \in Calls, FailStaleChild(k) PROVE PlaceInv'
    BY <2>2, <1>g DEF FailStaleChild, parent
  <2> QED
    BY <1>6, <2>1, <2>2 DEF Stale
<1>7. ASSUME NEW k \in Calls, ChildStep(k) PROVE PlaceInv'
  <2>1. CASE Notify(k)
    <3>1. /\ UNCHANGED <<thread, resume>> /\ thread[Current] = "waitingChild" /\ Current \in Threads
          /\ wake' = [wake EXCEPT ![k] = [at |-> "read", on |-> Current, by |-> k, kids |-> process.kids]]
      BY <2>1 DEF Notify, Applicable, ChildUnchanged, parent, At, StageInv
    <3>2. ASSUME NEW w \in Wakers, wake'[w].at \in {"read", "completed"}
          PROVE  wake'[w].on \in Threads /\ thread'[wake'[w].on] \in Waits \union Ended
      BY <3>1, <3>2, <1>i, <1>t DEF Waits, Waiting
    <3> QED
      BY <3>1, <3>2, <1>i DEF PlaceInv
  <2>2. CASE ~Notify(k)
    BY <1>7, <2>2, <1>g DEF ChildStep, Claim, Start, EndProcess, EndJob, RecordResult, NotifyIgnored,
                            ChildUnchanged, parent
  <2> QED
    BY <2>1, <2>2
<1>8. ASSUME NEW w \in Wakers, WakeStep(w) PROVE PlaceInv'
  <2>1. CASE CompleteWait(w)
    <3>1. /\ wake[w].on \in Threads /\ thread[wake[w].on] \in Waits \union Ended
          /\ thread' = [thread EXCEPT ![wake[w].on] = "completed"]
          /\ wake' = [wake EXCEPT ![w].at = "completed"] /\ UNCHANGED resume
      BY <2>1, <1>i DEF CompleteWait, WakeUnchanged
    <3>2. \A v \in Wakers : wake'[v].on = wake[v].on /\ (v # w => wake'[v] = wake[v]) /\ wake[w].at = "read"
      BY <2>1, <3>1, <1>t DEF Wakes, CompleteWait
    <3>3. ASSUME NEW v \in Wakers, wake'[v].at \in {"read", "completed"}
          PROVE  wake'[v].on \in Threads /\ thread'[wake'[v].on] \in Waits \union Ended
      <4>1. wake[v].at \in {"read", "completed"}
        BY <3>2, <3>3
      <4> QED
        BY <3>1, <3>2, <4>1, <1>i, <1>t DEF Ended
    <3>4. ASSUME NEW t \in Threads
          PROVE  /\ resume'[t].at = "read" => thread'[t] = "ready"
                 /\ resume'[t].at \in Invoking => thread'[t] = "running"
      BY <3>1, <1>i, <1>t DEF Waits, Waiting, Ended
    <3> QED
      BY <3>3, <3>4 DEF PlaceInv
  <2>2. CASE CreateContinuation(w)
    <3>1. PICK t \in Threads : /\ thread[t] = "none" /\ thread' = [thread EXCEPT ![t] = "ready"]
                               /\ wake' = [wake EXCEPT ![w].at = "created", ![w].on = t]
      BY <2>2 DEF CreateContinuation, Spare
    <3>2. \A v \in Wakers : (v # w => wake'[v] = wake[v]) /\ wake'[w].at = "created" /\ UNCHANGED resume
      BY <2>2, <3>1, <1>t DEF Wakes, CreateContinuation, WakeUnchanged
    <3>3. ASSUME NEW v \in Wakers, wake'[v].at \in {"read", "completed"}
          PROVE  wake'[v].on \in Threads /\ thread'[wake'[v].on] \in Waits \union Ended
      BY <3>1, <3>2, <3>3, <1>i, <1>t DEF Waits, Waiting, Ended
    <3>4. ASSUME NEW s \in Threads
          PROVE  /\ resume'[s].at = "read" => thread'[s] = "ready"
                 /\ resume'[s].at \in Invoking => thread'[s] = "running"
      BY <3>1, <3>2, <1>i, <1>t
    <3> QED
      BY <3>3, <3>4 DEF PlaceInv
  <2>3. CASE ReadyParent(w)
    <3>1. \A v \in Wakers : wake'[v] = wake[v] \/ wake'[v].at \in {"none", "created"}
      BY <2>3, <1>t DEF ReadyParent, NoWake
    <3> QED
      BY <2>3, <3>1, <1>g DEF ReadyParent, WakeUnchanged
  <2> QED
    BY <1>8, <2>1, <2>2, <2>3 DEF WakeStep
<1>9. ASSUME NEW t \in Threads, ResumeStep(t) PROVE PlaceInv'
  <2>1. /\ UNCHANGED wake
        /\ \A s \in Threads \ {t} : resume'[s] = resume[s] /\ thread'[s] = thread[s]
    BY <1>9, <1>t DEF ResumeStep, BeginResume, ResumeRefused, RunThread, RunProcess, Answer, FinishThread,
                FinishProcess, FinishJob, RecordResume, ResumeUnchanged, Goes, parent
  <2>2. thread'[t] = thread[t] \/ thread[t] \in {"ready", "running"}
    BY <1>9, <1>i DEF ResumeStep, BeginResume, ResumeRefused, RunThread, RunProcess, Answer, FinishThread,
                FinishProcess, FinishJob, RecordResume, Goes, parent, Invoking
  <2>3. /\ resume'[t].at = "read" => thread'[t] = "ready"
        /\ resume'[t].at \in Invoking => thread'[t] = "running"
    <3>1. CASE BeginResume(t)
      BY <3>1, <1>t DEF BeginResume, parent, Resumes, Invoking
    <3>2. CASE RunThread(t)
      BY <3>2, <1>t DEF RunThread, Goes, Resumes, Invoking
    <3>3. CASE RunProcess(t) \/ Answer(t)
      BY <3>3, <1>t, <1>i DEF RunProcess, Answer, parent, Goes, Resumes, Invoking
    <3>4. CASE ResumeRefused(t) \/ FinishThread(t) \/ FinishProcess(t) \/ FinishJob(t) \/ RecordResume(t)
      BY <3>4, <1>t DEF ResumeRefused, FinishThread, FinishProcess, FinishJob, RecordResume, Goes, Resumes,
                        NoResume, Invoking
    <3> QED
      BY <1>9, <3>1, <3>2, <3>3, <3>4 DEF ResumeStep
  <2>4. ASSUME NEW w \in Wakers, wake'[w].at \in {"read", "completed"}
        PROVE  wake'[w].on \in Threads /\ thread'[wake'[w].on] \in Waits \union Ended
    BY <2>1, <2>2, <2>4, <1>i DEF Waits, Waiting, Ended
  <2> QED
    BY <2>1, <2>3, <2>4, <1>i DEF PlaceInv
<1>10. CASE Fault
  <2>1. \A w \in Wakers : wake'[w] = wake[w] \/ wake'[w] = NoWake
    BY <1>10, <1>t DEF Fault, Crash, ChildFails, ResumeFails
  <2>2. \A t \in Threads : resume'[t] = resume[t] \/ resume'[t] = NoResume
    BY <1>10, <1>t DEF Fault, Crash, ChildFails, ResumeFails
  <2>3. thread' = thread
    BY <1>10 DEF Fault, Crash, ChildFails, ResumeFails, FaultUnchanged, parent
  <2> QED
    BY <2>1, <2>2, <2>3, <1>g DEF NoWake, NoResume
<1>11. CASE UNCHANGED vars
  BY <1>11, <1>g DEF vars, parent
<1> QED
  BY <1>1, <1>2, <1>3, <1>4, <1>5, <1>6, <1>7, <1>8, <1>9, <1>10, <1>11 DEF Next, TickStep, TaskStep


LEMMA Lives ==
    /\ LifeOf("none") = "none" /\ LifeOf("ready") = "created" /\ LifeOf("running") = "running"
    /\ \A s \in Waits : LifeOf(s) = "parked"
    /\ \A s \in Ended : LifeOf(s) = "over"
BY DEF LifeOf, Waits, Waiting, Ended

\* A thread that moves on moves on in the abstract life of the threads.
LEMMA LifeMoves ==
    ASSUME thread \in [Threads -> {"none", "ready", "running"} \union Waits \union Ended],
           NEW t \in Threads, NEW to, thread' = [thread EXCEPT ![t] = to],
           NEW from, LifeOf(thread[t]) \in from
    PROVE  Joining!LifeGoes(t, from, LifeOf(to))
<1>1. ThreadLife[t] = LifeOf(thread[t])
  BY DEF ThreadLife
<1>2. \A s \in Threads : thread'[s] = IF s = t THEN to ELSE thread[s]
  OBVIOUS
<1>3. ThreadLife' = [s \in Threads |-> LifeOf(thread'[s])]
  BY DEF ThreadLife
<1>4. ThreadLife' = [ThreadLife EXCEPT ![t] = LifeOf(to)]
  BY <1>2, <1>3 DEF ThreadLife
<1> QED
  BY <1>1, <1>4 DEF Joining!LifeGoes

\* A thread that is over stays so when it is written as ended again.
LEMMA LifeStays ==
    ASSUME thread \in [Threads -> {"none", "ready", "running"} \union Waits \union Ended],
           NEW t \in Threads, NEW to, thread' = [thread EXCEPT ![t] = to], LifeOf(thread[t]) = LifeOf(to)
    PROVE  ThreadLife' = ThreadLife
<1>1. \A s \in Threads : LifeOf(thread'[s]) = LifeOf(thread[s])
  OBVIOUS
<1> QED
  BY <1>1 DEF ThreadLife

LEMMA ChildMoves ==
    ASSUME run \in [Calls -> {"none", "running", "ended"}], NEW k \in Calls, NEW to \in {"running", "ended"},
           run' = [run EXCEPT ![k] = to],
           \A j \in Calls : child'[j] = "none" <=> child[j] = "none",
           child[k] # "none" \/ run[k] # "none"
    PROVE  Joining!ChildGoes(k, IF run[k] = "none" THEN "forked" ELSE run[k], to)
<1>1. ChildLife[k] = IF run[k] = "none" THEN "forked" ELSE run[k]
  BY DEF ChildLife
<1>2. \A j \in Calls : run'[j] = IF j = k THEN to ELSE run[j]
  OBVIOUS
<1>3. ChildLife' = [ChildLife EXCEPT ![k] = to]
  BY <1>2 DEF ChildLife
<1> QED
  BY <1>1, <1>3 DEF Joining!ChildGoes

LEMMA ChildStays ==
    ASSUME UNCHANGED run, \A j \in Calls : run[j] = "none" => (child'[j] = "none" <=> child[j] = "none")
    PROVE  ChildLife' = ChildLife
BY DEF ChildLife

LEMMA ResumingStays ==
    ASSUME \A t \in Threads : resume'[t].at \in {"none", "queued"} <=> resume[t].at \in {"none", "queued"}
    PROVE  Resuming' = Resuming
BY DEF Resuming

\* A child that has ended is what a parent may go on with.
LEMMA Evidence ==
    ASSUME NEW k \in Calls, run[k] = "ended"
    PROVE  Joining!SomeEnded
BY DEF Joining!SomeEnded, ChildLife

\* The resumptions that are inside are those the lock names.
LEMMA AloneInside ==
    ASSUME TypeOK, LockHeld
    PROVE  /\ \A t \in Threads : t \in Resuming <=> resume[t].at \in Inside
           /\ lock = 0 => Resuming = {}
           /\ \A t \in Resuming : Resuming = {t}
<1>1. resume \in [Threads -> Resumes] /\ 0 \notin Threads
  BY BoundsAssumption DEF TypeOK, Threads
<1>2. \A t \in Threads : resume[t].at \notin {"none", "queued"} <=> resume[t].at \in Inside
  BY <1>1 DEF Resumes, Inside, Answering
<1> QED
  BY <1>1, <1>2 DEF Resuming, LockHeld

LEMMA ForkInit == Init => Joining!Init
<1> SUFFICES ASSUME Init PROVE Joining!Init
  OBVIOUS
<1>1. ChildLife = [k \in Calls |-> "none"]
  BY DEF Init, ChildLife
<1>2. ThreadLife = [t \in Threads |-> IF t = 1 THEN "parked" ELSE "none"]
  <2>1. \A t \in Threads : LifeOf(thread[t]) = IF t = 1 THEN "parked" ELSE "none"
    BY Lives DEF Init, Waits, Waiting
  <2> QED
    BY <2>1 DEF ThreadLife
<1>3. Resuming = {}
  BY DEF Init, Resuming, NoResume
<1> QED
  BY <1>1, <1>2, <1>3 DEF Joining!Init

LEMMA ForkStep ==
    /\ TypeInv /\ OnceInv /\ LockHeld /\ EvidenceInv /\ StageInv /\ PlaceInv
    /\ [Next]_vars
    => [Joining!Next]_(Joining!vars)
<1> SUFFICES ASSUME TypeInv, OnceInv, LockHeld, EvidenceInv, StageInv, PlaceInv, [Next]_vars
             PROVE  [Joining!Next]_(Joining!vars)
  OBVIOUS
<1>t. /\ thread \in [Threads -> {"none", "ready", "running"} \union Waits \union Ended]
      /\ resume \in [Threads -> Resumes] /\ wake \in [Wakers -> Wakes]
      /\ run \in [Calls -> {"none", "running", "ended"}]
      /\ child \in [Calls -> {"none", "ready", "active", "ended"}]
      /\ Current \in Threads \union {0} /\ latest \in Calls \union {0}
      /\ task \in [Calls \X Kinds -> Tasks] /\ 0 \notin Threads
      /\ TypeOK /\ HandsOver
  BY BoundsAssumption DEF TypeInv, TypeOK, Processes, Current, Threads
<1>p. /\ \A t \in Threads : /\ resume[t].at = "read" => thread[t] = "ready"
                            /\ resume[t].at \in Invoking => thread[t] = "running"
      /\ \A w \in Wakers : wake[w].at \in {"read", "completed"}
                              => wake[w].on \in Threads /\ thread[wake[w].on] \in Waits \union Ended
  BY DEF PlaceInv
<1>e. /\ \A w \in Wakers : wake[w].at # "none" => wake[w].by \in Calls /\ run[wake[w].by] = "ended"
      /\ \A t \in Threads : resume[t].at # "none" => resume[t].by \in Calls /\ run[resume[t].by] = "ended"
  BY DEF EvidenceInv, Carried
<1>a. /\ \A t \in Threads : t \in Resuming <=> resume[t].at \in Inside
      /\ lock = 0 => Resuming = {}
      /\ \A t \in Resuming : Resuming = {t}
  BY <1>t, AloneInside
<1>r. resume' = resume => Resuming' = Resuming
  BY DEF Resuming
<1>l. thread' = thread => ThreadLife' = ThreadLife
  BY DEF ThreadLife
<1>c. UNCHANGED <<run, child>> => ChildLife' = ChildLife
  BY DEF ChildLife
<1>u. UNCHANGED <<ChildLife, ThreadLife, Resuming>> => [Joining!Next]_(Joining!vars)
  BY DEF Joining!vars
\* The steps of the abstract parent and of its children
<1>n. ASSUME NEW k \in Calls, NEW t \in Threads,
             \/ Joining!Fork(k, t) \/ Joining!Run(k) \/ Joining!End(k)
             \/ Joining!Wake(t) \/ Joining!Continue(t) \/ Joining!Begin(t) \/ Joining!Enter(t)
             \/ Joining!Pause(t) \/ Joining!Leave(t) \/ Joining!Fail(t)
      PROVE  [Joining!Next]_(Joining!vars)
  BY <1>n DEF Joining!Next
<1>f. ASSUME NEW t \in Threads, thread[t] \in {"running"} \union Waits, t \notin Resuming \/ thread[t] \in Waits,
             thread' = [thread EXCEPT ![t] = "failed"], ChildLife' = ChildLife, Resuming' = Resuming
      PROVE  Joining!Fail(t)
  <2>1. LifeOf(thread[t]) \in {"running", "parked"} /\ LifeOf("failed") = "over"
    BY <1>f, Lives DEF Ended
  <2>2. Joining!LifeGoes(t, {"running", "parked"}, LifeOf("failed"))
    BY <1>f, <1>t, <2>1, LifeMoves
  <2> QED
    BY <1>f, <2>1, <2>2, Lives DEF Joining!Fail, ThreadLife
<1>w. 1 \in Calls /\ 1 \in Threads
  BY BoundsAssumption DEF Calls, Threads
<1>1. ASSUME NEW k \in Calls, Delegate(k) PROVE [Joining!Next]_(Joining!vars)
  <2>1. /\ Current \in Threads /\ thread[Current] \in {"running", "waitingCall"}
        /\ thread' = [thread EXCEPT ![Current] = "waitingChild"] /\ UNCHANGED <<resume, run>> /\ lock = 0
        /\ call[k] = "pending" /\ child' = [child EXCEPT ![k] = "ready"]
    BY <1>1, <1>t DEF Delegate, MayDelegate, CurrentThread, LockFree
  <2>2. LifeOf(thread[Current]) \in {"running", "parked"} /\ LifeOf("waitingChild") = "parked"
    BY <2>1, Lives DEF Waits, Waiting
  <2>3. Joining!LifeGoes(Current, {"running", "parked"}, "parked")
    <3>1. Joining!LifeGoes(Current, {"running", "parked"}, LifeOf("waitingChild"))
      BY <2>1, <2>2, <1>t, LifeMoves
    <3> QED
      BY <2>2, <3>1
  <2>4. child[k] = "none" /\ run[k] = "none"
    BY <2>1 DEF OnceInv
  <2>5. ChildLife[k] = "none" /\ ChildLife' = [ChildLife EXCEPT ![k] = "forked"]
    BY <2>1, <2>4, <1>t DEF ChildLife
  <2>6. Joining!Fork(k, Current)
    BY <2>1, <2>3, <2>5, <1>a, <1>r DEF Joining!Fork, Joining!ChildGoes
  <2> QED
    BY <2>1, <2>6, <1>n
<1>2. CASE (\E k \in Calls : RefuseCall(k)) \/ RecoverLostWait \/ WaitsDone
  BY <1>2, <1>r, <1>l, <1>c, <1>u DEF RefuseCall, RecoverLostWait, WaitsDone, parent, children
<1>3. CASE ReconcileCaller \/ ReconcileResource
  <2>1. CASE UNCHANGED parent
    BY <1>3, <2>1, <1>r, <1>l, <1>c, <1>u DEF ReconcileCaller, ReconcileResource, parent, children
  <2>2. CASE ~UNCHANGED parent
    <3>1. /\ Current \in Threads /\ thread[Current] \in Waits
          /\ thread' = [thread EXCEPT ![Current] = "failed"] /\ UNCHANGED <<resume, run, child>>
      BY <1>3, <2>2, <1>t DEF ReconcileCaller, ReconcileResource, CurrentThread, children, parent, Waits, Waiting
    <3>2. Joining!Fail(Current)
      BY <3>1, <1>f, <1>r, <1>c
    <3> QED
      BY <3>1, <3>2, <1>n, <1>w
  <2> QED
    BY <2>1, <2>2
<1>4. CASE Dispatch
  <2>1. \A t \in Threads : resume'[t].at \in {"none", "queued"} <=> resume[t].at \in {"none", "queued"}
    BY <1>4 DEF Dispatch, NoResume
  <2> QED
    BY <1>4, <2>1, <1>l, <1>c, <1>u, ResumingStays DEF Dispatch, parent, children
<1>5. CASE Repair
  <2>1. \A k \in UnlinkedChildren : run[k] = "ended"
    BY DEF UnlinkedChildren
  <2>2. /\ child' = [k \in Calls |-> IF k \in UnlinkedChildren THEN "ended" ELSE child[k]]
        /\ UNCHANGED <<run, thread, resume>>
    BY <1>5 DEF Repair, RepairWith
  <2>3. \A k \in Calls : run[k] = "none" => child'[k] = child[k]
    BY <2>1, <2>2
  <2> QED
    BY <2>2, <2>3, <1>l, <1>r, <1>u, ChildStays
<1>6. CASE FailStaleParent
  <2>1. /\ Current \in Threads /\ thread[Current] \in {"running"} \union Ended
        /\ thread' = [thread EXCEPT ![Current] = "failed"] /\ UNCHANGED <<resume, run, child>>
        /\ resume[Current].at = "none"
    BY <1>6, <1>t DEF FailStaleParent, CurrentThread, children, ParentActive, Ended
  <2>2. CASE thread[Current] = "running"
    <3>1. Joining!Fail(Current)
      BY <2>1, <2>2, <1>f, <1>a, <1>r, <1>c DEF Inside, Answering
    <3> QED
      BY <2>1, <3>1, <1>n, <1>w
  <2>3. CASE thread[Current] \in Ended
    <3>1. LifeOf(thread[Current]) = LifeOf("failed")
      BY <2>3, Lives DEF Ended
    <3>2. ThreadLife' = ThreadLife
      BY <2>1, <3>1, <1>t, LifeStays
    <3> QED
      BY <2>1, <3>2, <1>r, <1>c, <1>u
  <2> QED
    BY <2>1, <2>2, <2>3
<1>7. ASSUME NEW k \in Calls, FailStaleChild(k) PROVE [Joining!Next]_(Joining!vars)
  <2>1. /\ run' = [run EXCEPT ![k] = "ended"] /\ child' = [child EXCEPT ![k] = "ended"] /\ run[k] = "running"
        /\ child[k] = "active" /\ UNCHANGED <<thread, resume>>
    BY <1>7 DEF FailStaleChild, parent
  <2>2. \A j \in Calls : child'[j] = "none" <=> child[j] = "none"
    BY <2>1, <1>t
  <2>3. Joining!ChildGoes(k, "running", "ended")
    BY <2>1, <2>2, <1>t, ChildMoves
  <2>4. Joining!End(k)
    BY <2>1, <2>3, <1>l, <1>r DEF Joining!End
  <2> QED
    BY <2>4, <1>n, <1>w
<1>8. ASSUME NEW k \in Calls, ChildStep(k) PROVE [Joining!Next]_(Joining!vars)
  <2>1. ThreadLife' = ThreadLife /\ Resuming' = Resuming
    BY <1>8, <1>l, <1>r DEF ChildStep, Claim, Start, EndProcess, EndJob, RecordResult, Notify, NotifyIgnored,
                            ChildUnchanged, parent
  <2>b. \A d \in Kinds : Busy(k, d) => child[k] # "none"
    BY DEF OnceInv
  <2>2. ASSUME NEW d \in Kinds, Claim(k, d) PROVE [Joining!Next]_(Joining!vars)
    <3>1. \A j \in Calls : child'[j] = "none" <=> child[j] = "none"
      BY <2>2, <1>t DEF Claim
    <3> QED
      BY <2>1, <2>2, <3>1, <1>u, ChildStays DEF Claim
  <2>3. ASSUME NEW d \in Kinds, Start(k, d) PROVE [Joining!Next]_(Joining!vars)
    <3>1. run[k] = "none" /\ child[k] # "none" /\ run' = [run EXCEPT ![k] = "running"] /\ child' = child
      BY <2>3, <2>b DEF Start, At, OnceInv, Busy
    <3>2. Joining!ChildGoes(k, "forked", "running")
      BY <3>1, <1>t, ChildMoves
    <3>3. Joining!Run(k)
      BY <2>1, <3>2 DEF Joining!Run
    <3> QED
      BY <3>3, <1>n, <1>w
  <2>4. ASSUME NEW d \in Kinds, EndProcess(k, d) PROVE [Joining!Next]_(Joining!vars)
    <3>1. run[k] = "running" /\ run' = [run EXCEPT ![k] = "ended"] /\ child' = child
      BY <2>4 DEF EndProcess, At, StageInv
    <3>2. Joining!ChildGoes(k, "running", "ended")
      BY <3>1, <1>t, ChildMoves
    <3>3. Joining!End(k)
      BY <2>1, <3>2 DEF Joining!End
    <3> QED
      BY <3>3, <1>n, <1>w
  <2>5. ASSUME NEW d \in Kinds, EndJob(k, d) PROVE [Joining!Next]_(Joining!vars)
    <3>1. child[k] # "none" /\ child' = [child EXCEPT ![k] = "ended"] /\ run' = run
      BY <2>5, <2>b DEF EndJob, At, Busy
    <3>2. \A j \in Calls : child'[j] = "none" <=> child[j] = "none"
      BY <3>1, <1>t
    <3> QED
      BY <2>1, <3>1, <3>2, <1>u, ChildStays
  <2>6. CASE RecordResult(k) \/ Notify(k) \/ NotifyIgnored(k)
    BY <2>1, <2>6, <1>c, <1>u DEF RecordResult, Notify, NotifyIgnored, children
  <2> QED
    BY <1>8, <2>2, <2>3, <2>4, <2>5, <2>6 DEF ChildStep
<1>9. ASSUME NEW w \in Wakers, WakeStep(w) PROVE [Joining!Next]_(Joining!vars)
  <2>1. ChildLife' = ChildLife /\ Resuming' = Resuming
    BY <1>9, <1>c, <1>r DEF WakeStep, CompleteWait, CreateContinuation, ReadyParent, WakeUnchanged, children
  <2>2. wake[w].at # "none"
    BY <1>9 DEF WakeStep, CompleteWait, CreateContinuation, ReadyParent
  <2>3. Joining!SomeEnded
    BY <2>2, <1>e, Evidence
  <2>4. CASE CompleteWait(w)
    <3>1. /\ wake[w].on \in Threads /\ thread[wake[w].on] \in Waits \union Ended
          /\ thread' = [thread EXCEPT ![wake[w].on] = "completed"]
      BY <2>4, <1>p DEF CompleteWait
    <3>2. LifeOf("completed") = "over"
      BY Lives DEF Ended
    <3>3. CASE thread[wake[w].on] \in Waits
      <4>1. Joining!LifeGoes(wake[w].on, {"parked"}, LifeOf("completed"))
        BY <3>1, <3>3, <1>t, Lives, LifeMoves
      <4>2. Joining!Wake(wake[w].on)
        BY <2>1, <2>3, <3>2, <4>1 DEF Joining!Wake
      <4> QED
        BY <3>1, <4>2, <1>n, <1>w
    <3>4. CASE thread[wake[w].on] \in Ended
      <4>1. ThreadLife' = ThreadLife
        BY <3>1, <3>2, <3>4, <1>t, Lives, LifeStays
      <4> QED
        BY <2>1, <4>1, <1>u
    <3> QED
      BY <3>1, <3>3, <3>4
  <2>5. CASE CreateContinuation(w)
    <3>1. PICK t \in Threads : thread[t] = "none" /\ thread' = [thread EXCEPT ![t] = "ready"]
      BY <2>5 DEF CreateContinuation, Spare
    <3>2. Joining!LifeGoes(t, {"none"}, LifeOf("ready"))
      BY <3>1, <1>t, Lives, LifeMoves
    <3>3. Joining!Continue(t)
      BY <2>1, <2>3, <3>2, Lives DEF Joining!Continue
    <3> QED
      BY <3>3, <1>n, <1>w
  <2>6. CASE ReadyParent(w)
    BY <2>1, <2>6, <1>l, <1>u DEF ReadyParent
  <2> QED
    BY <1>9, <2>4, <2>5, <2>6 DEF WakeStep
<1>10. ASSUME NEW t \in Threads, ResumeStep(t) PROVE [Joining!Next]_(Joining!vars)
  <2>1. ChildLife' = ChildLife /\ \A s \in Threads \ {t} : resume'[s] = resume[s]
    BY <1>10, <1>c, <1>t DEF ResumeStep, BeginResume, ResumeRefused, RunThread, RunProcess, Answer, FinishThread,
                FinishProcess, FinishJob, RecordResume, ResumeUnchanged, children, Goes
  <2>2. CASE BeginResume(t)
    <3>1. resume'[t].at = "read" /\ thread[t] = "ready" /\ thread' = thread /\ lock = 0 /\ resume[t].at = "queued"
      BY <2>2, <1>t DEF BeginResume, LockFree, parent, Resumes
    <3>2. Resuming = {} /\ Resuming' = {t}
      BY <2>1, <3>1, <1>a DEF Resuming
    <3>3. ThreadLife[t] = "created" /\ ThreadLife' = ThreadLife
      BY <3>1, <1>l, Lives DEF ThreadLife
    <3>4. Joining!SomeEnded
      BY <3>1, <1>e, Evidence
    <3>5. Joining!Begin(t)
      BY <2>1, <3>2, <3>3, <3>4 DEF Joining!Begin
    <3> QED
      BY <3>5, <1>n, <1>w
  <2>3. CASE RunThread(t)
    <3>1. /\ resume[t].at = "read" /\ resume'[t].at = "thread" /\ thread[t] = "ready"
          /\ thread' = [thread EXCEPT ![t] = "running"]
      BY <2>3, <1>t, <1>p DEF RunThread, Goes, Resumes
    <3>2. Resuming' = Resuming /\ t \in Resuming
      BY <2>1, <3>1 DEF Resuming
    <3>3. Joining!LifeGoes(t, {"created"}, LifeOf("running"))
      BY <3>1, <1>t, Lives, LifeMoves
    <3>4. Joining!Enter(t)
      BY <2>1, <3>2, <3>3, Lives DEF Joining!Enter
    <3> QED
      BY <3>4, <1>n, <1>w
  <2>4. CASE FinishThread(t)
    <3>1. /\ resume[t].at = "answered" /\ resume'[t].at = "threadWritten" /\ thread[t] = "running"
          /\ thread' = [thread EXCEPT ![t] = resume[t].answer] /\ resume[t].answer \in Parking \union Ended
      BY <2>4, <1>t, <1>p DEF FinishThread, Goes, Resumes, Invoking, HandsOver, Answering
    <3>2. Resuming' = Resuming /\ t \in Resuming
      BY <2>1, <3>1 DEF Resuming
    <3>3. LifeOf(resume[t].answer) \in {"parked", "over"}
      BY <3>1, Lives DEF Waits, Waiting, Parking
    <3>4. Joining!LifeGoes(t, {"running"}, LifeOf(resume[t].answer))
      BY <3>1, <1>t, Lives, LifeMoves
    <3>5. Joining!Pause(t)
      BY <2>1, <3>2, <3>3, <3>4 DEF Joining!Pause
    <3> QED
      BY <3>5, <1>n, <1>w
  <2>5. CASE RunProcess(t) \/ Answer(t) \/ FinishProcess(t) \/ FinishJob(t) \/ ResumeRefused(t)
    <3>1. thread' = thread /\ (resume'[t].at \in {"none", "queued"} <=> resume[t].at \in {"none", "queued"})
      BY <2>5, <1>t DEF RunProcess, Answer, FinishProcess, FinishJob, ResumeRefused, Goes, Resumes, parent
    <3>2. Resuming' = Resuming
      BY <2>1, <3>1, ResumingStays
    <3> QED
      BY <2>1, <3>1, <3>2, <1>l, <1>u
  <2>6. CASE RecordResume(t)
    <3>1. resume[t].at = "jobWritten" /\ resume'[t].at = "none" /\ thread' = thread
      BY <2>6, <1>t DEF RecordResume, NoResume, parent
    <3>2. Resuming = {t} /\ Resuming' = {}
      <4>1. t \in Resuming
        BY <3>1 DEF Resuming
      <4>2. Resuming = {t}
        BY <4>1, <1>a
      <4> QED
        BY <2>1, <3>1, <4>2 DEF Resuming
    <3>3. Joining!Leave(t)
      BY <2>1, <3>1, <3>2, <1>l DEF Joining!Leave
    <3> QED
      BY <3>3, <1>n, <1>w
  <2> QED
    BY <1>10, <2>2, <2>3, <2>4, <2>5, <2>6 DEF ResumeStep
<1>11. CASE Fault
  <2>1. ChildLife' = ChildLife /\ ThreadLife' = ThreadLife
    BY <1>11, <1>l, <1>c DEF Fault, Crash, ChildFails, ResumeFails, FaultUnchanged, parent, children
  <2>2. Resuming' = Resuming \/ Resuming' = {}
    <3>1. CASE Crash
      BY <3>1 DEF Crash, NoResume, Resuming
    <3>2. ASSUME NEW k \in Calls, NEW d \in Kinds, ChildFails(k, d) PROVE Resuming' = Resuming
      BY <3>2, <1>r DEF ChildFails
    <3>3. ASSUME NEW t \in Threads, ResumeFails(t) PROVE Resuming' = {}
      <4>1. resume'[t].at = "none" /\ \A s \in Threads \ {t} : resume'[s] = resume[s] /\ lock # s
        BY <3>3, <1>t DEF ResumeFails, NoResume
      <4>2. \A s \in Threads \ {t} : s \notin Resuming
        BY <4>1, <1>a DEF LockHeld
      <4> QED
        BY <4>1, <4>2 DEF Resuming
    <3> QED
      BY <1>11, <3>1, <3>2, <3>3 DEF Fault
  <2>3. CASE Resuming' = Resuming
    BY <2>1, <2>3, <1>u
  <2>4. CASE Resuming # {} /\ Resuming' = {}
    <3>1. PICK t \in Resuming : Resuming = {t}
      BY <2>4, <1>a
    <3>2. t \in Threads /\ Joining!Leave(t)
      BY <2>1, <2>4, <3>1 DEF Joining!Leave, Resuming
    <3> QED
      BY <3>2, <1>n, <1>w
  <2> QED
    BY <2>2, <2>3, <2>4
<1>12. CASE UNCHANGED vars
  BY <1>12, <1>r, <1>l, <1>c, <1>u DEF vars, parent, children
<1> QED
  BY <1>1, <1>2, <1>3, <1>4, <1>5, <1>6, <1>7, <1>8, <1>9, <1>10, <1>11, <1>12 DEF Next, TickStep, TaskStep, Stale

\* Ticks, tasks, signals, recovery and faults implement the fork and the join
\* of a parent and its children.
THEOREM Implementation == Spec => ForksAndJoins
<1>1. Init => StageInv /\ PlaceInv
  <2> SUFFICES ASSUME Init PROVE StageInv /\ PlaceInv
    OBVIOUS
  <2>1. /\ \A k \in Calls, d \in Kinds : task[<<k, d>>].at = "none"
        /\ \A t \in Threads : resume[t].at = "none"
        /\ \A w \in Wakers : wake[w].at = "none"
    BY DEF Init, NoTask, NoResume, NoWake
  <2>2. "delegation" \in Kinds
    BY DEF Kinds
  <2> QED
    BY <2>1, <2>2 DEF StageInv, PlaceInv, Invoking, Answering
<1>2. Init => LockHeld
  BY DEF Init, LockHeld, NoResume, Inside, Answering
<1>3. Spec => []TypeInv
  BY TypeInit, TypeStep, PTL DEF Spec
<1>4. Spec => []EvidenceInv
  BY <1>3, EvidenceInit, EvidenceStep, Once, PTL DEF Spec
<1>5. Spec => [](StageInv /\ PlaceInv /\ LockHeld)
  BY <1>1, <1>2, StageStep, PlaceStep, LockStep, Once, TypeCorrect, PTL DEF Spec
<1> QED
  BY <1>3, <1>4, <1>5, ForkInit, ForkStep, Once, PTL DEF Spec, ForksAndJoins, Joining!Spec

===============================================================================
