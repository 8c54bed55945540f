--------------------------- MODULE SystemCallsProofs ---------------------------
(***************************************************************************)
(* What the inbox and the processor keep true of every call, for any       *)
(* number of calls, any keys and expiry times and any number of failures.  *)
(***************************************************************************)
EXTENDS SystemCalls, TLAPS

(***************************************************************************)
(* Where the kernel is in a pass, and with which call.                     *)
(***************************************************************************)
HandlingSteps == {"handling", "childMade", "threadBlocked", "answering"}
SettlingSteps == {"settling", "threadFailed", "processFailed"}

PassInv ==
    /\ cur = NoCall => from = None
    /\ pc = "handling" => from \in {"pending", "processing"}
    /\ pc \in {"claiming", "claimed"} => from = "pending"
    /\ from = "results" => pc \in SettlingSteps
    /\ pc \in {"idle", "reconciling"} \/ from \in {"pending", "results"} => moving = {}
    /\ cur \notin moving

(***************************************************************************)
(* A call the kernel handles has its file in processing.  At most one such *)
(* file belongs to a call without a result, because a pass takes the calls *)
(* it finds in processing before it claims another one: so the search for  *)
(* a result with the same key overlooks no call that has effects already.  *)
(***************************************************************************)
Open(c) == "processing" \in files[c] /\ result[c] = None

OpenInv ==
    /\ pc \in HandlingSteps \union {"claimed", "recording", "filing", "filed"} =>
          "processing" \in files[cur]
    /\ \A c \in moving : "processing" \in files[c]
    /\ \A c, d \in Calls : Open(c) /\ Open(d) => c = d
    /\ \A c \in Calls :
          Open(c) => \/ pc \in {"idle", "reconciling"} \/ from = "results" \/ c \in moving
                     \/ c = cur /\ pc \in HandlingSteps \union {"claimed"}

(***************************************************************************)
(* The answer in hand is the one on disk, and what is on disk by then.     *)
(***************************************************************************)
AnswerInv ==
    /\ pc \in {"childMade", "threadBlocked"} => result[cur] = None
    /\ pc = "answering" => outcome \in Outcomes /\ result[cur] \in {None, outcome}
    /\ pc \in {"recording", "filing", "filed"} => outcome \in Outcomes /\ result[cur] = outcome
    /\ pc \in {"filing", "filed"} => cur \in record
    /\ pc = "filed" => outcome \in files[cur]

(***************************************************************************)
(* A child without a result belongs to a call still in processing; a call  *)
(* taken from pending has none, nor has one about to be refused.           *)
(***************************************************************************)
ChildInv ==
    /\ \A c \in Calls : made[c] = IF child[c] = None THEN 0 ELSE 1
    /\ \A c \in Calls : child[c] # None /\ result[c] = None => Open(c)
    /\ pc \in {"claiming", "claimed"} \/ (pc = "handling" /\ from = "pending") =>
          (result[cur] = None => child[cur] = None)
    /\ pc = "answering" /\ outcome \in {"denied", "expired"} /\ result[cur] = None =>
          child[cur] = None

\* A caller that writes its records knows what it means to wait for.
GoalInv == \A c \in Calls : phase[c] \in {"thread", "process", "job"} => goal[c] # None

CallInv ==
    /\ PassInv /\ OpenInv /\ AnswerInv /\ ChildInv
    /\ FiledAsAnswered /\ RefusalsHaveNoEffect /\ OneChildPerKey

(***************************************************************************)
(* A success, on disk or in hand, is backed by a child job made for the    *)
(* call or for another one with its key.                                   *)
(***************************************************************************)
Delivered(c) == \E d \in Calls : Key[d] = Key[c] /\ made[d] > 0

SuccessInv ==
    /\ \A c \in Calls : result[c] = "completed" => Delivered(c)
    /\ pc = "answering" /\ outcome = "completed" => Delivered(cur)
    /\ pc \in {"childMade", "threadBlocked"} => Delivered(cur)

IInv == TypeOK /\ GoalInv /\ CallInv /\ SuccessInv

-------------------------------------------------------------------------------
LEMMA TypeInit == Init => TypeOK
BY CallsAssumption, ExpiryAssumption, BoundsAssumption DEF Init, TypeOK, Outcomes, Directories, None

LEMMA TypeStep == TypeOK /\ GoalInv /\ AnswerInv /\ [Next]_vars => TypeOK'
<1> SUFFICES ASSUME TypeOK, GoalInv, AnswerInv, [Next]_vars PROVE TypeOK'
  OBVIOUS
<1> USE CallsAssumption, ExpiryAssumption, BoundsAssumption
    DEF TypeOK, Outcomes, Directories, Failures, None, inbox, caller, kernel,
        KernelKeeps, CallerUnchanged
<1>1. ASSUME NEW c \in Calls, CheckInbox(c) PROVE TypeOK'
  BY <1>1 DEF CheckInbox
<1>2. ASSUME NEW c \in Calls, Submit(c) PROVE TypeOK'
  BY <1>2 DEF Submit
<1>3. ASSUME NEW c \in Calls, Return(c) PROVE TypeOK'
  <2>1. PICK g \in {"waitingCall", "waitingChild", "completed", "failed"} :
          /\ goal' = [goal EXCEPT ![c] = g]
          /\ \/ phase' = [phase EXCEPT ![c] = "done"]
             \/ phase' = [phase EXCEPT ![c] = "thread"]
    BY <1>3 DEF Return
  <2> QED
    BY <1>3, <2>1 DEF Return
<1>4. ASSUME NEW c \in Calls, WriteThread(c) PROVE TypeOK'
  BY <1>4 DEF WriteThread, GoalInv
<1>5. ASSUME NEW c \in Calls, WriteProcess(c) PROVE TypeOK'
  BY <1>5 DEF WriteProcess, GoalInv, Waits
<1>6. ASSUME NEW c \in Calls, WriteJob(c) PROVE TypeOK'
  BY <1>6 DEF WriteJob, GoalInv, Waits
<1>7. ASSUME NEW c \in Calls, RepeatCheck(c) PROVE TypeOK'
  BY <1>7 DEF RepeatCheck
<1>8. ASSUME NEW c \in Calls, RepeatSubmit(c) PROVE TypeOK'
  BY <1>8 DEF RepeatSubmit
<1>9. ASSUME NEW c \in Calls, EndChild(c) PROVE TypeOK'
  BY <1>9 DEF EndChild
<1>10. ASSUME NEW c \in Calls, TakeProcessing(c) PROVE TypeOK'
  BY <1>10 DEF TakeProcessing
<1>11. ASSUME NEW c \in Calls, TakePending(c) PROVE TypeOK'
  BY <1>11 DEF TakePending
<1>12. ASSUME NEW c \in Calls, Reconcile(c) PROVE TypeOK'
  BY <1>12 DEF Reconcile
<1>13. CASE BeginPass
  BY <1>13 DEF BeginPass
<1>14. CASE LinkProcessing
  BY <1>14 DEF LinkProcessing, Link
<1>15. CASE UnlinkPending
  BY <1>15 DEF UnlinkPending, Unlink
<1>16. CASE ReuseResult
  BY <1>16 DEF ReuseResult, Answer, Fresh, Dispatched, Twins
<1>17. CASE RecoverEffects
  BY <1>17 DEF RecoverEffects, Answer, Fresh, Dispatched, Twins
<1>18. CASE Expire
  BY <1>18 DEF Expire, Answer, Fresh, Dispatched, Twins
<1>19. CASE Replay
  BY <1>19 DEF Replay, Answer, Fresh, Dispatched, Twins
<1>20. CASE Deny
  BY <1>20 DEF Deny, Answer, Fresh, Dispatched, Twins
<1>21. CASE RejectParent
  BY <1>21 DEF RejectParent, Answer, Fresh, Dispatched, Twins
<1>22. CASE CreateChild
  BY <1>22 DEF CreateChild, Dispatched, Fresh
<1>23. CASE BlockThread
  BY <1>23 DEF BlockThread
<1>24. CASE BlockProcess
  BY <1>24 DEF BlockProcess
<1>25. CASE PersistResult
  BY <1>25 DEF PersistResult
<1>26. CASE RecordSubmission
  BY <1>26 DEF RecordSubmission
<1>27. CASE LinkFinal
  BY <1>27 DEF LinkFinal, Link, AnswerInv
<1>28. CASE UnlinkProcessing
  BY <1>28 DEF UnlinkProcessing, Unlink
<1>29. CASE AbortPass
  BY <1>29 DEF AbortPass, EndPass
<1>30. CASE FinishPass
  BY <1>30 DEF FinishPass, EndPass
<1>31. CASE SettleNobody
  BY <1>31 DEF SettleNobody, Resume
<1>32. CASE FailThread
  BY <1>32 DEF FailThread
<1>33. CASE FailProcess
  BY <1>33 DEF FailProcess
<1>34. CASE FailJob
  BY <1>34 DEF FailJob, Resume
<1>35. CASE RecoverParents
  BY <1>35 DEF RecoverParents
<1>36. CASE Tick
  BY <1>36 DEF Tick
<1>37. CASE FailDelegation
  BY <1>37 DEF FailDelegation
<1>38. CASE Crash
  BY <1>38 DEF Crash
<1>39. CASE UNCHANGED vars
  BY <1>39 DEF vars, kernel
<1> QED
  BY <1>1, <1>2, <1>3, <1>4, <1>5, <1>6, <1>7, <1>8, <1>9, <1>10, <1>11, <1>12, <1>13, <1>14,
     <1>15, <1>16, <1>17, <1>18, <1>19, <1>20, <1>21, <1>22, <1>23, <1>24, <1>25, <1>26, <1>27,
     <1>28, <1>29, <1>30, <1>31, <1>32, <1>33, <1>34, <1>35, <1>36, <1>37, <1>38, <1>39 DEF Next,
     KernelStep, Handle, CallerStep

-------------------------------------------------------------------------------
(***************************************************************************)
(* What the steps of the callers, of their children and of the clock leave *)
(* alone.                                                                  *)
(***************************************************************************)
core == <<files, result, record, child, pc, moving, cur, from, outcome, made>>

LEMMA CallStep == IInv /\ [Next]_vars => CallInv'
<1> SUFFICES ASSUME IInv, [Next]_vars PROVE CallInv'
  OBVIOUS
<1> USE DEF None, Outcomes, Failures, inbox, caller, kernel, KernelKeeps, CallerUnchanged
<1>0. /\ files \in [Calls -> SUBSET Directories]
      /\ result \in [Calls -> Outcomes \union {None}] /\ record \subseteq Calls
      /\ child \in [Calls -> {None, "ready", "ended"}]
      /\ moving \subseteq Calls
      /\ cur \in Calls \union {NoCall} /\ NoCall \notin Calls
      /\ (cur = NoCall) <=> (pc \in {"idle", "pass", "reconciling"})
      /\ outcome \in Outcomes \union {None}
      /\ made \in [Calls -> Nat]
  BY CallsAssumption DEF IInv, TypeOK
<1>1. CASE UNCHANGED core
  BY <1>1 DEF core, IInv, CallInv, PassInv, OpenInv, Open, AnswerInv, ChildInv, FiledAsAnswered,
     RefusalsHaveNoEffect, OneChildPerKey
<1>2. ASSUME NEW c \in Calls, Submit(c) \/ RepeatSubmit(c) PROVE CallInv'
  BY <1>0, <1>2 DEF Submit, RepeatSubmit, IInv, CallInv, PassInv, OpenInv, Open, HandlingSteps,
     SettlingSteps, AnswerInv, ChildInv, FiledAsAnswered,
     RefusalsHaveNoEffect, OneChildPerKey
<1>3. ASSUME NEW c \in Calls, EndChild(c) PROVE CallInv'
  BY <1>0, <1>3 DEF EndChild, IInv, CallInv, PassInv, OpenInv, Open, HandlingSteps,
     SettlingSteps, AnswerInv, ChildInv, FiledAsAnswered,
     RefusalsHaveNoEffect, OneChildPerKey
<1>4. ASSUME NEW c \in Calls, TakeProcessing(c) PROVE CallInv'
  BY <1>0, <1>4 DEF TakeProcessing, IInv, CallInv, PassInv, OpenInv, Open, HandlingSteps,
     SettlingSteps, AnswerInv, ChildInv, FiledAsAnswered,
     RefusalsHaveNoEffect, OneChildPerKey
<1>5. ASSUME NEW c \in Calls, TakePending(c) PROVE CallInv'
  BY <1>0, <1>5 DEF TakePending, IInv, CallInv, PassInv, OpenInv, Open, HandlingSteps,
     SettlingSteps, AnswerInv, ChildInv, FiledAsAnswered,
     RefusalsHaveNoEffect, OneChildPerKey
<1>6. ASSUME NEW c \in Calls, Reconcile(c) PROVE CallInv'
  BY <1>0, <1>6 DEF Reconcile, IInv, CallInv, PassInv, OpenInv, Open, HandlingSteps,
     SettlingSteps, AnswerInv, ChildInv, FiledAsAnswered,
     RefusalsHaveNoEffect, OneChildPerKey
<1>7. CASE BeginPass
  BY <1>0, <1>7 DEF BeginPass, IInv, CallInv, PassInv, OpenInv, Open, HandlingSteps,
     SettlingSteps, AnswerInv, ChildInv, FiledAsAnswered,
     RefusalsHaveNoEffect, OneChildPerKey
<1>8. CASE LinkProcessing
  BY <1>0, <1>8 DEF LinkProcessing, Link, IInv, CallInv, PassInv, OpenInv, Open, HandlingSteps,
     SettlingSteps, AnswerInv, ChildInv, FiledAsAnswered,
     RefusalsHaveNoEffect, OneChildPerKey
<1>9. CASE UnlinkPending
  BY <1>0, <1>9 DEF UnlinkPending, Unlink, IInv, CallInv, PassInv, OpenInv, Open, HandlingSteps,
     SettlingSteps, AnswerInv, ChildInv, FiledAsAnswered,
     RefusalsHaveNoEffect, OneChildPerKey
<1>10. CASE ReuseResult
  BY <1>0, <1>10 DEF ReuseResult, Answer, IInv, CallInv, PassInv, OpenInv, Open, HandlingSteps,
     SettlingSteps, AnswerInv, ChildInv, FiledAsAnswered,
     RefusalsHaveNoEffect, OneChildPerKey
<1>11. CASE RecoverEffects
  BY <1>0, <1>11 DEF RecoverEffects, Answer, IInv, CallInv, PassInv, OpenInv, Open,
     HandlingSteps, SettlingSteps, AnswerInv, ChildInv, FiledAsAnswered,
     RefusalsHaveNoEffect, OneChildPerKey
<1>12. CASE Expire
  BY <1>0, <1>12 DEF Expire, Answer, Fresh, IInv, CallInv, PassInv, OpenInv, Open, HandlingSteps,
     SettlingSteps, AnswerInv, ChildInv, FiledAsAnswered,
     RefusalsHaveNoEffect, OneChildPerKey
<1>13. CASE Replay
  BY <1>0, <1>13 DEF Replay, Answer, Fresh, Dispatched, Expired, Twins, IInv, CallInv, PassInv,
     OpenInv, Open, HandlingSteps, SettlingSteps, AnswerInv, ChildInv, FiledAsAnswered,
     RefusalsHaveNoEffect, OneChildPerKey
<1>14. CASE Deny
  BY <1>0, <1>14 DEF Deny, Answer, Fresh, Dispatched, Expired, Twins, IInv, CallInv, PassInv,
     OpenInv, Open, HandlingSteps, SettlingSteps, AnswerInv, ChildInv, FiledAsAnswered,
     RefusalsHaveNoEffect, OneChildPerKey
<1>15. CASE RejectParent
  BY <1>0, <1>15 DEF RejectParent, Answer, Fresh, Dispatched, Expired, Twins, IInv, CallInv,
     PassInv, OpenInv, Open, HandlingSteps, SettlingSteps, AnswerInv, ChildInv, FiledAsAnswered,
     RefusalsHaveNoEffect, OneChildPerKey
<1>16. CASE CreateChild
  <2>1. /\ pc = "handling" /\ cur \in Calls
        /\ result[cur] = None /\ Open(cur) /\ child[cur] = None
    BY <1>0, <1>16 DEF CreateChild, Dispatched, Fresh, IInv, CallInv, PassInv, OpenInv, Open,
       HandlingSteps, ChildInv
  \* No other call with this key has a child: with a result it would be found
  \* by findExistingIdempotentResult, without one it would be in processing.
  <2>2. ASSUME NEW d \in Calls, d # cur, Key[d] = Key[cur] PROVE made[d] = 0
    <3>1. result[d] = None
      BY <1>16, <2>2 DEF CreateChild, Dispatched, Twins
    <3>2. ~Open(d)
      BY <2>1, <2>2 DEF IInv, CallInv, OpenInv
    <3> QED
      BY <3>1, <3>2 DEF IInv, CallInv, ChildInv
  <2>3. PassInv' /\ OpenInv' /\ AnswerInv' /\ ChildInv'
    BY <1>0, <1>16, <2>1 DEF CreateChild, IInv, CallInv, PassInv, OpenInv, Open, HandlingSteps,
       SettlingSteps, AnswerInv, ChildInv
  <2>4. FiledAsAnswered' /\ RefusalsHaveNoEffect'
    BY <1>0, <1>16, <2>1 DEF CreateChild, IInv, CallInv, FiledAsAnswered, RefusalsHaveNoEffect
  <2>5. OneChildPerKey'
    BY <1>0, <1>16, <2>1, <2>2 DEF CreateChild, IInv, CallInv, OneChildPerKey, ChildInv
  <2> QED
    BY <2>3, <2>4, <2>5 DEF CallInv
<1>17. CASE BlockThread
  BY <1>0, <1>17 DEF BlockThread, IInv, CallInv, PassInv, OpenInv, Open, HandlingSteps,
     SettlingSteps, AnswerInv, ChildInv, FiledAsAnswered,
     RefusalsHaveNoEffect, OneChildPerKey
<1>18. CASE BlockProcess
  BY <1>0, <1>18 DEF BlockProcess, IInv, CallInv, PassInv, OpenInv, Open, HandlingSteps,
     SettlingSteps, AnswerInv, ChildInv, FiledAsAnswered,
     RefusalsHaveNoEffect, OneChildPerKey
<1>19. CASE FailDelegation
  BY <1>0, <1>19 DEF FailDelegation, IInv, CallInv, PassInv, OpenInv, Open, HandlingSteps,
     SettlingSteps, AnswerInv, ChildInv, FiledAsAnswered,
     RefusalsHaveNoEffect, OneChildPerKey
<1>20. CASE PersistResult
  BY <1>0, <1>20 DEF PersistResult, IInv, CallInv, PassInv, OpenInv, Open, HandlingSteps,
     SettlingSteps, AnswerInv, ChildInv, FiledAsAnswered,
     RefusalsHaveNoEffect, OneChildPerKey
<1>21. CASE RecordSubmission
  BY <1>0, <1>21 DEF RecordSubmission, IInv, CallInv, PassInv, OpenInv, Open, HandlingSteps,
     SettlingSteps, AnswerInv, ChildInv, FiledAsAnswered,
     RefusalsHaveNoEffect, OneChildPerKey
<1>22. CASE LinkFinal
  BY <1>0, <1>22 DEF LinkFinal, Link, IInv, CallInv, PassInv, OpenInv, Open, HandlingSteps,
     SettlingSteps, AnswerInv, ChildInv, FiledAsAnswered,
     RefusalsHaveNoEffect, OneChildPerKey
<1>23. CASE UnlinkProcessing
  BY <1>0, <1>23 DEF UnlinkProcessing, Unlink, IInv, CallInv, PassInv, OpenInv, Open,
     HandlingSteps, SettlingSteps, AnswerInv, ChildInv, FiledAsAnswered,
     RefusalsHaveNoEffect, OneChildPerKey
<1>24. CASE AbortPass
  BY <1>0, <1>24 DEF AbortPass, EndPass, IInv, CallInv, PassInv, OpenInv, Open, HandlingSteps,
     SettlingSteps, AnswerInv, ChildInv, FiledAsAnswered,
     RefusalsHaveNoEffect, OneChildPerKey
<1>25. CASE FinishPass
  BY <1>0, <1>25 DEF FinishPass, EndPass, IInv, CallInv, PassInv, OpenInv, Open, HandlingSteps,
     SettlingSteps, AnswerInv, ChildInv, FiledAsAnswered,
     RefusalsHaveNoEffect, OneChildPerKey
<1>26. CASE SettleNobody
  BY <1>0, <1>26 DEF SettleNobody, Resume, IInv, CallInv, PassInv, OpenInv, Open, HandlingSteps,
     SettlingSteps, AnswerInv, ChildInv, FiledAsAnswered,
     RefusalsHaveNoEffect, OneChildPerKey
<1>27. CASE FailThread
  BY <1>0, <1>27 DEF FailThread, IInv, CallInv, PassInv, OpenInv, Open, HandlingSteps,
     SettlingSteps, AnswerInv, ChildInv, FiledAsAnswered,
     RefusalsHaveNoEffect, OneChildPerKey
<1>28. CASE FailProcess
  BY <1>0, <1>28 DEF FailProcess, IInv, CallInv, PassInv, OpenInv, Open, HandlingSteps,
     SettlingSteps, AnswerInv, ChildInv, FiledAsAnswered,
     RefusalsHaveNoEffect, OneChildPerKey
<1>29. CASE FailJob
  BY <1>0, <1>29 DEF FailJob, Resume, IInv, CallInv, PassInv, OpenInv, Open, HandlingSteps,
     SettlingSteps, AnswerInv, ChildInv, FiledAsAnswered,
     RefusalsHaveNoEffect, OneChildPerKey
<1>30. CASE RecoverParents
  BY <1>0, <1>30 DEF RecoverParents, IInv, CallInv, PassInv, OpenInv, Open, HandlingSteps,
     SettlingSteps, AnswerInv, ChildInv, FiledAsAnswered,
     RefusalsHaveNoEffect, OneChildPerKey
<1>31. CASE Crash
  BY <1>0, <1>31 DEF Crash, IInv, CallInv, PassInv, OpenInv, Open, HandlingSteps, SettlingSteps,
     AnswerInv, ChildInv, FiledAsAnswered,
     RefusalsHaveNoEffect, OneChildPerKey
<1>32. ASSUME NEW c \in Calls, CheckInbox(c) \/ CallerStep(c) \/ RepeatCheck(c) PROVE CallInv'
  BY <1>1, <1>32 DEF core, CheckInbox, CallerStep, Return, WriteThread, WriteProcess, WriteJob,
     RepeatCheck
<1>33. CASE Tick \/ UNCHANGED vars
  BY <1>1, <1>33 DEF core, Tick, vars
<1> QED
  BY <1>2, <1>3, <1>4, <1>5, <1>6, <1>7, <1>8, <1>9, <1>10, <1>11, <1>12, <1>13, <1>14, <1>15,
     <1>16, <1>17, <1>18, <1>19, <1>20, <1>21, <1>22, <1>23, <1>24, <1>25, <1>26, <1>27, <1>28,
     <1>29, <1>30, <1>31, <1>32, <1>33
  DEF Next, KernelStep, Handle, vars

LEMMA GoalStep == TypeOK /\ GoalInv /\ [Next]_vars => GoalInv'
<1> SUFFICES ASSUME TypeOK, GoalInv, [Next]_vars PROVE GoalInv'
  OBVIOUS
<1>0. /\ phase \in [Calls -> {"invoking", "checked", "submitted", "thread", "process", "job", "done"}]
      /\ goal \in [Calls -> {None, "waitingCall", "waitingChild", "completed", "failed"}]
  BY DEF TypeOK
<1>1. CASE UNCHANGED <<phase, goal>>
  BY <1>1 DEF GoalInv
<1>2. ASSUME NEW c \in Calls, Return(c) PROVE GoalInv'
  <2>1. PICK g \in {"waitingCall", "waitingChild", "completed", "failed"} : goal' = [goal EXCEPT ![c] = g]
    BY <1>2 DEF Return
  <2>2. \A d \in Calls : d # c => phase'[d] = phase[d]
    BY <1>0, <1>2 DEF Return
  <2> QED
    BY <1>0, <2>1, <2>2 DEF GoalInv, None
<1>3. ASSUME NEW c \in Calls,
             CheckInbox(c) \/ Submit(c) \/ WriteThread(c) \/ WriteProcess(c) \/ WriteJob(c)
      PROVE GoalInv'
  BY <1>0, <1>3 DEF GoalInv, CheckInbox, Submit, WriteThread, WriteProcess, WriteJob
<1>4. CASE Crash
  BY <1>0, <1>4 DEF GoalInv, Crash
<1>5. KernelStep => UNCHANGED <<phase, goal>>
  BY DEF KernelStep, KernelKeeps, BeginPass, TakeProcessing, TakePending, LinkProcessing, Link,
     UnlinkPending, Unlink, Handle, ReuseResult, RecoverEffects, Expire, Replay, Deny, RejectParent,
     Answer, CreateChild, BlockThread, BlockProcess, PersistResult, RecordSubmission, LinkFinal,
     UnlinkProcessing, AbortPass, FinishPass, SettleNobody, FailThread, FailProcess, FailJob,
     Reconcile, RecoverParents
<1>6. ASSUME NEW c \in Calls, RepeatCheck(c) \/ RepeatSubmit(c) \/ EndChild(c)
      PROVE UNCHANGED <<phase, goal>>
  BY <1>6 DEF RepeatCheck, RepeatSubmit, EndChild, caller
<1>7. Tick \/ FailDelegation \/ UNCHANGED vars => UNCHANGED <<phase, goal>>
  BY DEF Tick, FailDelegation, vars, caller
<1> QED
  BY <1>1, <1>2, <1>3, <1>4, <1>5, <1>6, <1>7 DEF Next, CallerStep

(***************************************************************************)
(* Answers are written and child jobs are made in one action each.         *)
(***************************************************************************)
LEMMA AnswersStay ==
    [Next]_vars => CreateChild \/ PersistResult \/ UNCHANGED <<result, made>>
<1> SUFFICES ASSUME [Next]_vars, ~CreateChild, ~PersistResult PROVE UNCHANGED <<result, made>>
  OBVIOUS
<1>1. KernelStep => UNCHANGED <<result, made>>
  BY DEF KernelStep, inbox, BeginPass, TakeProcessing, TakePending, LinkProcessing, Link,
     UnlinkPending, Unlink, Handle, ReuseResult, RecoverEffects, Expire, Replay, Deny, RejectParent,
     Answer, BlockThread, BlockProcess, RecordSubmission, LinkFinal, UnlinkProcessing, AbortPass,
     FinishPass, SettleNobody, FailThread, FailProcess, FailJob, Reconcile, RecoverParents
<1>2. ASSUME NEW c \in Calls, CheckInbox(c) \/ Submit(c) \/ CallerStep(c)
      PROVE UNCHANGED <<result, made>>
  BY <1>2 DEF CheckInbox, Submit, CallerStep, Return, WriteThread, WriteProcess, WriteJob,
     CallerUnchanged
<1>3. ASSUME NEW c \in Calls, RepeatCheck(c) \/ RepeatSubmit(c) \/ EndChild(c)
      PROVE UNCHANGED <<result, made>>
  BY <1>3 DEF RepeatCheck, RepeatSubmit, EndChild, inbox
<1>4. Tick \/ FailDelegation \/ Crash \/ UNCHANGED vars => UNCHANGED <<result, made>>
  BY DEF Tick, FailDelegation, Crash, vars, inbox
<1> QED
  BY <1>1, <1>2, <1>3, <1>4 DEF Next

LEMMA SuccessStep == IInv /\ [Next]_vars => SuccessInv'
<1> SUFFICES ASSUME IInv, [Next]_vars PROVE SuccessInv'
  OBVIOUS
<1>0. /\ made \in [Calls -> Nat] /\ result \in [Calls -> Outcomes \union {None}]
      /\ cur = NoCall <=> pc \in {"idle", "pass", "reconciling"}
      /\ cur \in Calls \union {NoCall}
      /\ \A c \in Calls : made[c] = IF child[c] = None THEN 0 ELSE 1
      /\ SuccessInv
  BY DEF IInv, TypeOK, CallInv, ChildInv
<1>1. CASE CreateChild
  <2>1. cur \in Calls /\ made'[cur] > 0
    BY <1>0, <1>1 DEF CreateChild, Dispatched, Fresh
  <2>2. Delivered(cur)' /\ cur' = cur
    BY <1>1, <2>1 DEF CreateChild, Delivered
  <2>3. \A c \in Calls : Delivered(c) => Delivered(c)'
    BY <1>0, <1>1, <2>1 DEF CreateChild, Delivered
  <2> QED
    BY <1>0, <1>1, <2>2, <2>3 DEF CreateChild, SuccessInv, inbox
<1>2. CASE PersistResult
  <2>1. \A c : Delivered(c)' <=> Delivered(c)
    BY <1>2 DEF PersistResult, Delivered
  <2>2. ASSUME NEW c \in Calls, result'[c] = "completed" PROVE Delivered(c)
    BY <1>0, <1>2, <2>2 DEF PersistResult, SuccessInv
  <2> QED
    BY <1>2, <2>1, <2>2 DEF PersistResult, SuccessInv
<1>3. ASSUME ~CreateChild, ~PersistResult PROVE SuccessInv'
  <2>1. UNCHANGED <<result, made>>
    BY <1>3, AnswersStay
  <2>2. \A c : Delivered(c)' <=> Delivered(c)
    BY <2>1 DEF Delivered
  <2>3. CASE UNCHANGED <<pc, cur, outcome>>
    BY <1>0, <2>1, <2>2, <2>3 DEF SuccessInv
  <2>4. CASE ReuseResult
    BY <1>0, <2>1, <2>2, <2>4 DEF ReuseResult, Answer, SuccessInv
  <2>5. CASE RecoverEffects
    <3>1. Delivered(cur)
      BY <1>0, <2>5 DEF RecoverEffects, Delivered
    <3> QED
      BY <1>0, <2>1, <2>2, <2>5, <3>1 DEF RecoverEffects, Answer, SuccessInv
  <2>6. CASE Replay
    <3>1. PICK d \in Twins(cur) : outcome' = result[d]
      BY <2>6 DEF Replay, Answer
    <3>2. result[d] = "completed" => Delivered(cur)
      BY <1>0, <3>1 DEF Twins, SuccessInv, Delivered
    <3> QED
      BY <1>0, <2>1, <2>2, <2>6, <3>1, <3>2 DEF Replay, Answer, SuccessInv
  <2>7. CASE Expire \/ Deny \/ RejectParent
    BY <1>0, <2>1, <2>2, <2>7 DEF Expire, Deny, RejectParent, Answer, SuccessInv
  <2>8. CASE BlockThread \/ BlockProcess \/ FailDelegation
    BY <1>0, <2>1, <2>2, <2>8 DEF BlockThread, BlockProcess, FailDelegation, SuccessInv
  <2>9. CASE LinkProcessing \/ UnlinkPending \/ RecordSubmission \/ LinkFinal \/ UnlinkProcessing
    BY <1>0, <2>1, <2>2, <2>9 DEF LinkProcessing, Link, UnlinkPending, Unlink, RecordSubmission,
       LinkFinal, UnlinkProcessing, SuccessInv
  <2>10. CASE BeginPass \/ AbortPass \/ FinishPass \/ RecoverParents \/ Crash
    BY <1>0, <2>1, <2>2, <2>10 DEF BeginPass, AbortPass, FinishPass, EndPass, RecoverParents, Crash,
       SuccessInv
  <2>11. CASE SettleNobody \/ FailThread \/ FailProcess \/ FailJob
    BY <1>0, <2>1, <2>2, <2>11 DEF SettleNobody, FailThread, FailProcess, FailJob, Resume, SuccessInv
  <2>12. ASSUME NEW c \in Calls, TakeProcessing(c) \/ TakePending(c) \/ Reconcile(c)
         PROVE SuccessInv'
    BY <1>0, <2>1, <2>2, <2>12 DEF TakeProcessing, TakePending, Reconcile, SuccessInv
  <2>13. ASSUME NEW c \in Calls, CheckInbox(c) \/ Submit(c) \/ CallerStep(c)
         PROVE UNCHANGED <<pc, cur, outcome>>
    BY <2>13 DEF CheckInbox, Submit, CallerStep, Return, WriteThread, WriteProcess, WriteJob,
       CallerUnchanged, kernel
  <2>14. ASSUME NEW c \in Calls, RepeatCheck(c) \/ RepeatSubmit(c) \/ EndChild(c)
         PROVE UNCHANGED <<pc, cur, outcome>>
    BY <2>14 DEF RepeatCheck, RepeatSubmit, EndChild, kernel
  <2>15. Tick \/ UNCHANGED vars => UNCHANGED <<pc, cur, outcome>>
    BY DEF Tick, vars, kernel
  <2> QED
    BY <1>3, <2>3, <2>4, <2>5, <2>6, <2>7, <2>8, <2>9, <2>10, <2>11, <2>12, <2>13, <2>14, <2>15
    DEF Next, KernelStep, Handle
<1> QED
  BY <1>1, <1>2, <1>3

-------------------------------------------------------------------------------
LEMMA InitInv == Init => IInv
BY TypeInit, CallsAssumption
   DEF Init, IInv, GoalInv, CallInv, PassInv, OpenInv, Open, HandlingSteps, AnswerInv, ChildInv,
       FiledAsAnswered, RefusalsHaveNoEffect, OneChildPerKey, SuccessInv,
       None, Outcomes

THEOREM Invariance == Spec => []IInv
<1>1. IInv /\ [Next]_vars => IInv'
  BY TypeStep, GoalStep, CallStep, SuccessStep DEF IInv, CallInv
<1> QED
  BY InitInv, <1>1, PTL DEF Spec

\* Every variable stays in its domain: needs the invariant, since the kernel
\* files a call under the answer it holds.
THEOREM TypeCorrect == Spec => []TypeOK
<1>1. IInv => TypeOK
  BY DEF IInv
<1> QED
  BY Invariance, <1>1, PTL

\* One idempotency key makes at most one child job, whatever fails and however
\* often a call is submitted or handled again.
THEOREM ChildOnce == Spec => []OneChildPerKey
<1>1. IInv => OneChildPerKey
  BY DEF IInv, CallInv
<1> QED
  BY Invariance, <1>1, PTL

\* A refused or expired call has made no child job in any try.
THEOREM RefusalsClean == Spec => []RefusalsHaveNoEffect
<1>1. IInv => RefusalsHaveNoEffect
  BY DEF IInv, CallInv
<1> QED
  BY Invariance, <1>1, PTL

\* A call is filed only under the result it was given, with its record.
THEOREM FiledTruthfully == Spec => []FiledAsAnswered
<1>1. IInv => FiledAsAnswered
  BY DEF IInv, CallInv
<1> QED
  BY Invariance, <1>1, PTL

\* No step takes the last file of a call away: an unlink always finds the link
\* that moveSystemCall made before it.
THEOREM CallsStay == Spec => NoCallLost
<1> DEFINE Kept == \A c \in Calls : files[c] # {} => files'[c] # {}
<1>1. IInv /\ [Next]_vars => [Kept]_vars
  <2> SUFFICES ASSUME IInv, Next PROVE Kept
    OBVIOUS
  <2>0. files \in [Calls -> SUBSET Directories]
    BY DEF IInv, TypeOK
  <2>1. CASE UNCHANGED files
    BY <2>1
  <2>2. ASSUME NEW c \in Calls, NEW o, files' = [files EXCEPT ![c] = @ \union {o}] PROVE Kept
    BY <2>0, <2>2
  <2>3. CASE UnlinkPending
    <3>1. "processing" \in files[cur]
      BY <2>3 DEF UnlinkPending, IInv, CallInv, OpenInv
    <3> QED
      BY <2>0, <2>3, <3>1 DEF UnlinkPending, Unlink
  <2>4. CASE UnlinkProcessing
    <3>1. outcome \in files[cur] /\ outcome # "processing"
      BY <2>4 DEF UnlinkProcessing, IInv, CallInv, AnswerInv, Outcomes
    <3> QED
      BY <2>0, <2>4, <3>1 DEF UnlinkProcessing, Unlink
  <2>5. ASSUME NEW c \in Calls, Submit(c) \/ RepeatSubmit(c) PROVE Kept
    BY <2>2, <2>5 DEF Submit, RepeatSubmit
  <2>6. CASE LinkProcessing
    <3>1. cur \in Calls
      BY <2>6 DEF LinkProcessing, IInv, TypeOK
    <3> QED
      BY <2>2, <2>6, <3>1 DEF LinkProcessing, Link
  <2>7. CASE LinkFinal
    <3>1. cur \in Calls
      BY <2>7 DEF LinkFinal, IInv, TypeOK
    <3> QED
      BY <2>2, <2>7, <3>1 DEF LinkFinal, Link
  <2>8. ASSUME NEW c \in Calls,
               \/ CheckInbox(c) \/ CallerStep(c) \/ RepeatCheck(c) \/ EndChild(c)
               \/ TakeProcessing(c) \/ TakePending(c) \/ Reconcile(c)
        PROVE UNCHANGED files
    BY <2>8 DEF CheckInbox, CallerStep, Return, WriteThread, WriteProcess, WriteJob, RepeatCheck,
       EndChild, TakeProcessing, TakePending, Reconcile, inbox
  <2>9. BeginPass \/ Handle \/ AbortPass \/ FinishPass \/ RecoverParents => UNCHANGED files
    BY DEF BeginPass, Handle, ReuseResult, RecoverEffects, Expire, Replay, Deny, RejectParent,
       Answer, CreateChild, BlockThread, BlockProcess, AbortPass, FinishPass, RecoverParents, inbox
  <2>10. PersistResult \/ RecordSubmission \/ SettleNobody \/ FailThread \/ FailProcess \/ FailJob
           => UNCHANGED files
    BY DEF PersistResult, RecordSubmission, SettleNobody, FailThread, FailProcess, FailJob, inbox
  <2>11. Tick \/ FailDelegation \/ Crash => UNCHANGED files
    BY DEF Tick, FailDelegation, Crash, inbox
  <2> QED
    BY <2>1, <2>3, <2>4, <2>5, <2>6, <2>7, <2>8, <2>9, <2>10, <2>11 DEF Next, KernelStep
<1> QED
  BY Invariance, <1>1, PTL DEF Spec, NoCallLost

(***************************************************************************)
(* The processor implements CallContract: PersistResult answers a call,    *)
(* CreateChild makes its child, every other step is invisible.             *)
(***************************************************************************)
LEMMA ContractStep ==
    IInv /\ IInv' /\ [Next]_vars => [Contract!Next]_<<result, {c \in Calls : made[c] > 0}>>
<1> SUFFICES ASSUME IInv, IInv', [Next]_vars
             PROVE Contract!Next \/ UNCHANGED <<result, {c \in Calls : made[c] > 0}>>
  OBVIOUS
<1> DEFINE children == {c \in Calls : made[c] > 0}
<1>0. /\ made \in [Calls -> Nat] /\ result \in [Calls -> Outcomes \union {None}]
      /\ cur = NoCall <=> pc \in {"idle", "pass", "reconciling"}
      /\ cur \in Calls \union {NoCall}
      /\ SuccessInv /\ AnswerInv /\ ChildInv /\ OneChildPerKey'
  BY DEF IInv, TypeOK, CallInv
<1>1. CASE CreateChild
  <2>1. cur \in Calls /\ result[cur] = None /\ result' = result
    BY <1>0, <1>1 DEF CreateChild, Dispatched, Fresh, inbox
  <2>2. made' = [made EXCEPT ![cur] = @ + 1]
    BY <1>1 DEF CreateChild
  <2>3. \A d \in Calls : Key[d] = Key[cur] => made[d] = 0
    BY <1>0, <2>1, <2>2 DEF OneChildPerKey
  <2>4. children' = children \union {cur}
    BY <1>0, <2>1, <2>2
  <2>5. Contract!MakeChild(cur)
    BY <2>1, <2>3, <2>4 DEF Contract!MakeChild, Contract!Siblings, Contract!Unanswered, None
  <2> QED
    BY <2>1, <2>5 DEF Contract!Next, Contract!MakeChild
<1>2. CASE PersistResult
  <2>1. cur \in Calls /\ made' = made /\ outcome \in Outcomes
    BY <1>0, <1>2 DEF PersistResult, AnswerInv
  <2>2. CASE result[cur] # None
    BY <1>0, <1>2, <2>1, <2>2 DEF PersistResult
  <2>3. CASE result[cur] = None
    <3>1. result' = [result EXCEPT ![cur] = outcome]
      BY <1>0, <1>2, <2>3 DEF PersistResult
    <3>2. outcome \in {"denied", "expired"} => cur \notin children
      BY <1>0, <1>2, <2>1, <2>3 DEF PersistResult, ChildInv
    <3>3. outcome = "completed" => Contract!Siblings(cur) \intersect children # {}
      BY <1>0, <1>2 DEF PersistResult, SuccessInv, Delivered, Contract!Siblings
    <3>4. Contract!AnswerCall(cur, outcome)
      BY <2>1, <2>3, <3>1, <3>2, <3>3 DEF Contract!AnswerCall, Contract!Unanswered, None
    <3> QED
      BY <2>1, <3>4 DEF Contract!Next, Contract!Answers, Outcomes
  <2> QED
    BY <2>2, <2>3
<1>3. CASE UNCHANGED <<result, made>>
  BY <1>3
<1> QED
  BY <1>1, <1>2, <1>3, AnswersStay

\* Whatever fails and whatever is submitted again, the callers see only what
\* CallContract allows: one answer for each call, one child for each key, no
\* success without a child and no refusal with one.
THEOREM Implementation == Spec => ContractKept
<1>1. Init => Contract!Init
  BY DEF Init, Contract!Init, Contract!Unanswered, None
<1> QED
  BY Invariance, ContractStep, <1>1, PTL DEF Spec, ContractKept, Contract!Spec

===============================================================================
