-------------------------- MODULE OneShotTimersProofs --------------------------
(***************************************************************************)
(* Proofs about OneShotTimers, for any jobs, run times and bounds.         *)
(***************************************************************************)
EXTENDS OneShotTimers, TLAPS

(***************************************************************************)
(* The timer records the steps build are timer records.                    *)
(***************************************************************************)
LEMMA TimerFacts ==
    /\ NoTimer \in Timer /\ FreshTimer \in Timer
    /\ [FreshTimer EXCEPT !.delegation = TRUE] \in Timer
    /\ [FreshTimer EXCEPT !.delegation = TRUE].status = "scheduled"
    /\ \A t \in Timer :
        /\ t.status \in {"none", "scheduled", "fired", "cancelled"}
        /\ \A s \in {"fired", "cancelled"} :
            [t EXCEPT !.status = s] \in Timer /\ [t EXCEPT !.status = s].status = s
        /\ [t EXCEPT !.linked = TRUE] \in Timer
        /\ [t EXCEPT !.linked = TRUE].status = t.status
BY DEF NoTimer, FreshTimer, Timer

(***************************************************************************)
(* A host call built from a job on disk and a timer is a host call.        *)
(***************************************************************************)
HostCalls == [at : {"idle", "scheduling", "arming", "loading", "cancelTimer", "cancelJob"},
              job : Jobs \union {NoJob}, status : JobStatus, timer : Timer]

LEMMA HostFacts ==
    /\ IdleHost \in HostCalls /\ IdleHost.job = NoJob /\ IdleHost.at = "idle"
    /\ \A at \in {"scheduling", "arming", "loading"}, j \in Jobs, s \in JobStatus, t \in Timer :
        /\ Call(at, j, s, t) \in HostCalls
        /\ Call(at, j, s, t).job = j /\ Call(at, j, s, t).at = at
    /\ \A j \in Jobs, s \in JobStatus, t \in Timer :
        /\ Call("cancelTimer", j, s, t) \in HostCalls
        /\ Call("cancelTimer", j, s, t).job = j /\ Call("cancelTimer", j, s, t).at = "cancelTimer"
    /\ \A h \in HostCalls :
        /\ [h EXCEPT !.at = "cancelJob"] \in HostCalls
        /\ [h EXCEPT !.at = "cancelJob"].job = h.job
        /\ [h EXCEPT !.at = "cancelJob"].at = "cancelJob"
        /\ h.status \in JobStatus /\ h.timer \in Timer /\ h.job \in Jobs \union {NoJob}
        /\ h.at \in {"idle", "scheduling", "arming", "loading", "cancelTimer", "cancelJob"}
BY TimerFacts DEF IdleHost, Call, HostCalls, JobStatus

(***************************************************************************)
(* TypeOK is an invariant of OneShotTimers.                                *)
(***************************************************************************)
LEMMA TypeInit == Init => TypeOK
BY JobsAssumption, RunAtAssumption, BoundsAssumption, TimerFacts, HostFacts
   DEF Init, TypeOK, HostCalls, JobStatus

LEMMA ServiceTypes == TypeOK /\ ServiceStep => TypeOK'
<1> SUFFICES ASSUME TypeOK, ServiceStep PROVE TypeOK'
  OBVIOUS
<1> USE JobsAssumption, RunAtAssumption, TimerFacts
<1>1. ASSUME NEW j \in Jobs, DraftJob(j) PROVE TypeOK'
  BY <1>1 DEF DraftJob, TypeOK, history, JobStatus
<1>2. CASE ScheduleDraft
  BY <1>2 DEF ScheduleDraft, TypeOK, history, JobStatus
<1>3. CASE RefuseDraft
  BY <1>3 DEF RefuseDraft, TypeOK, history
<1>4. CASE ArmTimer
  BY <1>4 DEF ArmTimer, TypeOK
<1>5. CASE MarkDelegation
  BY <1>5 DEF MarkDelegation, TypeOK, history
<1>6. CASE BeginPass
  BY <1>6 DEF BeginPass, TypeOK, history, Listing
<1>7. CASE LinkRecovered
  BY <1>7 DEF LinkRecovered, LinkTimer, Drop, TypeOK, history
<1>8. CASE ListScheduled
  BY <1>8 DEF ListScheduled, TypeOK, history, Listing
<1>9. CASE EndPass
  BY <1>9 DEF EndPass, TypeOK, history
<1>10. ASSUME NEW j \in Jobs, RecoverResult(j) PROVE TypeOK'
  BY <1>10 DEF RecoverResult, Materialize, TypeOK, history
<1>11. ASSUME NEW j \in Jobs, LeavePending(j) PROVE TypeOK'
  BY <1>11 DEF LeavePending, Drop, TypeOK, history
<1>12. ASSUME NEW j \in Jobs, LoadJob(j) PROVE TypeOK'
  BY <1>12 DEF LoadJob, TypeOK, history
<1>13. CASE CancelTimer
  BY <1>13 DEF CancelTimer, Drop, TypeOK, history, JobStatus
<1>14. CASE SkipUnscheduled
  BY <1>14 DEF SkipUnscheduled, Drop, TypeOK, history, JobStatus
<1>15. CASE FireTimer
  <2> DEFINE fired == [listed[cur] EXCEPT !.status = "fired"]
  <2>1. cur \in Jobs /\ listed[cur] \in Timer
    BY <1>15 DEF FireTimer, TypeOK
  <2>2. fired \in Timer
    BY <2>1
  <2>3. timer' = [timer EXCEPT ![cur] = fired] /\ listed' = [listed EXCEPT ![cur] = fired]
    BY <1>15 DEF FireTimer
  <2> HIDE DEF fired
  <2>4. timer' \in [Jobs -> Timer] /\ listed' \in [Jobs -> Timer]
    BY <2>1, <2>2, <2>3 DEF TypeOK
  <2> QED
    BY <1>15, <2>4 DEF FireTimer, TypeOK, history, JobStatus
<1>16. CASE ReadyJob
  BY <1>16 DEF ReadyJob, Drop, TypeOK, JobStatus
<1>17. CASE RecordRelease
  BY <1>17 DEF RecordRelease, Materialize, TypeOK, history, JobStatus
<1>18. CASE LinkReleased
  BY <1>18 DEF LinkReleased, LinkTimer, Drop, TypeOK, history
<1> QED
  BY <1>1, <1>2, <1>3, <1>4, <1>5, <1>6, <1>7, <1>8, <1>9, <1>10, <1>11, <1>12,
     <1>13, <1>14, <1>15, <1>16, <1>17, <1>18 DEF ServiceStep

LEMMA HostTypes ==
    TypeOK /\ (HostStep \/ \E j \in Jobs : HostSchedule(j) \/ HostCancel(j)) => TypeOK'
<1> SUFFICES ASSUME TypeOK, HostStep \/ \E j \in Jobs : HostSchedule(j) \/ HostCancel(j)
             PROVE TypeOK'
  OBVIOUS
<1> USE JobsAssumption, BoundsAssumption, TimerFacts, HostFacts
<1>0. host \in HostCalls
  BY DEF TypeOK, HostCalls
<1>1. ASSUME NEW j \in Jobs, HostSchedule(j) PROVE TypeOK'
  <2>1. host' \in HostCalls /\ ((host'.job = NoJob) <=> (host'.at = "idle"))
    BY <1>1 DEF HostSchedule, TypeOK, Schedulable
  <2> QED
    BY <1>1, <2>1 DEF HostSchedule, HostUnchanged, service, history, TypeOK, HostCalls
<1>2. ASSUME NEW j \in Jobs, HostCancel(j) PROVE TypeOK'
  <2>1. host' \in HostCalls /\ ((host'.job = NoJob) <=> (host'.at = "idle"))
    BY <1>2 DEF HostCancel, TypeOK, JobStatus
  <2> QED
    BY <1>2, <2>1 DEF HostCancel, HostUnchanged, service, history, TypeOK, HostCalls
<1>3. CASE HostScheduleJob
  <2>1. host.job \in Jobs
    BY <1>3, <1>0 DEF HostScheduleJob, TypeOK
  <2>2. host' \in HostCalls /\ host'.job # NoJob /\ host'.at # "idle"
    BY <1>3, <2>1 DEF HostScheduleJob, JobStatus
  <2> QED
    BY <1>3, <2>1, <2>2 DEF HostScheduleJob, HostUnchanged, service, history, TypeOK, HostCalls, JobStatus
<1>4. CASE HostArmTimer
  <2>1. host' \in HostCalls /\ host'.job = NoJob /\ host'.at = "idle"
    BY <1>4 DEF HostArmTimer
  <2> QED
    BY <1>4, <2>1 DEF HostArmTimer, HostUnchanged, service, TypeOK, HostCalls
<1>5. CASE HostLoadJob
  <2>1. host.job \in Jobs
    BY <1>5, <1>0 DEF HostLoadJob, TypeOK
  <2>2. host' \in HostCalls /\ ((host'.job = NoJob) <=> (host'.at = "idle"))
    BY <1>5, <2>1, <1>0 DEF HostLoadJob, TypeOK
  <2> QED
    BY <1>5, <2>2 DEF HostLoadJob, HostUnchanged, service, history, TypeOK, HostCalls
<1>6. CASE HostCancelTimer
  <2>1. host' \in HostCalls /\ host'.job # NoJob /\ host'.at # "idle"
    BY <1>6, <1>0 DEF HostCancelTimer, TypeOK
  <2> QED
    BY <1>6, <1>0, <2>1 DEF HostCancelTimer, HostUnchanged, service, history, TypeOK, HostCalls
<1>7. CASE HostCancelJob
  <2>1. host.job \in Jobs
    BY <1>7, <1>0 DEF HostCancelJob, TypeOK
  <2>2. host' \in HostCalls /\ host'.job = NoJob /\ host'.at = "idle"
    BY <1>7 DEF HostCancelJob
  <2> QED
    BY <1>7, <2>1, <2>2 DEF HostCancelJob, HostUnchanged, service, TypeOK, HostCalls, JobStatus
<1> QED
  BY <1>1, <1>2, <1>3, <1>4, <1>5, <1>6, <1>7 DEF HostStep

LEMMA OtherTypes ==
    TypeOK /\ (Fault \/ Tick \/ UNCHANGED vars \/ \E j \in Jobs : RunnerStep(j)) => TypeOK'
<1> SUFFICES ASSUME TypeOK, Fault \/ Tick \/ UNCHANGED vars \/ \E j \in Jobs : RunnerStep(j)
             PROVE TypeOK'
  OBVIOUS
<1> USE JobsAssumption, RunAtAssumption, BoundsAssumption, TimerFacts
<1>1. CASE Fault
  BY <1>1 DEF Fault, TypeOK, history, JobStatus
<1>2. CASE Tick
  BY <1>2 DEF Tick, TypeOK, service, history
<1>3. CASE UNCHANGED vars
  BY <1>3 DEF vars, TypeOK, service, history
<1>4. ASSUME NEW j \in Jobs, RunnerStep(j) PROVE TypeOK'
  BY <1>4 DEF RunnerStep, ClaimJob, StartJob, FinishJob, TypeOK, service, history, JobStatus
<1> QED
  BY <1>1, <1>2, <1>3, <1>4

\* The type invariant holds for any jobs and bounds.
THEOREM TypeCorrect == Spec => []TypeOK
<1>1. TypeOK /\ [Next]_vars => TypeOK'
  BY ServiceTypes, HostTypes, OtherTypes DEF Next
<1> QED
  BY TypeInit, <1>1, PTL DEF Spec

-------------------------------------------------------------------------------
(***************************************************************************)
(* The strengthening of ReleasePaidBySchedule and NeverReleasedEarly.  An  *)
(* arming that is still on disk, listed or about to be rewritten, and one  *)
(* that has fired and not yet released, are each paid for; what the        *)
(* service lists has the status it was listed for; and a timer in hand is  *)
(* due.                                                                    *)
(***************************************************************************)
Armed(j) ==
    \/ timer[j].status = "scheduled"
    \/ listed[j].status = "scheduled"
    \/ pc = "armed" /\ cur = j

Releasing(j) == pc = "fired" /\ cur = j

One(b) == IF b THEN 1 ELSE 0

Paid == \A j \in Jobs : released[j] + One(Releasing(j)) + One(Armed(j)) <= schedules[j]

ListedAsWanted ==
    \A j \in Jobs :
        Pending(j) =>
            /\ pc \in {"recovering", "recovered"} => listed[j].status = "fired"
            /\ pc \in {"releasing", "loaded"} => listed[j].status = "scheduled"
            /\ pc \in {"fired", "readied", "recorded"} =>
                listed[j].status = IF j = cur THEN "fired" ELSE "scheduled"

InHandListed == pc \in {"recovered", "loaded", "fired", "readied", "recorded"} => Pending(cur)

InHandDue ==
    /\ pc \in {"loaded", "fired"} => RunAt[cur] <= now
    /\ NeverReleasedEarly

IInv == TypeOK /\ Paid /\ ListedAsWanted /\ InHandListed /\ InHandDue

\* A pending copy and an absent one are told apart by their status.
LEMMA PendingStatus ==
    ASSUME TypeOK, NEW j \in Jobs
    PROVE  (listed[j].status # "none" => Pending(j)) /\ NoTimer.status = "none"
BY DEF TypeOK, Pending, NoTimer

\* Initially nothing is armed, listed or released.
LEMMA InitIInv == Init => IInv
<1> SUFFICES ASSUME Init PROVE IInv
  OBVIOUS
<1>1. \A j \in Jobs : timer[j] = NoTimer /\ listed[j] = NoTimer /\ released[j] = 0 /\ schedules[j] = 0
  BY DEF Init
<1>2. NoTimer.status = "none"
  BY DEF NoTimer
<1> QED
  BY TypeInit, <1>1, <1>2
     DEF Init, IInv, Paid, One, Armed, Releasing, ListedAsWanted, InHandListed, Pending, InHandDue, NeverReleasedEarly

\* A step that leaves the timers, the copies and the service alone keeps IInv.
LEMMA Elsewhere ==
    ASSUME IInv, TypeOK', UNCHANGED <<timer, service, schedules, released>>, clock <= clock'
    PROVE  IInv'
<1>1. Paid'
  BY DEF IInv, Paid, One, Armed, Releasing, service
<1>2. ListedAsWanted' /\ InHandListed'
  BY DEF IInv, ListedAsWanted, InHandListed, Pending, service
<1>3. InHandDue'
  <2>1. clock \in Nat /\ clock' \in Nat /\ \A j \in Jobs : RunAt[j] \in Nat
    BY RunAtAssumption DEF IInv, TypeOK
  <2> QED
    BY <2>1 DEF IInv, InHandDue, NeverReleasedEarly, service
<1> QED
  BY <1>1, <1>2, <1>3 DEF IInv


\* A step of the service keeps IInv.
LEMMA ServiceInv == IInv /\ ServiceStep => IInv'
<1> SUFFICES ASSUME IInv, ServiceStep PROVE IInv'
  OBVIOUS
<1>0. TypeOK'
  BY ServiceTypes DEF IInv
<1>t. /\ \A k \in Jobs : /\ released[k] \in Nat /\ schedules[k] \in Nat /\ RunAt[k] \in Nat
                          /\ timer[k] \in Timer /\ listed[k] \in Timer
      /\ timer \in [Jobs -> Timer] /\ listed \in [Jobs -> Timer]
      /\ released \in [Jobs -> Nat] /\ schedules \in [Jobs -> Nat]
      /\ clock \in Nat /\ now \in Nat /\ now <= clock
      /\ cur # NoJob => cur \in Jobs
      /\ cur = NoJob <=> pc \in {"idle", "recovering", "releasing"}
  BY RunAtAssumption DEF IInv, TypeOK
<1>p. Paid /\ ListedAsWanted /\ InHandListed /\ InHandDue
  BY DEF IInv
<1>f. /\ FreshTimer.status = "scheduled" /\ NoTimer.status = "none"
      /\ [FreshTimer EXCEPT !.delegation = TRUE].status = "scheduled"
  BY DEF FreshTimer, NoTimer
<1>d. Paid' /\ ListedAsWanted' /\ InHandListed' /\ InHandDue' => IInv'
  BY <1>0 DEF IInv
<1> HIDE DEF IInv
<1>1. ASSUME NEW j \in Jobs, DraftJob(j) PROVE IInv'
  <2>1. Paid'
    BY <1>1, <1>t, <1>p, <1>f DEF DraftJob, history, Paid, One, Armed, Releasing
  <2>2. ListedAsWanted'
    BY <1>1, <1>t, <1>p, <1>f DEF DraftJob, history, ListedAsWanted, InHandListed, Pending
  <2>3. InHandListed'
    BY <1>1, <1>t, <1>p, <1>f DEF DraftJob, history, InHandListed, Pending
  <2>4. InHandDue'
    BY <1>1, <1>t, <1>p, <1>f DEF DraftJob, history, InHandDue, NeverReleasedEarly
  <2> QED
    BY <2>1, <2>2, <2>3, <2>4, <1>d
<1>2. CASE ScheduleDraft
  <2>1. Paid'
    BY <1>2, <1>t, <1>p, <1>f DEF ScheduleDraft, history, Paid, One, Armed, Releasing
  <2>2. ListedAsWanted'
    BY <1>2, <1>t, <1>p, <1>f DEF ScheduleDraft, history, ListedAsWanted, InHandListed, Pending
  <2>3. InHandListed'
    BY <1>2, <1>t, <1>p, <1>f DEF ScheduleDraft, history, InHandListed, Pending
  <2>4. InHandDue'
    BY <1>2, <1>t, <1>p, <1>f DEF ScheduleDraft, history, InHandDue, NeverReleasedEarly
  <2> QED
    BY <2>1, <2>2, <2>3, <2>4, <1>d
<1>3. CASE RefuseDraft
  <2>1. Paid'
    BY <1>3, <1>t, <1>p, <1>f DEF RefuseDraft, history, Paid, One, Armed, Releasing
  <2>2. ListedAsWanted'
    BY <1>3, <1>t, <1>p, <1>f DEF RefuseDraft, history, ListedAsWanted, InHandListed, Pending
  <2>3. InHandListed'
    BY <1>3, <1>t, <1>p, <1>f DEF RefuseDraft, history, InHandListed, Pending
  <2>4. InHandDue'
    BY <1>3, <1>t, <1>p, <1>f DEF RefuseDraft, history, InHandDue, NeverReleasedEarly
  <2> QED
    BY <2>1, <2>2, <2>3, <2>4, <1>d
<1>4. CASE ArmTimer
  <2>1. Paid'
    BY <1>4, <1>t, <1>p, <1>f DEF ArmTimer, history, Paid, One, Armed, Releasing
  <2>2. ListedAsWanted'
    BY <1>4, <1>t, <1>p, <1>f DEF ArmTimer, history, ListedAsWanted, InHandListed, Pending
  <2>3. InHandListed'
    BY <1>4, <1>t, <1>p, <1>f DEF ArmTimer, history, InHandListed, Pending
  <2>4. InHandDue'
    BY <1>4, <1>t, <1>p, <1>f DEF ArmTimer, history, InHandDue, NeverReleasedEarly
  <2> QED
    BY <2>1, <2>2, <2>3, <2>4, <1>d
<1>5. CASE MarkDelegation
  <2>1. Paid'
    BY <1>5, <1>t, <1>p, <1>f DEF MarkDelegation, history, Paid, One, Armed, Releasing
  <2>2. ListedAsWanted'
    BY <1>5, <1>t, <1>p, <1>f DEF MarkDelegation, history, ListedAsWanted, InHandListed, Pending
  <2>3. InHandListed'
    BY <1>5, <1>t, <1>p, <1>f DEF MarkDelegation, history, InHandListed, Pending
  <2>4. InHandDue'
    BY <1>5, <1>t, <1>p, <1>f DEF MarkDelegation, history, InHandDue, NeverReleasedEarly
  <2> QED
    BY <2>1, <2>2, <2>3, <2>4, <1>d
<1>6. CASE BeginPass
  <2>1. Paid'
    BY <1>6, <1>t, <1>p, <1>f DEF BeginPass, Listing, Unlinked, history, Paid, One, Armed, Releasing
  <2>2. ListedAsWanted'
    BY <1>6, <1>t, <1>p, <1>f DEF BeginPass, Listing, Unlinked, history, ListedAsWanted, InHandListed, Pending
  <2>3. InHandListed'
    BY <1>6, <1>t, <1>p, <1>f DEF BeginPass, Listing, Unlinked, history, InHandListed, Pending
  <2>4. InHandDue'
    BY <1>6, <1>t, <1>p, <1>f DEF BeginPass, Listing, Unlinked, history, InHandDue, NeverReleasedEarly
  <2> QED
    BY <2>1, <2>2, <2>3, <2>4, <1>d
<1>7. CASE LinkRecovered
  <2>1. Paid'
    BY <1>7, <1>t, <1>p, <1>f DEF LinkRecovered, LinkTimer, Drop, history, Paid, One, Armed, Releasing, ListedAsWanted, InHandListed, Pending
  <2>2. ListedAsWanted'
    BY <1>7, <1>t, <1>p, <1>f DEF LinkRecovered, LinkTimer, Drop, history, ListedAsWanted, InHandListed, Pending
  <2>3. InHandListed'
    BY <1>7, <1>t, <1>p, <1>f DEF LinkRecovered, LinkTimer, Drop, history, InHandListed, Pending
  <2>4. InHandDue'
    BY <1>7, <1>t, <1>p, <1>f DEF LinkRecovered, LinkTimer, Drop, history, InHandDue, NeverReleasedEarly
  <2> QED
    BY <2>1, <2>2, <2>3, <2>4, <1>d
<1>8. CASE ListScheduled
  <2>1. Paid'
    BY <1>8, <1>t, <1>p, <1>f DEF ListScheduled, Listing, history, Paid, One, Armed, Releasing
  <2>2. ListedAsWanted'
    BY <1>8, <1>t, <1>p, <1>f DEF ListScheduled, Listing, history, ListedAsWanted, InHandListed, Pending
  <2>3. InHandListed'
    BY <1>8, <1>t, <1>p, <1>f DEF ListScheduled, Listing, history, InHandListed, Pending
  <2>4. InHandDue'
    BY <1>8, <1>t, <1>p, <1>f DEF ListScheduled, Listing, history, InHandDue, NeverReleasedEarly
  <2> QED
    BY <2>1, <2>2, <2>3, <2>4, <1>d
<1>9. CASE EndPass
  <2>1. Paid'
    BY <1>9, <1>t, <1>p, <1>f DEF EndPass, NothingListed, history, Paid, One, Armed, Releasing
  <2>2. ListedAsWanted'
    BY <1>9, <1>t, <1>p, <1>f DEF EndPass, NothingListed, history, ListedAsWanted, InHandListed, Pending
  <2>3. InHandListed'
    BY <1>9, <1>t, <1>p, <1>f DEF EndPass, NothingListed, history, InHandListed, Pending
  <2>4. InHandDue'
    BY <1>9, <1>t, <1>p, <1>f DEF EndPass, NothingListed, history, InHandDue, NeverReleasedEarly
  <2> QED
    BY <2>1, <2>2, <2>3, <2>4, <1>d
<1>10. ASSUME NEW j \in Jobs, RecoverResult(j) PROVE IInv'
  <2>1. Paid'
    BY <1>10, <1>t, <1>p, <1>f DEF RecoverResult, history, Paid, One, Armed, Releasing
  <2>2. ListedAsWanted'
    BY <1>10, <1>t, <1>p, <1>f DEF RecoverResult, history, ListedAsWanted, InHandListed, Pending
  <2>3. InHandListed'
    BY <1>10, <1>t, <1>p, <1>f DEF RecoverResult, history, InHandListed, Pending
  <2>4. InHandDue'
    BY <1>10, <1>t, <1>p, <1>f DEF RecoverResult, history, InHandDue, NeverReleasedEarly
  <2> QED
    BY <2>1, <2>2, <2>3, <2>4, <1>d
<1>11. ASSUME NEW j \in Jobs, LeavePending(j) PROVE IInv'
  <2>1. Paid'
    BY <1>11, <1>t, <1>p, <1>f DEF LeavePending, Drop, history, Paid, One, Armed, Releasing
  <2>2. ListedAsWanted'
    BY <1>11, <1>t, <1>p, <1>f DEF LeavePending, Drop, history, ListedAsWanted, InHandListed, Pending
  <2>3. InHandListed'
    BY <1>11, <1>t, <1>p, <1>f DEF LeavePending, Drop, history, InHandListed, Pending
  <2>4. InHandDue'
    BY <1>11, <1>t, <1>p, <1>f DEF LeavePending, Drop, history, InHandDue, NeverReleasedEarly
  <2> QED
    BY <2>1, <2>2, <2>3, <2>4, <1>d
<1>12. ASSUME NEW j \in Jobs, LoadJob(j) PROVE IInv'
  <2>1. Paid'
    BY <1>12, <1>t, <1>p, <1>f DEF LoadJob, Due, history, Paid, One, Armed, Releasing
  <2>2. ListedAsWanted'
    BY <1>12, <1>t, <1>p, <1>f DEF LoadJob, Due, history, ListedAsWanted, InHandListed, Pending
  <2>3. InHandListed'
    BY <1>12, <1>t, <1>p, <1>f DEF LoadJob, Due, history, InHandListed, Pending
  <2>4. InHandDue'
    BY <1>12, <1>t, <1>p, <1>f DEF LoadJob, Due, history, InHandDue, NeverReleasedEarly
  <2> QED
    BY <2>1, <2>2, <2>3, <2>4, <1>d
<1>13. CASE CancelTimer
  <2>1. Paid'
    BY <1>13, <1>t, <1>p, <1>f DEF CancelTimer, Drop, history, Paid, One, Armed, Releasing
  <2>2. ListedAsWanted'
    BY <1>13, <1>t, <1>p, <1>f DEF CancelTimer, Drop, history, ListedAsWanted, InHandListed, Pending
  <2>3. InHandListed'
    BY <1>13, <1>t, <1>p, <1>f DEF CancelTimer, Drop, history, InHandListed, Pending
  <2>4. InHandDue'
    BY <1>13, <1>t, <1>p, <1>f DEF CancelTimer, Drop, history, InHandDue, NeverReleasedEarly
  <2> QED
    BY <2>1, <2>2, <2>3, <2>4, <1>d
<1>14. CASE SkipUnscheduled
  <2>1. Paid'
    BY <1>14, <1>t, <1>p, <1>f DEF SkipUnscheduled, Drop, history, Paid, One, Armed, Releasing
  <2>2. ListedAsWanted'
    BY <1>14, <1>t, <1>p, <1>f DEF SkipUnscheduled, Drop, history, ListedAsWanted, InHandListed, Pending
  <2>3. InHandListed'
    BY <1>14, <1>t, <1>p, <1>f DEF SkipUnscheduled, Drop, history, InHandListed, Pending
  <2>4. InHandDue'
    BY <1>14, <1>t, <1>p, <1>f DEF SkipUnscheduled, Drop, history, InHandDue, NeverReleasedEarly
  <2> QED
    BY <2>1, <2>2, <2>3, <2>4, <1>d
<1>15. CASE FireTimer
  <2>1. Paid'
    BY <1>15, <1>t, <1>p, <1>f DEF FireTimer, history, Paid, One, Armed, Releasing, ListedAsWanted, InHandListed, Pending
  <2>2. ListedAsWanted'
    BY <1>15, <1>t, <1>p, <1>f DEF FireTimer, history, ListedAsWanted, InHandListed, Pending
  <2>3. InHandListed'
    <3>1. cur \in Jobs /\ [listed[cur] EXCEPT !.status = "fired"].status = "fired"
      BY <1>15, <1>t, TimerFacts DEF FireTimer
    <3>2. listed'[cur] = [listed[cur] EXCEPT !.status = "fired"] /\ cur' = cur
      BY <1>15, <1>t, <3>1 DEF FireTimer
    <3> QED
      BY <3>1, <3>2, <1>f DEF InHandListed, Pending
  <2>4. InHandDue'
    BY <1>15, <1>t, <1>p, <1>f DEF FireTimer, history, InHandDue, NeverReleasedEarly
  <2> QED
    BY <2>1, <2>2, <2>3, <2>4, <1>d
<1>16. CASE ReadyJob
  <2>1. Paid'
    BY <1>16, <1>t, <1>p, <1>f DEF ReadyJob, Drop, history, Paid, One, Armed, Releasing, ListedAsWanted, InHandListed, Pending
  <2>2. ListedAsWanted'
    BY <1>16, <1>t, <1>p, <1>f DEF ReadyJob, Drop, history, ListedAsWanted, InHandListed, Pending
  <2>3. InHandListed'
    BY <1>16, <1>t, <1>p, <1>f DEF ReadyJob, Drop, history, InHandListed, Pending
  <2>4. InHandDue'
    BY <1>16, <1>t, <1>p, <1>f DEF ReadyJob, Drop, history, InHandDue, NeverReleasedEarly
  <2> QED
    BY <2>1, <2>2, <2>3, <2>4, <1>d
<1>17. CASE RecordRelease
  <2>1. Paid'
    BY <1>17, <1>t, <1>p, <1>f DEF RecordRelease, history, Paid, One, Armed, Releasing
  <2>2. ListedAsWanted'
    BY <1>17, <1>t, <1>p, <1>f DEF RecordRelease, history, ListedAsWanted, InHandListed, Pending
  <2>3. InHandListed'
    BY <1>17, <1>t, <1>p, <1>f DEF RecordRelease, history, InHandListed, Pending
  <2>4. InHandDue'
    BY <1>17, <1>t, <1>p, <1>f DEF RecordRelease, history, InHandDue, NeverReleasedEarly
  <2> QED
    BY <2>1, <2>2, <2>3, <2>4, <1>d
<1>18. CASE LinkReleased
  <2>1. Paid'
    BY <1>18, <1>t, <1>p, <1>f DEF LinkReleased, LinkTimer, Drop, history, Paid, One, Armed, Releasing, ListedAsWanted, InHandListed, Pending
  <2>2. ListedAsWanted'
    BY <1>18, <1>t, <1>p, <1>f DEF LinkReleased, LinkTimer, Drop, history, ListedAsWanted, InHandListed, Pending
  <2>3. InHandListed'
    BY <1>18, <1>t, <1>p, <1>f DEF LinkReleased, LinkTimer, Drop, history, InHandListed, Pending
  <2>4. InHandDue'
    BY <1>18, <1>t, <1>p, <1>f DEF LinkReleased, LinkTimer, Drop, history, InHandDue, NeverReleasedEarly
  <2> QED
    BY <2>1, <2>2, <2>3, <2>4, <1>d
<1> QED
  BY <1>1, <1>2, <1>3, <1>4, <1>5, <1>6, <1>7, <1>8, <1>9, <1>10, <1>11, <1>12,
     <1>13, <1>14, <1>15, <1>16, <1>17, <1>18 DEF ServiceStep

\* A host call keeps IInv: it arms a timer at a price, and cancels for nothing.
LEMMA HostInv ==
    IInv /\ (HostStep \/ \E j \in Jobs : HostSchedule(j) \/ HostCancel(j)) => IInv'
<1> SUFFICES ASSUME IInv, HostStep \/ \E j \in Jobs : HostSchedule(j) \/ HostCancel(j)
             PROVE IInv'
  OBVIOUS
<1>0. TypeOK'
  BY HostTypes DEF IInv
<1>1. CASE UNCHANGED <<timer, schedules, released>>
  <2>1. UNCHANGED <<timer, service, schedules, released, clock>>
    BY <1>1 DEF HostStep, HostSchedule, HostCancel, HostScheduleJob, HostArmTimer, HostLoadJob,
                HostCancelTimer, HostCancelJob, HostUnchanged
  <2>2. clock <= clock'
    BY <2>1, RunAtAssumption DEF IInv, TypeOK
  <2> QED
    BY <1>0, <2>1, <2>2, Elsewhere
<1>t. /\ \A k \in Jobs : released[k] \in Nat /\ schedules[k] \in Nat
      /\ timer \in [Jobs -> Timer] /\ schedules \in [Jobs -> Nat]
      /\ host.timer \in Timer
  BY DEF IInv, TypeOK
<1>2. CASE HostArmTimer
  <2>1. UNCHANGED <<clock, service, released>>
    BY <1>2 DEF HostArmTimer, HostUnchanged
  <2>2. FreshTimer.status = "scheduled"
    BY DEF FreshTimer
  <2>3. Paid'
    BY <1>2, <1>t, <2>1, <2>2 DEF HostArmTimer, IInv, Paid, One, Armed, Releasing, service
  <2> QED
    BY <1>0, <2>1, <2>3 DEF IInv, ListedAsWanted, InHandListed, Pending, InHandDue, NeverReleasedEarly, service
<1>3. CASE HostCancelTimer
  <2>1. UNCHANGED <<clock, service, released, schedules>>
    BY <1>3 DEF HostCancelTimer, HostUnchanged, history
  <2>2. [host.timer EXCEPT !.status = "cancelled"].status = "cancelled"
    BY <1>t, TimerFacts
  <2>3. Paid'
    BY <1>3, <1>t, <2>1, <2>2 DEF HostCancelTimer, IInv, Paid, One, Armed, Releasing, service
  <2> QED
    BY <1>0, <2>1, <2>3 DEF IInv, ListedAsWanted, InHandListed, Pending, InHandDue, NeverReleasedEarly, service
<1> QED
  BY <1>1, <1>2, <1>3
     DEF HostStep, HostSchedule, HostCancel, HostScheduleJob, HostLoadJob, HostCancelJob, history

\* A fault drops copies, so it only takes claims away.
LEMMA FaultInv == IInv /\ Fault => IInv'
<1> SUFFICES ASSUME IInv, Fault PROVE IInv'
  OBVIOUS
<1>1. TypeOK'
  BY OtherTypes DEF IInv
<1>2. NoTimer.status = "none" /\ \A k \in Jobs : released[k] \in Nat /\ schedules[k] \in Nat
  BY DEF NoTimer, IInv, TypeOK
<1>3. Paid'
  BY <1>2 DEF Fault, IInv, Paid, One, Armed, Releasing, history
<1> QED
  BY <1>1, <1>3 DEF Fault, IInv, ListedAsWanted, InHandListed, Pending, InHandDue, NeverReleasedEarly, history

\* IInv is an inductive invariant of OneShotTimers.
THEOREM Invariance == Spec => []IInv
<1>1. IInv /\ [Next]_vars => IInv'
  <2> SUFFICES ASSUME IInv, [Next]_vars PROVE IInv'
    OBVIOUS
  <2>1. TypeOK'
    BY ServiceTypes, HostTypes, OtherTypes DEF Next, IInv
  <2>2. clock \in Nat
    BY DEF IInv, TypeOK
  <2>3. ASSUME NEW j \in Jobs, RunnerStep(j) PROVE IInv'
    BY <2>1, <2>2, <2>3, Elsewhere DEF RunnerStep, ClaimJob, StartJob, FinishJob, history
  <2>4. CASE Tick
    BY <2>1, <2>2, <2>4, Elsewhere DEF Tick, history
  <2>5. CASE UNCHANGED vars
    BY <2>1, <2>2, <2>5, Elsewhere DEF vars, history
  <2> QED
    BY <2>3, <2>4, <2>5, ServiceInv, HostInv, FaultInv DEF Next
<1> QED
  BY InitIInv, <1>1, PTL DEF Spec

\* One arming of a timer pays for at most one release of its job.
THEOREM ReleaseOnce == Spec => []ReleasePaidBySchedule
<1>1. IInv => ReleasePaidBySchedule
  <2> SUFFICES ASSUME IInv, NEW j \in Jobs PROVE released[j] <= schedules[j]
    BY DEF ReleasePaidBySchedule
  <2>1. released[j] \in Nat /\ schedules[j] \in Nat
    BY DEF IInv, TypeOK
  <2> QED
    BY <2>1 DEF IInv, Paid, One
<1> QED
  BY Invariance, <1>1, PTL

\* No job is released before its runAt.
THEOREM ReleaseInTime == Spec => []NeverReleasedEarly
<1>1. IInv => NeverReleasedEarly
  BY DEF IInv, InHandDue
<1> QED
  BY Invariance, <1>1, PTL

-------------------------------------------------------------------------------
(***************************************************************************)
(* The strengthening of ResultsAreBacked.  A timer that has fired, on disk *)
(* or in a copy, is due, and its job has been released, is being released  *)
(* or has had its release cut off; every copy with a result reference, the *)
(* one in the hands of the host included, has its result; and no timer is  *)
(* handled for a job that does not exist, so that recovery finds the       *)
(* status it makes a result of.                                            *)
(***************************************************************************)
Earned(j) == RunAt[j] <= clock /\ (released[j] > 0 \/ j \in cut)

Linked(j) ==
    \/ timer[j].linked \/ listed[j].linked
    \/ host.job = j /\ host.timer.linked
    \/ cur = j /\ pc \in {"recovered", "recorded"}

Fired(j) ==
    \/ timer[j].status = "fired" \/ listed[j].status = "fired"
    \/ cur = j /\ pc \in {"fired", "readied", "recorded"}

Handled(j) == timer[j] # NoTimer \/ Pending(j) \/ cur = j \/ host.job = j

Backed(j) ==
    /\ Linked(j) => result[j] # "none"
    /\ Fired(j) => RunAt[j] <= clock /\ (Earned(j) \/ Releasing(j))
    /\ result[j] # "none" => Earned(j)
    /\ Handled(j) => job[j] # "none"

\* Jobs do not vanish, nor do results, and what was earned stays earned.
LEMMA Grows ==
    ASSUME TypeOK, [Next]_vars, NEW j \in Jobs
    PROVE  /\ job[j] # "none" => job'[j] # "none"
           /\ result[j] # "none" => result'[j] # "none"
           /\ RunAt[j] <= clock => RunAt[j] <= clock'
           /\ Earned(j) => Earned(j)'
<1>t. /\ job \in [Jobs -> JobStatus] /\ result \in [Jobs -> JobStatus] /\ released \in [Jobs -> Nat] /\ clock \in Nat
      /\ RunAt[j] \in Nat
  BY RunAtAssumption DEF TypeOK
<1>1. job[j] # "none" => job'[j] # "none"
  BY <1>t DEF Next, vars, ServiceStep, DraftJob, ScheduleDraft, RefuseDraft, ArmTimer, MarkDelegation, BeginPass,
              LinkRecovered, LinkTimer, ListScheduled, EndPass, RecoverResult, LeavePending, LoadJob, CancelTimer,
              SkipUnscheduled, FireTimer, ReadyJob, RecordRelease, LinkReleased, HostSchedule, HostCancel, HostStep,
              HostScheduleJob, HostArmTimer, HostLoadJob, HostCancelTimer, HostCancelJob, RunnerStep, ClaimJob, StartJob,
              FinishJob, Fault, Tick
<1>2. result[j] # "none" => result'[j] # "none"
  BY <1>t DEF Next, vars, ServiceStep, DraftJob, ScheduleDraft, RefuseDraft, ArmTimer, MarkDelegation, BeginPass,
              LinkRecovered, LinkTimer, ListScheduled, EndPass, RecoverResult, LeavePending, LoadJob, CancelTimer,
              SkipUnscheduled, FireTimer, ReadyJob, RecordRelease, LinkReleased, HostSchedule, HostCancel, HostStep,
              HostScheduleJob, HostArmTimer, HostLoadJob, HostCancelTimer, HostCancelJob, RunnerStep, ClaimJob, StartJob,
              FinishJob, Fault, Tick, Materialize, HostUnchanged
<1>3. released[j] <= released'[j] /\ cut \subseteq cut'
  BY <1>t DEF Next, vars, ServiceStep, DraftJob, ScheduleDraft, RefuseDraft, ArmTimer, MarkDelegation, BeginPass,
              LinkRecovered, LinkTimer, ListScheduled, EndPass, RecoverResult, LeavePending, LoadJob, CancelTimer,
              SkipUnscheduled, FireTimer, ReadyJob, RecordRelease, LinkReleased, HostSchedule, HostCancel, HostStep,
              HostScheduleJob, HostArmTimer, HostLoadJob, HostCancelTimer, HostCancelJob, RunnerStep, ClaimJob, StartJob,
              FinishJob, Fault, Tick, history
<1>4. clock <= clock'
  BY <1>t DEF Next, vars, ServiceStep, DraftJob, ScheduleDraft, RefuseDraft, ArmTimer, MarkDelegation, BeginPass,
              LinkRecovered, LinkTimer, ListScheduled, EndPass, RecoverResult, LeavePending, LoadJob, CancelTimer,
              SkipUnscheduled, FireTimer, ReadyJob, RecordRelease, LinkReleased, HostSchedule, HostCancel, HostStep,
              HostScheduleJob, HostArmTimer, HostLoadJob, HostCancelTimer, HostCancelJob, RunnerStep, ClaimJob, StartJob,
              FinishJob, Fault, Tick, HostUnchanged
<1>5. released'[j] \in Nat /\ clock' \in Nat
  BY ServiceTypes, HostTypes, OtherTypes DEF TypeOK, Next
<1> QED
  BY <1>t, <1>1, <1>2, <1>3, <1>4, <1>5 DEF Earned

\* The fields of the timer records that are written
LEMMA TimerFields ==
    /\ FreshTimer.status = "scheduled" /\ ~FreshTimer.linked
    /\ ~NoTimer.linked /\ NoTimer.status = "none"
    /\ [FreshTimer EXCEPT !.delegation = TRUE].status = "scheduled"
    /\ ~[FreshTimer EXCEPT !.delegation = TRUE].linked
    /\ \A t \in Timer :
        /\ t.linked \in BOOLEAN
        /\ \A s \in {"fired", "cancelled"} :
               [t EXCEPT !.status = s].status = s /\ [t EXCEPT !.status = s].linked = t.linked
        /\ [t EXCEPT !.linked = TRUE].status = t.status
BY DEF FreshTimer, NoTimer, Timer

\* The steps that write no timer, list none, and write no result
LEMMA BackedElsewhere ==
    ASSUME IInv, [Next]_vars, NEW k \in Jobs, Backed(k), Linked(k)' => Linked(k), Fired(k)' => Fired(k),
           Releasing(k) => Releasing(k)' \/ Earned(k)',
           result'[k] = result[k], (Handled(k)' => Handled(k)) \/ job'[k] # "none"
    PROVE  Backed(k)'
BY Grows DEF IInv, Backed

LEMMA BackedService ==
    ASSUME IInv, ServiceStep, NEW k \in Jobs, Backed(k)
    PROVE  Backed(k)'
<1>t. /\ timer \in [Jobs -> Timer] /\ listed \in [Jobs -> Timer] /\ result \in [Jobs -> JobStatus]
      /\ job \in [Jobs -> JobStatus] /\ cur \in Jobs \union {NoJob}
      /\ released[k] \in Nat /\ schedules[k] \in Nat /\ RunAt[k] \in Nat /\ clock \in Nat /\ now \in Nat /\ now <= clock
      /\ (cur = NoJob) <=> (pc \in {"idle", "recovering", "releasing"})
      /\ NoJob \notin Jobs
  BY RunAtAssumption, JobsAssumption DEF IInv, TypeOK
<1>g. /\ job[k] # "none" => job'[k] # "none"
      /\ result[k] # "none" => result'[k] # "none"
      /\ RunAt[k] <= clock => RunAt[k] <= clock'
      /\ Earned(k) => Earned(k)'
  BY Grows DEF IInv, Next
<1>e. IInv /\ [Next]_vars
  BY DEF Next
<1>1. ASSUME NEW j \in Jobs, DraftJob(j) PROVE Backed(k)'
  BY <1>1, <1>t, <1>e, BackedElsewhere DEF DraftJob, Linked, Fired, Releasing, Handled, Pending
<1>2. CASE ScheduleDraft \/ RefuseDraft \/ EndPass
  BY <1>2, <1>t, <1>e, BackedElsewhere DEF ScheduleDraft, RefuseDraft, EndPass, Linked, Fired, Releasing, Handled, Pending
<1>3. CASE ArmTimer \/ MarkDelegation
  BY <1>3, <1>t, <1>e, TimerFields, BackedElsewhere DEF ArmTimer, MarkDelegation, Linked, Fired, Releasing, Handled, Pending
<1>4. CASE BeginPass \/ ListScheduled
  BY <1>4, <1>t, <1>e, TimerFields, BackedElsewhere DEF BeginPass, ListScheduled, Listing, Linked, Fired, Releasing, Handled, Pending
<1>5. ASSUME NEW j \in Jobs, LeavePending(j) \/ LoadJob(j) PROVE Backed(k)'
  BY <1>5, <1>t, <1>e, TimerFields, BackedElsewhere DEF LeavePending, LoadJob, Drop, Linked, Fired, Releasing, Handled, Pending
<1>6. CASE CancelTimer \/ SkipUnscheduled
  <2>1. /\ \/ timer' = timer
           \/ timer' = [timer EXCEPT ![cur] = [listed[cur] EXCEPT !.status = "cancelled"]]
        /\ cur' = NoJob /\ cur \in Jobs /\ pc' = "releasing"
        /\ listed' = [listed EXCEPT ![cur] = NoTimer] /\ host' = host /\ job' = job /\ result' = result
        /\ pc = "loaded"
    BY <1>6, <1>t DEF CancelTimer, SkipUnscheduled, Drop
  <2>2. Linked(k)' => Linked(k)
    <3>1. listed[cur] \in Timer
      BY <2>1, <1>t
    <3>2. [listed[cur] EXCEPT !.status = "cancelled"].linked = listed[cur].linked
      BY <3>1, TimerFields
    <3>3. timer'[k].linked => timer[k].linked \/ listed[k].linked
      BY <2>1, <3>2, <1>t
    <3>4. listed'[k].linked => listed[k].linked
      BY <2>1, <1>t, TimerFields
    <3> QED
      BY <2>1, <3>3, <3>4 DEF Linked
  <2>3. (Fired(k)' => Fired(k)) /\ ~Releasing(k)
    BY <2>1, <1>t, TimerFields DEF Fired, Releasing
  <2>4. Handled(k)' => Handled(k)
    BY <2>1, <1>t DEF Handled, Pending
  <2> QED
    BY <2>1, <2>2, <2>3, <2>4, <1>e, BackedElsewhere
<1>7. CASE LinkRecovered \/ LinkReleased
  <2>1. /\ timer' = [timer EXCEPT ![cur] = [listed[cur] EXCEPT !.linked = TRUE]] /\ cur' = NoJob /\ cur \in Jobs
        /\ listed' = [listed EXCEPT ![cur] = NoTimer] /\ host' = host /\ job' = job /\ result' = result
        /\ pc \in {"recovered", "recorded"}
    BY <1>7, <1>t DEF LinkRecovered, LinkReleased, LinkTimer, Drop
  <2>2. Linked(k)' => Linked(k)
    BY <2>1, <1>t, TimerFields DEF Linked
  <2>3. (Fired(k)' => Fired(k)) /\ ~Releasing(k)
    BY <2>1, <1>t, TimerFields DEF Fired, Releasing
  <2>4. Handled(k)' => Handled(k)
    BY <2>1, <1>t DEF Handled, Pending
  <2> QED
    BY <2>1, <2>2, <2>3, <2>4, <1>e, BackedElsewhere
<1>8. CASE FireTimer
  <2>1. /\ timer' = [timer EXCEPT ![cur] = [listed[cur] EXCEPT !.status = "fired"]] /\ cur' = cur /\ cur \in Jobs
        /\ listed' = [listed EXCEPT ![cur] = [listed[cur] EXCEPT !.status = "fired"]]
        /\ host' = host /\ job' = job /\ result' = result /\ pc = "loaded" /\ pc' = "fired"
    BY <1>8, <1>t DEF FireTimer
  <2>2. Linked(k)' => Linked(k)
    BY <2>1, <1>t, TimerFields DEF Linked
  <2>3. cur = k => (RunAt[k] <= clock /\ Releasing(k)')
    <3>1. cur = k => RunAt[k] <= now
      BY <2>1, <1>t DEF IInv, InHandDue
    <3> QED
      BY <2>1, <3>1, <1>t DEF Releasing
  <2>4. (cur # k => (Fired(k)' => Fired(k))) /\ ~Releasing(k)
    BY <2>1, <1>t DEF Fired, Releasing
  <2>5. Handled(k)' => Handled(k)
    BY <2>1, <1>t DEF Handled, Pending
  <2> QED
    BY <2>1, <2>2, <2>3, <2>4, <2>5, <1>g DEF Backed
<1>9. CASE ReadyJob
  <2>1. /\ timer' = timer /\ host' = host /\ result' = result /\ pc = "fired" /\ cur \in Jobs
        /\ \/ pc' = "readied" /\ listed' = listed /\ cur' = cur
           \/ pc' = "releasing" /\ listed' = [listed EXCEPT ![cur] = NoTimer] /\ cur' = NoJob
    BY <1>9, <1>t DEF ReadyJob, Drop
  <2>2. Releasing(k) => Earned(k)'
    <3>1. Releasing(k) => (released'[k] = released[k] + 1 /\ RunAt[k] <= clock /\ clock' = clock)
      BY <1>9, <1>t, <2>1 DEF ReadyJob, Releasing, IInv, TypeOK, InHandDue
    <3> QED
      BY <3>1, <1>t DEF Earned
  <2>3. (Linked(k)' => Linked(k)) /\ (Fired(k)' => Fired(k)) /\ (Handled(k)' => Handled(k))
    BY <2>1, <1>t, TimerFields DEF Linked, Fired, Handled, Pending
  <2> QED
    BY <2>1, <2>2, <2>3, <1>e, BackedElsewhere
<1>10. CASE RecordRelease
  <2>1. /\ timer' = timer /\ host' = host /\ listed' = listed /\ cur' = cur /\ cur \in Jobs /\ job' = job
        /\ pc = "readied" /\ pc' = "recorded" /\ result'[cur] # "none" /\ (k # cur => result'[k] = result[k])
    BY <1>10, <1>t DEF RecordRelease, Materialize
  <2>2. k = cur => Earned(k)
    BY <2>1 DEF Backed, Fired, Releasing
  <2>3. ~Releasing(k) /\ (Fired(k)' <=> Fired(k)) /\ (Handled(k)' <=> Handled(k)) /\ (k # cur => (Linked(k)' <=> Linked(k)))
    BY <2>1 DEF Fired, Releasing, Handled, Linked, Pending
  <2> QED
    BY <2>1, <2>2, <2>3, <1>g DEF Backed
<1>11. ASSUME NEW j \in Jobs, RecoverResult(j) PROVE Backed(k)'
  <2>1. /\ timer' = timer /\ host' = host /\ listed' = listed /\ cur' = j /\ job' = job /\ cur = NoJob
        /\ pc = "recovering" /\ pc' = "recovered" /\ Pending(j) /\ (k # j => result'[k] = result[k])
        /\ (k = j => (job[k] # "none" => result'[k] # "none"))
    BY <1>11, <1>t DEF RecoverResult, Materialize
  <2>2. k = j => (Earned(k) /\ job[k] # "none")
    BY <2>1 DEF Backed, Fired, Releasing, Handled, IInv, ListedAsWanted
  <2>3. ~Releasing(k) /\ (Fired(k)' => Fired(k)) /\ (k # j => ((Handled(k)' => Handled(k)) /\ (Linked(k)' => Linked(k))))
    BY <2>1 DEF Fired, Releasing, Handled, Linked, Pending
  <2> QED
    BY <2>1, <2>2, <2>3, <1>g DEF Backed
<1> QED
  BY <1>1, <1>2, <1>3, <1>4, <1>5, <1>6, <1>7, <1>8, <1>9, <1>10, <1>11 DEF ServiceStep

LEMMA BackedOther ==
    ASSUME IInv, [Next]_vars, ~ServiceStep, NEW k \in Jobs, Backed(k)
    PROVE  Backed(k)'
<1>t. /\ timer \in [Jobs -> Timer] /\ listed \in [Jobs -> Timer] /\ result \in [Jobs -> JobStatus]
      /\ job \in [Jobs -> JobStatus] /\ host.timer \in Timer /\ host.job \in Jobs \union {NoJob}
      /\ (host.job = NoJob) <=> (host.at = "idle")
      /\ NoJob \notin Jobs
  BY JobsAssumption DEF IInv, TypeOK
<1>h. IdleHost.job = NoJob /\ \A at, j, s, t : Call(at, j, s, t).job = j /\ Call(at, j, s, t).timer = t
  BY DEF IdleHost, Call
<1>1. CASE UNCHANGED <<timer, service, result, host>>
  BY <1>1, BackedElsewhere DEF Linked, Fired, Releasing, Handled, Pending, service
<1>2. ASSUME NEW j \in Jobs, HostSchedule(j) \/ HostCancel(j) PROVE Backed(k)'
  <2>1. /\ UNCHANGED <<timer, listed, cur, pc, result, job>>
        /\ \/ host'.job = NoJob
           \/ host'.job = j /\ job[j] # "none" /\ host'.timer = NoTimer
           \/ host'.job = j /\ timer[j] # NoTimer /\ host'.timer = timer[j]
    BY <1>2, <1>h DEF HostSchedule, HostCancel, HostUnchanged, service
  <2>2. Linked(k)' => Linked(k)
    BY <2>1, <1>t, TimerFields DEF Linked
  <2>3. (Fired(k)' => Fired(k)) /\ ((Handled(k)' => Handled(k)) \/ job'[k] # "none")
    BY <2>1, <1>t DEF Fired, Handled, Pending
  <2> QED
    BY <2>1, <2>2, <2>3, BackedElsewhere DEF Releasing
<1>3. CASE HostScheduleJob \/ HostLoadJob
  <2>1. /\ UNCHANGED <<timer, listed, cur, pc, result>>
        /\ \/ host'.job = NoJob
           \/ host'.job = host.job /\ host'.timer \in {NoTimer, host.timer}
    BY <1>3, <1>h DEF HostScheduleJob, HostLoadJob, HostUnchanged, service
  <2>2. (Linked(k)' => Linked(k)) /\ (Fired(k)' => Fired(k)) /\ (Handled(k)' => Handled(k))
    BY <2>1, <1>t, TimerFields DEF Linked, Fired, Handled, Pending
  <2> QED
    BY <2>1, <2>2, BackedElsewhere DEF Releasing
<1>4. CASE HostArmTimer
  <2>1. /\ UNCHANGED <<listed, cur, pc, result>> /\ host'.job = NoJob
        /\ timer' = [timer EXCEPT ![host.job] = FreshTimer]
    BY <1>4, <1>h DEF HostArmTimer, HostUnchanged, service
  <2>2. (Linked(k)' => Linked(k)) /\ (Fired(k)' => Fired(k)) /\ (Handled(k)' => Handled(k))
    BY <2>1, <1>t, TimerFields DEF Linked, Fired, Handled, Pending
  <2> QED
    BY <2>1, <2>2, BackedElsewhere DEF Releasing
<1>5. CASE HostCancelTimer
  <2>1. /\ UNCHANGED <<listed, cur, pc, result>> /\ host'.job = host.job /\ host'.timer = host.timer
        /\ timer' = [timer EXCEPT ![host.job] = [host.timer EXCEPT !.status = "cancelled"]]
    BY <1>5, HostFacts DEF HostCancelTimer, HostUnchanged, service, IInv, TypeOK
  <2>2. (Linked(k)' => Linked(k)) /\ (Fired(k)' => Fired(k)) /\ (Handled(k)' => Handled(k))
    BY <2>1, <1>t, TimerFields DEF Linked, Fired, Handled, Pending
  <2> QED
    BY <2>1, <2>2, BackedElsewhere DEF Releasing
<1>6. CASE HostCancelJob
  <2>1. UNCHANGED <<timer, listed, cur, pc, result>> /\ host'.job = NoJob
    BY <1>6, <1>h DEF HostCancelJob, HostUnchanged, service
  <2>2. (Linked(k)' => Linked(k)) /\ (Fired(k)' => Fired(k)) /\ (Handled(k)' => Handled(k))
    BY <2>1, <1>t DEF Linked, Fired, Handled, Pending
  <2> QED
    BY <2>1, <2>2, BackedElsewhere DEF Releasing
<1>7. CASE Fault
  <2>1. UNCHANGED <<timer, host, result>> /\ cur' = NoJob /\ listed' = [j \in Jobs |-> NoTimer]
    BY <1>7 DEF Fault
  <2>2. (Linked(k)' => Linked(k)) /\ (Fired(k)' => Fired(k)) /\ (Handled(k)' => Handled(k))
    BY <2>1, <1>t, TimerFields DEF Linked, Fired, Handled, Pending
  <2>3. Releasing(k) => Earned(k)'
    <3>1. Releasing(k) => (k \in cut' /\ RunAt[k] <= clock /\ clock' = clock)
      <4>1. Releasing(k) => (k \in cut' /\ clock' = clock)
        BY <1>7 DEF Fault, Releasing
      <4>2. now \in Nat /\ clock \in Nat /\ RunAt[k] \in Nat /\ now <= clock
        BY RunAtAssumption DEF IInv, TypeOK
      <4> QED
        BY <4>1, <4>2 DEF Releasing, IInv, InHandDue
    <3> QED
      BY <3>1 DEF Earned
  <2> QED
    BY <2>1, <2>2, <2>3, BackedElsewhere
<1> QED
  BY <1>1, <1>2, <1>3, <1>4, <1>5, <1>6, <1>7
     DEF Next, HostStep, Tick, RunnerStep, ClaimJob, StartJob, FinishJob, vars

\* A release result reference never dangles, and a release result exists
\* only for a due job that was released, or whose release a failure cut off
\* after its timer had fired, whatever else comes between the writes of a
\* release and of its repair.
THEOREM BackedResults == Spec => []ResultsAreBacked
<1> DEFINE Inv == \A k \in Jobs : Backed(k)
<1>1. Init => Inv
  <2> SUFFICES ASSUME Init, NEW k \in Jobs PROVE Backed(k)
    OBVIOUS
  <2>1. /\ timer[k] = NoTimer /\ listed[k] = NoTimer /\ cur = NoJob /\ host.job = NoJob /\ result[k] = "none"
    BY DEF Init, IdleHost
  <2> QED
    BY <2>1, TimerFields, JobsAssumption DEF Backed, Linked, Fired, Releasing, Handled, Pending
<1>2. IInv /\ Inv /\ [Next]_vars => Inv'
  BY BackedService, BackedOther
<1>3. Inv => ResultsAreBacked
  BY DEF Backed, Linked, Earned, ResultsAreBacked
<1> HIDE DEF Inv
<1> QED
  BY <1>1, <1>2, <1>3, Invariance, PTL DEF Spec
===============================================================================
