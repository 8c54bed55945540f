-------------------------- MODULE RecurringJobsProofs --------------------------
(***************************************************************************)
(* Proofs about RecurringJobs, for every set of runners, every interval,   *)
(* every limit of failures and every bound.                                *)
(***************************************************************************)
EXTENDS RecurringJobs, TLAPS

-------------------------------------------------------------------------------
(* Slots and types.                                                        *)

\* The next slot is later than the one it follows, and an interval from now
\* at most.
LEMMA NextSlotLater ==
    ASSUME NEW previous \in Nat, NEW now \in Nat
    PROVE  /\ NextRunAt(previous, now) \in Nat /\ NextRunAt(previous, now) > previous
           /\ (previous <= now => NextRunAt(previous, now) <= now + Interval)
<1>t. Interval \in Nat \ {0}
  BY BoundsAssumption
<1>1. CASE previous + Interval > now
  BY <1>1, <1>t DEF NextRunAt
<1>2. CASE ~(previous + Interval > now)
  <2> DEFINE gone == now - previous
             q == gone \div Interval
  <2>1. gone \in Nat /\ gone >= Interval /\ now = previous + gone
    BY <1>2, <1>t
  <2>2. q \in Nat /\ Interval * q <= gone
    BY <2>1, <1>t
  <2>3. Interval * (q + 1) = Interval * q + Interval /\ Interval * q \in Nat
    BY <2>2, <1>t
  <2>4. NextRunAt(previous, now) = previous + Interval * (q + 1)
    BY <1>2 DEF NextRunAt
  <2> HIDE DEF gone, q
  <2> QED
    BY <2>1, <2>2, <2>3, <2>4, <1>t
<1> QED
  BY <1>1, <1>2

\* A timer that is listed has failures left, and a copy is of a slot that is due.
Counting ==
    /\ timer.status = "scheduled" => timer.fails < MaxFailures
    /\ \A r \in Runners : copy[r].fails < MaxFailures /\ copy[r].runAt <= clock
    /\ \A r \in Runners : pc[r] \in {"check", "overlap", "timer"} => copy[r].runAt <= copy[r].at

TypeInv == TypeOK /\ Counting

LEMMA TypeInit == Init => TypeInv
<1> SUFFICES ASSUME Init PROVE TypeInv
  OBVIOUS
<1>1. Nothing \in Copies /\ Nothing.fails = 0 /\ Nothing.runAt = 0
  BY BoundsAssumption DEF Nothing, Copies, Slots, Results, JobStatuses
<1>2. timer \in Timers /\ timer.fails = 0
  BY BoundsAssumption DEF Init, Timers, Slots
<1>3. NotSeen \in [job : JobStatuses, at : 0..MaxClock]
  BY BoundsAssumption DEF NotSeen, JobStatuses
<1>4. TypeOK
  <2>1. pc \in [Runners -> Steps] /\ copy \in [Runners -> Copies]
    BY <1>1 DEF Init, Steps
  <2>2. clock \in 0..MaxClock /\ acts \in 0..MaxActs /\ last \in Slots
    BY BoundsAssumption DEF Init, Slots
  <2> QED
    BY <2>1, <2>2, <1>2, <1>3 DEF Init, TypeOK, JobStatuses, Commands
<1>5. Counting
  BY <1>1, <1>2, BoundsAssumption DEF Init, Counting
<1> QED
  BY <1>4, <1>5 DEF TypeInv

\* What a step of a runner does to the places and copies of the others: nothing.
LEMMA OwnStep ==
    ASSUME pc \in [Runners -> Steps], copy \in [Runners -> Copies], NEW r \in Runners,
           NEW at \in Steps, NEW c \in Copies, pc' = [pc EXCEPT ![r] = at], copy' = [copy EXCEPT ![r] = c]
    PROVE  /\ pc' \in [Runners -> Steps] /\ copy' \in [Runners -> Copies]
           /\ pc'[r] = at /\ copy'[r] = c
           /\ \A q \in Runners \ {r} : pc'[q] = pc[q] /\ copy'[q] = copy[q]
OBVIOUS

\* A step of a runner that changes its own locals only.
LEMMA CountingKept ==
    ASSUME TypeInv, NEW r \in Runners, NEW at \in Steps, NEW c \in Copies,
           pc' = [pc EXCEPT ![r] = at], copy' = [copy EXCEPT ![r] = c], clock' = clock,
           c.fails < MaxFailures, c.runAt <= clock,
           at \in {"check", "overlap", "timer"} => c.runAt <= c.at,
           timer'.status = "scheduled" => timer'.fails < MaxFailures
    PROVE  pc' \in [Runners -> Steps] /\ copy' \in [Runners -> Copies] /\ Counting'
<1>1. pc \in [Runners -> Steps] /\ copy \in [Runners -> Copies]
  BY DEF TypeInv, TypeOK
<1>2. /\ pc' \in [Runners -> Steps] /\ copy' \in [Runners -> Copies] /\ pc'[r] = at /\ copy'[r] = c
      /\ \A q \in Runners \ {r} : pc'[q] = pc[q] /\ copy'[q] = copy[q]
  BY <1>1, OwnStep
<1> QED
  BY <1>2 DEF TypeInv, Counting

LEMMA TypeStep == TypeInv /\ [Next]_vars => TypeInv'
<1> SUFFICES ASSUME TypeInv, [Next]_vars PROVE TypeInv'
  OBVIOUS
<1>t. /\ clock \in 0..MaxClock /\ job \in JobStatuses /\ timer \in Timers /\ left \in Nat
      /\ pc \in [Runners -> Steps] /\ copy \in [Runners -> Copies] /\ command \in Commands
      /\ seen \in [job : JobStatuses, at : 0..MaxClock] /\ acts \in 0..MaxActs
      /\ streak \in Nat /\ last \in Slots /\ repeated \in BOOLEAN /\ slips \subseteq Slips
      /\ Interval \in Nat \ {0} /\ MaxFailures \in Nat \ {0} /\ MaxClock \in Nat /\ MaxActs \in Nat
  BY BoundsAssumption DEF TypeInv, TypeOK
<1>c. \A r \in Runners :
         /\ copy[r].runAt \in Slots /\ copy[r].runAt <= clock /\ copy[r].fails \in Nat
         /\ copy[r].fails < MaxFailures /\ copy[r].at \in 0..MaxClock
         /\ (pc[r] \in {"check", "overlap", "timer"} => copy[r].runAt <= copy[r].at)
  BY <1>t DEF TypeInv, Counting, Copies
<1>n. Nothing \in Copies /\ Nothing.fails = 0 /\ Nothing.runAt = 0
  BY <1>t DEF Nothing, Copies, Slots, Results, JobStatuses
<1>l. \A r \in Runners : Listed(r) \in Timers
  BY <1>c, <1>t DEF Listed, Timers
<1>s. \A r \in Runners : copy[r].runAt <= copy[r].at =>
         NextRunAt(copy[r].runAt, copy[r].at) \in Slots
  <2> SUFFICES ASSUME NEW r \in Runners, copy[r].runAt <= copy[r].at
               PROVE  NextRunAt(copy[r].runAt, copy[r].at) \in Slots
    OBVIOUS
  <2>1. copy[r].runAt \in Nat /\ copy[r].at \in Nat /\ copy[r].at <= MaxClock
    BY <1>c, <1>t DEF Slots
  <2>2. /\ NextRunAt(copy[r].runAt, copy[r].at) \in Nat
        /\ NextRunAt(copy[r].runAt, copy[r].at) <= copy[r].at + Interval
    BY <2>1, NextSlotLater
  <2> QED
    BY <2>1, <2>2, <1>t DEF Slots
<1>i. "idle" \in Steps
  BY DEF Steps
<1>1. ASSUME NEW r \in Runners, NEW from, Return(r, from), clock' = clock,
             timer'.status = "scheduled" => timer'.fails < MaxFailures
      PROVE  pc' \in [Runners -> Steps] /\ copy' \in [Runners -> Copies] /\ Counting'
  <2>1. pc' = [pc EXCEPT ![r] = "idle"] /\ copy' = [copy EXCEPT ![r] = Nothing]
    BY <1>1 DEF Return, Goto
  <2>2. Nothing.fails < MaxFailures /\ Nothing.runAt <= clock
    BY <1>n, <1>t
  <2> QED
    BY <1>1, <2>1, <2>2, <1>n, <1>i, CountingKept
<1>2. ASSUME NEW r \in Runners, ListTimers(r) PROVE TypeInv'
  <2> DEFINE c == [Nothing EXCEPT !.runAt = timer.runAt, !.fails = timer.fails, !.at = clock]
  <2>1. c \in Copies /\ c.fails < MaxFailures /\ c.runAt <= clock /\ c.at = clock /\ c.runAt <= c.at
    BY <1>2, <1>t, <1>n DEF ListTimers, Due, TypeInv, Counting, Timers, Copies, Nothing
  <2>2. pc' \in [Runners -> Steps] /\ copy' \in [Runners -> Copies] /\ Counting'
    <3>1. "check" \in Steps
      BY DEF Steps
    <3>2. pc' = [pc EXCEPT ![r] = "check"] /\ copy' = [copy EXCEPT ![r] = c] /\ clock' = clock /\ timer' = timer
      BY <1>2 DEF ListTimers, Goto, RunnerUnchanged, records
    <3>3. timer'.status = "scheduled" => timer'.fails < MaxFailures
      BY <3>2 DEF TypeInv, Counting
    <3> HIDE DEF c
    <3> QED
      BY <2>1, <3>1, <3>2, <3>3, CountingKept
  <2> QED
    BY <1>2, <1>t, <2>2 DEF ListTimers, RunnerUnchanged, records, operator, history, TypeInv, TypeOK
<1>3. ASSUME NEW r \in Runners, LoadJob(r) PROVE TypeInv'
  <2> DEFINE c == [copy[r] EXCEPT !.job = job]
  <2>1. c \in Copies /\ c.fails = copy[r].fails /\ c.runAt = copy[r].runAt /\ c.at = copy[r].at
    BY <1>t DEF Copies
  <2>2. pc' \in [Runners -> Steps] /\ copy' \in [Runners -> Copies] /\ Counting'
    <3>1. "overlap" \in Steps
      BY DEF Steps
    <3>2. /\ pc[r] = "check" /\ pc' = [pc EXCEPT ![r] = "overlap"] /\ copy' = [copy EXCEPT ![r] = c]
          /\ clock' = clock /\ timer' = timer
      BY <1>3 DEF LoadJob, Goto, RunnerUnchanged, records
    <3>3. timer'.status = "scheduled" => timer'.fails < MaxFailures
      BY <3>2 DEF TypeInv, Counting
    <3> HIDE DEF c
    <3> QED
      BY <2>1, <3>1, <3>2, <3>3, <1>c, CountingKept
  <2> QED
    BY <1>3, <1>t, <2>2 DEF LoadJob, RunnerUnchanged, records, operator, history, TypeInv, TypeOK
<1>4. ASSUME NEW r \in Runners, LeaveAlone(r) \/ NotScheduled(r) PROVE TypeInv'
  <2>1. timer' = timer /\ clock' = clock
    BY <1>4 DEF LeaveAlone, NotScheduled, RunnerUnchanged, records
  <2>2. pc' \in [Runners -> Steps] /\ copy' \in [Runners -> Copies] /\ Counting'
    BY <1>4, <2>1, <1>1 DEF LeaveAlone, NotScheduled, TypeInv, Counting
  <2> QED
    BY <1>4, <1>t, <2>2 DEF LeaveAlone, NotScheduled, RunnerUnchanged, records, operator, history, TypeInv, TypeOK
<1>5. ASSUME NEW r \in Runners, Skip(r) PROVE TypeInv'
  <2>1. /\ timer' = [Listed(r) EXCEPT !.runAt = NextRunAt(copy[r].runAt, copy[r].at)]
        /\ NextRunAt(copy[r].runAt, copy[r].at) \in Slots
    BY <1>5, <1>c, <1>s DEF Skip, Return, Goto, Listed
  <2>2. timer' \in Timers /\ timer'.fails < MaxFailures
    BY <2>1, <1>l, <1>c DEF Timers, Listed
  <2>3. pc' \in [Runners -> Steps] /\ copy' \in [Runners -> Copies] /\ Counting'
    BY <1>5, <2>2, <1>1 DEF Skip, RunnerUnchanged
  <2>4. slips' \subseteq Slips
    BY <1>5, <1>t DEF Skip, Overwritten, Slips
  <2> QED
    BY <1>5, <1>t, <2>2, <2>3, <2>4 DEF Skip, RunnerUnchanged, operator, history, TypeInv, TypeOK
<1>6. ASSUME NEW r \in Runners, Release(r) PROVE TypeInv'
  <2> DEFINE c == [copy[r] EXCEPT !.job = "ready", !.at = 0]
  <2>1. c \in Copies /\ c.fails = copy[r].fails /\ c.runAt = copy[r].runAt
    <3>1. copy[r] \in Copies /\ 0 \in 0..MaxClock /\ "ready" \in JobStatuses
      BY <1>t DEF JobStatuses
    <3> QED
      BY <3>1 DEF Copies
  <2>2. pc' \in [Runners -> Steps] /\ copy' \in [Runners -> Copies] /\ Counting'
    <3>1. "start" \in Steps
      BY DEF Steps
    <3>2. pc' = [pc EXCEPT ![r] = "start"] /\ copy' = [copy EXCEPT ![r] = c] /\ clock' = clock /\ timer' = timer
      BY <1>6 DEF Release, Goto, RunnerUnchanged, records
    <3>3. timer'.status = "scheduled" => timer'.fails < MaxFailures
      BY <3>2 DEF TypeInv, Counting
    <3> HIDE DEF c
    <3> QED
      BY <2>1, <3>1, <3>2, <3>3, <1>c, CountingKept
  <2>3. slips' \subseteq Slips
    BY <1>6, <1>t DEF Release, Slips
  <2> QED
    BY <1>6, <1>t, <2>2, <2>3 DEF Release, RunnerUnchanged, records, operator, history, TypeInv, TypeOK
<1>7. ASSUME NEW r \in Runners, Activate(r) \/ Create(r) PROVE TypeInv'
  <2>1. /\ copy' = copy /\ clock' = clock /\ timer' = timer /\ left' = left
        /\ UNCHANGED <<command, seen, streak>> /\ job' \in {job, "active"}
    BY <1>7 DEF Activate, Create, RunnerUnchanged, records, operator, history
  <2>5. acts' \in 0..MaxActs
    BY <1>7, <1>t DEF Activate, Create, RunnerUnchanged
  <2>6. slips' \subseteq Slips /\ job' \in JobStatuses
    BY <1>7, <2>1, <1>t DEF Activate, Create, Slips, JobStatuses
  <2>2. last' \in Slots /\ repeated' \in BOOLEAN
    BY <1>7, <1>t, <1>c DEF Activate, Create, history
  <2>3. pc' \in [Runners -> Steps] /\ \A q \in Runners : pc'[q] = pc[q] \/ pc'[q] \in {"create", "invoke"}
    BY <1>7, <1>t DEF Activate, Create, Goto, Steps
  <2>4. Counting'
    BY <2>1, <2>3 DEF TypeInv, Counting
  <2> QED
    BY <1>t, <2>1, <2>2, <2>3, <2>4, <2>5, <2>6 DEF TypeInv, TypeOK
<1>8. ASSUME NEW r \in Runners, EndRun(r) PROVE TypeInv'
  <2>1. PICK how \in Results : /\ copy' = [copy EXCEPT ![r] = [copy[r] EXCEPT !.at = clock, !.result = how]]
                               /\ left' = IF how = "blocked" THEN left + 1 ELSE left
                               /\ streak' = IF ~Undisturbed THEN streak ELSE IF how = "failed" THEN streak + 1 ELSE 0
    BY <1>8, <1>t DEF EndRun
  <2> DEFINE c == [copy[r] EXCEPT !.at = clock, !.result = how]
  <2>2. c \in Copies /\ c.fails = copy[r].fails /\ c.runAt = copy[r].runAt /\ c.at = clock
    BY <1>t DEF Copies
  <2>3. pc' \in [Runners -> Steps] /\ copy' \in [Runners -> Copies] /\ Counting'
    <3>1. "timer" \in Steps
      BY DEF Steps
    <3>2. pc' = [pc EXCEPT ![r] = "timer"] /\ copy' = [copy EXCEPT ![r] = c] /\ clock' = clock /\ timer' = timer
      BY <1>8, <2>1 DEF EndRun, Goto, RunnerUnchanged
    <3>3. timer'.status = "scheduled" => timer'.fails < MaxFailures
      BY <3>2 DEF TypeInv, Counting
    <3> HIDE DEF c
    <3> QED
      BY <2>2, <3>1, <3>2, <3>3, <1>c, CountingKept
  <2>4. left' \in Nat /\ streak' \in Nat
    BY <2>1, <1>t
  <2> QED
    BY <1>8, <1>t, <2>3, <2>4 DEF EndRun, RunnerUnchanged, operator, TypeInv, TypeOK
<1>9. ASSUME NEW r \in Runners, WriteTimer(r) PROVE TypeInv'
  <2>1. Failures(r) \in 0..MaxFailures /\ copy[r].runAt <= copy[r].at
    BY <1>9, <1>c, <1>t DEF Failures, WriteTimer, Goto
  <2>2. NextSlot(r) \in Slots
    BY <2>1, <1>s DEF NextSlot
  <2>3. timer' \in Timers /\ (timer'.status = "scheduled" => timer'.fails < MaxFailures)
    <3>1. CASE Pauses(r)
      BY <3>1, <1>9, <1>l, <2>1 DEF WriteTimer, Timers
    <3>2. CASE ~Pauses(r)
      <4>1. timer' = [status |-> "scheduled", runAt |-> NextSlot(r), fails |-> Failures(r)]
        BY <3>2, <1>9 DEF WriteTimer, Listed
      <4>2. Failures(r) < MaxFailures
        BY <3>2, <2>1, <1>t DEF Pauses
      <4> QED
        BY <4>1, <4>2, <2>1, <2>2 DEF Timers
    <3> QED
      BY <3>1, <3>2
  <2>4. /\ copy' = copy /\ clock' = clock /\ slips' \subseteq Slips
        /\ pc' \in [Runners -> Steps] /\ \A q \in Runners : pc'[q] = pc[q] \/ pc'[q] = "job"
    BY <1>9, <1>t DEF WriteTimer, Overwritten, RunnerUnchanged, Goto, Slips, Steps
  <2>5. Counting'
    BY <2>3, <2>4 DEF TypeInv, Counting
  <2> QED
    BY <1>9, <1>t, <2>3, <2>4, <2>5 DEF WriteTimer, RunnerUnchanged, operator, history, TypeInv, TypeOK
<1>10. ASSUME NEW r \in Runners, WriteJob(r) PROVE TypeInv'
  <2>1. pc' \in [Runners -> Steps] /\ copy' \in [Runners -> Copies] /\ Counting'
    BY <1>10, <1>1 DEF WriteJob, RunnerUnchanged, TypeInv, Counting
  <2>2. job' \in JobStatuses /\ slips' \subseteq Slips
    BY <1>10, <1>t DEF WriteJob, StatusAfterRun, JobStatuses, Overwritten, Slips
  <2> QED
    BY <1>10, <1>t, <2>1, <2>2 DEF WriteJob, RunnerUnchanged, operator, history, TypeInv, TypeOK
<1>11. ASSUME NEW r \in Runners, Crash(r) PROVE TypeInv'
  <2>1. pc' \in [Runners -> Steps] /\ copy' \in [Runners -> Copies] /\ Counting'
    BY <1>11, <1>1 DEF Crash, TypeInv, Counting
  <2>2. left' \in Nat /\ slips' \subseteq Slips /\ acts' \in 0..MaxActs
    BY <1>11, <1>t DEF Crash, Slips
  <2> QED
    BY <1>11, <1>t, <2>1, <2>2 DEF Crash, operator, history, TypeInv, TypeOK
<1>12. CASE Operate
  <2>1. /\ UNCHANGED <<clock, left, pc, copy, repeated>>
    BY <1>12 DEF Operate, Command, CancelTimer, WriteSignalledJob, ScheduleJob, ScheduleTimer, OperatorUnchanged
  <2>2. ASSUME NEW what \in {"cancel", "timeout", "pause", "resume", "schedule"}, Command(what) PROVE TypeInv'
    <3>1. seen' = [job |-> job, at |-> IF what = "schedule" THEN clock ELSE 0]
      BY <2>2 DEF Command
    <3>2. seen' \in [job : JobStatuses, at : 0..MaxClock]
      BY <3>1, <1>t
    <3>3. acts' \in 0..MaxActs
      BY <2>2, <1>t DEF Command
    <3>4. command' \in Commands
      BY <2>2 DEF Command, Commands
    <3> QED
      BY <2>1, <2>2, <3>2, <3>3, <3>4, <1>t DEF Command, TypeInv, TypeOK, Counting
  <2>3. CASE CancelTimer
    <3>1. timer' \in Timers /\ timer'.status # "scheduled" /\ command' \in Commands
      BY <2>3, <1>t DEF CancelTimer, Timers, Commands
    <3> QED
      BY <2>1, <2>3, <3>1, <1>t DEF CancelTimer, TypeInv, TypeOK, Counting
  <2>4. CASE WriteSignalledJob \/ ScheduleJob
    <3>1. job' \in {"cancelled", "expired", "paused", "scheduled", "ready"}
      BY <2>4 DEF WriteSignalledJob, ScheduleJob, ResumedStatus
    <3>3. NotSeen \in [job : JobStatuses, at : 0..MaxClock]
      BY <1>t DEF NotSeen, JobStatuses
    <3>4. command' \in Commands /\ seen' \in [job : JobStatuses, at : 0..MaxClock]
      BY <2>4, <3>3, <1>t DEF WriteSignalledJob, ScheduleJob, Commands
    <3>5. job' \in JobStatuses
      BY <3>1 DEF JobStatuses, Terminal
    <3>2. slips' \subseteq Slips
      BY <2>4, <1>t DEF WriteSignalledJob, ScheduleJob, Overwritten, Slips
    <3> QED
      BY <2>1, <2>4, <3>2, <3>4, <3>5, <1>t DEF WriteSignalledJob, ScheduleJob, TypeInv, TypeOK, Counting
  <2>5. CASE ScheduleTimer
    <3>1. timer' \in Timers /\ timer'.fails = 0
      BY <2>5, <1>t DEF ScheduleTimer, Timers, Slots
    <3>2. /\ command' \in Commands /\ seen' \in [job : JobStatuses, at : 0..MaxClock] /\ streak' \in Nat
          /\ last' \in Slots /\ slips' \subseteq Slips
      BY <2>5, <1>t DEF ScheduleTimer, Commands, NotSeen, JobStatuses, Slots, Slips
    <3> QED
      BY <2>1, <2>5, <3>1, <3>2, <1>t DEF ScheduleTimer, TypeInv, TypeOK, Counting
  <2> QED
    BY <1>12, <2>2, <2>3, <2>4, <2>5 DEF Operate
<1>13. CASE ServiceTick
  <2>1. timer' \in Timers /\ timer'.status # "scheduled"
    BY <1>13, <1>t DEF ServiceTick, Timers
  <2>2. job' \in JobStatuses /\ slips' \subseteq Slips /\ acts' \in 0..MaxActs
    BY <1>13, <1>t DEF ServiceTick, JobStatuses, Slips
  <2> QED
    BY <1>13, <2>1, <2>2, <1>t DEF ServiceTick, operator, history, TypeInv, TypeOK, Counting
<1>14. CASE ProcessEnds
  BY <1>14, <1>t DEF ProcessEnds, operator, history, TypeInv, TypeOK, Counting
<1>15. CASE Tick
  <2>1. clock' \in 0..MaxClock /\ clock' > clock
    BY <1>15, <1>t DEF Tick
  <2>2. Counting'
    BY <1>15, <2>1, <1>t, <1>c DEF Tick, records, TypeInv, Counting, Slots
  <2> QED
    BY <1>15, <2>1, <2>2, <1>t DEF Tick, records, operator, history, TypeInv, TypeOK
<1>16. CASE UNCHANGED vars
  BY <1>16, <1>t DEF vars, records, operator, history, TypeInv, TypeOK, Counting
<1> QED
  BY <1>2, <1>3, <1>4, <1>5, <1>6, <1>7, <1>8, <1>9, <1>10, <1>11, <1>12, <1>13, <1>14, <1>15, <1>16 DEF Next, Run

\* Every variable keeps its type: no timer that is scheduled has used up its
\* failures, no copy is of a slot that is not due, and the next slot is
\* within an interval of the clock.
THEOREM TypeCorrect == Spec => []TypeOK
<1>1. TypeInv => TypeOK
  BY DEF TypeInv
<1> QED
  BY TypeInit, TypeStep, <1>1, PTL DEF Spec

-------------------------------------------------------------------------------
(* Runs do not overlap.                                                    *)

\* What has slipped stays recorded.
LEMMA SlipsStay == [Next]_vars => slips \subseteq slips'
BY DEF Next, Run, Operate, ListTimers, LoadJob, LeaveAlone, Skip, Release, NotScheduled, Activate, Create, EndRun,
       WriteTimer, WriteJob, Command, CancelTimer, WriteSignalledJob, ScheduleJob, ScheduleTimer, ServiceTick,
       ProcessEnds, Tick, Crash, Overwritten, OperatorUnchanged, vars

LEMMA DisturbedStays == [Next]_vars => (Undisturbed' => Undisturbed)
BY SlipsStay DEF Undisturbed

\* The steps of a runner, as far as its place and its copy are concerned
LEMMA OthersStay ==
    ASSUME pc \in [Runners -> Steps], copy \in [Runners -> Copies], NEW r \in Runners, Run(r) \/ Crash(r)
    PROVE  \A q \in Runners \ {r} : pc'[q] = pc[q] /\ copy'[q] = copy[q]
BY DEF Run, ListTimers, LoadJob, LeaveAlone, Skip, Release, NotScheduled, Activate, Create, EndRun,
       WriteTimer, WriteJob, Crash, Goto, Return

\* From the check to the end of its process a run is alone, and no process of
\* the job is left, unless another has passed the check before it was written.
Holds(r) == pc[r] \in {"start", "create", "invoke"}

OneRun ==
    "raced" \notin slips =>
        /\ \A r, q \in Runners : Holds(r) /\ Holds(q) => r = q
        /\ \A r \in Runners : Holds(r) => left = 0
        /\ left <= 1

LEMMA OneRunStep == TypeOK /\ OneRun /\ [Next]_vars => OneRun'
<1> SUFFICES ASSUME TypeOK, OneRun, [Next]_vars, "raced" \notin slips'
             PROVE  /\ \A r, q \in Runners : Holds(r)' /\ Holds(q)' => r = q
                    /\ \A r \in Runners : Holds(r)' => left' = 0
                    /\ left' <= 1
  BY DEF OneRun
<1>t. pc \in [Runners -> Steps] /\ copy \in [Runners -> Copies] /\ left \in Nat
  BY DEF TypeOK
<1>i. /\ \A r, q \in Runners : Holds(r) /\ Holds(q) => r = q
      /\ \A r \in Runners : Holds(r) => left = 0
      /\ left <= 1
  BY SlipsStay DEF OneRun
<1>1. ASSUME NEW r \in Runners, Release(r) PROVE OneRun'
  <2>1. pc'[r] = "start" /\ left' = left /\ left = 0 /\ \A q \in Runners \ {r} : pc'[q] = pc[q]
    BY <1>1, <1>t DEF Release, Goto, HasActiveProcess, records
  <2>2. \A q \in Runners : pc[q] # "invoke"
    BY <1>1 DEF Release, HasActiveProcess, Running
  <2>3. \A q \in Runners \ {r} : pc[q] \notin {"start", "create"}
    BY <1>1 DEF Release, Races
  <2> QED
    BY <2>1, <2>2, <2>3 DEF OneRun, Holds
<1>2. ASSUME NEW r \in Runners, Activate(r) \/ Create(r) PROVE OneRun'
  <2>1. /\ pc[r] \in {"start", "create"} /\ pc'[r] \in {"create", "invoke"} /\ left' = left
        /\ \A q \in Runners \ {r} : pc'[q] = pc[q]
    BY <1>2, <1>t DEF Activate, Create, Goto, records
  <2> QED
    BY <2>1, <1>i DEF OneRun, Holds
<1>3. ASSUME NEW r \in Runners, EndRun(r) PROVE OneRun'
  <2>1. /\ pc[r] = "invoke" /\ pc'[r] = "timer" /\ left' \in {left, left + 1}
        /\ \A q \in Runners \ {r} : pc'[q] = pc[q]
    BY <1>3, <1>t DEF EndRun, Goto
  <2>2. left = 0 /\ \A q \in Runners \ {r} : ~Holds(q)
    BY <2>1, <1>i DEF Holds
  <2> QED
    BY <2>1, <2>2 DEF OneRun, Holds
<1>5. ASSUME NEW r \in Runners, ListTimers(r) \/ LoadJob(r) \/ LeaveAlone(r) \/ Skip(r) \/ NotScheduled(r)
                                \/ WriteTimer(r) \/ WriteJob(r)
      PROVE  OneRun'
  <2>1. /\ pc'[r] \in {"check", "overlap", "idle", "job"} /\ left' = left
        /\ \A q \in Runners \ {r} : pc'[q] = pc[q]
    BY <1>5, <1>t DEF ListTimers, LoadJob, LeaveAlone, Skip, NotScheduled, WriteTimer, WriteJob, Goto, Return, records
  <2> QED
    BY <2>1, <1>i DEF OneRun, Holds
<1>6. ASSUME NEW r \in Runners, Crash(r) PROVE OneRun'
  <2>1. /\ pc'[r] = "idle" /\ left' = IF pc[r] = "invoke" THEN left + 1 ELSE left
        /\ \A q \in Runners \ {r} : pc'[q] = pc[q]
    BY <1>6, <1>t DEF Crash, Return, Goto, Running
  <2>2. pc[r] = "invoke" => left = 0 /\ \A q \in Runners \ {r} : ~Holds(q)
    BY <1>i DEF Holds
  <2> QED
    BY <2>1, <2>2, <1>i DEF OneRun, Holds
<1>7. CASE ProcessEnds
  <2>1. pc' = pc /\ left' \in Nat /\ left' < left
    BY <1>7, <1>t DEF ProcessEnds
  <2> QED
    BY <2>1, <1>i, <1>t DEF OneRun, Holds
<1>8. CASE Operate \/ ServiceTick \/ Tick \/ UNCHANGED vars
  <2>1. pc' = pc /\ left' = left
    BY <1>8 DEF Operate, Command, CancelTimer, WriteSignalledJob, ScheduleJob, ScheduleTimer, OperatorUnchanged,
                ServiceTick, Tick, records, vars
  <2> QED
    BY <2>1, <1>i DEF OneRun, Holds
<1> QED
  BY <1>1, <1>2, <1>3, <1>5, <1>6, <1>7, <1>8 DEF Next, Run, OneRun

LEMMA OneRunInit == Init => OneRun
BY DEF Init, OneRun, Holds

\* A job has one active process at most, running or blocked, whatever signals,
\* service ticks and crashes fall between the steps of a run: the overlap check
\* of a release keeps a second one out, unless a runner passes it while another
\* has passed it and has not written its process.
THEOREM RunsAlone == Spec => []NoOverlap
<1>1. TypeOK /\ OneRun => NoOverlap
  BY DEF TypeOK, OneRun, NoOverlap, Holds, Running
<1> QED
  BY OneRunInit, OneRunStep, TypeCorrect, <1>1, PTL DEF Spec

-------------------------------------------------------------------------------
(* Slots run once.                                                         *)

\* A run has the records to itself, as long as nothing has been disturbed.
RunsApart == Undisturbed => \A r, q \in Runners : InRun(r) /\ InRun(q) => r = q

LEMMA ApartInit == Init => RunsApart
BY DEF Init, RunsApart, InRun

LEMMA ApartStep == TypeOK /\ RunsApart /\ [Next]_vars => RunsApart'
<1> SUFFICES ASSUME TypeOK, RunsApart, [Next]_vars, Undisturbed'
             PROVE  \A r, q \in Runners : InRun(r)' /\ InRun(q)' => r = q
  BY DEF RunsApart
<1>t. pc \in [Runners -> Steps] /\ copy \in [Runners -> Copies]
  BY DEF TypeOK
<1>i. \A r, q \in Runners : InRun(r) /\ InRun(q) => r = q
  BY DisturbedStays DEF RunsApart
<1>1. ASSUME NEW r \in Runners, Activate(r) PROVE RunsApart'
  <2>1. \A q \in Runners \ {r} : ~InRun(q) /\ pc'[q] = pc[q]
    BY <1>1, <1>t, OthersStay DEF Activate, Fresh, Alone, Undisturbed, Run
  <2> QED
    BY <2>1 DEF RunsApart, InRun
<1>2. ASSUME NEW r \in Runners, Run(r) \/ Crash(r), ~Activate(r) PROVE RunsApart'
  <2>1. InRun(r)' => InRun(r)
    BY <1>2, <1>t DEF InRun, Run, ListTimers, LoadJob, LeaveAlone, Skip, Release, NotScheduled, Create, EndRun,
                      WriteTimer, WriteJob, Crash, Goto, Return
  <2>2. \A q \in Runners \ {r} : pc'[q] = pc[q]
    BY <1>2, <1>t, OthersStay
  <2> QED
    BY <2>1, <2>2, <1>i DEF RunsApart, InRun
<1>3. CASE UNCHANGED pc
  BY <1>3, <1>i DEF InRun
<1> QED
  BY <1>1, <1>2, <1>3
     DEF Next, Run, Operate, Command, CancelTimer, WriteSignalledJob, ScheduleJob, ScheduleTimer, OperatorUnchanged,
         ServiceTick, ProcessEnds, Tick, vars, RunsApart

LEMMA UndisturbedRuns ==
    ASSUME RunsApart, Undisturbed
    PROVE  \A r, q \in Runners : InRun(r) /\ InRun(q) => r = q
BY DEF RunsApart

\* The slot to be run next is later than the last one that was run.
SlotInv ==
    /\ ~repeated
    /\ Undisturbed =>
        /\ \A r \in Runners : pc[r] = "create" => copy[r].runAt > last
        /\ \A r \in Runners : pc[r] \in {"invoke", "timer"} => copy[r].runAt = last
        /\ (timer.status = "scheduled" /\ \A r \in Runners : pc[r] \notin {"invoke", "timer"}) => timer.runAt > last

LEMMA SlotStep == TypeInv /\ RunsApart /\ SlotInv /\ [Next]_vars => SlotInv'
<1> SUFFICES ASSUME TypeInv, RunsApart, SlotInv, [Next]_vars PROVE SlotInv'
  OBVIOUS
<1>t. /\ pc \in [Runners -> Steps] /\ copy \in [Runners -> Copies] /\ timer \in Timers /\ last \in Nat
      /\ seen.at \in Nat /\ timer.runAt \in Nat /\ Interval \in Nat \ {0}
      /\ \A r \in Runners : copy[r].runAt \in Nat /\ copy[r].at \in Nat
  BY BoundsAssumption DEF TypeInv, TypeOK, Timers, Copies, Slots
<1>u. Undisturbed' => Undisturbed
  BY DisturbedStays
<1>n. \A r \in Runners : NextRunAt(copy[r].runAt, copy[r].at) > copy[r].runAt
  BY <1>t, NextSlotLater
<1>1. ASSUME NEW r \in Runners, Run(r) \/ Crash(r), timer' = timer, last' = last, repeated' = repeated,
             pc[r] \notin {"create", "invoke", "timer"}, pc'[r] \notin {"create", "invoke", "timer"}
      PROVE  SlotInv'
  <2>1. \A q \in Runners \ {r} : pc'[q] = pc[q] /\ copy'[q] = copy[q]
    BY <1>1, <1>t, OthersStay
  <2> QED
    BY <1>1, <1>u, <2>1 DEF SlotInv
<1>2. ASSUME NEW r \in Runners, ListTimers(r) \/ LoadJob(r) \/ LeaveAlone(r) \/ Release(r) \/ NotScheduled(r) \/ WriteJob(r)
      PROVE  SlotInv'
  <2>1. /\ timer' = timer /\ last' = last /\ repeated' = repeated /\ Run(r)
        /\ pc[r] \in {"idle", "check", "overlap", "job"} /\ pc'[r] \in {"check", "overlap", "idle", "start"}
    BY <1>2, <1>t DEF ListTimers, LoadJob, LeaveAlone, Release, NotScheduled, WriteJob, Run, records, history,
                      Return, Goto
  <2> QED
    BY <2>1, <1>1
<1>3. ASSUME NEW r \in Runners, Skip(r) PROVE SlotInv'
  <2>1. \A q \in Runners \ {r} : pc'[q] = pc[q] /\ copy'[q] = copy[q]
    BY <1>3, <1>t, OthersStay DEF Run
  <2>2. /\ pc[r] = "overlap" /\ pc'[r] = "idle" /\ last' = last /\ repeated' = repeated
        /\ timer' = [Listed(r) EXCEPT !.runAt = NextRunAt(@, copy[r].at)]
    BY <1>3, <1>t DEF Skip, Return, Goto, history
  <2>3. timer'.runAt > copy[r].runAt
    BY <2>2, <1>n DEF Listed
  <2>4. timer'.runAt \in Nat
    BY <2>2, <1>t, NextSlotLater DEF Listed
  <2>5. Undisturbed' => timer.status = "scheduled" /\ timer.runAt = copy[r].runAt
    BY <1>3 DEF Skip, Overwritten, Undisturbed, Listed
  <2> QED
    BY <1>u, <1>t, <2>1, <2>2, <2>3, <2>4, <2>5 DEF SlotInv
<1>4. ASSUME NEW r \in Runners, Activate(r) PROVE SlotInv'
  <2>1. \A q \in Runners \ {r} : pc'[q] = pc[q] /\ copy'[q] = copy[q]
    BY <1>4, <1>t, OthersStay DEF Run
  <2>2. /\ pc[r] = "start" /\ pc'[r] = "create" /\ copy' = copy /\ last' = last /\ repeated' = repeated
        /\ timer' = timer
    BY <1>4, <1>t DEF Activate, Goto, history
  <2>3. Undisturbed' => timer = Listed(r) /\ \A q \in Runners : pc[q] \notin {"invoke", "timer"}
    BY <1>4, <2>2 DEF Activate, Fresh, Alone, InRun, Undisturbed
  <2>4. Undisturbed' => copy[r].runAt > last
    BY <2>3, <1>u DEF SlotInv, Listed
  <2> QED
    BY <1>u, <2>1, <2>2, <2>4 DEF SlotInv
<1>5. ASSUME NEW r \in Runners, Create(r) PROVE SlotInv'
  <2>1. \A q \in Runners \ {r} : pc'[q] = pc[q] /\ copy'[q] = copy[q]
    BY <1>5, <1>t, OthersStay DEF Run
  <2>2. /\ pc[r] = "create" /\ pc'[r] = "invoke" /\ copy' = copy /\ slips' = slips
        /\ last' = (IF Undisturbed THEN copy[r].runAt ELSE last)
        /\ repeated' = (repeated \/ (Undisturbed /\ copy[r].runAt <= last))
    BY <1>5, <1>t DEF Create, Goto
  <2>3. Undisturbed => \A q \in Runners \ {r} : pc[q] \notin {"create", "invoke", "timer"}
    BY <2>2, UndisturbedRuns DEF InRun
  <2>4. ~repeated'
    <3>1. ~repeated /\ (Undisturbed => copy[r].runAt > last)
      BY <2>2 DEF SlotInv
    <3>2. ~(Undisturbed /\ copy[r].runAt <= last)
      BY <3>1, <1>t
    <3> QED
      BY <2>2, <3>1, <3>2, Zenon
  <2>5. Undisturbed' = Undisturbed
    BY <2>2 DEF Undisturbed
  <2> QED
    BY <2>1, <2>2, <2>3, <2>4, <2>5 DEF SlotInv
<1>6. ASSUME NEW r \in Runners, EndRun(r) PROVE SlotInv'
  <2>1. \A q \in Runners \ {r} : pc'[q] = pc[q] /\ copy'[q] = copy[q]
    BY <1>6, <1>t, OthersStay DEF Run
  <2>2. /\ pc[r] = "invoke" /\ pc'[r] = "timer" /\ copy'[r].runAt = copy[r].runAt
        /\ last' = last /\ repeated' = repeated
    BY <1>6, <1>t DEF EndRun, Goto, Copies
  <2> QED
    BY <1>u, <2>1, <2>2 DEF SlotInv
<1>7. ASSUME NEW r \in Runners, WriteTimer(r) PROVE SlotInv'
  <2>1. \A q \in Runners \ {r} : pc'[q] = pc[q] /\ copy'[q] = copy[q]
    BY <1>7, <1>t, OthersStay DEF Run
  <2>2. /\ pc[r] = "timer" /\ pc'[r] = "job" /\ last' = last /\ repeated' = repeated
        /\ timer' = IF Pauses(r)
                    THEN [Listed(r) EXCEPT !.status = "cancelled", !.fails = Failures(r)]
                    ELSE [Listed(r) EXCEPT !.runAt = NextSlot(r), !.fails = Failures(r)]
    BY <1>7, <1>t DEF WriteTimer, Goto, history
  <2>3. timer'.status = "scheduled" => timer'.runAt > copy[r].runAt
    BY <2>2, <1>n DEF Listed, NextSlot
  <2>4. Undisturbed => copy[r].runAt = last
    BY <2>2 DEF SlotInv
  <2> QED
    BY <1>u, <2>1, <2>2, <2>3, <2>4 DEF SlotInv
<1>8. ASSUME NEW r \in Runners, Crash(r) PROVE SlotInv'
  <2>1. /\ timer' = timer /\ last' = last /\ repeated' = repeated /\ pc'[r] = "idle"
        /\ \A q \in Runners \ {r} : pc'[q] = pc[q] /\ copy'[q] = copy[q]
    BY <1>8, <1>t DEF Crash, Return, Goto, history
  <2>2. CASE pc[r] \in {"invoke", "timer"}
    BY <1>8, <2>1, <2>2 DEF Crash, Undisturbed, SlotInv
  <2>3. CASE pc[r] \notin {"invoke", "timer"}
    BY <1>u, <2>1, <2>3 DEF SlotInv
  <2> QED
    BY <2>2, <2>3
<1>9. CASE ScheduleTimer
  <2>1. /\ timer' = [status |-> "scheduled", runAt |-> seen.at + Interval, fails |-> 0] /\ last' = 0
        /\ UNCHANGED <<pc, copy, repeated>>
    BY <1>9 DEF ScheduleTimer, OperatorUnchanged
  <2>2. Undisturbed' => \A r \in Runners : pc[r] = "idle"
    BY <1>9 DEF ScheduleTimer, Undisturbed
  <2>3. timer'.runAt > last'
    BY <2>1, <1>t
  <2> QED
    BY <2>1, <2>2, <2>3 DEF SlotInv
<1>10. ASSUME UNCHANGED <<pc, copy, repeated, last>>, timer' = timer \/ timer'.status # "scheduled" PROVE SlotInv'
  BY <1>10, <1>u DEF SlotInv
<1>11. CASE Operate /\ ~ScheduleTimer
  BY <1>11, <1>10, <1>t DEF Operate, Command, CancelTimer, WriteSignalledJob, ScheduleJob, OperatorUnchanged, Timers
<1>12. CASE ServiceTick
  BY <1>12, <1>10, <1>t DEF ServiceTick, history, Timers
<1>13. CASE ProcessEnds \/ Tick \/ UNCHANGED vars
  BY <1>13, <1>10 DEF ProcessEnds, Tick, records, history, vars
<1> QED
  BY <1>2, <1>3, <1>4, <1>5, <1>6, <1>7, <1>8, <1>9, <1>11, <1>12, <1>13 DEF Next, Run, Operate

LEMMA SlotInit == Init => SlotInv
BY BoundsAssumption DEF Init, SlotInv

\* No slot of a timer is run twice: the slot of a scheduled timer, and of a
\* run that is about to begin, is later than the last one that was run,
\* through skips, pauses, blocked and failed runs.
THEOREM SlotsRunOnce == Spec => []SlotRunsOnce
<1>1. SlotInv => SlotRunsOnce
  BY DEF SlotInv, SlotRunsOnce
<1>2. TypeInv => TypeOK
  BY DEF TypeInv
<1> QED
  BY TypeInit, TypeStep, ApartInit, ApartStep, SlotInit, SlotStep, <1>1, <1>2, PTL DEF Spec

-------------------------------------------------------------------------------
(* Failures are counted.                                                   *)

\* Between the runs the timer has the count; the run that is about to write
\* it has counted one more, or starts again.
FailInv ==
    Undisturbed =>
        /\ (\A r \in Runners : pc[r] # "timer") =>
              timer.fails = streak /\ (streak >= MaxFailures => timer.status = "cancelled")
        /\ \A r \in Runners : pc[r] = "timer" =>
              streak = (IF copy[r].result = "failed" THEN timer.fails + 1 ELSE 0)

LEMMA FailStep == TypeInv /\ RunsApart /\ FailInv /\ [Next]_vars => FailInv'
<1> SUFFICES ASSUME TypeInv, RunsApart, FailInv, [Next]_vars PROVE FailInv'
  OBVIOUS
<1>t. /\ pc \in [Runners -> Steps] /\ copy \in [Runners -> Copies] /\ timer \in Timers /\ streak \in Nat
      /\ MaxFailures \in Nat \ {0} /\ timer.fails \in Nat /\ \A r \in Runners : copy[r].fails \in Nat
  BY BoundsAssumption DEF TypeInv, TypeOK, Timers, Copies
<1>u. Undisturbed' => Undisturbed
  BY DisturbedStays
<1>1. ASSUME NEW r \in Runners, Run(r) \/ Crash(r), timer'.fails = timer.fails, timer'.status = timer.status,
             streak' = streak, pc[r] # "timer", pc'[r] # "timer"
      PROVE  FailInv'
  <2>1. \A q \in Runners \ {r} : pc'[q] = pc[q] /\ copy'[q] = copy[q]
    BY <1>1, <1>t, OthersStay
  <2>2. (\A q \in Runners : pc'[q] # "timer") => \A q \in Runners : pc[q] # "timer"
    BY <1>1, <2>1
  <2> QED
    BY <1>1, <1>u, <2>1, <2>2 DEF FailInv
<1>2. ASSUME NEW r \in Runners, ListTimers(r) \/ LoadJob(r) \/ LeaveAlone(r) \/ Release(r) \/ NotScheduled(r)
                                \/ Activate(r) \/ Create(r) \/ WriteJob(r)
      PROVE  FailInv'
  <2>1. /\ timer' = timer /\ streak' = streak /\ Run(r) /\ pc[r] # "timer" /\ pc'[r] # "timer"
    BY <1>2, <1>t DEF ListTimers, LoadJob, LeaveAlone, Release, NotScheduled, Activate, Create, WriteJob, Run,
                      records, history, Return, Goto
  <2> QED
    BY <2>1, <1>1
<1>3. ASSUME NEW r \in Runners, Skip(r) PROVE FailInv'
  <2>1. /\ pc[r] = "overlap" /\ pc'[r] = "idle" /\ streak' = streak /\ Run(r)
        /\ timer'.fails = copy[r].fails /\ timer'.status = "scheduled"
    BY <1>3, <1>t DEF Skip, Return, Goto, history, Listed, Run
  <2>2. CASE timer = Listed(r)
    BY <2>1, <2>2, <1>1 DEF Listed
  <2>3. CASE timer # Listed(r)
    BY <1>3, <2>3 DEF Skip, Overwritten, Undisturbed, FailInv
  <2> QED
    BY <2>2, <2>3
<1>4. ASSUME NEW r \in Runners, EndRun(r) PROVE FailInv'
  <2>1. \A q \in Runners \ {r} : pc'[q] = pc[q]
    BY <1>4, <1>t, OthersStay DEF Run
  <2>2. PICK how \in Results : /\ copy' = [copy EXCEPT ![r] = [copy[r] EXCEPT !.at = clock, !.result = how]]
                               /\ streak' = IF ~Undisturbed THEN streak ELSE IF how = "failed" THEN streak + 1 ELSE 0
    BY <1>4, <1>t DEF EndRun
  <2>3. pc[r] = "invoke" /\ pc'[r] = "timer" /\ timer' = timer /\ copy'[r].result = how
    BY <1>4, <1>t, <2>2 DEF EndRun, Goto, Copies
  <2>4. Undisturbed => \A q \in Runners : pc[q] # "timer"
    BY <2>3, UndisturbedRuns DEF InRun
  <2> QED
    BY <1>u, <2>1, <2>2, <2>3, <2>4 DEF FailInv
<1>5. ASSUME NEW r \in Runners, WriteTimer(r) PROVE FailInv'
  <2> SUFFICES ASSUME Undisturbed' PROVE FailInv'
    BY DEF FailInv
  <2>1. \A q \in Runners \ {r} : pc'[q] = pc[q]
    BY <1>5, <1>t, OthersStay DEF Run
  <2>2. pc[r] = "timer" /\ pc'[r] = "job" /\ streak' = streak
    BY <1>5, <1>t DEF WriteTimer, Goto, history
  <2>3. timer = Listed(r) /\ timer.fails = copy[r].fails
    BY <1>5 DEF WriteTimer, Overwritten, Undisturbed, Listed
  <2>4. streak = Failures(r)
    BY <1>u, <2>2, <2>3 DEF FailInv, Failures
  <2>5. timer'.fails = Failures(r) /\ (Failures(r) >= MaxFailures => timer'.status = "cancelled")
    BY <1>5 DEF WriteTimer, Listed, Pauses
  <2>6. \A q \in Runners : pc'[q] # "timer"
    BY <1>u, <2>1, <2>2, UndisturbedRuns DEF InRun
  <2> QED
    BY <2>2, <2>4, <2>5, <2>6 DEF FailInv
<1>6. ASSUME NEW r \in Runners, Crash(r) PROVE FailInv'
  <2>1. timer' = timer /\ streak' = streak /\ pc'[r] = "idle"
    BY <1>6, <1>t DEF Crash, Return, Goto, history
  <2>2. CASE pc[r] = "timer"
    BY <1>6, <2>2 DEF Crash, Undisturbed, FailInv
  <2>3. CASE pc[r] # "timer"
    BY <1>6, <2>1, <2>3, <1>1
  <2> QED
    BY <2>2, <2>3
<1>7. CASE ScheduleTimer
  <2>1. /\ timer'.fails = 0 /\ streak' = 0 /\ pc' = pc
    BY <1>7 DEF ScheduleTimer, OperatorUnchanged
  <2>2. Undisturbed' => \A r \in Runners : pc[r] = "idle"
    BY <1>7 DEF ScheduleTimer, Undisturbed
  <2> QED
    BY <2>1, <2>2, <1>t DEF FailInv
<1>8. ASSUME UNCHANGED <<pc, copy, streak>>, timer'.fails = timer.fails,
             timer.status = "cancelled" => timer'.status = "cancelled"
      PROVE FailInv'
  BY <1>8, <1>u DEF FailInv
<1>9. CASE Operate /\ ~ScheduleTimer
  BY <1>9, <1>8, <1>t DEF Operate, Command, CancelTimer, WriteSignalledJob, ScheduleJob, OperatorUnchanged, Timers
<1>10. CASE ServiceTick
  BY <1>10, <1>8, <1>t DEF ServiceTick, history, Timers, Due
<1>11. CASE ProcessEnds \/ Tick \/ UNCHANGED vars
  BY <1>11, <1>8 DEF ProcessEnds, Tick, records, history, vars
<1> QED
  BY <1>2, <1>3, <1>4, <1>5, <1>6, <1>7, <1>9, <1>10, <1>11 DEF Next, Run, Operate

LEMMA FailInit == Init => FailInv
BY BoundsAssumption DEF Init, FailInv

\* The count of the timer is the number of failures since the last run that
\* did not fail, through skips, pauses and blocked runs, and a timer that has
\* reached the limit is cancelled.
THEOREM FailuresCounted == Spec => []FailuresAreCounted
<1>1. FailInv => FailuresAreCounted
  BY DEF FailInv, FailuresAreCounted
<1>2. TypeInv => TypeOK
  BY DEF TypeInv
<1> QED
  BY TypeInit, TypeStep, ApartInit, ApartStep, FailInit, FailStep, <1>1, <1>2, PTL DEF Spec
================================================================================
