--------------------------- MODULE WatchServiceProofs --------------------------
(***************************************************************************)
(* Proofs about WatchService, for every set of services, every staleness   *)
(* and capacity and every number of faults.                                *)
(***************************************************************************)
EXTENDS WatchService, SequenceTheorems, TLAPS

-------------------------------------------------------------------------------
(* Queues of snapshots.                                                    *)

\* What is in a queue
In(q) == {q[i] : i \in DOMAIN q}

LEMMA AppendIn ==
    ASSUME NEW q \in Seq(Entries), NEW e \in Entries
    PROVE  Append(q, e) \in Seq(Entries) /\ Append(q, e) # <<>> /\ In(Append(q, e)) = In(q) \union {e}
<1>1. /\ Append(q, e) \in Seq(Entries) /\ Append(q, e) # <<>>
      /\ Len(Append(q, e)) = Len(q) + 1 /\ Len(q) \in Nat
      /\ \A i \in 1..Len(q) : Append(q, e)[i] = q[i]
      /\ Append(q, e)[Len(q) + 1] = e
      /\ DOMAIN q = 1..Len(q) /\ DOMAIN Append(q, e) = 1..(Len(q) + 1)
  BY AppendProperties
<1>2. 1..(Len(q) + 1) = (1..Len(q)) \union {Len(q) + 1}
  BY <1>1
<1> QED
  BY <1>1, <1>2 DEF In

LEMMA TailIn ==
    ASSUME NEW q \in Seq(Entries), q # <<>>
    PROVE  Head(q) \in In(q) /\ Tail(q) \in Seq(Entries) /\ In(Tail(q)) \subseteq In(q)
<1>1. /\ Tail(q) \in Seq(Entries) /\ Len(Tail(q)) = Len(q) - 1 /\ Head(q) = q[1]
      /\ \A i \in 1..Len(Tail(q)) : Tail(q)[i] = q[i + 1]
  BY HeadTailProperties
<1>2. Len(q) \in Nat /\ Len(q) > 0 /\ DOMAIN q = 1..Len(q) /\ DOMAIN Tail(q) = 1..Len(Tail(q))
  BY <1>1, EmptySeq
<1>3. \A i \in DOMAIN Tail(q) : i + 1 \in DOMAIN q /\ Tail(q)[i] = q[i + 1]
  BY <1>1, <1>2
<1>4. 1 \in DOMAIN q
  BY <1>2
<1> QED
  BY <1>1, <1>3, <1>4 DEF In

LEMMA EmptyIn ==
    /\ In(<<>>) = {}
    /\ \A q \in Seq(Entries) : q # <<>> => In(q) # {}
<1>1. In(<<>>) = {}
  BY DEF In
<1>2. ASSUME NEW q \in Seq(Entries), q # <<>> PROVE In(q) # {}
  BY <1>2, TailIn
<1> QED
  BY <1>1, <1>2

LEMMA InEntries == \A q \in Seq(Entries) : In(q) \subseteq Entries
BY DEF In

LEMMA QueuedIn ==
    ASSUME NEW s \in Services, NEW from
    PROVE  Queued(s, from) <=> \E e \in In(outbox[s]) : e.from = from
BY DEF Queued, In

\* The effect of a snapshot that is queued, written or given up
LEMMA EnqueueIn ==
    ASSUME outbox \in [Services -> Seq(Entries)], NEW s \in Services, NEW from \in {"main", "skip", "signal"},
           NEW status \in Statuses, Enqueue(s, from, status)
    PROVE  /\ outbox' \in [Services -> Seq(Entries)] /\ outbox'[s] # <<>>
           /\ In(outbox'[s]) = In(outbox[s]) \union {[from |-> from, status |-> status]}
           /\ \A t \in Services \ {s} : outbox'[t] = outbox[t]
<1>1. [from |-> from, status |-> status] \in Entries
  BY DEF Entries
<1>2. outbox[s] \in Seq(Entries)
  OBVIOUS
<1> DEFINE q == Append(outbox[s], [from |-> from, status |-> status])
<1>3. q \in Seq(Entries) /\ q # <<>> /\ In(q) = In(outbox[s]) \union {[from |-> from, status |-> status]}
  BY <1>1, <1>2, AppendIn
<1>4. outbox' = [outbox EXCEPT ![s] = q]
  BY DEF Enqueue
<1> HIDE DEF q
<1> QED
  BY <1>3, <1>4

LEMMA DequeueIn ==
    ASSUME outbox \in [Services -> Seq(Entries)], NEW s \in Services, outbox[s] # <<>>,
           outbox' = [outbox EXCEPT ![s] = Tail(@)]
    PROVE  /\ outbox' \in [Services -> Seq(Entries)]
           /\ Head(outbox[s]) \in In(outbox[s]) /\ Head(outbox[s]) \in Entries
           /\ In(outbox'[s]) \subseteq In(outbox[s])
           /\ \A t \in Services \ {s} : outbox'[t] = outbox[t]
<1>1. outbox[s] \in Seq(Entries)
  OBVIOUS
<1> DEFINE q == Tail(outbox[s])
<1>2. Head(outbox[s]) \in In(outbox[s]) /\ q \in Seq(Entries) /\ In(q) \subseteq In(outbox[s])
  BY <1>1, TailIn
<1>3. In(outbox[s]) \subseteq Entries
  BY <1>1, InEntries
<1> HIDE DEF q
<1> QED
  BY <1>2, <1>3 DEF q

-------------------------------------------------------------------------------
(* Types.                                                                  *)

LEMMA NewTypes ==
    /\ \A s \in Services : New(s) \in Claims /\ New(s) # NoLock /\ New(s).by = s /\ New(s).age = 0
    /\ \A f \in Claims \union {NoLock} : Older(f) \in Claims \union {NoLock}
    /\ \A f \in Claims : /\ f # NoLock /\ f.by \in Services /\ f.age \in 0..StaleAfter
                       /\ Older(f) \in Claims /\ Older(f).by = f.by
<1>1. \A s \in Services : New(s) \in Claims /\ New(s) # NoLock /\ New(s).by = s /\ New(s).age = 0
  BY BoundsAssumption, NoLockAssumption DEF New, Claims
<1>2. ASSUME NEW f \in Claims PROVE Older(f) \in Claims /\ Older(f).by = f.by
  <2>1. f.age \in 0..StaleAfter
    BY DEF Claims
  <2>2. ~Stale(f) => f.age + 1 \in 0..StaleAfter
    BY <2>1, BoundsAssumption DEF Stale
  <2> QED
    BY <2>2 DEF Older, Claims
<1>3. Older(NoLock) = NoLock
  BY DEF Older
<1>4. \A f \in Claims : f # NoLock /\ f.by \in Services /\ f.age \in 0..StaleAfter
  BY NoLockAssumption DEF Claims
<1> QED
  BY <1>1, <1>2, <1>3, <1>4

LEMMA TypeInit == Init => TypeOK
<1> SUFFICES ASSUME Init PROVE TypeOK
  OBVIOUS
<1>1. outbox \in [Services -> Seq(Entries)]
  BY DEF Init
<1>2. active \in [Services -> 0..Capacity] /\ faults \in 0..MaxFaults
  BY BoundsAssumption DEF Init
<1> QED
  BY <1>1, <1>2 DEF Init, TypeOK, Mains, Before, Ended, Outcomes

LEMMA OutboxType ==
    ASSUME TypeOK, [Next]_vars
    PROVE  outbox' \in [Services -> Seq(Entries)]
<1>t. outbox \in [Services -> Seq(Entries)] /\ outcome \in [Services -> Outcomes]
  BY DEF TypeOK
<1>s. "active" \in Statuses /\ "stopping" \in Statuses /\ \A s \in Services : outcome[s] \in Statuses
  BY <1>t DEF Statuses
<1>1. ASSUME NEW s \in Services, NEW from \in {"main", "skip", "signal"}, NEW status \in Statuses, Enqueue(s, from, status)
      PROVE  outbox' \in [Services -> Seq(Entries)]
  BY <1>1, <1>t, EnqueueIn
<1>2. ASSUME NEW s \in Services, outbox[s] # <<>>, outbox' = [outbox EXCEPT ![s] = Tail(@)]
      PROVE  outbox' \in [Services -> Seq(Entries)]
  BY <1>2, <1>t, DequeueIn
<1>3. ASSUME UNCHANGED outbox PROVE outbox' \in [Services -> Seq(Entries)]
  BY <1>3, <1>t
<1>4. CASE Tick \/ UNCHANGED vars
  BY <1>3, <1>4 DEF Tick, vars
<1>5. ASSUME NEW s \in Services, Start(s) PROVE outbox' \in [Services -> Seq(Entries)]
  BY <1>3, <1>5 DEF Start, Inspect, Claim, ClaimRefused, StartUnchanged
<1>6. ASSUME NEW s \in Services, Loop(s) PROVE outbox' \in [Services -> Seq(Entries)]
  BY <1>1, <1>3, <1>6, <1>s DEF Loop, Announce, BeginTick, EndTick, Settle, Report, Failed, Sleep, EndLoop
<1>7. ASSUME NEW s \in Services, Ending(s) PROVE outbox' \in [Services -> Seq(Entries)]
  BY <1>1, <1>3, <1>7, <1>s DEF Ending, Maintain, MaintainRefused, Uninstall, Release, Finish, Cleanup
<1>8. ASSUME NEW s \in Services, Besides(s) PROVE outbox' \in [Services -> Seq(Entries)]
  BY <1>1, <1>2, <1>3, <1>8, <1>s DEF Besides, Submit, Skip, RepairFails, ExecutionEnds, Signal, SignalSnapshot, WriteHealth
<1>9. ASSUME NEW s \in Services, Faults(s) PROVE outbox' \in [Services -> Seq(Entries)]
  <2>1. CASE Crash(s)
    BY <2>1, <1>t DEF Crash
  <2> QED
    BY <1>2, <1>3, <1>9, <2>1 DEF Faults, TickFails, ExecutionFails, DeferHealth, HealthFails
<1> QED
  BY <1>4, <1>5, <1>6, <1>7, <1>8, <1>9 DEF Next

LEMMA FilesType ==
    ASSUME TypeOK, [Next]_vars
    PROVE  lock' \in Claims \union {NoLock} /\ beat' \in Claims \union {NoLock} /\ state' \in States \union {NoState}
<1>t. /\ lock \in Claims \union {NoLock} /\ beat \in Claims \union {NoLock} /\ state \in States \union {NoState}
      /\ outbox \in [Services -> Seq(Entries)]
  BY DEF TypeOK
<1>1. lock' \in {lock, NoLock, Older(lock)} \union {New(s) : s \in Services}
  <2>1. ASSUME NEW s \in Services, Start(s) \/ Loop(s) \/ Ending(s) PROVE lock' \in {lock, NoLock, New(s)}
    BY <2>1 DEF Start, Inspect, Claim, ClaimRefused, Loop, Announce, BeginTick, EndTick, Settle, Report,
                Failed, Sleep, EndLoop, Ending, Maintain, MaintainRefused, Uninstall, Release, Finish, Cleanup, files
  <2>2. ASSUME NEW s \in Services, Besides(s) \/ Faults(s) PROVE lock' = lock
    BY <2>2 DEF Besides, Submit, Skip, RepairFails, ExecutionEnds, Signal, SignalSnapshot, WriteHealth,
                Faults, Crash, TickFails, ExecutionFails, DeferHealth, HealthFails, files
  <2>3. CASE Tick \/ UNCHANGED vars
    BY <2>3 DEF Tick, vars, files
  <2> QED
    BY <2>1, <2>2, <2>3 DEF Next
<1>2. /\ beat' \in {beat, Older(beat)} \union {New(s) : s \in Services}
      /\ \/ state' = state
         \/ \E s \in Services : outbox[s] # <<>> /\ state' = [by |-> s, status |-> Head(outbox[s]).status]
  <2>1. ASSUME NEW s \in Services, Start(s) \/ Loop(s) \/ Ending(s) PROVE beat' = beat /\ state' = state
    BY <2>1 DEF Start, Inspect, Claim, ClaimRefused, StartUnchanged, LoopUnchanged, EndUnchanged, Loop, Announce,
                BeginTick, EndTick, Settle, Report, Failed, Sleep, EndLoop, Ending, Maintain, MaintainRefused,
                Uninstall, Release, Finish, Cleanup, files
  <2>2. ASSUME NEW s \in Services, Besides(s) \/ Faults(s)
        PROVE  \/ beat' = beat /\ state' = state
               \/ /\ outbox[s] # <<>> /\ beat' = New(s)
                  /\ state' = [by |-> s, status |-> Head(outbox[s]).status]
    BY <2>2 DEF Besides, Submit, Skip, RepairFails, ExecutionEnds, Signal, SignalSnapshot, WriteHealth,
                Faults, Crash, TickFails, ExecutionFails, DeferHealth, HealthFails, files, LoopUnchanged
  <2>3. CASE Tick \/ UNCHANGED vars
    BY <2>3 DEF Tick, vars, files
  <2> QED
    BY <2>1, <2>2, <2>3 DEF Next
<1>3. \A s \in Services : outbox[s] # <<>> => Head(outbox[s]) \in Entries
  <2> SUFFICES ASSUME NEW s \in Services, outbox[s] # <<>> PROVE Head(outbox[s]) \in Entries
    OBVIOUS
  <2>1. outbox[s] \in Seq(Entries)
    BY <1>t
  <2> QED
    BY <2>1, TailIn, InEntries
<1> QED
  BY <1>t, <1>1, <1>2, <1>3, NewTypes DEF States, Entries

LEMMA PlaceType ==
    ASSUME TypeOK, [Next]_vars
    PROVE  main' \in [Services -> Mains]
<1>t. main \in [Services -> Mains]
  BY DEF TypeOK
<1>m. Mains = {"new", "claim", "over", "finished", "dead", "start", "loop", "tick", "settle", "report", "failed",
               "rest", "retry", "drain", "maintain", "signals", "publish", "cleanup"}
  BY DEF Mains, Before, Ended
<1>1. ASSUME NEW s \in Services, NEW to \in Mains, main' = [main EXCEPT ![s] = to] PROVE main' \in [Services -> Mains]
  BY <1>1, <1>t
<1>g. ASSUME NEW s \in Services, NEW from, NEW to \in Mains, Goto(s, from, to) PROVE main' \in [Services -> Mains]
  BY <1>1, <1>g DEF Goto
<1>2. CASE Tick \/ UNCHANGED vars
  BY <1>2, <1>t DEF Tick, vars
<1>3. ASSUME NEW s \in Services, Start(s) PROVE main' \in [Services -> Mains]
  BY <1>3, <1>g, <1>m DEF Start, Inspect, Claim, ClaimRefused
<1>4. ASSUME NEW s \in Services, Loop(s) PROVE main' \in [Services -> Mains]
  BY <1>4, <1>g, <1>m DEF Loop, Announce, BeginTick, EndTick, Settle, Report, Failed, Sleep, EndLoop
<1>5. ASSUME NEW s \in Services, Ending(s) PROVE main' \in [Services -> Mains]
  BY <1>5, <1>g, <1>m DEF Ending, Maintain, MaintainRefused, Uninstall, Drained, Release, Finish, Cleanup
<1>6. ASSUME NEW s \in Services, Besides(s) PROVE main' \in [Services -> Mains]
  BY <1>6, <1>g, <1>m, <1>t DEF Besides, Submit, Skip, RepairFails, ExecutionEnds, Signal, SignalSnapshot, WriteHealth
<1>7. ASSUME NEW s \in Services, Faults(s) PROVE main' \in [Services -> Mains]
  <2>1. CASE HealthFails(s)
    <3>1. \A from : ThrownTo(s, from) \subseteq Mains
      BY <1>t, <1>m DEF ThrownTo
    <3> QED
      BY <2>1, <3>1, <1>1 DEF HealthFails
  <2> QED
    BY <1>7, <2>1, <1>1, <1>g, <1>m, <1>t DEF Faults, Crash, TickFails, ExecutionFails, DeferHealth
<1> QED
  BY <1>2, <1>3, <1>4, <1>5, <1>6, <1>7 DEF Next

\* The flags of the commands
FlagsOK ==
    /\ seen \in [Services -> BOOLEAN] /\ unclean \in [Services -> BOOLEAN]
    /\ repairs \in [Services -> BOOLEAN] /\ failed \in [Services -> BOOLEAN]
    /\ failures \in [Services -> BOOLEAN] /\ outcome \in [Services -> Outcomes]
    /\ stop \in [Services -> BOOLEAN] /\ signal \in [Services -> {"none", "event", "done"}]

LEMMA FlagsType ==
    ASSUME FlagsOK, [Next]_vars PROVE FlagsOK'
<1> USE DEF FlagsOK
<1>1. CASE Tick \/ UNCHANGED vars
  BY <1>1 DEF Tick, vars, startup, loop, stopping
<1>2. ASSUME NEW s \in Services, Inspect(s) \/ Claim(s) \/ ClaimRefused(s) PROVE FlagsOK'
  <2>1. CASE Inspect(s)
    BY <2>1 DEF Inspect, StartUnchanged, Unclean, stopping
  <2>2. CASE Claim(s)
    BY <2>2 DEF Claim, StartUnchanged, stopping
  <2>3. CASE ClaimRefused(s)
    BY <2>3 DEF ClaimRefused, StartUnchanged, startup, stopping
  <2> QED
    BY <1>2, <2>1, <2>2, <2>3
<1>3. ASSUME NEW s \in Services, Loop(s) PROVE FlagsOK'
  <2>1. CASE Announce(s) \/ BeginTick(s) \/ Report(s) \/ Sleep(s)
    BY <2>1 DEF Announce, BeginTick, Report, Sleep, LoopUnchanged, startup, loop, stopping
  <2>2. CASE EndTick(s) \/ Settle(s) \/ Failed(s)
    BY <2>2 DEF EndTick, Settle, Failed, LoopUnchanged, startup, loop, stopping
  <2>3. CASE EndLoop(s)
    BY <2>3 DEF EndLoop, LoopUnchanged, startup, loop, stopping, Outcomes
  <2> QED
    BY <1>3, <2>1, <2>2, <2>3 DEF Loop
<1>4. ASSUME NEW s \in Services, Ending(s) PROVE FlagsOK'
  <2>1. CASE Maintain(s) \/ MaintainRefused(s) \/ Uninstall(s) \/ Release(s)
    BY <2>1 DEF Maintain, MaintainRefused, Uninstall, Release, EndUnchanged, startup, loop, stopping
  <2>2. CASE Finish(s) \/ Cleanup(s)
    BY <2>2 DEF Finish, Cleanup, Forget, startup
  <2> QED
    BY <1>4, <2>1, <2>2 DEF Ending
<1>5. ASSUME NEW s \in Services, Besides(s) PROVE FlagsOK'
  <2>1. CASE Signal(s) \/ SignalSnapshot(s)
    BY <2>1 DEF Signal, SignalSnapshot, startup, loop
  <2>2. CASE ~(Signal(s) \/ SignalSnapshot(s))
    BY <1>5, <2>2 DEF Besides, Submit, Skip, RepairFails, ExecutionEnds, WriteHealth, LoopUnchanged, startup, loop, stopping
  <2> QED
    BY <2>1, <2>2
<1>6. ASSUME NEW s \in Services, Faults(s) PROVE FlagsOK'
  <2>1. CASE Crash(s)
    BY <2>1 DEF Crash, Forget, startup
  <2>2. CASE TickFails(s)
    BY <2>2 DEF TickFails, FaultUnchanged, startup, stopping
  <2>3. CASE ExecutionFails(s)
    BY <2>3 DEF ExecutionFails, FaultUnchanged, startup, stopping
  <2>4. CASE DeferHealth(s)
    BY <2>4 DEF DeferHealth, FaultUnchanged, startup, loop, stopping
  <2>5. CASE HealthFails(s)
    BY <2>5 DEF HealthFails, FaultUnchanged, startup, loop, stopping, Outcomes
  <2> QED
    BY <1>6, <2>1, <2>2, <2>3, <2>4, <2>5 DEF Faults
<1> QED
  BY <1>1, <1>2, <1>3, <1>4, <1>5, <1>6 DEF Next, Start

\* Executions, results and the histories
CountsOK ==
    /\ active \in [Services -> 0..Capacity]
    /\ lost \in BOOLEAN /\ faults \in 0..MaxFaults /\ slips \subseteq Slips

LEMMA CountsType ==
    ASSUME CountsOK, [Next]_vars PROVE CountsOK'
<1>t. /\ active \in [Services -> 0..Capacity] /\ lost \in BOOLEAN /\ faults \in 0..MaxFaults /\ slips \subseteq Slips
      /\ Capacity \in Nat /\ MaxFaults \in Nat
  BY BoundsAssumption DEF CountsOK
<1>f. Fault => faults' \in 0..MaxFaults
  BY <1>t DEF Fault
<1>1. faults' \in 0..MaxFaults
  <2>1. ASSUME NEW s \in Services, Start(s) \/ Loop(s) \/ Ending(s) PROVE faults' \in 0..MaxFaults
    BY <2>1, <1>f, <1>t DEF Start, Inspect, Claim, ClaimRefused, Slip, LoopUnchanged, EndUnchanged, Loop, Announce,
                BeginTick, EndTick, Settle, Report, Failed, Sleep, EndLoop, Ending, Maintain, MaintainRefused,
                Uninstall, Release, Finish, Cleanup
  <2>2. ASSUME NEW s \in Services, Besides(s) \/ Faults(s) PROVE faults' \in 0..MaxFaults
    BY <2>2, <1>f, <1>t DEF Besides, Submit, Skip, RepairFails, ExecutionEnds, Signal, SignalSnapshot, WriteHealth,
                LoopUnchanged, Faults, Crash, TickFails, ExecutionFails, DeferHealth, HealthFails
  <2>3. CASE Tick \/ UNCHANGED vars
    BY <2>3, <1>f, <1>t DEF Tick, Slip, vars
  <2> QED
    BY <2>1, <2>2, <2>3 DEF Next
<1>2. slips' \subseteq Slips
  <2>1. ASSUME NEW s \in Services, Start(s) \/ Loop(s) \/ Ending(s) PROVE slips' \subseteq Slips
    BY <2>1, <1>t DEF Start, Inspect, Claim, ClaimRefused, Slip, Slips, Loop, Announce,
                BeginTick, EndTick, Settle, Report, Failed, Sleep, EndLoop, Ending, Maintain, MaintainRefused,
                Uninstall, Release, Finish, Cleanup
  <2>2. ASSUME NEW s \in Services, Besides(s) \/ Faults(s) PROVE slips' \subseteq Slips
    BY <2>2, <1>t DEF Besides, Submit, Skip, RepairFails, ExecutionEnds, Signal, SignalSnapshot, WriteHealth, Slips,
                FaultUnchanged, Faults, Crash, TickFails, ExecutionFails, DeferHealth, HealthFails
  <2>3. CASE Tick \/ UNCHANGED vars
    BY <2>3, <1>t DEF Tick, Slip, Slips, vars
  <2> QED
    BY <2>1, <2>2, <2>3 DEF Next
<1>3. lost' \in BOOLEAN
  <2>1. ASSUME NEW s \in Services, Start(s) \/ Loop(s) \/ Ending(s) PROVE lost' \in BOOLEAN
    BY <2>1, <1>t DEF Start, Inspect, Claim, ClaimRefused, StartUnchanged, EndUnchanged, Loop, Announce,
                BeginTick, EndTick, Settle, Report, Failed, Sleep, EndLoop, Ending, Maintain, MaintainRefused,
                Uninstall, Release, Finish, Cleanup
  <2>2. ASSUME NEW s \in Services, Besides(s) \/ Faults(s) PROVE lost' \in BOOLEAN
    BY <2>2, <1>t DEF Besides, Submit, Skip, RepairFails, ExecutionEnds, Signal, SignalSnapshot, WriteHealth,
                Faults, Crash, TickFails, ExecutionFails, DeferHealth, HealthFails
  <2>3. CASE Tick \/ UNCHANGED vars
    BY <2>3, <1>t DEF Tick, vars
  <2> QED
    BY <2>1, <2>2, <2>3 DEF Next
<1>4. active' \in [Services -> 0..Capacity]
  <2>1. ASSUME NEW s \in Services, Start(s) \/ Loop(s) \/ Ending(s) PROVE active' = active
    BY <2>1 DEF Start, Inspect, Claim, ClaimRefused, StartUnchanged, EndUnchanged, Loop, Announce,
                BeginTick, EndTick, Settle, Report, Failed, Sleep, EndLoop, Ending, Maintain, MaintainRefused,
                Uninstall, Release, Finish, Cleanup
  <2>2. ASSUME NEW s \in Services, Besides(s) \/ Faults(s)
        PROVE  \/ active' = active
               \/ active' = [active EXCEPT ![s] = active[s] + 1] /\ active[s] < Capacity
               \/ active' = [active EXCEPT ![s] = active[s] - 1] /\ active[s] > 0
               \/ active' = [active EXCEPT ![s] = 0]
    BY <2>2 DEF Besides, Submit, HasRoom, Skip, RepairFails, ExecutionEnds, Signal, SignalSnapshot, WriteHealth,
                Faults, Crash, TickFails, ExecutionFails, DeferHealth, HealthFails
  <2>3. ASSUME NEW s \in Services, Besides(s) \/ Faults(s) PROVE active' \in [Services -> 0..Capacity]
    BY <2>2, <2>3, <1>t
  <2>4. CASE Tick \/ UNCHANGED vars
    BY <2>4, <1>t DEF Tick, vars
  <2> QED
    BY <2>1, <2>3, <2>4, <1>t DEF Next
<1> QED
  BY <1>1, <1>2, <1>3, <1>4 DEF CountsOK

LEMMA TypeStep == TypeOK /\ [Next]_vars => TypeOK'
<1> SUFFICES ASSUME TypeOK, [Next]_vars PROVE TypeOK'
  OBVIOUS
<1>1. FlagsOK /\ CountsOK
  BY DEF TypeOK, FlagsOK, CountsOK
<1>2. FlagsOK' /\ CountsOK'
  BY <1>1, FlagsType, CountsType
<1> QED
  BY <1>2, FilesType, PlaceType, OutboxType DEF TypeOK, FlagsOK, CountsOK

\* Every variable keeps its type: the executor stays within its capacity, and
\* queues hold snapshots of known statuses.
THEOREM TypeCorrect == Spec => []TypeOK
BY TypeInit, TypeStep, PTL DEF Spec

-------------------------------------------------------------------------------
(* The last state.                                                         *)

\* Snapshots of skipped ticks wait during a tick only, and those of a signal
\* once its handler has run; so nothing but the last snapshot of a command is
\* queued when it publishes it.
FinalAt(s) ==
    /\ Queued(s, "skip") => (main[s] \in {"tick", "settle", "failed"} /\ ~Queued(s, "main"))
    /\ Queued(s, "signal") => signal[s] = "done"
    /\ main[s] \in {"publish", "finished"} =>
           /\ signal[s] # "event"
           /\ \A e \in In(outbox[s]) : e.from = "main" /\ e.status = outcome[s]
           /\ (outbox[s] = <<>> /\ state # NoState /\ state.by = s) => state.status = outcome[s]
    /\ main[s] = "finished" => outbox[s] = <<>>

FinalInv == \A s \in Services : FinalAt(s)

\* What FinalAt(s) reads is written by steps of s, but for the state.
LEMMA OthersKeep ==
    ASSUME TypeOK, NEW s \in Services, NEW t \in Services \ {s},
           Start(s) \/ Loop(s) \/ Ending(s) \/ Besides(s) \/ Faults(s)
    PROVE  /\ main'[t] = main[t] /\ signal'[t] = signal[t] /\ outcome'[t] = outcome[t] /\ outbox'[t] = outbox[t]
           /\ state' = state \/ state'.by = s
<1>t. /\ main \in [Services -> Mains] /\ signal \in [Services -> {"none", "event", "done"}]
      /\ outcome \in [Services -> Outcomes] /\ outbox \in [Services -> Seq(Entries)]
  BY DEF TypeOK
<1>1. main'[t] = main[t] /\ outbox'[t] = outbox[t]
  <2>1. CASE Start(s) \/ Loop(s) \/ Ending(s)
    BY <2>1, <1>t DEF Start, Inspect, Claim, ClaimRefused, StartUnchanged, LoopUnchanged, EndUnchanged, Loop, Announce,
                BeginTick, EndTick, Settle, Report, Failed, Sleep, EndLoop, Ending, Maintain, MaintainRefused,
                Uninstall, Drained, Release, Finish, Cleanup, Goto, Enqueue
  <2>2. CASE Besides(s) \/ Faults(s)
    BY <2>2, <1>t DEF Besides, Submit, Skip, RepairFails, ExecutionEnds, Signal, SignalSnapshot, WriteHealth,
                Faults, Crash, TickFails, ExecutionFails, DeferHealth, HealthFails, Goto, Enqueue
  <2> QED
    BY <2>1, <2>2
<1>2. signal'[t] = signal[t] /\ outcome'[t] = outcome[t]
  <2>1. CASE Start(s) \/ Loop(s) \/ Ending(s)
    BY <2>1, <1>t DEF Start, Inspect, Claim, ClaimRefused, StartUnchanged, LoopUnchanged, EndUnchanged, Loop, Announce,
                BeginTick, EndTick, Settle, Report, Failed, Sleep, EndLoop, Ending, Maintain, MaintainRefused,
                Uninstall, Release, Finish, Cleanup, Forget, stopping
  <2>2. CASE Besides(s) \/ Faults(s)
    BY <2>2, <1>t DEF Besides, Submit, Skip, RepairFails, ExecutionEnds, Signal, SignalSnapshot, WriteHealth, LoopUnchanged,
                FaultUnchanged, Faults, Crash, TickFails, ExecutionFails, DeferHealth, HealthFails, stopping
  <2> QED
    BY <2>1, <2>2
<1>3. state' = state \/ state'.by = s
  <2>1. CASE Start(s) \/ Loop(s) \/ Ending(s)
    BY <2>1 DEF Start, Inspect, Claim, ClaimRefused, StartUnchanged, LoopUnchanged, EndUnchanged, Loop, Announce,
                BeginTick, EndTick, Settle, Report, Failed, Sleep, EndLoop, Ending, Maintain, MaintainRefused,
                Uninstall, Release, Finish, Cleanup, files
  <2>2. CASE Besides(s) \/ Faults(s)
    BY <2>2 DEF Besides, Submit, Skip, RepairFails, ExecutionEnds, Signal, SignalSnapshot, WriteHealth, LoopUnchanged,
                Faults, Crash, TickFails, ExecutionFails, DeferHealth, HealthFails, files
  <2> QED
    BY <2>1, <2>2
<1> QED
  BY <1>1, <1>2, <1>3

LEMMA FinalOwn ==
    ASSUME TypeOK, NEW s \in Services, FinalAt(s),
           Start(s) \/ Loop(s) \/ Ending(s) \/ Besides(s) \/ Faults(s)
    PROVE  FinalAt(s)'
<1>t. /\ main \in [Services -> Mains] /\ signal \in [Services -> {"none", "event", "done"}]
      /\ outcome \in [Services -> Outcomes] /\ outbox \in [Services -> Seq(Entries)]
      /\ outcome[s] \in Statuses /\ "active" \in Statuses /\ "stopping" \in Statuses
  BY DEF TypeOK, Statuses
<1> DEFINE Has(from) == \E e \in In(outbox[s]) : e.from = from
           Has1(from) == \E e \in In(outbox'[s]) : e.from = from
<1>q. \A from : Queued(s, from) <=> Has(from)
  BY QueuedIn
<1>r. \A from : Queued(s, from)' <=> Has1(from)
  BY DEF Queued, In
<1>f. /\ Has("skip") => (main[s] \in {"tick", "settle", "failed"} /\ ~Has("main"))
      /\ Has("signal") => signal[s] = "done"
      /\ main[s] \in {"publish", "finished"} =>
           /\ signal[s] # "event"
           /\ \A e \in In(outbox[s]) : e.from = "main" /\ e.status = outcome[s]
           /\ (outbox[s] = <<>> /\ state # NoState /\ state.by = s) => state.status = outcome[s]
      /\ main[s] = "finished" => outbox[s] = <<>>
  BY <1>q DEF FinalAt
<1> DEFINE Goal ==
      /\ Has1("skip") => (main'[s] \in {"tick", "settle", "failed"} /\ ~Has1("main"))
      /\ Has1("signal") => signal'[s] = "done"
      /\ main'[s] \in {"publish", "finished"} =>
           /\ signal'[s] # "event"
           /\ \A e \in In(outbox'[s]) : e.from = "main" /\ e.status = outcome'[s]
           /\ (outbox'[s] = <<>> /\ state' # NoState /\ state'.by = s) => state'.status = outcome'[s]
      /\ main'[s] = "finished" => outbox'[s] = <<>>
<1>g. SUFFICES Goal
  BY <1>r DEF FinalAt
<1>e. In(outbox[s]) = {} <=> outbox[s] = <<>>
  BY <1>t, EmptyIn
<1>h. \A e \in In(outbox[s]) : e.from \in {"main", "skip", "signal"}
  <2>1. outbox[s] \in Seq(Entries)
    BY <1>t
  <2>2. In(outbox[s]) \subseteq Entries
    BY <2>1, InEntries
  <2> QED
    BY <2>2 DEF Entries
<1>1. CASE Start(s)
  BY <1>1, <1>t, <1>f DEF Start, Inspect, Claim, ClaimRefused, StartUnchanged, Goto, stopping
<1>2. CASE Loop(s)
  <2>1. CASE EndTick(s) \/ Settle(s) \/ Sleep(s)
    BY <2>1, <1>t, <1>f, <1>q DEF EndTick, Settle, Sleep, LoopUnchanged, Goto, stopping
  <2>2. CASE Announce(s) \/ BeginTick(s) \/ Report(s) \/ Failed(s)
    <3>1. /\ Enqueue(s, "main", "active") /\ signal' = signal /\ ~Has("skip")
          /\ main'[s] \in {"loop", "tick", "rest", "retry"}
      BY <2>2, <1>t, <1>f, <1>q DEF Announce, BeginTick, Report, Failed, LoopUnchanged, Goto, stopping
    <3>2. In(outbox'[s]) = In(outbox[s]) \union {[from |-> "main", status |-> "active"]}
      BY <3>1, <1>t, EnqueueIn
    <3> QED
      BY <3>1, <3>2, <1>f
  <2>3. CASE EndLoop(s)
    <3>1. /\ Enqueue(s, "main", "stopping") /\ signal' = signal /\ ~Has("skip") /\ main'[s] = "drain"
      BY <2>3, <1>t, <1>f, <1>q DEF EndLoop, LoopUnchanged, Goto, stopping
    <3>2. In(outbox'[s]) = In(outbox[s]) \union {[from |-> "main", status |-> "stopping"]}
      BY <3>1, <1>t, EnqueueIn
    <3> QED
      BY <3>1, <3>2, <1>f
  <2> QED
    BY <1>2, <2>1, <2>2, <2>3 DEF Loop
<1>3. CASE Ending(s)
  <2>1. CASE MaintainRefused(s) \/ Uninstall(s)
    BY <2>1, <1>t, <1>f, <1>q DEF MaintainRefused, Due, Uninstall, Drained, EndUnchanged, Goto, stopping
  <2>2. CASE Finish(s) \/ Cleanup(s)
    BY <2>2, <1>t, <1>f, <1>q, <1>e DEF Finish, Cleanup, Goto, files
  <2>3. CASE Maintain(s)
    <3>1. signal' = signal /\ ~Has("skip") /\ main'[s] = "maintain" /\ (outbox' = outbox \/ Enqueue(s, "main", "stopping"))
      BY <2>3, <1>t, <1>f, <1>q DEF Maintain, Due, EndUnchanged, Goto, stopping
    <3>2. CASE Enqueue(s, "main", "stopping")
      <4>1. In(outbox'[s]) = In(outbox[s]) \union {[from |-> "main", status |-> "stopping"]}
        BY <3>2, <1>t, EnqueueIn
      <4> QED
        BY <3>1, <4>1, <1>f
    <3> QED
      BY <3>1, <3>2, <1>f
  <2>4. CASE Release(s)
    <3>1. /\ Enqueue(s, "main", outcome[s]) /\ signal' = signal /\ outcome' = outcome /\ main'[s] = "publish"
          /\ ~Has("skip") /\ ~Has("main") /\ ~Has("signal") /\ signal[s] # "event"
      BY <2>4, <1>t, <1>f, <1>q DEF Release, WaitForSignals, Unsignalled, SignalsOver, EndUnchanged, Goto, stopping
    <3>2. In(outbox[s]) = {}
      BY <3>1, <1>h
    <3>3. outbox'[s] # <<>> /\ In(outbox'[s]) = {[from |-> "main", status |-> outcome[s]]}
      BY <3>1, <3>2, <1>t, EnqueueIn
    <3> QED
      BY <3>1, <3>3
  <2> QED
    BY <1>3, <2>1, <2>2, <2>3, <2>4 DEF Ending
<1>4. CASE Besides(s)
  <2>1. CASE Submit(s) \/ RepairFails(s) \/ ExecutionEnds(s)
    BY <2>1, <1>t, <1>f, <1>q DEF Submit, RepairFails, ExecutionEnds, LoopUnchanged, Goto, files, stopping
  <2>2. CASE Signal(s)
    BY <2>2, <1>t, <1>f DEF Signal, Ended, files
  <2>3. CASE Skip(s)
    <3>1. Enqueue(s, "skip", "active") /\ signal' = signal /\ ~Has("main") /\ main'[s] = "tick"
      BY <2>3, <1>t, <1>q DEF Skip, LoopUnchanged, stopping
    <3>2. In(outbox'[s]) = In(outbox[s]) \union {[from |-> "skip", status |-> "active"]}
      BY <3>1, <1>t, EnqueueIn
    <3> QED
      BY <3>1, <3>2, <1>f
  <2>4. CASE SignalSnapshot(s)
    <3>1. Enqueue(s, "signal", "stopping") /\ signal'[s] = "done" /\ main' = main /\ signal[s] = "event"
      BY <2>4, <1>t DEF SignalSnapshot
    <3>2. In(outbox'[s]) = In(outbox[s]) \union {[from |-> "signal", status |-> "stopping"]}
      BY <3>1, <1>t, EnqueueIn
    <3> QED
      BY <3>1, <3>2, <1>f
  <2>5. CASE WriteHealth(s)
    <3>1. /\ outbox[s] # <<>> /\ outbox' = [outbox EXCEPT ![s] = Tail(@)] /\ state'.status = Head(outbox[s]).status
          /\ main' = main /\ signal' = signal /\ outcome' = outcome
      BY <2>5 DEF WriteHealth, stopping
    <3>2. Head(outbox[s]) \in In(outbox[s]) /\ In(outbox'[s]) \subseteq In(outbox[s])
      BY <3>1, <1>t, DequeueIn
    <3> QED
      BY <3>1, <3>2, <1>f
  <2> QED
    BY <1>4, <2>1, <2>2, <2>3, <2>4, <2>5 DEF Besides
<1>5. CASE Faults(s)
  <2>1. CASE Crash(s)
    <3>1. outbox'[s] = <<>> /\ main'[s] = "dead"
      BY <2>1, <1>t DEF Crash
    <3> QED
      BY <3>1, EmptyIn
  <2>2. CASE TickFails(s) \/ ExecutionFails(s)
    BY <2>2, <1>t, <1>f, <1>q DEF TickFails, ExecutionFails, FaultUnchanged, Goto, files, stopping
  <2>3. CASE DeferHealth(s)
    <3>1. /\ outbox[s] # <<>> /\ outbox' = [outbox EXCEPT ![s] = Tail(@)] /\ main' = main /\ signal' = signal
          /\ ~(main[s] = "publish" /\ Head(outbox[s]).from = "main")
      BY <2>3 DEF DeferHealth, FaultUnchanged, stopping
    <3>2. Head(outbox[s]) \in In(outbox[s]) /\ In(outbox'[s]) \subseteq In(outbox[s])
      BY <3>1, <1>t, DequeueIn
    <3> QED
      BY <3>1, <3>2, <1>f
  <2>4. CASE HealthFails(s)
    <3>1. /\ outbox[s] # <<>> /\ outbox' = [outbox EXCEPT ![s] = Tail(@)] /\ signal' = signal
          /\ main'[s] \in ThrownTo(s, Head(outbox[s]).from)
          /\ Head(outbox[s]).from \in {"main", "skip"}
      BY <2>4, <1>t, DequeueIn DEF HealthFails, FaultUnchanged, stopping, Entries
    <3>2. Head(outbox[s]) \in In(outbox[s]) /\ In(outbox'[s]) \subseteq In(outbox[s])
      BY <3>1, <1>t, DequeueIn
    <3>3. Head(outbox[s]).from = "main" => ~Has("skip")
      BY <3>2, <1>f
    <3>4. main[s] # "finished"
      BY <3>1, <1>f
    <3>5. main'[s] \notin {"publish", "finished"}
      BY <3>1, <3>4 DEF ThrownTo
    <3>6. Head(outbox[s]).from = "skip" => main'[s] = "failed"
      BY <3>1 DEF ThrownTo
    <3> QED
      BY <3>1, <3>2, <3>3, <3>5, <3>6, <1>f
  <2> QED
    BY <1>5, <2>1, <2>2, <2>3, <2>4 DEF Faults
<1> QED
  BY <1>1, <1>2, <1>3, <1>4, <1>5

LEMMA FinalInit == Init => FinalInv
<1> SUFFICES ASSUME Init, NEW s \in Services PROVE FinalAt(s)
  BY DEF FinalInv
<1>1. outbox[s] = <<>> /\ main[s] = "new"
  BY DEF Init
<1> QED
  BY <1>1 DEF FinalAt, Queued

LEMMA FinalStep == TypeOK /\ FinalInv /\ [Next]_vars => FinalInv'
<1> SUFFICES ASSUME TypeOK, FinalInv, [Next]_vars, NEW t \in Services PROVE FinalAt(t)'
  BY DEF FinalInv
<1>f. FinalAt(t)
  BY DEF FinalInv
<1>1. CASE Tick \/ UNCHANGED vars
  BY <1>1, <1>f DEF Tick, vars, files, stopping, FinalAt, Queued, In
<1>2. ASSUME NEW s \in Services, Start(s) \/ Loop(s) \/ Ending(s) \/ Besides(s) \/ Faults(s) PROVE FinalAt(t)'
  <2>1. CASE s = t
    BY <2>1, <1>2, <1>f, FinalOwn
  <2>2. CASE s # t
    <3>1. /\ main'[t] = main[t] /\ signal'[t] = signal[t] /\ outcome'[t] = outcome[t] /\ outbox'[t] = outbox[t]
          /\ state' = state \/ state'.by = s
      BY <2>2, <1>2, OthersKeep
    <3> QED
      BY <3>1, <2>2, <1>f DEF FinalAt, Queued, In
  <2> QED
    BY <2>1, <2>2
<1> QED
  BY <1>1, <1>2 DEF Next

\* The last state a command leaves is the one it ended with: a snapshot of a
\* signal or of a tick is never written after it.
THEOREM FinalStateKept == Spec => []FinalStateStays
<1>1. FinalInv => FinalStateStays
  BY DEF FinalInv, FinalAt, FinalStateStays
<1> QED
  BY <1>1, TypeInit, TypeStep, FinalInit, FinalStep, PTL DEF Spec

-------------------------------------------------------------------------------
(* Work under the kernel lock.                                             *)

\* Runs without the faults that cost a service its lock
Sound == slips \subseteq {"dismissed", "overwritten", "unrepaired"}

\* From the claim of the lock to its release
Holding == {"start", "loop", "tick", "settle", "report", "failed", "rest", "retry",
            "drain", "maintain", "signals", "cleanup"}

\* The lock is fresh, or the heartbeat keeps it from being claimed.
Guarded(s) == Holds(s) /\ (lock.age \in {0, 1} \/ (beat # NoLock /\ beat.by = s /\ beat.age \in {0, 1}))

Late(s) == outbox[s] # <<>> \/ signal[s] = "event"

\* Whoever holds the lock is guarded; only a holder executes; a claim that
\* rests on an inspection of this unit of time finds the lock of the holder
\* as it was inspected; the snapshot of another can hide the heartbeat of the
\* holder only as long as the lock is new; nothing is left of the dead.
LockParts ==
    /\ \A s \in Services : main[s] \in Holding => Guarded(s)
    /\ \A s \in Services : active[s] > 0 => main[s] \in Holding \ {"signals"}
    /\ \A s, t \in Services : (main[s] \in Holding /\ seen[t] /\ main[t] = "claim") => ~Stale(lock)
    /\ \A s, t \in Services : (s # t /\ main[s] \in Holding /\ Late(t)) => lock.age = 0
    /\ \A t \in Services : main[t] \in {"new", "claim", "dead"} => ~Late(t)

LockInv == Sound => LockParts

\* What has slipped stays on record.
LEMMA SlipsStay == [Next]_vars => slips \subseteq slips'
<1> SUFFICES ASSUME [Next]_vars PROVE slips \subseteq slips'
  OBVIOUS
<1>1. ASSUME NEW s \in Services, Start(s) \/ Loop(s) \/ Ending(s) PROVE slips \subseteq slips'
  BY <1>1 DEF Start, Inspect, Claim, ClaimRefused, Slip, Loop, Announce,
              BeginTick, EndTick, Settle, Report, Failed, Sleep, EndLoop, Ending, Maintain, MaintainRefused,
              Uninstall, Release, Finish, Cleanup
<1>2. ASSUME NEW s \in Services, Besides(s) \/ Faults(s) PROVE slips \subseteq slips'
  BY <1>2 DEF Besides, Submit, Skip, RepairFails, ExecutionEnds, Signal, SignalSnapshot, WriteHealth,
              FaultUnchanged, Faults, Crash, TickFails, ExecutionFails, DeferHealth, HealthFails
<1>3. CASE Tick \/ UNCHANGED vars
  BY <1>3 DEF Tick, Slip, vars
<1> QED
  BY <1>1, <1>2, <1>3 DEF Next

LEMMA SoundStep == [Next]_vars /\ Sound' => Sound
BY SlipsStay DEF Sound

Step(s) == Start(s) \/ Loop(s) \/ Ending(s) \/ Besides(s) \/ Faults(s)

\* What a step of s leaves alone of the other services
LEMMA OthersStill ==
    ASSUME TypeOK, NEW s \in Services, NEW t \in Services \ {s}, Step(s)
    PROVE  main'[t] = main[t] /\ (Late(t)' <=> Late(t)) /\ active'[t] = active[t] /\ seen'[t] = seen[t]
<1>t. active \in [Services -> 0..Capacity] /\ seen \in [Services -> BOOLEAN]
  BY DEF TypeOK
<1>1. main'[t] = main[t] /\ (Late(t)' <=> Late(t))
  BY OthersKeep DEF Step, Late
<1>2. active'[t] = active[t]
  <2>1. CASE Start(s) \/ Loop(s) \/ Ending(s)
    BY <2>1, <1>t DEF Start, Inspect, Claim, ClaimRefused, StartUnchanged, EndUnchanged, Loop, Announce,
                BeginTick, EndTick, Settle, Report, Failed, Sleep, EndLoop, Ending, Maintain, MaintainRefused,
                Uninstall, Release, Finish, Cleanup
  <2>2. CASE Besides(s) \/ Faults(s)
    BY <2>2, <1>t DEF Besides, Submit, Skip, RepairFails, ExecutionEnds, Signal, SignalSnapshot, WriteHealth,
                Faults, Crash, TickFails, ExecutionFails, DeferHealth, HealthFails
  <2> QED
    BY <2>1, <2>2 DEF Step
<1>3. seen'[t] = seen[t]
  <2>1. CASE Start(s) \/ Loop(s) \/ Ending(s)
    BY <2>1, <1>t DEF Start, Inspect, Claim, ClaimRefused, LoopUnchanged, EndUnchanged, Loop, Announce,
                BeginTick, EndTick, Settle, Report, Failed, Sleep, EndLoop, Ending, Maintain, MaintainRefused,
                Uninstall, Release, Finish, Cleanup, startup
  <2>2. CASE Besides(s) \/ Faults(s)
    BY <2>2, <1>t DEF Besides, Submit, Skip, RepairFails, ExecutionEnds, Signal, SignalSnapshot, WriteHealth, LoopUnchanged,
                FaultUnchanged, Faults, Crash, TickFails, ExecutionFails, DeferHealth, HealthFails, startup
  <2> QED
    BY <2>1, <2>2 DEF Step
<1> QED
  BY <1>1, <1>2, <1>3

\* A holder that goes on
LEMMA HolderGoesOn ==
    ASSUME TypeOK, NEW s \in Services, Step(s), main[s] \in Holding, main'[s] \in Holding,
           active[s] > 0 => main[s] # "signals"
    PROVE  /\ lock' \in {lock, New(s)} /\ beat' \in {beat, New(s)}
           /\ active'[s] > 0 => main'[s] # "signals"
<1>t. main \in [Services -> Mains] /\ active \in [Services -> 0..Capacity]
  BY DEF TypeOK
<1>1. lock' \in {lock, New(s)} /\ beat' \in {beat, New(s)}
  <2>1. CASE Start(s) \/ Loop(s) \/ Ending(s)
    BY <2>1, <1>t DEF Start, Inspect, Claim, ClaimRefused, StartUnchanged, LoopUnchanged, EndUnchanged, Loop, Announce,
                BeginTick, EndTick, Settle, Report, Failed, Sleep, EndLoop, Ending, Maintain, MaintainRefused,
                Uninstall, Release, Finish, Cleanup, Goto, files, Holding
  <2>2. CASE Besides(s) \/ Faults(s)
    BY <2>2 DEF Besides, Submit, Skip, RepairFails, ExecutionEnds, Signal, SignalSnapshot, WriteHealth, LoopUnchanged,
                Faults, Crash, TickFails, ExecutionFails, DeferHealth, HealthFails, files
  <2> QED
    BY <2>1, <2>2 DEF Step
<1>2. active'[s] > 0 => main'[s] # "signals"
  <2>1. CASE Start(s) \/ Loop(s)
    BY <2>1, <1>t DEF Start, Inspect, Claim, ClaimRefused, Loop, Announce, Holding,
                BeginTick, EndTick, Settle, Report, Failed, Sleep, EndLoop, Goto
  <2>2. CASE Ending(s)
    <3>1. CASE Uninstall(s)
      BY <3>1, <1>t DEF Uninstall, Drained, EndUnchanged
    <3> QED
      BY <2>2, <3>1, <1>t DEF Ending, Maintain, MaintainRefused, Release, Finish, Cleanup, Goto, Holding
  <2>3. CASE Besides(s)
    BY <2>3, <1>t DEF Besides, Submit, Skip, RepairFails, ExecutionEnds, Signal, SignalSnapshot, WriteHealth, LoopUnchanged, Goto
  <2>4. CASE Faults(s)
    <3>1. CASE HealthFails(s)
      BY <3>1, <1>t DEF HealthFails, ThrownTo
    <3> QED
      BY <2>4, <3>1, <1>t DEF Faults, Crash, TickFails, ExecutionFails, DeferHealth, Goto
  <2> QED
    BY <2>1, <2>2, <2>3, <2>4 DEF Step
<1> QED
  BY <1>1, <1>2

\* A holder that leaves
LEMMA HolderLeaves ==
    ASSUME TypeOK, NEW s \in Services, Step(s), main[s] \in Holding, main'[s] \notin Holding, Sound',
           active[s] > 0 => main[s] # "signals"
    PROVE  ~(active'[s] > 0) /\ main'[s] \notin {"new", "claim"} /\ (main'[s] = "dead" => ~Late(s)')
<1>t. /\ main \in [Services -> Mains] /\ active \in [Services -> 0..Capacity]
      /\ outbox \in [Services -> Seq(Entries)] /\ signal \in [Services -> {"none", "event", "done"}]
  BY DEF TypeOK
<1>1. CASE Start(s) \/ Loop(s) \/ Besides(s)
  BY <1>1, <1>t DEF Start, Inspect, Claim, ClaimRefused, Loop, Announce, Holding,
            BeginTick, EndTick, Settle, Report, Failed, Sleep, EndLoop, Goto,
            Besides, Submit, Skip, RepairFails, ExecutionEnds, Signal, SignalSnapshot, WriteHealth
<1>2. CASE Ending(s)
  <2>1. CASE Release(s)
    BY <2>1, <1>t DEF Release, Goto, EndUnchanged
  <2>2. CASE Cleanup(s)
    BY <2>2, <1>t DEF Cleanup, Goto, Sound
  <2> QED
    BY <1>2, <2>1, <2>2, <1>t DEF Ending, Maintain, MaintainRefused, Uninstall, Drained, Finish, Goto, Holding
<1>3. CASE Faults(s)
  <2>1. CASE Crash(s)
    BY <2>1, <1>t DEF Crash, Late, Forget
  <2>2. CASE HealthFails(s)
    BY <2>2, <1>t DEF HealthFails, ThrownTo, Holding
  <2> QED
    BY <1>3, <2>1, <2>2, <1>t DEF Faults, TickFails, ExecutionFails, DeferHealth, Goto, Holding
<1> QED
  BY <1>1, <1>2, <1>3 DEF Step

\* A service outside that stays outside
LEMMA OutsideStays ==
    ASSUME TypeOK, NEW s \in Services, Step(s), main[s] \notin Holding, main'[s] \notin Holding,
           ~(active[s] > 0), main[s] \in {"new", "claim", "dead"} => ~Late(s)
    PROVE  /\ lock' = lock /\ (beat' = beat \/ (beat' = New(s) /\ Late(s)))
           /\ ~(active'[s] > 0) /\ (Late(s)' => Late(s)) /\ (main'[s] \in {"new", "claim", "dead"} => ~Late(s)')
           /\ main'[s] = "claim" => (seen'[s] = seen[s] /\ main[s] = "claim") \/ MayClaim
<1>t. /\ main \in [Services -> Mains] /\ active \in [Services -> 0..Capacity] /\ seen \in [Services -> BOOLEAN]
      /\ outbox \in [Services -> Seq(Entries)] /\ signal \in [Services -> {"none", "event", "done"}]
  BY DEF TypeOK
<1>m. main[s] \in Before \union Ended \union {"publish"}
  BY <1>t DEF Mains, Holding, Before, Ended
<1>1. CASE Start(s)
  BY <1>1, <1>t DEF Start, Inspect, Claim, ClaimRefused, StartUnchanged, Goto, Holding, startup, stopping, Late
<1>2. CASE Loop(s)
  BY <1>2, <1>m DEF Loop, Announce, BeginTick, EndTick, Settle, Report, Failed, Sleep, EndLoop, Goto, Before, Ended
<1>3. CASE Ending(s)
  BY <1>3, <1>m, <1>t DEF Ending, Maintain, MaintainRefused, Due, Uninstall, Drained, Release, Finish, Cleanup, Goto,
            Before, Ended, Late, files
<1>4. CASE Besides(s)
  <2>1. CASE WriteHealth(s)
    BY <2>1, <1>t DEF WriteHealth, Late, stopping, startup
  <2>2. CASE SignalSnapshot(s)
    BY <2>2, <1>t DEF SignalSnapshot, Late, files, startup
  <2> QED
    BY <1>4, <1>m, <2>1, <2>2 DEF Besides, Submit, Skip, RepairFails, ExecutionEnds, Signal, Goto, Before, Ended
<1>5. CASE Faults(s)
  <2>1. CASE Crash(s)
    BY <2>1, <1>t DEF Crash, Late, Forget, files
  <2>2. CASE DeferHealth(s)
    BY <2>2, <1>t DEF DeferHealth, FaultUnchanged, Late, files, startup, stopping
  <2>3. CASE HealthFails(s)
    <3>1. main'[s] \in {main[s], "over", "failed"} /\ (main[s] \in {"new", "claim", "dead"} => outbox[s] = <<>>)
      BY <2>3, <1>t, <1>m DEF HealthFails, ThrownTo, Before, Ended, Late
    <3> QED
      BY <2>3, <3>1, <1>t DEF HealthFails, FaultUnchanged, Late, files, startup, stopping, Holding
  <2> QED
    BY <1>5, <1>m, <2>1, <2>2, <2>3 DEF Faults, TickFails, ExecutionFails, Goto, Before, Ended
<1> QED
  BY <1>1, <1>2, <1>3, <1>4, <1>5 DEF Step

LEMMA EntersByClaim ==
    ASSUME TypeOK, NEW s \in Services, Step(s), main[s] \notin Holding, main'[s] \in Holding,
           main[s] \in {"new", "claim", "dead"} => ~Late(s)
    PROVE  Claim(s)
<1>t. main \in [Services -> Mains]
  BY DEF TypeOK
<1>m. main[s] \in Before \union Ended \union {"publish"}
  BY <1>t DEF Mains, Holding, Before, Ended
<1>1. CASE Start(s)
  BY <1>1, <1>t DEF Start, Inspect, ClaimRefused, Goto, Holding
<1>2. CASE Loop(s) \/ Ending(s)
  BY <1>2, <1>m, <1>t DEF Loop, Announce, BeginTick, EndTick, Settle, Report, Failed, Sleep, EndLoop,
            Ending, Maintain, MaintainRefused, Due, Uninstall, Drained, Release, Finish, Cleanup, Goto,
            Before, Ended, Holding
<1>3. CASE Besides(s)
  BY <1>3, <1>m, <1>t DEF Besides, Submit, Skip, RepairFails, ExecutionEnds, Signal, SignalSnapshot, WriteHealth,
            Goto, Before, Ended
<1>4. CASE Faults(s)
  <2>1. CASE HealthFails(s)
    <3>1. Head(outbox[s]).from = "skip" => main[s] \in {"settle", "failed"}
      BY <2>1 DEF HealthFails
    <3>2. main'[s] \in {main[s], "over"}
      BY <2>1, <3>1, <1>t, <1>m DEF HealthFails, ThrownTo, Before, Ended
    <3> QED
      BY <3>2 DEF Holding
  <2> QED
    BY <1>4, <1>m, <1>t, <2>1 DEF Faults, Crash, TickFails, ExecutionFails, DeferHealth, Goto, Before, Ended, Holding
<1> QED
  BY <1>1, <1>2, <1>3, <1>4 DEF Step
LEMMA LockInit == Init => LockInv
<1> SUFFICES ASSUME Init PROVE LockParts
  BY DEF LockInv
<1>1. \A s \in Services : main[s] = "new" /\ active[s] = 0 /\ ~Late(s)
  BY DEF Init, Late
<1> QED
  BY <1>1 DEF LockParts, Holding

LEMMA LockTick ==
    ASSUME TypeOK, LockParts, Tick, Sound'
    PROVE  LockParts'
<1>t. /\ lock \in Claims \union {NoLock} /\ beat \in Claims \union {NoLock} /\ main \in [Services -> Mains]
      /\ StaleAfter \in Nat \ {0, 1}
  BY BoundsAssumption DEF TypeOK
<1>1. /\ lock' = Older(lock) /\ beat' = Older(beat) /\ main' = main /\ active' = active
      /\ \A t \in Services : ~seen'[t] /\ (Late(t)' <=> Late(t))
  BY DEF Tick, Late, stopping
<1>2. ~Stalls
  BY DEF Tick, Slip, Sound
<1>3. \A t \in Services : ~Late(t)
  BY <1>2 DEF Stalls, Unwritten, Late, LockParts
<1>4. ASSUME NEW s \in Services, main[s] \in Holding PROVE Guarded(s)'
  <2>1. Holds(s) /\ lock \in Claims
    BY <1>4, <1>t DEF LockParts, Guarded, Holds
  <2>2. Older(lock).by = s /\ Older(lock) # NoLock
    BY <2>1, NewTypes DEF Holds
  <2>3. Fresh(s)
    BY <1>4, <1>2, <1>t DEF Stalls, Running, Before, Ended, Holding
  <2>4. Older(New(s)) # NoLock /\ Older(New(s)).by = s /\ Older(New(s)).age \in {0, 1}
    <3>1. New(s) \in Claims /\ New(s).age = 0 /\ New(s).by = s
      BY NewTypes
    <3>2. Older(New(s)) \in Claims /\ Older(New(s)).by = s
      BY <3>1, NewTypes
    <3>3. Older(New(s)).age = 1
      BY <3>1, <1>t, NewTypes DEF Older, Stale, Claims
    <3> QED
      BY <3>2, <3>3, NewTypes
  <2> QED
    BY <2>2, <2>3, <2>4, <1>1 DEF Guarded, Holds, Fresh
<1> QED
  BY <1>1, <1>3, <1>4 DEF LockParts

\* Two services do not hold the lock at once.
LEMMA OneHolder ==
    ASSUME LockParts, NEW s \in Services, NEW t \in Services, main[s] \in Holding, main[t] \in Holding
    PROVE  s = t
BY DEF LockParts, Guarded, Holds

LEMMA LockStep ==
    ASSUME TypeOK, LockParts, NEW s \in Services, Step(s), Sound'
    PROVE  LockParts'
<1>t. /\ lock \in Claims \union {NoLock} /\ beat \in Claims \union {NoLock} /\ main \in [Services -> Mains]
      /\ StaleAfter \in Nat \ {0, 1} /\ active \in [Services -> 0..Capacity] /\ seen \in [Services -> BOOLEAN]
  BY BoundsAssumption DEF TypeOK
<1>n. New(s) # NoLock /\ New(s).by = s /\ New(s).age = 0 /\ ~Stale(New(s))
  BY <1>t, NewTypes DEF Stale
<1>o. \A t \in Services \ {s} :
          main'[t] = main[t] /\ (Late(t)' <=> Late(t)) /\ active'[t] = active[t] /\ seen'[t] = seen[t]
  BY OthersStill
<1>p. (active[s] > 0 => main[s] \in Holding \ {"signals"}) /\ (main[s] \in {"new", "claim", "dead"} => ~Late(s))
  BY DEF LockParts
<1>1. CASE main[s] \in Holding /\ main'[s] \in Holding
  <2>1. lock' \in {lock, New(s)} /\ beat' \in {beat, New(s)} /\ (active'[s] > 0 => main'[s] # "signals")
    BY <1>1, <1>p, HolderGoesOn
  <2>2. \A t \in Services : main'[t] \in Holding <=> t = s
    BY <1>1, <1>o, OneHolder
  <2>3. Guarded(s)'
    BY <1>1, <2>1, <1>n DEF LockParts, Guarded, Holds
  <2>4. \A t \in Services : active'[t] > 0 => main'[t] \in Holding \ {"signals"}
    BY <1>1, <2>1, <1>o DEF LockParts
  <2>5. \A t \in Services : (seen'[t] /\ main'[t] = "claim") => ~Stale(lock')
    BY <1>1, <2>1, <1>n, <1>o DEF LockParts, Holding
  <2>6. \A t \in Services \ {s} : Late(t)' => lock'.age = 0
    BY <1>1, <2>1, <1>n, <1>o DEF LockParts
  <2>7. \A t \in Services : main'[t] \in {"new", "claim", "dead"} => ~Late(t)'
    BY <1>1, <1>o DEF LockParts, Holding
  <2> QED
    BY <2>2, <2>3, <2>4, <2>5, <2>6, <2>7 DEF LockParts, Stale
<1>2. CASE main[s] \in Holding /\ main'[s] \notin Holding
  <2>1. ~(active'[s] > 0) /\ main'[s] \notin {"new", "claim"} /\ (main'[s] = "dead" => ~Late(s)')
    BY <1>2, <1>p, HolderLeaves
  <2>2. \A t \in Services : main'[t] \notin Holding
    BY <1>2, <1>o, OneHolder
  <2>4. \A t \in Services : ~(active'[t] > 0)
    BY <1>2, <2>1, <1>o, <2>2 DEF LockParts
  <2>7. \A t \in Services : main'[t] \in {"new", "claim", "dead"} => ~Late(t)'
    BY <2>1, <1>o DEF LockParts
  <2> QED
    BY <2>2, <2>4, <2>7 DEF LockParts
<1>3. CASE main[s] \notin Holding /\ main'[s] \notin Holding
  <2>1. /\ lock' = lock /\ (beat' = beat \/ (beat' = New(s) /\ Late(s)))
        /\ ~(active'[s] > 0) /\ (Late(s)' => Late(s)) /\ (main'[s] \in {"new", "claim", "dead"} => ~Late(s)')
        /\ main'[s] = "claim" => ((seen'[s] = seen[s] /\ main[s] = "claim") \/ MayClaim)
    BY <1>3, <1>p, OutsideStays
  <2>2. \A t \in Services : main'[t] \in Holding => (t # s /\ main[t] \in Holding)
    BY <1>3, <1>o
  <2>3. \A t \in Services : main'[t] \in Holding => Guarded(t)'
    <3> SUFFICES ASSUME NEW t \in Services, main'[t] \in Holding PROVE Guarded(t)'
      OBVIOUS
    <3>1. t # s /\ Guarded(t) /\ (Late(s) => lock.age = 0)
      BY <2>2 DEF LockParts
    <3> QED
      BY <2>1, <3>1 DEF Guarded, Holds
  <2>4. \A t \in Services : active'[t] > 0 => main'[t] \in Holding \ {"signals"}
    BY <2>1, <1>o DEF LockParts
  <2>5. \A u, t \in Services : (main'[u] \in Holding /\ seen'[t] /\ main'[t] = "claim") => ~Stale(lock')
    <3> SUFFICES ASSUME NEW u \in Services, NEW t \in Services, main'[u] \in Holding, seen'[t], main'[t] = "claim", Stale(lock)
                 PROVE  FALSE
      BY <2>1
    <3>1. main[u] \in Holding /\ Guarded(u)
      BY <2>2 DEF LockParts
    <3>2. lock # NoLock /\ lock.by = u /\ lock.age = StaleAfter
      BY <3>1 DEF Guarded, Holds, Stale
    <3>3. beat # NoLock /\ beat.by = u /\ beat.age \in {0, 1}
      BY <3>1, <3>2, <1>t DEF Guarded
    <3>4. ~MayClaim
      BY <3>2, <3>3, <1>t DEF MayClaim, OwnerBeats, Stale
    <3>5. seen[t] /\ main[t] = "claim"
      BY <2>1, <3>4, <1>o
    <3> QED
      BY <3>1, <3>5 DEF LockParts
  <2>6. \A u, t \in Services : (u # t /\ main'[u] \in Holding /\ Late(t)') => lock'.age = 0
    BY <2>1, <2>2, <1>o DEF LockParts
  <2>7. \A t \in Services : main'[t] \in {"new", "claim", "dead"} => ~Late(t)'
    BY <2>1, <1>o DEF LockParts
  <2> QED
    BY <2>3, <2>4, <2>5, <2>6, <2>7 DEF LockParts, Stale
<1>4. CASE main[s] \notin Holding /\ main'[s] \in Holding
  <2>1. Claim(s)
    BY <1>4, <1>p, EntersByClaim
  <2>2. /\ lock' = New(s) /\ active' = active /\ ~seen'[s] /\ main'[s] = "start" /\ ~LockGoesOn /\ main[s] = "claim"
    BY <2>1, <1>t DEF Claim, Goto, StartUnchanged
  <2>3. seen[s]
    BY <2>1 DEF Claim, Slip, Sound, OutOfDate
  <2>4. \A t \in Services : main[t] \notin Holding
    <3> SUFFICES ASSUME NEW t \in Services, main[t] \in Holding PROVE FALSE
      OBVIOUS
    <3>1. lock # NoLock /\ ~Stale(lock)
      BY <2>2, <2>3 DEF LockParts, Guarded, Holds
    <3> QED
      BY <3>1, <2>2 DEF LockGoesOn
  <2>5. \A t \in Services : main'[t] \in Holding <=> t = s
    BY <1>4, <1>o, <2>4
  <2>6. Guarded(s)'
    BY <2>2, <1>n DEF Guarded, Holds
  <2>7. \A t \in Services : ~(active'[t] > 0)
    BY <2>2, <2>4 DEF LockParts
  <2>8. lock'.age = 0 /\ ~Stale(lock')
    BY <2>2, <1>n
  <2>9. \A t \in Services : main'[t] \in {"new", "claim", "dead"} => ~Late(t)'
    BY <2>2, <1>o DEF LockParts
  <2> QED
    BY <2>5, <2>6, <2>7, <2>8, <2>9 DEF LockParts, Stale
<1> QED
  BY <1>1, <1>2, <1>3, <1>4

LEMMA LockInvStep == TypeOK /\ LockInv /\ [Next]_vars => LockInv'
<1> SUFFICES ASSUME TypeOK, LockInv, [Next]_vars, Sound' PROVE LockParts'
  BY DEF LockInv
<1>1. LockParts
  BY SoundStep DEF LockInv
<1>2. CASE UNCHANGED vars
  BY <1>1, <1>2 DEF vars, files, startup, stopping, LockParts, Guarded, Holds, Late, Stale
<1>3. CASE Tick
  BY <1>1, <1>3, LockTick
<1>4. ASSUME NEW s \in Services, Step(s) PROVE LockParts'
  BY <1>1, <1>4, LockStep
<1> QED
  BY <1>2, <1>3, <1>4 DEF Next, Step

\* Unless a service stalls, abandons its executions or claims on an outdated
\* inspection, whoever ticks or executes holds the kernel lock, to the end of
\* the drain.
THEOREM WorkHoldsLock == Spec => []WorksUnderLock
<1>1. LockInv => WorksUnderLock
  BY DEF LockInv, LockParts, WorksUnderLock, Sound, Works, Guarded, Holding
<1> QED
  BY <1>1, TypeInit, TypeStep, LockInit, LockInvStep, PTL DEF Spec

-------------------------------------------------------------------------------
(* Unpublished results are remembered.                                     *)

LEMMA DequeueAll ==
    ASSUME outbox \in [Services -> Seq(Entries)], NEW s \in Services, outbox[s] # <<>>,
           outbox' = [outbox EXCEPT ![s] = Tail(@)]
    PROVE  In(outbox[s]) \subseteq In(outbox'[s]) \union {Head(outbox[s])}
<1> DEFINE q == outbox[s]
<1>1. q \in Seq(Entries) /\ q # <<>>
  OBVIOUS
<1>2. /\ Tail(q) \in Seq(Entries) /\ Len(Tail(q)) = Len(q) - 1 /\ Head(q) = q[1]
      /\ \A i \in 1..Len(Tail(q)) : Tail(q)[i] = q[i + 1]
  BY <1>1, HeadTailProperties
<1>3. Len(q) \in Nat /\ DOMAIN q = 1..Len(q) /\ DOMAIN Tail(q) = 1..Len(Tail(q))
  BY <1>1, <1>2
<1>4. ASSUME NEW i \in DOMAIN q PROVE q[i] \in In(Tail(q)) \union {Head(q)}
  <2>1. CASE i = 1
    BY <2>1, <1>2
  <2>2. CASE i # 1
    <3>1. i - 1 \in DOMAIN Tail(q) /\ Tail(q)[i - 1] = q[(i - 1) + 1] /\ (i - 1) + 1 = i
      BY <2>2, <1>2, <1>3, <1>4
    <3> QED
      BY <3>1 DEF In
  <2> QED
    BY <2>1, <2>2
<1>5. outbox'[s] = Tail(q)
  OBVIOUS
<1> HIDE DEF q
<1>6. In(q) \subseteq In(Tail(q)) \union {Head(q)}
  BY <1>4 DEF In
<1> QED
  BY <1>5, <1>6 DEF q

LEMMA DequeueHead ==
    ASSUME outbox \in [Services -> Seq(Entries)], NEW s \in Services, outbox[s] # <<>>
    PROVE  1 \in DOMAIN outbox[s] /\ outbox[s][1] = Head(outbox[s])
<1>1. outbox[s] \in Seq(Entries)
  OBVIOUS
<1>2. Len(outbox[s]) \in Nat /\ Len(outbox[s]) > 0 /\ DOMAIN outbox[s] = 1..Len(outbox[s]) /\ Head(outbox[s]) = outbox[s][1]
  BY <1>1, EmptySeq, HeadTailProperties
<1> QED
  BY <1>2

\* A command that publishes has its last snapshot to write, and nothing else;
\* no other snapshot says "stopped".
QueueAt(s) ==
    IF main[s] = "publish"
      THEN outbox[s] = <<>> \/ outbox[s] = <<[from |-> "main", status |-> outcome[s]]>>
      ELSE \A e \in In(outbox[s]) : e.status # "stopped"

QueueInv == \A s \in Services : QueueAt(s)

LEMMA QueueOwn ==
    ASSUME TypeOK, NEW s \in Services, FinalAt(s), QueueAt(s), Step(s)
    PROVE  QueueAt(s)'
<1>t. /\ main \in [Services -> Mains] /\ outcome \in [Services -> Outcomes] /\ outbox \in [Services -> Seq(Entries)]
      /\ outcome[s] \in Statuses /\ "active" \in Statuses /\ "stopping" \in Statuses
  BY DEF TypeOK, Statuses
<1>q. \A from : Queued(s, from) <=> \E e \in In(outbox[s]) : e.from = from
  BY QueuedIn
<1>1. CASE UNCHANGED outbox /\ main'[s] # "publish" /\ main[s] # "publish"
  BY <1>1 DEF QueueAt, In
<1>2. ASSUME NEW from \in {"main", "skip", "signal"}, NEW status \in {"active", "stopping"}, Enqueue(s, from, status),
             main[s] # "publish", main'[s] # "publish"
      PROVE  QueueAt(s)'
  <2>1. In(outbox'[s]) = In(outbox[s]) \union {[from |-> from, status |-> status]}
    BY <1>2, <1>t, EnqueueIn
  <2>2. \A e \in In(outbox'[s]) : e.status # "stopped"
    BY <1>2, <2>1 DEF QueueAt
  <2> QED
    BY <1>2, <2>2 DEF QueueAt, In
<1>3. ASSUME outbox[s] # <<>>, outbox' = [outbox EXCEPT ![s] = Tail(@)],
             main'[s] = "publish" => (main[s] = "publish" /\ outcome'[s] = outcome[s])
      PROVE  QueueAt(s)'
  <2>1. CASE main[s] = "publish"
    <3>1. outbox'[s] = <<>>
      BY <1>3, <2>1, <1>t DEF QueueAt
    <3> QED
      BY <3>1, EmptyIn DEF QueueAt, In
  <2>2. CASE main[s] # "publish"
    <3>1. In(outbox'[s]) \subseteq In(outbox[s])
      BY <1>3, <1>t, DequeueIn
    <3>2. \A e \in In(outbox'[s]) : e.status # "stopped"
      BY <2>2, <3>1 DEF QueueAt
    <3> QED
      BY <1>3, <2>2, <3>2 DEF QueueAt, In
  <2> QED
    BY <2>1, <2>2
<1>4. CASE UNCHANGED outbox /\ main'[s] = main[s] /\ outcome'[s] = outcome[s]
  BY <1>4 DEF QueueAt, In
<1>5. CASE Start(s)
  BY <1>5, <1>t, <1>1 DEF Start, Inspect, Claim, ClaimRefused, StartUnchanged, Goto
<1>6. CASE Loop(s)
  BY <1>6, <1>t, <1>1, <1>2 DEF Loop, Announce, BeginTick, EndTick, Settle, Report, Failed, Sleep, EndLoop, Goto
<1>7. CASE Ending(s)
  <2>1. CASE Release(s)
    <3>1. outbox[s] = <<>>
      <4>1. /\ ~Queued(s, "main") /\ ~Queued(s, "signal") /\ ~Queued(s, "skip")
        BY <2>1, <1>t DEF Release, WaitForSignals, Unsignalled, SignalsOver, Goto, FinalAt
      <4>2. outbox[s] \in Seq(Entries) /\ In(outbox[s]) \subseteq Entries
        BY <1>t, InEntries
      <4>3. \A e \in Entries : e.from \in {"main", "skip", "signal"}
        BY DEF Entries
      <4> QED
        BY <4>1, <4>2, <4>3, <1>q, EmptyIn
    <3>2. outbox' = [outbox EXCEPT ![s] = Append(@, [from |-> "main", status |-> outcome[s]])] /\ outcome' = outcome
          /\ main'[s] = "publish"
      BY <2>1, <1>t DEF Release, Enqueue, EndUnchanged, Goto
    <3>3. outbox'[s] = <<[from |-> "main", status |-> outcome[s]]>>
      BY <3>1, <3>2, <1>t
    <3> QED
      BY <3>2, <3>3 DEF QueueAt
  <2>2. CASE Finish(s)
    <3>1. outbox'[s] = <<>> /\ main'[s] = "finished"
      <4>1. outbox[s] # <<>> => outbox[s] = <<[from |-> "main", status |-> outcome[s]]>>
        BY <2>2 DEF Finish, Goto, QueueAt
      <4>2. outbox[s] # <<>> => Queued(s, "main")
        BY <4>1, <1>t, DequeueHead DEF Queued
      <4> QED
        BY <2>2, <4>2, <1>t DEF Finish, Goto
    <3> QED
      BY <3>1, EmptyIn DEF QueueAt, In
  <2>3. CASE Maintain(s)
    BY <2>3, <1>t, <1>1, <1>2 DEF Maintain, Due, Goto
  <2> QED
    BY <1>7, <2>1, <2>2, <2>3, <1>t, <1>1 DEF Ending, MaintainRefused, Due, Uninstall, Drained, Cleanup, EndUnchanged, Goto
<1>8. CASE Besides(s)
  <2>1. CASE SignalSnapshot(s)
    <3>1. main[s] # "publish"
      BY <2>1 DEF SignalSnapshot, FinalAt
    <3> QED
      BY <2>1, <3>1, <1>2 DEF SignalSnapshot
  <2>2. CASE WriteHealth(s)
    BY <2>2, <1>3 DEF WriteHealth
  <2>3. CASE Skip(s)
    BY <2>3, <1>2 DEF Skip
  <2> QED
    BY <1>8, <2>1, <2>2, <2>3, <1>t, <1>1, <1>4 DEF Besides, Submit, RepairFails, ExecutionEnds, Signal, LoopUnchanged, Goto
<1>9. CASE Faults(s)
  <2>1. CASE Crash(s)
    <3>1. outbox'[s] = <<>> /\ main'[s] = "dead"
      BY <2>1, <1>t DEF Crash
    <3> QED
      BY <3>1, EmptyIn DEF QueueAt, In
  <2>2. CASE DeferHealth(s)
    BY <2>2, <1>3 DEF DeferHealth
  <2>3. CASE HealthFails(s)
    <3>1. main'[s] \in ThrownTo(s, Head(outbox[s]).from)
      BY <2>3, <1>t DEF HealthFails
    <3>2. Head(outbox[s]).from = "skip" => main[s] \in {"settle", "failed"}
      BY <2>3 DEF HealthFails
    <3>3. main'[s] # "publish"
      BY <3>1, <3>2 DEF ThrownTo
    <3> QED
      BY <2>3, <3>3, <1>3 DEF HealthFails
  <2> QED
    BY <1>9, <2>1, <2>2, <2>3, <1>t, <1>1, <1>4 DEF Faults, TickFails, ExecutionFails, Goto
<1> QED
  BY <1>5, <1>6, <1>7, <1>8, <1>9 DEF Step
LEMMA QueueStep == TypeOK /\ FinalInv /\ QueueInv /\ [Next]_vars => QueueInv'
<1> SUFFICES ASSUME TypeOK, FinalInv, QueueInv, [Next]_vars, NEW t \in Services PROVE QueueAt(t)'
  BY DEF QueueInv
<1>f. FinalAt(t) /\ QueueAt(t)
  BY DEF FinalInv, QueueInv
<1>1. CASE Tick \/ UNCHANGED vars
  BY <1>1, <1>f DEF Tick, vars, QueueAt, In
<1>2. ASSUME NEW s \in Services, Step(s) PROVE QueueAt(t)'
  <2>1. CASE s = t
    BY <2>1, <1>2, <1>f, QueueOwn
  <2>2. CASE s # t
    BY <2>2, <1>2, <1>f, OthersKeep DEF QueueAt, In, Step
  <2> QED
    BY <2>1, <2>2
<1> QED
  BY <1>1, <1>2 DEF Next, Step

\* A command whose first "active" state has been written
Announced(s) ==
    \/ main[s] \in {"tick", "settle", "report", "failed", "rest", "retry"}
    \/ active[s] > 0
    \/ main[s] = "loop" /\ ~Queued(s, "main")

\* A command with "stopped" still to write
LastStopped(s) == main[s] = "publish" /\ outbox[s] # <<>> /\ outcome[s] = "stopped"

\* The state says that something is left to repair, and goes on saying so.
Recorded == Unclean /\ \A s \in Services : LastStopped(s) => state.by # s

Remembered ==
    \/ \E s \in Services : Alive(s) /\ (Repairing(s) \/ main[s] = "failed")
    \/ lock # NoLock /\ main[lock.by] = "dead"
    \/ (\A s \in Services : ~Alive(s)) /\ Unclean

OwedParts ==
    /\ (lost \/ \E s \in Services : Announced(s)) => Recorded
    /\ \A s \in Services : (main[s] = "settle" /\ lost) => failed[s]
    /\ lost => Remembered

OwedInv == slips = {} => OwedParts

LEMMA HoldingAlive == ASSUME TypeOK, NEW s \in Services PROVE Alive(s) <=> main[s] \in Holding
BY DEF TypeOK, Alive, Mains, Before, Ended, Holding

\* Results are lost by those who work.
LEMMA LostStep ==
    ASSUME TypeOK, NEW s \in Services, Step(s), lost'
    PROVE  lost \/ Announced(s)
<1>1. CASE Start(s) \/ Loop(s) \/ Ending(s)
  BY <1>1 DEF Start, Inspect, Claim, ClaimRefused, StartUnchanged, EndUnchanged, Loop, Announce,
              BeginTick, EndTick, Settle, Report, Failed, Sleep, EndLoop, Ending, Maintain, MaintainRefused,
              Uninstall, Release, Finish, Cleanup
<1>2. CASE Besides(s) \/ Faults(s)
  BY <1>2 DEF Besides, Submit, Skip, RepairFails, ExecutionEnds, Signal, SignalSnapshot, WriteHealth,
              Faults, Crash, TickFails, ExecutionFails, DeferHealth, HealthFails, Works, Announced
<1> QED
  BY <1>1, <1>2 DEF Step

\* A command is announced when its state is written.
LEMMA AnnouncedStep ==
    ASSUME TypeOK, NEW s \in Services, QueueAt(s), FinalAt(s), Step(s), Announced(s)', ~Announced(s)
    PROVE  WriteHealth(s) /\ main[s] = "loop" /\ Head(outbox[s]).status # "stopped"
<1>t. /\ main \in [Services -> Mains] /\ outbox \in [Services -> Seq(Entries)] /\ active \in [Services -> 0..Capacity]
      /\ outcome[s] \in Statuses /\ "active" \in Statuses /\ "stopping" \in Statuses
  BY DEF TypeOK, Statuses
<1>q. \A from : Queued(s, from) <=> \E e \in In(outbox[s]) : e.from = from
  BY QueuedIn
<1>r. \A from : Queued(s, from)' <=> \E e \in In(outbox'[s]) : e.from = from
  BY DEF Queued, In
<1>n. /\ main[s] \notin {"tick", "settle", "report", "failed", "rest", "retry"}
      /\ ~(active[s] > 0)
      /\ ~(main[s] = "loop" /\ ~Queued(s, "main"))
  BY DEF Announced
<1>a. \/ main'[s] \in {"tick", "settle", "report", "failed", "rest", "retry"}
      \/ active'[s] > 0
      \/ main'[s] = "loop" /\ ~Queued(s, "main")'
  BY DEF Announced
<1>m. ASSUME NEW status, Enqueue(s, "main", status), status \in Statuses PROVE Queued(s, "main")'
  BY <1>m, <1>t, <1>r, EnqueueIn
<1>1. CASE Start(s)
  BY <1>1, <1>t, <1>n, <1>a DEF Start, Inspect, Claim, ClaimRefused, StartUnchanged, Goto
<1>2. CASE Loop(s)
  <2>1. CASE Announce(s)
    <3>1. Queued(s, "main")' /\ active' = active /\ main'[s] = "loop"
      BY <2>1, <1>m, <1>t DEF Announce, Goto
    <3> QED
      BY <3>1, <1>n, <1>a
  <2> QED
    BY <1>2, <2>1, <1>t, <1>n, <1>a DEF Loop, BeginTick, EndTick, Settle, Report, Failed, Sleep, EndLoop, Goto
<1>3. CASE Ending(s)
  BY <1>3, <1>t, <1>n, <1>a DEF Ending, Maintain, MaintainRefused, Due, Uninstall, Drained, Release, Finish, Cleanup,
              EndUnchanged, Goto
<1>4. CASE Besides(s)
  <2>1. CASE SignalSnapshot(s)
    <3>1. Enqueue(s, "signal", "stopping") /\ main' = main /\ active' = active
      BY <2>1 DEF SignalSnapshot
    <3>2. In(outbox'[s]) = In(outbox[s]) \union {[from |-> "signal", status |-> "stopping"]}
      BY <3>1, <1>t, EnqueueIn
    <3> QED
      BY <3>1, <3>2, <1>n, <1>a, <1>q, <1>r
  <2>2. CASE WriteHealth(s)
    <3>1. main' = main /\ active' = active /\ outbox[s] # <<>> /\ outbox' = [outbox EXCEPT ![s] = Tail(@)]
      BY <2>2 DEF WriteHealth
    <3>2. Head(outbox[s]) \in In(outbox[s])
      BY <3>1, <1>t, DequeueIn
    <3>3. main[s] = "loop"
      BY <3>1, <1>n, <1>a
    <3> QED
      BY <2>2, <3>2, <3>3 DEF QueueAt
  <2>3. CASE Signal(s)
    BY <2>3, <1>n, <1>a, <1>q, <1>r DEF Signal
  <2> QED
    BY <1>4, <2>1, <2>2, <2>3, <1>t, <1>n, <1>a DEF Besides, Submit, Skip, RepairFails, ExecutionEnds, LoopUnchanged, Goto
<1>5. CASE Faults(s)
  <2>1. CASE Crash(s)
    BY <2>1, <1>t, <1>n, <1>a DEF Crash
  <2>2. CASE TickFails(s) \/ ExecutionFails(s)
    BY <2>2, <1>t, <1>n, <1>a DEF TickFails, ExecutionFails, Goto
  <2>3. CASE DeferHealth(s)
    <3>1. /\ main' = main /\ active' = active /\ outbox[s] # <<>> /\ outbox' = [outbox EXCEPT ![s] = Tail(@)]
          /\ main[s] = "loop" => Head(outbox[s]).from # "main"
      BY <2>3 DEF DeferHealth
    <3>2. In(outbox[s]) \subseteq In(outbox'[s]) \union {Head(outbox[s])}
      BY <3>1, <1>t, DequeueAll
    <3> QED
      BY <3>1, <3>2, <1>n, <1>a, <1>q, <1>r
  <2>4. CASE HealthFails(s)
    <3>1. /\ main'[s] \in ThrownTo(s, Head(outbox[s]).from) /\ active' = active
          /\ Head(outbox[s]).from = "skip" => main[s] \in {"settle", "failed"}
      BY <2>4, <1>t DEF HealthFails
    <3>2. main'[s] \notin {"tick", "settle", "report", "failed", "rest", "retry", "loop"}
      BY <3>1, <1>n DEF ThrownTo
    <3> QED
      BY <3>1, <3>2, <1>n, <1>a
  <2> QED
    BY <1>5, <2>1, <2>2, <2>3, <2>4 DEF Faults
<1> QED
  BY <1>1, <1>2, <1>3, <1>4, <1>5 DEF Step

LEMMA LastStoppedStep ==
    ASSUME TypeOK, NEW s \in Services, FinalAt(s), Step(s), LastStopped(s)', ~LastStopped(s)
    PROVE  Release(s) /\ outcome[s] = "stopped"
<1>t. main \in [Services -> Mains] /\ outbox \in [Services -> Seq(Entries)] /\ outcome \in [Services -> Outcomes]
  BY DEF TypeOK
<1>1. CASE Start(s) \/ Loop(s)
  BY <1>1, <1>t DEF Start, Inspect, Claim, ClaimRefused, StartUnchanged, Loop, Announce,
              BeginTick, EndTick, Settle, Report, Failed, Sleep, EndLoop, Goto, LastStopped
<1>2. CASE Ending(s)
  BY <1>2, <1>t DEF Ending, Maintain, MaintainRefused, Due, Uninstall, Drained, Release, Finish, Cleanup,
              EndUnchanged, Goto, LastStopped
<1>3. CASE Besides(s)
  <2>1. CASE SignalSnapshot(s) \/ Skip(s)
    BY <2>1, <1>t DEF SignalSnapshot, Skip, LoopUnchanged, LastStopped, FinalAt
  <2>2. CASE WriteHealth(s)
    BY <2>2, <1>t DEF WriteHealth, LastStopped
  <2> QED
    BY <1>3, <2>1, <2>2, <1>t DEF Besides, Submit, RepairFails, ExecutionEnds, Signal, LoopUnchanged, Goto, LastStopped
<1>4. CASE Faults(s)
  <2>1. CASE HealthFails(s)
    <3>1. /\ main'[s] \in ThrownTo(s, Head(outbox[s]).from)
          /\ Head(outbox[s]).from = "skip" => main[s] \in {"settle", "failed"}
      BY <2>1, <1>t DEF HealthFails
    <3>2. main'[s] # "publish"
      BY <3>1 DEF ThrownTo
    <3> QED
      BY <3>2 DEF LastStopped
  <2> QED
    BY <1>4, <2>1, <1>t DEF Faults, Crash, TickFails, ExecutionFails, DeferHealth, Goto, LastStopped
<1> QED
  BY <1>1, <1>2, <1>3, <1>4 DEF Step
\* The flags of the others, and the state of the service
LEMMA OthersFlags ==
    ASSUME TypeOK, NEW s \in Services, NEW t \in Services \ {s}, Step(s)
    PROVE  repairs'[t] = repairs[t] /\ failed'[t] = failed[t]
<1>t. repairs \in [Services -> BOOLEAN] /\ failed \in [Services -> BOOLEAN]
  BY DEF TypeOK
<1>1. CASE Start(s) \/ Loop(s) \/ Ending(s)
  BY <1>1, <1>t DEF Start, Inspect, Claim, ClaimRefused, StartUnchanged, LoopUnchanged, EndUnchanged, Loop, Announce,
              BeginTick, EndTick, Settle, Report, Failed, Sleep, EndLoop, Ending, Maintain, MaintainRefused,
              Uninstall, Release, Finish, Cleanup, Forget, loop
<1>2. CASE Besides(s) \/ Faults(s)
  BY <1>2, <1>t DEF Besides, Submit, Skip, RepairFails, ExecutionEnds, Signal, SignalSnapshot, WriteHealth, LoopUnchanged,
              Faults, Crash, TickFails, ExecutionFails, DeferHealth, HealthFails, Forget, loop
<1> QED
  BY <1>1, <1>2 DEF Step

LEMMA StateStep ==
    ASSUME NEW s \in Services, Step(s), ~WriteHealth(s)
    PROVE  state' = state
<1>1. CASE Start(s) \/ Loop(s) \/ Ending(s)
  BY <1>1 DEF Start, Inspect, Claim, ClaimRefused, StartUnchanged, LoopUnchanged, EndUnchanged, Loop, Announce,
              BeginTick, EndTick, Settle, Report, Failed, Sleep, EndLoop, Ending, Maintain, MaintainRefused,
              Uninstall, Release, Finish, Cleanup, files
<1>2. CASE Besides(s) \/ Faults(s)
  BY <1>2 DEF Besides, Submit, Skip, RepairFails, ExecutionEnds, Signal, SignalSnapshot, LoopUnchanged,
              Faults, Crash, TickFails, ExecutionFails, DeferHealth, HealthFails, files
<1> QED
  BY <1>1, <1>2 DEF Step

\* How a tick settles
LEMMA SettleStep ==
    ASSUME TypeOK, NEW s \in Services, Step(s), main'[s] = "settle"
    PROVE  \/ EndTick(s) \/ RepairFails(s) \/ failed'[s]
           \/ main[s] = "settle" /\ lost' = lost /\ failed' = failed
<1>t. main \in [Services -> Mains] /\ failed \in [Services -> BOOLEAN]
  BY DEF TypeOK
<1>1. CASE Start(s) \/ Loop(s) \/ Ending(s)
  BY <1>1, <1>t DEF Start, Inspect, Claim, ClaimRefused, Loop, Announce,
              BeginTick, Settle, Report, Failed, Sleep, EndLoop, Ending, Maintain, MaintainRefused, Due,
              Uninstall, Drained, Release, Finish, Cleanup, Goto
<1>2. CASE Besides(s)
  BY <1>2, <1>t DEF Besides, Submit, Skip, ExecutionEnds, Signal, SignalSnapshot, WriteHealth, LoopUnchanged, loop
<1>3. CASE Faults(s)
  <2>1. CASE ExecutionFails(s)
    BY <2>1, <1>t DEF ExecutionFails, Ended
  <2>2. CASE HealthFails(s)
    <3>1. main[s] = "settle"
      BY <2>2, <1>t DEF HealthFails, ThrownTo
    <3> QED
      BY <2>2, <3>1 DEF HealthFails, loop
  <2> QED
    BY <1>3, <2>1, <2>2, <1>t DEF Faults, Crash, TickFails, DeferHealth, Goto, loop
<1> QED
  BY <1>1, <1>2, <1>3 DEF Step

\* A holder that owes a repair goes on owing it, or has made it.
LEMMA RepairStep ==
    ASSUME TypeOK, NEW s \in Services, Step(s), main[s] \in Holding, main'[s] \in Holding, lost', slips' = {},
           lost => (Repairing(s) \/ main[s] = "failed"), (main[s] = "settle" /\ lost) => failed[s]
    PROVE  repairs'[s] \/ failed'[s] \/ main'[s] = "failed"
<1>t. main \in [Services -> Mains] /\ failed \in [Services -> BOOLEAN] /\ repairs \in [Services -> BOOLEAN]
  BY DEF TypeOK
<1>h. main[s] \notin {"new", "claim", "over", "finished", "dead", "publish"}
  BY DEF Holding
<1>1. CASE Start(s)
  BY <1>1, <1>h DEF Start, Inspect, Claim, ClaimRefused, Goto
<1>2. CASE Loop(s)
  <2>1. CASE EndTick(s)
    BY <2>1, <1>t DEF EndTick, Goto, Repairing
  <2>2. CASE Settle(s)
    BY <2>2, <1>t DEF Settle, Goto
  <2>3. CASE Failed(s)
    BY <2>3, <1>t DEF Failed
  <2> QED
    BY <1>2, <2>1, <2>2, <2>3, <1>t DEF Loop, Announce, BeginTick, Report, Sleep, EndLoop, Goto, Repairing, loop
<1>3. CASE Ending(s)
  BY <1>3, <1>t DEF Ending, Maintain, MaintainRefused, Due, Uninstall, Drained, Release, Finish, Cleanup,
              EndUnchanged, Goto, Repairing, Holding, loop
<1>4. CASE Besides(s)
  BY <1>4, <1>t DEF Besides, Submit, Skip, RepairFails, ExecutionEnds, Signal, SignalSnapshot, WriteHealth,
              LoopUnchanged, Repairing, loop
<1>5. CASE Faults(s)
  <2>1. CASE TickFails(s)
    BY <2>1, <1>t DEF TickFails, Goto
  <2>2. CASE ExecutionFails(s)
    BY <2>2, <1>t, <1>h DEF ExecutionFails, Ended
  <2>3. CASE DeferHealth(s)
    BY <2>3, <1>t DEF DeferHealth, Repairing, loop
  <2>4. CASE HealthFails(s)
    <3>1. main[s] = "failed" => main'[s] = "failed"
      BY <2>4, <1>t DEF HealthFails, ThrownTo
    <3> QED
      BY <2>4, <3>1 DEF HealthFails, Repairing, loop
  <2>5. CASE Crash(s)
    BY <2>5, <1>t DEF Crash, Holding
  <2> QED
    BY <1>5, <2>1, <2>2, <2>3, <2>4, <2>5 DEF Faults
<1> QED
  BY <1>1, <1>2, <1>3, <1>4, <1>5 DEF Step

\* While a holder is at work, it is the one who remembers.
LEMMA HolderRemembers ==
    ASSUME TypeOK, LockParts, OwedParts, NEW s \in Services, main[s] \in Holding, lost
    PROVE  Repairing(s) \/ main[s] = "failed"
<1>1. Alive(s) /\ \A t \in Services : Alive(t) => t = s
  BY HoldingAlive, OneHolder
<1>2. lock # NoLock => main[lock.by] # "dead"
  BY DEF LockParts, Guarded, Holds, Holding
<1> QED
  BY <1>1, <1>2 DEF OwedParts, Remembered

LEMMA OwedRecorded ==
    ASSUME TypeOK, LockParts, FinalInv, QueueInv, OwedParts, NEW s \in Services, Step(s), slips' = {}, TypeOK',
           lost' \/ \E t \in Services : Announced(t)'
    PROVE  Recorded'
<1>t. /\ main \in [Services -> Mains] /\ outbox \in [Services -> Seq(Entries)] /\ outcome \in [Services -> Outcomes]
      /\ outcome[s] \in Statuses
  BY DEF TypeOK, Statuses
<1>s. FinalAt(s) /\ QueueAt(s)
  BY DEF FinalInv, QueueInv
<1>o. \A t \in Services \ {s} : (Announced(t)' <=> Announced(t)) /\ (LastStopped(t)' <=> LastStopped(t))
  <2> SUFFICES ASSUME NEW t \in Services \ {s} PROVE (Announced(t)' <=> Announced(t)) /\ (LastStopped(t)' <=> LastStopped(t))
    OBVIOUS
  <2>1. main'[t] = main[t] /\ outcome'[t] = outcome[t] /\ outbox'[t] = outbox[t] /\ active'[t] = active[t]
    BY OthersKeep, OthersStill DEF Step
  <2> QED
    BY <2>1 DEF Announced, LastStopped, Queued
<1>a. \/ Recorded
      \/ WriteHealth(s) /\ main[s] = "loop" /\ Head(outbox[s]).status # "stopped"
  BY <1>o, <1>s, LostStep, AnnouncedStep DEF OwedParts
<1>1. CASE WriteHealth(s)
  <2>1. /\ state' = [by |-> s, status |-> Head(outbox[s]).status] /\ outbox[s] # <<>>
        /\ outbox' = [outbox EXCEPT ![s] = Tail(@)] /\ main' = main /\ outcome' = outcome
        /\ Overwrites(s) => "overwritten" \in slips'
    BY <1>1 DEF WriteHealth
  <2>2. Head(outbox[s]) \in In(outbox[s]) /\ Head(outbox[s]) \in Entries
    BY <2>1, <1>t, DequeueIn
  <2>3. state' # NoState /\ state'.by = s /\ state'.status = Head(outbox[s]).status
    <3>1. state' \in States
      BY <2>1, <2>2 DEF States, Entries
    <3> QED
      BY <3>1, <2>1, NoLockAssumption DEF NoState
  <2>4. main[s] = "publish" => Head(outbox[s]) = [from |-> "main", status |-> outcome[s]] /\ outbox'[s] = <<>>
    BY <2>1, <1>s, <1>t DEF QueueAt
  <2>5. Head(outbox[s]).status # "stopped"
    <3>1. CASE main[s] # "publish"
      BY <3>1, <2>2, <1>s DEF QueueAt
    <3>2. CASE main[s] = "publish" /\ outcome[s] = "stopped"
      <4>1. LastStopped(s) /\ Recorded
        BY <3>2, <2>1, <1>a DEF LastStopped
      <4>2. Overwrites(s)
        BY <3>2, <4>1 DEF Recorded, Unclean, Overwrites
      <4> QED
        BY <4>2, <2>1
    <3>3. CASE main[s] = "publish" /\ outcome[s] # "stopped"
      BY <3>3, <2>4
    <3> QED
      BY <3>1, <3>2, <3>3
  <2>6. ~LastStopped(s)'
    BY <2>1, <2>4 DEF LastStopped
  <2> QED
    BY <2>3, <2>5, <2>6 DEF Recorded, Unclean, NoState
<1>2. CASE ~WriteHealth(s)
  <2>1. state' = state /\ Recorded
    BY <1>2, <1>a, StateStep
  <2>2. ~(LastStopped(s)' /\ ~LastStopped(s))
    <3> SUFFICES ASSUME LastStopped(s)', ~LastStopped(s) PROVE FALSE
      OBVIOUS
    <3>1. Release(s) /\ outcome[s] = "stopped"
      BY <1>s, LastStoppedStep
    <3>2. /\ main[s] = "signals" /\ main'[s] = "publish" /\ lost' = lost /\ active' = active
          /\ (lost /\ Repairing(s)) => "dismissed" \in slips'
      BY <3>1, <1>t DEF Release, Goto, EndUnchanged
    <3>3. \A t \in Services : ~Announced(t)'
      <4>1. ~Announced(s)'
        BY <3>2 DEF Announced, LockParts
      <4>2. \A t \in Services \ {s} : ~Announced(t)
        <5> SUFFICES ASSUME NEW t \in Services \ {s}, Announced(t) PROVE FALSE
          OBVIOUS
        <5>1. main[t] \in Holding
          BY DEF Announced, LockParts, Holding
        <5>2. main[s] \in Holding
          BY <3>2 DEF Holding
        <5> QED
          BY <5>1, <5>2, OneHolder
      <4> QED
        BY <4>1, <4>2, <1>o
    <3>4. lost /\ main[s] \in Holding
      BY <3>2, <3>3 DEF Holding
    <3>5. Repairing(s)
      BY <3>2, <3>4, HolderRemembers
    <3> QED
      BY <3>2, <3>4, <3>5
  <2> QED
    BY <2>1, <2>2, <1>o DEF Recorded, Unclean, NoState
<1> QED
  BY <1>1, <1>2

LEMMA OwedStep ==
    ASSUME TypeOK, LockParts, FinalInv, QueueInv, OwedParts, NEW s \in Services, Step(s), slips' = {}, TypeOK', LockParts'
    PROVE  OwedParts'
<1>t. /\ main \in [Services -> Mains] /\ failed \in [Services -> BOOLEAN] /\ repairs \in [Services -> BOOLEAN]
      /\ unclean \in [Services -> BOOLEAN]
  BY DEF TypeOK
<1>o. \A t \in Services \ {s} : main'[t] = main[t] /\ repairs'[t] = repairs[t] /\ failed'[t] = failed[t]
  BY OthersStill, OthersFlags
<1>h. Announced(s) => main[s] \in Holding
  BY DEF Announced, LockParts, Holding
<1>l. lost' => (lost \/ main[s] \in Holding)
  BY <1>h, LostStep
<1>1. (lost' \/ \E t \in Services : Announced(t)') => Recorded'
  BY OwedRecorded
<1>2. ASSUME NEW t \in Services, main'[t] = "settle", lost' PROVE failed'[t]
  <2>1. CASE t # s
    <3>1. main[t] = "settle" /\ main[t] \in Holding /\ main[s] \notin Holding
      BY <1>2, <2>1, <1>o, OneHolder DEF Holding
    <3> QED
      BY <3>1, <1>2, <2>1, <1>l, <1>o DEF OwedParts
  <2>2. CASE t = s
    <3>1. CASE EndTick(s)
      <4>1. main[s] = "tick" /\ lost /\ ~Repairing(s)
        BY <3>1, <1>2 DEF EndTick, Goto
      <4>2. main[s] \in Holding
        BY <4>1 DEF Holding
      <4> QED
        BY <4>1, <4>2, HolderRemembers
    <3>2. CASE RepairFails(s)
      BY <3>2 DEF RepairFails
    <3> QED
      BY <3>1, <3>2, <2>2, <1>2, SettleStep DEF OwedParts
  <2> QED
    BY <2>1, <2>2
<1>3. ASSUME lost' PROVE Remembered'
  <2>1. Unclean'
    BY <1>1, <1>3 DEF Recorded
  <2>2. CASE \A t \in Services : main'[t] \notin Holding
    <3>1. \A t \in Services : ~Alive(t)'
      BY <2>2 DEF TypeOK, Alive, Mains, Before, Ended, Holding
    <3> QED
      BY <2>1, <3>1 DEF Remembered
  <2>3. ASSUME NEW t \in Services, main'[t] \in Holding PROVE Remembered'
    <3>1. repairs'[t] \/ failed'[t] \/ main'[t] = "failed"
      <4>1. CASE t # s
        <5>1. main[t] \in Holding /\ main[s] \notin Holding
          BY <2>3, <4>1, <1>o, OneHolder
        <5>2. lost
          BY <5>1, <1>3, <1>l
        <5> QED
          BY <5>1, <5>2, <4>1, <1>o, HolderRemembers DEF Repairing
      <4>2. CASE t = s /\ main[s] \in Holding
        <5>1. lost => (Repairing(s) \/ main[s] = "failed")
          BY <4>2, HolderRemembers
        <5> QED
          BY <5>1, <4>2, <2>3, <1>3, RepairStep DEF OwedParts
      <4>3. CASE t = s /\ main[s] \notin Holding
        <5>1. Claim(s)
          BY <4>3, <2>3, EntersByClaim DEF LockParts
        <5>2. /\ lost /\ main[s] = "claim" /\ ~OutOfDate(s)
              /\ repairs'[s] = (unclean[s] \/ lock # NoLock)
          BY <5>1, <1>3, <1>t DEF Claim, StartUnchanged, Goto, Slip
        <5>3. \A u \in Services : ~Alive(u)
          <6> SUFFICES ASSUME NEW u \in Services, main[u] \in Holding PROVE FALSE
            BY HoldingAlive
          <6>1. u # s /\ main'[u] \in Holding /\ main'[s] \in Holding
            BY <4>3, <2>3, <1>o
          <6> QED
            BY <6>1 DEF LockParts, Guarded, Holds
        <5>4. lock # NoLock \/ Unclean
          BY <5>2, <5>3 DEF OwedParts, Remembered
        <5>5. Unclean => unclean[s]
          BY <5>2, <1>t DEF OutOfDate
        <5> QED
          BY <5>2, <5>4, <5>5, <4>3
      <4> QED
        BY <4>1, <4>2, <4>3
    <3>2. Alive(t)'
      BY <2>3 DEF Alive, Before, Ended, Holding
    <3> QED
      BY <3>1, <3>2 DEF Remembered, Repairing
  <2> QED
    BY <2>2, <2>3
<1> QED
  BY <1>1, <1>2, <1>3 DEF OwedParts

LEMMA OwedTick == ASSUME TypeOK, OwedParts, Tick \/ UNCHANGED vars PROVE OwedParts'
<1>1. /\ UNCHANGED <<state, main, loop, outcome, active, outbox, lost>>
      /\ lock # NoLock => (lock' # NoLock /\ lock'.by = lock.by)
  <2>1. lock \in Claims \union {NoLock}
    BY DEF TypeOK
  <2>2. lock # NoLock => (Older(lock) # NoLock /\ Older(lock).by = lock.by)
    BY <2>1, NewTypes
  <2> QED
    BY <2>2 DEF Tick, vars, files
<1>2. \A s \in Services : /\ (Announced(s)' <=> Announced(s)) /\ (LastStopped(s)' <=> LastStopped(s))
                          /\ (Alive(s)' <=> Alive(s)) /\ (Repairing(s)' <=> Repairing(s)) /\ failed'[s] = failed[s]
  BY <1>1 DEF Announced, LastStopped, Alive, Repairing, Queued, loop
<1>3. (Unclean' <=> Unclean) /\ (Recorded' <=> Recorded)
  BY <1>1, <1>2 DEF Unclean, Recorded, NoState
<1>4. Remembered => Remembered'
  BY <1>1, <1>2, <1>3 DEF Remembered
<1> QED
  BY <1>1, <1>2, <1>3, <1>4 DEF OwedParts

LEMMA OwedInit == Init => (QueueInv /\ OwedInv)
<1> SUFFICES ASSUME Init PROVE QueueInv /\ OwedParts
  BY DEF OwedInv
<1>1. \A s \in Services : outbox[s] = <<>> /\ main[s] = "new" /\ active[s] = 0 /\ ~lost
  BY DEF Init
<1>2. QueueInv
  BY <1>1, EmptyIn DEF QueueInv, QueueAt
<1> QED
  BY <1>1, <1>2 DEF OwedParts, Announced, Init

OwedAll == TypeOK /\ LockInv /\ FinalInv /\ QueueInv /\ OwedInv

LEMMA OwedAllStep == OwedAll /\ [Next]_vars => OwedAll'
<1> SUFFICES ASSUME OwedAll, [Next]_vars PROVE OwedAll'
  OBVIOUS
<1>1. TypeOK' /\ LockInv' /\ FinalInv' /\ QueueInv'
  BY TypeStep, LockInvStep, FinalStep, QueueStep DEF OwedAll
<1>2. ASSUME slips' = {} PROVE OwedParts'
  <2>1. slips = {}
    BY <1>2, SlipsStay
  <2>2. LockParts /\ LockParts' /\ OwedParts
    BY <1>1, <1>2, <2>1 DEF OwedAll, LockInv, Sound, OwedInv
  <2> QED
    BY <1>1, <1>2, <2>2, OwedStep, OwedTick DEF OwedAll, Next, Step
<1> QED
  BY <1>1, <1>2 DEF OwedAll, OwedInv

\* Unpublished results are remembered, in every behaviour without a slip: by a
\* service that is going to repair them, by the lock a dead service has left,
\* or by a last state that makes the next service repair.
THEOREM RepairRemembered == Spec => []RepairIsOwed
<1>1. Init => OwedAll
  BY TypeInit, LockInit, FinalInit, OwedInit DEF OwedAll
<1>2. OwedAll => RepairIsOwed
  BY DEF OwedAll, OwedInv, OwedParts, Remembered, RepairIsOwed
<1> QED
  BY <1>1, <1>2, OwedAllStep, PTL DEF Spec

-------------------------------------------------------------------------------
(* The kernel lock and the heartbeat are a lease.                          *)

\* A lock belongs to a service that is alive or dead; an inspection of this
\* unit of time that has let a service claim would let it still; the snapshot
\* of another than the owner waits only as long as the lock is new.
LeaseParts ==
    /\ lock # NoLock => main[lock.by] \in Holding \union {"dead"}
    /\ \A t \in Services : (main[t] = "claim" /\ seen[t]) => MayClaim
    /\ \A t \in Services : (Late(t) /\ lock # NoLock /\ lock.by # t) => lock.age = 0

LeaseInv == Sound => LeaseParts

\* How a holder leaves the lock
LEMMA LeavesBy ==
    ASSUME TypeOK, NEW s \in Services, Step(s), main[s] \in Holding, main'[s] \notin Holding
    PROVE  /\ beat' = beat
           /\ \/ lock' = IF Holds(s) THEN NoLock ELSE lock
              \/ lock' = lock /\ main'[s] = "dead"
<1>t. main \in [Services -> Mains] /\ outbox \in [Services -> Seq(Entries)]
  BY DEF TypeOK
<1>1. CASE Start(s) \/ Loop(s) \/ Besides(s)
  BY <1>1, <1>t DEF Start, Inspect, Claim, ClaimRefused, Loop, Announce, Holding,
            BeginTick, EndTick, Settle, Report, Failed, Sleep, EndLoop, Goto,
            Besides, Submit, Skip, RepairFails, ExecutionEnds, Signal, SignalSnapshot, WriteHealth
<1>2. CASE Ending(s)
  BY <1>2, <1>t DEF Ending, Maintain, MaintainRefused, Due, Uninstall, Drained, Release, Finish, Cleanup, EndUnchanged,
            Goto, Holding
<1>3. CASE Faults(s)
  <2>1. CASE Crash(s)
    BY <2>1, <1>t DEF Crash, files
  <2>2. CASE HealthFails(s)
    BY <2>2, <1>t DEF HealthFails, ThrownTo, Holding
  <2> QED
    BY <1>3, <2>1, <2>2, <1>t DEF Faults, TickFails, ExecutionFails, DeferHealth, Goto, Holding
<1> QED
  BY <1>1, <1>2, <1>3 DEF Step

\* The dead stay dead.
LEMMA DeadStays ==
    ASSUME TypeOK, NEW s \in Services, Step(s), main[s] = "dead", ~Late(s), ~(active[s] > 0)
    PROVE  main'[s] = "dead"
<1>t. main \in [Services -> Mains]
  BY DEF TypeOK
<1>1. CASE Start(s) \/ Loop(s) \/ Ending(s)
  BY <1>1, <1>t DEF Start, Inspect, Claim, ClaimRefused, Loop, Announce, BeginTick, EndTick, Settle, Report, Failed,
            Sleep, EndLoop, Ending, Maintain, MaintainRefused, Due, Uninstall, Drained, Release, Finish, Cleanup, Goto
<1>2. CASE Besides(s) \/ Faults(s)
  BY <1>2, <1>t DEF Besides, Submit, Skip, RepairFails, ExecutionEnds, Signal, SignalSnapshot, WriteHealth, Faults,
            Crash, TickFails, ExecutionFails, DeferHealth, HealthFails, Goto, Late
<1> QED
  BY <1>1, <1>2 DEF Step

LEMMA LeaseTick ==
    ASSUME TypeOK, LockParts, LeaseParts, Tick, Sound'
    PROVE  LeaseParts'
<1>1. /\ main' = main /\ lock' = Older(lock)
      /\ \A t \in Services : ~seen'[t] /\ (Late(t)' <=> Late(t))
  BY DEF Tick, Late, stopping
<1>2. \A t \in Services : ~Late(t)
  BY DEF Tick, Slip, Sound, Stalls, Unwritten, Late, LockParts
<1>3. lock' # NoLock => (lock # NoLock /\ lock'.by = lock.by)
  <2>1. lock \in Claims \union {NoLock}
    BY DEF TypeOK
  <2>2. lock # NoLock => Older(lock).by = lock.by
    BY <2>1, NewTypes
  <2> QED
    BY <1>1, <2>2 DEF Older
<1> QED
  BY <1>1, <1>2, <1>3 DEF LeaseParts

LEMMA LeaseStep ==
    ASSUME TypeOK, LockParts, LeaseParts, NEW s \in Services, Step(s), Sound', LockParts'
    PROVE  LeaseParts'
<1>t. /\ lock \in Claims \union {NoLock} /\ beat \in Claims \union {NoLock} /\ main \in [Services -> Mains]
      /\ StaleAfter \in Nat \ {0, 1} /\ active \in [Services -> 0..Capacity] /\ seen \in [Services -> BOOLEAN]
  BY BoundsAssumption DEF TypeOK
<1>n. New(s) # NoLock /\ New(s).by = s /\ New(s).age = 0 /\ ~Stale(New(s))
  BY <1>t, NewTypes DEF Stale
<1>o. \A t \in Services \ {s} : main'[t] = main[t] /\ (Late(t)' <=> Late(t)) /\ seen'[t] = seen[t]
  BY OthersStill
<1>p. (active[s] > 0 => main[s] # "signals") /\ (main[s] \in {"new", "claim", "dead"} => ~Late(s))
  BY DEF LockParts
<1>l. lock # NoLock => lock.by \in Services
  BY <1>t, NewTypes
<1>1. CASE main[s] \in Holding /\ main'[s] \in Holding
  <2>1. lock' \in {lock, New(s)} /\ beat' \in {beat, New(s)}
    BY <1>1, <1>p, HolderGoesOn
  <2>2. lock # NoLock /\ lock.by = s
    BY <1>1 DEF LockParts, Guarded, Holds
  <2>3. lock' # NoLock /\ lock'.by = s /\ (lock'.age = lock.age \/ lock'.age = 0)
    BY <2>1, <2>2, <1>n
  <2>4. \A t \in Services : (main'[t] = "claim" /\ seen'[t]) => ~Stale(lock')
    BY <1>1, <2>1, <1>n, <1>o DEF LockParts, Holding
  <2>5. \A t \in Services \ {s} : Late(t)' => lock'.age = 0
    BY <2>2, <2>3, <1>o DEF LeaseParts
  <2>6. \A t \in Services : (main'[t] = "claim" /\ seen'[t]) => MayClaim'
    BY <2>4 DEF MayClaim, Stale
  <2> QED
    BY <1>1, <2>3, <2>5, <2>6 DEF LeaseParts
<1>2. CASE main[s] \in Holding /\ main'[s] \notin Holding
  <2>1. lock # NoLock /\ lock.by = s /\ Holds(s)
    BY <1>2 DEF LockParts, Guarded, Holds
  <2>2. lock' = NoLock \/ (lock' = lock /\ main'[s] = "dead" /\ beat' = beat)
    BY <1>2, <2>1, LeavesBy
  <2>3. main'[s] \notin {"new", "claim"}
    BY <1>2, <1>p, HolderLeaves
  <2>4. CASE lock' = NoLock
    BY <2>4 DEF LeaseParts, MayClaim
  <2>5. CASE lock' = lock /\ main'[s] = "dead" /\ beat' = beat
    <3>1. MayClaim' <=> MayClaim
      BY <2>5 DEF MayClaim, OwnerBeats, Stale
    <3> QED
      BY <2>1, <2>3, <2>5, <3>1, <1>o DEF LeaseParts
  <2> QED
    BY <2>2, <2>4, <2>5
<1>3. CASE main[s] \notin Holding /\ main'[s] \notin Holding
  <2>1. /\ lock' = lock /\ (beat' = beat \/ (beat' = New(s) /\ Late(s)))
        /\ (Late(s)' => Late(s)) /\ (main'[s] \in {"new", "claim", "dead"} => ~Late(s)')
        /\ main'[s] = "claim" => ((seen'[s] = seen[s] /\ main[s] = "claim") \/ MayClaim)
    BY <1>3, <1>p, OutsideStays DEF LockParts
  <2>2. lock # NoLock => main'[lock.by] \in Holding \union {"dead"}
    <3> SUFFICES ASSUME lock # NoLock, lock.by = s PROVE main'[s] = "dead"
      BY <1>l, <1>o DEF LeaseParts
    <3>1. main[s] = "dead"
      BY <1>3, <1>l DEF LeaseParts
    <3> QED
      BY <3>1, <1>p, DeadStays DEF LockParts, Holding
  <2>3. MayClaim => MayClaim'
    <3>1. CASE beat' = beat
      BY <2>1, <3>1 DEF MayClaim, OwnerBeats, Stale
    <3>2. CASE beat' = New(s) /\ Late(s)
      <4>1. lock # NoLock => lock.by # s
        BY <3>2, <1>3, <1>p DEF LeaseParts
      <4> QED
        BY <2>1, <3>2, <4>1, <1>n DEF MayClaim, OwnerBeats, Stale
    <3> QED
      BY <2>1, <3>1, <3>2
  <2>4. \A t \in Services : (main'[t] = "claim" /\ seen'[t]) => MayClaim
    BY <2>1, <1>o DEF LeaseParts
  <2>5. \A t \in Services : (Late(t)' /\ lock # NoLock /\ lock.by # t) => lock.age = 0
    BY <2>1, <1>o DEF LeaseParts
  <2> QED
    BY <2>1, <2>2, <2>3, <2>4, <2>5 DEF LeaseParts
<1>4. CASE main[s] \notin Holding /\ main'[s] \in Holding
  <2>1. Claim(s)
    BY <1>4, <1>p, EntersByClaim
  <2>2. lock' = New(s)
    BY <2>1 DEF Claim
  <2>3. lock' # NoLock /\ lock'.by = s /\ lock'.age = 0 /\ ~(lock'.age = StaleAfter)
    BY <2>2, <1>n, <1>t
  <2> QED
    BY <1>4, <2>3 DEF LeaseParts, MayClaim, Stale
<1> QED
  BY <1>1, <1>2, <1>3, <1>4

LEMMA LeaseInvStep == TypeOK /\ LockInv /\ LockInv' /\ LeaseInv /\ [Next]_vars => LeaseInv'
<1> SUFFICES ASSUME TypeOK, LockInv, LockInv', LeaseInv, [Next]_vars, Sound' PROVE LeaseParts'
  BY DEF LeaseInv
<1>1. LockParts /\ LockParts' /\ LeaseParts
  BY SoundStep DEF LockInv, LeaseInv
<1>2. CASE UNCHANGED vars
  BY <1>1, <1>2 DEF vars, files, startup, stopping, LeaseParts, MayClaim, OwnerBeats, Late, Stale
<1>3. CASE Tick
  BY <1>1, <1>3, LeaseTick
<1>4. ASSUME NEW s \in Services, Step(s) PROVE LeaseParts'
  BY <1>1, <1>4, LeaseStep
<1> QED
  BY <1>2, <1>3, <1>4 DEF Next, Step

\* Whoever is between the claim and the release is the one holder, in time.
LEMMA HolderFacts ==
    ASSUME TypeOK, LockParts
    PROVE  /\ Age \in 0..StaleAfter
           /\ Holders = {s \in Services : main[s] \in Holding}
           /\ \A s \in Holders : /\ Holders = {s} /\ Tenant = {s} /\ lock # NoLock /\ lock.by = s
                                 /\ Age \in {0, 1} /\ Age # StaleAfter
           /\ LockLease!Lapsed => Holders = {}
<1>t. /\ lock \in Claims \union {NoLock} /\ beat \in Claims \union {NoLock} /\ StaleAfter \in Nat \ {0, 1}
      /\ lock # NoLock => lock.age \in 0..StaleAfter
      /\ beat # NoLock => beat.age \in 0..StaleAfter
  BY BoundsAssumption, NewTypes DEF TypeOK
<1>1. Age \in 0..StaleAfter
  BY <1>t DEF Age, OwnerBeats
<1>2. Holders = {s \in Services : main[s] \in Holding}
  BY HoldingAlive DEF Holders, LockParts, Guarded
<1>3. ASSUME NEW s \in Holders
      PROVE  /\ Holders = {s} /\ Tenant = {s} /\ lock # NoLock /\ lock.by = s
             /\ Age \in {0, 1} /\ Age # StaleAfter
  <2>1. s \in Services /\ main[s] \in Holding /\ Guarded(s) /\ Holds(s)
    BY <1>2, <1>3 DEF LockParts, Guarded
  <2>2. Holders = {s} /\ Tenant = {s} /\ lock # NoLock /\ lock.by = s
    BY <1>2, <2>1, OneHolder DEF Tenant, Holds
  <2>3. Age \in {0, 1}
    <3>1. CASE lock.age \in {0, 1}
      BY <1>t, <2>2, <3>1 DEF Age, OwnerBeats
    <3>2. CASE beat # NoLock /\ beat.by = s /\ beat.age \in {0, 1}
      <4>1. OwnerBeats
        BY <1>t, <2>2, <3>2 DEF OwnerBeats, Stale
      <4> QED
        BY <1>t, <2>2, <3>2, <4>1 DEF Age
    <3> QED
      BY <2>1, <3>1, <3>2 DEF Guarded
  <2> QED
    BY <1>t, <2>2, <2>3
<1> QED
  BY <1>1, <1>2, <1>3 DEF LockLease!Lapsed

\* A holder goes on: it renews the lease with the lock, the heartbeat, or not.
LEMMA GoesOnMaps ==
    ASSUME TypeOK, LockParts, LockParts', TypeOK', NEW s \in Services, Step(s), main[s] \in Holding, main'[s] \in Holding,
           Holders' = {t \in Services : main'[t] \in Holding}
    PROVE  LockLease!Renew(s)
<1>t. /\ lock \in Claims \union {NoLock} /\ beat \in Claims \union {NoLock} /\ StaleAfter \in Nat \ {0, 1}
      /\ lock.age \in 0..StaleAfter /\ (beat # NoLock => beat.age \in 0..StaleAfter)
      /\ New(s) # NoLock /\ New(s).by = s /\ New(s).age = 0 /\ lock # NoLock /\ lock.by = s
  BY BoundsAssumption, NewTypes DEF TypeOK, LockParts, Guarded, Holds
<1>1. s \in Holders /\ Tenant = {s} /\ Holders = {s}
  BY HolderFacts
<1>2. lock' \in {lock, New(s)} /\ beat' \in {beat, New(s)}
  BY HolderGoesOn DEF LockParts
<1>3. Tenant' = {s} /\ lock' # NoLock /\ lock'.by = s
  BY <1>2, <1>t DEF Tenant
<1>4. Holders' = {s}
  <2>1. \A t \in Services \ {s} : main'[t] = main[t]
    BY OthersStill
  <2> QED
    BY <2>1, OneHolder
<1>5. Age' \in 0..Age
  <2>1. Age \in Nat
    BY HolderFacts, <1>t
  <2>2. CASE lock' = lock /\ beat' = beat
    BY <2>1, <2>2 DEF Age, OwnerBeats, Stale
  <2>3. CASE lock' = New(s)
    <3>1. lock'.age = 0 /\ (beat' # NoLock => beat'.age \in 0..StaleAfter)
      BY <1>2, <1>t, <2>3
    <3>2. Age' = 0
      BY <1>3, <3>1 DEF Age, OwnerBeats
    <3> QED
      BY <2>1, <3>2
  <2>4. CASE lock' = lock /\ beat' = New(s)
    <3>1. OwnerBeats'
      BY <1>t, <2>4 DEF OwnerBeats, Stale
    <3>2. Age' = 0
      BY <1>t, <2>4, <3>1 DEF Age
    <3> QED
      BY <2>1, <3>2
  <2> QED
    BY <1>2, <2>2, <2>3, <2>4
<1> QED
  BY <1>1, <1>3, <1>4, <1>5 DEF LockLease!Renew

\* A holder leaves: it gives the lease back, or dies and leaves it behind.
LEMMA LeavesMaps ==
    ASSUME TypeOK, LockParts, NEW s \in Services, Step(s), main[s] \in Holding, main'[s] \notin Holding,
           Holders' = {t \in Services : main'[t] \in Holding}
    PROVE  LockLease!GiveBack(s) \/ LockLease!Abandon(s)
<1>1. s \in Holders /\ Tenant = {s} /\ Holders = {s} /\ Holds(s)
  BY HolderFacts DEF Holders
<1>2. Holders' = {}
  <2>1. \A t \in Services \ {s} : main'[t] = main[t]
    BY OthersStill
  <2> QED
    BY <2>1, OneHolder
<1>3. beat' = beat /\ (lock' = NoLock \/ lock' = lock)
  BY <1>1, LeavesBy
<1>4. CASE lock' = NoLock
  BY <1>1, <1>2, <1>4 DEF LockLease!GiveBack, Tenant, Age
<1>5. CASE lock' = lock
  <2>1. Tenant' = Tenant /\ Age' = Age
    BY <1>3, <1>5 DEF Tenant, Age, OwnerBeats, Stale
  <2> QED
    BY <1>1, <1>2, <2>1 DEF LockLease!Abandon
<1> QED
  BY <1>3, <1>4, <1>5

\* A service outside leaves the lease alone: what it still writes hides the
\* heartbeat of the owner only while the lock is new.
LEMMA OutsideMaps ==
    ASSUME TypeOK, LockParts, LeaseParts, NEW s \in Services, Step(s), main[s] \notin Holding, main'[s] \notin Holding,
           Holders' = {t \in Services : main'[t] \in Holding}
    PROVE  Tenant' = Tenant /\ Age' = Age /\ Holders' = Holders
<1>t. /\ lock \in Claims \union {NoLock} /\ beat \in Claims \union {NoLock} /\ StaleAfter \in Nat \ {0, 1}
      /\ lock # NoLock => lock.by \in Services
      /\ beat # NoLock => beat.age \in 0..StaleAfter
      /\ New(s) # NoLock /\ New(s).by = s
  BY BoundsAssumption, NewTypes DEF TypeOK
<1>1. lock' = lock /\ (beat' = beat \/ (beat' = New(s) /\ Late(s)))
  BY OutsideStays DEF LockParts, Holding
<1>2. Tenant' = Tenant
  BY <1>1 DEF Tenant
<1>3. Holders' = Holders
  <2>1. \A t \in Services \ {s} : main'[t] = main[t]
    BY OthersStill
  <2> QED
    BY <2>1, HolderFacts
<1>4. Age' = Age
  <2>1. CASE beat' = beat
    BY <1>1, <2>1 DEF Age, OwnerBeats, Stale
  <2>2. CASE beat' = New(s) /\ Late(s) /\ lock # NoLock
    <3>1. lock.by # s
      BY <2>2, <1>t DEF LockParts, LeaseParts
    <3>2. lock.age = 0
      BY <2>2, <3>1 DEF LeaseParts
    <3>3. ~OwnerBeats'
      BY <1>1, <1>t, <2>2, <3>1 DEF OwnerBeats
    <3>4. Age' = 0
      BY <1>1, <2>2, <3>2, <3>3 DEF Age
    <3>5. Age = 0
      BY <1>t, <2>2, <3>2 DEF Age, OwnerBeats
    <3> QED
      BY <3>4, <3>5
  <2>3. CASE lock = NoLock
    BY <1>1, <2>3 DEF Age
  <2> QED
    BY <1>1, <2>1, <2>2, <2>3
<1> QED
  BY <1>2, <1>3, <1>4

\* A claim in time finds no lock, or one that is stale and whose owner does
\* not beat.
LEMMA ClaimMaps ==
    ASSUME TypeOK, LockParts, LeaseParts, Sound', NEW s \in Services, Step(s), main[s] \notin Holding, main'[s] \in Holding,
           Holders' = {t \in Services : main'[t] \in Holding}
    PROVE  LockLease!Grant(s)
<1>t. /\ beat \in Claims \union {NoLock} /\ StaleAfter \in Nat \ {0, 1} /\ main \in [Services -> Mains]
      /\ beat # NoLock => beat.age \in 0..StaleAfter
      /\ New(s) # NoLock /\ New(s).by = s /\ New(s).age = 0
  BY BoundsAssumption, NewTypes DEF TypeOK
<1>1. Claim(s)
  BY EntersByClaim DEF LockParts
<1>2. /\ lock' = New(s) /\ beat' = beat /\ main[s] = "claim" /\ seen[s] /\ ~LockGoesOn
  BY <1>1 DEF Claim, Goto, StartUnchanged, Slip, Sound, OutOfDate
<1>3. MayClaim
  BY <1>2 DEF LeaseParts
<1>4. LockLease!Lapsed
  <2>1. CASE lock = NoLock
    BY <2>1 DEF LockLease!Lapsed, Tenant
  <2>2. CASE lock # NoLock
    <3>1. Stale(lock) /\ ~OwnerBeats
      BY <1>2, <1>3, <2>2 DEF LockGoesOn, MayClaim
    <3> QED
      BY <2>2, <3>1 DEF LockLease!Lapsed, Age, Stale
  <2> QED
    BY <2>1, <2>2
<1>5. Holders' = {s}
  <2>1. \A t \in Services \ {s} : main'[t] = main[t]
    BY OthersStill
  <2> QED
    BY <2>1, <1>4, HolderFacts
<1>6. Tenant' = {s} /\ Age' = 0
  <2>1. lock' # NoLock /\ lock'.by = s /\ lock'.age = 0
    BY <1>2, <1>t
  <2> QED
    BY <1>2, <1>t, <2>1 DEF Tenant, Age, OwnerBeats
<1> QED
  BY <1>4, <1>5, <1>6, <1>t DEF LockLease!Grant, LockLease!Unlapsed

\* Time ages the lock and the heartbeat, and the lease with them; a holder
\* has written one of them in the unit that passes.
LEMMA TickMaps ==
    ASSUME TypeOK, LockParts, Tick, Sound, Sound', Holders' = {t \in Services : main'[t] \in Holding}
    PROVE  [LockLease!Next]_(LockLease!vars)
<1>t. /\ lock \in Claims \union {NoLock} /\ beat \in Claims \union {NoLock} /\ StaleAfter \in Nat \ {0, 1}
      /\ lock # NoLock => lock.age \in 0..StaleAfter
      /\ beat # NoLock => beat.age \in 0..StaleAfter
  BY BoundsAssumption, NewTypes DEF TypeOK
<1>1. lock' = Older(lock) /\ beat' = Older(beat) /\ main' = main
  BY DEF Tick
<1>o. \A f \in Claims \union {NoLock} :
        /\ Older(f) = NoLock <=> f = NoLock
        /\ f # NoLock => /\ Older(f).by = f.by
                         /\ Older(f).age = IF f.age = StaleAfter THEN StaleAfter ELSE f.age + 1
  <2> SUFFICES ASSUME NEW f \in Claims
               PROVE  /\ Older(f) # NoLock /\ f # NoLock /\ Older(f).by = f.by
                      /\ Older(f).age = IF f.age = StaleAfter THEN StaleAfter ELSE f.age + 1
    BY NewTypes DEF Older
  <2> QED
    BY NewTypes DEF Older, Stale, Claims
<1>2. /\ lock' # NoLock <=> lock # NoLock
      /\ lock # NoLock => /\ lock'.by = lock.by
                          /\ lock'.age = IF lock.age = StaleAfter THEN StaleAfter ELSE lock.age + 1
      /\ beat' # NoLock <=> beat # NoLock
      /\ beat # NoLock => /\ beat'.by = beat.by
                          /\ beat'.age = IF beat.age = StaleAfter THEN StaleAfter ELSE beat.age + 1
  BY <1>1, <1>o, <1>t
<1>3. Tenant' = Tenant
  BY <1>2 DEF Tenant
<1>4. Holders' = Holders
  BY <1>1, HolderFacts
<1>5. CASE LockLease!Lapsed
  <2>1. Age' = Age
    <3>1. CASE lock = NoLock
      BY <1>2, <3>1 DEF Age
    <3>2. CASE lock # NoLock
      <4>1. Age = StaleAfter
        BY <1>5, <3>2 DEF LockLease!Lapsed, Tenant
      <4>2. ~OwnerBeats /\ lock.age = StaleAfter
        BY <1>t, <3>2, <4>1 DEF Age, OwnerBeats, Stale
      <4>3. ~OwnerBeats'
        BY <1>2, <1>t, <3>2, <4>2 DEF OwnerBeats, Stale
      <4> QED
        BY <1>2, <3>2, <4>1, <4>2, <4>3 DEF Age
    <3> QED
      BY <3>1, <3>2
  <2> QED
    BY <1>3, <1>4, <2>1 DEF LockLease!vars, Sound
<1>6. CASE ~LockLease!Lapsed
  <2>1. lock # NoLock /\ Age # StaleAfter
    BY <1>6 DEF LockLease!Lapsed, Tenant
  <2>2. Age' = Age + 1
    <3>1. CASE ~OwnerBeats
      <4>1. ~OwnerBeats' /\ Age = lock.age
        BY <1>2, <1>t, <2>1, <3>1 DEF OwnerBeats, Stale, Age
      <4>2. Age' = lock'.age
        BY <1>2, <2>1, <4>1 DEF Age
      <4> QED
        BY <1>2, <2>1, <4>1, <4>2
    <3>2. CASE OwnerBeats
      <4>1. /\ beat # NoLock /\ beat.by = lock.by /\ beat.age # StaleAfter
            /\ beat'.by = lock'.by /\ beat'.age = beat.age + 1 /\ beat' # NoLock /\ lock' # NoLock
        BY <1>2, <2>1, <3>2 DEF OwnerBeats, Stale
      <4>2. CASE beat.age < lock.age
        <5>1. Age = beat.age
          BY <2>1, <3>2, <4>2 DEF Age
        <5>2. CASE beat.age + 1 = StaleAfter
          <6>1. ~OwnerBeats' /\ lock.age = StaleAfter
            BY <1>t, <2>1, <4>1, <4>2, <5>2 DEF OwnerBeats, Stale
          <6> QED
            BY <1>2, <2>1, <4>1, <5>1, <5>2, <6>1 DEF Age
        <5>3. CASE beat.age + 1 # StaleAfter
          <6>1. OwnerBeats'
            BY <4>1, <5>3 DEF OwnerBeats, Stale
          <6>2. beat'.age < lock'.age
            BY <1>2, <1>t, <2>1, <4>1, <4>2, <5>3
          <6> QED
            BY <4>1, <5>1, <6>1, <6>2 DEF Age
        <5> QED
          BY <5>2, <5>3
      <4>3. CASE ~(beat.age < lock.age)
        <5>1. Age = lock.age /\ lock.age # StaleAfter
          BY <2>1, <4>3 DEF Age
        <5>2. lock'.age = lock.age + 1 /\ ~(beat'.age < lock'.age)
          BY <1>2, <1>t, <2>1, <4>1, <4>3, <5>1
        <5> QED
          BY <4>1, <5>1, <5>2 DEF Age
      <4> QED
        BY <4>2, <4>3
    <3> QED
      BY <3>1, <3>2
  <2>3. \A s \in Holders : Age = 0
    <3> SUFFICES ASSUME NEW s \in Holders PROVE Age = 0
      OBVIOUS
    <3>1. s \in Services /\ main[s] \in Holding /\ lock.by = s
      BY HolderFacts
    <3>2. Fresh(s)
      BY <3>1 DEF Tick, Slip, Sound, Stalls, Running, Before, Ended, Holding
    <3>3. New(s) # NoLock /\ New(s).by = s /\ New(s).age = 0
      BY <3>1, NewTypes
    <3>4. CASE lock = New(s)
      BY <1>t, <2>1, <3>3, <3>4 DEF Age, OwnerBeats
    <3>5. CASE beat = New(s)
      <4>1. OwnerBeats
        BY <1>t, <3>1, <3>3, <3>5 DEF OwnerBeats, Stale
      <4> QED
        BY <1>t, <2>1, <3>3, <3>5, <4>1 DEF Age
    <3> QED
      BY <3>2, <3>4, <3>5 DEF Fresh
  <2>4. Holders' = IF Age' = StaleAfter THEN {} ELSE Holders
    BY <1>4, <1>t, <2>2, <2>3
  <2> QED
    BY <1>3, <1>6, <2>2, <2>4 DEF Sound, LockLease!Next, LockLease!Kept, LockLease!Pass, LockLease!Unlapsed
<1> QED
  BY <1>5, <1>6

\* Every step of the watch services is a step of the lease, or leaves it alone.
LEMMA StepMaps ==
    ASSUME TypeOK, TypeOK', LockInv, LockInv', LeaseInv, [Next]_vars
    PROVE  [LockLease!Next]_(LockLease!vars)
<1>1. CASE ~Sound'
  BY <1>1 DEF LockLease!Next, Sound
<1>2. CASE Sound'
  <2>1. Sound /\ LockParts /\ LockParts' /\ LeaseParts
    BY <1>2, SoundStep DEF LockInv, LeaseInv
  <2>2. Holders' = {t \in Services : main'[t] \in Holding}
    <3>1. ASSUME NEW t \in Services PROVE Alive(t)' <=> main'[t] \in Holding
      BY DEF TypeOK, Alive, Mains, Before, Ended, Holding
    <3> QED
      BY <2>1, <3>1 DEF Holders, LockParts, Guarded
  <2>3. CASE UNCHANGED vars
    BY <2>1, <2>2, <2>3, HolderFacts DEF vars, files, Tenant, Age, OwnerBeats, Stale, LockLease!vars, Sound
  <2>4. CASE Tick
    BY <1>2, <2>1, <2>2, <2>4, TickMaps
  <2>5. ASSUME NEW s \in Services, Step(s) PROVE [LockLease!Next]_(LockLease!vars)
    <3>1. ASSUME LockLease!Renew(s) \/ LockLease!GiveBack(s) \/ LockLease!Abandon(s) \/ LockLease!Grant(s)
          PROVE  LockLease!Next
      BY <1>2, <2>1, <3>1 DEF LockLease!Next, LockLease!Kept, Sound
    <3>2. CASE main[s] \in Holding /\ main'[s] \in Holding
      BY <2>1, <2>2, <2>5, <3>1, <3>2, GoesOnMaps
    <3>3. CASE main[s] \in Holding /\ main'[s] \notin Holding
      BY <2>1, <2>2, <2>5, <3>1, <3>3, LeavesMaps
    <3>4. CASE main[s] \notin Holding /\ main'[s] \notin Holding
      <4>1. Tenant' = Tenant /\ Age' = Age /\ Holders' = Holders
        BY <2>1, <2>2, <2>5, <3>4, OutsideMaps
      <4> QED
        BY <1>2, <2>1, <4>1 DEF LockLease!vars, Sound
    <3>5. CASE main[s] \notin Holding /\ main'[s] \in Holding
      BY <1>2, <2>1, <2>2, <2>5, <3>1, <3>5, ClaimMaps
    <3> QED
      BY <3>2, <3>3, <3>4, <3>5
  <2> QED
    BY <2>3, <2>4, <2>5 DEF Next, Step
<1> QED
  BY <1>1, <1>2

\* The kernel lock and the heartbeat of the watch services implement the
\* lease, for any number of services: unless one stalls, abandons executions
\* or claims on an outdated inspection, the lock is claimed only when it is
\* gone or when both files are stale, its holder alone renews it and gives it
\* back, and a lock left by a dead service has to lapse.
THEOREM Implementation == Spec => LeaseKept
<1>1. Init => LockLease!Init /\ LeaseInv
  <2> SUFFICES ASSUME Init PROVE LockLease!Init /\ LeaseInv
    OBVIOUS
  <2>1. Holders = {}
    BY DEF Init, Holders, Holds
  <2> QED
    BY <2>1 DEF Init, LockLease!Init, Tenant, Age, LeaseInv, LeaseParts
<1>2. TypeOK /\ LockInv /\ LockInv' /\ LeaseInv /\ [Next]_vars => LeaseInv'
  BY LeaseInvStep
<1>3. TypeOK /\ TypeOK' /\ LockInv /\ LockInv' /\ LeaseInv /\ [Next]_vars => [LockLease!Next]_(LockLease!vars)
  BY StepMaps
<1> QED
  BY <1>1, <1>2, <1>3, TypeInit, TypeStep, LockInit, LockInvStep, PTL DEF Spec, LeaseKept, LockLease!Spec

\* The lock of a service that is alive has not lapsed: one of its two files
\* is fresher than the age at which others may claim.  This is what the lease
\* promises.
THEOREM HolderInTime == Spec => []LockLease!HolderIsTenant
<1>1. StaleAfter \in Nat \ {0}
  BY BoundsAssumption
<1>2. LockLease!Spec => []LockLease!HolderIsTenant
  BY <1>1, LockLease!AtMostOneHolder
<1> QED
  BY <1>2, Implementation, PTL DEF LeaseKept
================================================================================
