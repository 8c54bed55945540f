---------------------------- MODULE JobClaimsProofs ----------------------------
(***************************************************************************)
(* Proofs about JobClaims, for every set of claimers, every staleness and  *)
(* every bound.                                                            *)
(***************************************************************************)
EXTENDS JobClaims, TLAPS

\* What a claimer writes is a claim.
LEMMA MineIsClaim ==
    ASSUME TypeOK, NEW c \in Claimers
    PROVE  Mine(c) \in Claims /\ Mine(c) # NoFile /\ Mine(c).by = c /\ Mine(c).at = me[c].at
BY ClaimersAssumption DEF TypeOK, Mine, Claims, Locals

LEMMA ResetIsLocal == Idle \in Locals /\ Dead \in Locals
BY BoundsAssumption DEF Idle, Dead, Locals, Steps

\* A step of a claimer's program keeps the type of its locals.
LEMMA GotoType ==
    ASSUME me \in [Claimers -> Locals], NEW c \in Claimers, NEW from, NEW to \in Steps, Goto(c, from, to)
    PROVE  me' \in [Claimers -> Locals]
<1>1. [me[c] EXCEPT !.pc = to] \in Locals
  BY DEF Locals
<1> QED
  BY <1>1, ResetIsLocal DEF Goto, AfterCall, Dead

LEMMA BeginType ==
    ASSUME put \in [Writers -> Puts], NEW w \in Writers, NEW to \in {"ready", "active", "paused", "ended"},
           Begin(w, to), slips \subseteq {"overdue", "guard", "overlap"}
    PROVE  put' \in [Writers -> Puts] /\ slips' \subseteq {"overdue", "guard", "overlap"}
<1>1. [step |-> FirstStep(to), to |-> to] \in Puts
  BY DEF Puts, FirstStep
<1> QED
  BY <1>1 DEF Begin

\* On the way to another attempt there is one left.
Retrying == {"retry", "guard", "readGuard", "dropGuard", "recheck", "dropClaim", "recreate", "reinspect",
             "unguardHeld", "unguardLost", "unguardRefused"}

AttemptsLeft == \A c \in Claimers : me[c].pc \in Retrying => me[c].attempt < MaxAttempts

TypeInv == TypeOK /\ AttemptsLeft

LEMMA TypeInit == Init => TypeInv
<1> SUFFICES ASSUME Init PROVE TypeInv
  OBVIOUS
<1>1. [Idle EXCEPT !.pc = "start"] \in Locals
  BY BoundsAssumption DEF Idle, Locals, Steps
<1>2. TypeOK
  <2>1. me \in [Claimers -> Locals]
    BY <1>1, ResetIsLocal DEF Init
  <2>2. NoPut \in Puts
    BY DEF Puts
  <2>3. put \in [Writers -> Puts]
    BY <2>2 DEF Init
  <2>4. clock \in 0..MaxClock /\ signals \in 0..MaxSignals /\ crashes \in 0..MaxCrashes
    BY BoundsAssumption DEF Init
  <2>5. service \in Claimers \union {NoClaimer} /\ readied \in Nat /\ granted \in Nat
    BY ClaimersAssumption DEF Init
  <2>6. job = "admitted" /\ ref = FALSE /\ queue = "absent" /\ claim = NoFile /\ guard = NoFile /\ slips = {}
    BY DEF Init
  <2> QED
    BY <2>1, <2>3, <2>4, <2>5, <2>6 DEF TypeOK
<1>3. AttemptsLeft
  BY DEF Init, AttemptsLeft, Idle, Retrying
<1> QED
  BY <1>2, <1>3 DEF TypeInv

\* The locals of a claimer change only by its own step.
LEMMA TypeStep == TypeInv /\ [Next]_vars => TypeInv'
<1> SUFFICES ASSUME TypeInv, [Next]_vars PROVE TypeInv'
  OBVIOUS
<1>t. TypeOK /\ AttemptsLeft
  BY DEF TypeInv
<1>f. /\ clock \in 0..MaxClock /\ claim \in Claims \union {NoFile} /\ guard \in Claims \union {NoFile}
      /\ me \in [Claimers -> Locals] /\ put \in [Writers -> Puts]
      /\ slips \subseteq {"overdue", "guard", "overlap"}
  BY <1>t DEF TypeOK
<1>m. \A c \in Claimers : Mine(c) \in Claims
  BY <1>t, MineIsClaim
<1>1. CASE Admit
  <2>1. Host \in Writers
    BY DEF Writers
  <2>2. put' \in [Writers -> Puts] /\ slips' \subseteq {"overdue", "guard", "overlap"}
    BY <1>1, <1>f, <2>1, BeginType DEF Admit
  <2> QED
    BY <1>1, <1>t, <2>2 DEF Admit, TypeInv, TypeOK, AttemptsLeft, record, files, bounds, history
<1>2. CASE ApplySignal
  <2>1. Host \in Writers
    BY DEF Writers
  <2>2. PICK to \in SignalResults(job) : Begin(Host, to)
    BY <1>2 DEF ApplySignal
  <2>3. to \in {"ready", "active", "paused", "ended"}
    BY <2>2 DEF SignalResults
  <2>4. put' \in [Writers -> Puts] /\ slips' \subseteq {"overdue", "guard", "overlap"}
    BY <1>f, <2>1, <2>2, <2>3, BeginType
  <2>5. signals' \in 0..MaxSignals
    BY <1>2, <1>t, BoundsAssumption DEF ApplySignal, TypeOK
  <2> QED
    BY <1>2, <1>t, <2>4, <2>5 DEF ApplySignal, TypeInv, TypeOK, AttemptsLeft, record, files, history
<1>3. CASE Tick
  BY <1>3, <1>t, BoundsAssumption DEF Tick, TypeInv, TypeOK, AttemptsLeft, record, files, bounds, history
<1>4. ASSUME NEW w \in Writers, Persist(w) PROVE TypeInv'
  <2>1. CASE AddReference(w)
    <3>1. [put[w] EXCEPT !.step = "snapshot"] \in Puts
      BY <2>1, <1>f DEF AddReference, Puts, NoPut
    <3> QED
      BY <2>1, <1>t, <3>1 DEF AddReference, TypeInv, TypeOK, AttemptsLeft, files, bounds, history
  <2>2. CASE WriteSnapshot(w)
    <3>1. put[w].to \in {"ready", "active", "paused", "ended"}
      BY <2>2, <1>f DEF WriteSnapshot, Puts, NoPut
    <3>2. [step |-> "obsolete", to |-> put[w].to] \in Puts /\ NoPut \in Puts
      BY <3>1 DEF Puts
    <3>3. put' \in [Writers -> Puts]
      BY <2>2, <1>f, <3>2 DEF WriteSnapshot
    <3>4. slips' \subseteq {"overdue", "guard", "overlap"}
      BY <2>2, <1>f DEF WriteSnapshot, Slip
    <3>5. readied' \in Nat /\ granted' \in Nat
      BY <2>2, <1>t DEF WriteSnapshot, TypeOK
    <3> QED
      BY <2>2, <1>t, <3>1, <3>3, <3>4, <3>5 DEF WriteSnapshot, TypeInv, TypeOK, AttemptsLeft, files, bounds
  <2>3. CASE DropReference(w)
    <3>1. NoPut \in Puts
      BY DEF Puts
    <3> QED
      BY <2>3, <1>t, <3>1 DEF DropReference, TypeInv, TypeOK, AttemptsLeft, files, bounds, history
  <2> QED
    BY <1>4, <2>1, <2>2, <2>3 DEF Persist
<1>5. ASSUME NEW c \in Claimers, StartClaim(c) PROVE TypeInv'
  <2>1. Begun(clock) \in Locals
    BY <1>f, BoundsAssumption DEF Begun, Locals, Steps
  <2>2. me' \in [Claimers -> Locals]
    BY <1>5, <1>f, <2>1 DEF StartClaim
  <2>3. AttemptsLeft'
    BY <1>5, <1>f, <1>t DEF StartClaim, AttemptsLeft, Retrying, Begun
  <2> QED
    BY <1>5, <1>t, <2>2, <2>3 DEF StartClaim, ClaimUnchanged, TypeInv, TypeOK, record, files, bounds, history
<1>6. ASSUME NEW c \in Claimers, Acquire(c) PROVE TypeInv'
  <2> DEFINE Attempts == me' \in [Claimers -> Locals] /\ AttemptsLeft'
  <2>r. CASE Retry(c)
    <3>1. [me[c] EXCEPT !.pc = "create", !.attempt = @ + 1] \in Locals
      BY <2>r, <1>f, <1>t, BoundsAssumption DEF Retry, Locals, Steps, AttemptsLeft, Retrying
    <3>2. me' = [me EXCEPT ![c] = [me[c] EXCEPT !.pc = "create", !.attempt = @ + 1]]
      BY <2>r, <1>f DEF Retry, Locals
    <3>3. Attempts
      BY <1>f, <1>t, <3>1, <3>2 DEF AttemptsLeft, Retrying, Locals
    <3> HIDE DEF Attempts
    <3> QED
      BY <2>r, <1>t, <3>3 DEF Retry, Attempts, ClaimUnchanged, TypeInv, TypeOK, record, files, bounds, history
  <2>s. CASE InspectStale(c)
    <3>1. [me[c] EXCEPT !.pc = "guard", !.seen = claim] \in Locals
      BY <1>f DEF Locals, Steps
    <3>2. me' = [me EXCEPT ![c] = [me[c] EXCEPT !.pc = "guard", !.seen = claim]]
      BY <2>s, <1>f DEF InspectStale, Locals
    <3>l. me[c].attempt # MaxAttempts /\ me[c].attempt \in 0..MaxAttempts
      BY <2>s, <1>f DEF InspectStale, Recover, LastAttempt, Locals
    <3>m. me[c].attempt < MaxAttempts
      BY <3>l, BoundsAssumption
    <3>3. Attempts
      BY <1>f, <1>t, <3>1, <3>2, <3>m DEF AttemptsLeft, Retrying, Locals
    <3> HIDE DEF Attempts
    <3> QED
      BY <2>s, <1>t, <3>3 DEF InspectStale, Attempts, ClaimUnchanged, TypeInv, TypeOK, record, files, bounds, history
  <2>k. CASE Recheck(c)
    <3> DEFINE l == [me[c] EXCEPT !.pc = IF StillStale(c) THEN "dropClaim" ELSE "recreate", !.seen = NoFile]
    <3>1. l \in Locals
      BY <1>f DEF Locals, Steps
    <3>2. me' = [me EXCEPT ![c] = l]
      BY <2>k, <1>f DEF Recheck, Locals
    <3>3. Attempts
      BY <2>k, <1>f, <1>t, <3>1, <3>2 DEF Recheck, AttemptsLeft, Retrying, Locals
    <3> QED
      BY <2>k, <1>t, <3>3 DEF Recheck, ClaimUnchanged, TypeInv, TypeOK, record, files, bounds, history
  <2>g. ASSUME NEW from \in Steps, NEW to \in Steps, Goto(c, from, to),
               to \in Retrying => from \in Retrying \/ me[c].attempt < MaxAttempts
        PROVE  Attempts
    <3>1. me' \in [Claimers -> Locals]
      BY <1>f, <2>g, GotoType
    <3>2. AttemptsLeft'
      BY <1>f, <1>t, <2>g DEF Goto, AfterCall, Dead, AttemptsLeft, Locals, Idle, Retrying
    <3> QED
      BY <3>1, <3>2
  <2> DEFINE Others == UNCHANGED <<clock, record, service, bounds, history, put>>
                       /\ claim' \in Claims \union {NoFile} /\ guard' \in Claims \union {NoFile}
                       /\ slips' \subseteq {"overdue", "guard", "overlap"}
  <2>q. Attempts /\ Others => TypeInv'
    BY <1>t DEF TypeInv, TypeOK, record, bounds, history
  <2> HIDE DEF Attempts
  <2>1. CASE Create(c)
    BY <2>1, <2>g, <2>q, <1>f, <1>m DEF Create, ClaimUnchanged, Steps, Retrying
  <2>2. CASE CreateExists(c)
    BY <2>2, <2>g, <2>q, <1>f DEF CreateExists, ClaimOnlyPc, ClaimUnchanged, files, Steps, Retrying
  <2>3. CASE InspectGone(c)
    <3>1. me[c].attempt # MaxAttempts => me[c].attempt < MaxAttempts
      <4>1. me[c] \in Locals
        BY <1>f
      <4>2. me[c].attempt \in 0..MaxAttempts
        BY <4>1 DEF Locals
      <4>3. MaxAttempts \in Nat
        BY BoundsAssumption
      <4> QED
        BY <4>2, <4>3
    <3> QED
      BY <2>3, <2>g, <2>q, <1>f, <3>1 DEF InspectGone, ClaimOnlyPc, ClaimUnchanged, files, Steps, Retrying, LastAttempt
  <2>4. CASE InspectRefused(c)
    BY <2>4, <2>g, <2>q, <1>f DEF InspectRefused, ClaimOnlyPc, ClaimUnchanged, files, Steps, Retrying
  <2>5. CASE CreateGuard(c)
    BY <2>5, <2>g, <2>q, <1>f, <1>m DEF CreateGuard, ClaimUnchanged, Steps, Retrying
  <2>6. CASE GuardExists(c)
    BY <2>6, <2>g, <2>q, <1>f DEF GuardExists, ClaimOnlyPc, ClaimUnchanged, files, Steps, Retrying
  <2>7. CASE ReadGuard(c)
    BY <2>7, <2>g, <2>q, <1>f DEF ReadGuard, ClaimOnlyPc, ClaimUnchanged, files, Steps, Retrying
  <2>8. CASE DropGuard(c)
    BY <2>8, <2>g, <2>q, <1>f DEF DropGuard, ClaimUnchanged, Steps, Retrying
  <2>9. CASE DropClaim(c)
    BY <2>9, <2>g, <2>q, <1>f DEF DropClaim, ClaimUnchanged, Slip, Steps, Retrying
  <2>10. CASE Recreate(c)
    BY <2>10, <2>g, <2>q, <1>f, <1>m DEF Recreate, ClaimUnchanged, Steps, Retrying
  <2>11. CASE RecreateExists(c)
    BY <2>11, <2>g, <2>q, <1>f DEF RecreateExists, ClaimOnlyPc, ClaimUnchanged, files, Steps, Retrying
  <2>12. CASE Reinspect(c)
    BY <2>12, <2>g, <2>q, <1>f DEF Reinspect, ClaimOnlyPc, ClaimUnchanged, files, Steps, Retrying
  <2>13. CASE Unguard(c)
    BY <2>13, <2>g, <2>q, <1>f DEF Unguard, ClaimUnchanged, Slip, Steps, Retrying
  <2> QED
    BY <1>6, <2>r, <2>s, <2>k, <2>1, <2>2, <2>3, <2>4, <2>5, <2>6, <2>7, <2>8, <2>9, <2>10,
       <2>11, <2>12, <2>13 DEF Acquire
<1>7. ASSUME NEW c \in Claimers, Hold(c) \/ Reconcile(c) \/ Restart(c) PROVE TypeInv'
  <2>g. ASSUME NEW from \in Steps, NEW to \in Steps \ Retrying, Goto(c, from, to)
        PROVE  me' \in [Claimers -> Locals] /\ AttemptsLeft'
    <3>1. me' \in [Claimers -> Locals]
      BY <1>f, <2>g, GotoType
    <3>2. AttemptsLeft'
      BY <1>f, <1>t, <2>g DEF Goto, AfterCall, Dead, AttemptsLeft, Locals, Idle, Retrying
    <3> QED
      BY <3>1, <3>2
  <2>1. CASE LoadReady(c)
    <3>1. c \in Writers
      BY DEF Writers
    <3>2. put' \in [Writers -> Puts] /\ slips' \subseteq {"overdue", "guard", "overlap"}
      BY <2>1, <1>f, <3>1, BeginType DEF LoadReady
    <3>3. me' \in [Claimers -> Locals] /\ AttemptsLeft'
      BY <2>1, <2>g DEF LoadReady, Steps, Retrying
    <3> QED
      BY <2>1, <1>t, <3>2, <3>3 DEF LoadReady, ClaimUnchanged, TypeInv, TypeOK, record, files, bounds, history
  <2>2. CASE LoadOther(c) \/ Persisted(c) \/ ReadOwn(c)
    <3>1. me' \in [Claimers -> Locals] /\ AttemptsLeft'
      BY <2>2, <2>g DEF LoadOther, Persisted, ReadOwn, Steps, Retrying
    <3> QED
      BY <2>2, <1>t, <3>1 DEF LoadOther, Persisted, ReadOwn, ClaimOnlyPc, ClaimUnchanged, TypeInv, TypeOK,
                              record, files, bounds, history
  <2>3. CASE DropOwn(c)
    <3>1. me' \in [Claimers -> Locals] /\ AttemptsLeft'
      BY <2>3, <2>g DEF DropOwn, Steps, Retrying
    <3> QED
      BY <2>3, <1>t, <3>1 DEF DropOwn, ClaimUnchanged, Slip, TypeInv, TypeOK, record, bounds, history
  <2>4. CASE Reconcile(c)
    <3>1. me' \in [Claimers -> Locals] /\ AttemptsLeft'
      BY <2>4, <2>g DEF Reconcile, BeginReconcile, Scan, Index, Publish, Steps, Retrying
    <3> QED
      BY <2>4, <1>t, <3>1 DEF Reconcile, BeginReconcile, Scan, Index, Publish, Reconciling, TypeInv, TypeOK,
                              files, bounds, history
  <2>5. CASE Restart(c)
    <3>1. me' \in [Claimers -> Locals] /\ AttemptsLeft'
      BY <2>5, <2>g DEF Restart, Steps, Retrying
    <3> QED
      BY <2>5, <1>t, <3>1 DEF Restart, TypeInv, TypeOK, record, files, bounds, history
  <2> QED
    BY <1>7, <2>1, <2>2, <2>3, <2>4, <2>5 DEF Hold
<1>8. ASSUME NEW c \in Claimers, Crash(c) PROVE TypeInv'
  <2>1. NoPut \in Puts
    BY DEF Puts
  <2>2. me' \in [Claimers -> Locals] /\ put' \in [Writers -> Puts]
    BY <1>8, <1>f, <2>1, ResetIsLocal DEF Crash
  <2>3. crashes' \in 0..MaxCrashes
    BY <1>8, <1>t, BoundsAssumption DEF Crash, TypeOK
  <2>4. AttemptsLeft'
    BY <1>8, <1>f, <1>t DEF Crash, AttemptsLeft, Dead, Idle, Retrying
  <2> QED
    BY <1>8, <1>t, <2>2, <2>3, <2>4 DEF Crash, TypeInv, TypeOK, record, files, history
<1>9. CASE UNCHANGED vars
  BY <1>9, <1>t DEF vars, TypeInv, TypeOK, AttemptsLeft, record, files, bounds, history
<1> QED
  BY <1>1, <1>2, <1>3, <1>4, <1>5, <1>6, <1>7, <1>8, <1>9 DEF Next

\* Every variable keeps its type, whoever writes and dies in between.
THEOREM TypeCorrect == Spec => []TypeOK
<1>1. TypeInv => TypeOK
  BY DEF TypeInv
<1> QED
  BY <1>1, TypeInit, TypeStep, PTL DEF Spec

-------------------------------------------------------------------------------
(* A ready job is listed.                                                  *)

\* Without an overlap one writer is at work at a time.
OneWriter ==
    "overlap" \notin slips =>
        \A v, w \in Writers : put[v] # NoPut /\ put[w] # NoPut => v = w

\* The reference is there before the snapshot says ready, and is dropped
\* after the snapshot says something else.
ReferenceFirst ==
    "overlap" \notin slips =>
        /\ job = "ready" => ref
        /\ \A w \in Writers :
              /\ put[w].step = "snapshot" /\ put[w].to = "ready" => ref
              /\ put[w].step = "obsolete" => job # "ready"

QueueInv == OneWriter /\ ReferenceFirst

\* Steps that write neither the job nor its reference away
Quiet == UNCHANGED <<put, job, readied, granted>> /\ (ref => ref') /\ slips \subseteq slips'

\* All other steps are those of the writers.
LEMMA StepKinds ==
    [Next]_vars => \/ Quiet \/ Admit \/ ApplySignal
                   \/ \E w \in Writers : Persist(w)
                   \/ \E c \in Claimers : LoadReady(c) \/ Crash(c)
<1> SUFFICES ASSUME [Next]_vars PROVE Quiet \/ Admit \/ ApplySignal
                   \/ (\E w \in Writers : Persist(w))
                   \/ \E c \in Claimers : LoadReady(c) \/ Crash(c)
  OBVIOUS
<1>1. CASE Tick \/ UNCHANGED vars
  BY <1>1 DEF Tick, Quiet, vars, record, history
<1>2. ASSUME NEW c \in Claimers, StartClaim(c) \/ Restart(c) PROVE Quiet
  BY <1>2 DEF StartClaim, Restart, ClaimUnchanged, Quiet, record, history
<1>3. ASSUME NEW c \in Claimers, Acquire(c) PROVE Quiet
  BY <1>3 DEF Acquire, Create, CreateExists, Retry, InspectGone, InspectRefused, InspectStale, CreateGuard,
              GuardExists, ReadGuard, DropGuard, Recheck, DropClaim, Recreate, RecreateExists, Reinspect,
              Unguard, ClaimOnlyPc, ClaimUnchanged, Slip, Quiet, record, history
<1>4. ASSUME NEW c \in Claimers, Hold(c) PROVE Quiet \/ LoadReady(c)
  BY <1>4 DEF Hold, LoadOther, Persisted, ReadOwn, DropOwn, ClaimOnlyPc, ClaimUnchanged, Slip, Quiet,
              record, history
<1>5. ASSUME NEW c \in Claimers, Reconcile(c) PROVE Quiet
  BY <1>5 DEF Reconcile, BeginReconcile, Scan, Index, Publish, Reconciling, Quiet, history
<1> QED
  BY <1>1, <1>2, <1>3, <1>4, <1>5 DEF Next

\* A write that begins is the only one, or an overlap.
LEMMA BeginKeepsQueue ==
    ASSUME TypeOK, QueueInv, NEW w \in Writers, NEW to \in {"ready", "active", "paused", "ended"},
           Begin(w, to), UNCHANGED <<job, ref>>
    PROVE  QueueInv'
<1>1. put \in [Writers -> Puts]
  BY DEF TypeOK
<1>2. put'[w] = [step |-> FirstStep(to), to |-> to] /\ \A v \in Writers \ {w} : put'[v] = put[v]
  BY <1>1 DEF Begin
<1>3. CASE \E v \in Writers \ {w} : put[v] # NoPut
  BY <1>3 DEF Begin, QueueInv, OneWriter, ReferenceFirst
<1>4. CASE \A v \in Writers \ {w} : put[v] = NoPut
  <2>1. slips' = slips
    BY <1>4 DEF Begin
  <2>2. OneWriter'
    BY <1>2, <1>4 DEF OneWriter
  <2>3. ReferenceFirst'
    BY <1>2, <1>4, <2>1 DEF QueueInv, ReferenceFirst, FirstStep, NoPut
  <2> QED
    BY <2>2, <2>3 DEF QueueInv
<1> QED
  BY <1>3, <1>4

LEMMA QueueStep == TypeOK /\ QueueInv /\ [Next]_vars => QueueInv'
<1> SUFFICES ASSUME TypeOK, QueueInv, [Next]_vars PROVE QueueInv'
  OBVIOUS
<1>t. put \in [Writers -> Puts] /\ Host \in Writers /\ Claimers \subseteq Writers
  BY DEF TypeOK, Writers
<1>1. CASE Quiet
  BY <1>1 DEF Quiet, QueueInv, OneWriter, ReferenceFirst
<1>2. CASE Admit
  BY <1>2, <1>t, BeginKeepsQueue DEF Admit, record
<1>3. CASE ApplySignal
  <2>1. PICK to \in SignalResults(job) : Begin(Host, to)
    BY <1>3 DEF ApplySignal
  <2>2. to \in {"ready", "active", "paused", "ended"}
    BY <2>1 DEF SignalResults
  <2> QED
    BY <1>3, <1>t, <2>1, <2>2, BeginKeepsQueue DEF ApplySignal, record
<1>4. ASSUME NEW c \in Claimers, LoadReady(c) PROVE QueueInv'
  BY <1>4, <1>t, BeginKeepsQueue DEF LoadReady, ClaimUnchanged, record
<1>5. ASSUME NEW c \in Claimers, Crash(c) PROVE QueueInv'
  BY <1>5, <1>t DEF Crash, record, QueueInv, OneWriter, ReferenceFirst, NoPut
<1>6. ASSUME NEW w \in Writers, AddReference(w) PROVE QueueInv'
  BY <1>6, <1>t DEF AddReference, QueueInv, OneWriter, ReferenceFirst, NoPut
<1>7. ASSUME NEW w \in Writers, WriteSnapshot(w) PROVE QueueInv'
  <2>1. slips \subseteq slips'
    BY <1>7 DEF WriteSnapshot, Slip
  <2>2. put[w] # NoPut
    BY <1>7 DEF WriteSnapshot, NoPut
  <2>3. OneWriter'
    BY <1>7, <1>t, <2>1, <2>2 DEF WriteSnapshot, QueueInv, OneWriter
  <2>4. ReferenceFirst'
    BY <1>7, <1>t, <2>1, <2>2 DEF WriteSnapshot, QueueInv, OneWriter, ReferenceFirst, NoPut
  <2> QED
    BY <2>3, <2>4 DEF QueueInv
<1>8. ASSUME NEW w \in Writers, DropReference(w) PROVE QueueInv'
  <2>1. put[w] # NoPut
    BY <1>8 DEF DropReference, NoPut
  <2> QED
    BY <1>8, <1>t, <2>1 DEF DropReference, QueueInv, OneWriter, ReferenceFirst, NoPut
<1> QED
  BY <1>1, <1>2, <1>3, <1>4, <1>5, <1>6, <1>7, <1>8, StepKinds DEF Persist

\* A ready job has its reference, whoever died between two writes.
THEOREM ReadyListed == Spec => []ReadyIsQueued
<1>1. Init => QueueInv
  BY DEF Init, QueueInv, OneWriter, ReferenceFirst, NoPut
<1>2. QueueInv => ReadyIsQueued
  BY DEF QueueInv, ReferenceFirst, ReadyIsQueued
<1> QED
  BY <1>1, <1>2, QueueStep, TypeCorrect, PTL DEF Spec

-------------------------------------------------------------------------------
(* A job is claimed once.                                                  *)

Sound == slips \subseteq {"overlap"}

Guarding == {"recheck", "dropClaim", "recreate", "reinspect", "unguardHeld", "unguardLost", "unguardRefused"}

\* A claimer that is in time has the files it thinks it has, and what it is
\* about to remove is still stale.
InTime(c) ==
    /\ me[c].pc \in Guarding => guard = Mine(c)
    /\ me[c].pc \in Holding => claim = Mine(c)
    /\ me[c].pc = "dropClaim" => claim # NoFile /\ Stale(claim, c)

Begun_Past == \A c \in Claimers : me[c].at <= clock
SeenStale == \A c \in Claimers : me[c].pc \in {"guard", "recheck"} => me[c].seen # NoFile /\ Stale(me[c].seen, c)
FilesHeld == Sound => \A c \in Claimers : ~Overdue(c) => InTime(c)

HoldInv == Begun_Past /\ SeenStale /\ FilesHeld

\* The claimer that carries out a step is the only one whose locals change.
LEMMA HoldStep == TypeOK /\ HoldInv /\ [Next]_vars => HoldInv'
<1> SUFFICES ASSUME TypeOK, HoldInv, [Next]_vars PROVE HoldInv'
  OBVIOUS
<1>t. /\ clock \in 0..MaxClock /\ claim \in Claims \union {NoFile} /\ guard \in Claims \union {NoFile}
      /\ me \in [Claimers -> Locals] /\ StaleAfter \in Nat \ {0} /\ MaxClock \in Nat
  BY BoundsAssumption DEF TypeOK
<1>a. \A c \in Claimers : me[c].at \in Nat /\ me[c].at <= clock
  BY <1>t DEF HoldInv, Begun_Past, Locals
<1>m. \A c \in Claimers : /\ Mine(c) \in Claims /\ Mine(c) # NoFile
                          /\ Mine(c).by = c /\ Mine(c).at = me[c].at
  BY MineIsClaim
<1>s. slips \subseteq slips'
  BY StepKinds DEF Quiet, Admit, ApplySignal, Begin, Persist, AddReference, WriteSnapshot, Slip, DropReference,
                   LoadReady, Crash
<1>h. Sound => \A c \in Claimers : ~Overdue(c) => InTime(c)
  BY DEF HoldInv, FilesHeld
<1> DEFINE Taken(c) == ~Overdue(c) /\ (claim = Mine(c) \/ (Stale(claim, c) /\ guard = Mine(c)))
           Freed(c) == Stale(guard, c) \/ (~Overdue(c) /\ guard = Mine(c))
           Others(c) == \A d \in Claimers \ {c} : me'[d] = me[d]
           Own(c) == /\ me'[c].at <= clock'
                     /\ me'[c].pc \in {"guard", "recheck"} => me'[c].seen # NoFile /\ Stale(me[c].seen, c)'
                     /\ Sound' => ((~Overdue(c))' => InTime(c)')
\* What another claimer in time has is left alone.
<1>o. ASSUME NEW c \in Claimers, clock' = clock, Others(c), Own(c),
             Sound' => claim' = claim \/ claim = NoFile \/ Taken(c),
             Sound' => guard' = guard \/ guard = NoFile \/ Freed(c)
      PROVE  HoldInv'
  <2>1. Begun_Past'
    BY <1>o, <1>a DEF Begun_Past
  <2>2. SeenStale'
    BY <1>o DEF HoldInv, SeenStale, Stale
  <2>3. ASSUME Sound', NEW d \in Claimers \ {c}, (~Overdue(d))' PROVE InTime(d)'
    <3>1. Sound /\ ~Overdue(d)
      BY <1>s, <1>o, <2>3 DEF Sound, Overdue
    <3>2. InTime(d) /\ Mine(d)' = Mine(d)
      BY <1>h, <1>o, <3>1 DEF Mine
    <3>3. me[d].pc \in Guarding => guard' = guard
      BY <1>o, <2>3, <3>1, <3>2, <1>m, <1>a, <1>t DEF InTime, Stale, Overdue
    <3>4. me[d].pc \in Holding => claim' = claim
      BY <1>o, <2>3, <3>1, <3>2, <1>m, <1>a, <1>t DEF InTime, Stale, Overdue
    <3>5. me[d].pc = "dropClaim" => claim' = claim
      <4>1. SUFFICES ASSUME me[d].pc = "dropClaim", claim' # claim PROVE FALSE
        OBVIOUS
      <4>2. claim # NoFile /\ Stale(claim, d) /\ guard = Mine(d)
        BY <3>2, <4>1 DEF InTime, Guarding
      <4>3. Taken(c) /\ guard # Mine(c)
        BY <1>o, <2>3, <4>1, <4>2, <1>m
      <4>4. me[d].at >= me[c].at + StaleAfter
        BY <4>2, <4>3, <1>m DEF Stale
      <4> QED
        BY <4>3, <4>4, <1>a, <1>t DEF Overdue
    <3> QED
      BY <3>2, <3>3, <3>4, <3>5, <1>o DEF InTime, Stale
  <2>4. FilesHeld'
    BY <1>o, <2>3 DEF FilesHeld
  <2> QED
    BY <2>1, <2>2, <2>4 DEF HoldInv
<1> HIDE DEF Taken, Freed, Others, Own
<1>1. ASSUME UNCHANGED <<clock, claim, guard, me>> PROVE HoldInv'
  BY <1>1, <1>s DEF HoldInv, Begun_Past, SeenStale, FilesHeld, Sound, InTime, Overdue, Stale, Mine
<1>2. CASE Tick
  <2>1. clock' = clock + 1 /\ UNCHANGED <<claim, guard, me, slips>>
    BY <1>2 DEF Tick, files
  <2>2. \A c \in Claimers : (~Overdue(c))' => ~Overdue(c)
    BY <2>1, <1>a, <1>t DEF Overdue
  <2> QED
    BY <2>1, <2>2, <1>a, <1>t DEF HoldInv, Begun_Past, SeenStale, FilesHeld, Sound, InTime, Stale, Mine
<1>3. ASSUME NEW c \in Claimers, StartClaim(c) \/ Restart(c) \/ Crash(c) \/ Reconcile(c) PROVE HoldInv'
  <2>1. clock' = clock /\ claim' = claim /\ guard' = guard /\ Others(c)
    BY <1>3, <1>t DEF StartClaim, Restart, Crash, Reconcile, BeginReconcile, Scan, Index, Publish, Reconciling,
                      ClaimUnchanged, files, Goto, AfterCall, Dead, Others
  <2>2. /\ me'[c].at <= clock'
        /\ me'[c].pc \in {"create", "start", "dead", "scan", "index", "publish", "idle"}
    BY <1>3, <1>t, <1>a, <2>1 DEF StartClaim, Restart, Crash, Reconcile, BeginReconcile, Scan, Index, Publish,
                                  Goto, AfterCall, Dead, Begun, Idle, Locals
  <2>3. Own(c)
    BY <2>2 DEF Own, InTime, Guarding, Holding
  <2> QED
    BY <1>o, <2>1, <2>3
<1>4. ASSUME NEW c \in Claimers, Acquire(c) PROVE HoldInv'
  <2>c. clock' = clock
    BY <1>4 DEF Acquire, Create, CreateExists, Retry, InspectGone, InspectRefused, InspectStale, CreateGuard,
              GuardExists, ReadGuard, DropGuard, Recheck, DropClaim, Recreate, RecreateExists, Reinspect,
              Unguard, ClaimOnlyPc, ClaimUnchanged
  \* A step that only moves on
  <2>g. ASSUME NEW from, NEW to, Goto(c, from, to)
        PROVE  /\ Others(c) /\ me'[c].pc \in {to, "dead"} /\ me'[c].at <= clock'
               /\ (to # "idle" => me'[c].pc = to /\ me'[c].at = me[c].at /\ me'[c].seen = me[c].seen)
    BY <2>g, <2>c, <1>t, <1>a DEF Goto, AfterCall, Dead, Others, Idle, Locals
  <2>i. Sound' => Sound /\ (~Overdue(c) => InTime(c))
    BY <1>s, <1>h DEF Sound
  <2>f. ASSUME claim' = claim, guard' = guard, Others(c), Own(c) PROVE HoldInv'
    BY <2>c, <2>f, <1>o
  <2>k. ASSUME NEW from, NEW to, Goto(c, from, to), claim' = claim, guard' = guard,
               to \in {"create", "inspect", "retry", "idle", "readGuard", "dropGuard"}
        PROVE  HoldInv'
    <3>1. Own(c)
      BY <2>g, <2>k, <1>a, <2>c DEF Own, InTime, Guarding, Holding
    <3> QED
      BY <2>g, <2>f, <2>k, <3>1
  <2>1. CASE Create(c)
    <3>1. me'[c].pc = "load" /\ me'[c].at = me[c].at /\ me'[c].at <= clock' /\ Others(c)
      BY <2>1, <2>g DEF Create
    <3>2. Own(c)
      BY <2>1, <3>1 DEF Create, Own, InTime, Guarding, Holding, Mine
    <3> QED
      BY <2>1, <2>c, <3>1, <3>2, <1>o DEF Create
  <2>2. CASE CreateExists(c)
    BY <2>2, <2>k DEF CreateExists, ClaimOnlyPc, files
  <2>3. CASE Retry(c)
    <3>1. me'[c].pc = "create" /\ me'[c].at = me[c].at /\ Others(c)
      BY <2>3, <1>t DEF Retry, Others, Locals
    <3>2. Own(c)
      BY <3>1, <1>a, <2>c DEF Own, InTime, Guarding, Holding
    <3> QED
      BY <2>3, <2>f, <3>1, <3>2 DEF Retry, files
  <2>4. CASE InspectGone(c)
    BY <2>4, <2>k DEF InspectGone, ClaimOnlyPc, files
  <2>5. CASE InspectRefused(c)
    BY <2>5, <2>k DEF InspectRefused, ClaimOnlyPc, files
  <2>6. CASE InspectStale(c)
    <3>1. me'[c].pc = "guard" /\ me'[c].at = me[c].at /\ me'[c].seen = claim /\ Others(c)
      BY <2>6, <1>t DEF InspectStale, Others, Locals
    <3>2. Own(c)
      BY <2>6, <3>1, <1>a, <2>c DEF InspectStale, Recover, Stale, Own, InTime, Guarding, Holding
    <3> QED
      BY <2>6, <2>f, <3>1, <3>2 DEF InspectStale, files
  <2>7. CASE CreateGuard(c)
    <3>1. /\ me'[c].pc = "recheck" /\ me'[c].at = me[c].at /\ me'[c].seen = me[c].seen
          /\ me'[c].at <= clock' /\ Others(c) /\ me[c].pc = "guard"
      BY <2>7, <2>g DEF CreateGuard, Goto, AfterCall, Dead
    <3>2. Own(c)
      BY <2>7, <3>1 DEF CreateGuard, HoldInv, SeenStale, Stale, Own, InTime, Guarding, Holding, Mine
    <3> QED
      BY <2>7, <2>c, <3>1, <3>2, <1>o DEF CreateGuard
  <2>8. CASE GuardExists(c)
    BY <2>8, <2>k DEF GuardExists, ClaimOnlyPc, files
  <2>9. CASE ReadGuard(c)
    BY <2>9, <2>k DEF ReadGuard, ClaimOnlyPc, files
  <2>10. CASE DropGuard(c)
    <3>1. me'[c].pc = "retry" /\ me'[c].at <= clock' /\ Others(c)
      BY <2>10, <2>g DEF DropGuard
    <3>2. Own(c)
      BY <3>1 DEF Own, InTime, Guarding, Holding
    <3>3. Sound' => guard = NoFile \/ Freed(c)
      BY <2>10, <2>i DEF DropGuard, Sound, Freed
    <3> QED
      BY <2>10, <2>c, <3>1, <3>2, <3>3, <1>o DEF DropGuard
  <2>11. CASE Recheck(c)
    <3>1. /\ me'[c].pc = IF StillStale(c) THEN "dropClaim" ELSE "recreate"
          /\ me'[c].at = me[c].at /\ Others(c) /\ me[c].pc = "recheck"
          /\ claim' = claim /\ guard' = guard
      BY <2>11, <1>t DEF Recheck, Others, Locals, files
    <3>2. me[c].seen # NoFile /\ Stale(me[c].seen, c)
      BY <3>1 DEF HoldInv, SeenStale
    <3>3. (~Overdue(c))' = ~Overdue(c) /\ Mine(c)' = Mine(c)
      BY <3>1, <2>c DEF Overdue, Mine
    <3>4. Sound' => (~Overdue(c) => guard = Mine(c))
      BY <3>1, <2>i DEF InTime, Guarding
    <3>5. me'[c].pc = "dropClaim" => claim # NoFile /\ Stale(claim, c)
      BY <3>1, <3>2 DEF StillStale
    <3>6. Own(c)
      BY <3>1, <3>3, <3>4, <3>5, <1>a, <2>c DEF Own, InTime, Holding, Stale
    <3> QED
      BY <2>f, <3>1, <3>6
  <2>12. CASE DropClaim(c)
    <3>1. /\ me'[c].pc = "recreate" /\ me'[c].at = me[c].at /\ me'[c].at <= clock'
          /\ Others(c) /\ me[c].pc = "dropClaim" /\ guard' = guard
      BY <2>12, <2>g DEF DropClaim, Goto, AfterCall, Dead
    <3>2. Sound' => ~Overdue(c)
      BY <2>12 DEF DropClaim, Slip, Sound
    <3>3. Sound' => Taken(c) /\ guard = Mine(c)
      BY <3>1, <3>2, <2>i DEF InTime, Guarding, Taken
    <3>4. Own(c)
      BY <3>1, <3>3 DEF Own, InTime, Holding, Mine
    <3> QED
      BY <2>c, <3>1, <3>3, <3>4, <1>o
  <2>13. CASE Recreate(c)
    <3>1. /\ me'[c].pc = "unguardHeld" /\ me'[c].at = me[c].at /\ me'[c].at <= clock'
          /\ Others(c) /\ me[c].pc = "recreate" /\ guard' = guard /\ claim' = Mine(c) /\ claim = NoFile
      BY <2>13, <2>g DEF Recreate, Goto, AfterCall, Dead
    <3>2. (~Overdue(c))' = ~Overdue(c) /\ Mine(c)' = Mine(c)
      BY <3>1, <2>c DEF Overdue, Mine
    <3>3. Own(c)
      BY <3>1, <3>2, <2>i DEF Own, InTime, Guarding
    <3> QED
      BY <2>c, <3>1, <3>3, <1>o
  <2>14. CASE RecreateExists(c) \/ Reinspect(c)
    <3>1. /\ me'[c].pc \in {"reinspect", "unguardLost", "unguardRefused"}
          /\ me'[c].at = me[c].at /\ me'[c].at <= clock' /\ Others(c)
          /\ me[c].pc \in Guarding /\ guard' = guard /\ claim' = claim
      BY <2>14, <2>g DEF RecreateExists, Reinspect, Goto, AfterCall, Dead, ClaimOnlyPc, files, Guarding
    <3>2. (~Overdue(c))' = ~Overdue(c) /\ Mine(c)' = Mine(c)
      BY <3>1, <2>c DEF Overdue, Mine
    <3>3. Own(c)
      BY <3>1, <3>2, <2>i DEF Own, InTime, Holding
    <3> QED
      BY <2>f, <3>1, <3>3
  <2>15. CASE Unguard(c)
    <3>1. /\ me'[c].pc \in {"load", "retry", "idle", "dead"} /\ me'[c].at <= clock'
          /\ me'[c].pc = "load" => me[c].pc = "unguardHeld" /\ me'[c].at = me[c].at
          /\ Others(c) /\ me[c].pc \in Guarding /\ claim' = claim
      BY <2>15, <2>g DEF Unguard, Goto, AfterCall, Dead, Guarding
    <3>2. Sound' => ~Overdue(c)
      BY <2>15 DEF Unguard, Slip, Sound
    <3>3. Sound' => Freed(c) /\ (me'[c].pc = "load" => claim = Mine(c))
      BY <3>1, <3>2, <2>i DEF InTime, Freed, Holding
    <3>4. Own(c)
      BY <3>1, <3>3 DEF Own, InTime, Holding, Guarding, Mine
    <3> QED
      BY <2>c, <3>1, <3>3, <3>4, <1>o
  <2> QED
    BY <1>4, <2>1, <2>2, <2>3, <2>4, <2>5, <2>6, <2>7, <2>8, <2>9, <2>10, <2>11, <2>12, <2>13, <2>14,
       <2>15 DEF Acquire
<1>5. ASSUME NEW c \in Claimers, Hold(c) PROVE HoldInv'
  <2>1. /\ clock' = clock /\ guard' = guard /\ Others(c)
        /\ me[c].pc \in {"load", "persist", "release", "drop"}
        /\ me'[c].pc \in {"persist", "release", "drop", "idle", "dead"} /\ me'[c].at <= clock'
        /\ (me'[c].pc \notin {"idle", "dead"} => me'[c].at = me[c].at)
    BY <1>5, <1>t, <1>a DEF Hold, LoadReady, LoadOther, Persisted, ReadOwn, DropOwn, ClaimOnlyPc, ClaimUnchanged,
                            files, Goto, AfterCall, Dead, Others, Idle, Locals
  <2>2. Sound' => Sound /\ (~Overdue(c) => claim = Mine(c))
    BY <2>1, <1>s, <1>h DEF Sound, InTime, Holding
  <2>3. \/ claim' = claim
        \/ DropOwn(c) /\ me'[c].pc \in {"idle", "dead"} /\ (Sound' => ~Overdue(c))
    <3>1. CASE DropOwn(c)
      <4>1. me'[c].pc \in {"idle", "dead"}
        BY <3>1, <1>t DEF DropOwn, Goto, AfterCall, Dead, Idle, Locals
      <4>2. Sound' => ~Overdue(c)
        BY <3>1 DEF DropOwn, Slip, Sound
      <4> QED
        BY <3>1, <4>1, <4>2
    <3>2. CASE ~DropOwn(c)
      BY <3>2, <1>5 DEF Hold, LoadReady, LoadOther, Persisted, ReadOwn, ClaimOnlyPc, ClaimUnchanged, files
    <3> QED
      BY <3>1, <3>2
  <2>4. Sound' => claim' = claim \/ Taken(c)
    BY <2>2, <2>3 DEF Taken
  <2>5. me'[c].pc \notin {"idle", "dead"} => (~Overdue(c))' = ~Overdue(c) /\ Mine(c)' = Mine(c)
    BY <2>1 DEF Overdue, Mine
  <2>6. Own(c)
    BY <2>1, <2>2, <2>3, <2>5 DEF Own, InTime, Guarding, Holding
  <2> QED
    BY <2>1, <2>4, <2>6, <1>o
<1>6. ASSUME Admit \/ ApplySignal \/ (\E w \in Writers : Persist(w)) \/ UNCHANGED vars PROVE HoldInv'
  BY <1>6, <1>1 DEF Admit, ApplySignal, Persist, AddReference, WriteSnapshot, DropReference, files, vars
<1> QED
  BY <1>2, <1>3, <1>4, <1>5, <1>6 DEF Next
\* A claimer writes nothing but its claim, and is at no other step meanwhile.
PutInv ==
    /\ \A c \in Claimers : put[c] # NoPut =>
          me[c].pc = "persist" /\ put[c].to = "active" /\ put[c].step \in {"snapshot", "obsolete"}
    /\ put[Host].to # "active"

LEMMA PutStep == TypeOK /\ PutInv /\ [Next]_vars => PutInv'
<1> SUFFICES ASSUME TypeOK, PutInv, [Next]_vars PROVE PutInv'
  OBVIOUS
<1>t. me \in [Claimers -> Locals] /\ put \in [Writers -> Puts] /\ Host \notin Claimers
  BY ClaimersAssumption DEF TypeOK
<1>w. Writers = Claimers \union {Host}
  BY DEF Writers
<1>1. ASSUME UNCHANGED <<me, put>> PROVE PutInv'
  BY <1>1 DEF PutInv
\* The locals of c change while it writes nothing.
<1>2. ASSUME NEW c \in Claimers, put' = put, \A d \in Claimers \ {c} : me'[d] = me[d],
             me[c].pc # "persist" \/ put[c] = NoPut
      PROVE  PutInv'
  BY <1>2 DEF PutInv
<1>3. CASE Tick \/ UNCHANGED vars
  BY <1>3, <1>1 DEF Tick, vars
<1>4. CASE Admit \/ ApplySignal
  <2>1. /\ me' = me
        /\ \E to \in {"ready", "paused", "ended"} : put' = [put EXCEPT ![Host] = [step |-> FirstStep(to), to |-> to]]
    BY <1>4 DEF Admit, ApplySignal, Begin, SignalResults
  <2> QED
    BY <2>1, <1>t, <1>w DEF PutInv
<1>5. ASSUME NEW w \in Writers, Persist(w) PROVE PutInv'
  <2>1. me' = me
    BY <1>5 DEF Persist, AddReference, WriteSnapshot, DropReference
  <2>2. CASE AddReference(w)
    BY <2>1, <2>2, <1>t, <1>w DEF AddReference, PutInv, Puts, NoPut
  <2>3. CASE WriteSnapshot(w)
    BY <2>1, <2>3, <1>t, <1>w DEF WriteSnapshot, PutInv, NoPut
  <2>4. CASE DropReference(w)
    BY <2>1, <2>4, <1>t, <1>w DEF DropReference, PutInv, NoPut
  <2> QED
    BY <1>5, <2>2, <2>3, <2>4 DEF Persist
<1>6. ASSUME NEW c \in Claimers, StartClaim(c) \/ Restart(c) \/ Reconcile(c) PROVE PutInv'
  BY <1>6, <1>2, <1>t DEF StartClaim, Restart, Reconcile, BeginReconcile, Scan, Index, Publish, Reconciling,
                          ClaimUnchanged, Goto, AfterCall, Dead, Idle
<1>7. ASSUME NEW c \in Claimers, Acquire(c) PROVE PutInv'
  <2>1. /\ put' = put /\ me[c].pc # "persist"
        /\ \A d \in Claimers \ {c} : me'[d] = me[d]
    BY <1>7, <1>t DEF Acquire, Create, CreateExists, Retry, InspectGone, InspectRefused, InspectStale, CreateGuard,
              GuardExists, ReadGuard, DropGuard, Recheck, DropClaim, Recreate, RecreateExists, Reinspect,
              Unguard, ClaimOnlyPc, ClaimUnchanged, Goto, AfterCall, Dead
  <2> QED
    BY <2>1, <1>2
<1>8. ASSUME NEW c \in Claimers, Hold(c) PROVE PutInv'
  <2>1. CASE LoadReady(c)
    <3>1. put' = [put EXCEPT ![c] = [step |-> "snapshot", to |-> "active"]]
      BY <2>1 DEF LoadReady, Begin, FirstStep
    <3>2. me'[c].pc = "persist" /\ \A d \in Claimers \ {c} : me'[d] = me[d]
      BY <2>1, <1>t DEF LoadReady, Goto, AfterCall, Dead, Locals
    <3> QED
      BY <3>1, <3>2, <1>t, <1>w DEF PutInv
  <2>2. CASE LoadOther(c) \/ Persisted(c) \/ ReadOwn(c) \/ DropOwn(c)
    BY <2>2, <1>2, <1>t DEF LoadOther, Persisted, ReadOwn, DropOwn, ClaimOnlyPc, ClaimUnchanged, Goto, AfterCall, Dead
  <2> QED
    BY <1>8, <2>1, <2>2 DEF Hold
<1>9. ASSUME NEW c \in Claimers, Crash(c) PROVE PutInv'
  BY <1>9, <1>t, <1>w DEF Crash, PutInv
<1> QED
  BY <1>3, <1>4, <1>5, <1>6, <1>7, <1>8, <1>9 DEF Next

\* A ready job, and a claimer in time about to write its claim, stand for a
\* write of "ready" that no claim has used.
CreditInv ==
    Sound =>
        /\ granted <= readied
        /\ job = "ready" => granted < readied
        /\ \A c \in Claimers : ~Overdue(c) /\ put[c].step = "snapshot" => granted < readied

LEMMA CreditStep == TypeOK /\ HoldInv /\ PutInv /\ CreditInv /\ [Next]_vars => CreditInv'
<1> SUFFICES ASSUME TypeOK, HoldInv, PutInv, CreditInv, [Next]_vars, Sound' PROVE CreditInv'
  BY DEF CreditInv
<1>t. /\ me \in [Claimers -> Locals] /\ put \in [Writers -> Puts] /\ Host \notin Claimers
      /\ clock \in Nat /\ StaleAfter \in Nat /\ readied \in Nat /\ granted \in Nat
  BY ClaimersAssumption, BoundsAssumption DEF TypeOK
<1>w. Writers = Claimers \union {Host}
  BY DEF Writers
<1>s. Sound
  BY StepKinds DEF Quiet, Admit, ApplySignal, Begin, Persist, AddReference, WriteSnapshot, Slip, DropReference,
                   LoadReady, Crash, Sound
<1>c. /\ granted <= readied
      /\ job = "ready" => granted < readied
      /\ \A c \in Claimers : ~Overdue(c) /\ put[c].step = "snapshot" => granted < readied
  BY <1>s DEF CreditInv
\* A claimer in time at its write was in time before, with the same write.
<1>1. ASSUME UNCHANGED <<job, readied, granted>>,
             \A c \in Claimers : (~Overdue(c))' /\ put'[c].step = "snapshot" =>
                                     ~Overdue(c) /\ put[c].step = "snapshot"
      PROVE  CreditInv'
  BY <1>1, <1>c DEF CreditInv
<1>2. CASE Tick
  <2>1. \A c \in Claimers : (~Overdue(c))' => ~Overdue(c)
    BY <1>2, <1>t DEF Tick, Overdue, Locals
  <2> QED
    BY <1>2, <1>1, <2>1 DEF Tick, record, history
<1>3. CASE UNCHANGED vars
  BY <1>3, <1>1 DEF vars, record, history, Overdue
\* The locals of a claimer that writes are left alone.
<1>4. ASSUME NEW c \in Claimers, StartClaim(c) \/ Restart(c) \/ Reconcile(c) \/ Acquire(c) \/ Crash(c)
                                 \/ LoadOther(c) \/ Persisted(c) \/ ReadOwn(c) \/ DropOwn(c)
      PROVE  CreditInv'
  <2>1. UNCHANGED <<clock, job, readied, granted>>
    BY <1>4 DEF StartClaim, Restart, Reconcile, BeginReconcile, Scan, Index, Publish, Reconciling, Crash,
              Acquire, Create, CreateExists, Retry, InspectGone, InspectRefused, InspectStale, CreateGuard,
              GuardExists, ReadGuard, DropGuard, Recheck, DropClaim, Recreate, RecreateExists, Reinspect,
              Unguard, ClaimOnlyPc, ClaimUnchanged, LoadOther, Persisted, ReadOwn, DropOwn, record, history
  <2>2. \A d \in Claimers \ {c} : me'[d] = me[d] /\ put'[d] = put[d]
    BY <1>4, <1>t, <1>w DEF StartClaim, Restart, Reconcile, BeginReconcile, Scan, Index, Publish, Reconciling, Crash,
              Acquire, Create, CreateExists, Retry, InspectGone, InspectRefused, InspectStale, CreateGuard,
              GuardExists, ReadGuard, DropGuard, Recheck, DropClaim, Recreate, RecreateExists, Reinspect,
              Unguard, ClaimOnlyPc, ClaimUnchanged, LoadOther, Persisted, ReadOwn, DropOwn, Goto, AfterCall, Dead
  <2>3. put[c] = NoPut \/ Crash(c)
    BY <1>4, <1>t DEF PutInv, StartClaim, Restart, Reconcile, BeginReconcile, Scan, Index, Publish,
              Acquire, Create, CreateExists, Retry, InspectGone, InspectRefused, InspectStale, CreateGuard,
              GuardExists, ReadGuard, DropGuard, Recheck, DropClaim, Recreate, RecreateExists, Reinspect,
              Unguard, ClaimOnlyPc, LoadOther, Persisted, ReadOwn, DropOwn, Goto, AfterCall, Dead, Idle
  <2>4. put'[c] = NoPut
    BY <1>4, <1>t, <1>w, <2>3 DEF StartClaim, Restart, Reconcile, BeginReconcile, Scan, Index, Publish, Reconciling,
              Crash,
              Acquire, Create, CreateExists, Retry, InspectGone, InspectRefused, InspectStale, CreateGuard,
              GuardExists, ReadGuard, DropGuard, Recheck, DropClaim, Recreate, RecreateExists, Reinspect,
              Unguard, ClaimOnlyPc, ClaimUnchanged, LoadOther, Persisted, ReadOwn, DropOwn
  <2> QED
    BY <1>1, <2>1, <2>2, <2>4 DEF Overdue, NoPut
<1>5. ASSUME NEW c \in Claimers, LoadReady(c) PROVE CreditInv'
  <2>1. job = "ready" /\ UNCHANGED <<job, readied, granted>>
    BY <1>5 DEF LoadReady, ClaimUnchanged, record, history
  <2> QED
    BY <1>c, <2>1 DEF CreditInv
<1>6. CASE Admit \/ ApplySignal
  <2>1. UNCHANGED <<clock, me, job, readied, granted>> /\ \A c \in Claimers : put'[c] = put[c]
    BY <1>6, <1>t, <1>w DEF Admit, ApplySignal, Begin, record, history
  <2> QED
    BY <1>1, <2>1 DEF Overdue
<1>7. ASSUME NEW w \in Writers, AddReference(w) \/ DropReference(w) PROVE CreditInv'
  <2>1. UNCHANGED <<clock, me, job, readied, granted>>
    BY <1>7 DEF AddReference, DropReference, history
  <2>2. ASSUME NEW c \in Claimers, put'[c].step = "snapshot" PROVE put[c].step = "snapshot"
    <3>1. put[c].step # "reference"
      BY DEF PutInv, NoPut
    <3> QED
      BY <1>7, <1>t, <1>w, <2>2, <3>1 DEF AddReference, DropReference, NoPut
  <2> QED
    BY <1>1, <2>1, <2>2 DEF Overdue
<1>8. ASSUME WriteSnapshot(Host) PROVE CreditInv'
  <2>1. /\ UNCHANGED <<clock, me>> /\ job' = put[Host].to /\ granted' = granted
        /\ readied' = IF put[Host].to = "ready" THEN readied + 1 ELSE readied
        /\ \A c \in Claimers : put'[c] = put[c]
    BY <1>8, <1>t DEF WriteSnapshot, PutInv
  <2>2. \A c \in Claimers : (~Overdue(c))' = ~Overdue(c)
    BY <2>1 DEF Overdue
  <2> QED
    BY <1>c, <1>t, <2>1, <2>2 DEF CreditInv
<1>9. ASSUME NEW c \in Claimers, WriteSnapshot(c) PROVE CreditInv'
  <2>1. put[c].step = "snapshot" /\ put[c] # NoPut
    BY <1>9 DEF WriteSnapshot, NoPut
  <2>2. me[c].pc = "persist" /\ put[c].to = "active"
    BY <2>1 DEF PutInv
  <2>3. ~Overdue(c)
    BY <1>9 DEF WriteSnapshot, Slip, Sound
  <2>4. claim = Mine(c)
    BY <1>s, <2>2, <2>3 DEF HoldInv, FilesHeld, InTime, Holding
  <2>5. /\ UNCHANGED <<clock, me>> /\ job' = "active" /\ granted' = granted + 1 /\ readied' = readied
        /\ put' = [put EXCEPT ![c] = [step |-> "obsolete", to |-> "active"]]
    BY <1>9, <2>2 DEF WriteSnapshot
  <2>6. granted < readied
    BY <1>c, <2>1, <2>3
  <2>7. ASSUME NEW d \in Claimers, (~Overdue(d))', put'[d].step = "snapshot" PROVE FALSE
    <3>1. d # c /\ put[d].step = "snapshot" /\ ~Overdue(d)
      BY <2>5, <2>7, <1>t, <1>w DEF Overdue
    <3>2. me[d].pc = "persist"
      BY <3>1 DEF PutInv, NoPut
    <3>3. claim = Mine(d)
      BY <1>s, <3>1, <3>2 DEF HoldInv, FilesHeld, InTime, Holding
    <3> QED
      BY <2>4, <3>1, <3>3 DEF Mine
  <2> QED
    BY <1>t, <2>5, <2>6, <2>7 DEF CreditInv
<1> QED
  BY <1>2, <1>3, <1>4, <1>5, <1>6, <1>7, <1>8, <1>9, <1>w DEF Next, Persist, Hold

\* A job is claimed at most once for each time it was made ready.
THEOREM ClaimOnce == Spec => []ClaimedOnce
<1>1. Init => HoldInv /\ PutInv /\ CreditInv
  <2> SUFFICES ASSUME Init PROVE HoldInv /\ PutInv /\ CreditInv
    OBVIOUS
  <2>1. \A c \in Claimers : me[c].at = 0 /\ me[c].pc \in {"start", "idle"}
    BY DEF Init, Idle
  <2>2. HoldInv
    BY <2>1 DEF Init, HoldInv, Begun_Past, SeenStale, FilesHeld, InTime, Guarding, Holding
  <2>3. PutInv /\ CreditInv
    BY DEF Init, PutInv, CreditInv, Writers, NoPut
  <2> QED
    BY <2>2, <2>3
<1>2. CreditInv => ClaimedOnce
  BY DEF CreditInv, ClaimedOnce, Sound
<1> QED
  BY <1>1, <1>2, HoldStep, PutStep, CreditStep, TypeCorrect, PTL DEF Spec

-------------------------------------------------------------------------------
(* The claim file implements the abstract lease.                           *)

ClaimPast == claim # NoFile => claim.at <= clock

\* What every step does to the claim file
LEMMA ClaimWriters ==
    ASSUME TypeOK, [Next]_vars
    PROVE  \/ claim' \in {claim, NoFile}
           \/ \E c \in Claimers : /\ claim' = Mine(c) /\ claim = NoFile
                                  /\ Create(c) \/ Recreate(c)
<1>1. CASE Tick \/ UNCHANGED vars \/ Admit \/ ApplySignal
  BY <1>1 DEF Tick, vars, files, Admit, ApplySignal
<1>2. ASSUME NEW w \in Writers, Persist(w) PROVE claim' = claim
  BY <1>2 DEF Persist, AddReference, WriteSnapshot, DropReference, files
<1>3. ASSUME NEW c \in Claimers, StartClaim(c) \/ Hold(c) \/ Reconcile(c) \/ Crash(c) \/ Restart(c)
      PROVE  claim' \in {claim, NoFile}
  BY <1>3 DEF StartClaim, Hold, LoadReady, LoadOther, Persisted, ReadOwn, DropOwn, Reconcile, BeginReconcile,
              Scan, Index, Publish, Reconciling, Crash, Restart, ClaimOnlyPc, files
<1>4. ASSUME NEW c \in Claimers, Acquire(c)
      PROVE  \/ claim' \in {claim, NoFile}
             \/ claim' = Mine(c) /\ claim = NoFile /\ (Create(c) \/ Recreate(c))
  BY <1>4 DEF Acquire, Create, CreateExists, Retry, InspectGone, InspectRefused, InspectStale, CreateGuard,
              GuardExists, ReadGuard, DropGuard, Recheck, DropClaim, Recreate, RecreateExists, Reinspect,
              Unguard, ClaimOnlyPc, files
<1> QED
  BY <1>1, <1>2, <1>3, <1>4 DEF Next

\* Time goes forward, and only a tick passes it.
LEMMA ClockStep == [Next]_vars => clock' = clock \/ (Tick /\ clock' = clock + 1)
<1> SUFFICES ASSUME [Next]_vars PROVE clock' = clock \/ (Tick /\ clock' = clock + 1)
  OBVIOUS
<1>1. CASE Tick \/ UNCHANGED vars \/ Admit \/ ApplySignal
  BY <1>1 DEF Tick, vars, Admit, ApplySignal
<1>2. ASSUME NEW w \in Writers, Persist(w) PROVE clock' = clock
  BY <1>2 DEF Persist, AddReference, WriteSnapshot, DropReference
<1>3. ASSUME NEW c \in Claimers, StartClaim(c) \/ Hold(c) \/ Reconcile(c) \/ Crash(c) \/ Restart(c)
      PROVE  clock' = clock
  BY <1>3 DEF StartClaim, Hold, LoadReady, LoadOther, Persisted, ReadOwn, DropOwn, Reconcile, BeginReconcile,
              Scan, Index, Publish, Reconciling, Crash, Restart, ClaimOnlyPc, ClaimUnchanged
<1>4. ASSUME NEW c \in Claimers, Acquire(c) PROVE clock' = clock
  BY <1>4 DEF Acquire, Create, CreateExists, Retry, InspectGone, InspectRefused, InspectStale, CreateGuard,
              GuardExists, ReadGuard, DropGuard, Recheck, DropClaim, Recreate, RecreateExists, Reinspect,
              Unguard, ClaimOnlyPc, ClaimUnchanged
<1> QED
  BY <1>1, <1>2, <1>3, <1>4 DEF Next

\* No claim is from the future.
LEMMA PastStep == TypeOK /\ TypeOK' /\ HoldInv /\ ClaimPast /\ [Next]_vars => ClaimPast'
<1> SUFFICES ASSUME TypeOK, TypeOK', HoldInv, ClaimPast, [Next]_vars, claim' # NoFile PROVE claim'.at <= clock'
  BY DEF ClaimPast
<1>1. clock \in Nat /\ clock' \in Nat /\ clock <= clock'
  BY ClockStep, BoundsAssumption DEF TypeOK
<1>2. claim' # claim => \E c \in Claimers : claim' = Mine(c)
  BY ClaimWriters
<1>3. claim'.at \in Nat /\ claim'.at <= clock
  <2>1. CASE claim' = claim
    BY <2>1, BoundsAssumption DEF ClaimPast, TypeOK, Claims
  <2>2. ASSUME NEW c \in Claimers, claim' = Mine(c) PROVE claim'.at \in Nat /\ claim'.at <= clock
    BY <2>2, BoundsAssumption DEF HoldInv, Begun_Past, Mine, TypeOK, Locals
  <2> QED
    BY <1>2, <2>1, <2>2
<1> QED
  BY <1>1, <1>3

\* A claimer in time that holds the claim is the one it names.
LEMMA HolderFacts ==
    ASSUME TypeOK, HoldInv, ClaimPast, Sound
    PROVE  /\ Age \in 0..StaleAfter
           /\ \A c \in Holders : /\ claim = Mine(c) /\ claim # NoFile /\ Tenant = {c}
                                 /\ Age = clock - me[c].at /\ Age # StaleAfter
           /\ ClaimLease!Lapsed => Holders = {}
<1>t. /\ clock \in Nat /\ StaleAfter \in Nat \ {0}
      /\ claim # NoFile => claim.at \in Nat /\ claim.at <= clock
  BY BoundsAssumption DEF TypeOK, ClaimPast, Claims
<1>1. Age \in 0..StaleAfter
  BY <1>t DEF Age
<1>2. ASSUME NEW c \in Holders
      PROVE  /\ claim = Mine(c) /\ claim # NoFile /\ Tenant = {c}
             /\ Age = clock - me[c].at /\ Age # StaleAfter
  <2>1. c \in Claimers /\ me[c].pc \in Holding /\ ~Overdue(c)
    BY DEF Holders
  <2>2. claim = Mine(c)
    BY <2>1 DEF HoldInv, FilesHeld, InTime
  <2>3. claim # NoFile /\ claim.by = c /\ claim.at = me[c].at
    BY <2>1, <2>2, MineIsClaim
  <2>4. ~(clock >= claim.at + StaleAfter)
    BY <2>1, <2>3 DEF Overdue
  <2>5. Age = clock - claim.at
    BY <2>3, <2>4 DEF Age
  <2> QED
    BY <1>t, <2>2, <2>3, <2>4, <2>5 DEF Tenant
<1> QED
  BY <1>1, <1>2 DEF ClaimLease!Lapsed

\* A step of c that leaves the claim file alone, and after which c is not a
\* holder unless it was one
LEMMA QuietMaps ==
    ASSUME TypeOK, Sound, Sound', UNCHANGED <<clock, claim>>, NEW c \in Claimers,
           \A d \in Claimers \ {c} : me'[d] = me[d],
           c \in Holders' => c \in Holders
    PROVE  [ClaimLease!Next]_(ClaimLease!vars)
<1>1. Tenant' = Tenant /\ Age' = Age
  BY DEF Tenant, Age
<1>2. \A d \in Claimers \ {c} : d \in Holders' <=> d \in Holders
  BY DEF Holders, Overdue
<1>3. Holders' = Holders \/ (c \in Holders /\ Holders' = Holders \ {c})
  BY <1>2 DEF Holders
<1>4. CASE Holders' = Holders
  BY <1>1, <1>4 DEF ClaimLease!vars, Sound
<1>5. CASE c \in Holders /\ Holders' = Holders \ {c}
  BY <1>1, <1>5 DEF ClaimLease!Next, ClaimLease!Kept, ClaimLease!Abandon, Sound
<1> QED
  BY <1>3, <1>4, <1>5


\* The exclusive create grants a free claim.
LEMMA CreateMaps ==
    ASSUME TypeOK, TypeOK', HoldInv, HoldInv', ClaimPast, ClaimPast', Sound, Sound',
           NEW c \in Claimers, Create(c) \/ Recreate(c)
    PROVE  ClaimLease!Grant(c)
<1>t. /\ me \in [Claimers -> Locals] /\ clock \in Nat /\ StaleAfter \in Nat \ {0}
      /\ me[c].at \in Nat /\ me[c].at <= clock /\ Mine(c) # NoFile
  BY BoundsAssumption, MineIsClaim DEF TypeOK, HoldInv, Begun_Past, Locals
<1>1. /\ claim = NoFile /\ claim' = Mine(c) /\ UNCHANGED clock
      /\ \A d \in Claimers \ {c} : me'[d] = me[d]
      /\ me'[c].pc \in {"load", "unguardHeld"} /\ me'[c].at = me[c].at
  BY <1>t DEF Create, Recreate, ClaimUnchanged, Goto, Locals
<1>2. ClaimLease!Lapsed /\ Holders = {}
  BY <1>1, HolderFacts DEF ClaimLease!Lapsed, Tenant
<1>3. claim'.by = c /\ claim'.at = me[c].at /\ claim' # NoFile
  BY <1>1, <1>t DEF Mine
<1>4. Tenant' = {c}
  BY <1>3 DEF Tenant
<1>5. Age' = IF clock >= me[c].at + StaleAfter THEN StaleAfter ELSE clock - me[c].at
  BY <1>1, <1>3 DEF Age
<1>6. Age' \in 0..StaleAfter /\ (Age' = StaleAfter <=> clock >= me[c].at + StaleAfter)
  BY <1>5, <1>t
<1>7. c \in Holders' <=> Age' # StaleAfter
  BY <1>1, <1>6 DEF Holders, Holding, Overdue
<1>8. \A d \in Claimers \ {c} : d \notin Holders'
  BY <1>1, <1>2 DEF Holders, Overdue
<1>9. Holders' = IF Age' = StaleAfter THEN {} ELSE {c}
  BY <1>7, <1>8 DEF Holders
<1> QED
  BY <1>2, <1>4, <1>6, <1>9 DEF ClaimLease!Grant, ClaimLease!Unlapsed

\* A claimer in time removes the stale claim it has seen.
LEMMA RecoverMaps ==
    ASSUME TypeOK, HoldInv, ClaimPast, Sound, Sound', NEW c \in Claimers, DropClaim(c)
    PROVE  ClaimLease!Evict
<1>t. /\ me \in [Claimers -> Locals] /\ clock \in Nat /\ StaleAfter \in Nat \ {0}
      /\ me[c].at \in Nat /\ me[c].at <= clock
      /\ claim # NoFile => claim.at \in Nat
  BY BoundsAssumption DEF TypeOK, HoldInv, Begun_Past, Locals, Claims
<1>1. ~Overdue(c) /\ me[c].pc = "dropClaim"
  BY DEF DropClaim, Slip, Sound, Goto
<1>2. claim # NoFile /\ Stale(claim, c)
  BY <1>1 DEF HoldInv, FilesHeld, InTime
<1>3. Age = StaleAfter
  <2>1. clock >= claim.at + StaleAfter
    BY <1>2, <1>t DEF Stale
  <2> QED
    BY <1>2, <2>1 DEF Age
<1>4. ClaimLease!Lapsed /\ Holders = {}
  BY <1>3, HolderFacts DEF ClaimLease!Lapsed
<1>5. /\ UNCHANGED clock /\ claim' = NoFile /\ me'[c].pc = "recreate"
      /\ \A d \in Claimers \ {c} : me'[d] = me[d]
  BY <1>t DEF DropClaim, ClaimUnchanged, Goto, Locals
<1>6. Holders' = {}
  BY <1>4, <1>5 DEF Holders, Holding, Overdue
<1> QED
  BY <1>4, <1>5, <1>6 DEF ClaimLease!Evict, Tenant, Age

\* A claimer in time that is done removes its own claim.
LEMMA DropMaps ==
    ASSUME TypeOK, HoldInv, ClaimPast, Sound, Sound', NEW c \in Claimers, DropOwn(c)
    PROVE  ClaimLease!GiveBack(c)
<1>t. me \in [Claimers -> Locals]
  BY DEF TypeOK
<1>1. ~Overdue(c) /\ me[c].pc = "drop"
  BY DEF DropOwn, Slip, Sound, Goto
<1>2. c \in Holders
  BY <1>1 DEF Holders, Holding
<1>3. Holders = {c}
  BY <1>2, HolderFacts
<1>4. /\ UNCHANGED clock /\ claim' = NoFile /\ me'[c].pc \in {"idle", "dead"}
      /\ \A d \in Claimers \ {c} : me'[d] = me[d]
  BY <1>t DEF DropOwn, ClaimUnchanged, Goto, AfterCall, Idle, Dead
<1>5. Holders' = {}
  BY <1>3, <1>4 DEF Holders, Holding, Overdue
<1> QED
  BY <1>2, <1>3, <1>4, <1>5 DEF ClaimLease!GiveBack, Tenant, Age

\* Time ages the claim; when it is stale its claimer is overdue.
LEMMA TickMaps ==
    ASSUME TypeOK, HoldInv, ClaimPast, Sound, Sound', Tick
    PROVE  [ClaimLease!Next]_(ClaimLease!vars)
<1>t. /\ clock \in Nat /\ clock' = clock + 1 /\ StaleAfter \in Nat \ {0}
      /\ claim' = claim /\ me' = me
      /\ claim # NoFile => claim.at \in Nat /\ claim.at <= clock
      /\ \A c \in Claimers : me[c].at \in Nat
  BY BoundsAssumption DEF TypeOK, ClaimPast, Claims, Tick, files, Locals
<1>1. Holders' \subseteq Holders
  BY <1>t DEF Holders, Overdue
<1>2. Tenant' = Tenant
  BY <1>t DEF Tenant
<1>3. CASE claim = NoFile \/ Age = StaleAfter
  <2>1. Age' = Age
    <3>1. CASE claim = NoFile
      BY <1>t, <3>1 DEF Age
    <3>2. CASE claim # NoFile /\ Age = StaleAfter
      <4>1. clock >= claim.at + StaleAfter
        BY <1>t, <3>2 DEF Age
      <4> QED
        BY <1>t, <3>2, <4>1 DEF Age
    <3> QED
      BY <1>3, <3>1, <3>2
  <2>2. Holders = {}
    BY <1>3, HolderFacts DEF ClaimLease!Lapsed, Tenant
  <2> QED
    BY <1>1, <1>2, <2>1, <2>2 DEF ClaimLease!vars, Sound
<1>4. CASE claim # NoFile /\ Age # StaleAfter
  <2>1. Age = clock - claim.at /\ ~(clock >= claim.at + StaleAfter)
    BY <1>4 DEF Age
  <2>2. Age' = Age + 1 /\ (Age' = StaleAfter <=> clock' >= claim.at + StaleAfter)
    BY <1>t, <1>4, <2>1 DEF Age
  <2>3. \A c \in Holders : claim.at = me[c].at /\ c \in Claimers
    BY HolderFacts DEF Mine, Holders
  <2>4. \A c \in Holders : c \in Holders' <=> Age' # StaleAfter
    BY <1>t, <2>2, <2>3 DEF Holders, Overdue
  <2>5. Holders' = IF Age' = StaleAfter THEN {} ELSE Holders
    BY <1>1, <2>4
  <2> QED
    BY <1>2, <1>4, <2>2, <2>5 DEF Sound, Tenant, ClaimLease!Next, ClaimLease!Kept, ClaimLease!Pass,
                                  ClaimLease!Unlapsed, ClaimLease!Lapsed
<1> QED
  BY <1>3, <1>4

\* Every step of the claim protocol is a step of the lease, or leaves it alone.
LEMMA StepMaps ==
    ASSUME TypeOK, TypeOK', HoldInv, HoldInv', ClaimPast, ClaimPast', [Next]_vars
    PROVE  [ClaimLease!Next]_(ClaimLease!vars)
<1>t. me \in [Claimers -> Locals]
  BY DEF TypeOK
<1>1. CASE ~Sound'
  BY <1>1 DEF ClaimLease!Next, Sound
<1>2. CASE Sound'
  <2>0. Sound
    BY <1>2, StepKinds DEF Sound, Quiet, Admit, ApplySignal, Begin, Persist, AddReference, WriteSnapshot, Slip,
                           DropReference, LoadReady, Crash
  <2> USE <1>2, <2>0
  <2>1. ASSUME UNCHANGED <<clock, claim, me>> PROVE [ClaimLease!Next]_(ClaimLease!vars)
    BY <2>1 DEF Sound, ClaimLease!vars, Tenant, Age, Holders, Overdue
  <2>2. CASE Admit \/ ApplySignal \/ UNCHANGED vars \/ \E w \in Writers : Persist(w)
    BY <2>1, <2>2 DEF Admit, ApplySignal, vars, files, Persist, AddReference, WriteSnapshot, DropReference
  <2>3. CASE Tick
    BY <2>3, TickMaps
  <2>4. ASSUME NEW c \in Claimers,
               ClaimLease!Grant(c) \/ ClaimLease!GiveBack(c) \/ ClaimLease!Evict
        PROVE  ClaimLease!Next
    BY <2>4 DEF Sound, ClaimLease!Next, ClaimLease!Kept
  <2>5. ASSUME NEW c \in Claimers, StartClaim(c) \/ Reconcile(c) \/ Crash(c) \/ Restart(c)
        PROVE  [ClaimLease!Next]_(ClaimLease!vars)
    <3>1. UNCHANGED <<clock, claim>> /\ \A d \in Claimers \ {c} : me'[d] = me[d]
      BY <1>t, <2>5 DEF StartClaim, Reconcile, BeginReconcile, Scan, Index, Publish, Reconciling, Crash, Restart,
                        ClaimUnchanged, Goto, AfterCall, files
    <3>2. me'[c].pc \notin Holding
      BY <1>t, <2>5 DEF StartClaim, Begun, Reconcile, BeginReconcile, Scan, Index, Publish, Crash, Restart, Dead,
                        Idle, Goto, AfterCall, Holding, Locals
    <3> QED
      BY <3>1, <3>2, QuietMaps DEF Holders
  <2>6. ASSUME NEW c \in Claimers, Acquire(c) PROVE [ClaimLease!Next]_(ClaimLease!vars)
    <3>1. CASE Create(c) \/ Recreate(c)
      BY <2>4, <3>1, CreateMaps
    <3>2. CASE DropClaim(c)
      BY <2>4, <2>6, <3>2, RecoverMaps
    <3>3. CASE ~(Create(c) \/ Recreate(c) \/ DropClaim(c))
      <4>1. UNCHANGED <<clock, claim>> /\ \A d \in Claimers \ {c} : me'[d] = me[d]
        BY <1>t, <2>6, <3>3 DEF Acquire, CreateExists, Retry, InspectGone, InspectRefused, InspectStale,
                CreateGuard, GuardExists, ReadGuard, DropGuard, Recheck, RecreateExists, Reinspect, Unguard,
                ClaimOnlyPc, ClaimUnchanged, Goto, AfterCall, files
      <4>2. me'[c].pc \in Holding => me[c].pc \in Holding /\ me'[c].at = me[c].at
        BY <1>t, <2>6, <3>3 DEF Acquire, CreateExists, Retry, InspectGone, InspectRefused, InspectStale,
                CreateGuard, GuardExists, ReadGuard, DropGuard, Recheck, RecreateExists, Reinspect, Unguard,
                Goto, AfterCall, Holding, Idle, Dead, Locals
      <4> QED
        BY <4>1, <4>2, QuietMaps DEF Holders, Overdue
    <3> QED
      BY <3>1, <3>2, <3>3
  <2>7. ASSUME NEW c \in Claimers, Hold(c) PROVE [ClaimLease!Next]_(ClaimLease!vars)
    <3>1. CASE DropOwn(c)
      BY <2>4, <3>1, DropMaps
    <3>2. CASE ~DropOwn(c)
      <4>1. UNCHANGED <<clock, claim>> /\ \A d \in Claimers \ {c} : me'[d] = me[d]
        BY <1>t, <2>7, <3>2 DEF Hold, LoadReady, LoadOther, Persisted, ReadOwn, ClaimOnlyPc, ClaimUnchanged,
                Goto, AfterCall, files
      <4>2. me'[c].pc \in Holding => me[c].pc \in Holding /\ me'[c].at = me[c].at
        BY <1>t, <2>7, <3>2 DEF Hold, LoadReady, LoadOther, Persisted, ReadOwn, Goto, AfterCall, Holding, Idle,
                Dead, Locals
      <4> QED
        BY <4>1, <4>2, QuietMaps DEF Holders, Overdue
    <3> QED
      BY <3>1, <3>2
  <2> QED
    BY <2>2, <2>3, <2>5, <2>6, <2>7 DEF Next
<1> QED
  BY <1>1, <1>2

\* The claim file of a job implements the lease, for any number of claimers:
\* unless a claimer outlives its claim or a fresh recovery guard is removed, a
\* claim is granted only when it is gone or stale, it is removed by its own
\* claimer in time or once it is stale, and it outlives a dead claimer.
THEOREM Implementation == Spec => LeaseKept
<1>1. Init => ClaimLease!Init /\ ClaimPast
  <2> SUFFICES ASSUME Init PROVE ClaimLease!Init /\ ClaimPast
    OBVIOUS
  <2>1. Holders = {}
    BY DEF Init, Holders, Holding, Idle
  <2> QED
    BY <2>1 DEF Init, ClaimLease!Init, ClaimPast, Tenant, Age
<1>2. Init => HoldInv
  BY BoundsAssumption DEF Init, HoldInv, Begun_Past, SeenStale, FilesHeld, InTime, Idle, Guarding, Holding
<1>3. TypeOK /\ HoldInv /\ [Next]_vars => HoldInv'
  BY HoldStep
<1>4. TypeOK /\ TypeOK' /\ HoldInv /\ ClaimPast /\ [Next]_vars => ClaimPast'
  BY PastStep
<1>5. TypeOK /\ TypeOK' /\ HoldInv /\ HoldInv' /\ ClaimPast /\ ClaimPast' /\ [Next]_vars
         => [ClaimLease!Next]_(ClaimLease!vars)
  BY StepMaps
<1> QED
  BY <1>1, <1>2, <1>3, <1>4, <1>5, TypeCorrect, PTL DEF Spec, LeaseKept, ClaimLease!Spec


\* One claimer in time at most is between the claim of the job and its
\* removal, and the claim file is its own: what the lease promises.
THEOREM OneHolder == Spec => []ClaimLease!HolderIsTenant
<1>1. StaleAfter \in Nat \ {0}
  BY BoundsAssumption
<1>2. ClaimLease!Spec => []ClaimLease!HolderIsTenant
  BY <1>1, ClaimLease!AtMostOneHolder
<1> QED
  BY <1>2, Implementation, PTL DEF LeaseKept
===============================================================================
