------------------------------- MODULE JobClaims -------------------------------
(***************************************************************************)
(* A ready job is claimed by one of several processes (the watch service   *)
(* and manual runs) through a claim file with stale recovery, while        *)
(* signals pause, resume and end it.  Every write of the job is a write of *)
(* its snapshot and of its reference in the directory of ready jobs, which *)
(* the service lists (local-runtime-adapter.js, applyJobSignal of          *)
(* signal-manager.js, the claim of runJobNow).                             *)
(*                                                                         *)
(* Abstractions.  One job.  A claimer is one operating-system process and  *)
(* makes one claim at a time, known by its claimer and the time it began;  *)
(* First is the first service, a restarted service is another claimer, and *)
(* a manual run is a claimer that makes one claim and is gone.             *)
(* Cancellation and timeout are both "ended".  Exclusive creation is       *)
(* atomic (a link).  Bounds: MaxClock ends the clock, MaxSignals the       *)
(* signals, MaxCrashes the crashes, and a claimer is kept for a restart of *)
(* the service; MaxAttempts is JOB_CLAIM_LOCK_ACQUIRE_MAX_ATTEMPTS.        *)
(***************************************************************************)
EXTENDS Naturals

CONSTANTS Claimers, First, Host, NoFile, NoClaimer,
          StaleAfter, MaxAttempts, MaxClock, MaxSignals, MaxCrashes

ASSUME ClaimersAssumption ==
    /\ First \in Claimers
    /\ Host \notin Claimers /\ NoClaimer \notin Claimers
    /\ \A c \in Claimers, t \in 0..MaxClock : NoFile # [by |-> c, at |-> t]

ASSUME BoundsAssumption ==
    /\ StaleAfter \in Nat \ {0} /\ MaxAttempts \in Nat \ {0}
    /\ MaxClock \in Nat /\ MaxSignals \in Nat /\ MaxCrashes \in Nat

VARIABLES
    clock,
    job, ref,               \* the snapshot's status; its reference among the ready jobs
    queue,                  \* whether the state file says the references are reconciled
    claim, guard,           \* the claim file and its recovery guard
    me,                     \* claimers: step, time the claim began, claim it read, attempts
    put,                    \* persistJob in progress: step and status
    service,                \* the claimer that is the watch service
    signals, crashes,       \* bounds
    readied, granted,       \* history: writes of "ready", claims granted
    slips                   \* history: what the protocol does not answer for

files == <<claim, guard>>
record == <<job, ref, queue>>
history == <<readied, granted>>
bounds == <<signals, crashes>>
vars == <<clock, record, files, me, put, service, bounds, history, slips>>

Writers == Claimers \union {Host}
Claims == [by : Claimers, at : 0..MaxClock]
Mine(c) == [by |-> c, at |-> me[c].at]
Steps == {"idle", "create", "inspect", "retry", "guard", "readGuard", "dropGuard", "recheck",
          "dropClaim", "recreate", "reinspect", "unguardHeld", "unguardLost", "unguardRefused",
          "load", "persist", "release", "drop", "start", "scan", "index", "publish", "dead"}
Locals == [pc : Steps, at : 0..MaxClock, seen : Claims \union {NoFile}, attempt : 0..MaxAttempts]
NoPut == [step |-> "none", to |-> "none"]
Puts == {NoPut} \union [step : {"reference", "snapshot", "obsolete"}, to : {"ready", "active", "paused", "ended"}]
Idle == [pc |-> "idle", at |-> 0, seen |-> NoFile, attempt |-> 0]
Dead == [Idle EXCEPT !.pc = "dead"]
Begun(t) == [pc |-> "create", at |-> t, seen |-> NoFile, attempt |-> 0]

\* isJobClaimLockStale, with the time the claim of c began
Stale(f, c) == me[c].at >= f.at + StaleAfter

\* c goes on although others may take its claim for stale
Overdue(c) == clock >= me[c].at + StaleAfter
Slip(c) == slips' = IF Overdue(c) THEN slips \union {"overdue"} ELSE slips

\* The locals of a call end with it, and the process of a manual run ends.
AfterCall(c) == IF c = service THEN Idle ELSE Dead

Goto(c, from, to) ==
    me[c].pc = from /\ me' = [me EXCEPT ![c] = IF to = "idle" THEN AfterCall(c) ELSE [@ EXCEPT !.pc = to]]

\* A claimer is left for a restart of the service.
Replaceable(c) == \E d \in Claimers \ {c, service} : me[d] = Idle

-------------------------------------------------------------------------------
(* persistSchedulerQueuedSnapshot: reference, snapshot, obsolete reference *)

WriteFirst(to) == "snapshot"

\* The first step for a status; only "ready" has a directory of references.
FirstStep(to) == IF to = "ready" THEN "reference" ELSE "snapshot"

Begin(w, to) ==
    /\ put' = [put EXCEPT ![w] = [step |-> FirstStep(to), to |-> to]]
    /\ slips' = IF \E v \in Writers \ {w} : put[v] # NoPut THEN slips \union {"overlap"} ELSE slips

AddReference(w) ==
    /\ put[w].step = "reference"
    /\ ref' = TRUE
    /\ put' = [put EXCEPT ![w].step = "snapshot"]
    /\ UNCHANGED <<clock, job, queue, files, me, service, bounds, history, slips>>

WriteSnapshot(w) ==
    /\ put[w].step = "snapshot"
    /\ job' = put[w].to
    /\ readied' = IF put[w].to = "ready" THEN readied + 1 ELSE readied
    /\ granted' = IF put[w].to = "active" THEN granted + 1 ELSE granted
    /\ put' = [put EXCEPT ![w] = IF put[w].to = "ready" THEN NoPut ELSE [step |-> "obsolete", to |-> put[w].to]]
    /\ IF w \in Claimers THEN Slip(w) ELSE UNCHANGED slips
    /\ UNCHANGED <<clock, ref, queue, files, me, service, bounds>>

DropReference(w) ==
    /\ put[w].step = "obsolete"
    /\ ref' = FALSE
    /\ put' = [put EXCEPT ![w] = NoPut]
    /\ UNCHANGED <<clock, job, queue, files, me, service, bounds, history, slips>>

-------------------------------------------------------------------------------
(* Signals to the job, and its admission.                                  *)

\* What a signal makes of a job in a status.  A cancellation or a timeout of
\* an ended job, a second pause and a resume of a job that is not paused
\* change nothing.
SignalResults(status) ==
    (IF status = "ended" THEN {} ELSE {"ended"})
    \union (IF status \in {"ended", "paused"} THEN {} ELSE {"paused"})
    \union (IF status = "paused" THEN {"ready"} ELSE {})

ApplySignal ==
    /\ put[Host] = NoPut /\ signals < MaxSignals
    /\ \E to \in SignalResults(job) : Begin(Host, to)
    /\ signals' = signals + 1
    /\ UNCHANGED <<clock, record, files, me, service, crashes, history>>

Admit ==
    /\ job = "admitted" /\ put[Host] = NoPut
    /\ Begin(Host, "ready")
    /\ UNCHANGED <<clock, record, files, me, service, bounds, history>>

-------------------------------------------------------------------------------
(* acquireJobClaimLock.                                                    *)

ClaimUnchanged == UNCHANGED <<clock, record, service, bounds, history>>
ClaimOnlyPc == ClaimUnchanged /\ UNCHANGED <<files, put, slips>>

\* The service lists the ready jobs: by the references when they are
\* reconciled, which it validates by the snapshot, else by the snapshots.
Listed == job = "ready" /\ (queue = "ready" => ref)

\* A manual run names the job.
StartClaim(c) ==
    /\ job = "ready" /\ (c = service => Listed)
    /\ me[c] = Idle /\ (c # service => Replaceable(c))
    /\ me' = [me EXCEPT ![c] = Begun(clock)]
    /\ ClaimUnchanged /\ UNCHANGED <<files, put, slips>>

Create(c) ==
    /\ claim = NoFile
    /\ Goto(c, "create", "load")
    /\ claim' = Mine(c)
    /\ ClaimUnchanged /\ UNCHANGED <<guard, put, slips>>

CreateExists(c) ==
    /\ claim # NoFile
    /\ Goto(c, "create", "inspect")
    /\ ClaimOnlyPc

\* The next attempt, or the last one
Retry(c) ==
    /\ me[c].pc = "retry"
    /\ me' = [me EXCEPT ![c].pc = "create", ![c].attempt = @ + 1]
    /\ ClaimUnchanged /\ UNCHANGED <<files, put, slips>>

AttemptPast(c) == me[c].attempt > MaxAttempts

LastAttempt(c) == me[c].attempt = MaxAttempts

\* The claim is gone, fresh, or stale and to be recovered.
InspectGone(c) ==
    /\ claim = NoFile
    /\ Goto(c, "inspect", IF LastAttempt(c) THEN "idle" ELSE "retry")
    /\ ClaimOnlyPc

RecoverAny(c) == ~LastAttempt(c)
RecoverNone(c) == FALSE
Recover(c) == ~LastAttempt(c) /\ Stale(claim, c)

InspectRefused(c) ==
    /\ claim # NoFile /\ ~Recover(c)
    /\ Goto(c, "inspect", "idle")
    /\ ClaimOnlyPc

InspectStale(c) ==
    /\ claim # NoFile /\ Recover(c)
    /\ me[c].pc = "inspect"
    /\ me' = [me EXCEPT ![c].pc = "guard", ![c].seen = claim]
    /\ ClaimUnchanged /\ UNCHANGED <<files, put, slips>>

CreateGuard(c) ==
    /\ guard = NoFile
    /\ Goto(c, "guard", "recheck")
    /\ guard' = Mine(c)
    /\ ClaimUnchanged /\ UNCHANGED <<claim, put, slips>>

GuardExists(c) ==
    /\ guard # NoFile
    /\ Goto(c, "guard", "readGuard")
    /\ ClaimOnlyPc

ReadGuard(c) ==
    /\ Goto(c, "readGuard", IF guard # NoFile /\ Stale(guard, c) THEN "dropGuard" ELSE "retry")
    /\ ClaimOnlyPc

\* Whoever's guard it is by now
DropGuard(c) ==
    /\ Goto(c, "dropGuard", "retry")
    /\ guard' = NoFile
    /\ slips' = IF guard # NoFile /\ ~Stale(guard, c) THEN slips \union {"guard"} ELSE slips
    /\ ClaimUnchanged /\ UNCHANGED <<claim, put>>

StillStale(c) == claim = me[c].seen

Recheck(c) ==
    /\ me[c].pc = "recheck"
    /\ me' = [me EXCEPT ![c].pc = IF StillStale(c) THEN "dropClaim" ELSE "recreate", ![c].seen = NoFile]
    /\ ClaimUnchanged /\ UNCHANGED <<files, put, slips>>

DropClaim(c) ==
    /\ Goto(c, "dropClaim", "recreate")
    /\ claim' = NoFile
    /\ Slip(c)
    /\ ClaimUnchanged /\ UNCHANGED <<guard, put>>

Recreate(c) ==
    /\ claim = NoFile
    /\ Goto(c, "recreate", "unguardHeld")
    /\ claim' = Mine(c)
    /\ ClaimUnchanged /\ UNCHANGED <<guard, put, slips>>

RecreateExists(c) ==
    /\ claim # NoFile
    /\ Goto(c, "recreate", "reinspect")
    /\ ClaimOnlyPc

Reinspect(c) ==
    /\ Goto(c, "reinspect", IF claim = NoFile THEN "unguardLost" ELSE "unguardRefused")
    /\ ClaimOnlyPc

\* Whoever's guard it is by now
Unguard(c) ==
    /\ \/ Goto(c, "unguardHeld", "load") \/ Goto(c, "unguardLost", "retry") \/ Goto(c, "unguardRefused", "idle")
    /\ guard' = NoFile
    /\ Slip(c)
    /\ ClaimUnchanged /\ UNCHANGED <<claim, put>>

-------------------------------------------------------------------------------
(* claimReadyJob under the claim, and its release.                         *)

LoadReady(c) ==
    /\ job = "ready"
    /\ Goto(c, "load", "persist")
    /\ Begin(c, "active")
    /\ ClaimUnchanged /\ UNCHANGED files

LoadOther(c) ==
    /\ job # "ready"
    /\ Goto(c, "load", "release")
    /\ ClaimOnlyPc

Persisted(c) ==
    /\ put[c] = NoPut
    /\ Goto(c, "persist", "release")
    /\ ClaimOnlyPc

ReadOwn(c) ==
    /\ Goto(c, "release", IF claim = Mine(c) THEN "drop" ELSE "idle")
    /\ ClaimOnlyPc

\* Whoever's claim it is by now
DropOwn(c) ==
    /\ Goto(c, "drop", "idle")
    /\ claim' = NoFile
    /\ Slip(c)
    /\ ClaimUnchanged /\ UNCHANGED <<guard, put>>

-------------------------------------------------------------------------------
(* reconcileSchedulerQueues at the start of the service.                   *)

Reconciling == UNCHANGED <<clock, job, files, put, service, bounds, history, slips>>

BeginReconcile(c) ==
    /\ Goto(c, "start", "scan")
    /\ queue' = "absent"
    /\ Reconciling /\ UNCHANGED ref

Scan(c) ==
    /\ Goto(c, "scan", IF job = "ready" THEN "index" ELSE "publish")
    /\ Reconciling /\ UNCHANGED <<ref, queue>>

Index(c) ==
    /\ Goto(c, "index", "publish")
    /\ ref' = TRUE
    /\ Reconciling /\ UNCHANGED queue

Publish(c) ==
    /\ Goto(c, "publish", "idle")
    /\ queue' = "ready"
    /\ Reconciling /\ UNCHANGED ref

-------------------------------------------------------------------------------
(* Time and failures.                                                      *)

Tick ==
    /\ clock < MaxClock
    /\ clock' = clock + 1
    /\ UNCHANGED <<record, files, me, put, service, bounds, history, slips>>

\* A process dies at any step; what it leaves can still become stale.
Crash(c) ==
    /\ crashes < MaxCrashes /\ clock + StaleAfter <= MaxClock
    /\ me[c] # Dead /\ (IF c = service THEN Replaceable(c) ELSE me[c] # Idle)
    /\ crashes' = crashes + 1
    /\ me' = [me EXCEPT ![c] = Dead]
    /\ put' = [put EXCEPT ![c] = NoPut]
    /\ service' = IF c = service THEN NoClaimer ELSE service
    /\ UNCHANGED <<clock, record, files, signals, history, slips>>

Restart(c) ==
    /\ service = NoClaimer
    /\ Goto(c, "idle", "start")
    /\ service' = c
    /\ UNCHANGED <<clock, record, files, put, bounds, history, slips>>

-------------------------------------------------------------------------------

Init ==
    /\ clock = 0
    /\ job = "admitted" /\ ref = FALSE /\ queue = "absent"
    /\ claim = NoFile /\ guard = NoFile
    /\ me = [c \in Claimers |-> IF c = First THEN [Idle EXCEPT !.pc = "start"] ELSE Idle]
    /\ put = [w \in Writers |-> NoPut]
    /\ service = First
    /\ signals = 0 /\ crashes = 0 /\ readied = 0 /\ granted = 0
    /\ slips = {}

Persist(w) == AddReference(w) \/ WriteSnapshot(w) \/ DropReference(w)

Acquire(c) ==
    \/ Create(c) \/ CreateExists(c) \/ Retry(c)
    \/ InspectGone(c) \/ InspectRefused(c) \/ InspectStale(c)
    \/ CreateGuard(c) \/ GuardExists(c) \/ ReadGuard(c) \/ DropGuard(c)
    \/ Recheck(c) \/ DropClaim(c) \/ Recreate(c) \/ RecreateExists(c) \/ Reinspect(c) \/ Unguard(c)

Hold(c) == LoadReady(c) \/ LoadOther(c) \/ Persisted(c) \/ ReadOwn(c) \/ DropOwn(c)

Reconcile(c) == BeginReconcile(c) \/ Scan(c) \/ Index(c) \/ Publish(c)

Next ==
    \/ Admit \/ ApplySignal \/ Tick
    \/ \E w \in Writers : Persist(w)
    \/ \E c \in Claimers : \/ StartClaim(c) \/ Acquire(c) \/ Hold(c) \/ Reconcile(c)
                           \/ Crash(c) \/ Restart(c)

Spec == Init /\ [][Next]_vars

\* A process that is alive goes on, time passes, and a service is running
\* that ticks again and again.
FairSpec ==
    /\ Spec
    /\ WF_vars(Tick)
    /\ WF_vars(Persist(Host))
    /\ \A c \in Claimers : WF_vars(Persist(c) \/ Acquire(c) \/ Hold(c) \/ Reconcile(c))
    /\ WF_vars(\E c \in Claimers : Restart(c))
    /\ SF_vars(\E c \in Claimers : c = service /\ StartClaim(c))

-------------------------------------------------------------------------------
(* Properties.                                                             *)

\* Type invariant.
TypeOK ==
    /\ clock \in 0..MaxClock
    /\ job \in {"admitted", "ready", "active", "paused", "ended"}
    /\ ref \in BOOLEAN /\ queue \in {"absent", "ready"}
    /\ claim \in Claims \union {NoFile} /\ guard \in Claims \union {NoFile}
    /\ me \in [Claimers -> Locals] /\ put \in [Writers -> Puts]
    /\ service \in Claimers \union {NoClaimer}
    /\ signals \in 0..MaxSignals /\ crashes \in 0..MaxCrashes
    /\ readied \in Nat /\ granted \in Nat
    /\ slips \subseteq {"overdue", "guard", "overlap"}

\* A job is claimed at most once for each time it was made ready, with
\* claimers that die, claims recovered from them and signals at any moment, as
\* long as no claimer outlives its claim and no fresh recovery guard is removed.
ClaimedOnce == slips \subseteq {"overlap"} => granted <= readied

\* A ready job is listed by the service: its reference is there whenever its
\* snapshot is ready, also when a writer died between its writes, unless two
\* writes overlapped.
ReadyIsQueued == "overlap" \notin slips /\ job = "ready" => ref

\* A ready job is claimed or taken back, whichever claimer died with the
\* claim file or the recovery guard in its hands.
ReadyGetsClaimed == job = "ready" ~> job # "ready" \/ "overlap" \in slips

-------------------------------------------------------------------------------
(* The claim file implements the abstract Lease.  Its tenant is the        *)
(* claimer it names, its age counts from the time the claim began, the     *)
(* holders are the claimers in time between the claim and its removal.     *)

Holding == {"unguardHeld", "load", "persist", "release", "drop"}
Tenant == IF claim = NoFile THEN {} ELSE {claim.by}
Age ==
    IF claim = NoFile THEN 0
    ELSE IF clock >= claim.at + StaleAfter THEN StaleAfter ELSE clock - claim.at
Holders == {c \in Claimers : me[c].pc \in Holding /\ ~Overdue(c)}

ClaimLease == INSTANCE Lease WITH
    Contenders <- Claimers, tenant <- Tenant, age <- Age, holders <- Holders,
    void <- ~(slips \subseteq {"overlap"})

\* Granted and given back as a lease: a job is claimed only when its claim is
\* gone or stale, nobody removes the claim of a claimer in time, and the claim
\* of a dead one lasts until it is stale.
LeaseKept == ClaimLease!Spec
===============================================================================
