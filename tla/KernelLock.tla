------------------------------ MODULE KernelLock ------------------------------
(***************************************************************************)
(* The singleton kernel lock of the OpenMAS OS service                     *)
(* (src/os/service/kernel-lock.js): a JSON file created with open('wx'),   *)
(* refreshed by an atomic rename after every tick, and taken over by       *)
(* another service once it has not been refreshed for staleAfterMs.        *)
(* A take-over is serialized by a second file, the recovery guard.         *)
(*                                                                         *)
(* Every file operation the code awaits is a step of its own, because the  *)
(* contenders are separate operating system processes.  A file opened with *)
(* 'wx' exists before its content does: written = FALSE is that window, in *)
(* which a reader gets a JSON parse error.                                 *)
(***************************************************************************)
EXTENDS Integers, FiniteSets

CONSTANTS
  Services,     \* service processes that contend for one project
  NoFile,       \* the file does not exist
  StaleAfter,   \* staleAfterMs, in clock units
  MaxClock,     \* bound on the clock
  MaxAttempts   \* bound on the claims one service makes

ASSUME ConstantsOK ==
  /\ StaleAfter \in Nat \ {0}
  /\ MaxClock \in Nat
  /\ MaxAttempts \in Nat
  /\ NoFile \notin [owner : Services, attempt : Nat, at : Nat, written : BOOLEAN]

VARIABLES
  clock,      \* the wall clock all processes of the host read
  lockFile,   \* the kernel lock file
  guardFile,  \* the recovery guard file
  pc,         \* where each service is in claim, refresh or release
  attempt,    \* with the service, the lockId (and recoveryId) of a claim
  stamp,      \* the timestamp the service puts in the next file it writes
  lease,      \* refreshedAt of the lock as this service last wrote it
  seen,       \* existingLock.lockId, the stale lock a recovery replaces
  won,        \* replaceStaleKernelLock has a lock to return
  slips       \* history: the late or blind file operations so far

vars == <<clock, lockFile, guardFile, pc, attempt, stamp, lease, seen, won, slips>>

(***************************************************************************)
(* Files.  An id is the pair of a service and its attempt: the code draws  *)
(* a fresh UUID for every claim.                                           *)
(***************************************************************************)
Ids   == Services \X Nat
Files == [owner : Services, attempt : Nat, at : Nat, written : BOOLEAN]

Stamped(p, t, complete) ==
  [owner |-> p, attempt |-> attempt[p], at |-> t, written |-> complete]

IdOf(f) == <<f.owner, f.attempt>>

\* The file can be read, and is the one p wrote in its current attempt.
Mine(f, p) == f # NoFile /\ f.written /\ IdOf(f) = <<p, attempt[p]>>

\* The file is the one p created and has not filled yet.
MineTorn(f, p) == f # NoFile /\ ~f.written /\ IdOf(f) = <<p, attempt[p]>>

Torn(f) == f # NoFile /\ ~f.written

\* Faulty variant for a mutation run: stale one clock unit too early.
StaleEarly(f, t) == f # NoFile /\ f.written /\ t - f.at >= StaleAfter - 1

\* The file can be read, and ageMs >= staleAfterMs by the clock reading t.
StaleAt(f, t) == f # NoFile /\ f.written /\ t - f.at >= StaleAfter

Steps ==
  {"out", "open", "write", "audit", "abort", "inspect", "guard_open",
   "guard_write", "guard_inspect", "guard_remove", "guard_retry", "recheck",
   "fresh_open", "fresh_write", "guard_check", "publish", "cleanup",
   "cleanup_remove", "holding", "refresh_publish", "release_unlink"}

Slips == {"late_refresh", "late_release", "guard_removed"}

Goto(p, step) == pc' = [pc EXCEPT ![p] = step]

Init ==
  /\ clock = 0
  /\ lockFile = NoFile
  /\ guardFile = NoFile
  /\ pc = [p \in Services |-> "out"]
  /\ attempt = [p \in Services |-> 0]
  /\ stamp = [p \in Services |-> 0]
  /\ lease = [p \in Services |-> 0]
  /\ seen = [p \in Services |-> <<p, 0>>]
  /\ won = [p \in Services |-> FALSE]
  /\ slips = {}

(***************************************************************************)
(* Faulty variants of two operations, for the mutation runs: a claim that  *)
(* stamps the recovered lock with the time it has left, and a recovery     *)
(* that does not look at the lock again under the guard.                   *)
(***************************************************************************)
InspectLockStampsAge(p) ==
  /\ pc[p] = "inspect"
  /\ StaleAt(lockFile, clock)
  /\ seen' = [seen EXCEPT ![p] = IdOf(lockFile)]
  /\ stamp' = [stamp EXCEPT ![p] = StaleAfter - (clock - lockFile.at)]
  /\ Goto(p, "guard_open")
  /\ UNCHANGED <<clock, lockFile, guardFile, attempt, lease, won, slips>>

RecheckBlindly(p) ==
  /\ pc[p] = "recheck"
  /\ Goto(p, "guard_check")
  /\ UNCHANGED <<clock, lockFile, guardFile, attempt, stamp, lease, seen, won, slips>>

(***************************************************************************)
(* claimKernelLock: the exclusive create, and the audit event behind it.   *)
(***************************************************************************)
BeginClaim(p) ==
  /\ pc[p] = "out"
  /\ attempt[p] < MaxAttempts
  /\ attempt' = [attempt EXCEPT ![p] = @ + 1]
  /\ stamp' = [stamp EXCEPT ![p] = clock]
  /\ won' = [won EXCEPT ![p] = FALSE]
  /\ Goto(p, "open")
  /\ UNCHANGED <<clock, lockFile, guardFile, lease, seen, slips>>

OpenLock(p) ==
  /\ pc[p] = "open"
  /\ \/ /\ lockFile = NoFile
        /\ lockFile' = Stamped(p, stamp[p], FALSE)
        /\ Goto(p, "write")
     \/ /\ lockFile # NoFile
        /\ Goto(p, "inspect")
        /\ UNCHANGED lockFile
  /\ UNCHANGED <<clock, guardFile, attempt, stamp, lease, seen, won, slips>>

\* The content lands in the file p opened, if that file is still linked.
FillLock(p) ==
  /\ lockFile' = IF MineTorn(lockFile, p) THEN [lockFile EXCEPT !.written = TRUE]
                 ELSE lockFile
  /\ lease' = [lease EXCEPT ![p] = stamp[p]]

WriteLock(p) ==
  /\ pc[p] = "write"
  /\ FillLock(p)
  /\ Goto(p, "audit")
  /\ UNCHANGED <<clock, guardFile, attempt, stamp, seen, won, slips>>

\* appendKernelLockEvent succeeds, or the claim is rolled back and thrown.
Audit(p) ==
  /\ pc[p] = "audit"
  /\ \E next \in {"holding", "abort"} : Goto(p, next)
  /\ UNCHANGED <<clock, lockFile, guardFile, attempt, stamp, lease, seen, won, slips>>

\* The create failed with EEXIST: read the existing lock.  A lock released in
\* the meantime (a TypeError on null) or not yet written (a parse error) makes
\* the claim throw, a fresh one makes it return "refused".
InspectLock(p) ==
  /\ pc[p] = "inspect"
  /\ \/ /\ ~StaleAt(lockFile, clock)
        /\ Goto(p, "out")
        /\ UNCHANGED <<stamp, seen>>
     \/ /\ StaleAt(lockFile, clock)
        /\ seen' = [seen EXCEPT ![p] = IdOf(lockFile)]
        /\ stamp' = [stamp EXCEPT ![p] = clock]
        /\ Goto(p, "guard_open")
  /\ UNCHANGED <<clock, lockFile, guardFile, attempt, lease, won, slips>>

(***************************************************************************)
(* replaceStaleKernelLock: take the recovery guard ...                     *)
(***************************************************************************)
OpenGuard(p) ==
  /\ pc[p] \in {"guard_open", "guard_retry"}
  /\ \/ /\ guardFile = NoFile
        /\ guardFile' = Stamped(p, stamp[p], FALSE)
        /\ Goto(p, "guard_write")
     \/ /\ guardFile # NoFile
        /\ Goto(p, IF pc[p] = "guard_open" THEN "guard_inspect" ELSE "out")
        /\ UNCHANGED guardFile
  /\ UNCHANGED <<clock, lockFile, attempt, stamp, lease, seen, won, slips>>

WriteGuard(p) ==
  /\ pc[p] = "guard_write"
  /\ guardFile' = IF MineTorn(guardFile, p) THEN [guardFile EXCEPT !.written = TRUE]
                  ELSE guardFile
  /\ Goto(p, "recheck")
  /\ UNCHANGED <<clock, lockFile, attempt, stamp, lease, seen, won, slips>>

\* A guard gone meanwhile, or stale by this claim's own timestamp, is removed.
InspectGuard(p) ==
  /\ pc[p] = "guard_inspect"
  /\ Goto(p, IF guardFile = NoFile \/ StaleAt(guardFile, stamp[p])
             THEN "guard_remove" ELSE "out")
  /\ UNCHANGED <<clock, lockFile, guardFile, attempt, stamp, lease, seen, won, slips>>

\* The unlink removes whatever guard is there now, seen or not.
RemoveGuard(p) ==
  /\ pc[p] = "guard_remove"
  /\ guardFile' = NoFile
  /\ slips' = IF guardFile = NoFile THEN slips ELSE slips \union {"guard_removed"}
  /\ Goto(p, "guard_retry")
  /\ UNCHANGED <<clock, lockFile, attempt, stamp, lease, seen, won>>

(***************************************************************************)
(* ... look at the lock again under the guard, and replace it.             *)
(***************************************************************************)
Recheck(p) ==
  /\ pc[p] = "recheck"
  /\ Goto(p, IF lockFile = NoFile THEN "fresh_open"
             ELSE IF StaleAt(lockFile, stamp[p]) /\ IdOf(lockFile) = seen[p]
             THEN "guard_check" ELSE "cleanup")
  /\ UNCHANGED <<clock, lockFile, guardFile, attempt, stamp, lease, seen, won, slips>>

FreshOpen(p) ==
  /\ pc[p] = "fresh_open"
  /\ \/ /\ lockFile = NoFile
        /\ lockFile' = Stamped(p, stamp[p], FALSE)
        /\ Goto(p, "fresh_write")
     \/ /\ lockFile # NoFile
        /\ Goto(p, "cleanup")
        /\ UNCHANGED lockFile
  /\ UNCHANGED <<clock, guardFile, attempt, stamp, lease, seen, won, slips>>

FreshWrite(p) ==
  /\ pc[p] = "fresh_write"
  /\ FillLock(p)
  /\ won' = [won EXCEPT ![p] = TRUE]
  /\ Goto(p, "cleanup")
  /\ UNCHANGED <<clock, guardFile, attempt, stamp, seen, slips>>

CheckGuard(p) ==
  /\ pc[p] = "guard_check"
  /\ Goto(p, IF Mine(guardFile, p) THEN "publish" ELSE "cleanup")
  /\ UNCHANGED <<clock, lockFile, guardFile, attempt, stamp, lease, seen, won, slips>>

\* publishMutableJsonSnapshot: a rename over whatever the file is now, or an
\* access error that outlasts the retries.
Publish(p) ==
  /\ pc[p] = "publish"
  /\ \/ /\ lockFile' = Stamped(p, stamp[p], TRUE)
        /\ lease' = [lease EXCEPT ![p] = stamp[p]]
        /\ won' = [won EXCEPT ![p] = TRUE]
     \/ UNCHANGED <<lockFile, lease, won>>
  /\ Goto(p, "cleanup")
  /\ UNCHANGED <<clock, guardFile, attempt, stamp, seen, slips>>

\* The finally block.  A guard that cannot be parsed makes it throw, which
\* discards a lock already published.
AfterRecovery(p) == IF won[p] THEN "audit" ELSE "out"

Cleanup(p) ==
  /\ pc[p] = "cleanup"
  /\ Goto(p, IF Mine(guardFile, p) THEN "cleanup_remove"
             ELSE IF Torn(guardFile) THEN "out"
             ELSE AfterRecovery(p))
  /\ UNCHANGED <<clock, lockFile, guardFile, attempt, stamp, lease, seen, won, slips>>

CleanupRemove(p) ==
  /\ pc[p] = "cleanup_remove"
  /\ guardFile' = NoFile
  /\ Goto(p, AfterRecovery(p))
  /\ UNCHANGED <<clock, lockFile, attempt, stamp, lease, seen, won, slips>>

(***************************************************************************)
(* refreshKernelLock: read, compare the owner, rename.  A refresh that is  *)
(* refused, misses the file or cannot parse it changes nothing, and the    *)
(* service loop goes on ticking: no step.                                  *)
(***************************************************************************)
RefreshRead(p) ==
  /\ pc[p] = "holding"
  /\ Mine(lockFile, p)
  /\ stamp' = [stamp EXCEPT ![p] = clock]
  /\ Goto(p, "refresh_publish")
  /\ UNCHANGED <<clock, lockFile, guardFile, attempt, lease, seen, won, slips>>

Expired(p) == clock - lease[p] >= StaleAfter

\* Faulty variant for a mutation run: a refresh that fails counts as made.
RefreshAssumed(p) ==
  /\ pc[p] = "refresh_publish"
  /\ lockFile' \in {lockFile, Stamped(p, stamp[p], TRUE)}
  /\ lease' = [lease EXCEPT ![p] = stamp[p]]
  /\ slips' = IF Expired(p) THEN slips \union {"late_refresh"} ELSE slips
  /\ Goto(p, "holding")
  /\ UNCHANGED <<clock, guardFile, attempt, stamp, seen, won>>

RefreshPublish(p) ==
  /\ pc[p] = "refresh_publish"
  /\ \/ /\ lockFile' = Stamped(p, stamp[p], TRUE)
        /\ lease' = [lease EXCEPT ![p] = stamp[p]]
        /\ slips' = IF Expired(p) THEN slips \union {"late_refresh"} ELSE slips
     \/ UNCHANGED <<lockFile, lease, slips>>
  /\ Goto(p, "holding")
  /\ UNCHANGED <<clock, guardFile, attempt, stamp, seen, won>>

(***************************************************************************)
(* releaseKernelLock, at shutdown or after a failed audit: read, compare   *)
(* the owner, unlink whatever is there.                                    *)
(***************************************************************************)
ReleaseRead(p) ==
  /\ pc[p] \in {"holding", "abort"}
  /\ Goto(p, IF Mine(lockFile, p) THEN "release_unlink" ELSE "out")
  /\ UNCHANGED <<clock, lockFile, guardFile, attempt, stamp, lease, seen, won, slips>>

ReleaseUnlink(p) ==
  /\ pc[p] = "release_unlink"
  /\ lockFile' = NoFile
  /\ slips' = IF Expired(p) THEN slips \union {"late_release"} ELSE slips
  /\ Goto(p, "out")
  /\ UNCHANGED <<clock, guardFile, attempt, stamp, lease, seen, won>>

\* The process dies; its files stay.
Crash(p) ==
  /\ pc[p] # "out"
  /\ Goto(p, "out")
  /\ UNCHANGED <<clock, lockFile, guardFile, attempt, stamp, lease, seen, won, slips>>

Tick ==
  /\ clock < MaxClock
  /\ clock' = clock + 1
  /\ UNCHANGED <<lockFile, guardFile, pc, attempt, stamp, lease, seen, won, slips>>

Claim(p) ==
  \/ BeginClaim(p)   \/ OpenLock(p)    \/ WriteLock(p)  \/ Audit(p)
  \/ InspectLock(p)  \/ OpenGuard(p)   \/ WriteGuard(p) \/ InspectGuard(p)
  \/ RemoveGuard(p)  \/ Recheck(p)     \/ FreshOpen(p)  \/ FreshWrite(p)
  \/ CheckGuard(p)   \/ Publish(p)     \/ Cleanup(p)    \/ CleanupRemove(p)

Own(p) ==
  \/ RefreshRead(p) \/ RefreshPublish(p) \/ ReleaseRead(p) \/ ReleaseUnlink(p)

Next == Tick \/ \E p \in Services : Claim(p) \/ Own(p) \/ Crash(p)

Spec == Init /\ [][Next]_vars

(***************************************************************************)
(* Properties                                                              *)
(***************************************************************************)

\* The shape of every variable.
TypeOK ==
  /\ clock \in Nat
  /\ lockFile \in Files \union {NoFile}
  /\ guardFile \in Files \union {NoFile}
  /\ pc \in [Services -> Steps]
  /\ attempt \in [Services -> Nat]
  /\ stamp \in [Services -> Nat]
  /\ lease \in [Services -> Nat]
  /\ seen \in [Services -> Ids]
  /\ won \in [Services -> BOOLEAN]
  /\ slips \in SUBSET Slips

\* p has been told, or is about to be told, that it owns the kernel lock.
Owner(p) ==
  \/ pc[p] \in {"audit", "abort", "holding", "refresh_publish", "release_unlink"}
  \/ pc[p] \in {"cleanup", "cleanup_remove"} /\ won[p]

Holds(p) == Owner(p) /\ ~Expired(p)

\* The lock is a lease: as long as no owner refreshed or released after its
\* lease ran out and no contender removed a recovery guard of another, two
\* services never own the kernel lock with unexpired leases.
LeaseMutex ==
  slips = {} => \A p, q \in Services : Holds(p) /\ Holds(q) => p = q

\* Under the same proviso nobody but its owner changes or removes a lock
\* file before it is stale: claimers, losers of a recovery and services
\* whose claim is rolled back leave a fresh lock alone.
FreshLockUntouched ==
  [][ /\ slips' = {}
      /\ lockFile # NoFile
      /\ lockFile.written
      /\ ~StaleAt(lockFile, clock)
      /\ lockFile' # lockFile
      => Mine(lockFile, lockFile.owner) /\ pc[lockFile.owner] \in {"refresh_publish", "release_unlink"}
    ]_vars

\* Concurrent recoveries of one stale lock are serialized: even when stale
\* recovery guards have to be removed, at most one contender comes out as the
\* owner (kernel-lock.test.js:206 and :244).
RecoverySerialized ==
  slips \subseteq {"guard_removed"} =>
    \A p, q \in Services : Holds(p) /\ Holds(q) => p = q
(***************************************************************************)
(* The lock implements the abstract Lease.  Its tenant is the service of a *)
(* lock file that can be read, its holders are the owners whose lease has  *)
(* not run out, and a slip makes the contract void.                        *)
(***************************************************************************)
Readable == lockFile # NoFile /\ lockFile.written

Tenant == IF Readable THEN {lockFile.owner} ELSE {}

Age ==
  IF ~Readable THEN 0
  ELSE IF clock - lockFile.at >= StaleAfter THEN StaleAfter ELSE clock - lockFile.at

Holders == {p \in Services : Holds(p)}

LockLease == INSTANCE Lease WITH
  Contenders <- Services, tenant <- Tenant, age <- Age, holders <- Holders, void <- slips # {}

\* Granted, renewed and given back as a lease: a service becomes an owner only
\* when the lock is free or stale, a refresh never ages the lock, only an
\* owner in time refreshes or removes it, and a dead owner's lock lasts until
\* it is stale.
LeaseKept == LockLease!Spec
===============================================================================
