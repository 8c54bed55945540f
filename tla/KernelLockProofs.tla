--------------------------- MODULE KernelLockProofs ---------------------------
(***************************************************************************)
(* Proofs about KernelLock, for every set of services, every staleAfterMs  *)
(* and every bound on the clock and the claims.                            *)
(***************************************************************************)
EXTENDS KernelLock, TLAPS

\* What a service writes is a whole record.
LEMMA StampedIsFile ==
  ASSUME TypeOK, NEW p \in Services, NEW t \in Nat, NEW complete \in BOOLEAN
  PROVE  Stamped(p, t, complete) \in Files
BY DEF TypeOK, Stamped, Files

LEMMA StampedFacts ==
  ASSUME TypeOK, NEW p \in Services, NEW t \in Nat, NEW complete \in BOOLEAN
  PROVE  /\ Stamped(p, t, complete) # NoFile
         /\ Stamped(p, t, complete).owner = p
         /\ Stamped(p, t, complete).at = t
         /\ Stamped(p, t, complete).written = complete
BY StampedIsFile, ConstantsOK DEF Stamped, Files

\* Filling the file p opened leaves a whole record, or leaves it alone.
LEMMA FillIsFile ==
  ASSUME NEW f \in Files \union {NoFile}, f # NoFile
  PROVE  [f EXCEPT !.written = TRUE] \in Files
BY DEF Files

\* Every variable keeps its type: in particular a file is always absent or a
\* whole record, whichever of the racing writers touched it last.
THEOREM TypeCorrect == Spec => []TypeOK
<1> USE ConstantsOK DEF TypeOK, Ids, Steps, Slips, Goto
<1>1. Init => TypeOK
  BY DEF Init
<1>2. TypeOK /\ [Next]_vars => TypeOK'
  <2> SUFFICES ASSUME TypeOK, [Next]_vars PROVE TypeOK'
    OBVIOUS
  <2>0. \A p \in Services : \A complete \in BOOLEAN :
          Stamped(p, stamp[p], complete) \in Files
    BY StampedIsFile
  <2>id. lockFile # NoFile => IdOf(lockFile) \in Services \X Nat
    BY DEF IdOf, Files
  <2>1. CASE Tick
    BY <2>1 DEF Tick
  <2>2. ASSUME NEW p \in Services, Claim(p) PROVE TypeOK'
    <3>1. CASE BeginClaim(p)   BY <3>1 DEF BeginClaim
    <3>2. CASE OpenLock(p)     BY <3>2, <2>0 DEF OpenLock
    <3>3. CASE WriteLock(p)    BY <3>3, FillIsFile DEF WriteLock, FillLock, MineTorn
    <3>4. CASE Audit(p)        BY <3>4 DEF Audit
    <3>5. CASE InspectLock(p)
      <4>1. seen' \in [Services -> Services \X Nat]
        BY <2>id, <3>5 DEF InspectLock, StaleAt
      <4> QED
        BY <3>5, <4>1 DEF InspectLock
    <3>6. CASE OpenGuard(p)    BY <3>6, <2>0 DEF OpenGuard
    <3>7. CASE WriteGuard(p)   BY <3>7, FillIsFile DEF WriteGuard, MineTorn
    <3>8. CASE InspectGuard(p) BY <3>8 DEF InspectGuard
    <3>9. CASE RemoveGuard(p)  BY <3>9 DEF RemoveGuard
    <3>10. CASE Recheck(p)     BY <3>10 DEF Recheck
    <3>11. CASE FreshOpen(p)   BY <3>11, <2>0 DEF FreshOpen
    <3>12. CASE FreshWrite(p)  BY <3>12, FillIsFile DEF FreshWrite, FillLock, MineTorn
    <3>13. CASE CheckGuard(p)  BY <3>13 DEF CheckGuard
    <3>14. CASE Publish(p)     BY <3>14, <2>0 DEF Publish
    <3>15. CASE Cleanup(p)     BY <3>15 DEF Cleanup, AfterRecovery
    <3>16. CASE CleanupRemove(p) BY <3>16 DEF CleanupRemove, AfterRecovery
    <3> QED
      BY <2>2, <3>1, <3>2, <3>3, <3>4, <3>5, <3>6, <3>7, <3>8, <3>9, <3>10,
         <3>11, <3>12, <3>13, <3>14, <3>15, <3>16 DEF Claim
  <2>3. ASSUME NEW p \in Services, Own(p) PROVE TypeOK'
    <3>1. CASE RefreshRead(p)    BY <3>1 DEF RefreshRead
    <3>2. CASE RefreshPublish(p) BY <3>2, <2>0 DEF RefreshPublish
    <3>3. CASE ReleaseRead(p)    BY <3>3 DEF ReleaseRead
    <3>4. CASE ReleaseUnlink(p)  BY <3>4 DEF ReleaseUnlink
    <3> QED
      BY <2>3, <3>1, <3>2, <3>3, <3>4 DEF Own
  <2>4. ASSUME NEW p \in Services, Crash(p) PROVE TypeOK'
    BY <2>4 DEF Crash
  <2>5. CASE UNCHANGED vars
    BY <2>5 DEF vars
  <2> QED
    BY <2>1, <2>2, <2>3, <2>4, <2>5 DEF Next
<1> QED
  BY <1>1, <1>2, PTL DEF Spec

(***************************************************************************)
(* The inductive invariant.  LeaseMutex alone is not inductive: it does    *)
(* not say that a contender about to publish still has the recovery guard  *)
(* and still faces the stale lock it saw.                                  *)
(***************************************************************************)

\* The steps between the exclusive create of the guard and its removal.
Guarded ==
  {"guard_write", "recheck", "fresh_open", "fresh_write", "guard_check",
   "publish", "cleanup", "cleanup_remove"}

\* The steps of a claim that cannot have produced a lock yet.
Unwon ==
  {"open", "write", "inspect", "guard_open", "guard_write", "guard_inspect",
   "guard_remove", "guard_retry", "recheck", "fresh_open", "fresh_write",
   "guard_check", "publish"}

StampsPast == \A p \in Services : stamp[p] <= clock

NotYetWon == \A p \in Services : pc[p] \in Unwon => ~won[p]

GuardHeld ==
  \A p \in Services :
    pc[p] \in Guarded => guardFile # NoFile /\ guardFile.owner = p

StillStale ==
  \A p \in Services :
    pc[p] \in {"guard_check", "publish"} => StaleAt(lockFile, stamp[p])

OwnTornLock ==
  \A p \in Services :
    pc[p] \in {"write", "fresh_write"} => lockFile = Stamped(p, stamp[p], FALSE)

OwnerInFile ==
  \A p \in Services : Holds(p) => lockFile = Stamped(p, lease[p], TRUE)

LeaseInv ==
  slips = {} => GuardHeld /\ StillStale /\ OwnTornLock /\ OwnerInFile

IInv == TypeOK /\ StampsPast /\ NotYetWon /\ LeaseInv

LEMMA InitIInv == Init => IInv
BY ConstantsOK DEF Init, IInv, TypeOK, StampsPast, NotYetWon, LeaseInv, GuardHeld,
   StillStale, OwnTornLock, OwnerInFile, Holds, Owner, Guarded, Unwon, Files, Ids,
   Steps, Slips

\* No step writes a timestamp from the future.
LEMMA StampsStep == TypeOK /\ StampsPast /\ [Next]_vars => StampsPast'
<1> SUFFICES ASSUME TypeOK, StampsPast, [Next]_vars PROVE StampsPast'
  OBVIOUS
<1>0. clock \in Nat /\ stamp \in [Services -> Nat]
  BY DEF TypeOK
<1>1. CASE Tick
  BY <1>0, <1>1 DEF Tick, StampsPast
<1>2. ASSUME NEW q \in Services,
             UNCHANGED <<clock, stamp>>
             \/ (UNCHANGED clock /\ stamp' = [stamp EXCEPT ![q] = clock])
      PROVE  StampsPast'
  BY <1>0, <1>2 DEF StampsPast
<1>3. ASSUME NEW q \in Services, Claim(q) PROVE StampsPast'
  <2>1. CASE BeginClaim(q)
    BY <1>2, <2>1 DEF BeginClaim
  <2>2. CASE InspectLock(q)
    BY <1>2, <2>2 DEF InspectLock
  <2>3. CASE UNCHANGED <<clock, stamp>>
    BY <1>2, <2>3
  <2> QED
    BY <1>3, <2>1, <2>2, <2>3 DEF Claim, OpenLock, WriteLock, Audit, OpenGuard,
       WriteGuard, InspectGuard, RemoveGuard, Recheck, FreshOpen, FreshWrite,
       CheckGuard, Publish, Cleanup, CleanupRemove
<1>4. ASSUME NEW q \in Services, Own(q) \/ Crash(q) PROVE StampsPast'
  BY <1>2, <1>4 DEF Own, RefreshRead, RefreshPublish, ReleaseRead, ReleaseUnlink, Crash
<1>5. CASE UNCHANGED vars
  BY <1>5 DEF vars, StampsPast
<1> QED
  BY <1>1, <1>3, <1>4, <1>5 DEF Next

\* A claim that is still under way has no lock to return.
LEMMA UnwonStep == TypeOK /\ NotYetWon /\ [Next]_vars => NotYetWon'
<1> SUFFICES ASSUME TypeOK, NotYetWon, [Next]_vars PROVE NotYetWon'
  OBVIOUS
<1> USE DEF TypeOK, NotYetWon, Unwon, Goto
<1>1. CASE Tick
  BY <1>1 DEF Tick
<1>2. ASSUME NEW q \in Services, Claim(q) PROVE NotYetWon'
  <2>1. CASE BeginClaim(q) \/ OpenLock(q) \/ WriteLock(q) \/ Audit(q)
    BY <2>1 DEF BeginClaim, OpenLock, WriteLock, Audit
  <2>2. CASE InspectLock(q) \/ OpenGuard(q) \/ WriteGuard(q) \/ InspectGuard(q)
    BY <2>2 DEF InspectLock, OpenGuard, WriteGuard, InspectGuard
  <2>3. CASE RemoveGuard(q) \/ Recheck(q) \/ FreshOpen(q) \/ FreshWrite(q)
    BY <2>3 DEF RemoveGuard, Recheck, FreshOpen, FreshWrite
  <2>4. CASE CheckGuard(q) \/ Publish(q) \/ Cleanup(q) \/ CleanupRemove(q)
    BY <2>4 DEF CheckGuard, Publish, Cleanup, CleanupRemove, AfterRecovery
  <2> QED
    BY <1>2, <2>1, <2>2, <2>3, <2>4 DEF Claim
<1>3. ASSUME NEW q \in Services, Own(q) \/ Crash(q) PROVE NotYetWon'
  BY <1>3 DEF Own, RefreshRead, RefreshPublish, ReleaseRead, ReleaseUnlink, Crash
<1>4. CASE UNCHANGED vars
  BY <1>4 DEF vars
<1> QED
  BY <1>1, <1>2, <1>3, <1>4 DEF Next

\* The recovery guard excludes: whoever is past its creation still has it.
LEMMA GuardStep ==
  ASSUME TypeOK, GuardHeld, [Next]_vars, slips' = {} PROVE GuardHeld'
<1>0. /\ pc \in [Services -> Steps]
      /\ guardFile \in Files \union {NoFile}
      /\ stamp \in [Services -> Nat]
  BY DEF TypeOK
<1> USE <1>0 DEF GuardHeld, Guarded, Goto
<1>1. CASE Tick
  BY <1>1 DEF Tick
<1>2. ASSUME NEW q \in Services, Claim(q) PROVE GuardHeld'
  <2>1. CASE BeginClaim(q) \/ OpenLock(q) \/ WriteLock(q) \/ Audit(q)
    BY <2>1 DEF BeginClaim, OpenLock, WriteLock, Audit
  <2>2. CASE InspectLock(q) \/ InspectGuard(q)
    BY <2>2 DEF InspectLock, InspectGuard
  <2>3. CASE OpenGuard(q)
    <3>1. CASE guardFile = NoFile
      <4>1. guardFile' = Stamped(q, stamp[q], FALSE)
        BY <2>3, <3>1 DEF OpenGuard
      <4>2. stamp[q] \in Nat
        OBVIOUS
      <4>3. Stamped(q, stamp[q], FALSE) # NoFile /\ Stamped(q, stamp[q], FALSE).owner = q
        BY <4>2, StampedFacts
      <4>4. guardFile' # NoFile /\ guardFile'.owner = q
        BY <4>1, <4>3
      <4> QED
        BY <2>3, <3>1, <4>4 DEF OpenGuard
    <3>2. CASE guardFile # NoFile
      BY <2>3, <3>2 DEF OpenGuard
    <3> QED
      BY <3>1, <3>2
  <2>4. CASE WriteGuard(q)
    <3>1. guardFile # NoFile /\ guardFile.owner = q
      BY <2>4 DEF WriteGuard
    <3>2. guardFile' # NoFile /\ guardFile'.owner = q
      BY <2>4, <3>1, ConstantsOK, FillIsFile DEF WriteGuard, MineTorn, Files
    <3> QED
      BY <2>4, <3>2, <3>1 DEF WriteGuard
  <2>5. CASE RemoveGuard(q)
    \* An existing guard would be a slip, so there was none to remove.
    BY <2>5 DEF RemoveGuard
  <2>6. CASE Recheck(q) \/ FreshOpen(q) \/ FreshWrite(q)
    BY <2>6 DEF Recheck, FreshOpen, FreshWrite
  <2>7. CASE CheckGuard(q) \/ Publish(q) \/ Cleanup(q)
    BY <2>7 DEF CheckGuard, Publish, Cleanup, AfterRecovery
  <2>8. CASE CleanupRemove(q)
    \* The guard removed is q's, so no other service is guarded.
    BY <2>8 DEF CleanupRemove, AfterRecovery
  <2> QED
    BY <1>2, <2>1, <2>2, <2>3, <2>4, <2>5, <2>6, <2>7, <2>8 DEF Claim
<1>3. ASSUME NEW q \in Services, Own(q) \/ Crash(q) PROVE GuardHeld'
  BY <1>3 DEF Own, RefreshRead, RefreshPublish, ReleaseRead, ReleaseUnlink, Crash
<1>4. CASE UNCHANGED vars
  BY <1>4 DEF vars
<1> QED
  BY <1>1, <1>2, <1>3, <1>4 DEF Next

\* Without a slip the lock file changes in four ways only.
LEMMA LockWriters ==
  ASSUME TypeOK, slips = {}, slips' = {}, lockFile' # lockFile,
         NEW q \in Services, Claim(q) \/ Own(q) \/ Crash(q)
  PROVE  \/ lockFile = NoFile /\ pc[q] \in {"open", "fresh_open"}
         \/ MineTorn(lockFile, q) /\ pc[q] \in {"write", "fresh_write"}
         \/ pc[q] = "publish"
         \/ Holds(q) /\ pc[q] \in {"refresh_publish", "release_unlink"}
BY DEF Claim, Own, BeginClaim, OpenLock, WriteLock, Audit, InspectLock, OpenGuard,
   WriteGuard, InspectGuard, RemoveGuard, Recheck, FreshOpen, FreshWrite, FillLock,
   CheckGuard, Publish, Cleanup, CleanupRemove, RefreshRead, RefreshPublish,
   ReleaseRead, ReleaseUnlink, Crash, Holds, Owner

\* While some contender is between the recheck and the publication, the lock
\* is stale by the clock, so nobody owns it with an unexpired lease, nobody is
\* filling it, and nobody else is about to publish.
LEMMA StaleLockUnowned ==
  ASSUME TypeOK, StampsPast, LeaseInv, slips = {},
         NEW p \in Services, pc[p] \in {"guard_check", "publish"}
  PROVE  /\ lockFile # NoFile
         /\ \A q \in Services : ~Holds(q)
         /\ \A q \in Services : pc[q] \notin {"write", "fresh_write"}
         /\ \A q \in Services : pc[q] = "publish" => q = p
<1>0. /\ stamp \in [Services -> Nat]
      /\ lease \in [Services -> Nat]
      /\ clock \in Nat
      /\ lockFile \in Files \union {NoFile}
  BY DEF TypeOK
<1>1. GuardHeld /\ StillStale /\ OwnTornLock /\ OwnerInFile
  BY DEF LeaseInv
<1>2. lockFile # NoFile /\ lockFile.written /\ stamp[p] - lockFile.at >= StaleAfter
  BY <1>1 DEF StillStale, StaleAt
<1>3. ASSUME NEW q \in Services, Holds(q) PROVE FALSE
  <2>1. lockFile = Stamped(q, lease[q], TRUE)
    BY <1>1, <1>3 DEF OwnerInFile
  <2>2. lockFile.at = lease[q]
    BY <2>1 DEF Stamped
  <2>3. clock - lease[q] < StaleAfter
    BY <1>0, <1>3, ConstantsOK DEF Holds, Expired
  <2>4. stamp[p] <= clock
    BY DEF StampsPast
  <2> QED
    BY <1>0, <1>2, <2>2, <2>3, <2>4, ConstantsOK
<1>4. ASSUME NEW q \in Services, pc[q] \in {"write", "fresh_write"} PROVE FALSE
  <2>1. lockFile = Stamped(q, stamp[q], FALSE)
    BY <1>1, <1>4 DEF OwnTornLock
  <2> QED
    BY <1>0, <1>2, <2>1, StampedFacts
<1>5. ASSUME NEW q \in Services, pc[q] = "publish" PROVE q = p
  BY <1>1, <1>5 DEF GuardHeld, Guarded
<1> QED
  BY <1>2, <1>3, <1>4, <1>5

\* A contender at the publication still faces the stale lock it rechecked:
\* the guard keeps the other contenders away, and the owner of a stale lock
\* cannot refresh or release it without a slip.
LEMMA StillStaleStep ==
  ASSUME TypeOK, StampsPast, LeaseInv, slips = {}, slips' = {},
         NEW q \in Services, Claim(q) \/ Own(q) \/ Crash(q)
  PROVE  StillStale'
<1>0. pc \in [Services -> Steps] /\ stamp \in [Services -> Nat]
  BY DEF TypeOK
<1>1. StillStale
  BY DEF LeaseInv
<1> SUFFICES ASSUME NEW p \in Services, pc'[p] \in {"guard_check", "publish"}
             PROVE  StaleAt(lockFile, stamp[p])'
  BY DEF StillStale
<1>2. CASE pc[p] \in {"guard_check", "publish"}
  <2>1. pc[p] = "publish" => q # p
    BY <1>0, <1>2 DEF Claim, Own, BeginClaim, OpenLock, WriteLock, Audit, InspectLock,
       OpenGuard, WriteGuard, InspectGuard, RemoveGuard, Recheck, FreshOpen,
       FreshWrite, CheckGuard, Publish, Cleanup, CleanupRemove, RefreshRead,
       RefreshPublish, ReleaseRead, ReleaseUnlink, Crash, Goto
  <2>2. lockFile' = lockFile
    BY <1>2, <2>1, LockWriters, StaleLockUnowned
  <2>3. stamp'[p] = stamp[p]
    BY <1>0, <1>2 DEF Claim, Own, BeginClaim, OpenLock, WriteLock, Audit, InspectLock,
       OpenGuard, WriteGuard, InspectGuard, RemoveGuard, Recheck, FreshOpen,
       FreshWrite, CheckGuard, Publish, Cleanup, CleanupRemove, RefreshRead,
       RefreshPublish, ReleaseRead, ReleaseUnlink, Crash
  <2> QED
    BY <1>1, <1>2, <2>2, <2>3 DEF StillStale, StaleAt
<1>3. CASE pc[p] \notin {"guard_check", "publish"}
  <2>1. Recheck(p)
    BY <1>0, <1>3 DEF Claim, Own, BeginClaim, OpenLock, WriteLock, Audit, InspectLock,
       OpenGuard, WriteGuard, InspectGuard, RemoveGuard, Recheck, FreshOpen,
       FreshWrite, CheckGuard, Publish, Cleanup, CleanupRemove, AfterRecovery,
       RefreshRead, RefreshPublish, ReleaseRead, ReleaseUnlink, Crash, Goto
  <2> QED
    BY <1>0, <2>1 DEF Recheck, Goto, StaleAt
<1> QED
  BY <1>2, <1>3

\* A lock file being filled belongs to the service that created it.
LEMMA OwnTornStep ==
  ASSUME TypeOK, StampsPast, LeaseInv, slips = {}, slips' = {},
         NEW q \in Services, Claim(q) \/ Own(q) \/ Crash(q)
  PROVE  OwnTornLock'
<1>0. pc \in [Services -> Steps] /\ stamp \in [Services -> Nat]
  BY DEF TypeOK
<1>00. attempt \in [Services -> Nat] /\ lease \in [Services -> Nat]
  BY DEF TypeOK
<1>1. OwnTornLock /\ OwnerInFile
  BY DEF LeaseInv
<1> SUFFICES ASSUME NEW p \in Services, pc'[p] \in {"write", "fresh_write"}
             PROVE  lockFile' = Stamped(p, stamp[p], FALSE)'
  BY DEF OwnTornLock
<1>2. CASE pc[p] \in {"write", "fresh_write"}
  <2>1. q # p
    BY <1>0, <1>2 DEF Claim, Own, BeginClaim, OpenLock, WriteLock, Audit, InspectLock,
       OpenGuard, WriteGuard, InspectGuard, RemoveGuard, Recheck, FreshOpen,
       FreshWrite, CheckGuard, Publish, Cleanup, CleanupRemove, RefreshRead,
       RefreshPublish, ReleaseRead, ReleaseUnlink, Crash, AfterRecovery, Goto
  <2>2. lockFile = Stamped(p, stamp[p], FALSE)
    BY <1>1, <1>2 DEF OwnTornLock
  <2>3. lockFile # NoFile /\ lockFile.owner = p /\ lockFile.written = FALSE
    BY <1>0, <2>2, StampedFacts
  <2>4. ~Holds(q)
    <3> SUFFICES ASSUME Holds(q) PROVE FALSE
      OBVIOUS
    <3>1. lockFile = Stamped(q, lease[q], TRUE)
      BY <1>1 DEF OwnerInFile
    <3> QED
      BY <2>3, <3>1 DEF Stamped
  <2>5. pc[q] # "publish"
    BY <1>2, StaleLockUnowned
  <2>6. ~MineTorn(lockFile, q)
    BY <2>1, <2>3 DEF MineTorn, IdOf
  <2>7. lockFile' = lockFile
    BY <2>3, <2>4, <2>5, <2>6, LockWriters
  <2>8. stamp'[p] = stamp[p] /\ attempt'[p] = attempt[p]
    BY <1>0, <1>00, <2>1 DEF Claim, Own, BeginClaim, OpenLock, WriteLock, Audit, InspectLock,
       OpenGuard, WriteGuard, InspectGuard, RemoveGuard, Recheck, FreshOpen,
       FreshWrite, CheckGuard, Publish, Cleanup, CleanupRemove, RefreshRead,
       RefreshPublish, ReleaseRead, ReleaseUnlink, Crash
  <2> QED
    BY <2>2, <2>7, <2>8 DEF Stamped
<1>3. CASE pc[p] \notin {"write", "fresh_write"}
  <2>1. q = p /\ lockFile' = Stamped(p, stamp[p], FALSE)
        /\ stamp' = stamp /\ attempt' = attempt
    BY <1>0, <1>3 DEF Claim, Own, BeginClaim, OpenLock, WriteLock, Audit, InspectLock,
       OpenGuard, WriteGuard, InspectGuard, RemoveGuard, Recheck, FreshOpen,
       FreshWrite, CheckGuard, Publish, Cleanup, CleanupRemove, RefreshRead,
       RefreshPublish, ReleaseRead, ReleaseUnlink, Crash, AfterRecovery, Goto
  <2> QED
    BY <2>1 DEF Stamped
<1> QED
  BY <1>2, <1>3

\* An owner whose lease has not run out finds its own lock in the file.
LEMMA OwnerStep ==
  ASSUME TypeOK, StampsPast, NotYetWon, LeaseInv, slips = {}, slips' = {},
         NEW q \in Services, Claim(q) \/ Own(q) \/ Crash(q)
  PROVE  OwnerInFile'
<1>0. /\ pc \in [Services -> Steps]
      /\ stamp \in [Services -> Nat]
      /\ attempt \in [Services -> Nat]
      /\ lease \in [Services -> Nat]
      /\ won \in [Services -> BOOLEAN]
  BY DEF TypeOK
<1>1. OwnTornLock /\ OwnerInFile
  BY DEF LeaseInv
<1> SUFFICES ASSUME NEW p \in Services, Holds(p)'
             PROVE  lockFile' = Stamped(p, lease[p], TRUE)'
  BY DEF OwnerInFile
<1>2. CASE WriteLock(p) \/ FreshWrite(p)
  <2>1. lockFile = Stamped(p, stamp[p], FALSE)
    BY <1>1, <1>2 DEF OwnTornLock, WriteLock, FreshWrite
  <2>2. MineTorn(lockFile, p)
    BY <1>0, <2>1, StampedFacts DEF MineTorn, IdOf, Stamped
  <2>3. lockFile' = [lockFile EXCEPT !.written = TRUE]
    BY <1>2, <2>2 DEF WriteLock, FreshWrite, FillLock
  <2>4. lease'[p] = stamp[p] /\ attempt' = attempt
    BY <1>0, <1>2 DEF WriteLock, FreshWrite, FillLock
  <2> QED
    BY <2>1, <2>3, <2>4 DEF Stamped
<1>3. CASE (Publish(p) \/ RefreshPublish(p)) /\ lockFile' = Stamped(p, stamp[p], TRUE)
           /\ lease' = [lease EXCEPT ![p] = stamp[p]]
  BY <1>0, <1>3 DEF Publish, RefreshPublish, Stamped
<1>4. CASE /\ ~WriteLock(p) /\ ~FreshWrite(p)
           /\ ~((Publish(p) \/ RefreshPublish(p)) /\ lockFile' = Stamped(p, stamp[p], TRUE)
                /\ lease' = [lease EXCEPT ![p] = stamp[p]])
  <2>1. lease'[p] = lease[p] /\ clock' = clock
    BY <1>0, <1>4 DEF Claim, Own, BeginClaim, OpenLock, WriteLock, Audit, InspectLock,
       OpenGuard, WriteGuard, InspectGuard, RemoveGuard, Recheck, FreshOpen,
       FreshWrite, CheckGuard, Publish, Cleanup, CleanupRemove, RefreshRead,
       RefreshPublish, ReleaseRead, ReleaseUnlink, Crash, FillLock
  <2>2. Owner(p)
    BY <1>0, <1>4 DEF Claim, Own, BeginClaim, OpenLock, WriteLock, Audit, InspectLock,
       OpenGuard, WriteGuard, InspectGuard, RemoveGuard, Recheck, FreshOpen,
       FreshWrite, CheckGuard, Publish, Cleanup, CleanupRemove, RefreshRead,
       RefreshPublish, ReleaseRead, ReleaseUnlink, Crash, AfterRecovery, Goto, Holds, Owner, NotYetWon, Unwon
  <2>3. Holds(p)
    BY <2>1, <2>2 DEF Holds, Expired
  <2>4. lockFile = Stamped(p, lease[p], TRUE)
    BY <1>1, <2>3 DEF OwnerInFile
  <2>5. lockFile # NoFile /\ lockFile.owner = p /\ lockFile.written = TRUE
    BY <1>0, <2>4, StampedFacts
  <2>6. attempt'[p] = attempt[p]
    BY <1>0, <2>2 DEF Claim, Own, BeginClaim, OpenLock, WriteLock, Audit, InspectLock,
       OpenGuard, WriteGuard, InspectGuard, RemoveGuard, Recheck, FreshOpen,
       FreshWrite, CheckGuard, Publish, Cleanup, CleanupRemove, RefreshRead,
       RefreshPublish, ReleaseRead, ReleaseUnlink, Crash, Owner
  <2>7. ~MineTorn(lockFile, q) /\ pc[q] # "publish"
    BY <2>3, <2>5, StaleLockUnowned DEF MineTorn
  <2>8. Holds(q) => q = p
    <3> SUFFICES ASSUME Holds(q) PROVE q = p
      OBVIOUS
    <3>1. lockFile = Stamped(q, lease[q], TRUE)
      BY <1>1 DEF OwnerInFile
    <3> QED
      BY <2>5, <3>1 DEF Stamped
  <2>9. q = p /\ pc[p] \in {"refresh_publish", "release_unlink"} => lockFile' = lockFile
    BY <1>0, <1>4 DEF Claim, Own, BeginClaim, OpenLock, WriteLock, Audit, InspectLock,
       OpenGuard, WriteGuard, InspectGuard, RemoveGuard, Recheck, FreshOpen,
       FreshWrite, CheckGuard, Publish, Cleanup, CleanupRemove, RefreshRead,
       RefreshPublish, ReleaseRead, ReleaseUnlink, Crash, Goto, Holds, Owner
  <2>10. lockFile' = lockFile
    BY <2>5, <2>7, <2>8, <2>9, LockWriters
  <2> QED
    BY <2>1, <2>4, <2>6, <2>10 DEF Stamped
<1> QED
  BY <1>2, <1>3, <1>4

\* Slips are never forgotten.
LEMMA SlipsGrow == [Next]_vars => slips \subseteq slips'
BY DEF Next, vars, Tick, Claim, Own, BeginClaim, OpenLock, WriteLock, Audit,
   InspectLock, OpenGuard, WriteGuard, InspectGuard, RemoveGuard, Recheck, FreshOpen,
   FreshWrite, CheckGuard, Publish, Cleanup, CleanupRemove, RefreshRead,
   RefreshPublish, ReleaseRead, ReleaseUnlink, Crash

\* The lease invariant survives every step that is not a slip.
LEMMA LeaseStep ==
  ASSUME TypeOK, StampsPast, NotYetWon, LeaseInv, [Next]_vars PROVE LeaseInv'
<1> SUFFICES ASSUME slips' = {}
             PROVE  (GuardHeld /\ StillStale /\ OwnTornLock /\ OwnerInFile)'
  BY DEF LeaseInv
<1>1. slips = {}
  BY SlipsGrow
<1>2. GuardHeld /\ StillStale /\ OwnTornLock /\ OwnerInFile
  BY <1>1 DEF LeaseInv
<1>3. GuardHeld'
  BY <1>2, GuardStep
<1>4. CASE Tick
  <2>1. \A p \in Services : Holds(p)' => Holds(p)
    BY <1>4, ConstantsOK DEF Tick, Holds, Owner, Expired, TypeOK
  <2>2. UNCHANGED <<lockFile, pc, attempt, stamp, lease>>
    BY <1>4 DEF Tick
  <2> QED
    BY <1>2, <1>3, <2>1, <2>2 DEF StillStale, OwnTornLock, OwnerInFile, StaleAt, Stamped
<1>5. CASE \E q \in Services : Claim(q) \/ Own(q) \/ Crash(q)
  BY <1>1, <1>3, <1>5, StillStaleStep, OwnTornStep, OwnerStep
<1>6. CASE UNCHANGED vars
  BY <1>2, <1>3, <1>6 DEF vars, StillStale, OwnTornLock, OwnerInFile, Holds, Owner,
     Expired, StaleAt, Stamped
<1> QED
  BY <1>4, <1>5, <1>6 DEF Next

\* The inductive invariant holds in every reachable state: stamps are not
\* from the future, and without a slip the guard excludes, a published lock
\* replaces a stale one, and an unexpired owner is the one in the file.
THEOREM Invariance == Spec => []IInv
<1>1. Init => IInv
  BY InitIInv
<1>2. TypeOK /\ TypeOK' /\ IInv /\ [Next]_vars => IInv'
  BY StampsStep, UnwonStep, LeaseStep DEF IInv
<1> QED
  BY <1>1, <1>2, TypeCorrect, PTL DEF Spec

\* At most one service owns the kernel lock with an unexpired lease, for any
\* number of contenders, unless a lease was overrun or a guard was removed.
THEOREM MutualExclusion == Spec => []LeaseMutex
<1>1. IInv => LeaseMutex
  <2> SUFFICES ASSUME IInv, slips = {}, NEW p \in Services, NEW q \in Services,
                      Holds(p), Holds(q)
               PROVE  p = q
    BY DEF LeaseMutex
  <2>1. lockFile = Stamped(p, lease[p], TRUE) /\ lockFile = Stamped(q, lease[q], TRUE)
    BY DEF IInv, LeaseInv, OwnerInFile
  <2> QED
    BY <2>1 DEF Stamped
<1> QED
  BY <1>1, Invariance, PTL

\* Without a slip, a lock that is not stale is replaced or removed by its own
\* owner only, in a refresh or a release.
THEOREM FreshLockSafe == Spec => FreshLockUntouched
<1> DEFINE Touched ==
      /\ slips' = {} /\ lockFile # NoFile /\ lockFile.written
      /\ ~StaleAt(lockFile, clock) /\ lockFile' # lockFile
    ByOwner ==
      /\ Mine(lockFile, lockFile.owner)
      /\ pc[lockFile.owner] \in {"refresh_publish", "release_unlink"}
<1>1. IInv /\ [Next]_vars => [Touched => ByOwner]_vars
  <2> SUFFICES ASSUME IInv, [Next]_vars, Touched PROVE ByOwner
    OBVIOUS
  <2>1. slips = {}
    BY SlipsGrow
  <2>2. PICK q \in Services : Claim(q) \/ Own(q) \/ Crash(q)
    BY DEF Next, vars, Tick
  <2>3. TypeOK /\ StampsPast /\ OwnerInFile /\ StillStale
    BY <2>1 DEF IInv, LeaseInv
  <2>4. pc[q] # "publish"
    \* A contender at the publication faces a stale lock.
    <3> SUFFICES ASSUME pc[q] = "publish" PROVE FALSE
      OBVIOUS
    <3>1. stamp[q] - lockFile.at >= StaleAfter /\ stamp[q] <= clock
      BY <2>3 DEF StillStale, StaleAt, StampsPast
    <3>2. lockFile.at \in Nat /\ stamp[q] \in Nat /\ clock \in Nat
      BY <2>3 DEF TypeOK, Files
    <3> QED
      BY <3>1, <3>2, ConstantsOK DEF StaleAt
  <2>5. Holds(q) /\ pc[q] \in {"refresh_publish", "release_unlink"}
    BY <2>1, <2>2, <2>3, <2>4, LockWriters DEF MineTorn
  <2>6. lockFile = Stamped(q, lease[q], TRUE)
    BY <2>3, <2>5 DEF OwnerInFile
  <2> QED
    BY <2>5, <2>6 DEF Stamped, Mine, IdOf
<1> QED
  BY <1>1, Invariance, PTL DEF Spec, FreshLockUntouched

(***************************************************************************)
(* The lock implements the abstract lease.  The mapping needs two facts    *)
(* more: no file and no lease is from the future, and a refresh is stamped *)
(* later than the lease it replaces.                                       *)
(***************************************************************************)
TimesPast ==
  /\ lockFile # NoFile => lockFile.at <= clock
  /\ \A p \in Services : lease[p] <= clock
  /\ \A p \in Services : pc[p] = "refresh_publish" => lease[p] <= stamp[p]

\* The file keeps its timestamp, or gets the one of a service.
LEMMA FileTimes ==
  ASSUME TypeOK, [Next]_vars
  PROVE  \/ lockFile' = NoFile
         \/ lockFile # NoFile /\ lockFile'.at = lockFile.at
         \/ \E q \in Services : lockFile'.at = stamp[q]
<1>1. lockFile # NoFile => lockFile.at = [lockFile EXCEPT !.written = TRUE].at
  BY DEF TypeOK, Files
<1>2. \A q \in Services, complete \in BOOLEAN : Stamped(q, stamp[q], complete).at = stamp[q]
  BY DEF Stamped
<1>3. CASE lockFile' = lockFile
  BY <1>3
<1>4. CASE Tick \/ UNCHANGED vars
  BY <1>4 DEF Tick, vars
<1>5. ASSUME NEW q \in Services, Claim(q)
      PROVE  \/ lockFile' = lockFile
             \/ lockFile # NoFile /\ lockFile' = [lockFile EXCEPT !.written = TRUE]
             \/ \E complete \in BOOLEAN : lockFile' = Stamped(q, stamp[q], complete)
  BY <1>5 DEF Claim, BeginClaim, OpenLock, WriteLock, Audit, InspectLock, OpenGuard,
     WriteGuard, InspectGuard, RemoveGuard, Recheck, FreshOpen, FreshWrite, FillLock,
     CheckGuard, Publish, Cleanup, CleanupRemove, MineTorn
<1>6. ASSUME NEW q \in Services, Own(q) \/ Crash(q)
      PROVE  lockFile' \in {lockFile, NoFile, Stamped(q, stamp[q], TRUE)}
  BY <1>6 DEF Own, RefreshRead, RefreshPublish, ReleaseRead, ReleaseUnlink, Crash
<1>7. ASSUME NEW q \in Services, Claim(q)
      PROVE  \/ lockFile' = lockFile
             \/ lockFile # NoFile /\ lockFile'.at = lockFile.at
             \/ lockFile'.at = stamp[q]
  BY <1>1, <1>2, <1>5, <1>7
<1>8. ASSUME NEW q \in Services, Own(q) \/ Crash(q)
      PROVE  lockFile' = lockFile \/ lockFile' = NoFile \/ lockFile'.at = stamp[q]
  BY <1>2, <1>6, <1>8
<1> QED
  BY <1>3, <1>4, <1>7, <1>8 DEF Next

LEMMA TimesStep ==
  ASSUME TypeOK, TypeOK', StampsPast, TimesPast, [Next]_vars PROVE TimesPast'
<1>0. /\ clock \in Nat /\ clock' \in Nat /\ stamp \in [Services -> Nat] /\ lease \in [Services -> Nat]
      /\ pc \in [Services -> Steps]
  BY DEF TypeOK
<1>1. clock <= clock'
  <2>1. CASE Tick
    BY <1>0, <2>1 DEF Tick
  <2>2. ASSUME NEW p \in Services, Claim(p) PROVE clock' = clock
    BY <2>2 DEF Claim, BeginClaim, OpenLock, WriteLock, Audit, InspectLock,
       OpenGuard, WriteGuard, InspectGuard, RemoveGuard, Recheck, FreshOpen, FreshWrite,
       CheckGuard, Publish, Cleanup, CleanupRemove
  <2>3. ASSUME NEW p \in Services, Own(p) \/ Crash(p) PROVE clock' = clock
    BY <2>3 DEF Own, RefreshRead, RefreshPublish, ReleaseRead, ReleaseUnlink, Crash
  <2> QED
    BY <1>0, <2>1, <2>2, <2>3 DEF Next, vars
<1>2. (lockFile # NoFile => lockFile.at <= clock)'
  <2>1. lockFile' # NoFile => lockFile'.at \in Nat
    BY DEF TypeOK, Files
  <2>2. lockFile # NoFile => lockFile.at \in Nat /\ lockFile.at <= clock
    BY DEF TypeOK, Files, TimesPast
  <2>3. \A q \in Services : stamp[q] \in Nat /\ stamp[q] <= clock
    BY <1>0 DEF StampsPast
  <2> QED
    BY <1>0, <1>1, <2>1, <2>2, <2>3, FileTimes
<1>3. ASSUME NEW p \in Services
      PROVE  \/ lease'[p] = lease[p]
             \/ lease'[p] = stamp[p] /\ pc'[p] # "refresh_publish"
  BY <1>0 DEF Next, Tick, Claim, Own, BeginClaim, OpenLock, WriteLock, Audit, InspectLock,
     OpenGuard, WriteGuard, InspectGuard, RemoveGuard, Recheck, FreshOpen, FreshWrite, FillLock,
     CheckGuard, Publish, Cleanup, CleanupRemove, RefreshRead, RefreshPublish,
     ReleaseRead, ReleaseUnlink, Crash, Goto, vars
<1>4. ASSUME NEW p \in Services PROVE lease'[p] <= clock'
  BY <1>0, <1>1, <1>3 DEF TimesPast, StampsPast
<1>5. ASSUME NEW p \in Services, pc'[p] = "refresh_publish" PROVE lease'[p] <= stamp'[p]
  <2>1. lease'[p] = lease[p] /\ lease[p] <= clock
    BY <1>3, <1>5 DEF TimesPast
  <2>2. \/ stamp'[p] = clock
        \/ pc[p] = "refresh_publish" /\ stamp'[p] = stamp[p]
    BY <1>0, <1>5 DEF Next, Tick, Claim, Own, BeginClaim, OpenLock, WriteLock, Audit, InspectLock,
       OpenGuard, WriteGuard, InspectGuard, RemoveGuard, Recheck, FreshOpen, FreshWrite,
       CheckGuard, Publish, Cleanup, CleanupRemove, AfterRecovery, RefreshRead, RefreshPublish,
       ReleaseRead, ReleaseUnlink, Crash, Goto, vars
  <2> QED
    BY <1>0, <2>1, <2>2 DEF TimesPast
<1> QED
  BY <1>2, <1>4, <1>5 DEF TimesPast

\* An owner in time is the tenant, and its lease has not lapsed.
LEMMA HolderFacts ==
  ASSUME IInv, TimesPast, slips = {}, NEW p \in Services, Holds(p)
  PROVE  /\ Readable /\ Tenant = {p} /\ Age = clock - lease[p]
         /\ Age \in Nat /\ Age < StaleAfter
<1>0. /\ clock \in Nat /\ lease[p] \in Nat /\ StaleAfter \in Nat \ {0} /\ TypeOK
      /\ lease[p] <= clock
  BY ConstantsOK DEF IInv, TypeOK, TimesPast
<1>1. lockFile = Stamped(p, lease[p], TRUE)
  BY DEF IInv, LeaseInv, OwnerInFile
<1>2. lockFile # NoFile /\ lockFile.owner = p /\ lockFile.at = lease[p] /\ lockFile.written = TRUE
  BY <1>0, <1>1, StampedFacts
<1>3. ~(clock - lease[p] >= StaleAfter)
  BY DEF Holds, Expired
<1> QED
  BY <1>0, <1>2, <1>3 DEF Readable, Tenant, Age

\* An owner in time keeps the others out.
LEMMA SoleHolder ==
  ASSUME IInv, TimesPast, slips = {}
  PROVE  /\ Holders = {} \/ \E p \in Services : Holders = {p} /\ Tenant = {p}
         /\ Age = StaleAfter \/ ~Readable => Holders = {}
<1>1. \A p \in Services : Holds(p) => Readable /\ Tenant = {p} /\ Age \in Nat /\ Age < StaleAfter
  BY HolderFacts
<1>2. ASSUME NEW p \in Services, Holds(p) PROVE Holders = {p} /\ Tenant = {p}
  BY <1>1, <1>2 DEF Holders
<1>3. Age = StaleAfter => ~(Age < StaleAfter)
  BY ConstantsOK
<1> QED
  BY <1>1, <1>2, <1>3 DEF Holders

\* Whoever does not write the lock file and does not become an owner leaves
\* the lease as it is, or abandons it.
LEMMA QuietStep ==
  ASSUME NEW p \in Services, slips = {}, slips' = {},
         UNCHANGED <<clock, lease>>, Tenant' = Tenant, Age' = Age,
         \A q \in Services \ {p} : pc'[q] = pc[q] /\ won'[q] = won[q],
         Owner(p)' => Owner(p)
  PROVE  [LockLease!Next]_(LockLease!vars)
<1>1. \A q \in Services \ {p} : Holds(q)' <=> Holds(q)
  BY DEF Holds, Owner, Expired
<1>2. Holds(p)' => Holds(p)
  BY DEF Holds, Expired
<1>3. Holders' = Holders \/ (p \in Holders /\ Holders' = Holders \ {p})
  BY <1>1, <1>2 DEF Holders
<1>4. CASE Holders' = Holders
  BY <1>4 DEF LockLease!vars
<1>5. CASE p \in Holders /\ Holders' = Holders \ {p}
  BY <1>5 DEF LockLease!Next, LockLease!Kept, LockLease!Abandon
<1> QED
  BY <1>3, <1>4, <1>5

\* p becomes the owner of a lock that was free or stale.
LEMMA GrantStep ==
  ASSUME NEW p \in Services, IInv, IInv', TimesPast, TimesPast', slips = {}, slips' = {},
         LockLease!Lapsed, UNCHANGED clock, lockFile' = Stamped(p, stamp[p], TRUE)',
         lease' = [lease EXCEPT ![p] = stamp[p]], stamp' = stamp,
         \A q \in Services \ {p} : pc'[q] = pc[q] /\ won'[q] = won[q],
         Owner(p)'
  PROVE  LockLease!Grant(p)
<1>0. /\ clock' \in Nat /\ stamp'[p] \in Nat /\ lease \in [Services -> Nat]
      /\ StaleAfter \in Nat \ {0} /\ TypeOK' /\ stamp'[p] <= clock'
  BY ConstantsOK DEF IInv, TypeOK, StampsPast
<1>1. Readable' /\ Tenant' = {p} /\ lockFile'.at = stamp'[p]
  <2>1. (Stamped(p, stamp[p], TRUE) # NoFile)'
    <3>1. attempt'[p] \in Nat /\ (p \in Services)'
      BY <1>0 DEF TypeOK
    <3>2. (Stamped(p, stamp[p], TRUE) \in Files)'
      BY <1>0, <3>1 DEF Stamped, Files
    <3> QED
      BY <3>2, ConstantsOK DEF Files
  <2> QED
    BY <2>1 DEF Readable, Tenant, Stamped
<1>a. Age' = IF clock' - stamp'[p] >= StaleAfter THEN StaleAfter ELSE clock' - stamp'[p]
  BY <1>1 DEF Age
<1>2. Age' \in 0..StaleAfter
  BY <1>0, <1>a
<1>3. \A q \in Services \ {p} : ~Holds(q)'
  <2>1. Holders = {}
    BY SoleHolder DEF LockLease!Lapsed, Tenant
  <2>2. \A q \in Services \ {p} : Holds(q)' <=> Holds(q)
    BY <1>0 DEF Holds, Owner, Expired
  <2> QED
    BY <2>1, <2>2 DEF Holders
<1>4. Holds(p)' <=> Age' # StaleAfter
  <2>1. lease'[p] = stamp'[p]
    BY <1>0
  <2>2. clock' - stamp'[p] >= StaleAfter <=> Age' = StaleAfter
    BY <1>0, <1>a
  <2> QED
    BY <2>1, <2>2 DEF Holds, Expired
<1>5. Holders' = IF Age' = StaleAfter THEN {} ELSE {p}
  BY <1>3, <1>4 DEF Holders
<1> QED
  BY <1>1, <1>2, <1>5 DEF LockLease!Grant, LockLease!Unlapsed

\* The step of a service on a lock file it leaves alone
LEMMA SameFile ==
  ASSUME NEW p \in Services, TypeOK, NotYetWon, slips = {}, slips' = {}, lockFile' = lockFile,
         UNCHANGED <<clock, lease>>, Claim(p) \/ Own(p) \/ Crash(p)
  PROVE  \/ [LockLease!Next]_(LockLease!vars)
         \/ pc[p] \in {"write", "fresh_write"}
         \/ pc[p] = "publish" /\ lease' = [lease EXCEPT ![p] = stamp[p]]
<1>0. pc \in [Services -> Steps] /\ won \in [Services -> BOOLEAN]
  BY DEF TypeOK
<1>1. Tenant' = Tenant /\ Age' = Age
  BY DEF Tenant, Age, Readable
<1>2. \A q \in Services \ {p} : pc'[q] = pc[q] /\ won'[q] = won[q]
  BY <1>0 DEF Claim, Own, BeginClaim, OpenLock, WriteLock, Audit, InspectLock,
     OpenGuard, WriteGuard, InspectGuard, RemoveGuard, Recheck, FreshOpen,
     FreshWrite, CheckGuard, Publish, Cleanup, CleanupRemove, RefreshRead,
     RefreshPublish, ReleaseRead, ReleaseUnlink, Crash, Goto
<1>3. \/ Owner(p)' => Owner(p)
      \/ pc[p] \in {"write", "fresh_write"}
      \/ pc[p] = "publish" /\ lease' = [lease EXCEPT ![p] = stamp[p]]
  BY <1>0 DEF Owner, NotYetWon, Unwon, Claim, Own, BeginClaim, OpenLock, WriteLock, Audit,
     InspectLock, OpenGuard, WriteGuard, InspectGuard, RemoveGuard, Recheck, FreshOpen,
     FreshWrite, CheckGuard, Publish, Cleanup, CleanupRemove, AfterRecovery, RefreshRead,
     RefreshPublish, ReleaseRead, ReleaseUnlink, Crash, Goto
<1> QED
  BY <1>1, <1>2, <1>3, QuietStep

\* An opened file cannot be read: the lock is as free as it was.
LEMMA OpenMaps ==
  ASSUME NEW p \in Services, IInv, slips = {}, slips' = {}, OpenLock(p) \/ FreshOpen(p)
  PROVE  [LockLease!Next]_(LockLease!vars)
<1>0. TypeOK /\ NotYetWon /\ pc \in [Services -> Steps]
  BY DEF IInv, TypeOK
<1>1. CASE lockFile' = lockFile
  BY <1>0, <1>1, SameFile DEF OpenLock, FreshOpen, Claim
<1>2. CASE lockFile = NoFile /\ lockFile' = Stamped(p, stamp[p], FALSE)
  <2>1. ~Readable /\ ~Readable'
    BY <1>2 DEF Readable, Stamped
  <2>2. Tenant' = Tenant /\ Age' = Age
    BY <2>1 DEF Tenant, Age
  <2>3. \A q \in Services \ {p} : pc'[q] = pc[q] /\ won'[q] = won[q]
    BY <1>0 DEF OpenLock, FreshOpen, Goto
  <2>4. ~Owner(p)'
    BY <1>0, <1>2 DEF OpenLock, FreshOpen, Goto, Owner
  <2> QED
    BY <2>2, <2>3, <2>4, QuietStep DEF OpenLock, FreshOpen
<1> QED
  BY <1>1, <1>2 DEF OpenLock, FreshOpen

\* The owner appears with the content of its file, created or renamed.
LEMMA WriteMaps ==
  ASSUME NEW p \in Services, IInv, IInv', TimesPast, TimesPast', slips = {}, slips' = {},
         \/ WriteLock(p) \/ FreshWrite(p)
         \/ Publish(p) /\ lockFile' = Stamped(p, stamp[p], TRUE)
            /\ lease' = [lease EXCEPT ![p] = stamp[p]]
            /\ won' = [won EXCEPT ![p] = TRUE]
  PROVE  LockLease!Grant(p)
<1>0. /\ pc \in [Services -> Steps] /\ won \in [Services -> BOOLEAN]
      /\ stamp \in [Services -> Nat] /\ attempt \in [Services -> Nat] /\ clock \in Nat
      /\ lockFile \in Files \union {NoFile} /\ TypeOK
  BY DEF IInv, TypeOK
<1>1. OwnTornLock /\ StillStale /\ StampsPast
  BY DEF IInv, LeaseInv
<1>2. UNCHANGED <<clock, stamp, attempt>> /\ lease' = [lease EXCEPT ![p] = stamp[p]]
  BY DEF WriteLock, FreshWrite, FillLock, Publish
<1>3. LockLease!Lapsed /\ lockFile' = Stamped(p, stamp[p], TRUE)
  <2>1. CASE WriteLock(p) \/ FreshWrite(p)
    <3>1. lockFile = Stamped(p, stamp[p], FALSE)
      BY <1>1, <2>1 DEF OwnTornLock, WriteLock, FreshWrite
    <3>2. MineTorn(lockFile, p) /\ ~Readable
      BY <1>0, <3>1, StampedFacts DEF MineTorn, IdOf, Stamped, Readable
    <3>3. lockFile' = [lockFile EXCEPT !.written = TRUE]
      BY <2>1, <3>2 DEF WriteLock, FreshWrite, FillLock
    <3>4. lockFile' = Stamped(p, stamp[p], TRUE)
      BY <3>1, <3>3 DEF Stamped
    <3> QED
      BY <3>2, <3>4 DEF LockLease!Lapsed, Tenant
  <2>2. CASE Publish(p) /\ lockFile' = Stamped(p, stamp[p], TRUE)
    <3>1. StaleAt(lockFile, stamp[p]) /\ stamp[p] <= clock
      BY <1>1, <2>2 DEF StillStale, StampsPast, Publish
    <3>2. lockFile # NoFile => lockFile.at \in Nat
      BY <1>0 DEF Files
    <3>3. clock - lockFile.at >= StaleAfter
      BY <1>0, <3>1, <3>2, ConstantsOK DEF StaleAt
    <3>4. Age = StaleAfter
      BY <3>1, <3>3 DEF Age, Readable, StaleAt
    <3> QED
      BY <2>2, <3>4 DEF LockLease!Lapsed
  <2> QED
    BY <2>1, <2>2
<1>4. lockFile' = Stamped(p, stamp[p], TRUE)'
  BY <1>2, <1>3 DEF Stamped
<1>5. \A q \in Services \ {p} : pc'[q] = pc[q] /\ won'[q] = won[q]
  BY <1>0 DEF WriteLock, FreshWrite, Publish, Goto
<1>6. Owner(p)'
  BY <1>0 DEF WriteLock, FreshWrite, Publish, Goto, Owner
<1> QED
  BY <1>2, <1>3, <1>4, <1>5, <1>6, GrantStep

\* A refresh in time makes the lease younger.
LEMMA RefreshMaps ==
  ASSUME NEW p \in Services, IInv, IInv', TimesPast, TimesPast', slips = {}, slips' = {},
         RefreshPublish(p), ~UNCHANGED <<lockFile, lease>>, lockFile' = Stamped(p, stamp[p], TRUE),
         lease' = [lease EXCEPT ![p] = stamp[p]]
  PROVE  LockLease!Renew(p)
<1>0. /\ pc \in [Services -> Steps] /\ lease \in [Services -> Nat]
      /\ stamp \in [Services -> Nat] /\ clock \in Nat /\ StaleAfter \in Nat \ {0}
      /\ stamp[p] <= clock
  BY ConstantsOK DEF IInv, TypeOK, StampsPast
<1>1. UNCHANGED <<clock, stamp, won>> /\ ~Expired(p) /\ lease[p] <= stamp[p] /\ Owner(p)
  BY DEF RefreshPublish, TimesPast, Owner
<1>2. Holds(p) /\ p \in Holders
  BY <1>1 DEF Holds, Holders
<1>3. Tenant = {p} /\ Age = clock - lease[p]
  BY <1>2, HolderFacts
<1>4. Owner(p)'
  BY <1>0 DEF RefreshPublish, Goto, Owner
<1>5. lease'[p] = stamp[p]
  BY <1>0
<1>6. Holds(p)'
  BY <1>0, <1>1, <1>4, <1>5 DEF Holds, Expired
<1>7. Tenant' = {p} /\ Age' = clock' - lease'[p] /\ Age' \in Nat
  <2>1. (Stamped(p, stamp[p], TRUE) # NoFile)
    BY <1>0, StampedFacts DEF IInv
  <2>2. Readable' /\ lockFile'.owner = p /\ lockFile'.at = stamp[p]
    BY <2>1 DEF Readable, Stamped
  <2>3. ~(clock' - lease'[p] >= StaleAfter)
    BY <1>6 DEF Holds, Expired
  <2>4. Tenant' = {p} /\ Age' = clock' - stamp[p]
    BY <1>5, <2>2, <2>3 DEF Tenant, Age
  <2> QED
    BY <1>0, <1>1, <1>5, <2>4
<1>8. Age' \in 0..Age
  BY <1>0, <1>1, <1>3, <1>5, <1>7
<1>9. \A q \in Services \ {p} : Holds(q)' <=> Holds(q)
  BY <1>0, <1>1 DEF Holds, Owner, Expired, RefreshPublish, Goto
<1>10. Holders' = Holders
  BY <1>2, <1>6, <1>9 DEF Holders
<1> QED
  BY <1>2, <1>3, <1>7, <1>8, <1>10 DEF LockLease!Renew

\* A release in time gives the lease back.
LEMMA ReleaseMaps ==
  ASSUME NEW p \in Services, IInv, TimesPast, slips = {}, slips' = {}, ReleaseUnlink(p)
  PROVE  LockLease!GiveBack(p)
<1>0. pc \in [Services -> Steps]
  BY DEF IInv, TypeOK
<1>1. Holds(p) /\ p \in Holders
  BY DEF ReleaseUnlink, Holds, Owner, Holders
<1>2. Holders = {p}
  BY <1>1, SoleHolder
<1>3. Tenant' = {} /\ Age' = 0
  BY DEF ReleaseUnlink, Tenant, Age, Readable
<1>4. \A q \in Services : Holds(q)' => Holds(q) /\ q # p
  BY <1>0 DEF ReleaseUnlink, Goto, Holds, Owner, Expired
<1>5. Holders' = {}
  BY <1>2, <1>4 DEF Holders
<1> QED
  BY <1>1, <1>2, <1>3, <1>5 DEF LockLease!GiveBack

\* Time ages the lease; when it lapses its owner is no holder any more.
LEMMA TickMaps ==
  ASSUME IInv, TimesPast, IInv', TimesPast', slips = {}, slips' = {}, Tick
  PROVE  [LockLease!Next]_(LockLease!vars)
<1>0. /\ clock \in Nat /\ clock' = clock + 1 /\ StaleAfter \in Nat \ {0}
      /\ lockFile \in Files \union {NoFile} /\ lease \in [Services -> Nat]
      /\ UNCHANGED <<lockFile, pc, won, lease>>
  BY ConstantsOK DEF IInv, TypeOK, Tick
<1>1. \A q \in Services : Holds(q)' => Holds(q)
  BY <1>0 DEF Holds, Owner, Expired
<1>2. Readable' = Readable /\ Tenant' = Tenant
  BY <1>0 DEF Readable, Tenant
<1>3. CASE ~Readable \/ Age = StaleAfter
  <2>1. Age' = Age
    <3>1. CASE ~Readable
      BY <1>2, <3>1 DEF Age
    <3>2. CASE Readable /\ Age = StaleAfter
      <4>1. lockFile.at \in Nat
        BY <1>0, <3>2 DEF Readable, Files
      <4>2. clock - lockFile.at >= StaleAfter
        BY <1>0, <3>2, <4>1 DEF Age
      <4> QED
        BY <1>0, <1>2, <3>2, <4>1, <4>2 DEF Age
    <3> QED
      BY <1>3, <3>1, <3>2
  <2>2. Holders = {} /\ Holders' = {}
    BY <1>1, <1>3, SoleHolder DEF Holders
  <2> QED
    BY <1>2, <2>1, <2>2 DEF LockLease!vars
<1>4. CASE Readable /\ Age # StaleAfter
  <2>1. lockFile.at \in Nat
    BY <1>0, <1>4 DEF Readable, Files
  <2>2. Age = clock - lockFile.at /\ ~(clock - lockFile.at >= StaleAfter)
    BY <1>4 DEF Age
  <2>3. Age' = Age + 1
    BY <1>0, <1>2, <1>4, <2>1, <2>2 DEF Age
  <2>4. ~LockLease!Lapsed
    BY <1>4 DEF LockLease!Lapsed, Tenant
  <2>5. Age' = StaleAfter => Holders' = {}
    <3> SUFFICES ASSUME Age' = StaleAfter, NEW q \in Services, Holds(q)' PROVE FALSE
      BY DEF Holders
    <3>1. Age = clock - lease[q] /\ lease[q] \in Nat
      BY <1>0, <1>1, HolderFacts
    <3> QED
      BY <1>0, <2>3, <3>1 DEF Holds, Expired
  <2>6. ASSUME Age' # StaleAfter, NEW q \in Services, Holds(q) PROVE Holds(q)'
    <3>1. Age = clock - lease[q] /\ Age \in Nat /\ Age < StaleAfter
      BY <2>6, HolderFacts
    <3>2. clock' - lease'[q] = Age + 1 /\ lease[q] \in Nat
      BY <1>0, <3>1
    <3>3. ~(clock' - lease'[q] >= StaleAfter)
      BY <1>0, <2>3, <2>6, <3>1, <3>2
    <3> QED
      BY <1>0, <2>6, <3>3 DEF Holds, Owner, Expired
  <2>7. Age' # StaleAfter => Holders' = Holders
    BY <1>1, <2>6 DEF Holders
  <2> QED
    BY <1>2, <2>3, <2>4, <2>5, <2>7 DEF LockLease!Next, LockLease!Kept, LockLease!Pass, LockLease!Unlapsed
<1> QED
  BY <1>3, <1>4

\* Every step of the lock is a step of the lease, or leaves it alone.
LEMMA StepMaps ==
  ASSUME IInv, IInv', TimesPast, TimesPast', [Next]_vars
  PROVE  [LockLease!Next]_(LockLease!vars)
<1>1. CASE slips' # {}
  BY <1>1 DEF LockLease!Next
<1>2. CASE slips' = {}
  <2>0. slips = {} /\ TypeOK /\ NotYetWon
    BY <1>2, SlipsGrow DEF IInv
  <2>1. CASE Tick
    BY <1>2, <2>0, <2>1, TickMaps
  <2>2. CASE UNCHANGED vars
    BY <2>2 DEF vars, LockLease!vars, Tenant, Age, Holders, Readable, Holds, Owner, Expired
  <2>3. ASSUME NEW p \in Services, LockLease!Grant(p) \/ LockLease!Renew(p) \/ LockLease!GiveBack(p)
        PROVE  LockLease!Next
    BY <1>2, <2>0, <2>3 DEF LockLease!Next, LockLease!Kept
  <2>4. ASSUME NEW p \in Services, Claim(p) PROVE [LockLease!Next]_(LockLease!vars)
    <3>1. CASE OpenLock(p) \/ FreshOpen(p)
      BY <1>2, <2>0, <3>1, OpenMaps
    <3>2. CASE WriteLock(p) \/ FreshWrite(p)
      BY <1>2, <2>0, <2>3, <3>2, WriteMaps
    <3>3. CASE Publish(p) /\ UNCHANGED <<lockFile, lease, won>>
      <4>1. Tenant' = Tenant /\ Age' = Age
        BY <3>3 DEF Publish, Tenant, Age, Readable
      <4>2. \A q \in Services \ {p} : pc'[q] = pc[q] /\ won'[q] = won[q]
        BY <2>0, <3>3 DEF Publish, Goto, TypeOK
      <4>3. ~Owner(p)'
        BY <2>0, <3>3 DEF Publish, Goto, TypeOK, Owner, NotYetWon, Unwon
      <4> QED
        BY <1>2, <2>0, <3>3, <4>1, <4>2, <4>3, QuietStep DEF Publish
    <3>4. CASE Publish(p) /\ ~UNCHANGED <<lockFile, lease, won>>
      BY <1>2, <2>0, <2>3, <3>4, WriteMaps DEF Publish
    <3>5. CASE /\ ~(OpenLock(p) \/ FreshOpen(p) \/ WriteLock(p) \/ FreshWrite(p) \/ Publish(p))
      <4>1. /\ UNCHANGED <<clock, lockFile, lease>>
            /\ pc[p] \notin {"write", "fresh_write", "publish"}
        BY <2>4, <3>5 DEF Claim, BeginClaim, Audit, InspectLock, OpenGuard, WriteGuard,
           InspectGuard, RemoveGuard, Recheck, CheckGuard, Cleanup, CleanupRemove
      <4> QED
        BY <1>2, <2>0, <2>4, <4>1, SameFile
    <3> QED
      BY <3>1, <3>2, <3>3, <3>4, <3>5
  <2>5. ASSUME NEW p \in Services, Own(p) \/ Crash(p) PROVE [LockLease!Next]_(LockLease!vars)
    <3>1. CASE RefreshPublish(p) /\ ~UNCHANGED <<lockFile, lease>>
      BY <1>2, <2>0, <2>3, <3>1, RefreshMaps DEF RefreshPublish
    <3>2. CASE ReleaseUnlink(p)
      BY <1>2, <2>0, <2>3, <3>2, ReleaseMaps
    <3>3. CASE (RefreshPublish(p) => UNCHANGED <<lockFile, lease>>) /\ ~ReleaseUnlink(p)
      <4>1. UNCHANGED <<clock, lockFile, lease>>
        BY <2>5, <3>3 DEF Own, RefreshRead, RefreshPublish, ReleaseRead, Crash
      <4>2. CASE Own(p)
        <5>1. pc[p] \notin {"write", "fresh_write", "publish"}
          BY <4>2 DEF Own, RefreshRead, RefreshPublish, ReleaseRead, ReleaseUnlink
        <5> QED
          BY <1>2, <2>0, <2>5, <4>1, <5>1, SameFile
      <4>3. CASE Crash(p)
        <5>1. Tenant' = Tenant /\ Age' = Age
          BY <4>1 DEF Tenant, Age, Readable
        <5>2. \A q \in Services \ {p} : pc'[q] = pc[q] /\ won'[q] = won[q]
          BY <2>0, <4>3 DEF Crash, Goto, TypeOK
        <5>3. ~Owner(p)'
          BY <2>0, <4>3 DEF Crash, Goto, TypeOK, Owner
        <5> QED
          BY <1>2, <2>0, <4>1, <5>1, <5>2, <5>3, QuietStep
      <4> QED
        BY <2>5, <4>2, <4>3
    <3> QED
      BY <3>1, <3>2, <3>3
  <2> QED
    BY <2>1, <2>2, <2>4, <2>5 DEF Next
<1> QED
  BY <1>1, <1>2

\* The kernel lock implements the lease, for any number of services: without
\* a slip it is granted only when it is free or stale, refreshed and removed
\* by its owner in time only, and outlives a dead owner until it is stale.
THEOREM Implementation == Spec => LeaseKept
<1>1. Init => LockLease!Init /\ TimesPast
  <2> SUFFICES ASSUME Init PROVE LockLease!Init /\ TimesPast
    OBVIOUS
  <2>1. Holders = {}
    BY DEF Init, Holders, Holds, Owner
  <2> QED
    BY <2>1 DEF Init, LockLease!Init, Tenant, Age, Readable, TimesPast
<1>2. TypeOK /\ TypeOK' /\ IInv /\ TimesPast /\ [Next]_vars => TimesPast'
  BY TimesStep DEF IInv
<1>3. IInv /\ IInv' /\ TimesPast /\ TimesPast' /\ [Next]_vars => [LockLease!Next]_(LockLease!vars)
  BY StepMaps
<1> QED
  BY <1>1, <1>2, <1>3, TypeCorrect, Invariance, PTL DEF Spec, LeaseKept, LockLease!Spec

\* One owner at most has a lease that has not run out, and the lock file is its
\* own: what the lease promises.
THEOREM OneHolder == Spec => []LockLease!HolderIsTenant
<1>1. StaleAfter \in Nat \ {0}
  BY ConstantsOK
<1>2. LockLease!Spec => []LockLease!HolderIsTenant
  BY <1>1, LockLease!AtMostOneHolder
<1> QED
  BY <1>2, Implementation, PTL DEF LeaseKept
===============================================================================
