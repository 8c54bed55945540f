--------------------------------- MODULE Lease ---------------------------------
(***************************************************************************)
(* What the lock files of OpenMAS promise to the processes that contend    *)
(* for one of them, without files, guards or claims in progress: a lock is *)
(* a tenancy that ages, is granted only when there is none or when it has  *)
(* lapsed, and is renewed and given back by its holder only.  A holder is  *)
(* a process that goes by its tenancy before it has lapsed.                *)
(*                                                                         *)
(* The contract binds as long as nobody acts past a tenancy.               *)
(***************************************************************************)
EXTENDS Naturals, TLAPS

CONSTANTS
    Contenders,
    StaleAfter      \* the age at which a tenancy lapses

VARIABLES
    tenant,         \* {c} once the lock is granted to c, {} when it is free
    age,            \* time since it was granted or renewed, up to StaleAfter
    holders,        \* who goes by an unlapsed tenancy
    void            \* somebody has acted past a tenancy

vars == <<tenant, age, holders, void>>

Init == tenant = {} /\ age = 0 /\ holders = {} /\ void = FALSE

Lapsed == tenant = {} \/ age = StaleAfter

Unlapsed(contenders) == IF age' = StaleAfter THEN {} ELSE contenders

\* The age counts from the beginning of the claim, which may be long ago.
Grant(c) ==
    /\ Lapsed
    /\ tenant' = {c} /\ age' \in 0..StaleAfter
    /\ holders' = Unlapsed({c})

Renew(c) ==
    /\ c \in holders
    /\ age' \in 0..age
    /\ UNCHANGED <<tenant, holders>>

GiveBack(c) ==
    /\ c \in holders
    /\ tenant' = {} /\ age' = 0
    /\ holders' = holders \ {c}

\* A holder dies, or forgets what it was granted: its tenancy has to lapse.
Abandon(c) ==
    /\ c \in holders
    /\ holders' = holders \ {c}
    /\ UNCHANGED <<tenant, age>>

\* The first step of a take-over in two
Evict ==
    /\ Lapsed
    /\ tenant' = {} /\ age' = 0
    /\ UNCHANGED holders

Pass ==
    /\ ~Lapsed
    /\ age' = age + 1
    /\ holders' = Unlapsed(holders)
    /\ UNCHANGED tenant

Kept ==
    \/ Evict \/ Pass
    \/ \E c \in Contenders : Grant(c) \/ Renew(c) \/ GiveBack(c) \/ Abandon(c)

Next == (~void /\ ~void' /\ Kept) \/ void'

Spec == Init /\ [][Next]_vars

\* There is at most one holder, and it is the tenant in time.
HolderIsTenant ==
    ~void => /\ \A c \in holders : tenant = {c}
             /\ holders # {} => ~Lapsed

-------------------------------------------------------------------------------
(* That the contract is worth keeping: it excludes a second holder.        *)

Exclusive == ~void => age \in 0..StaleAfter /\ HolderIsTenant

\* At any time one contender at most goes by an unlapsed tenancy, its own, and
\* nobody goes by one that is free or has lapsed, for every set of contenders
\* and every age at which a tenancy lapses.
THEOREM AtMostOneHolder ==
    ASSUME StaleAfter \in Nat \ {0}
    PROVE  Spec => []HolderIsTenant
<1>1. Init => Exclusive
  BY DEF Init, Exclusive, HolderIsTenant
<1>2. Exclusive /\ [Next]_vars => Exclusive'
  <2> SUFFICES ASSUME Exclusive, [Next]_vars, ~void' PROVE age' \in 0..StaleAfter /\ HolderIsTenant'
    BY DEF Exclusive
  <2>1. CASE UNCHANGED vars
    BY <2>1 DEF vars, Exclusive, HolderIsTenant, Lapsed
  <2>2. CASE ~void /\ Kept
    <3>i. /\ age \in 0..StaleAfter /\ \A c \in holders : tenant = {c}
          /\ holders # {} => tenant # {} /\ age # StaleAfter
      BY <2>2 DEF Exclusive, HolderIsTenant, Lapsed
    <3>1. CASE Evict
      BY <3>1, <3>i DEF Evict, Lapsed, HolderIsTenant
    <3>2. CASE Pass
      BY <3>2, <3>i DEF Pass, Lapsed, Unlapsed, HolderIsTenant
    <3>3. ASSUME NEW c \in Contenders, Grant(c) PROVE age' \in 0..StaleAfter /\ HolderIsTenant'
      BY <3>3 DEF Grant, Lapsed, Unlapsed, HolderIsTenant
    <3>4. ASSUME NEW c \in Contenders, Renew(c) PROVE age' \in 0..StaleAfter /\ HolderIsTenant'
      BY <3>4, <3>i DEF Renew, Lapsed, HolderIsTenant
    <3>5. ASSUME NEW c \in Contenders, GiveBack(c) \/ Abandon(c) PROVE age' \in 0..StaleAfter /\ HolderIsTenant'
      <4>1. holders' = {}
        BY <3>5, <3>i DEF GiveBack, Abandon
      <4> QED
        BY <3>5, <3>i, <4>1 DEF GiveBack, Abandon, HolderIsTenant
    <3> QED
      BY <2>2, <3>1, <3>2, <3>3, <3>4, <3>5 DEF Kept
  <2> QED
    BY <2>1, <2>2 DEF Next
<1>3. Exclusive => HolderIsTenant
  BY DEF Exclusive, HolderIsTenant
<1> QED
  BY <1>1, <1>2, <1>3, PTL DEF Spec
================================================================================
