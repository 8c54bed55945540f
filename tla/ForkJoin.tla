-------------------------------- MODULE ForkJoin --------------------------------
(***************************************************************************)
(* What delegation promises to a parent and its children, without ticks,   *)
(* signals, records or failed writes: a child is run once and from start   *)
(* to end; the parent parks when it forks a child, and is woken and goes   *)
(* on, in a thread of its own that is entered once, only when some child   *)
(* has ended; and one continuation at most is inside at a time, while      *)
(* nothing is forked.                                                      *)
(***************************************************************************)
CONSTANTS
    Children, Threads,
    First           \* the thread that the parent has parked to begin with

VARIABLES
    child,          \* each child: none, forked, running, ended
    life,           \* each thread of the parent: none, created, running, parked, over
    inside          \* the continuation that is being resumed, in a set

vars == <<child, life, inside>>

Init ==
    /\ child = [k \in Children |-> "none"]
    /\ life = [t \in Threads |-> IF t = First THEN "parked" ELSE "none"]
    /\ inside = {}

SomeEnded == \E k \in Children : child[k] = "ended"

ChildGoes(k, from, to) == child[k] = from /\ child' = [child EXCEPT ![k] = to]

LifeGoes(t, from, to) == life[t] \in from /\ life' = [life EXCEPT ![t] = to]

Fork(k, t) ==
    /\ inside = {}
    /\ ChildGoes(k, "none", "forked")
    /\ LifeGoes(t, {"running", "parked"}, "parked")
    /\ UNCHANGED inside

Run(k) == ChildGoes(k, "forked", "running") /\ UNCHANGED <<life, inside>>

End(k) == ChildGoes(k, "running", "ended") /\ UNCHANGED <<life, inside>>

\* The wait of a thread is over, and a continuation is there to be resumed.
Wake(t) == SomeEnded /\ LifeGoes(t, {"parked"}, "over") /\ UNCHANGED <<child, inside>>

Continue(t) == SomeEnded /\ LifeGoes(t, {"none"}, "created") /\ UNCHANGED <<child, inside>>

Begin(t) ==
    /\ SomeEnded
    /\ inside = {} /\ life[t] = "created"
    /\ inside' = {t}
    /\ UNCHANGED <<child, life>>

Enter(t) == t \in inside /\ LifeGoes(t, {"created"}, "running") /\ UNCHANGED <<child, inside>>

Pause(t) ==
    /\ t \in inside
    /\ \E to \in {"parked", "over"} : LifeGoes(t, {"running"}, to)
    /\ UNCHANGED <<child, inside>>

\* The resumption ends, or dies wherever it is.
Leave(t) == inside = {t} /\ inside' = {} /\ UNCHANGED <<child, life>>

\* A thread that is parked, or that nobody resumes, is given up.
Fail(t) ==
    /\ life[t] = "parked" \/ t \notin inside
    /\ LifeGoes(t, {"running", "parked"}, "over")
    /\ UNCHANGED <<child, inside>>

Next ==
    \/ \E k \in Children : Run(k) \/ End(k) \/ \E t \in Threads : Fork(k, t)
    \/ \E t \in Threads : \/ Wake(t) \/ Continue(t) \/ Begin(t) \/ Enter(t)
                          \/ Pause(t) \/ Leave(t) \/ Fail(t)

Spec == Init /\ [][Next]_vars

===============================================================================
