------------------------------ MODULE CallContract ------------------------------
(***************************************************************************)
(* What the inbox and the kernel's processor promise to the jobs that      *)
(* submit delegation calls, without files, passes or failures: a call gets *)
(* at most one answer, which never changes; the calls with one idempotency *)
(* key share at most one child job, made before any of them succeeds; and  *)
(* a call answered as denied or expired has none.                          *)
(***************************************************************************)
CONSTANTS Calls, Key

VARIABLES
    answer,     \* the answer of each call
    children    \* calls whose child job was made

Unanswered == "none"
Answers == {"completed", "denied", "failed", "expired"}

Siblings(c) == {d \in Calls : Key[d] = Key[c]}

Init == answer = [c \in Calls |-> Unanswered] /\ children = {}

MakeChild(c) ==
    /\ answer[c] = Unanswered
    /\ Siblings(c) \intersect children = {}
    /\ children' = children \union {c}
    /\ UNCHANGED answer

AnswerCall(c, o) ==
    /\ answer[c] = Unanswered
    /\ o \in {"denied", "expired"} => c \notin children
    /\ o = "completed" => Siblings(c) \intersect children # {}
    /\ answer' = [answer EXCEPT ![c] = o]
    /\ UNCHANGED children

Next == \E c \in Calls : MakeChild(c) \/ \E o \in Answers : AnswerCall(c, o)

Spec == Init /\ [][Next]_<<answer, children>>

===============================================================================
