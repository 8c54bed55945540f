---------------------------- MODULE MCSystemCalls ----------------------------
(* Two calls with one idempotency key, one that expires at time 1 and one    *)
(* at time 2.                                                                *)
EXTENDS SystemCalls

CONSTANTS first, second

MCKey == [c \in Calls |-> "key"]
MCExpiresAt == [c \in Calls |-> IF c = first THEN 1 ELSE 2]

===============================================================================
