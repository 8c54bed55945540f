---------------------------- MODULE MCOneShotTimers ----------------------------
(* A delegated child job and a job the host schedules, due at different     *)
(* times, so that a pass finds one due and the other pending.               *)
EXTENDS OneShotTimers

CONSTANTS child, own

MCRunAt == [j \in {child, own} |-> IF j = child THEN 1 ELSE 0]

===============================================================================
