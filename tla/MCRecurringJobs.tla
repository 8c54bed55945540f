---------------------------- MODULE MCRecurringJobs ---------------------------
(* Model-checking instance of RecurringJobs. *)
EXTENDS RecurringJobs
===============================================================================
