---------------------------- MODULE MCWatchService ----------------------------
(* Model-checking instance of WatchService. *)
EXTENDS WatchService
===============================================================================
