---------------------------- MODULE MCKernelLock ----------------------------
(* Model-checking instance of KernelLock: interchangeable services. *)
EXTENDS KernelLock, TLC

Symmetry == Permutations(Services)
===============================================================================
