----------------------------- MODULE MCJobClaims ------------------------------
(* Model-checking instance of JobClaims: interchangeable claimers. *)
EXTENDS JobClaims, TLC

Symmetry == Permutations(Claimers \ {First})
===============================================================================
