------------------------------ MODULE MCRouter ------------------------------
(* Model values for Router, and the symmetry of its requests: they differ   *)
(* only in the parameters Init gives them, and the runs that use the        *)
(* symmetry check no liveness.                                              *)
EXTENDS Router, TLC

RequestSymmetry == Permutations(Requests)
=============================================================================
