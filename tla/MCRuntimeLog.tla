---------------------------- MODULE MCRuntimeLog ----------------------------
(* The runtime log with a ring of three entries of which two are shown. *)
EXTENDS RuntimeLog
=============================================================================
