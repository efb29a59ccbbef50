---------------------------- MODULE MCSharedStore ----------------------------
(* The values of MCConfigStore for a directory that two instances share.     *)
EXTENDS MCConfigStore, SharedStore
=============================================================================
