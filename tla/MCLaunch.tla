------------------------------- MODULE MCLaunch -------------------------------
(* Three launches on one directory, interchangeable before they start, which *)
(* may find the configuration of an older version: plain, or sealed by a     *)
(* passphrase or a generated key.                                            *)
EXTENDS Launch, TLC

MCLegacy == [key: {NoKey, Passphrase, Former}, secrets: SUBSET Secret]

LaunchSymmetry == Permutations(Launch)
=============================================================================
