------------------------ MODULE MCStreamTranslation ------------------------
(* All pairs of protocols, with short answers.                              *)
EXTENDS StreamTranslation

AllPairs == Protocols \X Protocols
=============================================================================
