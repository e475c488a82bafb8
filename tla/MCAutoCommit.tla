---------------------------- MODULE MCAutoCommit ----------------------------
(* A document whose actor lies between two others, in the order of bytes.  *)
EXTENDS AutoCommit

MCOwn == <<2, 4>>
=============================================================================
