------------------------------ MODULE MCStreams ------------------------------
(***************************************************************************)
(* Streams with its owner, which may read too, and a task that iterates.   *)
(***************************************************************************)
EXTENDS Streams
CONSTANTS owner, iterating
=============================================================================
