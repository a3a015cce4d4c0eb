------------------------------ MODULE MCServed ------------------------------
(***************************************************************************)
(* Served with two items and up to two callers of stop().                  *)
(***************************************************************************)
EXTENDS Served
CONSTANTS one, two, user, retry
=============================================================================
