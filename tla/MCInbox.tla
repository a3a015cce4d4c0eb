------------------------------ MODULE MCInbox ------------------------------
(***************************************************************************)
(* Inbox with a task that iterates the subscription beside one that calls  *)
(* next() with a timeout.                                                  *)
(***************************************************************************)
EXTENDS Inbox
CONSTANTS iterating, polling
=============================================================================
