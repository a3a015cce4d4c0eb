-------------------------------- MODULE MCPool --------------------------------
(***************************************************************************)
(* Pool with two operations beside connect, two callers of close() and the *)
(* kinds of error that are told apart on the way up.                       *)
(***************************************************************************)
EXTENDS Pool
CONSTANTS opening, first, second, leaver, other

Told == {"timeout", "not_found", "cancelled", "closed", "invalid_handle"}
=============================================================================
