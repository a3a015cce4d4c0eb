--------------------------- MODULE AbstractServed ---------------------------
(***************************************************************************)
(* What a served procedure promises, whatever task handles an item, is     *)
(* cancelled, or stops it: a handler runs for an item at most once, Python *)
(* sets out once to answer (a session: to free) an item before it is over, *)
(* with or without a handler, and stopping is a barrier: once a stop() is  *)
(* over that withdrew the procedure, no handler runs and none will.        *)
(*                                                                         *)
(* Served.tla, the class Served of src/macula_py/pool.py and its handlers, *)
(* implements this specification.                                          *)
(***************************************************************************)
CONSTANTS Items

VARIABLES phase,   \* "serving" or "stopped"
          work,    \* where the handling of each item is
          answered \* Python has set out to answer, or free, it

vars == <<phase, work, answered>>

TypeOK == /\ phase \in {"serving", "stopped"}
          /\ work \in [Items -> {"waiting", "running", "over"}]
          /\ answered \in [Items -> BOOLEAN]

Init == /\ phase = "serving"
        /\ work = [i \in Items |-> "waiting"]
        /\ answered = [i \in Items |-> FALSE]

Works(i, where) == work' = [work EXCEPT ![i] = where]

Start(i) == /\ phase = "serving"
            /\ work[i] = "waiting" /\ Works(i, "running")
            /\ UNCHANGED <<phase, answered>>

Answer(i) == /\ work[i] = "running" /\ ~answered[i]
             /\ answered' = [answered EXCEPT ![i] = TRUE]
             /\ UNCHANGED <<phase, work>>

\* The handling is over; a cancelled one may answer as it ends.
End(i) == /\ work[i] = "running" /\ Works(i, "over")
          /\ answered' = [answered EXCEPT ![i] = TRUE]
          /\ UNCHANGED phase

\* An item that never reaches a handler, even one that comes after the stop.
Release(i) == /\ work[i] = "waiting" /\ Works(i, "over")
              /\ answered' = [answered EXCEPT ![i] = TRUE]
              /\ UNCHANGED phase

Stop == /\ \A i \in Items : work[i] # "running"
        /\ phase' = "stopped"
        /\ UNCHANGED <<work, answered>>

Next == Stop \/ \E i \in Items : Start(i) \/ Answer(i) \/ End(i) \/ Release(i)

Spec == Init /\ [][Next]_vars

\* What was answered comes to its end.
FairSpec == Spec /\ \A i \in Items : WF_vars(answered[i] /\ End(i))
=============================================================================
