---------------------------- MODULE AbstractCall ----------------------------
(***************************************************************************)
(* What awaiting a native call promises, whatever thread it runs on and    *)
(* however its task is cancelled: the awaiting task gets one outcome, and  *)
(* a handle the native call made has one fate.  It is the caller's once    *)
(* the call has returned, or it is released, and it is released only when  *)
(* the task was cancelled and so can never see it.                         *)
(*                                                                         *)
(* BlockingCall.tla, the code of src/macula_py/_blocking.py, implements    *)
(* this specification.                                                     *)
(***************************************************************************)
EXTENDS FiniteSets

CONSTANTS Calls,  \* the awaited native calls
          Kept    \* those whose handle never outlives its owner: given a discard

VARIABLES status, \* what the awaiting task has seen of each call
          handle  \* the native handle each call made, if it made one

vars == <<status, handle>>

Statuses == {"idle", "running", "returned", "raised", "cancelled"}
Handles  == {"none", "live", "released"}

TypeOK == /\ status \in [Calls -> Statuses]
          /\ handle \in [Calls -> Handles]

Init == /\ status = [c \in Calls |-> "idle"]
        /\ handle = [c \in Calls |-> "none"]

Begin(c) == /\ status[c] = "idle"
            /\ status' = [status EXCEPT ![c] = "running"]
            /\ UNCHANGED handle

\* The native call makes its handle, perhaps after its task has gone.
Make(c) == /\ status[c] \in {"running", "cancelled"}
           /\ handle[c] = "none"
           /\ handle' = [handle EXCEPT ![c] = "live"]
           /\ UNCHANGED status

Return(c) == /\ status[c] = "running"
             /\ handle[c] # "released"
             /\ status' = [status EXCEPT ![c] = "returned"]
             /\ UNCHANGED handle

\* A call that fails has made nothing its caller would have to release.
Fail(c) == /\ status[c] = "running"
           /\ handle[c] = "none"
           /\ status' = [status EXCEPT ![c] = "raised"]
           /\ UNCHANGED handle

Abandon(c) == /\ status[c] = "running"
              /\ status' = [status EXCEPT ![c] = "cancelled"]
              /\ UNCHANGED handle

Release(c) == /\ status[c] = "cancelled"
              /\ handle[c] = "live"
              /\ handle' = [handle EXCEPT ![c] = "released"]
              /\ UNCHANGED status

Next == \E c \in Calls : \/ Begin(c) \/ Make(c) \/ Return(c)
                         \/ Fail(c) \/ Abandon(c) \/ Release(c)

Spec == Init /\ [][Next]_vars

\* A live handle whose task has not returned yet gets its owner or its release.
Decide(c) == handle[c] = "live" /\ (Return(c) \/ Release(c))

FairSpec == Spec /\ \A c \in Kept : WF_vars(Decide(c))
=============================================================================
