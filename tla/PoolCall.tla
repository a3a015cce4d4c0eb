------------------------------ MODULE PoolCall ------------------------------
(***************************************************************************)
(* What Pool takes as one await of an operation, with its native call and  *)
(* its discard, is what BlockingCall does.  Every call is here an          *)
(* operation of a pool that is open, and each step of the loop and of the  *)
(* threads is a step of Pool, or nothing Pool sees.                        *)
(***************************************************************************)
EXTENDS BlockingCall, Naturals

\* As for every method of Pool: run_blocking is given a discard for what it makes.
ASSUME OperationsAssumption == Makers \cap Blocking \subseteq Discarding

\* The operation that connected the pool is over, and no call of this module.
Connected  == NoCall
Operations == Calls \cup {Connected}

\* A native call has ended once work() has classified what it ended with.
IsBack(c) == thread[c] \in {"leaving", "finished", "ended"}

\* An operation is over once it was told, or its result was discarded.
IsOver(c) == task[c] \in {"returned", "raised"} \/ handle[c] = "released"

At(c) == IF task[c] = "idle" THEN "idle"
         ELSE IF IsOver(c) THEN "ended" ELSE IF IsBack(c) THEN "back" ELSE "called"

Kind(c) == IF outcome[c] = "result" THEN "ok"
           ELSE IF outcome[c] = "error" THEN "failed" ELSE "cancelled"

Result(c) == IF At(c) = "back" THEN Kind(c) ELSE "none"

Error(c) == IF outcome[c] = "native_cancelled" THEN "NativeCancelled" ELSE "MaculaError"

Told(c) == CASE task[c] = "returned"  -> "value"
             [] task[c] = "raised"    -> Error(c)
             [] task[c] = "cancelled" -> "CancelledError"
             [] OTHER                 -> "nothing"

Object(c) == IF handle[c] = "released" THEN "ended"
             ELSE IF handle[c] = "live" /\ IsBack(c) THEN "live" ELSE "none"

\* The method of its kind, of those Pool has, while anything is left of it.
MethodOf(c) == [how      |-> IF c \in Blocking THEN "blocking" ELSE "native",
                does     |-> IF c \in Makers THEN "makes" ELSE "asks",
                discards |-> c \in Discarding,
                early    |-> c \notin Blocking \cup Makers,
                absent   |-> "none"]
NoMethod == [how |-> "sync", does |-> "nothing", discards |-> FALSE,
             early |-> FALSE, absent |-> "none"]
Connecting == [how |-> "blocking", does |-> "makes", discards |-> TRUE,
               early |-> TRUE, absent |-> "none"]
Method(c) == IF At(c) = "idle" \/ (At(c) = "ended" /\ Object(c) = "none")
             THEN NoMethod ELSE MethodOf(c)

Methods == [o \in Operations |-> IF o = Connected THEN Connecting ELSE Method(o)]
Ats     == [o \in Operations |-> IF o = Connected THEN "ended" ELSE At(o)]
Results == [o \in Operations |-> IF o = Connected THEN "none" ELSE Result(o)]
Tolds   == [o \in Operations |-> IF o = Connected THEN "value" ELSE Told(o)]
Objects == [o \in Operations |-> IF o = Connected THEN "live" ELSE Object(o)]
Counts  == [o \in Operations |-> IF o # Connected /\ handle[o] = "released" THEN 1 ELSE 0]

OfPool == INSTANCE Pool WITH
  Ops <- Operations, Opening <- Connected, Closers <- {}, Reported <- {"failed", "cancelled"},
  method <- Methods, at <- Ats, result <- Results, told <- Tolds,
  object <- Objects, releases <- Counts,
  handle <- "held", eventsClosed <- FALSE, closing <- "none", closer <- [t \in {} |-> "none"]

\* Every step of an await is one that Pool takes an operation to make: it is told
\* CancelledError, its outcome or its error, once; the native call may end before
\* or after; and what it made for a task that had gone is released, once.
AwaitsAsPoolTakesThem == [][OfPool!Next]_(OfPool!vars)
=============================================================================
