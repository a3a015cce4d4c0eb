------------------------------- MODULE Streams -------------------------------
(***************************************************************************)
(* A stream session: the class Stream of src/macula_py/stream.py, as a     *)
(* caller uses one in an async with, and as _run_session of pool.py gives  *)
(* one to the handler of a served procedure.                               *)
(*                                                                         *)
(* Tasks share the stream: its owner, which frees it when it is done, and  *)
(* others, which may iterate it.  Writes go out, and the stream is freed,  *)
(* on threads of run_native: a task that is cancelled meanwhile goes on    *)
(* and so does its thread.  A receive is an await of run_blocking with no  *)
(* discard; a cancelled one may still take a frame that nobody sees.       *)
(*                                                                         *)
(* report() asks the native side and changes nothing; it is left out.      *)
(***************************************************************************)
EXTENDS Errors, Naturals, FiniteSets, SequencesExt

CONSTANTS Tasks, Owner,
          Readers,    \* the tasks that read the stream
          Iterators,  \* those that iterate it
          MaxWrites,  \* bound: writes begun
          MaxFrames,  \* bound: frames the peer sends
          MaxCancels  \* bound: cancellations

ASSUME StreamsAssumption == /\ Owner \in Tasks \ Iterators
                            /\ Iterators \subseteq Readers /\ Readers \subseteq Tasks
                            /\ MaxWrites \in Nat /\ MaxFrames \in Nat /\ MaxCancels \in Nat

VARIABLES
  served,   \* a session of a served procedure, run by _run_session
  handle,   \* Stream._handle is not None
  native,   \* the native stream: "open", "ended" or "freed"
  frees,    \* how often macula_stream_free was called with it
  writes,   \* the writes begun, in order: whose each is, and how its await ended
  running,  \* those whose thread still runs
  result,   \* of a task that awaits a write: how its thread ended
  written,  \* the writes that reached the stream, in order
  sent,     \* how many frames came; each is known by its number
  incoming, \* the frames nobody has taken, in order
  at,       \* where each task is
  take,     \* of a task that reads: its native call, or how that ended
  hand,     \* the frame it gave
  heard,    \* the frames each task was given, by their number
  free,     \* the call of free() a task has made, or has on a thread
  strays,   \* receives whose task was cancelled
  cancels   \* how many tasks were cancelled, or gave up

nativeVars == <<native, frees>>
writeVars == <<writes, running, result, written>>
readVars == <<sent, incoming, take, hand, heard, strays>>
vars == <<served, handle, nativeVars, writeVars, readVars, at, free, cancels>>

\* The writes: send, send_value, close_send and reply; abort and close, which end
\* the stream.
WriteKinds == {"send", "end"}

\* The frames: those _frame returns to be read on (data, end, reply), StreamEof,
\* the STREAM_ERROR it raises, and one of a kind it does not know or that
\* decode_payload cannot read: recv raises, and the frame has been given.
FrameKinds == {"data", "eof", "error", "unknown"}

Frames == [n : 1..sent, kind : FrameKinds]
NoFrame == [n |-> 0, kind |-> "none"]
Outcomes == {"MaculaTimeoutError", "ClosedError", "InvalidHandleError", "eof"}

TypeOK ==
  /\ served \in BOOLEAN /\ handle \in BOOLEAN
  /\ native \in {"open", "ended", "freed"} /\ frees \in Nat
  /\ writes \in Seq([by : Tasks, fate : {"awaited", "returned", "raised", "cancelled"}])
  /\ running \subseteq [n : DOMAIN writes, kind : WriteKinds]
  /\ result \in [Tasks -> {"none", "running", "done"} \cup DOMAIN Bases]
  /\ written \in Seq(DOMAIN writes)
  /\ sent \in 0..MaxFrames /\ incoming \in Seq(Frames)
  /\ at \in [Tasks -> {"body", "writing", "closing", "aborting", "reading", "inFree",
                       "leaving", "over"}]
  /\ take \in [Tasks -> {"none", "pending", "frame"} \cup Outcomes]
  /\ hand \in [Tasks -> Frames \cup {NoFrame}] /\ heard \in [Tasks -> Seq(1..sent)]
  /\ \A t \in Tasks : /\ take[t] # "none" <=> at[t] = "reading"
                      /\ take[t] = "frame" <=> hand[t] # NoFrame
                      /\ result[t] # "none" <=> at[t] \in {"writing", "closing", "aborting"}
                      /\ at[t] \in {"inFree", "leaving"} => free[t] # "none"
  /\ free \in [Tasks -> {"none", "asked", "taken", "over"}]
  /\ strays \in 0..cancels /\ cancels \in 0..MaxCancels

Init ==
  /\ served \in BOOLEAN /\ handle = TRUE
  /\ native = "open" /\ frees = 0
  /\ writes = <<>> /\ running = {} /\ written = <<>> /\ sent = 0 /\ incoming = <<>>
  /\ result = [t \in Tasks |-> "none"]
  /\ at = [t \in Tasks |-> "body"] /\ take = [t \in Tasks |-> "none"]
  /\ hand = [t \in Tasks |-> NoFrame]
  /\ heard = [t \in Tasks |-> <<>>]
  /\ free = [t \in Tasks |-> "none"]
  /\ strays = 0 /\ cancels = 0

\* A task that calls free() itself keeps the loop until it returns.
LoopFree == \A t \in Tasks : at[t] # "inFree"

Goes(t, where) == at' = [at EXCEPT ![t] = where]

-----------------------------------------------------------------------------
(* The native stream, and its peer.                                        *)

PeerSends(kind) ==
  /\ native = "open" /\ sent < MaxFrames
  /\ sent' = sent + 1
  /\ incoming' = Append(incoming, [n |-> sent', kind |-> kind])
  /\ native' = IF kind \in {"eof", "error"} THEN "ended" ELSE native
  /\ UNCHANGED <<served, handle, frees, writeVars, take, hand, heard, strays, at, free, cancels>>

\* The pool closes, or its link is gone.
Breaks ==
  /\ native = "open" /\ native' = "ended"
  /\ UNCHANGED <<served, handle, frees, writeVars, readVars, at, free, cancels>>

\* How a write may end on the native side: a handle that was freed is one it no
\* longer knows; a stream may refuse a write, as after close_send, or fail it, and
\* one that has ended may still take another end.
WriteOutcomes == IF native = "freed" THEN {"InvalidHandleError"}
                 ELSE {"done", "ClosedError", "MaculaError"}

-----------------------------------------------------------------------------
(* Writing.                                                                *)

\* Slip: the call's thread is started, and not awaited.
NotAwaited(t) == "returned"

\* The await of run_native.
Awaited(t) == "awaited"

\* A write joins ws, those begun so far, and its thread starts.
Begun(ws, t, kind) ==
  /\ writes' = Append(ws, [by |-> t, fate |-> Awaited(t)])
  /\ running' = running \cup {[n |-> Len(ws) + 1, kind |-> kind]}
  /\ result' = [result EXCEPT ![t] = "running"]

\* A method finds the handle with _live() before it starts its thread; without
\* one the application is told ClosedError, and nothing changes.
Write(t, kind) ==
  /\ LoopFree /\ at[t] = "body" /\ t \notin Iterators
  /\ handle /\ Len(writes) < MaxWrites
  /\ Begun(writes, t, kind)
  /\ Goes(t, "writing")
  /\ UNCHANGED <<served, handle, nativeVars, written, readVars, free, cancels>>

\* The thread of a write, whether anybody awaits it or not.
WriteRuns(w) ==
  /\ running' = running \ {w}
  /\ \E how \in WriteOutcomes :
       /\ result' = IF writes[w.n].fate = "awaited" THEN [result EXCEPT ![writes[w.n].by] = how]
                                                  ELSE result
       /\ written' = IF how = "done" THEN Append(written, w.n) ELSE written
       /\ native' = IF how = "done" /\ w.kind = "end" THEN "ended" ELSE native
  /\ UNCHANGED <<served, handle, frees, writes, readVars, at, free, cancels>>

Over(t) == result[t] \notin {"none", "running"}

\* The writes once the await of t is over; a thread that still runs keeps running.
Fated(t, fate) == [n \in DOMAIN writes |-> IF writes[n].by = t /\ writes[n].fate = "awaited"
                                           THEN [writes[n] EXCEPT !.fate = fate] ELSE writes[n]]

Settles(ws, t) == writes' = ws /\ result' = [result EXCEPT ![t] = "none"] /\ UNCHANGED running

WriteFate(t) == IF result[t] = "done" THEN "returned" ELSE "raised"

\* The application goes on, whether the method returned or raised.
WriteReturns(t) ==
  /\ LoopFree /\ at[t] = "writing" /\ Over(t)
  /\ Settles(Fated(t, WriteFate(t)), t)
  /\ Goes(t, "body")
  /\ UNCHANGED <<served, handle, nativeVars, written, readVars, free, cancels>>

-----------------------------------------------------------------------------
(* The end of the owner: __aexit__, or _run_session.                       *)

\* Slip: the stream is left as it is.
LeavesIt(t) == Goes(t, "leaving") /\ UNCHANGED free

\* run_native(stream.free), of __aexit__ or of the finally.
Leaves(t) == Goes(t, "leaving") /\ free' = [free EXCEPT ![t] = "asked"]

\* A session closes its stream, or aborts it; freed by its handler, it has
\* nothing to end, and the ClosedError is passed over.
EndsWith(t, where, ws) ==
  IF handle THEN Begun(ws, t, "end") /\ Goes(t, where) /\ UNCHANGED free
            ELSE Settles(ws, t) /\ Leaves(t)

\* The body, or handler, returns or raises.
BodyEnds(t) ==
  /\ LoopFree /\ at[t] = "body" /\ t \notin Iterators
  /\ IF t # Owner THEN Goes(t, "over") /\ UNCHANGED <<writes, running, result, free>>
     ELSE IF ~served THEN Leaves(t) /\ UNCHANGED <<writes, running, result>>
     ELSE EndsWith(t, "closing", writes) \/ EndsWith(t, "aborting", writes)
  /\ UNCHANGED <<served, handle, nativeVars, written, readVars, cancels>>

\* except ClosedError: pass, around close and around abort.
Passes(how) == how = "done" \/ IsA(how, "ClosedError")

\* A close that failed otherwise is aborted, as if the handler had raised; the
\* stream is freed however the abort ends.
SessionGoesOn(t) ==
  /\ LoopFree /\ at[t] \in {"closing", "aborting"} /\ Over(t)
  /\ LET ws == Fated(t, WriteFate(t))
     IN  IF at[t] = "closing" /\ ~Passes(result[t])
         THEN EndsWith(t, "aborting", ws)
         ELSE Settles(ws, t) /\ Leaves(t)
  /\ UNCHANGED <<served, handle, nativeVars, written, readVars, cancels>>

-----------------------------------------------------------------------------
(* free(), on the loop or on a thread.                                     *)

\* Once the handle is gone it does nothing.
FreeNow(t) ==
  /\ LoopFree /\ at[t] = "body" /\ handle
  /\ Goes(t, "inFree")
  /\ free' = [free EXCEPT ![t] = "asked"]
  /\ UNCHANGED <<served, handle, nativeVars, writeVars, readVars, cancels>>

\* Slip: the handle is given up once the native call is back.
KeepsItMeanwhile(t) == UNCHANGED handle

GivesUp(t) == handle' = FALSE

\* The handle is looked at and given up with no other thread between.
FreeTakes(t) ==
  /\ free[t] = "asked"
  /\ IF handle THEN GivesUp(t) /\ free' = [free EXCEPT ![t] = "taken"]
               ELSE free' = [free EXCEPT ![t] = "over"] /\ UNCHANGED handle
  /\ UNCHANGED <<served, nativeVars, writeVars, readVars, at, cancels>>

\* macula_stream_free.
FreeCalls(t) ==
  /\ free[t] = "taken"
  /\ native' = "freed" /\ frees' = frees + 1
  /\ handle' = FALSE
  /\ free' = [free EXCEPT ![t] = "over"]
  /\ UNCHANGED <<served, writeVars, readVars, at, cancels>>

FreeReturns(t) ==
  /\ at[t] \in {"inFree", "leaving"} /\ free[t] = "over"
  /\ at[t] = "leaving" => LoopFree
  /\ Goes(t, IF at[t] = "inFree" THEN "body" ELSE "over")
  /\ free' = [free EXCEPT ![t] = "none"]
  /\ UNCHANGED <<served, handle, nativeVars, writeVars, readVars, cancels>>

-----------------------------------------------------------------------------
(* Reading: recv and __anext__.                                            *)

Leads(t, where, taken) == Goes(t, where) /\ take' = [take EXCEPT ![t] = taken]

\* An iteration that finds the stream freed ends with ClosedError.
ReadBegins(t) ==
  /\ LoopFree /\ at[t] = "body" /\ t \in Readers
  /\ \/ handle /\ Leads(t, "reading", "pending")
     \/ ~handle /\ t \in Iterators /\ Goes(t, "over") /\ UNCHANGED take
  /\ UNCHANGED <<served, handle, nativeVars, writeVars, sent, incoming, hand, heard, strays,
                 free, cancels>>

RecvTakes(t) ==
  /\ take[t] = "pending" /\ incoming # <<>>
  /\ take' = [take EXCEPT ![t] = "frame"] /\ hand' = [hand EXCEPT ![t] = Head(incoming)]
  /\ incoming' = Tail(incoming)
  /\ UNCHANGED <<served, handle, nativeVars, writeVars, sent, heard, strays, at, free, cancels>>

\* How a receive ends without a frame: an iterator's does not run out of time,
\* and a stream that ended and is read out says so again and again.
Endings(t) == (IF t \in Iterators THEN {} ELSE {"MaculaTimeoutError"})
              \cup (IF native = "freed" THEN {"InvalidHandleError", "ClosedError"} ELSE {})
              \cup (IF native = "ended" /\ incoming = <<>> THEN {"eof", "ClosedError"} ELSE {})

RecvEnds(t) ==
  /\ take[t] = "pending"
  /\ \E how \in Endings(t) : take' = [take EXCEPT ![t] = how]
  /\ UNCHANGED <<served, handle, nativeVars, writeVars, sent, incoming, hand, heard, strays,
                 at, free, cancels>>

\* A receive whose task is gone takes a frame before it is told, or ends.
StrayEnds ==
  /\ strays > 0
  /\ strays' = strays - 1
  /\ incoming' \in {incoming} \cup (IF incoming = <<>> THEN {} ELSE {Tail(incoming)})
  /\ UNCHANGED <<served, handle, nativeVars, writeVars, sent, take, hand, heard, at, free, cancels>>

\* Slip: only an error ends an iteration.
GoesOnAfterEof(t) == /\ take[t] # "eof"
                     /\ take[t] = "frame" => hand[t].kind \in {"error", "unknown"}

\* What _frame raises, or recv, ends an iteration, and so does StreamEof.
IterationStops(t) == take[t] = "frame" => hand[t].kind \in {"eof", "error", "unknown"}

\* recv returns, None for a TimeoutError, or raises.
RecvReturns(t) ==
  /\ LoopFree /\ take[t] \notin {"none", "pending"}
  /\ heard' = IF take[t] = "frame" THEN [heard EXCEPT ![t] = Append(@, hand[t].n)] ELSE heard
  /\ Leads(t, IF t \in Iterators /\ IterationStops(t) THEN "over" ELSE "body", "none")
  /\ hand' = [hand EXCEPT ![t] = NoFrame]
  /\ UNCHANGED <<served, handle, nativeVars, writeVars, sent, incoming, strays, free, cancels>>

-----------------------------------------------------------------------------
(* Cancellation.                                                           *)

\* Slip: a frame whose reader is gone goes back to the others.
GivesBack(t) == incoming' = IF take[t] = "frame" THEN Append(incoming, hand[t]) ELSE incoming

\* recv has no discard: what it took is forgotten.
Forgets(t) == UNCHANGED incoming

\* A task is cancelled in an await of its own, or its owner gives a method up
\* with wait_for and goes on.
CancelledTo(t) ==
  IF t # Owner THEN (Goes(t, "body") \/ Goes(t, "over")) /\ UNCHANGED free
  ELSE IF at[t] \in {"closing", "aborting"} THEN Leaves(t)
  ELSE (Goes(t, "body") /\ UNCHANGED free) \/ Leaves(t)

MayCancel(t) == LoopFree /\ cancels < MaxCancels

CancelWrite(t) ==
  /\ MayCancel(t) /\ at[t] \in {"writing", "closing", "aborting"}
  /\ cancels' = cancels + 1
  /\ Settles(Fated(t, "cancelled"), t)
  /\ CancelledTo(t)
  /\ UNCHANGED <<served, handle, nativeVars, written, readVars>>

CancelRead(t) ==
  /\ MayCancel(t) /\ at[t] = "reading"
  /\ cancels' = cancels + 1
  /\ strays' = IF take[t] = "pending" THEN strays + 1 ELSE strays
  /\ take' = [take EXCEPT ![t] = "none"] /\ hand' = [hand EXCEPT ![t] = NoFrame]
  /\ Forgets(t)
  /\ CancelledTo(t)
  /\ UNCHANGED <<served, handle, nativeVars, writeVars, sent, heard>>

\* Slip: the free is a call the cancellation ends.
StopsFree(t) == free' = [free EXCEPT ![t] = IF @ = "asked" THEN "none" ELSE @]

FreeGoesOn(t) == UNCHANGED free

CancelFree(t) ==
  /\ MayCancel(t) /\ at[t] = "leaving"
  /\ cancels' = cancels + 1
  /\ Goes(t, "over")
  /\ FreeGoesOn(t)
  /\ UNCHANGED <<served, handle, nativeVars, writeVars, readVars>>

-----------------------------------------------------------------------------

LoopStep(t) == WriteReturns(t) \/ SessionGoesOn(t) \/ FreeReturns(t) \/ RecvReturns(t)

Next == \/ \E kind \in FrameKinds : PeerSends(kind)
        \/ Breaks \/ StrayEnds
        \/ \E w \in running : WriteRuns(w)
        \/ \E t \in Tasks :
             \/ \E kind \in WriteKinds : Write(t, kind)
             \/ BodyEnds(t) \/ FreeNow(t) \/ FreeTakes(t) \/ FreeCalls(t)
             \/ ReadBegins(t) \/ RecvTakes(t) \/ RecvEnds(t)
             \/ LoopStep(t) \/ CancelWrite(t) \/ CancelRead(t) \/ CancelFree(t)

Spec == Init /\ [][Next]_vars

\* The loop goes on, threads run and macula_stream_free returns, a receive ends
\* when it can, and the body of an async for comes back for the next frame.
FairSpec ==
  /\ Spec
  /\ \A t \in Tasks : /\ WF_vars(LoopStep(t)) /\ WF_vars(FreeTakes(t)) /\ WF_vars(FreeCalls(t))
                      /\ WF_vars(RecvTakes(t) \/ RecvEnds(t))
  /\ \A t \in Iterators : WF_vars(ReadBegins(t))

-----------------------------------------------------------------------------
(* Properties.                                                             *)

\* A method that returned has written, one that raised has not, and a task's
\* writes reach the peer in the order in which it made them: only one it gave up
\* may come late, after writes it made since.
WritesLandInOrder ==
  /\ IsInjective(written)
  /\ \A n \in DOMAIN writes : /\ writes[n].fate = "returned" => n \in ToSet(written)
                              /\ writes[n].fate = "raised" => n \notin ToSet(written)
  /\ \A p, q \in DOMAIN written : p < q /\ written[p] > written[q] =>
       \/ writes[written[q]].fate = "cancelled"
       \/ writes[written[p]].by # writes[written[q]].by

Accounted == {f.n : f \in ToSet(incoming) \cup ({hand[t] : t \in Tasks} \ {NoFrame})}
             \cup UNION {ToSet(heard[t]) : t \in Tasks}

\* Each task reads frames in the order in which they came, no frame is read
\* twice, and at most one is lost for every receive that was cancelled.
FramesReadOnce ==
  /\ \A t \in Tasks : \A i, j \in DOMAIN heard[t] : i < j => heard[t][i] < heard[t][j]
  /\ \A t, u \in Tasks : t # u => ToSet(heard[t]) \cap ToSet(heard[u]) = {}
  /\ sent - Cardinality(Accounted) + strays <= cancels

\* However a task that calls free() races the free on the owner's thread, the
\* stream is freed once, and only when no method can find its handle any more.
FreedOnce == frees <= 1 /\ (native = "freed" => ~handle)

\* An owner that leaves its block, or session, leaves no stream behind, however
\* it left, even when it was cancelled and is cancelled again as it leaves.
LeavingFrees == at[Owner] \in {"leaving", "over"} ~> native = "freed"

\* An iteration ends once the stream has, by eof, error, free() or with its pool,
\* though another task may have taken the frame that said so.
IterationEnds == \A t \in Iterators : native # "open" ~> at[t] = "over"
=============================================================================
