------------------------------- MODULE Served -------------------------------
(***************************************************************************)
(* A served procedure: the class Served of src/macula_py/pool.py, with the *)
(* handlers it dispatches to, _answer_call for calls and _run_session for  *)
(* stream sessions.                                                        *)
(*                                                                         *)
(* The event loop is a queue of task steps, run first come first served:   *)
(* the serve loop's, each handler's and stop()'s.  Threads run the native  *)
(* calls and queue the step of the task that awaits them.  The await of    *)
(* run_blocking and run_native is that of BlockingCall, taken whole: a     *)
(* cancelled await ends at once, its thread goes on, and an item a         *)
(* cancelled wait took goes to the release that is its discard.            *)
(*                                                                         *)
(* An item is a pending call, which is settled by answering it, or a       *)
(* stream session, which is settled by freeing it.  An answer may fail, a  *)
(* free may not: the native function that frees a session returns nothing. *)
(***************************************************************************)
EXTENDS Naturals, FiniteSets, SequencesExt

CONSTANTS Items,      \* the calls, or sessions, that reach the procedure
          Stoppers,   \* the callers of stop()
          MayCancel   \* whether a caller of stop() may itself be cancelled

ASSUME ServedAssumption == /\ IsFiniteSet(Items) /\ IsFiniteSet(Stoppers)
                           /\ MayCancel \in BOOLEAN

VARIABLES
  streaming, \* made by serve_stream, whose dispatch runs sessions, not by serve
  ready,     \* the loop's queue of task steps
  handle,    \* Served._handle is not None
  failure,   \* Served._failure is not None
  serve,     \* the task _loop: "new", "waiting" in _next_item, or "ended"
  doomed,    \* CancelledError is on its way to the task _loop
  wait,      \* the native wait of _next_item, which outlives a cancelled _loop
  at,        \* what Python has done with each item
  marked,    \* CancelledError is on its way to the item's task
  settling,  \* a thread is about to answer, or free, the item
  tries,     \* how often Python has set out to settle the item
  failed,    \* answering the call failed with an error the code lets escape
  stop,      \* where each caller of stop() is
  abandoned, \* CancelledError is on its way to that caller
  withdraw,  \* the thread that runs macula_served_stop for that caller
  native,    \* the native procedure: "open" or "withdrawn"
  item       \* the native side of each item

serveVars == <<failure, serve, doomed, wait>>
taskVars  == <<at, marked, settling, tries, failed>>
stopVars  == <<stop, abandoned, withdraw>>
vars == <<streaming, ready, handle, serveVars, taskVars, stopVars, native, item>>

Loop == <<"loop", "_serve">>
Task(i) == <<"task", i>>
Stop(s) == <<"stop", s>>
Steps == {Loop} \cup {Task(i) : i \in Items} \cup {Stop(s) : s \in Stoppers}

\* Where an item's own task is between its creation and its end.
Running == {"new", "handling", "answering", "closing", "freeing"}

TypeOK ==
  /\ ready \in Seq(Steps)
  /\ streaming \in BOOLEAN /\ handle \in BOOLEAN /\ failure \in BOOLEAN /\ doomed \in BOOLEAN
  /\ serve \in {"new", "waiting", "ended"}
  /\ wait \in {"none", "pending", "got", "landed", "closed", "failed"}
  /\ at \in [Items -> {"away", "got", "unread", "released", "unstarted", "ended"} \cup Running]
  /\ marked \in [Items -> BOOLEAN]
  /\ settling \in [Items -> BOOLEAN]
  /\ tries \in [Items -> 0..1]
  /\ failed \in [Items -> BOOLEAN]
  /\ stop \in [Stoppers -> {"idle", "withdrawing", "joining", "gathering",
                            "returned", "raised", "cancelled"}]
  /\ abandoned \in [Stoppers -> BOOLEAN]
  /\ withdraw \in [Stoppers -> {"none", "running", "done", "failed"}]
  /\ native \in {"open", "withdrawn"}
  /\ item \in [Items -> {"away", "inbox", "held", "settled"}]

\* Served.__init__ creates the task _loop, whose first step is ready.
Init ==
  /\ streaming \in BOOLEAN
  /\ ready = <<Loop>> /\ handle = TRUE /\ failure = FALSE
  /\ serve = "new" /\ doomed = FALSE /\ wait = "none"
  /\ at = [i \in Items |-> "away"]
  /\ marked = [i \in Items |-> FALSE]
  /\ settling = [i \in Items |-> FALSE]
  /\ tries = [i \in Items |-> 0]
  /\ failed = [i \in Items |-> FALSE]
  /\ stop = [s \in Stoppers |-> "idle"]
  /\ abandoned = [s \in Stoppers |-> FALSE]
  /\ withdraw = [s \in Stoppers |-> "none"]
  /\ native = "open"
  /\ item = [i \in Items |-> "away"]

\* A task has at most one step in the queue.
Queued(q, step) == IF step \in ToSet(q) THEN q ELSE Append(q, step)

\* Several at once, in whatever order the set of tasks is listed.
QueuedAll(q, steps) == {q \o more : more \in SetToSeqs(steps \ ToSet(q))}

Runs(step) == ready # <<>> /\ Head(ready) = step

\* The tasks not done yet, as Served._tasks holds them.
Tasks == {i \in Items : at[i] \in Running}

-----------------------------------------------------------------------------
(* The serve loop.                                                         *)

\* The steps of stop() that a finished serve loop, or last handler, wakes.
Woken(place) == SetToSeq({Stop(s) : s \in {t \in Stoppers : stop[t] = place}})

ServeEnded == /\ serve' = "ended"
              /\ doomed' = FALSE
              /\ ready' = Tail(ready) \o Woken("joining")

\* A loop whose procedure was stopped before its first step fails its assert.
ServeStarts ==
  /\ Runs(Loop) /\ serve = "new" /\ ~doomed
  /\ \/ /\ handle
        /\ serve' = "waiting" /\ wait' = "pending"
        /\ ready' = Tail(ready)
        /\ UNCHANGED doomed
     \/ ~handle /\ ServeEnded /\ UNCHANGED wait
  /\ UNCHANGED <<streaming, handle, failure, taskVars, stopVars, native, item>>

\* Slip: _tasks does not keep the task, which is collected before its first step.
ForgetsTask(i) == /\ at' = [at EXCEPT ![i] = "unstarted"]
                  /\ ready' = Tail(ready)

StartsTask(i) == /\ at' = [at EXCEPT ![i] = "new"]
                 /\ ready' = Append(Tail(ready), Task(i))

\* An item that landed gets a task of its own, and the loop waits again.
ServeTakes(i) ==
  /\ Runs(Loop) /\ serve = "waiting" /\ ~doomed
  /\ wait = "landed" /\ at[i] = "got"
  /\ StartsTask(i)
  /\ wait' = "pending"
  /\ UNCHANGED <<streaming, handle, failure, serve, doomed, marked, settling, tries, failed,
                 stopVars, native, item>>

\* An item whose JSON decode_payload refuses ends the serve loop: it has been
\* taken, gets no task, and the discard has no part in a wait that returned.
ServeCannotRead(i) ==
  /\ Runs(Loop) /\ serve = "waiting" /\ ~doomed
  /\ wait = "landed" /\ at[i] = "got"
  /\ at' = [at EXCEPT ![i] = "unread"]
  /\ failure' = handle
  /\ wait' = "none"
  /\ ServeEnded
  /\ UNCHANGED <<streaming, handle, marked, settling, tries, failed, stopVars, native, item>>

\* The inbox ended, or the wait failed; a failure is kept for stop() to raise,
\* unless stop() is why.
ServeStops ==
  /\ Runs(Loop) /\ serve = "waiting" /\ ~doomed
  /\ wait \in {"closed", "failed"}
  /\ failure' = (wait = "failed" /\ handle)
  /\ wait' = "none"
  /\ ServeEnded
  /\ UNCHANGED <<streaming, handle, taskVars, stopVars, native, item>>

\* Slip: the wait has no discard.
LosesIt(i) == UNCHANGED taskVars

\* The discard of an item nobody awaits any more: release, on a thread.
Releases(i) ==
  /\ at' = [at EXCEPT ![i] = "released"]
  /\ settling' = [settling EXCEPT ![i] = TRUE]
  /\ tries' = [tries EXCEPT ![i] = @ + 1]
  /\ UNCHANGED <<marked, failed>>

\* CancelledError: an item that had landed is released, and a wait still in
\* the native call goes on without the task.
ServeCancelled ==
  /\ Runs(Loop) /\ doomed
  /\ ServeEnded
  /\ wait' = IF wait \in {"pending", "got"} THEN wait ELSE "none"
  /\ IF wait = "landed" THEN \E i \in Items : at[i] = "got" /\ Releases(i)
                        ELSE UNCHANGED taskVars
  /\ UNCHANGED <<streaming, handle, failure, stopVars, native, item>>

\* macula_served_next gives the wait an item.
NativeGives(i) ==
  /\ wait = "pending" /\ item[i] = "inbox"
  /\ wait' = "got"
  /\ at' = [at EXCEPT ![i] = "got"]
  /\ item' = [item EXCEPT ![i] = "held"]
  /\ UNCHANGED <<streaming, ready, handle, failure, serve, doomed, marked, settling, tries, failed,
                 stopVars, native>>

\* The item reaches the event loop, where a task that left has no use for it.
WaitLands(i) ==
  /\ wait = "got" /\ at[i] = "got"
  /\ \/ /\ serve = "waiting"
        /\ wait' = "landed"
        /\ ready' = Queued(ready, Loop)
        /\ UNCHANGED taskVars
     \/ /\ serve = "ended"
        /\ wait' = "none"
        /\ Releases(i)
        /\ UNCHANGED ready
  /\ UNCHANGED <<streaming, handle, failure, serve, doomed, stopVars, native, item>>

\* The wait ends without one: closed once withdrawn, cancelled with its task,
\* or failed.
WaitEnds ==
  /\ wait = "pending"
  /\ \/ /\ serve = "waiting"
        /\ wait' \in {"failed"} \cup (IF native = "withdrawn" THEN {"closed"} ELSE {})
        /\ ready' = Queued(ready, Loop)
     \/ /\ serve = "ended"
        /\ wait' = "none"
        /\ UNCHANGED ready
  /\ UNCHANGED <<streaming, handle, failure, serve, doomed, taskVars, stopVars, native, item>>

-----------------------------------------------------------------------------
(* The handlers' tasks: _answer_call, _run_session.                        *)

\* Slip: gather without return_exceptions, which raises at the first end.
AnyEnds(i) == TRUE

LastEnds(i) == Tasks = {i}

TaskEnds(i, how) ==
  /\ at' = [at EXCEPT ![i] = how]
  /\ marked' = [marked EXCEPT ![i] = FALSE]
  /\ ready' = Tail(ready) \o (IF LastEnds(i) THEN Woken("gathering") ELSE <<>>)

TaskGoesOn(i, where) ==
  /\ at' = [at EXCEPT ![i] = where]
  /\ marked' = [marked EXCEPT ![i] = FALSE]
  /\ ready' = Tail(ready)

\* run_native of the call that settles the item.
SetsOut(i) == /\ settling' = [settling EXCEPT ![i] = TRUE]
              /\ tries' = [tries EXCEPT ![i] = @ + 1]
              /\ UNCHANGED failed

\* An error of the answer that no except clause catches: the call stays unanswered.
Fails(i) == /\ ~streaming
            /\ failed' = [failed EXCEPT ![i] = TRUE]
            /\ UNCHANGED item

Settled(i) == /\ item' = [item EXCEPT ![i] = "settled"]
              /\ UNCHANGED failed

InHandler(i) == at[i] = "handling" \/ (at[i] = "new" /\ ~marked[i])

\* The handler awaits something, its first step over or its cancellation
\* swallowed.
HandlerWaits(i) ==
  /\ Runs(Task(i)) /\ InHandler(i)
  /\ at[i] = "new" \/ marked[i]
  /\ TaskGoesOn(i, "handling")
  /\ UNCHANGED <<streaming, handle, serveVars, settling, tries, failed, stopVars, native, item>>

\* The handler returns or raises: a call is answered, or its error's text does
\* not encode, and a session is closed or aborted before it is freed, at once
\* when the handler has freed it.
HandlerEnds(i) ==
  /\ Runs(Task(i)) /\ InHandler(i)
  /\ \/ streaming /\ TaskGoesOn(i, "closing") /\ UNCHANGED <<settling, tries, failed, item>>
     \/ streaming /\ TaskGoesOn(i, "freeing") /\ SetsOut(i) /\ UNCHANGED item
     \/ ~streaming /\ TaskGoesOn(i, "answering") /\ SetsOut(i) /\ UNCHANGED item
     \/ /\ TaskEnds(i, "ended") /\ Fails(i)
        /\ tries' = [tries EXCEPT ![i] = @ + 1]
        /\ UNCHANGED settling
  /\ UNCHANGED <<streaming, handle, serveVars, stopVars, native>>

\* Slip: the answer to a cancelled call goes out on a thread after its own.
AnswersTwice(i) == /\ settling' = [settling EXCEPT ![i] = TRUE]
                   /\ tries' = [tries EXCEPT ![i] = @ + 2]
                   /\ Settled(i)

AnswersNow(i) == /\ tries' = [tries EXCEPT ![i] = @ + 1]
                 /\ Settled(i) \/ Fails(i)
                 /\ UNCHANGED settling

\* CancelledError leaves the handler: a call is answered here and now, a
\* session is freed on a thread.
HandlerCancelled(i) ==
  /\ Runs(Task(i)) /\ InHandler(i)
  /\ \/ streaming /\ TaskGoesOn(i, "freeing") /\ SetsOut(i) /\ UNCHANGED item
     \/ ~streaming /\ TaskEnds(i, "ended") /\ AnswersNow(i)
  /\ UNCHANGED <<streaming, handle, serveVars, stopVars, native>>

\* After close or abort, however it ended, the session is freed.
SessionFrees(i) ==
  /\ Runs(Task(i)) /\ at[i] = "closing"
  /\ TaskGoesOn(i, "freeing") /\ SetsOut(i)
  /\ UNCHANGED <<streaming, handle, serveVars, stopVars, native, item>>

\* A task cancelled before its first step never runs at all.
NeverStarted(i) == at[i] = "new" /\ marked[i]

\* Past the answer or the free the task is done; cancelled while it waits
\* for them, it leaves them to their thread.
TaskDone(i) ==
  /\ Runs(Task(i)) /\ (at[i] \in {"answering", "freeing"} \/ NeverStarted(i))
  /\ TaskEnds(i, IF NeverStarted(i) THEN "unstarted" ELSE "ended")
  /\ UNCHANGED <<streaming, handle, serveVars, settling, tries, failed, stopVars, native, item>>

\* What the handler, or the close or abort, was waiting for has come.
TaskWakes(i) ==
  /\ at[i] \in {"handling", "closing"}
  /\ Task(i) \notin ToSet(ready)
  /\ ready' = Append(ready, Task(i))
  /\ UNCHANGED <<streaming, handle, serveVars, taskVars, stopVars, native, item>>

\* The thread answers, or frees.  An answer nobody waits for any more is
\* AlreadyAnswered or InvalidHandle, which is ignored; any other error of the
\* answer, as of a payload the native side refuses, leaves the call unanswered.
Settles(i) ==
  /\ settling[i]
  /\ settling' = [settling EXCEPT ![i] = FALSE]
  /\ Settled(i) \/ Fails(i)
  /\ ready' = IF at[i] \in {"answering", "freeing"} THEN Queued(ready, Task(i)) ELSE ready
  /\ UNCHANGED <<streaming, handle, serveVars, at, marked, tries, stopVars, native>>

-----------------------------------------------------------------------------
(* stop().                                                                 *)

\* A procedure that has been stopped, or is being stopped, is not stopped again.
StopAgain(s) ==
  /\ stop[s] = "idle" /\ ~handle
  /\ stop' = [stop EXCEPT ![s] = "returned"]
  /\ UNCHANGED <<streaming, ready, handle, serveVars, taskVars, abandoned, withdraw, native, item>>

StopBegins(s) ==
  /\ stop[s] = "idle" /\ handle
  /\ handle' = FALSE
  /\ stop' = [stop EXCEPT ![s] = "withdrawing"]
  /\ withdraw' = [withdraw EXCEPT ![s] = "running"]
  /\ UNCHANGED <<streaming, ready, serveVars, taskVars, abandoned, native, item>>

\* The native side answers the calls it holds and ends the inbox.
Withdrawn == /\ native' = "withdrawn"
             /\ item' = [i \in Items |->
                  IF item[i] = "inbox" \/ (item[i] = "held" /\ ~streaming)
                  THEN "settled" ELSE item[i]]

\* macula_served_stop returns, or fails and leaves all as it was.
WithdrawEnds(s) ==
  /\ withdraw[s] = "running"
  /\ \/ withdraw' = [withdraw EXCEPT ![s] = "done"] /\ Withdrawn
     \/ withdraw' = [withdraw EXCEPT ![s] = "failed"] /\ UNCHANGED <<native, item>>
  /\ ready' = IF stop[s] = "withdrawing" THEN Queued(ready, Stop(s)) ELSE ready
  /\ UNCHANGED <<streaming, handle, serveVars, taskVars, stop, abandoned>>

Moves(s, place) == stop' = [stop EXCEPT ![s] = place]

\* Slip: stop() waits for the serve loop without cancelling it.
OnlyWaits == ready' = Tail(ready) /\ UNCHANGED doomed

CancelsLoop == /\ doomed' = (serve # "ended")
               /\ ready' = IF serve = "ended" THEN Tail(ready)
                           ELSE Queued(Tail(ready), Loop)

\* Withdrawn: end the serve loop, and wait for it.  asyncio.gather of a task
\* that has ended takes one turn of the loop, or none from Python 3.12 on.
StopJoins(s) ==
  /\ Runs(Stop(s)) /\ ~abandoned[s]
  /\ stop[s] = "withdrawing" /\ withdraw[s] = "done"
  /\ \/ /\ serve # "ended"
        /\ CancelsLoop
     \/ /\ serve = "ended"
        /\ ready' = Append(Tail(ready), Stop(s))
        /\ UNCHANGED doomed
  /\ Moves(s, "joining")
  /\ UNCHANGED <<streaming, handle, failure, serve, wait, taskVars, abandoned, withdraw, native, item>>

\* Cancelling a task queues its step, if it is not queued already.
CancelsTasks(q) == /\ marked' = [i \in Items |-> marked[i] \/ i \in Tasks]
                   /\ ready' \in QueuedAll(q, {Task(i) : i \in Tasks})

Joined(s) == \/ stop[s] = "joining"
             \/ stop[s] = "withdrawing" /\ withdraw[s] = "done" /\ serve = "ended"

\* The serve loop has ended, so no task can be added: cancel them all.
StopGathers(s) ==
  /\ Runs(Stop(s)) /\ ~abandoned[s] /\ Joined(s)
  /\ Tasks # {}
  /\ CancelsTasks(Tail(ready))
  /\ Moves(s, "gathering")
  /\ UNCHANGED <<streaming, handle, serveVars, at, settling, tries, failed, abandoned, withdraw, native, item>>

\* Slip: what stopped serving early is only logged.
AlwaysReturns == "returned"

Verdict == IF failure THEN "raised" ELSE "returned"

StopEnds(s) ==
  /\ Runs(Stop(s)) /\ ~abandoned[s]
  /\ \/ (stop[s] = "gathering" \/ (Joined(s) /\ Tasks = {})) /\ Moves(s, Verdict)
     \/ stop[s] = "withdrawing" /\ withdraw[s] = "failed" /\ Moves(s, "raised")
  /\ ready' = Tail(ready)
  /\ UNCHANGED <<streaming, handle, serveVars, taskVars, abandoned, withdraw, native, item>>

\* Its caller is cancelled: at once while it withdraws, and once what it
\* gathers has ended after that.  gather passes the cancellation on.
StopCancelled(s) ==
  /\ MayCancel
  /\ ~abandoned[s] /\ stop[s] \in {"withdrawing", "joining", "gathering"}
  /\ abandoned' = [abandoned EXCEPT ![s] = TRUE]
  /\ \/ stop[s] = "withdrawing" /\ ready' = Queued(ready, Stop(s)) /\ UNCHANGED marked
     \/ stop[s] = "joining" /\ UNCHANGED <<ready, marked>>
     \/ stop[s] = "gathering" /\ CancelsTasks(ready)
  /\ UNCHANGED <<streaming, handle, serveVars, at, settling, tries, failed, stop, withdraw, native, item>>

StopAbandoned(s) ==
  /\ Runs(Stop(s)) /\ abandoned[s]
  /\ Moves(s, "cancelled")
  /\ ready' = Tail(ready)
  /\ UNCHANGED <<streaming, handle, serveVars, taskVars, abandoned, withdraw, native, item>>

-----------------------------------------------------------------------------
(* The mesh.                                                               *)

Arrives(i) ==
  /\ native = "open" /\ item[i] = "away"
  /\ item' = [item EXCEPT ![i] = "inbox"]
  /\ UNCHANGED <<streaming, ready, handle, serveVars, taskVars, stopVars, native>>

\* A call's deadline passes: the native side answers it.
Expires(i) ==
  /\ ~streaming /\ item[i] = "held"
  /\ item' = [item EXCEPT ![i] = "settled"]
  /\ UNCHANGED <<streaming, ready, handle, serveVars, taskVars, stopVars, native>>

\* The pool closes under the procedure.
PoolCloses ==
  /\ native = "open" /\ Withdrawn
  /\ UNCHANGED <<streaming, ready, handle, serveVars, taskVars, stopVars>>

-----------------------------------------------------------------------------

TaskStep(i) == \/ HandlerWaits(i) \/ HandlerEnds(i)
               \/ HandlerCancelled(i) \/ SessionFrees(i) \/ TaskDone(i)

StopStep(s) == StopJoins(s) \/ StopGathers(s) \/ StopEnds(s) \/ StopAbandoned(s)

\* The event loop runs the step at the head of its queue.
LoopStep == \/ ServeStarts \/ ServeStops \/ ServeCancelled
            \/ \E i \in Items : ServeTakes(i) \/ ServeCannotRead(i) \/ TaskStep(i)
            \/ \E s \in Stoppers : StopStep(s)

Next == \/ LoopStep \/ WaitEnds \/ PoolCloses
        \/ \E i \in Items : \/ NativeGives(i) \/ WaitLands(i) \/ TaskWakes(i)
                            \/ Settles(i) \/ Arrives(i) \/ Expires(i)
        \/ \E s \in Stoppers : \/ StopBegins(s) \/ StopAgain(s)
                               \/ WithdrawEnds(s) \/ StopCancelled(s)

Spec == Init /\ [][Next]_vars

\* The loop runs, threads run, and macula_served_stop returns.  A handler may
\* wait for ever until it is cancelled; one that swallows that must end too.
FairSpec ==
  /\ Spec
  /\ WF_vars(LoopStep)
  /\ WF_vars(\E i \in Items : WaitLands(i))
  /\ WF_vars(\E s \in Stoppers : WithdrawEnds(s))
  /\ \A i \in Items : /\ WF_vars(Settles(i))
                      /\ WF_vars(TaskWakes(i) /\ \E s \in Stoppers : stop[s] = "gathering")

-----------------------------------------------------------------------------
(* Properties.                                                             *)

\* Python sets out exactly once to answer, or free, every item it took and could
\* read, by the time its task or its discard is over, and never sets out without
\* coming to an end: the item is settled, unless it is a call whose answer failed,
\* which is left to its deadline.  A task is never cancelled before its first step,
\* a cancelled wait never loses the item it took, and a session's free never fails.
SettledOnceOrFailed == \A i \in Items :
  /\ tries[i] <= 1
  /\ at[i] \in {"released", "unstarted", "ended"} =>
       tries[i] = 1 /\ (settling[i] \/ failed[i] \/ item[i] = "settled")
  /\ failed[i] => ~streaming
  /\ wait = "none" => at[i] # "got"

\* A stop() that did the stopping and returned has left nothing running: the
\* serve loop has ended, no handler runs, and none will be started.
StopLeavesNothingRunning == \A s \in Stoppers :
  stop[s] \in {"returned", "raised"} /\ withdraw[s] = "done" =>
    serve = "ended" /\ Tasks = {}

\* What stopped serving early is raised by the stop() that ended the procedure.
\* Serving never ends early without a reason: either it failed, or the native
\* side had withdrawn the procedure, or it was stopped.
FailureSurfaces ==
  /\ \A s \in Stoppers : failure /\ withdraw[s] = "done" => stop[s] # "returned"
  /\ serve = "ended" /\ handle => failure \/ native = "withdrawn"

\* The docstring of stop(): it "ends the handlers still running".  Once every
\* stop() is over and one of them returned, none is running.
ReturnedStopEndsHandlers ==
  /\ \A s \in Stoppers : stop[s] \notin {"withdrawing", "joining", "gathering"}
  /\ \E s \in Stoppers : stop[s] = "returned"
  => Tasks = {}

\* stop() ends, though handlers may swallow their cancellation.
StopTerminates == \A s \in Stoppers :
  stop[s] = "withdrawing" ~> stop[s] \in {"returned", "raised", "cancelled"}

\* After a stop() that returned, no item stays held but a session that could not
\* be read: calls are answered, those Python failed to answer among them, and
\* sessions freed, with nothing left to wait out a timeout.
HeldItemsSettled == \A i \in Items :
  (/\ item[i] = "held" /\ (streaming => at[i] # "unread")
   /\ \E s \in Stoppers : stop[s] = "returned" /\ withdraw[s] = "done")
    ~> item[i] = "settled"

-----------------------------------------------------------------------------
(* The promise.                                                            *)

Phase == IF \E s \in Stoppers : withdraw[s] = "done" /\ stop[s] \in {"returned", "raised"}
         THEN "stopped" ELSE "serving"

Work == [i \in Items |-> CASE at[i] \in {"away", "got", "unread"} -> "waiting"
                          [] at[i] \in Running                   -> "running"
                          [] OTHER                              -> "over"]

Answered == [i \in Items |-> tries[i] > 0]

Promise == INSTANCE AbstractServed WITH phase <- Phase, work <- Work, answered <- Answered

\* The serve loop, its handlers' tasks, discards and stop() keep the promise of
\* AbstractServed, fairness included: an item is handled at most once, Python has
\* set out to answer or free it by the time it is over, and no handler starts after
\* a stop() that withdrew the procedure.  An item that cannot be read is never begun.
KeepsThePromise == Promise!FairSpec
=============================================================================
