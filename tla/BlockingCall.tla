---------------------------- MODULE BlockingCall ----------------------------
(***************************************************************************)
(* Awaiting native calls from asyncio: run_blocking and run_native of      *)
(* src/macula_py/_blocking.py.                                             *)
(*                                                                         *)
(* Three parties take steps.  The event loop runs one callback at a time:  *)
(* the awaiting task, the callbacks of the call's future and of the        *)
(* shield around it.  Each call has a thread of its own, which makes the   *)
(* call's cancel token, makes the native call, frees the token and posts   *)
(* the outcome to the loop.  Discard threads release results nobody will   *)
(* see.  The loop's steps and the threads' steps interleave freely; the    *)
(* points between which they can are the steps of this module.             *)
(*                                                                         *)
(* asyncio keeps its ready callbacks in order.  Here any ready callback    *)
(* may run next, which allows every order the loop can produce and more.   *)
(***************************************************************************)
EXTENDS FiniteSets

CONSTANTS Calls,       \* the native calls awaited, one task each
          Blocking,    \* those made through run_blocking, the rest run_native
          Makers,      \* those whose result carries a native handle
          Discarding,  \* those run_blocking is given a discard for
          MayClose,    \* whether the loop may be closed under a running thread
          NoCall

ASSUME CallsAssumption ==
    /\ Blocking \subseteq Calls
    /\ Makers \subseteq Calls
    /\ Discarding \subseteq Blocking \cap Makers
    /\ MayClose \in BOOLEAN
    /\ NoCall \notin Calls

VARIABLES
  task,       \* where the awaiting task of each call is
  asked,      \* whether somebody called cancel() on that task while it waited
  mustCancel, \* asyncio's Task._must_cancel: throw CancelledError when it wakes
  outer,      \* the future asyncio.shield made, which the task awaits
  inner,      \* the future _start made, which _settle settles
  watch,      \* hand_over is a done callback of the inner future
  ready,      \* the callbacks of each call that wait to run on the loop
  loop,       \* the call whose task is inside _end_the_call, or NoCall
  loopOpen,   \* loop.close() has not been called
  flag,       \* the Event named cancelled
  token,      \* the cancel token, which the list named token holds once made
  thread,     \* where the call's thread is
  outcome,    \* what the native call, then work(), ended with
  handle,     \* the native handle in the result
  discarding  \* a thread is running discard(result)

taskVars   == <<task, asked, mustCancel>>
futureVars == <<outer, inner, watch>>
threadVars == <<thread, outcome, token>>
handleVars == <<handle, discarding>>
vars == <<taskVars, futureVars, ready, loop, loopOpen, flag, threadVars, handleVars>>

Outcomes == {"result", "error", "native_cancelled"}
Ended    == {"returned", "raised", "cancelled"}

TypeOK ==
  /\ task \in [Calls -> {"idle", "waiting", "ending"} \cup Ended]
  /\ asked \in [Calls -> BOOLEAN]
  /\ mustCancel \in [Calls -> BOOLEAN]
  /\ outer \in [Calls -> {"pending", "done", "cancelled"}]
  /\ inner \in [Calls -> {"pending", "done"}]
  /\ watch \in [Calls -> BOOLEAN]
  /\ ready \in [Calls -> SUBSET {"settle", "inner", "wake", "handover"}]
  /\ loop \in Calls \cup {NoCall}
  /\ loopOpen \in BOOLEAN
  /\ flag \in [Calls -> BOOLEAN]
  /\ token \in [Calls -> {"none", "live", "cancelled", "freed"}]
  /\ thread \in [Calls -> {"none", "started", "listed", "calling", "returned",
                           "leaving", "finished", "ended"}]
  /\ outcome \in [Calls -> {"none"} \cup Outcomes]
  /\ handle \in [Calls -> {"none", "live", "released"}]
  /\ discarding \in [Calls -> BOOLEAN]

Init ==
  /\ task = [c \in Calls |-> "idle"]
  /\ asked = [c \in Calls |-> FALSE]
  /\ mustCancel = [c \in Calls |-> FALSE]
  /\ outer = [c \in Calls |-> "pending"]
  /\ inner = [c \in Calls |-> "pending"]
  /\ watch = [c \in Calls |-> FALSE]
  /\ ready = [c \in Calls |-> {}]
  /\ loop = NoCall
  /\ loopOpen = TRUE
  /\ flag = [c \in Calls |-> FALSE]
  /\ token = [c \in Calls |-> "none"]
  /\ thread = [c \in Calls |-> "none"]
  /\ outcome = [c \in Calls |-> "none"]
  /\ handle = [c \in Calls |-> "none"]
  /\ discarding = [c \in Calls |-> FALSE]

-----------------------------------------------------------------------------
(* The call's thread.                                                      *)

\* work() makes the token and puts it in the list _end_the_call reads.
ThreadNew(c) ==
  /\ thread[c] = "started"
  /\ thread' = [thread EXCEPT ![c] = "listed"]
  /\ token' = [token EXCEPT ![c] = "live"]
  /\ UNCHANGED <<taskVars, futureVars, ready, loop, loopOpen, flag, outcome, handleVars>>

\* Slip: work() never looks at the flag.
NeverLooks(c) == FALSE

FindsFlag(c) == flag[c]

\* work() reads the flag, and cancels its own token if the task has gone.
ThreadCheck(c) ==
  /\ thread[c] = "listed"
  /\ thread' = [thread EXCEPT ![c] = "calling"]
  /\ token' = [token EXCEPT ![c] = IF FindsFlag(c) THEN "cancelled" ELSE @]
  /\ UNCHANGED <<taskVars, futureVars, ready, loop, loopOpen, flag, outcome, handleVars>>

\* The native call ends with any outcome: a cancelled token does not rule
\* out a result that raced it, and "cancelled" may be the native side's own.
NativeReturn(c, o) ==
  /\ thread[c] = "calling"
  /\ thread' = [thread EXCEPT ![c] = IF c \in Blocking THEN "returned" ELSE "finished"]
  /\ outcome' = [outcome EXCEPT ![c] = o]
  /\ handle' = [handle EXCEPT ![c] = IF o = "result" /\ c \in Makers THEN "live" ELSE @]
  /\ UNCHANGED <<taskVars, futureVars, ready, loop, loopOpen, flag, token, discarding>>

\* Slip: every NativeCancelled is raised on, whoever asked for it.
AlwaysReraises(c) == TRUE

Reraises(c) == flag[c]

\* "cancelled" from a call this task did not cancel is an error like any other.
Classify(c) ==
  /\ thread[c] = "returned"
  /\ thread' = [thread EXCEPT ![c] = "leaving"]
  /\ outcome' = [outcome EXCEPT ![c] =
                   IF @ = "native_cancelled" /\ ~Reraises(c) THEN "error" ELSE @]
  /\ UNCHANGED <<taskVars, futureVars, ready, loop, loopOpen, flag, token, handleVars>>

FreeToken(c) ==
  /\ thread[c] = "leaving"
  /\ thread' = [thread EXCEPT ![c] = "finished"]
  /\ token' = [token EXCEPT ![c] = "freed"]
  /\ UNCHANGED <<taskVars, futureVars, ready, loop, loopOpen, flag, outcome, handleVars>>

\* call_soon_threadsafe(_settle, ...); a closed loop refuses, and run() passes.
Post(c) ==
  /\ thread[c] = "finished"
  /\ thread' = [thread EXCEPT ![c] = "ended"]
  /\ ready' = [ready EXCEPT ![c] = IF loopOpen THEN @ \cup {"settle"} ELSE @]
  /\ UNCHANGED <<taskVars, futureVars, loop, loopOpen, flag, token, outcome, handleVars>>

-----------------------------------------------------------------------------
(* The event loop.                                                         *)

LoopFree == loopOpen /\ loop = NoCall

Runs(c, callback) == LoopFree /\ callback \in ready[c]

\* Slip: the discard is registered when the call starts.
BeginWatching(c) ==
  /\ LoopFree
  /\ task[c] = "idle"
  /\ task' = [task EXCEPT ![c] = "waiting"]
  /\ thread' = [thread EXCEPT ![c] = IF c \in Blocking THEN "started" ELSE "calling"]
  /\ watch' = [watch EXCEPT ![c] = c \in Discarding]
  /\ UNCHANGED <<asked, mustCancel, outer, inner, ready, loop, loopOpen, flag,
                 outcome, token, handleVars>>

\* _start makes the future and the thread; the task awaits the shield.
Begin(c) ==
  /\ LoopFree
  /\ task[c] = "idle"
  /\ task' = [task EXCEPT ![c] = "waiting"]
  /\ thread' = [thread EXCEPT ![c] = IF c \in Blocking THEN "started" ELSE "calling"]
  /\ UNCHANGED <<asked, mustCancel, futureVars, ready, loop, loopOpen, flag,
                 outcome, token, handleVars>>

\* Slip: the cancellation is remembered until the call has returned.
CancelWhenReturned(c) ==
  /\ LoopFree
  /\ task[c] = "waiting"
  /\ asked' = [asked EXCEPT ![c] = TRUE]
  /\ mustCancel' = [mustCancel EXCEPT ![c] = TRUE]
  /\ UNCHANGED <<task, futureVars, ready, loop, loopOpen, flag, threadVars, handleVars>>

\* Task.cancel() of the waiting task: it cancels the shield, never what the
\* shield holds, or marks the task when the shield is already done.
Cancel(c) ==
  /\ LoopFree
  /\ task[c] = "waiting"
  /\ asked' = [asked EXCEPT ![c] = TRUE]
  /\ \/ /\ outer[c] = "pending"
        /\ outer' = [outer EXCEPT ![c] = "cancelled"]
        /\ ready' = [ready EXCEPT ![c] = @ \cup {"wake"}]
        /\ UNCHANGED mustCancel
     \/ /\ outer[c] # "pending"
        /\ mustCancel' = [mustCancel EXCEPT ![c] = TRUE]
        /\ UNCHANGED <<outer, ready>>
  /\ UNCHANGED <<task, inner, watch, loop, loopOpen, flag, threadVars, handleVars>>

\* _settle, and the done callbacks it makes ready.
Settle(c) ==
  /\ Runs(c, "settle")
  /\ LET due == IF inner[c] # "pending" THEN {}
                ELSE {"inner"} \cup (IF watch[c] THEN {"handover"} ELSE {})
     IN  ready' = [ready EXCEPT ![c] = (@ \ {"settle"}) \cup due]
  /\ inner' = [inner EXCEPT ![c] = IF @ = "pending" THEN "done" ELSE @]
  /\ UNCHANGED <<taskVars, outer, watch, loop, loopOpen, flag, threadVars, handleVars>>

\* The shield passes the outcome on, unless it was cancelled meanwhile.
InnerDone(c) ==
  /\ Runs(c, "inner")
  /\ LET pass == outer[c] = "pending"
     IN  /\ outer' = [outer EXCEPT ![c] = IF pass THEN "done" ELSE @]
         /\ ready' = [ready EXCEPT ![c] = (@ \ {"inner"}) \cup
                                          (IF pass THEN {"wake"} ELSE {})]
  /\ UNCHANGED <<taskVars, inner, watch, loop, loopOpen, flag, threadVars, handleVars>>

ThrowsCancelled(c) == outer[c] = "cancelled" \/ mustCancel[c]

\* What the await raises or returns is what the awaiting code sees; a
\* NativeCancelled that gets here becomes CancelledError in run_blocking.
Seen(c) == CASE outcome[c] = "result" -> "returned"
             [] outcome[c] = "native_cancelled" /\ c \in Blocking -> "cancelled"
             [] OTHER -> "raised"

WakeWithOutcome(c) ==
  /\ Runs(c, "wake")
  /\ ~ThrowsCancelled(c)
  /\ ready' = [ready EXCEPT ![c] = @ \ {"wake"}]
  /\ task' = [task EXCEPT ![c] = Seen(c)]
  /\ UNCHANGED <<asked, mustCancel, futureVars, loop, loopOpen, flag, threadVars, handleVars>>

\* Slip: the flag is set only when there is a token to cancel.
SetsFlagOnceListed(c) == inner[c] = "pending" /\ token[c] # "none"

SetsFlag(c) == inner[c] = "pending"

\* CancelledError leaves run_native at once, and enters _end_the_call in
\* run_blocking, which sets the flag before it looks for the token.
WakeCancelled(c) ==
  /\ Runs(c, "wake")
  /\ ThrowsCancelled(c)
  /\ ready' = [ready EXCEPT ![c] = @ \ {"wake"}]
  /\ \/ /\ c \in Blocking
        /\ task' = [task EXCEPT ![c] = "ending"]
        /\ loop' = c
        /\ flag' = [flag EXCEPT ![c] = @ \/ SetsFlag(c)]
     \/ /\ c \notin Blocking
        /\ task' = [task EXCEPT ![c] = "cancelled"]
        /\ UNCHANGED <<loop, flag>>
  /\ UNCHANGED <<asked, mustCancel, futureVars, loopOpen, threadVars, handleVars>>

\* Slip: the discard is asked for only while the future is pending.
ForgetsLandedResult(c) == FALSE

\* add_done_callback on a future that is done runs on the loop's next turn.
DiscardsSoon(c)  == c \in Discarding /\ inner[c] # "pending"
DiscardsLater(c) == c \in Discarding /\ inner[c] = "pending"

\* The rest of _end_the_call: cancel the token the list holds (a freed one
\* stays freed) and ask for the result to be discarded when it comes.
EndCall(c) ==
  /\ loop = c
  /\ loop' = NoCall
  /\ task' = [task EXCEPT ![c] = "cancelled"]
  /\ token' = [token EXCEPT ![c] =
                 IF inner[c] = "pending" /\ @ = "live" THEN "cancelled" ELSE @]
  /\ watch' = [watch EXCEPT ![c] = @ \/ DiscardsLater(c)]
  /\ ready' = [ready EXCEPT ![c] = @ \cup (IF DiscardsSoon(c) THEN {"handover"} ELSE {})]
  /\ UNCHANGED <<asked, mustCancel, outer, inner, loopOpen, flag, thread, outcome, handleVars>>

\* hand_over: a result goes to a thread that runs discard on it.
HandOver(c) ==
  /\ Runs(c, "handover")
  /\ ready' = [ready EXCEPT ![c] = @ \ {"handover"}]
  /\ discarding' = [discarding EXCEPT ![c] = inner[c] = "done" /\ outcome[c] = "result"]
  /\ UNCHANGED <<taskVars, futureVars, loop, loopOpen, flag, threadVars, handle>>

\* The discard thread releases the handle.
Discard(c) ==
  /\ discarding[c]
  /\ discarding' = [discarding EXCEPT ![c] = FALSE]
  /\ handle' = [handle EXCEPT ![c] = "released"]
  /\ UNCHANGED <<taskVars, futureVars, ready, loop, loopOpen, flag, threadVars>>

\* asyncio.run closes the loop once its tasks have ended.  It waits for no
\* thread, and a closed loop has forgotten its ready callbacks.
LoopClose ==
  /\ MayClose
  /\ LoopFree
  /\ \A c \in Calls : task[c] # "waiting"
  /\ loopOpen' = FALSE
  /\ ready' = [c \in Calls |-> {}]
  /\ UNCHANGED <<taskVars, futureVars, loop, flag, threadVars, handleVars>>

-----------------------------------------------------------------------------

LoopStep(c) == \/ Settle(c) \/ InnerDone(c) \/ WakeWithOutcome(c)
               \/ WakeCancelled(c) \/ EndCall(c) \/ HandOver(c)

ThreadStep(c) == \/ ThreadNew(c) \/ ThreadCheck(c)
                 \/ Classify(c) \/ FreeToken(c) \/ Post(c)

Next == \/ \E c \in Calls : \/ Begin(c) \/ Cancel(c) \/ LoopStep(c) \/ ThreadStep(c)
                            \/ Discard(c)
                            \/ \E o \in Outcomes : NativeReturn(c, o)
        \/ LoopClose

Spec == Init /\ [][Next]_vars

\* A running loop gets to every callback that is ready.
LoopFairness == \A c \in Calls :
  /\ WF_vars(Settle(c)) /\ WF_vars(InnerDone(c))
  /\ WF_vars(WakeWithOutcome(c) \/ WakeCancelled(c))
  /\ WF_vars(EndCall(c)) /\ WF_vars(HandOver(c))

\* The scheduler runs every thread, and a native call whose token is
\* cancelled ends.  An uncancelled one may wait for ever.
ThreadFairness == \A c \in Calls :
  /\ WF_vars(ThreadStep(c)) /\ WF_vars(Discard(c))
  /\ WF_vars(token[c] = "cancelled" /\ \E o \in Outcomes : NativeReturn(c, o))

LoopFairSpec == Spec /\ LoopFairness
FairSpec     == Spec /\ LoopFairness /\ ThreadFairness

-----------------------------------------------------------------------------
(* Properties.                                                             *)

\* Once the cancellation of a run_blocking task has gone through, its native
\* call never runs with its token uncancelled: the flag is written before the
\* token is looked for, and read after the token is listed.
CancelReachesTheCall == \A c \in Blocking :
  task[c] = "cancelled" /\ thread[c] = "calling" => token[c] = "cancelled"

\* A run_blocking task that has ended was cancelled exactly when somebody
\* cancelled it: the native side's own "cancelled" is not taken for one, and no
\* result or error overtakes one.
CancelledExactlyWhenAsked == \A c \in Calls :
  task[c] \in Ended => (task[c] = "cancelled" <=> asked[c])

\* A handle has one fate: the caller's, never touched by a discard, or one
\* discard's.  No second discard is running, ready or waiting for the future.
HandleHasOneFate == \A c \in Calls :
  /\ discarding[c] => task[c] = "cancelled" /\ handle[c] = "live"
  /\ handle[c] = "released" => /\ task[c] = "cancelled"
                               /\ "handover" \notin ready[c]
                               /\ watch[c] => inner[c] = "done"

\* Nothing is left to run that would move this call.
Quiet(c) == /\ task[c] \in Ended /\ thread[c] = "ended"
            /\ ready[c] = {} /\ ~discarding[c]

\* When everything a call started has run, a handle it made is its caller's
\* or has been released ("released rather than leaked").
NoHandleLeaked == \A c \in Makers :
  Quiet(c) /\ handle[c] = "live" => task[c] = "returned"

\* Cancelling returns at once: with nothing assumed of the threads, which may
\* be stuck in the native call, a cancelled task still gets its outcome.
CancelReturnsAtOnce == \A c \in Calls : asked[c] ~> task[c] \in Ended

\* The native call of a cancelled run_blocking task ends, its token is freed
\* and its thread ends.
CancelledCallEnds == \A c \in Blocking :
  task[c] = "cancelled" ~> thread[c] = "ended" /\ token[c] = "freed"

-----------------------------------------------------------------------------
(* The promise: a task inside _end_the_call has not abandoned its call yet. *)

Status == [c \in Calls |-> CASE task[c] \in {"waiting", "ending"} -> "running"
                             [] OTHER -> task[c]]

Promise == INSTANCE AbstractCall WITH status <- Status, Kept <- Discarding

\* The code keeps the promise of AbstractCall, fairness included: handles of
\* calls with a discard get their owner or their release.
KeepsThePromise == Promise!FairSpec
=============================================================================
