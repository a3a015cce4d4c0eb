------------------------- MODULE BlockingCallProofs -------------------------
(***************************************************************************)
(* Theorems about BlockingCall, for any calls of any kinds, each proved    *)
(* from one inductive invariant.  Its parts say, of a call c: which task   *)
(* the loop is in; what the thread's place says of the token, the outcome  *)
(* and the handle; what each ready callback says of the futures and the    *)
(* task; who may have set the flag; and where a result is on its way to    *)
(* its discard.                                                            *)
(***************************************************************************)
EXTENDS PoolCall, TLAPS

LoopInv == /\ \A c \in Calls : task[c] = "ending" <=> loop = c
           /\ \A c \in Calls : task[c] = "ending" => c \in Blocking
           /\ ~loopOpen => loop = NoCall
           /\ ~MayClose => loopOpen

\* What the thread's place says.
ThreadInv == \A c \in Calls :
  /\ thread[c] = "none" <=> task[c] = "idle"
  /\ c \in Blocking =>
       /\ thread[c] \in {"none", "started"} => token[c] = "none"
       /\ thread[c] \in {"listed", "calling", "returned", "leaving"} =>
            token[c] \in {"live", "cancelled"}
       /\ thread[c] \in {"finished", "ended"} => token[c] = "freed"
  /\ c \notin Blocking => /\ thread[c] \in {"none", "calling", "finished", "ended"}
                          /\ token[c] = "none"
  /\ outcome[c] = "none" <=> thread[c] \in {"none", "started", "listed", "calling"}
  /\ handle[c] # "none" <=> outcome[c] = "result" /\ c \in Makers

\* What the ready callbacks say.
CallbackInv == \A c \in Calls :
  /\ "settle" \in ready[c] => thread[c] = "ended" /\ inner[c] = "pending"
  /\ inner[c] = "done" => thread[c] = "ended"
  /\ "inner" \in ready[c] => inner[c] = "done" /\ outer[c] # "done"
  /\ outer[c] = "done" => inner[c] = "done"
  /\ "wake" \in ready[c] => task[c] = "waiting" /\ outer[c] # "pending"
  /\ outer[c] = "cancelled" \/ mustCancel[c] <=> asked[c]
  /\ asked[c] => task[c] # "idle"
  /\ outer[c] = "pending" => task[c] \in {"idle", "waiting"}
  /\ task[c] \in {"returned", "raised"} => inner[c] = "done"
  /\ task[c] = "returned" => outcome[c] = "result"
  /\ task[c] = "raised" => outcome[c] # "result"

\* Who set the flag, and what it does to the token and the outcome.
CancelInv == \A c \in Calls :
  /\ task[c] = "ending" => asked[c]
  /\ task[c] \in Ended => (task[c] = "cancelled" <=> asked[c])
  /\ task[c] \in {"ending", "cancelled"} /\ c \in Blocking /\ inner[c] = "pending" => flag[c]
  /\ flag[c] => asked[c] /\ c \in Blocking /\ task[c] \in {"ending", "cancelled"}
  /\ flag[c] /\ task[c] = "cancelled" /\ thread[c] = "calling" => token[c] = "cancelled"
  /\ outcome[c] = "native_cancelled" /\ c \in Blocking
       /\ thread[c] \in {"leaving", "finished", "ended"} => flag[c]

\* Where a result is on its way to its discard.
DiscardInv == \A c \in Calls :
  /\ watch[c] => task[c] = "cancelled" /\ c \in Discarding
  /\ "handover" \in ready[c] => /\ task[c] = "cancelled" /\ inner[c] = "done"
                                /\ c \in Discarding /\ handle[c] # "released"
                                /\ ~discarding[c]
  /\ discarding[c] => /\ task[c] = "cancelled" /\ inner[c] = "done"
                      /\ c \in Discarding /\ handle[c] = "live"
  /\ handle[c] = "released" => /\ task[c] = "cancelled" /\ inner[c] = "done"
                               /\ c \in Discarding

\* While the loop stays open, a discarded call's result keeps moving.
ProgressInv == ~MayClose => \A c \in Calls :
  /\ thread[c] = "ended" => "settle" \in ready[c] \/ inner[c] = "done"
  /\ task[c] = "cancelled" /\ c \in Discarding /\ inner[c] = "pending" => watch[c]
  /\ task[c] = "cancelled" /\ c \in Discarding /\ inner[c] = "done"
       /\ outcome[c] = "result" =>
            "handover" \in ready[c] \/ discarding[c] \/ handle[c] = "released"

IInv == TypeOK /\ LoopInv /\ ThreadInv /\ CallbackInv /\ CancelInv /\ DiscardInv /\ ProgressInv

-----------------------------------------------------------------------------
(* The invariant is inductive: one lemma per step.                         *)

\* The token appears in the list while the flag may be set already.
LEMMA ThreadNewKeeps == ASSUME IInv, NEW c \in Calls, ThreadNew(c) PROVE IInv'
<1> USE CallsAssumption DEF IInv, TypeOK, ThreadNew,
      taskVars, futureVars, threadVars, handleVars
<1>1. TypeOK'
  BY DEF Outcomes, Ended
<1>2. LoopInv'
  BY DEF LoopInv
<1>3. ThreadInv'
  BY DEF ThreadInv, CallbackInv
<1>4. CallbackInv'
  BY DEF CallbackInv, ThreadInv
<1>5. CancelInv'
  BY DEF CancelInv, CallbackInv, ThreadInv, LoopInv, Ended
<1>6. DiscardInv'
  BY DEF DiscardInv, CallbackInv, ThreadInv, LoopInv
<1>7. ProgressInv'
  BY DEF ProgressInv, DiscardInv, CallbackInv, ThreadInv, LoopInv
<1> QED  BY <1>1, <1>2, <1>3, <1>4, <1>5, <1>6, <1>7

\* The flag is read after the token is listed, so a flag set before is found.
LEMMA ThreadCheckKeeps == ASSUME IInv, NEW c \in Calls, ThreadCheck(c) PROVE IInv'
<1> USE CallsAssumption DEF IInv, TypeOK, ThreadCheck, FindsFlag,
      taskVars, futureVars, threadVars, handleVars
<1>1. TypeOK'
  BY DEF Outcomes, Ended
<1>2. LoopInv'
  BY DEF LoopInv
<1>3. ThreadInv'
  BY DEF ThreadInv, CallbackInv
<1>4. CallbackInv'
  BY DEF CallbackInv, ThreadInv
<1>5. CancelInv'
  BY DEF CancelInv, CallbackInv, ThreadInv, LoopInv, Ended
<1>6. DiscardInv'
  BY DEF DiscardInv, CallbackInv, ThreadInv, LoopInv
<1>7. ProgressInv'
  BY DEF ProgressInv, DiscardInv, CallbackInv, ThreadInv, LoopInv
<1> QED  BY <1>1, <1>2, <1>3, <1>4, <1>5, <1>6, <1>7

\* A handle appears with a result, and only then.
LEMMA NativeReturnKeeps == ASSUME IInv, NEW c \in Calls, NEW o \in Outcomes, NativeReturn(c, o) PROVE IInv'
<1> USE CallsAssumption DEF IInv, TypeOK, NativeReturn, Outcomes,
      taskVars, futureVars, threadVars, handleVars
<1>1. TypeOK'
  BY DEF Ended
<1>2. LoopInv'
  BY DEF LoopInv
<1>3. ThreadInv'
  BY DEF ThreadInv, CallbackInv
<1>4. CallbackInv'
  BY DEF CallbackInv, ThreadInv
<1>5. CancelInv'
  BY DEF CancelInv, CallbackInv, ThreadInv, LoopInv, Ended
<1>6. DiscardInv'
  BY DEF DiscardInv, CallbackInv, ThreadInv, LoopInv
<1>7. ProgressInv'
  BY DEF ProgressInv, DiscardInv, CallbackInv, ThreadInv, LoopInv
<1> QED  BY <1>1, <1>2, <1>3, <1>4, <1>5, <1>6, <1>7

\* Only a call whose flag is set leaves with native_cancelled.
LEMMA ClassifyKeeps == ASSUME IInv, NEW c \in Calls, Classify(c) PROVE IInv'
<1> USE CallsAssumption DEF IInv, TypeOK, Classify, Reraises,
      taskVars, futureVars, threadVars, handleVars
<1>1. TypeOK'
  BY DEF Outcomes, Ended
<1>2. LoopInv'
  BY DEF LoopInv
<1>3. ThreadInv'
  BY DEF ThreadInv, CallbackInv
<1>4. CallbackInv'
  BY DEF CallbackInv, ThreadInv
<1>5. CancelInv'
  BY DEF CancelInv, CallbackInv, ThreadInv, LoopInv, Ended
<1>6. DiscardInv'
  BY DEF DiscardInv, CallbackInv, ThreadInv, LoopInv
<1>7. ProgressInv'
  BY DEF ProgressInv, DiscardInv, CallbackInv, ThreadInv, LoopInv
<1> QED  BY <1>1, <1>2, <1>3, <1>4, <1>5, <1>6, <1>7

\* The token is freed once the native call has ended.
LEMMA FreeTokenKeeps == ASSUME IInv, NEW c \in Calls, FreeToken(c) PROVE IInv'
<1> USE CallsAssumption DEF IInv, TypeOK, FreeToken,
      taskVars, futureVars, threadVars, handleVars
<1>1. TypeOK'
  BY DEF Outcomes, Ended
<1>2. LoopInv'
  BY DEF LoopInv
<1>3. ThreadInv'
  BY DEF ThreadInv, CallbackInv
<1>4. CallbackInv'
  BY DEF CallbackInv, ThreadInv
<1>5. CancelInv'
  BY DEF CancelInv, CallbackInv, ThreadInv, LoopInv, Ended
<1>6. DiscardInv'
  BY DEF DiscardInv, CallbackInv, ThreadInv, LoopInv
<1>7. ProgressInv'
  BY DEF ProgressInv, DiscardInv, CallbackInv, ThreadInv, LoopInv
<1> QED  BY <1>1, <1>2, <1>3, <1>4, <1>5, <1>6, <1>7

\* An ended thread has posted, unless the loop refused.
LEMMA PostKeeps == ASSUME IInv, NEW c \in Calls, Post(c) PROVE IInv'
<1> USE CallsAssumption DEF IInv, TypeOK, Post,
      taskVars, futureVars, threadVars, handleVars
<1>1. TypeOK'
  BY DEF Outcomes, Ended
<1>2. LoopInv'
  BY DEF LoopInv
<1>3. ThreadInv'
  BY DEF ThreadInv, CallbackInv
<1>4. CallbackInv'
  BY DEF CallbackInv, ThreadInv
<1>5. CancelInv'
  BY DEF CancelInv, CallbackInv, ThreadInv, LoopInv, Ended
<1>6. DiscardInv'
  BY DEF DiscardInv, CallbackInv, ThreadInv, LoopInv
<1>7. ProgressInv'
  BY DEF ProgressInv, DiscardInv, CallbackInv, ThreadInv, LoopInv
<1> QED  BY <1>1, <1>2, <1>3, <1>4, <1>5, <1>6, <1>7

\* A started call has nothing ready and no outcome.
LEMMA BeginKeeps == ASSUME IInv, NEW c \in Calls, Begin(c) PROVE IInv'
<1> USE CallsAssumption DEF IInv, TypeOK, Begin, LoopFree,
      taskVars, futureVars, threadVars, handleVars
<1>1. TypeOK'
  BY DEF Outcomes, Ended
<1>2. LoopInv'
  BY DEF LoopInv
<1>3. ThreadInv'
  BY DEF ThreadInv, CallbackInv
<1>4. CallbackInv'
  BY DEF CallbackInv, ThreadInv
<1>5. CancelInv'
  BY DEF CancelInv, CallbackInv, ThreadInv, LoopInv, Ended
<1>6. DiscardInv'
  BY DEF DiscardInv, CallbackInv, ThreadInv, LoopInv
<1>7. ProgressInv'
  BY DEF ProgressInv, DiscardInv, CallbackInv, ThreadInv, LoopInv
<1> QED  BY <1>1, <1>2, <1>3, <1>4, <1>5, <1>6, <1>7

\* A cancelled task finds its shield cancelled or itself marked.
LEMMA CancelKeeps == ASSUME IInv, NEW c \in Calls, Cancel(c) PROVE IInv'
<1> USE CallsAssumption DEF IInv, TypeOK, Cancel, LoopFree,
      taskVars, futureVars, threadVars, handleVars
<1>1. TypeOK'
  <2>1. CASE outer[c] = "pending"
    <3>1. ready' = [ready EXCEPT ![c] = @ \cup {"wake"}] /\ UNCHANGED mustCancel
      BY <2>1
    <3>2. outer' = [outer EXCEPT ![c] = "cancelled"]
      BY <2>1
    <3> QED  BY <3>1, <3>2 DEF Outcomes, Ended
  <2>2. CASE outer[c] # "pending"
    BY <2>2 DEF Outcomes, Ended
  <2> QED  BY <2>1, <2>2
<1>2. LoopInv'
  BY DEF LoopInv
<1>3. ThreadInv'
  BY DEF ThreadInv, CallbackInv
<1>4. CallbackInv'
  BY DEF CallbackInv, ThreadInv
<1>5. CancelInv'
  BY DEF CancelInv, CallbackInv, ThreadInv, LoopInv, Ended
<1>6. DiscardInv'
  BY DEF DiscardInv, CallbackInv, ThreadInv, LoopInv
<1>7. ProgressInv'
  BY DEF ProgressInv, DiscardInv, CallbackInv, ThreadInv, LoopInv
<1> QED  BY <1>1, <1>2, <1>3, <1>4, <1>5, <1>6, <1>7

\* A settled future has its outcome; a watched one its hand_over.
LEMMA SettleKeeps == ASSUME IInv, NEW c \in Calls, Settle(c) PROVE IInv'
<1> USE CallsAssumption DEF IInv, TypeOK, Settle, Runs, LoopFree,
      taskVars, futureVars, threadVars, handleVars
<1>1. TypeOK'
  BY DEF Outcomes, Ended
<1>2. LoopInv'
  BY DEF LoopInv
<1>3. ThreadInv'
  BY DEF ThreadInv, CallbackInv
<1>4. CallbackInv'
  BY DEF CallbackInv, ThreadInv
<1>5. CancelInv'
  BY DEF CancelInv, CallbackInv, ThreadInv, LoopInv, Ended
<1>6. DiscardInv'
  BY DEF DiscardInv, CallbackInv, ThreadInv, LoopInv
<1>7. ProgressInv'
  BY DEF ProgressInv, DiscardInv, CallbackInv, ThreadInv, LoopInv
<1> QED  BY <1>1, <1>2, <1>3, <1>4, <1>5, <1>6, <1>7

\* The shield is done only once the future is.
LEMMA InnerDoneKeeps == ASSUME IInv, NEW c \in Calls, InnerDone(c) PROVE IInv'
<1> USE CallsAssumption DEF IInv, TypeOK, InnerDone, Runs, LoopFree,
      taskVars, futureVars, threadVars, handleVars
<1>1. TypeOK'
  BY DEF Outcomes, Ended
<1>2. LoopInv'
  BY DEF LoopInv
<1>3. ThreadInv'
  BY DEF ThreadInv, CallbackInv
<1>4. CallbackInv'
  BY DEF CallbackInv, ThreadInv
<1>5. CancelInv'
  BY DEF CancelInv, CallbackInv, ThreadInv, LoopInv, Ended
<1>6. DiscardInv'
  BY DEF DiscardInv, CallbackInv, ThreadInv, LoopInv
<1>7. ProgressInv'
  BY DEF ProgressInv, DiscardInv, CallbackInv, ThreadInv, LoopInv
<1> QED  BY <1>1, <1>2, <1>3, <1>4, <1>5, <1>6, <1>7

\* A task that was not asked to end never sees native_cancelled.
LEMMA WakeWithOutcomeKeeps == ASSUME IInv, NEW c \in Calls, WakeWithOutcome(c) PROVE IInv'
<1> USE CallsAssumption DEF IInv, TypeOK, WakeWithOutcome, Runs, LoopFree, ThrowsCancelled, Seen, Outcomes,
      taskVars, futureVars, threadVars, handleVars
<1>1. TypeOK'
  BY DEF Ended
<1>2. LoopInv'
  BY DEF LoopInv
<1>3. ThreadInv'
  BY DEF ThreadInv, CallbackInv
<1>4. CallbackInv'
  BY DEF CallbackInv, ThreadInv
<1>5. CancelInv'
  BY DEF CancelInv, CallbackInv, ThreadInv, LoopInv, Ended
<1>6. DiscardInv'
  BY DEF DiscardInv, CallbackInv, ThreadInv, LoopInv
<1>7. ProgressInv'
  BY DEF ProgressInv, DiscardInv, CallbackInv, ThreadInv, LoopInv
<1> QED  BY <1>1, <1>2, <1>3, <1>4, <1>5, <1>6, <1>7

\* A task that leaves its call sets the flag unless the future is done.
LEMMA WakeCancelledKeeps == ASSUME IInv, NEW c \in Calls, WakeCancelled(c) PROVE IInv'
<1> USE CallsAssumption DEF IInv, TypeOK, WakeCancelled, Runs, LoopFree, ThrowsCancelled, SetsFlag,
      taskVars, futureVars, threadVars, handleVars
<1>1. TypeOK'
  <2>1. CASE c \in Blocking
    <3>1. flag' \in [Calls -> BOOLEAN]
      BY <2>1
    <3> QED  BY <2>1, <3>1 DEF Outcomes, Ended
  <2>2. CASE c \notin Blocking
    BY <2>2 DEF Outcomes, Ended
  <2> QED  BY <2>1, <2>2
<1>2. LoopInv'
  BY DEF LoopInv
<1>3. ThreadInv'
  BY DEF ThreadInv, CallbackInv
<1>4. CallbackInv'
  BY DEF CallbackInv, ThreadInv
<1>5. CancelInv'
  BY DEF CancelInv, CallbackInv, ThreadInv, LoopInv, Ended
<1>6. DiscardInv'
  BY DEF DiscardInv, CallbackInv, ThreadInv, LoopInv
<1>7. ProgressInv'
  BY DEF ProgressInv, DiscardInv, CallbackInv, ThreadInv, LoopInv
<1> QED  BY <1>1, <1>2, <1>3, <1>4, <1>5, <1>6, <1>7

\* The token a flagged call runs with is cancelled, and its result watched.
LEMMA EndCallKeeps == ASSUME IInv, NEW c \in Calls, EndCall(c) PROVE IInv'
<1> USE CallsAssumption DEF IInv, TypeOK, EndCall, DiscardsSoon, DiscardsLater,
      taskVars, futureVars, threadVars, handleVars
<1>1. TypeOK'
  BY DEF Outcomes, Ended
<1>2. LoopInv'
  BY DEF LoopInv
<1>3. ThreadInv'
  BY DEF ThreadInv, CallbackInv, LoopInv
<1>4. CallbackInv'
  BY DEF CallbackInv, ThreadInv, LoopInv
<1>5. CancelInv'
  BY DEF CancelInv, CallbackInv, ThreadInv, LoopInv, Ended
<1>6. DiscardInv'
  BY DEF DiscardInv, CallbackInv, ThreadInv, LoopInv
<1>7. ProgressInv'
  BY DEF ProgressInv, DiscardInv, CallbackInv, ThreadInv, LoopInv
<1> QED  BY <1>1, <1>2, <1>3, <1>4, <1>5, <1>6, <1>7

\* A result is handed over once.
LEMMA HandOverKeeps == ASSUME IInv, NEW c \in Calls, HandOver(c) PROVE IInv'
<1> USE CallsAssumption DEF IInv, TypeOK, HandOver, Runs, LoopFree,
      taskVars, futureVars, threadVars, handleVars
<1>1. TypeOK'
  BY DEF Outcomes, Ended
<1>2. LoopInv'
  BY DEF LoopInv
<1>3. ThreadInv'
  BY DEF ThreadInv, CallbackInv
<1>4. CallbackInv'
  BY DEF CallbackInv, ThreadInv
<1>5. CancelInv'
  BY DEF CancelInv, CallbackInv, ThreadInv, LoopInv, Ended
<1>6. DiscardInv'
  BY DEF DiscardInv, CallbackInv, ThreadInv, LoopInv
<1>7. ProgressInv'
  <2>1. inner[c] = "done" /\ outcome[c] = "result" => discarding'[c]
    OBVIOUS
  <2>2. \A d \in Calls : d # c => discarding'[d] = discarding[d] /\ ready'[d] = ready[d]
    OBVIOUS
  <2>3. ready'[c] = ready[c] \ {"handover"}
    OBVIOUS
  <2> QED  BY <2>1, <2>2, <2>3 DEF ProgressInv
<1> QED  BY <1>1, <1>2, <1>3, <1>4, <1>5, <1>6, <1>7

\* A discarded handle was nobody's.
LEMMA DiscardKeeps == ASSUME IInv, NEW c \in Calls, Discard(c) PROVE IInv'
<1> USE CallsAssumption DEF IInv, TypeOK, Discard,
      taskVars, futureVars, threadVars, handleVars
<1>1. TypeOK'
  BY DEF Outcomes, Ended
<1>2. LoopInv'
  BY DEF LoopInv
<1>3. ThreadInv'
  BY DEF ThreadInv, CallbackInv, DiscardInv
<1>4. CallbackInv'
  BY DEF CallbackInv, ThreadInv
<1>5. CancelInv'
  BY DEF CancelInv, CallbackInv, ThreadInv, LoopInv, Ended
<1>6. DiscardInv'
  BY DEF DiscardInv, CallbackInv, ThreadInv, LoopInv
<1>7. ProgressInv'
  BY DEF ProgressInv, DiscardInv, CallbackInv, ThreadInv, LoopInv
<1> QED  BY <1>1, <1>2, <1>3, <1>4, <1>5, <1>6, <1>7

\* A loop that closes has no task in it.
LEMMA LoopCloseKeeps == ASSUME IInv, LoopClose PROVE IInv'
<1> USE CallsAssumption DEF IInv, TypeOK, LoopClose, LoopFree,
      taskVars, futureVars, threadVars, handleVars
<1>1. TypeOK'
  BY DEF Outcomes, Ended
<1>2. LoopInv'
  BY DEF LoopInv
<1>3. ThreadInv'
  BY DEF ThreadInv, CallbackInv
<1>4. CallbackInv'
  BY DEF CallbackInv, ThreadInv
<1>5. CancelInv'
  BY DEF CancelInv, CallbackInv, ThreadInv, LoopInv, Ended
<1>6. DiscardInv'
  BY DEF DiscardInv, CallbackInv, ThreadInv, LoopInv
<1>7. ProgressInv'
  BY DEF ProgressInv, DiscardInv, CallbackInv, ThreadInv, LoopInv
<1> QED  BY <1>1, <1>2, <1>3, <1>4, <1>5, <1>6, <1>7

LEMMA InitHolds == Init => IInv
BY CallsAssumption DEF Init, IInv, TypeOK, LoopInv, ThreadInv, CallbackInv, CancelInv,
     DiscardInv, ProgressInv, Outcomes, Ended

\* Every step, and every stutter, keeps the invariant.
LEMMA StepKeeps == IInv /\ [Next]_vars => IInv'
<1> SUFFICES ASSUME IInv, [Next]_vars PROVE IInv'
  OBVIOUS
<1>1. ASSUME NEW c \in Calls, LoopStep(c) PROVE IInv'
  BY <1>1, SettleKeeps, InnerDoneKeeps, WakeWithOutcomeKeeps, WakeCancelledKeeps,
     EndCallKeeps, HandOverKeeps DEF LoopStep
<1>2. ASSUME NEW c \in Calls, ThreadStep(c) PROVE IInv'
  BY <1>2, ThreadNewKeeps, ThreadCheckKeeps, ClassifyKeeps, FreeTokenKeeps, PostKeeps
  DEF ThreadStep
<1>3. ASSUME NEW c \in Calls, NEW o \in Outcomes, NativeReturn(c, o) PROVE IInv'
  BY <1>3, NativeReturnKeeps
<1>4. CASE UNCHANGED vars
  BY <1>4 DEF IInv, TypeOK, LoopInv, ThreadInv, CallbackInv, CancelInv, DiscardInv,
     ProgressInv, vars, taskVars, futureVars, threadVars, handleVars
<1> QED
  BY <1>1, <1>2, <1>3, <1>4, BeginKeeps, CancelKeeps, DiscardKeeps, LoopCloseKeeps DEF Next

THEOREM Inductive == Spec => []IInv
BY InitHolds, StepKeeps, PTL DEF Spec

\* The state stays what its declarations say, for any calls of any kinds.
THEOREM TypeCorrect == Spec => []TypeOK
<1>1. IInv => TypeOK
  BY DEF IInv
<1> QED  BY <1>1, Inductive, PTL

\* No native call of a run_blocking task that was cancelled runs on with its
\* token uncancelled, whatever the interleaving of the flag and the list.
THEOREM CancellationReaches == Spec => []CancelReachesTheCall
<1>1. IInv => CancelReachesTheCall
  BY CallsAssumption DEF IInv, TypeOK, CancelReachesTheCall, CancelInv, CallbackInv
<1> QED  BY <1>1, Inductive, PTL

\* A task ends cancelled exactly when it was asked to.
THEOREM CancellationIsHonoured == Spec => []CancelledExactlyWhenAsked
<1>1. IInv => CancelledExactlyWhenAsked
  BY DEF IInv, CancelledExactlyWhenAsked, CancelInv
<1> QED  BY <1>1, Inductive, PTL

\* No handle is both its caller's and a discard's, nor discarded twice.
THEOREM OneFate == Spec => []HandleHasOneFate
<1>1. IInv => HandleHasOneFate
  BY DEF IInv, HandleHasOneFate, DiscardInv
<1> QED  BY <1>1, Inductive, PTL

\* On a loop that is not closed under a running thread, no call whose handle
\* has a discard leaks it.
THEOREM NothingLeaks ==
  ASSUME ~MayClose, Makers \subseteq Discarding PROVE Spec => []NoHandleLeaked
<1>1. IInv => NoHandleLeaked
  <2> SUFFICES ASSUME IInv, NEW c \in Makers, Quiet(c), handle[c] = "live"
               PROVE  task[c] = "returned"
    BY DEF NoHandleLeaked
  <2>1. c \in Calls /\ c \in Discarding
    BY CallsAssumption
  <2>2. inner[c] = "done" /\ outcome[c] = "result"
    BY <2>1 DEF Quiet, IInv, ProgressInv, ThreadInv
  <2>3. task[c] # "cancelled"
    BY <2>1, <2>2 DEF Quiet, IInv, ProgressInv
  <2>4. task[c] # "raised"
    BY <2>1, <2>2 DEF IInv, CallbackInv
  <2> QED  BY <2>3, <2>4 DEF Quiet, Ended
<1> QED  BY <1>1, Inductive, PTL

-----------------------------------------------------------------------------
(* The code keeps the promise of AbstractCall.                             *)

LEMMA PromiseInit == Init => Promise!Init
BY DEF Init, Promise!Init, Status

\* A thread makes a handle when its native call returns, and otherwise moves
\* nothing the promise speaks of.
LEMMA NativeReturnMakes ==
  ASSUME IInv, NEW c \in Calls, NEW o \in Outcomes, NativeReturn(c, o)
  PROVE  Promise!Make(c) \/ UNCHANGED <<Status, handle>>
<1>1. UNCHANGED Status
  BY DEF NativeReturn, Status, taskVars
<1>2. task[c] \in {"waiting", "ending", "cancelled"}
  BY DEF IInv, TypeOK, ThreadInv, CallbackInv, NativeReturn, Ended
<1>3. Status[c] \in {"running", "cancelled"}
  BY <1>2 DEF Status
<1>4. handle[c] = "none"
  BY DEF IInv, ThreadInv, NativeReturn
<1> QED
  BY <1>1, <1>3, <1>4 DEF NativeReturn, Promise!Make, IInv, TypeOK

\* The task's last step is the promise's.
LEMMA WakeWithOutcomeEnds ==
  ASSUME IInv, NEW c \in Calls, WakeWithOutcome(c)
  PROVE  Promise!Return(c) \/ Promise!Fail(c)
<1>1. task[c] = "waiting" /\ Status[c] = "running"
  BY DEF WakeWithOutcome, Runs, IInv, CallbackInv, Status
<1>2. UNCHANGED handle
  BY DEF WakeWithOutcome, handleVars
<1>3. handle[c] # "released"
  BY <1>1 DEF IInv, DiscardInv
<1>4. ~(outcome[c] = "native_cancelled" /\ c \in Blocking)
  BY <1>1 DEF WakeWithOutcome, Runs, ThrowsCancelled, IInv, TypeOK, CallbackInv, CancelInv, ThreadInv
<1>5. task' = [task EXCEPT ![c] = Seen(c)]
  BY DEF WakeWithOutcome
<1>6. CASE outcome[c] = "result"
  <2>1. Seen(c) = "returned"
    BY <1>6 DEF Seen
  <2>2. Status' = [Status EXCEPT ![c] = "returned"]
    BY <1>5, <2>1 DEF Status, IInv, TypeOK
  <2> QED  BY <1>1, <1>2, <1>3, <2>2 DEF Promise!Return
<1>7. CASE outcome[c] # "result"
  <2>1. Seen(c) = "raised"
    BY <1>4, <1>7 DEF Seen
  <2>2. Status' = [Status EXCEPT ![c] = "raised"]
    BY <1>5, <2>1 DEF Status, IInv, TypeOK
  <2>3. handle[c] = "none"
    BY <1>7 DEF IInv, ThreadInv
  <2> QED  BY <1>1, <1>2, <2>2, <2>3 DEF Promise!Fail
<1> QED  BY <1>6, <1>7

\* A run_native task abandons its call when it wakes, a run_blocking one when
\* it leaves _end_the_call.
LEMMA WakeCancelledAbandons ==
  ASSUME IInv, NEW c \in Calls, WakeCancelled(c)
  PROVE  Promise!Abandon(c) \/ UNCHANGED <<Status, handle>>
<1>1. task[c] = "waiting" /\ Status[c] = "running"
  BY DEF WakeCancelled, Runs, IInv, CallbackInv, Status
<1>2. UNCHANGED handle
  BY DEF WakeCancelled, handleVars
<1>3. CASE c \in Blocking
  <2>1. task' = [task EXCEPT ![c] = "ending"]
    BY <1>3 DEF WakeCancelled
  <2>2. Status' = Status
    BY <1>1, <2>1 DEF Status, IInv, TypeOK
  <2> QED  BY <1>2, <2>2
<1>4. CASE c \notin Blocking
  <2>1. task' = [task EXCEPT ![c] = "cancelled"]
    BY <1>4 DEF WakeCancelled
  <2>2. Status' = [Status EXCEPT ![c] = "cancelled"]
    BY <2>1 DEF Status, IInv, TypeOK
  <2> QED  BY <1>1, <1>2, <2>2 DEF Promise!Abandon
<1> QED  BY <1>3, <1>4

LEMMA EndCallAbandons ==
  ASSUME IInv, NEW c \in Calls, EndCall(c) PROVE Promise!Abandon(c)
<1>1. task[c] = "ending" /\ Status[c] = "running"
  BY DEF EndCall, IInv, LoopInv, Status
<1>2. Status' = [Status EXCEPT ![c] = "cancelled"]
  BY DEF EndCall, Status, IInv, TypeOK
<1> QED  BY <1>1, <1>2 DEF EndCall, handleVars, Promise!Abandon

LEMMA DiscardReleases ==
  ASSUME IInv, NEW c \in Calls, Discard(c) PROVE Promise!Release(c)
<1>1. task[c] = "cancelled" /\ handle[c] = "live"
  BY DEF Discard, IInv, DiscardInv
<1>2. Status[c] = "cancelled" /\ UNCHANGED Status
  BY <1>1 DEF Discard, Status, taskVars
<1> QED  BY <1>1, <1>2 DEF Discard, Promise!Release

LEMMA BeginBegins ==
  ASSUME IInv, NEW c \in Calls, Begin(c) PROVE Promise!Begin(c)
<1>1. Status[c] = "idle"
  BY DEF Begin, Status
<1>2. Status' = [Status EXCEPT ![c] = "running"]
  BY DEF Begin, Status, IInv, TypeOK
<1> QED  BY <1>1, <1>2 DEF Begin, handleVars, Promise!Begin

\* Every step of the code is a step of the promise, or one it does not see.
LEMMA StepRefines ==
  IInv /\ [Next]_vars => [Promise!Next]_<<Status, handle>>
<1> SUFFICES ASSUME IInv, [Next]_vars PROVE [Promise!Next]_<<Status, handle>>
  OBVIOUS
<1>1. CASE UNCHANGED <<task, handle>>
  BY <1>1 DEF Status
<1>2. ASSUME NEW c \in Calls, NEW o \in Outcomes, NativeReturn(c, o)
      PROVE  [Promise!Next]_<<Status, handle>>
  BY <1>2, NativeReturnMakes DEF Promise!Next
<1>3. ASSUME NEW c \in Calls, WakeWithOutcome(c) PROVE [Promise!Next]_<<Status, handle>>
  BY <1>3, WakeWithOutcomeEnds DEF Promise!Next
<1>4. ASSUME NEW c \in Calls, WakeCancelled(c) PROVE [Promise!Next]_<<Status, handle>>
  BY <1>4, WakeCancelledAbandons DEF Promise!Next
<1>5. ASSUME NEW c \in Calls, EndCall(c) PROVE [Promise!Next]_<<Status, handle>>
  BY <1>5, EndCallAbandons DEF Promise!Next
<1>6. ASSUME NEW c \in Calls, Discard(c) PROVE [Promise!Next]_<<Status, handle>>
  BY <1>6, DiscardReleases DEF Promise!Next
<1>7. ASSUME NEW c \in Calls, Begin(c) PROVE [Promise!Next]_<<Status, handle>>
  BY <1>7, BeginBegins DEF Promise!Next
<1>8. ASSUME NEW c \in Calls,
             Cancel(c) \/ Settle(c) \/ InnerDone(c) \/ HandOver(c) \/ ThreadStep(c) \/ LoopClose
      PROVE  UNCHANGED <<task, handle>>
  BY <1>8 DEF Cancel, Settle, InnerDone, HandOver, ThreadStep, ThreadNew, ThreadCheck,
     Classify, FreeToken, Post, LoopClose, taskVars, handleVars
<1>9. CASE LoopClose
  BY <1>1, <1>9 DEF LoopClose, taskVars, handleVars
<1>10. CASE UNCHANGED vars
  BY <1>1, <1>10 DEF vars, taskVars, handleVars
<1> QED
  BY <1>1, <1>2, <1>3, <1>4, <1>5, <1>6, <1>7, <1>8, <1>9, <1>10 DEF Next, LoopStep

\* However its task is cancelled and whenever its thread returns, a call
\* behaves as AbstractCall promises.
THEOREM Implements == Spec => Promise!Spec
BY PromiseInit, StepRefines, Inductive, PTL DEF Spec, Promise!Spec, Promise!vars

-----------------------------------------------------------------------------
(* An await is what Pool takes it for.                                     *)

PoolVars == <<Methods, Ats, Results, Tolds, Objects, Counts>>

\* What a step of one call leaves of the others.
OnlyOf(c) == \A d \in Calls \ {c} : /\ task'[d] = task[d] /\ thread'[d] = thread[d]
                                     /\ outcome'[d] = outcome[d] /\ handle'[d] = handle[d]

\* A step that moves them of one call alone moves one operation.
LEMMA OthersStay ==
  ASSUME IInv, NEW c \in Calls, OnlyOf(c)
  PROVE  \A d \in Calls \ {c} :
           /\ At(d)' = At(d) /\ Result(d)' = Result(d) /\ Told(d)' = Told(d)
           /\ Object(d)' = Object(d) /\ Method(d)' = Method(d)
           /\ (handle[d] = "released")' <=> handle[d] = "released"
<1> TAKE d \in Calls \ {c}
<1> USE DEF OnlyOf
<1>1. At(d)' = At(d)
  BY DEF At, IsOver, IsBack
<1>2. Result(d)' = Result(d)
  BY <1>1 DEF Result, Kind
<1>3. Told(d)' = Told(d)
  BY DEF Told, Error
<1>4. Object(d)' = Object(d)
  BY DEF Object, IsBack
<1>5. Method(d)' = Method(d)
  BY <1>1, <1>4 DEF Method, MethodOf
<1> QED  BY <1>1, <1>2, <1>3, <1>4, <1>5

\* What such a step does to the variables of Pool.
LEMMA OneMoves ==
  ASSUME IInv, NEW c \in Calls, OnlyOf(c)
  PROVE  /\ Ats' = [Ats EXCEPT ![c] = At(c)']
         /\ Results' = [Results EXCEPT ![c] = Result(c)']
         /\ Tolds' = [Tolds EXCEPT ![c] = Told(c)']
         /\ Objects' = [Objects EXCEPT ![c] = Object(c)']
         /\ Methods' = [Methods EXCEPT ![c] = Method(c)']
         /\ Counts' = [Counts EXCEPT ![c] = IF handle'[c] = "released" THEN 1 ELSE 0]
<1>1. c # Connected /\ c \in Operations
  BY CallsAssumption DEF Connected, Operations
<1>2. \A o \in Operations : o # Connected /\ o # c => o \in Calls \ {c}
  BY DEF Operations
<1>3. \A d \in Calls \ {c} :
        /\ At(d)' = At(d) /\ Result(d)' = Result(d) /\ Told(d)' = Told(d)
        /\ Object(d)' = Object(d) /\ Method(d)' = Method(d)
        /\ handle'[d] = "released" <=> handle[d] = "released"
  BY OthersStay
<1>4. Ats' = [Ats EXCEPT ![c] = At(c)']
  BY <1>1, <1>2, <1>3 DEF Ats
<1>5. Results' = [Results EXCEPT ![c] = Result(c)']
  BY <1>1, <1>2, <1>3 DEF Results
<1>6. Tolds' = [Tolds EXCEPT ![c] = Told(c)']
  BY <1>1, <1>2, <1>3 DEF Tolds
<1>7. Objects' = [Objects EXCEPT ![c] = Object(c)']
  BY <1>1, <1>2, <1>3 DEF Objects
<1>8. Methods' = [Methods EXCEPT ![c] = Method(c)']
  BY <1>1, <1>2, <1>3 DEF Methods
<1>9. Counts' = [Counts EXCEPT ![c] = IF handle'[c] = "released" THEN 1 ELSE 0]
  <2> DEFINE N(o) == IF o # Connected /\ handle[o] = "released" THEN 1 ELSE 0
             M(o) == IF o # Connected /\ handle'[o] = "released" THEN 1 ELSE 0
  <2>1. Counts = [o \in Operations |-> N(o)] /\ Counts' = [o \in Operations |-> M(o)]
    BY DEF Counts
  <2>2. \A o \in Operations \ {c} : M(o) = N(o)
    BY <1>2, <1>3
  <2>3. M(c) = IF handle'[c] = "released" THEN 1 ELSE 0
    BY <1>1
  <2> HIDE DEF N, M
  <2>4. Counts' = [Counts EXCEPT ![c] = M(c)]
    BY <1>1, <2>1, <2>2
  <2> QED  BY <2>3, <2>4
<1> QED  BY <1>4, <1>5, <1>6, <1>7, <1>8, <1>9

\* What Pool has of a call.
LEMMA OpOf ==
  ASSUME NEW c \in Calls
  PROVE  /\ c # Connected /\ c \in Operations
         /\ Ats[c] = At(c) /\ Results[c] = Result(c) /\ Tolds[c] = Told(c)
         /\ Objects[c] = Object(c) /\ Methods[c] = Method(c)
         /\ Counts[c] = IF handle[c] = "released" THEN 1 ELSE 0
         /\ Objects[Connected] = "live"
<1>1. c # Connected /\ c \in Operations /\ Connected \in Operations
  BY CallsAssumption DEF Connected, Operations
<1> QED  BY <1>1 DEF Ats, Results, Tolds, Objects, Methods, Counts

\* What it leaves as it is at that call, it leaves as it is.
LEMMA OneStays ==
  ASSUME IInv, NEW c \in Calls, OnlyOf(c)
  PROVE  /\ At(c)' = At(c) => Ats' = Ats
         /\ Result(c)' = Result(c) => Results' = Results
         /\ Told(c)' = Told(c) => Tolds' = Tolds
         /\ Object(c)' = Object(c) => Objects' = Objects
         /\ Method(c)' = Method(c) => Methods' = Methods
         /\ (handle'[c] = "released" <=> handle[c] = "released") => Counts' = Counts
<1>1. At(c)' = At(c) => Ats' = Ats
  BY OneMoves, OpOf DEF Ats
<1>2. Result(c)' = Result(c) => Results' = Results
  BY OneMoves, OpOf DEF Results
<1>3. Told(c)' = Told(c) => Tolds' = Tolds
  BY OneMoves, OpOf DEF Tolds
<1>4. Object(c)' = Object(c) => Objects' = Objects
  BY OneMoves, OpOf DEF Objects
<1>5. Method(c)' = Method(c) => Methods' = Methods
  BY OneMoves, OpOf DEF Methods
<1>6. (handle'[c] = "released" <=> handle[c] = "released") => Counts' = Counts
  BY OneMoves, OpOf DEF Counts
<1> QED  BY <1>1, <1>2, <1>3, <1>4, <1>5, <1>6

\* Most steps show Pool nothing.
LEMMA QuietSteps ==
  ASSUME IInv, UNCHANGED <<task, outcome, handle>>, \A c \in Calls : IsBack(c)' <=> IsBack(c)
  PROVE  UNCHANGED PoolVars
<1>1. \A c \in Calls : At(c)' = At(c)
  BY DEF At, IsOver
<1>2. \A c \in Calls : Result(c)' = Result(c)
  BY <1>1 DEF Result, Kind
<1>3. \A c \in Calls : Told(c)' = Told(c)
  BY DEF Told, Error
<1>4. \A c \in Calls : Object(c)' = Object(c)
  BY DEF Object
<1>5. \A c \in Calls : Method(c)' = Method(c)
  BY <1>1, <1>4 DEF Method, MethodOf
<1>6. \A o \in Operations : o # Connected => o \in Calls
  BY DEF Operations
<1>7. UNCHANGED <<Ats, Results, Tolds>>
  BY <1>1, <1>2, <1>3, <1>6 DEF Ats, Results, Tolds
<1>8. UNCHANGED <<Objects, Methods, Counts>>
  BY <1>4, <1>5, <1>6 DEF Objects, Methods, Counts
<1> QED  BY <1>7, <1>8 DEF PoolVars

\* A call that has not ended is told nothing and nothing of it was discarded.
LEMMA Underway ==
  ASSUME IInv, NEW c \in Calls, task[c] \in {"waiting", "ending", "cancelled"},
         handle[c] # "released"
  PROVE  /\ At(c) = IF IsBack(c) THEN "back" ELSE "called"
         /\ Told(c) = IF task[c] = "cancelled" THEN "CancelledError" ELSE "nothing"
         /\ Method(c) = MethodOf(c)
<1>1. ~IsOver(c) /\ task[c] # "idle"
  BY DEF IsOver
<1>2. At(c) = IF IsBack(c) THEN "back" ELSE "called"
  BY <1>1 DEF At
<1>3. Told(c) = IF task[c] = "cancelled" THEN "CancelledError" ELSE "nothing"
  BY DEF Told
<1> QED  BY <1>2, <1>3 DEF Method

\* The methods these calls stand for are among Pool's.
LEMMA AmongMethods ==
  ASSUME NEW c \in Calls
  PROVE  MethodOf(c) \in OfPool!Methods /\ MethodOf(c) # OfPool!Connect
<1>1. CASE c \in Blocking /\ c \in Makers
  <2>1. (c \in Discarding) = TRUE /\ (c \notin Blocking \cup Makers) = FALSE
    BY <1>1, OperationsAssumption, CallsAssumption
  <2>2. MethodOf(c) = [how |-> "blocking", does |-> "makes", discards |-> TRUE,
                       early |-> FALSE, absent |-> "none"]
    BY <1>1, <2>1 DEF MethodOf
  <2>3. MethodOf(c) = OfPool!OpenStream
    BY <2>2 DEF OfPool!OpenStream, OfPool!Method
  <2>4. MethodOf(c) # OfPool!Connect
    BY <2>2 DEF OfPool!Connect, OfPool!Method
  <2> QED  BY <2>3, <2>4 DEF OfPool!Methods
<1>2. CASE c \in Blocking /\ c \notin Makers
  <2>1. (c \in Discarding) = FALSE /\ (c \notin Blocking \cup Makers) = FALSE
    BY <1>2, OperationsAssumption, CallsAssumption
  <2>2. MethodOf(c) = [how |-> "blocking", does |-> "asks", discards |-> FALSE,
                       early |-> FALSE, absent |-> "none"]
    BY <1>2, <2>1 DEF MethodOf
  <2>3. MethodOf(c) = OfPool!Call
    BY <2>2 DEF OfPool!Call, OfPool!Method
  <2>4. MethodOf(c) # OfPool!Connect
    BY <2>2 DEF OfPool!Connect, OfPool!Method
  <2> QED  BY <2>3, <2>4 DEF OfPool!Methods
<1>3. CASE c \notin Blocking /\ c \in Makers
  <2>1. (c \in Discarding) = FALSE /\ (c \notin Blocking \cup Makers) = FALSE
    BY <1>3, OperationsAssumption, CallsAssumption
  <2>2. MethodOf(c) = [how |-> "native", does |-> "makes", discards |-> FALSE,
                       early |-> FALSE, absent |-> "none"]
    BY <1>3, <2>1 DEF MethodOf
  <2>3. MethodOf(c) = OfPool!Subscribe
    BY <2>2 DEF OfPool!Subscribe, OfPool!Method
  <2>4. MethodOf(c) # OfPool!Connect
    BY <2>2 DEF OfPool!Connect, OfPool!Method
  <2> QED  BY <2>3, <2>4 DEF OfPool!Methods
<1>4. CASE c \notin Blocking /\ c \notin Makers
  <2>1. (c \in Discarding) = FALSE /\ (c \notin Blocking \cup Makers) = TRUE
    BY <1>4, OperationsAssumption, CallsAssumption
  <2>2. MethodOf(c) = [how |-> "native", does |-> "asks", discards |-> FALSE,
                       early |-> TRUE, absent |-> "none"]
    BY <1>4, <2>1 DEF MethodOf
  <2>3. MethodOf(c) = OfPool!Publish
    <3> DEFINE fields == {"how", "does", "discards", "early", "absent"}
               m == [how |-> "native", does |-> "asks", discards |-> FALSE,
                     early |-> FALSE, absent |-> "none"]
               n == [how |-> "native", does |-> "asks", discards |-> FALSE,
                     early |-> TRUE, absent |-> "none"]
    <3>1. OfPool!Publish = [m EXCEPT !.early = TRUE]
      BY DEF OfPool!Publish, OfPool!Method
    <3>2. m = [f \in fields |-> m[f]] /\ n = [f \in fields |-> n[f]]
      OBVIOUS
    <3>3. /\ m.how = n.how /\ m.does = n.does /\ m.discards = n.discards
          /\ n.early = TRUE /\ m.absent = n.absent
      OBVIOUS
    <3>4. MethodOf(c) = n
      BY <2>2
    <3> HIDE DEF m, n
    <3>5. [m EXCEPT !.early = TRUE] = [f \in fields |-> n[f]]
      BY <3>2, <3>3
    <3> QED  BY <3>1, <3>2, <3>4, <3>5
  <2>4. MethodOf(c) # OfPool!Connect
    BY <2>2 DEF OfPool!Connect, OfPool!Method
  <2> QED  BY <2>3, <2>4 DEF OfPool!Methods
<1> QED  BY <1>1, <1>2, <1>3, <1>4

LEMMA BeginIsPools ==
  ASSUME IInv, NEW c \in Calls, Begin(c)
  PROVE  OfPool!Begin(c, MethodOf(c))
<1>1. task[c] = "idle" /\ task'[c] = "waiting" /\ handle[c] = "none" /\ handle' = handle
  BY DEF Begin, handleVars, IInv, TypeOK, ThreadInv
<1>2. ~IsBack(c)'
  BY DEF Begin, IsBack, IInv, TypeOK
<1>3. At(c) = "idle" /\ Result(c) = "none" /\ Told(c) = "nothing" /\ Object(c) = "none"
  BY <1>1 DEF At, Result, Told, Object
<1>4. At(c)' = "called" /\ Result(c)' = "none" /\ Told(c)' = "nothing" /\ Object(c)' = "none"
  BY <1>1, <1>2 DEF At, IsOver, Result, Told, Object
<1>5. Method(c)' = MethodOf(c)
  BY <1>4 DEF Method, MethodOf
<1>6. OnlyOf(c)
  BY DEF OnlyOf, Begin, handleVars, IInv, TypeOK
<1>7. /\ Ats' = [Ats EXCEPT ![c] = "called"]
      /\ Results' = [Results EXCEPT ![c] = "none"]
      /\ Methods' = [Methods EXCEPT ![c] = MethodOf(c)]
  BY <1>4, <1>5, <1>6, OneMoves
<1>8. Told(c)' = Told(c) /\ Object(c)' = Object(c)
  BY <1>3, <1>4
<1>9. Tolds' = Tolds /\ Objects' = Objects
  BY <1>6, <1>8, OneStays
<1>10. Counts' = Counts
  BY <1>1, <1>6, OneStays
<1>11. MethodOf(c).how # "sync"
  BY DEF MethodOf
<1> QED
  BY <1>3, <1>7, <1>8, <1>9, <1>10, <1>11, OpOf, AmongMethods
  DEF OfPool!Begin, OfPool!MayBegin, OfPool!Live, OfPool!Moves,
      OfPool!objectVars, OfPool!closeVars

\* The kinds these calls end with, on a pool that is open.
LEMMA OpenFailures ==
  ASSUME NEW c \in Calls
  PROVE  OfPool!Failures(c) = {"failed", "cancelled"} /\ OfPool!Open
<1>1. c # Connected /\ OfPool!Open
  BY OpOf DEF OfPool!Open
<1> QED  BY <1>1 DEF OfPool!Failures

\* The native call of a run_blocking ends for Pool when work() has classified
\* its outcome, that of a run_native when it returns.
LEMMA EndIsPools ==
  ASSUME IInv, NEW c \in Calls, OnlyOf(c), task' = task,
         task[c] \in {"waiting", "ending", "cancelled"}, ~IsBack(c), IsBack(c)',
         handle[c] # "released", handle'[c] # "released",
         outcome'[c] \in Outcomes,
         handle'[c] = "live" <=> outcome'[c] = "result" /\ c \in Makers
  PROVE  OfPool!NativeEnds(c)
<1> DEFINE how == Kind(c)'
<1>1. /\ At(c) = "called" /\ At(c)' = "back" /\ Result(c)' = how
      /\ Method(c) = MethodOf(c)
  BY Underway DEF At, IsOver, Result
<1>2. Told(c)' = Told(c)
  BY DEF Told, IInv, TypeOK
<1>3. Method(c)' = Method(c)
  BY <1>1 DEF Method, MethodOf
<1>4. how \in {"ok", "failed", "cancelled"} /\ (how = "ok" <=> outcome'[c] = "result")
  BY DEF Kind
<1>5. /\ Object(c) = "none"
      /\ Object(c)' = IF how = "ok" /\ c \in Makers THEN "live" ELSE "none"
  BY <1>4 DEF Object
<1>6. Ats' = [Ats EXCEPT ![c] = "back"] /\ Results' = [Results EXCEPT ![c] = how]
  BY <1>1, OneMoves
<1>7. Tolds' = Tolds /\ Methods' = Methods /\ Counts' = Counts
  BY <1>2, <1>3, OneStays
<1>8. Methods[c].does = IF c \in Makers THEN "makes" ELSE "asks"
  BY <1>1, OpOf DEF MethodOf
<1>9. IF how # "ok" \/ Methods[c].does \notin {"makes", "shares", "unshares"}
      THEN UNCHANGED Objects ELSE Objects' = [Objects EXCEPT ![c] = "live"]
  BY <1>5, <1>8, OneMoves, OneStays
<1>10. how \in {"ok", "empty", "drained"} \cup OfPool!Failures(c) /\ OfPool!Open
  BY <1>4, OpenFailures
<1> HIDE DEF how
<1>11. Ats[c] = "called"
  BY <1>1, OpOf
<1> QED
  BY <1>4, <1>6, <1>7, <1>8, <1>9, <1>10, <1>11
  DEF OfPool!NativeEnds, OfPool!Moves, OfPool!closeVars

LEMMA NativeReturnIsPools ==
  ASSUME IInv, NEW c \in Calls, NEW o \in Outcomes, NativeReturn(c, o)
  PROVE  OfPool!NativeEnds(c) \/ UNCHANGED PoolVars
<1>1. /\ task[c] \in {"waiting", "ending", "cancelled"}
      /\ thread[c] = "calling" /\ handle[c] = "none" /\ outcome[c] = "none"
  BY DEF IInv, TypeOK, ThreadInv, CallbackInv, NativeReturn, Ended
<1>2. OnlyOf(c) /\ task' = task
  BY DEF OnlyOf, NativeReturn, taskVars, IInv, TypeOK
<1>3. /\ outcome'[c] = o
      /\ handle'[c] = IF o = "result" /\ c \in Makers THEN "live" ELSE "none"
  BY <1>1 DEF NativeReturn, IInv, TypeOK
<1>4. ~IsBack(c)
  BY <1>1 DEF IsBack
<1>5. CASE c \notin Blocking
  <2>1. IsBack(c)'
    BY <1>5 DEF NativeReturn, IsBack, IInv, TypeOK
  <2> QED  BY <1>1, <1>2, <1>3, <1>4, <2>1, EndIsPools
<1>6. CASE c \in Blocking
  <2>1. ~IsBack(c)'
    BY <1>6 DEF NativeReturn, IsBack, IInv, TypeOK
  <2>2. At(c) = "called" /\ At(c)' = "called"
    BY <1>1, <1>2, <1>3, <1>4, <2>1 DEF At, IsOver
  <2>3. Result(c)' = Result(c) /\ Object(c)' = Object(c)
    BY <1>1, <1>3, <1>4, <2>1, <2>2 DEF Result, Object
  <2>4. Told(c)' = Told(c)
    BY <1>1, <1>2 DEF Told
  <2>5. Method(c)' = Method(c)
    BY <2>2 DEF Method, MethodOf
  <2> QED  BY <1>1, <1>2, <1>3, <2>2, <2>3, <2>4, <2>5, OneStays DEF PoolVars
<1> QED  BY <1>5, <1>6

LEMMA ClassifyIsPools ==
  ASSUME IInv, NEW c \in Calls, Classify(c) PROVE OfPool!NativeEnds(c)
<1>1. /\ task[c] \in {"waiting", "ending", "cancelled"}
      /\ thread[c] = "returned" /\ handle[c] # "released"
  BY DEF IInv, TypeOK, ThreadInv, CallbackInv, DiscardInv, Classify, Ended
<1>2. OnlyOf(c) /\ task' = task /\ handle' = handle
  BY DEF OnlyOf, Classify, taskVars, handleVars, IInv, TypeOK
<1>3. ~IsBack(c) /\ IsBack(c)'
  BY <1>1 DEF Classify, IsBack, IInv, TypeOK
<1>4. outcome'[c] \in Outcomes /\ (outcome'[c] = "result" <=> outcome[c] = "result")
  BY <1>1 DEF Classify, IInv, TypeOK, ThreadInv, Outcomes
<1>5. handle'[c] = "live" <=> outcome'[c] = "result" /\ c \in Makers
  BY <1>1, <1>2, <1>4 DEF IInv, TypeOK, ThreadInv
<1> QED  BY <1>1, <1>2, <1>3, <1>4, <1>5, EndIsPools

\* A task is cancelled when it leaves run_native or _end_the_call.
LEMMA CancelIsPools ==
  ASSUME IInv, NEW c \in Calls, task[c] \in {"waiting", "ending"},
         task' = [task EXCEPT ![c] = "cancelled"], UNCHANGED <<thread, outcome, handle>>
  PROVE  OfPool!Cancel(c)
<1>1. handle[c] # "released"
  BY DEF IInv, DiscardInv
<1>2. OnlyOf(c) /\ task'[c] = "cancelled" /\ (IsBack(c)' <=> IsBack(c))
  BY DEF OnlyOf, IsBack, IInv, TypeOK
<1>3. At(c) \in {"called", "back"} /\ Told(c) = "nothing"
  BY <1>1, Underway
<1>4. Told(c)' = "CancelledError"
  BY <1>2 DEF Told
<1>5. At(c)' = At(c)
  BY <1>1, <1>2 DEF At, IsOver
<1>6. Result(c)' = Result(c) /\ Object(c)' = Object(c)
  BY <1>2, <1>5 DEF Result, Kind, Object
<1>7. Method(c)' = Method(c)
  BY <1>5, <1>6 DEF Method, MethodOf
<1>8. Tolds' = [Tolds EXCEPT ![c] = "CancelledError"]
  BY <1>2, <1>4, OneMoves
<1>9. Ats' = Ats /\ Results' = Results /\ Objects' = Objects /\ Methods' = Methods /\ Counts' = Counts
  BY <1>2, <1>5, <1>6, <1>7, OneStays
<1> QED
  BY <1>3, <1>8, <1>9, OpOf
  DEF OfPool!Cancel, OfPool!Tell, OfPool!objectVars, OfPool!closeVars

LEMMA WakeCancelledIsPools ==
  ASSUME IInv, NEW c \in Calls, WakeCancelled(c)
  PROVE  OfPool!Cancel(c) \/ UNCHANGED PoolVars
<1>1. task[c] = "waiting" /\ UNCHANGED <<thread, outcome, handle>>
  BY DEF WakeCancelled, Runs, IInv, CallbackInv, threadVars, handleVars
<1>2. CASE c \notin Blocking
  BY <1>1, <1>2, CancelIsPools DEF WakeCancelled
<1>3. CASE c \in Blocking
  <2>1. task' = [task EXCEPT ![c] = "ending"]
    BY <1>3 DEF WakeCancelled
  <2>2. OnlyOf(c) /\ task'[c] = "ending" /\ (IsBack(c)' <=> IsBack(c))
    BY <1>1, <2>1 DEF OnlyOf, IsBack, IInv, TypeOK
  <2>3. At(c)' = At(c) /\ Told(c)' = Told(c)
    BY <1>1, <2>2 DEF At, IsOver, Told
  <2>4. Result(c)' = Result(c) /\ Object(c)' = Object(c)
    BY <1>1, <2>2, <2>3 DEF Result, Kind, Object
  <2>5. Method(c)' = Method(c)
    BY <2>3, <2>4 DEF Method, MethodOf
  <2> QED  BY <1>1, <2>2, <2>3, <2>4, <2>5, OneStays DEF PoolVars
<1> QED  BY <1>2, <1>3

LEMMA EndCallIsPools ==
  ASSUME IInv, NEW c \in Calls, EndCall(c) PROVE OfPool!Cancel(c)
<1>1. task[c] = "ending"
  BY DEF EndCall, IInv, LoopInv
<1> QED  BY <1>1, CancelIsPools DEF EndCall, handleVars

\* What a call of these kinds tells, in Pool's words.
LEMMA WhatIsTold ==
  ASSUME NEW c \in Calls
  PROVE  /\ OfPool!Tells(MethodOf(c), "ok") = "value"
         /\ OfPool!Tells(MethodOf(c), "failed") = "MaculaError"
         /\ c \notin Blocking => OfPool!Tells(MethodOf(c), "cancelled") = "NativeCancelled"
<1>1. MethodOf(c).absent = "none" /\ (c \notin Blocking => MethodOf(c).how = "native")
  BY DEF MethodOf
<1>2. /\ OfPool!native_error("failed") = "MaculaError"
      /\ OfPool!native_error("cancelled") = "NativeCancelled"
  BY DEF OfPool!native_error, OfPool!KINDS, OfPool!Carrying
<1>3. ~OfPool!IsA("MaculaError", "none") /\ ~OfPool!IsA("NativeCancelled", "none")
  BY DEF OfPool!IsA, OfPool!Bases
<1>4. "ok" \notin OfPool!Kinds /\ "failed" \in OfPool!Kinds /\ "cancelled" \in OfPool!Kinds
  BY DEF OfPool!Kinds, OfPool!KINDS, OfPool!Carrying
<1>5. OfPool!Tells(MethodOf(c), "ok") = "value"
  BY <1>4 DEF OfPool!Tells
<1>6. OfPool!Tells(MethodOf(c), "failed") = "MaculaError"
  BY <1>1, <1>2, <1>3, <1>4 DEF OfPool!Tells, OfPool!Raised
<1>7. c \notin Blocking => OfPool!Tells(MethodOf(c), "cancelled") = "NativeCancelled"
  BY <1>1, <1>2, <1>3, <1>4 DEF OfPool!Tells, OfPool!Raised
<1> QED  BY <1>5, <1>6, <1>7

\* A task that was not cancelled is told what its native call ended with.
LEMMA WakeWithOutcomeIsPools ==
  ASSUME IInv, NEW c \in Calls, WakeWithOutcome(c) PROVE OfPool!Lands(c)
<1>1. task[c] = "waiting" /\ thread[c] = "ended" /\ ~asked[c]
  BY DEF WakeWithOutcome, Runs, ThrowsCancelled, IInv, TypeOK, CallbackInv
<1>2. /\ outcome[c] \in Outcomes /\ handle[c] # "released"
      /\ ~(outcome[c] = "native_cancelled" /\ c \in Blocking)
      /\ handle[c] = "live" <=> outcome[c] = "result" /\ c \in Makers
  BY <1>1 DEF IInv, TypeOK, ThreadInv, CancelInv, DiscardInv
<1>3. UNCHANGED <<thread, outcome, handle>> /\ task' = [task EXCEPT ![c] = Seen(c)]
  BY DEF WakeWithOutcome, threadVars, handleVars
<1>4. task'[c] = IF outcome[c] = "result" THEN "returned" ELSE "raised"
  BY <1>2, <1>3 DEF Seen, IInv, TypeOK
<1>5. OnlyOf(c)
  BY <1>3 DEF OnlyOf, IInv, TypeOK
<1>6. IsBack(c) /\ IsBack(c)'
  BY <1>1, <1>3 DEF IsBack
<1>7. At(c) = "back" /\ Told(c) = "nothing" /\ Method(c) = MethodOf(c) /\ Result(c) = Kind(c)
  BY <1>1, <1>2, <1>6, Underway DEF Result
<1>8. At(c)' = "ended" /\ Result(c)' = "none"
  BY <1>4 DEF At, IsOver, Result
<1>9. Object(c)' = Object(c) /\ (Object(c) = "none" <=> handle[c] = "none")
  BY <1>2, <1>3, <1>6 DEF Object, IInv, TypeOK
<1>10. Method(c)' = IF Object(c) = "none" THEN NoMethod ELSE MethodOf(c)
  BY <1>8, <1>9 DEF Method, MethodOf
<1>11. Told(c)' = OfPool!Tells(MethodOf(c), Kind(c))
  <2>1. CASE outcome[c] = "result"
    BY <1>4, <2>1, WhatIsTold DEF Told, Kind
  <2>2. CASE outcome[c] = "error"
    BY <1>3, <1>4, <2>2, WhatIsTold DEF Told, Error, Kind
  <2>3. CASE outcome[c] = "native_cancelled"
    BY <1>2, <1>3, <1>4, <2>3, WhatIsTold DEF Told, Error, Kind
  <2> QED  BY <1>2, <2>1, <2>2, <2>3 DEF Outcomes
<1>12. /\ Ats' = [Ats EXCEPT ![c] = "ended"] /\ Results' = [Results EXCEPT ![c] = "none"]
       /\ Tolds' = [Tolds EXCEPT ![c] = OfPool!Tells(Methods[c], Results[c])]
  BY <1>5, <1>7, <1>8, <1>11, OneMoves, OpOf
<1>13. Objects' = Objects /\ Counts' = Counts
  BY <1>3, <1>5, <1>9, OneStays
<1>14. Methods' = IF Objects[c] = "none" THEN [Methods EXCEPT ![c] = OfPool!Idle] ELSE Methods
  <2>1. OfPool!Idle = NoMethod
    BY DEF OfPool!Idle, OfPool!Method, NoMethod
  <2> QED  BY <1>5, <1>7, <1>10, <2>1, OneMoves, OneStays, OpOf
<1>15. Results[c] # "drained" /\ Ats[c] = "back" /\ Tolds[c] = "nothing" /\ c # Connected
  BY <1>7, OpOf DEF Kind
<1> QED
  BY <1>12, <1>13, <1>14, <1>15
  DEF OfPool!Lands, OfPool!Tell, OfPool!Moves, OfPool!Over, OfPool!objectVars

\* What a cancelled call made is released by its discard, and the rest is over.
LEMMA DiscardIsPools ==
  ASSUME IInv, NEW c \in Calls, Discard(c) PROVE OfPool!Discards(c)
<1>1. task[c] = "cancelled" /\ handle[c] = "live" /\ thread[c] = "ended" /\ c \in Discarding
  BY DEF Discard, IInv, DiscardInv, CallbackInv
<1>2. outcome[c] = "result" /\ IsBack(c)
  BY <1>1 DEF IInv, ThreadInv, IsBack
<1>3. UNCHANGED <<task, thread, outcome>> /\ handle' = [handle EXCEPT ![c] = "released"]
  BY DEF Discard, taskVars, threadVars
<1>4. OnlyOf(c) /\ handle'[c] = "released"
  BY <1>3 DEF OnlyOf, IInv, TypeOK
<1>5. /\ At(c) = "back" /\ Told(c) = "CancelledError" /\ Method(c) = MethodOf(c)
      /\ Result(c) = "ok" /\ Object(c) = "live"
  BY <1>1, <1>2, Underway DEF Result, Kind, Object
<1>6. At(c)' = "ended" /\ Result(c)' = "none" /\ Object(c)' = "ended"
  BY <1>1, <1>3, <1>4 DEF At, IsOver, Result, Object
<1>7. Told(c)' = Told(c)
  BY <1>1, <1>3 DEF Told
<1>8. Method(c)' = Method(c)
  BY <1>5, <1>6 DEF Method, MethodOf
<1>9. /\ Ats' = [Ats EXCEPT ![c] = "ended"] /\ Results' = [Results EXCEPT ![c] = "none"]
      /\ Objects' = [Objects EXCEPT ![c] = "ended"] /\ Counts' = [Counts EXCEPT ![c] = 1]
  BY <1>4, <1>6, OneMoves
<1>10. Tolds' = Tolds /\ Methods' = Methods
  BY <1>4, <1>7, <1>8, OneStays
<1>11. Methods[c].discards
  <2>1. Methods[c] = MethodOf(c)
    BY <1>5, OpOf
  <2>2. MethodOf(c).discards = (c \in Discarding)
    BY DEF MethodOf
  <2> QED  BY <1>1, <2>1, <2>2
<1>12. Counts' = [Counts EXCEPT ![c] = @ + 1]
  <2>1. Counts[c] = 0
    BY <1>1, OpOf
  <2> QED  BY <1>9, <2>1
<1>13. /\ Ats[c] = "back" /\ Tolds[c] = "CancelledError" /\ Results[c] = "ok"
       /\ Objects[c] # "none" /\ c # Connected
  BY <1>5, OpOf
<1> QED
  BY <1>9, <1>10, <1>11, <1>12, <1>13
  DEF OfPool!Discards, OfPool!Moves, OfPool!Over, OfPool!Released, OfPool!Ends, OfPool!closeVars

\* The steps between them show Pool nothing.
LEMMA UnseenSteps ==
  ASSUME IInv, NEW c \in Calls,
         \/ ThreadNew(c) \/ ThreadCheck(c) \/ FreeToken(c) \/ Post(c)
         \/ Cancel(c) \/ Settle(c) \/ InnerDone(c) \/ HandOver(c)
  PROVE  UNCHANGED PoolVars
<1>1. UNCHANGED <<task, outcome, handle>>
  BY DEF ThreadNew, ThreadCheck, FreeToken, Post, Cancel, Settle, InnerDone, HandOver,
     taskVars, threadVars, handleVars
<1>2. \A d \in Calls : IsBack(d)' <=> IsBack(d)
  BY DEF ThreadNew, ThreadCheck, FreeToken, Post, Cancel, Settle, InnerDone, HandOver,
     threadVars, IsBack, IInv, TypeOK
<1> QED  BY <1>1, <1>2, QuietSteps

LEMMA StepIsPools ==
  IInv /\ [Next]_vars => [OfPool!Next]_PoolVars
<1> SUFFICES ASSUME IInv, [Next]_vars PROVE OfPool!Next \/ UNCHANGED PoolVars
  OBVIOUS
<1>1. ASSUME NEW c \in Calls,
             \/ OfPool!Begin(c, MethodOf(c)) \/ OfPool!NativeEnds(c) \/ OfPool!Lands(c)
             \/ OfPool!Discards(c) \/ OfPool!Cancel(c)
      PROVE  OfPool!Next
  BY <1>1, OpOf, AmongMethods DEF OfPool!Next, OfPool!LoopStep
<1>2. ASSUME NEW c \in Calls, Begin(c) PROVE OfPool!Next
  BY <1>1, <1>2, BeginIsPools
<1>3. ASSUME NEW c \in Calls, NEW o \in Outcomes, NativeReturn(c, o)
      PROVE  OfPool!Next \/ UNCHANGED PoolVars
  BY <1>1, <1>3, NativeReturnIsPools
<1>4. ASSUME NEW c \in Calls, ThreadStep(c) PROVE OfPool!Next \/ UNCHANGED PoolVars
  BY <1>1, <1>4, ClassifyIsPools, UnseenSteps DEF ThreadStep
<1>5. ASSUME NEW c \in Calls, LoopStep(c) PROVE OfPool!Next \/ UNCHANGED PoolVars
  BY <1>1, <1>5, WakeWithOutcomeIsPools, WakeCancelledIsPools, EndCallIsPools, UnseenSteps
  DEF LoopStep
<1>6. ASSUME NEW c \in Calls, Cancel(c) PROVE UNCHANGED PoolVars
  BY <1>6, UnseenSteps
<1>7. ASSUME NEW c \in Calls, Discard(c) PROVE OfPool!Next
  BY <1>1, <1>7, DiscardIsPools
<1>8. ASSUME LoopClose \/ UNCHANGED vars PROVE UNCHANGED PoolVars
  <2>1. UNCHANGED <<task, thread, outcome, handle>>
    BY <1>8 DEF LoopClose, vars, taskVars, threadVars, handleVars
  <2> QED  BY <2>1, QuietSteps DEF IsBack
<1> QED
  BY <1>2, <1>3, <1>4, <1>5, <1>6, <1>7, <1>8 DEF Next

\* Every step of the awaits of any calls is one Pool takes an operation to make,
\* or one it does not see: what holds of Pool's operations holds of these.
THEOREM AwaitsArePools == Spec => AwaitsAsPoolTakesThem
<1>1. UNCHANGED PoolVars => UNCHANGED OfPool!vars
  BY DEF PoolVars, OfPool!vars, OfPool!opVars, OfPool!objectVars, OfPool!closeVars
<1>2. IInv /\ [Next]_vars => [OfPool!Next]_(OfPool!vars)
  BY <1>1, StepIsPools
<1> QED  BY <1>2, Inductive, PTL DEF Spec, AwaitsAsPoolTakesThem
=============================================================================
