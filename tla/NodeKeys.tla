------------------------------ MODULE NodeKeys ------------------------------
(***************************************************************************)
(* Node keys: the class NodeKey of src/macula_py/key.py, the functions of  *)
(* ucan.py, device_request.py and ownership_proof.py that use no key, and  *)
(* the use Pool.connect makes of one.  An operation asks for the library   *)
(* first (NativeLibrary), then for the handle, and then makes its native   *)
(* call, which may hand out a string or bytes to be freed.                 *)
(*                                                                         *)
(* A key's native side is freed by free(), or by the finalizer when the    *)
(* object is collected, which CPython may do on any thread between two of  *)
(* its steps.  A thread here carries out one operation at a time: of a     *)
(* coroutine, its part on the loop and then its native call.  The loop may *)
(* close, as asyncio.run closes it, once no coroutine waits on it any more: *)
(* what a thread brings after that nobody hears of, the discard neither.   *)
(***************************************************************************)
EXTENDS NativeLibrary

CONSTANTS Keys, NoKey

ASSUME KeysAssumption == NoKey \notin Keys

VARIABLES
  held,     \* the keys the application refers to
  handle,   \* NodeKey._handle is not None
  armed,    \* NodeKey._finalizer has not run
  made,     \* the native side was made
  frees,    \* how often macula_key_free was called with it
  freed,    \* the keys on which free() was called
  op,       \* what each thread is doing, and with which key
  step,     \* how far it has come
  owed,     \* the thread was given a string or bytes it has not freed
  sweeping, \* the key whose finalizer runs on top of what the thread does
  loopOpen, \* the event loop the coroutines run on has not closed
  dropped   \* the keys that were made when it had

keyVars == <<held, handle, armed, made, frees, freed>>
opVars == <<op, step, owed, sweeping>>
loopVars == <<loopOpen, dropped>>
vars == <<libraryVars, keyVars, opVars, loopVars>>

-----------------------------------------------------------------------------
(* The operations: what the native call makes or hands out, whether it may *)
(* be refused for its arguments once it has the handle, and whether it is  *)
(* awaited, so that it can be cancelled.  Arguments refused before the     *)
(* library is asked for change nothing.                                    *)

Operation(gives, refuses, awaited) ==
  [gives |-> gives, refuses |-> refuses, awaited |-> awaited]

Generate     == Operation("key", FALSE, TRUE)
Load         == Operation("key", TRUE, FALSE)
LoadOrCreate == Operation("key", FALSE, TRUE)

Save         == Operation("nothing", TRUE, FALSE)
NodeId       == Operation("nothing", FALSE, FALSE)
PublicKey    == Operation("memory", FALSE, FALSE)
Profile      == Operation("memory", FALSE, FALSE)
Sign         == Operation("memory", TRUE, FALSE)
Ucan         == Operation("memory", TRUE, FALSE)
DeviceRequestProof == Operation("memory", TRUE, FALSE)
OwnershipProof     == Operation("memory", TRUE, FALSE)
Connect      == Operation("nothing", FALSE, TRUE)

Verify       == Operation("nothing", TRUE, FALSE)
ProofId      == Operation("memory", TRUE, FALSE)
DeviceRequestMessage  == Operation("memory", TRUE, FALSE)
OwnershipProofMessage == Operation("memory", TRUE, FALSE)

Makers  == {Generate, Load, LoadOrCreate}
Users   == {Save, NodeId, PublicKey, Profile, Sign, Ucan, DeviceRequestProof,
            OwnershipProof, Connect}
Keyless == {Verify, ProofId, DeviceRequestMessage, OwnershipProofMessage}

\* free() makes no call of its own: it runs the finalizer.
Freeing == Operation("nothing", FALSE, FALSE)

NoOp == [key |-> NoKey, kind |-> Freeing, wanted |-> FALSE]

Doing == [key : Keys \cup {NoKey}, wanted : BOOLEAN,
          kind : Makers \cup Users \cup Keyless \cup {Freeing}]

TypeOK ==
  /\ LibraryTypeOK
  /\ held \subseteq Keys /\ freed \subseteq Keys
  /\ handle \in [Keys -> BOOLEAN] /\ armed \in [Keys -> BOOLEAN]
  /\ made \in [Keys -> BOOLEAN] /\ frees \in [Keys -> Nat]
  /\ op \in [Threads -> Doing]
  /\ step \in [Threads -> {"idle", "getting", "ready", "taking", "made",
                           "invalid", "freeing"}]
  /\ owed \in [Threads -> BOOLEAN]
  /\ sweeping \in [Threads -> Keys \cup {NoKey}]
  /\ loopOpen \in BOOLEAN /\ dropped \subseteq Keys
  /\ \A t \in Threads : at[t] = "out" <=> step[t] # "getting"

Init ==
  /\ LibraryInit
  /\ held = {} /\ freed = {}
  /\ handle = [k \in Keys |-> FALSE] /\ armed = [k \in Keys |-> FALSE]
  /\ made = [k \in Keys |-> FALSE] /\ frees = [k \in Keys |-> 0]
  /\ op = [t \in Threads |-> NoOp]
  /\ step = [t \in Threads |-> "idle"]
  /\ owed = [t \in Threads |-> FALSE]
  /\ sweeping = [t \in Threads |-> NoKey]
  /\ loopOpen = TRUE /\ dropped = {}

-----------------------------------------------------------------------------
(* An operation on a thread that no finalizer interrupts.                  *)

At(t, where) == step[t] = where /\ sweeping[t] = NoKey

Goes(t, where) == step' = [step EXCEPT ![t] = where] /\ UNCHANGED op

Ends(t) == /\ step' = [step EXCEPT ![t] = "idle"]
           /\ op' = [op EXCEPT ![t] = NoOp]

MayBegin(o, k) ==
  \/ o \in Users /\ k \in held
  \/ o \in Keyless /\ k = NoKey
  \/ o \in Makers /\ k \in Keys /\ ~made[k] /\ \A t \in Threads : op[t].key # k

Begin(t, o, k) ==
  /\ At(t, "idle") /\ MayBegin(o, k) /\ (o.awaited => loopOpen)
  /\ op' = [op EXCEPT ![t] = [key |-> k, kind |-> o, wanted |-> TRUE]]
  /\ step' = [step EXCEPT ![t] = "getting"]
  /\ Ask(t)
  /\ UNCHANGED <<keyVars, owed, sweeping, loopVars>>

GetsLibrary(t) ==
  /\ At(t, "getting") /\ LibraryStep(t)
  /\ UNCHANGED <<keyVars, opVars, loopVars>>

\* _live(): the handle, or ClosedError.
Live(t) == op[t].key \in Keys /\ op[t].kind.gives # "key" => handle[op[t].key]

\* With the library in hand: the handle is read, then the arguments converted.
Prepares(t) ==
  /\ At(t, "getting") /\ at[t] \in {"has", "refused"}
  /\ at' = [at EXCEPT ![t] = "out"]
  /\ \/ at[t] = "has" /\ Live(t) /\ Goes(t, "ready")
     \/ (at[t] = "refused" \/ ~Live(t) \/ op[t].kind.refuses) /\ Ends(t)
  /\ UNCHANGED <<env, lock, library, path, handed, keyVars, owed, sweeping, loopVars>>

IsFreed(k) == k \in Keys /\ frees[k] > 0

\* invoke(): the native side no longer holds a handle that was freed, and may
\* fail for reasons of its own; the error's text is freed where it is read.
Calls(t) ==
  /\ At(t, "ready")
  /\ LET k == op[t].key
         gives == op[t].kind.gives
     IN  \/ IsFreed(k) /\ Goes(t, "invalid") /\ UNCHANGED <<made, owed>>
         \/ /\ ~IsFreed(k) /\ gives = "key"
            /\ made' = [made EXCEPT ![k] = TRUE]
            /\ Goes(t, "made") /\ UNCHANGED owed
         \/ /\ ~IsFreed(k) /\ gives = "memory"
            /\ owed' = [owed EXCEPT ![t] = TRUE]
            /\ Goes(t, "taking") /\ UNCHANGED made
         \/ ~IsFreed(k) /\ Ends(t) /\ UNCHANGED <<made, owed>>
  /\ UNCHANGED <<libraryVars, held, handle, armed, frees, freed, sweeping, loopVars>>

\* InvalidHandleError reaches whoever still waits for the operation.
SaysInvalid(t) ==
  /\ At(t, "invalid") /\ Ends(t)
  /\ UNCHANGED <<libraryVars, keyVars, owed, sweeping, loopVars>>

\* Slip: the string is freed after it is decoded, and not when that fails.
FreesIfDecoded(t) == owed' \in {owed, [owed EXCEPT ![t] = FALSE]}

\* take_string and take_bytes free in a finally.
FreesMemory(t) == owed' = [owed EXCEPT ![t] = FALSE]

Takes(t) ==
  /\ At(t, "taking") /\ Ends(t)
  /\ FreesMemory(t)
  /\ UNCHANGED <<libraryVars, keyVars, sweeping, loopVars>>

\* macula_key_free.
FreesKey(k) == frees' = [frees EXCEPT ![k] = @ + 1]

\* Slip: run_native in the place of run_blocking, which takes no discard.
LosesKey(k) == UNCHANGED frees

\* The discard of a handle that is awaited no more.
DiscardsKey(k) == FreesKey(k)

\* NodeKey.__init__, on the handle its await returned; a handle nobody awaits
\* any more goes to the discard, or nowhere when the loop cannot be told.
Wraps(t) ==
  /\ At(t, "made") /\ Ends(t)
  /\ LET k == op[t].key
     IN  \/ /\ op[t].wanted
            /\ held' = held \cup {k}
            /\ handle' = [handle EXCEPT ![k] = TRUE]
            /\ armed' = [armed EXCEPT ![k] = TRUE]
            /\ UNCHANGED <<frees, dropped>>
         \/ /\ ~op[t].wanted /\ loopOpen
            /\ DiscardsKey(k)
            /\ UNCHANGED <<held, handle, armed, dropped>>
         \/ /\ ~op[t].wanted /\ ~loopOpen
            /\ dropped' = dropped \cup {k}
            /\ UNCHANGED <<held, handle, armed, frees>>
  /\ UNCHANGED <<libraryVars, made, freed, owed, sweeping, loopOpen>>

\* The awaiting task is cancelled: its frame is gone, the thread goes on.
Cancel(t) ==
  /\ step[t] \in {"ready", "made", "invalid"}
  /\ op[t].kind.awaited /\ op[t].wanted
  /\ op' = [op EXCEPT ![t].wanted = FALSE]
  /\ UNCHANGED <<libraryVars, keyVars, step, owed, sweeping, loopVars>>

\* asyncio.run cancels what still waits, sees it end, and closes the loop.
LoopCloses ==
  /\ loopOpen /\ \A t \in Threads : ~(op[t].kind.awaited /\ op[t].wanted)
  /\ loopOpen' = FALSE
  /\ UNCHANGED <<libraryVars, keyVars, opVars, dropped>>

-----------------------------------------------------------------------------
(* The end of a key.                                                       *)

\* Slip: the finalizer is run, and the handle stays.
KeepsHandle(k) == UNCHANGED handle

ForgetsHandle(k) == handle' = [handle EXCEPT ![k] = FALSE]

\* free() forgets the handle, and then runs the finalizer.
FreeBegins(t, k) ==
  /\ At(t, "idle") /\ k \in held
  /\ op' = [op EXCEPT ![t] = [key |-> k, kind |-> Freeing, wanted |-> TRUE]]
  /\ step' = [step EXCEPT ![t] = "freeing"]
  /\ ForgetsHandle(k)
  /\ freed' = freed \cup {k}
  /\ UNCHANGED <<libraryVars, held, armed, made, frees, owed, sweeping, loopVars>>

\* Slip: free() calls macula_key_free itself.
AlwaysCalls(k) == TRUE

\* weakref.finalize runs its function once.
StillArmed(k) == armed[k]

FreeEnds(t) ==
  /\ At(t, "freeing") /\ Ends(t)
  /\ LET k == op[t].key
     IN  /\ IF StillArmed(k) THEN FreesKey(k) ELSE UNCHANGED frees
         /\ armed' = [armed EXCEPT ![k] = FALSE]
  /\ UNCHANGED <<libraryVars, held, handle, made, freed, owed, sweeping, loopVars>>

Drop(k) ==
  /\ k \in held
  /\ held' = held \ {k}
  /\ UNCHANGED <<libraryVars, handle, armed, made, frees, freed, opVars, loopVars>>

\* Slip: a coroutine passes the handle on and lets go of the key.
OnlyCallsHold(t) == op[t].wanted /\ ~op[t].kind.awaited

\* The frame of a method holds its key; that of a coroutine until it is
\* cancelled, though its thread, which has the handle, goes on.
FrameHolds(t) == op[t].wanted

Referenced(k) == k \in held \/ \E t \in Threads : op[t].key = k /\ FrameHolds(t)

\* The object is collected on this thread, whatever that is doing.
Collect(t, k) ==
  /\ sweeping[t] = NoKey
  /\ armed[k] /\ ~Referenced(k)
  /\ sweeping' = [sweeping EXCEPT ![t] = k]
  /\ armed' = [armed EXCEPT ![k] = FALSE]
  /\ UNCHANGED <<libraryVars, held, handle, made, frees, freed, op, step, owed, loopVars>>

\* Slip: the finalizer calls native() when it runs.
WaitsForLock(t) == lock = NoThread

\* It calls what native() gave when the key was made.
FinalizerRuns(t) == TRUE

Sweep(t) ==
  /\ sweeping[t] # NoKey /\ FinalizerRuns(t)
  /\ FreesKey(sweeping[t])
  /\ sweeping' = [sweeping EXCEPT ![t] = NoKey]
  /\ UNCHANGED <<libraryVars, held, handle, armed, made, freed, op, step, owed, loopVars>>

-----------------------------------------------------------------------------

OpStep(t) == \/ Prepares(t) \/ Calls(t) \/ SaysInvalid(t)
             \/ Takes(t) \/ Wraps(t) \/ FreeEnds(t)

Next == \/ \E t \in Threads :
             \/ \E o \in Makers \cup Users \cup Keyless, k \in Keys \cup {NoKey} : Begin(t, o, k)
             \/ GetsLibrary(t) \/ OpStep(t) \/ Cancel(t) \/ Sweep(t)
             \/ \E k \in Keys : FreeBegins(t, k) \/ Collect(t, k)
        \/ \E k \in Keys : Drop(k)
        \/ LoopCloses
        \/ \E f \in Files \cup {Unset} : NameFile(f) /\ UNCHANGED <<keyVars, opVars, loopVars>>

Spec == Init /\ [][Next]_vars

\* Threads run, native calls on keys return, and an object nothing refers to is
\* collected, on some thread.
FairSpec ==
  /\ Spec
  /\ \A t \in Threads : /\ WF_vars(GetsLibrary(t)) /\ WF_vars(OpStep(t))
                        /\ WF_vars(Sweep(t))
  /\ \A k \in Keys : WF_vars(\E t \in Threads : Collect(t, k))

-----------------------------------------------------------------------------
(* Properties.                                                             *)

\* free(), called from any threads at any time, the collection of the key and
\* the discard of one nobody awaited free its native side once between them; and
\* an operation that is over has freed the memory it was given.
FreedExactlyOnce ==
  /\ \A k \in Keys : frees[k] <= 1
  /\ \A t \in Threads : step[t] = "idle" => ~owed[t]

\* An operation that begins on a freed key is told ClosedError, never left to use
\* a handle that is gone: whoever can still reach the key finds its handle cleared
\* before the native side is freed.  And no operation somebody waits for fails
\* with InvalidHandleError unless free() was called on its key: collecting never
\* takes a key from under it.
FreedMeansClosed ==
  /\ \A k \in Keys : Referenced(k) /\ handle[k] => frees[k] = 0
  /\ \A t \in Threads : step[t] = "invalid" /\ op[t].wanted => op[t].key \in freed

\* A native key that nobody refers to any more, held or in use, is freed in the
\* end: one the application let go of, and one whose making was cancelled, unless
\* the loop had closed when it was made, as BlockingCall shows (NoHandleLeaked).
NoKeyLeaked == \A k \in Keys :
  made[k] /\ ~Referenced(k) ~> frees[k] > 0 \/ Referenced(k) \/ k \in dropped
=============================================================================
