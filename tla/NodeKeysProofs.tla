--------------------------- MODULE NodeKeysProofs ---------------------------
(***************************************************************************)
(* Theorems about NodeKeys and the NativeLibrary it stands on, for any     *)
(* threads, keys and library files.                                        *)
(***************************************************************************)
EXTENDS NodeKeys, TLAPS

\* A library is kept only when it is fit, and is the only one handed out; a
\* thread that opens a file holds the lock, so that nothing was loaded since
\* it looked.
LibraryInv ==
  /\ LibraryTypeOK
  /\ OneFitLibrary
  /\ library # NoFile => Fit(library)
  /\ \A t \in Threads : at[t] = "opening" => library = NoFile /\ path[t] \in Copies

\* What a thread has come to says what it does and what it owes.
StepInv == \A t \in Threads :
  /\ step[t] = "idle" => op[t] = NoOp
  /\ step[t] = "made" => op[t].kind.gives = "key"
  /\ step[t] = "freeing" => /\ op[t].key \in freed /\ ~handle[op[t].key]
                            /\ op[t].kind.gives # "key"
  /\ owed[t] => step[t] = "taking"
  /\ at[t] = "out" <=> step[t] # "getting"

\* A key that is being made is known to its maker alone.
Untouched(k) == /\ k \notin held /\ k \notin freed /\ ~handle[k] /\ ~armed[k] /\ frees[k] = 0
                /\ \A t \in Threads : sweeping[t] # k

MakerInv ==
  /\ \A t \in Threads : op[t].kind.gives = "key" =>
       /\ op[t].key \in Keys /\ Untouched(op[t].key)
       /\ \A u \in Threads : u # t => op[u].key # op[t].key
       /\ made[op[t].key] <=> step[t] = "made"
       /\ step[t] \in {"getting", "ready", "made"}
  /\ \A k \in Keys : ~made[k] => Untouched(k)

\* The native side is with its finalizer, on its way through one, or freed.
OwnerInv == \A k \in Keys :
  /\ frees[k] \in {0, 1}
  /\ armed[k] => frees[k] = 0 /\ \A t \in Threads : sweeping[t] # k
  /\ \A t \in Threads : sweeping[t] = k =>
       frees[k] = 0 /\ \A u \in Threads : sweeping[u] = k => u = t

\* Until free() is called, nothing frees a key somebody refers to.
HeldInv ==
  /\ \A k \in Keys : Referenced(k) /\ handle[k] => armed[k]
  /\ \A k \in Keys : Referenced(k) /\ k \notin freed =>
       frees[k] = 0 /\ \A t \in Threads : sweeping[t] # k
  /\ \A k \in freed : ~handle[k]
  /\ \A t \in Threads : step[t] = "invalid" /\ op[t].wanted => op[t].key \in freed

IInv == TypeOK /\ LibraryInv /\ StepInv /\ MakerInv /\ OwnerInv /\ HeldInv

-----------------------------------------------------------------------------
(* The operators.                                                          *)

\* Which operations make a key.
LEMMA MakersMake ==
  /\ \A o \in Makers : o.gives = "key"
  /\ \A o \in Users \cup Keyless : o.gives # "key"
  /\ Freeing.gives # "key"
BY DEF Makers, Users, Keyless, Freeing, Operation, Generate, Load, LoadOrCreate, Save,
   NodeId, PublicKey, Profile, Sign, Ucan, DeviceRequestProof, OwnershipProof, Connect,
   Verify, ProofId, DeviceRequestMessage, OwnershipProofMessage

\* What a thread does, and what it does when it has nothing to do.
LEMMA DoingFacts ==
  /\ NoOp \in Doing /\ NoOp.kind.gives # "key" /\ NoOp.key = NoKey /\ ~NoOp.wanted
  /\ \A d \in Doing : /\ d.key \in Keys \cup {NoKey} /\ d.wanted \in BOOLEAN
                      /\ [d EXCEPT !.wanted = FALSE] \in Doing
BY MakersMake DEF NoOp, Doing

-----------------------------------------------------------------------------
(* The invariant is inductive: one lemma per kind of step.                 *)

\* What native() does to the lock, the library and its threads.
LEMMA LibraryStepKeeps ==
  ASSUME LibraryInv, NEW t \in Threads,
         Ask(t) \/ Enter(t) \/ Found(t) \/ LookUp(t) \/ Open(t)
  PROVE  LibraryInv'
<1> USE LibraryAssumption DEF LibraryInv, LibraryTypeOK, OneFitLibrary, Copies
<1>1. CASE Ask(t)
  BY <1>1 DEF Ask
<1>2. CASE Enter(t)
  BY <1>2 DEF Enter, MayEnter
<1>3. CASE Found(t)
  BY <1>3 DEF Found, Leave, Releases
<1>4. CASE LookUp(t)
  BY <1>4 DEF LookUp, Leave, Releases, LibraryPath
<1>5. CASE Open(t)
  BY <1>5 DEF Open, Leave, Releases, Publishes
<1> QED  BY <1>1, <1>2, <1>3, <1>4, <1>5

\* A thread on its way through native() is nowhere else.
LEMMA LibraryStepStays ==
  ASSUME LibraryInv, NEW t \in Threads, LibraryStep(t)
  PROVE  /\ at[t] # "out" /\ at'[t] # "out"
         /\ \A u \in Threads : u # t => at'[u] = at[u]
<1> USE DEF LibraryInv, LibraryTypeOK
<1>1. CASE Enter(t)
  BY <1>1 DEF Enter
<1>2. CASE Found(t)
  BY <1>2 DEF Found, Leave
<1>3. CASE LookUp(t)
  BY <1>3 DEF LookUp, Leave
<1>4. CASE Open(t)
  BY <1>4 DEF Open, Leave
<1> QED  BY <1>1, <1>2, <1>3, <1>4 DEF LibraryStep

\* The rest of a program leaves the library as it is.
LEMMA LibraryRests ==
  ASSUME LibraryInv, UNCHANGED libraryVars PROVE LibraryInv'
BY DEF LibraryInv, LibraryTypeOK, OneFitLibrary, libraryVars

\* A maker begins on a key nobody knows of.
LEMMA BeginKeeps ==
  ASSUME IInv, NEW t \in Threads,
         NEW o \in Makers \cup Users \cup Keyless, NEW k \in Keys \cup {NoKey}, Begin(t, o, k)
  PROVE  IInv'
<1> USE KeysAssumption, MakersMake, DoingFacts DEF Begin, At, MayBegin, Ask, libraryVars, keyVars, opVars, loopVars
<1>1. LibraryInv'
  BY LibraryStepKeeps DEF IInv
<1>2. StepInv'
  BY DEF IInv, TypeOK, LibraryTypeOK, StepInv
<1>3. TypeOK'
  BY <1>1, <1>2 DEF IInv, TypeOK, LibraryInv, StepInv, Doing
<1>4. MakerInv'
  BY DEF IInv, TypeOK, StepInv, MakerInv, Untouched
<1>5. OwnerInv'
  BY DEF IInv, TypeOK, StepInv, OwnerInv, MakerInv, Untouched
<1>6. HeldInv'
  BY DEF IInv, TypeOK, StepInv, OwnerInv, MakerInv, Untouched, HeldInv, Referenced, FrameHolds
<1> QED  BY <1>1, <1>2, <1>3, <1>4, <1>5, <1>6 DEF IInv

\* native() touches no key.
LEMMA GetsLibraryKeeps ==
  ASSUME IInv, NEW t \in Threads, GetsLibrary(t)
  PROVE  IInv'
<1> USE DEF GetsLibrary, keyVars, opVars, loopVars, At
<1>1. LibraryInv'
  BY LibraryStepKeeps DEF IInv, LibraryStep
<1>2. /\ at[t] # "out" /\ at'[t] # "out"
      /\ \A u \in Threads : u # t => at'[u] = at[u]
  BY LibraryStepStays DEF IInv
<1>3. StepInv'
  BY <1>2 DEF IInv, StepInv
<1>4. TypeOK'
  BY <1>1, <1>3 DEF IInv, TypeOK, LibraryInv, StepInv
<1>5. MakerInv' /\ OwnerInv' /\ HeldInv'
  BY DEF IInv, MakerInv, Untouched, OwnerInv, HeldInv, Referenced, FrameHolds
<1> QED  BY <1>1, <1>3, <1>4, <1>5 DEF IInv

\* A handle is read, or there is none.
LEMMA PreparesKeeps ==
  ASSUME IInv, NEW t \in Threads, Prepares(t)
  PROVE  IInv'
<1> USE KeysAssumption, MakersMake, DoingFacts DEF Prepares, At, Goes, Ends, libraryVars, keyVars, opVars, loopVars
<1>1. LibraryInv'
  BY DEF IInv, LibraryInv, LibraryTypeOK, OneFitLibrary
<1>2. StepInv'
  BY DEF IInv, TypeOK, LibraryTypeOK, StepInv
<1>3. TypeOK'
  BY <1>1, <1>2 DEF IInv, TypeOK, LibraryInv, StepInv
<1>4. MakerInv'
  BY DEF IInv, TypeOK, StepInv, MakerInv, Untouched
<1>5. OwnerInv'
  BY DEF IInv, TypeOK, StepInv, OwnerInv, MakerInv, Untouched
<1>6. HeldInv'
  BY DEF IInv, TypeOK, StepInv, OwnerInv, MakerInv, Untouched, HeldInv, Referenced, FrameHolds
<1> QED  BY <1>1, <1>2, <1>3, <1>4, <1>5, <1>6 DEF IInv

\* A handle that is gone although its key is in use was freed by free().
LEMMA CallsKeeps ==
  ASSUME IInv, NEW t \in Threads, Calls(t)
  PROVE  IInv'
<1> USE KeysAssumption, MakersMake, DoingFacts DEF Calls, At, Goes, Ends, IsFreed, libraryVars, keyVars, opVars, loopVars
<1>1. LibraryInv'
  BY LibraryRests DEF IInv
<1>2. StepInv'
  BY DEF IInv, TypeOK, StepInv
<1>3. TypeOK'
  <2>1. op' \in [Threads -> Doing]
    BY DEF IInv, TypeOK
  <2>2. made' \in [Keys -> BOOLEAN] /\ owed' \in [Threads -> BOOLEAN]
    BY DEF IInv, TypeOK
  <2>3. step' \in [Threads -> {"idle", "getting", "ready", "taking", "made",
                               "invalid", "freeing"}]
    BY DEF IInv, TypeOK
  <2> QED  BY <1>1, <1>2, <2>1, <2>2, <2>3 DEF IInv, TypeOK, LibraryInv, StepInv
<1>4. MakerInv'
  <2>1. /\ \A u \in Threads : op'[u] = op[u] \/ op'[u] = NoOp
        /\ \A u \in Threads \ {t} : step'[u] = step[u] /\ op'[u] = op[u]
        /\ \A k \in Keys : Untouched(k)' = Untouched(k)
    BY DEF IInv, TypeOK, Untouched
  <2>2. \A k \in Keys : k # op[t].key \/ op[t].kind.gives # "key" => made'[k] = made[k]
    BY DEF IInv, TypeOK
  <2>3. op'[t].kind.gives = "key" => made'[op[t].key] /\ step'[t] = "made"
    BY DEF IInv, TypeOK, StepInv, MakerInv, Untouched
  <2>4. \A k \in Keys : made[k] => made'[k]
    BY DEF IInv, TypeOK
  <2> QED  BY <2>1, <2>2, <2>3, <2>4 DEF IInv, TypeOK, StepInv, MakerInv
<1>5. OwnerInv'
  BY DEF IInv, TypeOK, StepInv, OwnerInv, MakerInv, Untouched
<1>6. HeldInv'
  <2>1. \A k \in Keys : Referenced(k)' => Referenced(k)
    BY DEF IInv, TypeOK, Referenced, FrameHolds
  <2>2. CASE step'[t] = "invalid"
    <3>1. op[t].wanted => op[t].key \in freed
      BY <2>2 DEF IInv, TypeOK, HeldInv, Referenced, FrameHolds
    <3> QED  BY <2>1, <2>2, <3>1 DEF IInv, TypeOK, HeldInv
  <2>3. CASE step'[t] # "invalid"
    BY <2>1, <2>3 DEF IInv, TypeOK, HeldInv
  <2> QED  BY <2>2, <2>3
<1> QED  BY <1>1, <1>2, <1>3, <1>4, <1>5, <1>6 DEF IInv

LEMMA SaysInvalidKeeps ==
  ASSUME IInv, NEW t \in Threads, SaysInvalid(t)
  PROVE  IInv'
<1> USE KeysAssumption, MakersMake, DoingFacts DEF SaysInvalid, At, Ends, libraryVars, keyVars, opVars, loopVars
<1>1. LibraryInv'
  BY LibraryRests DEF IInv
<1>2. StepInv'
  BY DEF IInv, TypeOK, StepInv
<1>3. TypeOK'
  BY <1>1, <1>2 DEF IInv, TypeOK, LibraryInv, StepInv
<1>4. MakerInv'
  BY DEF IInv, TypeOK, StepInv, MakerInv, Untouched
<1>5. OwnerInv'
  BY DEF IInv, TypeOK, StepInv, OwnerInv, MakerInv, Untouched
<1>6. HeldInv'
  BY DEF IInv, TypeOK, StepInv, OwnerInv, MakerInv, Untouched, HeldInv, Referenced, FrameHolds
<1> QED  BY <1>1, <1>2, <1>3, <1>4, <1>5, <1>6 DEF IInv

LEMMA TakesKeeps ==
  ASSUME IInv, NEW t \in Threads, Takes(t)
  PROVE  IInv'
<1> USE KeysAssumption, MakersMake, DoingFacts DEF Takes, At, Ends, FreesMemory, libraryVars, keyVars, opVars, loopVars
<1>1. LibraryInv'
  BY LibraryRests DEF IInv
<1>2. StepInv'
  BY DEF IInv, TypeOK, StepInv
<1>3. TypeOK'
  BY <1>1, <1>2 DEF IInv, TypeOK, LibraryInv, StepInv
<1>4. MakerInv'
  BY DEF IInv, TypeOK, StepInv, MakerInv, Untouched
<1>5. OwnerInv'
  BY DEF IInv, TypeOK, StepInv, OwnerInv, MakerInv, Untouched
<1>6. HeldInv'
  BY DEF IInv, TypeOK, StepInv, OwnerInv, MakerInv, Untouched, HeldInv, Referenced, FrameHolds
<1> QED  BY <1>1, <1>2, <1>3, <1>4, <1>5, <1>6 DEF IInv

\* A key that was made gets its one owner: a NodeKey, or the discard.
LEMMA WrapsKeeps ==
  ASSUME IInv, NEW t \in Threads, Wraps(t)
  PROVE  IInv'
<1> USE KeysAssumption, MakersMake, DoingFacts DEF Wraps, At, Ends, DiscardsKey, FreesKey, libraryVars, keyVars, opVars, loopVars
<1>1. LibraryInv'
  BY LibraryRests DEF IInv
<1>2. StepInv'
  BY DEF IInv, TypeOK, StepInv, MakerInv, Untouched
<1>3. TypeOK'
  <2>1. op' \in [Threads -> Doing]
    BY DEF IInv, TypeOK
  <2>2. /\ held' \subseteq Keys /\ frees' \in [Keys -> Nat]
        /\ handle' \in [Keys -> BOOLEAN] /\ armed' \in [Keys -> BOOLEAN]
    <3>1. CASE op[t].wanted
      <4>1. /\ op[t].key \in Keys /\ held' = held \cup {op[t].key} /\ UNCHANGED frees
            /\ handle' = [handle EXCEPT ![op[t].key] = TRUE]
            /\ armed' = [armed EXCEPT ![op[t].key] = TRUE]
        BY <3>1 DEF IInv, StepInv, MakerInv
      <4> QED  BY <4>1 DEF IInv, TypeOK
    <3>2. CASE ~op[t].wanted /\ loopOpen
      BY <3>2 DEF IInv, TypeOK, StepInv, MakerInv
    <3>3. CASE ~op[t].wanted /\ ~loopOpen
      BY <3>3 DEF IInv, TypeOK
    <3> QED  BY <3>1, <3>2, <3>3
  <2>3. step' \in [Threads -> {"idle", "getting", "ready", "taking", "made",
                               "invalid", "freeing"}]
    BY DEF IInv, TypeOK
  <2>4. dropped' \subseteq Keys /\ loopOpen' \in BOOLEAN
    BY DEF IInv, TypeOK, StepInv, MakerInv
  <2> QED  BY <1>1, <1>2, <2>1, <2>2, <2>3, <2>4 DEF IInv, TypeOK, LibraryInv, StepInv
<1>4. MakerInv'
  BY DEF IInv, TypeOK, StepInv, MakerInv, Untouched
<1>5. OwnerInv'
  BY DEF IInv, TypeOK, StepInv, OwnerInv, MakerInv, Untouched
<1>6. HeldInv'
  <2>0. op[t].key \in Keys
    BY DEF IInv, StepInv, MakerInv
  <2> PICK k \in Keys : k = op[t].key
    BY <2>0
  <2>1. k \in Keys /\ Untouched(k) /\ \A u \in Threads : u # t => op[u].key # k
    BY DEF IInv, StepInv, MakerInv
  <2>2. \A m \in Keys : m # k => (Referenced(m)' <=> Referenced(m))
    BY <2>1 DEF IInv, TypeOK, Referenced, FrameHolds
  <2>3. CASE op[t].wanted
    BY <2>1, <2>2, <2>3 DEF IInv, TypeOK, HeldInv, Untouched
  <2>4. CASE ~op[t].wanted /\ loopOpen
    <3>1. /\ op' = [op EXCEPT ![t] = NoOp] /\ UNCHANGED <<held, handle, armed, freed, sweeping>>
          /\ frees' = [frees EXCEPT ![k] = @ + 1] /\ step' = [step EXCEPT ![t] = "idle"]
      BY <2>4
    <3>2. ~Referenced(k)'
      BY <2>1, <3>1 DEF IInv, TypeOK, Referenced, FrameHolds, Untouched
    <3>3. \A m \in Keys : m # k => frees'[m] = frees[m]
      BY <3>1 DEF IInv, TypeOK
    <3> QED  BY <2>1, <2>2, <3>1, <3>2, <3>3 DEF IInv, TypeOK, HeldInv, Untouched
  <2>5. CASE ~op[t].wanted /\ ~loopOpen
    <3>1. /\ op' = [op EXCEPT ![t] = NoOp] /\ step' = [step EXCEPT ![t] = "idle"]
          /\ UNCHANGED <<held, handle, armed, frees, freed, sweeping>>
      BY <2>5
    <3>2. ~Referenced(k)'
      BY <2>1, <3>1 DEF IInv, TypeOK, Referenced, FrameHolds, Untouched
    <3> QED  BY <2>1, <2>2, <3>1, <3>2 DEF IInv, TypeOK, HeldInv, Untouched
  <2> QED  BY <2>3, <2>4, <2>5
<1> QED  BY <1>1, <1>2, <1>3, <1>4, <1>5, <1>6 DEF IInv

LEMMA CancelKeeps ==
  ASSUME IInv, NEW t \in Threads, Cancel(t)
  PROVE  IInv'
<1> USE KeysAssumption, MakersMake, DoingFacts DEF Cancel, libraryVars, keyVars, opVars, loopVars
<1>1. LibraryInv'
  BY LibraryRests DEF IInv
<1>2. StepInv'
  BY DEF IInv, TypeOK, StepInv
<1>3. TypeOK'
  BY <1>1, <1>2 DEF IInv, TypeOK, LibraryInv, StepInv
<1>4. MakerInv'
  BY DEF IInv, TypeOK, StepInv, MakerInv, Untouched
<1>5. OwnerInv'
  BY DEF IInv, TypeOK, StepInv, OwnerInv, MakerInv, Untouched
<1>6. HeldInv'
  BY DEF IInv, TypeOK, StepInv, OwnerInv, MakerInv, Untouched, HeldInv, Referenced, FrameHolds
<1> QED  BY <1>1, <1>2, <1>3, <1>4, <1>5, <1>6 DEF IInv

LEMMA LoopClosesKeeps ==
  ASSUME IInv, LoopCloses
  PROVE  IInv'
<1> USE DEF LoopCloses, libraryVars, keyVars, opVars
<1>1. LibraryInv'
  BY LibraryRests DEF IInv
<1>2. StepInv'
  BY DEF IInv, StepInv
<1>3. TypeOK'
  BY <1>1, <1>2 DEF IInv, TypeOK, LibraryInv, StepInv
<1>4. MakerInv'
  BY DEF IInv, MakerInv, Untouched
<1>5. OwnerInv' /\ HeldInv'
  BY DEF IInv, OwnerInv, HeldInv, Referenced, FrameHolds
<1> QED  BY <1>1, <1>2, <1>3, <1>4, <1>5 DEF IInv

\* From here on free() was called.
LEMMA FreeBeginsKeeps ==
  ASSUME IInv, NEW t \in Threads, NEW k \in Keys, FreeBegins(t, k)
  PROVE  IInv'
<1> USE KeysAssumption, MakersMake, DoingFacts DEF FreeBegins, At, ForgetsHandle, libraryVars, keyVars, opVars, loopVars
<1>1. LibraryInv'
  BY LibraryRests DEF IInv
<1>2. StepInv'
  BY DEF IInv, TypeOK, StepInv
<1>3. TypeOK'
  BY <1>1, <1>2 DEF IInv, TypeOK, LibraryInv, StepInv, Doing
<1>4. MakerInv'
  BY DEF IInv, TypeOK, StepInv, MakerInv, Untouched
<1>5. OwnerInv'
  BY DEF IInv, TypeOK, StepInv, OwnerInv, MakerInv, Untouched
<1>6. HeldInv'
  BY DEF IInv, TypeOK, StepInv, OwnerInv, MakerInv, Untouched, HeldInv, Referenced, FrameHolds
<1> QED  BY <1>1, <1>2, <1>3, <1>4, <1>5, <1>6 DEF IInv

\* free() runs the finalizer if nothing has.
LEMMA FreeEndsKeeps ==
  ASSUME IInv, NEW t \in Threads, FreeEnds(t)
  PROVE  IInv'
<1> USE KeysAssumption, MakersMake, DoingFacts DEF FreeEnds, At, Ends, StillArmed, FreesKey, libraryVars, keyVars, opVars, loopVars
<1>1. LibraryInv'
  BY LibraryRests DEF IInv
<1>2. StepInv'
  BY DEF IInv, TypeOK, StepInv
<1>3. TypeOK'
  BY <1>1, <1>2 DEF IInv, TypeOK, LibraryInv, StepInv
<1>4. MakerInv'
  BY DEF IInv, TypeOK, StepInv, MakerInv, Untouched
<1>5. OwnerInv'
  BY DEF IInv, TypeOK, StepInv, OwnerInv, MakerInv, Untouched
<1>6. HeldInv'
  BY DEF IInv, TypeOK, StepInv, OwnerInv, MakerInv, Untouched, HeldInv, Referenced, FrameHolds
<1> QED  BY <1>1, <1>2, <1>3, <1>4, <1>5, <1>6 DEF IInv

LEMMA DropKeeps ==
  ASSUME IInv, NEW k \in Keys, Drop(k)
  PROVE  IInv'
<1> USE KeysAssumption, MakersMake, DoingFacts DEF Drop, libraryVars, keyVars, opVars, loopVars
<1>1. LibraryInv'
  BY LibraryRests DEF IInv
<1>2. StepInv'
  BY DEF IInv, TypeOK, StepInv
<1>3. TypeOK'
  BY <1>1, <1>2 DEF IInv, TypeOK, LibraryInv, StepInv
<1>4. MakerInv'
  BY DEF IInv, TypeOK, StepInv, MakerInv, Untouched
<1>5. OwnerInv'
  BY DEF IInv, TypeOK, StepInv, OwnerInv, MakerInv, Untouched
<1>6. HeldInv'
  BY DEF IInv, TypeOK, StepInv, OwnerInv, MakerInv, Untouched, HeldInv, Referenced, FrameHolds
<1> QED  BY <1>1, <1>2, <1>3, <1>4, <1>5, <1>6 DEF IInv

\* Only a key nobody refers to is collected.
LEMMA CollectKeeps ==
  ASSUME IInv, NEW t \in Threads, NEW k \in Keys, Collect(t, k)
  PROVE  IInv'
<1> USE KeysAssumption, MakersMake, DoingFacts DEF Collect, libraryVars, keyVars, opVars, loopVars
<1>1. LibraryInv'
  BY LibraryRests DEF IInv
<1>2. StepInv'
  BY DEF IInv, TypeOK, StepInv
<1>3. TypeOK'
  BY <1>1, <1>2 DEF IInv, TypeOK, LibraryInv, StepInv
<1>4. MakerInv'
  BY DEF IInv, TypeOK, StepInv, MakerInv, Untouched
<1>5. OwnerInv'
  BY DEF IInv, TypeOK, StepInv, OwnerInv, MakerInv, Untouched
<1>6. HeldInv'
  BY DEF IInv, TypeOK, StepInv, OwnerInv, MakerInv, Untouched, HeldInv, Referenced, FrameHolds
<1> QED  BY <1>1, <1>2, <1>3, <1>4, <1>5, <1>6 DEF IInv

LEMMA SweepKeeps ==
  ASSUME IInv, NEW t \in Threads, Sweep(t)
  PROVE  IInv'
<1> USE KeysAssumption, MakersMake, DoingFacts DEF Sweep, FreesKey, FinalizerRuns, libraryVars, keyVars, opVars, loopVars
<1>1. LibraryInv'
  BY LibraryRests DEF IInv
<1>2. StepInv'
  BY DEF IInv, TypeOK, StepInv
<1>3. TypeOK'
  BY <1>1, <1>2 DEF IInv, TypeOK, LibraryInv, StepInv
<1>4. MakerInv'
  BY DEF IInv, TypeOK, StepInv, MakerInv, Untouched
<1>5. OwnerInv'
  BY DEF IInv, TypeOK, StepInv, OwnerInv, MakerInv, Untouched
<1>6. HeldInv'
  BY DEF IInv, TypeOK, StepInv, OwnerInv, MakerInv, Untouched, HeldInv, Referenced, FrameHolds
<1> QED  BY <1>1, <1>2, <1>3, <1>4, <1>5, <1>6 DEF IInv

LEMMA NameFileKeeps ==
  ASSUME IInv, NEW f \in Files \cup {Unset}, NameFile(f), UNCHANGED <<keyVars, opVars, loopVars>>
  PROVE  IInv'
<1> USE KeysAssumption, MakersMake, DoingFacts DEF NameFile, libraryVars, keyVars, opVars, loopVars
<1>1. LibraryInv'
  BY DEF IInv, LibraryInv, LibraryTypeOK, OneFitLibrary
<1>2. StepInv'
  BY DEF IInv, TypeOK, StepInv
<1>3. TypeOK'
  BY <1>1, <1>2 DEF IInv, TypeOK, LibraryInv, StepInv
<1>4. MakerInv'
  BY DEF IInv, TypeOK, StepInv, MakerInv, Untouched
<1>5. OwnerInv'
  BY DEF IInv, TypeOK, StepInv, OwnerInv, MakerInv, Untouched
<1>6. HeldInv'
  BY DEF IInv, TypeOK, StepInv, OwnerInv, MakerInv, Untouched, HeldInv, Referenced, FrameHolds
<1> QED  BY <1>1, <1>2, <1>3, <1>4, <1>5, <1>6 DEF IInv

LEMMA InitHolds == Init => IInv
<1> SUFFICES ASSUME Init PROVE IInv
  OBVIOUS
<1> USE LibraryAssumption, KeysAssumption, MakersMake, DoingFacts DEF Init, LibraryInit
<1>1. TypeOK
  BY DEF TypeOK, LibraryTypeOK, Copies
<1>2. LibraryInv
  BY <1>1 DEF TypeOK, LibraryInv, OneFitLibrary
<1>3. StepInv /\ MakerInv /\ OwnerInv
  BY DEF StepInv, MakerInv, Untouched, OwnerInv
<1>4. HeldInv
  BY DEF HeldInv, Referenced, FrameHolds
<1> QED  BY <1>1, <1>2, <1>3, <1>4 DEF IInv

LEMMA RestsKeeps == ASSUME IInv, UNCHANGED vars PROVE IInv'
<1> USE DEF IInv, vars, libraryVars, keyVars, opVars, loopVars
<1>1. LibraryInv'
  BY LibraryRests
<1>2. TypeOK' /\ StepInv' /\ MakerInv' /\ OwnerInv' /\ HeldInv'
  BY DEF TypeOK, LibraryTypeOK, StepInv, MakerInv, Untouched, OwnerInv, HeldInv, Referenced, FrameHolds
<1> QED  BY <1>1, <1>2

LEMMA NextKeeps == IInv /\ [Next]_vars => IInv'
<1> SUFFICES ASSUME IInv, [Next]_vars PROVE IInv'
  OBVIOUS
<1>1. ASSUME NEW t \in Threads, OpStep(t) PROVE IInv'
  BY <1>1, PreparesKeeps, CallsKeeps, SaysInvalidKeeps, TakesKeeps, WrapsKeeps, FreeEndsKeeps DEF OpStep
<1> QED
  BY <1>1, BeginKeeps, GetsLibraryKeeps, CancelKeeps, LoopClosesKeeps, FreeBeginsKeeps, DropKeeps,
     CollectKeeps, SweepKeeps, NameFileKeeps, RestsKeeps DEF Next

LEMMA Inductive == Spec => []IInv
BY InitHolds, NextKeeps, PTL DEF Spec

-----------------------------------------------------------------------------
(* The theorems.                                                           *)

\* NodeKeys and NativeLibrary keep the types of their variables.
THEOREM TypeCorrect == Spec => []TypeOK
BY Inductive, PTL DEF IInv

\* However many threads race for native(), and whatever files the environment
\* names meanwhile, they are all given one library, and it passed every check.
THEOREM OneLibrary == Spec => []OneFitLibrary
<1>1. IInv => OneFitLibrary
  BY DEF IInv, LibraryInv
<1> QED  BY <1>1, Inductive, PTL

\* free() on any threads, the finalizer on any thread and the discard of a
\* cancelled maker free a key's native side once between them; no operation
\* ends with memory it was given and did not free.
THEOREM FreedOnce == Spec => []FreedExactlyOnce
<1>1. IInv => FreedExactlyOnce
  BY DEF IInv, StepInv, OwnerInv, TypeOK, FreedExactlyOnce
<1> QED  BY <1>1, Inductive, PTL

\* Nothing but free() takes a key from under an operation, and an operation
\* that begins after it finds no handle.
THEOREM FreedKeysAreClosed == Spec => []FreedMeansClosed
<1>1. IInv => FreedMeansClosed
  BY DEF IInv, OwnerInv, HeldInv, FreedMeansClosed, Referenced
<1> QED  BY <1>1, Inductive, PTL
=============================================================================
