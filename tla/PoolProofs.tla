----------------------------- MODULE PoolProofs -----------------------------
(***************************************************************************)
(* Theorems about Pool, for any operations, closers and kinds of errors.   *)
(*                                                                         *)
(* The invariant follows an operation from its call to what it is told,    *)
(* and the pool's handle from connect() to the one thread that closes it.  *)
(***************************************************************************)
EXTENDS Pool, TLAPS

\* An operation with a native call runs a method of its own; it holds what it
\* made until it is over, and only what succeeded made something.
OpInv(o) ==
  /\ at[o] = "idle" => told[o] = "nothing"
  /\ at[o] \in {"called", "back"} =>
       /\ told[o] \in {"nothing", "CancelledError"}
       /\ method[o].how # "sync" /\ method[o] \in (IF o = Opening THEN {Connect} ELSE Methods)
  /\ at[o] # "ended" => releases[o] = 0
  /\ releases[o] <= 1
  /\ object[o] = "live" =>
       /\ method[o].does \in {"makes", "shares"}
       /\ at[o] = "back" => result[o] = "ok"
       /\ at[o] = "ended" /\ told[o] # "value" =>
            o # Opening /\ (method[o].how = "native" \/ method[o].does = "shares")

\* The pool's handle is there once connect() has returned, until the first call
\* of close(), whose thread then closes the pool.
HandleInv ==
  /\ handle # "none" <=> told[Opening] = "value"
  /\ handle # "none" => at[Opening] = "ended"
  /\ handle # "given up" => closing = "none" /\ \A t \in Closers : closer[t] = "none"
  /\ handle # "none" /\ closing # "done" => releases[Opening] = 0

IInv == TypeOK /\ HandleInv /\ \A o \in Ops : OpInv(o)

-----------------------------------------------------------------------------
(* What the methods and the kinds of errors are.                           *)

LEMMA MethodFacts ==
  /\ \A m \in Methods \cup {Connect} :
       /\ m.how \in {"blocking", "native", "sync"}
       /\ m.absent = "none" \/ (m = FindRecord /\ m.absent = "NotFoundError")
       /\ m.does = "makes" => m.discards \/ m.how = "native"
  /\ Connect.how = "blocking" /\ Connect.does = "makes" /\ Connect.discards
  /\ Idle.does = "nothing"
<1> DEFINE Good(m) == /\ m.how \in {"blocking", "native", "sync"}
                      /\ m.absent = "none" \/ (m = FindRecord /\ m.absent = "NotFoundError")
                      /\ m.does = "makes" => m.discards \/ m.how = "native"
<1>1. Good(NodeId) /\ Good(OwnProcedure) /\ Good(Status) /\ Good(NextEvent)
  BY DEF NodeId, OwnProcedure, Status, NextEvent, Method
<1>2. Good(Call) /\ Good(CallReport) /\ Good(Providers) /\ Good(Publish) /\ Good(PublishGroup)
  BY DEF Call, CallReport, Providers, Publish, PublishGroup, Method
<1>3. Good(Subscribe) /\ Good(SubscribeGroup) /\ Good(Serve) /\ Good(ServeStream) /\ Good(OpenStream)
  BY DEF Subscribe, SubscribeGroup, Serve, ServeStream, OpenStream, Method
<1>4. Good(ShareContent) /\ Good(UnshareContent) /\ Good(GetContent)
  BY DEF ShareContent, UnshareContent, GetContent, Method
<1>5. Good(FindRecord) /\ Good(FindRecords) /\ Good(FindRecordsByType) /\ Good(PutRecord)
  BY DEF FindRecord, FindRecords, FindRecordsByType, PutRecord, Method
<1>6. Good(Connect) /\ Connect.how = "blocking" /\ Connect.does = "makes" /\ Connect.discards
  BY DEF Connect, Method
<1>7. Idle.does = "nothing"
  BY DEF Idle, Method
<1> HIDE DEF Good
<1>8. \A m \in Methods \cup {Connect} : Good(m)
  BY <1>1, <1>2, <1>3, <1>4, <1>5, <1>6 DEF Methods
<1> QED  BY <1>6, <1>7, <1>8 DEF Good

LEMMA ErrorFacts ==
  /\ \A k \in Kinds : /\ native_error(k) \in DOMAIN Bases
                      /\ native_error(k) = "NativeCancelled" <=> k = "cancelled"
                      /\ k # "cancelled" => IsA(native_error(k), "MaculaError")
                      /\ ~IsA(native_error(k), "none")
                      /\ IsA(native_error(k), "NotFoundError") <=> k = "not_found"
                      /\ k \notin {"none", "ok", "empty", "drained"}
  /\ {"MaculaError", "ClosedError", "NativeCancelled"} \subseteq DOMAIN Bases
  /\ DOMAIN Bases \cap {"nothing", "value", "None", "ValueError", "CancelledError"} = {}
<1>1. DOMAIN KINDS = {"timeout", "invalid_argument", "invalid_handle", "not_found", "no_provider",
                      "not_shared", "answered", "closed", "not_settled", "not_a_caller", "failed"}
  BY DEF KINDS
<1>2. DOMAIN Carrying = {"cancelled", "provider_error", "relay_error", "unavailable",
                         "confidentiality", "group", "refused"}
  BY DEF Carrying
<1>3. ASSUME NEW k \in Kinds
      PROVE  /\ native_error(k) \in DOMAIN Bases
             /\ native_error(k) = "NativeCancelled" <=> k = "cancelled"
             /\ native_error(k) = "NotFoundError" <=> k = "not_found"
             /\ k \notin {"none", "ok", "empty", "drained"}
  <2>1. CASE k \in DOMAIN Carrying
    <3>1. native_error(k) = Carrying[k]
      BY <1>1, <1>2, <2>1 DEF native_error
    <3>2. /\ Carrying["cancelled"] = "NativeCancelled" /\ Carrying["provider_error"] = "ProviderError"
          /\ Carrying["relay_error"] = "RelayError" /\ Carrying["refused"] = "RefusedError"
          /\ Carrying["unavailable"] = "ContentUnavailableError"
          /\ Carrying["confidentiality"] = "ConfidentialityError"
          /\ Carrying["group"] = "GroupError"
      BY DEF Carrying
    <3>3. native_error(k) \in DOMAIN Bases
      BY <1>2, <2>1, <3>1, <3>2 DEF Bases
    <3> QED  BY <1>2, <2>1, <3>1, <3>2, <3>3
  <2>2. CASE k \in DOMAIN KINDS
    BY <1>1, <1>2, <2>2 DEF native_error, KINDS, Bases
  <2>3. CASE k \in {"unknown", "garbled"}
    BY <1>1, <1>2, <2>3 DEF native_error, Bases
  <2> QED  BY <2>1, <2>2, <2>3 DEF Kinds
<1>4. \A c \in DOMAIN Bases : /\ c # "NativeCancelled" => IsA(c, "MaculaError")
                              /\ ~IsA(c, "none")
                              /\ IsA(c, "NotFoundError") <=> c = "NotFoundError"
  BY DEF IsA, Bases
<1>5. /\ {"MaculaError", "ClosedError", "NativeCancelled"} \subseteq DOMAIN Bases
      /\ DOMAIN Bases \cap {"nothing", "value", "None", "ValueError", "CancelledError"} = {}
  BY DEF Bases
<1> QED  BY <1>3, <1>4, <1>5

\* What a method makes of what its native call ended with.
LEMMA TellsFacts ==
  ASSUME NEW m \in Methods \cup {Connect}, NEW how \in {"ok", "empty", "drained"} \cup Reported
  PROVE  /\ Tells(m, how) \in {"value", "None"} \cup DOMAIN Bases
         /\ Tells(m, how) \notin {"nothing", "CancelledError"}
         /\ Tells(m, how) = "value" <=> how = "ok"
         /\ m.how # "sync" =>
              \/ how = "ok" /\ Tells(m, how) = "value"
              \/ how \in {"empty", "drained"} /\ Tells(m, how) = "None"
              \/ how = "not_found" /\ Tells(m, how) = "None" /\ m = FindRecord
              \/ how = "cancelled" /\ IF m.how = "native" THEN Tells(m, how) = "NativeCancelled"
                                                          ELSE Tells(m, how) = "MaculaError"
              \/ Tells(m, how) = native_error(how) /\ IsA(Tells(m, how), "MaculaError")
<1>1. CASE how \in {"ok", "empty", "drained"}
  BY <1>1, ErrorFacts DEF Tells
<1>2. CASE how \in Reported
  <2>1. how \in Kinds /\ how \notin {"ok", "empty", "drained"}
    BY <1>2, PoolAssumption, ErrorFacts
  <2>2. Tells(m, how) = IF IsA(native_error(how), m.absent) THEN "None"
                                                            ELSE Raised(m, native_error(how))
    BY <2>1 DEF Tells
  <2>3. CASE IsA(native_error(how), m.absent)
    <3>1. m = FindRecord /\ how = "not_found"
      BY <2>1, <2>3, MethodFacts, ErrorFacts
    <3> QED  BY <2>2, <2>3, <3>1, ErrorFacts
  <2>4. CASE ~IsA(native_error(how), m.absent)
    <3>1. Tells(m, how) = IF how = "cancelled" /\ m.how = "blocking" THEN "MaculaError"
                                                                    ELSE native_error(how)
      BY <2>1, <2>2, <2>4, ErrorFacts DEF Raised
    <3>2. m.how \in {"blocking", "native", "sync"}
      BY MethodFacts
    <3>3. /\ native_error(how) \in DOMAIN Bases
          /\ native_error(how) = "NativeCancelled" <=> how = "cancelled"
          /\ how # "cancelled" => IsA(native_error(how), "MaculaError")
      BY <2>1, ErrorFacts
    <3> QED  BY <2>1, <3>1, <3>2, <3>3, ErrorFacts
  <2> QED  BY <2>3, <2>4
<1> QED  BY <1>1, <1>2

-----------------------------------------------------------------------------
(* The invariant is inductive: one lemma per action.                       *)

LEMMA InitHolds == Init => IInv
<1> SUFFICES ASSUME Init PROVE IInv
  OBVIOUS
<1>1. TypeOK
  BY DEF Init, TypeOK
<1>2. HandleInv
  BY PoolAssumption DEF Init, HandleInv
<1>3. \A o \in Ops : OpInv(o)
  BY DEF Init, OpInv
<1> QED  BY <1>1, <1>2, <1>3 DEF IInv

LEMMA TypeFacts ==
  ASSUME IInv
  PROVE  /\ method \in [Ops -> Methods \cup {Connect, Idle}]
         /\ at \in [Ops -> {"idle", "called", "back", "ended"}]
         /\ DOMAIN result = Ops /\ DOMAIN told = Ops /\ DOMAIN closer = Closers
         /\ object \in [Ops -> {"none", "live", "ended"}] /\ releases \in [Ops -> Nat]
         /\ Opening \in Ops
BY PoolAssumption DEF IInv, TypeOK

\* An operation that makes no native call is over at once.
LEMMA EndsAtOnce ==
  ASSUME IInv, NEW o \in Ops, NEW what \in {"value", "None", "ValueError"} \cup DOMAIN Bases,
         at[o] = "idle", what = "value" => o # Opening,
         Tell(o, what), Moves(o, "ended", "none"),
         UNCHANGED <<method, objectVars, closeVars, eventsClosed>>
  PROVE  IInv'
<1> USE DEF objectVars, closeVars
<1>1. what \notin {"nothing", "CancelledError"} /\ object[o] = "none" /\ told[o] = "nothing"
  BY ErrorFacts DEF IInv, TypeOK, OpInv
<1>2. TypeOK'
  BY <1>1 DEF Tell, Moves, IInv, TypeOK
<1>3. /\ at' = [at EXCEPT ![o] = "ended"] /\ told' = [told EXCEPT ![o] = what]
      /\ result' = [result EXCEPT ![o] = "none"]
      /\ UNCHANGED <<method, object, releases, handle, closing, closer>>
  BY DEF Tell, Moves
<1>4. HandleInv'
  BY <1>1, <1>3, TypeFacts DEF IInv, HandleInv
<1>5. ASSUME NEW p \in Ops PROVE OpInv(p)'
  <2>1. OpInv(p) /\ OpInv(o)
    BY DEF IInv
  <2>2. CASE p = o
    BY <1>1, <1>3, <2>1, <2>2, TypeFacts DEF OpInv
  <2>3. CASE p # o
    BY <1>3, <2>1, <2>3, TypeFacts DEF OpInv
  <2> QED  BY <2>2, <2>3
<1> QED  BY <1>2, <1>4, <1>5 DEF IInv

LEMMA BeginKeeps ==
  ASSUME IInv, NEW o \in Ops, NEW m \in Methods \cup {Connect}, Begin(o, m)
  PROVE  IInv'
<1>1. /\ at[o] = "idle" /\ m.how # "sync" /\ m \in (IF o = Opening THEN {Connect} ELSE Methods)
      /\ method' = [method EXCEPT ![o] = m] /\ at' = [at EXCEPT ![o] = "called"]
      /\ result' = [result EXCEPT ![o] = "none"]
      /\ UNCHANGED <<told, object, releases, handle, closing, closer, eventsClosed>>
  BY DEF Begin, MayBegin, Moves, objectVars, closeVars
<1>2. object[o] = "none" /\ told[o] = "nothing"
  BY <1>1 DEF IInv, TypeOK, OpInv
<1>3. TypeOK'
  BY <1>1, <1>2 DEF IInv, TypeOK
<1>4. HandleInv'
  BY <1>1, TypeFacts DEF IInv, HandleInv
<1>5. ASSUME NEW p \in Ops PROVE OpInv(p)'
  <2>1. OpInv(p) /\ OpInv(o)
    BY DEF IInv
  <2>2. CASE p = o
    BY <1>1, <1>2, <2>1, <2>2, TypeFacts DEF OpInv
  <2>3. CASE p # o
    BY <1>1, <2>1, <2>3, TypeFacts DEF OpInv
  <2> QED  BY <2>2, <2>3
<1> QED  BY <1>3, <1>4, <1>5 DEF IInv

\* What succeeds may have made something, or ended what a share_content made.
LEMMA NativeEndsKeeps ==
  ASSUME IInv, NEW o \in Ops, NativeEnds(o)
  PROVE  IInv'
<1>1. PICK how \in {"ok", "empty", "drained"} \cup Reported :
        /\ at[o] = "called" /\ at' = [at EXCEPT ![o] = "back"] /\ result' = [result EXCEPT ![o] = how]
        /\ \/ UNCHANGED object
           \/ \E s \in Ops : object[s] = "live" /\ object' = [object EXCEPT ![s] = "ended"]
           \/ /\ how = "ok" /\ method[o].does \in {"makes", "shares"}
              /\ object' = [object EXCEPT ![o] = "live"]
        /\ UNCHANGED <<method, told, releases, handle, closing, closer, eventsClosed>>
  BY DEF NativeEnds, Failures, Moves, closeVars
<1>2. object[o] = "none" /\ how # "none"
  <2>1. how \in Reported => how \in Kinds
    BY PoolAssumption
  <2> QED  BY <1>1, <2>1, ErrorFacts DEF IInv, TypeOK
<1>3. /\ object' \in [Ops -> {"none", "live", "ended"}]
      /\ \A p \in Ops : object'[p] = "live" =>
           \/ object[p] = "live" /\ p # o
           \/ p = o /\ how = "ok" /\ method[o].does \in {"makes", "shares"}
      /\ \A p \in Ops \ {o} : object'[p] # "none" => object[p] # "none"
  <2>1. CASE UNCHANGED object
    BY <1>2, <2>1, TypeFacts
  <2>2. ASSUME NEW s \in Ops, object[s] = "live", object' = [object EXCEPT ![s] = "ended"]
        PROVE  <1>3!1 /\ <1>3!2 /\ <1>3!3
    BY <1>2, <2>2, TypeFacts
  <2>3. CASE /\ how = "ok" /\ method[o].does \in {"makes", "shares"}
             /\ object' = [object EXCEPT ![o] = "live"]
    BY <1>2, <2>3, TypeFacts
  <2> QED  BY <1>1, <2>1, <2>2, <2>3
<1>4. /\ at'[o] = "back" /\ result'[o] = how
      /\ \A p \in Ops \ {o} : at'[p] = at[p] /\ result'[p] = result[p]
  BY <1>1, TypeFacts
<1>5. TypeOK'
  <2>1. /\ at' \in [Ops -> {"idle", "called", "back", "ended"}]
        /\ result' \in [Ops -> {"none", "ok", "empty", "drained"} \cup Reported]
    BY <1>1 DEF IInv, TypeOK
  <2>2. ASSUME NEW p \in Ops
        PROVE  /\ at'[p] = "back" <=> result'[p] # "none"
               /\ at'[p] = "ended" => told[p] # "nothing"
               /\ object'[p] # "none" => at'[p] \in {"back", "ended"}
    BY <1>2, <1>3, <1>4 DEF IInv, TypeOK
  <2> QED  BY <1>1, <1>3, <2>1, <2>2 DEF IInv, TypeOK
<1>6. HandleInv'
  BY <1>1, TypeFacts DEF IInv, HandleInv
<1>7. ASSUME NEW p \in Ops PROVE OpInv(p)'
  <2>1. OpInv(p)
    BY DEF IInv
  <2>2. CASE p = o
    BY <1>1, <1>3, <1>4, <2>1, <2>2 DEF OpInv
  <2>3. CASE p # o
    BY <1>1, <1>3, <1>4, <2>1, <2>3 DEF OpInv
  <2> QED  BY <2>2, <2>3
<1> QED  BY <1>5, <1>6, <1>7 DEF IInv

\* The result of an operation nobody cancelled goes to the application.
LEMMA LandsKeeps ==
  ASSUME IInv, NEW o \in Ops, Lands(o)
  PROVE  IInv'
<1> DEFINE what == Tells(method[o], result[o])
<1>1. /\ at[o] = "back" /\ told[o] = "nothing"
      /\ told' = [told EXCEPT ![o] = what] /\ at' = [at EXCEPT ![o] = "ended"]
      /\ result' = [result EXCEPT ![o] = "none"]
      /\ method' = IF object[o] = "none" THEN [method EXCEPT ![o] = Idle] ELSE method
      /\ handle' = IF o = Opening /\ result[o] = "ok" THEN "held" ELSE handle
      /\ UNCHANGED <<object, releases, closing, closer>>
      /\ eventsClosed' = (eventsClosed \/ result[o] = "drained")
  BY DEF Lands, Tell, Moves, Over, objectVars
<1>2. /\ what \in {"value", "None"} \cup DOMAIN Bases /\ what \notin {"nothing", "CancelledError"}
      /\ what = "value" <=> result[o] = "ok"
  <2>1. method[o] \in Methods \cup {Connect} /\ result[o] \in {"ok", "empty", "drained"} \cup Reported
    BY <1>1 DEF IInv, TypeOK, OpInv
  <2> QED  BY <2>1, TellsFacts
<1> HIDE DEF what
<1>3. eventsClosed' \in BOOLEAN
  BY <1>1
<1>4. TypeOK'
  <2>1. /\ told' \in [Ops -> {"nothing", "value", "None", "ValueError", "CancelledError"} \cup DOMAIN Bases]
        /\ method' \in [Ops -> Methods \cup {Connect, Idle}]
        /\ at' \in [Ops -> {"idle", "called", "back", "ended"}]
        /\ result' \in [Ops -> {"none", "ok", "empty", "drained"} \cup Reported]
        /\ handle' \in {"none", "held", "given up"}
    BY <1>1, <1>2 DEF IInv, TypeOK
  <2>2. ASSUME NEW p \in Ops
        PROVE  /\ at'[p] = "back" <=> result'[p] # "none"
               /\ at'[p] = "ended" => told'[p] # "nothing"
               /\ object[p] # "none" => at'[p] \in {"back", "ended"}
    BY <1>1, <1>2 DEF IInv, TypeOK
  <2>3. /\ object' \in [Ops -> {"none", "live", "ended"}] /\ releases' \in [Ops -> Nat]
        /\ closing' \in {"none", "asked", "done"}
        /\ closer' \in [Closers -> {"none", "waits", "returned", "cancelled"}]
    BY <1>1 DEF IInv, TypeOK
  <2>4. object' = object
    BY <1>1
  <2> HIDE <1>1
  <2> QED  BY <1>3, <2>1, <2>2, <2>3, <2>4 DEF TypeOK
<1>5. HandleInv'
  <2>1. CASE o = Opening
    BY <1>1, <1>2, <2>1, TypeFacts DEF IInv, HandleInv, OpInv
  <2>2. CASE o # Opening
    BY <1>1, <2>2, TypeFacts DEF IInv, HandleInv
  <2> QED  BY <2>1, <2>2
<1>6. ASSUME NEW p \in Ops PROVE OpInv(p)'
  <2>1. OpInv(p)
    BY DEF IInv
  <2>2. CASE p = o
    BY <1>1, <1>2, <2>1, <2>2, TypeFacts DEF OpInv
  <2>3. CASE p # o
    BY <1>1, <2>1, <2>3, TypeFacts DEF OpInv
  <2> QED  BY <2>2, <2>3
<1> QED  BY <1>4, <1>5, <1>6 DEF IInv

\* A cancelled task is told so at once; its native call goes on.
LEMMA CancelKeeps ==
  ASSUME IInv, NEW o \in Ops, Cancel(o)
  PROVE  IInv'
<1>1. /\ at[o] \in {"called", "back"} /\ told' = [told EXCEPT ![o] = "CancelledError"]
      /\ told[o] = "nothing"
      /\ UNCHANGED <<method, at, result, object, releases, handle, closing, closer, eventsClosed>>
  BY DEF Cancel, Tell, objectVars, closeVars
<1>2. TypeOK'
  BY <1>1 DEF IInv, TypeOK
<1>3. HandleInv'
  BY <1>1, TypeFacts DEF IInv, HandleInv
<1>4. ASSUME NEW p \in Ops PROVE OpInv(p)'
  <2>1. OpInv(p)
    BY DEF IInv
  <2> QED  BY <1>1, <2>1, TypeFacts DEF OpInv
<1> QED  BY <1>2, <1>3, <1>4 DEF IInv

\* Releasing an object leaves none of its maker's live.
LEMMA ReleasedFacts ==
  ASSUME IInv, NEW o \in Ops, Released(o)
  PROVE  /\ object' \in [Ops -> {"none", "live", "ended"}] /\ releases' \in [Ops -> Nat]
         /\ releases'[o] = releases[o] + 1 /\ object'[o] # "live"
         /\ \A p \in Ops \ {o} : releases'[p] = releases[p]
         /\ \A p \in Ops : object'[p] = "live" => object[p] = "live"
         /\ \A p \in Ops : object'[p] # "none" => p = o \/ object[p] # "none"
BY TypeFacts DEF Released, Ends

\* The result of a cancelled operation goes to its discard, if it has one.
LEMMA DiscardsKeeps ==
  ASSUME IInv, NEW o \in Ops, Discards(o)
  PROVE  IInv'
<1>1. /\ at[o] = "back" /\ told[o] = "CancelledError"
      /\ at' = [at EXCEPT ![o] = "ended"] /\ result' = [result EXCEPT ![o] = "none"]
      /\ method' = IF object[o] = "none" THEN [method EXCEPT ![o] = Idle] ELSE method
      /\ IF result[o] = "ok" /\ method[o].discards THEN Released(o) ELSE UNCHANGED objectVars
      /\ UNCHANGED <<told, handle, closing, closer, eventsClosed>>
  BY DEF Discards, Moves, Over, closeVars
<1>2. /\ object' \in [Ops -> {"none", "live", "ended"}] /\ releases' \in [Ops -> Nat]
      /\ releases'[o] <= 1 /\ \A p \in Ops \ {o} : releases'[p] = releases[p]
      /\ \A p \in Ops : object'[p] = "live" => object[p] = "live"
      /\ \A p \in Ops : object'[p] # "none" => p = o \/ object[p] # "none"
      /\ object'[o] = "live" => ~(result[o] = "ok" /\ method[o].discards)
  <2>1. releases[o] = 0 /\ 0 + 1 = 1
    BY <1>1 DEF IInv, OpInv
  <2>2. CASE Released(o)
    BY <1>1, <2>1, <2>2, ReleasedFacts
  <2>3. CASE UNCHANGED objectVars /\ ~(result[o] = "ok" /\ method[o].discards)
    BY <1>1, <2>1, <2>3, TypeFacts DEF objectVars
  <2> QED  BY <1>1, <2>2, <2>3
<1>3. /\ at'[o] = "ended" /\ result'[o] = "none"
      /\ \A p \in Ops \ {o} : at'[p] = at[p] /\ result'[p] = result[p] /\ method'[p] = method[p]
      /\ object[o] # "none" => method'[o] = method[o]
  BY <1>1, TypeFacts
<1>4. TypeOK'
  <2>1. /\ method' \in [Ops -> Methods \cup {Connect, Idle}]
        /\ at' \in [Ops -> {"idle", "called", "back", "ended"}]
        /\ result' \in [Ops -> {"none", "ok", "empty", "drained"} \cup Reported]
    BY <1>1 DEF IInv, TypeOK
  <2>2. ASSUME NEW p \in Ops
        PROVE  /\ at'[p] = "back" <=> result'[p] # "none"
               /\ at'[p] = "ended" => told[p] # "nothing"
               /\ object'[p] # "none" => at'[p] \in {"back", "ended"}
    BY <1>1, <1>2, <1>3 DEF IInv, TypeOK
  <2> QED  BY <1>1, <1>2, <2>1, <2>2 DEF IInv, TypeOK
<1>5. HandleInv'
  <2>1. o = Opening => handle = "none"
    BY <1>1 DEF IInv, HandleInv
  <2> QED  BY <1>1, <1>2, <1>3, <2>1, TypeFacts DEF IInv, HandleInv
<1>6. ASSUME NEW p \in Ops PROVE OpInv(p)'
  <2>1. OpInv(p)
    BY DEF IInv
  <2>2. CASE p # o
    BY <1>1, <1>2, <1>3, <2>1, <2>2 DEF OpInv
  <2>3. CASE p = o
    <3>1. object'[o] = "live" =>
            /\ method'[o] = method[o] /\ method[o].does \in {"makes", "shares"}
            /\ method[o] \in Methods \cup {Connect} /\ ~method[o].discards
            /\ method[o] # Connect
            /\ o = Opening => method[o] = Connect
      BY <1>1, <1>2, <1>3, <2>1, <2>3, MethodFacts DEF OpInv
    <3>2. object'[o] = "live" => o # Opening /\ (method[o].how = "native" \/ method[o].does = "shares")
      BY <3>1, MethodFacts
    <3> QED  BY <1>1, <1>2, <1>3, <2>1, <2>3, <3>1, <3>2 DEF OpInv
  <2> QED  BY <2>2, <2>3
<1> QED  BY <1>4, <1>5, <1>6 DEF IInv

\* The application releases what it was given.
LEMMA StopsKeeps ==
  ASSUME IInv, NEW o \in Ops, Stops(o)
  PROVE  IInv'
<1>1. /\ o # Opening /\ told[o] = "value" /\ releases[o] = 0 /\ Released(o)
      /\ UNCHANGED <<method, at, result, told, handle, closing, closer, eventsClosed>>
  BY DEF Stops, opVars, closeVars
<1>2. /\ object' \in [Ops -> {"none", "live", "ended"}] /\ releases' \in [Ops -> Nat]
      /\ releases'[o] = 1 /\ \A p \in Ops \ {o} : releases'[p] = releases[p]
      /\ \A p \in Ops : object'[p] = "live" => object[p] = "live"
      /\ \A p \in Ops : object'[p] # "none" => p = o \/ object[p] # "none"
  BY <1>1, ReleasedFacts, 0 + 1 = 1
<1>3. at[o] = "ended"
  BY <1>1, TypeFacts DEF IInv, OpInv
<1>4. TypeOK'
  BY <1>1, <1>2, <1>3 DEF IInv, TypeOK
<1>5. HandleInv'
  BY <1>1, <1>2, TypeFacts DEF IInv, HandleInv
<1>6. ASSUME NEW p \in Ops PROVE OpInv(p)'
  <2>1. OpInv(p)
    BY DEF IInv
  <2> QED  BY <1>1, <1>2, <1>3, <2>1 DEF OpInv
<1> QED  BY <1>4, <1>5, <1>6 DEF IInv

\* The first call of close() gives up the handle, and later ones find it gone.
LEMMA ClosersKeep ==
  ASSUME IInv, NEW t \in Closers, CloseBegins(t) \/ CloseReturns(t) \/ CloseCancelled(t)
  PROVE  IInv'
<1>1. UNCHANGED <<method, at, result, told, object, releases, eventsClosed>>
  BY DEF CloseBegins, CloseReturns, CloseCancelled, opVars, objectVars
<1>2. TypeOK'
  BY <1>1 DEF CloseBegins, CloseReturns, CloseCancelled, Closer, GivesUp, GoesOnClosing, IInv, TypeOK
<1>3. HandleInv'
  <2>1. CASE CloseBegins(t)
    BY <1>1, <2>1, TypeFacts DEF CloseBegins, Closer, GivesUp, IInv, HandleInv
  <2>2. CASE CloseReturns(t)
    BY <1>1, <2>2, TypeFacts DEF CloseReturns, Closer, IInv, HandleInv
  <2>3. CASE CloseCancelled(t)
    BY <1>1, <2>3, TypeFacts DEF CloseCancelled, Closer, GoesOnClosing, IInv, HandleInv
  <2> QED  BY <2>1, <2>2, <2>3
<1>4. ASSUME NEW p \in Ops PROVE OpInv(p)'
  <2>1. OpInv(p)
    BY DEF IInv
  <2> QED  BY <1>1, <2>1 DEF OpInv
<1> QED  BY <1>2, <1>3, <1>4 DEF IInv

\* The thread of close() is the only one that closes the pool.
LEMMA CloseRunsKeeps ==
  ASSUME IInv, CloseRuns
  PROVE  IInv'
<1>1. /\ closing = "asked" /\ closing' = "done" /\ Released(Opening)
      /\ UNCHANGED <<method, at, result, told, handle, closer, eventsClosed>>
  BY DEF CloseRuns, opVars
<1>2. releases[Opening] = 0 /\ at[Opening] = "ended"
  BY <1>1 DEF IInv, TypeOK, HandleInv
<1>3. handle = "given up"
  BY <1>1 DEF IInv, HandleInv
<1>4. /\ object' \in [Ops -> {"none", "live", "ended"}] /\ releases' \in [Ops -> Nat]
      /\ releases'[Opening] = 1 /\ object'[Opening] # "live"
      /\ \A p \in Ops \ {Opening} : releases'[p] = releases[p]
      /\ \A p \in Ops : object'[p] = "live" => object[p] = "live"
      /\ \A p \in Ops : object'[p] # "none" => p = Opening \/ object[p] # "none"
  <2>1. Opening \in Ops /\ Released(Opening)
    BY <1>1, TypeFacts
  <2>2. /\ object' \in [Ops -> {"none", "live", "ended"}] /\ releases' \in [Ops -> Nat]
        /\ releases'[Opening] = releases[Opening] + 1 /\ object'[Opening] # "live"
        /\ \A p \in Ops \ {Opening} : releases'[p] = releases[p]
        /\ \A p \in Ops : object'[p] = "live" => object[p] = "live"
        /\ \A p \in Ops : object'[p] # "none" => p = Opening \/ object[p] # "none"
    BY <2>1, ReleasedFacts
  <2>3. releases'[Opening] = 1
    BY <1>2, <2>2
  <2> QED  BY <2>2, <2>3
<1>5. TypeOK'
  BY <1>1, <1>2, <1>4 DEF IInv, TypeOK
<1>6. HandleInv'
  BY <1>1, <1>2, <1>3, <1>4, TypeFacts DEF IInv, HandleInv
<1>7. ASSUME NEW p \in Ops PROVE OpInv(p)'
  <2>1. OpInv(p)
    BY DEF IInv
  <2>2. CASE p = Opening
    <3>1. at'[p] = "ended" /\ releases'[p] <= 1 /\ object'[p] # "live"
      BY <1>1, <1>2, <1>4, <2>2
    <3> QED  BY <3>1 DEF OpInv
  <2>3. CASE p # Opening
    BY <1>1, <1>4, <2>1, <2>3 DEF OpInv
  <2> QED  BY <2>2, <2>3
<1> QED  BY <1>5, <1>6, <1>7 DEF IInv

LEMMA NextHolds == IInv /\ [Next]_vars => IInv'
<1> SUFFICES ASSUME IInv, [Next]_vars PROVE IInv'
  OBVIOUS
<1>1. ASSUME NEW o \in Ops, NEW m \in Methods \cup {Connect}, Refused(o, m) PROVE IInv'
  BY <1>1, EndsAtOnce, ErrorFacts DEF Refused, MayBegin
<1>2. ASSUME NEW o \in Ops, NEW m \in Methods \cup {Connect}, AsksTheLoop(o, m) PROVE IInv'
  <2>1. PICK how \in {"ok"} \cup Failures(o) : Tell(o, Tells(m, how))
    BY <1>2 DEF AsksTheLoop
  <2>2. how \in {"ok", "empty", "drained"} \cup Reported
    BY <2>1 DEF Failures
  <2>3. Tells(m, how) \in {"value", "None", "ValueError"} \cup DOMAIN Bases
    BY <2>2, TellsFacts
  <2>4. o # Opening
    BY <1>2, MethodFacts DEF AsksTheLoop, MayBegin
  <2> QED  BY <1>2, <2>1, <2>3, <2>4, EndsAtOnce DEF AsksTheLoop, MayBegin
<1>3. ASSUME NEW o \in Ops, NEW m \in Methods \cup {Connect}, Begin(o, m) PROVE IInv'
  BY <1>3, BeginKeeps
<1>4. ASSUME NEW o \in Ops, NativeEnds(o) \/ Lands(o) \/ Discards(o) \/ Cancel(o) \/ Stops(o)
      PROVE  IInv'
  BY <1>4, NativeEndsKeeps, LandsKeeps, DiscardsKeeps, CancelKeeps, StopsKeeps
<1>5. ASSUME NEW t \in Closers, CloseBegins(t) \/ CloseReturns(t) \/ CloseCancelled(t) PROVE IInv'
  BY <1>5, ClosersKeep
<1>6. CASE CloseRuns
  BY <1>6, CloseRunsKeeps
<1>7. CASE UNCHANGED vars
  <2>1. UNCHANGED <<method, at, result, told, object, releases, handle, closing, closer, eventsClosed>>
    BY <1>7 DEF vars, opVars, objectVars, closeVars
  <2>2. TypeOK' /\ HandleInv'
    BY <2>1 DEF IInv, TypeOK, HandleInv
  <2>3. ASSUME NEW p \in Ops PROVE OpInv(p)'
    <3>1. OpInv(p)
      BY DEF IInv
    <3> QED  BY <2>1, <3>1 DEF OpInv
  <2> QED  BY <2>2, <2>3 DEF IInv
<1> QED  BY <1>1, <1>2, <1>3, <1>4, <1>5, <1>6, <1>7 DEF Next, LoopStep

-----------------------------------------------------------------------------
(* What holds of every pool.                                               *)

\* Each operation goes from its call to what it is told, and the handle from
\* connect() to the thread that closes the pool, as IInv says.
THEOREM Inductive == Spec => []IInv
BY InitHolds, NextHolds, PTL DEF Spec

\* Every variable has its type, and an operation is told something before it is
\* over.
THEOREM TypeCorrect == Spec => []TypeOK
<1>1. IInv => TypeOK
  BY DEF IInv
<1> QED  BY Inductive, <1>1, PTL

\* What an operation made is released once at most, by the application, a discard
\* or close(), and what a cancelled one made is not left behind, but for the
\* results of subscribe, serve, serve_stream and share_content of pool.py.
THEOREM ReleasedAtMostOnce == Spec => []ReleasedOnce
<1>1. IInv => ReleasedOnce
  BY DEF IInv, OpInv, ReleasedOnce
<1> QED  BY Inductive, <1>1, PTL

\* An operation begun after close() is refused.
LEMMA BegunTooLate ==
  ASSUME IInv, [Next]_vars, NEW o \in Ops, Begins(o), CloseCalled
  PROVE  told'[o] \in {"ClosedError", "ValueError"}
<1>1. handle = "given up" /\ at[Opening] = "ended"
  BY DEF IInv, HandleInv, TypeOK, CloseCalled
<1>2. o # Opening /\ ~Live(o) /\ at[o] = "idle" /\ at'[o] # "idle"
  BY <1>1 DEF Begins, Live
<1>3. PICK m \in Methods \cup {Connect} : Refused(o, m)
  <2>1. ASSUME NEW p \in Ops, NEW m \in Methods \cup {Connect},
               Refused(p, m) \/ AsksTheLoop(p, m) \/ Begin(p, m)
        PROVE  p = o
    BY <1>2, <2>1, TypeFacts DEF Refused, AsksTheLoop, Begin, Moves
  <2>2. ASSUME NEW p \in Ops, NativeEnds(p) \/ Lands(p) \/ Discards(p) PROVE FALSE
    <3>1. at[p] # "idle" /\ \E where : at' = [at EXCEPT ![p] = where]
      BY <2>2 DEF NativeEnds, Lands, Discards, Moves
    <3> QED  BY <1>2, <3>1, TypeFacts
  <2>3. ASSUME NEW p \in Ops, Cancel(p) \/ Stops(p) PROVE FALSE
    BY <1>2, <2>3 DEF Cancel, Stops, opVars
  <2>4. ASSUME NEW t \in Closers, CloseBegins(t) \/ CloseReturns(t) \/ CloseCancelled(t) PROVE FALSE
    BY <1>2, <2>4 DEF CloseBegins, CloseReturns, CloseCancelled, opVars
  <2>5. ~CloseRuns /\ ~UNCHANGED vars
    BY <1>2 DEF CloseRuns, vars, opVars
  <2> QED  BY <1>2, <2>1, <2>2, <2>3, <2>4, <2>5 DEF Next, LoopStep, AsksTheLoop, Begin
<1> QED  BY <1>3, TypeFacts DEF Refused, Tell

\* An operation with a native call is told by its landing or its cancellation.
LEMMA ToldByItsEnd ==
  ASSUME IInv, [Next]_vars, NEW o \in Ops, IsTold(o), at[o] \in {"called", "back"}
  PROVE  AsNamed(o)
<1>1. told[o] = "nothing" /\ told'[o] # "nothing" /\ at[o] # "idle" /\ ~Begins(o)
  BY DEF IsTold, Begins
<1>2. ASSUME NEW p \in Ops, NEW m \in Methods \cup {Connect}, Refused(p, m) \/ AsksTheLoop(p, m)
      PROVE  FALSE
  <2>1. at[p] = "idle" /\ \E what : told' = [told EXCEPT ![p] = what]
    BY <1>2 DEF Refused, AsksTheLoop, MayBegin, Tell
  <2> QED  BY <1>1, <2>1, TypeFacts
<1>3. ASSUME NEW p \in Ops, NEW m \in Methods \cup {Connect}, Begin(p, m) PROVE FALSE
  BY <1>1, <1>3 DEF Begin
<1>4. ASSUME NEW p \in Ops, NativeEnds(p) \/ Discards(p) \/ Stops(p) PROVE FALSE
  BY <1>1, <1>4 DEF NativeEnds, Discards, Stops, opVars
<1>5. ASSUME NEW t \in Closers, CloseBegins(t) \/ CloseReturns(t) \/ CloseCancelled(t) PROVE FALSE
  BY <1>1, <1>5 DEF CloseBegins, CloseReturns, CloseCancelled, opVars
<1>6. ~CloseRuns /\ ~UNCHANGED vars
  BY <1>1 DEF CloseRuns, vars, opVars
<1>7. ASSUME NEW p \in Ops, Lands(p) PROVE AsNamed(o)
  <2>1. told' = [told EXCEPT ![p] = Tells(method[p], result[p])] /\ at[p] = "back"
    BY <1>7 DEF Lands, Tell
  <2>2. p = o
    BY <1>1, <2>1, TypeFacts
  <2>3. told'[o] = Tells(method[o], result[o])
    BY <2>1, <2>2, TypeFacts
  <2>4. /\ method[o] \in Methods \cup {Connect} /\ method[o].how # "sync"
        /\ result[o] \in {"ok", "empty", "drained"} \cup Reported
    BY <2>1, <2>2 DEF IInv, TypeOK, OpInv
  <2> QED  BY <1>1, <2>3, <2>4, TellsFacts DEF AsNamed
<1>8. ASSUME NEW p \in Ops, Cancel(p) PROVE AsNamed(o)
  <2>1. told' = [told EXCEPT ![p] = "CancelledError"] /\ at' = at
    BY <1>8 DEF Cancel, Tell
  <2>2. told'[o] = "CancelledError"
    BY <1>1, <2>1, TypeFacts
  <2> QED  BY <1>1, <2>1, <2>2 DEF AsNamed
<1> QED  BY <1>2, <1>3, <1>4, <1>5, <1>6, <1>7, <1>8 DEF Next, LoopStep

\* An operation begun after close() is refused with ClosedError, and whatever the
\* native call of an earlier one reports reaches the application as the error its
\* kind names (native_error of _wire.py, run_blocking and run_native).
THEOREM OperationsAreToldAsNamed == Spec => ErrorsAsNamed
<1>1. ASSUME IInv, [Next]_vars, NEW o \in Ops PROVE AsNamed(o)
  <2>1. CASE Begins(o) /\ CloseCalled
    <3>1. told'[o] \in {"ClosedError", "ValueError"} /\ at[o] = "idle"
      BY <1>1, <2>1, BegunTooLate DEF Begins
    <3> QED  BY <3>1 DEF AsNamed
  <2>2. CASE IsTold(o) /\ at[o] \in {"called", "back"}
    BY <1>1, <2>2, ToldByItsEnd
  <2> QED  BY <2>1, <2>2 DEF AsNamed
<1>2. IInv /\ [Next]_vars => [\A o \in Ops : AsNamed(o)]_vars
  BY <1>1
<1> QED  BY Inductive, <1>2, PTL DEF Spec, ErrorsAsNamed
=============================================================================
