--------------------------------- MODULE Pool ---------------------------------
(***************************************************************************)
(* A node's pool: the class Pool of src/macula_py/pool.py, from connect()  *)
(* to close(), with every operation it has and the native objects these    *)
(* make.  An operation reads the pool's handle on the loop, makes one      *)
(* native call, and turns what that reports into a value, None or an       *)
(* error.  Each await of run_blocking and run_native is taken as           *)
(* BlockingCall shows it to behave: cancelled, its task goes at once and   *)
(* its thread goes on, and a result goes to the discard, if there is one.  *)
(*                                                                         *)
(* What a subscription, a served procedure or a stream does meanwhile is   *)
(* in Inbox, Served and Streams.                                           *)
(***************************************************************************)
EXTENDS Errors, Naturals, FiniteSets

CONSTANTS Ops,      \* the operations of the application
          Opening,  \* the one that connects
          Closers,  \* the tasks that call close()
          Reported  \* the kinds of error the native calls report

ASSUME PoolAssumption == Opening \in Ops /\ Reported \subseteq Kinds

VARIABLES
  method,       \* what each operation calls
  at,           \* where its native call is
  result,       \* what that ended with
  told,         \* what the application was told
  object,       \* the native object it made
  releases,     \* how often that was released
  handle,       \* Pool._handle: "none" before connect, "held", "given up"
  eventsClosed, \* Pool.events_closed
  closing,      \* the thread of close()
  closer        \* the tasks in close()

opVars == <<method, at, result, told>>
objectVars == <<object, releases>>
closeVars == <<handle, closing, closer>>
vars == <<opVars, objectVars, closeVars, eventsClosed>>

-----------------------------------------------------------------------------
(* The methods: on a thread with a token ("blocking") or without one       *)
(* ("native"), or on the loop ("sync"); what the native call does; whether *)
(* a result nobody awaits is discarded; whether an argument may be refused *)
(* before the handle is asked for; the error that means None.              *)

Method(how, does, discards) ==
  [how |-> how, does |-> does, discards |-> discards, early |-> FALSE, absent |-> "none"]

Connect == [Method("blocking", "makes", TRUE) EXCEPT !.early = TRUE]

NodeId       == Method("sync", "asks", FALSE)
OwnProcedure == NodeId
Status       == Method("sync", "asks", FALSE)
NextEvent    == Method("blocking", "events", FALSE)

Call         == Method("blocking", "asks", FALSE)
CallReport   == Call
Providers    == Method("blocking", "asks", FALSE)
Publish      == [Method("native", "asks", FALSE) EXCEPT !.early = TRUE]
PublishGroup == Method("blocking", "asks", FALSE)

\* Slip: the stream of an open_stream that was cancelled is forgotten.
OpenStreamForgets == Method("blocking", "makes", FALSE)

Subscribe      == Method("native", "makes", FALSE)
SubscribeGroup == Method("blocking", "makes", TRUE)
Serve          == Method("native", "makes", FALSE)
ServeStream    == Method("native", "makes", FALSE)
OpenStream     == Method("blocking", "makes", TRUE)

ShareContent   == Method("blocking", "shares", FALSE)
UnshareContent == Method("blocking", "unshares", FALSE)
GetContent     == Method("blocking", "asks", FALSE)

FindRecord  == [Method("blocking", "asks", FALSE) EXCEPT !.absent = "NotFoundError"]
FindRecords == Method("blocking", "asks", FALSE)
FindRecordsByType == Method("blocking", "asks", FALSE)
PutRecord   == Method("blocking", "asks", FALSE)

Methods == {NodeId, OwnProcedure, Status, NextEvent, Call, CallReport, Providers, Publish,
            PublishGroup, Subscribe, SubscribeGroup, Serve, ServeStream, OpenStream,
            ShareContent, UnshareContent, GetContent,
            FindRecord, FindRecords, FindRecordsByType, PutRecord}

Idle == Method("sync", "nothing", FALSE)

TypeOK ==
  /\ method \in [Ops -> Methods \cup {Connect, Idle}]
  /\ at \in [Ops -> {"idle", "called", "back", "ended"}]
  /\ result \in [Ops -> {"none", "ok", "empty", "drained"} \cup Reported]
  /\ told \in [Ops -> {"nothing", "value", "None", "ValueError", "CancelledError"}
                      \cup DOMAIN Bases]
  /\ object \in [Ops -> {"none", "live", "ended"}] /\ releases \in [Ops -> Nat]
  /\ handle \in {"none", "held", "given up"} /\ eventsClosed \in BOOLEAN
  /\ closing \in {"none", "asked", "done"}
  /\ closer \in [Closers -> {"none", "waits", "returned", "cancelled"}]
  /\ \A o \in Ops : /\ at[o] = "back" <=> result[o] # "none"
                    /\ at[o] = "ended" => told[o] # "nothing"
                    /\ object[o] # "none" => at[o] \in {"back", "ended"}

Init ==
  /\ method = [o \in Ops |-> Idle] /\ at = [o \in Ops |-> "idle"]
  /\ result = [o \in Ops |-> "none"] /\ told = [o \in Ops |-> "nothing"]
  /\ object = [o \in Ops |-> "none"] /\ releases = [o \in Ops |-> 0]
  /\ handle = "none" /\ eventsClosed = FALSE
  /\ closing = "none" /\ closer = [t \in Closers |-> "none"]

-----------------------------------------------------------------------------
(* What an operation tells the application.                                *)

\* Slip: the native side's own "cancelled" is raised as it came.
AsReported(m, class) == class

\* Slip: a timeout is raised as Python's own.
RaisesPythons(m, class) == IF class = "MaculaTimeoutError" THEN "TimeoutError" ELSE class

\* run_blocking makes a MaculaError of it, there being no cancellation here;
\* run_native and a call on the loop do not.
Raised(m, class) ==
  IF class = "NativeCancelled" /\ m.how = "blocking" THEN "MaculaError" ELSE class

Tells(m, how) ==
  CASE how = "ok" -> "value"
    [] how \in {"empty", "drained"} -> "None"
    [] how \in Kinds /\ IsA(native_error(how), m.absent) -> "None"
    [] OTHER -> Raised(m, native_error(how))

Tell(o, what) == told' = [told EXCEPT ![o] = what]

\* An operation that is over leaves nothing but the object it made.
Over(o) == method' = IF object[o] = "none" THEN [method EXCEPT ![o] = Idle] ELSE method

Moves(o, where, how) == /\ at' = [at EXCEPT ![o] = where]
                        /\ result' = [result EXCEPT ![o] = how]

-----------------------------------------------------------------------------
(* An operation.                                                           *)

MayBegin(o, m) == at[o] = "idle" /\ IF o = Opening THEN m = Connect
                                                   ELSE m # Connect /\ handle # "none"

\* connect() asks for its key's handle, the others for the pool's.
Live(o) == o = Opening \/ handle = "held"

\* An argument is refused, or the handle is gone, and no native call is made.
Refused(o, m) ==
  /\ MayBegin(o, m)
  /\ \/ (m.early \/ Live(o)) /\ Tell(o, "ValueError")
     \/ (o = Opening \/ ~Live(o)) /\ Tell(o, "ClosedError")
  /\ Moves(o, "ended", "none")
  /\ UNCHANGED <<method, objectVars, closeVars, eventsClosed>>

\* The native pool, made by the operation that connects.
Open == object[Opening] = "live"

\* On a pool that was closed a call is told so, or that its handle is unknown, as
\* connect() is of a key freed meanwhile, or ends as it was cut short.
Failures(o) == Reported \ (IF o = Opening THEN {"closed"}
                           ELSE IF Open THEN {"closed", "invalid_handle"} ELSE {})

AsksTheLoop(o, m) ==
  /\ MayBegin(o, m) /\ Live(o) /\ m.how = "sync"
  /\ \E how \in {"ok"} \cup Failures(o) : Tell(o, Tells(m, how))
  /\ Moves(o, "ended", "none")
  /\ UNCHANGED <<method, objectVars, closeVars, eventsClosed>>

Begin(o, m) ==
  /\ MayBegin(o, m) /\ Live(o) /\ m.how # "sync"
  /\ method' = [method EXCEPT ![o] = m] /\ Moves(o, "called", "none")
  /\ UNCHANGED <<told, objectVars, closeVars, eventsClosed>>

NativeEnds(o) ==
  /\ at[o] = "called"
  /\ \E how \in {"ok", "empty", "drained"} \cup Failures(o) :
       /\ how \in {"empty", "drained"} => method[o].does = "events"
       /\ how = "drained" => ~Open
       /\ how = "ok" => Open \/ o = Opening
       /\ Moves(o, "back", how)
       /\ IF how # "ok" \/ method[o].does \notin {"makes", "shares", "unshares"}
          THEN UNCHANGED object
          ELSE IF method[o].does = "unshares"
          THEN \E s \in Ops : /\ object[s] = "live" /\ method[s].does = "shares"
                              /\ object' = [object EXCEPT ![s] = "ended"]
          ELSE object' = [object EXCEPT ![o] = "live"]
  /\ UNCHANGED <<method, told, releases, closeVars, eventsClosed>>

\* The rest of the method, on the loop.
Lands(o) ==
  /\ at[o] = "back" /\ told[o] = "nothing"
  /\ Tell(o, Tells(method[o], result[o]))
  /\ Moves(o, "ended", "none")
  /\ handle' = IF o = Opening /\ result[o] = "ok" THEN "held" ELSE handle
  /\ eventsClosed' = (eventsClosed \/ result[o] = "drained")
  /\ Over(o)
  /\ UNCHANGED <<objectVars, closing, closer>>

Cancel(o) ==
  /\ at[o] \in {"called", "back"} /\ told[o] = "nothing"
  /\ Tell(o, "CancelledError")
  /\ UNCHANGED <<method, at, result, objectVars, closeVars, eventsClosed>>

\* macula_pool_close ends what the pool made; releasing any other object ends it.
Ends(o) == object' = IF o = Opening
                     THEN [s \in Ops |-> IF object[s] = "live" THEN "ended" ELSE object[s]]
                     ELSE [object EXCEPT ![o] = "ended"]

Released(o) == Ends(o) /\ releases' = [releases EXCEPT ![o] = @ + 1]

\* A result nobody awaits any more.
Discards(o) ==
  /\ at[o] = "back" /\ told[o] = "CancelledError"
  /\ Moves(o, "ended", "none") /\ Over(o)
  /\ IF result[o] = "ok" /\ method[o].discards THEN Released(o) ELSE UNCHANGED objectVars
  /\ UNCHANGED <<told, closeVars, eventsClosed>>

\* stop() or free() of what an operation returned, which releases it once.
Stops(o) ==
  /\ o # Opening /\ method[o].does = "makes"
  /\ told[o] = "value" /\ releases[o] = 0
  /\ Released(o)
  /\ UNCHANGED <<opVars, closeVars, eventsClosed>>

-----------------------------------------------------------------------------
(* close(), or leaving the async with.                                     *)

Closer(t, where) == closer' = [closer EXCEPT ![t] = where]

\* Slip: the handle is given up once the pool is closed.
KeepsHandle == UNCHANGED handle

GivesUp == handle' = "given up"

CloseBegins(t) ==
  /\ closer[t] = "none"
  /\ \/ handle = "held" /\ GivesUp /\ closing' = "asked" /\ Closer(t, "waits")
     \/ handle = "given up" /\ Closer(t, "returned") /\ UNCHANGED <<handle, closing>>
  /\ UNCHANGED <<opVars, objectVars, eventsClosed>>

CloseRuns ==
  /\ closing = "asked"
  /\ closing' = "done"
  /\ Released(Opening)
  /\ UNCHANGED <<opVars, handle, closer, eventsClosed>>

CloseReturns(t) ==
  /\ closer[t] = "waits" /\ closing = "done"
  /\ Closer(t, "returned") /\ handle' = "given up"
  /\ UNCHANGED <<opVars, objectVars, closing, eventsClosed>>

\* Slip: the thread of close() ends with its task.
StopsClosing == closing' = IF closing = "asked" THEN "none" ELSE closing

\* run_native's thread goes on.
GoesOnClosing == UNCHANGED closing

CloseCancelled(t) ==
  /\ closer[t] = "waits"
  /\ Closer(t, "cancelled") /\ GoesOnClosing
  /\ UNCHANGED <<opVars, objectVars, handle, eventsClosed>>

-----------------------------------------------------------------------------

LoopStep(o) == Lands(o) \/ Discards(o)

Next == \/ \E o \in Ops : \/ \E m \in Methods \cup {Connect} :
                               Refused(o, m) \/ AsksTheLoop(o, m) \/ Begin(o, m)
                          \/ NativeEnds(o) \/ LoopStep(o) \/ Cancel(o) \/ Stops(o)
        \/ \E t \in Closers : CloseBegins(t) \/ CloseReturns(t) \/ CloseCancelled(t)
        \/ CloseRuns

Spec == Init /\ [][Next]_vars

\* The loop goes on, macula_pool_close returns, and a native call ends once its
\* token is cancelled or its pool is closed.
MustEnd(o) == /\ NativeEnds(o)
              /\ \/ told[o] = "CancelledError" /\ method[o].how = "blocking"
                 \/ closing = "done"

FairSpec ==
  /\ Spec /\ WF_vars(CloseRuns)
  /\ \A o \in Ops : WF_vars(LoopStep(o)) /\ WF_vars(MustEnd(o))
  /\ \A t \in Closers : WF_vars(CloseReturns(t))

-----------------------------------------------------------------------------
(* Properties.                                                             *)

\* Whoever holds a native object, the application, a discard or close(), it is
\* released at most once between them; and one nobody holds any more is released,
\* but for those a cancelled subscribe, serve or serve_stream made (run_native
\* takes no discard) and the content a cancelled share_content shares on.
ReleasedOnce ==
  /\ \A o \in Ops : releases[o] <= 1
  /\ \A o \in Ops : object[o] = "live" /\ at[o] = "ended" /\ told[o] # "value" =>
       o # Opening /\ (method[o].how = "native" \/ method[o].does = "shares")

CloseCalled == \E t \in Closers : closer[t] # "none"

Begins(o) == at[o] = "idle" /\ at'[o] # "idle"
IsTold(o) == told[o] = "nothing" /\ told'[o] # "nothing"

AsNamed(o) ==
  /\ Begins(o) /\ CloseCalled => told'[o] \in {"ClosedError", "ValueError"}
  /\ IsTold(o) /\ at[o] \in {"called", "back"} =>
       \/ told'[o] = "CancelledError" /\ at'[o] = at[o]
       \/ result[o] = "ok" /\ told'[o] = "value"
       \/ result[o] \in {"empty", "drained"} /\ told'[o] = "None"
       \/ result[o] = "not_found" /\ told'[o] = "None" /\ method[o] = FindRecord
       \/ result[o] = "cancelled" /\ IF method[o].how = "native" THEN told'[o] = "NativeCancelled"
                                                                 ELSE told'[o] = "MaculaError"
       \/ told'[o] = native_error(result[o]) /\ IsA(told'[o], "MaculaError")

\* An operation that begins once close() was called, on any task, makes no native
\* call and is told ClosedError (or has an argument refused first).  One that made
\* its call is told CancelledError exactly when its task was cancelled, and a
\* MaculaError, the one the kind names, for whatever its native call reports, be
\* it "cancelled" or that its handle was closed meanwhile.  The exceptions are
\* find_record's None, and the NativeCancelled of a call without a token.
ErrorsAsNamed == [][\A o \in Ops : AsNamed(o)]_vars

\* Once close() was called the pool, and everything any operation made or is
\* still making on it, comes to its end, though close() was cancelled; and every
\* operation still waiting is told.
EndsWithPool ==
  handle = "given up" ~> \A o \in Ops : object[o] # "live" /\ (at[o] # "idle" => told[o] # "nothing")
=============================================================================
