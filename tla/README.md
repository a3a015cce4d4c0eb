# A TLA+ model of macula-py

macula-py binds Python applications to the native macula library (macula-go)
through ctypes: a pool of links to stations, over which a node calls and serves
procedures, publishes and subscribes, opens streams and shares content. The
mesh itself lives in the native library. What the Python side adds, and what
this project models, is the meeting of three kinds of execution: an asyncio
event loop, the daemon threads that blocking native calls run on, and the
native library's own threads and handles. Every native object is a handle that
somebody must release exactly once, and every wait can be cancelled at any
moment.

## Inventory

| Component (under `src/src/macula_py/`) | State it keeps | Operations | What is hard | What makes it correct |
|---|---|---|---|---|
| Awaiting native calls, `_blocking.py` | per call: future, shield, cancelled event, token list, thread | `run_blocking`, `run_native` | cancellation from the loop races the thread at every step; a result may land in the turn of the cancellation; the loop may close first | a cancelled call's token is cancelled; cancelling returns at once; a handle has one owner or is released once |
| Serving, `pool.py` `Served`, `_answer_call`, `_run_session` | serve loop task, handler tasks, handle, failure | `serve`, `serve_stream`, `stop` | items taken by a cancelled wait, handlers cancelled at any await, deadline against answer, answers that fail, `stop` called twice or cancelled | each item taken is set out to be settled once, and is unless its answer fails; `stop` leaves nothing running; a failure surfaces |
| Inboxes, `pool.py` `Subscription`, `next_event`, `stream.py` `recv` | native bounded queue, `closed` mark | `next`, iteration, `dropped`, `stop` | a wait cancelled as it takes an event, an event that does not decode; the end against the drain | what is lost uncounted is accounted for; the end comes after the last event |
| Pool, `pool.py` `Pool` | native handle, `events_closed` | `connect`, `call`, `publish`, `subscribe`, `serve`, streams, content and records, `close` | operations in flight, or cancelled, when the pool closes; `close` twice or cancelled | what operations make is released once; named errors; all ends with the pool |
| Streams, `stream.py` | native handle, request | `send`, `send_value`, `close_send`, `reply`, `recv`, iteration, `close`, `abort`, `free` | a handle read on the loop, used on a thread, freed meanwhile; `free` on two threads; cancelled writes and receives | freed once; writes in order; frames read once; iteration ends |
| Keys, `key.py` | native handle, finalizer | `generate`, `load`, `load_or_create`, `save`, `sign` and the other uses, `free` | `free` against the finalizer, which runs on any thread; a cancelled `generate`, also on a loop that closes | freed exactly once; never from under an operation |
| Codec and errors, `_wire.py` | none | `encode_payload`, `decode_payload`, `native_error` | tagged bytes, base64 text of which there are several, int64 bounds, booleans | what is encoded decodes to the same value, with its exceptions named; each kind has its class |
| Native library, `_native.py`, `_abi.py`, `_library.py` | the loaded library, its lock | `native`, `invoke`, `take_string`, `take_bytes` | concurrent first use, failed load, memory the native side hands out | one checked library; a failed load tried again; each string freed once |
| `ucan.py`, `device_request.py`, `ownership_proof.py` | none | argument conversion around one native call | nothing concurrent | the native library's |
| Interop programs, `scripts/interop` | none | one call after another against another implementation | nothing concurrent | outside the binding |

Handlers and applications run on the event loop. Every operation of `Pool`,
`Stream` and `Served` awaits `run_blocking` or `run_native`, so `_blocking.py`
is the core: the others inherit its guarantees.

## Modules

| Module | What it is |
|---|---|
| `AbstractCall` | the promise: a task sees one outcome of its native call, and a handle the call made is the caller's or is released, never both |
| `BlockingCall` | `_blocking.py`: the steps of the loop, the call's thread and the discard thread, refining `AbstractCall` |
| `PoolCall` | what `Pool` takes as one await of an operation, as a mapping from `BlockingCall`: the two modules meet here |
| `BlockingCallProofs` | the inductive invariant of `BlockingCall`, its safety theorems, the refinement and the composition with `Pool` |
| `MCBlockingCall` | the calls that instantiate it |
| `Served` | the class `Served` and the handlers it runs, on a first-come-first-served event loop |
| `ServedProofs` | its inductive invariant, its safety theorems and the refinement of `AbstractServed` |
| `AbstractServed` | the promise: an item is handled at most once, Python has set out to answer or free it by the time it is over, and none is begun after a `stop` that withdrew the procedure |
| `MCServed` | the items and callers of `stop()` that instantiate it |
| `Inbox` | `Subscription` and the shared `_next_item`: readers of a bounded native inbox |
| `InboxProofs` | its inductive invariant and safety theorems |
| `MCInbox` | an iterating and a polling reader |
| `Errors` | the error classes, and `native_error`'s choice among them |
| `Streams` | the class `Stream`, as an application and as `_run_session` use it |
| `StreamsProofs` | its inductive invariant and safety theorems |
| `MCStreams` | its owner, and a task that iterates |
| `Pool` | the class `Pool`: every operation, what it makes, `close` |
| `PoolProofs` | its inductive invariant, its safety theorem and its action property |
| `MCPool` | `connect`, two operations and two callers of `close` |
| `NativeLibrary` | `native()` under its lock, `library_path`, the checks of a load |
| `NodeKeys` | the class `NodeKey`, its finalizer, and the functions of `ucan.py`, `device_request.py` and `ownership_proof.py`, on threads that load `NativeLibrary` |
| `NodeKeysProofs` | the inductive invariant of both, and their safety theorems |
| `MCNodeKeys` | two threads, one key, a library of each kind `native()` tells apart |
| `QueueFacts` | lemmas on the sequences these modules take from at the head and add to at the end |
| `Wire` | `encode_payload` and `decode_payload` as functions on trees of values |
| `WireProofs` | induction on the depth of a value, what the recursive functions yield, and the theorems of `Wire` |
| `MCWire` | one byte string with two texts, a small width for integers, and containers in containers |

Definitions whose comment starts with "Slip" are not part of the
specifications. Each is a plausible mistake in the code, to be put in place of
the definition that follows it; with it, the property `PROJECT.json` names
fails, which shows that the property depends on that line of the code.

### BlockingCall

One call per element of `Calls`. `Blocking` are made through `run_blocking`, the
rest through `run_native`; `Makers` return a handle; `Discarding` pass a
discard. `MayClose` lets the loop close under a running thread.

- The thread: `ThreadNew` (`work` makes and lists the token), `ThreadCheck`
  (`cancelled.is_set()`), `NativeReturn`, `Classify` (`except NativeCancelled`),
  `FreeToken` (`finally`), `Post` (`call_soon_threadsafe`). A step is split
  wherever another party can see or change something between: the token list,
  the event, the token, the loop.
- The loop: `Begin`, `Settle`, `InnerDone` (the shield's callback),
  `WakeWithOutcome`, `WakeCancelled` and `EndCall` (`_end_the_call`, split
  between setting the flag and reading the list), `HandOver`. `loop` is the call
  whose task is inside `_end_the_call`; no callback runs meanwhile.
- `Cancel` is `Task.cancel()`, from any other callback: it cancels the shield,
  or sets `_must_cancel` when the shield is already done, and may come again.
- `ready` holds a call's callbacks as a set. asyncio's order is first in first
  out, so each order the loop can produce is allowed, and more: what is shown
  holds for every order.
- A token is `live`, `cancelled` or `freed`; cancelling a freed one does
  nothing. Its number is not reused for another call.

### PoolCall

`Pool` takes an await of `run_blocking` or `run_native` as four steps: `NativeEnds`,
`Lands`, `Cancel` and `Discards`. `PoolCall` reads the state of `BlockingCall` as that
of a pool that is open and whose operations are `Calls`, and `AwaitsAsPoolTakesThem`
says that every step of the loop and the threads is then one of `Pool`'s, or nothing
`Pool` sees. A call is `called` from its `Begin`, and `back` once its outcome is
what the application may be told: for `run_native` when the native call returns,
for `run_blocking` when `work` has classified it. It is told `CancelledError` when
its task leaves `run_native` or `_end_the_call`. A call of each kind stands for a
method of `Pool` with that record (`open_stream`, `call`, `subscribe`, `publish`).
`OperationsAssumption` says that what makes a handle through `run_blocking` has a
discard, as every such method of `Pool` does. The operation that connected is over
throughout, and nobody closes: what a close adds is `Pool`'s own.

### Served

`streaming` is chosen at the start and separates `serve` (items are pending
calls, settled by answering) from `serve_stream` (items are sessions, settled
by freeing). `ready` is the loop's queue, in order, because one property
depends on the order: a handler task must have its first step before `stop()`
can cancel it. Each await of `run_blocking` and `run_native` is taken as
`BlockingCall` shows it to behave: when its task is cancelled it ends at once,
its thread goes on, and a result with a discard goes to the discard. `wait` is
the native wait of `_next_item`; it outlives the serve loop when that is
cancelled, and an item it takes then is released.

- Serve loop: `ServeStarts` (with the assertion that fails if `stop` came
  first), `ServeTakes`, `ServeCannotRead`, `ServeStops`, `ServeCancelled`; its wait:
  `NativeGives`, `WaitLands`, `WaitEnds`. `ServeCannotRead` is an item `decode_payload`
  refuses once it was taken: the loop ends, with the failure kept for `stop()`, and
  the item (`at` is "unread") has neither a task nor a discard. A call is then
  answered by its deadline or the withdrawal; a session is never freed, which
  `HeldItemsSettled` states as its exception. A cancelled wait hands its item to the
  discard undecoded.
- Handlers: `HandlerWaits`, `HandlerEnds`, `HandlerCancelled`,
  `SessionFrees`, `TaskDone`, `TaskWakes`; `Settles` is the thread that answers
  or frees. A handler may return, raise, raise `CancelledError` unasked, or
  swallow its cancellation and go on. `TaskDone` also ends a task cancelled
  before its first step (`NeverStarted`), which `SettledOnceOrFailed` shows not to happen.
  Whether it returned or raised is not told
  apart: both settle the item.
- An answer may fail. `_answer_call` and `release` ignore `AlreadyAnsweredError` and
  `InvalidHandleError` only; any other error of `macula_pending_reply` or
  `macula_pending_error`, as of a result whose `$bytes` text the native side refuses,
  or of `str(e).encode()`, ends the task with the call unanswered (`Fails`, in
  `Settles`, `AnswersNow` and `HandlerEnds`). `tries` counts what Python set out to do,
  `failed` what came of it so, and `item` what became of the item. A session's free
  cannot fail: `macula_stream_free` returns nothing.
- `stop()`: `StopBegins`, `StopAgain`, `WithdrawEnds` (which may fail),
  `StopJoins`, `StopGathers`, `StopEnds`, and `StopCancelled`/`StopAbandoned` for
  a caller cancelled at any of its awaits.
- The native side: `Arrives`, `Expires` (the deadline answers a call),
  `PoolCloses`, and `Withdrawn`, which answers the calls it holds.

The hops between an item landing and the task's step, and those of
`asyncio.gather`, are one step of the queue (gathering a task that has ended takes
one turn up to Python 3.11 and none from 3.12; both are allowed). Fewer hops
bring `stop()` forward, and the property about order holds even so.

### Inbox

A reader is a task that takes events again and again: an iterator through
`__anext__`, any other through `next(timeout_ms)`. `Begin` is the `_live()` check
and the start of a take; `Takes` and `WaitEnds` are its native wait, on a thread;
`Hears`, `CannotRead`, `HearsNothing` and `HearsError` are the rest of `next` and
`__anext__` on the loop: `CannotRead` is a payload `decode_payload` refuses, whose
event was taken and is given to nobody (`unread` counts these). `Cancel` is the cancellation of a waiting reader at any point of this:
a wait still in the native call becomes a stray, which ends, or takes one event
more that nobody sees (`StrayEnds`), and an event in hand is forgotten
(`Forgets`), since the call has no discard. `StopBegins` gives up the handle on
the loop and `StopEnds` frees the subscription on a thread, so both fall anywhere
between the steps of a take. The native side is `Arrives`, which drops the newest
or the oldest event of a full inbox, `PoolCloses` and `Endings`. `heard` records
what the application was given. `Pool.next_event` differs in having no iterator
and `Pool.close` for its `stop`; the flag it sets is in `Pool`. `Stream.recv` has an
end of its own, in `Streams`.

### Streams

Tasks share one stream. Its owner is the task in the `async with`, or the
session of `_run_session` when `served`, chosen at the start; another iterates
it. A write is begun on the loop (`Write`: `_live()` and the start of a thread),
reaches the stream on its thread (`WriteRuns`) and returns or raises
(`WriteReturns`); `writes` and `written` record the order in which writes were
begun and in which they landed. Writes that end the stream (`abort`, `close`) are
of kind "end", all others "send". `EndsWith`, `SessionGoesOn` and `Leaves` are
`_run_session` after its handler: `close`, or `abort` if the handler or that close
raised anything but `ClosedError`, and the free in its `finally`. A close that
fails otherwise is thus aborted with `handler_error` although the handler
returned.

`free()` is `FreeTakes` (the handle is looked at and given up) and `FreeCalls`
(`macula_stream_free`): on the loop, which it holds (`FreeNow`, `inFree`), or on a
thread of `run_native` (`leaving`). The look and the swap are one step: they are
adjacent bytecodes, between which CPython's evaluation loop does not switch
threads. A build without the GIL would part them.

`ReadBegins`, `RecvTakes`, `RecvEnds`, `RecvReturns` are `recv` and `__anext__`, over
frames of four kinds: those read on from (data, end, reply), `StreamEof`, the
STREAM_ERROR that is raised, and one `_frame` does not know, or whose payload does
not decode, which is raised too and has been taken by its reader all the same. A receive whose task is
cancelled becomes a stray, as in `Inbox`. `CancelWrite`, `CancelRead` and `CancelFree`
are cancellations at each await; `CancelledTo` says where the task goes then.

### Pool

A method is a record of what the code does with its native call: on a thread
with a token, without one, or on the loop; whether it makes an object; whether
a result nobody awaits is discarded; whether arguments are refused before the
handle is asked for; which error means `None`. Methods with equal records behave
alike. An operation is `Refused`, or `AsksTheLoop`, or goes through `Begin`,
`NativeEnds` and `Lands`, with `Cancel` anywhere and then `Discards`. `object` is what
it made natively and `releases` how often that was released, by `Discards`, by
the application (`Stops`) or, for the pool itself, by `CloseRuns`. `Tells` is the way
of an error from its kind, through `native_error` and `run_blocking`, to the
`except` of the method. `CloseBegins` gives the handle up and starts the thread;
`CloseCancelled` leaves that running.

### NativeLibrary and NodeKeys

`native()` is `Enter` (the lock), `Found`, or `LookUp` and `Open`, and `Leave`, with
threads switched between; the file `MACULA_LIBRARY_PATH` names may change until
a library is loaded (`NameFile`). `Verdict` lists the refusals in order.

An operation of a key is `Begin`, the steps of `native()`, `Prepares` (`_live()` and
the conversion of arguments), `Calls` (`invoke`) and then `Takes` (a string or bytes
decoded, and freed in a `finally`) or `Wraps` (the new `NodeKey`, or the discard).
The loop may close once no task awaits an operation (`LoopCloses`): a key made after
that for a cancelled task reaches no discard (`dropped`), since the thread's
`call_soon_threadsafe` fails (`_blocking.py:61-64`). `NoKeyLeaked` states this as its
exception; it is what `leak_when_loop_closes` shows of the await itself.
`free()` is `FreeBegins` and `FreeEnds`. A key nobody refers to is collected on any
thread, on top of what that does (`Collect`, `Sweep`): also inside `native()`, whose
lock is not reentrant, which is harmless because the finalizer holds the bound
method `native().call` and does not ask for the library. A coroutine's frame refers to its key until its task is
cancelled, so `Pool.connect`, which keeps only the key's handle, keeps the key too.
The finalizer's run at interpreter exit is left out.

### Wire

Values are trees of records; the atoms are those the code tells apart.
`Payloads` and `Documents` are the values there are, of bounded `Depth`; a recursive
function of the code is a recursive function on these, whose one level is an
operator of its own (`Converted`, `Loaded`, `SeenAs`). `ClosureAssumption` says that
what the code makes of a value is among them, which TLC checks of the sets it is
given. `ToWire`
is `_to_wire` with `_to_wire_map` and raises the first error in order; `Dumps` is
the refusal of `json.dumps`, which comes after all of them, so a payload with a
NaN before a bool raises the bool's error. `DecodePayload` calls the object hook
`FromWire` innermost first, as `json.loads` does, so an object whose `$bytes`
turned into bytes is not tagged any more. A byte string has the text `b64encode`
writes (`B64`) and may have others that `b64decode(validate=True)` reads as it, whose
last character has bits to spare (`Loose`: "AR==" beside "AQ=="); any other text is
refused. Only an application's own `{"$bytes": "AR=="}` puts one on the wire; it is
received as bytes, and sent back as "AQ==". `Send`, `Receive` and `SendBack` take
one payload through a call and an echoing answer. The native library is taken to
hand over the text it was given; `Served` allows it to refuse one.

## Runs

| Run | Question | Bounds |
|---|---|---|
| `await_kept` | no leak, cancelled calls end, the promise with its fairness | one call that makes a handle, one that does not, both `run_blocking`; the loop stays open |
| `await_closing` | the cancellation protocol in every interleaving; cancelling returns at once; each step is one of `Pool`'s | one `run_blocking`, one `run_native`; the loop may close |
| `served` | every item set out to be settled once and settled unless its answer fails, `stop` leaves nothing, failures surface, `stop` ends, and `AbstractServed` is implemented, fairness included | two items, either of which may not decode, two callers of `stop`, both of which may be cancelled |
| `inbox` | events heard once and in order, loss accounted for, the end comes last, iteration ends | four events through an inbox of two, one of which may not decode, an iterator beside a poller, two cancelled waits |
| `stream` | writes in order, frames read once, freed once whoever frees, leaving frees, iteration ends | the owner, which reads too, and a task that iterates; one write besides those that end a session, two frames, two cancellations |
| `pool` | each object released once, named errors, everything ends with the pool | `connect` and two operations of any kind, two callers of `close`, five kinds of error |
| `keys` | one checked library, keys freed exactly once and never under an operation, no lock kept, no key leaked but by a loop that closed | two threads, one key, nine libraries, a loop that may close |
| `wire` | what is refused, what arrives, what goes back | all containers of up to two of 15 atoms, and those of up to one atom inside another container, alone or after an atom; 4-bit integers, at and one past both bounds |
| `leak_when_loop_closes`, `leak_of_native_maker`, `stop_retried`, `event_lost` | disagreements of the code with what it says, below | the least that shows them |

Calls share nothing but the loop, on which one callback runs at a time, so two
calls show every way one can be between another's steps; three of a kind add no
new pair. Two items show one taken by a cancelled wait beside one being
handled, two handlers cancelled together, and one item arriving behind another. Four
events overflow an inbox of two while a reader holds one; two cancellations let
two strays compete with a wait. A write of a session's handler, its `close` and its
`abort` show a cancelled write beside the next; two frames show one taken and one
waiting, or one and the end; with two readers either may take the frame that ends the
stream, and with two cancellations the owner leaves cancelled and is cancelled again
as it frees. A free on
the loop and one on a thread are the only two there can be at once. Two
operations of a pool show an object one of them shares and the other unshares,
and each beside a close; the five kinds of error are those treated differently on
the way up, any other being raised as its class. Two threads show one inside
`native()` and one waiting for the lock, or one that frees a key and one that uses
it; keys do not know of each other. The codec recurses the same way at every level,
so two levels with each kind of container in each show how levels meet.
Deadlock is not checked: a model stops when its calls, or items, are used up.

### Fairness

`LoopFairSpec` assumes that a running event loop gets to every ready callback,
and nothing of the threads: they may be stuck in native calls for ever.
`FairSpec` of `BlockingCall` adds that threads are scheduled and that a native
call whose token is cancelled ends, which is what the C header says of
`macula_cancel`; an uncancelled call may wait for ever, as inbox waits do.
`FairSpec` of `Served` assumes the loop, the threads and `macula_served_stop`
to go on, and a handler to end in the end once it has been cancelled: a handler
that ignores cancellation for ever keeps `stop()` waiting, in the code too.
Nothing is assumed of handlers before that, nor of the native wait.
`FairSpec` of `Inbox` assumes the loop and the thread of `stop()`, that a native
wait ends when it has an event or an end to give, and that the body of an
`async for` comes back; nothing is assumed of a task that polls.
`FairSpec` of `Streams` assumes the loop, the threads of `free`, that
`macula_stream_free` returns and that a receive ends once it can; nothing of writes,
which may stall on a peer, and nothing of an owner still in its block.
`FairSpec` of `Pool` assumes the loop, that `macula_pool_close` returns, and that a
native call ends once its token is cancelled or its pool is closed.
`FairSpec` of `NodeKeys` assumes that threads run, that native calls on keys return,
and that CPython collects an object nothing refers to; nothing is assumed of the
loop, which may close or stay.

## Proofs

Each theorem holds for every value of the constants its module's named
assumption allows: any calls, items, readers, tasks, operations, threads and
keys, any capacity and any of the bounds the runs use. Three ask for more than a
type. `Served` asks for finite sets of items and of callers of `stop()`, since the loop
puts the tasks it cancels in a queue. `Wire` asks for values that nest to a bounded
depth (Python's recursion limit bounds it in the code) and for sets of them closed
under the conversions. `PoolCall` asks that makers run by `run_blocking` have a
discard.

| Module | Theorem | Property |
|---|---|---|
| `BlockingCallProofs` | `TypeCorrect`, `CancellationReaches`, `CancellationIsHonoured`, `OneFate` | `TypeOK`, `CancelReachesTheCall`, `CancelledExactlyWhenAsked`, `HandleHasOneFate` |
| | `NothingLeaks` | `NoHandleLeaked`, when the loop stays open and every maker has a discard, the conditions whose absence two violation runs exhibit |
| | `Implements` | every behaviour of `Spec` is one of `AbstractCall!Spec` |
| | `AwaitsArePools` | `AwaitsAsPoolTakesThem` |
| `ServedProofs` | `TypeCorrect`, `EveryItemIsSettledOnceOrFailed`, `StopIsABarrier`, `FailuresSurface` | `TypeOK`, `SettledOnceOrFailed`, `StopLeavesNothingRunning`, `FailureSurfaces` |
| | `Implements` | every behaviour of `Spec` is one of `AbstractServed!Spec` |
| `InboxProofs` | `TypeCorrect`, `HeardByOneInOrder`, `LossesAreAccounted`, `ClosedAfterTheLast` | `TypeOK`, `HeardOnceInOrder`, `LossAccountedFor`, `EndIsLast` |
| | `HeardOrCountedUndisturbed` | `EachEventHeardOrCounted` while no wait was cancelled and every payload taken decoded: `event_lost` refutes it otherwise |
| `StreamsProofs` | `TypeCorrect`, `WritesAsTold`, `FramesHeardOnce`, `FreedAtMostOnce` | `TypeOK`, `WritesLandInOrder`, `FramesReadOnce`, `FreedOnce` |
| `PoolProofs` | `TypeCorrect`, `ReleasedAtMostOnce`, `OperationsAreToldAsNamed` | `TypeOK`, `ReleasedOnce`, `ErrorsAsNamed`, the last an action property |
| `NodeKeysProofs` | `TypeCorrect`, `OneLibrary`, `FreedOnce`, `FreedKeysAreClosed` | `TypeOK`, `OneFitLibrary`, `FreedExactlyOnce`, `FreedMeansClosed` |
| `WireProofs` | `RefusedExactlyHolds`, `ArrivesAsSentHolds`, `SentBackUnchangedHolds` | `RefusedExactly`, `ArrivesAsSent`, `SentBackUnchanged`, the last an action property |

Few of these are inductive alone. Each module's `IInv` is the conjunction of
its type invariant and the parts below; one lemma per action, or per action and
part, shows that a step keeps it, and `Inductive` collects them. TLC checked
each `IInv` as an invariant before it was proved.

`BlockingCall`. That a cancelled call's token is cancelled holds because the
flag is set before the list is read, and that needs: what the thread's place
says of the token (`ThreadInv`), which task is inside `_end_the_call` (`LoopInv`), who
set the flag and for whom the token is still to be cancelled (`CancelInv`), and
what each ready callback says of the futures (`CallbackInv`). That a handle has
one fate needs where its result is on its way to the discard (`DiscardInv`), and
that it is not leaked needs that it is on its way at all (`ProgressInv`).
`Implements` maps a task inside `_end_the_call` to `running`, so that leaving it is
`Abandon`, and needs the invariant to show that a handle appears only while its
call is running or cancelled, that a failed call has none and that a discard
finds it live. `TypeOK` of this module is proved and not run.

`AwaitsArePools` composes `BlockingCall` with `Pool`. A step of one call changes one
operation (`OneMoves`), so there is one lemma for each kind of step, which shows it
to be the step of `Pool` it stands for, and `UnseenSteps` for the rest. It needs the
invariant where the loop and the thread meet: a task that wakes with an outcome
finds its thread ended, and that outcome is not a `NativeCancelled` a `run_blocking`
would turn into a cancellation; and a result is discarded only for a task that was
told `CancelledError`, after its thread has ended.

`Served`. The order of the loop's queue carries it. An item's task is queued in
the turn that takes the item, ahead of the next step of the serve loop
(`QueueInv`, with `Ahead` of `QueueFacts`), and only the end of that loop lets `stop()`
cancel handlers, so that no task is cancelled before its first step and none is
lost with its item. An item is on its way through the one native wait or has
a task, and where it is says whether Python has set out to settle it, and then
either a thread is at it, it is settled, or its answer failed (`WaitInv`, `TriesInv`). A
`stop()` that waits for the loop or for the handlers is woken only by their end
(`BarrierInv`), and only the caller that got the handle withdraws
(`WithdrawInv`). `EndInv` says why the loop ended. `Implements` shows that each
of the module's actions is one of `AbstractServed`'s, or a stutter; it needs
`BarrierInv` for the step that starts an item, since none may start after the stop,
and `TriesInv` for those that end one. `AbstractServed` counts a call as answered once
Python has set out to answer it; that the answer may then fail is in
`SettledOnceOrFailed`.

`Inbox`. What a reader heard or is about to hear came before all the inbox
holds, the inbox is in order, and no two readers have the same event
(`OrderInv`): an event moves from one place to the next. Counting the places
gives `LossAccountedFor`, which is inductive with it. A wait that ended with the
subscription found the inbox drained (`DrainInv`).

`Streams`. The handle, and then exactly one call of `free()`, stands for the
native stream (`FreeInv`). A write is in one state as its task, its thread and
the stream see it (`WritesAgree`), and one that is awaited is the last its task
began, so that only a write given up can be overtaken by a later one of its
task. Frames are followed by number, as the events of `Inbox` are
(`FrameInv`).

`Pool`. `OpInv` follows an operation from its call to what it is told, and says
that an object nobody was given is one whose method has no discard.
`HandleInv` follows the pool's handle from `connect()` to the one thread that
closes it. `ErrorsAsNamed` speaks of steps: a step that tells an operation
something is taken from each action in turn.

`NodeKeys`. A thread that opens a library holds the lock, so nothing was loaded
since it looked (`LibraryInv`). A key being made is known to its maker alone
(`MakerInv`); after that its native side is with its finalizer, on its way
through one, or freed (`OwnerInv`), and until `free()` is called nothing frees a key
somebody refers to (`HeldInv`).

`Wire`. The theorems are inductions over values. The library's induction theorems
take an operator, which the provers cannot instantiate, so the induction is on sets:
`Least` gives the least depth at which a set of values is left, and `Structural`
concludes that a set which holds a value whenever it holds all that is inside it
holds every value. The same argument shows that the recursive functions satisfy
their equations. `ConvertedExactly`: `_to_wire` raises exactly when something in the
payload has no form on the wire, a NaN apart, which `MarksCarried` follows into the
document so that `json.dumps` finds it; the two give `EncodedExactly`.
`ArrivesExactly`: what is decoded is the payload with lists for tuples exactly when
no map in it looks like tagged bytes, also where such a map makes an outer one look
different. `EchoedExactly`: a value read from a document whose integers are in
range is encoded, what that gives is read as the same value, and it is that document
exactly when no bytes in it came in a text `b64encode` does not write.

Left to TLC: the liveness properties (`CancelReturnsAtOnce`, `CancelledCallEnds`,
`StopTerminates`, `HeldItemsSettled`, `IterationEnds`, `LeavingFrees`, `EndsWithPool`,
`LockReleased`, `LoadIsRetried`, `NoKeyLeaked`) and the fairness part of both
refinements (`KeepsThePromise`), which rest on ENABLED. Every safety property the
passing runs check has a theorem.

## Where the code and what it says disagree

- `leak_when_loop_closes`: a closed loop takes no result, so a result of a
  cancelled call that comes later is dropped without its discard
  (`_blocking.py:61-64`), against "released rather than leaked" (12-14).
- `leak_of_native_maker`: `subscribe`, `serve` and `serve_stream` make their
  handle through `run_native`, which has no discard, during a wait of up to 30
  seconds; the comment at `pool.py:697-699` calls that outcome what
  `subscribe_group`'s discard is there to prevent.
- `stop_retried`: a `stop()` that was cancelled or failed cannot be made good by
  another: the second returns at once and handlers run on (`pool.py:394-398`).
- `event_lost`: an event taken by a wait whose task is cancelled is neither heard
  nor counted (`pool.py:274`, `642`). `LossAccountedFor` shows that there is one other
  way, an event whose payload does not decode once it was taken (277), and that each
  cancelled wait loses at most one.

Four smaller ones have no run of their own. `Wire`: a map whose only key is
`$bytes`, with a string, is a legal payload that arrives as bytes or makes the
payload undecodable (`_wire.py:208-211`); `ArrivesAsSent` states exactly these as the
exceptions. `Served` and `Inbox`: such a payload, once it reaches a subscription, ends
an iteration and loses its event, and if the native library hands it to a served
procedure it ends serving with its item in nobody's hands (`pool.py:277`, `386-391`);
a handler that returns one may leave its caller unanswered until the deadline
(`pool.py:436-441`). `Pool`: a native call without a token that reports "cancelled" raises
`NativeCancelled`, which is no `MaculaError`, where `_wire.py:35-36` calls that the base
of every macula-py error; `ErrorsAsNamed` states it as an exception. `BlockingCall`: a
token is cancelled until its outcome reaches the loop, not only until the call
has returned (`_blocking.py:92-93`), which has no effect, the token being used by
no other call.

## Not modelled, and the plan

Taken from the native library: that the JSON it hands out is well formed, that
its handles are not reused, that a withdrawn procedure's calls are answered and
that closing a pool ends the calls on it. An item's JSON is also taken to have the
fields `request_from` (`stream.py:74-76`) and `Subscription.next` read, which the native
library writes; only its payload, the peer's, may fail to decode. The `detail` text of an answer, logging and the `async with` forms of
subscriptions and served procedures, which call `stop`, are left out, and so are
`Stream.report`, which only asks, the options and texts an error carries beside
its class, and `native_error`'s own failure on JSON of another shape (a `kind` that
cannot be hashed). The loop's shutdown under a served procedure nobody stopped is
left out, and the finalizers at interpreter exit. The interop programs and the
build of the native library are outside the binding.

Next, in this order:

1. An abstract lossy queue, which `Inbox` and the frames of `Streams` implement,
   with the proof of both.
2. `BlockingCall` under `Served`, `Inbox` and `Streams`, as `PoolCall` has it under
   `Pool`: that the waits those modules take as one await are its calls.
3. The conversions of `device_request.request_json` beside those of `Wire`.
