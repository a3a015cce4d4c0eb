-------------------------------- MODULE Inbox --------------------------------
(***************************************************************************)
(* A subscription: the class Subscription of src/macula_py/pool.py over    *)
(* the native library's bounded inbox.  Pool.next_event takes from the     *)
(* pool's inbox of link events in the same way, with Pool.close() in the   *)
(* place of stop() and no iterator.                                        *)
(*                                                                         *)
(* Readers are tasks that take events: iterators with async for, the rest  *)
(* with next(timeout_ms).  A take is one await of run_blocking, which      *)
(* behaves as BlockingCall shows: a cancelled one ends at once, and its    *)
(* native wait goes on for a while as a stray.  It has no discard, so what *)
(* a stray takes nobody sees.  An event is decoded once it was taken, and  *)
(* that may raise.                                                         *)
(*                                                                         *)
(* Events are numbered in the order in which they reach the inbox.         *)
(***************************************************************************)
EXTENDS Naturals, FiniteSets, SequencesExt

CONSTANTS Readers,    \* the tasks that take events
          Iterators,  \* those that iterate the subscription
          Capacity,   \* of the native inbox: 256 in the code
          MaxEvents,  \* bound: events that reach the inbox
          MaxCancels, \* bound: cancellations of a waiting reader
          MaxUnread   \* bound: events whose payload does not decode

ASSUME InboxAssumption == /\ Iterators \subseteq Readers
                          /\ Capacity \in Nat \ {0}
                          /\ MaxEvents \in Nat /\ MaxCancels \in Nat /\ MaxUnread \in Nat

VARIABLES
  inbox,    \* the native inbox
  arrived,  \* how many events reached it
  dropped,  \* how many it had no room for, as Subscription.dropped() tells
  source,   \* what feeds it: "open", "ended" with the pool, "freed" by stop()
  handle,   \* Subscription._handle is not None
  closed,   \* Subscription.closed
  reader,   \* where each reader is
  wait,     \* the native wait of its take, or how that ended
  event,    \* the event that wait took
  heard,    \* the events each reader was given, in order
  unread,   \* how many events a reader took and could not decode
  strays,   \* native waits whose reader was cancelled
  cancels   \* how many readers were cancelled while they waited

nativeVars == <<inbox, arrived, dropped, source>>
readerVars == <<reader, wait, event, heard, unread>>
vars == <<nativeVars, handle, closed, readerVars, strays, cancels>>

NoEvent == 0

TypeOK ==
  /\ inbox \in Seq(1..MaxEvents) /\ Len(inbox) <= Capacity
  /\ arrived \in 0..MaxEvents /\ dropped \in 0..arrived
  /\ source \in {"open", "ended", "freed"}
  /\ handle \in BOOLEAN /\ closed \in BOOLEAN
  /\ reader \in [Readers -> {"idle", "waiting", "over", "raised"}]
  /\ wait \in [Readers -> {"none", "pending", "got", "closed", "empty", "failed"}]
  /\ event \in [Readers -> 0..MaxEvents]
  /\ heard \in [Readers -> Seq(1..MaxEvents)]
  /\ unread \in 0..MaxUnread /\ strays \in 0..MaxCancels /\ cancels \in 0..MaxCancels
  /\ \A r \in Readers : /\ wait[r] = "none" <=> reader[r] # "waiting"
                        /\ wait[r] = "got" <=> event[r] # NoEvent

Init ==
  /\ inbox = <<>> /\ arrived = 0 /\ dropped = 0 /\ source = "open"
  /\ handle = TRUE /\ closed = FALSE
  /\ reader = [r \in Readers |-> "idle"]
  /\ wait = [r \in Readers |-> "none"]
  /\ event = [r \in Readers |-> NoEvent]
  /\ heard = [r \in Readers |-> <<>>]
  /\ unread = 0 /\ strays = 0 /\ cancels = 0

-----------------------------------------------------------------------------
(* The native inbox.                                                       *)

\* An event comes; which one a full inbox drops is the library's affair.
Arrives ==
  /\ source = "open" /\ arrived < MaxEvents
  /\ arrived' = arrived + 1
  /\ \/ /\ Len(inbox) < Capacity
        /\ inbox' = Append(inbox, arrived + 1)
        /\ UNCHANGED dropped
     \/ /\ Len(inbox) = Capacity
        /\ inbox' \in {inbox, Append(Tail(inbox), arrived + 1)}
        /\ dropped' = dropped + 1
  /\ UNCHANGED <<source, handle, closed, readerVars, strays, cancels>>

\* The pool closes: what the inbox holds can still be taken.
PoolCloses ==
  /\ source = "open" /\ source' = "ended"
  /\ UNCHANGED <<inbox, arrived, dropped, handle, closed, readerVars, strays, cancels>>

Drained == source # "open" /\ inbox = <<>>

\* How a native wait may end without an event.  One that is under way when
\* its subscription is freed ends with the inbox or fails; an iterator's, with
\* timeout_ms 0, does not run out of time.
Endings(r) == (IF Drained THEN {"closed"} ELSE {})
              \cup (IF source = "freed" THEN {"failed"} ELSE {})
              \cup (IF r \in Iterators THEN {} ELSE {"empty"})

-----------------------------------------------------------------------------
(* Taking an event: _next_item.                                            *)

Takes(r) ==
  /\ wait[r] = "pending" /\ inbox # <<>>
  /\ wait' = [wait EXCEPT ![r] = "got"]
  /\ event' = [event EXCEPT ![r] = Head(inbox)]
  /\ inbox' = Tail(inbox)
  /\ UNCHANGED <<arrived, dropped, source, handle, closed, reader, heard, unread, strays, cancels>>

WaitEnds(r) ==
  /\ wait[r] = "pending"
  /\ \E how \in Endings(r) : wait' = [wait EXCEPT ![r] = how]
  /\ UNCHANGED <<nativeVars, handle, closed, reader, event, heard, unread, strays, cancels>>

\* A stray takes an event before it hears of its cancellation, or ends.
StrayEnds ==
  /\ strays > 0
  /\ strays' = strays - 1
  /\ inbox' \in {inbox} \cup (IF inbox = <<>> THEN {} ELSE {Tail(inbox)})
  /\ UNCHANGED <<arrived, dropped, source, handle, closed, readerVars, cancels>>

-----------------------------------------------------------------------------
(* The readers: Subscription.next and __anext__.                           *)

\* Slip: a reader leaves with the event it took still on record.
LeavesHolding(r, where) ==
  /\ reader' = [reader EXCEPT ![r] = where]
  /\ wait' = [wait EXCEPT ![r] = "none"]
  /\ UNCHANGED event

\* The await is over, with whatever it took.
Leaves(r, where) ==
  /\ reader' = [reader EXCEPT ![r] = where]
  /\ wait' = [wait EXCEPT ![r] = "none"]
  /\ event' = [event EXCEPT ![r] = NoEvent]

\* _live(): the handle, or ClosedError once stop() has taken it.
Begin(r) ==
  /\ reader[r] = "idle"
  /\ \/ /\ handle
        /\ reader' = [reader EXCEPT ![r] = "waiting"]
        /\ wait' = [wait EXCEPT ![r] = "pending"]
     \/ /\ ~handle
        /\ reader' = [reader EXCEPT ![r] = "raised"]
        /\ UNCHANGED wait
  /\ UNCHANGED <<nativeVars, handle, closed, event, heard, unread, strays, cancels>>

\* Slip: the iterator looks at closed, which another reader may have set,
\* before the event it was given.
HearsUnlessClosed(r) ==
  /\ reader[r] = "waiting" /\ wait[r] = "got"
  /\ heard' = IF closed THEN heard ELSE [heard EXCEPT ![r] = Append(@, event[r])]
  /\ Leaves(r, IF closed THEN "over" ELSE "idle")
  /\ UNCHANGED <<nativeVars, handle, closed, unread, strays, cancels>>

Hears(r) ==
  /\ reader[r] = "waiting" /\ wait[r] = "got"
  /\ heard' = [heard EXCEPT ![r] = Append(@, event[r])]
  /\ Leaves(r, "idle")
  /\ UNCHANGED <<nativeVars, handle, closed, unread, strays, cancels>>

\* decode_payload raises, which ends an iteration; its task may begin another,
\* or take again, but the event is not in the inbox any more.
CannotRead(r) ==
  /\ unread < MaxUnread /\ reader[r] = "waiting" /\ wait[r] = "got"
  /\ unread' = unread + 1
  /\ \E where \in {"idle", "raised"} : Leaves(r, where)
  /\ UNCHANGED <<nativeVars, handle, closed, heard, strays, cancels>>

\* Slip: no event at all is taken for the end.
EmptyEnds(how) == how \in {"closed", "empty"}

\* (None, closed) of _next_item: the flag the native call wrote.
SaysClosed(how) == how = "closed"

\* Slip: the iterator goes on until it is given an event.
IterationGoesOn(r) == FALSE

\* An iterator ends when the subscription has; next() returns None.
IterationStops(r) == r \in Iterators /\ closed'

HearsNothing(r) ==
  /\ reader[r] = "waiting" /\ wait[r] \in {"closed", "empty"}
  /\ closed' = (closed \/ SaysClosed(wait[r]))
  /\ Leaves(r, IF IterationStops(r) THEN "over" ELSE "idle")
  /\ UNCHANGED <<nativeVars, handle, heard, unread, strays, cancels>>

HearsError(r) ==
  /\ reader[r] = "waiting" /\ wait[r] = "failed"
  /\ Leaves(r, "raised")
  /\ UNCHANGED <<nativeVars, handle, closed, heard, unread, strays, cancels>>

\* Slip: an event whose reader is gone is given back to the inbox.
GivesBack(r) == inbox' = IF event[r] = NoEvent THEN inbox ELSE Append(inbox, event[r])

\* No discard: what the cancelled wait took is forgotten.
Forgets(r) == UNCHANGED inbox

\* A waiting reader is cancelled, by wait_for for one, and may take again.  Its
\* native wait, if still under way, becomes a stray.
Cancel(r) ==
  /\ cancels < MaxCancels /\ reader[r] = "waiting"
  /\ cancels' = cancels + 1
  /\ strays' = IF wait[r] = "pending" THEN strays + 1 ELSE strays
  /\ Leaves(r, "idle")
  /\ Forgets(r)
  /\ UNCHANGED <<arrived, dropped, source, handle, closed, heard, unread>>

-----------------------------------------------------------------------------
(* Subscription.stop().                                                    *)

StopBegins ==
  /\ handle /\ handle' = FALSE
  /\ UNCHANGED <<nativeVars, closed, readerVars, strays, cancels>>

\* macula_subscription_stop, on a thread, frees the subscription.
StopEnds ==
  /\ ~handle /\ source # "freed"
  /\ source' = "freed"
  /\ UNCHANGED <<inbox, arrived, dropped, handle, closed, readerVars, strays, cancels>>

-----------------------------------------------------------------------------

LoopStep(r) == Hears(r) \/ CannotRead(r) \/ HearsNothing(r) \/ HearsError(r)

Next == \/ Arrives \/ PoolCloses \/ StrayEnds \/ StopBegins \/ StopEnds
        \/ \E r \in Readers : \/ Begin(r) \/ Takes(r) \/ WaitEnds(r)
                              \/ LoopStep(r) \/ Cancel(r)

Spec == Init /\ [][Next]_vars

\* The loop and the threads go on, a native wait ends when it can, and the
\* body of an async for comes back for the next event.
FairSpec ==
  /\ Spec
  /\ WF_vars(StopEnds)
  /\ \A r \in Readers : /\ WF_vars(LoopStep(r))
                        /\ WF_vars(Takes(r) \/ WaitEnds(r))
  /\ \A r \in Iterators : WF_vars(Begin(r))

-----------------------------------------------------------------------------
(* Properties.                                                             *)

Inboxed == ToSet(inbox)
Taken(r) == ToSet(heard[r]) \cup ({event[r]} \ {NoEvent})
Accounted == Inboxed \cup UNION {Taken(r) : r \in Readers}

\* An event is heard by one reader, once, and each reader hears events in the
\* order in which they came, however its waits were cancelled and retried.
HeardOnceInOrder ==
  /\ \A r \in Readers :
       LET mine == IF event[r] = NoEvent THEN heard[r] ELSE Append(heard[r], event[r])
       IN  \A i, j \in DOMAIN mine : i < j => mine[i] < mine[j]
  /\ \A r, s \in Readers : r # s => Taken(r) \cap Taken(s) = {}
  /\ \A r \in Readers : \A e \in Taken(r), f \in Inboxed : e < f

\* Every event that is not heard, nor about to be, nor waiting in the inbox was
\* counted as dropped, except the one taken each time a payload did not decode,
\* which no other reader is given, and at most one for each wait that was cancelled.
LossAccountedFor ==
  LET lost == arrived - dropped - Cardinality(Accounted)
  IN  unread <= lost /\ lost + strays <= cancels + unread

\* closed is never set before the last event was taken: no event comes or is
\* in the inbox once a reader could see it.
EndIsLast == closed => Drained

\* When the pool closes or stop() is called, every iteration ends, with
\* StopAsyncIteration or an error, whatever the inbox still held and whoever
\* else was waiting.
IterationEnds == \A r \in Iterators :
  source # "open" ~> reader[r] \in {"over", "raised"}

\* The docstring of Pool.subscribe(): "each verified event is heard once".  Once
\* the subscription has ended, every event was heard or counted as dropped.
EachEventHeardOrCounted ==
  closed => arrived = dropped + Cardinality(Accounted)
=============================================================================
