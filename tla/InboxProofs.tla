----------------------------- MODULE InboxProofs -----------------------------
(***************************************************************************)
(* Theorems about Inbox, for any readers, capacity and number of events    *)
(* and cancellations.                                                      *)
(*                                                                         *)
(* What every reader has heard or is about to hear came before all that    *)
(* the inbox still holds, and what the inbox holds is in order.  So an     *)
(* event moves from one place to the next and is never in two, and the     *)
(* events that are nowhere can be counted.                                 *)
(***************************************************************************)
EXTENDS Inbox, QueueFacts

\* Each reader is given events in order, none that another reader was given,
\* and only such as came before all in the inbox.
OrderInv ==
  /\ Increasing(inbox)
  /\ \A r \in Readers : Increasing(heard[r])
  /\ \A r \in Readers : event[r] # NoEvent => \A e \in ToSet(heard[r]) : e < event[r]
  /\ \A r, s \in Readers : r # s => Taken(r) \cap Taken(s) = {}
  /\ \A r \in Readers : \A e \in Taken(r), f \in Inboxed : e < f
  /\ Accounted \subseteq 1..arrived

\* A wait that ended because the subscription had is told so after the last event.
DrainInv == closed \/ (\E r \in Readers : wait[r] = "closed") => Drained

IInv == TypeOK /\ OrderInv /\ LossAccountedFor /\ DrainInv

-----------------------------------------------------------------------------
(* Where the events are.                                                   *)

LEMMA TypeFacts ==
  ASSUME TypeOK
  PROVE  /\ inbox \in Seq(Nat) /\ \A r \in Readers : heard[r] \in Seq(Nat) /\ event[r] \in Nat
         /\ arrived \in Nat /\ dropped \in Nat /\ strays \in Nat /\ cancels \in Nat
         /\ unread \in Nat /\ Inboxed \subseteq 1..MaxEvents /\ \A r \in Readers : Taken(r) \subseteq 1..MaxEvents
<1>1. MaxEvents \in Nat /\ MaxCancels \in Nat /\ MaxUnread \in Nat /\ 1..MaxEvents \subseteq Nat
  BY InboxAssumption
<1>2. inbox \in Seq(Nat) /\ \A r \in Readers : heard[r] \in Seq(Nat)
  BY <1>1, SeqMonotonic DEF TypeOK
<1>3. \A q \in Seq(1..MaxEvents) : ToSet(q) \subseteq 1..MaxEvents
  BY ToSetFacts
<1> QED  BY <1>1, <1>2, <1>3 DEF TypeOK, Inboxed, Taken, NoEvent

LEMMA AppendsEvent ==
  ASSUME NEW q \in Seq(1..MaxEvents), NEW e \in 1..MaxEvents
  PROVE  /\ Append(q, e) \in Seq(1..MaxEvents) /\ Len(Append(q, e)) = Len(q) + 1
         /\ ToSet(Append(q, e)) = ToSet(q) \cup {e}
<1>1. \A S : q \in Seq(S) /\ e \in S => ToSet(Append(q, e)) = ToSet(q) \cup {e}
  BY AppendFacts
<1>2. Append(q, e) \in Seq(1..MaxEvents) /\ Len(Append(q, e)) = Len(q) + 1
  BY AppendProperties
<1> QED  BY <1>1, <1>2

\* The events accounted for can be counted.
LEMMA CountFacts ==
  ASSUME IInv
  PROVE  /\ Cardinality(Accounted) \in Nat
         /\ \A x : x \notin Accounted => Cardinality(Accounted \cup {x}) = Cardinality(Accounted) + 1
         /\ \A x \in Accounted : Cardinality(Accounted \ {x}) = Cardinality(Accounted) - 1
         /\ \A x \in Accounted : \A y : y \notin Accounted =>
              Cardinality((Accounted \ {x}) \cup {y}) = Cardinality(Accounted)
<1>1. IsFiniteSet(1..arrived)
  BY TypeFacts, FS_Interval DEF IInv
<1>2. IsFiniteSet(Accounted)
  BY <1>1, FS_Subset DEF IInv, OrderInv
<1>3. \A x \in Accounted : /\ IsFiniteSet(Accounted \ {x})
                           /\ Cardinality(Accounted \ {x}) = Cardinality(Accounted) - 1
  BY <1>2, FS_RemoveElement
<1>4. ASSUME NEW x \in Accounted, NEW y, y \notin Accounted
      PROVE  Cardinality((Accounted \ {x}) \cup {y}) = Cardinality(Accounted)
  <2>1. Cardinality((Accounted \ {x}) \cup {y}) = Cardinality(Accounted \ {x}) + 1
    BY <1>3, <1>4, FS_AddElement
  <2>2. Cardinality(Accounted) \in Nat
    BY <1>2, FS_CardinalityType
  <2> QED  BY <1>3, <2>1, <2>2
<1> QED  BY <1>2, <1>3, <1>4, FS_CardinalityType, FS_AddElement

\* What no reader is given and the inbox does not change stays where it is.
LEMMA NothingMoves ==
  ASSUME UNCHANGED <<inbox, event, heard>>
  PROVE  UNCHANGED <<Inboxed, Accounted>> /\ \A r \in Readers : Taken(r)' = Taken(r)
BY DEF Inboxed, Accounted, Taken

LEMMA NothingMovesKeeps ==
  ASSUME IInv, UNCHANGED <<inbox, arrived, dropped, event, heard, unread, strays, cancels>>
  PROVE  OrderInv' /\ LossAccountedFor'
<1>1. UNCHANGED <<Inboxed, Accounted>> /\ \A r \in Readers : Taken(r)' = Taken(r)
  BY NothingMoves
<1> QED  BY <1>1 DEF IInv, OrderInv, LossAccountedFor

\* The head of the inbox leaves it.
LEMMA HeadLeaves ==
  ASSUME IInv, inbox # <<>>
  PROVE  /\ Head(inbox) \in 1..arrived /\ Head(inbox) \in Accounted
         /\ Head(inbox) \in 1..MaxEvents
         /\ Tail(inbox) \in Seq(1..MaxEvents) /\ Len(Tail(inbox)) = Len(inbox) - 1
         /\ Increasing(Tail(inbox))
         /\ Inboxed = {Head(inbox)} \cup ToSet(Tail(inbox)) /\ Head(inbox) \notin ToSet(Tail(inbox))
         /\ \A f \in ToSet(Tail(inbox)) : Head(inbox) < f
         /\ \A r \in Readers : Head(inbox) \notin Taken(r)
<1>1. inbox \in Seq(Nat) /\ inbox \in Seq(1..MaxEvents)
  BY TypeFacts DEF IInv, TypeOK
<1>2. /\ Increasing(Tail(inbox)) /\ \A e \in ToSet(Tail(inbox)) : Head(inbox) < e
      /\ Inboxed = {Head(inbox)} \cup ToSet(Tail(inbox)) /\ Head(inbox) \notin ToSet(Tail(inbox))
  BY <1>1, IncreasingTail DEF IInv, OrderInv, Inboxed
<1>3. Tail(inbox) \in Seq(1..MaxEvents) /\ Len(Tail(inbox)) = Len(inbox) - 1
  BY <1>1, HeadTailProperties
<1>4. Head(inbox) \in Accounted /\ Head(inbox) \in 1..arrived /\ Head(inbox) \in 1..MaxEvents
  BY <1>2, TypeFacts DEF IInv, OrderInv, Accounted
<1>5. \A r \in Readers : Head(inbox) \notin Taken(r)
  BY <1>2, <1>4, TypeFacts DEF IInv, OrderInv
<1> QED  BY <1>2, <1>3, <1>4, <1>5

-----------------------------------------------------------------------------
(* The invariant is inductive: one lemma per action.                       *)

\* A new event is later than all before it; for one that the inbox drops it
\* loses its oldest or the new one.
LEMMA ArrivesKeeps ==
  ASSUME IInv, Arrives
  PROVE  IInv'
<1> USE DEF Arrives, readerVars
<1> DEFINE new == arrived + 1
<1>1. /\ new \in 1..MaxEvents /\ arrived \in Nat /\ new \in Nat
      /\ Capacity \in Nat \ {0}
  BY InboxAssumption, TypeFacts DEF IInv
<1>2. new \notin Accounted /\ \A e \in Accounted : e \in Nat /\ e < new
  BY <1>1 DEF IInv, OrderInv
<1>3. \A r \in Readers : Taken(r)' = Taken(r) /\ Taken(r) \subseteq Accounted
  BY DEF Taken, Accounted
<1>4. Inboxed \subseteq Accounted
  BY DEF Accounted
<1>5. CASE Len(inbox) < Capacity /\ inbox' = Append(inbox, new) /\ UNCHANGED dropped
  <2>1. inbox' \in Seq(1..MaxEvents) /\ Len(inbox') <= Capacity /\ Inboxed' = Inboxed \cup {new}
    <3>1. inbox \in Seq(1..MaxEvents) /\ Len(inbox) \in Nat
      BY LenProperties DEF IInv, TypeOK
    <3>2. Len(inbox') = Len(inbox) + 1 /\ inbox' \in Seq(1..MaxEvents) /\ Inboxed' = Inboxed \cup {new}
      BY <1>1, <1>5, <3>1, AppendsEvent DEF Inboxed
    <3> QED  BY <1>1, <1>5, <3>1, <3>2
  <2>2. Increasing(inbox')
    BY <1>1, <1>2, <1>4, <1>5, TypeFacts, IncreasingAppend DEF IInv, OrderInv, Inboxed
  <2>3. Accounted' = Accounted \cup {new}
    BY <1>3, <2>1 DEF Accounted
  <2>4. OrderInv'
    <3>1. \A r \in Readers : \A e \in Taken(r), f \in Inboxed' : e < f
      BY <1>2, <1>3, <2>1 DEF IInv, OrderInv
    <3>2. Accounted' \subseteq 1..new
      BY <1>1, <2>3 DEF IInv, OrderInv
    <3> QED  BY <1>3, <2>2, <3>1, <3>2 DEF IInv, OrderInv
  <2>5. LossAccountedFor'
    <3>1. Cardinality(Accounted') = Cardinality(Accounted) + 1 /\ Cardinality(Accounted) \in Nat
      BY <1>2, <2>3, CountFacts
    <3>2. dropped \in Nat /\ strays \in Nat /\ cancels \in Nat /\ unread \in Nat
      BY TypeFacts DEF IInv
    <3> QED  BY <1>1, <1>5, <3>1, <3>2 DEF IInv, LossAccountedFor
  <2>6. TypeOK'
    BY <1>1, <1>5, <2>1 DEF IInv, TypeOK
  <2> QED  BY <2>4, <2>5, <2>6 DEF IInv, DrainInv, Drained
<1>6. CASE inbox' = inbox /\ dropped' = dropped + 1
  <2>1. Inboxed' = Inboxed /\ Accounted' = Accounted
    BY <1>3, <1>6 DEF Accounted, Inboxed
  <2>2. OrderInv'
    BY <1>1, <1>3, <1>6, <2>1 DEF IInv, OrderInv
  <2>3. LossAccountedFor'
    BY <1>1, <1>6, <2>1, CountFacts, TypeFacts DEF IInv, LossAccountedFor
  <2>4. TypeOK'
    BY <1>1, <1>6 DEF IInv, TypeOK
  <2> QED  BY <2>2, <2>3, <2>4 DEF IInv, DrainInv, Drained
<1>7. CASE Len(inbox) = Capacity /\ inbox' = Append(Tail(inbox), new) /\ dropped' = dropped + 1
  <2>1. inbox # <<>>
    BY <1>1, <1>7, EmptySeq
  <2>2. /\ Tail(inbox) \in Seq(1..MaxEvents) /\ Tail(inbox) \in Seq(Nat)
        /\ Inboxed = {Head(inbox)} \cup ToSet(Tail(inbox))
    <3>1. Tail(inbox) \in Seq(1..MaxEvents) /\ Inboxed = {Head(inbox)} \cup ToSet(Tail(inbox))
      BY <2>1, HeadLeaves
    <3>2. 1..MaxEvents \subseteq Nat
      BY InboxAssumption
    <3> QED  BY <3>1, <3>2, SeqMonotonic
  <2>3. /\ inbox' \in Seq(1..MaxEvents) /\ Len(inbox') <= Capacity
        /\ Inboxed' = ToSet(Tail(inbox)) \cup {new}
    <3>1. Len(Tail(inbox)) = Len(inbox) - 1
      BY <2>1, HeadLeaves
    <3>2. /\ inbox' \in Seq(1..MaxEvents) /\ Len(inbox') = Len(Tail(inbox)) + 1
          /\ Inboxed' = ToSet(Tail(inbox)) \cup {new}
      BY <1>1, <1>7, <2>2, AppendsEvent DEF Inboxed
    <3> QED  BY <1>1, <1>7, <3>1, <3>2
  <2>4. Increasing(inbox')
    <3>1. Increasing(Tail(inbox)) /\ \A e \in ToSet(Tail(inbox)) : e < new
      BY <1>2, <1>4, <2>1, <2>2, HeadLeaves
    <3> QED  BY <1>1, <1>7, <2>2, <3>1, IncreasingAppend
  <2>5. Accounted' = (Accounted \ {Head(inbox)}) \cup {new}
    BY <1>3, <2>1, <2>2, <2>3, HeadLeaves DEF Accounted
  <2>6. OrderInv'
    <3>1. \A r \in Readers : \A e \in Taken(r), f \in Inboxed' : e < f
      BY <1>2, <1>3, <2>2, <2>3 DEF IInv, OrderInv
    <3>2. Accounted' \subseteq 1..new
      <4>1. 1..arrived \subseteq 1..new /\ new \in 1..new
        BY <1>1
      <4> QED  BY <2>5, <4>1 DEF IInv, OrderInv
    <3> QED  BY <1>3, <2>4, <3>1, <3>2 DEF IInv, OrderInv
  <2>7. Cardinality(Accounted') = Cardinality(Accounted)
    BY <1>2, <2>1, <2>5, HeadLeaves, CountFacts
  <2>8. LossAccountedFor'
    BY <1>1, <1>7, <2>7, CountFacts, TypeFacts DEF IInv, LossAccountedFor
  <2>9. TypeOK'
    BY <1>1, <1>7, <2>3 DEF IInv, TypeOK
  <2> QED  BY <2>6, <2>8, <2>9 DEF IInv, DrainInv, Drained
<1> QED  BY <1>5, <1>6, <1>7

\* A wait takes the first event of the inbox, which is later than all its
\* reader has heard.
LEMMA TakesKeeps ==
  ASSUME IInv, NEW r \in Readers, Takes(r)
  PROVE  IInv'
<1> DEFINE e == Head(inbox)
<1>1. /\ inbox # <<>> /\ inbox' = Tail(inbox) /\ wait[r] = "pending" /\ heard' = heard
      /\ wait' = [wait EXCEPT ![r] = "got"] /\ event' = [event EXCEPT ![r] = e]
      /\ UNCHANGED <<arrived, dropped, source, handle, closed, reader, unread, strays, cancels>>
  BY DEF Takes
<1>2. event[r] = NoEvent /\ reader[r] = "waiting"
  BY <1>1 DEF IInv, TypeOK
<1>3. /\ e \in 1..MaxEvents /\ e # NoEvent /\ Tail(inbox) \in Seq(1..MaxEvents)
      /\ Len(Tail(inbox)) = Len(inbox) - 1 /\ Increasing(Tail(inbox))
      /\ Inboxed = {e} \cup ToSet(Tail(inbox)) /\ e \notin ToSet(Tail(inbox))
      /\ \A f \in ToSet(Tail(inbox)) : e < f
      /\ \A s \in Readers : e \notin Taken(s)
  BY <1>1, HeadLeaves DEF NoEvent
<1>4. /\ Taken(r)' = Taken(r) \cup {e}
      /\ \A s \in Readers \ {r} : Taken(s)' = Taken(s)
      /\ Inboxed' = ToSet(Tail(inbox))
  BY <1>1, <1>2, <1>3 DEF Taken, Inboxed, IInv, TypeOK
<1>5. Accounted' = Accounted
  BY <1>3, <1>4 DEF Accounted
<1>6. TypeOK'
  <2>1. Len(inbox) \in Nat /\ Len(inbox') <= Capacity /\ inbox' \in Seq(1..MaxEvents)
    BY <1>1, <1>3, LenProperties, InboxAssumption DEF IInv, TypeOK
  <2>2. event' \in [Readers -> 0..MaxEvents]
    BY <1>1, <1>3 DEF IInv, TypeOK
  <2> QED  BY <1>1, <1>2, <1>3, <2>1, <2>2 DEF IInv, TypeOK
<1>7. OrderInv'
  <2>1. \A s \in Readers : \A d \in Taken(s)', f \in Inboxed' : d < f
    BY <1>3, <1>4 DEF IInv, OrderInv
  <2>2. \A s, t \in Readers : s # t => Taken(s)' \cap Taken(t)' = {}
    BY <1>3, <1>4 DEF IInv, OrderInv
  <2>3. \A s \in Readers : event'[s] # NoEvent => \A d \in ToSet(heard[s]) : d < event'[s]
    <3>1. \A d \in ToSet(heard[r]) : d < e
      BY <1>3 DEF IInv, OrderInv, Taken
    <3> QED  BY <1>1, <3>1 DEF IInv, OrderInv, TypeOK
  <2> QED  BY <1>1, <1>3, <1>5, <2>1, <2>2, <2>3 DEF IInv, OrderInv
<1>8. LossAccountedFor'
  BY <1>1, <1>5 DEF IInv, LossAccountedFor
<1>9. DrainInv'
  BY <1>1 DEF IInv, TypeOK, DrainInv, Drained
<1> QED  BY <1>6, <1>7, <1>8, <1>9 DEF IInv

\* What a stray takes is lost, as its cancelled reader was counted for.
LEMMA StrayEndsKeeps ==
  ASSUME IInv, StrayEnds
  PROVE  IInv'
<1> USE DEF StrayEnds, readerVars
<1>1. strays \in Nat /\ strays - 1 \in 0..MaxCancels
  BY TypeFacts, InboxAssumption DEF IInv, TypeOK
<1>2. CASE inbox' = inbox
  <2>1. UNCHANGED <<Inboxed, Accounted>> /\ \A r \in Readers : Taken(r)' = Taken(r)
    BY <1>2, NothingMoves
  <2>2. OrderInv'
    BY <1>2, <2>1 DEF IInv, OrderInv
  <2>3. LossAccountedFor'
    BY <1>1, <2>1, CountFacts, TypeFacts DEF IInv, LossAccountedFor
  <2> QED  BY <1>1, <1>2, <2>2, <2>3 DEF IInv, TypeOK, DrainInv, Drained
<1>3. CASE inbox # <<>> /\ inbox' = Tail(inbox)
  <2>1. /\ Head(inbox) \in Accounted /\ Tail(inbox) \in Seq(1..MaxEvents)
        /\ Len(Tail(inbox)) = Len(inbox) - 1 /\ Increasing(Tail(inbox))
        /\ Inboxed = {Head(inbox)} \cup ToSet(Tail(inbox)) /\ Head(inbox) \notin ToSet(Tail(inbox))
        /\ \A r \in Readers : Head(inbox) \notin Taken(r)
    BY <1>3, HeadLeaves
  <2>2. /\ \A r \in Readers : Taken(r)' = Taken(r)
        /\ Inboxed' = ToSet(Tail(inbox))
    BY <1>3 DEF Taken, Inboxed
  <2>3. Accounted' = Accounted \ {Head(inbox)}
    BY <2>1, <2>2 DEF Accounted
  <2>4. Cardinality(Accounted') = Cardinality(Accounted) - 1 /\ Cardinality(Accounted) \in Nat
    BY <2>1, <2>3, CountFacts
  <2>5. OrderInv'
    BY <1>3, <2>1, <2>2, <2>3 DEF IInv, OrderInv
  <2>6. LossAccountedFor'
    BY <1>1, <2>4, TypeFacts DEF IInv, LossAccountedFor
  <2>7. TypeOK'
    <3>1. Len(inbox) \in Nat /\ Len(inbox') <= Capacity /\ inbox' \in Seq(1..MaxEvents)
      BY <1>3, <2>1, LenProperties, InboxAssumption DEF IInv, TypeOK
    <3> QED  BY <1>1, <3>1 DEF IInv, TypeOK
  <2> QED  BY <1>3, <2>5, <2>6, <2>7 DEF IInv, DrainInv, Drained
<1> QED  BY <1>2, <1>3

\* The event that was about to be heard is.
LEMMA HearsKeeps ==
  ASSUME IInv, NEW r \in Readers, Hears(r)
  PROVE  IInv'
<1> USE DEF Hears, Leaves, nativeVars
<1>1. event[r] # NoEvent /\ event[r] \in 1..MaxEvents /\ event[r] \in Nat
  BY TypeFacts, InboxAssumption DEF IInv, TypeOK, NoEvent
<1>2. /\ heard[r] \in Seq(1..MaxEvents) /\ heard'[r] = Append(heard[r], event[r])
      /\ heard' = [heard EXCEPT ![r] = heard'[r]]
      /\ event'[r] = NoEvent /\ \A s \in Readers \ {r} : heard'[s] = heard[s] /\ event'[s] = event[s]
  BY DEF IInv, TypeOK
<1>3. heard'[r] \in Seq(1..MaxEvents) /\ ToSet(heard'[r]) = ToSet(heard[r]) \cup {event[r]}
  BY <1>1, <1>2, AppendsEvent
<1>4. \A s \in Readers : Taken(s)' = Taken(s)
  BY <1>1, <1>2, <1>3 DEF Taken
<1>5. Inboxed' = Inboxed /\ Accounted' = Accounted
  BY <1>4 DEF Inboxed, Accounted
<1>6. TypeOK'
  <2>1. heard' \in [Readers -> Seq(1..MaxEvents)]
    BY <1>2, <1>3 DEF IInv, TypeOK
  <2>2. event' \in [Readers -> 0..MaxEvents]
    BY InboxAssumption DEF IInv, TypeOK, NoEvent
  <2> QED  BY <2>1, <2>2 DEF IInv, TypeOK
<1>7. OrderInv'
  <2>1. Increasing(heard'[r])
    BY <1>1, <1>2, TypeFacts, IncreasingAppend DEF IInv, OrderInv
  <2>2. \A s \in Readers : Increasing(heard'[s])
    BY <1>2, <2>1 DEF IInv, OrderInv
  <2>3. \A s \in Readers : event'[s] # NoEvent => \A d \in ToSet(heard'[s]) : d < event'[s]
    BY <1>2 DEF IInv, OrderInv
  <2> QED  BY <1>4, <1>5, <2>2, <2>3 DEF IInv, OrderInv
<1>8. LossAccountedFor'
  BY <1>5 DEF IInv, LossAccountedFor
<1>9. DrainInv'
  BY DEF IInv, TypeOK, DrainInv, Drained
<1> QED  BY <1>6, <1>7, <1>8, <1>9 DEF IInv

\* A cancelled wait leaves a stray, or loses the event it took; either way it
\* is one cancellation.
LEMMA CancelKeeps ==
  ASSUME IInv, NEW r \in Readers, Cancel(r)
  PROVE  IInv'
<1> USE DEF Cancel, Leaves, Forgets
<1>1. /\ cancels \in Nat /\ cancels + 1 \in 0..MaxCancels /\ strays \in Nat /\ unread \in Nat
      /\ arrived \in Nat /\ dropped \in Nat /\ Cardinality(Accounted) \in Nat
  BY TypeFacts, CountFacts, InboxAssumption DEF IInv, TypeOK
<1>2. /\ event'[r] = NoEvent /\ \A s \in Readers \ {r} : event'[s] = event[s]
      /\ heard' = heard /\ inbox' = inbox
  BY DEF IInv, TypeOK
<1>3. /\ Taken(r)' = ToSet(heard[r]) /\ Taken(r)' \subseteq Taken(r)
      /\ \A s \in Readers \ {r} : Taken(s)' = Taken(s)
      /\ Inboxed' = Inboxed
  BY <1>2 DEF Taken, Inboxed
<1>4. Accounted' \subseteq Accounted
  BY <1>3 DEF Accounted
<1>5. OrderInv'
  <2>1. \A s \in Readers : Taken(s)' \subseteq Taken(s)
    BY <1>3
  <2>2. \A s \in Readers : event'[s] # NoEvent => \A d \in ToSet(heard[s]) : d < event'[s]
    BY <1>2 DEF IInv, OrderInv
  <2> QED  BY <1>2, <1>3, <1>4, <2>1, <2>2 DEF IInv, OrderInv
<1>6. LossAccountedFor' /\ strays' \in 0..MaxCancels
  <2>1. CASE event[r] = NoEvent
    <3>1. Taken(r)' = Taken(r)
      BY <1>3, <2>1 DEF Taken
    <3>2. Accounted' = Accounted
      BY <1>3, <3>1 DEF Accounted
    <3>3. CASE wait[r] = "pending"
      <4>1. strays' = strays + 1 /\ cancels' = cancels + 1 /\ UNCHANGED <<arrived, dropped>>
        BY <3>3
      <4>2. LossAccountedFor'
        BY <1>1, <3>2, <4>1 DEF IInv, LossAccountedFor
      <4>3. strays + 1 <= cancels + 1
        BY <1>1 DEF IInv, LossAccountedFor
      <4> QED  BY <1>1, <4>1, <4>2, <4>3, InboxAssumption
    <3>4. CASE wait[r] # "pending"
      BY <1>1, <3>2, <3>4 DEF IInv, LossAccountedFor, TypeOK
    <3> QED  BY <3>3, <3>4
  <2>2. CASE event[r] # NoEvent
    <3>1. event[r] \in Accounted /\ event[r] \notin Inboxed
      <4>1. event[r] \in Taken(r)
        BY <2>2 DEF Taken
      <4> QED  BY <4>1, TypeFacts DEF IInv, OrderInv, Accounted
    <3>2. event[r] \notin ToSet(heard[r]) /\ Taken(r) = ToSet(heard[r]) \cup {event[r]}
      <4>1. event[r] \in Nat /\ \A e \in ToSet(heard[r]) : e < event[r]
        BY <2>2, TypeFacts DEF IInv, OrderInv
      <4> QED  BY <2>2, <4>1 DEF Taken
    <3>3. \A s \in Readers \ {r} : event[r] \notin Taken(s)
      BY <3>2 DEF IInv, OrderInv
    <3>4. Accounted' = Accounted \ {event[r]}
      BY <1>3, <3>1, <3>2, <3>3 DEF Accounted
    <3>5. Cardinality(Accounted') = Cardinality(Accounted) - 1
      BY <3>1, <3>4, CountFacts
    <3>6. wait[r] = "got" /\ strays' = strays
      BY <2>2 DEF IInv, TypeOK
    <3> QED  BY <1>1, <3>5, <3>6 DEF IInv, LossAccountedFor, TypeOK
  <2> QED  BY <2>1, <2>2
<1>7. TypeOK'
  <2>1. event' \in [Readers -> 0..MaxEvents]
    BY InboxAssumption DEF IInv, TypeOK, NoEvent
  <2> QED  BY <1>1, <1>6, <2>1 DEF IInv, TypeOK
<1>8. DrainInv'
  BY DEF IInv, TypeOK, DrainInv, Drained
<1> QED  BY <1>5, <1>6, <1>7, <1>8 DEF IInv

\* An event that cannot be decoded is lost, and counted as unread.
LEMMA CannotReadKeeps ==
  ASSUME IInv, NEW r \in Readers, CannotRead(r)
  PROVE  IInv'
<1> USE DEF CannotRead, Leaves, nativeVars
<1>1. /\ unread \in Nat /\ unread + 1 \in 0..MaxUnread /\ strays \in Nat /\ cancels \in Nat
      /\ arrived \in Nat /\ dropped \in Nat /\ Cardinality(Accounted) \in Nat
  BY TypeFacts, CountFacts, InboxAssumption DEF IInv, TypeOK
<1>2. /\ event'[r] = NoEvent /\ \A s \in Readers \ {r} : event'[s] = event[s]
      /\ heard' = heard /\ inbox' = inbox
  BY DEF IInv, TypeOK
<1>3. /\ Taken(r)' = ToSet(heard[r]) /\ Taken(r)' \subseteq Taken(r)
      /\ \A s \in Readers \ {r} : Taken(s)' = Taken(s)
      /\ Inboxed' = Inboxed
  BY <1>2 DEF Taken, Inboxed
<1>4. event[r] # NoEvent /\ event[r] \in Nat /\ \A e \in ToSet(heard[r]) : e < event[r]
  BY TypeFacts DEF IInv, TypeOK, OrderInv
<1>5. event[r] \notin ToSet(heard[r]) /\ Taken(r) = ToSet(heard[r]) \cup {event[r]}
  BY <1>4 DEF Taken
<1>6. event[r] \in Accounted /\ event[r] \notin Inboxed
  BY <1>5, TypeFacts DEF IInv, OrderInv, Accounted
<1>7. \A s \in Readers \ {r} : event[r] \notin Taken(s)
  BY <1>5 DEF IInv, OrderInv
<1>8. Accounted' = Accounted \ {event[r]}
  BY <1>3, <1>5, <1>6, <1>7 DEF Accounted
<1>9. LossAccountedFor'
  <2>1. Cardinality(Accounted') = Cardinality(Accounted) - 1
    BY <1>6, <1>8, CountFacts
  <2> QED  BY <1>1, <2>1 DEF IInv, LossAccountedFor
<1>10. OrderInv'
  <2>1. \A s \in Readers : Taken(s)' \subseteq Taken(s)
    BY <1>3
  <2>2. \A s \in Readers : event'[s] # NoEvent => \A d \in ToSet(heard[s]) : d < event'[s]
    BY <1>2 DEF IInv, OrderInv
  <2> QED  BY <1>2, <1>3, <1>8, <2>1, <2>2 DEF IInv, OrderInv
<1>11. TypeOK'
  <2>1. event' \in [Readers -> 0..MaxEvents]
    BY InboxAssumption DEF IInv, TypeOK, NoEvent
  <2> QED  BY <1>1, <2>1 DEF IInv, TypeOK
<1>12. DrainInv'
  BY DEF IInv, TypeOK, DrainInv, Drained
<1> QED  BY <1>9, <1>10, <1>11, <1>12 DEF IInv

\* The other steps move no event.
LEMMA FeedStepKeeps ==
  ASSUME IInv, PoolCloses \/ StopBegins \/ StopEnds \/ UNCHANGED vars
  PROVE  IInv'
<1> USE DEF nativeVars, readerVars
<1>1. OrderInv' /\ LossAccountedFor'
  BY NothingMovesKeeps DEF PoolCloses, StopBegins, StopEnds, vars
<1>2. TypeOK' /\ DrainInv'
  <2>1. CASE PoolCloses
    BY <2>1 DEF PoolCloses, IInv, TypeOK, DrainInv, Drained
  <2>2. CASE StopBegins
    BY <2>2 DEF StopBegins, IInv, TypeOK, DrainInv, Drained
  <2>3. CASE StopEnds
    BY <2>3 DEF StopEnds, IInv, TypeOK, DrainInv, Drained
  <2>4. CASE UNCHANGED vars
    BY <2>4 DEF vars, IInv, TypeOK, DrainInv, Drained
  <2> QED  BY <2>1, <2>2, <2>3, <2>4
<1> QED  BY <1>1, <1>2 DEF IInv

LEMMA ReaderStepKeeps ==
  ASSUME IInv, NEW r \in Readers, Begin(r) \/ WaitEnds(r) \/ HearsNothing(r) \/ HearsError(r)
  PROVE  IInv'
<1>1. UNCHANGED <<inbox, arrived, dropped, event, heard, unread, strays, cancels>>
  <2>1. event[r] = NoEvent => event = [event EXCEPT ![r] = NoEvent]
    BY DEF IInv, TypeOK
  <2>2. HearsNothing(r) \/ HearsError(r) => event[r] = NoEvent
    BY DEF HearsNothing, HearsError, IInv, TypeOK
  <2> QED  BY <2>1, <2>2 DEF Begin, WaitEnds, HearsNothing, HearsError, Leaves, nativeVars
<1>2. OrderInv' /\ LossAccountedFor'
  BY <1>1, NothingMovesKeeps
<1>3. TypeOK' /\ DrainInv'
  <2>1. CASE Begin(r)
    BY <1>1, <2>1 DEF Begin, nativeVars, IInv, TypeOK, DrainInv, Drained
  <2>2. CASE WaitEnds(r)
    BY <1>1, <2>2 DEF WaitEnds, Endings, nativeVars, IInv, TypeOK, DrainInv, Drained
  <2>3. CASE HearsNothing(r)
    BY <1>1, <2>3 DEF HearsNothing, SaysClosed, Leaves, nativeVars, IInv, TypeOK, DrainInv, Drained
  <2>4. CASE HearsError(r)
    BY <1>1, <2>4 DEF HearsError, Leaves, nativeVars, IInv, TypeOK, DrainInv, Drained
  <2> QED  BY <2>1, <2>2, <2>3, <2>4
<1> QED  BY <1>2, <1>3 DEF IInv

LEMMA InitHolds == Init => IInv
<1> SUFFICES ASSUME Init PROVE IInv
  OBVIOUS
<1> USE DEF Init, NoEvent
<1>1. <<>> \in Seq(1..MaxEvents) /\ Len(<<>>) = 0 /\ ToSet(<<>>) = {}
  BY EmptySeq, EmptyFacts
<1>2. Increasing(<<>>)
  BY DEF Increasing
<1>3. Inboxed = {} /\ \A r \in Readers : Taken(r) = {}
  BY <1>1 DEF Inboxed, Taken
<1>4. Accounted = {}
  BY <1>3 DEF Accounted
<1>5. TypeOK
  <2>1. 0 \in 0..MaxEvents /\ 0 \in 0..MaxCancels /\ 0 \in 0..MaxUnread /\ 0 \in 0..0 /\ 0 <= Capacity
    BY InboxAssumption
  <2> QED  BY <1>1, <2>1 DEF TypeOK
<1>6. OrderInv
  BY <1>1, <1>2, <1>3, <1>4 DEF OrderInv
<1>7. LossAccountedFor
  BY <1>4, FS_EmptySet DEF LossAccountedFor
<1> QED  BY <1>5, <1>6, <1>7 DEF IInv, DrainInv

\* Every step, and every stutter, keeps the invariant.
LEMMA StepKeeps == IInv /\ [Next]_vars => IInv'
<1> SUFFICES ASSUME IInv, [Next]_vars PROVE IInv'
  OBVIOUS
<1>1. ASSUME NEW r \in Readers,
             \/ Begin(r) \/ Takes(r) \/ WaitEnds(r) \/ LoopStep(r) \/ Cancel(r)
      PROVE  IInv'
  BY <1>1, TakesKeeps, HearsKeeps, CannotReadKeeps, CancelKeeps, ReaderStepKeeps DEF LoopStep
<1>2. CASE Arrives \/ StrayEnds
  BY <1>2, ArrivesKeeps, StrayEndsKeeps
<1>3. CASE PoolCloses \/ StopBegins \/ StopEnds \/ UNCHANGED vars
  BY <1>3, FeedStepKeeps
<1> QED  BY <1>1, <1>2, <1>3 DEF Next

THEOREM Inductive == Spec => []IInv
BY InitHolds, StepKeeps, PTL DEF Spec

-----------------------------------------------------------------------------
(* What a subscription promises its readers.                               *)

\* The state stays what its declarations say; among it, the inbox never grows
\* past its capacity, and no more waits are astray than readers were cancelled.
THEOREM TypeCorrect == Spec => []TypeOK
<1>1. IInv => TypeOK
  BY DEF IInv
<1> QED  BY <1>1, Inductive, PTL

\* An event is heard by one reader, once, and each reader hears events in the
\* order in which they came, however many readers take them and are cancelled.
THEOREM HeardByOneInOrder == Spec => []HeardOnceInOrder
<1>1. IInv => HeardOnceInOrder
  <2> SUFFICES ASSUME IInv PROVE HeardOnceInOrder
    OBVIOUS
  <2>1. ASSUME NEW r \in Readers, event[r] # NoEvent
        PROVE  Increasing(Append(heard[r], event[r]))
    BY <2>1, TypeFacts, IncreasingAppend DEF IInv, OrderInv
  <2> QED  BY <2>1 DEF IInv, OrderInv, HeardOnceInOrder, Increasing
<1> QED  BY <1>1, Inductive, PTL

\* No event is lost uncounted but the one taken each time a payload did not
\* decode, and at most one for each wait that was cancelled.
THEOREM LossesAreAccounted == Spec => []LossAccountedFor
<1>1. IInv => LossAccountedFor
  BY DEF IInv
<1> QED  BY <1>1, Inductive, PTL

\* closed says that the last event was taken.
THEOREM ClosedAfterTheLast == Spec => []EndIsLast
<1>1. IInv => EndIsLast
  BY DEF IInv, DrainInv, EndIsLast
<1> QED  BY <1>1, Inductive, PTL

\* "Each verified event is heard once" (the docstring of Pool.subscribe) is true
\* for as long as no reader was cancelled while it waits and every payload that
\* was taken decoded.
THEOREM HeardOrCountedUndisturbed ==
  Spec => [](cancels = 0 /\ unread = 0 => EachEventHeardOrCounted)
<1>1. IInv => (cancels = 0 /\ unread = 0 => EachEventHeardOrCounted)
  <2> SUFFICES ASSUME IInv, cancels = 0, unread = 0 PROVE arrived = dropped + Cardinality(Accounted)
    BY DEF EachEventHeardOrCounted
  <2>1. arrived \in Nat /\ dropped \in Nat /\ strays \in Nat /\ Cardinality(Accounted) \in Nat
    BY TypeFacts, CountFacts DEF IInv
  <2> QED  BY <2>1 DEF IInv, LossAccountedFor
<1> QED  BY <1>1, Inductive, PTL
=============================================================================
