---------------------------- MODULE ServedProofs ----------------------------
(***************************************************************************)
(* Theorems about Served, for any finite sets of items and callers of      *)
(* stop(), and the proof that its steps are steps of AbstractServed.       *)
(*                                                                         *)
(* What makes them true is the order of the loop's queue: an item's task   *)
(* is queued ahead of the step in which the serve loop could end, so that  *)
(* no task is cancelled before its first step; and the step of a stop()    *)
(* that waits is queued only by the end of what it waits for.              *)
(***************************************************************************)
EXTENDS Served, QueueFacts

\* The queue holds a step once, and those of tasks that still run; a task that
\* has not begun is ahead of the serve loop.
QueueInv ==
  /\ IsInjective(ready)
  /\ \A i \in Items : Task(i) \in ToSet(ready) \/ marked[i] => i \in Tasks
  /\ \A i \in Items : at[i] = "new" => /\ ~marked[i] /\ serve # "ended"
                                       /\ Ahead(ready, Task(i), Loop)

\* One wait, and at most one item on its way through it.
WaitInv ==
  /\ wait \in {"got", "landed"} => \E i \in Items : at[i] = "got"
  /\ \A i \in Items : at[i] = "got" => wait \in {"got", "landed"}
  /\ \A i, j \in Items : at[i] = "got" /\ at[j] = "got" => i = j
  /\ \A i \in Items : item[i] \in {"away", "inbox"} => at[i] = "away"
  /\ serve = "new" => wait = "none"
  /\ wait = "closed" => native = "withdrawn"

\* Where an item is says whether Python has set out to settle it; what it set out
\* to do is under way, done, or has failed.
TriesInv == \A i \in Items :
  /\ at[i] # "unstarted"
  /\ tries[i] = IF at[i] \in {"answering", "freeing", "released", "ended"} THEN 1 ELSE 0
  /\ tries[i] = 1 => settling[i] \/ failed[i] \/ item[i] = "settled"
  /\ failed[i] => ~streaming

\* What a stop() has come to says how far its withdrawal is.
WithdrawInv == \A s \in Stoppers :
  /\ stop[s] = "idle" <=> withdraw[s] = "none" /\ stop[s] # "returned"
  /\ withdraw[s] # "none" => ~handle
  /\ withdraw[s] = "running" => stop[s] \in {"withdrawing", "cancelled"}
  /\ stop[s] \in {"joining", "gathering"} => withdraw[s] = "done"
  /\ abandoned[s] => stop[s] \in {"withdrawing", "joining", "gathering", "cancelled"}

\* A stop() that waits is woken by the end of what it waits for, and what it
\* has waited for is over.
BarrierInv == \A s \in Stoppers :
  /\ stop[s] = "joining" /\ serve # "ended" => Stop(s) \notin ToSet(ready)
  /\ stop[s] = "gathering" => serve = "ended"
  /\ stop[s] = "gathering" /\ Tasks # {} => Stop(s) \notin ToSet(ready)
  /\ stop[s] \in {"returned", "raised"} /\ withdraw[s] = "done" => serve = "ended" /\ Tasks = {}

\* Why the serve loop has ended.
EndInv ==
  /\ doomed => ~handle /\ serve # "ended"
  /\ failure => serve = "ended"
  /\ FailureSurfaces

IInv == TypeOK /\ QueueInv /\ WaitInv /\ TriesInv /\ WithdrawInv /\ BarrierInv /\ EndInv

-----------------------------------------------------------------------------
(* The queue.                                                              *)

\* r is q with some of the steps in more at its end.
Grows(q, r, more) ==
  /\ r \in Seq(Steps) /\ IsInjective(r)
  /\ ToSet(q) \subseteq ToSet(r) /\ ToSet(r) \subseteq ToSet(q) \cup more
  /\ \A x, y : Ahead(q, x, y) => Ahead(r, x, y)

LEMMA StepFacts ==
  /\ Loop \in Steps
  /\ \A i \in Items : Task(i) \in Steps /\ Task(i) # Loop
  /\ \A s \in Stoppers : Stop(s) \in Steps /\ Stop(s) # Loop
  /\ \A i \in Items, s \in Stoppers : Task(i) # Stop(s)
  /\ \A i, j \in Items : Task(i) = Task(j) => i = j
  /\ \A s, t \in Stoppers : Stop(s) = Stop(t) => s = t
BY DEF Steps, Loop, Task, Stop

\* The loop takes the step at the head of its queue.
LEMMA RunsFacts ==
  ASSUME TypeOK, QueueInv, NEW x, Runs(x)
  PROVE  /\ ready # <<>> /\ Tail(ready) \in Seq(Steps) /\ IsInjective(Tail(ready))
         /\ ToSet(ready) = {x} \cup ToSet(Tail(ready)) /\ x \notin ToSet(Tail(ready))
         /\ Grows(Tail(ready), Tail(ready), {})
         /\ \A i \in Items : at[i] = "new" => x # Loop
         /\ \A i \in Items : at[i] = "new" /\ x # Task(i) => Ahead(Tail(ready), Task(i), Loop)
<1>1. ready \in Seq(Steps) /\ ready # <<>> /\ Head(ready) = x
  BY DEF TypeOK, Runs
<1>2. /\ Tail(ready) \in Seq(Steps) /\ IsInjective(Tail(ready))
      /\ ToSet(ready) = {x} \cup ToSet(Tail(ready)) /\ x \notin ToSet(Tail(ready))
  BY <1>1, TailFacts DEF QueueInv
<1>3. ASSUME NEW i \in Items, at[i] = "new"
      PROVE  x # Loop /\ (x # Task(i) => Ahead(Tail(ready), Task(i), Loop))
  BY <1>1, <1>3, AheadFacts DEF QueueInv
<1> QED  BY <1>1, <1>2, <1>3 DEF Grows

LEMMA ConcatGrows ==
  ASSUME NEW q \in Seq(Steps), IsInjective(q), NEW r \in Seq(Steps), IsInjective(r),
         ToSet(q) \cap ToSet(r) = {}
  PROVE  Grows(q, q \o r, ToSet(r)) /\ ToSet(q \o r) = ToSet(q) \cup ToSet(r)
<1>1. \A x, y : Ahead(q, x, y) => Ahead(q \o r, x, y)
  BY AheadFacts
<1> QED  BY <1>1, ConcatFacts DEF Grows

LEMMA AppendGrows ==
  ASSUME NEW q \in Seq(Steps), IsInjective(q), NEW x \in Steps, x \notin ToSet(q)
  PROVE  Grows(q, Append(q, x), {x}) /\ ToSet(Append(q, x)) = ToSet(q) \cup {x}
<1>1. Append(q, x) = q \o <<x>>
  BY AppendIsConcat
<1>2. <<x>> \in Seq(Steps) /\ ToSet(<<x>>) = {x} /\ IsInjective(<<x>>)
  BY DEF ToSet, IsInjective
<1>3. ToSet(q) \cap ToSet(<<x>>) = {}
  BY <1>2
<1> QED  BY <1>1, <1>2, <1>3, ConcatGrows

\* A task's step is queued unless it is queued already.
LEMMA QueuedGrows ==
  ASSUME NEW q \in Seq(Steps), IsInjective(q), NEW x \in Steps
  PROVE  Grows(q, Queued(q, x), {x}) /\ ToSet(Queued(q, x)) = ToSet(q) \cup {x}
<1>1. CASE x \in ToSet(q)
  BY <1>1 DEF Queued, Grows
<1>2. CASE x \notin ToSet(q)
  BY <1>2, AppendGrows DEF Queued
<1> QED  BY <1>1, <1>2

LEMMA QueuedAllGrows ==
  ASSUME NEW q \in Seq(Steps), IsInjective(q), NEW more \in SUBSET Steps, IsFiniteSet(more),
         NEW r \in QueuedAll(q, more)
  PROVE  Grows(q, r, more)
<1>1. IsFiniteSet(more \ ToSet(q))
  BY FS_Subset
<1>2. PICK f \in SetToSeqs(more \ ToSet(q)) : r = q \o f
  BY DEF QueuedAll
<1>3. f \in Seq(more \ ToSet(q)) /\ IsInjective(f) /\ ToSet(f) \subseteq more \ ToSet(q)
  BY <1>1, SetToSeqFacts
<1>4. f \in Seq(Steps)
  BY <1>3, SeqMonotonic
<1>5. Grows(q, q \o f, ToSet(f))
  BY <1>3, <1>4, ConcatGrows
<1> QED  BY <1>2, <1>3, <1>5 DEF Grows

\* The callers of stop() that are woken were waiting there.
LEMMA WokenFacts ==
  ASSUME NEW place
  PROVE  /\ Woken(place) \in Seq(Steps) /\ IsInjective(Woken(place))
         /\ ToSet(Woken(place)) \subseteq {Stop(s) : s \in {t \in Stoppers : stop[t] = place}}
<1> DEFINE T == {t \in Stoppers : stop[t] = place}
           W == {Stop(s) : s \in T}
<1>1. IsFiniteSet(T)
  BY ServedAssumption, FS_Subset
<1>2. IsFiniteSet(W)
  <2>1. [s \in T |-> Stop(s)] \in Surjection(T, W)
    BY DEF Surjection
  <2> QED  BY <1>1, <2>1, FS_Surjection
<1>3. SetToSeq(W) \in Seq(W) /\ IsInjective(SetToSeq(W)) /\ ToSet(SetToSeq(W)) \subseteq W
  BY <1>2, SetToSeqFacts
<1>4. W \subseteq Steps
  BY StepFacts
<1>5. SetToSeq(W) \in Seq(Steps)
  BY <1>3, <1>4, SeqMonotonic
<1> QED  BY <1>3, <1>5 DEF Woken

-----------------------------------------------------------------------------
(* The invariant is inductive: one lemma per action.                       *)

\* The serve loop begins, or fails its assert.
LEMMA ServeStartsKeeps ==
  ASSUME IInv, ServeStarts
  PROVE  IInv'
<1> USE DEF ServeStarts, serveVars, taskVars, stopVars
<1>0. /\ ready # <<>> /\ Tail(ready) \in Seq(Steps) /\ IsInjective(Tail(ready))
      /\ ToSet(ready) = {Loop} \cup ToSet(Tail(ready)) /\ Loop \notin ToSet(Tail(ready))
      /\ Grows(Tail(ready), Tail(ready), {})
      /\ \A j \in Items : at[j] # "new"
  BY RunsFacts DEF IInv
<1>a. /\ Woken("joining") \in Seq(Steps) /\ IsInjective(Woken("joining"))
      /\ ToSet(Woken("joining")) \subseteq {Stop(s) : s \in {t \in Stoppers : stop[t] = "joining"}}
  BY WokenFacts
<1>b. ServeEnded =>
        /\ Grows(Tail(ready), ready', ToSet(Woken("joining")))
        /\ serve' = "ended" /\ ~doomed'
        /\ \A i \in Items : at[i] # "new"
  <2>1. \A i \in Items : at[i] # "new"
    BY <1>0
  <2>2. serve # "ended" => ToSet(Tail(ready)) \cap ToSet(Woken("joining")) = {}
    BY <1>0, <1>a DEF IInv, BarrierInv
  <2>3. serve # "ended"
    BY DEF IInv, EndInv
  <2> QED  BY <1>0, <1>a, <2>1, <2>2, <2>3, ConcatGrows DEF ServeEnded
<1>c. /\ Grows(Tail(ready), ready', ToSet(Woken("joining")))
      /\ \A i \in Items : at[i] # "new"
  BY <1>0, <1>b DEF Grows
<1>1. TypeOK'
  <2>1. ready' \in Seq(Steps)
    BY <1>0, <1>a, <1>b, <1>c DEF IInv, TypeOK, Grows
  <2> QED  BY <2>1 DEF IInv, TypeOK, TriesInv, Running, ServeEnded
<1>2. QueueInv'
  BY <1>0, <1>a, <1>c, StepFacts DEF IInv, TypeOK, QueueInv, Grows, Tasks, Running
<1>3. WaitInv'
  BY <1>0, <1>a, <1>b, <1>c DEF IInv, TypeOK, WaitInv
<1>4. TriesInv'
  BY DEF IInv, TypeOK, TriesInv, QueueInv, WaitInv, Tasks, Running
<1>5. WithdrawInv'
  BY DEF IInv, TypeOK, WithdrawInv
<1>6. BarrierInv'
  BY <1>0, <1>a, <1>b, <1>c, StepFacts DEF IInv, TypeOK, BarrierInv, WithdrawInv, Grows, Tasks, Running
<1>7. EndInv'
  BY <1>0, <1>a, <1>b, <1>c DEF IInv, TypeOK, EndInv, FailureSurfaces, WaitInv, WithdrawInv, BarrierInv
<1> QED  BY <1>1, <1>2, <1>3, <1>4, <1>5, <1>6, <1>7 DEF IInv

\* The new task is queued, and the serve loop is not.
LEMMA ServeTakesKeeps ==
  ASSUME IInv, NEW i \in Items, ServeTakes(i)
  PROVE  IInv'
<1> USE DEF ServeTakes, StartsTask, serveVars, taskVars, stopVars
<1>0. /\ ready # <<>> /\ Tail(ready) \in Seq(Steps) /\ IsInjective(Tail(ready))
      /\ ToSet(ready) = {Loop} \cup ToSet(Tail(ready)) /\ Loop \notin ToSet(Tail(ready))
      /\ Grows(Tail(ready), Tail(ready), {})
      /\ \A j \in Items : at[j] # "new"
  BY RunsFacts DEF IInv
<1>a. Task(i) \notin ToSet(Tail(ready))
  BY <1>0 DEF IInv, TypeOK, QueueInv, Tasks, Running
<1>b. /\ Grows(Tail(ready), ready', {Task(i)})
      /\ Ahead(ready', Task(i), Loop)
  BY <1>0, <1>a, StepFacts, AppendGrows, AheadFacts
<1>1. TypeOK'
  <2>1. ready' \in Seq(Steps)
    BY <1>0, <1>a, <1>b DEF IInv, TypeOK, Grows
  <2> QED  BY <2>1 DEF IInv, TypeOK, TriesInv, Running, ServeEnded
<1>2. QueueInv'
  BY <1>0, <1>a, <1>b, StepFacts DEF IInv, TypeOK, QueueInv, WaitInv, Grows, Tasks, Running
<1>3. WaitInv'
  BY <1>0, <1>a, <1>b DEF IInv, TypeOK, WaitInv
<1>4. TriesInv'
  BY DEF IInv, TypeOK, TriesInv, QueueInv, WaitInv, Tasks, Running
<1>5. WithdrawInv'
  BY DEF IInv, TypeOK, WithdrawInv
<1>6. BarrierInv'
  BY <1>0, <1>a, <1>b, StepFacts DEF IInv, TypeOK, BarrierInv, WithdrawInv, Grows, Tasks, Running
<1>7. EndInv'
  BY <1>0, <1>a, <1>b DEF IInv, TypeOK, EndInv, FailureSurfaces, WaitInv, WithdrawInv, BarrierInv
<1> QED  BY <1>1, <1>2, <1>3, <1>4, <1>5, <1>6, <1>7 DEF IInv

LEMMA ServeStopsKeeps ==
  ASSUME IInv, ServeStops
  PROVE  IInv'
<1> USE DEF ServeStops, serveVars, taskVars, stopVars
<1>0. /\ ready # <<>> /\ Tail(ready) \in Seq(Steps) /\ IsInjective(Tail(ready))
      /\ ToSet(ready) = {Loop} \cup ToSet(Tail(ready)) /\ Loop \notin ToSet(Tail(ready))
      /\ Grows(Tail(ready), Tail(ready), {})
      /\ \A j \in Items : at[j] # "new"
  BY RunsFacts DEF IInv
<1>a. /\ Woken("joining") \in Seq(Steps) /\ IsInjective(Woken("joining"))
      /\ ToSet(Woken("joining")) \subseteq {Stop(s) : s \in {t \in Stoppers : stop[t] = "joining"}}
  BY WokenFacts
<1>b. ServeEnded =>
        /\ Grows(Tail(ready), ready', ToSet(Woken("joining")))
        /\ serve' = "ended" /\ ~doomed'
        /\ \A i \in Items : at[i] # "new"
  <2>1. \A i \in Items : at[i] # "new"
    BY <1>0
  <2>2. serve # "ended" => ToSet(Tail(ready)) \cap ToSet(Woken("joining")) = {}
    BY <1>0, <1>a DEF IInv, BarrierInv
  <2>3. serve # "ended"
    BY DEF IInv, EndInv
  <2> QED  BY <1>0, <1>a, <2>1, <2>2, <2>3, ConcatGrows DEF ServeEnded
<1>1. TypeOK'
  <2>1. ready' \in Seq(Steps)
    BY <1>0, <1>a, <1>b DEF IInv, TypeOK, Grows
  <2> QED  BY <2>1 DEF IInv, TypeOK, TriesInv, Running, ServeEnded
<1>2. QueueInv'
  BY <1>0, <1>a, <1>b, StepFacts DEF IInv, TypeOK, QueueInv, WaitInv, Grows, Tasks, Running
<1>3. WaitInv'
  BY <1>0, <1>a, <1>b DEF IInv, TypeOK, WaitInv
<1>4. TriesInv'
  BY DEF IInv, TypeOK, TriesInv, QueueInv, WaitInv, Tasks, Running
<1>5. WithdrawInv'
  BY DEF IInv, TypeOK, WithdrawInv
<1>6. BarrierInv'
  BY <1>0, <1>a, <1>b, StepFacts DEF IInv, TypeOK, BarrierInv, WithdrawInv, Grows, Tasks, Running
<1>7. EndInv'
  BY <1>0, <1>a, <1>b DEF IInv, TypeOK, EndInv, FailureSurfaces, WaitInv, WithdrawInv, BarrierInv
<1> QED  BY <1>1, <1>2, <1>3, <1>4, <1>5, <1>6, <1>7 DEF IInv

\* An item that cannot be read ends the serve loop, and has never been new.
LEMMA ServeCannotReadKeeps ==
  ASSUME IInv, NEW i \in Items, ServeCannotRead(i)
  PROVE  IInv'
<1> USE DEF ServeCannotRead, serveVars, taskVars, stopVars
<1>0. /\ ready # <<>> /\ Tail(ready) \in Seq(Steps) /\ IsInjective(Tail(ready))
      /\ ToSet(ready) = {Loop} \cup ToSet(Tail(ready)) /\ Loop \notin ToSet(Tail(ready))
      /\ Grows(Tail(ready), Tail(ready), {})
      /\ \A j \in Items : at[j] # "new"
  BY RunsFacts DEF IInv
<1>a. /\ Woken("joining") \in Seq(Steps) /\ IsInjective(Woken("joining"))
      /\ ToSet(Woken("joining")) \subseteq {Stop(s) : s \in {t \in Stoppers : stop[t] = "joining"}}
  BY WokenFacts
<1>b. ServeEnded =>
        /\ Grows(Tail(ready), ready', ToSet(Woken("joining")))
        /\ serve' = "ended" /\ ~doomed'
        /\ \A j \in Items : at[j] # "new"
  <2>1. \A j \in Items : at[j] # "new"
    BY <1>0
  <2>2. serve # "ended" => ToSet(Tail(ready)) \cap ToSet(Woken("joining")) = {}
    BY <1>0, <1>a DEF IInv, BarrierInv
  <2>3. serve # "ended"
    BY DEF IInv, EndInv
  <2> QED  BY <1>0, <1>a, <2>1, <2>2, <2>3, ConcatGrows DEF ServeEnded
<1>1. TypeOK'
  <2>1. ready' \in Seq(Steps)
    BY <1>0, <1>a, <1>b DEF IInv, TypeOK, Grows
  <2> QED  BY <2>1 DEF IInv, TypeOK, TriesInv, Running, ServeEnded
<1>2. QueueInv'
  BY <1>0, <1>a, <1>b, StepFacts DEF IInv, TypeOK, QueueInv, WaitInv, Grows, Tasks, Running
<1>3. WaitInv'
  BY <1>0, <1>a, <1>b DEF IInv, TypeOK, WaitInv
<1>4. TriesInv'
  BY DEF IInv, TypeOK, TriesInv, QueueInv, WaitInv, Tasks, Running
<1>5. WithdrawInv'
  BY DEF IInv, TypeOK, WithdrawInv
<1>6. BarrierInv'
  BY <1>0, <1>a, <1>b, StepFacts DEF IInv, TypeOK, BarrierInv, WithdrawInv, Grows, Tasks, Running
<1>7. EndInv'
  BY <1>0, <1>a, <1>b DEF IInv, TypeOK, EndInv, FailureSurfaces, WaitInv, WithdrawInv, BarrierInv
<1> QED  BY <1>1, <1>2, <1>3, <1>4, <1>5, <1>6, <1>7 DEF IInv

\* No task is new when the serve loop ends.
LEMMA ServeCancelledKeeps ==
  ASSUME IInv, ServeCancelled
  PROVE  IInv'
<1> USE DEF ServeCancelled, serveVars, taskVars, stopVars
<1>0. /\ ready # <<>> /\ Tail(ready) \in Seq(Steps) /\ IsInjective(Tail(ready))
      /\ ToSet(ready) = {Loop} \cup ToSet(Tail(ready)) /\ Loop \notin ToSet(Tail(ready))
      /\ Grows(Tail(ready), Tail(ready), {})
      /\ \A j \in Items : at[j] # "new"
  BY RunsFacts DEF IInv
<1>a. /\ Woken("joining") \in Seq(Steps) /\ IsInjective(Woken("joining"))
      /\ ToSet(Woken("joining")) \subseteq {Stop(s) : s \in {t \in Stoppers : stop[t] = "joining"}}
  BY WokenFacts
<1>b. ServeEnded =>
        /\ Grows(Tail(ready), ready', ToSet(Woken("joining")))
        /\ serve' = "ended" /\ ~doomed'
        /\ \A i \in Items : at[i] # "new"
  <2>1. \A i \in Items : at[i] # "new"
    BY <1>0
  <2>2. serve # "ended" => ToSet(Tail(ready)) \cap ToSet(Woken("joining")) = {}
    BY <1>0, <1>a DEF IInv, BarrierInv
  <2>3. serve # "ended"
    BY DEF IInv, EndInv
  <2> QED  BY <1>0, <1>a, <2>1, <2>2, <2>3, ConcatGrows DEF ServeEnded
<1>1. TypeOK'
  <2>1. ready' \in Seq(Steps)
    BY <1>b DEF Grows
  <2>2. at' \in [Items -> {"away", "got", "unread", "released", "unstarted", "ended"} \cup Running]
        /\ settling' \in [Items -> BOOLEAN] /\ tries' \in [Items -> 0..1]
        /\ UNCHANGED <<marked, failed>>
    <3>1. CASE wait = "landed"
      <4> PICK i \in Items : at[i] = "got" /\ Releases(i)
        BY <3>1
      <4> QED  BY DEF IInv, TypeOK, TriesInv, Releases
    <3>2. CASE wait # "landed"
      BY <3>2 DEF IInv, TypeOK
    <3> QED  BY <3>1, <3>2
  <2> QED  BY <2>1, <2>2 DEF IInv, TypeOK, ServeEnded
<1>2. QueueInv'
  <2>1. CASE wait = "landed"
    <3> PICK i \in Items : at[i] = "got" /\ Releases(i)
      BY <2>1
    <3> QED  BY <1>0, <1>a, <1>b, <2>1, StepFacts DEF IInv, Releases, TypeOK, QueueInv, Grows, Tasks, Running
  <2>2. CASE wait # "landed"
    BY <1>0, <1>a, <1>b, <2>2, StepFacts DEF IInv, TypeOK, QueueInv, Grows, Tasks, Running
  <2> QED  BY <2>1, <2>2
<1>3. WaitInv'
  <2>1. CASE wait = "landed"
    <3> PICK i \in Items : at[i] = "got" /\ Releases(i)
      BY <2>1
    <3> QED  BY <1>0, <1>a, <1>b, <2>1, StepFacts DEF IInv, Releases, TypeOK, WaitInv
  <2>2. CASE wait # "landed"
    BY <1>0, <1>a, <1>b, <2>2, StepFacts DEF IInv, TypeOK, WaitInv
  <2> QED  BY <2>1, <2>2
<1>4. TriesInv'
  <2>1. CASE wait = "landed"
    <3> PICK i \in Items : at[i] = "got" /\ Releases(i)
      BY <2>1
    <3> QED  BY <1>0, <1>a, <1>b, <2>1, StepFacts DEF IInv, Releases, TypeOK, TriesInv
  <2>2. CASE wait # "landed"
    BY <1>0, <1>a, <1>b, <2>2, StepFacts DEF IInv, TypeOK, TriesInv
  <2> QED  BY <2>1, <2>2
<1>5. WithdrawInv'
  BY DEF IInv, TypeOK, WithdrawInv
<1>6. BarrierInv'
  <2>1. Tasks' = Tasks
    <3>1. CASE wait = "landed"
      <4> PICK i \in Items : at[i] = "got" /\ Releases(i)
        BY <3>1
      <4> QED  BY DEF IInv, Releases, TypeOK, Tasks, Running
    <3>2. CASE wait # "landed"
      BY <3>2 DEF Tasks
    <3> QED  BY <3>1, <3>2
  <2> QED  BY <1>0, <1>a, <1>b, <2>1, StepFacts DEF IInv, BarrierInv, WithdrawInv, Grows
<1>7. EndInv'
  BY <1>0, <1>a, <1>b DEF IInv, TypeOK, EndInv, FailureSurfaces, WaitInv, WithdrawInv, BarrierInv
<1> QED  BY <1>1, <1>2, <1>3, <1>4, <1>5, <1>6, <1>7 DEF IInv

LEMMA NativeGivesKeeps ==
  ASSUME IInv, NEW i \in Items, NativeGives(i)
  PROVE  IInv'
<1> USE DEF NativeGives, serveVars, taskVars, stopVars
<1>0. ready \in Seq(Steps) /\ IsInjective(ready) /\ Grows(ready, ready, {})
  BY DEF IInv, TypeOK, QueueInv, Grows
<1>1. TypeOK'
  <2>1. ready' \in Seq(Steps)
    BY <1>0 DEF IInv, TypeOK, Grows
  <2> QED  BY <2>1 DEF IInv, TypeOK, TriesInv, Running, ServeEnded
<1>2. QueueInv'
  BY <1>0, StepFacts DEF IInv, TypeOK, QueueInv, WaitInv, Grows, Tasks, Running
<1>3. WaitInv'
  BY <1>0 DEF IInv, TypeOK, WaitInv
<1>4. TriesInv'
  BY DEF IInv, TypeOK, TriesInv, QueueInv, WaitInv, Tasks, Running
<1>5. WithdrawInv'
  BY DEF IInv, TypeOK, WithdrawInv
<1>6. BarrierInv'
  BY <1>0, StepFacts DEF IInv, TypeOK, BarrierInv, WithdrawInv, Grows, Tasks, Running
<1>7. EndInv'
  BY <1>0 DEF IInv, TypeOK, EndInv, FailureSurfaces, WaitInv, WithdrawInv, BarrierInv
<1> QED  BY <1>1, <1>2, <1>3, <1>4, <1>5, <1>6, <1>7 DEF IInv

LEMMA WaitLandsKeeps ==
  ASSUME IInv, NEW i \in Items, WaitLands(i)
  PROVE  IInv'
<1> USE DEF WaitLands, Releases, serveVars, taskVars, stopVars
<1>0. ready \in Seq(Steps) /\ IsInjective(ready) /\ Grows(ready, ready, {})
  BY DEF IInv, TypeOK, QueueInv, Grows
<1>a. Grows(ready, ready', {Loop})
  BY <1>0, StepFacts, QueuedGrows DEF Grows
<1>1. TypeOK'
  <2>1. ready' \in Seq(Steps)
    BY <1>a DEF Grows
  <2>2. CASE serve = "waiting"
    BY <2>1, <2>2 DEF IInv, TypeOK
  <2>3. CASE serve = "ended"
    <3>1. tries[i] = 0
      BY DEF IInv, TriesInv
    <3>2. Releases(i) /\ wait' = "none"
      BY <2>3
    <3>3. tries' \in [Items -> 0..1] /\ settling' \in [Items -> BOOLEAN]
      BY <3>1, <3>2 DEF IInv, TypeOK
    <3>4. at' \in [Items -> {"away", "got", "unread", "released", "unstarted", "ended"} \cup Running]
      BY <3>2 DEF IInv, TypeOK
    <3> QED  BY <2>1, <2>3, <3>2, <3>3, <3>4 DEF IInv, TypeOK
  <2> QED  BY <2>2, <2>3
<1>2. QueueInv'
  BY <1>0, <1>a, StepFacts DEF IInv, TypeOK, QueueInv, WaitInv, Grows, Tasks, Running
<1>3. WaitInv'
  <2>1. CASE serve = "waiting"
    BY <2>1 DEF IInv, TypeOK, WaitInv
  <2>2. CASE serve = "ended"
    BY <2>2 DEF IInv, TypeOK, WaitInv
  <2> QED  BY <2>1, <2>2
<1>4. TriesInv'
  BY DEF IInv, TypeOK, TriesInv, QueueInv, WaitInv, Tasks, Running
<1>5. WithdrawInv'
  BY DEF IInv, TypeOK, WithdrawInv
<1>6. BarrierInv'
  BY <1>0, <1>a, StepFacts DEF IInv, TypeOK, BarrierInv, WithdrawInv, Grows, Tasks, Running
<1>7. EndInv'
  BY <1>0, <1>a DEF IInv, TypeOK, EndInv, FailureSurfaces, WaitInv, WithdrawInv, BarrierInv
<1> QED  BY <1>1, <1>2, <1>3, <1>4, <1>5, <1>6, <1>7 DEF IInv

LEMMA WaitEndsKeeps ==
  ASSUME IInv, WaitEnds
  PROVE  IInv'
<1> USE DEF WaitEnds, serveVars, taskVars, stopVars
<1>0. ready \in Seq(Steps) /\ IsInjective(ready) /\ Grows(ready, ready, {})
  BY DEF IInv, TypeOK, QueueInv, Grows
<1>a. Grows(ready, ready', {Loop})
  BY <1>0, StepFacts, QueuedGrows DEF Grows
<1>1. TypeOK'
  <2>1. ready' \in Seq(Steps)
    BY <1>0, <1>a DEF IInv, TypeOK, Grows
  <2> QED  BY <2>1 DEF IInv, TypeOK, TriesInv, Running, ServeEnded
<1>2. QueueInv'
  BY <1>0, <1>a, StepFacts DEF IInv, TypeOK, QueueInv, WaitInv, Grows, Tasks, Running
<1>3. WaitInv'
  BY <1>0, <1>a DEF IInv, TypeOK, WaitInv
<1>4. TriesInv'
  BY DEF IInv, TypeOK, TriesInv, QueueInv, WaitInv, Tasks, Running
<1>5. WithdrawInv'
  BY DEF IInv, TypeOK, WithdrawInv
<1>6. BarrierInv'
  BY <1>0, <1>a, StepFacts DEF IInv, TypeOK, BarrierInv, WithdrawInv, Grows, Tasks, Running
<1>7. EndInv'
  BY <1>0, <1>a DEF IInv, TypeOK, EndInv, FailureSurfaces, WaitInv, WithdrawInv, BarrierInv
<1> QED  BY <1>1, <1>2, <1>3, <1>4, <1>5, <1>6, <1>7 DEF IInv

\* A task that goes on is no longer new, and its cancellation has been delivered.
LEMMA GoesOnKeeps ==
  ASSUME IInv, NEW i \in Items, NEW w \in {"handling", "closing", "answering", "freeing"},
         Runs(Task(i)), i \in Tasks, TaskGoesOn(i, w),
         settling' \in {settling, [settling EXCEPT ![i] = TRUE]},
         w \in {"answering", "freeing"} => settling'[i],
         tries' = [tries EXCEPT ![i] = IF w \in {"answering", "freeing"} THEN 1 ELSE 0],
         UNCHANGED <<streaming, handle, serveVars, failed, stopVars, native, item>>
  PROVE  IInv'
<1> USE DEF TaskGoesOn, serveVars, taskVars, stopVars
<1>0. /\ ready # <<>> /\ Tail(ready) \in Seq(Steps) /\ IsInjective(Tail(ready))
      /\ ToSet(ready) = {Task(i)} \cup ToSet(Tail(ready)) /\ Task(i) \notin ToSet(Tail(ready))
      /\ Grows(Tail(ready), Tail(ready), {})
      /\ \A j \in Items : at[j] = "new" /\ Task(i) # Task(j) => Ahead(Tail(ready), Task(j), Loop)
  BY RunsFacts DEF IInv
<1>a. /\ Grows(Tail(ready), ready', {}) /\ Tasks' = Tasks
      /\ at[i] \in Running
  BY <1>0 DEF IInv, TypeOK, Tasks, Running
<1>1. TypeOK'
  <2>1. ready' \in Seq(Steps)
    BY <1>a DEF Grows
  <2>2. at' \in [Items -> {"away", "got", "unread", "released", "unstarted", "ended"} \cup Running]
    BY DEF IInv, TypeOK, Running
  <2>3. tries' \in [Items -> 0..1]
    BY DEF IInv, TypeOK
  <2> QED  BY <2>1, <2>2, <2>3 DEF IInv, TypeOK
<1>2. QueueInv'
  BY <1>0, <1>a, StepFacts DEF IInv, TypeOK, QueueInv, WaitInv, Grows, Tasks, Running
<1>3. WaitInv'
  BY <1>a DEF IInv, TypeOK, WaitInv, Running
<1>4. TriesInv'
  BY DEF IInv, TypeOK, TriesInv, QueueInv, WaitInv, Tasks, Running
<1>5. WithdrawInv'
  BY DEF IInv, TypeOK, WithdrawInv
<1>6. BarrierInv'
  BY <1>0, <1>a, StepFacts DEF IInv, TypeOK, BarrierInv, WithdrawInv, Grows, Tasks, Running
<1>7. EndInv'
  BY <1>0, <1>a DEF IInv, TypeOK, EndInv, FailureSurfaces, WaitInv, WithdrawInv, BarrierInv
<1> QED  BY <1>1, <1>2, <1>3, <1>4, <1>5, <1>6, <1>7 DEF IInv

\* The last task to end wakes the stop() that gathers.
LEMMA EndsKeeps ==
  ASSUME IInv, NEW i \in Items, Runs(Task(i)), TaskEnds(i, "ended"),
         tries' = [tries EXCEPT ![i] = 1],
         \/ UNCHANGED <<item, failed>> /\ tries[i] = 1
         \/ Settled(i)
         \/ Fails(i),
         UNCHANGED <<streaming, handle, serveVars, settling, stopVars, native>>
  PROVE  IInv'
<1> USE DEF TaskEnds, serveVars, taskVars, stopVars
<1>0. /\ ready # <<>> /\ Tail(ready) \in Seq(Steps) /\ IsInjective(Tail(ready))
      /\ ToSet(ready) = {Task(i)} \cup ToSet(Tail(ready)) /\ Task(i) \notin ToSet(Tail(ready))
      /\ Grows(Tail(ready), Tail(ready), {})
      /\ \A j \in Items : at[j] = "new" /\ Task(i) # Task(j) => Ahead(Tail(ready), Task(j), Loop)
  BY RunsFacts DEF IInv
<1>a. /\ Woken("gathering") \in Seq(Steps) /\ IsInjective(Woken("gathering"))
      /\ ToSet(Woken("gathering")) \subseteq {Stop(s) : s \in {t \in Stoppers : stop[t] = "gathering"}}
  BY WokenFacts
<1>b. i \in Tasks
  BY <1>0 DEF IInv, QueueInv
<1>c. /\ Grows(Tail(ready), ready', IF Tasks = {i} THEN ToSet(Woken("gathering")) ELSE {})
      /\ ready' \in Seq(Steps)
  <2>1. ToSet(Tail(ready)) \cap ToSet(Woken("gathering")) = {}
    BY <1>0, <1>a, <1>b DEF IInv, BarrierInv
  <2>2. CASE Tasks = {i}
    BY <1>0, <1>a, <2>1, <2>2, ConcatGrows DEF LastEnds, Grows
  <2>3. CASE Tasks # {i}
    BY <1>0, <2>3, EmptyFacts, ConcatProperties DEF LastEnds, Grows
  <2> QED  BY <2>2, <2>3
<1>d. Tasks' = Tasks \ {i}
  BY DEF IInv, TypeOK, Tasks, Running
<1>e. /\ item' \in {item, [item EXCEPT ![i] = "settled"]}
      /\ failed' \in [Items -> BOOLEAN]
      /\ failed'[i] => failed[i] \/ ~streaming
      /\ failed'[i] \/ item'[i] = "settled" \/ settling[i]
      /\ \A j \in Items : j # i => failed'[j] = failed[j] /\ item'[j] = item[j]
  <2>1. CASE UNCHANGED <<item, failed>> /\ tries[i] = 1
    BY <2>1 DEF IInv, TypeOK, TriesInv
  <2>2. CASE Settled(i)
    BY <2>2 DEF Settled, IInv, TypeOK
  <2>3. CASE Fails(i)
    BY <2>3 DEF Fails, IInv, TypeOK
  <2> QED  BY <2>1, <2>2, <2>3
<1>1. TypeOK'
  <2>1. /\ at' \in [Items -> {"away", "got", "unread", "released", "unstarted", "ended"} \cup Running]
        /\ marked' \in [Items -> BOOLEAN] /\ tries' \in [Items -> 0..1]
        /\ item' \in [Items -> {"away", "inbox", "held", "settled"}]
    BY <1>e DEF IInv, TypeOK
  <2> QED  BY <1>c, <1>e, <2>1 DEF IInv, TypeOK
<1>2. QueueInv'
  <2>1. \A j \in Items : Task(j) \in ToSet(ready') => Task(j) \in ToSet(Tail(ready))
    BY <1>a, <1>c, StepFacts DEF Grows
  <2>2. \A j \in Items : at'[j] = "new" => j # i /\ at[j] = "new" /\ Task(i) # Task(j)
    BY StepFacts DEF IInv, TypeOK
  <2> QED  BY <1>0, <1>c, <1>d, <2>1, <2>2 DEF IInv, TypeOK, QueueInv, Grows
<1>3. WaitInv'
  BY <1>b, <1>e DEF IInv, TypeOK, WaitInv, Tasks, Running
<1>4. TriesInv'
  BY <1>e DEF IInv, TypeOK, TriesInv
<1>5. WithdrawInv'
  BY DEF IInv, TypeOK, WithdrawInv
<1>6. BarrierInv'
  <2>1. \A s \in Stoppers : Stop(s) \in ToSet(ready') =>
           Stop(s) \in ToSet(ready) \/ (stop[s] = "gathering" /\ Tasks = {i})
    BY <1>0, <1>a, <1>c, StepFacts DEF Grows
  <2> QED  BY <1>b, <1>d, <2>1 DEF IInv, BarrierInv, WithdrawInv
<1>7. EndInv'
  BY DEF IInv, TypeOK, EndInv, FailureSurfaces
<1> QED  BY <1>1, <1>2, <1>3, <1>4, <1>5, <1>6, <1>7 DEF IInv

LEMMA HandlerWaitsKeeps ==
  ASSUME IInv, NEW i \in Items, HandlerWaits(i)
  PROVE  IInv'
<1>1. tries[i] = 0 /\ i \in Tasks
  BY DEF HandlerWaits, InHandler, IInv, TriesInv, Tasks, Running
<1>2. tries = [tries EXCEPT ![i] = 0]
  BY <1>1 DEF IInv, TypeOK
<1> QED  BY <1>1, <1>2, GoesOnKeeps DEF HandlerWaits, IInv, TypeOK

LEMMA HandlerEndsKeeps ==
  ASSUME IInv, NEW i \in Items, HandlerEnds(i)
  PROVE  IInv'
<1>1. tries[i] = 0 /\ i \in Tasks /\ 0 + 1 = 1
  BY DEF HandlerEnds, InHandler, IInv, TriesInv, Tasks, Running
<1>2. CASE TaskGoesOn(i, "closing") /\ UNCHANGED <<settling, tries, failed, item>>
  <2>1. tries = [tries EXCEPT ![i] = 0]
    BY <1>1 DEF IInv, TypeOK
  <2> QED  BY <1>1, <1>2, <2>1, GoesOnKeeps DEF HandlerEnds
<1>3. ASSUME NEW w \in {"answering", "freeing"}, TaskGoesOn(i, w), SetsOut(i), UNCHANGED item
      PROVE  IInv'
  <2>1. settling' = [settling EXCEPT ![i] = TRUE] /\ settling'[i] /\ tries' = [tries EXCEPT ![i] = 1]
    BY <1>1, <1>3 DEF SetsOut, IInv, TypeOK
  <2> QED  BY <1>1, <1>3, <2>1, GoesOnKeeps DEF HandlerEnds, SetsOut
<1>4. CASE TaskEnds(i, "ended") /\ Fails(i) /\ tries' = [tries EXCEPT ![i] = tries[i] + 1]
           /\ UNCHANGED settling
  <2>1. tries' = [tries EXCEPT ![i] = 1]
    BY <1>1, <1>4 DEF IInv, TypeOK
  <2> QED  BY <1>4, <2>1, EndsKeeps DEF HandlerEnds
<1> QED  BY <1>2, <1>3, <1>4 DEF HandlerEnds

LEMMA HandlerCancelledKeeps ==
  ASSUME IInv, NEW i \in Items, HandlerCancelled(i)
  PROVE  IInv'
<1>1. tries[i] = 0 /\ i \in Tasks /\ 0 + 1 = 1
  BY DEF HandlerCancelled, InHandler, IInv, TriesInv, Tasks, Running
<1>2. CASE TaskGoesOn(i, "freeing") /\ SetsOut(i) /\ UNCHANGED item
  <2>1. settling' = [settling EXCEPT ![i] = TRUE] /\ settling'[i] /\ tries' = [tries EXCEPT ![i] = 1]
    BY <1>1, <1>2 DEF SetsOut, IInv, TypeOK
  <2> QED  BY <1>1, <1>2, <2>1, GoesOnKeeps DEF HandlerCancelled, SetsOut
<1>3. CASE TaskEnds(i, "ended") /\ AnswersNow(i)
  <2>1. tries' = [tries EXCEPT ![i] = 1]
    BY <1>1, <1>3 DEF AnswersNow, IInv, TypeOK
  <2> QED  BY <1>3, <2>1, EndsKeeps DEF HandlerCancelled, AnswersNow
<1> QED  BY <1>2, <1>3 DEF HandlerCancelled

LEMMA SessionFreesKeeps ==
  ASSUME IInv, NEW i \in Items, SessionFrees(i)
  PROVE  IInv'
<1>1. tries[i] = 0 /\ i \in Tasks /\ 0 + 1 = 1
  BY DEF SessionFrees, IInv, TriesInv, Tasks, Running
<1>2. settling' = [settling EXCEPT ![i] = TRUE] /\ settling'[i] /\ tries' = [tries EXCEPT ![i] = 1]
  BY <1>1 DEF SessionFrees, SetsOut, IInv, TypeOK
<1> QED  BY <1>1, <1>2, GoesOnKeeps DEF SessionFrees, SetsOut

\* No task ends before its first step.
LEMMA TaskDoneKeeps ==
  ASSUME IInv, NEW i \in Items, TaskDone(i)
  PROVE  IInv'
<1>1. ~NeverStarted(i) /\ tries[i] = 1
  BY DEF TaskDone, NeverStarted, IInv, QueueInv, TriesInv
<1>2. tries = [tries EXCEPT ![i] = 1]
  BY <1>1 DEF IInv, TypeOK
<1> QED  BY <1>1, <1>2, EndsKeeps DEF TaskDone

LEMMA TaskWakesKeeps ==
  ASSUME IInv, NEW i \in Items, TaskWakes(i)
  PROVE  IInv'
<1> USE DEF TaskWakes, serveVars, taskVars, stopVars
<1>0. ready \in Seq(Steps) /\ IsInjective(ready) /\ Grows(ready, ready, {})
  BY DEF IInv, TypeOK, QueueInv, Grows
<1>a. Grows(ready, ready', {Task(i)}) /\ i \in Tasks
  BY <1>0, StepFacts, AppendGrows DEF Tasks, Running
<1>1. TypeOK'
  <2>1. ready' \in Seq(Steps)
    BY <1>0, <1>a DEF IInv, TypeOK, Grows
  <2> QED  BY <2>1 DEF IInv, TypeOK, TriesInv, Running, ServeEnded
<1>2. QueueInv'
  BY <1>0, <1>a, StepFacts DEF IInv, TypeOK, QueueInv, WaitInv, Grows, Tasks, Running
<1>3. WaitInv'
  BY <1>0, <1>a DEF IInv, TypeOK, WaitInv
<1>4. TriesInv'
  BY DEF IInv, TypeOK, TriesInv, QueueInv, WaitInv, Tasks, Running
<1>5. WithdrawInv'
  BY DEF IInv, TypeOK, WithdrawInv
<1>6. BarrierInv'
  BY <1>0, <1>a, StepFacts DEF IInv, TypeOK, BarrierInv, WithdrawInv, Grows, Tasks, Running
<1>7. EndInv'
  BY <1>0, <1>a DEF IInv, TypeOK, EndInv, FailureSurfaces, WaitInv, WithdrawInv, BarrierInv
<1> QED  BY <1>1, <1>2, <1>3, <1>4, <1>5, <1>6, <1>7 DEF IInv

LEMMA SettlesKeeps ==
  ASSUME IInv, NEW i \in Items, Settles(i)
  PROVE  IInv'
<1> USE DEF Settles, serveVars, taskVars, stopVars
<1>0. ready \in Seq(Steps) /\ IsInjective(ready) /\ Grows(ready, ready, {})
  BY DEF IInv, TypeOK, QueueInv, Grows
<1>a. Grows(ready, ready', IF i \in Tasks THEN {Task(i)} ELSE {})
  <2>1. CASE at[i] \in {"answering", "freeing"}
    BY <1>0, <2>1, StepFacts, QueuedGrows DEF Tasks, Running
  <2>2. CASE at[i] \notin {"answering", "freeing"}
    BY <1>0, <2>2 DEF Grows
  <2> QED  BY <2>1, <2>2
<1>b. /\ item' \in {item, [item EXCEPT ![i] = "settled"]}
      /\ failed' \in [Items -> BOOLEAN]
      /\ failed'[i] => failed[i] \/ ~streaming
      /\ failed'[i] \/ item'[i] = "settled"
      /\ \A j \in Items : j # i => failed'[j] = failed[j] /\ item'[j] = item[j]
  <2>1. CASE Settled(i)
    BY <2>1 DEF Settled, IInv, TypeOK
  <2>2. CASE Fails(i)
    BY <2>2 DEF Fails, IInv, TypeOK
  <2> QED  BY <2>1, <2>2
<1>c. /\ settling' \in [Items -> BOOLEAN] /\ item' \in [Items -> {"away", "inbox", "held", "settled"}]
      /\ \A j \in Items : j # i => settling'[j] = settling[j]
  BY <1>b DEF IInv, TypeOK
<1>1. TypeOK'
  <2>1. ready' \in Seq(Steps)
    BY <1>0, <1>a DEF IInv, TypeOK, Grows
  <2> QED  BY <1>b, <1>c, <2>1 DEF IInv, TypeOK
<1>2. QueueInv'
  BY <1>0, <1>a, StepFacts DEF IInv, TypeOK, QueueInv, WaitInv, Grows, Tasks, Running
<1>3. WaitInv'
  BY <1>b DEF IInv, TypeOK, WaitInv
<1>4. TriesInv'
  BY <1>b, <1>c DEF IInv, TypeOK, TriesInv
<1>5. WithdrawInv'
  BY DEF IInv, TypeOK, WithdrawInv
<1>6. BarrierInv'
  BY <1>0, <1>a, StepFacts DEF IInv, TypeOK, BarrierInv, WithdrawInv, Grows, Tasks, Running
<1>7. EndInv'
  BY <1>0, <1>a DEF IInv, TypeOK, EndInv, FailureSurfaces, WaitInv, WithdrawInv, BarrierInv
<1> QED  BY <1>1, <1>2, <1>3, <1>4, <1>5, <1>6, <1>7 DEF IInv

-----------------------------------------------------------------------------
(* stop().                                                                 *)

LEMMA TaskStepsFacts ==
  IsFiniteSet({Task(i) : i \in Tasks}) /\ {Task(i) : i \in Tasks} \in SUBSET Steps
<1>1. IsFiniteSet(Tasks)
  BY ServedAssumption, FS_Subset DEF Tasks
<1>2. [i \in Tasks |-> Task(i)] \in Surjection(Tasks, {Task(i) : i \in Tasks})
  BY DEF Surjection
<1>3. IsFiniteSet({Task(i) : i \in Tasks})
  BY <1>1, <1>2, FS_Surjection
<1> QED  BY <1>3, StepFacts DEF Tasks

LEMMA StopAgainKeeps ==
  ASSUME IInv, NEW s \in Stoppers, StopAgain(s)
  PROVE  IInv'
<1> USE DEF StopAgain, serveVars, taskVars, stopVars
<1>0. ready \in Seq(Steps) /\ IsInjective(ready) /\ Grows(ready, ready, {})
  BY DEF IInv, TypeOK, QueueInv, Grows
<1>1. TypeOK'
  <2>1. ready' \in Seq(Steps)
    BY <1>0 DEF IInv, TypeOK, Grows
  <2> QED  BY <2>1 DEF IInv, TypeOK, TriesInv, Running, ServeEnded
<1>2. QueueInv'
  BY <1>0, StepFacts DEF IInv, TypeOK, QueueInv, WaitInv, Grows, Tasks, Running
<1>3. WaitInv'
  BY <1>0 DEF IInv, TypeOK, WaitInv
<1>4. TriesInv'
  BY DEF IInv, TypeOK, TriesInv, QueueInv, WaitInv, Tasks, Running
<1>5. WithdrawInv'
  BY DEF IInv, TypeOK, WithdrawInv
<1>6. BarrierInv'
  BY <1>0, StepFacts DEF IInv, TypeOK, BarrierInv, WithdrawInv, Grows, Tasks, Running
<1>7. EndInv'
  BY <1>0 DEF IInv, TypeOK, EndInv, FailureSurfaces, WaitInv, WithdrawInv, BarrierInv
<1> QED  BY <1>1, <1>2, <1>3, <1>4, <1>5, <1>6, <1>7 DEF IInv

LEMMA StopBeginsKeeps ==
  ASSUME IInv, NEW s \in Stoppers, StopBegins(s)
  PROVE  IInv'
<1> USE DEF StopBegins, serveVars, taskVars, stopVars
<1>0. ready \in Seq(Steps) /\ IsInjective(ready) /\ Grows(ready, ready, {})
  BY DEF IInv, TypeOK, QueueInv, Grows
<1>1. TypeOK'
  <2>1. ready' \in Seq(Steps)
    BY <1>0 DEF IInv, TypeOK, Grows
  <2> QED  BY <2>1 DEF IInv, TypeOK, TriesInv, Running, ServeEnded
<1>2. QueueInv'
  BY <1>0, StepFacts DEF IInv, TypeOK, QueueInv, WaitInv, Grows, Tasks, Running
<1>3. WaitInv'
  BY <1>0 DEF IInv, TypeOK, WaitInv
<1>4. TriesInv'
  BY DEF IInv, TypeOK, TriesInv, QueueInv, WaitInv, Tasks, Running
<1>5. WithdrawInv'
  BY DEF IInv, TypeOK, WithdrawInv
<1>6. BarrierInv'
  BY <1>0, StepFacts DEF IInv, TypeOK, BarrierInv, WithdrawInv, Grows, Tasks, Running
<1>7. EndInv'
  BY <1>0 DEF IInv, TypeOK, EndInv, FailureSurfaces, WaitInv, WithdrawInv, BarrierInv
<1> QED  BY <1>1, <1>2, <1>3, <1>4, <1>5, <1>6, <1>7 DEF IInv

LEMMA WithdrawEndsKeeps ==
  ASSUME IInv, NEW s \in Stoppers, WithdrawEnds(s)
  PROVE  IInv'
<1> USE DEF WithdrawEnds, Withdrawn, serveVars, taskVars, stopVars
<1>0. ready \in Seq(Steps) /\ IsInjective(ready) /\ Grows(ready, ready, {})
  BY DEF IInv, TypeOK, QueueInv, Grows
<1>a. Grows(ready, ready', IF stop[s] = "withdrawing" THEN {Stop(s)} ELSE {})
  <2>1. CASE stop[s] = "withdrawing"
    BY <1>0, <2>1, StepFacts, QueuedGrows
  <2>2. CASE stop[s] # "withdrawing"
    BY <1>0, <2>2 DEF Grows
  <2> QED  BY <2>1, <2>2
<1>1. TypeOK'
  <2>1. ready' \in Seq(Steps)
    BY <1>0, <1>a DEF IInv, TypeOK, Grows
  <2> QED  BY <2>1 DEF IInv, TypeOK, TriesInv, Running, ServeEnded
<1>2. QueueInv'
  BY <1>0, <1>a, StepFacts DEF IInv, TypeOK, QueueInv, WaitInv, Grows, Tasks, Running
<1>3. WaitInv'
  BY <1>0, <1>a DEF IInv, TypeOK, WaitInv
<1>4. TriesInv'
  BY DEF IInv, TypeOK, TriesInv, QueueInv, WaitInv, Tasks, Running
<1>5. WithdrawInv'
  BY DEF IInv, TypeOK, WithdrawInv
<1>6. BarrierInv'
  BY <1>0, <1>a, StepFacts DEF IInv, TypeOK, BarrierInv, WithdrawInv, Grows, Tasks, Running
<1>7. EndInv'
  BY <1>0, <1>a DEF IInv, TypeOK, EndInv, FailureSurfaces, WaitInv, WithdrawInv, BarrierInv
<1> QED  BY <1>1, <1>2, <1>3, <1>4, <1>5, <1>6, <1>7 DEF IInv

\* A stop() that waits for the serve loop is not queued itself.
LEMMA StopJoinsKeeps ==
  ASSUME IInv, NEW s \in Stoppers, StopJoins(s)
  PROVE  IInv'
<1> USE DEF StopJoins, Moves, serveVars, taskVars, stopVars
<1>0. /\ ready # <<>> /\ Tail(ready) \in Seq(Steps) /\ IsInjective(Tail(ready))
      /\ ToSet(ready) = {Stop(s)} \cup ToSet(Tail(ready)) /\ Stop(s) \notin ToSet(Tail(ready))
      /\ Grows(Tail(ready), Tail(ready), {})
      /\ \A j \in Items : at[j] = "new" /\ Stop(s) # Task(j) => Ahead(Tail(ready), Task(j), Loop)
  BY RunsFacts DEF IInv
<1>a. /\ serve # "ended" => Grows(Tail(ready), ready', {Loop}) /\ doomed'
      /\ serve = "ended" => Grows(Tail(ready), ready', {Stop(s)}) /\ doomed' = doomed
  <2>1. Loop \in Steps /\ Stop(s) \in Steps
    BY StepFacts
  <2>2. CASE serve # "ended" /\ CancelsLoop
    BY <1>0, <2>1, <2>2, QueuedGrows DEF CancelsLoop
  <2>3. CASE serve = "ended" /\ ready' = Append(Tail(ready), Stop(s)) /\ doomed' = doomed
    BY <1>0, <2>1, <2>3, AppendGrows
  <2> QED  BY <2>2, <2>3
<1>b. ready' \in Seq(Steps) /\ doomed' \in BOOLEAN
  BY <1>a DEF Grows, IInv, TypeOK
<1>1. TypeOK'
  BY <1>b DEF IInv, TypeOK
<1>2. QueueInv'
  BY <1>0, <1>a, <1>b, StepFacts DEF IInv, TypeOK, QueueInv, WaitInv, Grows, Tasks, Running
<1>3. WaitInv'
  BY <1>0, <1>a, <1>b DEF IInv, TypeOK, WaitInv
<1>4. TriesInv'
  BY DEF IInv, TypeOK, TriesInv, QueueInv, WaitInv, Tasks, Running
<1>5. WithdrawInv'
  BY DEF IInv, TypeOK, WithdrawInv
<1>6. BarrierInv'
  BY <1>0, <1>a, <1>b, StepFacts DEF IInv, TypeOK, BarrierInv, WithdrawInv, Grows, Tasks, Running
<1>7. EndInv'
  BY <1>0, <1>a, <1>b DEF IInv, TypeOK, EndInv, FailureSurfaces, WaitInv, WithdrawInv, BarrierInv
<1> QED  BY <1>1, <1>2, <1>3, <1>4, <1>5, <1>6, <1>7 DEF IInv

\* One that waits for the handlers is not queued either, and no handler is new.
LEMMA StopGathersKeeps ==
  ASSUME IInv, NEW s \in Stoppers, StopGathers(s)
  PROVE  IInv'
<1> USE DEF StopGathers, Moves, serveVars, taskVars, stopVars
<1>0. /\ ready # <<>> /\ Tail(ready) \in Seq(Steps) /\ IsInjective(Tail(ready))
      /\ ToSet(ready) = {Stop(s)} \cup ToSet(Tail(ready)) /\ Stop(s) \notin ToSet(Tail(ready))
      /\ Grows(Tail(ready), Tail(ready), {})
      /\ \A j \in Items : at[j] = "new" /\ Stop(s) # Task(j) => Ahead(Tail(ready), Task(j), Loop)
  BY RunsFacts DEF IInv
<1>f. IsFiniteSet({Task(i) : i \in Tasks}) /\ {Task(i) : i \in Tasks} \in SUBSET Steps
  BY TaskStepsFacts
<1>a. Grows(Tail(ready), ready', {Task(i) : i \in Tasks}) /\ Tasks' = Tasks
  BY <1>0, <1>f, QueuedAllGrows DEF CancelsTasks, Tasks
<1>b. /\ marked' = [i \in Items |-> marked[i] \/ i \in Tasks]
      /\ serve = "ended" /\ withdraw[s] = "done" /\ stop[s] \in {"withdrawing", "joining"}
      /\ ready' \in Seq(Steps) /\ stop' = [stop EXCEPT ![s] = "gathering"]
      /\ UNCHANGED <<streaming, handle, serveVars, at, settling, tries, failed, abandoned, withdraw,
                     native, item>>
  BY <1>0, <1>a DEF CancelsTasks, Joined, IInv, BarrierInv, WithdrawInv, Grows
<1>c. \A i \in Items : at[i] # "new"
  BY <1>b DEF IInv, QueueInv
<1> HIDE DEF StopGathers
<1> USE <1>b
<1>1. TypeOK'
  <2>1. marked' \in [Items -> BOOLEAN]
    <3>1. \A i \in Items : (marked[i] \/ i \in Tasks) \in BOOLEAN
      OBVIOUS
    <3> QED  BY <3>1
  <2> QED  BY <2>1 DEF IInv, TypeOK
<1>2. QueueInv'
  BY <1>0, <1>a, <1>c, StepFacts DEF IInv, TypeOK, QueueInv, WaitInv, Grows, Tasks, Running
<1>3. WaitInv'
  BY <1>0, <1>a, <1>c DEF IInv, TypeOK, WaitInv
<1>4. TriesInv'
  BY DEF IInv, TypeOK, TriesInv, QueueInv, WaitInv, Tasks, Running
<1>5. WithdrawInv'
  BY DEF IInv, TypeOK, WithdrawInv
<1>6. BarrierInv'
  <2>1. ASSUME NEW t \in Stoppers, Stop(t) \in ToSet(ready')
        PROVE  t # s /\ Stop(t) \in ToSet(ready)
    <3>1. ToSet(ready') \subseteq ToSet(Tail(ready)) \cup {Task(i) : i \in Tasks}
      BY <1>a DEF Grows
    <3>2. Stop(t) \notin {Task(i) : i \in Tasks}
      BY StepFacts DEF Tasks
    <3>3. Stop(t) \in ToSet(Tail(ready))
      BY <2>1, <3>1, <3>2
    <3> QED  BY <1>0, <3>3
  <2>2. \A t \in Stoppers : t # s => stop'[t] = stop[t]
    BY DEF IInv, TypeOK
  <2>3. stop'[s] = "gathering"
    BY DEF IInv, TypeOK
  <2> QED  BY <1>a, <2>1, <2>2, <2>3 DEF IInv, BarrierInv
<1>7. EndInv'
  BY <1>0, <1>a, <1>c DEF IInv, TypeOK, EndInv, FailureSurfaces, WaitInv, WithdrawInv, BarrierInv
<1> QED  BY <1>1, <1>2, <1>3, <1>4, <1>5, <1>6, <1>7 DEF IInv

\* A stop() that gathered runs again once every handler has ended.
LEMMA StopEndsKeeps ==
  ASSUME IInv, NEW s \in Stoppers, StopEnds(s)
  PROVE  IInv'
<1> USE DEF Verdict, serveVars, taskVars, stopVars
<1>z. Runs(Stop(s))
  BY DEF StopEnds
<1>0. /\ ready # <<>> /\ Tail(ready) \in Seq(Steps) /\ IsInjective(Tail(ready))
      /\ ToSet(ready) = {Stop(s)} \cup ToSet(Tail(ready)) /\ Stop(s) \notin ToSet(Tail(ready))
      /\ Grows(Tail(ready), Tail(ready), {})
      /\ \A j \in Items : at[j] = "new" /\ Stop(s) # Task(j) => Ahead(Tail(ready), Task(j), Loop)
  BY <1>z, RunsFacts DEF IInv
<1>a. PICK p \in {"returned", "raised"} :
        /\ ready' = Tail(ready) /\ stop' = [stop EXCEPT ![s] = p]
        /\ UNCHANGED <<streaming, handle, serveVars, taskVars, abandoned, withdraw, native, item>>
        /\ ~abandoned[s] /\ withdraw[s] \in {"done", "failed"}
        /\ withdraw[s] = "done" => serve = "ended" /\ Tasks = {} /\ (failure => p = "raised")
  <2>1. CASE (stop[s] = "gathering" \/ (Joined(s) /\ Tasks = {})) /\ Moves(s, Verdict)
    <3>1. withdraw[s] = "done" /\ serve = "ended" /\ Tasks = {}
      BY <1>0, <2>1 DEF Joined, IInv, BarrierInv, WithdrawInv
    <3>2. Verdict \in {"returned", "raised"} /\ (failure => Verdict = "raised")
      BY DEF Verdict
    <3> QED  BY <2>1, <3>1, <3>2 DEF StopEnds, Moves
  <2>2. CASE stop[s] = "withdrawing" /\ withdraw[s] = "failed" /\ Moves(s, "raised")
    BY <2>2 DEF StopEnds, Moves
  <2> QED  BY <2>1, <2>2 DEF StopEnds
<1>b. Tasks' = Tasks
  BY <1>a DEF Tasks, taskVars
<1> USE <1>a
<1>1. TypeOK'
  BY <1>0 DEF IInv, TypeOK
<1>2. QueueInv'
  BY <1>0, <1>b, StepFacts DEF IInv, TypeOK, QueueInv, WaitInv, Grows, Tasks, Running
<1>3. WaitInv'
  BY <1>0, <1>b DEF IInv, TypeOK, WaitInv
<1>4. TriesInv'
  BY DEF IInv, TypeOK, TriesInv, QueueInv, WaitInv, Tasks, Running
<1>5. WithdrawInv'
  BY DEF IInv, TypeOK, WithdrawInv
<1>6. BarrierInv'
  BY <1>0, <1>b DEF IInv, TypeOK, BarrierInv, WithdrawInv
<1>7. EndInv'
  BY <1>0, <1>b DEF IInv, TypeOK, EndInv, FailureSurfaces, WaitInv, WithdrawInv, BarrierInv
<1> QED  BY <1>1, <1>2, <1>3, <1>4, <1>5, <1>6, <1>7 DEF IInv

LEMMA StopCancelledKeeps ==
  ASSUME IInv, NEW s \in Stoppers, StopCancelled(s)
  PROVE  IInv'
<1> USE DEF StopCancelled, serveVars, taskVars, stopVars
<1>0. ready \in Seq(Steps) /\ IsInjective(ready) /\ Grows(ready, ready, {})
  BY DEF IInv, TypeOK, QueueInv, Grows
<1>f. IsFiniteSet({Task(i) : i \in Tasks}) /\ {Task(i) : i \in Tasks} \in SUBSET Steps
  BY TaskStepsFacts
<1>a. /\ stop[s] = "withdrawing" => Grows(ready, ready', {Stop(s)})
      /\ stop[s] = "joining" => Grows(ready, ready', {})
      /\ stop[s] = "gathering" => Grows(ready, ready', {Task(i) : i \in Tasks}) /\ serve = "ended"
      /\ Tasks' = Tasks
  BY <1>0, <1>f, StepFacts, QueuedGrows, QueuedAllGrows DEF CancelsTasks, Tasks, IInv, BarrierInv
<1>b. /\ ready' \in Seq(Steps)
      /\ marked' \in [Items -> BOOLEAN]
      /\ \A i \in Items : marked'[i] => marked[i] \/ i \in Tasks
      /\ stop[s] = "gathering" => \A i \in Items : at[i] # "new"
      /\ stop[s] # "gathering" => marked' = marked
  <2>1. ready' \in Seq(Steps)
    BY <1>a DEF Grows
  <2>2. CASE stop[s] = "gathering"
    <3>1. marked' = [i \in Items |-> marked[i] \/ i \in Tasks]
      BY <2>2 DEF CancelsTasks
    <3>2. \A i \in Items : (marked[i] \/ i \in Tasks) \in BOOLEAN
      OBVIOUS
    <3>3. marked' \in [Items -> BOOLEAN] /\ \A i \in Items : marked'[i] => marked[i] \/ i \in Tasks
      BY <3>1, <3>2
    <3> QED  BY <1>a, <2>1, <2>2, <3>3 DEF IInv, QueueInv
  <2>3. CASE stop[s] # "gathering"
    BY <2>1, <2>3 DEF IInv, TypeOK
  <2> QED  BY <2>2, <2>3
<1>1. TypeOK'
  BY <1>b DEF IInv, TypeOK
<1>2. QueueInv'
  BY <1>0, <1>a, <1>b, StepFacts DEF IInv, TypeOK, QueueInv, WaitInv, Grows, Tasks, Running
<1>3. WaitInv'
  BY <1>0, <1>a, <1>b DEF IInv, TypeOK, WaitInv
<1>4. TriesInv'
  BY DEF IInv, TypeOK, TriesInv, QueueInv, WaitInv, Tasks, Running
<1>5. WithdrawInv'
  BY DEF IInv, TypeOK, WithdrawInv
<1>6. BarrierInv'
  BY <1>0, <1>a, <1>b, StepFacts DEF IInv, TypeOK, BarrierInv, WithdrawInv, Grows, Tasks, Running
<1>7. EndInv'
  BY <1>0, <1>a, <1>b DEF IInv, TypeOK, EndInv, FailureSurfaces, WaitInv, WithdrawInv, BarrierInv
<1> QED  BY <1>1, <1>2, <1>3, <1>4, <1>5, <1>6, <1>7 DEF IInv

LEMMA StopAbandonedKeeps ==
  ASSUME IInv, NEW s \in Stoppers, StopAbandoned(s)
  PROVE  IInv'
<1> USE DEF StopAbandoned, Moves, serveVars, taskVars, stopVars
<1>0. /\ ready # <<>> /\ Tail(ready) \in Seq(Steps) /\ IsInjective(Tail(ready))
      /\ ToSet(ready) = {Stop(s)} \cup ToSet(Tail(ready)) /\ Stop(s) \notin ToSet(Tail(ready))
      /\ Grows(Tail(ready), Tail(ready), {})
      /\ \A j \in Items : at[j] = "new" /\ Stop(s) # Task(j) => Ahead(Tail(ready), Task(j), Loop)
  BY RunsFacts DEF IInv
<1>1. TypeOK'
  <2>1. ready' \in Seq(Steps)
    BY <1>0 DEF IInv, TypeOK, Grows
  <2> QED  BY <2>1 DEF IInv, TypeOK, TriesInv, Running, ServeEnded
<1>2. QueueInv'
  BY <1>0, StepFacts DEF IInv, TypeOK, QueueInv, WaitInv, Grows, Tasks, Running
<1>3. WaitInv'
  BY <1>0 DEF IInv, TypeOK, WaitInv
<1>4. TriesInv'
  BY DEF IInv, TypeOK, TriesInv, QueueInv, WaitInv, Tasks, Running
<1>5. WithdrawInv'
  BY DEF IInv, TypeOK, WithdrawInv
<1>6. BarrierInv'
  BY <1>0, StepFacts DEF IInv, TypeOK, BarrierInv, WithdrawInv, Grows, Tasks, Running
<1>7. EndInv'
  BY <1>0 DEF IInv, TypeOK, EndInv, FailureSurfaces, WaitInv, WithdrawInv, BarrierInv
<1> QED  BY <1>1, <1>2, <1>3, <1>4, <1>5, <1>6, <1>7 DEF IInv

-----------------------------------------------------------------------------
(* The mesh, and the whole.                                                *)

LEMMA ArrivesKeeps ==
  ASSUME IInv, NEW i \in Items, Arrives(i)
  PROVE  IInv'
<1> USE DEF Arrives, serveVars, taskVars, stopVars
<1>0. ready \in Seq(Steps) /\ IsInjective(ready) /\ Grows(ready, ready, {})
  BY DEF IInv, TypeOK, QueueInv, Grows
<1>1. TypeOK'
  <2>1. ready' \in Seq(Steps)
    BY <1>0 DEF IInv, TypeOK, Grows
  <2> QED  BY <2>1 DEF IInv, TypeOK, TriesInv, Running, ServeEnded
<1>2. QueueInv'
  BY <1>0, StepFacts DEF IInv, TypeOK, QueueInv, WaitInv, Grows, Tasks, Running
<1>3. WaitInv'
  BY <1>0 DEF IInv, TypeOK, WaitInv
<1>4. TriesInv'
  BY DEF IInv, TypeOK, TriesInv, QueueInv, WaitInv, Tasks, Running
<1>5. WithdrawInv'
  BY DEF IInv, TypeOK, WithdrawInv
<1>6. BarrierInv'
  BY <1>0, StepFacts DEF IInv, TypeOK, BarrierInv, WithdrawInv, Grows, Tasks, Running
<1>7. EndInv'
  BY <1>0 DEF IInv, TypeOK, EndInv, FailureSurfaces, WaitInv, WithdrawInv, BarrierInv
<1> QED  BY <1>1, <1>2, <1>3, <1>4, <1>5, <1>6, <1>7 DEF IInv

LEMMA ExpiresKeeps ==
  ASSUME IInv, NEW i \in Items, Expires(i)
  PROVE  IInv'
<1> USE DEF Expires, serveVars, taskVars, stopVars
<1>0. ready \in Seq(Steps) /\ IsInjective(ready) /\ Grows(ready, ready, {})
  BY DEF IInv, TypeOK, QueueInv, Grows
<1>1. TypeOK'
  <2>1. ready' \in Seq(Steps)
    BY <1>0 DEF IInv, TypeOK, Grows
  <2> QED  BY <2>1 DEF IInv, TypeOK, TriesInv, Running, ServeEnded
<1>2. QueueInv'
  BY <1>0, StepFacts DEF IInv, TypeOK, QueueInv, WaitInv, Grows, Tasks, Running
<1>3. WaitInv'
  BY <1>0 DEF IInv, TypeOK, WaitInv
<1>4. TriesInv'
  BY DEF IInv, TypeOK, TriesInv, QueueInv, WaitInv, Tasks, Running
<1>5. WithdrawInv'
  BY DEF IInv, TypeOK, WithdrawInv
<1>6. BarrierInv'
  BY <1>0, StepFacts DEF IInv, TypeOK, BarrierInv, WithdrawInv, Grows, Tasks, Running
<1>7. EndInv'
  BY <1>0 DEF IInv, TypeOK, EndInv, FailureSurfaces, WaitInv, WithdrawInv, BarrierInv
<1> QED  BY <1>1, <1>2, <1>3, <1>4, <1>5, <1>6, <1>7 DEF IInv

LEMMA PoolClosesKeeps ==
  ASSUME IInv, PoolCloses
  PROVE  IInv'
<1> USE DEF PoolCloses, Withdrawn, serveVars, taskVars, stopVars
<1>0. ready \in Seq(Steps) /\ IsInjective(ready) /\ Grows(ready, ready, {})
  BY DEF IInv, TypeOK, QueueInv, Grows
<1>1. TypeOK'
  <2>1. ready' \in Seq(Steps)
    BY <1>0 DEF IInv, TypeOK, Grows
  <2> QED  BY <2>1 DEF IInv, TypeOK, TriesInv, Running, ServeEnded
<1>2. QueueInv'
  BY <1>0, StepFacts DEF IInv, TypeOK, QueueInv, WaitInv, Grows, Tasks, Running
<1>3. WaitInv'
  BY <1>0 DEF IInv, TypeOK, WaitInv
<1>4. TriesInv'
  BY DEF IInv, TypeOK, TriesInv, QueueInv, WaitInv, Tasks, Running
<1>5. WithdrawInv'
  BY DEF IInv, TypeOK, WithdrawInv
<1>6. BarrierInv'
  BY <1>0, StepFacts DEF IInv, TypeOK, BarrierInv, WithdrawInv, Grows, Tasks, Running
<1>7. EndInv'
  BY <1>0 DEF IInv, TypeOK, EndInv, FailureSurfaces, WaitInv, WithdrawInv, BarrierInv
<1> QED  BY <1>1, <1>2, <1>3, <1>4, <1>5, <1>6, <1>7 DEF IInv

LEMMA InitHolds == Init => IInv
<1> SUFFICES ASSUME Init PROVE IInv
  OBVIOUS
<1> USE DEF Init
<1>1. <<Loop>> \in Seq(Steps) /\ ToSet(<<Loop>>) = {Loop} /\ IsInjective(<<Loop>>)
  BY StepFacts DEF ToSet, IsInjective
<1>2. TypeOK
  <2>1. ready \in Seq(Steps) /\ 0 \in 0..1
    BY <1>1
  <2>2. at \in [Items -> {"away", "got", "unread", "released", "unstarted", "ended"} \cup Running]
    OBVIOUS
  <2>3. tries \in [Items -> 0..1]
    BY <2>1
  <2> QED  BY <2>1, <2>2, <2>3 DEF TypeOK
<1>3. QueueInv
  BY <1>1, StepFacts DEF QueueInv
<1>4. WaitInv /\ TriesInv /\ WithdrawInv /\ EndInv
  BY DEF WaitInv, TriesInv, WithdrawInv, EndInv, FailureSurfaces
<1>5. BarrierInv
  BY DEF BarrierInv
<1> QED  BY <1>2, <1>3, <1>4, <1>5 DEF IInv

LEMMA StutterKeeps ==
  ASSUME IInv, UNCHANGED vars
  PROVE  IInv'
BY DEF vars, serveVars, taskVars, stopVars, IInv, TypeOK, QueueInv, WaitInv, TriesInv,
   WithdrawInv, BarrierInv, EndInv, FailureSurfaces, Tasks, Ahead

\* Every step, and every stutter, keeps the invariant.
LEMMA StepKeeps == IInv /\ [Next]_vars => IInv'
<1> SUFFICES ASSUME IInv, [Next]_vars PROVE IInv'
  OBVIOUS
<1>1. ASSUME NEW i \in Items, TaskStep(i) PROVE IInv'
  BY <1>1, HandlerWaitsKeeps, HandlerEndsKeeps, HandlerCancelledKeeps, SessionFreesKeeps,
     TaskDoneKeeps DEF TaskStep
<1>2. ASSUME NEW s \in Stoppers, StopStep(s) PROVE IInv'
  BY <1>2, StopJoinsKeeps, StopGathersKeeps, StopEndsKeeps, StopAbandonedKeeps DEF StopStep
<1>3. CASE LoopStep
  BY <1>1, <1>2, <1>3, ServeStartsKeeps, ServeTakesKeeps, ServeCannotReadKeeps, ServeStopsKeeps,
     ServeCancelledKeeps
  DEF LoopStep
<1>4. ASSUME NEW i \in Items, \/ NativeGives(i) \/ WaitLands(i) \/ TaskWakes(i)
                              \/ Settles(i) \/ Arrives(i) \/ Expires(i)
      PROVE  IInv'
  BY <1>4, NativeGivesKeeps, WaitLandsKeeps, TaskWakesKeeps, SettlesKeeps, ArrivesKeeps,
     ExpiresKeeps
<1>5. ASSUME NEW s \in Stoppers, StopBegins(s) \/ StopAgain(s) \/ WithdrawEnds(s) \/ StopCancelled(s)
      PROVE  IInv'
  BY <1>5, StopBeginsKeeps, StopAgainKeeps, WithdrawEndsKeeps, StopCancelledKeeps
<1> QED
  BY <1>3, <1>4, <1>5, WaitEndsKeeps, PoolClosesKeeps, StutterKeeps DEF Next

THEOREM Inductive == Spec => []IInv
BY InitHolds, StepKeeps, PTL DEF Spec

-----------------------------------------------------------------------------
(* What a served procedure promises its callers.                           *)

\* The state stays what its declarations say: no item is ever set out to be
\* settled twice, and the queue holds the steps of tasks and nothing else.
THEOREM TypeCorrect == Spec => []TypeOK
<1>1. IInv => TypeOK
  BY DEF IInv
<1> QED  BY <1>1, Inductive, PTL

\* Python sets out exactly once to settle every item it took and could read, by
\* the time its task or its discard is over, whoever is cancelled and whenever; what
\* it set out to do is under way, has settled the item, or, for a call, has failed.
THEOREM EveryItemIsSettledOnceOrFailed == Spec => []SettledOnceOrFailed
<1>1. IInv => SettledOnceOrFailed
  BY DEF IInv, TypeOK, TriesInv, WaitInv, SettledOnceOrFailed
<1> QED  BY <1>1, Inductive, PTL

\* When the stop() that withdrew the procedure is over, the serve loop has ended
\* and no handler runs.
THEOREM StopIsABarrier == Spec => []StopLeavesNothingRunning
<1>1. IInv => StopLeavesNothingRunning
  BY DEF IInv, BarrierInv, StopLeavesNothingRunning
<1> QED  BY <1>1, Inductive, PTL

\* The stop() that ended a procedure never hides what stopped it early.
THEOREM FailuresSurface == Spec => []FailureSurfaces
<1>1. IInv => FailureSurfaces
  BY DEF IInv, EndInv
<1> QED  BY <1>1, Inductive, PTL

-----------------------------------------------------------------------------
(* The code keeps the promise of AbstractServed.                           *)

LEMMA PromiseInit == Init => Promise!Init
<1> SUFFICES ASSUME Init PROVE Promise!Init
  OBVIOUS
<1>1. Phase = "serving"
  BY DEF Init, Phase
<1>2. Work = [i \in Items |-> "waiting"]
  <2>1. \A i \in Items : at[i] = "away"
    BY DEF Init
  <2> QED  BY <2>1 DEF Work, Running
<1>3. Answered = [i \in Items |-> FALSE]
  <2>1. \A i \in Items : (tries[i] > 0) = FALSE
    BY DEF Init
  <2> QED  BY <2>1 DEF Answered
<1> QED  BY <1>1, <1>2, <1>3 DEF Promise!Init

\* A stop() that is over was over a barrier.
LEMMA PhaseFacts ==
  ASSUME IInv
  PROVE  Phase \in {"serving", "stopped"} /\ (Phase = "stopped" => serve = "ended" /\ Tasks = {})
BY DEF Phase, IInv, BarrierInv

LEMMA PhaseStays ==
  ASSUME \A s \in Stoppers : withdraw'[s] = "done" /\ stop'[s] \in {"returned", "raised"} <=>
                             withdraw[s] = "done" /\ stop[s] \in {"returned", "raised"}
  PROVE  Phase' = Phase
BY DEF Phase

\* What becomes of the mapped state when an item's place changes.
LEMMA WorkMoves ==
  ASSUME TypeOK, NEW i \in Items, NEW place, at' = [at EXCEPT ![i] = place]
  PROVE  /\ place \in Running => Work' = [Work EXCEPT ![i] = "running"]
         /\ place \in {"released", "ended"} => Work' = [Work EXCEPT ![i] = "over"]
         /\ place \in {"got", "unread"} => Work' = [Work EXCEPT ![i] = "waiting"]
<1>1. \A j \in Items : at'[j] = IF j = i THEN place ELSE at[j]
  BY DEF TypeOK
<1>2. Work = [j \in Items |-> Work[j]] /\ Work' = [j \in Items |-> Work'[j]]
  BY DEF Work
<1>3. \A j \in Items : j # i => Work'[j] = Work[j]
  BY <1>1 DEF Work
<1>4. /\ place \in Running => Work'[i] = "running"
      /\ place \in {"released", "ended"} => Work'[i] = "over"
      /\ place \in {"got", "unread"} => Work'[i] = "waiting"
  BY <1>1 DEF Work, Running
<1> QED  BY <1>2, <1>3, <1>4

LEMMA AnsweredMoves ==
  ASSUME TypeOK, NEW i \in Items, tries' = [tries EXCEPT ![i] = 1]
  PROVE  Answered' = [Answered EXCEPT ![i] = TRUE]
<1>1. \A j \in Items : tries'[j] = IF j = i THEN 1 ELSE tries[j]
  BY DEF TypeOK
<1>2. \A j \in Items : (tries'[j] > 0) = IF j = i THEN TRUE ELSE tries[j] > 0
  <2>1. \A j \in Items : j = i => (tries'[j] > 0) = TRUE
    BY <1>1
  <2>2. \A j \in Items : j # i => (tries'[j] > 0) = (tries[j] > 0)
    BY <1>1
  <2> QED  BY <2>1, <2>2
<1> QED  BY <1>2 DEF Answered

\* The serve loop that still runs has not been stopped: a handler may start.
LEMMA ServeTakesStarts ==
  ASSUME IInv, NEW i \in Items, ServeTakes(i) PROVE Promise!Start(i)
<1>1. Phase = "serving" /\ Phase' = Phase
  BY PhaseFacts, PhaseStays DEF ServeTakes, StartsTask, stopVars
<1>2. Work[i] = "waiting" /\ Work' = [Work EXCEPT ![i] = "running"]
  BY WorkMoves DEF ServeTakes, StartsTask, Work, IInv, Running
<1>3. Answered' = Answered
  BY DEF ServeTakes, StartsTask, Answered
<1> QED  BY <1>1, <1>2, <1>3 DEF Promise!Start, Promise!Works

LEMMA ReleasesRelease ==
  ASSUME IInv, NEW i \in Items, at[i] = "got", Releases(i), UNCHANGED stopVars
  PROVE  Promise!Release(i)
<1>1. Phase' = Phase
  BY PhaseStays DEF stopVars
<1>2. Work[i] = "waiting" /\ Work' = [Work EXCEPT ![i] = "over"]
  BY WorkMoves DEF Releases, Work, IInv, Running
<1>3. tries' = [tries EXCEPT ![i] = 1]
  <2>1. tries[i] = 0 /\ 0 + 1 = 1
    BY DEF IInv, TriesInv
  <2> QED  BY <2>1 DEF Releases
<1>4. Answered' = [Answered EXCEPT ![i] = TRUE]
  BY <1>3, AnsweredMoves DEF IInv
<1> QED  BY <1>1, <1>2, <1>4 DEF Promise!Release, Promise!Works

\* A task that sets out to answer, or to free, has not done so before.
LEMMA SetsOutAnswers ==
  ASSUME IInv, NEW i \in Items, at[i] \in {"new", "handling", "closing"},
         NEW where \in Running, TaskGoesOn(i, where), SetsOut(i), UNCHANGED stopVars
  PROVE  Promise!Answer(i)
<1>1. Phase' = Phase
  BY PhaseStays DEF stopVars
<1>2. tries[i] = 0 /\ tries' = [tries EXCEPT ![i] = 1]
  <2>1. tries[i] = 0 /\ 0 + 1 = 1
    BY DEF IInv, TriesInv
  <2> QED  BY <2>1 DEF SetsOut
<1>3. ~Answered[i] /\ Answered' = [Answered EXCEPT ![i] = TRUE]
  <2>1. ~(tries[i] > 0)
    BY <1>2
  <2> QED  BY <1>2, <2>1, AnsweredMoves DEF Answered, IInv
<1>4. Work[i] = "running" /\ Work' = [Work EXCEPT ![i] = "running"]
  BY WorkMoves DEF TaskGoesOn, Work, IInv, Running
<1>5. Work' = Work
  BY <1>4 DEF Work
<1> QED  BY <1>1, <1>3, <1>4, <1>5 DEF Promise!Answer

LEMMA TaskEndsEnds ==
  ASSUME IInv, NEW i \in Items, at[i] \in Running, TaskEnds(i, "ended"),
         tries' = [tries EXCEPT ![i] = 1], UNCHANGED stopVars
  PROVE  Promise!End(i)
<1>1. Phase' = Phase
  BY PhaseStays DEF stopVars
<1>2. Work[i] = "running" /\ Work' = [Work EXCEPT ![i] = "over"]
  BY WorkMoves DEF TaskEnds, Work, IInv, Running
<1>3. Answered' = [Answered EXCEPT ![i] = TRUE]
  BY AnsweredMoves DEF IInv
<1> QED  BY <1>1, <1>2, <1>3 DEF Promise!End, Promise!Works

\* What the tasks' steps are to the promise.
LEMMA TaskStepRefines ==
  ASSUME IInv, NEW i \in Items, TaskStep(i)
  PROVE  [Promise!Next]_<<Phase, Work, Answered>>
<1>1. Phase' = Phase
  BY PhaseStays DEF TaskStep, HandlerWaits, HandlerEnds, HandlerCancelled, SessionFrees,
     TaskDone, stopVars
<1>2. ASSUME NEW where \in Running, at[i] \in Running, TaskGoesOn(i, where), UNCHANGED tries
      PROVE  UNCHANGED <<Phase, Work, Answered>>
  <2>1. Work[i] = "running" /\ Work' = [Work EXCEPT ![i] = "running"]
    BY <1>2, WorkMoves DEF TaskGoesOn, Work, IInv, Running
  <2>2. Work' = Work
    BY <2>1 DEF Work
  <2> QED  BY <1>1, <1>2, <2>2 DEF Answered
<1>3. InHandler(i) => at[i] \in {"new", "handling"} /\ at[i] \in Running
  BY DEF InHandler, Running
<1>4. "handling" \in Running /\ "closing" \in Running /\ "answering" \in Running /\ "freeing" \in Running
  BY DEF Running
<1>5. CASE HandlerWaits(i)
  BY <1>2, <1>3, <1>4, <1>5 DEF HandlerWaits
<1>6. CASE HandlerEnds(i)
  <2>1. CASE TaskGoesOn(i, "closing") /\ UNCHANGED <<settling, tries, failed, item>>
    BY <1>2, <1>3, <1>4, <1>6, <2>1 DEF HandlerEnds
  <2>2. ASSUME NEW w \in {"answering", "freeing"}, TaskGoesOn(i, w), SetsOut(i)
        PROVE  [Promise!Next]_<<Phase, Work, Answered>>
    BY <1>3, <1>4, <1>6, <2>2, SetsOutAnswers DEF HandlerEnds, Promise!Next
  <2>3. CASE TaskEnds(i, "ended") /\ tries' = [tries EXCEPT ![i] = tries[i] + 1]
    <3>1. tries[i] = 0 /\ 0 + 1 = 1
      BY <1>3, <1>6 DEF HandlerEnds, IInv, TriesInv
    <3>2. tries' = [tries EXCEPT ![i] = 1]
      BY <2>3, <3>1
    <3> QED  BY <1>3, <1>6, <2>3, <3>2, TaskEndsEnds DEF HandlerEnds, Promise!Next
  <2> QED  BY <1>6, <2>1, <2>2, <2>3 DEF HandlerEnds
<1>7. CASE HandlerCancelled(i)
  <2>1. CASE TaskGoesOn(i, "freeing") /\ SetsOut(i)
    BY <1>3, <1>4, <1>7, <2>1, SetsOutAnswers DEF HandlerCancelled, Promise!Next
  <2>2. CASE TaskEnds(i, "ended") /\ AnswersNow(i)
    <3>1. tries[i] = 0 /\ 0 + 1 = 1
      BY <1>3, <1>7 DEF HandlerCancelled, IInv, TriesInv
    <3>2. tries' = [tries EXCEPT ![i] = 1]
      BY <2>2, <3>1 DEF AnswersNow
    <3> QED  BY <1>3, <1>7, <2>2, <3>2, TaskEndsEnds DEF HandlerCancelled, Promise!Next
  <2> QED  BY <1>7, <2>1, <2>2 DEF HandlerCancelled
<1>8. CASE SessionFrees(i)
  BY <1>4, <1>8, SetsOutAnswers DEF SessionFrees, Promise!Next
<1>9. CASE TaskDone(i)
  <2>1. ~NeverStarted(i) /\ tries[i] = 1 /\ at[i] \in Running
    BY <1>9 DEF TaskDone, NeverStarted, IInv, QueueInv, TriesInv, Running
  <2>2. tries' = [tries EXCEPT ![i] = 1]
    BY <1>9, <2>1 DEF TaskDone, IInv, TypeOK
  <2> QED  BY <1>9, <2>1, <2>2, TaskEndsEnds DEF TaskDone, Promise!Next
<1> QED  BY <1>5, <1>6, <1>7, <1>8, <1>9 DEF TaskStep

\* Only the end of a stop() that withdrew the procedure moves the phase.
LEMMA StopStepRefines ==
  ASSUME IInv, NEW s \in Stoppers,
         \/ StopStep(s) \/ StopBegins(s) \/ StopAgain(s) \/ WithdrawEnds(s) \/ StopCancelled(s)
  PROVE  [Promise!Next]_<<Phase, Work, Answered>>
<1>1. Work' = Work /\ Answered' = Answered
  BY DEF StopStep, StopJoins, StopGathers, StopEnds, StopAbandoned, StopBegins, StopAgain,
     WithdrawEnds, StopCancelled, taskVars, Work, Answered
<1>2. CASE StopEnds(s)
  <2>1. CASE withdraw[s] = "done"
    <3>1. Tasks = {}
      BY <1>2, <2>1, RunsFacts DEF StopEnds, IInv, BarrierInv
    <3>2. \A i \in Items : Work[i] # "running"
      BY <3>1 DEF Work, Tasks
    <3>3. withdraw'[s] = "done" /\ stop'[s] \in {"returned", "raised"}
      BY <1>2, <2>1 DEF StopEnds, Moves, Verdict, IInv, TypeOK
    <3>4. Phase' = "stopped"
      BY <3>3 DEF Phase
    <3> QED  BY <1>1, <3>2, <3>4 DEF Promise!Next, Promise!Stop
  <2>2. CASE withdraw[s] # "done"
    <3>1. Phase' = Phase
      BY <1>2, <2>2, PhaseStays DEF StopEnds, Moves, IInv, TypeOK
    <3> QED  BY <1>1, <3>1
  <2> QED  BY <2>1, <2>2
<1>3. CASE ~StopEnds(s)
  <2>1. Phase' = Phase
    BY <1>3, PhaseStays DEF StopStep, StopJoins, StopGathers, StopAbandoned, Moves, StopBegins,
       StopAgain, WithdrawEnds, StopCancelled, IInv, TypeOK, WithdrawInv, BarrierInv, stopVars
  <2> QED  BY <1>1, <2>1
<1> QED  BY <1>2, <1>3

\* Every step of the code is a step of the promise, or one it does not see.
LEMMA StepRefines == IInv /\ [Next]_vars => [Promise!Next]_<<Phase, Work, Answered>>
<1> SUFFICES ASSUME IInv, [Next]_vars PROVE [Promise!Next]_<<Phase, Work, Answered>>
  OBVIOUS
<1>1. CASE UNCHANGED <<taskVars, stopVars>>
  BY <1>1 DEF taskVars, stopVars, Phase, Work, Answered
<1>2. CASE ServeCancelled
  <2>1. CASE wait = "landed"
    BY <1>2, <2>1, ReleasesRelease DEF ServeCancelled, Promise!Next
  <2>2. CASE wait # "landed"
    BY <1>1, <1>2, <2>2 DEF ServeCancelled
  <2> QED  BY <2>1, <2>2
<1>3. ASSUME NEW i \in Items, ServeTakes(i) PROVE [Promise!Next]_<<Phase, Work, Answered>>
  BY <1>3, ServeTakesStarts DEF Promise!Next
<1>4. ASSUME NEW i \in Items, NativeGives(i) PROVE UNCHANGED <<Phase, Work, Answered>>
  <2>1. Work[i] = "waiting" /\ Work' = [Work EXCEPT ![i] = "waiting"]
    BY <1>4, WorkMoves DEF NativeGives, IInv, WaitInv, Work, Running
  <2>2. Work' = Work
    BY <2>1 DEF Work
  <2> QED  BY <1>4, <2>2 DEF NativeGives, Phase, Answered, stopVars
<1>5. ASSUME NEW i \in Items, WaitLands(i) PROVE [Promise!Next]_<<Phase, Work, Answered>>
  <2>1. CASE UNCHANGED taskVars
    BY <1>1, <1>5, <2>1 DEF WaitLands
  <2>2. CASE Releases(i)
    BY <1>5, <2>2, ReleasesRelease DEF WaitLands, Promise!Next
  <2> QED  BY <1>5, <2>1, <2>2 DEF WaitLands
<1>6. ASSUME NEW i \in Items, Settles(i) PROVE UNCHANGED <<Phase, Work, Answered>>
  BY <1>6 DEF Settles, stopVars, Phase, Work, Answered
<1>7. ASSUME NEW i \in Items, TaskWakes(i) \/ Arrives(i) \/ Expires(i)
      PROVE  [Promise!Next]_<<Phase, Work, Answered>>
  BY <1>1, <1>7 DEF TaskWakes, Arrives, Expires
<1>8. CASE ServeStarts \/ ServeStops \/ WaitEnds \/ PoolCloses \/ UNCHANGED vars
  BY <1>1, <1>8 DEF ServeStarts, ServeStops, WaitEnds, PoolCloses, vars
<1>9. ASSUME NEW i \in Items, ServeCannotRead(i) PROVE UNCHANGED <<Phase, Work, Answered>>
  <2>1. Work[i] = "waiting" /\ Work' = [Work EXCEPT ![i] = "waiting"]
    BY <1>9, WorkMoves DEF ServeCannotRead, IInv, Work, Running
  <2>2. Work' = Work
    BY <2>1 DEF Work
  <2> QED  BY <1>9, <2>2 DEF ServeCannotRead, Phase, Answered, stopVars
<1> QED
  BY <1>2, <1>3, <1>4, <1>5, <1>6, <1>7, <1>8, <1>9, TaskStepRefines, StopStepRefines
  DEF Next, LoopStep

\* However its tasks are cancelled and whoever stops it, a served procedure
\* behaves as AbstractServed promises.
THEOREM Implements == Spec => Promise!Spec
BY PromiseInit, StepRefines, Inductive, PTL DEF Spec, Promise!Spec, Promise!vars
=============================================================================
