---------------------------- MODULE StreamsProofs ----------------------------
(***************************************************************************)
(* Theorems about Streams, for any tasks, readers and bounds.              *)
(*                                                                         *)
(* The invariant has a part for each thing the tasks share: the native     *)
(* stream, which free() hands from the handle to one thread; the writes,   *)
(* each of which is in one state as its task, its thread and the stream    *)
(* see it; and the frames, which move from the stream to a task's hands    *)
(* and on to what it heard.                                                *)
(***************************************************************************)
EXTENDS Streams, QueueFacts

Writes == [by : Tasks, fate : {"awaited", "returned", "raised", "cancelled"}]
Results == {"none", "running", "done"} \cup DOMAIN Bases

\* The handle, and then one call of free(), stands for the native stream.
FreeInv ==
  /\ frees <= 1 /\ (native = "freed" <=> frees = 1)
  /\ handle => native # "freed" /\ \A t \in Tasks : free[t] # "taken"
  /\ \A t \in Tasks : free[t] = "taken" => frees = 0
  /\ \A t, u \in Tasks : free[t] = "taken" /\ free[u] = "taken" => t = u
  /\ \A t \in Tasks : at[t] \in {"body", "writing", "closing", "aborting", "reading"} =>
       free[t] = "none"

\* A write whose thread runs is awaited or given up, and not written yet; one
\* that is awaited is the last its task began, and what its task was told of
\* it is so.
WritesAgree(ws, run, res, wr) ==
  /\ IsInjective(wr)
  /\ \A v, w \in run : v.n = w.n => v = w
  /\ \A w \in run : w.n \notin ToSet(wr) /\ ws[w.n].fate \in {"awaited", "cancelled"}
  /\ \A n \in DOMAIN ws : /\ ws[n].fate = "returned" => n \in ToSet(wr)
                          /\ ws[n].fate = "raised" => n \notin ToSet(wr)
  /\ \A n \in DOMAIN ws : ws[n].fate = "awaited" =>
       /\ res[ws[n].by] # "none"
       /\ res[ws[n].by] # "running" => \A w \in run : w.n # n
       /\ res[ws[n].by] = "done" => n \in ToSet(wr)
       /\ res[ws[n].by] \notin {"running", "done"} => n \notin ToSet(wr)
  /\ \A m, n \in DOMAIN ws : n < m /\ ws[n].fate = "awaited" => ws[m].by # ws[n].by
  /\ \A p, q \in DOMAIN wr : p < q /\ wr[p] > wr[q] =>
       ws[wr[q]].fate = "cancelled" \/ ws[wr[p]].by # ws[wr[q]].by

WriteInv == WritesAgree(writes, running, result, written)

\* Frames by their number: all in a queue, those still to come, and those t took.
Numbers(q) == [i \in DOMAIN q |-> q[i].n]
Coming == ToSet(Numbers(incoming))
Mine(t) == ToSet(heard[t]) \cup (IF hand[t] = NoFrame THEN {} ELSE {hand[t].n})

FrameInv ==
  /\ Increasing(Numbers(incoming))
  /\ \A t \in Tasks : Increasing(heard[t])
  /\ \A t \in Tasks : hand[t] # NoFrame => \A e \in ToSet(heard[t]) : e < hand[t].n
  /\ \A t, u \in Tasks : t # u => Mine(t) \cap Mine(u) = {}
  /\ \A t \in Tasks : \A e \in Mine(t), f \in Coming : e < f
  /\ sent - Cardinality(Accounted) + strays <= cancels

IInv == TypeOK /\ FreeInv /\ WriteInv /\ FrameInv

-----------------------------------------------------------------------------
(* What the steps do to the native stream.                                 *)

LEMMA ErrorFacts ==
  /\ {"InvalidHandleError", "ClosedError", "MaculaError"} \subseteq DOMAIN Bases
  /\ DOMAIN Bases \cap {"none", "running", "done"} = {}
BY DEF Bases

LEMMA FreeTypes ==
  ASSUME TypeOK
  PROVE  /\ handle \in BOOLEAN /\ frees \in Nat
         /\ free \in [Tasks -> {"none", "asked", "taken", "over"}]
         /\ at \in [Tasks -> {"body", "writing", "closing", "aborting", "reading", "inFree",
                              "leaving", "over"}]
BY DEF TypeOK

LEMMA FreeTakesFree ==
  ASSUME TypeOK, FreeInv, NEW t \in Tasks, FreeTakes(t)
  PROVE  FreeInv'
<1>1. free[t] = "asked" /\ UNCHANGED <<native, frees, at>>
  BY DEF FreeTakes, nativeVars
<1>2. CASE handle
  <2>1. handle' = FALSE /\ free' = [free EXCEPT ![t] = "taken"]
    BY <1>2 DEF FreeTakes, GivesUp
  <2> QED  BY <1>1, <1>2, <2>1, FreeTypes DEF FreeInv
<1>3. CASE ~handle
  <2>1. ~handle' /\ free' = [free EXCEPT ![t] = "over"]
    BY <1>3 DEF FreeTakes
  <2> QED  BY <1>1, <1>3, <2>1, FreeTypes DEF FreeInv
<1> QED  BY <1>2, <1>3

LEMMA FreeCallsFree ==
  ASSUME TypeOK, FreeInv, NEW t \in Tasks, FreeCalls(t)
  PROVE  FreeInv'
BY FreeTypes DEF FreeCalls, FreeInv

LEMMA FreeReturnsFree ==
  ASSUME TypeOK, FreeInv, NEW t \in Tasks, FreeReturns(t)
  PROVE  FreeInv'
BY FreeTypes DEF FreeReturns, Goes, nativeVars, FreeInv

LEMMA FreeNowFree ==
  ASSUME TypeOK, FreeInv, NEW t \in Tasks, FreeNow(t)
  PROVE  FreeInv'
BY FreeTypes DEF FreeNow, Goes, nativeVars, FreeInv

\* A step in which no call of free() goes on and no task moves.
LEMMA KeepsFree ==
  ASSUME FreeInv, UNCHANGED <<handle, frees, at, free>>, native' = "freed" <=> native = "freed"
  PROVE  FreeInv'
BY DEF FreeInv

\* A step that moves a task about, or starts its call of free().
LEMMA MovesFree ==
  ASSUME TypeOK, FreeInv, NEW t \in Tasks, UNCHANGED <<handle, native, frees>>,
         at[t] \in {"body", "writing", "closing", "aborting", "reading"} \/ at'[t] = "over",
         \/ Leaves(t)
         \/ UNCHANGED free /\ \E where \in {"body", "writing", "closing", "aborting", "reading",
                                            "over"} : Goes(t, where)
  PROVE  FreeInv'
<1>1. CASE Leaves(t)
  <2>1. at[t] \in {"body", "writing", "closing", "aborting", "reading"}
    BY <1>1, FreeTypes DEF Leaves, Goes
  <2> QED  BY <1>1, <2>1, FreeTypes DEF Leaves, Goes, FreeInv
<1>2. ASSUME UNCHANGED free,
             NEW where \in {"body", "writing", "closing", "aborting", "reading", "over"},
             Goes(t, where)
      PROVE  FreeInv'
  BY <1>2, FreeTypes DEF Goes, FreeInv
<1> QED  BY <1>1, <1>2

LEMMA NextFree ==
  ASSUME TypeOK, FreeInv, [Next]_vars
  PROVE  FreeInv'
<1>1. ASSUME NEW kind \in FrameKinds, PeerSends(kind) PROVE FreeInv'
  BY <1>1, KeepsFree DEF PeerSends
<1>2. CASE Breaks
  BY <1>2, KeepsFree DEF Breaks
<1>3. CASE StrayEnds
  BY <1>3, KeepsFree DEF StrayEnds, nativeVars
<1>4. ASSUME NEW w \in running, WriteRuns(w) PROVE FreeInv'
  <2>1. native' = "freed" <=> native = "freed"
    BY <1>4 DEF WriteRuns, WriteOutcomes
  <2> QED  BY <1>4, <2>1, KeepsFree DEF WriteRuns
<1>5. ASSUME NEW t \in Tasks, NEW kind \in WriteKinds, Write(t, kind) PROVE FreeInv'
  BY <1>5, MovesFree DEF Write, nativeVars
<1>6. ASSUME NEW t \in Tasks, BodyEnds(t) PROVE FreeInv'
  BY <1>6, MovesFree DEF BodyEnds, EndsWith, nativeVars
<1>7. ASSUME NEW t \in Tasks, FreeNow(t) \/ FreeTakes(t) \/ FreeCalls(t) \/ FreeReturns(t)
      PROVE  FreeInv'
  BY <1>7, FreeNowFree, FreeTakesFree, FreeCallsFree, FreeReturnsFree
<1>8. ASSUME NEW t \in Tasks, ReadBegins(t) PROVE FreeInv'
  BY <1>8, MovesFree DEF ReadBegins, Leads, nativeVars
<1>9. ASSUME NEW t \in Tasks, RecvTakes(t) \/ RecvEnds(t) PROVE FreeInv'
  BY <1>9, KeepsFree DEF RecvTakes, RecvEnds, nativeVars
<1>10. ASSUME NEW t \in Tasks, WriteReturns(t) PROVE FreeInv'
  BY <1>10, MovesFree DEF WriteReturns, nativeVars
<1>11. ASSUME NEW t \in Tasks, SessionGoesOn(t) PROVE FreeInv'
  BY <1>11, MovesFree DEF SessionGoesOn, EndsWith, nativeVars
<1>12. ASSUME NEW t \in Tasks, RecvReturns(t) PROVE FreeInv'
  <2>1. at[t] = "reading"
    BY <1>12 DEF RecvReturns, TypeOK
  <2> QED  BY <1>12, <2>1, MovesFree DEF RecvReturns, Leads, nativeVars
<1>13. ASSUME NEW t \in Tasks, CancelWrite(t) \/ CancelRead(t) PROVE FreeInv'
  BY <1>13, MovesFree DEF CancelWrite, CancelRead, CancelledTo, nativeVars
<1>14. ASSUME NEW t \in Tasks, CancelFree(t) PROVE FreeInv'
  <2>1. at'[t] = "over"
    BY <1>14, FreeTypes DEF CancelFree, Goes
  <2> QED  BY <1>14, <2>1, MovesFree DEF CancelFree, FreeGoesOn, nativeVars
<1>15. CASE UNCHANGED vars
  BY <1>15, KeepsFree DEF vars, nativeVars
<1> QED
  BY <1>1, <1>2, <1>3, <1>4, <1>5, <1>6, <1>7, <1>8, <1>9, <1>10, <1>11, <1>12, <1>13, <1>14,
     <1>15 DEF Next, LoopStep

-----------------------------------------------------------------------------
(* What they do to the writes.                                             *)

WriteTypes(ws, run, res, wr) ==
  /\ ws \in Seq(Writes) /\ run \subseteq [n : DOMAIN ws, kind : WriteKinds]
  /\ res \in [Tasks -> Results] /\ wr \in Seq(DOMAIN ws)

WritesFine(ws, run, res, wr) == WriteTypes(ws, run, res, wr) /\ WritesAgree(ws, run, res, wr)

\* The await of t is over: what became of its write is known to it, or it gave
\* the write up.
LEMMA FatedFine ==
  ASSUME WritesFine(writes, running, result, written), NEW t \in Tasks, NEW fate,
         fate = "cancelled" \/ (Over(t) /\ fate = WriteFate(t))
  PROVE  WritesFine(Fated(t, fate), running, [result EXCEPT ![t] = "none"], written)
<1> DEFINE ws == Fated(t, fate)
           res == [result EXCEPT ![t] = "none"]
<1> USE DEF WritesFine
<1>1. /\ writes \in Seq(Writes) /\ Len(writes) \in Nat /\ DOMAIN writes = 1..Len(writes)
      /\ running \subseteq [n : DOMAIN writes, kind : WriteKinds]
      /\ result \in [Tasks -> Results] /\ written \in Seq(DOMAIN writes)
      /\ \A n \in DOMAIN writes : writes[n] \in Writes
  BY LenProperties, ElementOfSeq DEF WriteTypes
<1>2. fate \in {"returned", "raised", "cancelled"}
  BY DEF WriteFate
<1>3. /\ DOMAIN ws = DOMAIN writes
      /\ \A n \in DOMAIN writes :
           /\ ws[n] \in Writes /\ ws[n].by = writes[n].by
           /\ ws[n].fate = IF writes[n].by = t /\ writes[n].fate = "awaited" THEN fate
                           ELSE writes[n].fate
  <2>1. ASSUME NEW n \in DOMAIN writes
        PROVE  /\ ws[n] \in Writes /\ ws[n].by = writes[n].by
               /\ ws[n].fate = IF writes[n].by = t /\ writes[n].fate = "awaited" THEN fate
                               ELSE writes[n].fate
    BY <1>1, <1>2 DEF Fated, Writes
  <2>2. DOMAIN ws = DOMAIN writes
    BY DEF Fated
  <2> QED  BY <2>1, <2>2
<1>4. /\ DOMAIN res = Tasks /\ res[t] = "none"
      /\ \A u \in Tasks \ {t} : res[u] = result[u]
      /\ res \in [Tasks -> Results]
  BY <1>1 DEF Results
<1>5. \A n \in DOMAIN ws : ws[n].fate = "awaited" => writes[n].fate = "awaited" /\ ws[n].by # t
  BY <1>2, <1>3
<1>6. WriteTypes(ws, running, res, written)
  <2>1. ws \in Seq(Writes)
    <3>1. ws \in [1..Len(writes) -> Writes]
      BY <1>1, <1>3 DEF Fated
    <3> HIDE DEF ws
    <3> QED  BY <1>1, <3>1, SeqDef
  <2> QED  BY <1>1, <1>3, <1>4, <2>1 DEF WriteTypes
<1>7. WritesAgree(ws, running, res, written)
  <2> DEFINE wr == ToSet(written)
  <2>1. \A w \in running : w.n \in DOMAIN writes
    BY <1>1
  <2>2. ASSUME NEW n \in DOMAIN writes, writes[n].by = t, writes[n].fate = "awaited", Over(t)
        PROVE  /\ \A w \in running : w.n # n
               /\ WriteFate(t) = "returned" => n \in wr
               /\ WriteFate(t) = "raised" => n \notin wr
    BY <2>2 DEF WritesAgree, Over, WriteFate
  <2>3. \A w \in running : w.n \notin wr /\ ws[w.n].fate \in {"awaited", "cancelled"}
    BY <1>3, <2>1, <2>2 DEF WritesAgree
  <2>4. \A n \in DOMAIN ws : /\ ws[n].fate = "returned" => n \in wr
                             /\ ws[n].fate = "raised" => n \notin wr
    BY <1>3, <2>2 DEF WritesAgree
  <2>5. \A n \in DOMAIN ws : ws[n].fate = "awaited" =>
          /\ res[ws[n].by] # "none"
          /\ res[ws[n].by] # "running" => \A w \in running : w.n # n
          /\ res[ws[n].by] = "done" => n \in wr
          /\ res[ws[n].by] \notin {"running", "done"} => n \notin wr
    <3> SUFFICES ASSUME NEW n \in DOMAIN writes, ws[n].fate = "awaited"
                 PROVE  /\ res[ws[n].by] # "none"
                        /\ res[ws[n].by] # "running" => \A w \in running : w.n # n
                        /\ res[ws[n].by] = "done" => n \in wr
                        /\ res[ws[n].by] \notin {"running", "done"} => n \notin wr
      BY <1>3
    <3>1. writes[n].fate = "awaited" /\ res[ws[n].by] = result[writes[n].by]
      <4>1. writes[n].by \in Tasks
        BY <1>1 DEF Writes
      <4> QED  BY <1>3, <1>4, <1>5, <4>1
    <3> QED  BY <3>1 DEF WritesAgree
  <2>6. \A m, n \in DOMAIN ws : n < m /\ ws[n].fate = "awaited" => ws[m].by # ws[n].by
    BY <1>3, <1>5 DEF WritesAgree
  <2>7. \A p, q \in DOMAIN written : p < q /\ written[p] > written[q] =>
          ws[written[q]].fate = "cancelled" \/ ws[written[p]].by # ws[written[q]].by
    <3>1. \A p \in DOMAIN written : written[p] \in DOMAIN writes
      BY <1>1, ElementOfSeq, LenProperties
    <3>2. \A n \in DOMAIN writes : writes[n].fate = "cancelled" => ws[n].fate = "cancelled"
      BY <1>3
    <3> QED  BY <1>3, <3>1, <3>2 DEF WritesAgree
  <2>8. IsInjective(written) /\ \A v, w \in running : v.n = w.n => v = w
    BY DEF WritesAgree
  <2> HIDE DEF ws, res
  <2> QED  BY <2>3, <2>4, <2>5, <2>6, <2>7, <2>8 DEF WritesAgree
<1> QED  BY <1>6, <1>7

\* A task that awaits no write begins one.
LEMMA BegunFine ==
  ASSUME NEW ws, NEW run, NEW res, WritesFine(ws, run, res, written),
         NEW t \in Tasks, res[t] = "none", NEW kind \in WriteKinds
  PROVE  WritesFine(Append(ws, [by |-> t, fate |-> "awaited"]),
                    run \cup {[n |-> Len(ws) + 1, kind |-> kind]},
                    [res EXCEPT ![t] = "running"], written)
<1> DEFINE new == Len(ws) + 1
           x == [by |-> t, fate |-> "awaited"]
           ws1 == Append(ws, x)
           run1 == run \cup {[n |-> new, kind |-> kind]}
           res1 == [res EXCEPT ![t] = "running"]
<1> USE DEF WritesFine
<1>1. /\ ws \in Seq(Writes) /\ Len(ws) \in Nat /\ DOMAIN ws = 1..Len(ws)
      /\ run \subseteq [n : DOMAIN ws, kind : WriteKinds]
      /\ res \in [Tasks -> Results] /\ written \in Seq(DOMAIN ws)
      /\ \A n \in DOMAIN ws : ws[n] \in Writes
  BY LenProperties, ElementOfSeq DEF WriteTypes
<1>2. x \in Writes /\ x.by = t /\ x.fate = "awaited"
  BY DEF Writes
<1>3. /\ ws1 \in Seq(Writes) /\ DOMAIN ws1 = 1..new /\ ws1[new] = x
      /\ \A n \in DOMAIN ws : ws1[n] = ws[n]
      /\ DOMAIN ws1 = DOMAIN ws \cup {new} /\ new \notin DOMAIN ws /\ \A n \in DOMAIN ws : n < new
  <2> HIDE DEF x
  <2>1. ws1 \in Seq(Writes) /\ Len(ws1) = Len(ws) + 1 /\ DOMAIN ws1 = 1..new
    BY <1>1, <1>2, AppendProperties, LenProperties
  <2>2. ws1[new] = x /\ \A n \in 1..Len(ws) : ws1[n] = ws[n]
    BY <1>1, <1>2, AppendProperties
  <2> QED  BY <1>1, <2>1, <2>2
<1>4. /\ DOMAIN res1 = Tasks /\ res1[t] = "running" /\ res1 \in [Tasks -> Results]
      /\ \A u \in Tasks \ {t} : res1[u] = res[u]
  BY <1>1 DEF Results
<1>5. /\ written \in Seq(DOMAIN ws1) /\ ToSet(written) \subseteq DOMAIN ws
      /\ \A p \in DOMAIN written : written[p] \in DOMAIN ws
  <2>1. written \in Seq(DOMAIN ws1)
    BY <1>1, <1>3, SeqMonotonic
  <2> QED  BY <1>1, <2>1, ToSetFacts, ElementOfSeq, LenProperties
<1>6. WriteTypes(ws1, run1, res1, written)
  <2>1. run1 \subseteq [n : DOMAIN ws1, kind : WriteKinds]
    BY <1>1, <1>3
  <2> QED  BY <1>3, <1>4, <1>5, <2>1 DEF WriteTypes
<1>7. \A n \in DOMAIN ws : ws[n].fate = "awaited" => ws[n].by \in Tasks \ {t}
  BY <1>1 DEF WritesAgree, Writes
<1>8. WritesAgree(ws1, run1, res1, written)
  <2> HIDE DEF x, ws1, res1, new
  <2>1. \A w \in run : w.n \in DOMAIN ws /\ w.n # new
    BY <1>1, <1>3
  <2>2. \A w \in run1 : w \in run \/ (w.n = new /\ w = [n |-> new, kind |-> kind])
    OBVIOUS
  <2>3. \A v, w \in run1 : v.n = w.n => v = w
    BY <2>1, <2>2 DEF WritesAgree
  <2>4. \A w \in run1 : w.n \notin ToSet(written) /\ ws1[w.n].fate \in {"awaited", "cancelled"}
    BY <1>2, <1>3, <1>5, <2>1, <2>2 DEF WritesAgree
  <2>5. \A n \in DOMAIN ws1 : /\ ws1[n].fate = "returned" => n \in ToSet(written)
                              /\ ws1[n].fate = "raised" => n \notin ToSet(written)
    BY <1>2, <1>3 DEF WritesAgree
  <2>6. \A n \in DOMAIN ws1 : ws1[n].fate = "awaited" =>
          /\ res1[ws1[n].by] # "none"
          /\ res1[ws1[n].by] # "running" => \A w \in run1 : w.n # n
          /\ res1[ws1[n].by] = "done" => n \in ToSet(written)
          /\ res1[ws1[n].by] \notin {"running", "done"} => n \notin ToSet(written)
    <3>1. ASSUME NEW n \in DOMAIN ws, ws1[n].fate = "awaited"
          PROVE  /\ res1[ws1[n].by] # "none"
                 /\ res1[ws1[n].by] # "running" => \A w \in run1 : w.n # n
                 /\ res1[ws1[n].by] = "done" => n \in ToSet(written)
                 /\ res1[ws1[n].by] \notin {"running", "done"} => n \notin ToSet(written)
      <4>1. ws[n].fate = "awaited" /\ ws1[n] = ws[n] /\ res1[ws1[n].by] = res[ws[n].by] /\ n # new
        BY <1>3, <1>4, <1>7, <3>1
      <4> QED  BY <2>2, <4>1 DEF WritesAgree
    <3> QED  BY <1>2, <1>3, <1>4, <3>1
  <2>7. \A m, n \in DOMAIN ws1 : n < m /\ ws1[n].fate = "awaited" => ws1[m].by # ws1[n].by
    <3>1. \A n \in DOMAIN ws : ws1[n].fate = "awaited" => ws1[n].by # t
      BY <1>3, <1>7
    <3>2. new \in Nat /\ DOMAIN ws \subseteq Nat
      BY <1>1 DEF new
    <3>3. \A n \in DOMAIN ws1 : ~(new < n)
      BY <1>3, <3>2
    <3> SUFFICES ASSUME NEW m \in DOMAIN ws1, NEW n \in DOMAIN ws1, n < m, ws1[n].fate = "awaited"
                 PROVE  ws1[m].by # ws1[n].by
      OBVIOUS
    <3>4. n \in DOMAIN ws /\ ws1[n] = ws[n]
      BY <1>3, <3>3
    <3>5. CASE m = new
      BY <1>2, <1>3, <3>1, <3>4, <3>5
    <3>6. CASE m \in DOMAIN ws
      BY <1>3, <3>4, <3>6 DEF WritesAgree
    <3> QED  BY <1>3, <3>5, <3>6
  <2>8. \A p, q \in DOMAIN written : p < q /\ written[p] > written[q] =>
          ws1[written[q]].fate = "cancelled" \/ ws1[written[p]].by # ws1[written[q]].by
    BY <1>3, <1>5 DEF WritesAgree
  <2>9. IsInjective(written)
    BY DEF WritesAgree
  <2> QED  BY <2>3, <2>4, <2>5, <2>6, <2>7, <2>8, <2>9 DEF WritesAgree
<1> QED  BY <1>6, <1>8

\* A thread that runs ends: its write reaches the stream after all written so
\* far, of which those its task made later it made when it had given this one up.
LEMMA WriteRunsFine ==
  ASSUME WritesFine(writes, running, result, written), NEW w \in running, WriteRuns(w)
  PROVE  WritesFine(writes, running', result', written')
<1> USE DEF WritesFine
<1>1. /\ writes \in Seq(Writes) /\ Len(writes) \in Nat /\ DOMAIN writes = 1..Len(writes)
      /\ running \subseteq [n : DOMAIN writes, kind : WriteKinds]
      /\ result \in [Tasks -> Results] /\ written \in Seq(DOMAIN writes)
      /\ \A n \in DOMAIN writes : writes[n] \in Writes
  BY LenProperties, ElementOfSeq DEF WriteTypes
<1>2. PICK how \in WriteOutcomes :
        /\ result' = IF writes[w.n].fate = "awaited" THEN [result EXCEPT ![writes[w.n].by] = how]
                                                     ELSE result
        /\ written' = IF how = "done" THEN Append(written, w.n) ELSE written
  BY DEF WriteRuns
<1>3. how \in Results /\ how \notin {"none", "running"}
  BY ErrorFacts DEF WriteOutcomes, Results
<1>4. running' = running \ {w} /\ writes' = writes
  BY DEF WriteRuns
<1> DEFINE k == w.n
<1>5. k \in DOMAIN writes /\ k \notin ToSet(written) /\ writes[k].fate \in {"awaited", "cancelled"}
      /\ \A v \in running' : v.n # k
  BY <1>1, <1>4 DEF WritesAgree
<1>6. /\ result' \in [Tasks -> Results]
      /\ writes[k].fate = "awaited" => result'[writes[k].by] = how
      /\ \A u \in Tasks : (writes[k].fate = "awaited" => u # writes[k].by) => result'[u] = result[u]
  BY <1>1, <1>2, <1>3, <1>5 DEF Writes, Results
<1>7. /\ written' \in Seq(DOMAIN writes) /\ IsInjective(written')
      /\ ToSet(written') = ToSet(written) \cup (IF how = "done" THEN {k} ELSE {})
      /\ \A p, q \in DOMAIN written' : p < q => p \in DOMAIN written /\ written'[p] = written[p]
      /\ \A q \in DOMAIN written' : \/ q \in DOMAIN written /\ written'[q] = written[q]
                                    \/ written'[q] = k
  <2>1. CASE how = "done"
    <3>1. written' = Append(written, k)
      BY <1>2, <2>1
    <3>2. \A S : written \in Seq(S) /\ k \in S =>
            /\ Append(written, k) \in Seq(S)
            /\ ToSet(Append(written, k)) = ToSet(written) \cup {k}
            /\ IsInjective(written) /\ k \notin ToSet(written) => IsInjective(Append(written, k))
      BY AppendFacts
    <3>3. /\ DOMAIN written = 1..Len(written) /\ Len(written) \in Nat
          /\ DOMAIN written' = 1..(Len(written) + 1)
          /\ written'[Len(written) + 1] = k
          /\ \A p \in 1..Len(written) : written'[p] = written[p]
      <4>1. /\ Append(written, k) \in Seq(DOMAIN writes)
            /\ Len(Append(written, k)) = Len(written) + 1
            /\ Append(written, k)[Len(written) + 1] = k
            /\ \A p \in 1..Len(written) : Append(written, k)[p] = written[p]
        BY <1>1, <1>5, AppendProperties
      <4> QED  BY <1>1, <3>1, <4>1, LenProperties
    <3>4. \A p, q \in DOMAIN written' : p < q => p \in DOMAIN written /\ written'[p] = written[p]
      BY <3>3
    <3>5. \A q \in DOMAIN written' : \/ q \in DOMAIN written /\ written'[q] = written[q]
                                     \/ written'[q] = k
      BY <3>3
    <3> QED  BY <1>1, <1>5, <2>1, <3>1, <3>2, <3>4, <3>5 DEF WritesAgree
  <2>2. CASE how # "done"
    BY <1>1, <1>2, <2>2 DEF WritesAgree
  <2> QED  BY <2>1, <2>2
<1>8. WriteTypes(writes, running', result', written')
  BY <1>1, <1>4, <1>6, <1>7 DEF WriteTypes
<1>9. WritesAgree(writes, running', result', written')
  <2> HIDE DEF k
  <2>1. \A v, u \in running' : v.n = u.n => v = u
    BY <1>4 DEF WritesAgree
  <2>2. \A v \in running' : v.n \notin ToSet(written') /\ writes[v.n].fate \in {"awaited", "cancelled"}
    BY <1>4, <1>5, <1>7 DEF WritesAgree
  <2>3. \A n \in DOMAIN writes : /\ writes[n].fate = "returned" => n \in ToSet(written')
                                 /\ writes[n].fate = "raised" => n \notin ToSet(written')
    BY <1>5, <1>7 DEF WritesAgree
  <2>4. ASSUME NEW n \in DOMAIN writes, writes[n].fate = "awaited"
        PROVE  /\ result'[writes[n].by] # "none"
               /\ result'[writes[n].by] # "running" => \A v \in running' : v.n # n
               /\ result'[writes[n].by] = "done" => n \in ToSet(written')
               /\ result'[writes[n].by] \notin {"running", "done"} => n \notin ToSet(written')
    <3>1. CASE n = k
      BY <1>3, <1>5, <1>6, <1>7, <2>4, <3>1
    <3>2. CASE n # k
      <4>1. writes[k].fate = "awaited" => writes[n].by # writes[k].by
        <5>1. k < n \/ n < k
          BY <1>1, <1>5, <3>2
        <5> QED  BY <1>5, <2>4, <5>1 DEF WritesAgree
      <4>2. result'[writes[n].by] = result[writes[n].by]
        BY <1>1, <1>6, <4>1 DEF Writes
      <4>3. n \in ToSet(written') <=> n \in ToSet(written)
        BY <1>7, <3>2
      <4> QED  BY <1>4, <2>4, <4>2, <4>3 DEF WritesAgree
    <3> QED  BY <3>1, <3>2
  <2>5. ASSUME NEW p \in DOMAIN written', NEW q \in DOMAIN written', p < q, written'[p] > written'[q]
        PROVE  writes[written'[q]].fate = "cancelled" \/ writes[written'[p]].by # writes[written'[q]].by
    <3>1. p \in DOMAIN written /\ written'[p] = written[p] /\ written[p] \in DOMAIN writes
      BY <1>1, <1>7, <2>5, ElementOfSeq, LenProperties
    <3>2. CASE q \in DOMAIN written /\ written'[q] = written[q]
      BY <2>5, <3>1, <3>2 DEF WritesAgree
    <3>3. CASE written'[q] = k
      <4>1. k < written[p]
        BY <1>1, <1>5, <2>5, <3>1, <3>3
      <4> QED  BY <1>5, <3>1, <3>3, <4>1 DEF WritesAgree
    <3> QED  BY <1>7, <3>2, <3>3
  <2>6. \A m, n \in DOMAIN writes : n < m /\ writes[n].fate = "awaited" => writes[m].by # writes[n].by
    BY DEF WritesAgree
  <2> QED  BY <1>7, <2>1, <2>2, <2>3, <2>4, <2>5, <2>6 DEF WritesAgree
<1> QED  BY <1>8, <1>9

LEMMA BeginsFine ==
  ASSUME TypeOK, NEW t \in Tasks, NEW ws, NEW kind \in WriteKinds,
         WritesFine(ws, running, [result EXCEPT ![t] = "none"], written),
         Begun(ws, t, kind), UNCHANGED written
  PROVE  WritesFine(writes, running, result, written)'
<1> DEFINE res == [result EXCEPT ![t] = "none"]
<1>1. res[t] = "none" /\ [res EXCEPT ![t] = "running"] = [result EXCEPT ![t] = "running"]
  BY DEF TypeOK
<1>2. /\ writes' = Append(ws, [by |-> t, fate |-> "awaited"])
      /\ running' = running \cup {[n |-> Len(ws) + 1, kind |-> kind]}
      /\ result' = [res EXCEPT ![t] = "running"]
  BY <1>1 DEF Begun, Awaited
<1> HIDE DEF res
<1>3. WritesFine(ws, running, res, written)
  BY DEF res
<1>4. WritesFine(Append(ws, [by |-> t, fate |-> "awaited"]),
                 running \cup {[n |-> Len(ws) + 1, kind |-> kind]},
                 [res EXCEPT ![t] = "running"], written)
  BY <1>1, <1>3, BegunFine
<1> QED  BY <1>2, <1>4

LEMMA EndsWithFine ==
  ASSUME TypeOK, NEW t \in Tasks, NEW ws, NEW where,
         WritesFine(ws, running, [result EXCEPT ![t] = "none"], written),
         EndsWith(t, where, ws), UNCHANGED written
  PROVE  WritesFine(writes, running, result, written)'
<1>1. CASE handle
  BY <1>1, BeginsFine DEF EndsWith, WriteKinds
<1>2. CASE ~handle
  BY <1>2 DEF EndsWith, Settles
<1> QED  BY <1>1, <1>2

LEMMA IdleFine ==
  ASSUME TypeOK, WriteInv, NEW t \in Tasks, at[t] = "body"
  PROVE  WritesFine(writes, running, [result EXCEPT ![t] = "none"], written)
<1>1. [result EXCEPT ![t] = "none"] = result
  BY DEF TypeOK
<1> QED  BY <1>1 DEF TypeOK, WriteInv, WritesFine, WriteTypes, Writes, Results

LEMMA NextWrites ==
  ASSUME TypeOK, WriteInv, [Next]_vars
  PROVE  WritesFine(writes, running, result, written)'
<1>1. WritesFine(writes, running, result, written)
  BY DEF TypeOK, WriteInv, WritesFine, WriteTypes, Writes, Results
<1>2. ASSUME UNCHANGED writeVars PROVE WritesFine(writes, running, result, written)'
  BY <1>1, <1>2 DEF writeVars
<1>3. ASSUME NEW w \in running, WriteRuns(w) PROVE WritesFine(writes, running, result, written)'
  <2>1. writes' = writes
    BY <1>3 DEF WriteRuns
  <2> QED  BY <1>1, <1>3, <2>1, WriteRunsFine
<1>4. ASSUME NEW t \in Tasks, NEW kind \in WriteKinds, Write(t, kind)
      PROVE  WritesFine(writes, running, result, written)'
  BY <1>4, IdleFine, BeginsFine DEF Write
<1>5. ASSUME NEW t \in Tasks, BodyEnds(t) PROVE WritesFine(writes, running, result, written)'
  <2>1. CASE EndsWith(t, "closing", writes) \/ EndsWith(t, "aborting", writes)
    BY <1>5, <2>1, IdleFine, EndsWithFine DEF BodyEnds
  <2>2. CASE UNCHANGED <<writes, running, result>>
    BY <1>2, <1>5, <2>2 DEF BodyEnds, writeVars
  <2> QED  BY <1>5, <2>1, <2>2 DEF BodyEnds
<1>6. ASSUME NEW t \in Tasks, WriteReturns(t) PROVE WritesFine(writes, running, result, written)'
  <2>1. /\ Over(t) /\ UNCHANGED <<running, written>>
        /\ writes' = Fated(t, WriteFate(t)) /\ result' = [result EXCEPT ![t] = "none"]
    BY <1>6 DEF WriteReturns, Settles
  <2> QED  BY <1>1, <2>1, FatedFine
<1>7. ASSUME NEW t \in Tasks, SessionGoesOn(t)
      PROVE  WritesFine(writes, running, result, written)'
  <2> DEFINE ws == Fated(t, WriteFate(t))
  <2>1. /\ Over(t) /\ UNCHANGED written
        /\ EndsWith(t, "aborting", ws) \/ Settles(ws, t)
    BY <1>7 DEF SessionGoesOn
  <2>2. WritesFine(ws, running, [result EXCEPT ![t] = "none"], written)
    BY <1>1, <2>1, FatedFine
  <2> HIDE DEF ws
  <2> QED  BY <2>1, <2>2, EndsWithFine DEF Settles
<1>8. ASSUME NEW t \in Tasks, CancelWrite(t) PROVE WritesFine(writes, running, result, written)'
  <2>1. /\ UNCHANGED <<running, written>>
        /\ writes' = Fated(t, "cancelled") /\ result' = [result EXCEPT ![t] = "none"]
    BY <1>8 DEF CancelWrite, Settles
  <2> QED  BY <1>1, <2>1, FatedFine
<1>9. ASSUME NEW kind \in FrameKinds, PeerSends(kind) PROVE UNCHANGED writeVars
  BY <1>9 DEF PeerSends
<1>10. CASE Breaks \/ StrayEnds \/ UNCHANGED vars
  BY <1>2, <1>10 DEF Breaks, StrayEnds, vars
<1>11. ASSUME NEW t \in Tasks, FreeNow(t) \/ FreeTakes(t) \/ FreeCalls(t) \/ FreeReturns(t)
       PROVE  UNCHANGED writeVars
  BY <1>11 DEF FreeNow, FreeTakes, FreeCalls, FreeReturns
<1>12. ASSUME NEW t \in Tasks, \/ ReadBegins(t) \/ RecvTakes(t) \/ RecvEnds(t) \/ RecvReturns(t)
                               \/ CancelRead(t) \/ CancelFree(t)
       PROVE  UNCHANGED writeVars
  BY <1>12 DEF ReadBegins, RecvTakes, RecvEnds, RecvReturns, CancelRead, CancelFree
<1> QED
  BY <1>2, <1>3, <1>4, <1>5, <1>6, <1>7, <1>8, <1>9, <1>10, <1>11, <1>12 DEF Next, LoopStep

-----------------------------------------------------------------------------
(* Types.                                                                  *)

FrameTypes ==
  /\ sent \in 0..MaxFrames /\ incoming \in Seq(Frames)
  /\ hand \in [Tasks -> Frames \cup {NoFrame}] /\ heard \in [Tasks -> Seq(1..sent)]

Places == {"body", "writing", "closing", "aborting", "reading", "inFree", "leaving", "over"}

TaskTypes ==
  /\ served \in BOOLEAN /\ handle \in BOOLEAN
  /\ native \in {"open", "ended", "freed"} /\ frees \in Nat
  /\ at \in [Tasks -> Places]
  /\ take \in [Tasks -> {"none", "pending", "frame"} \cup Outcomes]
  /\ \A t \in Tasks : /\ take[t] # "none" <=> at[t] = "reading"
                      /\ take[t] = "frame" <=> hand[t] # NoFrame
                      /\ result[t] # "none" <=> at[t] \in {"writing", "closing", "aborting"}
                      /\ at[t] \in {"inFree", "leaving"} => free[t] # "none"
  /\ free \in [Tasks -> {"none", "asked", "taken", "over"}]
  /\ strays \in 0..cancels /\ cancels \in 0..MaxCancels

LEMMA TypeParts ==
  TypeOK <=> WriteTypes(writes, running, result, written) /\ FrameTypes /\ TaskTypes
BY DEF TypeOK, WriteTypes, FrameTypes, TaskTypes, Writes, Results, Places

LEMMA TypePartsLater ==
  TypeOK' <=> WriteTypes(writes, running, result, written)' /\ FrameTypes' /\ TaskTypes'
BY DEF TypeOK, WriteTypes, FrameTypes, TaskTypes, Writes, Results, Places, Frames

\* A frame that is taken, or given to its task, is one that came.
LEMMA NextFrameTypes ==
  ASSUME TypeOK, [Next]_vars
  PROVE  FrameTypes'
<1> USE TypeParts
<1>1. Frames \subseteq [n : 1..sent, kind : FrameKinds] /\ sent \in Nat /\ MaxFrames \in Nat
  BY StreamsAssumption DEF Frames, FrameTypes
<1>2. ASSUME UNCHANGED <<sent, incoming, hand, heard>> PROVE FrameTypes'
  BY <1>2 DEF FrameTypes, Frames
<1>3. ASSUME NEW kind \in FrameKinds, PeerSends(kind) PROVE FrameTypes'
  <2>1. sent' = sent + 1 /\ sent < MaxFrames /\ UNCHANGED <<hand, heard>>
        /\ incoming' = Append(incoming, [n |-> sent', kind |-> kind])
    BY <1>3 DEF PeerSends
  <2>2. 1..sent \subseteq 1..sent' /\ sent' \in 0..MaxFrames /\ sent' \in 1..sent'
    BY <1>1, <2>1
  <2>3. Frames \subseteq Frames' /\ [n |-> sent', kind |-> kind] \in Frames'
    BY <2>2 DEF Frames
  <2>4. Seq(Frames) \subseteq Seq(Frames') /\ Seq(1..sent) \subseteq Seq(1..sent')
    BY <2>2, <2>3, SeqMonotonic
  <2>5. incoming' \in Seq(Frames')
    BY <2>1, <2>3, <2>4, AppendProperties DEF FrameTypes
  <2>6. hand' \in [Tasks -> Frames' \cup {NoFrame}] /\ heard' \in [Tasks -> Seq(1..sent')]
    BY <2>1, <2>3, <2>4 DEF FrameTypes
  <2>7. NoFrame' = NoFrame
    BY DEF NoFrame
  <2> QED  BY <2>2, <2>5, <2>6, <2>7 DEF FrameTypes
<1>4. ASSUME incoming # <<>> PROVE Head(incoming) \in Frames /\ Tail(incoming) \in Seq(Frames)
  BY <1>4, HeadTailProperties DEF FrameTypes
<1>5. ASSUME sent' = sent PROVE Frames' = Frames /\ NoFrame' = NoFrame
  BY <1>5 DEF Frames, NoFrame
<1>6. ASSUME NEW t \in Tasks, RecvTakes(t) PROVE FrameTypes'
  <2>1. /\ incoming # <<>> /\ incoming' = Tail(incoming)
        /\ hand' = [hand EXCEPT ![t] = Head(incoming)] /\ UNCHANGED <<sent, heard>>
    BY <1>6 DEF RecvTakes
  <2> QED  BY <1>4, <1>5, <2>1 DEF FrameTypes
<1>7. CASE StrayEnds
  <2>1. /\ incoming' = incoming \/ (incoming # <<>> /\ incoming' = Tail(incoming))
        /\ UNCHANGED <<sent, hand, heard>>
    BY <1>7 DEF StrayEnds
  <2> QED  BY <1>4, <1>5, <2>1 DEF FrameTypes
<1>8. ASSUME NEW t \in Tasks, RecvReturns(t) PROVE FrameTypes'
  <2>1. UNCHANGED <<sent, incoming>> /\ hand' = [hand EXCEPT ![t] = NoFrame]
    BY <1>8 DEF RecvReturns
  <2>2. heard' \in [Tasks -> Seq(1..sent)]
    <3>1. CASE take[t] = "frame"
      <4>1. hand[t] \in Frames
        BY <3>1 DEF FrameTypes, TaskTypes
      <4>2. hand[t].n \in 1..sent /\ heard[t] \in Seq(1..sent)
        BY <4>1 DEF Frames, FrameTypes
      <4>3. Append(heard[t], hand[t].n) \in Seq(1..sent)
        BY <4>2, AppendProperties
      <4> QED  BY <1>8, <3>1, <4>3 DEF RecvReturns, FrameTypes
    <3>2. CASE take[t] # "frame"
      BY <1>8, <3>2 DEF RecvReturns, FrameTypes
    <3> QED  BY <3>1, <3>2
  <2> QED  BY <1>5, <2>1, <2>2 DEF FrameTypes
<1>9. ASSUME NEW t \in Tasks, CancelRead(t) PROVE FrameTypes'
  <2>1. UNCHANGED <<sent, incoming, heard>> /\ hand' = [hand EXCEPT ![t] = NoFrame]
    BY <1>9 DEF CancelRead, Forgets
  <2> QED  BY <1>5, <2>1 DEF FrameTypes
<1>10. ASSUME NEW w \in running, WriteRuns(w) PROVE FrameTypes'
  BY <1>2, <1>10 DEF WriteRuns, readVars
<1>11. ASSUME NEW t \in Tasks, NEW kind \in WriteKinds, Write(t, kind) PROVE FrameTypes'
  BY <1>2, <1>11 DEF Write, readVars
<1>12. ASSUME NEW t \in Tasks,
              \/ BodyEnds(t) \/ FreeNow(t) \/ FreeTakes(t) \/ FreeCalls(t) \/ FreeReturns(t)
              \/ WriteReturns(t) \/ SessionGoesOn(t) \/ CancelWrite(t) \/ CancelFree(t)
       PROVE  FrameTypes'
  BY <1>2, <1>12 DEF BodyEnds, FreeNow, FreeTakes, FreeCalls, FreeReturns, WriteReturns,
                     SessionGoesOn, CancelWrite, CancelFree, readVars
<1>13. ASSUME NEW t \in Tasks, ReadBegins(t) \/ RecvEnds(t) PROVE FrameTypes'
  BY <1>2, <1>13 DEF ReadBegins, RecvEnds
<1>14. CASE Breaks \/ UNCHANGED vars
  BY <1>2, <1>14 DEF Breaks, vars, readVars
<1> QED
  BY <1>3, <1>6, <1>7, <1>8, <1>9, <1>10, <1>11, <1>12, <1>13, <1>14 DEF Next, LoopStep

\* What a task has of a write, a receive and a free goes with where it is.
LEMMA NextTaskTypes ==
  ASSUME TypeOK, WriteInv, [Next]_vars
  PROVE  TaskTypes'
<1> USE TypeParts
<1>0. /\ \A t \in Tasks : result[t] \in Results /\ result \in [Tasks -> Results]
      /\ hand \in [Tasks -> Frames \cup {NoFrame}] /\ NoFrame' = NoFrame
      /\ \A f \in Frames : f # NoFrame
      /\ MaxCancels \in Nat /\ cancels \in Nat /\ strays \in Nat
  BY StreamsAssumption DEF WriteTypes, FrameTypes, TaskTypes, Frames, NoFrame
<1>1. ASSUME NEW kind \in FrameKinds, PeerSends(kind) PROVE TaskTypes'
  BY <1>0, <1>1 DEF PeerSends, writeVars, TaskTypes
<1>2. CASE Breaks
  BY <1>0, <1>2 DEF Breaks, writeVars, readVars, TaskTypes
<1>3. CASE StrayEnds
  <2>1. strays' \in 0..cancels
    BY <1>0, <1>3 DEF StrayEnds, TaskTypes
  <2> QED  BY <1>0, <1>3, <2>1 DEF StrayEnds, writeVars, nativeVars, TaskTypes
<1>4. ASSUME NEW w \in running, WriteRuns(w) PROVE TaskTypes'
  <2>1. PICK how \in WriteOutcomes :
          /\ result' = IF writes[w.n].fate = "awaited" THEN [result EXCEPT ![writes[w.n].by] = how]
                                                       ELSE result
          /\ native' = IF how = "done" /\ w.kind = "end" THEN "ended" ELSE native
    BY <1>4 DEF WriteRuns
  <2>2. how # "none"
    BY ErrorFacts DEF WriteOutcomes
  <2>3. w.n \in DOMAIN writes /\ writes[w.n].by \in Tasks
    <3>1. writes \in Seq(Writes) /\ w.n \in DOMAIN writes
      BY DEF WriteTypes
    <3>2. writes[w.n] \in Writes
      BY <3>1, ElementOfSeq, LenProperties
    <3> QED  BY <3>1, <3>2 DEF Writes
  <2>4. writes[w.n].fate = "awaited" => result[writes[w.n].by] # "none"
    BY <2>3 DEF WriteInv, WritesAgree
  <2>5. \A t \in Tasks : result'[t] # "none" <=> result[t] # "none"
    BY <1>0, <2>1, <2>2, <2>3, <2>4
  <2> QED  BY <1>0, <1>4, <2>1, <2>5 DEF WriteRuns, readVars, TaskTypes
<1>5. ASSUME NEW t \in Tasks, NEW kind \in WriteKinds, Write(t, kind) PROVE TaskTypes'
  BY <1>0, <1>5 DEF Write, Begun, Goes, nativeVars, readVars, TaskTypes, Places
<1>6. ASSUME NEW t \in Tasks, NEW ws, NEW where \in {"closing", "aborting"},
             UNCHANGED <<served, handle, nativeVars, readVars, cancels>>,
             EndsWith(t, where, ws), at[t] \in {"body", "closing", "aborting"}
      PROVE  TaskTypes'
  <2>1. CASE handle
    BY <1>0, <1>6, <2>1 DEF EndsWith, Begun, Goes, nativeVars, readVars, TaskTypes, Places
  <2>2. CASE ~handle
    BY <1>0, <1>6, <2>2 DEF EndsWith, Settles, Leaves, Goes, nativeVars, readVars, TaskTypes, Places
  <2> QED  BY <2>1, <2>2
<1>7. ASSUME NEW t \in Tasks, BodyEnds(t) PROVE TaskTypes'
  <2>1. CASE EndsWith(t, "closing", writes) \/ EndsWith(t, "aborting", writes)
    BY <1>6, <1>7, <2>1 DEF BodyEnds
  <2>2. CASE UNCHANGED <<writes, running, result>> /\ (Leaves(t) \/ (Goes(t, "over") /\ UNCHANGED free))
    BY <1>0, <1>7, <2>2 DEF BodyEnds, Leaves, Goes, nativeVars, readVars, TaskTypes, Places
  <2> QED  BY <1>7, <2>1, <2>2 DEF BodyEnds
<1>8. ASSUME NEW t \in Tasks, WriteReturns(t) PROVE TaskTypes'
  BY <1>0, <1>8 DEF WriteReturns, Settles, Goes, nativeVars, readVars, TaskTypes, Places
<1>9. ASSUME NEW t \in Tasks, SessionGoesOn(t) PROVE TaskTypes'
  <2>1. CASE EndsWith(t, "aborting", Fated(t, WriteFate(t)))
    BY <1>6, <1>9, <2>1 DEF SessionGoesOn
  <2>2. CASE Settles(Fated(t, WriteFate(t)), t) /\ Leaves(t)
    BY <1>0, <1>9, <2>2 DEF SessionGoesOn, Settles, Leaves, Goes, nativeVars, readVars, TaskTypes, Places
  <2> QED  BY <1>9, <2>1, <2>2 DEF SessionGoesOn
<1>10. ASSUME NEW t \in Tasks, FreeNow(t) PROVE TaskTypes'
  BY <1>0, <1>10 DEF FreeNow, Goes, nativeVars, writeVars, readVars, TaskTypes, Places
<1>11. ASSUME NEW t \in Tasks, FreeTakes(t) PROVE TaskTypes'
  <2>1. handle' \in BOOLEAN /\ (free' = [free EXCEPT ![t] = "taken"] \/ free' = [free EXCEPT ![t] = "over"])
    BY <1>11 DEF FreeTakes, GivesUp, TaskTypes
  <2> QED  BY <1>0, <1>11, <2>1 DEF FreeTakes, nativeVars, writeVars, readVars, TaskTypes
<1>12. ASSUME NEW t \in Tasks, FreeCalls(t) PROVE TaskTypes'
  <2>1. /\ handle' \in BOOLEAN /\ native' = "freed" /\ frees' = frees + 1
        /\ free[t] = "taken" /\ free' = [free EXCEPT ![t] = "over"]
        /\ UNCHANGED <<served, at, take, hand, result, strays, cancels>>
    BY <1>12 DEF FreeCalls, writeVars, readVars
  <2> QED  BY <1>0, <2>1 DEF TaskTypes
<1>13. ASSUME NEW t \in Tasks, FreeReturns(t) PROVE TaskTypes'
  BY <1>0, <1>13 DEF FreeReturns, Goes, nativeVars, writeVars, readVars, TaskTypes, Places
<1>14. ASSUME NEW t \in Tasks, ReadBegins(t) PROVE TaskTypes'
  BY <1>0, <1>14 DEF ReadBegins, Leads, Goes, nativeVars, writeVars, TaskTypes, Places
<1>15. ASSUME NEW t \in Tasks, RecvTakes(t) PROVE TaskTypes'
  <2>1. Head(incoming) \in Frames
    BY <1>15, HeadTailProperties DEF RecvTakes, FrameTypes
  <2> QED  BY <1>0, <1>15, <2>1 DEF RecvTakes, nativeVars, writeVars, TaskTypes, Outcomes
<1>16. ASSUME NEW t \in Tasks, RecvEnds(t) PROVE TaskTypes'
  <2>1. PICK how \in Outcomes : take' = [take EXCEPT ![t] = how]
    BY <1>16 DEF RecvEnds, Endings, Outcomes
  <2> QED  BY <1>0, <1>16, <2>1 DEF RecvEnds, nativeVars, writeVars, TaskTypes, Outcomes
<1>17. ASSUME NEW t \in Tasks, RecvReturns(t) PROVE TaskTypes'
  BY <1>0, <1>17 DEF RecvReturns, Leads, Goes, nativeVars, writeVars, TaskTypes, Places
<1>18. ASSUME NEW t \in Tasks, CancelWrite(t) PROVE TaskTypes'
  <2>1. strays \in 0..cancels' /\ cancels' \in 0..MaxCancels
    BY <1>0, <1>18 DEF CancelWrite, MayCancel, TaskTypes
  <2> QED  BY <1>0, <1>18, <2>1 DEF CancelWrite, CancelledTo, Settles, Leaves, Goes, nativeVars,
                                   readVars, TaskTypes, Places
<1>19. ASSUME NEW t \in Tasks, CancelRead(t) PROVE TaskTypes'
  <2>1. strays' \in 0..cancels' /\ cancels' \in 0..MaxCancels
    BY <1>0, <1>19 DEF CancelRead, MayCancel, TaskTypes
  <2> QED  BY <1>0, <1>19, <2>1 DEF CancelRead, CancelledTo, Leaves, Goes, nativeVars, writeVars,
                                   TaskTypes, Places
<1>20. ASSUME NEW t \in Tasks, CancelFree(t) PROVE TaskTypes'
  <2>1. strays \in 0..cancels' /\ cancels' \in 0..MaxCancels
    BY <1>0, <1>20 DEF CancelFree, MayCancel, TaskTypes
  <2> QED  BY <1>0, <1>20, <2>1 DEF CancelFree, FreeGoesOn, Goes, nativeVars, writeVars, readVars,
                                   TaskTypes, Places
<1>21. CASE UNCHANGED vars
  BY <1>0, <1>21 DEF vars, nativeVars, writeVars, readVars, TaskTypes
<1> QED
  BY <1>1, <1>2, <1>3, <1>4, <1>5, <1>7, <1>8, <1>9, <1>10, <1>11, <1>12, <1>13, <1>14, <1>15,
     <1>16, <1>17, <1>18, <1>19, <1>20, <1>21 DEF Next, LoopStep

-----------------------------------------------------------------------------
(* Where the frames are.                                                   *)

LEMMA NumbersFacts ==
  ASSUME NEW F, \A f \in F : f.n \in Nat, NEW q \in Seq(F)
  PROVE  /\ Numbers(q) \in Seq(Nat)
         /\ q # <<>> => /\ Numbers(q) # <<>> /\ Head(q) \in F /\ Tail(q) \in Seq(F)
                        /\ Head(Numbers(q)) = Head(q).n /\ Numbers(Tail(q)) = Tail(Numbers(q))
         /\ \A f \in F : Numbers(Append(q, f)) = Append(Numbers(q), f.n)
<1>1. /\ Len(q) \in Nat /\ DOMAIN q = 1..Len(q) /\ \A i \in 1..Len(q) : q[i] \in F
  BY LenProperties, ElementOfSeq
<1>2. /\ Numbers(q) \in Seq(Nat) /\ Len(Numbers(q)) = Len(q) /\ DOMAIN Numbers(q) = 1..Len(q)
      /\ \A i \in 1..Len(q) : Numbers(q)[i] = q[i].n
  <2>1. Numbers(q) = [i \in 1..Len(q) |-> q[i].n]
    BY <1>1 DEF Numbers
  <2>2. Numbers(q) \in [1..Len(q) -> Nat]
    BY <1>1, <2>1
  <2>3. Numbers(q) \in Seq(Nat)
    BY <1>1, <2>2, SeqDef
  <2>4. DOMAIN Numbers(q) = 1..Len(q)
    BY <2>1
  <2>5. Len(Numbers(q)) = Len(q)
    BY <1>1, <2>3, <2>4, LenProperties
  <2> QED  BY <2>1, <2>3, <2>4, <2>5
<1>3. ASSUME q # <<>>
      PROVE  /\ Numbers(q) # <<>> /\ Head(q) \in F /\ Tail(q) \in Seq(F)
             /\ Head(Numbers(q)) = Head(q).n /\ Numbers(Tail(q)) = Tail(Numbers(q))
  <2>1. /\ Head(q) = q[1] /\ Tail(q) \in Seq(F) /\ Len(q) \in Nat \ {0} /\ Head(q) \in F
        /\ DOMAIN Tail(q) = 1..Len(q) - 1 /\ \A i \in 1..Len(q) - 1 : Tail(q)[i] = q[i + 1]
    BY <1>1, <1>3, HeadTailProperties, LenProperties, EmptySeq
  <2>2. Numbers(q) # <<>>
    BY <1>2, <2>1, EmptySeq
  <2>3. /\ Head(Numbers(q)) = Numbers(q)[1] /\ Tail(Numbers(q)) \in Seq(Nat)
        /\ DOMAIN Tail(Numbers(q)) = 1..Len(q) - 1
        /\ \A i \in 1..Len(q) - 1 : Tail(Numbers(q))[i] = Numbers(q)[i + 1]
    BY <1>2, <2>2, HeadTailProperties, LenProperties
  <2>4. Numbers(Tail(q)) = [i \in 1..Len(q) - 1 |-> q[i + 1].n]
    BY <2>1 DEF Numbers
  <2>5. \A i \in 1..Len(q) - 1 : i + 1 \in 1..Len(q)
    BY <2>1
  <2>6. Tail(Numbers(q)) = [i \in 1..Len(q) - 1 |-> q[i + 1].n]
    <3>1. Tail(Numbers(q)) = [i \in 1..Len(q) - 1 |-> Tail(Numbers(q))[i]]
      <4>1. \A r \in Seq(Nat) : r = [i \in DOMAIN r |-> r[i]]
        BY SeqDef
      <4> QED  BY <2>3, <4>1
    <3>2. \A i \in 1..Len(q) - 1 : Tail(Numbers(q))[i] = q[i + 1].n
      BY <1>2, <2>3, <2>5
    <3> QED  BY <3>1, <3>2
  <2>7. Numbers(Tail(q)) = Tail(Numbers(q))
    BY <2>4, <2>6
  <2>8. Head(Numbers(q)) = Head(q).n
    <3>1. 1 \in 1..Len(q)
      BY <2>1
    <3> QED  BY <1>2, <2>1, <2>3, <3>1
  <2> QED  BY <2>1, <2>2, <2>7, <2>8
<1>4. ASSUME NEW f \in F PROVE Numbers(Append(q, f)) = Append(Numbers(q), f.n)
  <2>1. /\ Append(q, f) \in Seq(F) /\ DOMAIN Append(q, f) = 1..Len(q) + 1
        /\ Append(q, f)[Len(q) + 1] = f /\ \A i \in 1..Len(q) : Append(q, f)[i] = q[i]
    BY <1>1, AppendProperties, LenProperties
  <2>2. f.n \in Nat
    OBVIOUS
  <2>3. /\ Append(Numbers(q), f.n) \in Seq(Nat) /\ DOMAIN Append(Numbers(q), f.n) = 1..Len(q) + 1
        /\ Append(Numbers(q), f.n)[Len(q) + 1] = f.n
        /\ \A i \in 1..Len(q) : Append(Numbers(q), f.n)[i] = Numbers(q)[i]
    BY <1>2, <2>2, AppendProperties, LenProperties
  <2>4. Append(Numbers(q), f.n) = [i \in 1..Len(q) + 1 |-> Append(Numbers(q), f.n)[i]]
    BY <2>3, SeqDef
  <2>5. \A i \in 1..Len(q) + 1 : i \in 1..Len(q) \/ i = Len(q) + 1
    BY <1>1
  <2>6. \A i \in 1..Len(q) + 1 : Append(q, f)[i].n = Append(Numbers(q), f.n)[i]
    BY <1>2, <2>1, <2>3, <2>5
  <2> HIDE DEF Numbers
  <2>7. Numbers(Append(q, f)) = [i \in 1..Len(q) + 1 |-> Append(q, f)[i].n]
    BY <2>1 DEF Numbers
  <2> QED  BY <2>4, <2>6, <2>7
<1> QED  BY <1>2, <1>3, <1>4

\* A frame that is not lost is still to come, or some task took it.
LEMMA AccountedSplit ==
  /\ Accounted = Coming \cup UNION {Mine(t) : t \in Tasks}
  /\ Accounted' = Coming' \cup UNION {Mine(t)' : t \in Tasks}
<1>1. Coming = {f.n : f \in ToSet(incoming)} /\ Coming' = {f.n : f \in ToSet(incoming')}
  BY DEF Coming, Numbers, ToSet
<1>2. ASSUME NEW e PROVE e \in Accounted <=> e \in Coming \cup UNION {Mine(t) : t \in Tasks}
  BY <1>1 DEF Accounted, Mine
<1>3. ASSUME NEW e PROVE e \in Accounted' <=> e \in Coming' \cup UNION {Mine(t)' : t \in Tasks}
  BY <1>1 DEF Accounted, Mine, NoFrame
<1> QED  BY <1>2, <1>3

LEMMA FramePlaces ==
  ASSUME TypeOK
  PROVE  /\ Numbers(incoming) \in Seq(Nat) /\ \A t \in Tasks : heard[t] \in Seq(Nat)
         /\ sent \in Nat /\ strays \in Nat /\ cancels \in Nat
         /\ \A t \in Tasks : hand[t] # NoFrame => hand[t] \in Frames /\ hand[t].n \in 1..sent
         /\ Coming \subseteq 1..sent /\ \A t \in Tasks : Mine(t) \subseteq 1..sent
         /\ Accounted \subseteq 1..sent
<1> USE TypeParts
<1>1. sent \in Nat /\ strays \in Nat /\ cancels \in Nat /\ 1..sent \subseteq Nat
  BY StreamsAssumption DEF FrameTypes, TaskTypes
<1>2. \A f \in Frames : f.n \in 1..sent /\ f.n \in Nat
  BY <1>1 DEF Frames
<1>3. Numbers(incoming) \in Seq(Nat)
  BY <1>2, NumbersFacts DEF FrameTypes
<1>4. \A t \in Tasks : heard[t] \in Seq(Nat) /\ ToSet(heard[t]) \subseteq 1..sent
  <2>1. \A t \in Tasks : heard[t] \in Seq(1..sent)
    BY DEF FrameTypes
  <2>2. \A S, T : S \subseteq T => Seq(S) \subseteq Seq(T)
    BY SeqMonotonic
  <2>3. \A S : \A q \in Seq(S) : ToSet(q) \subseteq S
    BY ToSetFacts
  <2> QED  BY <1>1, <2>1, <2>2, <2>3
<1>5. \A t \in Tasks : hand[t] # NoFrame => hand[t] \in Frames /\ hand[t].n \in 1..sent
  BY <1>2 DEF FrameTypes
<1>6. Coming \subseteq 1..sent
  <2>1. \A i \in DOMAIN incoming : incoming[i] \in Frames
    BY ElementOfSeq, LenProperties DEF FrameTypes
  <2> QED  BY <1>2, <2>1 DEF Coming, Numbers, ToSet
<1>7. \A t \in Tasks : Mine(t) \subseteq 1..sent
  BY <1>4, <1>5 DEF Mine
<1> QED  BY <1>1, <1>3, <1>4, <1>5, <1>6, <1>7, AccountedSplit

\* The frames that are not lost can be counted.
LEMMA CountFacts ==
  ASSUME TypeOK
  PROVE  /\ Cardinality(Accounted) \in Nat
         /\ \A x : x \notin Accounted => Cardinality(Accounted \cup {x}) = Cardinality(Accounted) + 1
         /\ \A x \in Accounted : Cardinality(Accounted \ {x}) = Cardinality(Accounted) - 1
<1>1. IsFiniteSet(1..sent) /\ Accounted \subseteq 1..sent
  BY FramePlaces, FS_Interval
<1>2. IsFiniteSet(Accounted)
  BY <1>1, FS_Subset
<1> QED  BY <1>2, FS_CardinalityType, FS_AddElement, FS_RemoveElement

\* The first frame to come is later than all that were taken.
LEMMA HeadComes ==
  ASSUME TypeOK, FrameInv, incoming # <<>>
  PROVE  /\ Head(incoming) \in Frames /\ Head(incoming) # NoFrame
         /\ Head(incoming).n \in Accounted
         /\ Increasing(Numbers(Tail(incoming)))
         /\ Coming = {Head(incoming).n} \cup ToSet(Numbers(Tail(incoming)))
         /\ Head(incoming).n \notin ToSet(Numbers(Tail(incoming)))
         /\ \A f \in ToSet(Numbers(Tail(incoming))) : Head(incoming).n < f
         /\ \A t \in Tasks : Head(incoming).n \notin Mine(t)
<1>1. /\ Numbers(incoming) # <<>> /\ Head(incoming) \in Frames
      /\ Head(Numbers(incoming)) = Head(incoming).n
      /\ Numbers(Tail(incoming)) = Tail(Numbers(incoming))
      /\ Numbers(incoming) \in Seq(Nat) /\ \A f \in Frames : f.n \in Nat /\ f # NoFrame
  <2>1. \A f \in Frames : f.n \in Nat /\ f # NoFrame
    BY FramePlaces DEF Frames, NoFrame
  <2> QED  BY <2>1, NumbersFacts, TypeParts DEF FrameTypes
<1>2. /\ Increasing(Tail(Numbers(incoming)))
      /\ \A e \in ToSet(Tail(Numbers(incoming))) : Head(Numbers(incoming)) < e
      /\ Coming = {Head(Numbers(incoming))} \cup ToSet(Tail(Numbers(incoming)))
      /\ Head(Numbers(incoming)) \notin ToSet(Tail(Numbers(incoming)))
  BY <1>1, IncreasingTail DEF FrameInv, Coming
<1>3. Head(incoming).n \in Coming /\ Head(incoming).n \in Nat
  BY <1>1, <1>2
<1>4. \A t \in Tasks : Head(incoming).n \notin Mine(t)
  BY <1>3 DEF FrameInv
<1> QED  BY <1>1, <1>2, <1>3, <1>4, AccountedSplit

LEMMA FramesStay ==
  ASSUME TypeOK, FrameInv, UNCHANGED <<sent, incoming, hand, heard, strays>>, cancels <= cancels',
         cancels' \in Nat
  PROVE  FrameInv'
<1>1. UNCHANGED <<Numbers(incoming), Coming>> /\ \A t \in Tasks : Mine(t)' = Mine(t)
  BY DEF Numbers, Coming, Mine, NoFrame
<1>2. Accounted' = Accounted
  BY <1>1, AccountedSplit
<1>3. sent - Cardinality(Accounted') + strays <= cancels'
  BY <1>2, CountFacts, FramePlaces DEF FrameInv
<1> QED  BY <1>1, <1>3 DEF FrameInv, NoFrame

LEMMA PeerSendsFrames ==
  ASSUME TypeOK, FrameInv, NEW kind \in FrameKinds, PeerSends(kind)
  PROVE  FrameInv'
<1> DEFINE new == [n |-> sent + 1, kind |-> kind]
<1>1. /\ sent' = sent + 1 /\ incoming' = Append(incoming, new)
      /\ UNCHANGED <<hand, heard, strays, cancels>>
  BY DEF PeerSends
<1>2. sent \in Nat /\ sent + 1 \in Nat /\ sent + 1 \notin 1..sent /\ \A e \in 1..sent : e < sent + 1
  BY FramePlaces
<1>3. Numbers(incoming') = Append(Numbers(incoming), sent + 1)
  <2> DEFINE F == [n : Nat, kind : FrameKinds]
  <2>1. Frames \subseteq F /\ new \in F /\ \A f \in F : f.n \in Nat
    BY <1>2 DEF Frames
  <2>2. incoming \in Seq(F)
    BY <2>1, TypeParts, SeqMonotonic DEF FrameTypes
  <2> HIDE DEF F
  <2>3. \A f \in F : Numbers(Append(incoming, f)) = Append(Numbers(incoming), f.n)
    BY <2>1, <2>2, NumbersFacts
  <2> QED  BY <1>1, <2>1, <2>3
<1>4. Increasing(Numbers(incoming)')
  <2>1. \A e \in ToSet(Numbers(incoming)) : e < sent + 1
    BY <1>2, FramePlaces DEF Coming
  <2> QED  BY <1>2, <1>3, <2>1, FramePlaces, IncreasingAppend DEF FrameInv
<1>5. Coming' = Coming \cup {sent + 1}
  <2>1. \A S : Numbers(incoming) \in Seq(S) /\ sent + 1 \in S =>
          ToSet(Append(Numbers(incoming), sent + 1)) = ToSet(Numbers(incoming)) \cup {sent + 1}
    BY AppendFacts
  <2> QED  BY <1>2, <1>3, <2>1, FramePlaces DEF Coming
<1>6. \A t \in Tasks : Mine(t)' = Mine(t) /\ Mine(t) \subseteq 1..sent
  BY <1>1, FramePlaces DEF Mine, NoFrame
<1>7. Accounted' = Accounted \cup {sent + 1} /\ sent + 1 \notin Accounted
  BY <1>2, <1>5, <1>6, AccountedSplit, FramePlaces
<1>8. sent' - Cardinality(Accounted') + strays <= cancels
  <2>1. Cardinality(Accounted') = Cardinality(Accounted) + 1 /\ Cardinality(Accounted) \in Nat
    BY <1>7, CountFacts
  <2> QED  BY <1>1, <2>1, FramePlaces DEF FrameInv
<1>9. \A t \in Tasks : \A e \in Mine(t)', f \in Coming' : e < f
  BY <1>2, <1>5, <1>6 DEF FrameInv
<1> QED  BY <1>1, <1>4, <1>6, <1>8, <1>9 DEF FrameInv, NoFrame

LEMMA RecvTakesFrames ==
  ASSUME TypeOK, FrameInv, NEW t \in Tasks, RecvTakes(t)
  PROVE  FrameInv'
<1> DEFINE f == Head(incoming)
<1>1. /\ take[t] = "pending" /\ incoming # <<>> /\ incoming' = Tail(incoming)
      /\ hand' = [hand EXCEPT ![t] = f] /\ UNCHANGED <<sent, heard, strays, cancels>>
  BY DEF RecvTakes
<1>2. hand[t] = NoFrame /\ hand \in [Tasks -> Frames \cup {NoFrame}]
  BY <1>1, TypeParts DEF FrameTypes, TaskTypes
<1>3. /\ f # NoFrame /\ f.n \in Accounted
      /\ Increasing(Numbers(Tail(incoming)))
      /\ Coming = {f.n} \cup ToSet(Numbers(Tail(incoming)))
      /\ f.n \notin ToSet(Numbers(Tail(incoming)))
      /\ \A g \in ToSet(Numbers(Tail(incoming))) : f.n < g
      /\ \A u \in Tasks : f.n \notin Mine(u)
  BY <1>1, HeadComes
<1> HIDE DEF f
<1>4. hand'[t] = f /\ \A u \in Tasks \ {t} : hand'[u] = hand[u]
  BY <1>1, <1>2
<1>5. /\ Mine(t)' = Mine(t) \cup {f.n} /\ \A u \in Tasks \ {t} : Mine(u)' = Mine(u)
      /\ Coming' = ToSet(Numbers(Tail(incoming)))
  BY <1>1, <1>2, <1>3, <1>4 DEF Mine, Coming, NoFrame
<1>6. Accounted' = Accounted
  BY <1>3, <1>5, AccountedSplit
<1>7. \A u \in Tasks : \A e \in Mine(u)', g \in Coming' : e < g
  BY <1>3, <1>5 DEF FrameInv
<1>8. \A u, v \in Tasks : u # v => Mine(u)' \cap Mine(v)' = {}
  BY <1>3, <1>5 DEF FrameInv
<1>9. \A u \in Tasks : hand'[u] # NoFrame => \A e \in ToSet(heard[u]) : e < hand'[u].n
  <2>1. \A e \in ToSet(heard[t]) : e < f.n
    BY <1>3 DEF FrameInv, Mine
  <2> QED  BY <1>4, <2>1 DEF FrameInv
<1>10. Increasing(Numbers(incoming)')
  BY <1>1, <1>3
<1>11. sent' - Cardinality(Accounted') + strays' <= cancels'
  BY <1>1, <1>6 DEF FrameInv
<1> QED  BY <1>1, <1>7, <1>8, <1>9, <1>10, <1>11 DEF FrameInv, NoFrame

\* What a stray takes is lost, as its cancelled task was counted for.
LEMMA StrayEndsFrames ==
  ASSUME TypeOK, FrameInv, StrayEnds
  PROVE  FrameInv'
<1>1. /\ strays > 0 /\ strays' = strays - 1 /\ UNCHANGED <<sent, hand, heard, cancels>>
      /\ incoming' = incoming \/ (incoming # <<>> /\ incoming' = Tail(incoming))
  BY DEF StrayEnds
<1>2. \A t \in Tasks : Mine(t)' = Mine(t)
  BY <1>1 DEF Mine, NoFrame
<1>3. CASE incoming' = incoming
  <2>1. UNCHANGED <<Numbers(incoming), Coming>>
    BY <1>3 DEF Numbers, Coming
  <2>2. Accounted' = Accounted
    BY <1>2, <2>1, AccountedSplit
  <2>3. sent' - Cardinality(Accounted') + strays' <= cancels'
    BY <1>1, <2>2, CountFacts, FramePlaces DEF FrameInv
  <2> QED  BY <1>1, <1>2, <2>1, <2>3 DEF FrameInv, NoFrame
<1>4. CASE incoming # <<>> /\ incoming' = Tail(incoming)
  <2> DEFINE f == Head(incoming)
  <2>1. /\ f.n \in Accounted
        /\ Increasing(Numbers(Tail(incoming)))
        /\ Coming = {f.n} \cup ToSet(Numbers(Tail(incoming)))
        /\ f.n \notin ToSet(Numbers(Tail(incoming)))
        /\ \A u \in Tasks : f.n \notin Mine(u)
    BY <1>4, HeadComes
  <2> HIDE DEF f
  <2>2. Coming' = ToSet(Numbers(Tail(incoming))) /\ Numbers(incoming)' = Numbers(Tail(incoming))
    BY <1>4 DEF Coming
  <2>3. Accounted' = Accounted \ {f.n}
    BY <1>2, <2>1, <2>2, AccountedSplit
  <2>4. Cardinality(Accounted') = Cardinality(Accounted) - 1 /\ Cardinality(Accounted) \in Nat
    BY <2>1, <2>3, CountFacts
  <2>5. sent' - Cardinality(Accounted') + strays' <= cancels'
    BY <1>1, <2>4, FramePlaces DEF FrameInv
  <2>6. \A t \in Tasks : \A e \in Mine(t)', g \in Coming' : e < g
    BY <1>2, <2>1, <2>2 DEF FrameInv
  <2> QED  BY <1>1, <1>2, <2>1, <2>2, <2>5, <2>6 DEF FrameInv, NoFrame
<1> QED  BY <1>1, <1>3, <1>4

\* The frame a task has in hand is the next it heard.
LEMMA RecvReturnsFrames ==
  ASSUME TypeOK, FrameInv, NEW t \in Tasks, RecvReturns(t)
  PROVE  FrameInv'
<1>1. /\ hand' = [hand EXCEPT ![t] = NoFrame] /\ UNCHANGED <<sent, incoming, strays, cancels>>
      /\ heard' = IF take[t] = "frame" THEN [heard EXCEPT ![t] = Append(@, hand[t].n)] ELSE heard
  BY DEF RecvReturns
<1>2. /\ hand \in [Tasks -> Frames \cup {NoFrame}] /\ heard \in [Tasks -> Seq(1..sent)]
      /\ take[t] = "frame" <=> hand[t] # NoFrame
  BY TypeParts DEF FrameTypes, TaskTypes
<1>3. CASE hand[t] = NoFrame
  <2>1. hand' = hand /\ heard' = heard
    BY <1>1, <1>2, <1>3
  <2> QED  BY <1>1, <2>1, FramePlaces, FramesStay
<1>4. CASE hand[t] # NoFrame
  <2> DEFINE e == hand[t].n
  <2>1. /\ e \in Nat /\ heard[t] \in Seq(Nat) /\ Increasing(heard[t])
        /\ \A d \in ToSet(heard[t]) : d < e
    BY <1>4, FramePlaces DEF FrameInv
  <2> HIDE DEF e
  <2>2. /\ heard'[t] = Append(heard[t], e) /\ hand'[t] = NoFrame
        /\ \A u \in Tasks \ {t} : heard'[u] = heard[u] /\ hand'[u] = hand[u]
    BY <1>1, <1>2, <1>4 DEF e
  <2>3. Increasing(heard'[t])
    BY <2>1, <2>2, IncreasingAppend
  <2>4. ToSet(heard'[t]) = ToSet(heard[t]) \cup {e}
    <3>1. ToSet(Append(heard[t], e)) = ToSet(heard[t]) \cup {e}
      BY <2>1, AppendFacts
    <3> QED  BY <2>2, <3>1
  <2>5. \A u \in Tasks : Mine(u)' = Mine(u)
    BY <1>4, <2>2, <2>4 DEF Mine, NoFrame, e
  <2>6. UNCHANGED <<Numbers(incoming), Coming>>
    BY <1>1 DEF Numbers, Coming
  <2>7. Accounted' = Accounted
    BY <2>5, <2>6, AccountedSplit
  <2>8. \A u \in Tasks : Increasing(heard'[u])
    BY <2>2, <2>3 DEF FrameInv
  <2>9. \A u \in Tasks : hand'[u] # NoFrame => \A d \in ToSet(heard'[u]) : d < hand'[u].n
    BY <2>2 DEF FrameInv
  <2>10. sent' - Cardinality(Accounted') + strays' <= cancels'
    BY <1>1, <2>7 DEF FrameInv
  <2> QED  BY <2>5, <2>6, <2>8, <2>9, <2>10 DEF FrameInv, NoFrame
<1> QED  BY <1>3, <1>4

\* A cancelled receive leaves a stray, or forgets the frame it took; either way
\* it is one cancellation.
LEMMA CancelReadFrames ==
  ASSUME TypeOK, FrameInv, NEW t \in Tasks, CancelRead(t)
  PROVE  FrameInv'
<1>1. /\ hand' = [hand EXCEPT ![t] = NoFrame] /\ UNCHANGED <<sent, incoming, heard>>
      /\ cancels' = cancels + 1
      /\ strays' = IF take[t] = "pending" THEN strays + 1 ELSE strays
  BY DEF CancelRead, Forgets
<1>2. /\ hand \in [Tasks -> Frames \cup {NoFrame}]
      /\ take[t] = "frame" <=> hand[t] # NoFrame
  BY TypeParts DEF FrameTypes, TaskTypes
<1>3. UNCHANGED <<Numbers(incoming), Coming>>
  BY <1>1 DEF Numbers, Coming
<1>4. hand'[t] = NoFrame /\ \A u \in Tasks \ {t} : hand'[u] = hand[u]
  BY <1>1, <1>2
<1>5. Mine(t)' = ToSet(heard[t]) /\ \A u \in Tasks \ {t} : Mine(u)' = Mine(u)
  BY <1>1, <1>4 DEF Mine, NoFrame
<1>6. Mine(t)' \subseteq Mine(t)
  BY <1>5 DEF Mine
<1>7. sent' - Cardinality(Accounted') + strays' <= cancels'
  <2>1. CASE hand[t] = NoFrame
    <3>1. Mine(t)' = Mine(t)
      BY <1>5, <2>1 DEF Mine
    <3>2. Accounted' = Accounted
      BY <1>3, <1>5, <3>1, AccountedSplit
    <3> QED  BY <1>1, <3>2, CountFacts, FramePlaces DEF FrameInv
  <2>2. CASE hand[t] # NoFrame
    <3> DEFINE e == hand[t].n
    <3>1. Mine(t) = ToSet(heard[t]) \cup {e} /\ e \in Nat /\ ToSet(heard[t]) \subseteq Nat
      <4>1. Mine(t) = ToSet(heard[t]) \cup {e} /\ Mine(t) \subseteq 1..sent /\ sent \in Nat
        BY <2>2, FramePlaces DEF Mine
      <4> QED  BY <4>1
    <3>2. e \notin ToSet(heard[t]) /\ e \notin Coming /\ \A u \in Tasks \ {t} : e \notin Mine(u)
      <4>1. e \notin ToSet(heard[t])
        BY <2>2, <3>1 DEF FrameInv
      <4> HIDE DEF e
      <4>2. e \notin Coming /\ \A u \in Tasks \ {t} : e \notin Mine(u)
        BY <3>1 DEF FrameInv
      <4> QED  BY <4>1, <4>2
    <3> HIDE DEF e
    <3>3. Accounted' = Accounted \ {e} /\ e \in Accounted
      BY <1>3, <1>5, <3>1, <3>2, AccountedSplit
    <3>4. Cardinality(Accounted') = Cardinality(Accounted) - 1 /\ Cardinality(Accounted) \in Nat
      BY <3>3, CountFacts
    <3>5. strays' = strays
      BY <1>1, <1>2, <2>2
    <3> QED  BY <1>1, <3>4, <3>5, FramePlaces DEF FrameInv
  <2> QED  BY <2>1, <2>2
<1>8. \A u, v \in Tasks : u # v => Mine(u)' \cap Mine(v)' = {}
  BY <1>5, <1>6 DEF FrameInv
<1>9. \A u \in Tasks : \A d \in Mine(u)', g \in Coming' : d < g
  BY <1>3, <1>5, <1>6 DEF FrameInv
<1>10. \A u \in Tasks : hand'[u] # NoFrame => \A d \in ToSet(heard[u]) : d < hand'[u].n
  BY <1>4 DEF FrameInv
<1> QED  BY <1>1, <1>3, <1>7, <1>8, <1>9, <1>10 DEF FrameInv, NoFrame

LEMMA NextFrames ==
  ASSUME TypeOK, FrameInv, [Next]_vars
  PROVE  FrameInv'
<1>1. cancels \in Nat /\ cancels <= cancels /\ cancels + 1 \in Nat /\ cancels <= cancels + 1
  BY FramePlaces
<1>2. ASSUME UNCHANGED <<readVars, cancels>> PROVE FrameInv'
  BY <1>1, <1>2, FramesStay DEF readVars
<1>3. ASSUME NEW kind \in FrameKinds, PeerSends(kind) PROVE FrameInv'
  BY <1>3, PeerSendsFrames
<1>4. CASE StrayEnds
  BY <1>4, StrayEndsFrames
<1>5. ASSUME NEW t \in Tasks, RecvTakes(t) \/ RecvReturns(t) \/ CancelRead(t) PROVE FrameInv'
  BY <1>5, RecvTakesFrames, RecvReturnsFrames, CancelReadFrames
<1>6. ASSUME NEW t \in Tasks, ReadBegins(t) \/ RecvEnds(t) PROVE FrameInv'
  BY <1>1, <1>6, FramesStay DEF ReadBegins, RecvEnds
<1>7. ASSUME NEW t \in Tasks, CancelWrite(t) \/ CancelFree(t) PROVE FrameInv'
  BY <1>1, <1>7, FramesStay DEF CancelWrite, CancelFree, readVars
<1>8. ASSUME NEW t \in Tasks,
             \/ BodyEnds(t) \/ FreeNow(t) \/ FreeTakes(t) \/ FreeCalls(t) \/ FreeReturns(t)
             \/ WriteReturns(t) \/ SessionGoesOn(t)
      PROVE  FrameInv'
  BY <1>2, <1>8 DEF BodyEnds, FreeNow, FreeTakes, FreeCalls, FreeReturns, WriteReturns, SessionGoesOn
<1>9. ASSUME NEW t \in Tasks, NEW kind \in WriteKinds, Write(t, kind) PROVE FrameInv'
  BY <1>2, <1>9 DEF Write
<1>10. ASSUME NEW w \in running, WriteRuns(w) PROVE FrameInv'
  BY <1>2, <1>10 DEF WriteRuns
<1>11. CASE Breaks \/ UNCHANGED vars
  BY <1>2, <1>11 DEF Breaks, vars
<1> QED
  BY <1>3, <1>4, <1>5, <1>6, <1>7, <1>8, <1>9, <1>10, <1>11 DEF Next, LoopStep

-----------------------------------------------------------------------------
(* What holds of every session.                                            *)

LEMMA InitHolds == Init => IInv
<1> SUFFICES ASSUME Init PROVE IInv
  OBVIOUS
<1>1. Len(<<>>) = 0 /\ DOMAIN <<>> = {} /\ \A S : <<>> \in Seq(S)
  BY EmptySeq, LenProperties
<1>2. TypeOK
  <2>1. WriteTypes(writes, running, result, written)
    BY <1>1 DEF Init, WriteTypes, Results
  <2>2. FrameTypes
    BY <1>1, StreamsAssumption DEF Init, FrameTypes
  <2>3. TaskTypes
    BY StreamsAssumption DEF Init, TaskTypes, Places
  <2> QED  BY <2>1, <2>2, <2>3, TypeParts
<1>3. FreeInv
  BY DEF Init, FreeInv
<1>4. WriteInv
  BY <1>1 DEF Init, WriteInv, WritesAgree, IsInjective
<1>5. FrameInv
  <2>1. Coming = {} /\ DOMAIN Numbers(incoming) = {}
    BY <1>1 DEF Init, Coming, Numbers, ToSet
  <2>2. \A t \in Tasks : Mine(t) = {}
    BY <1>1 DEF Init, Mine, ToSet
  <2>3. Accounted = {}
    BY <2>1, <2>2, AccountedSplit
  <2>4. Cardinality(Accounted) = 0
    BY <2>3, FS_EmptySet
  <2>5. sent - Cardinality(Accounted) + strays <= cancels
    BY <2>4 DEF Init
  <2> QED  BY <1>1, <2>1, <2>2, <2>5 DEF Init, FrameInv, Increasing
<1> QED  BY <1>2, <1>3, <1>4, <1>5 DEF IInv

LEMMA NextHolds == IInv /\ [Next]_vars => IInv'
<1> SUFFICES ASSUME IInv, [Next]_vars PROVE IInv'
  OBVIOUS
<1>1. TypeOK /\ FreeInv /\ WriteInv /\ FrameInv
  BY DEF IInv
<1>2. WriteTypes(writes, running, result, written)' /\ WriteInv'
  BY <1>1, NextWrites DEF WritesFine, WriteInv
<1>3. TypeOK'
  BY <1>1, <1>2, NextFrameTypes, NextTaskTypes, TypePartsLater
<1> QED  BY <1>1, <1>2, <1>3, NextFree, NextFrames DEF IInv

\* The handle, the writes and the frames of a session go together as IInv says.
THEOREM Inductive == Spec => []IInv
BY InitHolds, NextHolds, PTL DEF Spec

\* Every variable has its type, and what a task has of a write, a receive and a
\* free goes with where it is.
THEOREM TypeCorrect == Spec => []TypeOK
<1>1. IInv => TypeOK
  BY DEF IInv
<1> QED  BY Inductive, <1>1, PTL

\* A write that returned is written, one that raised is not, and a task's writes
\* reach the peer in its order but for those it gave up (send, close_send, abort
\* and close of stream.py, on the threads of run_native).
THEOREM WritesAsTold == Spec => []WritesLandInOrder
<1>1. IInv => WritesLandInOrder
  BY DEF IInv, WriteInv, WritesAgree, WritesLandInOrder
<1> QED  BY Inductive, <1>1, PTL

\* Tasks that read one stream are given its frames in order and no frame twice,
\* and one is lost at most for every receive that was cancelled (recv has no
\* discard).
THEOREM FramesHeardOnce == Spec => []FramesReadOnce
<1>1. ASSUME IInv PROVE FramesReadOnce
  <2>1. \A t \in Tasks : \A i, j \in DOMAIN heard[t] : i < j => heard[t][i] < heard[t][j]
    BY <1>1 DEF IInv, FrameInv, Increasing
  <2>2. \A t, u \in Tasks : t # u => ToSet(heard[t]) \cap ToSet(heard[u]) = {}
    BY <1>1 DEF IInv, FrameInv, Mine
  <2> QED  BY <1>1, <2>1, <2>2 DEF IInv, FrameInv, FramesReadOnce
<1> QED  BY Inductive, <1>1, PTL

\* Whatever tasks call free(), and however the owner leaves, the native stream
\* is freed once at most, and never while a method can find its handle.
THEOREM FreedAtMostOnce == Spec => []FreedOnce
<1>1. ASSUME IInv PROVE FreedOnce
  BY <1>1 DEF IInv, FreeInv, FreedOnce
<1> QED  BY Inductive, <1>1, PTL
=============================================================================
