----------------------------- MODULE QueueFacts -----------------------------
(***************************************************************************)
(* What the proofs need of queues: of the sequences the modules take from  *)
(* at the head and add to at the end.                                      *)
(***************************************************************************)
EXTENDS Naturals, SequencesExt, SequenceTheorems, FiniteSetTheorems, TLAPS

\* In q an x is ahead of every y.
Ahead(q, x, y) == \E p \in DOMAIN q :
                    q[p] = x /\ \A r \in DOMAIN q : q[r] = y => p < r

\* Taking from the head: the head is gone from a queue without repetitions.
LEMMA TailFacts ==
  ASSUME NEW S, NEW q \in Seq(S), q # <<>>
  PROVE  /\ Tail(q) \in Seq(S)
         /\ Head(q) \in ToSet(q)
         /\ ToSet(q) = {Head(q)} \cup ToSet(Tail(q))
         /\ IsInjective(q) => IsInjective(Tail(q)) /\ Head(q) \notin ToSet(Tail(q))
<1>1. /\ Len(q) \in Nat \ {0} /\ DOMAIN q = 1..Len(q)
      /\ Tail(q) \in Seq(S) /\ Len(Tail(q)) = Len(q) - 1
      /\ DOMAIN Tail(q) = 1..Len(q) - 1
      /\ \A i \in 1..Len(q) - 1 : Tail(q)[i] = q[i + 1]
      /\ Head(q) = q[1]
  BY HeadTailProperties, LenProperties, EmptySeq
<1>2. ToSet(q) = {Head(q)} \cup ToSet(Tail(q))
  <2>1. ASSUME NEW i \in 1..Len(q) PROVE q[i] \in {Head(q)} \cup ToSet(Tail(q))
    <3>1. CASE i = 1
      BY <1>1, <3>1
    <3>2. CASE i # 1
      <4>1. i - 1 \in DOMAIN Tail(q) /\ Tail(q)[i - 1] = q[i]
        BY <1>1, <3>2
      <4> QED  BY <4>1 DEF ToSet
    <3> QED  BY <3>1, <3>2
  <2>2. ASSUME NEW i \in 1..Len(q) - 1 PROVE Tail(q)[i] \in ToSet(q)
    <3>1. i + 1 \in DOMAIN q /\ Tail(q)[i] = q[i + 1]
      BY <1>1
    <3> QED  BY <3>1 DEF ToSet
  <2>3. Head(q) \in ToSet(q)
    BY <1>1 DEF ToSet
  <2>4. ToSet(q) \subseteq {Head(q)} \cup ToSet(Tail(q))
    BY <1>1, <2>1 DEF ToSet
  <2>5. ToSet(Tail(q)) \subseteq ToSet(q)
    BY <1>1, <2>2 DEF ToSet
  <2> QED  BY <2>3, <2>4, <2>5
<1>3. ASSUME IsInjective(q) PROVE IsInjective(Tail(q)) /\ Head(q) \notin ToSet(Tail(q))
  <2>1. \A i, j \in 1..Len(q) : q[i] = q[j] => i = j
    BY <1>1, <1>3 DEF IsInjective
  <2>2. ASSUME NEW i \in 1..Len(q) - 1, NEW j \in 1..Len(q) - 1, Tail(q)[i] = Tail(q)[j]
        PROVE  i = j
    <3>1. i + 1 \in 1..Len(q) /\ j + 1 \in 1..Len(q) /\ q[i + 1] = q[j + 1]
      BY <1>1, <2>2
    <3> QED  BY <2>1, <3>1
  <2>3. ASSUME NEW i \in 1..Len(q) - 1, Tail(q)[i] = Head(q) PROVE FALSE
    <3>1. i + 1 \in 1..Len(q) /\ 1 \in 1..Len(q) /\ q[i + 1] = q[1] /\ i + 1 # 1
      BY <1>1, <2>3
    <3> QED  BY <2>1, <3>1
  <2>4. IsInjective(Tail(q))
    BY <1>1, <2>2 DEF IsInjective
  <2>5. Head(q) \notin ToSet(Tail(q))
    BY <1>1, <2>3 DEF ToSet
  <2> QED  BY <2>4, <2>5
<1> QED  BY <1>1, <1>2, <1>3

\* Adding at the end.
LEMMA ConcatFacts ==
  ASSUME NEW S, NEW q \in Seq(S), NEW r \in Seq(S)
  PROVE  /\ q \o r \in Seq(S)
         /\ ToSet(q \o r) = ToSet(q) \cup ToSet(r)
         /\ IsInjective(q) /\ IsInjective(r) /\ ToSet(q) \cap ToSet(r) = {} =>
              IsInjective(q \o r)
<1>1. /\ Len(q) \in Nat /\ Len(r) \in Nat /\ DOMAIN q = 1..Len(q) /\ DOMAIN r = 1..Len(r)
      /\ q \o r \in Seq(S) /\ Len(q \o r) = Len(q) + Len(r)
      /\ DOMAIN (q \o r) = 1..Len(q) + Len(r)
      /\ \A i \in 1..Len(q) + Len(r) :
           (q \o r)[i] = IF i <= Len(q) THEN q[i] ELSE r[i - Len(q)]
  BY ConcatProperties, LenProperties
<1>2. \A i \in 1..Len(q) : i \in DOMAIN (q \o r) /\ (q \o r)[i] = q[i]
  BY <1>1
<1>3. \A i \in 1..Len(r) : Len(q) + i \in DOMAIN (q \o r) /\ (q \o r)[Len(q) + i] = r[i]
  BY <1>1
<1>4. \A i \in DOMAIN (q \o r) : \/ i \in 1..Len(q) /\ (q \o r)[i] = q[i]
                                 \/ i - Len(q) \in 1..Len(r) /\ (q \o r)[i] = r[i - Len(q)]
  BY <1>1
<1>5. ToSet(q \o r) = ToSet(q) \cup ToSet(r)
  <2>1. ToSet(q) \subseteq ToSet(q \o r)
    BY <1>1, <1>2 DEF ToSet
  <2>2. ToSet(r) \subseteq ToSet(q \o r)
    <3>1. ASSUME NEW i \in 1..Len(r) PROVE r[i] \in ToSet(q \o r)
      <4>1. Len(q) + i \in DOMAIN (q \o r) /\ (q \o r)[Len(q) + i] = r[i]
        BY <1>3
      <4> QED  BY <4>1 DEF ToSet
    <3> QED  BY <1>1, <3>1 DEF ToSet
  <2>3. ToSet(q \o r) \subseteq ToSet(q) \cup ToSet(r)
    BY <1>1, <1>4 DEF ToSet
  <2> QED  BY <2>1, <2>2, <2>3
<1>6. ASSUME IsInjective(q), IsInjective(r), ToSet(q) \cap ToSet(r) = {}
      PROVE  IsInjective(q \o r)
  <2> SUFFICES ASSUME NEW i \in DOMAIN (q \o r), NEW j \in DOMAIN (q \o r),
                      (q \o r)[i] = (q \o r)[j]
               PROVE  i = j
    BY DEF IsInjective
  <2>1. \A k \in 1..Len(q), l \in 1..Len(r) : q[k] # r[l]
    BY <1>1, <1>6 DEF ToSet
  <2>2. (\A k, l \in 1..Len(q) : q[k] = q[l] => k = l) /\ (\A k, l \in 1..Len(r) : r[k] = r[l] => k = l)
    BY <1>1, <1>6 DEF IsInjective
  <2>3. i \in Int /\ j \in Int /\ Len(q) \in Int
    BY <1>1
  <2>4. CASE i \in 1..Len(q) /\ (q \o r)[i] = q[i]
    BY <1>4, <2>1, <2>2, <2>4
  <2>5. CASE i - Len(q) \in 1..Len(r) /\ (q \o r)[i] = r[i - Len(q)]
    <3>1. j - Len(q) \in 1..Len(r) /\ (q \o r)[j] = r[j - Len(q)]
      BY <1>4, <2>1, <2>5
    <3>2. i - Len(q) = j - Len(q)
      BY <2>2, <2>5, <3>1
    <3> QED  BY <2>3, <3>2
  <2> QED  BY <1>4, <2>4, <2>5
<1> QED  BY <1>1, <1>5, <1>6

LEMMA AppendFacts ==
  ASSUME NEW S, NEW q \in Seq(S), NEW x \in S
  PROVE  /\ Append(q, x) \in Seq(S)
         /\ ToSet(Append(q, x)) = ToSet(q) \cup {x}
         /\ IsInjective(q) /\ x \notin ToSet(q) => IsInjective(Append(q, x))
<1>1. Append(q, x) = q \o <<x>>
  BY AppendIsConcat
<1>2. <<x>> \in Seq(S) /\ ToSet(<<x>>) = {x} /\ IsInjective(<<x>>)
  BY DEF ToSet, IsInjective
<1>3. x \notin ToSet(q) => ToSet(q) \cap ToSet(<<x>>) = {}
  BY <1>2
<1>4. /\ q \o <<x>> \in Seq(S)
      /\ ToSet(q \o <<x>>) = ToSet(q) \cup ToSet(<<x>>)
      /\ IsInjective(q) /\ IsInjective(<<x>>) /\ ToSet(q) \cap ToSet(<<x>>) = {} =>
           IsInjective(q \o <<x>>)
  BY <1>2, ConcatFacts
<1> QED  BY <1>1, <1>2, <1>3, <1>4

LEMMA ToSetFacts ==
  ASSUME NEW S, NEW q \in Seq(S)
  PROVE  ToSet(q) \subseteq S /\ IsFiniteSet(ToSet(q))
<1>1. Len(q) \in Nat /\ DOMAIN q = 1..Len(q) /\ \A i \in 1..Len(q) : q[i] \in S
  BY LenProperties, ElementOfSeq
<1>2. q \in Surjection(1..Len(q), ToSet(q)) /\ IsFiniteSet(1..Len(q))
  <2>1. IsFiniteSet(1..Len(q))
    BY <1>1, FS_Interval, 1 \in Int, Len(q) \in Int
  <2>2. q = [i \in 1..Len(q) |-> q[i]]
    BY <1>1
  <2>3. q \in [1..Len(q) -> ToSet(q)] /\ \A x \in ToSet(q) : \E i \in 1..Len(q) : q[i] = x
    BY <1>1, <2>2 DEF ToSet
  <2> QED  BY <2>1, <2>3 DEF Surjection
<1>3. ToSet(q) \subseteq S
  BY <1>1 DEF ToSet
<1> QED  BY <1>2, <1>3, FS_Surjection

LEMMA EmptyFacts == ToSet(<<>>) = {} /\ IsInjective(<<>>) /\ \A S : <<>> \in Seq(S)
BY EmptySeq DEF ToSet, IsInjective

\* A finite set listed as a sequence.
LEMMA SetToSeqFacts ==
  ASSUME NEW S, IsFiniteSet(S)
  PROVE  /\ SetToSeq(S) \in Seq(S) /\ IsInjective(SetToSeq(S)) /\ ToSet(SetToSeq(S)) \subseteq S
         /\ \A f \in SetToSeqs(S) : f \in Seq(S) /\ IsInjective(f) /\ ToSet(f) \subseteq S
<1> DEFINE n == Cardinality(S)
<1>1. n \in Nat /\ ExistsBijection(1..n, S)
  BY FS_CardinalityType
<1>2. \E f \in [1..n -> S] : IsInjective(f)
  BY <1>1 DEF ExistsBijection, Bijection, Injection, Surjection, IsInjective
<1>3. SetToSeq(S) \in [1..n -> S] /\ IsInjective(SetToSeq(S))
  BY <1>2 DEF SetToSeq
<1>4. \A f \in SetToSeqs(S) : f \in [1..n -> S] /\ IsInjective(f)
  BY DEF SetToSeqs, IsInjective
<1>5. \A f \in [1..n -> S] : f \in Seq(S) /\ ToSet(f) \subseteq S
  BY <1>1 DEF ToSet
<1> QED  BY <1>3, <1>4, <1>5

\* What is ahead stays ahead until it is taken, whatever is added at the end.
LEMMA AheadFacts ==
  ASSUME NEW S, NEW q \in Seq(S), NEW x, NEW y
  PROVE  /\ Ahead(q, x, y) => x \in ToSet(q)
         /\ Ahead(q, x, y) /\ q # <<>> => Head(q) # y
         /\ Ahead(q, x, y) /\ q # <<>> /\ Head(q) # x => Ahead(Tail(q), x, y)
         /\ \A r \in Seq(S) : Ahead(q, x, y) => Ahead(q \o r, x, y)
         /\ \A r \in Seq(S) : y \notin ToSet(q) /\ x \in ToSet(q) => Ahead(q \o r, x, y)
         /\ x \in S /\ y # x /\ y \notin ToSet(q) => Ahead(Append(q, x), x, y)
<1>1. Len(q) \in Nat /\ DOMAIN q = 1..Len(q)
  BY LenProperties
<1>2. Ahead(q, x, y) => x \in ToSet(q)
  BY DEF Ahead, ToSet
<1>3. ASSUME Ahead(q, x, y), q # <<>> PROVE Head(q) # y
  <2>1. 1 \in DOMAIN q /\ Head(q) = q[1]
    BY <1>1, <1>3, EmptySeq
  <2> QED  BY <1>1, <1>3, <2>1 DEF Ahead
<1>4. ASSUME Ahead(q, x, y), q # <<>>, Head(q) # x PROVE Ahead(Tail(q), x, y)
  <2>1. /\ Tail(q) \in Seq(S) /\ Len(Tail(q)) = Len(q) - 1 /\ DOMAIN Tail(q) = 1..Len(q) - 1
        /\ \A i \in 1..Len(q) - 1 : Tail(q)[i] = q[i + 1]
        /\ Head(q) = q[1]
    BY <1>1, <1>4, HeadTailProperties, LenProperties
  <2>2. PICK p \in 1..Len(q) : q[p] = x /\ \A r \in 1..Len(q) : q[r] = y => p < r
    BY <1>1, <1>4 DEF Ahead
  <2>3. p # 1 /\ p - 1 \in DOMAIN Tail(q) /\ Tail(q)[p - 1] = x
    BY <1>1, <1>4, <2>1, <2>2
  <2>4. ASSUME NEW r \in DOMAIN Tail(q), Tail(q)[r] = y PROVE p - 1 < r
    <3>1. r + 1 \in 1..Len(q) /\ q[r + 1] = y
      BY <1>1, <2>1, <2>4
    <3>2. p < r + 1
      BY <2>2, <3>1
    <3> QED  BY <2>1, <3>2, <1>1
  <2> QED  BY <2>3, <2>4 DEF Ahead
<1>5. ASSUME NEW r \in Seq(S)
      PROVE  /\ Ahead(q, x, y) => Ahead(q \o r, x, y)
             /\ y \notin ToSet(q) /\ x \in ToSet(q) => Ahead(q \o r, x, y)
  <2>1. /\ Len(r) \in Nat /\ DOMAIN (q \o r) = 1..Len(q) + Len(r)
        /\ \A i \in 1..Len(q) + Len(r) :
             (q \o r)[i] = IF i <= Len(q) THEN q[i] ELSE r[i - Len(q)]
    BY <1>1, ConcatProperties, LenProperties
  <2>2. ASSUME NEW p \in 1..Len(q), q[p] = x, \A k \in 1..Len(q) : q[k] = y => p < k
        PROVE  Ahead(q \o r, x, y)
    <3>1. p \in DOMAIN (q \o r) /\ (q \o r)[p] = x
      BY <1>1, <2>1, <2>2
    <3>2. \A k \in DOMAIN (q \o r) : (q \o r)[k] = y => p < k
      BY <1>1, <2>1, <2>2
    <3> QED  BY <3>1, <3>2 DEF Ahead
  <2>3. Ahead(q, x, y) => Ahead(q \o r, x, y)
    BY <1>1, <2>2 DEF Ahead
  <2>4. y \notin ToSet(q) /\ x \in ToSet(q) => Ahead(q \o r, x, y)
    BY <1>1, <2>2 DEF ToSet
  <2> QED  BY <2>3, <2>4
<1>6. ASSUME x \in S, y # x, y \notin ToSet(q) PROVE Ahead(Append(q, x), x, y)
  <2>1. /\ DOMAIN Append(q, x) = 1..Len(q) + 1
        /\ Append(q, x)[Len(q) + 1] = x
        /\ \A i \in 1..Len(q) : Append(q, x)[i] = q[i]
    BY <1>1, <1>6, AppendProperties, LenProperties
  <2>2. \A r \in DOMAIN Append(q, x) : Append(q, x)[r] # y
    BY <1>1, <1>6, <2>1 DEF ToSet
  <2> QED  BY <1>1, <2>1, <2>2 DEF Ahead
<1> QED  BY <1>2, <1>3, <1>4, <1>5, <1>6

\* A sequence of numbers that only grow.
Increasing(q) == \A i, j \in DOMAIN q : i < j => q[i] < q[j]

LEMMA IncreasingTail ==
  ASSUME NEW q \in Seq(Nat), q # <<>>, Increasing(q)
  PROVE  /\ Increasing(Tail(q))
         /\ \A e \in ToSet(Tail(q)) : Head(q) < e
         /\ ToSet(q) = {Head(q)} \cup ToSet(Tail(q)) /\ Head(q) \notin ToSet(Tail(q))
<1>1. /\ Len(q) \in Nat \ {0} /\ DOMAIN q = 1..Len(q)
      /\ DOMAIN Tail(q) = 1..Len(q) - 1
      /\ \A i \in 1..Len(q) - 1 : Tail(q)[i] = q[i + 1]
      /\ Head(q) = q[1] /\ q[1] \in Nat
  BY HeadTailProperties, LenProperties, EmptySeq
<1>2. ASSUME NEW i \in 1..Len(q) - 1, NEW j \in 1..Len(q) - 1, i < j PROVE Tail(q)[i] < Tail(q)[j]
  <2>1. i + 1 \in DOMAIN q /\ j + 1 \in DOMAIN q /\ i + 1 < j + 1
    BY <1>1, <1>2
  <2> QED  BY <1>1, <2>1 DEF Increasing
<1>3. ASSUME NEW i \in 1..Len(q) - 1 PROVE q[1] < Tail(q)[i]
  <2>1. 1 \in DOMAIN q /\ i + 1 \in DOMAIN q /\ 1 < i + 1
    BY <1>1
  <2> QED  BY <1>1, <2>1 DEF Increasing
<1>4. \A e \in ToSet(Tail(q)) : Head(q) < e
  BY <1>1, <1>3 DEF ToSet
<1>5. ToSet(q) = {Head(q)} \cup ToSet(Tail(q))
  BY TailFacts
<1> QED  BY <1>1, <1>2, <1>4, <1>5 DEF Increasing

LEMMA IncreasingAppend ==
  ASSUME NEW q \in Seq(Nat), NEW x \in Nat, Increasing(q), \A e \in ToSet(q) : e < x
  PROVE  Increasing(Append(q, x))
<1>1. /\ Len(q) \in Nat /\ DOMAIN q = 1..Len(q)
      /\ DOMAIN Append(q, x) = 1..Len(q) + 1
      /\ Append(q, x)[Len(q) + 1] = x
      /\ \A i \in 1..Len(q) : Append(q, x)[i] = q[i]
  BY AppendProperties, LenProperties
<1>2. \A i \in 1..Len(q) : q[i] < x
  BY <1>1 DEF ToSet
<1> SUFFICES ASSUME NEW i \in 1..Len(q) + 1, NEW j \in 1..Len(q) + 1, i < j
             PROVE  Append(q, x)[i] < Append(q, x)[j]
  BY <1>1 DEF Increasing
<1>3. CASE j = Len(q) + 1
  <2>1. i \in 1..Len(q)
    BY <1>1, <1>3
  <2> QED  BY <1>1, <1>2, <1>3, <2>1
<1>4. CASE j # Len(q) + 1
  <2>1. i \in 1..Len(q) /\ j \in 1..Len(q)
    BY <1>1, <1>4
  <2> QED  BY <1>1, <2>1 DEF Increasing
<1> QED  BY <1>3, <1>4
=============================================================================
