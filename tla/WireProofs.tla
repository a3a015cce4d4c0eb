----------------------------- MODULE WireProofs -----------------------------
(***************************************************************************)
(* Theorems about Wire, for any byte strings, texts and width, and for any *)
(* values that nest to a bounded depth.                                    *)
(*                                                                         *)
(* What holds of every value is proved by induction on its depth, from the *)
(* least-number principle: were there a value it does not hold of, there   *)
(* would be one of least depth, and it holds of all that is inside it.     *)
(***************************************************************************)
EXTENDS Wire, WellFoundedInduction, TLAPS

-----------------------------------------------------------------------------
(* Induction.                                                              *)

\* Every nonempty set of natural numbers has a least element.
LEMMA Least ==
  ASSUME NEW S \in SUBSET Nat, S # {}
  PROVE  \E n \in S : \A m \in S : n <= m
<1> DEFINE R == OpToRel(<, Nat)
<1>1. IsWellFoundedOn(R, Nat)
  BY NatLessThanWellFounded
<1>2. \A m, n \in Nat : m < n => <<m, n>> \in R
  BY DEF OpToRel
<1> HIDE DEF R
<1>3. PICK n \in S : \A m \in S : ~(<<m, n>> \in R)
  BY <1>1, WFMin
<1>4. ASSUME NEW m \in S PROVE n <= m
  <2>1. m \in Nat /\ n \in Nat
    OBVIOUS
  <2>2. ~(m < n)
    BY <1>2, <1>3, <2>1
  <2> QED  BY <2>1, <2>2
<1> QED  BY <1>3, <1>4

\* A set that holds zero, and the next number of each it holds, holds them all.
LEMMA Counting ==
  ASSUME NEW S, 0 \in S, \A n \in Nat : n \in S => n + 1 \in S
  PROVE  \A n \in Nat : n \in S
<1> DEFINE Bad == {n \in Nat : n \notin S}
<1>1. SUFFICES ASSUME Bad # {} PROVE FALSE
  OBVIOUS
<1>2. PICK n \in Bad : \A m \in Bad : n <= m
  BY <1>1, Least
<1>3. n \in Nat /\ n # 0
  BY <1>2
<1>4. n - 1 \in Nat /\ ~(n <= n - 1)
  BY <1>3
<1>5. n - 1 \in S
  BY <1>2, <1>4
<1>6. (n - 1) + 1 \in S
  BY <1>4, <1>5
<1>7. (n - 1) + 1 = n
  BY <1>3
<1> QED  BY <1>2, <1>6, <1>7

\* A set of values that holds a value whenever it holds all that is right
\* inside that value holds every value.
LEMMA Structural ==
  ASSUME NEW V \in SUBSET Values, NEW S,
         \A v \in V : Children(v) \subseteq V,
         \A v \in V : Children(v) \subseteq S => v \in S
  PROVE  V \subseteq S
<1> DEFINE Bad == {v \in V : v \notin S}
           Depths == {Depth[v] : v \in Bad}
<1>1. SUFFICES ASSUME Bad # {} PROVE FALSE
  OBVIOUS
<1>2. Depths \in SUBSET Nat /\ Depths # {}
  BY <1>1, WireAssumption
<1>3. PICK n \in Depths : \A m \in Depths : n <= m
  BY <1>2, Least
<1>4. PICK v \in Bad : n = Depth[v]
  BY <1>3
<1>5. ASSUME NEW c \in Children(v) PROVE c \in S
  <2>1. c \in V /\ Depth[c] < Depth[v] /\ Depth[c] \in Nat /\ Depth[v] \in Nat
    BY WireAssumption
  <2>2. ~(Depth[v] <= Depth[c])
    BY <2>1
  <2> QED  BY <1>3, <1>4, <2>1, <2>2
<1> QED  BY <1>4, <1>5

-----------------------------------------------------------------------------
(* The shapes of values.                                                   *)

\* A dict that may be passed, a list or tuple, and anything else.
DictShape(v) ==
  /\ v.t = "dict" /\ v = Holding("dict", v.items)
  /\ Len(v.items) \in Nat /\ DOMAIN v.items = 1..Len(v.items)
  /\ \A i \in DOMAIN v.items : /\ v.items[i].key \in Texts \cup {NoKey}
                               /\ v.items[i].val \in Payloads
                               /\ v.items[i] = Entry(v.items[i].key, v.items[i].val)
ListShape(v) ==
  /\ v.t \in {"list", "tuple"} /\ v = Holding(v.t, v.items)
  /\ Len(v.items) \in Nat /\ DOMAIN v.items = 1..Len(v.items)
  /\ \A i \in DOMAIN v.items : v.items[i] \in Payloads
AtomShape(v) ==
  \/ v.t \in {"none", "float", "nan", "bool", "other"}
  \/ v.t = "str" /\ v = Str(v.s) /\ v.s \in Texts
  \/ v.t = "int" /\ v = IntOf(v.n) /\ v.n \in Int
  \/ v.t = "bytes" /\ v = Bytes(v.b) /\ v.b \in Blobs

LEMMA PayloadShape ==
  ASSUME NEW v \in Payloads
  PROVE  DictShape(v) \/ ListShape(v) \/ AtomShape(v)
<1>1. v \in Pythons
  BY WireAssumption
<1>2. CASE v \in Shared
  BY <1>2 DEF Shared, AtomShape, Str, IntOf
<1>3. CASE v \in [t : {"bool", "other"}] \cup [t : {"bytes"}, b : Blobs]
  BY <1>3 DEF AtomShape, Bytes
<1>4. CASE v \in [t : {"list", "tuple"}, items : Seq(Payloads)]
  BY <1>4 DEF ListShape, Holding
<1>5. CASE v \in [t : {"dict"}, items : Seq([key : Texts \cup {NoKey}, val : Payloads])]
  <2> DEFINE Es == [key : Texts \cup {NoKey}, val : Payloads]
  <2>1. /\ v.t = "dict" /\ v = [t |-> "dict", items |-> v.items]
        /\ v.items \in Seq(Es)
    BY <1>5
  <2>2. ASSUME NEW e \in Es
        PROVE  /\ e.key \in Texts \cup {NoKey} /\ e.val \in Payloads
               /\ e = [key |-> e.key, val |-> e.val]
    OBVIOUS
  <2> HIDE DEF Es
  <2>3. /\ Len(v.items) \in Nat /\ DOMAIN v.items = 1..Len(v.items)
        /\ \A i \in DOMAIN v.items : v.items[i] \in Es
    BY <2>1
  <2> QED  BY <2>1, <2>2, <2>3 DEF DictShape, Holding, Entry
<1> QED  BY <1>1, <1>2, <1>3, <1>4, <1>5 DEF Pythons

\* The same of the documents.
ObjectShape(j) ==
  /\ j.t = "object" /\ j = Holding("object", j.items)
  /\ Len(j.items) \in Nat /\ DOMAIN j.items = 1..Len(j.items)
  /\ j.items = [i \in DOMAIN j.items |-> j.items[i]]
  /\ \A i \in DOMAIN j.items : /\ j.items[i].key \in Texts
                               /\ j.items[i].val \in Documents
                               /\ j.items[i] = Entry(j.items[i].key, j.items[i].val)
ArrayShape(j) ==
  /\ j.t = "array" /\ j = Holding("array", j.items)
  /\ Len(j.items) \in Nat /\ DOMAIN j.items = 1..Len(j.items)
  /\ j.items = [i \in DOMAIN j.items |-> j.items[i]]
  /\ \A i \in DOMAIN j.items : j.items[i] \in Documents
PlainShape(j) ==
  \/ j.t \in {"none", "float", "nan"}
  \/ j.t = "str" /\ j = Str(j.s) /\ j.s \in Texts
  \/ j.t = "int" /\ j = IntOf(j.n) /\ j.n \in Int

LEMMA DocumentShape ==
  ASSUME NEW j \in Documents
  PROVE  ObjectShape(j) \/ ArrayShape(j) \/ PlainShape(j)
<1>1. j \in Jsons
  BY WireAssumption
<1>2. CASE j \in Shared
  BY <1>2 DEF Shared, PlainShape, Str, IntOf
<1>3. CASE j \in [t : {"array"}, items : Seq(Documents)]
  BY <1>3 DEF ArrayShape, Holding
<1>4. CASE j \in [t : {"object"}, items : Seq([key : Texts, val : Documents])]
  <2> DEFINE Es == [key : Texts, val : Documents]
  <2>1. /\ j.t = "object" /\ j = [t |-> "object", items |-> j.items]
        /\ j.items \in Seq(Es)
    BY <1>4
  <2>2. ASSUME NEW e \in Es
        PROVE  /\ e.key \in Texts /\ e.val \in Documents
               /\ e = [key |-> e.key, val |-> e.val]
    OBVIOUS
  <2> HIDE DEF Es
  <2>3. /\ Len(j.items) \in Nat /\ DOMAIN j.items = 1..Len(j.items)
        /\ \A i \in DOMAIN j.items : j.items[i] \in Es
    BY <2>1
  <2> QED  BY <2>1, <2>2, <2>3 DEF ObjectShape, Holding, Entry
<1> QED  BY <1>1, <1>2, <1>3, <1>4 DEF Jsons

\* What a type says of a value's shape, and what is right inside each.
LEMMA PayloadKinds ==
  ASSUME NEW v \in Payloads
  PROVE  /\ IsMap(v) <=> DictShape(v)
         /\ IsList(v) <=> ListShape(v)
         /\ v.t = "dict" <=> DictShape(v)
         /\ ~IsMap(v) /\ ~IsList(v) => AtomShape(v)
         /\ ~(IsMap(v) /\ IsList(v))
         /\ ~Raised(v)
BY PayloadShape DEF DictShape, ListShape, AtomShape, IsMap, IsList, Raised

LEMMA DocumentKinds ==
  ASSUME NEW j \in Documents
  PROVE  /\ IsMap(j) <=> ObjectShape(j)
         /\ IsList(j) <=> ArrayShape(j)
         /\ ~IsMap(j) /\ ~IsList(j) => PlainShape(j)
         /\ ~(IsMap(j) /\ IsList(j))
         /\ ~Raised(j)
BY DocumentShape DEF ObjectShape, ArrayShape, PlainShape, IsMap, IsList, Raised

LEMMA PayloadChildren ==
  ASSUME NEW v \in Payloads
  PROVE  Children(v) \subseteq Payloads
BY PayloadKinds DEF Children, DictShape, ListShape

LEMMA DocumentChildren ==
  ASSUME NEW j \in Documents
  PROVE  Children(j) \subseteq Documents
<1>1. CASE IsMap(j)
  <2>1. \A i \in DOMAIN j.items : j.items[i].val \in Documents
    BY <1>1, DocumentKinds DEF ObjectShape
  <2> QED  BY <1>1, <2>1 DEF Children
<1>2. CASE ~IsMap(j) /\ IsList(j)
  <2>1. \A i \in DOMAIN j.items : j.items[i] \in Documents
    BY <1>2, DocumentKinds DEF ArrayShape
  <2> QED  BY <1>2, <2>1 DEF Children
<1> QED  BY <1>1, <1>2 DEF Children

\* A part of a map or of a list is right inside it.
LEMMA ChildrenOf ==
  ASSUME NEW v
  PROVE  /\ IsMap(v) => \A i \in DOMAIN v.items : v.items[i].val \in Children(v)
         /\ ~IsMap(v) /\ IsList(v) => \A i \in DOMAIN v.items : v.items[i] \in Children(v)
BY DEF Children

\* Either kind of value, by the least-number principle.
LEMMA PayloadInduction ==
  ASSUME NEW S, \A v \in Payloads : Children(v) \subseteq S => v \in S
  PROVE  Payloads \subseteq S
BY PayloadChildren, Structural DEF Values

LEMMA DocumentInduction ==
  ASSUME NEW S, \A j \in Documents : Children(j) \subseteq S => j \in S
  PROVE  Documents \subseteq S
BY DocumentChildren, Structural DEF Values

-----------------------------------------------------------------------------
(* The recursive functions satisfy the equations that define them: each is *)
(* built up to a depth at a time, since what it is at a value depends only *)
(* on what it is at the values inside.                                     *)

LEMMA ValueChildren ==
  ASSUME NEW v \in Values
  PROVE  Children(v) \subseteq Values
BY PayloadChildren, DocumentChildren DEF Values

\* A value's parts are told from those of its children.
LEMMA PartsAgrees ==
  ASSUME NEW f, NEW g, NEW v \in Values, \A c \in Children(v) : f[c] = g[c]
  PROVE  ({v} \cup UNION {f[d] : d \in Children(v)}) = ({v} \cup UNION {g[d] : d \in Children(v)})
OBVIOUS

LEMMA PartsEquation ==
  ASSUME NEW v \in Values PROVE Parts[v] = ({v} \cup UNION {Parts[d] : d \in Children(v)})
<1> DEFINE Upto(f, n) == f = [w \in Values |-> IF Depth[w] < n THEN ({w} \cup UNION {f[d] : d \in Children(w)}) ELSE w]
           Good == {n \in Nat : \E f : Upto(f, n)}
<1>1. \A w \in Values : w \in Values /\ Depth[w] \in Nat /\ Depth[w] <= MaxDepth
  BY WireAssumption DEF Values
<1>2. \A w \in Values : \A c \in Children(w) : c \in Values /\ Depth[c] < Depth[w]
  BY <1>1, ValueChildren, WireAssumption
<1>3. 0 \in Good
  <2> DEFINE f0 == [w \in Values |-> w]
  <2>1. f0 = [w \in Values |-> IF Depth[w] < 0 THEN ({w} \cup UNION {f0[d] : d \in Children(w)}) ELSE w]
    BY <1>1
  <2>2. Upto(f0, 0)
    BY <2>1
  <2> HIDE DEF Upto, f0
  <2> QED  BY <2>2
<1>4. ASSUME NEW n \in Nat, n \in Good PROVE n + 1 \in Good
  <2>1. PICK f : Upto(f, n)
    BY <1>4
  <2> DEFINE g == [w \in Values |-> IF Depth[w] < n + 1 THEN ({w} \cup UNION {f[d] : d \in Children(w)}) ELSE w]
  <2>2. ASSUME NEW w \in Values, Depth[w] < n + 1 PROVE ({w} \cup UNION {f[d] : d \in Children(w)}) = ({w} \cup UNION {g[d] : d \in Children(w)})
    <3>1. ASSUME NEW c \in Children(w) PROVE f[c] = g[c]
      <4>1. c \in Values /\ Depth[c] < n /\ Depth[c] < n + 1
        BY <1>1, <1>2, <2>2
      <4>2. f[c] = ({c} \cup UNION {f[d] : d \in Children(c)})
        BY <2>1, <4>1
      <4>3. g[c] = ({c} \cup UNION {f[d] : d \in Children(c)})
        BY <4>1
      <4> QED  BY <4>2, <4>3
    <3> HIDE DEF g
    <3> QED  BY <3>1, PartsAgrees
  <2>3. g = [w \in Values |-> IF Depth[w] < n + 1 THEN ({w} \cup UNION {g[d] : d \in Children(w)}) ELSE w]
    <3> DEFINE F(w) == ({w} \cup UNION {f[d] : d \in Children(w)})
               G(w) == ({w} \cup UNION {g[d] : d \in Children(w)})
    <3>1. \A w \in Values : Depth[w] < n + 1 => F(w) = G(w)
      BY <2>2
    <3>2. g = [w \in Values |-> IF Depth[w] < n + 1 THEN F(w) ELSE w]
      OBVIOUS
    <3> HIDE DEF F, G, g
    <3>3. g = [w \in Values |-> IF Depth[w] < n + 1 THEN G(w) ELSE w]
      BY <3>1, <3>2
    <3> QED  BY <3>3 DEF G
  <2>4. Upto(g, n + 1)
    BY <2>3
  <2> HIDE DEF Upto, g
  <2> QED  BY <2>4
<1>5. PICK f : Upto(f, MaxDepth + 1)
  <2>1. MaxDepth + 1 \in Nat
    BY WireAssumption
  <2> HIDE DEF Good
  <2>2. MaxDepth + 1 \in Good
    BY <1>3, <1>4, <2>1, Counting
  <2> HIDE DEF Upto
  <2> QED  BY <2>2 DEF Good
<1>6. f = [w \in Values |-> ({w} \cup UNION {f[d] : d \in Children(w)})]
  <2> DEFINE F(w) == ({w} \cup UNION {f[d] : d \in Children(w)})
  <2>1. f = [w \in Values |-> IF Depth[w] < MaxDepth + 1 THEN F(w) ELSE w]
    BY <1>5
  <2>2. \A w \in Values : Depth[w] < MaxDepth + 1
    BY <1>1, WireAssumption
  <2> HIDE DEF F
  <2>3. f = [w \in Values |-> F(w)]
    BY <2>1, <2>2
  <2> QED  BY <2>3 DEF F
<1>7. Parts = [w \in Values |-> ({w} \cup UNION {Parts[d] : d \in Children(w)})]
  <2>1. Parts = CHOOSE h : h = [w \in Values |-> ({w} \cup UNION {h[d] : d \in Children(w)})]
    BY DEF Parts
  <2> DEFINE B(h, w) == ({w} \cup UNION {h[d] : d \in Children(w)})
  <2>2. Parts = CHOOSE h : h = [w \in Values |-> B(h, w)]
    BY <2>1
  <2>3. f = [w \in Values |-> B(f, w)]
    BY <1>6
  <2> HIDE DEF B
  <2>4. Parts = [w \in Values |-> B(Parts, w)]
    BY <2>2, <2>3, Zenon
  <2> QED  BY <2>4 DEF B
<1> QED  BY <1>7, Zenon

\* What a value is converted to is told from what its children are.
LEMMA ToWireAgrees ==
  ASSUME NEW f, NEW g, NEW v \in Payloads, \A c \in Children(v) : f[c] = g[c]
  PROVE  Converted(f, v) = Converted(g, v)
<1>1. CASE IsMap(v)
  <2>1. [i \in DOMAIN v.items |-> IF v.items[i].key = NoKey THEN Raises("TypeError") ELSE f[v.items[i].val]] = [i \in DOMAIN v.items |-> IF v.items[i].key = NoKey THEN Raises("TypeError") ELSE g[v.items[i].val]]
    BY <1>1, ChildrenOf
  <2> QED  BY <1>1, <2>1, Zenon DEF Converted
<1>2. CASE ~IsMap(v) /\ IsList(v)
  <2>1. [i \in DOMAIN v.items |-> f[v.items[i]]] = [i \in DOMAIN v.items |-> g[v.items[i]]]
    BY <1>2, ChildrenOf
  <2> QED  BY <1>2, <2>1, Zenon DEF Converted
<1>3. CASE ~IsMap(v) /\ ~IsList(v)
  BY <1>3 DEF Converted
<1> QED  BY <1>1, <1>2, <1>3

LEMMA ToWireEquation ==
  ASSUME NEW v \in Payloads PROVE ToWire[v] = Converted(ToWire, v)
<1> DEFINE Upto(f, n) == f = [w \in Payloads |-> IF Depth[w] < n THEN Converted(f, w) ELSE w]
           Good == {n \in Nat : \E f : Upto(f, n)}
<1>1. \A w \in Payloads : w \in Values /\ Depth[w] \in Nat /\ Depth[w] <= MaxDepth
  BY WireAssumption DEF Values
<1>2. \A w \in Payloads : \A c \in Children(w) : c \in Payloads /\ Depth[c] < Depth[w]
  BY <1>1, PayloadChildren, WireAssumption
<1>3. 0 \in Good
  <2> DEFINE f0 == [w \in Payloads |-> w]
  <2>1. f0 = [w \in Payloads |-> IF Depth[w] < 0 THEN Converted(f0, w) ELSE w]
    BY <1>1
  <2>2. Upto(f0, 0)
    BY <2>1
  <2> HIDE DEF Upto, f0
  <2> QED  BY <2>2
<1>4. ASSUME NEW n \in Nat, n \in Good PROVE n + 1 \in Good
  <2>1. PICK f : Upto(f, n)
    BY <1>4
  <2> DEFINE g == [w \in Payloads |-> IF Depth[w] < n + 1 THEN Converted(f, w) ELSE w]
  <2>2. ASSUME NEW w \in Payloads, Depth[w] < n + 1 PROVE Converted(f, w) = Converted(g, w)
    <3>1. ASSUME NEW c \in Children(w) PROVE f[c] = g[c]
      <4>1. c \in Payloads /\ Depth[c] < n /\ Depth[c] < n + 1
        BY <1>1, <1>2, <2>2
      <4>2. f[c] = Converted(f, c)
        BY <2>1, <4>1
      <4>3. g[c] = Converted(f, c)
        BY <4>1
      <4> QED  BY <4>2, <4>3
    <3> HIDE DEF g
    <3> QED  BY <3>1, ToWireAgrees
  <2>3. g = [w \in Payloads |-> IF Depth[w] < n + 1 THEN Converted(g, w) ELSE w]
    <3> DEFINE F(w) == Converted(f, w)
               G(w) == Converted(g, w)
    <3>1. \A w \in Payloads : Depth[w] < n + 1 => F(w) = G(w)
      BY <2>2
    <3>2. g = [w \in Payloads |-> IF Depth[w] < n + 1 THEN F(w) ELSE w]
      OBVIOUS
    <3> HIDE DEF F, G, g
    <3>3. g = [w \in Payloads |-> IF Depth[w] < n + 1 THEN G(w) ELSE w]
      BY <3>1, <3>2
    <3> QED  BY <3>3 DEF G
  <2>4. Upto(g, n + 1)
    BY <2>3
  <2> HIDE DEF Upto, g
  <2> QED  BY <2>4
<1>5. PICK f : Upto(f, MaxDepth + 1)
  <2>1. MaxDepth + 1 \in Nat
    BY WireAssumption
  <2> HIDE DEF Good
  <2>2. MaxDepth + 1 \in Good
    BY <1>3, <1>4, <2>1, Counting
  <2> HIDE DEF Upto
  <2> QED  BY <2>2 DEF Good
<1>6. f = [w \in Payloads |-> Converted(f, w)]
  <2> DEFINE F(w) == Converted(f, w)
  <2>1. f = [w \in Payloads |-> IF Depth[w] < MaxDepth + 1 THEN F(w) ELSE w]
    BY <1>5
  <2>2. \A w \in Payloads : Depth[w] < MaxDepth + 1
    BY <1>1, WireAssumption
  <2> HIDE DEF F
  <2>3. f = [w \in Payloads |-> F(w)]
    BY <2>1, <2>2
  <2> QED  BY <2>3 DEF F
<1>7. ToWire = [w \in Payloads |-> Converted(ToWire, w)]
  <2>1. ToWire = CHOOSE h : h = [w \in Payloads |-> Converted(h, w)]
    BY DEF ToWire
  <2> DEFINE B(h, w) == Converted(h, w)
  <2>2. ToWire = CHOOSE h : h = [w \in Payloads |-> B(h, w)]
    BY <2>1
  <2>3. f = [w \in Payloads |-> B(f, w)]
    BY <1>6
  <2> HIDE DEF B
  <2>4. ToWire = [w \in Payloads |-> B(ToWire, w)]
    BY <2>2, <2>3, Zenon
  <2> QED  BY <2>4 DEF B
<1> QED  BY <1>7, Zenon

\* What a document is read as is told from what its children are.
LEMMA DecodeAgrees ==
  ASSUME NEW f, NEW g, NEW v \in Documents, \A c \in Children(v) : f[c] = g[c]
  PROVE  Loaded(f, v) = Loaded(g, v)
<1>1. CASE IsMap(v)
  <2>1. [i \in DOMAIN v.items |-> f[v.items[i].val]] = [i \in DOMAIN v.items |-> g[v.items[i].val]]
    BY <1>1, ChildrenOf
  <2> QED  BY <1>1, <2>1, Zenon DEF Loaded
<1>2. CASE ~IsMap(v) /\ IsList(v)
  <2>1. [i \in DOMAIN v.items |-> f[v.items[i]]] = [i \in DOMAIN v.items |-> g[v.items[i]]]
    BY <1>2, ChildrenOf
  <2> QED  BY <1>2, <2>1, Zenon DEF Loaded
<1>3. CASE ~IsMap(v) /\ ~IsList(v)
  BY <1>3 DEF Loaded
<1> QED  BY <1>1, <1>2, <1>3

LEMMA DecodeEquation ==
  ASSUME NEW v \in Documents PROVE DecodePayload[v] = Loaded(DecodePayload, v)
<1> DEFINE Upto(f, n) == f = [w \in Documents |-> IF Depth[w] < n THEN Loaded(f, w) ELSE w]
           Good == {n \in Nat : \E f : Upto(f, n)}
<1>1. \A w \in Documents : w \in Values /\ Depth[w] \in Nat /\ Depth[w] <= MaxDepth
  BY WireAssumption DEF Values
<1>2. \A w \in Documents : \A c \in Children(w) : c \in Documents /\ Depth[c] < Depth[w]
  BY <1>1, DocumentChildren, WireAssumption
<1>3. 0 \in Good
  <2> DEFINE f0 == [w \in Documents |-> w]
  <2>1. f0 = [w \in Documents |-> IF Depth[w] < 0 THEN Loaded(f0, w) ELSE w]
    BY <1>1
  <2>2. Upto(f0, 0)
    BY <2>1
  <2> HIDE DEF Upto, f0
  <2> QED  BY <2>2
<1>4. ASSUME NEW n \in Nat, n \in Good PROVE n + 1 \in Good
  <2>1. PICK f : Upto(f, n)
    BY <1>4
  <2> DEFINE g == [w \in Documents |-> IF Depth[w] < n + 1 THEN Loaded(f, w) ELSE w]
  <2>2. ASSUME NEW w \in Documents, Depth[w] < n + 1 PROVE Loaded(f, w) = Loaded(g, w)
    <3>1. ASSUME NEW c \in Children(w) PROVE f[c] = g[c]
      <4>1. c \in Documents /\ Depth[c] < n /\ Depth[c] < n + 1
        BY <1>1, <1>2, <2>2
      <4>2. f[c] = Loaded(f, c)
        BY <2>1, <4>1
      <4>3. g[c] = Loaded(f, c)
        BY <4>1
      <4> QED  BY <4>2, <4>3
    <3> HIDE DEF g
    <3> QED  BY <3>1, DecodeAgrees
  <2>3. g = [w \in Documents |-> IF Depth[w] < n + 1 THEN Loaded(g, w) ELSE w]
    <3> DEFINE F(w) == Loaded(f, w)
               G(w) == Loaded(g, w)
    <3>1. \A w \in Documents : Depth[w] < n + 1 => F(w) = G(w)
      BY <2>2
    <3>2. g = [w \in Documents |-> IF Depth[w] < n + 1 THEN F(w) ELSE w]
      OBVIOUS
    <3> HIDE DEF F, G, g
    <3>3. g = [w \in Documents |-> IF Depth[w] < n + 1 THEN G(w) ELSE w]
      BY <3>1, <3>2
    <3> QED  BY <3>3 DEF G
  <2>4. Upto(g, n + 1)
    BY <2>3
  <2> HIDE DEF Upto, g
  <2> QED  BY <2>4
<1>5. PICK f : Upto(f, MaxDepth + 1)
  <2>1. MaxDepth + 1 \in Nat
    BY WireAssumption
  <2> HIDE DEF Good
  <2>2. MaxDepth + 1 \in Good
    BY <1>3, <1>4, <2>1, Counting
  <2> HIDE DEF Upto
  <2> QED  BY <2>2 DEF Good
<1>6. f = [w \in Documents |-> Loaded(f, w)]
  <2> DEFINE F(w) == Loaded(f, w)
  <2>1. f = [w \in Documents |-> IF Depth[w] < MaxDepth + 1 THEN F(w) ELSE w]
    BY <1>5
  <2>2. \A w \in Documents : Depth[w] < MaxDepth + 1
    BY <1>1, WireAssumption
  <2> HIDE DEF F
  <2>3. f = [w \in Documents |-> F(w)]
    BY <2>1, <2>2
  <2> QED  BY <2>3 DEF F
<1>7. DecodePayload = [w \in Documents |-> Loaded(DecodePayload, w)]
  <2>1. DecodePayload = CHOOSE h : h = [w \in Documents |-> Loaded(h, w)]
    BY DEF DecodePayload
  <2> DEFINE B(h, w) == Loaded(h, w)
  <2>2. DecodePayload = CHOOSE h : h = [w \in Documents |-> B(h, w)]
    BY <2>1
  <2>3. f = [w \in Documents |-> B(f, w)]
    BY <1>6
  <2> HIDE DEF B
  <2>4. DecodePayload = [w \in Documents |-> B(DecodePayload, w)]
    BY <2>2, <2>3, Zenon
  <2> QED  BY <2>4 DEF B
<1> QED  BY <1>7, Zenon

\* How a value is seen is told from how its children are.
LEMMA SeenAgrees ==
  ASSUME NEW f, NEW g, NEW v \in Payloads, \A c \in Children(v) : f[c] = g[c]
  PROVE  SeenAs(f, v) = SeenAs(g, v)
<1>1. CASE IsMap(v)
  <2>1. [i \in DOMAIN v.items |-> Entry(v.items[i].key, f[v.items[i].val])] = [i \in DOMAIN v.items |-> Entry(v.items[i].key, g[v.items[i].val])]
    BY <1>1, ChildrenOf
  <2> QED  BY <1>1, <2>1, Zenon DEF SeenAs
<1>2. CASE ~IsMap(v) /\ IsList(v)
  <2>1. [i \in DOMAIN v.items |-> f[v.items[i]]] = [i \in DOMAIN v.items |-> g[v.items[i]]]
    BY <1>2, ChildrenOf
  <2> QED  BY <1>2, <2>1, Zenon DEF SeenAs
<1>3. CASE ~IsMap(v) /\ ~IsList(v)
  BY <1>3 DEF SeenAs
<1> QED  BY <1>1, <1>2, <1>3

LEMMA SeenEquation ==
  ASSUME NEW v \in Payloads PROVE AsReceived[v] = SeenAs(AsReceived, v)
<1> DEFINE Upto(f, n) == f = [w \in Payloads |-> IF Depth[w] < n THEN SeenAs(f, w) ELSE w]
           Good == {n \in Nat : \E f : Upto(f, n)}
<1>1. \A w \in Payloads : w \in Values /\ Depth[w] \in Nat /\ Depth[w] <= MaxDepth
  BY WireAssumption DEF Values
<1>2. \A w \in Payloads : \A c \in Children(w) : c \in Payloads /\ Depth[c] < Depth[w]
  BY <1>1, PayloadChildren, WireAssumption
<1>3. 0 \in Good
  <2> DEFINE f0 == [w \in Payloads |-> w]
  <2>1. f0 = [w \in Payloads |-> IF Depth[w] < 0 THEN SeenAs(f0, w) ELSE w]
    BY <1>1
  <2>2. Upto(f0, 0)
    BY <2>1
  <2> HIDE DEF Upto, f0
  <2> QED  BY <2>2
<1>4. ASSUME NEW n \in Nat, n \in Good PROVE n + 1 \in Good
  <2>1. PICK f : Upto(f, n)
    BY <1>4
  <2> DEFINE g == [w \in Payloads |-> IF Depth[w] < n + 1 THEN SeenAs(f, w) ELSE w]
  <2>2. ASSUME NEW w \in Payloads, Depth[w] < n + 1 PROVE SeenAs(f, w) = SeenAs(g, w)
    <3>1. ASSUME NEW c \in Children(w) PROVE f[c] = g[c]
      <4>1. c \in Payloads /\ Depth[c] < n /\ Depth[c] < n + 1
        BY <1>1, <1>2, <2>2
      <4>2. f[c] = SeenAs(f, c)
        BY <2>1, <4>1
      <4>3. g[c] = SeenAs(f, c)
        BY <4>1
      <4> QED  BY <4>2, <4>3
    <3> HIDE DEF g
    <3> QED  BY <3>1, SeenAgrees
  <2>3. g = [w \in Payloads |-> IF Depth[w] < n + 1 THEN SeenAs(g, w) ELSE w]
    <3> DEFINE F(w) == SeenAs(f, w)
               G(w) == SeenAs(g, w)
    <3>1. \A w \in Payloads : Depth[w] < n + 1 => F(w) = G(w)
      BY <2>2
    <3>2. g = [w \in Payloads |-> IF Depth[w] < n + 1 THEN F(w) ELSE w]
      OBVIOUS
    <3> HIDE DEF F, G, g
    <3>3. g = [w \in Payloads |-> IF Depth[w] < n + 1 THEN G(w) ELSE w]
      BY <3>1, <3>2
    <3> QED  BY <3>3 DEF G
  <2>4. Upto(g, n + 1)
    BY <2>3
  <2> HIDE DEF Upto, g
  <2> QED  BY <2>4
<1>5. PICK f : Upto(f, MaxDepth + 1)
  <2>1. MaxDepth + 1 \in Nat
    BY WireAssumption
  <2> HIDE DEF Good
  <2>2. MaxDepth + 1 \in Good
    BY <1>3, <1>4, <2>1, Counting
  <2> HIDE DEF Upto
  <2> QED  BY <2>2 DEF Good
<1>6. f = [w \in Payloads |-> SeenAs(f, w)]
  <2> DEFINE F(w) == SeenAs(f, w)
  <2>1. f = [w \in Payloads |-> IF Depth[w] < MaxDepth + 1 THEN F(w) ELSE w]
    BY <1>5
  <2>2. \A w \in Payloads : Depth[w] < MaxDepth + 1
    BY <1>1, WireAssumption
  <2> HIDE DEF F
  <2>3. f = [w \in Payloads |-> F(w)]
    BY <2>1, <2>2
  <2> QED  BY <2>3 DEF F
<1>7. AsReceived = [w \in Payloads |-> SeenAs(AsReceived, w)]
  <2>1. AsReceived = CHOOSE h : h = [w \in Payloads |-> SeenAs(h, w)]
    BY DEF AsReceived
  <2> DEFINE B(h, w) == SeenAs(h, w)
  <2>2. AsReceived = CHOOSE h : h = [w \in Payloads |-> B(h, w)]
    BY <2>1
  <2>3. f = [w \in Payloads |-> B(f, w)]
    BY <1>6
  <2> HIDE DEF B
  <2>4. AsReceived = [w \in Payloads |-> B(AsReceived, w)]
    BY <2>2, <2>3, Zenon
  <2> QED  BY <2>4 DEF B
<1> QED  BY <1>7, Zenon

-----------------------------------------------------------------------------
(* What each function does with one level.                                 *)

\* The outcomes of a sequence fail when one of them does.
LEMMA FirstErrorRaises ==
  ASSUME NEW outs, NEW result, NEW n \in Nat, DOMAIN outs = 1..n,
         \E i \in DOMAIN outs : Raised(outs[i])
  PROVE  Raised(FirstError(outs, result))
<1> DEFINE Bad == {i \in DOMAIN outs : Raised(outs[i])}
           First(i) == Raised(outs[i]) /\ \A j \in 1..(i - 1) : ~Raised(outs[j])
<1>1. Bad \in SUBSET Nat /\ Bad # {}
  OBVIOUS
<1>2. PICK k \in Bad : \A m \in Bad : k <= m
  BY <1>1, Least
<1>3. ASSUME NEW j \in 1..(k - 1) PROVE ~Raised(outs[j])
  <2>1. j \in DOMAIN outs /\ k \in Nat /\ j \in Nat /\ ~(k <= j)
    BY <1>2
  <2> QED  BY <1>2, <2>1
<1>4. k \in DOMAIN outs /\ First(k)
  BY <1>2, <1>3
<1>5. FirstError(outs, result) = outs[CHOOSE i \in DOMAIN outs : First(i)]
  BY DEF FirstError
<1> DEFINE c == CHOOSE i \in DOMAIN outs : First(i)
<1>6. First(c)
  <2> HIDE DEF First
  <2> QED  BY <1>4
<1>7. Raised(outs[c])
  BY <1>6
<1> HIDE DEF c
<1>8. FirstError(outs, result) = outs[c]
  BY <1>5 DEF c
<1> QED  BY <1>7, <1>8

LEMMA FirstErrorResult ==
  ASSUME NEW outs, NEW result, ~\E i \in DOMAIN outs : Raised(outs[i])
  PROVE  FirstError(outs, result) = result
BY DEF FirstError

LEMMA RaisesRaised ==
  ASSUME NEW e PROVE Raised(Raises(e))
BY DEF Raised, Raises

LEMMA HoldingFields ==
  ASSUME NEW ty, NEW items
  PROVE  Holding(ty, items).t = ty /\ Holding(ty, items).items = items
BY DEF Holding

LEMMA EntryFields ==
  ASSUME NEW k, NEW v
  PROVE  Entry(k, v).key = k /\ Entry(k, v).val = v
BY DEF Entry

LEMMA NotRaised ==
  ASSUME NEW ty \in {"object", "array", "dict", "list"}, NEW items
  PROVE  ~Raised(Holding(ty, items))
BY DEF Holding, Raised

\* A dict is refused for a key or for what is in it, and is an object of what
\* that is converted to otherwise; a list or a tuple is an array likewise.
LEMMA DictToWire ==
  ASSUME NEW v \in Payloads, DictShape(v)
  PROVE  /\ Raised(ToWire[v]) <=> \E i \in DOMAIN v.items :
              v.items[i].key = NoKey \/ Raised(ToWire[v.items[i].val])
         /\ ~Raised(ToWire[v]) => ToWire[v] = Holding("object",
              [i \in DOMAIN v.items |-> Entry(v.items[i].key, ToWire[v.items[i].val])])
<1> DEFINE outs == [i \in DOMAIN v.items |-> IF v.items[i].key = NoKey THEN Raises("TypeError")
                                             ELSE ToWire[v.items[i].val]]
           made == Holding("object", [i \in DOMAIN v.items |-> Entry(v.items[i].key, outs[i])])
<1>1. ToWire[v] = FirstError(outs, made)
  BY ToWireEquation, PayloadKinds DEF Converted
<1>2. /\ DOMAIN outs = DOMAIN v.items
      /\ Len(v.items) \in Nat /\ DOMAIN outs = 1..Len(v.items)
  BY DEF DictShape
<1>3. \A i \in DOMAIN v.items : Raised(outs[i]) <=>
        v.items[i].key = NoKey \/ Raised(ToWire[v.items[i].val])
  BY RaisesRaised
<1>4. ~Raised(made)
  BY NotRaised
<1>5. (\A i \in DOMAIN v.items : ~Raised(outs[i])) => made = Holding("object",
        [i \in DOMAIN v.items |-> Entry(v.items[i].key, ToWire[v.items[i].val])])
  <2> SUFFICES ASSUME \A i \in DOMAIN v.items : ~Raised(outs[i])
               PROVE  \A i \in DOMAIN v.items : outs[i] = ToWire[v.items[i].val]
    OBVIOUS
  <2> QED  BY <1>3
<1> HIDE DEF outs, made
<1>6. (\E i \in DOMAIN outs : Raised(outs[i])) => Raised(ToWire[v])
  BY <1>1, <1>2, FirstErrorRaises
<1>7. ~(\E i \in DOMAIN outs : Raised(outs[i])) => ToWire[v] = made
  BY <1>1, FirstErrorResult
<1> QED  BY <1>2, <1>3, <1>4, <1>5, <1>6, <1>7

LEMMA ListToWire ==
  ASSUME NEW v \in Payloads, ListShape(v)
  PROVE  /\ Raised(ToWire[v]) <=> \E i \in DOMAIN v.items : Raised(ToWire[v.items[i]])
         /\ ~Raised(ToWire[v]) =>
              ToWire[v] = Holding("array", [i \in DOMAIN v.items |-> ToWire[v.items[i]]])
<1> DEFINE outs == [i \in DOMAIN v.items |-> ToWire[v.items[i]]]
<1>1. ToWire[v] = FirstError(outs, Holding("array", outs))
  BY ToWireEquation, PayloadKinds DEF Converted
<1>2. /\ \A i \in DOMAIN v.items : outs[i] = ToWire[v.items[i]]
      /\ DOMAIN outs = DOMAIN v.items
      /\ Len(v.items) \in Nat /\ DOMAIN outs = 1..Len(v.items)
  BY DEF ListShape
<1>3. ~Raised(Holding("array", outs))
  BY NotRaised
<1> SUFFICES /\ Raised(ToWire[v]) <=> \E i \in DOMAIN v.items : Raised(ToWire[v.items[i]])
             /\ ~Raised(ToWire[v]) => ToWire[v] = Holding("array", outs)
  OBVIOUS
<1> HIDE DEF outs
<1>4. (\E i \in DOMAIN outs : Raised(outs[i])) => Raised(ToWire[v])
  BY <1>1, <1>2, FirstErrorRaises
<1>5. ~(\E i \in DOMAIN outs : Raised(outs[i])) => ToWire[v] = Holding("array", outs)
  BY <1>1, FirstErrorResult
<1> QED  BY <1>2, <1>3, <1>4, <1>5

\* Anything else is carried as it is, but for bytes and what is refused.
Refused(v) == \/ v.t \in {"bool", "other"}
              \/ v.t = "int" /\ v.n \notin INT_MIN..INT_MAX
              \/ v.t = "dict" /\ \E i \in DOMAIN v.items : v.items[i].key = NoKey

LEMMA AtomConverted ==
  ASSUME NEW v \in Payloads, AtomShape(v), ~IsMap(v), ~IsList(v)
  PROVE  /\ Raised(ToWire[v]) <=> Refused(v)
         /\ ~Raised(ToWire[v]) => ToWire[v] =
              IF v.t = "bytes" THEN Holding("object", <<Entry(Tag, Str(B64(v.b)))>>) ELSE v
<1>1. ToWire[v] = AtomToWire(v)
  BY ToWireEquation DEF Converted
<1>2. CASE v.t \in {"bool", "other"}
  BY <1>1, <1>2 DEF AtomToWire, BoolToWire, Raised, Raises, Refused
<1>3. CASE v.t = "int"
  <2>1. v.n \in Int /\ (InInt64(v.n) <=> v.n \in INT_MIN..INT_MAX)
    BY <1>3, WireAssumption DEF AtomShape, InInt64
  <2>2. ToWire[v] = IF InInt64(v.n) THEN v ELSE Raises("ValueError")
    BY <1>1, <1>3 DEF AtomToWire
  <2> QED  BY <1>3, <2>1, <2>2 DEF Raised, Raises, Refused
<1>4. CASE v.t = "bytes"
  <2>1. ToWire[v] = Holding("object", <<Entry(Tag, Str(B64(v.b)))>>)
    BY <1>1, <1>4 DEF AtomToWire
  <2>2. ~Raised(ToWire[v])
    BY <2>1, NotRaised
  <2> QED  BY <1>4, <2>1, <2>2 DEF Refused
<1>5. CASE v.t \in {"none", "float", "nan", "str"}
  BY <1>1, <1>5 DEF AtomToWire, Raised, Refused
<1> QED  BY <1>2, <1>3, <1>4, <1>5 DEF AtomShape

\* An object is handed to the hook once all it holds is read; a list is read
\* when all it holds is; anything else is itself.
LEMMA ObjectLoaded ==
  ASSUME NEW j \in Documents, ObjectShape(j),
         NEW items, items = [i \in DOMAIN j.items |->
                               Entry(j.items[i].key, DecodePayload[j.items[i].val])]
  PROVE  /\ Raised(DecodePayload[j]) <=>
              \/ \E i \in DOMAIN j.items : Raised(DecodePayload[j.items[i].val])
              \/ Raised(FromWire(items))
         /\ ~Raised(DecodePayload[j]) => DecodePayload[j] = FromWire(items)
<1> DEFINE outs == [i \in DOMAIN j.items |-> DecodePayload[j.items[i].val]]
<1>1. DecodePayload[j] = FirstError(outs, FromWire(items))
  <2>1. items = [i \in DOMAIN j.items |-> Entry(j.items[i].key, outs[i])]
    OBVIOUS
  <2>2. IsMap(j)
    BY DocumentKinds
  <2> QED  BY <2>1, <2>2, DecodeEquation DEF Loaded
<1>2. /\ DOMAIN outs = DOMAIN j.items
      /\ Len(j.items) \in Nat /\ DOMAIN outs = 1..Len(j.items)
      /\ \A i \in DOMAIN j.items : outs[i] = DecodePayload[j.items[i].val]
  BY DEF ObjectShape
<1> HIDE DEF outs
<1>3. (\E i \in DOMAIN outs : Raised(outs[i])) => Raised(DecodePayload[j])
  BY <1>1, <1>2, FirstErrorRaises
<1>4. ~(\E i \in DOMAIN outs : Raised(outs[i])) => DecodePayload[j] = FromWire(items)
  BY <1>1, FirstErrorResult
<1>5. (\E i \in DOMAIN outs : Raised(outs[i])) <=>
        \E i \in DOMAIN j.items : Raised(DecodePayload[j.items[i].val])
  BY <1>2
<1>6. CASE \E i \in DOMAIN outs : Raised(outs[i])
  BY <1>3, <1>5, <1>6
<1>7. CASE ~\E i \in DOMAIN outs : Raised(outs[i])
  BY <1>4, <1>5, <1>7
<1> QED  BY <1>6, <1>7

LEMMA ArrayLoaded ==
  ASSUME NEW j \in Documents, ArrayShape(j)
  PROVE  /\ Raised(DecodePayload[j]) <=> \E i \in DOMAIN j.items : Raised(DecodePayload[j.items[i]])
         /\ ~Raised(DecodePayload[j]) =>
              DecodePayload[j] = Holding("list", [i \in DOMAIN j.items |-> DecodePayload[j.items[i]]])
<1> DEFINE outs == [i \in DOMAIN j.items |-> DecodePayload[j.items[i]]]
<1>1. DecodePayload[j] = FirstError(outs, Holding("list", outs))
  BY DecodeEquation, DocumentKinds DEF Loaded
<1>2. /\ \A i \in DOMAIN j.items : outs[i] = DecodePayload[j.items[i]]
      /\ DOMAIN outs = DOMAIN j.items
      /\ Len(j.items) \in Nat /\ DOMAIN outs = 1..Len(j.items)
  BY DEF ArrayShape
<1>3. ~Raised(Holding("list", outs))
  BY NotRaised
<1> SUFFICES /\ Raised(DecodePayload[j]) <=> \E i \in DOMAIN j.items : Raised(DecodePayload[j.items[i]])
             /\ ~Raised(DecodePayload[j]) => DecodePayload[j] = Holding("list", outs)
  OBVIOUS
<1> HIDE DEF outs
<1>4. (\E i \in DOMAIN outs : Raised(outs[i])) => Raised(DecodePayload[j])
  BY <1>1, <1>2, FirstErrorRaises
<1>5. ~(\E i \in DOMAIN outs : Raised(outs[i])) => DecodePayload[j] = Holding("list", outs)
  BY <1>1, FirstErrorResult
<1> QED  BY <1>2, <1>3, <1>4, <1>5

LEMMA PlainLoaded ==
  ASSUME NEW j \in Documents, ~IsMap(j), ~IsList(j)
  PROVE  DecodePayload[j] = j
BY DecodeEquation DEF Loaded

\* What the hook makes of an object: bytes or a dict, unless it refuses it.
LEMMA FromWireKinds ==
  ASSUME NEW items
  PROVE  /\ ~Tagged(items) => FromWire(items) = Holding("dict", items) /\ ~Raised(FromWire(items))
         /\ Tagged(items) => IF items[1].val.s[1] \in {"base64", "loose"}
                             THEN FromWire(items) = Bytes(items[1].val.s[2])
                             ELSE Raised(FromWire(items))
BY NotRaised, RaisesRaised DEF FromWire

\* A string is only ever read from a string.
LEMMA StringLoaded ==
  ASSUME NEW j \in Documents, DecodePayload[j].t = "str"
  PROVE  DecodePayload[j] = j /\ j = Str(j.s) /\ j.s \in Texts
<1>1. CASE ObjectShape(j)
  <2> DEFINE items == [i \in DOMAIN j.items |->
                         Entry(j.items[i].key, DecodePayload[j.items[i].val])]
  <2>1. ~Raised(DecodePayload[j])
    BY DEF Raised
  <2> HIDE DEF items
  <2>2. DecodePayload[j] = FromWire(items) /\ ~Raised(FromWire(items))
    <3>1. items = [i \in DOMAIN j.items |->
                     Entry(j.items[i].key, DecodePayload[j.items[i].val])]
      BY DEF items
    <3> QED  BY <1>1, <2>1, <3>1, ObjectLoaded
  <2>3. FromWire(items).t \in {"dict", "bytes"}
    BY <2>2, FromWireKinds DEF Holding, Bytes
  <2> QED  BY <2>2, <2>3
<1>2. CASE ArrayShape(j)
  <2>1. ~Raised(DecodePayload[j])
    BY DEF Raised
  <2>2. DecodePayload[j] =
          Holding("list", [i \in DOMAIN j.items |-> DecodePayload[j.items[i]]])
    BY <1>2, <2>1, ArrayLoaded
  <2>3. DecodePayload[j].t = "list"
    BY <2>2, HoldingFields, Zenon
  <2> QED  BY <2>3
<1>3. CASE PlainShape(j)
  <2>1. DecodePayload[j] = j
    BY <1>3, PlainLoaded DEF PlainShape, IsMap, IsList
  <2> QED  BY <1>3, <2>1 DEF PlainShape
<1> QED  BY <1>1, <1>2, <1>3, DocumentShape

\* What is received and what is not, of a payload.
LEMMA Seen ==
  ASSUME NEW v \in Payloads
  PROVE  /\ DictShape(v) => AsReceived[v] = Holding("dict",
              [i \in DOMAIN v.items |-> Entry(v.items[i].key, AsReceived[v.items[i].val])])
         /\ ListShape(v) => AsReceived[v] =
              Holding("list", [i \in DOMAIN v.items |-> AsReceived[v.items[i]]])
         /\ ~IsMap(v) /\ ~IsList(v) => AsReceived[v] = v
BY SeenEquation, PayloadKinds DEF SeenAs

\* The parts of a value are itself and those of what is right inside it.
LEMMA PartsOf ==
  ASSUME NEW v \in Values, NEW p
  PROVE  p \in Parts[v] <=> p = v \/ \E c \in Children(v) : p \in Parts[c]
BY PartsEquation

-----------------------------------------------------------------------------
(* What is refused.                                                        *)

\* A value is not converted exactly when something that is refused is in it.
LEMMA ConvertedExactly ==
  \A v \in Payloads : Raised(ToWire[v]) <=> \E p \in Parts[v] : Refused(p)
<1> DEFINE S == {v \in Payloads : Raised(ToWire[v]) <=> \E p \in Parts[v] : Refused(p)}
<1>1. ASSUME NEW v \in Payloads, Children(v) \subseteq S PROVE v \in S
  <2>1. v \in Values
    BY DEF Values
  <2>2. (\E p \in Parts[v] : Refused(p)) <=>
          Refused(v) \/ \E c \in Children(v) : Raised(ToWire[c])
    BY <1>1, <2>1, PartsOf
  <2>3. CASE DictShape(v)
    <3>1. Refused(v) <=> \E i \in DOMAIN v.items : v.items[i].key = NoKey
      BY <2>3 DEF Refused, DictShape
    <3>2. Children(v) = {v.items[i].val : i \in DOMAIN v.items}
      BY <2>3 DEF DictShape, Children, IsMap
    <3>3. Raised(ToWire[v]) <=> \E i \in DOMAIN v.items :
            v.items[i].key = NoKey \/ Raised(ToWire[v.items[i].val])
      BY <2>3, DictToWire
    <3>4. (\E c \in Children(v) : Raised(ToWire[c])) <=>
            \E i \in DOMAIN v.items : Raised(ToWire[v.items[i].val])
      BY <3>2
    <3> QED  BY <2>2, <3>1, <3>3, <3>4
  <2>4. CASE ListShape(v)
    <3>1. ~Refused(v)
      BY <2>4 DEF Refused, ListShape
    <3>2. Children(v) = {v.items[i] : i \in DOMAIN v.items}
      BY <2>4 DEF ListShape, Children, IsMap, IsList
    <3>3. Raised(ToWire[v]) <=> \E i \in DOMAIN v.items : Raised(ToWire[v.items[i]])
      BY <2>4, ListToWire
    <3>4. (\E c \in Children(v) : Raised(ToWire[c])) <=>
            \E i \in DOMAIN v.items : Raised(ToWire[v.items[i]])
      BY <3>2
    <3> QED  BY <2>2, <3>1, <3>3, <3>4
  <2>5. CASE AtomShape(v)
    <3>1. ~IsMap(v) /\ ~IsList(v) /\ Children(v) = {}
      BY <2>5 DEF AtomShape, IsMap, IsList, Children
    <3> QED  BY <2>2, <2>5, <3>1, AtomConverted
  <2> QED  BY <2>3, <2>4, <2>5, PayloadShape
<1> HIDE DEF S
<1>2. Payloads \subseteq S
  BY <1>1, PayloadInduction
<1> QED  BY <1>2 DEF S

\* What is carried as it is, and what json.dumps or the width forbids.
Marked(mark, p) == \/ mark = "nan" /\ p.t = "nan"
                   \/ mark = "wide" /\ p.t = "int" /\ p.n \notin INT_MIN..INT_MAX
Has(mark, v) == \E p \in Parts[v] : Marked(mark, p)

LEMMA HasOf ==
  ASSUME NEW mark, NEW v \in Values
  PROVE  Has(mark, v) <=> Marked(mark, v) \/ \E c \in Children(v) : Has(mark, c)
BY PartsOf DEF Has

\* What a value is converted to has a mark in it exactly when the value has.
LEMMA MarksCarried ==
  ASSUME NEW mark PROVE
  \A v \in Payloads : ~Raised(ToWire[v]) => (Has(mark, ToWire[v]) <=> Has(mark, v))
<1> DEFINE S == {v \in Payloads : ~Raised(ToWire[v]) => (Has(mark, ToWire[v]) <=> Has(mark, v))}
<1>1. ASSUME NEW v \in Payloads, Children(v) \subseteq S, ~Raised(ToWire[v])
      PROVE  Has(mark, ToWire[v]) <=> Has(mark, v)
  <2>1. v \in Values /\ ToWire[v] \in Values
    BY <1>1, ClosureAssumption DEF Values
  <2>2. CASE DictShape(v)
    <3> DEFINE w == [i \in DOMAIN v.items |-> Entry(v.items[i].key, ToWire[v.items[i].val])]
    <3>1. ToWire[v] = Holding("object", w)
      BY <1>1, <2>2, DictToWire
    <3>2. \A i \in DOMAIN v.items : ~Raised(ToWire[v.items[i].val])
      BY <1>1, <2>2, DictToWire
    <3>3. Children(v) = {v.items[i].val : i \in DOMAIN v.items} /\ ~Marked(mark, v)
      BY <2>2 DEF DictShape, Children, IsMap, Marked
    <3>4. DOMAIN w = DOMAIN v.items /\ \A i \in DOMAIN v.items : w[i].val = ToWire[v.items[i].val]
      BY DEF Entry
    <3> HIDE DEF w
    <3>5. ToWire[v].t = "object" /\ ToWire[v].items = w
      BY <3>1, HoldingFields
    <3>6. Children(ToWire[v]) = {w[i].val : i \in DOMAIN w}
      BY <3>5 DEF Children, IsMap
    <3>7. Has(mark, ToWire[v]) <=> \E i \in DOMAIN v.items : Has(mark, ToWire[v.items[i].val])
      BY <2>1, <3>4, <3>5, <3>6, HasOf DEF Marked
    <3>8. Has(mark, v) <=> \E i \in DOMAIN v.items : Has(mark, v.items[i].val)
      BY <2>1, <3>3, HasOf
    <3>9. \A i \in DOMAIN v.items : Has(mark, ToWire[v.items[i].val]) <=> Has(mark, v.items[i].val)
      BY <1>1, <3>2, <3>3
    <3> QED  BY <3>7, <3>8, <3>9
  <2>3. CASE ListShape(v)
    <3> DEFINE w == [i \in DOMAIN v.items |-> ToWire[v.items[i]]]
    <3>1. ToWire[v] = Holding("array", w)
      BY <1>1, <2>3, ListToWire
    <3>2. \A i \in DOMAIN v.items : ~Raised(ToWire[v.items[i]])
      BY <1>1, <2>3, ListToWire
    <3>3. Children(v) = {v.items[i] : i \in DOMAIN v.items} /\ ~Marked(mark, v)
      BY <2>3 DEF ListShape, Children, IsMap, IsList, Marked
    <3>4. DOMAIN w = DOMAIN v.items /\ \A i \in DOMAIN v.items : w[i] = ToWire[v.items[i]]
      OBVIOUS
    <3> HIDE DEF w
    <3>5. ToWire[v].t = "array" /\ ToWire[v].items = w
      BY <3>1, HoldingFields
    <3>6. Children(ToWire[v]) = {w[i] : i \in DOMAIN w}
      BY <3>5 DEF Children, IsMap, IsList
    <3>7. Has(mark, ToWire[v]) <=> \E i \in DOMAIN v.items : Has(mark, ToWire[v.items[i]])
      BY <2>1, <3>4, <3>5, <3>6, HasOf DEF Marked
    <3>8. Has(mark, v) <=> \E i \in DOMAIN v.items : Has(mark, v.items[i])
      BY <2>1, <3>3, HasOf
    <3>9. \A i \in DOMAIN v.items : Has(mark, ToWire[v.items[i]]) <=> Has(mark, v.items[i])
      BY <1>1, <3>2, <3>3
    <3> QED  BY <3>7, <3>8, <3>9
  <2>4. CASE AtomShape(v) /\ v.t # "bytes"
    <3>1. ~IsMap(v) /\ ~IsList(v)
      BY <2>4 DEF AtomShape, IsMap, IsList
    <3>2. ToWire[v] = v
      BY <1>1, <2>4, <3>1, AtomConverted
    <3> QED  BY <3>2
  <2>5. CASE AtomShape(v) /\ v.t = "bytes"
    <3>1. ~IsMap(v) /\ ~IsList(v) /\ Children(v) = {}
      BY <2>5 DEF IsMap, IsList, Children
    <3>2. ToWire[v] = Holding("object", <<Entry(Tag, Str(B64(v.b)))>>)
      BY <1>1, <2>5, <3>1, AtomConverted
    <3>3. ToWire[v].t = "object" /\ ToWire[v].items = <<Entry(Tag, Str(B64(v.b)))>>
      BY <3>2, HoldingFields
    <3>4. Children(ToWire[v]) = {Str(B64(v.b))}
      BY <3>3 DEF Children, IsMap, Entry
    <3>5. Str(B64(v.b)) \in Values /\ Str(B64(v.b)).t = "str" /\ Children(Str(B64(v.b))) = {}
      BY <2>1, <3>4, ValueChildren DEF Str, Children, IsMap, IsList
    <3>6. ~Has(mark, ToWire[v])
      BY <2>1, <3>3, <3>4, <3>5, HasOf DEF Marked
    <3>7. ~Has(mark, v)
      BY <2>1, <2>5, <3>1, HasOf DEF Marked
    <3> QED  BY <3>6, <3>7
  <2> QED  BY <2>2, <2>3, <2>4, <2>5, PayloadShape
<1> HIDE DEF Has
<1>2. \A v \in Payloads : Children(v) \subseteq S => v \in S
  BY <1>1
<1> HIDE DEF S
<1>3. Payloads \subseteq S
  BY <1>2, PayloadInduction
<1> QED  BY <1>3 DEF S

\* encode_payload refuses a payload exactly when what the wire has no form for
\* is in it.
LEMMA EncodedExactly ==
  ASSUME NEW v \in Payloads
  PROVE  /\ Raised(EncodePayload(v)) <=> \E p \in Parts[v] : Unsendable(p)
         /\ ~Raised(EncodePayload(v)) =>
              EncodePayload(v) = ToWire[v] /\ ~Raised(ToWire[v]) /\ ~Has("nan", ToWire[v])
<1>1. (\E p \in Parts[v] : Unsendable(p)) <=> Has("nan", v) \/ \E p \in Parts[v] : Refused(p)
  BY DEF Unsendable, Refused, Has, Marked
<1>2. CASE Raised(ToWire[v])
  BY <1>1, <1>2, ConvertedExactly DEF EncodePayload
<1>3. CASE ~Raised(ToWire[v])
  <2>1. EncodePayload(v) = IF Has("nan", ToWire[v]) THEN Raises("ValueError") ELSE ToWire[v]
    BY <1>3 DEF EncodePayload, Dumps, Has, Marked
  <2>2. Raised(EncodePayload(v)) <=> Has("nan", ToWire[v])
    BY <1>3, <2>1, RaisesRaised
  <2> QED  BY <1>1, <1>3, <2>1, <2>2, ConvertedExactly, MarksCarried
<1> QED  BY <1>2, <1>3

-----------------------------------------------------------------------------
(* What arrives.                                                           *)

\* The texts that are read as bytes, and as which.
LEMMA TextsDiffer ==
  /\ NoKey \notin Texts
  /\ \A s \in Texts : s[1] \in {"base64", "loose"} => s[2] \in Blobs
  /\ \A s \in Texts : s[1] = "base64" => s = B64(s[2])
  /\ \A b \in Blobs : B64(b)[1] = "base64" /\ B64(b)[2] = b
BY DEF NoKey, Texts, B64, Loose

HasTagged(v) == \E p \in Parts[v] : LooksTagged(p)

LEMMA HasTaggedOf ==
  ASSUME NEW v \in Values
  PROVE  HasTagged(v) <=> LooksTagged(v) \/ \E c \in Children(v) : HasTagged(c)
BY PartsOf DEF HasTagged

\* A value is seen as a string only when it is one.
LEMMA StringSeen ==
  ASSUME NEW v \in Payloads
  PROVE  AsReceived[v].t = "str" <=> v.t = "str"
<1>1. CASE DictShape(v)
  BY <1>1, Seen, HoldingFields DEF DictShape
<1>2. CASE ListShape(v)
  <2> DEFINE seen == [i \in DOMAIN v.items |-> AsReceived[v.items[i]]]
  <2>1. AsReceived[v] = Holding("list", seen)
    BY <1>2, Seen
  <2> HIDE DEF seen
  <2>2. AsReceived[v].t = "list"
    BY <2>1, HoldingFields
  <2> QED  BY <1>2, <2>2 DEF ListShape
<1>3. CASE ~IsMap(v) /\ ~IsList(v)
  BY <1>3, Seen
<1> QED  BY <1>1, <1>2, <1>3, PayloadKinds

\* A payload that can be converted arrives as it was sent when no map in it
\* looks like tagged bytes, and as something else, if at all, when one does.
Arrives(v) ==
  /\ ~HasTagged(v) => ~Raised(DecodePayload[ToWire[v]]) /\ DecodePayload[ToWire[v]] = AsReceived[v]
  /\ HasTagged(v) => \/ Raised(DecodePayload[ToWire[v]])
                     \/ DecodePayload[ToWire[v]] # AsReceived[v]

LEMMA ArrivesExactly ==
  \A v \in Payloads : ~Raised(ToWire[v]) => Arrives(v)
<1> DEFINE S == {v \in Payloads : ~Raised(ToWire[v]) => Arrives(v)}
<1>1. ASSUME NEW v \in Payloads, Children(v) \subseteq S, ~Raised(ToWire[v])
      PROVE  Arrives(v)
  <2> DEFINE j == ToWire[v]
             d == DecodePayload[j]
  <2>1. j \in Documents /\ v \in Values
    BY <1>1, ClosureAssumption DEF Values
  <2>2. CASE DictShape(v)
    <3> DEFINE items == [i \in DOMAIN j.items |->
                           Entry(j.items[i].key, DecodePayload[j.items[i].val])]
    <3>1. j = Holding("object", [i \in DOMAIN v.items |->
                                   Entry(v.items[i].key, ToWire[v.items[i].val])])
          /\ \A i \in DOMAIN v.items : ~Raised(ToWire[v.items[i].val])
      BY <1>1, <2>2, DictToWire
    <3> HIDE DEF j
    <3>2. j.t = "object" /\ j.items = [i \in DOMAIN v.items |->
                                         Entry(v.items[i].key, ToWire[v.items[i].val])]
      BY <3>1, HoldingFields
    <3>3. ObjectShape(j)
      BY <2>1, <3>2, DocumentKinds DEF IsMap
    <3>4. /\ DOMAIN items = DOMAIN v.items
          /\ \A i \in DOMAIN v.items : /\ items[i].key = v.items[i].key
                                       /\ items[i].val = DecodePayload[ToWire[v.items[i].val]]
      <4>1. DOMAIN j.items = DOMAIN v.items
        BY <3>2
      <4>2. \A i \in DOMAIN v.items : j.items[i] = Entry(v.items[i].key, ToWire[v.items[i].val])
        BY <3>2
      <4>3. \A i \in DOMAIN v.items : /\ j.items[i].key = v.items[i].key
                                      /\ j.items[i].val = ToWire[v.items[i].val]
        BY <4>2, EntryFields
      <4>4. \A i \in DOMAIN j.items : /\ items[i].key = j.items[i].key
                                      /\ items[i].val = DecodePayload[j.items[i].val]
        BY DEF Entry
      <4>5. DOMAIN items = DOMAIN j.items
        OBVIOUS
      <4> HIDE DEF items
      <4> QED  BY <4>1, <4>3, <4>4, <4>5
    <3>5. /\ Raised(d) <=> \/ \E i \in DOMAIN v.items : Raised(items[i].val)
                           \/ Raised(FromWire(items))
          /\ ~Raised(d) => d = FromWire(items)
      <4>1. items = [i \in DOMAIN j.items |->
                       Entry(j.items[i].key, DecodePayload[j.items[i].val])]
        OBVIOUS
      <4>2. DOMAIN j.items = DOMAIN v.items
            /\ \A i \in DOMAIN v.items : j.items[i].val = ToWire[v.items[i].val]
        BY <3>2 DEF Entry
      <4> HIDE DEF items
      <4>3. /\ Raised(d) <=> \/ \E i \in DOMAIN j.items : Raised(DecodePayload[j.items[i].val])
                             \/ Raised(FromWire(items))
            /\ ~Raised(d) => d = FromWire(items)
        BY <2>1, <3>3, <4>1, ObjectLoaded
      <4> QED  BY <3>4, <4>2, <4>3
    <3>6. Len(items) = Len(v.items) /\ Len(v.items) \in Nat /\ DOMAIN v.items = 1..Len(v.items)
      BY <2>2, <3>4 DEF DictShape
    <3> HIDE DEF items, d
    <3> DEFINE seen == [i \in DOMAIN v.items |->
                          Entry(v.items[i].key, AsReceived[v.items[i].val])]
    <3>7. /\ \A i \in DOMAIN v.items : v.items[i].val \in Children(v) /\ v.items[i].val \in Payloads
          /\ \A c \in Children(v) : \E i \in DOMAIN v.items : c = v.items[i].val
      BY <2>2 DEF DictShape, Children, IsMap
    <3>8. \A i \in DOMAIN v.items : Arrives(v.items[i].val)
      BY <1>1, <3>1, <3>7
    <3>9. AsReceived[v] = Holding("dict", seen)
      BY <2>2, Seen
    <3>10. HasTagged(v) <=> LooksTagged(v) \/ \E i \in DOMAIN v.items : HasTagged(v.items[i].val)
      BY <2>1, <3>7, HasTaggedOf
    <3>11. CASE ~HasTagged(v)
      <4>1. \A i \in DOMAIN v.items : ~Raised(items[i].val)
                                       /\ items[i].val = AsReceived[v.items[i].val]
        BY <3>4, <3>8, <3>10, <3>11 DEF Arrives
      <4>2. ~Tagged(items)
        <5>1. SUFFICES ASSUME Tagged(items) PROVE FALSE
          OBVIOUS
        <5>2. Len(v.items) = 1 /\ 1 \in DOMAIN v.items /\ items[1].key = Tag /\ items[1].val.t = "str"
          BY <3>6, <5>1 DEF Tagged
        <5>3. v.items[1].key = Tag /\ v.items[1].val.t = "str"
          BY <3>4, <3>7, <4>1, <5>2, StringSeen
        <5>4. LooksTagged(v)
          BY <2>2, <5>2, <5>3 DEF LooksTagged, DictShape
        <5> QED  BY <3>10, <3>11, <5>4
      <4>3. FromWire(items) = Holding("dict", items) /\ ~Raised(FromWire(items))
        BY <4>2, FromWireKinds
      <4>4. ~Raised(d) /\ d = Holding("dict", items)
        BY <3>5, <4>1, <4>3
      <4>5. items = seen
        <5>1. \A i \in DOMAIN v.items : items[i] = seen[i]
          <6>1. items = [i \in DOMAIN j.items |->
                           Entry(j.items[i].key, DecodePayload[j.items[i].val])]
            BY DEF items
          <6>2. \A i \in DOMAIN items : items[i] = Entry(items[i].key, items[i].val)
            BY <6>1 DEF Entry
          <6> QED  BY <3>4, <4>1, <6>2
        <5>2. items = [i \in DOMAIN v.items |-> items[i]]
          BY <3>4 DEF items
        <5> QED  BY <5>1, <5>2
      <4> QED  BY <3>9, <3>11, <4>4, <4>5 DEF Arrives, d, j
    <3>12. CASE HasTagged(v)
      <4>1. SUFFICES ASSUME ~Raised(d), d = AsReceived[v] PROVE FALSE
        BY <3>12 DEF Arrives, d, j
      <4>2. d = FromWire(items) /\ ~Raised(FromWire(items))
            /\ \A i \in DOMAIN v.items : ~Raised(items[i].val)
        BY <3>5, <4>1
      <4>3. d.t = "dict" /\ d.items = seen
        BY <3>9, <4>1, HoldingFields
      <4>4. ~Tagged(items)
        BY <4>2, <4>3, FromWireKinds DEF Bytes
      <4>5. items = seen
        BY <4>2, <4>3, <4>4, FromWireKinds, HoldingFields
      <4>6. \A i \in DOMAIN v.items : items[i].val = AsReceived[v.items[i].val]
        BY <4>5 DEF Entry
      <4>7. \A i \in DOMAIN v.items : ~HasTagged(v.items[i].val)
        BY <3>4, <3>8, <4>2, <4>6 DEF Arrives
      <4>8. LooksTagged(v)
        BY <3>10, <3>12, <4>7
      <4>9. Len(items) = 1 /\ 1 \in DOMAIN v.items
        BY <3>6, <4>8 DEF LooksTagged
      <4>10. items[1].key = Tag /\ items[1].val.t = "str"
        BY <3>4, <3>7, <4>6, <4>8, <4>9, StringSeen DEF LooksTagged
      <4> QED  BY <4>4, <4>9, <4>10 DEF Tagged
    <3> QED  BY <3>11, <3>12
  <2>3. CASE ListShape(v)
    <3> DEFINE outs == [i \in DOMAIN j.items |-> DecodePayload[j.items[i]]]
    <3>1. j = Holding("array", [i \in DOMAIN v.items |-> ToWire[v.items[i]]])
          /\ \A i \in DOMAIN v.items : ~Raised(ToWire[v.items[i]])
      BY <1>1, <2>3, ListToWire
    <3> HIDE DEF j
    <3>2. j.t = "array" /\ j.items = [i \in DOMAIN v.items |-> ToWire[v.items[i]]]
      BY <3>1, HoldingFields
    <3>3. ArrayShape(j)
      BY <2>1, <3>2, DocumentKinds DEF IsList
    <3>4. outs = [i \in DOMAIN v.items |-> DecodePayload[ToWire[v.items[i]]]]
      BY <3>2
    <3>5. /\ Raised(d) <=> \E i \in DOMAIN v.items : Raised(outs[i])
          /\ ~Raised(d) => d = Holding("list", outs)
      BY <2>1, <3>2, <3>3, ArrayLoaded
    <3> HIDE DEF outs, d
    <3> DEFINE seen == [i \in DOMAIN v.items |-> AsReceived[v.items[i]]]
    <3>6. /\ \A i \in DOMAIN v.items : v.items[i] \in Children(v) /\ v.items[i] \in Payloads
          /\ \A c \in Children(v) : \E i \in DOMAIN v.items : c = v.items[i]
      BY <2>3 DEF ListShape, Children, IsMap, IsList
    <3>7. \A i \in DOMAIN v.items : Arrives(v.items[i])
      BY <1>1, <3>1, <3>6
    <3>8. AsReceived[v] = Holding("list", seen)
      BY <2>3, Seen
    <3>9. HasTagged(v) <=> \E i \in DOMAIN v.items : HasTagged(v.items[i])
      BY <2>1, <2>3, <3>6, HasTaggedOf DEF LooksTagged, ListShape
    <3>10. \A i \in DOMAIN v.items : outs[i] = DecodePayload[ToWire[v.items[i]]]
      BY <3>4
    <3>11. CASE ~HasTagged(v)
      <4>1. \A i \in DOMAIN v.items : ~Raised(outs[i]) /\ outs[i] = AsReceived[v.items[i]]
        BY <3>7, <3>9, <3>10, <3>11 DEF Arrives
      <4>2. outs = seen
        BY <3>4, <3>10, <4>1
      <4>3. ~Raised(d) /\ d = Holding("list", outs)
        BY <3>5, <4>1
      <4> QED  BY <3>8, <3>11, <4>2, <4>3 DEF Arrives, d, j
    <3>12. CASE HasTagged(v)
      <4>1. SUFFICES ASSUME ~Raised(d), d = AsReceived[v] PROVE FALSE
        BY <3>12 DEF Arrives, d, j
      <4>2. d.items = outs /\ d.items = seen /\ \A i \in DOMAIN v.items : ~Raised(outs[i])
        BY <3>5, <3>8, <4>1, HoldingFields
      <4>3. \A i \in DOMAIN v.items : outs[i] = AsReceived[v.items[i]]
        BY <4>2
      <4> QED  BY <3>7, <3>9, <3>10, <3>12, <4>2, <4>3 DEF Arrives
    <3> QED  BY <3>11, <3>12
  <2>4. CASE AtomShape(v)
    <3>1. ~IsMap(v) /\ ~IsList(v) /\ Children(v) = {} /\ ~LooksTagged(v)
      BY <2>4 DEF AtomShape, IsMap, IsList, Children, LooksTagged
    <3>2. ~HasTagged(v) /\ AsReceived[v] = v
      BY <2>1, <3>1, HasTaggedOf, Seen
    <3>3. CASE v.t # "bytes"
      <4>1. j = v
        BY <1>1, <2>4, <3>1, <3>3, AtomConverted
      <4>2. d = v /\ ~Raised(v)
        BY <2>1, <3>1, <4>1, PlainLoaded, PayloadKinds
      <4> QED  BY <3>2, <4>2 DEF Arrives
    <3>4. CASE v.t = "bytes"
      <4> DEFINE s == Str(B64(v.b))
                 items == <<Entry(Tag, s)>>
      <4>1. j = Holding("object", items) /\ v = Bytes(v.b) /\ v.b \in Blobs
        BY <1>1, <2>4, <3>1, <3>4, AtomConverted DEF AtomShape
      <4>2. /\ DOMAIN items = 1..1 /\ Len(items) = 1 /\ items[1].key = Tag /\ items[1].val = s
            /\ items[1] = Entry(Tag, s) /\ s.t = "str" /\ s.s = B64(v.b)
        <5>1. s.t = "str" /\ s.s = B64(v.b)
          BY DEF Str
        <5>2. Entry(Tag, s).key = Tag /\ Entry(Tag, s).val = s
          BY DEF Entry
        <5> HIDE DEF s
        <5>3. DOMAIN items = 1..1 /\ Len(items) = 1 /\ items[1] = Entry(Tag, s)
          OBVIOUS
        <5> QED  BY <5>1, <5>2, <5>3
      <4> HIDE DEF j, s, items
      <4>3. j.t = "object" /\ j.items = items
        BY <4>1, HoldingFields
      <4>4. ObjectShape(j)
        BY <2>1, <4>3, DocumentKinds DEF IsMap
      <4>5. s \in Documents
        BY <4>2, <4>3, <4>4 DEF ObjectShape
      <4>6. DecodePayload[s] = s
        BY <4>2, <4>5, PlainLoaded DEF IsMap, IsList
      <4>7. items = [i \in DOMAIN j.items |->
                       Entry(j.items[i].key, DecodePayload[j.items[i].val])]
        <5>1. items = [i \in 1..1 |-> items[i]]
          BY <4>2, <4>3, <4>4 DEF ObjectShape
        <5> QED  BY <4>2, <4>3, <4>6, <5>1
      <4>8. FromWire(items) = Bytes(v.b)
        BY <4>1, <4>2, FromWireKinds, TextsDiffer DEF Tagged
      <4>9. ~Raised(Bytes(v.b))
        BY DEF Raised, Bytes
      <4>10. ~Raised(DecodePayload[j.items[1].val]) /\ DOMAIN j.items = 1..1
        BY <4>2, <4>3, <4>6 DEF Raised
      <4>11. ~\E i \in DOMAIN j.items : Raised(DecodePayload[j.items[i].val])
        BY <4>10
      <4>12. ~Raised(d) /\ d = FromWire(items)
        <5> HIDE DEF d
        <5>1. /\ Raised(DecodePayload[j]) <=>
                   \/ \E i \in DOMAIN j.items : Raised(DecodePayload[j.items[i].val])
                   \/ Raised(FromWire(items))
              /\ ~Raised(DecodePayload[j]) => DecodePayload[j] = FromWire(items)
          BY <2>1, <4>4, <4>7, ObjectLoaded
        <5> QED  BY <4>8, <4>9, <4>11, <5>1 DEF d
      <4> QED  BY <3>2, <4>1, <4>8, <4>12 DEF Arrives, j
    <3> QED  BY <3>3, <3>4
  <2> QED  BY <2>2, <2>3, <2>4, PayloadShape
<1>2. \A v \in Payloads : Children(v) \subseteq S => v \in S
  BY <1>1
<1> HIDE DEF S
<1>3. Payloads \subseteq S
  BY <1>2, PayloadInduction
<1> QED  BY <1>3 DEF S

-----------------------------------------------------------------------------
(* What is received, sent back.                                            *)

HasLoose(j) == \E p \in Parts[j] : ReadLoosely(p)

LEMMA HasLooseOf ==
  ASSUME NEW j \in Values
  PROVE  HasLoose(j) <=> ReadLoosely(j) \/ \E c \in Children(j) : HasLoose(c)
BY PartsOf DEF HasLoose

\* The value read from a document can be sent, arrives as itself, and is carried
\* as that document again exactly when no bytes in it came in a text of their own.
Echoes(j) ==
  /\ ~Raised(ToWire[DecodePayload[j]])
  /\ ~Raised(DecodePayload[ToWire[DecodePayload[j]]])
  /\ DecodePayload[ToWire[DecodePayload[j]]] = DecodePayload[j]
  /\ ToWire[DecodePayload[j]] = j <=> ~HasLoose(j)
  /\ Has("nan", ToWire[DecodePayload[j]]) => Has("nan", j)

LEMMA EchoedExactly ==
  \A j \in Documents : ~Raised(DecodePayload[j]) /\ ~Has("wide", j) => Echoes(j)
<1> DEFINE S == {j \in Documents : ~Raised(DecodePayload[j]) /\ ~Has("wide", j) => Echoes(j)}
<1>1. ASSUME NEW j \in Documents, Children(j) \subseteq S,
             ~Raised(DecodePayload[j]), ~Has("wide", j)
      PROVE  Echoes(j)
  <2> DEFINE d == DecodePayload[j]
             k == ToWire[d]
  <2>1. /\ ~Marked("wide", j) /\ \A c \in Children(j) : ~Has("wide", c)
        /\ HasLoose(j) <=> ReadLoosely(j) \/ \E c \in Children(j) : HasLoose(c)
        /\ (\E c \in Children(j) : Has("nan", c)) => Has("nan", j)
    BY <1>1, HasOf, HasLooseOf DEF Values
  <2>2. d \in Payloads
    BY <1>1, ClosureAssumption
  <2>3. CASE ObjectShape(j)
    <3> DEFINE items == [i \in DOMAIN j.items |->
                           Entry(j.items[i].key, DecodePayload[j.items[i].val])]
    <3>1. /\ DOMAIN items = DOMAIN j.items
          /\ \A i \in DOMAIN j.items : /\ items[i].key = j.items[i].key
                                       /\ items[i].val = DecodePayload[j.items[i].val]
                                       /\ items[i] = Entry(items[i].key, items[i].val)
      BY DEF Entry
    <3>2. d = FromWire(items) /\ ~Raised(FromWire(items))
          /\ \A i \in DOMAIN j.items : ~Raised(DecodePayload[j.items[i].val])
      <4>1. items = [i \in DOMAIN j.items |->
                       Entry(j.items[i].key, DecodePayload[j.items[i].val])]
        OBVIOUS
      <4> HIDE DEF items
      <4> QED  BY <1>1, <2>3, <4>1, ObjectLoaded
    <3>3. items = [i \in DOMAIN j.items |-> items[i]]
      OBVIOUS
    <3> HIDE DEF items, d, k
    <3>4. /\ \A i \in DOMAIN j.items : j.items[i].val \in Children(j) /\ j.items[i].val \in Documents
          /\ \A c \in Children(j) : \E i \in DOMAIN j.items : c = j.items[i].val
      BY <2>3 DEF ObjectShape, Children, IsMap
    <3>5. \A i \in DOMAIN j.items :
            /\ ~Raised(ToWire[items[i].val]) /\ ~Raised(DecodePayload[ToWire[items[i].val]])
            /\ DecodePayload[ToWire[items[i].val]] = items[i].val
            /\ ToWire[items[i].val] = j.items[i].val <=> ~HasLoose(j.items[i].val)
            /\ Has("nan", ToWire[items[i].val]) => Has("nan", j.items[i].val)
      BY <1>1, <2>1, <3>1, <3>2, <3>4 DEF Echoes
    <3>6. Len(items) = Len(j.items) /\ Len(j.items) \in Nat /\ DOMAIN j.items = 1..Len(j.items)
      BY <2>3, <3>1 DEF ObjectShape, items
    <3>7. CASE ~Tagged(items)
      <4> DEFINE w == [i \in DOMAIN j.items |-> Entry(items[i].key, ToWire[items[i].val])]
      <4>1. d = Holding("dict", items)
        BY <3>2, <3>7, FromWireKinds
      <4>2. d.t = "dict" /\ d.items = items
        BY <4>1, HoldingFields
      <4>3. DictShape(d)
        BY <2>2, <4>2, PayloadKinds DEF d
      <4>4. \A i \in DOMAIN items : items[i].key # NoKey
        BY <2>3, <3>1, TextsDiffer DEF ObjectShape
      <4>5. ~Raised(k)
        <5>1. \A i \in DOMAIN items : ~Raised(ToWire[items[i].val])
          BY <3>1, <3>5
        <5> QED  BY <2>2, <4>2, <4>3, <4>4, <5>1, DictToWire DEF d, k
      <4>6. k = Holding("object", w)
        <5>1. k = Holding("object",
                [i \in DOMAIN items |-> Entry(items[i].key, ToWire[items[i].val])])
          BY <2>2, <4>2, <4>3, <4>5, DictToWire DEF d, k
        <5> QED  BY <3>1, <5>1
      <4>7. /\ DOMAIN w = DOMAIN j.items
            /\ \A i \in DOMAIN j.items : /\ w[i].key = items[i].key
                                         /\ w[i].val = ToWire[items[i].val]
                                         /\ w[i] = Entry(items[i].key, ToWire[items[i].val])
        BY DEF Entry
      <4> HIDE DEF w
      <4>8. k.t = "object" /\ k.items = w
        BY <4>6, HoldingFields
      <4>9. k \in Documents
        BY <2>2, <4>5, ClosureAssumption DEF k
      <4>10. ObjectShape(k)
        BY <4>8, <4>9, DocumentKinds DEF IsMap
      <4>11. items = [i \in DOMAIN k.items |-> Entry(k.items[i].key, DecodePayload[k.items[i].val])]
        <5>1. DOMAIN k.items = DOMAIN j.items
          BY <4>7, <4>8
        <5>2. \A i \in DOMAIN j.items :
                k.items[i].key = items[i].key /\ DecodePayload[k.items[i].val] = items[i].val
          BY <3>5, <4>7, <4>8
        <5>3. \A i \in DOMAIN j.items :
                items[i] = Entry(k.items[i].key, DecodePayload[k.items[i].val])
          BY <3>1, <5>2
        <5> QED  BY <3>3, <5>1, <5>3
      <4>12. \A i \in DOMAIN k.items : ~Raised(DecodePayload[k.items[i].val])
        BY <3>5, <4>7, <4>8
      <4>13. ~Raised(DecodePayload[k]) /\ DecodePayload[k] = FromWire(items)
        BY <3>2, <4>9, <4>10, <4>11, <4>12, ObjectLoaded
      <4>14. ~ReadLoosely(j)
        <5>1. SUFFICES ASSUME ReadLoosely(j) PROVE Tagged(items)
          BY <3>7
        <5>2. Len(j.items) = 1 /\ 1 \in DOMAIN j.items /\ j.items[1].key = Tag
              /\ j.items[1].val.t = "str"
          BY <3>6, <5>1 DEF ReadLoosely, Tagged
        <5>3. DecodePayload[j.items[1].val] = j.items[1].val
          BY <3>4, <5>2, PlainLoaded DEF IsMap, IsList
        <5> QED  BY <3>1, <3>6, <5>2, <5>3 DEF Tagged
      <4>15. k = j <=> \A i \in DOMAIN j.items : ToWire[items[i].val] = j.items[i].val
        <5>1. \A i \in DOMAIN j.items :
                j.items[i] = Entry(items[i].key, j.items[i].val) /\ w[i] = Entry(items[i].key, w[i].val)
          BY <2>3, <3>1, <4>7 DEF ObjectShape
        <5>2. ASSUME \A i \in DOMAIN j.items : ToWire[items[i].val] = j.items[i].val
              PROVE  k = j
          <6>1. \A i \in DOMAIN j.items : w[i] = j.items[i]
            BY <4>7, <5>1, <5>2
          <6>2. w = [i \in DOMAIN j.items |-> j.items[i]]
            BY <4>7, <6>1 DEF w
          <6>3. j = Holding("object", [i \in DOMAIN j.items |-> j.items[i]])
            BY <2>3 DEF ObjectShape
          <6> QED  BY <4>6, <6>2, <6>3
        <5>3. k = j => \A i \in DOMAIN j.items : ToWire[items[i].val] = j.items[i].val
          BY <4>7, <4>8
        <5> QED  BY <5>2, <5>3
      <4>16. k = j <=> ~HasLoose(j)
        BY <2>1, <3>4, <3>5, <4>14, <4>15
      <4>17. Has("nan", k) => Has("nan", j)
        <5>1. Children(k) = {w[i].val : i \in DOMAIN w} /\ k \in Values /\ ~Marked("nan", k)
          BY <4>8, <4>9 DEF Children, IsMap, Values, Marked
        <5>2. Has("nan", k) => \E i \in DOMAIN w : Has("nan", w[i].val)
          BY <5>1, HasOf
        <5> QED  BY <2>1, <3>4, <3>5, <4>7, <5>2
      <4> QED  BY <3>2, <4>5, <4>13, <4>16, <4>17 DEF Echoes, d, k
    <3>8. CASE Tagged(items)
      <4> DEFINE c == j.items[1].val
                 s == items[1].val.s
      <4>1. 1 \in DOMAIN j.items /\ DOMAIN j.items = 1..1 /\ items[1].key = Tag
        BY <3>6, <3>8 DEF Tagged
      <4>2. c \in Documents /\ items[1].val = DecodePayload[c] /\ DecodePayload[c].t = "str"
        BY <3>1, <3>4, <3>8, <4>1 DEF Tagged
      <4>3. items[1].val = c /\ c = Str(c.s) /\ c.s \in Texts /\ c.t = "str"
        BY <4>2, StringLoaded
      <4>4. s[1] \in {"base64", "loose"} /\ d = Bytes(s[2])
        BY <3>2, <3>8, FromWireKinds
      <4>5. s = c.s /\ s[2] \in Blobs /\ (s[1] = "base64" => s = B64(s[2])) /\ B64(s[2])[1] = "base64"
        BY <4>3, <4>4, TextsDiffer
      <4>6. d.t = "bytes" /\ d.b = s[2]
        BY <4>4 DEF Bytes
      <4>7. AtomShape(d) /\ ~IsMap(d) /\ ~IsList(d)
        BY <2>2, <4>6, PayloadKinds DEF IsMap, IsList, d
      <4>8. ~Raised(k)
        BY <2>2, <4>6, <4>7, AtomConverted DEF Refused, d, k
      <4>9. k = Holding("object", <<Entry(Tag, Str(B64(s[2])))>>)
        BY <2>2, <4>6, <4>7, <4>8, AtomConverted DEF d, k
      <4>10. ~Raised(DecodePayload[k]) /\ DecodePayload[k] = d
        <5>1. Children(d) = {} /\ ~LooksTagged(d) /\ d \in Values
          BY <2>2, <4>6, <4>7 DEF Children, LooksTagged, Values, d
        <5>2. ~HasTagged(d)
          BY <5>1, HasTaggedOf
        <5>3. AsReceived[d] = d
          BY <2>2, <4>7, Seen DEF d
        <5>4. Arrives(d)
          BY <2>2, <4>8, ArrivesExactly DEF d, k
        <5> QED  BY <5>2, <5>3, <5>4 DEF Arrives, k
      <4> HIDE DEF c, s
      <4>11. j = Holding("object", j.items)
        BY <2>3 DEF ObjectShape
      <4>12. j.items = <<Entry(Tag, c)>>
        <5>1. j.items = [i \in 1..1 |-> j.items[i]]
          BY <2>3, <4>1 DEF ObjectShape
        <5>2. j.items[1] = Entry(Tag, c)
          BY <2>3, <3>1, <4>1 DEF ObjectShape, c
        <5>3. j.items = [i \in 1..1 |-> Entry(Tag, c)]
          BY <5>1, <5>2
        <5> HIDE DEF Tag
        <5> QED  BY <5>3
      <4>13. k = j <=> s[1] = "base64"
        <5>1. s[1] = "base64" => k = j
          BY <4>3, <4>5, <4>9, <4>11, <4>12
        <5>2. ASSUME k = j PROVE s[1] = "base64"
          <6>1. <<Entry(Tag, Str(B64(s[2])))>> = <<Entry(Tag, c)>>
            BY <4>9, <4>12, <5>2, HoldingFields
          <6>2. Entry(Tag, Str(B64(s[2]))) = Entry(Tag, c)
            BY <6>1
          <6>3. Str(B64(s[2])) = c
            BY <6>2, EntryFields
          <6>4. B64(s[2]) = c.s
            BY <6>3 DEF Str
          <6> QED  BY <4>5, <6>4
        <5> QED  BY <5>1, <5>2
      <4>14. ReadLoosely(j) <=> s[1] = "loose"
        <5>1. j.t = "object" /\ Len(j.items) = 1 /\ j.items[1].key = Tag /\ j.items[1].val = c
          BY <2>3, <3>1, <3>6, <3>8, <4>1 DEF ObjectShape, Tagged, c
        <5>2. Tagged(j.items)
          BY <4>3, <5>1 DEF Tagged
        <5> QED  BY <4>5, <5>1, <5>2 DEF ReadLoosely
      <4>15. \A x \in Children(j) : ~HasLoose(x)
        <5>1. Children(c) = {} /\ ~ReadLoosely(c) /\ c \in Values
          BY <4>2, <4>3 DEF Children, IsMap, IsList, ReadLoosely, Values, c
        <5>2. ~HasLoose(c)
          BY <5>1, HasLooseOf
        <5> QED  BY <3>4, <4>1, <5>2 DEF c
      <4>16. ~Has("nan", k)
        <5> DEFINE text1 == Str(B64(s[2]))
        <5>1. k.t = "object" /\ k.items = <<Entry(Tag, text1)>> /\ k \in Values
          BY <2>2, <4>8, <4>9, HoldingFields, ClosureAssumption DEF k, Values
        <5>2. Children(k) = {text1}
          BY <5>1 DEF Children, IsMap, Entry
        <5>3. text1 \in Values /\ text1.t = "str" /\ Children(text1) = {}
          BY <5>1, <5>2, ValueChildren DEF Str, Children, IsMap, IsList
        <5> HIDE DEF text1
        <5> QED  BY <5>1, <5>2, <5>3, HasOf DEF Marked
      <4> QED  BY <2>1, <4>4, <4>8, <4>10, <4>13, <4>14, <4>15, <4>16 DEF Echoes, d, k
    <3> QED  BY <3>7, <3>8
  <2>4. CASE ArrayShape(j)
    <3> DEFINE outs == [i \in DOMAIN j.items |-> DecodePayload[j.items[i]]]
               w == [i \in DOMAIN j.items |-> ToWire[outs[i]]]
    <3>1. /\ DOMAIN outs = DOMAIN j.items
          /\ \A i \in DOMAIN j.items : outs[i] = DecodePayload[j.items[i]]
          /\ outs = [i \in DOMAIN j.items |-> outs[i]]
      OBVIOUS
    <3>2. d = Holding("list", outs) /\ \A i \in DOMAIN j.items : ~Raised(DecodePayload[j.items[i]])
      BY <1>1, <2>4, ArrayLoaded
    <3> HIDE DEF outs, d, k
    <3>3. /\ \A i \in DOMAIN j.items : j.items[i] \in Children(j) /\ j.items[i] \in Documents
          /\ \A c \in Children(j) : \E i \in DOMAIN j.items : c = j.items[i]
      BY <2>4 DEF ArrayShape, Children, IsMap, IsList
    <3>4. \A i \in DOMAIN j.items :
            /\ ~Raised(ToWire[outs[i]]) /\ ~Raised(DecodePayload[ToWire[outs[i]]])
            /\ DecodePayload[ToWire[outs[i]]] = outs[i]
            /\ ToWire[outs[i]] = j.items[i] <=> ~HasLoose(j.items[i])
            /\ Has("nan", ToWire[outs[i]]) => Has("nan", j.items[i])
      BY <1>1, <2>1, <3>1, <3>2, <3>3 DEF Echoes
    <3>5. d.t = "list" /\ d.items = outs
      BY <3>2, HoldingFields
    <3>6. ListShape(d)
      BY <2>2, <3>5, PayloadKinds DEF IsList, d
    <3>7. ~Raised(k)
      BY <2>2, <3>1, <3>4, <3>5, <3>6, ListToWire DEF d, k
    <3>8. k = Holding("array", w)
      <4>1. k = Holding("array", [i \in DOMAIN outs |-> ToWire[outs[i]]])
        BY <2>2, <3>5, <3>6, <3>7, ListToWire DEF d, k
      <4> QED  BY <3>1, <4>1
    <3>9. /\ DOMAIN w = DOMAIN j.items
          /\ \A i \in DOMAIN j.items : w[i] = ToWire[outs[i]]
          /\ w = [i \in DOMAIN j.items |-> w[i]]
      OBVIOUS
    <3> HIDE DEF w
    <3>10. k.t = "array" /\ k.items = w
      BY <3>8, HoldingFields
    <3>11. k \in Documents
      BY <2>2, <3>7, ClosureAssumption DEF k
    <3>12. ArrayShape(k)
      BY <3>10, <3>11, DocumentKinds DEF IsList
    <3>13. outs = [i \in DOMAIN k.items |-> DecodePayload[k.items[i]]]
      BY <3>1, <3>4, <3>9, <3>10
    <3>14. \A i \in DOMAIN k.items : ~Raised(DecodePayload[k.items[i]])
      BY <3>4, <3>9, <3>10
    <3>15. ~Raised(DecodePayload[k]) /\ DecodePayload[k] = Holding("list", outs)
      BY <3>11, <3>12, <3>13, <3>14, ArrayLoaded
    <3>16. k = j <=> \A i \in DOMAIN j.items : ToWire[outs[i]] = j.items[i]
      <4>1. j.items = [i \in DOMAIN j.items |-> j.items[i]] /\ j = Holding("array", j.items)
        BY <2>4 DEF ArrayShape
      <4>2. (\A i \in DOMAIN j.items : ToWire[outs[i]] = j.items[i]) => w = j.items
        BY <3>9, <4>1
      <4>3. k = j => w = j.items
        BY <3>10
      <4> QED  BY <3>8, <3>9, <4>1, <4>2, <4>3
    <3>17. ~ReadLoosely(j)
      BY <2>4 DEF ArrayShape, ReadLoosely
    <3>18. Has("nan", k) => Has("nan", j)
      <4>1. Children(k) = {w[i] : i \in DOMAIN w} /\ k \in Values /\ ~Marked("nan", k)
        BY <3>10, <3>11 DEF Children, IsMap, IsList, Values, Marked
      <4>2. Has("nan", k) => \E i \in DOMAIN w : Has("nan", w[i])
        BY <4>1, HasOf
      <4> QED  BY <2>1, <3>3, <3>4, <3>9, <4>2
    <3> QED  BY <2>1, <3>2, <3>3, <3>4, <3>7, <3>15, <3>16, <3>17, <3>18 DEF Echoes, d, k
  <2>5. CASE PlainShape(j)
    <3>1. d = j /\ ~IsMap(j) /\ ~IsList(j)
      BY <2>5, PlainLoaded DEF PlainShape, IsMap, IsList
    <3>2. AtomShape(j) /\ j \in Payloads /\ ~Refused(j) /\ j.t # "bytes"
      BY <2>1, <2>2, <2>5, <3>1, PayloadKinds DEF PlainShape, IsMap, IsList, Refused, Marked
    <3>3. ~Raised(ToWire[j]) /\ ToWire[j] = j
      BY <3>1, <3>2, AtomConverted
    <3>4. Children(j) = {} /\ ~ReadLoosely(j)
      BY <2>5, <3>1 DEF PlainShape, Children, IsMap, IsList, ReadLoosely
    <3> HIDE DEF d, k
    <3> QED  BY <1>1, <2>1, <3>1, <3>3, <3>4 DEF Echoes, d, k
  <2> QED  BY <2>3, <2>4, <2>5, DocumentShape
<1> HIDE DEF Has, Echoes
<1>2. \A j \in Documents : Children(j) \subseteq S => j \in S
  BY <1>1
<1> HIDE DEF S
<1>3. Documents \subseteq S
  BY <1>2, DocumentInduction
<1> QED  BY <1>3 DEF S

-----------------------------------------------------------------------------
(* The run of one payload.                                                 *)

\* What is carried and received is what the codec makes of the payload.
WireInv ==
  /\ value \in Payloads
  /\ status \in {"composed", "refused", "sent", "undecodable", "received", "unechoed", "echoed"}
  /\ status = "refused" => Raised(EncodePayload(value))
  /\ status \notin {"composed", "refused"} => ~Raised(EncodePayload(value))
  /\ status \in {"sent", "undecodable", "received"} => text = EncodePayload(value)
  /\ status = "undecodable" => Raised(DecodePayload[text])
  /\ status = "received" => got = DecodePayload[text] /\ ~Raised(got)

LEMMA WireInvariant == Spec => []WireInv
<1>1. Init => WireInv
  BY DEF Init, WireInv
<1>2. WireInv /\ [Next]_vars => WireInv'
  <2> SUFFICES ASSUME WireInv, [Next]_vars PROVE WireInv'
    OBVIOUS
  <2>1. CASE Send
    BY <2>1 DEF Send, WireInv
  <2>2. CASE Receive
    BY <2>2 DEF Receive, WireInv
  <2>3. CASE SendBack
    BY <2>3 DEF SendBack, WireInv
  <2>4. CASE UNCHANGED vars
    BY <2>4 DEF vars, WireInv
  <2> QED  BY <2>1, <2>2, <2>3, <2>4 DEF Next
<1> QED  BY <1>1, <1>2, PTL DEF Spec

\* A payload is refused exactly when a bool, a float that is not finite, an
\* integer too wide, a key that is no string or a value of another type is in
\* it, however deep: encode_payload and _to_wire.
THEOREM RefusedExactlyHolds == Spec => []RefusedExactly
<1>1. WireInv => RefusedExactly
  <2> SUFFICES ASSUME WireInv, status # "composed"
               PROVE  status = "refused" <=> \E p \in Parts[value] : Unsendable(p)
    BY DEF RefusedExactly
  <2>1. value \in Payloads /\ (status = "refused" <=> Raised(EncodePayload(value)))
    BY DEF WireInv
  <2> QED  BY <2>1, EncodedExactly
<1> QED  BY <1>1, WireInvariant, PTL

\* A payload arrives as it was sent, a tuple as a list, unless a map in it
\* looks like tagged bytes: encode_payload, decode_payload and _from_wire.
THEOREM ArrivesAsSentHolds == Spec => []ArrivesAsSent
<1>1. WireInv => ArrivesAsSent
  <2> SUFFICES ASSUME WireInv, status \in {"received", "undecodable"}
               PROVE  /\ status = "received" => (got = AsReceived[value] <=> ~HasTagged(value))
                      /\ status = "undecodable" => HasTagged(value)
    BY DEF ArrivesAsSent, HasTagged
  <2>1. value \in Payloads /\ ~Raised(EncodePayload(value)) /\ text = EncodePayload(value)
    BY DEF WireInv
  <2>2. text = ToWire[value] /\ ~Raised(ToWire[value])
    BY <2>1, EncodedExactly
  <2>3. Arrives(value)
    BY <2>1, <2>2, ArrivesExactly
  <2> QED  BY <2>2, <2>3 DEF WireInv, Arrives
<1> QED  BY <1>1, WireInvariant, PTL

\* What was received, sent back, is read as the same value, and is carried as it
\* was before exactly when no bytes in it came in a text b64encode does not write:
\* then an echoed answer differs in nothing from its request.
THEOREM SentBackUnchangedHolds == Spec => SentBackUnchanged
<1>1. WireInv /\ [Next]_vars => [SendBack =>
        /\ ~Raised(text') /\ DecodePayload[text'] = got
        /\ text' = text <=> ~\E p \in Parts[text] : ReadLoosely(p)]_vars
  <2> SUFFICES ASSUME WireInv, SendBack
               PROVE  /\ ~Raised(text') /\ DecodePayload[text'] = got
                      /\ text' = text <=> ~HasLoose(text)
    BY DEF HasLoose
  <2>1. /\ value \in Payloads /\ ~Raised(EncodePayload(value)) /\ text = EncodePayload(value)
        /\ got = DecodePayload[text] /\ ~Raised(got) /\ text' = EncodePayload(got)
    BY DEF WireInv, SendBack
  <2>2. text = ToWire[value] /\ ~Raised(ToWire[value]) /\ ~Has("nan", text)
    BY <2>1, EncodedExactly
  <2>3. text \in Documents /\ got \in Payloads
    BY <2>1, <2>2, ClosureAssumption
  <2>4. ~Has("wide", text)
    <3>1. ~Has("wide", value)
      BY <2>1, EncodedExactly DEF Has, Marked, Unsendable
    <3> QED  BY <2>1, <2>2, <3>1, MarksCarried
  <2>5. Echoes(text)
    BY <2>1, <2>3, <2>4, EchoedExactly
  <2>6. ~Has("nan", ToWire[got])
    BY <2>1, <2>2, <2>5 DEF Echoes
  <2>7. EncodePayload(got) = ToWire[got]
    BY <2>1, <2>5, <2>6 DEF EncodePayload, Dumps, Has, Marked, Echoes
  <2> QED  BY <2>1, <2>5, <2>7 DEF Echoes
<1> QED  BY <1>1, WireInvariant, PTL DEF Spec, SentBackUnchanged
=============================================================================
