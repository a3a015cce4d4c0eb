------------------------------- MODULE MCWire -------------------------------
(***************************************************************************)
(* Wire with one byte string, integers of four bits, containers of up to   *)
(* two atoms, and those in a container again, alone or after an atom; with *)
(* the documents they become and the values these are read as.             *)
(***************************************************************************)
EXTENDS Wire
CONSTANT blob

SomeWords == {"$bytes", "k"}
SomeInts  == {INT_MIN - 1, INT_MIN, 1, INT_MAX, INT_MAX + 1}

SharedAtoms == {Leaf("none"), Leaf("float"), Leaf("nan")} \cup {Str(s) : s \in Texts}
               \cup {IntOf(n) : n \in SomeInts}
Atoms == SharedAtoms \cup {Leaf("bool"), Leaf("other")} \cup {Bytes(b) : b \in Blobs}
WireAtoms == SharedAtoms \cup {Holding("object", <<Entry(Tag, Str(B64(b)))>>) : b \in Blobs}

Keys == {Tag, <<"text", "k">>}
Entries(keys, vs) == {Entry(k, v) : k \in keys, v \in vs}

\* Up to two items; a map's have different keys.
UpToTwo(items) == {<<>>} \cup [1..1 -> items] \cup [1..2 -> items]
Lists(ty, vs) == {Holding(ty, s) : s \in UpToTwo(vs)}
Maps(ty, keys, vs) == {Holding(ty, s) : s \in
  {s \in UpToTwo(Entries(keys, vs)) : Len(s) = 2 => s[1].key # s[2].key}}

Flat == Lists("list", Atoms) \cup Lists("tuple", Atoms) \cup Maps("dict", Keys \cup {NoKey}, Atoms)
FlatWire == Lists("array", WireAtoms) \cup Maps("object", Keys, WireAtoms)

\* Of no more than one atom.
Small(vs) == {v \in vs : Len(v.items) <= 1}

AfterAtom(vs) == {<<a, v>> : a \in {Leaf("nan"), Leaf("none")}, v \in vs}
Nested(lists, ty, map, keys, vs) ==
  {Holding(l, <<v>>) : l \in lists, v \in vs} \cup {Holding(ty, s) : s \in AfterAtom(vs)}
  \cup {Holding(map, <<e>>) : e \in Entries(keys, vs)}

SomePayloads == Atoms \cup Flat
                \cup Nested({"list", "tuple"}, "list", "dict", Keys \cup {NoKey}, Small(Flat))
SomeDocuments == WireAtoms \cup FlatWire \cup Nested({"array"}, "array", "object", Keys, Small(FlatWire))

RECURSIVE DepthOf(_)
DepthOf(v) == IF Children(v) = {} THEN 0
              ELSE 1 + Max({DepthOf(c) : c \in Children(v)})
Depths == [v \in SomePayloads \cup SomeDocuments |-> DepthOf(v)]
=============================================================================
