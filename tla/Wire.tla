-------------------------------- MODULE Wire --------------------------------
(***************************************************************************)
(* The payload codec of src/macula_py/_wire.py: encode_payload, the text   *)
(* the native layer carries, decode_payload on the other side, and the     *)
(* value received sent back.                                               *)
(*                                                                         *)
(* A Python value and a JSON value are both trees of records whose field   *)
(* t is the type.  Containers hold items: a list's and a tuple's items are *)
(* values, a dict's and an object's are [key, val] in order.  A bytes      *)
(* value is a member of Blobs and its base64 text is the string            *)
(* <<"base64", blob>>; <<"loose", blob>> is another text that is read as   *)
(* it (its last character has bits to spare: "AR==" for "AQ=="), and any   *)
(* other string is <<"text", s>>, not base64.                              *)
(*                                                                         *)
(* A conversion is a function on the values there are, and converts what   *)
(* is right inside a value by itself: toWire[v] is _to_wire(v).            *)
(***************************************************************************)
EXTENDS Integers, FiniteSets, SequencesExt

CONSTANTS Blobs,      \* the byte strings
          Words,      \* the texts that are not base64
          Width,      \* bits of an integer on the wire: 64 in the code
          Payloads,   \* the values an application passes or is given
          Documents,  \* the JSON values of the texts the native layer carries
          Depth,      \* how deep each of these nests
          MaxDepth    \* bound: on that; recursion ends at Python's limit

INT_MIN == -(2^(Width - 1))
INT_MAX == 2^(Width - 1) - 1

Tag   == <<"text", "$bytes">>
B64(b) == <<"base64", b>>
Loose(b) == <<"loose", b>>
Texts == {<<"text", w>> : w \in Words} \cup {B64(b) : b \in Blobs} \cup {Loose(b) : b \in Blobs}
NoKey == <<"none", "other">>  \* a key of another type than str

Leaf(ty) == [t |-> ty]
IntOf(n) == [t |-> "int", n |-> n]
Str(s)   == [t |-> "str", s |-> s]
Bytes(b) == [t |-> "bytes", b |-> b]
Holding(ty, items) == [t |-> ty, items |-> items]
Entry(k, v) == [key |-> k, val |-> v]

IsMap(v)  == v.t \in {"dict", "object"}
IsList(v) == v.t \in {"list", "tuple", "array"}

\* The values right inside a value.
Children(v) == IF IsMap(v) THEN {v.items[i].val : i \in DOMAIN v.items}
               ELSE IF IsList(v) THEN {v.items[i] : i \in DOMAIN v.items} ELSE {}

\* The Python values, and those of JSON, which has neither bytes nor tuples.
Shared  == [t : {"none", "float", "nan"}] \cup [t : {"str"}, s : Texts]
           \cup [t : {"int"}, n : Int]
Pythons == Shared \cup [t : {"bool", "other"}] \cup [t : {"bytes"}, b : Blobs]
           \cup [t : {"list", "tuple"}, items : Seq(Payloads)]
           \cup [t : {"dict"}, items : Seq([key : Texts \cup {NoKey}, val : Payloads])]
Jsons   == Shared \cup [t : {"array"}, items : Seq(Documents)]
           \cup [t : {"object"}, items : Seq([key : Texts, val : Documents])]

Values == Payloads \cup Documents

ASSUME WireAssumption ==
  /\ Width \in Nat \ {0} /\ INT_MIN \in Int /\ INT_MAX \in Int
  /\ "$bytes" \in Words
  /\ Payloads \subseteq Pythons /\ Documents \subseteq Jsons
  /\ MaxDepth \in Nat /\ Depth \in [Values -> 0..MaxDepth]
  /\ \A v \in Values : \A c \in Children(v) : Depth[c] < Depth[v]

\* A value and all that is in it.
Parts[v \in Values] == {v} \cup UNION {Parts[c] : c \in Children(v)}

-----------------------------------------------------------------------------
(* encode_payload.                                                         *)

Raises(error) == [t |-> "raises", error |-> error]
Raised(v)     == v.t = "raises"

\* The first of a sequence of outcomes that is an error, or what they make up.
FirstError(outcomes, result) ==
  IF \E i \in DOMAIN outcomes : Raised(outcomes[i])
  THEN outcomes[CHOOSE i \in DOMAIN outcomes :
         Raised(outcomes[i]) /\ \A j \in 1..(i - 1) : ~Raised(outcomes[j])]
  ELSE result

\* Slip: isinstance(value, int) first, which a bool passes.
BoolIsInt(v) == IntOf(1)

\* A bool is an int to Python, so it is looked at before the ints are.
BoolToWire(v) == Raises("TypeError")

\* Slip: the range of an unsigned integer.
InUnsigned(n) == 0 <= n /\ n <= 2 * INT_MAX + 1

InInt64(n) == INT_MIN <= n /\ n <= INT_MAX

AtomToWire(v) ==
  CASE v.t = "bool"  -> BoolToWire(v)
    [] v.t = "int"   -> IF InInt64(v.n) THEN v ELSE Raises("ValueError")
    [] v.t = "bytes" -> Holding("object", <<Entry(Tag, Str(B64(v.b)))>>)
    [] v.t = "other" -> Raises("TypeError")
    [] OTHER         -> v

\* _to_wire_map, and _to_wire of the rest.
Converted(toWire, v) ==
  IF IsMap(v) THEN
    LET outs == [i \in DOMAIN v.items |->
                   IF v.items[i].key = NoKey THEN Raises("TypeError")
                   ELSE toWire[v.items[i].val]]
    IN  FirstError(outs, Holding("object",
          [i \in DOMAIN v.items |-> Entry(v.items[i].key, outs[i])]))
  ELSE IF IsList(v) THEN
    LET outs == [i \in DOMAIN v.items |-> toWire[v.items[i]]]
    IN  FirstError(outs, Holding("array", outs))
  ELSE AtomToWire(v)

ToWire[v \in Payloads] == Converted(ToWire, v)

\* Slip: json.dumps writes NaN and Infinity as they are.
AllowsNan(j) == j

\* json.dumps with allow_nan=False, once the whole value is converted.
Dumps(j) == IF \E p \in Parts[j] : p.t = "nan" THEN Raises("ValueError") ELSE j

EncodePayload(v) == LET j == ToWire[v] IN IF Raised(j) THEN j ELSE Dumps(j)

-----------------------------------------------------------------------------
(* decode_payload.                                                         *)

\* Slip: other keys may follow.
HasTag(items) == items # <<>> /\ items[1].key = Tag /\ items[1].val.t = "str"

\* One key, and it is $bytes, with a string: inside an object that was itself
\* read as bytes the value is no string any more.
Tagged(items) == Len(items) = 1 /\ items[1].key = Tag /\ items[1].val.t = "str"

\* Slip: the base64 text is left as it is.
LeavesText(items) == IF ~Tagged(items) THEN Holding("dict", items) ELSE items[1].val

\* _from_wire, the object_hook: b64decode refuses text that is not base64, but
\* not bits to spare that are set.
FromWire(items) ==
  IF ~Tagged(items) THEN Holding("dict", items)
  ELSE LET s == items[1].val.s
       IN  IF s[1] \in {"base64", "loose"} THEN Bytes(s[2]) ELSE Raises("ValueError")

\* json.loads, which calls the hook for an object once it has its values.
Loaded(decode, j) ==
  IF IsMap(j) THEN
    LET outs == [i \in DOMAIN j.items |-> decode[j.items[i].val]]
    IN  FirstError(outs, FromWire([i \in DOMAIN j.items |-> Entry(j.items[i].key, outs[i])]))
  ELSE IF IsList(j) THEN
    LET outs == [i \in DOMAIN j.items |-> decode[j.items[i]]]
    IN  FirstError(outs, Holding("list", outs))
  ELSE j

DecodePayload[j \in Documents] == Loaded(DecodePayload, j)

\* Whatever can be written or read is among the values.
ASSUME ClosureAssumption ==
  /\ \A v \in Payloads : Raised(ToWire[v]) \/ ToWire[v] \in Documents
  /\ \A j \in Documents : Raised(DecodePayload[j]) \/ DecodePayload[j] \in Payloads

-----------------------------------------------------------------------------
(* One payload sent, received and sent back.                               *)

VARIABLES status, \* how far it has come
          value,  \* what the application passed
          text,   \* what the native layer carries, or why nothing
          got     \* what the peer's application receives, or why nothing

vars == <<status, value, text, got>>

Init == /\ status = "composed" /\ value \in Payloads
        /\ text = Leaf("none") /\ got = Leaf("none")

Send == /\ status = "composed"
        /\ text' = EncodePayload(value)
        /\ status' = IF Raised(text') THEN "refused" ELSE "sent"
        /\ UNCHANGED <<value, got>>

Receive == /\ status = "sent"
           /\ got' = DecodePayload[text]
           /\ status' = IF Raised(got') THEN "undecodable" ELSE "received"
           /\ UNCHANGED <<value, text>>

\* The peer sends what it received, as an answer that echoes its request does.
SendBack == /\ status = "received"
            /\ text' = EncodePayload(got)
            /\ status' = IF Raised(text') THEN "unechoed" ELSE "echoed"
            /\ UNCHANGED <<value, got>>

Next == Send \/ Receive \/ SendBack

Spec == Init /\ [][Next]_vars

-----------------------------------------------------------------------------
(* Properties.                                                             *)

\* What the wire has no form for.
Unsendable(v) == \/ v.t \in {"bool", "nan", "other"}
                 \/ v.t = "int" /\ v.n \notin INT_MIN..INT_MAX
                 \/ v.t = "dict" /\ \E i \in DOMAIN v.items : v.items[i].key = NoKey

\* A payload is refused exactly when something the wire has no form for is in
\* it, however deep, and by then nothing has been sent.
RefusedExactly == status # "composed" =>
  (status = "refused" <=> \E p \in Parts[value] : Unsendable(p))

\* A map that looks like the tagged form of bytes.
LooksTagged(v) == /\ v.t = "dict" /\ Len(v.items) = 1
                  /\ v.items[1].key = Tag /\ v.items[1].val.t = "str"

\* A value as the peer should see it: the same, with lists for tuples.
SeenAs(seen, v) ==
  IF IsMap(v) THEN Holding("dict", [i \in DOMAIN v.items |->
                     Entry(v.items[i].key, seen[v.items[i].val])])
  ELSE IF IsList(v) THEN Holding("list", [i \in DOMAIN v.items |-> seen[v.items[i]]])
  ELSE v

AsReceived[v \in Payloads] == SeenAs(AsReceived, v)

\* Every payload comes out as it went in, bytes as bytes and a tuple as a list,
\* unless a map that looks like tagged bytes is in it: that comes out as bytes,
\* or makes the whole payload undecodable.
ArrivesAsSent ==
  LET tagged == \E p \in Parts[value] : LooksTagged(p)
  IN  /\ status = "received" => (got = AsReceived[value] <=> ~tagged)
      /\ status = "undecodable" => tagged

\* An object that is read as bytes, though b64encode writes them otherwise.
ReadLoosely(j) == j.t = "object" /\ Tagged(j.items) /\ j.items[1].val.s[1] = "loose"

\* What was received can be sent back, and is read as the same value; and it is
\* carried as it was before, unless bytes came in a text of their own making.
SentBackUnchanged == [][SendBack =>
  /\ ~Raised(text') /\ DecodePayload[text'] = got
  /\ text' = text <=> ~\E p \in Parts[text] : ReadLoosely(p)]_vars
=============================================================================
