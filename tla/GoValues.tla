------------------------------ MODULE GoValues ------------------------------
(***************************************************************************)
(* Host values and valueEncoder of value.go, which turns a Go value into a *)
(* tree before arena.go numbers its nodes.                                 *)
(*                                                                         *)
(* Containers that are not shared are written in place, not as a Ref.  A   *)
(* Go map that can be shared is a "gomap": the values of the keys 1..n.    *)
(***************************************************************************)
EXTENDS Decoding, FiniteSets, SequencesExt

CONSTANTS
  MaxValueDepth,   \* maxValueDepth (100)
  ByteBits         \* bits in a byte

ASSUME ValuesAssumption ==
  /\ MaxValueDepth \in Nat
  /\ ByteBits \in Nat \ {0}

\* Names and values one after the other, as a dictionary is written.
PairUp(names, vals) ==
  [i \in 1..(2 * Len(names)) |-> IF i % 2 = 1 THEN Str(names[(i + 1) \div 2]) ELSE vals[i \div 2]]

(***************************************************************************)
(* encodeRandomSeed of os_policy.go: two's complement, the lowest byte     *)
(* first, with room for the sign.                                          *)
(***************************************************************************)
BitLen(n) == CHOOSE b \in 0..(IF n < 0 THEN -n ELSE n) :
  (IF n < 0 THEN -n ELSE n) \in (IF b = 0 THEN {0} ELSE (2^(b - 1))..(2^b - 1))

\* Mutant: bytes for the magnitude only.
SeedSize_NoSign(n) == IF n = 0 THEN 1 ELSE (BitLen(n) + ByteBits - 1) \div ByteBits

SeedSize(n) == (BitLen(n) + ByteBits) \div ByteBits

EncodeRandomSeed(n) ==
  LET z == IF n < 0 THEN n + 2^(SeedSize(n) * ByteBits) ELSE n
  IN [i \in 1..SeedSize(n) |-> (z \div 2^((i - 1) * ByteBits)) % 2^ByteBits]

\* encodeMap sorts string keys; encodeStruct takes the fields in order, and so
\* does encodeMap with the values of a "gomap".
EncodeMap(f) ==
  LET keys == SetToSortSeq(DOMAIN f, <)
  IN Box("dict", PairUp(keys, [i \in DOMAIN keys |-> f[keys[i]]]))

EncodeStruct(fields) == Box("dict", PairUp([i \in DOMAIN fields |-> i], fields))

\* A builtin class, which has no identity.
BuiltinClass == [k |-> "class", origin |-> "builtin", id |-> "none", kids |-> <<>>]

\* A module is written with its name, its identity and its attributes.
ModuleNode(attrs) == [k |-> "module", fields |-> <<"name", "uuid", "attrs">>, kids |-> attrs]

Scalars == HostNumbers \cup {"nil", "str", "type", "marker", "timedelta"}

EncodeScalar(v) ==
  CASE v.k = "nil" -> [k |-> "none"]
    [] v.k \in HostNumbers -> EncodeNumber(v)
    [] v.k \in {"str", "marker", "timedelta"} -> v
    [] v.k = "type" -> BuiltinClass

(***************************************************************************)
(* valueEncoder.encode.  "stack" is e.stack: the addresses of the pointers *)
(* and non-empty slices and maps that are being encoded.  A deferred       *)
(* delete removes them, so it goes down with the recursion.  A pointer     *)
(* adds no depth; a NamedTuple or Module adds no address.                  *)
(***************************************************************************)
\* Mutant: an empty slice is taken for a container, too.
Keyed_EvenEmpty(v, c) == v.k = "ref" /\ c.k \in {"ptr", "slice", "dict", "gomap"}

Keyed(v, c) == v.k = "ref" /\ c.k \in {"ptr", "slice", "dict", "gomap"} /\ c.kids # <<>>

RECURSIVE Encode(_, _, _, _)
Encode(heap, v, stack, depth) ==
  LET c == Deref(heap, v)
      held == IF Keyed(v, c) THEN stack \cup {v.at} ELSE stack
      All(kind, kids) ==
        LET x == Together([i \in DOMAIN kids |-> Encode(heap, kids[i], held, depth + 1)])
        IN IF x.ok THEN Done(Box(kind, x.val)) ELSE x
  IN IF depth > MaxValueDepth THEN Fails("depth")
     ELSE IF Keyed(v, c) /\ v.at \in stack THEN Fails("cyclic")
     ELSE CASE c.k \in Scalars -> Done(EncodeScalar(c))
            [] c.k = "ptr" -> Encode(heap, c.kids[1], held, depth)
            [] c.k = "slice" -> All("list", c.kids)
            [] c.k \in {"dict", "ntuple"} -> All(c.k, c.kids)
            [] c.k = "module" -> LET x == All(c.k, c.kids) IN IF x.ok THEN Done(ModuleNode(x.val.kids)) ELSE x
            [] c.k = "map" -> All("dict", EncodeMap(c.of).kids)
            [] c.k \in {"struct", "gomap"} -> All("dict", EncodeStruct(c.kids).kids)
            [] OTHER -> Fails("unsupported")

\* encodeValue
EncodeValue(heap, v) == Encode(heap, v, {}, 0)
-----------------------------------------------------------------------------
(***************************************************************************)
(* What an encoder has to do, said without one: which values a value       *)
(* contains, and the Python value it stands for.                           *)
(***************************************************************************)
Parts(heap, v) ==
  LET c == Deref(heap, v)
  IN IF "kids" \in DOMAIN c THEN {c.kids[i] : i \in DOMAIN c.kids}
     ELSE IF "of" \in DOMAIN c THEN {c.of[i] : i \in DOMAIN c.of} ELSE {}

\* The values strictly inside those of S, as long as there are new ones.
RECURSIVE Inside(_, _, _)
Inside(heap, S, seen) ==
  LET new == (UNION {Parts(heap, v) : v \in S}) \ seen
  IN IF new = {} THEN seen ELSE Inside(heap, new, seen \cup new)

Within(heap, v) == Inside(heap, {v}, {})

\* An address that recurs below itself: a cycle, or a slice that contains a
\* shorter slice of the same array, which the encoder cannot tell from one.
Recurs(heap, v) ==
  \E u \in Within(heap, v) \cup {v} :
    /\ u.k = "ref" /\ heap[u.at].k \in {"ptr", "slice", "dict", "gomap"}
    /\ \E w \in Within(heap, u) : w.k = "ref" /\ w.at = u.at /\ w.len > 0

\* Some part lies n containers deep, counting no pointers; "left" ends the
\* search where pointers point to one another.
RECURSIVE Deep(_, _, _, _)
Deep(heap, v, n, left) ==
  \/ n = 0
  \/ /\ left > 0
     /\ \E w \in Parts(heap, v) :
          Deep(heap, w, IF Deref(heap, v).k = "ptr" THEN n ELSE n - 1, left - 1)

\* A two's complement number, its lowest byte first.
Signed(bytes) ==
  LET all == ByteBits * Len(bytes)
      z == FoldRight(LAMBDA byte, high : high * 2^ByteBits + byte, bytes, 0)
  IN IF z >= 2^(all - 1) THEN z - 2^all ELSE z

\* A Python dict of the values of f, each under its name, in the order of names.
NamedValues(f) ==
  LET Nth(i) == CHOOSE n \in DOMAIN f : Cardinality({m \in DOMAIN f : m < n}) = i
  IN Box("dict", [i \in 1..(2 * Cardinality(DOMAIN f)) |->
                    IF i % 2 = 1 THEN Str(Nth(i \div 2)) ELSE f[Nth(i \div 2 - 1)]])

\* The Python value of a finite Go value.
RECURSIVE Means(_, _)
Means(heap, v) ==
  LET c == Deref(heap, v)
      Of(kids) == [i \in DOMAIN kids |-> Means(heap, kids[i])]
  IN CASE c.k = "ptr" -> Means(heap, c.kids[1])
       [] c.k = "map" -> NamedValues(Of(c.of))
       [] c.k \in {"struct", "gomap"} -> NamedValues(Of(c.kids))
       [] OTHER -> MeansValue(c, Of(c.kids))
=============================================================================
