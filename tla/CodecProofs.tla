---------------------------- MODULE CodecProofs ----------------------------
(***************************************************************************)
(* What Numbers computes, for every integer and every length of a          *)
(* microsecond, a second and a day; and that Decoder decodes every event   *)
(* to what the worker wrote, however many nodes it has.                    *)
(***************************************************************************)
EXTENDS Decoder, WellFoundedInduction, TLAPS

-----------------------------------------------------------------------------
(* Division. *)

LEMMA DivRest ==
  ASSUME NEW a \in Int, NEW b \in Nat \ {0}
  PROVE  /\ a \div b \in Int /\ a % b \in 0..(b - 1)
         /\ a = b * (a \div b) + (a % b)
  OBVIOUS

LEMMA Cancel ==
  ASSUME NEW s \in Nat \ {0}, NEW q \in Int, NEW d \in Int, s * q < s * d
  PROVE  q < d
  <1>1. CASE q >= d
    <2>1. q - d \in Nat /\ s * (q - d) \in Nat /\ s * (q - d) >= 0
      BY <1>1
    <2>2. s * (q - d) = s * q - s * d
      OBVIOUS
    <2> QED
      BY <2>1, <2>2
  <1> QED
    BY <1>1

LEMMA PositiveProduct ==
  ASSUME NEW a \in Nat \ {0}, NEW b \in Nat \ {0}
  PROVE  a * b \in Nat \ {0}
  OBVIOUS

\* The remainder of Go's division has the sign of the dividend.
LEMMA QuoRest ==
  ASSUME NEW a \in Int, NEW b \in Nat \ {0}
  PROVE  /\ Quo(a, b) \in Int
         /\ a >= 0 => a - Quo(a, b) * b \in 0..(b - 1)
         /\ a < 0 => a - Quo(a, b) * b \in (1 - b)..0
  <1>1. CASE a >= 0
    BY <1>1, DivRest DEF Quo
  <1>2. CASE a < 0
    <2> DEFINE q == (-a) \div b
               r == (-a) % b
    <2>1. -a \in Int
      OBVIOUS
    <2>2. q \in Int /\ r \in 0..(b - 1) /\ -a = b * q + r
      BY <2>1, DivRest
    <2>3. Quo(a, b) = -q
      BY <1>2 DEF Quo
    <2> HIDE DEF q, r
    <2> QED
      BY <1>2, <2>2, <2>3
  <1> QED
    BY <1>1, <1>2
-----------------------------------------------------------------------------
(* Durations. *)

(***************************************************************************)
(* The borrow of encodeDuration: the microseconds of any duration, also a  *)
(* negative one, are days plus a part of a day that is not negative.       *)
(***************************************************************************)
LEMMA Borrow ==
  ASSUME NEW all \in Int, NEW P \in Nat \ {0}, NEW whole, whole = Quo(all, P),
         NEW rest, rest = all - whole * P,
         NEW days, days = IF rest < 0 THEN whole - 1 ELSE whole,
         NEW micros, micros = IF rest < 0 THEN rest + P ELSE rest
  PROVE  days \in Int /\ micros \in 0..(P - 1) /\ all = days * P + micros
  <1>1. whole \in Int /\ rest \in Int /\ rest > -P /\ rest < P
    <2>1. Quo(all, P) \in Int
      BY QuoRest
    <2>2. CASE all >= 0
      <3>1. all - Quo(all, P) * P \in 0..(P - 1)
        BY <2>2, QuoRest
      <3> QED
        BY <2>1, <3>1
    <2>3. CASE all < 0
      <3>1. all - Quo(all, P) * P \in (1 - P)..0
        BY <2>3, QuoRest
      <3> QED
        BY <2>1, <3>1
    <2> QED
      BY <2>2, <2>3
  <1>2. CASE rest < 0
    <2>1. days = whole - 1 /\ micros = rest + P
      BY <1>2
    <2>2. (whole - 1) * P = whole * P - P
      BY <1>1
    <2> QED
      BY <1>1, <1>2, <2>1, <2>2
  <1>3. CASE ~(rest < 0)
    <2>1. days = whole /\ micros = rest
      BY <1>3
    <2> QED
      BY <1>1, <1>3, <2>1
  <1> QED
    BY <1>2, <1>3

(***************************************************************************)
(* Every time.Duration becomes a timedelta in Python's normal form (of     *)
(* which only the days may be negative) of as many microseconds, rounded   *)
(* towards zero (encodeDuration).                                          *)
(***************************************************************************)
THEOREM DurationsNormal ==
  ASSUME NEW n \in Int
  PROVE  /\ Normal(EncodeDuration(n))
         /\ EncodeDuration(n).days \in Int
         /\ InMicros(EncodeDuration(n)) = Quo(n, Micro)
  <1> USE NumbersAssumption
  <1> DEFINE all == Quo(n, Micro)
             P == Second * Day
             whole == Quo(all, P)
             rest == all - whole * Second * Day
             days == IF rest < 0 THEN whole - 1 ELSE whole
             micros == IF rest < 0 THEN rest + P ELSE rest
             s == micros \div Second
             u == micros % Second
  <1>1. EncodeDuration(n) = TimeDelta(days, s, u)
    BY DEF EncodeDuration
  <1>2. all \in Int
    BY QuoRest
  <1>3. P \in Nat \ {0}
    BY PositiveProduct
  <1>4. days \in Int /\ micros \in 0..(P - 1) /\ all = days * P + micros
    <2>1. whole \in Int
      <3> HIDE DEF P, all
      <3> QED
        BY <1>2, <1>3, QuoRest
    <2>2. rest = all - whole * P
      <3> HIDE DEF whole, all
      <3>1. whole * Second * Day = whole * (Second * Day)
        BY <2>1
      <3> QED
        BY <3>1
    <2> HIDE DEF all, P, rest
    <2> QED
      BY <1>2, <1>3, <2>2, Borrow
  <1> HIDE DEF all, whole, rest, days, micros
  <1>5. s \in Int /\ u \in 0..(Second - 1) /\ micros = Second * s + u
    <2> HIDE DEF P
    <2> QED
      BY <1>3, <1>4, DivRest
  <1> HIDE DEF P, s, u
  <1>6. s < Day
    <2>1. Second * s < Second * Day
      BY <1>3, <1>4, <1>5 DEF P
    <2> QED
      BY <2>1, <1>5, Cancel
  <1>7. s >= 0
    <2>1. Second * (-1) < Second * s
      BY <1>3, <1>4, <1>5
    <2>2. -1 < s
      BY <2>1, <1>5, Cancel
    <2> QED
      BY <2>2, <1>5
  <1>8. (days * Day + s) * Second + u = days * P + (Second * s + u)
    BY <1>4, <1>5 DEF P
  <1>9. InMicros(TimeDelta(days, s, u)) = all
    BY <1>4, <1>5, <1>8 DEF TimeDelta, InMicros
  <1> QED
    BY <1>1, <1>4, <1>5, <1>6, <1>7, <1>9 DEF TimeDelta, Normal, all
-----------------------------------------------------------------------------
(* Numbers across the boundary. *)

\* The values that encodeValue takes for numbers.
Numeric(n) == {IntVal(n), BigInt(n), Duration(n)}

\* Sign and magnitude are the number.
LEMMA BigReads ==
  ASSUME NEW n \in Int
  PROVE  /\ ReadsNumber(EncodeBigInt(n)) = [k |-> "number", n |-> n]
         /\ DecodeNumber(EncodeBigInt(n)) = BigInt(n)
         /\ Normal(EncodeBigInt(n))
  <1> DEFINE e == EncodeBigInt(n)
  <1>1. e.k = "big" /\ e.negative = (n < 0) /\ e.magnitude = IF n < 0 THEN -n ELSE n
    BY DEF EncodeBigInt
  <1> HIDE DEF e
  <1>2. (IF e.negative THEN -e.magnitude ELSE e.magnitude) = n
    <2>1. CASE n < 0
      <3>1. e.magnitude = -n /\ -(-n) = n
        BY <1>1, <2>1
      <3>2. e.negative
        BY <1>1, <2>1
      <3> QED
        BY <3>1, <3>2
    <2>2. CASE ~(n < 0)
      <3>1. e.magnitude = n
        BY <1>1, <2>2
      <3>2. ~e.negative
        BY <1>1, <2>2
      <3> QED
        BY <3>1, <3>2
    <2> QED
      BY <2>1, <2>2
  <1>3. ReadsNumber(e) = [k |-> "number", n |-> n]
    BY <1>1, <1>2 DEF ReadsNumber
  <1>4. DecodeNumber(e) = BigInt(n) /\ Normal(e)
    BY <1>1, <1>2 DEF DecodeNumber, Normal
  <1> QED
    BY <1>3, <1>4 DEF e

(***************************************************************************)
(* What the worker reads is the number or the time the host meant, for     *)
(* every integer, on either side of the limits of int64.                   *)
(***************************************************************************)
THEOREM NumbersArrive ==
  ASSUME NEW n \in Int, NEW v \in Numeric(n)
  PROVE  /\ ReadsNumber(EncodeNumber(v)) = MeansNumber(v)
         /\ Normal(EncodeNumber(v))
  <1>1. CASE v = IntVal(n)
    <2>1. EncodeNumber(v) = EncodeInt(n)
      BY <1>1 DEF EncodeNumber, IntVal
    <2>2. CASE n \in (-MaxInt64 - 1)..MaxInt64
      BY <1>1, <2>1, <2>2 DEF EncodeInt, IntVal, ReadsNumber, MeansNumber, Normal
    <2>3. CASE n \notin (-MaxInt64 - 1)..MaxInt64
      <3>1. EncodeNumber(v) = EncodeBigInt(n)
        BY <2>1, <2>3 DEF EncodeInt
      <3>2. MeansNumber(v) = [k |-> "number", n |-> n]
        BY <1>1 DEF IntVal, MeansNumber
      <3> QED
        BY <3>1, <3>2, BigReads
    <2> QED
      BY <2>2, <2>3
  <1>2. CASE v = BigInt(n)
    <2>1. EncodeNumber(v) = EncodeBigInt(n) /\ MeansNumber(v) = [k |-> "number", n |-> n]
      BY <1>2 DEF EncodeNumber, BigInt, MeansNumber
    <2> QED
      BY <2>1, BigReads
  <1>3. CASE v = Duration(n)
    <2>1. EncodeNumber(v) = EncodeDuration(n) /\ MeansNumber(v) = [k |-> "micros", n |-> Quo(n, Micro)]
      BY <1>3 DEF EncodeNumber, Duration, MeansNumber
    <2>2. EncodeDuration(n).k = "timedelta"
      BY DEF EncodeDuration, TimeDelta
    <2>3. ReadsNumber(EncodeDuration(n)) = [k |-> "micros", n |-> InMicros(EncodeDuration(n))]
      BY <2>2 DEF ReadsNumber
    <2> QED
      BY <2>1, <2>3, DurationsNormal
  <1> QED
    BY <1>1, <1>2, <1>3 DEF Numeric

(***************************************************************************)
(* A number that the program sends back is decoded to a Go value of the    *)
(* same meaning: no integer loses its sign or its upper bits on the way    *)
(* there and back.                                                         *)
(***************************************************************************)
THEOREM NumbersReturn ==
  ASSUME NEW n \in Int, NEW v \in Numeric(n)
  PROVE  MeansNumber(DecodeNumber(EncodeNumber(v))) = MeansNumber(v)
  <1> DEFINE e == EncodeNumber(v)
  <1>1. \/ e = IntVal(n)
        \/ e = EncodeBigInt(n)
        \/ e = EncodeDuration(n)
    BY DEF Numeric, EncodeNumber, EncodeInt, IntVal, BigInt, Duration
  <1>2. ReadsNumber(e) = MeansNumber(v)
    BY NumbersArrive
  <1>3. MeansNumber(DecodeNumber(e)) = ReadsNumber(e)
    <2> HIDE DEF e
    <2>1. CASE e = IntVal(n)
      BY <2>1 DEF IntVal, DecodeNumber, MeansNumber, ReadsNumber
    <2>2. CASE e = EncodeBigInt(n)
      BY <2>2, BigReads DEF BigInt, MeansNumber
    <2>3. CASE e = EncodeDuration(n)
      <3>1. e.k = "timedelta"
        BY <2>3 DEF EncodeDuration, TimeDelta
      <3> QED
        BY <3>1 DEF DecodeNumber, MeansNumber, ReadsNumber
    <2> QED
      BY <1>1, <2>1, <2>2, <2>3
  <1> QED
    BY <1>2, <1>3
-----------------------------------------------------------------------------
(* The first of the failures exists: a set of numbers has a least one. *)

Less == {ss \in Nat \X Nat : ss[1] < ss[2]}

LEMMA LessWellFounded == IsWellFoundedOn(Less, Nat)
  <1>1. IsWellFoundedOn({ss \in Nat \X Nat : ss[1] < ss[2]}, Nat)
    BY NatLessThanWellFounded DEF OpToRel
  <1> QED
    BY <1>1 DEF Less

LEMMA LeastNumber ==
  ASSUME NEW S \in SUBSET Nat, S # {}
  PROVE  \E m \in S : \A i \in S : m <= i
  <1>1. PICK m \in S : \A i \in S : ~(<<i, m>> \in Less)
    BY LessWellFounded, WFMin
  <1>2. ASSUME NEW i \in S
        PROVE  m <= i
    <2>1. <<i, m>> \notin Less
      BY <1>1
    <2> QED
      BY <2>1 DEF Less
  <1> QED
    BY <1>2

\* Together is Done if every part is, and the first failure if not.
LEMMA TogetherExact ==
  ASSUME NEW n \in Nat, NEW P, P = [i \in 1..n |-> P[i]],
         \A i \in 1..n : P[i].ok \in BOOLEAN
  PROVE  /\ Together(P).ok <=> \A i \in 1..n : P[i].ok
         /\ Together(P).ok => Together(P) = Done([i \in 1..n |-> P[i].val])
  <1> DEFINE bad == {i \in DOMAIN P : ~P[i].ok}
             first == CHOOSE i \in bad : \A j \in bad : i <= j
  <1>1. DOMAIN P = 1..n
    OBVIOUS
  <1>2. CASE bad = {}
    <2>1. Together(P) = Done([i \in 1..n |-> P[i].val])
      BY <1>1, <1>2 DEF Together
    <2>2. \A i \in 1..n : P[i].ok
      BY <1>1, <1>2
    <2> QED
      BY <2>1, <2>2 DEF Done
  <1>3. CASE bad # {}
    <2>1. bad \in SUBSET Nat
      BY <1>1
    <2>2. \E i \in bad : \A j \in bad : i <= j
      BY <1>3, <2>1, LeastNumber
    <2>3. first \in bad
      BY <2>2
    <2>4. Together(P) = P[first]
      BY <1>3 DEF Together
    <2> QED
      BY <1>1, <2>3, <2>4
  <1> QED
    BY <1>2, <1>3
-----------------------------------------------------------------------------
(* References. *)

LEMMA ArenaRefExact ==
  ASSUME NEW vs, Len(vs) \in Nat, NEW r \in Nat, NEW total
  PROVE  /\ ArenaRef(vs, r, total).ok \in BOOLEAN
         /\ ArenaRef(vs, r, total).ok <=> r < Len(vs)
         /\ r < Len(vs) => ArenaRef(vs, r, total).val = vs[r + 1]
  BY DEF ArenaRef, Done, Fails

\* The values that references lead to.
Led(vs, refs) == [j \in DOMAIN refs |-> vs[refs[j] + 1]]

\* References are taken if each leads to a value that is already decoded.
LEMMA ReferencesExact ==
  ASSUME NEW vs, Len(vs) \in Nat, NEW refs \in Seq(Nat), NEW total
  PROVE  /\ References(vs, refs, total).ok <=> \A j \in DOMAIN refs : refs[j] < Len(vs)
         /\ References(vs, refs, total).ok => References(vs, refs, total).val = Led(vs, refs)
  <1> DEFINE P == [j \in DOMAIN refs |-> ArenaRef(vs, refs[j], total)]
             n == Len(refs)
  <1>1. n \in Nat /\ DOMAIN refs = 1..n /\ P = [j \in 1..n |-> P[j]]
    OBVIOUS
  <1>2. \A j \in 1..n : /\ P[j].ok \in BOOLEAN
                        /\ P[j].ok <=> refs[j] < Len(vs)
                        /\ P[j].ok => P[j].val = vs[refs[j] + 1]
    BY ArenaRefExact
  <1>3. References(vs, refs, total) = Together(P)
    BY DEF References
  <1> HIDE DEF P, n
  <1>4. /\ Together(P).ok <=> \A j \in 1..n : P[j].ok
        /\ Together(P).ok => Together(P) = Done([j \in 1..n |-> P[j].val])
    BY <1>1, <1>2, TogetherExact
  <1>5. ASSUME Together(P).ok
        PROVE  Together(P).val = Led(vs, refs)
    <2>1. Together(P).val = [j \in 1..n |-> P[j].val]
      BY <1>4, <1>5 DEF Done
    <2>2. \A j \in 1..n : P[j].val = vs[refs[j] + 1]
      BY <1>2, <1>4, <1>5
    <2> QED
      BY <1>1, <2>1, <2>2 DEF Led
  <1> QED
    BY <1>1, <1>2, <1>3, <1>4, <1>5
-----------------------------------------------------------------------------
(* The inductive invariant. *)

\* Every reference of values leads to an object.
InHeap == \A i \in DOMAIN values : values[i].k = "ref" => values[i].at \in DOMAIN objects

DecoderInv ==
  /\ IsEvent(mail)
  /\ IsSequence(objects) /\ IsSequence(values)
  /\ Len(values) <= Len(mail.nodes)
  /\ InHeap
  /\ DecodedNodeByNode

\* The node at which decodeArena is, and what it must be decoded to.
Now == Len(values) + 1
Node == mail.nodes[Now][1]
Outcome == DecodeNode(objects, values, mail.nodes[Now], Len(mail.nodes))
Contents(n) == Led(values, n.kids)
Kind(n) == IF n.k = "list" THEN "slice" ELSE n.k

LEMMA ScalarDecoded ==
  ASSUME NEW n, IsNode(n), "kids" \notin DOMAIN n
  PROVE  LET x == DecodeScalar(n)
         IN /\ x.ok \in BOOLEAN
            /\ x.ok <=> n.k # "unknown"
            /\ n.k = "none" => x.val = Nil
            /\ n.k \in {"str", "marker"} => x.val = n
            /\ n.k \in WireNumbers => x.val = DecodeNumber(n)
            /\ n.k \notin {"instance", "class", "module"}
  <1>1. n.k \in {"none", "str", "marker", "unknown", "int", "big", "timedelta"}
    BY DEF IsNode, WireNumbers
  <1>2. CASE n.k = "none"
    BY <1>2 DEF DecodeScalar, Done, WireNumbers
  <1>3. CASE n.k \in {"str", "marker"}
    BY <1>3 DEF DecodeScalar, Done, WireNumbers
  <1>4. CASE n.k \in {"int", "big", "timedelta"}
    BY <1>4 DEF DecodeScalar, Done, WireNumbers
  <1>5. CASE n.k = "unknown"
    BY <1>5 DEF DecodeScalar, Fails, WireNumbers
  <1> QED
    BY <1>1, <1>2, <1>3, <1>4, <1>5

\* Every number of a message, not only one that the host has sent, is decoded
\* to a Go value of the same meaning.
LEMMA NumberDecoded ==
  ASSUME NEW n, n.k \in WireNumbers, "kids" \notin DOMAIN n
  PROVE  LET v == DecodeNumber(n)
         IN /\ v.k \in {"int", "bigint", "timedelta"} /\ "kids" \notin DOMAIN v
            /\ MeansNumber(v) = ReadsNumber(n)
  <1>1. CASE n.k = "int"
    <2>1. DecodeNumber(n) = n
      BY <1>1 DEF DecodeNumber
    <2> QED
      BY <1>1, <2>1 DEF MeansNumber, ReadsNumber
  <1>2. CASE n.k = "timedelta"
    <2>1. DecodeNumber(n) = n
      BY <1>2 DEF DecodeNumber
    <2> QED
      BY <1>2, <2>1 DEF MeansNumber, ReadsNumber
  <1>3. CASE n.k = "big"
    <2> DEFINE m == IF n.negative THEN -n.magnitude ELSE n.magnitude
    <2>1. DecodeNumber(n) = BigInt(m)
      BY <1>3 DEF DecodeNumber
    <2>2. ReadsNumber(n) = [k |-> "number", n |-> m]
      BY <1>3 DEF ReadsNumber
    <2> HIDE DEF m
    <2> QED
      BY <2>1, <2>2 DEF BigInt, MeansNumber
  <1> QED
    BY <1>1, <1>2, <1>3 DEF WireNumbers

\* Among the decoded values, those of classes that are no builtins are classes,
\* and no others are.
LEMMA ClassesAreClasses ==
  ASSUME DecoderInv, NEW i \in DOMAIN values
  PROVE  LET n == mail.nodes[i][1]
         IN Deref(objects, values[i]).k = "class" <=> n.k = "class" /\ n.origin # "builtin"
  <1> DEFINE n == mail.nodes[i][1]
             v == values[i]
             c == Deref(objects, v)
  <1>1. Sound(mail.nodes, i) /\ Mirrors(mail.nodes, objects, values, i)
    BY DEF DecoderInv, DecodedNodeByNode
  <1>2. IsNode(n) /\ n.k # "unknown"
    BY <1>1 DEF DecoderInv, IsEvent, IsSequence, Sound
  <1>3. CASE "kids" \in DOMAIN n /\ ~BuiltinNode(n)
    <2>1. c.k = IF n.k = "list" THEN "slice" ELSE n.k
      BY <1>1, <1>3 DEF Mirrors
    <2> QED
      BY <1>2, <1>3, <2>1 DEF BuiltinNode
  <1>4. CASE BuiltinNode(n)
    <2>1. v = Type
      BY <1>1, <1>4 DEF Mirrors
    <2> QED
      BY <1>4, <2>1 DEF BuiltinNode, Deref, Type
  <1>5. CASE "kids" \notin DOMAIN n
    <2>1. n.k \in {"none", "str", "marker"} \cup WireNumbers
      BY <1>2, <1>5 DEF IsNode
    <2>2. v.k \in {"nil", "str", "marker", "int", "bigint", "timedelta"}
      BY <1>1, <2>1 DEF Mirrors, Nil
    <2>3. c = v
      BY <2>2 DEF Deref
    <2> QED
      BY <2>1, <2>2, <2>3 DEF WireNumbers
  <1> QED
    BY <1>3, <1>4, <1>5

\* A module is taken if its fields are those of a complete one.
LEMMA ModuleDecoded ==
  ASSUME NEW n, n.k = "module", n.fields \in Seq(ModuleFields), NEW attrs, NEW messages
  PROVE  LET x == DecodeModule(n, attrs)
         IN /\ x.ok <=> CompleteNode(messages, n)
            /\ x.ok => x.val = Box("module", attrs)
  <1> DEFINE F == n.fields
             D == DOMAIN F
             seen == {F[i] : i \in D}
             repeated == \E i, j \in D : i # j /\ F[i] = F[j]
             refused == repeated \/ {"bad", "odd"} \cap seen # {} \/ ~({"uuid", "attrs"} \subseteq seen)
  <1>1. DecodeModule(n, attrs) = IF refused THEN Fails("module") ELSE Done(Box("module", attrs))
    BY DEF DecodeModule
  <1>2. \A i \in D : F[i] \in {"name", "uuid", "bad", "attrs", "odd"}
    BY DEF ModuleFields
  <1>3. CompleteNode(messages, n) <=>
          /\ Once(F, "uuid") /\ Once(F, "attrs")
          /\ Once(F, "name") \/ Never(F, "name")
          /\ Never(F, "bad") /\ Never(F, "odd")
    BY DEF CompleteNode
  <1>4. {"bad", "odd"} \cap seen = {} <=> Never(F, "bad") /\ Never(F, "odd")
    BY DEF Never
  <1>5. {"uuid", "attrs"} \subseteq seen <=> ~Never(F, "uuid") /\ ~Never(F, "attrs")
    BY DEF Never
  <1>6. ASSUME NEW f
        PROVE  ~repeated => Once(F, f) \/ Never(F, f)
    BY DEF Once, Never
  <1>7. ASSUME NEW f, Once(F, f)
        PROVE  ~Never(F, f) /\ \A i, j \in D : F[i] = f /\ F[j] = f => i = j
    BY <1>7 DEF Once, Never
  <1>8. ~refused <=> CompleteNode(messages, n)
    <2>1. ASSUME ~refused
          PROVE  CompleteNode(messages, n)
      BY <1>3, <1>4, <1>5, <1>6, <2>1
    <2>2. ASSUME CompleteNode(messages, n)
          PROVE  ~refused
      <3>1. /\ Once(F, "uuid") /\ Once(F, "attrs") /\ Never(F, "bad") /\ Never(F, "odd")
            /\ Once(F, "name") \/ Never(F, "name")
        BY <1>3, <2>2
      <3>2. ~repeated
        <4>1. SUFFICES ASSUME NEW i \in D, NEW j \in D, F[i] = F[j] PROVE i = j
          OBVIOUS
        <4>2. F[i] \in {"name", "uuid", "attrs"}
          BY <1>2, <3>1 DEF Never
        <4>3. CASE F[i] = "uuid"
          BY <1>7, <3>1, <4>1, <4>3
        <4>4. CASE F[i] = "attrs"
          BY <1>7, <3>1, <4>1, <4>4
        <4>5. CASE F[i] = "name"
          <5>1. Once(F, "name")
            BY <3>1, <4>5 DEF Never
          <5> QED
            BY <1>7, <4>1, <4>5, <5>1
        <4> QED
          BY <4>2, <4>3, <4>4, <4>5
      <3>3. ~Never(F, "uuid") /\ ~Never(F, "attrs")
        BY <1>7, <3>1
      <3> HIDE DEF repeated, seen
      <3> QED
        BY <1>4, <1>5, <3>1, <3>2, <3>3
    <2> QED
      BY <2>1, <2>2
  <1> HIDE DEF refused
  <1> QED
    BY <1>1, <1>8 DEF Done, Fails

LEMMA ContainerDecoded ==
  ASSUME DecoderInv, Len(values) < Len(mail.nodes), Len(mail.nodes[Now]) = 1,
         "kids" \in DOMAIN Node
  PROVE  LET x == DecodeContainer(objects, values, Node, Len(mail.nodes))
         IN /\ x.ok <=> Sound(mail.nodes, Now)
            /\ x.ok /\ BuiltinNode(Node) => x.val = Type
            /\ x.ok /\ ~BuiltinNode(Node) => x.val = Box(Kind(Node), Contents(Node))
  <1> DEFINE refs == References(values, Node.kids, Len(mail.nodes))
             x == DecodeContainer(objects, values, Node, Len(mail.nodes))
             n == Len(Node.kids)
  <1>1. Now \in DOMAIN mail.nodes /\ Len(values) \in Nat /\ DOMAIN values = 1..Len(values)
    BY DEF DecoderInv, IsEvent, IsSequence, Now
  <1>2. IsNode(Node)
    BY <1>1 DEF DecoderInv, IsEvent, Node
  <1>3. /\ Node.k \in {"list", "dict", "module", "ntuple", "instance", "class"}
        /\ Node.kids \in Seq(Nat)
        /\ Node.k = "class" => Node.origin \in {"none", "builtin", "sandbox", "host"} /\ Node.id \in Identities
        /\ Node.k = "instance" => Node.kids # <<>>
        /\ Node.k = "module" => Node.fields \in Seq(ModuleFields)
    BY <1>2 DEF IsNode
  <1>4. n \in Nat /\ DOMAIN Node.kids = 1..n /\ \A j \in 1..n : Node.kids[j] \in Nat
    BY <1>3
  <1>5. /\ refs.ok <=> \A j \in 1..n : Node.kids[j] < Len(values)
        /\ refs.ok => refs.val = Contents(Node)
    <2> HIDE DEF n
    <2>1. Len(values) \in Nat /\ Node.kids \in Seq(Nat)
      BY <1>1, <1>3
    <2> QED
      BY <1>4, <2>1, ReferencesExact DEF Contents
  <1>6. Sound(mail.nodes, Now) <=> refs.ok /\ CompleteNode(mail.nodes, Node)
    <2>1. refs.ok <=> \A j \in DOMAIN Node.kids : Node.kids[j] < Now - 1
      <3>1. Now - 1 = Len(values)
        BY <1>1 DEF Now
      <3> HIDE DEF refs
      <3> QED
        BY <1>4, <1>5, <3>1
    <2>2. Node.k # "unknown"
      BY <1>3
    <2> HIDE DEF refs, n
    <2> QED
      BY <2>1, <2>2 DEF Sound, Node
  <1> HIDE DEF refs, n
  <1>7. CASE ~refs.ok
    <2>1. x = refs
      BY <1>7 DEF DecodeContainer, refs
    <2> QED
      BY <1>6, <1>7, <2>1
  <1>8. CASE refs.ok /\ Node.k = "class"
    <2>1. x = DecodeClass(Node, refs.val)
      BY <1>8 DEF DecodeContainer, refs
    <2> DEFINE odd == \/ Node.id = "bad" \/ Node.origin \notin {"builtin", "sandbox", "host"}
                      \/ (Node.id = "none") # (Node.origin = "builtin")
    <2>2. CompleteNode(mail.nodes, Node) <=>
            \/ Node.origin \in {"sandbox", "host"} /\ Node.id = "uuid"
            \/ Node.origin = "builtin" /\ Node.id = "none"
      BY <1>8 DEF CompleteNode
    <2>3. odd <=> ~CompleteNode(mail.nodes, Node)
      BY <1>3, <1>8, <2>2 DEF Identities
    <2>4. x = IF odd THEN Fails("class") ELSE Done(IF Node.origin = "builtin" THEN Type ELSE Box("class", refs.val))
      BY <2>1 DEF DecodeClass
    <2>5. Kind(Node) = "class" /\ (BuiltinNode(Node) <=> Node.origin = "builtin")
      BY <1>8 DEF Kind, BuiltinNode
    <2> HIDE DEF odd
    <2>6. CASE odd
      BY <1>6, <2>3, <2>4, <2>6 DEF Fails
    <2>7. CASE ~odd
      BY <1>5, <1>6, <1>8, <2>3, <2>4, <2>5, <2>7 DEF Done
    <2> QED
      BY <2>6, <2>7
  <1>9. CASE refs.ok /\ Node.k = "instance"
    <2> DEFINE class == mail.nodes[Node.kids[1] + 1][1]
    <2>1. x = DecodeInstance(objects, Node, refs.val)
      BY <1>9 DEF DecodeContainer, refs
    <2>2. Deref(objects, refs.val[1]).k = "class" <=> class.k = "class" /\ class.origin # "builtin"
      <3>1. 1 \in 1..n
        BY <1>3, <1>4, <1>9 DEF n
      <3>2. Node.kids[1] + 1 \in DOMAIN values
        BY <1>1, <1>4, <1>5, <1>9, <3>1
      <3>3. refs.val[1] = values[Node.kids[1] + 1]
        BY <1>4, <1>5, <1>9, <3>1 DEF Contents, Led
      <3> QED
        BY <3>2, <3>3, ClassesAreClasses
    <2>3. CompleteNode(mail.nodes, Node) <=>
            Node.id = "uuid" /\ class.k = "class" /\ class.origin # "builtin"
      BY <1>9 DEF CompleteNode
    <2> HIDE DEF class
    <2>4. CASE Node.id = "uuid" /\ Deref(objects, refs.val[1]).k = "class"
      <3>1. x = Done(Box("instance", refs.val))
        BY <2>1, <2>4 DEF DecodeInstance
      <3>2. Sound(mail.nodes, Now)
        BY <1>6, <1>9, <2>2, <2>3, <2>4
      <3> QED
        BY <1>5, <1>9, <3>1, <3>2 DEF Done, Kind, BuiltinNode
    <2>5. CASE ~(Node.id = "uuid" /\ Deref(objects, refs.val[1]).k = "class")
      <3>1. x = Fails("class")
        BY <2>1, <2>5 DEF DecodeInstance
      <3>2. ~Sound(mail.nodes, Now)
        BY <1>6, <1>9, <2>2, <2>3, <2>5
      <3> QED
        BY <3>1, <3>2 DEF Fails
    <2> QED
      BY <2>4, <2>5
  <1>10. CASE refs.ok /\ Node.k = "module"
    <2>1. x = DecodeModule(Node, refs.val)
      BY <1>10 DEF DecodeContainer, refs
    <2>2. /\ x.ok <=> CompleteNode(mail.nodes, Node)
          /\ x.ok => x.val = Box("module", refs.val)
      <3>1. Node.k = "module" /\ Node.fields \in Seq(ModuleFields)
        BY <1>3, <1>10
      <3> DEFINE y == DecodeModule(Node, refs.val)
      <3>2. /\ y.ok <=> CompleteNode(mail.nodes, Node)
            /\ y.ok => y.val = Box("module", refs.val)
        BY ONLY <3>1, ModuleDecoded
      <3> HIDE DEF x, y
      <3>3. x = y
        BY <2>1 DEF y
      <3> QED
        BY ONLY <3>2, <3>3
    <2> QED
      BY <1>5, <1>6, <1>10, <2>2 DEF Kind, BuiltinNode
  <1>11. CASE refs.ok /\ Node.k \notin {"class", "instance", "module"}
    <2>1. x = Done(Box(IF Node.k = "list" THEN "slice" ELSE Node.k, refs.val))
      BY <1>11 DEF DecodeContainer, refs
    <2>2. Sound(mail.nodes, Now)
      BY <1>6, <1>11 DEF CompleteNode
    <2> QED
      BY <1>5, <1>11, <2>1, <2>2 DEF Done, Kind, BuiltinNode
  <1> QED
    BY <1>7, <1>8, <1>9, <1>10, <1>11

(***************************************************************************)
(* One step of decodeArena: a node is decoded if it is well formed, and    *)
(* only then, and its value mirrors it.                                    *)
(***************************************************************************)
LEMMA NodeDecoded ==
  ASSUME DecoderInv, Len(values) < Len(mail.nodes)
  PROVE  /\ Outcome.ok <=> Sound(mail.nodes, Now)
         /\ Outcome.ok =>
              /\ Node.k = "none" => Outcome.val = Nil
              /\ Node.k \in {"str", "marker"} => Outcome.val = Node
              /\ Node.k \in WireNumbers =>
                   /\ Outcome.val.k \in {"int", "bigint", "timedelta"}
                   /\ MeansNumber(Outcome.val) = ReadsNumber(Node)
              /\ BuiltinNode(Node) => Outcome.val = Type
              /\ "kids" \in DOMAIN Node /\ ~BuiltinNode(Node) =>
                   Outcome.val = Box(Kind(Node), Contents(Node))
              /\ "kids" \in DOMAIN Outcome.val <=> "kids" \in DOMAIN Node /\ ~BuiltinNode(Node)
  <1>1. Now \in DOMAIN mail.nodes /\ Len(mail.nodes[Now]) \in Nat
    BY DEF DecoderInv, IsEvent, IsSequence, Now
  <1>2. CASE Len(mail.nodes[Now]) # 1
    <2>1. Outcome = Fails("kinds")
      BY <1>2 DEF Outcome, DecodeNode
    <2>2. ~Sound(mail.nodes, Now)
      BY <1>2 DEF Sound
    <2> QED
      BY <2>1, <2>2 DEF Fails
  <1>3. CASE Len(mail.nodes[Now]) = 1 /\ "kids" \in DOMAIN Node
    <2>1. Outcome = DecodeContainer(objects, values, Node, Len(mail.nodes))
      BY <1>3 DEF Outcome, DecodeNode, Node
    <2>2. IsNode(Node)
      BY <1>1, <1>3 DEF DecoderInv, IsEvent, Node
    <2>3. Node.k \in {"list", "dict", "module", "ntuple", "instance", "class"}
      BY <1>3, <2>2 DEF IsNode
    <2>4. "kids" \in DOMAIN Box(Kind(Node), Contents(Node)) /\ "kids" \notin DOMAIN Type
      BY DEF Box, Type
    <2>5. /\ Outcome.ok <=> Sound(mail.nodes, Now)
          /\ Outcome.ok /\ BuiltinNode(Node) => Outcome.val = Type
          /\ Outcome.ok /\ ~BuiltinNode(Node) => Outcome.val = Box(Kind(Node), Contents(Node))
      BY <1>3, <2>1, ContainerDecoded
    <2> QED
      BY <1>3, <2>3, <2>4, <2>5 DEF WireNumbers
  <1>4. CASE Len(mail.nodes[Now]) = 1 /\ "kids" \notin DOMAIN Node
    <2>1. Outcome = DecodeScalar(Node)
      BY <1>4 DEF Outcome, DecodeNode, Node
    <2>2. IsNode(Node)
      BY <1>1, <1>4 DEF DecoderInv, IsEvent, Node
    <2>3. /\ Outcome.ok <=> Node.k # "unknown"
          /\ Node.k = "none" => Outcome.val = Nil
          /\ Node.k \in {"str", "marker"} => Outcome.val = Node
          /\ Node.k \in WireNumbers => Outcome.val = DecodeNumber(Node)
          /\ Node.k \notin {"instance", "class", "module"}
      BY <1>4, <2>1, <2>2, ScalarDecoded
    <2>4. Sound(mail.nodes, Now) <=> Node.k # "unknown"
      BY <1>4, <2>3 DEF Sound, CompleteNode, Node
    <2>5. Node.k \in WireNumbers =>
            /\ Outcome.val.k \in {"int", "bigint", "timedelta"} /\ "kids" \notin DOMAIN Outcome.val
            /\ MeansNumber(Outcome.val) = ReadsNumber(Node)
      BY <1>4, <2>3, NumberDecoded
    <2>6. Outcome.ok => "kids" \notin DOMAIN Outcome.val
      <3>1. "kids" \notin DOMAIN Nil
        BY DEF Nil
      <3>2. Outcome.ok => Node.k \in {"none", "str", "marker"} \cup WireNumbers
        BY <1>4, <2>2, <2>3 DEF IsNode
      <3> QED
        BY <1>4, <2>3, <2>5, <3>1, <3>2
    <2> QED
      BY <1>4, <2>3, <2>4, <2>5, <2>6 DEF BuiltinNode
  <1> QED
    BY <1>2, <1>3, <1>4
-----------------------------------------------------------------------------
(* Sequences of anything. *)

LEMMA SequenceIsSeq ==
  ASSUME NEW s, IsSequence(s)
  PROVE  s \in Seq({s[i] : i \in 1..Len(s)})
  BY DEF IsSequence

LEMMA SeqIsSequence ==
  ASSUME NEW S, NEW s \in Seq(S)
  PROVE  IsSequence(s)
  BY DEF IsSequence

LEMMA SeqElement ==
  ASSUME NEW S, NEW s \in Seq(S), NEW i \in 1..Len(s)
  PROVE  s[i] \in S
  OBVIOUS

LEMMA Appended ==
  ASSUME NEW s, IsSequence(s), NEW e
  PROVE  /\ IsSequence(Append(s, e))
         /\ Len(Append(s, e)) = Len(s) + 1
         /\ DOMAIN s = 1..Len(s) /\ DOMAIN Append(s, e) = 1..(Len(s) + 1)
         /\ \A i \in 1..Len(s) : Append(s, e)[i] = s[i]
         /\ Append(s, e)[Len(s) + 1] = e
  <1> DEFINE S == {s[i] : i \in 1..Len(s)} \cup {e}
  <1>1. s \in Seq(S) /\ e \in S
    BY SequenceIsSeq DEF IsSequence
  <1> HIDE DEF S
  <1>2. Append(s, e) \in Seq(S)
    BY <1>1
  <1>3. IsSequence(Append(s, e))
    BY <1>2, SeqIsSequence
  <1> QED
    BY <1>1, <1>2, <1>3

LEMMA LedIsSequence ==
  ASSUME NEW vs, NEW refs \in Seq(Nat)
  PROVE  IsSequence(Led(vs, refs)) /\ Len(Led(vs, refs)) = Len(refs)
  <1> DEFINE S == {vs[refs[j] + 1] : j \in 1..Len(refs)}
  <1>1. DOMAIN refs = 1..Len(refs) /\ Len(refs) \in Nat
    OBVIOUS
  <1>2. Led(vs, refs) \in Seq(S)
    BY <1>1 DEF Led
  <1>3. DOMAIN Led(vs, refs) = 1..Len(refs)
    BY <1>1 DEF Led
  <1> HIDE DEF S
  <1> QED
    BY <1>1, <1>2, <1>3 DEF IsSequence

\* A slice of the whole length is the whole.
LEMMA WholeSlice ==
  ASSUME NEW s, IsSequence(s)
  PROVE  SubSeq(s, 1, Len(s)) = s
  <1> DEFINE S == {s[i] : i \in 1..Len(s)}
  <1>1. s \in Seq(S)
    BY SequenceIsSeq
  <1> HIDE DEF S
  <1> QED
    BY <1>1
-----------------------------------------------------------------------------
(* The steps. *)

\* Objects are added, none is changed.
Grown ==
  /\ IsSequence(objects')
  /\ \A a \in DOMAIN objects : a \in DOMAIN objects' /\ objects'[a] = objects[a]

\* What is decoded stays as it was when another value, and perhaps another
\* object, is added.
LEMMA MirrorsKept ==
  ASSUME DecoderInv, Grown, values' = Append(values, values'[Now]), NEW i \in DOMAIN values
  PROVE  Mirrors(mail.nodes, objects', values', i) /\ values'[i] = values[i]
  <1> DEFINE n == mail.nodes[i][1]
  <1>1. Sound(mail.nodes, i) /\ Mirrors(mail.nodes, objects, values, i) /\ IsSequence(values) /\ IsSequence(objects)
    BY DEF DecoderInv, DecodedNodeByNode
  <1>2. i \in 1..Len(values) /\ Len(values) \in Nat /\ \A j \in 1..Len(values) : values'[j] = values[j]
    BY <1>1, Appended
  <1>3. \A a \in DOMAIN objects : a \in DOMAIN objects' /\ objects'[a] = objects[a]
    BY DEF Grown
  <1>4. CASE ~("kids" \in DOMAIN n /\ ~BuiltinNode(n))
    BY <1>1, <1>2, <1>4 DEF Mirrors
  <1>5. CASE "kids" \in DOMAIN n /\ ~BuiltinNode(n)
    <2>1. IsNode(n)
      BY <1>1 DEF DecoderInv, IsEvent, IsSequence, Sound
    <2>2. /\ n.k \in {"list", "dict", "module", "ntuple", "instance", "class"}
          /\ n.kids \in Seq(Nat)
      BY <1>5, <2>1 DEF IsNode
    <2>3. \A j \in DOMAIN n.kids : n.kids[j] + 1 \in 1..Len(values)
      <3>1. \A j \in DOMAIN n.kids : n.kids[j] < i - 1 /\ n.kids[j] \in Nat
        BY <1>1, <1>5, <2>2 DEF Sound
      <3> QED
        BY <1>2, <3>1
    <2>4. [j \in DOMAIN n.kids |-> values'[n.kids[j] + 1]] = [j \in DOMAIN n.kids |-> values[n.kids[j] + 1]]
      BY <1>2, <2>3
    <2>5. /\ values[i].k = "ref" /\ values[i].at \in DOMAIN objects
          /\ Deref(objects, values[i]).k = IF n.k = "list" THEN "slice" ELSE n.k
          /\ Deref(objects, values[i]).kids = [j \in DOMAIN n.kids |-> values[n.kids[j] + 1]]
      BY <1>1, <1>5 DEF Mirrors
    <2>6. Deref(objects', values'[i]) = Deref(objects, values[i])
      BY <1>2, <1>3, <2>5 DEF Deref
    <2>7. /\ values'[i].k = "ref" /\ values'[i].at \in DOMAIN objects'
          /\ Deref(objects', values'[i]).k = IF n.k = "list" THEN "slice" ELSE n.k
          /\ Deref(objects', values'[i]).kids = [j \in DOMAIN n.kids |-> values'[n.kids[j] + 1]]
      BY <1>2, <1>3, <2>4, <2>5, <2>6
    <2> QED
      BY <1>2, <1>5, <2>2, <2>7 DEF Mirrors, WireNumbers
  <1> QED
    BY <1>2, <1>4, <1>5

\* The invariant after a value has been added: it remains to show what is new.
LEMMA OneMore ==
  ASSUME DecoderInv, phase = "decoding", UNCHANGED <<phase, mail>>,
         Len(values) < Len(mail.nodes), Sound(mail.nodes, Now),
         Grown, values' = Append(values, values'[Now]),
         Mirrors(mail.nodes, objects', values', Now),
         values'[Now].k = "ref" => values'[Now].at \in DOMAIN objects' \ DOMAIN objects
  PROVE  DecoderInv'
  <1>1. IsSequence(values) /\ IsSequence(objects) /\ IsEvent(mail)
    BY DEF DecoderInv
  <1>2. /\ IsSequence(values')
        /\ Len(values') = Now /\ Now = Len(values) + 1 /\ Len(values) \in Nat
        /\ DOMAIN values = 1..Len(values) /\ DOMAIN values' = 1..Now
        /\ \A i \in 1..Len(values) : values'[i] = values[i]
    BY <1>1, Appended DEF Now, IsSequence
  <1>3. IsSequence(objects') /\ DOMAIN objects \subseteq DOMAIN objects'
    BY DEF Grown
  <1>4. IsEvent(mail)' /\ Len(values)' <= Len(mail.nodes)'
    <2>1. Len(mail.nodes) \in Nat
      BY <1>1 DEF IsEvent, IsSequence
    <2>2. Len(values') <= Len(mail'.nodes)
      BY <1>2, <2>1
    <2>3. IsEvent(mail')
      BY <1>1
    <2> QED
      BY <2>2, <2>3
  <1>5. \A i \in 1..Now : i \in 1..Len(values) \/ i = Now
    BY <1>2
  <1>6. InHeap'
    <2>1. ASSUME NEW i \in 1..Now, values'[i].k = "ref"
          PROVE  values'[i].at \in DOMAIN objects'
      <3>1. CASE i = Now
        BY <1>2, <2>1, <3>1
      <3>2. CASE i \in 1..Len(values)
        <4>1. values'[i] = values[i] /\ i \in DOMAIN values
          BY <1>2, <3>2
        <4>2. values[i].at \in DOMAIN objects
          BY <2>1, <4>1 DEF DecoderInv, InHeap
        <4> QED
          BY <1>3, <4>1, <4>2
      <3> QED
        BY <1>5, <3>1, <3>2
    <2> QED
      BY <1>2, <2>1 DEF InHeap
  <1>7. \A i \in DOMAIN values' : Sound(mail.nodes, i) /\ Mirrors(mail.nodes, objects', values', i)
    <2>1. ASSUME NEW i \in 1..Now
          PROVE  Sound(mail.nodes, i) /\ Mirrors(mail.nodes, objects', values', i)
      <3>1. CASE i = Now
        <4>1. Sound(mail.nodes, i)
          BY <3>1
        <4>2. Mirrors(mail.nodes, objects', values', i)
          BY <3>1
        <4> QED
          BY <4>1, <4>2
      <3>2. CASE i \in 1..Len(values)
        <4>1. i \in DOMAIN values
          BY <1>2, <3>2
        <4>2. Mirrors(mail.nodes, objects', values', i)
          BY <4>1, MirrorsKept
        <4>3. Sound(mail.nodes, i)
          BY <4>1 DEF DecoderInv, DecodedNodeByNode
        <4> QED
          BY <4>2, <4>3
      <3> QED
        BY <1>5, <3>1, <3>2
    <2> QED
      BY <1>2, <2>1
  <1>8. \A i, j \in DOMAIN values' :
          values'[i].k = "ref" /\ values'[j].k = "ref" /\ values'[i].at = values'[j].at => i = j
    <2>1. \A i, j \in 1..Len(values) :
            values[i].k = "ref" /\ values[j].k = "ref" /\ values[i].at = values[j].at => i = j
      BY <1>2 DEF DecoderInv, DecodedNodeByNode
    <2>2. \A i \in 1..Len(values) : values[i].k = "ref" => values[i].at \in DOMAIN objects
      BY <1>2 DEF DecoderInv, InHeap
    <2> QED
      BY <1>2, <1>5, <2>1, <2>2
  <1>9. DecodedNodeByNode'
    <2>1. phase' = "decoding"
      OBVIOUS
    <2> QED
      BY <1>7, <1>8, <2>1 DEF DecodedNodeByNode
  <1> QED
    BY <1>2, <1>3, <1>4, <1>6, <1>9 DEF DecoderInv

LEMMA ArenaStep ==
  ASSUME DecoderInv, DecodeArena
  PROVE  DecoderInv'
  <1>1. /\ phase = "decoding" /\ Len(values) < Len(mail.nodes) /\ mail' = mail
        /\ IsSequence(values) /\ IsSequence(objects) /\ IsEvent(mail)
    BY DEF DecodeArena, DecoderInv
  <1>2. Now = Len(values) + 1 /\ Now \in DOMAIN mail.nodes /\ Len(values) \in Nat
    BY <1>1 DEF IsSequence, IsEvent, Now
  <1>3. CASE Outcome.ok /\ "kids" \in DOMAIN Outcome.val
    <2> DEFINE v == Ref(Len(objects) + 1, Len(Outcome.val.kids))
    <2>1. /\ objects' = Append(objects, Outcome.val) /\ phase' = phase
          /\ values' = Append(values, v)
      <3>1. /\ objects' = Append(objects, Outcome.val) /\ phase' = phase
            /\ values' = Append(values, Ref(Len(objects'), Len(Outcome.val.kids)))
        BY <1>3 DEF DecodeArena, Outcome, Now
      <3>2. Len(objects') = Len(objects) + 1
        BY <1>1, <3>1, Appended
      <3> QED
        BY <3>1, <3>2
    <2>2. Outcome.val = Box(Kind(Node), Contents(Node)) /\ "kids" \in DOMAIN Node /\ ~BuiltinNode(Node)
      BY <1>1, <1>3, NodeDecoded
    <2>3. Sound(mail.nodes, Now)
      BY <1>1, <1>3, NodeDecoded
    <2>4. Len(mail.nodes[Now]) = 1 /\ IsNode(Node)
      BY <1>1, <1>2, <2>3 DEF Sound, IsEvent, Node
    <2>5. /\ Node.kids \in Seq(Nat)
          /\ Node.k \in {"list", "dict", "module", "ntuple", "instance", "class"}
      BY <2>2, <2>4 DEF IsNode
    <2>6. /\ Len(objects') = Len(objects) + 1 /\ Len(objects') \in DOMAIN objects'
          /\ Len(objects') \notin DOMAIN objects /\ objects'[Len(objects')] = Outcome.val
      <3>1. Len(objects) \in Nat
        BY <1>1 DEF IsSequence
      <3> QED
        BY <1>1, <2>1, <3>1, Appended
    <2>7. v.k = "ref" /\ v.at = Len(objects') /\ v.len = Len(Contents(Node))
      BY <2>2, <2>6 DEF Ref, Box
    <2>8. Deref(objects', v) = Box(Kind(Node), Contents(Node))
      <3>1. Deref(objects', v) = Box(Outcome.val.k, SubSeq(Outcome.val.kids, 1, v.len))
        BY <2>6, <2>7 DEF Deref
      <3>2. SubSeq(Contents(Node), 1, Len(Contents(Node))) = Contents(Node)
        BY <2>5, LedIsSequence, WholeSlice DEF Contents
      <3>3. Outcome.val.k = Kind(Node) /\ Outcome.val.kids = Contents(Node)
        BY <2>2 DEF Box
      <3> QED
        BY <2>7, <3>1, <3>2, <3>3
    <2>9. values'[Now] = v /\ \A i \in 1..Len(values) : values'[i] = values[i]
      BY <1>1, <1>2, <2>1, Appended
    <2>10. Mirrors(mail.nodes, objects', values', Now)
      <3>1. [j \in DOMAIN Node.kids |-> values'[Node.kids[j] + 1]] = Contents(Node)
        <4>1. \A j \in DOMAIN Node.kids : Node.kids[j] + 1 \in 1..Len(values)
          BY <1>2, <2>2, <2>3, <2>5 DEF Sound, Node
        <4> QED
          BY <2>9, <4>1 DEF Contents, Led
      <3>2. Deref(objects', v).k = Kind(Node) /\ Deref(objects', v).kids = Contents(Node)
        BY <2>8 DEF Box
      <3>3. ~(Node.k \in {"none", "str", "marker"} \cup WireNumbers)
        BY <2>5 DEF WireNumbers
      <3> HIDE DEF v
      <3> QED
        BY <2>2, <2>6, <2>7, <2>9, <3>1, <3>2, <3>3 DEF Mirrors, Node, Kind
    <2>11. Grown
      <3>1. DOMAIN objects = 1..Len(objects) /\ IsSequence(objects')
        BY <1>1, <2>1, Appended
      <3>2. \A a \in 1..Len(objects) : objects'[a] = objects[a] /\ a \in DOMAIN objects'
        <4>1. Len(objects) \in Nat
          BY <1>1 DEF IsSequence
        <4> QED
          BY <1>1, <2>1, <4>1, Appended
      <3> QED
        BY <3>1, <3>2 DEF Grown
    <2>12. values'[Now].k = "ref" => values'[Now].at \in DOMAIN objects' \ DOMAIN objects
      BY <2>6, <2>7, <2>9
    <2>13. values' = Append(values, values'[Now])
      BY <2>1, <2>9
    <2> HIDE DEF v
    <2> QED
      BY <1>1, <2>1, <2>3, <2>10, <2>11, <2>12, <2>13, OneMore
  <1>4. CASE Outcome.ok /\ "kids" \notin DOMAIN Outcome.val
    <2>1. objects' = objects /\ phase' = phase /\ values' = Append(values, Outcome.val)
      BY <1>4 DEF DecodeArena, Outcome, Now
    <2>2. Sound(mail.nodes, Now)
      BY <1>1, <1>4, NodeDecoded
    <2>3. values'[Now] = Outcome.val
      BY <1>1, <1>2, <2>1, Appended
    <2>4. /\ Node.k = "none" => Outcome.val = Nil
          /\ Node.k \in {"str", "marker"} => Outcome.val = Node
          /\ Node.k \in WireNumbers =>
               /\ Outcome.val.k \in {"int", "bigint", "timedelta"}
               /\ MeansNumber(Outcome.val) = ReadsNumber(Node)
          /\ BuiltinNode(Node) => Outcome.val = Type
          /\ ~("kids" \in DOMAIN Node /\ ~BuiltinNode(Node))
      BY <1>1, <1>4, NodeDecoded
    <2>5. Mirrors(mail.nodes, objects', values', Now)
      BY <2>3, <2>4 DEF Mirrors, Node
    <2>6. Outcome.val.k # "ref"
      <3>1. IsNode(Node) /\ Node.k # "unknown"
        BY <1>1, <1>2, <2>2 DEF Sound, IsEvent, Node
      <3>2. Node.k \in {"none", "str", "marker"} \cup WireNumbers \/ BuiltinNode(Node)
        BY <2>4, <3>1 DEF IsNode
      <3> QED
        BY <2>4, <3>2 DEF Nil, Type
    <2> QED
      BY <1>1, <2>1, <2>2, <2>3, <2>5, <2>6, OneMore DEF Grown
  <1>5. CASE ~Outcome.ok
    <2>1. phase' = "lost" /\ UNCHANGED <<objects, values, got, mail>>
      BY <1>1, <1>5 DEF DecodeArena, Outcome, Undecodable, Now
    <2>2. ~Sound(mail.nodes, Now)
      BY <1>1, <1>5, NodeDecoded
    <2>3. ~WellFormed(mail.nodes)
      BY <1>2, <2>2 DEF WellFormed
    <2>4. DecodedNodeByNode'
      BY <2>1, <2>3 DEF DecoderInv, DecodedNodeByNode
    <2> QED
      BY <2>1, <2>4 DEF DecoderInv, InHeap
  <1> QED
    BY <1>3, <1>4, <1>5

\* The references of a call, and those of its keywords.
Keys == [i \in DOMAIN mail.kwargs |-> mail.kwargs[i].key]
Vals == [i \in DOMAIN mail.kwargs |-> mail.kwargs[i].value]

LEMMA CallStep ==
  ASSUME DecoderInv, DecodeCall
  PROVE  DecoderInv'
  <1> DEFINE Take(refs) == References(values, refs, Len(mail.nodes))
             all == Take(mail.args).ok /\ Take(Keys).ok /\ Take(Vals).ok /\ mail.kind # "stray"
  <1>1. /\ phase = "decoding" /\ Len(values) = Len(mail.nodes)
        /\ mail' = mail /\ objects' = objects /\ values' = values
    BY DEF DecodeCall, Undecodable
  <1>2. /\ IsSequence(values) /\ IsSequence(objects) /\ Len(values) \in Nat
        /\ DOMAIN values = DOMAIN mail.nodes
        /\ mail.args \in Seq(Nat) /\ mail.kwargs \in Seq([key : Nat, value : Nat])
    BY <1>1 DEF DecoderInv, IsEvent, IsSequence
  <1>3. /\ Keys \in Seq(Nat) /\ DOMAIN Keys = DOMAIN mail.kwargs
        /\ Vals \in Seq(Nat) /\ DOMAIN Vals = DOMAIN mail.kwargs
        /\ \A i \in DOMAIN mail.kwargs : Keys[i] = mail.kwargs[i].key /\ Vals[i] = mail.kwargs[i].value
    <2>1. DOMAIN mail.kwargs = 1..Len(mail.kwargs) /\ Len(mail.kwargs) \in Nat
      BY <1>2
    <2>2. \A i \in 1..Len(mail.kwargs) : mail.kwargs[i] \in [key : Nat, value : Nat]
      BY <1>2, SeqElement
    <2>3. \A i \in 1..Len(mail.kwargs) : mail.kwargs[i].key \in Nat /\ mail.kwargs[i].value \in Nat
      BY <2>2
    <2>4. Keys \in Seq(Nat)
      BY <2>1, <2>3 DEF Keys
    <2>5. Vals \in Seq(Nat)
      BY <2>1, <2>3 DEF Vals
    <2> QED
      BY <2>4, <2>5 DEF Keys, Vals
  <1>4. \A refs \in Seq(Nat) :
          /\ Take(refs).ok <=> \A j \in DOMAIN refs : refs[j] < Len(mail.nodes)
          /\ Take(refs).ok => Take(refs).val = Led(values, refs)
    BY <1>1, <1>2, ReferencesExact
  <1>5. all <=> ~Dangling
    <2>1. \A refs \in Seq(Nat) : \A j \in DOMAIN refs : refs[j] \in Nat
      OBVIOUS
    <2>2. \A refs \in Seq(Nat) : Take(refs).ok <=> ~\E j \in DOMAIN refs : refs[j] >= Len(mail.nodes)
      BY <1>1, <1>2, <1>4, <2>1
    <2> HIDE DEF Take
    <2> QED
      BY <1>2, <1>3, <2>2 DEF Dangling
  <1>6. WellFormed(mail.nodes)
    BY <1>2 DEF DecoderInv, DecodedNodeByNode, WellFormed
  <1>7. CASE all
    <2>1. /\ got' = [args |-> Take(mail.args).val,
                     kwargs |-> [i \in DOMAIN mail.kwargs |-> [key |-> Take(Keys).val[i], value |-> Take(Vals).val[i]]]]
          /\ phase' = IF mail.kind = "complete" THEN "idle" ELSE "resuming"
      BY <1>7 DEF DecodeCall, Undecodable, Keys, Vals
    <2>2. /\ Take(mail.args).val = Led(values, mail.args)
          /\ Take(Keys).val = Led(values, Keys) /\ Take(Vals).val = Led(values, Vals)
      BY <1>2, <1>3, <1>4, <1>7
    <2> HIDE DEF Take
    <2>3. got'.args = [i \in DOMAIN mail.args |-> values[mail.args[i] + 1]]
      BY <2>1, <2>2 DEF Led
    <2>4. got'.kwargs = [i \in DOMAIN mail.kwargs |->
                           [key |-> values[mail.kwargs[i].key + 1], value |-> values[mail.kwargs[i].value + 1]]]
      <3>1. \A i \in DOMAIN mail.kwargs :
              Led(values, Keys)[i] = values[mail.kwargs[i].key + 1] /\ Led(values, Vals)[i] = values[mail.kwargs[i].value + 1]
        BY <1>3 DEF Led
      <3> QED
        BY <2>1, <2>2, <3>1
    <2>5. DecodedNodeByNode'
      BY <1>1, <1>5, <1>6, <1>7, <2>1, <2>3, <2>4 DEF DecoderInv, DecodedNodeByNode, Dangling
    <2> QED
      BY <1>1, <2>5 DEF DecoderInv, InHeap
  <1>8. CASE ~all
    <2>1. phase' = "lost"
      BY <1>8 DEF DecodeCall, Undecodable, Keys, Vals
    <2>2. Dangling
      BY <1>5, <1>8
    <2> HIDE DEF all
    <2>3. DecodedNodeByNode'
      BY <1>1, <2>1, <2>2 DEF DecoderInv, DecodedNodeByNode, Dangling
    <2> QED
      BY <1>1, <2>3 DEF DecoderInv, InHeap
  <1> QED
    BY <1>7, <1>8

\* Nothing has been decoded of an event that has just come.
LEMMA NothingDecoded ==
  ASSUME values = <<>>, IsEvent(mail), IsSequence(objects), phase \notin {"lost", "resuming"}
  PROVE  DecoderInv
  <1>1. IsSequence(values) /\ Len(values) = 0 /\ DOMAIN values = {}
    BY DEF IsSequence
  <1>2. Len(values) <= Len(mail.nodes)
    BY <1>1 DEF IsEvent, IsSequence
  <1>3. DecodedNodeByNode /\ InHeap
    BY <1>1 DEF DecodedNodeByNode, InHeap
  <1> QED
    BY <1>1, <1>2, <1>3 DEF DecoderInv

LEMMA HearStep ==
  ASSUME DecoderInv, IsEvent(mail'), Hear(mail')
  PROVE  DecoderInv'
  <1>1. values' = <<>> /\ phase' = "decoding" /\ objects' = objects /\ IsSequence(objects)
    BY DEF Hear, DecoderInv
  <1>2. IsSequence(values') /\ Len(values') = 0 /\ DOMAIN values' = {}
    BY <1>1 DEF IsSequence
  <1>3. Len(values') <= Len(mail'.nodes)
    BY <1>2 DEF IsEvent, IsSequence
  <1>4. DecodedNodeByNode' /\ InHeap'
    BY <1>1, <1>2 DEF DecodedNodeByNode, InHeap
  <1> QED
    BY <1>1, <1>2, <1>3, <1>4 DEF DecoderInv

LEMMA ElsewhereStep ==
  ASSUME DecoderInv, Elsewhere
  PROVE  DecoderInv'
  <1>1. DecodedNodeByNode'
    BY DEF DecoderInv, Elsewhere, DecodedNodeByNode
  <1> QED
    BY <1>1 DEF DecoderInv, Elsewhere, InHeap

LEMMA DecoderInvHolds == DecoderSpec => []DecoderInv
  <1>1. DecoderInit => DecoderInv
    <2> SUFFICES ASSUME DecoderInit PROVE DecoderInv
      OBVIOUS
    <2>1. mail = NoEvent /\ values = <<>> /\ phase \notin {"lost", "resuming"} /\ IsSequence(objects)
      BY DEF DecoderInit
    <2>2. IsEvent(mail)
      BY <2>1 DEF NoEvent, Event, IsEvent, IsSequence
    <2> QED
      BY <2>1, <2>2, NothingDecoded
  <1>2. DecoderInv /\ [DecoderNext]_decoderVars => DecoderInv'
    <2> SUFFICES ASSUME DecoderInv, [DecoderNext]_decoderVars PROVE DecoderInv'
      OBVIOUS
    <2>1. CASE IsEvent(mail') /\ Hear(mail')
      BY <2>1, HearStep
    <2>2. CASE DecodeArena
      BY <2>2, ArenaStep
    <2>3. CASE DecodeCall
      BY <2>3, CallStep
    <2>4. CASE Elsewhere
      BY <2>4, ElsewhereStep
    <2>5. CASE UNCHANGED decoderVars
      <3>1. DecodedNodeByNode'
        BY <2>5 DEF DecoderInv, decoderVars, DecodedNodeByNode, Dangling
      <3> QED
        BY <2>5, <3>1 DEF DecoderInv, decoderVars, InHeap
    <2> QED
      BY <2>1, <2>2, <2>3, <2>4, <2>5 DEF DecoderNext
  <1> QED
    BY <1>1, <1>2, PTL DEF DecoderSpec

(***************************************************************************)
(* Whatever a worker writes, however long its message is and wherever its  *)
(* references lead: decodeArena gives each node the value the node says,   *)
(* with an object of its own if it is a container, and gives an event up   *)
(* just when a node is malformed (which a class, an instance or a module   *)
(* also is by the identity it has or lacks, and a module by a field that   *)
(* is repeated or missing), or when a reference of the call leads nowhere  *)
(* or its object has no identity.                                          *)
(***************************************************************************)
THEOREM EveryEventDecoded == DecoderSpec => []DecodedNodeByNode
  <1>1. DecoderInv => DecodedNodeByNode
    BY DEF DecoderInv
  <1> QED
    BY <1>1, DecoderInvHolds, PTL
-----------------------------------------------------------------------------
(***************************************************************************)
(* From the single nodes to the whole message.  r gives what the nodes of  *)
(* the message are in Python, and m what Go values are, if each is that of *)
(* its parts put together; the recursive operators Reads and Means, with   *)
(* which TLC checks DecodedFaithfully, are such functions.                 *)
(***************************************************************************)
Reading(r) ==
  \A i \in DOMAIN values :
    LET n == mail.nodes[i][1]
    IN r[i] = ReadsNode(n, [j \in DOMAIN n.kids |-> r[n.kids[j] + 1]])

Meaning(m) ==
  \A i \in DOMAIN values :
    LET c == Deref(objects, values[i])
    IN m[values[i]] = MeansValue(c, [j \in DOMAIN c.kids |-> m[c.kids[j]]])

DecodedAsRead ==
  \A r, m : Reading(r) /\ Meaning(m) => \A i \in DOMAIN values : m[values[i]] = r[i]

\* One node: its value means what the node reads if this is so for its parts.
LEMMA PartsThenWhole ==
  ASSUME DecoderInv, NEW r, NEW m, Reading(r), Meaning(m), NEW i \in DOMAIN values,
         \A h \in DOMAIN values : h < i => m[values[h]] = r[h]
  PROVE  m[values[i]] = r[i]
  <1> DEFINE n == mail.nodes[i][1]
             v == values[i]
             c == Deref(objects, v)
             rs == [j \in DOMAIN n.kids |-> r[n.kids[j] + 1]]
             ms == [j \in DOMAIN c.kids |-> m[c.kids[j]]]
  <1>1. Sound(mail.nodes, i) /\ Mirrors(mail.nodes, objects, values, i)
    BY DEF DecoderInv, DecodedNodeByNode
  <1>2. IsNode(n) /\ n.k # "unknown"
    BY <1>1 DEF DecoderInv, IsEvent, IsSequence, Sound
  <1>3. r[i] = ReadsNode(n, rs) /\ m[v] = MeansValue(c, ms)
    BY DEF Reading, Meaning
  <1>4. CASE "kids" \notin DOMAIN n
    <2>1. n.k \in {"none", "str", "marker"} \cup WireNumbers
      BY <1>2, <1>4 DEF IsNode
    <2>2. v.k \in {"nil", "str", "marker", "int", "bigint", "timedelta"}
      BY <1>1, <2>1 DEF Mirrors, Nil
    <2>3. c = v
      BY <2>2 DEF Deref
    <2> HIDE DEF rs, ms
    <2>4. CASE n.k = "none"
      BY <1>1, <1>3, <2>3, <2>4 DEF Mirrors, ReadsNode, MeansValue, Nil, HostNumbers, WireNumbers
    <2>5. CASE n.k \in {"str", "marker"}
      BY <1>1, <1>3, <2>3, <2>5 DEF Mirrors, ReadsNode, MeansValue, HostNumbers, WireNumbers
    <2>6. CASE n.k \in WireNumbers
      <3>1. v.k \in {"int", "bigint", "timedelta"} /\ MeansNumber(v) = ReadsNumber(n)
        BY <1>1, <2>6 DEF Mirrors
      <3>2. MeansValue(v, ms) = MeansNumber(v)
        BY <3>1 DEF MeansValue, HostNumbers
      <3>3. ReadsNode(n, rs) = ReadsNumber(n)
        BY <2>6 DEF ReadsNode, WireNumbers
      <3> QED
        BY <1>3, <2>3, <3>1, <3>2, <3>3
    <2> QED
      BY <2>1, <2>4, <2>5, <2>6
  <1>5. CASE BuiltinNode(n)
    <2>1. v = Type /\ c = Type
      BY <1>1, <1>5 DEF Mirrors, Deref, Type
    <2> HIDE DEF rs, ms
    <2>2. ReadsNode(n, rs) = Type
      BY <1>5 DEF BuiltinNode, ReadsNode, WireNumbers
    <2>3. MeansValue(Type, ms) = Type
      BY DEF MeansValue, Type, HostNumbers
    <2> QED
      BY <1>3, <2>1, <2>2, <2>3
  <1>6. CASE "kids" \in DOMAIN n /\ ~BuiltinNode(n)
    <2>1. /\ n.k \in {"list", "dict", "module", "ntuple", "instance", "class"}
          /\ n.kids \in Seq(Nat)
      BY <1>2, <1>6 DEF IsNode
    <2>2. /\ c.k = Kind(n)
          /\ c.kids = [j \in DOMAIN n.kids |-> values[n.kids[j] + 1]]
      BY <1>1, <1>6 DEF Mirrors, Kind
    <2>3. i \in Nat /\ DOMAIN values = 1..Len(values) /\ Len(values) \in Nat /\ i <= Len(values)
      BY DEF DecoderInv, IsSequence
    <2>4. ASSUME NEW j \in DOMAIN n.kids
          PROVE  m[values[n.kids[j] + 1]] = r[n.kids[j] + 1]
      <3>1. n.kids[j] \in Nat /\ n.kids[j] < i - 1
        BY <1>1, <1>6, <2>1 DEF Sound
      <3>2. n.kids[j] + 1 \in DOMAIN values /\ n.kids[j] + 1 < i
        BY <2>3, <3>1
      <3> QED
        BY <3>2
    <2>5. ms = rs
      <3> HIDE DEF n, c
      <3>1. DOMAIN c.kids = DOMAIN n.kids /\ \A j \in DOMAIN n.kids : c.kids[j] = values[n.kids[j] + 1]
        BY <2>2
      <3> QED
        BY <2>4, <3>1
    <2> HIDE DEF rs, ms
    <2>6. ReadsNode(n, rs) = Box(Kind(n), rs)
      BY <1>6, <2>1 DEF ReadsNode, BuiltinNode, WireNumbers, Kind
    <2>7. MeansValue(c, ms) = Box(Kind(n), ms)
      BY <2>1, <2>2 DEF MeansValue, HostNumbers, Kind
    <2> QED
      BY <1>3, <2>5, <2>6, <2>7
  <1> QED
    BY <1>4, <1>5, <1>6

(***************************************************************************)
(* The whole message: every value of the arena is the Python value that    *)
(* its node reads, with everything it contains, at any depth.  A node of   *)
(* which this is not so would have a first one before it.                  *)
(***************************************************************************)
THEOREM MessagesDecodedAsRead == DecoderSpec => []DecodedAsRead
  <1>1. DecoderInv => DecodedAsRead
    <2> SUFFICES ASSUME DecoderInv, NEW r, NEW m, Reading(r), Meaning(m)
                 PROVE  \A i \in DOMAIN values : m[values[i]] = r[i]
      BY DEF DecodedAsRead
    <2> DEFINE wrong == {i \in DOMAIN values : m[values[i]] # r[i]}
    <2>1. SUFFICES ASSUME wrong # {} PROVE FALSE
      OBVIOUS
    <2>2. DOMAIN values \subseteq Nat
      BY DEF DecoderInv, IsSequence
    <2>3. wrong \in SUBSET Nat
      BY <2>2
    <2>4. PICK i \in wrong : \A h \in wrong : i <= h
      BY <2>1, <2>3, LeastNumber
    <2>5. i \in DOMAIN values /\ m[values[i]] # r[i]
      BY <2>4
    <2>6. \A h \in DOMAIN values : h < i => m[values[h]] = r[h]
      BY <2>2, <2>4, <2>5
    <2> QED
      BY <2>5, <2>6, PartsThenWhole
  <1> QED
    BY <1>1, DecoderInvHolds, PTL
=============================================================================
