------------------------------ MODULE Numbers ------------------------------
(***************************************************************************)
(* Integers and durations of value.go on their way into a message and out  *)
(* of one (wire.go).  This part of the codec is not recursive.             *)
(***************************************************************************)
EXTENDS Integers

CONSTANTS
  MaxInt64,        \* math.MaxInt64
  Micro,           \* time.Durations in a microsecond
  Second,          \* microseconds in a second
  Day              \* seconds in a day

ASSUME NumbersAssumption ==
  /\ MaxInt64 \in Nat
  /\ Micro \in Nat \ {0} /\ Second \in Nat \ {0} /\ Day \in Nat \ {0}

IntVal(n) == [k |-> "int", n |-> n]
BigInt(n) == [k |-> "bigint", n |-> n]
Duration(n) == [k |-> "duration", n |-> n]
TimeDelta(d, s, u) == [k |-> "timedelta", days |-> d, seconds |-> s, micros |-> u]

(***************************************************************************)
(* encodeDuration: days, seconds and microseconds of a timedelta, of which *)
(* only the days may be negative.  Go's division rounds towards zero.      *)
(***************************************************************************)
Quo(a, b) == IF a >= 0 THEN a \div b ELSE -((-a) \div b)

\* Mutant: the remainder keeps the sign of the duration.
EncodeDuration_Signed(n) ==
  LET all == Quo(n, Micro)
      days == Quo(all, Second * Day)
      rest == all - days * Second * Day
  IN TimeDelta(days, Quo(rest, Second), rest - Quo(rest, Second) * Second)

EncodeDuration(n) ==
  LET all == Quo(n, Micro)
      whole == Quo(all, Second * Day)
      rest == all - whole * Second * Day
      days == IF rest < 0 THEN whole - 1 ELSE whole
      micros == IF rest < 0 THEN rest + Second * Day ELSE rest
  IN TimeDelta(days, micros \div Second, micros % Second)

\* encodeBigInt: sign and magnitude.
EncodeBigInt(n) ==
  [k |-> "big", negative |-> n < 0, magnitude |-> IF n < 0 THEN -n ELSE n]

\* Mutant: an unsigned integer is converted to int64.
EncodeInt_Wraps(n) == IntVal(IF n > MaxInt64 THEN n - 2 * (MaxInt64 + 1) ELSE n)

\* A Go integer that is no int64 is sent as a big one.
EncodeInt(n) == IF n \in (-MaxInt64 - 1)..MaxInt64 THEN IntVal(n) ELSE EncodeBigInt(n)

HostNumbers == {"int", "bigint", "duration"}

EncodeNumber(v) ==
  CASE v.k = "int" -> EncodeInt(v.n)
    [] v.k = "bigint" -> EncodeBigInt(v.n)
    [] v.k = "duration" -> EncodeDuration(v.n)

WireNumbers == {"int", "big", "timedelta"}

\* Mutant: the sign of a big integer is not read.
DecodeNumber_Unsigned(n) == IF n.k = "big" THEN BigInt(n.magnitude) ELSE n

\* A timedelta of a message stays one; it does not become a time.Duration.
DecodeNumber(n) ==
  IF n.k = "big" THEN BigInt(IF n.negative THEN -n.magnitude ELSE n.magnitude) ELSE n
-----------------------------------------------------------------------------
\* The Python number or timedelta of a Go value, and that of a node of a message.
InMicros(t) == (t.days * Day + t.seconds) * Second + t.micros

MeansNumber(v) ==
  CASE v.k \in {"int", "bigint"} -> [k |-> "number", n |-> v.n]
    [] v.k = "duration" -> [k |-> "micros", n |-> Quo(v.n, Micro)]
    [] v.k = "timedelta" -> [k |-> "micros", n |-> InMicros(v)]

ReadsNumber(n) ==
  CASE n.k = "int" -> [k |-> "number", n |-> n.n]
    [] n.k = "big" -> [k |-> "number", n |-> IF n.negative THEN -n.magnitude ELSE n.magnitude]
    [] n.k = "timedelta" -> [k |-> "micros", n |-> InMicros(n)]

\* Python's normal form of a timedelta.
Normal(n) ==
  n.k = "timedelta" => n.seconds \in 0..(Day - 1) /\ n.micros \in 0..(Second - 1)
=============================================================================
