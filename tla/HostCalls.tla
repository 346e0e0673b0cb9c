----------------------------- MODULE HostCalls -----------------------------
(***************************************************************************)
(* host.go: how a decoded Python value becomes a value of the Go type of a *)
(* parameter, and how the arguments of a call meet a function's signature. *)
(*                                                                         *)
(* A type is a record with its form in field t: an integer type with its   *)
(* least and greatest values, *big.Int, string, any, a pointer, slice,     *)
(* array, map with string keys, or a struct with fields named 1..n.        *)
(* Floats, bytes, interfaces with methods and values of a struct type of   *)
(* this package are left out.  The field names of a NamedTuple are 1..n.   *)
(***************************************************************************)
EXTENDS Arena

IntType(lo, hi) == [t |-> "int", lo |-> lo, hi |-> hi]
Big == [t |-> "big"]
String == [t |-> "string"]
Interface == [t |-> "any"]
Ptr(e) == [t |-> "ptr", e |-> e]
Slice(e) == [t |-> "slice", e |-> e]
Array(n, e) == [t |-> "array", n |-> n, e |-> e]
MapTo(e) == [t |-> "map", e |-> e]
Struct(fields) == [t |-> "struct", fields |-> fields]

\* reflect.Zero; a nil slice or map is an empty one.
RECURSIVE Zero(_)
Zero(T) ==
  CASE T.t = "int" -> IntVal(0)
    [] T.t = "string" -> Str(0)
    [] T.t \in {"any", "ptr", "big"} -> Nil
    [] T.t = "slice" -> Box("slice", <<>>)
    [] T.t = "map" -> GoMap(<<>>)
    [] T.t = "array" -> Box("slice", [i \in 1..T.n |-> Zero(T.e)])
    [] T.t = "struct" -> Box("struct", [i \in DOMAIN T.fields |-> Zero(T.fields[i])])

\* Mutant: the number is cut to the width of the type.
NumericTo_Wraps(n, T) == Done(IntVal(T.lo + ((n - T.lo) % (T.hi - T.lo + 1))))

\* numericTo, for an integer type
NumericTo(n, T) == IF n \in T.lo..T.hi THEN Done(IntVal(n)) ELSE Fails("overflows")

\* safeDirectConversion to a string: Type is a string type, an int64 is not,
\* although Go would convert it.
Text(c) ==
  CASE c.k = "str" -> Done(c)
    [] c.k = "type" -> Done(Str(0))
    [] OTHER -> Fails("type")

(***************************************************************************)
(* resultDict: the pairs of a dictionary, of the attributes of an instance *)
(* or of a NamedTuple.                                                     *)
(***************************************************************************)
HasPairs(c) == c.k \in {"dict", "ntuple", "instance"}

ResultDict(c) ==
  LET kids == CASE c.k = "dict" -> c.kids
                [] c.k = "instance" -> Tail(c.kids)
                [] c.k = "ntuple" -> PairUp([i \in DOMAIN c.kids |-> i], c.kids)
  IN [i \in 1..(Len(kids) \div 2) |-> [key |-> kids[2 * i - 1], value |-> kids[2 * i]]]

\* A map of pairs whose keys are strings; a later pair replaces an earlier one.
Latest(keys, vals) ==
  [n \in {keys[i].s : i \in DOMAIN keys} |->
     vals[CHOOSE i \in DOMAIN keys : keys[i].s = n /\ \A j \in DOMAIN keys : keys[j].s = n => j <= i]]

\* DictMap takes string keys only, and each of them once.
DictMapAccepts(pairs) ==
  \A i \in DOMAIN pairs :
    pairs[i].key.k = "str" /\ \A j \in DOMAIN pairs : pairs[j].key = pairs[i].key => j = i

RECURSIVE ConvertHostArg(_, _, _)

ConvertAll(heap, vals, T) == Together([i \in DOMAIN vals |-> ConvertHostArg(heap, vals[i], T)])

ConvertItems(heap, c, T) ==
  IF c.k # "slice" \/ (T.t = "array" /\ Len(c.kids) # T.n) THEN Fails("type")
  ELSE LET items == ConvertAll(heap, c.kids, T.e)
       IN IF items.ok THEN Done(Box("slice", items.val)) ELSE items

ConvertMap(heap, c, T) ==
  LET d == ResultDict(c)
      keys == ConvertAll(heap, [i \in DOMAIN d |-> d[i].key], String)
      vals == ConvertAll(heap, [i \in DOMAIN d |-> d[i].value], T.e)
  IN IF ~HasPairs(c) THEN Fails("type")
     ELSE IF ~keys.ok THEN keys
     ELSE IF ~vals.ok THEN vals
     ELSE Done(GoMap(Latest(keys.val, vals.val)))

\* A field without a key keeps its zero value, a key without a field is ignored.
ConvertStruct(heap, c, T) ==
  LET d == ResultDict(c)
      m == Latest([i \in DOMAIN d |-> d[i].key], [i \in DOMAIN d |-> d[i].value])
      fields == Together([i \in DOMAIN T.fields |->
                  IF i \in DOMAIN m THEN ConvertHostArg(heap, m[i], T.fields[i]) ELSE Done(Zero(T.fields[i]))])
  IN IF ~HasPairs(c) THEN Fails("type")
     ELSE IF ~DictMapAccepts(d) THEN Fails("keys")
     ELSE IF fields.ok THEN Done(Box("struct", fields.val)) ELSE fields

ConvertHostArg(heap, v, T) ==
  LET c == Deref(heap, v)
      To(e) == ConvertHostArg(heap, v, e)
  IN CASE T.t = "any" -> Done(v)
       [] T.t # "any" /\ c.k = "nil" -> IF T.t \in {"ptr", "map", "slice", "big"} THEN Done(Zero(T)) ELSE Fails("None")
       [] OTHER ->
          CASE T.t = "int" -> IF c.k \in {"int", "bigint"} THEN NumericTo(c.n, T) ELSE Fails("type")
            [] T.t = "big" -> IF c.k \in {"int", "bigint"} THEN Done(BigInt(c.n)) ELSE Fails("type")
            [] T.t = "string" -> Text(c)
            [] T.t = "ptr" -> IF To(T.e).ok THEN Done(Box("ptr", <<To(T.e).val>>)) ELSE To(T.e)
            [] T.t \in {"slice", "array"} -> ConvertItems(heap, c, T)
            [] T.t = "map" -> ConvertMap(heap, c, T)
            [] T.t = "struct" -> ConvertStruct(heap, c, T)

(***************************************************************************)
(* callHost.  A signature has the types of the positional parameters after *)
(* the context, whether the last one is variadic, and whether Kwargs       *)
(* follow.  A HostFunc is variadic in any and takes Kwargs.                *)
(***************************************************************************)
Signature(params, variadic, kw) == [params |-> params, variadic |-> variadic, kw |-> kw]

KwargsMap(pairs) ==
  IF \E i \in DOMAIN pairs : pairs[i].key.k # "str" THEN Fails("keyword")
  ELSE Done(Latest([i \in DOMAIN pairs |-> pairs[i].key], [i \in DOMAIN pairs |-> pairs[i].value]))

Takes(sig, n) == IF sig.variadic THEN n >= Len(sig.params) - 1 ELSE n = Len(sig.params)

ParamType(sig, i) == sig.params[IF i <= Len(sig.params) THEN i ELSE Len(sig.params)]

\* The arguments that meet a parameter are converted before they are counted.
CallHost(heap, sig, args, kwargs) ==
  LET kw == KwargsMap(kwargs)
      met == {i \in DOMAIN args : sig.variadic \/ i <= Len(sig.params)}
      in == Together([i \in met |-> ConvertHostArg(heap, args[i], ParamType(sig, i))])
  IN IF ~kw.ok THEN kw
     ELSE IF ~in.ok THEN in
     ELSE IF ~Takes(sig, Len(args)) THEN Fails("arity")
     ELSE IF DOMAIN kw.val # {} /\ ~sig.kw THEN Fails("kwargs")
     ELSE Done([args |-> in.val, kwargs |-> kw.val])
-----------------------------------------------------------------------------
(***************************************************************************)
(* What a conversion has to do: which Python values m a Go type can hold,  *)
(* and when a Go value, itself seen as a Python value g, is m in that      *)
(* type.                                                                   *)
(***************************************************************************)
Keys(m) == LET d == ResultDict(m) IN [i \in DOMAIN d |-> d[i].key]

\* The values by name; a type is found by its name, too.
Entries(m) ==
  LET d == ResultDict(m)
  IN Latest([i \in DOMAIN d |-> Text(d[i].key).val], [i \in DOMAIN d |-> d[i].value])

RECURSIVE Fits(_, _)
Fits(m, T) ==
  CASE T.t = "any" -> TRUE
    [] T.t = "int" -> m.k = "number" /\ m.n \in T.lo..T.hi
    [] T.t = "big" -> m.k \in {"number", "nil"}
    [] T.t = "string" -> m.k \in {"str", "type"}
    [] T.t = "ptr" -> m.k = "nil" \/ Fits(m, T.e)
    [] T.t = "slice" -> m.k = "nil" \/ (m.k = "slice" /\ \A i \in DOMAIN m.kids : Fits(m.kids[i], T.e))
    [] T.t = "array" -> m.k = "slice" /\ Len(m.kids) = T.n /\ \A i \in DOMAIN m.kids : Fits(m.kids[i], T.e)
    [] T.t = "map" ->
         \/ m.k = "nil"
         \/ /\ HasPairs(m)
            /\ \A i \in DOMAIN ResultDict(m) :
                 Fits(ResultDict(m)[i].key, String) /\ Fits(ResultDict(m)[i].value, T.e)
    [] T.t = "struct" ->
         /\ HasPairs(m)
         /\ \A i \in DOMAIN Keys(m) : Keys(m)[i].k = "str"
         /\ IsInjective(Keys(m))
         /\ \A i \in DOMAIN T.fields \cap DOMAIN Entries(m) : Fits(Entries(m)[i], T.fields[i])

RECURSIVE Holds(_, _, _)
Holds(T, g, m) ==
  CASE T.t \in {"any", "int", "big"} -> g = m
    [] T.t = "string" -> g.k = "str" /\ (m.k = "str" => g = m)
    [] T.t = "ptr" -> IF m.k = "nil" THEN g = Nil ELSE Holds(T.e, g, m)
    [] T.t \in {"slice", "array"} ->
         /\ g.k = "slice"
         /\ Len(g.kids) = IF m.k = "nil" THEN 0 ELSE Len(m.kids)
         /\ \A i \in DOMAIN g.kids : Holds(T.e, g.kids[i], m.kids[i])
    [] T.t = "map" ->
         LET all == IF m.k = "nil" THEN <<>> ELSE Entries(m)
         IN /\ DOMAIN Entries(g) = DOMAIN all
            /\ \A n \in DOMAIN all : Holds(T.e, Entries(g)[n], all[n])
    [] T.t = "struct" ->
         /\ DOMAIN Entries(g) = DOMAIN T.fields
         /\ \A i \in DOMAIN T.fields :
              IF i \in DOMAIN Entries(m) THEN Holds(T.fields[i], Entries(g)[i], Entries(m)[i])
              ELSE Entries(g)[i] = Means(<<>>, Zero(T.fields[i]))
=============================================================================
