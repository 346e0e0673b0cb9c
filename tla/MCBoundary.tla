---------------------------- MODULE MCBoundary ----------------------------
(***************************************************************************)
(* The sessions in which TLC checks Boundary, each about one question, so  *)
(* that the questions do not multiply.                                     *)
(***************************************************************************)
EXTENDS Boundary

AnyArgs == Signature(<<Interface>>, TRUE, TRUE)
f == <<7>>
Session(objs, inputs, sig) ==
  [objects |-> objs, inputs |-> inputs, lookups |-> <<f :> Func(1, sig)>>, tops |-> <<>>, requests |-> 1, seed |-> 0,
   names |-> {}, calls |-> {}, echoes |-> {[name |-> f, args |-> <<1>>, kw |-> FALSE]}]

(***************************************************************************)
(* Two objects of any kind that may contain one another, prefixes of one   *)
(* another and things that are no Python value; three that form chains.    *)
(***************************************************************************)
Kids == {Nil, Chan} \cup {Ref(a, n) : a \in 1..2, n \in 0..2}
Cells ==
  {Box(k, <<x>>) : k \in {"ptr", "gomap"}, x \in Kids} \cup {Box("dict", <<Str(1), x>>) : x \in Kids} \cup
  {Box("ntuple", <<x>>) : x \in Kids} \cup {Box("slice", s) : s \in UNION {[1..n -> Kids] : n \in 0..2}}
Whole(objs, v) ==
  v.k = "ref" => v.len <= Len(objs[v.at].kids) /\ (objs[v.at].k = "slice" \/ v.len = Len(objs[v.at].kids))
Heaps == {h \in [1..2 -> Cells] : \A a \in 1..2 : \A i \in DOMAIN h[a].kids : Whole(h, h[a].kids[i])}
Chains ==
  LET Link(a) == {Box(k, <<x>>) : k \in {"ptr", "slice", "ntuple"}, x \in {Nil, Ref(1, 1), Ref((a % 3) + 1, 1)}}
  IN {<<x, y, z>> : x \in Link(1), y \in Link(2), z \in Link(3)}
All(h, a) == Ref(a, Len(h[a].kids))
Graphs ==
  {Session(h, <<All(h, 1)>>, AnyArgs) : h \in Heaps \cup Chains} \cup
  {Session(h, <<All(h, 2), All(h, a)>>, AnyArgs) : h \in {g \in Heaps : All(g, 2) \in Range(g[1].kids)}, a \in 1..2}

\* Seeds of one to four bytes.
Seeds == {[Session(<<>>, <<>>, AnyArgs) EXCEPT !.seed = n] : n \in -40..40}

\* Numbers at the limits of int64, times and other values without parts.
Atoms == {BigInt(n) : n \in -6..9} \cup {Duration(n) : n \in -17..17} \cup {Type, Marker(f), Str(2), TimeDelta(-1, 1, 1)}
Scalar == {Session(<<>>, <<x>>, AnyArgs) : x \in Atoms}

\* Go values of each type, received as each other type.
Int8 == IntType(-2, 1)
Uint8 == IntType(0, 3)
Int64 == IntType(-MaxInt64 - 1, MaxInt64)
Uint64 == IntType(0, 2 * MaxInt64 + 1)
Simple == {Int8, Uint8, Int64, Uint64, Big, String}
Types ==
  Simple \cup {Interface} \cup {Ptr(t) : t \in {Int8, Big, Slice(Uint8)}} \cup {Slice(t) : t \in {Int8, Ptr(Uint8), Interface}} \cup
  {Array(1, Int8), Array(2, Uint8), MapTo(Int8), MapTo(Slice(Uint8)), Struct(<<Int8>>), Struct(<<Uint8, String>>),
   Struct(<<Ptr(Int8), MapTo(Uint8)>>)}
RECURSIVE Of(_)
Of(T) ==
  CASE T.t = "int" -> {IntVal(n) : n \in {T.lo, 0, 1, T.hi}}
    [] T.t = "big" -> {Nil} \cup {BigInt(n) : n \in {-MaxInt64 - 2, -1, 2, MaxInt64 + 1}}
    [] T.t = "string" -> {Str(0), Str(1)}
    [] T.t = "any" -> {Nil, IntVal(-1), Str(1), Type, Box("ntuple", <<IntVal(1), Str(1)>>),
                       Box("dict", <<Str(2), IntVal(1), Str(1), IntVal(0)>>), Box("dict", <<Str(1), IntVal(1), Str(1), IntVal(0)>>),
                       Box("dict", <<IntVal(1), IntVal(1)>>)}
    [] T.t = "ptr" -> {Nil} \cup {Box("ptr", <<x>>) : x \in Of(T.e)}
    [] T.t = "slice" -> {Box("slice", s) : s \in UNION {[1..n -> Of(T.e)] : n \in 0..2}}
    [] T.t = "array" -> {Box("slice", s) : s \in [1..T.n -> Of(T.e)]}
    [] T.t = "map" -> {GoMap(m) : m \in UNION {[K -> Of(T.e)] : K \in SUBSET {1, 2}}}
    [] T.t = "struct" -> {Box("struct", s) : s \in {s \in UNION {[DOMAIN T.fields -> UNION {Of(t) : t \in Range(T.fields)}]} :
                                                     \A i \in DOMAIN s : s[i] \in Of(T.fields[i])}}
Typed == {Session(<<>>, <<x>>, Signature(<<T>>, FALSE, FALSE)) : x \in UNION {Of(U) : U \in Types}, T \in Types}

\* Signatures, met with too few and too many arguments and with keywords.
Params == UNION {[1..n -> {Int8, Interface}] : n \in 0..2}
Signatures ==
  {Signature(p, FALSE, kw) : p \in Params, kw \in BOOLEAN} \cup {Signature(p, TRUE, FALSE) : p \in Params \ {<<>>}}
Echoes == [name : {f}, args : UNION {[1..n -> 1..2] : n \in 0..3}, kw : BOOLEAN]
Bound == {[Session(<<>>, <<IntVal(1), IntVal(3)>>, s) EXCEPT !.echoes = Echoes] : s \in Signatures}

\* Calls of a worker that writes nodes of its own, also malformed ones.
Class(origin, id, kids) == [k |-> "class", origin |-> origin, id |-> id, kids |-> kids]
Instance(id, kids) == [k |-> "instance", id |-> id, kids |-> kids]
Module(fields, kids) == [k |-> "module", fields |-> fields, kids |-> kids]
Messages ==
  {<<>>, <<[k |-> "none"], IntVal(1)>>, <<[k |-> "unknown"]>>, <<[k |-> "none"]>>, <<Str(1)>>} \cup
  {<<Box("list", k)>> : k \in {<<0>>, <<1>>, <<2>>, <<1, 0>>}} \cup
  {<<Box("dict", <<0, 1>>)>>, <<Instance("uuid", <<1, 0, 1>>)>>} \cup
  {<<Instance(id, <<0>>)>> : id \in Identities} \cup
  {<<Class(o, id, <<>>)>> : o \in {"none", "builtin", "sandbox"}, id \in Identities} \cup {<<Class("host", "uuid", <<0, 1>>)>>} \cup
  {<<Module(<<"name", "uuid", "attrs">>, <<1, 0>>)>>}
\* The modules of TestModuleArenaValidation, and some that are complete.
ModuleMessages ==
  {<<Module(fs, <<>>)>> : fs \in UNION {[1..n -> ModuleFields] : n \in 0..3}} \cup
  {<<Module(<<"uuid", "attrs">>, <<i, 0>>)>> : i \in 0..1}
Mails ==
  {Event("call", f, ns, <<2>>, <<>>) : ns \in [1..3 -> Messages]} \cup
  {Event("call", f, <<<<Str(1)>>, m>>, <<1>>, <<>>) : m \in ModuleMessages} \cup
  {Event(kind, f, <<<<Str(1)>>, <<IntVal(2)>>>>, <<a>>, <<[key |-> key, value |-> v]>>) :
     kind \in {"call", "method", "stray"}, a \in 0..2, key \in 0..2, v \in 0..2} \cup
  {Event("complete", <<>>, <<<<Str(1)>>>>, <<a>>, <<>>) : a \in 0..1}
Worker == {[Session(<<>>, <<>>, s) EXCEPT !.calls = {c}] : c \in Mails, s \in {AnyArgs, Signature(<<MapTo(String)>>, FALSE, FALSE)}}

(***************************************************************************)
(* Modules with submodules, functions, constants, private and misnamed     *)
(* attributes; lookups that define, shadow and hide names, in two feeds.   *)
(***************************************************************************)
Fn(id) == Func(id, Signature(<<>>, FALSE, FALSE))
Leaf == {Attrs(<<2>> :> Fn(11)), Attrs((<<2>> :> Fn(11)) @@ (<<9>> :> Fn(12))), Attrs(<<2>> :> Attrs(<<2>> :> Fn(13))), NilModule}
Tree ==
  {Attrs((<<1>> :> l) @@ (<<2>> :> x)) : l \in Leaf, x \in {Fn(14), IntVal(1), Chan}} \cup
  {Attrs((<<1>> :> l) @@ (n :> Fn(15))) : l \in Leaf, n \in {<<1, 2>>, <<8>>, <<9>>, <<9, 2>>, <<>>}}
Lookups == {<<>>, <<5, 1, 2>> :> Fn(21), (<<5, 1, 2>> :> IntVal(1)) @@ (<<6>> :> Chan), <<6>> :> Fn(22)}
Tops == {<<5>> :> t : t \in Tree} \cup {(<<5>> :> Attrs(<<2>> :> Fn(14))) @@ (<<6>> :> Attrs(<<>>))}
Dotted == {<<5, 2>>, <<5, 1, 2>>, <<5, 1, 2, 2>>, <<5, 9>>, <<5, 1, 9>>, <<5, 1>>, <<6>>}
Modules ==
  {[Session(<<>>, <<>>, AnyArgs) EXCEPT !.echoes = {}, !.tops = t, !.lookups = <<l, m>>, !.requests = 3, !.names = {<<5>>, <<6>>},
      !.calls = {Event("call", n, <<>>, <<>>, <<>>) : n \in Dotted}] : t \in Tops, l \in Lookups, m \in Lookups}

MCSetups == <<Graphs, Seeds, Scalar, Typed, Bound, Worker, Modules>>
=============================================================================
