----------------------------- MODULE Decoding -----------------------------
(***************************************************************************)
(* decodeArena of arena.go: what a worker has written becomes Go values.   *)
(*                                                                         *)
(* A Go value is a record with its kind in field k.  What can be shared    *)
(* lives at an address of a heap and is held as a Ref, whose length is     *)
(* that of the slice.  "slice" stands for slices, arrays, List, Tuple, Set *)
(* and FrozenSet, "dict" and "module" for Dict and Module, whose kids are  *)
(* keys and values in turn, "ntuple" for NamedTuple, "chan" for all that   *)
(* has no Python counterpart.  Strings are numbers in their order.         *)
(***************************************************************************)
EXTENDS Numbers, Sequences

Nil == [k |-> "nil"]
Chan == [k |-> "chan"]
Str(n) == [k |-> "str", s |-> n]
Type == [k |-> "type"]
Marker(name) == [k |-> "marker", name |-> name]
Box(k, kids) == [k |-> k, kids |-> kids]
GoMap(f) == [k |-> "map", of |-> f]
Ref(a, n) == [k |-> "ref", at |-> a, len |-> n]

Deref(heap, v) ==
  IF v.k = "ref" THEN Box(heap[v.at].k, SubSeq(heap[v.at].kids, 1, v.len)) ELSE v

\* The outcome of a conversion.
Done(x) == [ok |-> TRUE, val |-> x]
Fails(why) == [ok |-> FALSE, why |-> why]

\* The outcomes of the parts of a container, the first failure first.
Together(parts) ==
  LET bad == {i \in DOMAIN parts : ~parts[i].ok}
  IN IF bad = {} THEN Done([i \in DOMAIN parts |-> parts[i].val])
     ELSE parts[CHOOSE i \in bad : \A j \in bad : i <= j]

(***************************************************************************)
(* decodeArena, one node at a time.  A node message is the sequence of its *)
(* fields, of which there must be one; "unknown" stands for a kind the     *)
(* host does not know, a field of the wrong wire type, or contents that    *)
(* cannot be parsed.                                                       *)
(*                                                                         *)
(* The identity of a class or an instance is left out ("none"), a UUID, or *)
(* bytes that decodeUUID refuses ("bad").  A module lists its fields, with *)
(* those of the wrong wire type as "odd".  The references of an instance   *)
(* begin with its class, which is 0 if the message leaves it out; the      *)
(* others, like those of classes and modules, are the attributes.          *)
(***************************************************************************)
Identities == {"none", "uuid", "bad"}
ModuleFields == {"name", "uuid", "bad", "attrs", "odd"}

\* Mutant: a reference is compared with the number of nodes in the message.
ArenaRef_AnyNode(values, i, total) ==
  IF i < Len(values) THEN Done(values[i + 1]) ELSE IF i < total THEN Done(Nil) ELSE Fails("reference")

\* arenaRef; "total", the number of nodes in the message, is not used.
ArenaRef(values, i, total) ==
  IF i < Len(values) THEN Done(values[i + 1]) ELSE Fails("reference")

\* Items of a list, pairs of a dictionary or attributes of a class.
References(values, refs, total) ==
  Together([j \in DOMAIN refs |-> ArenaRef(values, refs[j], total)])

DecodeScalar(n) ==
  CASE n.k = "none" -> Done(Nil)
    [] n.k \in {"str", "marker"} -> Done(n)
    [] n.k \in WireNumbers -> Done(DecodeNumber(n))
    [] OTHER -> Fails("kind")

\* A class is a builtin or has an identity.  A builtin is but a name.
DecodeClass(n, attrs) ==
  IF n.id = "bad" \/ n.origin \notin {"builtin", "sandbox", "host"} \/ (n.id = "none") # (n.origin = "builtin")
  THEN Fails("class")
  ELSE Done(IF n.origin = "builtin" THEN Type ELSE Box("class", attrs))

\* Mutant: the identity of an instance is not looked at.
DecodeInstance_NoIdentity(heap, n, refs) ==
  IF Deref(heap, refs[1]).k = "class" THEN Done(Box("instance", refs)) ELSE Fails("class")

DecodeInstance(heap, n, refs) ==
  IF n.id = "uuid" /\ Deref(heap, refs[1]).k = "class" THEN Done(Box("instance", refs)) ELSE Fails("class")

\* Mutant: a field may be repeated.
DecodeModule_Repeats(n, attrs) ==
  LET seen == {n.fields[i] : i \in DOMAIN n.fields}
  IN IF {"bad", "odd"} \cap seen = {} /\ {"uuid", "attrs"} \subseteq seen THEN Done(Box("module", attrs)) ELSE Fails("module")

\* decodeModule: no field twice, and an identity and attributes at least.
DecodeModule(n, attrs) ==
  LET seen == {n.fields[i] : i \in DOMAIN n.fields}
      repeated == \E i, j \in DOMAIN n.fields : i # j /\ n.fields[i] = n.fields[j]
  IN IF repeated \/ {"bad", "odd"} \cap seen # {} \/ ~({"uuid", "attrs"} \subseteq seen) THEN Fails("module")
     ELSE Done(Box("module", attrs))

DecodeContainer(heap, values, n, total) ==
  LET refs == References(values, n.kids, total)
  IN IF ~refs.ok THEN refs
     ELSE CASE n.k = "class" -> DecodeClass(n, refs.val)
            [] n.k = "instance" -> DecodeInstance(heap, n, refs.val)
            [] n.k = "module" -> DecodeModule(n, refs.val)
            [] OTHER -> Done(Box(IF n.k = "list" THEN "slice" ELSE n.k, refs.val))

DecodeNode(heap, values, message, total) ==
  IF Len(message) # 1 THEN Fails("kinds")
  ELSE IF "kids" \in DOMAIN message[1] THEN DecodeContainer(heap, values, message[1], total)
  ELSE DecodeScalar(message[1])
-----------------------------------------------------------------------------
(***************************************************************************)
(* Whether every node of a message has one known kind, refers to earlier   *)
(* nodes only and, if it is a class, an instance or a module, is complete: *)
(* a class that is no builtin and an instance have a UUID, an instance is  *)
(* one of such a class, and a module has one UUID, its attributes once and *)
(* at most one name.                                                       *)
(***************************************************************************)
Once(fields, f) == \E i \in DOMAIN fields : \A j \in DOMAIN fields : fields[j] = f <=> j = i
Never(fields, f) == \A i \in DOMAIN fields : fields[i] # f

CompleteNode(messages, n) ==
  /\ n.k = "class" => \/ n.origin \in {"sandbox", "host"} /\ n.id = "uuid"
                      \/ n.origin = "builtin" /\ n.id = "none"
  /\ n.k = "instance" =>
       LET class == messages[n.kids[1] + 1][1]
       IN n.id = "uuid" /\ class.k = "class" /\ class.origin # "builtin"
  /\ n.k = "module" =>
       /\ Once(n.fields, "uuid") /\ Once(n.fields, "attrs")
       /\ Once(n.fields, "name") \/ Never(n.fields, "name")
       /\ Never(n.fields, "bad") /\ Never(n.fields, "odd")

\* Node i of messages is well formed, given the ones before it.
Sound(messages, i) ==
  LET n == messages[i][1]
  IN /\ Len(messages[i]) = 1
     /\ n.k # "unknown"
     /\ "kids" \in DOMAIN n => \A j \in DOMAIN n.kids : n.kids[j] < i - 1
     /\ CompleteNode(messages, n)

WellFormed(messages) == \A i \in DOMAIN messages : Sound(messages, i)

(***************************************************************************)
(* What a node of a message, and what a Go value, is in Python, given what *)
(* its parts are.                                                          *)
(***************************************************************************)
ReadsNode(n, kids) ==
  CASE n.k = "none" -> Nil
    [] n.k \in WireNumbers -> ReadsNumber(n)
    [] n.k = "list" -> Box("slice", kids)
    [] n.k \in {"dict", "module", "ntuple", "instance"} -> Box(n.k, kids)
    [] n.k = "class" -> IF n.origin = "builtin" THEN Type ELSE Box("class", kids)
    [] OTHER -> n

MeansValue(c, kids) ==
  CASE c.k \in {"slice", "dict", "module", "ntuple", "class", "instance"} -> Box(c.k, kids)
    [] c.k \in HostNumbers \cup {"timedelta"} -> MeansNumber(c)
    [] OTHER -> c
=============================================================================
