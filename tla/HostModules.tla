---------------------------- MODULE HostModules ----------------------------
(***************************************************************************)
(* module.go: modules of Go values and functions, their attributes as they *)
(* are sent to Python, and the way back from a dotted name to a function.  *)
(*                                                                         *)
(* A name is the sequence of its parts between dots, so "a.f" is <<a, f>>  *)
(* and joining two names with a dot is \o.  Parts are numbers; the         *)
(* constants tell which begin with an underscore and which are keywords.   *)
(***************************************************************************)
EXTENDS HostCalls

CONSTANTS
  Underscored,      \* parts that begin with an underscore
  Keywords,         \* Python's hard keywords
  MaxModuleDepth    \* 64

ASSUME ModulesAssumption == Underscored \subseteq Nat /\ Keywords \subseteq Nat /\ MaxModuleDepth \in Nat

\* A Go function, a module, a nil *ExternalModule, and what is passed to
\* NewExternalModule.
Func(id, sig) == [k |-> "func", id |-> id, sig |-> sig]
ExternalModule(attrs) == [k |-> "extmod", attrs |-> attrs]
NilModule == [k |-> "nilmod"]
Attrs(attrs) == [k |-> "attrs", attrs |-> attrs]

IsHostFunction(v) == v.k = "func"

Private(name) == name # <<>> /\ name[1] \in Underscored

\* Mutant: a dot is taken for a letter.
PythonIdentifier_Dots(name) == name # <<>> /\ name[1] \notin Keywords

PythonIdentifier(name) == Len(name) = 1 /\ name[1] \notin Keywords

\* NewExternalModule drops private attributes before it looks at them.  The
\* modules among the attributes have been made first.
RECURSIVE NewExternalModule(_)
NewExternalModule(raw) ==
  LET public == {n \in DOMAIN raw.attrs : ~Private(n)}
      made == [n \in DOMAIN raw.attrs |->
                 IF raw.attrs[n].k = "attrs" THEN NewExternalModule(raw.attrs[n]) ELSE Done(raw.attrs[n])]
  IN IF \E n \in DOMAIN made : ~made[n].ok THEN Fails("submodule")
     ELSE IF \E n \in public : ~PythonIdentifier(n) \/ made[n].val.k = "nilmod" THEN Fails("attribute")
     ELSE Done(ExternalModule([n \in public |-> made[n].val]))

(***************************************************************************)
(* ExternalModule.value: a function becomes a marker with its full name.   *)
(* The attributes are sorted; any fixed order will do here.                *)
(***************************************************************************)
RECURSIVE ModuleValue(_, _, _)
ModuleValue(m, name, depth) ==
  LET keys == SetToSeq(DOMAIN m.attrs)
      Attribute(key) ==
        LET v == m.attrs[key]
        IN CASE v.k = "extmod" -> ModuleValue(v, name \o key, depth + 1)
             [] IsHostFunction(v) -> Done(Marker(name \o key))
             [] OTHER -> Done(v)
      vals == Together([i \in DOMAIN keys |-> Attribute(keys[i])])
  IN IF depth > MaxModuleDepth THEN Fails("nested")
     ELSE IF vals.ok THEN Done(Box("module", PairUp(keys, vals.val))) ELSE vals

\* Mutant: the walk looks for the last part in the top module.
FunctionOf_Top(modules, name) ==
  LET m == IF Len(name) >= 2 /\ <<Head(name)>> \in DOMAIN modules THEN modules[<<Head(name)>>] ELSE NilModule
      last == <<name[Len(name)]>>
  IN IF m.k = "extmod" /\ last \in DOMAIN m.attrs /\ IsHostFunction(m.attrs[last])
       THEN {m.attrs[last]} ELSE {}

(***************************************************************************)
(* ExternalModules.function: the function a dotted name leads to, as a set *)
(* of at most one.                                                         *)
(***************************************************************************)
FunctionOf(modules, name) ==
  LET Into(m, part) ==
        IF m.k = "extmod" /\ ~Private(<<part>>) /\ <<part>> \in DOMAIN m.attrs
          THEN m.attrs[<<part>>] ELSE NilModule
      top == IF Len(name) >= 2 /\ <<Head(name)>> \in DOMAIN modules THEN modules[<<Head(name)>>] ELSE NilModule
      found == IF top = NilModule THEN NilModule ELSE FoldLeft(Into, top, Tail(name))
  IN IF IsHostFunction(found) THEN {found} ELSE {}
-----------------------------------------------------------------------------
\* What the names stand for: every function below item, which has the given
\* name, with its full name and whether the way to it is public.
RECURSIVE FunctionsBelow(_, _, _)
FunctionsBelow(item, name, public) ==
  IF item.k = "func" THEN {[name |-> name, id |-> item.id, public |-> public]}
  ELSE IF item.k # "attrs" THEN {}
  ELSE UNION {FunctionsBelow(item.attrs[n], name \o n, public /\ ~Private(n)) : n \in DOMAIN item.attrs}

AllFunctions(tops) == UNION {FunctionsBelow(tops[n], n, TRUE) : n \in DOMAIN tops}
=============================================================================
