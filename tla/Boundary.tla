------------------------------ MODULE Boundary ------------------------------
(***************************************************************************)
(* What passes between the host and the sandbox in one session: inputs are *)
(* encoded into the arena of a feed request, the sandboxed program imports *)
(* modules, looks names up and calls host functions, ResumeAuto decodes,   *)
(* resolves, converts and calls, and the result is encoded into a reply.   *)
(*                                                                         *)
(* Who may speak, and what becomes of a suspension, is in Session; here a  *)
(* session is driven by one goroutine and the worker does not crash.  The  *)
(* program in the sandbox is external: it calls what setup says it may     *)
(* call, with values it was sent or with values of its own.                *)
(***************************************************************************)
EXTENDS HostModules, Decoder

CONSTANT Setups    \* sets of what the host passes in and what the program does, in sequence

VARIABLES
  setup,     \* never changes: modules, lookups, inputs, program
  feed,      \* number of the feed
  left,      \* requests the program still makes (a bound)
  given,     \* Go values of the latest request to the worker
  nodes,     \* its arena
  roots,     \* its references into the arena, one for each value
  modules,   \* session.externalModules
  imported,  \* names of the functions the program got by importing
  ran,       \* the function that was called last
  seed       \* OSPolicy.RandomSeed as it was sent at Checkout

vars == <<setup, feed, left, given, nodes, roots, modules, imported, ran, seed, decoderVars>>

NoRun == [name |-> <<>>, id |-> 0]

Init ==
  /\ \E i \in DOMAIN Setups : setup \in Setups[i]
  /\ phase = "new" /\ feed = 0 /\ left = setup.requests
  /\ objects = setup.objects
  /\ given = <<>> /\ nodes = <<>> /\ roots = <<>> /\ problem = "none"
  /\ mail = NoEvent /\ values = <<>> /\ got = NoArguments
  /\ modules = <<>> /\ imported = {} /\ ran = NoRun /\ seed = <<>>

\* The ExternalLookup of the feed.
Lookup == IF feed = 0 THEN <<>> ELSE setup.lookups[feed]

Request == <<given, nodes, roots>>
FromWorker == <<mail, values, got>>
Names == <<modules, imported, ran, seed>>

\* The host makes its modules and passes those that exist to Checkout, with
\* the seed of its OSPolicy.
Checkout ==
  LET made == [n \in DOMAIN setup.tops |-> NewExternalModule(setup.tops[n])]
      bad == {n \in DOMAIN made : ~made[n].ok}
  IN /\ phase = "new"
     /\ phase' = "idle"
     /\ modules' = [n \in DOMAIN made \ bad |-> made[n].val]
     /\ seed' = EncodeRandomSeed(setup.seed)
     /\ problem' = IF bad = {} THEN "none" ELSE "module"
     /\ UNCHANGED <<setup, feed, left, objects, Request, FromWorker, imported, ran>>

StartFeed ==
  /\ phase = "idle" /\ feed < Len(setup.lookups)
  /\ phase' = "inputs" /\ feed' = feed + 1
  /\ given' = <<>> /\ nodes' = <<>> /\ roots' = <<>> /\ problem' = "none"
  /\ UNCHANGED <<setup, left, objects, FromWorker, Names>>

(***************************************************************************)
(* feedRequest: the inputs in the order of their names into one arena.  If *)
(* one of them cannot be encoded the request is not made.                  *)
(***************************************************************************)
AddInput ==
  LET v == setup.inputs[Len(given) + 1]
      x == Add(nodes, objects, v)
  IN /\ phase = "inputs" /\ Len(given) < Len(setup.inputs)
     /\ given' = Append(given, v)
     /\ \/ /\ x.ok
           /\ nodes' = x.val /\ roots' = Append(roots, Len(x.val) - 1)
           /\ UNCHANGED <<phase, problem>>
        \/ /\ ~x.ok
           /\ problem' = x.why /\ phase' = "idle"
           /\ UNCHANGED <<nodes, roots>>
     /\ UNCHANGED <<setup, feed, left, objects, FromWorker, Names>>

SendFeed ==
  /\ phase = "inputs" /\ Len(given) = Len(setup.inputs)
  /\ phase' = "running"
  /\ UNCHANGED <<setup, feed, left, objects, Request, problem, FromWorker, Names>>

(***************************************************************************)
(* A reply with a value.  A call that cannot be answered raises in Python  *)
(* ("running"); a name that cannot be answered ends the feed.              *)
(***************************************************************************)
Reply(v, otherwise) ==
  LET x == Add(<<>>, objects, v)
  IN /\ given' = <<v>>
     /\ nodes' = IF x.ok THEN x.val ELSE <<>>
     /\ roots' = IF x.ok THEN <<Len(x.val) - 1>> ELSE <<>>
     /\ problem' = IF x.ok THEN "none" ELSE x.why
     /\ phase' = IF x.ok THEN "running" ELSE otherwise

\* A reply without a value: an exception, undefined or not handled.
Refuse(why) ==
  /\ given' = <<>> /\ nodes' = <<>> /\ roots' = <<>>
  /\ problem' = why
  /\ phase' = "running"

MarkerNames(ns) == {ns[i].name : i \in {j \in DOMAIN ns : ns[j].k = "marker"}}

\* ResumeAuto of "import", without an OSHandler.
ImportModule(name) ==
  /\ phase = "running" /\ left > 0
  /\ left' = left - 1
  /\ \/ /\ name \notin DOMAIN modules
        /\ Refuse("not handled")
        /\ UNCHANGED imported
     \/ /\ name \in DOMAIN modules
        /\ LET m == ModuleValue(modules[name], name, 0)
           IN \/ /\ m.ok
                 /\ Reply(m.val, "running")
                 /\ imported' = imported \cup MarkerNames(nodes')
              \/ /\ ~m.ok
                 /\ Refuse(m.why)
                 /\ UNCHANGED imported
  /\ UNCHANGED <<setup, feed, objects, FromWorker, modules, ran, seed>>

\* NameLookupSnapshot.ResumeAuto; a lookup on a host object is undefined.
LookUpName(name, ofObject) ==
  /\ phase = "running" /\ left > 0
  /\ left' = left - 1
  /\ \/ /\ ofObject \/ name \notin DOMAIN Lookup
        /\ Refuse("undefined")
     \/ /\ ~ofObject /\ name \in DOMAIN Lookup
        /\ Reply(IF IsHostFunction(Lookup[name]) THEN Marker(name) ELSE Lookup[name], "abandoned")
  /\ UNCHANGED <<setup, feed, objects, FromWorker, Names>>

(***************************************************************************)
(* The program calls a host function.  It passes its own values, or those  *)
(* of the latest request as they came, in any order and number, with or    *)
(* without a keyword.                                                      *)
(***************************************************************************)
Written(extra) == [i \in DOMAIN nodes |-> <<nodes[i]>>] \o <<<<extra>>>>

Echo(e) ==
  LET keyword == IF e.kw THEN <<[key |-> Len(nodes), value |-> roots[1]]>> ELSE <<>>
  IN Event("call", e.name, Written(Str(1)), [i \in DOMAIN e.args |-> roots[e.args[i]]], keyword)

Echoable == {e \in setup.echoes : roots # <<>> /\ Range(e.args) \subseteq DOMAIN roots}

\* Mutant: the arena of the event before is not cleared.
Receive_KeepsArena(event) ==
  /\ phase = "running"
  /\ phase' = "decoding"
  /\ mail' = event /\ got' = NoArguments /\ problem' = "none"
  /\ UNCHANGED <<objects, values, setup, feed, Request, Names>>

Receive(event) ==
  /\ Hear(event)
  /\ UNCHANGED <<setup, feed, Request, Names>>

Suspend(event) ==
  /\ left > 0
  /\ left' = left - 1
  /\ Receive(event)

\* The feed ends with the first value that was sent last, or with None.
Complete ==
  /\ Receive(Event("complete", <<>>, Written([k |-> "none"]), <<IF roots = <<>> THEN Len(nodes) ELSE roots[1]>>, <<>>))
  /\ UNCHANGED left

\* decodeArena, then decodeFunctionCall or decodeComplete.
Decode ==
  /\ DecodeArena \/ DecodeCall
  /\ UNCHANGED <<setup, feed, left, Request, Names>>

\* The function that a name means to ResumeAuto: the feed's lookup comes first.
Resolve(name) ==
  IF name \in DOMAIN Lookup THEN {v \in {Lookup[name]} : IsHostFunction(v)} ELSE FunctionOf(modules, name)

\* FunctionSnapshot.ResumeAuto, until the function runs.  An AsyncFunction is
\* found and called in the same way.
ResumeAuto ==
  /\ phase = "resuming"
  /\ \/ /\ mail.kind = "method"
        /\ Refuse("method")
        /\ UNCHANGED <<got, ran>>
     \/ /\ mail.kind = "call" /\ Resolve(mail.name) = {}
        /\ Refuse("name")
        /\ UNCHANGED <<got, ran>>
     \/ /\ mail.kind = "call"
        /\ \E fn \in Resolve(mail.name) :
             LET in == CallHost(objects, fn.sig, got.args, got.kwargs)
             IN \/ /\ in.ok
                   /\ got' = in.val
                   /\ ran' = [name |-> mail.name, id |-> fn.id]
                   /\ phase' = "called" /\ problem' = "none"
                   /\ UNCHANGED Request
                \/ /\ ~in.ok
                   /\ Refuse(in.why)
                   /\ UNCHANGED <<got, ran>>
  /\ UNCHANGED <<setup, feed, left, objects, mail, values, modules, imported, seed>>

\* The function returns: one of its arguments, its keywords, something that is
\* no Python value, or nothing.
Return ==
  /\ phase = "called"
  /\ \E v \in {got.args[i] : i \in DOMAIN got.args} \cup {GoMap(got.kwargs), Chan, Nil} : Reply(v, "running")
  /\ UNCHANGED <<setup, feed, left, objects, FromWorker, Names>>

Next ==
  \/ Checkout
  \/ StartFeed
  \/ AddInput
  \/ SendFeed
  \/ \E n \in setup.names : ImportModule(n)
  \/ \E n \in setup.names, o \in BOOLEAN : LookUpName(n, o)
  \/ \E e \in Echoable : Suspend(Echo(e))
  \/ \E c \in setup.calls : Suspend(c)
  \/ Complete
  \/ Decode
  \/ ResumeAuto
  \/ Return

Spec == Init /\ [][Next]_vars
-----------------------------------------------------------------------------
\* The places that refer to node i: a name or an item of a container.
Referrers(i) ==
  {<<0, r>> : r \in {q \in DOMAIN roots : roots[q] = i}} \cup
  UNION {{<<n, j>> : j \in {q \in DOMAIN nodes[n].kids : nodes[n].kids[q] = i}} :
           n \in {m \in DOMAIN nodes : "kids" \in DOMAIN nodes[m]}}

\* "Input containers are copied into Python; passing the same Go slice or map
\* under multiple names creates independent Python containers" (README.md:77).
Copied == \A i \in 0..(Len(nodes) - 1) : Cardinality(Referrers(i)) = 1

(***************************************************************************)
(* What the worker reads at the reference of a value, in an arena that it  *)
(* shares with other values, is that value: an input, the result of a      *)
(* function, an imported module (encodeValue, addLegacy).  An integer that *)
(* is no int64 arrives as the same number, and of a timedelta only the     *)
(* days are ever negative.  Every node belongs to one container or to one  *)
(* name, however the Go values share their parts.  "RandomSeed integers    *)
(* use signed, little-endian two's complement" (os_policy.go:191): the     *)
(* seed reads back as the integer the host configured.                     *)
(***************************************************************************)
EncodedFaithfully ==
  /\ \A i \in DOMAIN roots : Reads(nodes, roots[i]) = Means(objects, given[i])
  /\ \A i \in DOMAIN nodes : Normal(nodes[i])
  /\ Copied
  /\ seed # <<>> => Signed(seed) = setup.seed

Encodable == Scalars \cup {"ptr", "slice", "dict", "module", "ntuple", "map", "gomap", "struct"}

Acceptable(v) ==
  LET all == Within(objects, v) \cup {v}
  IN /\ \A u \in all : Deref(objects, u).k \in Encodable
     /\ ~Recurs(objects, v)
     /\ ~Deep(objects, v, MaxValueDepth + 1, (MaxValueDepth + 1) * (Cardinality(all) + 1))

(***************************************************************************)
(* A value is refused just when it contains itself, is nested too deeply   *)
(* or contains something that is no Python value.  A slice that contains a *)
(* shorter slice of its own array counts as one that contains itself, by   *)
(* its address; empty slices, which may share an address, and values that  *)
(* are reached twice do not (valueEncoder.stack).                          *)
(***************************************************************************)
AcceptedExactly == \A i \in DOMAIN given : i \in DOMAIN roots <=> Acceptable(given[i])

\* The kinds of the nodes of the event, if each has one.
Mailed == [i \in DOMAIN mail.nodes |-> mail.nodes[i][1]]

(***************************************************************************)
(* A node of an event is decoded to the Python value the worker wrote,     *)
(* with everything it contains (decodeArena).                              *)
(***************************************************************************)
DecodedFaithfully == \A i \in DOMAIN values : Means(objects, values[i]) = Reads(Mailed, i - 1)

Sent(i) == Reads(Mailed, mail.args[i])

(***************************************************************************)
(* A host function receives every argument of the call once, in order and  *)
(* as the worker sent it: no number is cut to the width of its parameter,  *)
(* nothing is lost on the way into slices, maps and structs; keywords come *)
(* with their values.  An argument is refused only if its parameter cannot *)
(* hold it (callHost, convertHostArg, numericTo).                          *)
(***************************************************************************)
ReceivesWhatWasSent ==
  \A fn \in Resolve(mail.name) :
    /\ phase = "called" =>
         /\ Len(got.args) = Len(mail.args)
         /\ Len(mail.args) >= Len(fn.sig.params) \/ fn.sig.variadic
         /\ \A i \in DOMAIN got.args :
              Holds(ParamType(fn.sig, i), Means(objects, got.args[i]), Sent(i))
         /\ \A p \in Range(mail.kwargs) :
              Means(objects, got.kwargs[Mailed[p.key + 1].s]) = Reads(Mailed, p.value)
    /\ problem \in {"overflows", "type", "None", "keys"} =>
         \E i \in DOMAIN mail.args : ~Fits(Sent(i), ParamType(fn.sig, i))

Functions == AllFunctions([n \in DOMAIN modules |-> setup.tops[n]])

(***************************************************************************)
(* The name of an imported function leads back to that function, and to no *)
(* other, in this feed and in later ones, unless the feed's ExternalLookup *)
(* has a value of that name (ResumeAuto, ExternalModules.function).  No    *)
(* two functions are imported under one name, and none that is private     *)
(* (NewExternalModule, ExternalModule.value).                              *)
(***************************************************************************)
ImportedResolves ==
  /\ mail.name \notin DOMAIN Lookup =>
       /\ phase = "called" =>
            {f \in Functions : f.name = mail.name} = {[name |-> mail.name, id |-> ran.id, public |-> TRUE]}
       /\ problem = "name" => mail.name \notin imported
  /\ \A n \in imported :
       /\ Cardinality({f \in Functions : f.name = n}) = 1
       /\ \A f \in Functions : f.name = n => f.public
=============================================================================
