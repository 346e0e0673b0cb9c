------------------------------ MODULE Decoder ------------------------------
(***************************************************************************)
(* The part of a session that turns an event of the worker into Go values: *)
(* decodeArena of arena.go, then decodeFunctionCall or decodeComplete of   *)
(* protocol.go.  Boundary puts the rest of the session around it.          *)
(***************************************************************************)
EXTENDS Decoding

VARIABLES
  phase,     \* where the session stands
  objects,   \* Go slices, maps and pointers, by address
  problem,   \* why the latest request or conversion was refused, or "none"
  mail,      \* the latest event of the worker with values
  values,    \* the arena of that event, as far as it is decoded
  got        \* arguments and keywords: decoded, then as the function got them

decoderVars == <<phase, objects, problem, mail, values, got>>

\* An event with an arena: a "call" of a function, a "method" call on an object
\* of a valid identity, a "stray" one on an object of none, or "complete", the
\* end of the feed, whose only argument is the result.
Event(kind, name, ns, args, kwargs) ==
  [kind |-> kind, name |-> name, nodes |-> ns, args |-> args, kwargs |-> kwargs]

NoEvent == Event("none", <<>>, <<>>, <<>>, <<>>)
NoArguments == [args |-> <<>>, kwargs |-> <<>>]

Hear(event) ==
  /\ phase = "running"
  /\ phase' = "decoding"
  /\ mail' = event /\ values' = <<>> /\ got' = NoArguments
  /\ problem' = "none"
  /\ UNCHANGED objects

\* progress returns a ProtocolError; what becomes of the feed is in Session.
Undecodable(why) ==
  /\ problem' = why /\ phase' = "lost"
  /\ UNCHANGED <<objects, values, got>>

\* decodeArena: a container is a new object, other values stand for themselves.
DecodeArena ==
  LET x == DecodeNode(objects, values, mail.nodes[Len(values) + 1], Len(mail.nodes))
  IN /\ phase = "decoding" /\ Len(values) < Len(mail.nodes)
     /\ \/ /\ x.ok /\ "kids" \in DOMAIN x.val
           /\ objects' = Append(objects, x.val)
           /\ values' = Append(values, Ref(Len(objects'), Len(x.val.kids)))
           /\ UNCHANGED <<phase, problem, got>>
        \/ /\ x.ok /\ "kids" \notin DOMAIN x.val
           /\ values' = Append(values, x.val)
           /\ UNCHANGED <<phase, problem, objects, got>>
        \/ /\ ~x.ok
           /\ Undecodable(x.why)
     /\ UNCHANGED mail

\* The rest of decodeFunctionCall, or of decodeComplete, which ends the feed.
DecodeCall ==
  LET Take(refs) == References(values, refs, Len(mail.nodes))
      args == Take(mail.args)
      keys == Take([i \in DOMAIN mail.kwargs |-> mail.kwargs[i].key])
      vals == Take([i \in DOMAIN mail.kwargs |-> mail.kwargs[i].value])
  IN /\ phase = "decoding" /\ Len(values) = Len(mail.nodes)
     /\ \/ /\ args.ok /\ keys.ok /\ vals.ok /\ mail.kind # "stray"
           /\ got' = [args |-> args.val,
                      kwargs |-> [i \in DOMAIN mail.kwargs |-> [key |-> keys.val[i], value |-> vals.val[i]]]]
           /\ phase' = IF mail.kind = "complete" THEN "idle" ELSE "resuming"
           /\ UNCHANGED <<problem, objects, values>>
        \/ /\ ~(args.ok /\ keys.ok /\ vals.ok) \/ mail.kind = "stray"
           /\ Undecodable("call")
     /\ UNCHANGED mail
-----------------------------------------------------------------------------
(***************************************************************************)
(* The decoder by itself.  The worker may write any event: a node message  *)
(* has any number of fields, and any references.  Whatever else the        *)
(* session does, it does while nothing is being decoded, and it leaves the *)
(* decoded values alone.                                                   *)
(***************************************************************************)
IsSequence(s) == Len(s) \in Nat /\ s = [i \in 1..Len(s) |-> s[i]]

IsNode(n) ==
  \/ n.k \in {"none", "str", "marker", "unknown"} \cup WireNumbers /\ "kids" \notin DOMAIN n
  \/ /\ n.k \in {"list", "dict", "module", "ntuple", "instance", "class"}
     /\ "kids" \in DOMAIN n /\ n.kids \in Seq(Nat)
     /\ n.k = "class" => n.origin \in {"none", "builtin", "sandbox", "host"}
     /\ n.k \in {"class", "instance"} => n.id \in Identities
     /\ n.k = "instance" => n.kids # <<>>
     /\ n.k = "module" => n.fields \in Seq(ModuleFields)

IsEvent(event) ==
  /\ IsSequence(event.nodes)
  /\ \A i \in DOMAIN event.nodes :
       Len(event.nodes[i]) \in Nat /\ (Len(event.nodes[i]) = 1 => IsNode(event.nodes[i][1]))
  /\ event.args \in Seq(Nat) /\ event.kwargs \in Seq([key : Nat, value : Nat])

Elsewhere ==
  /\ phase \notin {"decoding", "lost"}
  /\ phase' \notin {"decoding", "lost", "resuming"}
  /\ UNCHANGED <<objects, mail, values>>

DecoderInit ==
  /\ phase \notin {"decoding", "lost", "resuming"}
  /\ IsSequence(objects)
  /\ mail = NoEvent /\ values = <<>>

DecoderNext ==
  \/ IsEvent(mail') /\ Hear(mail')
  \/ DecodeArena
  \/ DecodeCall
  \/ Elsewhere

(***************************************************************************)
(* The session decodes as this says and nothing else touches the decoder:  *)
(* an event is taken in only when the last one has been dealt with, its    *)
(* arena starts empty and is filled node by node (progress, decodeArena),  *)
(* and no call, lookup, import or reply changes a value that was decoded   *)
(* or an object that the host holds.                                       *)
(***************************************************************************)
DecoderSpec == DecoderInit /\ [][DecoderNext]_decoderVars
-----------------------------------------------------------------------------
\* A reference of a call leads to no node of its message, or the object it is
\* a method of has no identity.
Dangling ==
  \/ mail.kind = "stray"
  \/ \E i \in DOMAIN mail.args : mail.args[i] >= Len(mail.nodes)
  \/ \E i \in DOMAIN mail.kwargs :
       mail.kwargs[i].key >= Len(mail.nodes) \/ mail.kwargs[i].value >= Len(mail.nodes)

BuiltinNode(n) == n.k = "class" /\ n.origin = "builtin"

\* Value i of vs is what node i says, with the values of the nodes it refers to.
Mirrors(messages, heap, vs, i) ==
  LET n == messages[i][1]
      v == vs[i]
      c == Deref(heap, v)
  IN /\ n.k = "none" => v = Nil
     /\ n.k \in {"str", "marker"} => v = n
     /\ n.k \in WireNumbers => v.k \in {"int", "bigint", "timedelta"} /\ MeansNumber(v) = ReadsNumber(n)
     /\ BuiltinNode(n) => v = Type
     /\ "kids" \in DOMAIN n /\ ~BuiltinNode(n) =>
          /\ v.k = "ref" /\ v.at \in DOMAIN heap
          /\ c.k = IF n.k = "list" THEN "slice" ELSE n.k
          /\ c.kids = [j \in DOMAIN n.kids |-> vs[n.kids[j] + 1]]

(***************************************************************************)
(* Node by node, what is decoded is what the worker wrote: a container has *)
(* the values of the nodes it refers to, all of them decoded before it,    *)
(* and an object of its own that no other node shares.  An event is given  *)
(* up if it is malformed and only then, which it is also by a class, an    *)
(* instance or a module without the identity it must have; and a call that *)
(* is taken in has the values its references lead to (decodeArena,         *)
(* arenaRef, decodeModule, decodeFunctionCall).                            *)
(***************************************************************************)
DecodedNodeByNode ==
  /\ \A i \in DOMAIN values : Sound(mail.nodes, i) /\ Mirrors(mail.nodes, objects, values, i)
  /\ \A i, j \in DOMAIN values :
       values[i].k = "ref" /\ values[j].k = "ref" /\ values[i].at = values[j].at => i = j
  /\ phase = "lost" => ~WellFormed(mail.nodes) \/ Dangling
  /\ phase = "resuming" =>
       /\ WellFormed(mail.nodes) /\ ~Dangling
       /\ got.args = [i \in DOMAIN mail.args |-> values[mail.args[i] + 1]]
       /\ got.kwargs = [i \in DOMAIN mail.kwargs |->
                          [key |-> values[mail.kwargs[i].key + 1], value |-> values[mail.kwargs[i].value + 1]]]
=============================================================================
