------------------------------- MODULE Arena -------------------------------
(***************************************************************************)
(* arena.go: the values of one message as a sequence of nodes that refer   *)
(* to one another by index, from 0.  arenaEncoder writes them; decodeArena *)
(* is in Decoding.                                                         *)
(***************************************************************************)
EXTENDS GoValues

(***************************************************************************)
(* addLegacy: the parts of a value first, each with nodes of its own, then *)
(* the node of the value.  The index of a value is the last one.           *)
(***************************************************************************)
RECURSIVE AddLegacy(_, _)

\* Mutant: equal nodes are written once.
AddLegacy_Interned(nodes, tree) ==
  LET Part(acc, t) ==
        LET n == AddLegacy(acc.nodes, t) IN [nodes |-> n, refs |-> Append(acc.refs, Len(n) - 1)]
      x == IF "kids" \in DOMAIN tree THEN FoldLeft(Part, [nodes |-> nodes, refs |-> <<>>], tree.kids)
           ELSE [nodes |-> nodes, refs |-> <<>>]
      node == IF "kids" \in DOMAIN tree THEN [tree EXCEPT !.kids = x.refs] ELSE tree
  IN IF x.nodes # <<>> /\ x.nodes[Len(x.nodes)] = node THEN x.nodes ELSE Append(x.nodes, node)

AddLegacy(nodes, tree) ==
  LET Part(acc, t) ==
        LET n == AddLegacy(acc.nodes, t) IN [nodes |-> n, refs |-> Append(acc.refs, Len(n) - 1)]
      x == FoldLeft(Part, [nodes |-> nodes, refs |-> <<>>], tree.kids)
  IN IF "kids" \in DOMAIN tree THEN Append(x.nodes, [tree EXCEPT !.kids = x.refs]) ELSE Append(nodes, tree)

\* arenaEncoder.add: the nodes with those of v, or why there are none.
Add(nodes, heap, v) ==
  LET x == EncodeValue(heap, v)
  IN IF x.ok THEN Done(AddLegacy(nodes, x.val)) ELSE x
-----------------------------------------------------------------------------
(***************************************************************************)
(* What a message means: node i of nodes as a Python value.                *)
(***************************************************************************)
RECURSIVE Reads(_, _)
Reads(nodes, i) ==
  LET n == nodes[i + 1]
  IN ReadsNode(n, [j \in DOMAIN n.kids |-> Reads(nodes, n.kids[j])])
=============================================================================
