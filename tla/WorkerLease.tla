---------------------------- MODULE WorkerLease ----------------------------
(***************************************************************************)
(* What the pool promises about its workers, without slots, registry or    *)
(* program counters: a process belongs to one owner at a time, passes from *)
(* one goroutine to another only through the pool, enters the pool only    *)
(* after what a session left in it has been reset, and is destroyed only   *)
(* by its owner.                                                           *)
(***************************************************************************)
CONSTANTS
  Workers,  \* identities of worker processes
  Owners,   \* goroutines
  Pool,     \* the owner of a process that waits for a session
  Nobody    \* the owner of an identity that no process has

VARIABLES
  owner,  \* owner[w] is in Owners, or Pool, or Nobody
  used    \* the processes that hold the state of a session

leaseVars == <<owner, used>>

Init ==
  /\ owner = [w \in Workers |-> Nobody]
  /\ used = {}

\* owner[w] passes from a to b.
Pass(w, a, b) ==
  /\ owner[w] = a
  /\ owner' = [owner EXCEPT ![w] = b]

Create(t, w) == Pass(w, Nobody, t) /\ UNCHANGED used

Lend(t, w) == Pass(w, Pool, t) /\ UNCHANGED used

GiveBack(t, w) == w \notin used /\ Pass(w, t, Pool) /\ UNCHANGED used

Destroy(t, w) == Pass(w, t, Nobody) /\ used' = used \ {w}

\* A session starts in w, or the state a session left in w is cleared.
Use(t, w) == owner[w] = t /\ used' = used \cup {w} /\ UNCHANGED owner
Clear(t, w) == owner[w] = t /\ used' = used \ {w} /\ UNCHANGED owner

Next ==
  \E t \in Owners, w \in Workers :
    \/ Create(t, w) \/ Lend(t, w) \/ GiveBack(t, w)
    \/ Destroy(t, w) \/ Use(t, w) \/ Clear(t, w)

Spec == Init /\ [][Next]_leaseVars
=============================================================================
