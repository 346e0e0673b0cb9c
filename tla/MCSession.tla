----------------------------- MODULE MCSession -----------------------------
(* Instances of Session for TLC. *)
EXTENDS Session, TLC

Symmetry == Permutations(Callers) \cup Permutations(Runs)

\* The session is used for feeds only: nothing is restored into it.
FeedsOnly == Init /\ [][Next /\ ~\E g \in Callers : Loading(g)]_vars
=============================================================================
