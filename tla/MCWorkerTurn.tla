--------------------------- MODULE MCWorkerTurn ---------------------------
(* Instances of WorkerTurn for TLC. *)
EXTENDS WorkerTurn
=============================================================================
