--------------------------- MODULE MCWorkerPools ---------------------------
(* Instances of WorkerPools for TLC. *)
EXTENDS WorkerPools

MCSlots == [workflow |-> 1, activities |-> 2, llm |-> 1, terminate |-> 1]
=============================================================================
