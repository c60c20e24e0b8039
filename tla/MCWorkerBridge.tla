---------------------------- MODULE MCWorkerBridge ----------------------------
(***************************************************************************)
(* Model-checking instance of WorkerBridge: two threads of the host, which *)
(* are interchangeable.                                                    *)
(***************************************************************************)
EXTENDS WorkerBridge, TLC

Symmetry == Permutations(Callers)
==============================================================================
