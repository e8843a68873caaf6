----------------------------- MODULE MCWorkerPool -----------------------------
(***************************************************************************)
(* Instance of WorkerPool for TLC.  No symmetry: liveness is checked too.   *)
(***************************************************************************)
EXTENDS WorkerPool
=============================================================================
