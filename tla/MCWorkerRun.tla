---------------------------- MODULE MCWorkerRun ----------------------------
(***************************************************************************)
(* The instance of WorkerRun that TLC checks, with what a run computes:    *)
(* the context it is given, the compaction of its conversation and the     *)
(* scope its candidate is held to.                                         *)
(***************************************************************************)
EXTENDS WorkerRun, MCContextCompiler, MCCompaction, MCFileScope
=============================================================================
