-------------------------- MODULE MCTaskScheduler ---------------------------
(***************************************************************************)
(* A small instance of TaskScheduler: one producer beside the loop.        *)
(***************************************************************************)
EXTENDS TaskScheduler
CONSTANTS p1
=============================================================================
