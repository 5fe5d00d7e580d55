-------------------------- MODULE MCNetworkManager --------------------------
(***************************************************************************)
(* A small instance of NetworkManager: one emitter with one video, and a   *)
(* user who clicks twice, so that the window may wait for an answer while  *)
(* the worker receives.                                                    *)
(***************************************************************************)
EXTENDS NetworkManager
CONSTANTS u1, e1, v1
OneVideoEach == [e \in Emitters |-> {v1}]
=============================================================================
