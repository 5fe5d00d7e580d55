-------------------------- MODULE MCVideoRotation ---------------------------
(***************************************************************************)
(* A small instance of VideoRotation: one client, over TCP, so that its    *)
(* thread may come to its end or be left waiting in Send.                  *)
(***************************************************************************)
EXTENDS VideoRotation
CONSTANTS c1
=============================================================================
