-------------------------- MODULE MCTcpConnection --------------------------
(***************************************************************************)
(* A small instance of TcpConnection: one worker beside the loop.          *)
(***************************************************************************)
EXTENDS TcpConnection
CONSTANTS w1
=============================================================================
