--------------------------- MODULE MCRtspSession ----------------------------
(***************************************************************************)
(* A small instance of RtspSession: one live and one saved stream.         *)
(***************************************************************************)
EXTENDS RtspSession
CONSTANTS c1, live, saved
LivePort == [s \in {live} |-> 5]
=============================================================================
