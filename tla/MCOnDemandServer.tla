------------------------- MODULE MCOnDemandServer -------------------------
(***************************************************************************)
(* Small instances of OnDemandServer: two connections, one or two videos.  *)
(***************************************************************************)
EXTENDS OnDemandServer

CONSTANTS c1, c2, s1, s2

(* The videos that the requests of a connection name.                      *)
OneSession == [c \in Conns |-> {s1}]
FirstAnySession == [c \in Conns |-> IF c = c1 THEN Sessions ELSE {s1}]

(* What a connection asks for in SETUP.                                    *)
OverUdp == [c \in Conns |-> {"udp"}]
SecondOverTcp == [c \in Conns |-> IF c = c1 THEN {"udp"} ELSE {"udp", "tcp"}]
=============================================================================
