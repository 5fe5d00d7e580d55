----------------------------- MODULE MCRtpStream -----------------------------
(***************************************************************************)
(* A small instance of RtpStream: thread a sends three frames, of which    *)
(* the first two have one of two sizes, to a lossy wire with room for two  *)
(* packets; thread b sends one frame and only overwrites the packet.       *)
(***************************************************************************)
EXTENDS RtpStream

CONSTANTS a, b

ThreeAndOne == [s \in {a, b} |-> IF s = a THEN <<{5, 7}, {4, 5}, {4}>> ELSE <<{5}>>]
RoomForOne == [s \in {a, b} |-> IF s = a THEN 2 ELSE 0]
=============================================================================
