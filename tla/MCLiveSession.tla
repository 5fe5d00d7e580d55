--------------------------- MODULE MCLiveSession ---------------------------
(***************************************************************************)
(* A small instance of LiveSession.                                        *)
(***************************************************************************)
EXTENDS LiveSession, TLC
CONSTANTS s1, s2, c1, c2, g1, g2
Interchangeable == Permutations(Sessions) \cup Permutations(Conns) \cup Permutations(Groups)
=============================================================================
