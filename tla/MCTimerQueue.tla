---------------------------- MODULE MCTimerQueue ----------------------------
(***************************************************************************)
(* A small instance of TimerQueue: three timers.                           *)
(***************************************************************************)
EXTENDS TimerQueue
=============================================================================
