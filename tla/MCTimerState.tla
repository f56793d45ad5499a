---------------------------- MODULE MCTimerState ----------------------------
(* A server of 10 frames per second; a small word stands for 2^32, so that  *)
(* one of the periods is cut to 0 and one to a negative number.             *)
EXTENDS TimerState
MCBegins == {-1, 0, 50}
MCFreqs == {-1, 0, 50, 100, 3000, 4096}
MCJumps == {-50, 50, 100}
=============================================================================
