--------------------------- MODULE MCTimerService ---------------------------
(* TimerService with a single shot and a repeating timer that act on each other. *)
EXTENDS TimerService
=============================================================================
