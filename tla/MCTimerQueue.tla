---------------------------- MODULE MCTimerQueue ----------------------------
(* TimerQueue with one thread beside the loop and room for two timers.     *)
EXTENDS TimerQueue, TLC

CONSTANTS caller1

MCCallers == {caller1}
MCAddresses == {1, 2}
MCDelays == {0, 2}
MCIntervals == {0, 1}

=============================================================================
