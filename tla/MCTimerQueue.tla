----------------------------- MODULE MCTimerQueue -----------------------------
(* TimerQueue for TLC: the loop's thread, one more thread, two timers and  *)
(* delays of up to two units, so that timers can expire together or apart  *)
(* and one can be added in the callback of another.                        *)
EXTENDS TimerQueue

CONSTANTS owner, other, none, a, b

MCThreads == {other}
MCTimers == {a, b}
==============================================================================
