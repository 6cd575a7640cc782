----------------------------- MODULE MCEventLoop -----------------------------
(* EventLoop for TLC: two foreign threads, one channel beside the wakeup   *)
(* channel.  Functors are handed over once each, so MCFunctors bounds how  *)
(* many can be queued; three let one run, one sit in the batch and one be  *)
(* queued behind them.                                                     *)
EXTENDS EventLoop

CONSTANTS t1, t2, owner, f1, f2, f3, sock

MCThreads == {t1, t2}
MCFunctors == {f1, f2, f3}
MCIoChannels == {sock}
==============================================================================
