-------------------------- MODULE MCEventLoopThread --------------------------
(* EventLoopThread for TLC: the creator, one more thread that uses the     *)
(* loop, one channel and two functors, so that a functor can be queued     *)
(* while another one runs.                                                 *)
EXTENDS EventLoopThread

CONSTANTS main, other, child1, f1, f2, sock

MCThreads == {main, other}
MCFunctors == {f1, f2}
MCIoChannels == {sock}
==============================================================================
