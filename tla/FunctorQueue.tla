----------------------------- MODULE FunctorQueue -----------------------------
(***************************************************************************)
(* What EventLoop promises to the threads that hand it work: a queue.      *)
(* queueInloop puts a functor at its end, and the owner's thread takes     *)
(* functors from its head, one at a time, none skipped and none twice.     *)
(* Nothing is promised about a functor that is still queued when the loop  *)
(* quits.                                                                  *)
(***************************************************************************)
EXTENDS Sequences

CONSTANT Functors

VARIABLES
  queue,  \* handed over and not run
  done    \* run, in order

Init ==
  /\ queue = <<>>
  /\ done = <<>>

Submit(f) ==
  /\ queue' = Append(queue, f)
  /\ done' = done

RunNext ==
  /\ queue # <<>>
  /\ done' = Append(done, Head(queue))
  /\ queue' = Tail(queue)

Next == (\E f \in Functors : Submit(f)) \/ RunNext

Spec == Init /\ [][Next]_<<queue, done>>
==============================================================================
