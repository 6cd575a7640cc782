------------------------------ MODULE EventLoop ------------------------------
(***************************************************************************)
(* The reactor of eventLoop.cpp: one thread owns the loop and runs         *)
(*   poll -> handle active channels -> doPendingFunctors                   *)
(* until quit_ is set; any thread may hand it work with runInLoop and      *)
(* queueInloop, or stop it with quit.  A thread other than the owner wakes *)
(* a loop that sleeps in poll by writing to an eventfd.                    *)
(*                                                                         *)
(* The eventfd's counter is abstracted to "readable or not": the code      *)
(* never looks at its value, reading resets it to zero, and a write that   *)
(* the kernel refuses because the counter is full leaves it readable.      *)
(***************************************************************************)
EXTENDS Naturals, Sequences

CONSTANTS
  Threads,     \* the threads that do not own the loop
  LoopThread,  \* the thread whose id is threadId_
  Functors,    \* the callables handed to the loop; each is handed over once
  IoChannels   \* the channels in the poller beside the wakeup channel

ASSUME ThreadsAssumption == LoopThread \notin Threads

VARIABLES
  pc,                      \* where LoopThread is, see LoopStates
  looping,                 \* looping_
  quit,                    \* quit_
  callingPendingFunctors,  \* callingPendingFunctors_
  pendingFunctor,          \* pendingFunctor_, guarded by mtx_
  functors,                \* the local vector of doPendingFunctors, not yet run
  activeChannels,          \* what is left to handle of activeChannels_
  wakeupFd,                \* wakeupFd_ is readable
  wakingUp,                \* threads between their update and their wakeup()
  ran,                     \* history: the functors run from the queue, in order
  inlined,                 \* history: the functors runInLoop called on the spot
  early                    \* history: queued by LoopThread outside of loop()

vars == <<pc, looping, quit, callingPendingFunctors, pendingFunctor, functors,
          activeChannels, wakeupFd, wakingUp, ran, inlined, early>>

(* LoopThread outside loop(), at the while test, in ::poll, between two    *)
(* channels, inside a channel's callback, before the swap, between two     *)
(* functors and inside a functor.                                          *)
LoopStates == {"idle", "test", "poll", "dispatch", "handler",
               "pending", "run", "functor"}

WakeupChannel == "wakeup"

RangeOf(s) == {s[i] : i \in 1 .. Len(s)}

(* A functor nobody has handed to the loop yet. *)
Fresh == Functors \ (RangeOf(pendingFunctor) \cup RangeOf(functors)
                       \cup RangeOf(ran) \cup inlined)

NeverOwner(t) == FALSE
isInLoopThread(t) == t = LoopThread

(* When queueInloop writes the eventfd. *)
ForeignOnly(t) == ~isInLoopThread(t)
NeedsWakeup(t) == ~isInLoopThread(t) \/ callingPendingFunctors

(* Threads call the loop from user code: LoopThread does so outside loop() *)
(* and inside its callbacks, another thread when it is not inside a call.  *)
CanCall(t) ==
  IF isInLoopThread(t) THEN pc \in {"idle", "handler", "functor"}
                       ELSE t \notin wakingUp

------------------------------------------------------------------------------
(* The constructor.  It does not initialise callingPendingFunctors_ and    *)
(* quit_; only the first is read before it is written.                     *)
Init ==
  /\ pc = "idle"
  /\ looping = FALSE
  /\ quit \in BOOLEAN
  /\ callingPendingFunctors \in BOOLEAN
  /\ pendingFunctor = <<>>
  /\ functors = <<>>
  /\ activeChannels = {}
  /\ wakeupFd = FALSE
  /\ wakingUp = {}
  /\ ran = <<>>
  /\ inlined = {}
  /\ early = {}

------------------------------------------------------------------------------
(* Calls from any thread.                                                  *)

(* queueInloop.  The owner pushes and, when a functor is running, writes   *)
(* the eventfd itself; for another thread the write is a step of its own,  *)
(* after the mutex is released.                                            *)
QueueInloop(t, f) ==
  /\ CanCall(t)
  /\ f \in Fresh
  /\ pendingFunctor' = Append(pendingFunctor, f)
  /\ wakingUp' = IF isInLoopThread(t) THEN wakingUp ELSE wakingUp \cup {t}
  /\ wakeupFd' = (wakeupFd \/ (isInLoopThread(t) /\ NeedsWakeup(t)))
  /\ early' = IF isInLoopThread(t) /\ pc = "idle" THEN early \cup {f} ELSE early
  /\ UNCHANGED <<pc, looping, quit, callingPendingFunctors, functors,
                 activeChannels, ran, inlined>>

(* runInLoop: in the owner's thread the functor is called on the spot. *)
RunInLoop(t, f) ==
  IF isInLoopThread(t)
  THEN /\ CanCall(t)
       /\ f \in Fresh
       /\ inlined' = inlined \cup {f}
       /\ UNCHANGED <<pc, looping, quit, callingPendingFunctors, pendingFunctor,
                      functors, activeChannels, wakeupFd, wakingUp, ran, early>>
  ELSE QueueInloop(t, f)

(* quit. *)
QuitInSilence(t) ==
  /\ CanCall(t)
  /\ quit' = TRUE
  /\ UNCHANGED <<pc, looping, callingPendingFunctors, pendingFunctor, functors,
                 activeChannels, wakeupFd, wakingUp, ran, inlined, early>>

Quit(t) ==
  /\ CanCall(t)
  /\ quit' = TRUE
  /\ wakingUp' = IF isInLoopThread(t) THEN wakingUp ELSE wakingUp \cup {t}
  /\ UNCHANGED <<pc, looping, callingPendingFunctors, pendingFunctor, functors,
                 activeChannels, wakeupFd, ran, inlined, early>>

(* wakeup, the second half of queueInloop and quit in another thread. *)
Wakeup(t) ==
  /\ t \in wakingUp
  /\ wakeupFd' = TRUE
  /\ wakingUp' = wakingUp \ {t}
  /\ UNCHANGED <<pc, looping, quit, callingPendingFunctors, pendingFunctor,
                 functors, activeChannels, ran, inlined, early>>

------------------------------------------------------------------------------
(* loop(), in the owner's thread.                                          *)

LoopDrainsWakeup ==
  /\ pc = "idle"
  /\ pc' = "test"
  /\ looping' = TRUE
  /\ quit' = FALSE
  /\ wakeupFd' = FALSE
  /\ UNCHANGED <<callingPendingFunctors, pendingFunctor, functors,
                 activeChannels, wakingUp, ran, inlined, early>>

Loop ==
  /\ pc = "idle"
  /\ pc' = "test"
  /\ looping' = TRUE
  /\ quit' = FALSE
  /\ UNCHANGED <<callingPendingFunctors, pendingFunctor, functors,
                 activeChannels, wakeupFd, wakingUp, ran, inlined, early>>

(* The while test, and activeChannels_.clear(). *)
TestQuit ==
  /\ pc = "test"
  /\ pc' = IF quit THEN "idle" ELSE "poll"
  /\ looping' = ~quit
  /\ activeChannels' = {}
  /\ UNCHANGED <<quit, callingPendingFunctors, pendingFunctor, functors,
                 wakeupFd, wakingUp, ran, inlined, early>>

(* poll returns with the descriptors that are ready. *)
PollReady(ready) ==
  /\ pc = "poll"
  /\ activeChannels' = ready \cup (IF wakeupFd THEN {WakeupChannel} ELSE {})
  /\ activeChannels' # {}
  /\ pc' = "dispatch"
  /\ UNCHANGED <<looping, quit, callingPendingFunctors, pendingFunctor,
                 functors, wakeupFd, wakingUp, ran, inlined, early>>

(* poll returns after kPollTimeMs, or fails with an error that is logged. *)
PollNothing ==
  /\ pc = "poll"
  /\ pc' = "dispatch"
  /\ UNCHANGED <<looping, quit, callingPendingFunctors, pendingFunctor,
                 functors, activeChannels, wakeupFd, wakingUp, ran, inlined,
                 early>>

(* The wakeup channel's read callback. *)
HandleRead ==
  /\ pc = "dispatch"
  /\ WakeupChannel \in activeChannels
  /\ activeChannels' = activeChannels \ {WakeupChannel}
  /\ wakeupFd' = FALSE
  /\ UNCHANGED <<pc, looping, quit, callingPendingFunctors, pendingFunctor,
                 functors, wakingUp, ran, inlined, early>>

(* Any other active channel's handleEvent: user code runs until it returns. *)
HandleEvent(c) ==
  /\ pc = "dispatch"
  /\ c \in activeChannels \ {WakeupChannel}
  /\ activeChannels' = activeChannels \ {c}
  /\ pc' = "handler"
  /\ UNCHANGED <<looping, quit, callingPendingFunctors, pendingFunctor,
                 functors, wakeupFd, wakingUp, ran, inlined, early>>

HandlerReturns ==
  /\ pc = "handler"
  /\ pc' = "dispatch"
  /\ UNCHANGED <<looping, quit, callingPendingFunctors, pendingFunctor,
                 functors, activeChannels, wakeupFd, wakingUp, ran, inlined,
                 early>>

DispatchDone ==
  /\ pc = "dispatch"
  /\ activeChannels = {}
  /\ pc' = "pending"
  /\ UNCHANGED <<looping, quit, callingPendingFunctors, pendingFunctor,
                 functors, activeChannels, wakeupFd, wakingUp, ran, inlined,
                 early>>

(* doPendingFunctors: the flag and the swap under the mutex ... *)
SwapLosesOrder ==
  /\ pc = "pending"
  /\ callingPendingFunctors' = TRUE
  /\ functors' = [i \in 1 .. Len(pendingFunctor) |->
                    pendingFunctor[Len(pendingFunctor) + 1 - i]]
  /\ pendingFunctor' = <<>>
  /\ pc' = "run"
  /\ UNCHANGED <<looping, quit, activeChannels, wakeupFd, wakingUp, ran,
                 inlined, early>>

SwapPending ==
  /\ pc = "pending"
  /\ callingPendingFunctors' = TRUE
  /\ functors' = pendingFunctor
  /\ pendingFunctor' = <<>>
  /\ pc' = "run"
  /\ UNCHANGED <<looping, quit, activeChannels, wakeupFd, wakingUp, ran,
                 inlined, early>>

(* ... then the functors one by one ... *)
RunFunctor ==
  /\ pc = "run"
  /\ functors # <<>>
  /\ ran' = Append(ran, Head(functors))
  /\ functors' = Tail(functors)
  /\ pc' = "functor"
  /\ UNCHANGED <<looping, quit, callingPendingFunctors, pendingFunctor,
                 activeChannels, wakeupFd, wakingUp, inlined, early>>

FunctorReturns ==
  /\ pc = "functor"
  /\ pc' = "run"
  /\ UNCHANGED <<looping, quit, callingPendingFunctors, pendingFunctor,
                 functors, activeChannels, wakeupFd, wakingUp, ran, inlined,
                 early>>

(* ... then the flag is cleared and the while test is next. *)
PendingDone ==
  /\ pc = "run"
  /\ functors = <<>>
  /\ callingPendingFunctors' = FALSE
  /\ pc' = "test"
  /\ UNCHANGED <<looping, quit, pendingFunctor, functors, activeChannels,
                 wakeupFd, wakingUp, ran, inlined, early>>

------------------------------------------------------------------------------
Call(t) ==
  \/ \E f \in Functors : QueueInloop(t, f) \/ RunInLoop(t, f)
  \/ Quit(t)

(* The steps LoopThread takes by itself inside loop(); a poll that returns *)
(* because of the wakeup channel is one, a timeout or traffic is not.      *)
LoopStep ==
  \/ TestQuit
  \/ wakeupFd /\ \E ready \in SUBSET IoChannels : PollReady(ready)
  \/ HandleRead
  \/ \E c \in IoChannels : HandleEvent(c)
  \/ HandlerReturns
  \/ DispatchDone
  \/ SwapPending
  \/ RunFunctor
  \/ FunctorReturns
  \/ PendingDone

Next ==
  \/ \E t \in Threads \cup {LoopThread} : Call(t)
  \/ \E t \in Threads : Wakeup(t)
  \/ Loop
  \/ \E ready \in SUBSET IoChannels : PollReady(ready)
  \/ PollNothing
  \/ LoopStep

Spec == Init /\ [][Next]_vars

(* A call that has started completes, and inside loop() the owner's thread *)
(* keeps running.  Nothing is assumed of poll's timeout, of traffic on the *)
(* other channels, or of anybody calling loop, quit or queueInloop.        *)
Fairness ==
  /\ \A t \in Threads : WF_vars(Wakeup(t))
  /\ WF_vars(LoopStep)

FairSpec == Spec /\ Fairness

------------------------------------------------------------------------------
TypeOK ==
  /\ pc \in LoopStates
  /\ looping \in BOOLEAN
  /\ quit \in BOOLEAN
  /\ callingPendingFunctors \in BOOLEAN
  /\ pendingFunctor \in Seq(Functors)
  /\ functors \in Seq(Functors)
  /\ activeChannels \subseteq IoChannels \cup {WakeupChannel}
  /\ wakeupFd \in BOOLEAN
  /\ wakingUp \subseteq Threads
  /\ ran \in Seq(Functors)
  /\ inlined \subseteq Functors
  /\ early \subseteq Functors

(* poll returns without waiting for its timeout, now or as soon as a       *)
(* thread that is inside queueInloop or quit gets to its wakeup().         *)
Woken == wakeupFd \/ wakingUp # {}

(* Work that somebody must be told about.  A functor the owner queued      *)
(* before loop() is not: queueInloop writes no eventfd for it, and it      *)
(* waits for the first event or for the 10 s timeout of poll.              *)
Unannounced == \E i \in DOMAIN pendingFunctor : pendingFunctor[i] \notin early

(* The loop never sleeps in poll on work: when it is about to block with a *)
(* functor in pendingFunctor_, or after quit(), the eventfd is readable or *)
(* its write is on the way (the condition in queueInloop, which a functor  *)
(* that queues another functor depends on, and the wakeup in quit).        *)
NoLostWakeup == pc = "poll" /\ (Unannounced \/ quit) => Woken

(* The strengthening of NoLostWakeup that every step preserves: queued     *)
(* work is announced wherever the loop has still to pass through poll      *)
(* before it swaps, and the flag is up for as long as a batch runs.        *)
WorkAnnounced ==
  Unannounced /\ pc \notin {"dispatch", "handler", "pending"} => Woken

QuitAnnounced == quit /\ pc = "poll" => Woken

BatchFlag ==
  /\ pc \in {"run", "functor"} => callingPendingFunctors
  /\ pc \notin {"run", "functor"} => functors = <<>>

Inv == TypeOK /\ WorkAnnounced /\ QuitAnnounced /\ BatchFlag

(* Functors run in the order they were queued, none lost and none twice,   *)
(* over the swap of doPendingFunctors and whatever is queued meanwhile.    *)
Queue == INSTANCE FunctorQueue
           WITH queue <- functors \o pendingFunctor, done <- ran

RunsInOrder == Queue!Spec

(* A functor queued while the loop runs is run unless somebody stops the   *)
(* loop, although poll may never time out and no other channel be ready.   *)
QueuedRuns ==
  \A f \in Functors :
    (looping /\ f \in RangeOf(pendingFunctor) \ early)
      ~> (f \in RangeOf(ran) \/ ~looping)

(* quit() on a running loop ends it, from whatever thread it is called and *)
(* wherever the loop is.                                                   *)
QuitStops == (looping /\ quit) ~> ~looping
==============================================================================
