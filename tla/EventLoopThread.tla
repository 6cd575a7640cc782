--------------------------- MODULE EventLoopThread ---------------------------
(***************************************************************************)
(* A thread that runs an EventLoop (eventLoopThread.cpp).  startLoop       *)
(* creates the thread and waits on a condition variable for the address of *)
(* the loop, which lives on the new thread's stack; the destructor quits   *)
(* the loop and joins the thread.  The loop itself is EventLoop, owned by  *)
(* LoopThread, of which this module restricts who calls it and when.       *)
(*                                                                         *)
(* The destructor of an object whose startLoop was never called            *)
(* dereferences a null loop_; it is not modelled.                          *)
(***************************************************************************)
EXTENDS EventLoop

CONSTANT Creator  \* the thread that has the EventLoopThread

ASSUME CreatorAssumption == Creator \in Threads

VARIABLES
  creator,   \* where Creator is, see CreatorStates
  child,     \* where threadFunc is, see ChildStates
  published, \* loop_ is not null (nothing ever resets it)
  deadCall   \* history: the EventLoop was used after its destruction

threadVars == <<creator, child, published, deadCall>>
allVars == <<vars, threadVars>>

(* Before startLoop, before the test of loop_, in wait, with the loop's    *)
(* address, in the destructor after quit, after the join.                  *)
CreatorStates == {"new", "starting", "waiting", "started", "joining", "done"}

(* Not started, before the critical section, before loop(), in loop(),     *)
(* after the return that destroys the EventLoop.                           *)
ChildStates == {"none", "starting", "published", "loop", "returned"}

Alive == child \in {"published", "loop"}

ThreadInit ==
  /\ Init
  /\ creator = "new"
  /\ child = "none"
  /\ published = FALSE
  /\ deadCall = FALSE

------------------------------------------------------------------------------
(* startLoop: the new thread, then the wait for loop_ under the mutex. *)
StartLoop ==
  /\ creator = "new"
  /\ creator' = "starting"
  /\ child' = "starting"
  /\ UNCHANGED <<vars, published, deadCall>>

StartWithoutWaiting ==
  /\ creator = "starting"
  /\ creator' = "started"
  /\ UNCHANGED <<vars, child, published, deadCall>>

TestLoop ==
  /\ creator = "starting"
  /\ creator' = IF published THEN "started" ELSE "waiting"
  /\ UNCHANGED <<vars, child, published, deadCall>>

SpuriousWakeup ==
  /\ creator = "waiting"
  /\ creator' = "starting"
  /\ UNCHANGED <<vars, child, published, deadCall>>

(* threadFunc: the critical section, with its notify_one ... *)
PublishInSilence ==
  /\ child = "starting"
  /\ child' = "published"
  /\ published' = TRUE
  /\ UNCHANGED <<vars, creator, deadCall>>

Publish ==
  /\ child = "starting"
  /\ child' = "published"
  /\ published' = TRUE
  /\ creator' = IF creator = "waiting" THEN "starting" ELSE creator
  /\ UNCHANGED <<vars, deadCall>>

(* ... loop.loop(), called once, and the return. *)
EnterLoop ==
  /\ child = "published"
  /\ Loop
  /\ child' = "loop"
  /\ UNCHANGED <<creator, published, deadCall>>

ThreadReturns ==
  /\ child = "loop"
  /\ pc = "idle"
  /\ child' = "returned"
  /\ UNCHANGED <<vars, creator, published, deadCall>>

(* The destructor: loop_->quit(), whatever has become of the loop ... *)
Destroy ==
  /\ creator = "started"
  /\ Creator \notin wakingUp
  /\ creator' = "joining"
  /\ \/ Alive /\ Quit(Creator) /\ deadCall' = deadCall
     \/ ~Alive /\ deadCall' = TRUE /\ UNCHANGED vars
  /\ UNCHANGED <<child, published>>

(* ... and thread_.join(). *)
Join ==
  /\ creator = "joining"
  /\ Creator \notin wakingUp
  /\ child = "returned"
  /\ creator' = "done"
  /\ UNCHANGED <<vars, child, published, deadCall>>

(* The loop's address is used by the threads that got it, for as long as   *)
(* the loop is there and the EventLoopThread is not destroyed, and by the  *)
(* callbacks that run in the loop.                                         *)
Use(t) ==
  /\ Alive
  /\ creator = "started" \/ t = LoopThread
  /\ pc # "idle" \/ t # LoopThread
  /\ Call(t)
  /\ UNCHANGED threadVars

(* The write of wakeup(): on a loop that is gone by now, it reads          *)
(* wakeupFd_ from a dead object.                                           *)
UseWakeup(t) ==
  /\ t \in wakingUp
  /\ \/ Alive /\ Wakeup(t) /\ deadCall' = deadCall
     \/ /\ ~Alive
        /\ deadCall' = TRUE
        /\ wakingUp' = wakingUp \ {t}
        /\ UNCHANGED <<pc, looping, quit, callingPendingFunctors,
                       pendingFunctor, functors, activeChannels, wakeupFd,
                       ran, inlined, early>>
  /\ UNCHANGED <<creator, child, published>>

InLoop ==
  /\ child = "loop"
  /\ LoopStep
  /\ UNCHANGED threadVars

PollReturns ==
  /\ child = "loop"
  /\ PollNothing \/ \E ready \in SUBSET IoChannels : PollReady(ready)
  /\ UNCHANGED threadVars

CreatorStep == StartLoop \/ TestLoop \/ SpuriousWakeup \/ Destroy \/ Join
ChildStep == Publish \/ EnterLoop \/ InLoop \/ PollReturns \/ ThreadReturns

ThreadNext ==
  \/ CreatorStep
  \/ ChildStep
  \/ \E t \in Threads \cup {LoopThread} : Use(t)
  \/ \E t \in Threads : UseWakeup(t)

ThreadSpec == ThreadInit /\ [][ThreadNext]_allVars

(* Every thread that can take its next step takes it: startLoop's test and *)
(* the join once they are reached, threadFunc from start to end, a wakeup  *)
(* after its update.  Spurious wakeups, poll timeouts, calls and the       *)
(* destructor are not owed.                                                *)
ThreadFairness ==
  /\ WF_allVars(TestLoop)
  /\ WF_allVars(Join)
  /\ WF_allVars(Publish)
  /\ WF_allVars(EnterLoop)
  /\ WF_allVars(InLoop)
  /\ WF_allVars(ThreadReturns)
  /\ \A t \in Threads : WF_allVars(UseWakeup(t))

FairThreadSpec == ThreadSpec /\ ThreadFairness

------------------------------------------------------------------------------
ThreadTypeOK ==
  /\ TypeOK
  /\ creator \in CreatorStates
  /\ child \in ChildStates
  /\ published \in BOOLEAN
  /\ deadCall \in BOOLEAN

(* The handshake of startLoop never misses its notification, whichever of  *)
(* the two threads gets to the mutex first.                                *)
StartLoopReturns == creator = "starting" ~> creator = "started"

(* The caller of startLoop has an address to a loop that exists, unless    *)
(* somebody used that address to quit it; and no call is made on a loop    *)
(* that is gone but after a quit.  (Then it is: the destructor of a loop   *)
(* that another quit has ended, as in test testEventLoopThread of          *)
(* main.cpp, and the wakeup of the very quit that ended the loop.)         *)
StartedLoopExists ==
  /\ creator = "started" => published /\ (Alive \/ quit)
  /\ deadCall => quit

(* Work handed over as soon as startLoop returns, when the new thread may  *)
(* not have called loop() yet, is run unless the loop is told to quit: the *)
(* eventfd remembers the wakeup for the first poll.                        *)
EarlyWorkRuns ==
  \A f \in Functors :
    (Alive /\ f \in RangeOf(pendingFunctor))
      ~> (f \in RangeOf(ran) \/ child = "returned")

(* The destructor of a loop that has entered loop() ends: quit_ is seen,   *)
(* even by a loop that sleeps in poll, and the join returns.               *)
DestructorReturnsOnceLooping ==
  (creator = "joining" /\ looping /\ quit) ~> creator = "done"

(* The destructor always ends, as a quit from another thread always ends   *)
(* the loop (test testSafeTimeCall of main.cpp).                           *)
DestructorReturns == creator = "joining" ~> creator = "done"
==============================================================================
