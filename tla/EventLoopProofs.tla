--------------------------- MODULE EventLoopProofs ---------------------------
(***************************************************************************)
(* Theorems about EventLoop, for any set of threads, functors and          *)
(* channels, and then about the thread that EventLoopThread runs it in.    *)
(***************************************************************************)
EXTENDS EventLoopThread, SequenceTheorems, TLAPS

(* The constructor leaves every variable with its type. *)
LEMMA TypeInit == Init => TypeOK
<1>1. <<>> \in Seq(Functors)
  OBVIOUS
<1> QED
  BY <1>1, Zenon DEF Init, TypeOK, LoopStates

(* Every step keeps the types. *)
LEMMA TypeStep ==
  ASSUME TypeOK, [Next]_vars
  PROVE  TypeOK'
<1> USE DEF TypeOK, LoopStates
<1>1. ASSUME NEW t \in Threads \cup {LoopThread}, NEW f \in Functors,
             QueueInloop(t, f)
      PROVE  TypeOK'
  BY <1>1 DEF QueueInloop, isInLoopThread, CanCall
<1>2. ASSUME NEW t \in Threads \cup {LoopThread}, NEW f \in Functors,
             RunInLoop(t, f)
      PROVE  TypeOK'
  BY <1>1, <1>2 DEF RunInLoop, isInLoopThread
<1>3. ASSUME NEW t \in Threads \cup {LoopThread}, Quit(t)
      PROVE  TypeOK'
  BY <1>3 DEF Quit, isInLoopThread
<1>4. ASSUME NEW t \in Threads, Wakeup(t)
      PROVE  TypeOK'
  BY <1>4 DEF Wakeup
<1>5. CASE Loop
  BY <1>5 DEF Loop
<1>6. CASE TestQuit
  BY <1>6 DEF TestQuit
<1>7. ASSUME NEW ready \in SUBSET IoChannels, PollReady(ready)
      PROVE  TypeOK'
  BY <1>7 DEF PollReady
<1>8. CASE PollNothing
  BY <1>8 DEF PollNothing
<1>9. CASE HandleRead
  BY <1>9 DEF HandleRead
<1>10. ASSUME NEW c \in IoChannels, HandleEvent(c)
       PROVE  TypeOK'
  BY <1>10 DEF HandleEvent
<1>11. CASE HandlerReturns
  BY <1>11 DEF HandlerReturns
<1>12. CASE DispatchDone
  BY <1>12 DEF DispatchDone
<1>13. CASE SwapPending
  BY <1>13 DEF SwapPending
<1>14. CASE RunFunctor
  BY <1>14 DEF RunFunctor
<1>15. CASE FunctorReturns
  BY <1>15 DEF FunctorReturns
<1>16. CASE PendingDone
  BY <1>16 DEF PendingDone
<1>17. CASE UNCHANGED vars
  BY <1>17 DEF vars
<1> QED
  BY <1>1, <1>2, <1>3, <1>4, <1>5, <1>6, <1>7, <1>8, <1>9, <1>10, <1>11,
     <1>12, <1>13, <1>14, <1>15, <1>16, <1>17 DEF Next, Call, LoopStep

(* The variables of eventLoop.cpp keep their types in every execution.     *)
THEOREM TypeCorrect == Spec => []TypeOK
  BY TypeInit, TypeStep, PTL DEF Spec

(* The functors a batch has left are gone when the batch is over, and the  *)
(* flag is up while it runs.                                               *)
LEMMA BatchStep ==
  ASSUME TypeOK, BatchFlag, [Next]_vars
  PROVE  BatchFlag'
<1> USE DEF BatchFlag
<1>1. ASSUME NEW t \in Threads \cup {LoopThread}, NEW f \in Functors,
             QueueInloop(t, f) \/ RunInLoop(t, f)
      PROVE  BatchFlag'
  BY <1>1 DEF QueueInloop, RunInLoop
<1>2. ASSUME NEW t \in Threads \cup {LoopThread}, Quit(t)
      PROVE  BatchFlag'
  BY <1>2 DEF Quit
<1>3. ASSUME NEW t \in Threads, Wakeup(t)
      PROVE  BatchFlag'
  BY <1>3 DEF Wakeup
<1>4. ASSUME NEW ready \in SUBSET IoChannels, PollReady(ready)
      PROVE  BatchFlag'
  BY <1>4 DEF PollReady
<1>5. ASSUME NEW c \in IoChannels, HandleEvent(c)
      PROVE  BatchFlag'
  BY <1>5 DEF HandleEvent
<1>6. CASE Loop \/ TestQuit \/ PollNothing
  BY <1>6 DEF Loop, TestQuit, PollNothing
<1>7. CASE HandleRead \/ HandlerReturns \/ DispatchDone
  BY <1>7 DEF HandleRead, HandlerReturns, DispatchDone
<1>8. CASE SwapPending \/ RunFunctor \/ FunctorReturns \/ PendingDone
  BY <1>8 DEF SwapPending, RunFunctor, FunctorReturns, PendingDone
<1>9. CASE UNCHANGED vars
  BY <1>9 DEF vars
<1> QED
  BY <1>1, <1>2, <1>3, <1>4, <1>5, <1>6, <1>7, <1>8, <1>9
     DEF Next, Call, LoopStep

(* Queued work and a quit are announced before the loop can sleep on them. *)
LEMMA AnnouncedStep ==
  ASSUME TypeOK, BatchFlag, WorkAnnounced, QuitAnnounced, [Next]_vars
  PROVE  WorkAnnounced' /\ QuitAnnounced'
<1> USE DEF WorkAnnounced, QuitAnnounced, Woken, Unannounced
<1>1. ASSUME NEW t \in Threads \cup {LoopThread}, NEW f \in Functors,
             QueueInloop(t, f)
      PROVE  WorkAnnounced' /\ QuitAnnounced'
  <2>1. CASE isInLoopThread(t)
    (* By CanCall the owner is outside loop(), in a handler or in a functor. *)
    <3>1. CASE pc = "idle"
      <4>1. ASSUME Unannounced'
            PROVE  Unannounced
        BY <1>1, <2>1, <3>1, <4>1 DEF QueueInloop, TypeOK
      <4> QED
        BY <1>1, <2>1, <3>1, <4>1 DEF QueueInloop
    <3>2. CASE pc = "handler"
      BY <1>1, <2>1, <3>2 DEF QueueInloop
    <3>3. CASE pc = "functor"
      BY <1>1, <2>1, <3>3 DEF QueueInloop, NeedsWakeup, BatchFlag
    <3> QED
      BY <1>1, <2>1, <3>1, <3>2, <3>3 DEF QueueInloop, CanCall
  <2>2. CASE ~isInLoopThread(t)
    BY <1>1, <2>2 DEF QueueInloop
  <2> QED
    BY <2>1, <2>2
<1>2. ASSUME NEW t \in Threads \cup {LoopThread}, NEW f \in Functors,
             RunInLoop(t, f)
      PROVE  WorkAnnounced' /\ QuitAnnounced'
  BY <1>1, <1>2 DEF RunInLoop
<1>3. ASSUME NEW t \in Threads \cup {LoopThread}, Quit(t)
      PROVE  WorkAnnounced' /\ QuitAnnounced'
  BY <1>3 DEF Quit, CanCall, TypeOK
<1>4. ASSUME NEW t \in Threads, Wakeup(t)
      PROVE  WorkAnnounced' /\ QuitAnnounced'
  BY <1>4 DEF Wakeup
<1>5. ASSUME NEW ready \in SUBSET IoChannels, PollReady(ready)
      PROVE  WorkAnnounced' /\ QuitAnnounced'
  BY <1>5 DEF PollReady
<1>6. ASSUME NEW c \in IoChannels, HandleEvent(c)
      PROVE  WorkAnnounced' /\ QuitAnnounced'
  BY <1>6 DEF HandleEvent
<1>7. CASE Loop \/ TestQuit \/ PollNothing
  BY <1>7 DEF Loop, TestQuit, PollNothing
<1>8. CASE HandleRead \/ HandlerReturns \/ DispatchDone
  BY <1>8 DEF HandleRead, HandlerReturns, DispatchDone
<1>9. CASE SwapPending
  BY <1>9 DEF SwapPending
<1>10. CASE RunFunctor \/ FunctorReturns \/ PendingDone
  BY <1>10 DEF RunFunctor, FunctorReturns, PendingDone
<1>11. CASE UNCHANGED vars
  BY <1>11 DEF vars
<1> QED
  BY <1>1, <1>2, <1>3, <1>4, <1>5, <1>6, <1>7, <1>8, <1>9, <1>10, <1>11
     DEF Next, Call, LoopStep

(* Inv is an invariant: it is inductive, unlike NoLostWakeup.              *)
THEOREM Invariance == Spec => []Inv
<1>1. Init => Inv
  <2>1. Init => WorkAnnounced /\ QuitAnnounced /\ BatchFlag
    BY DEF Init, WorkAnnounced, QuitAnnounced, BatchFlag, Unannounced
  <2> QED
    BY TypeInit, <2>1 DEF Inv
<1>2. Inv /\ [Next]_vars => Inv'
  BY TypeStep, BatchStep, AnnouncedStep DEF Inv
<1> QED
  BY <1>1, <1>2, PTL DEF Spec

(* The loop never blocks in poll while a functor queued by queueInloop or  *)
(* a quit() goes unannounced, for any number of threads and functors.      *)
THEOREM NeverSleepsOnWork == Spec => []NoLostWakeup
<1>1. Inv => NoLostWakeup
  BY DEF Inv, NoLostWakeup, WorkAnnounced, QuitAnnounced
<1> QED
  BY <1>1, Invariance, PTL

(* ---------------------------------------------------------------------- *)
(* EventLoop implements FunctorQueue.                                      *)

(* Submitting at the end of the pending part submits at the end of all.    *)
LEMMA AppendAfterConcat ==
  ASSUME NEW S, NEW s \in Seq(S), NEW t \in Seq(S), NEW e \in S
  PROVE  s \o Append(t, e) = Append(s \o t, e)
  OBVIOUS

(* Taking the head of a batch takes the head of the whole queue.           *)
LEMMA HeadOfConcat ==
  ASSUME NEW S, NEW s \in Seq(S), NEW t \in Seq(S), s # <<>>
  PROVE  /\ s \o t # <<>>
         /\ Head(s \o t) = Head(s)
         /\ Tail(s \o t) = Tail(s) \o t
  OBVIOUS

(* Functors run in submission order, each once: every step of the loop is  *)
(* a step of FunctorQueue or leaves its queue alone.                       *)
THEOREM ImplementsFunctorQueue == Spec => RunsInOrder
<1>1. Init => Queue!Init
  BY DEF Init, Queue!Init
<1>2. ASSUME Inv, [Next]_vars
      PROVE  [Queue!Next]_<<functors \o pendingFunctor, ran>>
  <2> USE <1>2 DEF Inv, TypeOK
  <2>1. ASSUME NEW t \in Threads \cup {LoopThread}, NEW f \in Functors,
               QueueInloop(t, f)
        PROVE  Queue!Submit(f)
    BY <2>1, AppendAfterConcat DEF QueueInloop, Queue!Submit
  <2>2. ASSUME NEW t \in Threads \cup {LoopThread}, NEW f \in Functors,
               RunInLoop(t, f)
        PROVE  Queue!Submit(f) \/ UNCHANGED <<functors, pendingFunctor, ran>>
    BY <2>1, <2>2 DEF RunInLoop
  <2>3. ASSUME RunFunctor
        PROVE  Queue!RunNext
    BY <2>3, HeadOfConcat DEF RunFunctor, Queue!RunNext
  <2>4. ASSUME SwapPending
        PROVE  UNCHANGED <<functors \o pendingFunctor, ran>>
    BY <2>4 DEF SwapPending, BatchFlag
  <2>5. ASSUME NEW t \in Threads \cup {LoopThread}, Quit(t)
        PROVE  UNCHANGED <<functors, pendingFunctor, ran>>
    BY <2>5 DEF Quit
  <2>6. ASSUME NEW t \in Threads, Wakeup(t)
        PROVE  UNCHANGED <<functors, pendingFunctor, ran>>
    BY <2>6 DEF Wakeup
  <2>7. ASSUME NEW ready \in SUBSET IoChannels, PollReady(ready)
        PROVE  UNCHANGED <<functors, pendingFunctor, ran>>
    BY <2>7 DEF PollReady
  <2>8. ASSUME NEW c \in IoChannels, HandleEvent(c)
        PROVE  UNCHANGED <<functors, pendingFunctor, ran>>
    BY <2>8 DEF HandleEvent
  <2>9. ASSUME \/ Loop \/ TestQuit \/ PollNothing \/ HandleRead
               \/ HandlerReturns \/ DispatchDone \/ FunctorReturns
               \/ PendingDone \/ UNCHANGED vars
        PROVE  UNCHANGED <<functors, pendingFunctor, ran>>
    BY <2>9 DEF Loop, TestQuit, PollNothing, HandleRead, HandlerReturns,
                DispatchDone, FunctorReturns, PendingDone, vars
  <2> QED
    BY <2>1, <2>2, <2>3, <2>4, <2>5, <2>6, <2>7, <2>8, <2>9
       DEF Next, Call, LoopStep, Queue!Next
<1> QED
  BY <1>1, <1>2, Invariance, PTL DEF Spec, RunsInOrder, Queue!Spec

------------------------------------------------------------------------------
(* The handshake of EventLoopThread.                                       *)

(* Where threadFunc is tells what there is of the loop: it runs only       *)
(* inside loop(), and only a quit ends it.                                 *)
LoopOK ==
  /\ child \in ChildStates
  /\ child \in {"none", "starting", "published"} => pc = "idle"
  /\ child = "loop" /\ pc = "idle" => quit
  /\ child = "returned" => pc = "idle" /\ quit

(* The address is published by threadFunc, and nobody has it before.       *)
AddressOK ==
  /\ published \in BOOLEAN
  /\ published <=> child \in {"published", "loop", "returned"}
  /\ creator = "new" => child = "none"
  /\ creator \in {"started", "joining", "done"} => published
  /\ wakingUp # {} => published

(* A call can only be late once the loop has returned.                     *)
DeadCallOK ==
  /\ deadCall \in BOOLEAN
  /\ deadCall => child = "returned"

ThreadInv == LoopOK /\ AddressOK /\ DeadCallOK

------------------------------------------------------------------------------
(* The calls of user code on a loop that is there.                         *)
LEMMA UseKeeps ==
  ASSUME ThreadInv, NEW t \in Threads \cup {LoopThread}, Use(t)
  PROVE  ThreadInv'
<1>1. Alive /\ UNCHANGED <<creator, child, published, deadCall>>
  BY DEF Use, threadVars
<1>2. UNCHANGED pc /\ (quit => quit')
  BY DEF Use, Call, QueueInloop, RunInLoop, Quit
<1>3. published
  <2>1. creator = "started" \/ pc # "idle"
    BY DEF Use
  <2>2. pc # "idle" => child = "loop"
    BY DEF ThreadInv, LoopOK, ChildStates
  <2> QED
    BY <1>1, <2>1, <2>2 DEF ThreadInv, AddressOK
<1>4. LoopOK' /\ AddressOK' /\ DeadCallOK'
  BY <1>1, <1>2, <1>3 DEF ThreadInv, LoopOK, AddressOK, DeadCallOK
<1> QED
  BY <1>4 DEF ThreadInv

(* Their wakeups, on the loop or on what was the loop.                     *)
LEMMA UseWakeupKeeps ==
  ASSUME ThreadInv, NEW t \in Threads, UseWakeup(t)
  PROVE  ThreadInv'
<1>1. t \in wakingUp /\ UNCHANGED <<creator, child, published, pc, quit>>
  BY DEF UseWakeup, Wakeup
<1>2. published
  BY <1>1 DEF ThreadInv, AddressOK
<1>3. CASE Alive /\ deadCall' = deadCall
  BY <1>1, <1>2, <1>3 DEF ThreadInv, LoopOK, AddressOK, DeadCallOK
<1>4. CASE ~Alive /\ deadCall' = TRUE
  <2>1. child = "returned"
    BY <1>2, <1>4 DEF Alive, ThreadInv, AddressOK
  <2> QED
    BY <1>1, <1>2, <1>4, <2>1 DEF ThreadInv, LoopOK, AddressOK, DeadCallOK
<1> QED
  BY <1>3, <1>4 DEF UseWakeup

(* The thread that has the EventLoopThread.                                *)
LEMMA CreatorKeeps ==
  ASSUME ThreadInv, CreatorStep
  PROVE  ThreadInv'
<1> USE DEF ThreadInv, LoopOK, AddressOK, DeadCallOK, ChildStates
<1>1. CASE StartLoop
  <2>1. /\ creator = "new" /\ creator' = "starting" /\ child' = "starting"
        /\ UNCHANGED <<published, deadCall, pc, quit, wakingUp>>
    BY <1>1 DEF StartLoop, vars
  <2> QED
    BY <1>1, <2>1
<1>2. CASE TestLoop \/ SpuriousWakeup \/ Join
  <2>1. /\ creator' # "new" /\ (creator' \in {"starting", "waiting"} \/ published)
        /\ UNCHANGED <<child, published, deadCall, pc, quit, wakingUp>>
    BY <1>2 DEF TestLoop, SpuriousWakeup, Join, vars
  <2> QED
    BY <2>1
<1>3. CASE Destroy
  <2>1. published /\ creator' = "joining" /\ UNCHANGED <<child, published, pc>>
    BY <1>3 DEF Destroy, Quit, vars
  <2>2. CASE Alive /\ Quit(Creator) /\ deadCall' = deadCall
    <3>1. quit'
      BY <2>2 DEF Quit
    <3> QED
      BY <2>1, <2>2, <3>1
  <2>3. CASE ~Alive /\ deadCall' = TRUE /\ UNCHANGED vars
    <3>1. child = "returned" /\ UNCHANGED <<quit, wakingUp>>
      BY <2>1, <2>3 DEF Alive, vars
    <3> QED
      BY <2>1, <2>3, <3>1
  <2> QED
    BY <1>3, <2>2, <2>3 DEF Destroy
<1> QED
  BY <1>1, <1>2, <1>3 DEF CreatorStep

(* threadFunc and the loop it runs.                                        *)
LEMMA ChildKeeps ==
  ASSUME ThreadInv, ChildStep
  PROVE  ThreadInv'
<1> USE DEF ThreadInv, LoopOK, AddressOK, DeadCallOK, ChildStates
<1>1. CASE Publish
  <2>1. /\ child = "starting" /\ child' = "published" /\ published' = TRUE
        /\ creator' # "new" /\ UNCHANGED <<pc, quit, deadCall>>
    BY <1>1 DEF Publish, vars
  <2> QED
    BY <2>1
<1>2. CASE EnterLoop
  <2>1. /\ child = "published" /\ child' = "loop" /\ pc' = "test"
        /\ UNCHANGED <<creator, published, deadCall, wakingUp>>
    BY <1>2 DEF EnterLoop, Loop
  <2> QED
    BY <2>1
<1>3. CASE InLoop \/ PollReturns
  <2>1. /\ child = "loop"
        /\ UNCHANGED <<creator, child, published, deadCall, quit, wakingUp>>
        /\ pc' = "idle" => quit
    BY <1>3 DEF InLoop, PollReturns, LoopStep, threadVars, TestQuit, PollReady,
                PollNothing, HandleRead, HandleEvent, HandlerReturns, DispatchDone,
                SwapPending, RunFunctor, FunctorReturns, PendingDone
  <2> QED
    BY <2>1
<1>4. CASE ThreadReturns
  <2>1. /\ child = "loop" /\ child' = "returned" /\ pc = "idle"
        /\ UNCHANGED <<pc, quit, wakingUp, creator, published, deadCall>>
    BY <1>4 DEF ThreadReturns, vars
  <2> QED
    BY <2>1
<1> QED
  BY <1>1, <1>2, <1>3, <1>4 DEF ChildStep

(* Whoever startLoop gave an address has one of a loop that exists, or of  *)
(* one that was told to quit, and nobody calls a loop that is gone before  *)
(* a quit.                                                                 *)
THEOREM AddressIsGood == ThreadSpec => []StartedLoopExists
<1>1. ThreadInit => ThreadInv
  BY DEF ThreadInit, Init, ThreadInv, LoopOK, AddressOK, DeadCallOK, ChildStates
<1>2. ASSUME ThreadInv, [ThreadNext]_allVars PROVE ThreadInv'
  <2>1. CASE UNCHANGED allVars
    BY <1>2, <2>1 DEF allVars, vars, threadVars, ThreadInv, LoopOK, AddressOK, DeadCallOK
  <2> QED
    BY <1>2, <2>1, UseKeeps, UseWakeupKeeps, CreatorKeeps, ChildKeeps DEF ThreadNext
<1>3. ThreadInv => StartedLoopExists
  BY DEF ThreadInv, LoopOK, AddressOK, DeadCallOK, StartedLoopExists, Alive
<1> QED
  BY <1>1, <1>2, <1>3, PTL DEF ThreadSpec
==============================================================================
