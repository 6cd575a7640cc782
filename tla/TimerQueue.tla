------------------------------ MODULE TimerQueue ------------------------------
(***************************************************************************)
(* The timers of a loop (timerQueue.cpp, timer.cpp): a list ordered by     *)
(* expiration, an index of the same timers by address and sequence, and    *)
(* one timerfd armed for the earliest of them.                             *)
(*                                                                         *)
(* Times count from the present, in units of the shortest delay the code   *)
(* gives timerfd_settime (100 microseconds): what is due has time 0, and   *)
(* Tick brings everything closer.  So time need not be bounded; delays and *)
(* intervals are, by MaxDelay.  The wall clock, from which expirations are *)
(* computed, and the monotonic clock of the timerfd advance together.      *)
(*                                                                         *)
(* A call from another thread reaches the loop as a functor; that functors *)
(* run, in order, is what EventLoop promises.  An address is not reused    *)
(* for a second Timer.  An assert that fails stops the program.            *)
(***************************************************************************)
EXTENDS Naturals, Sequences, FiniteSets

CONSTANTS
  Timers,    \* the Timer objects, each created once
  Threads,   \* threads that add and cancel timers, beside the loop's
  Owner,     \* the loop's thread
  MaxDelay,  \* the longest delay and interval
  None

ASSUME OwnerAssumption == Owner \notin Threads
ASSUME NoneAssumption == None \notin Timers \cup Nat
ASSUME TimersAssumption == IsFiniteSet(Timers)
ASSUME DelayAssumption == MaxDelay \in Nat \ {0}

VARIABLES
  created,     \* TimerCreated_, which numCreated() returns
  interval,    \* interval_ of each created timer, 0 for one shot
  expiration,  \* expiration_ of each created timer
  timers,      \* timers_, as records [when, timer]
  activeTimers, cancelingTimers,  \* the sets of records [timer, seq]
  calling,     \* callingExpiredTimers_
  expired,     \* the vector of handleRead
  left,        \* what is left of the loop over it that pc is in
  pc,          \* Owner: "loop"; in handleRead: "erase", "batch" between two
               \* runs, "callback" in one, "reset"
  restarting,  \* the timer reset is about to insert, or None
  readAge,     \* the time since handleRead read the clock
  fd,          \* the timerfd: None, or the time to its expiration
  adding,      \* the timer each thread is inside addTimer with, or None
  pending,     \* the functors on their way from other threads
  ids,         \* the sequence_ of the TimerId addTimer returned, or None
  cancelled,   \* history: the queue's timers that were cancelled
  aborted      \* "no", or the assert that failed

vars == <<created, interval, expiration, timers, activeTimers, cancelingTimers,
          calling, expired, left, pc, restarting, readAge, fd, adding, pending, ids,
          cancelled, aborted>>

batchVars == <<calling, expired, left, pc, restarting>>

Times == 0 .. MaxDelay
Fresh == {t \in Timers : interval[t] = None}
Entries == [when : Times, timer : Timers]
Callers == Threads \cup {Owner}

numCreated == created

Later(x, y) == IF x > y THEN x ELSE y

(* The least of a set of entries by time; the order of the addresses, by   *)
(* which the code breaks ties, is left open.                               *)
Earliest(es) == {e \in es : \A o \in es : e.when <= o.when}

(* howMuchTimeFromNow: never less than one unit, as timerfd_settime with a *)
(* zero delay disarms the timerfd.                                         *)
NoMinimum(when) == when
PlusMinimum(when) == when + 1
HowMuchTimeFromNow(when) == Later(when, 1)

Arm(delay) == IF delay = 0 THEN None ELSE delay
ResetTimerfd(when) == Arm(HowMuchTimeFromNow(when))

Init ==
  /\ created = 0
  /\ interval = [t \in Timers |-> None]
  /\ expiration = [t \in Timers |-> 0]
  /\ timers = {} /\ activeTimers = {} /\ cancelingTimers = {}
  /\ calling = FALSE /\ expired = {} /\ left = {}
  /\ pc = "loop" /\ restarting = None /\ readAge = 0
  /\ fd = None
  /\ adding = [c \in Callers |-> None]
  /\ pending = <<>>
  /\ ids = [t \in Timers |-> None]
  /\ cancelled = {}
  /\ aborted = "no"

------------------------------------------------------------------------------
(* insert(timer) of an entry e of timers_; it enters the index under the   *)
(* number of timers created so far.  Neither emplace may find its element  *)
(* there.                                                                  *)
Key(e) == [timer |-> e.timer, seq |-> numCreated]
Duplicate(e) == e \in timers \/ Key(e) \in activeTimers

InsertInList(e) ==
  /\ timers' = timers \cup {e}
  /\ activeTimers' = activeTimers

Insert(e) ==
  /\ timers' = timers \cup {e}
  /\ activeTimers' = activeTimers \cup {Key(e)}

(* Whether an entry becomes the earliest. *)
NeverEarlier(e) == timers = {}
BecomesEarliest(e) == \A o \in timers : e.when < o.when

(* addTimerInloop. *)
AddTimerInloop(t) ==
  LET e == [when |-> expiration[t], timer |-> t]
  IN  IF Duplicate(e)
      THEN /\ aborted' = "other"
           /\ UNCHANGED <<timers, activeTimers, fd>>
      ELSE /\ Insert(e)
           /\ fd' = IF BecomesEarliest(e) THEN ResetTimerfd(e.when) ELSE fd
           /\ UNCHANGED aborted

(* cancelInLoop(timerId).  A timer in the index is erased from both sets;  *)
(* one that is not is noted while the expired timers run.                  *)
CancelInLoop(id) ==
  LET e == [when |-> expiration[id.timer], timer |-> id.timer]
      held == {x.timer : x \in timers \cup expired}
  IN  /\ cancelled' = cancelled \cup ({id.timer} \cap held)
      /\ IF Cardinality(timers) # Cardinality(activeTimers) \/ (id \in activeTimers /\ e \notin timers)
         THEN /\ aborted' = "other"
              /\ UNCHANGED <<timers, activeTimers, cancelingTimers>>
         ELSE /\ aborted' = aborted
              /\ timers' = IF id \in activeTimers THEN timers \ {e} ELSE timers
              /\ activeTimers' = activeTimers \ {id}
              /\ cancelingTimers' = IF id \notin activeTimers /\ calling
                                    THEN cancelingTimers \cup {id}
                                    ELSE cancelingTimers

------------------------------------------------------------------------------
(* Thread c is in user code: a callback of the loop, or any other thread.  *)
(* Owner's callback is one of the loop's or of a timer.                    *)
CanCall(c) ==
  /\ aborted = "no" /\ adding[c] = None
  /\ c = Owner => pc \in {"loop", "callback"}

(* new Timer counts it; one with an interval repeats. *)
CreateTimer(t, when, every) ==
  /\ t \in Fresh
  /\ created' = created + 1
  /\ interval' = [interval EXCEPT ![t] = every]
  /\ expiration' = [expiration EXCEPT ![t] = when]

Repeats(t) == interval[t] # 0

(* addTimer creates the timer, ... *)
AddTimer(c, t, when, every) ==
  /\ CanCall(c)
  /\ CreateTimer(t, when, every)
  /\ adding' = [adding EXCEPT ![c] = t]
  /\ pending' = IF c = Owner THEN pending
                ELSE Append(pending, [op |-> "add", timer |-> t])
  /\ UNCHANGED <<timers, activeTimers, cancelingTimers, batchVars, readAge, fd,
                 ids, cancelled, aborted>>

(* ... the loop's own thread inserts it at once, another's functor later,  *)
(* ...                                                                     *)
InsertNow ==
  /\ aborted = "no"
  /\ adding[Owner] # None
  /\ \A e \in timers : e.timer # adding[Owner]
  /\ AddTimerInloop(adding[Owner])
  /\ UNCHANGED <<created, interval, expiration, cancelingTimers, batchVars,
                 readAge, adding, pending, ids, cancelled>>

(* ... and the TimerId takes the number of timers created by now. *)
ReturnId(c) ==
  /\ aborted = "no"
  /\ adding[c] # None
  /\ c = Owner => \E e \in timers : e.timer = adding[c]
  /\ ids' = [ids EXCEPT ![adding[c]] = numCreated]
  /\ adding' = [adding EXCEPT ![c] = None]
  /\ UNCHANGED <<created, interval, expiration, timers, activeTimers,
                 cancelingTimers, batchVars, readAge, fd, pending, cancelled,
                 aborted>>

(* The calls of the user; runAfter is runAt, and runEvery first fires after *)
(* an interval.                                                            *)
RunAt(c, t) == \E when \in Times : AddTimer(c, t, when, 0)
RunEvery(c, t) == \E every \in Times : AddTimer(c, t, every, every)

(* cancel(timerId), of any timer whose id somebody got.  To bound the      *)
(* functors, no two cancels of a timer are on their way.                   *)
CancelAsked(t) == \E i \in DOMAIN pending : pending[i] = [op |-> "cancel", timer |-> t]

Cancel(c, t) ==
  /\ CanCall(c)
  /\ ids[t] # None
  /\ ~CancelAsked(t)
  /\ IF c = Owner
     THEN /\ CancelInLoop([timer |-> t, seq |-> ids[t]])
          /\ UNCHANGED pending
     ELSE /\ pending' = Append(pending, [op |-> "cancel", timer |-> t])
          /\ UNCHANGED <<timers, activeTimers, cancelingTimers, cancelled, aborted>>
  /\ UNCHANGED <<created, interval, expiration, batchVars, readAge, fd, adding,
                 ids>>

(* The loop runs the next functor of another thread. *)
RunPending ==
  /\ aborted = "no" /\ pc = "loop" /\ adding[Owner] = None
  /\ pending # <<>>
  /\ pending' = Tail(pending)
  /\ LET t == Head(pending).timer
     IN  \/ /\ Head(pending).op = "add"
            /\ AddTimerInloop(t)
            /\ UNCHANGED <<cancelingTimers, cancelled>>
         \/ /\ Head(pending).op = "cancel"
            /\ CancelInLoop([timer |-> t, seq |-> ids[t]])
            /\ UNCHANGED fd
  /\ UNCHANGED <<created, interval, expiration, batchVars, readAge, adding, ids>>

------------------------------------------------------------------------------
(* handleRead reads the clock and the timerfd, which went off and is       *)
(* disarmed, and what is due goes from the list into a vector (getExpired) *)
(* ...                                                                     *)
Due == {e \in timers : e.when = 0}

ReadTimerfd ==
  /\ fd = 0
  /\ fd' = None

HandleRead ==
  /\ aborted = "no" /\ pc = "loop" /\ adding[Owner] = None
  /\ ReadTimerfd
  /\ timers' = timers \ Due
  /\ expired' = Due /\ left' = Due
  /\ pc' = "erase" /\ readAge' = 0
  /\ UNCHANGED <<created, interval, expiration, activeTimers, cancelingTimers,
                 calling, restarting, adding, pending, ids, cancelled, aborted>>

(* ... and then from the index, where each is looked for under the number  *)
(* of timers created by then.                                              *)
EraseExpired(e) ==
  /\ aborted = "no" /\ pc = "erase"
  /\ e \in left
  /\ \/ /\ Key(e) \in activeTimers
        /\ activeTimers' = activeTimers \ {Key(e)}
        /\ left' = left \ {e}
        /\ UNCHANGED aborted
     \/ /\ Key(e) \notin activeTimers
        /\ aborted' = "expired"
        /\ UNCHANGED <<activeTimers, left>>
  /\ UNCHANGED <<created, interval, expiration, timers, cancelingTimers, calling,
                 expired, pc, restarting, readAge, fd, adding, pending, ids,
                 cancelled>>

(* The callbacks of the expired timers, one by one ... *)
StartRuns ==
  /\ aborted = "no" /\ pc = "erase"
  /\ left = {}
  /\ pc' = "batch" /\ left' = expired
  /\ calling' = TRUE
  /\ cancelingTimers' = {}
  /\ UNCHANGED <<created, interval, expiration, timers, activeTimers, expired,
                 restarting, readAge, fd, adding, pending, ids, cancelled, aborted>>

RunTimer(e) ==
  /\ aborted = "no" /\ pc = "batch"
  /\ e \in left
  /\ left' = left \ {e}
  /\ pc' = "callback"
  /\ UNCHANGED <<created, interval, expiration, timers, activeTimers,
                 cancelingTimers, calling, expired, restarting, readAge, fd,
                 adding, pending, ids, cancelled, aborted>>

CallbackReturns ==
  /\ aborted = "no" /\ pc = "callback" /\ adding[Owner] = None
  /\ pc' = "batch"
  /\ UNCHANGED <<created, interval, expiration, timers, activeTimers,
                 cancelingTimers, calling, expired, left, restarting, readAge, fd,
                 adding, pending, ids, cancelled, aborted>>

(* ... and reset: repeating timers that were not cancelled meanwhile start *)
(* again from the time handleRead read, one by one.  Another thread may    *)
(* create timers, and move the number on, before a timer is looked up in   *)
(* cancelingTimers_ and before it enters the index.                        *)
BeginReset ==
  /\ aborted = "no" /\ pc = "batch"
  /\ left = {}
  /\ pc' = "reset" /\ left' = expired
  /\ calling' = FALSE
  /\ UNCHANGED <<created, interval, expiration, timers, activeTimers,
                 cancelingTimers, expired, restarting, readAge, fd, adding,
                 pending, ids, cancelled, aborted>>

RestartsAlways(e) == Repeats(e.timer)
Restarts(e) == Repeats(e.timer) /\ Key(e) \notin cancelingTimers

NextStart(t) == IF interval[t] > readAge THEN interval[t] - readAge ELSE 0

LookUp(e) ==
  /\ aborted = "no" /\ pc = "reset" /\ restarting = None
  /\ e \in left
  /\ left' = left \ {e}
  /\ \/ /\ Restarts(e)
        /\ restarting' = e.timer
        /\ expiration' = [expiration EXCEPT ![e.timer] = NextStart(e.timer)]
     \/ /\ ~Restarts(e)
        /\ UNCHANGED <<restarting, expiration>>
  /\ UNCHANGED <<created, interval, timers, activeTimers, cancelingTimers,
                 calling, expired, pc, readAge, fd, adding, pending, ids,
                 cancelled, aborted>>

InsertAgain ==
  LET e == [when |-> expiration[restarting], timer |-> restarting]
  IN  /\ aborted = "no" /\ restarting # None
      /\ restarting' = None
      /\ IF Duplicate(e)
         THEN aborted' = "other" /\ UNCHANGED <<timers, activeTimers>>
         ELSE Insert(e) /\ UNCHANGED aborted
      /\ UNCHANGED <<created, interval, expiration, cancelingTimers, calling,
                     expired, left, pc, readAge, fd, adding, pending, ids,
                     cancelled>>

(* At the end the timerfd is armed again. *)
RearmNever(es) == fd
Rearm(es) ==
  IF es = {} THEN fd
  ELSE ResetTimerfd((CHOOSE e \in Earliest(es) : TRUE).when)

ResetDone ==
  /\ aborted = "no" /\ pc = "reset" /\ restarting = None
  /\ left = {}
  /\ pc' = "loop" /\ expired' = {} /\ readAge' = 0
  /\ fd' = Rearm(timers)
  /\ UNCHANGED <<created, interval, expiration, timers, activeTimers,
                 cancelingTimers, calling, left, restarting, adding, pending, ids,
                 cancelled, aborted>>

(* Time passes, whatever the threads are doing. *)
Closer(time) == IF time = 0 THEN 0 ELSE time - 1

Tick ==
  /\ aborted = "no"
  /\ expiration' = [t \in Timers |-> Closer(expiration[t])]
  /\ timers' = {[e EXCEPT !.when = Closer(@)] : e \in timers}
  /\ fd' = IF fd = None THEN None ELSE Closer(fd)
  /\ readAge' = IF pc # "loop" /\ readAge < MaxDelay THEN readAge + 1 ELSE readAge
  /\ UNCHANGED <<created, interval, activeTimers, cancelingTimers, batchVars,
                 adding, pending, ids, cancelled, aborted>>

BatchStep ==
  \/ \E e \in left : EraseExpired(e) \/ RunTimer(e) \/ LookUp(e)
  \/ StartRuns
  \/ CallbackReturns
  \/ BeginReset
  \/ InsertAgain
  \/ ResetDone

OwnerStep ==
  \/ InsertNow
  \/ RunPending
  \/ HandleRead
  \/ BatchStep

Next ==
  \/ \E c \in Callers, t \in Timers :
       \/ RunAt(c, t)
       \/ RunEvery(c, t)
       \/ Cancel(c, t)
  \/ \E c \in Callers : ReturnId(c)
  \/ OwnerStep
  \/ Tick

Spec == Init /\ [][Next]_vars

(* Time goes on, the loop handles its timerfd and its functors, and the    *)
(* callbacks it runs return.                                               *)
Fairness ==
  /\ WF_vars(Tick)
  /\ WF_vars(InsertNow)
  /\ WF_vars(ReturnId(Owner))
  /\ SF_vars(RunPending)
  /\ WF_vars(HandleRead)
  /\ WF_vars(BatchStep)

FairSpec == Spec /\ Fairness

------------------------------------------------------------------------------
Keys == [timer : Timers, seq : 0 .. Cardinality(Timers)]

TypeOK ==
  /\ created \in 0 .. Cardinality(Timers)
  /\ interval \in [Timers -> Times \cup {None}]
  /\ expiration \in [Timers -> Times]
  /\ timers \subseteq Entries /\ expired \subseteq Entries
  /\ left \subseteq expired
  /\ activeTimers \subseteq Keys /\ cancelingTimers \subseteq Keys
  /\ calling \in BOOLEAN /\ (calling <=> pc \in {"batch", "callback"})
  /\ pc \in {"loop", "erase", "batch", "callback", "reset"}
  /\ restarting \in Timers \cup {None}
  /\ readAge \in Times
  /\ fd \in Times \cup {None}
  /\ adding \in [Callers -> Timers \cup {None}]
  /\ pending \in Seq([op : {"add", "cancel"}, timer : Timers])
  /\ ids \in [Timers -> Nat \cup {None}]
  /\ cancelled \subseteq Timers
  /\ aborted \in {"no", "expired", "other"}

(* timers_ and activeTimers_ hold the same timers, each once, and timers_  *)
(* under the expiration the timer has (comment in insert), whatever is     *)
(* added, cancelled and restarted in between, but inside getExpired, which *)
(* takes the expired ones out of one and then the other; so no assert on   *)
(* them fails but the one of getExpired on activeTimers_.                  *)
SameTimers ==
  /\ aborted # "other"
  /\ aborted = "no" /\ pc # "erase" =>
      /\ {e.timer : e \in timers} = {k.timer : k \in activeTimers}
      /\ Cardinality(timers) = Cardinality(activeTimers)
      /\ \A e \in timers : e.when = expiration[e.timer]

(* Between two handleReads the timerfd goes off no later than the earliest *)
(* timer is due, but for the minimal delay: insert re-arms it only for a   *)
(* new earliest timer, cancel never does, and reset must make up for both. *)
ArmedInTime ==
  aborted = "no" /\ pc = "loop" /\ adding[Owner] = None /\ timers # {} =>
    /\ fd # None
    /\ \A e \in timers : fd <= Later(e.when, 1)

(* A timer in the queue is run, unless it is cancelled or the program      *)
(* stops at an assert.                                                     *)
EveryTimerFires ==
  \A t \in Timers :
    (\E e \in timers : e.timer = t)
      ~> \/ t \in cancelled \/ aborted # "no"
         \/ calling /\ \E e \in expired \ left : e.timer = t

(* The expired timers are found in activeTimers_ (assert(n == 1) in        *)
(* getExpired), as it holds the same timers as timers_.                    *)
ExpiredAreActive == aborted # "expired"

(* A cancel is final for a timer that is in the queue under the number its *)
(* TimerId has, whether it was waiting or about to be restarted, by its    *)
(* own callback, another's or another thread's.  (A timer created between  *)
(* the insertion and the return of addTimer, or between the cancel and the *)
(* reset, moves the number on; then cancelInLoop does not find the timer,  *)
(* or reset does not find it cancelled, and it goes on.)                   *)
CancelIsFinal ==
  pc = "loop" =>
    \A k \in activeTimers : k.seq = ids[k.timer] => k.timer \notin cancelled
==============================================================================
