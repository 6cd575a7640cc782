------------------------------ MODULE Connector ------------------------------
(***************************************************************************)
(* The client side of a connection (connector.cpp): a socket that connects *)
(* in the background, watched by a channel for writability, and a timer    *)
(* that tries again after a delay that doubles.  start and stop may be     *)
(* called from another thread, start, stop, restart and the destructor     *)
(* from the loop's own callbacks.                                          *)
(*                                                                         *)
(* The loop does what EventLoop promises: it polls, handles what poll      *)
(* reported in some order, and runs the functors queued by then.  Which    *)
(* timer of several expires first is left open.  An assert that fails      *)
(* stops the program.  "careless" remembers that start or restart was      *)
(* called while the connector was still at work; nothing in the code tells *)
(* the caller.                                                             *)
(***************************************************************************)
EXTENDS Naturals, Sequences

CONSTANTS
  kInitRetryDelay, kMaxRetryDelay,  \* in milliseconds
  MaxCalls                          \* bound: calls of start and restart

ASSUME ConstantsAssumption ==
  /\ kInitRetryDelay \in Nat \ {0}
  /\ kMaxRetryDelay \in Nat
  /\ kInitRetryDelay <= kMaxRetryDelay
  /\ MaxCalls \in Nat

VARIABLES
  connect,   \* connect_
  state,     \* state_
  channel,   \* channel_: "none", "polled", or "removed" and not yet reset
  retryDelay,\* retryDelayMs_
  timers,    \* the pending retry timers: the one timerId_ names, and strays
  ends,      \* how often the channel's socket was closed or handed over
  functors,  \* the connector's functors in the loop: "start", "reset"
  phase,     \* the loop: "poll", "handle", "pending", or user code: "user"
  active,    \* what is left of the events poll reported
  starting,  \* another thread is inside start
  calls,     \* starts and restarts so far
  careless,  \* history: one of them came while the connector was at work
  gaveUp,    \* history: the last attempt failed for good
  stopped    \* "no", "destroyed", or the assert that failed

vars == <<connect, state, channel, retryDelay, timers, ends, functors, phase,
          active, starting, calls, careless, gaveUp, stopped>>

socketVars == <<state, channel, retryDelay, timers, ends, gaveUp>>
loopVars == <<functors, phase, active>>
userVars == <<starting, calls, careless>>

Init ==
  /\ connect = FALSE
  /\ state = "kDisconnect"
  /\ channel = "none"
  /\ retryDelay = kInitRetryDelay
  /\ timers = [named |-> FALSE, strays |-> 0]
  /\ ends = 1
  /\ functors = <<>> /\ phase = "poll" /\ active = <<>>
  /\ starting = FALSE /\ calls = 0 /\ careless = FALSE
  /\ gaveUp = FALSE /\ stopped = "no"

Count(t) == t.strays + (IF t.named THEN 1 ELSE 0)
Armed(t) == [named |-> TRUE, strays |-> Count(t)]

Idle == channel = "none" /\ Count(timers) = 0 /\ functors = <<>>

------------------------------------------------------------------------------
(* retry, but for the close of the socket it is given.  d is the delay     *)
(* before the call, t the timers that are left.                            *)
RetryUntilMax(d, t) ==
  /\ state' = "kDisconnect"
  /\ timers' = IF connect' /\ d < kMaxRetryDelay THEN Armed(t) ELSE t
  /\ retryDelay' = IF connect' THEN kMaxRetryDelay ELSE d

Retry(d, t) ==
  /\ state' = "kDisconnect"
  /\ timers' = IF connect' THEN Armed(t) ELSE t
  /\ retryDelay' = IF ~connect' THEN d
                   ELSE IF d * 2 < kMaxRetryDelay THEN d * 2 ELSE kMaxRetryDelay

(* What ::connect and the switch on its errno come to: connecting(fd) for  *)
(* "underway"; the socket closed by retry for "again", or for good.        *)
Outcomes == {"underway", "again", "never"}

(* connecting: a new channel watches the new socket. *)
Connecting == channel' = "polled" /\ ends' = 0

(* startInloop and connect, in state s: what the functor, the timer and    *)
(* restart call.                                                           *)
StartInloop(s, d, t, outcome) ==
  IF s # "kDisconnect"
  THEN /\ stopped' = "state"
       /\ timers' = t /\ state' = s /\ retryDelay' = d
       /\ UNCHANGED <<channel, ends, gaveUp>>
  ELSE IF ~connect'
  THEN /\ timers' = t /\ state' = s /\ retryDelay' = d
       /\ UNCHANGED <<channel, ends, gaveUp, stopped>>
  ELSE \/ /\ outcome = "underway"
          /\ state' = "kConnecting" /\ timers' = t /\ retryDelay' = d
          /\ gaveUp' = FALSE
          /\ IF channel # "none"
             THEN stopped' = "channel" /\ UNCHANGED <<channel, ends>>
             ELSE Connecting /\ stopped' = stopped
       \/ /\ outcome = "again"
          /\ Retry(d, t)
          /\ gaveUp' = FALSE
          /\ UNCHANGED <<channel, ends, stopped>>
       \/ /\ outcome = "never"
          /\ gaveUp' = TRUE
          /\ state' = s /\ timers' = t /\ retryDelay' = d
          /\ UNCHANGED <<channel, ends, stopped>>

------------------------------------------------------------------------------
(* The calls of the user.                                                  *)
Counted(settled) ==
  /\ calls < MaxCalls
  /\ calls' = calls + 1
  /\ careless' = (careless \/ ~settled)

(* start, from another thread: the flag, then the functor. *)
StartElsewhere ==
  /\ stopped = "no" /\ ~starting
  /\ Counted(TRUE)
  /\ connect' = TRUE
  /\ starting' = TRUE
  /\ UNCHANGED <<socketVars, loopVars, stopped>>

QueueStart ==
  /\ stopped = "no" /\ starting
  /\ starting' = FALSE
  /\ careless' = (careless \/ ~(Idle /\ state = "kDisconnect"))
  /\ functors' = Append(functors, "start")
  /\ UNCHANGED <<connect, socketVars, phase, active, calls, stopped>>

(* start in the loop's thread calls startInloop on the spot. *)
Start(outcome) ==
  /\ stopped = "no" /\ phase = "user"
  /\ Counted(Idle /\ state = "kDisconnect")
  /\ connect' = TRUE
  /\ StartInloop(state, retryDelay, timers, outcome)
  /\ UNCHANGED <<loopVars, starting>>

Restart(outcome) ==
  /\ stopped = "no" /\ phase = "user"
  /\ Counted(Idle)
  /\ connect' = TRUE
  /\ StartInloop("kDisconnect", kInitRetryDelay, timers, outcome)
  /\ UNCHANGED <<loopVars, starting>>

(* stop, from any thread. *)
Stop ==
  /\ stopped = "no" /\ (starting => phase = "user")
  /\ connect' = FALSE
  /\ UNCHANGED <<socketVars, loopVars, userVars, stopped>>

(* The destructor cancels the timer it armed last. *)
Destroy ==
  /\ stopped = "no" /\ phase = "user" /\ ~starting
  /\ stopped' = "destroyed"
  /\ timers' = [timers EXCEPT !.named = FALSE]
  /\ UNCHANGED <<connect, state, channel, retryDelay, ends, gaveUp, loopVars,
                 userVars>>

------------------------------------------------------------------------------
(* The loop.  An error is reported with or without writability, and        *)
(* Channel::handleEvent calls the error callback first; the timers expire  *)
(* in one event of another channel; "user" is a callback of the user's.    *)
Copies(n) == [i \in 1 .. n |-> "timer"]

SocketReports ==
  IF channel = "polled"
  THEN {<<>>, <<"error">>, <<"write">>, <<"error", "write">>}
  ELSE {<<>>}

TimerReports == {Copies(n) : n \in 0 .. Count(timers)}

InEitherOrder(S, T) == {s \o t : s \in S, t \in T} \cup {t \o s : s \in S, t \in T}

Reports == {u \o x : u \in {<<>>, <<"user">>},
                     x \in InEitherOrder(SocketReports, TimerReports)}

Poll(report) ==
  /\ stopped = "no" /\ phase = "poll"
  /\ active' = report
  /\ phase' = "handle"
  /\ UNCHANGED <<connect, socketVars, functors, userVars, stopped>>

Take(event) ==
  /\ stopped = "no" /\ phase = "handle"
  /\ active # <<>> /\ Head(active) = event
  /\ active' = Tail(active)

UserEvent ==
  /\ Take("user")
  /\ phase' = "user"
  /\ UNCHANGED <<connect, socketVars, functors, userVars, stopped>>

UserReturns ==
  /\ stopped = "no" /\ phase = "user"
  /\ phase' = "handle"
  /\ UNCHANGED <<connect, socketVars, functors, active, userVars, stopped>>

(* A retry timer runs startInloop. *)
Fired == {t \in {[timers EXCEPT !.named = FALSE],
                 [timers EXCEPT !.strays = IF @ = 0 THEN 0 ELSE @ - 1]} :
            t # timers}

FireTimer(outcome) ==
  /\ Take("timer")
  /\ connect' = connect
  /\ \E t \in Fired : StartInloop(state, retryDelay, t, outcome)
  /\ UNCHANGED <<functors, phase, userVars>>

(* removeAndResetChannel leaves the Channel to a functor, as it is being   *)
(* handled.                                                                *)
RemoveForGood ==
  /\ channel' = "removed"
  /\ functors' = functors

RemoveAndResetChannel ==
  /\ channel' = "removed"
  /\ functors' = Append(functors, "reset")

HandleError ==
  /\ Take("error")
  /\ connect' = connect
  /\ RemoveAndResetChannel
  /\ ends' = ends + 1
  /\ Retry(retryDelay, timers)
  /\ UNCHANGED <<phase, userVars, gaveUp, stopped>>

(* What getSocketError and isSelfConnect find on a writable socket.        *)
SocketErrors == {"none", "errno"}
SelfConnects == BOOLEAN

(* handleWrite: a socket with an error or connected to itself is tried     *)
(* again, any other goes to the connection callback, unless the user does  *)
(* not want it any more.                                                   *)
Established(error, selfConnect) == error = "none" /\ ~selfConnect

NeverIgnoreWrite == FALSE
IgnoreWrite == state # "kConnecting"

HandleWrite(established) ==
  /\ Take("write")
  /\ connect' = connect
  /\ IF IgnoreWrite
     THEN UNCHANGED <<state, channel, retryDelay, timers, ends, functors, phase>>
     ELSE /\ RemoveAndResetChannel
          /\ ends' = ends + 1
          /\ IF established
             THEN /\ state' = "kConnected"
                  /\ phase' = IF connect THEN "user" ELSE phase
                  /\ UNCHANGED <<retryDelay, timers>>
             ELSE Retry(retryDelay, timers) /\ UNCHANGED phase
  /\ UNCHANGED <<userVars, gaveUp, stopped>>

HandleDone ==
  /\ stopped = "no" /\ phase = "handle" /\ active = <<>>
  /\ phase' = "pending"
  /\ UNCHANGED <<connect, socketVars, functors, active, userVars, stopped>>

(* doPendingFunctors. *)
TakeFunctor(f) ==
  /\ stopped = "no" /\ phase = "pending"
  /\ functors # <<>> /\ Head(functors) = f
  /\ functors' = Tail(functors)

RunStart(outcome) ==
  /\ TakeFunctor("start")
  /\ connect' = connect
  /\ StartInloop(state, retryDelay, timers, outcome)
  /\ UNCHANGED <<phase, active, userVars>>

ResetChannel ==
  /\ TakeFunctor("reset")
  /\ channel' = "none"
  /\ UNCHANGED <<connect, state, retryDelay, timers, ends, gaveUp, phase, active,
                 userVars, stopped>>

(* What another thread queues after the swap waits for the next round. *)
PendingDone ==
  /\ stopped = "no" /\ phase = "pending"
  /\ "reset" \notin {functors[i] : i \in DOMAIN functors}
  /\ phase' = "poll"
  /\ UNCHANGED <<connect, socketVars, functors, active, userVars, stopped>>

Attempt(outcome) == FireTimer(outcome) \/ RunStart(outcome)

LoopStep ==
  \/ UserEvent \/ UserReturns
  \/ \E outcome \in Outcomes : Attempt(outcome)
  \/ HandleError
  \/ \E error \in SocketErrors, selfConnect \in SelfConnects :
       HandleWrite(Established(error, selfConnect))
  \/ HandleDone
  \/ ResetChannel \/ PendingDone

UserCall ==
  \/ StartElsewhere \/ QueueStart \/ Stop \/ Destroy
  \/ \E outcome \in Outcomes : Start(outcome) \/ Restart(outcome)

Next ==
  \/ \E report \in Reports : Poll(report)
  \/ LoopStep
  \/ UserCall

Spec == Init /\ [][Next]_vars

(* The loop runs, start ends once begun, timers and the connection's       *)
(* events come in the end, and a server that is tried again and again is   *)
(* reached at last.                                                        *)
PollReports(event) ==
  \E report \in Reports : Poll(report) /\ active' # <<>> /\ active'[1] = event

Establishes == HandleWrite(TRUE) /\ state' = "kConnected"

Fairness ==
  /\ WF_vars(LoopStep)
  /\ WF_vars(QueueStart)
  /\ WF_vars(\E report \in Reports : Poll(report))
  /\ SF_vars(PollReports("timer"))
  /\ SF_vars(PollReports("write"))
  /\ SF_vars(RunStart("underway"))
  /\ SF_vars(FireTimer("underway"))
  /\ SF_vars(Establishes)

FairSpec == Spec /\ Fairness

------------------------------------------------------------------------------
TypeOK ==
  /\ connect \in BOOLEAN
  /\ state \in {"kDisconnect", "kConnecting", "kConnected"}
  /\ channel \in {"none", "polled", "removed"}
  /\ retryDelay \in kInitRetryDelay .. kMaxRetryDelay
  /\ timers \in [named : BOOLEAN, strays : Nat] /\ ends \in Nat
  /\ functors \in Seq({"start", "reset"})
  /\ phase \in {"poll", "handle", "user", "pending"}
  /\ active \in Seq({"user", "timer", "error", "write"})
  /\ starting \in BOOLEAN /\ calls \in 0 .. MaxCalls
  /\ careless \in BOOLEAN /\ gaveUp \in BOOLEAN
  /\ stopped \in {"no", "destroyed", "state", "channel"}

(* Every socket is closed or handed to the user, once: it is open for as   *)
(* long as its channel is polled and has one end after that, although an   *)
(* error may be reported together with writability and both callbacks run  *)
(* (the test of state_ in handleWrite).                                    *)
EachSocketOnce == ends = IF channel = "polled" THEN 0 ELSE 1

(* The asserts of startInloop and connecting hold, and the destructor      *)
(* finds the only retry timer under timerId_, for a caller who starts the  *)
(* connector only when it has nothing left to do.                          *)
CarefulUseIsSafe ==
  ~careless => stopped \in {"no", "destroyed"} /\ timers.strays = 0

(* A connector that is wanted is never forgotten: it waits for a timer,    *)
(* for its functor or for its socket, unless it is connected or the system *)
(* refused for good.  A stop and a start may come at any moment.           *)
AtWork ==
  \/ Count(timers) > 0
  \/ channel = "polled"
  \/ \E i \in DOMAIN functors : functors[i] = "start"

NeverForgotten ==
  stopped = "no" /\ connect /\ ~starting =>
    AtWork \/ state = "kConnected" \/ gaveUp

(* And it connects in the end. *)
Connects ==
  (connect /\ AtWork)
    ~> (state = "kConnected" \/ ~connect \/ gaveUp \/ stopped # "no")
==============================================================================
