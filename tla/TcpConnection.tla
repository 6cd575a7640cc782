---------------------------- MODULE TcpConnection ----------------------------
(***************************************************************************)
(* The life of one connection of a TcpServer (tcpConnection.cpp,           *)
(* tcpServer.cpp): the base loop accepts and removes it, its io loop reads *)
(* and writes it, and a user thread that got a TcpConnectionPtr in a       *)
(* callback calls send and shutdown on it.  Server and connection hand     *)
(* each other functors; those of the server and connectDestory hold a      *)
(* reference to the connection, those of send and shutdown hold a raw      *)
(* pointer.                                                                *)
(*                                                                         *)
(* Without a thread pool both loops are one (singleLoop).  A loop here is  *)
(* what EventLoop promises and no more: it polls, handles the channel, and *)
(* runs a batch of functors in order.  The poller is Poller's: an update   *)
(* of a channel that was removed fails an assert, and one enabled again    *)
(* after it was disabled is not polled.                                    *)
(*                                                                         *)
(* A message is a sequence of Units units, so that the kernel can accept   *)
(* part of it.                                                             *)
(***************************************************************************)
EXTENDS Naturals, Sequences

CONSTANTS
  Messages,    \* what users send, each once
  Units        \* the length of a message

ASSUME UnitsAssumption == Units \in Nat \ {0}

VARIABLES
  singleLoop,\* the pool has no threads: the base loop is the connection's
  st,        \* state_, or "none" before the connection is accepted
  inMap,     \* connects_ of the server has it
  queue,     \* pendingFunctor_ of each loop
  batch,     \* functors of doPendingFunctors of each loop ...
  next,      \* ... and the number of those that ran
  ioPc,      \* the io loop: "poll", "handle", "callback", "pending"
  back,      \* where it goes when the user's callback returns
  todo,      \* what is left of handleEvent: "close", "read", "write"
  channel,   \* "new", "added" to the poller, "removed" from it
  events,    \* event_ of the channel
  deaf,      \* its slot in the poller is turned off
  output,    \* outputBuffer_
  wire,      \* what the kernel accepted
  fin,       \* shutdownWrite was called
  peer,      \* what the peer did: a subset of {"data", "fin", "rst"}
  holds,     \* the user thread holds a TcpConnectionPtr
  userPc,    \* the user thread: "idle", or past the state test of a call
  sent,      \* history: the messages for which send was called
  accepted,  \* history: what sendInloop was given, unit by unit
  freed,     \* where the connection was destroyed, or "no"
  aborted    \* "no", or the assert that failed: on state_, or the poller's

vars == <<singleLoop, st, inMap, queue, batch, next, ioPc, back, todo, channel,
          events, deaf, output, wire, fin, peer, holds, userPc, sent, accepted,
          freed, aborted>>

serverVars == <<singleLoop, inMap>>
loopVars == <<queue, batch, next>>
channelVars == <<channel, events, deaf>>
streamVars == <<output, wire, fin, accepted>>
userVars == <<holds, userPc, sent>>

Loops == IF singleLoop THEN {"io"} ELSE {"io", "base"}

Functor(op) == [op |-> op, msg |-> <<>>]
SendFunctor(m) == [op |-> "send", msg |-> <<m>>]

(* The functors that share ownership of the connection. *)
OwningButDestroy == {"established", "remove"}
OwningOps == {"established", "remove", "destroy"}

PayloadWithNul(m) == [k \in 1 .. Units + 1 |-> <<m, k>>]
Payload(m) == [k \in 1 .. Units |-> <<m, k>>]

RangeOf(s) == {s[i] : i \in 1 .. Len(s)}

(* Who keeps the connection alive: the server, the user, a functor queued  *)
(* or in a batch (a functor that ran is destroyed with its batch), and     *)
(* whoever called the user's callback.                                     *)
Referenced ==
  \/ inMap
  \/ holds
  \/ ioPc = "callback"
  \/ \E l \in Loops : \E f \in RangeOf(queue[l]) \cup RangeOf(batch[l]) :
       f.op \in OwningOps

Exists == st # "none" /\ freed = "no"

Init ==
  /\ singleLoop \in BOOLEAN
  /\ st = "none" /\ inMap = FALSE
  /\ queue = [l \in Loops |-> <<>>]
  /\ batch = [l \in Loops |-> <<>>]
  /\ next = [l \in Loops |-> 0]
  /\ ioPc = "poll" /\ back = "poll" /\ todo = {}
  /\ channel = "new" /\ events = {} /\ deaf = FALSE
  /\ output = <<>> /\ wire = <<>> /\ fin = FALSE /\ accepted = <<>>
  /\ peer = {}
  /\ holds = FALSE /\ userPc = "idle" /\ sent = {}
  /\ freed = "no" /\ aborted = "no"

------------------------------------------------------------------------------
(* Enqueue one functor to a loop. *)
Enqueue(l, f) == queue' = [queue EXCEPT ![l] = Append(@, f)]

(* The channel's calls.  disableAll leaves the slot in the poller turned   *)
(* off for good; to enable a removed channel fails the poller's assert.    *)
ChannelDisableAll == events' = {} /\ deaf' = TRUE /\ UNCHANGED channel

ChannelEnableWriting ==
  /\ events' = events \cup {"write"}
  /\ aborted' = IF channel = "removed" THEN "poller" ELSE aborted
  /\ UNCHANGED <<channel, deaf>>

(* What ::write of n units takes: any prefix, at least one unit when the   *)
(* socket is known to be writable, and nothing when it fails.              *)
WriteResults(n, writable) ==
  IF fin \/ "rst" \in peer THEN {0} ELSE (IF writable THEN 1 ELSE 0) .. n

(* sendInloop: straight to the socket if nothing waits, then the rest to   *)
(* the buffer.                                                             *)
WriteAlways == TRUE
WriteDirectly == "write" \notin events /\ output = <<>>

SendInloop(m) ==
  \E n \in IF WriteDirectly THEN WriteResults(Len(Payload(m)), FALSE) ELSE {0} :
    /\ accepted' = accepted \o Payload(m)
    /\ wire' = wire \o SubSeq(Payload(m), 1, n)
    /\ output' = output \o SubSeq(Payload(m), n + 1, Len(Payload(m)))
    /\ fin' = fin
    /\ IF n < Len(Payload(m)) /\ "write" \notin events
       THEN ChannelEnableWriting
       ELSE UNCHANGED <<channelVars, aborted>>

(* shutdownInloop; to shut down twice makes no difference. *)
ShutdownWrite == fin' = TRUE

ShutdownAtOnce(writing) == ShutdownWrite
ShutdownInloop(writing) == IF writing THEN fin' = fin ELSE ShutdownWrite

(* removeConnectionInLoop: the second of two removals finds nothing. *)
RemoveAlways ==
  /\ inMap' = FALSE
  /\ Enqueue("io", Functor("destroy"))

RemoveOnly == inMap' = FALSE /\ queue' = queue

RemoveConnectionInLoop ==
  IF inMap
  THEN /\ inMap' = FALSE
       /\ Enqueue("io", Functor("destroy"))
  ELSE UNCHANGED <<inMap, queue>>

------------------------------------------------------------------------------
(* connectEestablished, of a connection whose state_ is now so. *)
EstablishUnread(now) ==
  IF now # "connecting"
  THEN aborted' = "state" /\ UNCHANGED <<st, channelVars, ioPc>>
  ELSE /\ st' = "connected"
       /\ channel' = "added" /\ events' = {} /\ deaf' = deaf
       /\ ioPc' = "callback"
       /\ aborted' = aborted

Establish(now) ==
  IF now # "connecting"
  THEN aborted' = "state" /\ UNCHANGED <<st, channelVars, ioPc>>
  ELSE /\ st' = "connected"
       /\ channel' = "added" /\ events' = {"read"} /\ deaf' = deaf
       /\ ioPc' = "callback"
       /\ aborted' = aborted

(* newConnection, in the base loop: a connection is made in kConnecting,   *)
(* and in a single loop established on the spot.                           *)
NewConnection ==
  /\ st = "none"
  /\ inMap' = TRUE
  /\ IF singleLoop
     THEN /\ ioPc = "poll"
          /\ Establish("connecting")
          /\ back' = "handle"
          /\ UNCHANGED queue
     ELSE /\ st' = "connecting"
          /\ Enqueue("io", Functor("established"))
          /\ UNCHANGED <<channelVars, ioPc, back, aborted>>
  /\ UNCHANGED <<singleLoop, batch, next, todo, streamVars, peer, userVars,
                 freed>>

(* The peer sends, closes its side, or resets. *)
Peer(what) ==
  /\ Exists /\ st # "connecting"
  /\ what \notin peer /\ (what = "data" => peer \cap {"fin", "rst"} = {})
  /\ peer' = peer \cup {what}
  /\ UNCHANGED <<st, serverVars, loopVars, ioPc, back, todo, channelVars,
                 streamVars, userVars, freed, aborted>>

(* poll reports the channel; handleEvent takes the close callback for a    *)
(* readable hang-up, then the read callback, then the write callback.      *)
HungUp == "rst" \in peer \/ ("fin" \in peer /\ fin)
Readable == peer # {}

PollChannel ==
  /\ ioPc = "poll" /\ aborted = "no"
  /\ channel = "added" /\ ~deaf
  /\ \E writable \in BOOLEAN :
       todo' = (IF HungUp /\ "read" \in events THEN {"close"} ELSE {})
                 \cup (IF Readable /\ "read" \in events THEN {"read"} ELSE {})
                 \cup (IF writable /\ "write" \in events THEN {"write"} ELSE {})
  /\ todo' # {}
  /\ ioPc' = "handle"
  /\ UNCHANGED <<st, serverVars, loopVars, back, channelVars, streamVars, peer,
                 userVars, freed, aborted>>

(* Another channel, the wakeup or the timeout ends the poll. *)
PollOther ==
  /\ ioPc = "poll" /\ aborted = "no"
  /\ queue["io"] # <<>>
  /\ ioPc' = "pending"
  /\ UNCHANGED <<st, serverVars, loopVars, back, todo, channelVars, streamVars,
                 peer, userVars, freed, aborted>>

(* handleClose: all events off, then removeConnection in the server, in    *)
(* the base loop.  The state stays kConnected or kDisconnecting.           *)
CloseStateOK == st \in {"connected", "disconnecting"}

Close ==
  IF ~CloseStateOK
  THEN aborted' = "state" /\ UNCHANGED <<channelVars, inMap, queue>>
  ELSE /\ aborted' = aborted
       /\ ChannelDisableAll
       /\ IF singleLoop
          THEN RemoveConnectionInLoop
          ELSE Enqueue("base", Functor("remove")) /\ UNCHANGED inMap

HandleClose ==
  /\ ioPc = "handle" /\ aborted = "no"
  /\ "close" \in todo
  /\ todo' = todo \ {"close"}
  /\ Close
  /\ UNCHANGED <<singleLoop, st, batch, next, ioPc, back, streamVars, peer,
                 userVars, freed>>

(* handleRead: data goes to the message callback, the end of the stream to *)
(* handleClose, and a reset is an error that is only logged, or the end.   *)
ReadData ==
  /\ "data" \in peer /\ "rst" \notin peer
  /\ peer' = peer \ {"data"}
  /\ ioPc' = "callback" /\ back' = "handle"
  /\ UNCHANGED <<channelVars, inMap, queue, aborted>>

ReadEnd ==
  /\ "data" \notin peer \/ "rst" \in peer
  /\ peer' = peer
  /\ \/ Close
     \/ "rst" \in peer /\ UNCHANGED <<channelVars, inMap, queue, aborted>>
  /\ UNCHANGED <<ioPc, back>>

HandleRead ==
  /\ ioPc = "handle" /\ aborted = "no"
  /\ "read" \in todo /\ "close" \notin todo
  /\ todo' = todo \ {"read"}
  /\ ReadData \/ ReadEnd
  /\ UNCHANGED <<singleLoop, st, batch, next, streamVars, userVars, freed>>

(* handleWrite: a prefix of the buffer is written; when the buffer is      *)
(* empty writing stops, and a shutdown that waited for it happens.         *)
Drained(n) ==
  /\ n = Len(output)
  /\ events' = events \ {"write"}
  /\ deaf' = (deaf \/ events = {"write"})
  /\ IF st = "disconnecting" THEN ShutdownInloop(FALSE) ELSE fin' = fin

NotDrained(n) ==
  /\ n < Len(output)
  /\ UNCHANGED <<events, deaf, fin>>

HandleWrite ==
  /\ ioPc = "handle" /\ aborted = "no"
  /\ todo = {"write"}
  /\ todo' = {}
  /\ IF "write" \notin events
     THEN UNCHANGED <<channelVars, streamVars>>
     ELSE \E n \in WriteResults(Len(output), TRUE) :
            /\ wire' = wire \o SubSeq(output, 1, n)
            /\ output' = SubSeq(output, n + 1, Len(output))
            /\ IF n = 0 THEN UNCHANGED <<events, deaf, fin>>
               ELSE Drained(n) \/ NotDrained(n)
            /\ UNCHANGED <<channel, accepted>>
  /\ UNCHANGED <<st, serverVars, loopVars, ioPc, back, peer, userVars, freed,
                 aborted>>

HandleDone ==
  /\ ioPc = "handle" /\ aborted = "no"
  /\ todo = {}
  /\ ioPc' = "pending"
  /\ UNCHANGED <<st, serverVars, loopVars, back, todo, channelVars, streamVars,
                 peer, userVars, freed, aborted>>

------------------------------------------------------------------------------
(* In a callback of the connection, in its own loop: send and shutdown are *)
(* carried out at once, and the user may keep the TcpConnectionPtr.        *)
CallbackSend(m) ==
  /\ ioPc = "callback" /\ aborted = "no"
  /\ st = "connected"
  /\ m \notin sent
  /\ sent' = sent \cup {m}
  /\ SendInloop(m)
  /\ UNCHANGED <<st, serverVars, loopVars, ioPc, back, todo, peer, holds,
                 userPc, freed>>

CallbackShutdown ==
  /\ ioPc = "callback" /\ aborted = "no"
  /\ st = "connected"
  /\ st' = "disconnecting"
  /\ ShutdownInloop("write" \in events)
  /\ UNCHANGED <<serverVars, loopVars, ioPc, back, todo, channelVars, output,
                 wire, accepted, peer, userVars, freed, aborted>>

CallbackKeeps ==
  /\ ioPc = "callback" /\ aborted = "no"
  /\ ~holds
  /\ holds' = TRUE
  /\ UNCHANGED <<st, serverVars, loopVars, ioPc, back, todo, channelVars,
                 streamVars, peer, userPc, sent, freed, aborted>>

CallbackReturns ==
  /\ ioPc = "callback" /\ aborted = "no"
  /\ ioPc' = back
  /\ UNCHANGED <<st, serverVars, loopVars, back, todo, channelVars, streamVars,
                 peer, userVars, freed, aborted>>

(* The user thread, with its TcpConnectionPtr: a call tests state_ and     *)
(* acts on it in two steps, between which the loops go on.                 *)
UserTests(call) ==
  /\ holds /\ userPc = "idle" /\ aborted = "no"
  /\ st = "connected"
  /\ call = "send" => sent # Messages
  /\ userPc' = call
  /\ UNCHANGED <<st, serverVars, loopVars, ioPc, back, todo, channelVars,
                 streamVars, peer, holds, sent, freed, aborted>>

UserSend(m) ==
  /\ userPc = "send" /\ aborted = "no"
  /\ m \notin sent
  /\ sent' = sent \cup {m}
  /\ userPc' = "idle"
  /\ Enqueue("io", SendFunctor(m))
  /\ UNCHANGED <<st, serverVars, batch, next, ioPc, back, todo, channelVars,
                 streamVars, peer, holds, freed, aborted>>

UserShutdown ==
  /\ userPc = "shutdown" /\ aborted = "no"
  /\ st' = "disconnecting"
  /\ userPc' = "idle"
  /\ Enqueue("io", Functor("shutdown"))
  /\ UNCHANGED <<serverVars, batch, next, ioPc, back, todo, channelVars,
                 streamVars, peer, holds, sent, freed, aborted>>

(* The user lets go of it; the last reference destroys the connection. *)
UserDrops ==
  /\ holds /\ userPc = "idle" /\ aborted = "no"
  /\ holds' = FALSE
  /\ UNCHANGED <<st, serverVars, loopVars, ioPc, back, todo, channelVars,
                 streamVars, peer, userPc, sent, aborted>>
  /\ freed' = IF Referenced' THEN freed ELSE "user"

------------------------------------------------------------------------------
(* doPendingFunctors of a loop.  The io loop is in its pending phase.      *)
InPending(l) == aborted = "no" /\ (l = "io" => ioPc = "pending")

Swap(l) ==
  /\ InPending(l)
  /\ batch[l] = <<>> /\ queue[l] # <<>>
  /\ batch' = [batch EXCEPT ![l] = queue[l]]
  /\ queue' = [queue EXCEPT ![l] = <<>>]
  /\ UNCHANGED <<st, serverVars, next, ioPc, back, todo, channelVars,
                 streamVars, peer, userVars, freed, aborted>>

(* The next functor of the batch. *)
Take(l, op) ==
  /\ InPending(l)
  /\ next[l] < Len(batch[l])
  /\ batch[l][next[l] + 1].op = op
  /\ next' = [next EXCEPT ![l] = @ + 1]
  /\ batch' = batch

RunEstablished ==
  /\ Take("io", "established")
  /\ Establish(st)
  /\ back' = "pending"
  /\ UNCHANGED <<serverVars, queue, todo, streamVars, peer, userVars, freed>>

RunRemove ==
  /\ Take("base", "remove")
  /\ RemoveConnectionInLoop
  /\ UNCHANGED <<singleLoop, st, ioPc, back, todo, channelVars, streamVars, peer,
                 userVars, freed, aborted>>

(* connectDestory.  Its connection callback is the last one: the user may  *)
(* keep the pointer, but send and shutdown do nothing, as the state is     *)
(* kDisconnected.                                                          *)
RunDestroy ==
  /\ Take("io", "destroy")
  /\ IF ~CloseStateOK
     THEN aborted' = "state" /\ UNCHANGED <<st, channelVars, holds>>
     ELSE /\ aborted' = aborted
          /\ st' = "disconnected"
          /\ channel' = "removed" /\ events' = {} /\ deaf' = TRUE
          /\ holds' \in {holds, TRUE}
  /\ UNCHANGED <<serverVars, queue, ioPc, back, todo, streamVars, peer,
                 userPc, sent, freed>>

(* sendInloop and shutdownInloop through the raw pointer; what they do to  *)
(* a connection that is gone is not followed further.                      *)
RunSend ==
  /\ Take("io", "send")
  /\ IF freed = "no" THEN SendInloop(batch["io"][next["io"] + 1].msg[1])
                     ELSE UNCHANGED <<channelVars, streamVars, aborted>>
  /\ UNCHANGED <<st, serverVars, queue, ioPc, back, todo, peer, userVars, freed>>

RunShutdown ==
  /\ Take("io", "shutdown")
  /\ IF freed = "no" THEN ShutdownInloop("write" \in events) ELSE fin' = fin
  /\ UNCHANGED <<st, serverVars, queue, ioPc, back, todo, channelVars, output,
                 wire, accepted, peer, userVars, freed, aborted>>

(* The batch's functors are destroyed, with the references they hold. *)
BatchDone(l) ==
  /\ InPending(l)
  /\ next[l] = Len(batch[l])
  /\ batch[l] # <<>> \/ (l = "io" /\ queue["io"] = <<>>)
  /\ batch' = [batch EXCEPT ![l] = <<>>]
  /\ next' = [next EXCEPT ![l] = 0]
  /\ ioPc' = IF l = "io" THEN "poll" ELSE ioPc
  /\ UNCHANGED <<st, serverVars, queue, back, todo, channelVars, streamVars,
                 peer, userVars, aborted>>
  /\ freed' = IF Exists /\ ~Referenced' THEN "pending" ELSE freed

------------------------------------------------------------------------------
IoHandle == HandleClose \/ HandleRead \/ HandleWrite \/ HandleDone
IoRun == RunEstablished \/ RunDestroy \/ RunSend \/ RunShutdown
IoPending == Swap("io") \/ IoRun \/ BatchDone("io")
BasePending == ~singleLoop /\ (Swap("base") \/ RunRemove \/ BatchDone("base"))

User ==
  \/ \E m \in Messages : UserSend(m) \/ CallbackSend(m)
  \/ \E call \in {"send", "shutdown"} : UserTests(call)
  \/ UserShutdown \/ UserDrops \/ CallbackShutdown \/ CallbackKeeps

Next ==
  \/ NewConnection
  \/ \E what \in {"data", "fin", "rst"} : Peer(what)
  \/ PollChannel \/ PollOther \/ IoHandle \/ CallbackReturns \/ IoPending
  \/ BasePending
  \/ User

Spec == Init /\ [][Next]_vars

(* Both loops run, their polls report what is there, and callbacks return; *)
(* the peer and the users owe nothing.                                     *)
Fairness ==
  /\ WF_vars(PollChannel \/ PollOther)
  /\ WF_vars(IoHandle)
  /\ WF_vars(CallbackReturns)
  /\ WF_vars(IoPending)
  /\ WF_vars(BasePending)

FairSpec == Spec /\ Fairness

------------------------------------------------------------------------------
Ops == {"established", "remove", "destroy", "send", "shutdown"}
FunctorType == [op : Ops \ {"send"}, msg : {<<>>}]
                 \cup [op : {"send"}, msg : {<<m>> : m \in Messages}]
UnitType == Messages \X (1 .. Units)

TypeOK ==
  /\ singleLoop \in BOOLEAN
  /\ st \in {"none", "connecting", "connected", "disconnecting", "disconnected"}
  /\ inMap \in BOOLEAN
  /\ \A l \in Loops :
       /\ queue[l] \in Seq(FunctorType) /\ batch[l] \in Seq(FunctorType)
       /\ next[l] \in 0 .. Len(batch[l])
  /\ ioPc \in {"poll", "handle", "callback", "pending"}
  /\ back \in {"poll", "handle", "pending"}
  /\ todo \subseteq {"close", "read", "write"}
  /\ channel \in {"new", "added", "removed"}
  /\ events \subseteq {"read", "write"}
  /\ deaf \in BOOLEAN /\ fin \in BOOLEAN /\ holds \in BOOLEAN
  /\ output \in Seq(UnitType) /\ wire \in Seq(UnitType)
  /\ accepted \in Seq(UnitType)
  /\ peer \subseteq {"data", "fin", "rst"}
  /\ userPc \in {"idle", "send", "shutdown"}
  /\ sent \subseteq Messages
  /\ freed \in {"no", "user", "pending"}
  /\ aborted \in {"no", "state", "poller"}

(* The stream is what sendInloop was given, in that order and with nothing *)
(* lost or repeated, part of it written and the rest in outputBuffer_:     *)
(* direct writes never overtake buffered data.                             *)
StreamInOrder == wire \o output = accepted

(* The write side is shut down only when the buffer is empty, except on a  *)
(* connection whose channel is already disabled (the isWriting test of     *)
(* shutdownInloop, and the call handleWrite makes for a waiting shutdown). *)
FinAfterBuffer == [][fin' /\ ~fin => output' = <<>> \/ deaf']_vars

(* The asserts on state_ in connectEestablished, handleClose and           *)
(* connectDestory hold, although a hang-up calls handleClose twice in one  *)
(* handleEvent, and the user thread writes state_ between the two loops'   *)
(* steps.                                                                  *)
StateAssertsHold == aborted # "state"

(* The connection outlives its use by the poller: it is destroyed after    *)
(* its channel was removed, and never while its events are handled.        *)
DestroyedOffPoller ==
  freed # "no" => channel = "removed" /\ ioPc # "handle"

(* The connection lives as ConnectionLife says, whatever the peer and the  *)
(* users do: it is in the server's map while it is open, leaves the map    *)
(* before the poller, and the poller before it is destroyed.               *)
Stage ==
  IF freed # "no" THEN "gone"
  ELSE IF st = "none" THEN "none"
  ELSE IF channel = "new" THEN "accepted"
  ELSE IF channel = "removed" THEN "destroyed"
  ELSE IF inMap THEN "open"
  ELSE "closing"

Life == INSTANCE ConnectionLife
          WITH Connections <- {"it"}, stage <- [c \in {"it"} |-> Stage]

LivesInOrder == Life!Spec

(* A connection whose peer closed or reset is removed from the poller and  *)
(* destroyed as soon as no user holds it, over the two hand-overs between  *)
(* the loops.                                                              *)
Closing == st \in {"connected", "disconnecting"} /\ peer \cap {"fin", "rst"} # {}

CloseIsCompleted ==
  Closing ~> (aborted # "no" \/ (channel = "removed" /\ (holds \/ freed # "no")))

(* Channels are updated only while they are in the poller (the assert on   *)
(* channels_ in updateChannel).                                            *)
UpdatesRegistered == aborted # "poller"
==============================================================================
