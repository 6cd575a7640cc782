------------------------------- MODULE TcpServer -------------------------------
(***************************************************************************)
(* A server with its acceptor, its pool of loops and all its connections   *)
(* (tcpServer.cpp, acceptor.cpp, eventLoopThreadPool.cpp, socket.cpp).     *)
(* The base loop accepts, gives each connection a name and the next loop   *)
(* of the pool, and forgets it when its loop reports that the peer closed; *)
(* its own loop sets it up and takes it down.  The loops hand each other   *)
(* functors, each with a reference to its connection, and a descriptor is  *)
(* closed, and free for the next accept, with the last reference.          *)
(*                                                                         *)
(* Loop 0 is the base loop, 1 .. loops are the pool's; each is what        *)
(* EventLoop promises.  What a connection does while it is open, and what  *)
(* its users may do to it, is in TcpConnection.  An assert that fails or a *)
(* log_fatal ends the process.                                             *)
(***************************************************************************)
EXTENDS Naturals, Sequences

CONSTANTS
  Clients,     \* peers, each of which connects once
  Fds,         \* the descriptors the process has left for connections
  MaxThreads,  \* the largest argument of setThreadNum
  None

ASSUME FdsAssumption == Fds \subseteq Nat
ASSUME ThreadsAssumption == MaxThreads \in Nat

VARIABLES
  started,     \* started_ of server and pool
  listening,   \* listenning_ of the acceptor
  numThreads,  \* numThreads_
  loops,       \* loops_.size() of the pool
  next,        \* next_ of the pool
  backlog,     \* clients the kernel has ready for accept
  nextConnId,  \* nextConnId_
  connects,    \* connects_, as records [name, conn]
  conn,        \* the TcpConnection of each client, or None
  poller,      \* channels_ of each loop's poller
  busy,        \* the connection whose handleEvent each loop is inside
  queue,       \* pendingFunctor_ of each loop ...
  batch, ran,  \* ... and those of doPendingFunctors, and how many ran
  ended        \* "no", or "exit", or "assert"

poolVars == <<started, numThreads, loops, next>>
acceptVars == <<listening, backlog, nextConnId>>
loopVars == <<queue, batch, ran>>
vars == <<poolVars, acceptVars, connects, conn, poller, busy, loopVars, ended>>

Loops == 0 .. MaxThreads

Connection == [name : Nat, loop : Loops, fd : Fds,
               state : {"kConnecting", "kConnected", "kDisconnected"},
               reading : BOOLEAN]

ASSUME NoneAssumption == None \notin Clients \cup Connection

FunctorType == [op : {"established", "remove", "destroy"}, conn : Clients]
Functor(op, c) == [op |-> op, conn |-> c]

(* The functors a loop still holds. *)
Held(l) == {queue[l][i] : i \in DOMAIN queue[l]} \cup {batch[l][i] : i \in DOMAIN batch[l]}

(* The connection object of a client exists: the map or a functor has it.  *)
Alive(c) ==
  /\ conn[c] # None
  /\ \/ \E e \in connects : e.conn = c
     \/ \E l \in Loops : \E f \in Held(l) : f.conn = c

FreeFds == Fds \ {conn[c].fd : c \in {x \in Clients : Alive(x)}}

(* The server's parts as they are constructed. *)
AcceptorInit == listening = FALSE /\ backlog = <<>>
PoolInit == started = FALSE /\ numThreads = 0 /\ loops = 0 /\ next = 0

Init ==
  /\ AcceptorInit /\ PoolInit
  /\ nextConnId = 1
  /\ connects = {}
  /\ conn = [c \in Clients |-> None]
  /\ poller = [l \in Loops |-> [f \in Fds |-> None]]
  /\ busy = [l \in Loops |-> None]
  /\ queue = [l \in Loops |-> <<>>]
  /\ batch = [l \in Loops |-> <<>>]
  /\ ran = [l \in Loops |-> 0]
  /\ ended = "no"

------------------------------------------------------------------------------
(* setThreadNum; after start it has no effect. *)
SetPoolThreadNum(n) == numThreads' = n

SetThreadNum(n) ==
  /\ ~started
  /\ SetPoolThreadNum(n)
  /\ UNCHANGED <<started, loops, next, acceptVars, connects, conn, poller, busy,
                 loopVars, ended>>

(* start, in the base loop's thread, as the pool asserts: the pool's loops *)
(* are there when it returns, and the acceptor listens.  Called again it   *)
(* does nothing.                                                           *)
StartPool == started' = TRUE /\ loops' = numThreads
Listen == listening' = TRUE

Start ==
  /\ ~started /\ StartPool
  /\ ~listening /\ Listen
  /\ UNCHANGED <<numThreads, next, backlog, nextConnId, connects, conn, poller,
                 busy, loopVars, ended>>

(* A client connects. *)
Arrive(c) ==
  /\ listening /\ ended = "no"
  /\ conn[c] = None
  /\ \A i \in DOMAIN backlog : backlog[i] # c
  /\ backlog' = Append(backlog, c)
  /\ UNCHANGED <<poolVars, listening, nextConnId, connects, conn, poller, busy, loopVars,
                 ended>>

------------------------------------------------------------------------------
(* getNextLoop: the pool's loops in turn, or the base loop. *)
NextLoop == IF loops = 0 THEN 0 ELSE next + 1

AdvanceLate == IF next + 1 > loops THEN 0 ELSE next + 1
AdvanceShort == IF next + 1 >= loops - 1 THEN 0 ELSE next + 1
Advance == IF next + 1 >= loops THEN 0 ELSE next + 1

SameId == nextConnId
NextId == nextConnId + 1

(* connectEestablished of a connection, in its loop: it must be kConnecting *)
(* still, and the channel new to the poller.                                *)
Establish(c, new) ==
  IF new.state # "kConnecting" \/ poller[new.loop][new.fd] # None
  THEN /\ ended' = "assert"
       /\ UNCHANGED <<conn, poller>>
  ELSE /\ ended' = ended
       /\ poller' = [poller EXCEPT ![new.loop][new.fd] = c]
       /\ conn' = [conn EXCEPT ![c] = [new EXCEPT !.state = "kConnected"]]

Polling(l) == ended = "no" /\ busy[l] = None /\ batch[l] = <<>>

(* The base loop's poll reports the listening socket, as long as somebody  *)
(* waits.  accept takes the lowest free descriptor; when there is none, or *)
(* it fails for the moment, nothing changes, and the next poll reports the *)
(* socket again.                                                           *)
HandleRead(fd) ==
  /\ Polling(0)
  /\ backlog # <<>>
  /\ fd \in FreeFds /\ \A f \in FreeFds : fd <= f
  /\ backlog' = Tail(backlog)

(* newConnection, with the descriptor accepted. *)
Accept(fd) ==
  LET c == Head(backlog)
      new == [name |-> nextConnId, loop |-> NextLoop, fd |-> fd,
              state |-> "kConnecting", reading |-> TRUE]
  IN  /\ HandleRead(fd)
      /\ nextConnId' = NextId
      /\ next' = IF loops = 0 THEN next ELSE Advance
      /\ connects' = {e \in connects : e.name # new.name}
                       \cup {[name |-> new.name, conn |-> c]}
      /\ IF new.loop = 0
         THEN /\ Establish(c, new)
              /\ queue' = queue
         ELSE /\ conn' = [conn EXCEPT ![c] = new]
              /\ queue' = [queue EXCEPT ![new.loop] = Append(@, Functor("established", c))]
              /\ UNCHANGED <<poller, ended>>
      /\ UNCHANGED <<started, numThreads, loops, listening, busy, batch, ran>>

(* The errors accept does not expect. *)
AcceptIsFatal ==
  /\ Polling(0)
  /\ backlog # <<>>
  /\ ended' = "exit"
  /\ UNCHANGED <<poolVars, acceptVars, connects, conn, poller, busy, loopVars>>

------------------------------------------------------------------------------
(* removeConnectionInLoop: only the first removal finds the connection in  *)
(* the map.                                                                *)
RemoveKeepsEntry(c) ==
  /\ queue' = [queue EXCEPT ![conn[c].loop] = Append(@, Functor("destroy", c))]
  /\ connects' = connects

RemoveConnectionInLoop(c) ==
  IF \E e \in connects : e.name = conn[c].name
  THEN /\ connects' = {e \in connects : e.name # conn[c].name}
       /\ queue' = [queue EXCEPT ![conn[c].loop] = Append(@, Functor("destroy", c))]
  ELSE UNCHANGED <<connects, queue>>

(* removeConnection, in the base loop at once or through its functors. *)
RemoveConnection(c) ==
  IF conn[c].loop = 0
  THEN RemoveConnectionInLoop(c)
  ELSE /\ queue' = [queue EXCEPT ![0] = Append(@, Functor("remove", c))]
       /\ connects' = connects

(* handleClose: the connection must be set up and not taken down yet; its  *)
(* channel is turned off and the server removes it.                        *)
HandleClose(c) ==
  IF conn[c].state # "kConnected"
  THEN ended' = "assert" /\ UNCHANGED <<conn, connects, queue>>
  ELSE /\ ended' = ended
       /\ conn' = [conn EXCEPT ![c].reading = FALSE]
       /\ RemoveConnection(c)

(* The peer closed.  When the hang-up comes with input, handleRead follows *)
(* in the same handleEvent, and closes again.                              *)
PeerCloses(c, twice) ==
  LET l == conn[c].loop
  IN  /\ Alive(c) /\ Polling(l)
      /\ poller[l][conn[c].fd] = c /\ conn[c].reading
      /\ HandleClose(c)
      /\ busy' = [busy EXCEPT ![l] = IF twice THEN c ELSE None]
      /\ UNCHANGED <<poolVars, acceptVars, poller, batch, ran>>

CloseAgain(l) ==
  /\ ended = "no"
  /\ busy[l] # None
  /\ HandleClose(busy[l])
  /\ busy' = [busy EXCEPT ![l] = None]
  /\ UNCHANGED <<poolVars, acceptVars, poller, batch, ran>>

------------------------------------------------------------------------------
(* doPendingFunctors of a loop: the batch is taken, run in order, and its  *)
(* functors with their references go when all have run.                    *)
Swap(l) ==
  /\ Polling(l)
  /\ queue[l] # <<>>
  /\ batch' = [batch EXCEPT ![l] = queue[l]]
  /\ queue' = [queue EXCEPT ![l] = <<>>]
  /\ UNCHANGED <<poolVars, acceptVars, connects, conn, poller, busy, ran, ended>>

Take(l, op, c) ==
  /\ ended = "no"
  /\ ran[l] < Len(batch[l])
  /\ batch[l][ran[l] + 1] = Functor(op, c)
  /\ ran' = [ran EXCEPT ![l] = @ + 1]
  /\ UNCHANGED <<poolVars, acceptVars, busy, batch>>

RunEstablished(l, c) ==
  /\ Take(l, "established", c)
  /\ Establish(c, conn[c])
  /\ UNCHANGED <<connects, queue>>

RunRemove(l, c) ==
  /\ Take(l, "remove", c)
  /\ RemoveConnectionInLoop(c)
  /\ UNCHANGED <<conn, poller, ended>>

(* connectDestory: the state must not be kDisconnected yet, and the channel *)
(* must be in the poller.                                                   *)
DestroyKeepsChannel(l, c) ==
  /\ Take(l, "destroy", c)
  /\ conn' = [conn EXCEPT ![c].state = "kDisconnected"]
  /\ UNCHANGED <<connects, poller, queue, ended>>

RunDestroy(l, c) ==
  /\ Take(l, "destroy", c)
  /\ IF conn[c].state # "kConnected" \/ poller[l][conn[c].fd] # c
     THEN ended' = "assert" /\ UNCHANGED <<conn, poller>>
     ELSE /\ ended' = ended
          /\ conn' = [conn EXCEPT ![c].state = "kDisconnected"]
          /\ poller' = [poller EXCEPT ![l][conn[c].fd] = None]
  /\ UNCHANGED <<connects, queue>>

BatchDone(l) ==
  /\ ended = "no"
  /\ batch[l] # <<>> /\ ran[l] = Len(batch[l])
  /\ batch' = [batch EXCEPT ![l] = <<>>]
  /\ ran' = [ran EXCEPT ![l] = 0]
  /\ UNCHANGED <<poolVars, acceptVars, connects, conn, poller, busy, queue, ended>>

RunFunctor(l) ==
  \E c \in Clients : RunEstablished(l, c) \/ RunRemove(l, c) \/ RunDestroy(l, c)

LoopStep(l) == CloseAgain(l) \/ Swap(l) \/ RunFunctor(l) \/ BatchDone(l)

Closes(c) == conn[c] # None /\ \E twice \in BOOLEAN : PeerCloses(c, twice)

Next ==
  \/ \E n \in 0 .. MaxThreads : SetThreadNum(n)
  \/ Start
  \/ \E c \in Clients : Arrive(c) \/ Closes(c)
  \/ \E fd \in Fds : Accept(fd)
  \/ AcceptIsFatal
  \/ \E l \in Loops : LoopStep(l)

Spec == Init /\ [][Next]_vars

(* The loops run and accept as long as they can, and every peer closes its *)
(* connection some day.                                                    *)
Fairness ==
  /\ \A l \in Loops : WF_vars(LoopStep(l))
  /\ WF_vars(\E fd \in Fds : Accept(fd))
  /\ \A c \in Clients : SF_vars(Closes(c))

FairSpec == Spec /\ Fairness

------------------------------------------------------------------------------
TypeOK ==
  /\ started \in BOOLEAN /\ listening = started
  /\ numThreads \in Loops /\ loops \in Loops
  /\ next \in Nat /\ (next = 0 \/ next < loops)
  /\ backlog \in Seq(Clients)
  /\ nextConnId \in Nat
  /\ connects \subseteq [name : Nat, conn : Clients]
  /\ conn \in [Clients -> Connection \cup {None}]
  /\ poller \in [Loops -> [Fds -> Clients \cup {None}]]
  /\ busy \in [Loops -> Clients \cup {None}]
  /\ queue \in [Loops -> Seq(FunctorType)]
  /\ batch \in [Loops -> Seq(FunctorType)]
  /\ ran \in [Loops -> Nat]
  /\ ended \in {"no", "exit", "assert"}

(* No descriptor belongs to two connections, every channel in a poller is  *)
(* that of a connection of this loop which still exists, and so no assert  *)
(* of the poller fails, nor one on the state of a connection, which is set *)
(* up, closed and taken down in this order (connectEestablished,           *)
(* handleClose, connectDestory), although descriptors are used again at    *)
(* once and in other loops.                                                *)
DescriptorsApart ==
  /\ ended # "assert"
  /\ \A c, d \in Clients :
       Alive(c) /\ Alive(d) /\ c # d => conn[c].fd # conn[d].fd
  /\ \A l \in Loops, f \in Fds :
       poller[l][f] # None =>
         /\ Alive(poller[l][f])
         /\ conn[poller[l][f]].loop = l /\ conn[poller[l][f]].fd = f

(* The n-th connection goes to the n-th loop of the pool, round and round, *)
(* and no two connections have the same name.                              *)
RoundRobin ==
  \A c \in Clients :
    conn[c] # None =>
      /\ conn[c].loop = IF loops = 0 THEN 0 ELSE ((conn[c].name - 1) % loops) + 1
      /\ \A d \in Clients : conn[d] # None /\ conn[d].name = conn[c].name => d = c

(* Each connection lives as ConnectionLife says, with the stage read off   *)
(* the references, its state and the server's map.                         *)
StageOf(c) ==
  IF conn[c] = None THEN "none"
  ELSE IF ~Alive(c) THEN "gone"
  ELSE IF conn[c].state = "kConnecting" THEN "accepted"
  ELSE IF conn[c].state = "kDisconnected" THEN "destroyed"
  ELSE IF \E e \in connects : e.conn = c THEN "open"
  ELSE "closing"

Lives == INSTANCE ConnectionLife
           WITH Connections <- Clients, stage <- [c \in Clients |-> StageOf(c)]

LivesInOrder == Lives!Spec

(* Who connects is accepted in the end, even after accept failed for want  *)
(* of descriptors: the listening socket stays readable, and the closing of *)
(* other connections goes all the way, over three hand-overs between the   *)
(* loops, to the close of their descriptors.                               *)
Waiting(c) == \E i \in DOMAIN backlog : backlog[i] = c

ClientsAccepted ==
  \A c \in Clients : Waiting(c) ~> (conn[c] # None \/ ended = "exit")
==============================================================================
