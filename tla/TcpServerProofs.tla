---------------------------- MODULE TcpServerProofs ----------------------------
(***************************************************************************)
(* The server with all its connections, for any number of clients,         *)
(* descriptors and loops.                                                  *)
(***************************************************************************)
EXTENDS TcpServer, TLAPS

(* What a loop has still to run: positions over its batch and its queue,   *)
(* from the first functor that did not run.                                *)
Positions(b, n, q) == n + 1 .. Len(b) + Len(q)
At(b, q, k) == IF k <= Len(b) THEN b[k] ELSE q[k - Len(b)]

HasAt(b, n, q, f) == \E k \in Positions(b, n, q) : At(b, q, k) = f
OnceAt(b, n, q, f) ==
  \A i, j \in Positions(b, n, q) : At(b, q, i) = f /\ At(b, q, j) = f => i = j

Waits(l, op, c) == HasAt(batch[l], ran[l], queue[l], Functor(op, c))
Once(l, op, c) == OnceAt(batch[l], ran[l], queue[l], Functor(op, c))

RefIn(l, c) == \E f \in Held(l) : f.conn = c
InMap(c) == \E e \in connects : e.conn = c

(* A loop inside handleEvent has no batch.                                 *)
LoopsOK ==
  /\ queue \in [Loops -> Seq(FunctorType)]
  /\ batch \in [Loops -> Seq(FunctorType)]
  /\ ran \in [Loops -> Nat]
  /\ busy \in [Loops -> Clients \cup {None}]
  /\ \A l \in Loops : ran[l] <= Len(batch[l])
  /\ \A l \in Loops : busy[l] # None => batch[l] = <<>>

(* The number of connections so far tells the loop whose turn it is, and   *)
(* there is none before start.                                             *)
PoolOK ==
  /\ started \in BOOLEAN /\ listening = started
  /\ numThreads \in Loops /\ loops \in Loops
  /\ nextConnId \in Nat \ {0}
  /\ next = IF loops = 0 THEN 0 ELSE (nextConnId - 1) % loops
  /\ ~started => loops = 0 /\ nextConnId = 1

(* Who waits has no connection yet, and waits once.                        *)
BacklogOK ==
  /\ backlog \in Seq(Clients)
  /\ ~started => backlog = <<>>
  /\ \A i \in 1 .. Len(backlog) : conn[backlog[i]] = None
  /\ \A i, j \in 1 .. Len(backlog) : backlog[i] = backlog[j] => i = j

(* Names are those handed out, one for each connection, and the map has    *)
(* connections under their names.                                          *)
NamesOK ==
  /\ conn \in [Clients -> Connection \cup {None}]
  /\ connects \subseteq [name : Nat, conn : Clients]
  /\ \A c \in Clients : conn[c] # None =>
       /\ started
       /\ conn[c].name \in 1 .. nextConnId - 1
       /\ conn[c].loop = IF loops = 0 THEN 0 ELSE ((conn[c].name - 1) % loops) + 1
  /\ \A c, d \in Clients :
       conn[c] # None /\ conn[d] # None /\ conn[c].name = conn[d].name => c = d
  /\ \A e \in connects : conn[e.conn] # None /\ e.name = conn[e.conn].name

(* Which functors may wait for a connection, by its state: each loop sets  *)
(* up and takes down its own connections, only once, and the base loop     *)
(* removes none that was not set up.                                       *)
WaitingOK ==
  \A l \in Loops, c \in Clients :
    /\ Waits(l, "established", c) =>
         conn[c] # None /\ conn[c].loop = l /\ conn[c].state = "kConnecting"
    /\ Waits(l, "destroy", c) =>
         conn[c] # None /\ conn[c].loop = l /\ conn[c].state = "kConnected" /\ ~InMap(c)
    /\ Waits(l, "remove", c) =>
         conn[c] # None /\ conn[c].state # "kConnecting"
    /\ Once(l, "established", c)
    /\ Once(l, "destroy", c)

(* A connection is in the map until it is removed, and in its poller while *)
(* it is connected; after its removal its destruction waits.               *)
StateOK ==
  /\ poller \in [Loops -> [Fds -> Clients \cup {None}]]
  /\ \A c \in Clients : conn[c] # None =>
       /\ conn[c].state = "kConnecting" => InMap(c)
       /\ conn[c].state = "kConnected" =>
            /\ poller[conn[c].loop][conn[c].fd] = c
            /\ InMap(c) \/ Waits(conn[c].loop, "destroy", c)
       /\ conn[c].state = "kDisconnected" => ~InMap(c)
  /\ \A l \in Loops, f \in Fds : poller[l][f] # None =>
       LET c == poller[l][f]
       IN  conn[c] # None /\ conn[c].state = "kConnected" /\ conn[c].loop = l
             /\ conn[c].fd = f
  /\ \A l \in Loops : busy[l] # None =>
       /\ conn[busy[l]] # None /\ conn[busy[l]].state = "kConnected"
       /\ conn[busy[l]].loop = l

FdsApart ==
  \A c, d \in Clients : Alive(c) /\ Alive(d) /\ c # d => conn[c].fd # conn[d].fd

EndedOK == ended \in {"no", "exit"}

Inv ==
  /\ LoopsOK /\ PoolOK /\ BacklogOK /\ NamesOK /\ WaitingOK /\ StateOK
  /\ FdsApart /\ EndedOK

------------------------------------------------------------------------------
(* What a loop has to run after queueInloop ...                            *)
LEMMA AtAppended ==
  ASSUME NEW S, NEW b \in Seq(S), NEW q \in Seq(S), NEW n \in Nat, n <= Len(b),
         NEW f \in S, NEW g
  PROVE  /\ HasAt(b, n, Append(q, f), g) <=> HasAt(b, n, q, g) \/ g = f
         /\ OnceAt(b, n, q, g) /\ (g = f => ~HasAt(b, n, q, g))
              => OnceAt(b, n, Append(q, f), g)
<1> DEFINE m == Len(b) + Len(q)
           p == Append(q, f)
<1>1. /\ Len(b) \in Nat /\ Len(q) \in Nat /\ m \in Nat /\ n <= m
      /\ Positions(b, n, q) = n + 1 .. m
      /\ Positions(b, n, p) = n + 1 .. m + 1
  BY DEF Positions
<1>2. At(b, p, m + 1) = f
  BY <1>1 DEF At
<1>3. ASSUME NEW k \in n + 1 .. m PROVE At(b, p, k) = At(b, q, k)
  <2>1. k > Len(b) => k - Len(b) \in 1 .. Len(q)
    BY <1>1
  <2> QED
    BY <1>1, <2>1 DEF At
<1> HIDE DEF m, p
<1>4. \A k : k \in n + 1 .. m + 1 <=> k \in n + 1 .. m \/ k = m + 1
  BY <1>1
<1>5. m + 1 \notin n + 1 .. m
  BY <1>1
<1>6. HasAt(b, n, p, g) <=> HasAt(b, n, q, g) \/ g = f
  BY <1>1, <1>2, <1>3, <1>4 DEF HasAt
<1>7. OnceAt(b, n, q, g) /\ (g = f => ~HasAt(b, n, q, g)) => OnceAt(b, n, p, g)
  BY <1>1, <1>2, <1>3, <1>4, <1>5 DEF HasAt, OnceAt
<1> QED
  BY <1>6, <1>7 DEF p

(* ... after the functor whose turn it is was taken ...                    *)
LEMMA AtTaken ==
  ASSUME NEW S, NEW b \in Seq(S), NEW q \in Seq(S), NEW n \in Nat, n < Len(b), NEW g
  PROVE  /\ HasAt(b, n + 1, q, g) => HasAt(b, n, q, g)
         /\ HasAt(b, n, q, b[n + 1])
         /\ HasAt(b, n, q, g) /\ g # b[n + 1] => HasAt(b, n + 1, q, g)
         /\ OnceAt(b, n, q, g) /\ g = b[n + 1] => ~HasAt(b, n + 1, q, g)
         /\ OnceAt(b, n, q, g) => OnceAt(b, n + 1, q, g)
<1> DEFINE m == Len(b) + Len(q)
<1>1. /\ Len(b) \in Nat /\ Len(q) \in Nat /\ m \in Nat /\ n + 1 <= m
      /\ Positions(b, n, q) = n + 1 .. m
      /\ Positions(b, n + 1, q) = n + 1 + 1 .. m
      /\ At(b, q, n + 1) = b[n + 1]
  BY DEF Positions, At
<1> HIDE DEF m
<1>2. \A k : k \in n + 1 .. m <=> k = n + 1 \/ k \in n + 1 + 1 .. m
  BY <1>1
<1>3. n + 1 \notin n + 1 + 1 .. m
  BY <1>1
<1> QED
  BY <1>1, <1>2, <1>3 DEF HasAt, OnceAt

(* ... after the queue was swapped into the batch ...                      *)
LEMMA AtSwapped ==
  ASSUME NEW S, NEW q \in Seq(S), NEW g
  PROVE  /\ HasAt(q, 0, <<>>, g) <=> HasAt(<<>>, 0, q, g)
         /\ OnceAt(q, 0, <<>>, g) <=> OnceAt(<<>>, 0, q, g)
<1>1. /\ Positions(q, 0, <<>>) = 1 .. Len(q) /\ Positions(<<>>, 0, q) = 1 .. Len(q)
      /\ \A k \in 1 .. Len(q) : At(q, <<>>, k) = q[k] /\ At(<<>>, q, k) = q[k]
  BY DEF Positions, At
<1> QED
  BY <1>1 DEF HasAt, OnceAt

(* ... and after the batch was released.                                   *)
LEMMA AtDone ==
  ASSUME NEW S, NEW b \in Seq(S), NEW q \in Seq(S), NEW g
  PROVE  /\ HasAt(<<>>, 0, q, g) <=> HasAt(b, Len(b), q, g)
         /\ OnceAt(b, Len(b), q, g) => OnceAt(<<>>, 0, q, g)
<1> DEFINE m == Len(b)
           n == Len(q)
<1>1. /\ m \in Nat /\ n \in Nat
      /\ Positions(b, m, q) = m + 1 .. m + n /\ Positions(<<>>, 0, q) = 1 .. n
      /\ \A k \in 1 .. n : At(<<>>, q, k) = q[k]
      /\ \A k \in m + 1 .. m + n : At(b, q, k) = q[k - m]
  BY DEF Positions, At
<1> HIDE DEF m, n
<1>2. /\ \A k \in 1 .. n : m + k \in m + 1 .. m + n /\ (m + k) - m = k
      /\ \A k \in m + 1 .. m + n : k - m \in 1 .. n /\ m + (k - m) = k
  BY <1>1
<1>3. HasAt(<<>>, 0, q, g) <=> HasAt(b, m, q, g)
  <2>1. HasAt(<<>>, 0, q, g) <=> \E k \in 1 .. n : q[k] = g
    BY <1>1 DEF HasAt
  <2>2. HasAt(b, m, q, g) <=> \E k \in m + 1 .. m + n : q[k - m] = g
    BY <1>1 DEF HasAt
  <2>3. (\E k \in 1 .. n : q[k] = g) => \E k \in m + 1 .. m + n : q[k - m] = g
    <3> SUFFICES ASSUME NEW k \in 1 .. n, q[k] = g
                 PROVE  \E j \in m + 1 .. m + n : q[j - m] = g
      OBVIOUS
    <3> QED
      BY <1>2
  <2>4. (\E k \in m + 1 .. m + n : q[k - m] = g) => \E k \in 1 .. n : q[k] = g
    <3> SUFFICES ASSUME NEW k \in m + 1 .. m + n, q[k - m] = g
                 PROVE  \E j \in 1 .. n : q[j] = g
      OBVIOUS
    <3>1. k - m \in 1 .. n
      BY <1>2
    <3> QED
      BY <3>1
  <2> QED
    BY <2>1, <2>2, <2>3, <2>4
<1>4. OnceAt(b, m, q, g) => OnceAt(<<>>, 0, q, g)
  <2> SUFFICES ASSUME OnceAt(b, m, q, g), NEW i \in 1 .. n, NEW j \in 1 .. n,
                      q[i] = g, q[j] = g
               PROVE  i = j
    BY <1>1 DEF OnceAt
  <2>1. /\ m + i \in m + 1 .. m + n /\ m + j \in m + 1 .. m + n
        /\ q[(m + i) - m] = g /\ q[(m + j) - m] = g
    BY <1>2
  <2>2. At(b, q, m + i) = g /\ At(b, q, m + j) = g
    BY <1>1, <2>1
  <2>3. m + i = m + j
    BY <1>1, <2>1, <2>2 DEF OnceAt
  <2> QED
    BY <1>1, <2>3
<1> QED
  BY <1>3, <1>4 DEF m, n

------------------------------------------------------------------------------
(* Functors differ in what they do or in whose they are.                   *)
LEMMA FunctorsDiffer ==
  ASSUME NEW op, NEW c
  PROVE  /\ Functor(op, c).op = op /\ Functor(op, c).conn = c
         /\ \A p, d : Functor(op, c) = Functor(p, d) <=> op = p /\ c = d
<1>1. \A p, d : Functor(p, d).op = p /\ Functor(p, d).conn = d
  BY DEF Functor
<1>2. \A p, d : Functor(op, c) = Functor(p, d) => op = p /\ c = d
  BY <1>1
<1> QED
  BY <1>1, <1>2

(* The functors are those made for a client.                               *)
LEMMA FunctorTypes ==
  /\ \A op \in {"established", "remove", "destroy"}, c \in Clients :
       Functor(op, c) \in FunctorType
  /\ \A f \in FunctorType :
       /\ f.op \in {"established", "remove", "destroy"} /\ f.conn \in Clients
       /\ f = Functor(f.op, f.conn)
  BY DEF Functor, FunctorType

(* A functor that waits refers to its connection.                          *)
LEMMA WaitingRefers ==
  ASSUME LoopsOK, NEW l \in Loops, NEW op, NEW c, Waits(l, op, c)
  PROVE  RefIn(l, c)
<1> DEFINE b == batch[l]
           q == queue[l]
<1>1. b \in Seq(FunctorType) /\ q \in Seq(FunctorType) /\ ran[l] \in Nat
  BY DEF LoopsOK
<1>2. PICK k \in ran[l] + 1 .. Len(b) + Len(q) : At(b, q, k) = Functor(op, c)
  BY DEF Waits, HasAt, Positions
<1>3. k \in DOMAIN b \/ (k > Len(b) /\ k - Len(b) \in DOMAIN q)
  <2>1. /\ Len(b) \in Nat /\ Len(q) \in Nat
        /\ DOMAIN b = 1 .. Len(b) /\ DOMAIN q = 1 .. Len(q)
    BY <1>1
  <2> HIDE DEF b, q
  <2> QED
    BY <1>1, <1>2, <2>1
<1>4. Functor(op, c) \in Held(l)
  BY <1>1, <1>2, <1>3 DEF Held, At
<1> QED
  BY <1>4, FunctorsDiffer DEF RefIn

(* So a connection is there while it is connected, or not yet.             *)
LEMMA ConnectedIsAlive ==
  ASSUME LoopsOK, NamesOK, StateOK, NEW c \in Clients, conn[c] # None,
         conn[c].state # "kDisconnected"
  PROVE  Alive(c)
<1>1. conn[c] \in Connection
  BY DEF NamesOK
<1>2. InMap(c) \/ Waits(conn[c].loop, "destroy", c)
  BY <1>1 DEF StateOK, Connection
<1>3. InMap(c) \/ RefIn(conn[c].loop, c)
  BY <1>1, <1>2, WaitingRefers DEF Connection
<1> QED
  BY <1>1, <1>3 DEF Alive, InMap, RefIn, Connection

------------------------------------------------------------------------------
(* What a step does to what waits: the functors in Run have their turn,    *)
(* those in New are queued, each a pair of a loop and a functor.           *)
TypesOfLoops ==
  /\ queue' \in [Loops -> Seq(FunctorType)]
  /\ batch' \in [Loops -> Seq(FunctorType)]
  /\ ran' \in [Loops -> Nat]
  /\ \A l \in Loops : ran'[l] <= Len(batch'[l])

Turn(Run, New) ==
  /\ TypesOfLoops
  /\ \A l \in Loops, op \in {"established", "remove", "destroy"}, c \in Clients :
       LET me == <<l, Functor(op, c)>>
       IN  /\ Waits(l, op, c)' => Waits(l, op, c) \/ me \in New
           /\ me \in New => Waits(l, op, c)'
           /\ Waits(l, op, c) /\ me \notin Run => Waits(l, op, c)'
           /\ Once(l, op, c) /\ me \in Run /\ me \notin New => ~Waits(l, op, c)'
           /\ Once(l, op, c) /\ (me \in New => ~Waits(l, op, c)) => Once(l, op, c)'
  /\ \A l \in Loops, c \in Clients :
       RefIn(l, c)' => RefIn(l, c) \/ \E x \in New : x[1] = l /\ x[2].conn = c

(* queueInloop gives a connection no other reference than its functor.     *)
LEMMA QueueRefers ==
  ASSUME LoopsOK, NEW l \in Loops, NEW f \in FunctorType,
         queue' = [queue EXCEPT ![l] = Append(@, f)], batch' = batch,
         NEW m \in Loops, NEW c \in Clients, RefIn(m, c)'
  PROVE  RefIn(m, c) \/ (m = l /\ f.conn = c)
<1>1. PICK h \in Held(m)' : h.conn = c
  BY DEF RefIn
<1>2. queue[m] \in Seq(FunctorType) /\ batch'[m] = batch[m]
  BY DEF LoopsOK
<1>3. CASE h \in Held(m)
  BY <1>1, <1>3 DEF RefIn
<1>4. CASE h \notin Held(m)
  <2>1. PICK i \in DOMAIN queue'[m] : h = queue'[m][i]
    BY <1>1, <1>2, <1>4 DEF Held
  <2>2. m = l
    BY <1>2, <1>4, <2>1 DEF LoopsOK, Held
  <2>3. h = Append(queue[m], f)[i] /\ i \in 1 .. Len(queue[m]) + 1
    BY <1>2, <2>1, <2>2 DEF LoopsOK
  <2>4. h = f
    BY <1>2, <1>4, <2>3 DEF Held
  <2> QED
    BY <1>1, <2>2, <2>4
<1> QED
  BY <1>3, <1>4

(* queueInloop.                                                            *)
LEMMA QueueTurn ==
  ASSUME LoopsOK, NEW l \in Loops, NEW f \in FunctorType,
         queue' = [queue EXCEPT ![l] = Append(@, f)], UNCHANGED <<batch, ran>>
  PROVE  Turn({}, {<<l, f>>})
<1>1. TypesOfLoops
  BY DEF LoopsOK, TypesOfLoops
<1>2. ASSUME NEW m \in Loops, NEW op \in {"established", "remove", "destroy"},
             NEW c \in Clients
      PROVE  /\ Waits(m, op, c)' <=> Waits(m, op, c) \/ (m = l /\ Functor(op, c) = f)
             /\ Once(m, op, c) /\ (m = l /\ Functor(op, c) = f => ~Waits(m, op, c))
                  => Once(m, op, c)'
  <2> DEFINE g == Functor(op, c)
  <2>1. /\ batch[m] \in Seq(FunctorType) /\ queue[m] \in Seq(FunctorType)
        /\ ran[m] \in Nat /\ ran[m] <= Len(batch[m])
        /\ batch'[m] = batch[m] /\ ran'[m] = ran[m]
    BY DEF LoopsOK
  <2>2. CASE m = l
    <3>1. queue'[m] = Append(queue[m], f)
      BY <2>2 DEF LoopsOK
    <3>2. /\ HasAt(batch[m], ran[m], Append(queue[m], f), g)
               <=> HasAt(batch[m], ran[m], queue[m], g) \/ g = f
          /\ OnceAt(batch[m], ran[m], queue[m], g)
               /\ (g = f => ~HasAt(batch[m], ran[m], queue[m], g))
               => OnceAt(batch[m], ran[m], Append(queue[m], f), g)
      BY <2>1, AtAppended
    <3> QED
      BY <2>1, <2>2, <3>1, <3>2 DEF Waits, Once
  <2>3. CASE m # l
    <3>1. queue'[m] = queue[m]
      BY <2>3 DEF LoopsOK
    <3> QED
      BY <2>1, <2>3, <3>1 DEF Waits, Once
  <2> QED
    BY <2>2, <2>3
<1>3. \A m \in Loops, c \in Clients :
        RefIn(m, c)' => RefIn(m, c) \/ (l = m /\ f.conn = c)
  BY QueueRefers
<1>4. ASSUME NEW m, NEW g PROVE <<m, g>> \in {<<l, f>>} <=> m = l /\ g = f
  OBVIOUS
<1>5. <<l, f>>[1] = l /\ <<l, f>>[2] = f
  OBVIOUS
<1> QED
  BY <1>1, <1>2, <1>3, <1>4, <1>5 DEF Turn

(* A functor has its turn, and may queue another one.                      *)
Takes(l, f) ==
  /\ ran[l] < Len(batch[l]) /\ f = batch[l][ran[l] + 1]
  /\ ran' = [ran EXCEPT ![l] = @ + 1] /\ batch' = batch

(* Taking the functor whose turn it is ends that one's waiting only.       *)
LEMMA TakenIs ==
  ASSUME LoopsOK, NEW l \in Loops, NEW f, Takes(l, f), NEW m \in Loops, NEW op, NEW c
  PROVE  LET g == Functor(op, c)
             has == HasAt(batch[m], ran'[m], queue[m], g)
         IN  /\ ran'[m] \in Nat /\ ran'[m] <= Len(batch[m])
             /\ has => Waits(m, op, c)
             /\ Waits(m, op, c) /\ <<m, g>> # <<l, f>> => has
             /\ Once(m, op, c) /\ <<m, g>> = <<l, f>> => ~has
             /\ Once(m, op, c) => OnceAt(batch[m], ran'[m], queue[m], g)
<1> DEFINE g == Functor(op, c)
<1>1. /\ batch[m] \in Seq(FunctorType) /\ queue[m] \in Seq(FunctorType)
      /\ ran[m] \in Nat /\ ran[m] <= Len(batch[m])
  BY DEF LoopsOK
<1>2. CASE m = l
  <2>1. ran'[m] = ran[m] + 1 /\ ran[m] < Len(batch[m]) /\ f = batch[m][ran[m] + 1]
    BY <1>2 DEF LoopsOK, Takes
  <2>2. ran'[m] \in Nat /\ ran'[m] <= Len(batch[m])
    BY <1>1, <2>1
  <2>3. /\ HasAt(batch[m], ran[m] + 1, queue[m], g) => HasAt(batch[m], ran[m], queue[m], g)
        /\ HasAt(batch[m], ran[m], queue[m], g) /\ g # batch[m][ran[m] + 1]
             => HasAt(batch[m], ran[m] + 1, queue[m], g)
        /\ OnceAt(batch[m], ran[m], queue[m], g) /\ g = batch[m][ran[m] + 1]
             => ~HasAt(batch[m], ran[m] + 1, queue[m], g)
        /\ OnceAt(batch[m], ran[m], queue[m], g) => OnceAt(batch[m], ran[m] + 1, queue[m], g)
    BY <1>1, <2>1, AtTaken
  <2> QED
    BY <1>2, <2>1, <2>2, <2>3 DEF Waits, Once
<1>3. CASE m # l
  <2>1. ran'[m] = ran[m]
    BY <1>3 DEF LoopsOK, Takes
  <2> QED
    BY <1>1, <1>3, <2>1 DEF Waits, Once
<1> QED
  BY <1>2, <1>3

(* A loop takes a functor that queues nothing ...                          *)
LEMMA TakeTurn ==
  ASSUME LoopsOK, NEW l \in Loops, NEW f, Takes(l, f), queue' = queue
  PROVE  Turn({<<l, f>>}, {})
<1>1. ASSUME NEW m \in Loops, NEW op \in {"established", "remove", "destroy"},
             NEW c \in Clients
      PROVE  LET me == <<m, Functor(op, c)>>
             IN  /\ ran'[m] \in Nat /\ ran'[m] <= Len(batch[m])
                 /\ Waits(m, op, c)' => Waits(m, op, c)
                 /\ Waits(m, op, c) /\ me # <<l, f>> => Waits(m, op, c)'
                 /\ Once(m, op, c) /\ me = <<l, f>> => ~Waits(m, op, c)'
                 /\ Once(m, op, c) => Once(m, op, c)'
  <2>1. /\ Waits(m, op, c)' <=> HasAt(batch[m], ran'[m], queue[m], Functor(op, c))
        /\ Once(m, op, c)' <=> OnceAt(batch[m], ran'[m], queue[m], Functor(op, c))
    BY DEF Waits, Once, Takes
  <2> QED
    BY <2>1, TakenIs
<1>2. TypesOfLoops
  <2>1. ran' \in [Loops -> Nat]
    BY DEF LoopsOK, Takes
  <2>2. \A m \in Loops : ran'[m] <= Len(batch[m])
    BY TakenIs
  <2> QED
    BY <2>1, <2>2 DEF LoopsOK, Takes, TypesOfLoops
<1>3. \A m \in Loops, c \in Clients : RefIn(m, c)' => RefIn(m, c)
  BY DEF RefIn, Held, Takes
<1>4. \A m \in Loops, op \in {"established", "remove", "destroy"}, c \in Clients :
        LET me == <<m, Functor(op, c)>>
        IN  /\ Waits(m, op, c)' => Waits(m, op, c) \/ me \in {}
            /\ me \in {} => Waits(m, op, c)'
            /\ Waits(m, op, c) /\ me \notin {<<l, f>>} => Waits(m, op, c)'
            /\ Once(m, op, c) /\ me \in {<<l, f>>} /\ me \notin {} => ~Waits(m, op, c)'
            /\ Once(m, op, c) /\ (me \in {} => ~Waits(m, op, c)) => Once(m, op, c)'
  BY <1>1
<1> QED
  BY <1>2, <1>3, <1>4, Zenon DEF Turn

(* ... or one that queues another functor, here or in another loop.        *)
LEMMA TakeQueueTurn ==
  ASSUME LoopsOK, NEW l \in Loops, NEW f, Takes(l, f),
         NEW k \in Loops, NEW h \in FunctorType, h # f,
         queue' = [queue EXCEPT ![k] = Append(@, h)]
  PROVE  Turn({<<l, f>>}, {<<k, h>>})
<1>1. ASSUME NEW m \in Loops, NEW op \in {"established", "remove", "destroy"},
             NEW c \in Clients
      PROVE  LET me == <<m, Functor(op, c)>>
             IN  /\ Waits(m, op, c)' => Waits(m, op, c) \/ me = <<k, h>>
                 /\ me = <<k, h>> => Waits(m, op, c)'
                 /\ Waits(m, op, c) /\ me # <<l, f>> => Waits(m, op, c)'
                 /\ Once(m, op, c) /\ me = <<l, f>> /\ me # <<k, h>> => ~Waits(m, op, c)'
                 /\ Once(m, op, c) /\ (me = <<k, h>> => ~Waits(m, op, c)) => Once(m, op, c)'
  <2> DEFINE g == Functor(op, c)
             has == HasAt(batch[m], ran'[m], queue[m], g)
             once == OnceAt(batch[m], ran'[m], queue[m], g)
  <2>1. /\ Waits(m, op, c)' <=> HasAt(batch[m], ran'[m], queue'[m], g)
        /\ Once(m, op, c)' <=> OnceAt(batch[m], ran'[m], queue'[m], g)
    BY DEF Waits, Once, Takes
  <2>2. /\ ran'[m] \in Nat /\ ran'[m] <= Len(batch[m])
        /\ has => Waits(m, op, c)
        /\ Waits(m, op, c) /\ <<m, g>> # <<l, f>> => has
        /\ Once(m, op, c) /\ <<m, g>> = <<l, f>> => ~has
        /\ Once(m, op, c) => once
    BY TakenIs
  <2>3. batch[m] \in Seq(FunctorType) /\ queue[m] \in Seq(FunctorType)
    BY DEF LoopsOK
  <2>4. CASE m = k
    <3>1. queue'[m] = Append(queue[m], h)
      BY <2>4 DEF LoopsOK
    <3>2. /\ HasAt(batch[m], ran'[m], Append(queue[m], h), g) <=> has \/ g = h
          /\ once /\ (g = h => ~has) => OnceAt(batch[m], ran'[m], Append(queue[m], h), g)
      BY <2>2, <2>3, AtAppended
    <3>3. <<m, g>> = <<k, h>> <=> g = h
      BY <2>4
    <3> HIDE DEF g, has, once
    <3> QED
      BY <2>1, <2>2, <3>1, <3>2, <3>3 DEF g
  <2>5. CASE m # k
    <3>1. queue'[m] = queue[m]
      BY <2>5 DEF LoopsOK
    <3>2. <<m, g>> # <<k, h>>
      BY <2>5
    <3> QED
      BY <2>1, <2>2, <3>1, <3>2
  <2> QED
    BY <2>4, <2>5
<1>2. TypesOfLoops
  <2>1. ran' \in [Loops -> Nat] /\ queue' \in [Loops -> Seq(FunctorType)]
    BY DEF LoopsOK, Takes
  <2>2. \A m \in Loops : ran'[m] <= Len(batch[m])
    BY TakenIs
  <2> QED
    BY <2>1, <2>2 DEF LoopsOK, Takes, TypesOfLoops
<1>3. \A m \in Loops, c \in Clients :
        RefIn(m, c)' => RefIn(m, c) \/ (m = k /\ h.conn = c)
  BY QueueRefers DEF Takes
<1>4. <<k, h>>[1] = k /\ <<k, h>>[2] = h
  OBVIOUS
<1>5. \A m \in Loops, op \in {"established", "remove", "destroy"}, c \in Clients :
        LET me == <<m, Functor(op, c)>>
        IN  /\ Waits(m, op, c)' => Waits(m, op, c) \/ me \in {<<k, h>>}
            /\ me \in {<<k, h>>} => Waits(m, op, c)'
            /\ Waits(m, op, c) /\ me \notin {<<l, f>>} => Waits(m, op, c)'
            /\ Once(m, op, c) /\ me \in {<<l, f>>} /\ me \notin {<<k, h>>}
                 => ~Waits(m, op, c)'
            /\ Once(m, op, c) /\ (me \in {<<k, h>>} => ~Waits(m, op, c))
                 => Once(m, op, c)'
  BY <1>1
<1>6. \A m \in Loops, c \in Clients :
        RefIn(m, c)' => RefIn(m, c) \/ \E x \in {<<k, h>>} : x[1] = m /\ x[2].conn = c
  BY <1>3, <1>4
<1> QED
  BY <1>2, <1>5, <1>6, Zenon DEF Turn

(* The batch is taken, or released; or nothing happens to the loops.       *)
LEMMA EvenTurn ==
  ASSUME LoopsOK, TypesOfLoops,
         \A m \in Loops, op \in {"established", "remove", "destroy"}, c \in Clients :
           /\ Waits(m, op, c)' <=> Waits(m, op, c)
           /\ Once(m, op, c) => Once(m, op, c)',
         \A m \in Loops, c \in Clients : RefIn(m, c)' => RefIn(m, c)
  PROVE  Turn({}, {})
  BY ZenonT(40) DEF Turn

(* A step that leaves the loops' functors alone.                           *)
LEMMA NoTurn ==
  ASSUME LoopsOK, UNCHANGED <<queue, batch, ran>>
  PROVE  Turn({}, {})
<1>1. TypesOfLoops
  BY DEF LoopsOK, TypesOfLoops
<1>2. \A m \in Loops, op \in {"established", "remove", "destroy"}, c \in Clients :
        /\ Waits(m, op, c)' <=> Waits(m, op, c)
        /\ Once(m, op, c) => Once(m, op, c)'
  BY DEF Waits, Once
<1>3. \A m \in Loops, c \in Clients : RefIn(m, c)' => RefIn(m, c)
  BY DEF RefIn, Held
<1> QED
  BY <1>1, <1>2, <1>3, EvenTurn

(* doPendingFunctors takes the queue as its batch: what waits still waits. *)
LEMMA SwapTurn ==
  ASSUME LoopsOK, NEW l \in Loops, Swap(l)
  PROVE  Turn({}, {})
<1>1. /\ batch[l] = <<>> /\ ran[l] = 0 /\ queue[l] \in Seq(FunctorType)
      /\ batch' = [batch EXCEPT ![l] = queue[l]] /\ queue' = [queue EXCEPT ![l] = <<>>]
      /\ ran' = ran
  BY DEF Swap, Polling, LoopsOK
<1>2. batch'[l] = queue[l] /\ queue'[l] = <<>>
  BY <1>1 DEF LoopsOK
<1>3. \A m \in Loops \ {l} : batch'[m] = batch[m] /\ queue'[m] = queue[m]
  BY <1>1 DEF LoopsOK
<1>4. TypesOfLoops
  BY <1>1, <1>2, <1>3 DEF LoopsOK, TypesOfLoops
<1>5. ASSUME NEW m \in Loops, NEW op \in {"established", "remove", "destroy"},
             NEW c \in Clients
      PROVE  /\ Waits(m, op, c)' <=> Waits(m, op, c)
             /\ Once(m, op, c) => Once(m, op, c)'
  <2>1. CASE m = l
    <3>1. /\ HasAt(queue[l], 0, <<>>, Functor(op, c))
               <=> HasAt(<<>>, 0, queue[l], Functor(op, c))
          /\ OnceAt(queue[l], 0, <<>>, Functor(op, c))
               <=> OnceAt(<<>>, 0, queue[l], Functor(op, c))
      BY <1>1, AtSwapped
    <3> QED
      BY <1>1, <1>2, <2>1, <3>1 DEF Waits, Once
  <2>2. CASE m # l
    BY <1>1, <1>3, <2>2 DEF Waits, Once
  <2> QED
    BY <2>1, <2>2
<1>6. \A m \in Loops, c \in Clients : RefIn(m, c)' => RefIn(m, c)
  BY <1>1, <1>2, <1>3 DEF RefIn, Held
<1> QED
  BY <1>4, <1>5, <1>6, EvenTurn

(* The end of a batch: nothing of it waited any more.                      *)
LEMMA DoneTurn ==
  ASSUME LoopsOK, NEW l \in Loops, BatchDone(l)
  PROVE  Turn({}, {})
<1>1. /\ ran[l] = Len(batch[l]) /\ queue[l] \in Seq(FunctorType)
      /\ batch[l] \in Seq(FunctorType)
      /\ batch' = [batch EXCEPT ![l] = <<>>] /\ ran' = [ran EXCEPT ![l] = 0]
      /\ queue' = queue
  BY DEF BatchDone, LoopsOK
<1>2. batch'[l] = <<>> /\ ran'[l] = 0
  BY <1>1 DEF LoopsOK
<1>3. \A m \in Loops \ {l} : batch'[m] = batch[m] /\ ran'[m] = ran[m]
  BY <1>1 DEF LoopsOK
<1>4. TypesOfLoops
  BY <1>1, <1>2, <1>3 DEF LoopsOK, TypesOfLoops
<1>5. ASSUME NEW m \in Loops, NEW op \in {"established", "remove", "destroy"},
             NEW c \in Clients
      PROVE  /\ Waits(m, op, c)' <=> Waits(m, op, c)
             /\ Once(m, op, c) => Once(m, op, c)'
  <2>1. CASE m = l
    <3> DEFINE g == Functor(op, c)
    <3>1. /\ HasAt(<<>>, 0, queue[l], g) <=> HasAt(batch[l], Len(batch[l]), queue[l], g)
          /\ OnceAt(batch[l], Len(batch[l]), queue[l], g) => OnceAt(<<>>, 0, queue[l], g)
      BY <1>1, AtDone
    <3> QED
      BY <1>1, <1>2, <2>1, <3>1 DEF Waits, Once
  <2>2. CASE m # l
    BY <1>1, <1>3, <2>2 DEF Waits, Once
  <2> QED
    BY <2>1, <2>2
<1>6. \A m \in Loops, c \in Clients : RefIn(m, c)' => RefIn(m, c)
  BY <1>1, <1>2, <1>3 DEF RefIn, Held
<1> QED
  BY <1>4, <1>5, <1>6, EvenTurn

------------------------------------------------------------------------------
(* The stage of a connection, where the invariant holds: only a destroyed  *)
(* one may be without references.                                          *)
Stage(c) ==
  IF conn[c] = None THEN "none"
  ELSE IF conn[c].state = "kConnecting" THEN "accepted"
  ELSE IF conn[c].state = "kConnected" THEN IF InMap(c) THEN "open" ELSE "closing"
  ELSE IF Alive(c) THEN "destroyed" ELSE "gone"

(* The stage of a life is told by the connection's state and the map.      *)
LEMMA StageIs == Inv => \A c \in Clients : StageOf(c) = Stage(c)
<1> SUFFICES ASSUME Inv, NEW c \in Clients PROVE StageOf(c) = Stage(c)
  OBVIOUS
<1>1. conn[c] # None => conn[c].state \in {"kConnecting", "kConnected", "kDisconnected"}
  BY DEF Inv, NamesOK, Connection
<1>2. conn[c] # None /\ conn[c].state # "kDisconnected" => Alive(c)
  BY ConnectedIsAlive DEF Inv
<1> QED
  BY <1>1, <1>2 DEF StageOf, Stage, InMap

Move(c) == Stage(c)' = Stage(c) \/ <<Stage(c), Stage(c)'>> \in Lives!Moves

(* A step that leaves a connection where it was may drop the last          *)
(* reference to it.                                                        *)
LEMMA StageStays ==
  ASSUME NEW c \in Clients, conn'[c] = None <=> conn[c] = None,
         conn[c] # None =>
           /\ conn'[c].state = conn[c].state
           /\ conn[c].state # "kDisconnected" => (InMap(c)' <=> InMap(c))
           /\ Alive(c)' => Alive(c)
  PROVE  Move(c)
  BY DEF Move, Stage, Lives!Moves

(* References come with functors, and their connections had some before.   *)
LEMMA AliveBefore ==
  ASSUME NEW Run, NEW New, Turn(Run, New), NEW c \in Clients,
         conn[c] # None, InMap(c)' => InMap(c), Alive(c)',
         \A x \in New : x[2].conn = c => Alive(c)
  PROVE  Alive(c)
<1>1. InMap(c)' \/ \E l \in Loops : RefIn(l, c)'
  BY DEF Alive, InMap, RefIn
<1>2. InMap(c) \/ (\E l \in Loops : RefIn(l, c)) => Alive(c)
  BY DEF Alive, InMap, RefIn
<1>3. ASSUME NEW l \in Loops, RefIn(l, c)' PROVE Alive(c)
  <2>1. RefIn(l, c) \/ \E x \in New : x[1] = l /\ x[2].conn = c
    BY <1>3 DEF Turn
  <2> QED
    BY <1>2, <2>1
<1> QED
  BY <1>1, <1>2, <1>3

(* Descriptors stay apart when none is opened and none lives again.        *)
LEMMA ApartKeeps ==
  ASSUME FdsApart,
         \A c \in Clients : (conn'[c] = None <=> conn[c] = None)
                              /\ (conn[c] # None => conn'[c].fd = conn[c].fd),
         \A c \in Clients : conn[c] # None /\ Alive(c)' => Alive(c)
  PROVE  FdsApart'
<1>1. \A c \in Clients : Alive(c)' => Alive(c) /\ conn'[c].fd = conn[c].fd
  BY DEF Alive
<1> QED
  BY <1>1 DEF FdsApart

(* The connections keep what they were made with ...                       *)
SameObjects ==
  /\ conn' \in [Clients -> Connection \cup {None}]
  /\ \A c \in Clients :
       /\ conn'[c] = None <=> conn[c] = None
       /\ conn[c] # None => /\ conn'[c].name = conn[c].name
                            /\ conn'[c].loop = conn[c].loop
                            /\ conn'[c].fd = conn[c].fd

(* ... and their states: at most their interest in input changes.          *)
SameConns ==
  SameObjects /\ \A c \in Clients : conn[c] # None => conn'[c].state = conn[c].state

PoolKept == UNCHANGED <<poolVars, acceptVars>>

BusyOK ==
  /\ busy' \in [Loops -> Clients \cup {None}]
  /\ \A l \in Loops : busy'[l] # None =>
       /\ batch'[l] = <<>>
       /\ conn'[busy'[l]] # None /\ conn'[busy'[l]].state = "kConnected"
       /\ conn'[busy'[l]].loop = l

Good == Inv' /\ \A c \in Clients : Move(c)

(* The parts of the invariant that a step of the loops leaves alone.       *)
LEMMA PoolPartKeeps ==
  ASSUME Inv, PoolKept, SameObjects, connects' \subseteq connects
  PROVE  PoolOK' /\ BacklogOK' /\ NamesOK'
<1>1. PoolOK'
  BY DEF Inv, PoolOK, PoolKept, poolVars, acceptVars
<1>2. BacklogOK'
  BY DEF Inv, BacklogOK, PoolKept, poolVars, acceptVars, SameObjects
<1>3. NamesOK'
  <2>1. started' = started /\ loops' = loops /\ nextConnId' = nextConnId
    BY DEF PoolKept, poolVars, acceptVars
  <2>2. \A e \in connects : e.conn \in Clients
    BY DEF Inv, NamesOK
  <2> QED
    BY <2>1, <2>2 DEF Inv, NamesOK, SameObjects
<1> QED
  BY <1>1, <1>2, <1>3

(* A step that runs and queues at most removals, and finds nothing to      *)
(* remove.                                                                 *)
LEMMA QuietStep ==
  ASSUME Inv, PoolKept, SameConns, connects' = connects, poller' = poller,
         BusyOK, EndedOK', NEW Run, NEW New, Turn(Run, New),
         \A x \in Run : x[2].op = "remove",
         \A x \in New : /\ x[2].op = "remove" /\ x[2].conn \in Clients
                        /\ conn[x[2].conn] # None
                        /\ conn[x[2].conn].state # "kConnecting"
                        /\ Alive(x[2].conn)
  PROVE  Good
<1>1. \A c \in Clients : InMap(c)' <=> InMap(c)
  BY DEF InMap
<1>2. ASSUME NEW c \in Clients, conn[c] # None, Alive(c)' PROVE Alive(c)
  BY <1>1, <1>2, AliveBefore
<1>3. FdsApart'
  BY <1>2, ApartKeeps DEF SameConns, SameObjects, Inv
<1>4. ASSUME NEW l \in Loops, NEW c \in Clients, NEW op \in {"established", "destroy"}
      PROVE  /\ Waits(l, op, c)' <=> Waits(l, op, c)
             /\ Once(l, op, c)'
  <2>1. Functor(op, c).op # "remove"
    BY FunctorsDiffer
  <2>2. <<l, Functor(op, c)>>[2].op # "remove"
    BY <2>1
  <2>3. <<l, Functor(op, c)>> \notin Run /\ <<l, Functor(op, c)>> \notin New
    BY <2>2
  <2>4. Once(l, op, c)
    BY DEF Inv, WaitingOK
  <2> QED
    BY <2>3, <2>4 DEF Turn
<1>5. ASSUME NEW l \in Loops, NEW c \in Clients, Waits(l, "remove", c)'
      PROVE  conn[c] # None /\ conn[c].state # "kConnecting"
  <2>1. CASE Waits(l, "remove", c)
    BY <2>1 DEF Inv, WaitingOK
  <2>2. CASE <<l, Functor("remove", c)>> \in New
    <3>1. <<l, Functor("remove", c)>>[2].conn = c
      BY FunctorsDiffer
    <3> QED
      BY <2>2, <3>1
  <2> QED
    BY <1>5, <2>1, <2>2 DEF Turn
<1>6. WaitingOK'
  BY <1>1, <1>4, <1>5 DEF Inv, WaitingOK, SameConns, SameObjects
<1>7. StateOK'
  <2>1. \A c \in Clients : conn[c] # None => conn[c].loop \in Loops
    BY DEF Inv, NamesOK, Connection
  <2>2. poller \in [Loops -> [Fds -> Clients \cup {None}]]
    BY DEF Inv, StateOK
  <2>3. ASSUME NEW l \in Loops, NEW f \in Fds, poller'[l][f] # None
        PROVE  LET c == poller'[l][f]
               IN  conn'[c] # None /\ conn'[c].state = "kConnected" /\ conn'[c].loop = l
                     /\ conn'[c].fd = f
    BY <2>2, <2>3 DEF Inv, StateOK, SameConns, SameObjects
  <2>4. ASSUME NEW c \in Clients, conn'[c] # None
        PROVE  /\ conn'[c].state = "kConnecting" => InMap(c)'
               /\ conn'[c].state = "kConnected" =>
                    /\ poller'[conn'[c].loop][conn'[c].fd] = c
                    /\ InMap(c)' \/ Waits(conn[c].loop, "destroy", c)'
               /\ conn'[c].state = "kDisconnected" => ~InMap(c)'
    BY <1>1, <1>4, <2>1, <2>4 DEF Inv, StateOK, SameConns, SameObjects
  <2> QED
    BY <2>2, <2>3, <2>4 DEF StateOK, BusyOK, SameConns, SameObjects, Waits
<1>8. LoopsOK'
  BY DEF Turn, TypesOfLoops, LoopsOK, BusyOK
<1>9. \A c \in Clients : Move(c)
  BY <1>1, <1>2, StageStays DEF SameConns, SameObjects
<1> QED
  BY <1>3, <1>6, <1>7, <1>8, <1>9, PoolPartKeeps DEF Good, Inv, SameConns

(* A record keeps its type when the interest or the state changes.         *)
LEMMA ConnectionKeeps ==
  ASSUME NEW r \in Connection
  PROVE  /\ \A b \in BOOLEAN : [r EXCEPT !.reading = b] \in Connection
         /\ \A s \in {"kConnecting", "kConnected", "kDisconnected"} :
              [r EXCEPT !.state = s] \in Connection
<1>1. ASSUME NEW b \in BOOLEAN PROVE [r EXCEPT !.reading = b] \in Connection
  BY DEF Connection
<1>2. ASSUME NEW s \in {"kConnecting", "kConnected", "kDisconnected"}
      PROVE  [r EXCEPT !.state = s] \in Connection
  BY DEF Connection
<1> QED
  BY <1>1, <1>2

(* The base loop finds a connection in the map and removes it.             *)
LEMMA RemoveStep ==
  ASSUME Inv, PoolKept, SameConns, poller' = poller, BusyOK, EndedOK',
         NEW c \in Clients, conn[c] # None, conn[c].state = "kConnected", InMap(c),
         connects' = {e \in connects : e.name # conn[c].name},
         NEW Run, \A x \in Run : x[2].op = "remove",
         Turn(Run, {<<conn[c].loop, Functor("destroy", c)>>})
  PROVE  Good
<1> DEFINE k == conn[c].loop
           New == {<<k, Functor("destroy", c)>>}
<1>1. k \in Loops
  BY DEF Inv, NamesOK, Connection
<1>2. \A d \in Clients : InMap(d)' <=> InMap(d) /\ d # c
  BY DEF Inv, NamesOK, InMap
<1>3. Alive(c)
  BY DEF Alive, InMap
<1>4. \A x \in New : x[2].conn = c
  <2>1. <<k, Functor("destroy", c)>>[2] = Functor("destroy", c)
    OBVIOUS
  <2> QED
    BY <2>1, FunctorsDiffer
<1>5. ASSUME NEW d \in Clients, conn[d] # None, Alive(d)' PROVE Alive(d)
  BY <1>2, <1>3, <1>4, <1>5, AliveBefore
<1>6. FdsApart'
  BY <1>5, ApartKeeps DEF SameConns, SameObjects, Inv
<1>7. ASSUME NEW l \in Loops, NEW op \in {"established", "remove", "destroy"},
             NEW d \in Clients
      PROVE  <<l, Functor(op, d)>> \in New <=> l = k /\ op = "destroy" /\ d = c
  <2>1. Functor(op, d) = Functor("destroy", c) <=> op = "destroy" /\ d = c
    BY FunctorsDiffer
  <2> QED
    BY <2>1
<1>8. ASSUME NEW l \in Loops, NEW op \in {"established", "destroy"}, NEW d \in Clients
      PROVE  /\ Waits(l, op, d)'
                  <=> Waits(l, op, d) \/ (l = k /\ op = "destroy" /\ d = c)
             /\ Once(l, op, d)'
  <2>1. <<l, Functor(op, d)>> \notin Run
    <3>1. <<l, Functor(op, d)>>[2].op = op
      BY FunctorsDiffer
    <3> QED
      BY <3>1
  <2>2. Once(l, op, d)
    BY DEF Inv, WaitingOK
  <2>3. op = "destroy" /\ d = c => ~Waits(l, op, d)
    BY DEF Inv, WaitingOK
  <2> QED
    BY <1>7, <2>1, <2>2, <2>3 DEF Turn
<1>9. ASSUME NEW l \in Loops, NEW d \in Clients, Waits(l, "remove", d)'
      PROVE  conn[d] # None /\ conn[d].state # "kConnecting"
  <2>1. Waits(l, "remove", d)
    BY <1>7, <1>9 DEF Turn
  <2> QED
    BY <2>1 DEF Inv, WaitingOK
<1>10. WaitingOK'
  <2>1. ASSUME NEW l \in Loops, NEW d \in Clients
        PROVE  /\ Waits(l, "established", d)' =>
                    conn'[d] # None /\ conn'[d].loop = l /\ conn'[d].state = "kConnecting"
               /\ Waits(l, "destroy", d)' =>
                    conn'[d] # None /\ conn'[d].loop = l /\ conn'[d].state = "kConnected"
                      /\ ~InMap(d)'
    BY <1>2, <1>8 DEF Inv, WaitingOK, SameConns, SameObjects
  <2>2. ASSUME NEW l \in Loops, NEW d \in Clients, Waits(l, "remove", d)'
        PROVE  conn'[d] # None /\ conn'[d].state # "kConnecting"
    BY <1>9, <2>2 DEF SameConns, SameObjects
  <2> QED
    BY <1>8, <2>1, <2>2 DEF WaitingOK
<1>11. StateOK'
  <2>1. \A d \in Clients : conn[d] # None => conn[d].loop \in Loops
    BY DEF Inv, NamesOK, Connection
  <2>2. poller \in [Loops -> [Fds -> Clients \cup {None}]]
    BY DEF Inv, StateOK
  <2>3. ASSUME NEW l \in Loops, NEW f \in Fds, poller'[l][f] # None
        PROVE  LET d == poller'[l][f]
               IN  conn'[d] # None /\ conn'[d].state = "kConnected" /\ conn'[d].loop = l
                     /\ conn'[d].fd = f
    BY <2>2, <2>3 DEF Inv, StateOK, SameConns, SameObjects
  <2>4. ASSUME NEW d \in Clients, conn'[d] # None
        PROVE  /\ conn'[d].state = "kConnecting" => InMap(d)'
               /\ conn'[d].state = "kConnected" =>
                    /\ poller'[conn'[d].loop][conn'[d].fd] = d
                    /\ InMap(d)' \/ Waits(conn[d].loop, "destroy", d)'
               /\ conn'[d].state = "kDisconnected" => ~InMap(d)'
    BY <1>1, <1>2, <1>8, <2>1, <2>4 DEF Inv, StateOK, SameConns, SameObjects
  <2> QED
    BY <2>2, <2>3, <2>4 DEF StateOK, BusyOK, SameConns, SameObjects, Waits
<1>12. LoopsOK'
  BY DEF Turn, TypesOfLoops, LoopsOK, BusyOK
<1>13. ASSUME NEW d \in Clients PROVE Move(d)
  <2>1. CASE d = c
    BY <1>2, <2>1 DEF Move, Stage, Lives!Moves, SameConns, SameObjects
  <2>2. CASE d # c
    BY <1>2, <1>5, <2>2, StageStays DEF SameConns, SameObjects
  <2> QED
    BY <2>1, <2>2
<1> QED
  BY <1>6, <1>10, <1>11, <1>12, <1>13, PoolPartKeeps DEF Good, Inv, SameConns

(* removeConnectionInLoop, from a callback of the base loop or as its      *)
(* functor.                                                                *)
LEMMA RemoveInLoop ==
  ASSUME Inv, PoolKept, SameConns, poller' = poller, BusyOK, EndedOK',
         NEW c \in Clients, conn[c] # None, conn[c].state # "kConnecting",
         RemoveConnectionInLoop(c), NEW l \in Loops,
         UNCHANGED <<batch, ran>> \/ Takes(l, Functor("remove", c))
  PROVE  Good
<1>2. LoopsOK /\ conn[c].loop \in Loops
  BY DEF Inv, NamesOK, Connection
<1>3. \A x \in {<<l, Functor("remove", c)>>} : x[2].op = "remove"
  <2>1. <<l, Functor("remove", c)>>[2] = Functor("remove", c)
    OBVIOUS
  <2> QED
    BY <2>1, FunctorsDiffer
<1>4. CASE \E e \in connects : e.name = conn[c].name
  <2>1. /\ connects' = {e \in connects : e.name # conn[c].name}
        /\ queue' = [queue EXCEPT ![conn[c].loop] = Append(@, Functor("destroy", c))]
    BY <1>4 DEF RemoveConnectionInLoop
  <2>2. InMap(c)
    BY <1>4 DEF InMap, Inv, NamesOK
  <2>3. conn[c].state = "kConnected"
    BY <2>2 DEF Inv, NamesOK, StateOK, Connection
  <2>4. Functor("destroy", c) \in FunctorType
    BY FunctorTypes
  <2>5. Functor("destroy", c) # Functor("remove", c)
    BY FunctorsDiffer
  <2>6. CASE UNCHANGED <<batch, ran>>
    <3>1. Turn({}, {<<conn[c].loop, Functor("destroy", c)>>})
      BY <1>2, <2>1, <2>4, <2>6, QueueTurn
    <3>2. \A x \in {} : x[2].op = "remove"
      OBVIOUS
    <3> QED
      BY <2>1, <2>2, <2>3, <3>1, <3>2, RemoveStep
  <2>7. CASE Takes(l, Functor("remove", c))
    <3>1. Turn({<<l, Functor("remove", c)>>}, {<<conn[c].loop, Functor("destroy", c)>>})
      BY <1>2, <2>1, <2>4, <2>5, <2>7, TakeQueueTurn
    <3> QED
      BY <1>3, <2>1, <2>2, <2>3, <3>1, RemoveStep
  <2> QED
    BY <2>6, <2>7
<1>5. CASE ~ \E e \in connects : e.name = conn[c].name
  <2>1. connects' = connects /\ queue' = queue
    BY <1>5 DEF RemoveConnectionInLoop
  <2>2. CASE UNCHANGED <<batch, ran>>
    <3>1. Turn({}, {})
      BY <1>2, <2>1, <2>2, NoTurn
    <3> QED
      BY <2>1, <3>1, QuietStep
  <2>3. CASE Takes(l, Functor("remove", c))
    <3>1. Turn({<<l, Functor("remove", c)>>}, {})
      BY <1>2, <2>1, <2>3, TakeTurn
    <3> QED
      BY <1>3, <2>1, <3>1, QuietStep
  <2> QED
    BY <2>2, <2>3
<1> QED
  BY <1>4, <1>5

(* removeConnection.                                                       *)
LEMMA RemoveFromLoop ==
  ASSUME Inv, PoolKept, SameConns, poller' = poller, BusyOK, EndedOK',
         NEW c \in Clients, conn[c] # None, conn[c].state = "kConnected",
         RemoveConnection(c), UNCHANGED <<batch, ran>>
  PROVE  Good
<1>1. CASE conn[c].loop = 0
  <2>1. RemoveConnectionInLoop(c) /\ conn[c].loop \in Loops
    BY <1>1 DEF RemoveConnection, Inv, NamesOK, Connection
  <2> QED
    BY <2>1, RemoveInLoop
<1>2. CASE conn[c].loop # 0
  <2> DEFINE f == Functor("remove", c)
  <2>1. queue' = [queue EXCEPT ![0] = Append(@, f)] /\ connects' = connects
    BY <1>2 DEF RemoveConnection
  <2>2. 0 \in Loops /\ f \in FunctorType
    BY ThreadsAssumption, FunctorTypes DEF Loops
  <2>3. Turn({}, {<<0, f>>})
    BY <2>1, <2>2, QueueTurn DEF Inv
  <2>4. Alive(c)
    BY ConnectedIsAlive DEF Inv
  <2>5. \A x \in {<<0, f>>} : x[2].op = "remove" /\ x[2].conn = c
    <3>1. <<0, f>>[2] = f
      OBVIOUS
    <3> QED
      BY <3>1, FunctorsDiffer
  <2> QED
    BY <2>1, <2>3, <2>4, <2>5, QuietStep
<1> QED
  BY <1>1, <1>2

(* handleClose of a connected one ends nothing.                            *)
LEMMA ClosedIs ==
  ASSUME Inv, NEW c \in Clients, conn[c] # None, conn[c].state = "kConnected",
         HandleClose(c)
  PROVE  SameConns /\ RemoveConnection(c) /\ EndedOK'
<1>1. /\ conn' = [conn EXCEPT ![c].reading = FALSE]
      /\ RemoveConnection(c) /\ ended' = ended
  BY DEF HandleClose
<1>2. conn \in [Clients -> Connection \cup {None}] /\ conn[c] \in Connection
  BY DEF Inv, NamesOK
<1>3. conn'[c] = [conn[c] EXCEPT !.reading = FALSE]
  BY <1>1, <1>2
<1>4. conn'[c] \in Connection
  BY <1>2, <1>3, ConnectionKeeps
<1>5. conn' \in [Clients -> Connection \cup {None}]
  BY <1>1, <1>2, <1>3, <1>4
<1>6. conn'[c] # None
  BY <1>4, NoneAssumption
<1>7. SameConns
  BY <1>1, <1>2, <1>3, <1>5, <1>6 DEF SameConns, SameObjects, Connection
<1>8. EndedOK'
  BY <1>1 DEF Inv, EndedOK
<1> QED
  BY <1>1, <1>7, <1>8

(* Where a loop is inside handleEvent after such a step.                   *)
LEMMA BusyIs ==
  ASSUME SameConns, batch' = batch, busy' \in [Loops -> Clients \cup {None}],
         \A m \in Loops : busy'[m] # None =>
           /\ batch[m] = <<>> /\ busy'[m] \in Clients /\ conn[busy'[m]] # None
           /\ conn[busy'[m]].state = "kConnected" /\ conn[busy'[m]].loop = m
  PROVE  BusyOK
<1>1. ASSUME NEW m \in Loops, busy'[m] # None
      PROVE  /\ batch'[m] = <<>>
             /\ conn'[busy'[m]] # None /\ conn'[busy'[m]].state = "kConnected"
             /\ conn'[busy'[m]].loop = m
  BY <1>1 DEF SameConns, SameObjects
<1> QED
  BY <1>1 DEF BusyOK

(* The peer closes a connection, and its loop handles it.                  *)
LEMMA PeerClosesStep ==
  ASSUME Inv, NEW c \in Clients, conn[c] # None, NEW twice \in BOOLEAN,
         PeerCloses(c, twice)
  PROVE  Good
<1> DEFINE l == conn[c].loop
<1>1. /\ conn[c] \in Connection /\ l \in Loops
      /\ Polling(l) /\ poller[l][conn[c].fd] = c
      /\ HandleClose(c)
      /\ busy' = [busy EXCEPT ![l] = IF twice THEN c ELSE None]
      /\ UNCHANGED <<batch, ran>> /\ poller' = poller
      /\ PoolKept
  BY DEF PeerCloses, Inv, NamesOK, Connection, PoolKept
<1>2. conn[c].state = "kConnected"
  <2>1. poller[l][conn[c].fd] # None /\ conn[c].fd \in Fds
    BY <1>1, NoneAssumption DEF Connection
  <2> QED
    BY <1>1, <2>1 DEF Inv, StateOK
<1>3. SameConns /\ RemoveConnection(c) /\ EndedOK'
  BY <1>1, <1>2, ClosedIs
<1>4. BusyOK
  <2>1. busy' \in [Loops -> Clients \cup {None}] /\ batch[l] = <<>>
    BY <1>1 DEF Inv, LoopsOK, Polling
  <2>2. ASSUME NEW m \in Loops, busy'[m] # None
        PROVE  /\ batch[m] = <<>> /\ busy'[m] \in Clients /\ conn[busy'[m]] # None
               /\ conn[busy'[m]].state = "kConnected" /\ conn[busy'[m]].loop = m
    BY <1>1, <1>2, <2>1, <2>2 DEF Inv, LoopsOK, StateOK
  <2> QED
    BY <1>1, <1>3, <2>1, <2>2, BusyIs
<1> QED
  BY <1>1, <1>2, <1>3, <1>4, RemoveFromLoop

(* The second handleClose of the same event.                               *)
LEMMA CloseAgainStep ==
  ASSUME Inv, NEW l \in Loops, CloseAgain(l)
  PROVE  Good
<1> DEFINE c == busy[l]
<1>1. /\ c \in Clients /\ conn[c] # None /\ conn[c].state = "kConnected"
      /\ HandleClose(c)
      /\ busy' = [busy EXCEPT ![l] = None]
      /\ UNCHANGED <<batch, ran>> /\ poller' = poller
      /\ PoolKept
  BY DEF CloseAgain, Inv, LoopsOK, StateOK, PoolKept
<1>2. SameConns /\ RemoveConnection(c) /\ EndedOK'
  <2> HIDE DEF c
  <2> QED
    BY <1>1, ClosedIs
<1>3. BusyOK
  <2>1. busy' \in [Loops -> Clients \cup {None}]
    BY <1>1 DEF Inv, LoopsOK
  <2>2. ASSUME NEW m \in Loops, busy'[m] # None
        PROVE  /\ batch[m] = <<>> /\ busy'[m] \in Clients /\ conn[busy'[m]] # None
               /\ conn[busy'[m]].state = "kConnected" /\ conn[busy'[m]].loop = m
    BY <1>1, <2>2 DEF Inv, LoopsOK, StateOK
  <2> QED
    BY <1>1, <1>2, <2>1, <2>2, BusyIs
<1> HIDE DEF c
<1> QED
  BY <1>1, <1>2, <1>3, RemoveFromLoop

(* Take, in the terms of Takes.                                            *)
LEMMA TakeIs ==
  ASSUME Inv, NEW l \in Loops, NEW op \in {"established", "remove", "destroy"},
         NEW c \in Clients, Take(l, op, c)
  PROVE  /\ Takes(l, Functor(op, c)) /\ Waits(l, op, c)
         /\ busy[l] = None /\ batch[l] # <<>> /\ PoolKept /\ busy' = busy
<1>1. /\ batch[l] \in Seq(FunctorType) /\ queue[l] \in Seq(FunctorType)
      /\ ran[l] \in Nat
  BY DEF Inv, LoopsOK
<1>2. Takes(l, Functor(op, c)) /\ PoolKept /\ busy' = busy
  BY DEF Take, Takes, PoolKept
<1>3. HasAt(batch[l], ran[l], queue[l], batch[l][ran[l] + 1])
  BY <1>1, AtTaken DEF Take
<1>4. batch[l] # <<>>
  BY <1>1 DEF Take
<1>5. busy[l] = None
  BY <1>4 DEF Inv, LoopsOK
<1> QED
  BY <1>2, <1>3, <1>4, <1>5 DEF Waits, Take

(* A loop that runs a functor is not inside a handleEvent.                 *)
LEMMA BusyKeeps ==
  ASSUME Inv, UNCHANGED <<busy, batch>>,
         \A l \in Loops : busy[l] # None =>
           /\ conn'[busy[l]] # None /\ conn'[busy[l]].state = "kConnected"
           /\ conn'[busy[l]].loop = l
  PROVE  BusyOK
  BY DEF Inv, LoopsOK, BusyOK

(* The base loop runs the removal another loop queued for it.              *)
LEMMA RunRemoveStep ==
  ASSUME Inv, NEW l \in Loops, NEW c \in Clients, RunRemove(l, c)
  PROVE  Good
<1>1. /\ Takes(l, Functor("remove", c)) /\ Waits(l, "remove", c)
      /\ PoolKept /\ busy' = busy
  BY TakeIs DEF RunRemove
<1>2. UNCHANGED <<conn, poller, ended>> /\ RemoveConnectionInLoop(c)
  BY DEF RunRemove
<1>3. conn[c] # None /\ conn[c].state # "kConnecting"
  BY <1>1 DEF Inv, WaitingOK
<1>4. SameConns
  BY <1>2 DEF SameConns, SameObjects, Inv, NamesOK
<1>5. BusyOK
  BY <1>1, <1>2, BusyKeeps DEF Takes, Inv, StateOK
<1>6. EndedOK'
  BY <1>2 DEF Inv, EndedOK
<1> QED
  BY <1>1, <1>2, <1>3, <1>4, <1>5, <1>6, RemoveInLoop

(* A loop begins or ends a batch.                                          *)
LEMMA BatchStep ==
  ASSUME Inv, NEW l \in Loops, Swap(l) \/ BatchDone(l)
  PROVE  Good
<1>1. /\ PoolKept /\ UNCHANGED <<connects, conn, poller, busy, ended>>
      /\ \A m \in Loops : busy[m] # None => batch'[m] = <<>>
  BY DEF Swap, BatchDone, PoolKept, Polling, Inv, LoopsOK
<1>2. Turn({}, {})
  BY SwapTurn, DoneTurn DEF Inv
<1>3. SameConns
  BY <1>1 DEF SameConns, SameObjects, Inv, NamesOK
<1>4. BusyOK
  BY <1>1 DEF BusyOK, Inv, LoopsOK, StateOK
<1>5. EndedOK'
  BY <1>1 DEF Inv, EndedOK
<1> QED
  BY <1>1, <1>2, <1>3, <1>4, <1>5, QuietStep

(* accept with an error nobody expects.                                    *)
LEMMA FatalStep ==
  ASSUME Inv, AcceptIsFatal
  PROVE  Good
<1>1. /\ PoolKept /\ UNCHANGED <<connects, conn, poller, busy, queue, batch, ran>>
      /\ ended' = "exit"
  BY DEF AcceptIsFatal, PoolKept, loopVars
<1>2. Turn({}, {})
  BY <1>1, NoTurn DEF Inv
<1>3. SameConns
  BY <1>1 DEF SameConns, SameObjects, Inv, NamesOK
<1>4. BusyOK
  BY <1>1 DEF BusyOK, Inv, LoopsOK, StateOK
<1>5. EndedOK'
  BY <1>1 DEF EndedOK
<1> QED
  BY <1>1, <1>2, <1>3, <1>4, <1>5, QuietStep

------------------------------------------------------------------------------
(* The functor of a loop sets a connection up, or takes it down, and no    *)
(* other connection moves.                                                 *)
LEMMA OneMoves ==
  ASSUME Inv, PoolKept, SameObjects, connects' = connects, EndedOK', BusyOK,
         NEW c \in Clients, conn[c] # None, Move(c),
         \A d \in Clients \ {c} : conn[d] # None => conn'[d].state = conn[d].state,
         NEW Run, Turn(Run, {}), WaitingOK', StateOK'
  PROVE  Good
<1>1. \A d \in Clients : InMap(d)' <=> InMap(d)
  BY DEF InMap
<1>2. ASSUME NEW d \in Clients, conn[d] # None, Alive(d)' PROVE Alive(d)
  BY <1>1, <1>2, AliveBefore
<1>3. FdsApart'
  BY <1>2, ApartKeeps DEF SameObjects, Inv
<1>4. LoopsOK'
  BY DEF Turn, TypesOfLoops, LoopsOK, BusyOK
<1>5. ASSUME NEW d \in Clients \ {c} PROVE Move(d)
  BY <1>1, <1>2, StageStays DEF SameObjects
<1> QED
  BY <1>3, <1>4, <1>5, PoolPartKeeps DEF Good, Inv

(* Its loop sets a connection up: the slot of its descriptor in the poller *)
(* is free.                                                                *)
LEMMA RunEstablishedStep ==
  ASSUME Inv, NEW l \in Loops, NEW c \in Clients, RunEstablished(l, c)
  PROVE  Good
<1> DEFINE fd == conn[c].fd
           Run == {<<l, Functor("established", c)>>}
<1>1. /\ Takes(l, Functor("established", c)) /\ Waits(l, "established", c)
      /\ PoolKept /\ busy' = busy /\ batch' = batch
      /\ connects' = connects /\ queue' = queue /\ Establish(c, conn[c])
  BY TakeIs DEF RunEstablished, Takes
<1>2. conn[c] # None /\ conn[c].loop = l /\ conn[c].state = "kConnecting"
  BY <1>1 DEF Inv, WaitingOK
<1>3. /\ conn \in [Clients -> Connection \cup {None}] /\ conn[c] \in Connection
      /\ fd \in Fds
      /\ poller \in [Loops -> [Fds -> Clients \cup {None}]]
  BY <1>2 DEF Inv, NamesOK, StateOK, Connection
<1>4. InMap(c) /\ Alive(c)
  BY <1>2 DEF Inv, StateOK, Alive, InMap
<1>5. poller[l][fd] = None
  <2> SUFFICES ASSUME poller[l][fd] # None PROVE FALSE
    OBVIOUS
  <2> DEFINE d == poller[l][fd]
  <2>1. d \in Clients /\ conn[d] # None /\ conn[d].state = "kConnected" /\ conn[d].fd = fd
    BY <1>3 DEF Inv, StateOK
  <2>2. Alive(d)
    BY <2>1, ConnectedIsAlive DEF Inv
  <2>3. d # c
    BY <1>2, <2>1
  <2> QED
    BY <1>4, <2>1, <2>2, <2>3 DEF Inv, FdsApart
<1>6. /\ ended' = ended
      /\ poller' = [poller EXCEPT ![l][fd] = c]
      /\ conn' = [conn EXCEPT ![c] = [conn[c] EXCEPT !.state = "kConnected"]]
  BY <1>1, <1>2, <1>5 DEF Establish
<1>7. /\ conn'[c] \in Connection /\ conn'[c] # None
      /\ conn'[c].name = conn[c].name /\ conn'[c].loop = conn[c].loop
      /\ conn'[c].fd = conn[c].fd /\ conn'[c].state = "kConnected"
      /\ \A d \in Clients \ {c} : conn'[d] = conn[d]
  <2>1. conn'[c] = [conn[c] EXCEPT !.state = "kConnected"]
    BY <1>3, <1>6
  <2>2. conn'[c] \in Connection
    BY <1>3, <2>1, ConnectionKeeps
  <2>3. conn'[c] # None
    BY <2>2, NoneAssumption
  <2> QED
    BY <1>3, <1>6, <2>1, <2>2, <2>3 DEF Connection
<1>8. SameObjects
  BY <1>2, <1>3, <1>6, <1>7 DEF SameObjects
<1>9. EndedOK'
  BY <1>6 DEF Inv, EndedOK
<1>10. BusyOK
  <2>1. ASSUME NEW m \in Loops, busy[m] # None
        PROVE  conn'[busy[m]] # None /\ conn'[busy[m]].state = "kConnected"
                 /\ conn'[busy[m]].loop = m
    <3>1. busy[m] \in Clients /\ conn[busy[m]] # None /\ conn[busy[m]].loop = m
            /\ conn[busy[m]].state = "kConnected"
      BY <2>1 DEF Inv, LoopsOK, StateOK
    <3> QED
      BY <1>2, <1>7, <3>1
  <2> QED
    BY <1>1, <2>1, BusyKeeps
<1>11. Turn(Run, {})
  BY <1>1, TakeTurn DEF Inv
<1>12. ASSUME NEW m \in Loops, NEW op \in {"established", "remove", "destroy"},
              NEW d \in Clients
       PROVE  /\ Waits(m, op, d)' => Waits(m, op, d)
              /\ Waits(m, op, d) /\ op # "established" => Waits(m, op, d)'
              /\ ~Waits(m, "established", c)'
              /\ op # "remove" => Once(m, op, d)'
  <2>1. <<m, Functor(op, d)>> \in Run => op = "established"
    BY FunctorsDiffer
  <2>2. Once(m, "established", d) /\ Once(m, "destroy", d) /\ Once(m, "established", c)
    BY DEF Inv, WaitingOK
  <2>3. ~Waits(m, "established", c)'
    <3>1. CASE m = l
      BY <1>11, <2>2, <3>1 DEF Turn
    <3>2. CASE m # l
      BY <1>2, <1>11, <3>2 DEF Turn, Inv, WaitingOK
    <3> QED
      BY <3>1, <3>2
  <2> QED
    BY <1>11, <2>1, <2>2, <2>3 DEF Turn
<1>13. \A d \in Clients : InMap(d)' <=> InMap(d)
  BY <1>1 DEF InMap
<1>14. WaitingOK'
  <2>1. ASSUME NEW m \in Loops, NEW d \in Clients
        PROVE  /\ Waits(m, "established", d)' =>
                    conn'[d] # None /\ conn'[d].loop = m /\ conn'[d].state = "kConnecting"
               /\ Waits(m, "destroy", d)' =>
                    conn'[d] # None /\ conn'[d].loop = m /\ conn'[d].state = "kConnected"
                      /\ ~InMap(d)'
               /\ Waits(m, "remove", d)' => conn'[d] # None /\ conn'[d].state # "kConnecting"
    BY <1>2, <1>7, <1>12, <1>13 DEF Inv, WaitingOK
  <2> QED
    BY <1>12, <2>1 DEF WaitingOK
<1>15. StateOK'
  <2>1. /\ poller' \in [Loops -> [Fds -> Clients \cup {None}]] /\ poller'[l][fd] = c
        /\ \A m \in Loops, f \in Fds : m # l \/ f # fd => poller'[m][f] = poller[m][f]
    BY <1>3, <1>6
  <2>2. ASSUME NEW d \in Clients, conn'[d] # None
        PROVE  /\ conn'[d].state = "kConnecting" => InMap(d)'
               /\ conn'[d].state = "kConnected" =>
                    /\ poller'[conn'[d].loop][conn'[d].fd] = d
                    /\ InMap(d)' \/ Waits(conn[d].loop, "destroy", d)'
               /\ conn'[d].state = "kDisconnected" => ~InMap(d)'
    <3>1. CASE d = c
      BY <1>2, <1>4, <1>7, <1>13, <2>1, <3>1
    <3>2. CASE d # c
      <4>1. conn[d] # None /\ conn'[d] = conn[d] /\ conn[d] \in Connection
        BY <1>3, <1>7, <2>2, <3>2
      <4>2. conn[d].loop \in Loops /\ conn[d].fd \in Fds
        BY <4>1 DEF Connection
      <4>3. d # None
        BY NoneAssumption
      <4>4. conn[d].state = "kConnected" => poller'[conn[d].loop][conn[d].fd] = d
        <5>1. conn[d].state = "kConnected" => poller[conn[d].loop][conn[d].fd] = d
          BY <4>1 DEF Inv, StateOK
        <5> QED
          BY <1>5, <2>1, <4>2, <4>3, <5>1
      <4>5. conn[d].state = "kConnected" =>
              InMap(d)' \/ Waits(conn[d].loop, "destroy", d)'
        BY <1>12, <1>13, <4>1, <4>2 DEF Inv, StateOK
      <4> QED
        BY <1>13, <4>1, <4>4, <4>5 DEF Inv, StateOK
    <3> QED
      BY <3>1, <3>2
  <2>3. ASSUME NEW m \in Loops, NEW f \in Fds, poller'[m][f] # None
        PROVE  LET d == poller'[m][f]
               IN  conn'[d] # None /\ conn'[d].state = "kConnected" /\ conn'[d].loop = m
                     /\ conn'[d].fd = f
    <3>1. CASE m = l /\ f = fd
      BY <1>2, <1>7, <2>1, <3>1
    <3>2. CASE m # l \/ f # fd
      <4> DEFINE d == poller[m][f]
      <4>1. poller'[m][f] = d /\ d \in Clients
        BY <1>3, <2>1, <2>3, <3>2
      <4>2. conn[d] # None /\ conn[d].state = "kConnected" /\ conn[d].loop = m
              /\ conn[d].fd = f
        BY <2>3, <4>1 DEF Inv, StateOK
      <4>3. d # c
        BY <1>2, <4>2
      <4> QED
        BY <1>7, <4>1, <4>2, <4>3
    <3> QED
      BY <3>1, <3>2
  <2> QED
    BY <1>10, <2>1, <2>2, <2>3 DEF StateOK, BusyOK, Waits
<1>16. Move(c)
  BY <1>2, <1>4, <1>7, <1>13 DEF Move, Stage, Lives!Moves
<1> QED
  BY <1>1, <1>2, <1>7, <1>8, <1>9, <1>10, <1>11, <1>14, <1>15, <1>16, OneMoves

(* Its loop takes a connection down: it is connected and in the poller.    *)
LEMMA RunDestroyStep ==
  ASSUME Inv, NEW l \in Loops, NEW c \in Clients, RunDestroy(l, c)
  PROVE  Good
<1> DEFINE fd == conn[c].fd
           Run == {<<l, Functor("destroy", c)>>}
<1>1. /\ Takes(l, Functor("destroy", c)) /\ Waits(l, "destroy", c)
      /\ busy[l] = None /\ PoolKept /\ busy' = busy /\ batch' = batch
      /\ connects' = connects /\ queue' = queue
  BY TakeIs DEF RunDestroy, Takes
<1>2. conn[c] # None /\ conn[c].loop = l /\ conn[c].state = "kConnected" /\ ~InMap(c)
  BY <1>1 DEF Inv, WaitingOK
<1>3. /\ conn \in [Clients -> Connection \cup {None}] /\ conn[c] \in Connection
      /\ fd \in Fds
      /\ poller \in [Loops -> [Fds -> Clients \cup {None}]]
  BY <1>2 DEF Inv, NamesOK, StateOK, Connection
<1>4. poller[l][fd] = c
  BY <1>2 DEF Inv, StateOK
<1>5. /\ ended' = ended
      /\ poller' = [poller EXCEPT ![l][fd] = None]
      /\ conn' = [conn EXCEPT ![c] = [conn[c] EXCEPT !.state = "kDisconnected"]]
  BY <1>2, <1>3, <1>4 DEF RunDestroy
<1>6. /\ conn'[c] \in Connection /\ conn'[c] # None
      /\ conn'[c].name = conn[c].name /\ conn'[c].loop = conn[c].loop
      /\ conn'[c].fd = conn[c].fd /\ conn'[c].state = "kDisconnected"
      /\ \A d \in Clients \ {c} : conn'[d] = conn[d]
  <2>1. conn'[c] = [conn[c] EXCEPT !.state = "kDisconnected"]
    BY <1>3, <1>5
  <2>2. conn'[c] \in Connection
    BY <1>3, <2>1, ConnectionKeeps
  <2>3. conn'[c] # None
    BY <2>2, NoneAssumption
  <2> QED
    BY <1>3, <1>5, <2>1, <2>2, <2>3 DEF Connection
<1>7. SameObjects
  BY <1>2, <1>3, <1>5, <1>6 DEF SameObjects
<1>8. EndedOK'
  BY <1>5 DEF Inv, EndedOK
<1>9. BusyOK
  <2>1. ASSUME NEW m \in Loops, busy[m] # None
        PROVE  conn'[busy[m]] # None /\ conn'[busy[m]].state = "kConnected"
                 /\ conn'[busy[m]].loop = m
    <3>1. busy[m] \in Clients /\ conn[busy[m]] # None /\ conn[busy[m]].loop = m
            /\ conn[busy[m]].state = "kConnected"
      BY <2>1 DEF Inv, LoopsOK, StateOK
    <3>2. busy[m] # c
      BY <1>1, <1>2, <2>1, <3>1
    <3> QED
      BY <1>6, <3>1, <3>2
  <2> QED
    BY <1>1, <2>1, BusyKeeps
<1>10. Turn(Run, {})
  BY <1>1, TakeTurn DEF Inv
<1>11. ASSUME NEW m \in Loops, NEW op \in {"established", "remove", "destroy"},
              NEW d \in Clients
       PROVE  /\ Waits(m, op, d)' => Waits(m, op, d)
              /\ Waits(m, op, d) /\ d # c => Waits(m, op, d)'
              /\ ~Waits(m, "destroy", c)'
              /\ op # "remove" => Once(m, op, d)'
  <2>1. <<m, Functor(op, d)>> \in Run => d = c
    BY FunctorsDiffer
  <2>2. Once(m, "established", d) /\ Once(m, "destroy", d) /\ Once(m, "destroy", c)
    BY DEF Inv, WaitingOK
  <2>3. ~Waits(m, "destroy", c)'
    <3>1. CASE m = l
      BY <1>10, <2>2, <3>1 DEF Turn
    <3>2. CASE m # l
      BY <1>2, <1>10, <3>2 DEF Turn, Inv, WaitingOK
    <3> QED
      BY <3>1, <3>2
  <2> QED
    BY <1>10, <2>1, <2>2, <2>3 DEF Turn
<1>12. \A d \in Clients : InMap(d)' <=> InMap(d)
  BY <1>1 DEF InMap
<1>13. WaitingOK'
  <2>1. ASSUME NEW m \in Loops, NEW d \in Clients
        PROVE  /\ Waits(m, "established", d)' =>
                    conn'[d] # None /\ conn'[d].loop = m /\ conn'[d].state = "kConnecting"
               /\ Waits(m, "destroy", d)' =>
                    conn'[d] # None /\ conn'[d].loop = m /\ conn'[d].state = "kConnected"
                      /\ ~InMap(d)'
               /\ Waits(m, "remove", d)' => conn'[d] # None /\ conn'[d].state # "kConnecting"
    BY <1>2, <1>6, <1>11, <1>12 DEF Inv, WaitingOK
  <2> QED
    BY <1>11, <2>1 DEF WaitingOK
<1>14. StateOK'
  <2>1. /\ poller' \in [Loops -> [Fds -> Clients \cup {None}]] /\ poller'[l][fd] = None
        /\ \A m \in Loops, f \in Fds : m # l \/ f # fd => poller'[m][f] = poller[m][f]
    BY <1>3, <1>5
  <2>2. ASSUME NEW d \in Clients, conn'[d] # None
        PROVE  /\ conn'[d].state = "kConnecting" => InMap(d)'
               /\ conn'[d].state = "kConnected" =>
                    /\ poller'[conn'[d].loop][conn'[d].fd] = d
                    /\ InMap(d)' \/ Waits(conn[d].loop, "destroy", d)'
               /\ conn'[d].state = "kDisconnected" => ~InMap(d)'
    <3>1. CASE d = c
      BY <1>2, <1>6, <1>12, <3>1
    <3>2. CASE d # c
      <4>1. conn[d] # None /\ conn'[d] = conn[d] /\ conn[d] \in Connection
        BY <1>3, <1>6, <2>2, <3>2
      <4>2. conn[d].loop \in Loops /\ conn[d].fd \in Fds
        BY <4>1 DEF Connection
      <4>3. conn[d].state = "kConnected" => poller'[conn[d].loop][conn[d].fd] = d
        <5>1. conn[d].state = "kConnected" => poller[conn[d].loop][conn[d].fd] = d
          BY <4>1 DEF Inv, StateOK
        <5> QED
          BY <1>4, <2>1, <3>2, <4>2, <5>1
      <4>4. conn[d].state = "kConnected" =>
              InMap(d)' \/ Waits(conn[d].loop, "destroy", d)'
        BY <1>11, <1>12, <3>2, <4>1, <4>2 DEF Inv, StateOK
      <4> QED
        BY <1>12, <4>1, <4>3, <4>4 DEF Inv, StateOK
    <3> QED
      BY <1>7, <2>2, <3>1, <3>2 DEF SameObjects
  <2>3. ASSUME NEW m \in Loops, NEW f \in Fds, poller'[m][f] # None
        PROVE  LET d == poller'[m][f]
               IN  conn'[d] # None /\ conn'[d].state = "kConnected" /\ conn'[d].loop = m
                     /\ conn'[d].fd = f
    <3> DEFINE d == poller[m][f]
    <3>1. poller'[m][f] = d /\ d \in Clients /\ (m # l \/ f # fd)
      BY <1>3, <2>1, <2>3
    <3>2. conn[d] # None /\ conn[d].state = "kConnected" /\ conn[d].loop = m
            /\ conn[d].fd = f
      BY <2>3, <3>1 DEF Inv, StateOK
    <3>3. d # c
      BY <1>2, <3>1, <3>2
    <3> QED
      BY <1>6, <3>1, <3>2, <3>3
  <2> QED
    BY <1>9, <2>1, <2>2, <2>3 DEF StateOK, BusyOK, Waits
<1>15. Move(c)
  <2>1. Alive(c)'
    <3>1. batch[l] \in Seq(FunctorType) /\ ran[l] \in Nat /\ ran[l] < Len(batch[l])
            /\ batch[l][ran[l] + 1] = Functor("destroy", c)
      BY <1>1 DEF Inv, LoopsOK, Takes
    <3>2. Functor("destroy", c) \in Held(l)'
      BY <1>1, <3>1 DEF Held
    <3> QED
      BY <1>6, <3>2, FunctorsDiffer DEF Alive
  <2> QED
    BY <1>2, <1>6, <1>12, <2>1 DEF Move, Stage, Lives!Moves
<1> QED
  BY <1>1, <1>2, <1>6, <1>7, <1>8, <1>9, <1>10, <1>13, <1>14, <1>15, OneMoves

------------------------------------------------------------------------------
(* setThreadNum, start and a client that connects.                         *)
LEMMA PoolStep ==
  ASSUME Inv, UNCHANGED <<connects, conn, poller, busy, queue, batch, ran, ended>>,
         PoolOK', BacklogOK', NamesOK'
  PROVE  Good
<1>1. LoopsOK' /\ EndedOK'
  BY DEF Inv, LoopsOK, EndedOK
<1>2. \A l \in Loops, c \in Clients :
        /\ Waits(l, "established", c)' <=> Waits(l, "established", c)
        /\ Waits(l, "destroy", c)' <=> Waits(l, "destroy", c)
        /\ Waits(l, "remove", c)' <=> Waits(l, "remove", c)
        /\ Once(l, "established", c)' <=> Once(l, "established", c)
        /\ Once(l, "destroy", c)' <=> Once(l, "destroy", c)
  BY DEF Waits, Once
<1>3. \A c : (InMap(c)' <=> InMap(c)) /\ (Alive(c)' <=> Alive(c))
  BY DEF InMap, Alive, Held
<1>4. WaitingOK'
  BY <1>2, <1>3 DEF Inv, WaitingOK
<1>5. StateOK'
  BY DEF Inv, StateOK, InMap, Waits
<1>6. FdsApart'
  BY <1>3 DEF Inv, FdsApart
<1>7. \A c \in Clients : Move(c)
  BY <1>3, StageStays
<1> QED
  BY <1>1, <1>4, <1>5, <1>6, <1>7 DEF Good, Inv

(* setThreadNum, before start.                                             *)
LEMMA SetThreadNumStep ==
  ASSUME Inv, NEW n \in 0 .. MaxThreads, SetThreadNum(n)
  PROVE  Good
<1>1. PoolOK' /\ BacklogOK' /\ NamesOK'
  BY DEF Inv, PoolOK, BacklogOK, NamesOK, SetThreadNum, SetPoolThreadNum, acceptVars, Loops
<1> QED
  BY <1>1, PoolStep DEF SetThreadNum, loopVars

(* The first connection is for the first loop of the pool.                 *)
LEMMA FirstTurn ==
  ASSUME NEW k \in Nat, k > 0
  PROVE  0 % k = 0
  OBVIOUS

(* start: the loops of the pool, and the acceptor listens.                 *)
LEMMA StartStep ==
  ASSUME Inv, Start
  PROVE  Good
<1>1. /\ started' = TRUE /\ listening' = TRUE /\ loops' = numThreads /\ ~started
      /\ UNCHANGED <<numThreads, next, backlog, nextConnId, connects, conn, poller,
                     busy, queue, batch, ran, ended>>
  BY DEF Start, StartPool, Listen, loopVars
<1>2. PoolOK'
  <2>1. loops = 0 /\ nextConnId = 1 /\ next = 0 /\ numThreads \in Nat /\ numThreads \in Loops
    BY <1>1, ThreadsAssumption DEF Inv, PoolOK, Loops
  <2>2. numThreads # 0 => (1 - 1) % numThreads = 0
    BY <2>1, FirstTurn
  <2> QED
    BY <1>1, <2>1, <2>2 DEF PoolOK
<1>3. BacklogOK' /\ NamesOK'
  BY <1>1 DEF Inv, BacklogOK, NamesOK
<1> QED
  BY <1>1, <1>2, <1>3, PoolStep

(* Another client is in the backlog.                                       *)
LEMMA ArriveStep ==
  ASSUME Inv, NEW c \in Clients, Arrive(c)
  PROVE  Good
<1>1. /\ listening /\ conn[c] = None /\ \A i \in DOMAIN backlog : backlog[i] # c
      /\ backlog' = Append(backlog, c)
      /\ UNCHANGED <<started, numThreads, loops, next, listening, nextConnId, connects,
                     conn, poller, busy, queue, batch, ran, ended>>
  BY DEF Arrive, poolVars, loopVars
<1>2. PoolOK' /\ NamesOK'
  BY <1>1 DEF Inv, PoolOK, NamesOK
<1>3. BacklogOK'
  <2>1. /\ backlog \in Seq(Clients) /\ backlog' \in Seq(Clients) /\ started
        /\ DOMAIN backlog = 1 .. Len(backlog)
    BY <1>1 DEF Inv, PoolOK, BacklogOK
  <2>2. \A i \in 1 .. Len(backlog') :
          \/ i \in 1 .. Len(backlog) /\ backlog'[i] = backlog[i]
          \/ i = Len(backlog) + 1 /\ backlog'[i] = c
    BY <1>1, <2>1
  <2>3. \A i \in 1 .. Len(backlog') : conn[backlog'[i]] = None
    BY <1>1, <2>2 DEF Inv, BacklogOK
  <2>4. \A i, j \in 1 .. Len(backlog') : backlog'[i] = backlog'[j] => i = j
    BY <1>1, <2>1, <2>2 DEF Inv, BacklogOK
  <2> QED
    BY <1>1, <2>1, <2>3, <2>4 DEF BacklogOK
<1> QED
  BY <1>1, <1>2, <1>3, PoolStep

------------------------------------------------------------------------------
(* getNextLoop takes the loops in turn: counting on and starting again is  *)
(* counting modulo.                                                        *)
LEMMA DivisionIs ==
  ASSUME NEW k \in Nat, NEW n \in Nat, k > 0
  PROVE  n = k * (n \div k) + (n % k) /\ n % k \in 0 .. k - 1 /\ n \div k \in Nat
  BY Z3

(* The remainder of a multiple of k and something smaller.                 *)
LEMMA RemainderIs ==
  ASSUME NEW k \in Nat, NEW q \in Nat, NEW r \in Nat, r < k
  PROVE  (k * q + r) % k = r
  BY SMTT(30)

(* next_, counted up and set back to 0, is a count modulo k.               *)
LEMMA TurnsAdvance ==
  ASSUME NEW k \in Nat, NEW n \in Nat, k > 0
  PROVE  (n + 1) % k = IF (n % k) + 1 >= k THEN 0 ELSE (n % k) + 1
<1> DEFINE q == n \div k
           r == n % k
<1>1. n = k * q + r /\ r \in 0 .. k - 1 /\ q \in Nat
  BY DivisionIs
<1> HIDE DEF q, r
<1>2. CASE r + 1 < k
  <2>1. n + 1 = k * q + (r + 1) /\ r + 1 \in Nat
    BY <1>1
  <2>2. (n + 1) % k = r + 1
    BY <1>1, <1>2, <2>1, RemainderIs
  <2> QED
    BY <1>1, <1>2, <2>2 DEF r
<1>3. CASE ~(r + 1 < k)
  <2>1. r + 1 = k
    BY <1>1, <1>3
  <2>2. n + 1 = k * q + k
    BY <1>1, <2>1
  <2>3. k * q + k = k * (q + 1)
    BY <1>1
  <2>4. n + 1 = k * (q + 1) + 0 /\ q + 1 \in Nat
    BY <1>1, <2>2, <2>3
  <2>5. (n + 1) % k = 0
    BY <2>4, RemainderIs
  <2> QED
    BY <1>1, <1>3, <2>5 DEF r
<1> QED
  BY <1>2, <1>3

(* The head of the backlog leaves it, and becomes the connection with the  *)
(* next name, in the next loop, whatever its first state is.               *)
NewConn(c, fd, r) ==
  /\ backlog # <<>> /\ c = Head(backlog) /\ fd \in FreeFds /\ backlog' = Tail(backlog)
  /\ nextConnId' = nextConnId + 1
  /\ next' = IF loops = 0 THEN next ELSE Advance
  /\ connects' = {e \in connects : e.name # nextConnId}
                   \cup {[name |-> nextConnId, conn |-> c]}
  /\ r \in Connection /\ r.name = nextConnId /\ r.loop = NextLoop /\ r.fd = fd
  /\ conn' = [conn EXCEPT ![c] = r]
  /\ UNCHANGED <<started, numThreads, loops, listening, busy, batch, ran>>
  /\ ended' = ended

(* The first of the backlog has no connection yet.                         *)
LEMMA HeadIs ==
  ASSUME Inv, backlog # <<>>
  PROVE  /\ started /\ Head(backlog) \in Clients /\ conn[Head(backlog)] = None
         /\ Tail(backlog) \in Seq(Clients) /\ Len(Tail(backlog)) = Len(backlog) - 1
         /\ Len(backlog) \in Nat \ {0} /\ Head(backlog) = backlog[1]
         /\ \A i \in 1 .. Len(backlog) - 1 : Tail(backlog)[i] = backlog[i + 1]
<1>1. backlog \in Seq(Clients)
  BY DEF Inv, BacklogOK
<1>2. Len(backlog) \in Nat \ {0} /\ Head(backlog) = backlog[1]
  BY <1>1
<1> QED
  BY <1>1, <1>2 DEF Inv, BacklogOK

(* The pool, the backlog and the names after a new connection ...          *)
LEMMA NewConnParts ==
  ASSUME Inv, NEW c, NEW fd, NEW r, NewConn(c, fd, r)
  PROVE  /\ c \in Clients /\ conn[c] = None /\ conn'[c] = r /\ r # None
         /\ \A d \in Clients \ {c} : conn'[d] = conn[d]
         /\ \A d : InMap(d)' <=> InMap(d) \/ d = c
         /\ PoolOK' /\ BacklogOK' /\ NamesOK'
<1>1. /\ c \in Clients /\ conn[c] = None /\ started /\ started' = started
      /\ loops' = loops /\ loops \in Nat
      /\ nextConnId \in Nat \ {0} /\ nextConnId' = nextConnId + 1
      /\ conn \in [Clients -> Connection \cup {None}] /\ r \in Connection
  BY HeadIs, ThreadsAssumption DEF NewConn, Inv, NamesOK, PoolOK, Loops
<1>2. /\ conn'[c] = r /\ r # None /\ conn' \in [Clients -> Connection \cup {None}]
      /\ \A d \in Clients \ {c} : conn'[d] = conn[d]
  BY <1>1, NoneAssumption DEF NewConn
<1>3. \A d \in Clients : conn[d] # None => conn[d].name \in 1 .. nextConnId - 1
  BY DEF Inv, NamesOK
<1>4. connects' = connects \cup {[name |-> nextConnId, conn |-> c]}
  <2>1. \A e \in connects : e.conn \in Clients /\ e.name = conn[e.conn].name
                              /\ conn[e.conn] # None
    BY DEF Inv, NamesOK
  <2>2. \A e \in connects : e.name # nextConnId
    BY <1>1, <1>3, <2>1
  <2> QED
    BY <2>2 DEF NewConn
<1>5. ASSUME NEW d PROVE InMap(d)' <=> InMap(d) \/ d = c
  <2>1. [name |-> nextConnId, conn |-> c].conn = c
    OBVIOUS
  <2> QED
    BY <1>4, <2>1, Zenon DEF InMap
<1>6. PoolOK'
  <2>1. next' = IF loops = 0 THEN 0 ELSE nextConnId % loops
    <3>1. CASE loops = 0
      BY <3>1 DEF NewConn, Inv, PoolOK
    <3>2. CASE loops # 0
      <4>1. nextConnId - 1 \in Nat /\ (nextConnId - 1) + 1 = nextConnId
              /\ next = (nextConnId - 1) % loops /\ loops > 0
        BY <1>1, <3>2 DEF Inv, PoolOK
      <4>2. nextConnId % loops = IF next + 1 >= loops THEN 0 ELSE next + 1
        BY <1>1, <4>1, TurnsAdvance
      <4> QED
        BY <3>2, <4>2 DEF NewConn, Advance
    <3> QED
      BY <3>1, <3>2
  <2>2. nextConnId' - 1 = nextConnId /\ nextConnId' \in Nat \ {0}
    BY <1>1
  <2> QED
    BY <1>1, <2>1, <2>2 DEF NewConn, Inv, PoolOK
<1>7. BacklogOK'
  <2>1. /\ Len(backlog) \in Nat \ {0} /\ c = backlog[1]
        /\ backlog' \in Seq(Clients) /\ Len(backlog') = Len(backlog) - 1
        /\ \A i \in 1 .. Len(backlog') : backlog'[i] = backlog[i + 1]
    BY HeadIs DEF NewConn
  <2>2. /\ \A i \in 1 .. Len(backlog) : conn[backlog[i]] = None /\ backlog[i] \in Clients
        /\ \A i, j \in 1 .. Len(backlog) : backlog[i] = backlog[j] => i = j
    BY DEF Inv, BacklogOK
  <2>3. \A i \in 1 .. Len(backlog') : i + 1 \in 1 .. Len(backlog) /\ i + 1 # 1
    BY <2>1
  <2>4. 1 \in 1 .. Len(backlog)
    BY <2>1
  <2>5. \A i \in 1 .. Len(backlog') : conn'[backlog'[i]] = None
    BY <1>2, <2>1, <2>2, <2>3, <2>4
  <2>6. \A i, j \in 1 .. Len(backlog') : i + 1 = j + 1 => i = j
    BY <2>1
  <2>7. \A i, j \in 1 .. Len(backlog') : backlog'[i] = backlog'[j] => i = j
    BY <2>1, <2>2, <2>3, <2>6
  <2> QED
    BY <1>1, <2>1, <2>5, <2>7 DEF BacklogOK
<1>8. NamesOK'
  <2>1. r.name = nextConnId /\ r.loop = IF loops = 0 THEN 0 ELSE ((r.name - 1) % loops) + 1
    BY DEF NewConn, NextLoop, Inv, PoolOK
  <2>2. connects' \subseteq [name : Nat, conn : Clients]
    BY <1>1, <1>4 DEF Inv, NamesOK
  <2>3. ASSUME NEW d \in Clients, conn'[d] # None
        PROVE  /\ started' /\ conn'[d].name \in 1 .. nextConnId' - 1
               /\ conn'[d].loop = IF loops' = 0 THEN 0
                                  ELSE ((conn'[d].name - 1) % loops') + 1
    <3>1. CASE d = c
      BY <1>1, <1>2, <2>1, <3>1
    <3>2. CASE d # c
      BY <1>1, <1>2, <2>3, <3>2 DEF Inv, NamesOK
    <3> QED
      BY <3>1, <3>2
  <2>4. ASSUME NEW d \in Clients, NEW e \in Clients, conn'[d] # None, conn'[e] # None,
               conn'[d].name = conn'[e].name
        PROVE  d = e
    <3>1. CASE d # c /\ e # c
      BY <1>2, <2>4, <3>1 DEF Inv, NamesOK
    <3>2. \A x \in Clients \ {c} : conn[x] # None => conn[x].name # nextConnId
      BY <1>1, <1>3
    <3> QED
      BY <1>2, <2>1, <2>4, <3>1, <3>2
  <2>5. ASSUME NEW e \in connects'
        PROVE  conn'[e.conn] # None /\ e.name = conn'[e.conn].name
    <3>1. CASE e \in connects
      <4>1. e.conn \in Clients /\ conn[e.conn] # None /\ e.name = conn[e.conn].name
        BY <3>1 DEF Inv, NamesOK
      <4> QED
        BY <1>1, <1>2, <4>1
    <3>2. CASE e = [name |-> nextConnId, conn |-> c]
      BY <1>2, <2>1, <3>2
    <3> QED
      BY <1>4, <3>1, <3>2
  <2> QED
    BY <1>2, <2>2, <2>3, <2>4, <2>5 DEF NamesOK
<1> QED
  BY <1>1, <1>2, <1>5, <1>6, <1>7, <1>8

(* In the base loop it is set up at once, in a slot that is free; or its   *)
(* set-up is queued in its loop.                                           *)
Begins(c, r, New) ==
  \/ /\ New = {} /\ r.state = "kConnected"
     /\ poller[r.loop][r.fd] = None /\ poller' = [poller EXCEPT ![r.loop][r.fd] = c]
  \/ /\ New = {<<r.loop, Functor("established", c)>>} /\ r.state = "kConnecting"
     /\ poller' = poller

(* ... what waits in the loops after it ...                                *)
LEMMA NewConnWaits ==
  ASSUME Inv, NEW c, NEW fd, NEW r, NEW New, NewConn(c, fd, r), Turn({}, New),
         Begins(c, r, New)
  PROVE  /\ \A x \in New : x[2].conn = c
         /\ \A l \in Loops, op \in {"established", "remove", "destroy"}, d \in Clients :
              /\ Waits(l, op, d)' =>
                   \/ d # c /\ Waits(l, op, d)
                   \/ d = c /\ l = r.loop /\ op = "established" /\ r.state = "kConnecting"
              /\ Waits(l, op, d) => Waits(l, op, d)'
              /\ op # "remove" => Once(l, op, d)'
<1>1. c \in Clients /\ conn[c] = None
  BY NewConnParts
<1>2. ASSUME NEW l \in Loops, NEW op \in {"established", "remove", "destroy"}
      PROVE  ~Waits(l, op, c)
  BY <1>1 DEF Inv, WaitingOK
<1>3. New # {} => New = {<<r.loop, Functor("established", c)>>} /\ r.state = "kConnecting"
  BY DEF Begins
<1>4. \A x \in New : x[2].conn = c
  <2>1. <<r.loop, Functor("established", c)>>[2] = Functor("established", c)
    OBVIOUS
  <2> QED
    BY <1>3, <2>1, FunctorsDiffer
<1>5. ASSUME NEW l \in Loops, NEW op \in {"established", "remove", "destroy"},
             NEW d \in Clients, <<l, Functor(op, d)>> \in New
      PROVE  d = c /\ l = r.loop /\ op = "established" /\ r.state = "kConnecting"
  <2>1. l = r.loop /\ Functor(op, d) = Functor("established", c)
    BY <1>3, <1>5
  <2> QED
    BY <1>3, <1>5, <2>1, FunctorsDiffer
<1>6. ASSUME NEW l \in Loops, NEW op \in {"established", "remove", "destroy"},
             NEW d \in Clients
      PROVE  /\ Waits(l, op, d)' =>
                  \/ d # c /\ Waits(l, op, d)
                  \/ d = c /\ l = r.loop /\ op = "established" /\ r.state = "kConnecting"
             /\ Waits(l, op, d) => Waits(l, op, d)'
             /\ op # "remove" => Once(l, op, d)'
  <2>1. op # "remove" => Once(l, op, d)
    BY DEF Inv, WaitingOK
  <2>2. <<l, Functor(op, d)>> \in New => ~Waits(l, op, d)
    BY <1>2, <1>5
  <2> QED
    BY <1>2, <1>5, <2>1, <2>2 DEF Turn
<1> QED
  BY <1>4, <1>6

(* ... and the whole of the invariant.                                     *)
LEMMA NewConnStep ==
  ASSUME Inv, NEW c, NEW fd, NEW r, NEW New, NewConn(c, fd, r), Turn({}, New),
         Begins(c, r, New)
  PROVE  Good
<1>1. /\ c \in Clients /\ conn[c] = None /\ conn'[c] = r /\ r # None
      /\ \A d \in Clients \ {c} : conn'[d] = conn[d]
      /\ \A d : InMap(d)' <=> InMap(d) \/ d = c
      /\ PoolOK' /\ BacklogOK' /\ NamesOK'
  BY NewConnParts
<1>2. r \in Connection /\ r.fd = fd /\ r.loop \in Loops /\ fd \in Fds /\ fd \in FreeFds
  BY DEF NewConn, Connection
<1>3. /\ busy' = busy /\ batch' = batch /\ ended' = ended
      /\ r.state \in {"kConnecting", "kConnected"}
  BY DEF NewConn, Begins
<1>4. ASSUME NEW d \in Clients, d # c, Alive(d)' PROVE Alive(d)
  <2>1. conn[d] # None /\ (InMap(d)' => InMap(d))
    BY <1>1, <1>4 DEF Alive
  <2>2. \A x \in New : x[2].conn # d
    BY <1>4, NewConnWaits
  <2> QED
    BY <1>4, <2>1, <2>2, AliveBefore
<1>5. FdsApart'
  <2>1. ASSUME NEW d \in Clients, d # c, Alive(d)'
        PROVE  Alive(d) /\ conn'[d].fd = conn[d].fd /\ conn[d].fd # fd
    BY <1>1, <1>2, <1>4, <2>1 DEF FreeFds
  <2>2. ASSUME NEW d \in Clients, NEW e \in Clients, Alive(d)', Alive(e)', d # e
        PROVE  conn'[d].fd # conn'[e].fd
    BY <1>1, <1>2, <2>1, <2>2 DEF Inv, FdsApart
  <2> QED
    BY <2>2 DEF FdsApart
<1>6. WaitingOK'
  <2>1. ASSUME NEW l \in Loops, NEW d \in Clients
        PROVE  /\ Waits(l, "established", d)' =>
                    conn'[d] # None /\ conn'[d].loop = l /\ conn'[d].state = "kConnecting"
               /\ Waits(l, "destroy", d)' =>
                    conn'[d] # None /\ conn'[d].loop = l /\ conn'[d].state = "kConnected"
                      /\ ~InMap(d)'
               /\ Waits(l, "remove", d)' => conn'[d] # None /\ conn'[d].state # "kConnecting"
    BY <1>1, NewConnWaits DEF Inv, WaitingOK
  <2> QED
    BY <2>1, NewConnWaits DEF WaitingOK
<1>7. BusyOK
  <2>1. ASSUME NEW l \in Loops, busy[l] # None
        PROVE  /\ busy[l] \in Clients /\ batch[l] = <<>>
               /\ conn[busy[l]] # None /\ conn[busy[l]].state = "kConnected"
               /\ conn[busy[l]].loop = l /\ conn'[busy[l]] = conn[busy[l]]
    <3>1. /\ busy[l] \in Clients /\ batch[l] = <<>>
          /\ conn[busy[l]] # None /\ conn[busy[l]].state = "kConnected"
          /\ conn[busy[l]].loop = l
      BY <2>1 DEF Inv, LoopsOK, StateOK
    <3> QED
      BY <1>1, <3>1
  <2> QED
    BY <1>3, <2>1 DEF Inv, LoopsOK, BusyOK
<1>8. LoopsOK'
  BY <1>7 DEF Turn, TypesOfLoops, LoopsOK, BusyOK
<1>9. StateOK'
  <2>1. poller \in [Loops -> [Fds -> Clients \cup {None}]]
    BY DEF Inv, StateOK
  <2>2. /\ poller' \in [Loops -> [Fds -> Clients \cup {None}]]
        /\ r.state = "kConnected" => poller'[r.loop][fd] = c
        /\ \A m \in Loops, f \in Fds :
             poller'[m][f] = poller[m][f]
               \/ (m = r.loop /\ f = fd /\ poller[m][f] = None /\ poller'[m][f] = c
                     /\ r.state = "kConnected")
    BY <1>1, <1>2, <2>1 DEF Begins
  <2>3. ASSUME NEW d \in Clients, conn'[d] # None
        PROVE  /\ conn'[d].state = "kConnecting" => InMap(d)'
               /\ conn'[d].state = "kConnected" =>
                    /\ poller'[conn'[d].loop][conn'[d].fd] = d
                    /\ InMap(d)' \/ \E l \in Loops : l = conn'[d].loop /\ Waits(l, "destroy", d)'
               /\ conn'[d].state = "kDisconnected" => ~InMap(d)'
    <3>1. CASE d = c
      BY <1>1, <1>2, <1>3, <2>2, <3>1
    <3>2. CASE d # c
      <4>1. conn[d] # None /\ conn'[d] = conn[d]
        BY <1>1, <2>3, <3>2
      <4>2. conn[d].loop \in Loops /\ conn[d].fd \in Fds /\ d # None
        BY <4>1, NoneAssumption DEF Inv, NamesOK, Connection
      <4>3. conn[d].state = "kConnected" => poller'[conn[d].loop][conn[d].fd] = d
        BY <2>2, <4>1, <4>2 DEF Inv, StateOK
      <4>4. \A l \in Loops : Waits(l, "destroy", d) => Waits(l, "destroy", d)'
        BY NewConnWaits
      <4>5. conn[d].state = "kConnected" =>
              InMap(d)' \/ \E l \in Loops : l = conn'[d].loop /\ Waits(l, "destroy", d)'
        BY <1>1, <4>1, <4>2, <4>4 DEF Inv, StateOK
      <4> QED
        BY <1>1, <3>2, <4>1, <4>3, <4>5 DEF Inv, StateOK
    <3> QED
      BY <3>1, <3>2
  <2>4. ASSUME NEW m \in Loops, NEW f \in Fds, poller'[m][f] # None
        PROVE  LET d == poller'[m][f]
               IN  conn'[d] # None /\ conn'[d].state = "kConnected" /\ conn'[d].loop = m
                     /\ conn'[d].fd = f
    <3>1. CASE poller'[m][f] = poller[m][f]
      <4> DEFINE d == poller[m][f]
      <4>1. d \in Clients /\ conn[d] # None /\ conn[d].state = "kConnected"
              /\ conn[d].loop = m /\ conn[d].fd = f
        BY <2>1, <2>4, <3>1 DEF Inv, StateOK
      <4> QED
        BY <1>1, <3>1, <4>1
    <3>2. CASE poller'[m][f] # poller[m][f]
      BY <1>1, <1>2, <2>2, <3>2
    <3> QED
      BY <3>1, <3>2
  <2> QED
    BY <1>7, <2>2, <2>3, <2>4 DEF StateOK, BusyOK, Waits
<1>10. EndedOK'
  BY <1>3 DEF Inv, EndedOK
<1>11. ASSUME NEW d \in Clients PROVE Move(d)
  <2>1. CASE d = c
    BY <1>1, <1>3, <2>1 DEF Move, Stage, Lives!Moves
  <2>2. CASE d # c
    BY <1>1, <1>4, <2>2, StageStays
  <2> QED
    BY <2>1, <2>2
<1> QED
  BY <1>1, <1>5, <1>6, <1>8, <1>9, <1>10, <1>11 DEF Good, Inv

(* newConnection: established at once, or in another loop later.           *)
LEMMA AcceptStep ==
  ASSUME Inv, NEW fd \in Fds, Accept(fd)
  PROVE  Good
<1> DEFINE c == Head(backlog)
           new == [name |-> nextConnId, loop |-> NextLoop, fd |-> fd,
                   state |-> "kConnecting", reading |-> TRUE]
           up == [new EXCEPT !.state = "kConnected"]
<1>1. /\ backlog # <<>> /\ fd \in FreeFds /\ backlog' = Tail(backlog)
      /\ nextConnId' = nextConnId + 1 /\ next' = IF loops = 0 THEN next ELSE Advance
      /\ connects' = {e \in connects : e.name # nextConnId}
                       \cup {[name |-> nextConnId, conn |-> c]}
      /\ UNCHANGED <<started, numThreads, loops, listening, busy, batch, ran>>
      /\ IF NextLoop = 0
         THEN Establish(c, new) /\ queue' = queue
         ELSE /\ conn' = [conn EXCEPT ![c] = new]
              /\ queue' = [queue EXCEPT ![NextLoop] = Append(@, Functor("established", c))]
              /\ UNCHANGED <<poller, ended>>
  BY DEF Accept, HandleRead, NextId
<1>2. NextLoop \in Loops
  <2>1. loops \in Nat /\ loops <= MaxThreads /\ MaxThreads \in Nat
    BY ThreadsAssumption DEF Inv, PoolOK, Loops
  <2>2. loops # 0 => next \in 0 .. loops - 1
    <3>1. nextConnId - 1 \in Nat
      BY DEF Inv, PoolOK
    <3> QED
      BY <2>1, <3>1, DivisionIs DEF Inv, PoolOK
  <2> QED
    BY <2>1, <2>2 DEF NextLoop, Loops
<1>3. /\ new \in Connection /\ new.name = nextConnId /\ new.loop = NextLoop /\ new.fd = fd
      /\ new.state = "kConnecting"
  BY <1>2 DEF Connection, Inv, PoolOK
<1>4. /\ up \in Connection /\ up.name = nextConnId /\ up.loop = NextLoop /\ up.fd = fd
      /\ up.state = "kConnected"
  BY <1>2 DEF Connection, Inv, PoolOK
<1>5. c \in Clients
  BY <1>1, HeadIs
<1>6. CASE NextLoop = 0
  <2>1. poller[NextLoop][fd] = None
    <3> SUFFICES ASSUME poller[NextLoop][fd] # None PROVE FALSE
      OBVIOUS
    <3> DEFINE d == poller[NextLoop][fd]
    <3>1. d \in Clients /\ conn[d] # None /\ conn[d].state = "kConnected"
            /\ conn[d].fd = fd
      BY <1>2 DEF Inv, StateOK
    <3>2. Alive(d)
      BY <3>1, ConnectedIsAlive DEF Inv
    <3> QED
      BY <1>1, <3>1, <3>2 DEF FreeFds
  <2>2. /\ ended' = ended /\ poller' = [poller EXCEPT ![NextLoop][fd] = c]
        /\ conn' = [conn EXCEPT ![c] = up]
    BY <1>1, <1>3, <1>6, <2>1 DEF Establish
  <2>3. queue' = queue
    BY <1>1, <1>6
  <2>4. Turn({}, {})
    BY <1>1, <2>3, NoTurn DEF Inv
  <2> HIDE DEF c, new, up
  <2>5. NewConn(c, fd, up)
    BY <1>1, <1>4, <2>2 DEF NewConn, c
  <2>6. Begins(c, up, {})
    BY <1>4, <2>1, <2>2 DEF Begins
  <2> QED
    BY <2>4, <2>5, <2>6, NewConnStep
<1>7. CASE NextLoop # 0
  <2> DEFINE f == Functor("established", c)
  <2>1. /\ conn' = [conn EXCEPT ![c] = new] /\ UNCHANGED <<poller, ended>>
        /\ queue' = [queue EXCEPT ![NextLoop] = Append(@, f)]
    BY <1>1, <1>7
  <2>2. f \in FunctorType
    BY <1>5, FunctorTypes
  <2> HIDE DEF c, new, up, f
  <2>3. Turn({}, {<<NextLoop, f>>})
    BY <1>1, <1>2, <2>1, <2>2, QueueTurn DEF Inv
  <2>4. NewConn(c, fd, new)
    BY <1>1, <1>3, <2>1 DEF NewConn, c
  <2>5. Begins(c, new, {<<NextLoop, f>>})
    BY <1>3, <2>1 DEF Begins, f
  <2> QED
    BY <2>3, <2>4, <2>5, NewConnStep
<1> QED
  BY <1>6, <1>7

------------------------------------------------------------------------------
(* A server before its first step.                                         *)
LEMMA InitInv == Init => Inv
<1> SUFFICES ASSUME Init PROVE Inv
  OBVIOUS
<1>1. /\ started = FALSE /\ listening = FALSE /\ numThreads = 0 /\ loops = 0 /\ next = 0
      /\ backlog = <<>> /\ nextConnId = 1 /\ connects = {} /\ ended = "no"
      /\ conn = [c \in Clients |-> None]
      /\ poller = [l \in Loops |-> [f \in Fds |-> None]]
      /\ busy = [l \in Loops |-> None]
      /\ queue = [l \in Loops |-> <<>>] /\ batch = [l \in Loops |-> <<>>]
      /\ ran = [l \in Loops |-> 0]
  BY DEF Init, AcceptorInit, PoolInit
<1>2. LoopsOK
  BY <1>1 DEF LoopsOK
<1>3. PoolOK
  <2>1. 0 \in Loops /\ 1 \in Nat \ {0}
    BY ThreadsAssumption DEF Loops
  <2>2. next = IF loops = 0 THEN 0 ELSE (nextConnId - 1) % loops
    BY <1>1
  <2> QED
    BY <1>1, <2>1, <2>2 DEF PoolOK
<1>4. BacklogOK /\ NamesOK
  BY <1>1 DEF BacklogOK, NamesOK
<1>5. ASSUME NEW l \in Loops, NEW op, NEW c PROVE ~Waits(l, op, c) /\ Once(l, op, c)
  <2>1. queue[l] = <<>> /\ batch[l] = <<>> /\ ran[l] = 0
    BY <1>1
  <2>2. Positions(<<>>, 0, <<>>) = {}
    BY DEF Positions
  <2> QED
    BY <2>1, <2>2 DEF Waits, Once, HasAt, OnceAt
<1>6. WaitingOK
  BY <1>5 DEF WaitingOK
<1>7. StateOK
  BY <1>1 DEF StateOK
<1>8. FdsApart
  BY <1>1 DEF FdsApart, Alive
<1>9. EndedOK
  BY <1>1 DEF EndedOK
<1> QED
  BY <1>2, <1>3, <1>4, <1>6, <1>7, <1>8, <1>9 DEF Inv

(* Nothing happens.                                                        *)
LEMMA StutterStep ==
  ASSUME Inv, UNCHANGED vars
  PROVE  Good
<1>1. /\ PoolKept /\ UNCHANGED <<connects, conn, poller, busy, queue, batch, ran, ended>>
  BY DEF vars, PoolKept, poolVars, acceptVars, loopVars
<1>2. PoolOK' /\ BacklogOK' /\ NamesOK'
  BY <1>1 DEF Inv, PoolOK, BacklogOK, NamesOK, PoolKept, poolVars, acceptVars
<1> QED
  BY <1>1, <1>2, PoolStep

(* Each step of the server, of its loops and of the clients.               *)
LEMMA NextStep == Inv /\ [Next]_vars => Good
<1> SUFFICES ASSUME Inv, [Next]_vars PROVE Good
  OBVIOUS
<1>1. CASE \E n \in 0 .. MaxThreads : SetThreadNum(n)
  BY <1>1, SetThreadNumStep
<1>2. CASE Start
  BY <1>2, StartStep
<1>3. CASE \E c \in Clients : Arrive(c)
  BY <1>3, ArriveStep
<1>4. CASE \E c \in Clients : Closes(c)
  BY <1>4, PeerClosesStep DEF Closes
<1>5. CASE \E fd \in Fds : Accept(fd)
  BY <1>5, AcceptStep
<1>6. CASE AcceptIsFatal
  BY <1>6, FatalStep
<1>7. ASSUME NEW l \in Loops, LoopStep(l) PROVE Good
  <2>1. CASE CloseAgain(l)
    BY <2>1, CloseAgainStep
  <2>2. CASE Swap(l) \/ BatchDone(l)
    BY <2>2, BatchStep
  <2>3. CASE RunFunctor(l)
    BY <2>3, RunEstablishedStep, RunRemoveStep, RunDestroyStep DEF RunFunctor
  <2> QED
    BY <1>7, <2>1, <2>2, <2>3 DEF LoopStep
<1>8. CASE UNCHANGED vars
  BY <1>8, StutterStep
<1> QED
  BY <1>1, <1>2, <1>3, <1>4, <1>5, <1>6, <1>7, <1>8 DEF Next

(* So the invariant always holds.                                          *)
LEMMA Invariance == Spec => []Inv
<1>1. Inv /\ [Next]_vars => Inv'
  BY NextStep DEF Good
<1> QED
  BY InitInv, <1>1, PTL DEF Spec

------------------------------------------------------------------------------
(* Every variable has its type.                                            *)
THEOREM TypeCorrect == Spec => []TypeOK
<1>1. Inv => TypeOK
  <2> SUFFICES ASSUME Inv PROVE TypeOK
    OBVIOUS
  <2>1. next \in Nat /\ (next = 0 \/ next < loops)
    <3>1. CASE loops = 0
      BY <3>1 DEF Inv, PoolOK
    <3>2. CASE loops # 0
      <4>1. loops \in Nat /\ loops > 0 /\ nextConnId - 1 \in Nat
        BY <3>2, ThreadsAssumption DEF Inv, PoolOK, Loops
      <4> QED
        BY <3>2, <4>1, DivisionIs DEF Inv, PoolOK
    <3> QED
      BY <3>1, <3>2
  <2> QED
    BY <2>1 DEF Inv, TypeOK, LoopsOK, PoolOK, BacklogOK, NamesOK, StateOK, EndedOK
<1> QED
  BY Invariance, <1>1, PTL

(* No descriptor belongs to two connections that exist, the pollers hold   *)
(* exactly channels of their own connections, and no assert fails: not on  *)
(* the slot of a descriptor, nor on the state of a connection when it is   *)
(* set up, closed or taken down.                                           *)
THEOREM FdsKeptApart == Spec => []DescriptorsApart
<1>1. Inv => DescriptorsApart
  <2> SUFFICES ASSUME Inv PROVE DescriptorsApart
    OBVIOUS
  <2>1. ASSUME NEW l \in Loops, NEW f \in Fds, poller[l][f] # None
        PROVE  /\ Alive(poller[l][f])
               /\ conn[poller[l][f]].loop = l /\ conn[poller[l][f]].fd = f
    <3> DEFINE c == poller[l][f]
    <3>1. c \in Clients /\ conn[c] # None /\ conn[c].state = "kConnected"
            /\ conn[c].loop = l /\ conn[c].fd = f
      BY <2>1 DEF Inv, StateOK
    <3> QED
      BY <3>1, ConnectedIsAlive DEF Inv
  <2> QED
    BY <2>1 DEF Inv, EndedOK, FdsApart, DescriptorsApart
<1> QED
  BY Invariance, <1>1, PTL

(* The n-th connection gets the n-th loop of the pool, round and round,    *)
(* and a name of its own.                                                  *)
THEOREM LoopsTakeTurns == Spec => []RoundRobin
<1>1. Inv => RoundRobin
  BY DEF Inv, NamesOK, RoundRobin
<1> QED
  BY Invariance, <1>1, PTL

(* Every connection goes through its life in order, whatever the loops and *)
(* the other connections do meanwhile.                                     *)
THEOREM ConnectionsLiveInOrder == Spec => LivesInOrder
<1> DEFINE stage == [c \in Clients |-> StageOf(c)]
<1>1. Init => Lives!Init
  BY DEF Init, Lives!Init, StageOf
<1>2. Inv /\ Inv' /\ [Next]_vars => [Lives!Next]_stage
  <2> SUFFICES ASSUME Inv, Inv', [Next]_vars PROVE Lives!Next
    OBVIOUS
  <2>1. \A c \in Clients : StageOf(c) = Stage(c)
    BY StageIs
  <2>2. \A c \in Clients : StageOf(c)' = Stage(c)'
    <3>1. (Inv => \A c \in Clients : StageOf(c) = Stage(c))'
      BY StageIs, PTL
    <3> QED
      BY <3>1
  <2>3. \A c \in Clients : Move(c)
    BY NextStep DEF Good
  <2>4. \A c \in Clients : StageOf(c)' \in Lives!Stages
    BY DEF StageOf, Lives!Stages
  <2>5. \A c \in Clients : stage'[c] = stage[c] \/ <<stage[c], stage'[c]>> \in Lives!Moves
    BY <2>1, <2>2, <2>3 DEF Move
  <2> QED
    BY <2>4, <2>5 DEF Lives!Next
<1> QED
  BY Invariance, <1>1, <1>2, PTL DEF Spec, LivesInOrder, Lives!Spec
==============================================================================
