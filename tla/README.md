# A TLA+ verification of TcpNetLibrary

TcpNetLibrary is a C++11 network library in the reactor style: one event loop
per thread, channels dispatched from `poll`, functors handed between loops,
timers on a timerfd, TCP connections on top. This directory models it in TLA+,
checks the models with TLC on small instances, and proves all the safety
properties it checks for every instance with TLAPS.

## 1. The system

| Component | State | Operations | Talks to |
|---|---|---|---|
| `EventLoop` (eventLoop.cpp) | `looping_`, `quit_`, `callingPendingFunctors_`, `pendingFunctor_` under `mtx_`, the eventfd | `loop`, `quit`, `runInLoop`, `queueInloop`, `wakeup`, `handleRead`, `doPendingFunctors` | called by every thread; calls poller, channels, functors |
| `EventLoopThread` (eventLoopThread.cpp) | `thread_`, `loop_`, mutex and condition | `startLoop`, `threadFunc`, destructor | owns an `EventLoop` in another thread |
| `EventLoopThreadPool` | the threads, `next_` | `start`, `getNextLoop` | used by `TcpServer` |
| `Poller`, `Channel` (poller.cpp, channel.cpp) | `pollfds_`, `channels_`; `event_`, `revent_`, `index_` | `updateChannel`, `removeChannel`, `poll`; `enable*`, `disable*`, `handleEvent` | called by the loop's thread only |
| `Epoller` | like `Poller`, on epoll | the same | the backend that is not built: the Makefile defines `USE_EPOLLER1`, not `USE_EPOLLER` |
| `TimerQueue`, `Timer`, `TimerId` | `timers_`, `activeTiemrs_`, `cancelingTimers_`, the timerfd, the counter behind `numCreated` | `addTimer`, `cancel`, `handleRead`, `getExpired`, `reset`, `insert` | functors of its loop; timer callbacks call back into it |
| `TcpConnection` (tcpConnection.cpp) | `state_`, `outputBuffer_`, `inputBuffer_`, the channel | `connectEestablished`, `connectDestory`, `send`, `shutdown`, `handleRead/Write/Close` | base loop, io loop, user threads |
| `TcpServer` (tcpServer.cpp) | `connects_`, `nextConnId_`, `started_` | `setThreadNum`, `start`, `newConnection`, `removeConnection`, `removeConnectionInLoop` | acceptor, pool, connections of several loops |
| `Acceptor` (acceptor.cpp) | the listening channel | `listen`, `handleRead` | base loop, server |
| `Connector` (connector.cpp) | `connect_`, `state_`, `channel_`, `retryDelayMs_`, `timerId_` | `start`, `stop`, `restart`, `retry`, `handleWrite`, `handleError` | its loop, its timers, the user |
| `Buffer` (buffer.cpp) | a vector and two indices | `append`, `retrieve`, `prepend`, `readFd`, `makeSpace` | one connection, in its loop |
| HTTP (http/) | the parser's place and request per connection | `parseRequest`, `onMessage`, `onRequest` | message callbacks |
| Logger, `Socket`, `NetAddress`, `TimeStamp` | almost none | wrappers, formatting | everything |

What is hard in it:

* **Interleaving.** `queueInloop` and `quit` come from any thread, at any point
  of the loop; whether the eventfd is written decides whether the loop sleeps
  on work. `TcpConnection::send` and `shutdown` test `state_` in the caller's
  thread and act later in the io loop.
* **Lifetime.** A connection is kept by `connects_`, by functors and by users,
  and it closes itself from inside `Channel::handleEvent`. A loop lives on the
  stack of its thread while other threads hold pointers to it.
* **Order.** Data buffered, data written directly, and the FIN of a shutdown
  must leave in the order of the calls, with partial writes at any point.
* **Bookkeeping.** `pollfds_` is compacted by a swap and stores disabled
  channels negated; two sets of timers are to hold the same timers under keys
  of different kinds; the buffer moves or grows its vector.
* **Time.** Timers are added, cancelled and repeated inside callbacks between
  `getExpired` and `reset`; a connector's retry timer fires after a `stop`, or
  after a `stop` and another `start`.
* **Reuse.** A descriptor that is closed is the next one accepted, perhaps in
  another loop, while functors of its last owner are still on their way.
* **Pieces.** A request arrives cut anywhere, or with half of the next one.

What makes each component correct is stated in its module, and named with the
run that checks it in section 3.

The asserts are part of the program: the Makefile does not define `NDEBUG`.

## 2. The modules

Every component has a module; an `MC` module gives its constants the values TLC
uses; a `Proofs` module holds its theorems.

| Component | Module | Composed of or with | Theorems |
|---|---|---|---|
| EventLoop | `EventLoop` | implements `FunctorQueue` | `EventLoopProofs` |
| EventLoopThread | `EventLoopThread` | extends `EventLoop` | `EventLoopProofs` |
| Poller, Channel | `Poller` | | `PollerProofs` |
| Epoller | `Epoller` | `Pollers` puts it beside `Poller` | `PollerProofs` |
| TimerQueue | `TimerQueue` | | `TimerQueueProofs` |
| TcpConnection | `TcpConnection` | implements `ConnectionLife` | `TcpConnectionProofs` |
| TcpServer, Acceptor, EventLoopThreadPool | `TcpServer` | implements `ConnectionLife` | `TcpServerProofs` |
| Connector | `Connector` | | `ConnectorProofs` |
| Buffer | `Buffer` | implements `ByteQueue` | `BufferProofs` |
| HTTP | `HttpServer` | | `HttpServerProofs` |

### EventLoop, FunctorQueue

`EventLoop` has the loop's thread (`LoopThread`) and the other threads
(`Threads`). The program counter of the loop's thread follows `loop()`: test of
`quit_`, poll, one channel after another, the swap of `pendingFunctor_`, one
functor after another. In functors and channel callbacks the loop's thread may
call `queueInloop`, `runInLoop` and `quit` as any other thread does. For the
other threads the push under the lock and the write of the eventfd are two
steps (`QueueInloop`, `Wakeup`), as are the store to `quit_` and its wakeup. The
eventfd is a flag: its count matters only as zero or not. `callingPendingFunctors_`
is not initialised by the constructor, and `Init` lets it have either value.

`FunctorQueue` is what users rely on: a queue whose head is run next.
`RunsInOrder` says `EventLoop` implements it, with the unfinished rest of the
batch followed by `pendingFunctor_` as the queue.

The poll timeout of ten seconds is `PollNothing`. It carries no fairness, so
that the liveness properties show a loop that is woken, not one that happens to
look again after ten seconds.

### EventLoopThread

Extends `EventLoop` with the thread that owns an `EventLoopThread` object:
`StartLoop`, `TestLoop` (the `while` around the condition variable, which may
also wake spuriously), `Publish` and `EnterLoop` in the new thread, `Destroy`
and `Join`. The loop exists from `Publish` on and ends with `ThreadReturns`,
after which a call of it is a call of a dead object (`deadCall`).

### Poller, Epoller, Pollers

`Poller` has the channels of one loop with `event_` and `index_`, `pollfds_` as
a sequence of slots that hold an fd or its negated form, `channels_` as a
function of fds. `Update` and `RemoveChannel` contain every assert. An assert
about what the caller passed (a channel that is registered, without events when
it is removed) ends in `aborted = "misuse"`; one about the poller's own
structures (the index, the fd in the slot, the result of a `find`) ends in
`"internal"`, and `StructuresAgree` says that this never happens, whatever
callers do. `Poll` is `poll` with `fillActiveChannels`; any channel may be
updated or removed between the handlers of one batch.

`Epoller` is the other backend: the kernel's list with a pointer to the channel
in each entry, `channels_`, and the three values of `index_`. `Pollers` makes
the same calls to both. What the two do with a channel differs once it was
updated without events, and `SameWatched` says exactly how: `Poller` never puts
the fd back into a slot it turned negative (poller.cpp:70), so a channel enabled
again is ignored; `Epoller` adds a channel with `kDelete` again whatever its
events (epoller.cpp:88), so a channel disabled twice is watched, for errors and
hang-ups only. A channel `Poller` removed keeps a stale `index_`, and a second
`updateChannel` fails its assert; `Epoller` sets `kNew`, and takes it back.

### TimerQueue

Times are relative: an expiration is the time left, and `Tick` lets one unit of
it pass. `created` is the counter behind `Timer::numCreated()`, read where the
code reads it: when a timer is inserted, when it expires, when it is reset, and
when `addTimer` builds the `TimerId`. `RunAt` and `RunEvery` are `AddTimer` with
their intervals; in another thread it takes several steps (creation, the
functor, `ReturnId`), so that timers of other threads come in between. So they
may inside `handleRead`, which reads the counter once per timer and is therefore
in steps too: `HandleRead` moves what is due from `timers_` to the vector,
`EraseExpired` takes one of them out of `activeTiemrs_`, `StartRuns`, `RunTimer`
and `CallbackReturns` are the callbacks, which may add and cancel timers, and
`BeginReset`, `LookUp`, `InsertAgain` and `ResetDone` are `reset`, which looks
for a timer in `cancelingTimers_` under one number and may insert it under
another. The address of a timer is never used twice.

### TcpConnection, ConnectionLife

One connection from `newConnection` to its destructor, with the base loop, the
io loop (or one loop for both, `singleLoop`, a choice made before the server
starts), a user thread that kept the `TcpConnectionPtr`, and the peer. The io
loop takes the steps of `handleEvent` one callback at a time: close on a
readable hang-up, then read, then write, from the events poll reported before
the first of them ran. `queue` and `batch` are the functors of each loop; those
of `newConnection`, `removeConnection` and `connectDestory` own the connection,
those of `send` and `shutdown` bind `this`. The connection is destroyed when
the map, the user, the running callback and the functors all let go of it
(`Referenced`); functors of a batch let go together, at its end.

The loops here are `EventLoop` as seen from outside: batches of functors, each
in order, which `RunsInOrder` proves. The poller is `Poller` as seen from
outside: an update after the removal fails its assert, and a channel that was
disabled once is not polled again.

The kernel's `write` takes any prefix; it takes nothing after a FIN or a reset.
A reset may show as an error that is only logged, or as end of file.

`ConnectionLife` is the promise about a connection as a whole: accepted, open,
out of the map, out of the poller, closed, in that order and never back.
`TcpConnection` implements it for one connection with all that may happen to
it, `TcpServer` for each of several.

### TcpServer, Acceptor, EventLoopThreadPool

The server with its acceptor, its pool and all its connections. The kernel's
queue of clients feeds `Accept`, which takes the lowest free descriptor, as
accept does, the next name and the next loop of the pool; with no descriptor
free nothing happens and the socket stays readable. Each loop has its functors;
a descriptor is free again when the last functor or the map lets go of its
connection. A connection closes once, or twice in one event (`PeerCloses`,
`CloseAgain`), and in its own loop, while the base loop goes on accepting; each
time `HandleClose` asserts that it is `kConnected`, as `RunDestroy` does, and
`Establish` that it is `kConnecting`. An error of accept that the code does not expect ends the process
(`AcceptIsFatal`), as the code does with `log_fatal`.

### Connector

The socket that connects in the background, its channel, the retry timer and
the two functors (`start`, `resetChannel`), under a loop that polls, handles
what poll reported in either order of the two channels, and runs the functors.
An error comes with or without writability, and `Channel::handleEvent` calls
the error callback first. `timers` tells the timer `timerId_` names from
strays, which the destructor does not cancel. Starts come from the loop's
callbacks and from another thread. Nothing in the code tells a caller whether
the connector is at rest; `careless` remembers a start or restart while it was
not. Such a call can fail the asserts of `startInloop` or `connecting`, or leave
a stray timer behind; `CarefulUseIsSafe` says that nothing else does.

### Buffer, ByteQueue

The vector and its indices with the exact arithmetic of `makeSpace` and
`readFd`; `ByteQueue` is the promise. Read bytes stay in the vector as the code
leaves them there, so that a wrong index shows as a wrong byte.

### HttpServer

One connection of the HTTP server with a client whose requests the network cuts
anywhere. The stream is made of tokens: the text of a line, CR, LF. What the
code finds in a line by searching for spaces, `?` and `:` comes with the line as
a record; what it does with what it found is in the model, step by step of
`parseRequest`'s loop. Some of what the model follows the code in:

* a first line without a space, or whose method is unknown, is accepted, with
  the method left `kInvaild` and the version `kUnknow`, although the comment at
  httpServer.cpp:65 has an error returned for a message that does not parse;
  `HandledAsSent` says what such a request is handled as, apart from the rest,
  whose `Meaning` is what the client wrote; a line with a bad version is
  refused and stays in the buffer, where the next message finds it again;
* a header line without a colon ends the headers; `kExpectRequestBody` is never
  reached;
* one message is good for one request: a second one that came with it waits in
  the buffer until more data arrives (`Answered` is therefore about clients
  that wait for their response);
* the callback of httpServer_test.cpp leaves the status code unset for paths it
  does not know.

## 3. What TLC checks

| Run | Instance | Properties |
|---|---|---|
| `eventloop` | 2 threads, 3 functors, 1 channel | `TypeOK`, `NoLostWakeup`, `RunsInOrder`, `QueuedRuns`, `QuitStops` |
| `eventloopthread` | the creator, another thread, one loop, 2 functors | `StartedLoopExists`, `StartLoopReturns`, `EarlyWorkRuns`, `DestructorReturnsOnceLooping` |
| `lost_quit` | the same | `DestructorReturns` is violated |
| `poller` | 4 channels over 3 fds, both backends | `SlotsMatchChannels`, `StructuresAgree`, `EpollerInStep`, `SameWatched` |
| `timerqueue` | 2 timers, 1 other thread, delays up to 2 | `TypeOK`, `SameTimers`, `CancelIsFinal`, `ArmedInTime`, `EveryTimerFires` |
| `timer_expired_assert` | the same | `ExpiredAreActive` is violated |
| `tcp_connection` | 2 messages of 2 units, one or two loops | `TypeOK`, `StreamInOrder`, `StateAssertsHold`, `DestroyedOffPoller`, `FinAfterBuffer`, `LivesInOrder`, `CloseIsCompleted` |
| `tcp_late_send` | the same | `UpdatesRegistered` is violated |
| `buffer` | 2 byte values, vector 1+2, chunks up to 3 | `AssertsHold`, `IsByteQueue`, `GrowsByNeed` |
| `connector` | 3 calls of start and restart, delays 1 to 7 | `EachSocketOnce`, `CarefulUseIsSafe`, `NeverForgotten`, `Connects` |
| `tcp_server` | 3 clients, 2 descriptors, 0 to 2 pool loops | `TypeOK`, `DescriptorsApart`, `RoundRobin`, `LivesInOrder`, `ClientsAccepted` |
| `http_server` | 3 requests of 5 kinds, cut at any token | `HandledAsSent`, `ResponsesDelimited`, `Answered` |

Each property stands in its module under a comment that says what it means for
the code. Beside some definitions stands a mutated form (`ForeignOnly`,
`SlotToggles`, `WriteAlways`, `RetryUntilMax`, `ResetPlaceOnly`, ...): a
plausible slip in the code. Put in place of the definition it makes the property
fail, which shows that the property depends on the code being as it is. No
specification uses these forms.

### What the violated runs show

* `lost_quit`: `loop()` sets `quit_ = false` (eventLoop.cpp:67) after
  `startLoop` may already have returned the loop. A `quit()` in between, by a
  user or by `~EventLoopThread`, is forgotten, and the destructor's join never
  returns. With `quit_` false from the constructor on, and not reset, it would.
  `DestructorReturnsOnceLooping` shows that a loop that is inside `loop()` does
  stop.
* `timer_expired_assert`: the sequence number in the key of `activeTiemrs_` is
  not the timer's own but the number of timers created so far. With a second
  timer in between, `getExpired`'s `assert(n == 1)` fails.
* `tcp_late_send`: a `sendInloop` that was queued before, but runs after,
  `connectDestory` enables writing on the removed channel, and the assert of
  `Poller::updateChannel` fails.

The passing runs of these components therefore check the rest: they are about
the behaviours up to such a stop.

### What the passing runs show beside their point

Where the code does less than one might expect, the property says so in its
exact form:

* `StartedLoopExists`: `loop_` is not cleared when `threadFunc` returns, so a
  loop that its user quit, as `testEventLoopThread` does, is called once more by
  the destructor when it may no longer exist.
* `CancelIsFinal`: a cancel is final only under the number the timer is kept
  under. A timer created between the insertion and the return of `addTimer`, or
  between a cancel and the reset, moves the number on, and the cancelled timer
  goes on.
* `HandledAsSent`: a request with an unknown method, or without a space in its
  first line, is handed to the callback with its own headers, but with the
  method, version and target of a new `HttpRequest`.
* `SameWatched`: the two backends part over a channel updated without events
  (see `Pollers` above).
* `FinAfterBuffer`: handleClose turns the channel off and leaves the output
  where it is; a shutdown after that sends the FIN at once.
* `CarefulUseIsSafe`, `Answered`: see `Connector` and `HttpServer` above.

### Bounds

* *Functors* (3) and *threads* (2): one functor running, one behind it in the
  batch, one queued meanwhile; two threads whose wakeups overlap. Every functor
  is handed over once, which bounds the runs.
* *Channels* (4, over the descriptors 0, 1 and 2, two of them with the same
  one): removal from the end and from before it, the reuse of a descriptor by
  another channel, and descriptor 0, whose negated form is -1. The two channels
  of one descriptor are interchangeable, hence the symmetry.
* *Timers* (2) and *delays* (2 units): timers that expire together or apart,
  one created while the other waits, is handed over, or runs. The clock is
  relative, so runs are not bounded in length.
* *Messages* (2) of 2 *units*: one partly written and buffered while the other
  is sent directly, queued, or passes a shutdown. The peer sends one piece of
  data, one FIN and one reset.
* *Buffer*: chunks longer than the free room, than the initial vector and than
  the extra area together; `MaxContent` bounds what is readable at once.
* *Connector*: three starts and restarts, beside any number of stops, let a
  restart follow a failed start and a start meet the retry of another. Delays
  from 1 to 7 double three times and are capped off a power of two, as 30000
  caps 500. `MaxCalls` bounds the calls; attempts and retries are unbounded.
* *Server*: three clients for two descriptors, so that one waits for a
  descriptor to come back and gets one that was used; no, one and two loops in
  the pool, so that `next_` wraps at each length. Each client connects once.
* *HTTP*: three requests: a bad one, or one that closes, with requests before
  and behind it. `MaxRequests` bounds them.

`CHECK_DEADLOCK FALSE` stands where the system may come to rest: a poller that
waits, a queue after a failed assert or without timers, a connection that is
gone, a connector that is destroyed, a client that has sent its last request, a
loop that returned.

### Fairness

* `EventLoop`: weak fairness of the loop's own steps and of the second half of
  a call another thread began; callbacks and functors return. No fairness of
  the poll timeout, and none for threads to begin calls.
* `EventLoopThread`: the same, and of the steps inside `startLoop`,
  `threadFunc` and the destructor, but not of spurious wakeups.
* `TimerQueue`: time passes; the loop handles its timerfd and goes on inside
  `handleRead` (`BatchStep`), where callbacks return. The loop's functors compete with `handleRead` for the thread, one
  round of `loop()` each, hence strong fairness of `RunPending`: a pending
  functor is run in the round in which the loop comes to it, however many
  expirations lie before.
* `TcpConnection`: both loops go on and callbacks return; users and the peer
  owe nothing.
* `Connector`: the loop goes on and a start that began ends. The environment
  enters as strong fairness, as what it does depends on states that come and
  go: timers expire, a pending socket reports, and of infinitely many attempts
  one is taken up and one succeeds. That assumption is what `Connects` is about:
  a server that is tried again and again is reached. Without it nothing is
  promised but `NeverForgotten`.
* `TcpServer`: the loops go on, and every peer closes its connection some day.
  `PeerCloses` waits for its loop to poll, a state that comes again and again,
  hence strong fairness of it. Without it no descriptor would ever come back,
  and a client beyond the limit would wait for ever.
* `HttpServer`: what was sent arrives, and the server goes on; the client owes
  nothing.

## 4. What is proved

All theorems are for arbitrary constants, under the named assumptions of the
modules: the loop's thread is none of the others (`EventLoop`, `TimerQueue`), the
creator is a thread (`EventLoopThread`), fds are natural numbers and `NoChannel`
is no channel (`Poller`), the set of timers is finite, delays have a bound above
zero, and `None` is neither a timer nor a number (`TimerQueue`), a message has at least one unit (`TcpConnection`), descriptors
and the size of the pool are natural numbers and `None` is neither a client nor
a connection (`TcpServer`), sizes are natural numbers (`Buffer`), the first
delay is neither zero nor above the largest (`Connector`), and a request is a
sequence of lines: a first line, header lines with a field and a value, and the
empty line (`HttpServer`).

| Property | Theorem |
|---|---|
| `NoLostWakeup`, `RunsInOrder`, `TypeOK` of `EventLoop` | `NeverSleepsOnWork`, `ImplementsFunctorQueue`, `TypeCorrect` |
| `StartedLoopExists` | `AddressIsGood` |
| `SlotsMatchChannels`, `StructuresAgree` | `SlotsStayInStep`, `InternalAssertsHold` |
| `EpollerInStep`, `SameWatched` | `EpollerAsksNoMore`, `BackendsWatchTheSame` |
| `TypeOK`, `SameTimers`, `ArmedInTime`, `CancelIsFinal` of `TimerQueue` | `TypeCorrect`, `ListsAgree`, `NeverLate`, `CancelledForGood` |
| `TypeOK`, `StreamInOrder`, `FinAfterBuffer` of `TcpConnection` | `TypeCorrect`, `BytesInOrder`, `FinComesLast` |
| `StateAssertsHold`, `DestroyedOffPoller`, `LivesInOrder` of `TcpConnection` | `StatesAreGood`, `PollerOutlived`, `LifeImplemented` |
| `TypeOK`, `DescriptorsApart` of `TcpServer` | `TypeCorrect`, `FdsKeptApart` |
| `RoundRobin`, `LivesInOrder` of `TcpServer` | `LoopsTakeTurns`, `ConnectionsLiveInOrder` |
| `EachSocketOnce`, `NeverForgotten`, `CarefulUseIsSafe` | `SocketsEndOnce`, `WantedIsArmed`, `CarefulIsSafe` |
| `AssertsHold`, `IsByteQueue`, `GrowsByNeed` | `AssertsOfRoom`, `ImplementsByteQueue`, `GrowsOnlyByNeed` |
| `ResponsesDelimited`, `HandledAsSent` | `DelimitedOrLast`, `RequestsHandledAsSent` |

**EventLoopProofs.** `NoLostWakeup` speaks of the moment before poll and is not
inductive. `Inv` strengthens it: `TypeOK`; `WorkAnnounced`, that queued work is
announced at every point from which the loop still passes through poll before
it swaps; `QuitAnnounced`, the same of `quit_`; and `BatchFlag`, that
`callingPendingFunctors_` is set exactly while a batch may have functors left.
The argument: only the drain of the eventfd removes a wakeup, and it comes
before a swap that takes everything pushed before; a functor pushed after the
swap by the loop's own thread is pushed while `callingPendingFunctors_` is set,
and by another thread is followed by that thread's write (`wakingUp`).
`ImplementsFunctorQueue` maps each step to a step of `FunctorQueue` or to a
stutter: the swap leaves the concatenation of batch and pending functors as it
is, which `BatchFlag` (the batch is empty before the swap) gives.

The second half of the module is about `EventLoopThread`. Its invariant ties the
three accounts of the loop together: where `threadFunc` is (`LoopOK`), whether the address is published
and who can have it (`AddressOK`), and that a call can only be late once the
loop returned, which it does after a quit only (`DeadCallOK`).

**PollerProofs.** `Inv` holds the run's invariants and `FreshUnregistered` (a
channel that was never registered is in no structure and has no events), which
the registration of a channel needs. The lemma `SlotsAreDistinct` (two
registered channels never share a slot, as their fds differ and a slot shows
its fd, negated or not) carries the rest. The step that matters is
`RemoveChannel`: the last slot moves into the hole, and the proof finds its
channel from the stored fd, negated or not. Two more results follow from the
same invariant, `DisabledIsSilent` (a channel without events is not polled for)
and `OnlyInterestReported`.

For the two backends side by side `BothInv` adds what `Epoller` keeps in step by
itself (`EpollerInv`: `index_`, `channels_` and the kernel's list, which holds
exactly the channels marked `kAdded`) and `SameRegistry`: while `Poller` has
failed no assert, neither has `Epoller`, and both have the same channels
registered. Each call of `Epoller` is at most one `epoll_ctl` with the `index_`
that goes with it (`EpollerMove`), and where both make the same call, what
`Poller`'s asserts demand of the caller is enough for `Epoller`'s.

**TimerQueueProofs.** `QueueInv` adds to the properties that a timer is in one
place at a time (`PlacesOK`: the lists, the vector of `handleRead` as far as
`reset` has not come yet (`Ahead`), a functor that will add it, `addTimer`, or
not created), that no timer is asked to be added twice, and that the number in
a `TimerId` is never above the counter (`IdsOK`). Inside `getExpired` the index
holds the timers of the list and of the part of the vector not yet erased
(`ListsOK`). With those, `reset` inserts only what is not there; the timerfd is
armed for the earliest, which exists as the set is finite and times are
well-founded (`EarliestIs`); and a cancelled timer that is about to be restarted
is either in `cancelingTimers_` under the number `reset` looks for, or is put
back under a later number, however the counter moves between the look-up and
the insertion (`CancelledOK`). The equal sizes of the two sets
follow by a bijection (`Counted`). `TypeOK` bounds the sequence numbers by the
number of timers, which needs the counter to be exactly the number of timers
there are (`CountOK`).

**TcpConnectionProofs.** `Inv` has four parts. `TypesOK` and `QueuesOK` are
types. `StreamOK` is `StreamInOrder` with `BufferWatched`: what waits in the
buffer is watched for, unless the channel is off. `LifeInv` describes the three
phases of a connection's channel (`NewOK`, `AddedOK`, `RemovedOK`) over `left`,
the functors each loop has still to run across its batch and its queue, so that
a swap changes nothing. In the first phase only `connectEestablished` is on its
way; in the second `connectDestory` is on its way if and only if the server has
forgotten the connection; in the third it is not queued again. Every step is shown to be `Good`:
it keeps the invariant, sends no FIN past the buffer (`FinStep`), and moves the
life forward or not at all (`LifeMove`); the six theorems follow from that.

**TcpServerProofs.** The invariant has eight parts. `PoolOK` turns the walk of
`next_` into arithmetic: it is the number of connections so far modulo the size
of the pool, from which `NamesOK` has the loop of each connection by its name.
`WaitingOK` says which functors may wait for a connection in each state: its
set-up only while it is `kConnecting`, its destruction only while it is
`kConnected` and out of the map, each in its own loop and once. `StateOK` has
the other side: a connection is in its loop's poller while it is `kConnected`,
and once it is out of the map its destruction waits until it is done. What
waits is a position over batch and queue together, so that a swap changes
nothing (`AtSwapped`). From the two follow the asserts on the state in set-up,
close and destruction. Removals need no such care: a connection that closes
twice in one event asks for two, and the second finds nothing in the map.
`FdsApart` is then preserved because `Accept` takes a descriptor that no living
connection has, and a connection whose channel is in a poller is alive: the map
refers to it, or its destruction does (`ConnectedIsAlive`).
`ConnectionsLiveInOrder` reads the stage of `ConnectionLife` off the same state,
for one client at a time.

**ConnectorProofs.** Two invariants. `Inv`, for any caller: what poll reported
is consistent with the channel (`ActiveOK`: an error comes before the
writability of the same poll, and only while the channel is polled), the
deferred reset is in the queue exactly while the channel waits for it
(`ResetOK`), and a connector in `kConnecting` has a polled channel
(`ConnectingOK`). `CarefulInv`, for a caller who starts it at rest: it has one
thing to do at a time (`OneTask`).

**BufferProofs.** `BufferOK` orders the two indices inside the vector. The rest
is about slices: what `makeSpace`'s move, a resize, an append and a prepend do
to the slice between the indices (`CopyIs`, `CopyMoves`, `MoveDownIs`, `GrowIs`),
so that each operation's step is a step of `ByteQueue`. `GrowsByNeed` is
arithmetic over `makeSpace`'s test: what is free behind the data and in front
of it, beyond the prependable bytes, was less than what was asked for.

**HttpServerProofs.** `ResponsesDelimited` becomes inductive with the types of
`st` and `out`: a response is sent only while the connection is open, that is
while everything before it could be delimited.

`HandledAsSent` needs to know what is still to come. `ParserInv` says that the
unread stream, `buffer` followed by what is in flight, is what is left of the
request the parser is in, followed by the requests after it. A request is a
string of tokens at an offset (`Offsets`, a function from requests to places in
the stream), and the parser stands before its k-th line (`PlaceIs`), with the
headers of the lines before that, the last of each field (`HeadersAre`). What
`processRequestLine` made of the first line (`HandledAs`) is what the client
wrote, or what a new `HttpRequest` has where the line passed unread. Where
the network cuts the stream does not show in it: a delivery moves nothing.
`findCRLF` finds the CRLF of the very next line, because only line ends have
one, and a parsed line moves k by one. No induction over the text is needed, as
the offsets are part of the invariant and each step moves them by one line.

Only model-checked is what the prover cannot reach: liveness (`QueuedRuns`,
`QuitStops`, `EveryTimerFires`, `CloseIsCompleted`, `Connects`,
`ClientsAccepted`, `Answered`, and the progress of `EventLoopThread`:
`StartLoopReturns`, `EarlyWorkRuns`, `DestructorReturnsOnceLooping`). Every
other property of a passing run is proved.

## 5. What is not modelled

* The server's destruction: it leaves its connections' close callbacks bound to
  a server that is gone, and its acceptor listening. The pool never deletes the
  `EventLoopThread`s it created (`threads_` holds raw pointers), so a server's
  loops are never stopped.
* `Buffer::swap` and `shrink`, which nothing calls; `shrink`, with
  the data copied to the front of a smaller vector, leaves the indices where
  they were.
* The growth of `Epoller`'s `eventList_`: a poll reports any of the ready
  channels.
* A wall clock that is set back while timers wait; reuse of a `Timer`'s address
  after `delete`.
* What the code does with an object that no longer exists: the models say when
  that happens and follow it no further.
* The texts of HTTP responses; addresses, socket options and conversions of
  time (`NetAddress`, `Socket`, `TimeStamp`), which keep no state; `Logger` and
  the utilities, of which only the exit of `log_fatal` matters to others.
* `TcpClient` has no code; test/, other/ and proto/ are programs on top.

## 6. What could follow

1. The server's destruction and the pool's, once the code says what they are to
   do with connections that are open.
2. `TcpServer` over the detailed `TcpConnection`: its `poller` and `state` stand
   for what `TcpConnectionProofs` shows of one connection, and the two meet in
   `ConnectionLife` only.
