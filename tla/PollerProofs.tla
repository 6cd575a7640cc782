----------------------------- MODULE PollerProofs -----------------------------
(***************************************************************************)
(* Theorems about Poller, and about Poller and Epoller side by side, for   *)
(* any channels and any descriptors.                                       *)
(***************************************************************************)
EXTENDS Pollers, TLAPS

(* Descriptors are natural numbers, and ignored ones are negative. *)
LEMMA FdTypes ==
  /\ \A c \in Channels : FdOf[c] \in Nat /\ FdOf[c] \in Fds
  /\ \A c \in Channels : Ignored(FdOf[c]) \in Int /\ Ignored(FdOf[c]) < 0
  /\ \A f \in Fds : f \in Nat
  BY FdAssumption DEF Fds, Ignored

(* Before the first channel there is nothing to disagree. *)
LEMMA InvInit == Init => Inv
<1> SUFFICES ASSUME Init PROVE Inv
  OBVIOUS
<1>1. TypeOK
  BY DEF Init, TypeOK
<1>2. \A c \in Channels : ~Registered(c)
  BY FdTypes, NoChannelAssumption DEF Init, Registered
<1>3. Slots = {}
  BY DEF Init, Slots
<1> QED
  BY <1>1, <1>2, <1>3
     DEF Init, Inv, SlotsMatchChannels, FreshUnregistered, StructuresAgree,
         SilentWhenDisabled

(* A step on one channel leaves the slots of the others as they were, and  *)
(* registers none of them.                                                 *)
OthersKept(c) ==
  aborted' = "no" =>
    \A x \in Channels \ {c} :
      Registered(x)' => Registered(x) /\ Slot(index[x])' = Slot(index[x])

(* A step that stops the program on the caller's account. *)
LEMMA AbortStep ==
  ASSUME Inv, Abort("misuse"), event' \in [Channels -> SUBSET Events]
  PROVE  Inv'
  BY DEF Inv, Abort, TypeOK, SlotsMatchChannels, FreshUnregistered,
         StructuresAgree, SilentWhenDisabled

(* updateChannel of a channel that was never registered. *)
LEMMA AddStep ==
  ASSUME Inv, aborted = "no", NEW c \in Channels, NEW e \in SUBSET Events,
         event' = [event EXCEPT ![c] = e], e # {},
         index[c] < 0, AddChannel(c)
  PROVE  /\ Inv'
         /\ OthersKept(c)
         /\ aborted' = "no" => Slot(index[c])'.fd >= 0
<1> USE DEF Inv, TypeOK
<1>1. CASE channels[FdOf[c]] # NoChannel
  <2>1. event' \in [Channels -> SUBSET Events]
    OBVIOUS
  <2> QED
    BY <1>1, <2>1, AbortStep DEF AddChannel, Abort, OthersKept
<1>2. CASE channels[FdOf[c]] = NoChannel
  <2>1. /\ pollfds' = Append(pollfds, [fd |-> FdOf[c], events |-> e])
        /\ index' = [index EXCEPT ![c] = Len(pollfds)]
        /\ channels' = [channels EXCEPT ![FdOf[c]] = c]
        /\ active' = active /\ aborted' = aborted
    BY <1>2 DEF AddChannel
  <2>2. /\ Len(pollfds') = Len(pollfds) + 1
        /\ \A i \in 1 .. Len(pollfds) : pollfds'[i] = pollfds[i]
        /\ pollfds'[Len(pollfds) + 1] = [fd |-> FdOf[c], events |-> e]
    BY <2>1
  <2>3. TypeOK'
    BY <2>1, FdTypes
  <2>4. \A x \in Channels : Registered(x)' <=> Registered(x) \/ x = c
    BY <1>2, <2>1, FdTypes, NoChannelAssumption DEF Registered
  <2>5. IndexedSlot(c)' /\ Slot(index[c])'.fd >= 0
    BY <2>1, <2>2, FdTypes DEF IndexedSlot, Slot, Slots
  <2>6. \A x \in Channels : Registered(x) =>
          x # c /\ index[x] \in Slots /\ index'[x] = index[x]
            /\ Slot(index[x])' = Slot(index[x]) /\ event'[x] = event[x]
    BY <1>2, <2>1, <2>2, NoChannelAssumption
       DEF SlotsMatchChannels, IndexedSlot, Registered, Slot, Slots
  <2>7. SlotsMatchChannels'
    <3>1. ASSUME NEW x \in Channels, Registered(x)'
          PROVE  IndexedSlot(x)'
      BY <2>1, <2>2, <2>4, <2>5, <2>6, <3>1
         DEF SlotsMatchChannels, IndexedSlot, Slots, Slot
    <3>2. ASSUME NEW i \in Slots'
          PROVE  \E x \in Channels : Registered(x)' /\ index'[x] = i
      <4>1. i \in Slots \/ i = Len(pollfds)
        BY <2>1, <2>2, <3>2 DEF Slots
      <4>2. CASE i \in Slots
        <5>1. PICK x \in Channels : Registered(x) /\ index[x] = i
          BY <4>2 DEF SlotsMatchChannels
        <5> QED
          BY <2>4, <2>6, <5>1
      <4>3. CASE i = Len(pollfds)
        <5>1. index'[c] = i
          BY <2>1, <4>3
        <5> QED
          BY <2>4, <5>1
      <4> QED
        BY <4>1, <4>2, <4>3
    <3> QED
      BY <3>1, <3>2 DEF SlotsMatchChannels
  <2>8. FreshUnregistered'
    BY <2>1, <2>4 DEF FreshUnregistered
  <2>9. StructuresAgree' /\ SilentWhenDisabled'
    BY <2>1, <2>4, <2>6 DEF StructuresAgree, SilentWhenDisabled, Slot
  <2>10. OthersKept(c)
    BY <2>4, <2>6 DEF OthersKept, Slot
  <2> QED
    BY <2>3, <2>5, <2>7, <2>8, <2>9, <2>10
<1> QED
  BY <1>1, <1>2

(* Two registered channels never have one slot: their descriptors differ,  *)
(* and a slot shows its descriptor, ignored or not.                        *)
LEMMA SlotsAreDistinct ==
  ASSUME Inv, aborted = "no", NEW x \in Channels, NEW y \in Channels,
         Registered(x), Registered(y), index[x] = index[y]
  PROVE  x = y
<1>1. Slot(index[x]).fd \in {FdOf[x], Ignored(FdOf[x])}
  BY DEF Inv, SlotsMatchChannels, IndexedSlot
<1>2. Slot(index[x]).fd \in {FdOf[y], Ignored(FdOf[y])}
  BY DEF Inv, SlotsMatchChannels, IndexedSlot
<1>3. FdOf[x] = FdOf[y]
  BY <1>1, <1>2, FdTypes DEF Ignored
<1> QED
  BY <1>3 DEF Registered

(* updateChannel of a channel that was registered before. *)
LEMMA ModifyStep ==
  ASSUME Inv, aborted = "no", NEW c \in Channels, NEW e \in SUBSET Events,
         event' = [event EXCEPT ![c] = e],
         index[c] >= 0, ModifyChannel(c)
  PROVE  /\ Inv'
         /\ OthersKept(c)
         /\ aborted' = "no" =>
              Slot(index[c])'.fd = IF e = {} THEN Ignored(FdOf[c])
                                   ELSE Slot(index[c]).fd
<1> USE DEF Inv, TypeOK
<1>1. CASE ~Registered(c)
  <2>1. event' \in [Channels -> SUBSET Events]
    OBVIOUS
  <2> QED
    BY <1>1, <2>1, AbortStep DEF ModifyChannel, Abort, OthersKept
<1>2. CASE Registered(c)
  <2> DEFINE s == ModifiedSlot(c, Slot(index[c]))
  <2>1. IndexedSlot(c)
    BY <1>2 DEF SlotsMatchChannels
  <2>2. /\ pollfds' = [pollfds EXCEPT ![index[c] + 1] = s]
        /\ channels' = channels /\ index' = index
        /\ active' = active /\ aborted' = aborted
    BY <1>2, <2>1 DEF ModifyChannel, IndexedSlot, Slot
  <2>3. /\ s.fd \in {FdOf[c], Ignored(FdOf[c])}
        /\ s.events = e
        /\ e = {} => s.fd < 0
        /\ s.fd = IF e = {} THEN Ignored(FdOf[c]) ELSE Slot(index[c]).fd
        /\ s \in [fd : Fds \cup {-f - 1 : f \in Fds}, events : SUBSET Events]
    <3>1. /\ Slot(index[c]).fd \in {FdOf[c], Ignored(FdOf[c])}
          /\ FdOf[c] \in Fds /\ Ignored(FdOf[c]) < 0
          /\ Ignored(FdOf[c]) \in {-f - 1 : f \in Fds}
      BY <2>1, FdTypes DEF IndexedSlot, Ignored, Fds
    <3>2. s = [fd |-> s.fd, events |-> e] /\ s.fd \in {FdOf[c], Ignored(FdOf[c])}
      BY <3>1 DEF ModifiedSlot, NoneEvent
    <3>3. s.fd = IF e = {} THEN Ignored(FdOf[c]) ELSE Slot(index[c]).fd
      BY DEF ModifiedSlot, NoneEvent
    <3> QED
      BY <3>1, <3>2, <3>3
  <2>4. /\ Slots' = Slots
        /\ Slot(index[c])' = s
        /\ \A i \in Slots : i # index[c] => Slot(i)' = Slot(i)
    <3> HIDE DEF s
    <3> QED
      BY <2>1, <2>2 DEF Slots, Slot, IndexedSlot
  <2> HIDE DEF s
  <2>5. TypeOK'
    BY <2>1, <2>2, <2>3 DEF IndexedSlot, Slots
  <2>6. \A x \in Channels : Registered(x)' <=> Registered(x)
    BY <2>2 DEF Registered
  <2>7. \A x \in Channels : Registered(x) /\ x # c =>
          index[x] \in Slots /\ Slot(index[x])' = Slot(index[x])
    <3> SUFFICES ASSUME NEW x \in Channels, Registered(x), x # c
                 PROVE  index[x] \in Slots /\ Slot(index[x])' = Slot(index[x])
      OBVIOUS
    <3>1. index[x] \in Slots /\ index[x] # index[c]
      BY <1>2, SlotsAreDistinct DEF SlotsMatchChannels, IndexedSlot
    <3> QED
      BY <2>2, <2>4, <3>1 DEF Slot
  <2>8. SlotsMatchChannels'
    <3>1. ASSUME NEW x \in Channels, Registered(x)'
          PROVE  IndexedSlot(x)'
      <4>1. CASE x = c
        BY <2>1, <2>2, <2>3, <2>4, <4>1 DEF IndexedSlot
      <4>2. CASE x # c
        <5>1. /\ index'[x] = index[x] /\ event'[x] = event[x]
              /\ Slot(index[x])' = Slot(index[x])
              /\ IndexedSlot(x)
          BY <2>2, <2>6, <2>7, <3>1, <4>2 DEF SlotsMatchChannels
        <5> QED
          BY <2>2, <2>4, <5>1 DEF IndexedSlot
      <4> QED
        BY <4>1, <4>2
    <3>2. \A i \in Slots' : \E x \in Channels : Registered(x)' /\ index'[x] = i
      BY <2>2, <2>4, <2>6 DEF SlotsMatchChannels
    <3> QED
      BY <3>1, <3>2 DEF SlotsMatchChannels
  <2>9. FreshUnregistered'
    BY <2>2, <2>6 DEF FreshUnregistered
  <2>10. StructuresAgree'
    BY <2>2 DEF StructuresAgree
  <2>11. SilentWhenDisabled'
    <3> SUFFICES ASSUME NEW x \in Channels, Registered(x), event'[x] = {}
                 PROVE  Slot(index[x])'.fd < 0
      BY <2>2, <2>6 DEF SilentWhenDisabled, Slot
    <3>1. CASE x = c
      BY <2>3, <2>4, <3>1
    <3>2. CASE x # c
      BY <2>7, <3>2 DEF SilentWhenDisabled
    <3> QED
      BY <3>1, <3>2
  <2>12. OthersKept(c)
    BY <2>2, <2>6, <2>7 DEF OthersKept, Slot
  <2> QED
    BY <2>2, <2>3, <2>4, <2>5, <2>8, <2>9, <2>10, <2>11, <2>12 DEF Slot
<1> QED
  BY <1>1, <1>2

(* enableReading, enableWriting, disableWriting and disableAll. *)
LEMMA UpdateStep ==
  ASSUME Inv, NEW c \in Channels, NEW e \in SUBSET Events, Update(c, e)
  PROVE  /\ Inv'
         /\ OthersKept(c)
         /\ aborted' = "no" =>
              IF index[c] < 0
              THEN e # {} /\ Slot(index[c])'.fd >= 0
              ELSE Slot(index[c])'.fd = IF e = {} THEN Ignored(FdOf[c])
                                        ELSE Slot(index[c]).fd
<1>1. CASE index[c] < 0
  BY <1>1, AddStep DEF Update
<1>2. CASE ~(index[c] < 0)
  <2>1. index[c] >= 0
    BY <1>2 DEF Inv, TypeOK
  <2> QED
    BY <1>2, <2>1, ModifyStep DEF Update
<1> QED
  BY <1>1, <1>2

(* removeChannel: the channel of the last slot is found, and moves into    *)
(* the hole with its slot.                                                 *)
LEMMA RemoveStep ==
  ASSUME Inv, NEW c \in Channels, RemoveChannel(c)
  PROVE  Inv' /\ OthersKept(c)
<1> USE DEF Inv, TypeOK
<1>1. CASE ~Registered(c) \/ event[c] # {}
  <2>1. Abort("misuse") /\ event' = event
    BY <1>1 DEF RemoveChannel
  <2> QED
    BY <2>1, AbortStep DEF Abort, OthersKept
<1>2. CASE Registered(c) /\ event[c] = {}
  <2> DEFINE n == Len(pollfds)
             h == index[c]
  <2>1. /\ aborted = "no"
        /\ n \in Nat /\ h \in 0 .. n - 1
        /\ IndexedSlot(c)
    BY <1>2 DEF RemoveChannel, SlotsMatchChannels, IndexedSlot, Slots
  <2>2. PICK last \in Channels : Registered(last) /\ index[last] = n - 1
    <3>1. n - 1 \in Slots
      BY <2>1 DEF Slots
    <3> QED
      BY <2>1, <3>1 DEF SlotsMatchChannels
  <2>3. Slot(n - 1).fd \in {FdOf[last], Ignored(FdOf[last])}
    BY <2>1, <2>2 DEF SlotsMatchChannels, IndexedSlot
  <2>4. LastFd = FdOf[last] /\ LastChannel = last
    BY <2>2, <2>3, FdTypes DEF LastFd, LastChannel, Ignored, Registered
  <2>5. h # n - 1 => FdOf[last] # FdOf[c]
    BY <1>2, <2>2, NoChannelAssumption DEF Registered
  <2>6. /\ channels' = [channels EXCEPT ![FdOf[c]] = NoChannel]
        /\ pollfds' = FillHole(h)
        /\ index' = IF h = n - 1 THEN index ELSE [index EXCEPT ![last] = h]
        /\ event' = event /\ active' = active /\ aborted' = aborted
    BY <1>2, <2>1, <2>2, <2>4, <2>5, FdTypes, NoChannelAssumption
       DEF RemoveChannel, Slots
  <2>7. /\ Len(pollfds') = n - 1
        /\ Slots' = 0 .. n - 2
        /\ \A i \in 0 .. n - 2 :
             Slot(i)' = IF i = h THEN Slot(n - 1) ELSE Slot(i)
    BY <2>1, <2>6 DEF FillHole, Slots, Slot
  <2>8. TypeOK'
    <3>1. pollfds' \in Seq([fd : Fds \cup {-f - 1 : f \in Fds},
                            events : SUBSET Events])
      <4> DEFINE S == [fd : Fds \cup {-f - 1 : f \in Fds},
                       events : SUBSET Events]
      <4>1. pollfds \in Seq(S)
        OBVIOUS
      <4> HIDE DEF S
      <4>2. \A j \in 1 .. n : pollfds[j] \in S
        BY <4>1
      <4>3. FillHole(h) \in [1 .. n - 1 -> S]
        BY <2>1, <4>2 DEF FillHole
      <4>4. n - 1 \in Nat /\ \A m \in Nat : [1 .. m -> S] \subseteq Seq(S)
        BY <2>1
      <4>5. FillHole(h) \in Seq(S)
        BY <4>3, <4>4
      <4> QED
        BY <2>6, <4>5 DEF S
    <3> QED
      BY <2>1, <2>6, <3>1
  <2>9. \A x \in Channels : Registered(x)' <=> Registered(x) /\ x # c
    BY <1>2, <2>6, FdTypes, NoChannelAssumption DEF Registered
  <2>10. \A x \in Channels : Registered(x) /\ x # c =>
           /\ index'[x] \in Slots'
           /\ Slot(index[x])' = Slot(index[x])
    <3> SUFFICES ASSUME NEW x \in Channels, Registered(x), x # c
                 PROVE  /\ index'[x] \in Slots'
                        /\ Slot(index[x])' = Slot(index[x])
      OBVIOUS
    <3>1. index[x] \in 0 .. n - 1 /\ index[x] # h
      BY <1>2, <2>1, SlotsAreDistinct DEF SlotsMatchChannels, IndexedSlot, Slots
    <3>2. index[x] = n - 1 <=> x = last
      BY <2>1, <2>2, SlotsAreDistinct
    <3>3. CASE h = n - 1
      <4>1. index' = index
        BY <2>6, <3>3
      <4>2. index[x] \in 0 .. n - 2
        BY <2>1, <3>1, <3>3
      <4> QED
        BY <2>7, <3>1, <4>1, <4>2 DEF Slot
    <3>4. CASE h # n - 1 /\ x = last
      <4>1. index'[x] = h /\ h \in 0 .. n - 2
        BY <2>1, <2>6, <3>4
      <4> QED
        BY <2>2, <2>7, <3>4, <4>1 DEF Slot
    <3>5. CASE h # n - 1 /\ x # last
      <4>1. index'[x] = index[x] /\ index[x] \in 0 .. n - 2
        BY <2>1, <2>6, <3>1, <3>2, <3>5
      <4> QED
        BY <2>7, <3>1, <4>1 DEF Slot
    <3> QED
      BY <3>3, <3>4, <3>5
  <2>11. SlotsMatchChannels'
    <3>1. ASSUME NEW x \in Channels, Registered(x)'
          PROVE  IndexedSlot(x)'
      <4>1. x # c /\ IndexedSlot(x)
        BY <2>1, <2>9, <3>1 DEF SlotsMatchChannels
      <4>2. index'[x] \in Slots' /\ Slot(index[x])' = Slot(index[x])
        BY <2>9, <2>10, <3>1
      <4> QED
        BY <2>6, <4>1, <4>2 DEF IndexedSlot
    <3>2. ASSUME NEW i \in Slots'
          PROVE  \E x \in Channels : Registered(x)' /\ index'[x] = i
      <4>1. CASE i = h
        BY <2>1, <2>2, <2>6, <2>7, <2>9, <3>2, <4>1
      <4>2. CASE i # h
        <5>1. PICK x \in Channels : Registered(x) /\ index[x] = i
          <6>1. i \in Slots
            BY <2>1, <2>7, <3>2 DEF Slots
          <6> QED
            BY <2>1, <6>1 DEF SlotsMatchChannels
        <5>2. x # c /\ x # last
          BY <2>1, <2>2, <2>7, <3>2, <4>2, <5>1
        <5> QED
          BY <2>6, <2>9, <5>1, <5>2
      <4> QED
        BY <4>1, <4>2
    <3> QED
      BY <3>1, <3>2 DEF SlotsMatchChannels
  <2>12. FreshUnregistered'
    BY <2>1, <2>6, <2>9 DEF FreshUnregistered
  <2>13. StructuresAgree' /\ SilentWhenDisabled'
    BY <2>1, <2>6, <2>9, <2>10 DEF StructuresAgree, SilentWhenDisabled
  <2>14. OthersKept(c)
    BY <2>9, <2>10 DEF OthersKept
  <2> QED
    BY <2>8, <2>11, <2>12, <2>13, <2>14
<1> QED
  BY <1>1, <1>2

(* poll: whatever the kernel reports is found in channels_. *)
LEMMA PollStep ==
  ASSUME Inv, NEW ready \in SUBSET Slots, Poll(ready)
  PROVE  /\ Inv'
         /\ \A x \in active' : x \in Channels /\ Registered(x) /\ event[x] # {}
<1> USE DEF Inv, TypeOK
<1>1. ASSUME NEW i \in ready
      PROVE  \E x \in Channels :
               /\ channels[Slot(i).fd] = x
               /\ Registered(x) /\ event[x] # {}
  <2>1. PICK x \in Channels : Registered(x) /\ index[x] = i
    BY DEF Poll, FillActiveChannels, SlotsMatchChannels
  <2>2. Slot(i).fd = FdOf[x]
    BY <2>1, FdTypes DEF Poll, FillActiveChannels, SlotsMatchChannels, IndexedSlot
  <2>3. event[x] # {}
    <3>1. aborted = "no" /\ Slot(index[x]).fd >= 0
      BY <2>1 DEF Poll, FillActiveChannels
    <3>2. FdOf[x] \in Nat
      BY FdTypes
    <3> QED
      BY <2>1, <2>2, <3>1, <3>2 DEF SilentWhenDisabled
  <2> QED
    BY <2>1, <2>2, <2>3 DEF Registered
<1>2. /\ active' = {channels[Slot(i).fd] : i \in ready}
      /\ UNCHANGED <<pollfds, channels, index, event, aborted>>
  BY <1>1, NoChannelAssumption DEF Poll, FillActiveChannels
<1>3. \A x \in active' : x \in Channels /\ Registered(x) /\ event[x] # {}
  BY <1>1, <1>2
<1> QED
  BY <1>2, <1>3
     DEF SlotsMatchChannels, IndexedSlot, FreshUnregistered, StructuresAgree,
         SilentWhenDisabled, Registered, Slots, Slot

(* Every step of the poller keeps its structures in step. *)
LEMMA InvStep == Inv /\ [Next]_vars => Inv'
<1> SUFFICES ASSUME Inv, [Next]_vars PROVE Inv'
  OBVIOUS
<1>1. ASSUME NEW c \in Channels,
             \/ EnableReading(c) \/ EnableWriting(c)
             \/ DisableWriting(c) \/ DisableAll(c)
      PROVE  Inv'
  <2>1. PICK e \in SUBSET Events : Update(c, e)
    BY <1>1 DEF Inv, TypeOK, Events, EnableReading, EnableWriting,
                DisableWriting, DisableAll
  <2> QED
    BY <2>1, UpdateStep
<1>2. ASSUME NEW c \in Channels, RemoveChannel(c)
      PROVE  Inv'
  BY <1>2, RemoveStep
<1>3. ASSUME NEW c \in Channels, HandleEvent(c)
      PROVE  Inv'
  BY <1>3 DEF HandleEvent, Inv, TypeOK, SlotsMatchChannels, IndexedSlot,
              FreshUnregistered, StructuresAgree, SilentWhenDisabled,
              Registered, Slots, Slot
<1>4. ASSUME NEW ready \in SUBSET (0 .. Len(pollfds) - 1), Poll(ready)
      PROVE  Inv'
  BY <1>4, PollStep DEF Slots
<1>5. CASE UNCHANGED vars
  BY <1>5 DEF vars, Inv, TypeOK, SlotsMatchChannels, IndexedSlot,
              FreshUnregistered, StructuresAgree, SilentWhenDisabled,
              Registered, Slots, Slot
<1> QED
  BY <1>1, <1>2, <1>3, <1>4, <1>5 DEF Next

(* The inductive invariant holds in every execution.                       *)
THEOREM Invariance == Spec => []Inv
  BY InvInit, InvStep, PTL DEF Spec

(* No sequence of enables, disables and removals, in any interleaving with *)
(* poll, separates pollfds_, channels_ and the indices of the channels.    *)
THEOREM SlotsStayInStep == Spec => []SlotsMatchChannels
<1>1. Inv => SlotsMatchChannels
  BY DEF Inv
<1> QED
  BY <1>1, Invariance, PTL

(* None of the asserts of poller.cpp on its own structures ever fails.     *)
THEOREM InternalAssertsHold == Spec => []StructuresAgree
<1>1. Inv => StructuresAgree
  BY DEF Inv
<1> QED
  BY <1>1, Invariance, PTL

(* A channel whose events are all disabled is not polled.                  *)
THEOREM DisabledIsSilent == Spec => []SilentWhenDisabled
<1>1. Inv => SilentWhenDisabled
  BY DEF Inv
<1> QED
  BY <1>1, Invariance, PTL

(* fillActiveChannels reports registered channels that want events, only.  *)
THEOREM OnlyInterestReported == Spec => ReportsInterest
<1>1. Inv /\ [Next]_vars => [ReportedWithInterest]_vars
  <2> SUFFICES ASSUME Inv, Next
               PROVE  ReportedWithInterest
    OBVIOUS
  <2> USE DEF ReportedWithInterest
  <2>1. ASSUME NEW c \in Channels, NEW e \in SUBSET Events, Update(c, e)
        PROVE  active' = active
    BY <2>1 DEF Update, AddChannel, ModifyChannel, Abort
  <2>2. ASSUME NEW c \in Channels,
               \/ EnableReading(c) \/ EnableWriting(c)
               \/ DisableWriting(c) \/ DisableAll(c)
        PROVE  active' = active
    BY <2>1, <2>2 DEF Inv, TypeOK, Events, EnableReading, EnableWriting,
                      DisableWriting, DisableAll
  <2>3. ASSUME NEW c \in Channels, RemoveChannel(c) \/ HandleEvent(c)
        PROVE  active' \subseteq active
    BY <2>3 DEF RemoveChannel, HandleEvent, Abort
  <2>4. ASSUME NEW ready \in SUBSET (0 .. Len(pollfds) - 1), Poll(ready)
        PROVE  \A x \in active' : Registered(x) /\ event[x] # {}
    BY <2>4, PollStep DEF Slots
  <2> QED
    BY <2>2, <2>3, <2>4 DEF Next
<1> QED
  BY <1>1, Invariance, PTL DEF Spec, ReportsInterest

------------------------------------------------------------------------------
(* Epoller beside it.  What Epoller keeps in step by itself.               *)
EpollerInv ==
  /\ E!TypeOK
  /\ E!KernelInStep
  /\ KernelHoldsAdded

Entry(c) == [channel |-> c, events |-> event[c]]

(* The three values of index_ are different.                               *)
LEMMA IndicesDiffer ==
  E!kNew # E!kAdded /\ E!kNew # E!kDelete /\ E!kAdded # E!kDelete
  BY DEF E!kNew, E!kAdded, E!kDelete

(* The entry of a channel is no absent one.                                *)
LEMMA EntriesDiffer ==
  ASSUME NEW c \in Channels, NEW e
  PROVE  /\ [channel |-> c, events |-> e] # E!Absent
         /\ [channel |-> c, events |-> e].channel = c
         /\ E!Absent.channel = NoChannel
  BY NoChannelAssumption DEF E!Absent

(* The same as one statement of the kernel's entries: that of a descriptor *)
(* is absent, or the entry of a channel that is kAdded.                    *)
KernelMirrors ==
  /\ \A c \in Channels : echannels[FdOf[c]] = c <=> eindex[c] # E!kNew
  /\ \A c \in Channels : eindex[c] = E!kAdded => kernel[FdOf[c]] = Entry(c)
  /\ \A f \in Fds :
       \/ kernel[f] = E!Absent
       \/ \E c \in Channels : FdOf[c] = f /\ eindex[c] = E!kAdded

(* What the invariant says of the kernel's list ...                        *)
LEMMA MirrorsFromInv ==
  ASSUME EpollerInv, eaborted = "no"
  PROVE  KernelMirrors
  BY DEF EpollerInv, E!KernelInStep, KernelHoldsAdded, KernelMirrors, Entry, E!Registered

(* ... and the invariant from it.                                          *)
LEMMA InvFromMirrors ==
  KernelMirrors /\ E!TypeOK /\ eaborted # "internal" => EpollerInv
<1> SUFFICES ASSUME KernelMirrors, E!TypeOK, eaborted # "internal"
             PROVE  EpollerInv
  OBVIOUS
<1>1. ASSUME NEW c \in Channels, kernel[FdOf[c]].channel = c
      PROVE  eindex[c] = E!kAdded
  <2>1. kernel[FdOf[c]] # E!Absent
    BY <1>1, EntriesDiffer, NoChannelAssumption
  <2>2. PICK d \in Channels : FdOf[d] = FdOf[c] /\ eindex[d] = E!kAdded
    BY <2>1 DEF KernelMirrors, Fds
  <2>3. kernel[FdOf[c]] = [channel |-> d, events |-> event[d]]
    BY <2>2 DEF KernelMirrors, Entry
  <2>4. kernel[FdOf[c]].channel = d
    BY <2>3
  <2> QED
    BY <1>1, <2>2, <2>4
<1>2. ASSUME NEW c \in Channels, kernel[FdOf[c]] = [channel |-> c, events |-> event[c]]
      PROVE  eindex[c] = E!kAdded
  <2>1. kernel[FdOf[c]].channel = c
    BY <1>2
  <2> QED
    BY <1>1, <2>1
<1>3. \A c \in Channels : E!Registered(c) <=> eindex[c] # E!kNew
  BY DEF KernelMirrors, E!Registered
<1>4. \A c \in Channels :
        eindex[c] = E!kAdded => kernel[FdOf[c]] = [channel |-> c, events |-> event[c]]
  BY DEF KernelMirrors, Entry
<1>5. E!KernelInStep
  BY <1>1, <1>2, <1>3, <1>4, Zenon DEF E!KernelInStep
<1>6. KernelHoldsAdded
  BY DEF KernelMirrors, KernelHoldsAdded
<1> QED
  BY <1>5, <1>6 DEF EpollerInv

(* A registered channel's descriptor becomes present or absent in the      *)
(* kernel, with the index that says so.                                    *)
Moved(c, e, i) ==
  /\ eaborted' = "no"
  /\ event' = [event EXCEPT ![c] = e]
  /\ eindex' = [eindex EXCEPT ![c] = i]
  /\ echannels' = [echannels EXCEPT ![FdOf[c]] = IF i = E!kNew THEN NoChannel ELSE c]
  /\ kernel' = [kernel EXCEPT ![FdOf[c]] =
                  IF i = E!kAdded THEN [channel |-> c, events |-> e] ELSE E!Absent]

(* One epoll_ctl for one channel, with its index_ set to match.            *)
LEMMA EpollerMove ==
  ASSUME EpollerInv, eaborted = "no", NEW c \in Channels, NEW e \in SUBSET Events,
         NEW i \in {E!kNew, E!kAdded, E!kDelete},
         echannels[FdOf[c]] \in {c, NoChannel}, Moved(c, e, i)
  PROVE  EpollerInv'
<1> USE DEF Moved
<1>1. /\ FdOf[c] \in Fds /\ E!Fds = Fds
      /\ \A x \in Channels : FdOf[x] \in Fds
  BY DEF Fds, E!Fds
<1>2. KernelMirrors
  BY MirrorsFromInv
<1>3. E!TypeOK'
  BY <1>1 DEF EpollerInv, E!TypeOK, E!Absent, Events
<1>4. \A x \in Channels \ {c} :
        eindex[x] # E!kNew => FdOf[x] # FdOf[c]
  BY <1>2, NoChannelAssumption DEF KernelMirrors
<1>5. ASSUME NEW x \in Channels
      PROVE  echannels'[FdOf[x]] = x <=> eindex'[x] # E!kNew
  BY <1>1, <1>2, <1>4, IndicesDiffer, NoChannelAssumption
     DEF KernelMirrors, EpollerInv, E!TypeOK
<1>6. ASSUME NEW x \in Channels, eindex'[x] = E!kAdded
      PROVE  kernel'[FdOf[x]] = Entry(x)'
  <2>1. CASE x = c
    BY <1>1, <1>6, <2>1, IndicesDiffer DEF EpollerInv, E!TypeOK, Entry
  <2>2. CASE x # c
    <3>1. eindex[x] = E!kAdded /\ FdOf[x] # FdOf[c]
      BY <1>4, <1>6, <2>2, IndicesDiffer DEF EpollerInv, E!TypeOK
    <3>2. kernel'[FdOf[x]] = kernel[FdOf[x]] /\ event'[x] = event[x]
      BY <1>1, <2>2, <3>1 DEF EpollerInv, E!TypeOK
    <3> QED
      BY <1>2, <3>1, <3>2 DEF KernelMirrors, Entry
  <2> QED
    BY <2>1, <2>2
<1>7. ASSUME NEW f \in Fds, kernel'[f] # E!Absent
      PROVE  \E x \in Channels : FdOf[x] = f /\ eindex'[x] = E!kAdded
  <2>1. CASE f = FdOf[c]
    <3>1. i = E!kAdded
      BY <1>1, <1>7, <2>1 DEF EpollerInv, E!TypeOK
    <3> QED
      BY <2>1, <3>1 DEF EpollerInv, E!TypeOK
  <2>2. CASE f # FdOf[c]
    <3>1. kernel[f] # E!Absent
      BY <1>1, <1>7, <2>2 DEF EpollerInv, E!TypeOK
    <3>2. PICK x \in Channels : FdOf[x] = f /\ eindex[x] = E!kAdded
      BY <1>2, <3>1 DEF KernelMirrors
    <3> QED
      BY <2>2, <3>2 DEF EpollerInv, E!TypeOK
  <2> QED
    BY <2>1, <2>2
<1>8. KernelMirrors'
  BY <1>5, <1>6, <1>7 DEF KernelMirrors
<1>9. (KernelMirrors /\ E!TypeOK /\ eaborted # "internal" => EpollerInv)'
  BY InvFromMirrors, PTL
<1> QED
  BY <1>3, <1>8, <1>9

(* An assert fails on the caller's account. *)
LEMMA EpollerAbort ==
  ASSUME EpollerInv, event' \in [Channels -> SUBSET Events], E!Abort("misuse")
  PROVE  EpollerInv' /\ kernel' = kernel
  BY DEF EpollerInv, E!TypeOK, E!KernelInStep, KernelHoldsAdded, E!Abort, Events

(* Epoller's updateChannel, after channel.cpp set the channel's events to  *)
(* e: its structures stay in step, and the kernel has the channel if it    *)
(* was not there or wants events.                                          *)
LEMMA EpollerUpdate ==
  ASSUME EpollerInv, eaborted = "no", NEW c \in Channels, NEW e \in SUBSET Events,
         event' = [event EXCEPT ![c] = e], E!UpdateChannel(c)
  PROVE  /\ EpollerInv'
         /\ \A f \in Fds \ {FdOf[c]} : kernel'[f] = kernel[f]
         /\ echannels[FdOf[c]] \in {c, NoChannel} =>
              /\ eaborted' = "no"
              /\ echannels' = [echannels EXCEPT ![FdOf[c]] = c]
              /\ e # {} => kernel'[FdOf[c]] # E!Absent
              /\ e = {} /\ kernel[FdOf[c]] # E!Absent =>
                   kernel'[FdOf[c]] = E!Absent
<1> DEFINE fd == FdOf[c]
<1>1. /\ fd \in Fds /\ E!Fds = Fds /\ event'[c] = e
      /\ event' \in [Channels -> SUBSET Events]
      /\ kernel \in [Fds -> [channel : Channels \cup {NoChannel},
                             events : SUBSET {"read", "write"}]]
      /\ echannels = [echannels EXCEPT ![fd] = echannels[fd]]
      /\ eindex = [eindex EXCEPT ![c] = eindex[c]]
      /\ eindex[c] \in {E!kNew, E!kAdded, E!kDelete}
  BY DEF Fds, E!Fds, EpollerInv, E!TypeOK, Events
<1>2. KernelMirrors
  BY MirrorsFromInv
<1>3. CASE \/ eindex[c] = E!kNew /\ echannels[fd] # NoChannel
           \/ eindex[c] # E!kNew /\ echannels[fd] # c
  <2>1. E!Abort("misuse")
    BY <1>3 DEF E!UpdateChannel, E!Registered
  <2>2. ~(echannels[fd] \in {c, NoChannel})
    BY <1>2, <1>3, NoChannelAssumption DEF KernelMirrors
  <2> QED
    BY <1>1, <2>1, <2>2, EpollerAbort
<1>4. CASE /\ echannels[fd] \in {c, NoChannel}
           /\ eindex[c] # E!kAdded
           /\ eindex[c] = E!kNew <=> echannels[fd] = NoChannel
  <2>1. kernel[fd] = E!Absent
    <3>1. ASSUME NEW d \in Channels, FdOf[d] = fd, eindex[d] = E!kAdded
          PROVE  FALSE
      BY <1>2, <1>4, <3>1, IndicesDiffer, NoChannelAssumption DEF KernelMirrors
    <3> QED
      BY <1>1, <1>2, <3>1 DEF KernelMirrors
  <2>2. /\ echannels' = [echannels EXCEPT ![fd] = c]
        /\ eindex' = [eindex EXCEPT ![c] = E!kAdded]
        /\ E!Ctl("ADD", c)
    BY <1>4, NoChannelAssumption DEF E!UpdateChannel, E!NeedsAdd, E!Registered
  <2>3. /\ kernel' = [kernel EXCEPT ![fd] = [channel |-> c, events |-> e]]
        /\ eaborted' = eaborted
    BY <1>1, <2>1, <2>2 DEF E!Ctl
  <2>4. EpollerInv'
    <3>1. Moved(c, e, E!kAdded)
      BY <2>2, <2>3, IndicesDiffer DEF Moved
    <3> QED
      BY <1>4, <3>1, EpollerMove
  <2>5. kernel'[fd] = [channel |-> c, events |-> e]
    BY <1>1, <2>3
  <2>6. kernel'[fd] # E!Absent /\ \A f \in Fds \ {fd} : kernel'[f] = kernel[f]
    BY <1>1, <2>3, <2>5, EntriesDiffer
  <2> QED
    BY <2>1, <2>2, <2>3, <2>4, <2>6
<1>5. CASE echannels[fd] = c /\ eindex[c] = E!kAdded
  <2>1. kernel[fd] # E!Absent
    <3>1. kernel[fd] = [channel |-> c, events |-> event[c]]
      BY <1>2, <1>5 DEF KernelMirrors, Entry
    <3> QED
      BY <3>1, EntriesDiffer
  <2>2. /\ echannels' = [echannels EXCEPT ![fd] = c]
        /\ eindex' = [eindex EXCEPT ![c] = IF e = {} THEN E!kDelete ELSE E!kAdded]
        /\ E!Ctl(IF e = {} THEN "DEL" ELSE "MOD", c)
    BY <1>1, <1>5, IndicesDiffer
       DEF E!UpdateChannel, E!NeedsAdd, E!Registered, E!Operation
  <2>3. /\ eaborted' = eaborted
        /\ kernel' = [kernel EXCEPT ![fd] = IF e = {} THEN E!Absent
                                             ELSE [channel |-> c, events |-> e]]
    BY <1>1, <2>1, <2>2 DEF E!Ctl
  <2>4. EpollerInv'
    <3>1. Moved(c, e, IF e = {} THEN E!kDelete ELSE E!kAdded)
      BY <2>2, <2>3, IndicesDiffer DEF Moved
    <3> QED
      BY <1>5, <3>1, EpollerMove
  <2>5. kernel'[fd] = IF e = {} THEN E!Absent ELSE [channel |-> c, events |-> e]
    BY <1>1, <2>3
  <2>6. (e # {} => kernel'[fd] # E!Absent) /\ (e = {} => kernel'[fd] = E!Absent)
    BY <2>5, EntriesDiffer
  <2>7. \A f \in Fds \ {fd} : kernel'[f] = kernel[f]
    BY <1>1, <2>3
  <2> QED
    BY <2>2, <2>3, <2>4, <2>6, <2>7
<1> QED
  BY <1>1, <1>2, <1>3, <1>4, <1>5, IndicesDiffer, NoChannelAssumption DEF KernelMirrors

(* Epoller's removeChannel. *)
LEMMA EpollerRemove ==
  ASSUME EpollerInv, eaborted = "no", NEW c \in Channels,
         event' = event, E!RemoveChannel(c)
  PROVE  /\ EpollerInv'
         /\ \A f \in Fds \ {FdOf[c]} : kernel'[f] = kernel[f]
         /\ echannels[FdOf[c]] = c /\ event[c] = {} =>
              /\ eaborted' = "no"
              /\ echannels' = [echannels EXCEPT ![FdOf[c]] = NoChannel]
<1> DEFINE fd == FdOf[c]
<1>1. /\ fd \in Fds /\ E!Fds = Fds
      /\ event \in [Channels -> SUBSET Events]
      /\ event' = [event EXCEPT ![c] = event[c]]
      /\ kernel \in [Fds -> [channel : Channels \cup {NoChannel},
                             events : SUBSET {"read", "write"}]]
      /\ eindex[c] \in {E!kNew, E!kAdded, E!kDelete}
  BY DEF Fds, E!Fds, EpollerInv, E!TypeOK, Events
<1>2. KernelMirrors
  BY MirrorsFromInv
<1>3. CASE echannels[fd] # c \/ event[c] # {}
  <2>1. E!Abort("misuse")
    BY <1>3 DEF E!RemoveChannel, E!Registered
  <2> QED
    BY <1>1, <1>3, <2>1, EpollerAbort
<1>4. CASE echannels[fd] = c /\ event[c] = {}
  <2>1. eindex[c] # E!kNew
    BY <1>2, <1>4 DEF KernelMirrors
  <2>2. E!Forget(c)
    BY <1>4, <2>1 DEF E!RemoveChannel, E!Registered
  <2>3. /\ echannels' = [echannels EXCEPT ![fd] = NoChannel]
        /\ eindex' = [eindex EXCEPT ![c] = E!kNew]
    BY <2>2 DEF E!Forget
  <2>4. /\ kernel' = [kernel EXCEPT ![fd] = E!Absent]
        /\ eaborted' = eaborted
    <3>1. CASE eindex[c] = E!kAdded
      BY <2>2, <3>1 DEF E!Forget, E!Ctl
    <3>2. CASE eindex[c] # E!kAdded
      <4>1. ASSUME NEW d \in Channels, FdOf[d] = fd, eindex[d] = E!kAdded
            PROVE  FALSE
        BY <1>2, <1>4, <3>2, <4>1, IndicesDiffer DEF KernelMirrors
      <4>2. kernel[fd] = E!Absent
        BY <1>1, <1>2, <4>1 DEF KernelMirrors
      <4> QED
        BY <1>1, <2>2, <3>2, <4>2 DEF E!Forget
    <3> QED
      BY <3>1, <3>2
  <2>5. EpollerInv'
    <3>1. Moved(c, event[c], E!kNew)
      BY <1>1, <2>3, <2>4, IndicesDiffer DEF Moved
    <3> QED
      BY <1>1, <1>4, <3>1, EpollerMove
  <2>6. \A f \in Fds \ {fd} : kernel'[f] = kernel[f]
    BY <1>1, <2>4
  <2> QED
    BY <2>3, <2>4, <2>5, <2>6
<1> QED
  BY <1>3, <1>4

(* epoll_wait: no event comes with a pointer to a channel that is gone.    *)
LEMMA EpollerWait ==
  ASSUME EpollerInv, NEW ready \in SUBSET Fds, E!Wait(ready)
  PROVE  UNCHANGED <<event, epollerVars>>
<1>1. eaborted = "no" /\ UNCHANGED <<event, echannels, eindex, kernel>>
  BY DEF E!Wait
<1>2. KernelMirrors
  BY <1>1, MirrorsFromInv
<1>3. ASSUME NEW f \in ready
      PROVE  echannels[f] = kernel[f].channel
  <2>1. PICK c \in Channels : FdOf[c] = f /\ eindex[c] = E!kAdded
    BY <1>2 DEF KernelMirrors, E!Wait
  <2>2. kernel[f] = [channel |-> c, events |-> event[c]] /\ echannels[f] = c
    BY <1>2, <2>1, IndicesDiffer DEF KernelMirrors, Entry
  <2> QED
    BY <2>2
<1> QED
  BY <1>1, <1>3 DEF E!Wait, epollerVars

------------------------------------------------------------------------------
(* Before the first channel both are empty.                                *)
LEMMA BothStart == BothInit => BothInv
<1> SUFFICES ASSUME BothInit PROVE BothInv
  OBVIOUS
<1> USE DEF BothInit
<1>1. Inv /\ aborted = "no" /\ toggled = {}
  BY InvInit DEF Init
<1>2. E!TypeOK
  BY DEF E!Init, E!TypeOK, E!Fds, E!Absent
<1>3. \A c \in Channels : FdOf[c] \in Fds /\ E!Fds = Fds
  BY DEF Fds, E!Fds
<1>4. /\ echannels = [f \in Fds |-> NoChannel]
      /\ eindex = [c \in Channels |-> E!kNew]
      /\ kernel = [f \in Fds |-> E!Absent]
      /\ channels = echannels /\ eaborted = "no"
  BY DEF Fds, Init, E!Init, E!Fds
<1>5. KernelMirrors
  BY <1>3, <1>4, IndicesDiffer, NoChannelAssumption DEF KernelMirrors
<1>6. EpollerInv
  BY <1>2, <1>4, <1>5, InvFromMirrors
<1>7. \A c \in Channels : ~Registered(c)
  BY <1>3, <1>4, NoChannelAssumption DEF Registered
<1> QED
  BY <1>1, <1>4, <1>6, <1>7
     DEF BothInv, EpollerInv, EpollerInStep, SameRegistry, SameWatched

(* What one of the four updates leaves in both: the registry is still the  *)
(* same, the other channels are watched as before, and this one as its     *)
(* events say, unless it had been updated while it had none.               *)
LEMMA UpdateBothStep ==
  ASSUME BothInv, NEW c \in Channels, UpdateBoth(c)
  PROVE  BothInv'
<1>1. PICK e \in SUBSET Events : Update(c, e)
  BY DEF BothInv, Inv, TypeOK, Events, UpdateBoth, EnableReading, EnableWriting,
         DisableWriting, DisableAll
<1>2. /\ aborted = "no" /\ eaborted = "no" /\ echannels = channels
      /\ EpollerInv /\ Inv
      /\ event' = [event EXCEPT ![c] = e] /\ event'[c] = e
      /\ FdOf[c] \in Fds /\ \A x \in Channels : FdOf[x] \in Fds
  BY <1>1 DEF BothInv, EpollerInv, EpollerInStep, SameRegistry, Update, Fds, Inv, TypeOK
<1>3. /\ EpollerInv'
      /\ \A f \in Fds \ {FdOf[c]} : kernel'[f] = kernel[f]
      /\ echannels[FdOf[c]] \in {c, NoChannel} =>
           /\ eaborted' = "no"
           /\ echannels' = [echannels EXCEPT ![FdOf[c]] = c]
           /\ e # {} => kernel'[FdOf[c]] # E!Absent
           /\ e = {} /\ kernel[FdOf[c]] # E!Absent => kernel'[FdOf[c]] = E!Absent
  BY <1>2, EpollerUpdate DEF UpdateBoth
<1>4. /\ Inv'
      /\ OthersKept(c)
      /\ aborted' = "no" =>
           IF index[c] < 0
           THEN e # {} /\ Slot(index[c])'.fd >= 0
           ELSE Slot(index[c])'.fd = IF e = {} THEN Ignored(FdOf[c])
                                     ELSE Slot(index[c]).fd
  BY <1>1, <1>2, UpdateStep
<1>5. toggled' = IF index[c] >= 0 /\ event[c] = {} THEN toggled \cup {c} ELSE toggled
  BY DEF UpdateBoth, Toggles
<1>6. CASE aborted' # "no"
  BY <1>3, <1>4, <1>5, <1>6
     DEF BothInv, EpollerInv, EpollerInStep, SameRegistry, SameWatched
<1>7. CASE aborted' = "no"
  <2>1. /\ channels[FdOf[c]] \in {c, NoChannel}
        /\ channels' = [channels EXCEPT ![FdOf[c]] = c]
        /\ index[c] >= 0 => channels[FdOf[c]] = c
    <3>1. CASE index[c] < 0
      BY <1>1, <1>2, <1>7, <3>1 DEF Update, AddChannel, Abort, Inv, TypeOK
    <3>2. CASE index[c] >= 0
      BY <1>1, <1>2, <1>7, <3>2
         DEF Update, ModifyChannel, Abort, Registered, Inv, TypeOK
    <3> QED
      BY <1>2, <3>1, <3>2 DEF Inv, TypeOK
  <2>2. eaborted' = "no" /\ echannels' = channels'
    BY <1>2, <1>3, <2>1
  <2>3. ASSUME NEW x \in Channels, Registered(x)'
        PROVE  LET polls == Slot(index[x])'.fd >= 0
                   epolls == kernel'[FdOf[x]] # E!Absent
               IN  /\ x \notin toggled' => polls = (event'[x] # {}) /\ epolls = polls
                   /\ polls => event'[x] # {}
                   /\ event'[x] # {} => epolls
    <3>1. CASE x # c
      <4>1. Registered(x) /\ Slot(index[x])' = Slot(index[x]) /\ event'[x] = event[x]
        BY <1>2, <1>4, <1>7, <2>3, <3>1 DEF OthersKept, Inv, TypeOK
      <4>2. FdOf[x] # FdOf[c]
        BY <1>2, <2>1, <2>3, <3>1 DEF Registered, Inv, TypeOK
      <4>3. kernel'[FdOf[x]] = kernel[FdOf[x]] /\ (x \in toggled' <=> x \in toggled)
        BY <1>2, <1>3, <1>5, <3>1, <4>2
      <4> QED
        BY <1>2, <4>1, <4>3 DEF BothInv, SameWatched
    <3>2. CASE x = c /\ index[c] < 0
      BY <1>2, <1>3, <1>4, <1>7, <2>1, <3>2
    <3>3. CASE x = c /\ index[c] >= 0
      <4>1. Registered(c) /\ Ignored(FdOf[c]) < 0
        BY <2>1, <3>3, FdTypes DEF Registered
      <4>2. /\ Slot(index[c])'.fd = IF e = {} THEN Ignored(FdOf[c]) ELSE Slot(index[c]).fd
            /\ e # {} => kernel'[FdOf[c]] # E!Absent
            /\ e = {} /\ kernel[FdOf[c]] # E!Absent => kernel'[FdOf[c]] = E!Absent
        <5>1. ~(index[c] < 0) /\ echannels[FdOf[c]] \in {c, NoChannel}
          BY <1>2, <2>1, <3>3 DEF Inv, TypeOK
        <5> QED
          BY <1>3, <1>4, <1>7, <5>1
      <4>3. /\ Slot(index[c]).fd >= 0 => event[c] # {}
            /\ c \notin toggled =>
                 (Slot(index[c]).fd >= 0) = (event[c] # {})
            /\ event[c] # {} => kernel[FdOf[c]] # E!Absent
        BY <1>2, <4>1 DEF BothInv, SameWatched
      <4>4. c \notin toggled' => c \notin toggled /\ event[c] # {}
        BY <1>5, <3>3
      <4>5. CASE e = {}
        <5>1. ~(Slot(index[c])'.fd >= 0)
          BY <4>1, <4>2, <4>5, FdTypes
        <5> QED
          BY <1>2, <3>3, <4>2, <4>3, <4>4, <4>5, <5>1
      <4>6. CASE e # {}
        <5>1. Slot(index[c])'.fd = Slot(index[c]).fd
          BY <4>2, <4>6
        <5> QED
          BY <1>2, <3>3, <4>2, <4>3, <4>4, <4>6, <5>1
      <4> QED
        BY <4>5, <4>6
    <3> QED
      BY <1>2, <3>1, <3>2, <3>3 DEF Inv, TypeOK
  <2>4. SameWatched'
    BY <2>3 DEF SameWatched, Slot
  <2> QED
    BY <1>3, <1>4, <1>5, <2>2, <2>4 DEF BothInv, EpollerInv, EpollerInStep, SameRegistry
<1> QED
  BY <1>6, <1>7

(* removeChannel of both. *)
LEMMA RemoveBothStep ==
  ASSUME BothInv, NEW c \in Channels, RemoveBoth(c)
  PROVE  BothInv'
<1>1. /\ aborted = "no" /\ eaborted = "no" /\ echannels = channels
      /\ EpollerInv /\ Inv /\ event' = event /\ toggled' = toggled
      /\ \A x \in Channels : FdOf[x] \in Fds
  BY DEF RemoveBoth, RemoveChannel, BothInv, EpollerInv, EpollerInStep, SameRegistry, Fds
<1>2. /\ EpollerInv'
      /\ \A f \in Fds \ {FdOf[c]} : kernel'[f] = kernel[f]
      /\ echannels[FdOf[c]] = c /\ event[c] = {} =>
           /\ eaborted' = "no"
           /\ echannels' = [echannels EXCEPT ![FdOf[c]] = NoChannel]
  BY <1>1, EpollerRemove DEF RemoveBoth
<1>3. Inv' /\ OthersKept(c)
  BY <1>1, RemoveStep DEF RemoveBoth
<1>4. CASE aborted' # "no"
  BY <1>1, <1>2, <1>3, <1>4
     DEF BothInv, EpollerInv, EpollerInStep, SameRegistry, SameWatched
<1>5. CASE aborted' = "no"
  <2>1. /\ channels[FdOf[c]] = c /\ event[c] = {}
        /\ channels' = [channels EXCEPT ![FdOf[c]] = NoChannel]
    BY <1>5 DEF RemoveBoth, RemoveChannel, Abort, Registered
  <2>2. eaborted' = "no" /\ echannels' = channels'
    BY <1>1, <1>2, <2>1
  <2>3. ASSUME NEW x \in Channels, Registered(x)'
        PROVE  /\ Registered(x) /\ Slot(index[x])' = Slot(index[x])
               /\ kernel'[FdOf[x]] = kernel[FdOf[x]]
    <3>1. FdOf[x] # FdOf[c]
      BY <1>1, <2>1, <2>3, NoChannelAssumption DEF Registered, Inv, TypeOK
    <3> QED
      BY <1>1, <1>2, <1>3, <1>5, <2>3, <3>1 DEF OthersKept
  <2>4. SameWatched'
    BY <1>1, <2>3 DEF BothInv, SameWatched, Slot
  <2> QED
    BY <1>1, <1>2, <1>3, <2>2, <2>4
       DEF BothInv, EpollerInv, EpollerInStep, SameRegistry
<1> QED
  BY <1>4, <1>5

(* The polls of either, and the loop's handling of what Poller reported,   *)
(* change none of the structures.                                          *)
LEMMA SilentStep ==
  ASSUME BothInv, Inv',
         UNCHANGED <<pollfds, channels, index, event, aborted, epollerVars, toggled>>
  PROVE  BothInv'
<1>1. SameWatched'
  BY DEF BothInv, SameWatched, Registered, Slot, epollerVars
<1>2. E!TypeOK' /\ E!KernelInStep' /\ KernelHoldsAdded'
  BY DEF BothInv, EpollerInStep, epollerVars, E!TypeOK, E!KernelInStep, KernelHoldsAdded,
         E!Registered
<1> QED
  BY <1>1, <1>2 DEF BothInv, EpollerInStep, SameRegistry, epollerVars

(* Each call, made of both backends.                                       *)
LEMMA BothStep == BothInv /\ [BothNext]_bothVars => BothInv'
<1> SUFFICES ASSUME BothInv, [BothNext]_bothVars PROVE BothInv'
  OBVIOUS
<1>1. ASSUME NEW c \in Channels, HandleBoth(c)
      PROVE  BothInv'
  <2>1. Inv'
    <3>1. Next
      BY <1>1 DEF HandleBoth, Next
    <3> QED
      BY <3>1, InvStep DEF BothInv
  <2> QED
    BY <1>1, <2>1, SilentStep DEF HandleBoth, HandleEvent
<1>2. ASSUME NEW ready \in SUBSET (0 .. Len(pollfds) - 1), PollOnly(ready)
      PROVE  BothInv'
  <2>1. Inv'
    <3>1. Next
      BY <1>2 DEF PollOnly, Next
    <3> QED
      BY <3>1, InvStep DEF BothInv
  <2>2. UNCHANGED <<pollfds, channels, index, event>> /\ aborted' \in {"no", "internal"}
    BY <1>2 DEF PollOnly, Poll, FillActiveChannels, Abort
  <2>3. aborted' = aborted
    BY <1>2, <2>1, <2>2 DEF Inv, StructuresAgree, PollOnly, Poll
  <2> QED
    BY <1>2, <2>1, <2>2, <2>3, SilentStep DEF PollOnly
<1>3. ASSUME NEW ready \in SUBSET Fds, EpollOnly(ready)
      PROVE  BothInv'
  <2>1. UNCHANGED <<event, epollerVars>>
    BY <1>3, EpollerWait DEF EpollOnly, BothInv, EpollerInv, EpollerInStep
  <2>2. UNCHANGED vars
    BY <1>3, <2>1 DEF EpollOnly, vars
  <2>3. Inv'
    BY <2>2, InvStep DEF BothInv
  <2> QED
    BY <1>3, <2>1, <2>2, <2>3, SilentStep DEF EpollOnly, vars
<1>4. CASE UNCHANGED bothVars
  <2>1. Inv'
    BY <1>4, InvStep DEF BothInv, bothVars
  <2> QED
    BY <1>4, <2>1, SilentStep DEF bothVars, vars
<1> QED
  BY <1>1, <1>2, <1>3, <1>4, UpdateBothStep, RemoveBothStep DEF BothNext

(* So both stay in step.                                                   *)
LEMMA BothInvariance == BothSpec => []BothInv
  BY BothStart, BothStep, PTL DEF BothSpec

(* A program that breaks no assert of Poller breaks none of Epoller, whose *)
(* kernel list, channels_ and index_ never disagree.                       *)
THEOREM EpollerAsksNoMore == BothSpec => []EpollerInStep
<1>1. BothInv => EpollerInStep
  BY DEF BothInv
<1> QED
  BY <1>1, BothInvariance, PTL

(* Both backends watch the same channels, those that have events, until a  *)
(* channel is updated while it has none.                                   *)
THEOREM BackendsWatchTheSame == BothSpec => []SameWatched
<1>1. BothInv => SameWatched
  BY DEF BothInv
<1> QED
  BY <1>1, BothInvariance, PTL

==============================================================================
