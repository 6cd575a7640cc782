-------------------------------- MODULE Poller --------------------------------
(***************************************************************************)
(* The channels of a loop and the poll(2) array that mirrors them          *)
(* (poller.cpp, channel.cpp).  A channel remembers the slot of its pollfd, *)
(* channels_ maps descriptors back to channels, and removal fills the hole *)
(* with the last slot, so three structures must move together.             *)
(*                                                                         *)
(* Any channel may be enabled, disabled and removed in any order, before a *)
(* poll or between the callbacks of the channels it reported, as the code  *)
(* of a callback is the user's.  An assert that fails stops the program    *)
(* (NDEBUG is not defined in the Makefile); "aborted" says which kind: the *)
(* caller used a channel that is not registered, or the poller found its   *)
(* own structures at odds.                                                 *)
(*                                                                         *)
(* Slots are the code's, counted from 0.                                   *)
(***************************************************************************)
EXTENDS Integers, Sequences

CONSTANTS
  Channels,  \* the Channel objects
  FdOf,      \* fd_ of each; descriptors are reused, so two may share one
  NoChannel  \* no entry in channels_

ASSUME FdAssumption == FdOf \in [Channels -> Nat]
ASSUME NoChannelAssumption == NoChannel \notin Channels

VARIABLES
  pollfds,   \* pollfds_, each slot with its fd and events
  channels,  \* channels_
  index,     \* index_ of each channel
  event,     \* event_ of each channel
  active,    \* what the loop has still to handle of activeChannels
  aborted    \* "no", or the kind of assert that failed

vars == <<pollfds, channels, index, event, active, aborted>>

Events == {"read", "write"}  \* kReadEvent, kWriteEvent

Fds == {FdOf[c] : c \in Channels}

(* The slot of a descriptor that poll(2) is to ignore. *)
Ignored(f) == -f - 1

Slot(i) == pollfds[i + 1]
Slots == 0 .. Len(pollfds) - 1

(* find(channel->fd()) finds this channel. *)
Registered(c) == channels[FdOf[c]] = c

Abort(kind) ==
  /\ aborted' = kind
  /\ UNCHANGED <<pollfds, channels, index, active>>

Init ==
  /\ pollfds = <<>>
  /\ channels = [f \in Fds |-> NoChannel]
  /\ index = [c \in Channels |-> -1]
  /\ event = [c \in Channels |-> {}]
  /\ active = {}
  /\ aborted = "no"

------------------------------------------------------------------------------
(* updateChannel, for a channel that was never registered ... *)
AddChannel(c) ==
  IF channels[FdOf[c]] # NoChannel
  THEN Abort("misuse")
  ELSE /\ pollfds' = Append(pollfds, [fd |-> FdOf[c], events |-> event'[c]])
       /\ index' = [index EXCEPT ![c] = Len(pollfds)]
       /\ channels' = [channels EXCEPT ![FdOf[c]] = c]
       /\ UNCHANGED <<active, aborted>>

(* ... and for one that was.  The slot of a channel without interest is    *)
(* turned to a negative fd, which poll(2) skips.                           *)
NoneEvent(c) == event'[c] = {}

SlotKeepsFd(c, s) == [s EXCEPT !.events = event'[c]]
SlotToggles(c, s) ==
  [fd |-> IF NoneEvent(c) THEN Ignored(s.fd) ELSE s.fd, events |-> event'[c]]

ModifiedSlot(c, s) ==
  [fd |-> IF NoneEvent(c) THEN Ignored(FdOf[c]) ELSE s.fd,
   events |-> event'[c]]

ModifyChannel(c) ==
  IF ~Registered(c) THEN Abort("misuse")
  ELSE IF index[c] \notin Slots THEN Abort("internal")
  ELSE IF Slot(index[c]).fd \notin {FdOf[c], Ignored(FdOf[c])}
       THEN Abort("internal")
  ELSE /\ pollfds' = [pollfds EXCEPT ![index[c] + 1] = ModifiedSlot(c, @)]
       /\ UNCHANGED <<channels, index, active, aborted>>

(* The four calls of channel.cpp that change event_ and update the poller. *)
(* Every user of a Channel first enables something on it, so an update of  *)
(* a channel that was never registered has an interest.                    *)
Update(c, e) ==
  /\ aborted = "no"
  /\ event' = [event EXCEPT ![c] = e]
  /\ IF index[c] < 0 THEN e # {} /\ AddChannel(c) ELSE ModifyChannel(c)

EnableReading(c) == Update(c, event[c] \cup {"read"})
EnableWriting(c) == Update(c, event[c] \cup {"write"})
DisableWriting(c) == Update(c, event[c] \ {"write"})
DisableAll(c) == Update(c, {})

------------------------------------------------------------------------------
(* What the last slot's descriptor is when it is not ignored. *)
LastFdRaw == Slot(Len(pollfds) - 1).fd
LastFd ==
  LET f == Slot(Len(pollfds) - 1).fd
  IN  IF f < 0 THEN Ignored(f) ELSE f

LastChannel == channels[LastFd]

(* The array without slot i: its last slot takes the place.  (Erasing the  *)
(* slot would shift all that follow it.)                                   *)
CloseGap(i) ==
  [j \in 1 .. Len(pollfds) - 1 |->
     IF j >= i + 1 THEN pollfds[j + 1] ELSE pollfds[j]]

FillHole(i) ==
  [j \in 1 .. Len(pollfds) - 1 |->
     IF j = i + 1 THEN pollfds[Len(pollfds)] ELSE pollfds[j]]

(* removeChannel.  The removed channel keeps its index_. *)
RemoveChannel(c) ==
  /\ aborted = "no"
  /\ event' = event
  /\ IF ~Registered(c) \/ event[c] # {}
     THEN Abort("misuse")
     ELSE IF index[c] \notin Slots
     THEN Abort("internal")
     ELSE IF index[c] # Len(pollfds) - 1
             /\ (LastFd \notin Fds \/ LastFd = FdOf[c] \/ LastChannel = NoChannel)
     THEN Abort("internal")  \* setIndex on a null channel
     ELSE /\ channels' = [channels EXCEPT ![FdOf[c]] = NoChannel]
          /\ pollfds' = FillHole(index[c])
          /\ index' = IF index[c] = Len(pollfds) - 1 THEN index
                      ELSE [index EXCEPT ![LastChannel] = index[c]]
          /\ UNCHANGED <<active, aborted>>

------------------------------------------------------------------------------
(* fillActiveChannels: the channel of each reported slot must be found in  *)
(* channels_.  The order in which the loop then handles them is left open. *)
FillActiveChannels(ready) ==
  IF \E i \in ready : channels[Slot(i).fd] = NoChannel
  THEN Abort("internal")
  ELSE /\ active' = {channels[Slot(i).fd] : i \in ready}
       /\ UNCHANGED <<pollfds, channels, index, aborted>>

(* poll.  The kernel reports any of the slots with a non-negative fd:      *)
(* beside the events asked for it reports hang-ups and errors unasked.     *)
(* Nothing ready, or a call that fails, leaves everything as it was.       *)
Poll(ready) ==
  /\ aborted = "no"
  /\ active = {}
  /\ ready # {}
  /\ \A i \in ready : Slot(i).fd >= 0
  /\ event' = event
  /\ FillActiveChannels(ready)

(* The loop is done with a channel. *)
HandleEvent(c) ==
  /\ aborted = "no"
  /\ c \in active
  /\ active' = active \ {c}
  /\ UNCHANGED <<pollfds, channels, index, event, aborted>>

Next ==
  \/ \E c \in Channels :
       \/ EnableReading(c)
       \/ EnableWriting(c)
       \/ DisableWriting(c)
       \/ DisableAll(c)
       \/ RemoveChannel(c)
       \/ HandleEvent(c)
  \/ \E ready \in SUBSET (0 .. Len(pollfds) - 1) : Poll(ready)

Spec == Init /\ [][Next]_vars

------------------------------------------------------------------------------
TypeOK ==
  /\ pollfds \in Seq([fd : Fds \cup {-f - 1 : f \in Fds},
                     events : SUBSET Events])
  /\ channels \in [Fds -> Channels \cup {NoChannel}]
  /\ index \in [Channels -> Int]
  /\ event \in [Channels -> SUBSET Events]
  /\ active \subseteq Channels
  /\ aborted \in {"no", "misuse", "internal"}

(* A registered channel's index_ is the slot of its own descriptor, which  *)
(* asks for the channel's events.                                          *)
IndexedSlot(c) ==
  /\ index[c] \in Slots
  /\ Slot(index[c]).fd \in {FdOf[c], Ignored(FdOf[c])}
  /\ Slot(index[c]).events = event[c]

(* Channels and slots are in step: every registered channel has its slot,  *)
(* and every slot is some registered channel's (the swap with the last     *)
(* slot in removeChannel, and the setIndex that goes with it).             *)
SlotsMatchChannels ==
  aborted = "no" =>
    /\ \A c \in Channels : Registered(c) => IndexedSlot(c)
    /\ \A i \in Slots :
         \E c \in Channels : Registered(c) /\ index[c] = i

(* A channel that was never registered is in no structure. *)
FreshUnregistered ==
  aborted = "no" =>
    \A c \in Channels : index[c] < 0 => ~Registered(c) /\ event[c] = {}

(* Whatever the callers do, only the asserts on what the caller passed can *)
(* fail; those on the poller's own structures (the range of the index, the *)
(* fd in the slot, the result of find in fillActiveChannels) hold, and     *)
(* removeChannel never calls setIndex on a null channel.                   *)
StructuresAgree == aborted # "internal"

(* A channel with no interest left is not polled, even for hang-ups. *)
SilentWhenDisabled ==
  aborted = "no" =>
    \A c \in Channels :
      Registered(c) /\ event[c] = {} => Slot(index[c]).fd < 0

(* The inductive invariant behind the properties of this module. *)
Inv ==
  /\ TypeOK
  /\ SlotsMatchChannels
  /\ FreshUnregistered
  /\ StructuresAgree
  /\ SilentWhenDisabled

(* A poll reports only registered channels with an interest: disabling all *)
(* events of a channel before the poll is enough not to be called back.    *)
ReportedWithInterest ==
  \A c \in active' \ active : Registered(c) /\ event[c] # {}

ReportsInterest == [][ReportedWithInterest]_vars
==============================================================================
