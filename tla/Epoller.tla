------------------------------- MODULE Epoller -------------------------------
(***************************************************************************)
(* The other backend of a loop (epoller.cpp), built with USE_EPOLLER: the  *)
(* kernel keeps the interest list, with a pointer to the channel in each   *)
(* entry, channels_ is there for the asserts, and index_ says whether the  *)
(* kernel has the channel.                                                 *)
(*                                                                         *)
(* A failed assert or log_fatal stops the program, as in Poller: "misuse"  *)
(* when the caller used a channel that is not registered or one whose      *)
(* descriptor is another's, "internal" when the structures are at odds.    *)
(*                                                                         *)
(* The channels' interest is changed by channel.cpp, before it calls here. *)
(***************************************************************************)
EXTENDS Integers

CONSTANTS Channels, FdOf, NoChannel

VARIABLES
  event,     \* event_ of each channel
  channels,  \* channels_
  index,     \* index_ of each channel
  kernel,    \* the epoll set: per descriptor its channel and events
  aborted    \* "no", or the kind of assert that failed

vars == <<event, channels, index, kernel, aborted>>

kNew == -1
kAdded == 1
kDelete == -2

Fds == {FdOf[c] : c \in Channels}
Absent == [channel |-> NoChannel, events |-> {}]

Registered(c) == channels[FdOf[c]] = c

Init ==
  /\ event = [c \in Channels |-> {}]
  /\ channels = [f \in Fds |-> NoChannel]
  /\ index = [c \in Channels |-> kNew]
  /\ kernel = [f \in Fds |-> Absent]
  /\ aborted = "no"

Abort(kind) ==
  /\ aborted' = kind
  /\ UNCHANGED <<channels, index, kernel>>

(* update: to add what is there or modify what is not is fatal, to delete  *)
(* what is not there is only logged.                                       *)
Ctl(operation, c) ==
  LET there == kernel[FdOf[c]] # Absent
  IN  IF (operation = "ADD" /\ there) \/ (operation = "MOD" /\ ~there)
      THEN aborted' = "internal" /\ UNCHANGED kernel
      ELSE /\ kernel' = [kernel EXCEPT ![FdOf[c]] =
                           IF operation = "DEL" THEN Absent
                           ELSE [channel |-> c, events |-> event'[c]]]
           /\ UNCHANGED aborted

------------------------------------------------------------------------------
(* updateChannel.  A channel without interest leaves the kernel's list,    *)
(* and comes back with its next update, whatever that is.                  *)
OnlyNew(c) == index[c] = kNew
NeedsAdd(c) == index[c] # kAdded

AlwaysModify(c) == "MOD"
Operation(c) == IF event'[c] = {} THEN "DEL" ELSE "MOD"

UpdateChannel(c) ==
  IF (index[c] = kNew /\ channels[FdOf[c]] # NoChannel)
       \/ (index[c] # kNew /\ ~Registered(c))
  THEN Abort("misuse")
  ELSE IF NeedsAdd(c)
  THEN /\ channels' = [channels EXCEPT ![FdOf[c]] = c]
       /\ index' = [index EXCEPT ![c] = kAdded]
       /\ Ctl("ADD", c)
  ELSE /\ channels' = channels
       /\ index' = [index EXCEPT ![c] = IF event'[c] = {} THEN kDelete ELSE @]
       /\ Ctl(Operation(c), c)

(* removeChannel. *)
ForgetOnly(c) ==
  /\ channels' = [channels EXCEPT ![FdOf[c]] = NoChannel]
  /\ index' = [index EXCEPT ![c] = kNew]
  /\ UNCHANGED <<kernel, aborted>>

Forget(c) ==
  /\ channels' = [channels EXCEPT ![FdOf[c]] = NoChannel]
  /\ index' = [index EXCEPT ![c] = kNew]
  /\ IF index[c] = kAdded THEN Ctl("DEL", c) ELSE UNCHANGED <<kernel, aborted>>

RemoveChannel(c) ==
  IF ~Registered(c) \/ event[c] # {} THEN Abort("misuse")
  ELSE IF index[c] = kNew THEN Abort("internal")
  ELSE Forget(c)

(* poll and fillActiveChannels: any of the ready channels, as many as      *)
(* events_ has room for; each must be the one channels_ has under its      *)
(* descriptor.                                                             *)
Wait(ready) ==
  /\ aborted = "no"
  /\ ready # {}
  /\ \A f \in ready : kernel[f] # Absent
  /\ aborted' = IF \A f \in ready : channels[f] = kernel[f].channel
                THEN aborted ELSE "internal"
  /\ UNCHANGED <<event, channels, index, kernel>>

------------------------------------------------------------------------------
TypeOK ==
  /\ event \in [Channels -> SUBSET {"read", "write"}]
  /\ channels \in [Fds -> Channels \cup {NoChannel}]
  /\ index \in [Channels -> {kNew, kAdded, kDelete}]
  /\ kernel \in [Fds -> [channel : Channels \cup {NoChannel},
                         events : SUBSET {"read", "write"}]]
  /\ aborted \in {"no", "misuse", "internal"}

(* The kernel's list, channels_ and index_ agree: the kernel holds a       *)
(* registered channel with its present events, and holds it if and only if *)
(* index_ is kAdded; so no call of epoll_ctl fails, and no event comes     *)
(* with a pointer to a channel that was removed.                           *)
KernelInStep ==
  /\ aborted # "internal"
  /\ aborted = "no" =>
       \A c \in Channels :
         /\ Registered(c) <=> index[c] # kNew
         /\ index[c] = kAdded <=>
              kernel[FdOf[c]] = [channel |-> c, events |-> event[c]]
         /\ kernel[FdOf[c]].channel = c => index[c] = kAdded
==============================================================================
