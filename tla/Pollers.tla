------------------------------- MODULE Pollers -------------------------------
(***************************************************************************)
(* The two backends of EventLoop side by side: a program's calls on its    *)
(* channels, made to a Poller and to an Epoller at once.  It shows what    *)
(* the two have in common, and where a program that works with one would   *)
(* not work with the other.                                                *)
(***************************************************************************)
EXTENDS Poller

VARIABLES
  echannels, eindex, kernel, eaborted,  \* Epoller's
  toggled  \* history: channels updated while they had no events

epollerVars == <<echannels, eindex, kernel, eaborted>>
bothVars == <<vars, epollerVars, toggled>>

E == INSTANCE Epoller
       WITH channels <- echannels, index <- eindex, aborted <- eaborted

BothInit ==
  /\ Init
  /\ E!Init
  /\ toggled = {}

(* A registered channel that has no events is updated, by an enable or by  *)
(* another disable. *)
Toggles(c) == index[c] >= 0 /\ event[c] = {}

UpdateBoth(c) ==
  /\ EnableReading(c) \/ EnableWriting(c) \/ DisableWriting(c) \/ DisableAll(c)
  /\ E!UpdateChannel(c)
  /\ toggled' = IF Toggles(c) THEN toggled \cup {c} ELSE toggled

RemoveBoth(c) ==
  /\ RemoveChannel(c)
  /\ E!RemoveChannel(c)
  /\ UNCHANGED toggled

PollOnly(ready) ==
  /\ Poll(ready)
  /\ UNCHANGED <<epollerVars, toggled>>

EpollOnly(ready) ==
  /\ aborted = "no"
  /\ E!Wait(ready)
  /\ UNCHANGED <<pollfds, channels, index, active, aborted, toggled>>

HandleBoth(c) ==
  /\ HandleEvent(c)
  /\ UNCHANGED <<epollerVars, toggled>>

BothNext ==
  \/ \E c \in Channels : UpdateBoth(c) \/ RemoveBoth(c) \/ HandleBoth(c)
  \/ \E ready \in SUBSET (0 .. Len(pollfds) - 1) : PollOnly(ready)
  \/ \E ready \in SUBSET Fds : EpollOnly(ready)

BothSpec == BothInit /\ [][BothNext]_bothVars

------------------------------------------------------------------------------
(* Epoller's structures agree, and a program that breaks no assert of      *)
(* Poller breaks none of Epoller: the build with USE_EPOLLER asks no more  *)
(* of its callers.                                                         *)
EpollerInStep ==
  /\ E!TypeOK
  /\ E!KernelInStep
  /\ aborted = "no" => eaborted = "no"

(* Both backends watch a channel if and only if it has events, until it is *)
(* updated while it has none.  Then Poller goes on ignoring a channel that *)
(* was enabled again (updateChannel never restores the fd of the slot),    *)
(* and Epoller watches one that was disabled twice (kDelete is added       *)
(* again whatever its events).                                             *)
SameWatched ==
  aborted = "no" =>
    \A c \in Channels :
      Registered(c) =>
        LET polls == Slot(index[c]).fd >= 0
            epolls == kernel[FdOf[c]] # E!Absent
        IN  /\ c \notin toggled => polls = (event[c] # {}) /\ epolls = polls
            /\ polls => event[c] # {}
            /\ event[c] # {} => epolls

(* What holds between the two in every step, behind these properties: one  *)
(* registry in both, and in the kernel exactly the channels marked kAdded. *)
SameRegistry ==
  aborted = "no" => eaborted = "no" /\ echannels = channels

KernelHoldsAdded ==
  eaborted = "no" =>
    \A f \in Fds :
      kernel[f] # E!Absent =>
        \E c \in Channels : FdOf[c] = f /\ eindex[c] = E!kAdded

BothInv ==
  /\ Inv
  /\ EpollerInStep
  /\ SameRegistry
  /\ KernelHoldsAdded
  /\ toggled \subseteq Channels
  /\ SameWatched
==============================================================================
