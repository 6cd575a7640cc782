------------------------------- MODULE MCPoller -------------------------------
(* Poller and Epoller for TLC: four channels over three descriptors, two   *)
(* channels that share a descriptor as one socket does with the next one   *)
(* accepted under its number.  Descriptor 0 makes the sign of the ignored  *)
(* slots matter.  Two channels of one descriptor are interchangeable.       *)
EXTENDS Pollers, TLC

CONSTANTS a, b, c, d, none

MCChannels == {a, b, c, d}
MCSymmetry == Permutations({b, d})
MCFdOf == a :> 0 @@ b :> 1 @@ c :> 2 @@ d :> 1
==============================================================================
