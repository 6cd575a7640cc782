------------------------------ MODULE ByteQueue ------------------------------
(***************************************************************************)
(* What Buffer promises: a queue of bytes that is written at the end, read *)
(* at the front, and may be given a header in front.                       *)
(***************************************************************************)
EXTENDS Naturals, Sequences

CONSTANT Chunks  \* the sequences of bytes that are written at once

VARIABLE bytes

Init == bytes = <<>>

Write(d) == bytes' = bytes \o d

Read(n) == n <= Len(bytes) /\ bytes' = SubSeq(bytes, n + 1, Len(bytes))

PutFront(d) == bytes' = d \o bytes

Next ==
  \/ \E n \in 0 .. Len(bytes) : Read(n)
  \/ \E d \in Chunks : Write(d) \/ PutFront(d)

Spec == Init /\ [][Next]_bytes
==============================================================================
