-------------------------------- MODULE Buffer --------------------------------
(***************************************************************************)
(* The input and output buffer of a connection (buffer.cpp): a vector with *)
(* a read and a write index.  Data is between the indices; what was read   *)
(* leaves room in front, and makeSpace moves the data down when that room  *)
(* is enough and grows the vector otherwise.                               *)
(*                                                                         *)
(* Callers keep the contracts the asserts state: they retrieve no more     *)
(* than is readable and prepend no more than fits.  swap, and shrink,      *)
(* which nothing calls, are left out.                                      *)
(***************************************************************************)
EXTENDS Naturals, Sequences

CONSTANTS
  Bytes,         \* the values of a byte
  Zero,          \* what resize fills the vector with
  CheapPrepend,  \* kCheapPrepared
  InitialSize,   \* kInitialSize
  ExtraSize,     \* the size of readFd's extraBuf
  MaxChunk,      \* bound: the longest data of one call
  MaxContent     \* bound: the most that is ever readable

ASSUME SizesAssumption ==
  /\ CheapPrepend \in Nat /\ InitialSize \in Nat /\ ExtraSize \in Nat
  /\ MaxChunk \in Nat /\ MaxContent \in Nat

VARIABLES
  buf,      \* [store, readIndex, writeIndex]: buffer_ and the indices
  aborted   \* an assert of makeSpace or ensureWritableBytes failed

vars == <<buf, aborted>>

Chunks == UNION {[1 .. n -> Bytes] : n \in 0 .. MaxChunk}

ReadableBytes(b) == b.writeIndex - b.readIndex
WritableBytes(b) == Len(b.store) - b.writeIndex
Contents(b) == SubSeq(b.store, b.readIndex + 1, b.writeIndex)

(* std::copy of d to position i of a vector, and resize to a larger size.  *)
CopyTo(s, i, d) ==
  [k \in 1 .. Len(s) |-> IF k \in i + 1 .. i + Len(d) THEN d[k - i] ELSE s[k]]
Resize(s, n) == [k \in 1 .. n |-> IF k <= Len(s) THEN s[k] ELSE Zero]

Init ==
  /\ buf = [store |-> [k \in 1 .. CheapPrepend + InitialSize |-> Zero],
            readIndex |-> CheapPrepend, writeIndex |-> CheapPrepend]
  /\ aborted = FALSE

------------------------------------------------------------------------------
(* makeSpace. *)
FrontIsMore(b, len) == WritableBytes(b) + b.readIndex > len + CheapPrepend
FrontIsSpare(b, len) == WritableBytes(b) + b.readIndex >= len
FrontIsEnough(b, len) ==
  WritableBytes(b) + b.readIndex >= len + CheapPrepend

Grow(b, len) == [b EXCEPT !.store = Resize(@, b.writeIndex + len)]

MoveFromBegin(b) ==
  [store |-> CopyTo(b.store, CheapPrepend, SubSeq(b.store, 1, ReadableBytes(b))),
   readIndex |-> CheapPrepend,
   writeIndex |-> CheapPrepend + ReadableBytes(b)]

MoveDown(b) ==
  [store |-> CopyTo(b.store, CheapPrepend, Contents(b)),
   readIndex |-> CheapPrepend,
   writeIndex |-> CheapPrepend + ReadableBytes(b)]

MakeSpace(b, len) == IF FrontIsEnough(b, len) THEN MoveDown(b) ELSE Grow(b, len)

(* ensureWritableBytes, and the asserts on its way. *)
EnsureWritable(b, len) ==
  IF WritableBytes(b) >= len THEN b ELSE MakeSpace(b, len)

RoomAsserts(b, len) ==
  /\ WritableBytes(b) < len /\ FrontIsEnough(b, len) => CheapPrepend < b.readIndex
  /\ WritableBytes(EnsureWritable(b, len)) >= len

(* The bytes d, in the room there is for them: append and readFd. *)
Received(b, d) ==
  [store |-> CopyTo(b.store, b.writeIndex, d),
   readIndex |-> b.readIndex,
   writeIndex |-> b.writeIndex + Len(d)]

(* append. *)
Appended(b, d) == Received(EnsureWritable(b, Len(d)), d)

AppendData(d) ==
  /\ buf' = Appended(buf, d)
  /\ aborted' = ~RoomAsserts(buf, Len(d))

(* retrieve, which retrieveUntil ends in. *)
Retrieve(len) ==
  /\ len <= ReadableBytes(buf)
  /\ buf' = [buf EXCEPT !.readIndex = @ + len]
  /\ UNCHANGED aborted

(* retrieveAll, which retrieveAsString ends in. *)
RetrieveAll ==
  /\ buf' = [store |-> buf.store, readIndex |-> CheapPrepend, writeIndex |-> CheapPrepend]
  /\ UNCHANGED aborted

(* prepend. *)
Prepend(d) ==
  /\ Len(d) <= buf.readIndex
  /\ buf' = [store |-> CopyTo(buf.store, buf.readIndex - Len(d), d),
              readIndex |-> buf.readIndex - Len(d),
              writeIndex |-> buf.writeIndex]
  /\ UNCHANGED aborted

(* readFd of the bytes d: first into the vector, then into extraBuf, whose *)
(* part is appended.                                                       *)
ReadFd(d) ==
  LET writable == WritableBytes(buf)
      full == Received(buf, SubSeq(d, 1, writable))
      rest == SubSeq(d, writable + 1, Len(d))
  IN /\ Len(d) <= writable + ExtraSize
     /\ IF Len(d) <= writable
        THEN buf' = Received(buf, d) /\ UNCHANGED aborted
        ELSE /\ buf' = Appended(full, rest)
             /\ aborted' = ~RoomAsserts(full, Len(rest))

------------------------------------------------------------------------------
Fits(d) == ReadableBytes(buf) + Len(d) <= MaxContent

Next ==
  /\ ~aborted
  /\ \/ \E d \in Chunks : Fits(d) /\ (AppendData(d) \/ Prepend(d) \/ ReadFd(d))
     \/ \E len \in 0 .. MaxContent : Retrieve(len)
     \/ RetrieveAll

Spec == Init /\ [][Next]_vars

------------------------------------------------------------------------------
TypeOK ==
  /\ aborted \in BOOLEAN
  /\ buf.store \in Seq(Bytes \cup {Zero})
  /\ buf.readIndex \in 0 .. buf.writeIndex
  /\ buf.writeIndex \in 0 .. Len(buf.store)

(* Whatever is moved, grown or split between the vector and extraBuf, the  *)
(* readable bytes are those written and not yet read, in order (the        *)
(* promise of peek, append and retrieve).                                  *)
Queue == INSTANCE ByteQueue WITH bytes <- Contents(buf)
IsByteQueue == Queue!Spec

(* The asserts of makeSpace and ensureWritableBytes hold: the data is      *)
(* moved only when the front holds more than the prependable bytes, and    *)
(* the room asked for is there afterwards.                                 *)
AssertsHold == ~aborted

(* The vector grows only when, as it was, the data did not fit behind the  *)
(* prependable bytes, however it had been moved: and then to less than     *)
(* those and twice what is readable, so that reading and writing for ever  *)
(* in turn does not make it grow for ever.                                 *)
GrowsByNeed ==
  [][Len(buf'.store) > Len(buf.store) =>
       /\ Len(buf.store) < CheapPrepend + ReadableBytes(buf')
       /\ Len(buf'.store) < CheapPrepend + 2 * ReadableBytes(buf')]_vars
==============================================================================
