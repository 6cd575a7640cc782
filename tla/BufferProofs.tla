----------------------------- MODULE BufferProofs -----------------------------
(***************************************************************************)
(* Buffer is a queue of bytes whose asserts hold and which grows only by   *)
(* need, for any sizes and any bytes.                                      *)
(***************************************************************************)
EXTENDS Buffer, SequenceTheorems, TLAPS

Values == Bytes \cup {Zero}

(* The indices are in order and inside the vector, which always has room   *)
(* for the prependable bytes.                                              *)
BufferOK(b) ==
  /\ b \in [store : Seq(Values), readIndex : Nat, writeIndex : Nat]
  /\ b.readIndex <= b.writeIndex
  /\ b.writeIndex <= Len(b.store)
  /\ CheapPrepend <= Len(b.store)

Inv == BufferOK(buf) /\ ~aborted

------------------------------------------------------------------------------
(* A function on 1 .. n is a sequence of length n.                         *)
LEMMA FunctionIsSeq ==
  ASSUME NEW S, NEW n \in Nat, NEW f \in [1 .. n -> S]
  PROVE  f \in Seq(S) /\ Len(f) = n
<1>1. f \in Seq(S)
  OBVIOUS
<1> QED
  BY <1>1

(* The part of a vector from index r to index w.                           *)
LEMMA SliceIs ==
  ASSUME NEW s \in Seq(Values), NEW r \in Nat, NEW w \in Nat, r <= w, w <= Len(s)
  PROVE  /\ SubSeq(s, r + 1, w) \in Seq(Values)
         /\ Len(SubSeq(s, r + 1, w)) = w - r
         /\ \A i \in 1 .. w - r : SubSeq(s, r + 1, w)[i] = s[r + i]
<1> DEFINE m == r + 1
<1>1. m \in Int /\ w \in Int /\ \A i \in m .. w : s[i] \in Values
  OBVIOUS
<1>2. /\ SubSeq(s, m, w) \in Seq(Values)
      /\ Len(SubSeq(s, m, w)) = IF m <= w THEN w - m + 1 ELSE 0
      /\ \A i \in 1 .. w - m + 1 : SubSeq(s, m, w)[i] = s[m + i - 1]
  <2> HIDE DEF m
  <2> QED
    BY <1>1, SubSeqProperties
<1>3. \A i \in 1 .. w - r : i \in 1 .. w - m + 1 /\ m + i - 1 = r + i
  OBVIOUS
<1>4. (IF m <= w THEN w - m + 1 ELSE 0) = w - r
  OBVIOUS
<1> QED
  BY <1>2, <1>3, <1>4

(* What std::copy leaves in a vector with room for the data.               *)
LEMMA CopyIs ==
  ASSUME NEW s \in Seq(Values), NEW d \in Seq(Values), NEW i \in Nat,
         i + Len(d) <= Len(s)
  PROVE  /\ CopyTo(s, i, d) \in Seq(Values)
         /\ Len(CopyTo(s, i, d)) = Len(s)
         /\ \A k \in 1 .. Len(s) :
              CopyTo(s, i, d)[k] = IF k > i /\ k <= i + Len(d) THEN d[k - i] ELSE s[k]
<1>1. Len(s) \in Nat /\ Len(d) \in Nat
  OBVIOUS
<1>2. \A k \in 1 .. Len(s) :
        CopyTo(s, i, d)[k] = IF k > i /\ k <= i + Len(d) THEN d[k - i] ELSE s[k]
  BY <1>1 DEF CopyTo
<1>3. CopyTo(s, i, d) \in [1 .. Len(s) -> Values]
  <2>1. \A k \in 1 .. Len(s) :
          (IF k \in i + 1 .. i + Len(d) THEN d[k - i] ELSE s[k]) \in Values
    BY <1>1
  <2> QED
    BY <2>1 DEF CopyTo
<1>4. CopyTo(s, i, d) \in Seq(Values) /\ Len(CopyTo(s, i, d)) = Len(s)
  BY <1>1, <1>3, FunctionIsSeq
<1> QED
  BY <1>2, <1>4

(* Data copied behind index w is appended to the part that ends there.     *)
LEMMA CopyAppends ==
  ASSUME NEW s \in Seq(Values), NEW d \in Seq(Values), NEW r \in Nat, NEW w \in Nat,
         r <= w, w + Len(d) <= Len(s)
  PROVE  SubSeq(CopyTo(s, w, d), r + 1, w + Len(d)) = SubSeq(s, r + 1, w) \o d
<1> DEFINE n == Len(d)
           c == CopyTo(s, w, d)
           old == SubSeq(s, r + 1, w)
           new == SubSeq(c, r + 1, w + n)
<1>1. n \in Nat /\ Len(s) \in Nat /\ w + n \in Nat /\ r <= w + n /\ w <= Len(s)
  OBVIOUS
<1>2. /\ c \in Seq(Values) /\ Len(c) = Len(s)
      /\ \A k \in 1 .. Len(s) : c[k] = IF k > w /\ k <= w + n THEN d[k - w] ELSE s[k]
  BY CopyIs
<1>3. old \in Seq(Values) /\ Len(old) = w - r /\ \A i \in 1 .. w - r : old[i] = s[r + i]
  BY <1>1, SliceIs
<1>4. /\ new \in Seq(Values) /\ Len(new) = w + n - r
      /\ \A i \in 1 .. w + n - r : new[i] = c[r + i]
  <2> HIDE DEF n, c
  <2> QED
    BY <1>1, <1>2, SliceIs DEF n
<1> HIDE DEF c, old, new
<1>5. /\ old \o d \in Seq(Values) /\ Len(old \o d) = Len(old) + n
      /\ \A i \in 1 .. Len(old) + n :
           (old \o d)[i] = IF i <= Len(old) THEN old[i] ELSE d[i - Len(old)]
  BY <1>3, ConcatProperties
<1> HIDE DEF n
<1>6. ASSUME NEW i \in 1 .. w + n - r PROVE new[i] = (old \o d)[i]
  <2>0. i \in Nat /\ i > 0 /\ (i <= w - r \/ i > w - r)
    BY <1>1
  <2>1. new[i] = c[r + i] /\ r + i \in 1 .. Len(s) /\ i \in 1 .. Len(old) + n
    BY <1>1, <1>3, <1>4 DEF n
  <2>2. CASE i <= w - r
    <3>1. c[r + i] = s[r + i]
      BY <1>1, <1>2, <2>1, <2>2
    <3>2. (old \o d)[i] = s[r + i]
      BY <1>1, <1>3, <1>5, <2>1, <2>2
    <3> QED
      BY <2>1, <3>1, <3>2
  <2>3. CASE i > w - r
    <3>1. c[r + i] = d[(r + i) - w]
      <4>1. r + i > w /\ r + i <= w + n
        BY <1>1, <2>0, <2>3
      <4> QED
        BY <1>2, <2>1, <4>1
    <3>2. (old \o d)[i] = d[i - (w - r)]
      <4>1. i \in 1 .. Len(old) + n /\ ~(i <= Len(old))
        BY <1>1, <1>3, <2>0, <2>1, <2>3
      <4>2. (old \o d)[i] = d[i - Len(old)]
        BY <1>5, <4>1
      <4> QED
        BY <1>3, <4>2
    <3>3. (r + i) - w = i - (w - r)
      BY <1>1
    <3> QED
      BY <2>1, <3>1, <3>2, <3>3
  <2> QED
    BY <2>0, <2>2, <2>3
<1>7. Len(new) = Len(old \o d)
  BY <1>1, <1>3, <1>4, <1>5
<1>8. new = old \o d
  BY <1>4, <1>5, <1>6, <1>7, SeqEqual
<1> QED
  BY <1>8 DEF new, old, c, n

(* Data copied before index r comes in front of the part that begins there.*)
LEMMA CopyPrepends ==
  ASSUME NEW s \in Seq(Values), NEW d \in Seq(Values), NEW r \in Nat, NEW w \in Nat,
         r <= w, w <= Len(s), Len(d) <= r
  PROVE  SubSeq(CopyTo(s, r - Len(d), d), (r - Len(d)) + 1, w) = d \o SubSeq(s, r + 1, w)
<1> DEFINE n == Len(d)
           q == r - n
           c == CopyTo(s, q, d)
           old == SubSeq(s, r + 1, w)
           new == SubSeq(c, q + 1, w)
<1>1. n \in Nat /\ Len(s) \in Nat /\ q \in Nat /\ q + n = r /\ q <= w
  OBVIOUS
<1>2. /\ c \in Seq(Values) /\ Len(c) = Len(s)
      /\ \A k \in 1 .. Len(s) : c[k] = IF k > q /\ k <= r THEN d[k - q] ELSE s[k]
  <2>1. q + n <= Len(s)
    BY <1>1
  <2> HIDE DEF q
  <2> QED
    BY <1>1, <2>1, CopyIs
<1>3. old \in Seq(Values) /\ Len(old) = w - r /\ \A i \in 1 .. w - r : old[i] = s[r + i]
  BY <1>1, SliceIs
<1>4. /\ new \in Seq(Values) /\ Len(new) = w - q
      /\ \A i \in 1 .. w - q : new[i] = c[q + i]
  <2> HIDE DEF q, c
  <2> QED
    BY <1>1, <1>2, SliceIs
<1> HIDE DEF c, old, new, q
<1>5. /\ d \o old \in Seq(Values) /\ Len(d \o old) = n + Len(old)
      /\ \A i \in 1 .. n + Len(old) :
           (d \o old)[i] = IF i <= n THEN d[i] ELSE old[i - n]
  BY <1>3, ConcatProperties
<1> HIDE DEF n
<1>6. ASSUME NEW i \in 1 .. w - q PROVE new[i] = (d \o old)[i]
  <2>0. i \in Nat /\ i > 0 /\ (i <= n \/ i > n)
    BY <1>1
  <2>1. new[i] = c[q + i] /\ q + i \in 1 .. Len(s) /\ i \in 1 .. n + Len(old)
    BY <1>1, <1>3, <1>4
  <2>2. CASE i <= n
    <3>1. c[q + i] = d[(q + i) - q]
      BY <1>1, <1>2, <2>1, <2>2
    <3>2. (q + i) - q = i
      BY <1>1
    <3> QED
      BY <1>5, <2>1, <2>2, <3>1, <3>2
  <2>3. CASE i > n
    <3>1. c[q + i] = s[q + i]
      BY <1>1, <1>2, <2>1, <2>3
    <3>2. i - n \in 1 .. w - r /\ r + (i - n) = q + i
      BY <1>1, <2>3
    <3>3. (d \o old)[i] = old[i - n]
      BY <1>1, <1>5, <2>0, <2>1, <2>3
    <3>4. old[i - n] = s[r + (i - n)]
      BY <1>3, <3>2
    <3> QED
      BY <2>1, <3>1, <3>2, <3>3, <3>4
  <2> QED
    BY <2>0, <2>2, <2>3
<1>7. Len(new) = Len(d \o old)
  BY <1>1, <1>3, <1>4, <1>5
<1>8. new = d \o old
  BY <1>4, <1>5, <1>6, <1>7, SeqEqual
<1> QED
  BY <1>8 DEF new, old, c, q, n

(* A part copied to index p is there afterwards.                           *)
LEMMA CopyMoves ==
  ASSUME NEW s \in Seq(Values), NEW d \in Seq(Values), NEW p \in Nat,
         p + Len(d) <= Len(s)
  PROVE  SubSeq(CopyTo(s, p, d), p + 1, p + Len(d)) = d
<1>1. SubSeq(s, p + 1, p) = <<>>
  <2>1. p + 1 \in Int /\ p \in Int /\ p < p + 1
    OBVIOUS
  <2> QED
    BY <2>1, SubSeqEmpty
<1>2. SubSeq(CopyTo(s, p, d), p + 1, p + Len(d)) = SubSeq(s, p + 1, p) \o d
  <2>1. p <= p /\ p \in Nat
    OBVIOUS
  <2> QED
    BY <2>1, CopyAppends
<1> QED
  BY <1>1, <1>2, ConcatEmptySeq

(* resize to a larger size keeps every part.                               *)
LEMMA ResizeKeeps ==
  ASSUME NEW s \in Seq(Values), NEW n \in Nat, Len(s) <= n,
         NEW r \in Nat, NEW w \in Nat, r <= w, w <= Len(s)
  PROVE  /\ Resize(s, n) \in Seq(Values) /\ Len(Resize(s, n)) = n
         /\ SubSeq(Resize(s, n), r + 1, w) = SubSeq(s, r + 1, w)
<1> DEFINE c == Resize(s, n)
           old == SubSeq(s, r + 1, w)
           new == SubSeq(c, r + 1, w)
<1>1. /\ c \in [1 .. n -> Values]
      /\ \A k \in 1 .. Len(s) : c[k] = s[k]
  <2>1. \A k \in 1 .. n : (IF k <= Len(s) THEN s[k] ELSE Zero) \in Values
    BY DEF Values
  <2> QED
    BY <2>1 DEF Resize
<1> HIDE DEF c
<1>2. c \in Seq(Values) /\ Len(c) = n
  BY <1>1, FunctionIsSeq
<1>3. old \in Seq(Values) /\ Len(old) = w - r /\ \A i \in 1 .. w - r : old[i] = s[r + i]
  BY SliceIs
<1> HIDE DEF old
<1>4. new \in Seq(Values) /\ Len(new) = w - r /\ \A i \in 1 .. w - r : new[i] = c[r + i]
  <2>1. w <= Len(c)
    BY <1>2
  <2> QED
    BY <1>2, <2>1, SliceIs
<1> HIDE DEF new
<1>5. ASSUME NEW i \in 1 .. w - r PROVE new[i] = old[i]
  <2>1. r + i \in 1 .. Len(s)
    OBVIOUS
  <2> QED
    BY <1>1, <1>3, <1>4, <2>1
<1>6. new = old
  BY <1>3, <1>4, <1>5, SeqEqual
<1> QED
  BY <1>2, <1>6 DEF new, old, c

------------------------------------------------------------------------------
(* The fields of a buffer, and its readable bytes.                         *)
LEMMA BufferIs ==
  ASSUME NEW b, BufferOK(b)
  PROVE  /\ b.store \in Seq(Values) /\ Len(b.store) \in Nat
         /\ b.readIndex \in Nat /\ b.writeIndex \in Nat
         /\ b.readIndex <= b.writeIndex /\ b.writeIndex <= Len(b.store)
         /\ CheapPrepend \in Nat /\ CheapPrepend <= Len(b.store)
         /\ Contents(b) = SubSeq(b.store, b.readIndex + 1, b.writeIndex)
         /\ Contents(b) \in Seq(Values) /\ Len(Contents(b)) = ReadableBytes(b)
         /\ ReadableBytes(b) \in Nat /\ WritableBytes(b) \in Nat
<1>1. /\ b.store \in Seq(Values) /\ Len(b.store) \in Nat
      /\ b.readIndex \in Nat /\ b.writeIndex \in Nat
      /\ b.readIndex <= b.writeIndex /\ b.writeIndex <= Len(b.store)
      /\ CheapPrepend \in Nat /\ CheapPrepend <= Len(b.store)
  BY SizesAssumption DEF BufferOK
<1>2. Contents(b) \in Seq(Values) /\ Len(Contents(b)) = b.writeIndex - b.readIndex
  BY <1>1, SliceIs DEF Contents
<1>3. ReadableBytes(b) = b.writeIndex - b.readIndex /\ ReadableBytes(b) \in Nat
  BY <1>1 DEF ReadableBytes
<1>4. WritableBytes(b) \in Nat
  BY <1>1 DEF WritableBytes
<1>5. Contents(b) = SubSeq(b.store, b.readIndex + 1, b.writeIndex)
  BY DEF Contents
<1> QED
  BY <1>1, <1>2, <1>3, <1>4, <1>5

(* Data received is appended to the readable bytes.                        *)
LEMMA ReceivedIs ==
  ASSUME NEW b, BufferOK(b), NEW d \in Seq(Values), Len(d) <= WritableBytes(b)
  PROVE  /\ BufferOK(Received(b, d))
         /\ Contents(Received(b, d)) = Contents(b) \o d
         /\ Len(Received(b, d).store) = Len(b.store)
         /\ ReadableBytes(Received(b, d)) = ReadableBytes(b) + Len(d)
<1> DEFINE c == CopyTo(b.store, b.writeIndex, d)
<1>0. /\ b.store \in Seq(Values) /\ Len(b.store) \in Nat
      /\ b.readIndex \in Nat /\ b.writeIndex \in Nat
      /\ b.readIndex <= b.writeIndex /\ CheapPrepend <= Len(b.store)
      /\ Contents(b) = SubSeq(b.store, b.readIndex + 1, b.writeIndex)
  BY BufferIs
<1>1. /\ Len(d) \in Nat /\ b.writeIndex + Len(d) <= Len(b.store)
      /\ b.writeIndex + Len(d) \in Nat /\ b.readIndex <= b.writeIndex + Len(d)
  <2>1. Len(d) \in Nat /\ Len(d) <= Len(b.store) - b.writeIndex
    BY DEF WritableBytes
  <2> QED
    BY <1>0, <2>1
<1>2. c \in Seq(Values) /\ Len(c) = Len(b.store)
  BY <1>0, <1>1, CopyIs
<1>3. SubSeq(c, b.readIndex + 1, b.writeIndex + Len(d)) = Contents(b) \o d
  <2> DEFINE t == b.store
             r == b.readIndex
             w == b.writeIndex
  <2>1. /\ t \in Seq(Values) /\ r \in Nat /\ w \in Nat /\ r <= w
        /\ w + Len(d) <= Len(t)
    BY <1>0, <1>1
  <2> HIDE DEF t, r, w
  <2>2. SubSeq(CopyTo(t, w, d), r + 1, w + Len(d)) = SubSeq(t, r + 1, w) \o d
    BY <2>1, CopyAppends
  <2> QED
    BY <1>0, <2>2 DEF t, r, w
<1> HIDE DEF c
<1>4. Received(b, d) = [store |-> c, readIndex |-> b.readIndex,
                        writeIndex |-> b.writeIndex + Len(d)]
  BY DEF Received, c
<1>5. /\ BufferOK(Received(b, d))
      /\ Contents(Received(b, d)) = Contents(b) \o d
      /\ ReadableBytes(Received(b, d)) = (b.writeIndex + Len(d)) - b.readIndex
  <2>1. b.writeIndex + Len(d) <= Len(c) /\ CheapPrepend <= Len(c)
    BY <1>0, <1>1, <1>2
  <2>2. /\ Received(b, d).store = c /\ Received(b, d).readIndex = b.readIndex
        /\ Received(b, d).writeIndex = b.writeIndex + Len(d)
    BY <1>4
  <2>3. BufferOK(Received(b, d))
    BY <1>0, <1>1, <1>2, <1>4, <2>1 DEF BufferOK
  <2> QED
    BY <1>3, <2>2, <2>3 DEF Contents, ReadableBytes
<1>6. (b.writeIndex + Len(d)) - b.readIndex = ReadableBytes(b) + Len(d)
  BY <1>1, BufferIs DEF ReadableBytes
<1> QED
  BY <1>2, <1>4, <1>5, <1>6

(* makeSpace keeps the readable bytes and makes the room asked for.        *)
LEMMA MoveDownIs ==
  ASSUME NEW b, BufferOK(b), CheapPrepend <= b.readIndex
  PROVE  /\ BufferOK(MoveDown(b))
         /\ Contents(MoveDown(b)) = Contents(b)
         /\ Len(MoveDown(b).store) = Len(b.store)
         /\ ReadableBytes(MoveDown(b)) = ReadableBytes(b)
         /\ WritableBytes(MoveDown(b)) = WritableBytes(b) + b.readIndex - CheapPrepend
<1> DEFINE d == Contents(b)
           c == CopyTo(b.store, CheapPrepend, d)
           w == CheapPrepend + ReadableBytes(b)
<1>1. /\ w \in Nat /\ CheapPrepend <= w /\ w <= Len(b.store)
      /\ d \in Seq(Values) /\ w = CheapPrepend + Len(d)
  <2>1. /\ CheapPrepend \in Nat /\ ReadableBytes(b) \in Nat
        /\ b.readIndex \in Nat /\ b.writeIndex \in Nat /\ Len(b.store) \in Nat
        /\ b.writeIndex <= Len(b.store)
        /\ d \in Seq(Values) /\ Len(d) = ReadableBytes(b)
    BY BufferIs
  <2>2. CheapPrepend + ReadableBytes(b) <= Len(b.store)
    BY <2>1 DEF ReadableBytes
  <2> HIDE DEF d
  <2> QED
    BY <2>1, <2>2
<1> HIDE DEF w, d
<1>2. /\ c \in Seq(Values) /\ Len(c) = Len(b.store)
      /\ SubSeq(c, CheapPrepend + 1, w) = d
  <2>1. CheapPrepend + Len(d) <= Len(b.store)
    BY <1>1
  <2> QED
    BY <1>1, <2>1, BufferIs, CopyIs, CopyMoves
<1> HIDE DEF c
<1>3. MoveDown(b) = [store |-> c, readIndex |-> CheapPrepend, writeIndex |-> w]
  BY DEF MoveDown, c, w, d
<1>4. /\ BufferOK(MoveDown(b)) /\ Contents(MoveDown(b)) = d
      /\ ReadableBytes(MoveDown(b)) = w - CheapPrepend
      /\ WritableBytes(MoveDown(b)) = Len(c) - w
  <2>1. CheapPrepend \in Nat /\ w <= Len(c) /\ CheapPrepend <= Len(c)
    BY <1>1, <1>2, BufferIs
  <2> QED
    BY <1>1, <1>2, <1>3, <2>1 DEF BufferOK, Contents, ReadableBytes, WritableBytes
<1>5. w - CheapPrepend = ReadableBytes(b)
  BY BufferIs DEF w
<1>6. Len(b.store) - w = WritableBytes(b) + b.readIndex - CheapPrepend
  <2>1. /\ Len(b.store) \in Nat /\ CheapPrepend \in Nat
        /\ b.readIndex \in Nat /\ b.writeIndex \in Nat
    BY BufferIs
  <2> QED
    BY <2>1 DEF w, WritableBytes, ReadableBytes
<1> QED
  BY <1>2, <1>3, <1>4, <1>5, <1>6 DEF d

(* resize: the readable bytes stay and the room asked for is there.        *)
LEMMA GrowIs ==
  ASSUME NEW b, BufferOK(b), NEW len \in Nat, WritableBytes(b) < len
  PROVE  /\ BufferOK(Grow(b, len))
         /\ Contents(Grow(b, len)) = Contents(b)
         /\ Len(Grow(b, len).store) = b.writeIndex + len
         /\ ReadableBytes(Grow(b, len)) = ReadableBytes(b)
         /\ WritableBytes(Grow(b, len)) = len
<1> DEFINE n == b.writeIndex + len
           c == Resize(b.store, n)
<1>0. /\ b.store \in Seq(Values) /\ Len(b.store) \in Nat
      /\ b.readIndex \in Nat /\ b.writeIndex \in Nat
      /\ b.readIndex <= b.writeIndex /\ b.writeIndex <= Len(b.store)
      /\ Contents(b) = SubSeq(b.store, b.readIndex + 1, b.writeIndex)
  BY BufferIs
<1>1. n \in Nat /\ Len(b.store) <= n
  BY BufferIs DEF WritableBytes
<1>2. n - b.writeIndex = len
  BY BufferIs
<1>3. CheapPrepend <= n /\ b.writeIndex <= n
  BY <1>1, BufferIs
<1> HIDE DEF n
<1>4. /\ c \in Seq(Values) /\ Len(c) = n
      /\ SubSeq(c, b.readIndex + 1, b.writeIndex) = Contents(b)
  <2> DEFINE s == b.store
             r == b.readIndex
             w == b.writeIndex
  <2>1. /\ s \in Seq(Values) /\ n \in Nat /\ Len(s) <= n
        /\ r \in Nat /\ w \in Nat /\ r <= w /\ w <= Len(s)
    BY <1>0, <1>1
  <2> HIDE DEF s, r, w
  <2>2. /\ Resize(s, n) \in Seq(Values) /\ Len(Resize(s, n)) = n
        /\ SubSeq(Resize(s, n), r + 1, w) = SubSeq(s, r + 1, w)
    BY <2>1, ResizeKeeps
  <2> QED
    BY <1>0, <2>2 DEF s, r, w
<1> HIDE DEF c
<1>5. Grow(b, len) = [store |-> c, readIndex |-> b.readIndex, writeIndex |-> b.writeIndex]
  BY DEF Grow, BufferOK, c, n
<1>6. /\ BufferOK(Grow(b, len)) /\ Contents(Grow(b, len)) = Contents(b)
      /\ ReadableBytes(Grow(b, len)) = b.writeIndex - b.readIndex
      /\ WritableBytes(Grow(b, len)) = n - b.writeIndex
  BY <1>0, <1>3, <1>4, <1>5 DEF BufferOK, Contents, ReadableBytes, WritableBytes
<1> QED
  BY <1>2, <1>4, <1>5, <1>6 DEF ReadableBytes, n

(* ensureWritable, whichever way it makes the room.                        *)
LEMMA RoomIs ==
  ASSUME NEW b, BufferOK(b), NEW len \in Nat
  PROVE  /\ BufferOK(EnsureWritable(b, len))
         /\ Contents(EnsureWritable(b, len)) = Contents(b)
         /\ ReadableBytes(EnsureWritable(b, len)) = ReadableBytes(b)
         /\ WritableBytes(EnsureWritable(b, len)) >= len
         /\ RoomAsserts(b, len)
         /\ Len(EnsureWritable(b, len).store) > Len(b.store) =>
              /\ Len(b.store) < CheapPrepend + (ReadableBytes(b) + len)
              /\ Len(EnsureWritable(b, len).store) < CheapPrepend + 2 * (ReadableBytes(b) + len)
<1>1. CASE WritableBytes(b) >= len
  <2>1. EnsureWritable(b, len) = b
    BY <1>1 DEF EnsureWritable
  <2>2. ~(WritableBytes(b) < len) /\ ~(Len(b.store) > Len(b.store))
    BY <1>1, BufferIs
  <2> QED
    BY <1>1, <2>1, <2>2 DEF RoomAsserts
<1>2. CASE ~(WritableBytes(b) >= len) /\ FrontIsEnough(b, len)
  <2>1. EnsureWritable(b, len) = MoveDown(b)
    BY <1>2 DEF EnsureWritable, MakeSpace
  <2>2. CheapPrepend < b.readIndex
    BY <1>2, BufferIs DEF FrontIsEnough
  <2>3. /\ BufferOK(MoveDown(b)) /\ Contents(MoveDown(b)) = Contents(b)
        /\ Len(MoveDown(b).store) = Len(b.store)
        /\ ReadableBytes(MoveDown(b)) = ReadableBytes(b)
        /\ WritableBytes(MoveDown(b)) = WritableBytes(b) + b.readIndex - CheapPrepend
    BY <2>2, BufferIs, MoveDownIs
  <2>4. WritableBytes(MoveDown(b)) >= len
    BY <1>2, <2>3, BufferIs DEF FrontIsEnough
  <2>5. ~(Len(b.store) > Len(b.store))
    BY BufferIs
  <2> QED
    BY <2>1, <2>2, <2>3, <2>4, <2>5 DEF RoomAsserts
<1>3. CASE ~(WritableBytes(b) >= len) /\ ~FrontIsEnough(b, len)
  <2>1. EnsureWritable(b, len) = Grow(b, len)
    BY <1>3 DEF EnsureWritable, MakeSpace
  <2>2. WritableBytes(b) < len
    BY <1>3, BufferIs
  <2>3. /\ BufferOK(Grow(b, len)) /\ Contents(Grow(b, len)) = Contents(b)
        /\ Len(Grow(b, len).store) = b.writeIndex + len
        /\ ReadableBytes(Grow(b, len)) = ReadableBytes(b)
        /\ WritableBytes(Grow(b, len)) = len
    BY <2>2, GrowIs
  <2>4. len >= len
    OBVIOUS
  <2>5. /\ Len(b.store) < CheapPrepend + (ReadableBytes(b) + len)
        /\ b.writeIndex + len < CheapPrepend + 2 * (ReadableBytes(b) + len)
    <3> DEFINE s == Len(b.store)
               r == b.readIndex
               w == b.writeIndex
    <3>1. /\ s \in Nat /\ r \in Nat /\ w \in Nat /\ CheapPrepend \in Nat
          /\ r <= w /\ w <= s
      BY BufferIs
    <3>2. ~((s - w) + r >= len + CheapPrepend)
      BY <1>3 DEF FrontIsEnough, WritableBytes
    <3> HIDE DEF s, r, w
    <3>3. /\ s < CheapPrepend + ((w - r) + len)
          /\ w + len < CheapPrepend + 2 * ((w - r) + len)
      BY <3>1, <3>2
    <3> QED
      BY <3>3 DEF s, r, w, ReadableBytes
  <2> QED
    BY <1>3, <2>1, <2>3, <2>4, <2>5 DEF RoomAsserts
<1> QED
  BY <1>1, <1>2, <1>3

(* append.                                                                 *)
LEMMA AppendedIs ==
  ASSUME NEW b, BufferOK(b), NEW d \in Seq(Values)
  PROVE  /\ BufferOK(Appended(b, d))
         /\ Contents(Appended(b, d)) = Contents(b) \o d
         /\ RoomAsserts(b, Len(d))
         /\ ReadableBytes(Appended(b, d)) = ReadableBytes(b) + Len(d)
         /\ Len(Appended(b, d).store) > Len(b.store) =>
              /\ Len(b.store) < CheapPrepend + ReadableBytes(Appended(b, d))
              /\ Len(Appended(b, d).store) < CheapPrepend + 2 * ReadableBytes(Appended(b, d))
<1> DEFINE room == EnsureWritable(b, Len(d))
<1>1. Len(d) \in Nat
  OBVIOUS
<1>2. /\ BufferOK(room) /\ Contents(room) = Contents(b)
      /\ ReadableBytes(room) = ReadableBytes(b)
      /\ WritableBytes(room) >= Len(d) /\ RoomAsserts(b, Len(d))
      /\ Len(room.store) > Len(b.store) =>
           /\ Len(b.store) < CheapPrepend + (ReadableBytes(b) + Len(d))
           /\ Len(room.store) < CheapPrepend + 2 * (ReadableBytes(b) + Len(d))
  BY <1>1, RoomIs
<1>3. Appended(b, d) = Received(room, d)
  BY DEF Appended
<1> HIDE DEF room
<1>4. Len(d) <= WritableBytes(room)
  BY <1>1, <1>2, BufferIs
<1>5. /\ BufferOK(Appended(b, d))
      /\ Contents(Appended(b, d)) = Contents(b) \o d
      /\ Len(Appended(b, d).store) = Len(room.store)
      /\ ReadableBytes(Appended(b, d)) = ReadableBytes(b) + Len(d)
  BY <1>2, <1>3, <1>4, ReceivedIs
<1> QED
  BY <1>2, <1>5

------------------------------------------------------------------------------
(* Every operation is one of the queue's, keeps the invariant and grows    *)
(* the vector by need.                                                     *)
GrownByNeed ==
  Len(buf'.store) > Len(buf.store) =>
    /\ Len(buf.store) < CheapPrepend + ReadableBytes(buf')
    /\ Len(buf'.store) < CheapPrepend + 2 * ReadableBytes(buf')

(* What is written is a sequence of values.                                *)
LEMMA ChunkIsSeq ==
  ASSUME NEW d \in Chunks
  PROVE  d \in Seq(Values) /\ Len(d) \in Nat
<1>1. PICK n \in 0 .. MaxChunk : d \in [1 .. n -> Bytes]
  BY DEF Chunks
<1>2. n \in Nat /\ d \in [1 .. n -> Values]
  BY <1>1, SizesAssumption DEF Values
<1> QED
  BY <1>2, FunctionIsSeq

(* append keeps the invariant and writes to the queue.                     *)
LEMMA AppendStep ==
  ASSUME Inv, NEW d \in Chunks, AppendData(d)
  PROVE  Inv' /\ GrownByNeed /\ Queue!Write(d)
<1>1. /\ BufferOK(buf') /\ Contents(buf') = Contents(buf) \o d
      /\ ~aborted' /\ GrownByNeed
  BY ChunkIsSeq, AppendedIs DEF AppendData, Inv, GrownByNeed
<1>2. Contents(buf)' = Contents(buf')
  BY DEF Contents
<1> QED
  BY <1>1, <1>2 DEF Inv, BufferOK, Queue!Write

(* prepend keeps the invariant and puts its data in front of the queue.    *)
LEMMA PrependStep ==
  ASSUME Inv, NEW d \in Chunks, Prepend(d)
  PROVE  Inv' /\ GrownByNeed /\ Queue!PutFront(d)
<1> DEFINE q == buf.readIndex - Len(d)
           c == CopyTo(buf.store, q, d)
<1>1. /\ d \in Seq(Values) /\ Len(d) \in Nat /\ Len(d) <= buf.readIndex
      /\ buf' = [store |-> c, readIndex |-> q, writeIndex |-> buf.writeIndex]
      /\ ~aborted' /\ BufferOK(buf)
  BY ChunkIsSeq DEF Prepend, Inv
<1>0. /\ buf.store \in Seq(Values) /\ Len(buf.store) \in Nat
      /\ buf.readIndex \in Nat /\ buf.writeIndex \in Nat
      /\ buf.readIndex <= buf.writeIndex /\ buf.writeIndex <= Len(buf.store)
      /\ CheapPrepend <= Len(buf.store)
      /\ Contents(buf) = SubSeq(buf.store, buf.readIndex + 1, buf.writeIndex)
  BY <1>1, BufferIs
<1>2. q \in Nat /\ q <= buf.writeIndex /\ q + Len(d) <= Len(buf.store)
  BY <1>0, <1>1
<1>3. c \in Seq(Values) /\ Len(c) = Len(buf.store)
  <2> HIDE DEF q
  <2> QED
    BY <1>0, <1>1, <1>2, CopyIs
<1>4. SubSeq(c, q + 1, buf.writeIndex) = d \o Contents(buf)
  <2> DEFINE t == buf.store
             r == buf.readIndex
             w == buf.writeIndex
  <2>1. /\ t \in Seq(Values) /\ r \in Nat /\ w \in Nat /\ r <= w
        /\ w <= Len(t) /\ Len(d) <= r /\ d \in Seq(Values)
    BY <1>0, <1>1
  <2> HIDE DEF t, r, w
  <2>2. SubSeq(CopyTo(t, r - Len(d), d), (r - Len(d)) + 1, w) = d \o SubSeq(t, r + 1, w)
    BY <2>1, CopyPrepends
  <2> QED
    BY <1>0, <2>2 DEF t, r, w
<1> HIDE DEF c, q
<1>5. /\ BufferOK(buf') /\ Contents(buf') = d \o Contents(buf)
      /\ buf'.store = c
  <2>1. buf.writeIndex <= Len(c) /\ CheapPrepend <= Len(c)
    BY <1>0, <1>3
  <2> QED
    BY <1>0, <1>1, <1>2, <1>3, <1>4, <2>1 DEF BufferOK, Contents
<1>6. GrownByNeed
  BY <1>0, <1>3, <1>5 DEF GrownByNeed
<1> QED
  BY <1>1, <1>5, <1>6 DEF Inv, BufferOK, Contents, Queue!PutFront

(* readFd, within the room and beyond it, writes to the queue.             *)
LEMMA ReadFdStep ==
  ASSUME Inv, NEW d \in Chunks, ReadFd(d)
  PROVE  Inv' /\ GrownByNeed /\ Queue!Write(d)
<1> DEFINE n == WritableBytes(buf)
           first == SubSeq(d, 1, n)
           rest == SubSeq(d, n + 1, Len(d))
           full == Received(buf, first)
<1>1. BufferOK(buf) /\ ~aborted /\ d \in Seq(Values) /\ Len(d) \in Nat /\ n \in Nat
  BY ChunkIsSeq, BufferIs DEF Inv
<1>2. /\ BufferOK(buf') /\ Contents(buf') = Contents(buf) \o d
      /\ ~aborted' /\ GrownByNeed
  <2>1. CASE Len(d) <= n
    <3>1. buf' = Received(buf, d) /\ ~aborted'
      BY <1>1, <2>1 DEF ReadFd
    <3>2. /\ BufferOK(buf') /\ Contents(buf') = Contents(buf) \o d
          /\ Len(buf'.store) = Len(buf.store)
      BY <1>1, <2>1, <3>1, ReceivedIs
    <3> QED
      BY <1>1, <3>1, <3>2, BufferIs DEF GrownByNeed
  <2>2. CASE ~(Len(d) <= n)
    <3>1. buf' = Appended(full, rest) /\ aborted' = ~RoomAsserts(full, Len(rest))
      BY <2>2 DEF ReadFd
    <3>2. /\ first \in Seq(Values) /\ rest \in Seq(Values)
          /\ Len(first) = n /\ first \o rest = d
      <4>1. n <= Len(d)
        BY <1>1, <2>2
      <4> HIDE DEF n
      <4>2. /\ SubSeq(d, 0 + 1, n) \in Seq(Values) /\ Len(SubSeq(d, 0 + 1, n)) = n - 0
            /\ SubSeq(d, n + 1, Len(d)) \in Seq(Values)
        BY <1>1, <4>1, SliceIs
      <4>3. 0 + 1 = 1 /\ n - 0 = n
        BY <1>1
      <4>4. SubSeq(d, 1, n) \o SubSeq(d, n + 1, Len(d)) = SubSeq(d, 1, Len(d))
        <5>1. /\ 1 \in 1 .. Len(d) + 1 /\ n \in 1 - 1 .. Len(d)
              /\ Len(d) \in n .. Len(d)
          BY <1>1, <4>1
        <5> QED
          BY <1>1, <5>1, ConcatAdjacentSubSeq
      <4>5. SubSeq(d, 1, Len(d)) = d
        BY <1>1, SubSeqFull
      <4> QED
        BY <4>2, <4>3, <4>4, <4>5
    <3> HIDE DEF first, rest, n
    <3>3. /\ BufferOK(full) /\ Contents(full) = Contents(buf) \o first
          /\ Len(full.store) = Len(buf.store)
      BY <1>1, <3>2, ReceivedIs DEF n
    <3> HIDE DEF full
    <3>4. /\ BufferOK(buf') /\ Contents(buf') = Contents(full) \o rest
          /\ ~aborted' /\ GrownByNeed
      BY <3>1, <3>2, <3>3, AppendedIs DEF GrownByNeed
    <3>5. (Contents(buf) \o first) \o rest = Contents(buf) \o (first \o rest)
      <4> DEFINE old == Contents(buf)
      <4>1. old \in Seq(Values)
        BY <1>1, BufferIs
      <4> HIDE DEF old
      <4>2. first \in Seq(Values) /\ rest \in Seq(Values)
        BY <3>2
      <4>3. (old \o first) \o rest = old \o (first \o rest)
        BY <4>1, <4>2, ConcatAssociative
      <4> QED
        BY <4>3 DEF old
    <3> QED
      BY <3>2, <3>3, <3>4, <3>5
  <2> QED
    BY <2>1, <2>2
<1> QED
  BY <1>2 DEF Inv, BufferOK, Contents, Queue!Write

(* retrieve reads from the queue.                                          *)
LEMMA RetrieveStep ==
  ASSUME Inv, NEW len \in 0 .. MaxContent, Retrieve(len)
  PROVE  Inv' /\ GrownByNeed /\ \E n \in 0 .. Len(Contents(buf)) : Queue!Read(n)
<1> DEFINE r == buf.readIndex + len
<1>1. /\ BufferOK(buf) /\ ~aborted' /\ len \in Nat /\ len <= ReadableBytes(buf)
      /\ buf' = [store |-> buf.store, readIndex |-> r, writeIndex |-> buf.writeIndex]
  BY SizesAssumption DEF Inv, BufferOK, Retrieve
<1>2. r \in Nat /\ r <= buf.writeIndex
  BY <1>1, BufferIs DEF ReadableBytes
<1>3. SubSeq(buf.store, r + 1, buf.writeIndex)
        = SubSeq(Contents(buf), len + 1, Len(Contents(buf)))
  <2> DEFINE s == buf.store
             w == buf.writeIndex
             old == Contents(buf)
             new == SubSeq(s, r + 1, w)
             cut == SubSeq(old, len + 1, Len(old))
  <2>1. /\ s \in Seq(Values) /\ w \in Nat /\ w <= Len(s) /\ Len(s) \in Nat
        /\ old \in Seq(Values) /\ Len(old) = w - buf.readIndex
        /\ buf.readIndex \in Nat /\ len <= Len(old)
        /\ Len(old) \in Nat
    BY <1>1, BufferIs DEF ReadableBytes
  <2>2. \A i \in 1 .. w - buf.readIndex : old[i] = s[buf.readIndex + i]
    <3> DEFINE q == buf.readIndex
    <3>1. s \in Seq(Values) /\ w \in Nat /\ w <= Len(s) /\ q \in Nat /\ q <= w
      BY <1>1, BufferIs
    <3>2. old = SubSeq(s, q + 1, w)
      BY DEF Contents
    <3> HIDE DEF s, w, old, q
    <3>3. \A i \in 1 .. w - q : SubSeq(s, q + 1, w)[i] = s[q + i]
      BY <3>1, SliceIs
    <3> QED
      BY <3>2, <3>3 DEF q
  <2> HIDE DEF s, w, old
  <2>3. new \in Seq(Values) /\ Len(new) = w - r /\ \A i \in 1 .. w - r : new[i] = s[r + i]
    <3> HIDE DEF r
    <3> QED
      BY <1>2, <2>1, SliceIs DEF w
  <2>4. /\ cut \in Seq(Values) /\ Len(cut) = Len(old) - len
        /\ \A i \in 1 .. Len(old) - len : cut[i] = old[len + i]
    <3> DEFINE n == Len(old)
    <3>1. old \in Seq(Values) /\ len \in Nat /\ n \in Nat /\ len <= n /\ n <= Len(old)
      BY <1>1, <2>1
    <3> HIDE DEF n
    <3>2. /\ SubSeq(old, len + 1, n) \in Seq(Values)
          /\ Len(SubSeq(old, len + 1, n)) = n - len
          /\ \A i \in 1 .. n - len : SubSeq(old, len + 1, n)[i] = old[len + i]
      BY <3>1, SliceIs
    <3> QED
      BY <3>2 DEF n
  <2> HIDE DEF new, cut
  <2>5. ASSUME NEW i \in 1 .. w - r PROVE new[i] = cut[i]
    <3>1. /\ i \in 1 .. Len(old) - len /\ len + i \in 1 .. w - buf.readIndex
          /\ buf.readIndex + (len + i) = r + i
      BY <1>1, <2>1
    <3> QED
      BY <2>2, <2>3, <2>4, <3>1
  <2>6. w - r = Len(old) - len
    BY <1>1, <2>1
  <2>7. new = cut
    BY <2>3, <2>4, <2>5, <2>6, SeqEqual
  <2> QED
    BY <2>7 DEF new, cut, old, s, w
<1> HIDE DEF r
<1>4. /\ BufferOK(buf') /\ buf'.store = buf.store
      /\ Contents(buf') = SubSeq(Contents(buf), len + 1, Len(Contents(buf)))
  <2>1. /\ buf.store \in Seq(Values) /\ buf.writeIndex \in Nat
        /\ buf.writeIndex <= Len(buf.store) /\ CheapPrepend <= Len(buf.store)
    BY <1>1, BufferIs
  <2>2. BufferOK(buf')
    BY <1>1, <1>2, <2>1 DEF BufferOK
  <2>3. Contents(buf') = SubSeq(buf.store, r + 1, buf.writeIndex)
    BY <1>1 DEF Contents
  <2> QED
    BY <1>1, <1>3, <2>2, <2>3
<1>5. GrownByNeed
  <2>1. Len(buf'.store) = Len(buf.store) /\ Len(buf.store) \in Nat
    BY <1>1, <1>4, BufferIs
  <2> QED
    BY <2>1 DEF GrownByNeed
<1>6. len \in 0 .. Len(Contents(buf)) /\ len <= Len(Contents(buf))
  BY <1>1, BufferIs
<1>7. Queue!Read(len)
  BY <1>4, <1>6 DEF Contents, Queue!Read
<1> QED
  BY <1>1, <1>4, <1>5, <1>6, <1>7 DEF Inv, BufferOK

(* retrieveAll reads all of the queue.                                     *)
LEMMA RetrieveAllStep ==
  ASSUME Inv, RetrieveAll
  PROVE  Inv' /\ GrownByNeed /\ \E n \in 0 .. Len(Contents(buf)) : Queue!Read(n)
<1>1. /\ BufferOK(buf) /\ ~aborted'
      /\ buf' = [store |-> buf.store, readIndex |-> CheapPrepend, writeIndex |-> CheapPrepend]
  BY DEF Inv, RetrieveAll
<1>2. /\ BufferOK(buf') /\ buf'.store = buf.store
      /\ Contents(buf') = SubSeq(buf.store, CheapPrepend + 1, CheapPrepend)
  <2>1. /\ buf.store \in Seq(Values) /\ CheapPrepend \in Nat
        /\ CheapPrepend <= Len(buf.store)
    BY <1>1, BufferIs
  <2> QED
    BY <1>1, <2>1 DEF BufferOK, Contents
<1>3. GrownByNeed
  <2>1. Len(buf'.store) = Len(buf.store) /\ Len(buf.store) \in Nat
    BY <1>1, <1>2, BufferIs
  <2> QED
    BY <2>1 DEF GrownByNeed
<1> DEFINE n == Len(Contents(buf))
<1>4. n \in Nat /\ n \in 0 .. n /\ n <= n
  BY <1>1, BufferIs
<1>5. /\ SubSeq(buf.store, CheapPrepend + 1, CheapPrepend) = <<>>
      /\ SubSeq(Contents(buf), n + 1, n) = <<>>
  <2> HIDE DEF n
  <2>1. /\ CheapPrepend + 1 \in Int /\ CheapPrepend \in Int /\ CheapPrepend < CheapPrepend + 1
        /\ n + 1 \in Int /\ n \in Int /\ n < n + 1
    BY <1>1, <1>4, BufferIs
  <2> QED
    BY <2>1, SubSeqEmpty
<1>6. Queue!Read(n)
  BY <1>2, <1>4, <1>5 DEF Contents, Queue!Read
<1> QED
  BY <1>1, <1>2, <1>3, <1>4, <1>6 DEF Inv, BufferOK

(* Every step is one of these.                                              *)
LEMMA BufferStep ==
  ASSUME Inv, [Next]_vars
  PROVE  Inv' /\ [GrownByNeed]_vars /\ [Queue!Next]_(Contents(buf))
<1>1. CASE Next
  BY <1>1, AppendStep, PrependStep, ReadFdStep, RetrieveStep, RetrieveAllStep
     DEF Next, Queue!Next
<1>2. CASE UNCHANGED vars
  BY <1>2 DEF vars, Inv, BufferOK, Contents
<1> QED
  BY <1>1, <1>2

(* A new buffer is an empty queue.                                         *)
LEMMA BufferInit == Init => Inv /\ Queue!Init
<1> SUFFICES ASSUME Init PROVE Inv /\ Queue!Init
  OBVIOUS
<1> DEFINE s == [k \in 1 .. CheapPrepend + InitialSize |-> Zero]
<1>1. CheapPrepend \in Nat /\ CheapPrepend + InitialSize \in Nat
      /\ CheapPrepend <= CheapPrepend + InitialSize
  BY SizesAssumption
<1>2. s \in Seq(Values) /\ Len(s) = CheapPrepend + InitialSize
  <2>1. s \in [1 .. CheapPrepend + InitialSize -> Values]
    BY DEF Values
  <2> QED
    BY <1>1, <2>1, FunctionIsSeq
<1>3. /\ buf = [store |-> s, readIndex |-> CheapPrepend, writeIndex |-> CheapPrepend]
      /\ ~aborted
  BY DEF Init
<1> HIDE DEF s
<1>4. /\ BufferOK(buf)
      /\ Contents(buf) = SubSeq(s, CheapPrepend + 1, CheapPrepend)
  <2>1. CheapPrepend <= CheapPrepend /\ CheapPrepend <= Len(s)
    BY <1>1, <1>2
  <2> QED
    BY <1>1, <1>2, <1>3, <2>1 DEF BufferOK, Contents
<1>5. SubSeq(s, CheapPrepend + 1, CheapPrepend) = <<>>
  <2>1. CheapPrepend + 1 \in Int /\ CheapPrepend \in Int /\ CheapPrepend < CheapPrepend + 1
    BY <1>1
  <2> QED
    BY <2>1, SubSeqEmpty
<1> QED
  BY <1>3, <1>4, <1>5 DEF Inv, Queue!Init

(* The invariant, from which the theorems below follow.                    *)
THEOREM Invariance == Spec => []Inv
BY BufferInit, BufferStep, PTL DEF Spec

(* makeSpace moves the data down only when there is more room in front     *)
(* than the prependable bytes, and leaves the room asked for.              *)
THEOREM AssertsOfRoom == Spec => []AssertsHold
<1>1. Inv => AssertsHold
  BY DEF Inv, AssertsHold
<1> QED
  BY <1>1, Invariance, PTL

(* Whatever the sizes, the readable bytes are a queue of those written and *)
(* not yet read.                                                           *)
THEOREM ImplementsByteQueue == Spec => IsByteQueue
BY BufferInit, BufferStep, Invariance, PTL DEF Spec, IsByteQueue, Queue!Spec

(* The vector grows only when, as it was, the data did not fit behind the  *)
(* prependable bytes, and to less than those and twice what is readable.   *)
THEOREM GrowsOnlyByNeed == Spec => GrowsByNeed
<1>1. ASSUME Inv, [Next]_vars
      PROVE  [Len(buf'.store) > Len(buf.store) =>
                /\ Len(buf.store) < CheapPrepend + ReadableBytes(buf')
                /\ Len(buf'.store) < CheapPrepend + 2 * ReadableBytes(buf')]_vars
  BY <1>1, BufferStep DEF GrownByNeed
<1> QED
  BY <1>1, Invariance, PTL DEF Spec, GrowsByNeed
==============================================================================
