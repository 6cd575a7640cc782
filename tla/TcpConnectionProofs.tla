------------------------- MODULE TcpConnectionProofs -------------------------
(***************************************************************************)
(* The stream and the life of a connection, for any messages, one loop or  *)
(* two, and whatever peer and users do.                                    *)
(***************************************************************************)
EXTENDS TcpConnection, SequenceTheorems, TLAPS

(* The functors each loop has still to run, over its batch and its queue.  *)
Rest(b, n, q) == SubSeq(b, n + 1, Len(b)) \o q

left == [l \in Loops |-> Rest(batch[l], next[l], queue[l])]

Has(s, op) == \E i \in 1 .. Len(s) : s[i].op = op
Once(s, op) ==
  \A i, j \in 1 .. Len(s) : s[i].op = op /\ s[j].op = op => i = j

(* Before connectEestablished nothing but it is on its way, and nobody has *)
(* the connection yet.                                                     *)
NewOK ==
  /\ st \in {"none", "connecting"}
  /\ inMap = (st = "connecting")
  /\ freed = "no" /\ ~holds /\ userPc = "idle"
  /\ ioPc \in {"poll", "pending"} /\ ~deaf /\ output = <<>>
  /\ \A l \in Loops : left[l] = IF l = "io" /\ st = "connecting"
                                THEN <<Functor("established")>> ELSE <<>>

(* While the channel is in the poller, connectDestory is queued if and     *)
(* only if the server has forgotten the connection.                        *)
AddedOK ==
  /\ st \in {"connected", "disconnecting"}
  /\ freed = "no"
  /\ inMap = ~Has(left["io"], "destroy")
  /\ ~Has(left["io"], "established")

(* Afterwards it is not queued again, and no event is handled.             *)
RemovedOK ==
  /\ st \in {"disconnected", "disconnecting"}
  /\ ~inMap
  /\ ioPc \in {"poll", "pending"}
  /\ ~Has(left["io"], "destroy")
  /\ ~Has(left["io"], "established")

(* handleEvent has something to do only between poll and its end.          *)
HandlingOK == todo # {} => ioPc = "handle" \/ (ioPc = "callback" /\ back = "handle")

LifeInv ==
  /\ channel = "new" => NewOK
  /\ channel = "added" => AddedOK
  /\ channel = "removed" => RemovedOK
  /\ Once(left["io"], "destroy")
  /\ HandlingOK
  /\ aborted # "state"

(* What waits in the buffer is waited for, unless the channel is off.      *)
BufferWatched == output # <<>> => "write" \in events \/ deaf

------------------------------------------------------------------------------
(* A sequence cut in two.                                                  *)
LEMMA CutIs ==
  ASSUME NEW S, NEW s \in Seq(S), NEW n \in 0 .. Len(s)
  PROVE  /\ SubSeq(s, 1, n) \in Seq(S)
         /\ SubSeq(s, n + 1, Len(s)) \in Seq(S)
         /\ SubSeq(s, 1, n) \o SubSeq(s, n + 1, Len(s)) = s
         /\ n = 0 => SubSeq(s, 1, n) = <<>> /\ SubSeq(s, n + 1, Len(s)) = s
         /\ n = Len(s) => SubSeq(s, n + 1, Len(s)) = <<>>
<1> DEFINE len == Len(s)
<1>1. len \in Nat /\ n \in Int /\ len \in Int /\ n + 1 \in Int /\ 1 \in Int /\ 0 \in Int
  OBVIOUS
<1>2. SubSeq(s, 1, n) \in Seq(S)
  <2>1. \A i \in 1 .. n : s[i] \in S
    OBVIOUS
  <2> QED
    BY <1>1, <2>1, SubSeqProperties
<1>3. SubSeq(s, n + 1, len) \in Seq(S)
  <2>1. \A i \in n + 1 .. len : s[i] \in S
    OBVIOUS
  <2> QED
    BY <1>1, <2>1, SubSeqProperties
<1>4. SubSeq(s, 1, n) \o SubSeq(s, n + 1, len) = s
  <2>1. 1 \in 1 .. Len(s) + 1 /\ n \in 1 - 1 .. Len(s) /\ Len(s) \in n .. Len(s)
    OBVIOUS
  <2>2. SubSeq(s, 1, n) \o SubSeq(s, n + 1, Len(s)) = SubSeq(s, 1, Len(s))
    BY <2>1, ConcatAdjacentSubSeq
  <2> QED
    BY <2>2, SubSeqFull
<1>5. n = 0 => SubSeq(s, 1, n) = <<>> /\ SubSeq(s, n + 1, len) = s
  <2>1. SubSeq(s, 1, 0) = <<>>
    BY <1>1, SubSeqEmpty
  <2>2. SubSeq(s, 0 + 1, Len(s)) = s
    BY SubSeqFull
  <2> QED
    BY <2>1, <2>2
<1>6. n = len => SubSeq(s, n + 1, len) = <<>>
  <2>1. n = len => len < n + 1
    BY <1>1
  <2> QED
    BY <1>1, <2>1, SubSeqEmpty
<1> QED
  BY <1>2, <1>3, <1>4, <1>5, <1>6

(* What is left of a batch and a queue is a sequence, to which queueInloop *)
(* appends.                                                                *)
LEMMA RestIs ==
  ASSUME NEW S, NEW b \in Seq(S), NEW q \in Seq(S), NEW n \in 0 .. Len(b)
  PROVE  /\ Rest(b, n, q) \in Seq(S)
         /\ n = Len(b) => Rest(b, n, q) = q
         /\ \A f \in S : Rest(b, n, Append(q, f)) = Append(Rest(b, n, q), f)
<1> DEFINE r == SubSeq(b, n + 1, Len(b))
<1>1. r \in Seq(S) /\ (n = Len(b) => r = <<>>)
  BY CutIs
<1> HIDE DEF r
<1>2. r \o q \in Seq(S)
  BY <1>1, ConcatProperties
<1>3. <<>> \o q = q
  BY ConcatEmptySeq
<1>4. ASSUME NEW f \in S PROVE r \o Append(q, f) = Append(r \o q, f)
  <2>1. Append(q, f) = q \o <<f>> /\ Append(r \o q, f) = (r \o q) \o <<f>>
    BY <1>2, AppendIsConcat
  <2>2. <<f>> \in Seq(S)
    OBVIOUS
  <2> QED
    BY <1>1, <2>1, <2>2, ConcatAssociative, SMTT(20)
<1> QED
  BY <1>1, <1>2, <1>3, <1>4 DEF Rest, r

(* A swap leaves it as it is ...                                           *)
LEMMA RestSwap ==
  ASSUME NEW S, NEW q \in Seq(S)
  PROVE  Rest(<<>>, 0, q) = q /\ Rest(q, 0, <<>>) = q
<1>1. Rest(<<>>, 0, q) = q
  <2>1. SubSeq(<<>>, 0 + 1, Len(<<>>)) = <<>>
    OBVIOUS
  <2>2. <<>> \o q = q
    BY ConcatEmptySeq
  <2> QED
    BY <2>1, <2>2 DEF Rest
<1>2. SubSeq(q, 0 + 1, Len(q)) = q
  BY SubSeqFull
<1>3. q \o <<>> = q
  BY ConcatEmptySeq
<1> QED
  BY <1>1, <1>2, <1>3 DEF Rest

(* ... and the functor that runs was its first.                            *)
LEMMA RestTake ==
  ASSUME NEW S, NEW b \in Seq(S), NEW q \in Seq(S), NEW n \in 0 .. Len(b), n < Len(b)
  PROVE  /\ b[n + 1] \in S /\ n + 1 \in 0 .. Len(b)
         /\ Rest(b, n, q) = <<b[n + 1]>> \o Rest(b, n + 1, q)
<1> DEFINE r == SubSeq(b, n + 1 + 1, Len(b))
<1>1. n + 1 \in 1 .. Len(b) /\ Len(b) \in n + 1 .. Len(b) /\ b[n + 1] \in S
      /\ n + 1 \in 0 .. Len(b)
  OBVIOUS
<1>2. r \in Seq(S)
  BY <1>1, CutIs
<1>3. SubSeq(b, n + 1, Len(b)) = <<b[n + 1]>> \o r
  BY <1>1, SubSeqRecursiveFirst
<1> HIDE DEF r
<1>4. <<b[n + 1]>> \in Seq(S)
  BY <1>1
<1>5. (<<b[n + 1]>> \o r) \o q = <<b[n + 1]>> \o (r \o q)
  BY <1>2, <1>4, ConcatAssociative, SMTT(20)
<1> QED
  BY <1>1, <1>3, <1>5 DEF Rest, r

------------------------------------------------------------------------------
(* Which functors a sequence has after queueInloop, and before the first   *)
(* of them was taken.                                                      *)
LEMMA HasAppended ==
  ASSUME NEW S, NEW s \in Seq(S), NEW f \in S, NEW op
  PROVE  /\ Has(Append(s, f), op) <=> Has(s, op) \/ f.op = op
         /\ Once(Append(s, f), op) <=> Once(s, op) /\ (f.op = op => ~Has(s, op))
<1> DEFINE a == Append(s, f)
           n == Len(s)
<1>1. /\ n \in Nat /\ Len(a) = n + 1 /\ a[n + 1] = f
      /\ \A i \in 1 .. n : a[i] = s[i]
  BY AppendProperties
<1>2. Has(s, op) <=> \E i \in 1 .. n : s[i].op = op
  BY DEF Has
<1>3. Once(s, op) <=> \A i, j \in 1 .. n : s[i].op = op /\ s[j].op = op => i = j
  BY DEF Once
<1>4. Has(a, op) <=> \E i \in 1 .. n + 1 : a[i].op = op
  BY <1>1 DEF Has
<1>5. Once(a, op) <=> \A i, j \in 1 .. n + 1 : a[i].op = op /\ a[j].op = op => i = j
  BY <1>1 DEF Once
<1> HIDE DEF a, n
<1>6. \A i : i \in 1 .. n + 1 <=> i \in 1 .. n \/ i = n + 1
  BY <1>1
<1>7. n + 1 \notin 1 .. n
  BY <1>1
<1>8. Has(a, op) <=> Has(s, op) \/ f.op = op
  BY <1>1, <1>2, <1>4, <1>6
<1>9. Once(a, op) <=> Once(s, op) /\ (f.op = op => ~Has(s, op))
  BY <1>1, <1>2, <1>3, <1>5, <1>6, <1>7
<1> QED
  BY <1>8, <1>9 DEF a

(* The same for a functor put in front.                                    *)
LEMMA HasFirst ==
  ASSUME NEW S, NEW s \in Seq(S), NEW f \in S, NEW op
  PROVE  /\ Has(<<f>> \o s, op) <=> Has(s, op) \/ f.op = op
         /\ Once(<<f>> \o s, op) <=> Once(s, op) /\ (f.op = op => ~Has(s, op))
<1> DEFINE a == <<f>> \o s
           n == Len(s)
<1>1. /\ n \in Nat /\ Len(a) = n + 1 /\ a[1] = f
      /\ \A i \in 1 .. n : a[i + 1] = s[i]
  <2>1. <<f>> \in Seq(S) /\ Len(<<f>>) = 1 /\ <<f>>[1] = f
    OBVIOUS
  <2>2. /\ Len(a) = 1 + n /\ n \in Nat
        /\ \A i \in 1 .. 1 + n : a[i] = IF i <= 1 THEN <<f>>[i] ELSE s[i - 1]
    BY <2>1, ConcatProperties
  <2> HIDE DEF a, n
  <2> QED
    BY <2>1, <2>2
<1>2. Has(s, op) <=> \E i \in 1 .. n : s[i].op = op
  BY DEF Has
<1>3. Once(s, op) <=> \A i, j \in 1 .. n : s[i].op = op /\ s[j].op = op => i = j
  BY DEF Once
<1>4. Has(a, op) <=> \E i \in 1 .. n + 1 : a[i].op = op
  BY <1>1 DEF Has
<1>5. Once(a, op) <=> \A i, j \in 1 .. n + 1 : a[i].op = op /\ a[j].op = op => i = j
  BY <1>1 DEF Once
<1> HIDE DEF a, n
<1>6. \A i \in 1 .. n + 1 : i = 1 \/ (i - 1 \in 1 .. n /\ a[i] = s[i - 1])
  BY <1>1
<1>7. \A i \in 1 .. n : i + 1 \in 1 .. n + 1 /\ i + 1 # 1 /\ a[i + 1] = s[i]
  BY <1>1
<1>8. 1 \in 1 .. n + 1
  BY <1>1
<1>9. Has(a, op) <=> Has(s, op) \/ f.op = op
  BY <1>1, <1>2, <1>4, <1>6, <1>7, <1>8
<1>10. Once(a, op) => Once(s, op) /\ (f.op = op => ~Has(s, op))
  <2> SUFFICES ASSUME Once(a, op)
               PROVE  Once(s, op) /\ (f.op = op => ~Has(s, op))
    OBVIOUS
  <2>1. ASSUME NEW i \in 1 .. n, NEW j \in 1 .. n, s[i].op = op, s[j].op = op
        PROVE  i = j
    <3>1. i + 1 = j + 1
      BY <1>5, <1>7, <2>1
    <3> QED
      BY <1>1, <2>1, <3>1
  <2> QED
    BY <1>1, <1>2, <1>3, <1>5, <1>7, <1>8, <2>1
<1>11. Once(s, op) /\ (f.op = op => ~Has(s, op)) => Once(a, op)
  <2> SUFFICES ASSUME Once(s, op), f.op = op => ~Has(s, op),
                      NEW i \in 1 .. n + 1, NEW j \in 1 .. n + 1,
                      a[i].op = op, a[j].op = op
               PROVE  i = j
    BY <1>5
  <2>1. i = 1 /\ j # 1 => FALSE
    BY <1>1, <1>2, <1>6
  <2>2. j = 1 /\ i # 1 => FALSE
    BY <1>1, <1>2, <1>6
  <2>3. i # 1 /\ j # 1 => i - 1 = j - 1
    BY <1>3, <1>6
  <2> QED
    BY <1>1, <2>1, <2>2, <2>3
<1> QED
  BY <1>9, <1>10, <1>11 DEF a

------------------------------------------------------------------------------
(* The stream.                                                             *)
StreamOK ==
  /\ output \in Seq(UnitType) /\ wire \in Seq(UnitType) /\ accepted \in Seq(UnitType)
  /\ StreamInOrder
  /\ BufferWatched

FinStep == fin' /\ ~fin => output' = <<>> \/ deaf'

(* A message is at least one unit long.                                    *)
LEMMA PayloadIs ==
  ASSUME NEW m \in Messages
  PROVE  /\ Payload(m) \in Seq(UnitType) /\ Len(Payload(m)) \in Nat \ {0}
<1>1. Payload(m) \in [1 .. Units -> UnitType] /\ Units \in Nat
  BY UnitsAssumption DEF Payload, UnitType
<1> QED
  BY <1>1, UnitsAssumption

(* What ::write takes is a part of what it is given.                       *)
LEMMA WrittenIs ==
  ASSUME NEW n \in Nat, NEW writable \in BOOLEAN, NEW k \in WriteResults(n, writable)
  PROVE  k \in 0 .. n
  BY DEF WriteResults

(* sendInloop writes directly only when nothing waits, and asks for        *)
(* writability when something does.                                        *)
LEMMA SendStep ==
  ASSUME StreamOK, events \subseteq {"read", "write"}, NEW m \in Messages, SendInloop(m)
  PROVE  /\ StreamOK' /\ fin' = fin
         /\ events' \subseteq {"read", "write"} /\ UNCHANGED <<channel, deaf>>
         /\ aborted' \in {aborted, "poller"}
<1> DEFINE p == Payload(m)
<1>1. p \in Seq(UnitType) /\ Len(p) \in Nat \ {0}
  BY PayloadIs
<1>2. PICK n \in IF WriteDirectly THEN WriteResults(Len(p), FALSE) ELSE {0} :
        /\ accepted' = accepted \o p
        /\ wire' = wire \o SubSeq(p, 1, n)
        /\ output' = output \o SubSeq(p, n + 1, Len(p))
        /\ fin' = fin
        /\ IF n < Len(p) /\ "write" \notin events
           THEN ChannelEnableWriting
           ELSE UNCHANGED <<channelVars, aborted>>
  BY DEF SendInloop
<1> HIDE DEF p
<1>0. output \in Seq(UnitType) /\ wire \in Seq(UnitType) /\ accepted \in Seq(UnitType)
  BY DEF StreamOK
<1>3. n \in 0 .. Len(p) /\ (n = 0 \/ output = <<>>)
  <2>1. CASE WriteDirectly
    <3>1. Len(p) \in Nat /\ FALSE \in BOOLEAN /\ n \in WriteResults(Len(p), FALSE)
      BY <1>1, <1>2, <2>1
    <3>2. n \in 0 .. Len(p)
      BY <3>1, WrittenIs
    <3> QED
      BY <2>1, <3>2 DEF WriteDirectly
  <2>2. CASE ~WriteDirectly
    BY <1>1, <1>2, <2>2
  <2> QED
    BY <2>1, <2>2
<1> DEFINE a == SubSeq(p, 1, n)
           z == SubSeq(p, n + 1, Len(p))
<1>4. /\ a \in Seq(UnitType) /\ z \in Seq(UnitType) /\ a \o z = p
      /\ n = 0 => a = <<>> /\ z = p
      /\ n = Len(p) => z = <<>>
  BY <1>1, <1>3, CutIs
<1>5. wire' = wire \o a /\ output' = output \o z
  BY <1>2
<1> HIDE DEF a, z
<1>10. a \in Seq(UnitType) /\ z \in Seq(UnitType)
  BY <1>4
<1>11. p \in Seq(UnitType)
  BY <1>1
<1>6. wire' \in Seq(UnitType) /\ output' \in Seq(UnitType) /\ accepted' \in Seq(UnitType)
  <2>1. /\ wire \o a \in Seq(UnitType) /\ output \o z \in Seq(UnitType)
        /\ accepted \o p \in Seq(UnitType)
    BY <1>0, <1>10, <1>11, ConcatProperties
  <2> QED
    BY <1>2, <1>5, <2>1
<1>7. wire' \o output' = accepted'
  <2>1. CASE n = 0
    <3>1. wire' = wire /\ output' = output \o p
      <4>1. wire' = wire \o <<>> /\ output' = output \o p
        BY <1>4, <1>5, <2>1
      <4>2. wire \o <<>> = wire
        BY <1>0, ConcatEmptySeq
      <4> QED
        BY <4>1, <4>2
    <3>2. (wire \o output) \o p = wire \o (output \o p)
      BY <1>0, <1>11, ConcatAssociative, SMTT(20)
    <3> QED
      BY <1>2, <3>1, <3>2 DEF StreamOK, StreamInOrder
  <2>2. CASE output = <<>>
    <3>1. output' = z /\ wire = accepted
      <4>1. output' = <<>> \o z /\ wire \o <<>> = accepted
        BY <1>5, <2>2 DEF StreamOK, StreamInOrder
      <4>2. <<>> \o z = z /\ wire \o <<>> = wire
        BY <1>0, <1>10, ConcatEmptySeq
      <4> QED
        BY <4>1, <4>2
    <3>2. (wire \o a) \o z = wire \o (a \o z)
      BY <1>0, <1>10, ConcatAssociative, SMTT(20)
    <3> QED
      BY <1>2, <1>4, <1>5, <3>1, <3>2
  <2> QED
    BY <1>3, <2>1, <2>2
<1>8. /\ events' = events \cup {"write"} \/ (events' = events /\ (n = Len(p) \/ "write" \in events))
      /\ UNCHANGED <<channel, deaf>> /\ aborted' \in {aborted, "poller"}
  BY <1>1, <1>2, <1>3 DEF ChannelEnableWriting, channelVars
<1>9. output' # <<>> => "write" \in events' \/ deaf'
  <2>1. CASE "write" \in events
    BY <1>8, <2>1
  <2>2. CASE events' = events \cup {"write"}
    BY <2>2
  <2>3. CASE events' = events /\ n = Len(p)
    <3>1. output' = <<>>
      BY <1>1, <1>3, <1>4, <1>5, <2>3, ConcatEmptySeq DEF StreamOK
    <3> QED
      BY <3>1
  <2> QED
    BY <1>8, <2>1, <2>2, <2>3
<1> QED
  BY <1>2, <1>6, <1>7, <1>8, <1>9 DEF StreamOK, StreamInOrder, BufferWatched

(* handleWrite takes from the front of the buffer, and stops watching, or  *)
(* shuts down, only when it is empty.                                      *)
LEMMA HandleWriteStep ==
  ASSUME StreamOK, events \subseteq {"read", "write"}, deaf \in BOOLEAN, fin \in BOOLEAN,
         HandleWrite
  PROVE  /\ StreamOK' /\ FinStep
         /\ events' \subseteq {"read", "write"} /\ deaf' \in BOOLEAN /\ fin' \in BOOLEAN
         /\ UNCHANGED channel
<1>1. CASE "write" \notin events
  BY <1>1 DEF HandleWrite, channelVars, streamVars, StreamOK, StreamInOrder,
              BufferWatched, FinStep
<1>0. output \in Seq(UnitType) /\ wire \in Seq(UnitType) /\ accepted \in Seq(UnitType)
  BY DEF StreamOK
<1>2. CASE "write" \in events
  <2>1. PICK n \in WriteResults(Len(output), TRUE) :
          /\ wire' = wire \o SubSeq(output, 1, n)
          /\ output' = SubSeq(output, n + 1, Len(output))
          /\ IF n = 0 THEN UNCHANGED <<events, deaf, fin>>
             ELSE Drained(n) \/ NotDrained(n)
          /\ UNCHANGED <<channel, accepted>>
    BY <1>2 DEF HandleWrite
  <2>2. n \in 0 .. Len(output)
    <3>1. Len(output) \in Nat /\ TRUE \in BOOLEAN
      BY <1>0
    <3> QED
      BY <2>1, <3>1, WrittenIs
  <2> DEFINE a == SubSeq(output, 1, n)
             z == SubSeq(output, n + 1, Len(output))
  <2>3. /\ a \in Seq(UnitType) /\ z \in Seq(UnitType) /\ a \o z = output
        /\ n = Len(output) => z = <<>>
    BY <1>0, <2>2, CutIs
  <2>4. wire' = wire \o a /\ output' = z
    BY <2>1
  <2> HIDE DEF a, z
  <2>10. a \in Seq(UnitType) /\ z \in Seq(UnitType)
    BY <2>3
  <2>5. wire' \in Seq(UnitType) /\ output' \in Seq(UnitType)
    <3>1. wire \o a \in Seq(UnitType)
      BY <1>0, <2>10, ConcatProperties
    <3> QED
      BY <2>4, <2>10, <3>1
  <2>6. wire' \o output' = accepted'
    <3>1. (wire \o a) \o z = wire \o (a \o z)
      BY <1>0, <2>10, ConcatAssociative, SMTT(20)
    <3> QED
      BY <2>1, <2>3, <2>4, <3>1 DEF StreamOK, StreamInOrder
  <2>7. \/ UNCHANGED <<events, deaf, fin>>
        \/ /\ output' = <<>> /\ events' = events \ {"write"}
           /\ deaf' = (deaf \/ events = {"write"}) /\ fin' \in {fin, TRUE}
    BY <2>1, <2>3, <2>4 DEF Drained, NotDrained, ShutdownInloop, ShutdownWrite
  <2>8. (output' # <<>> => "write" \in events' \/ deaf') /\ FinStep
    <3>1. CASE UNCHANGED <<events, deaf, fin>>
      BY <1>2, <3>1 DEF FinStep
    <3>2. CASE output' = <<>>
      BY <3>2 DEF FinStep
    <3> QED
      BY <2>7, <3>1, <3>2
  <2>9. events' \subseteq {"read", "write"} /\ deaf' \in BOOLEAN /\ fin' \in BOOLEAN
    BY <2>7
  <2> QED
    BY <2>1, <2>5, <2>6, <2>8, <2>9 DEF StreamOK, StreamInOrder, BufferWatched
<1> QED
  BY <1>1, <1>2

------------------------------------------------------------------------------
(* The functors of the loops.                                              *)
QueuesOK ==
  /\ singleLoop \in BOOLEAN
  /\ queue \in [Loops -> Seq(FunctorType)]
  /\ batch \in [Loops -> Seq(FunctorType)]
  /\ next \in [Loops -> Nat]
  /\ \A l \in Loops : next[l] \in 0 .. Len(batch[l])

(* The functors the code makes.                                            *)
LEMMA FunctorTypes ==
  /\ \A op \in Ops \ {"send"} : Functor(op) \in FunctorType /\ Functor(op).op = op
  /\ \A m \in Messages : SendFunctor(m) \in FunctorType /\ SendFunctor(m).op = "send"
  BY DEF Functor, SendFunctor, FunctorType, Ops

(* What the steps of a loop do to the functors it has left.                *)
LEMMA LeftAt ==
  ASSUME QueuesOK, QueuesOK', singleLoop' = singleLoop, NEW l \in Loops
  PROVE  /\ left[l] \in Seq(FunctorType) /\ left'[l] \in Seq(FunctorType)
         /\ UNCHANGED <<batch[l], next[l], queue[l]>> => left'[l] = left[l]
         /\ \A f \in FunctorType :
              UNCHANGED <<batch[l], next[l]>> /\ queue'[l] = Append(queue[l], f)
                => left'[l] = Append(left[l], f)
         /\ /\ UNCHANGED <<batch[l], queue[l]>>
            /\ next[l] < Len(batch[l]) /\ next'[l] = next[l] + 1
            => /\ batch[l][next[l] + 1] \in FunctorType
               /\ left[l] = <<batch[l][next[l] + 1]>> \o left'[l]
         /\ /\ batch[l] = <<>> /\ batch'[l] = queue[l] /\ queue'[l] = <<>>
            /\ next'[l] = next[l]
            => left'[l] = left[l]
         /\ /\ next[l] = Len(batch[l])
            /\ batch'[l] = <<>> /\ next'[l] = 0 /\ queue'[l] = queue[l]
            => left'[l] = left[l] /\ left[l] = queue[l]
<1> DEFINE b == batch[l]
           n == next[l]
           q == queue[l]
           S == FunctorType
<1>1. b \in Seq(S) /\ q \in Seq(S) /\ n \in 0 .. Len(b) /\ l \in Loops'
  BY DEF QueuesOK, Loops
<1>2. b' \in Seq(S) /\ q' \in Seq(S) /\ n' \in 0 .. Len(b')
  BY <1>1 DEF QueuesOK
<1>3. left[l] = Rest(b, n, q) /\ left'[l] = Rest(b', n', q')
  BY <1>1 DEF left
<1>4. /\ Rest(b, n, q) \in Seq(S)
      /\ n = Len(b) => Rest(b, n, q) = q
      /\ \A f \in S : Rest(b, n, Append(q, f)) = Append(Rest(b, n, q), f)
  <2> HIDE DEF b, n, q, S
  <2> QED
    BY <1>1, RestIs
<1>8. Rest(b', n', q') \in Seq(S)
  BY <1>2, RestIs
<1>5. n < Len(b) => b[n + 1] \in S /\ Rest(b, n, q) = <<b[n + 1]>> \o Rest(b, n + 1, q)
  BY <1>1, RestTake
<1>6. Rest(<<>>, 0, q) = q /\ Rest(q, 0, <<>>) = q
  BY <1>1, RestSwap
<1>7. b = <<>> => n = 0
  BY <1>1
<1> QED
  BY <1>3, <1>4, <1>5, <1>6, <1>7, <1>8

(* queueInloop keeps the queues well-formed ...                            *)
LEMMA QueuedKeeps ==
  ASSUME QueuesOK, UNCHANGED <<singleLoop, batch, next>>,
         queue' = queue \/ \E l \in Loops, f \in FunctorType : Enqueue(l, f)
  PROVE  QueuesOK'
<1>1. Loops' = Loops
  BY DEF Loops
<1>2. queue' \in [Loops -> Seq(FunctorType)]
  <2>1. CASE queue' = queue
    BY <2>1 DEF QueuesOK
  <2>2. CASE \E l \in Loops, f \in FunctorType : Enqueue(l, f)
    <3>1. PICK l \in Loops, f \in FunctorType : Enqueue(l, f)
      BY <2>2
    <3>2. Append(queue[l], f) \in Seq(FunctorType)
      BY <3>1, AppendProperties DEF QueuesOK
    <3> QED
      BY <3>1, <3>2 DEF Enqueue, QueuesOK
  <2> QED
    BY <2>1, <2>2
<1> QED
  BY <1>1, <1>2 DEF QueuesOK

(* ... and so does the run of a functor, with what it queues ...           *)
LEMMA TakeKeeps ==
  ASSUME QueuesOK, singleLoop' = singleLoop, NEW l \in Loops, NEW op, Take(l, op),
         queue' = queue \/ \E k \in Loops, f \in FunctorType : Enqueue(k, f)
  PROVE  QueuesOK'
<1>1. Loops' = Loops
  BY DEF Loops
<1>2. queue' \in [Loops -> Seq(FunctorType)]
  <2>1. CASE queue' = queue
    BY <2>1 DEF QueuesOK
  <2>2. CASE \E k \in Loops, f \in FunctorType : Enqueue(k, f)
    <3>1. PICK k \in Loops, f \in FunctorType : Enqueue(k, f)
      BY <2>2
    <3>2. Append(queue[k], f) \in Seq(FunctorType)
      BY <3>1, AppendProperties DEF QueuesOK
    <3> QED
      BY <3>1, <3>2 DEF Enqueue, QueuesOK
  <2> QED
    BY <2>1, <2>2
<1>3. /\ batch' = batch /\ next' = [next EXCEPT ![l] = next[l] + 1]
      /\ next[l] < Len(batch[l])
  BY DEF Take
<1>4. \A k \in Loops : next'[k] \in 0 .. Len(batch[k])
  BY <1>3 DEF QueuesOK
<1> QED
  BY <1>1, <1>2, <1>3, <1>4 DEF QueuesOK

(* ... and the swap, and the end of a batch.                               *)
LEMMA SwapKeeps ==
  ASSUME QueuesOK, NEW l \in Loops, Swap(l) \/ BatchDone(l)
  PROVE  QueuesOK'
<1>1. Loops' = Loops /\ singleLoop' = singleLoop
  BY DEF Loops, Swap, BatchDone, serverVars
<1>2. CASE Swap(l)
  <2>1. /\ batch[l] = <<>> /\ batch' = [batch EXCEPT ![l] = queue[l]]
        /\ queue' = [queue EXCEPT ![l] = <<>>] /\ next' = next
    BY <1>2 DEF Swap
  <2>2. next[l] = 0 /\ Len(queue[l]) \in Nat /\ <<>> \in Seq(FunctorType)
    BY <2>1 DEF QueuesOK
  <2>3. \A k \in Loops : next'[k] \in 0 .. Len(batch'[k])
    BY <2>1, <2>2 DEF QueuesOK
  <2> QED
    BY <1>1, <2>1, <2>2, <2>3 DEF QueuesOK
<1>3. CASE BatchDone(l)
  <2>1. /\ batch' = [batch EXCEPT ![l] = <<>>]
        /\ next' = [next EXCEPT ![l] = 0] /\ queue' = queue
    BY <1>3 DEF BatchDone
  <2>2. <<>> \in Seq(FunctorType)
    OBVIOUS
  <2>3. \A k \in Loops : next'[k] \in 0 .. Len(batch'[k])
    BY <2>1 DEF QueuesOK
  <2> QED
    BY <1>1, <2>1, <2>2, <2>3 DEF QueuesOK
<1> QED
  BY <1>2, <1>3

(* Close, which may hand the connection to the server.                     *)
LEMMA CloseQueues ==
  ASSUME Close
  PROVE  queue' = queue \/ \E l \in Loops, f \in FunctorType : Enqueue(l, f)
<1>1. "io" \in Loops /\ (~singleLoop => "base" \in Loops)
  BY DEF Loops
<1>2. Functor("destroy") \in FunctorType /\ Functor("remove") \in FunctorType
  BY FunctorTypes DEF Ops
<1> QED
  BY <1>1, <1>2 DEF Close, RemoveConnectionInLoop

(* Every step keeps the queues well-formed.                                *)
LEMMA QueuesStep ==
  ASSUME QueuesOK, [Next]_vars
  PROVE  QueuesOK' /\ singleLoop' = singleLoop /\ Loops' = Loops
<1>1. singleLoop' = singleLoop
  BY DEF Next, vars, NewConnection, Peer, PollChannel, PollOther, IoHandle, HandleClose,
     HandleRead, HandleWrite, HandleDone, CallbackReturns, IoPending, Swap, IoRun,
     RunEstablished, RunDestroy, RunSend, RunShutdown, BatchDone, BasePending, RunRemove,
     User, UserSend, CallbackSend, UserTests, UserShutdown, UserDrops, CallbackShutdown,
     CallbackKeeps, serverVars
<1>2. Loops' = Loops
  BY <1>1 DEF Loops
<1> SUFFICES QueuesOK'
  BY <1>1, <1>2
<1> DEFINE Queued == queue' = queue \/ \E l \in Loops, f \in FunctorType : Enqueue(l, f)
<1>3. "io" \in Loops /\ (~singleLoop => "base" \in Loops)
  BY DEF Loops
<1>4. \A op \in Ops \ {"send"} : Functor(op) \in FunctorType
  BY FunctorTypes
<1>5. \A m \in Messages : SendFunctor(m) \in FunctorType
  BY FunctorTypes
<1>6. CASE UNCHANGED <<batch, next>> /\ Queued
  BY <1>1, <1>6, QueuedKeeps
<1>7. CASE \/ NewConnection \/ UserShutdown \/ HandleClose \/ HandleRead
           \/ \E m \in Messages : UserSend(m)
  <2>1. UNCHANGED <<batch, next>>
    BY <1>7 DEF NewConnection, UserShutdown, HandleClose, HandleRead, UserSend, serverVars
  <2>2. Queued
    <3>1. CASE NewConnection
      BY <1>3, <1>4, <3>1 DEF NewConnection, Ops
    <3>2. CASE UserShutdown
      BY <1>3, <1>4, <3>2 DEF UserShutdown, Ops
    <3>3. CASE HandleClose
      BY <3>3, CloseQueues DEF HandleClose
    <3>4. CASE HandleRead
      BY <3>4, CloseQueues DEF HandleRead, ReadData, ReadEnd
    <3>5. CASE \E m \in Messages : UserSend(m)
      BY <1>3, <1>5, <3>5 DEF UserSend
    <3> QED
      BY <1>7, <3>1, <3>2, <3>3, <3>4, <3>5
  <2> QED
    BY <1>6, <2>1, <2>2
<1>8. CASE RunEstablished \/ RunDestroy \/ RunSend \/ RunShutdown
  <2>1. queue' = queue /\ \E op \in Ops : Take("io", op)
    BY <1>8 DEF RunEstablished, RunDestroy, RunSend, RunShutdown, Ops
  <2> QED
    BY <1>1, <1>3, <2>1, TakeKeeps
<1>9. CASE ~singleLoop /\ RunRemove
  <2>1. Take("base", "remove") /\ RemoveConnectionInLoop
    BY <1>9 DEF RunRemove
  <2>2. Queued
    BY <1>3, <1>4, <2>1 DEF RemoveConnectionInLoop, Ops
  <2> QED
    BY <1>1, <1>3, <1>9, <2>1, <2>2, TakeKeeps
<1>10. CASE Swap("io") \/ BatchDone("io") \/ (~singleLoop /\ (Swap("base") \/ BatchDone("base")))
  <2>1. CASE Swap("io") \/ BatchDone("io")
    BY <1>3, <2>1, SwapKeeps
  <2>2. CASE ~singleLoop /\ (Swap("base") \/ BatchDone("base"))
    BY <1>3, <2>2, SwapKeeps
  <2> QED
    BY <1>10, <2>1, <2>2
<1>11. CASE UNCHANGED <<queue, batch, next>>
  BY <1>6, <1>11
<1>12. CASE \/ \E what \in {"data", "fin", "rst"} : Peer(what)
            \/ PollChannel \/ PollOther \/ HandleWrite \/ HandleDone \/ CallbackReturns
            \/ \E m \in Messages : CallbackSend(m)
            \/ \E call \in {"send", "shutdown"} : UserTests(call)
            \/ UserDrops \/ CallbackShutdown \/ CallbackKeeps \/ UNCHANGED vars
  BY <1>11, <1>12
     DEF Peer, PollChannel, PollOther, HandleWrite, HandleDone, CallbackReturns,
         CallbackSend, UserTests, UserDrops, CallbackShutdown, CallbackKeeps, vars, loopVars
<1> QED
  BY <1>1, <1>2, <1>7, <1>8, <1>9, <1>10, <1>12
     DEF Next, IoHandle, IoPending, IoRun, BasePending, User

------------------------------------------------------------------------------
(* The rest of the types.                                                  *)
TypesOK ==
  /\ st \in {"none", "connecting", "connected", "disconnecting", "disconnected"}
  /\ inMap \in BOOLEAN
  /\ ioPc \in {"poll", "handle", "callback", "pending"}
  /\ back \in {"poll", "handle", "pending"}
  /\ todo \subseteq {"close", "read", "write"}
  /\ channel \in {"new", "added", "removed"}
  /\ events \subseteq {"read", "write"}
  /\ deaf \in BOOLEAN /\ fin \in BOOLEAN /\ holds \in BOOLEAN
  /\ peer \subseteq {"data", "fin", "rst"}
  /\ userPc \in {"idle", "send", "shutdown"}
  /\ sent \subseteq Messages
  /\ freed \in {"no", "user", "pending"}
  /\ aborted \in {"no", "state", "poller"}

Inv == QueuesOK /\ TypesOK /\ StreamOK /\ LifeInv

LifeMove == Stage' = Stage \/ <<Stage, Stage'>> \in Life!Moves

(* What a step has to show, beside QueuesStep.                             *)
Good == TypesOK' /\ StreamOK' /\ LifeInv' /\ FinStep /\ LifeMove

(* A handler or a callback of the connection runs only while its channel   *)
(* is in the poller, and a user has it only after that began.              *)
LEMMA WhoRuns ==
  ASSUME Inv
  PROVE  /\ ioPc \in {"handle", "callback"} => channel = "added"
         /\ holds \/ userPc # "idle" => channel # "new"
         /\ st = "none" => channel = "new"
         /\ ioPc = "poll" \/ ioPc = "pending" => todo = {}
BY DEF Inv, TypesOK, LifeInv, NewOK, AddedOK, RemovedOK, HandlingOK

(* The stage depends on four variables only ...                            *)
LEMMA SameStage ==
  ASSUME UNCHANGED <<freed, channel, inMap>>, (st' = "none") = (st = "none")
  PROVE  LifeMove
BY DEF LifeMove, Stage

(* ... and the stream on three and the watching of the buffer.             *)
LEMMA SameStream ==
  ASSUME StreamOK, UNCHANGED streamVars, BufferWatched'
  PROVE  StreamOK'
BY DEF StreamOK, streamVars, StreamInOrder

(* The steps that leave state, references and functors alone.              *)
LEMMA QuietStep ==
  ASSUME Inv,
         \/ \E what \in {"data", "fin", "rst"} : Peer(what)
         \/ PollChannel \/ PollOther \/ HandleDone \/ CallbackReturns \/ CallbackKeeps
         \/ \E call \in {"send", "shutdown"} : UserTests(call)
  PROVE  Good
<1>1. /\ UNCHANGED <<singleLoop, queue, batch, next, st, inMap, channel, freed, aborted>>
      /\ UNCHANGED <<events, deaf, streamVars, sent>>
  BY DEF Peer, PollChannel, PollOther, HandleDone, CallbackReturns, CallbackKeeps,
         UserTests, serverVars, loopVars, channelVars, streamVars, userVars
<1>2. left' = left
  BY <1>1 DEF left, Rest, Loops
<1>3. LifeMove
  BY <1>1, SameStage
<1>4. StreamOK' /\ FinStep
  <2>1. BufferWatched'
    BY <1>1 DEF Inv, StreamOK, BufferWatched, streamVars
  <2> QED
    BY <1>1, <2>1, SameStream DEF Inv, FinStep, streamVars
<1>5. TypesOK'
  <2>1. CASE \E what \in {"data", "fin", "rst"} : Peer(what)
    BY <1>1, <2>1 DEF Inv, TypesOK, Peer, streamVars, userVars
  <2>2. CASE PollChannel
    <3>1. todo' \subseteq {"close", "read", "write"}
      BY <2>2 DEF PollChannel
    <3> QED
      BY <1>1, <2>2, <3>1 DEF Inv, TypesOK, PollChannel, streamVars, userVars
  <2>3. CASE PollOther
    BY <1>1, <2>3 DEF Inv, TypesOK, PollOther, streamVars, userVars
  <2>7. CASE HandleDone
    BY <1>1, <2>7 DEF Inv, TypesOK, HandleDone, streamVars, userVars
  <2>4. CASE CallbackReturns
    BY <1>1, <2>4 DEF Inv, TypesOK, CallbackReturns, streamVars, userVars
  <2>5. CASE CallbackKeeps
    BY <1>1, <2>5 DEF Inv, TypesOK, CallbackKeeps, streamVars
  <2>6. CASE \E call \in {"send", "shutdown"} : UserTests(call)
    BY <1>1, <2>6 DEF Inv, TypesOK, UserTests, streamVars
  <2> QED
    BY <2>1, <2>2, <2>3, <2>4, <2>5, <2>6, <2>7
<1>6. HandlingOK'
  BY WhoRuns DEF Inv, LifeInv, TypesOK, HandlingOK, Peer, PollChannel, PollOther,
       HandleDone, CallbackReturns, CallbackKeeps, UserTests
<1>7. /\ channel = "new" => UNCHANGED <<holds, userPc>> /\ ioPc' \in {"poll", "pending"}
      /\ channel = "removed" => ioPc' \in {"poll", "pending"}
  BY WhoRuns DEF Inv, LifeInv, NewOK, RemovedOK, Peer, PollChannel, PollOther,
       HandleDone, CallbackReturns, CallbackKeeps, UserTests, userVars
<1>8. LifeInv'
  BY <1>1, <1>2, <1>6, <1>7 DEF Inv, LifeInv, NewOK, AddedOK, RemovedOK, Loops, streamVars
<1> QED
  BY <1>3, <1>4, <1>5, <1>8 DEF Good

(* A step of a connection that is open or closing.                         *)
LEMMA AddedKeeps ==
  ASSUME Inv, TypesOK', channel = "added", channel' = "added",
         st' \in {"connected", "disconnecting"}, freed' = freed, HandlingOK',
         aborted' # "state", inMap' => inMap,
         inMap' = ~Has(left'["io"], "destroy"), ~Has(left'["io"], "established"),
         Once(left'["io"], "destroy")
  PROVE  LifeInv' /\ LifeMove
<1>1. AddedOK
  BY DEF Inv, LifeInv
<1>2. AddedOK'
  BY <1>1 DEF AddedOK
<1>3. LifeInv'
  BY <1>2 DEF LifeInv
<1>4. LifeMove
  BY <1>1 DEF Inv, TypesOK, AddedOK, LifeMove, Stage, Life!Moves
<1> QED
  BY <1>3, <1>4

(* No loop ran or queued a functor: the same ones are left.                *)
LEMMA SameLeft ==
  ASSUME UNCHANGED <<singleLoop, queue, batch, next>>
  PROVE  left' = left
BY DEF left, Rest, Loops

(* Such a step when no functor is queued or run.                           *)
LEMMA AddedQuiet ==
  ASSUME Inv, TypesOK', channel = "added", channel' = "added",
         st' \in {"connected", "disconnecting"}, HandlingOK', aborted' # "state",
         UNCHANGED <<freed, inMap, singleLoop, queue, batch, next>>
  PROVE  LifeInv' /\ LifeMove
<1>1. left' = left
  BY SameLeft
<1>2. /\ AddedOK /\ Once(left["io"], "destroy")
  BY DEF Inv, LifeInv
<1> QED
  BY <1>1, <1>2, AddedKeeps DEF AddedOK

(* send and shutdown in a callback of the connection.                      *)
LEMMA CallbackStep ==
  ASSUME Inv, CallbackShutdown \/ \E m \in Messages : CallbackSend(m)
  PROVE  Good
<1>1. channel = "added" /\ st = "connected" /\ ioPc = "callback"
  BY WhoRuns DEF CallbackShutdown, CallbackSend
<1>2. CASE CallbackShutdown
  <2>1. /\ UNCHANGED <<serverVars, loopVars, ioPc, back, todo, channelVars, output,
                       wire, accepted, peer, userVars, freed, aborted>>
        /\ st' = "disconnecting"
        /\ IF "write" \in events THEN fin' = fin ELSE fin' = TRUE
    BY <1>2 DEF CallbackShutdown, ShutdownInloop, ShutdownWrite
  <2>2. TypesOK'
    <3>1. fin' \in BOOLEAN
      BY <2>1 DEF Inv, TypesOK
    <3>2. UNCHANGED <<inMap, ioPc, back, todo, channel, events, deaf, holds, peer, userPc,
                      sent, freed, aborted>>
      BY <2>1 DEF serverVars, channelVars, userVars
    <3> QED
      BY <2>1, <3>1, <3>2 DEF Inv, TypesOK
  <2>3. StreamOK' /\ FinStep
    BY <2>1 DEF Inv, StreamOK, StreamInOrder, BufferWatched, FinStep, channelVars
  <2>4. LifeInv' /\ LifeMove
    <3>1. HandlingOK'
      BY <2>1 DEF Inv, LifeInv, HandlingOK
    <3>2. aborted' # "state"
      BY <2>1 DEF Inv, LifeInv
    <3>3. UNCHANGED <<channel, freed, inMap, singleLoop, queue, batch, next>>
      BY <2>1 DEF serverVars, loopVars, channelVars
    <3> QED
      BY <1>1, <2>1, <2>2, <3>1, <3>2, <3>3, AddedQuiet
  <2> QED
    BY <2>2, <2>3, <2>4 DEF Good
<1>3. CASE \E m \in Messages : CallbackSend(m)
  <2>1. PICK m \in Messages : CallbackSend(m)
    BY <1>3
  <2>2. /\ SendInloop(m) /\ sent' = sent \cup {m}
        /\ UNCHANGED <<st, inMap, singleLoop, queue, batch, next, ioPc, back, todo, peer,
                       holds, userPc, freed>>
    BY <2>1 DEF CallbackSend, serverVars, loopVars
  <2>3. /\ StreamOK' /\ fin' = fin
        /\ events' \subseteq {"read", "write"} /\ UNCHANGED <<channel, deaf>>
        /\ aborted' \in {aborted, "poller"}
    BY <2>2, SendStep DEF Inv, TypesOK
  <2>4. TypesOK'
    BY <2>2, <2>3 DEF Inv, TypesOK
  <2>5. FinStep
    BY <2>3 DEF Inv, TypesOK, FinStep
  <2>6. LifeInv' /\ LifeMove
    <3>1. HandlingOK'
      BY <2>2 DEF Inv, LifeInv, HandlingOK
    <3>2. aborted' # "state"
      BY <2>3 DEF Inv, LifeInv
    <3> QED
      BY <1>1, <2>2, <2>3, <2>4, <3>1, <3>2, AddedQuiet
  <2> QED
    BY <2>3, <2>4, <2>5, <2>6 DEF Good
<1> QED
  BY <1>2, <1>3

(* handleWrite.                                                            *)
LEMMA WriteStep ==
  ASSUME Inv, HandleWrite
  PROVE  Good
<1>1. /\ ioPc = "handle" /\ todo' = {}
      /\ UNCHANGED <<st, inMap, singleLoop, queue, batch, next, ioPc, back, peer,
                     holds, userPc, sent, freed, aborted>>
  BY DEF HandleWrite, serverVars, loopVars, userVars
<1>2. channel = "added" /\ st \in {"connected", "disconnecting"}
  BY <1>1, WhoRuns DEF Inv, LifeInv, AddedOK
<1>3. /\ StreamOK' /\ FinStep
      /\ events' \subseteq {"read", "write"} /\ deaf' \in BOOLEAN /\ fin' \in BOOLEAN
      /\ UNCHANGED channel
  BY HandleWriteStep DEF Inv, TypesOK
<1>4. TypesOK'
  BY <1>1, <1>3 DEF Inv, TypesOK
<1>5. LifeInv' /\ LifeMove
  <2>1. HandlingOK' /\ aborted' # "state"
    BY <1>1 DEF Inv, LifeInv, HandlingOK
  <2> QED
    BY <1>1, <1>2, <1>3, <1>4, <2>1, AddedQuiet
<1> QED
  BY <1>3, <1>4, <1>5 DEF Good

(* removeConnectionInLoop, wherever it runs, queues connectDestory once.   *)
Removes ==
  \/ inMap' = inMap /\ left'["io"] = left["io"]
  \/ inMap /\ inMap' = FALSE /\ left'["io"] = Append(left["io"], Functor("destroy"))

(* connectDestory is on its way once, if the server has forgotten it.      *)
LEMMA RemoveKeeps ==
  ASSUME Inv, left'["io"] \in Seq(FunctorType), Removes, channel = "added"
  PROVE  /\ inMap' => inMap
         /\ inMap' = ~Has(left'["io"], "destroy") /\ ~Has(left'["io"], "established")
         /\ Once(left'["io"], "destroy")
<1>1. AddedOK /\ Once(left["io"], "destroy") /\ inMap \in BOOLEAN
  BY DEF Inv, LifeInv, TypesOK
<1>2. left["io"] \in Seq(FunctorType)
  <2>1. "io" \in Loops
    BY DEF Loops
  <2>2. Rest(batch["io"], next["io"], queue["io"]) \in Seq(FunctorType)
    BY <2>1, RestIs DEF Inv, QueuesOK
  <2> QED
    BY <2>1, <2>2 DEF left
<1>3. CASE inMap' = inMap /\ left'["io"] = left["io"]
  BY <1>1, <1>3 DEF AddedOK
<1>4. CASE inMap /\ inMap' = FALSE /\ left'["io"] = Append(left["io"], Functor("destroy"))
  <2> DEFINE s == left["io"]
             t == Append(s, Functor("destroy"))
  <2>1. Functor("destroy") \in FunctorType /\ Functor("destroy").op = "destroy"
    BY FunctorTypes DEF Ops
  <2>2. /\ Has(t, "destroy")
        /\ Has(t, "established") <=> Has(s, "established")
        /\ Once(t, "destroy") <=> Once(s, "destroy") /\ ~Has(s, "destroy")
    <3> HIDE DEF s
    <3>1. s \in Seq(FunctorType)
      BY <1>2 DEF s
    <3>2. /\ Has(t, "destroy") <=> Has(s, "destroy") \/ Functor("destroy").op = "destroy"
          /\ Once(t, "destroy") <=> Once(s, "destroy")
               /\ (Functor("destroy").op = "destroy" => ~Has(s, "destroy"))
      BY <2>1, <3>1, HasAppended
    <3>3. Has(t, "established") <=> Has(s, "established") \/ Functor("destroy").op = "established"
      BY <2>1, <3>1, HasAppended
    <3> QED
      BY <2>1, <3>2, <3>3
  <2> HIDE DEF s, t
  <2>3. left'["io"] = t /\ left["io"] = s
    BY <1>4 DEF s, t
  <2>4. ~Has(s, "destroy") /\ ~Has(s, "established") /\ Once(s, "destroy")
    BY <1>1, <1>4, <2>3 DEF AddedOK
  <2> QED
    BY <1>4, <2>2, <2>3, <2>4
<1> QED
  BY <1>3, <1>4 DEF Removes

(* handleClose, whether the base loop is this loop or another.             *)
LEMMA CloseIs ==
  ASSUME Inv, QueuesOK', channel = "added", Close, UNCHANGED <<singleLoop, batch, next>>
  PROVE  /\ aborted' = aborted /\ events' = {} /\ deaf' = TRUE /\ channel' = channel
         /\ inMap' \in BOOLEAN /\ Removes /\ left'["io"] \in Seq(FunctorType)
<1>1. "io" \in Loops /\ (~singleLoop => "base" \in Loops) /\ QueuesOK
  BY DEF Loops, Inv
<1>2. /\ aborted' = aborted /\ ChannelDisableAll
      /\ IF singleLoop
         THEN RemoveConnectionInLoop
         ELSE Enqueue("base", Functor("remove")) /\ UNCHANGED inMap
  BY DEF Close, CloseStateOK, Inv, LifeInv, AddedOK
<1>3. Functor("destroy") \in FunctorType
  BY FunctorTypes DEF Ops
<1>4. /\ left'["io"] \in Seq(FunctorType)
      /\ UNCHANGED <<batch["io"], next["io"], queue["io"]>> => left'["io"] = left["io"]
      /\ UNCHANGED <<batch["io"], next["io"]>>
           /\ queue'["io"] = Append(queue["io"], Functor("destroy"))
         => left'["io"] = Append(left["io"], Functor("destroy"))
  BY <1>1, <1>3, LeftAt
<1>5. Removes /\ inMap' \in BOOLEAN
  <2>1. CASE queue' = queue /\ inMap' = inMap
    BY <1>4, <2>1 DEF Removes, Inv, TypesOK
  <2>2. CASE inMap /\ inMap' = FALSE /\ Enqueue("io", Functor("destroy"))
    <3>1. queue'["io"] = Append(queue["io"], Functor("destroy"))
      BY <1>1, <2>2 DEF Enqueue, QueuesOK
    <3> QED
      BY <1>4, <2>2, <3>1 DEF Removes
  <2>3. CASE Enqueue("base", Functor("remove")) /\ inMap' = inMap
    <3>1. queue'["io"] = queue["io"]
      BY <1>1, <2>3 DEF Enqueue, QueuesOK
    <3> QED
      BY <1>4, <2>3, <3>1 DEF Removes, Inv, TypesOK
  <2> QED
    BY <1>2, <2>1, <2>2, <2>3 DEF RemoveConnectionInLoop
<1> QED
  BY <1>2, <1>4, <1>5 DEF ChannelDisableAll

(* What is around it makes no difference.                                  *)
LEMMA ClosedIsGood ==
  ASSUME Inv, QueuesOK', channel = "added", Close,
         UNCHANGED <<singleLoop, st, batch, next, streamVars, userVars, freed>>,
         ioPc' = ioPc, back' = back, ioPc = "handle", todo' \subseteq todo,
         peer' \subseteq peer
  PROVE  Good
<1>1. /\ aborted' = aborted /\ events' = {} /\ deaf' = TRUE /\ channel' = channel
      /\ inMap' \in BOOLEAN /\ Removes /\ left'["io"] \in Seq(FunctorType)
  BY CloseIs
<1>2. /\ inMap' => inMap
      /\ inMap' = ~Has(left'["io"], "destroy") /\ ~Has(left'["io"], "established")
      /\ Once(left'["io"], "destroy")
  BY <1>1, RemoveKeeps
<1>3. TypesOK'
  BY <1>1 DEF Inv, TypesOK, streamVars, userVars
<1>4. StreamOK'
  BY <1>1, SameStream DEF Inv, BufferWatched
<1>5. FinStep
  BY DEF FinStep, streamVars
<1>6. LifeInv' /\ LifeMove
  <2>1. st' \in {"connected", "disconnecting"} /\ aborted' # "state"
    BY <1>1 DEF Inv, LifeInv, AddedOK
  <2>2. HandlingOK'
    BY DEF HandlingOK
  <2> QED
    BY <1>1, <1>2, <1>3, <2>1, <2>2, AddedKeeps
<1> QED
  BY <1>3, <1>4, <1>5, <1>6 DEF Good

(* handleClose, and handleRead at the end of the stream.                   *)
LEMMA ReadStep ==
  ASSUME Inv, QueuesOK', HandleClose \/ HandleRead
  PROVE  Good
<1>1. /\ ioPc = "handle" /\ todo' \subseteq todo
      /\ UNCHANGED <<singleLoop, st, batch, next, streamVars, userVars, freed>>
  BY DEF HandleClose, HandleRead
<1>2. channel = "added" /\ st \in {"connected", "disconnecting"}
  BY <1>1, WhoRuns DEF Inv, LifeInv, AddedOK
<1>3. CASE Close /\ UNCHANGED <<ioPc, back, peer>>
  BY <1>1, <1>2, <1>3, ClosedIsGood
<1>4. CASE /\ UNCHANGED <<channelVars, inMap, queue, aborted>>
           /\ peer' \subseteq peer
           /\ UNCHANGED <<ioPc, back>> \/ (ioPc' = "callback" /\ back' = "handle")
  <2>1. UNCHANGED <<channel, events, deaf, holds, userPc, sent, output, wire, fin, accepted>>
    BY <1>1, <1>4 DEF channelVars, userVars, streamVars
  <2>2. TypesOK'
    BY <1>1, <1>4, <2>1 DEF Inv, TypesOK
  <2>3. StreamOK'
    BY <1>1, <2>1, SameStream DEF Inv, StreamOK, BufferWatched
  <2>4. FinStep
    BY <2>1 DEF FinStep
  <2>5. HandlingOK' /\ aborted' # "state"
    BY <1>1, <1>4 DEF HandlingOK, Inv, LifeInv
  <2>6. LifeInv' /\ LifeMove
    BY <1>1, <1>2, <1>4, <2>1, <2>2, <2>5, AddedQuiet
  <2> QED
    BY <2>2, <2>3, <2>4, <2>6 DEF Good
<1>5. CASE HandleClose
  BY <1>3, <1>5 DEF HandleClose
<1>6. CASE HandleRead
  <2>1. CASE ReadData
    BY <1>4, <2>1 DEF ReadData
  <2>2. CASE ReadEnd
    BY <1>3, <1>4, <2>2 DEF ReadEnd
  <2> QED
    BY <1>6, <2>1, <2>2 DEF HandleRead
<1> QED
  BY <1>5, <1>6

(* The user's functors, queued while the connection may already be gone.   *)
LEMMA UserQueues ==
  ASSUME Inv, QueuesOK', UserShutdown \/ \E m \in Messages : UserSend(m)
  PROVE  Good
<1>1. /\ channel # "new" /\ userPc' = "idle" /\ sent' \subseteq Messages
      /\ UNCHANGED <<singleLoop, inMap, batch, next, ioPc, back, todo, channelVars,
                     streamVars, peer, holds, freed, aborted>>
  BY WhoRuns DEF UserShutdown, UserSend, serverVars, Inv, TypesOK
<1>2. st' = "disconnecting" \/ st' = st
  BY DEF UserShutdown, UserSend
<1>3. PICK f \in FunctorType :
        /\ f.op \notin {"destroy", "established"}
        /\ Enqueue("io", f)
  BY FunctorTypes DEF UserShutdown, UserSend, Ops
<1>4. /\ left["io"] \in Seq(FunctorType)
      /\ left'["io"] = Append(left["io"], f)
  <2>1. "io" \in Loops
    BY DEF Loops
  <2>2. UNCHANGED <<batch["io"], next["io"]>> /\ queue'["io"] = Append(queue["io"], f)
    BY <1>1, <1>3, <2>1 DEF Enqueue, Inv, QueuesOK
  <2> QED
    BY <1>1, <2>1, <2>2, LeftAt DEF Inv
<1>5. /\ Has(left'["io"], "destroy") <=> Has(left["io"], "destroy")
      /\ Has(left'["io"], "established") <=> Has(left["io"], "established")
      /\ Once(left'["io"], "destroy") <=> Once(left["io"], "destroy")
  <2> DEFINE s == left["io"]
             t == Append(s, f)
  <2>1. /\ Has(t, "destroy") <=> Has(s, "destroy") \/ f.op = "destroy"
        /\ Has(t, "established") <=> Has(s, "established") \/ f.op = "established"
        /\ Once(t, "destroy") <=> Once(s, "destroy") /\ (f.op = "destroy" => ~Has(s, "destroy"))
    <3> HIDE DEF s
    <3>1. s \in Seq(FunctorType)
      BY <1>4 DEF s
    <3> QED
      BY <3>1, HasAppended
  <2> HIDE DEF t
  <2>2. left'["io"] = t
    BY <1>4 DEF t
  <2> QED
    BY <1>3, <2>1, <2>2
<1>6. TypesOK'
  BY <1>1, <1>2 DEF Inv, TypesOK, channelVars, streamVars
<1>7. StreamOK'
  BY <1>1, SameStream DEF Inv, StreamOK, BufferWatched, channelVars, streamVars
<1>8. FinStep
  BY <1>1 DEF FinStep, streamVars
<1>9. HandlingOK' /\ aborted' # "state"
  BY <1>1 DEF HandlingOK, Inv, LifeInv
<1>10. CASE channel = "added"
  <2>1. /\ st' \in {"connected", "disconnecting"} /\ channel' = "added"
        /\ inMap' = ~Has(left'["io"], "destroy") /\ ~Has(left'["io"], "established")
        /\ Once(left'["io"], "destroy") /\ (inMap' => inMap) /\ freed' = freed
    BY <1>1, <1>2, <1>5, <1>10 DEF Inv, LifeInv, AddedOK, channelVars
  <2>2. LifeInv' /\ LifeMove
    BY <1>6, <1>9, <1>10, <2>1, AddedKeeps
  <2> QED
    BY <1>6, <1>7, <1>8, <2>2 DEF Good
<1>11. CASE channel = "removed"
  <2>1. RemovedOK'
    BY <1>1, <1>2, <1>5, <1>11 DEF Inv, LifeInv, RemovedOK
  <2>2. LifeInv'
    BY <1>1, <1>5, <1>9, <1>11, <2>1 DEF Inv, LifeInv, channelVars
  <2>3. LifeMove
    BY <1>1, <1>2, <1>11, SameStage DEF Inv, LifeInv, RemovedOK, channelVars
  <2> QED
    BY <1>6, <1>7, <1>8, <2>2, <2>3 DEF Good
<1> QED
  BY <1>1, <1>10, <1>11 DEF Inv, TypesOK

(* A functor that is left to run is in the batch or in the queue.          *)
LEMMA RestHas ==
  ASSUME NEW S, NEW b \in Seq(S), NEW q \in Seq(S), NEW n \in 0 .. Len(b), NEW op,
         Has(Rest(b, n, q), op)
  PROVE  \E f \in RangeOf(q) \cup RangeOf(b) : f.op = op
<1> DEFINE r == SubSeq(b, n + 1, Len(b))
<1>1. r \in Seq(S)
  BY CutIs
<1>2. Len(b) \in Nat /\ n \in Nat /\ n <= Len(b)
  OBVIOUS
<1>3. /\ Len(r) = Len(b) - n
      /\ \A i \in 1 .. Len(b) - n : r[i] = b[n + i]
  <2> DEFINE m == n + 1
             z == Len(b)
  <2>1. m \in Int /\ z \in Int /\ \A i \in m .. z : b[i] \in S
    BY <1>2
  <2>2. /\ Len(SubSeq(b, m, z)) = IF m <= z THEN z - m + 1 ELSE 0
        /\ \A i \in 1 .. z - m + 1 : SubSeq(b, m, z)[i] = b[m + i - 1]
    <3> HIDE DEF m, z
    <3> QED
      BY <2>1, SubSeqProperties
  <2>3. \A i \in 1 .. z - n : i \in 1 .. z - m + 1 /\ m + i - 1 = n + i
    BY <1>2
  <2>4. (IF m <= z THEN z - m + 1 ELSE 0) = z - n
    BY <1>2
  <2> QED
    BY <2>2, <2>3, <2>4
<1> HIDE DEF r
<1>4. PICK i \in 1 .. Len(r \o q) : (r \o q)[i].op = op
  BY DEF Has, Rest, r
<1>5. /\ Len(r \o q) = Len(r) + Len(q) /\ Len(r) \in Nat /\ Len(q) \in Nat
      /\ (r \o q)[i] = IF i <= Len(r) THEN r[i] ELSE q[i - Len(r)]
  BY <1>1, <1>4, ConcatProperties
<1>6. CASE i <= Len(r)
  <2>1. n + i \in 1 .. Len(b) /\ b[n + i].op = op
    BY <1>2, <1>3, <1>4, <1>5, <1>6
  <2> QED
    BY <2>1 DEF RangeOf
<1>7. CASE ~(i <= Len(r))
  <2>1. i - Len(r) \in 1 .. Len(q) /\ q[i - Len(r)].op = op
    BY <1>4, <1>5, <1>7
  <2> QED
    BY <2>1 DEF RangeOf
<1> QED
  BY <1>6, <1>7

(* So a connection in the poller is referenced: by the map, or by the      *)
(* connectDestory that is on its way.                                      *)
LEMMA AddedIsReferenced ==
  ASSUME Inv, QueuesOK', UNCHANGED <<singleLoop, channel, inMap, st>>, left' = left,
         st # "none", channel # "removed"
  PROVE  Referenced'
<1>1. "io" \in Loops' /\ left'["io"] = Rest(batch'["io"], next'["io"], queue'["io"])
  BY DEF Loops, left
<1>2. CASE inMap
  BY <1>2 DEF Referenced
<1>3. CASE ~inMap
  <2>1. Has(left'["io"], "destroy")
    BY <1>3 DEF Inv, TypesOK, LifeInv, NewOK, AddedOK
  <2>2. batch'["io"] \in Seq(FunctorType) /\ queue'["io"] \in Seq(FunctorType)
        /\ next'["io"] \in 0 .. Len(batch'["io"])
    BY <1>1 DEF QueuesOK
  <2>3. \E f \in RangeOf(queue'["io"]) \cup RangeOf(batch'["io"]) : f.op = "destroy"
    BY <1>1, <2>1, <2>2, RestHas
  <2> QED
    BY <1>1, <2>3 DEF Referenced, OwningOps, RangeOf
<1> QED
  BY <1>2, <1>3

(* The last reference may be the user's, or that of a batch.               *)
LEMMA ReleaseStep ==
  ASSUME Inv, QueuesOK', left' = left,
         UNCHANGED <<singleLoop, st, inMap, back, todo, channelVars, streamVars, peer,
                     userPc, sent, aborted>>,
         holds' \in {holds, FALSE},
         ioPc' \in {ioPc, "poll"}, ioPc' = ioPc \/ ioPc = "pending",
         \/ freed' = freed
         \/ freed' \in {"user", "pending"} /\ st # "none" /\ ~Referenced'
  PROVE  Good
<1>1. freed' = freed \/ (freed' \in {"user", "pending"} /\ channel = "removed")
  BY AddedIsReferenced DEF channelVars
<1>0. /\ UNCHANGED <<singleLoop, st, inMap, back, todo, channel, events, deaf, output, fin,
                     peer, userPc, sent, aborted>>
      /\ holds' \in BOOLEAN /\ (holds' => holds)
  <2>1. UNCHANGED <<channel, events, deaf, output, fin>>
    BY DEF channelVars, streamVars
  <2>2. CASE holds' = holds
    BY <2>1, <2>2 DEF Inv, TypesOK
  <2>3. CASE holds' = FALSE
    BY <2>1, <2>3
  <2> QED
    BY <2>2, <2>3
<1>2. TypesOK'
  BY <1>0, <1>1 DEF Inv, TypesOK
<1>3. StreamOK'
  BY SameStream DEF Inv, StreamOK, BufferWatched, channelVars, streamVars
<1>4. FinStep
  BY DEF FinStep, streamVars
<1>5. HandlingOK'
  BY WhoRuns DEF Inv, LifeInv, HandlingOK
<1>6. LifeInv'
  <2>1. channel = "new" => NewOK'
    BY <1>0, <1>1 DEF Inv, LifeInv, NewOK, Loops, TypesOK
  <2>2. channel = "added" => AddedOK'
    BY <1>0, <1>1 DEF Inv, LifeInv, AddedOK
  <2>3. channel = "removed" => RemovedOK'
    BY <1>0 DEF Inv, LifeInv, RemovedOK
  <2> QED
    BY <1>0, <1>5, <2>1, <2>2, <2>3 DEF Inv, LifeInv
<1>7. LifeMove
  BY <1>1 DEF LifeMove, Stage, Life!Moves, channelVars, Inv, LifeInv, TypesOK, RemovedOK
<1> QED
  BY <1>2, <1>3, <1>4, <1>6, <1>7 DEF Good

(* The user drops its TcpConnectionPtr.                                    *)
LEMMA DropsStep ==
  ASSUME Inv, QueuesOK', UserDrops
  PROVE  Good
<1>1. /\ holds' = FALSE /\ ioPc' = ioPc
      /\ UNCHANGED <<singleLoop, queue, batch, next, st, inMap, back, todo, channelVars,
                     streamVars, peer, userPc, sent, aborted>>
      /\ freed' = freed \/ (freed' = "user" /\ ~Referenced')
  BY DEF UserDrops, serverVars, loopVars
<1>2. left' = left
  BY <1>1, SameLeft
<1>3. st # "none"
  BY WhoRuns DEF UserDrops, Inv, LifeInv, NewOK
<1> QED
  BY <1>1, <1>2, <1>3, ReleaseStep

(* The swap, and the end of a batch.                                       *)
LEMMA BatchStep ==
  ASSUME Inv, QueuesOK', NEW l \in Loops, Swap(l) \/ BatchDone(l)
  PROVE  Good
<1>1. /\ UNCHANGED <<singleLoop, st, inMap, back, todo, channelVars, streamVars, peer,
                     holds, userPc, sent, aborted>>
      /\ ioPc' \in {ioPc, "poll"} /\ (ioPc' = ioPc \/ ioPc = "pending")
      /\ freed' = freed \/ (freed' = "pending" /\ st # "none" /\ ~Referenced')
  BY DEF Swap, BatchDone, InPending, serverVars, userVars, Exists
<1>2. QueuesOK /\ Loops' = Loops
  BY <1>1 DEF Inv, Loops
<1>3. left'[l] = left[l]
  <2>1. CASE Swap(l)
    <3>1. batch[l] = <<>> /\ batch'[l] = queue[l] /\ queue'[l] = <<>> /\ next'[l] = next[l]
      BY <1>2, <2>1 DEF Swap, QueuesOK
    <3> QED
      BY <1>1, <1>2, <3>1, LeftAt
  <2>2. CASE BatchDone(l)
    <3>1. /\ next[l] = Len(batch[l]) /\ batch'[l] = <<>> /\ next'[l] = 0
          /\ queue'[l] = queue[l]
      BY <1>2, <2>2 DEF BatchDone, QueuesOK
    <3> QED
      BY <1>1, <1>2, <3>1, LeftAt
  <2> QED
    BY <2>1, <2>2
<1>4. \A k \in Loops : k # l => left'[k] = left[k]
  <2> SUFFICES ASSUME NEW k \in Loops, k # l PROVE left'[k] = left[k]
    OBVIOUS
  <2>1. UNCHANGED <<batch[k], next[k], queue[k]>>
    BY <1>2 DEF Swap, BatchDone, QueuesOK
  <2> QED
    BY <1>1, <1>2, <2>1, LeftAt
<1>5. left' = left
  BY <1>2, <1>3, <1>4 DEF left
<1> QED
  BY <1>1, <1>5, ReleaseStep

(* newConnection: in a single loop connectEestablished is called at once,  *)
(* else it is the first functor of the connection.                         *)
LEMMA NewStep ==
  ASSUME Inv, QueuesOK', NewConnection
  PROVE  Good
<1>1. /\ st = "none" /\ inMap' = TRUE
      /\ UNCHANGED <<singleLoop, batch, next, todo, streamVars, peer, userVars, freed, aborted>>
  BY DEF NewConnection, Establish
<1>2. channel = "new" /\ NewOK
  BY <1>1, WhoRuns DEF Inv, LifeInv
<1>3. "io" \in Loops /\ Loops' = Loops /\ QueuesOK
  BY <1>1 DEF Loops, Inv
<1>4. \A l \in Loops : left[l] = <<>>
  BY <1>1, <1>2 DEF NewOK
<1>5. CASE singleLoop
  <2>1. /\ ioPc = "poll" /\ ioPc' = "callback" /\ back' = "handle" /\ queue' = queue
        /\ st' = "connected" /\ channel' = "added" /\ events' = {"read"} /\ deaf' = deaf
    BY <1>5 DEF NewConnection, Establish
  <2>2. left' = left
    BY <1>1, <2>1, SameLeft
  <2>3. TypesOK'
    BY <1>1, <2>1 DEF Inv, TypesOK, streamVars, userVars
  <2>4. StreamOK' /\ FinStep
    <3>1. output' = <<>>
      BY <1>1, <1>2 DEF NewOK, streamVars
    <3> QED
      BY <1>1, <3>1, SameStream DEF Inv, FinStep, BufferWatched, streamVars
  <2>5. ~Has(left'["io"], "destroy") /\ ~Has(left'["io"], "established")
        /\ Once(left'["io"], "destroy")
    BY <1>3, <1>4, <2>2 DEF Has, Once
  <2>6. AddedOK'
    BY <1>1, <1>2, <2>1, <2>5 DEF AddedOK, NewOK
  <2>7. HandlingOK' /\ aborted' # "state"
    BY <1>1, <2>1 DEF HandlingOK, Inv, LifeInv
  <2>8. LifeInv'
    BY <2>1, <2>5, <2>6, <2>7 DEF LifeInv
  <2>9. LifeMove
    BY <1>1, <1>2, <2>1 DEF LifeMove, Stage, Life!Moves, NewOK
  <2> QED
    BY <2>3, <2>4, <2>8, <2>9 DEF Good
<1>6. CASE ~singleLoop
  <2>1. /\ st' = "connecting" /\ Enqueue("io", Functor("established"))
        /\ UNCHANGED <<channel, events, deaf, ioPc, back>>
    BY <1>6 DEF NewConnection, channelVars
  <2>2. Functor("established") \in FunctorType
    BY FunctorTypes DEF Ops
  <2>3. left'["io"] = <<Functor("established")>>
    <3>1. UNCHANGED <<batch["io"], next["io"]>>
          /\ queue'["io"] = Append(queue["io"], Functor("established"))
      BY <1>1, <1>3, <2>1 DEF Enqueue, QueuesOK
    <3>2. left'["io"] = Append(left["io"], Functor("established"))
      BY <1>1, <1>3, <2>2, <3>1, LeftAt
    <3>3. left["io"] = <<>>
      BY <1>3, <1>4
    <3> DEFINE f == Functor("established")
    <3>4. Append(<<>>, f) = <<f>>
      <4> HIDE DEF f
      <4> QED
        OBVIOUS
    <3> QED
      BY <3>2, <3>3, <3>4
  <2>4. \A l \in Loops : l # "io" => left'[l] = <<>>
    <3> SUFFICES ASSUME NEW l \in Loops, l # "io" PROVE left'[l] = <<>>
      OBVIOUS
    <3>1. UNCHANGED <<batch[l], next[l], queue[l]>>
      BY <1>1, <1>3, <2>1 DEF Enqueue, QueuesOK
    <3>2. left'[l] = left[l]
      BY <1>1, <1>3, <3>1, LeftAt
    <3> QED
      BY <1>4, <3>2
  <2>5. TypesOK'
    BY <1>1, <2>1 DEF Inv, TypesOK, streamVars, userVars
  <2>6. StreamOK' /\ FinStep
    BY <1>1, <2>1, SameStream DEF Inv, FinStep, StreamOK, BufferWatched, streamVars
  <2>7. NewOK'
    BY <1>1, <1>2, <1>3, <2>1, <2>3, <2>4 DEF NewOK, streamVars, userVars
  <2>8. Once(left'["io"], "destroy")
    BY <2>3 DEF Once
  <2>9. HandlingOK' /\ aborted' # "state"
    BY <1>1, <2>1 DEF HandlingOK, Inv, LifeInv
  <2>10. LifeInv'
    BY <1>2, <2>1, <2>7, <2>8, <2>9 DEF LifeInv
  <2>11. LifeMove
    BY <1>1, <1>2, <2>1 DEF LifeMove, Stage, Life!Moves, NewOK
  <2> QED
    BY <2>5, <2>6, <2>10, <2>11 DEF Good
<1> QED
  BY <1>5, <1>6

(* What the functor that runs in the io loop was to the ones left.         *)
LEMMA TookIs ==
  ASSUME Inv, QueuesOK', UNCHANGED <<singleLoop, queue>>, NEW op \in Ops, Take("io", op)
  PROVE  /\ ioPc = "pending"
         /\ \A o : Has(left'["io"], o) => Has(left["io"], o)
         /\ \A o : o # op /\ Has(left["io"], o) => Has(left'["io"], o)
         /\ Has(left["io"], op)
         /\ \A o : Once(left["io"], o) =>
              Once(left'["io"], o) /\ (op = o => ~Has(left'["io"], o))
         /\ channel = "new" => op = "established" /\ st = "connecting"
<1> DEFINE f == batch["io"][next["io"] + 1]
           s == left["io"]
           t == left'["io"]
<1>1. "io" \in Loops /\ QueuesOK
  BY DEF Loops, Inv
<1>2. /\ batch' = batch /\ next["io"] < Len(batch["io"]) /\ f.op = op
      /\ next'["io"] = next["io"] + 1 /\ ioPc = "pending"
  BY <1>1 DEF Take, InPending, QueuesOK
<1>3. f \in FunctorType /\ t \in Seq(FunctorType) /\ s = <<f>> \o t
  BY <1>1, <1>2, LeftAt
<1>4. channel = "new" => /\ \A o : Has(s, o) => o = "established"
                         /\ st = "connecting" \/ \A o : ~Has(s, o)
  <2> SUFFICES ASSUME channel = "new"
               PROVE  /\ \A o : Has(s, o) => o = "established"
                      /\ st = "connecting" \/ \A o : ~Has(s, o)
    OBVIOUS
  <2>1. s = IF st = "connecting" THEN <<Functor("established")>> ELSE <<>>
    BY <1>1 DEF Inv, LifeInv, NewOK
  <2>2. Functor("established").op = "established"
    BY FunctorTypes DEF Ops
  <2> HIDE DEF s
  <2> QED
    BY <2>1, <2>2 DEF Has
<1> HIDE DEF f, s, t
<1>5. /\ \A o : Has(s, o) <=> Has(t, o) \/ op = o
      /\ \A o : Once(s, o) <=> Once(t, o) /\ (op = o => ~Has(t, o))
  BY <1>2, <1>3, HasFirst
<1> QED
  BY <1>2, <1>4, <1>5 DEF s, t

(* connectEestablished, as a functor: nothing else is on its way.          *)
LEMMA EstablishedStep ==
  ASSUME Inv, QueuesOK', RunEstablished
  PROVE  Good
<1>1. /\ UNCHANGED <<singleLoop, inMap, queue, todo, streamVars, peer, userVars, freed>>
      /\ back' = "pending"
  BY DEF RunEstablished, serverVars
<1>2. /\ Take("io", "established") /\ "established" \in Ops
  BY DEF RunEstablished, Ops
<1>3. /\ \A o : Has(left'["io"], o) => Has(left["io"], o)
      /\ Has(left["io"], "established")
      /\ \A o : Once(left["io"], o) =>
              Once(left'["io"], o) /\ ("established" = o => ~Has(left'["io"], o))
  BY <1>1, <1>2, TookIs
<1>4. channel = "new"
  BY <1>3 DEF Inv, LifeInv, AddedOK, RemovedOK, TypesOK
<1>5. st = "connecting" /\ NewOK
  BY <1>1, <1>2, <1>4, TookIs DEF Inv, LifeInv
<1>6. /\ st' = "connected" /\ channel' = "added" /\ events' = {"read"} /\ deaf' = deaf
      /\ ioPc' = "callback" /\ aborted' = aborted
  BY <1>5 DEF RunEstablished, Establish
<1>7. left["io"] = <<Functor("established")>> /\ Functor("established").op = "established"
  <2>1. "io" \in Loops
    BY DEF Loops
  <2> QED
    BY <1>5, <2>1, FunctorTypes DEF NewOK, Ops
<1>8. Once(left["io"], "established") /\ ~Has(left["io"], "destroy") /\ Once(left["io"], "destroy")
  BY <1>7 DEF Once, Has
<1>9. ~Has(left'["io"], "established") /\ ~Has(left'["io"], "destroy")
      /\ Once(left'["io"], "destroy")
  BY <1>3, <1>8
<1>10. TypesOK'
  BY <1>1, <1>6 DEF Inv, TypesOK, streamVars, userVars
<1>11. StreamOK' /\ FinStep
  <2>1. BufferWatched'
    BY <1>1, <1>5, <1>6 DEF NewOK, BufferWatched, streamVars
  <2> QED
    BY <1>1, <1>6, <2>1, SameStream DEF Inv, FinStep, streamVars
<1>12. AddedOK'
  BY <1>1, <1>5, <1>6, <1>9 DEF AddedOK, NewOK
<1>13. HandlingOK' /\ aborted' # "state"
  BY <1>1, <1>2, <1>6, TookIs, WhoRuns DEF HandlingOK, Inv, LifeInv
<1>14. LifeInv'
  BY <1>1, <1>6, <1>9, <1>12, <1>13 DEF LifeInv
<1>15. LifeMove
  BY <1>1, <1>4, <1>5, <1>6 DEF LifeMove, Stage, Life!Moves, NewOK
<1> QED
  BY <1>10, <1>11, <1>14, <1>15 DEF Good

(* connectDestory runs once, and finds the connection in the poller.       *)
LEMMA DestroyStep ==
  ASSUME Inv, QueuesOK', RunDestroy
  PROVE  Good
<1>1. /\ Take("io", "destroy") /\ "destroy" \in Ops
      /\ UNCHANGED <<singleLoop, inMap, queue, ioPc, back, todo, streamVars, peer, userPc,
                     sent, freed>>
  BY DEF RunDestroy, Ops, serverVars
<1>2. /\ ioPc = "pending"
      /\ \A o : Has(left'["io"], o) => Has(left["io"], o)
      /\ Has(left["io"], "destroy")
      /\ \A o : Once(left["io"], o) =>
              Once(left'["io"], o) /\ ("destroy" = o => ~Has(left'["io"], o))
      /\ channel = "new" => "destroy" = "established"
  BY <1>1, TookIs
<1>3. channel = "added" /\ AddedOK
  BY <1>2 DEF Inv, LifeInv, RemovedOK, TypesOK
<1>4. /\ aborted' = aborted
      /\ st' = "disconnected"
      /\ channel' = "removed" /\ events' = {} /\ deaf' = TRUE
      /\ holds' \in BOOLEAN
  BY <1>3 DEF RunDestroy, CloseStateOK, AddedOK, Inv, TypesOK
<1>5. ~inMap /\ ~Has(left'["io"], "established") /\ ~Has(left'["io"], "destroy")
      /\ Once(left'["io"], "destroy")
  BY <1>2, <1>3 DEF AddedOK, Inv, LifeInv
<1>6. TypesOK'
  BY <1>1, <1>4 DEF Inv, TypesOK, streamVars
<1>7. StreamOK' /\ FinStep
  <2>1. BufferWatched'
    BY <1>4 DEF BufferWatched
  <2> QED
    BY <1>1, <2>1, SameStream DEF Inv, FinStep, streamVars
<1>8. RemovedOK'
  BY <1>1, <1>2, <1>4, <1>5 DEF RemovedOK
<1>9. HandlingOK' /\ aborted' # "state"
  BY <1>1, <1>4 DEF HandlingOK, Inv, LifeInv
<1>10. LifeInv'
  BY <1>4, <1>5, <1>8, <1>9 DEF LifeInv
<1>11. LifeMove
  BY <1>1, <1>3, <1>4, <1>5 DEF LifeMove, Stage, Life!Moves, AddedOK
<1> QED
  BY <1>6, <1>7, <1>10, <1>11 DEF Good

(* A user's functor, run while the connection is in the poller or later.   *)
LEMMA UserRuns ==
  ASSUME Inv, QueuesOK', RunSend \/ RunShutdown
  PROVE  Good
<1>1. PICK op \in {"send", "shutdown"} : Take("io", op) /\ op \in Ops
  BY DEF RunSend, RunShutdown, Ops
<1>2. UNCHANGED <<st, singleLoop, inMap, queue, ioPc, back, todo, peer, holds, userPc, sent, freed>>
  BY DEF RunSend, RunShutdown, serverVars, userVars
<1>3. /\ ioPc = "pending"
      /\ \A o : Has(left'["io"], o) => Has(left["io"], o)
      /\ Has(left["io"], "destroy") => Has(left'["io"], "destroy")
      /\ Once(left["io"], "destroy") => Once(left'["io"], "destroy")
      /\ channel # "new"
  BY <1>1, <1>2, TookIs
<1>4. /\ StreamOK' /\ FinStep
      /\ events' \subseteq {"read", "write"} /\ UNCHANGED <<channel, deaf>> /\ fin' \in BOOLEAN
      /\ aborted' \in {aborted, "poller"}
  <2>1. CASE RunSend /\ freed = "no"
    <3> DEFINE f == batch["io"][next["io"] + 1]
    <3>1. f \in FunctorType /\ f.op = "send" /\ SendInloop(f.msg[1])
      <4>1. "io" \in Loops /\ QueuesOK
        BY DEF Loops, Inv
      <4> QED
        BY <2>1, <4>1 DEF RunSend, Take, QueuesOK
    <3>2. PICK m \in Messages : f.msg = <<m>>
      BY <3>1 DEF FunctorType
    <3>3. SendInloop(m)
      BY <3>1, <3>2
    <3>4. /\ StreamOK' /\ fin' = fin
          /\ events' \subseteq {"read", "write"} /\ UNCHANGED <<channel, deaf>>
          /\ aborted' \in {aborted, "poller"}
      BY <3>3, SendStep DEF Inv, TypesOK
    <3> QED
      BY <3>4 DEF FinStep, Inv, TypesOK
  <2>2. CASE RunSend /\ freed # "no"
    <3>1. UNCHANGED <<channel, events, deaf, output, wire, fin, accepted, aborted>>
      BY <2>2 DEF RunSend, channelVars, streamVars
    <3> QED
      BY <3>1 DEF Inv, TypesOK, StreamOK, StreamInOrder, BufferWatched, FinStep
  <2>3. CASE RunShutdown
    <3>1. /\ UNCHANGED <<channel, events, deaf, output, wire, accepted, aborted>>
          /\ fin' = fin \/ ("write" \notin events /\ fin' = TRUE)
      BY <2>3 DEF RunShutdown, ShutdownInloop, ShutdownWrite, channelVars
    <3>2. StreamOK'
      BY <3>1 DEF Inv, StreamOK, StreamInOrder, BufferWatched
    <3>3. output = <<>> \/ "write" \in events \/ deaf
      BY DEF Inv, StreamOK, BufferWatched
    <3>4. fin' \in BOOLEAN
      BY <3>1 DEF Inv, TypesOK
    <3>5. CASE fin' = fin
      BY <3>1, <3>2, <3>4, <3>5 DEF FinStep, Inv, TypesOK
    <3>6. CASE output = <<>> \/ deaf
      <4>1. output' = output /\ deaf' = deaf
        BY <3>1
      <4>2. output' = <<>> \/ deaf'
        BY <3>6, <4>1
      <4>3. FinStep
        BY <4>2 DEF FinStep
      <4> QED
        BY <3>1, <3>2, <3>4, <4>3 DEF Inv, TypesOK
    <3> QED
      BY <3>1, <3>3, <3>5, <3>6
  <2> QED
    BY <2>1, <2>2, <2>3
<1>5. TypesOK'
  BY <1>2, <1>4 DEF Inv, TypesOK
<1>6. HandlingOK' /\ aborted' # "state"
  BY <1>2, <1>4 DEF HandlingOK, Inv, LifeInv
<1>7. CASE channel = "added"
  <2>1. AddedOK /\ Once(left["io"], "destroy")
    BY <1>7 DEF Inv, LifeInv
  <2>2. LifeInv' /\ LifeMove
    <3>1. st' \in {"connected", "disconnecting"} /\ channel' = "added" /\ freed' = freed
          /\ inMap' = ~Has(left'["io"], "destroy") /\ ~Has(left'["io"], "established")
          /\ Once(left'["io"], "destroy") /\ (inMap' => inMap)
      BY <1>2, <1>3, <1>4, <1>7, <2>1 DEF AddedOK
    <3> QED
      BY <1>5, <1>6, <1>7, <3>1, AddedKeeps
  <2> QED
    BY <1>4, <1>5, <2>2 DEF Good
<1>8. CASE channel = "removed"
  <2>1. RemovedOK /\ Once(left["io"], "destroy")
    BY <1>8 DEF Inv, LifeInv
  <2>2. RemovedOK' /\ Once(left'["io"], "destroy")
    BY <1>2, <1>3, <2>1 DEF RemovedOK
  <2>3. LifeInv'
    BY <1>4, <1>6, <1>8, <2>2 DEF LifeInv
  <2>4. LifeMove
    BY <1>2, <1>4, <2>1, SameStage DEF RemovedOK
  <2> QED
    BY <1>4, <1>5, <2>3, <2>4 DEF Good
<1> QED
  BY <1>3, <1>7, <1>8 DEF Inv, TypesOK

(* removeConnectionInLoop as a functor of the base loop.                   *)
LEMMA RemoveStep ==
  ASSUME Inv, QueuesOK', ~singleLoop, RunRemove
  PROVE  Good
<1>1. /\ Take("base", "remove") /\ RemoveConnectionInLoop
      /\ UNCHANGED <<singleLoop, st, ioPc, back, todo, channelVars, streamVars, peer,
                     userVars, freed, aborted>>
  BY DEF RunRemove
<1>2. "io" \in Loops /\ "base" \in Loops /\ QueuesOK /\ Loops' = Loops
  BY <1>1 DEF Loops, Inv
<1>3. /\ batch' = batch /\ next["base"] < Len(batch["base"])
      /\ next'["base"] = next["base"] + 1 /\ next'["io"] = next["io"]
  BY <1>1, <1>2 DEF Take, QueuesOK
<1>4. queue'["base"] = queue["base"]
  BY <1>1, <1>2 DEF RemoveConnectionInLoop, Enqueue, QueuesOK
<1>5. channel # "new"
  <2> DEFINE f == batch["base"][next["base"] + 1]
             t == left'["base"]
  <2>1. f \in FunctorType /\ t \in Seq(FunctorType) /\ left["base"] = <<f>> \o t
    BY <1>1, <1>2, <1>3, <1>4, LeftAt
  <2>2. <<f>> \o t # <<>>
    <3> HIDE DEF f, t
    <3>1. <<f>> \in Seq(FunctorType) /\ Len(<<f>>) = 1
      BY <2>1
    <3>2. Len(<<f>> \o t) = 1 + Len(t) /\ Len(t) \in Nat
      BY <2>1, <3>1, ConcatProperties
    <3>3. Len(<<>>) = 0
      OBVIOUS
    <3> QED
      BY <3>2, <3>3
  <2>3. channel = "new" => left["base"] = <<>>
    BY <1>2 DEF Inv, LifeInv, NewOK
  <2> QED
    BY <2>1, <2>2, <2>3
<1>6. Functor("destroy") \in FunctorType
  BY FunctorTypes DEF Ops
<1>7. /\ left["io"] \in Seq(FunctorType) /\ left'["io"] \in Seq(FunctorType)
      /\ queue'["io"] = queue["io"] => left'["io"] = left["io"]
      /\ queue'["io"] = Append(queue["io"], Functor("destroy"))
           => left'["io"] = Append(left["io"], Functor("destroy"))
  BY <1>1, <1>2, <1>3, <1>6, LeftAt
<1>8. Removes /\ inMap' \in BOOLEAN
  <2>1. CASE inMap
    <3>1. inMap' = FALSE /\ queue'["io"] = Append(queue["io"], Functor("destroy"))
      BY <1>1, <1>2, <2>1 DEF RemoveConnectionInLoop, Enqueue, QueuesOK
    <3> QED
      BY <1>7, <2>1, <3>1 DEF Removes
  <2>2. CASE ~inMap
    <3>1. inMap' = inMap /\ queue' = queue
      BY <1>1, <2>2 DEF RemoveConnectionInLoop
    <3> QED
      BY <1>7, <3>1 DEF Removes, Inv, TypesOK
  <2> QED
    BY <2>1, <2>2
<1>9. TypesOK'
  BY <1>1, <1>8 DEF Inv, TypesOK, channelVars, streamVars, userVars
<1>10. StreamOK' /\ FinStep
  <2>1. BufferWatched'
    BY <1>1 DEF Inv, StreamOK, BufferWatched, channelVars, streamVars
  <2> QED
    BY <1>1, <2>1, SameStream DEF Inv, FinStep, streamVars
<1>11. HandlingOK' /\ aborted' # "state"
  BY <1>1 DEF HandlingOK, Inv, LifeInv
<1>12. CASE channel = "added"
  <2>1. /\ inMap' => inMap
        /\ inMap' = ~Has(left'["io"], "destroy") /\ ~Has(left'["io"], "established")
        /\ Once(left'["io"], "destroy")
    BY <1>7, <1>8, <1>12, RemoveKeeps
  <2>2. st' \in {"connected", "disconnecting"} /\ channel' = "added" /\ freed' = freed
    BY <1>1, <1>12 DEF Inv, LifeInv, AddedOK, channelVars
  <2>3. LifeInv' /\ LifeMove
    BY <1>9, <1>11, <1>12, <2>1, <2>2, AddedKeeps
  <2> QED
    BY <1>9, <1>10, <2>3 DEF Good
<1>13. CASE channel = "removed"
  <2>1. RemovedOK /\ Once(left["io"], "destroy")
    BY <1>13 DEF Inv, LifeInv
  <2>2. inMap' = inMap /\ left'["io"] = left["io"]
    BY <1>8, <2>1 DEF Removes, RemovedOK
  <2>3. RemovedOK' /\ Once(left'["io"], "destroy") /\ channel' = channel
    BY <1>1, <2>1, <2>2 DEF RemovedOK, channelVars
  <2>4. LifeInv'
    BY <1>11, <1>13, <2>3 DEF LifeInv
  <2>5. LifeMove
    BY <1>1, <2>1, <2>2, <2>3, SameStage DEF RemovedOK
  <2> QED
    BY <1>9, <1>10, <2>4, <2>5 DEF Good
<1> QED
  BY <1>5, <1>12, <1>13 DEF Inv, TypesOK

------------------------------------------------------------------------------
(* The invariant.                                                          *)
LEMMA InitStep == Init => Inv /\ Stage = "none"
<1> SUFFICES ASSUME Init PROVE Inv /\ Stage = "none"
  OBVIOUS
<1>1. /\ singleLoop \in BOOLEAN
      /\ st = "none" /\ inMap = FALSE
      /\ queue = [l \in Loops |-> <<>>]
      /\ batch = [l \in Loops |-> <<>>]
      /\ next = [l \in Loops |-> 0]
      /\ ioPc = "poll" /\ back = "poll" /\ todo = {}
      /\ channel = "new" /\ events = {} /\ deaf = FALSE
      /\ output = <<>> /\ wire = <<>> /\ fin = FALSE /\ accepted = <<>>
      /\ peer = {} /\ holds = FALSE /\ userPc = "idle" /\ sent = {}
      /\ freed = "no" /\ aborted = "no"
  BY DEF Init
<1>2. QueuesOK
  <2>1. <<>> \in Seq(FunctorType) /\ Len(<<>>) = 0
    OBVIOUS
  <2> QED
    BY <1>1, <2>1 DEF QueuesOK
<1>3. TypesOK
  BY <1>1 DEF TypesOK
<1>4. StreamOK
  <2>1. <<>> \in Seq(UnitType)
    OBVIOUS
  <2>2. <<>> \o <<>> = <<>>
    BY <2>1, ConcatEmptySeq
  <2> QED
    BY <1>1, <2>1, <2>2 DEF StreamOK, StreamInOrder, BufferWatched
<1>5. \A l \in Loops : left[l] = <<>>
  <2>1. Rest(<<>>, 0, <<>>) = <<>>
    <3>1. <<>> \in Seq(FunctorType)
      OBVIOUS
    <3> QED
      BY <3>1, RestSwap
  <2> QED
    BY <1>1, <2>1 DEF left
<1>6. LifeInv
  <2>1. "io" \in Loops
    BY DEF Loops
  <2>2. Once(left["io"], "destroy")
    BY <1>5, <2>1 DEF Once
  <2>3. NewOK
    BY <1>1, <1>5 DEF NewOK
  <2> QED
    BY <1>1, <2>2, <2>3 DEF LifeInv, HandlingOK
<1> QED
  BY <1>1, <1>2, <1>3, <1>4, <1>6 DEF Inv, Stage

(* A step that changes nothing.                                            *)
LEMMA StutterStep ==
  ASSUME Inv, UNCHANGED vars
  PROVE  Good
<1>1. left' = left
  BY SameLeft DEF vars
<1>2. TypesOK'
  BY DEF Inv, TypesOK, vars
<1>3. StreamOK'
  BY DEF Inv, StreamOK, StreamInOrder, BufferWatched, vars
<1>4. FinStep
  BY DEF FinStep, vars
<1>5. LifeInv'
  BY <1>1 DEF Inv, LifeInv, NewOK, AddedOK, RemovedOK, HandlingOK, Loops, vars
<1>6. LifeMove
  BY SameStage DEF vars
<1> QED
  BY <1>2, <1>3, <1>4, <1>5, <1>6 DEF Good

(* Every step keeps the invariant, and makes a move of ConnectionLife.     *)
LEMMA StepKeeps ==
  ASSUME Inv, [Next]_vars
  PROVE  Inv' /\ FinStep /\ LifeMove
<1>1. QueuesOK' /\ "io" \in Loops /\ (~singleLoop => "base" \in Loops)
  BY QueuesStep DEF Inv, Loops
<1>2. CASE UNCHANGED vars
  BY <1>1, <1>2, StutterStep DEF Inv, Good
<1>3. CASE NewConnection
  BY <1>1, <1>3, NewStep DEF Inv, Good
<1>4. CASE \/ \E what \in {"data", "fin", "rst"} : Peer(what)
           \/ PollChannel \/ PollOther \/ HandleDone \/ CallbackReturns \/ CallbackKeeps
           \/ \E call \in {"send", "shutdown"} : UserTests(call)
  BY <1>1, <1>4, QuietStep DEF Inv, Good
<1>5. CASE CallbackShutdown \/ \E m \in Messages : CallbackSend(m)
  BY <1>1, <1>5, CallbackStep DEF Inv, Good
<1>6. CASE HandleWrite
  BY <1>1, <1>6, WriteStep DEF Inv, Good
<1>7. CASE HandleClose \/ HandleRead
  BY <1>1, <1>7, ReadStep DEF Inv, Good
<1>8. CASE UserShutdown \/ \E m \in Messages : UserSend(m)
  BY <1>1, <1>8, UserQueues DEF Inv, Good
<1>9. CASE UserDrops
  BY <1>1, <1>9, DropsStep DEF Inv, Good
<1>10. CASE \/ Swap("io") \/ BatchDone("io")
            \/ ~singleLoop /\ (Swap("base") \/ BatchDone("base"))
  BY <1>1, <1>10, BatchStep DEF Inv, Good
<1>11. CASE RunEstablished
  BY <1>1, <1>11, EstablishedStep DEF Inv, Good
<1>12. CASE RunDestroy
  BY <1>1, <1>12, DestroyStep DEF Inv, Good
<1>13. CASE RunSend \/ RunShutdown
  BY <1>1, <1>13, UserRuns DEF Inv, Good
<1>14. CASE ~singleLoop /\ RunRemove
  BY <1>1, <1>14, RemoveStep DEF Inv, Good
<1> QED
  BY <1>2, <1>3, <1>4, <1>5, <1>6, <1>7, <1>8, <1>9, <1>10, <1>11, <1>12, <1>13, <1>14
     DEF Next, IoHandle, IoPending, IoRun, BasePending, User

(* So the invariant always holds.                                          *)
LEMMA InvHolds == Spec => []Inv
<1>1. Init => Inv
  BY InitStep
<1>2. Inv /\ [Next]_vars => Inv'
  BY StepKeeps
<1> QED
  BY <1>1, <1>2, PTL DEF Spec

------------------------------------------------------------------------------
(* Every variable stays in its range.                                      *)
THEOREM TypeCorrect == Spec => []TypeOK
<1>1. Inv => TypeOK
  BY DEF Inv, QueuesOK, TypesOK, StreamOK, TypeOK
<1> QED
  BY <1>1, InvHolds, PTL

(* The bytes of sendInloop reach the kernel in its order, none lost, none  *)
(* repeated, for messages of any number and length.                        *)
THEOREM BytesInOrder == Spec => []StreamInOrder
<1>1. Inv => StreamInOrder
  BY DEF Inv, StreamOK
<1> QED
  BY <1>1, InvHolds, PTL

(* shutdownWrite is called when the buffer is empty, or on a channel that  *)
(* is already off.                                                         *)
THEOREM FinComesLast == Spec => FinAfterBuffer
<1>1. Inv /\ [Next]_vars => [fin' /\ ~fin => output' = <<>> \/ deaf']_vars
  BY StepKeeps DEF FinStep
<1> QED
  BY <1>1, InvHolds, PTL DEF Spec, FinAfterBuffer

(* connectEestablished, handleClose and connectDestory find the state they *)
(* assert.                                                                 *)
THEOREM StatesAreGood == Spec => []StateAssertsHold
<1>1. Inv => StateAssertsHold
  BY DEF Inv, LifeInv, StateAssertsHold
<1> QED
  BY <1>1, InvHolds, PTL

(* A connection is destroyed only when the poller has forgotten it, and    *)
(* outside handleEvent.                                                    *)
THEOREM PollerOutlived == Spec => []DestroyedOffPoller
<1>1. Inv => DestroyedOffPoller
  BY DEF Inv, LifeInv, TypesOK, NewOK, AddedOK, RemovedOK, DestroyedOffPoller
<1> QED
  BY <1>1, InvHolds, PTL

(* The whole of the two loops, the user and the peer implements            *)
(* ConnectionLife: a connection never skips a stage, and never goes back.  *)
THEOREM LifeImplemented == Spec => LivesInOrder
<1> DEFINE bar == [c \in {"it"} |-> Stage]
<1>1. Init => bar = [c \in {"it"} |-> "none"]
  BY InitStep
<1>2. Inv => Stage \in Life!Stages
  BY DEF Stage, Life!Stages
<1>3. Inv /\ [Next]_vars =>
        \/ bar' = bar
        \/ /\ bar' \in [{"it"} -> Life!Stages]
           /\ \A c \in {"it"} : bar'[c] = bar[c] \/ <<bar[c], bar'[c]>> \in Life!Moves
  <2> SUFFICES ASSUME Inv, [Next]_vars
               PROVE  /\ bar' \in [{"it"} -> Life!Stages]
                      /\ \A c \in {"it"} : bar'[c] = bar[c] \/ <<bar[c], bar'[c]>> \in Life!Moves
    OBVIOUS
  <2>1. Stage' \in Life!Stages /\ LifeMove
    BY StepKeeps DEF Stage, Life!Stages
  <2> QED
    BY <2>1 DEF LifeMove
<1>4. Init => Life!Init
  BY <1>1 DEF Life!Init
<1>5. Inv /\ [Next]_vars => [Life!Next]_bar
  BY <1>3 DEF Life!Next
<1> QED
  BY <1>4, <1>5, InvHolds, PTL DEF Spec, LivesInOrder, Life!Spec
==============================================================================
