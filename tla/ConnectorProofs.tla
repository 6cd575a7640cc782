--------------------------- MODULE ConnectorProofs ---------------------------
(***************************************************************************)
(* What holds of the connector whatever is called when, and for a caller   *)
(* who starts it only at rest, for any delays and any number of calls.     *)
(***************************************************************************)
EXTENDS Connector, TLAPS

(* What is asked of sequences: of the events of one poll no error follows  *)
(* another event of the socket, and at most one is the timer's; of the     *)
(* functors at most one is the reset.                                      *)
Has(s, x) == \E i \in DOMAIN s : s[i] = x

ErrorFirst(s) ==
  \A i, j \in DOMAIN s : i < j /\ s[i] \in {"error", "write"} => s[j] # "error"

OneTimer(s) ==
  \A i, j \in DOMAIN s : s[i] = "timer" /\ s[j] = "timer" => i = j

OneReset(s) ==
  \A i, j \in DOMAIN s : s[i] = "reset" /\ s[j] = "reset" => i = j


(* The events of a poll are handled before the next poll; the socket's     *)
(* are its last error, then its writability, and an error is reported only *)
(* while the channel is polled.                                            *)
ActiveOK ==
  /\ phase \in {"poll", "pending"} => active = <<>>
  /\ Has(active, "error") => channel = "polled"
  /\ ErrorFirst(active)

(* A channel that was removed has its reset in the queue, once, and it is  *)
(* done before the next poll.                                              *)
ResetOK ==
  /\ Has(functors, "reset") => channel = "removed" /\ phase # "poll"
  /\ channel = "removed" => Has(functors, "reset")
  /\ OneReset(functors)

(* A connection under way is watched. *)
ConnectingOK == stopped = "no" /\ state = "kConnecting" => channel = "polled"

Inv ==
  /\ TypeOK
  /\ ActiveOK
  /\ ResetOK
  /\ ConnectingOK
  /\ EachSocketOnce
  /\ NeverForgotten

(* While every start came at rest, the connector has one thing to do at a  *)
(* time: a start on its way, one timer, or a channel.                      *)
OneTask ==
  /\ timers.strays = 0
  /\ timers.named => state = "kDisconnect" /\ channel # "polled" /\ ~Has(functors, "start")
  /\ Has(functors, "start") =>
       /\ functors = <<"start">>
       /\ state = "kDisconnect" /\ channel = "none" /\ ~timers.named
  /\ Has(active, "timer") => timers.named /\ channel = "none"
  /\ OneTimer(active)

(* A caller who starts the connector only at rest.                         *)
Careful == ~careless /\ stopped = "no" => OneTask

CarefulInv ==
  /\ Inv
  /\ CarefulUseIsSafe
  /\ Careful

------------------------------------------------------------------------------
(* The values of the connector's variables.                                *)
States == {"kDisconnect", "kConnecting", "kConnected"}
Delays == kInitRetryDelay .. kMaxRetryDelay
Timers == [named : BOOLEAN, strays : Nat]

(* What retry, the expiry of a timer and startInloop do to them.           *)
LEMMA ArmedType == \A t \in Timers : /\ Armed(t) \in Timers /\ Count(t) \in Nat
                                    /\ Count(Armed(t)) > 0 /\ Armed(t).named
                                    /\ Armed(t).strays = Count(t)
BY DEF Timers, Armed, Count

(* retry arms the timer if the connection is wanted, within the delays.    *)
LEMMA RetryStep ==
  ASSUME NEW d \in Delays, NEW t \in Timers, Retry(d, t)
  PROVE  /\ state' = "kDisconnect" /\ retryDelay' \in Delays
         /\ timers' = IF connect' THEN Armed(t) ELSE t
         /\ timers' \in Timers
<1>1. state' = "kDisconnect" /\ timers' = IF connect' THEN Armed(t) ELSE t
  BY DEF Retry
<1>2. retryDelay' \in Delays
  BY ConstantsAssumption DEF Retry, Delays
<1> QED
  BY <1>1, <1>2, ArmedType

(* An expired timer is the named one or one of the strays.                 *)
LEMMA FiredType ==
  ASSUME timers \in Timers, NEW t \in Fired
  PROVE  /\ t \in Timers
         /\ \/ timers.named /\ ~t.named /\ t.strays = timers.strays
            \/ timers.strays > 0 /\ t.named = timers.named /\ t.strays = timers.strays - 1
<1> DEFINE first == [timers EXCEPT !.named = FALSE]
           second == [timers EXCEPT !.strays = IF @ = 0 THEN 0 ELSE @ - 1]
<1>1. t \in {first, second} /\ t # timers
  BY DEF Fired
<1>2. /\ first \in Timers /\ ~first.named /\ first.strays = timers.strays
      /\ ~timers.named => first = timers
  BY DEF Timers
<1>3. /\ second \in Timers /\ second.named = timers.named
      /\ timers.strays > 0 => second.strays = timers.strays - 1
      /\ ~(timers.strays > 0) => second = timers
  BY DEF Timers
<1> QED
  BY <1>1, <1>2, <1>3

(* The outcomes of startInloop. *)
LEMMA StartStep ==
  ASSUME NEW s \in States, NEW d \in Delays, NEW t \in Timers, NEW outcome,
         StartInloop(s, d, t, outcome)
  PROVE  /\ state' \in States /\ retryDelay' \in Delays /\ timers' \in Timers
         /\ \/ /\ s # "kDisconnect" /\ stopped' = "state"
               /\ timers' = t /\ state' = s
               /\ UNCHANGED <<channel, ends, gaveUp>>
            \/ /\ s = "kDisconnect" /\ ~connect'
               /\ timers' = t /\ state' = s
               /\ UNCHANGED <<channel, ends, gaveUp, stopped>>
            \/ /\ s = "kDisconnect" /\ channel # "none" /\ stopped' = "channel"
               /\ timers' = t /\ state' = "kConnecting" /\ gaveUp' = FALSE
               /\ UNCHANGED <<channel, ends>>
            \/ /\ s = "kDisconnect" /\ channel = "none" /\ channel' = "polled"
               /\ timers' = t /\ state' = "kConnecting" /\ gaveUp' = FALSE
               /\ ends' = 0 /\ stopped' = stopped
            \/ /\ s = "kDisconnect" /\ timers' = Armed(t)
               /\ state' = "kDisconnect" /\ gaveUp' = FALSE
               /\ UNCHANGED <<channel, ends, stopped>>
            \/ /\ s = "kDisconnect" /\ timers' = t /\ state' = s
               /\ gaveUp' = TRUE
               /\ UNCHANGED <<channel, ends, stopped>>
<1>1. CASE s # "kDisconnect"
  BY <1>1 DEF StartInloop
<1>2. CASE s = "kDisconnect" /\ ~connect'
  BY <1>2 DEF StartInloop
<1>3. CASE s = "kDisconnect" /\ connect' /\ outcome = "again"
  BY <1>3, RetryStep DEF StartInloop, States
<1>4. CASE s = "kDisconnect" /\ connect' /\ outcome # "again"
  BY <1>4 DEF StartInloop, Connecting, States
<1> QED
  BY <1>1, <1>2, <1>3, <1>4

(* What an element put at the end, or taken off the front, means for what  *)
(* a sequence has.                                                         *)
LEMMA AppendHas ==
  ASSUME NEW S, NEW s \in Seq(S), NEW x \in S
  PROVE  /\ Append(s, x) \in Seq(S)
         /\ \A y : Has(Append(s, x), y) <=> Has(s, y) \/ y = x
         /\ \A i \in DOMAIN Append(s, x) :
              Append(s, x)[i] = IF i = Len(s) + 1 THEN x ELSE s[i]
         /\ DOMAIN Append(s, x) = 1 .. Len(s) + 1 /\ DOMAIN s = 1 .. Len(s)
<1>1. /\ Append(s, x) \in Seq(S)
      /\ DOMAIN Append(s, x) = 1 .. Len(s) + 1 /\ DOMAIN s = 1 .. Len(s)
      /\ \A i \in 1 .. Len(s) + 1 :
           Append(s, x)[i] = IF i = Len(s) + 1 THEN x ELSE s[i]
      /\ Len(s) \in Nat
  OBVIOUS
<1> QED
  BY <1>1 DEF Has

(* The same for the rest of a sequence.                                    *)
LEMMA TailHas ==
  ASSUME NEW S, NEW s \in Seq(S), s # <<>>
  PROVE  /\ Tail(s) \in Seq(S) /\ Head(s) = s[1] /\ 1 \in DOMAIN s
         /\ \A i \in DOMAIN Tail(s) :
              i \in Nat /\ i > 0 /\ i + 1 \in DOMAIN s /\ Tail(s)[i] = s[i + 1]
         /\ \A i \in DOMAIN s : i = 1 \/ (i - 1 \in DOMAIN Tail(s) /\ s[i] = Tail(s)[i - 1])
         /\ \A y : Has(Tail(s), y) => Has(s, y)
         /\ \A y : Has(s, y) => Has(Tail(s), y) \/ y = s[1]
<1>1. /\ Tail(s) \in Seq(S) /\ Head(s) = s[1] /\ Len(s) \in Nat /\ Len(s) > 0
      /\ DOMAIN s = 1 .. Len(s) /\ DOMAIN Tail(s) = 1 .. Len(s) - 1
      /\ \A i \in 1 .. Len(s) - 1 : Tail(s)[i] = s[i + 1]
  OBVIOUS
<1>2. \A i \in DOMAIN s : i = 1 \/ (i - 1 \in DOMAIN Tail(s) /\ s[i] = Tail(s)[i - 1])
  BY <1>1
<1>3. \A i \in DOMAIN Tail(s) :
        i \in Nat /\ i > 0 /\ i + 1 \in DOMAIN s /\ Tail(s)[i] = s[i + 1]
  BY <1>1
<1>4. \A y : Has(Tail(s), y) => Has(s, y)
  BY <1>3 DEF Has
<1>5. \A y : Has(s, y) => Has(Tail(s), y) \/ y = s[1]
  BY <1>2 DEF Has
<1> QED
  BY <1>1, <1>2, <1>3, <1>4, <1>5

(* The events poll may report, in their order.                             *)
Event == {"user", "timer", "error", "write"}

(* The same for two sequences put together.                                *)
LEMMA ConcatHas ==
  ASSUME NEW s \in Seq(Event), NEW t \in Seq(Event)
  PROVE  /\ s \o t \in Seq(Event)
         /\ \A y : Has(s \o t, y) <=> Has(s, y) \/ Has(t, y)
         /\ \A i \in DOMAIN (s \o t) :
              \/ i \in DOMAIN s /\ (s \o t)[i] = s[i]
              \/ i - Len(s) \in DOMAIN t /\ (s \o t)[i] = t[i - Len(s)] /\ i > Len(s)
         /\ Len(s) \in Nat /\ DOMAIN s = 1 .. Len(s) /\ DOMAIN t = 1 .. Len(t)
         /\ Len(t) \in Nat /\ DOMAIN (s \o t) = 1 .. Len(s) + Len(t)
<1>1. /\ s \o t \in Seq(Event)
      /\ Len(s) \in Nat /\ Len(t) \in Nat
      /\ DOMAIN s = 1 .. Len(s) /\ DOMAIN t = 1 .. Len(t)
      /\ DOMAIN (s \o t) = 1 .. Len(s) + Len(t)
      /\ \A i \in 1 .. Len(s) : (s \o t)[i] = s[i]
      /\ \A i \in Len(s) + 1 .. Len(s) + Len(t) : (s \o t)[i] = t[i - Len(s)]
  OBVIOUS
<1>2. \A i \in DOMAIN (s \o t) :
        \/ i \in DOMAIN s /\ (s \o t)[i] = s[i]
        \/ i - Len(s) \in DOMAIN t /\ (s \o t)[i] = t[i - Len(s)] /\ i > Len(s)
  BY <1>1
<1>3. \A y : Has(s \o t, y) => Has(s, y) \/ Has(t, y)
  BY <1>2 DEF Has
<1>4. \A y : Has(s, y) => Has(s \o t, y)
  BY <1>1 DEF Has
<1>5. \A y : Has(t, y) => Has(s \o t, y)
  <2> SUFFICES ASSUME NEW j \in DOMAIN t
               PROVE  \E i \in DOMAIN (s \o t) : (s \o t)[i] = t[j]
    BY DEF Has
  <2>1. j + Len(s) \in DOMAIN (s \o t) /\ (s \o t)[j + Len(s)] = t[j]
    BY <1>1
  <2> QED
    BY <2>1
<1> QED
  BY <1>1, <1>2, <1>3, <1>4, <1>5

(* In a sequence no error follows another event of the socket, and at most *)
(* one is a timer's, when that is so of both parts and at most one has     *)
(* such events.                                                            *)
LEMMA ConcatOrder ==
  ASSUME NEW s \in Seq(Event), NEW t \in Seq(Event)
  PROVE  /\ /\ ErrorFirst(s) /\ ErrorFirst(t)
            /\ ~Has(t, "error") \/ (~Has(s, "error") /\ ~Has(s, "write"))
            => ErrorFirst(s \o t)
         /\ /\ OneTimer(s) /\ OneTimer(t)
            /\ ~Has(s, "timer") \/ ~Has(t, "timer")
            => OneTimer(s \o t)
<1> DEFINE c == s \o t
<1>1. /\ \A i \in DOMAIN c :
           \/ i \in 1 .. Len(s) /\ c[i] = s[i]
           \/ i - Len(s) \in 1 .. Len(t) /\ c[i] = t[i - Len(s)]
      /\ DOMAIN s = 1 .. Len(s) /\ DOMAIN t = 1 .. Len(t) /\ Len(s) \in Nat
      /\ DOMAIN c = 1 .. Len(s) + Len(t) /\ Len(t) \in Nat
  BY ConcatHas
<1> HIDE DEF c
<1>2. ASSUME ErrorFirst(s), ErrorFirst(t),
             ~Has(t, "error") \/ (~Has(s, "error") /\ ~Has(s, "write"))
      PROVE  ErrorFirst(c)
  <2> SUFFICES ASSUME NEW i \in DOMAIN c, NEW j \in DOMAIN c,
                      i < j, c[i] \in {"error", "write"}, c[j] = "error"
               PROVE  FALSE
    BY DEF ErrorFirst
  <2>1. CASE j \in 1 .. Len(s) /\ c[j] = s[j]
    BY <1>1, <1>2, <2>1 DEF ErrorFirst, Has
  <2>2. CASE j - Len(s) \in 1 .. Len(t) /\ c[j] = t[j - Len(s)]
    <3>1. Has(t, "error")
      BY <1>1, <2>2 DEF Has
    <3>2. i - Len(s) \in 1 .. Len(t) /\ c[i] = t[i - Len(s)]
      BY <1>1, <1>2, <3>1 DEF Has
    <3> QED
      BY <1>1, <1>2, <2>2, <3>2 DEF ErrorFirst
  <2> QED
    BY <1>1, <2>1, <2>2
<1>3. ASSUME OneTimer(s), OneTimer(t), ~Has(s, "timer") \/ ~Has(t, "timer")
      PROVE  OneTimer(c)
  BY <1>1, <1>3 DEF OneTimer, Has
<1> QED
  BY <1>2, <1>3 DEF c

(* What poll may report keeps that order.                                  *)
LEMMA ReportOrder ==
  ASSUME TypeOK, NEW report \in Reports
  PROVE  /\ report \in Seq(Event)
         /\ Has(report, "error") => channel = "polled"
         /\ Has(report, "timer") => Count(timers) > 0
         /\ ErrorFirst(report)
         /\ Count(timers) <= 1 => OneTimer(report)
<1>0. PICK u \in {<<>>, <<"user">>}, x \in InEitherOrder(SocketReports, TimerReports) :
        report = u \o x
  BY DEF Reports
<1>1. PICK s \in SocketReports, n \in 0 .. Count(timers) :
        x = s \o Copies(n) \/ x = Copies(n) \o s
  <2>1. \E s \in SocketReports, e \in TimerReports : x = s \o e \/ x = e \o s
    BY <1>0 DEF InEitherOrder
  <2>2. \A e \in TimerReports : \E n \in 0 .. Count(timers) : e = Copies(n)
    BY DEF TimerReports
  <2> QED
    BY <2>1, <2>2
<1>2. /\ s \in Seq(Event) /\ ErrorFirst(s) /\ OneTimer(s)
      /\ ~Has(s, "timer") /\ (Has(s, "error") => channel = "polled")
  <2>1. CASE s = <<>>
    BY <2>1 DEF Event, ErrorFirst, OneTimer, Has
  <2>2. CASE s = <<"error">> /\ channel = "polled"
    BY <2>2 DEF Event, ErrorFirst, OneTimer, Has
  <2>3. CASE s = <<"write">>
    BY <2>3 DEF Event, ErrorFirst, OneTimer, Has
  <2>4. CASE s = <<"error", "write">> /\ channel = "polled"
    BY <2>4 DEF Event, ErrorFirst, OneTimer, Has
  <2> QED
    BY <1>1, <2>1, <2>2, <2>3, <2>4 DEF SocketReports
<1>3. /\ u \in Seq(Event) /\ ErrorFirst(u) /\ OneTimer(u)
      /\ ~Has(u, "timer") /\ ~Has(u, "error") /\ ~Has(u, "write")
  <2>1. CASE u = <<>>
    BY <2>1 DEF Event, ErrorFirst, OneTimer, Has
  <2>2. CASE u = <<"user">>
    BY <2>2 DEF Event, ErrorFirst, OneTimer, Has
  <2> QED
    BY <1>0, <2>1, <2>2
<1> DEFINE e == Copies(n)
<1>4. /\ e \in Seq(Event) /\ ErrorFirst(e) /\ (Count(timers) <= 1 => OneTimer(e))
      /\ ~Has(e, "error") /\ ~Has(e, "write")
      /\ Has(e, "timer") => Count(timers) > 0
  <2>1. Count(timers) \in Nat
    BY ArmedType DEF TypeOK, Timers
  <2>2. e \in Seq(Event) /\ DOMAIN e = 1 .. n /\ \A i \in 1 .. n : e[i] = "timer"
    BY <2>1 DEF Copies, Event
  <2> HIDE DEF e
  <2> QED
    BY <2>1, <2>2 DEF ErrorFirst, OneTimer, Has
<1> HIDE DEF e
<1>5. CASE report = u \o (s \o e)
  <2>1. /\ s \o e \in Seq(Event) /\ ErrorFirst(s \o e)
        /\ Count(timers) <= 1 => OneTimer(s \o e)
    <3>1. s \o e \in Seq(Event)
      BY <1>2, <1>4, ConcatHas
    <3>2. ErrorFirst(s \o e)
      BY <1>2, <1>4, ConcatOrder
    <3>3. Count(timers) <= 1 => OneTimer(s \o e)
      BY <1>2, <1>4, ConcatOrder
    <3> QED
      BY <3>1, <3>2, <3>3
  <2>2. ErrorFirst(report) /\ (Count(timers) <= 1 => OneTimer(report))
    BY <1>3, <1>5, <2>1, ConcatOrder
  <2>3. \A y : Has(report, y) => Has(u, y) \/ Has(s, y) \/ Has(e, y)
    BY <1>2, <1>3, <1>4, <1>5, <2>1, ConcatHas
  <2> QED
    BY <1>2, <1>3, <1>4, <1>5, <2>1, <2>2, <2>3, ConcatHas
<1>6. CASE report = u \o (e \o s)
  <2>1. /\ e \o s \in Seq(Event) /\ ErrorFirst(e \o s)
        /\ Count(timers) <= 1 => OneTimer(e \o s)
    <3>1. e \o s \in Seq(Event)
      BY <1>2, <1>4, ConcatHas
    <3>2. ErrorFirst(e \o s)
      BY <1>2, <1>4, ConcatOrder
    <3>3. Count(timers) <= 1 => OneTimer(e \o s)
      BY <1>2, <1>4, ConcatOrder
    <3> QED
      BY <3>1, <3>2, <3>3
  <2>2. ErrorFirst(report) /\ (Count(timers) <= 1 => OneTimer(report))
    BY <1>3, <1>6, <2>1, ConcatOrder
  <2>3. \A y : Has(report, y) => Has(u, y) \/ Has(s, y) \/ Has(e, y)
    BY <1>2, <1>3, <1>4, <1>6, <2>1, ConcatHas
  <2> QED
    BY <1>2, <1>3, <1>4, <1>6, <2>1, <2>2, <2>3, ConcatHas
<1> QED
  BY <1>0, <1>1, <1>5, <1>6 DEF e

------------------------------------------------------------------------------
(* Steps that take a task off a list keep what its other elements promise. *)
LEMMA TakenEvent ==
  ASSUME Inv, active # <<>>, active' = Tail(active)
  PROVE  /\ active' \in Seq(Event)
         /\ \A y : Has(active', y) => Has(active, y)
         /\ ErrorFirst(active')
         /\ Head(active) \in {"error", "write"} => ~Has(active', "error")
         /\ Has(active, Head(active))
<1>1. active \in Seq(Event) /\ ErrorFirst(active)
  BY DEF Inv, TypeOK, ActiveOK, Event, ErrorFirst
<1>2. \A y : Has(active', y) => Has(active, y)
  BY <1>1, TailHas
<1>3. ErrorFirst(active')
  BY <1>1, TailHas DEF ErrorFirst
<1>4. Head(active) \in {"error", "write"} => ~Has(active', "error")
  BY <1>1, TailHas DEF ErrorFirst, Has
<1>5. active' \in Seq(Event) /\ Has(active, Head(active))
  BY <1>1, TailHas DEF Has
<1> QED
  BY <1>2, <1>3, <1>4, <1>5

(* Taking a functor keeps the queue of at most one reset.                  *)
LEMMA TakenFunctor ==
  ASSUME Inv, functors # <<>>, functors' = Tail(functors)
  PROVE  /\ functors' \in Seq({"start", "reset"})
         /\ \A y : Has(functors', y) => Has(functors, y)
         /\ \A y : Has(functors, y) => Has(functors', y) \/ y = Head(functors)
         /\ OneReset(functors')
         /\ Head(functors) = "reset" => ~Has(functors', "reset")
         /\ Has(functors, Head(functors))
<1>1. functors \in Seq({"start", "reset"}) /\ OneReset(functors)
  BY DEF Inv, TypeOK, ResetOK, OneReset
<1>2. \A y : Has(functors', y) => Has(functors, y)
  BY <1>1, TailHas
<1>6. \A y : Has(functors, y) => Has(functors', y) \/ y = Head(functors)
  BY <1>1, TailHas
<1>3. OneReset(functors')
  BY <1>1, TailHas DEF OneReset
<1>4. Head(functors) = "reset" => ~Has(functors', "reset")
  BY <1>1, TailHas DEF OneReset, Has
<1>5. functors' \in Seq({"start", "reset"}) /\ Has(functors, Head(functors))
  BY <1>1, TailHas DEF Has
<1> QED
  BY <1>2, <1>3, <1>4, <1>5, <1>6

(* An attempt, from the functor, the timer or a call, with the lists of    *)
(* events and functors that are left.                                      *)
LEMMA AttemptKeeps ==
  ASSUME Inv, stopped = "no",
         NEW s \in States, s \in {state, "kDisconnect"},
         NEW t \in Timers, NEW d \in Delays, NEW outcome,
         StartInloop(s, d, t, outcome),
         connect' \in BOOLEAN, phase' = phase,
         active' \in Seq(Event), ErrorFirst(active'),
         phase \in {"poll", "pending"} => active' = <<>>,
         Has(active', "error") => Has(active, "error"),
         functors' \in Seq({"start", "reset"}), OneReset(functors'),
         Has(functors', "reset") <=> Has(functors, "reset"),
         starting' \in BOOLEAN, calls' \in 0 .. MaxCalls, careless' \in BOOLEAN
  PROVE  Inv'
<1>1. /\ state' \in States /\ retryDelay' \in Delays /\ timers' \in Timers
      /\ channel' \in {channel, "polled"}
      /\ channel' # channel => channel = "none"
      /\ gaveUp' \in {gaveUp, TRUE, FALSE} /\ ends' \in {ends, 0}
      /\ stopped' \in {stopped, "state", "channel"}
  BY StartStep
<1>2. TypeOK'
  <2>1. /\ state' \in States /\ channel' \in {"none", "polled", "removed"}
        /\ ends' \in Nat /\ phase' \in {"poll", "handle", "user", "pending"}
        /\ stopped' \in {"no", "destroyed", "state", "channel"}
    BY <1>1 DEF Inv, TypeOK
  <2>2. gaveUp' \in BOOLEAN
    BY <1>1 DEF Inv, TypeOK
  <2> QED
    BY <1>1, <2>1, <2>2 DEF TypeOK, States, Delays, Timers, Event
<1>3. ActiveOK'
  BY <1>1 DEF Inv, ActiveOK, ErrorFirst
<1>4. ResetOK'
  BY <1>1 DEF Inv, ResetOK, OneReset
<1>5. ConnectingOK'
  BY StartStep DEF Inv, ConnectingOK
<1>6. EachSocketOnce'
  BY StartStep DEF Inv, EachSocketOnce
<1>7. NeverForgotten'
  <2> SUFFICES ASSUME stopped' = "no", connect', ~starting'
               PROVE  (AtWork \/ state = "kConnected" \/ gaveUp)'
    BY DEF NeverForgotten
  <2>1. \/ state' = "kConnecting" /\ channel' = "polled"
        \/ timers' = Armed(t)
        \/ gaveUp'
    BY StartStep
  <2> QED
    BY <2>1, ArmedType DEF AtWork
<1> QED
  BY <1>2, <1>3, <1>4, <1>5, <1>6, <1>7 DEF Inv

------------------------------------------------------------------------------
(* It holds at first.                                                      *)
LEMMA InvInit == Init => Inv
<1> SUFFICES ASSUME Init PROVE Inv
  OBVIOUS
<1>1. TypeOK
  <2>1. /\ connect \in BOOLEAN /\ starting \in BOOLEAN /\ careless \in BOOLEAN
        /\ gaveUp \in BOOLEAN
    BY DEF Init
  <2>2. retryDelay \in kInitRetryDelay .. kMaxRetryDelay /\ calls \in 0 .. MaxCalls
    BY ConstantsAssumption DEF Init
  <2>3. timers \in [named : BOOLEAN, strays : Nat] /\ ends \in Nat
    BY DEF Init
  <2> QED
    BY <2>1, <2>2, <2>3 DEF Init, TypeOK
<1>2. ActiveOK /\ ResetOK
  BY DEF Init, ActiveOK, ResetOK, Has, ErrorFirst, OneReset
<1> QED
  BY <1>1, <1>2 DEF Init, Inv, ConnectingOK, EachSocketOnce, NeverForgotten

(* The attempts. *)
LEMMA CallKeeps ==
  ASSUME Inv, NEW outcome, Start(outcome) \/ Restart(outcome)
  PROVE  Inv'
<1>1. /\ connect' = TRUE /\ stopped = "no" /\ phase = "user"
      /\ UNCHANGED <<loopVars, starting>>
  BY DEF Start, Restart
<1>4. calls' \in 0 .. MaxCalls
  BY ConstantsAssumption DEF Start, Restart, Counted, Inv, TypeOK
<1>5. careless' \in BOOLEAN
  BY DEF Start, Restart, Counted
<1>2. PICK s \in {state, "kDisconnect"}, d \in Delays :
        StartInloop(s, d, timers, outcome)
  BY ConstantsAssumption DEF Start, Restart, Delays, Inv, TypeOK
<1>3. s \in States /\ timers \in Timers
  BY DEF Inv, TypeOK, States, Timers
<1> QED
  BY <1>1, <1>2, <1>3, <1>4, <1>5, AttemptKeeps
     DEF loopVars, Inv, TypeOK, ActiveOK, ResetOK, ErrorFirst, OneReset, Event

(* A retry timer expires.                                                  *)
LEMMA FireTimerKeeps ==
  ASSUME Inv, NEW outcome, FireTimer(outcome)
  PROVE  Inv'
<1>1. /\ stopped = "no" /\ phase = "handle" /\ connect' = connect
      /\ active # <<>> /\ active' = Tail(active)
      /\ UNCHANGED <<functors, phase, userVars>>
  BY DEF FireTimer, Take
<1>2. PICK t \in Fired : StartInloop(state, retryDelay, t, outcome)
  BY DEF FireTimer
<1>3. state \in States /\ retryDelay \in Delays /\ t \in Timers
  <2>1. timers \in Timers
    BY DEF Inv, TypeOK, Timers
  <2>2. t \in Timers
    BY <2>1, FiredType
  <2> QED
    BY <2>2 DEF Inv, TypeOK, States, Delays
<1> QED
  BY <1>1, <1>2, <1>3, AttemptKeeps, TakenEvent
     DEF userVars, Inv, TypeOK, ResetOK, OneReset

(* The functor of a start runs.                                            *)
LEMMA RunStartKeeps ==
  ASSUME Inv, NEW outcome, RunStart(outcome)
  PROVE  Inv'
<1>1. /\ stopped = "no" /\ phase = "pending" /\ connect' = connect
      /\ functors # <<>> /\ functors' = Tail(functors) /\ Head(functors) = "start"
      /\ UNCHANGED <<phase, active, userVars>>
      /\ StartInloop(state, retryDelay, timers, outcome)
  BY DEF RunStart, TakeFunctor
<1>2. state \in States /\ retryDelay \in Delays /\ timers \in Timers
  BY DEF Inv, TypeOK, States, Timers, Delays
<1>3. /\ functors' \in Seq({"start", "reset"}) /\ OneReset(functors')
      /\ Has(functors', "reset") <=> Has(functors, "reset")
  BY <1>1, TakenFunctor
<1> QED
  BY <1>1, <1>2, <1>3, AttemptKeeps
     DEF userVars, Inv, TypeOK, ActiveOK, ErrorFirst, Event

(* The socket's events: the channel is removed, and its reset queued. *)
LEMMA RemovedKeeps ==
  ASSUME Inv, stopped = "no", phase = "handle", channel = "polled",
         active # <<>>, active' = Tail(active), Head(active) \in {"error", "write"},
         RemoveAndResetChannel, ends' = ends + 1,
         phase' \in {"handle", "user"}, UNCHANGED <<connect, userVars, gaveUp, stopped>>,
         \/ state' = "kConnected" /\ UNCHANGED <<retryDelay, timers>>
         \/ Retry(retryDelay, timers)
  PROVE  Inv'
<1>1. /\ retryDelay \in Delays /\ timers \in Timers
      /\ functors \in Seq({"start", "reset"}) /\ ~Has(functors, "reset")
  BY DEF Inv, TypeOK, Delays, Timers, ResetOK
<1>2. /\ state' \in {"kConnected", "kDisconnect"} /\ retryDelay' \in Delays
      /\ timers' \in Timers
      /\ state' = "kConnected" \/ (connect' => timers' = Armed(timers))
  BY <1>1, RetryStep
<1>3. /\ functors' \in Seq({"start", "reset"})
      /\ \A y : Has(functors', y) <=> Has(functors, y) \/ y = "reset"
      /\ OneReset(functors')
  <2>1. functors' = Append(functors, "reset")
    BY DEF RemoveAndResetChannel
  <2>2. OneReset(functors')
    BY <1>1, <2>1, AppendHas DEF OneReset, Has
  <2> QED
    BY <1>1, <2>1, <2>2, AppendHas
<1>4. ends' = 1 /\ channel' = "removed"
  BY DEF Inv, EachSocketOnce, RemoveAndResetChannel
<1>5. TypeOK'
  BY <1>2, <1>3, <1>4, TakenEvent DEF Inv, TypeOK, Delays, Timers, userVars, Event
<1>6. ActiveOK'
  BY TakenEvent DEF ActiveOK, ErrorFirst
<1>7. ResetOK'
  BY <1>3, <1>4 DEF ResetOK, OneReset
<1>8. ConnectingOK' /\ EachSocketOnce'
  BY <1>2, <1>4 DEF ConnectingOK, EachSocketOnce
<1>9. NeverForgotten'
  BY <1>1, <1>2, ArmedType DEF NeverForgotten, AtWork
<1> QED
  BY <1>5, <1>6, <1>7, <1>8, <1>9 DEF Inv

(* The error callback.                                                     *)
LEMMA HandleErrorKeeps ==
  ASSUME Inv, HandleError
  PROVE  Inv'
<1>1. /\ active # <<>> /\ Head(active) = "error" /\ active' = Tail(active)
      /\ stopped = "no" /\ phase = "handle"
  BY DEF HandleError, Take
<1>2. channel = "polled"
  BY <1>1, TakenEvent DEF Inv, ActiveOK
<1> QED
  BY <1>1, <1>2, RemovedKeeps DEF HandleError

(* The write callback, which looks at state_ first.                        *)
LEMMA HandleWriteKeeps ==
  ASSUME Inv, NEW established, HandleWrite(established)
  PROVE  Inv'
<1>1. /\ active # <<>> /\ Head(active) = "write" /\ active' = Tail(active)
      /\ stopped = "no" /\ phase = "handle"
      /\ UNCHANGED <<connect, userVars, gaveUp, stopped>>
  BY DEF HandleWrite, Take
<1>2. CASE IgnoreWrite
  <2>1. UNCHANGED <<state, channel, retryDelay, timers, ends, functors, phase>>
    BY <1>2 DEF HandleWrite
  <2>2. TypeOK'
    BY <1>1, <2>1, TakenEvent DEF Inv, TypeOK, userVars, Event
  <2>3. ActiveOK'
    BY <1>1, <2>1, TakenEvent DEF Inv, ActiveOK, ErrorFirst
  <2> QED
    BY <1>1, <2>1, <2>2, <2>3
       DEF Inv, ResetOK, ConnectingOK, EachSocketOnce, NeverForgotten, AtWork, userVars
<1>3. CASE ~IgnoreWrite
  <2>1. channel = "polled"
    BY <1>1, <1>3 DEF IgnoreWrite, Inv, ConnectingOK
  <2>2. /\ RemoveAndResetChannel /\ ends' = ends + 1
        /\ phase' \in {"handle", "user"}
        /\ \/ state' = "kConnected" /\ UNCHANGED <<retryDelay, timers>>
           \/ Retry(retryDelay, timers)
    BY <1>1, <1>3 DEF HandleWrite
  <2> QED
    BY <1>1, <2>1, <2>2, RemovedKeeps
<1> QED
  BY <1>2, <1>3

(* The queued reset of the removed channel.                                *)
LEMMA ResetChannelKeeps ==
  ASSUME Inv, ResetChannel
  PROVE  Inv'
<1>1. /\ functors # <<>> /\ functors' = Tail(functors) /\ Head(functors) = "reset"
      /\ channel' = "none" /\ phase = "pending"
      /\ UNCHANGED <<connect, state, retryDelay, timers, ends, gaveUp, phase, active,
                     userVars, stopped>>
  BY DEF ResetChannel, TakeFunctor
<1>2. channel = "removed"
  BY <1>1, TakenFunctor DEF Inv, ResetOK
<1>3. TypeOK'
  BY <1>1, TakenFunctor DEF Inv, TypeOK, userVars
<1>4. ActiveOK'
  BY <1>1 DEF Inv, ActiveOK, Has
<1>5. ResetOK'
  BY <1>1, TakenFunctor DEF ResetOK, OneReset
<1>6. ConnectingOK' /\ EachSocketOnce'
  BY <1>1, <1>2 DEF Inv, ConnectingOK, EachSocketOnce
<1>7. NeverForgotten'
  <2>1. Has(functors, "start") => Has(functors', "start")
    BY <1>1, TakenFunctor
  <2> QED
    BY <1>1, <1>2, <2>1 DEF Inv, NeverForgotten, AtWork, userVars, Has
<1> QED
  BY <1>3, <1>4, <1>5, <1>6, <1>7 DEF Inv

(* The steps that leave the socket and its timers alone. *)
LEMMA PollKeeps ==
  ASSUME Inv, NEW report \in Reports, Poll(report)
  PROVE  Inv'
<1>1. /\ active' = report /\ phase' = "handle"
      /\ UNCHANGED <<connect, socketVars, functors, userVars, stopped>>
  BY DEF Poll
<1>2. active' \in Seq(Event) /\ ErrorFirst(active') /\ (Has(active', "error") => channel = "polled")
  BY <1>1, ReportOrder DEF Inv
<1>3. TypeOK'
  BY <1>1, <1>2 DEF Inv, TypeOK, Event, socketVars, userVars
<1>4. ActiveOK'
  BY <1>1, <1>2 DEF ActiveOK, ErrorFirst, socketVars
<1> QED
  BY <1>1, <1>3, <1>4
     DEF Inv, ResetOK, ConnectingOK, EachSocketOnce, NeverForgotten, AtWork,
         socketVars, userVars

(* The loop goes on to its next callback or phase.                         *)
LEMMA LoopKeeps ==
  ASSUME Inv, UserEvent \/ UserReturns \/ HandleDone \/ PendingDone
  PROVE  Inv'
<1> USE DEF Inv, ResetOK, ConnectingOK, EachSocketOnce, NeverForgotten, AtWork,
            socketVars, userVars
<1>1. CASE UserEvent
  <2>1. TypeOK'
    BY <1>1, TakenEvent DEF UserEvent, Take, TypeOK, Event
  <2>2. ActiveOK'
    BY <1>1, TakenEvent DEF UserEvent, Take, ActiveOK, ErrorFirst
  <2> QED
    BY <1>1, <2>1, <2>2 DEF UserEvent, Take
<1>2. CASE UserReturns \/ HandleDone \/ PendingDone
  <2>1. TypeOK'
    BY <1>2 DEF UserReturns, HandleDone, PendingDone, TypeOK
  <2>2. ActiveOK'
    BY <1>2 DEF UserReturns, HandleDone, PendingDone, ActiveOK
  <2> QED
    BY <1>2, <2>1, <2>2 DEF UserReturns, HandleDone, PendingDone, Has
<1> QED
  BY <1>1, <1>2

(* The calls of the user that make no attempt themselves.                  *)
LEMMA UserKeeps ==
  ASSUME Inv, StartElsewhere \/ QueueStart \/ Stop \/ Destroy
  PROVE  Inv'
<1> USE DEF Inv, ConnectingOK, EachSocketOnce, NeverForgotten, AtWork,
            socketVars, loopVars, userVars
<1>1. CASE StartElsewhere
  <2>1. calls' \in 0 .. MaxCalls /\ careless' \in BOOLEAN
    BY <1>1, ConstantsAssumption DEF StartElsewhere, Counted, TypeOK
  <2> QED
    BY <1>1, <2>1 DEF StartElsewhere, TypeOK, ActiveOK, ResetOK
<1>2. CASE QueueStart
  <2>1. /\ functors' \in Seq({"start", "reset"}) /\ careless' \in BOOLEAN
        /\ \A y : Has(functors', y) <=> Has(functors, y) \/ y = "start"
        /\ OneReset(functors')
    <3>1. functors \in Seq({"start", "reset"}) /\ "start" \in {"start", "reset"}
      BY DEF TypeOK
    <3>2. functors' = Append(functors, "start") /\ careless' \in BOOLEAN
      BY <1>2 DEF QueueStart, TypeOK
    <3>3. OneReset(functors)
      BY DEF ResetOK
    <3> QED
      BY <3>1, <3>2, <3>3, AppendHas DEF OneReset
  <2>2. TypeOK' /\ ActiveOK'
    BY <1>2, <2>1 DEF QueueStart, TypeOK, ActiveOK
  <2>3. ResetOK'
    BY <1>2, <2>1 DEF QueueStart, ResetOK, OneReset
  <2> QED
    BY <1>2, <2>1, <2>2, <2>3 DEF QueueStart, Has
<1>3. CASE Stop
  BY <1>3 DEF Stop, TypeOK, ActiveOK, ResetOK
<1>4. CASE Destroy
  <2>1. timers' \in [named : BOOLEAN, strays : Nat]
    BY <1>4 DEF Destroy, TypeOK
  <2> QED
    BY <1>4, <2>1 DEF Destroy, TypeOK, ActiveOK, ResetOK
<1> QED
  BY <1>1, <1>2, <1>3, <1>4

(* Every step keeps the invariant.                                         *)
LEMMA InvStep == Inv /\ [Next]_vars => Inv'
<1> SUFFICES ASSUME Inv, [Next]_vars PROVE Inv'
  OBVIOUS
<1>1. CASE \E report \in Reports : Poll(report)
  BY <1>1, PollKeeps
<1>2. CASE LoopStep
  BY <1>2, LoopKeeps, FireTimerKeeps, RunStartKeeps, HandleErrorKeeps,
     HandleWriteKeeps, ResetChannelKeeps DEF LoopStep, Attempt
<1>3. CASE UserCall
  BY <1>3, UserKeeps, CallKeeps DEF UserCall
<1>4. CASE UNCHANGED vars
  BY <1>4 DEF vars, Inv, TypeOK, ActiveOK, ResetOK, ConnectingOK, EachSocketOnce,
              NeverForgotten, AtWork
<1> QED
  BY <1>1, <1>2, <1>3, <1>4 DEF Next

(* The types of the connector's state. *)
THEOREM TypeCorrect == Spec => []TypeOK
<1>1. Inv => TypeOK
  BY DEF Inv
<1> QED
  BY <1>1, InvInit, InvStep, PTL DEF Spec

(* Every socket is closed or handed over once, though an error comes with  *)
(* writability, and whatever the user calls in between.                    *)
THEOREM SocketsEndOnce == Spec => []EachSocketOnce
<1>1. Inv => EachSocketOnce
  BY DEF Inv
<1> QED
  BY <1>1, InvInit, InvStep, PTL DEF Spec

(* A connector that is wanted has its next step armed, unless it connected *)
(* or gave up.                                                             *)
THEOREM WantedIsArmed == Spec => []NeverForgotten
<1>1. Inv => NeverForgotten
  BY DEF Inv
<1> QED
  BY <1>1, InvInit, InvStep, PTL DEF Spec

------------------------------------------------------------------------------
(* An attempt made when there is nothing else to do.                       *)
LEMMA AttemptCareful ==
  ASSUME stopped = "no", channel = "none",
         NEW t \in Timers, ~t.named, t.strays = 0,
         NEW d \in Delays, NEW outcome,
         StartInloop("kDisconnect", d, t, outcome),
         ~Has(functors', "start"), ~Has(active', "timer")
  PROVE  stopped' = "no" /\ OneTask'
<1>1. /\ stopped' = "no"
      /\ \/ timers' = t
         \/ timers' = Armed(t) /\ state' = "kDisconnect" /\ channel' = "none"
  BY StartStep DEF States
<1>2. Armed(t).strays = 0
  BY DEF Armed, Count
<1> QED
  BY <1>1, <1>2 DEF OneTask, Has, OneTimer

(* A start or restart at rest, in the loop.                                *)
LEMMA CarefulStart ==
  ASSUME Inv, Careful, NEW outcome, Start(outcome) \/ Restart(outcome), ~careless'
  PROVE  stopped' = "no" /\ OneTask'
<1>1. Idle /\ stopped = "no" /\ ~careless /\ UNCHANGED <<functors, active>>
  BY DEF Start, Restart, Counted, loopVars
<1>2. PICK d \in Delays : StartInloop("kDisconnect", d, timers, outcome)
  <2>1. CASE Start(outcome)
    <3>1. state = "kDisconnect" /\ StartInloop(state, retryDelay, timers, outcome)
      BY <2>1 DEF Start, Counted
    <3> QED
      BY <3>1 DEF Delays, Inv, TypeOK
  <2>2. CASE Restart(outcome)
    <3>1. kInitRetryDelay \in Delays
      BY ConstantsAssumption DEF Delays
    <3> QED
      BY <2>2, <3>1 DEF Restart
  <2> QED
    BY <2>1, <2>2
<1>3. /\ timers \in Timers /\ channel = "none" /\ functors = <<>>
      /\ ~timers.named /\ timers.strays = 0
  BY <1>1 DEF Inv, TypeOK, Timers, Idle, Count
<1>4. ~Has(functors, "start") /\ ~Has(active, "timer")
  BY <1>1, <1>3 DEF Has, Careful, OneTask
<1>5. ~Has(functors', "start") /\ ~Has(active', "timer")
  BY <1>1, <1>4 DEF Has
<1> QED
  BY <1>1, <1>2, <1>3, <1>5, AttemptCareful

(* The one timer expires.                                                  *)
LEMMA CarefulFire ==
  ASSUME Inv, Careful, NEW outcome, FireTimer(outcome), ~careless'
  PROVE  stopped' = "no" /\ OneTask'
<1>1. /\ stopped = "no" /\ ~careless /\ functors' = functors
      /\ active # <<>> /\ active' = Tail(active) /\ Head(active) = "timer"
  BY DEF FireTimer, Take, userVars
<1>2. PICK t \in Fired : StartInloop(state, retryDelay, t, outcome)
  BY DEF FireTimer
<1>3. OneTask /\ Has(active, "timer")
  BY <1>1, TakenEvent DEF Careful
<1>4. /\ state = "kDisconnect" /\ channel = "none"
      /\ timers.strays = 0 /\ ~Has(functors, "start")
  BY <1>3 DEF OneTask
<1>5. t \in Timers /\ ~t.named /\ t.strays = 0
  BY <1>4, FiredType DEF Inv, TypeOK, Timers
<1>6. ~Has(active', "timer")
  <2>1. active \in Seq(Event)
    BY DEF Inv, TypeOK, Event
  <2> QED
    BY <1>1, <1>3, <2>1, TailHas DEF OneTask, Has, OneTimer
<1>7. retryDelay \in Delays /\ ~Has(functors', "start")
  BY <1>1, <1>4 DEF Inv, TypeOK, Delays, Has
<1> QED
  BY <1>1, <1>2, <1>4, <1>5, <1>6, <1>7, AttemptCareful

(* The one functor runs.                                                   *)
LEMMA CarefulRun ==
  ASSUME Inv, Careful, NEW outcome, RunStart(outcome), ~careless'
  PROVE  stopped' = "no" /\ OneTask'
<1>1. /\ stopped = "no" /\ ~careless /\ active' = active
      /\ functors # <<>> /\ functors' = Tail(functors) /\ Head(functors) = "start"
      /\ StartInloop(state, retryDelay, timers, outcome)
  BY DEF RunStart, TakeFunctor, userVars
<1>2. OneTask /\ Has(functors, "start")
  BY <1>1, TakenFunctor DEF Careful
<1>3. /\ state = "kDisconnect" /\ channel = "none" /\ ~timers.named
      /\ timers.strays = 0 /\ ~Has(active, "timer") /\ functors = <<"start">>
  BY <1>2 DEF OneTask
<1>4. ~Has(functors', "start") /\ ~Has(active', "timer")
  BY <1>1, <1>3 DEF Has
<1>5. retryDelay \in Delays /\ timers \in Timers
  BY DEF Inv, TypeOK, Delays, Timers
<1> QED
  BY <1>1, <1>3, <1>4, <1>5, AttemptCareful

(* The socket's events arm the only timer.                                 *)
LEMMA CarefulRemoved ==
  ASSUME Inv, OneTask, stopped = "no", channel = "polled",
         active # <<>>, active' = Tail(active), RemoveAndResetChannel,
         \/ state' = "kConnected" /\ UNCHANGED <<retryDelay, timers>>
         \/ Retry(retryDelay, timers)
  PROVE  OneTask'
<1>1. /\ timers \in Timers /\ retryDelay \in Delays
      /\ functors \in Seq({"start", "reset"})
  BY DEF Inv, TypeOK, Timers, Delays
<1>2. /\ ~timers.named /\ timers.strays = 0
      /\ ~Has(functors, "start") /\ ~Has(active, "timer")
  BY DEF OneTask
<1>3. ~Has(functors', "start") /\ channel' = "removed"
  BY <1>1, <1>2, AppendHas DEF RemoveAndResetChannel
<1>4. ~Has(active', "timer")
  BY <1>2, TakenEvent
<1>5. timers' = timers \/ (timers' = Armed(timers) /\ state' = "kDisconnect")
  BY <1>1, RetryStep
<1>6. Armed(timers).strays = 0
  BY <1>2 DEF Armed, Count
<1> QED
  BY <1>2, <1>3, <1>4, <1>5, <1>6 DEF OneTask, Has, OneTimer

(* The socket becomes writable or fails.                                   *)
LEMMA CarefulSocket ==
  ASSUME Inv, Careful, HandleError \/ (\E established \in BOOLEAN : HandleWrite(established)),
         ~careless'
  PROVE  stopped' = "no" /\ OneTask'
<1>1. /\ stopped = "no" /\ stopped' = "no" /\ ~careless
      /\ active # <<>> /\ active' = Tail(active)
  BY DEF HandleError, HandleWrite, Take, userVars
<1>2. CASE HandleError
  <2>1. channel = "polled"
    BY <1>2, TakenEvent DEF HandleError, Take, Inv, ActiveOK
  <2> QED
    BY <1>1, <1>2, <2>1, CarefulRemoved DEF HandleError, Careful
<1>3. ASSUME NEW established, HandleWrite(established), ~IgnoreWrite
      PROVE  OneTask'
  <2>1. channel = "polled"
    BY <1>1, <1>3 DEF IgnoreWrite, Inv, ConnectingOK
  <2> QED
    BY <1>1, <1>3, <2>1, CarefulRemoved DEF HandleWrite, Careful
<1>4. ASSUME NEW established, HandleWrite(established), IgnoreWrite
      PROVE  OneTask'
  <2>1. UNCHANGED <<state, channel, timers, functors>>
    BY <1>4 DEF HandleWrite
  <2>2. /\ active \in Seq(Event) /\ OneTask
    BY <1>1 DEF Inv, TypeOK, Event, Careful
  <2>3. /\ Has(active', "timer") => Has(active, "timer")
        /\ OneTimer(active')
    BY <1>1, <2>2, TailHas DEF OneTask, OneTimer
  <2> QED
    BY <2>1, <2>2, <2>3 DEF OneTask, OneTimer, Has
<1> QED
  BY <1>1, <1>2, <1>3, <1>4

(* The steps that leave the connector's task as it is: poll reports the    *)
(* one timer at most once, and a channel that is removed is reset before   *)
(* it.                                                                     *)
LEMMA CarefulPoll ==
  ASSUME Inv, OneTask, NEW report \in Reports, Poll(report)
  PROVE  OneTask'
<1>1. active' = report /\ phase = "poll" /\ UNCHANGED <<state, channel, timers, functors>>
  BY DEF Poll, socketVars
<1>2. timers \in Timers /\ timers.strays = 0
  BY DEF Inv, TypeOK, Timers, OneTask
<1>3. Count(timers) <= 1 /\ (Count(timers) > 0 => timers.named)
  BY <1>2 DEF Count, Timers
<1>4. OneTimer(active') /\ (Has(active', "timer") => timers.named)
  BY <1>1, <1>3, ReportOrder DEF Inv
<1>5. channel # "removed"
  BY <1>1 DEF Inv, ResetOK
<1>6. timers.named => channel = "none"
  BY <1>5 DEF OneTask, Inv, TypeOK
<1> QED
  BY <1>1, <1>4, <1>6 DEF OneTask, OneTimer, Has

(* The loop goes on; the events left are some of those reported.           *)
LEMMA CarefulLoop ==
  ASSUME Inv, OneTask, UserEvent \/ UserReturns \/ HandleDone \/ PendingDone
  PROVE  OneTask'
<1>1. UNCHANGED <<state, channel, timers, functors>>
  BY DEF UserEvent, UserReturns, HandleDone, PendingDone, socketVars
<1>2. CASE UserEvent
  <2>1. active # <<>> /\ active' = Tail(active) /\ active \in Seq(Event)
    BY <1>2 DEF UserEvent, Take, Inv, TypeOK, Event
  <2>2. (Has(active', "timer") => Has(active, "timer")) /\ OneTimer(active')
    BY <2>1, TailHas DEF OneTask, OneTimer
  <2> QED
    BY <1>1, <2>2 DEF OneTask, OneTimer, Has
<1>3. CASE UserReturns \/ HandleDone \/ PendingDone
  BY <1>1, <1>3 DEF UserReturns, HandleDone, PendingDone, OneTask, Has
<1> QED
  BY <1>2, <1>3

(* The channel is reset while no start is queued.                          *)
LEMMA CarefulReset ==
  ASSUME Inv, OneTask, ResetChannel
  PROVE  OneTask'
<1>1. /\ functors # <<>> /\ functors' = Tail(functors) /\ Head(functors) = "reset"
      /\ channel' = "none" /\ UNCHANGED <<state, timers, active>>
  BY DEF ResetChannel, TakeFunctor
<1>2. Has(functors, "reset") /\ (Has(functors', "start") => Has(functors, "start"))
  BY <1>1, TakenFunctor DEF Inv
<1>3. ~Has(functors, "start")
  <2>1. ~Has(<<"start">>, "reset")
    BY DEF Has
  <2> QED
    BY <1>2, <2>1 DEF OneTask
<1> QED
  BY <1>1, <1>2, <1>3 DEF OneTask, Has

(* A start from elsewhere is queued at rest; stop only clears the flag.    *)
LEMMA CarefulUser ==
  ASSUME Inv, Careful, ~careless', StartElsewhere \/ QueueStart \/ Stop
  PROVE  stopped' = "no" /\ OneTask'
<1>1. /\ stopped = "no" /\ stopped' = "no"
      /\ UNCHANGED <<state, channel, timers, active>>
  BY DEF StartElsewhere, QueueStart, Stop, socketVars, loopVars
<1>2. ~careless
  BY DEF StartElsewhere, QueueStart, Stop, Counted, userVars
<1>3. CASE UNCHANGED functors
  BY <1>1, <1>2, <1>3 DEF Careful, OneTask, Has
<1>4. CASE QueueStart
  <2>1. Idle /\ state = "kDisconnect" /\ functors' = Append(functors, "start")
    BY <1>4 DEF QueueStart
  <2>2. functors' = <<"start">> /\ channel = "none"
    BY <2>1 DEF Idle
  <2>3. ~timers.named
    BY <2>1 DEF Idle, Count, Inv, TypeOK
  <2> QED
    BY <1>1, <1>2, <2>1, <2>2, <2>3 DEF Careful, OneTask, Has
<1> QED
  BY <1>3, <1>4 DEF StartElsewhere, Stop, loopVars

(* The destructor cancels the only timer there is.                         *)
LEMMA CarefulDestroy ==
  ASSUME Inv, Careful, Destroy, ~careless'
  PROVE  stopped' = "destroyed" /\ timers'.strays = 0
<1>1. OneTask
  BY DEF Destroy, userVars, Careful
<1> QED
  BY <1>1 DEF Destroy, OneTask, Inv, TypeOK

(* Every step keeps the careful caller's invariant.                        *)
LEMMA CarefulStep == CarefulInv /\ [Next]_vars => CarefulInv'
<1> SUFFICES ASSUME CarefulInv, [Next]_vars PROVE CarefulInv'
  OBVIOUS
<1>1. Inv /\ Careful /\ Inv'
  BY InvStep DEF CarefulInv
<1> SUFFICES ASSUME ~careless'
             PROVE  \/ stopped' = "no" /\ OneTask'
                    \/ stopped' \in {"no", "destroyed"} /\ stopped' # "no" /\ timers'.strays = 0
  BY <1>1 DEF CarefulInv, Careful, CarefulUseIsSafe, OneTask
<1>2. CASE \E report \in Reports : Poll(report)
  <2>1. stopped = "no" /\ stopped' = "no" /\ ~careless
    BY <1>2 DEF Poll, userVars
  <2> QED
    BY <1>1, <1>2, <2>1, CarefulPoll DEF Careful
<1>3. CASE UserEvent \/ UserReturns \/ HandleDone \/ PendingDone \/ ResetChannel
  <2>1. stopped = "no" /\ stopped' = "no" /\ ~careless
    BY <1>3 DEF UserEvent, UserReturns, HandleDone, PendingDone, ResetChannel, Take,
                TakeFunctor, userVars
  <2> QED
    BY <1>1, <1>3, <2>1, CarefulLoop, CarefulReset DEF Careful
<1>4. CASE LoopStep /\ ~(UserEvent \/ UserReturns \/ HandleDone \/ PendingDone \/ ResetChannel)
  BY <1>1, <1>4, CarefulFire, CarefulRun, CarefulSocket
     DEF LoopStep, Attempt, Established, SelfConnects
<1>5. CASE UserCall
  BY <1>1, <1>5, CarefulUser, CarefulDestroy, CarefulStart DEF UserCall
<1>6. CASE UNCHANGED vars
  <2>1. /\ ~careless /\ UNCHANGED <<stopped, timers>>
        /\ stopped = "no" => OneTask'
    BY <1>1, <1>6 DEF vars, Careful, OneTask, Has
  <2>2. stopped \in {"no", "destroyed"} /\ timers.strays = 0
    BY <2>1 DEF CarefulInv, CarefulUseIsSafe
  <2> QED
    BY <2>1, <2>2
<1> QED
  BY <1>2, <1>3, <1>4, <1>5, <1>6 DEF Next

(* A caller who starts the connector only at rest never meets one of its   *)
(* asserts, and its destructor leaves no timer behind.                     *)
THEOREM CarefulIsSafe == Spec => []CarefulUseIsSafe
<1>1. Init => CarefulInv
  <2>1. Init => Inv
    BY InvInit
  <2> QED
    BY <2>1 DEF Init, CarefulInv, CarefulUseIsSafe, Careful, OneTask, Has, ErrorFirst, OneReset, OneTimer
<1>2. CarefulInv => CarefulUseIsSafe
  BY DEF CarefulInv
<1> QED
  BY <1>1, <1>2, CarefulStep, PTL DEF Spec

==============================================================================
