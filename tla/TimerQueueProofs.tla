--------------------------- MODULE TimerQueueProofs ---------------------------
(***************************************************************************)
(* The lists of timers, the timerfd and the cancels, for any timers,       *)
(* threads and delays.                                                     *)
(***************************************************************************)
EXTENDS TimerQueue, FiniteSetTheorems, FunctionTheorems, TLAPS

In(es, t) == \E e \in es : e.timer = t
(* What handleRead still holds of its vector: in reset, what is left.      *)
Ahead == IF pc = "reset" THEN left ELSE expired
AddAsked(t) == \E i \in DOMAIN pending : pending[i] = [op |-> "add", timer |-> t]

Request == [op : {"add", "cancel"}, timer : Timers]

(* The part of TypeOK that is needed.                                      *)
TypesOK ==
  /\ created \in Nat
  /\ interval \in [Timers -> Times \cup {None}]
  /\ expiration \in [Timers -> Times]
  /\ timers \subseteq Entries /\ expired \subseteq Entries /\ left \subseteq expired
  /\ activeTimers \subseteq [timer : Timers, seq : Nat]
  /\ cancelingTimers \subseteq [timer : Timers, seq : Nat]
  /\ pc \in {"loop", "erase", "batch", "callback", "reset"}
  /\ calling \in BOOLEAN /\ (calling <=> pc \in {"batch", "callback"})
  /\ restarting \in Timers \cup {None}
  /\ readAge \in Times
  /\ fd \in Times \cup {None}
  /\ adding \in [Callers -> Timers \cup {None}]
  /\ pending \in Seq(Request)
  /\ ids \in [Timers -> Nat \cup {None}]
  /\ cancelled \subseteq Timers
  /\ aborted \in {"no", "expired", "other"}

(* The list has each timer under its expiration, the index has each once;  *)
(* inside getExpired the index also has what is left of the vector.        *)
ListsOK ==
  /\ \A e \in timers : e.when = expiration[e.timer]
  /\ \A k, m \in activeTimers : k.timer = m.timer => k = m
  /\ \A t \in Timers :
       In(activeTimers, t) <=> In(timers, t) \/ (pc = "erase" /\ In(left, t))
  /\ \A e, f \in expired : e.timer = f.timer => e = f

(* A timer is in one place: in the lists, in the vector of handleRead,     *)
(* about to be inserted by reset, in a functor that will add it, in        *)
(* addTimer, or not created yet.                                           *)
PlacesOK ==
  \A t \in Timers :
    /\ In(Ahead, t) \/ restarting = t => ~In(timers, t)
    /\ In(expired, t) => adding[Owner] # t
    /\ AddAsked(t) => ~In(timers, t) /\ ~In(expired, t) /\ adding[Owner] # t
    /\ interval[t] = None =>
         /\ ~In(timers, t) /\ ~In(expired, t) /\ ~AddAsked(t)
         /\ \A c \in Callers : adding[c] # t

FunctorsOK ==
  \A i, j \in DOMAIN pending :
    pending[i].op = "add" /\ pending[j] = pending[i] => i = j

OwnerOK ==
  /\ pc = "loop" => expired = {}
  /\ pc \notin {"loop", "callback"} => adding[Owner] = None
  /\ restarting # None =>
       pc = "reset" /\ In(expired, restarting) /\ ~In(left, restarting)

ArmedOK ==
  aborted = "no" /\ pc = "loop" /\ timers # {} =>
    /\ fd # None
    /\ \A e \in timers : fd <= Later(e.when, 1)

(* A TimerId is out only after addTimer returned, and its number is not    *)
(* above the number of timers.                                             *)
IdsOK ==
  /\ \A c, d \in Callers : adding[c] # None /\ adding[c] = adding[d] => c = d
  /\ \A t \in Timers : ids[t] # None =>
       /\ ids[t] <= created /\ interval[t] # None
       /\ \A c \in Callers : adding[c] # t
  /\ \A k \in activeTimers : k.seq <= created
  /\ \A i \in DOMAIN pending : pending[i].op = "cancel" => ids[pending[i].timer] # None

(* A cancelled timer is not in the index under the number its id has, and  *)
(* will not be put there by reset: it was erased from the index under a    *)
(* later number, or is noted; and when it is to restart, the number has    *)
(* moved on.                                                               *)
CancelledOK ==
  /\ \A t \in cancelled : ids[t] # None /\ ~AddAsked(t)
  /\ \A k \in activeTimers : k.timer \in cancelled => k.seq # ids[k.timer]
  /\ pc = "erase" =>
       \A e \in expired \ left : e.timer \in cancelled => ids[e.timer] < created
  /\ pc # "erase" =>
       \A e \in Ahead : e.timer \in cancelled =>
         \/ ids[e.timer] < created
         \/ [timer |-> e.timer, seq |-> ids[e.timer]] \in cancelingTimers
  /\ restarting \in cancelled => ids[restarting] < created

QueueInv ==
  /\ TypesOK
  /\ aborted # "other"
  /\ ListsOK /\ PlacesOK /\ FunctorsOK /\ OwnerOK /\ ArmedOK /\ IdsOK /\ CancelledOK

------------------------------------------------------------------------------
(* A set of records with a timer each is as large as the set of timers.    *)
LEMMA Counted ==
  ASSUME NEW S, \A x, y \in S : x.timer = y.timer => x = y,
         IsFiniteSet({x.timer : x \in S})
  PROVE  Cardinality(S) = Cardinality({x.timer : x \in S})
<1> DEFINE T == {x.timer : x \in S}
           f == [x \in S |-> x.timer]
<1>1. f \in Bijection(S, T)
  BY DEF Bijection, Injection, Surjection, IsInjective
<1>2. ExistsBijection(T, S)
  BY <1>1, Fun_ExistsBijSymmetric DEF ExistsBijection
<1> QED
  BY <1>2, FS_Bijection

(* timers_.size() == activeTimers_.size(), as cancelInLoop asserts.        *)
LEMMA SameSize ==
  ASSUME TypesOK, ListsOK, pc # "erase"
  PROVE  /\ {e.timer : e \in timers} = {k.timer : k \in activeTimers}
         /\ Cardinality(timers) = Cardinality(activeTimers)
<1> DEFINE T == {e.timer : e \in timers}
           K == {k.timer : k \in activeTimers}
<1>1. T = K /\ T \subseteq Timers
  BY DEF TypesOK, ListsOK, In, Entries
<1>2. IsFiniteSet(T)
  BY <1>1, TimersAssumption, FS_Subset
<1>3. \A e, f \in timers : e.timer = f.timer => e = f
  BY DEF TypesOK, ListsOK, Entries
<1>4. Cardinality(timers) = Cardinality(T)
  BY <1>2, <1>3, Counted
<1>5. \A k, m \in activeTimers : k.timer = m.timer => k = m
  BY DEF ListsOK
<1>6. Cardinality(activeTimers) = Cardinality(K)
  BY <1>1, <1>2, <1>5, Counted
<1> QED
  BY <1>1, <1>4, <1>6

(* A timer is not armed for never, nor for now.                            *)
LEMMA DelayIs ==
  ASSUME NEW w \in Times
  PROVE  /\ Later(w, 1) \in Times /\ Later(w, 1) # None /\ Later(w, 1) >= w
         /\ ResetTimerfd(w) = Later(w, 1)
BY NoneAssumption, DelayAssumption
   DEF Times, Later, ResetTimerfd, Arm, HowMuchTimeFromNow

(* A nonempty set of entries has an earliest.                              *)
LEMMA EarliestIs ==
  ASSUME NEW es \in SUBSET Entries, es # {}
  PROVE  \E e \in es : e \in Earliest(es)
<1> DEFINE W == {e.when : e \in es}
<1>1. W \subseteq Nat /\ W # {}
  BY DEF Entries, Times
<1>2. \E w \in W : \A v \in W : ~(<<v, w>> \in OpToRel(<, Nat))
  <2> HIDE DEF W
  <2> QED
    BY <1>1, NatLessThanWellFounded, WFMin
<1>3. \A v, w \in Nat : v < w => <<v, w>> \in OpToRel(<, Nat)
  BY DEF OpToRel
<1>4. \E w \in W : \A v \in W : w <= v
  <2> HIDE DEF W
  <2>1. PICK w \in W : \A v \in W : ~(<<v, w>> \in OpToRel(<, Nat))
    BY <1>2
  <2>2. \A v \in W : v \in Nat /\ w \in Nat /\ ~(v < w)
    BY <1>1, <1>3, <2>1
  <2> QED
    BY <2>2
<1> QED
  BY <1>4 DEF Earliest

------------------------------------------------------------------------------
(* addTimerInloop of a timer that is in no list: neither emplace finds it  *)
(* there, and the timerfd is set when it is the earliest.                  *)
LEMMA AddStep ==
  ASSUME QueueInv, NEW t \in Timers, ~In(timers, t), aborted = "no", pc # "erase",
         AddTimerInloop(t)
  PROVE  /\ timers' = timers \cup {[when |-> expiration[t], timer |-> t]}
         /\ activeTimers' = activeTimers \cup {[timer |-> t, seq |-> created]}
         /\ aborted' = aborted
         /\ fd' \in Times \cup {None}
         /\ pc' = pc => ArmedOK'
<1> DEFINE e == [when |-> expiration[t], timer |-> t]
           k == [timer |-> t, seq |-> created]
<1>1. e \in Entries /\ e.timer = t /\ k.timer = t
  BY DEF QueueInv, TypesOK, Entries
<1>2. ~Duplicate(e)
  <2>1. e \notin timers
    BY <1>1 DEF In
  <2>2. k \notin activeTimers
    BY <1>1 DEF In, QueueInv, ListsOK
  <2> QED
    BY <1>1, <2>1, <2>2 DEF Duplicate, Key, numCreated
<1>3. /\ Insert(e)
      /\ fd' = IF BecomesEarliest(e) THEN ResetTimerfd(e.when) ELSE fd
      /\ aborted' = aborted
  BY <1>2 DEF AddTimerInloop
<1>4. /\ timers' = timers \cup {e}
      /\ activeTimers' = activeTimers \cup {k}
  BY <1>1, <1>3 DEF Insert, Key, numCreated
<1>5. /\ ResetTimerfd(e.when) = Later(e.when, 1)
      /\ Later(e.when, 1) \in Times /\ Later(e.when, 1) # None
  BY <1>1, DelayIs DEF Entries
<1>6. fd' \in Times \cup {None}
  BY <1>3, <1>5 DEF QueueInv, TypesOK
<1>7. e.when \in Nat
  BY <1>1 DEF Entries, Times
<1> HIDE DEF e, k
<1>8. ASSUME pc = "loop"
      PROVE  fd' # None /\ \A o \in timers \cup {e} : fd' <= Later(o.when, 1)
  <2>1. \A o \in timers \cup {e} : o.when \in Nat
    BY <1>7 DEF QueueInv, TypesOK, Entries, Times
  <2>2. CASE BecomesEarliest(e)
    <3>1. fd' = Later(e.when, 1) /\ fd' # None
      BY <1>3, <1>5, <2>2
    <3>2. \A o \in timers \cup {e} : e.when <= o.when
      BY <2>1, <2>2, <1>7 DEF BecomesEarliest
    <3>3. \A o \in timers \cup {e} : Later(e.when, 1) <= Later(o.when, 1)
      BY <1>7, <2>1, <3>2 DEF Later
    <3> QED
      BY <3>1, <3>3
  <2>3. CASE ~BecomesEarliest(e)
    <3>1. PICK o \in timers : o.when <= e.when
      BY <1>7, <2>1, <2>3 DEF BecomesEarliest
    <3>2. /\ fd' = fd /\ fd # None /\ fd \in Nat
          /\ \A x \in timers : fd <= Later(x.when, 1)
      BY <1>3, <1>8, <2>3, <3>1 DEF QueueInv, ArmedOK, TypesOK, Times
    <3>3. fd <= Later(o.when, 1) /\ o.when \in Nat
      BY <2>1, <3>1, <3>2
    <3>4. fd <= Later(e.when, 1)
      BY <1>7, <3>1, <3>2, <3>3 DEF Later
    <3> QED
      BY <3>2, <3>4
  <2> QED
    BY <2>2, <2>3
<1>9. pc' = pc => ArmedOK'
  BY <1>4, <1>8 DEF ArmedOK
<1> QED
  BY <1>3, <1>4, <1>6, <1>9 DEF e, k

(* What that is to the lists, when the timer was not cancelled under the   *)
(* number there is now.                                                    *)
LEMMA AddedKeeps ==
  ASSUME QueueInv, NEW t \in Timers, ~In(timers, t), pc # "erase",
         t \in cancelled => ids[t] # created,
         timers' = timers \cup {[when |-> expiration[t], timer |-> t]},
         activeTimers' = activeTimers \cup {[timer |-> t, seq |-> created]},
         UNCHANGED <<created, interval, expiration, expired, pc, cancelingTimers, ids,
                     cancelled>>
  PROVE  /\ timers' \subseteq Entries /\ activeTimers' \subseteq [timer : Timers, seq : Nat]
         /\ ListsOK'
         /\ \A s : In(timers', s) <=> In(timers, s) \/ s = t
         /\ \A k \in activeTimers' : k.seq <= created
         /\ \A k \in activeTimers' : k.timer \in cancelled => k.seq # ids[k.timer]
<1> DEFINE e == [when |-> expiration[t], timer |-> t]
           k == [timer |-> t, seq |-> created]
<1>1. /\ e \in Entries /\ e.timer = t /\ e.when = expiration[t]
      /\ k \in [timer : Timers, seq : Nat] /\ k.timer = t /\ k.seq = created
      /\ created \in Nat
  BY DEF QueueInv, TypesOK, Entries
<1> HIDE DEF e, k
<1>2. timers' = timers \cup {e} /\ activeTimers' = activeTimers \cup {k}
  BY DEF e, k
<1>3. \A s : In(timers', s) <=> In(timers, s) \/ s = t
  BY <1>1, <1>2 DEF In
<1>4. \A s : In(activeTimers', s) <=> In(activeTimers, s) \/ s = t
  BY <1>1, <1>2 DEF In
<1>5. ~In(activeTimers, t)
  BY DEF QueueInv, ListsOK
<1>6. ListsOK'
  <2>1. \A o \in timers' : o.when = expiration'[o.timer]
    BY <1>1, <1>2 DEF QueueInv, ListsOK
  <2>2. \A x, y \in activeTimers' : x.timer = y.timer => x = y
    BY <1>1, <1>2, <1>5 DEF QueueInv, ListsOK, In
  <2>3. \A s \in Timers : In(timers', s) <=> In(activeTimers', s)
    BY <1>3, <1>4 DEF QueueInv, ListsOK
  <2>4. pc' # "erase" /\ \A x, y \in expired' : x.timer = y.timer => x = y
    BY DEF ListsOK, QueueInv
  <2> QED
    BY <2>1, <2>2, <2>3, <2>4 DEF ListsOK
<1>7. \A x \in activeTimers' : x.seq <= created
  BY <1>1, <1>2 DEF QueueInv, IdsOK
<1>8. \A x \in activeTimers' : x.timer \in cancelled => x.seq # ids[x.timer]
  BY <1>1, <1>2 DEF QueueInv, CancelledOK
<1> QED
  BY <1>1, <1>2, <1>3, <1>6, <1>7, <1>8 DEF QueueInv, TypesOK

(* cancelInLoop: the index and the list lose the same timer, or none; then *)
(* reset will not find it, or the index has it under another number.       *)
LEMMA CancelStep ==
  ASSUME QueueInv, NEW t \in Timers, ids[t] # None, aborted = "no",
         pc \in {"loop", "callback"},
         CancelInLoop([timer |-> t, seq |-> ids[t]]),
         UNCHANGED <<created, interval, expiration, batchVars, fd, ids>>,
         \A s : AddAsked(s)' => AddAsked(s)
  PROVE  /\ aborted' = aborted
         /\ timers' \subseteq timers /\ activeTimers' \subseteq activeTimers
         /\ cancelingTimers' \subseteq [timer : Timers, seq : Nat]
         /\ cancelled' \subseteq Timers
         /\ ListsOK' /\ ArmedOK' /\ CancelledOK'
<1> DEFINE e == [when |-> expiration[t], timer |-> t]
           k == [timer |-> t, seq |-> ids[t]]
           held == {x.timer : x \in timers \cup expired}
<1>1. /\ e.timer = t /\ k.timer = t /\ k.seq = ids[t] /\ ids[t] \in Nat
      /\ k \in [timer : Timers, seq : Nat]
  BY DEF QueueInv, TypesOK
<1>0. /\ restarting = None /\ Ahead = expired /\ pc # "erase"
      /\ UNCHANGED <<calling, expired, left, pc, restarting>>
  BY DEF QueueInv, OwnerOK, Ahead, batchVars
<1>2. Cardinality(timers) = Cardinality(activeTimers)
  BY <1>0, SameSize DEF QueueInv
<1>3. \A o \in timers : o.timer = t => o = e
  BY DEF QueueInv, TypesOK, ListsOK, Entries
<1>4. /\ cancelled' = cancelled \cup ({t} \cap held)
      /\ IF Cardinality(timers) # Cardinality(activeTimers) \/ (k \in activeTimers /\ e \notin timers)
         THEN aborted' = "other" /\ UNCHANGED <<timers, activeTimers, cancelingTimers>>
         ELSE /\ aborted' = aborted
              /\ timers' = IF k \in activeTimers THEN timers \ {e} ELSE timers
              /\ activeTimers' = activeTimers \ {k}
              /\ cancelingTimers' = IF k \notin activeTimers /\ calling
                                    THEN cancelingTimers \cup {k}
                                    ELSE cancelingTimers
  BY DEF CancelInLoop
<1> HIDE DEF e, k
<1>5. k \in activeTimers => e \in timers
  BY <1>0, <1>1, <1>3 DEF QueueInv, ListsOK, In
<1>6. /\ aborted' = aborted
      /\ timers' = IF k \in activeTimers THEN timers \ {e} ELSE timers
      /\ activeTimers' = activeTimers \ {k}
      /\ cancelingTimers' = IF k \notin activeTimers /\ calling
                            THEN cancelingTimers \cup {k}
                            ELSE cancelingTimers
  BY <1>2, <1>4, <1>5
<1>7. timers' \subseteq timers /\ activeTimers' \subseteq activeTimers
  BY <1>6
<1>8. cancelingTimers' \subseteq [timer : Timers, seq : Nat] /\ cancelled' \subseteq Timers
  BY <1>1, <1>4, <1>6 DEF QueueInv, TypesOK
<1>9. ListsOK'
  <2>1. \A s \in Timers : In(timers', s) <=> In(activeTimers', s)
    <3>1. CASE k \notin activeTimers
      <4>1. timers' = timers /\ activeTimers' = activeTimers
        BY <1>6, <3>1
      <4> QED
        BY <1>0, <4>1 DEF QueueInv, ListsOK
    <3>2. CASE k \in activeTimers
      <4>1. \A o \in timers : o # e => o.timer # t
        BY <1>3
      <4>2. \A o \in activeTimers : o # k => o.timer # t
        BY <1>1, <3>2 DEF QueueInv, ListsOK
      <4>3. \A s : In(timers', s) <=> In(timers, s) /\ s # t
        BY <1>1, <1>6, <3>2, <4>1 DEF In
      <4>4. \A s : In(activeTimers', s) <=> In(activeTimers, s) /\ s # t
        BY <1>1, <1>6, <3>2, <4>2 DEF In
      <4> QED
        BY <1>0, <4>3, <4>4 DEF QueueInv, ListsOK
    <3> QED
      BY <3>1, <3>2
  <2> QED
    BY <1>0, <1>7, <2>1 DEF QueueInv, ListsOK
<1>10. ArmedOK'
  BY <1>0, <1>6, <1>7 DEF QueueInv, ArmedOK
<1>11. CancelledOK'
  <2>1. t \in held => In(timers, t) \/ In(expired, t)
    BY DEF In
  <2>2. ASSUME NEW s \in cancelled' PROVE ids'[s] # None /\ ~AddAsked(s)'
    <3>1. s \in cancelled \/ (s = t /\ t \in held)
      BY <1>4, <2>2
    <3>2. ids'[s] # None
      BY <3>1 DEF QueueInv, CancelledOK
    <3>3. ~AddAsked(s)
      BY <2>1, <3>1 DEF QueueInv, CancelledOK, PlacesOK
    <3> QED
      BY <3>2, <3>3
  <2>3. ASSUME NEW x \in activeTimers', x.timer \in cancelled' PROVE x.seq # ids'[x.timer]
    <3>1. CASE x.timer \in cancelled
      BY <1>7, <2>3, <3>1 DEF QueueInv, CancelledOK
    <3>2. CASE x.timer = t
      <4>1. x \in [timer : Timers, seq : Nat] /\ x # k
        BY <1>6, <2>3 DEF QueueInv, TypesOK
      <4> QED
        BY <1>1, <3>2, <4>1 DEF k
    <3> QED
      BY <1>4, <2>3, <3>1, <3>2
  <2>4. ASSUME NEW x \in expired, x.timer \in cancelled'
        PROVE  \/ ids[x.timer] < created
               \/ [timer |-> x.timer, seq |-> ids[x.timer]] \in cancelingTimers'
    <3>1. CASE x.timer \in cancelled
      BY <1>0, <1>6, <3>1 DEF QueueInv, CancelledOK
    <3>2. CASE x.timer = t
      <4>1. calling /\ ~In(timers, t)
        BY <1>0, <3>2 DEF QueueInv, OwnerOK, TypesOK, PlacesOK, In
      <4>2. k \notin activeTimers
        BY <1>0, <1>1, <4>1 DEF QueueInv, ListsOK, In
      <4> QED
        BY <1>6, <3>2, <4>1, <4>2 DEF k
    <3> QED
      BY <1>4, <2>4, <3>1, <3>2
  <2>5. Ahead' = expired /\ restarting' \notin cancelled' /\ pc' # "erase"
    BY <1>0, <1>8, NoneAssumption DEF Ahead
  <2> QED
    BY <1>0, <2>2, <2>3, <2>4, <2>5 DEF CancelledOK
<1> QED
  BY <1>6, <1>7, <1>8, <1>9, <1>10, <1>11

------------------------------------------------------------------------------
(* queueInloop, from another thread.                                       *)
LEMMA Queued ==
  ASSUME pending \in Seq(Request), FunctorsOK, NEW op \in {"add", "cancel"},
         NEW t \in Timers, pending' = Append(pending, [op |-> op, timer |-> t])
  PROVE  /\ pending' \in Seq(Request)
         /\ \A s : AddAsked(s)' <=> AddAsked(s) \/ (op = "add" /\ s = t)
         /\ (op = "add" => ~AddAsked(t)) => FunctorsOK'
         /\ \A i \in DOMAIN pending' :
              \/ op = "cancel" /\ pending'[i].timer = t
              \/ pending'[i].op = "add"
              \/ \E j \in DOMAIN pending : pending[j] = pending'[i]
<1> DEFINE r == [op |-> op, timer |-> t]
           n == Len(pending)
<1>1. r \in Request /\ r.op = op /\ r.timer = t
  BY DEF Request
<1>2. /\ n \in Nat /\ DOMAIN pending = 1 .. n /\ DOMAIN pending' = 1 .. n + 1
      /\ pending'[n + 1] = r /\ \A i \in 1 .. n : pending'[i] = pending[i]
      /\ pending' \in Seq(Request)
  BY <1>1
<1>3. \A i \in 1 .. n : pending[i] \in Request
  BY <1>2
<1>4. \A s : r = [op |-> "add", timer |-> s] <=> op = "add" /\ s = t
  OBVIOUS
<1> HIDE DEF r, n
<1>5. \A i : i \in 1 .. n + 1 <=> i \in 1 .. n \/ i = n + 1
  BY <1>2
<1>6. \A s : AddAsked(s)' <=> AddAsked(s) \/ (op = "add" /\ s = t)
  BY <1>2, <1>4, <1>5 DEF AddAsked
<1>7. ASSUME op = "add" => ~AddAsked(t) PROVE FunctorsOK'
  <2>1. \A i \in 1 .. n : pending[i] = r => ~(r.op = "add")
    BY <1>1, <1>2, <1>4, <1>7 DEF AddAsked
  <2> QED
    BY <1>2, <1>5, <2>1 DEF FunctorsOK
<1> QED
  BY <1>1, <1>2, <1>5, <1>6, <1>7

(* doPendingFunctors, in the loop.                                         *)
LEMMA Taken ==
  ASSUME pending \in Seq(Request), FunctorsOK, pending # <<>>, pending' = Tail(pending)
  PROVE  /\ Head(pending) \in Request /\ pending' \in Seq(Request)
         /\ \A s : AddAsked(s)' => AddAsked(s)
         /\ \A t : Head(pending).op = "add" /\ Head(pending).timer = t =>
              AddAsked(t) /\ ~AddAsked(t)'
         /\ FunctorsOK'
         /\ 1 \in DOMAIN pending /\ pending[1] = Head(pending)
         /\ \A i \in DOMAIN pending' : \E j \in DOMAIN pending : pending[j] = pending'[i]
<1> DEFINE n == Len(pending)
           h == Head(pending)
<1>1. /\ n \in Nat /\ n >= 1 /\ DOMAIN pending = 1 .. n /\ DOMAIN pending' = 1 .. n - 1
      /\ pending[1] = h /\ h \in Request
      /\ \A i \in 1 .. n - 1 : pending'[i] = pending[i + 1]
      /\ pending' \in Seq(Request)
  OBVIOUS
<1> HIDE DEF n, h
<1>2. \A i \in 1 .. n - 1 : i + 1 \in 1 .. n /\ i + 1 # 1
  BY <1>1
<1>3. 1 \in 1 .. n
  BY <1>1
<1>4. \A s : AddAsked(s)' => AddAsked(s)
  BY <1>1, <1>2 DEF AddAsked
<1>5. FunctorsOK'
  <2>1. \A i, j \in 1 .. n - 1 : i + 1 = j + 1 => i = j
    BY <1>1
  <2> QED
    BY <1>1, <1>2, <2>1 DEF FunctorsOK
<1>6. ASSUME NEW t, h.op = "add", h.timer = t PROVE AddAsked(t) /\ ~AddAsked(t)'
  <2>1. h = [op |-> "add", timer |-> t]
    BY <1>1, <1>6 DEF Request
  <2>2. AddAsked(t)
    BY <1>1, <1>3, <2>1 DEF AddAsked
  <2>3. \A i \in 1 .. n - 1 : pending'[i] # h
    BY <1>1, <1>2, <1>3, <1>6 DEF FunctorsOK
  <2> QED
    BY <1>1, <2>1, <2>2, <2>3 DEF AddAsked
<1> QED
  BY <1>1, <1>2, <1>3, <1>4, <1>5, <1>6 DEF h

------------------------------------------------------------------------------
(* The run of one expired timer.                                           *)
LEMMA RunStep ==
  ASSUME QueueInv, (\E e \in left : RunTimer(e)) \/ CallbackReturns
  PROVE  QueueInv'
<1>1. /\ UNCHANGED <<created, interval, expiration, timers, activeTimers, cancelingTimers,
                     calling, expired, restarting, readAge, fd, adding, pending, ids,
                     cancelled, aborted>>
      /\ left' \subseteq left
      /\ pc \in {"batch", "callback"} /\ pc' \in {"batch", "callback"}
      /\ pc' = "batch" => adding[Owner] = None
  BY DEF RunTimer, CallbackReturns
<1>2. TypesOK' /\ OwnerOK'
  BY <1>1 DEF QueueInv, TypesOK, OwnerOK, Callers, Request, In
<1>3. ListsOK' /\ PlacesOK' /\ FunctorsOK'
  BY <1>1 DEF QueueInv, ListsOK, PlacesOK, FunctorsOK, AddAsked, In, Ahead
<1>4. ArmedOK' /\ IdsOK' /\ CancelledOK'
  BY <1>1 DEF QueueInv, ArmedOK, IdsOK, CancelledOK, AddAsked, Callers, Ahead
<1> QED
  BY <1>1, <1>2, <1>3, <1>4 DEF QueueInv

(* A new timer is nowhere yet.                                             *)
LEMMA NewStep ==
  ASSUME QueueInv, NEW c \in Callers, NEW t \in Timers, RunAt(c, t) \/ RunEvery(c, t)
  PROVE  QueueInv'
<1>1. PICK when \in Times, every \in Times : AddTimer(c, t, when, every)
  BY DelayAssumption DEF RunAt, RunEvery, Times
<1>2. /\ interval[t] = None
      /\ created' = created + 1
      /\ interval' = [interval EXCEPT ![t] = every]
      /\ expiration' = [expiration EXCEPT ![t] = when]
      /\ adding' = [adding EXCEPT ![c] = t]
      /\ aborted = "no" /\ adding[c] = None /\ (c = Owner => pc \in {"loop", "callback"})
      /\ UNCHANGED <<timers, activeTimers, cancelingTimers, calling, expired, left,
                     pc, restarting, readAge, fd, ids, cancelled, aborted>>
  BY <1>1 DEF AddTimer, CreateTimer, Fresh, CanCall, batchVars
<1>3. every # None /\ every \in Times /\ when \in Times /\ t # None
  BY NoneAssumption DEF Times
<1>4. /\ ~In(timers, t) /\ ~In(expired, t) /\ ~AddAsked(t) /\ ids[t] = None
      /\ \A d \in Callers : adding[d] # t
  BY <1>2 DEF QueueInv, PlacesOK, IdsOK
<1>5. /\ pending' \in Seq(Request) /\ FunctorsOK'
      /\ \A s : AddAsked(s)' => AddAsked(s) \/ (s = t /\ c # Owner)
      /\ \A i \in DOMAIN pending' :
           pending'[i].op = "add" \/ \E j \in DOMAIN pending : pending[j] = pending'[i]
  <2>1. CASE c = Owner
    BY <1>1, <2>1 DEF AddTimer, QueueInv, TypesOK, FunctorsOK, AddAsked
  <2>2. CASE c # Owner
    <3>1. pending' = Append(pending, [op |-> "add", timer |-> t])
      BY <1>1, <2>2 DEF AddTimer
    <3> QED
      BY <1>4, <2>2, <3>1, Queued DEF QueueInv, TypesOK
  <2> QED
    BY <2>1, <2>2
<1>6. /\ \A d \in Callers : adding'[d] = IF d = c THEN t ELSE adding[d]
      /\ \A s \in Timers : interval'[s] = IF s = t THEN every ELSE interval[s]
      /\ \A s \in Timers : expiration'[s] = IF s = t THEN when ELSE expiration[s]
      /\ Owner \in Callers
  BY <1>2 DEF QueueInv, TypesOK, Callers
<1>7. TypesOK'
  BY <1>2, <1>3, <1>5 DEF QueueInv, TypesOK, Callers, Request
<1>8. ListsOK'
  <2>1. \A e \in timers : e.timer \in Timers /\ e.timer # t
    BY <1>4 DEF In, QueueInv, TypesOK, Entries
  <2> QED
    BY <1>2, <1>6, <2>1 DEF QueueInv, ListsOK, In
<1>9. PlacesOK'
  <2> SUFFICES ASSUME NEW s \in Timers
               PROVE  /\ In(Ahead, s) \/ restarting = s => ~In(timers, s)
                      /\ In(expired, s) => adding'[Owner] # s
                      /\ AddAsked(s)' => ~In(timers, s) /\ ~In(expired, s) /\ adding'[Owner] # s
                      /\ interval'[s] = None =>
                           /\ ~In(timers, s) /\ ~In(expired, s) /\ ~AddAsked(s)'
                           /\ \A d \in Callers : adding'[d] # s
    BY <1>2 DEF PlacesOK, In, Callers, Ahead
  <2>1. CASE s = t
    BY <1>2, <1>3, <1>4, <1>5, <1>6, <2>1
  <2>2. CASE s # t
    BY <1>5, <1>6, <2>2 DEF QueueInv, PlacesOK
  <2> QED
    BY <2>1, <2>2
<1>10. OwnerOK'
  BY <1>2, <1>6 DEF QueueInv, OwnerOK, In
<1>11. ArmedOK'
  BY <1>2 DEF QueueInv, ArmedOK
<1>12. IdsOK'
  <2>1. \A d, f \in Callers : adding'[d] # None /\ adding'[d] = adding'[f] => d = f
    BY <1>4, <1>6 DEF QueueInv, IdsOK
  <2>2. \A s \in Timers : ids[s] # None =>
           ids[s] <= created' /\ interval'[s] # None /\ \A d \in Callers : adding'[d] # s
    <3>1. \A s \in Timers : ids[s] # None => ids[s] \in Nat /\ ids[s] <= created /\ s # t
      BY <1>4 DEF QueueInv, TypesOK, IdsOK
    <3> QED
      BY <1>2, <1>6, <3>1 DEF QueueInv, TypesOK, IdsOK
  <2>3. \A k \in activeTimers : k.seq <= created'
    BY <1>2 DEF QueueInv, TypesOK, IdsOK
  <2>4. \A i \in DOMAIN pending' : pending'[i].op = "cancel" => ids[pending'[i].timer] # None
    <3>1. \A i \in DOMAIN pending' : pending'[i].op = "cancel" =>
            \E j \in DOMAIN pending : pending[j] = pending'[i]
      BY <1>5
    <3> QED
      BY <3>1 DEF QueueInv, IdsOK
  <2> QED
    BY <1>2, <2>1, <2>2, <2>3, <2>4 DEF IdsOK, Callers
<1>13. CancelledOK'
  <2>1. \A s \in cancelled : s # t /\ ids[s] # None /\ ~AddAsked(s)'
    BY <1>4, <1>5 DEF QueueInv, CancelledOK
  <2>2. \A s \in cancelled : ids[s] < created => ids[s] < created'
    <3>1. \A s \in cancelled : ids[s] \in Nat
      BY DEF QueueInv, CancelledOK, TypesOK
    <3> QED
      BY <1>2, <3>1 DEF QueueInv, TypesOK
  <2> QED
    BY <1>2, <2>1, <2>2 DEF QueueInv, CancelledOK, Ahead
<1> QED
  BY <1>2, <1>5, <1>7, <1>8, <1>9, <1>10, <1>11, <1>12, <1>13 DEF QueueInv

(* The TimerId takes the number of timers there are now.                   *)
LEMMA ReturnStep ==
  ASSUME QueueInv, NEW c \in Callers, ReturnId(c)
  PROVE  QueueInv'
<1> DEFINE t == adding[c]
<1>1. /\ t # None
      /\ ids' = [ids EXCEPT ![t] = created]
      /\ adding' = [adding EXCEPT ![c] = None]
      /\ UNCHANGED <<created, interval, expiration, timers, activeTimers,
                     cancelingTimers, calling, expired, left, pc, restarting, readAge,
                     fd, pending, cancelled, aborted>>
  BY DEF ReturnId, numCreated, batchVars
<1>2. t \in Timers /\ created \in Nat /\ created # None
  BY <1>1, NoneAssumption DEF QueueInv, TypesOK
<1> HIDE DEF t
<1>3. /\ \A d \in Callers : adding'[d] = IF d = c THEN None ELSE adding[d]
      /\ \A s \in Timers : ids'[s] = IF s = t THEN created ELSE ids[s]
      /\ Owner \in Callers
  BY <1>1 DEF QueueInv, TypesOK, Callers
<1>4. interval[t] # None /\ ids[t] = None /\ t \notin cancelled
  BY <1>2 DEF QueueInv, PlacesOK, IdsOK, CancelledOK, t
<1>5. TypesOK'
  BY <1>1, <1>2 DEF QueueInv, TypesOK, Callers, Request
<1>6. ListsOK' /\ FunctorsOK' /\ ArmedOK'
  BY <1>1 DEF QueueInv, ListsOK, FunctorsOK, ArmedOK, In
<1>7. PlacesOK'
  BY <1>1, <1>3, NoneAssumption DEF QueueInv, PlacesOK, AddAsked, In, Callers, Ahead
<1>8. OwnerOK'
  BY <1>1, <1>3 DEF QueueInv, OwnerOK, In
<1>9. IdsOK'
  <2>1. \A d, f \in Callers : adding'[d] # None /\ adding'[d] = adding'[f] => d = f
    BY <1>3 DEF QueueInv, IdsOK
  <2>2. \A d \in Callers : adding'[d] # t
    BY <1>2, <1>3, NoneAssumption DEF QueueInv, IdsOK, t
  <2>3. \A s \in Timers : ids'[s] # None =>
          ids'[s] <= created /\ interval[s] # None /\ \A d \in Callers : adding'[d] # s
    BY <1>2, <1>3, <1>4, <2>2, NoneAssumption DEF QueueInv, IdsOK
  <2>4. \A i \in DOMAIN pending : pending[i].op = "cancel" => ids'[pending[i].timer] # None
    <3>1. \A i \in DOMAIN pending : pending[i] \in Request
      BY DEF QueueInv, TypesOK
    <3> QED
      BY <1>2, <1>3, <3>1 DEF QueueInv, IdsOK, Request
  <2> QED
    BY <1>1, <2>1, <2>3, <2>4 DEF QueueInv, IdsOK, Callers
<1>10. CancelledOK'
  <2>1. \A s \in cancelled : s \in Timers /\ s # t
    BY <1>4 DEF QueueInv, TypesOK
  <2>2. \A s \in cancelled : ids'[s] = ids[s]
    BY <1>3, <2>1
  <2> QED
    BY <1>1, <2>2 DEF QueueInv, CancelledOK, AddAsked, Ahead
<1> QED
  BY <1>1, <1>5, <1>6, <1>7, <1>8, <1>9, <1>10 DEF QueueInv

(* The loop's own timer is inserted on the spot ...                        *)
LEMMA InsertStep ==
  ASSUME QueueInv, InsertNow
  PROVE  QueueInv'
<1> DEFINE t == adding[Owner]
<1>1. /\ t # None /\ ~In(timers, t) /\ aborted = "no"
      /\ AddTimerInloop(t)
      /\ UNCHANGED <<created, interval, expiration, cancelingTimers, calling, expired,
                     left, pc, restarting, readAge, adding, pending, ids, cancelled>>
  BY DEF InsertNow, In, batchVars
<1>2. Owner \in Callers /\ t \in Timers
  BY <1>1 DEF QueueInv, TypesOK, Callers
<1>3. /\ ~In(expired, t) /\ t \notin cancelled /\ ~AddAsked(t) /\ interval[t] # None
      /\ pc # "erase" /\ ~In(Ahead, t) /\ restarting # t
  <2>1. pc \in {"loop", "callback"}
    BY <1>1 DEF QueueInv, OwnerOK
  <2> QED
    BY <1>1, <1>2, <2>1 DEF QueueInv, PlacesOK, CancelledOK, IdsOK, OwnerOK, Ahead
<1> HIDE DEF t
<1>4. /\ timers' = timers \cup {[when |-> expiration[t], timer |-> t]}
      /\ activeTimers' = activeTimers \cup {[timer |-> t, seq |-> created]}
      /\ aborted' = aborted /\ fd' \in Times \cup {None} /\ ArmedOK'
  BY <1>1, <1>2, <1>3, AddStep
<1>5. /\ timers' \subseteq Entries /\ activeTimers' \subseteq [timer : Timers, seq : Nat]
      /\ ListsOK'
      /\ \A s : In(timers', s) <=> In(timers, s) \/ s = t
      /\ \A k \in activeTimers' : k.seq <= created
      /\ \A k \in activeTimers' : k.timer \in cancelled => k.seq # ids[k.timer]
  BY <1>1, <1>2, <1>3, <1>4, AddedKeeps
<1>6. TypesOK'
  BY <1>1, <1>4, <1>5 DEF QueueInv, TypesOK, Callers, Request
<1>7. PlacesOK'
  BY <1>1, <1>3, <1>5 DEF QueueInv, PlacesOK, AddAsked, In, Callers, Ahead
<1>8. FunctorsOK' /\ OwnerOK' /\ IdsOK' /\ CancelledOK'
  BY <1>1, <1>5 DEF QueueInv, FunctorsOK, OwnerOK, IdsOK, CancelledOK, AddAsked, Callers,
                    Ahead, In
<1> QED
  BY <1>4, <1>5, <1>6, <1>7, <1>8 DEF QueueInv

(* ... another thread's by its functor, which also cancels.                *)
LEMMA PendingStep ==
  ASSUME QueueInv, RunPending
  PROVE  QueueInv'
<1> DEFINE t == Head(pending).timer
<1>1. /\ pending # <<>> /\ pending' = Tail(pending) /\ aborted = "no" /\ pc = "loop"
      /\ UNCHANGED <<created, interval, expiration, calling, expired, left, pc,
                     restarting, readAge, adding, ids, batchVars>>
      /\ \/ Head(pending).op = "add" /\ AddTimerInloop(t)
            /\ UNCHANGED <<cancelingTimers, cancelled>>
         \/ Head(pending).op = "cancel" /\ CancelInLoop([timer |-> t, seq |-> ids[t]])
            /\ UNCHANGED fd
  BY DEF RunPending, batchVars
<1>2. /\ Head(pending) \in Request /\ pending' \in Seq(Request)
      /\ \A s : AddAsked(s)' => AddAsked(s)
      /\ \A s : Head(pending).op = "add" /\ Head(pending).timer = s =>
           AddAsked(s) /\ ~AddAsked(s)'
      /\ FunctorsOK'
      /\ 1 \in DOMAIN pending /\ pending[1] = Head(pending)
      /\ \A i \in DOMAIN pending' : \E j \in DOMAIN pending : pending[j] = pending'[i]
  BY <1>1, Taken DEF QueueInv, TypesOK
<1>3. t \in Timers
  BY <1>2 DEF Request
<1>4. \A i \in DOMAIN pending' : pending'[i].op = "cancel" => ids[pending'[i].timer] # None
  BY <1>2 DEF QueueInv, IdsOK
<1>5. OwnerOK' /\ expired = {} /\ restarting = None /\ Ahead = {} /\ Ahead' = {}
  BY <1>1 DEF QueueInv, OwnerOK, Ahead, In
<1>6. CASE Head(pending).op = "add" /\ AddTimerInloop(t) /\ UNCHANGED <<cancelingTimers, cancelled>>
  <2> HIDE DEF t
  <2>0. AddAsked(t) /\ \A s : s = t => ~AddAsked(s)'
    BY <1>2, <1>6 DEF t
  <2>1. /\ ~In(timers, t) /\ ~In(expired, t) /\ t \notin cancelled /\ interval[t] # None
        /\ adding[Owner] # t
    BY <1>3, <2>0 DEF QueueInv, PlacesOK, CancelledOK
  <2>2. /\ timers' = timers \cup {[when |-> expiration[t], timer |-> t]}
        /\ activeTimers' = activeTimers \cup {[timer |-> t, seq |-> created]}
        /\ aborted' = aborted /\ fd' \in Times \cup {None} /\ ArmedOK'
    BY <1>1, <1>3, <1>6, <2>1, AddStep
  <2>3. /\ timers' \subseteq Entries /\ activeTimers' \subseteq [timer : Timers, seq : Nat]
        /\ ListsOK'
        /\ \A s : In(timers', s) <=> In(timers, s) \/ s = t
        /\ \A k \in activeTimers' : k.seq <= created
        /\ \A k \in activeTimers' : k.timer \in cancelled => k.seq # ids[k.timer]
    BY <1>1, <1>3, <1>6, <2>1, <2>2, AddedKeeps
  <2>4. TypesOK'
    BY <1>1, <1>2, <1>6, <2>2, <2>3 DEF QueueInv, TypesOK, Callers
  <2>5. PlacesOK'
    <3> SUFFICES ASSUME NEW s \in Timers
                 PROVE  /\ In(Ahead, s) \/ restarting = s => ~In(timers', s)
                        /\ In(expired, s) => adding[Owner] # s
                        /\ AddAsked(s)' => ~In(timers', s) /\ ~In(expired, s) /\ adding[Owner] # s
                        /\ interval[s] = None =>
                             /\ ~In(timers', s) /\ ~In(expired, s) /\ ~AddAsked(s)'
                             /\ \A c \in Callers : adding[c] # s
      BY <1>1, <1>5 DEF PlacesOK, In, Callers
    <3>1. CASE s = t
      BY <1>3, <1>5, <2>0, <2>1, <3>1, NoneAssumption DEF In
    <3>2. CASE s # t
      BY <1>2, <2>3, <3>2 DEF QueueInv, PlacesOK
    <3> QED
      BY <3>1, <3>2
  <2>6. IdsOK'
    BY <1>1, <1>4, <2>3 DEF QueueInv, IdsOK, Callers
  <2>7. CancelledOK'
    BY <1>1, <1>2, <1>5, <1>6, <2>3 DEF QueueInv, CancelledOK
  <2> QED
    BY <1>2, <1>5, <2>2, <2>3, <2>4, <2>5, <2>6, <2>7 DEF QueueInv
<1>7. CASE Head(pending).op = "cancel" /\ CancelInLoop([timer |-> t, seq |-> ids[t]]) /\ UNCHANGED fd
  <2>1. ids[t] # None
    BY <1>2, <1>7 DEF QueueInv, IdsOK
  <2> HIDE DEF t
  <2>2. /\ aborted' = aborted
        /\ timers' \subseteq timers /\ activeTimers' \subseteq activeTimers
        /\ cancelingTimers' \subseteq [timer : Timers, seq : Nat]
        /\ cancelled' \subseteq Timers
        /\ ListsOK' /\ ArmedOK' /\ CancelledOK'
    BY <1>1, <1>2, <1>3, <1>7, <2>1, CancelStep
  <2>3. TypesOK'
    BY <1>1, <1>2, <1>7, <2>2 DEF QueueInv, TypesOK, Callers
  <2>4. PlacesOK'
    BY <1>1, <1>2, <1>5, <2>2 DEF QueueInv, PlacesOK, In, Callers
  <2>5. IdsOK'
    BY <1>1, <1>4, <2>2 DEF QueueInv, IdsOK, Callers
  <2> QED
    BY <1>2, <1>5, <2>2, <2>3, <2>4, <2>5 DEF QueueInv
<1> QED
  BY <1>1, <1>6, <1>7

(* cancel, at once in the loop, or by a functor.                           *)
LEMMA CancelCalled ==
  ASSUME QueueInv, NEW c \in Callers, NEW t \in Timers, Cancel(c, t)
  PROVE  QueueInv'
<1>1. /\ ids[t] # None /\ aborted = "no"
      /\ c = Owner => pc \in {"loop", "callback"}
      /\ UNCHANGED <<created, interval, expiration, calling, expired, left, pc,
                     restarting, readAge, fd, adding, ids, batchVars>>
  BY DEF Cancel, CanCall, batchVars
<1>2. CASE c = Owner
  <2>1. CancelInLoop([timer |-> t, seq |-> ids[t]]) /\ pending' = pending
    BY <1>2 DEF Cancel
  <2>2. /\ aborted' = aborted
        /\ timers' \subseteq timers /\ activeTimers' \subseteq activeTimers
        /\ cancelingTimers' \subseteq [timer : Timers, seq : Nat]
        /\ cancelled' \subseteq Timers
        /\ ListsOK' /\ ArmedOK' /\ CancelledOK'
    <3>1. \A s : AddAsked(s)' => AddAsked(s)
      BY <2>1 DEF AddAsked
    <3> QED
      BY <1>1, <1>2, <2>1, <3>1, CancelStep
  <2>3. TypesOK'
    BY <1>1, <2>1, <2>2 DEF QueueInv, TypesOK, Callers, Request
  <2>4. PlacesOK'
    BY <1>1, <2>1, <2>2 DEF QueueInv, PlacesOK, In, Callers, AddAsked, Ahead
  <2>5. IdsOK' /\ FunctorsOK' /\ OwnerOK'
    BY <1>1, <2>1, <2>2 DEF QueueInv, IdsOK, FunctorsOK, OwnerOK, Callers, In
  <2> QED
    BY <2>2, <2>3, <2>4, <2>5 DEF QueueInv
<1>3. CASE c # Owner
  <2>1. /\ pending' = Append(pending, [op |-> "cancel", timer |-> t])
        /\ UNCHANGED <<timers, activeTimers, cancelingTimers, cancelled, aborted>>
    BY <1>3 DEF Cancel
  <2>2. /\ pending' \in Seq(Request) /\ FunctorsOK'
        /\ \A s : AddAsked(s)' <=> AddAsked(s)
        /\ \A i \in DOMAIN pending' :
             \/ pending'[i].timer = t
             \/ pending'[i].op = "add"
             \/ \E j \in DOMAIN pending : pending[j] = pending'[i]
    BY <2>1, Queued DEF QueueInv, TypesOK
  <2>3. TypesOK'
    BY <1>1, <2>1, <2>2 DEF QueueInv, TypesOK, Callers
  <2>4. PlacesOK'
    BY <1>1, <2>1, <2>2 DEF QueueInv, PlacesOK, In, Callers, Ahead
  <2>5. IdsOK'
    <3>1. \A i \in DOMAIN pending' : pending'[i].op = "cancel" => ids[pending'[i].timer] # None
      BY <1>1, <2>2 DEF QueueInv, IdsOK
    <3> QED
      BY <1>1, <2>1, <3>1 DEF QueueInv, IdsOK, Callers
  <2>6. ListsOK' /\ OwnerOK' /\ ArmedOK'
    BY <1>1, <2>1 DEF QueueInv, ListsOK, OwnerOK, ArmedOK, In
  <2>7. CancelledOK'
    BY <1>1, <2>1, <2>2 DEF QueueInv, CancelledOK, Ahead
  <2> QED
    BY <2>1, <2>2, <2>3, <2>4, <2>5, <2>6, <2>7 DEF QueueInv
<1> QED
  BY <1>2, <1>3

(* handleRead moves what is due from the list to its vector.               *)
LEMMA ReadStep ==
  ASSUME QueueInv, HandleRead
  PROVE  QueueInv'
<1>1. /\ pc = "loop" /\ adding[Owner] = None /\ fd' = None
      /\ timers' = timers \ Due /\ expired' = Due /\ left' = Due
      /\ pc' = "erase" /\ readAge' = 0
      /\ UNCHANGED <<created, interval, expiration, activeTimers, cancelingTimers,
                     calling, restarting, adding, pending, ids, cancelled, aborted>>
  BY DEF HandleRead, ReadTimerfd
<1>2. restarting = None /\ Ahead' = Due /\ None \notin Timers
  BY <1>1, NoneAssumption DEF QueueInv, OwnerOK, Ahead
<1>3. Due \subseteq timers /\ Due \subseteq Entries
  BY DEF Due, QueueInv, TypesOK
<1>4. \A e, f \in timers : e.timer = f.timer => e = f
  BY DEF QueueInv, TypesOK, ListsOK, Entries
<1>5. \A s : In(timers', s) <=> In(timers, s) /\ ~In(Due, s)
  BY <1>1, <1>3, <1>4 DEF In
<1>6. \A s : In(Due, s) => In(timers, s)
  BY <1>3 DEF In
<1>7. TypesOK'
  <2>1. 0 \in Times
    BY DelayAssumption DEF Times
  <2>2. timers' \subseteq Entries /\ expired' \subseteq Entries /\ left' \subseteq expired'
    BY <1>1, <1>3 DEF QueueInv, TypesOK
  <2> QED
    BY <1>1, <2>1, <2>2 DEF QueueInv, TypesOK, Callers, Request
<1>8. ListsOK'
  <2>1. \A s \in Timers : In(activeTimers, s) <=> In(timers', s) \/ In(left', s)
    BY <1>1, <1>5, <1>6 DEF QueueInv, ListsOK
  <2>2. \A e, f \in expired' : e.timer = f.timer => e = f
    BY <1>1, <1>3, <1>4
  <2>3. \A e \in timers' : e.when = expiration[e.timer]
    BY <1>1 DEF QueueInv, ListsOK
  <2> QED
    BY <1>1, <2>1, <2>2, <2>3 DEF QueueInv, ListsOK, In
<1>9. PlacesOK'
  <2>1. \A s \in Timers : adding[Owner] # s /\ restarting # s
    BY <1>1, <1>2
  <2> QED
    BY <1>1, <1>2, <1>5, <1>6, <2>1 DEF QueueInv, PlacesOK, AddAsked, Callers, In
<1>10. FunctorsOK' /\ OwnerOK' /\ ArmedOK'
  BY <1>1, <1>2 DEF QueueInv, FunctorsOK, OwnerOK, ArmedOK
<1>11. IdsOK'
  BY <1>1 DEF QueueInv, IdsOK, Callers
<1>12. CancelledOK'
  BY <1>1, <1>2 DEF QueueInv, CancelledOK, AddAsked, TypesOK
<1> QED
  BY <1>1, <1>7, <1>8, <1>9, <1>10, <1>11, <1>12 DEF QueueInv

(* getExpired takes one from the index, or fails its assert.  A cancelled  *)
(* timer that it finds was not cancelled under the number there is now.    *)
LEMMA EraseStep ==
  ASSUME QueueInv, NEW e \in left, EraseExpired(e)
  PROVE  QueueInv'
<1> DEFINE k == [timer |-> e.timer, seq |-> created]
<1>1. /\ pc = "erase" /\ aborted = "no"
      /\ UNCHANGED <<created, interval, expiration, timers, cancelingTimers, calling,
                     expired, pc, restarting, readAge, fd, adding, pending, ids, cancelled>>
      /\ \/ /\ k \in activeTimers /\ activeTimers' = activeTimers \ {k}
            /\ left' = left \ {e} /\ aborted' = aborted
         \/ aborted' = "expired" /\ activeTimers' = activeTimers /\ left' = left
  BY DEF EraseExpired, Key, numCreated
<1>2. /\ k.timer = e.timer /\ k.seq = created /\ e \in expired /\ e.timer \in Timers
      /\ restarting = None /\ None \notin Timers
  BY <1>1, NoneAssumption DEF QueueInv, TypesOK, Entries, OwnerOK
<1> HIDE DEF k
<1>3. /\ left' \subseteq left /\ activeTimers' \subseteq activeTimers
      /\ Ahead = expired /\ Ahead' = expired /\ expired' = expired
  BY <1>1 DEF Ahead
<1>4. TypesOK'
  BY <1>1, <1>3 DEF QueueInv, TypesOK, Callers, Request
<1>5. \A s \in Timers : In(activeTimers', s) <=> In(timers, s) \/ In(left', s)
  <2>1. CASE activeTimers' = activeTimers /\ left' = left
    BY <1>1, <2>1 DEF QueueInv, ListsOK
  <2>2. CASE k \in activeTimers /\ activeTimers' = activeTimers \ {k} /\ left' = left \ {e}
    <3>1. \A s : In(activeTimers', s) <=> In(activeTimers, s) /\ s # e.timer
      BY <1>2, <2>2 DEF QueueInv, ListsOK, In
    <3>2. \A s : In(left', s) <=> In(left, s) /\ s # e.timer
      BY <1>2, <2>2 DEF QueueInv, ListsOK, TypesOK, In
    <3>3. In(expired, e.timer)
      BY <1>2 DEF In
    <3>4. ~In(timers, e.timer)
      BY <1>2, <1>3, <3>3 DEF QueueInv, PlacesOK
    <3> QED
      BY <1>1, <3>1, <3>2, <3>4 DEF QueueInv, ListsOK
  <2> QED
    BY <1>1, <2>1, <2>2
<1>6. ListsOK'
  BY <1>1, <1>3, <1>5 DEF QueueInv, ListsOK, In
<1>7. PlacesOK' /\ FunctorsOK' /\ OwnerOK' /\ ArmedOK'
  BY <1>1, <1>2, <1>3 DEF QueueInv, PlacesOK, FunctorsOK, OwnerOK, ArmedOK, AddAsked, In, Callers
<1>8. IdsOK'
  BY <1>1, <1>3 DEF QueueInv, IdsOK, Callers
<1>9. CancelledOK'
  <2>1. ASSUME NEW f \in expired \ left', f.timer \in cancelled PROVE ids[f.timer] < created
    <3>1. CASE f \notin left
      BY <1>1, <2>1, <3>1 DEF QueueInv, CancelledOK
    <3>2. CASE f \in left
      <4>1. f = e /\ k \in activeTimers
        BY <1>1, <2>1, <3>2
      <4>2. created # ids[f.timer]
        BY <1>2, <2>1, <4>1 DEF QueueInv, CancelledOK
      <4>3. f.timer \in Timers /\ ids[f.timer] # None
        BY <2>1 DEF QueueInv, CancelledOK, TypesOK
      <4>4. ids[f.timer] \in Nat /\ ids[f.timer] <= created /\ created \in Nat
        BY <4>3 DEF QueueInv, IdsOK, TypesOK
      <4> QED
        BY <4>2, <4>4
    <3> QED
      BY <3>1, <3>2
  <2> QED
    BY <1>1, <1>2, <1>3, <2>1 DEF QueueInv, CancelledOK, AddAsked, TypesOK
<1> QED
  BY <1>1, <1>4, <1>6, <1>7, <1>8, <1>9 DEF QueueInv

(* The loops over the vector begin.                                        *)
LEMMA BeginStep ==
  ASSUME QueueInv, StartRuns \/ BeginReset
  PROVE  QueueInv'
<1>1. /\ left = {} /\ left' = expired
      /\ \/ pc = "erase" /\ pc' = "batch" /\ calling' = TRUE /\ cancelingTimers' = {}
         \/ pc = "batch" /\ pc' = "reset" /\ calling' = FALSE
            /\ cancelingTimers' = cancelingTimers
      /\ UNCHANGED <<created, interval, expiration, timers, activeTimers, expired,
                     restarting, readAge, fd, adding, pending, ids, cancelled, aborted>>
  BY DEF StartRuns, BeginReset
<1>2. restarting = None /\ Ahead = expired /\ Ahead' = expired /\ None \notin Timers
  BY <1>1, NoneAssumption DEF QueueInv, OwnerOK, Ahead
<1>3. \A s : ~In(left, s)
  BY <1>1 DEF In
<1>4. TypesOK'
  BY <1>1 DEF QueueInv, TypesOK, Callers, Request
<1>5. ListsOK'
  BY <1>1, <1>3 DEF QueueInv, ListsOK, In
<1>6. PlacesOK' /\ FunctorsOK' /\ OwnerOK' /\ ArmedOK'
  BY <1>1, <1>2 DEF QueueInv, PlacesOK, FunctorsOK, OwnerOK, ArmedOK, AddAsked, In, Callers
<1>7. IdsOK'
  BY <1>1 DEF QueueInv, IdsOK, Callers
<1>8. CancelledOK'
  BY <1>1, <1>2 DEF QueueInv, CancelledOK, AddAsked, TypesOK
<1> QED
  BY <1>1, <1>4, <1>5, <1>6, <1>7, <1>8 DEF QueueInv

(* reset restarts a timer only when it was not cancelled under the number  *)
(* there is now ...                                                        *)
LEMMA LookUpStep ==
  ASSUME QueueInv, NEW e \in left, LookUp(e)
  PROVE  QueueInv'
<1> DEFINE t == e.timer
<1>1. /\ pc = "reset" /\ restarting = None /\ left' = left \ {e}
      /\ UNCHANGED <<created, interval, timers, activeTimers, cancelingTimers, calling,
                     expired, pc, readAge, fd, adding, pending, ids, cancelled, aborted>>
      /\ \/ /\ [timer |-> t, seq |-> created] \notin cancelingTimers
            /\ restarting' = t
            /\ expiration' = [expiration EXCEPT ![t] = NextStart(t)]
         \/ restarting' = None /\ expiration' = expiration
  BY DEF LookUp, Restarts, Key, numCreated
<1>2. t \in Timers /\ e \in expired /\ In(left, t) /\ In(expired, t) /\ None \notin Timers
  BY NoneAssumption DEF QueueInv, TypesOK, Entries, In
<1>3. Ahead = left /\ Ahead' = left' /\ left' \subseteq left /\ expired' = expired
  BY <1>1 DEF Ahead
<1>4. ~In(timers, t) /\ ~AddAsked(t) /\ interval[t] # None /\ ~In(left', t)
  BY <1>1, <1>2, <1>3 DEF QueueInv, PlacesOK, ListsOK, TypesOK, In
<1>5. NextStart(t) \in Times
  <2>1. interval[t] \in Times /\ readAge \in Times
    BY <1>2, <1>4 DEF QueueInv, TypesOK
  <2> QED
    BY <2>1, DelayAssumption DEF NextStart, Times
<1> HIDE DEF t
<1>6. /\ expiration' \in [Timers -> Times]
      /\ \A s \in Timers : s # t => expiration'[s] = expiration[s]
  BY <1>1, <1>2, <1>5 DEF QueueInv, TypesOK
<1>7. TypesOK'
  BY <1>1, <1>2, <1>3, <1>6 DEF QueueInv, TypesOK, Callers, Request
<1>8. ListsOK'
  <2>1. \A o \in timers : o.timer # t /\ o.timer \in Timers
    BY <1>4 DEF In, QueueInv, TypesOK, Entries
  <2>2. \A o \in timers : o.when = expiration'[o.timer]
    BY <1>6, <2>1 DEF QueueInv, ListsOK
  <2> QED
    BY <1>1, <2>2 DEF QueueInv, ListsOK, In
<1>9. PlacesOK'
  <2>1. \A s : In(left', s) => In(left, s)
    BY <1>3 DEF In
  <2> QED
    BY <1>1, <1>2, <1>3, <1>4, <2>1 DEF QueueInv, PlacesOK, AddAsked, In, Callers
<1>10. OwnerOK'
  BY <1>1, <1>2, <1>4 DEF QueueInv, OwnerOK, In
<1>11. FunctorsOK' /\ ArmedOK' /\ IdsOK'
  BY <1>1 DEF QueueInv, FunctorsOK, ArmedOK, IdsOK, Callers
<1>12. CancelledOK'
  <2>1. ASSUME restarting' \in cancelled PROVE ids[restarting'] < created
    <3>1. /\ restarting' = t /\ t \in cancelled
          /\ [timer |-> t, seq |-> created] \notin cancelingTimers
      BY <1>1, <1>2, <2>1 DEF QueueInv, TypesOK
    <3>2. \/ ids[t] < created
          \/ [timer |-> t, seq |-> ids[t]] \in cancelingTimers
      BY <1>1, <1>3, <3>1 DEF QueueInv, CancelledOK, t
    <3>3. ids[t] # None
      BY <3>1 DEF QueueInv, CancelledOK
    <3>4. ids[t] \in Nat /\ ids[t] <= created /\ created \in Nat
      BY <1>2, <3>3 DEF QueueInv, IdsOK, TypesOK
    <3> QED
      BY <3>1, <3>2, <3>4
  <2> QED
    BY <1>1, <1>3, <2>1 DEF QueueInv, CancelledOK, AddAsked
<1> QED
  BY <1>1, <1>7, <1>8, <1>9, <1>10, <1>11, <1>12 DEF QueueInv

(* ... so that it is put back under a later number than its id's ...       *)
LEMMA InsertAgainStep ==
  ASSUME QueueInv, InsertAgain
  PROVE  QueueInv'
<1> DEFINE t == restarting
           e == [when |-> expiration[t], timer |-> t]
<1>1. /\ t # None /\ restarting' = None /\ aborted = "no"
      /\ UNCHANGED <<created, interval, expiration, cancelingTimers, calling, expired,
                     left, pc, readAge, fd, adding, pending, ids, cancelled>>
      /\ IF Duplicate(e)
         THEN aborted' = "other" /\ UNCHANGED <<timers, activeTimers>>
         ELSE Insert(e) /\ aborted' = aborted
  BY DEF InsertAgain
<1>2. /\ t \in Timers /\ pc = "reset" /\ Ahead = left /\ Ahead' = left
      /\ In(expired, t) /\ ~In(left, t) /\ None \notin Timers
  BY <1>1, NoneAssumption DEF QueueInv, TypesOK, OwnerOK, Ahead
<1>3. ~In(timers, t) /\ ~In(activeTimers, t) /\ ~AddAsked(t) /\ interval[t] # None
  BY <1>2 DEF QueueInv, PlacesOK, ListsOK
<1>4. t \in cancelled => ids[t] # created
  <2> SUFFICES ASSUME t \in cancelled PROVE ids[t] # created
    OBVIOUS
  <2>1. ids[t] < created /\ ids[t] # None
    BY DEF QueueInv, CancelledOK
  <2>2. ids[t] \in Nat /\ created \in Nat
    BY <1>2, <2>1 DEF QueueInv, TypesOK
  <2> QED
    BY <2>1, <2>2
<1>5. ~Duplicate(e)
  BY <1>3 DEF Duplicate, Key, In
<1>6. /\ timers' = timers \cup {e}
      /\ activeTimers' = activeTimers \cup {[timer |-> t, seq |-> created]}
      /\ aborted' = aborted
  BY <1>1, <1>5 DEF Insert, Key, numCreated
<1> HIDE DEF t
<1>7. /\ timers' \subseteq Entries /\ activeTimers' \subseteq [timer : Timers, seq : Nat]
      /\ ListsOK'
      /\ \A s : In(timers', s) <=> In(timers, s) \/ s = t
      /\ \A k \in activeTimers' : k.seq <= created
      /\ \A k \in activeTimers' : k.timer \in cancelled => k.seq # ids[k.timer]
  BY <1>1, <1>2, <1>3, <1>4, <1>6, AddedKeeps
<1> HIDE DEF e
<1>8. TypesOK'
  BY <1>1, <1>6, <1>7 DEF QueueInv, TypesOK, Callers, Request
<1>9. PlacesOK'
  <2>1. adding[Owner] # t
    BY <1>2 DEF QueueInv, PlacesOK
  <2> QED
    BY <1>1, <1>2, <1>3, <1>7, <2>1 DEF QueueInv, PlacesOK, AddAsked, In, Callers
<1>10. FunctorsOK' /\ OwnerOK' /\ ArmedOK'
  BY <1>1, <1>2 DEF QueueInv, FunctorsOK, OwnerOK, ArmedOK
<1>11. IdsOK'
  BY <1>1, <1>7 DEF QueueInv, IdsOK, Callers
<1>12. CancelledOK'
  BY <1>1, <1>2, <1>7 DEF QueueInv, CancelledOK, AddAsked, TypesOK
<1> QED
  BY <1>6, <1>7, <1>8, <1>9, <1>10, <1>11, <1>12 DEF QueueInv

(* ... and at its end arms the timerfd for the earliest of all.            *)
LEMMA ResetStep ==
  ASSUME QueueInv, ResetDone
  PROVE  QueueInv'
<1>1. /\ pc = "reset" /\ restarting = None /\ left = {}
      /\ pc' = "loop" /\ expired' = {} /\ readAge' = 0 /\ fd' = Rearm(timers)
      /\ UNCHANGED <<created, interval, expiration, timers, activeTimers,
                     cancelingTimers, calling, left, restarting, adding, pending, ids,
                     cancelled, aborted>>
  BY DEF ResetDone
<1>2. Ahead' = {} /\ None \notin Timers /\ \A s : ~In({}, s)
  BY <1>1, NoneAssumption DEF Ahead, In
<1>3. timers \subseteq Entries
  BY DEF QueueInv, TypesOK
<1>4. timers # {} =>
        fd' # None /\ fd' \in Times /\ \A e \in timers : fd' <= Later(e.when, 1)
  <2> SUFFICES ASSUME timers # {}
               PROVE  fd' # None /\ fd' \in Times /\ \A e \in timers : fd' <= Later(e.when, 1)
    OBVIOUS
  <2> DEFINE first == CHOOSE e \in Earliest(timers) : TRUE
  <2>1. first \in Earliest(timers)
    BY <1>3, EarliestIs
  <2>2. fd' = ResetTimerfd(first.when)
    BY <1>1 DEF Rearm
  <2> HIDE DEF first
  <2>3. first \in timers /\ \A e \in timers : first.when <= e.when
    BY <2>1 DEF Earliest
  <2>4. \A e \in timers : e.when \in Times /\ e.when \in Nat
    BY <1>3 DEF Entries, Times
  <2>5. first.when \in Times /\ first.when \in Nat
    BY <2>3, <2>4
  <2>6. /\ fd' = Later(first.when, 1)
        /\ Later(first.when, 1) \in Times /\ Later(first.when, 1) # None
    BY <2>2, <2>5, DelayIs
  <2>7. \A e \in timers : Later(first.when, 1) <= Later(e.when, 1)
    BY <2>3, <2>4, <2>5 DEF Later
  <2> QED
    BY <2>6, <2>7
<1>5. fd' \in Times \cup {None}
  <2>1. CASE timers = {}
    BY <1>1, <2>1 DEF Rearm, QueueInv, TypesOK
  <2> QED
    BY <1>4, <2>1
<1>6. TypesOK'
  <2>1. 0 \in Times
    BY DelayAssumption DEF Times
  <2> QED
    BY <1>1, <1>5, <2>1 DEF QueueInv, TypesOK, Callers, Request
<1>7. ListsOK'
  BY <1>1 DEF QueueInv, ListsOK, In
<1>8. PlacesOK'
  <2>1. \A s \in Timers : restarting # s
    BY <1>1, <1>2
  <2> QED
    BY <1>1, <1>2, <2>1 DEF QueueInv, PlacesOK, AddAsked, In, Callers
<1>9. FunctorsOK' /\ OwnerOK'
  BY <1>1 DEF QueueInv, FunctorsOK, OwnerOK
<1>10. ArmedOK'
  BY <1>1, <1>4 DEF ArmedOK
<1>11. IdsOK'
  BY <1>1 DEF QueueInv, IdsOK, Callers
<1>12. CancelledOK'
  BY <1>1, <1>2 DEF QueueInv, CancelledOK, AddAsked, TypesOK
<1> QED
  BY <1>1, <1>6, <1>7, <1>8, <1>9, <1>10, <1>11, <1>12 DEF QueueInv

(* Time passes for list, timers and timerfd alike.                         *)
LEMMA TickStep ==
  ASSUME QueueInv, Tick
  PROVE  QueueInv'
<1> DEFINE new(e) == [e EXCEPT !.when = Closer(@)]
<1>1. /\ aborted = "no"
      /\ expiration' = [t \in Timers |-> Closer(expiration[t])]
      /\ timers' = {new(e) : e \in timers}
      /\ fd' = IF fd = None THEN None ELSE Closer(fd)
      /\ readAge' = IF pc # "loop" /\ readAge < MaxDelay THEN readAge + 1 ELSE readAge
      /\ UNCHANGED <<created, interval, activeTimers, cancelingTimers, calling, expired,
                     left, pc, restarting, adding, pending, ids, cancelled, aborted>>
  BY DEF Tick, batchVars
<1>2. \A w \in Times : Closer(w) \in Times /\ Closer(w) # None
  BY NoneAssumption, DelayAssumption DEF Closer, Times
<1>3. \A e \in timers : e \in Entries /\ new(e) \in Entries
                        /\ new(e).timer = e.timer /\ new(e).when = Closer(e.when)
  BY <1>2 DEF QueueInv, TypesOK, Entries
<1>4. timers' \subseteq Entries
  BY <1>1, <1>3
<1>5. \A s : In(timers', s) <=> In(timers, s)
  BY <1>1, <1>3 DEF In
<1>6. TypesOK'
  <2>1. readAge' \in Times
    BY <1>1, DelayAssumption DEF QueueInv, TypesOK, Times
  <2>2. fd' \in Times \cup {None}
    BY <1>1, <1>2 DEF QueueInv, TypesOK
  <2>3. expiration' \in [Timers -> Times]
    BY <1>1, <1>2 DEF QueueInv, TypesOK
  <2> QED
    BY <1>1, <1>4, <2>1, <2>2, <2>3 DEF QueueInv, TypesOK, Callers, Request
<1>7. ListsOK'
  <2>1. \A e \in timers' : e.when = expiration'[e.timer]
    <3>1. \A e \in timers : e.when = expiration[e.timer] /\ e.timer \in Timers
      BY <1>3 DEF QueueInv, ListsOK, Entries
    <3>2. \A e \in timers : new(e).when = expiration'[new(e).timer]
      <4> SUFFICES ASSUME NEW e \in timers PROVE new(e).when = expiration'[new(e).timer]
        OBVIOUS
      <4>1. new(e).timer = e.timer /\ new(e).when = Closer(e.when)
        BY <1>3
      <4> HIDE DEF new
      <4> QED
        BY <1>1, <3>1, <4>1
    <3> HIDE DEF new
    <3> QED
      BY <1>1, <3>2
  <2> QED
    BY <1>1, <1>5, <2>1 DEF QueueInv, ListsOK
<1>8. PlacesOK' /\ FunctorsOK' /\ OwnerOK'
  BY <1>1, <1>5 DEF QueueInv, PlacesOK, FunctorsOK, OwnerOK, AddAsked, Callers, Ahead, In
<1>9. IdsOK' /\ CancelledOK'
  BY <1>1 DEF QueueInv, IdsOK, CancelledOK, AddAsked, Callers, Ahead
<1>10. ArmedOK'
  <2> SUFFICES ASSUME pc = "loop", timers' # {}
               PROVE  fd' # None /\ \A e \in timers' : fd' <= Later(e.when, 1)
    BY <1>1 DEF ArmedOK
  <2>1. timers # {}
    BY <1>1
  <2>2. fd # None /\ fd \in Times /\ \A e \in timers : fd <= Later(e.when, 1)
    BY <1>1, <2>1 DEF QueueInv, ArmedOK, TypesOK
  <2>3. \A e \in timers : e.when \in Nat /\ fd \in Nat
    <3>1. timers \subseteq Entries
      BY DEF QueueInv, TypesOK
    <3> QED
      BY <2>2, <3>1 DEF Entries, Times
  <2>4. \A e \in timers : Closer(fd) <= Later(Closer(e.when), 1)
    BY <2>2, <2>3 DEF Closer, Later
  <2> QED
    BY <1>1, <1>2, <1>3, <2>2, <2>4
<1> QED
  BY <1>1, <1>6, <1>7, <1>8, <1>9, <1>10 DEF QueueInv

------------------------------------------------------------------------------
(* The invariant, and what follows from it.                                *)
LEMMA QueueInvHolds == Spec => []QueueInv
<1>1. Init => QueueInv
  <2> SUFFICES ASSUME Init PROVE QueueInv
    OBVIOUS
  <2>1. 0 \in Times
    BY DelayAssumption DEF Times
  <2>2. TypesOK
    <3>1. <<>> \in Seq(Request)
      OBVIOUS
    <3> QED
      BY <2>1, <3>1 DEF Init, TypesOK
  <2>3. ListsOK /\ FunctorsOK /\ OwnerOK /\ ArmedOK
    BY DEF Init, ListsOK, FunctorsOK, OwnerOK, ArmedOK, In
  <2>4. \A c \in Callers, t \in Timers : adding[c] = None /\ ids[t] = None /\ t # None
    BY NoneAssumption DEF Init
  <2>5. DOMAIN pending = {} /\ timers = {} /\ expired = {} /\ activeTimers = {} /\ cancelled = {}
    BY DEF Init
  <2>6. PlacesOK
    <3>1. Owner \in Callers
      BY DEF Callers
    <3> QED
      BY <2>4, <2>5, <3>1 DEF Init, PlacesOK, AddAsked, In, Ahead
  <2>7. IdsOK
    <3>1. \A c, d \in Callers : adding[c] # None /\ adding[c] = adding[d] => c = d
      BY DEF Init
    <3>2. \A t \in Timers : ids[t] = None
      BY DEF Init
    <3> QED
      BY <2>5, <3>1, <3>2 DEF IdsOK
  <2>9. CancelledOK
    BY <2>5 DEF Init, CancelledOK, Ahead
  <2>8. aborted # "other"
    BY DEF Init
  <2> QED
    BY <2>2, <2>3, <2>6, <2>7, <2>8, <2>9 DEF QueueInv
<1>2. QueueInv /\ [Next]_vars => QueueInv'
  <2> SUFFICES ASSUME QueueInv, [Next]_vars PROVE QueueInv'
    OBVIOUS
  <2>1. CASE UNCHANGED vars
    <3>1. TypesOK' /\ ListsOK' /\ PlacesOK' /\ FunctorsOK'
      BY <2>1 DEF QueueInv, vars, TypesOK, ListsOK, PlacesOK, FunctorsOK, In, AddAsked,
                  Ahead, Callers, Request
    <3>2. OwnerOK' /\ ArmedOK' /\ IdsOK' /\ CancelledOK' /\ aborted' # "other"
      BY <2>1 DEF QueueInv, vars, OwnerOK, ArmedOK, IdsOK, CancelledOK, AddAsked,
                  Ahead, Callers, In
    <3> QED
      BY <3>1, <3>2 DEF QueueInv
  <2>2. CASE \E c \in Callers, t \in Timers : RunAt(c, t) \/ RunEvery(c, t)
    BY <2>2, NewStep
  <2>3. CASE \E c \in Callers, t \in Timers : Cancel(c, t)
    BY <2>3, CancelCalled
  <2>4. CASE \E c \in Callers : ReturnId(c)
    BY <2>4, ReturnStep
  <2>5. CASE InsertNow
    BY <2>5, InsertStep
  <2>6. CASE RunPending
    BY <2>6, PendingStep
  <2>7. CASE HandleRead
    BY <2>7, ReadStep
  <2>8. CASE (\E e \in left : RunTimer(e)) \/ CallbackReturns
    BY <2>8, RunStep
  <2>9. CASE StartRuns \/ BeginReset
    BY <2>9, BeginStep
  <2>11. CASE \E e \in left : EraseExpired(e) \/ LookUp(e)
    BY <2>11, EraseStep, LookUpStep
  <2>12. CASE InsertAgain
    BY <2>12, InsertAgainStep
  <2>13. CASE ResetDone
    BY <2>13, ResetStep
  <2>10. CASE Tick
    BY <2>10, TickStep
  <2> QED
    BY <2>1, <2>2, <2>3, <2>4, <2>5, <2>6, <2>7, <2>8, <2>9, <2>10,
       <2>11, <2>12, <2>13 DEF Next, OwnerStep, BatchStep
<1> QED
  BY <1>1, <1>2, PTL DEF Spec

(* timers_ and activeTimers_ hold the same timers, each once, so the       *)
(* emplaces of insert and the asserts of cancelInLoop never fail.          *)
THEOREM ListsAgree == Spec => []SameTimers
<1>1. QueueInv => SameTimers
  BY SameSize DEF QueueInv, ListsOK, SameTimers
<1> QED
  BY <1>1, QueueInvHolds, PTL

(* Between two handleReads the timerfd is armed for the earliest timer, or *)
(* before it.                                                              *)
THEOREM NeverLate == Spec => []ArmedInTime
<1>1. QueueInv => ArmedInTime
  BY DEF QueueInv, ArmedOK, ArmedInTime
<1> QED
  BY <1>1, QueueInvHolds, PTL

(* A timer cancelled under the number it is indexed by never runs again,   *)
(* whichever thread or callback cancelled it.                              *)
THEOREM CancelledForGood == Spec => []CancelIsFinal
<1>1. QueueInv => CancelIsFinal
  BY DEF QueueInv, CancelledOK, CancelIsFinal
<1> QED
  BY <1>1, QueueInvHolds, PTL

------------------------------------------------------------------------------
(* TimerCreated_ counts the timers there are, and every number in the sets *)
(* was its value once.                                                     *)
Created == {t \in Timers : interval[t] # None}

CountOK ==
  /\ created = Cardinality(Created)
  /\ \A k \in cancelingTimers : k.seq <= created

(* What cancelInLoop notes has a number that was given out.                *)
LEMMA Noted ==
  ASSUME QueueInv, CountOK, NEW t \in Timers, ids[t] # None,
         CancelInLoop([timer |-> t, seq |-> ids[t]])
  PROVE  \A k \in cancelingTimers' : k.seq <= created
<1> DEFINE id == [timer |-> t, seq |-> ids[t]]
<1>1. id.seq <= created
  BY DEF QueueInv, IdsOK
<1>2. cancelingTimers' \subseteq cancelingTimers \cup {id}
  BY DEF CancelInLoop
<1> HIDE DEF id
<1> QED
  BY <1>1, <1>2 DEF CountOK

(* A new timer is one more to count, and no number is ever taken back.     *)
LEMMA CountStep == QueueInv /\ CountOK /\ [Next]_vars => CountOK'
<1> SUFFICES ASSUME QueueInv, CountOK, [Next]_vars PROVE CountOK'
  OBVIOUS
<1>1. ASSUME UNCHANGED <<created, interval, cancelingTimers>> PROVE CountOK'
  BY <1>1 DEF CountOK, Created
<1>2. ASSUME UNCHANGED <<created, interval>>,
             \A k \in cancelingTimers' : k.seq <= created
      PROVE  CountOK'
  BY <1>2 DEF CountOK, Created
<1>3. ASSUME NEW c \in Callers, NEW t \in Timers, RunAt(c, t) \/ RunEvery(c, t)
      PROVE  CountOK'
  <2>1. PICK when \in Times, every \in Times : AddTimer(c, t, when, every)
    BY <1>3, DelayAssumption DEF RunAt, RunEvery, Times
  <2>2. /\ interval[t] = None /\ created' = created + 1 /\ created \in Nat
        /\ interval' = [interval EXCEPT ![t] = every] /\ every # None
        /\ interval \in [Timers -> Times \cup {None}]
        /\ cancelingTimers' = cancelingTimers
    BY <2>1, NoneAssumption DEF AddTimer, CreateTimer, Fresh, QueueInv, TypesOK, Times
  <2>3. t \notin Created /\ Created' = Created \cup {t}
    BY <2>2 DEF Created
  <2>4. IsFiniteSet(Created)
    BY TimersAssumption, FS_Subset DEF Created
  <2>5. Cardinality(Created') = Cardinality(Created) + 1
    BY <2>3, <2>4, FS_AddElement
  <2>6. \A k \in cancelingTimers : k.seq \in Nat
    BY DEF QueueInv, TypesOK
  <2> QED
    BY <2>2, <2>5, <2>6 DEF CountOK
<1>4. ASSUME NEW c \in Callers, NEW t \in Timers, Cancel(c, t) PROVE CountOK'
  <2>1. UNCHANGED <<created, interval>> /\ ids[t] # None
    BY <1>4 DEF Cancel
  <2>2. CASE c = Owner
    <3>1. CancelInLoop([timer |-> t, seq |-> ids[t]])
      BY <1>4, <2>2 DEF Cancel
    <3> QED
      BY <1>2, <2>1, <3>1, Noted
  <2>3. CASE c # Owner
    BY <1>1, <1>4, <2>1, <2>3 DEF Cancel
  <2> QED
    BY <2>2, <2>3
<1>5. CASE RunPending
  <2> DEFINE t == Head(pending).timer
  <2>1. UNCHANGED <<created, interval>> /\ pending # <<>>
    BY <1>5 DEF RunPending
  <2>2. CASE UNCHANGED cancelingTimers
    BY <1>1, <2>1, <2>2
  <2>3. CASE Head(pending).op = "cancel" /\ CancelInLoop([timer |-> t, seq |-> ids[t]])
    <3>1. pending \in Seq(Request)
      BY DEF QueueInv, TypesOK
    <3>2. 1 \in DOMAIN pending /\ Head(pending) = pending[1] /\ Head(pending) \in Request
      BY <2>1, <3>1
    <3>3. t \in Timers /\ ids[t] # None
      BY <2>3, <3>2 DEF QueueInv, IdsOK, Request
    <3> QED
      BY <1>2, <2>1, <2>3, <3>3, Noted
  <2> QED
    BY <1>5, <2>2, <2>3 DEF RunPending
<1>6. CASE HandleRead
  BY <1>1, <1>6 DEF HandleRead
<1>7. CASE \E c \in Callers : ReturnId(c)
  BY <1>1, <1>7 DEF ReturnId
<1>8. CASE InsertNow \/ Tick \/ (BatchStep /\ ~StartRuns)
  BY <1>1, <1>8 DEF InsertNow, Tick, BatchStep, EraseExpired, RunTimer, CallbackReturns,
                    BeginReset, LookUp, InsertAgain, ResetDone
<1>9. CASE UNCHANGED vars
  BY <1>1, <1>9 DEF vars
<1>10. CASE StartRuns
  BY <1>2, <1>10 DEF StartRuns
<1> QED
  BY <1>10, <1>3, <1>4, <1>5, <1>6, <1>7, <1>8, <1>9 DEF Next, OwnerStep

(* Every variable has its type; no number is above that of the timers.     *)
THEOREM TypeCorrect == Spec => []TypeOK
<1>1. Init => CountOK
  <2> SUFFICES ASSUME Init PROVE CountOK
    OBVIOUS
  <2>1. Created = {} /\ cancelingTimers = {} /\ created = 0
    BY DEF Init, Created
  <2> QED
    BY <2>1, FS_EmptySet DEF CountOK
<1>2. QueueInv /\ CountOK => TypeOK
  <2> SUFFICES ASSUME QueueInv, CountOK PROVE TypeOK
    OBVIOUS
  <2>1. Cardinality(Created) \in Nat /\ Cardinality(Timers) \in Nat
          /\ Cardinality(Created) <= Cardinality(Timers)
    BY TimersAssumption, FS_Subset, FS_CardinalityType DEF Created
  <2>2. created \in 0 .. Cardinality(Timers)
    BY <2>1 DEF CountOK
  <2>3. \A k \in activeTimers \cup cancelingTimers :
          k \in [timer : Timers, seq : Nat] /\ k.seq <= created
    BY DEF QueueInv, TypesOK, IdsOK, CountOK
  <2>4. \A k \in activeTimers \cup cancelingTimers : k \in Keys
    <3> SUFFICES ASSUME NEW k \in activeTimers \cup cancelingTimers PROVE k \in Keys
      OBVIOUS
    <3>1. k.seq \in 0 .. Cardinality(Timers)
      BY <2>1, <2>2, <2>3
    <3> QED
      BY <2>3, <3>1 DEF Keys
  <2> QED
    BY <2>2, <2>4 DEF QueueInv, TypesOK, TypeOK, Request
<1> QED
  BY <1>1, <1>2, CountStep, QueueInvHolds, PTL DEF Spec
==============================================================================
