-------------------------- MODULE RateLimiterProofs --------------------------
(***************************************************************************)
(* RateLimiter proved for any callers, capacity, window, grace,            *)
(* concurrency and number of tries.  IInv is the inductive invariant:      *)
(* SlotsAccounted needs OnePlace, because admitting a caller who is        *)
(* already running would raise the counter and not the set; WakeupPending  *)
(* needs SlotsAccounted to know a free slot from a full limiter.  The      *)
(* second part is of the two limits in front of the server (Admission).    *)
(***************************************************************************)
EXTENDS RateLimiter, Admission, FiniteSetTheorems, SequenceTheorems, TLAPS

(* A caller backs off only while it has tries left.                          *)
TriesLeft == \A c \in backoff : tries[c] < Tries

IInv == TypeOK /\ OnePlace /\ SlotsAccounted /\ WakeupPending /\ TriesLeft

-----------------------------------------------------------------------------
(* The filter of pump keeps a sequence of ages.                              *)
LEMMA LiveIsSeq ==
  ASSUME NEW s \in Seq(Ages)
  PROVE  Live(s) \in Seq(Ages)
<1>1. Cardinality(Expired(s)) \in Nat
  <2>1. IsFiniteSet(1..Len(s)) BY FS_Interval
  <2>2. IsFiniteSet(Expired(s)) BY <2>1, FS_Subset DEF Expired
  <2>. QED BY <2>2, FS_CardinalityType
<1>2. \A i \in (Cardinality(Expired(s)) + 1)..Len(s) : s[i] \in Ages
  BY <1>1, ElementOfSeq
<1>. QED BY <1>1, <1>2, SubSeqProperties DEF Live

(* Ages stay within the window, so ageing keeps the type.                    *)
LEMMA AgedIsSeq ==
  ASSUME NEW s \in Seq(Ages)
  PROVE  Aged(s) \in Seq(Ages)
BY LimiterAssumption DEF Aged, Older, Ages

(* The callers in a queue without its head, and with one more at its end.    *)
LEMMA RangeOfTail ==
  ASSUME NEW S, NEW q \in Seq(S), q # <<>>,
         \A i, j \in 1..Len(q) : q[i] = q[j] => i = j
  PROVE  /\ Head(q) = q[1] /\ q[1] \in Range(q)
         /\ Range(Tail(q)) = Range(q) \ {q[1]}
<1>1. /\ Head(q) = q[1] /\ Tail(q) \in Seq(S) /\ Len(Tail(q)) = Len(q) - 1
      /\ \A i \in 1..Len(Tail(q)) : Tail(q)[i] = q[i + 1]
      /\ Len(q) \in Nat \ {0}
  BY HeadTailProperties
<1>2. Range(q) = {q[i] : i \in 1..Len(q)}
  BY RangeEquality
<1>3. Range(Tail(q)) = {Tail(q)[i] : i \in 1..Len(Tail(q))}
  <2>1. Tail(q) \in Seq(S) BY <1>1
  <2>. QED BY ONLY <2>1, RangeEquality, Zenon
<1>4. ASSUME NEW x \in Range(Tail(q)) PROVE x \in Range(q) \ {q[1]}
  <2>1. PICK i \in 1..Len(Tail(q)) : x = Tail(q)[i]
    BY <1>3, <1>4
  <2>2. i + 1 \in 1..Len(q) /\ x = q[i + 1] /\ i + 1 # 1 /\ 1 \in 1..Len(q)
    BY <1>1, <2>1
  <2>. QED BY <1>2, <2>2
<1>5. ASSUME NEW x \in Range(q) \ {q[1]} PROVE x \in Range(Tail(q))
  <2>1. PICK i \in 1..Len(q) : x = q[i] /\ i # 1
    BY <1>2, <1>5
  <2>2. i - 1 \in 1..Len(Tail(q)) /\ Tail(q)[i - 1] = x
    BY <1>1, <2>1
  <2>. QED BY <1>3, <2>2
<1>6. q[1] \in Range(q)
  BY <1>1, <1>2
<1>. QED BY <1>1, <1>4, <1>5, <1>6

(* A queue with one more caller at its end holds that caller as well.        *)
LEMMA RangeOfAppend ==
  ASSUME NEW S, NEW q \in Seq(S), NEW c \in S
  PROVE  Range(Append(q, c)) = Range(q) \cup {c}
<1>1. Append(q, c) = q \o <<c>> /\ <<c>> \in Seq(S)
  BY AppendIsConcat
<1>2. Range(<<c>>) = {c}
  BY DEF Range
<1>3. Range(q \o <<c>>) = Range(q) \cup Range(<<c>>)
  BY <1>1, RangeConcatenation, Zenon
<1>. QED BY <1>1, <1>2, <1>3, Zenon

(* A pump's timer is never longer than a whole window and its grace.         *)
LEMMA DelayType ==
  ASSUME NEW age \in Ages
  PROVE  Delay(age) \in Delays
BY LimiterAssumption DEF Delay, Longer, Ages, Delays

(***************************************************************************)
(* pump keeps the limiter's books.  The hypotheses describe the limiter as *)
(* pump finds it: sound, except that one more wakeup may be owed (`owed`)  *)
(* than there are timers, which is what this call of pump makes good.      *)
(***************************************************************************)
Sound(q, r, n, t) ==
  /\ q \in Seq(Callers)
  /\ r \in SUBSET Callers
  /\ n = Cardinality(r) /\ n <= Concurrency
  /\ t \in Seq(Delays)
  /\ \A i, j \in 1..Len(q) : q[i] = q[j] => i = j
  /\ Range(q) \cap r = {}
  /\ Fewer(Concurrency - n, Len(q)) <= Len(t) + 1

(* Whatever pump finds, as long as the books are sound and at most one       *)
(* wakeup is owed, it leaves the invariant behind, and owes none.            *)
LEMMA PumpKeepsBooks ==
  ASSUME stamps \in Seq(Ages), recent \in Seq(Ages),
         NEW q, NEW r, NEW n, NEW t, Sound(q, r, n, t), Pump(q, r, n, t)
  PROVE  /\ queue' \in Seq(Callers)
         /\ running' \in SUBSET Callers
         /\ stamps' \in Seq(Ages) /\ recent' \in Seq(Ages)
         /\ timers' \in Seq(Delays)
         /\ SlotsAccounted' /\ active' \in Nat
         /\ WakeupPending'
         /\ \A i, j \in 1..Len(queue') : queue'[i] = queue'[j] => i = j
         /\ Queued' \cap running' = {}
         /\ Queued' \cup running' = Range(q) \cup r
<1>. USE LimiterAssumption
<1>1. n \in Nat /\ IsFiniteSet(r)
  BY FS_Subset, FS_CardinalityType DEF Sound
<1>2. Live(stamps) \in Seq(Ages) /\ 0 \in Ages
  BY LiveIsSeq DEF Ages
<1>3. CASE PumpIdle(q, r, n, t)
  BY <1>1, <1>3 DEF PumpIdle, Sound, SlotsAccounted, WakeupPending, Fewer, Queued
<1>4. CASE PumpArms(q, r, n, t)
  <2>1. Live(stamps)[1] \in Ages
    BY <1>2, <1>4, ElementOfSeq DEF PumpArms
  <2>2. Delay(Live(stamps)[1]) \in Delays
    BY <2>1, DelayType
  <2>3. timers' \in Seq(Delays) /\ Len(timers') = Len(t) + 1
    BY <1>4, <2>2, AppendProperties DEF PumpArms, Sound
  <2>. QED
    BY <1>1, <1>2, <1>4, <2>3
       DEF PumpArms, Sound, SlotsAccounted, WakeupPending, Fewer, Queued
<1>5. CASE PumpAdmits(q, r, n, t)
  <2>1. /\ Head(q) = q[1] /\ q[1] \in Callers /\ q[1] \notin r
        /\ Tail(q) \in Seq(Callers) /\ Len(Tail(q)) = Len(q) - 1
        /\ \A i \in 1..Len(Tail(q)) : Tail(q)[i] = q[i + 1]
        /\ Range(Tail(q)) = Range(q) \ {q[1]} /\ q[1] \in Range(q)
    BY <1>5, HeadTailProperties, RangeOfTail DEF PumpAdmits, Sound
  <2>2. stamps' \in Seq(Ages) /\ recent' \in Seq(Ages)
    BY <1>2, <1>5, AppendProperties DEF PumpAdmits
  <2>3. Cardinality(running') = n + 1 /\ running' \in SUBSET Callers
    <3>1. running' = r \cup {q[1]} /\ n = Cardinality(r) /\ r \in SUBSET Callers
      BY <1>5, <2>1 DEF PumpAdmits, Sound
    <3>2. Cardinality(r \cup {q[1]}) = Cardinality(r) + 1
      BY <1>1, <2>1, FS_AddElement
    <3>. QED BY <2>1, <3>1, <3>2
  <2>4. \A i, j \in 1..Len(queue') : queue'[i] = queue'[j] => i = j
    <3>1. queue' = Tail(q) /\ Len(q) \in Nat
      BY <1>5 DEF PumpAdmits, Sound
    <3>2. \A i \in 1..Len(Tail(q)) : i + 1 \in 1..Len(q)
      BY <2>1, <3>1
    <3>. QED BY <2>1, <3>1, <3>2 DEF Sound
  <2>5. Queued' = Range(q) \ {q[1]}
    BY <1>5, <2>1 DEF PumpAdmits, Queued
  <2>6. WakeupPending'
    <3>1. /\ active' = n + 1 /\ Len(queue') = Len(q) - 1 /\ timers' = t
          /\ n < Concurrency /\ Fewer(Concurrency - n, Len(q)) <= Len(t) + 1
      BY <1>5, <2>1 DEF PumpAdmits, Sound
    <3>2. n \in Nat /\ Concurrency \in Nat /\ Len(q) \in Nat /\ Len(t) \in Nat
      BY <1>1 DEF Sound
    <3>3. Fewer(Concurrency - (n + 1), Len(q) - 1) <= Len(t)
      BY <3>1, <3>2 DEF Fewer
    <3>. QED BY <3>1, <3>3 DEF WakeupPending
  <2>7. Queued' \cap running' = {}
    BY <1>5, <2>1, <2>5 DEF PumpAdmits, Sound
  <2>8. Queued' \cup running' = Range(q) \cup r
    BY <1>5, <2>1, <2>5 DEF PumpAdmits
  <2>9. SlotsAccounted' /\ active' \in Nat /\ timers' \in Seq(Delays)
    BY <1>1, <1>5, <2>3 DEF PumpAdmits, Sound, SlotsAccounted
  <2>. QED BY <1>5, <2>1, <2>2, <2>3, <2>4, <2>6, <2>7, <2>8, <2>9 DEF PumpAdmits
<1>. QED BY <1>3, <1>4, <1>5 DEF Pump

-----------------------------------------------------------------------------
(* The initial state: nobody anywhere, nothing in flight.                    *)
LEMMA IInvInit == Init => IInv
<1>. SUFFICES ASSUME Init PROVE IInv
  OBVIOUS
<1>1. TypeOK
  BY LimiterAssumption DEF Init, TypeOK
<1>2. OnePlace /\ TriesLeft
  BY DEF Init, OnePlace, Queued, TriesLeft
<1>3. SlotsAccounted /\ WakeupPending
  BY LimiterAssumption, FS_EmptySet DEF Init, SlotsAccounted, WakeupPending, Fewer
<1>. QED BY <1>1, <1>2, <1>3 DEF IInv

(* Joining the queue: a caller that is nowhere else is appended to it.       *)
LEMMA JoinSound ==
  ASSUME IInv, NEW c \in Callers, c \notin Queued \cup running
  PROVE  /\ Sound(Append(queue, c), running, active, timers)
         /\ Range(Append(queue, c)) = Queued \cup {c}
<1>. DEFINE q == Append(queue, c)
<1>1. /\ q \in Seq(Callers) /\ Len(q) = Len(queue) + 1
      /\ \A i \in 1..Len(queue) : q[i] = queue[i]
      /\ q[Len(queue) + 1] = c
      /\ Len(queue) \in Nat
  BY AppendProperties DEF IInv, TypeOK
<1>2. Range(q) = Queued \cup {c}
  BY RangeOfAppend DEF IInv, TypeOK, Queued
<1>3. \A i, j \in 1..Len(q) : q[i] = q[j] => i = j
  <2>1. \A i \in 1..Len(queue) : q[i] # c
    BY <1>1, RangeEquality DEF Queued, IInv, TypeOK
  <2>. HIDE DEF q
  <2>. QED BY <1>1, <2>1 DEF IInv, OnePlace
<1>4. Fewer(Concurrency - active, Len(q)) <= Len(timers) + 1
  BY <1>1, LimiterAssumption DEF IInv, TypeOK, WakeupPending, Fewer
<1>. QED
  BY <1>1, <1>2, <1>3, <1>4 DEF Sound, IInv, TypeOK, SlotsAccounted, OnePlace

(* Giving a slot back: one more wakeup may be owed, which pump then sees to. *)
LEMMA ReleaseSound ==
  ASSUME IInv, NEW c \in running
  PROVE  Sound(queue, running \ {c}, active - 1, timers)
<1>1. IsFiniteSet(running)
  BY LimiterAssumption, FS_Subset DEF IInv, TypeOK
<1>2. Cardinality(running \ {c}) = active - 1
  BY <1>1, FS_RemoveElement DEF IInv, SlotsAccounted
<1>3. Fewer(Concurrency - (active - 1), Len(queue)) <= Len(timers) + 1
  BY LimiterAssumption DEF IInv, TypeOK, WakeupPending, Fewer
<1>. QED
  BY <1>2, <1>3, LimiterAssumption
     DEF Sound, IInv, TypeOK, SlotsAccounted, OnePlace, Queued

(* A timer that fires is one timer fewer, until its pump has run.            *)
LEMMA TimerSound ==
  ASSUME IInv, timers # <<>>
  PROVE  Sound(queue, running, active, Tail(timers))
<1>1. Tail(timers) \in Seq(Delays) /\ Len(Tail(timers)) = Len(timers) - 1
  BY HeadTailProperties DEF IInv, TypeOK
<1>2. Fewer(Concurrency - active, Len(queue)) <= Len(Tail(timers)) + 1
  BY <1>1, LimiterAssumption DEF IInv, TypeOK, WakeupPending, Fewer
<1>. QED
  BY <1>1, <1>2 DEF Sound, IInv, TypeOK, SlotsAccounted, OnePlace, Queued

(* Every action leaves the books sound for the pump that ends it.            *)
LEMMA IInvNext == IInv /\ [Next]_vars => IInv'
<1>. SUFFICES ASSUME IInv, [Next]_vars PROVE IInv'
  OBVIOUS
<1>. USE LimiterAssumption
<1>0. stamps \in Seq(Ages) /\ recent \in Seq(Ages)
  BY DEF IInv, TypeOK
<1>1. ASSUME NEW c \in Callers, Call(c) PROVE IInv'
  <2>1. c \notin Queued \cup running \cup backoff
    BY <1>1 DEF Call, Idle
  <2>2. /\ Sound(Append(queue, c), running, active, timers)
        /\ Range(Append(queue, c)) = Queued \cup {c}
    BY <2>1, JoinSound
  <2>3. Pump(Append(queue, c), running, active, timers)
    BY <1>1 DEF Call
  <2>4. /\ tries' \in [Callers -> 0..Tries] /\ backoff' = backoff
        /\ \A b \in backoff : tries'[b] = tries[b]
    BY <1>1, <2>1 DEF Call, IInv, TypeOK
  <2>5. (Queued' \cup running') \cap backoff' = {}
    <3>1. Queued' \cup running' = (Queued \cup {c}) \cup running
      <4>1. Queued' \cup running'
              = Range(Append(queue, c)) \cup running
        BY <1>0, <2>2, <2>3, PumpKeepsBooks
      <4>. QED BY <4>1, <2>2, Zenon
    <3>. QED BY <3>1, <2>1, <2>4 DEF IInv, OnePlace
  <2>6. TypeOK' BY <1>0, <2>2, <2>3, <2>4, PumpKeepsBooks DEF IInv, TypeOK
  <2>7. OnePlace' BY <1>0, <2>2, <2>3, <2>5, PumpKeepsBooks DEF OnePlace
  <2>8. TriesLeft' BY <2>4 DEF IInv, TypeOK, TriesLeft
  <2>. QED BY <1>0, <2>2, <2>3, <2>6, <2>7, <2>8, PumpKeepsBooks DEF IInv
<1>2. ASSUME NEW c \in Callers, Finish(c) PROVE IInv'
  <2>1. Sound(queue, running \ {c}, active - 1, timers)
    BY <1>2, ReleaseSound DEF Finish
  <2>2. Pump(queue, running \ {c}, active - 1, timers)
    BY <1>2 DEF Finish
  <2>3. /\ tries' \in [Callers -> 0..Tries] /\ backoff' = backoff
        /\ \A b \in backoff : tries'[b] = tries[b]
    BY <1>2 DEF Finish, IInv, TypeOK, OnePlace
  <2>4. (Queued' \cup running') \cap backoff' = {}
    <3>1. Queued' \cup running' = Queued \cup (running \ {c})
      <4>1. Queued' \cup running' = Range(queue) \cup (running \ {c})
        BY <1>0, <2>1, <2>2, PumpKeepsBooks
      <4>. QED BY <4>1, Zenon DEF Queued
    <3>. QED BY <3>1, <2>3 DEF IInv, OnePlace
  <2>5. TypeOK' BY <1>0, <2>1, <2>2, <2>3, PumpKeepsBooks DEF IInv, TypeOK
  <2>6. OnePlace' BY <1>0, <2>1, <2>2, <2>4, PumpKeepsBooks DEF OnePlace
  <2>7. TriesLeft' BY <2>3 DEF IInv, TypeOK, TriesLeft
  <2>. QED BY <1>0, <2>1, <2>2, <2>5, <2>6, <2>7, PumpKeepsBooks DEF IInv
<1>3. ASSUME NEW c \in Callers, FailRetryable(c) PROVE IInv'
  <2>1. Sound(queue, running \ {c}, active - 1, timers)
    BY <1>3, ReleaseSound DEF FailRetryable
  <2>2. Pump(queue, running \ {c}, active - 1, timers)
    BY <1>3 DEF FailRetryable
  <2>3. /\ tries' = tries /\ backoff' = backoff \cup {c} /\ tries[c] < Tries
    BY <1>3 DEF FailRetryable
  <2>4. (Queued' \cup running') \cap backoff' = {}
    <3>1. Queued' \cup running' = Queued \cup (running \ {c})
      <4>1. Queued' \cup running' = Range(queue) \cup (running \ {c})
        BY <1>0, <2>1, <2>2, PumpKeepsBooks
      <4>. QED BY <4>1, Zenon DEF Queued
    <3>2. c \notin Queued /\ c \in running
      BY <1>3 DEF FailRetryable, IInv, OnePlace
    <3>. QED BY <3>1, <3>2, <2>3 DEF IInv, OnePlace
  <2>5. TypeOK' BY <1>0, <2>1, <2>2, <2>3, PumpKeepsBooks DEF IInv, TypeOK
  <2>6. OnePlace' BY <1>0, <2>1, <2>2, <2>4, PumpKeepsBooks DEF OnePlace
  <2>7. TriesLeft' BY <2>3 DEF IInv, TypeOK, TriesLeft
  <2>. QED BY <1>0, <2>1, <2>2, <2>5, <2>6, <2>7, PumpKeepsBooks DEF IInv
<1>4. ASSUME NEW c \in Callers, Retry(c) PROVE IInv'
  <2>1. c \in backoff /\ c \notin Queued \cup running
    BY <1>4 DEF Retry, IInv, OnePlace
  <2>2. /\ Sound(Append(queue, c), running, active, timers)
        /\ Range(Append(queue, c)) = Queued \cup {c}
    BY <2>1, JoinSound
  <2>3. Pump(Append(queue, c), running, active, timers)
    BY <1>4 DEF Retry
  <2>4. /\ tries' \in [Callers -> 0..Tries] /\ backoff' = backoff \ {c}
        /\ \A b \in backoff' : tries'[b] = tries[b]
    BY <1>4, <2>1 DEF Retry, IInv, TypeOK, TriesLeft
  <2>5. (Queued' \cup running') \cap backoff' = {}
    <3>1. Queued' \cup running' = (Queued \cup {c}) \cup running
      <4>1. Queued' \cup running'
              = Range(Append(queue, c)) \cup running
        BY <1>0, <2>2, <2>3, PumpKeepsBooks
      <4>. QED BY <4>1, <2>2, Zenon
    <3>. QED BY <3>1, <2>1, <2>4 DEF IInv, OnePlace
  <2>6. TypeOK' BY <1>0, <2>2, <2>3, <2>4, PumpKeepsBooks DEF IInv, TypeOK
  <2>7. OnePlace' BY <1>0, <2>2, <2>3, <2>5, PumpKeepsBooks DEF OnePlace
  <2>8. TriesLeft' BY <2>4 DEF IInv, TypeOK, TriesLeft
  <2>. QED BY <1>0, <2>2, <2>3, <2>6, <2>7, <2>8, PumpKeepsBooks DEF IInv
<1>5. CASE TimerFires
  <2>1. /\ Sound(queue, running, active, Tail(timers))
        /\ Pump(queue, running, active, Tail(timers))
        /\ UNCHANGED <<backoff, tries>>
    BY <1>5, TimerSound DEF TimerFires
  <2>2. Queued' \cup running' = Queued \cup running
    <3>1. Queued' \cup running' = Range(queue) \cup running
      BY <1>0, <2>1, PumpKeepsBooks
    <3>. QED BY <3>1, Zenon DEF Queued
  <2>3. (Queued' \cup running') \cap backoff' = {}
    BY <2>1, <2>2 DEF IInv, OnePlace
  <2>4. TypeOK' BY <1>0, <2>1, PumpKeepsBooks DEF IInv, TypeOK
  <2>5. OnePlace' BY <1>0, <2>1, <2>3, PumpKeepsBooks DEF OnePlace
  <2>6. TriesLeft' BY <2>1 DEF IInv, TriesLeft
  <2>. QED BY <1>0, <2>1, <2>4, <2>5, <2>6, PumpKeepsBooks DEF IInv
<1>6. CASE Tick
  <2>1. UNCHANGED <<queue, running, backoff, tries, active>>
    BY <1>6 DEF Tick
  <2>2. stamps' \in Seq(Ages) /\ recent' \in Seq(Ages)
    BY <1>0, <1>6, AgedIsSeq, LiveIsSeq DEF Tick
  <2>3. timers' \in Seq(Delays) /\ Len(timers') = Len(timers)
    <3>1. \A i \in 1..Len(timers) : timers[i] > 0
      BY <1>6 DEF Tick
    <3>. QED BY <3>1, <1>6 DEF Tick, IInv, TypeOK, Delays
  <2>4. TypeOK' BY <2>1, <2>2, <2>3 DEF IInv, TypeOK
  <2>5. OnePlace' BY <2>1 DEF IInv, OnePlace, Queued
  <2>6. SlotsAccounted' BY <2>1 DEF IInv, SlotsAccounted
  <2>7. WakeupPending' BY <2>1, <2>3 DEF IInv, WakeupPending
  <2>8. TriesLeft' BY <2>1 DEF IInv, TriesLeft
  <2>. QED BY <2>4, <2>5, <2>6, <2>7, <2>8 DEF IInv
<1>7. CASE UNCHANGED vars
  BY <1>7 DEF vars, IInv, TypeOK, OnePlace, Queued, SlotsAccounted, WakeupPending, TriesLeft
<1>. QED BY <1>1, <1>2, <1>3, <1>4, <1>5, <1>6, <1>7 DEF Next

(* The strengthened invariant holds in every reachable state.                *)
THEOREM LimiterInvariant == Spec => []IInv
BY IInvInit, IInvNext, PTL DEF Spec

(* Every variable keeps its type.                                            *)
THEOREM LimiterTypes == Spec => []TypeOK
<1>1. IInv => TypeOK BY DEF IInv
<1>. QED BY <1>1, LimiterInvariant, PTL

(* Slots are never leaked, freed twice or oversubscribed.                    *)
THEOREM SlotsAlwaysAccounted == Spec => []SlotsAccounted
<1>1. IInv => SlotsAccounted BY DEF IInv
<1>. QED BY <1>1, LimiterInvariant, PTL

(* A caller is queued, served, backing off or idle, and only one of these.   *)
THEOREM OnePlaceAlways == Spec => []OnePlace
<1>1. IInv => OnePlace BY DEF IInv
<1>. QED BY <1>1, LimiterInvariant, PTL

(* A free slot is never left without a pump to offer it to a queued caller.  *)
THEOREM WakeupAlwaysPending == Spec => []WakeupPending
<1>1. IInv => WakeupPending BY DEF IInv
<1>. QED BY <1>1, LimiterInvariant, PTL

-----------------------------------------------------------------------------
(***************************************************************************)
(* The window budget.  pump prunes stamps only when it runs, so stamps may *)
(* hold requests the relayer has stopped counting; what makes the budget   *)
(* hold is that pruning them now always gives exactly what it counts.      *)
(***************************************************************************)
OldestFirst(s) == \A i, j \in 1..Len(s) : i <= j => s[i] >= s[j]

BudgetInv ==
  /\ OldestFirst(stamps)
  /\ recent = Live(stamps)
  /\ Len(recent) <= Capacity

(* The size of a prefix of the positions of a sequence.                      *)
LEMMA IntervalSize ==
  ASSUME NEW n \in Nat
  PROVE  IsFiniteSet(1..n) /\ Cardinality(1..n) = n
<1>1. /\ IsFiniteSet(1..n)
      /\ Cardinality(1..n) = IF 1 > n THEN 0 ELSE n - 1 + 1
  BY FS_Interval
<1>. QED BY <1>1

(* Old stamps are a prefix, so dropping as many as there are drops them.     *)
LEMMA ExpiredIsPrefix ==
  ASSUME NEW s \in Seq(Ages), OldestFirst(s)
  PROVE  /\ Cardinality(Expired(s)) \in 0..Len(s)
         /\ Expired(s) = 1..Cardinality(Expired(s))
<1>. DEFINE E == Expired(s)
            n == Cardinality(E)
<1>. USE LimiterAssumption
<1>1. IsFiniteSet(1..Len(s)) /\ Cardinality(1..Len(s)) = Len(s) /\ Len(s) \in Nat
  BY IntervalSize
<1>2. E \subseteq 1..Len(s)
  BY DEF Expired
<1>3. IsFiniteSet(E) /\ n \in 0..Len(s)
  <2>1. IsFiniteSet(E) /\ n <= Len(s)
    BY <1>1, <1>2, FS_Subset
  <2>. QED BY <1>1, <2>1, FS_CardinalityType
<1>4. \A i \in E : \A j \in 1..i : j \in E
  BY <1>1, ElementOfSeq DEF Expired, OldestFirst, Ages
<1>5. ASSUME NEW i \in E PROVE i <= n
  <2>1. 1..i \subseteq E
    BY <1>4, <1>5
  <2>2. Cardinality(1..i) = i
    BY <1>1, <1>2, IntervalSize
  <2>. QED BY <1>3, <2>1, <2>2, FS_Subset
<1>6. ASSUME NEW i \in 1..n, i \notin E PROVE FALSE
  <2>1. E \subseteq 1..(i - 1)
    BY <1>1, <1>2, <1>3, <1>4, <1>6
  <2>2. IsFiniteSet(1..(i - 1)) /\ Cardinality(1..(i - 1)) = i - 1
    BY <1>3, <1>6, IntervalSize
  <2>3. n <= i - 1
    BY <2>1, <2>2, FS_Subset
  <2>. QED BY <1>3, <1>6, <2>3
<1>7. \A i \in E : i \in 1..n
  BY <1>1, <1>2, <1>3, <1>5
<1>8. \A i \in 1..n : i \in E
  BY <1>6
<1>. HIDE DEF E, n
<1>9. E = 1..n
  BY <1>7, <1>8
<1>. QED BY <1>3, <1>9 DEF E, n

(* The suffix the filter keeps, element by element.                          *)
LEMMA LiveElements ==
  ASSUME NEW s \in Seq(Ages), NEW n \in 0..Len(s), Expired(s) = 1..n
  PROVE  /\ Live(s) \in Seq(Ages)
         /\ Len(Live(s)) = Len(s) - n
         /\ \A i \in 1..(Len(s) - n) : Live(s)[i] = s[n + i] /\ s[n + i] < Window
<1>. USE LimiterAssumption
<1>1. Len(s) \in Nat /\ n \in Nat /\ Cardinality(Expired(s)) = n
  BY IntervalSize
<1>2. Live(s) = SubSeq(s, n + 1, Len(s))
  BY <1>1 DEF Live
<1>3. \A i \in (n + 1)..Len(s) : s[i] \in Ages
  BY <1>1, ElementOfSeq
<1>4. /\ Len(Live(s)) = Len(s) - n
      /\ \A i \in 1..(Len(s) - n) : Live(s)[i] = s[n + i]
  BY <1>1, <1>2, <1>3, SubSeqProperties
<1>5. ASSUME NEW i \in 1..(Len(s) - n) PROVE s[n + i] < Window
  <2>1. n + i \in 1..Len(s) /\ n + i \notin 1..n
    BY <1>1
  <2>2. s[n + i] \in Ages
    BY <2>1, ElementOfSeq
  <2>. QED BY <2>1, <2>2 DEF Expired, Ages
<1>. QED BY <1>4, <1>5, LiveIsSeq

(* Nothing is left to drop from what the filter kept, nor after a stamp of   *)
(* the present is added to it.                                               *)
LEMMA LiveOfYoung ==
  ASSUME NEW s \in Seq(Ages), \A i \in 1..Len(s) : s[i] < Window
  PROVE  Live(s) = s
<1>1. Expired(s) = 1..0 /\ 0 \in 0..Len(s)
  BY LimiterAssumption, ElementOfSeq DEF Expired, Ages
<1>2. /\ Live(s) \in Seq(Ages) /\ Len(Live(s)) = Len(s) - 0
      /\ \A i \in 1..(Len(s) - 0) : Live(s)[i] = s[0 + i]
  BY <1>1, LiveElements
<1>3. Len(Live(s)) = Len(s) /\ \A i \in 1..Len(s) : Live(s)[i] = s[i]
  BY <1>2
<1>. QED BY <1>2, <1>3, SeqEqual

(* What the filter keeps is oldest first, and all of it within the window.   *)
LEMMA LiveYoung ==
  ASSUME NEW s \in Seq(Ages), OldestFirst(s)
  PROVE  /\ Live(s) \in Seq(Ages)
         /\ OldestFirst(Live(s))
         /\ \A i \in 1..Len(Live(s)) : Live(s)[i] < Window
<1>1. PICK n \in 0..Len(s) : Expired(s) = 1..n
  BY ExpiredIsPrefix
<1>2. /\ Live(s) \in Seq(Ages) /\ Len(Live(s)) = Len(s) - n
      /\ \A i \in 1..(Len(s) - n) : Live(s)[i] = s[n + i] /\ s[n + i] < Window
  BY <1>1, LiveElements
<1>3. \A i \in 1..(Len(s) - n) : n + i \in 1..Len(s)
  OBVIOUS
<1>4. ASSUME NEW i \in 1..(Len(s) - n), NEW j \in 1..(Len(s) - n), i <= j
      PROVE  Live(s)[i] >= Live(s)[j]
  <2>1. n + i <= n + j
    BY <1>4
  <2>2. s[n + i] >= s[n + j]
    BY <1>3, <2>1 DEF OldestFirst
  <2>. QED BY <1>2, <2>2
<1>. QED BY <1>2, <1>4 DEF OldestFirst

(* Ageing commutes with pruning.                                             *)
LEMMA AgedElements ==
  ASSUME NEW s \in Seq(Ages), OldestFirst(s)
  PROVE  /\ Aged(s) \in Seq(Ages) /\ Len(Aged(s)) = Len(s)
         /\ \A i \in 1..Len(s) : Aged(s)[i] = Older(s[i])
         /\ OldestFirst(Aged(s))
         /\ Expired(s) \subseteq Expired(Aged(s))
<1>1. /\ Aged(s) \in Seq(Ages) /\ Len(Aged(s)) = Len(s)
      /\ \A i \in 1..Len(s) : Aged(s)[i] = Older(s[i])
  BY AgedIsSeq DEF Aged
<1>2. \A i \in 1..Len(s) : s[i] \in Ages
  BY ElementOfSeq
<1>3. \A a, b \in Ages : (a >= b => Older(a) >= Older(b)) /\ (a >= Window => Older(a) >= Window)
  BY LimiterAssumption DEF Older, Ages
<1>4. OldestFirst(Aged(s))
  BY <1>1, <1>2, <1>3 DEF OldestFirst
<1>5. Expired(s) \subseteq Expired(Aged(s))
  BY <1>1, <1>2, <1>3 DEF Expired
<1>. QED BY <1>1, <1>4, <1>5

(* Pruning now and again after a tick is pruning once after the tick.        *)
LEMMA AgedLive ==
  ASSUME NEW s \in Seq(Ages), OldestFirst(s)
  PROVE  Live(Aged(Live(s))) = Live(Aged(s))
<1>. DEFINE L == Live(s)
            A == Aged(s)
            M == Aged(L)
<1>1. PICK n \in 0..Len(s) : Expired(s) = 1..n
  BY ExpiredIsPrefix
<1>2. /\ L \in Seq(Ages) /\ Len(L) = Len(s) - n /\ OldestFirst(L)
      /\ \A i \in 1..(Len(s) - n) : L[i] = s[n + i]
  BY <1>1, LiveElements, LiveYoung
<1>3. /\ A \in Seq(Ages) /\ Len(A) = Len(s) /\ OldestFirst(A)
      /\ \A i \in 1..Len(s) : A[i] = Older(s[i])
      /\ Expired(s) \subseteq Expired(A)
  BY AgedElements
<1>4. /\ M \in Seq(Ages) /\ Len(M) = Len(s) - n
      /\ \A i \in 1..(Len(s) - n) : M[i] = Older(L[i])
  BY <1>2, AgedElements
<1>5. PICK m \in 0..Len(A) : Expired(A) = 1..m
  BY <1>3, ExpiredIsPrefix
<1>. HIDE DEF L, A, M
<1>6. m \in n..Len(s) /\ Len(s) \in Nat /\ n \in Nat /\ m \in Nat
  BY <1>1, <1>3, <1>5
<1>7. \A i \in 1..(Len(s) - n) : M[i] = A[n + i] /\ n + i \in 1..Len(s)
  BY <1>2, <1>3, <1>4, <1>6
<1>8. Expired(M) = 1..(m - n)
  <2>1. \A i \in 1..(Len(s) - n) : M[i] >= Window <=> n + i \in 1..m
    BY <1>3, <1>5, <1>7 DEF Expired
  <2>. QED BY <1>4, <1>6, <2>1 DEF Expired
<1>9. /\ Live(A) \in Seq(Ages) /\ Len(Live(A)) = Len(s) - m
      /\ \A i \in 1..(Len(s) - m) : Live(A)[i] = A[m + i]
  BY <1>3, <1>5, <1>6, LiveElements
<1>10. m - n \in 0..Len(M) /\ Len(M) - (m - n) = Len(s) - m
  BY <1>4, <1>6
<1>11. /\ Live(M) \in Seq(Ages) /\ Len(Live(M)) = Len(s) - m
       /\ \A i \in 1..(Len(s) - m) : Live(M)[i] = M[(m - n) + i]
  BY <1>4, <1>8, <1>10, LiveElements
<1>12. \A i \in 1..(Len(s) - m) : M[(m - n) + i] = A[m + i]
  <2>1. \A i \in 1..(Len(s) - m) : (m - n) + i \in 1..(Len(s) - n) /\ n + ((m - n) + i) = m + i
    BY <1>6
  <2>. QED BY <1>7, <2>1
<1>13. Live(M) = Live(A)
  BY <1>9, <1>11, <1>12, SeqEqual
<1>. QED BY <1>13 DEF L, A, M

(* What the relayer counts is what pump would keep if it ran now, and stays  *)
(* so under every action.                                                    *)
LEMMA BudgetNext == IInv /\ BudgetInv /\ [Next]_vars => BudgetInv'
<1>. SUFFICES ASSUME IInv, BudgetInv, [Next]_vars PROVE BudgetInv'
  OBVIOUS
<1>. USE LimiterAssumption
<1>1. stamps \in Seq(Ages) /\ recent \in Seq(Ages) /\ OldestFirst(stamps)
  BY DEF IInv, TypeOK, BudgetInv
<1>2. /\ Live(stamps) \in Seq(Ages) /\ OldestFirst(Live(stamps))
      /\ \A i \in 1..Len(Live(stamps)) : Live(stamps)[i] < Window
  BY <1>1, LiveYoung
<1>3. ASSUME NEW q, NEW r, NEW n, NEW t, Pump(q, r, n, t) PROVE BudgetInv'
  <2>1. CASE PumpIdle(q, r, n, t)
    BY <2>1 DEF PumpIdle, BudgetInv
  <2>2. CASE PumpArms(q, r, n, t)
    <3>1. Live(Live(stamps)) = Live(stamps)
      BY <1>2, LiveOfYoung
    <3>. QED BY <1>2, <2>2, <3>1 DEF PumpArms, BudgetInv
  <2>3. CASE PumpAdmits(q, r, n, t)
    <3>. DEFINE s == Append(Live(stamps), 0)
    <3>1. /\ s \in Seq(Ages) /\ Len(s) = Len(Live(stamps)) + 1
          /\ \A i \in 1..Len(Live(stamps)) : s[i] = Live(stamps)[i]
          /\ s[Len(Live(stamps)) + 1] = 0
      BY <1>2, AppendProperties DEF Ages
    <3>2. /\ stamps' = s /\ recent' = s /\ Len(Live(stamps)) < Capacity
      BY <2>3 DEF PumpAdmits, BudgetInv
    <3>. HIDE DEF s
    <3>3. \A i \in 1..Len(s) : i \in 1..Len(Live(stamps)) \/ i = Len(Live(stamps)) + 1
      BY <1>2, <3>1
    <3>4. \A i \in 1..Len(Live(stamps)) : Live(stamps)[i] \in Ages
      BY <1>2, ElementOfSeq
    <3>5. \A i \in 1..Len(s) : s[i] < Window
      BY <1>2, <3>1, <3>3
    <3>6. OldestFirst(s)
      BY <1>2, <3>1, <3>3, <3>4 DEF OldestFirst, Ages
    <3>7. Live(s) = s
      BY <3>1, <3>5, LiveOfYoung
    <3>. QED BY <1>2, <3>1, <3>2, <3>6, <3>7 DEF BudgetInv
  <2>. QED BY <1>3, <2>1, <2>2, <2>3 DEF Pump
<1>4. CASE Tick
  <2>1. stamps' = Aged(stamps) /\ recent' = Live(Aged(Live(stamps)))
    BY <1>4 DEF Tick, BudgetInv
  <2>2. OldestFirst(stamps') /\ recent' = Live(stamps')
    BY <1>1, <2>1, AgedElements, AgedLive
  <2>3. Len(recent') <= Capacity
    <3>1. /\ Aged(Live(stamps)) \in Seq(Ages) /\ OldestFirst(Aged(Live(stamps)))
          /\ Len(Aged(Live(stamps))) = Len(Live(stamps))
      BY <1>2, AgedElements
    <3>2. PICK n \in 0..Len(Aged(Live(stamps))) : Expired(Aged(Live(stamps))) = 1..n
      BY <3>1, ExpiredIsPrefix
    <3>3. Len(Live(Aged(Live(stamps)))) = Len(Aged(Live(stamps))) - n
      BY <3>1, <3>2, LiveElements
    <3>4. Len(Live(stamps)) <= Capacity /\ Len(Live(stamps)) \in Nat
      BY <1>2 DEF BudgetInv
    <3>. QED BY <2>1, <3>1, <3>2, <3>3, <3>4
  <2>. QED BY <2>2, <2>3 DEF BudgetInv
<1>5. CASE UNCHANGED vars
  BY <1>5 DEF vars, BudgetInv
<1>6. CASE \E c \in Callers : Call(c) \/ Finish(c) \/ FailRetryable(c) \/ Retry(c)
  BY <1>3, <1>6 DEF Call, Finish, FailRetryable, Retry
<1>7. CASE TimerFires
  BY <1>3, <1>7 DEF TimerFires
<1>. QED BY <1>4, <1>5, <1>6, <1>7 DEF Next

(* At most Capacity requests leave in any Window ticks.                      *)
THEOREM BudgetAlwaysKept == Spec => []WindowBudget
<1>1. Init => BudgetInv
  <2>. SUFFICES ASSUME Init PROVE BudgetInv
    OBVIOUS
  <2>1. stamps = <<>> /\ recent = <<>> /\ stamps \in Seq(Ages) /\ Len(stamps) = 0
    BY DEF Init
  <2>2. \A i \in 1..Len(stamps) : stamps[i] < Window
    BY <2>1
  <2>3. Live(stamps) = stamps
    BY <2>1, <2>2, LiveOfYoung
  <2>. QED BY <2>1, <2>3, LimiterAssumption DEF BudgetInv, OldestFirst
<1>2. BudgetInv => WindowBudget
  BY DEF BudgetInv, WindowBudget
<1>. QED BY <1>1, <1>2, BudgetNext, LimiterInvariant, PTL DEF Spec

-----------------------------------------------------------------------------
(***************************************************************************)
(* Every step of the limiter is a step of FifoSlots, or leaves it alone.   *)
(* pump never lets in anyone but the head of the queue it was called with, *)
(* and never more than Concurrency.                                        *)
(***************************************************************************)
LEMMA SameCardinality == \A S : Slots!Cardinality(S) = Cardinality(S)
BY Zenon DEF Slots!Cardinality, Cardinality, Slots!IsFiniteSet, IsFiniteSet

LEMMA SameRange == \A f : Slots!Range(f) = Range(f)
BY DEF Slots!Range, Range

(* A pump holds everyone where they are or grants the head a slot.           *)
LEMMA PumpHoldsOrGrants ==
  ASSUME NEW q, NEW r, NEW n, NEW t, Sound(q, r, n, t), Pump(q, r, n, t)
  PROVE  Slots!Hold(q, r) \/ Slots!Grant(q, r)
BY SameCardinality
   DEF Pump, PumpIdle, PumpArms, PumpAdmits, Sound, Slots!Hold, Slots!Grant

(* Step by step: a call arrives, an end leaves, a retry arrives, the rest    *)
(* serve or stutter.                                                         *)
LEMMA StepImplementsSlots == IInv /\ [Next]_vars => [Slots!Next]_(Slots!vars)
<1>. SUFFICES ASSUME IInv, [Next]_vars PROVE [Slots!Next]_(Slots!vars)
  OBVIOUS
<1>. USE DEF Slots!Next
<1>1. ASSUME NEW c \in Callers, Call(c) \/ Retry(c) PROVE Slots!Next
  <2>1. c \notin Queued \cup running /\ Pump(Append(queue, c), running, active, timers)
    BY <1>1 DEF Call, Retry, Idle, IInv, OnePlace
  <2>2. Slots!Hold(Append(queue, c), running) \/ Slots!Grant(Append(queue, c), running)
    BY <2>1, JoinSound, PumpHoldsOrGrants
  <2>3. Slots!Arrive(c)
    BY <2>1, <2>2, SameRange DEF Slots!Arrive, Slots!Waiting, Queued
  <2>. QED BY <2>3
<1>2. ASSUME NEW c \in Callers, Finish(c) \/ FailRetryable(c) PROVE Slots!Next
  <2>1. c \in running /\ Pump(queue, running \ {c}, active - 1, timers)
    BY <1>2 DEF Finish, FailRetryable
  <2>2. Slots!Hold(queue, running \ {c}) \/ Slots!Grant(queue, running \ {c})
    BY <2>1, ReleaseSound, PumpHoldsOrGrants
  <2>3. Slots!Leave(c)
    BY <2>1, <2>2 DEF Slots!Leave
  <2>. QED BY <2>3
<1>3. CASE TimerFires
  <2>1. Slots!Hold(queue, running) \/ Slots!Grant(queue, running)
    BY <1>3, TimerSound, PumpHoldsOrGrants DEF TimerFires
  <2>. QED BY <2>1 DEF Slots!Hold, Slots!Serve, Slots!vars
<1>4. CASE Tick \/ UNCHANGED vars
  BY <1>4 DEF Tick, vars, Slots!vars
<1>. QED BY <1>1, <1>2, <1>3, <1>4 DEF Next

(* The limiter implements the safety part of the fair FIFO semaphore; its    *)
(* fairness is left to the model checker.                                    *)
THEOREM LimiterImplementsSlots == Spec => Slots!Spec
<1>1. Init => Slots!Init
  BY DEF Init, Slots!Init
<1>. QED BY <1>1, StepImplementsSlots, LimiterInvariant, PTL DEF Spec, Slots!Spec


-----------------------------------------------------------------------------
(***************************************************************************)
(* Admission proved for any callers, addresses, windows, caps and bounds.  *)
(* A count is compared with another over every window at once: After(S, u) *)
(* is what S has after u.  AdmissionInv is the inductive invariant.        *)
(***************************************************************************)

After(S, u) == {s \in S : s[1] > u}
Count(S, u) == Cardinality(After(S, u))

(* Stamps up to t, each the n-th of its time.                                *)
Stamps(S, t) ==
  /\ IsFiniteSet(S)
  /\ \A s \in S : s[1] \in Int /\ s[1] <= t /\ s[2] \in Nat /\ s[2] < Cardinality(At(S, s[1]))

(* Whoever was let in after u has a row after u, is in progress, or left no  *)
(* row.                                                                      *)
Capped(window, cap) ==
  Count(started, now - window) <= cap + Cardinality(Calls) - 1 + lost
PersonInv ==
  /\ now \in Nat /\ lost \in Nat /\ inProgress \subseteq Calls
  /\ Stamps(rows, now) /\ Stamps(started, now)
  /\ \A u \in Int : Count(started, u) <= Count(rows, u) + Cardinality(inProgress) + lost
  /\ Capped(Minute, PerMinute) /\ Capped(Day, PerDay)

(* Whoever an address got through after u has a hit after u, or came before  *)
(* a restart after u, and no restart forgot more than the cap.               *)
Covered(a, window, cap) ==
  \A u \in Int : u >= now - window =>
    /\ Count(hits[a], u) <= cap
    /\ Count(passed[a], u) <= Count(hits[a], u) + cap * Count(restarts, u)
AddressInv ==
  /\ Stamps(restarts, now)
  /\ hits = [a \in Address |-> hits[a]] /\ passed = [a \in Address |-> passed[a]]
  /\ \A a \in Address : /\ Stamps(hits[a], now) /\ Stamps(passed[a], now)
                        /\ Covered(a, Minute, IpMinute) /\ Covered(a, Hour, IpHour)

AdmissionInv == PersonInv /\ AddressInv

-----------------------------------------------------------------------------
(* Counting.                                                                 *)
LEMMA CountType ==
  ASSUME NEW t, NEW S, Stamps(S, t), NEW u
  PROVE  IsFiniteSet(After(S, u)) /\ Count(S, u) \in Nat
<1>1. After(S, u) \in SUBSET S /\ IsFiniteSet(S)
  BY DEF After, Stamps
<1>2. IsFiniteSet(After(S, u))
  BY <1>1, FS_Subset
<1>. QED BY <1>2, FS_CardinalityType DEF Count

LEMMA NoneCounted == \A t, u : Stamps({}, t) /\ Count({}, u) = 0
BY FS_EmptySet DEF Stamps, Count, After

(* A later window has no more.                                               *)
LEMMA CountShrinks ==
  ASSUME NEW t, NEW S, Stamps(S, t), NEW u \in Int, NEW v \in Int, u <= v
  PROVE  Count(S, v) <= Count(S, u)
<1>1. After(S, v) \in SUBSET After(S, u)
  BY DEF After, Stamps
<1>2. IsFiniteSet(After(S, u))
  BY CountType
<1>. QED BY <1>1, <1>2, FS_Subset DEF Count

LEMMA NothingAfter ==
  ASSUME NEW t \in Int, NEW S, Stamps(S, t), NEW u \in Int, u >= t
  PROVE  Count(S, u) = 0
<1>1. After(S, u) = {}
  BY DEF After, Stamps
<1>. QED BY <1>1, FS_EmptySet DEF Count

LEMMA WithinIsCount ==
  ASSUME NEW t \in Int, NEW S, Stamps(S, t), NEW window \in Int
  PROVE  Within(S, t, window) = Count(S, t - window)
<1>1. {s \in S : t - window < s[1] /\ s[1] <= t} = After(S, t - window)
  BY DEF After, Stamps
<1>. QED BY <1>1 DEF Within, Count

LEMMA AddCounts ==
  ASSUME NEW t \in Int, NEW S, Stamps(S, t)
  PROVE  /\ Stamps(Add(S, t), t)
         /\ \A u \in Int : Count(Add(S, t), u) = Count(S, u) + (IF t > u THEN 1 ELSE 0)
<1>. DEFINE x == <<t, Cardinality(At(S, t))>>
<1>1. /\ IsFiniteSet(S) /\ Add(S, t) = S \cup {x} /\ x[1] = t /\ x[2] = Cardinality(At(S, t))
  BY DEF Stamps, Add
<1>2. At(S, t) \in SUBSET S
  BY DEF At
<1>3. IsFiniteSet(At(S, t)) /\ x[2] \in Nat
  BY <1>1, <1>2, FS_Subset, FS_CardinalityType
<1>4. x \notin S
  BY <1>1, <1>3 DEF Stamps
<1>. HIDE DEF x
<1>5. Stamps(Add(S, t), t)
  <2>1. IsFiniteSet(Add(S, t))
    BY <1>1, FS_AddElement
  <2>2. At(Add(S, t), t) = At(S, t) \cup {x} /\ x \notin At(S, t)
    BY <1>1, <1>4 DEF At
  <2>3. Cardinality(At(Add(S, t), t)) = x[2] + 1
    BY <1>1, <1>3, <2>2, FS_AddElement
  <2>4. \A r : r # t => At(Add(S, t), r) = At(S, r)
    BY <1>1 DEF At
  <2>5. ASSUME NEW s \in Add(S, t)
        PROVE  s[1] \in Int /\ s[1] <= t /\ s[2] \in Nat /\ s[2] < Cardinality(At(Add(S, t), s[1]))
    <3>1. CASE s = x
      BY <1>1, <1>3, <2>3, <3>1
    <3>2. CASE s \in S /\ s[1] # t
      BY <2>4, <3>2 DEF Stamps
    <3>3. CASE s \in S /\ s[1] = t
      <4>1. s[1] \in Int /\ s[1] <= t /\ s[2] \in Nat /\ s[2] < x[2]
        BY <1>1, <3>3 DEF Stamps
      <4>. QED BY <1>3, <2>3, <3>3, <4>1
    <3>. QED BY <1>1, <3>1, <3>2, <3>3
  <2>. QED BY <2>1, <2>5 DEF Stamps
<1>6. ASSUME NEW u \in Int PROVE Count(Add(S, t), u) = Count(S, u) + (IF t > u THEN 1 ELSE 0)
  <2>1. IsFiniteSet(After(S, u)) /\ Count(S, u) \in Nat
    BY CountType
  <2>2. CASE t > u
    <3>1. After(Add(S, t), u) = After(S, u) \cup {x} /\ x \notin After(S, u)
      BY <1>1, <1>4, <2>2 DEF After
    <3>. QED BY <2>1, <2>2, <3>1, FS_AddElement DEF Count
  <2>3. CASE ~(t > u)
    <3>1. After(Add(S, t), u) = After(S, u)
      BY <1>1, <2>3 DEF After
    <3>. QED BY <2>1, <2>3, <3>1 DEF Count
  <2>. QED BY <2>2, <2>3
<1>. QED BY <1>5, <1>6

(* Later, the stamps are stamps still.                                       *)
LEMMA StampsStay == \A S : \A t, u \in Int : Stamps(S, t) /\ t <= u => Stamps(S, u)
BY DEF Stamps

-----------------------------------------------------------------------------
(* The person.                                                               *)
LEMMA RunningCounted ==
  ASSUME PersonInv
  PROVE  /\ IsFiniteSet(inProgress) /\ Cardinality(inProgress) \in Nat /\ Cardinality(Calls) \in Nat
         /\ \A c \in Calls \ inProgress : /\ Cardinality(inProgress \cup {c}) = Cardinality(inProgress) + 1
                                      /\ Cardinality(inProgress) + 1 <= Cardinality(Calls)
         /\ \A c \in inProgress : /\ Cardinality(inProgress \ {c}) = Cardinality(inProgress) - 1
                               /\ Cardinality(inProgress) >= 1
<1>1. IsFiniteSet(Calls) /\ inProgress \in SUBSET Calls
  BY RateAssumption DEF PersonInv
<1>2. IsFiniteSet(inProgress) /\ Cardinality(inProgress) \in Nat /\ Cardinality(Calls) \in Nat
  BY <1>1, FS_Subset, FS_CardinalityType
<1>3. ASSUME NEW c \in Calls \ inProgress
      PROVE  /\ Cardinality(inProgress \cup {c}) = Cardinality(inProgress) + 1
             /\ Cardinality(inProgress) + 1 <= Cardinality(Calls)
  <2>1. Cardinality(inProgress \cup {c}) = Cardinality(inProgress) + 1
    BY <1>2, FS_AddElement
  <2>2. inProgress \cup {c} \in SUBSET Calls
    BY <1>1
  <2>3. Cardinality(inProgress \cup {c}) <= Cardinality(Calls)
    BY <1>1, <2>2, FS_Subset
  <2>. QED BY <2>1, <2>3
<1>4. ASSUME NEW c \in inProgress
      PROVE  Cardinality(inProgress \ {c}) = Cardinality(inProgress) - 1 /\ Cardinality(inProgress) >= 1
  <2>1. Cardinality(inProgress \ {c}) = Cardinality(inProgress) - 1
    BY <1>2, FS_RemoveElement
  <2>2. Cardinality(inProgress) # 0
    BY <1>2, FS_EmptySet
  <2>. QED BY <1>2, <2>1, <2>2
<1>. QED BY <1>2, <1>3, <1>4

(* checkRate looks at the rows, and everybody who has none is counted.       *)
LEMMA StartKeeps == ASSUME PersonInv, NEW c \in Calls, Start(c) PROVE PersonInv'
<1>1. /\ c \notin inProgress /\ inProgress' = inProgress \cup {c} /\ started' = Add(started, now)
      /\ Within(rows, now, Minute) < PerMinute /\ Within(rows, now, Day) < PerDay
      /\ UNCHANGED <<now, rows, lost>>
  BY DEF Start, Allowed
<1>2. now \in Nat /\ lost \in Nat /\ Stamps(rows, now) /\ Stamps(started, now)
  BY DEF PersonInv
<1>3. /\ Cardinality(inProgress') = Cardinality(inProgress) + 1
      /\ Cardinality(inProgress) + 1 <= Cardinality(Calls)
      /\ Cardinality(inProgress) \in Nat /\ Cardinality(Calls) \in Nat
  BY <1>1, RunningCounted
<1>4. /\ Stamps(started', now)
      /\ \A u \in Int : Count(started', u) = Count(started, u) + (IF now > u THEN 1 ELSE 0)
  BY <1>1, <1>2, AddCounts
<1>5. \A u \in Int : Count(started, u) \in Nat /\ Count(rows, u) \in Nat
  BY <1>2, CountType
<1>6. ASSUME NEW u \in Int
      PROVE  Count(started', u) <= Count(rows, u) + Cardinality(inProgress') + lost
  BY <1>2, <1>3, <1>4, <1>5 DEF PersonInv
<1>7. ASSUME NEW window \in Nat, NEW cap \in Nat, Within(rows, now, window) < cap
      PROVE  Count(started', now - window) <= cap + Cardinality(Calls) - 1 + lost
  <2>1. Count(rows, now - window) < cap
    BY <1>2, <1>7, WithinIsCount
  <2>2. now - window \in Int
    BY <1>2
  <2>3. Count(started', now - window) <= Count(rows, now - window) + Cardinality(inProgress') + lost
    BY <1>6, <2>2
  <2>4. Count(started', now - window) \in Nat /\ Count(rows, now - window) \in Nat
    BY <1>4, <1>5, <2>2
  <2>. QED BY <1>2, <1>3, <2>1, <2>3, <2>4
<1>8. Capped(Minute, PerMinute)' /\ Capped(Day, PerDay)'
  BY <1>1, <1>7, RateAssumption DEF Capped
<1>9. inProgress' \subseteq Calls
  BY <1>1 DEF PersonInv
<1>. QED BY <1>1, <1>2, <1>4, <1>6, <1>8, <1>9 DEF PersonInv

(* A request ends with a row, or leaves none.                                *)
LEMMA EndsKeep == ASSUME PersonInv, NEW c \in Calls, Logged(c) \/ NotLogged(c) PROVE PersonInv'
<1>1. now \in Nat /\ lost \in Nat /\ Stamps(rows, now) /\ Stamps(started, now)
  BY DEF PersonInv
<1>2. c \in inProgress /\ inProgress' = inProgress \ {c} /\ UNCHANGED <<now, started>> /\ inProgress' \subseteq Calls
  BY DEF Logged, NotLogged, PersonInv
<1>3. Cardinality(inProgress') = Cardinality(inProgress) - 1 /\ Cardinality(inProgress) \in Nat
      /\ Cardinality(inProgress) >= 1 /\ Cardinality(Calls) \in Nat
  BY <1>2, RunningCounted
<1>4. \A u \in Int : Count(started, u) \in Nat /\ Count(rows, u) \in Nat
  BY <1>1, CountType
<1>5. CASE Logged(c)
  <2>1. rows' = Add(rows, now) /\ lost' = lost
    BY <1>5 DEF Logged
  <2>2. /\ Stamps(rows', now)
        /\ \A u \in Int : Count(rows', u) = Count(rows, u) + (IF now > u THEN 1 ELSE 0)
    BY <1>1, <2>1, AddCounts
  <2>3. ASSUME NEW u \in Int
        PROVE  Count(started, u) <= Count(rows', u) + Cardinality(inProgress') + lost
    <3>1. CASE now > u
      BY <1>1, <1>3, <1>4, <2>2, <3>1 DEF PersonInv
    <3>2. CASE ~(now > u)
      <4>1. Count(started, u) = 0
        BY <1>1, <3>2, NothingAfter
      <4>. QED BY <1>1, <1>3, <1>4, <2>2, <3>2, <4>1
    <3>. QED BY <3>1, <3>2
  <2>4. Capped(Minute, PerMinute)' /\ Capped(Day, PerDay)'
    BY <1>2, <2>1 DEF PersonInv, Capped
  <2>. QED BY <1>1, <1>2, <2>1, <2>2, <2>3, <2>4 DEF PersonInv
<1>6. CASE NotLogged(c)
  <2>1. rows' = rows /\ lost' = lost + 1
    BY <1>6 DEF NotLogged
  <2>2. \A u \in Int : Count(started, u) <= Count(rows, u) + Cardinality(inProgress') + lost'
    BY <1>1, <1>3, <1>4, <2>1 DEF PersonInv
  <2>3. ASSUME NEW window \in Nat, NEW cap \in Nat, Capped(window, cap) PROVE Capped(window, cap)'
    BY <1>1, <1>2, <1>3, <1>4, <2>1, <2>3 DEF Capped
  <2>. QED BY <1>1, <1>2, <2>1, <2>2, <2>3, RateAssumption DEF PersonInv
<1>. QED BY <1>5, <1>6

LEMMA TickKeeps == ASSUME PersonInv, ClockTicks PROVE PersonInv'
<1>1. now \in Nat /\ lost \in Nat /\ Stamps(rows, now) /\ Stamps(started, now)
  BY DEF PersonInv
<1>2. now' = now + 1 /\ UNCHANGED <<rows, inProgress, started, lost>>
  BY DEF ClockTicks
<1>3. Stamps(rows, now') /\ Stamps(started, now') /\ now' \in Nat
  BY <1>1, <1>2, StampsStay
<1>4. ASSUME NEW window \in Nat, NEW cap \in Nat, Capped(window, cap) PROVE Capped(window, cap)'
  <2>1. now - window \in Int /\ now' - window \in Int /\ now - window <= now' - window
    BY <1>1, <1>2
  <2>2. /\ Count(started, now' - window) <= Count(started, now - window)
        /\ Count(started, now' - window) \in Nat /\ Count(started, now - window) \in Nat
    BY <1>1, <2>1, CountShrinks, CountType
  <2>3. Cardinality(Calls) \in Nat
    BY RunningCounted
  <2>. QED BY <1>1, <1>2, <1>4, <2>2, <2>3 DEF Capped
<1>. QED BY <1>2, <1>3, <1>4, RateAssumption DEF PersonInv

(* What a restart cuts off is lost, and counted there.                       *)
LEMMA RestartKeepsPerson == ASSUME PersonInv, Restart PROVE PersonInv'
<1>1. now \in Nat /\ lost \in Nat /\ Stamps(rows, now) /\ Stamps(started, now)
  BY DEF PersonInv
<1>2. inProgress' = {} /\ lost' = lost + Cardinality(inProgress) /\ UNCHANGED <<now, rows, started>>
  BY DEF Restart
<1>3. Cardinality(inProgress') = 0 /\ Cardinality(inProgress) \in Nat /\ Cardinality(Calls) \in Nat
  BY <1>2, RunningCounted, FS_EmptySet
<1>4. \A u \in Int : Count(started, u) \in Nat /\ Count(rows, u) \in Nat
  BY <1>1, CountType
<1>5. \A u \in Int : Count(started, u) <= Count(rows, u) + Cardinality(inProgress') + lost'
  BY <1>1, <1>2, <1>3, <1>4 DEF PersonInv
<1>6. ASSUME NEW window \in Nat, NEW cap \in Nat, Capped(window, cap) PROVE Capped(window, cap)'
  BY <1>1, <1>2, <1>3, <1>4, <1>6 DEF Capped
<1>. QED BY <1>1, <1>2, <1>3, <1>5, <1>6, RateAssumption DEF PersonInv

-----------------------------------------------------------------------------
(* The address.                                                              *)
Caps == {<<Minute, IpMinute>>, <<Hour, IpHour>>}

LEMMA CapsTyped == \A w \in Caps : w[1] \in Nat /\ w[1] <= Hour /\ w[2] \in Nat \ {0}
BY RateAssumption, AddressAssumption DEF Caps

(* The counts of one address.                                                *)
LEMMA CountsTyped ==
  ASSUME AdmissionInv, NEW a \in Address, NEW u \in Int
  PROVE  /\ Count(hits[a], u) \in Nat /\ Count(passed[a], u) \in Nat /\ Count(restarts, u) \in Nat
         /\ now \in Nat
BY CountType DEF AdmissionInv, AddressInv, PersonInv

(* Pruning and sweeping drop only what is over an hour old.                  *)
LEMMA PruningDropsTheOld ==
  ASSUME now \in Int, NEW S, Stamps(S, now), NEW T, T \in {S, Kept(S), Kept(Kept(S))}
  PROVE  Stamps(T, now) /\ \A u \in Int : u >= now - Hour => Count(T, u) = Count(S, u)
<1>1. Hour \in Nat /\ Kept(Kept(S)) = Kept(S)
  BY AddressAssumption DEF Kept
<1>2. CASE T = S
  BY <1>2
<1>3. CASE T = Kept(S)
  <2>1. \A s \in S : s[1] \in Int /\ (now - s[1] < Hour <=> s[1] > now - Hour)
    BY <1>1 DEF Stamps
  <2>2. T \in SUBSET S /\ \A s \in S : s \in T <=> s[1] > now - Hour
    BY <1>3, <2>1 DEF Kept
  <2>3. ASSUME NEW s \in T PROVE At(T, s[1]) = At(S, s[1])
    BY <2>2 DEF At
  <2>4. Stamps(T, now)
    BY <2>2, <2>3, FS_Subset DEF Stamps
  <2>5. ASSUME NEW u \in Int, u >= now - Hour PROVE After(T, u) = After(S, u)
    BY <1>1, <2>1, <2>2, <2>5 DEF After
  <2>. QED BY <2>4, <2>5 DEF Count
<1>. QED BY <1>1, <1>2, <1>3

LEMMA GateKeeps == ASSUME AdmissionInv, NEW a \in Address, Gate(a), now' = now PROVE AddressInv'
<1>. DEFINE mine == Kept(Swept[a])
<1>1. /\ now \in Nat /\ Stamps(restarts, now) /\ restarts' = restarts
      /\ hits = [b \in Address |-> hits[b]] /\ passed = [b \in Address |-> passed[b]]
  BY DEF AdmissionInv, PersonInv, AddressInv, Gate
<1>2. \A b \in Address : Swept[b] \in {hits[b], Kept(hits[b])} /\ DOMAIN Swept = Address
  BY <1>1 DEF Swept
<1>3. mine \in {Kept(hits[a]), Kept(Kept(hits[a]))}
  BY <1>2
<1>4. ASSUME NEW b \in Address
      PROVE  Stamps(Swept[b], now) /\ \A u \in Int : u >= now - Hour => Count(Swept[b], u) = Count(hits[b], u)
  BY <1>1, <1>2, PruningDropsTheOld DEF AdmissionInv, AddressInv
<1>5. Stamps(mine, now) /\ \A u \in Int : u >= now - Hour => Count(mine, u) = Count(hits[a], u)
  BY <1>1, <1>3, PruningDropsTheOld DEF AdmissionInv, AddressInv
<1>. HIDE DEF mine
<1>6. ASSUME NEW b \in Address, b # a
      PROVE  /\ Stamps(hits'[b], now) /\ passed'[b] = passed[b]
             /\ \A u \in Int : u >= now - Hour => Count(hits'[b], u) = Count(hits[b], u)
  BY <1>1, <1>2, <1>4, <1>6 DEF Gate
<1>7. \/ /\ \A w \in Caps : Within(mine, now, w[1]) < w[2]
         /\ hits'[a] = Add(mine, now) /\ passed'[a] = Add(passed[a], now)
      \/ hits'[a] = mine /\ passed'[a] = passed[a]
  BY <1>1, <1>2 DEF Gate, Caps, mine
<1>8. Stamps(hits'[a], now) /\ Stamps(passed'[a], now)
  BY <1>1, <1>5, <1>7, AddCounts DEF AdmissionInv, AddressInv
<1>9. ASSUME NEW w \in Caps, NEW u \in Int, u >= now - w[1], NEW b \in Address,
             Covered(b, w[1], w[2])
      PROVE  /\ Count(hits'[b], u) <= w[2]
             /\ Count(passed'[b], u) <= Count(hits'[b], u) + w[2] * Count(restarts, u)
  <2>1. /\ Count(hits[b], u) <= w[2] /\ u >= now - Hour
        /\ Count(passed[b], u) <= Count(hits[b], u) + w[2] * Count(restarts, u)
    BY <1>1, <1>9, CapsTyped, AddressAssumption DEF Covered
  <2>2. CASE b # a
    BY <1>6, <2>1, <2>2
  <2>3. CASE b = a /\ hits'[a] = mine /\ passed'[a] = passed[a]
    BY <1>5, <2>1, <2>3
  <2>4. CASE /\ b = a /\ \A v \in Caps : Within(mine, now, v[1]) < v[2]
             /\ hits'[a] = Add(mine, now) /\ passed'[a] = Add(passed[a], now)
    <3>. DEFINE one == IF now > u THEN 1 ELSE 0
    <3>1. /\ Count(hits'[b], u) = Count(mine, u) + one
          /\ Count(passed'[b], u) = Count(passed[b], u) + one
      BY <1>1, <1>5, <2>4, AddCounts DEF AdmissionInv, AddressInv
    <3>2. Count(mine, u) = Count(hits[b], u)
      BY <1>5, <2>1, <2>4
    <3>3. w[1] \in Nat /\ w[2] \in Nat /\ now - w[1] \in Int
      BY <1>1, CapsTyped
    <3>4. Count(mine, now - w[1]) < w[2]
      BY <1>1, <1>5, <2>4, <3>3, WithinIsCount
    <3>5. /\ Count(mine, u) <= Count(mine, now - w[1])
          /\ Count(mine, u) \in Nat /\ Count(mine, now - w[1]) \in Nat
      BY <1>1, <1>5, <1>9, <3>3, CountShrinks, CountType
    <3>6. Count(passed[b], u) \in Nat /\ Count(restarts, u) \in Nat
      BY CountsTyped
    <3>. DEFINE r == w[2] * Count(restarts, u)
    <3>7. r \in Nat
      BY <3>3, <3>6
    <3>8. Count(passed[b], u) <= Count(mine, u) + r
      BY <2>1, <3>2
    <3>9. one \in 0..1
      OBVIOUS
    <3>. HIDE DEF one, r
    <3>10. Count(hits'[b], u) <= w[2] /\ Count(passed'[b], u) <= Count(hits'[b], u) + r
      BY <3>1, <3>3, <3>4, <3>5, <3>6, <3>7, <3>8, <3>9
    <3>. QED BY <3>10 DEF r
  <2>. QED BY <1>7, <2>2, <2>3, <2>4
<1>10. \A b \in Address : \A w \in Caps : Covered(b, w[1], w[2]) => Covered(b, w[1], w[2])'
  BY <1>1, <1>9 DEF Covered
<1>11. \A b \in Address : Covered(b, Minute, IpMinute)' /\ Covered(b, Hour, IpHour)'
  BY <1>10 DEF AdmissionInv, AddressInv, Caps
<1>12. hits' = [b \in Address |-> hits'[b]] /\ passed' = [b \in Address |-> passed'[b]]
  BY <1>1, <1>2 DEF Gate
<1>13. \A b \in Address : Stamps(hits'[b], now) /\ Stamps(passed'[b], now)
  BY <1>6, <1>8 DEF AdmissionInv, AddressInv
<1>. QED BY <1>1, <1>11, <1>12, <1>13 DEF AddressInv

(* A restart forgets no more hits than the cap, and is counted.              *)
LEMMA RestartKeepsAddress == ASSUME AdmissionInv, Restart PROVE AddressInv'
<1>1. /\ now \in Nat /\ Stamps(restarts, now) /\ restarts' = Add(restarts, now)
      /\ hits' = [b \in Address |-> {}] /\ UNCHANGED <<now, passed>>
  BY DEF AdmissionInv, PersonInv, AddressInv, Restart
<1>2. /\ Stamps(restarts', now)
      /\ \A u \in Int : Count(restarts', u) = Count(restarts, u) + (IF now > u THEN 1 ELSE 0)
  BY <1>1, AddCounts
<1>3. ASSUME NEW b \in Address, NEW w \in Caps, Covered(b, w[1], w[2]),
             NEW u \in Int, u >= now - w[1]
      PROVE  /\ Count(hits'[b], u) <= w[2]
             /\ Count(passed[b], u) <= Count(hits'[b], u) + w[2] * Count(restarts', u)
  <2>1. /\ Count(hits[b], u) <= w[2] /\ Count(hits'[b], u) = 0
        /\ Count(passed[b], u) <= Count(hits[b], u) + w[2] * Count(restarts, u)
    BY <1>1, <1>3, NoneCounted DEF Covered
  <2>2. /\ w[2] \in Nat /\ Count(hits[b], u) \in Nat /\ Count(passed[b], u) \in Nat
        /\ Count(restarts, u) \in Nat
    BY CapsTyped, CountsTyped
  <2>3. CASE now > u
    <3>1. Count(restarts', u) = Count(restarts, u) + 1
      BY <1>2, <2>3
    <3>2. w[2] * (Count(restarts, u) + 1) = w[2] * Count(restarts, u) + w[2]
      BY <2>2
    <3>3. w[2] * Count(restarts, u) \in Nat
      BY <2>2
    <3>. QED BY <2>1, <2>2, <3>1, <3>2, <3>3
  <2>4. CASE ~(now > u)
    <3>1. Count(passed[b], u) = 0
      BY <1>1, <2>4, NothingAfter DEF AdmissionInv, AddressInv
    <3>2. Count(restarts', u) = Count(restarts, u) /\ w[2] * Count(restarts, u) \in Nat
      BY <1>2, <2>2, <2>4
    <3>. QED BY <2>1, <2>2, <3>1, <3>2
  <2>. QED BY <2>3, <2>4
<1>4. \A b \in Address : \A w \in Caps : Covered(b, w[1], w[2]) => Covered(b, w[1], w[2])'
  BY <1>1, <1>3 DEF Covered
<1>5. \A b \in Address : Covered(b, Minute, IpMinute)' /\ Covered(b, Hour, IpHour)'
  BY <1>4 DEF AdmissionInv, AddressInv, Caps
<1>6. \A b \in Address : Stamps(hits'[b], now) /\ Stamps(passed'[b], now)
  BY <1>1, NoneCounted DEF AdmissionInv, AddressInv
<1>7. hits' = [b \in Address |-> hits'[b]] /\ passed' = [b \in Address |-> passed'[b]]
  BY <1>1 DEF AdmissionInv, AddressInv
<1>. QED BY <1>1, <1>2, <1>5, <1>6, <1>7 DEF AddressInv

(* Time passes, or nothing that concerns an address happens.                 *)
LEMMA ElseKeepsAddress ==
  ASSUME AdmissionInv, UNCHANGED ipVars, now' \in {now, now + 1}
  PROVE  AddressInv'
<1>1. now \in Nat /\ now' \in Int /\ now <= now' /\ UNCHANGED <<hits, passed, restarts>>
  BY DEF AdmissionInv, PersonInv, ipVars
<1>2. /\ Stamps(restarts, now')
      /\ \A b \in Address : Stamps(hits[b], now') /\ Stamps(passed[b], now')
  BY <1>1, StampsStay DEF AdmissionInv, AddressInv
<1>3. ASSUME NEW b \in Address, NEW w \in Caps, Covered(b, w[1], w[2]) PROVE Covered(b, w[1], w[2])'
  <2>1. \A u \in Int : u >= now' - w[1] => u >= now - w[1]
    BY <1>1, CapsTyped
  <2>. QED BY <1>1, <1>3, <2>1 DEF Covered
<1>4. \A b \in Address : Covered(b, Minute, IpMinute)' /\ Covered(b, Hour, IpHour)'
  BY <1>3 DEF AdmissionInv, AddressInv, Caps
<1>. QED BY <1>1, <1>2, <1>4 DEF AdmissionInv, AddressInv

-----------------------------------------------------------------------------
LEMMA AdmissionStarts == AdmissionInit => AdmissionInv
<1>. SUFFICES ASSUME AdmissionInit PROVE AdmissionInv
  OBVIOUS
<1>1. /\ now = 0 /\ lost = 0 /\ inProgress = {} /\ rows = {} /\ started = {} /\ restarts = {}
      /\ hits = [a \in Address |-> {}] /\ passed = [a \in Address |-> {}]
  BY DEF AdmissionInit, RateInit
<1>2. Cardinality(inProgress) = 0 /\ Cardinality(Calls) \in Nat
  BY <1>1, RateAssumption, FS_EmptySet, FS_CardinalityType
<1>3. PersonInv
  BY <1>1, <1>2, NoneCounted, RateAssumption DEF PersonInv, Capped
<1>4. ASSUME NEW a \in Address, NEW w \in Caps PROVE Covered(a, w[1], w[2])
  BY <1>1, NoneCounted, CapsTyped DEF Covered
<1>5. AddressInv
  BY <1>1, <1>4, NoneCounted DEF AddressInv, Caps
<1>. QED BY <1>3, <1>5 DEF AdmissionInv

LEMMA AdmissionSteps == AdmissionInv /\ [AdmissionNext]_admissionVars => AdmissionInv'
<1>. SUFFICES ASSUME AdmissionInv, [AdmissionNext]_admissionVars PROVE AdmissionInv'
  OBVIOUS
<1>1. PersonInv /\ AddressInv
  BY DEF AdmissionInv
<1>2. ASSUME NEW c \in Calls, NEW a \in Address, WebStart(c, a) PROVE AdmissionInv'
  <2>1. PersonInv' /\ now' = now
    BY <1>1, <1>2, StartKeeps DEF WebStart, Start
  <2>. QED BY <1>2, <2>1, GateKeeps DEF WebStart, AdmissionInv
<1>3. ASSUME NEW a \in Address, WebOther(a) PROVE AdmissionInv'
  <2>1. UNCHANGED <<now, rows, inProgress, started, lost>>
    BY <1>3 DEF WebOther, rateVars
  <2>2. PersonInv'
    BY <1>1, <2>1 DEF PersonInv, Capped
  <2>. QED BY <1>3, <2>1, <2>2, GateKeeps DEF WebOther, AdmissionInv
<1>4. ASSUME NEW c \in Calls, ChannelStart(c) \/ Ends(c) PROVE AdmissionInv'
  <2>1. PersonInv'
    BY <1>1, <1>4, StartKeeps, EndsKeep DEF ChannelStart, Ends
  <2>2. UNCHANGED ipVars /\ now' = now
    BY <1>4 DEF ChannelStart, Ends, Start, Logged, NotLogged
  <2>. QED BY <2>1, <2>2, ElseKeepsAddress DEF AdmissionInv
<1>5. CASE Passes
  <2>1. PersonInv' /\ now' = now + 1 /\ UNCHANGED ipVars
    BY <1>1, <1>5, TickKeeps DEF Passes, ClockTicks
  <2>. QED BY <2>1, ElseKeepsAddress DEF AdmissionInv
<1>6. CASE Restart
  BY <1>1, <1>6, RestartKeepsPerson, RestartKeepsAddress DEF AdmissionInv
<1>7. CASE UNCHANGED admissionVars
  <2>1. UNCHANGED <<now, rows, inProgress, started, lost>> /\ UNCHANGED ipVars
    BY <1>7 DEF admissionVars, rateVars
  <2>2. PersonInv'
    BY <1>1, <2>1 DEF PersonInv, Capped
  <2>. QED BY <2>1, <2>2, ElseKeepsAddress DEF AdmissionInv
<1>. QED BY <1>2, <1>3, <1>4, <1>5, <1>6, <1>7 DEF AdmissionNext

LEMMA AdmissionInvariant == AdmissionSpec => []AdmissionInv
BY AdmissionStarts, AdmissionSteps, PTL DEF AdmissionSpec

(* ratelimit.ts, checkRate, and logTurn, which records a turn only at its    *)
(* end: a person starts at most the cap in a minute and in a day, and one    *)
(* more for every other request in progress and every one that left no row.  *)
THEOREM OvershootIsBounded == AdmissionSpec => []Overshoot
<1>1. AdmissionInv => Overshoot
  <2>. SUFFICES ASSUME AdmissionInv PROVE Overshoot
    OBVIOUS
  <2>1. /\ Within(started, now, Minute) = Count(started, now - Minute)
        /\ Within(started, now, Day) = Count(started, now - Day)
    BY WithinIsCount, RateAssumption DEF AdmissionInv, PersonInv
  <2>2. Cardinality(Calls) \in Nat /\ lost \in Nat
    BY RunningCounted DEF AdmissionInv, PersonInv
  <2>. QED BY <2>1, <2>2, RateAssumption DEF AdmissionInv, PersonInv, Capped, Overshoot, Slack
<1>. QED BY <1>1, AdmissionInvariant, PTL

(* iplimit.ts, checkAddress and sweep: an address gets at most the cap       *)
(* through in a minute and in an hour, and the cap again for every restart   *)
(* in that time.                                                             *)
THEOREM AddressIsCapped == AdmissionSpec => []AddressCap
<1>1. AdmissionInv => AddressCap
  <2>. SUFFICES ASSUME AdmissionInv, NEW a \in Address, NEW w \in Caps
                PROVE  Within(passed[a], now, w[1]) <= w[2] * (1 + Within(restarts, now, w[1]))
    BY DEF AddressCap, Caps
  <2>1. now \in Nat /\ Stamps(passed[a], now) /\ Stamps(restarts, now) /\ Covered(a, w[1], w[2])
        /\ w[1] \in Nat /\ w[2] \in Nat
    BY CapsTyped DEF AdmissionInv, PersonInv, AddressInv, Caps
  <2>. DEFINE u == now - w[1]
  <2>2. /\ Within(passed[a], now, w[1]) = Count(passed[a], u)
        /\ Within(restarts, now, w[1]) = Count(restarts, u)
    BY <2>1, WithinIsCount
  <2>3. u \in Int /\ u >= now - w[1]
    BY <2>1
  <2>4. /\ Count(hits[a], u) <= w[2]
        /\ Count(passed[a], u) <= Count(hits[a], u) + w[2] * Count(restarts, u)
    BY <2>1, <2>3 DEF Covered
  <2>5. Count(hits[a], u) \in Nat /\ Count(passed[a], u) \in Nat /\ Count(restarts, u) \in Nat
    BY <2>3, CountsTyped
  <2>. HIDE DEF u
  <2>6. /\ w[2] * (1 + Count(restarts, u)) = w[2] + w[2] * Count(restarts, u)
        /\ w[2] * Count(restarts, u) \in Nat
    BY <2>1, <2>5
  <2>. QED BY <2>1, <2>2, <2>4, <2>5, <2>6
<1>. QED BY <1>1, AdmissionInvariant, PTL
=============================================================================
