----------------------- MODULE EmbedRateLimiterProofs -----------------------
(***************************************************************************)
(* The rate limiter for every number of goroutines, every rate and every   *)
(* length of the window: timestamps stay in order; and a limiter that only *)
(* one goroutine uses never grants more than Max requests in a minute.     *)
(***************************************************************************)
EXTENDS EmbedRateLimiter, SequenceTheorems, TLAPS

Ages == 1..(Minute + 1)
Ordered(s) == \A i, j \in 1..Len(s) : i < j => s[i] >= s[j]
After(s) == [i \in DOMAIN s |-> Older(s[i])]

LEMMA OlderFacts ==
  ASSUME LimiterAssumption, NEW a \in 0..(Minute + 1)
  PROVE  /\ Older(a) \in Ages
         /\ a <= Older(a)
         /\ a <= Minute => Older(a) = a + 1
         /\ a > Minute => Older(a) = a
BY DEF LimiterAssumption, Older, Ages

\* A tick keeps the number of timestamps and their order.
LEMMA AfterFacts ==
  ASSUME LimiterAssumption, NEW s \in Seq(0..(Minute + 1))
  PROVE  /\ After(s) \in Seq(Ages)
         /\ Len(After(s)) = Len(s)
         /\ \A i \in 1..Len(s) : After(s)[i] = Older(s[i])
         /\ Ordered(s) => Ordered(After(s))
<1>1. DOMAIN s = 1..Len(s) /\ Len(s) \in Nat
  OBVIOUS
<1>2. \A i \in 1..Len(s) : s[i] \in 0..(Minute + 1)
  OBVIOUS
<1>3. After(s) = [i \in 1..Len(s) |-> Older(s[i])]
  BY <1>1 DEF After
<1>4. \A i \in 1..Len(s) : Older(s[i]) \in Ages
  BY <1>2, OlderFacts
<1>5. After(s) \in Seq(Ages) /\ Len(After(s)) = Len(s)
  BY <1>1, <1>3, <1>4
<1>6. \A i \in 1..Len(s) : After(s)[i] = Older(s[i])
  BY <1>3
<1>7. ASSUME Ordered(s) PROVE Ordered(After(s))
  <2>. SUFFICES ASSUME NEW i \in 1..Len(s), NEW j \in 1..Len(s), i < j
                PROVE  Older(s[i]) >= Older(s[j])
    BY <1>5, <1>6 DEF Ordered
  <2>1. s[i] >= s[j]
    BY <1>7 DEF Ordered
  <2>. QED BY <1>2, <2>1 DEF Older, LimiterAssumption
<1>. QED BY <1>5, <1>6, <1>7

\* Pruning drops a prefix: exactly the first n timestamps.
LEMMA PrunedFacts ==
  ASSUME LimiterAssumption, TypeOK, NEW n \in 0..Len(timestamps), Old(n)
  PROVE  /\ Pruned(n) \in Seq(0..(Minute + 1))
         /\ Len(Pruned(n)) = Len(timestamps) - n
         /\ Len(Pruned(n)) > 0 => Pruned(n)[1] \in 1..Minute
         /\ Len(timestamps) > 0 /\ timestamps[1] > Minute => n > 0
         /\ Ordered(timestamps) => Ordered(Pruned(n))
<1>. USE DEF TypeOK, Pruned, Old
<1>1. /\ timestamps \in Seq(0..(Minute + 1)) /\ Len(timestamps) \in Nat
      /\ \A i \in 1..Len(timestamps) : timestamps[i] \in 1..(Minute + 1)
  BY DEF LimiterAssumption
<1>2. /\ Pruned(n) \in Seq(0..(Minute + 1))
      /\ Len(Pruned(n)) = Len(timestamps) - n
      /\ \A i \in 1..(Len(timestamps) - n) : Pruned(n)[i] = timestamps[i + n]
  BY <1>1
<1>3. Len(Pruned(n)) > 0 => Pruned(n)[1] \in 1..Minute
  <2>. SUFFICES ASSUME Len(timestamps) - n > 0 PROVE Pruned(n)[1] \in 1..Minute
    BY <1>2
  <2>1. Pruned(n)[1] = timestamps[n + 1] /\ n + 1 \in 1..Len(timestamps)
    BY <1>1, <1>2
  <2>. QED BY <1>1, <2>1 DEF LimiterAssumption
<1>4. Len(timestamps) > 0 /\ timestamps[1] > Minute => n > 0
  BY <1>1 DEF LimiterAssumption
<1>5. Ordered(timestamps) => Ordered(Pruned(n))
  BY <1>1, <1>2 DEF Ordered
<1>. QED BY <1>2, <1>3, <1>4, <1>5

LEMMA GrantedFacts ==
  ASSUME LimiterAssumption, NEW s \in Seq(0..(Minute + 1))
  PROVE  /\ Granted(s) \in Seq(0..(Minute + 1))
         /\ Len(Granted(s)) = Len(s) + 1
         /\ Len(s) > 0 => Granted(s)[1] = s[1]
         /\ Ordered(s) => Ordered(Granted(s))
BY DEF Granted, Ordered, LimiterAssumption

SleepType == [Thread -> 0..Minute \cup {Awake}]

LEMMA SleepFacts ==
  ASSUME LimiterAssumption, NEW w \in SleepType, SleepAfter(w)
  PROVE  sleep' \in SleepType
BY DEF LimiterAssumption, SleepType, SleepAfter

\* What the proofs need of a step: the timestamps are those of before, pruned or
\* not, with a new one or not, one tick later.
LEMMA StepFacts ==
  ASSUME LimiterAssumption, TypeOK, Next
  PROVE  \E s \in Seq(0..(Minute + 1)) :
            /\ TimestampsAfter(s)
            /\ Ordered(timestamps) => Ordered(s)
            /\ sleep' \in SleepType
<1>0. timestamps \in Seq(0..(Minute + 1)) /\ sleep \in SleepType
  BY DEF TypeOK, SleepType, LimiterAssumption
<1>1. CASE Tick
  BY <1>0, <1>1, SleepFacts DEF Tick
<1>2. ASSUME NEW t \in Thread, Wake(t) \/ Cancel(t)
      PROVE  \E s \in Seq(0..(Minute + 1)) :
                /\ TimestampsAfter(s)
                /\ Ordered(timestamps) => Ordered(s)
                /\ sleep' \in SleepType
  <2>1. [sleep EXCEPT ![t] = Awake] \in SleepType
    BY <1>0 DEF SleepType
  <2>. QED BY <1>0, <1>2, <2>1, GrantedFacts, SleepFacts DEF Wake, Cancel
<1>3. ASSUME NEW t \in Thread, Enter(t)
      PROVE  \E s \in Seq(0..(Minute + 1)) :
                /\ TimestampsAfter(s)
                /\ Ordered(timestamps) => Ordered(s)
                /\ sleep' \in SleepType
  <2>1. PICK n \in 0..Len(timestamps) :
          /\ Old(n)
          /\ IF Full(Pruned(n)) /\ SleepFor(Pruned(n)) > 0
             THEN /\ TimestampsAfter(Pruned(n))
                  /\ SleepAfter([sleep EXCEPT ![t] = SleepFor(Pruned(n))])
             ELSE TimestampsAfter(Granted(Pruned(n))) /\ SleepAfter(sleep)
    BY <1>3 DEF Enter
  <2>2. /\ Pruned(n) \in Seq(0..(Minute + 1))
        /\ Len(Pruned(n)) > 0 => Pruned(n)[1] \in 1..Minute
        /\ Ordered(timestamps) => Ordered(Pruned(n))
    BY <2>1, PrunedFacts
  <2>3. CASE Full(Pruned(n)) /\ SleepFor(Pruned(n)) > 0
    <3>1. Len(Pruned(n)) > 0
      BY <2>2, <2>3 DEF Full, LimiterAssumption
    <3>2. SleepFor(Pruned(n)) \in 0..Minute
      BY <2>2, <3>1 DEF SleepFor, LimiterAssumption
    <3>3. [sleep EXCEPT ![t] = SleepFor(Pruned(n))] \in SleepType
      BY <1>0, <3>2 DEF SleepType
    <3>. QED BY <2>1, <2>2, <2>3, <3>3, SleepFacts
  <2>4. CASE ~(Full(Pruned(n)) /\ SleepFor(Pruned(n)) > 0)
    <3>1. TimestampsAfter(Granted(Pruned(n))) /\ SleepAfter(sleep)
      BY <2>1, <2>4
    <3>. QED BY <1>0, <2>2, <3>1, GrantedFacts, SleepFacts
  <2>. QED BY <2>3, <2>4
<1>. QED BY <1>1, <1>2, <1>3 DEF Next

LEMMA TypeNext == LimiterAssumption /\ TypeOK /\ [Next]_vars => TypeOK'
<1>. SUFFICES ASSUME LimiterAssumption, TypeOK, [Next]_vars PROVE TypeOK'
  OBVIOUS
<1>1. CASE Next
  <2>1. PICK s \in Seq(0..(Minute + 1)) : TimestampsAfter(s) /\ sleep' \in SleepType
    BY <1>1, StepFacts
  <2>. QED BY <2>1, AfterFacts DEF TimestampsAfter, After, TypeOK, Ages, SleepType
<1>2. CASE UNCHANGED vars
  BY <1>2 DEF vars, TypeOK
<1>. QED BY <1>1, <1>2

LEMMA OrderNext ==
  LimiterAssumption /\ TypeOK /\ Ordered(timestamps) /\ [Next]_vars
    => Ordered(timestamps)'
<1>. SUFFICES ASSUME LimiterAssumption, TypeOK, Ordered(timestamps), [Next]_vars
              PROVE  Ordered(timestamps')
  BY DEF Ordered
<1>1. CASE Next
  <2>1. PICK s \in Seq(0..(Minute + 1)) : TimestampsAfter(s) /\ Ordered(s)
    BY <1>1, StepFacts
  <2>. QED BY <2>1, AfterFacts DEF TimestampsAfter, After
<1>2. CASE UNCHANGED vars
  BY <1>2 DEF vars
<1>. QED BY <1>1, <1>2

LEMMA TypeInit == LimiterAssumption /\ Init => TypeOK /\ Ordered(timestamps)
BY DEF LimiterAssumption, Init, TypeOK, Ordered

\* The ages of the timestamps and the sleeps keep their ranges.
THEOREM TypeCorrect == Spec => []TypeOK
<1>1. LimiterAssumption /\ TypeOK /\ [Next]_vars => TypeOK'
  BY TypeNext
<1>. QED BY <1>1, TypeInit, LimiterAssumption, PTL DEF Spec

\* Older timestamps come first, whatever the goroutines do.
THEOREM InOrder == Spec => []OldestFirst
<1>1. LimiterAssumption /\ TypeOK /\ Ordered(timestamps) => OldestFirst
  BY DEF TypeOK, Ordered, OldestFirst
<1>. QED BY <1>1, TypeCorrect, OrderNext, TypeInit, LimiterAssumption, PTL DEF Spec

-----------------------------------------------------------------------------
\* One goroutine.  After the grant that ends a sleep there may be one timestamp
\* more than Max, but the first is too old to count and goes with the next call.
Alone == \A s, t \in Thread : s = t

AloneInv ==
  /\ Len(timestamps) <= Max + 1
  /\ Len(timestamps) = Max + 1 => timestamps[1] > Minute
  /\ \A t \in Thread : sleep[t] # Awake =>
       Len(timestamps) = Max /\ timestamps[1] + sleep[t] >= Minute

\* AloneInv after a step that leaves the timestamps s and the sleeps w, one tick
\* before its end.
LEMMA AloneAfter ==
  ASSUME LimiterAssumption,
         NEW s \in Seq(0..(Minute + 1)), NEW w \in SleepType,
         TimestampsAfter(s), SleepAfter(w),
         Len(s) <= Max + 1,
         Len(s) = Max + 1 => s[1] >= Minute,
         \A t \in Thread : w[t] # Awake => Len(s) = Max /\ s[1] + w[t] >= Minute
  PROVE  AloneInv'
<1>1. /\ timestamps' \in Seq(Ages)
      /\ Len(timestamps') = Len(s)
      /\ Len(s) > 0 => timestamps'[1] = Older(s[1]) /\ s[1] \in 0..(Minute + 1)
  BY AfterFacts DEF TimestampsAfter, After
<1>2. Len(s) = Max + 1 => timestamps'[1] > Minute
  BY <1>1, OlderFacts DEF LimiterAssumption
<1>3. ASSUME NEW t \in Thread, sleep'[t] # Awake
      PROVE  Len(timestamps') = Max /\ timestamps'[1] + sleep'[t] >= Minute
  <2>1. /\ w[t] \in 0..Minute /\ w[t] # Awake
        /\ sleep'[t] = IF w[t] \in Nat \ {0} THEN w[t] - 1 ELSE w[t]
    BY <1>3 DEF SleepAfter, SleepType, LimiterAssumption
  <2>2. Len(s) = Max /\ s[1] + w[t] >= Minute
    BY <2>1
  <2>3. Len(s) > 0
    BY <2>2 DEF LimiterAssumption
  <2>. QED BY <1>1, <2>1, <2>2, <2>3 DEF Older, LimiterAssumption
<1>. QED BY <1>1, <1>2, <1>3 DEF AloneInv

LEMMA AloneNext ==
  LimiterAssumption /\ Alone /\ TypeOK /\ AloneInv /\ [Next]_vars => AloneInv'
<1>. SUFFICES ASSUME LimiterAssumption, Alone, TypeOK, AloneInv, [Next]_vars
              PROVE  AloneInv'
  OBVIOUS
<1>0. /\ timestamps \in Seq(0..(Minute + 1)) /\ sleep \in SleepType
      /\ Len(timestamps) \in Nat /\ Max \in Nat \ {0} /\ Minute \in Nat \ {0}
  BY DEF TypeOK, SleepType, LimiterAssumption
<1>a. Len(timestamps) > 0 => timestamps[1] \in 0..(Minute + 1)
  BY <1>0
<1>1. CASE Tick
  BY <1>0, <1>1, <1>a, AloneAfter DEF Tick, AloneInv
<1>2. ASSUME NEW t \in Thread, Wake(t) PROVE AloneInv'
  <2> DEFINE s == Granted(timestamps)
             w == [sleep EXCEPT ![t] = Awake]
  <2>1. sleep[t] = 0 /\ sleep[t] # Awake
    BY <1>2 DEF Wake, LimiterAssumption
  <2>2. Len(timestamps) = Max /\ timestamps[1] + 0 >= Minute
    BY <2>1 DEF AloneInv
  <2>3. /\ s \in Seq(0..(Minute + 1))
        /\ Len(s) = Len(timestamps) + 1
        /\ Len(timestamps) > 0 => s[1] = timestamps[1]
    BY <1>0, GrantedFacts
  <2>4. w \in SleepType /\ \A u \in Thread : w[u] = Awake
    BY <1>0 DEF SleepType, Alone
  <2>5. TimestampsAfter(s) /\ SleepAfter(w)
    BY <1>2 DEF Wake
  <2>. HIDE DEF s, w
  <2>6. Len(s) = Max + 1 /\ s[1] >= Minute
    BY <1>0, <1>a, <2>2, <2>3
  <2>. QED BY <1>0, <2>3, <2>4, <2>5, <2>6, AloneAfter
<1>3. ASSUME NEW t \in Thread, Cancel(t) PROVE AloneInv'
  <2> DEFINE w == [sleep EXCEPT ![t] = Awake]
  <2>1. w \in SleepType /\ \A u \in Thread : w[u] = Awake
    BY <1>0 DEF SleepType, Alone
  <2>2. TimestampsAfter(timestamps) /\ SleepAfter(w)
    BY <1>3 DEF Cancel
  <2>. HIDE DEF w
  <2>3. /\ Len(timestamps) <= Max + 1
        /\ Len(timestamps) = Max + 1 => timestamps[1] >= Minute
    BY <1>0, <1>a DEF AloneInv
  <2>. QED BY <1>0, <2>1, <2>2, <2>3, AloneAfter
<1>4. ASSUME NEW t \in Thread, Enter(t) PROVE AloneInv'
  <2>1. PICK n \in 0..Len(timestamps) :
          /\ Old(n)
          /\ IF Full(Pruned(n)) /\ SleepFor(Pruned(n)) > 0
             THEN /\ TimestampsAfter(Pruned(n))
                  /\ SleepAfter([sleep EXCEPT ![t] = SleepFor(Pruned(n))])
             ELSE TimestampsAfter(Granted(Pruned(n))) /\ SleepAfter(sleep)
    BY <1>4 DEF Enter
  <2> DEFINE s == Pruned(n)
  <2>2. /\ s \in Seq(0..(Minute + 1))
        /\ Len(s) = Len(timestamps) - n
        /\ Len(s) > 0 => s[1] \in 1..Minute
        /\ Len(timestamps) > 0 /\ timestamps[1] > Minute => n > 0
    BY <2>1, PrunedFacts
  <2>. HIDE DEF s
  <2>3. Len(s) \in Nat /\ Len(s) <= Max
    BY <1>0, <2>2 DEF AloneInv
  <2>4. CASE Full(s) /\ SleepFor(s) > 0
    <3>0. Len(s) = Max
      BY <1>0, <2>3, <2>4 DEF Full
    <3>a. s[1] \in 1..Minute
      BY <1>0, <2>2, <3>0
    <3>b. SleepFor(s) = Minute - s[1]
      BY DEF SleepFor
    <3>1. Len(s) = Max /\ SleepFor(s) = Minute - s[1] /\ s[1] \in 1..Minute
      BY <3>0, <3>a, <3>b
    <3> DEFINE w == [sleep EXCEPT ![t] = SleepFor(s)]
    <3>2. w \in SleepType /\ \A u \in Thread : w[u] = Minute - s[1]
      BY <1>0, <3>1 DEF SleepType, Alone
    <3>3. TimestampsAfter(s) /\ SleepAfter(w)
      BY <2>1, <2>4 DEF s
    <3>. HIDE DEF w
    <3>4. \A u \in Thread : s[1] + w[u] >= Minute
      BY <1>0, <3>1, <3>2
    <3>. QED BY <1>0, <2>2, <3>1, <3>2, <3>3, <3>4, AloneAfter
  <2>5. CASE ~(Full(s) /\ SleepFor(s) > 0)
    <3>1. TimestampsAfter(Granted(s)) /\ SleepAfter(sleep)
      BY <2>1, <2>5 DEF s
    <3>2. \A u \in Thread : sleep[u] = Awake
      BY <1>4 DEF Enter, Alone
    <3>3. /\ Granted(s) \in Seq(0..(Minute + 1))
          /\ Len(Granted(s)) = Len(s) + 1
          /\ Len(s) > 0 => Granted(s)[1] = s[1]
      BY <2>2, GrantedFacts
    <3> DEFINE g == Granted(s)
    <3>. HIDE DEF g
    <3>4. /\ g \in Seq(0..(Minute + 1)) /\ Len(g) <= Max + 1
          /\ TimestampsAfter(g)
      BY <1>0, <2>3, <3>1, <3>3 DEF g
    <3>5. ASSUME Len(g) = Max + 1 PROVE g[1] >= Minute
      <4>1. Len(s) = Max /\ Len(s) > 0
        BY <1>0, <2>3, <3>3, <3>5 DEF g
      <4>2. Full(s) /\ s[1] \in 1..Minute
        BY <1>0, <2>2, <4>1 DEF Full
      <4>. QED BY <1>0, <2>5, <3>3, <4>1, <4>2 DEF SleepFor, g
    <3>. QED BY <1>0, <3>1, <3>2, <3>4, <3>5, AloneAfter
  <2>. QED BY <2>4, <2>5
<1>5. CASE UNCHANGED vars
  BY <1>5 DEF vars, AloneInv
<1>. QED BY <1>1, <1>2, <1>3, <1>4, <1>5 DEF Next

\* A goroutine that has the limiter for itself is never granted more than Max
\* requests within a minute.
THEOREM AloneBounded == Alone => (Spec => []AtMostMaxPerMinute)
<1>. SUFFICES ASSUME Alone PROVE Spec => []AtMostMaxPerMinute
  OBVIOUS
<1>1. Init => AloneInv
  BY LimiterAssumption DEF Init, AloneInv, LimiterAssumption
<1>2. TypeOK /\ AloneInv /\ [Next]_vars => AloneInv'
  BY LimiterAssumption, AloneNext
<1>3. TypeOK /\ AloneInv => AtMostMaxPerMinute
  BY LimiterAssumption DEF TypeOK, AloneInv, AtMostMaxPerMinute, LimiterAssumption
<1>. QED BY <1>1, <1>2, <1>3, TypeCorrect, PTL DEF Spec
=============================================================================
