-------------------------- MODULE EmbedRateLimiter --------------------------
(***************************************************************************)
(* embed.RateLimiter (engine/embed/ratelimit.go), which all goroutines     *)
(* that embed with one backend share.  Wait holds the mutex but for the    *)
(* one sleep it may make.  Times are kept relative to now: a timestamp as  *)
(* its age, a sleep as what is left of it.  The clock moves on with every  *)
(* section under the mutex (it counts nanoseconds) and between them.       *)
(***************************************************************************)
EXTENDS Integers, Sequences

CONSTANTS Thread,  \* goroutines that call Wait
          Max,     \* rl.max
          Minute,  \* the length of the window, in ticks
          Awake    \* not sleeping

ASSUME LimiterAssumption ==
  /\ Max \in Nat \ {0}
  /\ Minute \in Nat \ {0}
  /\ Awake \notin Nat

VARIABLES timestamps,  \* the ages of rl.timestamps; all above Minute count alike
          sleep        \* sleep[t]: what is left of t's sleep, or Awake

vars == <<timestamps, sleep>>

Init == /\ timestamps = << >>
        /\ sleep = [t \in Thread |-> Awake]

Older(age) == IF age > Minute THEN age ELSE age + 1

\* A tick: s and w are the timestamps and the sleeps, one tick later.
TimestampsAfter(s) == timestamps' = [i \in DOMAIN s |-> Older(s[i])]
SleepAfter(w) ==
  sleep' = [t \in Thread |-> IF w[t] \in Nat \ {0} THEN w[t] - 1 ELSE w[t]]

Tick == TimestampsAfter(timestamps) /\ SleepAfter(sleep)

\* The first n timestamps are older than a minute, and no more in a row.
Old(n) ==
  /\ \A i \in 1..n : timestamps[i] > Minute
  /\ n < Len(timestamps) => timestamps[n + 1] <= Minute

\* rl.timestamps[n:]
Pruned(n) == SubSeq(timestamps, n + 1, Len(timestamps))

\* Mutant: the new timestamp goes to the wrong end.
GrantedInFront(s) == <<0>> \o s

\* The call returns nil, with a timestamp of its own.
Granted(s) == Append(s, 0)

\* Mutant: one request too many.
FullAfterOne(s) == Len(s) > Max

Full(s) == Len(s) >= Max

\* Mutant: the operands of Sub are swapped.
SleepForSwapped(s) == Minute + s[1]

SleepFor(s) == Minute - s[1]

-----------------------------------------------------------------------------
\* Wait, up to its return or its sleep.
Enter(t) ==
  \E n \in 0..Len(timestamps) :
    LET s == Pruned(n)
    IN /\ sleep[t] = Awake
       /\ Old(n)
       /\ IF Full(s) /\ SleepFor(s) > 0
          THEN /\ TimestampsAfter(s)
               /\ SleepAfter([sleep EXCEPT ![t] = SleepFor(s)])
          ELSE /\ TimestampsAfter(Granted(s))
               /\ SleepAfter(sleep)

\* Mutant: a woken goroutine checks again, and sleeps again.
WakeRechecks(t) ==
  \E n \in 0..Len(timestamps) :
    LET s == Pruned(n)
    IN /\ sleep[t] = 0
       /\ Old(n)
       /\ IF Full(s) /\ SleepFor(s) > 0
          THEN /\ TimestampsAfter(s)
               /\ SleepAfter([sleep EXCEPT ![t] = SleepFor(s)])
          ELSE /\ TimestampsAfter(Granted(s))
               /\ SleepAfter([sleep EXCEPT ![t] = Awake])

\* The timer has fired and the goroutine has the mutex again.
Wake(t) ==
  /\ sleep[t] = 0
  /\ TimestampsAfter(Granted(timestamps))
  /\ SleepAfter([sleep EXCEPT ![t] = Awake])

\* The context ends during the sleep.
Cancel(t) ==
  /\ sleep[t] \in Nat
  /\ TimestampsAfter(timestamps)
  /\ SleepAfter([sleep EXCEPT ![t] = Awake])

Next == Tick \/ \E t \in Thread : Enter(t) \/ Wake(t) \/ Cancel(t)

Spec == Init /\ [][Next]_vars

\* The clock goes on, and a timer that has fired wakes its goroutine.
FairSpec == Spec /\ WF_vars(Tick) /\ \A t \in Thread : WF_vars(Wake(t))
-----------------------------------------------------------------------------
TypeOK ==
  /\ timestamps \in Seq(1..(Minute + 1))
  /\ sleep \in [Thread -> 0..Minute \cup {Awake}]

\* Wait prunes from the front: however goroutines sleep, wake and give up, older
\* timestamps come first.
OldestFirst ==
  \A i, j \in DOMAIN timestamps : i < j => timestamps[i] >= timestamps[j]

\* "max requests per minute": a timestamp within the last minute is among the
\* last Max.
AtMostMaxPerMinute ==
  \A i \in DOMAIN timestamps : timestamps[i] < Minute => Len(timestamps) - i < Max

\* No call starves: every sleep ends, whatever other goroutines are granted.
SleepEnds == \A t \in Thread : sleep[t] # Awake ~> sleep[t] = Awake
=============================================================================
