------------------------- MODULE EngineCallsProofs -------------------------
(***************************************************************************)
(* What holds of calls and registrations for any number of them, any       *)
(* selector's priorities and any capabilities.                             *)
(***************************************************************************)
EXTENDS EngineCalls, SequenceTheorems, FiniteSetTheorems, TLAPS

RegistryType == engines \subseteq Engine /\ disabled \subseteq engines

CallType ==
  /\ pc \in [Call -> {"idle", "next", "lookup", "run", "send", "done"}]
  /\ ctx \in [Call -> {"live", "ended"}]
  /\ late \in [Call -> Nat]
  /\ started \in [Call -> Seq(Engine)]
  /\ once \in [Call -> SUBSET Engine]

\* A call that has begun has seen every engine that is enabled now; one that has
\* not has started none.
SeenInv ==
  \A c \in Call : /\ pc[c] # "idle" => Enabled \subseteq once[c]
                  /\ pc[c] = "idle" => started[c] = << >>

\* After a late start a call looks up no engine any more.
LateInv ==
  \A c \in Call : Kind[c] # "pipeline" =>
    /\ late[c] \in {0, 1}
    /\ late[c] = 1 => ctx[c] = "ended" /\ pc[c] \in {"run", "next", "send", "done"}

IInv == RegistryType /\ CallType /\ SeenInv /\ StartedWasEnabled /\ LateInv

LEMMA IInvInit == Init => IInv
BY DEF Init, IInv, RegistryType, CallType, SeenInv, StartedWasEnabled, Range, LateInv,
       Enabled

-----------------------------------------------------------------------------
\* The registry changes only by one of four actions, none of which touches calls.
LEMMA ChangesNext ==
  ASSUME IInv, NEW E \in SUBSET Engine, NEW D \in SUBSET E, Changes(E, D)
  PROVE  IInv'
<1>. USE DEF IInv
<1>1. RegistryType'
  BY DEF Changes, RegistryType
<1>2. CallType'
  BY DEF Changes, CallType
<1>3. SeenInv'
  BY DEF Changes, SeenInv, Enabled
<1>4. StartedWasEnabled'
  BY DEF Changes, StartedWasEnabled, Range, SeenInv
<1>5. LateInv'
  BY DEF Changes, LateInv
<1>. QED BY <1>1, <1>2, <1>3, <1>4, <1>5

LEMMA RegistryNext ==
  ASSUME IInv, NEW e \in Engine,
         \/ RegisterEngine(e) \/ UnregisterEngine(e)
         \/ DisableEngine(e) \/ EnableEngine(e)
  PROVE  IInv'
<1>0. engines \subseteq Engine /\ disabled \subseteq engines
  BY DEF IInv, RegistryType
<1>1. CASE RegisterEngine(e)
  BY <1>0, <1>1, ChangesNext DEF RegisterEngine
<1>2. CASE UnregisterEngine(e)
  BY <1>0, <1>2, ChangesNext DEF UnregisterEngine
<1>3. CASE DisableEngine(e)
  BY <1>0, <1>3, ChangesNext DEF DisableEngine
<1>4. CASE EnableEngine(e)
  BY <1>0, <1>4, ChangesNext DEF EnableEngine
<1>. QED BY <1>1, <1>2, <1>3, <1>4

\* A step of call c that starts no engine and moves c to where p says.
LEMMA MoveNext ==
  ASSUME IInv, NEW c \in Call, NEW p \in {"next", "lookup", "send", "done"},
         UNCHANGED <<registry, started, ctx, late>>,
         pc' = [pc EXCEPT ![c] = p], pc[c] # "idle",
         p = "lookup" => Kind[c] = "pipeline" \/ ctx[c] = "live"
  PROVE  IInv'
<1>. USE DEF IInv, registry
<1>1. RegistryType'
  BY DEF RegistryType
<1>2. CallType'
  BY DEF CallType
<1>3. SeenInv'
  BY DEF SeenInv, Enabled, CallType
<1>4. StartedWasEnabled'
  BY DEF StartedWasEnabled, Range
<1>5. LateInv'
  BY DEF LateInv, CallType
<1>. QED BY <1>1, <1>2, <1>3, <1>4, <1>5

LEMMA BeginNext == ASSUME IInv, NEW c \in Call, Begin(c) PROVE IInv'
<1>. USE DEF IInv
<1>1. PICK p \in {"done", "next", "lookup"} : pc' = [pc EXCEPT ![c] = p]
  BY DEF Begin
<1>2. /\ pc[c] = "idle" /\ once' = [once EXCEPT ![c] = Enabled]
      /\ UNCHANGED <<engines, disabled, started, ctx, late>>
  BY DEF Begin
<1>3. RegistryType'
  BY <1>2 DEF RegistryType
<1>4. CallType'
  BY <1>1, <1>2 DEF CallType, RegistryType, Enabled
<1>5. SeenInv'
  BY <1>1, <1>2 DEF SeenInv, Enabled, CallType
<1>6. StartedWasEnabled'
  BY <1>2 DEF StartedWasEnabled, Range, SeenInv, CallType
<1>7. LateInv'
  BY <1>1, <1>2 DEF LateInv, CallType
<1>. QED BY <1>3, <1>4, <1>5, <1>6, <1>7

LEMMA RangeAppend ==
  ASSUME NEW S, NEW q \in Seq(S), NEW e \in S
  PROVE  Range(Append(q, e)) = Range(q) \cup {e}
<1>1. /\ DOMAIN Append(q, e) = DOMAIN q \cup {Len(q) + 1}
      /\ Append(q, e)[Len(q) + 1] = e
      /\ \A i \in DOMAIN q : Append(q, e)[i] = q[i]
  OBVIOUS
<1>. QED BY <1>1, Zenon DEF Range

LEMMA LookupNext == ASSUME IInv, NEW c \in Call, Lookup(c) PROVE IInv'
<1>. USE DEF IInv
<1> DEFINE e == Current(c)
<1>1. /\ pc[c] = "lookup" /\ e \in Enabled /\ e \in Engine
      /\ pc' = [pc EXCEPT ![c] = "run"]
      /\ started' = [started EXCEPT ![c] = Append(started[c], e)]
      /\ late' = [late EXCEPT ![c] = IF ctx[c] = "ended" THEN late[c] + 1 ELSE late[c]]
      /\ UNCHANGED <<engines, disabled, once, ctx>>
  BY DEF Lookup, Runnable, Enabled, RegistryType, registry
<1>. HIDE DEF e
<1>2. RegistryType'
  BY <1>1 DEF RegistryType
<1>3. CallType'
  <2>1. Append(started[c], e) \in Seq(Engine)
    BY <1>1 DEF CallType
  <2>2. started' \in [Call -> Seq(Engine)]
    BY <1>1, <2>1 DEF CallType
  <2>3. late' \in [Call -> Nat]
    BY <1>1 DEF CallType
  <2>. QED BY <1>1, <2>2, <2>3 DEF CallType
<1>4. SeenInv'
  BY <1>1 DEF SeenInv, Enabled, CallType
<1>5. StartedWasEnabled'
  <2>1. Range(Append(started[c], e)) = Range(started[c]) \cup {e}
    BY <1>1, RangeAppend DEF CallType
  <2>2. e \in once[c]
    BY <1>1 DEF SeenInv
  <2>3. ASSUME NEW d \in Call PROVE Range(started'[d]) \subseteq once[d]
    <3>1. CASE d = c
      BY <1>1, <2>1, <2>2, <3>1 DEF StartedWasEnabled, CallType
    <3>2. CASE d # c
      BY <1>1, <3>2 DEF StartedWasEnabled, CallType
    <3>. QED BY <3>1, <3>2
  <2>. QED BY <1>1, <2>3 DEF StartedWasEnabled, Range
<1>6. LateInv'
  BY <1>1 DEF LateInv, CallType
<1>. QED BY <1>2, <1>3, <1>4, <1>5, <1>6

LEMMA EndContextNext == ASSUME IInv, NEW c \in Call, EndContext(c) PROVE IInv'
<1>. USE DEF IInv, EndContext, registry
<1>1. RegistryType' /\ SeenInv'
  BY DEF RegistryType, SeenInv, Enabled
<1>2. CallType'
  BY DEF CallType
<1>3. StartedWasEnabled'
  BY DEF StartedWasEnabled, Range
<1>4. LateInv'
  BY DEF LateInv, CallType
<1>. QED BY <1>1, <1>2, <1>3, <1>4

LEMMA ReceiveNext ==
  ASSUME IInv, UNCHANGED <<registry, pc, started, ctx, late>> PROVE IInv'
<1>. USE DEF IInv, registry
<1>1. RegistryType' /\ SeenInv' /\ CallType' /\ LateInv'
  BY DEF RegistryType, SeenInv, Enabled, CallType, LateInv
<1>2. StartedWasEnabled'
  BY DEF StartedWasEnabled, Range
<1>. QED BY <1>1, <1>2

LEMMA EndsMove ==
  ASSUME CallType, NEW c \in Call, NEW o, Ends(c, o)
  PROVE  \E p \in {"send", "done"} : pc' = [pc EXCEPT ![c] = p]
BY DEF Ends

LEMMA FailedNext ==
  ASSUME IInv, NEW c \in Call, Failed(c), pc[c] # "idle" PROVE IInv'
<1>1. PICK p \in {"next", "send", "done"} : pc' = [pc EXCEPT ![c] = p]
  BY DEF Failed, Ends
<1>2. UNCHANGED <<registry, started, ctx, late>>
  BY DEF Failed
<1>. QED BY <1>1, <1>2, MoveNext

LEMMA StepNext == ASSUME IInv, NEW c \in Call, Step(c) PROVE IInv'
<1>1. CASE CheckContext(c)
  <2>1. PICK p \in {"lookup", "send", "done"} :
          /\ pc' = [pc EXCEPT ![c] = p]
          /\ p = "lookup" => ctx[c] # "ended"
    BY <1>1 DEF CheckContext, Ends
  <2>2. pc[c] # "idle" /\ UNCHANGED <<registry, started, ctx, late>>
    BY <1>1 DEF CheckContext
  <2>3. p = "lookup" => ctx[c] = "live"
    BY <2>1 DEF IInv, CallType
  <2>. QED BY <2>1, <2>2, <2>3, MoveNext
<1>2. CASE Lookup(c)
  BY <1>2, LookupNext
<1>3. CASE LookupFails(c) \/ EngineFails(c)
  BY <1>3, FailedNext DEF LookupFails, EngineFails
<1>4. CASE EngineSucceeds(c)
  <2>1. PICK p \in {"lookup", "send", "done"} :
          /\ pc' = [pc EXCEPT ![c] = p]
          /\ p = "lookup" => Kind[c] = "pipeline"
    BY <1>4 DEF EngineSucceeds, Ends
  <2>2. pc[c] # "idle" /\ UNCHANGED <<registry, started, ctx, late>>
    BY <1>4 DEF EngineSucceeds
  <2>. QED BY <2>1, <2>2, MoveNext
<1>5. CASE Send(c)
  <2>1. pc' = [pc EXCEPT ![c] = "done"] /\ pc[c] # "idle"
        /\ UNCHANGED <<registry, started, ctx, late>>
    BY <1>5 DEF Send
  <2>. QED BY <2>1, MoveNext
<1>. QED BY <1>1, <1>2, <1>3, <1>4, <1>5 DEF Step

LEMMA IInvNext == IInv /\ [Next]_vars => IInv'
<1>. SUFFICES ASSUME IInv, [Next]_vars PROVE IInv'
  OBVIOUS
<1>1. ASSUME NEW e \in Engine,
             \/ RegisterEngine(e) \/ UnregisterEngine(e)
             \/ DisableEngine(e) \/ EnableEngine(e)
      PROVE  IInv'
  BY <1>1, RegistryNext
<1>2. ASSUME NEW c \in Call, Begin(c) PROVE IInv'
  BY <1>2, BeginNext
<1>3. ASSUME NEW c \in Call, Step(c) PROVE IInv'
  BY <1>3, StepNext
<1>4. ASSUME NEW c \in Call, EndContext(c) PROVE IInv'
  BY <1>4, EndContextNext
<1>5. ASSUME NEW c \in Call, Receive(c) PROVE IInv'
  <2>1. UNCHANGED <<registry, pc, started, ctx, late>>
    BY <1>5 DEF Receive
  <2>. QED BY <2>1, ReceiveNext
<1>6. CASE UNCHANGED vars
  <2>1. UNCHANGED <<registry, pc, started, ctx, late>>
    BY <1>6 DEF vars, registry
  <2>. QED BY <2>1, ReceiveNext
<1>. QED BY <1>1, <1>2, <1>3, <1>4, <1>5, <1>6 DEF Next

LEMMA Invariant == Spec => []IInv
BY IInvInit, IInvNext, PTL DEF Spec

\* No flag in c.disabled outlives its engine.
THEOREM FlagsHaveEngines == Spec => []DisabledAreRegistered
<1>1. IInv => DisabledAreRegistered
  BY DEF IInv, RegistryType, DisabledAreRegistered
<1>. QED BY <1>1, Invariant, PTL

\* Every engine a call runs was registered and enabled at some time during it.
THEOREM OnlyEnabledRun == Spec => []StartedWasEnabled
<1>1. IInv => StartedWasEnabled
  BY DEF IInv
<1>. QED BY <1>1, Invariant, PTL

\* At most one engine is started after the context of a call has ended.
THEOREM AtMostOneLate == Spec => []OneLateStart
<1>1. IInv => OneLateStart
  BY DEF IInv, LateInv, OneLateStart
<1>. QED BY <1>1, Invariant, PTL
-----------------------------------------------------------------------------
(* What is listed, selected and ranked. *)

LEMMA MinIsMember ==
  ASSUME NEW S \in SUBSET Nat, S # {}
  PROVE  Min(S) \in S /\ \A x \in S : Min(S) <= x
<1>. DEFINE T == {0..m : m \in S}
<1>1. T \subseteq FiniteSubsetsOf(Nat) /\ T # {}
  <2>1. ASSUME NEW m \in S PROVE 0..m \in FiniteSubsetsOf(Nat)
    <3>1. m \in Int /\ 0 \in Int /\ 0..m \subseteq Nat
      OBVIOUS
    <3>2. IsFiniteSet(0..m)
      BY <3>1, FS_Interval
    <3>. QED BY <3>1, <3>2 DEF FiniteSubsetsOf
  <2>. QED BY <2>1
<1>2. PICK B \in T : \A A \in T : <<A, B>> \notin StrictSubsetOrdering(Nat)
  BY <1>1, FS_StrictSubsetOrderingWellFounded, WFMin
<1>3. PICK m \in S : B = 0..m
  BY <1>2
<1>4. ASSUME NEW x \in S PROVE m <= x
  <2>1. SUFFICES ASSUME x < m PROVE FALSE
    OBVIOUS
  <2>2. 0..x \in T /\ 0..x \subseteq 0..m /\ 0..x # 0..m
    <3>1. m \in 0..m /\ m \notin 0..x
      BY <2>1
    <3>. QED BY <2>1, <3>1
  <2>3. <<0..x, 0..m>> \in StrictSubsetOrdering(Nat)
    BY <2>2 DEF StrictSubsetOrdering
  <2>. QED BY <1>2, <1>3, <2>2, <2>3
<1>. QED BY <1>4 DEF Min

\* A listing of a set names each of its members.
LEMMA ListingNamesAll ==
  ASSUME NEW S \in SUBSET Nat, IsFiniteSet(S), NEW q \in Listings(S)
  PROVE  q \in Seq(S) /\ Range(q) = S
<1>. DEFINE n == Cardinality(S)
<1>1. n \in Nat
  BY FS_CardinalityType
<1>2. q \in [1..n -> S] /\ \A i, k \in 1..n : i < k => q[i] < q[k]
  BY DEF Listings
<1>. HIDE DEF n
<1>3. q \in Injection(1..n, S)
  <2>1. \A i, k \in 1..n : q[i] = q[k] => i = k
    <3>. SUFFICES ASSUME NEW i \in 1..n, NEW k \in 1..n, q[i] = q[k], i # k PROVE FALSE
      OBVIOUS
    <3>0. q[i] \in S /\ q[k] \in S
      BY <1>2
    <3>1. q[i] \in Nat /\ q[k] \in Nat
      BY <3>0
    <3>2. i < k \/ k < i
      BY <1>1
    <3>3. q[i] < q[k] \/ q[k] < q[i]
      BY <1>2, <3>2
    <3>. QED BY <3>1, <3>3
  <2>. QED BY <1>2, <2>1 DEF Injection, IsInjective
<1>4. Cardinality(1..n) = n
  BY <1>1, FS_Interval
<1>5. q \in Surjection(1..n, S)
  BY <1>3, <1>4, FS_Injection DEF n
<1>6. DOMAIN q = 1..n
  BY <1>2
<1>7. Range(q) = S
  BY <1>2, <1>5, <1>6 DEF Surjection, Range
<1>. QED BY <1>1, <1>2, <1>7

LEMMA SelectedIsCandidate ==
  ASSUME CallsAssumption, RegistryType, Filtered # {}
  PROVE  Selected \in Filtered
<1>. DEFINE preferred == {i \in DOMAIN Priority : Priority[i] \in Filtered}
<1>1. Filtered \subseteq Nat /\ DOMAIN Priority \subseteq Nat
  BY DEF Filtered, Enabled, RegistryType, CallsAssumption
<1>2. preferred # {} => Min(preferred) \in preferred
  BY <1>1, MinIsMember
<1>3. Min(Filtered) \in Filtered
  BY <1>1, MinIsMember
<1>. QED BY <1>2, <1>3 DEF Selected

\* Whatever a fallback is given to try contains every engine that is enabled.
LEMMA ChosenNamesAll ==
  ASSUME CallsAssumption, RegistryType, NEW c \in Call, NEW q \in Chosen(c)
  PROVE  /\ q \in Seq(Engine)
         /\ Kind[c] = "auto" /\ q # << >> => Enabled \subseteq Range(q)
<1>1. CASE Kind[c] \notin {"select", "auto"}
  BY <1>1 DEF Chosen, CallsAssumption
<1>2. CASE Kind[c] \in {"select", "auto"} /\ Filtered = {}
  BY <1>2 DEF Chosen
<1>3. CASE Kind[c] = "select" /\ Filtered # {}
  <2>1. Selected \in Engine
    BY <1>3, SelectedIsCandidate DEF Filtered, Enabled, RegistryType
  <2>2. q = <<Selected>>
    BY <1>3 DEF Chosen
  <2>. QED BY <1>3, <2>1, <2>2
<1>4. CASE Kind[c] = "auto" /\ Filtered # {}
  <2>1. Selected \in Enabled /\ Enabled \subseteq Engine
    BY <1>4, SelectedIsCandidate DEF Filtered, Enabled, RegistryType
  <2>2. PICK r \in Listings(Enabled \ {Selected}) : q = <<Selected>> \o r
    BY <1>4 DEF Chosen, Ranked
  <2>3. Enabled \ {Selected} \in SUBSET Nat /\ IsFiniteSet(Enabled \ {Selected})
    BY <2>1, FS_Subset DEF CallsAssumption
  <2>4. r \in Seq(Engine) /\ Range(r) = Enabled \ {Selected}
    <3>. DEFINE S == Enabled \ {Selected}
    <3>1. S \subseteq Engine
      BY <2>1
    <3>. HIDE DEF S
    <3>2. r \in Seq(S) /\ Range(r) = S
      BY <2>2, <2>3, ListingNamesAll DEF S
    <3>. QED BY <3>1, <3>2 DEF S
  <2>. DEFINE e == Selected
  <2>. HIDE DEF e
  <2>5. <<e>> \in Seq(Engine) /\ Len(<<e>>) = 1 /\ <<e>>[1] = e
    BY <2>1 DEF e
  <2>6. /\ q \in Seq(Engine) /\ Len(q) = 1 + Len(r)
        /\ \A i \in 1..Len(q) : q[i] = IF i <= 1 THEN <<e>>[i] ELSE r[i - 1]
    BY <2>2, <2>4, <2>5, ConcatProperties DEF e
  <2>7. \A x \in Enabled : x \in Range(q)
    <3>1. SUFFICES ASSUME NEW x \in Enabled PROVE \E i \in DOMAIN q : q[i] = x
      BY DEF Range
    <3>2. CASE x = e
      BY <2>4, <2>5, <2>6, <3>2
    <3>3. CASE x # e
      <4>1. PICK k \in DOMAIN r : r[k] = x
        BY <2>4, <3>3 DEF Range, e
      <4>2. k \in 1..Len(r) /\ Len(r) \in Nat /\ DOMAIN q = 1..Len(q)
        BY <2>4, <2>6
      <4>3. k + 1 \in DOMAIN q /\ q[k + 1] = r[k]
        BY <2>6, <4>2
      <4>. QED BY <4>1, <4>3
    <3>. QED BY <3>2, <3>3
  <2>. QED BY <2>6, <2>7
<1>. QED BY <1>1, <1>2, <1>3, <1>4
-----------------------------------------------------------------------------
(* What a call has tried, and what it remembers of it. *)

Under == {"next", "lookup", "run"}

QueueType ==
  /\ ranked \in [Call -> Seq(Engine)]
  /\ past \in [Call -> Seq(Engine)]
  /\ at \in [Call -> Nat]
  /\ outcome \in [Call -> Outcomes]
  /\ always \in [Call -> SUBSET Engine]

\* Where call c is in its list, and that past[c] is what it has behind it.
Placed(c) ==
  /\ pc[c] = "idle" => at[c] = 1 /\ past[c] = << >>
  /\ pc[c] \in Under \cup {"idle"} => outcome[c] = "none"
  /\ pc[c] \in Under => /\ at[c] \in 1..Len(ranked[c])
                        /\ past[c] = SubSeq(ranked[c], 1, at[c] - 1)

Selects(c) == Kind[c] = "auto" /\ c \notin Invalid

\* Of the engines that were enabled all the time, c has called those it is past.
Tried(c) ==
  /\ pc[c] # "idle" => always[c] \subseteq Enabled
  /\ pc[c] \in Under =>
       /\ always[c] \subseteq Range(ranked[c])
       /\ \A i \in 1..(at[c] - 1) :
            ranked[c][i] \in always[c] => ranked[c][i] \in Range(started[c])
  /\ pc[c] = "run" => Current(c) \in Range(started[c])
  /\ outcome[c] = "failed" => always[c] \subseteq Range(started[c])

QueueInv == /\ QueueType
            /\ \A c \in Call : Placed(c) /\ (Selects(c) => Tried(c))

LEMMA QueueInit == CallsAssumption /\ Init => QueueInv
BY DEF Init, QueueInv, QueueType, Placed, Selects, Tried, Under, Outcomes

LEMMA PastGrows ==
  ASSUME QueueType, NEW c \in Call, Placed(c), pc[c] \in Under
  PROVE  /\ Past(c) \in [Call -> Seq(Engine)]
         /\ Past(c)[c] = SubSeq(ranked[c], 1, at[c])
<1>. DEFINE q == ranked[c]
            n == at[c]
            p == past[c]
<1>1. q \in Seq(Engine) /\ n \in 1..Len(q) /\ p = SubSeq(q, 1, n - 1) /\ p \in Seq(Engine)
  BY DEF QueueType, Placed
<1>2. past \in [Call -> Seq(Engine)] /\ Past(c) = [past EXCEPT ![c] = Append(p, q[n])]
  BY DEF QueueType, Past, Current
<1>. HIDE DEF q, n, p
<1>3. q[n] \in Engine
  BY <1>1
<1>4. Append(p, q[n]) = p \o <<q[n]>>
  BY <1>1, <1>3, AppendIsConcat
<1>5. SubSeq(q, 1, n) = SubSeq(q, 1, n - 1) \o <<q[n]>>
  <2>1. 1 \in 1..Len(q) /\ n \in 1..Len(q)
    BY <1>1
  <2>. QED BY <1>1, <2>1, SubSeqRecursiveSecond
<1>6. Append(p, q[n]) \in Seq(Engine)
  BY <1>1, <1>3
<1>7. Past(c) \in [Call -> Seq(Engine)] /\ Past(c)[c] = SubSeq(q, 1, n)
  BY <1>1, <1>2, <1>4, <1>5, <1>6
<1>. QED BY <1>7 DEF q, n

\* A call that takes no step keeps what it has tried while engines come and go.
LEMMA Framed ==
  ASSUME NEW d \in Call, Placed(d), Selects(d) => Tried(d),
         pc'[d] = pc[d], ranked'[d] = ranked[d], at'[d] = at[d], past'[d] = past[d],
         started'[d] = started[d], outcome'[d] = outcome[d],
         always'[d] \subseteq always[d], pc[d] # "idle" => always'[d] \subseteq Enabled'
  PROVE  Placed(d)' /\ (Selects(d) => Tried(d)')
<1>1. Placed(d)'
  BY DEF Placed, Under
<1>2. ASSUME Selects(d) PROVE Tried(d)'
  BY <1>2 DEF Tried, Under, Current, Range
<1>. QED BY <1>1, <1>2

\* A step of call c that leaves the registry alone.
LEMMA StepOf ==
  ASSUME QueueInv, NEW c \in Call, QueueType', Placed(c)', Selects(c) => Tried(c)',
         UNCHANGED registry,
         \A d \in Call \ {c} : /\ pc'[d] = pc[d] /\ ranked'[d] = ranked[d]
                               /\ at'[d] = at[d] /\ past'[d] = past[d]
                               /\ started'[d] = started[d] /\ outcome'[d] = outcome[d]
  PROVE  QueueInv'
<1>1. ASSUME NEW d \in Call \ {c} PROVE Placed(d)' /\ (Selects(d) => Tried(d)')
  <2>1. CASE Selects(d)
    <3>1. pc[d] # "idle" => always[d] \subseteq Enabled
      BY <2>1 DEF QueueInv, Tried
    <3>. QED BY <1>1, <3>1, Framed DEF QueueInv, registry, Enabled
  <2>2. CASE ~Selects(d)
    BY <1>1, <2>2 DEF QueueInv, Placed, Under
  <2>. QED BY <2>1, <2>2
<1>. QED BY <1>1 DEF QueueInv, Selects

LEMMA ChangesQueue ==
  ASSUME QueueInv, NEW E \in SUBSET Engine, NEW D \in SUBSET E, Changes(E, D)
  PROVE  QueueInv'
<1>1. QueueType'
  BY DEF QueueInv, QueueType, Changes
<1>2. ASSUME NEW d \in Call PROVE Placed(d)' /\ (Selects(d) => Tried(d)')
  <2>1. always'[d] \subseteq always[d] /\ always'[d] \subseteq Enabled'
    BY DEF Changes, Enabled
  <2>. QED BY <2>1, Framed DEF QueueInv, Changes
<1>. QED BY <1>1, <1>2 DEF QueueInv, Selects

LEMMA BeginQueue ==
  ASSUME CallsAssumption, IInv, QueueInv, NEW c \in Call, Begin(c)
  PROVE  QueueInv'
<1>1. PICK q \in Chosen(c) :
        /\ ranked' = [ranked EXCEPT ![c] = q]
        /\ pc' = [pc EXCEPT ![c] = IF q = << >> THEN "done"
                                   ELSE IF Kind[c] \in {"list", "auto"} THEN "next"
                                   ELSE "lookup"]
  BY DEF Begin
<1>2. /\ pc[c] = "idle" /\ always' = [always EXCEPT ![c] = Enabled]
      /\ UNCHANGED <<engines, disabled, at, past, started, outcome>>
  BY DEF Begin
<1>3. q \in Seq(Engine) /\ (Kind[c] = "auto" /\ q # << >> => Enabled \subseteq Range(q))
  BY ChosenNamesAll DEF IInv
<1>4. Enabled \subseteq Engine
  BY DEF IInv, RegistryType, Enabled
<1>5. QueueType'
  BY <1>1, <1>2, <1>3, <1>4 DEF QueueInv, QueueType
<1>6. /\ ranked'[c] = q /\ at'[c] = 1 /\ past'[c] = << >> /\ outcome'[c] = "none"
      /\ always'[c] = Enabled /\ pc'[c] \in {"done", "next", "lookup"}
      /\ pc'[c] # "done" => q # << >>
  BY <1>1, <1>2 DEF QueueInv, QueueType, Placed, IInv, CallType
<1>7. Placed(c)'
  <2>1. SubSeq(q, 1, 1 - 1) = << >>
    BY SubSeqEmpty
  <2>2. q # << >> => 1 \in 1..Len(q)
    BY <1>3
  <2>. QED BY <1>6, <2>1, <2>2 DEF Placed, Under
<1>8. ASSUME Selects(c) PROVE Tried(c)'
  <2>1. Enabled' = Enabled
    BY <1>2 DEF Enabled
  <2>. QED BY <1>3, <1>6, <1>8, <2>1 DEF Tried, Under, Selects, Range
<1>9. ASSUME NEW d \in Call \ {c} PROVE Placed(d)' /\ (Selects(d) => Tried(d)')
  <2>1. /\ pc'[d] = pc[d] /\ ranked'[d] = ranked[d] /\ at'[d] = at[d]
        /\ past'[d] = past[d] /\ started'[d] = started[d] /\ outcome'[d] = outcome[d]
        /\ always'[d] = always[d] /\ Enabled' = Enabled
    BY <1>1, <1>2 DEF Enabled, QueueInv, QueueType, IInv, CallType
  <2>2. CASE Selects(d)
    BY <2>1, <2>2, Framed DEF QueueInv, Tried
  <2>3. CASE ~Selects(d)
    BY <2>1, <2>3 DEF QueueInv, Placed, Under
  <2>. QED BY <2>2, <2>3
<1>. QED BY <1>5, <1>7, <1>8, <1>9 DEF QueueInv, Selects

\* A call that ends in an outcome other than "done" has no more to show.
LEMMA EndsQueue ==
  ASSUME IInv, QueueInv, NEW c \in Call, pc[c] \in Under,
         NEW o \in {"failed", "cancelled"}, Ends(c, o),
         UNCHANGED <<registry, ranked, at, started>>,
         past' \in [Call -> Seq(Engine)], \A d \in Call \ {c} : past'[d] = past[d],
         Selects(c) /\ o = "failed" => always[c] \subseteq Range(started[c])
  PROVE  QueueInv'
<1>1. pc'[c] \in {"send", "done"} /\ outcome'[c] = o
      /\ \A d \in Call \ {c} : pc'[d] = pc[d] /\ outcome'[d] = outcome[d]
  BY DEF Ends, QueueInv, QueueType, IInv, CallType
<1>2. QueueType'
  BY DEF QueueInv, QueueType, Ends, registry, Outcomes
<1>3. Placed(c)'
  BY <1>1 DEF Placed, Under
<1>4. Selects(c) => Tried(c)'
  BY <1>1 DEF QueueInv, Tried, Under, registry, Enabled, Range
<1>. QED BY <1>1, <1>2, <1>3, <1>4, StepOf

LEMMA FailedQueue ==
  ASSUME IInv, QueueInv, NEW c \in Call, pc[c] \in Under, Failed(c),
         Selects(c) /\ Current(c) \in always[c] => Current(c) \in Range(started[c])
  PROVE  QueueInv'
<1>1. /\ Past(c) \in [Call -> Seq(Engine)] /\ Past(c)[c] = SubSeq(ranked[c], 1, at[c])
      /\ \A d \in Call \ {c} : Past(c)[d] = past[d]
  BY PastGrows DEF QueueInv, Past, QueueType
<1>2. UNCHANGED <<registry, ranked, started>>
  BY DEF Failed
<1>3. at[c] \in 1..Len(ranked[c]) /\ ranked[c] \in Seq(Engine)
  BY DEF QueueInv, Placed, QueueType
<1>4. ASSUME Selects(c), NEW i \in 1..at[c], ranked[c][i] \in always[c]
      PROVE  ranked[c][i] \in Range(started[c])
  <2>1. CASE i = at[c]
    BY <1>4, <2>1 DEF Current
  <2>2. CASE i \in 1..(at[c] - 1)
    BY <1>4, <2>2 DEF QueueInv, Tried
  <2>. QED BY <1>3, <2>1, <2>2
<1>5. CASE Kind[c] \notin {"list", "auto"}
  BY <1>2, <1>5, EndsQueue DEF Failed, Selects, QueueInv, QueueType
<1>6. CASE Kind[c] \in {"list", "auto"} /\ LastOne(c)
  <2>1. Selects(c) => always[c] \subseteq Range(started[c])
    BY <1>3, <1>4, <1>6 DEF QueueInv, Tried, LastOne, Range
  <2>. QED BY <1>1, <1>2, <1>6, <2>1, EndsQueue DEF Failed
<1>7. CASE Kind[c] \in {"list", "auto"} /\ ~LastOne(c)
  <2>1. /\ past' = Past(c) /\ at' = [at EXCEPT ![c] = at[c] + 1]
        /\ pc' = [pc EXCEPT ![c] = "next"] /\ UNCHANGED outcome
    BY <1>7 DEF Failed
  <2>2. /\ pc'[c] = "next" /\ at'[c] = at[c] + 1 /\ outcome'[c] = "none"
        /\ \A d \in Call \ {c} : pc'[d] = pc[d] /\ at'[d] = at[d]
    BY <2>1 DEF QueueInv, QueueType, IInv, CallType, Placed
  <2>3. QueueType'
    BY <1>1, <1>2, <2>1 DEF QueueInv, QueueType, registry
  <2>4. at[c] + 1 \in 1..Len(ranked[c]) /\ (at[c] + 1) - 1 = at[c]
    BY <1>3, <1>7 DEF LastOne
  <2>5. Placed(c)'
    BY <1>1, <1>2, <2>1, <2>2, <2>4 DEF Placed, Under
  <2>6. ASSUME Selects(c) PROVE Tried(c)'
    <3>1. /\ always[c] \subseteq Enabled /\ always[c] \subseteq Range(ranked[c])
      BY <2>6 DEF QueueInv, Tried, Under
    <3>2. /\ always'[c] = always[c] /\ ranked'[c] = ranked[c] /\ started'[c] = started[c]
          /\ Enabled' = Enabled
      BY <1>2 DEF registry, Enabled
    <3>. QED BY <1>4, <2>2, <2>4, <2>6, <3>1, <3>2 DEF Tried, Under, Range
  <2>. QED BY <1>1, <1>2, <2>1, <2>2, <2>3, <2>5, <2>6, StepOf
<1>. QED BY <1>5, <1>6, <1>7

LEMMA LookupQueue ==
  ASSUME IInv, QueueInv, NEW c \in Call, Lookup(c) PROVE QueueInv'
<1>. DEFINE e == Current(c)
<1>1. /\ pc[c] = "lookup" /\ e \in Engine
      /\ pc' = [pc EXCEPT ![c] = "run"]
      /\ started' = [started EXCEPT ![c] = Append(started[c], e)]
      /\ UNCHANGED <<registry, ranked, at, past, outcome>>
  BY DEF Lookup, Runnable, IInv, RegistryType
<1>2. UNCHANGED <<engines, disabled, always>>
  BY <1>1 DEF registry
<1>3. Current(c)' = e
  BY <1>1 DEF Current
<1>. HIDE DEF e
<1>4. Range(Append(started[c], e)) = Range(started[c]) \cup {e}
  BY <1>1, RangeAppend DEF IInv, CallType
<1>5. /\ pc'[c] = "run" /\ started'[c] = Append(started[c], e)
      /\ \A d \in Call \ {c} : pc'[d] = pc[d] /\ started'[d] = started[d]
  BY <1>1 DEF IInv, CallType
<1>6. QueueType'
  BY <1>1, <1>2 DEF QueueInv, QueueType
<1>7. Placed(c)'
  BY <1>1, <1>5 DEF QueueInv, Placed, Under
<1>8. ASSUME Selects(c) PROVE Tried(c)'
  <2>1. /\ always[c] \subseteq Enabled /\ always[c] \subseteq Range(ranked[c])
        /\ \A i \in 1..(at[c] - 1) :
             ranked[c][i] \in always[c] => ranked[c][i] \in Range(started[c])
        /\ outcome[c] = "none"
    BY <1>1, <1>8 DEF QueueInv, Tried, Placed, Under
  <2>2. Range(started[c])' = Range(started[c]) \cup {e}
    BY <1>4, <1>5 DEF Range
  <2>3. Range(ranked[c])' = Range(ranked[c]) /\ Enabled' = Enabled
    BY <1>1, <1>2 DEF Range, Enabled
  <2>. QED BY <1>1, <1>2, <1>3, <1>5, <2>1, <2>2, <2>3 DEF Tried, Under
<1>. QED BY <1>1, <1>5, <1>6, <1>7, <1>8, StepOf

LEMMA SucceedsQueue ==
  ASSUME IInv, QueueInv, NEW c \in Call, EngineSucceeds(c) PROVE QueueInv'
<1>1. /\ pc[c] = "run" /\ outcome[c] = "none"
      /\ at[c] \in 1..Len(ranked[c]) /\ ranked[c] \in Seq(Engine)
      /\ past[c] = SubSeq(ranked[c], 1, at[c] - 1)
      /\ UNCHANGED <<registry, ranked, started>>
  BY DEF EngineSucceeds, QueueInv, QueueType, Placed, Under
<1>2. /\ Past(c) \in [Call -> Seq(Engine)] /\ Past(c)[c] = SubSeq(ranked[c], 1, at[c])
      /\ \A d \in Call \ {c} : Past(c)[d] = past[d]
  BY <1>1, PastGrows DEF QueueInv, Past, QueueType, Under
<1>3. /\ past' \in [Call -> Seq(Engine)] /\ \A d \in Call \ {c} : past'[d] = past[d]
      /\ past'[c] = SubSeq(ranked[c], 1, IF Kind[c] = "pipeline" THEN at[c] ELSE at[c] - 1)
  BY <1>1, <1>2 DEF EngineSucceeds, QueueInv, QueueType
<1>4. CASE Kind[c] = "pipeline" /\ ~LastOne(c)
  <2>1. /\ at' = [at EXCEPT ![c] = at[c] + 1]
        /\ pc' = [pc EXCEPT ![c] = "lookup"] /\ UNCHANGED outcome
    BY <1>4 DEF EngineSucceeds
  <2>2. /\ pc'[c] = "lookup" /\ at'[c] = at[c] + 1
        /\ \A d \in Call \ {c} : pc'[d] = pc[d] /\ at'[d] = at[d]
    BY <2>1 DEF QueueInv, QueueType, IInv, CallType
  <2>3. QueueType'
    BY <1>1, <1>3, <2>1 DEF QueueInv, QueueType, registry
  <2>4. at[c] + 1 \in 1..Len(ranked[c]) /\ (at[c] + 1) - 1 = at[c]
    BY <1>1, <1>4 DEF LastOne
  <2>5. Placed(c)'
    BY <1>1, <1>3, <1>4, <2>1, <2>2, <2>4 DEF Placed, Under
  <2>. QED BY <1>1, <1>3, <1>4, <2>1, <2>2, <2>3, <2>5, StepOf DEF Selects
<1>5. CASE ~(Kind[c] = "pipeline" /\ ~LastOne(c))
  <2>1. Ends(c, "done") /\ UNCHANGED at
    BY <1>5 DEF EngineSucceeds
  <2>2. /\ pc'[c] \in {"send", "done"} /\ outcome'[c] = "done"
        /\ \A d \in Call \ {c} : pc'[d] = pc[d] /\ outcome'[d] = outcome[d]
    BY <2>1 DEF Ends, QueueInv, QueueType, IInv, CallType
  <2>3. QueueType'
    BY <1>1, <1>3, <2>1 DEF QueueInv, QueueType, registry, Ends, Outcomes
  <2>4. Placed(c)'
    BY <1>1, <1>3, <2>1, <2>2 DEF Placed, Under
  <2>5. Selects(c) => Tried(c)'
    BY <1>1, <2>2 DEF QueueInv, Tried, Under, registry, Enabled
  <2>. QED BY <1>1, <1>3, <2>1, <2>2, <2>3, <2>4, <2>5, StepOf
<1>. QED BY <1>4, <1>5

LEMMA StepQueue == ASSUME IInv, QueueInv, NEW c \in Call, Step(c) PROVE QueueInv'
<1>1. CASE CheckContext(c) /\ ctx[c] = "ended"
  BY <1>1, EndsQueue DEF CheckContext, Under, QueueInv, QueueType
<1>2. CASE CheckContext(c) /\ ctx[c] # "ended"
  <2>1. /\ pc[c] = "next" /\ pc' = [pc EXCEPT ![c] = "lookup"]
        /\ UNCHANGED <<registry, ranked, at, past, started, outcome>>
    BY <1>2 DEF CheckContext
  <2>2. pc'[c] = "lookup" /\ \A d \in Call \ {c} : pc'[d] = pc[d]
    BY <2>1 DEF IInv, CallType
  <2>3. QueueType'
    BY <2>1 DEF QueueInv, QueueType, registry
  <2>4. Placed(c)'
    BY <2>1, <2>2 DEF QueueInv, Placed, Under
  <2>5. Selects(c) => Tried(c)'
    BY <2>1, <2>2 DEF QueueInv, Tried, Under, registry, Enabled, Range
  <2>. QED BY <2>1, <2>2, <2>3, <2>4, <2>5, StepOf
<1>3. CASE Lookup(c)
  BY <1>3, LookupQueue
<1>4. CASE LookupFails(c)
  <2>1. pc[c] = "lookup" /\ Failed(c) /\ (c \in Invalid \/ Current(c) \notin Enabled)
    BY <1>4 DEF LookupFails, Runnable, Enabled
  <2>2. Selects(c) => Current(c) \notin always[c]
    BY <2>1 DEF QueueInv, Tried, Selects
  <2>. QED BY <2>1, <2>2, FailedQueue DEF Under
<1>5. CASE EngineFails(c)
  <2>1. pc[c] = "run" /\ Failed(c)
    BY <1>5 DEF EngineFails
  <2>2. Selects(c) => Current(c) \in Range(started[c])
    BY <2>1 DEF QueueInv, Tried
  <2>. QED BY <2>1, <2>2, FailedQueue DEF Under
<1>6. CASE EngineSucceeds(c)
  BY <1>6, SucceedsQueue
<1>7. CASE Send(c)
  <2>1. /\ pc[c] = "send" /\ pc' = [pc EXCEPT ![c] = "done"]
        /\ UNCHANGED <<registry, ranked, at, past, started, outcome>>
    BY <1>7 DEF Send
  <2>2. pc'[c] = "done" /\ \A d \in Call \ {c} : pc'[d] = pc[d]
    BY <2>1 DEF IInv, CallType
  <2>3. QueueType'
    BY <2>1 DEF QueueInv, QueueType, registry
  <2>4. Placed(c)'
    BY <2>1, <2>2 DEF QueueInv, Placed, Under
  <2>5. Selects(c) => Tried(c)'
    BY <2>1, <2>2 DEF QueueInv, Tried, Under, registry, Enabled, Range
  <2>. QED BY <2>1, <2>2, <2>3, <2>4, <2>5, StepOf
<1>. QED BY <1>1, <1>2, <1>3, <1>4, <1>5, <1>6, <1>7 DEF Step

LEMMA QueueSame ==
  ASSUME QueueInv, UNCHANGED <<registry, pc, ranked, at, past, started, outcome>>
  PROVE  QueueInv'
<1>1. QueueType'
  BY DEF QueueInv, QueueType, registry
<1>2. ASSUME NEW d \in Call PROVE Placed(d)' /\ (Selects(d) => Tried(d)')
  BY DEF QueueInv, Placed, Tried, Under, registry, Enabled, Range, Current
<1>. QED BY <1>1, <1>2 DEF QueueInv, Selects

LEMMA QueueNext == CallsAssumption /\ IInv /\ QueueInv /\ [Next]_vars => QueueInv'
<1>. SUFFICES ASSUME CallsAssumption, IInv, QueueInv, [Next]_vars PROVE QueueInv'
  OBVIOUS
<1>0. engines \subseteq Engine /\ disabled \subseteq engines
  BY DEF IInv, RegistryType
<1>1. ASSUME NEW e \in Engine, RegisterEngine(e) PROVE QueueInv'
  BY <1>0, <1>1, ChangesQueue DEF RegisterEngine
<1>2. ASSUME NEW e \in Engine, UnregisterEngine(e) PROVE QueueInv'
  BY <1>0, <1>2, ChangesQueue DEF UnregisterEngine
<1>3. ASSUME NEW e \in Engine, DisableEngine(e) PROVE QueueInv'
  BY <1>0, <1>3, ChangesQueue DEF DisableEngine
<1>4. ASSUME NEW e \in Engine, EnableEngine(e) PROVE QueueInv'
  BY <1>0, <1>4, ChangesQueue DEF EnableEngine
<1>5. ASSUME NEW c \in Call, Begin(c) PROVE QueueInv'
  BY <1>5, BeginQueue
<1>6. ASSUME NEW c \in Call, Step(c) PROVE QueueInv'
  BY <1>6, StepQueue
<1>7. ASSUME NEW c \in Call, EndContext(c) \/ Receive(c) PROVE QueueInv'
  BY <1>7, QueueSame DEF EndContext, Receive
<1>8. CASE UNCHANGED vars
  BY <1>8, QueueSame DEF vars, registry
<1>. QED BY <1>1, <1>2, <1>3, <1>4, <1>5, <1>6, <1>7, <1>8 DEF Next

LEMMA QueueInvariant == Spec => []QueueInv
BY CallsAssumption, QueueInit, QueueNext, Invariant, PTL DEF Spec

\* A fallback after a selection reports failure only when it has called every engine
\* that was enabled all the time, however engines came and went meanwhile.
THEOREM FailsOnlyAtTheEnd == Spec => []FailsWhenAllFailed
<1>1. QueueInv => FailsWhenAllFailed
  BY DEF QueueInv, Selects, Tried, FailsWhenAllFailed
<1>. QED BY <1>1, QueueInvariant, PTL
-----------------------------------------------------------------------------
(* What a call reports.  Names go into past one step after they go into        *)
(* started, and some go there without; in between the registry changes.        *)

\* Of a fallback: the called are reported but for the current one, and those that
\* are reported without a call were not enabled all the time.
Told(c) ==
  /\ Range(started[c]) \subseteq
       Range(past[c]) \cup (IF pc[c] = "run" \/ outcome[c] = "done" THEN {Current(c)} ELSE {})
  /\ c \notin Invalid => Range(past[c]) \cap always[c] \subseteq Range(started[c])
  /\ pc[c] = "run" => Current(c) \in Range(started[c])

\* Of a pipeline: what was called has a result, but for the current engine.
Ran(c) ==
  /\ pc[c] # "next"
  /\ pc[c] \in {"idle", "lookup"} => started[c] = past[c]
  /\ pc[c] = "run" => started[c] = Append(past[c], Current(c))
  /\ outcome[c] = "done" => past[c] = ranked[c] /\ started[c] = ranked[c]
  /\ outcome[c] = "failed" => started[c] \in {past[c], Append(past[c], Current(c))}

Report(c) ==
  /\ pc[c] # "idle" => always[c] \subseteq Enabled
  /\ Kind[c] \in {"list", "auto"} => Told(c)
  /\ Kind[c] = "pipeline" => Ran(c)

ReportInv == \A c \in Call : Report(c)

LEMMA ReportInit == Init => ReportInv
BY DEF Init, ReportInv, Report, Told, Ran, Range

\* A call that takes no step, or only one that nothing is reported of.
LEMMA ReportFramed ==
  ASSUME NEW d \in Call, Report(d),
         ranked'[d] = ranked[d], at'[d] = at[d], past'[d] = past[d],
         started'[d] = started[d], outcome'[d] = outcome[d],
         always'[d] \subseteq always[d], pc'[d] # "idle" => always'[d] \subseteq Enabled',
         \/ pc'[d] = pc[d]
         \/ pc[d] = "next" /\ pc'[d] = "lookup"
         \/ pc[d] = "send" /\ pc'[d] = "done"
  PROVE  Report(d)'
<1>1. Current(d)' = Current(d)
  BY DEF Current
<1>2. Range(past[d])' = Range(past[d]) /\ Range(started[d])' = Range(started[d])
  BY DEF Range
<1>3. ASSUME Kind[d] \in {"list", "auto"} PROVE Told(d)'
  BY <1>1, <1>2, <1>3 DEF Report, Told
<1>4. ASSUME Kind[d] = "pipeline" PROVE Ran(d)'
  BY <1>1, <1>4 DEF Report, Ran
<1>. QED BY <1>3, <1>4 DEF Report

\* A step of call c that leaves the registry alone.
LEMMA ReportOf ==
  ASSUME ReportInv, NEW c \in Call, UNCHANGED registry, Report(c)',
         \A d \in Call \ {c} : /\ pc'[d] = pc[d] /\ ranked'[d] = ranked[d]
                               /\ at'[d] = at[d] /\ past'[d] = past[d]
                               /\ started'[d] = started[d] /\ outcome'[d] = outcome[d]
  PROVE  ReportInv'
<1>1. ASSUME NEW d \in Call \ {c} PROVE Report(d)'
  <2>1. Report(d) /\ (pc[d] # "idle" => always[d] \subseteq Enabled)
    BY DEF ReportInv, Report
  <2>2. always'[d] = always[d] /\ Enabled' = Enabled
    BY DEF registry, Enabled
  <2>. QED BY <2>1, <2>2, ReportFramed
<1>. QED BY <1>1 DEF ReportInv

LEMMA BeginReport ==
  ASSUME CallsAssumption, IInv, QueueInv, ReportInv, NEW c \in Call, Begin(c)
  PROVE  ReportInv'
<1>1. PICK q : /\ ranked' = [ranked EXCEPT ![c] = q]
               /\ pc' = [pc EXCEPT ![c] = IF q = << >> THEN "done"
                                          ELSE IF Kind[c] \in {"list", "auto"} THEN "next"
                                          ELSE "lookup"]
               /\ q \in Chosen(c)
  BY DEF Begin
<1>2. /\ pc[c] = "idle" /\ always' = [always EXCEPT ![c] = Enabled]
      /\ UNCHANGED <<engines, disabled, at, past, started, outcome>>
  BY DEF Begin
<1>3. /\ started'[c] = << >> /\ past'[c] = << >> /\ outcome'[c] = "none"
      /\ always'[c] = Enabled /\ Enabled' = Enabled
  BY <1>2 DEF IInv, SeenInv, QueueInv, QueueType, Placed, Under, Enabled
<1>4. /\ pc'[c] \in {"done", "next", "lookup"}
      /\ Kind[c] = "pipeline" => pc'[c] # "next"
  BY <1>1 DEF IInv, CallType
<1>5. Report(c)'
  <2>1. Range(<< >>) = {}
    BY DEF Range
  <2>2. Range(started[c])' = {} /\ Range(past[c])' = {}
    BY <1>3, <2>1 DEF Range
  <2>3. Told(c)'
    BY <1>3, <1>4, <2>2 DEF Told
  <2>4. Kind[c] = "pipeline" => Ran(c)'
    BY <1>3, <1>4 DEF Ran
  <2>. QED BY <1>3, <2>3, <2>4 DEF Report
<1>6. ASSUME NEW d \in Call \ {c} PROVE Report(d)'
  <2>1. /\ pc'[d] = pc[d] /\ ranked'[d] = ranked[d] /\ always'[d] = always[d]
    BY <1>1, <1>2 DEF IInv, CallType, QueueInv, QueueType
  <2>2. Report(d) /\ (pc[d] # "idle" => always[d] \subseteq Enabled)
    BY DEF ReportInv, Report
  <2>. QED BY <1>2, <1>3, <2>1, <2>2, ReportFramed
<1>. QED BY <1>5, <1>6 DEF ReportInv

LEMMA ChangesReport ==
  ASSUME ReportInv, NEW E \in SUBSET Engine, NEW D \in SUBSET E, Changes(E, D)
  PROVE  ReportInv'
<1>1. ASSUME NEW d \in Call PROVE Report(d)'
  <2>1. always'[d] \subseteq always[d] /\ always'[d] \subseteq Enabled'
    BY DEF Changes, Enabled
  <2>. QED BY <2>1, ReportFramed DEF ReportInv, Changes
<1>. QED BY <1>1 DEF ReportInv

LEMMA LookupReport ==
  ASSUME IInv, QueueInv, ReportInv, NEW c \in Call, Lookup(c) PROVE ReportInv'
<1>. DEFINE e == Current(c)
<1>1. /\ pc[c] = "lookup" /\ e \in Engine
      /\ pc' = [pc EXCEPT ![c] = "run"]
      /\ started' = [started EXCEPT ![c] = Append(started[c], e)]
      /\ UNCHANGED <<registry, ranked, at, past, outcome>>
  BY DEF Lookup, Runnable, IInv, RegistryType
<1>2. Current(c)' = e /\ Enabled' = Enabled /\ always' = always
  BY <1>1 DEF Current, registry, Enabled
<1>3. outcome[c] = "none"
  BY <1>1 DEF QueueInv, Placed, Under
<1>. HIDE DEF e
<1>4. /\ pc'[c] = "run" /\ started'[c] = Append(started[c], e)
      /\ \A d \in Call \ {c} : pc'[d] = pc[d] /\ started'[d] = started[d]
  BY <1>1 DEF IInv, CallType
<1>5. Range(started[c])' = Range(started[c]) \cup {e} /\ Range(past[c])' = Range(past[c])
  <2>1. Range(Append(started[c], e)) = Range(started[c]) \cup {e}
    BY <1>1, RangeAppend DEF IInv, CallType
  <2>. QED BY <1>1, <1>4, <2>1 DEF Range
<1>6. ASSUME Kind[c] \in {"list", "auto"} PROVE Told(c)'
  <2>1. Told(c)
    BY <1>6 DEF ReportInv, Report
  <2>. QED BY <1>1, <1>2, <1>3, <1>4, <1>5, <2>1 DEF Told
<1>7. ASSUME Kind[c] = "pipeline" PROVE Ran(c)'
  <2>1. started[c] = past[c]
    BY <1>1, <1>7 DEF ReportInv, Report, Ran
  <2>. QED BY <1>1, <1>2, <1>3, <1>4, <2>1 DEF Ran
<1>8. Report(c)'
  BY <1>1, <1>2, <1>6, <1>7 DEF Report, ReportInv
<1>. QED BY <1>1, <1>4, <1>8, ReportOf

\* A name that goes into past was called, or was not enabled.
LEMMA FailedReport ==
  ASSUME IInv, QueueInv, ReportInv, NEW c \in Call, pc[c] \in {"lookup", "run"}, Failed(c),
         pc[c] = "lookup" => c \in Invalid \/ Current(c) \notin Enabled
  PROVE  ReportInv'
<1>. DEFINE e == Current(c)
<1>1. /\ UNCHANGED <<registry, ranked, started>>
      /\ outcome[c] = "none"
      /\ at[c] \in 1..Len(ranked[c]) /\ ranked[c] \in Seq(Engine)
  BY DEF Failed, QueueInv, QueueType, Placed, Under
<1>2. e \in Engine /\ past[c] \in Seq(Engine)
  BY <1>1 DEF Current, QueueInv, QueueType
<1>3. Enabled' = Enabled /\ always' = always /\ (pc[c] # "idle" => always[c] \subseteq Enabled)
  BY <1>1 DEF registry, Enabled, ReportInv, Report
<1>4. CASE Kind[c] \in {"list", "auto"}
  <2>. HIDE DEF e
  <2>1. past' = [past EXCEPT ![c] = Append(past[c], e)]
    BY <1>4 DEF Failed, Past, e
  <2>2. /\ pc'[c] \in {"next", "done"} /\ outcome'[c] # "done"
        /\ \A d \in Call \ {c} : /\ pc'[d] = pc[d] /\ at'[d] = at[d]
                                 /\ past'[d] = past[d] /\ outcome'[d] = outcome[d]
    BY <1>1, <1>4, <2>1 DEF Failed, Ends, IInv, CallType, QueueInv, QueueType
  <2>3. Range(past[c])' = Range(past[c]) \cup {e} /\ Range(started[c])' = Range(started[c])
    <3>1. Range(Append(past[c], e)) = Range(past[c]) \cup {e}
      BY <1>2, RangeAppend
    <3>2. past'[c] = Append(past[c], e)
      BY <2>1 DEF QueueInv, QueueType
    <3>. QED BY <1>1, <3>1, <3>2 DEF Range
  <2>4. Told(c)
    BY <1>4 DEF ReportInv, Report
  <2>5. c \notin Invalid /\ e \in always[c] => e \in Range(started[c])
    BY <1>3, <2>4 DEF Told, e
  <2>6. Told(c)'
    BY <1>3, <2>2, <2>3, <2>4, <2>5, <1>1 DEF Told, e
  <2>7. Report(c)'
    BY <1>3, <1>4, <2>6 DEF Report
  <2>. QED BY <1>1, <2>2, <2>7, ReportOf
<1>5. CASE Kind[c] \notin {"list", "auto"}
  <2>1. Ends(c, "failed") /\ UNCHANGED <<at, past>>
    BY <1>5 DEF Failed
  <2>2. /\ pc'[c] \in {"send", "done"} /\ outcome'[c] = "failed"
        /\ \A d \in Call \ {c} : pc'[d] = pc[d] /\ outcome'[d] = outcome[d]
    BY <2>1 DEF Ends, IInv, CallType, QueueInv, QueueType
  <2>3. Current(c)' = Current(c)
    BY <1>1, <2>1 DEF Current
  <2>4. Kind[c] = "pipeline" => Ran(c)'
    BY <1>1, <2>1, <2>2, <2>3 DEF Ran, ReportInv, Report
  <2>5. Report(c)'
    BY <1>3, <1>5, <2>4 DEF Report
  <2>. QED BY <1>1, <2>1, <2>2, <2>5, ReportOf
<1>. QED BY <1>4, <1>5

LEMMA SucceedsReport ==
  ASSUME IInv, QueueInv, ReportInv, NEW c \in Call, EngineSucceeds(c) PROVE ReportInv'
<1>1. /\ pc[c] = "run" /\ outcome[c] = "none"
      /\ at[c] \in 1..Len(ranked[c]) /\ ranked[c] \in Seq(Engine)
      /\ UNCHANGED <<registry, ranked, started>>
  BY DEF EngineSucceeds, QueueInv, QueueType, Placed, Under
<1>2. Enabled' = Enabled /\ always' = always /\ always[c] \subseteq Enabled
  BY <1>1 DEF registry, Enabled, ReportInv, Report
<1>3. Past(c)[c] = Append(past[c], Current(c)) /\ Past(c)[c] = SubSeq(ranked[c], 1, at[c])
      /\ \A d \in Call \ {c} : Past(c)[d] = past[d]
  BY <1>1, PastGrows DEF QueueInv, Past, QueueType, Under
<1>4. CASE Kind[c] = "pipeline"
  <2>1. past' = Past(c) /\ started[c] = Append(past[c], Current(c))
    BY <1>1, <1>4 DEF EngineSucceeds, ReportInv, Report, Ran
  <2>2. past'[c] = started'[c] /\ \A d \in Call \ {c} : past'[d] = past[d]
    BY <1>1, <1>3, <2>1
  <2>3. CASE LastOne(c)
    <3>1. Ends(c, "done") /\ UNCHANGED at
      BY <2>3 DEF EngineSucceeds
    <3>2. /\ pc'[c] \in {"send", "done"} /\ outcome'[c] = "done"
          /\ \A d \in Call \ {c} : pc'[d] = pc[d] /\ outcome'[d] = outcome[d]
      BY <3>1 DEF Ends, IInv, CallType, QueueInv, QueueType
    <3>3. SubSeq(ranked[c], 1, at[c]) = ranked[c]
      BY <1>1, <2>3, SubSeqFull DEF LastOne
    <3>4. Ran(c)'
      BY <1>1, <1>3, <2>1, <2>2, <3>2, <3>3 DEF Ran
    <3>5. Report(c)'
      BY <1>2, <1>4, <3>4 DEF Report
    <3>. QED BY <1>1, <2>2, <3>1, <3>2, <3>5, ReportOf
  <2>4. CASE ~LastOne(c)
    <3>1. /\ at' = [at EXCEPT ![c] = at[c] + 1]
          /\ pc' = [pc EXCEPT ![c] = "lookup"] /\ UNCHANGED outcome
      BY <1>4, <2>4 DEF EngineSucceeds
    <3>2. /\ pc'[c] = "lookup" /\ outcome'[c] = "none"
          /\ \A d \in Call \ {c} : pc'[d] = pc[d] /\ at'[d] = at[d]
      BY <1>1, <3>1 DEF IInv, CallType, QueueInv, QueueType
    <3>3. Ran(c)'
      BY <2>2, <3>2 DEF Ran
    <3>4. Report(c)'
      BY <1>2, <1>4, <3>3 DEF Report
    <3>. QED BY <1>1, <2>2, <3>1, <3>2, <3>4, ReportOf
  <2>. QED BY <2>3, <2>4
<1>5. CASE Kind[c] # "pipeline"
  <2>1. Ends(c, "done") /\ UNCHANGED <<at, past>>
    BY <1>5 DEF EngineSucceeds
  <2>2. /\ pc'[c] \in {"send", "done"} /\ outcome'[c] = "done"
        /\ \A d \in Call \ {c} : pc'[d] = pc[d] /\ outcome'[d] = outcome[d]
    BY <2>1 DEF Ends, IInv, CallType, QueueInv, QueueType
  <2>3. Current(c)' = Current(c)
    BY <1>1, <2>1 DEF Current
  <2>4. Range(past[c])' = Range(past[c]) /\ Range(started[c])' = Range(started[c])
    BY <1>1, <2>1 DEF Range
  <2>5. Kind[c] \in {"list", "auto"} => Told(c)'
    BY <1>1, <1>2, <2>2, <2>3, <2>4 DEF Told, ReportInv, Report
  <2>6. Report(c)'
    BY <1>2, <1>5, <2>5 DEF Report
  <2>. QED BY <1>1, <2>1, <2>2, <2>6, ReportOf
<1>. QED BY <1>4, <1>5

LEMMA StepReport ==
  ASSUME IInv, QueueInv, ReportInv, NEW c \in Call, Step(c) PROVE ReportInv'
<1>0. pc[c] # "idle" => always[c] \subseteq Enabled
  BY DEF ReportInv, Report
<1>1. CASE CheckContext(c) /\ ctx[c] = "ended"
  <2>1. pc[c] = "next" /\ Ends(c, "cancelled")
        /\ UNCHANGED <<registry, ranked, at, past, started>>
    BY <1>1 DEF CheckContext
  <2>2. /\ pc'[c] \in {"send", "done"} /\ outcome'[c] = "cancelled"
        /\ \A d \in Call \ {c} : pc'[d] = pc[d] /\ outcome'[d] = outcome[d]
    BY <2>1 DEF Ends, IInv, CallType, QueueInv, QueueType
  <2>3. Enabled' = Enabled /\ always' = always /\ outcome[c] = "none"
    BY <2>1 DEF registry, Enabled, QueueInv, Placed, Under
  <2>4. Range(past[c])' = Range(past[c]) /\ Range(started[c])' = Range(started[c])
    BY <2>1 DEF Range
  <2>5. Kind[c] \in {"list", "auto"} => Told(c)'
    BY <2>1, <2>2, <2>3, <2>4 DEF Told, ReportInv, Report
  <2>6. Kind[c] # "pipeline"
    BY <2>1 DEF ReportInv, Report, Ran
  <2>7. Report(c)'
    BY <1>0, <2>1, <2>3, <2>5, <2>6 DEF Report
  <2>. QED BY <2>1, <2>2, <2>7, ReportOf
<1>2. CASE CheckContext(c) /\ ctx[c] # "ended"
  <2>1. /\ pc[c] = "next" /\ pc' = [pc EXCEPT ![c] = "lookup"]
        /\ UNCHANGED <<registry, ranked, at, past, started, outcome>>
    BY <1>2 DEF CheckContext
  <2>2. pc'[c] = "lookup" /\ \A d \in Call \ {c} : pc'[d] = pc[d]
    BY <2>1 DEF IInv, CallType
  <2>3. always'[c] = always[c] /\ Enabled' = Enabled
    BY <2>1 DEF registry, Enabled
  <2>4. Report(c)'
    BY <1>0, <2>1, <2>2, <2>3, ReportFramed DEF ReportInv
  <2>. QED BY <2>1, <2>2, <2>4, ReportOf
<1>3. CASE Lookup(c)
  BY <1>3, LookupReport
<1>4. CASE LookupFails(c)
  <2>1. pc[c] = "lookup" /\ Failed(c) /\ (c \in Invalid \/ Current(c) \notin Enabled)
    BY <1>4 DEF LookupFails, Runnable, Enabled
  <2>. QED BY <2>1, FailedReport
<1>5. CASE EngineFails(c)
  BY <1>5, FailedReport DEF EngineFails
<1>6. CASE EngineSucceeds(c)
  BY <1>6, SucceedsReport
<1>7. CASE Send(c)
  <2>1. /\ pc[c] = "send" /\ pc' = [pc EXCEPT ![c] = "done"]
        /\ UNCHANGED <<registry, ranked, at, past, started, outcome>>
    BY <1>7 DEF Send
  <2>2. pc'[c] = "done" /\ \A d \in Call \ {c} : pc'[d] = pc[d]
    BY <2>1 DEF IInv, CallType
  <2>3. always'[c] = always[c] /\ Enabled' = Enabled
    BY <2>1 DEF registry, Enabled
  <2>4. Report(c)'
    BY <1>0, <2>1, <2>2, <2>3, ReportFramed DEF ReportInv
  <2>. QED BY <2>1, <2>2, <2>4, ReportOf
<1>. QED BY <1>1, <1>2, <1>3, <1>4, <1>5, <1>6, <1>7 DEF Step

LEMMA ReportSame ==
  ASSUME ReportInv, UNCHANGED <<registry, pc, ranked, at, past, started, outcome>>
  PROVE  ReportInv'
<1>1. ASSUME NEW d \in Call PROVE Report(d)'
  <2>1. Report(d) /\ (pc[d] # "idle" => always[d] \subseteq Enabled)
    BY DEF ReportInv, Report
  <2>2. always' = always /\ Enabled' = Enabled
    BY DEF registry, Enabled
  <2>. QED BY <2>1, <2>2, ReportFramed
<1>. QED BY <1>1 DEF ReportInv

LEMMA ReportNext ==
  CallsAssumption /\ IInv /\ QueueInv /\ ReportInv /\ [Next]_vars => ReportInv'
<1>. SUFFICES ASSUME CallsAssumption, IInv, QueueInv, ReportInv, [Next]_vars
              PROVE  ReportInv'
  OBVIOUS
<1>0. engines \subseteq Engine /\ disabled \subseteq engines
  BY DEF IInv, RegistryType
<1>1. ASSUME NEW e \in Engine,
             \/ RegisterEngine(e) \/ UnregisterEngine(e)
             \/ DisableEngine(e) \/ EnableEngine(e)
      PROVE  ReportInv'
  <2>1. CASE RegisterEngine(e)
    BY <1>0, <2>1, ChangesReport DEF RegisterEngine
  <2>2. CASE UnregisterEngine(e)
    BY <1>0, <2>2, ChangesReport DEF UnregisterEngine
  <2>3. CASE DisableEngine(e)
    BY <1>0, <2>3, ChangesReport DEF DisableEngine
  <2>4. CASE EnableEngine(e)
    BY <1>0, <2>4, ChangesReport DEF EnableEngine
  <2>. QED BY <1>1, <2>1, <2>2, <2>3, <2>4
<1>2. ASSUME NEW c \in Call, Begin(c) PROVE ReportInv'
  BY <1>2, BeginReport
<1>3. ASSUME NEW c \in Call, Step(c) PROVE ReportInv'
  BY <1>3, StepReport
<1>4. ASSUME NEW c \in Call, EndContext(c) \/ Receive(c) PROVE ReportInv'
  BY <1>4, ReportSame DEF EndContext, Receive
<1>5. CASE UNCHANGED vars
  BY <1>5, ReportSame DEF vars, registry
<1>. QED BY <1>1, <1>2, <1>3, <1>4, <1>5 DEF Next

LEMMA ReportInvariant == Spec => []ReportInv
BY CallsAssumption, ReportInit, ReportNext, QueueInvariant, Invariant, PTL DEF Spec

\* A fallback that is over, however it ended, has named to its caller every engine it
\* called, and as skipped none that was enabled all the time and was not called.
THEOREM AllIsTold == Spec => []SkippedTellsAll
<1>1. IInv /\ QueueInv /\ ReportInv => SkippedTellsAll
  <2>. SUFFICES ASSUME IInv, QueueInv, ReportInv, NEW c \in Call,
                       Kind[c] \in {"list", "auto"}, outcome[c] # "none"
                PROVE  /\ Range(started[c]) \subseteq
                            Range(past[c]) \cup (IF outcome[c] = "done" THEN {Current(c)} ELSE {})
                       /\ c \notin Invalid =>
                            Range(past[c]) \cap always[c] \subseteq Range(started[c])
    BY DEF SkippedTellsAll
  <2>1. pc[c] # "run" /\ Told(c)
    BY DEF QueueInv, Placed, Under, ReportInv, Report
  <2>. QED BY <2>1 DEF Told
<1>. QED BY <1>1, Invariant, QueueInvariant, ReportInvariant, PTL

\* A pipeline that is done has called the engine of every step once, in order, and
\* has a result of each.
THEOREM PipelinesAreWhole == Spec => []PipelineRunsAll
<1>1. ReportInv => PipelineRunsAll
  BY DEF ReportInv, Report, Ran, PipelineRunsAll
<1>. QED BY <1>1, ReportInvariant, PTL
=============================================================================
