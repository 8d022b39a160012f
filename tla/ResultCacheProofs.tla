------------------------- MODULE ResultCacheProofs -------------------------
(***************************************************************************)
(* The cache never holds more than maxSize entries, for any number of      *)
(* goroutines and graphs.  The loop of evictLocked ends either with room   *)
(* or with c.order empty, and then the map is empty too, because every     *)
(* entry is in c.order: that is the invariant the bound rests on.          *)
(***************************************************************************)
EXTENDS ResultCache, FiniteSetTheorems, TLAPS

LEMMA TypeInit == CacheAssumption /\ Init => TypeOK
BY DEF CacheAssumption, Init, TypeOK

\* The entries that survive evictLocked are entries of before.
LEMMA TrimmedEntries ==
  ASSUME TypeOK, NEW cut \in Nat
  PROVE  /\ Trimmed(cut) \in [Graph -> Nat \cup {None}]
         /\ Rebuilt \subseteq order
BY DEF TypeOK, Trimmed, Unexpired, Rebuilt, Fresh

LEMMA TypeNext == CacheAssumption /\ TypeOK /\ [Next]_vars => TypeOK'
<1>. SUFFICES ASSUME CacheAssumption, TypeOK, [Next]_vars PROVE TypeOK'
  OBVIOUS
<1>. USE DEF CacheAssumption
<1>1. CASE Tick
  BY <1>1 DEF TypeOK, Tick
<1>2. CASE Clear
  BY <1>2 DEF TypeOK, Clear, Called
<1>3. ASSUME NEW t \in Thread, NEW g \in Graph, Hit(t, g) \/ Miss(t, g) PROVE TypeOK'
  BY <1>3 DEF TypeOK, Hit, Miss, Called
<1>4. ASSUME NEW t \in Thread, ExecuteFails(t) PROVE TypeOK'
  BY <1>4 DEF TypeOK, ExecuteFails
<1>5. ASSUME NEW t \in Thread, StoreResult(t) PROVE TypeOK'
  <2>. DEFINE g == running[t]
  <2>1. PICK cut \in 0..appends : /\ store' = [Trimmed(cut) EXCEPT ![g] = now]
                                  /\ order' = Appended(g, cut)
    BY <1>5 DEF StoreResult
  <2>2. /\ g \in Graph /\ appends' = appends + 1
        /\ running' = [running EXCEPT ![t] = None]
        /\ UNCHANGED <<now, calls>>
    BY <1>5 DEF StoreResult, TypeOK
  <2>3. store' \in [Graph -> Nat \cup {None}]
    BY <2>1, <2>2, TrimmedEntries DEF TypeOK
  <2>4. order' \subseteq [key : Graph, n : 1..appends']
    BY <2>1, <2>2, TrimmedEntries DEF TypeOK, Appended
  <2>5. running' \in [Thread -> Graph \cup {None}]
    BY <2>2 DEF TypeOK
  <2>. HIDE DEF g
  <2>. QED BY <2>2, <2>3, <2>4, <2>5 DEF TypeOK
<1>6. CASE UNCHANGED vars
  BY <1>6 DEF TypeOK, vars
<1>. QED BY <1>1, <1>2, <1>3, <1>4, <1>5, <1>6 DEF Next

\* The variables of the cache keep their types, for any graphs and goroutines.
THEOREM TypeCorrect == Spec => []TypeOK
BY TypeInit, TypeNext, CacheAssumption, PTL DEF Spec

-----------------------------------------------------------------------------
IInv == TypeOK /\ EveryEntryInOrder /\ SizeBound

\* The entries that survive evictLocked are those still named in c.order.
LEMMA TrimmedInOrder ==
  ASSUME TypeOK, EveryEntryInOrder, NEW cut \in Nat, NEW g \in Keys(Trimmed(cut))
  PROVE  \E e \in Rebuilt : e.key = g /\ e.n > cut
<1>1. Trimmed(cut)[g] = Unexpired[g] /\ Unexpired[g] # None
  BY DEF Keys, Trimmed
<1>2. g \in Keys(store)
  BY <1>1 DEF Keys, Unexpired, Fresh
<1>3. PICK e \in order : e.key = g
  BY <1>2 DEF EveryEntryInOrder
<1>4. e \in Rebuilt
  BY <1>1, <1>3 DEF Rebuilt
<1>5. ~(e.n <= cut)
  BY <1>1, <1>3, <1>4 DEF Keys, Trimmed
<1>. QED BY <1>3, <1>4, <1>5 DEF TypeOK

\* After evictLocked there is room for one more entry.
LEMMA RoomIsRoom ==
  ASSUME CacheAssumption, TypeOK, EveryEntryInOrder, NEW cut \in Nat, Room(cut)
  PROVE  Cardinality(Keys(Trimmed(cut))) < MaxSize
<1>1. CASE \A e \in Rebuilt : e.n <= cut
  <2>1. \A e \in Rebuilt : ~(e.n > cut)
    BY <1>1, TrimmedEntries DEF TypeOK
  <2>2. Keys(Trimmed(cut)) = {}
    BY <2>1, TrimmedInOrder
  <2>. QED BY <2>2, FS_EmptySet DEF CacheAssumption
<1>. QED BY <1>1 DEF Room

LEMMA OrderNext == CacheAssumption /\ IInv /\ [Next]_vars => EveryEntryInOrder' /\ SizeBound'
<1>. SUFFICES ASSUME CacheAssumption, IInv, [Next]_vars
              PROVE  EveryEntryInOrder' /\ SizeBound'
  OBVIOUS
<1>. USE DEF IInv
<1>1. ASSUME NEW t \in Thread, StoreResult(t) PROVE EveryEntryInOrder' /\ SizeBound'
  <2>. DEFINE g == running[t]
  <2>1. PICK cut \in 0..appends : /\ Room(cut)
                                  /\ store' = [Trimmed(cut) EXCEPT ![g] = now]
                                  /\ order' = Appended(g, cut)
    BY <1>1 DEF StoreResult
  <2>2. g \in Graph /\ cut \in Nat
    BY <1>1 DEF StoreResult, TypeOK
  <2>3. Keys(store') \subseteq Keys(Trimmed(cut)) \cup {g}
    BY <2>1, <2>2, TrimmedEntries DEF Keys
  <2>4. EveryEntryInOrder'
    <3>1. SUFFICES ASSUME NEW h \in Keys(store') PROVE \E e \in order' : e.key = h
      BY DEF EveryEntryInOrder
    <3>2. CASE h = g
      <4>1. [key |-> g, n |-> appends + 1] \in order'
        BY <2>1 DEF Appended
      <4>. QED BY <3>2, <4>1
    <3>3. CASE h \in Keys(Trimmed(cut))
      <4>1. \E e \in Rebuilt : e.key = h /\ e.n > cut
        BY <2>2, <3>3, TrimmedInOrder
      <4>. QED BY <2>1, <4>1 DEF Appended
    <3>. QED BY <2>3, <3>2, <3>3
  <2>5. /\ IsFiniteSet(Keys(Trimmed(cut)))
        /\ Cardinality(Keys(Trimmed(cut))) < MaxSize
    <3>1. Keys(Trimmed(cut)) \subseteq Graph
      BY DEF Keys
    <3>. QED BY <2>1, <2>2, <3>1, RoomIsRoom, FS_Subset DEF CacheAssumption
  <2>6. /\ IsFiniteSet(Keys(Trimmed(cut)) \cup {g})
        /\ Cardinality(Keys(Trimmed(cut)) \cup {g}) <= MaxSize
    <3>. DEFINE K == Keys(Trimmed(cut))
    <3>1. /\ IsFiniteSet(K \cup {g})
          /\ Cardinality(K \cup {g}) = IF g \in K THEN Cardinality(K) ELSE Cardinality(K) + 1
      BY <2>5, FS_AddElement
    <3>2. Cardinality(K) \in Nat
      BY <2>5, FS_CardinalityType
    <3>. HIDE DEF K
    <3>. QED BY <2>5, <3>1, <3>2 DEF CacheAssumption, K
  <2>7. SizeBound'
    BY <2>3, <2>6, FS_Subset, FS_CardinalityType DEF SizeBound, CacheAssumption
  <2>. QED BY <2>4, <2>7
<1>2. CASE Clear
  <2>1. Keys(store') = {}
    BY <1>2 DEF Clear, Keys
  <2>. QED BY <2>1, FS_EmptySet DEF EveryEntryInOrder, SizeBound, CacheAssumption
<1>3. CASE UNCHANGED <<store, order>>
  BY <1>3 DEF EveryEntryInOrder, SizeBound, Keys
<1>. QED BY <1>1, <1>2, <1>3 DEF Next, vars, Tick, Hit, Miss, ExecuteFails

LEMMA IInvInit == CacheAssumption /\ Init => IInv
<1>. SUFFICES ASSUME CacheAssumption, Init PROVE IInv
  OBVIOUS
<1>1. Keys(store) = {}
  BY DEF Init, Keys
<1>. QED
  BY <1>1, TypeInit, FS_EmptySet DEF IInv, EveryEntryInOrder, SizeBound, CacheAssumption

LEMMA Invariant == Spec => []IInv
<1>1. CacheAssumption /\ IInv /\ [Next]_vars => IInv'
  BY TypeNext, OrderNext DEF IInv
<1>. QED BY <1>1, IInvInit, CacheAssumption, PTL DEF Spec

\* The cache holds at most maxSize entries, whatever is stored, expires or is
\* cleared at the same time.
THEOREM Bounded == Spec => []SizeBound
<1>1. IInv => SizeBound
  BY DEF IInv
<1>. QED BY <1>1, Invariant, PTL

\* Every entry is named in c.order and can be evicted.
THEOREM Evictable == Spec => []EveryEntryInOrder
<1>1. IInv => EveryEntryInOrder
  BY DEF IInv
<1>. QED BY <1>1, Invariant, PTL
-----------------------------------------------------------------------------
(* The length of c.order.  While the entry of a graph is fresh nobody starts to *)
(* compute it, so each goroutine that computes it was there before and appends *)
(* it once; when the entry is gone, evictLocked drops the graph's elements      *)
(* before the next append.                                                      *)

Elements(g) == {e \in order : e.key = g}
Computing(g) == {t \in Thread : running[t] = g}

LengthInv ==
  /\ IsFiniteSet(order)
  /\ \A g \in Graph : Cardinality(Elements(g)) <= Cardinality(Thread)
  /\ \A g \in Graph : Fresh(g) =>
       Cardinality(Elements(g)) + Cardinality(Computing(g)) <= Cardinality(Thread)

\* The number of elements shows that a graph's entry has expired: evictLocked
\* rebuilds c.order, and no element of the graph is left.
LEMMA ExpiredIsCollected ==
  ASSUME CacheAssumption, TypeOK, EveryEntryInOrder, IsFiniteSet(order),
         NEW g \in Graph, ~Fresh(g)
  PROVE  \A e \in Rebuilt : e.key # g
<1>. SUFFICES ASSUME NEW e \in Rebuilt, e.key = g PROVE FALSE
  OBVIOUS
<1>. DEFINE K == Keys(Unexpired)
            f == [k \in K |-> CHOOSE x \in order : x.key = k]
<1>1. e \in order /\ Unexpired[g] = None
  BY DEF Rebuilt, Unexpired
<1>2. \A k \in K : f[k] \in order \ {e} /\ f[k].key = k
  <2>1. SUFFICES ASSUME NEW k \in K PROVE f[k] \in order \ {e} /\ f[k].key = k
    OBVIOUS
  <2>2. k \in Keys(store) /\ k # g
    BY <1>1 DEF Keys, Unexpired
  <2>3. \E x \in order : x.key = k
    BY <2>2 DEF EveryEntryInOrder
  <2>. QED BY <2>2, <2>3
<1>3. f \in Injection(K, order \ {e})
  BY <1>2 DEF Injection, IsInjective
<1>4. IsFiniteSet(order \ {e}) /\ Cardinality(order \ {e}) = Cardinality(order) - 1
  BY <1>1, FS_RemoveElement
<1>5. Cardinality(K) <= Cardinality(order \ {e}) /\ IsFiniteSet(K)
  <2>. HIDE DEF f, K
  <2>. QED BY <1>3, <1>4, FS_Injection
<1>6. Cardinality(K) < Cardinality(order)
  BY <1>4, <1>5, FS_CardinalityType
<1>7. Rebuilt = {x \in order : Unexpired[x.key] # None}
  BY <1>6 DEF Rebuilt
<1>. QED BY <1>1, <1>7

LEMMA LengthOfFewer ==
  ASSUME NEW S, IsFiniteSet(S), NEW T \in SUBSET S
  PROVE  /\ Cardinality(T) <= Cardinality(S)
         /\ Cardinality(T) \in Nat /\ Cardinality(S) \in Nat
BY FS_Subset, FS_CardinalityType

\* Steps that append nothing, start nobody on a fresh graph and refresh no entry.
LEMMA LengthKept ==
  ASSUME IsFiniteSet(Thread), LengthInv, order' \subseteq order,
         \A g \in Graph : Fresh(g)' => Fresh(g) /\ Computing(g)' \subseteq Computing(g)
  PROVE  LengthInv'
<1>1. IsFiniteSet(order) /\ IsFiniteSet(order')
  BY FS_Subset DEF LengthInv
<1>. SUFFICES ASSUME NEW g \in Graph
              PROVE  /\ Cardinality(Elements(g)') <= Cardinality(Thread)
                     /\ Fresh(g)' => Cardinality(Elements(g)') + Cardinality(Computing(g)')
                                       <= Cardinality(Thread)
  BY <1>1 DEF LengthInv
<1>2. /\ Cardinality(Elements(g)') <= Cardinality(Elements(g))
      /\ Cardinality(Elements(g)') \in Nat /\ Cardinality(Elements(g)) \in Nat
  <2>1. Elements(g) \in SUBSET order /\ Elements(g)' \in SUBSET Elements(g)
    BY DEF Elements
  <2>. QED BY <1>1, <2>1, FS_Subset, LengthOfFewer
<1>3. Fresh(g)' => /\ Cardinality(Computing(g)') <= Cardinality(Computing(g))
                   /\ Cardinality(Computing(g)') \in Nat
                   /\ Cardinality(Computing(g)) \in Nat
  <2>1. Computing(g) \in SUBSET Thread
    BY DEF Computing
  <2>. QED BY <2>1, FS_Subset, LengthOfFewer
<1>4. Cardinality(Thread) \in Nat
  BY FS_CardinalityType
<1>. QED BY <1>2, <1>3, <1>4 DEF LengthInv

LEMMA LengthStored ==
  ASSUME CacheAssumption, IsFiniteSet(Thread), IInv, LengthInv,
         NEW t \in Thread, StoreResult(t)
  PROVE  LengthInv'
<1>. USE DEF IInv, CacheAssumption
<1>. DEFINE g == running[t]
            N == Cardinality(Thread)
<1>1. PICK cut \in 0..appends : /\ store' = [Trimmed(cut) EXCEPT ![g] = now]
                                /\ order' = Appended(g, cut)
  BY DEF StoreResult
<1>2. /\ g \in Graph /\ cut \in Nat
      /\ running' = [running EXCEPT ![t] = None] /\ now' = now
  BY DEF StoreResult, TypeOK
<1>3. IsFiniteSet(order) /\ IsFiniteSet(Rebuilt) /\ IsFiniteSet(order')
  <2>. DEFINE x == [key |-> g, n |-> appends + 1]
  <2>1. Rebuilt \subseteq order /\ order' \subseteq order \cup {x}
    BY <1>1, <1>2, TrimmedEntries DEF Appended
  <2>2. IsFiniteSet(order)
    BY DEF LengthInv
  <2>. HIDE DEF x, g, IInv
  <2>3. IsFiniteSet(order \cup {x})
    BY <2>2, FS_AddElement
  <2>. QED BY <2>1, <2>2, <2>3, FS_Subset
<1>4. \A h \in Graph :
        /\ Computing(h)' = Computing(h) \ {t}
        /\ IsFiniteSet(Computing(h)) /\ IsFiniteSet(Elements(h))
        /\ Elements(h)' \subseteq Elements(h) \cup {[key |-> g, n |-> appends + 1]}
        /\ h # g => Elements(h)' \subseteq Elements(h)
  <2>1. SUFFICES ASSUME NEW h \in Graph
                 PROVE  /\ Computing(h)' = Computing(h) \ {t}
                        /\ IsFiniteSet(Computing(h)) /\ IsFiniteSet(Elements(h))
                        /\ Elements(h)' \subseteq Elements(h) \cup {[key |-> g, n |-> appends + 1]}
                        /\ h # g => Elements(h)' \subseteq Elements(h)
    OBVIOUS
  <2>2. Computing(h)' = Computing(h) \ {t}
    BY <1>2 DEF Computing, TypeOK
  <2>3. Computing(h) \subseteq Thread /\ Elements(h) \subseteq order
    BY DEF Computing, Elements
  <2>4. order' \subseteq order \cup {[key |-> g, n |-> appends + 1]}
    BY <1>1, <1>2, TrimmedEntries DEF Appended
  <2>. HIDE DEF g
  <2>. QED BY <1>3, <2>2, <2>3, <2>4, FS_Subset DEF Elements
<1>5. N \in Nat
  BY FS_CardinalityType
\* The elements and the goroutines of one graph, after the step.
<1>6. ASSUME NEW h \in Graph
      PROVE  /\ Cardinality(Elements(h)') <= N
             /\ Fresh(h)' => Cardinality(Elements(h)') + Cardinality(Computing(h)') <= N
  <2>. DEFINE E == Cardinality(Elements(h))
              C == Cardinality(Computing(h))
  <2>1. E \in Nat /\ C \in Nat /\ E <= N /\ C <= N /\ (Fresh(h) => E + C <= N)
    <3>1. Computing(h) \in SUBSET Thread
      BY DEF Computing
    <3>. QED BY <1>4, <3>1, FS_CardinalityType, FS_Subset DEF LengthInv
  <2>2. CASE h # g
    <3>1. Cardinality(Elements(h)') \in Nat /\ Cardinality(Elements(h)') <= E
      BY <1>4, <2>2, LengthOfFewer
    <3>2. Cardinality(Computing(h)') \in Nat /\ Cardinality(Computing(h)') <= C
      <4>1. Computing(h)' \in SUBSET Computing(h)
        BY <1>4
      <4>. QED BY <1>4, <4>1, LengthOfFewer
    <3>3. Fresh(h)' => Fresh(h)
      BY <1>1, <1>2, <2>2 DEF Fresh, Trimmed, Unexpired
    <3>. QED BY <1>5, <2>1, <3>1, <3>2, <3>3
  <2>3. CASE h = g
    <3>. DEFINE x == [key |-> g, n |-> appends + 1]
    <3>1. Cardinality(Computing(h)') = C - 1
      <4>1. t \in Computing(h)
        BY <2>3 DEF Computing
      <4>. QED BY <1>4, <4>1, FS_RemoveElement
    <3>2. CASE Fresh(h)
      <4>1. Cardinality(Elements(h)') \in Nat /\ Cardinality(Elements(h)') <= E + 1
        <5>. HIDE DEF x
        <5>0. /\ IsFiniteSet(Elements(h) \cup {x})
              /\ Cardinality(Elements(h) \cup {x}) =
                   IF x \in Elements(h) THEN E ELSE E + 1
          BY <1>4, FS_AddElement
        <5>1. /\ IsFiniteSet(Elements(h) \cup {x})
              /\ Cardinality(Elements(h) \cup {x}) <= E + 1
          BY <2>1, <5>0
        <5>2. Elements(h)' \in SUBSET (Elements(h) \cup {x})
          BY <1>4 DEF x
        <5>. QED BY <2>1, <5>1, <5>2, LengthOfFewer
      <4>2. C \in Nat \ {0}
        <5>1. t \in Computing(h)
          BY <2>3 DEF Computing
        <5>. QED BY <1>4, <2>1, <5>1, FS_EmptySet
      <4>. QED BY <1>5, <2>1, <3>1, <3>2, <4>1, <4>2
    <3>3. CASE ~Fresh(h)
      <4>1. \A e \in Rebuilt : e.key # g
        BY <1>3, <2>3, <3>3, ExpiredIsCollected
      <4>2. Elements(h)' \subseteq {x}
        BY <1>1, <2>3, <4>1 DEF Elements, Appended
      <4>3. Cardinality(Elements(h)') \in Nat /\ Cardinality(Elements(h)') <= 1
        <5>. HIDE DEF x
        <5>1. Elements(h)' \in SUBSET {x}
          BY <4>2
        <5>2. IsFiniteSet({x}) /\ Cardinality({x}) = 1
          BY FS_Singleton
        <5>. QED BY <5>1, <5>2, LengthOfFewer
      <4>4. C \in Nat \ {0}
        <5>1. t \in Computing(h)
          BY <2>3 DEF Computing
        <5>. QED BY <1>4, <2>1, <5>1, FS_EmptySet
      <4>. QED BY <1>5, <2>1, <3>1, <4>3, <4>4
    <3>. QED BY <3>2, <3>3
  <2>. QED BY <2>2, <2>3
<1>. HIDE DEF g, N
<1>. QED BY <1>3, <1>6 DEF LengthInv, N

LEMMA LengthNext ==
  ASSUME CacheAssumption, IsFiniteSet(Thread), IInv, LengthInv, [Next]_vars
  PROVE  LengthInv'
<1>. USE DEF IInv, TypeOK, CacheAssumption
<1>1. CASE Tick
  BY <1>1, LengthKept DEF Tick, Fresh, Computing
<1>2. CASE Clear
  <2>1. order' \subseteq order /\ \A g \in Graph : ~Fresh(g)'
    BY <1>2 DEF Clear, Fresh
  <2>. QED BY <2>1, LengthKept
<1>3. ASSUME NEW t \in Thread, NEW g \in Graph, Hit(t, g) PROVE LengthInv'
  BY <1>3, LengthKept DEF Hit, Fresh, Computing
<1>4. ASSUME NEW t \in Thread, NEW g \in Graph, Miss(t, g) PROVE LengthInv'
  <2>1. /\ order' = order /\ store' = store /\ now' = now /\ ~Fresh(g)
        /\ running' = [running EXCEPT ![t] = g]
    BY <1>4 DEF Miss
  <2>2. \A h \in Graph : Fresh(h)' => Fresh(h) /\ Computing(h)' \subseteq Computing(h)
    BY <2>1 DEF Fresh, Computing
  <2>. QED BY <2>1, <2>2, LengthKept
<1>5. ASSUME NEW t \in Thread, ExecuteFails(t) PROVE LengthInv'
  <2>1. /\ order' = order /\ store' = store /\ now' = now
        /\ running' = [running EXCEPT ![t] = None]
    BY <1>5 DEF ExecuteFails
  <2>2. \A h \in Graph : Fresh(h)' => Fresh(h) /\ Computing(h)' \subseteq Computing(h)
    BY <2>1 DEF Fresh, Computing
  <2>. QED BY <2>1, <2>2, LengthKept
<1>6. ASSUME NEW t \in Thread, StoreResult(t) PROVE LengthInv'
  BY <1>6, LengthStored
<1>7. CASE UNCHANGED vars
  BY <1>7, LengthKept DEF vars, Fresh, Computing
<1>. QED BY <1>1, <1>2, <1>3, <1>4, <1>5, <1>6, <1>7 DEF Next

\* c.order does not leak: finitely many goroutines leave at most one element each
\* for a graph, whatever they compute at the same time and however often entries
\* expire, are evicted and stored again.
THEOREM OrderBounded == IsFiniteSet(Thread) => (Spec => []OrderIsBounded)
<1>. SUFFICES ASSUME IsFiniteSet(Thread) PROVE Spec => []OrderIsBounded
  OBVIOUS
<1>1. Init => LengthInv
  <2>. SUFFICES ASSUME Init PROVE LengthInv
    OBVIOUS
  <2>1. order = {} /\ \A g \in Graph : Elements(g) = {} /\ ~Fresh(g)
    BY DEF Init, Elements, Fresh
  <2>2. IsFiniteSet({}) /\ Cardinality({}) = 0 /\ Cardinality(Thread) \in Nat
    BY FS_EmptySet, FS_CardinalityType
  <2>3. \A g \in Graph : Cardinality(Elements(g)) <= Cardinality(Thread)
    BY <2>1, <2>2
  <2>. QED BY <2>1, <2>2, <2>3 DEF LengthInv
<1>2. IInv /\ LengthInv /\ [Next]_vars => LengthInv'
  BY LengthNext, CacheAssumption
<1>3. LengthInv => OrderIsBounded
  BY DEF LengthInv, OrderIsBounded, Elements
<1>. QED BY <1>1, <1>2, <1>3, Invariant, PTL DEF Spec
-----------------------------------------------------------------------------
LEMMA EvictsNext ==
  ASSUME CacheAssumption, TypeOK, [Next]_vars
  PROVE  [\A g \in Graph :
            Fresh(g) /\ store'[g] = None =>
              (order' = {} \/ Cardinality({h \in Graph : Fresh(h)}) >= MaxSize)]_vars
<1>. USE DEF CacheAssumption
<1>. SUFFICES ASSUME NEW g \in Graph, Fresh(g), store'[g] = None, order' # {}
              PROVE  Cardinality({h \in Graph : Fresh(h)}) >= MaxSize
  OBVIOUS
<1>1. PICK t \in Thread : StoreResult(t)
  BY DEF Next, vars, Tick, Clear, Hit, Miss, ExecuteFails, Fresh
<1>2. PICK cut \in 0..appends : /\ \A c \in 0..(cut - 1) : ~Room(c)
                                /\ store' = [Trimmed(cut) EXCEPT ![running[t]] = now]
  BY <1>1 DEF StoreResult
<1>3. now # None /\ Trimmed(cut) \in [Graph -> Nat \cup {None}] /\ cut \in Nat
  BY <1>2, TrimmedEntries DEF TypeOK
<1>4. Trimmed(cut)[g] = None
  BY <1>2, <1>3
<1>5. Unexpired[g] # None
  BY DEF Unexpired, Fresh
<1>6. PICK e \in Rebuilt : e.key = g /\ e.n <= cut
  BY <1>4, <1>5 DEF Trimmed
<1>7. \A x \in Rebuilt : x.n \in Nat /\ ~(x.n <= 0)
  BY TrimmedEntries DEF TypeOK
<1>8. cut # 0 /\ ~Room(0)
  BY <1>2, <1>3, <1>6, <1>7
<1>9. Keys(Trimmed(0)) = {h \in Graph : Fresh(h)}
  BY <1>7 DEF Keys, Trimmed, Unexpired, Fresh
<1>10. Cardinality({h \in Graph : Fresh(h)}) \in Nat
  <2>1. {h \in Graph : Fresh(h)} \in SUBSET Graph
    OBVIOUS
  <2>. QED BY <2>1, FS_Subset, FS_CardinalityType
<1>. QED BY <1>8, <1>9, <1>10 DEF Room

\* A fresh entry goes only by Clear, or when the cache is full of fresh entries.
THEOREM EvictsWhenFull == Spec => OnlyFullCacheEvicts
<1>1. TypeOK /\ [Next]_vars =>
        [\A g \in Graph :
           Fresh(g) /\ store'[g] = None =>
             (order' = {} \/ Cardinality({h \in Graph : Fresh(h)}) >= MaxSize)]_vars
  BY EvictsNext, CacheAssumption
<1>. QED BY <1>1, TypeCorrect, PTL DEF Spec, OnlyFullCacheEvicts
=============================================================================
