---------------------------- MODULE ResultCache ----------------------------
(***************************************************************************)
(* engine.Cache (engine/cache.go): a wrapper of an engine that remembers   *)
(* successful results by graph.  A lookup and a store each hold the lock;  *)
(* the engine runs between them without it, so that several goroutines may *)
(* compute the same graph and Clear may come in between.                   *)
(***************************************************************************)
EXTENDS Integers, FiniteSets

CONSTANTS Graph,     \* graphs, told apart by their hash
          Thread,    \* goroutines that call Execute
          TTL,       \* c.ttl, in ticks
          MaxSize,   \* c.maxSize
          None,      \* no entry, no graph
          MaxNow,    \* bound: clock ticks
          MaxCalls   \* bound: calls of Execute, all threads together

ASSUME CacheAssumption ==
  /\ IsFiniteSet(Graph)
  /\ None \notin Graph
  /\ None \notin Nat
  /\ TTL \in Nat \ {0}
  /\ MaxSize \in Nat \ {0}
  /\ MaxNow \in Nat
  /\ MaxCalls \in Nat

VARIABLES store,     \* store[g]: createdAt of the entry of g, or None
          order,     \* c.order: its elements, each with the number of its append
          appends,   \* the number of appends to c.order so far
          now,       \* time.Now()
          running,   \* running[t]: the graph t has the engine execute, or None
          calls      \* calls of Execute and Clear so far, up to MaxCalls

vars == <<store, order, appends, now, running, calls>>

Keys(s) == {g \in Graph : s[g] # None}

Fresh(g) == store[g] # None /\ now - store[g] < TTL

Init == /\ store = [g \in Graph |-> None]
        /\ order = {}
        /\ appends = 0
        /\ now = 0
        /\ running = [t \in Thread |-> None]
        /\ calls = 0

Tick == /\ now < MaxNow
        /\ now' = now + 1
        /\ UNCHANGED <<store, order, appends, running, calls>>

Called == calls < MaxCalls /\ calls' = calls + 1

-----------------------------------------------------------------------------
\* Execute finds a fresh entry and returns its result.
Hit(t, g) ==
  /\ running[t] = None
  /\ Fresh(g)
  /\ Called
  /\ UNCHANGED <<store, order, appends, now, running>>

\* Execute finds none and calls the engine.
Miss(t, g) ==
  /\ running[t] = None
  /\ ~Fresh(g)
  /\ Called
  /\ running' = [running EXCEPT ![t] = g]
  /\ UNCHANGED <<store, order, appends, now>>

\* The engine fails; nothing is cached.
ExecuteFails(t) ==
  /\ running[t] # None
  /\ running' = [running EXCEPT ![t] = None]
  /\ UNCHANGED <<store, order, appends, now, calls>>

-----------------------------------------------------------------------------
\* evictLocked.  First the expired entries go, from the map ...
Unexpired == [g \in Graph |-> IF Fresh(g) THEN store[g] ELSE None]

\* Mutant: elements without an entry stay in c.order.
RebuiltNever == order

\* ... and, if elements without an entry show by their number, from c.order.
Rebuilt ==
  IF Cardinality(Keys(Unexpired)) < Cardinality(order)
  THEN {e \in order : Unexpired[e.key] # None}
  ELSE order

\* Then the oldest elements of c.order, up to number cut, and their entries.
Trimmed(cut) ==
  [g \in Graph |-> IF \E e \in Rebuilt : e.key = g /\ e.n <= cut THEN None
                                                                 ELSE Unexpired[g]]

\* Mutant: one entry too many is kept.
RoomAfterOne(cut) ==
  \/ Cardinality(Keys(Trimmed(cut))) <= MaxSize
  \/ \A e \in Rebuilt : e.n <= cut

\* Mutant: the loop runs until c.order is empty.
RoomAtEnd(cut) == \A e \in Rebuilt : e.n <= cut

\* The loop has ended: there is room, or nothing is left in c.order.
Room(cut) ==
  \/ Cardinality(Keys(Trimmed(cut))) < MaxSize
  \/ \A e \in Rebuilt : e.n <= cut

\* Mutant: an entry that is there already is not appended to c.order, although
\* evictLocked may have dropped its element.
AppendedIfNew(g, cut) ==
  {e \in Rebuilt : e.n > cut}
    \cup {e \in {[key |-> g, n |-> appends + 1]} : store[g] = None}

\* c.order after the loop and the append.
Appended(g, cut) ==
  {e \in Rebuilt : e.n > cut} \cup {[key |-> g, n |-> appends + 1]}

\* The engine returns: evict, then store the result under the same lock.
StoreResult(t) ==
  LET g == running[t]
  IN /\ g # None
     /\ \E cut \in 0..appends :
          /\ Room(cut)
          /\ \A c \in 0..(cut - 1) : ~Room(c)
          /\ store' = [Trimmed(cut) EXCEPT ![g] = now]
          /\ order' = Appended(g, cut)
     /\ appends' = appends + 1
     /\ running' = [running EXCEPT ![t] = None]
     /\ UNCHANGED <<now, calls>>

\* Clear, while results are under way or not.
Clear ==
  /\ Called
  /\ store' = [g \in Graph |-> None]
  /\ order' = {}
  /\ UNCHANGED <<appends, now, running>>

Next == \/ Tick \/ Clear
        \/ \E t \in Thread : \/ \E g \in Graph : Hit(t, g) \/ Miss(t, g)
                             \/ ExecuteFails(t) \/ StoreResult(t)

Spec == Init /\ [][Next]_vars
-----------------------------------------------------------------------------
TypeOK ==
  /\ store \in [Graph -> Nat \cup {None}]
  /\ order \subseteq [key : Graph, n : 1..appends]
  /\ appends \in Nat
  /\ now \in Nat
  /\ running \in [Thread -> Graph \cup {None}]
  /\ calls \in Nat

\* Len() never exceeds maxSize, however many goroutines store at once and
\* whatever Clear and expiry have done to c.order.
SizeBound == Cardinality(Keys(store)) <= MaxSize

\* Every entry can be evicted: concurrent misses, expiry, eviction and Clear leave
\* no entry that c.order does not name.
EveryEntryInOrder == \A g \in Keys(store) : \E e \in order : e.key = g

\* c.order does not grow for ever: each goroutine adds a graph at most once while
\* the graph's entry lives.
OrderIsBounded ==
  \A g \in Graph : Cardinality({e \in order : e.key = g}) <= Cardinality(Thread)

\* While there is room no fresh entry is dropped, but by Clear.
OnlyFullCacheEvicts ==
  [][\A g \in Graph :
       Fresh(g) /\ store'[g] = None =>
         (order' = {} \/ Cardinality({h \in Graph : Fresh(h)}) >= MaxSize)]_vars
=============================================================================
