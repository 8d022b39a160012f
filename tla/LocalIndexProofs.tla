------------------------- MODULE LocalIndexProofs -------------------------
(***************************************************************************)
(* What holds of the local index for any files, goroutines, calls, changes *)
(* and restarts.  Two arguments: the paths of an array never change below  *)
(* the length a copy of the slice has, so that every reader sees each path *)
(* once, whatever is updated meanwhile; and no entry has a newer stamp     *)
(* than embedding but one a save has read in two states.                   *)
(***************************************************************************)
EXTENDS LocalIndex, TLAPS

IsSaved(d) == d \notin {NoFile, Emptied, Torn}

\* ix finds every element of es, and nothing else.
Finds(ix, es) ==
  /\ \A i \in DOMAIN es : ix[es[i].path] = i
  /\ \A p \in Path : ix[p] # 0 => ix[p] \in DOMAIN es /\ es[ix[p]].path = p

\* A reader has read a prefix of what it sees, which is, while it is live, a prefix
\* of es, paths only.
Follows(r, es) ==
  /\ OnePerPath(r.of)
  /\ Len(r.got) <= Len(r.of)
  /\ \A i \in DOMAIN r.got : r.got[i].path = r.of[i].path
  /\ r.half # NoHalf => Len(r.got) < Len(r.of) /\ r.half.path = r.of[Len(r.got) + 1].path
  /\ r.live => \A i \in DOMAIN r.of : i \in DOMAIN es /\ r.of[i].path = es[i].path

\* A sweep has kept some of the first elements of es.
SweepsOver(s, es) ==
  /\ s.at <= Len(es)
  /\ Finds(s.index, s.kept)
  /\ \A k \in DOMAIN s.kept : \E i \in 1 .. s.at : s.kept[k].path = es[i].path

UniqueInv ==
  /\ Finds(pathIndex, entries)
  /\ \A t \in Thread : Follows(reader[t], entries)
  /\ sweep # NoSweep => SweepsOver(sweep, entries)
  /\ IsSaved(disk) => OnePerPath(disk)
  /\ ~up => sweep = NoSweep /\ \A t \in Thread : pc[t] = "idle" /\ ~reader[t].live

\* An entry is not newer by its stamp than by its embedding.
Sound(e, torn, version) ==
  e.path \notin torn => e.stamp <= e.vector /\ e.vector <= version[e.path]

AllSound(es, torn, version) == \A i \in DOMAIN es : Sound(es[i], torn, version)

SoundAt(torn, version) ==
  /\ AllSound(entries, torn, version)
  /\ \A t \in Thread :
       /\ AllSound(reader[t].of, torn, version)
       /\ reader[t].half # NoHalf => Sound(reader[t].half, torn, version)
       /\ call[t] # "Search" => AllSound(reader[t].got, torn, version)
  /\ sweep # NoSweep => AllSound(sweep.kept, torn, version)
  /\ IsSaved(disk) => AllSound(disk, torn, version)

SoundInv == SoundAt(mixed, content)

JobInv ==
  \A t \in Thread :
    /\ pc[t] \in {"check", "read", "embed"} => job[t].stat <= content[job[t].path]
    /\ pc[t] = "embed" => job[t].stat <= job[t].seen /\ job[t].seen <= content[job[t].path]
    /\ call[t] = "Search" => pc[t] \in {"snapshot", "range"}

-----------------------------------------------------------------------------
LEMMA Appended ==
  ASSUME NEW S, NEW s \in Seq(S), NEW e \in S
  PROVE  /\ Append(s, e) \in Seq(S)
         /\ DOMAIN s = 1 .. Len(s) /\ Len(s) \in Nat
         /\ Len(Append(s, e)) = Len(s) + 1
         /\ DOMAIN Append(s, e) = 1 .. Len(s) + 1
         /\ Append(s, e)[Len(s) + 1] = e
         /\ \A i \in DOMAIN s : Append(s, e)[i] = s[i]
OBVIOUS

LEMMA Updated ==
  ASSUME NEW S, NEW s \in Seq(S), NEW i \in DOMAIN s, NEW e \in S
  PROVE  /\ [s EXCEPT ![i] = e] \in Seq(S)
         /\ DOMAIN [s EXCEPT ![i] = e] = DOMAIN s
         /\ Len([s EXCEPT ![i] = e]) = Len(s)
         /\ [s EXCEPT ![i] = e][i] = e
         /\ \A k \in DOMAIN s : k # i => [s EXCEPT ![i] = e][k] = s[k]
OBVIOUS

LEMMA UpdatedAny ==
  ASSUME NEW S, NEW s \in Seq(S), NEW i, NEW e \in S
  PROVE  [s EXCEPT ![i] = e] \in Seq(S)
<1>1. CASE i \in DOMAIN s
  BY <1>1, Updated
<1>2. CASE i \notin DOMAIN s
  <2>1. [s EXCEPT ![i] = e] = [k \in DOMAIN s |-> s[k]]
    BY <1>2
  <2>2. s = [k \in DOMAIN s |-> s[k]]
    OBVIOUS
  <2>. QED BY <2>1, <2>2
<1>. QED BY <1>1, <1>2

-----------------------------------------------------------------------------
\* The variables keep their types.
DataType ==
  /\ there \subseteq Path
  /\ content \in [Path -> Nat]
  /\ disk \in Seq(Entry) \cup {NoFile, Emptied, Torn}
  /\ up \in BOOLEAN
  /\ entries \in Seq(Entry)
  /\ pathIndex \in [Path -> Nat]
  /\ sweep \in Sweep \cup {NoSweep}
  /\ mixed \subseteq Path

ReaderType == reader \in [Thread -> Reader]

CallType ==
  /\ pc \in [Thread -> PC]
  /\ call \in [Thread -> Methods \cup {"none"}]
  /\ todo \in [Thread -> SUBSET Path]
  /\ job \in [Thread -> [path : Path \cup {0}, stat : Nat, seen : Nat]]

WorkType ==
  \A t \in Thread : /\ pc[t] \in {"stat", "check", "read", "embed"} => job[t].path \in Path
                    /\ pc[t] = "idle" => call[t] = "none"
                    /\ pc[t] = "sweep" => /\ sweep # NoSweep
                                          /\ \A u \in Thread \ {t} : pc[u] # "sweep"

LEMMA TypeParts == TypeOK <=> DataType /\ ReaderType /\ CallType /\ WorkType
BY DEF TypeOK, DataType, ReaderType, CallType, WorkType

LEMMA TypeInit == Init => TypeOK
BY IndexAssumption DEF IndexAssumption, Init, TypeOK, PC, Methods, NoJob, NoReader, Reader

LEMMA ReturnType ==
  ASSUME CallType, NEW t \in Thread, Return(t) \/ FileDone(t)
  PROVE  /\ CallType'
         /\ pc'[t] = "idle" => call'[t] = "none"
         /\ pc'[t] \in {"idle", "walk"}
         /\ \A u \in Thread \ {t} : /\ pc'[u] = pc[u] /\ call'[u] = call[u]
                                   /\ todo'[u] = todo[u] /\ job'[u] = job[u]
<1>. USE DEF CallType
<1>0. NoJob \in [path : Path \cup {0}, stat : Nat, seen : Nat]
  BY DEF NoJob
<1>1. CASE Return(t)
  BY <1>0, <1>1 DEF Return, PC
<1>2. CASE FileDone(t) /\ call[t] = "IndexDir"
  BY <1>0, <1>2 DEF FileDone, PC
<1>. QED BY <1>1, <1>2 DEF FileDone

\* A call ends, or its walk goes on.
LEMMA ReturnWork ==
  ASSUME CallType, WorkType, NEW t \in Thread, Return(t) \/ FileDone(t), UNCHANGED sweep
  PROVE  CallType' /\ WorkType'
<1>1. CallType'
  BY ReturnType
<1>2. WorkType'
  BY ReturnType DEF WorkType
<1>. QED BY <1>1, <1>2

\* A call begins.
LEMMA BeginType ==
  ASSUME CallType, WorkType, NEW t \in Thread,
         NEW m \in Methods, NEW b \in {"stat", "walk", "snapshot", "sweep"},
         Begin(t, m, b), todo' \in [Thread -> SUBSET Path],
         b # "stat" => UNCHANGED job,
         b = "stat" => \E p \in Path : OnFile(t, p),
         b = "sweep" => sweep = NoSweep /\ sweep' # NoSweep,
         b # "sweep" => UNCHANGED sweep
  PROVE  CallType' /\ WorkType'
<1>1. /\ pc' = [pc EXCEPT ![t] = b]
      /\ call' = [call EXCEPT ![t] = m]
  BY DEF Begin, Goto
<1>2. job' \in [Thread -> [path : Path \cup {0}, stat : Nat, seen : Nat]]
  BY DEF CallType, OnFile
<1>3. CallType'
  BY <1>1, <1>2 DEF CallType, PC, Methods
<1>4. ASSUME NEW u \in Thread
      PROVE  /\ pc'[u] \in {"stat", "check", "read", "embed"} => job'[u].path \in Path
             /\ pc'[u] = "idle" => call'[u] = "none"
             /\ pc'[u] = "sweep" => /\ sweep' # NoSweep
                                    /\ \A v \in Thread \ {u} : pc'[v] # "sweep"
  <2>1. CASE u = t
    BY <1>1, <2>1 DEF CallType, WorkType, OnFile
  <2>2. CASE u # t
    BY <1>1, <2>2 DEF CallType, WorkType, OnFile
  <2>. QED BY <2>1, <2>2
<1>. QED BY <1>3, <1>4 DEF WorkType

\* A call goes on.
LEMMA GotoType ==
  ASSUME CallType, WorkType, NEW t \in Thread, NEW a, NEW b \in PC \ {"idle", "sweep"},
         Goto(t, a, b), UNCHANGED <<call, sweep>>,
         todo' \in [Thread -> SUBSET Path],
         job' \in [Thread -> [path : Path \cup {0}, stat : Nat, seen : Nat]],
         \A u \in Thread \ {t} : job'[u] = job[u],
         b \in {"stat", "check", "read", "embed"} => job'[t].path \in Path
  PROVE  CallType' /\ WorkType'
<1>1. pc' = [pc EXCEPT ![t] = b]
  BY DEF Goto
<1>2. CallType'
  BY <1>1 DEF CallType
<1>3. WorkType'
  BY <1>1 DEF CallType, WorkType
<1>. QED BY <1>2, <1>3

LEMMA NoReaderType ==
  NoReader \in Reader
BY DEF NoReader, Reader

LEMMA ShownType ==
  ASSUME ReaderType, NEW i, NEW e \in Entry
  PROVE  Shown(i, e) \in [Thread -> Reader]
<1>. SUFFICES ASSUME NEW t \in Thread, i \in DOMAIN reader[t].of
              PROVE  [reader[t].of EXCEPT ![i] = e] \in Seq(Entry)
  BY DEF ReaderType, Shown, Reader
<1>. QED BY Updated DEF ReaderType, Reader

LEMMA DetachedType ==
  ASSUME ReaderType
  PROVE  Detached \in [Thread -> Reader]
BY DEF ReaderType, Detached, Reader

LEMMA PositionsType ==
  ASSUME NEW es \in Seq(Entry)
  PROVE  Positions(es) \in [Path -> Nat]
<1>1. DOMAIN es \subseteq Nat
  OBVIOUS
<1>. QED BY <1>1 DEF Positions

\* The ends of a save.
LEMMA Writes ==
  ASSUME ReaderType, DataType, NEW t \in Thread,
         OpenFails(t) \/ WriteIndexFile(t) \/ WriteFails(t)
  PROVE  \E d \in Seq(Entry) \cup {NoFile, Emptied, Torn} : Saved(t, d)
<1>1. CASE OpenFails(t)
  BY <1>1 DEF OpenFails, DataType
<1>2. CASE WriteIndexFile(t)
  BY <1>2 DEF WriteIndexFile, ReaderType, Reader
<1>3. CASE WriteFails(t)
  BY <1>3 DEF WriteFails
<1>. QED BY <1>1, <1>2, <1>3

LEMMA TypeNext ==
  ASSUME TypeOK, [Next]_vars
  PROVE  TypeOK'
<1>0. DataType /\ ReaderType /\ CallType /\ WorkType
  BY TypeParts
<1>. SUFFICES DataType' /\ ReaderType' /\ CallType' /\ WorkType'
  BY DEF TypeOK, DataType, ReaderType, CallType, WorkType
<1>. USE <1>0 DEF files, index, local, bounds
<1>1. CASE UNCHANGED vars
  BY <1>1 DEF vars, DataType, ReaderType, CallType, WorkType
<1>2. ASSUME NEW p \in Path, WriteFile(p) \/ RemoveFile(p)
      PROVE  DataType' /\ ReaderType' /\ CallType' /\ WorkType'
  <2>1. content' \in [Path -> Nat] /\ there' \subseteq Path
    <3>1. CASE WriteFile(p)
      BY <3>1 DEF WriteFile, DataType
    <3>2. CASE RemoveFile(p)
      BY <3>2 DEF RemoveFile, DataType
    <3>. QED BY <1>2, <3>1, <3>2
  <2>3. DataType'
    BY <1>2, <2>1 DEF WriteFile, RemoveFile, DataType
  <2>2. UNCHANGED <<pc, call, todo, job, reader, sweep>>
    BY <1>2 DEF WriteFile, RemoveFile
  <2>. QED BY <2>3, <2>2 DEF ReaderType, CallType, WorkType
<1>3. ASSUME NEW t \in Thread, NEW p \in Path, IndexFile(t, p)
      PROVE  DataType' /\ ReaderType' /\ CallType' /\ WorkType'
  <2>1. Begin(t, "IndexFile", "stat") /\ OnFile(t, p) /\ UNCHANGED <<todo, sweep>>
    BY <1>3 DEF IndexFile
  <2>2. CallType' /\ WorkType'
    BY <2>1, BeginType DEF CallType, Methods
  <2>. QED BY <2>1, <2>2 DEF Begin, DataType, ReaderType
<1>4. ASSUME NEW t \in Thread, IndexDir(t)
      PROVE  DataType' /\ ReaderType' /\ CallType' /\ WorkType'
  <2>1. /\ Begin(t, "IndexDir", "walk") /\ UNCHANGED <<job, sweep>>
        /\ todo' \in [Thread -> SUBSET Path]
    BY <1>4 DEF IndexDir, CallType, DataType
  <2>2. CallType' /\ WorkType'
    BY <2>1, BeginType DEF Methods
  <2>. QED BY <2>1, <2>2 DEF Begin, DataType, ReaderType
<1>5. ASSUME NEW t \in Thread, SaveIndex(t) \/ Search(t)
      PROVE  DataType' /\ ReaderType' /\ CallType' /\ WorkType'
  <2>1. /\ Begin(t, "SaveIndex", "snapshot") \/ Begin(t, "Search", "snapshot")
        /\ UNCHANGED <<todo, job, sweep>>
    BY <1>5 DEF SaveIndex, Search
  <2>2. CallType' /\ WorkType'
    BY <2>1, BeginType DEF CallType, Methods
  <2>. QED BY <2>1, <2>2 DEF Begin, DataType, ReaderType
<1>6. ASSUME NEW t \in Thread, RemoveStale(t)
      PROVE  DataType' /\ ReaderType' /\ CallType' /\ WorkType'
  <2>1. Begin(t, "RemoveStale", "sweep") /\ UNCHANGED <<todo, job>>
    BY <1>6 DEF RemoveStale
  <2>2. sweep' \in Sweep
    BY <1>6 DEF RemoveStale, Sweep
  <2>3. sweep' # NoSweep
    BY <2>2, IndexAssumption
  <2>4. CallType' /\ WorkType'
    BY <1>6, <2>1, <2>3, BeginType DEF CallType, Methods, RemoveStale, Unlocked
  <2>. QED BY <2>1, <2>2, <2>4 DEF Begin, DataType, ReaderType
<1>7. ASSUME NEW t \in Thread, NEW p \in Path, Visit(t, p)
      PROVE  DataType' /\ ReaderType' /\ CallType' /\ WorkType'
  <2>1. CallType' /\ WorkType'
    BY <1>7, GotoType DEF Visit, OnFile, CallType, PC
  <2>. QED BY <1>7, <2>1 DEF Visit, DataType, ReaderType
<1>8. ASSUME NEW t \in Thread, WalkCancelled(t) \/ FileFails(t)
      PROVE  DataType' /\ ReaderType' /\ CallType' /\ WorkType'
  <2>1. CallType' /\ WorkType'
    BY <1>8, ReturnWork DEF WalkCancelled, FileFails
  <2>. QED BY <1>8, <2>1 DEF WalkCancelled, FileFails, DataType, ReaderType
<1>9. ASSUME NEW t \in Thread, WalkEnds(t)
      PROVE  DataType' /\ ReaderType' /\ CallType' /\ WorkType'
  <2>1. CallType' /\ WorkType'
    BY <1>9, GotoType DEF WalkEnds, CallType, PC
  <2>. QED BY <1>9, <2>1 DEF WalkEnds, DataType, ReaderType
<1>10. ASSUME NEW t \in Thread, Stat(t) \/ ReadFile(t)
       PROVE  DataType' /\ ReaderType' /\ CallType' /\ WorkType'
  <2>1. CASE Stat(t)
    <3>0. /\ job[t].path \in Path /\ content[job[t].path] \in Nat
          /\ job' = [job EXCEPT ![t] = [@ EXCEPT !.stat = content[job[t].path]]]
      BY <2>1 DEF Stat, DataType
    <3>2. /\ job' \in [Thread -> [path : Path \cup {0}, stat : Nat, seen : Nat]]
          /\ job'[t].path = job[t].path
          /\ \A u \in Thread \ {t} : job'[u] = job[u]
      BY <3>0 DEF CallType
    <3>1. CallType' /\ WorkType'
      BY <2>1, <3>0, <3>2, GotoType DEF Stat, CallType, PC
    <3>. QED BY <2>1, <3>1 DEF Stat, DataType, ReaderType
  <2>2. CASE ReadFile(t)
    <3>0. /\ job[t].path \in Path /\ content[job[t].path] \in Nat
          /\ job' = [job EXCEPT ![t] = [@ EXCEPT !.seen = content[job[t].path]]]
      BY <2>2 DEF ReadFile, DataType
    <3>2. /\ job' \in [Thread -> [path : Path \cup {0}, stat : Nat, seen : Nat]]
          /\ job'[t].path = job[t].path
          /\ \A u \in Thread \ {t} : job'[u] = job[u]
      BY <3>0 DEF CallType
    <3>1. CallType' /\ WorkType'
      BY <2>2, <3>0, <3>2, GotoType DEF ReadFile, CallType, PC
    <3>. QED BY <2>2, <3>1 DEF ReadFile, DataType, ReaderType
  <2>. QED BY <1>10, <2>1, <2>2
<1>11. ASSUME NEW t \in Thread, CheckChanged(t)
       PROVE  DataType' /\ ReaderType' /\ CallType' /\ WorkType'
  <2>1. CASE Indexed(t)
    BY <1>11, <2>1, ReturnWork DEF CheckChanged, DataType, ReaderType
  <2>2. CASE ~Indexed(t)
    <3>1. CallType' /\ WorkType'
      BY <1>11, <2>2, GotoType DEF CheckChanged, CallType, WorkType, PC
    <3>. QED BY <1>11, <3>1 DEF CheckChanged, DataType, ReaderType
  <2>. QED BY <2>1, <2>2
<1>12. ASSUME NEW t \in Thread, StoreEntry(t)
       PROVE  DataType' /\ ReaderType' /\ CallType' /\ WorkType'
  <2>0. /\ job[t].path \in Path
        /\ NewEntry(t) \in Entry
    BY <1>12 DEF StoreEntry, NewEntry, Entry, CallType, WorkType
  <2>1. CallType' /\ WorkType'
    BY <1>12, ReturnWork DEF StoreEntry
  <2>2. entries' \in Seq(Entry) /\ pathIndex' \in [Path -> Nat]
    <3>1. CASE pathIndex[job[t].path] # 0
      <4>1. /\ entries' = [entries EXCEPT ![pathIndex[job[t].path]] = NewEntry(t)]
            /\ pathIndex' = pathIndex
        BY <1>12, <3>1 DEF StoreEntry
      <4>. QED BY <2>0, <4>1, UpdatedAny DEF DataType
    <3>2. CASE pathIndex[job[t].path] = 0
      <4>1. /\ entries' = Append(entries, NewEntry(t))
            /\ pathIndex' = [pathIndex EXCEPT ![job[t].path] = Len(entries) + 1]
        BY <1>12, <3>2 DEF StoreEntry
      <4>2. Append(entries, NewEntry(t)) \in Seq(Entry) /\ Len(entries) \in Nat
        BY <2>0 DEF DataType
      <4>3. Len(entries) + 1 \in Nat
        BY <4>2
      <4>4. pathIndex' \in [Path -> Nat]
        BY <4>1, <4>3 DEF DataType
      <4>. QED BY <4>1, <4>2, <4>4
    <3>. QED BY <3>1, <3>2
  <2>3. ReaderType'
    <3>1. CASE reader' = Shown(pathIndex[job[t].path], NewEntry(t))
      BY <2>0, <3>1, ShownType DEF ReaderType
    <3>2. CASE reader' = Detached
      BY <3>2, DetachedType DEF ReaderType
    <3>3. CASE reader' = reader
      BY <3>3 DEF ReaderType
    <3>. QED BY <1>12, <3>1, <3>2, <3>3 DEF StoreEntry
  <2>. QED BY <1>12, <2>1, <2>2, <2>3 DEF StoreEntry, DataType
<1>13. ASSUME NEW t \in Thread, SweepNext(t)
       PROVE  DataType' /\ ReaderType' /\ CallType' /\ WorkType'
  <2>0. /\ sweep \in Sweep /\ entries[sweep.at + 1] \in Entry
        /\ entries[sweep.at + 1].path \in Path
    <3>1. sweep \in Sweep /\ sweep.at < Len(entries)
      BY <1>13 DEF SweepNext, WorkType, DataType
    <3>2. sweep.at + 1 \in DOMAIN entries
      BY <3>1 DEF DataType, Sweep
    <3>3. entries[sweep.at + 1] \in Entry
      BY <3>2 DEF DataType
    <3>. QED BY <3>1, <3>3 DEF Entry
  <2>1. sweep' \in Sweep
    <3>1. CASE entries[sweep.at + 1].path \in there
      <4>1. sweep' = [at |-> sweep.at + 1, kept |-> Append(sweep.kept, entries[sweep.at + 1]),
                      index |-> [sweep.index EXCEPT ![entries[sweep.at + 1].path] =
                                   Len(Append(sweep.kept, entries[sweep.at + 1]))]]
        BY <1>13, <3>1 DEF SweepNext
      <4>2. Append(sweep.kept, entries[sweep.at + 1]) \in Seq(Entry)
        BY <2>0 DEF Sweep
      <4>3. Len(Append(sweep.kept, entries[sweep.at + 1])) \in Nat
        BY <4>2
      <4>. QED BY <2>0, <4>1, <4>2, <4>3 DEF Sweep
    <3>2. CASE entries[sweep.at + 1].path \notin there
      <4>1. sweep' = [sweep EXCEPT !.at = @ + 1]
        BY <1>13, <3>2 DEF SweepNext
      <4>2. sweep' = [at |-> sweep.at + 1, kept |-> sweep.kept, index |-> sweep.index]
        BY <2>0, <4>1 DEF Sweep
      <4>. QED BY <2>0, <4>2 DEF Sweep
    <3>. QED BY <3>1, <3>2
  <2>2. sweep' # NoSweep
    BY <2>1, IndexAssumption
  <2>. QED BY <1>13, <2>1, <2>2 DEF SweepNext, DataType, ReaderType, CallType, WorkType
<1>14. ASSUME NEW t \in Thread, SweepEnds(t)
       PROVE  DataType' /\ ReaderType' /\ CallType' /\ WorkType'
  <2>1. CallType' /\ WorkType'
    BY <1>14, ReturnType DEF SweepEnds, WorkType
  <2>2. sweep \in Sweep
    BY <1>14 DEF SweepEnds, WorkType, DataType
  <2>3. entries' \in Seq(Entry) /\ pathIndex' \in [Path -> Nat]
    BY <1>14, <2>2 DEF SweepEnds, Sweep
  <2>4. ReaderType'
    BY <1>14, DetachedType DEF SweepEnds, ReaderType
  <2>. QED BY <1>14, <2>1, <2>3, <2>4 DEF SweepEnds, DataType
<1>15. ASSUME NEW t \in Thread, Snapshot(t)
       PROVE  DataType' /\ ReaderType' /\ CallType' /\ WorkType'
  <2>1. CallType' /\ WorkType'
    BY <1>15, GotoType DEF Snapshot, CallType, PC
  <2>. QED BY <1>15, <2>1 DEF Snapshot, DataType, ReaderType, Reader
<1>16. ASSUME NEW t \in Thread, QueryFails(t)
       PROVE  DataType' /\ ReaderType' /\ CallType' /\ WorkType'
  <2>1. CallType' /\ WorkType'
    BY <1>16, ReturnWork DEF QueryFails
  <2>. QED BY <1>16, <2>1 DEF QueryFails, NoReader, DataType, ReaderType, Reader
<1>17. ASSUME NEW t \in Thread, ReadHalf(t)
       PROVE  DataType' /\ ReaderType' /\ CallType' /\ WorkType'
  <2>1. Element(t) \in Entry
    BY <1>17 DEF ReadHalf, Ranging, Element, ReaderType, Reader
  <2>2. reader' = [reader EXCEPT ![t] = [@ EXCEPT !.half = Element(t)]]
    BY <1>17 DEF ReadHalf
  <2>3. ReaderType'
    BY <2>1, <2>2 DEF ReaderType, Reader
  <2>. QED BY <1>17, <2>3 DEF ReadHalf, DataType, CallType, WorkType
<1>18. ASSUME NEW t \in Thread, ReadRest(t)
       PROVE  DataType' /\ ReaderType' /\ CallType' /\ WorkType'
  <2>1. Element(t) \in Entry /\ reader[t].half \in Entry
    BY <1>18 DEF ReadRest, Ranging, Element, ReaderType, Reader
  <2>2. PICK e \in {[Element(t) EXCEPT !.stamp = reader[t].half.stamp],
                   [Element(t) EXCEPT !.vector = reader[t].half.vector]} :
          /\ reader' = [reader EXCEPT ![t] =
                          [of |-> @.of, live |-> @.live, half |-> NoHalf,
                           got |-> Append(@.got, e)]]
          /\ mixed' = IF call[t] # "Search" /\ e \notin {reader[t].half, Element(t)}
                      THEN mixed \cup {e.path} ELSE mixed
    BY <1>18 DEF ReadRest
  <2>3. e \in Entry
    BY <2>1, <2>2 DEF Entry
  <2>4. ReaderType'
    BY <2>2, <2>3 DEF ReaderType, Reader
  <2>5. mixed' \subseteq Path
    BY <2>2, <2>3 DEF Entry, DataType
  <2>. QED BY <1>18, <2>4, <2>5 DEF ReadRest, DataType, CallType, WorkType
<1>19. ASSUME NEW t \in Thread, RangeEnds(t)
       PROVE  DataType' /\ ReaderType' /\ CallType' /\ WorkType'
  <2>1. CASE call[t] = "Search"
    <3>1. CallType' /\ WorkType'
      BY <1>19, <2>1, ReturnWork DEF RangeEnds
    <3>2. ReaderType'
      BY <1>19, <2>1, NoReaderType DEF RangeEnds, ReaderType
    <3>. QED BY <1>19, <3>1, <3>2 DEF RangeEnds, DataType
  <2>2. CASE call[t] # "Search"
    <3>1. CallType' /\ WorkType'
      BY <1>19, <2>2, GotoType DEF RangeEnds, CallType, PC
    <3>. QED BY <1>19, <2>2, <3>1 DEF RangeEnds, DataType, ReaderType
  <2>. QED BY <2>1, <2>2
<1>20. ASSUME NEW t \in Thread, NEW d \in Seq(Entry) \cup {NoFile, Emptied, Torn}, Saved(t, d)
       PROVE  DataType' /\ ReaderType' /\ CallType' /\ WorkType'
  <2>1. CallType' /\ WorkType'
    BY <1>20, ReturnWork DEF Saved
  <2>. QED BY <1>20, <2>1 DEF Saved, NoReader, DataType, ReaderType, Reader
<1>21. ASSUME NEW t \in Thread, OpenIndexFile(t)
       PROVE  DataType' /\ ReaderType' /\ CallType' /\ WorkType'
  <2>1. CallType' /\ WorkType'
    BY <1>21, GotoType DEF OpenIndexFile, CallType, PC
  <2>. QED BY <1>21, <2>1 DEF OpenIndexFile, DataType, ReaderType
<1>22. CASE Crash
  <2>1. DataType'
    <3>1. disk' \in {disk, Torn} /\ entries' = << >> /\ pathIndex' = [q \in Path |-> 0]
      BY <1>22 DEF Crash
    <3>2. UNCHANGED <<there, content, mixed>> /\ up' = FALSE /\ sweep' = NoSweep
      BY <1>22 DEF Crash
    <3>3. pathIndex' \in [Path -> Nat]
      BY <3>1
    <3>4. entries' \in Seq(Entry) /\ disk' \in Seq(Entry) \cup {NoFile, Emptied, Torn}
      BY <3>1 DEF DataType
    <3>. QED BY <3>2, <3>3, <3>4 DEF DataType
  <2>2. ReaderType'
    BY <1>22, NoReaderType DEF Crash, ReaderType
  <2>3. /\ pc' = [t \in Thread |-> "idle"]
        /\ call' = [t \in Thread |-> "none"]
        /\ todo' = [t \in Thread |-> {}]
        /\ job' = [t \in Thread |-> NoJob]
    BY <1>22 DEF Crash
  <2>4. CallType' /\ WorkType'
    BY <2>3 DEF NoJob, CallType, WorkType, PC
  <2>. QED BY <2>1, <2>2, <2>4
<1>23. CASE New
  <2>1. entries' \in Seq(Entry)
    BY <1>23 DEF New, DataType
  <2>2. pathIndex' \in [Path -> Nat]
    BY <1>23, <2>1, PositionsType DEF New
  <2>. QED BY <1>23, <2>1, <2>2 DEF New, DataType, ReaderType, CallType, WorkType
<1>24. CASE DiscardIndexFile
  BY <1>24 DEF DiscardIndexFile, DataType, ReaderType, CallType, WorkType
<1>. QED
  BY <1>1, <1>2, <1>3, <1>4, <1>5, <1>6, <1>7, <1>8, <1>9, <1>10, <1>11, <1>12, <1>13, <1>14,
     <1>15, <1>16, <1>17, <1>18, <1>19, Writes, <1>20, <1>21, <1>22, <1>23, <1>24
  DEF Next, Step

-----------------------------------------------------------------------------
\* What is done to a sequence of entries, and what its readers then see.
LEMMA FindsUnique ==
  ASSUME NEW ix, NEW es, Finds(ix, es)
  PROVE  OnePerPath(es)
BY DEF Finds, OnePerPath

LEMMA FindsUpdated ==
  ASSUME NEW ix, NEW es \in Seq(Entry), Finds(ix, es),
         NEW i \in DOMAIN es, NEW e \in Entry, e.path = es[i].path
  PROVE  Finds(ix, [es EXCEPT ![i] = e])
<1>1. /\ DOMAIN [es EXCEPT ![i] = e] = DOMAIN es
      /\ \A k \in DOMAIN es : [es EXCEPT ![i] = e][k].path = es[k].path
  OBVIOUS
<1>. QED BY <1>1 DEF Finds

LEMMA FindsAppended ==
  ASSUME NEW ix \in [Path -> Nat], NEW es \in Seq(Entry), Finds(ix, es),
         NEW e \in Entry, \A i \in DOMAIN es : es[i].path # e.path
  PROVE  Finds([ix EXCEPT ![e.path] = Len(es) + 1], Append(es, e))
<1>. DEFINE a == Append(es, e)
            jx == [ix EXCEPT ![e.path] = Len(es) + 1]
<1>1. /\ DOMAIN a = 1 .. Len(es) + 1 /\ DOMAIN es = 1 .. Len(es) /\ Len(es) \in Nat
      /\ a[Len(es) + 1] = e
      /\ \A i \in DOMAIN es : a[i] = es[i]
  BY Appended
<1>2. e.path \in Path /\ \A i \in DOMAIN es : es[i].path \in Path
  <2>1. \A i \in DOMAIN es : es[i] \in Entry
    OBVIOUS
  <2>. QED BY <2>1 DEF Entry
<1>3. jx[e.path] = Len(es) + 1 /\ \A p \in Path \ {e.path} : jx[p] = ix[p]
  BY <1>2
<1>4. \A i \in DOMAIN a : i \in DOMAIN es \/ i = Len(es) + 1
  BY <1>1
<1>5. DOMAIN es \subseteq DOMAIN a /\ Len(es) + 1 \in DOMAIN a
  BY <1>1
<1>. HIDE DEF a, jx
<1>6. \A i \in DOMAIN a : jx[a[i].path] = i
  BY <1>1, <1>2, <1>3, <1>4 DEF Finds
<1>7. \A p \in Path : jx[p] # 0 => jx[p] \in DOMAIN a /\ a[jx[p]].path = p
  <2>1. ASSUME NEW p \in Path, jx[p] # 0, p # e.path
        PROVE  jx[p] \in DOMAIN a /\ a[jx[p]].path = p
    BY <1>1, <1>3, <1>5, <2>1 DEF Finds
  <2>. QED BY <1>1, <1>3, <1>5, <2>1
<1>. QED BY <1>6, <1>7 DEF Finds, a, jx

LEMMA FollowsUpdated ==
  ASSUME NEW r \in Reader, NEW es \in Seq(Entry), Follows(r, es),
         NEW i \in DOMAIN es, NEW e \in Entry, e.path = es[i].path
  PROVE  /\ r.live /\ i \in DOMAIN r.of =>
              Follows([r EXCEPT !.of = [@ EXCEPT ![i] = e]], [es EXCEPT ![i] = e])
         /\ ~(r.live /\ i \in DOMAIN r.of) => Follows(r, [es EXCEPT ![i] = e])
<1>1. /\ DOMAIN [es EXCEPT ![i] = e] = DOMAIN es
      /\ \A k \in DOMAIN es : [es EXCEPT ![i] = e][k].path = es[k].path
  OBVIOUS
<1>2. Follows(r, [es EXCEPT ![i] = e])
  BY <1>1 DEF Follows
<1>3. ASSUME r.live, i \in DOMAIN r.of
      PROVE  Follows([r EXCEPT !.of = [@ EXCEPT ![i] = e]], [es EXCEPT ![i] = e])
  <2>. DEFINE f == [r.of EXCEPT ![i] = e]
              q == [r EXCEPT !.of = f]
  <2>1. r.of \in Seq(Entry) /\ r.got \in Seq(Entry)
    BY DEF Reader
  <2>2. r.of[i].path = e.path
    BY <1>3 DEF Follows
  <2>3. /\ DOMAIN f = DOMAIN r.of /\ Len(f) = Len(r.of)
        /\ \A k \in DOMAIN r.of : f[k].path = r.of[k].path
    BY <1>3, <2>1, <2>2
  <2>4. q.of = f /\ q.got = r.got /\ q.half = r.half /\ q.live = r.live
    BY DEF Reader
  <2>5. Len(r.got) < Len(r.of) => Len(r.got) + 1 \in DOMAIN r.of
    BY <2>1
  <2>6. \A k \in DOMAIN r.got : k \in DOMAIN r.of
    BY <2>1 DEF Follows
  <2>. HIDE DEF f, q
  <2>7. Follows(q, [es EXCEPT ![i] = e])
    BY <1>1, <1>3, <2>3, <2>4, <2>5, <2>6 DEF Follows, OnePerPath
  <2>. QED BY <2>7 DEF q, f
<1>. QED BY <1>2, <1>3

LEMMA FollowsAppended ==
  ASSUME NEW r, NEW es \in Seq(Entry), Follows(r, es), NEW e \in Entry
  PROVE  Follows(r, Append(es, e))
<1>1. /\ DOMAIN es \subseteq DOMAIN Append(es, e)
      /\ \A i \in DOMAIN es : Append(es, e)[i] = es[i]
  BY Appended
<1>. QED BY <1>1 DEF Follows

LEMMA FollowsDetached ==
  ASSUME NEW r \in Reader, NEW es, Follows(r, es), NEW fs
  PROVE  Follows([r EXCEPT !.live = FALSE], fs)
<1>. DEFINE q == [r EXCEPT !.live = FALSE]
<1>1. q.of = r.of /\ q.got = r.got /\ q.half = r.half /\ q.live = FALSE
  BY DEF Reader
<1>. HIDE DEF q
<1>2. Follows(q, fs)
  BY <1>1 DEF Follows
<1>. QED BY <1>2 DEF q

LEMMA FollowsNothing ==
  ASSUME NEW es
  PROVE  Follows(NoReader, es)
BY DEF Follows, NoReader, OnePerPath

\* What has been read has one entry per path, and so a save writes one.
LEMMA GotUnique ==
  ASSUME NEW r \in Reader, NEW es, Follows(r, es)
  PROVE  OnePerPath(r.got)
<1>1. r.of \in Seq(Entry) /\ r.got \in Seq(Entry)
  BY DEF Reader
<1>2. \A k \in DOMAIN r.got : k \in DOMAIN r.of
  BY <1>1 DEF Follows
<1>. QED BY <1>2 DEF Follows, OnePerPath

\* A sweep goes on.
LEMMA SweepsPast ==
  ASSUME NEW s \in Sweep, NEW es \in Seq(Entry), SweepsOver(s, es), s.at < Len(es)
  PROVE  SweepsOver([at |-> s.at + 1, kept |-> s.kept, index |-> s.index], es)
<1>1. s.at \in Nat /\ Len(es) \in Nat
  BY DEF Sweep
<1>2. 1 .. s.at \subseteq 1 .. s.at + 1 /\ s.at + 1 <= Len(es)
  BY <1>1
<1>. QED BY <1>2 DEF SweepsOver

LEMMA SweepsKept ==
  ASSUME NEW s \in Sweep, NEW es \in Seq(Entry), SweepsOver(s, es), s.at < Len(es),
         OnePerPath(es), NEW e, e = es[s.at + 1]
  PROVE  SweepsOver([at |-> s.at + 1, kept |-> Append(s.kept, e),
                     index |-> [s.index EXCEPT ![e.path] = Len(Append(s.kept, e))]], es)
<1>1. /\ s.at \in Nat /\ Len(es) \in Nat
      /\ s.kept \in Seq(Entry) /\ s.index \in [Path -> Nat]
  BY DEF Sweep
<1>2. s.at + 1 \in DOMAIN es /\ s.at + 1 <= Len(es)
  BY <1>1
<1>3. e \in Entry
  BY <1>2
<1>4. \A i \in 1 .. s.at : i \in DOMAIN es /\ i # s.at + 1
  BY <1>1
<1>5. \A k \in DOMAIN s.kept : s.kept[k].path # e.path
  BY <1>2, <1>4 DEF SweepsOver, OnePerPath
<1>. DEFINE a == Append(s.kept, e)
            ix == [s.index EXCEPT ![e.path] = Len(a)]
<1>6. /\ Len(a) = Len(s.kept) + 1
      /\ \A k \in DOMAIN a : k \in DOMAIN s.kept \/ k = Len(s.kept) + 1
      /\ \A k \in DOMAIN s.kept : a[k] = s.kept[k]
      /\ a[Len(s.kept) + 1] = e
  BY <1>1, <1>3, Appended
<1>7. Finds(ix, a)
  BY <1>1, <1>3, <1>5, <1>6, FindsAppended DEF SweepsOver
<1>8. 1 .. s.at \subseteq 1 .. s.at + 1 /\ s.at + 1 \in 1 .. s.at + 1
  BY <1>1
<1>9. \A k \in DOMAIN a : \E i \in 1 .. s.at + 1 : a[k].path = es[i].path
  BY <1>6, <1>8 DEF SweepsOver
<1>. HIDE DEF a, ix
<1>10. SweepsOver([at |-> s.at + 1, kept |-> a, index |-> ix], es)
  BY <1>2, <1>7, <1>9 DEF SweepsOver
<1>. QED BY <1>10 DEF a, ix

\* loadIndex finds every entry of a file that has one per path.
LEMMA LoadedFinds ==
  ASSUME NEW es \in Seq(Entry), OnePerPath(es)
  PROVE  Finds(Positions(es), es)
<1>1. /\ \A i \in DOMAIN es : es[i].path \in Path /\ i \in Nat /\ i # 0 /\ i <= i
  <2>1. \A i \in DOMAIN es : es[i] \in Entry /\ i \in Nat /\ i # 0 /\ i <= i
    OBVIOUS
  <2>. QED BY <2>1 DEF Entry
<1>2. \A i \in DOMAIN es : Positions(es)[es[i].path] = i
  BY <1>1 DEF Positions, OnePerPath
<1>3. \A p \in Path : Positions(es)[p] # 0 =>
        Positions(es)[p] \in DOMAIN es /\ es[Positions(es)[p]].path = p
  BY DEF Positions
<1>. QED BY <1>2, <1>3 DEF Finds

-----------------------------------------------------------------------------
\* Steps that touch neither the index, its readers nor its file.
LEMMA UniqueQuiet ==
  ASSUME UniqueInv, UNCHANGED <<index, reader, sweep, disk, up>>, up \/ UNCHANGED pc
  PROVE  UniqueInv'
BY DEF UniqueInv, index

\* A call of a process that is up.
LEMMA StepsWhenUp ==
  ASSUME UniqueInv, NEW t \in Thread, pc[t] # "idle"
  PROVE  up
BY DEF UniqueInv

\* One reader does a step of its own.
LEMMA UniqueReader ==
  ASSUME UniqueInv, up, UNCHANGED <<index, sweep, disk, up>>,
         \A u \in Thread : reader'[u] = reader[u] \/ Follows(reader'[u], entries)
  PROVE  UniqueInv'
BY DEF UniqueInv, index

LEMMA UniqueInit == Init => UniqueInv
<1>. SUFFICES ASSUME Init PROVE UniqueInv
  OBVIOUS
<1>1. Finds(pathIndex, entries)
  BY DEF Init, Finds
<1>2. \A t \in Thread : Follows(reader[t], entries)
  BY FollowsNothing DEF Init
<1>. QED BY <1>1, <1>2 DEF Init, UniqueInv, IsSaved

LEMMA UniqueNext ==
  ASSUME TypeOK, UniqueInv, [Next]_vars
  PROVE  UniqueInv'
<1>0. DataType /\ ReaderType /\ CallType /\ WorkType
  BY TypeParts
<1>. USE DEF files, index, local, bounds
<1>1. CASE UNCHANGED vars
  BY <1>1, UniqueQuiet DEF vars
<1>2. ASSUME NEW p \in Path, WriteFile(p) \/ RemoveFile(p)
      PROVE  UniqueInv'
  BY <1>2, UniqueQuiet DEF WriteFile, RemoveFile
<1>3. ASSUME NEW t \in Thread,
             \/ \E p \in Path : IndexFile(t, p) \/ Visit(t, p)
             \/ IndexDir(t) \/ SaveIndex(t) \/ Search(t)
      PROVE  UniqueInv'
  <2>1. pc[t] # "idle" \/ up
    BY <1>3 DEF IndexFile, IndexDir, SaveIndex, Search, Visit, Begin, Goto
  <2>2. UNCHANGED <<index, reader, sweep, disk, up>>
    BY <1>3 DEF IndexFile, IndexDir, SaveIndex, Search, Visit, Begin
  <2>. QED BY <2>1, <2>2, StepsWhenUp, UniqueQuiet
<1>4. ASSUME NEW t \in Thread,
             WalkCancelled(t) \/ WalkEnds(t) \/ Stat(t) \/ CheckChanged(t) \/ ReadFile(t) \/ FileFails(t)
      PROVE  UniqueInv'
  <2>1. pc[t] # "idle"
    BY <1>4 DEF WalkCancelled, WalkEnds, Stat, CheckChanged, ReadFile, FileFails, Goto
  <2>2. UNCHANGED <<index, reader, sweep, disk, up>>
    BY <1>4 DEF WalkCancelled, WalkEnds, Stat, CheckChanged, ReadFile, FileFails
  <2>. QED BY <2>1, <2>2, StepsWhenUp, UniqueQuiet
<1>5. ASSUME NEW t \in Thread, StoreEntry(t)
      PROVE  UniqueInv'
  <2>0. /\ job[t].path \in Path
        /\ NewEntry(t) \in Entry
        /\ NewEntry(t).path = job[t].path
    BY <1>0, <1>5 DEF StoreEntry, NewEntry, Entry, CallType, WorkType
  <2>1. sweep = NoSweep /\ UNCHANGED <<sweep, disk, up>> /\ up
    BY <1>5, StepsWhenUp DEF StoreEntry, Unlocked
  <2>2. entries \in Seq(Entry) /\ pathIndex \in [Path -> Nat]
    BY <1>0 DEF DataType
  <2>3. \A u \in Thread : reader[u] \in Reader /\ Follows(reader[u], entries)
    BY <1>0 DEF ReaderType, UniqueInv
  <2>4. CASE pathIndex[job[t].path] # 0
    <3>. DEFINE i == pathIndex[job[t].path]
    <3>1. /\ entries' = [entries EXCEPT ![i] = NewEntry(t)]
          /\ reader' = Shown(i, NewEntry(t))
          /\ pathIndex' = pathIndex
      BY <1>5, <2>4 DEF StoreEntry
    <3>2. i \in DOMAIN entries /\ NewEntry(t).path = entries[i].path
      BY <2>0, <2>4 DEF UniqueInv, Finds
    <3>. HIDE DEF i
    <3>3. Finds(pathIndex', entries')
      BY <2>0, <2>2, <3>1, <3>2, FindsUpdated DEF UniqueInv
    <3>4. ASSUME NEW u \in Thread
          PROVE  Follows(reader'[u], entries')
      <4>1. CASE reader[u].live /\ i \in DOMAIN reader[u].of
        <5>1. reader'[u] = [reader[u] EXCEPT !.of = [@ EXCEPT ![i] = NewEntry(t)]]
          BY <3>1, <4>1 DEF Shown
        <5>2. Follows([reader[u] EXCEPT !.of = [@ EXCEPT ![i] = NewEntry(t)]],
                      [entries EXCEPT ![i] = NewEntry(t)])
          BY <2>0, <2>2, <2>3, <3>2, <4>1, FollowsUpdated
        <5>. QED BY <3>1, <5>1, <5>2
      <4>2. CASE ~(reader[u].live /\ i \in DOMAIN reader[u].of)
        <5>1. reader'[u] = reader[u]
          BY <3>1, <4>2 DEF Shown
        <5>2. Follows(reader[u], [entries EXCEPT ![i] = NewEntry(t)])
          BY <2>0, <2>2, <2>3, <3>2, <4>2, FollowsUpdated
        <5>. QED BY <3>1, <5>1, <5>2
      <4>. QED BY <4>1, <4>2
    <3>. QED BY <2>1, <3>3, <3>4 DEF UniqueInv
  <2>5. CASE pathIndex[job[t].path] = 0
    <3>1. /\ entries' = Append(entries, NewEntry(t))
          /\ pathIndex' = [pathIndex EXCEPT ![job[t].path] = Len(entries) + 1]
          /\ reader' \in {reader, Detached}
      BY <1>5, <2>5 DEF StoreEntry
    <3>2. \A i \in DOMAIN entries : entries[i].path # NewEntry(t).path
      <4>1. \A i \in DOMAIN entries : i # 0
        BY <2>2
      <4>. QED BY <2>0, <2>5, <4>1 DEF UniqueInv, Finds
    <3>3. Finds(pathIndex', entries')
      BY <2>0, <2>2, <3>1, <3>2, FindsAppended DEF UniqueInv
    <3>4. ASSUME NEW u \in Thread
          PROVE  Follows(reader'[u], entries')
      <4>1. reader'[u] = reader[u] \/ reader'[u] = [reader[u] EXCEPT !.live = FALSE]
        BY <3>1 DEF Detached
      <4>2. Follows(reader[u], entries')
        BY <2>0, <2>2, <2>3, <3>1, FollowsAppended
      <4>3. Follows([reader[u] EXCEPT !.live = FALSE], entries')
        BY <2>3, FollowsDetached
      <4>. QED BY <4>1, <4>2, <4>3
    <3>. QED BY <2>1, <3>3, <3>4 DEF UniqueInv
  <2>. QED BY <2>4, <2>5
<1>6. ASSUME NEW t \in Thread, RemoveStale(t)
      PROVE  UniqueInv'
  <2>1. /\ up /\ UNCHANGED <<index, reader, disk, up>>
        /\ sweep' = [at |-> 0, kept |-> << >>, index |-> [p \in Path |-> 0]]
    BY <1>6 DEF RemoveStale, Begin
  <2>2. SweepsOver(sweep', entries)
    <3>1. 0 <= Len(entries)
      BY <1>0 DEF DataType
    <3>. QED BY <2>1, <3>1 DEF SweepsOver, Finds
  <2>. QED BY <2>1, <2>2 DEF UniqueInv
<1>7. ASSUME NEW t \in Thread, SweepNext(t)
      PROVE  UniqueInv'
  <2>1. /\ sweep \in Sweep /\ SweepsOver(sweep, entries) /\ sweep.at < Len(entries)
        /\ UNCHANGED <<index, reader, disk, up>>
    BY <1>0, <1>7 DEF SweepNext, WorkType, DataType, UniqueInv
  <2>2. up
    BY <1>7, StepsWhenUp DEF SweepNext
  <2>3. SweepsOver(sweep', entries)
    <3>. DEFINE e == entries[sweep.at + 1]
    <3>1. CASE e.path \in there
      <4>1. sweep' = [at |-> sweep.at + 1, kept |-> Append(sweep.kept, e),
                      index |-> [sweep.index EXCEPT ![e.path] = Len(Append(sweep.kept, e))]]
        BY <1>7, <3>1 DEF SweepNext
      <4>2. OnePerPath(entries)
        BY FindsUnique DEF UniqueInv
      <4>. QED BY <1>0, <2>1, <4>1, <4>2, SweepsKept DEF DataType
    <3>2. CASE e.path \notin there
      <4>1. sweep' = [sweep EXCEPT !.at = @ + 1]
        BY <1>7, <3>2 DEF SweepNext
      <4>2. sweep' = [at |-> sweep.at + 1, kept |-> sweep.kept, index |-> sweep.index]
        BY <2>1, <4>1 DEF Sweep
      <4>. QED BY <1>0, <2>1, <4>2, SweepsPast DEF DataType
    <3>. QED BY <3>1, <3>2
  <2>. QED BY <2>1, <2>2, <2>3 DEF UniqueInv
<1>8. ASSUME NEW t \in Thread, SweepEnds(t)
      PROVE  UniqueInv'
  <2>1. sweep \in Sweep /\ sweep # NoSweep
    BY <1>0, <1>8 DEF SweepEnds, WorkType, DataType
  <2>2. /\ entries' = sweep.kept /\ pathIndex' = sweep.index /\ reader' = Detached
        /\ sweep' = NoSweep /\ UNCHANGED <<disk, up>>
    BY <1>8 DEF SweepEnds
  <2>3. up
    BY <1>8, StepsWhenUp DEF SweepEnds
  <2>4. Finds(pathIndex', entries')
    BY <2>1, <2>2 DEF UniqueInv, SweepsOver
  <2>5. ASSUME NEW u \in Thread
        PROVE  Follows(reader'[u], entries')
    BY <1>0, <2>2, FollowsDetached DEF Detached, ReaderType, UniqueInv
  <2>. QED BY <2>2, <2>3, <2>4, <2>5 DEF UniqueInv
<1>9. ASSUME NEW t \in Thread, Snapshot(t)
      PROVE  UniqueInv'
  <2>1. /\ UNCHANGED <<index, sweep, disk, up>> /\ pc[t] # "idle"
        /\ reader' = [reader EXCEPT ![t] =
                        [of |-> entries, live |-> TRUE, half |-> NoHalf, got |-> << >>]]
    BY <1>9 DEF Snapshot, Goto
  <2>2. up
    BY <2>1, StepsWhenUp
  <2>3. Follows([of |-> entries, live |-> TRUE, half |-> NoHalf, got |-> << >>], entries)
    <3>1. OnePerPath(entries)
      BY FindsUnique DEF UniqueInv
    <3>2. 0 <= Len(entries)
      BY <1>0 DEF DataType
    <3>. QED BY <3>1, <3>2 DEF Follows
  <2>4. \A u \in Thread : reader'[u] = reader[u] \/ Follows(reader'[u], entries)
    BY <1>0, <2>1, <2>3 DEF ReaderType
  <2>. QED BY <2>1, <2>2, <2>4, UniqueReader
<1>10. ASSUME NEW t \in Thread, ReadHalf(t)
       PROVE  UniqueInv'
  <2>1. /\ UNCHANGED <<index, sweep, disk, up>> /\ pc[t] # "idle"
        /\ reader' = [reader EXCEPT ![t] = [@ EXCEPT !.half = Element(t)]]
        /\ Len(reader[t].got) < Len(reader[t].of)
    BY <1>10 DEF ReadHalf, Ranging
  <2>2. up
    BY <2>1, StepsWhenUp
  <2>3. reader[t] \in Reader /\ Follows(reader[t], entries)
    BY <1>0 DEF ReaderType, UniqueInv
  <2>. DEFINE q == [reader[t] EXCEPT !.half = Element(t)]
  <2>4. /\ q.of = reader[t].of /\ q.got = reader[t].got /\ q.live = reader[t].live
        /\ q.half = Element(t)
    BY <2>3 DEF Reader
  <2>5. Element(t) = reader[t].of[Len(reader[t].got) + 1]
    BY DEF Element
  <2>6. reader'[t] = q /\ \A u \in Thread \ {t} : reader'[u] = reader[u]
    BY <1>0, <2>1 DEF ReaderType
  <2>. HIDE DEF q
  <2>7. Follows(q, entries)
    BY <2>1, <2>3, <2>4, <2>5 DEF Follows
  <2>. QED BY <2>1, <2>2, <2>6, <2>7, UniqueReader
<1>11. ASSUME NEW t \in Thread, ReadRest(t)
       PROVE  UniqueInv'
  <2>1. PICK e \in {[Element(t) EXCEPT !.stamp = reader[t].half.stamp],
                   [Element(t) EXCEPT !.vector = reader[t].half.vector]} :
          reader' = [reader EXCEPT ![t] =
                       [of |-> @.of, live |-> @.live, half |-> NoHalf,
                        got |-> Append(@.got, e)]]
    BY <1>11 DEF ReadRest
  <2>2. /\ UNCHANGED <<index, sweep, disk, up>> /\ pc[t] # "idle"
        /\ Len(reader[t].got) < Len(reader[t].of)
    BY <1>11 DEF ReadRest, Ranging
  <2>3. up
    BY <2>2, StepsWhenUp
  <2>4. /\ reader[t] \in Reader /\ Follows(reader[t], entries)
        /\ reader[t].of \in Seq(Entry) /\ reader[t].got \in Seq(Entry)
    BY <1>0 DEF ReaderType, Reader, UniqueInv
  <2>5. Element(t) \in Entry /\ Element(t) = reader[t].of[Len(reader[t].got) + 1]
    BY <2>2, <2>4 DEF Element
  <2>6. e.path = reader[t].of[Len(reader[t].got) + 1].path
    BY <2>1, <2>5 DEF Entry
  <2>. DEFINE g == Append(reader[t].got, e)
              q == [of |-> reader[t].of, live |-> reader[t].live, half |-> NoHalf, got |-> g]
  <2>7. /\ reader'[t] = q /\ \A u \in Thread \ {t} : reader'[u] = reader[u]
    BY <1>0, <2>1 DEF ReaderType
  <2>8. /\ Len(g) = Len(reader[t].got) + 1 /\ Len(g) <= Len(reader[t].of)
        /\ \A i \in DOMAIN g : i \in DOMAIN reader[t].got \/ i = Len(reader[t].got) + 1
        /\ \A i \in DOMAIN reader[t].got : g[i] = reader[t].got[i]
        /\ g[Len(reader[t].got) + 1] = e
    BY <2>2, <2>4
  <2>. HIDE DEF g
  <2>9. Follows(q, entries)
    BY <2>4, <2>6, <2>8 DEF Follows
  <2>. QED BY <2>2, <2>3, <2>7, <2>9, UniqueReader
<1>12. ASSUME NEW t \in Thread, QueryFails(t) \/ RangeEnds(t)
       PROVE  UniqueInv'
  <2>1. /\ UNCHANGED <<index, sweep, disk, up>> /\ pc[t] # "idle"
        /\ reader' = reader \/ reader' = [reader EXCEPT ![t] = NoReader]
    BY <1>12 DEF QueryFails, RangeEnds
  <2>2. \A u \in Thread : reader'[u] = reader[u] \/ Follows(reader'[u], entries)
    BY <1>0, <2>1, FollowsNothing DEF ReaderType
  <2>. QED BY <2>1, <2>2, StepsWhenUp, UniqueReader
<1>13. ASSUME NEW t \in Thread, OpenIndexFile(t)
       PROVE  UniqueInv'
  <2>1. UNCHANGED <<index, reader, sweep, up>> /\ disk' = Emptied /\ pc[t] # "idle"
    BY <1>13 DEF OpenIndexFile, Goto
  <2>. QED BY <2>1, StepsWhenUp DEF UniqueInv, IsSaved
<1>14. ASSUME NEW t \in Thread, OpenFails(t) \/ WriteIndexFile(t) \/ WriteFails(t)
       PROVE  UniqueInv'
  <2>1. /\ UNCHANGED <<index, sweep, up>> /\ pc[t] # "idle"
        /\ reader' = [reader EXCEPT ![t] = NoReader]
        /\ disk' \in {disk, Torn, reader[t].got}
    BY <1>14 DEF OpenFails, WriteIndexFile, WriteFails, Saved
  <2>2. IsSaved(disk') => OnePerPath(disk')
    <3>1. OnePerPath(reader[t].got)
      BY <1>0, GotUnique DEF ReaderType, UniqueInv
    <3>. QED BY <2>1, <3>1 DEF UniqueInv, IsSaved
  <2>3. \A u \in Thread : Follows(reader'[u], entries)
    BY <1>0, <2>1, FollowsNothing DEF ReaderType, UniqueInv
  <2>4. up
    BY <2>1, StepsWhenUp
  <2>. QED BY <2>1, <2>2, <2>3, <2>4 DEF UniqueInv
<1>15. CASE Crash
  <2>1. /\ entries' = << >> /\ pathIndex' = [p \in Path |-> 0]
        /\ reader' = [t \in Thread |-> NoReader] /\ pc' = [t \in Thread |-> "idle"]
        /\ sweep' = NoSweep /\ disk' \in {disk, Torn}
    BY <1>15 DEF Crash
  <2>2. Finds(pathIndex', entries')
    BY <2>1 DEF Finds
  <2>3. \A t \in Thread : Follows(reader'[t], entries') /\ ~reader'[t].live
    BY <2>1, FollowsNothing DEF NoReader
  <2>4. IsSaved(disk') => OnePerPath(disk')
    BY <2>1 DEF UniqueInv, IsSaved
  <2>. QED BY <2>1, <2>2, <2>3, <2>4 DEF UniqueInv
<1>16. CASE New
  <2>1. /\ UNCHANGED <<disk, reader, sweep>> /\ up' = TRUE /\ ~up
        /\ pathIndex' = Positions(entries')
        /\ entries' = IF disk = NoFile THEN << >> ELSE disk
        /\ disk \notin {Emptied, Torn}
    BY <1>16 DEF New
  <2>2. entries' \in Seq(Entry) /\ OnePerPath(entries')
    BY <1>0, <2>1 DEF DataType, UniqueInv, IsSaved, OnePerPath
  <2>3. Finds(pathIndex', entries')
    BY <2>1, <2>2, LoadedFinds
  <2>4. \A t \in Thread : Follows(reader'[t], entries')
    BY <2>1 DEF UniqueInv, Follows
  <2>. QED BY <2>1, <2>3, <2>4 DEF UniqueInv
<1>17. CASE DiscardIndexFile
  <2>1. UNCHANGED <<entries, pathIndex, reader, sweep, pc, up>>
    BY <1>17 DEF DiscardIndexFile
  <2>2. disk' = NoFile
    BY <1>17 DEF DiscardIndexFile
  <2>3. ~up => sweep = NoSweep /\ \A t \in Thread : pc[t] = "idle" /\ ~reader[t].live
    BY DEF UniqueInv
  <2>. QED BY <2>1, <2>2, <2>3 DEF UniqueInv, IsSaved
<1>. QED
  BY <1>1, <1>2, <1>3, <1>4, <1>5, <1>6, <1>7, <1>8, <1>9, <1>10, <1>11, <1>12, <1>13, <1>14,
     <1>15, <1>16, <1>17
  DEF Next, Step

-----------------------------------------------------------------------------
\* The variables keep their types, whatever the calls do at once.
THEOREM TypeCorrect == Spec => []TypeOK
<1>1. Init => TypeOK
  BY TypeInit
<1>2. TypeOK /\ [Next]_vars => TypeOK'
  BY TypeNext
<1>. QED BY <1>1, <1>2, PTL DEF Spec

\* IndexFile, RemoveStale, searches, saves and restarts leave one entry for a path,
\* in memory, in what a search or a save has read, and in the index file.
THEOREM NoDuplicates == Spec => []OneEntryPerPath
<1>1. Init => UniqueInv
  BY UniqueInit
<1>2. TypeOK /\ UniqueInv /\ [Next]_vars => UniqueInv'
  BY UniqueNext
<1>3. TypeOK /\ UniqueInv => OneEntryPerPath
  <2>. SUFFICES ASSUME TypeOK, UniqueInv PROVE OneEntryPerPath
    OBVIOUS
  <2>1. OnePerPath(entries)
    BY FindsUnique DEF UniqueInv
  <2>2. \A t \in Thread : OnePerPath(reader[t].got)
    BY GotUnique DEF UniqueInv, TypeOK
  <2>. QED BY <2>1, <2>2 DEF UniqueInv, Finds, IsSaved, OneEntryPerPath
<1>4. Spec => []TypeOK
  BY TypeCorrect
<1>. QED BY <1>1, <1>2, <1>3, <1>4, PTL DEF Spec

-----------------------------------------------------------------------------
\* Files get newer, and more paths are mixed.
LEMMA SoundLater ==
  ASSUME TypeOK, SoundInv, NEW torn, NEW version \in [Path -> Nat],
         mixed \subseteq torn, \A p \in Path : content[p] <= version[p]
  PROVE  SoundAt(torn, version)
<1>1. ASSUME NEW e \in Entry, Sound(e, mixed, content)
      PROVE  Sound(e, torn, version)
  <2>1. /\ e.path \in Path /\ e.stamp \in Nat /\ e.vector \in Nat
        /\ content[e.path] \in Nat /\ version[e.path] \in Nat
        /\ content[e.path] <= version[e.path]
    BY DEF Entry, TypeOK
  <2>. QED BY <1>1, <2>1 DEF Sound
<1>2. ASSUME NEW es \in Seq(Entry), AllSound(es, mixed, content)
      PROVE  AllSound(es, torn, version)
  <2>1. \A i \in DOMAIN es : es[i] \in Entry
    OBVIOUS
  <2>. QED BY <1>1, <1>2, <2>1 DEF AllSound
<1>3. /\ entries \in Seq(Entry)
      /\ \A t \in Thread : /\ reader[t].of \in Seq(Entry) /\ reader[t].got \in Seq(Entry)
                           /\ reader[t].half # NoHalf => reader[t].half \in Entry
      /\ sweep # NoSweep => sweep.kept \in Seq(Entry)
      /\ IsSaved(disk) => disk \in Seq(Entry)
  BY DEF TypeOK, Reader, Sweep, IsSaved
<1>. QED BY <1>1, <1>2, <1>3 DEF SoundInv, SoundAt

LEMMA AppendSound ==
  ASSUME NEW es \in Seq(Entry), NEW e \in Entry, NEW torn, NEW version,
         AllSound(es, torn, version), Sound(e, torn, version)
  PROVE  AllSound(Append(es, e), torn, version)
<1>1. /\ \A i \in DOMAIN Append(es, e) : i \in DOMAIN es \/ i = Len(es) + 1
      /\ \A i \in DOMAIN es : Append(es, e)[i] = es[i]
      /\ Append(es, e)[Len(es) + 1] = e
  BY Appended
<1>. QED BY <1>1 DEF AllSound

LEMMA UpdateSound ==
  ASSUME NEW es \in Seq(Entry), NEW e \in Entry, NEW i \in DOMAIN es, NEW torn, NEW version,
         AllSound(es, torn, version), Sound(e, torn, version)
  PROVE  AllSound([es EXCEPT ![i] = e], torn, version)
<1>1. /\ DOMAIN [es EXCEPT ![i] = e] = DOMAIN es
      /\ [es EXCEPT ![i] = e][i] = e
      /\ \A k \in DOMAIN es : k # i => [es EXCEPT ![i] = e][k] = es[k]
  BY Updated
<1>. QED BY <1>1 DEF AllSound

LEMMA NoReaderSound ==
  ASSUME NEW torn, NEW version
  PROVE  /\ AllSound(NoReader.of, torn, version) /\ AllSound(NoReader.got, torn, version)
         /\ NoReader.half = NoHalf
BY DEF NoReader, AllSound

-----------------------------------------------------------------------------
\* A goroutine at work on a file saw it before it read it; searches save nothing.
LEMMA JobInit == Init => JobInv
BY DEF Init, JobInv

LEMMA ContentGrows ==
  ASSUME TypeOK, [Next]_vars
  PROVE  \A p \in Path : content[p] \in Nat /\ content[p] <= content'[p]
<1>. USE DEF files
<1>1. CASE UNCHANGED content
  BY <1>1 DEF TypeOK
<1>2. ASSUME NEW p \in Path, WriteFile(p)
      PROVE  \A q \in Path : content[q] \in Nat /\ content[q] <= content'[q]
  BY <1>2 DEF WriteFile, TypeOK
<1>3. ASSUME NEW t \in Thread, Step(t)
      PROVE  UNCHANGED content
  BY <1>3 DEF Step, Visit, WalkCancelled, WalkEnds, Stat, CheckChanged, ReadFile, StoreEntry,
     FileFails, SweepNext, SweepEnds, Snapshot, QueryFails, ReadHalf, ReadRest, RangeEnds,
     OpenIndexFile, OpenFails, WriteIndexFile, WriteFails, Saved
<1>4. ASSUME NEW t \in Thread,
             \/ \E p \in Path : IndexFile(t, p)
             \/ IndexDir(t) \/ SaveIndex(t) \/ Search(t) \/ RemoveStale(t)
      PROVE  UNCHANGED content
  BY <1>4 DEF IndexFile, IndexDir, SaveIndex, Search, RemoveStale, Begin
<1>. QED BY <1>1, <1>2, <1>3, <1>4 DEF Next, vars, RemoveFile, Crash, New, DiscardIndexFile

\* One goroutine t goes to another place, the others stay.
LEMMA JobStays ==
  ASSUME JobInv, TypeOK, [Next]_vars, NEW u \in Thread,
         UNCHANGED <<pc[u], job[u], call[u]>>
  PROVE  /\ pc'[u] \in {"check", "read", "embed"} => job'[u].stat <= content'[job'[u].path]
         /\ pc'[u] = "embed" => job'[u].stat <= job'[u].seen /\ job'[u].seen <= content'[job'[u].path]
         /\ call'[u] = "Search" => pc'[u] \in {"snapshot", "range"}
<1>1. /\ job[u].stat \in Nat /\ job[u].seen \in Nat
      /\ pc[u] \in {"check", "read", "embed"} => job[u].path \in Path
  BY DEF TypeOK
<1>2. TypeOK'
  BY TypeNext
<1>3. \A p \in Path : content'[p] \in Nat
  BY <1>2 DEF TypeOK
<1>. QED BY <1>1, <1>3, ContentGrows DEF JobInv

JobAt(t) ==
  /\ pc[t] \in {"check", "read", "embed"} => job[t].stat <= content[job[t].path]
  /\ pc[t] = "embed" => job[t].stat <= job[t].seen /\ job[t].seen <= content[job[t].path]
  /\ call[t] = "Search" => pc[t] \in {"snapshot", "range"}

\* A step of t: only t moves.
Moves(t) ==
  /\ \A u \in Thread \ {t} : pc'[u] = pc[u] /\ job'[u] = job[u] /\ call'[u] = call[u]
  /\ JobAt(t)'

LEMMA ReturnMoves ==
  ASSUME TypeOK, JobInv, NEW t \in Thread, Return(t) \/ FileDone(t)
  PROVE  Moves(t)
<1>1. CASE Return(t)
  BY <1>1 DEF Return, Moves, JobAt, TypeOK
<1>2. CASE FileDone(t) /\ call[t] = "IndexDir"
  BY <1>2 DEF FileDone, Moves, JobAt, TypeOK
<1>. QED BY <1>1, <1>2 DEF FileDone

LEMMA BeginMoves ==
  ASSUME TypeOK, JobInv, NEW t \in Thread, NEW m, NEW b \in {"stat", "walk", "snapshot", "sweep"},
         Begin(t, m, b), m = "Search" => b = "snapshot",
         UNCHANGED job \/ \E p \in Path : OnFile(t, p)
  PROVE  Moves(t)
<1>1. /\ pc' = [pc EXCEPT ![t] = b]
      /\ call' = [call EXCEPT ![t] = m]
  BY DEF Begin, Goto
<1>2. \A u \in Thread \ {t} : job'[u] = job[u]
  BY DEF OnFile, TypeOK
<1>. QED BY <1>1, <1>2 DEF Moves, JobAt, TypeOK

\* Sweeps, readers and writers of the index file do not work on a file.
LEMMA GotoMoves ==
  ASSUME TypeOK, JobInv, NEW t \in Thread, NEW a,
         NEW b \in {"walk", "stat", "snapshot", "range", "open", "write"},
         Goto(t, a, b), UNCHANGED call,
         call[t] = "Search" => b = "range",
         \A u \in Thread \ {t} : job'[u] = job[u]
  PROVE  Moves(t)
BY DEF Goto, Moves, JobAt, TypeOK

LEMMA JobNext ==
  ASSUME TypeOK, JobInv, [Next]_vars
  PROVE  JobInv'
<1>. USE DEF files, index, local, bounds
<1>1. CASE UNCHANGED <<pc, job, call>>
  BY <1>1, JobStays DEF JobInv
<1>2. ASSUME NEW t \in Thread, Moves(t)
      PROVE  JobInv'
  <2>1. ASSUME NEW u \in Thread, u # t
        PROVE  UNCHANGED <<pc[u], job[u], call[u]>>
    BY <1>2, <2>1 DEF Moves
  <2>2. ASSUME NEW u \in Thread, u # t
        PROVE  /\ pc'[u] \in {"check", "read", "embed"} => job'[u].stat <= content'[job'[u].path]
               /\ pc'[u] = "embed" => job'[u].stat <= job'[u].seen /\ job'[u].seen <= content'[job'[u].path]
               /\ call'[u] = "Search" => pc'[u] \in {"snapshot", "range"}
    BY <2>1, <2>2, JobStays
  <2>. QED BY <1>2, <2>2 DEF Moves, JobAt, JobInv
<1>3. ASSUME NEW t \in Thread,
             \/ \E p \in Path : IndexFile(t, p)
             \/ IndexDir(t) \/ SaveIndex(t) \/ Search(t) \/ RemoveStale(t)
      PROVE  Moves(t)
  BY <1>3, BeginMoves DEF IndexFile, IndexDir, SaveIndex, Search, RemoveStale
<1>4. ASSUME NEW t \in Thread, \E p \in Path : Visit(t, p)
      PROVE  Moves(t)
  <2>1. Goto(t, "walk", "stat") /\ UNCHANGED call /\ \E p \in Path : OnFile(t, p)
    BY <1>4 DEF Visit
  <2>. QED BY <2>1, GotoMoves DEF Goto, OnFile, JobInv, TypeOK
<1>5. ASSUME NEW t \in Thread,
             \/ WalkCancelled(t) \/ FileFails(t) \/ StoreEntry(t) \/ SweepEnds(t) \/ QueryFails(t)
             \/ OpenFails(t) \/ WriteIndexFile(t) \/ WriteFails(t)
             \/ CheckChanged(t) /\ Indexed(t)
             \/ RangeEnds(t) /\ call[t] = "Search"
      PROVE  Moves(t)
  <2>1. Return(t) \/ FileDone(t)
    BY <1>5 DEF WalkCancelled, FileFails, StoreEntry, SweepEnds, QueryFails, OpenFails,
       WriteIndexFile, WriteFails, Saved, CheckChanged, RangeEnds
  <2>. QED BY <2>1, ReturnMoves
<1>6. ASSUME NEW t \in Thread,
             \/ WalkEnds(t) \/ Snapshot(t) \/ OpenIndexFile(t)
             \/ RangeEnds(t) /\ call[t] # "Search"
      PROVE  Moves(t)
  <2>1. \E b \in {"snapshot", "range", "open", "write"} :
          /\ \E a \in {"walk", "snapshot", "range", "open"} :
               Goto(t, a, b) /\ (call[t] = "Search" => b = "range")
          /\ UNCHANGED <<call, job>>
    BY <1>6 DEF WalkEnds, Snapshot, OpenIndexFile, RangeEnds, Goto, JobInv
  <2>. QED BY <2>1, GotoMoves
<1>7. ASSUME NEW t \in Thread, Stat(t)
      PROVE  Moves(t)
  <2>1. /\ job' = [job EXCEPT ![t] = [@ EXCEPT !.stat = content[job[t].path]]]
        /\ pc' = [pc EXCEPT ![t] = "check"] /\ pc[t] = "stat" /\ UNCHANGED <<call, content>>
    BY <1>7 DEF Stat, Goto
  <2>2. job[t] \in [path : Path \cup {0}, stat : Nat, seen : Nat] /\ job[t].path \in Path
    BY <2>1 DEF TypeOK
  <2>3. content[job[t].path] \in Nat
    BY <2>2 DEF TypeOK
  <2>4. job'[t].path = job[t].path /\ job'[t].stat = content[job[t].path]
    BY <2>1, <2>2 DEF TypeOK
  <2>5. pc'[t] = "check" /\ call'[t] # "Search"
    BY <2>1 DEF JobInv, TypeOK
  <2>6. \A u \in Thread \ {t} : pc'[u] = pc[u] /\ job'[u] = job[u] /\ call'[u] = call[u]
    BY <2>1 DEF TypeOK
  <2>7. content'[job'[t].path] = content[job[t].path]
    BY <2>1, <2>4
  <2>8. JobAt(t)'
    BY <2>3, <2>4, <2>5, <2>7 DEF JobAt
  <2>. QED BY <2>6, <2>8 DEF Moves
<1>8. ASSUME NEW t \in Thread, ReadFile(t)
      PROVE  Moves(t)
  <2>1. /\ job' = [job EXCEPT ![t] = [@ EXCEPT !.seen = content[job[t].path]]]
        /\ pc' = [pc EXCEPT ![t] = "embed"] /\ pc[t] = "read" /\ UNCHANGED <<call, content>>
    BY <1>8 DEF ReadFile, Goto
  <2>2. job[t] \in [path : Path \cup {0}, stat : Nat, seen : Nat] /\ job[t].path \in Path
    BY <2>1 DEF TypeOK
  <2>3. content[job[t].path] \in Nat
    BY <2>2 DEF TypeOK
  <2>4. /\ job'[t].path = job[t].path /\ job'[t].stat = job[t].stat
        /\ job'[t].seen = content[job[t].path]
    BY <2>1, <2>2 DEF TypeOK
  <2>5. pc'[t] = "embed" /\ call'[t] # "Search" /\ job[t].stat <= content[job[t].path]
    BY <2>1 DEF JobInv, TypeOK
  <2>6. \A u \in Thread \ {t} : pc'[u] = pc[u] /\ job'[u] = job[u] /\ call'[u] = call[u]
    BY <2>1 DEF TypeOK
  <2>7. content'[job'[t].path] = content[job[t].path]
    BY <2>1, <2>4
  <2>8. JobAt(t)'
    BY <2>3, <2>4, <2>5, <2>7 DEF JobAt
  <2>. QED BY <2>6, <2>8 DEF Moves
<1>9. ASSUME NEW t \in Thread, CheckChanged(t), ~Indexed(t)
      PROVE  Moves(t)
  <2>1. /\ pc' = [pc EXCEPT ![t] = "read"] /\ pc[t] = "check" /\ UNCHANGED <<call, job, content>>
    BY <1>9 DEF CheckChanged, Goto
  <2>. QED BY <2>1 DEF Moves, JobAt, JobInv, TypeOK
<1>10. CASE Crash
  BY <1>10 DEF Crash, JobInv
<1>11. ASSUME NEW t \in Thread, SweepNext(t) \/ ReadHalf(t) \/ ReadRest(t)
       PROVE  UNCHANGED <<pc, job, call>>
  BY <1>11 DEF SweepNext, ReadHalf, ReadRest
<1>12. ASSUME NEW t \in Thread, Step(t)
       PROVE  JobInv'
  BY <1>1, <1>2, <1>4, <1>5, <1>6, <1>7, <1>8, <1>9, <1>11, <1>12 DEF Step
<1>13. ASSUME \/ \E p \in Path : WriteFile(p) \/ RemoveFile(p)
              \/ New \/ DiscardIndexFile \/ UNCHANGED vars
       PROVE  UNCHANGED <<pc, job, call>>
  BY <1>13 DEF WriteFile, RemoveFile, New, DiscardIndexFile, vars
<1>. QED BY <1>1, <1>2, <1>3, <1>10, <1>12, <1>13 DEF Next

-----------------------------------------------------------------------------
\* Steps that touch neither the index, its readers nor its file.
LEMMA SoundQuiet ==
  ASSUME SoundAt(mixed', content'), UNCHANGED <<entries, reader, sweep, disk>>,
         \A t \in Thread : call[t] = "Search" => call'[t] = "Search"
  PROVE  SoundInv'
BY DEF SoundInv, SoundAt

LEMMA SoundInit == Init => SoundInv
<1>. SUFFICES ASSUME Init PROVE SoundInv
  OBVIOUS
<1>1. \A torn, version : AllSound(<< >>, torn, version)
  BY DEF AllSound
<1>. QED BY <1>1, NoReaderSound DEF Init, SoundInv, SoundAt, IsSaved

\* Who works on a file, sweeps or writes does not search.
LEMMA NotSearching ==
  ASSUME TypeOK, JobInv, NEW t \in Thread, pc[t] \notin {"snapshot", "range"},
         Return(t) \/ FileDone(t)
  PROVE  \A u \in Thread : call[u] = "Search" => call'[u] = "Search"
<1>1. \A u \in Thread \ {t} : call'[u] = call[u]
  BY DEF Return, FileDone, TypeOK
<1>. QED BY <1>1 DEF JobInv

\* t reads the second half of an element: it has read one of the two states seen,
\* unless the path is mixed.
LEMMA RestSound ==
  ASSUME NEW old \in Entry, NEW new \in Entry, NEW e \in Entry, NEW torn, NEW version,
         e \in {old, new} \/ e.path \in torn,
         Sound(old, torn, version), Sound(new, torn, version)
  PROVE  Sound(e, torn, version)
BY DEF Sound

LEMMA SoundNext ==
  ASSUME TypeOK, SoundInv, JobInv, [Next]_vars
  PROVE  SoundInv'
<1>. USE DEF files, index, local, bounds
<1>0. /\ entries \in Seq(Entry)
      /\ \A t \in Thread : /\ reader[t] \in Reader
                           /\ reader[t].of \in Seq(Entry) /\ reader[t].got \in Seq(Entry)
      /\ sweep # NoSweep => sweep.kept \in Seq(Entry)
      /\ content' \in [Path -> Nat]
  BY TypeNext DEF TypeOK, Reader, Sweep
<1>. DEFINE Now(es) == AllSound(es, mixed', content')
            Fine(e) == Sound(e, mixed', content')
<1>1. mixed \subseteq mixed' => SoundAt(mixed', content')
  BY <1>0, ContentGrows, SoundLater
<1>2. CASE UNCHANGED vars
  BY <1>1, <1>2, SoundQuiet DEF vars
<1>3. ASSUME NEW p \in Path, WriteFile(p) \/ RemoveFile(p)
      PROVE  SoundInv'
  BY <1>1, <1>3, SoundQuiet DEF WriteFile, RemoveFile
<1>4. ASSUME NEW t \in Thread,
             \/ \E p \in Path : IndexFile(t, p)
             \/ IndexDir(t) \/ SaveIndex(t) \/ Search(t) \/ RemoveStale(t)
      PROVE  SoundInv'
  <2>1. /\ UNCHANGED <<entries, reader, disk, mixed>>
        /\ sweep' = sweep \/ sweep'.kept = << >>
    BY <1>4 DEF IndexFile, IndexDir, SaveIndex, Search, RemoveStale, Begin
  <2>2. \A u \in Thread : call[u] = "Search" => call'[u] = "Search"
    <3>1. call[t] # "Search" /\ \A u \in Thread \ {t} : call'[u] = call[u]
      BY <1>4 DEF IndexFile, IndexDir, SaveIndex, Search, RemoveStale, Begin, Goto, TypeOK
    <3>. QED BY <3>1
  <2>3. AllSound(<< >>, mixed', content')
    BY DEF AllSound
  <2>. QED BY <1>1, <2>1, <2>2, <2>3 DEF SoundInv, SoundAt
<1>5. ASSUME NEW t \in Thread,
             \/ \E p \in Path : Visit(t, p)
             \/ WalkEnds(t) \/ Stat(t) \/ ReadFile(t)
             \/ CheckChanged(t) /\ ~Indexed(t)
      PROVE  SoundInv'
  <2>1. UNCHANGED <<entries, reader, sweep, disk, mixed, call>>
    BY <1>5 DEF Visit, WalkEnds, Stat, ReadFile, CheckChanged
  <2>. QED BY <1>1, <2>1, SoundQuiet
<1>6. ASSUME NEW t \in Thread,
             WalkCancelled(t) \/ FileFails(t) \/ (CheckChanged(t) /\ Indexed(t))
      PROVE  SoundInv'
  <2>1. /\ UNCHANGED <<entries, reader, sweep, disk, mixed>>
        /\ Return(t) \/ FileDone(t)
        /\ pc[t] \notin {"snapshot", "range"}
    BY <1>6 DEF WalkCancelled, FileFails, CheckChanged
  <2>. QED BY <1>1, <2>1, NotSearching, SoundQuiet
<1>7. ASSUME NEW t \in Thread, StoreEntry(t)
      PROVE  SoundInv'
  <2>1. /\ UNCHANGED <<sweep, disk, mixed, content>> /\ sweep = NoSweep
        /\ pc[t] = "embed" /\ FileDone(t)
    BY <1>7 DEF StoreEntry, Unlocked
  <2>2. SoundAt(mixed', content')
    BY <1>1, <2>1
  <2>3. /\ NewEntry(t) \in Entry
        /\ Fine(NewEntry(t))
    <3>1. job[t] \in [path : Path \cup {0}, stat : Nat, seen : Nat] /\ job[t].path \in Path
      BY <2>1 DEF TypeOK
    <3>2. job[t].stat <= job[t].seen /\ job[t].seen <= content[job[t].path]
      BY <2>1 DEF JobInv
    <3>. QED BY <2>1, <3>1, <3>2 DEF NewEntry, Entry, Sound
  <2>4. \A u \in Thread : call[u] = "Search" => call'[u] = "Search"
    BY <2>1, NotSearching
  <2>. HIDE DEF Now, Fine
  <2>5. CASE pathIndex[job[t].path] # 0
    <3>. DEFINE i == pathIndex[job[t].path]
    <3>1. /\ entries' = [entries EXCEPT ![i] = NewEntry(t)]
          /\ reader' = Shown(i, NewEntry(t))
      BY <1>7, <2>5 DEF StoreEntry
    <3>. HIDE DEF i
    <3>2. Now(entries')
      <4>1. CASE i \in DOMAIN entries
        BY <1>0, <2>2, <2>3, <3>1, <4>1, UpdateSound DEF SoundAt, Now, Fine
      <4>2. CASE i \notin DOMAIN entries
        BY <2>2, <3>1, <4>2 DEF SoundAt, Now, AllSound
      <4>. QED BY <4>1, <4>2
    <3>3. ASSUME NEW u \in Thread
          PROVE  /\ Now(reader'[u].of)
                 /\ reader'[u].half = reader[u].half /\ reader'[u].got = reader[u].got
      <4>1. CASE reader[u].live /\ i \in DOMAIN reader[u].of
        <5>1. reader'[u] = [reader[u] EXCEPT !.of = [@ EXCEPT ![i] = NewEntry(t)]]
          BY <3>1, <4>1 DEF Shown
        <5>2. /\ reader'[u].of = [reader[u].of EXCEPT ![i] = NewEntry(t)]
              /\ reader'[u].half = reader[u].half /\ reader'[u].got = reader[u].got
          BY <1>0, <5>1 DEF Reader
        <5>3. Now([reader[u].of EXCEPT ![i] = NewEntry(t)])
          BY <1>0, <2>2, <2>3, <4>1, UpdateSound DEF SoundAt, Now, Fine
        <5>. QED BY <5>2, <5>3
      <4>2. CASE ~(reader[u].live /\ i \in DOMAIN reader[u].of)
        BY <2>2, <3>1, <4>2 DEF Shown, SoundAt, Now
      <4>. QED BY <4>1, <4>2
    <3>. QED BY <2>1, <2>2, <2>4, <3>2, <3>3 DEF SoundInv, SoundAt, Now
  <2>6. CASE pathIndex[job[t].path] = 0
    <3>1. /\ entries' = Append(entries, NewEntry(t))
          /\ reader' \in {reader, Detached}
      BY <1>7, <2>6 DEF StoreEntry
    <3>2. Now(entries')
      BY <1>0, <2>2, <2>3, <3>1, AppendSound DEF SoundAt, Now, Fine
    <3>3. ASSUME NEW u \in Thread
          PROVE  /\ reader'[u].of = reader[u].of /\ reader'[u].half = reader[u].half
                 /\ reader'[u].got = reader[u].got
      BY <1>0, <3>1 DEF Detached, Reader
    <3>. QED BY <2>1, <2>2, <2>4, <3>2, <3>3 DEF SoundInv, SoundAt, Now
  <2>. QED BY <2>5, <2>6
<1>8. ASSUME NEW t \in Thread, SweepNext(t)
      PROVE  SoundInv'
  <2>1. /\ UNCHANGED <<entries, reader, disk, mixed, call>>
        /\ sweep \in Sweep /\ sweep # NoSweep /\ sweep.at < Len(entries)
    BY <1>8 DEF SweepNext, TypeOK
  <2>2. SoundAt(mixed', content')
    BY <1>1, <2>1
  <2>. DEFINE e == entries[sweep.at + 1]
  <2>3. e \in Entry /\ Fine(e)
    <3>1. sweep.at + 1 \in DOMAIN entries
      BY <1>0, <2>1 DEF Sweep
    <3>. QED BY <1>0, <2>2, <3>1 DEF SoundAt, AllSound
  <2>4. sweep'.kept = sweep.kept \/ sweep'.kept = Append(sweep.kept, e)
    <3>1. CASE e.path \in there
      BY <1>8, <3>1 DEF SweepNext
    <3>2. CASE e.path \notin there
      <4>1. sweep' = [sweep EXCEPT !.at = @ + 1]
        BY <1>8, <3>2 DEF SweepNext
      <4>. QED BY <2>1, <4>1 DEF Sweep
    <3>. QED BY <3>1, <3>2
  <2>. HIDE DEF Now, Fine, e
  <2>5. Now(sweep.kept) /\ Now(Append(sweep.kept, e))
    BY <1>0, <2>1, <2>2, <2>3, AppendSound DEF SoundAt, Now, Fine
  <2>. QED BY <2>1, <2>2, <2>4, <2>5 DEF SoundInv, SoundAt, Now
<1>9. ASSUME NEW t \in Thread, SweepEnds(t)
      PROVE  SoundInv'
  <2>1. /\ entries' = sweep.kept /\ reader' = Detached /\ sweep' = NoSweep
        /\ UNCHANGED <<disk, mixed>> /\ pc[t] = "sweep" /\ sweep # NoSweep /\ Return(t)
    BY <1>9 DEF SweepEnds, TypeOK
  <2>2. SoundAt(mixed', content')
    BY <1>1, <2>1
  <2>3. ASSUME NEW u \in Thread
        PROVE  /\ reader'[u].of = reader[u].of /\ reader'[u].half = reader[u].half
               /\ reader'[u].got = reader[u].got
    BY <1>0, <2>1 DEF Detached, Reader
  <2>4. \A u \in Thread : call[u] = "Search" => call'[u] = "Search"
    BY <2>1, NotSearching
  <2>. QED BY <2>1, <2>2, <2>3, <2>4 DEF SoundInv, SoundAt
<1>10. ASSUME NEW t \in Thread, Snapshot(t)
       PROVE  SoundInv'
  <2>1. /\ UNCHANGED <<entries, sweep, disk, mixed, call>>
        /\ reader' = [reader EXCEPT ![t] =
                        [of |-> entries, live |-> TRUE, half |-> NoHalf, got |-> << >>]]
    BY <1>10 DEF Snapshot
  <2>2. SoundAt(mixed', content')
    BY <1>1, <2>1
  <2>3. /\ reader'[t].of = entries /\ reader'[t].half = NoHalf /\ reader'[t].got = << >>
        /\ \A u \in Thread \ {t} : reader'[u] = reader[u]
    BY <2>1 DEF TypeOK
  <2>4. AllSound(<< >>, mixed', content')
    BY DEF AllSound
  <2>. QED BY <2>1, <2>2, <2>3, <2>4 DEF SoundInv, SoundAt
<1>11. ASSUME NEW t \in Thread, ReadHalf(t)
       PROVE  SoundInv'
  <2>1. /\ UNCHANGED <<entries, sweep, disk, mixed, call>>
        /\ reader' = [reader EXCEPT ![t] = [@ EXCEPT !.half = Element(t)]]
        /\ Len(reader[t].got) < Len(reader[t].of)
    BY <1>11 DEF ReadHalf, Ranging
  <2>2. SoundAt(mixed', content')
    BY <1>1, <2>1
  <2>3. /\ reader'[t].of = reader[t].of /\ reader'[t].half = Element(t)
        /\ reader'[t].got = reader[t].got
        /\ \A u \in Thread \ {t} : reader'[u] = reader[u]
    <3>1. reader'[t] = [reader[t] EXCEPT !.half = Element(t)]
      BY <2>1 DEF TypeOK
    <3>2. \A u \in Thread \ {t} : reader'[u] = reader[u]
      BY <2>1 DEF TypeOK
    <3>. QED BY <1>0, <3>1, <3>2 DEF Reader
  <2>4. Fine(Element(t))
    <3>1. Len(reader[t].got) + 1 \in DOMAIN reader[t].of
      BY <1>0, <2>1
    <3>. QED BY <2>2, <3>1 DEF Element, SoundAt, AllSound
  <2>. QED BY <2>1, <2>2, <2>3, <2>4 DEF SoundInv, SoundAt
<1>12. ASSUME NEW t \in Thread, ReadRest(t)
       PROVE  SoundInv'
  <2>1. PICK e \in {[Element(t) EXCEPT !.stamp = reader[t].half.stamp],
                   [Element(t) EXCEPT !.vector = reader[t].half.vector]} :
          /\ reader' = [reader EXCEPT ![t] =
                          [of |-> @.of, live |-> @.live, half |-> NoHalf,
                           got |-> Append(@.got, e)]]
          /\ mixed' = IF call[t] # "Search" /\ e \notin {reader[t].half, Element(t)}
                      THEN mixed \cup {e.path} ELSE mixed
    BY <1>12 DEF ReadRest
  <2>2. /\ UNCHANGED <<entries, sweep, disk, call>>
        /\ Len(reader[t].got) < Len(reader[t].of) /\ reader[t].half # NoHalf
    BY <1>12 DEF ReadRest, Ranging
  <2>3. SoundAt(mixed', content')
    BY <1>1, <2>1
  <2>4. /\ Element(t) \in Entry /\ reader[t].half \in Entry
        /\ Fine(Element(t)) /\ Fine(reader[t].half)
    <3>1. Len(reader[t].got) + 1 \in DOMAIN reader[t].of
      BY <1>0, <2>2
    <3>. QED BY <1>0, <2>2, <2>3, <3>1 DEF Element, SoundAt, AllSound, Reader
  <2>5. e \in Entry
    BY <2>1, <2>4 DEF Entry
  <2>6. call[t] # "Search" => Fine(e)
    <3>1. call[t] # "Search" => e \in {reader[t].half, Element(t)} \/ e.path \in mixed'
      BY <2>1
    <3>. QED BY <2>4, <2>5, <3>1, RestSound
  <2>7. /\ reader'[t].of = reader[t].of /\ reader'[t].half = NoHalf
        /\ reader'[t].got = Append(reader[t].got, e)
        /\ \A u \in Thread \ {t} : reader'[u] = reader[u]
    BY <2>1 DEF TypeOK
  <2>. HIDE DEF Now, Fine
  <2>8. call[t] # "Search" => Now(Append(reader[t].got, e))
    BY <1>0, <2>3, <2>5, <2>6, AppendSound DEF SoundAt, Now, Fine
  <2>. QED BY <2>2, <2>3, <2>7, <2>8 DEF SoundInv, SoundAt, Now
<1>13. ASSUME NEW t \in Thread,
              QueryFails(t) \/ (RangeEnds(t) /\ call[t] = "Search") \/ OpenFails(t)
              \/ WriteIndexFile(t) \/ WriteFails(t)
       PROVE  SoundInv'
  <2>1. /\ UNCHANGED <<entries, sweep, mixed>>
        /\ reader' = [reader EXCEPT ![t] = NoReader] /\ Return(t)
        /\ \/ disk' \in {disk, Torn}
           \/ disk' = reader[t].got /\ pc[t] = "write"
    BY <1>13 DEF QueryFails, RangeEnds, OpenFails, WriteIndexFile, WriteFails, Saved
  <2>2. SoundAt(mixed', content')
    BY <1>1, <2>1
  <2>3. /\ reader'[t] = NoReader
        /\ \A u \in Thread \ {t} : reader'[u] = reader[u] /\ call'[u] = call[u]
    BY <2>1 DEF Return, TypeOK
  <2>4. IsSaved(disk') => AllSound(disk', mixed', content')
    <3>1. CASE disk' \in {disk, Torn}
      BY <2>2, <3>1 DEF SoundAt, IsSaved
    <3>2. CASE disk' = reader[t].got /\ pc[t] = "write"
      BY <2>2, <3>2 DEF SoundAt, JobInv
    <3>. QED BY <2>1, <3>1, <3>2
  <2>. QED BY <2>1, <2>2, <2>3, <2>4, NoReaderSound DEF SoundInv, SoundAt
<1>14. ASSUME NEW t \in Thread, RangeEnds(t), call[t] # "Search"
       PROVE  SoundInv'
  <2>1. UNCHANGED <<entries, reader, sweep, disk, mixed, call>>
    BY <1>14 DEF RangeEnds
  <2>. QED BY <1>1, <2>1, SoundQuiet
<1>15. ASSUME NEW t \in Thread, OpenIndexFile(t)
       PROVE  SoundInv'
  <2>1. UNCHANGED <<entries, reader, sweep, mixed, call>> /\ disk' = Emptied
    BY <1>15 DEF OpenIndexFile
  <2>. QED BY <1>1, <2>1 DEF SoundInv, SoundAt, IsSaved
<1>16. CASE Crash
  <2>1. /\ entries' = << >> /\ reader' = [t \in Thread |-> NoReader] /\ sweep' = NoSweep
        /\ disk' \in {disk, Torn} /\ UNCHANGED mixed
    BY <1>16 DEF Crash
  <2>2. SoundAt(mixed', content')
    BY <1>1, <2>1
  <2>3. AllSound(<< >>, mixed', content')
    BY DEF AllSound
  <2>4. IsSaved(disk') => AllSound(disk', mixed', content')
    BY <2>1, <2>2 DEF SoundAt, IsSaved
  <2>. QED BY <2>1, <2>3, <2>4, NoReaderSound DEF SoundInv, SoundAt
<1>17. CASE New
  <2>1. /\ UNCHANGED <<disk, reader, sweep, mixed, call>>
        /\ entries' = IF disk = NoFile THEN << >> ELSE disk
        /\ disk \notin {Emptied, Torn}
    BY <1>17 DEF New
  <2>2. SoundAt(mixed', content')
    BY <1>1, <2>1
  <2>3. AllSound(entries', mixed', content')
    BY <2>1, <2>2 DEF SoundAt, IsSaved, AllSound
  <2>. QED BY <2>1, <2>2, <2>3 DEF SoundInv, SoundAt
<1>18. CASE DiscardIndexFile
  <2>1. UNCHANGED <<entries, reader, sweep, mixed, call>> /\ disk' = NoFile
    BY <1>18 DEF DiscardIndexFile
  <2>. QED BY <1>1, <2>1 DEF SoundInv, SoundAt, IsSaved
<1>. QED
  BY <1>2, <1>3, <1>4, <1>5, <1>6, <1>7, <1>8, <1>9, <1>10, <1>11, <1>12, <1>13, <1>14, <1>15,
     <1>16, <1>17, <1>18
  DEF Next, Step

\* A file that IndexFile skips has been embedded as it is, unless a save read its
\* entry in two states: whatever overlaps, and whatever a restart loads.
THEOREM SkipIsSafe == Spec => []SkippedIsCurrent
<1>1. Init => SoundInv /\ JobInv
  BY SoundInit, JobInit
<1>2. TypeOK /\ SoundInv /\ JobInv /\ [Next]_vars => SoundInv' /\ JobInv'
  BY SoundNext, JobNext
<1>3. TypeOK /\ SoundInv => SkippedIsCurrent
  <2>. SUFFICES ASSUME TypeOK, SoundInv, NEW i \in DOMAIN entries,
                       entries[i].path \in there \ mixed,
                       entries[i].stamp = content[entries[i].path]
                PROVE  entries[i].vector = content[entries[i].path]
    BY DEF SkippedIsCurrent
  <2>1. entries[i] \in Entry
    BY DEF TypeOK
  <2>2. /\ entries[i].stamp \in Nat /\ entries[i].vector \in Nat
        /\ entries[i].stamp <= entries[i].vector
        /\ entries[i].vector <= content[entries[i].path]
    BY <2>1 DEF SoundInv, SoundAt, AllSound, Sound, Entry
  <2>. QED BY <2>2
<1>4. Spec => []TypeOK
  BY TypeCorrect
<1>. QED BY <1>1, <1>2, <1>3, <1>4, PTL DEF Spec
=============================================================================
