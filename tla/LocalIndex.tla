----------------------------- MODULE LocalIndex -----------------------------
(***************************************************************************)
(* The index of local.Searcher (material/local/local.go): goroutines of    *)
(* one process index files, walk a directory, remove entries of files that *)
(* are gone, search and save, while the files change and the process may   *)
(* be killed.                                                              *)
(*                                                                         *)
(* s.mu is held for the steps below that touch the index, never while a    *)
(* file is read, an embedding computed or the index marshalled: Search and *)
(* saveIndex copy the slice s.entries under the lock and read its elements *)
(* without it, while IndexFile updates elements of the same array in place.*)
(* A path stands for an image (of other files only the name is embedded);  *)
(* a version for a size, a modification time and a content.  Every change  *)
(* of a file is assumed to give it another size or another second.         *)
(***************************************************************************)
EXTENDS Naturals, Sequences

CONSTANTS
  Path,        \* files, numbers in the order filepath.Walk visits them
  Thread,      \* goroutines that call the Searcher
  NoFile,      \* disk: there is no index file
  Emptied,     \* disk: the index file was opened and not yet written
  Torn,        \* disk: the index file is not JSON
  NoHalf, NoSweep,
  MaxVersion,  \* MaxVersion[p]: bound: versions of p
  MaxCalls,    \* bound: calls of methods other than IndexFile
  MaxCrashes   \* bound: how often the process is killed

Entry == [path : Path, stamp : Nat, vector : Nat]
Sweep == [at : Nat, kept : Seq(Entry), index : [Path -> Nat]]
Reader == [of : Seq(Entry), live : BOOLEAN, half : Entry \cup {NoHalf}, got : Seq(Entry)]

ASSUME IndexAssumption ==
  /\ Path \subseteq Nat \ {0}
  /\ MaxVersion \in [Path -> Nat]
  /\ MaxCalls \in Nat
  /\ MaxCrashes \in Nat
  /\ {NoFile, Emptied, Torn} \cap Seq(Entry) = {}
  /\ NoSweep \notin Sweep /\ NoHalf \notin Entry

VARIABLES
  there,      \* the files that exist
  content,    \* content[p]: the version last written to p
  disk,       \* the file at indexPath
  up,         \* the process runs
  entries,    \* s.entries
  pathIndex,  \* s.pathIndex; 0 for paths that are not keys
  pc,         \* where each goroutine is
  call,       \* call[t]: the method it is in
  todo,       \* todo[t]: files its walk has not visited yet
  job,        \* job[t]: the file it indexes, what os.Stat saw, what os.ReadFile read
  reader,     \* reader[t]: its copy of s.entries (see NoReader)
  sweep,      \* the RemoveStale that holds s.mu
  mixed,      \* history: paths of entries of which a save read an old and a new half
  calls,      \* how many methods other than IndexFile were called, up to MaxCalls
  crashes     \* how often the process was killed, up to MaxCrashes

bounds == <<calls, crashes>>
files == <<there, content>>
index == <<entries, pathIndex>>
local == <<pc, call, todo, job, reader, sweep>>
vars == <<files, disk, up, index, local, mixed, bounds>>

PC == {"idle", "walk", "stat", "check", "read", "embed", "snapshot", "range", "open", "write",
       "sweep"}

Methods == {"IndexFile", "IndexDir", "SaveIndex", "Search", "RemoveStale"}

NoJob == [path |-> 0, stat |-> 0, seen |-> 0]

\* of: the elements the copy of the slice shows, live: whether its array is still
\* that of s.entries, half: an element read in part, got: the elements read.
NoReader == [of |-> << >>, live |-> FALSE, half |-> NoHalf, got |-> << >>]

Init == /\ there \in SUBSET Path
        /\ content = [p \in Path |-> 1]
        /\ disk = NoFile
        /\ up = TRUE
        /\ entries = << >>
        /\ pathIndex = [p \in Path |-> 0]
        /\ pc = [t \in Thread |-> "idle"]
        /\ call = [t \in Thread |-> "none"]
        /\ todo = [t \in Thread |-> {}]
        /\ job = [t \in Thread |-> NoJob]
        /\ reader = [t \in Thread |-> NoReader]
        /\ sweep = NoSweep
        /\ mixed = {}
        /\ calls = 0
        /\ crashes = 0

-----------------------------------------------------------------------------
\* Others write and remove files.
WriteFile(p) ==
  /\ content[p] < MaxVersion[p]
  /\ content' = [content EXCEPT ![p] = @ + 1]
  /\ there' = there \cup {p}
  /\ UNCHANGED <<disk, up, index, local, mixed, bounds>>

RemoveFile(p) ==
  /\ p \in there
  /\ there' = there \ {p}
  /\ UNCHANGED <<content, disk, up, index, local, mixed, bounds>>

-----------------------------------------------------------------------------
Goto(t, a, b) == pc[t] = a /\ pc' = [pc EXCEPT ![t] = b]

\* The call of t is over.
Return(t) ==
  /\ pc' = [pc EXCEPT ![t] = "idle"]
  /\ call' = [call EXCEPT ![t] = "none"]
  /\ todo' = [todo EXCEPT ![t] = {}]
  /\ job' = [job EXCEPT ![t] = NoJob]

\* s.mu can be taken.
Unlocked == sweep = NoSweep

\* A goroutine calls a method of the Searcher.
Begin(t, method, first) ==
  /\ up
  /\ Goto(t, "idle", first)
  /\ call' = [call EXCEPT ![t] = method]
  /\ \/ method = "IndexFile" /\ UNCHANGED calls
     \/ method # "IndexFile" /\ calls < MaxCalls /\ calls' = calls + 1
  /\ UNCHANGED <<files, disk, up, index, reader, mixed, crashes>>

OnFile(t, p) == job' = [job EXCEPT ![t] = [path |-> p, stat |-> 0, seen |-> 0]]

IndexFile(t, p) ==
  /\ Begin(t, "IndexFile", "stat")
  /\ OnFile(t, p)
  /\ UNCHANGED <<todo, sweep>>

IndexDir(t) ==
  /\ Begin(t, "IndexDir", "walk")
  /\ todo' = [todo EXCEPT ![t] = there]
  /\ UNCHANGED <<job, sweep>>

SaveIndex(t) == Begin(t, "SaveIndex", "snapshot") /\ UNCHANGED <<todo, job, sweep>>

Search(t) == Begin(t, "Search", "snapshot") /\ UNCHANGED <<todo, job, sweep>>

-----------------------------------------------------------------------------
\* IndexDir visits the next file.
Visit(t, p) ==
  /\ Goto(t, "walk", "stat")
  /\ p \in todo[t] /\ \A q \in todo[t] : p <= q
  /\ todo' = [todo EXCEPT ![t] = @ \ {p}]
  /\ OnFile(t, p)
  /\ UNCHANGED <<files, disk, up, index, call, reader, sweep, mixed, bounds>>

\* ctx.Err() ends the walk: nothing is saved.
WalkCancelled(t) ==
  /\ pc[t] = "walk" /\ todo[t] # {}
  /\ Return(t)
  /\ UNCHANGED <<files, disk, up, index, reader, sweep, mixed, bounds>>

WalkEnds(t) ==
  /\ Goto(t, "walk", "snapshot")
  /\ todo[t] = {}
  /\ UNCHANGED <<files, disk, up, index, call, todo, job, reader, sweep, mixed, bounds>>

\* IndexFile returns, with or without an error; a walk goes on all the same.
FileDone(t) ==
  IF call[t] = "IndexDir"
  THEN /\ pc' = [pc EXCEPT ![t] = "walk"]
       /\ job' = [job EXCEPT ![t] = NoJob]
       /\ UNCHANGED <<call, todo>>
  ELSE Return(t)

Stat(t) ==
  /\ Goto(t, "stat", "check")
  /\ job[t].path \in there
  /\ job' = [job EXCEPT ![t].stat = content[job[t].path]]
  /\ UNCHANGED <<files, disk, up, index, call, todo, reader, sweep, mixed, bounds>>

\* os.Stat fails, os.ReadFile fails, or the embedding does.
FileFails(t) ==
  /\ \/ pc[t] \in {"stat", "read"} /\ job[t].path \notin there
     \/ pc[t] = "embed"
  /\ FileDone(t)
  /\ UNCHANGED <<files, disk, up, index, reader, sweep, mixed, bounds>>

\* The path has an entry, with the size and time just seen.
Indexed(t) ==
  LET i == pathIndex[job[t].path] IN i # 0 /\ entries[i].stamp = job[t].stat

CheckChanged(t) ==
  /\ Unlocked
  /\ pc[t] = "check"
  /\ IF Indexed(t) THEN FileDone(t)
                   ELSE Goto(t, "check", "read") /\ UNCHANGED <<call, todo, job>>
  /\ UNCHANGED <<files, disk, up, index, reader, sweep, mixed, bounds>>

ReadFile(t) ==
  /\ Goto(t, "read", "embed")
  /\ job[t].path \in there
  /\ job' = [job EXCEPT ![t].seen = content[job[t].path]]
  /\ UNCHANGED <<files, disk, up, index, call, todo, reader, sweep, mixed, bounds>>

\* s.entries gets a new array: who has a copy of the slice goes on with the old one.
Detached == [t \in Thread |-> [reader[t] EXCEPT !.live = FALSE]]

\* Element i of the array becomes e, also for those who read it.
Shown(i, e) ==
  [t \in Thread |-> IF reader[t].live /\ i \in DOMAIN reader[t].of
                    THEN [reader[t] EXCEPT !.of = [@ EXCEPT ![i] = e]] ELSE reader[t]]

\* Mutant: os.Stat once more, when the embedding is there.
NewEntryRestat(t) ==
  [path |-> job[t].path, stamp |-> content[job[t].path], vector |-> job[t].seen]

NewEntry(t) == [path |-> job[t].path, stamp |-> job[t].stat, vector |-> job[t].seen]

\* The embedding is there: the entry is updated in place, or appended, to the
\* array while it has room and to a new one when it has not.
StoreEntry(t) ==
  LET p == job[t].path
      i == pathIndex[p]
      e == NewEntry(t)
  IN /\ Unlocked
     /\ pc[t] = "embed"
     /\ \/ /\ i # 0
           /\ entries' = [entries EXCEPT ![i] = e]
           /\ reader' = Shown(i, e)
           /\ UNCHANGED pathIndex
        \/ /\ i = 0
           /\ entries' = Append(entries, e)
           /\ pathIndex' = [pathIndex EXCEPT ![p] = Len(entries) + 1]
           /\ reader' \in {reader, Detached}
     /\ FileDone(t)
     /\ UNCHANGED <<files, disk, up, sweep, mixed, bounds>>

-----------------------------------------------------------------------------
\* RemoveStale looks at one file after the other, with s.mu held.
RemoveStale(t) ==
  /\ Unlocked
  /\ Begin(t, "RemoveStale", "sweep") /\ UNCHANGED <<todo, job>>
  /\ sweep' = [at |-> 0, kept |-> << >>, index |-> [p \in Path |-> 0]]

SweepNext(t) ==
  LET e == entries[sweep.at + 1]
      kept == Append(sweep.kept, e)
  IN /\ pc[t] = "sweep"
     /\ sweep.at < Len(entries)
     /\ sweep' = IF e.path \in there
                 THEN [at |-> sweep.at + 1, kept |-> kept,
                       index |-> [sweep.index EXCEPT ![e.path] = Len(kept)]]
                 ELSE [sweep EXCEPT !.at = @ + 1]
     /\ UNCHANGED <<files, disk, up, index, pc, call, todo, job, reader, mixed, bounds>>

\* Mutant: kept := s.entries[:0], the array is filtered in place.
SweepEndsInPlace(t) ==
  /\ pc[t] = "sweep"
  /\ sweep.at = Len(entries)
  /\ entries' = sweep.kept
  /\ pathIndex' = sweep.index
  /\ reader' = [u \in Thread |->
       [reader[u] EXCEPT !.of = [i \in DOMAIN @ |-> IF reader[u].live /\ i \in DOMAIN sweep.kept
                                                    THEN sweep.kept[i] ELSE @[i]]]]
  /\ sweep' = NoSweep
  /\ Return(t)
  /\ UNCHANGED <<files, disk, up, mixed, bounds>>

SweepEnds(t) ==
  /\ pc[t] = "sweep"
  /\ sweep.at = Len(entries)
  /\ entries' = sweep.kept
  /\ pathIndex' = sweep.index
  /\ reader' = Detached
  /\ sweep' = NoSweep
  /\ Return(t)
  /\ UNCHANGED <<files, disk, up, mixed, bounds>>

-----------------------------------------------------------------------------
\* Search and saveIndex copy the slice, not its elements.
Snapshot(t) ==
  /\ Unlocked
  /\ Goto(t, "snapshot", "range")
  /\ reader' = [reader EXCEPT ![t] =
                  [of |-> entries, live |-> TRUE, half |-> NoHalf, got |-> << >>]]
  /\ UNCHANGED <<files, disk, up, index, call, todo, job, sweep, mixed, bounds>>

\* The embedding of the query fails.
QueryFails(t) ==
  /\ pc[t] = "range" /\ call[t] = "Search"
  /\ reader[t].got = << >> /\ reader[t].half = NoHalf
  /\ Return(t)
  /\ reader' = [reader EXCEPT ![t] = NoReader]
  /\ UNCHANGED <<files, disk, up, index, sweep, mixed, bounds>>

Ranging(t) == pc[t] = "range" /\ Len(reader[t].got) < Len(reader[t].of)
Element(t) == reader[t].of[Len(reader[t].got) + 1]

\* The next element is read without the lock, its stamp and its vector at two
\* times, in either order.
ReadHalf(t) ==
  /\ Ranging(t) /\ reader[t].half = NoHalf
  /\ reader' = [reader EXCEPT ![t].half = Element(t)]
  /\ UNCHANGED <<files, disk, up, index, pc, call, todo, job, sweep, mixed, bounds>>

ReadRest(t) ==
  LET old == reader[t].half
      new == Element(t)
  IN /\ Ranging(t) /\ old # NoHalf
     /\ \E e \in {[new EXCEPT !.stamp = old.stamp], [new EXCEPT !.vector = old.vector]} :
          /\ reader' = [reader EXCEPT ![t] =
                          [of |-> @.of, live |-> @.live, half |-> NoHalf,
                           got |-> Append(@.got, e)]]
          /\ mixed' = IF call[t] # "Search" /\ e \notin {old, new}
                      THEN mixed \cup {e.path} ELSE mixed
     /\ UNCHANGED <<files, disk, up, index, pc, call, todo, job, sweep, bounds>>

RangeEnds(t) ==
  /\ pc[t] = "range" /\ Len(reader[t].got) = Len(reader[t].of)
  /\ IF call[t] = "Search"
     THEN Return(t) /\ reader' = [reader EXCEPT ![t] = NoReader]
     ELSE Goto(t, "range", "open") /\ UNCHANGED <<call, todo, job, reader>>
  /\ UNCHANGED <<files, disk, up, index, sweep, mixed, bounds>>

-----------------------------------------------------------------------------
Saved(t, d) ==
  /\ disk' = d
  /\ Return(t)
  /\ reader' = [reader EXCEPT ![t] = NoReader]
  /\ UNCHANGED <<files, up, index, sweep, mixed, bounds>>

\* os.WriteFile empties the file, then writes it.
OpenIndexFile(t) ==
  /\ Goto(t, "open", "write")
  /\ disk' = Emptied
  /\ UNCHANGED <<files, up, index, call, todo, job, reader, sweep, mixed, bounds>>

OpenFails(t) == pc[t] = "open" /\ Saved(t, disk)

\* Over what another save wrote in the meantime, the rest of which may remain.
WriteIndexFile(t) ==
  /\ pc[t] = "write"
  /\ \E d \in {reader[t].got} \cup (IF disk = Emptied THEN {} ELSE {Torn}) : Saved(t, d)

WriteFails(t) == pc[t] = "write" /\ Saved(t, Torn)

-----------------------------------------------------------------------------
\* The process is killed, possibly half-way through a write.
Crash ==
  /\ up /\ crashes < MaxCrashes
  /\ crashes' = crashes + 1
  /\ up' = FALSE
  /\ disk' \in {disk} \cup (IF \E t \in Thread : pc[t] = "write" THEN {Torn} ELSE {})
  /\ entries' = << >>
  /\ pathIndex' = [p \in Path |-> 0]
  /\ pc' = [t \in Thread |-> "idle"]
  /\ call' = [t \in Thread |-> "none"]
  /\ todo' = [t \in Thread |-> {}]
  /\ job' = [t \in Thread |-> NoJob]
  /\ reader' = [t \in Thread |-> NoReader]
  /\ sweep' = NoSweep
  /\ UNCHANGED <<files, mixed, calls>>

\* loadIndex: the last element of a path counts.
Positions(es) ==
  LET IsLast(p, i) == es[i].path = p /\ \A k \in DOMAIN es : es[k].path = p => k <= i
  IN [p \in Path |-> IF \E i \in DOMAIN es : IsLast(p, i)
                     THEN CHOOSE i \in DOMAIN es : IsLast(p, i) ELSE 0]

\* New; it fails when there is an index file that it cannot read.
New ==
  LET loaded == IF disk = NoFile THEN << >> ELSE disk
  IN /\ ~up
     /\ disk \notin {Emptied, Torn}
     /\ up' = TRUE
     /\ entries' = loaded
     /\ pathIndex' = Positions(loaded)
     /\ UNCHANGED <<files, disk, local, mixed, bounds>>

\* The user of a Searcher that New refuses to make removes the index file.
DiscardIndexFile ==
  /\ ~up /\ disk \in {Emptied, Torn}
  /\ disk' = NoFile
  /\ UNCHANGED <<files, up, index, local, mixed, bounds>>

-----------------------------------------------------------------------------
\* The steps of a call under way.
Step(t) ==
  \/ \E p \in Path : Visit(t, p)
  \/ WalkCancelled(t) \/ WalkEnds(t)
  \/ Stat(t) \/ CheckChanged(t) \/ ReadFile(t) \/ StoreEntry(t) \/ FileFails(t)
  \/ SweepNext(t) \/ SweepEnds(t)
  \/ Snapshot(t) \/ QueryFails(t) \/ ReadHalf(t) \/ ReadRest(t) \/ RangeEnds(t)
  \/ OpenIndexFile(t) \/ OpenFails(t) \/ WriteIndexFile(t) \/ WriteFails(t)

Next ==
  \/ \E p \in Path : WriteFile(p) \/ RemoveFile(p)
  \/ \E t \in Thread : \/ \E p \in Path : IndexFile(t, p)
                       \/ IndexDir(t) \/ SaveIndex(t) \/ Search(t) \/ RemoveStale(t)
                       \/ Step(t)
  \/ Crash \/ New \/ DiscardIndexFile

Spec == Init /\ [][Next]_vars

-----------------------------------------------------------------------------
\* The types; a goroutine at work on a file has one, and only one holds the lock.
TypeOK ==
  /\ there \subseteq Path
  /\ content \in [Path -> Nat]
  /\ disk \in Seq(Entry) \cup {NoFile, Emptied, Torn}
  /\ up \in BOOLEAN
  /\ entries \in Seq(Entry)
  /\ pathIndex \in [Path -> Nat]
  /\ pc \in [Thread -> PC]
  /\ call \in [Thread -> Methods \cup {"none"}]
  /\ todo \in [Thread -> SUBSET Path]
  /\ job \in [Thread -> [path : Path \cup {0}, stat : Nat, seen : Nat]]
  /\ reader \in [Thread -> Reader]
  /\ sweep \in Sweep \cup {NoSweep}
  /\ mixed \subseteq Path
  /\ \A t \in Thread : /\ pc[t] \in {"stat", "check", "read", "embed"} => job[t].path \in Path
                       /\ pc[t] = "idle" => call[t] = "none"
                       /\ pc[t] = "sweep" => /\ sweep # NoSweep
                                             /\ \A u \in Thread \ {t} : pc[u] # "sweep"

OnePerPath(es) == \A i, k \in DOMAIN es : es[i].path = es[k].path => i = k

\* No path has two entries: not in memory, where pathIndex finds every entry, nor
\* among the results of a search or the entries of a save, which are read without
\* the lock while others update, append and remove, nor in the file a restart loads.
OneEntryPerPath ==
  /\ OnePerPath(entries)
  /\ \A i \in DOMAIN entries : pathIndex[entries[i].path] = i
  /\ \A t \in Thread : OnePerPath(reader[t].got)
  /\ disk \notin {NoFile, Emptied, Torn} => OnePerPath(disk)

\* A file that IndexFile skips as unchanged has the embedding of what it contains,
\* however calls and changes of files overlap and whatever a restart loads: unless a
\* save read the entry while it was updated.
SkippedIsCurrent ==
  \A i \in DOMAIN entries :
    LET p == entries[i].path
    IN p \in there \ mixed /\ entries[i].stamp = content[p] => entries[i].vector = content[p]
=============================================================================
