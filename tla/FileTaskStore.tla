--------------------------- MODULE FileTaskStore ---------------------------
(***************************************************************************)
(* FileTaskStore (taskstore.go): a JSON file shared by the goroutines of   *)
(* several processes.  A call takes the process's RWMutex, then flock on   *)
(* <path>.lock, reads the whole file, and a writer writes <path>.tmp and   *)
(* renames it over the file; the deferred unlocks run in reverse order.    *)
(* Any file operation may fail and a process may be killed at any step.    *)
(***************************************************************************)
EXTENDS TaskRecords

CONSTANTS Thread,     \* goroutines that call the store
          Proc,       \* processes, each with its own *FileTaskStore
          ProcOf,     \* ProcOf[t]: the process t runs in
          SaveSt,     \* the statuses the callers save
          Ages,       \* the maxAge values the callers pass to Purge
          FileLocks,  \* TRUE: taskstore_flock.go; FALSE: ..._windows.go
          NoThread,   \* nobody
          NoFile,     \* <path>.tmp does not exist
          Torn,       \* a file whose contents are not a whole JSON document
          MaxNow,     \* bound: clock ticks
          MaxCalls    \* bound: calls made, all threads together

ASSUME StoreAssumption ==
  /\ ProcOf \in [Thread -> Proc]
  /\ SaveSt \subseteq Status
  /\ Ages \subseteq Nat
  /\ FileLocks \in BOOLEAN
  /\ MaxNow \in Nat
  /\ MaxCalls \in Nat
  /\ NoThread \notin Thread
  /\ Absent \notin [st : Status, upd : Nat]
  /\ NoFile \notin [Task -> [st : Status, upd : Nat] \cup {Absent}]
  /\ Torn \notin [Task -> [st : Status, upd : Nat] \cup {Absent}]
  /\ NoFile # Torn

VARIABLES disk,    \* the contents of s.path (a missing file reads as empty)
          tmp,     \* the contents of s.path + ".tmp"
          mu,      \* mu[p]: s.mu of process p, its writer and its readers
          lock,    \* flock on s.lockPath: who holds it LOCK_EX, who LOCK_SH
          now,     \* time.Now()
          pc,      \* pc[t]: where t is in its call
          call,    \* call[t]: the call and its arguments
          since,   \* since[t]: when the call was made
          stamp,   \* stamp[t]: the time.Now() a writer read
          buf,     \* buf[t]: records, the slice readAll returned, edited
          out,     \* out[t]: the outcome, "none" until it is known
          view,    \* view[t]: the records a read returns
          calls    \* the number of calls made, up to MaxCalls

vars == <<disk, tmp, mu, lock, now, pc, call, since, stamp, buf, out, view, calls>>

Rec     == [st : Status, upd : Nat]
Records == [Task -> Rec \cup {Absent}]

Calls == [kind : {"save"}, id : Task, st : SaveSt]
           \cup [kind : {"delete"}, id : Task]
           \cup [kind : {"purge"}, age : Ages]
           \cup [kind : {"load"}, id : Task]
           \cup [kind : {"all"}]

IsWrite(c) == c.kind \in {"save", "delete", "purge"}

PC == {"idle", "mu", "flock", "read", "create", "write", "rename", "funlock", "unlock"}

\* What the call variable holds between calls.
NoCall == [kind |-> "all"]

Free == [w |-> NoThread, r |-> {}]

Init == /\ disk = NoRecords
        /\ tmp = NoFile
        /\ mu = [p \in Proc |-> Free]
        /\ lock = Free
        /\ now = 0
        /\ pc = [t \in Thread |-> "idle"]
        /\ call = [t \in Thread |-> NoCall]
        /\ since = [t \in Thread |-> 0]
        /\ stamp = [t \in Thread |-> 0]
        /\ buf = [t \in Thread |-> NoRecords]
        /\ out = [t \in Thread |-> "none"]
        /\ view = [t \in Thread |-> NoRecords]
        /\ calls = 0

-----------------------------------------------------------------------------
Goto(t, a, b) == pc[t] = a /\ pc' = [pc EXCEPT ![t] = b]

\* Lock or RLock on l by t: a writer waits for everybody, a reader for the writer.
CanTake(l, c) == l.w = NoThread /\ (IsWrite(c) => l.r = {})
Take(l, t, c) == IF IsWrite(c) THEN [l EXCEPT !.w = t] ELSE [l EXCEPT !.r = @ \cup {t}]
Drop(l, S)    == [w |-> IF l.w \in S THEN NoThread ELSE l.w, r |-> l.r \ S]

\* Mutant: Save forgets UpdatedAt and leaves the zero time.
EditedUnstamped(c, rs, n) ==
  CASE c.kind = "save"   -> Upsert(rs, c.id, [st |-> c.st, upd |-> -1])
    [] c.kind = "delete" -> Without(rs, {c.id})
    [] c.kind = "purge"  -> Without(rs, Expired(rs, n - c.age))

\* What the writers make of the records they read; n is time.Now().
Edited(c, rs, n) ==
  CASE c.kind = "save"   -> Upsert(rs, c.id, [st |-> c.st, upd |-> n])
    [] c.kind = "delete" -> Without(rs, {c.id})
    [] c.kind = "purge"  -> Without(rs, Expired(rs, n - c.age))

Found(c, rs) == IF c.kind = "load" THEN Without(rs, Task \ {c.id}) ELSE rs

\* The local variables of the calls of S go out of scope.
Forget(S) ==
  LET clear(f, v) == [t \in Thread |-> IF t \in S THEN v ELSE f[t]]
  IN /\ call' = clear(call, NoCall)
     /\ since' = clear(since, 0)
     /\ stamp' = clear(stamp, 0)
     /\ buf' = clear(buf, NoRecords)
     /\ out' = clear(out, "none")
     /\ view' = clear(view, NoRecords)

\* Time passes; MaxNow bounds it.
Tick == /\ now < MaxNow
        /\ now' = now + 1
        /\ UNCHANGED <<disk, tmp, mu, lock, pc, call, since, stamp, buf, out, view, calls>>

\* A goroutine calls Save, Load, All, Delete or Purge.
Begin(t, c) ==
  /\ calls < MaxCalls
  /\ Goto(t, "idle", "mu")
  /\ call' = [call EXCEPT ![t] = c]
  /\ since' = [since EXCEPT ![t] = now]
  /\ calls' = calls + 1
  /\ UNCHANGED <<disk, tmp, mu, lock, now, stamp, buf, out, view>>

\* Mutant: readers do not lock.
LockMuOfWriters(t) ==
  /\ Goto(t, "mu", "flock")
  /\ IF IsWrite(call[t])
     THEN /\ CanTake(mu[ProcOf[t]], call[t])
          /\ mu' = [mu EXCEPT ![ProcOf[t]] = Take(@, t, call[t])]
     ELSE UNCHANGED mu
  /\ UNCHANGED <<disk, tmp, lock, now, call, since, stamp, buf, out, view, calls>>

\* s.mu.Lock() of a writer, s.mu.RLock() of a reader.
LockMu(t) ==
  /\ Goto(t, "mu", "flock")
  /\ CanTake(mu[ProcOf[t]], call[t])
  /\ mu' = [mu EXCEPT ![ProcOf[t]] = Take(@, t, call[t])]
  /\ UNCHANGED <<disk, tmp, lock, now, call, since, stamp, buf, out, view, calls>>

\* Mutant: writers take the file lock as readers do.
LockFileShared(t) ==
  /\ Goto(t, "flock", "read")
  /\ lock' = [lock EXCEPT !.r = @ \cup {t}]
  /\ UNCHANGED <<disk, tmp, mu, now, call, since, stamp, buf, out, view, calls>>

\* fileLockExclusive / fileLockShared; without file locks they do nothing.
LockFile(t) ==
  /\ Goto(t, "flock", "read")
  /\ IF FileLocks
     THEN CanTake(lock, call[t]) /\ lock' = Take(lock, t, call[t])
     ELSE UNCHANGED lock
  /\ UNCHANGED <<disk, tmp, mu, now, call, since, stamp, buf, out, view, calls>>

\* Mutant: the error return comes before the unlock is deferred.
LockFileFailsLocked(t) ==
  /\ FileLocks
  /\ Goto(t, "flock", "idle")
  /\ Forget({t})
  /\ UNCHANGED <<disk, tmp, mu, lock, now, calls>>

\* The lock file cannot be opened or locked: only the mutex is released.
LockFileFails(t) ==
  /\ FileLocks
  /\ Goto(t, "flock", "unlock")
  /\ out' = [out EXCEPT ![t] = "err"]
  /\ UNCHANGED <<disk, tmp, mu, lock, now, call, since, stamp, buf, view, calls>>

\* readAll, then the edit of the slice in memory.
ReadForWrite(t) ==
  /\ IsWrite(call[t])
  /\ disk # Torn
  /\ Goto(t, "read", "create")
  /\ stamp' = [stamp EXCEPT ![t] = now]
  /\ buf' = [buf EXCEPT ![t] = Edited(call[t], disk, now)]
  /\ UNCHANGED <<disk, tmp, mu, lock, now, call, since, out, view, calls>>

ReadForRead(t) ==
  /\ ~IsWrite(call[t])
  /\ disk # Torn
  /\ Goto(t, "read", "funlock")
  /\ out' = [out EXCEPT ![t] = "ok"]
  /\ view' = [view EXCEPT ![t] = Found(call[t], disk)]
  /\ UNCHANGED <<disk, tmp, mu, lock, now, call, since, stamp, buf, calls>>

\* readAll fails: the file cannot be read, or (disk = Torn) decoded.
ReadFails(t) ==
  /\ Goto(t, "read", "funlock")
  /\ out' = [out EXCEPT ![t] = "err"]
  /\ UNCHANGED <<disk, tmp, mu, lock, now, call, since, stamp, buf, view, calls>>

\* os.WriteFile creates or truncates the temporary file ...
CreateTmp(t) ==
  /\ Goto(t, "create", "write")
  /\ tmp' = Torn
  /\ UNCHANGED <<disk, mu, lock, now, call, since, stamp, buf, out, view, calls>>

\* ... and fills it.  Over what another writer put there since, the result may be
\* a mixture of the two.
WriteTmp(t) ==
  /\ Goto(t, "write", "rename")
  /\ tmp' = buf[t] \/ (tmp # Torn /\ tmp' = Torn)
  /\ UNCHANGED <<disk, mu, lock, now, call, since, stamp, buf, out, view, calls>>

\* Mutant: the error of os.WriteFile is ignored.
WriteErrorIgnored(t) ==
  /\ \E a \in {"create", "write"} : Goto(t, a, "rename")
  /\ UNCHANGED <<disk, tmp, mu, lock, now, call, since, stamp, buf, out, view, calls>>

\* os.WriteFile fails to open the file, or part-way; the file is left behind.
WriteTmpFails(t) ==
  /\ \E a \in {"create", "write"} : Goto(t, a, "funlock")
  /\ out' = [out EXCEPT ![t] = "err"]
  /\ UNCHANGED <<disk, tmp, mu, lock, now, call, since, stamp, buf, view, calls>>

\* The system without file locks neither renames nor removes a file that
\* another goroutine has open.
TmpMovable == FileLocks \/ \A u \in Thread : pc[u] # "write"

\* os.Rename(tmp, s.path) replaces the file in one step.
Rename(t) ==
  /\ TmpMovable
  /\ tmp # NoFile
  /\ Goto(t, "rename", "funlock")
  /\ disk' = tmp
  /\ tmp' = NoFile
  /\ out' = [out EXCEPT ![t] = "ok"]
  /\ UNCHANGED <<mu, lock, now, call, since, stamp, buf, view, calls>>

\* Mutant: the error of os.Rename is not returned.
RenameErrorIgnored(t) ==
  /\ Goto(t, "rename", "funlock")
  /\ tmp' = NoFile
  /\ out' = [out EXCEPT ![t] = "ok"]
  /\ UNCHANGED <<disk, mu, lock, now, call, since, stamp, buf, view, calls>>

\* os.Rename fails; os.Remove(tmp) is tried and its error ignored.
RenameFails(t) ==
  /\ Goto(t, "rename", "funlock")
  /\ tmp' = tmp \/ (TmpMovable /\ tmp' = NoFile)
  /\ out' = [out EXCEPT ![t] = "err"]
  /\ UNCHANGED <<disk, mu, lock, now, call, since, stamp, buf, view, calls>>

\* The deferred fileUnlock(f) ...
UnlockFile(t) ==
  /\ Goto(t, "funlock", "unlock")
  /\ lock' = Drop(lock, {t})
  /\ UNCHANGED <<disk, tmp, mu, now, call, since, stamp, buf, out, view, calls>>

\* ... then the deferred s.mu.Unlock() / RUnlock(), and the call returns.
UnlockMu(t) ==
  /\ Goto(t, "unlock", "idle")
  /\ mu' = [mu EXCEPT ![ProcOf[t]] = Drop(@, {t})]
  /\ Forget({t})
  /\ UNCHANGED <<disk, tmp, lock, now, calls>>

\* Process p is killed and started again: the kernel closes the lock file, a new
\* mutex is made, the calls of its goroutines are gone, the files stay.
Crash(p) ==
  LET dead == {t \in Thread : ProcOf[t] = p}
  IN /\ \E t \in dead : pc[t] # "idle"
     /\ pc' = [t \in Thread |-> IF t \in dead THEN "idle" ELSE pc[t]]
     /\ mu' = [mu EXCEPT ![p] = Free]
     /\ lock' = Drop(lock, dead)
     /\ Forget(dead)
     /\ UNCHANGED <<disk, tmp, now, calls>>

\* The steps of a call under way.
Step(t) == \/ LockMu(t) \/ LockFile(t) \/ LockFileFails(t)
           \/ ReadForWrite(t) \/ ReadForRead(t) \/ ReadFails(t)
           \/ CreateTmp(t) \/ WriteTmp(t) \/ WriteTmpFails(t)
           \/ Rename(t) \/ RenameFails(t)
           \/ UnlockFile(t) \/ UnlockMu(t)

Next == \/ Tick
        \/ \E t \in Thread : Step(t) \/ \E c \in Calls : Begin(t, c)
        \/ \E p \in Proc : Crash(p)

Spec == Init /\ [][Next]_vars

\* A running goroutine is scheduled again; nobody has to call, tick or crash.
FairSpec == Spec /\ \A t \in Thread : WF_vars(Step(t))
-----------------------------------------------------------------------------
\* The types of the variables, and of what a thread holds at each of its steps.
TypeOK ==
  /\ disk \in Records \cup {Torn}
  /\ tmp \in Records \cup {NoFile, Torn}
  /\ mu \in [Proc -> [w : Thread \cup {NoThread}, r : SUBSET Thread]]
  /\ lock \in [w : Thread \cup {NoThread}, r : SUBSET Thread]
  /\ now \in Nat
  /\ pc \in [Thread -> PC]
  /\ call \in [Thread -> Calls]
  /\ since \in [Thread -> Nat]
  /\ stamp \in [Thread -> Nat]
  /\ buf \in [Thread -> Records]
  /\ out \in [Thread -> {"none", "ok", "err"}]
  /\ view \in [Thread -> Records]
  /\ calls \in Nat

\* Between its read and its rename a writer's copy is the edit of the file as it
\* still is, whatever the threads of other processes did: no update is lost.
CopyIsFresh ==
  \A t \in Thread :
    pc[t] \in {"create", "write", "rename"} =>
      buf[t] = Edited(call[t], disk, stamp[t])

\* The mutex alone keeps a writer apart from the other threads of its process,
\* with and without file locks.
Inside == {"flock", "read", "create", "write", "rename", "funlock", "unlock"}

InProcessExclusion ==
  \A t, u \in Thread :
    t # u /\ ProcOf[t] = ProcOf[u] /\ IsWrite(call[t]) /\ pc[t] \in Inside
      => pc[u] \notin Inside

\* A call that fails, or a process that is killed at any step, never leaves the
\* file half written: the next readAll always decodes it.
NeverTorn == disk # Torn

\* Only Save (of a record with that ID) and Delete (of that ID) end a pending
\* record: no Purge, failed call, crash or concurrent Save of another task does.
PendingOnlyEndedByItsCallers ==
  [][disk # Torn /\ disk' # Torn =>
       \A i \in Pending(disk) \ Pending(disk') :
         \E t \in Thread : /\ pc[t] = "rename" /\ pc'[t] = "funlock"
                          /\ call[t].kind \in {"save", "delete"}
                          /\ call[t].id = i]_vars

\* Refinement: the file store implements the atomic store.  A write takes effect
\* at os.Rename, a read at os.ReadFile.
Phase == [t \in Thread |-> IF pc[t] = "idle" THEN "idle"
                           ELSE IF out[t] = "none" THEN "called" ELSE "done"]

Atomic == INSTANCE TaskStoreAbs WITH recs <- disk, phase <- Phase

\* The store's calls are linearizable and failed calls have no effect.
ImplementsAtomic == Atomic!Spec

\* Every call returns: no error path keeps the mutex or the file lock, and a
\* killed process keeps neither.  (Callers make finitely many calls.)
CallsReturn == \A t \in Thread : (pc[t] # "idle") ~> (pc[t] = "idle")
=============================================================================
