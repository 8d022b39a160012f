------------------------ MODULE TaskLifecycleProofs ------------------------
(***************************************************************************)
(* Theorems about TaskLifecycle, for any number of tasks, jobs, engines,   *)
(* goroutines and processes and any faults, checked by TLAPS.              *)
(***************************************************************************)
EXTENDS TaskLifecycle, TLAPS

LEMMA TypeInit == LifecycleAssumption /\ Init => TypeOK
BY DEF Init, TypeOK, LifecycleAssumption, NoRecords, PC

LEMMA TypeOver ==
  ASSUME TypeOK, NEW S, Over(S)
  PROVE  /\ pc' \in [Thread -> PC]
         /\ eng' \in [Thread -> Engine \cup {NoEngine}]
         /\ job' \in [Thread -> Job \cup {NoJob}]
         /\ task' \in [Thread -> Task \cup {NoTask}]
         /\ rec' \in [Thread -> Rec \cup {Absent}]
BY DEF TypeOK, Over, PC

\* What a thread has in hand at each of its steps.
HandInv ==
  \A t \in Thread :
    /\ pc[t] \in {"execute", "await", "persist"} => eng[t] \in Engine
    /\ pc[t] \in {"await", "persist"} => job[t] \in Job /\ jobs[job[t]] # "none"
    /\ pc[t] \in {"persist", "lookup", "poll", "store"} =>
         task[t] \in Task /\ rec[t] \in Rec
    /\ pc[t] \in {"idle", "execute", "await"} => rec[t] = Absent
    /\ pc[t] = "persist" => /\ rec[t] = NewRecord(eng[t], Returned(eng[t], job[t]))
                            /\ Waits(eng[t]) => jobs[job[t]] = "succeeded"
    /\ pc[t] \in {"lookup", "poll", "store"} => rec[t].remote \in Value

\* Pending records name something to resume.
PendingInv == \A i \in Pending(recs) : recs[i].remote \in Value

LEMMA NewRecordType ==
  ASSUME LifecycleAssumption, NEW e \in Engine, NEW j \in Job
  PROVE  /\ NewRecord(e, Returned(e, j)) \in Rec
         /\ Returned(e, j) \in Value
         /\ NewRecord(e, Returned(e, j)).st = "pending"
              => NewRecord(e, Returned(e, j)).remote = Returned(e, j)
         /\ JobOf(NewRecord(e, Returned(e, j))) = j
<1>1. Answer[e] \in Kinds
  BY DEF LifecycleAssumption
<1>2. Returned(e, j) \in Value
  BY <1>1 DEF Returned, Kinds, Value
<1>3. JobOf(NewRecord(e, Returned(e, j))) = j
  <2>1. Returned(e, j) # NoValue /\ Returned(e, j).job = j
    BY <1>2 DEF Returned, LifecycleAssumption
  <2>. QED BY <2>1 DEF NewRecord, JobOf
<1>. QED BY <1>2, <1>3 DEF NewRecord, Rec, Status

LEMMA JobOfType ==
  ASSUME NEW r \in Rec
  PROVE  /\ JobOf(r) \in Job \cup {NoJob}
         /\ r.remote # NoValue => JobOf(r) = r.remote.job /\ JobOf(r) \in Job
<1>1. /\ r.remote # NoValue => r.remote.job \in Job
      /\ r.val # NoValue => r.val.job \in Job
  BY DEF Rec, Value
<1>. QED BY <1>1 DEF JobOf

TypeInv == TypeOK /\ HandInv /\ PendingInv

LEMMA TypeNext == LifecycleAssumption /\ TypeInv /\ [Next]_vars => TypeInv'
<1>. SUFFICES ASSUME LifecycleAssumption, TypeInv, [Next]_vars PROVE TypeInv'
  OBVIOUS
<1>. USE DEF TypeInv, TypeOK, PC
<1>0. Absent \notin Rec
  BY DEF LifecycleAssumption, Rec
<1>1. ASSUME NEW j \in Job, JobEnds(j) PROVE TypeInv'
  BY <1>1 DEF JobEnds, local, HandInv, PendingInv, Pending, Stored
<1>2. ASSUME NEW p \in Proc, NEW e \in Engine, RegisterEngine(p, e) \/ UnregisterEngine(p, e)
      PROVE  TypeInv'
  BY <1>2 DEF RegisterEngine, UnregisterEngine, local, HandInv, PendingInv, Pending, Stored
<1>3. ASSUME NEW t \in Thread, NEW e \in Engine, Submit(t, e) PROVE TypeInv'
  BY <1>3 DEF Submit, Goto, HandInv, PendingInv, Pending, Stored
<1>4. ASSUME NEW t \in Thread, NEW j \in Job, RemoteAccepts(t, j) PROVE TypeInv'
  BY <1>4 DEF RemoteAccepts, Goto, HandInv, PendingInv, Pending, Stored
<1>5. ASSUME NEW t \in Thread, NEW i \in Task, ExecuteReturns(t, i) PROVE TypeInv'
  <2>1. eng[t] \in Engine /\ job[t] \in Job
    BY <1>5 DEF ExecuteReturns, Goto, HandInv
  <2>2. NewRecord(eng[t], Returned(eng[t], job[t])) \in Rec
    BY <2>1, NewRecordType
  <2>3. TypeOK'
    BY <1>5, <2>2 DEF ExecuteReturns, Goto
  <2>4. HandInv'
    BY <1>5, <2>1, <2>2 DEF ExecuteReturns, Goto, HandInv
  <2>5. PendingInv'
    BY <1>5 DEF ExecuteReturns, PendingInv, Pending, Stored
  <2>. QED BY <2>3, <2>4, <2>5
<1>6. ASSUME NEW t \in Thread,
             ExecuteFails(t) \/ ExecuteInterrupted(t) \/ PersistFails(t)
               \/ LookupFails(t) \/ StoreFails(t)
      PROVE  TypeInv'
  <2>1. /\ Over({t})
        /\ UNCHANGED <<jobs, recs, used, registered, known>>
        /\ lost' \subseteq Job /\ cut' = cut /\ faults' \in Nat
    BY <1>6 DEF ExecuteFails, ExecuteInterrupted, PersistFails, LookupFails, StoreFails,
                Fault, Unsaved
  <2>2. TypeOK'
    BY <2>1, TypeOver
  <2>3. HandInv' /\ PendingInv'
    BY <2>1 DEF Over, HandInv, PendingInv, Pending, Stored
  <2>. QED BY <2>2, <2>3
<1>7. ASSUME NEW t \in Thread, PersistTask(t) \/ StoreOutcome(t) PROVE TypeInv'
  <2>1. /\ task[t] \in Task /\ rec[t] \in Rec
        /\ recs' = Upsert(recs, task[t], rec[t]) /\ Over({t})
        /\ UNCHANGED <<jobs, used, registered, lost, cut, faults>>
        /\ known' \in [Proc -> SUBSET Task]
    BY <1>7 DEF PersistTask, StoreOutcome, HandInv, LifecycleAssumption
  <2>2. recs' \in [Task -> Rec \cup {Absent}]
    BY <2>1 DEF Upsert
  <2>3. TypeOK'
    BY <2>1, <2>2, TypeOver
  <2>4. HandInv'
    BY <2>1 DEF Over, HandInv
  <2>5. rec[t].st = "pending" => rec[t].remote \in Value
    <3>1. CASE PersistTask(t)
      BY <3>1, NewRecordType DEF PersistTask, HandInv
    <3>2. CASE StoreOutcome(t)
      BY <3>2 DEF StoreOutcome, HandInv
    <3>. QED BY <1>7, <3>1, <3>2
  <2>6. PendingInv'
    BY <2>1, <2>5 DEF PendingInv, Pending, Stored, Upsert
  <2>. QED BY <2>3, <2>4, <2>6
<1>8. ASSUME NEW t \in Thread, RecoverPending(t) PROVE TypeInv'
  BY <1>8 DEF RecoverPending, local, HandInv, PendingInv, Pending, Stored, LifecycleAssumption
<1>9. ASSUME NEW t \in Thread, NEW i \in Task, LoadTask(t, i) PROVE TypeInv'
  <2>1. i \in Pending(recs) /\ recs[i] \in Rec /\ recs[i].remote \in Value
    BY <1>0, <1>9 DEF LoadTask, PendingInv, Pending, Stored
  <2>2. TypeOK'
    BY <1>9, <2>1 DEF LoadTask, Goto
  <2>3. HandInv'
    BY <1>9, <2>1 DEF LoadTask, Goto, HandInv
  <2>4. PendingInv'
    BY <1>9 DEF LoadTask, PendingInv, Pending, Stored
  <2>. QED BY <2>2, <2>3, <2>4
<1>10. ASSUME NEW t \in Thread, LookupEngine(t) PROVE TypeInv'
  BY <1>10 DEF LookupEngine, local, Goto, HandInv, PendingInv, Pending, Stored
<1>11. ASSUME NEW t \in Thread, PollSucceeds(t) \/ PollFails(t) \/ PollInterrupted(t)
       PROVE  TypeInv'
  <2>1. pc[t] = "poll" /\ task[t] \in Task /\ cut' \subseteq Task /\ faults' \in Nat
    BY <1>11 DEF PollSucceeds, PollFails, PollInterrupted, Fault, HandInv
  <2>2. PICK st \in Status, v \in Value \cup {NoValue} : Settle(t, st, v)
    <3>1. CASE PollSucceeds(t)
      BY <3>1 DEF PollSucceeds, HandInv, Value, Status
    <3>2. CASE PollFails(t) \/ PollInterrupted(t)
      BY <3>2 DEF PollFails, PollInterrupted, Status
    <3>. QED BY <1>11, <3>1, <3>2
  <2>3. rec[t] \in Rec /\ rec[t].remote \in Value
    BY <2>1 DEF HandInv
  <2>4. rec'[t] = [rec[t] EXCEPT !.st = st, !.val = v]
    BY <2>2, <2>3 DEF Settle
  <2>5. rec'[t] \in Rec /\ rec'[t].remote = rec[t].remote
    BY <2>3, <2>4 DEF Rec
  <2>6. rec' \in [Thread -> Rec \cup {Absent}] /\ \A u \in Thread \ {t} : rec'[u] = rec[u]
    BY <2>2, <2>5 DEF Settle
  <2>7. TypeOK'
    BY <2>1, <2>2, <2>6 DEF Settle
  <2>8. HandInv'
    BY <2>1, <2>2, <2>3, <2>5, <2>6 DEF Settle, HandInv
  <2>9. PendingInv'
    BY <2>2 DEF Settle, PendingInv, Pending, Stored
  <2>. QED BY <2>7, <2>8, <2>9
<1>12. ASSUME NEW t \in Thread, NEW S \in SUBSET Task,
              recs' = Without(recs, S), lost' = lost \cup JobsOf(S), S \subseteq Stored(recs),
              UNCHANGED <<jobs, used, registered, known, pc, local, cut, faults>>
       PROVE  TypeInv'
  <2>1. JobsOf(S) \subseteq Job
    <3>1. \A i \in S : recs[i] \in Rec
      BY <1>12 DEF Stored
    <3>. QED BY <3>1, JobOfType DEF JobsOf
  <2>2. recs' \in [Task -> Rec \cup {Absent}] /\ lost' \subseteq Job
    BY <1>12, <2>1 DEF Without
  <2>3. TypeOK'
    BY <1>12, <2>2 DEF local
  <2>4. HandInv'
    BY <1>12 DEF local, HandInv
  <2>5. PendingInv'
    BY <1>12 DEF Without, PendingInv, Pending, Stored
  <2>. QED BY <2>3, <2>4, <2>5
<1>13. ASSUME NEW t \in Thread, NEW i \in Task, Delete(t, i) PROVE TypeInv'
  <2>1. {i} \in SUBSET Task /\ {i} \subseteq Stored(recs)
    BY <1>13 DEF Delete
  <2>2. /\ recs' = Without(recs, {i}) /\ lost' = lost \cup JobsOf({i})
        /\ UNCHANGED <<jobs, used, registered, known, pc, local, cut, faults>>
    BY <1>13 DEF Delete
  <2>. QED BY <1>12, <2>1, <2>2
<1>14. ASSUME NEW t \in Thread, NEW S \in SUBSET (Stored(recs) \ Pending(recs)), Purge(t, S)
       PROVE  TypeInv'
  <2>1. S \in SUBSET Task /\ S \subseteq Stored(recs)
    BY DEF Stored
  <2>2. /\ recs' = Without(recs, S) /\ lost' = lost \cup JobsOf(S)
        /\ UNCHANGED <<jobs, used, registered, known, pc, local, cut, faults>>
    BY <1>14 DEF Purge
  <2>. QED BY <1>12, <2>1, <2>2
<1>15. ASSUME NEW p \in Proc, Crash(p) PROVE TypeInv'
  <2>. DEFINE dead == {t \in Thread : ProcOf[t] = p}
  <2>1. /\ Over(dead) /\ UNCHANGED <<jobs, recs, used, cut>>
        /\ lost' \subseteq Job /\ faults' \in Nat
        /\ registered' \in [Proc -> SUBSET Engine] /\ known' \in [Proc -> SUBSET Task]
    BY <1>15 DEF Crash, Fault, Unsaved
  <2>2. TypeOK'
    BY <2>1, TypeOver
  <2>3. HandInv' /\ PendingInv'
    BY <2>1 DEF Over, HandInv, PendingInv, Pending, Stored
  <2>. QED BY <2>2, <2>3
<1>16. CASE UNCHANGED vars
  BY <1>16 DEF vars, HandInv, PendingInv, Pending, Stored
<1>. QED
  BY <1>1, <1>2, <1>3, <1>4, <1>5, <1>6, <1>7, <1>8, <1>9, <1>10, <1>11, <1>13, <1>14,
     <1>15, <1>16 DEF Next, Step

LEMMA TypeInvInit == LifecycleAssumption /\ Init => TypeInv
BY TypeInit DEF TypeInv, Init, HandInv, PendingInv, Pending, Stored, NoRecords

\* The variables keep their types, and a thread always has in hand what its next
\* step needs.
THEOREM TypeCorrect == Spec => []TypeOK
<1>1. TypeInv => TypeOK
  BY DEF TypeInv
<1>. QED BY <1>1, TypeInvInit, TypeNext, LifecycleAssumption, PTL DEF Spec
-----------------------------------------------------------------------------
(* Results.  The records of the store and the records in the hands of threads  *)
(* are of the same sort: a completed one holds the result of a finished job.   *)

Sound(r) ==
  r.st = "completed" =>
    /\ r.val # NoValue
    /\ IF r.val.what = "id" THEN Answer[r.eng] = "idAsMedia"
                            ELSE jobs[r.val.job] = "succeeded"

ResultInv ==
  /\ \A i \in Stored(recs) : Sound(recs[i])
  /\ \A t \in Thread : rec[t] # Absent => Sound(rec[t])

\* A job that has ended stays as it is.
LEMMA EndedStays ==
  ASSUME TypeOK, [Next]_vars, NEW j \in Job, jobs[j] \in {"succeeded", "failed"}
  PROVE  jobs'[j] = jobs[j]
<1>. USE DEF TypeOK
<1>1. ASSUME NEW k \in Job, JobEnds(k) PROVE jobs'[j] = jobs[j]
  BY <1>1 DEF JobEnds
<1>2. ASSUME NEW t \in Thread, NEW k \in Job, RemoteAccepts(t, k)
      PROVE  jobs'[j] = jobs[j]
  BY <1>2 DEF RemoteAccepts
<1>3. CASE UNCHANGED jobs
  BY <1>3
<1>. QED
  BY <1>1, <1>2, <1>3
  DEF Next, Step, vars, RegisterEngine, UnregisterEngine, Submit, ExecuteReturns,
      ExecuteFails, ExecuteInterrupted, PersistTask, PersistFails, RecoverPending, LoadTask,
      LookupEngine, LookupFails, Settle, PollSucceeds, PollFails, PollInterrupted,
      StoreOutcome, StoreFails, Delete, Purge, Crash

LEMMA SoundStays ==
  ASSUME LifecycleAssumption, TypeOK, [Next]_vars, NEW r \in Rec, Sound(r)
  PROVE  Sound(r)'
BY EndedStays DEF Sound, Rec, Value

\* Every record a step puts into the store or into a thread's hands is sound.
LEMMA ResultNext ==
  ASSUME LifecycleAssumption, TypeInv, ResultInv, [Next]_vars
  PROVE  ResultInv'
<1>. USE DEF TypeInv, TypeOK
<1>0. Absent \notin Rec
  BY DEF LifecycleAssumption, Rec
<1>a. \A r \in Rec : Sound(r) => Sound(r)'
  BY SoundStays
<1>b. ASSUME \A i \in Task : recs'[i] # Absent =>
               recs'[i] = recs[i] \/ \E t \in Thread : rec[t] # Absent /\ recs'[i] = rec[t],
             \A t \in Thread : rec'[t] # Absent =>
               \/ rec'[t] = rec[t]
               \/ \E i \in Stored(recs) : rec'[t] = recs[i]
               \/ rec'[t] \in Rec /\ Sound(rec'[t])
      PROVE  ResultInv'
  <2>1. ASSUME NEW i \in Task, recs'[i] # Absent PROVE Sound(recs[i])'
    BY <1>a, <1>b, <2>1 DEF ResultInv, Stored, Sound
  <2>2. ASSUME NEW t \in Thread, rec'[t] # Absent PROVE Sound(rec[t])'
    BY <1>a, <1>b, <2>2 DEF ResultInv, Stored, Sound
  <2>. QED BY <2>1, <2>2 DEF ResultInv, Stored
<1>1. CASE UNCHANGED <<recs, rec>>
  BY <1>b, <1>1
<1>2. ASSUME NEW t \in Thread, NEW i \in Task, ExecuteReturns(t, i) PROVE ResultInv'
  <2>. DEFINE r == NewRecord(eng[t], Returned(eng[t], job[t]))
  <2>1. /\ eng[t] \in Engine /\ job[t] \in Job
        /\ Waits(eng[t]) => jobs[job[t]] = "succeeded"
    BY <1>2 DEF ExecuteReturns, Goto, HandInv
  <2>2. r \in Rec
    BY <2>1, NewRecordType
  <2>3. Sound(r)
    <3>1. Answer[eng[t]] \in Kinds /\ Returned(eng[t], job[t]) # NoValue
      BY <2>1, NewRecordType DEF LifecycleAssumption
    <3>2. CASE PlainText(eng[t])
      BY <3>2 DEF Sound, NewRecord
    <3>3. CASE ~PlainText(eng[t])
      BY <2>1, <3>1, <3>3 DEF Sound, NewRecord, Returned, PlainText, Waits, Kinds
    <3>. QED BY <3>2, <3>3
  <2>4. rec' = [rec EXCEPT ![t] = r] /\ recs' = recs
    BY <1>2 DEF ExecuteReturns
  <2>5. \A u \in Thread : rec'[u] = IF u = t THEN r ELSE rec[u]
    BY <2>4
  <2>. HIDE DEF r
  <2>. QED BY <1>b, <2>2, <2>3, <2>4, <2>5
<1>3. ASSUME NEW t \in Thread, Over({t}), recs' = recs PROVE ResultInv'
  BY <1>b, <1>3 DEF Over
<1>4. ASSUME NEW t \in Thread, PersistTask(t) \/ StoreOutcome(t) PROVE ResultInv'
  <2>1. rec[t] \in Rec /\ task[t] \in Task
    BY <1>4 DEF PersistTask, StoreOutcome, HandInv
  <2>2. /\ recs' = [recs EXCEPT ![task[t]] = rec[t]]
        /\ \A u \in Thread : rec'[u] # Absent => rec'[u] = rec[u]
    BY <1>4 DEF PersistTask, StoreOutcome, Upsert, Over
  <2>. QED BY <1>0, <1>b, <2>1, <2>2
<1>5. ASSUME NEW t \in Thread, NEW i \in Task, LoadTask(t, i) PROVE ResultInv'
  <2>1. i \in Stored(recs) /\ rec' = [rec EXCEPT ![t] = recs[i]] /\ recs' = recs
    BY <1>5 DEF LoadTask, Pending
  <2>. QED BY <1>b, <2>1
<1>6. ASSUME NEW t \in Thread, PollSucceeds(t) \/ PollFails(t) \/ PollInterrupted(t)
      PROVE  ResultInv'
  <2>1. rec[t] \in Rec /\ rec[t].remote \in Value /\ recs' = recs
    BY <1>6 DEF PollSucceeds, PollFails, PollInterrupted, Settle, HandInv
  <2>2. PICK v \in Value \cup {NoValue}, st \in {"completed", "failed"} :
          /\ rec' = [rec EXCEPT ![t].st = st, ![t].val = v]
          /\ st = "completed" =>
               v \in Value /\ v.what = "media" /\ jobs[v.job] = "succeeded"
    <3>1. CASE PollSucceeds(t)
      <4>. DEFINE v == [what |-> "media", job |-> rec[t].remote.job]
      <4>1. v \in Value /\ jobs[v.job] = "succeeded"
        BY <2>1, <3>1 DEF PollSucceeds, Names, Value
      <4>. QED BY <3>1, <4>1 DEF PollSucceeds, Settle
    <3>2. CASE PollFails(t) \/ PollInterrupted(t)
      BY <3>2 DEF PollFails, PollInterrupted, Settle
    <3>. QED BY <1>6, <3>1, <3>2
  <2>3. rec'[t] = [rec[t] EXCEPT !.st = st, !.val = v]
    BY <2>1, <2>2
  <2>4. rec'[t] \in Rec /\ rec'[t].st = st /\ rec'[t].val = v
    BY <2>1, <2>3 DEF Rec, Status
  <2>5. Sound(rec'[t])
    BY <2>2, <2>4 DEF Sound, LifecycleAssumption
  <2>6. \A u \in Thread \ {t} : rec'[u] = rec[u]
    BY <2>2
  <2>. QED BY <1>b, <2>1, <2>4, <2>5, <2>6
<1>7. ASSUME NEW S \in SUBSET Task, recs' = Without(recs, S), rec' = rec PROVE ResultInv'
  BY <1>b, <1>7 DEF Without
<1>8. ASSUME NEW t \in Thread, NEW i \in Task, Delete(t, i) PROVE ResultInv'
  <2>1. {i} \in SUBSET Task /\ recs' = Without(recs, {i}) /\ rec' = rec
    BY <1>8 DEF Delete, local
  <2>. QED BY <1>7, <2>1
<1>9. ASSUME NEW t \in Thread, NEW S \in SUBSET (Stored(recs) \ Pending(recs)), Purge(t, S)
      PROVE  ResultInv'
  <2>1. S \in SUBSET Task /\ recs' = Without(recs, S) /\ rec' = rec
    BY <1>9 DEF Purge, local, Stored
  <2>. QED BY <1>7, <2>1
<1>10. ASSUME NEW p \in Proc, Crash(p) PROVE ResultInv'
  BY <1>b, <1>10 DEF Crash, Over
<1>. QED
  BY <1>1, <1>2, <1>3, <1>4, <1>5, <1>6, <1>8, <1>9, <1>10
  DEF Next, Step, vars, local, JobEnds, RegisterEngine, UnregisterEngine, Submit,
      RemoteAccepts, ExecuteFails, ExecuteInterrupted, PersistFails, RecoverPending,
      LookupEngine, LookupFails, StoreFails

\* A completed record holds the result of a remote job that succeeded, through
\* crashes, failed saves, interruptions and Resumes of the same task by several
\* processes, whatever engines return; only an engine that calls a remote task ID
\* a medium has that ID stored for a result.
THEOREM CompletedIsResult == Spec => []CompletedHoldsResult
<1>1. Init => ResultInv
  BY DEF Init, ResultInv, Stored, NoRecords
<1>2. TypeInv /\ ResultInv /\ [Next]_vars => ResultInv'
  BY ResultNext, LifecycleAssumption
<1>3. ResultInv => CompletedHoldsResult
  BY DEF ResultInv, Sound, CompletedHoldsResult
<1>. QED BY <1>1, <1>2, <1>3, TypeInvInit, TypeNext, LifecycleAssumption, PTL DEF Spec
-----------------------------------------------------------------------------
(* Jobs and records.  A record, stored or in a thread's hands, claims the job  *)
(* it names.  All claims to a job are made under one task ID.                  *)

Claims(r, j) == r # Absent /\ JobOf(r) = j

\* The same claims, or none.
SameClaim(r, s) ==
  /\ r = Absent <=> s = Absent
  /\ r # Absent => r.remote = s.remote /\ r.eng = s.eng /\ JobOf(r) = JobOf(s)

InHand(t, j) == pc[t] \in {"await", "persist"} /\ job[t] = j

Resuming == {"lookup", "poll", "store"}

\* IDs in use, and nobody else works under the ID of a new task.
IdInv ==
  /\ \A i \in Stored(recs) : i \in used
  /\ \A t \in Thread : task[t] \in used \cup {NoTask}
  /\ \A t \in Thread : pc[t] = "persist" => recs[task[t]] = Absent
  /\ \A t, u \in Thread : t # u /\ pc[t] = "persist" => task[u] # task[t]

\* A job that was not started is claimed by nobody.
StartedInv ==
  /\ \A j \in Job, i \in Task : Claims(recs[i], j) => jobs[j] # "none"
  /\ \A j \in Job, t \in Thread : Claims(rec[t], j) => jobs[j] # "none"

\* All claims to a job are made under one ID.
OneIdInv ==
  /\ \A j \in Job, i, k \in Task : Claims(recs[i], j) /\ Claims(recs[k], j) => i = k
  /\ \A j \in Job, i \in Task, t \in Thread :
       Claims(recs[i], j) /\ Claims(rec[t], j) => i = task[t]
  /\ \A j \in Job, t, u \in Thread :
       Claims(rec[t], j) /\ Claims(rec[u], j) => task[t] = task[u]

\* A job in the hands of a Submit is claimed by nobody else.
InHandInv ==
  /\ \A j \in Job, t \in Thread, i \in Task : InHand(t, j) => ~Claims(recs[i], j)
  /\ \A j \in Job, t, u \in Thread : InHand(t, j) /\ Claims(rec[u], j) => u = t
  /\ \A j \in Job, t, u \in Thread : InHand(t, j) /\ InHand(u, j) => t = u

\* All claims made under one ID are to the same job of the same engine.
OneJobInv ==
  /\ \A i \in Task, t \in Thread :
       pc[t] \in Resuming /\ task[t] = i /\ recs[i] # Absent
         => recs[i].remote = rec[t].remote /\ recs[i].eng = rec[t].eng
  /\ \A t, u \in Thread :
       pc[t] \in Resuming /\ pc[u] \in Resuming /\ task[t] = task[u]
         => rec[t].remote = rec[u].remote /\ rec[t].eng = rec[u].eng

ClaimInv == IdInv /\ StartedInv /\ OneIdInv /\ InHandInv /\ OneJobInv

LEMMA ClaimInit == LifecycleAssumption /\ Init => ClaimInv
BY DEF Init, ClaimInv, IdInv, StartedInv, OneIdInv, InHandInv, OneJobInv, Stored, NoRecords, Claims, InHand, Resuming

LEMMA ClaimNext ==
  ASSUME LifecycleAssumption, TypeInv, ClaimInv, [Next]_vars
  PROVE  ClaimInv'
<1>. USE DEF TypeInv, TypeOK
<1>0. Absent \notin Rec /\ NoValue \notin Value /\ NoTask \notin Task
  BY DEF LifecycleAssumption, Rec
\* Steps that end calls, remove records, poll or let jobs go on.
<1>1. ASSUME \A j \in Job : jobs[j] # "none" => jobs'[j] # "none",
             \A i \in Task : recs'[i] # Absent => recs'[i] = recs[i],
             used' = used,
             \A t \in Thread :
               \/ /\ pc'[t] \in {"idle", "execute"} /\ rec'[t] = Absent
                  /\ task'[t] \in {task[t], NoTask}
               \/ /\ SameClaim(rec'[t], rec[t])
                  /\ task'[t] = task[t] /\ job'[t] = job[t]
                  /\ \/ pc'[t] = pc[t]
                     \/ pc[t] \in Resuming /\ pc'[t] \in Resuming
      PROVE  ClaimInv'
  <2>1. \A t \in Thread :
          pc'[t] \in {"await", "persist"} \cup Resuming =>
            /\ SameClaim(rec'[t], rec[t]) /\ task'[t] = task[t] /\ job'[t] = job[t]
            /\ \/ pc'[t] = pc[t]
               \/ pc[t] \in Resuming /\ pc'[t] \in Resuming
    BY <1>1 DEF Resuming
  <2>2. \A t \in Thread :
          rec'[t] # Absent => SameClaim(rec'[t], rec[t]) /\ task'[t] = task[t]
    BY <1>1
  <2>3. \A t \in Thread, j \in Job : InHand(t, j)' => InHand(t, j)
    BY <2>1 DEF InHand, Resuming
  <2>4. \A t \in Thread, j \in Job :
          Claims(rec'[t], j) => Claims(rec[t], j) /\ task'[t] = task[t]
    BY <2>2 DEF Claims, SameClaim
  <2>5. \A i \in Task, j \in Job : Claims(recs'[i], j) => Claims(recs[i], j)
    BY <1>1 DEF Claims
  <2>6. \A t \in Thread : task'[t] \in {task[t], NoTask}
    BY <1>1
  <2>7. \A t \in Thread : pc'[t] \in Resuming =>
          /\ pc[t] \in Resuming /\ task'[t] = task[t]
          /\ rec'[t].remote = rec[t].remote /\ rec'[t].eng = rec[t].eng
    BY <1>0, <2>1 DEF Resuming, SameClaim, HandInv
  <2>8. \A t \in Thread : pc'[t] = "persist" => pc[t] = "persist" /\ task'[t] = task[t]
    BY <2>1 DEF Resuming
  <2>9. \A t \in Thread : pc[t] \in {"persist"} \cup Resuming => task[t] \in Task
    BY DEF HandInv, Resuming
  <2>. QED
    BY <1>0, <1>1, <2>3, <2>4, <2>5, <2>6, <2>7, <2>8, <2>9 DEF ClaimInv, IdInv, StartedInv, OneIdInv, InHandInv, OneJobInv, Stored
<1>2. CASE UNCHANGED <<recs, used, pc, job, task, rec>> /\
           \A j \in Job : jobs[j] # "none" => jobs'[j] # "none"
  BY <1>1, <1>2 DEF SameClaim
<1>3. ASSUME NEW S \in SUBSET Thread, Over(S), UNCHANGED <<jobs, recs, used>>
      PROVE  ClaimInv'
  BY <1>1, <1>3 DEF Over, SameClaim
<1>4. ASSUME NEW t \in Thread, NEW e \in Engine, Submit(t, e) PROVE ClaimInv'
  BY <1>1, <1>4 DEF Submit, Goto, SameClaim, HandInv
<1>5. ASSUME NEW t \in Thread,
             LookupEngine(t) \/ PollSucceeds(t) \/ PollFails(t) \/ PollInterrupted(t)
      PROVE  ClaimInv'
  <2>1. pc[t] \in {"lookup", "poll"} /\ rec[t] \in Rec
    BY <1>5 DEF LookupEngine, Goto, PollSucceeds, PollFails, PollInterrupted, HandInv
  <2>2. /\ UNCHANGED <<jobs, recs, used, job, task>>
        /\ pc'[t] \in {"poll", "store"}
        /\ \A u \in Thread \ {t} : pc'[u] = pc[u] /\ rec'[u] = rec[u]
    BY <1>5 DEF LookupEngine, local, Goto, PollSucceeds, PollFails, PollInterrupted, Settle
  <2>3. SameClaim(rec'[t], rec[t])
    <3>1. CASE LookupEngine(t)
      BY <3>1 DEF LookupEngine, local, SameClaim
    <3>2. ASSUME NEW st, NEW v, Settle(t, st, v) PROVE SameClaim(rec'[t], rec[t])
      <4>1. rec'[t] = [rec[t] EXCEPT !.st = st, !.val = v]
        BY <2>1, <3>2 DEF Settle
      <4>2. HandInv'
        BY TypeNext
      <4>3. pc'[t] = "store"
        BY <3>2 DEF Settle
      <4>4. rec'[t] # Absent
        BY <1>0, <4>2, <4>3 DEF HandInv
      <4>5. rec[t].remote # NoValue
        BY <1>0, <2>1 DEF HandInv
      <4>6. rec'[t].remote = rec[t].remote /\ rec'[t].eng = rec[t].eng
        BY <2>1, <4>1 DEF Rec
      <4>7. JobOf(rec'[t]) = JobOf(rec[t])
        BY <4>5, <4>6 DEF JobOf
      <4>. QED BY <1>0, <2>1, <4>4, <4>6, <4>7 DEF SameClaim
    <3>. QED BY <1>5, <3>1, <3>2 DEF PollSucceeds, PollFails, PollInterrupted
  <2>. QED BY <1>1, <2>1, <2>2, <2>3 DEF SameClaim, Resuming
<1>6. ASSUME NEW t \in Thread, NEW j \in Job, RemoteAccepts(t, j) PROVE ClaimInv'
  <2>1. /\ jobs[j] = "none" /\ jobs' = [jobs EXCEPT ![j] = "running"]
        /\ UNCHANGED <<recs, used, task, rec>>
        /\ pc[t] = "execute" /\ pc' = [pc EXCEPT ![t] = "await"]
        /\ job' = [job EXCEPT ![t] = j]
    BY <1>6 DEF RemoteAccepts, Goto
  <2>2. \A u \in Thread : pc'[u] \in {"persist"} \cup Resuming <=> pc[u] \in {"persist"} \cup Resuming
    BY <2>1 DEF Resuming
  <2>3. \A u \in Thread : pc'[u] = "persist" <=> pc[u] = "persist"
    BY <2>1
  <2>4. \A k \in Job : jobs[k] # "none" => jobs'[k] # "none"
    BY <2>1
  <2>5. \A u \in Thread, k \in Job : InHand(u, k)' <=> InHand(u, k) \/ (u = t /\ k = j)
    BY <2>1 DEF InHand
  <2>6. /\ \A i \in Task : ~Claims(recs[i], j)
        /\ \A u \in Thread : ~Claims(rec[u], j) /\ ~InHand(u, j)
    BY <2>1 DEF ClaimInv, IdInv, StartedInv, OneIdInv, InHandInv, OneJobInv, InHand, HandInv
  <2>7. \A u \in Thread : pc'[u] \in Resuming <=> pc[u] \in Resuming
    BY <2>1 DEF Resuming
  <2>. QED BY <2>1, <2>2, <2>3, <2>4, <2>5, <2>6, <2>7 DEF ClaimInv, IdInv, StartedInv, OneIdInv, InHandInv, OneJobInv, Stored
<1>7. ASSUME NEW t \in Thread, NEW i \in Task, ExecuteReturns(t, i) PROVE ClaimInv'
  <2>. DEFINE r == NewRecord(eng[t], Returned(eng[t], job[t]))
  <2>1. /\ i \notin used /\ used' = used \cup {i}
        /\ UNCHANGED <<jobs, recs, job>>
        /\ pc[t] = "await" /\ pc' = [pc EXCEPT ![t] = "persist"]
        /\ task' = [task EXCEPT ![t] = i]
        /\ rec' = [rec EXCEPT ![t] = r]
        /\ eng[t] \in Engine /\ job[t] \in Job /\ jobs[job[t]] # "none"
    BY <1>7 DEF ExecuteReturns, Goto, HandInv
  <2>2. r \in Rec /\ \A j \in Job : Claims(r, j) => j = job[t]
    <3>1. r \in Rec /\ JobOf(r) = job[t]
      BY <2>1, NewRecordType
    <3>. HIDE DEF r
    <3>. QED BY <3>1 DEF Claims
  <2>. HIDE DEF r
  <2>3. \A j \in Job, u \in Thread :
          Claims(rec'[u], j) => (Claims(rec[u], j) /\ u # t) \/ (u = t /\ j = job[t])
    BY <2>1, <2>2
  <2>4. InHand(t, job[t])
    BY <2>1 DEF InHand
  <2>5. \A u \in Thread, j \in Job : InHand(u, j)' <=> InHand(u, j)
    BY <2>1 DEF InHand
  <2>6. \A u \in Thread : pc'[u] \in Resuming <=> pc[u] \in Resuming /\ u # t
    BY <2>1 DEF Resuming
  <2>7. \A u \in Thread : pc'[u] = "persist" <=> pc[u] = "persist" \/ u = t
    BY <2>1
  <2>8. \A u \in Thread \ {t} : task'[u] = task[u] /\ rec'[u] = rec[u]
    BY <2>1
  <2>9. task'[t] = i /\ recs[i] = Absent
    BY <2>1 DEF ClaimInv, IdInv, StartedInv, OneIdInv, InHandInv, OneJobInv, Stored
  <2>10. \A u \in Thread \ {t} : task[u] # i
    BY <1>0, <2>1 DEF ClaimInv, IdInv, StartedInv, OneIdInv, InHandInv, OneJobInv
  <2>. QED BY <2>1, <2>3, <2>4, <2>5, <2>6, <2>7, <2>8, <2>9, <2>10 DEF ClaimInv, IdInv, StartedInv, OneIdInv, InHandInv, OneJobInv, Stored
<1>8. ASSUME NEW t \in Thread, PersistTask(t) \/ StoreOutcome(t) PROVE ClaimInv'
  <2>1. /\ task[t] \in Task /\ task[t] \in used /\ rec[t] \in Rec
        /\ recs' = [recs EXCEPT ![task[t]] = rec[t]] /\ Over({t})
        /\ UNCHANGED <<jobs, used>>
        /\ pc[t] \in {"persist", "store"}
    BY <1>0, <1>8 DEF PersistTask, StoreOutcome, HandInv, Upsert, ClaimInv, IdInv, StartedInv, OneIdInv, InHandInv, OneJobInv
  <2>2. \A u \in Thread : pc'[u] = "persist" => pc[u] = "persist" /\ u # t
    BY <2>1 DEF Over
  <2>3. \A u \in Thread : pc'[u] \in Resuming => pc[u] \in Resuming /\ u # t
    BY <2>1 DEF Over, Resuming
  <2>4. /\ task'[t] = NoTask /\ rec'[t] = Absent
        /\ \A u \in Thread \ {t} : task'[u] = task[u] /\ rec'[u] = rec[u]
    BY <2>1 DEF Over
  <2>5. \A u \in Thread, j \in Job : InHand(u, j)' => InHand(u, j) /\ u # t
    BY <2>1 DEF Over, InHand
  <2>6. \A u \in Thread, j \in Job : Claims(rec'[u], j) => Claims(rec[u], j) /\ u # t
    BY <2>4 DEF Claims
  <2>7. \A i \in Task, j \in Job :
          Claims(recs'[i], j) => IF i = task[t] THEN Claims(rec[t], j) ELSE Claims(recs[i], j)
    BY <2>1
  <2>8. \A i \in Task : recs'[i] = IF i = task[t] THEN rec[t] ELSE recs[i]
    BY <2>1
  <2>9. \A u \in Thread \ {t} : pc[u] = "persist" => task[u] # task[t]
    BY DEF ClaimInv, IdInv, StartedInv, OneIdInv, InHandInv, OneJobInv
  <2>10. \A u \in Thread \ {t} :
           pc[u] \in Resuming /\ task[u] = task[t] =>
             rec[t].remote = rec[u].remote /\ rec[t].eng = rec[u].eng
    BY <2>1 DEF ClaimInv, IdInv, StartedInv, OneIdInv, InHandInv, OneJobInv, Resuming
  <2>11. IdInv'
    <3>1. \A i \in Task : recs'[i] # Absent => i \in used'
      BY <2>1, <2>8 DEF ClaimInv, IdInv, Stored
    <3>2. \A u \in Thread : task'[u] \in used' \cup {NoTask}
      BY <2>1, <2>4 DEF ClaimInv, IdInv
    <3>3. \A u \in Thread : pc'[u] = "persist" => recs'[task'[u]] = Absent
      <4>1. SUFFICES ASSUME NEW u \in Thread, pc'[u] = "persist"
                     PROVE  recs'[task'[u]] = Absent
        OBVIOUS
      <4>2. u # t /\ pc[u] = "persist" /\ task'[u] = task[u] /\ task[u] # task[t]
        BY <2>2, <2>4, <2>9, <4>1
      <4>3. recs[task[u]] = Absent /\ task[u] \in Task
        BY <4>2 DEF ClaimInv, IdInv, HandInv
      <4>. QED BY <2>8, <4>2, <4>3
    <3>4. \A u, v \in Thread : u # v /\ pc'[u] = "persist" => task'[v] # task'[u]
      <4>1. SUFFICES ASSUME NEW u \in Thread, NEW v \in Thread, u # v, pc'[u] = "persist"
                     PROVE  task'[v] # task'[u]
        OBVIOUS
      <4>2. u # t /\ pc[u] = "persist" /\ task'[u] = task[u] /\ task[u] \in Task
        BY <2>2, <2>4, <4>1 DEF HandInv
      <4>. QED BY <1>0, <2>4, <4>1, <4>2 DEF ClaimInv, IdInv
    <3>. QED BY <3>1, <3>2, <3>3, <3>4 DEF IdInv, Stored
  <2>12. StartedInv'
    BY <2>1, <2>6, <2>7 DEF ClaimInv, StartedInv
  <2>13. OneIdInv'
    BY <2>4, <2>6, <2>7 DEF ClaimInv, OneIdInv
  <2>14. InHandInv'
    BY <2>5, <2>6, <2>7 DEF ClaimInv, InHandInv
  <2>15. OneJobInv'
    BY <2>3, <2>4, <2>8, <2>10 DEF ClaimInv, OneJobInv
  <2>. QED BY <2>11, <2>12, <2>13, <2>14, <2>15 DEF ClaimInv
<1>9. ASSUME NEW t \in Thread, NEW i \in Task, LoadTask(t, i) PROVE ClaimInv'
  <2>1. /\ recs[i] # Absent /\ i \in used
        /\ UNCHANGED <<jobs, recs, used, job>>
        /\ pc[t] = "idle" /\ pc' = [pc EXCEPT ![t] = "lookup"]
        /\ task' = [task EXCEPT ![t] = i]
        /\ rec' = [rec EXCEPT ![t] = recs[i]]
    BY <1>9 DEF LoadTask, Goto, Pending, Stored, ClaimInv, IdInv, StartedInv, OneIdInv, InHandInv, OneJobInv
  <2>2. \A u \in Thread : pc'[u] = "persist" <=> pc[u] = "persist" /\ u # t
    BY <2>1
  <2>3. \A u \in Thread \ {t} :
          /\ pc'[u] \in Resuming <=> pc[u] \in Resuming
          /\ task'[u] = task[u] /\ rec'[u] = rec[u]
    BY <2>1
  <2>4. task'[t] = i /\ rec'[t] = recs[i]
    BY <2>1
  <2>5. \A u \in Thread, j \in Job : InHand(u, j)' <=> InHand(u, j)
    BY <2>1 DEF InHand
  <2>6. \A u \in Thread : pc[u] = "persist" => task[u] # i
    BY <2>1 DEF ClaimInv, IdInv, StartedInv, OneIdInv, InHandInv, OneJobInv
  <2>. QED BY <2>1, <2>2, <2>3, <2>4, <2>5, <2>6 DEF ClaimInv, IdInv, StartedInv, OneIdInv, InHandInv, OneJobInv, Stored
<1>10. ASSUME NEW S \in SUBSET Task, recs' = Without(recs, S),
              UNCHANGED <<jobs, used, pc, local>>
       PROVE  ClaimInv'
  BY <1>1, <1>10 DEF Without, local, SameClaim
<1>11. ASSUME NEW t \in Thread, NEW i \in Task, Delete(t, i) PROVE ClaimInv'
  <2>1. {i} \in SUBSET Task /\ recs' = Without(recs, {i}) /\ UNCHANGED <<jobs, used, pc, local>>
    BY <1>11 DEF Delete
  <2>. QED BY <1>10, <2>1
<1>12. ASSUME NEW t \in Thread, NEW S \in SUBSET (Stored(recs) \ Pending(recs)), Purge(t, S)
       PROVE  ClaimInv'
  <2>1. S \in SUBSET Task /\ recs' = Without(recs, S) /\ UNCHANGED <<jobs, used, pc, local>>
    BY <1>12 DEF Purge, Stored
  <2>. QED BY <1>10, <2>1
<1>13. ASSUME NEW j \in Job, JobEnds(j) PROVE ClaimInv'
  BY <1>2, <1>13 DEF JobEnds, local
<1>14. ASSUME NEW p \in Proc, Crash(p) PROVE ClaimInv'
  <2>1. {t \in Thread : ProcOf[t] = p} \in SUBSET Thread
    OBVIOUS
  <2>. QED BY <1>3, <1>14, <2>1 DEF Crash
<1>15. ASSUME NEW t \in Thread,
              ExecuteFails(t) \/ ExecuteInterrupted(t) \/ PersistFails(t) \/ LookupFails(t)
                \/ StoreFails(t)
       PROVE  ClaimInv'
  <2>1. {t} \in SUBSET Thread
    OBVIOUS
  <2>. QED BY <1>3, <1>15, <2>1
           DEF ExecuteFails, ExecuteInterrupted, PersistFails, LookupFails, StoreFails
<1>16. ASSUME UNCHANGED <<jobs, recs, used, pc, local>> PROVE ClaimInv'
  BY <1>2, <1>16 DEF local
<1>. QED
  BY <1>4, <1>5, <1>6, <1>7, <1>8, <1>9, <1>11, <1>12, <1>13, <1>14, <1>15, <1>16
  DEF Next, Step, vars, local, RegisterEngine, UnregisterEngine, RecoverPending

LEMMA ClaimInvariant == Spec => [](TypeInv /\ ClaimInv)
<1>1. TypeInv /\ ClaimInv /\ [Next]_vars => ClaimInv'
  BY ClaimNext, LifecycleAssumption
<1>. QED BY <1>1, ClaimInit, TypeInvInit, TypeNext, LifecycleAssumption, PTL DEF Spec

\* No remote job is ever tracked by two records, whatever fails or races.
THEOREM OneRecord == Spec => []OneRecordPerJob
<1>1. TypeInv /\ ClaimInv => OneRecordPerJob
  <2>. SUFFICES ASSUME TypeInv, ClaimInv, NEW i \in Stored(recs), NEW k \in Stored(recs),
                       JobOf(recs[i]) = JobOf(recs[k]), JobOf(recs[i]) # NoJob
                PROVE  i = k
    BY DEF OneRecordPerJob
  <2>1. i \in Task /\ recs[i] \in Rec /\ k \in Task
    BY DEF Stored, TypeInv, TypeOK
  <2>2. JobOf(recs[i]) \in Job
    BY <2>1, JobOfType
  <2>. QED BY <2>1, <2>2 DEF ClaimInv, IdInv, StartedInv, OneIdInv, InHandInv, OneJobInv, Claims, Stored
<1>. QED BY <1>1, ClaimInvariant, PTL
-----------------------------------------------------------------------------
(* Running jobs.  A job that runs is in the hands of a Submit, claimed by a     *)
(* record of the store, or lost.                                               *)

Kept(j) ==
  \/ j \in lost
  \/ \E t \in Thread : InHand(t, j)
  \/ \E i \in Task : Claims(recs[i], j)

KeptInv == \A j \in Job : jobs[j] = "running" => Kept(j)

LEMMA KeptNext ==
  ASSUME LifecycleAssumption, TypeInv, ClaimInv, KeptInv, [Next]_vars
  PROVE  KeptInv'
<1>. USE DEF TypeInv, TypeOK
<1>0. Absent \notin Rec /\ NoValue \notin Value
  BY DEF LifecycleAssumption, Rec
\* Steps that start no job and drop no claim unless they account for it.
<1>1. ASSUME \A j \in Job : jobs'[j] = "running" => jobs[j] = "running",
             lost \subseteq lost',
             \A j \in Job, t \in Thread :
               InHand(t, j) => InHand(t, j)' \/ j \in lost' \/ jobs'[j] # "running",
             \A j \in Job, i \in Task :
               Claims(recs[i], j) => Claims(recs'[i], j) \/ j \in lost'
      PROVE  KeptInv'
  BY <1>1 DEF KeptInv, Kept
<1>2. CASE UNCHANGED <<recs, pc, job, lost>> /\
           \A j \in Job : jobs'[j] = "running" => jobs[j] = "running"
  BY <1>1, <1>2 DEF InHand
<1>3. ASSUME NEW t \in Thread, NEW e \in Engine, Submit(t, e) PROVE KeptInv'
  BY <1>1, <1>3 DEF Submit, Goto, InHand
<1>4. ASSUME NEW t \in Thread, NEW j \in Job, RemoteAccepts(t, j) PROVE KeptInv'
  <2>1. /\ jobs' = [jobs EXCEPT ![j] = "running"] /\ UNCHANGED <<recs, lost>>
        /\ pc[t] = "execute" /\ pc' = [pc EXCEPT ![t] = "await"]
        /\ job' = [job EXCEPT ![t] = j]
    BY <1>4 DEF RemoteAccepts, Goto
  <2>2. InHand(t, j)'
    BY <2>1 DEF InHand
  <2>3. \A u \in Thread, k \in Job : InHand(u, k) => InHand(u, k)'
    BY <2>1 DEF InHand
  <2>. QED BY <2>1, <2>2, <2>3 DEF KeptInv, Kept
<1>5. ASSUME NEW t \in Thread, NEW i \in Task, ExecuteReturns(t, i) PROVE KeptInv'
  BY <1>1, <1>5 DEF ExecuteReturns, Goto, InHand
\* The calls of S end: what they had in hand is lost, or no longer runs.
<1>6. ASSUME NEW S \in SUBSET Thread, Over(S), UNCHANGED <<jobs, recs>>, lost \subseteq lost',
             \A t \in S, j \in Job : InHand(t, j) => j \in lost' \/ jobs[j] # "running"
      PROVE  KeptInv'
  <2>1. \A t \in Thread, j \in Job :
          InHand(t, j) => InHand(t, j)' \/ j \in lost' \/ jobs'[j] # "running"
    BY <1>6 DEF Over, InHand
  <2>. QED BY <1>1, <1>6, <2>1
<1>7. ASSUME NEW S \in SUBSET Thread, lost' = lost \cup Unsaved(S)
      PROVE  \A t \in S, j \in Job : InHand(t, j) => j \in lost'
  BY <1>7 DEF Unsaved, InHand, LifecycleAssumption
<1>8. ASSUME NEW t \in Thread, ExecuteFails(t) PROVE KeptInv'
  <2>1. \A j \in Job : InHand(t, j) => jobs[j] # "running"
    BY <1>8 DEF ExecuteFails, InHand
  <2>2. {t} \in SUBSET Thread /\ Over({t}) /\ UNCHANGED <<jobs, recs, lost>>
    BY <1>8 DEF ExecuteFails
  <2>. QED BY <1>6, <2>1, <2>2
<1>9. ASSUME NEW t \in Thread, ExecuteInterrupted(t) \/ PersistFails(t) PROVE KeptInv'
  <2>1. /\ {t} \in SUBSET Thread /\ Over({t}) /\ UNCHANGED <<jobs, recs>>
        /\ lost' = lost \cup Unsaved({t})
    BY <1>9 DEF ExecuteInterrupted, PersistFails
  <2>2. \A u \in {t}, j \in Job : InHand(u, j) => j \in lost'
    BY <1>7, <2>1
  <2>. QED BY <1>6, <2>1, <2>2
<1>10. ASSUME NEW t \in Thread, LookupFails(t) \/ StoreFails(t) PROVE KeptInv'
  <2>1. \A j \in Job : ~InHand(t, j)
    BY <1>10 DEF LookupFails, StoreFails, InHand
  <2>2. {t} \in SUBSET Thread /\ Over({t}) /\ UNCHANGED <<jobs, recs, lost>>
    BY <1>10 DEF LookupFails, StoreFails
  <2>. QED BY <1>6, <2>1, <2>2
<1>11. ASSUME NEW p \in Proc, Crash(p) PROVE KeptInv'
  <2>. DEFINE dead == {t \in Thread : ProcOf[t] = p}
  <2>1. /\ dead \in SUBSET Thread /\ Over(dead) /\ UNCHANGED <<jobs, recs>>
        /\ lost' = lost \cup Unsaved(dead)
    BY <1>11 DEF Crash
  <2>. HIDE DEF dead
  <2>2. \A u \in dead, j \in Job : InHand(u, j) => j \in lost'
    BY <1>7, <2>1
  <2>. QED BY <1>6, <2>1, <2>2
\* Save puts a record that names the job where there was none.
<1>12. ASSUME NEW t \in Thread, PersistTask(t) PROVE KeptInv'
  <2>1. /\ pc[t] = "persist" /\ Over({t}) /\ UNCHANGED <<jobs, lost>>
        /\ task[t] \in Task /\ recs' = [recs EXCEPT ![task[t]] = rec[t]]
        /\ recs[task[t]] = Absent /\ rec[t] \in Rec
    BY <1>12 DEF PersistTask, Upsert, HandInv, ClaimInv, IdInv
  <2>2. /\ eng[t] \in Engine /\ job[t] \in Job
        /\ rec[t] = NewRecord(eng[t], Returned(eng[t], job[t]))
        /\ Waits(eng[t]) => jobs[job[t]] = "succeeded"
    BY <2>1 DEF HandInv
  <2>3. Claims(rec[t], job[t])
    BY <1>0, <2>1, <2>2, NewRecordType DEF Claims
  <2>4. \A u \in Thread \ {t}, j \in Job : InHand(u, j) => InHand(u, j)'
    BY <2>1 DEF Over, InHand
  <2>5. \A j \in Job : InHand(t, j) => j = job[t]
    BY DEF InHand
  <2>6. Claims(recs'[task[t]], job[t])
    BY <2>1, <2>3
  <2>7. \A i \in Task, j \in Job : Claims(recs[i], j) => Claims(recs'[i], j)
    BY <2>1 DEF Claims
  <2>. QED BY <2>1, <2>4, <2>5, <2>6, <2>7 DEF KeptInv, Kept
\* The outcome names the job its record named.
<1>13. ASSUME NEW t \in Thread, StoreOutcome(t) PROVE KeptInv'
  <2>1. /\ pc[t] = "store" /\ Over({t}) /\ UNCHANGED <<jobs, lost>>
        /\ task[t] \in Task /\ recs' = [recs EXCEPT ![task[t]] = rec[t]] /\ rec[t] \in Rec
    BY <1>13 DEF StoreOutcome, Upsert, HandInv
  <2>2. recs[task[t]] # Absent => recs[task[t]].remote = rec[t].remote
    BY <2>1 DEF ClaimInv, OneJobInv, Resuming
  <2>3. \A i \in Task, j \in Job : Claims(recs[i], j) => Claims(recs'[i], j)
    <3>1. rec[t].remote # NoValue
      BY <1>0, <2>1 DEF HandInv
    <3>2. recs[task[t]] # Absent => JobOf(recs[task[t]]) = JobOf(rec[t])
      BY <2>2, <3>1 DEF JobOf
    <3>. QED BY <1>0, <2>1, <3>2 DEF Claims
  <2>4. \A u \in Thread, j \in Job : InHand(u, j) => InHand(u, j)'
    BY <2>1 DEF Over, InHand
  <2>. QED BY <1>1, <2>1, <2>3, <2>4
<1>14. ASSUME NEW t \in Thread, NEW i \in Task, LoadTask(t, i) PROVE KeptInv'
  BY <1>1, <1>14 DEF LoadTask, Goto, InHand
<1>15. ASSUME NEW t \in Thread,
              LookupEngine(t) \/ PollSucceeds(t) \/ PollFails(t) \/ PollInterrupted(t)
       PROVE  KeptInv'
  <2>1. /\ pc[t] \in {"lookup", "poll"} /\ \E c \in {"poll", "store"} : pc' = [pc EXCEPT ![t] = c]
        /\ UNCHANGED <<jobs, recs, job, lost>>
    BY <1>15 DEF LookupEngine, local, Goto, PollSucceeds, PollFails, PollInterrupted, Settle
  <2>. QED BY <1>1, <2>1 DEF InHand
\* A caller that removes a record gives up the job it names.
<1>16. ASSUME NEW S \in SUBSET Task, S \subseteq Stored(recs),
              recs' = Without(recs, S), lost' = lost \cup JobsOf(S), UNCHANGED <<jobs, pc, job>>
       PROVE  KeptInv'
  <2>1. \A i \in S, j \in Job : Claims(recs[i], j) => j \in lost'
    BY <1>16 DEF Claims, JobsOf, LifecycleAssumption
  <2>2. \A i \in Task \ S : recs'[i] = recs[i]
    BY <1>16 DEF Without
  <2>3. \A t \in Thread, j \in Job : InHand(t, j)' <=> InHand(t, j)
    BY <1>16 DEF InHand
  <2>. QED BY <1>1, <1>16, <2>1, <2>2, <2>3
<1>17. ASSUME NEW t \in Thread, NEW i \in Task, Delete(t, i) PROVE KeptInv'
  <2>1. {i} \in SUBSET Task /\ {i} \subseteq Stored(recs)
    BY <1>17 DEF Delete
  <2>. QED BY <1>16, <1>17, <2>1 DEF Delete, local
<1>18. ASSUME NEW t \in Thread, NEW S \in SUBSET (Stored(recs) \ Pending(recs)), Purge(t, S)
       PROVE  KeptInv'
  <2>1. S \in SUBSET Task /\ S \subseteq Stored(recs)
    BY DEF Stored
  <2>. QED BY <1>16, <1>18, <2>1 DEF Purge, local
<1>19. ASSUME NEW j \in Job, JobEnds(j) PROVE KeptInv'
  BY <1>2, <1>19 DEF JobEnds, local
<1>. QED
  BY <1>2, <1>3, <1>4, <1>5, <1>8, <1>9, <1>10, <1>11, <1>12, <1>13, <1>14, <1>15, <1>17,
     <1>18, <1>19
  DEF Next, Step, vars, local, RegisterEngine, UnregisterEngine, RecoverPending

\* A job that runs is known to a Submit under way or to the store, through crashes
\* between any two steps and whatever engines return: only a Submit that fails
\* after the service accepted, or a removal, gives it up.
THEOREM NoneForgotten == Spec => []NoJobForgotten
<1>1. Init => KeptInv
  BY DEF Init, KeptInv
<1>2. TypeInv /\ ClaimInv /\ KeptInv /\ [Next]_vars => KeptInv'
  BY KeptNext, LifecycleAssumption
<1>3. KeptInv => NoJobForgotten
  BY DEF KeptInv, Kept, NoJobForgotten, InHand, Claims, Stored
<1>. QED BY <1>1, <1>2, <1>3, ClaimInvariant, PTL DEF Spec
-----------------------------------------------------------------------------
(* Outcomes.  What a Resume that is not interrupted finds out is decided by    *)
(* the remote job alone, so that any two of them find out the same.            *)

\* What is known of a record of task i, in the store or in a thread's hands.
Outcome(r, i) ==
  /\ r.remote # NoValue => r.remote.what \in {"id", "text"}
  /\ r.st = "completed" /\ r.remote # NoValue =>
       /\ Names(r.remote, "succeeded")
       /\ r.val = [what |-> "media", job |-> r.remote.job]
  /\ r.st = "failed" =>
       /\ r.remote # NoValue /\ r.val = NoValue
       /\ Names(r.remote, "failed") \/ r.remote.what # "id" \/ i \in cut

OutcomeInv ==
  /\ \A i \in Stored(recs) : Outcome(recs[i], i)
  /\ \A t \in Thread : rec[t] # Absent => Outcome(rec[t], task[t])
  /\ \A t \in Thread : pc[t] = "store" => rec[t].st # "pending"

LEMMA CutGrows == ASSUME [Next]_vars PROVE cut \subseteq cut'
BY DEF Next, Step, vars, JobEnds, RegisterEngine, UnregisterEngine, Submit, RemoteAccepts,
       ExecuteReturns, ExecuteFails, ExecuteInterrupted, PersistTask, PersistFails,
       RecoverPending, LoadTask, LookupEngine, LookupFails, PollSucceeds, PollFails,
       PollInterrupted, StoreOutcome, StoreFails, Delete, Purge, Crash

LEMMA OutcomeStays ==
  ASSUME LifecycleAssumption, TypeOK, [Next]_vars, NEW r \in Rec, NEW i \in Task, Outcome(r, i)
  PROVE  Outcome(r, i)'
<1>1. r.remote # NoValue => r.remote.job \in Job
  BY DEF Rec, Value
<1>2. \A s \in {"succeeded", "failed"} :
        r.remote # NoValue /\ Names(r.remote, s) => Names(r.remote, s)'
  BY <1>1, EndedStays DEF Names
<1>. QED BY <1>2, CutGrows DEF Outcome

LEMMA OutcomeOfNew ==
  ASSUME LifecycleAssumption, NEW e \in Engine, NEW j \in Job, NEW i \in Task
  PROVE  Outcome(NewRecord(e, Returned(e, j)), i)
<1>1. Returned(e, j) \in Value /\ NoValue \notin Value
  BY NewRecordType, LifecycleAssumption DEF LifecycleAssumption
<1>2. PlainText(e) => Returned(e, j).what \in {"id", "text"}
  BY DEF PlainText, Returned
<1>. QED BY <1>1, <1>2 DEF Outcome, NewRecord

LEMMA OutcomeNext ==
  ASSUME LifecycleAssumption, TypeInv, ClaimInv, OutcomeInv, [Next]_vars
  PROVE  OutcomeInv'
<1>. USE DEF TypeInv, TypeOK
<1>0. Absent \notin Rec
  BY DEF LifecycleAssumption, Rec
<1>a. \A r \in Rec, i \in Task : Outcome(r, i) => Outcome(r, i)'
  BY OutcomeStays
\* A step stores what a thread holds under the ID it works on, and puts into a
\* thread's hands what was stored under that ID or a new outcome.
<1>b. ASSUME \A i \in Task : recs'[i] # Absent =>
               \/ recs'[i] = recs[i]
               \/ \E t \in Thread : rec[t] # Absent /\ i = task[t] /\ recs'[i] = rec[t],
             \A t \in Thread : rec'[t] # Absent =>
               \/ rec'[t] = rec[t] /\ task'[t] = task[t] /\ task[t] \in Task
               \/ \E i \in Stored(recs) : rec'[t] = recs[i] /\ task'[t] = i
               \/ \E r \in Rec, i \in Task : rec'[t] = r /\ task'[t] = i /\ Outcome(r, i)',
             \A t \in Thread : pc'[t] = "store" => rec'[t].st # "pending"
      PROVE  OutcomeInv'
  <2>1. ASSUME NEW i \in Task, recs'[i] # Absent PROVE Outcome(recs[i], i)'
    <3>1. PICK r \in Rec : r = recs'[i] /\ Outcome(r, i)
      BY <1>b, <2>1 DEF OutcomeInv, Stored
    <3>2. Outcome(r, i)'
      BY <1>a, <3>1
    <3>. QED BY <3>1, <3>2 DEF Outcome, Names
  <2>2. ASSUME NEW t \in Thread, rec'[t] # Absent PROVE Outcome(rec[t], task[t])'
    <3>1. PICK r \in Rec, i \in Task :
            r = rec'[t] /\ i = task'[t] /\ (Outcome(r, i) \/ Outcome(r, i)')
      <4>1. CASE rec'[t] = rec[t] /\ task'[t] = task[t] /\ task[t] \in Task
        BY <2>2, <4>1 DEF OutcomeInv
      <4>2. ASSUME NEW i \in Stored(recs), rec'[t] = recs[i] /\ task'[t] = i
            PROVE  \E r \in Rec, k \in Task : r = rec'[t] /\ k = task'[t] /\ Outcome(r, k)
        <5>1. recs[i] \in Rec /\ i \in Task /\ Outcome(recs[i], i)
          BY DEF OutcomeInv, Stored
        <5>. QED BY <4>2, <5>1
      <4>. QED BY <1>b, <2>2, <4>1, <4>2
    <3>2. Outcome(r, i)'
      BY <1>a, <3>1
    <3>. QED BY <3>1, <3>2 DEF Outcome, Names
  <2>. QED BY <1>b, <2>1, <2>2 DEF OutcomeInv, Stored
<1>c. \A t \in Thread : rec[t] # Absent => task[t] \in Task
  BY DEF HandInv, PC
<1>1. CASE UNCHANGED <<recs, rec, task, pc>>
  BY <1>b, <1>c, <1>1 DEF OutcomeInv
<1>2. ASSUME NEW t \in Thread, NEW a \in PC, NEW b \in PC \ {"store"}, Goto(t, a, b),
             UNCHANGED <<recs, rec, task>>
      PROVE  OutcomeInv'
  <2>1. \A u \in Thread : pc'[u] = "store" => pc'[u] = pc[u]
    BY <1>2 DEF Goto
  <2>. QED BY <1>b, <1>c, <1>2, <2>1 DEF OutcomeInv
<1>3. ASSUME NEW t \in Thread, NEW i \in Task, ExecuteReturns(t, i) PROVE OutcomeInv'
  <2>. DEFINE r == NewRecord(eng[t], Returned(eng[t], job[t]))
  <2>1. eng[t] \in Engine /\ job[t] \in Job
    BY <1>3 DEF ExecuteReturns, Goto, HandInv
  <2>2. r \in Rec /\ Outcome(r, i)
    BY <2>1, NewRecordType, OutcomeOfNew
  <2>3. /\ recs' = recs /\ rec' = [rec EXCEPT ![t] = r] /\ pc' = [pc EXCEPT ![t] = "persist"]
        /\ task' = [task EXCEPT ![t] = i]
    BY <1>3 DEF ExecuteReturns, Goto
  <2>. HIDE DEF r
  <2>4. \E q \in Rec : q = r /\ Outcome(q, i)'
    BY <1>a, <2>2
  <2>5. \A u \in Thread \ {t} : rec'[u] = rec[u] /\ task'[u] = task[u] /\ pc'[u] = pc[u]
    BY <2>3
  <2>6. rec'[t] = r /\ task'[t] = i /\ pc'[t] = "persist"
    BY <2>3
  <2>. QED BY <1>b, <1>c, <2>3, <2>4, <2>5, <2>6 DEF OutcomeInv
<1>4. ASSUME NEW S, Over(S),
             \A i \in Task : recs'[i] # Absent =>
               \/ recs'[i] = recs[i]
               \/ \E t \in Thread : rec[t] # Absent /\ i = task[t] /\ recs'[i] = rec[t]
      PROVE  OutcomeInv'
  <2>1. \A u \in Thread : rec'[u] # Absent => rec'[u] = rec[u] /\ task'[u] = task[u]
    BY <1>4 DEF Over
  <2>2. \A u \in Thread : pc'[u] = "store" => pc'[u] = pc[u] /\ rec'[u] = rec[u]
    BY <1>4 DEF Over
  <2>. QED BY <1>4, <1>b, <1>c, <2>1, <2>2 DEF OutcomeInv
<1>5. ASSUME NEW t \in Thread, PersistTask(t) \/ StoreOutcome(t) PROVE OutcomeInv'
  <2>1. /\ rec[t] \in Rec /\ task[t] \in Task /\ Over({t})
        /\ recs' = [recs EXCEPT ![task[t]] = rec[t]]
    BY <1>5 DEF PersistTask, StoreOutcome, HandInv, Upsert
  <2>. QED BY <1>0, <1>4, <2>1
<1>6. ASSUME NEW t \in Thread, NEW i \in Task, LoadTask(t, i) PROVE OutcomeInv'
  <2>1. /\ i \in Stored(recs) /\ rec' = [rec EXCEPT ![t] = recs[i]] /\ recs' = recs
        /\ pc' = [pc EXCEPT ![t] = "lookup"] /\ task' = [task EXCEPT ![t] = i]
    BY <1>6 DEF LoadTask, Pending, Goto
  <2>2. \A u \in Thread \ {t} : rec'[u] = rec[u] /\ task'[u] = task[u] /\ pc'[u] = pc[u]
    BY <2>1
  <2>3. rec'[t] = recs[i] /\ task'[t] = i /\ pc'[t] = "lookup"
    BY <2>1
  <2>. QED BY <1>b, <1>c, <2>1, <2>2, <2>3 DEF OutcomeInv
<1>7. ASSUME NEW t \in Thread, PollSucceeds(t) \/ PollFails(t) \/ PollInterrupted(t)
      PROVE  OutcomeInv'
  <2>1. /\ pc[t] = "poll" /\ rec[t] \in Rec /\ rec[t].remote \in Value /\ task[t] \in Task
        /\ Outcome(rec[t], task[t]) /\ NoValue \notin Value
    BY <1>0, <1>7 DEF PollSucceeds, PollFails, PollInterrupted, HandInv, OutcomeInv,
                      LifecycleAssumption
  <2>2. PICK v \in Value \cup {NoValue}, st \in {"completed", "failed"} :
          /\ Settle(t, st, v)
          /\ st = "completed" => /\ Names(rec[t].remote, "succeeded")
                                 /\ v = [what |-> "media", job |-> rec[t].remote.job]
          /\ st = "failed" => /\ \/ Names(rec[t].remote, "failed")
                                 \/ rec[t].remote.what # "id"
                                 \/ task[t] \in cut'
                              /\ v = NoValue
    <3>1. CASE PollSucceeds(t)
      <4>1. [what |-> "media", job |-> rec[t].remote.job] \in Value
        BY <2>1 DEF Value
      <4>. QED BY <3>1, <4>1 DEF PollSucceeds
    <3>2. CASE PollFails(t) \/ PollInterrupted(t)
      BY <3>2 DEF PollFails, PollInterrupted
    <3>. QED BY <1>7, <3>1, <3>2
  <2>3. rec'[t] = [rec[t] EXCEPT !.st = st, !.val = v]
    BY <2>1, <2>2 DEF Settle
  <2>4. PICK r \in Rec : /\ r = rec'[t] /\ r.st = st /\ r.val = v
                         /\ r.remote = rec[t].remote
    BY <2>1, <2>3 DEF Rec, Status
  <2>5. jobs' = jobs
    BY <2>2 DEF Settle
  <2>6. PICK i \in Task : i = task[t]
    BY <2>1
  <2>7. Outcome(r, i)'
    BY <2>1, <2>2, <2>4, <2>5, <2>6 DEF Outcome, Names
  <2>8. /\ recs' = recs /\ task' = task /\ pc' = [pc EXCEPT ![t] = "store"]
        /\ \A u \in Thread \ {t} : rec'[u] = rec[u]
    BY <2>2 DEF Settle
  <2>. QED BY <1>b, <1>c, <2>2, <2>4, <2>6, <2>7, <2>8 DEF OutcomeInv
<1>8. ASSUME NEW S, recs' = Without(recs, S), UNCHANGED <<pc, task, rec>> PROVE OutcomeInv'
  BY <1>b, <1>c, <1>8 DEF Without, OutcomeInv
<1>9. ASSUME NEW t \in Thread, Step(t) PROVE OutcomeInv'
  BY <1>2, <1>3, <1>4, <1>5, <1>7, <1>9
  DEF Step, RemoteAccepts, ExecuteFails, ExecuteInterrupted, PersistFails, LookupEngine,
      LookupFails, StoreFails, local, PC
<1>. QED
  BY <1>1, <1>2, <1>4, <1>6, <1>8, <1>9
  DEF Next, vars, local, JobEnds, RegisterEngine, UnregisterEngine, Submit, RecoverPending,
      Delete, Purge, Crash, PC

LEMMA OutcomeInvariant == Spec => [](TypeInv /\ ClaimInv /\ OutcomeInv)
<1>1. Init => OutcomeInv
  BY DEF Init, OutcomeInv, Stored, NoRecords
<1>2. TypeInv /\ ClaimInv /\ OutcomeInv /\ [Next]_vars => OutcomeInv'
  BY OutcomeNext, LifecycleAssumption
<1>. QED BY <1>1, <1>2, ClaimInvariant, PTL DEF Spec

\* A record is marked failed only when its remote job failed, when a Resume of it
\* was interrupted, or when its engine's text was taken for a remote ID: no lookup
\* that fails, no lost save, no race and no crash makes a failure of a running task.
THEOREM FailuresHaveCauses == Spec => []FailedHasCause
<1>1. OutcomeInv => FailedHasCause
  BY DEF OutcomeInv, Outcome, FailedHasCause
<1>. QED BY <1>1, OutcomeInvariant, PTL

\* Two settled records of one task have the same outcome, if it was not cut.
LEMMA SameOutcome ==
  ASSUME NEW r \in Rec, NEW s \in Rec, NEW i \in Task, Outcome(r, i), Outcome(s, i),
         r.st # "pending", s.st # "pending",
         r.remote = s.remote, r.eng = s.eng, r.remote # NoValue
  PROVE  r = s \/ (i \in cut /\ {r.st, s.st} = {"completed", "failed"})
<1>0. r.st \in {"completed", "failed"} /\ s.st \in {"completed", "failed"}
  BY DEF Rec, Status
<1>1. CASE r.st = s.st
  <2>1. r.val = s.val
    BY <1>0, <1>1 DEF Outcome
  <2>. QED BY <1>1, <2>1 DEF Rec
<1>2. CASE r.st # s.st
  BY <1>0, <1>2 DEF Outcome, Names
<1>. QED BY <1>1, <1>2

LEMMA SettledNext ==
  ASSUME LifecycleAssumption, TypeInv, ClaimInv, OutcomeInv, [Next]_vars,
         NEW i \in Stored(recs) \ Pending(recs)
  PROVE  \/ recs'[i] \in {recs[i], Absent}
         \/ i \in cut /\ {recs[i].st, recs'[i].st} = {"completed", "failed"}
<1>0. i \in Task /\ recs[i] \in Rec /\ recs[i] # Absent /\ recs[i].st # "pending"
  BY DEF Stored, Pending, TypeInv, TypeOK
<1>1. ASSUME NEW t \in Thread, PersistTask(t) PROVE recs'[i] = recs[i]
  <2>1. recs[task[t]] = Absent /\ recs' = [recs EXCEPT ![task[t]] = rec[t]]
    BY <1>1 DEF PersistTask, Upsert, ClaimInv, IdInv
  <2>. QED BY <1>0, <2>1 DEF TypeInv, TypeOK
<1>2. ASSUME NEW t \in Thread, StoreOutcome(t)
      PROVE  \/ recs'[i] = recs[i]
             \/ i \in cut /\ {recs[i].st, recs'[i].st} = {"completed", "failed"}
  <2>1. pc[t] = "store" /\ recs' = [recs EXCEPT ![task[t]] = rec[t]] /\ rec[t] \in Rec
    BY <1>2 DEF StoreOutcome, Upsert, TypeInv, HandInv
  <2>2. CASE i = task[t]
    <3>1. /\ recs[i].remote = rec[t].remote /\ recs[i].eng = rec[t].eng
          /\ rec[t].remote # NoValue
      BY <1>0, <2>1, <2>2
      DEF ClaimInv, OneJobInv, Resuming, TypeInv, HandInv, LifecycleAssumption
    <3>2. Outcome(recs[i], i) /\ Outcome(rec[t], i) /\ rec[t].st # "pending"
      BY <1>0, <2>1, <2>2 DEF OutcomeInv, Stored, LifecycleAssumption
    <3>3. recs'[i] = rec[t]
      BY <1>0, <2>1, <2>2 DEF TypeInv, TypeOK
    <3>. QED BY <1>0, <2>1, <3>1, <3>2, <3>3, SameOutcome
  <2>3. CASE i # task[t]
    BY <1>0, <2>1, <2>3 DEF TypeInv, TypeOK
  <2>. QED BY <2>2, <2>3
<1>3. ASSUME NEW S, recs' = Without(recs, S) PROVE recs'[i] \in {recs[i], Absent}
  BY <1>0, <1>3 DEF Without
<1>4. CASE recs' = recs
  BY <1>4
<1>. QED
  BY <1>1, <1>2, <1>3, <1>4
  DEF Next, Step, vars, JobEnds, RegisterEngine, UnregisterEngine, Submit, RemoteAccepts,
      ExecuteReturns, ExecuteFails, ExecuteInterrupted, PersistFails, RecoverPending,
      LoadTask, LookupEngine, LookupFails, Settle, PollSucceeds, PollFails,
      PollInterrupted, StoreFails, Delete, Purge, Crash

\* No step takes a settled record back, and Resumes of one task that run at the same
\* time, in one process or in several, store the same outcome, unless one of them
\* was interrupted: then a failure may overwrite the result, or the result it.
THEOREM OutcomesAgree == Spec => SettledUnlessCut
<1>1. TypeInv /\ ClaimInv /\ OutcomeInv /\ [Next]_vars =>
        [\A i \in Stored(recs) \ Pending(recs) :
           \/ recs'[i] \in {recs[i], Absent}
           \/ i \in cut /\ {recs[i].st, recs'[i].st} = {"completed", "failed"}]_vars
  BY SettledNext, LifecycleAssumption
<1>. QED BY <1>1, OutcomeInvariant, PTL DEF Spec, SettledUnlessCut
=============================================================================
