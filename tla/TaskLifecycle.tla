--------------------------- MODULE TaskLifecycle ---------------------------
(***************************************************************************)
(* Asynchronous tasks (client.go): Submit runs an engine and persists the  *)
(* remote task ID, RecoverPending lists the unfinished tasks after a       *)
(* restart, Resume polls one to its end and stores the outcome.  Several   *)
(* goroutines of several processes share one task store; the calls of the  *)
(* store are atomic (FileTaskStore implements TaskStoreAbs), the work      *)
(* between them is not.  Remote jobs run on their own.                     *)
(***************************************************************************)
EXTENDS TaskRecords

CONSTANTS
  Job,        \* tasks of the upstream services
  Thread,     \* goroutines that call the client
  Proc,       \* processes, each with its own *Client
  ProcOf,     \* ProcOf[t]: the process t runs in
  Engine,     \* names engines are registered under
  Answer,     \* Answer[e]: what Execute of e returns (see Kinds)
  Resumers,   \* the engines that implement engine.Resumer
  Faults,     \* what may go wrong: subset of {"crash", "save", "interrupt"}
  Removals,   \* what callers also do: subset of {"delete", "purge", "unregister"}
  NoJob, NoEngine, NoTask, NoValue,
  MaxFaults   \* bound: crashes, failed saves and interruptions, all together

\* What Execute of an engine returns:
\*   "taskID"     OutputPlainText, the remote ID, at once (WaitForCompletion=false)
\*   "media"      a URL, data URI or JSON, when the work is done
\*   "text"       OutputPlainText, the generated text, when the work is done
\*   "idAsMedia"  OutputURL, although the value is the remote ID (alibabacloud)
Kinds == {"taskID", "media", "text", "idAsMedia"}

Value == [what : {"id", "media", "text"}, job : Job]
Rec   == [eng : Engine, remote : Value \cup {NoValue},
          st : Status, val : Value \cup {NoValue}]

ASSUME LifecycleAssumption ==
  /\ ProcOf \in [Thread -> Proc]
  /\ Answer \in [Engine -> Kinds]
  /\ Resumers \subseteq Engine
  /\ NoJob \notin Job
  /\ NoEngine \notin Engine
  /\ NoTask \notin Task
  /\ NoValue \notin Value
  /\ Absent \notin Rec
  /\ MaxFaults \in Nat

VARIABLES
  jobs,        \* jobs[j]: "none", "running", "succeeded" or "failed"
  recs,        \* the records of the task store
  used,        \* the IDs newTaskID has returned
  registered,  \* registered[p]: the keys of c.engines
  known,       \* known[p]: the IDs Submit and RecoverPending returned to callers
  pc,          \* pc[t]: where t is in Submit or Resume
  eng,         \* eng[t]: the engine of the Submit under way
  job,         \* job[t]: the remote job it started
  task,        \* task[t]: the ID of the record t works on
  rec,         \* rec[t]: the local variable rec of Submit or Resume
  lost,        \* history: jobs whose Submit failed, or whose record was removed
  cut,         \* history: tasks a Resume of which was interrupted
  faults       \* how often something went wrong, up to MaxFaults

vars == <<jobs, recs, used, registered, known, pc, eng, job, task, rec, lost, cut, faults>>
local == <<eng, job, task, rec>>

PC == {"idle", "execute", "await", "persist", "lookup", "poll", "store"}

Init == /\ jobs = [j \in Job |-> "none"]
        /\ recs = NoRecords
        /\ used = {}
        /\ registered = [p \in Proc |-> {}]
        /\ known = [p \in Proc |-> {}]
        /\ pc = [t \in Thread |-> "idle"]
        /\ eng = [t \in Thread |-> NoEngine]
        /\ job = [t \in Thread |-> NoJob]
        /\ task = [t \in Thread |-> NoTask]
        /\ rec = [t \in Thread |-> Absent]
        /\ lost = {}
        /\ cut = {}
        /\ faults = 0

-----------------------------------------------------------------------------
Goto(t, a, b) == pc[t] = a /\ pc' = [pc EXCEPT ![t] = b]

\* The calls of the threads of S are over; their local variables are gone.
Over(S) ==
  LET clear(f, v) == [t \in Thread |-> IF t \in S THEN v ELSE f[t]]
  IN /\ pc' = clear(pc, "idle")
     /\ eng' = clear(eng, NoEngine)
     /\ job' = clear(job, NoJob)
     /\ task' = clear(task, NoTask)
     /\ rec' = clear(rec, Absent)

Fault(kind) == /\ kind \in Faults
               /\ faults < MaxFaults
               /\ faults' = faults + 1

\* The jobs threads of S have started and not yet persisted.
Unsaved(S) == {job[t] : t \in {u \in S : pc[u] \in {"await", "persist"}}} \ {NoJob}

\* The job a record names: by its remote ID or, when it has none, in its value.
JobOf(r) == CASE r.remote # NoValue -> r.remote.job
              [] r.remote = NoValue /\ r.val # NoValue -> r.val.job
              [] OTHER -> NoJob

JobsOf(R) == {JobOf(recs[i]) : i \in R} \ {NoJob}

-----------------------------------------------------------------------------
\* The upstream service finishes a job.
JobEnds(j) ==
  /\ jobs[j] = "running"
  /\ \E s \in {"succeeded", "failed"} : jobs' = [jobs EXCEPT ![j] = s]
  /\ UNCHANGED <<recs, used, registered, known, pc, local, lost, cut, faults>>

RegisterEngine(p, e) ==
  /\ e \notin registered[p]
  /\ registered' = [registered EXCEPT ![p] = @ \cup {e}]
  /\ UNCHANGED <<jobs, recs, used, known, pc, local, lost, cut, faults>>

UnregisterEngine(p, e) ==
  /\ "unregister" \in Removals
  /\ e \in registered[p]
  /\ registered' = [registered EXCEPT ![p] = @ \ {e}]
  /\ UNCHANGED <<jobs, recs, used, known, pc, local, lost, cut, faults>>

-----------------------------------------------------------------------------
\* Submit: c.Execute finds the engine and calls it.
Submit(t, e) ==
  /\ e \in registered[ProcOf[t]]
  /\ Goto(t, "idle", "execute")
  /\ eng' = [eng EXCEPT ![t] = e]
  /\ UNCHANGED <<jobs, recs, used, registered, known, job, task, rec, lost, cut, faults>>

\* The service accepts the request and starts a job.
RemoteAccepts(t, j) ==
  /\ jobs[j] = "none"
  /\ Goto(t, "execute", "await")
  /\ jobs' = [jobs EXCEPT ![j] = "running"]
  /\ job' = [job EXCEPT ![t] = j]
  /\ UNCHANGED <<recs, used, registered, known, eng, task, rec, lost, cut, faults>>

\* The value Execute returns for job j, once it can.
Returned(e, j) ==
  [what |-> CASE Answer[e] \in {"taskID", "idAsMedia"} -> "id"
              [] Answer[e] = "media" -> "media"
              [] Answer[e] = "text"  -> "text",
   job  |-> j]

Waits(e) == Answer[e] \in {"media", "text"}

\* Result.Kind = OutputPlainText.
PlainText(e) == Answer[e] \in {"taskID", "text"}

\* Mutant: a status no constant names.
NewRecordRunning(e, v) == [eng |-> e, remote |-> v, st |-> "running", val |-> NoValue]

NewRecord(e, v) ==
  IF PlainText(e)
  THEN [eng |-> e, remote |-> v, st |-> "pending", val |-> NoValue]
  ELSE [eng |-> e, remote |-> NoValue, st |-> "completed", val |-> v]

\* Execute returns; Submit fills a record under a new random ID.
ExecuteReturns(t, i) ==
  /\ Goto(t, "await", "persist")
  /\ Waits(eng[t]) => jobs[job[t]] = "succeeded"
  /\ i \notin used
  /\ used' = used \cup {i}
  /\ task' = [task EXCEPT ![t] = i]
  /\ rec' = [rec EXCEPT ![t] = NewRecord(eng[t], Returned(eng[t], job[t]))]
  /\ UNCHANGED <<jobs, recs, registered, known, eng, job, lost, cut, faults>>

\* The service refuses the request, or the job the engine waits for fails:
\* Submit returns Execute's error and stores nothing.
ExecuteFails(t) ==
  /\ \/ pc[t] = "execute"
     \/ pc[t] = "await" /\ Waits(eng[t]) /\ jobs[job[t]] = "failed"
  /\ Over({t})
  /\ UNCHANGED <<jobs, recs, used, registered, known, lost, cut, faults>>

\* The context is cancelled, or the response is lost, after the job was started.
ExecuteInterrupted(t) ==
  /\ pc[t] = "await"
  /\ Fault("interrupt")
  /\ lost' = lost \cup Unsaved({t})
  /\ Over({t})
  /\ UNCHANGED <<jobs, recs, used, registered, known, cut>>

\* c.store.Save(rec); the ID is returned only if the record is pending.
PersistTask(t) ==
  /\ pc[t] = "persist"
  /\ recs' = Upsert(recs, task[t], rec[t])
  /\ known' = IF rec[t].st = "pending"
              THEN [known EXCEPT ![ProcOf[t]] = @ \cup {task[t]}] ELSE known
  /\ Over({t})
  /\ UNCHANGED <<jobs, used, registered, lost, cut, faults>>

\* Mutant: the error of Save is ignored and the ID returned.
PersistErrorIgnored(t) ==
  /\ pc[t] = "persist"
  /\ Fault("save")
  /\ known' = [known EXCEPT ![ProcOf[t]] = @ \cup {task[t]}]
  /\ Over({t})
  /\ UNCHANGED <<jobs, recs, used, registered, lost, cut>>

\* Save fails: Submit returns its error, the remote ID is not kept anywhere.
PersistFails(t) ==
  /\ pc[t] = "persist"
  /\ Fault("save")
  /\ lost' = lost \cup Unsaved({t})
  /\ Over({t})
  /\ UNCHANGED <<jobs, recs, used, registered, known, cut>>

-----------------------------------------------------------------------------
\* Mutant: != for == in the test of the status.
RecoverSettled(t) ==
  /\ pc[t] = "idle"
  /\ known' = [known EXCEPT ![ProcOf[t]] = @ \cup (Stored(recs) \ Pending(recs))]
  /\ UNCHANGED <<jobs, recs, used, registered, pc, local, lost, cut, faults>>

\* RecoverPending: the caller learns the IDs of all pending records.
RecoverPending(t) ==
  /\ pc[t] = "idle"
  /\ known' = [known EXCEPT ![ProcOf[t]] = @ \cup Pending(recs)]
  /\ UNCHANGED <<jobs, recs, used, registered, pc, local, lost, cut, faults>>

\* Resume loads the record.  (If it is absent, completed or failed Resume
\* returns at once and changes nothing.)
LoadTask(t, i) ==
  /\ i \in known[ProcOf[t]] \cap Pending(recs)
  /\ Goto(t, "idle", "lookup")
  /\ task' = [task EXCEPT ![t] = i]
  /\ rec' = [rec EXCEPT ![t] = recs[i]]
  /\ UNCHANGED <<jobs, recs, used, registered, known, eng, job, lost, cut, faults>>

CanResume(t) == rec[t].eng \in registered[ProcOf[t]] \cap Resumers

LookupEngine(t) ==
  /\ Goto(t, "lookup", "poll")
  /\ CanResume(t)
  /\ UNCHANGED <<jobs, recs, used, registered, known, local, lost, cut, faults>>

\* resumer.Resume has returned, with a result or with an error.
Settle(t, st, v) ==
  /\ pc' = [pc EXCEPT ![t] = "store"]
  /\ rec' = [rec EXCEPT ![t].st = st, ![t].val = v]
  /\ UNCHANGED <<jobs, recs, used, registered, known, eng, job, task, lost>>

\* Mutant: Resume marks the task failed when it finds no engine for it.
LookupSettles(t) ==
  /\ pc[t] = "lookup"
  /\ ~CanResume(t)
  /\ Settle(t, "failed", NoValue)
  /\ UNCHANGED <<cut, faults>>

\* ErrEngineNotFound or ErrResumeNotSupported: the record stays pending.
LookupFails(t) ==
  /\ pc[t] = "lookup"
  /\ ~CanResume(t)
  /\ Over({t})
  /\ UNCHANGED <<jobs, recs, used, registered, known, lost, cut, faults>>

Names(v, status) == v.what = "id" /\ jobs[v.job] = status

PollSucceeds(t) ==
  /\ pc[t] = "poll"
  /\ Names(rec[t].remote, "succeeded")
  /\ Settle(t, "completed", [what |-> "media", job |-> rec[t].remote.job])
  /\ UNCHANGED <<cut, faults>>

\* Mutant: a job that is still running counts as failed.
PollGivesUp(t) ==
  /\ pc[t] = "poll"
  /\ rec[t].remote.what = "id" => jobs[rec[t].remote.job] # "succeeded"
  /\ Settle(t, "failed", NoValue)
  /\ UNCHANGED <<cut, faults>>

\* The job failed, or the service knows no task by that ID.
PollFails(t) ==
  /\ pc[t] = "poll"
  /\ Names(rec[t].remote, "failed") \/ rec[t].remote.what # "id"
  /\ Settle(t, "failed", NoValue)
  /\ UNCHANGED <<cut, faults>>

\* Mutant: an interrupted Resume falls through to the completed branch.
PollInterruptedCompletes(t) ==
  /\ pc[t] = "poll"
  /\ Fault("interrupt")
  /\ cut' = cut \cup {task[t]}
  /\ Settle(t, "completed", NoValue)

\* The context is cancelled or expires, or one status request fails: Resume
\* treats it as any other error of the engine.
PollInterrupted(t) ==
  /\ pc[t] = "poll"
  /\ Fault("interrupt")
  /\ cut' = cut \cup {task[t]}
  /\ Settle(t, "failed", NoValue)

\* Mutant: the outcome is saved under a new ID.
StoreAnew(t) ==
  /\ pc[t] = "store"
  /\ \E i \in Task \ used : recs' = Upsert(recs, i, rec[t]) /\ used' = used \cup {i}
  /\ Over({t})
  /\ UNCHANGED <<jobs, registered, known, lost, cut, faults>>

\* c.store.Save(rec), whatever the store holds by now.
StoreOutcome(t) ==
  /\ pc[t] = "store"
  /\ recs' = Upsert(recs, task[t], rec[t])
  /\ Over({t})
  /\ UNCHANGED <<jobs, used, registered, known, lost, cut, faults>>

\* Save fails; Resume ignores the error and returns the outcome.
StoreFails(t) ==
  /\ pc[t] = "store"
  /\ Fault("save")
  /\ Over({t})
  /\ UNCHANGED <<jobs, recs, used, registered, known, lost, cut>>

-----------------------------------------------------------------------------
\* The caller deletes a record it knows, or purges settled ones.
Delete(t, i) ==
  /\ "delete" \in Removals
  /\ pc[t] = "idle"
  /\ i \in known[ProcOf[t]] \cap Stored(recs)
  /\ lost' = lost \cup JobsOf({i})
  /\ recs' = Without(recs, {i})
  /\ UNCHANGED <<jobs, used, registered, known, pc, local, cut, faults>>

Purge(t, S) ==
  /\ "purge" \in Removals
  /\ pc[t] = "idle"
  /\ lost' = lost \cup JobsOf(S)
  /\ recs' = Without(recs, S)
  /\ UNCHANGED <<jobs, used, registered, known, pc, local, cut, faults>>

\* Process p is killed and started again with a new, empty client.
Crash(p) ==
  LET dead == {t \in Thread : ProcOf[t] = p}
  IN /\ Fault("crash")
     /\ lost' = lost \cup Unsaved(dead)
     /\ Over(dead)
     /\ registered' = [registered EXCEPT ![p] = {}]
     /\ known' = [known EXCEPT ![p] = {}]
     /\ UNCHANGED <<jobs, recs, used, cut>>

-----------------------------------------------------------------------------
\* The steps of a Submit or Resume under way.
Step(t) ==
  \/ \E j \in Job : RemoteAccepts(t, j)
  \/ \E i \in Task : ExecuteReturns(t, i)
  \/ ExecuteFails(t) \/ ExecuteInterrupted(t)
  \/ PersistTask(t) \/ PersistFails(t)
  \/ LookupEngine(t) \/ LookupFails(t)
  \/ PollSucceeds(t) \/ PollFails(t) \/ PollInterrupted(t)
  \/ StoreOutcome(t) \/ StoreFails(t)

Next ==
  \/ \E j \in Job : JobEnds(j)
  \/ \E p \in Proc : \/ Crash(p)
                     \/ \E e \in Engine : RegisterEngine(p, e) \/ UnregisterEngine(p, e)
  \/ \E t \in Thread :
       \/ Step(t)
       \/ \E e \in Engine : Submit(t, e)
       \/ RecoverPending(t)
       \/ \E i \in Task : LoadTask(t, i) \/ Delete(t, i)
       \/ \E S \in SUBSET (Stored(recs) \ Pending(recs)) : Purge(t, S)

Spec == Init /\ [][Next]_vars

\* Services finish their jobs, goroutines keep running, and the callers do what
\* RecoverPending asks for: "Callers should iterate and call Resume for each."
\* (Strongly fair: they do not submit new tasks for ever instead.)
Fairness ==
  /\ \A j \in Job : WF_vars(JobEnds(j))
  /\ \A t \in Thread : WF_vars(Step(t))
  /\ \A p \in Proc, e \in Engine : WF_vars(RegisterEngine(p, e))
  /\ \A p \in Proc : SF_vars(\E t \in Thread : ProcOf[t] = p /\ RecoverPending(t))
  /\ \A i \in Task : SF_vars(\E t \in Thread : LoadTask(t, i))

FairSpec == Spec /\ Fairness
-----------------------------------------------------------------------------
\* The types, and what a thread holds at each step.
TypeOK ==
  /\ jobs \in [Job -> {"none", "running", "succeeded", "failed"}]
  /\ recs \in [Task -> Rec \cup {Absent}]
  /\ used \subseteq Task
  /\ registered \in [Proc -> SUBSET Engine]
  /\ known \in [Proc -> SUBSET Task]
  /\ pc \in [Thread -> PC]
  /\ eng \in [Thread -> Engine \cup {NoEngine}]
  /\ job \in [Thread -> Job \cup {NoJob}]
  /\ task \in [Thread -> Task \cup {NoTask}]
  /\ rec \in [Thread -> Rec \cup {Absent}]
  /\ lost \subseteq Job
  /\ cut \subseteq Task
  /\ faults \in Nat

\* A record is completed only with the finished result of a remote job that
\* succeeded, whatever Resumes and Submits ran before, or, if its engine calls a
\* remote task ID a medium, with that ID.
CompletedHoldsResult ==
  \A i \in Stored(recs) :
    recs[i].st = "completed" =>
      /\ recs[i].val # NoValue
      /\ IF recs[i].val.what = "id" THEN Answer[recs[i].eng] = "idAsMedia"
                                   ELSE jobs[recs[i].val.job] = "succeeded"

\* A record is failed only for a cause: its remote job failed, a Resume of it was
\* interrupted, or what it holds for a remote ID is a text.
FailedHasCause ==
  \A i \in Stored(recs) :
    recs[i].st = "failed" =>
      \/ Names(recs[i].remote, "failed")
      \/ i \in cut
      \/ recs[i].remote.what = "text"

\* No remote job is forgotten: from the moment the service accepts it, it is in
\* the hands of a running Submit, or a record names it, or its Submit failed or
\* was killed before its Save, or its record was removed by a caller.
NoJobForgotten ==
  \A j \in Job :
    jobs[j] = "running" =>
      \/ j \in lost
      \/ \E t \in Thread : job[t] = j /\ pc[t] \in {"await", "persist"}
      \/ \E i \in Stored(recs) : JobOf(recs[i]) = j

\* One remote job is never tracked by two records.
OneRecordPerJob ==
  \A i, k \in Stored(recs) :
    JobOf(recs[i]) = JobOf(recs[k]) /\ JobOf(recs[i]) # NoJob => i = k

\* A settled record never goes back to pending, and Resumes that run at the same
\* time, of one process or of several, agree on its outcome, unless one of them
\* was interrupted: then the last to save decides.
SettledUnlessCut ==
  [][\A i \in Stored(recs) \ Pending(recs) :
       \/ recs'[i] \in {recs[i], Absent}
       \/ i \in cut /\ {recs[i].st, recs'[i].st} = {"completed", "failed"}]_vars

\* README.md: "All async engines support ... `Resume()` for reconnecting to running
\* tasks": a task whose remote job runs is pending, so that Resume polls it.
RunningCanResume ==
  \A i \in Stored(recs) :
    recs[i].remote # NoValue /\ Names(recs[i].remote, "running") => i \in Pending(recs)

\* A restart, a failed Save or a failed Resume loses no persisted task: every
\* pending record is settled in the end (or removed).
PendingSettles ==
  \A i \in Task : (i \in Pending(recs)) ~> (i \notin Pending(recs))
=============================================================================
