---------------------------- MODULE AdapterCalls ----------------------------
(***************************************************************************)
(* One call of Client.Submit, through an engine adapter to the service     *)
(* behind it, and the Client.Resume that may follow (client.go).  What the *)
(* adapter decides at each point is given by operators, so that the module *)
(* is about any adapter; MCAdapterCalls gives those of src/engine.  A job  *)
(* of the service runs on its own, requests may be lost and contexts may   *)
(* end at any time.  poll.Poll is modelled by its effect: a request whose  *)
(* answer says wait is made again, as long as the context is live.         *)
(***************************************************************************)
EXTENDS AdapterReplies

CONSTANTS
  Setup,           \* an adapter, its configuration and what it is given
  Submit(_),       \* Execute up to the request: Fail, Ask(...) or Job(...)
  Answered(_, _),  \* what Execute makes of an answer that is the result
  Created(_, _),   \* what Execute makes of the answer that creates a job
  Polled(_, _),    \* what Execute makes of a status
  Repolled(_, _),  \* what Resume makes of a status
  Fetched(_, _),   \* what either makes of the result it has fetched
  Resumes(_),      \* where Resume polls, Fail, or NoResume
  Replies(_),      \* answers of the service to the first request
  Ends(_),         \* the last statuses of a job
  Busy(_),         \* the status of a job that runs
  Contents(_),     \* what there is to fetch
  Good(_),         \* those of its last statuses that say it has succeeded
  Media(_),        \* Capabilities().MediaTypes
  Divergent(_),    \* setups whose Resume does not do what Execute does
  Wordy(_),        \* setups whose result may be a plain text, or no ID at all
  Loose(_),        \* setups that take an ID or nothing at all for a result
  Hasty(_),        \* setups that take what a job has while it runs for its result
  Misdeclared(_),  \* setups configured to ask for what they do not declare
  NoResume, NoRecord, NoReply

VARIABLES
  setup,   \* never changes
  pc,      \* "ready", "asked", "polling", "fetching", "over" or "stored"
  mode,    \* the call under way: "execute" or "resume"
  place,   \* where it polls
  live,    \* its context has not ended
  clean,   \* history: no request of the call was lost, its context lived
  job,     \* the job of the service: its state, its place, its last status
  out,     \* what the adapter returned
  record   \* the task record

vars == <<setup, pc, mode, place, live, clean, job, out, record>>

NoJob == [st |-> "none", home |-> "", last |-> NoReply]

Init ==
  /\ setup \in Setup
  /\ pc = "ready" /\ mode = "execute" /\ place = ""
  /\ live = TRUE /\ clean = TRUE
  /\ job = NoJob
  /\ out = Fail
  /\ record = NoRecord

-----------------------------------------------------------------------------
Returns(v) == pc' = "over" /\ out' = v

(* Go on as decided: return, ask again, or fetch. *)
Follow(v) ==
  \/ v.do = "wait" /\ pc' = "polling" /\ UNCHANGED out
  \/ v.do = "fetch" /\ pc' = "fetching" /\ UNCHANGED out
  \/ v.do \notin {"wait", "fetch"} /\ Returns(v)

Execute ==
  /\ pc = "ready"
  /\ IF Submit(setup).do = "fail" THEN Returns(Fail) ELSE pc' = "asked" /\ UNCHANGED out
  /\ UNCHANGED <<setup, mode, place, live, clean, job, record>>

(* The answer is the result. *)
AnswerArrives(r) ==
  /\ pc = "asked" /\ Submit(setup).do = "ask"
  /\ Returns(Answered(setup, r))
  /\ UNCHANGED <<setup, mode, place, live, clean, job, record>>

(* A job of the service, which may have ended at once. *)
NewJob(st, r) == [st |-> st, home |-> Submit(setup).home, last |-> r]

(* The answer names the job it has created, or no job. *)
JobCreated(r) ==
  /\ pc = "asked" /\ Submit(setup).do = "job"
  /\ job' = IF "id" \notin r.has THEN job
            ELSE IF r \in Ends(setup) THEN NewJob("ended", r) ELSE NewJob("running", NoReply)
  /\ place' = Submit(setup).home
  /\ Follow(Created(setup, r))
  /\ UNCHANGED <<setup, mode, live, clean, record>>

(* A request or its answer is lost, or the context ends under it: every    *)
(* adapter returns the error.  The service may have created the job.       *)
RequestLost ==
  /\ pc \in {"asked", "polling", "fetching"}
  /\ Returns(Fail)
  /\ clean' = FALSE
  /\ \/ UNCHANGED job
     \/ pc = "asked" /\ Submit(setup).do = "job" /\ job' = NewJob("running", NoReply)
  /\ UNCHANGED <<setup, mode, place, live, record>>

(* Polling in the wrong place, or for what is not the ID of a job: 404. *)
Found == place = job.home /\ (mode = "resume" => record.val = "id")

Status == IF job.st = "ended" THEN job.last ELSE Busy(setup)

Reading(r) == IF mode = "resume" THEN Repolled(setup, r) ELSE Polled(setup, r)

(* One request of poll.Poll that ends it. *)
PollEnds ==
  /\ pc = "polling"
  /\ IF Found THEN Reading(Status).do # "wait" /\ Follow(Reading(Status)) ELSE Returns(Fail)
  /\ UNCHANGED <<setup, mode, place, live, clean, job, record>>

(* poll.Poll sees the end of the context between two requests. *)
PollAborted ==
  /\ pc = "polling" /\ ~live
  /\ Returns(Fail)
  /\ clean' = FALSE
  /\ UNCHANGED <<setup, mode, place, live, job, record>>

ResultFetched(r) ==
  /\ pc = "fetching"
  /\ Returns(Fetched(setup, r))
  /\ UNCHANGED <<setup, mode, place, live, clean, job, record>>

ContextEnds ==
  /\ live /\ pc \in {"asked", "polling", "fetching"}
  /\ live' = FALSE
  /\ UNCHANGED <<setup, pc, mode, place, clean, job, out, record>>

JobEnds(r) ==
  /\ job.st = "running"
  /\ job' = [st |-> "ended", home |-> job.home, last |-> r]
  /\ UNCHANGED <<setup, pc, mode, place, live, clean, out, record>>

-----------------------------------------------------------------------------
Record(st, val, kind) == [st |-> st, val |-> val, kind |-> kind]

(* Client.Submit: a plain text is taken for the ID of a job. *)
Recorded(v) ==
  IF v.kind = "text" THEN Record("pending", v.value, "") ELSE Record("completed", v.value, v.kind)

(* An error of Execute is returned and nothing is stored. *)
Store ==
  /\ pc = "over" /\ mode = "execute" /\ out.do = "give"
  /\ record' = Recorded(out)
  /\ pc' = "stored"
  /\ UNCHANGED <<setup, mode, place, live, clean, job, out>>

(* Client.Resume of a pending record; an engine that is no Resumer leaves  *)
(* it pending.                                                             *)
Resume ==
  /\ pc = "stored" /\ record.st = "pending" /\ Resumes(setup) # NoResume
  /\ mode' = "resume" /\ live' = TRUE /\ clean' = TRUE
  /\ IF Resumes(setup).do = "fail" THEN Returns(Fail) /\ UNCHANGED place
     ELSE pc' = "polling" /\ place' = Resumes(setup).home /\ UNCHANGED out
  /\ UNCHANGED <<setup, job, record>>

(* The outcome of Resume is the end of the task. *)
Settle ==
  /\ pc = "over" /\ mode = "resume"
  /\ record' = IF out.do = "give" THEN Record("completed", out.value, out.kind)
               ELSE Record("failed", record.val, "")
  /\ pc' = "stored"
  /\ UNCHANGED <<setup, mode, place, live, clean, job, out>>

-----------------------------------------------------------------------------
Step ==
  \/ Execute \/ PollEnds \/ PollAborted \/ Store \/ Resume \/ Settle
  \/ \E r \in Replies(setup) : AnswerArrives(r) \/ JobCreated(r)
  \/ \E r \in Contents(setup) : ResultFetched(r)

Next == Step \/ RequestLost \/ ContextEnds \/ \E r \in Ends(setup) : JobEnds(r)

Spec == Init /\ [][Next]_vars

(* Goroutines run, services answer and jobs end. *)
FairSpec == Spec /\ WF_vars(Step) /\ WF_vars(\E r \in Ends(setup) : JobEnds(r))
-----------------------------------------------------------------------------
(* What a waiting Execute makes of the last status r of a job: an outcome, *)
(* or one of those it may fetch.                                           *)
Outcomes(s, r) ==
  IF Polled(s, r).do = "fetch" THEN {Fetched(s, f) : f \in Contents(s)} ELSE {Polled(s, r)}

(* A Resume that nothing disturbs ends only when the job has ended, and    *)
(* tells what Execute would have told had it waited, whatever the engine   *)
(* was configured with and given.  (Resume has the ID alone: the place to  *)
(* poll and the fields to look at are written down a second time.)         *)
ResumeMatchesWait ==
  pc = "over" /\ mode = "resume" /\ clean /\ record.val = "id" /\ ~Divergent(setup)
    => job.st = "ended" /\ out \in Outcomes(setup, job.last)

(* A task is pending only when there is a job to resume: Submit infers it  *)
(* from the kind of the result.                                            *)
PendingNamesItsJob ==
  record # NoRecord /\ ~Wordy(setup)
    => (record.st = "pending" => record.val = "id" /\ job.st # "none")

(* What a completed record holds is a result, of a job that has succeeded  *)
(* where there was one and the engine looks: never the ID, nor an empty    *)
(* string.                                                                 *)
CompletedHoldsValue ==
  record # NoRecord /\ ~Loose(setup)
    => (record.st = "completed" =>
          /\ record.val \notin {"", "id"} /\ record.kind # "unknown"
          /\ job.st # "none" /\ ~Hasty(setup) =>
               job.st = "ended" /\ job.last \in Good(setup))

IsID(v) == v.do = "give" /\ v.value = "id"

(* Undisturbed, Execute leaves no job behind that it does not name: it     *)
(* fails before the job is created, or after it has ended.  A hasty engine *)
(* may leave one of which it has a result, but does not fail either.       *)
NoJobLeftRunning ==
  pc = "over" /\ mode = "execute" /\ clean /\ job.st = "running"
    => IsID(out) \/ (Hasty(setup) /\ out.do = "give")

(* What is asked for is among the media SelectByCapability chose the       *)
(* engine by ("any": it depends on the model; a text is no medium).        *)
AsksForItsMedia ==
  pc = "asked" /\ ~Misdeclared(setup) /\ Submit(setup).makes \notin {"any", "text"}
    => Submit(setup).makes \in Media(setup)

(* Once a call polls or fetches it ends: the last status of every job ends *)
(* the poll.                                                               *)
CallsEnd == pc \in {"asked", "polling", "fetching"} ~> pc = "over"
-----------------------------------------------------------------------------
(* When Resume of an adapter says again what its Execute says: it polls    *)
(* the same place and reads every status alike; a job that runs is waited  *)
(* for, and only a created job has an ID.                                  *)
Agrees(s) ==
  /\ Submit(s).do = "job" =>
       /\ Resumes(s) = NoResume \/ (Resumes(s).do = "poll" /\ Resumes(s).home = Submit(s).home)
       /\ \A r \in Ends(s) : Repolled(s, r) = Polled(s, r) /\ Polled(s, r).do # "wait"
       /\ Repolled(s, Busy(s)).do = "wait" /\ Polled(s, Busy(s)).do = "wait"
       /\ \A r \in Replies(s) :
            IsID(Created(s, r)) \/ Created(s, r).do = "fetch" => "id" \in r.has
  /\ Submit(s).do = "ask" => \A r \in Replies(s) : ~IsID(Answered(s, r))

(* When Execute of an adapter minds the job it has created: it waits for   *)
(* it as long as it runs, or returns its ID (or, hasty, a result).         *)
Minds(s) ==
  Submit(s).do = "job" =>
    /\ \A r \in Replies(s) \ Ends(s) :
         "id" \in r.has => \/ Created(s, r).do = "wait" \/ IsID(Created(s, r))
                           \/ Hasty(s) /\ Created(s, r).do = "give"
    /\ Polled(s, Busy(s)).do = "wait"

(* When a plain text is the ID of a job that was created, so that Submit   *)
(* may take it for one.                                                    *)
Says(v) == v.do = "give" /\ v.kind = "text"

Waits(s) == \E r \in Replies(s) : Created(s, r).do = "wait"

IsSilent(s, v) ==
  ~Says(v) /\ (v.do = "fetch" => \A f \in Contents(s) : ~Says(Fetched(s, f)))

Names(s) ==
  /\ Submit(s).do = "ask" => \A r \in Replies(s) : ~Says(Answered(s, r))
  /\ Submit(s).do = "job" =>
       /\ \A r \in Replies(s) : \/ IsSilent(s, Created(s, r))
                                \/ IsID(Created(s, r)) /\ "id" \in r.has
       /\ Waits(s) => \A r \in Ends(s) \cup {Busy(s)} : IsSilent(s, Polled(s, r))

(* When what is given for a result is one: a value, of a job whose last    *)
(* status says it has succeeded, or of a request that creates none.        *)
IsValue(v) == v.do = "give" => v.value \notin {"", "id"} /\ v.kind # "unknown"

IsSound(s, v, well) ==
  /\ v.do \in {"give", "fetch"} => well
  /\ IsValue(v)
  /\ v.do = "fetch" => \A f \in Contents(s) : IsValue(Fetched(s, f))

Yields(s) ==
  /\ Submit(s).do = "ask" =>
       \A r \in Replies(s) : LET v == Answered(s, r)
                             IN IsValue(v) \/ (Says(v) /\ ~IsID(v))
  /\ Submit(s).do = "job" =>
       /\ \A r \in Replies(s) :
            \/ Says(Created(s, r))
            \/ IsSound(s, Created(s, r), \/ "id" \notin r.has \/ r \in Ends(s) \cap Good(s)
                                         \/ Hasty(s))
       /\ \A r \in Ends(s) :
            /\ Says(Polled(s, r)) \/ IsSound(s, Polled(s, r), r \in Good(s))
            /\ Resumes(s) = NoResume \/ IsSound(s, Repolled(s, r), r \in Good(s))
       /\ Polled(s, Busy(s)).do = "wait" /\ Repolled(s, Busy(s)).do = "wait"
=============================================================================
