------------------------- MODULE AdapterCallsProofs -------------------------
(***************************************************************************)
(* Theorems about AdapterCalls in two layers, checked by TLAPS.            *)
(*                                                                         *)
(* For any adapter: what its tables have to satisfy (Agrees, Minds, Names, *)
(* Yields: conditions without states) for Execute, Resume and the record   *)
(* of the task to fit together, whatever is lost and whenever contexts and *)
(* jobs end.                                                               *)
(*                                                                         *)
(* For the engines of src/engine: that their tables (AdapterCatalogue)     *)
(* satisfy these conditions for every configuration and every graph, and   *)
(* every answer but those a named condition on the service excludes.  The  *)
(* engines that do not are named: PollsApart, WritesText, LeavesEmpty,     *)
(* TakesEarly, DeclaresApart.                                              *)
(***************************************************************************)
EXTENDS AdapterCalls, AdapterCatalogue, FiniteSetTheorems, TLAPS

(* Before the first answer there is no job; a job is where Submit says,    *)
(* and so does a waiting Execute poll.                                     *)
JobIsPlaced ==
  /\ setup \in Setup /\ mode \in {"execute", "resume"}
  /\ pc \in {"ready", "asked"} => job.st = "none" /\ mode = "execute"
  /\ job.st \in {"none", "running", "ended"}
  /\ job.st # "none" => Submit(setup).do = "job" /\ job.home = Submit(setup).home
  /\ job.st = "ended" => job.last \in Ends(setup)
  /\ pc = "polling" /\ mode = "execute" =>
       Submit(setup).do = "job" /\ place = Submit(setup).home

(* The answer that creates a job: what it does to the job.                 *)
LEMMA CreatedJob ==
  ASSUME NEW r, JobCreated(r)
  PROVE  \/ job' = job /\ "id" \notin r.has
         \/ /\ "id" \in r.has /\ r \in Ends(setup)
            /\ job'.st = "ended" /\ job'.home = Submit(setup).home /\ job'.last = r
         \/ /\ "id" \in r.has /\ r \notin Ends(setup)
            /\ job'.st = "running" /\ job'.home = Submit(setup).home
<1>1. CASE "id" \notin r.has
  BY <1>1 DEF JobCreated
<1>2. CASE "id" \in r.has /\ r \in Ends(setup)
  <2>1. job' = [st |-> "ended", home |-> Submit(setup).home, last |-> r]
    BY <1>2 DEF JobCreated, NewJob
  <2>. QED BY <1>2, <2>1
<1>3. CASE "id" \in r.has /\ r \notin Ends(setup)
  <2>1. job' = [st |-> "running", home |-> Submit(setup).home, last |-> NoReply]
    BY <1>3 DEF JobCreated, NewJob
  <2>. QED BY <1>3, <2>1
<1>. QED BY <1>1, <1>2, <1>3

(* A lost request may have created a job, which then runs.                 *)
LEMMA LostJob ==
  ASSUME RequestLost
  PROVE  \/ job' = job
         \/ /\ pc = "asked" /\ Submit(setup).do = "job"
            /\ job'.st = "running" /\ job'.home = Submit(setup).home
<1>1. CASE job' = job
  BY <1>1
<1>2. CASE pc = "asked" /\ Submit(setup).do = "job" /\ job' = NewJob("running", NoReply)
  <2>1. job' = [st |-> "running", home |-> Submit(setup).home, last |-> NoReply]
    BY <1>2 DEF NewJob
  <2>. QED BY <1>2, <2>1
<1>. QED BY <1>1, <1>2 DEF RequestLost

(* A job that ends stays where it is.                                      *)
LEMMA EndedJob ==
  ASSUME NEW r, JobEnds(r)
  PROVE  job.st = "running" /\ job'.st = "ended" /\ job'.home = job.home /\ job'.last = r
<1>1. job.st = "running" /\ job' = [st |-> "ended", home |-> job.home, last |-> r]
  BY DEF JobEnds
<1>. QED BY <1>1

(* What Settle writes.                                                     *)
LEMMA SettledRecord ==
  ASSUME Settle
  PROVE  \/ /\ out.do = "give" /\ record'.st = "completed"
            /\ record'.val = out.value /\ record'.kind = out.kind
         \/ record'.st = "failed"
<1>1. CASE out.do = "give"
  <2>1. record' = [st |-> "completed", val |-> out.value, kind |-> out.kind]
    BY <1>1 DEF Settle, Record
  <2>. QED BY <1>1, <2>1
<1>2. CASE out.do # "give"
  <2>1. record' = [st |-> "failed", val |-> record.val, kind |-> ""]
    BY <1>2 DEF Settle, Record
  <2>. QED BY <2>1
<1>. QED BY <1>1, <1>2

LEMMA SetupStays == [Next]_vars => setup' = setup
BY DEF Next, Step, vars, Execute, PollEnds, PollAborted, Store, Resume, Settle,
   AnswerArrives, JobCreated, ResultFetched, RequestLost, ContextEnds, JobEnds

LEMMA PlacedInit == Init => JobIsPlaced
<1>. SUFFICES ASSUME Init PROVE JobIsPlaced
  OBVIOUS
<1>1. job = [st |-> "none", home |-> "", last |-> NoReply]
  BY DEF Init, NoJob
<1>2. job.st = "none"
  BY <1>1
<1>. QED BY <1>2 DEF Init, JobIsPlaced

LEMMA PlacedNext == JobIsPlaced /\ [Next]_vars => JobIsPlaced'
<1>. SUFFICES ASSUME JobIsPlaced, [Next]_vars PROVE JobIsPlaced'
  OBVIOUS
<1>1. CASE Execute
  BY <1>1 DEF JobIsPlaced, Execute, Returns
<1>2. ASSUME NEW r \in Replies(setup), AnswerArrives(r) PROVE JobIsPlaced'
  BY <1>2 DEF JobIsPlaced, AnswerArrives, Returns
<1>3. ASSUME NEW r \in Replies(setup), JobCreated(r) PROVE JobIsPlaced'
  <2>1. /\ pc' \in {"polling", "fetching", "over"} /\ UNCHANGED <<setup, mode>>
        /\ place' = Submit(setup).home /\ Submit(setup).do = "job" /\ job.st = "none"
    BY <1>3 DEF JobCreated, Follow, Returns, JobIsPlaced
  <2>. QED BY <1>3, <2>1, CreatedJob DEF JobIsPlaced
<1>4. CASE RequestLost
  <2>1. pc' = "over" /\ UNCHANGED <<setup, mode>>
    BY <1>4 DEF RequestLost, Returns
  <2>. QED BY <1>4, <2>1, LostJob DEF JobIsPlaced
<1>5. CASE PollEnds
  <2>1. /\ pc' \in {"polling", "fetching", "over"} /\ pc = "polling"
        /\ UNCHANGED <<setup, mode, place, job>>
    BY <1>5 DEF PollEnds, Follow, Returns
  <2>. QED BY <2>1 DEF JobIsPlaced
<1>6. CASE PollAborted
  BY <1>6 DEF JobIsPlaced, PollAborted, Returns
<1>7. CASE ContextEnds
  BY <1>7 DEF JobIsPlaced, ContextEnds
<1>8. CASE Store
  BY <1>8 DEF JobIsPlaced, Store
<1>9. CASE Settle
  BY <1>9 DEF JobIsPlaced, Settle
<1>10. CASE Resume
  <2>1. pc' \in {"over", "polling"} /\ mode' = "resume" /\ UNCHANGED <<setup, job>>
    BY <1>10 DEF Resume, Returns
  <2>. QED BY <2>1 DEF JobIsPlaced
<1>11. ASSUME NEW r \in Contents(setup), ResultFetched(r) PROVE JobIsPlaced'
  BY <1>11 DEF JobIsPlaced, ResultFetched, Returns
<1>12. ASSUME NEW r \in Ends(setup), JobEnds(r) PROVE JobIsPlaced'
  <2>1. UNCHANGED <<setup, pc, mode, place>>
    BY <1>12 DEF JobEnds
  <2>. QED BY <1>12, <2>1, EndedJob DEF JobIsPlaced
<1>13. CASE UNCHANGED vars
  BY <1>13 DEF JobIsPlaced, vars
<1>. QED
  BY <1>1, <1>2, <1>3, <1>4, <1>5, <1>6, <1>7, <1>8, <1>9, <1>10, <1>11, <1>12, <1>13
  DEF Next, Step

(* A job of the service is always where Submit says it is.                 *)
THEOREM JobStaysPlaced == Spec => []JobIsPlaced
BY PlacedInit, PlacedNext, PTL DEF Spec

-----------------------------------------------------------------------------
(* An undisturbed Execute fetches nothing, and ends with nothing but the   *)
(* ID (or, hasty, a result), while the job runs.                           *)
JobIsMinded ==
  /\ NoJobLeftRunning
  /\ pc = "fetching" /\ mode = "execute" => job.st # "running"

LEMMA MindedNext ==
  ASSUME Minds(setup), JobIsPlaced, JobIsMinded, [Next]_vars
  PROVE  JobIsMinded'
<1>1. CASE Execute
  BY <1>1 DEF JobIsPlaced, JobIsMinded, NoJobLeftRunning, Execute, Returns
<1>2. ASSUME NEW r \in Replies(setup), AnswerArrives(r) PROVE JobIsMinded'
  BY <1>2 DEF JobIsPlaced, JobIsMinded, NoJobLeftRunning, AnswerArrives, Returns
<1>3. ASSUME NEW r \in Replies(setup), JobCreated(r) PROVE JobIsMinded'
  <2>1. job'.st # "running" \/ ("id" \in r.has /\ r \notin Ends(setup))
    BY <1>3, CreatedJob DEF JobIsPlaced, JobCreated
  <2>2. CASE job'.st # "running"
    BY <2>2 DEF JobIsMinded, NoJobLeftRunning
  <2>3. CASE "id" \in r.has /\ r \notin Ends(setup)
    <3>1. \/ Created(setup, r).do = "wait" \/ IsID(Created(setup, r))
          \/ Hasty(setup) /\ Created(setup, r).do = "give"
      BY <1>3, <2>3 DEF Minds, JobCreated
    <3>2. setup' = setup
      BY <1>3 DEF JobCreated
    <3>3. \/ pc' = "polling"
          \/ pc' = "over" /\ (IsID(out') \/ (Hasty(setup') /\ out'.do = "give"))
      BY <1>3, <3>1, <3>2 DEF JobCreated, Follow, Returns, IsID
    <3>. QED BY <3>3 DEF JobIsMinded, NoJobLeftRunning, IsID
  <2>. QED BY <2>1, <2>2, <2>3
<1>4. CASE RequestLost
  BY <1>4 DEF JobIsMinded, NoJobLeftRunning, RequestLost, Returns
<1>5. CASE PollEnds
  <2>1. pc = "polling" /\ UNCHANGED <<setup, mode, job>>
    BY <1>5 DEF PollEnds
  <2>2. SUFFICES ASSUME mode = "execute", job.st = "running" PROVE FALSE
    BY <2>1, <2>2 DEF JobIsMinded, NoJobLeftRunning
  <2>3. Found
    BY <2>1, <2>2 DEF JobIsPlaced, Found
  <2>4. Reading(Status).do = "wait"
    BY <2>2 DEF Reading, Status, Minds, JobIsPlaced
  <2>. QED BY <1>5, <2>3, <2>4 DEF PollEnds
<1>6. CASE PollAborted
  BY <1>6 DEF JobIsMinded, NoJobLeftRunning, PollAborted, Returns
<1>7. CASE ContextEnds
  BY <1>7 DEF JobIsMinded, NoJobLeftRunning, ContextEnds
<1>8. CASE Store
  BY <1>8 DEF JobIsMinded, NoJobLeftRunning, Store
<1>9. CASE Settle
  BY <1>9 DEF JobIsMinded, NoJobLeftRunning, Settle
<1>10. CASE Resume
  BY <1>10 DEF JobIsMinded, NoJobLeftRunning, Resume
<1>11. ASSUME NEW r \in Contents(setup), ResultFetched(r) PROVE JobIsMinded'
  BY <1>11 DEF JobIsMinded, NoJobLeftRunning, ResultFetched, Returns
<1>12. ASSUME NEW r \in Ends(setup), JobEnds(r) PROVE JobIsMinded'
  <2>1. job'.st = "ended"
    BY <1>12, EndedJob
  <2>. QED BY <2>1 DEF JobIsMinded, NoJobLeftRunning
<1>13. CASE UNCHANGED vars
  BY <1>13 DEF JobIsMinded, NoJobLeftRunning, vars
<1>. QED
  BY <1>1, <1>2, <1>3, <1>4, <1>5, <1>6, <1>7, <1>8, <1>9, <1>10, <1>11, <1>12, <1>13
  DEF Next, Step

(* For any set of adapters that mind their jobs, no undisturbed call of    *)
(* Execute ends with a job that runs and that it does not name, unless the *)
(* adapter is hasty and has a result of it.                                *)
THEOREM NothingLeftRunning ==
  (\A s \in Setup : Minds(s)) => (Spec => []NoJobLeftRunning)
<1>. SUFFICES ASSUME \A s \in Setup : Minds(s) PROVE Spec => []NoJobLeftRunning
  OBVIOUS
<1>1. Init => JobIsMinded
  BY DEF Init, JobIsMinded, NoJobLeftRunning
<1>2. JobIsPlaced /\ JobIsMinded /\ [Next]_vars => JobIsMinded'
  <2>1. JobIsPlaced => Minds(setup)
    BY DEF JobIsPlaced
  <2>. QED BY <2>1, MindedNext
<1>3. JobIsMinded => NoJobLeftRunning
  BY DEF JobIsMinded
<1>. QED BY <1>1, <1>2, <1>3, JobStaysPlaced, PTL DEF Spec

-----------------------------------------------------------------------------
(* An ID is that of a job, and Resume polls where the job is; it fetches   *)
(* only what the last status of the job lets Execute fetch.                *)
ResumeIsOnTrack ==
  /\ mode = "execute" /\ (pc = "fetching" \/ (pc = "over" /\ IsID(out)))
       => job.st # "none"
  /\ (pc = "stored" \/ mode = "resume") /\ record.st = "pending" /\ record.val = "id"
       => job.st # "none"
  /\ mode = "resume" /\ pc # "stored" => record.st = "pending"
  /\ pc = "polling" /\ mode = "resume" /\ record.val = "id" => place = job.home
  /\ pc = "fetching" /\ mode = "resume" /\ record.val = "id"
       => job.st = "ended" /\ Polled(setup, job.last).do = "fetch"
  /\ ResumeMatchesWait

LEMMA OnTrackInit == Init => ResumeIsOnTrack
BY DEF Init, ResumeIsOnTrack, ResumeMatchesWait

LEMMA OnTrackNext ==
  ASSUME Agrees(setup), JobIsPlaced, ResumeIsOnTrack, [Next]_vars
  PROVE  ResumeIsOnTrack'
<1>1. CASE Execute
  <2>1. pc' = "asked" \/ (pc' = "over" /\ out' = Fail)
    BY <1>1 DEF Execute, Returns
  <2>2. mode' = "execute" /\ pc' \in {"asked", "over"} /\ (pc' = "over" => ~IsID(out'))
    BY <1>1, <2>1 DEF Execute, IsID, JobIsPlaced, Fail
  <2>. QED BY <2>2 DEF ResumeIsOnTrack, ResumeMatchesWait, IsID
<1>2. ASSUME NEW r \in Replies(setup), AnswerArrives(r) PROVE ResumeIsOnTrack'
  <2>1. mode' = "execute" /\ pc' = "over" /\ out' = Answered(setup, r) /\ Submit(setup).do = "ask"
    BY <1>2 DEF AnswerArrives, Returns, JobIsPlaced
  <2>2. ~IsID(out')
    BY <2>1 DEF Agrees
  <2>. QED BY <2>1, <2>2 DEF ResumeIsOnTrack, ResumeMatchesWait, IsID
<1>3. ASSUME NEW r \in Replies(setup), JobCreated(r) PROVE ResumeIsOnTrack'
  <2>1. /\ mode' = "execute" /\ Submit(setup).do = "job"
        /\ pc' \in {"polling", "fetching"} \/ (pc' = "over" /\ out' = Created(setup, r))
    BY <1>3 DEF JobCreated, Follow, Returns, JobIsPlaced
  <2>2. pc' = "fetching" => Created(setup, r).do = "fetch"
    BY <1>3 DEF JobCreated, Follow, Returns
  <2>3. pc' = "fetching" \/ (pc' = "over" /\ IsID(out')) => job'.st # "none"
    BY <1>3, <2>1, <2>2, CreatedJob DEF Agrees
  <2>. QED BY <2>1, <2>3 DEF ResumeIsOnTrack, ResumeMatchesWait, IsID
<1>4. CASE RequestLost
  <2>1. /\ pc' = "over" /\ ~clean' /\ out'.do = "fail" /\ UNCHANGED <<setup, mode, record>>
        /\ pc # "stored"
    BY <1>4 DEF RequestLost, Returns, Fail
  <2>2. job' = job \/ job'.st = "running"
    BY <1>4, LostJob
  <2>. QED BY <2>1, <2>2 DEF ResumeIsOnTrack, ResumeMatchesWait, IsID
<1>5. CASE PollEnds
  <2>1. /\ pc = "polling" /\ UNCHANGED <<setup, mode, job, record, place, clean>>
        /\ pc' \in {"polling", "fetching", "over"}
    BY <1>5 DEF PollEnds, Follow, Returns
  <2>2. CASE mode = "execute"
    <3>1. Polled(setup, Busy(setup)).do = "wait"
      BY <2>1, <2>2 DEF JobIsPlaced, Agrees
    <3>2. ASSUME job.st = "none" PROVE ~Found \/ Reading(Status).do = "wait"
      BY <2>2, <3>1, <3>2 DEF Reading, Status
    <3>3. job.st = "none" => pc' = "over" /\ ~IsID(out')
      BY <1>5, <3>2 DEF PollEnds, Returns, Fail, IsID
    <3>. QED BY <2>1, <2>2, <3>3 DEF ResumeIsOnTrack, ResumeMatchesWait
  <2>3. CASE mode = "resume" /\ record.val # "id"
    BY <2>1, <2>3 DEF ResumeIsOnTrack, ResumeMatchesWait
  <2>4. CASE mode = "resume" /\ record.val = "id"
    <3>1. job.st # "none" /\ Submit(setup).do = "job" /\ Found
      BY <2>1, <2>4 DEF ResumeIsOnTrack, JobIsPlaced, Found
    <3>2. Reading(Status).do # "wait" /\ Follow(Reading(Status))
      BY <1>5, <3>1 DEF PollEnds
    <3>3. job.st = "ended"
      BY <2>4, <3>1, <3>2 DEF Reading, Status, Agrees, JobIsPlaced
    <3>4. Reading(Status) = Polled(setup, job.last)
      BY <2>4, <3>1, <3>3 DEF Reading, Status, Agrees, JobIsPlaced
    <3>5. CASE Reading(Status).do = "fetch"
      <4>1. pc' = "fetching" /\ Polled(setup, job.last).do = "fetch"
        BY <3>2, <3>4, <3>5 DEF Follow
      <4>. QED BY <2>1, <2>4, <3>1, <3>3, <4>1 DEF ResumeIsOnTrack, ResumeMatchesWait
    <3>6. CASE Reading(Status).do # "fetch"
      <4>1. pc' = "over" /\ out' = Polled(setup, job.last)
        BY <3>2, <3>4, <3>6 DEF Follow, Returns
      <4>2. out' \in Outcomes(setup, job.last)
        BY <3>4, <3>6, <4>1 DEF Outcomes
      <4>. QED BY <2>1, <2>4, <3>1, <3>3, <4>1, <4>2 DEF ResumeIsOnTrack, ResumeMatchesWait
    <3>. QED BY <3>5, <3>6
  <2>5. mode \in {"execute", "resume"}
    BY DEF JobIsPlaced
  <2>. QED BY <2>2, <2>3, <2>4, <2>5
<1>6. CASE PollAborted
  BY <1>6 DEF ResumeIsOnTrack, ResumeMatchesWait, PollAborted, Returns, Fail, IsID
<1>7. CASE ContextEnds
  BY <1>7 DEF ResumeIsOnTrack, ResumeMatchesWait, ContextEnds
<1>8. CASE Store
  <2>1. /\ pc = "over" /\ mode = "execute" /\ out.do = "give" /\ record' = Recorded(out)
        /\ pc' = "stored" /\ UNCHANGED <<setup, mode, job>>
    BY <1>8 DEF Store
  <2>2. out.kind # "text" => record'.st = "completed"
    BY <2>1 DEF Recorded, Record
  <2>3. out.kind = "text" => record'.val = out.value
    BY <2>1 DEF Recorded, Record
  <2>4. record'.st = "pending" /\ record'.val = "id" => IsID(out)
    BY <2>1, <2>2, <2>3 DEF IsID
  <2>. QED BY <2>1, <2>4 DEF ResumeIsOnTrack, ResumeMatchesWait
<1>9. CASE Settle
  <2>1. pc' = "stored" /\ mode' = "resume" /\ UNCHANGED job
    BY <1>9 DEF Settle
  <2>2. record'.st # "pending"
    BY <1>9, SettledRecord
  <2>. QED BY <2>1, <2>2 DEF ResumeIsOnTrack, ResumeMatchesWait
<1>10. CASE Resume
  <2>1. /\ pc = "stored" /\ record.st = "pending" /\ Resumes(setup) # NoResume
        /\ mode' = "resume" /\ UNCHANGED <<setup, job, record>>
        /\ pc' \in {"over", "polling"}
    BY <1>10 DEF Resume, Returns
  <2>2. CASE record.val # "id"
    BY <2>1, <2>2 DEF ResumeIsOnTrack, ResumeMatchesWait
  <2>3. CASE record.val = "id"
    <3>1. job.st # "none" /\ Submit(setup).do = "job" /\ job.home = Submit(setup).home
      BY <2>1, <2>3 DEF ResumeIsOnTrack, JobIsPlaced
    <3>2. Resumes(setup).do = "poll" /\ Resumes(setup).home = job.home
      BY <2>1, <3>1 DEF Agrees
    <3>3. pc' = "polling" /\ place' = job.home
      BY <1>10, <3>2 DEF Resume
    <3>. QED BY <2>1, <3>1, <3>3 DEF ResumeIsOnTrack, ResumeMatchesWait
  <2>. QED BY <2>2, <2>3
<1>11. ASSUME NEW r \in Contents(setup), ResultFetched(r) PROVE ResumeIsOnTrack'
  <2>1. /\ pc = "fetching" /\ pc' = "over" /\ out' = Fetched(setup, r)
        /\ UNCHANGED <<setup, mode, job, record, clean>>
    BY <1>11 DEF ResultFetched, Returns
  <2>2. CASE mode = "execute"
    BY <2>1, <2>2 DEF ResumeIsOnTrack, ResumeMatchesWait
  <2>3. CASE mode = "resume" /\ record.val = "id"
    <3>1. job.st = "ended" /\ Polled(setup, job.last).do = "fetch"
      BY <2>1, <2>3 DEF ResumeIsOnTrack
    <3>2. out' \in Outcomes(setup, job.last)
      BY <2>1, <3>1 DEF Outcomes
    <3>. QED BY <2>1, <2>3, <3>1, <3>2 DEF ResumeIsOnTrack, ResumeMatchesWait
  <2>4. CASE mode = "resume" /\ record.val # "id"
    BY <2>1, <2>4 DEF ResumeIsOnTrack, ResumeMatchesWait
  <2>5. mode \in {"execute", "resume"}
    BY DEF JobIsPlaced
  <2>. QED BY <2>2, <2>3, <2>4, <2>5
<1>12. ASSUME NEW r \in Ends(setup), JobEnds(r) PROVE ResumeIsOnTrack'
  <2>1. UNCHANGED <<setup, pc, mode, place, clean, out, record>>
    BY <1>12 DEF JobEnds
  <2>2. job.st = "running" /\ job'.st = "ended" /\ job'.home = job.home
    BY <1>12, EndedJob
  <2>. QED BY <2>1, <2>2 DEF ResumeIsOnTrack, ResumeMatchesWait, IsID
<1>13. CASE UNCHANGED vars
  BY <1>13 DEF ResumeIsOnTrack, ResumeMatchesWait, vars
<1>. QED
  BY <1>1, <1>2, <1>3, <1>4, <1>5, <1>6, <1>7, <1>8, <1>9, <1>10, <1>11, <1>12, <1>13
  DEF Next, Step

(* For any set of adapters whose Execute and Resume agree (but for those   *)
(* named Divergent): an undisturbed Resume ends with the job, and tells    *)
(* what Execute would have told.                                           *)
THEOREM ResumeAgrees ==
  (\A s \in Setup : Divergent(s) \/ Agrees(s)) => (Spec => []ResumeMatchesWait)
<1>. SUFFICES ASSUME \A s \in Setup : Divergent(s) \/ Agrees(s)
     PROVE  Spec => []ResumeMatchesWait
  OBVIOUS
<1>. DEFINE I == Divergent(setup) \/ ResumeIsOnTrack
<1>1. Init => I
  BY OnTrackInit
<1>2. JobIsPlaced /\ I /\ [Next]_vars => I'
  <2>1. JobIsPlaced => Divergent(setup) \/ Agrees(setup)
    BY DEF JobIsPlaced
  <2>. QED BY <2>1, SetupStays, OnTrackNext
<1>3. I => ResumeMatchesWait
  BY DEF ResumeIsOnTrack, ResumeMatchesWait
<1>. HIDE DEF I
<1>. QED BY <1>1, <1>2, <1>3, JobStaysPlaced, PTL DEF Spec

-----------------------------------------------------------------------------
(* A text that Execute returns names the job it has created, so what       *)
(* Submit records as pending does.                                         *)
TextsAreIDs ==
  /\ pc \in {"ready", "asked"} => record = NoRecord
  /\ mode = "execute" =>
       /\ pc = "polling" => Waits(setup)
       /\ pc = "fetching" => \A f \in Contents(setup) : ~Says(Fetched(setup, f))
       /\ pc = "over" /\ Says(out) => IsID(out) /\ job.st # "none"
  /\ record # NoRecord /\ record.st = "pending" => record.val = "id" /\ job.st # "none"

LEMMA TextsInit == Init => TextsAreIDs
BY DEF Init, TextsAreIDs

LEMMA TextsNext ==
  ASSUME Names(setup), JobIsPlaced, TextsAreIDs, [Next]_vars
  PROVE  TextsAreIDs'
<1>1. CASE Execute
  <2>1. /\ pc' = "asked" \/ (pc' = "over" /\ out' = Fail)
        /\ UNCHANGED <<setup, mode, job, record>> /\ pc = "ready"
    BY <1>1 DEF Execute, Returns
  <2>2. pc' = "over" => ~Says(out')
    BY <2>1 DEF Fail, Says
  <2>. QED BY <2>1, <2>2 DEF TextsAreIDs
<1>2. ASSUME NEW r \in Replies(setup), AnswerArrives(r) PROVE TextsAreIDs'
  <2>1. /\ pc = "asked" /\ Submit(setup).do = "ask" /\ pc' = "over"
        /\ out' = Answered(setup, r) /\ UNCHANGED <<setup, mode, job, record>>
    BY <1>2 DEF AnswerArrives, Returns
  <2>2. ~Says(out')
    BY <2>1 DEF Names
  <2>. QED BY <2>1, <2>2 DEF TextsAreIDs
<1>3. ASSUME NEW r \in Replies(setup), JobCreated(r) PROVE TextsAreIDs'
  <2>. DEFINE v == Created(setup, r)
  <2>1. /\ pc = "asked" /\ Submit(setup).do = "job" /\ UNCHANGED <<setup, mode, record>>
        /\ \/ pc' = "polling" /\ v.do = "wait"
           \/ pc' = "fetching" /\ v.do = "fetch"
           \/ pc' = "over" /\ out' = v
    BY <1>3 DEF JobCreated, Follow, Returns
  <2>2. IsSilent(setup, v) \/ (IsID(v) /\ "id" \in r.has)
    BY <2>1 DEF Names
  <2>3. pc' = "polling" => Waits(setup)
    BY <2>1 DEF Waits
  <2>4. pc' = "fetching" => \A f \in Contents(setup) : ~Says(Fetched(setup, f))
    BY <2>1, <2>2 DEF IsSilent, IsID
  <2>5. pc' = "over" /\ Says(out') => IsID(out') /\ job'.st # "none"
    BY <1>3, <2>1, <2>2, CreatedJob DEF IsSilent
  <2>. QED BY <2>1, <2>3, <2>4, <2>5 DEF TextsAreIDs
<1>4. CASE RequestLost
  <2>1. /\ pc' = "over" /\ ~Says(out') /\ UNCHANGED <<setup, mode, record>>
        /\ pc \in {"asked", "polling", "fetching"}
    BY <1>4 DEF RequestLost, Returns, Fail, Says
  <2>2. job' = job \/ pc = "asked"
    BY <1>4, LostJob
  <2>. QED BY <2>1, <2>2 DEF TextsAreIDs
<1>5. CASE PollEnds
  <2>. DEFINE v == Reading(Status)
  <2>1. /\ pc = "polling" /\ UNCHANGED <<setup, mode, job, record>>
        /\ \/ pc' = "fetching" /\ v.do = "fetch"
           \/ pc' = "over" /\ (out' = v \/ out' = Fail)
    BY <1>5 DEF PollEnds, Follow, Returns
  <2>2. ASSUME mode = "execute" PROVE IsSilent(setup, v)
    <3>1. Status \in Ends(setup) \cup {Busy(setup)}
      BY DEF Status, JobIsPlaced
    <3>2. v = Polled(setup, Status)
      BY <2>2 DEF Reading
    <3>. QED BY <2>1, <2>2, <3>1, <3>2 DEF Names, TextsAreIDs, JobIsPlaced
  <2>3. mode = "execute" /\ pc' = "over" => ~Says(out')
    BY <2>1, <2>2 DEF IsSilent, Fail, Says
  <2>4. mode = "execute" /\ pc' = "fetching"
          => \A f \in Contents(setup) : ~Says(Fetched(setup, f))
    BY <2>1, <2>2 DEF IsSilent
  <2>. QED BY <2>1, <2>3, <2>4 DEF TextsAreIDs
<1>6. CASE PollAborted
  BY <1>6 DEF TextsAreIDs, PollAborted, Returns, Fail, Says
<1>7. CASE ContextEnds
  BY <1>7 DEF TextsAreIDs, ContextEnds
<1>8. CASE Store
  <2>1. /\ pc = "over" /\ mode = "execute" /\ out.do = "give" /\ record' = Recorded(out)
        /\ pc' = "stored" /\ UNCHANGED <<setup, mode, job, out>>
    BY <1>8 DEF Store
  <2>2. out.kind # "text" => record'.st = "completed"
    BY <2>1 DEF Recorded, Record
  <2>3. out.kind = "text" => record'.val = out.value
    BY <2>1 DEF Recorded, Record
  <2>. QED BY <2>1, <2>2, <2>3 DEF TextsAreIDs, Says, IsID
<1>9. CASE Settle
  <2>1. pc' = "stored" /\ mode' = "resume" /\ UNCHANGED <<setup, job>>
    BY <1>9 DEF Settle
  <2>2. record'.st # "pending"
    BY <1>9, SettledRecord
  <2>. QED BY <2>1, <2>2 DEF TextsAreIDs
<1>10. CASE Resume
  <2>1. /\ pc' \in {"over", "polling"} /\ mode' = "resume"
        /\ UNCHANGED <<setup, job, record>>
    BY <1>10 DEF Resume, Returns
  <2>. QED BY <2>1 DEF TextsAreIDs
<1>11. ASSUME NEW r \in Contents(setup), ResultFetched(r) PROVE TextsAreIDs'
  BY <1>11 DEF TextsAreIDs, ResultFetched, Returns
<1>12. ASSUME NEW r \in Ends(setup), JobEnds(r) PROVE TextsAreIDs'
  <2>1. UNCHANGED <<setup, pc, mode, out, record>>
    BY <1>12 DEF JobEnds
  <2>. QED BY <1>12, <2>1, EndedJob DEF TextsAreIDs
<1>13. CASE UNCHANGED vars
  BY <1>13 DEF TextsAreIDs, vars
<1>. QED
  BY <1>1, <1>2, <1>3, <1>4, <1>5, <1>6, <1>7, <1>8, <1>9, <1>10, <1>11, <1>12, <1>13
  DEF Next, Step

(* For any set of adapters (but for the wordy ones) whose texts are IDs of *)
(* created jobs: a pending task always has a job to resume.                *)
THEOREM PendingHasItsJob ==
  (\A s \in Setup : Wordy(s) \/ Names(s)) => (Spec => []PendingNamesItsJob)
<1>. SUFFICES ASSUME \A s \in Setup : Wordy(s) \/ Names(s)
     PROVE  Spec => []PendingNamesItsJob
  OBVIOUS
<1>. DEFINE I == Wordy(setup) \/ TextsAreIDs
<1>1. Init => I
  BY TextsInit
<1>2. JobIsPlaced /\ I /\ [Next]_vars => I'
  <2>1. JobIsPlaced => Wordy(setup) \/ Names(setup)
    BY DEF JobIsPlaced
  <2>. QED BY <2>1, SetupStays, TextsNext
<1>3. I => PendingNamesItsJob
  BY DEF TextsAreIDs, PendingNamesItsJob
<1>. HIDE DEF I
<1>. QED BY <1>1, <1>2, <1>3, JobStaysPlaced, PTL DEF Spec

-----------------------------------------------------------------------------
(* What is about to be recorded as a result is one, and the job it is of,  *)
(* if any, has succeeded, unless the adapter does not look.                *)
Well ==
  job.st # "none" /\ ~Hasty(setup) => job.st = "ended" /\ job.last \in Good(setup)

ResultsAreValues ==
  /\ pc \in {"ready", "asked"} => record = NoRecord
  /\ pc = "fetching" => Well /\ \A f \in Contents(setup) : IsValue(Fetched(setup, f))
  /\ pc = "over" /\ out.do = "give" /\ (mode = "resume" \/ ~Says(out))
       => IsValue(out) /\ Well
  /\ pc = "over" /\ mode = "execute" /\ IsID(out) => Submit(setup).do = "job"
  /\ (pc = "stored" \/ mode = "resume") /\ record.st = "pending" /\ record.val = "id"
       => Submit(setup).do = "job"
  /\ mode = "resume" /\ pc # "stored" => Resumes(setup) # NoResume /\ record.st = "pending"
  /\ record # NoRecord /\ record.st = "completed" =>
       record.val \notin {"", "id"} /\ record.kind # "unknown" /\ Well

LEMMA ValuesInit == Init => ResultsAreValues
BY DEF Init, ResultsAreValues

LEMMA ValuesNext ==
  ASSUME Yields(setup), JobIsPlaced, ResultsAreValues, [Next]_vars
  PROVE  ResultsAreValues'
<1>1. CASE Execute
  <2>1. /\ pc' = "asked" \/ (pc' = "over" /\ out'.do = "fail")
        /\ UNCHANGED <<setup, mode, job, record>> /\ pc = "ready" /\ mode = "execute"
    BY <1>1 DEF Execute, Returns, Fail, JobIsPlaced
  <2>. QED BY <2>1 DEF ResultsAreValues, Well, IsID
<1>2. ASSUME NEW r \in Replies(setup), AnswerArrives(r) PROVE ResultsAreValues'
  <2>. DEFINE v == Answered(setup, r)
  <2>1. /\ pc = "asked" /\ Submit(setup).do = "ask" /\ pc' = "over" /\ mode = "execute"
        /\ out' = v /\ UNCHANGED <<setup, mode, job, record>> /\ job.st = "none"
    BY <1>2 DEF AnswerArrives, Returns, JobIsPlaced
  <2>2. IsValue(v) \/ (Says(v) /\ ~IsID(v))
    BY <2>1 DEF Yields
  <2>3. ~IsID(v)
    BY <2>2 DEF IsValue, IsID
  <2>. QED BY <2>1, <2>2, <2>3 DEF ResultsAreValues, Well
<1>3. ASSUME NEW r \in Replies(setup), JobCreated(r) PROVE ResultsAreValues'
  <2>. DEFINE v == Created(setup, r)
  <2>1. /\ pc = "asked" /\ Submit(setup).do = "job" /\ UNCHANGED <<setup, mode, record>>
        /\ mode = "execute" /\ job.st = "none" /\ record = NoRecord
        /\ \/ pc' = "polling"
           \/ pc' = "fetching" /\ v.do = "fetch"
           \/ pc' = "over" /\ out' = v
    BY <1>3 DEF JobCreated, Follow, Returns, JobIsPlaced, ResultsAreValues
  <2>2. Says(v) \/ IsSound(setup, v, \/ "id" \notin r.has \/ r \in Ends(setup) \cap Good(setup)
                                    \/ Hasty(setup))
    BY <2>1 DEF Yields
  <2>3. "id" \notin r.has \/ r \in Ends(setup) \cap Good(setup) \/ Hasty(setup) => Well'
    BY <1>3, <2>1, CreatedJob DEF Well
  <2>4. pc' = "fetching" => Well' /\ \A f \in Contents(setup) : IsValue(Fetched(setup, f))
    BY <2>1, <2>2, <2>3 DEF IsSound, Says
  <2>5. pc' = "over" /\ out'.do = "give" /\ ~Says(out') => IsValue(out') /\ Well'
    BY <2>1, <2>2, <2>3 DEF IsSound
  <2>. QED BY <2>1, <2>4, <2>5 DEF ResultsAreValues
<1>4. CASE RequestLost
  <2>1. /\ pc' = "over" /\ out'.do = "fail" /\ UNCHANGED <<setup, mode, record>>
        /\ pc \in {"asked", "polling", "fetching"}
    BY <1>4 DEF RequestLost, Returns, Fail
  <2>2. job' = job \/ pc = "asked"
    BY <1>4, LostJob
  <2>. QED BY <2>1, <2>2 DEF ResultsAreValues, IsID, Well
<1>5. CASE PollEnds
  <2>. DEFINE v == Reading(Status)
  <2>1. /\ pc = "polling" /\ UNCHANGED <<setup, mode, place, job, record>>
        /\ \/ pc' = "fetching" /\ v.do = "fetch" /\ Found
           \/ pc' = "over" /\ out' = v /\ v.do # "wait" /\ Found
           \/ pc' = "over" /\ out' = Fail
    BY <1>5 DEF PollEnds, Follow, Returns
  <2>2. ASSUME Found, v.do \in {"give", "fetch"}
        PROVE  /\ (mode = "execute" /\ Says(v)) \/ IsSound(setup, v, Well)
               /\ Submit(setup).do = "job"
    <3>1. mode \in {"execute", "resume"}
      BY DEF JobIsPlaced
    <3>2. Submit(setup).do = "job"
      BY <2>1, <2>2, <3>1 DEF JobIsPlaced, ResultsAreValues, Found
    <3>3. job.st = "ended"
      BY <2>2, <3>1, <3>2 DEF Reading, Status, Yields
    <3>4. Status = job.last /\ job.last \in Ends(setup) /\ (job.last \in Good(setup) => Well)
      BY <3>3 DEF Status, JobIsPlaced, Well
    <3>5. CASE mode = "execute"
      <4>1. v = Polled(setup, job.last)
        BY <3>4, <3>5 DEF Reading
      <4>2. Says(v) \/ IsSound(setup, v, job.last \in Good(setup))
        BY <3>2, <3>4, <4>1 DEF Yields
      <4>. QED BY <3>2, <3>4, <3>5, <4>2 DEF IsSound
    <3>6. CASE mode = "resume"
      <4>1. v = Repolled(setup, job.last) /\ Resumes(setup) # NoResume
        BY <2>1, <3>4, <3>6 DEF Reading, ResultsAreValues
      <4>2. IsSound(setup, v, job.last \in Good(setup))
        BY <3>2, <3>4, <4>1 DEF Yields
      <4>. QED BY <3>2, <3>4, <4>2 DEF IsSound
    <3>. QED BY <3>1, <3>5, <3>6
  <2>3. CASE pc' = "fetching" /\ v.do = "fetch" /\ Found
    <3>1. IsSound(setup, v, Well)
      BY <2>2, <2>3 DEF Says
    <3>2. Well /\ \A f \in Contents(setup) : IsValue(Fetched(setup, f))
      BY <2>3, <3>1 DEF IsSound
    <3>. QED BY <2>1, <2>3, <3>2 DEF ResultsAreValues, Well
  <2>4. CASE pc' = "over" /\ out' = v /\ v.do # "wait" /\ Found
    <3>1. v.do = "give" /\ (mode = "resume" \/ ~Says(v)) => IsValue(v) /\ Well
      BY <2>2, <2>4 DEF IsSound, JobIsPlaced
    <3>2. IsID(v) => Submit(setup).do = "job"
      BY <2>2, <2>4 DEF IsID
    <3>. HIDE DEF v
    <3>. QED BY <2>1, <2>4, <3>1, <3>2 DEF ResultsAreValues, Well
  <2>5. CASE pc' = "over" /\ out' = Fail
    <3>1. out'.do = "fail"
      BY <2>5 DEF Fail
    <3>. QED BY <2>1, <2>5, <3>1 DEF ResultsAreValues, Well, IsID
  <2>. QED BY <2>1, <2>3, <2>4, <2>5
<1>6. CASE PollAborted
  <2>1. /\ pc' = "over" /\ out'.do = "fail" /\ UNCHANGED <<setup, mode, job, record>>
        /\ pc = "polling"
    BY <1>6 DEF PollAborted, Returns, Fail
  <2>. QED BY <2>1 DEF ResultsAreValues, IsID, Well
<1>7. CASE ContextEnds
  BY <1>7 DEF ResultsAreValues, Well, ContextEnds
<1>8. CASE Store
  <2>1. /\ pc = "over" /\ mode = "execute" /\ out.do = "give" /\ record' = Recorded(out)
        /\ pc' = "stored" /\ UNCHANGED <<setup, mode, job, out>>
    BY <1>8 DEF Store
  <2>2. CASE out.kind = "text"
    <3>1. record' = [st |-> "pending", val |-> out.value, kind |-> ""]
      BY <2>1, <2>2 DEF Recorded, Record
    <3>2. record'.st = "pending" /\ record'.val = out.value
      BY <3>1
    <3>. QED BY <2>1, <3>2 DEF ResultsAreValues, IsID
  <2>3. CASE out.kind # "text"
    <3>1. record' = [st |-> "completed", val |-> out.value, kind |-> out.kind]
      BY <2>1, <2>3 DEF Recorded, Record
    <3>2. record'.st = "completed" /\ record'.val = out.value /\ record'.kind = out.kind
      BY <3>1
    <3>3. IsValue(out) /\ Well
      BY <2>1, <2>3 DEF ResultsAreValues, Says
    <3>. QED BY <2>1, <3>2, <3>3 DEF ResultsAreValues, IsValue, Well
  <2>. QED BY <2>2, <2>3
<1>9. CASE Settle
  <2>1. /\ pc = "over" /\ mode = "resume" /\ pc' = "stored" /\ UNCHANGED <<setup, mode, job, out>>
    BY <1>9 DEF Settle
  <2>2. CASE record'.st = "failed"
    BY <2>1, <2>2 DEF ResultsAreValues
  <2>3. CASE /\ out.do = "give" /\ record'.st = "completed"
             /\ record'.val = out.value /\ record'.kind = out.kind
    BY <2>1, <2>3 DEF ResultsAreValues, IsValue, Well
  <2>. QED BY <1>9, <2>2, <2>3, SettledRecord
<1>10. CASE Resume
  <2>1. /\ pc = "stored" /\ record.st = "pending" /\ Resumes(setup) # NoResume
        /\ mode' = "resume" /\ UNCHANGED <<setup, job, record>>
        /\ pc' = "polling" \/ (pc' = "over" /\ out'.do = "fail")
    BY <1>10 DEF Resume, Returns, Fail
  <2>. QED BY <2>1 DEF ResultsAreValues, Well
<1>11. ASSUME NEW r \in Contents(setup), ResultFetched(r) PROVE ResultsAreValues'
  <2>1. /\ pc = "fetching" /\ pc' = "over" /\ out' = Fetched(setup, r)
        /\ UNCHANGED <<setup, mode, job, record>>
    BY <1>11 DEF ResultFetched, Returns
  <2>2. IsValue(out') /\ ~IsID(out')
    BY <2>1 DEF ResultsAreValues, IsValue, IsID
  <2>. QED BY <2>1, <2>2 DEF ResultsAreValues, Well
<1>12. ASSUME NEW r \in Ends(setup), JobEnds(r) PROVE ResultsAreValues'
  <2>1. UNCHANGED <<setup, pc, mode, out, record>>
    BY <1>12 DEF JobEnds
  <2>2. job.st = "running"
    BY <1>12, EndedJob
  <2>. QED BY <2>1, <2>2 DEF ResultsAreValues, Well
<1>13. CASE UNCHANGED vars
  BY <1>13 DEF ResultsAreValues, Well, vars
<1>. QED
  BY <1>1, <1>2, <1>3, <1>4, <1>5, <1>6, <1>7, <1>8, <1>9, <1>10, <1>11, <1>12, <1>13
  DEF Next, Step

(* For any set of adapters (but for the loose ones) that give for a result *)
(* only a value of a job that has succeeded: what a completed record holds *)
(* is one.                                                                 *)
THEOREM CompletedIsAValue ==
  (\A s \in Setup : Loose(s) \/ Yields(s)) => (Spec => []CompletedHoldsValue)
<1>. SUFFICES ASSUME \A s \in Setup : Loose(s) \/ Yields(s)
     PROVE  Spec => []CompletedHoldsValue
  OBVIOUS
<1>. DEFINE I == Loose(setup) \/ ResultsAreValues
<1>1. Init => I
  BY ValuesInit
<1>2. JobIsPlaced /\ I /\ [Next]_vars => I'
  <2>1. JobIsPlaced => Loose(setup) \/ Yields(setup)
    BY DEF JobIsPlaced
  <2>. QED BY <2>1, SetupStays, ValuesNext
<1>3. I => CompletedHoldsValue
  BY DEF ResultsAreValues, CompletedHoldsValue, Well
<1>. HIDE DEF I
<1>. QED BY <1>1, <1>2, <1>3, JobStaysPlaced, PTL DEF Spec

-----------------------------------------------------------------------------
(* What is asked for is among the media of the engine.                     *)
OfItsMedia(v, media) == v.do # "fail" => v.makes \in {"any", "text"} \cup media

(* For any set of adapters whose requests ask for the media they declare   *)
(* (but for the misdeclared ones), what is asked for is among those        *)
(* SelectByCapability chose them by.                                       *)
LEMMA AsksWhatItDeclares ==
  (\A s \in Setup : Misdeclared(s) \/ OfItsMedia(Submit(s), Media(s)))
    => (Spec => []AsksForItsMedia)
<1>. SUFFICES ASSUME \A s \in Setup : Misdeclared(s) \/ OfItsMedia(Submit(s), Media(s))
     PROVE  Spec => []AsksForItsMedia
  OBVIOUS
<1>. DEFINE I == setup \in Setup /\ (pc = "asked" => Submit(setup).do # "fail")
<1>1. Init => I
  BY DEF Init
<1>2. I /\ [Next]_vars => I'
  <2>. SUFFICES ASSUME I, [Next]_vars PROVE I'
    OBVIOUS
  <2>1. setup' = setup
    BY SetupStays
  <2>2. pc' = "asked" => (pc = "ready" /\ Execute) \/ pc = "asked"
    BY DEF Next, Step, vars, Execute, PollEnds, PollAborted, Store, Resume, Settle,
       AnswerArrives, JobCreated, ResultFetched, RequestLost, ContextEnds, JobEnds,
       Follow, Returns
  <2>3. pc = "ready" /\ Execute /\ pc' = "asked" => Submit(setup).do # "fail"
    BY DEF Execute, Returns
  <2>. QED BY <2>1, <2>2, <2>3
<1>3. I => AsksForItsMedia
  BY DEF AsksForItsMedia, OfItsMedia
<1>. HIDE DEF I
<1>. QED BY <1>1, <1>2, <1>3, PTL DEF Spec

-----------------------------------------------------------------------------
(* The adapters of src/engine.  Of the service behind one nothing is       *)
(* assumed here: an answer is any record, an input any set, a              *)
(* configuration any value.                                                *)
AdapterNames ==
  {"kling", "luma", "runway", "pika", "hailuo", "hedra", "meshy",
   "flux", "jimeng", "liblib", "midjourney",
   "stability", "ideogram", "recraft", "google", "openai",
   "fal", "replicate", "runninghub", "comfydeploy", "comfyui",
   "suno", "elevenlabs", "minimax", "volcvoice", "ffmpeg",
   "gemini", "gpt4o", "qwenvl", "openrouter", "ark", "alibabacloud", "newapi"}

(* Those whose result is fetched when the job has ended.                   *)
Fetches(s) ==
  \/ s.a = "fal" \/ (s.a = "newapi" /\ NewAPIRoute(s.c) = "sora")
  \/ s.a = "alibabacloud" /\ s.c = "filetrans"

FromCatalogue(s) ==
  /\ s.a \in AdapterNames
  /\ Submit(s) = SubmitOf(s) /\ Media(s) = MediaOf(s)
  /\ Resumes(s) = IF ResumesOf(s) = NotAResumer THEN NoResume ELSE ResumesOf(s)
  /\ Submit(s).do = "ask" => \A r \in Replies(s) : Answered(s, r) = AnsweredOf(s, r)
  /\ Submit(s).do = "job" =>
       /\ \A r \in Replies(s) : Created(s, r) = CreatedOf(s, r)
       /\ \A r \in Ends(s) \cup {Busy(s)} :
            Polled(s, r) = PolledOf(s, r) /\ Repolled(s, r) = RepolledOf(s, r)
       /\ Fetches(s) => \A f \in Contents(s) : Fetched(s, f) = FetchedOf(s, f)

LEMMA Decisions ==
  /\ Fail.do = "fail" /\ Wait.do = "wait" /\ Fetch.do = "fetch"
  /\ \A p, m, x : Ask(p, m, x).do = "ask" /\ Ask(p, m, x).makes = m
  /\ \A p, h, m, x : /\ Job(p, h, m, x).do = "job" /\ Job(p, h, m, x).makes = m
                     /\ Job(p, h, m, x).home = h
  /\ \A f, k : Give(f, k).do = "give" /\ Give(f, k).value = f /\ Give(f, k).kind = k
  /\ \A h : PollAt(h).do = "poll" /\ PollAt(h).home = h
BY DEF Fail, Wait, Fetch, Ask, Job, Give, PollAt

LEMMA VideoAdaptersAsk ==
  ASSUME NEW c, NEW g
  PROVE  /\ OfItsMedia(KlingSubmit(c, g), KlingMedia(c))
         /\ OfItsMedia(LumaSubmit(c, g), LumaMedia(c))
         /\ OfItsMedia(RunwaySubmit(g), RunwayMedia)
         /\ OfItsMedia(PikaSubmit(g), PikaMedia)
         /\ OfItsMedia(HailuoSubmit(g), HailuoMedia)
         /\ OfItsMedia(HedraSubmit(g), HedraMedia)
         /\ OfItsMedia(MeshySubmit(c, g), MeshyMedia)
BY Decisions
DEF OfItsMedia, KlingSubmit, KlingMedia, KlingImage, KlingVideo, LumaSubmit, LumaMedia,
    LumaImage, LumaVideo, RunwaySubmit, RunwayMedia, PikaSubmit, PikaMedia,
    HailuoSubmit, HailuoMedia, HedraSubmit, HedraMedia, MeshySubmit, MeshyMedia

LEMMA ImageAdaptersAsk ==
  ASSUME NEW c, NEW g
  PROVE  /\ OfItsMedia(FluxSubmit(g), FluxMedia)
         /\ OfItsMedia(JimengSubmit(c, g), JimengMedia(c))
         /\ OfItsMedia(LiblibSubmit(g), LiblibMedia)
         /\ OfItsMedia(MidjourneySubmit(g), MidjourneyMedia)
         /\ OfItsMedia(StabilitySubmit(c, g), {"image"})
         /\ OfItsMedia(IdeogramSubmit(g), {"image"})
         /\ OfItsMedia(RecraftSubmit(g), {"image"})
         /\ OfItsMedia(GoogleSubmit(g), {"image"})
         /\ OfItsMedia(OpenAISubmit(c, g), {"image"})
BY Decisions
DEF OfItsMedia, FluxSubmit, FluxMedia, JimengSubmit, JimengMedia, LiblibSubmit,
    LiblibMedia, MidjourneySubmit, MidjourneyMedia, StabilitySubmit, IdeogramSubmit,
    RecraftSubmit, GoogleSubmit, OpenAISubmit, OpenAIEdits

LEMMA WorkflowAdaptersAsk ==
  ASSUME NEW c, NEW g, NEW m
  PROVE  /\ OfItsMedia(FalSubmit(c, g), m) /\ OfItsMedia(ReplicateSubmit(c, g), m)
         /\ OfItsMedia(RunningHubSubmit(c, g), m)
         /\ OfItsMedia(ComfyDeploySubmit(c, g), m) /\ OfItsMedia(ComfyUISubmit(c, g), m)
<1>1. \A v : (\E p, h, x : v \in {Job(p, h, "any", x), Fail}) => OfItsMedia(v, m)
  BY Decisions DEF OfItsMedia
<1>2. /\ \E p, h, x : FalSubmit(c, g) \in {Job(p, h, "any", x), Fail}
      /\ \E p, h, x : ReplicateSubmit(c, g) \in {Job(p, h, "any", x), Fail}
  BY Zenon DEF FalSubmit, ReplicateSubmit
<1>3. \E p, h, x : RunningHubSubmit(c, g) \in {Job(p, h, "any", x), Fail}
  BY Zenon DEF RunningHubSubmit
<1>4. /\ \E p, h, x : ComfyDeploySubmit(c, g) \in {Job(p, h, "any", x), Fail}
      /\ \E p, h, x : ComfyUISubmit(c, g) \in {Job(p, h, "any", x), Fail}
  BY Zenon DEF ComfyDeploySubmit, ComfyUISubmit
<1>. QED BY <1>1, <1>2, <1>3, <1>4

LEMMA AudioAdaptersAsk ==
  ASSUME NEW c, NEW g
  PROVE  /\ OfItsMedia(SunoSubmit(c, g), SunoMedia)
         /\ OfItsMedia(ElevenLabsSubmit(c, g), ElevenLabsMedia)
         /\ OfItsMedia(MiniMaxSubmit(c, g), MiniMaxMedia)
         /\ OfItsMedia(VolcSubmit(c, g), VolcMedia)
         /\ OfItsMedia(FFmpegSubmit(c, g), {"audio"})
<1>. USE Decisions DEF OfItsMedia
<1>1. OfItsMedia(SunoSubmit(c, g), SunoMedia)
  <2>1. \E p, h, x : SunoSubmit(c, g) \in {Job(p, h, "audio", x), Fail}
    BY Zenon DEF SunoSubmit
  <2>. QED BY <2>1 DEF SunoMedia
<1>2. OfItsMedia(ElevenLabsSubmit(c, g), ElevenLabsMedia)
  BY DEF ElevenLabsSubmit, ElevenLabsMedia, ElevenLabsSFX, ElevenLabsTTS
<1>3. OfItsMedia(MiniMaxSubmit(c, g), MiniMaxMedia)
  BY DEF MiniMaxSubmit, MiniMaxMedia
<1>4. OfItsMedia(VolcSubmit(c, g), VolcMedia)
  BY DEF VolcSubmit, VolcMedia, VolcTTS, VolcASR
<1>5. OfItsMedia(FFmpegSubmit(c, g), {"audio"})
  BY DEF FFmpegSubmit, FFmpegSFX, FFmpegMix
<1>. QED BY <1>1, <1>2, <1>3, <1>4, <1>5

LEMMA ChatAdaptersAsk ==
  ASSUME NEW c, NEW g
  PROVE  /\ OfItsMedia(GeminiSubmit(g), GeminiMedia) /\ OfItsMedia(GPT4oSubmit(g), GPT4oMedia)
         /\ OfItsMedia(QwenVLSubmit(g), QwenVLMedia(c))
         /\ OfItsMedia(OpenRouterSubmit(c, g), OpenRouterMedia(c))
         /\ OfItsMedia(ArkSubmit(c, g), ArkMedia(c))
<1>. USE Decisions DEF OfItsMedia
<1>1. /\ OfItsMedia(GeminiSubmit(g), GeminiMedia) /\ OfItsMedia(GPT4oSubmit(g), GPT4oMedia)
      /\ OfItsMedia(QwenVLSubmit(g), QwenVLMedia(c))
  BY DEF GeminiSubmit, GPT4oSubmit, QwenVLSubmit
<1>2. OfItsMedia(OpenRouterSubmit(c, g), OpenRouterMedia(c))
  BY DEF OpenRouterSubmit, OpenRouterMedia, OpenRouterTTS, OpenRouterASR, OpenRouterImage,
     OpenRouterEntry
<1>3. OfItsMedia(ArkSubmit(c, g), ArkMedia(c))
  <2>1. CASE c = "image"
    <3>1. \E p, x : ArkImage(g) \in {Ask(p, "image", x), Fail}
      BY Zenon DEF ArkImage
    <3>2. ArkSubmit(c, g) \in {ArkImage(g), Fail}
      BY <2>1, Zenon DEF ArkSubmit
    <3>. QED BY <2>1, <3>1, <3>2 DEF ArkMedia
  <2>2. CASE c # "image"
    <3>1. \E p, h, x : ArkSubmit(c, g) \in {Job(p, h, "video", x), Fail}
      BY <2>2, Zenon DEF ArkSubmit
    <3>. QED BY <2>2, <3>1 DEF ArkMedia
  <2>. QED BY <2>1, <2>2
<1>. QED BY <1>1, <1>2, <1>3

LEMMA AliAsks ==
  ASSUME NEW c, NEW g PROVE OfItsMedia(AliSubmit(c, g), AliMedia(c))
<1>. USE Decisions DEF OfItsMedia, AliSubmit, AliMedia
<1>1. CASE c \in {"image", "multimodal"}
  BY <1>1 DEF AliImage, AliMultimodal
<1>2. CASE c \in {"t2v", "horse-t2v", "i2v", "r2v", "edit", "horse-edit", "kling",
                  "horse-i2v", "horse-r2v"}
  BY <1>2 DEF AliVideoJob, AliTextToVideo, AliReferenceVideo, AliVideoEdit, AliKlingVideo,
     AliHorseImage, AliHorseReference
<1>3. CASE c \in {"tts", "design", "asr", "filetrans", "music"}
  BY <1>3 DEF AliTTS, AliVoiceDesign, AliASR, AliFiletrans, AliMusic
<1>4. CASE c = "3d"
  BY <1>4 DEF AliTripo
<1>5. CASE c \notin {"image", "multimodal", "t2v", "horse-t2v", "i2v", "r2v", "edit",
         "horse-edit", "kling", "horse-i2v", "horse-r2v", "tts", "design", "asr",
         "filetrans", "music", "3d"}
  BY <1>5
<1>. QED BY <1>1, <1>2, <1>3, <1>4, <1>5

(* newapi given a route and a kind that do not fit: it asks for what the   *)
(* route says and declares what the kind says.                             *)
Unfit(c) ==
  \/ c.route \in {"video", "kling-text", "kling-image", "jimeng", "sora"} /\ c.kind # "video"
  \/ c.route \in {"images", "edits", "qwen"} /\ c.kind \in {"video", "speech"}
  \/ c.route = "speech" /\ c.kind # "speech"

DeclaresApart(s) == s.a = "newapi" /\ Unfit(s.c)

LEMMA FittingMedia ==
  ASSUME NEW c, ~Unfit(c)
  PROVE  LET k == NewAPIRoute(c)
         IN /\ k \in {"images", "edits", "qwen"} => "image" \in NewAPIMedia(c)
            /\ k \in {"video", "kling-text", "kling-image", "jimeng", "sora"}
                 => "video" \in NewAPIMedia(c)
            /\ k = "speech" => "audio" \in NewAPIMedia(c)
<1>1. CASE c.route = ""
  <2>1. NewAPIRoute(c) = NewAPIRouteOfKind(NewAPIKind(c))
    BY <1>1 DEF NewAPIRoute
  <2>. QED BY <2>1 DEF NewAPIRouteOfKind, NewAPIMedia
<1>2. CASE c.route # ""
  BY <1>2 DEF NewAPIRoute, NewAPIKind, NewAPIMedia, Unfit
<1>. QED BY <1>1, <1>2

LEMMA NewAPIAsks ==
  ASSUME NEW c, NEW g, ~Unfit(c) PROVE OfItsMedia(NewAPISubmit(c, g), NewAPIMedia(c))
<1>. DEFINE k == NewAPIRoute(c)
<1>0. /\ k \in {"images", "edits", "qwen"} => "image" \in NewAPIMedia(c)
      /\ k \in {"video", "kling-text", "kling-image", "jimeng", "sora"}
           => "video" \in NewAPIMedia(c)
      /\ k = "speech" => "audio" \in NewAPIMedia(c)
  BY FittingMedia
<1>. USE <1>0, Decisions DEF OfItsMedia, NewAPISubmit, NewAPIDispatch
<1>1. CASE k \in {"images", "edits", "qwen", "gemini"}
  BY <1>1 DEF NewAPIImages, NewAPIEdits, NewAPIQwen, NewAPIGemini
<1>2. CASE k \in {"video", "kling-text", "kling-image", "jimeng", "sora"}
  BY <1>2 DEF NewAPIVideo, NewAPIKling, NewAPIJimeng, NewAPISora
<1>3. CASE k \in {"speech", "transcriptions", "translations", "chat"}
  BY <1>3 DEF NewAPISpeech, NewAPIWhisper, NewAPIChat
<1>4. CASE k \notin {"images", "edits", "qwen", "gemini", "video", "kling-text",
         "kling-image", "jimeng", "sora", "speech", "transcriptions", "translations", "chat"}
  BY <1>4
<1>. QED BY <1>1, <1>2, <1>3, <1>4

LEMMA CatalogueAsks ==
  ASSUME NEW s, s.a \in AdapterNames, ~DeclaresApart(s)
  PROVE  OfItsMedia(SubmitOf(s), MediaOf(s))
<1>1. CASE s.a \in {"kling", "luma", "runway", "pika", "hailuo", "hedra", "meshy"}
  BY <1>1, VideoAdaptersAsk DEF SubmitOf, MediaOf
<1>2. CASE s.a \in {"flux", "jimeng", "liblib", "midjourney"}
  BY <1>2, ImageAdaptersAsk DEF SubmitOf, MediaOf
<1>3. CASE s.a \in {"stability", "ideogram", "recraft", "google", "openai"}
  BY <1>3, ImageAdaptersAsk DEF SubmitOf, MediaOf
<1>4. CASE s.a \in {"fal", "replicate", "runninghub", "comfydeploy", "comfyui"}
  BY <1>4, WorkflowAdaptersAsk DEF SubmitOf, MediaOf
<1>5. CASE s.a \in {"suno", "elevenlabs", "minimax", "volcvoice", "ffmpeg"}
  BY <1>5, AudioAdaptersAsk DEF SubmitOf, MediaOf
<1>6. CASE s.a \in {"gemini", "gpt4o", "qwenvl", "openrouter", "ark"}
  BY <1>6, ChatAdaptersAsk DEF SubmitOf, MediaOf
<1>7. CASE s.a \in {"alibabacloud", "newapi"}
  BY <1>7, AliAsks, NewAPIAsks DEF SubmitOf, MediaOf, DeclaresApart
<1>. QED BY <1>1, <1>2, <1>3, <1>4, <1>5, <1>6, <1>7 DEF AdapterNames

(* Every engine of src/engine, configured and given anything, asks its     *)
(* service for a medium its Capabilities declare, but for a newapi engine  *)
(* whose route and kind do not fit.                                        *)
THEOREM EnginesAskForTheirMedia ==
  (\A s \in Setup : FromCatalogue(s) /\ (DeclaresApart(s) => Misdeclared(s)))
    => (Spec => []AsksForItsMedia)
<1>. SUFFICES ASSUME \A s \in Setup : FromCatalogue(s) /\ (DeclaresApart(s) => Misdeclared(s))
     PROVE  Spec => []AsksForItsMedia
  OBVIOUS
<1>1. \A s \in Setup : Misdeclared(s) \/ OfItsMedia(Submit(s), Media(s))
  BY CatalogueAsks DEF FromCatalogue
<1>. QED BY <1>1, AsksWhatItDeclares

-----------------------------------------------------------------------------
(* Who creates jobs, and where they are polled.                            *)
JobAdapters ==
  {"kling", "luma", "runway", "pika", "hailuo", "hedra", "meshy", "flux", "jimeng",
   "liblib", "midjourney", "fal", "replicate", "runninghub", "comfydeploy", "comfyui",
   "suno", "ark", "alibabacloud", "newapi"}

AskAdapters ==
  {"jimeng", "stability", "ideogram", "recraft", "google", "openai", "elevenlabs",
   "minimax", "volcvoice", "ffmpeg", "gemini", "gpt4o", "qwenvl", "openrouter", "ark",
   "alibabacloud", "newapi"}

LEMMA ImagesAnswered ==
  ASSUME NEW c, NEW g
  PROVE  /\ StabilitySubmit(c, g).do # "job" /\ IdeogramSubmit(g).do # "job"
         /\ RecraftSubmit(g).do # "job" /\ GoogleSubmit(g).do # "job"
         /\ OpenAISubmit(c, g).do # "job"
BY Decisions
DEF StabilitySubmit, IdeogramSubmit, RecraftSubmit, GoogleSubmit, OpenAISubmit, OpenAIEdits

LEMMA SoundsAndTextsAnswered ==
  ASSUME NEW c, NEW g
  PROVE  /\ ElevenLabsSubmit(c, g).do # "job" /\ MiniMaxSubmit(c, g).do # "job"
         /\ VolcSubmit(c, g).do # "job" /\ FFmpegSubmit(c, g).do # "job"
         /\ GeminiSubmit(g).do # "job" /\ GPT4oSubmit(g).do # "job"
         /\ QwenVLSubmit(g).do # "job" /\ OpenRouterSubmit(c, g).do # "job"
<1>. USE Decisions
<1>1. ElevenLabsSubmit(c, g).do # "job" /\ MiniMaxSubmit(c, g).do # "job"
  BY DEF ElevenLabsSubmit, ElevenLabsSFX, ElevenLabsTTS, MiniMaxSubmit
<1>2. VolcSubmit(c, g).do # "job" /\ FFmpegSubmit(c, g).do # "job"
  BY DEF VolcSubmit, VolcTTS, VolcASR, FFmpegSubmit, FFmpegSFX, FFmpegMix
<1>3. /\ GeminiSubmit(g).do # "job" /\ GPT4oSubmit(g).do # "job"
      /\ QwenVLSubmit(g).do # "job"
  BY DEF GeminiSubmit, GPT4oSubmit, QwenVLSubmit
<1>4. OpenRouterSubmit(c, g).do # "job"
  BY DEF OpenRouterSubmit, OpenRouterTTS, OpenRouterASR, OpenRouterImage
<1>. QED BY <1>1, <1>2, <1>3, <1>4

LEMMA VideosCreated ==
  ASSUME NEW c, NEW g
  PROVE  /\ KlingSubmit(c, g).do # "ask" /\ LumaSubmit(c, g).do # "ask"
         /\ RunwaySubmit(g).do # "ask" /\ PikaSubmit(g).do # "ask"
         /\ HailuoSubmit(g).do # "ask" /\ HedraSubmit(g).do # "ask"
         /\ MeshySubmit(c, g).do # "ask"
BY Decisions
DEF KlingSubmit, KlingImage, KlingVideo, LumaSubmit, LumaImage, LumaVideo, RunwaySubmit,
    PikaSubmit, HailuoSubmit, HedraSubmit, MeshySubmit

LEMMA OthersCreated ==
  ASSUME NEW c, NEW g
  PROVE  /\ FluxSubmit(g).do # "ask" /\ LiblibSubmit(g).do # "ask"
         /\ MidjourneySubmit(g).do # "ask"
         /\ FalSubmit(c, g).do # "ask" /\ ReplicateSubmit(c, g).do # "ask"
         /\ RunningHubSubmit(c, g).do # "ask" /\ ComfyDeploySubmit(c, g).do # "ask"
         /\ ComfyUISubmit(c, g).do # "ask" /\ SunoSubmit(c, g).do # "ask"
<1>1. \A v : (\E p, h, m, x : v \in {Job(p, h, m, x), Fail}) => v.do # "ask"
  BY Decisions
<1>2. /\ FluxSubmit(g).do # "ask" /\ LiblibSubmit(g).do # "ask"
      /\ MidjourneySubmit(g).do # "ask"
  BY Decisions DEF FluxSubmit, LiblibSubmit, MidjourneySubmit
<1>3. /\ \E p, h, m, x : FalSubmit(c, g) \in {Job(p, h, m, x), Fail}
      /\ \E p, h, m, x : ReplicateSubmit(c, g) \in {Job(p, h, m, x), Fail}
      /\ \E p, h, m, x : RunningHubSubmit(c, g) \in {Job(p, h, m, x), Fail}
  BY Zenon DEF FalSubmit, ReplicateSubmit, RunningHubSubmit
<1>4. /\ \E p, h, m, x : ComfyDeploySubmit(c, g) \in {Job(p, h, m, x), Fail}
      /\ \E p, h, m, x : ComfyUISubmit(c, g) \in {Job(p, h, m, x), Fail}
      /\ \E p, h, m, x : SunoSubmit(c, g) \in {Job(p, h, m, x), Fail}
  BY Zenon DEF ComfyDeploySubmit, ComfyUISubmit, SunoSubmit
<1>. QED BY <1>1, <1>2, <1>3, <1>4

LEMMA WhoCreates ==
  ASSUME NEW s, s.a \in AdapterNames
  PROVE  /\ SubmitOf(s).do = "job" => s.a \in JobAdapters
         /\ SubmitOf(s).do = "ask" => s.a \in AskAdapters
<1>1. CASE s.a \in {"stability", "ideogram", "recraft", "google", "openai"}
  BY <1>1, ImagesAnswered DEF SubmitOf, AskAdapters
<1>2. CASE s.a \in {"elevenlabs", "minimax", "volcvoice", "ffmpeg", "gemini", "gpt4o",
                    "qwenvl", "openrouter"}
  BY <1>2, SoundsAndTextsAnswered DEF SubmitOf, AskAdapters
<1>3. CASE s.a \in {"kling", "luma", "runway", "pika", "hailuo", "hedra", "meshy"}
  BY <1>3, VideosCreated DEF SubmitOf, JobAdapters
<1>4. CASE s.a \in {"flux", "liblib", "midjourney", "fal", "replicate", "runninghub",
                    "comfydeploy", "comfyui", "suno"}
  BY <1>4, OthersCreated DEF SubmitOf, JobAdapters
<1>5. CASE s.a \in {"jimeng", "ark", "alibabacloud", "newapi"}
  BY <1>5 DEF JobAdapters, AskAdapters
<1>. QED BY <1>1, <1>2, <1>3, <1>4, <1>5 DEF AdapterNames

(* Resume w polls where the job v is.                                      *)
PollsIt(w, v) == v.do = "job" => w.do = "poll" /\ w.home = v.home

(* The setups whose Resume polls elsewhere, or not at all.                 *)
PollsApart(s) ==
  \/ s.a = "kling" /\ KlingNew(s.c) = "image"
  \/ s.a = "meshy" /\ ~PollsIt(MeshyResume(s.c, s.g), MeshySubmit(s.c, s.g))
  \/ s.a = "newapi" /\ NewAPIRoute(s.c) = "jimeng"

LEMMA VideosResumed ==
  ASSUME NEW c, NEW g
  PROVE  /\ KlingNew(c) # "image" => PollsIt(KlingResume(c, g), KlingSubmit(c, g))
         /\ PollsIt(LumaResume(g), LumaSubmit(c, g))
         /\ PollsIt(RunwayResume(g), RunwaySubmit(g)) /\ PollsIt(PikaResume(g), PikaSubmit(g))
         /\ PollsIt(HailuoResume(g), HailuoSubmit(g)) /\ PollsIt(HedraResume(g), HedraSubmit(g))
<1>. USE Decisions DEF PollsIt, Ready
<1>1. KlingNew(c) # "image" => PollsIt(KlingResume(c, g), KlingSubmit(c, g))
  BY DEF KlingResume, KlingSubmit, KlingVideo
<1>2. PollsIt(LumaResume(g), LumaSubmit(c, g))
  BY DEF LumaResume, LumaSubmit, LumaImage, LumaVideo
<1>3. PollsIt(RunwayResume(g), RunwaySubmit(g)) /\ PollsIt(PikaResume(g), PikaSubmit(g))
  BY DEF RunwayResume, RunwaySubmit, PikaResume, PikaSubmit
<1>4. PollsIt(HailuoResume(g), HailuoSubmit(g)) /\ PollsIt(HedraResume(g), HedraSubmit(g))
  BY DEF HailuoResume, HailuoSubmit, HedraResume, HedraSubmit
<1>. QED BY <1>1, <1>2, <1>3, <1>4

LEMMA ImagesResumed ==
  ASSUME NEW c, NEW g
  PROVE  /\ PollsIt(FluxResume(g), FluxSubmit(g)) /\ PollsIt(LiblibResume(g), LiblibSubmit(g))
         /\ PollsIt(JimengResume(c, g), JimengSubmit(c, g))
         /\ PollsIt(MidjourneyResume(g), MidjourneySubmit(g))
<1>. USE Decisions DEF PollsIt, Ready
<1>1. PollsIt(FluxResume(g), FluxSubmit(g)) /\ PollsIt(LiblibResume(g), LiblibSubmit(g))
  BY DEF FluxResume, FluxSubmit, LiblibResume, LiblibSubmit
<1>2. PollsIt(JimengResume(c, g), JimengSubmit(c, g))
  <2>1. CASE c = "video"
    <3>1. JimengResume(c, g) = IF "key" \in g THEN PollAt(c) ELSE Fail
      BY <2>1, Zenon DEF JimengResume
    <3>. QED BY <2>1, <3>1 DEF JimengSubmit
  <2>2. CASE c # "video"
    BY <2>2 DEF JimengSubmit, JimengIsVideo
  <2>. QED BY <2>1, <2>2
<1>3. PollsIt(MidjourneyResume(g), MidjourneySubmit(g))
  BY DEF MidjourneyResume, MidjourneySubmit
<1>. QED BY <1>1, <1>2, <1>3

LEMMA WorkflowsResumed ==
  ASSUME NEW c, NEW g
  PROVE  /\ PollsIt(FalResume(g), FalSubmit(c, g))
         /\ PollsIt(ReplicateResume(g), ReplicateSubmit(c, g))
         /\ PollsIt(RunningHubResume(g), RunningHubSubmit(c, g))
         /\ PollsIt(ComfyDeployResume(g), ComfyDeploySubmit(c, g))
         /\ PollsIt(SunoResume(c, g), SunoSubmit(c, g)) /\ PollsIt(ArkResume(g), ArkSubmit(c, g))
<1>. DEFINE At(w, v, h) == v = Fail \/ (w = PollAt(h) /\ \E p, m, x : v = Job(p, h, m, x))
<1>1. \A w, v, h : At(w, v, h) => PollsIt(w, v)
  BY Decisions DEF PollsIt
<1>2. At(FalResume(g), FalSubmit(c, g), "requests")
  BY Zenon DEF FalResume, FalSubmit, Ready
<1>3. At(ReplicateResume(g), ReplicateSubmit(c, g), "predictions")
  BY Zenon DEF ReplicateResume, ReplicateSubmit, Ready
<1>4. At(RunningHubResume(g), RunningHubSubmit(c, g), "query")
  BY Zenon DEF RunningHubResume, RunningHubSubmit, Ready
<1>5. At(ComfyDeployResume(g), ComfyDeploySubmit(c, g), "run")
  BY Zenon DEF ComfyDeployResume, ComfyDeploySubmit, Ready
<1>6. At(SunoResume(c, g), SunoSubmit(c, g), "feed")
  BY Zenon DEF SunoResume, SunoSubmit, Ready
<1>7. PollsIt(ArkResume(g), ArkSubmit(c, g))
  <2>1. CASE c = "image"
    <3>1. ArkSubmit(c, g) \in {ArkImage(g), Fail}
      BY <2>1, Zenon DEF ArkSubmit
    <3>2. ArkImage(g).do # "job"
      BY Decisions DEF ArkImage
    <3>. QED BY <3>1, <3>2, Decisions DEF PollsIt
  <2>2. CASE c # "image"
    <3>1. At(ArkResume(g), ArkSubmit(c, g), "tasks")
      BY <2>2, Zenon DEF ArkResume, ArkSubmit, Ready
    <3>. QED BY <1>1, <3>1
  <2>. QED BY <2>1, <2>2
<1>. HIDE DEF At
<1>. QED BY <1>1, <1>2, <1>3, <1>4, <1>5, <1>6, <1>7

(* The jobs of alibabacloud.                                               *)
AliVideos == {"t2v", "horse-t2v", "i2v", "r2v", "edit", "horse-edit", "kling",
              "horse-i2v", "horse-r2v"}

LEMMA AliResumed ==
  ASSUME NEW c, NEW g
  PROVE  /\ PollsIt(AliResume(g), AliSubmit(c, g))
         /\ AliSubmit(c, g).do = "job" => c \in AliVideos \cup {"image", "filetrans", "3d"}
<1>. USE Decisions DEF PollsIt, AliSubmit, AliResume, Ready, AliVideos
<1>1. CASE c \in {"image", "multimodal"}
  BY <1>1 DEF AliImage, AliMultimodal
<1>2. CASE c \in AliVideos
  BY <1>2 DEF AliVideoJob, AliTextToVideo, AliReferenceVideo, AliVideoEdit, AliKlingVideo,
     AliHorseImage, AliHorseReference
<1>3. CASE c \in {"tts", "design", "asr", "filetrans", "music"}
  BY <1>3 DEF AliTTS, AliVoiceDesign, AliASR, AliFiletrans, AliMusic
<1>4. CASE c = "3d"
  BY <1>4 DEF AliTripo
<1>5. CASE c \notin {"image", "multimodal", "tts", "design", "asr", "filetrans", "music", "3d"}
                     \cup AliVideos
  BY <1>5
<1>. QED BY <1>1, <1>2, <1>3, <1>4, <1>5

LEMMA NewAPIResumed ==
  ASSUME NEW c, NEW g
  PROVE  NewAPIRoute(c) # "jimeng" => PollsIt(NewAPIResume(c, g), NewAPISubmit(c, g))
<1>. DEFINE k == NewAPIRoute(c)
<1>. USE Decisions DEF PollsIt, NewAPISubmit, NewAPIDispatch, NewAPIResume, Ready
<1>1. CASE k \in {"images", "edits", "qwen", "gemini"}
  BY <1>1 DEF NewAPIImages, NewAPIEdits, NewAPIQwen, NewAPIGemini
<1>2. CASE k \in {"video", "kling-text", "kling-image", "jimeng", "sora"}
  BY <1>2 DEF NewAPIVideo, NewAPIKling, NewAPIJimeng, NewAPISora
<1>3. CASE k \in {"speech", "transcriptions", "translations", "chat"}
  BY <1>3 DEF NewAPISpeech, NewAPIWhisper, NewAPIChat
<1>4. CASE k \notin {"images", "edits", "qwen", "gemini", "video", "kling-text",
         "kling-image", "jimeng", "sora", "speech", "transcriptions", "translations", "chat"}
  BY <1>4
<1>. QED BY <1>1, <1>2, <1>3, <1>4

LEMMA CatalogueResumes ==
  ASSUME NEW s, s.a \in JobAdapters, ~PollsApart(s)
  PROVE  ResumesOf(s) = NotAResumer \/ PollsIt(ResumesOf(s), SubmitOf(s))
<1>1. CASE s.a \in {"kling", "luma", "runway", "pika", "hailuo", "hedra"}
  BY <1>1, VideosResumed DEF SubmitOf, ResumesOf, PollsApart
<1>2. CASE s.a = "meshy"
  BY <1>2 DEF SubmitOf, ResumesOf, PollsApart
<1>3. CASE s.a \in {"flux", "jimeng", "liblib", "midjourney"}
  BY <1>3, ImagesResumed DEF SubmitOf, ResumesOf
<1>4. CASE s.a \in {"fal", "replicate", "runninghub", "comfydeploy", "suno", "ark"}
  BY <1>4, WorkflowsResumed DEF SubmitOf, ResumesOf
<1>5. CASE s.a = "comfyui"
  BY <1>5 DEF ResumesOf
<1>6. CASE s.a \in {"alibabacloud", "newapi"}
  BY <1>6, AliResumed, NewAPIResumed DEF SubmitOf, ResumesOf, PollsApart
<1>. QED BY <1>1, <1>2, <1>3, <1>4, <1>5, <1>6 DEF JobAdapters

-----------------------------------------------------------------------------
(* The smallest number of a set that is not empty is one of its members.   *)
LEMMA MinIsMember ==
  ASSUME NEW S \in SUBSET Nat, S # {}
  PROVE  Min(S) \in S
<1>. DEFINE T == {0..m : m \in S}
<1>1. T \subseteq FiniteSubsetsOf(Nat) /\ T # {}
  <2>1. ASSUME NEW m \in S PROVE 0..m \in FiniteSubsetsOf(Nat)
    <3>1. m \in Int /\ 0 \in Int /\ 0..m \subseteq Nat
      OBVIOUS
    <3>2. IsFiniteSet(0..m)
      BY <3>1, FS_Interval
    <3>. QED BY <3>1, <3>2 DEF FiniteSubsetsOf
  <2>. QED BY <2>1
<1>2. PICK B \in T : \A A \in T : <<A, B>> \notin StrictSubsetOrdering(Nat)
  BY <1>1, FS_StrictSubsetOrderingWellFounded, WFMin
<1>3. PICK m \in S : B = 0..m
  BY <1>2
<1>4. ASSUME NEW x \in S PROVE m <= x
  <2>1. SUFFICES ASSUME x < m PROVE FALSE
    OBVIOUS
  <2>2. 0..x \in T /\ 0..x \subseteq 0..m /\ 0..x # 0..m
    <3>1. m \in 0..m /\ m \notin 0..x
      BY <2>1
    <3>. QED BY <2>1, <3>1
  <2>3. <<0..x, 0..m>> \in StrictSubsetOrdering(Nat)
    BY <2>2 DEF StrictSubsetOrdering
  <2>. QED BY <1>2, <1>3, <2>2, <2>3
<1>. QED BY <1>3, <1>4 DEF Min

LEMMA FirstOfGives ==
  ASSUME NEW S, NEW names \in Seq(S), NEW r, NEW kind
  PROVE  \/ FirstOf(names, r, kind) = Fail
         \/ \E f \in S : FirstOf(names, r, kind) = Give(f, kind)
<1>. DEFINE held == {i \in DOMAIN names : names[i] \in r.has}
<1>1. CASE held = {}
  BY <1>1 DEF FirstOf
<1>2. CASE held # {}
  <2>1. held \in SUBSET Nat /\ DOMAIN names = 1..Len(names)
    OBVIOUS
  <2>2. Min(held) \in held
    BY <1>2, <2>1, MinIsMember
  <2>3. names[Min(held)] \in S
    BY <2>1, <2>2
  <2>4. FirstOf(names, r, kind) = Give(names[Min(held)], kind)
    BY <1>2 DEF FirstOf
  <2>. QED BY <2>3, <2>4
<1>. QED BY <1>1, <1>2

(* The fields a value is taken from.                                       *)
Fields ==
  {"video", "image", "file", "glb", "fbx", "obj", "usdz", "sample", "link", "data", "url",
   "gif", "audio", "text", "body", "object", "null", "asset", "digits", "video_url",
   "results.url", "result_url", "result.transcription_url", "results.transcription_url",
   "results.text", "results.pbr_model_url"}

(* Nothing, or a field under that kind.                                    *)
Takes(v, kind) ==
  v.do \in {"fail", "give"} /\ (v.do = "give" => v.value \in Fields /\ v.kind = kind)

LEMMA FirstOfFields ==
  ASSUME NEW r, NEW kind
  PROVE  /\ Takes(FirstOf(<< >>, r, kind), kind)
         /\ \A f \in Fields : Takes(FirstOf(<<f>>, r, kind), kind)
         /\ \A f, h \in Fields : Takes(FirstOf(<<f, h>>, r, kind), kind)
         /\ \A f, h, k \in Fields : Takes(FirstOf(<<f, h, k>>, r, kind), kind)
         /\ \A f, h, k, l \in Fields : Takes(FirstOf(<<f, h, k, l>>, r, kind), kind)
<1>1. \A names \in Seq(Fields) : Takes(FirstOf(names, r, kind), kind)
  BY FirstOfGives, Decisions DEF Takes
<1>2. << >> \in Seq(Fields)
  OBVIOUS
<1>3. ASSUME NEW f \in Fields, NEW h \in Fields, NEW k \in Fields, NEW l \in Fields
      PROVE  /\ <<f>> \in Seq(Fields) /\ <<f, h>> \in Seq(Fields)
             /\ <<f, h, k>> \in Seq(Fields) /\ <<f, h, k, l>> \in Seq(Fields)
  OBVIOUS
<1>. HIDE DEF Fields
<1>. QED BY <1>1, <1>2, <1>3, Zenon

LEMMA FieldsAreValues ==
  ASSUME NEW f \in Fields, NEW kind, kind # "unknown"
  PROVE  /\ IsValue(Give(f, kind)) /\ ~IsID(Give(f, kind))
         /\ kind # "text" => ~Says(Give(f, kind))
<1>1. "" \notin Fields /\ "id" \notin Fields
  BY DEF Fields
<1>2. Give(f, kind).do = "give" /\ Give(f, kind).value = f /\ Give(f, kind).kind = kind
  BY Decisions
<1>3. ~IsID(Give(f, kind)) /\ (kind # "text" => ~Says(Give(f, kind)))
  BY <1>1, <1>2 DEF IsID, Says
<1>. QED BY <1>1, <1>2, <1>3, Zenon DEF IsValue

LEMMA VideosPolled ==
  ASSUME NEW r
  PROVE  /\ KlingPoll(r) = Wait \/ Takes(KlingPoll(r), "url")
         /\ LumaPoll(r) = Wait \/ Takes(LumaPoll(r), "url")
         /\ PikaPoll(r) = Wait \/ Takes(PikaPoll(r), "url")
         /\ HailuoPoll(r) = Wait \/ Takes(HailuoPoll(r), "url")
         /\ HedraPoll(r) = Wait \/ Takes(HedraPoll(r), "url")
         /\ MeshyPoll(r) = Wait \/ Takes(MeshyPoll(r), "url")
<1>1. /\ Takes(FirstOf(<<"video", "image">>, r, "url"), "url")
      /\ Takes(FirstOf(<<"video">>, r, "url"), "url")
      /\ Takes(FirstOf(<<"file">>, r, "url"), "url")
      /\ Takes(FirstOf(<<"glb", "fbx", "obj", "usdz">>, r, "url"), "url")
  <2>1. /\ "video" \in Fields /\ "image" \in Fields /\ "file" \in Fields
        /\ "glb" \in Fields /\ "fbx" \in Fields /\ "obj" \in Fields /\ "usdz" \in Fields
    BY DEF Fields
  <2>. QED BY <2>1, FirstOfFields, Zenon
<1>2. Takes(Fail, "url")
  BY Decisions DEF Takes
<1>. QED BY <1>1, <1>2 DEF KlingPoll, LumaPoll, PikaPoll, HailuoPoll, HedraPoll, MeshyPoll

LEMMA ImagesPolled ==
  ASSUME NEW r
  PROVE  /\ FluxPoll(r) = Wait \/ Takes(FluxPoll(r), "url")
         /\ JimengPoll(r) = Wait \/ Takes(JimengPoll(r), "url")
         /\ LiblibPoll(r) = Wait \/ Takes(LiblibPoll(r), "url")
         /\ MidjourneyPoll(r) = Wait \/ Takes(MidjourneyPoll(r), "url")
<1>1. /\ Takes(FirstOf(<<"sample">>, r, "url"), "url")
      /\ Takes(FirstOf(<<"video">>, r, "url"), "url")
      /\ Takes(FirstOf(<<"image">>, r, "url"), "url")
      /\ Takes(FirstOf(<<"image", "video">>, r, "url"), "url")
  <2>1. "sample" \in Fields /\ "video" \in Fields /\ "image" \in Fields
    BY DEF Fields
  <2>. QED BY <2>1, FirstOfFields, Zenon
<1>2. Takes(Fail, "url")
  BY Decisions DEF Takes
<1>. QED BY <1>1, <1>2 DEF FluxPoll, JimengPoll, LiblibPoll, MidjourneyPoll

LEMMA WorkflowsPolled ==
  ASSUME NEW r
  PROVE  /\ FalPoll(r) \in {Wait, Fetch, Fail}
         /\ ComfyDeployPoll(r) = Wait \/ Takes(ComfyDeployPoll(r), "url")
         /\ SunoPoll(r) = Wait \/ Takes(SunoPoll(r), "url")
         /\ ArkPoll(r) = Wait \/ Takes(ArkPoll(r), "url")
         /\ ComfyUIPoll(r) \in {Wait, Give("asset", "url"), Give("id", "text")}
<1>1. /\ Takes(FirstOf(<<"image", "file", "gif">>, r, "url"), "url")
      /\ Takes(FirstOf(<<"audio">>, r, "url"), "url")
      /\ Takes(FirstOf(<<"video">>, r, "url"), "url")
  <2>1. /\ "image" \in Fields /\ "file" \in Fields /\ "gif" \in Fields
        /\ "audio" \in Fields /\ "video" \in Fields
    BY DEF Fields
  <2>. QED BY <2>1, FirstOfFields, Zenon
<1>2. Takes(Fail, "url")
  BY Decisions DEF Takes
<1>3. FalPoll(r) \in {Wait, Fetch, Fail}
  BY DEF FalPoll
<1>4. ComfyUIPoll(r) \in {Wait, Give("asset", "url"), Give("id", "text")}
  BY DEF ComfyUIPoll
<1>. QED BY <1>1, <1>2, <1>3, <1>4 DEF ComfyDeployPoll, ComfyDeployOutput, SunoPoll, ArkPoll

(* Empty values, or texts, but nothing to fetch.                           *)
LEMMA CarelessPolled ==
  ASSUME NEW r
  PROVE  /\ RunwayPoll(r).do # "fetch" /\ ~Says(RunwayPoll(r))
         /\ RunningHubPoll(r).do # "fetch" /\ ~Says(RunningHubPoll(r))
         /\ ReplicatePoll(r).do # "fetch"
<1>1. RunwayPoll(r).do # "fetch" /\ ~Says(RunwayPoll(r))
  <2>1. \/ RunwayPoll(r) \in {Fail, Wait}
        \/ \E f : RunwayPoll(r) = Give(f, "url")
    BY Zenon DEF RunwayPoll
  <2>. QED BY <2>1, Decisions DEF Says
<1>2. RunningHubPoll(r).do # "fetch" /\ ~Says(RunningHubPoll(r))
  <2>1. \/ RunningHubPoll(r) \in {Fail, Wait}
        \/ \E f : RunningHubPoll(r) = Give(f, "url")
    BY Zenon DEF RunningHubPoll
  <2>. QED BY <2>1, Decisions DEF Says
<1>3. ReplicatePoll(r).do # "fetch"
  <2>1. \/ ReplicatePoll(r) \in {Fail, Wait}
        \/ \E f, k : ReplicatePoll(r) = Give(f, k)
    BY Zenon DEF ReplicatePoll
  <2>. QED BY <2>1, Decisions
<1>. QED BY <1>1, <1>2, <1>3

LEMMA AliFields ==
  ASSUME NEW c, NEW r, NEW kind
  PROVE  /\ Takes(FirstOf(AliHandlerFields(c), r, kind), kind)
         /\ Takes(FirstOf(AliResumeFields(c), r, kind), kind)
<1>1. /\ Takes(FirstOf(<<"results.url", "result_url">>, r, kind), kind)
      /\ Takes(FirstOf(<<"result.transcription_url">>, r, kind), kind)
      /\ Takes(FirstOf(<<"results.transcription_url", "results.text">>, r, kind), kind)
      /\ Takes(FirstOf(<<"results.pbr_model_url">>, r, kind), kind)
      /\ Takes(FirstOf(<<"video_url">>, r, kind), kind)
      /\ Takes(FirstOf(<< >>, r, kind), kind)
  <2>1. /\ "results.url" \in Fields /\ "result_url" \in Fields
        /\ "result.transcription_url" \in Fields /\ "results.transcription_url" \in Fields
        /\ "results.text" \in Fields /\ "results.pbr_model_url" \in Fields
        /\ "video_url" \in Fields
    BY DEF Fields
  <2>. QED BY <2>1, FirstOfFields, Zenon
<1>2. Takes(FirstOf(AliHandlerFields(c), r, kind), kind)
  BY <1>1 DEF AliHandlerFields
<1>3. Takes(FirstOf(AliResumeFields(c), r, kind), kind)
  BY <1>1 DEF AliResumeFields
<1>. QED BY <1>2, <1>3

LEMMA AliFetched ==
  ASSUME NEW c, NEW r, NEW kind
  PROVE  LET v == AliFetch(AliHandlerFields(c), r, kind)
             w == AliFetch(AliResumeFields(c), r, kind)
         IN (v = Wait \/ Takes(v, kind)) /\ (w = Wait \/ Takes(w, kind))
<1>1. Takes(Fail, kind)
  BY Decisions DEF Takes
<1>2. ASSUME NEW names, Takes(FirstOf(names, r, kind), kind)
      PROVE  LET v == AliFetch(names, r, kind) IN v = Wait \/ Takes(v, kind)
  BY <1>1, <1>2 DEF AliFetch
<1>. QED BY <1>2, AliFields

LEMMA AliPolled ==
  ASSUME NEW c, NEW r
  PROVE  /\ c = "filetrans" => AliPoll(c, r).do # "give"
         /\ c # "filetrans" => AliPoll(c, r) = Wait \/ Takes(AliPoll(c, r), AliKind(c))
         /\ AliResumePoll(c, r) = Wait \/ Takes(AliResumePoll(c, r), "url")
         /\ c \in AliVideos \cup {"image", "3d"} => AliResumePoll(c, r) = AliPoll(c, r)
<1>. DEFINE v == AliFetch(AliHandlerFields(c), r, AliKind(c))
<1>1. AliPoll(c, r) = IF c = "filetrans" /\ v.do = "give" THEN Fetch ELSE v
  BY DEF AliPoll
<1>2. c = "filetrans" => AliPoll(c, r).do # "give"
  BY <1>1, Decisions
<1>3. c # "filetrans" => AliPoll(c, r) = v
  BY <1>1
<1>4. v = Wait \/ Takes(v, AliKind(c))
  BY AliFetched
<1>5. AliResumePoll(c, r) = Wait \/ Takes(AliResumePoll(c, r), "url")
  BY AliFetched DEF AliResumePoll
<1>6. c \in AliVideos \cup {"image", "3d"} => AliResumePoll(c, r) = AliPoll(c, r)
  <2>1. c \in AliVideos \cup {"image", "3d"} =>
          AliKind(c) = "url" /\ AliResumeFields(c) = AliHandlerFields(c)
    BY DEF AliVideos, AliKind, AliResumeFields, AliHandlerFields
  <2>. QED BY <1>3, <2>1 DEF AliResumePoll, AliVideos
<1>. HIDE DEF v
<1>. QED BY <1>2, <1>3, <1>4, <1>5, <1>6

LEMMA NewAPIPolled ==
  ASSUME NEW c, NEW r
  PROVE  /\ NewAPIRoute(c) = "sora" => NewAPIPoll(c, r) \in {Wait, Fetch, Fail}
         /\ NewAPIRoute(c) # "sora" => NewAPIPoll(c, r) = Wait \/ Takes(NewAPIPoll(c, r), "url")
<1>0. ClassifyOutput("link") = "url"
  BY DEF ClassifyOutput
<1>1. "url" \in Fields
  BY DEF Fields
<1>2. Takes(Fail, "url") /\ Takes(Give("url", "url"), "url")
  BY <1>1, Decisions DEF Takes
<1>3. Takes(FirstOf(<<"url">>, r, "url"), "url")
  BY <1>1, FirstOfFields
<1>4. NewAPIVideoPoll(r) = Wait \/ Takes(NewAPIVideoPoll(r), "url")
  BY <1>0, <1>2, <1>3 DEF NewAPIVideoPoll
<1>5. NewAPIJimengPoll(r) = Wait \/ Takes(NewAPIJimengPoll(r), "url")
  BY <1>0, <1>2 DEF NewAPIJimengPoll
<1>6. NewAPISoraPoll(r) \in {Wait, Fetch, Fail}
  BY DEF NewAPISoraPoll
<1>. QED BY <1>4, <1>5, <1>6 DEF NewAPIPoll

(* Those that may give an empty string, and those that may give a text.    *)
Careless == {"runway", "replicate", "runninghub"}

LEMMA CataloguePolls ==
  ASSUME NEW s, s.a \in JobAdapters, NEW r
  PROVE  LET v == PolledOf(s, r)
         IN /\ v.do = "fetch" => Fetches(s)
            /\ Says(v) => \/ s.a \in {"replicate", "comfyui"}
                          \/ s.a = "alibabacloud" /\ s.c = "asr"
            /\ s.a \notin Careless => IsValue(v) \/ Says(v)
<1>. DEFINE v == PolledOf(s, r)
<1>1. ASSUME NEW w, NEW kind, w = Wait \/ Takes(w, kind), kind \notin {"unknown", "text"}
      PROVE  w.do # "fetch" /\ ~Says(w) /\ IsValue(w)
  <2>1. "" \notin Fields /\ "id" \notin Fields
    BY DEF Fields
  <2>. QED BY <1>1, <2>1, Decisions DEF Takes, Says, IsValue
<1>2. ASSUME NEW w, w \in {Wait, Fetch, Fail} PROVE ~Says(w) /\ IsValue(w)
  BY <1>2, Decisions DEF Says, IsValue
<1>3. CASE s.a \in {"kling", "luma", "pika", "hailuo", "hedra", "meshy"}
  <2>1. v = Wait \/ Takes(v, "url")
    BY <1>3, VideosPolled DEF PolledOf
  <2>. QED BY <1>1, <2>1
<1>4. CASE s.a \in {"flux", "jimeng", "liblib", "midjourney", "comfydeploy", "suno", "ark"}
  <2>1. v = Wait \/ Takes(v, "url")
    BY <1>4, ImagesPolled, WorkflowsPolled DEF PolledOf
  <2>. QED BY <1>1, <2>1
<1>5. CASE s.a = "fal"
  <2>1. v \in {Wait, Fetch, Fail}
    BY <1>5, WorkflowsPolled DEF PolledOf
  <2>. QED BY <1>2, <1>5, <2>1 DEF Fetches
<1>6. CASE s.a = "comfyui"
  <2>1. v \in {Wait, Give("asset", "url"), Give("id", "text")}
    BY <1>6, WorkflowsPolled DEF PolledOf
  <2>2. Takes(Give("asset", "url"), "url")
    BY Decisions DEF Takes, Fields
  <2>3. Says(Give("id", "text")) /\ Give("id", "text").do # "fetch"
    BY Decisions DEF Says
  <2>. QED BY <1>1, <1>6, <2>1, <2>2, <2>3
<1>7. CASE s.a \in Careless
  <2>1. v.do # "fetch" /\ (Says(v) => s.a = "replicate")
    BY <1>7, CarelessPolled DEF PolledOf, Careless
  <2>. QED BY <1>7, <2>1
<1>8. CASE s.a = "alibabacloud"
  <2>1. v = AliPoll(s.c, r)
    BY <1>8 DEF PolledOf
  <2>2. CASE s.c = "filetrans"
    <3>1. v.do # "give"
      BY <2>1, <2>2, AliPolled
    <3>. QED BY <1>8, <2>2, <3>1 DEF Fetches, Says, IsValue
  <2>3. CASE s.c = "asr"
    <3>1. v = Wait \/ Takes(v, "text")
      BY <2>1, <2>3, AliPolled DEF AliKind
    <3>2. "" \notin Fields /\ "id" \notin Fields
      BY DEF Fields
    <3>. QED BY <1>8, <2>3, <3>1, <3>2, Decisions DEF Takes, Says, IsValue
  <2>4. CASE s.c \notin {"filetrans", "asr"}
    <3>1. v = Wait \/ Takes(v, AliKind(s.c))
      BY <2>1, <2>4, AliPolled
    <3>2. AliKind(s.c) \in {"json", "url"}
      BY <2>4 DEF AliKind
    <3>. QED BY <1>1, <3>1, <3>2
  <2>. QED BY <2>2, <2>3, <2>4
<1>9. CASE s.a = "newapi"
  <2>1. v = NewAPIPoll(s.c, r)
    BY <1>9 DEF PolledOf
  <2>2. CASE NewAPIRoute(s.c) = "sora"
    BY <1>2, <1>9, <2>1, <2>2, NewAPIPolled DEF Fetches
  <2>3. CASE NewAPIRoute(s.c) # "sora"
    <3>1. v = Wait \/ Takes(v, "url")
      BY <2>1, <2>3, NewAPIPolled
    <3>. QED BY <1>1, <3>1
  <2>. QED BY <2>2, <2>3
<1>. HIDE DEF v
<1>. QED BY <1>3, <1>4, <1>5, <1>6, <1>7, <1>8, <1>9 DEF JobAdapters, Careless

(* The answer that creates a job.                                          *)
LEMMA Tickets ==
  ASSUME NEW w, NEW r
  PROVE  /\ "id" \notin r.has => Ticket(w, r) = Fail
         /\ "id" \in r.has /\ w => Ticket(w, r) = Wait
         /\ "id" \in r.has /\ ~w => Ticket(w, r) = Give("id", "text")
BY DEF Ticket

LEMMA TicketsGiven ==
  ASSUME NEW s, s.a \in JobAdapters \ {"replicate", "suno", "alibabacloud"}, NEW r
  PROVE  /\ CreatedOf(s, r) \in {Fail, Ticket(s.waits, r)}
         /\ "code" \notin r.has => CreatedOf(s, r) = Ticket(s.waits, r)
<1>1. CASE s.a \in {"kling", "luma", "runway", "pika", "hailuo", "hedra", "meshy"}
  BY <1>1 DEF CreatedOf, KlingCreated, LumaCreated, RunwayCreated, PikaCreated,
     HailuoCreated, HedraCreated, MeshyCreated
<1>2. CASE s.a \in {"flux", "jimeng", "liblib", "midjourney"}
  BY <1>2 DEF CreatedOf, FluxCreated, JimengCreated, LiblibCreated, MidjourneyCreated
<1>3. CASE s.a \in {"fal", "runninghub", "comfydeploy", "comfyui", "ark", "newapi"}
  BY <1>3 DEF CreatedOf, FalCreated, RunningHubCreated, ComfyDeployCreated, ComfyUICreated,
     ArkCreated, NewAPICreated
<1>. QED BY <1>1, <1>2, <1>3 DEF JobAdapters

(* A service that keeps to its word: an answer with the ID of a job has no *)
(* error code, and a clip with an ID is in the list.                       *)
Plain(s, r) ==
  /\ "code" \notin r.has
  /\ s.a = "suno" => "list" \in r.has

(* Those that take a result out of the answer that creates a job.  The     *)
(* clip may still be running: its status is not looked at.                 *)
TakesEarly(s) == s.a = "suno"

(* The one that looks: a prediction says that it has succeeded.            *)
SucceedsAtOnce(s, r) == s.a = "replicate" /\ r.word = "succeeded"

LEMMA CatalogueCreates ==
  ASSUME NEW s, s.a \in JobAdapters, NEW r
  PROVE  LET v == CreatedOf(s, r)
         IN /\ v.do \in {"fail", "wait", "give"}
            /\ IsID(v) => "id" \in r.has
            /\ s.a = "comfyui" /\ v.do = "wait" => s.waits
            /\ Says(v) => IsID(v) \/ s.a \in {"replicate", "suno"}
            /\ "id" \in r.has /\ Plain(s, r) /\ ~SucceedsAtOnce(s, r) =>
                 v.do = "wait" \/ IsID(v) \/ (TakesEarly(s) /\ v.do = "give")
            /\ v.do = "give" =>
                 \/ Says(v) \/ s.a = "replicate" \/ (s.a = "alibabacloud" /\ ~s.waits)
                 \/ TakesEarly(s) /\ IsValue(v)
<1>. DEFINE v == CreatedOf(s, r)
<1>1. CASE s.a \notin {"replicate", "suno", "alibabacloud"}
  <2>1. /\ v \in {Fail, Ticket(s.waits, r)}
        /\ "code" \notin r.has => v = Ticket(s.waits, r)
    BY <1>1, TicketsGiven
  <2>2. CASE "id" \notin r.has
    <3>1. v = Fail
      BY <2>1, <2>2, Tickets
    <3>. QED BY <2>2, <3>1, Decisions DEF IsID, Says
  <2>3. CASE "id" \in r.has /\ s.waits
    <3>1. v \in {Fail, Wait} /\ ("code" \notin r.has => v = Wait)
      BY <2>1, <2>3, Tickets
    <3>. QED BY <2>3, <3>1, Decisions DEF IsID, Says, Plain
  <2>4. CASE "id" \in r.has /\ ~s.waits
    <3>1. v \in {Fail, Give("id", "text")} /\ ("code" \notin r.has => v = Give("id", "text"))
      BY <2>1, <2>4, Tickets
    <3>. QED BY <2>4, <3>1, Decisions DEF IsID, Says, Plain
  <2>. QED BY <2>2, <2>3, <2>4
<1>2. CASE s.a = "replicate"
  <2>1. v = ReplicateCreated(s.waits, r)
    BY <1>2 DEF CreatedOf
  <2>2. CASE "id" \in r.has /\ r.word = "succeeded"
    <3>1. \E f, k : v = Give(f, k) /\ f # "id"
      <4>1. ReplicateShape(r) \in {"link", "text", "", "object", "null"}
        BY Zenon DEF ReplicateShape
      <4>2. \E k : v = Give(ReplicateShape(r), k)
        BY <2>1, <2>2, Zenon DEF ReplicateCreated, ReplicateOutput
      <4>3. "id" \notin {"link", "text", "", "object", "null"}
        OBVIOUS
      <4>. QED BY <4>1, <4>2, <4>3, Zenon
    <3>2. v.do = "give"
      BY <3>1, Decisions
    <3>. QED BY <1>2, <2>2, <3>2 DEF SucceedsAtOnce
  <2>3. CASE ~("id" \in r.has /\ r.word = "succeeded")
    <3>1. v = Ticket(s.waits, r)
      BY <2>1, <2>3 DEF ReplicateCreated
    <3>. QED BY <1>2, <3>1, Tickets, Decisions DEF IsID, Says, Plain
  <2>. QED BY <2>2, <2>3
<1>3. CASE s.a = "suno"
  <2>1. v = SunoCreated(s.waits, r)
    BY <1>3 DEF CreatedOf
  <2>2. CASE "list" \notin r.has
    <3>1. v = Fail
      BY <2>1, <2>2, Zenon DEF SunoCreated
    <3>. QED BY <1>3, <2>2, <3>1, Decisions DEF IsID, Says, Plain
  <2>3. CASE "list" \in r.has /\ "audio" \in r.has
    <3>1. v = Give("audio", "url")
      BY <2>1, <2>3, Zenon DEF SunoCreated
    <3>2. IsValue(v) /\ ~IsID(v) /\ ~Says(v) /\ v.do = "give"
      BY <3>1, FieldsAreValues, Decisions DEF Fields
    <3>. QED BY <1>3, <2>3, <3>2 DEF TakesEarly
  <2>4. CASE "list" \in r.has /\ "audio" \notin r.has /\ s.waits
    <3>1. v = Wait
      BY <2>1, <2>4, Zenon DEF SunoCreated
    <3>. QED BY <1>3, <2>4, <3>1, Decisions DEF IsID, Says, Plain
  <2>5. CASE "list" \in r.has /\ "audio" \notin r.has /\ ~s.waits
    <3>1. \E f : v = Give(f, "text") /\ (f = "id" <=> "id" \in r.has)
      <4>1. /\ "id" \in r.has => v = Give("id", "text")
            /\ "id" \notin r.has => v = Give("", "text")
        BY <2>1, <2>5, Zenon DEF SunoCreated
      <4>2. "" # "id"
        OBVIOUS
      <4>. QED BY <4>1, <4>2, Zenon
    <3>2. v.do = "give" /\ Says(v) /\ (IsID(v) <=> "id" \in r.has)
      BY <3>1, Decisions DEF Says, IsID
    <3>. QED BY <1>3, <2>5, <3>2
  <2>. QED BY <2>2, <2>3, <2>4, <2>5
<1>4. CASE s.a = "alibabacloud"
  <2>1. /\ "id" \notin r.has => v = Fail
        /\ "id" \in r.has /\ s.waits => v = Wait
        /\ "id" \in r.has /\ ~s.waits => v = Give("id", AliKind(s.c))
    BY <1>4, Zenon DEF CreatedOf, AliCreated
  <2>. QED BY <1>4, <2>1, Decisions DEF IsID, Says
<1>. HIDE DEF v
<1>. QED BY <1>1, <1>2, <1>3, <1>4

-----------------------------------------------------------------------------
(* The engines whose answers may be plain texts, or whose IDs may be       *)
(* missing.                                                                *)
SpeaksText(s) ==
  \/ s.a \in {"gemini", "gpt4o", "qwenvl", "minimax"}
  \/ s.a = "volcvoice" /\ s.c # "tts"
  \/ s.a = "openrouter" /\ OpenRouterEntry(s.c, s.g) = "asr"
  \/ s.a = "alibabacloud" /\ s.c \in {"asr", "filetrans"}
  \/ s.a = "newapi" /\ NewAPIRoute(s.c) \in {"chat", "gemini", "transcriptions", "translations"}

(* A result that Client.Submit cannot take for an ID.                      *)
Proper(v) == IsValue(v) /\ ~IsID(v) /\ ~Says(v)

LEMMA ProperAnswers ==
  ASSUME NEW r
  PROVE  /\ Proper(Fail) /\ Proper(Give("link", "url")) /\ Proper(Give("data", "data"))
         /\ Proper(Give("object", "json"))
         /\ Proper(FirstOf(<<"link">>, r, "url")) /\ Proper(FirstOf(<<"data">>, r, "data"))
         /\ ClassifyOutput("link") = "url" /\ ClassifyOutput("data") = "data"
         /\ ClassifyOutput("object") = "json" /\ ClassifyOutput("text") = "text"
<1>1. \A v, k : Takes(v, k) /\ k \notin {"text", "unknown"} => Proper(v)
  <2>1. "" \notin Fields /\ "id" \notin Fields
    BY DEF Fields
  <2>. QED BY <2>1 DEF Takes, IsValue, IsID, Says, Proper
<1>2. Proper(Fail)
  BY Decisions DEF IsValue, IsID, Says, Proper
<1>3. /\ Proper(Give("link", "url")) /\ Proper(Give("data", "data"))
      /\ Proper(Give("object", "json"))
  BY FieldsAreValues DEF Fields, Proper
<1>4. /\ ClassifyOutput("link") = "url" /\ ClassifyOutput("data") = "data"
      /\ ClassifyOutput("object") = "json" /\ ClassifyOutput("text") = "text"
  BY DEF ClassifyOutput
<1>5. Proper(FirstOf(<<"link">>, r, "url")) /\ Proper(FirstOf(<<"data">>, r, "data"))
  <2>1. "link" \in Fields /\ "data" \in Fields
    BY DEF Fields
  <2>2. Takes(FirstOf(<<"link">>, r, "url"), "url") /\ Takes(FirstOf(<<"data">>, r, "data"), "data")
    BY <2>1, FirstOfFields, Zenon
  <2>. QED BY <1>1, <2>2
<1>. QED BY <1>2, <1>3, <1>4, <1>5

(* A text, but no ID.                                                      *)
Text(v) == v.do = "give" => Says(v) /\ ~IsID(v)

LEMMA TextAnswers ==
  ASSUME NEW r
  PROVE  Text(Fail) /\ Text(FirstOf(<<"text">>, r, "text"))
<1>1. "text" \in Fields /\ "id" \notin Fields
  BY DEF Fields
<1>2. Takes(FirstOf(<<"text">>, r, "text"), "text")
  BY <1>1, FirstOfFields
<1>3. Text(Fail)
  BY Decisions DEF Text
<1>. QED BY <1>1, <1>2, <1>3 DEF Takes, Text, Says, IsID

LEMMA ImagesGiven ==
  ASSUME NEW g, NEW r
  PROVE  /\ Proper(StabilityAnswer(r)) /\ Proper(IdeogramAnswer(r))
         /\ Proper(RecraftAnswer(r)) /\ Proper(GoogleAnswer(r)) /\ Proper(OpenAIAnswer(r))
         /\ Proper(JimengAnswer(g, r)) /\ Proper(ArkAnswer(g, r))
BY ProperAnswers
DEF StabilityAnswer, IdeogramAnswer, RecraftAnswer, GoogleAnswer, OpenAIAnswer,
    JimengAnswer, ArkAnswer

LEMMA SoundsGiven ==
  ASSUME NEW r
  PROVE  /\ Proper(ElevenLabsAnswer(r)) /\ Proper(FFmpegAnswer(r)) /\ Proper(VolcTTSAnswer(r))
         /\ Text(VolcASRAnswer(r))
         /\ Proper(MiniMaxAnswer(r)) \/ Text(MiniMaxAnswer(r))
<1>1. /\ Proper(ElevenLabsAnswer(r)) /\ Proper(FFmpegAnswer(r)) /\ Proper(VolcTTSAnswer(r))
  BY ProperAnswers DEF ElevenLabsAnswer, FFmpegAnswer, VolcTTSAnswer
<1>2. Text(VolcASRAnswer(r))
  BY TextAnswers DEF VolcASRAnswer
<1>3. Proper(MiniMaxAnswer(r)) \/ Text(MiniMaxAnswer(r))
  <2>1. MiniMaxAnswer(r) \in {Fail, Give("link", ClassifyOutput("link")),
                             Give("digits", ClassifyOutput("digits"))}
    <3>1. MiniMaxMusic(r) \in {"", "link", "digits"}
      BY Zenon DEF MiniMaxMusic
    <3>. QED BY <3>1, Zenon DEF MiniMaxAnswer
  <2>2. ClassifyOutput("digits") = "text"
    BY DEF ClassifyOutput
  <2>3. Text(Give("digits", "text"))
    BY FieldsAreValues, Decisions DEF Fields, Text, Says
  <2>. QED BY <2>1, <2>2, <2>3, ProperAnswers
<1>. QED BY <1>1, <1>2, <1>3

LEMMA ChatsGiven ==
  ASSUME NEW r
  PROVE  /\ Text(GeminiAnswer(r)) /\ Text(GPT4oAnswer(r)) /\ Text(QwenVLAnswer(r))
         /\ Proper(OpenRouterImageAnswer(r)) /\ Proper(OpenRouterTTSAnswer(r))
         /\ Text(OpenRouterASRAnswer(r))
<1>1. \A f : f # "id" => Text(Give(f, "text"))
  BY Decisions DEF Text, Says, IsID
<1>2. "" # "id" /\ "text" # "id"
  OBVIOUS
<1>3. Text(GeminiAnswer(r)) /\ Text(GPT4oAnswer(r))
  BY <1>1, <1>2, TextAnswers, Zenon DEF GeminiAnswer, GPT4oAnswer
<1>4. Text(QwenVLAnswer(r)) /\ Text(OpenRouterASRAnswer(r))
  BY TextAnswers, ProperAnswers DEF QwenVLAnswer, QwenVLJSON, QwenVLStream, OpenRouterASRAnswer
<1>5. Proper(OpenRouterImageAnswer(r)) /\ Proper(OpenRouterTTSAnswer(r))
  BY ProperAnswers DEF OpenRouterImageAnswer, OpenRouterTTSAnswer
<1>. QED BY <1>3, <1>4, <1>5

LEMMA AliGiven ==
  ASSUME NEW c, NEW r
  PROVE  /\ c # "asr" => Proper(AliAnswered(c, r))
         /\ c = "asr" => Text(AliAnswered(c, r))
<1>1. /\ Proper(AliImageAnswer(r)) /\ Proper(AliAudioAnswer(r)) /\ Proper(AliDesignAnswer(r))
  BY ProperAnswers DEF AliImageAnswer, AliAudioAnswer, AliDesignAnswer
<1>2. Text(AliASRAnswer(r))
  BY TextAnswers DEF AliASRAnswer
<1>. QED BY <1>1, <1>2 DEF AliAnswered

LEMMA NewAPIGiven ==
  ASSUME NEW c, NEW g, NEW r
  PROVE  LET v == NewAPIAnswer(c, g, r)
         IN /\ NewAPIRoute(c) \in {"chat", "gemini"} => Proper(v) \/ Text(v)
            /\ NewAPIRoute(c) \in {"transcriptions", "translations"} => ~IsID(v)
            /\ NewAPIRoute(c) \notin {"chat", "gemini", "transcriptions", "translations"}
                 => Proper(v)
<1>1. Proper(NewAPIImageAnswer(r)) /\ Proper(NewAPISpeechAnswer(r))
  BY ProperAnswers DEF NewAPIImageAnswer, NewAPISpeechAnswer
<1>2. Proper(NewAPIGeminiAnswer(r)) \/ Text(NewAPIGeminiAnswer(r))
  BY ProperAnswers, TextAnswers DEF NewAPIGeminiAnswer
<1>3. Text(NewAPIChatAnswer(r))
  BY ProperAnswers, TextAnswers DEF NewAPIChatAnswer
<1>4. ~IsID(NewAPIWhisperAnswer(g, r))
  <2>1. \E f, k : NewAPIWhisperAnswer(g, r) = Give(f, k) /\ f \in {"object", "text", ""}
    BY Zenon DEF NewAPIWhisperAnswer
  <2>2. "id" \notin {"object", "text", ""}
    OBVIOUS
  <2>3. \E f, k : NewAPIWhisperAnswer(g, r) = Give(f, k) /\ f # "id"
    BY <2>1, <2>2, Zenon
  <2>. QED BY <2>3, Decisions DEF IsID
<1>. QED BY <1>1, <1>2, <1>3, <1>4 DEF NewAPIAnswer

LEMMA CatalogueAnswers ==
  ASSUME NEW s, s.a \in AskAdapters, NEW r
  PROVE  LET v == AnsweredOf(s, r)
             transcribes == /\ s.a = "newapi"
                            /\ NewAPIRoute(s.c) \in {"transcriptions", "translations"}
         IN /\ ~IsID(v)
            /\ ~SpeaksText(s) => ~Says(v)
            /\ ~transcribes => IsValue(v) \/ Says(v)
<1>. DEFINE v == AnsweredOf(s, r)
<1>1. /\ Proper(v) => ~IsID(v) /\ ~Says(v) /\ IsValue(v)
      /\ Text(v) => ~IsID(v) /\ (IsValue(v) \/ Says(v))
  BY DEF Proper, Text, IsID, IsValue
<1>2. CASE s.a \in {"jimeng", "stability", "ideogram", "recraft", "google", "openai", "ark"}
  <2>1. Proper(v)
    BY <1>2, ImagesGiven DEF AnsweredOf
  <2>. QED BY <1>1, <1>2, <2>1
<1>3. CASE s.a \in {"elevenlabs", "minimax", "volcvoice", "ffmpeg"}
  <2>1. Proper(v) \/ (Text(v) /\ SpeaksText(s))
    BY <1>3, SoundsGiven DEF AnsweredOf, SpeaksText
  <2>. QED BY <1>1, <1>3, <2>1
<1>4. CASE s.a \in {"gemini", "gpt4o", "qwenvl", "openrouter"}
  <2>1. Proper(v) \/ (Text(v) /\ SpeaksText(s))
    BY <1>4, ChatsGiven DEF AnsweredOf, OpenRouterAnswered, SpeaksText
  <2>. QED BY <1>1, <1>4, <2>1
<1>5. CASE s.a = "alibabacloud"
  <2>1. Proper(v) \/ (Text(v) /\ SpeaksText(s))
    BY <1>5, AliGiven DEF AnsweredOf, SpeaksText
  <2>. QED BY <1>1, <1>5, <2>1
<1>6. CASE s.a = "newapi"
  <2>1. v = NewAPIAnswer(s.c, s.g, r)
    BY <1>6 DEF AnsweredOf
  <2>. QED BY <1>1, <1>6, <2>1, NewAPIGiven DEF SpeaksText
<1>. HIDE DEF v
<1>. QED BY <1>2, <1>3, <1>4, <1>5, <1>6 DEF AskAdapters

LEMMA CatalogueFetches ==
  ASSUME NEW s, Fetches(s), NEW f
  PROVE  LET v == FetchedOf(s, f)
         IN /\ s.a # "alibabacloud" => Proper(v)
            /\ s.a = "alibabacloud" => IsValue(v)
<1>. DEFINE v == FetchedOf(s, f)
<1>1. CASE s.a = "fal"
  <2>1. v \in {Give("image", "url"), Give("video", "url"), Give("body", "json")}
    BY <1>1 DEF FetchedOf, FalResult
  <2>2. /\ Proper(Give("image", "url")) /\ Proper(Give("video", "url"))
        /\ Proper(Give("body", "json"))
    BY FieldsAreValues DEF Fields, Proper
  <2>. QED BY <1>1, <2>1, <2>2
<1>2. CASE s.a = "newapi"
  BY <1>2, ProperAnswers DEF FetchedOf, NewAPISoraContent
<1>3. CASE s.a = "alibabacloud"
  <2>1. "text" \in Fields /\ "id" \notin Fields /\ "" \notin Fields
    BY DEF Fields
  <2>2. Takes(FirstOf(<<"text">>, f, "text"), "text")
    BY <2>1, FirstOfFields
  <2>3. IsValue(v)
    BY <1>3, <2>1, <2>2 DEF FetchedOf, AliTranscript, Takes, IsValue
  <2>. QED BY <1>3, <2>3
<1>. HIDE DEF v
<1>. QED BY <1>1, <1>2, <1>3 DEF Fetches

(* ... and with them those that may give a text for a job.                 *)
WritesText(s) ==
  \/ SpeaksText(s) \/ s.a \in {"replicate", "suno"}
  \/ s.a = "comfyui" /\ s.waits

LEMMA CatalogueNames ==
  ASSUME NEW s, s.a \in AdapterNames, FromCatalogue(s), ~WritesText(s)
  PROVE  Names(s)
<1>1. Submit(s).do = "ask" => \A r \in Replies(s) : ~Says(Answered(s, r))
  BY WhoCreates, CatalogueAnswers DEF FromCatalogue, WritesText
<1>2. ASSUME Submit(s).do = "job", NEW r \in Replies(s)
      PROVE  IsSilent(s, Created(s, r)) \/ (IsID(Created(s, r)) /\ "id" \in r.has)
  <2>1. s.a \in JobAdapters /\ Created(s, r) = CreatedOf(s, r)
    BY <1>2, WhoCreates DEF FromCatalogue
  <2>. QED BY <2>1, CatalogueCreates DEF IsSilent, WritesText
<1>3. ASSUME Submit(s).do = "job", Waits(s), NEW r \in Ends(s) \cup {Busy(s)}
      PROVE  IsSilent(s, Polled(s, r))
  <2>1. s.a \in JobAdapters /\ Polled(s, r) = PolledOf(s, r)
    BY <1>3, WhoCreates DEF FromCatalogue
  <2>2. s.a # "comfyui"
    BY <1>3, <2>1, CatalogueCreates DEF Waits, FromCatalogue, WritesText
  <2>3. ~Says(PolledOf(s, r)) /\ (PolledOf(s, r).do = "fetch" => Fetches(s))
    BY <2>1, <2>2, CataloguePolls DEF WritesText, SpeaksText
  <2>4. ASSUME Fetches(s), NEW f \in Contents(s) PROVE ~Says(Fetched(s, f))
    <3>1. Fetched(s, f) = FetchedOf(s, f)
      BY <1>3, <2>4 DEF FromCatalogue
    <3>2. s.a # "alibabacloud"
      BY <2>4 DEF Fetches, WritesText, SpeaksText
    <3>. QED BY <2>4, <3>1, <3>2, CatalogueFetches DEF Proper
  <2>. QED BY <2>1, <2>3, <2>4 DEF IsSilent
<1>. QED BY <1>1, <1>2, <1>3 DEF Names

(* Whatever its service answers, an engine whose results are no texts      *)
(* makes Submit record a task as pending only under the ID of its job.     *)
THEOREM EnginesPendTheirJobs ==
  (\A s \in Setup : FromCatalogue(s) /\ (Wordy(s) \/ ~WritesText(s)))
    => (Spec => []PendingNamesItsJob)
<1>. SUFFICES ASSUME \A s \in Setup : FromCatalogue(s) /\ (Wordy(s) \/ ~WritesText(s))
     PROVE  Spec => []PendingNamesItsJob
  OBVIOUS
<1>1. \A s \in Setup : Wordy(s) \/ Names(s)
  BY CatalogueNames DEF FromCatalogue
<1>. QED BY <1>1, PendingHasItsJob

-----------------------------------------------------------------------------
(* A service that speaks its adapter's words: every last status of a job   *)
(* ends the poll, and the status of a job that runs does not.              *)
SpeaksItsWords(s) ==
  Submit(s).do = "job" =>
    (\A r \in Ends(s) : Polled(s, r).do # "wait") /\ Polled(s, Busy(s)).do = "wait"

LEMMA CatalogueAgrees ==
  ASSUME NEW s, FromCatalogue(s), SpeaksItsWords(s), ~PollsApart(s),
         ~(s.a = "alibabacloud" /\ s.c = "filetrans")
  PROVE  Agrees(s)
<1>. SUFFICES ASSUME Submit(s).do = "job" \/ Submit(s).do = "ask" PROVE Agrees(s)
  BY DEF Agrees
<1>1. Submit(s).do = "ask" => \A r \in Replies(s) : ~IsID(Answered(s, r))
  BY WhoCreates, CatalogueAnswers DEF FromCatalogue
<1>2. CASE Submit(s).do = "job"
  <2>1. s.a \in JobAdapters
    BY <1>2, WhoCreates DEF FromCatalogue
  <2>2. Resumes(s) = NoResume \/ (Resumes(s).do = "poll" /\ Resumes(s).home = Submit(s).home)
    BY <1>2, <2>1, CatalogueResumes DEF FromCatalogue, PollsIt
  <2>3. \A r \in Replies(s) :
          IsID(Created(s, r)) \/ Created(s, r).do = "fetch" => "id" \in r.has
    BY <1>2, <2>1, CatalogueCreates DEF FromCatalogue
  <2>4. ASSUME NEW r PROVE RepolledOf(s, r) = PolledOf(s, r)
    <3>1. CASE s.a = "alibabacloud"
      <4>1. s.c \in AliVideos \cup {"image", "3d"}
        BY <1>2, <3>1, AliResumed DEF FromCatalogue, SubmitOf
      <4>. QED BY <3>1, <4>1, AliPolled DEF RepolledOf, PolledOf
    <3>2. CASE s.a # "alibabacloud"
      BY <3>2 DEF RepolledOf
    <3>. QED BY <3>1, <3>2
  <2>5. \A r \in Ends(s) \cup {Busy(s)} : Repolled(s, r) = Polled(s, r)
    BY <1>2, <2>4 DEF FromCatalogue
  <2>. QED BY <1>2, <2>2, <2>3, <2>5 DEF Agrees, SpeaksItsWords
<1>. QED BY <1>1, <1>2 DEF Agrees

(* Every engine that polls its jobs in one place resumes them as it waits  *)
(* for them, if its service speaks its words.                              *)
THEOREM EnginesResumeAlike ==
  (\A s \in Setup :
     /\ FromCatalogue(s) /\ SpeaksItsWords(s)
     /\ PollsApart(s) \/ (s.a = "alibabacloud" /\ s.c = "filetrans") => Divergent(s))
  => (Spec => []ResumeMatchesWait)
<1>. SUFFICES ASSUME \A s \in Setup :
                       /\ FromCatalogue(s) /\ SpeaksItsWords(s)
                       /\ PollsApart(s) \/ (s.a = "alibabacloud" /\ s.c = "filetrans")
                            => Divergent(s)
     PROVE  Spec => []ResumeMatchesWait
  OBVIOUS
<1>1. \A s \in Setup : Divergent(s) \/ Agrees(s)
  BY CatalogueAgrees
<1>. QED BY <1>1, ResumeAgrees

(* No engine forgets a job it has created, if its service answers plainly  *)
(* and says that a prediction has succeeded only when it has ended; but    *)
(* suno drops the ID of a clip that runs and has its audio already.        *)
THEOREM EnginesMindTheirJobs ==
  (\A s \in Setup :
     /\ FromCatalogue(s) /\ SpeaksItsWords(s) /\ (TakesEarly(s) => Hasty(s))
     /\ \A r \in Replies(s) \ Ends(s) :
          "id" \in r.has => Plain(s, r) /\ ~SucceedsAtOnce(s, r))
  => (Spec => []NoJobLeftRunning)
<1>. SUFFICES ASSUME \A s \in Setup :
                       /\ FromCatalogue(s) /\ SpeaksItsWords(s) /\ (TakesEarly(s) => Hasty(s))
                       /\ \A r \in Replies(s) \ Ends(s) :
                            "id" \in r.has => Plain(s, r) /\ ~SucceedsAtOnce(s, r)
     PROVE  Spec => []NoJobLeftRunning
  OBVIOUS
<1>1. ASSUME NEW s \in Setup PROVE Minds(s)
  <2>. SUFFICES ASSUME Submit(s).do = "job" PROVE Minds(s)
    BY DEF Minds
  <2>1. s.a \in JobAdapters
    BY WhoCreates DEF FromCatalogue
  <2>2. \A r \in Replies(s) \ Ends(s) :
          "id" \in r.has => \/ Created(s, r).do = "wait" \/ IsID(Created(s, r))
                            \/ Hasty(s) /\ Created(s, r).do = "give"
    BY <2>1, CatalogueCreates DEF FromCatalogue
  <2>. QED BY <2>2 DEF Minds, SpeaksItsWords
<1>. QED BY <1>1, NothingLeftRunning

-----------------------------------------------------------------------------
(* The engines that may give an empty string, or an ID, for a result.      *)
LeavesEmpty(s) ==
  \/ s.a \in Careless
  \/ s.a = "newapi" /\ NewAPIRoute(s.c) \in {"transcriptions", "translations"}
  \/ s.a = "alibabacloud" /\ ~s.waits

(* A service says that a job has succeeded when it has: in the last        *)
(* statuses its adapter takes a result from.                               *)
ReportsSuccess(s) ==
  Submit(s).do = "job" =>
    \A r \in Ends(s) :
      Polled(s, r).do \in {"give", "fetch"} \/ Repolled(s, r).do \in {"give", "fetch"}
        => r \in Good(s)

LEMMA CatalogueRepolls ==
  ASSUME NEW s, s.a \in JobAdapters \ (Careless \cup {"comfyui"}), NEW r
  PROVE  LET v == RepolledOf(s, r)
         IN /\ v.do = "wait" <=> PolledOf(s, r).do = "wait"
            /\ v.do = "fetch" => Fetches(s)
            /\ IsValue(v)
<1>. DEFINE v == RepolledOf(s, r)
<1>1. "" \notin Fields /\ "id" \notin Fields
  BY DEF Fields
<1>2. CASE s.a # "alibabacloud"
  <2>1. v = PolledOf(s, r)
    BY <1>2 DEF RepolledOf
  <2>2. (v.do = "fetch" => Fetches(s)) /\ (~Says(v) => IsValue(v))
    BY <2>1, CataloguePolls
  <2>3. ~Says(v)
    BY <1>2, <2>1, CataloguePolls DEF Careless
  <2>. QED BY <2>1, <2>2, <2>3
<1>3. CASE s.a = "alibabacloud"
  <2>1. v = AliResumePoll(s.c, r) /\ PolledOf(s, r) = AliPoll(s.c, r)
    BY <1>3 DEF RepolledOf, PolledOf
  <2>2. v = Wait \/ Takes(v, "url")
    BY <2>1, AliPolled
  <2>3. v.do # "fetch" /\ IsValue(v)
    BY <1>1, <2>2, Decisions DEF Takes, IsValue
  <2>4. v.do = "wait" <=> PolledOf(s, r).do = "wait"
    <3>. DEFINE words == {"SUCCEEDED", "FAILED", "CANCELED", "UNKNOWN"}
    <3>1. ASSUME NEW fields, NEW kind, Takes(FirstOf(fields, r, kind), kind)
          PROVE  AliFetch(fields, r, kind).do = "wait" <=> r.word \notin words
      BY <3>1, Decisions DEF AliFetch, Takes
    <3>2. /\ Takes(FirstOf(AliHandlerFields(s.c), r, AliKind(s.c)), AliKind(s.c))
          /\ Takes(FirstOf(AliResumeFields(s.c), r, "url"), "url")
      BY AliFields
    <3>3. v.do = "wait" <=> r.word \notin words
      BY <2>1, <3>1, <3>2 DEF AliResumePoll
    <3>4. PolledOf(s, r).do = "wait" <=> r.word \notin words
      <4>1. PolledOf(s, r).do = "wait" <=>
              AliFetch(AliHandlerFields(s.c), r, AliKind(s.c)).do = "wait"
        BY <2>1, Decisions DEF AliPoll
      <4>. QED BY <3>1, <3>2, <4>1
    <3>. QED BY <3>3, <3>4
  <2>. QED BY <2>3, <2>4
<1>. HIDE DEF v
<1>. QED BY <1>2, <1>3

LEMMA CatalogueYields ==
  ASSUME NEW s, FromCatalogue(s), SpeaksItsWords(s), ReportsSuccess(s), ~LeavesEmpty(s),
         TakesEarly(s) => Hasty(s)
  PROVE  Yields(s)
<1>. SUFFICES ASSUME Submit(s).do = "job" \/ Submit(s).do = "ask" PROVE Yields(s)
  BY DEF Yields
<1>1. CASE Submit(s).do = "ask"
  <2>1. s.a \in AskAdapters
    BY <1>1, WhoCreates DEF FromCatalogue
  <2>2. \A r \in Replies(s) : LET v == Answered(s, r)
                              IN IsValue(v) \/ (Says(v) /\ ~IsID(v))
    BY <1>1, <2>1, CatalogueAnswers DEF FromCatalogue, LeavesEmpty
  <2>. QED BY <1>1, <2>2 DEF Yields
<1>2. CASE Submit(s).do = "job"
  <2>1. s.a \in JobAdapters \ Careless
    BY <1>2, WhoCreates DEF FromCatalogue, LeavesEmpty
  <2>2. Fetches(s) => \A f \in Contents(s) : IsValue(Fetched(s, f))
    BY <1>2, CatalogueFetches DEF FromCatalogue, Proper
  <2>3. ASSUME NEW r \in Replies(s)
        PROVE  \/ Says(Created(s, r))
               \/ IsSound(s, Created(s, r), \/ "id" \notin r.has \/ r \in Ends(s) \cap Good(s)
                                            \/ Hasty(s))
    <3>. DEFINE v == Created(s, r)
    <3>0. v = CreatedOf(s, r)
      BY <1>2 DEF FromCatalogue
    <3>1. v.do \in {"fail", "wait", "give"}
      BY <2>1, <3>0, CatalogueCreates
    <3>2. v.do = "give" => Says(v) \/ (TakesEarly(s) /\ IsValue(v))
      <4>1. s.a # "replicate" /\ ~(s.a = "alibabacloud" /\ ~s.waits)
        BY DEF LeavesEmpty, Careless
      <4>. QED BY <2>1, <3>0, <4>1, CatalogueCreates, Zenon
    <3>3. v.do # "give" => IsValue(v)
      BY DEF IsValue
    <3>. HIDE DEF v
    <3>. QED BY <3>1, <3>2, <3>3 DEF IsSound, v
  <2>4. ASSUME NEW r \in Ends(s)
        PROVE  Says(Polled(s, r)) \/ IsSound(s, Polled(s, r), r \in Good(s))
    BY <1>2, <2>1, <2>2, CataloguePolls DEF FromCatalogue, IsSound, ReportsSuccess
  <2>5. ASSUME NEW r \in Ends(s)
        PROVE  Resumes(s) = NoResume \/ IsSound(s, Repolled(s, r), r \in Good(s))
    <3>1. CASE s.a = "comfyui"
      BY <3>1 DEF FromCatalogue, ResumesOf
    <3>2. CASE s.a # "comfyui"
      BY <1>2, <2>1, <2>2, <3>2, CatalogueRepolls DEF FromCatalogue, IsSound, ReportsSuccess
    <3>. QED BY <3>1, <3>2
  <2>6. Polled(s, Busy(s)).do = "wait" /\ Repolled(s, Busy(s)).do = "wait"
    <3>1. Polled(s, Busy(s)).do = "wait"
      BY <1>2 DEF SpeaksItsWords
    <3>2. CASE s.a = "comfyui"
      BY <1>2, <3>1, <3>2 DEF FromCatalogue, RepolledOf
    <3>3. CASE s.a # "comfyui"
      BY <1>2, <2>1, <3>1, <3>3, CatalogueRepolls DEF FromCatalogue
    <3>. QED BY <3>1, <3>2, <3>3
  <2>. QED BY <1>2, <2>3, <2>4, <2>5, <2>6 DEF Yields
<1>. QED BY <1>1, <1>2

(* Every engine that looks at what it is given completes a task only with  *)
(* a value, of a job of which the service says that it has succeeded; suno *)
(* with a value, of a job that may still run.                              *)
THEOREM EnginesCompleteWithValues ==
  (\A s \in Setup :
     /\ FromCatalogue(s) /\ SpeaksItsWords(s) /\ ReportsSuccess(s)
     /\ (LeavesEmpty(s) => Loose(s)) /\ (TakesEarly(s) => Hasty(s)))
  => (Spec => []CompletedHoldsValue)
<1>. SUFFICES ASSUME \A s \in Setup :
                       /\ FromCatalogue(s) /\ SpeaksItsWords(s) /\ ReportsSuccess(s)
                       /\ (LeavesEmpty(s) => Loose(s)) /\ (TakesEarly(s) => Hasty(s))
     PROVE  Spec => []CompletedHoldsValue
  OBVIOUS
<1>1. \A s \in Setup : Loose(s) \/ Yields(s)
  BY CatalogueYields
<1>. QED BY <1>1, CompletedIsAValue
=============================================================================
