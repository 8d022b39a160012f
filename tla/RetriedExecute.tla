--------------------------- MODULE RetriedExecute ---------------------------
(***************************************************************************)
(* One Execute of an asynchronous engine under the WithRetry middleware    *)
(* (middleware.go), down to its HTTP requests: the engine submits a job    *)
(* with POST (engine/flux as the example), polls it with GET (engine/poll) *)
(* through a client with or without RetryTransport (engine/httpx), and its *)
(* errors are classified by engine/aigoerr.  Requests may fail at any time *)
(* and the caller's context may end at any time.                           *)
(***************************************************************************)
EXTENDS Integers, FiniteSets

CONSTANTS Job,              \* jobs of the upstream service
          NoJob,
          MaxRetries,       \* WithRetry(MaxRetries)
          Limits,           \* what poll.Config.MaxAttempts may be, 0 for no limit
          TransportRetries  \* RetryTransport.MaxRetries, 0 for a plain client

ASSUME RetryAssumption ==
  /\ NoJob \notin Job
  /\ MaxRetries \in Nat
  /\ Limits \subseteq Nat
  /\ TransportRetries \in Nat

\* Errors, by what errors.As and errors.Is find in them:
\*   "busy"     *aigoerr.Error of a 429 or 5xx     "refused"  ... of another 4xx
\*   "timeout"  a timeout, or a body cut short     "broken"   any other error
\*   "cancelled", "expired"   the error of the context
Errors == {"busy", "refused", "timeout", "broken", "cancelled", "expired"}

VARIABLES jobs,      \* jobs[j]: "none", "running", "succeeded" or "failed"
          ctx,       \* the context: "live", "cancelled" or "expired"
          pc,        \* where the call is
          attempt,   \* the middleware's counter
          job,       \* the job of this attempt
          maxAttempts, \* poll.Config.MaxAttempts, which never changes
          polls,     \* the attempts of PollV2, counted if they are limited
          tries,     \* the retries of RetryTransport for the current GET
          err,       \* the error of the last attempt, or "none"
          answer     \* history: the status class of the last response

vars == <<maxAttempts, jobs, ctx, pc, attempt, job, polls, tries, err, answer>>

PC == {"post", "get", "wait", "returned", "backoff", "ok", "error"}
Ended == pc \in {"ok", "error"}

Init == /\ maxAttempts \in Limits
        /\ jobs = [j \in Job |-> "none"]
        /\ ctx = "live"
        /\ pc = "post"
        /\ attempt = 0
        /\ job = NoJob
        /\ polls = 0
        /\ tries = 0
        /\ err = "none"
        /\ answer = "none"

\* aigoerr.IsRetryable: Retryable of a structured error, else a native timeout.
IsRetryable(e) == e \in {"busy", "timeout", "expired"}

-----------------------------------------------------------------------------
\* The service finishes a job; the caller or a deadline ends the context.
JobEnds(j) ==
  /\ jobs[j] = "running"
  /\ \E s \in {"succeeded", "failed"} : jobs' = [jobs EXCEPT ![j] = s]
  /\ UNCHANGED <<maxAttempts, ctx, pc, attempt, job, polls, tries, err, answer>>

ContextEnds ==
  /\ ctx = "live"
  /\ ctx' \in {"cancelled", "expired"}
  /\ UNCHANGED <<maxAttempts, jobs, pc, attempt, job, polls, tries, err, answer>>

\* The engine's Execute returns e to the middleware.
Returns(e) ==
  /\ pc' = "returned"
  /\ err' = e
  /\ UNCHANGED <<maxAttempts, ctx, attempt, polls, tries>>

\* A request under way fails because the context has ended.
Aborted ==
  /\ pc \in {"post", "get"}
  /\ ctx # "live"
  /\ Returns(ctx)
  /\ UNCHANGED <<jobs, job, answer>>

-----------------------------------------------------------------------------
\* The POST starts a job, and the engine learns its ID ...
PostAccepted(j) ==
  /\ pc = "post" /\ ctx = "live"
  /\ jobs[j] = "none"
  /\ jobs' = [jobs EXCEPT ![j] = "running"]
  /\ job' = j
  /\ pc' = "get"
  /\ polls' = 1
  /\ tries' = 0
  /\ answer' = "ok"
  /\ UNCHANGED <<maxAttempts, ctx, attempt, err>>

\* ... or the response is lost on the way.
PostLost(j) ==
  /\ pc = "post" /\ ctx = "live"
  /\ jobs[j] = "none"
  /\ jobs' = [jobs EXCEPT ![j] = "running"]
  /\ \E e \in {"timeout", "broken"} : Returns(e)
  /\ answer' = "none"
  /\ UNCHANGED job

\* The service answers with an error status, or cannot be reached.
PostFails ==
  /\ pc = "post" /\ ctx = "live"
  /\ \E e \in {"busy", "refused", "timeout", "broken"} :
       /\ Returns(e)
       /\ answer' = IF e \in {"busy", "refused"} THEN e ELSE "none"
  /\ UNCHANGED <<jobs, job>>

-----------------------------------------------------------------------------
\* Mutant: a failed job counts as done.
GetSucceededAnyEnd ==
  /\ pc = "get" /\ ctx = "live"
  /\ jobs[job] \in {"succeeded", "failed"}
  /\ pc' = "ok"
  /\ answer' = "ok"
  /\ UNCHANGED <<maxAttempts, jobs, ctx, attempt, job, polls, tries, err>>

\* The status request answers: the job succeeded ...
GetSucceeded ==
  /\ pc = "get" /\ ctx = "live"
  /\ jobs[job] = "succeeded"
  /\ pc' = "ok"
  /\ answer' = "ok"
  /\ UNCHANGED <<maxAttempts, jobs, ctx, attempt, job, polls, tries, err>>

\* ... it failed, an error without a class ...
GetFailed ==
  /\ pc = "get" /\ ctx = "live"
  /\ jobs[job] = "failed"
  /\ Returns("broken")
  /\ answer' = "ok"
  /\ UNCHANGED <<jobs, job>>

LastPoll == maxAttempts > 0 /\ polls >= maxAttempts

\* ... or it runs; then PollV2 sleeps, or has made all its attempts.
GetRunning ==
  /\ pc = "get" /\ ctx = "live"
  /\ jobs[job] = "running"
  /\ IF LastPoll
     THEN Returns("broken")
     ELSE pc' = "wait" /\ UNCHANGED <<maxAttempts, ctx, attempt, polls, tries, err>>
  /\ answer' = "ok"
  /\ UNCHANGED <<jobs, job>>

\* Mutant: the retries of a request are not counted.
GetRetriedForEver ==
  /\ pc = "get" /\ ctx = "live"
  /\ TransportRetries > 0
  /\ \E e \in {"busy", "none"} : answer' = e
  /\ UNCHANGED <<maxAttempts, jobs, ctx, pc, attempt, job, polls, tries, err>>

\* RetryTransport: a 429, a 5xx or a network error is retried after a delay.
GetRetried ==
  /\ pc = "get" /\ ctx = "live"
  /\ tries < TransportRetries
  /\ tries' = tries + 1
  /\ \E e \in {"busy", "none"} : answer' = e
  /\ UNCHANGED <<maxAttempts, jobs, ctx, pc, attempt, job, polls, err>>

\* What the engine makes of a failed GET.  RetryTransport has closed the body of
\* the last response: unless it is empty, reading it fails before the status is
\* looked at.
ReadErrors(e) == IF e = "busy" /\ TransportRetries > 0 THEN {"busy", "broken"} ELSE {e}

\* The GET fails: a 429 or 5xx after the last retry, another refusal at once.  So
\* does a body that is cut short or not understood, which RetryTransport does not
\* read, and the client's own timeout, which ends the transport's delay too.
GetFails ==
  /\ pc = "get" /\ ctx = "live"
  /\ \E e \in {"busy", "refused", "timeout", "broken"} :
       /\ e = "busy" => tries = TransportRetries
       /\ \E r \in ReadErrors(e) : Returns(r)
       /\ answer' = IF e \in {"busy", "refused"} THEN e ELSE "none"
  /\ UNCHANGED <<jobs, job>>

\* PollV2's timer fires.
NextPoll ==
  /\ pc = "wait"
  /\ pc' = "get"
  /\ polls' = IF maxAttempts > 0 THEN polls + 1 ELSE polls
  /\ tries' = 0
  /\ UNCHANGED <<maxAttempts, jobs, ctx, attempt, job, err, answer>>

\* PollV2's select sees the end of the context.
PollAborted ==
  /\ pc = "wait"
  /\ ctx # "live"
  /\ Returns(ctx)
  /\ UNCHANGED <<jobs, job, answer>>

-----------------------------------------------------------------------------
\* The middleware returns e to the caller.
Ends(e) ==
  /\ pc' = "error"
  /\ err' = e
  /\ UNCHANGED <<maxAttempts, jobs, ctx, attempt, job, polls, tries, answer>>

\* Mutant: only a 429 or 5xx is retried.
GiveUpOnTimeout ==
  /\ pc = "returned"
  /\ err # "busy"
  /\ Ends(err)

\* The error is not retryable.
GiveUp ==
  /\ pc = "returned"
  /\ ~IsRetryable(err)
  /\ Ends(err)

\* It is, but the caller's context has ended.
Stop ==
  /\ pc = "returned"
  /\ IsRetryable(err)
  /\ ctx # "live"
  /\ Ends(ctx)

\* "all %d retries exhausted", around the last error.
Exhausted ==
  /\ pc = "returned"
  /\ IsRetryable(err) /\ ctx = "live"
  /\ attempt >= MaxRetries
  /\ Ends(err)

\* Mutant: one retry too many.
BackOffOnceMore ==
  /\ pc = "returned"
  /\ IsRetryable(err) /\ ctx = "live"
  /\ attempt <= MaxRetries
  /\ pc' = "backoff"
  /\ UNCHANGED <<maxAttempts, jobs, ctx, attempt, job, polls, tries, err, answer>>

BackOff ==
  /\ pc = "returned"
  /\ IsRetryable(err) /\ ctx = "live"
  /\ attempt < MaxRetries
  /\ pc' = "backoff"
  /\ UNCHANGED <<maxAttempts, jobs, ctx, attempt, job, polls, tries, err, answer>>

\* The context ends during the back-off ...
StopBackingOff ==
  /\ pc = "backoff"
  /\ ctx # "live"
  /\ Ends(ctx)

\* ... or the timer fires and the engine executes the graph again, from the start.
Retry ==
  /\ pc = "backoff"
  /\ pc' = "post"
  /\ attempt' = attempt + 1
  /\ job' = NoJob
  /\ UNCHANGED <<maxAttempts, jobs, ctx, polls, tries, err, answer>>

Step == \/ \E j \in Job : PostAccepted(j) \/ PostLost(j)
        \/ PostFails \/ Aborted
        \/ GetSucceeded \/ GetFailed \/ GetRunning \/ GetRetried \/ GetFails
        \/ NextPoll \/ PollAborted
        \/ GiveUp \/ Stop \/ Exhausted \/ BackOff \/ StopBackingOff \/ Retry

Next == Step \/ ContextEnds \/ \E j \in Job : JobEnds(j)

Spec == Init /\ [][Next]_vars

\* Requests are answered or fail, timers fire.
FairSpec == Spec /\ WF_vars(Step)
-----------------------------------------------------------------------------
TypeOK ==
  /\ maxAttempts \in Limits
  /\ jobs \in [Job -> {"none", "running", "succeeded", "failed"}]
  /\ ctx \in {"live", "cancelled", "expired"}
  /\ pc \in PC
  /\ attempt \in 0..MaxRetries
  /\ job \in Job \cup {NoJob}
  /\ polls \in Nat
  /\ tries \in 0..TransportRetries
  /\ err \in Errors \cup {"none"}
  /\ answer \in {"none", "ok", "busy", "refused"}

Started == {j \in Job : jobs[j] # "none"}

\* A call that succeeds returns the result of a job it started that succeeded.
ResultIsOwn == pc = "ok" => job \in Job /\ jobs[job] = "succeeded"

\* Timeouts, lost responses and failed polls included, one call starts at most
\* one job per attempt.
JobsBounded == Cardinality(Started) <= MaxRetries + 1

\* The caller sees a retryable error only when every retry has been used up, or
\* the context has ended.
GivesUpLast ==
  pc = "error" /\ IsRetryable(err) => attempt = MaxRetries \/ ctx # "live"

\* An error response of the service is classified: after a 429 or a 5xx the
\* engine's error is retryable.
ResponseIsClassified ==
  pc = "returned" /\ answer \in {"busy", "refused"} /\ ctx = "live"
    => (IsRetryable(err) <=> answer = "busy")

\* Whatever the service and the caller do, a call can go on for ever only while
\* a job runs, the context is live and polls have no limit.
EndsUnlessJobRuns ==
  maxAttempts > 0 \/ []<>(ctx # "live" \/ \A j \in Job : jobs[j] # "running") => <>Ended
=============================================================================
