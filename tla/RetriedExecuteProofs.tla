------------------------ MODULE RetriedExecuteProofs ------------------------
(***************************************************************************)
(* What one Execute under WithRetry guarantees for every number of retries *)
(* of the middleware and of the transport, and every limit on polls.  The  *)
(* bound on jobs rests on the count of attempts: before an attempt's POST  *)
(* there is at most one job for each attempt made.                         *)
(***************************************************************************)
EXTENDS RetriedExecute, FiniteSetTheorems, TLAPS

\* The job that is polled was started; a result is that of a job that succeeded.
JobInv ==
  /\ pc \in {"get", "wait"} => job \in Job /\ jobs[job] # "none"
  /\ ResultIsOwn

Made == IF pc = "post" THEN attempt ELSE attempt + 1

CountInv == IsFiniteSet(Started) /\ Cardinality(Started) <= Made

\* A back-off leads to one more attempt that is allowed.
BackOffInv == pc = "backoff" => attempt < MaxRetries

IInv == TypeOK /\ BackOffInv /\ JobInv /\ GivesUpLast /\ CountInv

LEMMA ReadErrorsType == \A e \in Errors : ReadErrors(e) \subseteq Errors
BY DEF ReadErrors, Errors

LEMMA IInvInit == RetryAssumption /\ Init => IInv
<1>. SUFFICES ASSUME RetryAssumption, Init PROVE IInv
  OBVIOUS
<1>1. Started = {}
  BY DEF Init, Started
<1>2. CountInv
  BY <1>1, FS_EmptySet DEF CountInv, Made, Init
<1>. QED
  BY <1>2 DEF IInv, Init, RetryAssumption, TypeOK, BackOffInv, JobInv, ResultIsOwn, GivesUpLast,
              PC, Errors

LEMMA TypeNext == RetryAssumption /\ TypeOK /\ BackOffInv /\ [Next]_vars => TypeOK'
<1>. SUFFICES ASSUME RetryAssumption, TypeOK, BackOffInv, [Next]_vars PROVE TypeOK'
  OBVIOUS
<1>. USE DEF RetryAssumption, TypeOK, PC
<1>1. ASSUME NEW j \in Job, PostAccepted(j) PROVE TypeOK'
  BY <1>1 DEF PostAccepted
<1>2. ASSUME NEW j \in Job, PostLost(j) PROVE TypeOK'
  BY <1>2 DEF PostLost, Returns, Errors
<1>3. CASE PostFails \/ Aborted
  BY <1>3 DEF PostFails, Aborted, Returns, Errors
<1>4. CASE GetSucceeded \/ GetFailed \/ GetRunning \/ GetRetried
  BY <1>4 DEF GetSucceeded, GetFailed, GetRunning, GetRetried, Returns, Errors
<1>5. CASE GetFails
  BY <1>5, ReadErrorsType DEF GetFails, Returns, Errors
<1>6. CASE NextPoll \/ PollAborted
  BY <1>6 DEF NextPoll, PollAborted, Returns, Errors
<1>7. CASE GiveUp \/ Stop \/ Exhausted \/ StopBackingOff
  BY <1>7 DEF GiveUp, Stop, Exhausted, StopBackingOff, Ends, Errors
<1>8. CASE BackOff
  BY <1>8 DEF BackOff
<1>9. CASE Retry
  BY <1>9 DEF Retry, BackOffInv
<1>10. CASE ContextEnds
  BY <1>10 DEF ContextEnds
<1>11. ASSUME NEW j \in Job, JobEnds(j) PROVE TypeOK'
  BY <1>11 DEF JobEnds
<1>12. CASE UNCHANGED vars
  BY <1>12 DEF vars
<1>. QED
  BY <1>1, <1>2, <1>3, <1>4, <1>5, <1>6, <1>7, <1>8, <1>9, <1>10, <1>11, <1>12
  DEF Next, Step

LEMMA BackOffNext == BackOffInv /\ [Next]_vars => BackOffInv'
<1>. SUFFICES ASSUME BackOffInv, [Next]_vars PROVE BackOffInv'
  OBVIOUS
<1>. USE DEF BackOffInv
<1>1. CASE BackOff
  BY <1>1 DEF BackOff
<1>2. CASE ContextEnds \/ \E j \in Job : JobEnds(j)
  BY <1>2 DEF ContextEnds, JobEnds
<1>3. CASE UNCHANGED vars
  BY <1>3 DEF vars
<1>4. CASE pc' # "backoff"
  BY <1>4
<1>. QED
  BY <1>1, <1>2, <1>3, <1>4
  DEF Next, Step, PostAccepted, PostLost, PostFails, Aborted, GetSucceeded, GetFailed,
      GetRunning, GetRetried, GetFails, NextPoll, PollAborted, GiveUp, Stop, Exhausted,
      StopBackingOff, Retry, Returns, Ends

LEMMA JobNext == TypeOK /\ JobInv /\ [Next]_vars => JobInv'
<1>. SUFFICES ASSUME TypeOK, JobInv, [Next]_vars PROVE JobInv'
  OBVIOUS
<1>. USE DEF TypeOK, JobInv, ResultIsOwn
<1>1. ASSUME NEW j \in Job, PostAccepted(j) PROVE JobInv'
  BY <1>1 DEF PostAccepted
<1>2. ASSUME NEW j \in Job, PostLost(j) PROVE JobInv'
  BY <1>2 DEF PostLost, Returns
<1>3. CASE PostFails \/ Aborted \/ GetFails \/ PollAborted
  BY <1>3 DEF PostFails, Aborted, GetFails, PollAborted, Returns
<1>4. CASE GetSucceeded \/ GetFailed \/ GetRunning \/ GetRetried \/ NextPoll
  BY <1>4 DEF GetSucceeded, GetFailed, GetRunning, GetRetried, NextPoll, Returns
<1>5. CASE GiveUp \/ Stop \/ Exhausted \/ StopBackingOff \/ BackOff \/ Retry
  BY <1>5 DEF GiveUp, Stop, Exhausted, StopBackingOff, BackOff, Retry, Ends
<1>6. CASE ContextEnds \/ UNCHANGED vars
  BY <1>6 DEF ContextEnds, vars
<1>7. ASSUME NEW j \in Job, JobEnds(j) PROVE JobInv'
  BY <1>7 DEF JobEnds
<1>. QED BY <1>1, <1>2, <1>3, <1>4, <1>5, <1>6, <1>7 DEF Next, Step

LEMMA GivesUpNext ==
  RetryAssumption /\ TypeOK /\ GivesUpLast /\ [Next]_vars => GivesUpLast'
<1>. SUFFICES ASSUME RetryAssumption, TypeOK, GivesUpLast, [Next]_vars PROVE GivesUpLast'
  OBVIOUS
<1>. USE DEF GivesUpLast, IsRetryable
<1>1. CASE Exhausted
  BY <1>1 DEF Exhausted, Ends, TypeOK, RetryAssumption
<1>2. CASE GiveUp \/ Stop \/ StopBackingOff
  BY <1>2 DEF GiveUp, Stop, StopBackingOff, Ends
<1>3. CASE pc' # "error"
  BY <1>3
<1>4. CASE ContextEnds \/ \E j \in Job : JobEnds(j)
  BY <1>4 DEF ContextEnds, JobEnds
<1>5. CASE UNCHANGED vars
  BY <1>5 DEF vars
<1>. QED
  BY <1>1, <1>2, <1>3, <1>4, <1>5
  DEF Next, Step, PostAccepted, PostLost, PostFails, Aborted, GetSucceeded, GetFailed,
      GetRunning, GetRetried, GetFails, NextPoll, PollAborted, BackOff, Retry, Returns

LEMMA CountNext == RetryAssumption /\ TypeOK /\ CountInv /\ [Next]_vars => CountInv'
<1>. SUFFICES ASSUME RetryAssumption, TypeOK, CountInv, [Next]_vars PROVE CountInv'
  OBVIOUS
<1>0. attempt \in Nat /\ Cardinality(Started) \in Nat
  BY FS_CardinalityType DEF TypeOK, CountInv, RetryAssumption
<1>1. ASSUME NEW j \in Job, PostAccepted(j) \/ PostLost(j) PROVE CountInv'
  <2>1. Started' = Started \cup {j}
    BY <1>1 DEF PostAccepted, PostLost, Started, TypeOK
  <2>2. Made' = Made + 1
    BY <1>0, <1>1 DEF PostAccepted, PostLost, Returns, Made
  <2>3. /\ IsFiniteSet(Started \cup {j})
        /\ Cardinality(Started \cup {j}) \in {Cardinality(Started), Cardinality(Started) + 1}
    BY FS_AddElement DEF CountInv
  <2>4. Made \in Nat
    BY <1>0 DEF Made
  <2>. QED BY <1>0, <2>1, <2>2, <2>3, <2>4 DEF CountInv
<1>2. ASSUME Started' = Started, Made' >= Made, Made' \in Nat PROVE CountInv'
  <2>1. Made \in Nat
    BY <1>0 DEF Made
  <2>. QED BY <1>0, <1>2, <2>1 DEF CountInv
<1>3. CASE Retry
  BY <1>0, <1>2, <1>3 DEF Retry, Made, Started
<1>4. ASSUME NEW j \in Job, JobEnds(j) PROVE CountInv'
  BY <1>0, <1>2, <1>4 DEF JobEnds, Made, Started, TypeOK
<1>5. ASSUME UNCHANGED <<jobs, attempt>>, pc = "post" => pc' = "returned",
             pc # "post" => pc' # "post"
      PROVE CountInv'
  BY <1>0, <1>2, <1>5 DEF Made, Started
<1>6. CASE UNCHANGED <<jobs, attempt, pc>>
  BY <1>0, <1>2, <1>6 DEF Made, Started
<1>. QED
  BY <1>1, <1>3, <1>4, <1>5, <1>6
  DEF Next, Step, vars, PostFails, Aborted, GetSucceeded, GetFailed, GetRunning,
      GetRetried, GetFails, NextPoll, PollAborted, GiveUp, Stop, Exhausted, BackOff,
      StopBackingOff, Returns, Ends, ContextEnds

LEMMA Invariant == Spec => []IInv
<1>1. RetryAssumption /\ IInv /\ [Next]_vars => IInv'
  BY TypeNext, BackOffNext, JobNext, GivesUpNext, CountNext DEF IInv
<1>. QED BY <1>1, IInvInit, RetryAssumption, PTL DEF Spec

\* The variables of a retried call keep their types; the middleware's counter
\* never exceeds maxRetries, the transport's never its own limit.
THEOREM TypeCorrect == Spec => []TypeOK
<1>1. IInv => TypeOK
  BY DEF IInv
<1>. QED BY <1>1, Invariant, PTL

\* A call that succeeds returns the result of a job it started that succeeded.
THEOREM OwnResult == Spec => []ResultIsOwn
<1>1. IInv => ResultIsOwn
  BY DEF IInv, JobInv
<1>. QED BY <1>1, Invariant, PTL

\* One call starts at most maxRetries + 1 jobs.
THEOREM Bounded == Spec => []JobsBounded
<1>1. RetryAssumption /\ IInv => JobsBounded
  BY FS_CardinalityType DEF IInv, CountInv, Made, JobsBounded, TypeOK, RetryAssumption
<1>. QED BY <1>1, Invariant, RetryAssumption, PTL

\* A call gives up on a retryable error only after the last retry.
THEOREM LastError == Spec => []GivesUpLast
<1>1. IInv => GivesUpLast
  BY DEF IInv
<1>. QED BY <1>1, Invariant, PTL
=============================================================================
