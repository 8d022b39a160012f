---------------------------- MODULE EngineCalls ----------------------------
(***************************************************************************)
(* The client's engines (client.go) and the calls that use them while      *)
(* other goroutines register, unregister, disable and enable them:         *)
(* ExecuteWithFallback, ExecuteTaskAuto, ExecuteTaskAutoWithFallback,      *)
(* ExecuteAsync and ExecutePipeline (pipeline.go), with PrioritySelector   *)
(* (selector.go).  Engines are external: they succeed or fail.             *)
(***************************************************************************)
EXTENDS Integers, SequencesExt, FiniteSets

CONSTANTS Engine,      \* names of engines, numbered in the order of strings
          Compatible,  \* engines that pass the RuleFilter for the task
          Priority,    \* PrioritySelector.Priority, a sequence
          Call,        \* calls
          Kind,        \* Kind[c]: what c calls
          Given,       \* Given[c]: the engines the caller of c names, a sequence
          Invalid,     \* calls with a graph that is not valid
          MaxCalls     \* bound: calls that are ever begun

Kinds == {"list",      \* ExecuteWithFallback
          "select",    \* ExecuteTaskAuto
          "auto",      \* ExecuteTaskAutoWithFallback
          "async",     \* ExecuteAsync
          "pipeline"}  \* ExecutePipeline

Outcomes == {"none", "failed", "cancelled", "done"}

ASSUME CallsAssumption ==
  /\ Engine \subseteq Nat /\ IsFiniteSet(Engine)
  /\ Compatible \subseteq Engine
  /\ Priority \in Seq(Engine)
  /\ Kind \in [Call -> Kinds]
  /\ Given \in [Call -> Seq(Engine)]
  /\ \A c \in Call : Kind[c] \in {"async", "pipeline"} => Given[c] # << >>
  /\ Invalid \subseteq Call
  /\ MaxCalls \in Nat

VARIABLES engines,   \* names in c.engines
          disabled,  \* names in c.disabled
          pc,        \* where each call is
          ranked,    \* ranked[c]: the engines of the call, in order
          at,        \* at[c]: its position there
          past,      \* past[c]: engines that failed (Skipped), or steps that ran
          started,   \* history: started[c]: engines whose Execute was called
          ctx,       \* ctx[c]: "live" or "ended"
          late,      \* history: engines started after the context ended
          outcome,   \* outcome[c]: how the call ended
          box,       \* box[c]: the channel of ExecuteAsync
          once,      \* history: engines enabled at some time during the call
          always     \* history: engines enabled all the time during the call

registry == <<engines, disabled, once, always>>
vars == <<engines, disabled, pc, ranked, at, past, started, ctx, late, outcome,
          box, once, always>>

Init == /\ engines = {}
        /\ disabled = {}
        /\ pc = [c \in Call |-> "idle"]
        /\ ranked = [c \in Call |-> << >>]
        /\ at = [c \in Call |-> 1]
        /\ past = [c \in Call |-> << >>]
        /\ started = [c \in Call |-> << >>]
        /\ ctx = [c \in Call |-> "live"]
        /\ late = [c \in Call |-> 0]
        /\ outcome = [c \in Call |-> "none"]
        /\ box = [c \in Call |-> "empty"]
        /\ once = [c \in Call |-> {}]
        /\ always = [c \in Call |-> {}]

Enabled == engines \ disabled

-----------------------------------------------------------------------------
\* The registry changes to E, with D disabled.
Changes(E, D) ==
  /\ engines' = E
  /\ disabled' = D
  /\ once' = [c \in Call |-> IF pc[c] = "idle" THEN {} ELSE once[c] \cup (E \ D)]
  /\ always' = [c \in Call |-> IF pc[c] = "idle" THEN {} ELSE always[c] \cap (E \ D)]
  /\ UNCHANGED <<pc, ranked, at, past, started, ctx, late, outcome, box>>

RegisterEngine(e) == e \notin engines /\ Changes(engines \cup {e}, disabled)

\* Mutant: the engine stays disabled.
UnregisterKeepsFlag(e) == e \in engines /\ Changes(engines \ {e}, disabled)

UnregisterEngine(e) == e \in engines /\ Changes(engines \ {e}, disabled \ {e})

DisableEngine(e) == e \in engines /\ Changes(engines, disabled \cup {e})

EnableEngine(e) == e \in engines /\ Changes(engines, disabled \ {e})

-----------------------------------------------------------------------------
\* EngineInfos and EngineNames list a set of engines in the order of their names.
Listings(S) ==
  {q \in [1..Cardinality(S) -> S] : \A i, k \in DOMAIN q : i < k => q[i] < q[k]}

Filtered == Enabled \cap Compatible

\* PrioritySelector: the first of Priority that is there, else the first candidate.
Selected ==
  LET preferred == {i \in DOMAIN Priority : Priority[i] \in Filtered}
  IN IF preferred # {} THEN Priority[Min(preferred)] ELSE Min(Filtered)

\* ExecuteTaskAutoWithFallback: the selected one, then the other candidates.
Ranked == {<<Selected>> \o q : q \in Listings(Enabled \ {Selected})}

\* The engines of a call that begins; none if the selector finds none.
Chosen(c) ==
  IF Kind[c] \notin {"select", "auto"} THEN {Given[c]}
  ELSE IF Filtered = {}                 THEN {<< >>}
  ELSE IF Kind[c] = "select"            THEN {<<Selected>>}
  ELSE Ranked

\* A call begins, with a snapshot of the registry if an engine is to be selected.
Begin(c) ==
  /\ pc[c] = "idle"
  /\ Cardinality({x \in Call : pc[x] # "idle"}) < MaxCalls
  /\ \E chosen \in Chosen(c) :
       /\ ranked' = [ranked EXCEPT ![c] = chosen]
       /\ pc' = [pc EXCEPT ![c] = IF chosen = << >> THEN "done"
                                  ELSE IF Kind[c] \in {"list", "auto"} THEN "next"
                                  ELSE "lookup"]
  /\ once' = [once EXCEPT ![c] = Enabled]
  /\ always' = [always EXCEPT ![c] = Enabled]
  /\ UNCHANGED <<engines, disabled, at, past, started, ctx, late, outcome, box>>

EndContext(c) ==
  /\ pc[c] \notin {"idle", "done"}
  /\ ctx[c] = "live"
  /\ ctx' = [ctx EXCEPT ![c] = "ended"]
  /\ UNCHANGED <<registry, pc, ranked, at, past, started, late, outcome, box>>

\* The call is over; ExecuteAsync still has to deliver.
Ends(c, o) ==
  /\ outcome' = [outcome EXCEPT ![c] = o]
  /\ pc' = [pc EXCEPT ![c] = IF Kind[c] = "async" THEN "send" ELSE "done"]

\* Mutant: the context is not looked at.
CheckContextNever(c) ==
  /\ pc[c] = "next"
  /\ pc' = [pc EXCEPT ![c] = "lookup"]
  /\ UNCHANGED <<registry, ranked, at, past, started, ctx, late, box, outcome>>

\* ExecuteWithFallback, before each engine.
CheckContext(c) ==
  /\ pc[c] = "next"
  /\ IF ctx[c] = "ended" THEN Ends(c, "cancelled")
     ELSE pc' = [pc EXCEPT ![c] = "lookup"] /\ UNCHANGED outcome
  /\ UNCHANGED <<registry, ranked, at, past, started, ctx, late, box>>

Current(c) == ranked[c][at[c]]

\* Mutant: disabled engines run.
RunnableRegistered(e) == e \in engines

Runnable(e) == e \in engines /\ e \notin disabled

\* Execute finds the engine and calls it.
Lookup(c) ==
  /\ pc[c] = "lookup"
  /\ c \notin Invalid
  /\ Runnable(Current(c))
  /\ pc' = [pc EXCEPT ![c] = "run"]
  /\ started' = [started EXCEPT ![c] = Append(@, Current(c))]
  /\ late' = [late EXCEPT ![c] = IF ctx[c] = "ended" THEN @ + 1 ELSE @]
  /\ UNCHANGED <<registry, ranked, at, past, ctx, outcome, box>>

\* Mutant: the engine is not recorded.
PastForgets(c) == past

\* past[c] and the current engine.
Past(c) == [past EXCEPT ![c] = Append(@, Current(c))]

\* Mutant: off by one.
LastOneEarly(c) == at[c] >= Len(ranked[c]) - 1

LastOne(c) == at[c] = Len(ranked[c])

\* Execute returned an error: fallback skips the engine, other calls end.
Failed(c) ==
  /\ IF Kind[c] \notin {"list", "auto"}
     THEN Ends(c, "failed") /\ UNCHANGED <<at, past>>
     ELSE /\ past' = Past(c)
          /\ IF LastOne(c)
             THEN Ends(c, "failed") /\ UNCHANGED at
             ELSE /\ at' = [at EXCEPT ![c] = @ + 1]
                  /\ pc' = [pc EXCEPT ![c] = "next"]
                  /\ UNCHANGED outcome
  /\ UNCHANGED <<registry, ranked, started, ctx, late, box>>

\* Mutant: an engine that is not there ends the fallback.
LookupFailureEnds(c) ==
  /\ pc[c] = "lookup"
  /\ c \in Invalid \/ ~Runnable(Current(c))
  /\ Ends(c, "failed")
  /\ UNCHANGED <<registry, ranked, at, past, started, ctx, late, box>>

\* The engine is not registered or disabled, or the graph is not valid.
LookupFails(c) ==
  /\ pc[c] = "lookup"
  /\ c \in Invalid \/ ~Runnable(Current(c))
  /\ Failed(c)

EngineFails(c) == pc[c] = "run" /\ Failed(c)

\* The engine returns a result: the next step of a pipeline, else the end.
EngineSucceeds(c) ==
  /\ pc[c] = "run"
  /\ past' = IF Kind[c] = "pipeline" THEN Past(c) ELSE past
  /\ IF Kind[c] = "pipeline" /\ ~LastOne(c)
     THEN /\ at' = [at EXCEPT ![c] = @ + 1]
          /\ pc' = [pc EXCEPT ![c] = "lookup"]
          /\ UNCHANGED outcome
     ELSE Ends(c, "done") /\ UNCHANGED at
  /\ UNCHANGED <<registry, ranked, started, ctx, late, box>>

-----------------------------------------------------------------------------
\* Mutant: the channel has no buffer.
SendUnbuffered(c) ==
  /\ pc[c] = "send"
  /\ box[c] = "waited"
  /\ box' = [box EXCEPT ![c] = "taken"]
  /\ pc' = [pc EXCEPT ![c] = "done"]
  /\ UNCHANGED <<registry, ranked, at, past, started, ctx, late, outcome>>

\* The goroutine of ExecuteAsync sends into the buffer and closes the channel.
Send(c) ==
  /\ pc[c] = "send"
  /\ box' = [box EXCEPT ![c] = IF @ = "waited" THEN "taken" ELSE "full"]
  /\ pc' = [pc EXCEPT ![c] = "done"]
  /\ UNCHANGED <<registry, ranked, at, past, started, ctx, late, outcome>>

\* The caller receives from the channel, or begins to wait for it.
Receive(c) ==
  /\ Kind[c] = "async" /\ pc[c] # "idle"
  /\ box[c] \in {"empty", "full"}
  /\ box' = [box EXCEPT ![c] = IF @ = "full" THEN "taken" ELSE "waited"]
  /\ UNCHANGED <<registry, pc, ranked, at, past, started, ctx, late, outcome>>

Step(c) == \/ CheckContext(c) \/ Lookup(c) \/ LookupFails(c)
           \/ EngineSucceeds(c) \/ EngineFails(c) \/ Send(c)

Next == \/ \E e \in Engine : \/ RegisterEngine(e) \/ UnregisterEngine(e)
                             \/ DisableEngine(e) \/ EnableEngine(e)
        \/ \E c \in Call : Begin(c) \/ Step(c) \/ EndContext(c) \/ Receive(c)

Spec == Init /\ [][Next]_vars

\* Goroutines run and engines return; nobody need receive, register or cancel.
FairSpec == Spec /\ \A c \in Call : WF_vars(Step(c))
-----------------------------------------------------------------------------
\* An engine that is registered again is enabled: no flag survives the engine it
\* was set for.
DisabledAreRegistered == disabled \subseteq engines

\* An engine runs only if it was registered and enabled at some time during the
\* call, however old the candidate list is that named it.
StartedWasEnabled == \A c \in Call : Range(started[c]) \subseteq once[c]

\* After its context has ended a call starts at most one more engine, the one it
\* was about to call; a pipeline leaves that to its engines.
OneLateStart == \A c \in Call : Kind[c] # "pipeline" => late[c] <= 1

\* Fallback after a selection fails, its context alive, only when every engine
\* that was enabled all the time was called.
FailsWhenAllFailed ==
  \A c \in Call : Kind[c] = "auto" /\ c \notin Invalid /\ outcome[c] = "failed" =>
    always[c] \subseteq Range(started[c])

\* A fallback that is over, in whatever way, has told its caller of every engine
\* it called: as skipped, or as the one that has the result ("All engines that fail
\* are recorded in FallbackResult.Skipped").  It names as skipped no engine that
\* was enabled all the time without having called it.
SkippedTellsAll ==
  \A c \in Call : Kind[c] \in {"list", "auto"} /\ outcome[c] # "none" =>
    /\ Range(started[c]) \subseteq
         Range(past[c]) \cup (IF outcome[c] = "done" THEN {Current(c)} ELSE {})
    /\ c \notin Invalid => Range(past[c]) \cap always[c] \subseteq Range(started[c])

\* A pipeline that is done has called the engine of each step once, in order, and
\* has a result of each; one that failed returns what the engines before it gave.
PipelineRunsAll ==
  \A c \in Call : Kind[c] = "pipeline" =>
    /\ outcome[c] = "done" => past[c] = ranked[c] /\ started[c] = ranked[c]
    /\ outcome[c] = "failed" => started[c] \in {past[c], Append(past[c], Current(c))}

\* Every call ends, even if nobody receives from its channel: whatever is begun,
\* again and again no call is under way (a call that is done stays done).
CallsEnd == []<>(\A c \in Call : pc[c] \in {"idle", "done"})
=============================================================================
