--------------------------- MODULE MCEngineCalls ---------------------------
(***************************************************************************)
(* EngineCalls for TLC.  Two engines, two sorts of lists.                  *)
(***************************************************************************)
EXTENDS EngineCalls, TLC

CONSTANTS auto, list, select, pipeline, async, unsound

Prefer2 == <<2>>

AllKinds == (auto :> "auto") @@ (list :> "list") @@ (select :> "select")
              @@ (pipeline :> "pipeline") @@ (async :> "async")
              @@ (unsound :> "list")

\* A list that names an engine twice, a pipeline of two steps.
AllGiven == (auto :> << >>) @@ (list :> <<1, 2, 1>>) @@ (select :> << >>)
              @@ (pipeline :> <<2, 1>>) @@ (async :> <<1>>)
              @@ (unsound :> <<2, 1>>)

\* Those of the calls of one run.
KindOf == [c \in Call |-> AllKinds[c]]
GivenOf == [c \in Call |-> AllGiven[c]]
=============================================================================
