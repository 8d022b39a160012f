-------------------------- MODULE MCTaskLifecycle --------------------------
(***************************************************************************)
(* TaskLifecycle for TLC: two goroutines, of two processes or of one, and  *)
(* an engine of every kind.                                                *)
(***************************************************************************)
EXTENDS TaskLifecycle, TLC

CONSTANTS p1, p2, t1, t2, a, b, x, y
CONSTANTS flux,        \* engine/flux: async, implements Resumer
          gptimage,    \* engine/gptimage: waits, returns media
          asr,         \* engine/alibabacloud's qwen-asr: returns text, has Resume
         wan          \* engine/alibabacloud, WaitForCompletion=false: the ID as a URL

Placement == (t1 :> p1) @@ (t2 :> p2)
OneProcess == (t1 :> p1) @@ (t2 :> p1)

AllKinds == (flux :> "taskID") @@ (gptimage :> "media") @@ (asr :> "text")
              @@ (wan :> "idAsMedia")

\* The engines of one run.
Answers == [e \in Engine |-> AllKinds[e]]

\* The names of tasks and of jobs are alike, and so are the goroutines of one process.
Renamings == Permutations({a, b}) \cup Permutations({x, y}) \cup Permutations({t1, t2})
=============================================================================
