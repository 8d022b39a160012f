-------------------------- MODULE MCFileTaskStore --------------------------
(***************************************************************************)
(* FileTaskStore for TLC: process P1 runs two goroutines, P2 one.          *)
(***************************************************************************)
EXTENDS FileTaskStore, TLC

CONSTANTS p1, p2, t1, t2, t3

Placement3 == (t1 :> p1) @@ (t2 :> p1) @@ (t3 :> p2)

=============================================================================
