---------------------------- MODULE MCLocalIndex ----------------------------
(***************************************************************************)
(* LocalIndex for TLC: one of two files changes.                           *)
(***************************************************************************)
EXTENDS LocalIndex, TLC

CONSTANTS t1, t2

FirstChanges == (1 :> 2) @@ (2 :> 1)

\* The goroutines are interchangeable.
Renamings == Permutations({t1, t2})
=============================================================================
