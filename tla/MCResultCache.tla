--------------------------- MODULE MCResultCache ---------------------------
(***************************************************************************)
(* ResultCache for TLC.                                                    *)
(***************************************************************************)
EXTENDS ResultCache, TLC

CONSTANTS a, b, c, t1, t2, t3

\* Graphs are alike, and so are goroutines.
Renamings == Permutations(Graph) \cup Permutations(Thread)
=============================================================================
