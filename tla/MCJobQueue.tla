----------------------------- MODULE MCJobQueue -----------------------------
(***************************************************************************)
(* Instances of JobQueue for TLC.                                          *)
(***************************************************************************)
EXTENDS JobQueue, TLC

CONSTANTS j1, j2, w1, w2, t1, t2, t3, t4

MCJobs == {j1, j2}
MCWorkers == {w1, w2}
MCTokens == {t1, t2, t3, t4}

\* j1 may run twice, j2 once.
MCMaxAttempts == (j1 :> 2) @@ (j2 :> 1)
MCPriority == (j1 :> 0) @@ (j2 :> 1)

\* A rolling deployment: the older process w2 has no handler for j2's type.
MCServes == (w1 :> {j1, j2}) @@ (w2 :> {j1})
MCCancelSets == {{j1, j2}}
MCDelays == {0, 1}

Symmetry == Permutations(MCTokens)
=============================================================================
