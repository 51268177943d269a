---------------------------- MODULE MCJobQueue ----------------------------
(* Instances of JobQueue for TLC.                                          *)
EXTENDS JobQueue, TLC

CONSTANTS j1, j2, w1, w2, c1, c2, k1

OneJob == {j1}
TwoJobs == {j1, j2}
OneWorker == {w1}
TwoWorkers == {w1, w2}
OneCaller == {c1}
TwoCallers == {c1, c2}
OneKey == {NoKey, k1}
NoKeys == {NoKey}
NoFaults == {}
\* Faults after which the loops of all live processes still run.
Survivable == {"crash", "insert", "acquire", "done"}

\* Jobs, workers and callers are interchangeable in the safety runs.
Symmetry ==
  Permutations(Jobs) \union Permutations(Workers) \union Permutations(Callers)
=============================================================================
