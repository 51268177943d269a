------------------------- MODULE MCConnectorService -------------------------
(* Instances of ConnectorService for TLC.                                  *)
EXTENDS ConnectorService, TLC

CONSTANTS a1, d1, d2, e1, e2, m1, p1, p2, f1, f2, f3, c1, c2, c3, r1

OneApproval == {a1}
TwoDeciders == {d1, d2}
TwoExecutors == {e1, e2}
OneAccount == {m1}
TwoProcesses == {p1, p2}
ThreeFlows == {f1, f2, f3}
ThreeCallbacks == {c1, c2, c3}
OneRevocation == {r1}

\* Interchangeable, and treated alike by every property. (The requests about approvals are
\* few enough to be left as they are.)
Symmetry == Permutations(Processes) \union Permutations(Flows) \union Permutations(Callbacks)
=============================================================================
