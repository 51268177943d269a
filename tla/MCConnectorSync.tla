-------------------------- MODULE MCConnectorSync --------------------------
(* Instances of ConnectorService for TLC in which only the sync worker and *)
(* its webhooks move.                                                      *)
EXTENDS ConnectorService

CONSTANTS j1, j2, h1

TwoJobs == {j1, j2}
OneHook == {h1}
============================================================================
