----------------------------- MODULE MCMailSync -----------------------------
(* Instances of MailSync and of what runs beside it, for TLC.              *)
EXTENDS BackgroundWork, TLC

CONSTANTS m1, j1, i1
OneMessage == {m1}
OneJob == {j1}
OneInbox == {i1}
Nobody == {}

\* No agent, the one that has a workflow, another with it, and that one twice.
SomeLists == {<<>>, <<"rico">>, <<"perry", "rico">>, <<"rico", "rico">>}
=============================================================================
