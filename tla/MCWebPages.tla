----------------------------- MODULE MCWebPages -----------------------------
(* Instances of WebPages for TLC.                                          *)
EXTENDS WebPages

\* In hours from the Monday of the week before this one: of this week a meeting on Thursday,
\* one on Friday evening that lasts into the night and one on Saturday, and one on the Monday
\* after.
MCCandidates ==
  {[start |-> 250, end |-> 251], [start |-> 281, end |-> 288],
   [start |-> 298, end |-> 299], [start |-> 345, end |-> 346]}

\* Tuesday, Wednesday and Sunday of this week.
MCNows == {200, 226, 332}
=============================================================================
