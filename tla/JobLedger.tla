----------------------------- MODULE JobLedger -----------------------------
(***************************************************************************)
(* What the job queue promises its callers, without workers, locks or      *)
(* clocks: a submitted job stays open until a run of it succeeds or until  *)
(* MaxAttempts of its runs have failed, a settled job is settled for good, *)
(* and no two open jobs bear the same dedupe id.                           *)
(* JobQueue.tla implements it as long as one process works the table.      *)
(***************************************************************************)
EXTENDS Naturals

CONSTANTS Jobs, Keys, NoKey, MaxAttempts

VARIABLES
  fate,     \* "absent", "open", "done" or "dead"
  name,     \* the dedupe id the job was submitted under
  strikes   \* its failed runs

vars == <<fate, name, strikes>>

Init ==
  /\ fate = [j \in Jobs |-> "absent"]
  /\ name = [j \in Jobs |-> NoKey]
  /\ strikes = [j \in Jobs |-> 0]

Submit(j, k) ==
  /\ fate[j] = "absent"
  /\ k # NoKey => \A i \in Jobs : fate[i] = "open" => name[i] # k
  /\ fate' = [fate EXCEPT ![j] = "open"]
  /\ name' = [name EXCEPT ![j] = k]
  /\ UNCHANGED strikes

Finish(j) ==
  /\ fate[j] = "open"
  /\ fate' = [fate EXCEPT ![j] = "done"]
  /\ UNCHANGED <<name, strikes>>

Strike(j) ==
  /\ fate[j] = "open"
  /\ strikes' = [strikes EXCEPT ![j] = @ + 1]
  /\ fate' = IF strikes[j] + 1 = MaxAttempts
             THEN [fate EXCEPT ![j] = "dead"] ELSE fate
  /\ UNCHANGED name

Next ==
  \E j \in Jobs : (\E k \in Keys : Submit(j, k)) \/ Finish(j) \/ Strike(j)

\* Nothing is said of when jobs are submitted; an open one is always run.
Spec ==
  /\ Init /\ [][Next]_vars
  /\ \A j \in Jobs : WF_vars(Finish(j) \/ Strike(j))

=============================================================================
