---------------------------- MODULE ApprovalGate ----------------------------
(***************************************************************************)
(* The approvals of the connector service: a request for a risky action    *)
(* (sending a draft, deleting an event) creates an approval, people decide *)
(* it, and a second request executes the action under it                   *)
(* (packages/connectors/src/services/approval.service.ts, routes/index.ts).*)
(* Every operation reads the record, looks at what it read and then        *)
(* updates the record by its id alone.                                     *)
(***************************************************************************)
EXTENDS Naturals, FiniteSets

CONSTANTS
  Approvals,
  Deciders,     \* requests to approve or to reject
  Executors,    \* requests that carry the id of an approval
  MaxFaults     \* bound: failed actions, lost answers and crashes

ASSUME DisjointAssumption == Deciders \intersect Executors = {}
ASSUME BoundAssumption == MaxFaults \in Nat

Handlers == Deciders \union Executors

VARIABLES
  status,    \* of each approval
  overdue,   \* the approvals whose fifteen minutes have passed
  pc,
  target,    \* the approval a handler works on
  granted,   \* history: approvals that someone found pending, in time, and approved
  runs,      \* history: how often the action of each approval was executed
  faults

vars == <<status, overdue, pc, target, granted, runs, faults>>

Statuses == {"none", "PENDING", "APPROVED", "REJECTED", "EXPIRED", "EXECUTED"}
Places == {"idle", "approving", "rejecting", "expiring", "executing", "marking"}

Init ==
  /\ status = [a \in Approvals |-> "none"]
  /\ overdue = {}
  /\ pc = [h \in Handlers |-> "idle"]
  /\ target \in [Handlers -> Approvals]
  /\ granted = {}
  /\ runs = [a \in Approvals |-> 0]
  /\ faults = 0

\* Executions are counted up to two.
OneMore(n) == IF n < 2 THEN n + 1 ELSE n

Fault == faults < MaxFaults /\ faults' = faults + 1

Look(h, a, place) ==
  /\ pc[h] = "idle"
  /\ pc' = [pc EXCEPT ![h] = place]
  /\ target' = [target EXCEPT ![h] = a]
  /\ UNCHANGED <<status, overdue, granted, runs, faults>>

\* As if the wrong field were written.
UpdateWithPlace(h, place, new) ==
  /\ pc[h] = place
  /\ pc' = [pc EXCEPT ![h] = "idle"]
  /\ status' = [status EXCEPT ![target[h]] = place]
  /\ UNCHANGED <<overdue, target, runs, faults>>

\* prisma.approval.update with the id as its only condition
Update(h, place, new) ==
  /\ pc[h] = place
  /\ pc' = [pc EXCEPT ![h] = "idle"]
  /\ status' = [status EXCEPT ![target[h]] = new]
  /\ UNCHANGED <<overdue, target, runs, faults>>

\* createApproval, by a request without an approval
Create(a) ==
  /\ status[a] = "none"
  /\ status' = [status EXCEPT ![a] = "PENDING"]
  /\ UNCHANGED <<overdue, pc, target, granted, runs, faults>>

FindToApprove(h, a) ==
  /\ status[a] = "PENDING"
  /\ Look(h, a, IF a \in overdue THEN "expiring" ELSE "approving")

Approve(h) ==
  /\ Update(h, "approving", "APPROVED")
  /\ granted' = granted \union {target[h]}

FindToReject(h, a) == status[a] = "PENDING" /\ Look(h, a, "rejecting")

Reject(h) == Update(h, "rejecting", "REJECTED") /\ UNCHANGED granted

Expire(h) == Update(h, "expiring", "EXPIRED") /\ UNCHANGED granted

\* As if only a rejection were refused.
ValidateLoosely(h, a) ==
  /\ status[a] \notin {"none", "REJECTED"}
  /\ Look(h, a, IF a \in overdue THEN "expiring" ELSE "executing")

\* As if the approval were marked before the action is executed.
ValidateAndMark(h, a) ==
  /\ status[a] = "APPROVED"
  /\ Look(h, a, IF a \in overdue THEN "expiring" ELSE "marking")

\* validateApproval: anything but an approved record is refused.
Validate(h, a) ==
  /\ status[a] = "APPROVED"
  /\ Look(h, a, IF a \in overdue THEN "expiring" ELSE "executing")

\* The adapter sends or deletes.
Execute(h) ==
  /\ pc[h] = "executing"
  /\ pc' = [pc EXCEPT ![h] = "marking"]
  /\ runs' = [runs EXCEPT ![target[h]] = OneMore(@)]
  /\ UNCHANGED <<status, overdue, target, granted, faults>>

\* The adapter raises, before or after the provider has acted.
ExecuteFails(h) ==
  /\ pc[h] = "executing"
  /\ Fault
  /\ pc' = [pc EXCEPT ![h] = "idle"]
  /\ \/ UNCHANGED runs
     \/ runs' = [runs EXCEPT ![target[h]] = OneMore(@)]
  /\ UNCHANGED <<status, overdue, target, granted>>

MarkExecuted(h) == Update(h, "marking", "EXECUTED") /\ UNCHANGED granted

Crash(h) ==
  /\ pc[h] # "idle"
  /\ Fault
  /\ pc' = [pc EXCEPT ![h] = "idle"]
  /\ UNCHANGED <<status, overdue, target, granted, runs>>

TimePasses(a) ==
  /\ status[a] # "none" /\ a \notin overdue
  /\ overdue' = overdue \union {a}
  /\ UNCHANGED <<status, pc, target, granted, runs, faults>>

Decide(h) == Approve(h) \/ Reject(h) \/ Expire(h)

Carry(h) == Execute(h) \/ ExecuteFails(h) \/ MarkExecuted(h) \/ Expire(h)

Next ==
  \/ \E a \in Approvals : Create(a) \/ TimePasses(a)
  \/ \E h \in Deciders, a \in Approvals : FindToApprove(h, a) \/ FindToReject(h, a)
  \/ \E h \in Deciders : Decide(h)
  \/ \E h \in Executors, a \in Approvals : Validate(h, a)
  \/ \E h \in Executors : Carry(h)
  \/ \E h \in Handlers : Crash(h)

Spec == Init /\ [][Next]_vars

-----------------------------------------------------------------------------
(* Properties                                                              *)

\* Type invariant.
TypeOK ==
  /\ status \in [Approvals -> Statuses]
  /\ overdue \subseteq Approvals /\ granted \subseteq Approvals
  /\ pc \in [Handlers -> Places]
  /\ target \in [Handlers -> Approvals]
  /\ runs \in [Approvals -> 0..2]
  /\ faults \in 0..MaxFaults

\* No action is executed under an approval that nobody granted, whatever
\* deciders and executors overwrite.
RunsAreGranted == \A a \in Approvals : runs[a] > 0 => a \in granted

\* An approval marked as executed stands for an action that was executed.
ExecutedMeansRun == \A a \in Approvals : status[a] = "EXECUTED" => runs[a] > 0

\* One approval, one execution. The code refutes this: two requests may both validate it
\* before either of them marks it.
OneRunPerApproval == \A a \in Approvals : runs[a] <= 1

=============================================================================
