--------------------------- MODULE JobQueueProofs ---------------------------
(***************************************************************************)
(* Theorems about the job queue of JobQueue.tla for every number of jobs,  *)
(* workers and callers, and every mix of faults.                           *)
(***************************************************************************)
EXTENDS JobQueue, FiniteSetTheorems, TLAPS

\* The constants under which the proofs hold.
USE DEF Statuses, Places, Null, NotRead

-----------------------------------------------------------------------------
(* Type correctness                                                        *)

\* What the reads and moves of a worker keep, whatever action they are part of.
LEMMA MoveKeepsWorkersOK ==
  ASSUME WorkersOK, NEW w \in Workers, NEW place \in Places, MoveTo(w, place),
         UNCHANGED held, place \in Engaged => held[w] \in Jobs,
         BoundsAssumption
  PROVE  WorkersOK'
BY DEF WorkersOK, MoveTo, NoRow, OldestLock, BoundsAssumption, Engaged

LEMMA ReleaseKeepsWorkersOK ==
  ASSUME WorkersOK, NEW w \in Workers, NEW place \in Places \ Engaged,
         Release(w, place), BoundsAssumption
  PROVE  WorkersOK'
BY DEF WorkersOK, Release, MoveTo, NoRow, OldestLock, BoundsAssumption, Engaged

LEMMA ReadKeepsWorkersOK ==
  ASSUME TableOK, WorkersOK, NEW w \in Workers, NEW place \in Places,
         NEW j \in Jobs, ReadRow(w, j, place), BoundsAssumption
  PROVE  WorkersOK'
BY DEF TableOK, WorkersOK, ReadRow, Row, OldestLock, BoundsAssumption, Engaged

\* A worker's write of the status column keeps its type.
LEMMA SetStatusTyped ==
  ASSUME TypeOK, NEW w \in Workers, held[w] \in Jobs, NEW new \in Statuses,
         SetStatus(w, new)
  PROVE  status' \in [Jobs -> Statuses]
BY DEF TypeOK, TableOK, SetStatus

LEMMA FaultTyped ==
  ASSUME TypeOK, NEW kind, Fault(kind), BoundsAssumption
  PROVE  faults' \in 0..MaxFaults
BY DEF TypeOK, Fault, BoundsAssumption

\* A run that raised is counted for the job in the worker's hand.
LEMMA RaiseTyped ==
  ASSUME TypeOK, NEW w \in Workers, pc[w] \in Engaged, Raise(w),
         faults' \in 0..MaxFaults, BoundsAssumption
  PROVE  TypeOK'
<1>1. held[w] \in Jobs
  BY DEF TypeOK, WorkersOK
<1>2. WorkersOK'
  BY <1>1, MoveKeepsWorkersOK DEF Raise, TypeOK
<1> QED
  BY <1>1, <1>2 DEF Raise, TypeOK, TableOK, rows

\* Ageing keeps an age in its range, and a time that is set stays set.
LEMMA OlderTyped ==
  ASSUME NEW age \in Null..OldestLock, BoundsAssumption
  PROVE  /\ Older(age) \in Null..OldestLock
         /\ age \in 0..OldestLock => Older(age) \in 0..OldestLock
BY DEF Older, OldestLock, BoundsAssumption

\* TypeOK is preserved by every step.
LEMMA TypeInductive ==
  ASSUME TypeOK, [Next]_vars
  PROVE  TypeOK'
<1> USE KeysAssumption, JobsAssumption, BoundsAssumption
<1> DEFINE Rest == /\ asked' \in [Callers -> Keys \union {NoCall}]
                   /\ zombies' \in [Jobs -> Nat \union {NotRead}]
                   /\ succeeded' \subseteq Jobs
                   /\ failures' \in [Jobs -> Nat]
                   /\ reclaims' \in [Jobs -> Nat]
                   /\ faults' \in 0..MaxFaults
<1>q. TableOK' /\ WorkersOK' /\ Rest => TypeOK'
  BY DEF TypeOK
<1>1. ASSUME NEW c \in Callers, NEW k \in Keys, CheckDuplicate(c, k)
      PROVE  TypeOK'
  BY <1>1 DEF CheckDuplicate, TypeOK, TableOK, WorkersOK, rows, workers, history
<1>2. ASSUME NEW c \in Callers, NEW j \in Jobs, Insert(c, j)
      PROVE  TypeOK'
  BY <1>2 DEF Insert, TypeOK, TableOK, WorkersOK, workers, history
<1>3. ASSUME NEW c \in Callers, InsertFails(c)
      PROVE  TypeOK'
  BY <1>3, FaultTyped
  DEF InsertFails, TypeOK, TableOK, WorkersOK, rows, workers, history
<1>4. ASSUME NEW w \in Workers, NEW j \in Jobs, Select(w, j)
      PROVE  TypeOK'
  <2>1. TableOK' /\ Rest
    BY <1>4 DEF Select, TypeOK, TableOK, rows, history
  <2>2. WorkersOK'
    BY <1>4, ReadKeepsWorkersOK DEF Select, TypeOK
  <2> QED
    BY <2>1, <2>2, <1>q
<1>5. ASSUME NEW w \in Workers, Acquire(w)
      PROVE  TypeOK'
  <2>1. held[w] \in Jobs /\ stamp[w] \in 0..OldestLock
    BY <1>5 DEF Acquire, TypeOK, WorkersOK, Engaged
  <2>l. lockAge' \in [Jobs -> Null..OldestLock]
    BY <1>5, <2>1 DEF Acquire, TypeOK, TableOK, OldestLock
  <2>2. status' \in [Jobs -> Statuses]
    BY <1>5, <2>1, SetStatusTyped DEF Acquire
  <2>3. TableOK' /\ Rest
    BY <1>5, <2>1, <2>2, <2>l DEF Acquire, TypeOK, TableOK, history
  <2>4. WorkersOK'
    BY <1>5, <2>1, MoveKeepsWorkersOK DEF Acquire, TypeOK
  <2> QED
    BY <2>3, <2>4, <1>q
<1>6. ASSUME NEW w \in Workers, AcquireFails(w) \/ MarkFailedFails(w) \/ Crash(w)
      PROVE  TypeOK'
  <2>1. faults' \in 0..MaxFaults
    BY <1>6, FaultTyped DEF AcquireFails, MarkFailedFails, Crash
  <2>2. TableOK' /\ Rest
    BY <1>6, <2>1
    DEF AcquireFails, MarkFailedFails, Crash, TypeOK, TableOK, rows, history
  <2>3. WorkersOK'
    BY <1>6, ReleaseKeepsWorkersOK
    DEF AcquireFails, MarkFailedFails, Crash, TypeOK, Engaged
  <2> QED
    BY <2>2, <2>3, <1>q
<1>7. ASSUME NEW w \in Workers, HandlerSucceeds(w)
      PROVE  TypeOK'
  <2>1. held[w] \in Jobs
    BY <1>7 DEF HandlerSucceeds, TypeOK, WorkersOK, Engaged
  <2>2. TableOK' /\ Rest
    BY <1>7, <2>1 DEF HandlerSucceeds, TypeOK, TableOK, rows
  <2>3. WorkersOK'
    BY <1>7, <2>1, MoveKeepsWorkersOK DEF HandlerSucceeds, TypeOK
  <2> QED
    BY <2>2, <2>3, <1>q
<1>8. ASSUME NEW w \in Workers, HandlerFails(w)
      PROVE  TypeOK'
  BY <1>8, RaiseTyped DEF HandlerFails, Engaged, TypeOK
<1>9. ASSUME NEW w \in Workers, MarkDoneFails(w)
      PROVE  TypeOK'
  BY <1>9, RaiseTyped, FaultTyped DEF MarkDoneFails, Engaged
<1>10. ASSUME NEW w \in Workers, ReadDone(w) \/ ReadFailed(w)
       PROVE  TypeOK'
  <2>1. held[w] \in Jobs
    BY <1>10 DEF ReadDone, ReadFailed, TypeOK, WorkersOK, Engaged
  <2>2. TableOK' /\ Rest
    BY <1>10 DEF ReadDone, ReadFailed, TypeOK, TableOK, rows, history
  <2>3. WorkersOK'
    BY <1>10, <2>1, ReadKeepsWorkersOK DEF ReadDone, ReadFailed, TypeOK
  <2> QED
    BY <2>2, <2>3, <1>q
<1>11. ASSUME NEW w \in Workers, WriteDone(w)
       PROVE  TypeOK'
  <2>1. held[w] \in Jobs
    BY <1>11 DEF WriteDone, TypeOK, WorkersOK, Engaged
  <2>2. status' \in [Jobs -> Statuses]
    BY <1>11, <2>1, SetStatusTyped DEF WriteDone
  <2>3. TableOK' /\ Rest
    BY <1>11, <2>2 DEF WriteDone, TypeOK, TableOK, history
  <2>4. WorkersOK'
    BY <1>11, ReleaseKeepsWorkersOK DEF WriteDone, TypeOK, Engaged
  <2> QED
    BY <2>3, <2>4, <1>q
<1>12. ASSUME NEW w \in Workers, WriteFailed(w)
       PROVE  TypeOK'
  <2> DEFINE tries == seen[w].attempts + 1
  <2>1. held[w] \in Jobs /\ tries \in Nat \ {0}
    BY <1>12 DEF WriteFailed, TypeOK, WorkersOK, Engaged
  <2>2. FateAfter(tries) \in Statuses
    BY DEF FateAfter
  <2>3. status' \in [Jobs -> Statuses]
    BY <1>12, <2>1, <2>2, SetStatusTyped DEF WriteFailed
  <2>4. wait' \in [Jobs -> Int]
    <3>1. FateAfter(tries) # "DLQ" => tries \in 1..MaxAttempts
      BY <2>1 DEF FateAfter
    <3> HIDE DEF tries
    <3>2. FateAfter(tries) # "DLQ" => 2^tries \in Int
      BY <3>1, BackoffAssumption
    <3>3. wait' = IF FateAfter(tries) = "DLQ" THEN wait
                  ELSE [wait EXCEPT ![held[w]] = 2^tries]
      BY <1>12 DEF WriteFailed, tries
    <3> QED
      BY <2>1, <3>2, <3>3 DEF TypeOK, TableOK
  <2>5. attempts' \in [Jobs -> Nat] /\ lockAge' \in [Jobs -> Null..OldestLock]
    BY <1>12, <2>1 DEF WriteFailed, TypeOK, TableOK, OldestLock
  <2>7. TableOK' /\ Rest
    BY <1>12, <2>1, <2>3, <2>4, <2>5 DEF WriteFailed, TypeOK, TableOK, history
  <2>6. WorkersOK'
    BY <1>12, ReleaseKeepsWorkersOK DEF WriteFailed, TypeOK, Engaged
  <2> QED
    BY <2>6, <2>7, <1>q
<1>13. ASSUME NEW w \in Workers, Restart(w)
       PROVE  TypeOK'
  <2>1. TableOK' /\ Rest
    BY <1>13 DEF Restart, TypeOK, TableOK, rows, history
  <2>2. WorkersOK'
    BY <1>13, ReleaseKeepsWorkersOK DEF Restart, TypeOK, Engaged
  <2> QED
    BY <2>1, <2>2, <1>q
<1>14. CASE WatchdogReads
  BY <1>14 DEF WatchdogReads, TypeOK, TableOK, WorkersOK, rows, workers, history
<1>15. CASE WatchdogWrites
  BY <1>15 DEF WatchdogWrites, AfterReclaim, TypeOK, TableOK, WorkersOK, workers,
               OldestLock
<1>16. CASE Tick
  <2>1. wait' \in [Jobs -> Int]
    BY <1>16 DEF Tick, TypeOK, TableOK
  <2>2. \A j \in Jobs : Older(lockAge[j]) \in Null..OldestLock
    BY OlderTyped DEF TypeOK, TableOK
  <2>3. TableOK' /\ Rest
    BY <1>16, <2>1, <2>2 DEF Tick, TypeOK, TableOK, history
  <2>4. stamp' \in [Workers -> 0..OldestLock]
    <3>1. \A w \in Workers : stamp[w] \in 0..OldestLock
      BY DEF TypeOK, WorkersOK
    <3>2. \A w \in Workers : Older(stamp[w]) \in 0..OldestLock
      BY <3>1, OlderTyped
    <3> QED
      BY <1>16, <3>1, <3>2 DEF Tick
  <2>5. WorkersOK'
    BY <1>16, <2>4 DEF Tick, TypeOK, WorkersOK
  <2> QED
    BY <2>3, <2>5, <1>q
<1>17. CASE UNCHANGED vars
  BY <1>17 DEF vars, rows, workers, history, TypeOK, TableOK, WorkersOK
<1> QED
  BY <1>1, <1>2, <1>3, <1>4, <1>5, <1>6, <1>7, <1>8, <1>9, <1>10, <1>11, <1>12,
     <1>13, <1>14, <1>15, <1>16, <1>17
  DEF Next, Enqueue, WorkerStep, WorkerFault

\* Every column and local keeps its type, in every behaviour of the queue.
THEOREM TypeCorrect == Spec => []TypeOK
<1>1. Init => TypeOK
  BY KeysAssumption, JobsAssumption, BoundsAssumption
  DEF Init, TypeOK, TableOK, WorkersOK, NoRow, Engaged, OldestLock
<1> QED
  BY <1>1, TypeInductive, PTL DEF Spec

-----------------------------------------------------------------------------
(* A job is DONE only if a run of it returned. A worker that has not yet   *)
(* written the outcome of its run already owes it: what is in hand counts. *)

SuccessInHand ==
  \A w \in Workers : pc[w] \in {"succeeded", "completing"} => held[w] \in succeeded

\* The strengthening is preserved together with the property.
LEMMA SuccessInductive ==
  ASSUME TypeOK, DoneOnlyAfterSuccess, SuccessInHand, [Next]_vars
  PROVE  DoneOnlyAfterSuccess' /\ SuccessInHand'
<1> USE DEF DoneOnlyAfterSuccess, SuccessInHand
<1>t. /\ status \in [Jobs -> Statuses]
      /\ pc \in [Workers -> Places]
      /\ held \in [Workers -> Jobs \union {NoJob}]
      /\ \A w \in Workers : pc[w] \in Engaged => held[w] \in Jobs
  BY DEF TypeOK, TableOK, WorkersOK
<1>1. ASSUME NEW c \in Callers, Enqueue(c)
      PROVE  DoneOnlyAfterSuccess' /\ SuccessInHand'
  BY <1>1, <1>t DEF Enqueue, CheckDuplicate, Insert, InsertFails, rows, workers, history
<1>2. ASSUME NEW w \in Workers, NEW j \in Jobs, Select(w, j)
      PROVE  DoneOnlyAfterSuccess' /\ SuccessInHand'
  BY <1>2, <1>t DEF Select, ReadRow, rows, history
<1>3. ASSUME NEW w \in Workers, Acquire(w)
      PROVE  DoneOnlyAfterSuccess' /\ SuccessInHand'
  BY <1>3, <1>t DEF Acquire, SetStatus, MoveTo, history
<1>4. ASSUME NEW w \in Workers, HandlerSucceeds(w)
      PROVE  DoneOnlyAfterSuccess' /\ SuccessInHand'
  BY <1>4, <1>t DEF HandlerSucceeds, MoveTo, rows
<1>5. ASSUME NEW w \in Workers, HandlerFails(w) \/ MarkDoneFails(w)
      PROVE  DoneOnlyAfterSuccess' /\ SuccessInHand'
  BY <1>5, <1>t DEF HandlerFails, MarkDoneFails, Raise, MoveTo, rows
<1>6. ASSUME NEW w \in Workers, ReadDone(w) \/ ReadFailed(w)
      PROVE  DoneOnlyAfterSuccess' /\ SuccessInHand'
  BY <1>6, <1>t DEF ReadDone, ReadFailed, ReadRow, rows, history
<1>7. ASSUME NEW w \in Workers, WriteDone(w)
      PROVE  DoneOnlyAfterSuccess' /\ SuccessInHand'
  BY <1>7, <1>t DEF WriteDone, SetStatus, Release, MoveTo, history
<1>8. ASSUME NEW w \in Workers, WriteFailed(w)
      PROVE  DoneOnlyAfterSuccess' /\ SuccessInHand'
  BY <1>8, <1>t DEF WriteFailed, FateAfter, SetStatus, Release, MoveTo, history
<1>9. ASSUME NEW w \in Workers,
             AcquireFails(w) \/ MarkFailedFails(w) \/ Crash(w) \/ Restart(w)
      PROVE  DoneOnlyAfterSuccess' /\ SuccessInHand'
  BY <1>9, <1>t
  DEF AcquireFails, MarkFailedFails, Crash, Restart, Release, MoveTo, rows, history
<1>10. CASE WatchdogReads \/ WatchdogWrites \/ Tick
  BY <1>10, <1>t DEF WatchdogReads, WatchdogWrites, Tick, rows, workers, history
<1>11. CASE UNCHANGED vars
  BY <1>11 DEF vars, rows, workers, history
<1> QED
  BY <1>1, <1>2, <1>3, <1>4, <1>5, <1>6, <1>7, <1>8, <1>9, <1>10, <1>11
  DEF Next, WorkerStep, WorkerFault

\* A job that is DONE has had a run of its handler return, however the workers
\* that mark jobs without checking their locks overlap.
THEOREM DoneIsEarned == Spec => []DoneOnlyAfterSuccess
<1>1. Init => DoneOnlyAfterSuccess /\ SuccessInHand
  BY DEF Init, DoneOnlyAfterSuccess, SuccessInHand
<1> QED
  BY <1>1, TypeCorrect, SuccessInductive, PTL DEF Spec

-----------------------------------------------------------------------------
(* A dead-lettered job has failed max_attempts times. The count in the     *)
(* table may lag behind, since overlapping writes of it are lost, but it   *)
(* never runs ahead: a failed run a worker has still to write is a debt,   *)
(* and what the table, a worker or the watchdog read of the count leaves   *)
(* room for all the debts.                                                 *)

Owes(w, j) == pc[w] \in {"failed", "recording"} /\ held[w] = j
Debtors(j) == {w \in Workers : Owes(w, j)}
Debt(j) == Cardinality(Debtors(j))
Earned(j) == failures[j] + reclaims[j]
Covered(n, j) == n + Debt(j) <= Earned(j)

TableCovered == \A j \in Jobs : Covered(attempts[j], j)
SnapshotsCovered ==
  \A w \in Workers, j \in Jobs :
    pc[w] = "recording" /\ held[w] = j => Covered(seen[w].attempts, j)
ZombiesCovered == \A j \in Jobs : zombies[j] # NotRead => Covered(zombies[j], j)

DebtInv == TableCovered /\ SnapshotsCovered /\ ZombiesCovered /\ DeadLetterEarned

LEMMA DebtTyped ==
  ASSUME JobsAssumption, NEW j
  PROVE  IsFiniteSet(Debtors(j)) /\ Debt(j) \in Nat
BY FS_Subset, FS_CardinalityType DEF JobsAssumption, Debtors, Debt

\* The same of the debts after a step.
LEMMA DebtTypedNext ==
  ASSUME JobsAssumption, NEW j
  PROVE  IsFiniteSet(Debtors(j)') /\ Debt(j)' \in Nat
<1>1. Debtors(j)' \subseteq Workers
  BY DEF Debtors
<1> QED
  BY <1>1, FS_Subset, FS_CardinalityType DEF JobsAssumption, Debt

LEMMA NoNewDebt ==
  ASSUME JobsAssumption, NEW j, \A w \in Workers : Owes(w, j)' => Owes(w, j)
  PROVE  Debt(j)' <= Debt(j)
<1>1. Debtors(j)' \subseteq Debtors(j)
  BY DEF Debtors
<1> QED
  BY <1>1, DebtTyped, FS_Subset DEF Debt

LEMMA OneNewDebt ==
  ASSUME JobsAssumption, NEW j, NEW w \in Workers,
         \A v \in Workers \ {w} : Owes(v, j)' => Owes(v, j)
  PROVE  Debt(j)' <= Debt(j) + 1
<1>1. Debtors(j)' \subseteq Debtors(j) \union {w}
  BY DEF Debtors
<1>2. /\ IsFiniteSet(Debtors(j) \union {w})
      /\ Cardinality(Debtors(j) \union {w}) \in {Debt(j), Debt(j) + 1}
  BY DebtTyped, FS_AddElement DEF Debt
<1>3. Debt(j)' <= Cardinality(Debtors(j) \union {w})
  BY <1>1, <1>2, FS_Subset DEF Debt
<1> QED
  BY <1>2, <1>3, DebtTyped, DebtTypedNext

LEMMA DebtPaid ==
  ASSUME JobsAssumption, NEW j, NEW w \in Workers, Owes(w, j), ~Owes(w, j)',
         \A v \in Workers \ {w} : Owes(v, j)' => Owes(v, j)
  PROVE  Debt(j)' + 1 <= Debt(j)
<1>1. Debtors(j)' \subseteq Debtors(j) \ {w} /\ w \in Debtors(j)
  BY DEF Debtors
<1>2. /\ IsFiniteSet(Debtors(j) \ {w})
      /\ Cardinality(Debtors(j) \ {w}) = Debt(j) - 1
  BY <1>1, DebtTyped, FS_RemoveElement DEF Debt
<1>3. Debt(j)' <= Cardinality(Debtors(j) \ {w})
  BY <1>1, <1>2, FS_Subset DEF Debt
<1> QED
  BY <1>2, <1>3, DebtTyped, DebtTypedNext

\* A step that records no failure and no reclaim: nobody comes to owe, and
\* what is read of the count is read from the table.
LEMMA QuietStep ==
  ASSUME TypeOK, TypeOK', DebtInv, JobsAssumption,
         UNCHANGED <<attempts, failures, reclaims>>,
         \A w \in Workers, j \in Jobs : Owes(w, j)' => Owes(w, j),
         \A w \in Workers : pc'[w] = "recording" =>
            \/ pc[w] = "recording" /\ seen'[w] = seen[w] /\ held'[w] = held[w]
            \/ seen'[w].attempts = attempts[held'[w]],
         \A j \in Jobs : zombies'[j] \in {NotRead, zombies[j], attempts[j]},
         \A j \in Jobs : status'[j] = "DLQ" => status[j] = "DLQ"
  PROVE  DebtInv'
<1>1. ASSUME NEW j \in Jobs, NEW n \in Nat, Covered(n, j)
      PROVE  n + Debt(j)' <= Earned(j)'
  BY <1>1, NoNewDebt, DebtTyped, DebtTypedNext DEF Covered, Earned, TypeOK
<1>2. TableCovered'
  BY <1>1 DEF TableCovered, Covered, DebtInv, TypeOK, TableOK
<1>3. SnapshotsCovered'
  <2> SUFFICES ASSUME NEW w \in Workers, NEW j \in Jobs,
                      pc'[w] = "recording", held'[w] = j
               PROVE  seen'[w].attempts + Debt(j)' <= Earned(j)'
    BY DEF SnapshotsCovered, Covered
  <2>1. seen'[w].attempts \in Nat
    BY DEF TypeOK, WorkersOK
  <2>2. Covered(seen'[w].attempts, j)
    BY DEF DebtInv, SnapshotsCovered, TableCovered
  <2> QED
    BY <1>1, <2>1, <2>2
<1>4. ZombiesCovered'
  BY <1>1 DEF ZombiesCovered, Covered, DebtInv, TableCovered, TypeOK, TableOK
<1>5. DeadLetterEarned'
  BY DEF DebtInv, DeadLetterEarned
<1> QED
  BY <1>2, <1>3, <1>4, <1>5 DEF DebtInv

\* A run that raised: the job earns one more, and its worker owes it.
LEMMA RaiseKeepsDebtInv ==
  ASSUME TypeOK, DebtInv, JobsAssumption, BoundsAssumption,
         NEW w \in Workers, pc[w] \in {"running", "succeeded", "completing"}, Raise(w)
  PROVE  DebtInv'
<1>t. /\ held[w] \in Jobs
      /\ pc \in [Workers -> Places]
      /\ seen \in [Workers -> [status : Statuses, attempts : Nat, locked : BOOLEAN]]
      /\ attempts \in [Jobs -> Nat] /\ zombies \in [Jobs -> Nat \union {NotRead}]
      /\ failures \in [Jobs -> Nat] /\ reclaims \in [Jobs -> Nat]
  BY DEF TypeOK, TableOK, WorkersOK, Engaged
<1>1. ASSUME NEW j \in Jobs, NEW n \in Nat, Covered(n, j)
      PROVE  n + Debt(j)' <= Earned(j)'
  <2>1. Debt(j)' <= Debt(j) + (IF j = held[w] THEN 1 ELSE 0)
    <3>1. \A v \in Workers \ {w} : Owes(v, j)' => Owes(v, j)
      BY <1>t DEF Raise, MoveTo, Owes
    <3>2. CASE j = held[w]
      BY <3>1, <3>2, OneNewDebt
    <3>3. CASE j # held[w]
      <4>1. \A v \in Workers : Owes(v, j)' => Owes(v, j)
        BY <1>t, <3>1, <3>3 DEF Raise, MoveTo, Owes
      <4> QED
        BY <3>3, <4>1, NoNewDebt, DebtTyped, DebtTypedNext
    <3> QED
      BY <3>2, <3>3
  <2>2. Earned(j)' = Earned(j) + (IF j = held[w] THEN 1 ELSE 0)
    BY <1>t DEF Raise, Earned
  <2> QED
    BY <1>1, <1>t, <2>1, <2>2, DebtTyped, DebtTypedNext DEF Covered, Earned
<1>2. TableCovered'
  BY <1>1, <1>t DEF TableCovered, Covered, DebtInv, Raise, rows
<1>3. SnapshotsCovered'
  <2> SUFFICES ASSUME NEW v \in Workers, NEW j \in Jobs,
                      pc'[v] = "recording", held'[v] = j
               PROVE  seen'[v].attempts + Debt(j)' <= Earned(j)'
    BY DEF SnapshotsCovered, Covered
  <2>1. v # w /\ pc[v] = "recording" /\ held[v] = j /\ seen'[v] = seen[v]
    BY <1>t DEF Raise, MoveTo
  <2> QED
    BY <1>1, <1>t, <2>1 DEF DebtInv, SnapshotsCovered
<1>4. ZombiesCovered'
  BY <1>1, <1>t DEF ZombiesCovered, Covered, DebtInv, Raise
<1>5. DeadLetterEarned'
  BY <1>t, BoundsAssumption DEF BoundsAssumption, DebtInv, DeadLetterEarned, Raise, rows
<1> QED
  BY <1>2, <1>3, <1>4, <1>5 DEF DebtInv

\* A failed run is written: its worker's debt is paid by the new count.
LEMMA WriteFailedKeepsDebtInv ==
  ASSUME TypeOK, DebtInv, JobsAssumption, BoundsAssumption,
         NEW w \in Workers, WriteFailed(w)
  PROVE  DebtInv'
<1> DEFINE tries == seen[w].attempts + 1
<1>t. /\ held[w] \in Jobs /\ tries \in Nat
      /\ pc \in [Workers -> Places] /\ held \in [Workers -> Jobs \union {NoJob}]
      /\ seen \in [Workers -> [status : Statuses, attempts : Nat, locked : BOOLEAN]]
      /\ status \in [Jobs -> Statuses]
      /\ attempts \in [Jobs -> Nat] /\ zombies \in [Jobs -> Nat \union {NotRead}]
      /\ failures \in [Jobs -> Nat] /\ reclaims \in [Jobs -> Nat]
      /\ MaxAttempts \in Nat
  BY DEF TypeOK, TableOK, WorkersOK, Engaged, WriteFailed, BoundsAssumption
<1>s. \A v \in Workers, j \in Jobs : Owes(v, j)' => Owes(v, j) /\ v # w
  BY <1>t DEF WriteFailed, Release, MoveTo, Owes
<1>1. ASSUME NEW j \in Jobs, NEW n \in Nat, Covered(n, j)
      PROVE  n + Debt(j)' <= Earned(j)'
  BY <1>1, <1>t, <1>s, NoNewDebt, DebtTyped, DebtTypedNext
  DEF Covered, Earned, WriteFailed, history
<1>2. PICK i \in Jobs : held[w] = i
  BY <1>t
<1>3. tries + Debt(i)' <= Earned(i)
  <2>1. Covered(seen[w].attempts, i) /\ Owes(w, i)
    BY <1>2 DEF DebtInv, SnapshotsCovered, WriteFailed, Owes
  <2>2. Debt(i)' + 1 <= Debt(i)
    BY <1>s, <2>1, DebtPaid
  <2> QED
    BY <1>t, <2>1, <2>2, DebtTyped, DebtTypedNext DEF Covered, Earned
<1>4. /\ attempts' = [attempts EXCEPT ![i] = tries]
      /\ UNCHANGED <<failures, reclaims, zombies>>
  BY <1>2 DEF WriteFailed, history
<1>5. TableCovered'
  <2> SUFFICES ASSUME NEW j \in Jobs
               PROVE  attempts'[j] + Debt(j)' <= Earned(j)'
    BY DEF TableCovered, Covered
  <2>1. CASE j = i
    BY <1>t, <1>3, <1>4, <2>1 DEF Earned
  <2>2. CASE j # i
    BY <1>t, <1>1, <1>4, <2>2 DEF DebtInv, TableCovered
  <2> QED
    BY <2>1, <2>2
<1>6. SnapshotsCovered'
  <2> SUFFICES ASSUME NEW v \in Workers, NEW j \in Jobs,
                      pc'[v] = "recording", held'[v] = j
               PROVE  seen'[v].attempts + Debt(j)' <= Earned(j)'
    BY DEF SnapshotsCovered, Covered
  <2>1. v # w /\ pc[v] = "recording" /\ held[v] = j /\ seen'[v] = seen[v]
    BY <1>t DEF WriteFailed, Release, MoveTo
  <2> QED
    BY <1>1, <1>t, <2>1 DEF DebtInv, SnapshotsCovered
<1>7. ZombiesCovered'
  BY <1>1, <1>4, <1>t DEF ZombiesCovered, Covered, DebtInv
<1>8. DeadLetterEarned'
  <2> SUFFICES ASSUME NEW j \in Jobs, status'[j] = "DLQ"
               PROVE  Earned(j)' >= MaxAttempts
    BY DEF DeadLetterEarned, Earned
  <2>1. status[j] = "DLQ" \/ (j = i /\ tries >= MaxAttempts)
    BY <1>2, <1>t DEF WriteFailed, SetStatus, FateAfter
  <2> QED
    BY <1>3, <1>4, <1>t, <2>1, DebtTypedNext DEF DebtInv, DeadLetterEarned, Earned
<1> QED
  BY <1>5, <1>6, <1>7, <1>8 DEF DebtInv

\* The watchdog adds one to what it read, and the job earns one.
LEMMA ReclaimKeepsDebtInv ==
  ASSUME TypeOK, DebtInv, JobsAssumption, WatchdogWrites
  PROVE  DebtInv'
<1>t. /\ seen \in [Workers -> [status : Statuses, attempts : Nat, locked : BOOLEAN]]
      /\ attempts \in [Jobs -> Nat] /\ zombies \in [Jobs -> Nat \union {NotRead}]
      /\ failures \in [Jobs -> Nat] /\ reclaims \in [Jobs -> Nat]
  BY DEF TypeOK, TableOK, WorkersOK
<1>1. ASSUME NEW j \in Jobs
      PROVE  Debt(j)' <= Debt(j)
  <2>1. \A w \in Workers : Owes(w, j)' => Owes(w, j)
    BY DEF WatchdogWrites, workers, Owes
  <2> QED
    BY <2>1, NoNewDebt
<1>2. ASSUME NEW j \in Jobs, NEW n \in Nat, Covered(n, j)
      PROVE  /\ n + Debt(j)' <= Earned(j)'
             /\ zombies[j] # NotRead => n + 1 + Debt(j)' <= Earned(j)'
  BY <1>1, <1>2, <1>t, DebtTyped, DebtTypedNext DEF Covered, Earned, WatchdogWrites
<1>3. TableCovered'
  <2> SUFFICES ASSUME NEW j \in Jobs
               PROVE  attempts'[j] + Debt(j)' <= Earned(j)'
    BY DEF TableCovered, Covered
  <2>1. CASE zombies[j] = NotRead
    BY <1>2, <1>t, <2>1 DEF WatchdogWrites, DebtInv, TableCovered
  <2>2. CASE zombies[j] # NotRead
    BY <1>2, <1>t, <2>2 DEF WatchdogWrites, AfterReclaim, DebtInv, ZombiesCovered
  <2> QED
    BY <2>1, <2>2
<1>4. SnapshotsCovered'
  BY <1>2, <1>t DEF SnapshotsCovered, Covered, DebtInv, WatchdogWrites, workers
<1>5. ZombiesCovered'
  BY DEF ZombiesCovered, WatchdogWrites
<1>6. DeadLetterEarned'
  BY <1>t DEF DeadLetterEarned, DebtInv, WatchdogWrites
<1> QED
  BY <1>3, <1>4, <1>5, <1>6 DEF DebtInv

\* The invariant is preserved by every step.
LEMMA DebtInductive ==
  ASSUME TypeOK, DebtInv, [Next]_vars
  PROVE  DebtInv'
<1> USE JobsAssumption, BoundsAssumption
<1>n. TypeOK'
  BY TypeInductive
<1>t. /\ status \in [Jobs -> Statuses] /\ attempts \in [Jobs -> Nat]
      /\ pc \in [Workers -> Places] /\ held \in [Workers -> Jobs \union {NoJob}]
      /\ seen \in [Workers -> [status : Statuses, attempts : Nat, locked : BOOLEAN]]
      /\ zombies \in [Jobs -> Nat \union {NotRead}]
      /\ \A w \in Workers : pc[w] \in Engaged => held[w] \in Jobs
  BY DEF TypeOK, TableOK, WorkersOK
<1> DEFINE
  NobodyOwes == \A w \in Workers, j \in Jobs : Owes(w, j)' => Owes(w, j)
  ReadFromTable ==
    \A w \in Workers : pc'[w] = "recording" =>
      \/ pc[w] = "recording" /\ seen'[w] = seen[w] /\ held'[w] = held[w]
      \/ seen'[w].attempts = attempts[held'[w]]
  Quiet ==
    /\ UNCHANGED <<attempts, failures, reclaims>>
    /\ NobodyOwes /\ ReadFromTable
    /\ \A j \in Jobs : zombies'[j] \in {NotRead, zombies[j], attempts[j]}
    /\ \A j \in Jobs : status'[j] = "DLQ" => status[j] = "DLQ"
<1>q. Quiet => DebtInv'
  BY <1>n, QuietStep
<1> USE DEF Owes
<1>1. ASSUME NEW c \in Callers, Enqueue(c)
      PROVE  DebtInv'
  <2>1. Quiet
    BY <1>1, <1>t DEF Enqueue, CheckDuplicate, Insert, InsertFails, rows, workers, history
  <2> QED
    BY <2>1, <1>q
<1>2. ASSUME NEW w \in Workers, NEW j \in Jobs, Select(w, j)
      PROVE  DebtInv'
  <2>1. Quiet
    BY <1>2, <1>t DEF Select, ReadRow, rows, history
  <2> QED
    BY <2>1, <1>q
<1>3. ASSUME NEW w \in Workers, Acquire(w)
      PROVE  DebtInv'
  <2>1. Quiet
    BY <1>3, <1>t DEF Acquire, SetStatus, MoveTo, history
  <2> QED
    BY <2>1, <1>q
<1>4. ASSUME NEW w \in Workers, HandlerSucceeds(w)
      PROVE  DebtInv'
  <2>1. Quiet
    BY <1>4, <1>t DEF HandlerSucceeds, MoveTo, rows
  <2> QED
    BY <2>1, <1>q
<1>5. ASSUME NEW w \in Workers, HandlerFails(w) \/ MarkDoneFails(w)
      PROVE  DebtInv'
  BY <1>5, RaiseKeepsDebtInv DEF HandlerFails, MarkDoneFails
<1>6. ASSUME NEW w \in Workers, ReadDone(w)
      PROVE  DebtInv'
  <2>1. Quiet
    BY <1>6, <1>t DEF ReadDone, ReadRow, rows, history
  <2> QED
    BY <2>1, <1>q
<1>7. ASSUME NEW w \in Workers, ReadFailed(w)
      PROVE  DebtInv'
  <2>1. Quiet
    BY <1>7, <1>t DEF ReadFailed, ReadRow, Row, rows, history, Engaged
  <2> QED
    BY <2>1, <1>q
<1>8. ASSUME NEW w \in Workers, WriteDone(w)
      PROVE  DebtInv'
  <2>1. Quiet
    BY <1>8, <1>t DEF WriteDone, SetStatus, Release, MoveTo, history
  <2> QED
    BY <2>1, <1>q
<1>9. ASSUME NEW w \in Workers, WriteFailed(w)
      PROVE  DebtInv'
  BY <1>9, WriteFailedKeepsDebtInv
<1>10. ASSUME NEW w \in Workers,
              AcquireFails(w) \/ MarkFailedFails(w) \/ Crash(w) \/ Restart(w)
       PROVE  DebtInv'
  <2>1. Quiet
    BY <1>10, <1>t
    DEF AcquireFails, MarkFailedFails, Crash, Restart, Release, MoveTo, rows, history
  <2> QED
    BY <2>1, <1>q
<1>11. CASE WatchdogReads \/ Tick
  <2>1. Quiet
    BY <1>11, <1>t DEF WatchdogReads, Tick, rows, workers, history
  <2> QED
    BY <2>1, <1>q
<1>12. CASE WatchdogWrites
  BY <1>12, ReclaimKeepsDebtInv
<1>13. CASE UNCHANGED vars
  <2>1. Quiet
    BY <1>13, <1>t DEF vars, rows, workers, history
  <2> QED
    BY <2>1, <1>q
<1> QED
  BY <1>1, <1>2, <1>3, <1>4, <1>5, <1>6, <1>7, <1>8, <1>9, <1>10, <1>11, <1>12, <1>13
  DEF Next, WorkerStep, WorkerFault

\* However the processes overlap, a job is in the dead letter queue only after
\* max_attempts of its runs failed or were given up by the watchdog.
THEOREM DeadLettersAreEarned == Spec => []DeadLetterEarned
<1>1. Init => DebtInv
  <2> SUFFICES ASSUME Init PROVE DebtInv
    OBVIOUS
  <2>1. ASSUME NEW j \in Jobs
        PROVE  Debt(j) = 0
    <3>1. Debtors(j) = {}
      BY DEF Init, Debtors, Owes
    <3> QED
      BY <3>1, FS_EmptySet DEF Debt
  <2> QED
    BY <2>1, BoundsAssumption
    DEF Init, DebtInv, TableCovered, SnapshotsCovered, ZombiesCovered, Covered,
        Earned, DeadLetterEarned
<1>2. DebtInv => DeadLetterEarned
  BY DEF DebtInv
<1> QED
  BY <1>1, <1>2, TypeCorrect, DebtInductive, PTL DEF Spec

-----------------------------------------------------------------------------
(* One process, no watchdog, and one enqueue at a time: the service run as *)
(* one process, which is how a developer starts it. What a worker read of  *)
(* a row stays true until it writes the row, so the job in its hand stays  *)
(* RUNNING, and the queue takes no step that the ledger has no name for.   *)

OneWorker == \A v, w \in Workers : v = w
OneCaller == \A c, d \in Callers : c = d
NoWatchdog == MaxReclaims = 0

Handling == {"running", "succeeded", "completing", "failed", "recording"}
Reading == {"selected", "completing", "recording"}

HandIsFresh ==
  \A w \in Workers :
    /\ pc[w] = "selected" => Active(held[w])
    /\ pc[w] \in Handling => status[held[w]] = "RUNNING"
    /\ pc[w] \in Reading => /\ seen[w].status = status[held[w]]
                            /\ seen[w].attempts = attempts[held[w]]

\* A job that is open has tries left; one that nobody has inserted has had none.
TriesAreLeft ==
  \A j \in Jobs : /\ status[j] = "ABSENT" => attempts[j] = 0
                  /\ Active(j) => attempts[j] < MaxAttempts

SoloInv ==
  /\ \A j \in Jobs : zombies[j] = NotRead
  /\ HandIsFresh
  /\ TriesAreLeft
  /\ RunningIsReclaimable

LEMMA SoloInit == Init => SoloInv
BY BoundsAssumption DEF Init, SoloInv, HandIsFresh, TriesAreLeft, RunningIsReclaimable, Active,
   Handling, Reading, BoundsAssumption

\* Steps of the worker: as there is no other, the hands of the others are nobody's.
LEMMA SoloWorkerKeeps ==
  ASSUME OneWorker, TypeOK, SoloInv, NEW w \in Workers,
         WorkerStep(w) \/ WorkerFault(w) \/ Restart(w)
  PROVE  SoloInv'
<1>t. /\ status \in [Jobs -> Statuses] /\ attempts \in [Jobs -> Nat]
      /\ lockAge \in [Jobs -> Null..OldestLock]
      /\ pc \in [Workers -> Places] /\ held \in [Workers -> Jobs \union {NoJob}]
      /\ pc[w] \in Engaged => held[w] \in Jobs
      /\ seen \in [Workers -> [status : Statuses, attempts : Nat, locked : BOOLEAN]]
      /\ stamp[w] \in 0..OldestLock
      /\ MaxAttempts \in Nat \ {0}
  BY BoundsAssumption DEF TypeOK, TableOK, WorkersOK, BoundsAssumption
<1>o. \A v \in Workers : v = w
  BY DEF OneWorker
<1> DEFINE Kept == UNCHANGED <<status, attempts, lockAge>>
<1>z. \A j \in Jobs : zombies'[j] = NotRead
  BY DEF SoloInv, WorkerStep, WorkerFault, Restart, Select, Acquire, HandlerSucceeds,
         HandlerFails, Raise, ReadDone, WriteDone, ReadFailed, WriteFailed, AcquireFails,
         MarkDoneFails, MarkFailedFails, Crash
<1>k. Kept => TriesAreLeft' /\ RunningIsReclaimable'
  BY DEF SoloInv, TriesAreLeft, RunningIsReclaimable, Active
<1>1. ASSUME NEW j \in Jobs, Select(w, j) PROVE SoloInv'
  <2>1. Kept /\ Active(j)
    BY <1>1 DEF Select, rows, Eligible, Active
  <2>2. pc'[w] = "selected" /\ held'[w] = j /\ seen'[w] = Row(j)
    BY <1>1, <1>t DEF Select, ReadRow
  <2>3. HandIsFresh'
    BY <1>o, <2>1, <2>2 DEF HandIsFresh, Handling, Row, Active
  <2> QED
    BY <1>z, <1>k, <2>1, <2>3 DEF SoloInv
<1>2. CASE Acquire(w)
  <2>1. /\ held[w] \in Jobs /\ Active(held[w])
        /\ seen[w].status = status[held[w]]
    BY <1>2, <1>t DEF Acquire, Engaged, SoloInv, HandIsFresh, Reading
  <2>2. /\ status' = [status EXCEPT ![held[w]] = "RUNNING"]
        /\ lockAge' = [lockAge EXCEPT ![held[w]] = stamp[w]]
        /\ UNCHANGED <<attempts, held>>
        /\ pc'[w] = "running"
    BY <1>2, <1>t, <2>1 DEF Acquire, SetStatus, MoveTo
  <2>3. HandIsFresh'
    BY <1>o, <1>t, <2>1, <2>2 DEF HandIsFresh, Reading
  <2>4. TriesAreLeft'
    BY <1>t, <2>1, <2>2 DEF SoloInv, TriesAreLeft, Active
  <2>5. RunningIsReclaimable'
    BY <1>t, <2>1, <2>2 DEF SoloInv, RunningIsReclaimable, OldestLock
  <2> QED
    BY <1>z, <2>3, <2>4, <2>5 DEF SoloInv
<1>3. CASE HandlerSucceeds(w) \/ HandlerFails(w) \/ MarkDoneFails(w)
  <2>1. Kept /\ held' = held /\ pc[w] \in Handling
    BY <1>3 DEF HandlerSucceeds, HandlerFails, MarkDoneFails, Raise, rows, Handling
  <2>2. pc'[w] \in {"succeeded", "failed"}
    BY <1>3, <1>t DEF HandlerSucceeds, HandlerFails, MarkDoneFails, Raise, MoveTo
  <2>3. HandIsFresh'
    BY <1>o, <2>1, <2>2 DEF SoloInv, HandIsFresh, Reading
  <2> QED
    BY <1>z, <1>k, <2>1, <2>3 DEF SoloInv
<1>4. CASE ReadDone(w) \/ ReadFailed(w)
  <2>1. Kept /\ status[held[w]] = "RUNNING"
    BY <1>4 DEF ReadDone, ReadFailed, rows, SoloInv, HandIsFresh, Handling
  <2>2. /\ pc'[w] \in {"completing", "recording"}
        /\ held'[w] = held[w] /\ seen'[w] = Row(held[w])
    BY <1>4, <1>t DEF ReadDone, ReadFailed, ReadRow
  <2>3. HandIsFresh'
    BY <1>o, <2>1, <2>2 DEF HandIsFresh, Row
  <2> QED
    BY <1>z, <1>k, <2>1, <2>3 DEF SoloInv
<1>5. ASSUME pc'[w] \in {"idle", "stopped", "down"} PROVE HandIsFresh'
  BY <1>o, <1>5 DEF HandIsFresh, Handling, Reading
<1>6. CASE WriteDone(w)
  <2>1. /\ held[w] \in Jobs /\ status[held[w]] = "RUNNING"
        /\ seen[w].status = status[held[w]]
    BY <1>6, <1>t DEF WriteDone, Engaged, SoloInv, HandIsFresh, Reading, Handling
  <2>2. /\ status' = [status EXCEPT ![held[w]] = "DONE"]
        /\ UNCHANGED <<attempts, lockAge>> /\ pc'[w] = "idle"
    BY <1>6, <1>t, <2>1 DEF WriteDone, SetStatus, Release, MoveTo
  <2>3. TriesAreLeft' /\ RunningIsReclaimable'
    BY <1>t, <2>1, <2>2 DEF SoloInv, TriesAreLeft, RunningIsReclaimable, Active
  <2> QED
    BY <1>z, <1>5, <2>2, <2>3 DEF SoloInv
<1>7. CASE WriteFailed(w)
  <2> DEFINE tries == attempts[held[w]] + 1
             fate == FateAfter(tries)
  <2>1. /\ held[w] \in Jobs /\ status[held[w]] = "RUNNING"
        /\ seen[w].status = "RUNNING" /\ seen[w].attempts = attempts[held[w]]
    BY <1>7, <1>t DEF WriteFailed, Engaged, SoloInv, HandIsFresh, Reading, Handling
  <2>2. fate \in {"PENDING", "DLQ"} /\ (fate = "PENDING" => tries < MaxAttempts)
    BY <1>t, <2>1 DEF FateAfter
  <2>3. /\ attempts' = [attempts EXCEPT ![held[w]] = tries]
        /\ status' = [status EXCEPT ![held[w]] = fate]
        /\ lockAge' \in {lockAge, [lockAge EXCEPT ![held[w]] = Null]}
        /\ pc'[w] = "idle"
    BY <1>7, <1>t, <2>1, <2>2 DEF WriteFailed, SetStatus, Release, MoveTo
  <2> HIDE DEF tries, fate
  <2>4. TriesAreLeft'
    BY <1>t, <2>1, <2>2, <2>3 DEF SoloInv, TriesAreLeft, Active
  <2>5. RunningIsReclaimable'
    BY <1>t, <2>1, <2>2, <2>3 DEF SoloInv, RunningIsReclaimable
  <2> QED
    BY <1>z, <1>5, <2>3, <2>4, <2>5 DEF SoloInv
<1>8. CASE AcquireFails(w) \/ MarkFailedFails(w) \/ Crash(w) \/ Restart(w)
  <2>1. Kept
    BY <1>8 DEF AcquireFails, MarkFailedFails, Crash, Restart, rows
  <2>2. pc'[w] \in {"idle", "stopped", "down"}
    BY <1>8, <1>t DEF AcquireFails, MarkFailedFails, Crash, Restart, Release, MoveTo
  <2> QED
    BY <1>z, <1>k, <1>5, <2>1, <2>2 DEF SoloInv
<1> QED
  BY <1>1, <1>2, <1>3, <1>4, <1>6, <1>7, <1>8 DEF WorkerStep, WorkerFault

\* Steps of the callers, of the watchdog and of the clock.
LEMMA SoloRestKeeps ==
  ASSUME NoWatchdog, TypeOK, SoloInv,
         (\E c \in Callers : Enqueue(c)) \/ WatchdogReads \/ WatchdogWrites \/ Tick
  PROVE  SoloInv'
<1>t. /\ status \in [Jobs -> Statuses] /\ attempts \in [Jobs -> Nat]
      /\ lockAge \in [Jobs -> Null..OldestLock]
      /\ held \in [Workers -> Jobs \union {NoJob}]
      /\ reclaims \in [Jobs -> Nat]
      /\ \A w \in Workers : pc[w] \in Engaged => held[w] \in Jobs
      /\ MaxAttempts \in Nat \ {0}
  BY BoundsAssumption DEF TypeOK, TableOK, WorkersOK, BoundsAssumption
<1>1. ASSUME NEW c \in Callers,
             (\E k \in Keys : CheckDuplicate(c, k)) \/ InsertFails(c)
      PROVE  SoloInv'
  BY <1>1 DEF CheckDuplicate, InsertFails, rows, workers, SoloInv, HandIsFresh, TriesAreLeft,
              RunningIsReclaimable, Active
<1>2. ASSUME NEW c \in Callers, NEW j \in Jobs, Insert(c, j) PROVE SoloInv'
  <2>1. /\ status[j] = "ABSENT" /\ status' = [status EXCEPT ![j] = "PENDING"]
        /\ UNCHANGED <<attempts, lockAge, pc, held, seen, zombies>>
    BY <1>2 DEF Insert, workers
  <2>2. \A w \in Workers : pc[w] \in Handling \union Reading => held[w] # j /\ held[w] \in Jobs
    BY <1>t, <2>1 DEF SoloInv, HandIsFresh, Active, Engaged, Handling, Reading
  <2>3. HandIsFresh'
    BY <1>t, <2>1, <2>2 DEF SoloInv, HandIsFresh, Active, Handling, Reading
  <2>4. TriesAreLeft' /\ RunningIsReclaimable'
    BY <1>t, <2>1 DEF SoloInv, TriesAreLeft, RunningIsReclaimable, Active
  <2> QED
    BY <2>1, <2>3, <2>4 DEF SoloInv
<1>3. ~WatchdogReads
  BY <1>t DEF WatchdogReads, Zombie, NoWatchdog
<1>4. ~WatchdogWrites
  BY DEF WatchdogWrites, SoloInv
<1>5. CASE Tick
  <2>1. UNCHANGED <<status, attempts, pc, held, seen, zombies>>
    BY <1>5 DEF Tick
  <2>2. \A j \in Jobs : lockAge[j] # Null => lockAge'[j] # Null
    BY <1>5, <1>t DEF Tick, Older, OldestLock
  <2> QED
    BY <2>1, <2>2 DEF SoloInv, HandIsFresh, TriesAreLeft, RunningIsReclaimable, Active
<1> QED
  BY <1>1, <1>2, <1>3, <1>4, <1>5 DEF Enqueue

LEMMA SoloInductive ==
  ASSUME OneWorker, NoWatchdog, TypeOK, SoloInv, [Next]_vars
  PROVE  SoloInv'
<1>1. CASE UNCHANGED vars
  BY <1>1 DEF vars, rows, workers, SoloInv, HandIsFresh, TriesAreLeft, RunningIsReclaimable,
              Active
<1> QED
  BY <1>1, SoloWorkerKeeps, SoloRestKeeps DEF Next

LEMMA SoloInvariant ==
  ASSUME OneWorker, NoWatchdog
  PROVE  Spec => []SoloInv
<1>1. Init => SoloInv
  BY SoloInit
<1>2. TypeOK /\ SoloInv /\ [Next]_vars => SoloInv'
  BY SoloInductive
<1> QED
  BY <1>1, <1>2, TypeCorrect, PTL DEF Spec

\* With one process and no watchdog, whatever crashes and errors there are, a job that is
\* RUNNING has a lock time, by which the next process takes it back. (Of two processes, one
\* may take a lock away that the other has just written.)
THEOREM OneProcessReclaims ==
  ASSUME OneWorker, NoWatchdog
  PROVE  Spec => []RunningIsReclaimable
<1>1. SoloInv => RunningIsReclaimable
  BY DEF SoloInv
<1> QED
  BY <1>1, SoloInvariant, PTL

\* While a caller is between its lookup and its insert, nobody inserts what it asked about.
LookupHolds ==
  \A c \in Callers, j \in Jobs :
    asked[c] \notin {NoCall, NoKey} /\ Active(j) => key[j] # asked[c]

LEMMA LookupInductive ==
  ASSUME OneWorker, OneCaller, NoWatchdog, TypeOK, SoloInv, LookupHolds, [Next]_vars
  PROVE  LookupHolds'
<1>t. /\ status \in [Jobs -> Statuses] /\ asked \in [Callers -> Keys \union {NoCall}]
      /\ key \in [Jobs -> Keys]
      /\ \A w \in Workers : pc[w] \in Engaged => held[w] \in Jobs
  BY DEF TypeOK, TableOK, WorkersOK
<1>1. ASSUME UNCHANGED <<key, asked>>, \A j \in Jobs : Active(j)' => Active(j)
      PROVE  LookupHolds'
  BY <1>1 DEF LookupHolds
<1>2. ASSUME NEW c \in Callers, NEW k \in Keys, CheckDuplicate(c, k) PROVE LookupHolds'
  <2>1. /\ k # NoKey => \A j \in Jobs : Active(j) => key[j] # k
        /\ asked' = [asked EXCEPT ![c] = k]
        /\ UNCHANGED <<status, key>>
    BY <1>2 DEF CheckDuplicate, rows
  <2> QED
    BY <1>t, <2>1 DEF LookupHolds, Active
<1>3. ASSUME NEW c \in Callers, (\E j \in Jobs : Insert(c, j)) \/ InsertFails(c)
      PROVE  LookupHolds'
  <2>1. asked'[c] = NoCall
    BY <1>3, <1>t DEF Insert, InsertFails
  <2> QED
    BY <2>1 DEF LookupHolds, OneCaller
<1>4. ASSUME NEW w \in Workers, WorkerStep(w) \/ WorkerFault(w) \/ Restart(w)
      PROVE  LookupHolds'
  <2>1. UNCHANGED <<key, asked>>
    BY <1>4 DEF WorkerStep, WorkerFault, Restart, Select, Acquire, HandlerSucceeds,
         HandlerFails, Raise, ReadDone, WriteDone, ReadFailed, WriteFailed, AcquireFails,
         MarkDoneFails, MarkFailedFails, Crash, rows
  <2>2. \A j \in Jobs : Active(j)' => Active(j)
    <3>1. CASE Acquire(w)
      <4>1. held[w] \in Jobs /\ Active(held[w])
        BY <1>t, <3>1 DEF Acquire, Engaged, SoloInv, HandIsFresh
      <4> QED
        BY <1>t, <3>1, <4>1 DEF Acquire, SetStatus, Active
    <3>2. CASE WriteDone(w) \/ WriteFailed(w)
      <4>1. held[w] \in Jobs /\ Active(held[w])
        BY <1>t, <3>2 DEF WriteDone, WriteFailed, Engaged, SoloInv, HandIsFresh, Handling, Active
      <4> QED
        BY <1>t, <3>2, <4>1 DEF WriteDone, WriteFailed, SetStatus, Active
    <3>3. CASE status' = status
      BY <3>3 DEF Active
    <3> QED
      BY <1>4, <3>1, <3>2, <3>3
      DEF WorkerStep, WorkerFault, Restart, Select, HandlerSucceeds, HandlerFails, Raise,
          ReadDone, ReadFailed, AcquireFails, MarkDoneFails, MarkFailedFails, Crash, rows
  <2> QED
    BY <1>1, <2>1, <2>2
<1>5. CASE WatchdogReads \/ Tick \/ UNCHANGED vars
  BY <1>1, <1>5 DEF WatchdogReads, Tick, vars, rows, Active
<1>6. ~WatchdogWrites
  BY DEF WatchdogWrites, SoloInv
<1> QED
  BY <1>2, <1>3, <1>4, <1>5, <1>6 DEF Next, Enqueue

\* What a step of the queue is to the ledger.
LEMMA StepOfLedger ==
  ASSUME OneWorker, NoWatchdog, TypeOK, SoloInv, LookupHolds, [Next]_vars
  PROVE  [Ledger!Next]_(Ledger!vars)
<1>t. /\ status \in [Jobs -> Statuses] /\ attempts \in [Jobs -> Nat]
      /\ asked \in [Callers -> Keys \union {NoCall}] /\ key \in [Jobs -> Keys]
      /\ seen \in [Workers -> [status : Statuses, attempts : Nat, locked : BOOLEAN]]
      /\ \A w \in Workers : pc[w] \in Engaged => held[w] \in Jobs
      /\ MaxAttempts \in Nat \ {0}
  BY BoundsAssumption DEF TypeOK, TableOK, WorkersOK, BoundsAssumption
<1>f. \A j \in Jobs : /\ Active(j) <=> Fate[j] = "open"
                      /\ status[j] = "ABSENT" <=> Fate[j] = "absent"
  BY <1>t DEF Fate, Active
<1>s. ASSUME NEW j \in Jobs, NEW new \in Statuses \ {"ABSENT"}, NEW fate,
             fate = IF new = "DONE" THEN "done" ELSE IF new = "DLQ" THEN "dead" ELSE "open",
             status' = [status EXCEPT ![j] = new]
      PROVE  Fate' = [Fate EXCEPT ![j] = fate]
  BY <1>s, <1>t DEF Fate
<1>1. ASSUME status' = status, UNCHANGED <<key, attempts>> PROVE UNCHANGED Ledger!vars
  BY <1>1 DEF Ledger!vars, Fate
<1>2. ASSUME NEW c \in Callers, Enqueue(c) PROVE [Ledger!Next]_(Ledger!vars)
  <2>1. ASSUME NEW j \in Jobs, Insert(c, j) PROVE Ledger!Submit(j, asked[c])
    <3>1. asked[c] \in Keys /\ asked[c] # NoCall
      BY <1>t, <2>1 DEF Insert
    <3>2. asked[c] # NoKey => \A i \in Jobs : Fate[i] = "open" => key[i] # asked[c]
      BY <1>f, <3>1 DEF LookupHolds
    <3>3. Fate' = [Fate EXCEPT ![j] = "open"]
      BY <1>s, <2>1 DEF Insert
    <3> QED
      BY <1>f, <2>1, <3>2, <3>3 DEF Ledger!Submit, Insert
  <2>2. ASSUME NEW j \in Jobs, Insert(c, j) PROVE Ledger!Next
    <3>1. asked[c] \in Keys
      BY <1>t, <2>2 DEF Insert
    <3> QED
      BY <2>1, <2>2, <3>1 DEF Ledger!Next
  <2> QED
    BY <1>1, <1>2, <2>2 DEF Enqueue, CheckDuplicate, InsertFails, rows
<1>3. ASSUME NEW w \in Workers, Acquire(w) PROVE UNCHANGED Ledger!vars
  <2>1. held[w] \in Jobs /\ Active(held[w]) /\ Fate[held[w]] = "open"
    BY <1>3, <1>t, <1>f DEF Acquire, Engaged, SoloInv, HandIsFresh
  <2>2. status' = status \/ status' = [status EXCEPT ![held[w]] = "RUNNING"]
    BY <1>3 DEF Acquire, SetStatus
  <2>3. Fate' = Fate
    <3>1. CASE status' = status
      BY <3>1 DEF Fate
    <3>2. CASE status' = [status EXCEPT ![held[w]] = "RUNNING"]
      BY <1>s, <2>1, <3>2 DEF Fate
    <3> QED
      BY <2>2, <3>1, <3>2
  <2> QED
    BY <1>3, <2>3 DEF Acquire, Ledger!vars
<1>4. ASSUME NEW w \in Workers, WriteDone(w) PROVE Ledger!Next
  <2>1. /\ held[w] \in Jobs /\ Fate[held[w]] = "open"
        /\ seen[w].status = "RUNNING"
    BY <1>4, <1>t, <1>f
    DEF WriteDone, Engaged, SoloInv, HandIsFresh, Handling, Reading, Active
  <2>2. Fate' = [Fate EXCEPT ![held[w]] = "done"]
    BY <1>4, <1>s, <2>1 DEF WriteDone, SetStatus
  <2>3. Ledger!Finish(held[w])
    BY <1>4, <2>1, <2>2 DEF Ledger!Finish, WriteDone
  <2> QED
    BY <2>1, <2>3 DEF Ledger!Next
<1>5. ASSUME NEW w \in Workers, WriteFailed(w) PROVE Ledger!Next
  <2> DEFINE j == held[w]
             tries == attempts[j] + 1
  <2>1. /\ j \in Jobs /\ Fate[j] = "open" /\ attempts[j] < MaxAttempts
        /\ seen[w].status = "RUNNING" /\ seen[w].attempts = attempts[j]
    BY <1>5, <1>t, <1>f
    DEF WriteFailed, Engaged, SoloInv, HandIsFresh, TriesAreLeft, Handling, Reading, Active
  <2>2. FateAfter(tries) = IF tries = MaxAttempts THEN "DLQ" ELSE "PENDING"
    <3>1. tries >= MaxAttempts <=> tries = MaxAttempts
      BY <1>t, <2>1
    <3> QED
      BY <3>1 DEF FateAfter
  <2>3. /\ attempts' = [attempts EXCEPT ![j] = tries] /\ key' = key
        /\ status' = [status EXCEPT ![j] = FateAfter(tries)]
    BY <1>5, <2>1, <2>2 DEF WriteFailed, SetStatus
  <2>4. Fate' = IF tries = MaxAttempts THEN [Fate EXCEPT ![j] = "dead"] ELSE Fate
    <3> HIDE DEF tries
    <3>1. CASE tries = MaxAttempts
      BY <1>s, <2>1, <2>2, <2>3, <3>1
    <3>2. CASE tries # MaxAttempts
      <4>1. Fate' = [Fate EXCEPT ![j] = "open"]
        BY <1>s, <2>1, <2>2, <2>3, <3>2
      <4> QED
        BY <2>1, <3>2, <4>1 DEF Fate
    <3> QED
      BY <3>1, <3>2
  <2>5. Ledger!Strike(j)
    BY <2>1, <2>3, <2>4 DEF Ledger!Strike
  <2> QED
    BY <2>1, <2>5 DEF Ledger!Next
<1>6. ~WatchdogWrites
  BY DEF WatchdogWrites, SoloInv
<1>7. CASE WatchdogReads \/ Tick \/ UNCHANGED vars
  BY <1>1, <1>7 DEF WatchdogReads, Tick, vars, rows
<1>8. ASSUME NEW w \in Workers, WorkerStep(w) \/ WorkerFault(w) \/ Restart(w),
             ~Acquire(w), ~WriteDone(w), ~WriteFailed(w)
      PROVE  UNCHANGED Ledger!vars
  BY <1>1, <1>8
  DEF WorkerStep, WorkerFault, Restart, Select, HandlerSucceeds, HandlerFails, Raise,
      ReadDone, ReadFailed, AcquireFails, MarkDoneFails, MarkFailedFails, Crash, rows
<1> QED
  BY <1>2, <1>3, <1>4, <1>5, <1>6, <1>7, <1>8 DEF Next

\* With one process, no watchdog and one enqueue at a time, every step of the queue is one
\* that the ledger names, or none at all to it: a submission, a success or a failed run.
\* Crashes and database errors lose none of these. (That every open job is some day run is
\* the ledger's fairness, which is left to the runs.)
THEOREM OneProcessKeepsLedger ==
  ASSUME OneWorker, OneCaller, NoWatchdog
  PROVE  Spec => Ledger!Init /\ [][Ledger!Next]_(Ledger!vars)
<1>1. Init => Ledger!Init /\ LookupHolds
  BY DEF Init, Ledger!Init, Fate, LookupHolds
<1>2. TypeOK /\ SoloInv /\ LookupHolds /\ [Next]_vars
        => LookupHolds' /\ [Ledger!Next]_(Ledger!vars)
  BY LookupInductive, StepOfLedger
<1> QED
  BY <1>1, <1>2, TypeCorrect, SoloInvariant, PTL DEF Spec

=============================================================================
