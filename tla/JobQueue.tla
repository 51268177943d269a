------------------------------ MODULE JobQueue ------------------------------
(***************************************************************************)
(* The background job queue of apps/api/app/core/queue.py: a table of jobs *)
(* (apps/api/app/models/job.py), the callers that enqueue into it, the     *)
(* worker loop that every API process runs, and the zombie watchdog.       *)
(*                                                                         *)
(* Every database session of the code is one read of a row and one later   *)
(* write, with other sessions in between; the write sends only the columns *)
(* whose value differs from the row as it was read (the ORM's dirty        *)
(* tracking), which is why a worker keeps the snapshot it read in seen.    *)
(*                                                                         *)
(* Time is relative: wait is run_at minus now, lockAge is now minus        *)
(* locked_at, and Tick moves both.                                         *)
(***************************************************************************)
EXTENDS Integers, FiniteSets

CONSTANTS
  Jobs,          \* ids of the rows that may ever be inserted
  Workers,       \* processes, each running one worker_loop
  Callers,       \* threads that call enqueue: schedulers, handlers, requests
  Keys,          \* dedupe ids, NoKey among them for calls that pass none
  NoKey,
  NoCall,        \* the caller is not inside enqueue
  NoJob,
  MaxAttempts,   \* column max_attempts
  LeaseTicks,    \* five_mins_ago, in ticks
  ZombieTicks,   \* stale_threshold of the watchdog, in ticks
  MaxLate,       \* bound: how overdue a job's run_at is remembered to be
  MaxFailures,   \* bound: failing runs per job
  MaxFaults,     \* bound: crashes and database errors
  FaultKinds,    \* which of AllFaults may happen
  MaxReclaims    \* bound: watchdog reclaims per job; 0 when run_watchdog is
                 \* not started, as in main.py

AllFaults == {"crash", "insert", "acquire", "done", "record"}

ASSUME KeysAssumption == NoKey \in Keys /\ NoCall \notin Keys
ASSUME JobsAssumption == NoJob \notin Jobs /\ IsFiniteSet(Workers)
ASSUME BoundsAssumption ==
  /\ MaxAttempts \in Nat \ {0}
  /\ LeaseTicks \in Nat /\ ZombieTicks \in Nat /\ LeaseTicks <= ZombieTicks
  /\ MaxLate \in Nat /\ MaxFailures \in Nat /\ MaxFaults \in Nat
  /\ FaultKinds \subseteq AllFaults
  /\ MaxReclaims \in Nat
\* The retry delay of every attempt is a natural number of seconds.
ASSUME BackoffAssumption == \A n \in 1..MaxAttempts : 2^n \in Nat

VARIABLES
  \* the jobs table, one function per column
  status, key, wait, attempts, lockAge,
  \* the workers: control state, job in hand, row as read, age of that read
  pc, held, seen, stamp,
  \* the callers: the dedupe id of the enqueue they are in the middle of
  asked,
  \* the watchdog: attempts of the rows it read as zombies
  zombies,
  \* history: runs that returned, runs that raised, watchdog reclaims, faults
  succeeded, failures, reclaims, faults

rows    == <<status, key, wait, attempts, lockAge>>
workers == <<pc, held, seen, stamp>>
history == <<succeeded, failures, reclaims>>
vars    == <<rows, workers, asked, zombies, history, faults>>

Statuses == {"ABSENT", "PENDING", "RUNNING", "DONE", "DLQ"}
Null == -1                     \* locked_at IS NULL
NotRead == -1                  \* the watchdog did not read this row
OldestLock == ZombieTicks + 1  \* lock ages saturate here

NoRow  == [status |-> "ABSENT", attempts |-> 0, locked |-> FALSE]
Row(j) == [status |-> status[j], attempts |-> attempts[j],
           locked |-> lockAge[j] # Null]

Init ==
  /\ status = [j \in Jobs |-> "ABSENT"]
  /\ key = [j \in Jobs |-> NoKey]
  /\ wait = [j \in Jobs |-> 0]
  /\ attempts = [j \in Jobs |-> 0]
  /\ lockAge = [j \in Jobs |-> Null]
  /\ pc = [w \in Workers |-> "idle"]
  /\ held = [w \in Workers |-> NoJob]
  /\ seen = [w \in Workers |-> NoRow]
  /\ stamp = [w \in Workers |-> 0]
  /\ asked = [c \in Callers |-> NoCall]
  /\ zombies = [j \in Jobs |-> NotRead]
  /\ succeeded = {}
  /\ failures = [j \in Jobs |-> 0]
  /\ reclaims = [j \in Jobs |-> 0]
  /\ faults = 0

\* An injected fault of one kind, out of the run's budget.
Fault(kind) ==
  /\ kind \in FaultKinds
  /\ faults < MaxFaults
  /\ faults' = faults + 1

-----------------------------------------------------------------------------
(* enqueue                                                                 *)

Active(j) == status[j] \in {"PENDING", "RUNNING"}

\* The duplicate lookup found nothing; when it finds a job the call returns
\* its id and changes nothing.
CheckDuplicate(c, k) ==
  /\ asked[c] = NoCall
  /\ k # NoKey => \A j \in Jobs : Active(j) => key[j] # k
  /\ asked' = [asked EXCEPT ![c] = k]
  /\ UNCHANGED <<rows, workers, zombies, history, faults>>

\* The insert of the new row, in a statement of its own.
Insert(c, j) ==
  /\ asked[c] # NoCall
  /\ status[j] = "ABSENT"
  /\ status' = [status EXCEPT ![j] = "PENDING"]
  /\ key' = [key EXCEPT ![j] = asked[c]]
  /\ wait' = [wait EXCEPT ![j] = 0]
  /\ asked' = [asked EXCEPT ![c] = NoCall]
  /\ UNCHANGED <<attempts, lockAge, workers, zombies, history, faults>>

\* A database error: rollback, and the caller gets None.
InsertFails(c) ==
  /\ asked[c] # NoCall
  /\ Fault("insert")
  /\ asked' = [asked EXCEPT ![c] = NoCall]
  /\ UNCHANGED <<rows, workers, zombies, history>>

-----------------------------------------------------------------------------
(* _acquire_job                                                            *)

Eligible(j) ==
  \/ status[j] = "PENDING" /\ wait[j] <= 0
  \/ status[j] = "RUNNING" /\ lockAge[j] > LeaseTicks

\* Move a worker; what it read and how long ago is dropped.
MoveTo(w, place) ==
  /\ pc' = [pc EXCEPT ![w] = place]
  /\ seen' = [seen EXCEPT ![w] = NoRow]
  /\ stamp' = [stamp EXCEPT ![w] = 0]

Release(w, place) ==
  /\ MoveTo(w, place)
  /\ held' = [held EXCEPT ![w] = NoJob]

ReadRowForgetsJob(w, j, place) == MoveTo(w, place) /\ UNCHANGED held

\* Move a worker that has just read the row of job j.
ReadRow(w, j, place) ==
  /\ pc' = [pc EXCEPT ![w] = place]
  /\ held' = [held EXCEPT ![w] = j]
  /\ seen' = [seen EXCEPT ![w] = Row(j)]
  /\ stamp' = [stamp EXCEPT ![w] = 0]

\* The write of the status column by a worker that has read the row: it is
\* sent only if the row was read with another status.
SetStatus(w, new) ==
  status' = IF seen[w].status = new THEN status
            ELSE [status EXCEPT ![held[w]] = new]

\* The SELECT: the eligible job with the earliest run_at.
Select(w, j) ==
  /\ pc[w] = "idle"
  /\ Eligible(j)
  /\ \A i \in Jobs : Eligible(i) => wait[j] <= wait[i]
  /\ ReadRow(w, j, "selected")
  /\ UNCHANGED <<rows, asked, zombies, history, faults>>

\* The UPDATE; locked_at is the time that was taken before the SELECT.
Acquire(w) ==
  /\ pc[w] = "selected"
  /\ SetStatus(w, "RUNNING")
  /\ lockAge' = [lockAge EXCEPT ![held[w]] = stamp[w]]
  /\ MoveTo(w, "running")
  /\ UNCHANGED <<key, wait, attempts, held, asked, zombies, history, faults>>

AcquireFails(w) ==
  /\ pc[w] = "selected"
  /\ Fault("acquire")
  /\ Release(w, "idle")
  /\ UNCHANGED <<rows, asked, zombies, history>>

-----------------------------------------------------------------------------
(* worker_loop: the handler runs, then its outcome is recorded             *)

HandlerSucceeds(w) ==
  /\ pc[w] = "running"
  /\ MoveTo(w, "succeeded")
  /\ succeeded' = succeeded \union {held[w]}
  /\ UNCHANGED <<rows, held, asked, zombies, failures, reclaims, faults>>

Raise(w) ==
  /\ failures[held[w]] < MaxFailures
  /\ failures' = [failures EXCEPT ![held[w]] = @ + 1]
  /\ MoveTo(w, "failed")
  /\ UNCHANGED <<rows, held, asked, zombies, succeeded, reclaims>>

HandlerFails(w) ==
  /\ pc[w] = "running"
  /\ Raise(w)
  /\ UNCHANGED faults

ReadDoneInFinally(w) ==
  /\ pc[w] \in {"succeeded", "failed"}
  /\ ReadRow(w, held[w], "completing")
  /\ UNCHANGED <<rows, asked, zombies, history, faults>>

\* _mark_done: nobody checks that this worker still holds the lock.
ReadDone(w) ==
  /\ pc[w] = "succeeded"
  /\ ReadRow(w, held[w], "completing")
  /\ UNCHANGED <<rows, asked, zombies, history, faults>>

WriteDone(w) ==
  /\ pc[w] = "completing"
  /\ SetStatus(w, "DONE")
  /\ Release(w, "idle")
  /\ UNCHANGED <<key, wait, attempts, lockAge, asked, zombies, history, faults>>

\* _mark_done is inside the try: its error counts as the handler's.
MarkDoneFails(w) ==
  /\ pc[w] \in {"succeeded", "completing"}
  /\ Fault("done")
  /\ Raise(w)

\* _mark_failed
ReadFailed(w) ==
  /\ pc[w] = "failed"
  /\ ReadRow(w, held[w], "recording")
  /\ UNCHANGED <<rows, asked, zombies, history, faults>>

FateAfterForgetsRetry(tries) == IF tries >= MaxAttempts THEN "DLQ" ELSE "RUNNING"
FateAfterTooLate(tries) == IF tries > MaxAttempts THEN "DLQ" ELSE "PENDING"
FateAfterTooEarly(tries) == IF tries + 1 >= MaxAttempts THEN "DLQ" ELSE "PENDING"
FateAfter(tries) == IF tries >= MaxAttempts THEN "DLQ" ELSE "PENDING"

WriteFailed(w) ==
  LET j == held[w]
      tries == seen[w].attempts + 1
      fate == FateAfter(tries) IN
  /\ pc[w] = "recording"
  /\ attempts' = [attempts EXCEPT ![j] = tries]
  /\ SetStatus(w, fate)
  /\ wait' = IF fate = "DLQ" THEN wait ELSE [wait EXCEPT ![j] = 2^tries]
  /\ lockAge' = IF fate = "DLQ" \/ ~seen[w].locked THEN lockAge
                ELSE [lockAge EXCEPT ![j] = Null]
  /\ Release(w, "idle")
  /\ UNCHANGED <<key, asked, zombies, history, faults>>

\* _mark_failed runs in the except block: its own error ends the loop's task.
MarkFailedFails(w) ==
  /\ pc[w] \in {"failed", "recording"}
  /\ Fault("record")
  /\ Release(w, "stopped")
  /\ UNCHANGED <<rows, asked, zombies, history>>

-----------------------------------------------------------------------------
(* The process, the watchdog and the clock                                 *)

Crash(w) ==
  /\ pc[w] # "down"
  /\ Fault("crash")
  /\ Release(w, "down")
  /\ UNCHANGED <<rows, asked, zombies, history>>

Restart(w) ==
  /\ pc[w] = "down"
  /\ Release(w, "idle")
  /\ UNCHANGED <<rows, asked, zombies, history, faults>>

\* run_watchdog reads every RUNNING row whose lock is old ...
Zombie(j) ==
  /\ status[j] = "RUNNING" /\ lockAge[j] > ZombieTicks
  /\ reclaims[j] < MaxReclaims

WatchdogReads ==
  /\ \A j \in Jobs : zombies[j] = NotRead
  /\ \E j \in Jobs : Zombie(j)
  /\ zombies' = [j \in Jobs |-> IF Zombie(j) THEN attempts[j] ELSE NotRead]
  /\ UNCHANGED <<rows, workers, asked, history, faults>>

AfterReclaim(tries) == tries + 1

\* ... and puts them back, whatever their number of attempts.
WatchdogWrites ==
  LET read == {j \in Jobs : zombies[j] # NotRead} IN
  /\ read # {}
  /\ status' = [j \in Jobs |-> IF j \in read THEN "PENDING" ELSE status[j]]
  /\ lockAge' = [j \in Jobs |-> IF j \in read THEN Null ELSE lockAge[j]]
  /\ attempts' = [j \in Jobs |-> IF j \in read THEN AfterReclaim(zombies[j]) ELSE attempts[j]]
  /\ reclaims' = [j \in Jobs |-> IF j \in read THEN reclaims[j] + 1 ELSE reclaims[j]]
  /\ zombies' = [j \in Jobs |-> NotRead]
  /\ UNCHANGED <<key, wait, workers, asked, succeeded, failures, faults>>

Older(age) == IF age = Null \/ age = OldestLock THEN age ELSE age + 1

Tick ==
  /\ wait' = [j \in Jobs |-> IF status[j] = "ABSENT" \/ wait[j] <= -MaxLate
                             THEN wait[j] ELSE wait[j] - 1]
  /\ lockAge' = [j \in Jobs |-> Older(lockAge[j])]
  /\ stamp' = [w \in Workers |-> IF pc[w] = "selected" THEN Older(stamp[w])
                                 ELSE stamp[w]]
  /\ UNCHANGED <<status, key, attempts, pc, held, seen, asked, zombies,
                 history, faults>>

-----------------------------------------------------------------------------

Enqueue(c) ==
  \/ \E k \in Keys : CheckDuplicate(c, k)
  \/ \E j \in Jobs : Insert(c, j)
  \/ InsertFails(c)

\* What a worker does of itself, without faults: a step of these is always
\* taken by a live process whose handlers return.
WorkerStep(w) ==
  \/ \E j \in Jobs : Select(w, j)
  \/ Acquire(w)
  \/ HandlerSucceeds(w) \/ HandlerFails(w)
  \/ ReadDone(w) \/ WriteDone(w)
  \/ ReadFailed(w) \/ WriteFailed(w)

WorkerFault(w) ==
  AcquireFails(w) \/ MarkDoneFails(w) \/ MarkFailedFails(w) \/ Crash(w)

Next ==
  \/ \E c \in Callers : Enqueue(c)
  \/ \E w \in Workers : WorkerStep(w) \/ WorkerFault(w) \/ Restart(w)
  \/ WatchdogReads \/ WatchdogWrites
  \/ Tick

Spec == Init /\ [][Next]_vars

Fairness ==
  /\ \A w \in Workers : WF_vars(WorkerStep(w)) /\ WF_vars(Restart(w))
  /\ WF_vars(Tick)

FairSpec == Spec /\ Fairness

-----------------------------------------------------------------------------
(* Properties                                                              *)

TableOK ==
  /\ status \in [Jobs -> Statuses]
  /\ key \in [Jobs -> Keys]
  /\ wait \in [Jobs -> Int]
  /\ attempts \in [Jobs -> Nat]
  /\ lockAge \in [Jobs -> Null..OldestLock]

Places == {"idle", "selected", "running", "succeeded", "completing", "failed",
           "recording", "stopped", "down"}

\* Where a worker has a job in hand.
Engaged == {"selected", "running", "succeeded", "completing", "failed", "recording"}

WorkersOK ==
  /\ pc \in [Workers -> Places]
  /\ held \in [Workers -> Jobs \union {NoJob}]
  /\ \A w \in Workers : pc[w] \in Engaged => held[w] \in Jobs
  /\ seen \in [Workers -> [status : Statuses, attempts : Nat, locked : BOOLEAN]]
  /\ stamp \in [Workers -> 0..OldestLock]

\* Type invariant: every column and every local of the queue keeps its type,
\* and a worker that is past the SELECT of _acquire_job has a job in hand.
TypeOK ==
  /\ TableOK
  /\ WorkersOK
  /\ asked \in [Callers -> Keys \union {NoCall}]
  /\ zombies \in [Jobs -> Nat \union {NotRead}]
  /\ succeeded \subseteq Jobs
  /\ failures \in [Jobs -> Nat]
  /\ reclaims \in [Jobs -> Nat]
  /\ faults \in 0..MaxFaults

\* However workers overlap, a job is in the dead letter queue only if at least
\* max_attempts of its runs raised or were given up by the watchdog: no
\* overlap of two _mark_failed counts one failed run twice.
DeadLetterEarned ==
  \A j \in Jobs : status[j] = "DLQ" => failures[j] + reclaims[j] >= MaxAttempts

\* A job is DONE only if some run of its handler returned, although a worker
\* marks it DONE without looking whose lock the row carries.
DoneOnlyAfterSuccess ==
  \A j \in Jobs : status[j] = "DONE" => j \in succeeded

\* A job that is RUNNING carries a lock time, without which neither
\* _acquire_job nor the watchdog would ever take it back after a crash.
RunningIsReclaimable ==
  \A j \in Jobs : status[j] = "RUNNING" => lockAge[j] # Null

\* _acquire_job takes the lock of a job only while that job is still there to
\* be taken: pending and due, or running under an expired lock. The code refutes this with
\* two workers: Select and Acquire are two statements.
AtomicAcquire ==
  [][\A w \in Workers : Acquire(w) => Eligible(held[w])]_vars

\* Every job that is pending or running is some day DONE or dead-lettered.
EveryJobSettles ==
  \A j \in Jobs : Active(j) ~> status[j] \in {"DONE", "DLQ"}

Fate ==
  [j \in Jobs |-> CASE status[j] = "ABSENT" -> "absent"
                    [] status[j] = "DONE" -> "done"
                    [] status[j] = "DLQ" -> "dead"
                    [] OTHER -> "open"]

Ledger == INSTANCE JobLedger WITH fate <- Fate, name <- key, strikes <- attempts

\* The queue implements the ledger: statuses, dedupe ids and attempts change
\* only as a submission, a success or a failed run changes them.
ImplementsLedger == Ledger!Spec

=============================================================================
