------------------------------ MODULE MailSync ------------------------------
(***************************************************************************)
(* How mail comes into a workspace: the incremental sync of a Gmail inbox  *)
(* (core/ingestion/email_ingestor.py, fetch_incremental) as its two users  *)
(* run it, and the triage of what it finds:                                *)
(*   JobSyncs    process_sync_provider (workers/local_sync.py), run by the *)
(*               job queue for the scheduler, webhooks and people          *)
(*   InboxSyncs  sync_inbox (core/handlers/inbox_manager.py), run inside   *)
(*               the daily morning-sync request                            *)
(* They share a cursor into the provider's history and the table of        *)
(* triaged emails, where (workspace, message) is unique.                   *)
(***************************************************************************)
EXTENDS Naturals, FiniteSets

CONSTANTS
  Messages, NoMessage,
  JobSyncs, InboxSyncs,
  Page,         \* history records in one answer of the provider
  MaxAttempts,  \* attempts of a triage job before it is dead-lettered
  MaxFaults     \* bound: failed requests, database errors and crashes

Syncs == JobSyncs \union InboxSyncs

ASSUME SyncsAssumption == JobSyncs \intersect InboxSyncs = {}
ASSUME NoMessageAssumption == NoMessage \notin Messages
ASSUME BoundsAssumption ==
  Page \in Nat \ {0} /\ MaxAttempts \in Nat \ {0} /\ MaxFaults \in Nat

VARIABLES
  \* the mailbox: its history id, and where in the history each message was
  \* added and removed (0: not yet)
  clock, added, removed,
  purged,      \* messages that the provider no longer has at all
  \* the database: last_history_id (0: not set), emails, triage jobs, attempts
  cursor, row, job, tries,
  \* the syncs: cursor as read, history id to store, messages and removals
  pc, since, upto, todo, gone,
  current,     \* the message a sync is storing
  seen,        \* the email's row as sync_inbox looked it up
  dropped,     \* history: messages that some sync or job gave up or archived
  faults

mailbox  == <<clock, added, removed, purged>>
database == <<cursor, row, job, tries>>
locals   == <<since, upto, todo, gone, current, seen>>
vars     == <<mailbox, database, pc, locals, dropped, faults>>

Rows == {"none", "stub", "triaged"}
\* A triage job is stale when the row it was made for has been deleted.
Jobs == {"none", "queued", "stale"}
Places == {"idle", "listing", "advancing", "fetching", "deleting", "storing",
           "inserting", "enqueueing", "upserting"}

Init ==
  /\ clock = 1
  /\ added = [m \in Messages |-> 0] /\ removed = [m \in Messages |-> 0]
  /\ purged = {}
  /\ cursor = 0
  /\ row = [m \in Messages |-> "none"]
  /\ job = [m \in Messages |-> "none"]
  /\ tries = [m \in Messages |-> 0]
  /\ pc = [s \in Syncs |-> "idle"]
  /\ since = [s \in Syncs |-> 0] /\ upto = [s \in Syncs |-> 0]
  /\ todo = [s \in Syncs |-> {}] /\ gone = [s \in Syncs |-> {}]
  /\ current = [s \in Syncs |-> NoMessage]
  /\ seen = [s \in Syncs |-> "absent"]
  /\ dropped = {}
  /\ faults = 0

Fault == faults < MaxFaults /\ faults' = faults + 1

Move(s, from, to) == pc[s] = from /\ pc' = [pc EXCEPT ![s] = to]

-----------------------------------------------------------------------------
(* The mailbox                                                             *)

Arrive(m) ==
  /\ added[m] = 0
  /\ clock' = clock + 1
  /\ added' = [added EXCEPT ![m] = clock']
  /\ UNCHANGED <<removed, purged, database, pc, locals, dropped, faults>>

\* Into the trash, or out of the mailbox.
Remove(m) ==
  /\ added[m] > 0 /\ removed[m] = 0
  /\ clock' = clock + 1
  /\ removed' = [removed EXCEPT ![m] = clock']
  /\ purged' \in {purged, purged \union {m}}
  /\ UNCHANGED <<added, database, pc, locals, dropped, faults>>

-----------------------------------------------------------------------------
(* fetch_incremental                                                       *)

ReadCursor(s) ==
  /\ Move(s, "idle", "listing")
  /\ since' = [since EXCEPT ![s] = cursor]
  /\ UNCHANGED <<mailbox, database, upto, todo, gone, current, seen, dropped, faults>>

\* The records after the cursor, as far as one page of the answer goes.
Records(from) ==
  LET past(at) == {m \in Messages : at[m] > from}
      earlier(t) == Cardinality({m \in past(added) : added[m] < t})
                    + Cardinality({m \in past(removed) : removed[m] < t})
      first(at) == {m \in past(at) : earlier(at[m]) < Page}
  IN [new |-> first(added), old |-> first(removed)]

\* Without a cursor the sync only takes the mailbox's present history id.
List(s) ==
  /\ Move(s, "listing", "advancing")
  /\ upto' = [upto EXCEPT ![s] = clock]
  /\ IF since[s] = 0
       THEN UNCHANGED <<todo, gone>>
       ELSE /\ todo' = [todo EXCEPT ![s] = Records(since[s]).new]
            /\ gone' = [gone EXCEPT ![s] = Records(since[s]).old]
  /\ UNCHANGED <<mailbox, database, since, current, seen, dropped, faults>>

\* What the new cursor leaves behind without this sync having listed it.
Skipped(s) == {m \in Messages : added[m] > since[s] /\ added[m] <= upto[s]} \ todo[s]

\* As if the stored id were the first one not yet seen.
AdvancePast(s) ==
  /\ Move(s, "advancing", "fetching")
  /\ cursor' = upto[s] + 1
  /\ dropped' = dropped \union Skipped(s)
  /\ UNCHANGED <<mailbox, row, job, tries, locals, faults>>

\* As if the cursor always moved on to the mailbox's present history id.
AdvanceToNow(s) ==
  /\ Move(s, "advancing", "fetching")
  /\ cursor' = clock
  /\ dropped' = dropped \union Skipped(s)
  /\ UNCHANGED <<mailbox, row, job, tries, locals, faults>>

\* The new cursor is committed before the messages are fetched.
Advance(s) ==
  /\ Move(s, "advancing", "fetching")
  /\ cursor' = upto[s]
  /\ dropped' = dropped \union Skipped(s)
  /\ UNCHANGED <<mailbox, row, job, tries, locals, faults>>

Fetch(s) ==
  /\ Move(s, "fetching", "deleting")
  /\ todo[s] \intersect purged = {}
  /\ UNCHANGED <<mailbox, database, locals, dropped, faults>>

\* The end of a run takes its locals with it; what it had not stored is lost
\* once the cursor has passed it.
Leave(s) ==
  /\ pc' = [pc EXCEPT ![s] = "idle"]
  /\ dropped' = IF pc[s] = "advancing" THEN dropped ELSE dropped \union todo[s]
  /\ since' = [since EXCEPT ![s] = 0] /\ upto' = [upto EXCEPT ![s] = 0]
  /\ todo' = [todo EXCEPT ![s] = {}] /\ gone' = [gone EXCEPT ![s] = {}]
  /\ current' = [current EXCEPT ![s] = NoMessage]
  /\ seen' = [seen EXCEPT ![s] = "absent"]
  /\ UNCHANGED <<mailbox, database>>

\* One message that is not there any more raises for all of them; the
\* exception is logged, and the sync goes on with no messages and no removals.
FetchFails(s) ==
  /\ pc[s] = "fetching"
  /\ todo[s] \intersect purged # {}
  /\ Leave(s)
  /\ UNCHANGED faults

-----------------------------------------------------------------------------
(* process_sync_provider and sync_inbox                                    *)

DeleteRows(s) ==
  /\ Move(s, "deleting", "storing")
  /\ row' = [m \in Messages |-> IF m \in gone[s] THEN "none" ELSE row[m]]
  /\ job' = [m \in Messages |-> IF m \in gone[s] /\ row[m] # "none" /\ job[m] = "queued"
                                THEN "stale" ELSE job[m]]
  /\ seen' = [t \in Syncs |-> IF current[t] \in gone[s] /\ seen[t] = "present"
                              THEN "vanished" ELSE seen[t]]
  /\ gone' = [gone EXCEPT ![s] = {}]
  /\ UNCHANGED <<mailbox, cursor, tries, since, upto, todo, current, dropped, faults>>

Done(s, m) ==
  /\ todo' = [todo EXCEPT ![s] = @ \ {m}]
  /\ current' = [current EXCEPT ![s] = NoMessage]
  /\ seen' = [seen EXCEPT ![s] = "absent"]

\* A row that is there already belongs to whoever inserted it.
Skip(s, m) ==
  /\ s \in JobSyncs
  /\ pc[s] = "storing" /\ m \in todo[s]
  /\ row[m] # "none"
  /\ Done(s, m)
  /\ UNCHANGED <<mailbox, database, pc, since, upto, gone, dropped, faults>>

FindNew(s, m) ==
  /\ s \in JobSyncs
  /\ Move(s, "storing", "inserting")
  /\ m \in todo[s] /\ row[m] = "none"
  /\ current' = [current EXCEPT ![s] = m]
  /\ UNCHANGED <<mailbox, database, since, upto, todo, gone, seen, dropped, faults>>

InsertStub(s) ==
  /\ Move(s, "inserting", "enqueueing")
  /\ row[current[s]] = "none"
  /\ row' = [row EXCEPT ![current[s]] = "stub"]
  /\ UNCHANGED <<mailbox, cursor, job, tries, locals, dropped, faults>>

\* IntegrityError: another sync inserted the message first.
Collide(s) ==
  /\ Move(s, "inserting", "storing")
  /\ row[current[s]] # "none"
  /\ Done(s, current[s])
  /\ UNCHANGED <<mailbox, database, since, upto, gone, dropped, faults>>

\* As if the triage of a stub were left to the next sync.
EnqueueNothing(s) ==
  /\ Move(s, "enqueueing", "storing")
  /\ Done(s, current[s])
  /\ UNCHANGED <<mailbox, database, since, upto, gone, dropped, faults>>

\* An active job for the same message, stale or not, stands for this one.
EnqueueTriage(s) ==
  LET m == current[s] IN
  /\ Move(s, "enqueueing", "storing")
  /\ IF job[m] = "none"
       THEN /\ job' = [job EXCEPT ![m] = "queued"]
            /\ tries' = [tries EXCEPT ![m] = 0]
       ELSE UNCHANGED <<job, tries>>
  /\ Done(s, m)
  /\ UNCHANGED <<mailbox, cursor, row, since, upto, gone, dropped, faults>>

\* enqueue returns None after a database error, and nobody looks.
EnqueueFails(s) ==
  /\ Fault
  /\ Move(s, "enqueueing", "storing")
  /\ Done(s, current[s])
  /\ dropped' = dropped \union {current[s]}
  /\ UNCHANGED <<mailbox, database, since, upto, gone>>

\* sync_inbox classifies a message itself. Noise that the workspace lets it
\* archive gets no row ...
ArchiveNoise(s, m) ==
  /\ s \in InboxSyncs
  /\ pc[s] = "storing" /\ m \in todo[s]
  /\ Done(s, m)
  /\ dropped' = dropped \union {m}
  /\ UNCHANGED <<mailbox, database, pc, since, upto, gone, faults>>

\* ... of any other message the row is looked up ...
LookUp(s, m) ==
  /\ s \in InboxSyncs
  /\ Move(s, "storing", "upserting")
  /\ m \in todo[s]
  /\ current' = [current EXCEPT ![s] = m]
  /\ seen' = [seen EXCEPT ![s] = IF row[m] = "none" THEN "absent" ELSE "present"]
  /\ UNCHANGED <<mailbox, database, since, upto, todo, gone, dropped, faults>>

Fits(s) == IF row[current[s]] = "none" THEN seen[s] = "absent" ELSE seen[s] = "present"

\* ... and inserted or updated.
Upsert(s) ==
  /\ Move(s, "upserting", "storing")
  /\ Fits(s)
  /\ row' = [row EXCEPT ![current[s]] = "triaged"]
  /\ Done(s, current[s])
  /\ UNCHANGED <<mailbox, cursor, job, tries, since, upto, gone, dropped, faults>>

\* The row was inserted or deleted in between: the exception ends the sync.
UpsertRaises(s) ==
  /\ pc[s] = "upserting" /\ ~Fits(s)
  /\ Leave(s)
  /\ UNCHANGED faults

Finish(s) ==
  /\ pc[s] = "storing" /\ todo[s] = {}
  /\ Leave(s)
  /\ UNCHANGED faults

\* A request fails, a handler raises or the process dies.
Break(s) ==
  /\ pc[s] # "idle"
  /\ Fault
  /\ Leave(s)

-----------------------------------------------------------------------------
(* process_ai_triage                                                       *)

\* Nothing is written when the row is gone, or is another than the job was made for.
Classify(m) ==
  row' = [row EXCEPT ![m] = IF job[m] = "queued" /\ @ # "none" THEN "triaged" ELSE @]

\* A job whose row is gone returns without an effect.
Triage(m) ==
  /\ job[m] # "none"
  /\ Classify(m)
  /\ job' = [job EXCEPT ![m] = "none"]
  /\ UNCHANGED <<mailbox, cursor, tries, pc, locals, dropped, faults>>

\* The handler raises before or after it has committed the category: the
\* queue runs it again, or dead-letters it.
TriageFails(m) ==
  /\ job[m] = "queued"
  /\ Fault
  /\ Classify(m) \/ UNCHANGED row
  /\ tries' = [tries EXCEPT ![m] = @ + 1]
  /\ IF tries'[m] < MaxAttempts
       THEN UNCHANGED <<job, dropped>>
       ELSE /\ job' = [job EXCEPT ![m] = "none"]
            /\ dropped' = dropped \union {m}
  /\ UNCHANGED <<mailbox, cursor, pc, locals>>

-----------------------------------------------------------------------------

Ingest(s) ==
  ReadCursor(s) \/ List(s) \/ Advance(s) \/ Fetch(s) \/ FetchFails(s) \/ DeleteRows(s)

Store(s) ==
  \/ \E m \in Messages :
       Skip(s, m) \/ FindNew(s, m) \/ ArchiveNoise(s, m) \/ LookUp(s, m)
  \/ InsertStub(s) \/ Collide(s) \/ EnqueueTriage(s)
  \/ Upsert(s) \/ UpsertRaises(s)
  \/ Finish(s)

Next ==
  \/ \E m \in Messages : Arrive(m) \/ Remove(m) \/ Triage(m) \/ TriageFails(m)
  \/ \E s \in Syncs : Ingest(s) \/ Store(s) \/ EnqueueFails(s) \/ Break(s)

Spec == Init /\ [][Next]_vars

\* The scheduler asks for a sync every five minutes and the queue runs it and
\* the triage jobs; a morning sync that has begun goes on.
Fairness ==
  /\ \A s \in JobSyncs : WF_vars(Ingest(s) \/ Store(s))
  /\ \A s \in InboxSyncs : WF_vars(pc[s] # "idle" /\ (Ingest(s) \/ Store(s)))
  /\ \A m \in Messages : WF_vars(Triage(m))

FairSpec == Spec /\ Fairness

-----------------------------------------------------------------------------
(* Properties                                                              *)

Clocks == 0..clock

\* Type invariant: whatever a sync or the cursor remembers of the history has
\* happened.
TypeOK ==
  /\ clock \in Nat \ {0} /\ cursor \in Clocks
  /\ added \in [Messages -> Clocks] /\ removed \in [Messages -> Clocks]
  /\ purged \subseteq Messages /\ dropped \subseteq Messages
  /\ row \in [Messages -> Rows] /\ job \in [Messages -> Jobs]
  /\ tries \in [Messages -> 0..MaxAttempts]
  /\ pc \in [Syncs -> Places]
  /\ since \in [Syncs -> Clocks] /\ upto \in [Syncs -> Clocks]
  /\ todo \in [Syncs -> SUBSET Messages] /\ gone \in [Syncs -> SUBSET Messages]
  /\ current \in [Syncs -> Messages \union {NoMessage}]
  /\ seen \in [Syncs -> {"absent", "present", "vanished"}]
  /\ faults \in 0..MaxFaults

\* A message of the mailbox that is shown as "Processing..." has a triage job
\* or is about to get one, unless something gave it up: neither colliding
\* syncs nor retried jobs nor jobs of deleted rows leave such a row behind.
StubsAreOwned ==
  \A m \in Messages :
    row[m] = "stub" /\ removed[m] = 0 =>
      \/ job[m] = "queued"
      \/ \E s \in JobSyncs : pc[s] = "enqueueing" /\ current[s] = m
      \/ m \in dropped

\* Whatever arrives is triaged, unless it is removed, a first sync or a full
\* page passes it, or the sync or job that has it archives it or gives it up:
\* overlapping syncs, whose cursors overwrite each other, lose nothing else.
NothingElseIsLost ==
  \A m \in Messages :
    []<>(added[m] > 0 => row[m] = "triaged" \/ removed[m] > 0 \/ m \in dropped)

\* A message that is removed from the mailbox leaves the inbox of the workspace. The code
\* refutes this: it deletes before it inserts, and one answer may tell of both.
RemovedLeaves ==
  \A m \in Messages : removed[m] > 0 ~> row[m] = "none"

=============================================================================
