------------------------ MODULE BackgroundWorkProofs ------------------------
(* Proofs about BackgroundWork. Ingestion of mail: types, and that no       *)
(* message of the mailbox stays "Processing..." without a job, a sync or a  *)
(* fault that answers for it. Agents: what is done for a request is what    *)
(* was decided on, counted over every death of the worker.                  *)
EXTENDS BackgroundWork, FiniteSetTheorems, TLAPS

\* What a sync that stores a message knows about it.
StoreInv ==
  /\ \A s \in Syncs :
       pc[s] \in {"inserting", "enqueueing", "upserting"} =>
         current[s] \in Messages /\ current[s] \in todo[s]
  /\ \A s \in Syncs : pc[s] \in {"inserting", "enqueueing"} => s \in JobSyncs

\* Only messages that left the mailbox lose their rows, and with them their
\* jobs' effect; a job in the queue has attempts left.
StaleInv ==
  /\ \A s \in Syncs : \A m \in gone[s] : removed[m] > 0
  /\ \A m \in Messages : job[m] = "stale" => removed[m] > 0
  /\ \A m \in Messages : job[m] = "queued" => tries[m] < MaxAttempts

IInv == TypeOK /\ StoreInv /\ StaleInv /\ StubsAreOwned

-----------------------------------------------------------------------------

\* The initial states satisfy the invariant.
LEMMA InitInv ==
  ASSUME Init
  PROVE  IInv
<1>1. TypeOK
  BY BoundsAssumption DEF Init, TypeOK, Clocks, Rows, Jobs, Places
<1>2. StoreInv
  BY DEF Init, StoreInv
<1>3. StaleInv
  BY DEF Init, StaleInv
<1>4. StubsAreOwned
  BY DEF Init, StubsAreOwned
<1>. QED BY <1>1, <1>2, <1>3, <1>4 DEF IInv

\* What one answer of the provider holds: messages, and removals that happened.
LEMMA RecordsArePast ==
  ASSUME TypeOK, NEW from \in Nat
  PROVE  /\ Records(from).new \in SUBSET Messages
         /\ Records(from).old \in SUBSET Messages
         /\ \A m \in Records(from).old : removed[m] > from
BY DEF Records

\* A removal that happened has a positive place in the history.
LEMMA PastIsPositive ==
  ASSUME TypeOK, NEW from \in Clocks, NEW m \in Messages, removed[m] > from
  PROVE  removed[m] > 0
BY DEF TypeOK, Clocks

-----------------------------------------------------------------------------
(* Steps of the mailbox                                                    *)

LEMMA ArriveInv ==
  ASSUME IInv, NEW m \in Messages, Arrive(m)
  PROVE  IInv'
<1>. USE DEF IInv
<1>1. TypeOK'
  BY DEF Arrive, TypeOK, Clocks, database, locals
<1>2. StoreInv'
  BY DEF Arrive, StoreInv, locals
<1>3. StaleInv'
  BY DEF Arrive, StaleInv, database, locals
<1>4. StubsAreOwned'
  BY DEF Arrive, StubsAreOwned, database, locals
<1>. QED BY <1>1, <1>2, <1>3, <1>4

LEMMA RemoveInv ==
  ASSUME IInv, NEW m \in Messages, Remove(m)
  PROVE  IInv'
<1>. USE DEF IInv
<1>1. TypeOK'
  BY DEF Remove, TypeOK, Clocks, database, locals
<1>2. StoreInv'
  BY DEF Remove, StoreInv, locals
<1>3. \A n \in Messages : removed'[n] = removed[n] \/ removed'[n] > 0
  BY DEF Remove, TypeOK, Clocks
<1>4. StaleInv'
  BY <1>3 DEF Remove, StaleInv, TypeOK, database, locals
<1>5. StubsAreOwned'
  BY <1>3 DEF Remove, StubsAreOwned, TypeOK, Clocks, database, locals
<1>. QED BY <1>1, <1>2, <1>4, <1>5

-----------------------------------------------------------------------------
(* Steps of fetch_incremental                                              *)

LEMMA ReadCursorInv ==
  ASSUME IInv, NEW s \in Syncs, ReadCursor(s)
  PROVE  IInv'
<1>. USE DEF IInv, ReadCursor, Move, mailbox, database
<1>1. TypeOK'
  BY DEF TypeOK, Clocks, Places
<1>2. StoreInv'
  BY DEF StoreInv, TypeOK
<1>3. StaleInv'
  BY DEF StaleInv
<1>4. StubsAreOwned'
  BY DEF StubsAreOwned, TypeOK
<1>. QED BY <1>1, <1>2, <1>3, <1>4

LEMMA ListInv ==
  ASSUME IInv, NEW s \in Syncs, List(s)
  PROVE  IInv'
<1>. USE DEF IInv, List, Move, mailbox, database
<1>1. since[s] \in Clocks /\ since[s] \in Nat
  BY DEF TypeOK, Clocks
<1>2. /\ Records(since[s]).new \in SUBSET Messages
      /\ Records(since[s]).old \in SUBSET Messages
      /\ \A m \in Records(since[s]).old : removed[m] > 0
  BY <1>1, RecordsArePast, PastIsPositive
<1>3. TypeOK'
  BY <1>2 DEF TypeOK, Clocks, Places
<1>4. StoreInv'
  BY DEF StoreInv, TypeOK
<1>5. StaleInv'
  BY <1>2 DEF StaleInv, TypeOK
<1>6. StubsAreOwned'
  BY DEF StubsAreOwned, TypeOK
<1>. QED BY <1>3, <1>4, <1>5, <1>6

LEMMA AdvanceInv ==
  ASSUME IInv, NEW s \in Syncs, Advance(s)
  PROVE  IInv'
<1>. USE DEF IInv, Advance, Move, mailbox, locals
<1>1. Skipped(s) \subseteq Messages
  BY DEF Skipped
<1>2. TypeOK'
  BY <1>1 DEF TypeOK, Clocks, Places
<1>3. StoreInv'
  BY DEF StoreInv, TypeOK
<1>4. StaleInv'
  BY DEF StaleInv
<1>5. StubsAreOwned'
  BY DEF StubsAreOwned, TypeOK
<1>. QED BY <1>2, <1>3, <1>4, <1>5

LEMMA FetchInv ==
  ASSUME IInv, NEW s \in Syncs, Fetch(s)
  PROVE  IInv'
<1>. USE DEF IInv, Fetch, Move, mailbox, database, locals
<1>1. TypeOK'
  BY DEF TypeOK, Clocks, Places
<1>2. StoreInv'
  BY DEF StoreInv, TypeOK
<1>3. StaleInv'
  BY DEF StaleInv
<1>4. StubsAreOwned'
  BY DEF StubsAreOwned, TypeOK
<1>. QED BY <1>1, <1>2, <1>3, <1>4

\* However a sync ends, what it was about to enqueue is accounted for.
LEMMA LeaveInv ==
  ASSUME IInv, NEW s \in Syncs, Leave(s), faults' \in 0..MaxFaults
  PROVE  IInv'
<1>. USE DEF IInv, Leave, mailbox, database
<1>1. TypeOK'
  BY DEF TypeOK, Clocks, Places
<1>2. StoreInv'
  BY DEF StoreInv, TypeOK
<1>3. StaleInv'
  BY DEF StaleInv, TypeOK
<1>4. StubsAreOwned'
  <2>. SUFFICES ASSUME NEW m \in Messages, row[m] = "stub", removed[m] = 0,
                       job[m] # "queued"
                PROVE  \/ \E t \in JobSyncs : pc'[t] = "enqueueing" /\ current'[t] = m
                       \/ m \in dropped'
    BY DEF StubsAreOwned
  <2>1. CASE m \in dropped
    BY <2>1
  <2>2. CASE m \notin dropped
    <3>1. PICK t \in JobSyncs : pc[t] = "enqueueing" /\ current[t] = m
      BY <2>2 DEF StubsAreOwned
    <3>2. t \in Syncs
      BY DEF Syncs
    <3>3. CASE t = s
      BY <3>1, <3>2, <3>3 DEF StoreInv
    <3>4. CASE t # s
      BY <3>1, <3>2, <3>4 DEF TypeOK
    <3>. QED BY <3>3, <3>4
  <2>. QED BY <2>1, <2>2
<1>. QED BY <1>1, <1>2, <1>3, <1>4

-----------------------------------------------------------------------------
(* Steps that store                                                        *)

LEMMA DeleteRowsInv ==
  ASSUME IInv, NEW s \in Syncs, DeleteRows(s)
  PROVE  IInv'
<1>. USE DEF IInv, DeleteRows, Move, mailbox
<1>1. TypeOK'
  BY DEF TypeOK, Clocks, Places, Rows, Jobs
<1>2. StoreInv'
  BY DEF StoreInv, TypeOK
<1>3. StaleInv'
  <2>1. \A t \in Syncs : \A m \in gone'[t] : removed'[m] > 0
    BY DEF StaleInv, TypeOK
  <2>2. \A m \in Messages : job'[m] = "stale" => removed'[m] > 0
    BY DEF StaleInv, TypeOK
  <2>3. \A m \in Messages : job'[m] = "queued" => tries'[m] < MaxAttempts
    BY DEF StaleInv, TypeOK
  <2>. QED BY <2>1, <2>2, <2>3 DEF StaleInv
<1>4. StubsAreOwned'
  <2>. SUFFICES ASSUME NEW m \in Messages, row'[m] = "stub", removed[m] = 0,
                       job'[m] # "queued"
                PROVE  \/ \E t \in JobSyncs : pc'[t] = "enqueueing" /\ current[t] = m
                       \/ m \in dropped
    BY DEF StubsAreOwned
  <2>1. row[m] = "stub" /\ job[m] # "queued"
    OBVIOUS
  <2>2. CASE \E t \in JobSyncs : pc[t] = "enqueueing" /\ current[t] = m
    BY <2>2 DEF TypeOK, Syncs
  <2>. QED BY <2>1, <2>2 DEF StubsAreOwned
<1>. QED BY <1>1, <1>2, <1>3, <1>4

LEMMA SkipInv ==
  ASSUME IInv, NEW s \in Syncs, NEW m \in Messages, Skip(s, m)
  PROVE  IInv'
<1>. USE DEF IInv, Skip, Done, mailbox, database
<1>1. TypeOK'
  BY DEF TypeOK, Clocks, Places
<1>2. StoreInv'
  BY DEF StoreInv, TypeOK
<1>3. StaleInv'
  BY DEF StaleInv
<1>4. StubsAreOwned'
  BY DEF StubsAreOwned, TypeOK
<1>. QED BY <1>1, <1>2, <1>3, <1>4

LEMMA FindNewInv ==
  ASSUME IInv, NEW s \in Syncs, NEW m \in Messages, FindNew(s, m)
  PROVE  IInv'
<1>. USE DEF IInv, FindNew, Move, mailbox, database
<1>1. TypeOK'
  BY DEF TypeOK, Clocks, Places
<1>2. StoreInv'
  BY DEF StoreInv, TypeOK
<1>3. StaleInv'
  BY DEF StaleInv
<1>4. StubsAreOwned'
  BY DEF StubsAreOwned, TypeOK
<1>. QED BY <1>1, <1>2, <1>3, <1>4

\* A stub belongs to the sync that inserted it.
LEMMA InsertStubInv ==
  ASSUME IInv, NEW s \in Syncs, InsertStub(s)
  PROVE  IInv'
<1>. USE DEF IInv, InsertStub, Move, mailbox, locals
<1>1. s \in JobSyncs /\ current[s] \in Messages
  BY DEF StoreInv
<1>2. TypeOK'
  BY <1>1 DEF TypeOK, Clocks, Places, Rows
<1>3. StoreInv'
  BY DEF StoreInv, TypeOK
<1>4. StaleInv'
  BY DEF StaleInv
<1>5. StubsAreOwned'
  <2>. SUFFICES ASSUME NEW m \in Messages, row'[m] = "stub", removed[m] = 0,
                       job[m] # "queued"
                PROVE  \/ \E t \in JobSyncs : pc'[t] = "enqueueing" /\ current[t] = m
                       \/ m \in dropped
    BY DEF StubsAreOwned
  <2>1. CASE m = current[s]
    BY <1>1, <2>1 DEF TypeOK
  <2>2. CASE m # current[s]
    BY <1>1, <2>2 DEF StubsAreOwned, TypeOK, Syncs
  <2>. QED BY <2>1, <2>2
<1>. QED BY <1>2, <1>3, <1>4, <1>5

LEMMA CollideInv ==
  ASSUME IInv, NEW s \in Syncs, Collide(s)
  PROVE  IInv'
<1>. USE DEF IInv, Collide, Move, Done, mailbox, database
<1>1. TypeOK'
  BY DEF TypeOK, Clocks, Places
<1>2. StoreInv'
  BY DEF StoreInv, TypeOK
<1>3. StaleInv'
  BY DEF StaleInv
<1>4. StubsAreOwned'
  BY DEF StubsAreOwned, TypeOK
<1>. QED BY <1>1, <1>2, <1>3, <1>4

\* The job that is found or made answers for the stub: a stale one is only
\* found for a message that has left the mailbox.
LEMMA EnqueueTriageInv ==
  ASSUME IInv, NEW s \in Syncs, EnqueueTriage(s)
  PROVE  IInv'
<1>. USE DEF IInv, EnqueueTriage, Move, Done, mailbox
<1>1. s \in JobSyncs /\ current[s] \in Messages
  BY DEF StoreInv
<1>2. TypeOK'
  BY <1>1, BoundsAssumption DEF TypeOK, Clocks, Places, Jobs
<1>3. StoreInv'
  BY DEF StoreInv, TypeOK
<1>4. StaleInv'
  BY <1>1, BoundsAssumption DEF StaleInv, TypeOK
<1>5. StubsAreOwned'
  <2>. SUFFICES ASSUME NEW m \in Messages, row[m] = "stub", removed[m] = 0,
                       job'[m] # "queued"
                PROVE  \/ \E t \in JobSyncs : pc'[t] = "enqueueing" /\ current'[t] = m
                       \/ m \in dropped
    BY DEF StubsAreOwned
  <2>1. CASE m = current[s]
    BY <1>1, <2>1 DEF StaleInv, TypeOK, Jobs
  <2>2. CASE m # current[s]
    <3>1. job[m] # "queued"
      BY <2>2 DEF TypeOK
    <3>2. CASE m \in dropped
      BY <3>2
    <3>3. CASE m \notin dropped
      <4>1. PICK t \in JobSyncs : pc[t] = "enqueueing" /\ current[t] = m
        BY <3>1, <3>3 DEF StubsAreOwned
      <4>. QED BY <2>2, <4>1 DEF TypeOK, Syncs
    <3>. QED BY <3>2, <3>3
  <2>. QED BY <2>1, <2>2
<1>. QED BY <1>2, <1>3, <1>4, <1>5

LEMMA EnqueueFailsInv ==
  ASSUME IInv, NEW s \in Syncs, EnqueueFails(s)
  PROVE  IInv'
<1>. USE DEF IInv, EnqueueFails, Fault, Move, Done, mailbox, database
<1>1. s \in JobSyncs /\ current[s] \in Messages
  BY DEF StoreInv
<1>2. TypeOK'
  BY <1>1, BoundsAssumption DEF TypeOK, Clocks, Places
<1>3. StoreInv'
  BY DEF StoreInv, TypeOK
<1>4. StaleInv'
  BY DEF StaleInv
<1>5. StubsAreOwned'
  BY DEF StubsAreOwned, TypeOK, Syncs
<1>. QED BY <1>2, <1>3, <1>4, <1>5

LEMMA ArchiveNoiseInv ==
  ASSUME IInv, NEW s \in Syncs, NEW m \in Messages, ArchiveNoise(s, m)
  PROVE  IInv'
<1>. USE DEF IInv, ArchiveNoise, Done, mailbox, database
<1>1. TypeOK'
  BY DEF TypeOK, Clocks, Places
<1>2. StoreInv'
  BY DEF StoreInv, TypeOK
<1>3. StaleInv'
  BY DEF StaleInv
<1>4. StubsAreOwned'
  BY DEF StubsAreOwned, TypeOK
<1>. QED BY <1>1, <1>2, <1>3, <1>4

LEMMA LookUpInv ==
  ASSUME IInv, NEW s \in Syncs, NEW m \in Messages, LookUp(s, m)
  PROVE  IInv'
<1>. USE DEF IInv, LookUp, Move, mailbox, database
<1>1. TypeOK'
  BY DEF TypeOK, Clocks, Places
<1>2. StoreInv'
  BY DEF StoreInv, TypeOK
<1>3. StaleInv'
  BY DEF StaleInv
<1>4. StubsAreOwned'
  BY DEF StubsAreOwned, TypeOK
<1>. QED BY <1>1, <1>2, <1>3, <1>4

LEMMA UpsertInv ==
  ASSUME IInv, NEW s \in Syncs, Upsert(s)
  PROVE  IInv'
<1>. USE DEF IInv, Upsert, Move, Done, mailbox
<1>1. current[s] \in Messages
  BY DEF StoreInv
<1>2. TypeOK'
  BY <1>1 DEF TypeOK, Clocks, Places, Rows
<1>3. StoreInv'
  BY DEF StoreInv, TypeOK
<1>4. StaleInv'
  BY DEF StaleInv
<1>5. StubsAreOwned'
  BY <1>1 DEF StubsAreOwned, TypeOK
<1>. QED BY <1>2, <1>3, <1>4, <1>5

-----------------------------------------------------------------------------
(* Steps of process_ai_triage                                              *)

LEMMA TriageInv ==
  ASSUME IInv, NEW m \in Messages, Triage(m)
  PROVE  IInv'
<1>. USE DEF IInv, Triage, Classify, mailbox, locals
<1>1. TypeOK'
  BY DEF TypeOK, Clocks, Rows, Jobs
<1>2. StoreInv'
  BY DEF StoreInv
<1>3. StaleInv'
  BY DEF StaleInv, TypeOK
<1>4. StubsAreOwned'
  <2>. SUFFICES ASSUME NEW n \in Messages, row'[n] = "stub", removed[n] = 0,
                       job'[n] # "queued"
                PROVE  \/ \E t \in JobSyncs : pc[t] = "enqueueing" /\ current[t] = n
                       \/ n \in dropped
    BY DEF StubsAreOwned
  <2>1. CASE n = m
    BY <2>1 DEF StaleInv, TypeOK, Jobs
  <2>2. CASE n # m
    BY <2>2 DEF StubsAreOwned, TypeOK
  <2>. QED BY <2>1, <2>2
<1>. QED BY <1>1, <1>2, <1>3, <1>4

LEMMA TriageFailsInv ==
  ASSUME IInv, NEW m \in Messages, TriageFails(m)
  PROVE  IInv'
<1>. USE DEF IInv, TriageFails, Fault, Classify, mailbox, locals
<1>1. tries[m] \in Nat /\ tries[m] < MaxAttempts /\ tries'[m] = tries[m] + 1
  BY DEF StaleInv, TypeOK
<1>2. /\ row' \in [Messages -> Rows]
      /\ \A n \in Messages : row'[n] = "stub" => row[n] = "stub"
      /\ job' \in [Messages -> Jobs]
      /\ \A n \in Messages : job'[n] \in {job[n], "none"} /\ (n # m => job'[n] = job[n])
  BY DEF TypeOK, Rows, Jobs
<1>3. TypeOK'
  <2>1. tries' \in [Messages -> 0..MaxAttempts]
    BY <1>1, BoundsAssumption DEF TypeOK
  <2>2. faults' \in 0..MaxFaults
    BY BoundsAssumption DEF TypeOK
  <2>3. dropped' \subseteq Messages
    BY DEF TypeOK
  <2>. QED BY <1>2, <2>1, <2>2, <2>3 DEF TypeOK, Clocks
<1>4. StoreInv'
  BY DEF StoreInv
<1>5. StaleInv'
  BY <1>1, <1>2 DEF StaleInv, TypeOK
<1>6. \A n \in Messages : job'[n] = job[n] \/ n \in dropped'
  BY DEF TypeOK
<1>7. dropped \subseteq dropped'
  OBVIOUS
<1>8. StubsAreOwned'
  BY <1>2, <1>6, <1>7 DEF StubsAreOwned
<1>. QED BY <1>3, <1>4, <1>5, <1>8

-----------------------------------------------------------------------------

\* Every step keeps the invariant.
LEMMA StepInv ==
  ASSUME IInv, [Next]_vars
  PROVE  IInv'
<1>1. CASE \E m \in Messages : Arrive(m) \/ Remove(m) \/ Triage(m) \/ TriageFails(m)
  BY <1>1, ArriveInv, RemoveInv, TriageInv, TriageFailsInv
<1>2. ASSUME NEW s \in Syncs, Ingest(s)
      PROVE  IInv'
  <2>1. CASE FetchFails(s)
    BY <2>1, LeaveInv DEF FetchFails, IInv, TypeOK
  <2>. QED
    BY <1>2, <2>1, ReadCursorInv, ListInv, AdvanceInv, FetchInv, DeleteRowsInv DEF Ingest
<1>3. ASSUME NEW s \in Syncs, Store(s)
      PROVE  IInv'
  <2>1. CASE UpsertRaises(s) \/ Finish(s)
    BY <2>1, LeaveInv DEF UpsertRaises, Finish, IInv, TypeOK
  <2>2. CASE \E m \in Messages :
               Skip(s, m) \/ FindNew(s, m) \/ ArchiveNoise(s, m) \/ LookUp(s, m)
    BY <2>2, SkipInv, FindNewInv, ArchiveNoiseInv, LookUpInv
  <2>. QED
    BY <1>3, <2>1, <2>2, InsertStubInv, CollideInv, EnqueueTriageInv, UpsertInv DEF Store
<1>4. ASSUME NEW s \in Syncs, Break(s)
      PROVE  IInv'
  <2>1. faults' \in 0..MaxFaults
    BY <1>4, BoundsAssumption DEF Break, Fault, IInv, TypeOK
  <2>. QED BY <1>4, <2>1, LeaveInv DEF Break
<1>5. CASE UNCHANGED vars
  BY <1>5 DEF IInv, TypeOK, Clocks, StoreInv, StaleInv, StubsAreOwned,
              vars, mailbox, database, locals
<1>. QED BY <1>1, <1>2, <1>3, <1>4, <1>5, EnqueueFailsInv DEF Next

\* The invariant holds throughout every behaviour.
LEMMA Invariance == WorkSpec => []IInv
<1>1. WorkInit => IInv
  BY InitInv DEF WorkInit
<1>2. IInv /\ [WorkNext]_work => IInv'
  BY StepInv DEF WorkNext, MailStep, AgentStep, work
<1>. QED BY <1>1, <1>2, PTL DEF WorkSpec

\* Every reachable state is well typed, and nothing remembers a place in the
\* mailbox's history that has not happened yet (fetch_incremental, update_config).
THEOREM TypeCorrect == WorkSpec => []TypeOK
<1>1. IInv => TypeOK
  BY DEF IInv
<1>. QED BY <1>1, Invariance, PTL

\* Of a message in the mailbox no row stays "Processing..." unowned, for any
\* number of overlapping syncs (process_sync_provider, sync_inbox) and retried
\* jobs (process_ai_triage).
THEOREM EveryStubIsOwned == WorkSpec => []StubsAreOwned
<1>1. IInv => StubsAreOwned
  BY DEF IInv
<1>. QED BY <1>1, Invariance, PTL

-----------------------------------------------------------------------------
(* The agents: what a request has cost so far.                             *)

RouterSteps == {"recall-context", "classify-intent", "execute-action"}
RicoSteps == {"research-lead", "draft-outreach", "save-to-crm", "format-response"}

EngineTyped ==
  /\ state \in [Requests \union Outreaches -> {"none", "running", "succeeded", "failed"}]
  /\ done \in [Requests \union Outreaches -> SUBSET (RouterSteps \union RicoSteps)]
  /\ busy \in [Requests \union Outreaches -> RouterSteps \union RicoSteps \union {""}]

RouterTyped ==
  /\ context \in [Requests -> BOOLEAN]
  /\ intent \in [Requests -> Agent!Intents \union {Agent!NoIntent}]
  /\ calling \in [Requests -> Seq(STRING)]
  /\ workflowIds \in [Requests -> SUBSET Outreaches]
  /\ DOMAIN output = Requests
  /\ memory \in [Requests -> Nat] /\ restarts \in [Requests -> Nat]

CallsTyped ==
  /\ origin \in [Outreaches -> Requests \union {"none", "caller"}]
  /\ briefed \in [Outreaches -> BOOLEAN]
  /\ \A o \in Outreaches : state[o] = "none" => origin[o] = "none" /\ o \notin unheard

\* The steps of a request run in their order, each no longer than until it has succeeded.
Ordered(r) ==
  /\ busy[r] \in (RouterSteps \union {""}) \ done[r] /\ done[r] \subseteq RouterSteps
  /\ "classify-intent" \in done[r] \union {busy[r]} => "recall-context" \in done[r]
  /\ "execute-action" \in done[r] \union {busy[r]} => "classify-intent" \in done[r]
  /\ state[r] = "none" => busy[r] = "" /\ done[r] = {}
  /\ state[r] = "succeeded" => done[r] = RouterSteps

\* The names of agents with a workflow that the loop has yet to come to.
Left(r) ==
  {n \in Agent!Named(r) : n > Len(intent[r].delegateTo) - Len(calling[r])}

\* The list that the loop has yet to call is the end of the list of the intent.
IsTail(r) ==
  /\ Len(calling[r]) <= Len(intent[r].delegateTo)
  /\ \A n \in 1..Len(calling[r]) :
       calling[r][n] =
         intent[r].delegateTo[Len(intent[r].delegateTo) - Len(calling[r]) + n]

\* The action is to come, for the first time or after a death of the worker.
ActionToCome(r) ==
  /\ state[r] \in {"none", "running"}
  /\ busy[r] # "execute-action" /\ "execute-action" \notin done[r]

Spent(r) == Cardinality(Agent!Started(r))
Price(r) == Cardinality(Agent!Named(r))

\* What was started and remembered is paid for by the beginnings of the action.
Costs(r) ==
  /\ IsFiniteSet(Agent!Started(r))
  /\ Spent(r) <= Price(r) * (1 + restarts[r]) /\ memory[r] <= 1 + restarts[r]
  /\ ActionToCome(r) => Spent(r) <= Price(r) * restarts[r] /\ memory[r] <= restarts[r]
  /\ busy[r] = "execute-action" =>
       /\ IsTail(r) /\ Spent(r) + Cardinality(Left(r)) <= Price(r) * (1 + restarts[r])
       /\ memory[r] <= restarts[r]

\* Before the intent is known nothing was started; then what is recalled is settled.
Settled(r) ==
  /\ "classify-intent" \notin done[r] =>
       Agent!Started(r) = {} /\ restarts[r] = 0 /\ memory[r] = 0
  /\ \A o \in Agent!Started(r) : briefed[o] = context[r]

\* The runs that were started for a request, and that its router heard of.
Heard(r) == Agent!Started(r) \ unheard

\* What the answer is made of, and the answer.
Told(r) ==
  /\ busy[r] = "execute-action" =>
       /\ workflowIds[r] \subseteq Agent!Started(r)
       /\ restarts[r] = 0 => workflowIds[r] = Heard(r)
  /\ state[r] = "succeeded" =>
       /\ output[r].ids \subseteq Agent!Started(r)
       /\ output[r].action = "DELEGATE" /\ restarts[r] = 0 =>
            output[r].ids = Heard(r)

RequestInv(r) == Ordered(r) /\ Costs(r) /\ Settled(r) /\ Told(r)

AgentInv == EngineTyped /\ RouterTyped /\ CallsTyped /\ \A r \in Requests : RequestInv(r)

LEMMA TailOfList ==
  ASSUME NEW s \in Seq(STRING), s # <<>>
  PROVE  /\ Tail(s) \in Seq(STRING) /\ Len(s) \in Nat \ {0} /\ Len(Tail(s)) = Len(s) - 1
         /\ Head(s) = s[1] /\ \A n \in 1..(Len(s) - 1) : Tail(s)[n] = s[n + 1]
  OBVIOUS

LEMMA IntentFields ==
  ASSUME NEW x \in Agent!Intents \union {Agent!NoIntent}
  PROVE  /\ x.delegateTo \in Seq(STRING)
         /\ x.action # "DELEGATE" => x.delegateTo = <<>>
<1>1. CASE x = Agent!NoIntent
  BY <1>1 DEF Agent!NoIntent, Agent!Nobody
<1>2. CASE x \in [action : {"RESPOND", "COORDINATE"}, delegateTo : {<<>>}]
  <2>1. x.delegateTo = <<>>
    BY <1>2
  <2>. QED BY <2>1
<1>3. CASE x \in [action : {"DELEGATE"}, delegateTo : AgentLists]
  <2>1. x.delegateTo \in AgentLists /\ x.action = "DELEGATE"
    BY <1>3
  <2>. QED BY <2>1, ListsAssumption
<1>. QED BY <1>1, <1>2, <1>3 DEF Agent!Intents, Agent!Nobody

\* The agents named are counted by a number, and those left are among them.
LEMMA NamedAreFinite ==
  ASSUME NEW r \in Requests, intent[r] \in Agent!Intents \union {Agent!NoIntent}
  PROVE  /\ IsFiniteSet(Agent!Named(r)) /\ Price(r) \in Nat
         /\ IsFiniteSet(Left(r)) /\ Cardinality(Left(r)) \in Nat
<1> DEFINE list == intent[r].delegateTo
<1>1. list \in Seq(STRING)
  BY IntentFields
<1>2. DOMAIN list = 1..Len(list) /\ Len(list) \in Nat
  BY <1>1
<1>3. IsFiniteSet(1..Len(list))
  BY <1>2, FS_Interval
<1>4. Agent!Named(r) \subseteq 1..Len(list) /\ Left(r) \subseteq Agent!Named(r)
  BY <1>2 DEF Agent!Named, Left
<1>5. IsFiniteSet(Agent!Named(r))
  BY <1>3, <1>4, FS_Subset
<1>6. IsFiniteSet(Left(r))
  BY <1>4, <1>5, FS_Subset
<1>. QED BY <1>5, <1>6, FS_CardinalityType DEF Price

-----------------------------------------------------------------------------
(* What a step leaves as it was.                                           *)

LEMMA CostsStay ==
  ASSUME NEW r \in Requests, Costs(r),
         UNCHANGED <<Agent!Started(r), intent[r], calling[r], memory[r], restarts[r]>>,
         ActionToCome(r)' => ActionToCome(r),
         busy'[r] = "execute-action" => busy[r] = "execute-action"
  PROVE  Costs(r)'
<1>1. Agent!Named(r)' = Agent!Named(r) /\ Left(r)' = Left(r) /\ IsTail(r)' = IsTail(r)
  BY DEF Agent!Named, Left, IsTail
<1>. HIDE DEF Agent!Started
<1>. QED BY <1>1 DEF Costs, Spent, Price

\* Before anything is started an intent costs nothing, whatever it is.
LEMMA NothingCosts ==
  ASSUME NEW r \in Requests, intent'[r] \in Agent!Intents \union {Agent!NoIntent},
         Agent!Started(r)' = {}, restarts'[r] = 0, memory'[r] = 0, busy'[r] # "execute-action"
  PROVE  Costs(r)'
<1>1. (Price(r) \in Nat)'
  <2>1. (intent[r] \in Agent!Intents \union {Agent!NoIntent})'
    BY DEF Agent!Intents, Agent!NoIntent, Agent!Nobody
  <2>. QED BY <2>1, NamedAreFinite, PTL
<1>2. IsFiniteSet(Agent!Started(r)') /\ Spent(r)' = 0
  BY FS_EmptySet DEF Spent
<1>. QED BY <1>1, <1>2 DEF Costs

LEMMA ToldStays ==
  ASSUME NEW r \in Requests, Told(r),
         UNCHANGED <<Agent!Started(r), Heard(r), workflowIds[r], output[r], restarts[r]>>,
         state'[r] = "succeeded" => state[r] = "succeeded",
         busy'[r] = "execute-action" => busy[r] = "execute-action"
  PROVE  Told(r)'
  BY DEF Told

LEMMA SettledStays ==
  ASSUME NEW r \in Requests, Settled(r),
         UNCHANGED <<Agent!Started(r), context[r], memory[r], restarts[r]>>,
         \A o \in Agent!Started(r) : briefed'[o] = briefed[o],
         done[r] \subseteq done'[r]
  PROVE  Settled(r)'
  BY DEF Settled

\* A request that a step is not about.
Remains(r) ==
  /\ UNCHANGED <<state[r], done[r], busy[r], context[r], intent[r], calling[r],
                 workflowIds[r], output[r], memory[r], restarts[r], Agent!Started(r), Heard(r)>>
  /\ \A o \in Agent!Started(r) : briefed'[o] = briefed[o]

LEMMA RequestRemains ==
  ASSUME NEW r \in Requests, RequestInv(r), Remains(r)
  PROVE  RequestInv(r)'
<1>1. Ordered(r)'
  BY DEF RequestInv, Ordered, Remains
<1>2. Costs(r)'
  BY CostsStay DEF RequestInv, Remains, ActionToCome
<1>3. Settled(r)'
  BY SettledStays DEF RequestInv, Remains
<1>4. Told(r)'
  BY ToldStays DEF RequestInv, Remains
<1>. QED BY <1>1, <1>2, <1>3, <1>4 DEF RequestInv

LEMMA RunActs ==
  ASSUME AgentInv, NEW i, EngineTyped', RouterTyped', CallsTyped',
         \A q \in Requests \ {i} : Remains(q), i \in Requests => RequestInv(i)'
  PROVE  AgentInv'
  BY RequestRemains DEF AgentInv

\* What the engine makes of a function that returns or throws.
LEMMA FunctionEnds ==
  ASSUME EngineTyped, NEW i \in Requests \union Outreaches, busy[i] # "",
         Agent!Returns(i) \/ Agent!Throws(i)
  PROVE  /\ EngineTyped' /\ busy'[i] = ""
         /\ \A j \in (Requests \union Outreaches) \ {i} :
              UNCHANGED <<state[j], done[j], busy[j]>>
         /\ state[i] # "running" => UNCHANGED <<state[i], done[i]>>
         /\ state[i] = "running" =>
              \/ /\ Agent!Throws(i)
                 /\ state'[i] = "failed" /\ UNCHANGED done[i]
              \/ /\ Agent!Returns(i)
                 /\ done'[i] = done[i] \union {busy[i]}
                 /\ state'[i] = IF done'[i] = Agent!Steps(i) THEN "succeeded" ELSE "running"
<1>1. CASE Agent!Throws(i)
  BY <1>1 DEF EngineTyped, Agent!Throws
<1>2. CASE Agent!Returns(i) /\ state[i] = "running"
  <2>1. /\ busy' = [busy EXCEPT ![i] = ""] /\ done' = [done EXCEPT ![i] = @ \union {busy[i]}]
        /\ state' = [state EXCEPT ![i] = IF done'[i] = Agent!Steps(i) THEN "succeeded" ELSE @]
    BY <1>2 DEF Agent!Returns
  <2>2. done[i] \union {busy[i]} \in SUBSET (RouterSteps \union RicoSteps)
    BY DEF EngineTyped
  <2>. QED BY <1>2, <2>1, <2>2 DEF EngineTyped
<1>3. CASE Agent!Returns(i) /\ state[i] # "running"
  BY <1>3 DEF EngineTyped, Agent!Returns
<1>. QED BY <1>1, <1>2, <1>3

LEMMA StepsOfRequest ==
  ASSUME NEW r \in Requests
  PROVE  /\ Agent!Steps(r) = RouterSteps
         /\ Agent!Parents(r)["recall-context"] = {}
         /\ Agent!Parents(r)["classify-intent"] = {"recall-context"}
         /\ Agent!Parents(r)["execute-action"] = {"classify-intent"}
  BY DEF Agent!Steps, Agent!Parents, Agent!RouterParents, RouterSteps

LEMMA StepsOfOutreach ==
  ASSUME NEW o \in Outreaches
  PROVE  Agent!Steps(o) = RicoSteps
  BY RunsAssumption DEF Agent!Steps, Agent!Parents, Agent!RicoParents, RicoSteps

\* A run that fails, or whose function throws after it has.
LEMMA RunFails ==
  ASSUME AgentInv, NEW i \in Requests \union Outreaches, EngineTyped',
         state[i] # "none", state'[i] = "failed", busy'[i] \in {busy[i], ""}, done'[i] = done[i],
         \A j \in (Requests \union Outreaches) \ {i} : UNCHANGED <<state[j], done[j], busy[j]>>,
         UNCHANGED <<context, intent, calling, workflowIds, output, origin, briefed, memory,
                     restarts, unheard>>
  PROVE  AgentInv'
<1>1. RouterTyped'
  BY DEF AgentInv, RouterTyped
<1>2. CallsTyped'
  BY DEF AgentInv, CallsTyped
<1>3. \A q \in Requests : Agent!Started(q)' = Agent!Started(q) /\ Heard(q)' = Heard(q)
  BY DEF Agent!Started, Heard
<1>4. \A q \in Requests \ {i} : Remains(q)
  BY <1>3 DEF Remains
<1>5. ASSUME i \in Requests PROVE RequestInv(i)'
  <2>0. RequestInv(i)
    BY <1>5 DEF AgentInv
  <2>1. Ordered(i)'
    BY <2>0 DEF RequestInv, Ordered, RouterSteps
  <2>2. Costs(i)'
    BY <1>3, <1>5, <2>0, CostsStay DEF RequestInv, ActionToCome
  <2>3. Settled(i)'
    BY <1>3, <1>5, <2>0, SettledStays DEF RequestInv
  <2>4. Told(i)'
    BY <1>3, <1>5, <2>0, ToldStays DEF RequestInv
  <2>. QED BY <2>1, <2>2, <2>3, <2>4 DEF RequestInv
<1>. QED BY <1>1, <1>2, <1>4, <1>5, RunActs

LEMMA TimesOutKeeps ==
  ASSUME AgentInv, NEW i \in Requests \union Outreaches, Agent!TimesOut(i) \/ Agent!NobodyTakes(i)
  PROVE  AgentInv'
<1>1. /\ state[i] = "running" /\ state' = [state EXCEPT ![i] = "failed"]
      /\ UNCHANGED <<done, busy, context, intent, calling, workflowIds, output, origin, briefed,
                     memory, restarts, unheard>>
  BY DEF Agent!TimesOut, Agent!NobodyTakes, Agent!router, Agent!calls, Agent!history
<1>2. EngineTyped' /\ state'[i] = "failed"
      /\ \A j \in (Requests \union Outreaches) \ {i} : state'[j] = state[j]
  BY <1>1 DEF AgentInv, EngineTyped
<1>. QED BY <1>1, <1>2, RunFails

\* A function that throws: the classification of an intent, or a step of an outreach.
LEMMA ThrowsKeeps ==
  ASSUME AgentInv, NEW i \in Requests \union Outreaches, busy[i] # "", Agent!Throws(i),
         state[i] \in {"running", "failed"},
         UNCHANGED <<context, intent, calling, workflowIds, output, origin, briefed, memory,
                     restarts, unheard>>
  PROVE  AgentInv'
<1>1. EngineTyped
  BY DEF AgentInv
<1>2. done' = done /\ state'[i] = "failed"
  BY <1>1, FunctionEnds DEF Agent!Throws, EngineTyped
<1>. QED BY <1>1, <1>2, FunctionEnds, RunFails

\* A step of the engine or of a function of an outreach.
LEMMA OutreachActs ==
  ASSUME AgentInv, NEW o \in Outreaches, EngineTyped', state'[o] = "none" => state[o] = "none",
         \A j \in (Requests \union Outreaches) \ {o} : UNCHANGED <<state[j], done[j], busy[j]>>,
         UNCHANGED <<context, intent, calling, workflowIds, output, origin, briefed, memory,
                     restarts, unheard>>
  PROVE  AgentInv'
<1>1. RouterTyped' /\ CallsTyped'
  BY DEF AgentInv, RouterTyped, CallsTyped
<1>2. \A q \in Requests : Agent!Started(q)' = Agent!Started(q) /\ Heard(q)' = Heard(q)
  BY DEF Agent!Started, Heard
<1>3. \A q \in Requests \ {o} : Remains(q)
  BY <1>2 DEF Remains
<1>. QED BY <1>1, <1>3, RunActs, RunsAssumption

LEMMA OutreachStepKeeps ==
  ASSUME AgentInv, NEW o \in Outreaches, Agent!StepSucceeds(o) \/ Agent!StepThrows(o)
  PROVE  AgentInv'
<1>1. /\ busy[o] # "" /\ (Agent!Returns(o) \/ Agent!Throws(o))
      /\ UNCHANGED <<context, intent, calling, workflowIds, output, origin, briefed, memory,
                     restarts, unheard>>
  BY StepsOfOutreach DEF Agent!StepSucceeds, Agent!StepThrows, Agent!router, Agent!calls,
                             Agent!history, RicoSteps
<1>2. EngineTyped
  BY DEF AgentInv
<1>. QED BY <1>1, <1>2, FunctionEnds, OutreachActs

LEMMA TriggerKeeps ==
  ASSUME AgentInv, NEW i \in Requests \union Outreaches, Agent!Trigger(i)
  PROVE  AgentInv'
<1>1. /\ state[i] = "none" /\ state' = [state EXCEPT ![i] = "running"]
      /\ origin' = IF i \in Outreaches THEN [origin EXCEPT ![i] = "caller"] ELSE origin
      /\ UNCHANGED <<done, busy, context, intent, calling, workflowIds, output, briefed, memory,
                     restarts, unheard>>
  BY DEF Agent!Trigger, Agent!router, Agent!history
<1>2. EngineTyped' /\ RouterTyped' /\ CallsTyped'
  BY <1>1 DEF AgentInv, EngineTyped, RouterTyped, CallsTyped
<1>3. ASSUME NEW q \in Requests PROVE Agent!Started(q)' = Agent!Started(q) /\ Heard(q)' = Heard(q)
  BY <1>1, OriginsAssumption DEF AgentInv, CallsTyped, Agent!Started, Heard
<1>4. \A q \in Requests \ {i} : Remains(q)
  BY <1>1, <1>3 DEF Remains, AgentInv, EngineTyped
<1>5. ASSUME i \in Requests PROVE RequestInv(i)'
  <2>0. RequestInv(i) /\ state'[i] = "running"
    BY <1>1, <1>5 DEF AgentInv, EngineTyped
  <2>1. Ordered(i)'
    BY <1>1, <2>0 DEF RequestInv, Ordered, RouterSteps
  <2>2. Costs(i)'
    BY <1>1, <1>3, <1>5, <2>0, CostsStay DEF RequestInv, ActionToCome
  <2>3. Settled(i)'
    BY <1>1, <1>3, <1>5, <2>0, SettledStays DEF RequestInv
  <2>4. Told(i)'
    BY <1>1, <1>3, <1>5, <2>0, ToldStays DEF RequestInv
  <2>. QED BY <2>1, <2>2, <2>3, <2>4 DEF RequestInv
<1>. QED BY <1>2, <1>4, <1>5, RunActs

\* One more beginning costs as much again.
LEMMA OneMore ==
  ASSUME NEW price \in Nat, NEW times \in Nat
  PROVE  /\ price * times \in Nat /\ price * (1 + times) \in Nat
         /\ price * (1 + times) = price * times + price
  OBVIOUS

\* The worker dies: an action whose run goes on will be begun anew.
LEMMA WorkerExitsKeeps ==
  ASSUME AgentInv, Agent!WorkerExits
  PROVE  AgentInv'
<1>1. /\ busy' = [i \in Requests \union Outreaches |-> ""]
      /\ restarts' = [r \in Requests |->
           IF busy[r] = "execute-action" /\ state[r] = "running" THEN restarts[r] + 1
           ELSE restarts[r]]
      /\ UNCHANGED <<state, done, context, intent, calling, workflowIds, output, origin, briefed,
                     memory, unheard>>
  BY DEF Agent!WorkerExits, Agent!router, Agent!calls, Agent!history, Agent!Runs
<1>2. EngineTyped' /\ CallsTyped'
  BY <1>1 DEF AgentInv, EngineTyped, CallsTyped
<1>3. RouterTyped'
  <2>1. restarts \in [Requests -> Nat]
    BY DEF AgentInv, RouterTyped
  <2>2. \A n \in Nat : n + 1 \in Nat
    OBVIOUS
  <2>3. restarts' \in [Requests -> Nat]
    BY <1>1, <2>1, <2>2
  <2>. QED BY <1>1, <2>3 DEF AgentInv, RouterTyped
<1>4. ASSUME NEW r \in Requests PROVE RequestInv(r)'
  <2>0. /\ RequestInv(r) /\ Agent!Started(r)' = Agent!Started(r) /\ busy'[r] = ""
        /\ Heard(r)' = Heard(r)
    BY <1>1 DEF AgentInv, Agent!Started, Heard
  <2>00. restarts[r] \in Nat /\ memory[r] \in Nat /\ memory'[r] = memory[r]
    BY <1>1 DEF AgentInv, RouterTyped
  <2>1. Ordered(r)'
    BY <1>1, <2>0 DEF RequestInv, Ordered, RouterSteps
  <2>2. CASE busy[r] = "execute-action" /\ state[r] = "running"
    <3>1. restarts'[r] = 1 + restarts[r]
      <4>1. restarts'[r] = restarts[r] + 1
        BY <1>1, <2>2
      <4>. QED BY <2>00, <4>1
    <3>2. Costs(r)'
      <4>1. Agent!Named(r)' = Agent!Named(r)
        BY <1>1 DEF Agent!Named
      <4>2. /\ Price(r) \in Nat /\ Cardinality(Left(r)) \in Nat /\ Spent(r) \in Nat
            /\ Price(r)' = Price(r) /\ Spent(r)' = Spent(r)
        BY <2>0, <4>1, NamedAreFinite, FS_CardinalityType
           DEF Price, Spent, AgentInv, RouterTyped, RequestInv, Costs
      <4>3. Spent(r) + Cardinality(Left(r)) <= Price(r) * (1 + restarts[r])
            /\ memory[r] <= restarts[r]
        BY <2>0, <2>2 DEF RequestInv, Costs
      <4>4. Spent(r) <= Price(r) * (1 + restarts[r])
        BY <2>00, <4>2, <4>3, OneMore
      <4>5. Spent(r) <= Price(r) * (1 + (1 + restarts[r]))
        <5>1. 1 + restarts[r] \in Nat
          BY <2>00
        <5>. QED BY <2>00, <4>2, <4>4, <5>1, OneMore
      <4>6. /\ Spent(r)' <= Price(r)' * (1 + restarts'[r])
            /\ Spent(r)' <= Price(r)' * restarts'[r]
            /\ memory'[r] <= restarts'[r] /\ memory'[r] <= 1 + restarts'[r]
        BY <2>00, <3>1, <4>2, <4>3, <4>4, <4>5
      <4>7. IsFiniteSet(Agent!Started(r)')
        BY <2>0 DEF RequestInv, Costs
      <4>. QED BY <2>0, <4>6, <4>7 DEF Costs
    <3>3. Settled(r)'
      BY <1>1, <2>0, <2>2 DEF RequestInv, Settled, Ordered
    <3>4. Told(r)'
      BY <1>1, <2>0, <2>2, <3>1 DEF RequestInv, Told
    <3>. QED BY <2>1, <3>2, <3>3, <3>4 DEF RequestInv
  <2>3. CASE ~(busy[r] = "execute-action" /\ state[r] = "running")
    <3>1. restarts'[r] = restarts[r]
      BY <1>1, <2>3
    <3>2. Costs(r)'
      BY <1>1, <2>0, <2>3, <3>1, CostsStay DEF RequestInv, ActionToCome, Ordered
    <3>3. Settled(r)' /\ Told(r)'
      BY <1>1, <2>0, <3>1, SettledStays, ToldStays DEF RequestInv
    <3>. QED BY <2>1, <3>2, <3>3 DEF RequestInv
  <2>. QED BY <2>2, <2>3
<1>. QED BY <1>2, <1>3, <1>4 DEF AgentInv

\* A step is given out: that of the action begins with the whole list, and is paid for.
LEMMA BeginKeeps ==
  ASSUME AgentInv, NEW i \in Requests \union Outreaches, NEW step \in Agent!Steps(i),
         Agent!Begin(i, step)
  PROVE  AgentInv'
<1>0. busy[i] = ""
  BY DEF Agent!Begin
<1>1. /\ state[i] = "running" /\ step \notin done[i]
      /\ Agent!Parents(i)[step] \subseteq done[i]
      /\ busy' = [busy EXCEPT ![i] = step]
      /\ UNCHANGED <<state, done, context, intent, output, origin, briefed, memory, restarts,
                     unheard>>
  BY DEF Agent!Begin, Agent!calls, Agent!history
<1>2. EngineTyped' /\ busy'[i] = step
      /\ \A j \in (Requests \union Outreaches) \ {i} : busy'[j] = busy[j]
  BY <1>1, StepsOfRequest, StepsOfOutreach DEF AgentInv, EngineTyped
<1>3. CASE i \in Outreaches
  <2>1. step # "execute-action"
    BY <1>3, StepsOfOutreach DEF RicoSteps
  <2>2. calling' = calling /\ workflowIds' = workflowIds
    BY <2>1 DEF Agent!Begin
  <2>. QED BY <1>1, <1>2, <1>3, <2>2, OutreachActs
<1>4. CASE i \in Requests
  <2>0. /\ RequestInv(i) /\ intent[i] \in Agent!Intents \union {Agent!NoIntent}
        /\ \A q \in Requests : Agent!Started(q)' = Agent!Started(q) /\ Heard(q)' = Heard(q)
    BY <1>1, <1>4 DEF AgentInv, RouterTyped, Agent!Started, Heard
  <2>1. CallsTyped'
    BY <1>1 DEF AgentInv, CallsTyped
  <2>2. Ordered(i)'
    <3>1. step \in RouterSteps
      BY <1>4, StepsOfRequest
    <3>. QED BY <1>0, <1>1, <1>2, <1>4, <2>0, <3>1, StepsOfRequest
             DEF RequestInv, Ordered, RouterSteps
  <2>3. Settled(i)'
    BY <1>1, <1>4, <2>0, SettledStays DEF RequestInv
  <2>4. CASE step # "execute-action"
    <3>1. calling' = calling /\ workflowIds' = workflowIds
      BY <2>4 DEF Agent!Begin
    <3>2. RouterTyped'
      BY <1>1, <3>1 DEF AgentInv, RouterTyped
    <3>3. Costs(i)' /\ Told(i)'
      BY <1>0, <1>1, <1>2, <1>4, <2>0, <2>4, <3>1, CostsStay, ToldStays
         DEF RequestInv, ActionToCome
    <3>4. \A q \in Requests \ {i} : Remains(q)
      BY <1>1, <1>2, <2>0, <3>1 DEF Remains
    <3>. QED BY <1>2, <2>1, <2>2, <2>3, <3>2, <3>3, <3>4, RunActs DEF RequestInv
  <2>5. CASE step = "execute-action"
    <3> DEFINE list == intent[i].delegateTo
    <3>1. /\ calling' = [calling EXCEPT ![i] = IF intent[i].action = "DELEGATE" THEN list ELSE <<>>]
          /\ workflowIds' = [workflowIds EXCEPT ![i] = {}]
      BY <2>5 DEF Agent!Begin, Agent!Nobody
    <3>2. calling' = [calling EXCEPT ![i] = list] /\ list \in Seq(STRING)
      BY <2>0, <3>1, IntentFields
    <3>3. RouterTyped'
      BY <1>1, <3>1, <3>2 DEF AgentInv, RouterTyped
    <3>4. /\ calling'[i] = list /\ workflowIds'[i] = {}
          /\ \A q \in Requests \ {i} : UNCHANGED <<calling[q], workflowIds[q]>>
      BY <1>4, <3>1, <3>2 DEF AgentInv, RouterTyped
    <3>5. ActionToCome(i)
      BY <1>0, <1>1, <2>5 DEF ActionToCome
    <3>6. /\ restarts[i] \in Nat /\ memory[i] \in Nat
          /\ restarts'[i] = restarts[i] /\ memory'[i] = memory[i]
      BY <1>1, <1>4 DEF AgentInv, RouterTyped
    <3>7. /\ IsFiniteSet(Agent!Started(i)) /\ Spent(i) \in Nat
          /\ Spent(i) <= Price(i) * restarts[i] /\ memory[i] <= restarts[i]
      BY <2>0, <3>5, FS_CardinalityType DEF RequestInv, Costs, Spent
    <3>8. Costs(i)'
      <4>1. Price(i) \in Nat
        BY <1>4, <2>0, NamedAreFinite
      <4>2. Agent!Named(i)' = Agent!Named(i) /\ Spent(i)' = Spent(i) /\ Price(i)' = Price(i)
        <5>1. Agent!Named(i)' = Agent!Named(i)
          BY <1>1 DEF Agent!Named
        <5>. QED BY <1>4, <2>0, <5>1 DEF Spent, Price
      <4>3. Left(i)' = Agent!Named(i)
        <5>1. Len(list) \in Nat /\ DOMAIN list = 1..Len(list) /\ Len(list) - Len(list) = 0
          BY <3>2
        <5>2. Left(i)' = {n \in Agent!Named(i) : n > Len(list) - Len(list)}
          BY <1>1, <3>4, <4>2 DEF Left
        <5>3. \A n \in Agent!Named(i) : n > 0
          BY <5>1 DEF Agent!Named
        <5>. QED BY <5>1, <5>2, <5>3
      <4>4. IsTail(i)'
        <5>1. Len(list) \in Nat /\ \A n \in 1..Len(list) : Len(list) - Len(list) + n = n
          BY <3>2
        <5>. QED BY <1>1, <3>4, <5>1 DEF IsTail
      <4>5. Cardinality(Left(i)') = Price(i)
        BY <4>3 DEF Price
      <4>6. /\ Spent(i)' + Cardinality(Left(i)') <= Price(i)' * (1 + restarts'[i])
            /\ Spent(i)' <= Price(i)' * (1 + restarts'[i])
            /\ memory'[i] <= restarts'[i] /\ memory'[i] <= 1 + restarts'[i]
        BY <3>6, <3>7, <4>1, <4>2, <4>5, OneMore
      <4>7. IsFiniteSet(Agent!Started(i)') /\ ~ActionToCome(i)'
        BY <1>2, <1>4, <2>0, <2>5, <3>7 DEF ActionToCome
      <4>. QED BY <3>6, <4>4, <4>6, <4>7 DEF Costs
    <3>9. Told(i)'
      <4>1. restarts[i] = 0 => Agent!Started(i) = {}
        <5>1. restarts[i] = 0 => Spent(i) = 0
          <6>1. Price(i) \in Nat /\ Price(i) * 0 = 0
            BY <1>4, <2>0, NamedAreFinite
          <6>. QED BY <3>7, <6>1
        <5>. QED BY <3>7, <5>1, FS_EmptySet DEF Spent
      <4>2. state'[i] # "succeeded" /\ Agent!Started(i)' = Agent!Started(i)
        BY <1>1, <1>4, <2>0
      <4>. QED BY <1>4, <2>0, <3>4, <3>6, <4>1, <4>2 DEF Told, Heard
    <3>10. \A q \in Requests \ {i} : Remains(q)
      BY <1>1, <1>2, <2>0, <3>4 DEF Remains
    <3>. QED BY <1>2, <2>1, <2>2, <2>3, <3>3, <3>8, <3>9, <3>10, RunActs DEF RequestInv
  <2>. QED BY <2>4, <2>5
<1>. QED BY <1>3, <1>4

\* A function of the router that runs before the action.
LEMMA NothingIsStarted ==
  ASSUME AgentInv, NEW r \in Requests, busy[r] \in {"recall-context", "classify-intent"}
  PROVE  /\ state[r] \in {"running", "failed"}
         /\ Agent!Started(r) = {} /\ restarts[r] = 0 /\ memory[r] = 0
         /\ {"classify-intent", "execute-action"} \intersect done[r] = {}
<1>1. Ordered(r) /\ Settled(r) /\ EngineTyped
  BY DEF AgentInv, RequestInv
<1>2. busy[r] # "" /\ busy[r] \notin done[r]
  BY <1>1 DEF Ordered
<1>3. "classify-intent" \notin done[r] /\ "execute-action" \notin done[r]
  BY <1>1, <1>2 DEF Ordered
<1>4. state[r] \in {"running", "failed"}
  <2>1. state[r] # "none" /\ state[r] # "succeeded"
    BY <1>1, <1>2, <1>3 DEF Ordered, RouterSteps
  <2>. QED BY <1>1, <2>1 DEF EngineTyped
<1>. QED BY <1>1, <1>3, <1>4 DEF Settled

LEMMA RecallOrClassifyKeeps ==
  ASSUME AgentInv, NEW r \in Requests, Agent!RecallContext(r) \/ Agent!ClassifyIntent(r)
  PROVE  AgentInv'
<1>1. /\ busy[r] \in {"recall-context", "classify-intent"} /\ Agent!Returns(r)
      /\ UNCHANGED <<calling, workflowIds, output, origin, briefed, memory, restarts, unheard>>
      /\ \/ \E found \in BOOLEAN : context' = [context EXCEPT ![r] = found] /\ intent' = intent
         \/ \E i \in Agent!Intents : intent' = [intent EXCEPT ![r] = i] /\ context' = context
  BY DEF Agent!RecallContext, Agent!ClassifyIntent, Agent!Recalled, Agent!UserMemories,
         Agent!KnowledgeGraph, Agent!calls, Agent!history
<1>2. /\ EngineTyped' /\ busy'[r] = ""
      /\ \A j \in (Requests \union Outreaches) \ {r} : UNCHANGED <<state[j], done[j], busy[j]>>
      /\ done'[r] \in {done[r], done[r] \union {busy[r]}}
      /\ state'[r] \in {"running", "failed"}
  <2>1. EngineTyped /\ "execute-action" \notin done[r] \union {busy[r]}
    BY <1>1, NothingIsStarted DEF AgentInv
  <2>2. Agent!Steps(r) = RouterSteps
    BY StepsOfRequest
  <2>3. state[r] \in {"running", "failed"} /\ busy[r] # ""
    BY <1>1, NothingIsStarted
  <2>4. done[r] \union {busy[r]} # RouterSteps /\ "failed" # "running"
    BY <2>1 DEF RouterSteps
  <2>5. /\ EngineTyped' /\ busy'[r] = ""
        /\ \A j \in (Requests \union Outreaches) \ {r} : UNCHANGED <<state[j], done[j], busy[j]>>
    BY <1>1, <2>1, <2>3, FunctionEnds
  <2>6. CASE state[r] = "running"
    <3>1. done'[r] = done[r] \union {busy[r]} /\ state'[r] = "running"
      BY <1>1, <2>1, <2>2, <2>4, <2>6 DEF Agent!Returns, EngineTyped
    <3>. QED BY <2>5, <3>1
  <2>7. CASE state[r] = "failed"
    <3>1. UNCHANGED <<state[r], done[r]>>
      BY <1>1, <2>1, <2>3, <2>7, FunctionEnds
    <3>. QED BY <2>5, <2>7, <3>1
  <2>. QED BY <2>3, <2>6, <2>7
<1>3. /\ context' \in [Requests -> BOOLEAN]
      /\ intent' \in [Requests -> Agent!Intents \union {Agent!NoIntent}]
      /\ \A q \in Requests \ {r} : UNCHANGED <<context[q], intent[q]>>
  BY <1>1 DEF AgentInv, RouterTyped
<1>4. RouterTyped'
  BY <1>1, <1>3 DEF AgentInv, RouterTyped
<1>5. CallsTyped'
  <2>1. \A o \in Outreaches : state'[o] = state[o]
    BY <1>2, RunsAssumption
  <2>. QED BY <1>1, <2>1 DEF AgentInv, CallsTyped
<1>6. \A q \in Requests : Agent!Started(q)' = Agent!Started(q) /\ Heard(q)' = Heard(q)
  BY <1>1 DEF Agent!Started, Heard
<1>7. \A q \in Requests \ {r} : Remains(q)
  BY <1>1, <1>2, <1>3, <1>6 DEF Remains
<1>8. RequestInv(r)'
  <2>1. Agent!Started(r)' = {} /\ restarts'[r] = 0 /\ memory'[r] = 0
    BY <1>1, <1>6, NothingIsStarted
  <2>2. Ordered(r)'
    BY <1>1, <1>2, NothingIsStarted DEF AgentInv, RequestInv, Ordered, RouterSteps
  <2>3. Costs(r)'
    BY <1>2, <1>3, <2>1, NothingCosts
  <2>4. Settled(r)' /\ Told(r)'
    BY <1>1, <1>2, <1>6, <2>1 DEF Settled, Told, Heard
  <2>. QED BY <2>2, <2>3, <2>4 DEF RequestInv
<1>. QED BY <1>2, <1>4, <1>5, <1>7, <1>8, RunActs

LEMMA ClassifyFailsKeeps ==
  ASSUME AgentInv, NEW r \in Requests, Agent!ClassifyFails(r)
  PROVE  AgentInv'
<1>1. /\ busy[r] = "classify-intent" /\ Agent!Throws(r)
      /\ UNCHANGED <<context, intent, calling, workflowIds, output, origin, briefed, memory,
                     restarts, unheard>>
  BY DEF Agent!ClassifyFails, Agent!router, Agent!calls, Agent!history
<1>. QED BY <1>1, NothingIsStarted, ThrowsKeeps

LEMMA ActionRuns ==
  ASSUME AgentInv, NEW r \in Requests, busy[r] = "execute-action"
  PROVE  /\ EngineTyped /\ RequestInv(r) /\ state[r] \in {"running", "failed"}
         /\ "classify-intent" \in done[r]
         /\ {"recall-context", "classify-intent"} \subseteq done[r]
         /\ intent[r] \in Agent!Intents \union {Agent!NoIntent}
         /\ calling[r] \in Seq(STRING) /\ intent[r].delegateTo \in Seq(STRING)
         /\ restarts[r] \in Nat /\ memory[r] \in Nat
         /\ Price(r) \in Nat /\ Spent(r) \in Nat
         /\ IsFiniteSet(Left(r)) /\ Cardinality(Left(r)) \in Nat
<1>1. Ordered(r) /\ Costs(r) /\ EngineTyped /\ RouterTyped /\ RequestInv(r)
  BY DEF AgentInv, RequestInv
<1>2. state[r] \in {"running", "failed"}
  <2>1. state[r] # "none" /\ state[r] # "succeeded"
    BY <1>1 DEF Ordered, RouterSteps
  <2>. QED BY <1>1, <2>1 DEF EngineTyped
<1>3. "classify-intent" \in done[r] /\ "recall-context" \in done[r]
  BY <1>1 DEF Ordered
<1>4. intent[r] \in Agent!Intents \union {Agent!NoIntent}
  BY <1>1 DEF RouterTyped
<1>5. Spent(r) \in Nat
  BY <1>1, FS_CardinalityType DEF Costs, Spent
<1>6. intent[r].delegateTo \in Seq(STRING)
  BY <1>4, IntentFields
<1>7. restarts[r] \in Nat /\ memory[r] \in Nat /\ calling[r] \in Seq(STRING)
  BY <1>1 DEF RouterTyped
<1>. QED BY <1>1, <1>2, <1>3, <1>4, <1>5, <1>6, <1>7, NamedAreFinite

\* The action ends: it has remembered the request at most once, and it has its answer.
LEMMA ActionEnds ==
  ASSUME AgentInv, NEW r \in Requests, busy[r] = "execute-action", Agent!Returns(r),
         UNCHANGED <<context, intent, calling, workflowIds, origin, briefed, restarts, unheard>>,
         memory' \in [Requests -> Nat], memory'[r] \in {memory[r], memory[r] + 1},
         NEW ids, ids \subseteq Agent!Started(r), NEW action,
         action = "DELEGATE" /\ restarts[r] = 0 => ids = Heard(r),
         output' = [output EXCEPT ![r] = [action |-> action, ids |-> ids]],
         \A q \in Requests \ {r} : memory'[q] = memory[q]
  PROVE  AgentInv'
<1>1. EngineTyped' /\ busy'[r] = ""
      /\ \A j \in (Requests \union Outreaches) \ {r} : UNCHANGED <<state[j], done[j], busy[j]>>
  BY ActionRuns, FunctionEnds
<1>2. /\ done'[r] \in {done[r], done[r] \union {"execute-action"}}
      /\ state'[r] \in {"succeeded", "failed"} /\ ~ActionToCome(r)'
      /\ state'[r] = "succeeded" => done'[r] = RouterSteps
  <2>1. done[r] \union {"execute-action"} = RouterSteps
    BY ActionRuns DEF RequestInv, Ordered, RouterSteps
  <2>2. CASE state[r] = "running"
    <3>1. /\ done' = [done EXCEPT ![r] = @ \union {busy[r]}]
          /\ state' = [state EXCEPT ![r] = IF done'[r] = Agent!Steps(r) THEN "succeeded" ELSE @]
      BY <2>2 DEF Agent!Returns
    <3>2. done'[r] = RouterSteps
      BY <2>1, <3>1, ActionRuns DEF EngineTyped
    <3>3. state'[r] = "succeeded"
      BY <3>1, <3>2, ActionRuns, StepsOfRequest DEF EngineTyped
    <3>. QED BY <2>1, <3>2, <3>3 DEF ActionToCome
  <2>3. CASE state[r] = "failed"
    BY <2>3, ActionRuns, FunctionEnds DEF ActionToCome
  <2>. QED BY <2>2, <2>3, ActionRuns
<1>3. RouterTyped'
  BY DEF AgentInv, RouterTyped
<1>4. CallsTyped'
  <2>1. \A o \in Outreaches : state'[o] = state[o]
    BY <1>1, RunsAssumption
  <2>. QED BY <2>1 DEF AgentInv, CallsTyped
<1>5. /\ \A q \in Requests : Agent!Started(q)' = Agent!Started(q) /\ Heard(q)' = Heard(q)
      /\ output'[r] = [action |-> action, ids |-> ids]
      /\ \A q \in Requests \ {r} : output'[q] = output[q]
  BY DEF AgentInv, RouterTyped, Agent!Started, Heard
<1>6. \A q \in Requests \ {r} : Remains(q)
  BY <1>1, <1>5 DEF Remains
<1>7. Ordered(r)'
  <2>1. Ordered(r)
    BY ActionRuns DEF RequestInv
  <2>. QED BY <1>1, <1>2, <2>1, ActionRuns DEF Ordered, RouterSteps
<1>8. Costs(r)'
  <2>1. Agent!Named(r)' = Agent!Named(r)
    BY DEF Agent!Named
  <2>2. Spent(r)' = Spent(r) /\ Price(r)' = Price(r)
    BY <1>5, <2>1 DEF Spent, Price
  <2>3. /\ IsFiniteSet(Agent!Started(r)) /\ Spent(r) <= Price(r) * (1 + restarts[r])
        /\ memory[r] <= restarts[r]
    BY ActionRuns DEF RequestInv, Costs
  <2>4. memory'[r] <= 1 + restarts[r]
    BY <2>3, ActionRuns
  <2>. QED BY <1>1, <1>2, <1>5, <2>2, <2>3, <2>4 DEF Costs
<1>9. Settled(r)' /\ Told(r)'
  <2>1. Settled(r)
    BY ActionRuns DEF RequestInv
  <2>2. "classify-intent" \in done'[r]
    BY <1>2, ActionRuns
  <2>3. Settled(r)'
    BY <1>5, <2>1, <2>2 DEF Settled
  <2>4. busy'[r] # "execute-action"
    BY <1>1
  <2>5. Told(r)'
    BY <1>5, <2>4 DEF Told
  <2>. QED BY <2>3, <2>5
<1>. QED BY <1>1, <1>3, <1>4, <1>6, <1>7, <1>8, <1>9, RunActs DEF RequestInv

LEMMA RespondKeeps ==
  ASSUME AgentInv, NEW r \in Requests, Agent!Respond(r)
  PROVE  AgentInv'
<1>1. PICK count \in {memory[r], memory[r] + 1} : memory' = [memory EXCEPT ![r] = count]
  BY DEF Agent!Respond, Agent!UpdateUserProfile
<1>2. /\ busy[r] = "execute-action" /\ Agent!Returns(r)
      /\ UNCHANGED <<context, intent, calling, workflowIds, origin, briefed, restarts, unheard>>
      /\ output' = [output EXCEPT ![r] = [action |-> "RESPOND", ids |-> {}]]
  BY DEF Agent!Respond, Agent!Executing, Agent!Output, Agent!calls, Agent!history
<1>3. memory \in [Requests -> Nat] /\ \A n \in Nat : n + 1 \in Nat
  BY DEF AgentInv, RouterTyped
<1>4. memory' \in [Requests -> Nat] /\ memory'[r] \in {memory[r], memory[r] + 1}
      /\ \A q \in Requests \ {r} : memory'[q] = memory[q]
  BY <1>1, <1>3
<1>5. {} \subseteq Agent!Started(r) /\ "RESPOND" # "DELEGATE"
  OBVIOUS
<1>. QED BY <1>2, <1>4, <1>5, ActionEnds

LEMMA ConcludeKeeps ==
  ASSUME AgentInv, NEW r \in Requests, Agent!Conclude(r)
  PROVE  AgentInv'
<1>1. /\ busy[r] = "execute-action" /\ Agent!Returns(r)
      /\ UNCHANGED <<context, intent, calling, workflowIds, origin, briefed, memory, restarts,
                     unheard>>
  BY DEF Agent!Conclude, Agent!calls, Agent!history
<1>2. \/ output' = [output EXCEPT ![r] = [action |-> "RESPOND", ids |-> {}]]
      \/ output' = [output EXCEPT ![r] = [action |-> intent[r].action, ids |-> workflowIds[r]]]
  BY DEF Agent!Conclude, Agent!Output
<1>3. /\ workflowIds[r] \subseteq Agent!Started(r)
      /\ restarts[r] = 0 => workflowIds[r] = Heard(r)
  BY <1>1, ActionRuns DEF RequestInv, Told
<1>4. memory' \in [Requests -> Nat] /\ memory'[r] \in {memory[r], memory[r] + 1}
      /\ \A q \in Requests \ {r} : memory'[q] = memory[q]
  BY <1>1 DEF AgentInv, RouterTyped
<1>5. {} \subseteq Agent!Started(r) /\ "RESPOND" # "DELEGATE"
  OBVIOUS
<1>. QED BY <1>1, <1>2, <1>3, <1>4, <1>5, ActionEnds

\* The loop comes to the next agent of the list.
LEMMA NextAgent ==
  ASSUME AgentInv, NEW r \in Requests, busy[r] = "execute-action", calling[r] # <<>>,
         UNCHANGED intent, calling'[r] = Tail(calling[r])
  PROVE  /\ IsTail(r)' /\ Price(r)' = Price(r) /\ Cardinality(Left(r)') \in Nat
         /\ Cardinality(Left(r)') <= Cardinality(Left(r))
         /\ Agent!HasWorkflow(Head(calling[r])) =>
              Cardinality(Left(r)') = Cardinality(Left(r)) - 1
<1> DEFINE list == intent[r].delegateTo
           rest == calling[r]
           l == Len(list)
           k == Len(rest)
           at == l - k + 1
<1>1. list \in Seq(STRING) /\ rest \in Seq(STRING) /\ IsTail(r)
  BY ActionRuns DEF RequestInv, Costs
<1>2. /\ calling'[r] \in Seq(STRING) /\ k \in Nat \ {0} /\ Len(calling'[r]) = k - 1
      /\ Head(rest) = rest[1] /\ \A n \in 1..(k - 1) : calling'[r][n] = rest[n + 1]
  BY <1>1, TailOfList
<1>3. l \in Nat /\ DOMAIN list = 1..l
  BY <1>1
<1>4. k <= l /\ \A n \in 1..k : rest[n] = list[l - k + n]
  BY <1>1 DEF IsTail
<1>00. intent'[r].delegateTo = list
  OBVIOUS
<1>0. /\ Agent!Named(r)' = Agent!Named(r)
      /\ Agent!Named(r) = {n \in DOMAIN list : Agent!HasWorkflow(list[n])}
      /\ Left(r) = {n \in Agent!Named(r) : n > l - k}
  BY DEF Agent!Named, Left
<1>01. Left(r)' = {n \in Agent!Named(r) : n > l - (k - 1)}
  BY <1>0, <1>00, <1>2 DEF Left
<1>02. IsTail(r)' <=> /\ k - 1 <= l
                      /\ \A n \in 1..(k - 1) : calling'[r][n] = list[l - (k - 1) + n]
  BY <1>00, <1>2 DEF IsTail
<1> HIDE DEF list, rest, l, k
<1>03. k \in Nat \ {0} /\ l \in Nat
  BY <1>2, <1>3
<1>5. at \in 1..l /\ Head(rest) = list[at]
  BY <1>2, <1>3, <1>4
<1>6. IsTail(r)'
  <2>1. ASSUME NEW n \in 1..(k - 1)
        PROVE  calling'[r][n] = list[l - (k - 1) + n]
    <3>1. n + 1 \in 1..k /\ l - k + (n + 1) = l - (k - 1) + n
      BY <1>03
    <3>. QED BY <1>2, <1>4, <3>1
  <2>. QED BY <1>2, <1>3, <1>4, <1>02, <2>1
<1>7. Left(r)' = Left(r) \ {at}
  <2>1. \A n \in 1..l : n > l - (k - 1) <=> n > l - k /\ n # at
    BY <1>03
  <2>2. Agent!Named(r) \subseteq 1..l
    BY <1>0, <1>3
  <2>. QED BY <1>0, <1>01, <2>1, <2>2
<1>8. Agent!HasWorkflow(Head(rest)) => at \in Left(r)
  BY <1>0, <1>2, <1>3, <1>5
<1>9. /\ Cardinality(Left(r) \ {at}) =
           IF at \in Left(r) THEN Cardinality(Left(r)) - 1 ELSE Cardinality(Left(r))
      /\ Cardinality(Left(r) \ {at}) \in Nat /\ Cardinality(Left(r)) \in Nat
  <2>1. IsFiniteSet(Left(r))
    BY ActionRuns
  <2> HIDE DEF at
  <2>2. IsFiniteSet(Left(r) \ {at})
    BY <2>1, FS_RemoveElement
  <2>. QED BY <2>1, <2>2, FS_RemoveElement, FS_CardinalityType
<1>10. Price(r)' = Price(r)
  BY <1>0 DEF Price
<1> HIDE DEF at
<1>. QED BY <1>6, <1>7, <1>8, <1>9, <1>10 DEF rest

LEMMA DelegateFailsKeeps ==
  ASSUME AgentInv, NEW r \in Requests, Agent!DelegateFails(r)
  PROVE  AgentInv'
<1>1. /\ busy[r] = "execute-action" /\ calling[r] # <<>>
      /\ calling' = [calling EXCEPT ![r] = Tail(@)]
      /\ UNCHANGED <<state, done, busy, context, intent, workflowIds, output, origin, briefed,
                     memory, restarts, unheard>>
  BY DEF Agent!DelegateFails, Agent!Called, Agent!Executing, Agent!Nobody, Agent!engine, Agent!calls,
         Agent!history
<1>2. RequestInv(r) /\ Tail(calling[r]) \in Seq(STRING)
  BY <1>1, ActionRuns, TailOfList
<1>3. /\ calling'[r] = Tail(calling[r]) /\ \A q \in Requests \ {r} : calling'[q] = calling[q]
      /\ calling' \in [Requests -> Seq(STRING)]
  BY <1>1, <1>2 DEF AgentInv, RouterTyped
<1>4. EngineTyped' /\ RouterTyped' /\ CallsTyped'
  BY <1>1, <1>3 DEF AgentInv, EngineTyped, RouterTyped, CallsTyped
<1>5. \A q \in Requests : Agent!Started(q)' = Agent!Started(q) /\ Heard(q)' = Heard(q)
  BY <1>1 DEF Agent!Started, Heard
<1>6. \A q \in Requests \ {r} : Remains(q)
  BY <1>1, <1>3, <1>5 DEF Remains
<1>7. Ordered(r)' /\ Settled(r)' /\ Told(r)'
  BY <1>1, <1>2, <1>5, SettledStays, ToldStays DEF RequestInv, Ordered
<1>8. Costs(r)'
  <2>1. /\ IsFiniteSet(Agent!Started(r)) /\ Spent(r) <= Price(r) * (1 + restarts[r])
        /\ memory[r] <= restarts[r] /\ memory[r] <= 1 + restarts[r]
        /\ Spent(r) + Cardinality(Left(r)) <= Price(r) * (1 + restarts[r])
    BY <1>1, <1>2 DEF RequestInv, Costs
  <2>2. /\ IsTail(r)' /\ Price(r)' = Price(r) /\ Cardinality(Left(r)') \in Nat
        /\ Cardinality(Left(r)') <= Cardinality(Left(r))
    BY <1>1, <1>3, NextAgent
  <2>3. Spent(r)' = Spent(r)
    BY <1>5 DEF Spent
  <2>4. Price(r) * (1 + restarts[r]) \in Nat
    BY <1>1, ActionRuns, OneMore
  <2>5. Spent(r)' + Cardinality(Left(r)') <= Price(r)' * (1 + restarts[r])
    BY <1>1, <2>1, <2>2, <2>3, <2>4, ActionRuns
  <2>6. ~ActionToCome(r)'
    BY <1>1 DEF ActionToCome
  <2>. QED BY <1>1, <1>5, <2>1, <2>2, <2>3, <2>5, <2>6 DEF Costs
<1>. QED BY <1>4, <1>6, <1>7, <1>8, RunActs DEF RequestInv

\* A run of the sales agent is started, whether the router hears of it or not: it is one
\* of the names that were left.
LEMMA StartsAgentKeeps ==
  ASSUME AgentInv, NEW r \in Requests, Agent!Delegates(r) \/ Agent!DelegateAnswerLost(r)
  PROVE  AgentInv'
<1> DEFINE o == Agent!NextOutreach
<1>1. /\ busy[r] = "execute-action" /\ calling[r] # <<>>
      /\ Agent!HasWorkflow(Head(calling[r]))
      /\ calling' = [calling EXCEPT ![r] = Tail(@)]
      /\ state' = [state EXCEPT ![o] = "running"] /\ origin' = [origin EXCEPT ![o] = r]
      /\ briefed' = [briefed EXCEPT ![o] = context[r]]
      /\ UNCHANGED <<done, busy, context, intent, output, memory, restarts>>
      /\ \/ /\ workflowIds' = [workflowIds EXCEPT ![r] = @ \union {o}]
            /\ unheard' = unheard
         \/ /\ workflowIds' = workflowIds
            /\ unheard' = unheard \union {o}
  BY DEF Agent!Delegates, Agent!DelegateAnswerLost, Agent!StartsAgent, Agent!Called, Agent!Executing,
         Agent!Nobody
<1>2. o \in Outreaches /\ state[o] = "none" /\ origin[o] = "none" /\ o \notin unheard
  <2>1. o \in Agent!Free
    BY DEF Agent!Delegates, Agent!DelegateAnswerLost, Agent!StartsAgent, Agent!Called, Agent!NextOutreach
  <2>. QED BY <2>1 DEF Agent!Free, AgentInv, CallsTyped
<1> HIDE DEF o
<1>3. RequestInv(r) /\ Tail(calling[r]) \in Seq(STRING)
  BY <1>1, ActionRuns, TailOfList
<1>4. /\ calling'[r] = Tail(calling[r]) /\ \A q \in Requests \ {r} : calling'[q] = calling[q]
      /\ calling' \in [Requests -> Seq(STRING)]
  BY <1>1, <1>3 DEF AgentInv, RouterTyped
<1>5. /\ \/ workflowIds'[r] = workflowIds[r] \union {o} /\ unheard' = unheard
         \/ workflowIds'[r] = workflowIds[r] /\ unheard' = unheard \union {o}
      /\ \A q \in Requests \ {r} : workflowIds'[q] = workflowIds[q]
      /\ workflowIds' \in [Requests -> SUBSET Outreaches]
  <2>1. workflowIds \in [Requests -> SUBSET Outreaches]
    BY DEF AgentInv, RouterTyped
  <2>2. CASE workflowIds' = [workflowIds EXCEPT ![r] = @ \union {o}] /\ unheard' = unheard
    <3>1. workflowIds[r] \union {o} \in SUBSET Outreaches
      BY <1>2, <2>1
    <3>. QED BY <2>1, <2>2, <3>1
  <2>3. CASE workflowIds' = workflowIds /\ unheard' = unheard \union {o}
    BY <2>1, <2>3
  <2>. QED BY <1>1, <2>2, <2>3
<1>6. EngineTyped' /\ \A q \in Requests : state'[q] = state[q]
  BY <1>1, <1>2, RunsAssumption DEF AgentInv, EngineTyped
<1>7. RouterTyped' /\ CallsTyped'
  BY <1>1, <1>2, <1>4, <1>5 DEF AgentInv, EngineTyped, RouterTyped, CallsTyped
<1>8. /\ Agent!Started(r)' = Agent!Started(r) \union {o} /\ o \notin Agent!Started(r)
      /\ \A q \in Requests \ {r} : Agent!Started(q)' = Agent!Started(q) /\ o \notin Agent!Started(q)
  BY <1>1, <1>2, OriginsAssumption DEF AgentInv, CallsTyped, Agent!Started
<1>80. /\ \A q \in Requests \ {r} : Heard(q)' = Heard(q)
       /\ Heard(r)' = IF unheard' = unheard THEN Heard(r) \union {o} ELSE Heard(r)
  BY <1>1, <1>2, <1>5, <1>8 DEF Heard
<1>9. briefed'[o] = context[r] /\ \A p \in Outreaches \ {o} : briefed'[p] = briefed[p]
  BY <1>1, <1>2 DEF AgentInv, CallsTyped
<1>10. \A q \in Requests : Agent!Started(q) \subseteq Outreaches
  BY DEF Agent!Started
<1>11. \A q \in Requests \ {r} : Remains(q)
  BY <1>1, <1>4, <1>5, <1>6, <1>8, <1>80, <1>9, <1>10 DEF Remains
<1>12. Ordered(r)'
  BY <1>1, <1>3, <1>6 DEF RequestInv, Ordered
<1>13. Settled(r)'
  <2>1. "classify-intent" \in done[r] /\ Settled(r)
    BY <1>1, <1>3, ActionRuns DEF RequestInv
  <2>. QED BY <1>1, <1>8, <1>9, <1>10, <2>1 DEF Settled
<1>14. Told(r)'
  <2>1. state'[r] # "succeeded"
    BY <1>1, <1>6, ActionRuns
  <2>2. Told(r) /\ restarts'[r] = restarts[r]
    BY <1>1, <1>3 DEF RequestInv
  <2>. QED BY <1>1, <1>2, <1>5, <1>8, <1>80, <2>1, <2>2 DEF Told
<1>15. Costs(r)'
  <2>1. /\ IsFiniteSet(Agent!Started(r))
        /\ memory[r] <= restarts[r] /\ memory[r] <= 1 + restarts[r]
        /\ Spent(r) + Cardinality(Left(r)) <= Price(r) * (1 + restarts[r])
    BY <1>1, <1>3 DEF RequestInv, Costs
  <2>2. /\ IsTail(r)' /\ Price(r)' = Price(r) /\ Cardinality(Left(r)') \in Nat
        /\ Cardinality(Left(r)') = Cardinality(Left(r)) - 1
    BY <1>1, <1>4, NextAgent
  <2>3. IsFiniteSet(Agent!Started(r)') /\ Spent(r)' = Spent(r) + 1
    BY <1>8, <2>1, FS_AddElement DEF Spent
  <2>4. Price(r) * (1 + restarts[r]) \in Nat
    BY <1>1, ActionRuns, OneMore
  <2>5. /\ Spent(r)' + Cardinality(Left(r)') <= Price(r)' * (1 + restarts[r])
        /\ Spent(r)' <= Price(r)' * (1 + restarts[r])
    <3>1. Spent(r) \in Nat /\ Cardinality(Left(r)) \in Nat
      BY <1>1, ActionRuns
    <3>. QED BY <2>1, <2>2, <2>3, <2>4, <3>1
  <2>6. ~ActionToCome(r)'
    BY <1>1 DEF ActionToCome
  <2>. QED BY <1>1, <2>1, <2>2, <2>3, <2>5, <2>6 DEF Costs
<1>. QED BY <1>6, <1>7, <1>11, <1>12, <1>13, <1>14, <1>15, RunActs DEF RequestInv

\* Nothing that the invariant speaks of changes.
LEMMA AgentsRemain ==
  ASSUME AgentInv,
         UNCHANGED <<state, done, busy, context, intent, calling, workflowIds, output, origin,
                     briefed, memory, restarts, unheard>>
  PROVE  AgentInv'
<1>1. EngineTyped' /\ RouterTyped' /\ CallsTyped'
  BY DEF AgentInv, EngineTyped, RouterTyped, CallsTyped
<1>2. \A q \in Requests : Agent!Started(q)' = Agent!Started(q) /\ Heard(q)' = Heard(q)
  BY DEF Agent!Started, Heard
<1>3. \A q \in Requests : Remains(q)
  BY <1>2 DEF Remains
<1>. QED BY <1>1, <1>3, RequestRemains DEF AgentInv

LEMMA AgentStepKeeps ==
  ASSUME AgentInv, Agent!Next
  PROVE  AgentInv'
<1>1. CASE Agent!WorkerStarts \/ \E w \in Agent!Workflows : Agent!Registers(w)
  BY <1>1, AgentsRemain DEF Agent!WorkerStarts, Agent!Registers, Agent!engine, Agent!router,
                            Agent!calls, Agent!history
<1>2. CASE Agent!WorkerExits
  BY <1>2, WorkerExitsKeeps
<1>3. ASSUME NEW i \in Agent!Runs,
             \/ Agent!Trigger(i) \/ Agent!TimesOut(i) \/ Agent!NobodyTakes(i)
             \/ \E step \in Agent!Steps(i) : Agent!Begin(i, step)
      PROVE  AgentInv'
  BY <1>3, TriggerKeeps, TimesOutKeeps, BeginKeeps DEF Agent!Runs
<1>4. ASSUME NEW r \in Requests,
             \/ Agent!RecallContext(r) \/ Agent!ClassifyIntent(r) \/ Agent!ClassifyFails(r)
             \/ Agent!Respond(r) \/ Agent!Delegates(r) \/ Agent!DelegateAnswerLost(r)
             \/ Agent!DelegateFails(r) \/ Agent!Conclude(r)
      PROVE  AgentInv'
  BY <1>4, RecallOrClassifyKeeps, ClassifyFailsKeeps, RespondKeeps, StartsAgentKeeps,
     DelegateFailsKeeps, ConcludeKeeps
<1>5. ASSUME NEW o \in Outreaches, Agent!StepSucceeds(o) \/ Agent!StepThrows(o)
      PROVE  AgentInv'
  BY <1>5, OutreachStepKeeps
<1>. QED BY <1>1, <1>2, <1>3, <1>4, <1>5 DEF Agent!Next

LEMMA AgentInitInv ==
  ASSUME Agent!Init
  PROVE  AgentInv
<1>1. /\ \A i \in Requests \union Outreaches : state[i] = "none" /\ done[i] = {} /\ busy[i] = ""
      /\ EngineTyped
  BY DEF Agent!Init, Agent!Runs, EngineTyped
<1>2. /\ \A r \in Requests : intent[r] = Agent!NoIntent /\ restarts[r] = 0 /\ memory[r] = 0
      /\ \A o \in Outreaches : origin[o] = "none"
  BY DEF Agent!Init
<1>3. RouterTyped /\ CallsTyped
  <2>1. calling \in [Requests -> Seq(STRING)]
    <3>1. calling = [r \in Requests |-> <<>>]
      BY DEF Agent!Init, Agent!Nobody
    <3>2. <<>> \in Seq(STRING)
      OBVIOUS
    <3>. QED BY <3>1, <3>2
  <2>2. restarts \in [Requests -> Nat] /\ memory \in [Requests -> Nat]
    BY DEF Agent!Init
  <2>3. /\ context \in [Requests -> BOOLEAN]
        /\ intent \in [Requests -> Agent!Intents \union {Agent!NoIntent}]
        /\ workflowIds \in [Requests -> SUBSET Outreaches]
        /\ DOMAIN output = Requests
    BY DEF Agent!Init
  <2>. QED BY <2>1, <2>2, <2>3 DEF Agent!Init, RouterTyped, CallsTyped
<1>4. ASSUME NEW r \in Requests PROVE RequestInv(r)
  <2>1. Agent!Started(r) = {}
    BY <1>2, OriginsAssumption DEF Agent!Started
  <2>2. Ordered(r)
    BY <1>1 DEF Ordered
  <2>3. Settled(r) /\ Told(r)
    BY <1>1, <1>2, <2>1 DEF Settled, Told
  <2>4. Costs(r)
    <3>1. IsFiniteSet(Agent!Started(r)) /\ Spent(r) = 0
      BY <2>1, FS_EmptySet DEF Spent
    <3>2. Price(r) \in Nat
      BY <1>2, NamedAreFinite
    <3>3. busy[r] # "execute-action"
      BY <1>1
    <3>4. /\ Spent(r) <= Price(r) * (1 + restarts[r]) /\ Spent(r) <= Price(r) * restarts[r]
          /\ memory[r] <= restarts[r] /\ memory[r] <= 1 + restarts[r]
      BY <1>2, <3>1, <3>2
    <3>. QED BY <3>1, <3>3, <3>4 DEF Costs
  <2>. QED BY <2>2, <2>3, <2>4 DEF RequestInv
<1>. QED BY <1>1, <1>3, <1>4 DEF AgentInv

\* The instance counts with a copy of Cardinality.
LEMMA SameCount == \A S : Agent!Cardinality(S) = Cardinality(S)
  BY Zenon DEF Agent!Cardinality, Cardinality

\* What WorkIsEarned says of one request.
Earned(r) ==
  /\ Agent!WorkflowResult(r).ids \subseteq Agent!Started(r)
  /\ Agent!WorkflowResult(r).action = "DELEGATE" /\ restarts[r] = 0 =>
       Agent!WorkflowResult(r).ids = Heard(r)
  /\ Cardinality(Agent!Started(r)) <= Cardinality(Agent!Named(r)) * (1 + restarts[r])
  /\ memory[r] <= 1 + restarts[r]
  /\ \A o \in Agent!Started(r) : briefed[o] = context[r]

\* What the agents do for a request is what was decided on, for any number of requests,
\* outreaches and deaths of the worker, and any lists of agents: no more runs than the
\* intent names for each beginning of the action, each with what was recalled for the
\* request, one memory for each beginning, and an answer that names the runs whose start
\* the router heard of.
THEOREM AgentsEarnTheirWork == WorkSpec => []WorkIsEarned
<1>1. WorkInit => AgentInv
  BY AgentInitInv DEF WorkInit
<1>2. AgentInv /\ [WorkNext]_work => AgentInv'
  <2>1. AgentInv /\ UNCHANGED agents => AgentInv'
    BY AgentsRemain DEF agents
  <2>2. AgentInv /\ WorkNext => AgentInv'
    BY <2>1, AgentStepKeeps DEF WorkNext, MailStep, AgentStep
  <2>. QED BY <2>1, <2>2 DEF work
<1>3. AgentInv => WorkIsEarned
  <2>. SUFFICES ASSUME AgentInv, NEW r \in Requests PROVE Earned(r)
    <3>1. (\A q \in Requests : Earned(q)) => Agent!WorkIsEarned
      BY SameCount DEF Agent!WorkIsEarned, Earned, Heard
    <3>. QED BY <3>1 DEF WorkIsEarned
  <2>1. Costs(r) /\ Settled(r) /\ Told(r)
    BY DEF AgentInv, RequestInv
  <2>2. CASE state[r] = "succeeded"
    BY <2>1, <2>2 DEF Earned, Costs, Settled, Told, Spent, Price, Agent!WorkflowResult
  <2>3. CASE state[r] # "succeeded"
    <3>1. Agent!WorkflowResult(r).ids = {} /\ Agent!WorkflowResult(r).action = "none"
      BY <2>3 DEF Agent!WorkflowResult, Agent!NoOutput
    <3>. QED BY <2>1, <3>1 DEF Earned, Costs, Settled, Spent, Price
  <2>. QED BY <2>2, <2>3
<1>. QED BY <1>1, <1>2, <1>3, PTL DEF WorkSpec
=============================================================================
