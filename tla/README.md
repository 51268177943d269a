# A TLA+ model of Zroky

Zroky is an executive assistant for email and calendars. A FastAPI service
(`apps/api`, Python) ingests mail, classifies it, drafts replies with language
models and sends them; a worker beside it (`apps/api/src`, TypeScript) runs the
durable workflows of the agents; a Node service (`packages/connectors`,
TypeScript) holds the OAuth tokens of Gmail and Microsoft 365, synchronises
accounts and executes provider actions; a Next.js application (`apps/web`) shows
all of it. This directory models the parts that move state under concurrency and
failure. TLC checks small instances; TLAPS proves every safety property that these
checks pass for every instance.

Paths of the form `core/...`, `workers/...`, `agents/...` are below
`apps/api/app/`; `connectors/...` is `packages/connectors/src/`; `web/...` is
`apps/web/src/`.

## 1. Inventory

| Component | State it keeps | Operations | Hard behaviour |
|---|---|---|---|
| Job queue (`core/queue.py`, `models/job.py`) | table `jobs`; a loop per process | enqueue, acquire, run handler, mark done/failed, watchdog | four processes on one table, read and write in separate statements, crashes, outcome records that overwrite each other |
| Draft sending (`agents/aaliyah/core/action_executor.py`, `runtime_gate.py`, `drafting.py`, `api/routes.py`) | draft in `triaged_emails.metadata_json`, table `send_tokens` | send through executor, mark through route, edit, draft | whole-column read-modify-write by four kinds of requests, lost provider answers, a row lock across an `await` |
| Email pipeline (`workers/local_sync.py`, `core/ingestion/email_ingestor.py`, `core/handlers/inbox_manager.py`) | history cursor, `triaged_emails` | incremental sync, delete, insert stub, upsert, triage | overlapping syncs on one cursor, cursor committed first, deletions before insertions |
| Agent workflows (`apps/api/src/workflows`) | runs and steps in the engine, the memory of conversations | trigger, recall, classify, delegate, research, draft, save | a step past its time limit goes on; a dead worker's step is run again; a run starts though its start is answered by an error |
| Connector tokens (`connectors/services/token.service.ts`) | token record, Redis lock | get token, refresh, revoke, connect | rotating refresh tokens, lock expiry, revocation during a refresh |
| Connecting and revoking (`connectors/routes/index.ts`, `encryption.service.ts`) | OAuth state in Redis, accounts, data keys, sync state | begin, callback, revoke | steps of one handler that fail separately; two first keys of a tenant; a cache per process |
| Connector approvals (`connectors/services/approval.service.ts`) | approval records | create, approve, reject, expire, validate, execute, mark | check-then-act around an awaited provider call |
| Connector sync (`connectors/workers/sync.worker.ts`, `server.ts`) | `sync_state` with cursors, three queues | webhook, full and incremental sync, shutdown | retries with the cursor read at the begin, pages, redeliveries |
| Mail adapters (`connectors/adapters/*/`) | none of their own: the provider's mailbox | draft create/read/update/send, bulk operations, threads | read-modify-write against the owner; what was sent when the answer fails; Graph's new ids |
| Calendar adapters | none: the provider's calendar | create, update, respond, delete, find times | whole attendee lists, intervals, zones |
| Web client (`web/hooks`, `web/lib/aaliyah`, composer, wizard, feed) | page state, `sessionStorage` | connect, send, load, poll, cancel, compose | callbacks of what was left, timers shared between runs, aborted fetches |
| Web pages (`useWorkspaceEffects.ts`, `InboxOverview.tsx`, ...) | page state | greet, load, act on a card, open a thread, show a week | effects that read the rendering they belong to, loads that overlap |
| Workspace settings (`settings_json`, the forms) | one JSON document per workspace | read, merge, write whole; load and save a form | read-modify-write by four processes and the workers |
| Undo and audit (`core/undo_service.py`) | audit rows | audited action, undo | check-then-act around a provider call; an error overwrites UNDONE |
| Proactive chat (`workers/auto_chat_worker.py`, `followup_worker.py`) | per-process sets; metadata of emails | announce, nudge | four processes with private memory; events emitted before they are recorded |
| Retention purge (`workers/zdr_purge.py`) | `triaged_emails` | scrub old rows | the scrubbed text matches the query again |
| Rate limits, idempotency keys (`agents/aaliyah/api/routes.py`) | in-memory dictionaries | allow, cache | private to one of four processes |
| Runtime gate, autonomy, policies | settings, confidences | decide | pure, apart from what `SendDraft` has of it |
| Task state machine (`services/state_machine.py`) | none | transition table | none; no mounted route uses it |
| Chat and language models, calendar of the Python service, notetaker, migrations | - | - | input/output and presentation |

How they interact. Webhooks, people and `scheduler_loop` (every five minutes)
call `enqueue`; the worker loop of some process runs `process_sync_provider`,
which enqueues `process_ai_triage` for each new message, which enqueues
`process_drafting`. The morning-sync request does the same work inline
(`sync_inbox`). A draft is edited and sent by requests; the executor asks the
connectors, whose adapters get their tokens from `TokenService` (which refreshes
them under a Redis lock) and whose routes ask for an approval where an action is
risky. The page loads, acts and listens: one event stream tells it of new mail,
of progress and of what the assistant says.

What the models take from the deployment: `entrypoint.sh:27` starts four gunicorn
workers, each of which runs the worker and scheduler loops (`main.py:96`) on the
event loop that also serves requests. The database is PostgreSQL at its default
isolation (read committed): one statement is atomic, a later statement of the
same session sees what others have committed. The ORM sends only the columns that
differ from the row as it was read. `run_watchdog` exists but `main.py` does not
start it; `worker.py` is an older entry point with handlers that do nothing.

The properties that make each component correct are listed with the runs in
section 3; the hazards behind them, at their lines, in `PROJECT.json`.

## 2. Modules

| Module | Models | Proofs |
|---|---|---|
| `JobLedger` | abstract: what the queue promises its callers | |
| `JobQueue` | enqueue, acquire, outcome records, watchdog, crashes | `JobQueueProofs` |
| `SendDraft` | executor, the route that marks, editors, both drafters on one email | `SendDraftProofs` |
| `MailSync` | incremental sync, stubs, upserts, triage | `BackgroundWorkProofs` |
| `AgentWorkflows` | the router of requests and the agent it delegates to | `BackgroundWorkProofs` |
| `BackgroundWork` | composes `MailSync` and `AgentWorkflows` | |
| `TokenRefresh` | `refreshTokensWithLock`, revocation, connection | `TokenRefreshProofs` |
| `ApprovalGate` | approvals, deciders, executors | `ConnectorServiceProofs` |
| `ConnectAccount` | authorization, callbacks, data keys, revocation | `ConnectorServiceProofs` |
| `ConnectorSync` | sync workers, webhooks, cursors | `ConnectorServiceProofs` |
| `ConnectorService` | composes `ApprovalGate`, `ConnectAccount` and `ConnectorSync` | |
| `Mailbox` | drafts and bulk operations of both mail adapters | `ProviderAdaptersProofs` |
| `MailThreads` | threads listed, searched and read | `ProviderAdaptersProofs` |
| `CalendarEvents` | events, answers, zones, free times | `ProviderAdaptersProofs` |
| `ProviderAdapters` | composes the three above for one account | |
| `WorkspaceSettings` | `settings_json`, its writers, the forms | `WebClientProofs` |
| `LiveStream`, `ChatThreads`, `FirstSync`, `InboxLists`, `NotificationFeed`, `ConnectPopup`, `ComposeMail` | the parts of the page that wait, retry and overlap | `WebClientProofs` |
| `WebClient` | composes those seven and `WorkspaceSettings` | |
| `WorkspacePage`, `ApiClient`, `TriageCards`, `ThreadPage`, `WeekCalendar` | the pages over the client of the API | `WebPagesProofs` |
| `WebPages` | composes those five | |

`MC...` modules give the constants their values for TLC.

An action is one atomic step of the code: a database statement or commit, a Redis
command, a provider request, a callback of the page, or the local code between two
of them. Where the code reads, awaits and writes, there are as many actions and the
value read is kept in a variable (`seen`, `copy`, `held`, `since`, `call`), so that
all interleavings are there. Operators whose comment begins with "As if" are
plausible mistakes; no behaviour of a model contains them, and they show that the
property named for them in `PROJECT.json` can fail.

**Compositions.** `BackgroundWork`, `ConnectorService`, `ProviderAdapters`,
`WebClient` and `WebPages` put side by side what runs in one process or page and
shares no variable. There a behaviour is about one part (`focus`, `service`, a
disjunction of initial states; for `ConnectorService` the constant `Services` says which
parts, so that `connector_service` and `sync_connector` are two instances of it): the product of parts that do not meet has no more
to show than each part with the others at rest, each in one initial state. Where one part asks something of
another (an event of the stream that refreshes the inbox), the request is a step
that the other part may take at any time.

**JobQueue.** One function per column of the table. `Select`/`Acquire` are the two
statements of `_acquire_job`; `ReadDone`/`WriteDone` and `ReadFailed`/
`WriteFailed` those of the outcome records; `SetStatus` is the ORM's rule that an
unchanged column is not sent. Time is relative: `wait` is `run_at` minus now,
`lockAge` now minus `locked_at`, and `Tick` moves both. `Ledger` is the refinement
mapping to `JobLedger`, in which PENDING and RUNNING are both "open".

**SendDraft.** One email. `row` is its draft, `copy` what a request read of it,
`tokens` the committed send tokens (the primary key is made of email and body, so
a body stands for its token). `MarkSent` is all that `/drafts/send` does: it commits
"sent" and then raises (`routes.py:895-899`), which ends the request. `deliveries` and
`unapproved` are what the provider saw; `marked`, `retyped` and `unlabelled` are the bodies
that the route marked, that a person typed over a marked draft, and that came into the row
without the labels of the drafting model, from `process_drafting` or from an editor. `rowLock` is the open transaction of a drafter that
has flushed its clearing of the old draft; `stuck` are coroutines whose
synchronous commit waits for it, which stops their `Loop`.

**MailSync.** One workspace and one Gmail account. `clock`, `added`, `removed`,
`purged` are the mailbox and its history; `cursor` is `last_history_id`. `dropped`
collects, by name of the action, what the code knowingly gives up: what a first
sync or a full page passes, noise that is archived, and what an ended sync or a
dead-lettered job had. The triage job is the queue's promise (`JobLedger`) for one
dedupe id; `"stale"` is a job whose row was deleted.

**AgentWorkflows.** A run is a set of steps `done` and the one that is `busy`. The
engine is external: it gives out a step whose parents are done, fails the run past
the step's limit, and hands a dead worker's step to the next. The function of a
step that timed out goes on (`router`, `Called`), because nothing stops it. Each round of
the loop over the agents has three outcomes: a run whose id comes back (`Delegates`), a run
whose start goes unheard (`DelegateAnswerLost`, which the catch of `chief-router.ts:133`
takes for a failure), and no run (`DelegateFails`).

**TokenRefresh.** One account. Refresh tokens are generations; `accepted` are
those the provider takes. The provider, Redis and the calls are processes of their
own. The lock may run out at any time, as nothing bounds a refresh by its 30 seconds;
`overrun` are the calls that lost their lock, to time or to another call's `DEL`.

**ApprovalGate.** Every operation is a `Look` at the record followed by an
`Update` by id; `granted` and `runs` record what really happened.

**ConnectAccount.** A `flow` is a state in Redis, a `callback` the handler that
redeems it; `GET` and `DEL` of the state are two steps. `keys` are the rows of
`encryption_keys`, `cache` what each process believes the data key to be;
a token is stored with the key that encrypted it and the version it names.

**ConnectorSync.** The provider numbers its changes; a cursor, a page token and
what a job has listed are numbers. `seen` is what some sync has counted, `beyond`
what the pages after the first of a Gmail history had. Microsoft's full calendar listing is
refused whatever it asks for (`ListEventsRefused`), because the adapter appends a filter
that no server parses (`graph-calendar.adapter.ts:156-165`). An unawaited `queue.add` is
taken to reach Redis before the webhook's job completes.

**Mailbox, MailThreads, CalendarEvents.** `box` maps ids to messages (Graph gives
a moved message a new id), `calendar` events to their time as stored, their details and the
answers of their guests. `call` is a request in progress with what it has read; the owner
edits, moves and deletes between its steps. The content of a draft is one edit number for
each of subject, body, attachments and thread (with the headers of a reply), so that what
Gmail's rewrite of a draft loses is seen to be lost. For threads, a message is the number
of its arrival.

**The page.** A fetch on its way is a record with what the closure of its callback
holds (the thread, the setter, the request's number), which is what makes a late
answer dangerous. React's effects run after the rendering they belong to and before
the next one (`WorkspacePage`): they read that rendering's state. Delays are not
modelled, only which timers are set; the heartbeat of the page asks for ever, and only
answers that change the health it knows are bounded. A card's button asks a route:
`MarksSent` marks a draft and answers with an error, `Briefs` makes a briefing.

**Bounds in the modules.** Every counter named `Max...` is a bound: of faults,
edits, visits, retries, connections, commits. `hurried`, `crossed`, `overtaken`,
`overrun`, `missed`, `beyond`, `dropped`, `marked`, `retyped`, `unlabelled` and `unheard`
mark behaviours in which the code departs from a
property in a way that section 5 describes; the property excludes those and no
others, and each mark is set by the step of the code that causes it.

## 3. Runs

| Run | Shows | Bounds |
|---|---|---|
| `queue_single` | with one process the table implements `JobLedger` (`ImplementsLedger`), a running row can always be taken back, and every job is settled | 2 jobs, 1 worker, 1 caller, 1 dedupe id, 2 attempts, 2 failing runs per job, 1 fault |
| `queue_pair` | with two processes and the watchdog, DONE and DLQ are still earned | 1 job, 2 workers, 2 attempts, 3 failing runs, 1 reclaim, 2 faults of any kind |
| `send_draft` | the executor sends a body once; what is marked sent was mailed, marked by the route or typed over a marked draft; a label in the row is not lost; no orphaned lock | 2 senders, 1 request of the route, 1 editor who types a risky body, 1 drafter of the job, 1 of the inbox, 2 bodies, 1 fault; at most two requests under way, or two senders and one other |
| `send_route` (violation) | a draft is marked sent whose mail never leaves | 1 request of `/drafts/send`, 1 sender, 1 drafter |
| `token_refresh` | two refreshes run at once only after a lost lock and lose no grant of themselves; the lock is freed and what is due is refreshed | 3 calls, 3 generations, 1 aging, 2 faults; the lock may run out at any time |
| `connector_service` | what runs was granted and EXECUTED means executed; stored tokens decrypt, success means an account that works, a revoked account stays revoked unless it is connected meanwhile | 1 approval, 2 deciders, 2 executors, 2 faults; 1 account, 2 processes, 3 flows and callbacks, 1 revocation, 1 fault |
| `sync_connector` | no cursor passes an uncounted change; every accepted notification is followed by a sync unless one used up its attempts | 2 jobs, pages of 1, 2 changes, 2 notifications, 1 requested sync, 2 attempts, 1 fault |
| `sync_ingest` | every "Processing..." row is answered for, nothing is lost beyond what is named; agents do what was decided and tell of it | 1 message, 1 job sync, 1 morning sync, 1 record per page, 2 attempts, 2 faults; 1 request, 2 agent runs, 1 death of the worker |
| `provider_adapters` | no draft leaves twice, answers are true, updates keep what they do not name of the subject and body of a draft and the title and place of an event, an answer of the owner keeps those of the guests, conversations are told as they are, suggested times are free and none earlier is missed | 2 mails, 5 ids, 2 draft calls, 1 bulk call, 2 edits, 1 fault; 2 events, 2 guests, 2 callers, hours 0..4, 2 zones; 2 threads, 3 arrivals, pages of 2 |
| `web_client` | the stream comes back and is not cut, what the user wrote stays, settings are merged, late answers are ignored, waits end | 3 connections, 1 return of the network; 2 threads, 1 message of the user, 1 of the page, 1 retry, 2 visits; 2 triggers, 2 polls; 2 conversations, 4 commands; 2 writers at once, 2 commits; 2 connections of the wizard; 1 letter of each kind, 1 file, 1 card |
| `web_pages` | one greeting, repeats are earned, done was done, what is shown belongs to what is named, weeks are whole up to fifty events ahead, waits end | 3 answers that change the health, 1 remark; 1 call with its retries; 1 mail, 1 meeting, 2 loads; 2 threads, 2 queues; 3 weeks, 4 events, 3 turns |
| `settings_form` (violation) | a form that is opened does not show what is stored | 1 form at a time, 2 writers, 2 commits |

The races are between two actors; a third call or flow is there where a third party
can disturb a pair. Two attempts distinguish the last from the others, one more
failing run than attempts lets overlapping runs fail more often than the counter
says, and two faults allow a fault during the recovery from another. In `send_draft` a race
needs one request that has read and one that writes; a third is there only beside two
senders, whose tokens a redraft or an edit can part. One message is
enough for `sync_ingest`: syncs interact through the cursor and the row of a
message, and the only interaction of messages is that an exception drops those of
its batch, which `Leave` does for all. Five ids let a Graph message move twice and
another be sent. Two threads of three messages, with a page of two, are the least in
which a page cuts a thread and a thread's first and last message differ. Hours 0..4
with two events and one busy time elsewhere contain every order of three intervals
that touch, overlap or enclose each other at the sizes of the search. A page has
two of whatever can be left for another (thread, conversation, letter, queue).
Saturating counters (`OneMore`, `Older`, `MaxLate`) are named where they are defined.

`CHECK_DEADLOCK FALSE` stands where the system may stop: every approval is
executed, the mailbox receives no more, the user does nothing and nothing is due.

### What the properties are about

A property that relates more than a page's worth of the code is explained where it
is defined. The ones a reader should look at first:

* `ImplementsLedger`, `DeadLetterEarned`: whatever outcome records overwrite each
  other, the queue keeps its promise to its callers.
* `SentIsAccounted` and `LabelsHold`: a status and a label survive what requests write back
  of an older row, except where one named step of the code drops them.
* `ExecutorSendsOnce` and `DraftLeavesOnce`: one mail, whoever retries, on both sides
  of the wire. The first needs the send token; the second holds because sending
  consumes the draft, although one approval may be executed twice.
* `RunsAreGranted`, `RevocationHolds`, `SuccessIsUsable`, `TokensDecrypt`: handlers of
  several steps that fail in the middle or overlap.
* `NothingIsSkipped`, `EveryNotificationIsServed`, `NothingElseIsLost`: cursors.
* `WorkIsEarned`: an engine that cannot stop a function still does no more than was
  decided.
* `KeepsHealthyStream` with `WaitsEnd`: the reconnection neither gives up nor cuts a
  stream that works.
* `MineStay`, `LetterIsKept`, `ShownBelongs`, `OverlayFollowsRequest`: late answers
  on a page that has moved on.
* `SavedStands`: whole-document writes lose nothing unless they overlap.

### Fairness

Only what the code's own scheduling gives:

* `JobQueue`: the loop of a live process takes its next step, a dead process is
  restarted by gunicorn or the container, time passes. In `queue_single` the
  faults leave the loop running; the one that does not is described below.
* `TokenRefresh`: a call goes on, adapters ask for the token before every request,
  Redis expires its keys.
* `MailSync`: the scheduler asks for syncs for ever and the queue runs them and
  the triage jobs (this is `EveryJobSettles`); a morning sync goes on once begun.
* `ConnectorSync` (`SyncFairness` of `ConnectorService`): the queues run what they hold, and a shutdown completes.
* The page: timers that are set fire, requests end (in success or failure), effects
  run after their rendering, a closed popup is noticed. For the stream there is strong
  fairness on its token, on the library and on the opening of a connection: each
  attempt may fail any number of times, but not for ever.

  The gate of the workspace has strong fairness too: its timer is set anew only by a
  rendering of the whole page and fires between any two effects. Nothing says that
  heartbeats stop: each synchronisation ends (`SyncsEnd`), and that they cease is promised
  only for a page on which the heartbeats have (`SettlesAlone`).

Faults, crashes, clicks and the arrival of requests have no fairness, nor do the agents,
about which no liveness is claimed.

## 4. Proofs

The theorems are of the form `Spec => []Inv` or `Spec => [][A]_vars`, where `Spec` is
the specification of the module or of the composition that a run checks, for any sets
of actors, jobs, messages and documents and any bounds, from the ASSUMEs of the
modules (which TLC evaluates in the runs). Further hypotheses are named below and stand
in the theorem. Each proof module defines an inductive invariant, proves that the
initial states have it and that every action keeps it, and takes the theorem from that.
In a composition a step is first taken apart (`StepOfOnePart`): one part moves, the
others stand still.

Every safety invariant and every action property of the passing runs is the property of
a theorem. What follows says for each why the property is not inductive as it stands,
and what was added.

**`JobQueueProofs`.** `TypeCorrect`, and `DoneIsEarned` by remembering which worker has a
success in hand. `DeadLettersAreEarned`: the attempts column is written from stale
reads, so it is a debt argument: what the column says, or a worker or the watchdog is
about to write into it, is covered by failed runs and reclaims that happened, where a
run that raised but is not yet recorded by its worker counts once for that worker. A
lost update can only make the column too small. These hold for any number of processes.

`OneProcessReclaims` and `OneProcessKeepsLedger` are about the service run as one
process without the watchdog (`OneWorker`, `NoWatchdog`), which is how a developer
starts it; for two workers both are false, as one can take away the lock that the
other has just written. `SoloInv`: what the worker has read of a row stays true until it
writes that row, so the job in its hand stays RUNNING and has attempts left. The second
is the safety half of `ImplementsLedger`: every step is a step of `JobLedger` or a stutter
under the mapping. It also assumes `OneCaller`: two calls of `enqueue` with one dedupe id
both insert, which the ledger does not allow.

**`SendDraftProofs`.** `TypeCorrect`; `TokensSendOnce` (who is past the insert of the token
owns it, and a delivery is charged to a token whose owner has left `claimed`);
`RiskNeedsApproval` (a risky body in the row or in a copy is labelled, unless it came there
through the drafter that keeps no labels or through an editor: who writes back a stale copy
writes back the label with it); `LockIsOwned`; and `SentIsEarned` (behind an
outcome that a sender has still to record stands a mail). None assumes anything of who takes part.

**`TokenRefreshProofs`.** `RefreshIsExclusive` and `ReleaseIsOwn` (a call deletes only the
lock that it set, unless it had lost it) from "a call past `Acquire` that has not lost its
lock holds it"; `GrantIsNeverLost`: until something fails, what a call is about to store
is accepted by the provider (`StoringIsAccepted`), and nobody else can use it up, because
where tokens rotate it is neither in the record nor in the hand of another call
(`StoringIsUnknown`), which is what makes overlapping refreshes harmless. No bound is put on
how long a call takes.

**`ConnectorServiceProofs`.** *Approvals:* `NoRunWithoutGrant` and `MarksAreTrue` from what a
handler at each place knows of its target, however often the record is overwritten.
*Accounts* (`LinkInv`): `OneKey`, each cache, each key in the hand of a callback or a
revocation and the stored token carry the key of the row, although two processes may
create the first one; `ConnectionsStand` and `RevocationsStand`, what the one has written
is there until the other runs into it, at which point it is marked. From these follow
`StoredTokensDecrypt`, `SuccessWorks` and `RevocationsHold`. *Synchronisation* (`CursorInv`):
every cursor that is stored, or that a job or a page token carries, has behind it only
changes that are counted or given up by name, and a job holds a new cursor only with its
last page: `CursorsSkipNothing`.

**`BackgroundWorkProofs`.** `TypeCorrect` includes that no cursor is ahead of the history.
`EveryStubIsOwned`: what a sync that is storing has in hand is still on its list (so that
ending accounts for it), only removed messages are on a removal list, so only they have
stale jobs, and a queued job has attempts left. `AgentsEarnTheirWork` is a payment
argument: each beginning of the delegating step pays for the names in the intent's list,
and the runs started plus the names left in the lists of functions that still go on are
never more than was paid (`Costs`), heard of or not; before the intent is known nothing
was started, each run was briefed with what was recalled (`Settled`), and what is answered
was started (`Told`). It needs that the lists of agents are sequences of strings, as the schema of the
intent has them (`ListsAssumption`).

**`ProviderAdaptersProofs`.** `DraftsLeaveOnce`: what was delivered is no draft
(`SentIsNoDraft`), no mail is in the mailbox under two ids (`OneCopy`), and a mail nobody
has written is in neither (`UnwrittenIsNew`), so that a new draft is a new mail. Two shapes
carry most actions: a step that keeps messages or lets them go (`Keeps`), and one that moves
a message to another id (`MovedBox`). `AnswersHold`: what a call past its last request owes
(`SendDue`, `BulkDue`) is kept by every other step. `EditsStayLocal`: what a call carries of
the message or the event is what it read; of a draft that is the subject and the body,
since the rewrite of Gmail's loses the rest. `SuggestionsHold` (`SearchInv`): the busy times the
search has passed have ended, and each time that fits is still to come or offered; that the
search takes the earliest is argued by least elements, since what a recursion computes
cannot be had by induction here. `AccountTold`: a conversation is ordered by rank, and an element's rank in a
finite set is its place in the sequence, from which the first, the last and the page of a
conversation follow; what a listing has put together keeps being true of the messages it has read
while mail comes and goes between two of its requests (`ListingInv`, `AnswerInv`).

**`WebClientProofs`.** `SavedIsKept`: a copy that is not stale stands for the document as it
was read, or as the first of the two writes of a save left it. `OverlayIsHonest`
(`Numbered`): no number above the last command's is under way, so that the next command's
is new. `HealthyStreamsLast` (`OneRun`): until the network returns there is one run of
`connect()`, a retry is due only after it has ended, and the watchdog watches the stream
of that run. `LettersAreKept` (`LetterInv`): while a letter is open or on its way, the fields
hold what the user wrote last, and what was sent is that too unless something crossed it. `MessagesStay` (`OneTalks`):
unless hurried, one message at a time is on its way, in the thread that is open, and no
history is being fetched beside it.

**`WebPagesProofs`.** `WeeksAreWhole` (`CalendarInv`): the only request that is not cancelled is the one of
the week on the screen. `CardsAreTrue`: what a load, an answer or a card says is done was
done, or marked by the route. `RepeatsHaveReason` (`CallIsEarned`): each attempt of a call knows what the server has
done for it. `PageGreetsOnce`: the effects that wait know whether the chat of their
rendering begins with the greeting. `ScreenBelongs` (`ThreadInv`, `ListInv`): what a fetch
holds of thread and queue is what it will be shown under, unless a mark says that two
loads overlapped.

**What the proofs corrected.** `UpdateKeepsTheRest` of `Mailbox` asked of a field that an
update leaves alone that it be no older than what the update had read, although another
update may have set it back meanwhile. In `ComposeMail`, the success of a send forgot what the
user had written since, so that `LetterIsKept` said less than it meant; now only the mark
`crossed` excuses that loss. `WeekIsWhole` was false with more than fifty events ahead, the
limit of the route, which the run's four events do not reach: it now names that limit.
`MailThreads` orders messages by explicit functions of their rank in place of a library
operator that no proof can open; the run has the same states.

**Only model-checked.** Liveness: `EveryJobSettles`, `RefreshesEnd`, `NothingElseIsLost`,
`EveryNotificationIsServed`, `WaitsEnd`; and the fairness half of
`ImplementsLedger` (that the mapped behaviour is fair as the ledger's specification wants).
TLAPS here proves neither liveness under fairness nor anything about ENABLED. The
violations are TLC counterexamples.

## 5. What the code does otherwise than it says

With a run: the route `/drafts/send` marks a draft sent and never sends it, because it
awaits a plain function after the commit (`send_route`); a settings form that is opened
again shows the defaults, and its next save writes them over what was
stored (`settings_form`). `PROJECT.json` quotes the comments and lines.

Stated in the modules and refuted by TLC, if given as the property of a
configuration like the ones beside it:

| Property | Module | Counterexample |
|---|---|---|
| `AtomicAcquire` | `JobQueue` (`queue_pair.cfg`) | two processes select one job, then both take it |
| `RiskIsApproved` | `SendDraft` (`send_draft.cfg`) | `process_drafting`, the handler of the production queue (`main.py:90`), writes the draft without its labels (`local_sync.py:482-489`), and the gate, which "blocks" on them (`runtime_gate.py:218-219`), finds none |
| `LockIsReleased` | `SendDraft` (one `Loop` for all) | a commit on the loop waits for the row of a suspended drafter: both stop |
| `RevokedStaysRevoked` | `TokenRefresh` | a refresh stores tokens after the revocation |
| `OneRunPerApproval` | `ApprovalGate` | two requests validate one approval before either marks it |
| `RemovedLeaves` | `MailSync` | a message added and trashed in one window stays in the inbox |
| `WeekIsCovered` | `WeekCalendar` | the page asks for up to 168 hours, the route accepts 72 |

Tests of the repository that the code does not agree with (pure functions, so read
rather than run): `connectors/tests/index.test.ts` expects `redactEmail('a@b.co')` to
be `*@b.co` (the code gives `*@*.co`), `ab@cd.com` to become `**@c***.com` (the code:
`**@**.com`), and a list under `emails` to become `[2 addresses]` (`emails` is not
among the redacted fields).

Read in the code while modelling. **The queue and the pipeline.**

* Two calls of `enqueue` with one dedupe id both insert (`queue.py:44`, no unique
  constraint); a worker that selected a job before it was dead-lettered runs it
  again (`queue.py:95`); a reclaim over a row that changed meanwhile can leave a
  RUNNING row without `locked_at`, which nothing takes back; an error inside
  `_mark_failed` ends the loop of the process (`queue.py:212`).
* A draft that was marked by `/drafts/send` is refused by the executor as already sent, and
  a later load of the cards says "Reply Sent" of it; a draft sent while the model writes is replaced by an
  open one; no body can be sent again after a failure, because its own token
  blocks it (`action_executor.py:187`).
* Only the first page of the history is read, and the cursor moves past the rest;
  one message that answers 404 makes the whole batch vanish; `expired` is never
  set, because the client raises, so a sync whose history id is too old stays
  empty; two first syncs at once skip what arrived between them.
* `time_saved_minutes`, and all of `settings_json`, is a read-modify-write of one JSON
  column; `PUT /auto-chat/settings`, `local_sync.py:233` and `auto_chat_worker.py`
  change the document in place, which the ORM does not notice.
* The router answers "I've delegated your request" though no run was started (only
  the sales agent exists), and names no run whose start was answered by an error;
  `getWorkflowResult` answers null for a failed run as for one that has not ended, so
  whoever polls for it waits for ever (`chief-router.ts:201-205`).
* Undo reads a status, asks the provider and then writes (`undo_service.py:22`): two
  undos both act. Urgent mail may be announced by each of four processes
  (`auto_chat_worker.py:96`); nudges are emitted before the one commit that records
  them (`followup_worker.py:103`). The purge writes a text that its query matches again
  (`zdr_purge.py:58`). Two confirmations of a booking both pass its status check.

**The connector service.**

* A refresh of more than 30 seconds loses its lock, the release is a GET and a DEL,
  and a call that waited 5 seconds answers with the old token.
* A rejected approval can be overwritten by an approval that was read first; nothing
  calls `expireStale`; an approval is not bound to the draft or its contents; after a
  send, a failing audit entry fails the request.
* An OAuth state is read, then deleted; the account is ACTIVE before it has tokens; a
  second revocation after a partial failure throws; a revocation that races a
  connection leaves REVOKED with tokens; no client asks for the account's status.
* The mail worker's incremental sync counts one page of a Gmail history;
  `emailHistoryId` is set by incremental syncs only.
* Gmail's `updateDraft` drops the attachments it is not given, and always the thread and the
  headers of a reply, so that the mail no longer answers what it answered
  (`gmail.adapter.ts:361-383`); its search never passes the query; a listing
  fails if one listed thread vanishes. Graph's `sendDraft` answers with the newest sent
  message; its `createDraft` drops the thread; the dates of the first and the last message
  of a listed thread are swapped, against `models/index.ts:44-45`
  (`graph-mail.adapter.ts:796-799`); `getThread` takes the first page of the oldest messages.
* Graph's listing of a calendar in full is always refused: the end of the period replaces
  the filter by half of one (`graph-calendar.adapter.ts:156-165`), so a first calendar sync
  of a Microsoft account uses up its attempts.
* Graph events are shifted unless their zone is UTC (`toGraphDateTime` gives UTC's
  clock with the other zone's name), also in its search for meeting times; Google's
  `updateEvent` writes "(No title)"; `respondToEvent` writes the whole attendee list;
  `findAvailableTimes` takes an error of free/busy for free; `createEvent` is not
  idempotent.

**The page.**

* Each return of the network makes the stream reconnect again and again: the end of
  the stream it aborts counts as one to recover from. A second stream leaks when the
  network returns during a connection, or the page unmounts while the library loads.
* `api.ts` retries by way of bare axios: one retry of the three, without the overlay on
  401, and for writes too, so a mail that left may be posted again.
* An aborted fetch of a history releases the loading of the next; a send that began in
  an old thread saves the new thread's list under the old key; an empty or failed
  history leaves the previous thread on the screen; a failed attempt's timer goes on.
* The stream refreshes the inbox without its queue; a dismissed progress is overwritten
  by the next poll; two triggers poll side by side.
* A late success of a send clears and closes a newer letter; attachments of a closed
  letter go out with the next; the stream opens a letter over another.
* A late answer closes the thread opened since; a load that began before a send shows
  the draft again, with its button; "Discard" posts to a route that does not exist.
* The wizard never sets the state its callback page compares; a login without a URL
  leaves the wizard connecting (`OnboardingWizard.tsx:94` has no else).
* `|| 3` and `|| 2` turn a setting of 0 into the default; each connection is announced
  twice and synchronises twice; while mail is reachable and something is triaged, each
  heartbeat of the workspace runs its effect again, which synchronises, every 60 seconds
  for ever (`useWorkspaceEffects.ts:313-329`); all-day events and those that end at midnight are not
  shown in the week.

## 6. Not modelled

* Contents of mails, prompts and answers of language models (a nondeterministic
  choice wherever one decides something); encryption; MIME and formatting.
* Undo and audit, proactive chat and follow-ups, the retention purge, in-memory rate
  limits, the task transitions and the scores of the gate: read, with what was found in
  section 5, and left for a later stage. The availability engine and the notetaker too.
* The second key for high-stakes sendings, labels and analytics of a triaged email;
  key rotation (nothing calls it); watches and subscriptions of the adapters (no
  route calls them); the mock mode of the sync worker.
* What nothing mounts or calls: `useSSE`, `EmailDraftArtifact`, the shell with its
  briefing and preflight panels, `components/.../main/*`, the brain page, the inbox
  page; and rendering, wording and layout.
* `MailSync` takes one email account per workspace; the connector models take one
  account, one tenant and one kind of data at a time.

## 7. Plan

Done, in this order: the queue and the sending of drafts; tokens and approvals;
ingestion; the connector service's accounts and sync; the adapters; the page and its
settings; the agents' workflows.

Next:

1. Undo and audit: one audit row, two undos, a provider that fails.
2. Proactive chat and follow-ups: announcements per email over several processes,
   a crash between emission and commit.
3. Availability and slots of the Python service against a reference definition; the
   retention purge as a fixed point.
4. `MailSync` over `JobLedger` in place of its own triage jobs.

Theorems still wanted: type invariants of the parts of the page, of the adapters and of the
agents as theorems of their own (their proofs use weaker shapes); a ledger that allows two
jobs with one dedupe id, which several processes then implement.
