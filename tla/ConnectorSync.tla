--------------------------- MODULE ConnectorSync ---------------------------
(***************************************************************************)
(* The sync worker of the connector package (workers/sync.worker.ts), the  *)
(* webhooks that feed it (server.ts) and what the four provider adapters   *)
(* answer when it asks for changes. One kind of data of one account: mail  *)
(* and calendar have workers, queues and columns of sync_state of their    *)
(* own, and share the webhook worker and the shutdown.                     *)
(*                                                                         *)
(* A provider numbers its changes; a cursor stands for a number. A listing *)
(* answers with one page, whatever is left.                                *)
(***************************************************************************)
EXTENDS Integers, FiniteSets

CONSTANTS
  Jobs,        \* bound: sync jobs in the queues of Redis
  Hooks,       \* bound: webhook jobs in their queue
  Attempts,    \* attempts: 3 of every job
  Page,        \* changes in one page of a provider's answer
  MaxChanges,  \* bound: changes at the provider
  MaxRequests, \* bound: calls of queueEmailSync or queueCalendarSync from outside
  MaxHooks,    \* bound: notifications that the server accepts
  MaxFaults    \* bound: failed calls, crashes and signals to stop

NoCursor == -1
Positions == 0..MaxChanges
Cursors == Positions \union {NoCursor}

VARIABLES
  provider,  \* account.provider
  kind,      \* the kind of data: email or calendar
  feed,      \* changes that the provider has recorded
  oldest,    \* cursors below this one are refused
  cursor,    \* emailHistoryId or calendarSyncToken
  link,      \* calendarDeltaLink
  events,    \* processed_events of the account
  job,       \* the queues email-sync and calendar-sync
  hook,      \* the queue webhook-process
  stage,     \* how far the process is with shutting down
  seen,      \* changes that a sync has counted
  beyond,    \* changes past the page of a sync whose cursor passes them
  served,    \* the newest state that a sync has listed
  failed,    \* a job or a notification has used up its attempts
  requests, notices, faults

vars == <<provider, kind, feed, oldest, cursor, link, events, job, hook, stage, seen,
          beyond, served, failed, requests, notices, faults>>

world == <<provider, kind, feed, oldest>>
database == <<cursor, link, events>>
record == <<seen, beyond, served, failed>>
bounds == <<requests, notices, faults>>

-----------------------------------------------------------------------------
(* What the queues of BullMQ hold.                                          *)

Types == {"full", "incremental"}
JobPlaces == {"waiting", "listing", "storing", "reporting"}
HookPlaces == {"waiting", "marking"}
NoJob == [pc |-> "free"]
JobRecords == [pc : JobPlaces, type : Types, tries : 1..Attempts, mode : Types,
               from : Positions, upto : Positions, next : Cursors]
HookRecords == [pc : HookPlaces, at : Positions, tries : 1..Attempts]

Busy(j) == job[j].pc \notin {"free", "waiting"}
Working(w) == IF w = "webhook" THEN \E h \in Hooks : hook[h].pc = "marking"
              ELSE \E j \in Jobs : Busy(j) /\ kind = w

WaitingJob(type, tries) ==
  [pc |-> "waiting", type |-> type, tries |-> tries, mode |-> "full",
   from |-> 0, upto |-> 0, next |-> NoCursor]

FreeJob == CHOOSE j \in Jobs : job[j] = NoJob
Queued(type) ==
  /\ \E j \in Jobs : job[j] = NoJob
  /\ job' = [job EXCEPT ![FreeJob] = WaitingJob(type, Attempts)]

\* The stages of shutdownSyncWorker: each worker stops fetching and finishes
\* what it has before the next one is told to.
Workers == <<"email", "calendar", "webhook">>
Up == 0
Fetches(w) == \E i \in 1..3 : Workers[i] = w /\ stage < i

Lower(m, n) == IF m < n THEN m ELSE n

Init ==
  /\ provider \in {"GOOGLE", "MICROSOFT"}
  /\ kind \in {"email", "calendar"}
  /\ feed = 0 /\ oldest = 0
  \* both routes create the row empty; other columns of it are written by hand
  /\ cursor \in {NoCursor, 0}
  /\ link = NoCursor
  /\ events = {}
  /\ job = [j \in Jobs |-> NoJob]
  /\ hook = [h \in Hooks |-> NoJob]
  /\ stage = Up
  /\ seen = {}
  /\ beyond = {}
  /\ served = 0
  /\ failed = FALSE
  /\ requests = 0 /\ notices = 0 /\ faults = 0

Fault == faults < MaxFaults /\ faults' = faults + 1

-----------------------------------------------------------------------------
(* The provider.                                                            *)

Change ==
  /\ feed < MaxChanges
  /\ feed' = feed + 1
  /\ UNCHANGED <<provider, kind, oldest, database, job, hook, stage, record, bounds>>

\* Gmail forgets old history and Google Calendar expires its tokens; Graph answers
\* 410 to a delta link that is too old.
Forget ==
  /\ oldest < feed
  /\ oldest' = feed
  /\ Fault
  /\ UNCHANGED <<provider, kind, feed, database, job, hook, stage, record, requests, notices>>

\* POST /webhooks/google and /webhooks/microsoft: the body is put into a queue and
\* the provider has its 200. Google notifies of mail only.
Accept(h) ==
  /\ stage = Up
  /\ provider = "GOOGLE" => kind = "email"
  /\ notices < MaxHooks /\ notices' = notices + 1
  /\ hook[h] = NoJob
  /\ hook' = [hook EXCEPT ![h] =
                [pc |-> "waiting", at |-> feed, tries |-> Attempts]]
  /\ UNCHANGED <<world, database, job, stage, record, requests, faults>>

-----------------------------------------------------------------------------
(* The webhook worker.                                                      *)

\* A bug: a notification is given up at the first failure.
HookFailsForGood(h) == hook' = [hook EXCEPT ![h] = NoJob]

HookFails(h) ==
  hook' = [hook EXCEPT ![h] = IF @.tries = 1 THEN NoJob
                              ELSE [@ EXCEPT !.pc = "waiting", !.tries = @ - 1]]

\* processMicrosoftWebhook finds the account by its subscription and queues a sync.
ProcessMicrosoftWebhook(h) ==
  /\ provider = "MICROSOFT"
  /\ hook[h].pc = "waiting" /\ Fetches("webhook")
  /\ Queued("incremental")
  /\ hook' = [hook EXCEPT ![h] = NoJob]
  /\ UNCHANGED <<world, database, stage, record, bounds>>

\* processGoogleWebhook queues a sync without waiting for the queue ...
ProcessGoogleWebhook(h) ==
  /\ provider = "GOOGLE"
  /\ hook[h].pc = "waiting" /\ Fetches("webhook")
  /\ Queued("incremental")
  /\ hook' = [hook EXCEPT ![h].pc = "marking"]
  /\ UNCHANGED <<world, database, stage, record, bounds>>

\* ... and then records the event, whose key must be new: the redelivery of an event
\* fails here, and its retries queue a sync each.
MarkProcessed(h) ==
  /\ hook[h].pc = "marking"
  /\ IF hook[h].at \in events
     THEN HookFails(h) /\ events' = events
     ELSE hook' = [hook EXCEPT ![h] = NoJob] /\ events' = events \union {hook[h].at}
  /\ UNCHANGED <<world, cursor, link, job, stage, record, bounds>>

\* Reading the account or writing the event fails.
WebhookFails(h) ==
  /\ hook[h].pc = "marking" \/ (hook[h].pc = "waiting" /\ Fetches("webhook"))
  /\ HookFails(h)
  /\ failed' = (failed \/ hook[h].tries = 1)
  /\ Fault
  /\ UNCHANGED <<world, database, job, stage, seen, beyond, served, requests, notices>>

\* queueEmailSync and queueCalendarSync, as the package exports them.
Request(type) ==
  /\ stage = Up
  /\ requests < MaxRequests /\ requests' = requests + 1
  /\ Queued(type)
  /\ UNCHANGED <<world, database, hook, stage, record, notices, faults>>

-----------------------------------------------------------------------------
(* What an adapter answers.                                                 *)

\* Both workers fall back to a full sync while there is no cursor.
Mode(type) ==
  IF type = "incremental" /\ cursor # NoCursor THEN "incremental" ELSE "full"

\* A bug: a link that is not there yet is used.
FromUnchecked(mode) ==
  IF mode = "full" THEN 0 ELSE IF kind = "calendar" THEN link ELSE cursor

\* Where a listing starts: Google takes the cursor, Graph's calendar the delta link;
\* Graph's mail adapter is given the cursor under a name that it does not read.
From(mode) ==
  CASE mode = "full" -> 0
    [] mode = "incremental" /\ provider = "GOOGLE" -> cursor
    [] mode = "incremental" /\ provider = "MICROSOFT" ->
         IF kind = "calendar" /\ link # NoCursor THEN link ELSE 0

\* A listing of threads has no cursor ...
ListThreads(from) == NoCursor

\* ... three answers name one on their last page only ...
LastPage(from) == IF feed - from <= Page THEN feed ELSE NoCursor
GoogleEvents(from) == LastPage(from)
GoogleEventChangesPaged(from) == feed  \* a bug: as Gmail's history does
GoogleEventChanges(from) == LastPage(from)
GraphEventDelta(from) == LastPage(from)
GraphMailDelta(from) == LastPage(from)

\* ... and a page of Gmail's history names the newest history id, whatever is left.
\* Nobody asks for the page that follows.
GmailHistory(from) == feed

NextCursor(mode, from) ==
  CASE kind = "email" /\ mode = "full" -> ListThreads(from)
    [] kind = "email" /\ mode = "incremental" ->
         IF provider = "GOOGLE" THEN GmailHistory(from) ELSE GraphMailDelta(from)
    [] kind = "calendar" /\ mode = "full" -> GoogleEvents(from)
    [] kind = "calendar" /\ mode = "incremental" ->
         IF provider = "GOOGLE" THEN GoogleEventChanges(from) ELSE GraphEventDelta(from)

-----------------------------------------------------------------------------
(* The sync workers.                                                        *)

\* processEmailSync and processCalendarSync read the account and the sync state.
Start(j) ==
  /\ job[j].pc = "waiting" /\ Fetches(kind)
  /\ LET mode == Mode(job[j].type) IN
     job' = [job EXCEPT ![j].pc = "listing", ![j].mode = mode,
                        ![j].from = From(mode)]
  /\ UNCHANGED <<world, database, hook, stage, record, bounds>>

\* A full sync of a calendar gives both ends of its ninety days. Graph's adapter makes a
\* filter of the second alone, which begins with "and": the request is refused, every time.
ListEventsRefused(j) ==
  provider = "MICROSOFT" /\ kind = "calendar" /\ job[j].mode = "full"
Refuses(j) == (job[j].mode = "incremental" /\ job[j].from < oldest) \/ ListEventsRefused(j)

List(j) ==
  /\ job[j].pc = "listing" /\ ~Refuses(j)
  /\ LET from == job[j].from IN
     job' = [job EXCEPT ![j].pc = "storing",
                        ![j].upto = Lower(from + Page, feed),
                        ![j].next = NextCursor(job[j].mode, from)]
  /\ served' = feed
  /\ UNCHANGED <<world, database, hook, stage, seen, beyond, failed, bounds>>

\* The error is written to the sync state and thrown again: BullMQ retries.
Retry(j) ==
  IF job[j].tries = 1
  THEN job' = [job EXCEPT ![j] = NoJob] /\ failed' = TRUE
  ELSE /\ job' = [job EXCEPT ![j] = WaitingJob(@.type, @.tries - 1)]
       /\ failed' = failed

ListRefused(j) ==
  /\ job[j].pc = "listing" /\ Refuses(j)
  /\ Retry(j)
  /\ UNCHANGED <<world, database, hook, stage, seen, beyond, served, bounds>>

\* The sync state takes the cursor of the answer; where the answer has none, the
\* column stays. Graph's delta link of mail goes into the column of Gmail's history id,
\* that of the calendar into a column of its own.
StoreEmail(next) ==
  /\ cursor' = IF next # NoCursor THEN next ELSE cursor
  /\ link' = link

StoreCalendar(next) ==
  /\ cursor' = IF next # NoCursor /\ provider = "GOOGLE" THEN next ELSE cursor
  /\ link' = IF next # NoCursor /\ provider = "MICROSOFT" THEN next ELSE link

Store(j) ==
  /\ job[j].pc = "storing"
  /\ IF kind = "email" THEN StoreEmail(job[j].next) ELSE StoreCalendar(job[j].next)
  /\ seen' = seen \union (job[j].from + 1)..job[j].upto
  /\ beyond' = IF job[j].next = NoCursor THEN beyond
               ELSE beyond \union (job[j].upto + 1)..job[j].next
  /\ job' = [job EXCEPT ![j].pc = "reporting"]
  /\ UNCHANGED <<world, events, hook, stage, served, failed, bounds>>

\* lastSyncAt and the audit entry.
Report(j) ==
  /\ job[j].pc = "reporting"
  /\ job' = [job EXCEPT ![j] = NoJob]
  /\ UNCHANGED <<world, database, hook, stage, record, bounds>>

SyncFails(j) ==
  /\ job[j].pc \in {"listing", "storing", "reporting"}
  /\ Retry(j)
  /\ Fault
  /\ UNCHANGED <<world, database, hook, stage, seen, beyond, served, requests, notices>>

-----------------------------------------------------------------------------
(* The process.                                                             *)

\* SIGTERM: the server accepts nothing more and the workers are closed one by one.
Signal ==
  /\ stage = Up /\ Fault
  /\ stage' = 1
  /\ UNCHANGED <<world, database, job, hook, record, requests, notices>>

\* After the last one the process exits, and the next one starts.
CloseWorker ==
  /\ stage \in 1..3
  /\ ~Working(Workers[stage])
  /\ stage' = IF stage = 3 THEN Up ELSE stage + 1
  /\ UNCHANGED <<world, database, job, hook, record, bounds>>

\* The process dies, or its 30 seconds to shut down are over. BullMQ takes what a
\* worker had for stalled and has it waiting for the next process.
Crash ==
  /\ Fault
  /\ stage' = Up
  /\ job' = [j \in Jobs |-> IF Busy(j) THEN WaitingJob(job[j].type, job[j].tries)
                            ELSE job[j]]
  /\ hook' = [h \in Hooks |-> IF hook[h].pc = "marking"
                              THEN [hook[h] EXCEPT !.pc = "waiting"] ELSE hook[h]]
  /\ UNCHANGED <<world, database, record, requests, notices>>

-----------------------------------------------------------------------------
ProcessWebhook(h) ==
  ProcessGoogleWebhook(h) \/ ProcessMicrosoftWebhook(h) \/ MarkProcessed(h)
ProcessSync(j) ==
  Start(j) \/ List(j) \/ ListRefused(j) \/ Store(j) \/ Report(j)

Next ==
  \/ Change \/ Forget
  \/ \E type \in Types : Request(type)
  \/ \E h \in Hooks : Accept(h) \/ ProcessWebhook(h) \/ WebhookFails(h)
  \/ \E j \in Jobs : ProcessSync(j) \/ SyncFails(j)
  \/ Signal \/ CloseWorker \/ Crash

Spec == Init /\ [][Next]_vars

-----------------------------------------------------------------------------
TypeOK ==
  /\ provider \in {"GOOGLE", "MICROSOFT"} /\ kind \in {"email", "calendar"}
  /\ feed \in Positions /\ oldest \in Positions
  /\ cursor \in Cursors /\ link \in Cursors
  /\ events \subseteq Positions
  /\ job \in [Jobs -> JobRecords \union {NoJob}]
  /\ hook \in [Hooks -> HookRecords \union {NoJob}]
  /\ stage \in Up..3
  /\ seen \subseteq Positions /\ beyond \subseteq Positions
  /\ served \in Positions /\ failed \in BOOLEAN
  /\ requests \in 0..MaxRequests /\ notices \in 0..MaxHooks /\ faults \in 0..MaxFaults

\* A cursor never passes a change that no sync has counted, however syncs overlap,
\* fail, crash or are answered with part of a page: it is stored with the last page
\* only. The exception is the history of Gmail, whose pages after the first are lost.
NothingIsSkipped ==
  /\ 1..cursor \subseteq seen \union beyond
  /\ 1..link \subseteq seen
  /\ (provider = "MICROSOFT" \/ kind = "calendar") => beyond = {}

\* A notification that the server has accepted is followed by a sync that lists the
\* account as it was then or later, over retries, redeliveries, shutdowns and crashes,
\* unless a job or a notification has used up its attempts: as every job does that syncs a
\* calendar of Graph's in full.
Owed(n) == \E h \in Hooks : hook[h].pc # "free" /\ hook[h].at = n
EveryNotificationIsServed ==
  \A n \in 1..MaxChanges : Owed(n) ~> (served >= n \/ failed)
=============================================================================
