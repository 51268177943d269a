----------------------------- MODULE InboxLists -----------------------------
(***************************************************************************)
(* The lists of the page's store (lib/aaliyah/store.ts): the inbox of the  *)
(* queue that is selected, the queues with something new, and the          *)
(* synchronisation on demand. Each step of an asynchronous function is an  *)
(* action; any two of them interleave. Which counts a payload names is     *)
(* abstracted to the queues that grew.                                     *)
(***************************************************************************)
EXTENDS Integers

CONSTANT
  Queues     \* triage queues; "all" is the list of a request without a queue

VARIABLES
  sync,      \* where triggerSync is; isSyncing unless "none"
  blocked,   \* the services that triggerSync is to leave out
  selected,  \* activeTriageQueue
  items,     \* the queue whose items inboxItems holds
  asked,     \* requests for the inbox that are not answered
  unread     \* unreadQueues

inbox == <<selected, items, asked, unread>>
vars == <<sync, blocked, selected, items, asked, unread>>

Services == {"inbox", "calendar"}
Lists == Queues \union {"all", "none"}

Init ==
  /\ sync = "none"
  /\ blocked = {}
  /\ selected = "all"
  /\ items = "none"
  /\ asked = {}
  /\ unread = {}

\* fetchInbox: the request of a queue, or of all.
FetchInbox(q) == asked' = asked \union {q}

-----------------------------------------------------------------------------
(* triggerSync                                                             *)

MaySync == sync = "none"

TriggerSync ==
  /\ MaySync
  /\ sync' = "health"
  /\ UNCHANGED <<blocked, inbox>>

\* What health says each service may do decides what is synchronised; no answer
\* blocks both. A preflight that fails is shown and stops nothing.
HealthAnswers ==
  /\ sync = "health"
  /\ \E b \in SUBSET Services : blocked' = b
  /\ sync' = "preflight"
  /\ UNCHANGED inbox

PreflightAnswers ==
  /\ sync = "preflight"
  /\ sync' = IF blocked = Services THEN "refreshing" ELSE "tasks"
  /\ blocked' = {}
  /\ UNCHANGED inbox

\* allSettled: a task that fails stops nothing.
TasksSettle ==
  /\ sync = "tasks"
  /\ sync' = "conflicts"
  /\ UNCHANGED <<blocked, inbox>>

\* Answered or failed, the finally block comes next.
ConflictsAnswer ==
  /\ sync = "conflicts"
  /\ sync' = "refreshing"
  /\ UNCHANGED <<blocked, inbox>>

\* The finally block waits for the status and for a list of no queue.
Refreshed ==
  /\ sync = "refreshing"
  /\ sync' = "none"
  /\ items' \in {"all", "none"}
  /\ UNCHANGED <<blocked, selected, asked, unread>>

-----------------------------------------------------------------------------
(* The inbox list and the queues                                           *)

\* setActiveTriageQueue
SelectQueue(q) ==
  /\ selected' = q
  /\ unread' = unread \ {q}
  /\ FetchInbox(q)
  /\ UNCHANGED <<sync, blocked, items>>

\* Answers come in any order and are shown whatever queue is selected by then;
\* an error empties the list.
InboxAnswers(q) ==
  /\ q \in asked
  /\ asked' = asked \ {q}
  /\ items' \in {q, "none"}
  /\ UNCHANGED <<sync, blocked, selected, unread>>

\* An event of the live stream, or a poll of the first synchronisation, without a queue.
LiveUpdate ==
  /\ FetchInbox("all")
  /\ UNCHANGED <<sync, blocked, selected, items, unread>>

\* updateCountsFromPayload, for the queues that grew.
Marked(grown) == grown \ {selected}
MarkedAll(grown) == grown

CountsUpdate ==
  /\ \E grown \in SUBSET Queues : unread' = unread \union Marked(grown)
  /\ UNCHANGED <<sync, blocked, selected, items, asked>>

-----------------------------------------------------------------------------
SyncStep == HealthAnswers \/ PreflightAnswers \/ TasksSettle \/ ConflictsAnswer \/ Refreshed

Next ==
  \/ TriggerSync \/ SyncStep
  \/ \E q \in Queues : SelectQueue(q)
  \/ \E q \in Lists : InboxAnswers(q)
  \/ LiveUpdate \/ CountsUpdate

\* Requests of the page end, by their answer or their timeout.
Fairness == WF_vars(SyncStep)

Spec == Init /\ [][Next]_vars /\ Fairness

-----------------------------------------------------------------------------
TypeOK ==
  /\ sync \in {"none", "health", "preflight", "tasks", "conflicts", "refreshing"}
  /\ blocked \subseteq Services
  /\ selected \in Lists \ {"none"}
  /\ items \in Lists
  /\ asked \subseteq Lists \ {"none"}
  /\ unread \subseteq Queues

\* Whatever fails in a synchronisation on demand, another may be started in the end.
SyncEnds == []<>(sync = "none")
=============================================================================
