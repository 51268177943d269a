---------------------------- MODULE ChatThreads ----------------------------
(***************************************************************************)
(* The chat of a page (lib/aaliyah/useAaliyahChat.ts) and what the page    *)
(* puts into it (useFeedSSE.ts, useWorkspaceEffects.ts). Each thread has a *)
(* list in sessionStorage and a history at the server; the page has one    *)
(* list, in memory, for the thread that is open. A send runs on with the   *)
(* setMessages of the thread it began in, whatever thread is open since.   *)
(* The text of an answer is abstracted to whether there is one.            *)
(***************************************************************************)
EXTENDS Integers, Sequences, FiniteSets, SequencesExt

CONSTANTS
  Threads,
  Messages,   \* bound: messages that the user sends
  MaxRetries, \* tries after the first; 3 in the code
  MaxOthers,  \* bound: messages of the page, and cards of answers
  MaxVisits   \* bound: openings of a thread

VARIABLES
  here,       \* threadSelection
  list,       \* messages
  saved,      \* sessionStorage
  history,    \* what the server keeps of each thread
  fetching,   \* whether the history of the open thread is being fetched
  loading,    \* isLoading
  send,       \* the call of sendMessage for each message
  others, visits,
  fresh,      \* messages sent since the thread was opened
  hurried     \* whether it was opened while a fetch or a send was under way

vars == <<here, list, saved, history, fetching, loading, send, others, visits, fresh, hurried>>

-----------------------------------------------------------------------------
User(m) == [role |-> "user", id |-> m]
Bubble(m, said) == [role |-> "assistant", id |-> m, said |-> said]
Card(m) == [role |-> "card", id |-> m]
Injected == Bubble("page", TRUE)

Unsent == [pc |-> "unsent"]
Places == {"posting", "streaming", "backoff", "ending", "over"}
Sends == [pc : Places, at : Threads, tries : 0..MaxRetries, kept : BOOLEAN]
Active(m) == send[m].pc \in {"posting", "streaming", "backoff", "ending"}

Init ==
  /\ here \in Threads
  /\ list = <<>>
  /\ saved = [t \in Threads |-> <<>>]
  /\ history \in [Threads -> {<<>>, <<Injected>>}]
  /\ fetching = TRUE
  /\ loading = TRUE
  /\ send = [m \in Messages |-> Unsent]
  /\ others = 0
  /\ visits = 1
  /\ fresh = {}
  /\ hurried = FALSE

\* setMessages as the render of thread t made it: the list of the page changes,
\* and is saved under t.
SetMessages(t, next) ==
  /\ list' = next
  /\ saved' = [saved EXCEPT ![t] = next]

-----------------------------------------------------------------------------
(* Opening a thread and its history                                        *)

\* The fetch of the thread that is left is aborted; its finally block runs
\* after the new fetch has begun, and releases isLoading.
OpenThread(t) ==
  /\ t # here
  /\ visits < MaxVisits
  /\ visits' = visits + 1
  /\ here' = t
  /\ loading' = ~fetching
  /\ fetching' = TRUE
  /\ fresh' = {}
  /\ hurried' = (fetching \/ \E m \in Messages : Active(m))
  /\ UNCHANGED <<list, saved, history, send, others>>

FetchEnds == fetching /\ fetching' = FALSE /\ loading' = FALSE

\* An empty history keeps what is in the list, of whatever thread it is.
HistoryComes ==
  /\ FetchEnds
  /\ IF history[here] = <<>> /\ list # <<>>
     THEN UNCHANGED <<list, saved>>
     ELSE SetMessages(here, history[here])
  /\ UNCHANGED <<here, history, send, others, visits, fresh, hurried>>

HistoryFails ==
  /\ FetchEnds
  /\ list' = IF list # <<>> THEN list ELSE saved[here]
  /\ UNCHANGED <<here, saved, history, send, others, visits, fresh, hurried>>

-----------------------------------------------------------------------------
(* sendMessage                                                             *)

MaySendAnytime(m) == send[m] = Unsent
MaySend(m) == send[m] = Unsent /\ ~loading

SendMessage(m) ==
  /\ MaySend(m)
  /\ SetMessages(here, list \o <<User(m), Bubble(m, FALSE)>>)
  /\ loading' = TRUE
  /\ send' = [send EXCEPT ![m] =
       [pc |-> "posting", at |-> here, tries |-> 0, kept |-> FALSE]]
  /\ fresh' = fresh \union {m}
  /\ UNCHANGED <<here, history, fetching, others, visits, hurried>>

\* Offline, or health is not known yet: answered by the page, never posted.
SendIsBlocked(m) ==
  /\ MaySend(m)
  /\ SetMessages(here, list \o <<User(m), Bubble(m, TRUE)>>)
  /\ send' = [send EXCEPT ![m] =
       [pc |-> "over", at |-> here, tries |-> 0, kept |-> FALSE]]
  /\ fresh' = fresh \union {m}
  /\ UNCHANGED <<here, history, fetching, loading, others, visits, hurried>>

\* The server takes the message into its history and starts to answer (what it does
\* with a message that is posted again is not modelled).
Answering(m) ==
  /\ send[m].pc = "posting"
  /\ send' = [send EXCEPT ![m].pc = "streaming", ![m].kept = TRUE]
  /\ history' = IF send[m].kept THEN history
                ELSE [history EXCEPT ![send[m].at] = Append(@, User(m))]
  /\ UNCHANGED <<here, list, saved, fetching, loading, others, visits, fresh, hurried>>

LastIsBubble == list # <<>> /\ Last(list).role = "assistant"

\* A piece of text, or the news of an error, goes to the last message of the list if it is an assistant's,
\* whichever answer that is.
Delta(m) ==
  /\ send[m].pc = "streaming"
  /\ LastIsBubble
  /\ SetMessages(send[m].at, Front(list) \o <<[Last(list) EXCEPT !.said = TRUE]>>)
  /\ UNCHANGED <<here, history, fetching, loading, send, others, visits, fresh, hurried>>

RichCard(m) ==
  /\ send[m].pc = "streaming"
  /\ others < MaxOthers
  /\ others' = others + 1
  /\ SetMessages(send[m].at, Append(list, Card(m)))
  /\ UNCHANGED <<here, history, fetching, loading, send, visits, fresh, hurried>>

StreamEnds(m) ==
  /\ send[m].pc = "streaming"
  /\ send' = [send EXCEPT ![m].pc = "ending"]
  /\ UNCHANGED <<here, list, saved, history, fetching, loading, others, visits, fresh, hurried>>

\* The tries that follow a failed one.
RetriedForEver(n) == n
Retried(n) == n + 1

\* An error, a refusal, or 30 s without a byte.
AttemptFails(m) ==
  /\ send[m].pc \in {"posting", "streaming"}
  /\ IF send[m].tries < MaxRetries
     THEN /\ send' = [send EXCEPT ![m].pc = "backoff", ![m].tries = Retried(@)]
          /\ UNCHANGED <<list, saved>>
     ELSE /\ send' = [send EXCEPT ![m].pc = "ending"]
          /\ IF LastIsBubble /\ ~Last(list).said
             THEN SetMessages(send[m].at, Front(list) \o <<[Last(list) EXCEPT !.said = TRUE]>>)
             ELSE SetMessages(send[m].at, list)
  /\ UNCHANGED <<here, history, fetching, loading, others, visits, fresh, hurried>>

BackoffEnds(m) ==
  /\ send[m].pc = "backoff"
  /\ send' = [send EXCEPT ![m].pc = "posting"]
  /\ UNCHANGED <<here, list, saved, history, fetching, loading, others, visits, fresh, hurried>>

\* An empty bubble at the end goes, and the next message may be sent.
SendEnds(m) ==
  /\ send[m].pc = "ending"
  /\ SetMessages(send[m].at,
       IF LastIsBubble /\ ~Last(list).said THEN Front(list) ELSE list)
  /\ loading' = FALSE
  /\ send' = [send EXCEPT ![m].pc = "over"]
  /\ UNCHANGED <<here, history, fetching, others, visits, fresh, hurried>>

-----------------------------------------------------------------------------
(* What the page adds: the welcome, messages and cards of the live stream, *)
(* news of the connected account.                                          *)
Inject ==
  /\ others < MaxOthers
  /\ others' = others + 1
  /\ \E item \in {Injected, Card("page")} : SetMessages(here, Append(list, item))
  /\ UNCHANGED <<here, history, fetching, loading, send, visits, fresh, hurried>>

-----------------------------------------------------------------------------
Step(m) ==
  \/ Answering(m) \/ StreamEnds(m) \/ AttemptFails(m) \/ BackoffEnds(m) \/ SendEnds(m)

Next ==
  \/ \E t \in Threads : OpenThread(t)
  \/ HistoryComes \/ HistoryFails \/ Inject
  \/ \E m \in Messages :
       \/ SendMessage(m) \/ SendIsBlocked(m) \/ Step(m)
       \/ Delta(m) \/ RichCard(m)

\* Timers run, a stream that has begun ends, and the 30 s timer bounds its silence.
Fairness == \A m \in Messages : WF_vars(Step(m))

Spec == Init /\ [][Next]_vars /\ Fairness

-----------------------------------------------------------------------------
TypeOK ==
  /\ here \in Threads
  /\ DOMAIN saved = Threads
  /\ DOMAIN history = Threads
  /\ fetching \in BOOLEAN
  /\ loading \in BOOLEAN
  /\ send \in [Messages -> Sends \union {Unsent}]
  /\ others \in 0..MaxOthers
  /\ visits \in 1..MaxVisits
  /\ fresh \subseteq Messages
  /\ hurried \in BOOLEAN

\* Every message that is posted comes to an end, answered or given up, however
\* often the server or the network fails: the user may write again.
EverySendEnds == \A m \in Messages : []<>~Active(m)

\* What the user writes in a thread stays on the screen and in sessionStorage until
\* the thread is left: no history, answer or message of the page replaces it. Not so
\* in a thread opened while the last one was loading or answering: isLoading is then
\* released early, and the history that comes after overwrites what was written.
MineStay ==
  ~hurried => \A m \in fresh :
                Contains(list, User(m)) /\ Contains(saved[here], User(m))
=============================================================================
