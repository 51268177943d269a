----------------------------- MODULE WebClient -----------------------------
(***************************************************************************)
(* The page of the workspace: the parts of apps/web that wait, retry and   *)
(* overlap, side by side. What one part asks of another (an event of the   *)
(* stream that refreshes the inbox or puts a message into the chat) is a   *)
(* step that the other may take at any time, so the parts share no         *)
(* variable, and a behaviour is about one of them: focus says which.       *)
(* (The part that saves settings is extended, the others are instances.)   *)
(***************************************************************************)
EXTENDS WorkspaceSettings

CONSTANTS
  Calls, NoCall, MaxOnline,                           \* LiveStream
  Threads, Messages, MaxRetries, MaxOthers, MaxVisits, \* ChatThreads
  Triggers, MaxPolls,                                 \* FirstSync
  Queues,                                             \* InboxLists
  Conversations, MaxIds,                              \* NotificationFeed
  MaxConnects, MaxMounts,                             \* ConnectPopup
  Letters, NoLetter, Files, Cards, MaxWrites, MaxReads, MaxOpened, MaxClicks  \* ComposeMail

ASSUME BoundsAssumption ==
  /\ \A n \in {MaxOnline, MaxRetries, MaxOthers, MaxVisits, MaxPolls, MaxOpen, MaxAtOnce,
               MaxCommits, MaxIds, MaxConnects, MaxMounts, MaxWrites, MaxReads, MaxOpened,
               MaxClicks} : n \in Nat
  /\ NoCall \notin Calls /\ NoLetter \notin Letters

VARIABLES
  focus,  \* bound: the part that the behaviour is about
  streamMounted, stage, controller, retries, watchdog, offline, onlines,
  here, list, saved, history, fetching, loading, send, others, visits, fresh, hurried,
  phase, trigger, remote,
  sync, blocked, selected, items, asked, unread,
  open, fetches, feed, feedLoading, requestId, posted, submitting, delay, working,
  mounts, wizardMounted, page, saving, setup, step, popup, message, listing, accounts, linked,
  connects,
  about, composeData, fields, attachments, readings, sending, opened, connected, draft, busy, clicked,
  proposed, mine, writtenOver

Stream == INSTANCE LiveStream WITH mounted <- streamMounted
Chat == INSTANCE ChatThreads
First == INSTANCE FirstSync
Inbox == INSTANCE InboxLists
Feed == INSTANCE NotificationFeed WITH loading <- feedLoading
Popup == INSTANCE ConnectPopup WITH mounted <- wizardMounted
Compose == INSTANCE ComposeMail WITH crossed <- writtenOver

Parts == {"stream", "chat", "first", "inbox", "settings", "feed", "popup", "composer"}

stream == <<streamMounted, stage, controller, retries, watchdog, offline, onlines>>
chat == <<here, list, saved, history, fetching, loading, send, others, visits, fresh, hurried>>
first == <<phase, trigger, remote>>
inbox == <<sync, blocked, selected, items, asked, unread>>
feeds == <<open, fetches, feed, feedLoading, requestId, posted, submitting, delay, working>>
connect ==
  <<mounts, wizardMounted, page, saving, setup, step, popup, message, listing, accounts, linked,
    connects>>
composer ==
  <<about, composeData, fields, attachments, readings, sending, opened, connected, draft, busy, clicked,
    proposed, mine, writtenOver>>
client == <<focus, stream, chat, first, inbox, vars, feeds, connect, composer>>

ClientInit ==
  /\ focus \in Parts
  /\ Stream!Init /\ Chat!Init /\ First!Init /\ Inbox!Init /\ Init /\ Feed!Init
  /\ Popup!Init /\ Compose!Init
  \* Of a part that takes no step, one initial state is enough.
  /\ focus # "chat" => /\ here = CHOOSE t \in Threads : TRUE
                       /\ \A t \in Threads : history[t] = <<>>
  /\ focus # "composer" => about = "cards" /\ \A c \in Cards : draft[c] = "none"

Unless(part, rest) == IF focus = part THEN TRUE ELSE UNCHANGED rest

\* A step of one part leaves the others as they are.
Of(part, action) ==
  /\ focus = part
  /\ action
  /\ UNCHANGED focus
  /\ Unless("stream", stream) /\ Unless("chat", chat)
  /\ Unless("first", first) /\ Unless("inbox", inbox)
  /\ Unless("settings", vars) /\ Unless("feed", feeds)
  /\ Unless("popup", connect) /\ Unless("composer", composer)

ClientNext ==
  \/ Of("stream", Stream!Next)
  \/ Of("chat", Chat!Next)
  \/ Of("first", First!Next)
  \/ Of("inbox", Inbox!Next)
  \/ Of("settings", Next)
  \/ Of("feed", Feed!Next)
  \/ Of("popup", Popup!Next)
  \/ Of("composer", Compose!Next)

\* The fairness of the parts, of the part that a behaviour is about.
ClientFairness ==
  /\ WF_client(Of("stream", Stream!RetryFires))
  /\ WF_client(Of("stream", Stream!WatchdogFires))
  /\ WF_client(Of("stream", Stream!Continues))
  /\ SF_client(Of("stream", Stream!TokenAnswersSome))
  /\ SF_client(Of("stream", Stream!LibraryLoadsSome))
  /\ SF_client(Of("stream", Stream!OpensSome))
  /\ \A m \in Messages : WF_client(Of("chat", Chat!Step(m)))
  /\ \A g \in Triggers : WF_client(Of("first", First!Work(g)))
  /\ WF_client(Of("inbox", Inbox!SyncStep))
  /\ WF_client(Of("popup", Popup!AuthUrlEnds))
  /\ WF_client(Of("popup", Popup!SeesClosed))
  /\ WF_client(Of("popup", Popup!TimesOut))
  /\ WF_client(Of("composer", Compose!SendEnds))
  /\ WF_client(Of("composer", Compose!ProposalAnswered))
  /\ \A c \in Cards : WF_client(Of("composer", Compose!CardAnswered(c)))

ClientSpec == ClientInit /\ [][ClientNext]_client /\ ClientFairness

-----------------------------------------------------------------------------
ClientTypeOK ==
  /\ focus \in Parts
  /\ Stream!TypeOK /\ Chat!TypeOK /\ First!TypeOK /\ Inbox!TypeOK /\ TypeOK
  /\ Feed!TypeOK /\ Popup!TypeOK /\ Compose!TypeOK

\* The page itself never ends a live stream, unless it was told of a return of the
\* network or unmounted: no timer and no second connect() cuts it.
KeepsHealthyStream == Stream!KeepsHealthyStream

\* What the user writes in a thread stays on the screen and in sessionStorage until the
\* thread is left, unless the thread was opened while the last one loaded or answered.
MineStay == Chat!MineStay

\* The composer of a feed is locked, and its overlay open, only for the command whose
\* answer is awaited: late answers to cancelled commands do not count.
OverlayFollowsRequest == Feed!OverlayFollowsRequest

\* What the user wrote in the composer stays until it is sent or given up, unless something
\* was written or opened over a send on its way, and a mail goes to its own thread.
LetterIsKept == Compose!LetterIsKept

\* What the user waits for comes to an end. However a stream ends (closed, refused, broken,
\* silent), a page that stays mounted has a live one again; every message of the chat that
\* is posted is answered or given up; the progress of the first synchronisation ends,
\* whatever the polls answer, and so does the one on demand, whatever of it fails; however
\* the popup of a connection ends, the wizard lets the user connect again; and the buttons
\* of the composer and of the cards come back.
WaitsEnd ==
  /\ focus = "stream" => Stream!StreamComesBack
  /\ Chat!EverySendEnds
  /\ First!ProgressEnds /\ Inbox!SyncEnds
  /\ Popup!ConnectEnds
  /\ Compose!ComposerSettles
=============================================================================
