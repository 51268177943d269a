----------------------------- MODULE ThreadPage -----------------------------
(***************************************************************************)
(* The thread that is open, beside the list of a queue: the header of      *)
(* feed/ThreadConversation.tsx with the body it fetches, the requests of   *)
(* its buttons, the viewer of its attachments (feed/AttachmentViewer.tsx), *)
(* and feed/ThreadList.tsx, whose loads nothing cancels.                   *)
(***************************************************************************)
EXTENDS Integers

CONSTANTS
  Threads, Queues, None,
  MaxFiles,   \* attachments of a thread
  MaxLoads    \* bound: loads of the list

VARIABLES
  open,       \* the thread that is open, or None
  expanded, body, skeleton,  \* its header: whose body it holds, and whether it waits for one
  bodyFetch,  \* the thread whose body is being fetched, or None
  acting,     \* the buttons of the header are disabled
  requests,   \* archivings and deletions: "live" if the header that sent it is still there
  emailChat,  \* the mail that the chat is about, or None
  file,       \* the attachment that is on the screen, or NoFile
  view,       \* of that attachment
  queueOpen, queue, connected,
  emails,     \* the queue whose mails the list holds, or None
  listLoading,
  listLoads,  \* the loads under way: the queue of each, or None
  listed,     \* how many loads there have been
  crossed     \* two loads of the list have been under way at once

header == <<expanded, body, skeleton, bodyFetch, acting, requests>>
viewer == <<file, view>>
thread == <<open, emailChat, header, viewer>>
listing == <<queue, connected, emails, listLoading, listLoads, listed, crossed>>
vars == <<thread, queueOpen, listing>>

Slots == 1..2  \* bound: requests, and loads, at a time
NoFile == [of |-> None, n |-> 0]
Files == [of : Threads, n : 1..MaxFiles]

Init ==
  /\ open = None /\ emailChat = None
  /\ expanded = FALSE /\ body = None /\ skeleton = FALSE /\ bodyFetch = None
  /\ acting = FALSE /\ requests = [s \in Slots |-> "none"]
  /\ file = NoFile /\ view = "none"
  /\ queueOpen = FALSE /\ connected = TRUE
  /\ queue \in Queues
  /\ emails = None /\ listLoading = TRUE /\ listLoads = [s \in Slots |-> None]
  /\ listed = 0 /\ crossed = FALSE

Idle == [s \in Slots |-> None]

-----------------------------------------------------------------------------
(* The list. It is mounted while its panel is open (the animation that     *)
(* closes the panel is over before it is opened again).                    *)

\* load(): no load knows of the ones before it.
Load(q, running, was) ==
  IF connected
  THEN /\ listed < MaxLoads /\ listed' = listed + 1
       /\ listLoading' = TRUE
       /\ \E s \in Slots : running[s] = None /\ listLoads' = [running EXCEPT ![s] = q]
       /\ crossed' = (was \/ running # Idle)
  ELSE listLoading' = FALSE /\ listLoads' = running /\ crossed' = was /\ UNCHANGED listed

\* What a list that is gone asked for is forgotten.
Unmounted ==
  /\ emails' = None /\ listLoading' = TRUE /\ listLoads' = Idle /\ crossed' = FALSE
  /\ UNCHANGED listed

\* handleNavigate: the panel opens, shows another queue, or closes.
Navigate(q) ==
  /\ file = NoFile  \* the viewer covers the page
  /\ queue' = q
  /\ queueOpen' = ~(queueOpen /\ queue = q)
  /\ CASE ~queueOpen -> emails' = None /\ Load(q, Idle, FALSE)
       [] queueOpen /\ queue # q -> Load(q, listLoads, crossed) /\ UNCHANGED emails
       [] OTHER -> Unmounted
  /\ UNCHANGED <<thread, connected>>

\* handleMainClick, outside of what the panel in the middle shows.
MainClick ==
  /\ queueOpen /\ file = NoFile
  /\ queueOpen' = FALSE /\ Unmounted
  /\ UNCHANGED <<thread, queue, connected>>

\* An answer takes the place of the list, whichever queue is selected by now.
ListAnswers(s) ==
  /\ listLoads[s] # None
  /\ listLoads' = [listLoads EXCEPT ![s] = None]
  /\ emails' \in {listLoads[s], None}
  /\ listLoading' = FALSE
  /\ UNCHANGED <<thread, queueOpen, queue, connected, listed, crossed>>

\* Without a connection to the mail the list hides; with one it loads.
Disconnects ==
  /\ connected /\ connected' = FALSE
  /\ listLoading' = (listLoading /\ ~queueOpen)
  /\ UNCHANGED <<thread, queueOpen, queue, emails, listLoads, listed, crossed>>

Reconnects ==
  /\ ~connected /\ connected' = TRUE
  /\ IF queueOpen
     THEN /\ listed < MaxLoads /\ listed' = listed + 1
          /\ listLoading' = TRUE
          /\ \E s \in Slots : listLoads[s] = None /\ listLoads' = [listLoads EXCEPT ![s] = queue]
          /\ crossed' = (crossed \/ listLoads # Idle)
     ELSE UNCHANGED <<listed, listLoading, listLoads, crossed>>
  /\ UNCHANGED <<thread, queueOpen, queue, emails>>

-----------------------------------------------------------------------------
(* The thread. The effects of a click run before anything else does.       *)

\* A bug: the fetch of a body that is left is not aborted.
Abandon == bodyFetch
\* The cleanup of the effect aborts the fetch, and with it the end of the skeleton.
Aborted == None

\* Opening another thread resets the header it already has; its requests go on.
ResetHeader ==
  /\ expanded' = FALSE /\ body' = None /\ bodyFetch' = Aborted
  /\ skeleton' = (skeleton \/ (expanded /\ body = None))
  /\ UNCHANGED <<acting, requests>>

NewHeader ==
  /\ expanded' = FALSE /\ body' = None /\ bodyFetch' = None /\ skeleton' = FALSE
  /\ acting' = FALSE /\ UNCHANGED requests

\* handleThreadSelect: the mail that the chat is about stays the same.
Select(t) ==
  /\ queueOpen /\ connected /\ emails # None /\ file = NoFile
  /\ open' = t
  /\ CASE open = t -> UNCHANGED header
       [] open = None -> NewHeader
       [] OTHER -> ResetHeader
  /\ queueOpen' = FALSE /\ Unmounted
  /\ UNCHANGED <<emailChat, viewer, queue, connected>>

\* The header is gone: what it fetched is aborted, what it sent goes on.
NoHeader ==
  /\ expanded' = FALSE /\ body' = None /\ bodyFetch' = None /\ skeleton' = FALSE
  /\ acting' = FALSE

Orphans(r) == [s \in Slots |-> IF r[s] = "live" THEN "orphan" ELSE r[s]]

Back ==
  /\ open # None /\ file = NoFile
  /\ open' = None
  /\ NoHeader /\ requests' = Orphans(requests)
  /\ UNCHANGED <<emailChat, viewer, queueOpen, listing>>

\* The mail was deleted elsewhere: an attachment stays on the screen.
RemoteDelete ==
  /\ open # None
  /\ open' = None
  /\ NoHeader /\ requests' = Orphans(requests)
  /\ UNCHANGED <<emailChat, viewer, queueOpen, listing>>

ToggleExpanded ==
  /\ open # None /\ file = NoFile
  /\ expanded' = ~expanded
  /\ IF expanded THEN bodyFetch' = Aborted /\ UNCHANGED skeleton
     ELSE IF body = None THEN bodyFetch' = open /\ skeleton' = TRUE
     ELSE UNCHANGED <<bodyFetch, skeleton>>
  /\ UNCHANGED <<open, emailChat, body, acting, requests, viewer, queueOpen, listing>>

\* An empty body, or an error, leaves none.
BodyAnswers ==
  /\ bodyFetch # None
  /\ bodyFetch' = None /\ skeleton' = FALSE
  /\ body' \in {bodyFetch, None}
  /\ UNCHANGED <<open, emailChat, expanded, acting, requests, viewer, queueOpen, listing>>

ToggleEmailChat ==
  /\ open # None /\ file = NoFile
  /\ emailChat' = IF emailChat = open THEN None ELSE open
  /\ UNCHANGED <<open, header, viewer, queueOpen, listing>>

\* handleArchive and handleDelete
Act ==
  /\ open # None /\ file = NoFile /\ ~acting
  /\ acting' = TRUE
  /\ \E s \in Slots : requests[s] = "none" /\ requests' = [requests EXCEPT ![s] = "live"]
  /\ UNCHANGED <<open, emailChat, expanded, body, skeleton, bodyFetch, viewer, queueOpen, listing>>

\* onAction closes whatever is open by now, and has the list loaded anew.
ActSucceeds(s) ==
  /\ requests[s] # "none"
  /\ open' = None /\ emailChat' = None
  /\ file' = NoFile /\ view' = "none"
  /\ NoHeader /\ requests' = Orphans([requests EXCEPT ![s] = "none"])
  /\ IF queueOpen THEN Load(queue, listLoads, crossed) /\ UNCHANGED emails
     ELSE UNCHANGED <<emails, listLoading, listLoads, listed, crossed>>
  /\ UNCHANGED <<queueOpen, queue, connected>>

ActFails(s) ==
  /\ requests[s] # "none"
  /\ acting' = (acting /\ requests[s] # "live")
  /\ requests' = [requests EXCEPT ![s] = "none"]
  /\ UNCHANGED <<open, emailChat, expanded, body, skeleton, bodyFetch, viewer, queueOpen, listing>>

-----------------------------------------------------------------------------
(* The viewer. A spreadsheet is fetched and parsed; each attachment has a  *)
(* renderer of its own, so a late answer meets none.                       *)

ShowFile(f) ==
  /\ f \in Files /\ f.of = open
  /\ file' = f /\ view' \in {"parsing", "shown"}
  /\ UNCHANGED <<open, emailChat, header, queueOpen, listing>>

OpenFile(f) == open # None /\ file = NoFile /\ ShowFile(f)

\* hasPrev and hasNext: where the attachment stands among those of the thread that is open.
Index == IF file.of = open THEN file.n ELSE 0
Files_ == IF open = None THEN 0 ELSE MaxFiles

PreviousOrNext ==
  /\ file # NoFile
  /\ \E n \in {Index - 1, Index + 1} \intersect 1..Files_ : ShowFile([of |-> open, n |-> n])

FileParsed ==
  /\ view = "parsing" /\ view' \in {"shown", "failed"}
  /\ UNCHANGED <<open, emailChat, header, file, queueOpen, listing>>

CloseFile ==
  /\ file # NoFile
  /\ file' = NoFile /\ view' = "none"
  /\ UNCHANGED <<open, emailChat, header, queueOpen, listing>>

-----------------------------------------------------------------------------
Next ==
  \/ \E q \in Queues : Navigate(q)
  \/ MainClick
  \/ \E s \in Slots : ListAnswers(s) \/ ActSucceeds(s) \/ ActFails(s)
  \/ Disconnects \/ Reconnects
  \/ \E t \in Threads : Select(t)
  \/ Back \/ RemoteDelete
  \/ ToggleExpanded \/ BodyAnswers \/ ToggleEmailChat \/ Act
  \/ \E f \in Files : OpenFile(f)
  \/ PreviousOrNext \/ FileParsed \/ CloseFile

\* Requests end, by answer or by timeout.
Fairness ==
  /\ WF_vars(BodyAnswers)
  /\ \A s \in Slots : WF_vars(ActSucceeds(s) \/ ActFails(s)) /\ WF_vars(ListAnswers(s))

Spec == Init /\ [][Next]_vars /\ Fairness

-----------------------------------------------------------------------------
TypeOK ==
  /\ {open, body, bodyFetch, emailChat} \subseteq Threads \union {None}
  /\ {expanded, skeleton, acting, queueOpen, connected, listLoading, crossed} \subseteq BOOLEAN
  /\ requests \in [Slots -> {"none", "live", "orphan"}]
  /\ file \in Files \union {NoFile}
  /\ view \in {"none", "parsing", "shown", "failed"}
  /\ queue \in Queues /\ emails \in Queues \union {None}
  /\ listLoads \in [Slots -> Queues \union {None}]
  /\ listed \in 0..MaxLoads

\* Below the name of a thread is the body of that thread, whatever was fetched, left and
\* opened in between; an attachment is that thread's, or outlives a thread deleted
\* elsewhere; and a list that waits for nothing is that of the queue named above it, unless
\* two of its loads were under way at once.
ShownBelongs ==
  /\ body # None => body = open
  /\ file # NoFile => open \in {None, file.of}
  /\ queueOpen /\ connected /\ ~listLoading /\ ~crossed => emails \in {None, queue}

\* An expanded mail does not wait for its body for ever.
\* (An orphan may close the thread that was opened since: nothing is said of that.)
ReaderSettles == []<>~(open # None /\ expanded /\ skeleton)
=============================================================================
