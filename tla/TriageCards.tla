---------------------------- MODULE TriageCards ----------------------------
(***************************************************************************)
(* The cards of the intelligence feed (features/InboxOverview.tsx): mails  *)
(* with a reply that is prepared and meetings that may be briefed. A card  *)
(* is acted upon from what it shows, which is what some load read from the *)
(* server a while ago; loads overlap with each other and with the actions. *)
(***************************************************************************)
EXTENDS Integers

CONSTANTS
  Mails, Meetings,  \* the cards there may be
  MaxLoads,         \* bound: loads of the feed
  MaxChanges        \* bound: changes at the server that the feed did not ask for

VARIABLES
  server,   \* of each card: "absent", "open", or "done" (reply sent, meeting briefed)
  earned,   \* the cards that have been done
  marked,   \* the mails whose reply is marked as sent and was not
  shown,    \* what the feed shows of each card
  load,     \* the loads under way: what each has read so far
  loads,
  loading,  \* the skeletons are shown
  syncing,
  due,      \* whether the feed is loaded anew in a moment, and if it was empty when that began
  request,  \* of each card: where the request of its button is
  discard,  \* the mails whose discarding is under way
  changes

vars == <<server, earned, marked, shown, load, loads, loading, syncing, due, request, discard, changes>>

Cards == Mails \union Meetings
States == {"absent", "open", "done"}
NoLoad == [c \in {} |-> "absent"]
Slots == 1..2  \* bound: loads at a time

Init ==
  /\ server \in [Cards -> {"absent", "open"}]
  /\ earned = {} /\ marked = {}
  /\ shown = [c \in Cards |-> "absent"]
  /\ load = [l \in Slots |-> [on |-> l = 1, read |-> NoLoad]]  \* the effect of the first rendering
  /\ loads = 1
  /\ loading = TRUE
  /\ syncing = FALSE
  /\ due = "none"
  /\ request = [c \in Cards |-> "none"]
  /\ discard = {}
  /\ changes = 0

EmptyFeed == \A m \in Mails : shown[m] = "absent"

-----------------------------------------------------------------------------
(* fetchData                                                                *)

Begins(empty) ==
  /\ loads < MaxLoads /\ loads' = loads + 1
  /\ \E l \in Slots : ~load[l].on /\ load' = [load EXCEPT ![l] = [on |-> TRUE, read |-> NoLoad]]
  /\ loading' = (loading \/ empty)

\* The store's lastSync has changed.
FetchData ==
  /\ Begins(EmptyFeed)
  /\ UNCHANGED <<server, earned, marked, shown, syncing, due, request, discard, changes>>

\* Its requests read the mails and the meetings, each when the server comes to it.
LoadReads(l, kind) ==
  /\ load[l].on /\ kind \intersect DOMAIN load[l].read = {}
  /\ load' = [load EXCEPT ![l].read =
       [c \in DOMAIN @ \union kind |-> IF c \in kind THEN server[c] ELSE @[c]]]
  /\ UNCHANGED <<server, earned, marked, shown, loads, loading, syncing, due, request, discard, changes>>

\* All answers, or none, replace what is shown.
LoadEnds(l) ==
  /\ load[l].on
  /\ shown' \in {shown} \union (IF DOMAIN load[l].read = Cards THEN {load[l].read} ELSE {})
  /\ loading' = FALSE
  /\ load' = [load EXCEPT ![l] = [on |-> FALSE, read |-> NoLoad]]
  /\ UNCHANGED <<server, earned, marked, loads, syncing, due, request, discard, changes>>

-----------------------------------------------------------------------------
(* handleSync                                                               *)

HandleSync ==
  /\ ~syncing
  /\ syncing' = TRUE
  /\ UNCHANGED <<server, earned, marked, shown, load, loads, loading, due, request, discard, changes>>

\* Once both synchronisations have been queued, a timer is set; if one fails, none is.
SyncEnds ==
  /\ syncing
  /\ syncing' = FALSE
  /\ due' \in {due} \union (IF due = "none" THEN {IF EmptyFeed THEN "empty" ELSE "shown"} ELSE {})
  /\ UNCHANGED <<server, earned, marked, shown, load, loads, loading, request, discard, changes>>

LoadsAfterSync ==
  /\ due # "none"
  /\ Begins(due = "empty")
  /\ due' = "none"
  /\ UNCHANGED <<server, earned, marked, shown, syncing, request, discard, changes>>

-----------------------------------------------------------------------------
(* The buttons of a card.                                                   *)

\* handleSend and handleGeneratePrep: the button is there while the card shows nothing done.
Press(c) ==
  /\ shown[c] = "open" /\ request[c] = "none"
  /\ request' = [request EXCEPT ![c] = "asked"]
  /\ UNCHANGED <<server, earned, marked, shown, load, loads, loading, syncing, due, discard, changes>>

\* POST /drafts/send refuses a draft that is sent, and a mail that is gone. It marks an open
\* one as sent, and raises before anything is sent: the answer is an error.
MarksSent(m) ==
  /\ request[m] = "asked" /\ server[m] = "open"
  /\ server' = [server EXCEPT ![m] = "done"]
  /\ marked' = marked \union {m}
  /\ request' = [request EXCEPT ![m] = "refused"]
  /\ UNCHANGED <<earned, shown, load, loads, loading, syncing, due, discard, changes>>

\* GET /calendar/events/{event_id}/prep writes a briefing, or finds the one there is.
Briefs(c) ==
  /\ request[c] = "asked" /\ server[c] # "absent"
  /\ server' = [server EXCEPT ![c] = "done"]
  /\ earned' = earned \union {c}
  /\ request' = [request EXCEPT ![c] = "acted"]
  /\ UNCHANGED <<marked, shown, load, loads, loading, syncing, due, discard, changes>>

\* Only an answer changes the card, and only a card that is still there.
\* A bug: whatever the answer is.
MarkAlways(c, ok) == shown' = IF shown[c] = "absent" THEN shown ELSE [shown EXCEPT ![c] = "done"]
Mark(c, ok) ==
  shown' = IF ok /\ shown[c] # "absent" THEN [shown EXCEPT ![c] = "done"] ELSE shown

\* The answer to what was done may be lost, or come of a repeated request that is refused.
Answered(c) ==
  /\ request[c] # "none"
  /\ request' = [request EXCEPT ![c] = "none"]
  /\ \E ok \in {FALSE, request[c] = "acted"} : Mark(c, ok)
  /\ UNCHANGED <<server, earned, marked, load, loads, loading, syncing, due, discard, changes>>

\* handleDiscard asks for a route that the API does not have: it tells of a failure.
Discard(m) ==
  /\ shown[m] = "open" /\ m \notin discard
  /\ discard' = discard \union {m}
  /\ UNCHANGED <<server, earned, marked, shown, load, loads, loading, syncing, due, request, changes>>

DiscardFails(m) ==
  /\ m \in discard
  /\ discard' = discard \ {m}
  /\ UNCHANGED <<server, earned, marked, shown, load, loads, loading, syncing, due, request, changes>>

-----------------------------------------------------------------------------
\* The chat and the pipeline prepare, send, archive and overwrite as well.
Changes(c) ==
  /\ changes < MaxChanges /\ changes' = changes + 1
  /\ \E s \in States \ {server[c]} :
       /\ server' = [server EXCEPT ![c] = s]
       /\ earned' = IF s = "done" THEN earned \union {c} ELSE earned
  /\ UNCHANGED <<marked, shown, load, loads, loading, syncing, due, request, discard>>

Next ==
  \/ FetchData
  \/ \E l \in Slots : LoadEnds(l) \/ \E kind \in {Mails, Meetings} : LoadReads(l, kind)
  \/ HandleSync \/ SyncEnds \/ LoadsAfterSync
  \/ \E c \in Cards : Press(c) \/ Answered(c) \/ Changes(c)
  \/ \E c \in Meetings : Briefs(c)
  \/ \E m \in Mails : MarksSent(m) \/ Discard(m) \/ DiscardFails(m)

\* Requests end, by answer or timeout.
Fairness ==
  /\ \A l \in Slots : WF_vars(LoadEnds(l))
  /\ WF_vars(SyncEnds)
  /\ \A c \in Cards : WF_vars(Answered(c))

Spec == Init /\ [][Next]_vars /\ Fairness

-----------------------------------------------------------------------------
TypeOK ==
  /\ server \in [Cards -> States] /\ shown \in [Cards -> States]
  /\ earned \subseteq Cards /\ marked \subseteq Mails /\ discard \subseteq Mails
  /\ \A l \in Slots : /\ load[l].on \in BOOLEAN
                      /\ DOMAIN load[l].read \in {{}, Mails, Meetings, Cards}
  /\ loads \in 1..MaxLoads
  /\ loading \in BOOLEAN /\ syncing \in BOOLEAN
  /\ due \in {"none", "empty", "shown"}
  /\ request \in [Cards -> {"none", "asked", "acted", "refused"}]
  /\ changes \in 0..MaxChanges

\* A card that shows a briefing was briefed, and one that says "Reply Sent" is of a mail that
\* was answered or that the route marked as sent without sending: no answer that is lost, late
\* or an error makes a card say so, whichever of the loads and answers came last, and although
\* the server may have reopened it since.
ShownDoneIsDone == \A c \in Cards : shown[c] = "done" => c \in earned \union marked

\* The skeletons go and a button that was pressed can be pressed again, if it is there.
FeedSettles ==
  /\ []<>~loading
  /\ \A c \in Cards : []<>(request[c] = "none")
=============================================================================
