----------------------------- MODULE SendDraft -----------------------------
(***************************************************************************)
(* How the drafted reply to one email goes out. Four kinds of requests     *)
(* work on the email's row at the same time, each reading the whole        *)
(* metadata and later writing the whole metadata back:                     *)
(*   Senders   ActionExecutor.send_draft (core/action_executor.py)         *)
(*   Clients   the route /drafts/send (api/routes.py, send_draft_action)   *)
(*   Editors   the route /inbox/{id}/draft (api/routes.py, update_draft)   *)
(*   Drafters  process_drafting (workers/local_sync.py) and the inbox sync *)
(*             (handlers/inbox_manager.py), which replace the draft        *)
(* A send token (models/send_token.py) is a primary key made of the email  *)
(* and the body, so a body stands for its token.                           *)
(* Requests and jobs are coroutines on the event loops of the API's worker *)
(* processes; a synchronous commit that waits for a row stops its loop.    *)
(***************************************************************************)
EXTENDS Naturals, FiniteSets

CONSTANTS
  Senders, Clients, Editors,
  JobDrafters,    \* process_drafting: keeps subject, body and rationale
  InboxDrafters,  \* save_draft: keeps the risk labels and missing facts too
  Bodies,         \* the texts a draft may have
  NoBody,         \* there is no draft
  RiskyBodies,    \* the texts the drafting model labels as risky or incomplete
  EditedBodies,   \* the texts people type
  NoLock,
  Loop,           \* the event loop that each actor runs on
  Approvals,      \* values of is_explicit_approval that callers pass
  MaxFaults       \* bound: failed sends, database errors and crashes

Drafters == JobDrafters \union InboxDrafters
Actors == Senders \union Clients \union Editors \union Drafters

ASSUME BodiesAssumption ==
  /\ NoBody \notin Bodies
  /\ RiskyBodies \subseteq Bodies /\ EditedBodies \subseteq Bodies
  /\ Approvals \subseteq BOOLEAN
ASSUME ActorsAssumption ==
  /\ NoLock \notin Actors
  /\ DOMAIN Loop = Actors
  /\ Senders \intersect (Clients \union Editors \union Drafters) = {}
  /\ Clients \intersect (Editors \union Drafters) = {}
  /\ Editors \intersect Drafters = {}
ASSUME FaultsAssumption == MaxFaults \in Nat

VARIABLES
  row,         \* the draft in the email's metadata
  rowLock,     \* the drafter whose open transaction has updated the row
  tokens,      \* the bodies that have a send token
  stuck,       \* the actors whose commit is waiting for the row
  pc, copy,    \* where each actor is, and the draft as it read it
  approved,    \* the senders whose caller passed an explicit approval
  deliveries,  \* history: mails of each body sent
  unapproved,  \* history: bodies sent without an explicit approval
  marked,      \* history: bodies that the route has marked sent
  retyped,     \* history: bodies typed over a draft that was marked sent
  unlabelled,  \* history: risky bodies that came into the row without their labels
  faults

mails == <<deliveries, unapproved>>
origins == <<marked, retyped, unlabelled>>
history == <<mails, origins>>
database == <<row, rowLock, tokens>>
vars == <<database, stuck, pc, copy, approved, history, faults>>

NoDraft == [body |-> NoBody, status |-> "open", labelled |-> FALSE]
Drafts == [body : Bodies \union {NoBody}, status : {"open", "failed", "sent"},
           labelled : BOOLEAN]
Places == {"idle", "gated", "claiming", "claimed", "delivered", "failing",
           "approving", "editing", "clearing", "drafting"}

Init ==
  /\ row = NoDraft
  /\ rowLock = NoLock
  /\ tokens = {}
  /\ stuck = {}
  /\ pc = [a \in Actors |-> "idle"]
  /\ copy = [a \in Actors |-> NoDraft]
  /\ approved = {}
  /\ deliveries = [b \in Bodies |-> 0]
  /\ unapproved = {}
  /\ marked = {} /\ retyped = {} /\ unlabelled = {}
  /\ faults = 0

\* Mails are counted up to two.
OneMore(n) == IF n < 2 THEN n + 1 ELSE n

Fault == faults < MaxFaults /\ faults' = faults + 1

At(a, place) == pc[a] = place

\* A coroutine goes on when no other one has stopped its event loop.
LoopRuns(a) == \A o \in stuck \ {a} : Loop[o] # Loop[a]

Step(a, from, to) ==
  /\ pc[a] = from
  /\ LoopRuns(a)
  /\ pc' = [pc EXCEPT ![a] = to]

Finish(a, from) ==
  /\ Step(a, from, "idle")
  /\ copy' = [copy EXCEPT ![a] = NoDraft]
  /\ approved' = approved \ {a}

\* An update of the row waits for the transaction that holds it.
Free(a) == rowLock \in {NoLock, a}
Update(a) == Free(a) /\ stuck' = stuck \ {a}

Unsent == row.body # NoBody /\ row.status # "sent"

-----------------------------------------------------------------------------
(* ActionExecutor.send_draft                                               *)

\* As if the switch for autonomous sending were all the gate looked at.
GatePassesAll(draft, explicit) == TRUE

\* final_action_gate for an email whose autonomous sending is enabled and that
\* needs no approval of its own: labels and missing facts ask for an approval.
GatePasses(draft, explicit) == explicit \/ ~draft.labelled

FetchDraft(s, explicit) ==
  /\ Step(s, "idle", "gated")
  /\ Unsent
  /\ GatePasses(row, explicit)
  /\ copy' = [copy EXCEPT ![s] = row]
  /\ approved' = IF explicit THEN approved \union {s} ELSE approved
  /\ UNCHANGED <<database, stuck, history, faults>>

\* An existing token ends the call: its age is taken from a naive time
\* stamp, which raises, before the status "failed" is looked at.
FindToken(s) ==
  /\ copy[s].body \in tokens
  /\ Finish(s, "gated")
  /\ UNCHANGED <<database, stuck, history, faults>>

FindNoToken(s) ==
  /\ Step(s, "gated", "claiming")
  /\ copy[s].body \notin tokens
  /\ UNCHANGED <<database, stuck, copy, approved, history, faults>>

\* As if the token were no primary key.
ClaimTokenAgain(s) ==
  /\ Step(s, "claiming", "claimed")
  /\ tokens' = tokens \union {copy[s].body}
  /\ UNCHANGED <<row, rowLock, stuck, copy, approved, history, faults>>

\* The insert of the token is committed before anything is sent.
ClaimToken(s) ==
  /\ Step(s, "claiming", "claimed")
  /\ copy[s].body \notin tokens
  /\ tokens' = tokens \union {copy[s].body}
  /\ UNCHANGED <<row, rowLock, stuck, copy, approved, history, faults>>

\* Somebody else inserted it first: the primary key is violated.
LoseToken(s) ==
  /\ copy[s].body \in tokens
  /\ Finish(s, "claiming")
  /\ UNCHANGED <<database, stuck, history, faults>>

CountDelivery(s) ==
  /\ deliveries' = [deliveries EXCEPT ![copy[s].body] = OneMore(@)]
  /\ unapproved' = IF s \in approved THEN unapproved
                   ELSE unapproved \union {copy[s].body}

Deliver(s) ==
  /\ Step(s, "claimed", "delivered")
  /\ CountDelivery(s)
  /\ UNCHANGED <<database, stuck, copy, approved, origins, faults>>

\* The connector raises.
DeliverFails(s) ==
  /\ Fault
  /\ Step(s, "claimed", "failing")
  /\ UNCHANGED <<database, stuck, copy, approved, history>>

\* The mail is out but the connector raises all the same.
AnswerLost(s) ==
  /\ Fault
  /\ Step(s, "claimed", "failing")
  /\ CountDelivery(s)
  /\ UNCHANGED <<database, stuck, copy, approved, origins>>

\* The metadata that was read at the start is written back.
RecordOutcome(s, place, status) ==
  /\ Update(s)
  /\ row' = [copy[s] EXCEPT !.status = status]
  /\ Finish(s, place)
  /\ UNCHANGED <<rowLock, tokens, history, faults>>

RecordSent(s) == RecordOutcome(s, "delivered", "sent")
\* As if the bookkeeping of success followed the handler of the failure.
RecordFailedAsSent(s) == RecordOutcome(s, "failing", "sent")
RecordFailed(s) == RecordOutcome(s, "failing", "failed")

-----------------------------------------------------------------------------
(* The route /drafts/send                                                  *)

ReadForSend(c) ==
  /\ Step(c, "idle", "approving")
  /\ Unsent
  /\ copy' = [copy EXCEPT ![c] = row]
  /\ UNCHANGED <<database, stuck, approved, history, faults>>

\* The draft is marked sent and committed first. After that the route awaits
\* get_valid_token, which is no coroutine: TypeError, before anything is sent.
MarkSent(c) ==
  /\ Update(c)
  /\ row' = [copy[c] EXCEPT !.status = "sent"]
  /\ marked' = marked \union {copy[c].body}
  /\ Finish(c, "approving")
  /\ UNCHANGED <<rowLock, tokens, mails, retyped, unlabelled, faults>>

-----------------------------------------------------------------------------
(* Editing and drafting                                                    *)

ReadForEdit(e, b) ==
  /\ Step(e, "idle", "editing")
  /\ copy' = [copy EXCEPT ![e] = [row EXCEPT !.body = b]]
  /\ UNCHANGED <<database, stuck, approved, history, faults>>

\* What the draft's status and labels say is kept, whatever was typed.
WriteEdit(e) ==
  /\ Update(e)
  /\ row' = copy[e]
  /\ retyped' = IF copy[e].status = "sent" THEN retyped \union {copy[e].body} ELSE retyped
  /\ unlabelled' = IF copy[e].labelled THEN unlabelled
                   ELSE unlabelled \union ({copy[e].body} \intersect RiskyBodies)
  /\ Finish(e, "editing")
  /\ UNCHANGED <<rowLock, tokens, mails, marked, faults>>

\* A draft that is not sent is cleared before the next one is written.
BeginDraft(d) ==
  /\ row.status # "sent"
  /\ Step(d, "idle", IF row.body = NoBody THEN "drafting" ELSE "clearing")
  /\ UNCHANGED <<database, stuck, copy, approved, history, faults>>

\* The clearing is flushed, not committed: its transaction stays open, unseen
\* by others, while the language model writes the next draft.
ClearDraft(d) ==
  /\ Step(d, "clearing", "drafting")
  /\ Update(d)
  /\ rowLock' = d
  /\ UNCHANGED <<row, tokens, copy, approved, history, faults>>

\* As if the session were left open.
UnlockForgotten(a) == rowLock' = rowLock

Unlock(a) == rowLock' = IF rowLock = a THEN NoLock ELSE rowLock

\* process_drafting keeps no labels.
EndDraft(d, b) ==
  /\ Step(d, "drafting", "idle")
  /\ Update(d)
  /\ row' = [body |-> b, status |-> "open",
             labelled |-> b \in RiskyBodies /\ d \in InboxDrafters]
  /\ unlabelled' = IF d \in InboxDrafters THEN unlabelled
                   ELSE unlabelled \union ({b} \intersect RiskyBodies)
  /\ Unlock(d)
  /\ UNCHANGED <<tokens, copy, approved, mails, marked, retyped, faults>>

\* The failure is recorded in the metadata as read, without a draft.
DraftFails(d) ==
  /\ Fault
  /\ Step(d, "drafting", "idle")
  /\ Update(d)
  /\ row' = NoDraft
  /\ Unlock(d)
  /\ UNCHANGED <<tokens, copy, approved, history>>

\* The model advises to ignore the email: process_drafting closes its session,
\* which rolls the clearing back; the inbox sync commits it with its next email.
IgnoreEmail(d) ==
  /\ Step(d, "drafting", "idle")
  /\ d \notin stuck
  /\ row' = IF rowLock = d /\ d \in InboxDrafters THEN NoDraft ELSE row
  /\ Unlock(d)
  /\ UNCHANGED <<tokens, stuck, copy, approved, history, faults>>

-----------------------------------------------------------------------------

\* process_drafting saves in a thread; everybody else commits on the loop.
Committing(a) ==
  \/ pc[a] \in {"delivered", "failing", "approving", "editing", "clearing"}
  \/ At(a, "drafting") /\ a \in InboxDrafters

WaitForRow(a) ==
  /\ Committing(a) /\ ~Free(a)
  /\ a \notin stuck /\ LoopRuns(a)
  /\ stuck' = stuck \union {a}
  /\ UNCHANGED <<database, pc, copy, approved, history, faults>>

\* A call raises, its process dies or its database does: an open transaction is
\* rolled back.
Crash(a) ==
  /\ ~At(a, "idle")
  /\ Fault
  /\ pc' = [pc EXCEPT ![a] = "idle"]
  /\ copy' = [copy EXCEPT ![a] = NoDraft]
  /\ approved' = approved \ {a}
  /\ stuck' = stuck \ {a}
  /\ Unlock(a)
  /\ UNCHANGED <<row, tokens, history>>

SenderStep(s) ==
  \/ \E explicit \in Approvals : FetchDraft(s, explicit)
  \/ FindToken(s) \/ FindNoToken(s) \/ ClaimToken(s) \/ LoseToken(s)
  \/ Deliver(s) \/ DeliverFails(s) \/ AnswerLost(s)
  \/ RecordSent(s) \/ RecordFailed(s)

ClientStep(c) == ReadForSend(c) \/ MarkSent(c)

EditorStep(e) == (\E b \in EditedBodies : ReadForEdit(e, b)) \/ WriteEdit(e)

DrafterStep(d) ==
  \/ BeginDraft(d) \/ ClearDraft(d)
  \/ \E b \in Bodies : EndDraft(d, b)
  \/ DraftFails(d) \/ IgnoreEmail(d)

Next ==
  \/ \E s \in Senders : SenderStep(s)
  \/ \E c \in Clients : ClientStep(c)
  \/ \E e \in Editors : EditorStep(e)
  \/ \E d \in Drafters : DrafterStep(d)
  \/ \E a \in Actors : WaitForRow(a) \/ Crash(a)

Spec == Init /\ [][Next]_vars

\* A request or job that has begun goes on when its loop lets it. Senders are
\* also called again and again (the retry of a failed sending).
Fairness ==
  /\ \A s \in Senders : WF_vars(SenderStep(s))
  /\ \A c \in Clients : WF_vars(~At(c, "idle") /\ ClientStep(c))
  /\ \A e \in Editors : WF_vars(~At(e, "idle") /\ EditorStep(e))
  /\ \A d \in Drafters : WF_vars(~At(d, "idle") /\ DrafterStep(d))

FairSpec == Spec /\ Fairness

-----------------------------------------------------------------------------
(* Properties                                                              *)

\* Type invariant of the row, the tokens and the requests.
TypeOK ==
  /\ row \in Drafts
  /\ rowLock \in Drafters \union {NoLock}
  /\ tokens \subseteq Bodies
  /\ stuck \subseteq Actors
  /\ pc \in [Actors -> Places]
  /\ copy \in [Actors -> Drafts]
  /\ \A s \in Senders \union Clients \union Editors : pc[s] # "idle" => copy[s].body \in Bodies
  /\ approved \subseteq Senders
  /\ deliveries \in [Bodies -> 0..2]
  /\ unapproved \subseteq Bodies
  /\ marked \subseteq Bodies /\ retyped \subseteq Bodies
  /\ unlabelled \subseteq RiskyBodies
  /\ faults \in 0..MaxFaults

\* The executor sends a body at most once, whatever crashes and however often
\* and by how many processes it is called: the token is committed first.
ExecutorSendsOnce == \A b \in Bodies : deliveries[b] <= 1

Delivered(b) == deliveries[b] > 0

\* The body of a draft that is marked sent was mailed. The code refutes this: the
\* route marks and sends nothing, and an edit of a sent draft leaves it marked.
SentMeansDelivered == row.status = "sent" => row.body \in Bodies /\ Delivered(row.body)

\* The body of a draft that is marked sent was mailed, or the route marked it, or a
\* person typed it over one that was marked: no crash, no failed sending, no redraft and no
\* late write of a stale copy of the metadata turns an unsent mail into a sent one.
SentIsAccounted ==
  row.status = "sent" =>
    \/ row.body \in marked \union retyped
    \/ row.body \in Bodies /\ Delivered(row.body)

\* Nothing the drafting model labels leaves without an explicit approval. The code
\* refutes this: process_drafting keeps no labels.
RiskIsApproved == unapproved \intersect RiskyBodies = {}

\* A label that is in the row is not lost: what the drafting model labels leaves without an
\* explicit approval only if process_drafting drafted it or a person typed it, whatever is
\* edited, redrafted, retried and written back over each other meanwhile.
LabelsHold == unapproved \intersect RiskyBodies \subseteq unlabelled

\* The row is locked only by a drafter that is at work: a crash between the
\* clearing of a draft and the writing of the next leaves no lock behind.
LockHasOwner == rowLock # NoLock => pc[rowLock] = "drafting"

\* The lock that a drafter takes before it asks the language model is released:
\* no request that waits for the row keeps the drafter from going on. The code refutes
\* this with one Loop for all: the commit that waits for the row stops the loop.
LockIsReleased == rowLock # NoLock ~> rowLock = NoLock

=============================================================================
