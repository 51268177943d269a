------------------------------ MODULE Mailbox ------------------------------
(***************************************************************************)
(* The mail adapters of the connector package (gmail.adapter.ts,           *)
(* graph-mail.adapter.ts) with the draft routes of routes/index.ts, over   *)
(* one mailbox at its provider. Calls of the adapter overlap with each     *)
(* other and with the owner's edits, and fail in the middle.               *)
(*                                                                         *)
(* A Graph message that is moved has a new id from then on; a Gmail        *)
(* message keeps its id and changes labels.                                *)
(***************************************************************************)
EXTENDS Integers, FiniteSets, Sequences

CONSTANTS
  Mails,      \* bound: mails that ever exist
  Ids,        \* bound: ids of the provider
  Drafting,   \* bound: calls for one draft; a failed sending is repeated
  Batches,    \* bound: calls for many messages, repeated while they fail
  MaxEdits,   \* bound: edits of drafts
  MaxFaults   \* bound: failed requests

VARIABLES
  provider,  \* account.provider
  box,       \* the mailbox: what an id stands for
  call,      \* the calls under way, and the answers of those that ended
  log,       \* mails in the order in which the provider delivered them
  had,       \* what calls have done to a mail; that it is read is seen here only
  edits,     \* the number of the last edit
  unwritten, \* mails that nobody has written yet
  faults

Calls == Drafting \union Batches

vars == <<provider, box, call, log, had, edits, unwritten, faults>>

-----------------------------------------------------------------------------
(* A draft has a subject and a body, which everyone edits, attachments,     *)
(* which only the owner adds, and, when it is a reply, a thread and headers *)
(* that name what it answers. The value of a field is the number of the     *)
(* edit it stems from; None is an empty field.                              *)

Written == {"subject", "body"}
Given == Written \union {"attachments"}  \* what an update may name
Fields == Given \union {"thread"}
None == 0
Edits == 0..MaxEdits
Contents == [Fields -> Edits]
Blank == [f \in Fields |-> None]
Places == {"drafts", "inbox", "archive", "sent", "trash"}
Items == [mail : Mails, place : Places, content : Contents]
NoItem == [place |-> "none"]  \* an id that is not given yet
Gone == [place |-> "gone"]    \* an id whose message is deleted or has moved
BulkOps == {"read", "archive", "trash"}

IsDraft(i) == box[i].place = "drafts"
Exists(i) == box[i].place \in Places
FreeId == CHOOSE i \in Ids : box[i] = NoItem
Room == \E i \in Ids : box[i] = NoItem

NoMail == [op |-> "none"]
Idle == [op |-> "idle"]
Updates == [op : {"update"}, id : Ids, give : SUBSET Given, edit : Edits, read : Contents]
Sends == [op : {"send"}, pc : {"sending", "looking", "marking", "ok", "failed"}, id : Ids,
          mail : Mails \union {NoMail}, at : Ids, answer : Mails \union {NoMail},
          missed : BOOLEAN]
Bulks == [op : BulkOps, pc : {"running", "ok", "failed"}, ids : SUBSET Ids, todo : SUBSET Ids,
          mails : SUBSET Mails]

Fault == faults < MaxFaults /\ faults' = faults + 1

Init ==
  /\ provider \in {"GOOGLE", "MICROSOFT"}
  \* a draft, and a message in the inbox or none
  /\ \E m, n \in Mails, received \in BOOLEAN :
       LET i == CHOOSE k \in Ids : TRUE
           j == CHOOSE k \in Ids \ {i} : TRUE IN
       /\ m # n
       /\ box = [k \in Ids |->
            IF k = i THEN [mail |-> m, place |-> "drafts", content |-> Blank]
            ELSE IF k = j /\ received THEN [mail |-> n, place |-> "inbox", content |-> Blank]
            ELSE NoItem]
       /\ unwritten = IF received THEN Mails \ {m, n} ELSE Mails \ {m}
  /\ call = [c \in Calls |-> Idle]
  /\ log = <<>>
  /\ had = [m \in Mails |-> {}]
  /\ edits = 0 /\ faults = 0

-----------------------------------------------------------------------------
(* What the adapters make of a message.                                     *)

\* Gmail tells by labels, Graph by the folder; only Gmail's adapter says what is trash.
GmailMessage(i) ==
  [id |-> i, labels |-> CASE box[i].place = "drafts" -> {"DRAFT"}
                          [] box[i].place = "inbox" -> {"INBOX"}
                          [] box[i].place = "sent" -> {"SENT"}
                          [] box[i].place = "trash" -> {"TRASH"}
                          [] OTHER -> {},
   folders |-> {}, isDraft |-> IsDraft(i), isTrash |-> box[i].place = "trash"]

GraphMessage(i) ==
  [id |-> i, labels |-> {}, folders |-> {box[i].place}, isDraft |-> IsDraft(i),
   isTrash |-> FALSE]

\* Gmail leaves the trash out of its lists, Graph's /me/messages is all folders.
GmailMessages == {GmailMessage(i) : i \in {j \in Ids : Exists(j) /\ box[j].place # "trash"}}
GraphMessages == {GraphMessage(i) : i \in {j \in Ids : Exists(j)}}

\* The threads of Gmail and the conversations of Graph are made of the same messages.
GmailThreads == GmailMessages
GraphThreads == GraphMessages

\* A search of Gmail's adapter builds a query and does not pass it: all messages match.
\* That of Graph's passes it.
GmailMatches == GmailMessages
GraphMatches(query) == {v \in GraphMessages : box[v.id].mail \in query}
Found(query) == IF provider = "GOOGLE" THEN GmailMatches ELSE GraphMatches(query)

Listing == IF provider = "GOOGLE" THEN GmailThreads ELSE GraphThreads

-----------------------------------------------------------------------------
(* Drafts.                                                                  *)

\* A draft of Gmail is read without its attachments and built without any.
NormalizeDraft(content) == [content EXCEPT !["attachments"] = None]
BuildRawEmail(content, replyTo) ==
  [content EXCEPT !["attachments"] = None, !["thread"] = replyTo]

\* Nor does Graph's adapter show them.
GraphDraft(content) == [content EXCEPT !["attachments"] = None]

\* listDrafts: Gmail names the drafts and is asked for each, Graph has a folder of them.
GmailDrafts == {[id |-> i, content |-> NormalizeDraft(box[i].content)] : i \in {j \in Ids : IsDraft(j)}}
GraphDrafts == {[id |-> i, content |-> GraphDraft(box[i].content)] : i \in {j \in Ids : IsDraft(j)}}
Drafts == IF provider = "GOOGLE" THEN GmailDrafts ELSE GraphDrafts

GmailNewDraft(edit, replyTo) == BuildRawEmail([f \in Fields |-> edit], replyTo)
\* Graph's adapter has no use for what the draft is to answer.
GraphNewDraft(edit) == [f \in Fields |-> IF f \in Written THEN edit ELSE None]
NewDraft(edit, replyTo) ==
  IF provider = "GOOGLE" THEN GmailNewDraft(edit, replyTo) ELSE GraphNewDraft(edit)

\* POST /email/drafts. Its answer, or the audit entry after it, may be lost.
CreateDraft ==
  /\ Room /\ edits < MaxEdits
  /\ edits' = edits + 1
  /\ \E m \in unwritten, replyTo \in {None, edits'} :
       /\ box' = [box EXCEPT ![FreeId] =
                    [mail |-> m, place |-> "drafts", content |-> NewDraft(edits', replyTo)]]
       /\ unwritten' = unwritten \ {m}
  /\ UNCHANGED <<provider, call, log, had, faults>>

\* The owner edits the draft in the provider's own client.
OwnerEdits(i) ==
  /\ IsDraft(i) /\ edits < MaxEdits
  /\ edits' = edits + 1
  /\ \E f \in Given : box' = [box EXCEPT ![i].content[f] = edits']
  /\ UNCHANGED <<provider, call, log, had, unwritten, faults>>

DeleteDraft(i) ==
  /\ IsDraft(i)
  /\ box' = [box EXCEPT ![i] = Gone]
  /\ UNCHANGED <<provider, call, log, had, edits, unwritten, faults>>

Merge(old, give, edit) == [f \in Fields |-> IF f \in give THEN edit ELSE old[f]]

\* Gmail's updateDraft reads the draft ...
GmailReadsDraft(c, i) ==
  /\ provider = "GOOGLE" /\ call[c] = Idle /\ IsDraft(i)
  /\ edits < MaxEdits /\ edits' = edits + 1
  /\ \E give \in SUBSET Given \ {{}} :
       call' = [call EXCEPT ![c] = [op |-> "update", id |-> i, give |-> give,
                  edit |-> edits', read |-> NormalizeDraft(box[i].content)]]
  /\ UNCHANGED <<provider, box, log, had, unwritten, faults>>

\* A bug: what is not given is left out of the message.
RewrittenOnly(c) == BuildRawEmail(Merge(Blank, call[c].give, call[c].edit), None)

\* The message that is built anew answers nothing, and the request names no thread, though
\* both have been read.
Rewritten(c) == BuildRawEmail(Merge(call[c].read, call[c].give, call[c].edit), None)

\* ... and writes back what is left of it.
GmailWritesDraft(c) ==
  /\ provider = "GOOGLE" /\ call[c].op = "update"
  /\ LET i == call[c].id IN
     box' = IF IsDraft(i) THEN [box EXCEPT ![i].content = Rewritten(c)] ELSE box
  /\ call' = [call EXCEPT ![c] = Idle]
  /\ UNCHANGED <<provider, log, had, edits, unwritten, faults>>

\* Graph patches what is given, attachments left aside.
GraphPatchesDraft(i) ==
  /\ provider = "MICROSOFT" /\ IsDraft(i)
  /\ edits < MaxEdits /\ edits' = edits + 1
  /\ \E give \in SUBSET Written \ {{}} :
       box' = [box EXCEPT ![i].content = Merge(@, give, edits')]
  /\ UNCHANGED <<provider, call, log, had, unwritten, faults>>

UpdateFails(c) ==
  /\ call[c].op = "update"
  /\ call' = [call EXCEPT ![c] = Idle]
  /\ Fault
  /\ UNCHANGED <<provider, box, log, had, edits, unwritten>>

-----------------------------------------------------------------------------
(* POST /email/drafts/:draftId/send with a valid approval.                  *)

NewSend(i) ==
  [op |-> "send", pc |-> "sending", id |-> i, mail |-> NoMail, at |-> i, answer |-> NoMail,
   missed |-> FALSE]

\* Also with an approval that an earlier call has used: only its mark makes it invalid.
BeginSend(c, i) ==
  /\ call[c] = Idle \/ (call[c].op = "send" /\ call[c].pc = "failed" /\ call[c].id = i)
  /\ call[c] = Idle => \E d \in Drafts : d.id = i
  /\ call' = [call EXCEPT ![c] = NewSend(i)]
  /\ UNCHANGED <<provider, box, log, had, edits, unwritten, faults>>

\* A bug: the content is sent and the draft stays.
SentAsCopy(i) == [box EXCEPT ![FreeId] = [box[i] EXCEPT !.place = "sent"]]

\* The provider sends the draft, which is a sent message under another id then.
Sent(i) ==
  LET out == [box EXCEPT ![i] = Gone] IN
  [out EXCEPT ![FreeId] = [box[i] EXCEPT !.place = "sent"]]

SendDraft(c) ==
  /\ call[c].op = "send" /\ call[c].pc = "sending"
  /\ LET i == call[c].id IN
     /\ IsDraft(i) /\ Room
     /\ box' = Sent(i)
     /\ log' = Append(log, box[i].mail)
     /\ call' = [d \in Calls |->
          IF d = c THEN [call[c] EXCEPT !.pc = "looking", !.mail = box[i].mail, !.at = FreeId]
          ELSE IF call[d].op = "send" THEN [call[d] EXCEPT !.missed = TRUE] ELSE call[d]]
  /\ UNCHANGED <<provider, had, edits, unwritten, faults>>

SendUnknownDraft(c) ==
  /\ call[c].op = "send" /\ call[c].pc = "sending" /\ ~IsDraft(call[c].id)
  /\ call' = [call EXCEPT ![c].pc = "failed"]
  /\ UNCHANGED <<provider, box, log, had, edits, unwritten, faults>>

\* Gmail's adapter then reads the message that the provider has named ...
GmailSentMessage(c) == IF Exists(call[c].at) THEN box[call[c].at].mail ELSE NoMail

\* ... and Graph's the newest one in the folder Sent Items.
InSentItems == {n \in DOMAIN log :
  \E i \in Ids : Exists(i) /\ box[i].place = "sent" /\ box[i].mail = log[n]}
Newest == CHOOSE n \in InSentItems : \A k \in InSentItems : k <= n
GraphSentMessage == IF InSentItems = {} THEN NoMail ELSE log[Newest]

\* A bug: the newest message is taken from both providers.
SentMessageNewest(c) == GraphSentMessage

SentMessage(c) == IF provider = "GOOGLE" THEN GmailSentMessage(c) ELSE GraphSentMessage

LookForSent(c) ==
  /\ call[c].op = "send" /\ call[c].pc = "looking"
  /\ call' = [call EXCEPT ![c].answer = SentMessage(c),
                          ![c].pc = IF SentMessage(c) = NoMail THEN "failed" ELSE "marking"]
  /\ UNCHANGED <<provider, box, log, had, edits, unwritten, faults>>

\* The approval is marked as executed and the audit entry written.
MarkExecuted(c) ==
  /\ call[c].op = "send" /\ call[c].pc = "marking"
  /\ call' = [call EXCEPT ![c].pc = "ok"]
  /\ UNCHANGED <<provider, box, log, had, edits, unwritten, faults>>

\* A request fails, before the mail is sent or after.
SendFails(c) ==
  /\ call[c].op = "send" /\ call[c].pc \in {"sending", "looking", "marking"}
  /\ call' = [call EXCEPT ![c].pc = "failed"]
  /\ Fault
  /\ UNCHANGED <<provider, box, log, had, edits, unwritten>>

-----------------------------------------------------------------------------
(* Many messages at once.                                                   *)

\* A caller chooses among what a list or a search shows it.
BeginBulk(c, op) ==
  /\ call[c] = Idle
  /\ \E shown \in SUBSET {v \in Listing \union Found(Mails) : ~v.isDraft /\ ~v.isTrash} \ {{}} :
       LET ids == {v.id : v \in shown} IN
       call' = [call EXCEPT ![c] = [op |-> op, pc |-> "running", ids |-> ids, todo |-> ids,
                                    mails |-> {box[i].mail : i \in ids}]]
  /\ UNCHANGED <<provider, box, log, had, edits, unwritten, faults>>

Running(c) == call[c].op \in BulkOps /\ call[c].pc = "running"

\* A call that failed is made again.
RepeatBulk(c) ==
  /\ call[c].op \in BulkOps /\ call[c].pc = "failed" /\ call[c].todo = {}
  /\ call' = [call EXCEPT ![c].pc = "running", ![c].todo = call[c].ids]
  /\ UNCHANGED <<provider, box, log, had, edits, unwritten, faults>>

\* Labels come and go: what is not in the inbox does not leave it.
Labelled(op, item) ==
  CASE op = "archive" /\ item.place = "inbox" -> [item EXCEPT !.place = "archive"]
    [] op = "trash" -> [item EXCEPT !.place = "trash"]
    [] OTHER -> item

Did(op, ids) == [m \in Mails |-> IF \E i \in ids : box[i].mail = m
                                 THEN had[m] \union {op} ELSE had[m]]

\* applyLabels of Gmail, and with it archiveMessages and setReadStatus: one request.
ApplyLabels(c) ==
  /\ provider = "GOOGLE" /\ Running(c) /\ call[c].op # "trash"
  /\ LET ids == {i \in call[c].ids : Exists(i)} IN
     /\ box' = [i \in Ids |-> IF i \in ids THEN Labelled(call[c].op, box[i]) ELSE box[i]]
     /\ had' = Did(call[c].op, ids)
  /\ call' = [call EXCEPT ![c].pc = "ok", ![c].todo = {}]
  /\ UNCHANGED <<provider, log, edits, unwritten, faults>>

\* The call after one of its requests has been answered. Gmail's trashMessages has all
\* of them under way: the first error is the answer, and the others go on.
Answered(c, i) ==
  [call[c] EXCEPT !.todo = @ \ {i}, !.pc = IF @ = "running" /\ call[c].todo = {i} THEN "ok" ELSE @]
\* A bug: the requests are settled, and their errors dropped.
RefusedSettled(c, i) == Answered(c, i)
Refused(c, i) == [call[c] EXCEPT !.todo = @ \ {i}, !.pc = "failed"]

TrashOne(c, i) ==
  /\ provider = "GOOGLE" /\ call[c].op = "trash" /\ i \in call[c].todo /\ Exists(i)
  /\ box' = [box EXCEPT ![i] = Labelled("trash", @)]
  /\ had' = Did("trash", {i})
  /\ call' = [call EXCEPT ![c] = Answered(c, i)]
  /\ UNCHANGED <<provider, log, edits, unwritten, faults>>

TrashFails(c, i) ==
  /\ provider = "GOOGLE" /\ call[c].op = "trash" /\ i \in call[c].todo
  /\ call' = [call EXCEPT ![c] = Refused(c, i)]
  /\ Fault
  /\ UNCHANGED <<provider, box, log, had, edits, unwritten>>

\* Graph's adapter asks for one message after the other. Reading marks it ...
SetReadStatus(c, i) ==
  /\ provider = "MICROSOFT" /\ Running(c) /\ call[c].op = "read" /\ i \in call[c].todo
  /\ Exists(i)
  /\ had' = Did("read", {i})
  /\ call' = [call EXCEPT ![c] = Answered(c, i)]
  /\ UNCHANGED <<provider, box, log, edits, unwritten, faults>>

\* ... and the rest move it, to where it has another id.
Move(c, i) ==
  /\ provider = "MICROSOFT" /\ Running(c) /\ call[c].op # "read" /\ i \in call[c].todo
  /\ Exists(i) /\ Room
  /\ LET out == [box EXCEPT ![i] = Gone] IN
     box' = [out EXCEPT ![FreeId] = [box[i] EXCEPT !.place = call[c].op]]
  /\ had' = Did(call[c].op, {i})
  /\ call' = [d \in Calls |->
       IF d = c THEN Answered(c, i)
       ELSE IF call[d].op = "send" /\ call[d].at = i THEN [call[d] EXCEPT !.missed = TRUE]
       ELSE call[d]]
  /\ UNCHANGED <<provider, log, edits, unwritten, faults>>

\* The first error ends the loop.
Stopped(c) == [call[c] EXCEPT !.pc = "failed", !.todo = {}]
NoSuchMessage(c, i) ==
  /\ provider = "MICROSOFT" /\ Running(c) /\ i \in call[c].todo /\ ~Exists(i)
  /\ call' = [call EXCEPT ![c] = Stopped(c)]
  /\ UNCHANGED <<provider, box, log, had, edits, unwritten, faults>>
BulkFails(c) ==
  /\ Running(c) /\ ~(provider = "GOOGLE" /\ call[c].op = "trash")
  /\ call' = [call EXCEPT ![c] = Stopped(c)]
  /\ Fault
  /\ UNCHANGED <<provider, box, log, had, edits, unwritten>>

-----------------------------------------------------------------------------
Draft(c) ==
  \/ \E i \in Ids : GmailReadsDraft(c, i) \/ BeginSend(c, i)
  \/ GmailWritesDraft(c) \/ UpdateFails(c)
  \/ SendDraft(c) \/ SendUnknownDraft(c) \/ LookForSent(c) \/ MarkExecuted(c) \/ SendFails(c)

Bulk(c) ==
  \/ \E op \in BulkOps : BeginBulk(c, op)
  \/ RepeatBulk(c) \/ ApplyLabels(c) \/ BulkFails(c)
  \/ \E i \in Ids : TrashOne(c, i) \/ TrashFails(c, i) \/ SetReadStatus(c, i) \/ Move(c, i)
                    \/ NoSuchMessage(c, i)

Next ==
  \/ CreateDraft
  \/ \E i \in Ids : OwnerEdits(i) \/ DeleteDraft(i) \/ GraphPatchesDraft(i)
  \/ \E c \in Drafting : Draft(c)
  \/ \E c \in Batches : Bulk(c)

Spec == Init /\ [][Next]_vars

-----------------------------------------------------------------------------
TypeOK ==
  /\ provider \in {"GOOGLE", "MICROSOFT"}
  /\ box \in [Ids -> Items \union {NoItem, Gone}]
  /\ call \in [Calls -> Updates \union Sends \union Bulks \union {Idle}]
  /\ log \in Seq(Mails)
  /\ had \in [Mails -> SUBSET BulkOps]
  /\ unwritten \subseteq Mails
  /\ edits \in Edits /\ faults \in 0..MaxFaults

\* A draft is delivered at most once, however often the send route is called again
\* after a failure that came before or after the delivery, and whoever else sends it:
\* sending consumes the draft, so the approval that stays valid finds nothing to send.
DraftLeavesOnce == \A m, n \in DOMAIN log : log[m] = log[n] => m = n

\* The message in the answer of sendDraft is the one that the call has sent. Graph's
\* adapter may answer with another message, if one was sent in between or this one has
\* left the folder.
AnswerNamesSent ==
  \A c \in Drafting :
    call[c].op = "send" /\ call[c].answer # NoMail =>
      \/ call[c].answer = call[c].mail
      \/ provider = "MICROSOFT" /\ call[c].missed

\* A call for many messages answers with success only when each of their mails has had
\* what was asked for, also if it is the repetition of a call that stopped in the
\* middle, and though another call may move a message meanwhile.
OkMeansDone ==
  \A c \in Batches :
    call[c].op \in BulkOps /\ call[c].pc = "ok" =>
      \A m \in call[c].mails : call[c].op \in had[m]

\* What an update does not name of the subject and the body of a draft stays, or is set
\* back by no more than the edits that came after the update began. Nothing of the kind
\* holds of the attachments, nor of the thread and the headers of a reply: every update by
\* Gmail's adapter removes them.
UpdateKeepsTheRest ==
  [][\A c \in Drafting, i \in Ids :
       call[c].op = "update" /\ call'[c] = Idle /\ call[c].id = i /\ IsDraft(i) =>
         \A f \in Written \ call[c].give :
           \/ box'[i].content[f] = box[i].content[f]
           \/ box'[i].content[f] >= call[c].read[f]]_vars
=============================================================================
