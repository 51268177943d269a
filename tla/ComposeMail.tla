---------------------------- MODULE ComposeMail ----------------------------
(***************************************************************************)
(* The composer of the workspace (feed/ComposeModal.tsx), the card of a    *)
(* mail whose buttons open it (feed/cards/EmailActionCard.tsx) and the     *)
(* card of a letter that the chat proposes, which is edited and sent where *)
(* it stands (feed/cards/ComposeActionCard.tsx). The composer stays        *)
(* mounted while it is closed, so that its fields, its attachments and a   *)
(* send on its way outlive the letter that is open; the store only says    *)
(* which letter that is. The five text fields are abstracted to the letter *)
(* that they were filled from and to how often the user wrote in them      *)
(* since. The buttons of the cards are out of reach beneath the open       *)
(* composer: a behaviour is about the composer or about the cards.         *)
(***************************************************************************)
EXTENDS Integers, FiniteSets

CONSTANTS
  Letters,    \* what a draft, a forward or the stream fills the composer with
  NoLetter,
  Files,
  Cards,      \* the mails shown as cards
  MaxWrites,  \* bound: edits of one letter
  MaxReads,   \* bound: file choosers that are read at one time
  MaxOpened,  \* bound: letters that are opened
  MaxClicks   \* bound: requests of one card at one time

VARIABLES
  about,       \* bound: what the behaviour is about
  composeData, \* the store's; isComposeOpen is that there is one
  fields,      \* to, cc, bcc, subject and body
  attachments, \* of no letter in particular: they stay when one closes or another opens
  readings,    \* handleFileChange, from the first read to setAttachments
  sending,     \* the mail that isSending is about
  opened,      \* letters opened so far
  connected,   \* isFullyConnected
  draft,       \* the status of the draft on each card
  busy,        \* isActionLoading of each card
  clicked,     \* how many requests of each card are not answered
  proposed,    \* the letter that the chat proposes
  mine,        \* (history) what the user wrote, until it is sent or given up
  crossed      \* (history) something was opened, or sent, over what is written

vars == <<about, composeData, fields, attachments, readings, sending, opened, connected, draft, busy,
          clicked, proposed, mine, crossed>>
composer == <<about, fields, attachments, readings, sending, mine, crossed>>
store == <<composeData, opened>>
cards == <<connected, draft, busy, clicked, proposed>>

Empty == [of |-> NoLetter, written |-> 0]
NoSend == [thread |-> NoLetter, fields |-> Empty, files |-> {}]
isOpen == composeData # NoLetter
isSending == sending # NoSend

Init ==
  /\ about \in {"composer", "cards"}
  /\ composeData = NoLetter /\ opened = 0
  /\ fields = Empty /\ attachments = {} /\ readings = {} /\ sending = NoSend
  /\ connected = TRUE
  /\ draft \in [Cards -> {"none", "pending", "failed", "ready"}]
  /\ busy = [c \in Cards |-> FALSE]
  /\ clicked = [c \in Cards |-> 0]
  /\ proposed = "shown"
  /\ mine = Empty /\ crossed = FALSE

-----------------------------------------------------------------------------
(* Opening and closing                                                     *)

\* The effect on composeData and isOpen: a letter that opens fills every field, and leaves
\* the attachments as they are.
PrefillOnOpening(letter) == IF isOpen THEN fields ELSE [of |-> letter, written |-> 0]
Prefill(letter) == [of |-> letter, written |-> 0]

OpenCompose(letter) ==
  /\ about = "composer" /\ opened < MaxOpened
  /\ opened' = opened + 1
  /\ composeData' = letter
  /\ fields' = Prefill(letter)
  /\ mine' = Empty
  /\ crossed' = isSending
  /\ UNCHANGED <<about, attachments, readings, sending>>

\* Edit Draft and Forward Email: beneath the open composer they cannot be reached.
EditOrForward(c, letter) ==
  /\ draft[c] = "ready"
  /\ connected
  /\ ~isOpen
  /\ OpenCompose(letter)
  /\ UNCHANGED cards

\* compose_action of the stream, whatever is open.
StreamComposes(letter) ==
  /\ OpenCompose(letter)
  /\ UNCHANGED cards

\* X, and a click beside the modal, also while a send is on its way.
CloseCompose ==
  /\ isOpen
  /\ composeData' = NoLetter
  /\ mine' = Empty
  /\ UNCHANGED <<about, opened, fields, attachments, readings, sending, crossed, cards>>

-----------------------------------------------------------------------------
(* Writing                                                                 *)

Write ==
  /\ isOpen
  /\ fields.written < MaxWrites
  /\ fields' = [fields EXCEPT !.written = @ + 1]
  /\ mine' = fields'
  /\ crossed' = (crossed \/ isSending)
  /\ UNCHANGED <<about, attachments, readings, sending, store, cards>>

\* handleFileChange keeps the attachments of its rendering until its files are read.
ChooseFile(file) ==
  /\ isOpen
  /\ Cardinality(readings) < MaxReads
  /\ readings' = readings \union {[before |-> attachments, file |-> file]}
  /\ UNCHANGED <<about, fields, attachments, sending, mine, crossed, store, cards>>

FileIsRead(r) ==
  /\ readings' = readings \ {r}
  /\ attachments' = r.before \union {r.file}
  /\ UNCHANGED <<about, fields, sending, mine, crossed, store, cards>>

RemoveAttachment(file) ==
  /\ isOpen
  /\ file \in attachments
  /\ attachments' = attachments \ {file}
  /\ UNCHANGED <<about, fields, readings, sending, mine, crossed, store, cards>>

-----------------------------------------------------------------------------
(* Sending                                                                 *)

\* A forward has no recipient, and a letter of the stream may lack anything, until it is
\* written; a prefilled reply may be sent as it is.
HandleSend ==
  /\ isOpen
  /\ ~isSending
  /\ sending' = [thread |-> composeData, fields |-> fields, files |-> attachments]
  /\ UNCHANGED <<about, fields, attachments, readings, mine, crossed, store, cards>>

\* The success of a send clears and closes what is open by then.
SendSucceeds ==
  /\ isSending
  /\ sending' = NoSend
  /\ fields' = Empty /\ attachments' = {}
  /\ composeData' = NoLetter
  /\ mine' = IF mine = sending.fields THEN Empty ELSE mine
  /\ crossed' = (crossed /\ mine' # Empty)
  /\ UNCHANGED <<about, readings, opened, cards>>

SendFails ==
  /\ isSending
  /\ sending' = NoSend
  /\ crossed' = FALSE
  /\ UNCHANGED <<about, fields, attachments, readings, mine, store, cards>>

-----------------------------------------------------------------------------
(* The buttons of a card                                                   *)

Click(c) ==
  /\ about = "cards" /\ connected
  /\ clicked[c] < MaxClicks
  /\ busy' = [busy EXCEPT ![c] = TRUE]
  /\ clicked' = [clicked EXCEPT ![c] = @ + 1]
  /\ UNCHANGED <<connected, draft, proposed, store, composer>>

HandleApproveDraft(c) == draft[c] = "ready" /\ ~busy[c] /\ Click(c)

\* The button of a failed draft is never disabled.
HandleRetryDraft(c) == draft[c] = "failed" /\ Click(c)

HandleActionClick(c) == draft[c] # "ready" /\ ~busy[c] /\ Click(c)

\* Sent, executed or synchronised, or not: the card tells the user and is free again.
CardAnswered(c) ==
  /\ clicked[c] > 0
  /\ busy' = [busy EXCEPT ![c] = FALSE]
  /\ clicked' = [clicked EXCEPT ![c] = @ - 1]
  /\ UNCHANGED <<connected, draft, proposed, store, composer>>

\* The network or the backend goes and comes.
ConnectionChanges ==
  /\ connected' = ~connected
  /\ UNCHANGED <<draft, busy, clicked, proposed, store, composer>>

-----------------------------------------------------------------------------
(* The letter that the chat proposes                                       *)

\* Its text, which may be written also while it is sent, is left out.
ProposalSends ==
  /\ about = "cards" /\ proposed = "shown"
  /\ connected
  /\ proposed' = "sending"
  /\ UNCHANGED <<connected, draft, busy, clicked, store, composer>>

\* Sent for good, or shown again as it is.
ProposalAnswered ==
  /\ proposed = "sending"
  /\ proposed' \in {"sent", "shown"}
  /\ UNCHANGED <<connected, draft, busy, clicked, store, composer>>

SendEnds == SendSucceeds \/ SendFails

Next ==
  \/ \E l \in Letters : StreamComposes(l) \/ \E c \in Cards : EditOrForward(c, l)
  \/ CloseCompose
  \/ Write
  \/ \E f \in Files : ChooseFile(f) \/ RemoveAttachment(f)
  \/ \E r \in readings : FileIsRead(r)
  \/ HandleSend
  \/ SendEnds
  \/ ProposalSends \/ ProposalAnswered
  \/ \E c \in Cards :
       \/ HandleApproveDraft(c) \/ HandleRetryDraft(c) \/ HandleActionClick(c)
       \/ CardAnswered(c)
  \/ ConnectionChanges

Spec ==
  /\ Init /\ [][Next]_vars
  /\ WF_vars(SendEnds) /\ WF_vars(ProposalAnswered)
  /\ \A c \in Cards : WF_vars(CardAnswered(c))

-----------------------------------------------------------------------------
TypeOK ==
  /\ about \in {"composer", "cards"}
  /\ composeData \in Letters \union {NoLetter} /\ opened \in 0..MaxOpened
  /\ {fields, mine, sending.fields} \subseteq
       [of : Letters \union {NoLetter}, written : 0..MaxWrites]
  /\ attachments \subseteq Files
  /\ readings \subseteq [before : SUBSET Files, file : Files]
  /\ sending.thread \in Letters \union {NoLetter} /\ sending.files \subseteq Files
  /\ {connected, crossed} \subseteq BOOLEAN
  /\ draft \in [Cards -> {"none", "pending", "failed", "ready"}]
  /\ busy \in [Cards -> BOOLEAN] /\ clicked \in [Cards -> 0..MaxClicks]
  /\ proposed \in {"shown", "sending", "sent"}

\* What the user wrote is in the composer until it is sent or the composer closed or opened
\* for another letter, whatever becomes of the sends; only what is written while a send is
\* on its way, or opened, goes with its success. A mail goes to the thread of the
\* letter that is in its fields, though thread and fields are kept apart and the stream
\* may open a letter over another.
LetterIsKept ==
  /\ ~crossed /\ mine # Empty => fields = mine
  /\ isSending => sending.fields.of = sending.thread

\* Every send of the composer ends, and the buttons of a card come back.
ComposerSettles ==
  /\ []<>~isSending
  /\ []<>(proposed # "sending")
  /\ \A c \in Cards : []<>~busy[c]
=============================================================================
