-------------------------- MODULE ProviderAdapters --------------------------
(***************************************************************************)
(* The adapters of one connected account side by side: mail (Mailbox) and  *)
(* calendar (CalendarEvents), of the same provider, and the conversations  *)
(* of the mailbox as they are told (MailThreads). They share no state but  *)
(* the account, so a behaviour is about the calls of one of them.          *)
(***************************************************************************)
EXTENDS Mailbox

CONSTANTS  \* CalendarEvents
  Events, Guests, Me, Callers, Horizon, Zones, MaxSuggestions, MaxEventEdits, MaxEventFaults

CONSTANTS Threads, GraphPage, MaxListed, MaxArrivals  \* MailThreads

ASSUME MailBoundsAssumption == MaxEdits \in Nat /\ MaxFaults \in Nat
ASSUME EventsAssumption ==
  /\ Me \in Guests /\ Horizon \in Nat /\ MaxSuggestions \in Nat \ {0}
  /\ Zones \subseteq 0..1 /\ 0 \in Zones
  /\ MaxEventEdits \in Nat /\ MaxEventFaults \in Nat
ASSUME PagesAssumption == {GraphPage, MaxListed} \subseteq Nat \ {0} /\ MaxArrivals \in Nat

VARIABLES
  service,  \* bound: the adapter that the behaviour is about
  about, calendar, elsewhere, eventCall, eventEdits, eventFaults,
  mails, listing, asked, items

Cal == INSTANCE CalendarEvents WITH
  call <- eventCall, edits <- eventEdits, faults <- eventFaults,
  Most <- MaxSuggestions, MaxEdits <- MaxEventEdits, MaxFaults <- MaxEventFaults

Told == INSTANCE MailThreads WITH Most <- MaxListed, MaxMails <- MaxArrivals

events == <<about, calendar, elsewhere, eventCall, eventEdits, eventFaults>>
threads == <<mails, listing, asked, items>>
account == <<service, vars, events, threads>>

\* Of the adapter that takes no step, one initial state is enough.
AdaptersInit ==
  /\ service \in {"mail", "calendar", "threads"}
  /\ Init /\ Cal!Init /\ Told!Init
  /\ service # "calendar" => about = "edits"
  /\ service # "mail" => Cardinality({i \in Ids : Exists(i)}) = 1

MailStep ==
  /\ service = "mail"
  /\ Next
  /\ UNCHANGED <<service, events, threads>>

CalendarStep ==
  /\ service = "calendar"
  /\ Cal!Next
  /\ UNCHANGED <<service, box, call, log, had, edits, unwritten, faults, threads>>

ThreadsStep ==
  /\ service = "threads"
  /\ Told!Next
  /\ UNCHANGED <<service, box, call, log, had, edits, unwritten, faults, events>>

AdaptersNext == MailStep \/ CalendarStep \/ ThreadsStep

AdaptersSpec == AdaptersInit /\ [][AdaptersNext]_account

-----------------------------------------------------------------------------
\* What a search for a meeting time suggests is free, and none comes too late.
SuggestionsAreSound == Cal!SuggestionsAreSound

\* The adapters answer truly: the message in the answer of sendDraft is the one that the
\* call has sent, and a call for many messages answers with success only when each has had
\* its due.
AnswersAreTrue == AnswerNamesSent /\ OkMeansDone

\* What is told of a conversation is true of the whole of it, as far as the provider's
\* page goes.
AccountIsTold == Told!ThreadsAreTold

\* What a change does not name stays: in an event, over an update or an answer of the
\* owner, and in the subject and the body of a draft, over an update.
EditsAreLocal == Cal!OthersAreKept /\ UpdateKeepsTheRest
=============================================================================
