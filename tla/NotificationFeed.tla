-------------------------- MODULE NotificationFeed --------------------------
(***************************************************************************)
(* The feed of a conversation (NotificationStream.tsx): its fetch, the     *)
(* command that the user sends, and the overlay that opens when the answer *)
(* takes long and lets the user cancel. A cancelled request goes on; its   *)
(* answer finds that requestIdRef has moved on. A feed is abstracted to    *)
(* what fills it; the commands of one page are numbered.                   *)
(***************************************************************************)
EXTENDS Integers, FiniteSets

CONSTANTS
  Conversations, \* besides the morning briefing
  MaxIds         \* bound: values of requestIdRef

VARIABLES
  open,       \* activeConversation
  fetches,    \* fetches under way, and whether each is alive
  feed,       \* what localFeedItems shows, of whatever conversation
  loading,    \* isLoading
  requestId,  \* requestIdRef
  posted,     \* ids of the requests under way
  submitting, \* isSubmitting
  delay,      \* whether the timer of the overlay is set
  working     \* workingOpen

conversation == <<open, fetches, feed, loading>>
command == <<requestId, posted, submitting, delay, working>>
vars == <<open, fetches, feed, loading, requestId, posted, submitting, delay, working>>

Briefing == "morning-briefing"
All == Conversations \union {Briefing}
Ids == 0..MaxIds

Init ==
  /\ open = Briefing
  /\ fetches = [c \in Conversations |-> "none"]
  /\ feed = "empty"
  /\ loading = FALSE
  /\ requestId = 0
  /\ posted = {}
  /\ submitting = FALSE
  /\ delay = FALSE
  /\ working = FALSE

-----------------------------------------------------------------------------
(* Conversations. The briefing's feed is the store's and is not fetched;   *)
(* isLoading is left as it is.                                             *)

Open(c) ==
  /\ c # open
  /\ open' = c
  /\ c # Briefing => fetches[c] = "none"  \* bound: one fetch of a conversation
  /\ fetches' = [x \in Conversations |->
       IF x = c THEN "alive" ELSE IF fetches[x] = "alive" THEN "dead" ELSE fetches[x]]
  /\ loading' = (loading \/ c # Briefing)
  /\ UNCHANGED <<feed, command>>

FetchAnswers(c) ==
  /\ fetches[c] # "none"
  /\ fetches' = [fetches EXCEPT ![c] = "none"]
  /\ IF fetches[c] = "alive" THEN feed' = c /\ loading' = FALSE ELSE UNCHANGED <<feed, loading>>
  /\ UNCHANGED <<open, command>>

\* The error replaces the feed of whatever conversation is open.
FetchFails(c) ==
  /\ fetches[c] # "none"
  /\ fetches' = [fetches EXCEPT ![c] = "none"]
  /\ feed' = "error"
  /\ loading' = (loading /\ fetches[c] # "alive")
  /\ UNCHANGED <<open, command>>

-----------------------------------------------------------------------------
(* Commands                                                                *)

StopWorking == delay' = FALSE /\ working' = FALSE

\* handleSend
HandleSend ==
  /\ ~submitting
  /\ requestId < MaxIds
  /\ requestId' = requestId + 1
  /\ posted' = posted \union {requestId + 1}
  /\ submitting' = TRUE
  /\ delay' = TRUE
  /\ UNCHANGED <<working, conversation>>

DelayFires ==
  /\ delay
  /\ delay' = FALSE
  /\ working' = TRUE
  /\ UNCHANGED <<requestId, posted, submitting, conversation>>

\* Whether an answer still matters.
IsCurrentAnyway(id) == TRUE
IsCurrent(id) == id = requestId

\* An answer or an error.
SendAnswers(id) ==
  /\ id \in posted
  /\ posted' = posted \ {id}
  /\ IF IsCurrent(id)
     THEN submitting' = FALSE /\ StopWorking
     ELSE UNCHANGED <<submitting, delay, working>>
  /\ UNCHANGED <<requestId, conversation>>

CancelWorking ==
  /\ working
  /\ requestId < MaxIds
  /\ requestId' = requestId + 1
  /\ submitting' = FALSE
  /\ StopWorking
  /\ UNCHANGED <<posted, conversation>>

\* The page shows another view: the component goes, and a new one comes later; answers
\* that are still due belong to nobody.
Remount ==
  /\ requestId' = 0
  /\ posted' = {}
  /\ submitting' = FALSE
  /\ StopWorking
  /\ fetches' = [c \in Conversations |-> IF c = open THEN "alive" ELSE "none"]
  /\ feed' = "empty"
  /\ loading' = (open # Briefing)
  /\ UNCHANGED open

-----------------------------------------------------------------------------
Next ==
  \/ \E c \in All : Open(c)
  \/ \E c \in Conversations : FetchAnswers(c) \/ FetchFails(c)
  \/ HandleSend \/ DelayFires \/ CancelWorking \/ Remount
  \/ \E id \in Ids : SendAnswers(id)

Spec == Init /\ [][Next]_vars

-----------------------------------------------------------------------------
TypeOK ==
  /\ open \in All
  /\ fetches \in [Conversations -> {"none", "alive", "dead"}]
  /\ feed \in Conversations \union {"empty", "error"}
  /\ loading \in BOOLEAN
  /\ requestId \in Ids
  /\ posted \subseteq Ids
  /\ submitting \in BOOLEAN
  /\ delay \in BOOLEAN
  /\ working \in BOOLEAN

\* The composer is locked exactly while the answer to the last command is awaited,
\* and the overlay is open or about to open only then: a late answer to a cancelled
\* command neither unlocks the composer for the next one nor closes its overlay.
OverlayFollowsRequest ==
  /\ submitting <=> requestId \in posted
  /\ delay \/ working => submitting
=============================================================================
