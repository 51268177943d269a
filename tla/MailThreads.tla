---------------------------- MODULE MailThreads ----------------------------
(***************************************************************************)
(* The conversations of a mailbox as the mail adapters tell of them        *)
(* (listThreads, searchThreads and getThread of gmail.adapter.ts and       *)
(* graph-mail.adapter.ts), while mail comes, is read and is deleted. A     *)
(* message is the number of its arrival, which stands for its date. Gmail  *)
(* names the threads of a listing and is then asked for each of them;      *)
(* Graph answers with messages, which the adapter groups.                  *)
(***************************************************************************)
EXTENDS Integers, Sequences, FiniteSets, SequencesExt

CONSTANTS
  Threads,
  GraphPage, \* messages in an answer of Graph that is not told how many
  Most,      \* maxResults of a listing
  MaxMails   \* bound: messages that arrive

VARIABLES
  provider, \* account.provider
  mails,    \* what has arrived
  listing,  \* the listing of Gmail that is under way
  asked,    \* what the last answer is about: a listing or one thread
  items     \* the last answer, until the next request begins

vars == <<provider, mails, listing, asked, items>>
answer == <<asked, items>>

Arrived == DOMAIN mails
There == {m \in Arrived : mails[m].there}
Of(t) == {m \in There : mails[m].thread = t}
Newest(t) == CHOOSE m \in Of(t) : \A n \in Of(t) : n <= m

Older(m, ms) == {n \in ms : n < m}
Newer(m, ms) == {n \in ms : n > m}
\* In the order of their dates, and the newest first.
Ascending(ms) ==
  [n \in 1..Cardinality(ms) |-> CHOOSE m \in ms : Cardinality(Older(m, ms)) = n - 1]
Descending(ms) ==
  [n \in 1..Cardinality(ms) |-> CHOOSE m \in ms : Cardinality(Newer(m, ms)) = n - 1]
FirstOf(seq, limit) == SubSeq(seq, 1, IF Len(seq) < limit THEN Len(seq) ELSE limit)

NoListing == [todo |-> <<>>, done |-> <<>>, known |-> {}, open |-> FALSE]

Init ==
  /\ provider \in {"GOOGLE", "MICROSOFT"}
  /\ mails = <<>>
  /\ listing = NoListing
  /\ asked = "listing" /\ items = <<>>

-----------------------------------------------------------------------------
(* normalizeThread: of the messages as they stand in the answer, the first  *)
(* is the oldest and the last the newest. Without messages both are now.    *)

\* A bug: the newest message is taken to stand first.
ToldBackwards(t, ms, known) ==
  [thread |-> t, messages |-> ToSet(ms), known |-> known,
   unread |-> Cardinality({m \in ToSet(ms) : mails[m].unread}),
   first |-> ms[Len(ms)], last |-> ms[1]]

Told(t, ms, known) ==
  [thread |-> t, messages |-> ToSet(ms), known |-> known,
   unread |-> Cardinality({m \in ToSet(ms) : mails[m].unread}),
   first |-> ms[1], last |-> ms[Len(ms)]]

ToldEmpty(t) ==
  [thread |-> t, messages |-> {}, known |-> {}, unread |-> 0,
   first |-> Len(mails), last |-> Len(mails)]

GraphTold(t, ms, known) == IF ms = <<>> THEN ToldEmpty(t) ELSE Told(t, ms, known)

-----------------------------------------------------------------------------
(* The mailbox                                                             *)

Arrives(t) ==
  /\ Len(mails) < MaxMails
  /\ mails' = Append(mails, [thread |-> t, unread |-> TRUE, there |-> TRUE])
  /\ UNCHANGED <<provider, listing, answer>>

OwnerReads(m) ==
  /\ mails[m].unread
  /\ mails' = [mails EXCEPT ![m].unread = FALSE]
  /\ UNCHANGED <<provider, listing, answer>>

OwnerDeletes(m) ==
  /\ mails[m].there
  /\ mails' = [mails EXCEPT ![m].there = FALSE]
  /\ UNCHANGED <<provider, listing, answer>>

-----------------------------------------------------------------------------
(* Listing and searching                                                   *)

Matching(onlyUnread) ==
  {t \in Threads : \E m \in Of(t) : onlyUnread => mails[m].unread}

\* GET /email/threads, and a search for what is not read: Gmail's query says so.
GmailLists(onlyUnread) ==
  /\ provider = "GOOGLE"
  /\ ~listing.open
  /\ LET newest == {Newest(t) : t \in Matching(onlyUnread)} IN
     listing' = [todo |-> FirstOf([n \in 1..Cardinality(newest) |->
                                     mails[Descending(newest)[n]].thread], Most),
                 done |-> <<>>, known |-> There, open |-> TRUE]
  /\ items' = <<>>
  /\ UNCHANGED <<provider, mails, asked>>

\* threads.get of the next one.
GmailReadsNext ==
  /\ listing.open /\ listing.todo # <<>>
  /\ LET t == Head(listing.todo) IN
     listing' =
       IF Of(t) = {} THEN NoListing  \* not found: the whole listing fails
       ELSE [listing EXCEPT !.todo = Tail(@),
                            !.done = Append(@, Told(t, Ascending(Of(t)), listing.known))]
  /\ UNCHANGED <<provider, mails, answer>>

GmailAnswers ==
  /\ listing.open /\ listing.todo = <<>>
  /\ asked' = "listing" /\ items' = listing.done
  /\ listing' = NoListing
  /\ UNCHANGED <<provider, mails>>

\* The newest messages of all conversations, in groups: each group has its newest first,
\* and older messages of a conversation may be beyond the page.
Grouped(page) ==
  LET threads == {mails[m].thread : m \in ToSet(page)}
      group(t) == Descending({m \in ToSet(page) : mails[m].thread = t})
      leaders == {group(t)[1] : t \in threads} IN
  [n \in 1..Cardinality(leaders) |->
     LET t == mails[Descending(leaders)[n]].thread IN
     GraphTold(t, group(t), There)]

\* searchThreads puts a filter together and does not pass it: a search is a listing.
GraphMatching(onlyUnread) == There

GraphLists(onlyUnread) ==
  /\ provider = "MICROSOFT"
  /\ asked' = "listing"
  /\ items' = Grouped(FirstOf(Descending(GraphMatching(onlyUnread)), Most))
  /\ UNCHANGED <<provider, mails, listing>>

-----------------------------------------------------------------------------
(* GET /email/threads/:threadId                                            *)

\* An unknown thread is refused.
GmailOpens(t) ==
  /\ provider = "GOOGLE"
  /\ Of(t) # {}
  /\ asked' = "thread" /\ items' = <<Told(t, Ascending(Of(t)), Of(t))>>
  /\ UNCHANGED <<provider, mails, listing>>

\* The oldest messages first, and one page of them.
GraphOpens(t) ==
  /\ provider = "MICROSOFT"
  /\ asked' = "thread" /\ items' = <<GraphTold(t, FirstOf(Ascending(Of(t)), GraphPage), Of(t))>>
  /\ UNCHANGED <<provider, mails, listing>>

-----------------------------------------------------------------------------
Next ==
  \/ \E t \in Threads : Arrives(t) \/ GmailOpens(t) \/ GraphOpens(t)
  \/ \E m \in Arrived : OwnerReads(m) \/ OwnerDeletes(m)
  \/ \E onlyUnread \in BOOLEAN : GmailLists(onlyUnread) \/ GraphLists(onlyUnread)
  \/ GmailReadsNext \/ GmailAnswers

Spec == Init /\ [][Next]_vars

-----------------------------------------------------------------------------
Conversations ==
  [thread : Threads, messages : SUBSET Arrived, known : SUBSET Arrived,
   unread : 0..MaxMails, first : 0..MaxMails, last : 0..MaxMails]

TypeOK ==
  /\ provider \in {"GOOGLE", "MICROSOFT"}
  /\ mails \in Seq([thread : Threads, unread : BOOLEAN, there : BOOLEAN])
  /\ asked \in {"listing", "thread"}
  /\ ToSet(items) \union ToSet(listing.done) \subseteq Conversations
  /\ ToSet(listing.todo) \subseteq Threads /\ listing.known \subseteq Arrived

Oldest(s) == \A m \in s.messages : s.first <= m
Latest(s) == \A m \in s.messages : m <= s.last
\* What was there when the request began and is there still.
Complete(s) == \A m \in s.known \intersect Of(s.thread) : m \in s.messages

\* What is left out is older than all that is told.
Recent(s) == \A m \in (s.known \intersect Of(s.thread)) \ s.messages, n \in s.messages : m < n

\* What is told of a conversation is true of the whole of it, though mail comes and goes
\* while a listing reads its threads one by one: no message that was there throughout is
\* left out, and the dates are those of its first and its last message. Graph's adapter
\* keeps less: a conversation that is opened is told as far as a page of its oldest
\* messages goes, and one in a listing by its newest ones, without a gap. Nothing is said of
\* the two dates in a listing of Graph's, which the adapter takes from the wrong ends.
ThreadsAreTold ==
  \A s \in ToSet(items) :
    CASE provider = "GOOGLE" -> Oldest(s) /\ Latest(s) /\ Complete(s)
      [] provider = "MICROSOFT" /\ asked = "thread" ->
           /\ Oldest(s) /\ Latest(s)
           /\ Complete(s) \/ Cardinality(s.messages) = GraphPage
      [] OTHER -> Recent(s)
=============================================================================
