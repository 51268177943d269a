--------------------------- MODULE WebPagesProofs ---------------------------
(* Proofs about the pages of the workspace, for any threads, queues, cards *)
(* and weeks, and without a bound on calls, loads, answers or turns.       *)
EXTENDS WebPages, Sequences, FiniteSetTheorems, TLAPS

\* A step of the workspace is a step of the part that the behaviour is about, and leaves
\* the other parts alone.
LEMMA StepOfOnePart ==
  ASSUME [Next]_vars
  PROVE  /\ [Page!Next]_page
         /\ [Api!Next]_api
         /\ [Feed!Next]_feed
         /\ [Reader!Next]_reader
         /\ [Calendar!Next]_calendar
<1>1. CASE UNCHANGED vars
  <2>1. UNCHANGED <<page, api, feed, reader, calendar>>
    BY <1>1 DEF vars
  <2>. QED BY <2>1
<1>2. CASE Next
  BY <1>2, Zenon DEF Next, Of, Unless
<1>. QED BY <1>1, <1>2

-----------------------------------------------------------------------------
(* The week of the calendar.                                               *)

\* Only the request of the week on the screen is not cancelled, and what is shown without
\* an error is its answer.
CalendarInv ==
  /\ events \subseteq Candidates /\ now \in Int /\ week \in Int
  /\ weekRequests \in [Calendar!Slots -> [lookahead : Int, cancelled : BOOLEAN]]
  /\ \A s \in Calendar!Slots :
       weekRequests[s] # Calendar!NoRequest =>
         weekRequests[s].cancelled \/ weekRequests[s].lookahead = Calendar!Lookahead(week)
  /\ ~weekLoading /\ ~weekError =>
       /\ Calendar!Accepts(Calendar!Lookahead(week))
       /\ weekEvents = Calendar!Upcoming(Calendar!Lookahead(week))

LEMMA LookaheadType ==
  ASSUME NEW w \in Int, now \in Int
  PROVE  Calendar!Lookahead(w) \in Int
BY DEF Calendar!Lookahead, Calendar!Smaller, Calendar!Larger

LEMMA CalendarInvInit == Calendar!Init => CalendarInv
<1>. SUFFICES ASSUME Calendar!Init PROVE CalendarInv
  OBVIOUS
<1>1. events \subseteq Candidates /\ now \in Int /\ week \in Int
  BY TimesAssumption DEF Calendar!Init, Calendar!Week
<1>2. Calendar!Lookahead(week) \in Int
  BY <1>1, LookaheadType
<1>3. /\ Calendar!Asks(week) \in [lookahead : Int, cancelled : BOOLEAN]
      /\ Calendar!NoRequest \in [lookahead : Int, cancelled : BOOLEAN]
      /\ Calendar!Asks(week).lookahead = Calendar!Lookahead(week)
  BY <1>2 DEF Calendar!Asks, Calendar!NoRequest
<1>4. \A s \in Calendar!Slots : weekRequests[s] \in {Calendar!Asks(week), Calendar!NoRequest}
  BY DEF Calendar!Init
<1>5. weekRequests \in [Calendar!Slots -> [lookahead : Int, cancelled : BOOLEAN]]
  BY <1>3 DEF Calendar!Init
<1>. QED BY <1>1, <1>3, <1>4, <1>5 DEF CalendarInv, Calendar!Init

LEMMA ShowKeepsCalendar ==
  ASSUME CalendarInv, NEW w \in Weeks, Calendar!Show(w)
  PROVE  CalendarInv'
<1>1. events' = events /\ now' = now /\ week' = w /\ w \in Int /\ weekEvents' = weekEvents
  BY TimesAssumption DEF Calendar!Show
<1>2. CASE w = week
  <2>1. week' = week /\ UNCHANGED <<weekLoading, weekError, weekRequests>>
    BY <1>1, <1>2 DEF Calendar!Show
  <2>. QED BY <1>1, <2>1 DEF CalendarInv, Calendar!Lookahead, Calendar!Upcoming
<1>3. CASE w # week
  <2>. DEFINE Request == [lookahead : Int, cancelled : BOOLEAN]
              asked == Calendar!Asks(w)
              left == Calendar!Cancel(weekRequests)
  <2>1. PICK s \in Calendar!Slots : weekRequests' = [left EXCEPT ![s] = asked]
    BY <1>3 DEF Calendar!Show
  <2>2. weekLoading' = TRUE
    BY <1>3 DEF Calendar!Show
  <2>3. asked \in Request /\ asked.lookahead = Calendar!Lookahead(w)
    BY <1>1, LookaheadType DEF Calendar!Asks, CalendarInv
  <2>4. /\ left \in [Calendar!Slots -> Request]
        /\ \A r \in Calendar!Slots : left[r] # Calendar!NoRequest => left[r].cancelled
    <3>1. weekRequests \in [Calendar!Slots -> Request]
      BY DEF CalendarInv
    <3>2. left = [r \in Calendar!Slots |->
                    IF weekRequests[r] = Calendar!NoRequest THEN Calendar!NoRequest
                    ELSE [weekRequests[r] EXCEPT !.cancelled = TRUE]]
      BY DEF Calendar!Cancel
    <3>3. \A r \in Calendar!Slots :
            weekRequests[r] \in Request /\ left[r] = IF weekRequests[r] = Calendar!NoRequest THEN Calendar!NoRequest
                    ELSE [weekRequests[r] EXCEPT !.cancelled = TRUE]
      BY <3>1, <3>2
    <3>4. Calendar!NoRequest \in Request
      BY DEF Calendar!NoRequest
    <3>5. \A q \in Request : /\ [q EXCEPT !.cancelled = TRUE] \in Request
                             /\ [q EXCEPT !.cancelled = TRUE].cancelled
      OBVIOUS
    <3>6. left \in [Calendar!Slots -> Request]
      BY <3>2, <3>3, <3>4, <3>5
    <3>. QED BY <3>3, <3>5, <3>6
  <2>. HIDE DEF asked, left
  <2>5. weekRequests' \in [Calendar!Slots -> Request]
    BY <2>1, <2>3, <2>4
  <2>6. \A r \in Calendar!Slots :
          weekRequests'[r] # Calendar!NoRequest =>
            weekRequests'[r].cancelled \/ weekRequests'[r].lookahead = Calendar!Lookahead(w)
    BY <2>1, <2>3, <2>4
  <2>7. Calendar!Lookahead(week)' = Calendar!Lookahead(w)
    BY <1>1 DEF Calendar!Lookahead
  <2>. QED BY <1>1, <2>2, <2>5, <2>6, <2>7 DEF CalendarInv, Calendar!NoRequest
<1>. QED BY <1>2, <1>3

LEMMA AnswerKeepsCalendar ==
  ASSUME CalendarInv, NEW s \in Calendar!Slots, Calendar!Serves(s) \/ Calendar!NetworkFails(s)
  PROVE  CalendarInv'
<1>1. /\ UNCHANGED <<events, now, week>>
      /\ weekRequests[s] # Calendar!NoRequest
      /\ weekRequests' = [weekRequests EXCEPT ![s] = Calendar!NoRequest]
  BY DEF Calendar!Serves, Calendar!NetworkFails, Calendar!Answer
<1>2. Calendar!NoRequest \in [lookahead : Int, cancelled : BOOLEAN]
  BY DEF Calendar!NoRequest
<1>3. weekRequests' \in [Calendar!Slots -> [lookahead : Int, cancelled : BOOLEAN]]
  BY <1>1, <1>2 DEF CalendarInv
<1>4. \A r \in Calendar!Slots :
        weekRequests'[r] # Calendar!NoRequest =>
          weekRequests'[r].cancelled \/ weekRequests'[r].lookahead = Calendar!Lookahead(week)
  BY <1>1 DEF CalendarInv
<1>5. /\ ~weekLoading' /\ ~weekError' =>
           /\ Calendar!Accepts(Calendar!Lookahead(week))
           /\ weekEvents' = Calendar!Upcoming(Calendar!Lookahead(week))
  <2>1. CASE weekRequests[s].cancelled
    <3>1. UNCHANGED <<weekEvents, weekLoading, weekError>>
      BY <2>1 DEF Calendar!Serves, Calendar!NetworkFails, Calendar!Answer
    <3>. QED BY <3>1 DEF CalendarInv
  <2>2. CASE ~weekRequests[s].cancelled
    <3>1. weekRequests[s].lookahead = Calendar!Lookahead(week)
      BY <1>1, <2>2 DEF CalendarInv
    <3>2. CASE Calendar!NetworkFails(s)
      BY <2>2, <3>2 DEF Calendar!NetworkFails, Calendar!Answer
    <3>3. CASE Calendar!Serves(s)
      BY <2>2, <3>1, <3>3 DEF Calendar!Serves, Calendar!Answer
    <3>. QED BY <3>2, <3>3
  <2>. QED BY <2>1, <2>2
<1>6. /\ Calendar!Lookahead(week)' = Calendar!Lookahead(week)
      /\ Calendar!Upcoming(Calendar!Lookahead(week))' = Calendar!Upcoming(Calendar!Lookahead(week))
  BY <1>1 DEF Calendar!Lookahead, Calendar!Upcoming
<1>7. events' \subseteq Candidates /\ now' \in Int /\ week' \in Int
  BY <1>1 DEF CalendarInv
<1>. QED BY <1>3, <1>4, <1>5, <1>6, <1>7 DEF CalendarInv, Calendar!NoRequest, Calendar!Accepts

LEMMA CalendarInvStep ==
  ASSUME CalendarInv, [Calendar!Next]_calendar
  PROVE  CalendarInv'
<1>1. CASE UNCHANGED calendar
  BY <1>1 DEF calendar, CalendarInv, Calendar!Lookahead, Calendar!Upcoming
<1>2. CASE Calendar!Next
  BY <1>2, ShowKeepsCalendar, AnswerKeepsCalendar DEF Calendar!Next
<1>. QED BY <1>1, <1>2

\* The instance counts with a copy of Cardinality.
LEMMA SameCount == \A S : Calendar!Cardinality(S) = Cardinality(S)
  BY Zenon DEF Calendar!Cardinality, Cardinality

\* Of no more events than an answer holds, each has fewer before it than that.
LEMMA NothingIsCut ==
  ASSUME CalendarInv, Cardinality(Calendar!Ahead) <= Calendar!Limit, NEW h \in Int
  PROVE  Calendar!Upcoming(h) = {e \in events : e.start \in now..(now + h)}
<1>. DEFINE found == {e \in events : e.start \in now..(now + h)}
            Before(e) == {o \in found : o.start < e.start}
<1>1. IsFiniteSet(Calendar!Ahead) /\ found \subseteq Calendar!Ahead
  <2>1. events \subseteq Candidates /\ now \in Int
    BY DEF CalendarInv
  <2>2. \A e \in events : e.start \in Int
    BY <2>1, TimesAssumption
  <2>3. found \subseteq Calendar!Ahead
    BY <2>1, <2>2 DEF Calendar!Ahead
  <2>4. Calendar!Ahead \subseteq Candidates
    BY <2>1 DEF Calendar!Ahead
  <2>. QED BY <2>3, <2>4, TimesAssumption, FS_Subset
<1>2. ASSUME NEW e \in found PROVE Cardinality(Before(e)) < Calendar!Limit
  <2>1. e \in Calendar!Ahead /\ Before(e) \subseteq Calendar!Ahead \ {e}
    <3>1. e.start \in Int
      BY TimesAssumption DEF CalendarInv
    <3>. QED BY <1>1, <3>1
  <2>2. /\ IsFiniteSet(Calendar!Ahead \ {e})
        /\ Cardinality(Calendar!Ahead \ {e}) = Cardinality(Calendar!Ahead) - 1
    BY <1>1, <2>1, FS_RemoveElement
  <2>3. /\ Cardinality(Before(e)) <= Cardinality(Calendar!Ahead \ {e})
        /\ IsFiniteSet(Before(e))
    BY <2>1, <2>2, FS_Subset
  <2>4. Cardinality(Before(e)) \in Nat /\ Cardinality(Calendar!Ahead) \in Nat
    BY <1>1, <2>3, FS_CardinalityType
  <2>. DEFINE n == Cardinality(Before(e))
              k == Cardinality(Calendar!Ahead)
  <2>5. n \in Nat /\ k \in Nat /\ n <= k - 1 /\ k <= 50
    BY <2>2, <2>3, <2>4 DEF Calendar!Limit
  <2>. HIDE DEF n, k
  <2>6. n < 50
    BY <2>5
  <2>. QED BY <2>6 DEF n, Calendar!Limit
<1>3. Calendar!Upcoming(h) = {e \in found : Cardinality(Before(e)) < Calendar!Limit}
  BY SameCount DEF Calendar!Upcoming
<1>. HIDE DEF Before
<1>. QED BY <1>2, <1>3

\* What is due in the week starts before the time that is asked for ends.
LEMMA DueIsAskedFor ==
  ASSUME now \in Int, NEW w \in Int, Calendar!Accepts(Calendar!Lookahead(w)), NEW t \in Int,
         t >= now, Calendar!Week(t) = w, Calendar!Weekday(t) <= 4
  PROVE  t \in now..(now + Calendar!Lookahead(w))
<1>. DEFINE r == t % 168
<1>1. t = 168 * w + r /\ r \in 0..167
  BY DEF Calendar!Week
<1>2. r \div 24 <= 4
  BY DEF Calendar!Weekday
<1>. HIDE DEF r
<1>3. r < 120
  BY <1>1, <1>2
<1>. DEFINE h == Calendar!Lookahead(w)
<1>4. /\ h \in Int
      /\ \/ h = w * 168 + 120 - now
         \/ (h = 24 /\ w * 168 + 120 - now <= 24)
         \/ h = 168
  BY DEF Calendar!Lookahead, Calendar!Smaller, Calendar!Larger
<1>5. h <= 72
  BY DEF Calendar!Accepts
<1>. HIDE DEF h
<1>6. t <= now + h
  BY <1>1, <1>3, <1>4, <1>5
<1>. QED BY <1>4, <1>6 DEF h

LEMMA AnswerIsWhole ==
  ASSUME CalendarInv, ~weekLoading, ~weekError, Cardinality(Calendar!Ahead) <= Calendar!Limit
  PROVE  Calendar!MapEventsToWeek(weekEvents, week) = Calendar!Due(week)
<1>1. /\ now \in Int /\ week \in Int
      /\ Calendar!Accepts(Calendar!Lookahead(week))
      /\ weekEvents = Calendar!Upcoming(Calendar!Lookahead(week))
      /\ \A e \in events : e.start \in Int
  BY TimesAssumption DEF CalendarInv
<1>. DEFINE h == Calendar!Lookahead(week)
<1>2. h \in Int
  BY <1>1, LookaheadType
<1>3. weekEvents = {e \in events : e.start \in now..(now + h)}
  BY <1>1, <1>2, NothingIsCut
<1>4. \A e \in events : Calendar!Weekday(e.start) \in Int /\ Calendar!Weekday(e.start) >= 0
  <2>1. \A t \in Int : Calendar!Weekday(t) \in Int /\ Calendar!Weekday(t) >= 0
    <3>. SUFFICES ASSUME NEW t \in Int
                  PROVE  (t % 168) \div 24 \in Int /\ (t % 168) \div 24 >= 0
      BY DEF Calendar!Weekday
    <3>. DEFINE r == t % 168
    <3>1. r \in 0..167
      OBVIOUS
    <3>. HIDE DEF r
    <3>2. r \div 24 \in Int /\ r \div 24 >= 0
      BY <3>1
    <3>. QED BY <3>2 DEF r
  <2>. QED BY <1>1, <2>1
<1>5. \A e \in events : e.start >= now /\ Calendar!Week(e.start) = week
                        /\ Calendar!Weekday(e.start) <= 4 => e.start \in now..(now + h)
  BY <1>1, DueIsAskedFor
<1>. HIDE DEF h
<1>6. \A e \in events : e.start \in now..(now + h) => e.start >= now
  BY <1>1, <1>2
<1>7. \A e : e \in Calendar!MapEventsToWeek(weekEvents, week) <=> e \in Calendar!Due(week)
  <2>1. \A e : e \in weekEvents <=> e \in events /\ e.start \in now..(now + h)
    BY <1>3
  <2>2. \A e \in events : Calendar!Weekday(e.start) \in 0..4 <=> Calendar!Weekday(e.start) <= 4
    BY <1>4
  <2>. DEFINE L(e) == Calendar!Hour(e.end) > 8 /\ Calendar!Hour(e.start) < 18
  <2>3. \A e : e \in Calendar!MapEventsToWeek(weekEvents, week) <=>
               /\ e \in weekEvents /\ Calendar!Weekday(e.start) \in 0..4
               /\ Calendar!Week(e.start) = week /\ L(e)
    BY DEF Calendar!MapEventsToWeek
  <2>4. \A e : e \in Calendar!Due(week) <=>
               /\ e \in events /\ e.start >= now /\ Calendar!Week(e.start) = week
               /\ Calendar!Weekday(e.start) <= 4 /\ L(e)
    BY DEF Calendar!Due
  <2>. HIDE DEF L
  <2>. QED BY <1>5, <1>6, <2>1, <2>2, <2>3, <2>4
<1>8. /\ Calendar!MapEventsToWeek(weekEvents, week) \subseteq weekEvents
      /\ Calendar!Due(week) \subseteq events
  BY DEF Calendar!MapEventsToWeek, Calendar!Due
<1>. QED BY <1>7, <1>8

\* A week that the grid shows without an error holds every event that is due in it, unless
\* more than fifty lie ahead: whichever weeks were turned to meanwhile, no answer that
\* asked for less took the place of its own (GlobalCalendar.tsx).
THEOREM WeeksAreWhole == Spec => []WeekIsWhole
<1>1. Init => CalendarInv
  BY CalendarInvInit DEF Init
<1>2. CalendarInv /\ [Next]_vars => CalendarInv'
  BY CalendarInvStep, StepOfOnePart
<1>3. CalendarInv => WeekIsWhole
  BY AnswerIsWhole, SameCount DEF WeekIsWhole, Calendar!WeekIsWhole
<1>. QED BY <1>1, <1>2, <1>3, PTL DEF Spec

-----------------------------------------------------------------------------
(* The cards of the feed.                                                  *)

\* What is read of the server's cards at any time. Whatever says that a card is done, the
\* server, the feed, a load under way or an answer, says so of a card that has been done.
Readings == UNION {[kinds -> Feed!States] : kinds \in SUBSET Feed!Cards}
Earned(reading) == \A c \in DOMAIN reading : reading[c] = "done" => c \in earned \union marked

FeedInv ==
  /\ server \in [Feed!Cards -> Feed!States] /\ shown \in [Feed!Cards -> Feed!States]
  /\ load \in [Feed!Slots -> [on : BOOLEAN, read : Readings]]
  /\ request \in [Feed!Cards -> {"none", "asked", "acted", "refused"}]
  /\ Earned(server) /\ Earned(shown)
  /\ \A l \in Feed!Slots : Earned(load[l].read)
  /\ \A c \in Feed!Cards : request[c] = "acted" => c \in earned

LEMMA ReadingType ==
  ASSUME NEW f
  PROVE  f \in Readings <=> \E kinds \in SUBSET Feed!Cards : f \in [kinds -> Feed!States]
BY DEF Readings

LEMMA NoLoadIsReading == Feed!NoLoad \in Readings /\ DOMAIN Feed!NoLoad = {}
<1>1. Feed!NoLoad \in [{} -> Feed!States]
  BY DEF Feed!NoLoad
<1>. QED BY <1>1, ReadingType

LEMMA FeedInvInit == Feed!Init => FeedInv
<1>. SUFFICES ASSUME Feed!Init PROVE FeedInv
  OBVIOUS
<1>1. /\ server \in [Feed!Cards -> Feed!States] /\ shown \in [Feed!Cards -> Feed!States]
      /\ request \in [Feed!Cards -> {"none", "asked", "acted", "refused"}]
  BY DEF Feed!Init, Feed!States
<1>2. load = [l \in Feed!Slots |-> [on |-> l = 1, read |-> Feed!NoLoad]]
  BY DEF Feed!Init
<1>3. /\ load \in [Feed!Slots -> [on : BOOLEAN, read : Readings]]
      /\ \A l \in Feed!Slots : load[l].read = Feed!NoLoad
  BY <1>2, NoLoadIsReading
<1>4. \A l \in Feed!Slots : Earned(load[l].read)
  BY <1>3, NoLoadIsReading DEF Earned
<1>5. Earned(server) /\ Earned(shown) /\ \A c \in Feed!Cards : request[c] # "acted"
  BY DEF Feed!Init, Earned
<1>. QED BY <1>1, <1>3, <1>4, <1>5 DEF FeedInv

\* The loads: what they read is what the server held, and what they replace is what they read.
LEMMA BeginningKeepsFeed ==
  ASSUME FeedInv, Feed!FetchData \/ Feed!LoadsAfterSync
  PROVE  FeedInv'
<1>1. PICK l \in Feed!Slots : load' = [load EXCEPT ![l] = [on |-> TRUE, read |-> Feed!NoLoad]]
  BY DEF Feed!FetchData, Feed!LoadsAfterSync, Feed!Begins
<1>2. UNCHANGED <<server, earned, marked, shown, request>>
  BY DEF Feed!FetchData, Feed!LoadsAfterSync
<1>. DEFINE begun == [on |-> TRUE, read |-> Feed!NoLoad]
<1>3. begun \in [on : BOOLEAN, read : Readings] /\ begun.read = Feed!NoLoad
  BY NoLoadIsReading
<1>. HIDE DEF begun
<1>4. /\ load' \in [Feed!Slots -> [on : BOOLEAN, read : Readings]]
      /\ \A m \in Feed!Slots : load'[m] \in {load[m], begun}
  BY <1>1, <1>3 DEF FeedInv, begun
<1>5. \A m \in Feed!Slots : Earned(load[m].read)'
  BY <1>2, <1>3, <1>4, NoLoadIsReading DEF FeedInv, Earned
<1>. QED BY <1>2, <1>4, <1>5 DEF FeedInv, Earned

LEMMA ReadingKeepsFeed ==
  ASSUME FeedInv, NEW l \in Feed!Slots, NEW kind \in {Mails, Meetings},
         Feed!LoadReads(l, kind)
  PROVE  FeedInv'
<1>. DEFINE was == load[l].read
            now_ == [c \in DOMAIN was \union kind |-> IF c \in kind THEN server[c] ELSE was[c]]
<1>1. load' = [load EXCEPT ![l].read = now_]
  BY DEF Feed!LoadReads
<1>2. UNCHANGED <<server, earned, marked, shown, request>>
  BY DEF Feed!LoadReads
<1>3. PICK kinds \in SUBSET Feed!Cards : was \in [kinds -> Feed!States]
  BY ReadingType DEF FeedInv
<1>4. /\ kind \subseteq Feed!Cards
      /\ now_ \in [kinds \union kind -> Feed!States]
  <2>1. kind \subseteq Feed!Cards
    BY DEF Feed!Cards
  <2>. QED BY <1>3, <2>1 DEF FeedInv
<1>5. now_ \in Readings
  BY <1>4, ReadingType
<1>6. Earned(now_)
  BY <1>3, <1>4 DEF FeedInv, Earned
<1>. HIDE DEF now_
<1>7. /\ load' \in [Feed!Slots -> [on : BOOLEAN, read : Readings]]
      /\ \A m \in Feed!Slots : load'[m].read \in {load[m].read, now_}
  BY <1>1, <1>5 DEF FeedInv
<1>8. \A m \in Feed!Slots : Earned(load[m].read)'
  BY <1>2, <1>6, <1>7 DEF FeedInv, Earned
<1>. QED BY <1>2, <1>7, <1>8 DEF FeedInv, Earned

LEMMA EndingKeepsFeed ==
  ASSUME FeedInv, NEW l \in Feed!Slots, Feed!LoadEnds(l)
  PROVE  FeedInv'
<1>. DEFINE ended == [on |-> FALSE, read |-> Feed!NoLoad]
<1>1. /\ load' = [load EXCEPT ![l] = ended]
      /\ UNCHANGED <<server, earned, marked, request>>
  BY DEF Feed!LoadEnds
<1>2. ended \in [on : BOOLEAN, read : Readings] /\ ended.read = Feed!NoLoad
  BY NoLoadIsReading
<1>3. shown' \in [Feed!Cards -> Feed!States] /\ Earned(shown')
  <2>1. CASE shown' = shown
    BY <2>1 DEF FeedInv
  <2>2. CASE shown' = load[l].read /\ DOMAIN load[l].read = Feed!Cards
    <3>1. PICK kinds \in SUBSET Feed!Cards : load[l].read \in [kinds -> Feed!States]
      BY ReadingType DEF FeedInv
    <3>. QED BY <2>2, <3>1 DEF FeedInv
  <2>. QED BY <2>1, <2>2 DEF Feed!LoadEnds
<1>. HIDE DEF ended
<1>4. /\ load' \in [Feed!Slots -> [on : BOOLEAN, read : Readings]]
      /\ \A m \in Feed!Slots : load'[m] \in {load[m], ended}
  BY <1>1, <1>2 DEF FeedInv
<1>5. \A m \in Feed!Slots : Earned(load[m].read)'
  BY <1>1, <1>2, <1>4, NoLoadIsReading DEF FeedInv, Earned
<1>. QED BY <1>1, <1>3, <1>4, <1>5 DEF FeedInv, Earned

\* The buttons: an answer marks a card of which the server did what was asked for, and the
\* route that sends nothing tells of an error.
LEMMA ButtonsKeepFeed ==
  ASSUME FeedInv, NEW c \in Feed!Cards,
         \/ Feed!Press(c) \/ Feed!MarksSent(c) \/ Feed!Briefs(c) \/ Feed!Answered(c)
  PROVE  FeedInv'
<1>1. CASE Feed!Press(c)
  <2>1. /\ UNCHANGED <<server, earned, marked, shown, load>>
        /\ request' = [request EXCEPT ![c] = "asked"]
    BY <1>1 DEF Feed!Press
  <2>. QED BY <2>1 DEF FeedInv, Earned
<1>2. CASE Feed!Briefs(c)
  <2>1. /\ UNCHANGED <<marked, shown, load>>
        /\ server' = [server EXCEPT ![c] = "done"]
        /\ earned' = earned \union {c}
        /\ request' = [request EXCEPT ![c] = "acted"]
    BY <1>2 DEF Feed!Briefs
  <2>. QED BY <2>1 DEF FeedInv, Earned, Feed!States
<1>3. CASE Feed!Answered(c)
  <2>1. /\ UNCHANGED <<server, earned, marked, load>>
        /\ request' = [request EXCEPT ![c] = "none"]
    BY <1>3 DEF Feed!Answered
  <2>2. \/ shown' = shown
        \/ request[c] = "acted" /\ shown' = [shown EXCEPT ![c] = "done"]
    BY <1>3 DEF Feed!Answered, Feed!Mark
  <2>. QED BY <2>1, <2>2 DEF FeedInv, Earned, Feed!States
<1>4. CASE Feed!MarksSent(c)
  <2>1. /\ UNCHANGED <<earned, shown, load>>
        /\ server' = [server EXCEPT ![c] = "done"]
        /\ marked' = marked \union {c}
        /\ request' = [request EXCEPT ![c] = "refused"]
    BY <1>4 DEF Feed!MarksSent
  <2>. QED BY <2>1 DEF FeedInv, Earned, Feed!States
<1>. QED BY <1>1, <1>2, <1>3, <1>4

LEMMA ChangesKeepFeed ==
  ASSUME FeedInv, NEW c \in Feed!Cards, Feed!Changes(c)
  PROVE  FeedInv'
<1>1. PICK s \in Feed!States : /\ server' = [server EXCEPT ![c] = s]
                               /\ earned' = IF s = "done" THEN earned \union {c} ELSE earned
  BY DEF Feed!Changes
<1>2. UNCHANGED <<marked, shown, load, request>>
  BY DEF Feed!Changes
<1>. QED BY <1>1, <1>2 DEF FeedInv, Earned

LEMMA FeedInvStep ==
  ASSUME FeedInv, [Feed!Next]_feed
  PROVE  FeedInv'
<1>1. CASE Feed!FetchData \/ Feed!LoadsAfterSync
  BY <1>1, BeginningKeepsFeed
<1>2. ASSUME NEW l \in Feed!Slots, Feed!LoadEnds(l) PROVE FeedInv'
  BY <1>2, EndingKeepsFeed
<1>3. ASSUME NEW l \in Feed!Slots, NEW kind \in {Mails, Meetings}, Feed!LoadReads(l, kind)
      PROVE  FeedInv'
  BY <1>3, ReadingKeepsFeed
<1>4. ASSUME NEW c \in Feed!Cards,
             \/ Feed!Press(c) \/ Feed!MarksSent(c) \/ Feed!Briefs(c) \/ Feed!Answered(c)
      PROVE  FeedInv'
  BY <1>4, ButtonsKeepFeed
<1>5. ASSUME NEW c \in Feed!Cards, Feed!Changes(c) PROVE FeedInv'
  BY <1>5, ChangesKeepFeed
<1>6. CASE UNCHANGED <<server, earned, marked, shown, load, request>>
  BY <1>6 DEF FeedInv, Earned
<1>7. CASE \/ UNCHANGED feed \/ Feed!HandleSync \/ Feed!SyncEnds
           \/ \E m \in Mails : Feed!Discard(m) \/ Feed!DiscardFails(m)
  BY <1>6, <1>7 DEF feed, Feed!HandleSync, Feed!SyncEnds, Feed!Discard, Feed!DiscardFails
<1>. QED BY <1>1, <1>2, <1>3, <1>4, <1>5, <1>7 DEF Feed!Next, Feed!Cards

\* A card that shows a briefing was briefed, and one that says "Reply Sent" was answered, or
\* marked by the route that sends nothing: whichever loads, actions and changes of others
\* crossed on the way (InboxOverview.tsx), no error and no lost answer makes a card say so.
THEOREM CardsAreTrue == Spec => []ShownDoneIsDone
<1>1. Init => FeedInv
  BY FeedInvInit DEF Init
<1>2. FeedInv /\ [Next]_vars => FeedInv'
  BY FeedInvStep, StepOfOnePart
<1>3. FeedInv => ShownDoneIsDone
  BY DEF FeedInv, Earned, ShownDoneIsDone, Feed!ShownDoneIsDone
<1>. QED BY <1>1, <1>2, <1>3, PTL DEF Spec

-----------------------------------------------------------------------------
(* The calls of the API.                                                   *)

CallTypes ==
  [pc : {"token", "sent", "delay"}, endpoint : Api!Endpoints, retries : 0..1, done : BOOLEAN,
   aborted : BOOLEAN]

Once == IF call.pc = "sent" /\ call.done THEN 1 ELSE 0

\* Only the first attempt of a call is repeated, and only if it is not a booking. What it
\* had done counts once, and then its answer was lost.
CallIsEarned ==
  /\ call \in CallTypes
  /\ call.retries = 0 => call.pc # "delay" /\ acted = Once
  /\ call.retries = 1 =>
       /\ call.pc # "token" /\ call.endpoint \notin Api!Public
       /\ \/ acted = Once
          \/ acted = 1 + Once /\ "lost" \in failures

Total == acted <= 1 \/ (acted = 2 /\ "lost" \in failures)

ApiInv ==
  /\ acted \in Nat
  /\ Total
  /\ call # Api!Idle => CallIsEarned

LEMMA IdleIsNoCall ==
  /\ Api!Idle.pc = "idle"
  /\ Api!Idle \notin CallTypes
<1>1. Api!Idle.pc = "idle"
  BY DEF Api!Idle
<1>2. \A c \in CallTypes : c.pc \in {"token", "sent", "delay"}
  BY DEF CallTypes
<1>. QED BY <1>1, <1>2

LEMMA ApiInvInit == Api!Init => ApiInv
  BY DEF Api!Init, ApiInv, Total

LEMMA AskingKeepsApi ==
  ASSUME ApiInv, Api!Ask
  PROVE  ApiInv'
<1>1. PICK e \in Api!Endpoints :
        call' = [pc |-> IF e \in Api!Public THEN "sent" ELSE "token", endpoint |-> e,
                 retries |-> 0, done |-> FALSE, aborted |-> FALSE]
  BY DEF Api!Ask
<1>2. acted' = 0
  BY DEF Api!Ask
<1>3. call' \in CallTypes /\ call'.retries = 0 /\ call'.done = FALSE /\ call'.pc # "delay"
  BY <1>1 DEF CallTypes
<1>4. CallIsEarned'
  BY <1>2, <1>3 DEF CallIsEarned, Once
<1>. QED BY <1>2, <1>4 DEF ApiInv, Total

\* What is sent has not been done yet, and what is not sent is over.
LEMMA SendingKeepsApi ==
  ASSUME ApiInv, Api!WithAuth \/ Api!Retry
  PROVE  ApiInv'
<1>1. call.pc \in {"token", "delay"} /\ UNCHANGED <<acted, failures>>
  BY DEF Api!WithAuth, Api!Retry
<1>2. call # Api!Idle /\ CallIsEarned /\ call \in CallTypes
  BY <1>1, IdleIsNoCall DEF ApiInv, CallIsEarned
<1>. DEFINE sent == [call EXCEPT !.pc = "sent", !.done = FALSE]
<1>3. call' = Api!Idle \/ call' = sent
  BY DEF Api!WithAuth, Api!Retry, Api!Sends
<1>4. /\ sent \in CallTypes /\ sent.pc = "sent" /\ sent.done = FALSE
      /\ sent.retries = call.retries /\ sent.endpoint = call.endpoint
  BY <1>2 DEF CallTypes
<1>. HIDE DEF sent
<1>5. CASE call' = sent
  <2>1. Once' = 0 /\ Once = 0
    BY <1>1, <1>4, <1>5 DEF Once
  <2>2. CallIsEarned'
    BY <1>1, <1>2, <1>4, <1>5, <2>1 DEF CallIsEarned
  <2>. QED BY <1>1, <2>2 DEF ApiInv, Total
<1>6. CASE call' = Api!Idle
  BY <1>1, <1>6 DEF ApiInv, Total
<1>. QED BY <1>3, <1>5, <1>6

LEMMA AbortKeepsApi ==
  ASSUME ApiInv, Api!Abort
  PROVE  ApiInv'
<1>1. call # Api!Idle /\ CallIsEarned /\ call \in CallTypes /\ UNCHANGED <<acted, failures>>
  BY DEF Api!Abort, ApiInv, CallIsEarned
<1>. DEFINE left == [call EXCEPT !.aborted = TRUE]
<1>2. call' = Api!Idle \/ call' = left
  BY DEF Api!Abort
<1>3. /\ left \in CallTypes /\ left.pc = call.pc /\ left.done = call.done
      /\ left.retries = call.retries /\ left.endpoint = call.endpoint
  BY <1>1 DEF CallTypes
<1>. HIDE DEF left
<1>4. CASE call' = left
  <2>1. CallIsEarned'
    BY <1>1, <1>3, <1>4 DEF CallIsEarned, Once
  <2>. QED BY <1>1, <2>1 DEF ApiInv, Total
<1>5. CASE call' = Api!Idle
  BY <1>1, <1>5 DEF ApiInv, Total
<1>. QED BY <1>2, <1>4, <1>5

LEMMA ActingKeepsApi ==
  ASSUME ApiInv, Api!Acts
  PROVE  ApiInv'
<1>1. /\ call.pc = "sent" /\ ~call.done
      /\ call' = [call EXCEPT !.done = TRUE]
      /\ acted' = acted + 1 /\ failures' = failures
  BY DEF Api!Acts
<1>2. call # Api!Idle /\ CallIsEarned /\ call \in CallTypes
  BY <1>1, IdleIsNoCall DEF ApiInv, CallIsEarned
<1>3. /\ call' \in CallTypes /\ call'.pc = "sent" /\ call'.done
      /\ call'.retries = call.retries /\ call'.endpoint = call.endpoint
  BY <1>1, <1>2 DEF CallTypes
<1>4. Once' = 1 /\ Once = 0
  BY <1>1, <1>3 DEF Once
<1>5. CallIsEarned'
  BY <1>1, <1>2, <1>3, <1>4 DEF CallIsEarned
<1>6. acted = 0 \/ (acted = 1 /\ "lost" \in failures)
  <2>1. call.retries \in {0, 1}
    BY <1>2 DEF CallTypes
  <2>. QED BY <1>2, <1>4, <2>1 DEF CallIsEarned
<1>. QED BY <1>1, <1>5, <1>6 DEF ApiInv, Total

LEMMA EndingKeepsApi ==
  ASSUME ApiInv, Api!Ending
  PROVE  ApiInv'
<1>1. CASE Api!Answers \/ Api!HandleUnauthorized
  BY <1>1 DEF Api!Answers, Api!HandleUnauthorized, ApiInv, Total
<1>2. CASE Api!HandleResponseError
  <2>1. call.pc = "sent" /\ acted' = acted
    BY <1>2 DEF Api!HandleResponseError
  <2>2. PICK f \in {"busy", "lost"} : (call.done => f = "lost") /\ failures' = failures \union {f}
    BY <1>2 DEF Api!HandleResponseError
  <2>3. call # Api!Idle /\ CallIsEarned /\ call \in CallTypes
    BY <2>1, IdleIsNoCall DEF ApiInv, CallIsEarned
  <2>4. Total'
    BY <2>1, <2>2 DEF ApiInv, Total
  <2>5. CASE ~Api!Intercepts
    <3>1. call' = Api!Idle
      BY <1>2, <2>5 DEF Api!HandleResponseError
    <3>. QED BY <2>1, <2>4, <3>1 DEF ApiInv
  <2>6. CASE Api!Intercepts
    <3>1. call.retries = 0 /\ call.endpoint \notin Api!Public
      BY <2>6 DEF Api!Intercepts
    <3>2. call' = [call EXCEPT !.pc = "delay", !.retries = @ + 1]
      BY <1>2, <2>6, <3>1 DEF Api!HandleResponseError, Api!MaxRetries
    <3>3. /\ call' \in CallTypes /\ call'.pc = "delay" /\ call'.retries = 1
          /\ call'.endpoint = call.endpoint
      <4>1. call.retries + 1 = 1
        BY <3>1
      <4>2. call' = [call EXCEPT !.pc = "delay", !.retries = 1]
        BY <3>2, <4>1
      <4>3. 1 \in 0..1
        OBVIOUS
      <4>. QED BY <2>3, <4>2, <4>3 DEF CallTypes
    <3>4. Once' = 0 /\ acted = Once
      BY <2>3, <3>1, <3>3 DEF Once, CallIsEarned
    <3>5. acted' = 0 \/ (acted' = 1 /\ "lost" \in failures')
      BY <2>1, <2>2, <3>4 DEF Once
    <3>6. CallIsEarned'
      BY <3>1, <3>3, <3>4, <3>5 DEF CallIsEarned
    <3>. QED BY <2>1, <2>4, <3>6 DEF ApiInv
  <2>. QED BY <2>5, <2>6
<1>. QED BY <1>1, <1>2 DEF Api!Ending

LEMMA ApiInvStep ==
  ASSUME ApiInv, [Api!Next]_api
  PROVE  ApiInv'
<1>1. CASE UNCHANGED <<call, acted, failures>>
  BY <1>1 DEF ApiInv, CallIsEarned, Once, Total
<1>2. CASE UNCHANGED api \/ Api!Dismiss
  BY <1>1, <1>2 DEF api, Api!Dismiss
<1>. QED
  BY <1>2, AskingKeepsApi, SendingKeepsApi, AbortKeepsApi, ActingKeepsApi, EndingKeepsApi
     DEF Api!Next

\* A booking is tried once, and done once at most.
LEMMA BookingsAreDoneOnce ==
  ASSUME ApiInv, call # Api!Idle, call.endpoint \in Api!Public
  PROVE  acted <= 1 /\ call.retries = 0
<1>1. CallIsEarned
  BY DEF ApiInv
<1>2. call.retries \in {0, 1}
  BY <1>1 DEF CallIsEarned, CallTypes
<1>3. call.retries = 0 /\ acted = Once
  BY <1>1, <1>2 DEF CallIsEarned
<1>4. Once \in {0, 1}
  BY DEF Once
<1>. QED BY <1>3, <1>4

\* What a call asks for is done once, or twice if the gateway lost the answer to its first
\* attempt, and never more often; what a visitor books is asked for once (lib/aaliyah/api.ts).
THEOREM RepeatsHaveReason == Spec => []RepeatsAreEarned
<1>1. Init => ApiInv
  BY ApiInvInit DEF Init
<1>2. ApiInv /\ [Next]_vars => ApiInv'
  BY ApiInvStep, StepOfOnePart
<1>3. ApiInv => RepeatsAreEarned
  <2>1. ApiInv => (acted > 1 => acted = 2 /\ "lost" \in failures)
    BY DEF ApiInv, Total
  <2>. QED BY <2>1, BookingsAreDoneOnce DEF RepeatsAreEarned, Api!RepeatsAreEarned
<1>. QED BY <1>1, <1>2, <1>3, PTL DEF Spec

-----------------------------------------------------------------------------
(* The page as a whole.                                                    *)

OtherKinds == Page!Kinds \ {"greeting"}

\* The effects that are due know whether the chat begins with a greeting: it has not lost
\* one since.
PageInv ==
  /\ messages \in Seq(Page!Kinds)
  /\ Page!OneGreeting
  /\ effects # Page!NoEffect /\ effects.first = "greeting" =>
       messages # <<>> /\ Head(messages) = "greeting"

\* A message behind the others is not the first, and what is put in the place of the first
\* one leaves the others where they are.
LEMMA AppendedIsLater ==
  ASSUME NEW Kinds, NEW greeting, NEW f \in Seq(Kinds), NEW k \in Kinds, k # greeting,
         \A n \in 2..Len(f) : f[n] # greeting
  PROVE  /\ Append(f, k) \in Seq(Kinds)
         /\ \A n \in 2..Len(Append(f, k)) : Append(f, k)[n] # greeting
         /\ f # <<>> => Append(f, k) # <<>> /\ Head(Append(f, k)) = Head(f)
<1>1. /\ Append(f, k) \in Seq(Kinds) /\ Len(Append(f, k)) = Len(f) + 1 /\ Len(f) \in Nat
      /\ \A n \in 1..Len(f) : Append(f, k)[n] = f[n]
      /\ Append(f, k)[Len(f) + 1] = k
  OBVIOUS
<1>2. \A n \in 2..Len(Append(f, k)) : Append(f, k)[n] # greeting
  BY <1>1
<1>3. f # <<>> => Append(f, k) # <<>> /\ Head(Append(f, k)) = Head(f)
  BY <1>1
<1>. QED BY <1>1, <1>2, <1>3

LEMMA FirstIsReplaced ==
  ASSUME NEW Kinds, NEW greeting \in Kinds, NEW f \in Seq(Kinds), f # <<>>,
         \A n \in 2..Len(f) : f[n] # greeting
  PROVE  /\ <<greeting>> \o Tail(f) \in Seq(Kinds)
         /\ \A n \in 2..Len(<<greeting>> \o Tail(f)) : (<<greeting>> \o Tail(f))[n] # greeting
<1>. DEFINE g == <<greeting>> \o Tail(f)
<1>1. /\ Tail(f) \in Seq(Kinds) /\ Len(Tail(f)) = Len(f) - 1 /\ Len(f) \in Nat
      /\ \A n \in 1..Len(Tail(f)) : Tail(f)[n] = f[n + 1]
  OBVIOUS
<1>2. g \in Seq(Kinds) /\ Len(g) = 1 + Len(Tail(f))
  BY <1>1
<1>3. \A n \in 2..Len(g) : g[n] = Tail(f)[n - 1]
  BY <1>1, <1>2
<1>. HIDE DEF g
<1>4. \A n \in 2..Len(g) : g[n] = f[n]
  BY <1>1, <1>2, <1>3
<1>. QED BY <1>1, <1>2, <1>4 DEF g

LEMMA OneIsNotSecond ==
  ASSUME NEW Kinds, NEW greeting \in Kinds
  PROVE  /\ <<greeting>> \in Seq(Kinds)
         /\ \A n \in 2..Len(<<greeting>>) : <<greeting>>[n] # greeting
OBVIOUS

LEMMA PageInvInit == Page!Init => PageInv
<1>. SUFFICES ASSUME Page!Init PROVE PageInv
  OBVIOUS
<1>1. "said" \in Page!Kinds
  BY DEF Page!Kinds
<1>2. messages \in Seq(Page!Kinds) /\ Len(messages) <= 1
  <2>1. messages \in {<<>>, <<"said">>}
    BY Zenon DEF Page!Init
  <2>2. ASSUME NEW K, NEW k \in K, messages \in {<<>>, <<k>>}
        PROVE  messages \in Seq(K) /\ Len(messages) <= 1
    <3>1. <<>> \in Seq(K) /\ Len(<<>>) <= 1
      OBVIOUS
    <3>2. <<k>> \in Seq(K) /\ Len(<<k>>) <= 1
      OBVIOUS
    <3>. QED BY <2>2, <3>1, <3>2
  <2>. DEFINE one == "said"
  <2>3. one \in Page!Kinds /\ messages \in {<<>>, <<one>>}
    BY <1>1, <2>1
  <2>. HIDE DEF one
  <2>. QED BY <2>2, <2>3
<1>3. Page!OneGreeting
  BY <1>2 DEF Page!OneGreeting
<1>. QED BY <1>2, <1>3 DEF PageInv, Page!Init

\* Whatever is said comes behind, and a rendering looks at what the chat begins with.
LEMMA SayingKeepsPage ==
  ASSUME PageInv,
         \/ messages' = messages
         \/ \E k \in OtherKinds : messages' = Append(messages, k),
         \/ effects' = effects
         \/ effects' = Page!NoEffect
         \/ \E h : effects' = [run |-> TRUE, first |-> Page!First(messages), health |-> h]
  PROVE  PageInv'
<1>1. /\ messages' \in Seq(Page!Kinds)
      /\ Page!OneGreeting'
      /\ messages # <<>> => messages' # <<>> /\ Head(messages') = Head(messages)
  <2>1. CASE messages' = messages
    BY <2>1 DEF PageInv, Page!OneGreeting
  <2>2. ASSUME NEW k \in OtherKinds, messages' = Append(messages, k)
        PROVE  /\ messages' \in Seq(Page!Kinds)
               /\ Page!OneGreeting'
               /\ messages # <<>> => messages' # <<>> /\ Head(messages') = Head(messages)
    <3>1. k \in Page!Kinds /\ k # "greeting"
      BY DEF OtherKinds
    <3>2. messages \in Seq(Page!Kinds) /\ \A n \in 2..Len(messages) : messages[n] # "greeting"
      BY DEF PageInv, Page!OneGreeting
    <3>. QED BY <2>2, <3>1, <3>2, AppendedIsLater DEF Page!OneGreeting
  <2>. QED BY <2>1, <2>2
<1>2. effects' # Page!NoEffect /\ effects'.first = "greeting" =>
        messages # <<>> /\ Head(messages) = "greeting"
  <2>1. CASE effects' \in {effects, Page!NoEffect}
    BY <2>1 DEF PageInv
  <2>2. ASSUME NEW h,
               effects' = [run |-> TRUE, first |-> Page!First(messages), health |-> h]
        PROVE  effects'.first = "greeting" => messages # <<>> /\ Head(messages) = "greeting"
    <3>1. effects'.first = Page!First(messages)
      BY <2>2
    <3>. QED BY <3>1 DEF Page!First
  <2>. QED BY <2>1, <2>2
<1>. QED BY <1>1, <1>2 DEF PageInv

LEMMA RenderingKeepsPage ==
  ASSUME PageInv,
         \/ Page!OnboardingAnswers \/ Page!GateTimesOut \/ Page!HealthAnswers
         \/ Page!HeartbeatAsks \/ Page!HeartbeatAnswers \/ Page!CountsCome
         \/ Page!SaysSomething \/ Page!PreflightKnows \/ Page!PreflightEnds
  PROVE  PageInv'
<1>1. \/ messages' = messages
      \/ \E k \in OtherKinds : messages' = Append(messages, k)
  <2>1. {"said", "connected", "interrupted"} \subseteq OtherKinds
    BY DEF OtherKinds, Page!Kinds
  <2>2. CASE Page!SaysSomething
    BY <2>1, <2>2 DEF Page!SaysSomething
  <2>3. CASE Page!HeartbeatAnswers
    BY <2>1, <2>3 DEF Page!HeartbeatAnswers
  <2>. QED
    BY <2>2, <2>3 DEF Page!OnboardingAnswers, Page!GateTimesOut, Page!HealthAnswers,
       Page!HeartbeatAsks, Page!CountsCome, Page!PreflightKnows, Page!PreflightEnds
<1>2. \/ effects' = effects
      \/ \E h : effects' = [run |-> TRUE, first |-> Page!First(messages), health |-> h]
  BY DEF Page!OnboardingAnswers, Page!GateTimesOut, Page!HealthAnswers, Page!HeartbeatAsks,
     Page!HeartbeatAnswers, Page!CountsCome, Page!SaysSomething, Page!PreflightKnows,
     Page!PreflightEnds, Page!Told, Page!Knows, Page!Renders
<1>. QED BY <1>1, <1>2, SayingKeepsPage

\* The greeting takes the place of a greeting, or of everything.
LEMMA WelcomeIsFirst ==
  ASSUME PageInv, effects # Page!NoEffect
  PROVE  /\ Page!Welcome(messages) \in Seq(Page!Kinds)
         /\ \A n \in 2..Len(Page!Welcome(messages)) : Page!Welcome(messages)[n] # "greeting"
<1>1. "greeting" \in Page!Kinds
  BY DEF Page!Kinds
<1>2. messages \in Seq(Page!Kinds) /\ \A n \in 2..Len(messages) : messages[n] # "greeting"
  BY DEF PageInv, Page!OneGreeting
<1>3. CASE Page!Welcome(messages) = messages
  BY <1>2, <1>3
<1>4. CASE Page!Welcome(messages) = <<"greeting">>
  BY <1>1, <1>4, OneIsNotSecond
<1>5. CASE /\ effects.first = "greeting"
           /\ Page!Welcome(messages) = <<"greeting">> \o Tail(messages)
  <2>1. messages # <<>>
    BY <1>5 DEF PageInv
  <2>. QED BY <1>1, <1>2, <1>5, <2>1, FirstIsReplaced
<1>. QED BY <1>3, <1>4, <1>5, Zenon DEF Page!Welcome

LEMMA EffectsKeepPage ==
  ASSUME PageInv, Page!EffectsRun
  PROVE  PageInv'
<1>. DEFINE f == Page!Welcome(messages)
<1>1. effects # Page!NoEffect /\ effects' = Page!NoEffect /\ messages' = f \o Page!News
  BY DEF Page!EffectsRun
<1>2. f \in Seq(Page!Kinds) /\ \A n \in 2..Len(f) : f[n] # "greeting"
  BY <1>1, WelcomeIsFirst
<1>3. Page!News = <<>> \/ \E k \in OtherKinds : Page!News = <<k>>
  <2>1. {"refused", "connected"} \subseteq OtherKinds
    BY DEF OtherKinds, Page!Kinds
  <2>2. Page!News \in {<<>>, <<"refused">>, <<"connected">>}
    BY Zenon DEF Page!News
  <2>. QED BY <2>1, <2>2
<1>. HIDE DEF f
<1>4. messages' \in Seq(Page!Kinds) /\ \A n \in 2..Len(messages') : messages'[n] # "greeting"
  <2>1. CASE Page!News = <<>>
    <3>1. messages' = f
      BY <1>1, <1>2, <2>1
    <3>. QED BY <1>2, <3>1
  <2>2. ASSUME NEW k \in OtherKinds, Page!News = <<k>>
        PROVE  messages' \in Seq(Page!Kinds) /\ \A n \in 2..Len(messages') : messages'[n] # "greeting"
    <3>1. k \in Page!Kinds /\ k # "greeting"
      BY DEF OtherKinds
    <3>2. messages' = Append(f, k)
      BY <1>1, <1>2, <2>2, <3>1
    <3>. QED BY <1>2, <3>1, <3>2, AppendedIsLater
  <2>. QED BY <1>3, <2>1, <2>2
<1>. QED BY <1>1, <1>4 DEF PageInv, Page!OneGreeting

LEMMA PageInvStep ==
  ASSUME PageInv, [Page!Next]_page
  PROVE  PageInv'
<1>1. CASE UNCHANGED page
  <2>1. messages' = messages /\ effects' = effects
    BY <1>1 DEF page
  <2>. QED BY <2>1, SayingKeepsPage
<1>2. CASE Page!EffectsRun
  BY <1>2, EffectsKeepPage
<1>. QED BY <1>1, <1>2, RenderingKeepsPage DEF Page!Next, Page!Works

\* The chat greets once, and first, however often the health of the connection is told anew,
\* and whatever is said before the effects of a rendering run (useWorkspaceEffects.ts).
THEOREM PageGreetsOnce == Spec => []OneGreeting
<1>1. Init => PageInv
  BY PageInvInit DEF Init
<1>2. PageInv /\ [Next]_vars => PageInv'
  BY PageInvStep, StepOfOnePart
<1>3. PageInv => OneGreeting
  BY DEF PageInv, OneGreeting
<1>. QED BY <1>1, <1>2, <1>3, PTL DEF Spec

-----------------------------------------------------------------------------
(* The thread that is open, beside its list.                               *)

\* A body is only fetched for the thread that is open; a list of which one load at a time is
\* under way loads what the queue says.
ThreadInv ==
  /\ bodyFetch # None => bodyFetch = open
  /\ body # None => body = open
  /\ file # Reader!NoFile => open \in {None, file.of}

ListInv ==
  /\ listLoads \in [Reader!Slots -> Queues \union {None}]
  /\ queueOpen /\ connected /\ ~crossed =>
       /\ \A s \in Reader!Slots : listLoads[s] \in {None, queue}
       /\ ~listLoading => emails \in {None, queue}

ReaderInv == ThreadInv /\ ListInv /\ queue \in Queues

LEMMA IdleList ==
  /\ Reader!Idle \in [Reader!Slots -> Queues \union {None}]
  /\ \A s \in Reader!Slots : Reader!Idle[s] = None
BY DEF Reader!Idle

LEMMA ReaderInvInit == Reader!Init => ReaderInv
BY DEF Reader!Init, ReaderInv, ThreadInv, ListInv

\* A load that begins asks for the queue, and any other that is under way is told of.
LEMMA LoadingKeepsList ==
  ASSUME NEW q \in Queues, NEW running \in [Reader!Slots -> Queues \union {None}], NEW was,
         Reader!Load(q, running, was), connected' = connected, queue' = q
  PROVE  ListInv'
<1>1. CASE ~connected
  BY <1>1 DEF Reader!Load, ListInv
<1>2. CASE connected
  <2>1. PICK s \in Reader!Slots : listLoads' = [running EXCEPT ![s] = q]
    BY <1>2 DEF Reader!Load
  <2>2. listLoading' = TRUE /\ crossed' = (was \/ running # Reader!Idle)
    BY <1>2 DEF Reader!Load
  <2>3. listLoads' \in [Reader!Slots -> Queues \union {None}]
    BY <2>1
  <2>4. ~crossed' => \A r \in Reader!Slots : listLoads'[r] \in {None, q}
    BY <2>1, <2>2, IdleList
  <2>. QED BY <2>2, <2>3, <2>4 DEF ListInv
<1>. QED BY <1>1, <1>2

LEMMA ClosingKeepsList ==
  ASSUME Reader!Unmounted, ~queueOpen'
  PROVE  ListInv'
BY IdleList DEF Reader!Unmounted, ListInv

\* What names the queue, its panel and its loads.
LEMMA NavigatingKeepsReader ==
  ASSUME ReaderInv, NEW q \in Queues, Reader!Navigate(q)
  PROVE  ReaderInv'
<1>1. UNCHANGED <<open, bodyFetch, body, file, connected>> /\ queue' = q
  BY DEF Reader!Navigate, Reader!thread, Reader!header, Reader!viewer
<1>2. ThreadInv'
  BY <1>1 DEF ReaderInv, ThreadInv
<1>3. listLoads \in [Reader!Slots -> Queues \union {None}]
  BY DEF ReaderInv, ListInv
<1>4. CASE ~queueOpen
  <2>1. Reader!Load(q, Reader!Idle, FALSE)
    BY <1>4 DEF Reader!Navigate
  <2>. QED BY <1>1, <1>2, <2>1, IdleList, LoadingKeepsList DEF ReaderInv
<1>5. CASE queueOpen /\ queue # q
  <2>1. Reader!Load(q, listLoads, crossed)
    BY <1>5 DEF Reader!Navigate
  <2>. QED BY <1>1, <1>2, <1>3, <2>1, LoadingKeepsList DEF ReaderInv
<1>6. CASE queueOpen /\ queue = q
  <2>1. Reader!Unmounted /\ ~queueOpen'
    BY <1>6 DEF Reader!Navigate
  <2>. QED BY <1>1, <1>2, <2>1, ClosingKeepsList DEF ReaderInv
<1>. QED BY <1>4, <1>5, <1>6

LEMMA ListingKeepsReader ==
  ASSUME ReaderInv,
         \/ Reader!MainClick \/ Reader!Disconnects \/ Reader!Reconnects
         \/ \E s \in Reader!Slots : Reader!ListAnswers(s)
  PROVE  ReaderInv'
<1>1. UNCHANGED <<open, bodyFetch, body, file>>
  BY DEF Reader!MainClick, Reader!Disconnects, Reader!Reconnects, Reader!ListAnswers,
         Reader!thread, Reader!header, Reader!viewer
<1>2. ThreadInv'
  BY <1>1 DEF ReaderInv, ThreadInv
<1>3. CASE Reader!MainClick
  BY <1>2, <1>3, ClosingKeepsList DEF Reader!MainClick, ReaderInv
<1>4. CASE Reader!Disconnects
  BY <1>2, <1>4 DEF Reader!Disconnects, ReaderInv, ListInv
<1>5. CASE Reader!Reconnects
  <2>1. CASE queueOpen
    <3>1. PICK s \in Reader!Slots : listLoads' = [listLoads EXCEPT ![s] = queue]
      BY <1>5, <2>1 DEF Reader!Reconnects
    <3>2. /\ listLoading' = TRUE /\ queue' = queue
          /\ crossed' = (crossed \/ listLoads # Reader!Idle)
      BY <1>5, <2>1 DEF Reader!Reconnects
    <3>3. ~crossed' => \A r \in Reader!Slots : listLoads'[r] \in {None, queue}
      BY <3>1, <3>2, IdleList
    <3>4. queue \in Queues => listLoads' \in [Reader!Slots -> Queues \union {None}]
      BY <3>1 DEF ReaderInv, ListInv
    <3>. QED BY <1>2, <3>2, <3>3, <3>4 DEF ReaderInv, ListInv
  <2>2. CASE ~queueOpen
    BY <1>2, <1>5, <2>2 DEF Reader!Reconnects, ReaderInv, ListInv
  <2>. QED BY <1>2, <2>1, <2>2 DEF ReaderInv
<1>6. ASSUME NEW s \in Reader!Slots, Reader!ListAnswers(s) PROVE ReaderInv'
  <2>1. /\ listLoads' = [listLoads EXCEPT ![s] = None]
        /\ emails' \in {listLoads[s], None}
        /\ UNCHANGED <<queueOpen, queue, connected, crossed>>
    BY <1>6 DEF Reader!ListAnswers
  <2>. QED BY <1>2, <2>1 DEF ReaderInv, ListInv
<1>. QED BY <1>3, <1>4, <1>5, <1>6

\* What opens and closes a thread: the header, and what it fetched, go with it.
LEMMA ThreadKeepsReader ==
  ASSUME ReaderInv,
         \/ \E t \in Threads : Reader!Select(t)
         \/ Reader!Back \/ Reader!RemoteDelete
         \/ \E s \in Reader!Slots : Reader!ActSucceeds(s)
  PROVE  ReaderInv'
<1>1. ASSUME NEW t \in Threads, Reader!Select(t) PROVE ReaderInv'
  <2>1. open' = t /\ file = Reader!NoFile /\ file' = file
    BY <1>1 DEF Reader!Select, Reader!viewer
  <2>2. ListInv' /\ queue' = queue
    BY <1>1, ClosingKeepsList DEF Reader!Select
  <2>3. CASE open = t
    <3>0. open # None
      BY <2>3, BoundsAssumption
    <3>1. body' = body /\ bodyFetch' = bodyFetch
      BY <1>1, <2>3, <3>0 DEF Reader!Select, Reader!header
    <3>2. ThreadInv'
      BY <2>1, <2>3, <3>1 DEF ReaderInv, ThreadInv
    <3>. QED BY <2>2, <3>2 DEF ReaderInv
  <2>4. CASE open # t
    <3>1. body' = None /\ bodyFetch' = None
      BY <1>1, <2>4 DEF Reader!Select, Reader!NewHeader, Reader!ResetHeader, Reader!Aborted
    <3>. QED BY <2>1, <2>2, <3>1 DEF ReaderInv, ThreadInv
  <2>. QED BY <2>3, <2>4
<1>2. CASE Reader!Back \/ Reader!RemoteDelete
  <2>1. open' = None /\ body' = None /\ bodyFetch' = None /\ file' = file
    BY <1>2 DEF Reader!Back, Reader!RemoteDelete, Reader!NoHeader, Reader!viewer
  <2>2. UNCHANGED <<queueOpen, queue, connected, emails, listLoading, listLoads, crossed>>
    BY <1>2 DEF Reader!Back, Reader!RemoteDelete, Reader!listing
  <2>. QED BY <2>1, <2>2 DEF ReaderInv, ThreadInv, ListInv
<1>3. ASSUME NEW s \in Reader!Slots, Reader!ActSucceeds(s) PROVE ReaderInv'
  <2>1. body' = None /\ bodyFetch' = None /\ file' = Reader!NoFile
    BY <1>3 DEF Reader!ActSucceeds, Reader!NoHeader
  <2>2. UNCHANGED <<queueOpen, queue, connected>>
    BY <1>3 DEF Reader!ActSucceeds
  <2>3. ListInv'
    <3>1. CASE queueOpen
      <4>1. Reader!Load(queue, listLoads, crossed)
        BY <1>3, <3>1 DEF Reader!ActSucceeds
      <4>. QED BY <2>2, <4>1, LoadingKeepsList DEF ReaderInv, ListInv
    <3>2. CASE ~queueOpen
      BY <1>3, <2>2, <3>2 DEF Reader!ActSucceeds, ReaderInv, ListInv
    <3>. QED BY <3>1, <3>2
  <2>. QED BY <2>1, <2>2, <2>3 DEF ReaderInv, ThreadInv
<1>. QED BY <1>1, <1>2, <1>3

\* The rest leaves the thread open.
LEMMA HeaderKeepsReader ==
  ASSUME ReaderInv,
         \/ Reader!ToggleExpanded \/ Reader!BodyAnswers \/ Reader!ToggleEmailChat
         \/ Reader!Act \/ \E s \in Reader!Slots : Reader!ActFails(s)
  PROVE  ReaderInv'
<1>1. UNCHANGED <<open, file, queueOpen, queue, connected, emails, listLoading, listLoads, crossed>>
  BY DEF Reader!ToggleExpanded, Reader!BodyAnswers, Reader!ToggleEmailChat, Reader!Act,
         Reader!ActFails, Reader!listing, Reader!viewer
<1>2. /\ bodyFetch' \in {bodyFetch, open, None}
      /\ body' \in {body, bodyFetch, None}
  BY DEF Reader!ToggleExpanded, Reader!BodyAnswers, Reader!ToggleEmailChat, Reader!Act,
         Reader!ActFails, Reader!header, Reader!Aborted
<1>. QED BY <1>1, <1>2 DEF ReaderInv, ThreadInv, ListInv

LEMMA ViewerKeepsReader ==
  ASSUME ReaderInv,
         \/ \E f \in Reader!Files : Reader!OpenFile(f)
         \/ Reader!PreviousOrNext \/ Reader!FileParsed \/ Reader!CloseFile
  PROVE  ReaderInv'
<1>1. /\ UNCHANGED <<open, bodyFetch, body, queueOpen, queue, connected, emails, listLoading,
                     listLoads, crossed>>
      /\ file' \in {file, Reader!NoFile} \/ file'.of = open
  BY DEF Reader!OpenFile, Reader!PreviousOrNext, Reader!ShowFile, Reader!FileParsed,
         Reader!CloseFile, Reader!listing, Reader!header
<1>. QED BY <1>1 DEF ReaderInv, ThreadInv, ListInv, Reader!NoFile

LEMMA ReaderInvStep ==
  ASSUME ReaderInv, [Reader!Next]_reader
  PROVE  ReaderInv'
<1>1. CASE UNCHANGED reader
  BY <1>1 DEF reader, ReaderInv, ThreadInv, ListInv
<1>2. ASSUME NEW q \in Queues, Reader!Navigate(q) PROVE ReaderInv'
  BY <1>2, NavigatingKeepsReader
<1>3. ASSUME NEW s \in Reader!Slots,
             Reader!ListAnswers(s) \/ Reader!ActSucceeds(s) \/ Reader!ActFails(s)
      PROVE  ReaderInv'
  BY <1>3, ListingKeepsReader, ThreadKeepsReader, HeaderKeepsReader
<1>4. CASE Reader!MainClick \/ Reader!Disconnects \/ Reader!Reconnects
  BY <1>4, ListingKeepsReader
<1>5. CASE (\E t \in Threads : Reader!Select(t)) \/ Reader!Back \/ Reader!RemoteDelete
  BY <1>5, ThreadKeepsReader
<1>6. CASE Reader!ToggleExpanded \/ Reader!BodyAnswers \/ Reader!ToggleEmailChat \/ Reader!Act
  BY <1>6, HeaderKeepsReader
<1>7. CASE \/ \E f \in Reader!Files : Reader!OpenFile(f)
           \/ Reader!PreviousOrNext \/ Reader!FileParsed \/ Reader!CloseFile
  BY <1>7, ViewerKeepsReader
<1>. QED BY <1>1, <1>2, <1>3, <1>4, <1>5, <1>6, <1>7 DEF Reader!Next

\* What is on the screen belongs to the thread and the queue named above it: no body of a
\* thread that was left, no attachment of another one, and no list of another queue unless
\* two of its loads were under way at once (ThreadConversation.tsx, AttachmentViewer.tsx,
\* ThreadList.tsx).
THEOREM ScreenBelongs == Spec => []ShownBelongs
<1>1. Init => ReaderInv
  BY ReaderInvInit DEF Init
<1>2. ReaderInv /\ [Next]_vars => ReaderInv'
  BY ReaderInvStep, StepOfOnePart
<1>3. ReaderInv => ShownBelongs
  BY DEF ReaderInv, ThreadInv, ListInv, ShownBelongs, Reader!ShownBelongs
<1>. QED BY <1>1, <1>2, <1>3, PTL DEF Spec

=============================================================================
