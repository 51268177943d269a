---------------------------- MODULE WeekCalendar ----------------------------
(***************************************************************************)
(* The week that components/calendar/GlobalCalendar.tsx shows. It asks for *)
(* the events from now to the end of the week on the screen, and an answer *)
(* that comes after the week was left is dropped. Times are hours since    *)
(* the Monday that the behaviour's first week began with.                  *)
(***************************************************************************)
EXTENDS Integers, FiniteSets

CONSTANTS
  Candidates,  \* the events there may be: [start, end]
  Nows,        \* the hours at which the page may be opened
  Weeks,       \* the weeks that are looked at
  MaxVisits    \* bound: how often another week is turned to

VARIABLES
  events,      \* the events that the server knows
  now,
  week, weekEvents, weekLoading, weekError,
  weekRequests,
  visited,
  unreachable  \* the answer on the screen is that of a network that failed

vars == <<events, now, week, weekEvents, weekLoading, weekError, weekRequests, visited, unreachable>>

Limit == 50
Slots == 1..2  \* bound: requests at a time
NoRequest == [lookahead |-> 0, cancelled |-> FALSE]
Larger(a, b) == IF a > b THEN a ELSE b
Smaller(a, b) == IF a < b THEN a ELSE b

Week(t) == t \div 168
Weekday(t) == (t % 168) \div 24  \* 0 is Monday
Hour(t) == t % 24

-----------------------------------------------------------------------------
\* hoursToFetch: up to the end of Friday, at least a day, at most a week.
Lookahead(w) == Smaller(Larger(w * 168 + 120 - now, 24), 168)

\* list_upcoming_meetings
Accepts(lookahead) == lookahead \in 1..72
Upcoming(lookahead) ==
  LET found == {e \in events : e.start \in now..(now + lookahead)}
  IN {e \in found : Cardinality({o \in found : o.start < e.start}) < Limit}

\* mapEventsToWeek: the grid is of Monday to Friday, from 8 to 18 o'clock.
MapEventsToWeek(found, w) ==
  {e \in found : /\ Weekday(e.start) \in 0..4
                 /\ Week(e.start) = w
                 /\ Hour(e.end) > 8 /\ Hour(e.start) < 18}

-----------------------------------------------------------------------------
Asks(w) == [lookahead |-> Lookahead(w), cancelled |-> FALSE]

Init ==
  /\ events \in SUBSET Candidates
  /\ now \in Nows
  /\ week = Week(now)
  /\ weekEvents = {} /\ weekLoading = TRUE /\ weekError = FALSE
  /\ weekRequests = [s \in Slots |-> IF s = 1 THEN Asks(week) ELSE NoRequest]
  /\ visited = 0 /\ unreachable = FALSE

\* A bug: the answer of a week that was left counts.
Keep(requests) == requests
Cancel(requests) ==
  [s \in Slots |-> IF requests[s] = NoRequest THEN NoRequest
                   ELSE [requests[s] EXCEPT !.cancelled = TRUE]]

\* The buttons: today, the week before, the next one. The same week is not asked for again.
Show(w) ==
  /\ w \in Weeks \intersect {Week(now), week - 1, week + 1}
  /\ visited < MaxVisits /\ visited' = visited + 1
  /\ week' = w
  /\ IF w = week THEN UNCHANGED <<weekLoading, weekError, weekRequests, unreachable>>
     ELSE /\ weekLoading' = TRUE /\ weekError' = FALSE /\ unreachable' = FALSE
          /\ \E s \in Slots : /\ weekRequests[s] = NoRequest
                              /\ weekRequests' = [Cancel(weekRequests) EXCEPT ![s] = Asks(w)]
  /\ UNCHANGED <<events, now, weekEvents>>

\* An error leaves nothing of what was shown.
Answer(s, found, failed, lost) ==
  /\ weekRequests[s] # NoRequest
  /\ weekRequests' = [weekRequests EXCEPT ![s] = NoRequest]
  /\ IF weekRequests[s].cancelled
     THEN UNCHANGED <<weekEvents, weekLoading, weekError, unreachable>>
     ELSE /\ weekEvents' = found /\ weekLoading' = FALSE
          /\ weekError' = failed /\ unreachable' = lost
  /\ UNCHANGED <<events, now, week, visited>>

Serves(s) ==
  LET lookahead == weekRequests[s].lookahead
  IN IF Accepts(lookahead) THEN Answer(s, Upcoming(lookahead), FALSE, FALSE)
     ELSE Answer(s, {}, TRUE, FALSE)

NetworkFails(s) == Answer(s, {}, TRUE, TRUE)

Next ==
  \/ \E w \in Weeks : Show(w)
  \/ \E s \in Slots : Serves(s) \/ NetworkFails(s)

Spec == Init /\ [][Next]_vars

-----------------------------------------------------------------------------
TypeOK ==
  /\ events \subseteq Candidates /\ weekEvents \subseteq Candidates
  /\ now \in Nows /\ week \in Weeks
  /\ {weekLoading, weekError, unreachable} \subseteq BOOLEAN
  /\ \A s \in Slots : weekRequests[s].lookahead \in 0..168 /\ weekRequests[s].cancelled \in BOOLEAN
  /\ visited \in 0..MaxVisits

\* What the grid should hold: the events ahead, of the days and hours that it has. (What
\* ends at midnight or after it, or lasts all day, has an hour of ending that it has not.)
Due(w) ==
  {e \in events : /\ e.start >= now /\ Week(e.start) = w /\ Weekday(e.start) <= 4
                  /\ Hour(e.start) < 18 /\ Hour(e.end) > 8}

\* A week that is shown without an error is shown whole, unless more lies ahead than one
\* answer holds: no answer of another week, which asked for less, took the place of its own.
Ahead == {e \in events : e.start >= now}
WeekIsWhole ==
  ~weekLoading /\ ~weekError /\ Cardinality(Ahead) <= Limit =>
    MapEventsToWeek(weekEvents, week) = Due(week)

\* The week on the screen loads unless the network fails: what is asked for covers it.
\* The code refutes this: the route accepts 72 hours at most.
WeekIsCovered == ~weekLoading /\ weekError => unreachable
=============================================================================
