--------------------------- MODULE CalendarEvents ---------------------------
(***************************************************************************)
(* The calendar adapters of the connector package (calendar.adapter.ts,    *)
(* graph-calendar.adapter.ts) over one calendar at its provider: calls of  *)
(* an adapter overlap with each other, with the owner's own edits and with *)
(* the answers of guests, and the search for a meeting time runs over what *)
(* the provider said was busy when it began. As it looks at that alone, a  *)
(* behaviour is about searches or about edits (a bound).                   *)
(***************************************************************************)
EXTENDS Integers, FiniteSets, Sequences

CONSTANTS
  Events,     \* bound: ids of the provider
  Guests,     \* everyone invited, the account's owner among them
  Me,         \* the account's owner
  Callers,    \* bound: calls of an adapter
  Horizon,    \* bound: the times are 0..Horizon
  Zones,      \* hours by which the clocks of a time zone are ahead of UTC
  Most,       \* suggestions of one search: 5
  MaxEdits,   \* bound: edits and answers
  MaxFaults   \* bound: failed requests

VARIABLES
  provider,   \* account.provider
  about,      \* bound: what the behaviour is about
  calendar,   \* what an id stands for
  elsewhere,  \* when the other people of a search are busy
  call,       \* the calls under way, and the answers of searches that ended
  edits,      \* the number of the last edit or answer
  faults

vars == <<provider, about, calendar, elsewhere, call, edits, faults>>

Times == 0..Horizon
Intervals == {i \in [start : Times, end : Times] : i.start < i.end}
\* Also those that a wrong zone makes of them.
Moments == [start : (-2)..Horizon, end : (-2)..Horizon]

\* Fields that an update may give. A value is the number of the edit it stems from.
Fields == {"title", "location"}
None == 0
NoTitle == -1  \* the words "(No title)"
Edits == 0..MaxEdits
Values == Edits \union {NoTitle}
Details == [Fields -> Values]
Replies == [Guests -> Edits]
CalendarEvent == [time : Moments, details : Details, reply : Replies]

Free == [time |-> "free"]  \* an id that is not given yet
Gone == [time |-> "gone"]
Exists(e) == calendar[e] # Free /\ calendar[e] # Gone

Nobody == [p \in Guests |-> None]
Untitled == [f \in Fields |-> None]

Idle == [op |-> "idle"]
UpdateCalls ==
  [op : {"update"}, event : Events, give : SUBSET Fields, guests : BOOLEAN, edit : Edits,
   read : Details, when : SUBSET [asked : Intervals, zone : Zones]]
RespondCalls == [op : {"respond"}, event : Events, edit : Edits, read : Replies]
FindCalls ==
  [op : {"find"}, pc : {"looping", "done"}, busy : SUBSET Intervals, left : SUBSET Intervals,
   from : Times, to : Times, duration : Times, current : Times, picks : Seq(Moments),
   off : BOOLEAN]

Fault == faults < MaxFaults /\ faults' = faults + 1
Edit == about = "edits" /\ edits < MaxEdits /\ edits' = edits + 1

NewEvent(time, details) == [time |-> time, details |-> details, reply |-> Nobody]
SomeTime == [start |-> 0, end |-> Horizon]

\* The times of a caller, in its time zone.
Whens == {[asked |-> i, zone |-> z] : i \in {[start |-> 1, end |-> 2]}, z \in Zones}

Init ==
  /\ provider \in {"GOOGLE", "MICROSOFT"}
  /\ \/ /\ about = "edits"
        /\ \E e \in Events :
             calendar = [k \in Events |-> IF k = e THEN NewEvent(SomeTime, Untitled) ELSE Free]
        /\ elsewhere = {}
     \/ /\ about = "times"
        /\ \E time \in [Events -> Intervals] :
             calendar = [e \in Events |-> NewEvent(time[e], Untitled)]
        /\ elsewhere \in {{}} \union {{i} : i \in Intervals}
        /\ provider = "MICROSOFT" => elsewhere = {}
  /\ call = [c \in Callers |-> Idle]
  /\ edits = 0 /\ faults = 0

-----------------------------------------------------------------------------
(* What an adapter makes of an event. A title that is missing is put into   *)
(* words.                                                                   *)

WithTitle(details) == [details EXCEPT !["title"] = IF @ = None THEN NoTitle ELSE @]
GoogleEvent(e) == [calendar[e] EXCEPT !.details = WithTitle(@)]

\* A listing of a window [min, max]. Graph's second filter takes the place of the first
\* and begins with "and": with both bounds the request is refused.
GoogleListEvents(min, max) ==
  {e \in Events : Exists(e) /\ calendar[e].time.end > min /\ calendar[e].time.start < max}
GraphListEvents(min, max) ==
  IF min # 0 /\ max # Horizon THEN {}
  ELSE {e \in Events : Exists(e) /\ calendar[e].time.start >= min /\ calendar[e].time.end <= max}
Shown(e) == \E min, max \in Times :
  e \in (IF provider = "GOOGLE" THEN GoogleListEvents(min, max) ELSE GraphListEvents(min, max))

-----------------------------------------------------------------------------
(* The times that an adapter gives to its provider. What the clocks of a    *)
(* zone show is that much earlier in UTC.                                   *)

Earlier(i, hours) == [start |-> i.start - hours, end |-> i.end - hours]

\* An instant, with its zone for display.
ToGoogleDateTime(w) == w.asked

\* What the clocks of UTC show at the instant, as if those of the zone showed it.
ToGraphDateTime(w) == [clock |-> w.asked, zone |-> w.zone]
GraphReads(dt) == Earlier(dt.clock, dt.zone)

Placed(w) ==
  IF provider = "GOOGLE" THEN ToGoogleDateTime(w) ELSE GraphReads(ToGraphDateTime(w))
Moved(event, when) ==
  IF when = {} THEN event
  ELSE [event EXCEPT !.time = Placed(CHOOSE w \in when : TRUE)]

-----------------------------------------------------------------------------
(* The owner, the guests and calls of one request.                          *)

\* POST /calendar/events, with an end and a beginning in their time zone, or the owner in
\* the provider's own client.
CreateEvent ==
  /\ Edit
  /\ \E e \in Events, w \in Whens :
       /\ calendar[e] = Free
       /\ calendar' = [calendar EXCEPT ![e] =
                         NewEvent(Placed(w), [f \in Fields |-> edits'])]
  /\ UNCHANGED <<provider, about, elsewhere, call, faults>>

OwnerEdits(e) ==
  /\ Exists(e) /\ Edit
  /\ \E f \in Fields : calendar' = [calendar EXCEPT ![e].details[f] = edits']
  /\ UNCHANGED <<provider, about, elsewhere, call, faults>>

GuestAnswers(e) ==
  /\ Exists(e) /\ Edit
  /\ \E p \in Guests \ {Me} : calendar' = [calendar EXCEPT ![e].reply[p] = edits']
  /\ UNCHANGED <<provider, about, elsewhere, call, faults>>

\* DELETE /calendar/events/:eventId after its approval, or the owner.
DeleteEvent(e) ==
  /\ about = "edits" /\ Exists(e)
  /\ calendar' = [calendar EXCEPT ![e] = Gone]
  /\ UNCHANGED <<provider, about, elsewhere, call, edits, faults>>

-----------------------------------------------------------------------------
(* updateEvent. A list of attendees takes the place of the old one, and     *)
(* with it go the answers.                                                  *)

Merge(old, give, edit) == [f \in Fields |-> IF f \in give THEN edit ELSE old[f]]
\* An update gives a time or none.
NewTimes == {{}} \union {{w} : w \in Whens}
Invite(reply, guests) == IF guests THEN Nobody ELSE reply

\* Google's adapter reads the event ...
GoogleReadsEvent(c, e) ==
  /\ provider = "GOOGLE" /\ call[c] = Idle /\ Shown(e) /\ Edit
  /\ \E give \in SUBSET Fields, guests \in BOOLEAN, when \in NewTimes :
       call' = [call EXCEPT ![c] = [op |-> "update", event |-> e, give |-> give,
                  guests |-> guests, edit |-> edits', read |-> GoogleEvent(e).details,
                  when |-> when]]
  /\ UNCHANGED <<provider, about, calendar, elsewhere, faults>>

\* ... and patches the title and the place whether they are given or not.
GooglePatchesEvent(c) ==
  /\ call[c].op = "update"
  /\ LET u == call[c] IN
     calendar' = IF Exists(u.event)
       THEN [calendar EXCEPT ![u.event] =
               [Moved(calendar[u.event], u.when) EXCEPT
                  !.details = Merge(u.read, u.give, u.edit), !.reply = Invite(@, u.guests)]]
       ELSE calendar
  /\ call' = [call EXCEPT ![c] = Idle]
  /\ UNCHANGED <<provider, about, elsewhere, edits, faults>>

\* Graph patches what is given.
GraphPatchesEvent(e) ==
  /\ provider = "MICROSOFT" /\ Shown(e) /\ Edit
  /\ \E give \in SUBSET Fields, guests \in BOOLEAN, when \in NewTimes :
       calendar' = [calendar EXCEPT ![e] =
         [Moved(calendar[e], when) EXCEPT
            !.details = Merge(@, give, edits'), !.reply = Invite(@, guests)]]
  /\ UNCHANGED <<provider, about, elsewhere, call, faults>>

-----------------------------------------------------------------------------
(* respondToEvent.                                                          *)

\* Google's adapter reads the list of attendees ...
GoogleReadsReplies(c, e) ==
  /\ provider = "GOOGLE" /\ call[c] = Idle /\ Shown(e) /\ Edit
  /\ call' = [call EXCEPT ![c] = [op |-> "respond", event |-> e, edit |-> edits',
                                  read |-> calendar[e].reply]]
  /\ UNCHANGED <<provider, about, calendar, elsewhere, faults>>

\* A bug: a list with the owner alone.
AttendeesAlone(c) == [Nobody EXCEPT ![Me] = call[c].edit]
Attendees(c) == [call[c].read EXCEPT ![Me] = call[c].edit]

\* ... and writes all of it back.
GoogleWritesReplies(c) ==
  /\ call[c].op = "respond"
  /\ LET e == call[c].event IN
     calendar' = IF Exists(e) THEN [calendar EXCEPT ![e].reply = Attendees(c)] ELSE calendar
  /\ call' = [call EXCEPT ![c] = Idle]
  /\ UNCHANGED <<provider, about, elsewhere, edits, faults>>

\* Graph has a request for the answer of the owner.
GraphResponds(e) ==
  /\ provider = "MICROSOFT" /\ Shown(e) /\ Edit
  /\ calendar' = [calendar EXCEPT ![e].reply[Me] = edits']
  /\ UNCHANGED <<provider, about, elsewhere, call, faults>>

CallFails(c) ==
  /\ call[c].op \in {"update", "respond"}
  /\ call' = [call EXCEPT ![c] = Idle]
  /\ Fault
  /\ UNCHANGED <<provider, about, calendar, elsewhere, edits>>

-----------------------------------------------------------------------------
(* findAvailableTimes.                                                      *)

Overlap(i, j) == i.start < j.end /\ j.start < i.end
Slot(t, duration) == [start |-> t, end |-> t + duration]
IsFree(i, busy) == \A b \in busy : ~Overlap(i, b)
Larger(m, n) == IF m > n THEN m ELSE n

\* getFreeBusy: a calendar that cannot be read has an error and no busy times, and the
\* search does not look at errors.
GetFreeBusy(known, from, to) ==
  LET mine == {calendar[e].time : e \in {k \in Events : Exists(k)}} IN
  {i \in (IF Me \in known THEN mine ELSE {}) \union (IF known \subseteq {Me} THEN {} ELSE elsewhere) :
     Overlap(i, [start |-> from, end |-> to])}

\* Google's adapter asks for the busy times of all attendees and merges them ...
GoogleFinds(c) ==
  /\ about = "times" /\ provider = "GOOGLE" /\ \A d \in Callers : call[d] = Idle
  /\ \E known \in SUBSET Guests, w \in Intervals, duration \in 1..Horizon :
       LET busy == GetFreeBusy(known, w.start, w.end) IN
       call' = [call EXCEPT ![c] =
         [op |-> "find", pc |-> "looping", busy |-> busy, left |-> busy, from |-> w.start,
          to |-> w.end, duration |-> duration, current |-> w.start, picks |-> <<>>,
          off |-> FALSE]]
  /\ UNCHANGED <<provider, about, calendar, elsewhere, edits, faults>>

\* The times are sorted by their start.
Earliest(busy) == {b \in busy : \A a \in busy : b.start <= a.start}

\* A bug: the end of a busy time that lies within another one moves back.
PassAlways(s, b) == b.end
Pass(s, b) == Larger(s.current, b.end)

\* A bug: a gap of just the duration is passed over.
PickWithRoom(s, limit) ==
  IF limit - s.current > s.duration
  THEN Append(s.picks, Slot(s.current, s.duration)) ELSE s.picks
Pick(s, limit) ==
  IF limit - s.current >= s.duration
  THEN Append(s.picks, Slot(s.current, s.duration)) ELSE s.picks

\* ... takes the gap before each of them, if it is long enough, until it has five ...
NextBusy(c) ==
  /\ call[c].op = "find" /\ call[c].pc = "looping"
  /\ LET s == call[c] IN
     \E b \in Earliest(s.left) :
       LET picks == Pick(s, b.start) IN
       call' = [call EXCEPT ![c] =
         IF Len(picks) > Len(s.picks) /\ Len(picks) >= Most
         THEN [s EXCEPT !.picks = picks, !.pc = "done"]
         ELSE [s EXCEPT !.picks = picks, !.left = @ \ {b}, !.current = Pass(s, b)]]
  /\ UNCHANGED <<provider, about, calendar, elsewhere, edits, faults>>

\* ... and what remains after the last one.
Remaining(c) ==
  /\ call[c].op = "find" /\ call[c].pc = "looping" /\ call[c].left = {}
  /\ LET s == call[c] IN
     call' = [call EXCEPT ![c] = [s EXCEPT !.picks = Pick(s, s.to), !.pc = "done"]]
  /\ UNCHANGED <<provider, about, calendar, elsewhere, edits, faults>>

\* Graph finds the times itself: findMeetingTimes, of whose candidates one is taken (a
\* bound), looks at the schedules of everyone in the window it is given.
GraphSchedule == {calendar[e].time : e \in {k \in Events : Exists(k)}} \union elsewhere
Candidates(w, duration) ==
  {Slot(t, duration) : t \in {u \in w.start..(w.end - duration) :
                                IsFree(Slot(u, duration), GraphSchedule)}}

\* The window is told as the times of an event are. The answer is a clock of UTC without
\* its Z, and is read as one of the server's zone.
GraphFinds(c) ==
  /\ about = "times" /\ provider = "MICROSOFT" /\ \A d \in Callers : call[d] = Idle
  /\ \E w \in Intervals, zone \in Zones, server \in Zones, duration \in 1..Horizon :
       LET window == GraphReads(ToGraphDateTime([asked |-> w, zone |-> zone]))
           answers == {<<>>} \union {<<Earlier(i, server)>> : i \in Candidates(window, duration)} IN
       \E picks \in answers :
         call' = [call EXCEPT ![c] =
           [op |-> "find", pc |-> "done", busy |-> GraphSchedule, left |-> {}, from |-> w.start,
            to |-> w.end, duration |-> duration, current |-> w.start, picks |-> picks,
            off |-> {zone, server} # {0}]]
  /\ UNCHANGED <<provider, about, calendar, elsewhere, edits, faults>>

-----------------------------------------------------------------------------
Next ==
  \/ CreateEvent
  \/ \E e \in Events : OwnerEdits(e) \/ GuestAnswers(e) \/ DeleteEvent(e)
                       \/ GraphPatchesEvent(e) \/ GraphResponds(e)
  \/ \E c \in Callers, e \in Events : GoogleReadsEvent(c, e) \/ GoogleReadsReplies(c, e)
  \/ \E c \in Callers : GooglePatchesEvent(c) \/ GoogleWritesReplies(c) \/ CallFails(c)
                        \/ GoogleFinds(c) \/ NextBusy(c) \/ Remaining(c)
                        \/ GraphFinds(c)

Spec == Init /\ [][Next]_vars

-----------------------------------------------------------------------------
TypeOK ==
  /\ provider \in {"GOOGLE", "MICROSOFT"} /\ about \in {"edits", "times"}
  /\ calendar \in [Events -> CalendarEvent \union {Free, Gone}]
  /\ elsewhere \subseteq Intervals
  /\ call \in [Callers -> UpdateCalls \union RespondCalls \union FindCalls \union {Idle}]
  /\ edits \in Edits /\ faults \in 0..MaxFaults

Searches == {c \in Callers : call[c].op = "find"}

\* A suggested time lies in the window, has the duration that was asked for and overlaps
\* nothing that was busy when the search began, however busy times overlap, contain or
\* touch each other. (Graph's adapter keeps that where the caller and the server use UTC:
\* otherwise the window, or the answer, is off by the hours of the zone.)
SuggestionsAreFree ==
  \A c \in Searches : \A n \in DOMAIN call[c].picks :
    LET s == call[c] IN
    LET pick == s.picks[n] IN
    /\ pick.end - pick.start = s.duration
    /\ ~s.off =>
       /\ s.from <= pick.start /\ pick.end <= s.to
       /\ IsFree(pick, s.busy)

\* No search misses the earliest time: whenever a meeting fits, a suggestion begins then
\* or earlier. Only a search that finds nothing has no suggestion. (Graph chooses itself.)
EarliestIsOffered ==
  \A c \in Searches : provider = "GOOGLE" /\ call[c].pc = "done" =>
    LET s == call[c] IN
    \A t \in s.from..(s.to - s.duration) :
      IsFree(Slot(t, s.duration), s.busy) =>
        \E n \in DOMAIN s.picks : s.picks[n].start <= t

\* What a search suggests is right: every suggestion is free, and none comes too late.
SuggestionsAreSound == SuggestionsAreFree /\ EarliestIsOffered

\* What a call does not name stays, or is set back by no more than what came after the
\* call began: the title and the place over an update, and everyone else's answer over
\* an answer of the owner. An event without a title is the exception: an update of
\* another field writes the words "(No title)" into it.
OthersAreKept ==
  [][\A c \in Callers : call'[c] = Idle /\ call[c].op \in {"update", "respond"} =>
       LET u == call[c] IN Exists(u.event) =>
       LET old == calendar[u.event] new == calendar'[u.event] IN
       IF u.op = "update"
       THEN \A f \in Fields \ u.give :
              \/ new.details[f] = old.details[f] \/ new.details[f] >= u.read[f]
              \/ f = "title" /\ u.read[f] = NoTitle
       ELSE \A p \in Guests \ {Me} :
              new.reply[p] = old.reply[p] \/ new.reply[p] >= u.read[p]]_vars
=============================================================================
