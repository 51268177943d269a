------------------------------ MODULE WebPages ------------------------------
(***************************************************************************)
(* The pages of the workspace over its client of the API: the page as a    *)
(* whole, the cards of the intelligence feed, the thread that is open      *)
(* beside its list, the week of the calendar, and the calls that all of    *)
(* them make. As in WebClient, the parts share no variable (a mail that is *)
(* deleted elsewhere, or a health that somebody else asked for, is a step  *)
(* that a part may take at any time): focus says which one moves.          *)
(***************************************************************************)
EXTENDS Integers, FiniteSets

CONSTANTS
  MaxAnswers, MaxSaid,                        \* WorkspacePage
  MaxCalls,                                   \* ApiClient
  Mails, Meetings, MaxLoads, MaxChanges,      \* TriageCards
  Threads, Queues, None, MaxFiles, MaxListed, \* ThreadPage
  Candidates, Nows, Weeks, MaxTurns           \* WeekCalendar

ASSUME BoundsAssumption ==
  /\ {MaxAnswers, MaxSaid, MaxCalls, MaxLoads, MaxChanges, MaxFiles, MaxListed, MaxTurns} \subseteq Nat
  /\ Mails \intersect Meetings = {}
  /\ None \notin Threads \union Queues

\* Times are hours, as Date.getTime() would count them, and there are finitely many events.
ASSUME TimesAssumption ==
  /\ Nows \union Weeks \subseteq Int
  /\ Candidates \subseteq [start : Int, end : Int]
  /\ IsFiniteSet(Candidates)

VARIABLES
  focus,  \* bound: the part that the behaviour is about
  gate, checked, health, before, messages, effects, triaged, preflight, beat, returned, answers, said,
  call, acted, failures, authError, calls,
  server, earned, marked, shown, load, loads, loading, syncing, due, request, discard, changes,
  open, expanded, body, skeleton, bodyFetch, acting, requests, emailChat, file, view, queueOpen,
  queue, connected, emails, listLoading, listLoads, listed, crossed,
  events, now, week, weekEvents, weekLoading, weekError, weekRequests, visited, unreachable

Page == INSTANCE WorkspacePage WITH feed <- messages, due <- effects
Api == INSTANCE ApiClient
Feed == INSTANCE TriageCards
Reader == INSTANCE ThreadPage WITH MaxLoads <- MaxListed
Calendar == INSTANCE WeekCalendar WITH MaxVisits <- MaxTurns

Parts == {"page", "api", "feed", "reader", "calendar"}

page == <<gate, checked, health, before, messages, effects, triaged, preflight, beat, returned, answers, said>>
api == <<call, acted, failures, authError, calls>>
feed == <<server, earned, marked, shown, load, loads, loading, syncing, due, request, discard, changes>>
reader ==
  <<open, expanded, body, skeleton, bodyFetch, acting, requests, emailChat, file, view, queueOpen,
    queue, connected, emails, listLoading, listLoads, listed, crossed>>
calendar == <<events, now, week, weekEvents, weekLoading, weekError, weekRequests, visited, unreachable>>
vars == <<focus, page, api, feed, reader, calendar>>

Init ==
  /\ focus \in Parts
  /\ Page!Init /\ Api!Init /\ Feed!Init /\ Reader!Init /\ Calendar!Init
  \* Of a part that takes no step, one initial state is enough.
  /\ focus # "page" => returned = {} /\ messages = <<>>
  /\ focus # "feed" => server = [c \in Mails \union Meetings |-> "absent"]
  /\ focus # "reader" => queue = CHOOSE q \in Queues : TRUE
  /\ focus # "calendar" => events = {} /\ now = CHOOSE n \in Nows : TRUE

Unless(part, rest) == IF focus = part THEN TRUE ELSE UNCHANGED rest

\* A step of one part leaves the others as they are.
Of(part, action) ==
  /\ focus = part
  /\ action
  /\ UNCHANGED focus
  /\ Unless("page", page) /\ Unless("api", api) /\ Unless("feed", feed)
  /\ Unless("reader", reader) /\ Unless("calendar", calendar)

Next ==
  \/ Of("page", Page!Next)
  \/ Of("api", Api!Next)
  \/ Of("feed", Feed!Next)
  \/ Of("reader", Reader!Next)
  \/ Of("calendar", Calendar!Next)

\* The fairness of the parts, of the part that a behaviour is about.
Fairness ==
  /\ SF_vars(Of("page", Page!GateTimesOut \/ Page!OnboardingAnswers))
  /\ WF_vars(Of("page", Page!EffectsRun))
  /\ WF_vars(Of("page", Page!PreflightEnds))
  /\ WF_vars(Of("page", Page!HeartbeatAnswers))
  /\ WF_vars(Of("api", Api!WithAuth))
  /\ WF_vars(Of("api", Api!Ending))
  /\ WF_vars(Of("api", Api!Retry))
  /\ \A l \in 1..2 : WF_vars(Of("feed", Feed!LoadEnds(l)))
  /\ WF_vars(Of("feed", Feed!SyncEnds))
  /\ \A c \in Mails \union Meetings : WF_vars(Of("feed", Feed!Answered(c)))
  /\ WF_vars(Of("reader", Reader!BodyAnswers))
  /\ \A s \in 1..2 :
       /\ WF_vars(Of("reader", Reader!ActSucceeds(s) \/ Reader!ActFails(s)))
       /\ WF_vars(Of("reader", Reader!ListAnswers(s)))

Spec == Init /\ [][Next]_vars /\ Fairness

-----------------------------------------------------------------------------
TypeOK ==
  /\ focus \in Parts
  /\ Page!TypeOK /\ Api!TypeOK /\ Feed!TypeOK /\ Reader!TypeOK /\ Calendar!TypeOK

\* The chat greets once, and first, however often the page renders anew.
OneGreeting == Page!OneGreeting

\* What a call asks for is done twice only when the answer to the first attempt was lost.
RepeatsAreEarned == Api!RepeatsAreEarned

\* A card that says that it is done was done, or marked so by the route that sends nothing.
ShownDoneIsDone == Feed!ShownDoneIsDone

\* What is on the screen belongs to the thread and the queue named above it.
ShownBelongs == Reader!ShownBelongs

\* The week on the screen is shown whole.
WeekIsWhole == Calendar!WeekIsWhole

\* What the user waits for comes to an end: the gate and every synchronisation of the page,
\* which goes on synchronising only for the heartbeats, every call of the API, the skeletons
\* of the feed and the requests of its cards, and the body of a mail.
WaitsEnd ==
  /\ <>[](focus = "page" => checked)
  /\ Page!SyncsEnd /\ Page!SettlesAlone
  /\ Api!EveryCallEnds
  /\ []<>(focus = "feed" => ~loading)
  /\ \A c \in Mails \union Meetings : []<>(request[c] = "none")
  /\ Reader!ReaderSettles
=============================================================================
