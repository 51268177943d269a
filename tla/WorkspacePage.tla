--------------------------- MODULE WorkspacePage ---------------------------
(***************************************************************************)
(* The page of the workspace as a whole (feed/useWorkspaceEffects.ts): the *)
(* gate in front of it, the greeting at the head of its chat, what it says *)
(* of connections that come and go, and the synchronisation that a         *)
(* greeting sets off. React runs the effects of a rendering later than the *)
(* rendering and before the next one: what they read is of the rendering,  *)
(* what they write is added to whatever has been said since.               *)
(***************************************************************************)
EXTENDS Integers, Sequences

CONSTANTS
  MaxAnswers,  \* bound: answers of /health that tell something new, or were asked for by
               \* neither a preflight nor a heartbeat
  MaxSaid      \* bound: messages of the user, the stream or the chat

VARIABLES
  gate,      \* the onboarding status: "asking", "complete", "incomplete" or "failed"
  checked,   \* onboardingChecked: the page is shown
  health,    \* connectionHealth: not "known", or the mail is "lost" or "ok"
  before,    \* prevHealthRef
  feed,      \* the messages of the chat, by their kind
  due,       \* the effects of the last rendering that are yet to run
  triaged,   \* triagedCount > 0
  preflight, \* "none", or where the synchronisation of runPreflightProtocol is: it asks for
             \* the "health", what it heard is "rendering", or the rest is "working"
  beat,      \* what a heartbeat under way read of health
  returned,  \* what a return from the provider's consent left to be found
  answers,
  said

rest == <<gate, triaged, answers, said>>
vars == <<rest, checked, health, before, feed, due, preflight, beat, returned>>

Kinds == {"greeting", "connected", "refused", "interrupted", "said"}
Returns == {"local", "query", "error"}
NoEffect == [run |-> FALSE]
MaySay == said < MaxSaid

Init ==
  /\ gate = "asking" /\ checked = FALSE
  /\ health = "unknown" /\ before = "unknown"
  /\ feed \in {<<>>, <<"said">>}
  /\ due = NoEffect
  /\ triaged = FALSE
  /\ preflight = "none"
  /\ beat = "none"
  /\ returned \in SUBSET Returns
  /\ answers = 0 /\ said = 0

\* A rendering: the effects that depend on what has changed are due, with what it shows.
First(f) == IF f = <<>> THEN "nothing" ELSE Head(f)
Renders(h) ==
  /\ due = NoEffect
  /\ due' = [run |-> TRUE, first |-> First(feed), health |-> h]

-----------------------------------------------------------------------------
(* The gate.                                                                *)

OnboardingAnswers ==
  /\ gate = "asking"
  /\ gate' \in {"complete", "incomplete", "failed"}
  /\ checked' = TRUE
  /\ Renders(health)
  /\ UNCHANGED <<health, before, feed, triaged, preflight, beat, returned, answers, said>>

\* Two seconds without an answer open the page too.
GateTimesOut ==
  /\ gate = "asking" /\ ~checked
  /\ checked' = TRUE
  /\ Renders(health)
  /\ UNCHANGED <<rest, health, before, feed, preflight, beat, returned>>

-----------------------------------------------------------------------------
(* The answers of /health. A request that fails changes nothing here.       *)

Knows(h) ==
  /\ health' = h
  /\ Renders(h)

Told(h) ==
  /\ Knows(h)
  /\ IF h = health THEN answers' = answers ELSE answers < MaxAnswers /\ answers' = answers + 1

\* Asked for by the stream, a refresh, the return from a consent or the onboarding.
HealthAnswers ==
  /\ answers < MaxAnswers /\ answers' = answers + 1
  /\ \E h \in {"lost", "ok"} : Knows(h)
  /\ UNCHANGED <<gate, checked, before, feed, triaged, preflight, beat, returned, said>>

\* Every sixty seconds, for as long as the page is there.
HeartbeatAsks ==
  /\ beat = "none"
  /\ beat' = IF health = "lost" THEN "lost" ELSE "ok"
  /\ UNCHANGED <<rest, checked, health, before, feed, due, preflight, returned>>

\* A heartbeat says that the connection is lost, if it was not when the heartbeat began.
HeartbeatAnswers ==
  /\ beat # "none"
  /\ beat' = "none"
  /\ \/ UNCHANGED <<health, feed, due, answers>>
     \/ \E h \in {"lost", "ok"} :
          /\ Told(h)
          /\ feed' = IF beat = "ok" /\ h = "lost" THEN Append(feed, "interrupted") ELSE feed
  /\ UNCHANGED <<gate, checked, before, triaged, preflight, returned, said>>

CountsCome ==
  /\ ~triaged
  /\ triaged' = TRUE
  /\ UNCHANGED <<gate, checked, health, before, feed, due, preflight, beat, returned, answers,
                 said>>

\* The user, the live stream, the chat's answers and the popup's message.
SaysSomething ==
  /\ MaySay /\ said' = said + 1
  /\ \E k \in {"said", "connected"} : feed' = Append(feed, k)
  /\ UNCHANGED <<gate, checked, health, before, due, triaged, preflight, beat, returned, answers>>

-----------------------------------------------------------------------------
(* The effects.                                                             *)

\* The greeting takes the place of the one before it, and comes first in an empty chat.
Greets == checked /\ (gate = "complete" => due.health # "unknown")
          /\ due.first \in {"nothing", "greeting"}

\* A bug: a greeting for every rendering.
WelcomeEach(f) == IF ~Greets THEN f ELSE Append(f, "greeting")
Welcome(f) ==
  IF ~Greets THEN f
  ELSE IF due.first = "greeting" THEN <<"greeting">> \o Tail(f)
  ELSE <<"greeting">>

\* What brought the user back from the consent, or a connection that works again.
News ==
  IF "error" \in returned THEN <<"refused">>
  ELSE IF returned # {} THEN <<"connected">>
  ELSE IF due.health = "ok" /\ before = "lost" THEN <<"connected">>
  ELSE <<>>

\* A bug: a preflight under way does not keep off the next one.
MayPreflightAlways == TRUE
MayPreflight == preflight = "none"

\* A greeting with something triaged behind it synchronises.
Preflights == Greets /\ due.health = "ok" /\ triaged /\ MayPreflight

EffectsRun ==
  /\ due # NoEffect
  /\ feed' = Welcome(feed) \o News
  /\ preflight' = IF Preflights THEN "health"
                  ELSE IF preflight = "rendering" THEN "working" ELSE preflight
  /\ returned' = IF "error" \in returned THEN returned \ {"error"} ELSE {}
  /\ before' = due.health
  /\ due' = NoEffect
  /\ UNCHANGED <<rest, checked, health, beat>>

\* triggerSync asks for the health first ...
PreflightKnows ==
  /\ preflight = "health"
  /\ \/ preflight' = "working" /\ UNCHANGED <<health, due, answers>>
     \/ preflight' = "rendering" /\ \E h \in {"lost", "ok"} : Told(h)
  /\ UNCHANGED <<gate, checked, before, feed, triaged, beat, returned, said>>

\* ... and whatever comes of the rest, the preflight ends with it: after further requests,
\* which take longer than the effects of what it heard do. (A synchronisation that is under
\* way already lets it end at once, without asking.)
PreflightEnds ==
  /\ preflight \in {"health", "working"}
  /\ preflight' = "none"
  /\ UNCHANGED <<rest, checked, health, before, feed, due, beat, returned>>

-----------------------------------------------------------------------------
Works == EffectsRun \/ PreflightKnows \/ PreflightEnds

Next ==
  \/ OnboardingAnswers \/ GateTimesOut
  \/ HealthAnswers \/ HeartbeatAsks \/ HeartbeatAnswers
  \/ CountsCome \/ SaysSomething
  \/ Works

\* Effects run and requests end, by answer or timeout. The browser's timer fires once the
\* effects of a rendering have run, however many renderings follow it.
Fairness ==
  /\ SF_vars(GateTimesOut \/ OnboardingAnswers)
  /\ WF_vars(EffectsRun) /\ WF_vars(PreflightEnds) /\ WF_vars(HeartbeatAnswers)

Spec == Init /\ [][Next]_vars /\ Fairness

-----------------------------------------------------------------------------
TypeOK ==
  /\ gate \in {"asking", "complete", "incomplete", "failed"}
  /\ checked \in BOOLEAN /\ triaged \in BOOLEAN
  /\ health \in {"unknown", "lost", "ok"} /\ before \in {"unknown", "lost", "ok"}
  /\ feed \in Seq(Kinds)
  /\ due.run \in BOOLEAN
  /\ preflight \in {"none", "health", "rendering", "working"}
  /\ beat \in {"none", "lost", "ok"}
  /\ returned \subseteq Returns
  /\ answers \in 0..MaxAnswers /\ said \in 0..MaxSaid

\* However often the health of the connection is told anew, and whatever is said before
\* the effects of a rendering run, the chat greets once, and first.
OneGreeting == \A n \in 2..Len(feed) : feed[n] # "greeting"

\* The page opens, whether or not the onboarding status comes.
PageOpens == <>[]checked

\* Every synchronisation of the page ends.
SyncsEnd == []<>(preflight = "none")

\* The greeting does not keep the page synchronising by itself: a synchronisation asks for
\* the health, a new health greets anew and a greeting synchronises, but without heartbeats
\* that ends. (Heartbeats never end: as long as the mail is reachable, and something is
\* triaged, each of them sets off another synchronisation.)
SettlesAlone == <>[](beat = "none") => <>[](preflight = "none")
=============================================================================
