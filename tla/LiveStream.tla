----------------------------- MODULE LiveStream -----------------------------
(***************************************************************************)
(* The live event stream of a page (hooks/useFeedSSE.ts): one hook that    *)
(* connects, reads, and connects again after an end, an error, a silence   *)
(* or a return of the network. A run of connect() awaits its token, then   *)
(* the stream library, then the stream; the page's variables controller,   *)
(* retryTimer and watchdogTimer are shared by all the runs. Delays are not *)
(* modelled, only which timers are set; what the server replays after      *)
(* Last-Event-ID is the server's.                                          *)
(***************************************************************************)
EXTENDS Integers, FiniteSets

CONSTANTS
  Calls,      \* bound: runs of connect() at one time
  NoCall,
  MaxOnline   \* bound: "online" events of the window

VARIABLES
  mounted,    \* alive
  stage,      \* where each run of connect() is
  controller, \* the run whose AbortController the page holds
  retries,    \* retry timers that are set
  watchdog,   \* whether watchdogTimer is set
  offline,    \* isLiveOffline in the store
  onlines     \* "online" events so far

vars == <<mounted, stage, controller, retries, watchdog, offline, onlines>>

\* asking: no answer yet; silent: the connection is dead and nobody was told;
\* closed and failed: the promise is settled and its continuation is due.
Stages == {"none", "token", "library", "asking", "live", "silent", "closed", "failed"}

Init ==
  /\ mounted = TRUE
  /\ stage = [c \in Calls |-> IF c = CHOOSE x \in Calls : TRUE THEN "token" ELSE "none"]
  /\ controller = NoCall
  /\ retries = 0
  /\ watchdog = FALSE
  /\ offline = FALSE
  /\ onlines = 0

-----------------------------------------------------------------------------
\* Timers and events wait for the continuations that are due.
Settled == \A c \in Calls : stage[c] \notin {"closed", "failed"}

\* The library resolves the promise of a stream that the page aborts.
Aborted == [c \in Calls |->
  IF c = controller /\ stage[c] \in {"asking", "live", "silent"} THEN "closed" ELSE stage[c]]

Free == {c \in Calls : stage[c] = "none"}

Connect ==
  /\ Free # {}
  /\ stage' = [Aborted EXCEPT ![CHOOSE c \in Free : TRUE] = "token"]
  /\ watchdog' = FALSE
  /\ UNCHANGED <<mounted, controller>>

\* setTimeout after clearTimeout: what retries is once the timer is set.
RearmedTwice == retries + 1
Rearmed == 1

ScheduleRetry == retries' = Rearmed /\ watchdog' = FALSE

-----------------------------------------------------------------------------
(* The steps of connect()                                                  *)

TokenAnswers(c) ==
  /\ stage[c] = "token"
  /\ stage' = [stage EXCEPT ![c] = IF mounted THEN "library" ELSE "none"]
  /\ UNCHANGED <<mounted, controller, retries, watchdog, offline, onlines>>

TokenFails(c) ==
  /\ stage[c] \in {"token", "library"}
  /\ stage' = [stage EXCEPT ![c] = "failed"]
  /\ UNCHANGED <<mounted, controller, retries, watchdog, offline, onlines>>

LibraryLoadsUnwatched(c) ==
  /\ stage[c] = "library"
  /\ stage' = [stage EXCEPT ![c] = "asking"]
  /\ controller' = c
  /\ UNCHANGED <<mounted, retries, watchdog, offline, onlines>>

\* Nothing looks again whether the page is still there.
LibraryLoads(c) ==
  /\ stage[c] = "library"
  /\ stage' = [stage EXCEPT ![c] = "asking"]
  /\ controller' = c
  /\ watchdog' = TRUE
  /\ UNCHANGED <<mounted, retries, offline, onlines>>

Opens(c) ==
  /\ stage[c] = "asking"
  /\ stage' = [stage EXCEPT ![c] = "live"]
  /\ offline' = FALSE
  /\ watchdog' = TRUE
  /\ UNCHANGED <<mounted, controller, retries, onlines>>

\* A 4xx, which throws; the overlay after a 401 is left out.
Refused(c) ==
  /\ stage[c] = "asking"
  /\ stage' = [stage EXCEPT ![c] = "failed"]
  /\ offline' = TRUE
  /\ UNCHANGED <<mounted, controller, retries, watchdog, onlines>>

\* The body ends: of a stream, or of a 429 or 5xx, which nothing looks at.
ServerCloses(c) ==
  /\ stage[c] \in {"asking", "live"}
  /\ stage' = [stage EXCEPT ![c] = "closed"]
  /\ UNCHANGED <<mounted, controller, retries, watchdog, offline, onlines>>

NetworkFails(c) ==
  /\ stage[c] \in {"asking", "live"}
  /\ stage' = [stage EXCEPT ![c] = "failed"]
  /\ offline' = TRUE
  /\ UNCHANGED <<mounted, controller, retries, watchdog, onlines>>

GoesSilent(c) ==
  /\ stage[c] \in {"asking", "live"}
  /\ stage' = [stage EXCEPT ![c] = "silent"]
  /\ UNCHANGED <<mounted, controller, retries, watchdog, offline, onlines>>

\* A message or the server's ping.
Message(c) ==
  /\ stage[c] = "live"
  /\ watchdog' = TRUE
  /\ UNCHANGED <<mounted, stage, controller, retries, offline, onlines>>

\* What follows the await, or the catch.
AfterStream(c) ==
  /\ stage[c] \in {"closed", "failed"}
  /\ stage' = [stage EXCEPT ![c] = "none"]
  /\ IF mounted
     THEN /\ offline' = (offline \/ stage[c] = "failed")
          /\ ScheduleRetry
     ELSE UNCHANGED <<offline, retries, watchdog>>
  /\ UNCHANGED <<mounted, controller, onlines>>

-----------------------------------------------------------------------------
(* Timers and events of the page                                           *)

RetryFires ==
  /\ Settled
  /\ retries > 0
  /\ mounted
  /\ Connect
  /\ retries' = retries - 1
  /\ UNCHANGED <<offline, onlines>>

\* 45 s without a message; the server pings every 20 s.
WatchdogFires ==
  /\ Settled
  /\ watchdog
  /\ mounted
  /\ \A c \in Calls : stage[c] # "live"
  /\ stage' = Aborted
  /\ offline' = TRUE
  /\ ScheduleRetry
  /\ UNCHANGED <<mounted, controller, onlines>>

\* handleOnline leaves a retry timer that is set alone.
Online ==
  /\ Settled
  /\ mounted
  /\ onlines < MaxOnline
  /\ onlines' = onlines + 1
  /\ Connect
  /\ UNCHANGED <<retries, offline>>

Unmount ==
  /\ Settled
  /\ mounted
  /\ mounted' = FALSE
  /\ retries' = 0
  /\ watchdog' = FALSE
  /\ stage' = Aborted
  /\ UNCHANGED <<controller, offline, onlines>>

-----------------------------------------------------------------------------
Next ==
  \/ \E c \in Calls :
       \/ TokenAnswers(c) \/ TokenFails(c) \/ LibraryLoads(c) \/ AfterStream(c)
       \/ Opens(c) \/ Refused(c) \/ ServerCloses(c) \/ NetworkFails(c)
       \/ GoesSilent(c) \/ Message(c)
  \/ RetryFires \/ WatchdogFires \/ Online \/ Unmount

TokenAnswersSome == \E c \in Calls : TokenAnswers(c)
LibraryLoadsSome == \E c \in Calls : LibraryLoads(c)
OpensSome == \E c \in Calls : Opens(c)
Continues == \E c \in Calls : AfterStream(c)

\* Timers and continuations run; a server that is asked for ever answers well in the end.
Fairness ==
  /\ WF_vars(RetryFires)
  /\ WF_vars(WatchdogFires)
  /\ WF_vars(Continues)
  /\ SF_vars(TokenAnswersSome)
  /\ SF_vars(LibraryLoadsSome)
  /\ SF_vars(OpensSome)

Spec == Init /\ [][Next]_vars /\ Fairness

-----------------------------------------------------------------------------
TypeOK ==
  /\ mounted \in BOOLEAN
  /\ stage \in [Calls -> Stages]
  /\ controller \in Calls \union {NoCall}
  /\ retries \in Nat
  /\ watchdog \in BOOLEAN
  /\ offline \in BOOLEAN
  /\ onlines \in 0..MaxOnline

\* However a stream ends (closed, refused, broken, silent), a page that stays mounted
\* has a live one again.
StreamComesBack == []<>(~mounted \/ \E c \in Calls : stage[c] = "live")

\* As long as the window was never told of a return of the network, the page itself
\* never ends a live stream: neither a timer left over from an earlier failure
\* nor a second run of connect() cuts it. (After an "online" event it does, again and again:
\* the end of the stream it aborts counts as one to recover from.)
KeepsHealthyStream ==
  [][\A c \in Calls : stage[c] = "live" /\ stage'[c] = "closed" =>
       ServerCloses(c) \/ ~mounted' \/ onlines > 0 \/ onlines' > 0]_vars
=============================================================================
