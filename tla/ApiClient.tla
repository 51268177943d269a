----------------------------- MODULE ApiClient -----------------------------
(***************************************************************************)
(* What becomes of a call of the page to the API (lib/aaliyah/api.ts). The *)
(* interceptors of its axios instances put a fresh token on a request and  *)
(* repeat one that the gateway failed, by way of axios itself, which has   *)
(* no interceptors. A write that is repeated may have been done before.    *)
(***************************************************************************)
EXTENDS Integers

CONSTANT MaxCalls  \* bound: calls of the page, one after the other

VARIABLES
  call,       \* the call under way
  acted,      \* how often the server has done what the last call asked for
  failures,   \* how attempts of that call have failed at the gateway
  authError,  \* the overlay that tells of an expired session
  calls

vars == <<call, acted, failures, authError, calls>>

\* The calls that read, and those that change something: of the chat, ...
AssistantCalls ==
  [reads  |-> {"getChatMessages", "getThreadDetails", "getEventDetails", "getEventPrep", "getStatus"},
   writes |-> {"sendChat"}]
OnboardingCalls ==
  [reads  |-> {"getOnboardingStatus", "getStats"},
   writes |-> {"completeOnboarding", "runPreflight", "triggerHistoricalSync"}]
InboxCalls ==
  [reads  |-> {"getCounts", "getThreads", "getThreadItem", "getInbox"}, writes |-> {"syncInbox"}]
CalendarCalls ==
  [reads  |-> {"getCalendarConflicts", "getUpcomingMeetings"}, writes |-> {"syncCalendar"}]
LiveCalls == [reads |-> {"getLiveToken"}, writes |-> {}]
LabelCalls ==
  [reads  |-> {"getLabelingPreferences"},
   writes |-> {"updateLabelingPreferences", "setLabelingOverride", "undoLabelingAction"}]
DraftCalls == [reads |-> {}, writes |-> {"sendDraft", "archiveEmail", "updateDraft"}]
SettingsCalls == [reads |-> {"getAaliyahSettings"}, writes |-> {"updateAaliyahSettings"}]
TemplateCalls == [reads |-> {"getTemplates"}, writes |-> {"createTemplate", "deleteTemplate"}]
SyncCalls ==
  [reads  |-> {"getActions", "getDebugSnapshot", "getSyncStatus"}, writes |-> {"triggerInitialSync"}]
ComposeCalls == [reads |-> {}, writes |-> {"composeEmail"}]

\* ... and of a visitor who books a time: their instance has no interceptors.
PublicCalls == [reads |-> {"getBookingLink"}, writes |-> {"confirmBooking"}]

Intercepted ==
  {AssistantCalls, OnboardingCalls, InboxCalls, CalendarCalls, LiveCalls, LabelCalls, DraftCalls,
   SettingsCalls, TemplateCalls, SyncCalls, ComposeCalls}
Groups == Intercepted \union {PublicCalls}
Endpoints == UNION {g.reads \union g.writes : g \in Groups}
Writes == UNION {g.writes : g \in Groups}
Public == PublicCalls.reads \union PublicCalls.writes

Idle == [pc |-> "idle"]
MaxRetries == 3

Init ==
  /\ call = Idle
  /\ acted = 0
  /\ failures = {}
  /\ authError = FALSE
  /\ calls = 0

-----------------------------------------------------------------------------
Ask ==
  /\ call = Idle /\ calls < MaxCalls /\ calls' = calls + 1
  /\ \E e \in Endpoints :
       call' = [pc |-> IF e \in Public THEN "sent" ELSE "token", endpoint |-> e, retries |-> 0,
                done |-> FALSE, aborted |-> FALSE]
  /\ acted' = 0 /\ failures' = {}
  /\ UNCHANGED authError

\* A request that has been aborted is not sent.
Sends == call' = IF call.aborted THEN Idle ELSE [call EXCEPT !.pc = "sent", !.done = FALSE]

\* The token of the session, or one of local storage, or none: Clerk's failure is caught.
WithAuth ==
  /\ call.pc = "token"
  /\ Sends
  /\ UNCHANGED <<acted, failures, authError, calls>>

\* The caller's signal ends a request, but neither the wait for a token nor a delay.
Abort ==
  /\ call # Idle /\ ~call.aborted
  /\ call' = IF call.pc = "sent" THEN Idle ELSE [call EXCEPT !.aborted = TRUE]
  /\ UNCHANGED <<acted, failures, authError, calls>>

\* As long as a request is under way, the server may do what it asks for.
Acts ==
  /\ call.pc = "sent" /\ ~call.done /\ call.endpoint \in Writes
  /\ call' = [call EXCEPT !.done = TRUE]
  /\ acted' = acted + 1
  /\ UNCHANGED <<failures, authError, calls>>

-----------------------------------------------------------------------------
(* How a request ends.                                                      *)

\* The attempt of an instance passes its interceptors, the attempt of axios itself none.
\* A bug: attempts that are repeated are of the instance as well.
InterceptsAll == call.endpoint \notin Public
Intercepts == call.endpoint \notin Public /\ call.retries = 0

\* It is answered: with what was asked for, or with an error (toApiError). Or it meets
\* none, on a broken connection or after a minute.
Answers ==
  /\ call.pc = "sent"
  /\ call' = Idle
  /\ UNCHANGED <<acted, failures, authError, calls>>

HandleUnauthorized ==
  /\ call.pc = "sent" /\ ~call.done
  /\ call' = Idle
  /\ authError' = (authError \/ Intercepts)
  /\ UNCHANGED <<acted, failures, calls>>

\* 429 and 503 refuse a request; 502 and 504 are the gateway's, and the server may have
\* done what was asked for.
HandleResponseError ==
  /\ call.pc = "sent"
  /\ \E f \in {"busy", "lost"} :
       /\ call.done => f = "lost"
       /\ failures' = failures \union {f}
  /\ call' = IF Intercepts /\ call.retries < MaxRetries
             THEN [call EXCEPT !.pc = "delay", !.retries = @ + 1]
             ELSE Idle
  /\ UNCHANGED <<acted, authError, calls>>

\* axios(config), with the headers of the first attempt
Retry ==
  /\ call.pc = "delay"
  /\ Sends
  /\ UNCHANGED <<acted, failures, authError, calls>>

Dismiss ==
  /\ authError
  /\ authError' = FALSE
  /\ UNCHANGED <<call, acted, failures, calls>>

-----------------------------------------------------------------------------
Ending == Answers \/ HandleUnauthorized \/ HandleResponseError

Next == Ask \/ WithAuth \/ Abort \/ Acts \/ Ending \/ Retry \/ Dismiss

\* Clerk answers or fails, timers fire, and a request ends after a minute at the latest.
Fairness == WF_vars(WithAuth) /\ WF_vars(Ending) /\ WF_vars(Retry)

Spec == Init /\ [][Next]_vars /\ Fairness

-----------------------------------------------------------------------------
TypeOK ==
  /\ call = Idle \/ /\ call.pc \in {"token", "sent", "delay"}
                    /\ call.endpoint \in Endpoints
                    /\ call.retries \in 0..MaxRetries
                    /\ call.done \in BOOLEAN /\ call.aborted \in BOOLEAN
  /\ acted \in 0..MaxRetries + 1
  /\ failures \subseteq {"busy", "lost"}
  /\ authError \in BOOLEAN
  /\ calls \in 0..MaxCalls

\* The server does what a call asks for once, or twice when the gateway lost the answer to
\* the first attempt, and never more often; a booking is never repeated.
RepeatsAreEarned ==
  /\ acted > 1 => acted = 2 /\ "lost" \in failures
  /\ call # Idle /\ call.endpoint \in Public => acted <= 1 /\ call.retries = 0

\* Every call ends for its caller, repeated, aborted or not.
EveryCallEnds == []<>(call = Idle)
=============================================================================
