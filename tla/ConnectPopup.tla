---------------------------- MODULE ConnectPopup ----------------------------
(***************************************************************************)
(* Connecting an account from the onboarding wizard (OnboardingWizard.tsx) *)
(* through a popup in which the provider, the API and the callback page    *)
(* (OAuthCallbackClient.tsx) follow each other. The wizard waits for a     *)
(* message of the popup, for its closing, or for two minutes; whichever    *)
(* comes first cleans up. Nothing else is shared but the accounts.         *)
(***************************************************************************)
EXTENDS Integers, FiniteSets

CONSTANTS
  MaxConnects,  \* bound: clicks on a provider
  MaxMounts     \* bound: openings of the wizard

VARIABLES
  mounts,     \* openings of the wizard so far
  mounted,
  page,       \* the page of the wizard
  saving,     \* the requests that complete the setup
  setup,      \* whether the server has completed it
  step,       \* where handleConnect is; connectingProvider is set unless "none", and of a
              \* call that has returned without clearing it ("stuck")
  popup,      \* what the popup shows
  message,    \* oauth_complete messages that the wizard has not received
  listing,    \* lists of accounts being fetched
  accounts,   \* whether the wizard shows an account with email access
  linked,     \* whether the server has one
  connects

wizard == <<page, saving, setup>>
vars == <<mounts, mounted, wizard, step, popup, message, listing, accounts, linked, connects>>

Popups == {"none", "provider", "callback", "succeeded", "failed", "closed"}

Init ==
  /\ mounts = 1
  /\ mounted = TRUE
  /\ page = 1 /\ saving = 0 /\ setup = FALSE
  /\ step = "none"
  /\ popup = "none"
  /\ message = 0
  /\ listing = 1
  /\ accounts = FALSE
  /\ linked = FALSE
  /\ connects = 0

-----------------------------------------------------------------------------
(* The wizard                                                              *)

NextPage ==
  /\ mounted /\ page < 4
  /\ page' = page + 1
  /\ UNCHANGED <<mounts, mounted, saving, setup, step, popup, message, listing, accounts, linked, connects>>

BackPage ==
  /\ mounted /\ page > 1
  /\ page' = page - 1
  /\ UNCHANGED <<mounts, mounted, saving, setup, step, popup, message, listing, accounts, linked, connects>>

\* The button asks for an account in the list; another page is no reason to wait.
CanComplete == accounts

Complete ==
  /\ mounted /\ page = 4 /\ saving = 0 /\ CanComplete
  /\ saving' = 1
  /\ UNCHANGED <<mounts, mounted, page, setup, step, popup, message, listing, accounts, linked, connects>>

\* What the wizard that goes leaves of a connection: a request for an address.
Left == IF step = "asking" THEN step ELSE "none"

\* POST /onboarding/complete. The overlay closes, whichever opening of it asked; after an
\* error the button is there again.
CompleteAnswers ==
  /\ saving > 0 /\ saving' = 0
  /\ setup' = TRUE
  /\ mounted' = FALSE
  /\ step' = Left
  /\ UNCHANGED <<mounts, page, popup, message, listing, accounts, linked, connects>>

CompleteFails ==
  /\ saving > 0 /\ saving' = 0
  /\ setup' \in {setup, TRUE}  \* the answer may be what is lost
  /\ UNCHANGED <<mounts, mounted, page, step, popup, message, listing, accounts, linked, connects>>

\* listAccounts answers an empty list when it fails, which replaces the one shown.
AccountsListed ==
  /\ listing > 0
  /\ listing' = listing - 1
  /\ accounts' \in IF mounted THEN {linked, FALSE} ELSE {accounts}
  /\ UNCHANGED <<mounts, mounted, wizard, step, popup, message, linked, connects>>

HandleConnect ==
  /\ mounted /\ page = 4
  /\ step = "none"
  /\ connects < MaxConnects
  /\ connects' = connects + 1
  /\ step' = "asking"
  /\ UNCHANGED <<mounts, mounted, wizard, popup, message, listing, accounts, linked>>

\* The window is called "oauth": a popup that is open is taken again.
AuthUrlAnswers ==
  /\ step = "asking"
  /\ popup' = "provider"
  /\ step' = "waiting"
  /\ UNCHANGED <<mounts, mounted, wizard, message, listing, accounts, linked, connects>>

\* An answer without an address, which neither server gives, leaves the provider set.
AuthUrlIsMissing ==
  /\ step = "asking"
  /\ step' = IF mounted THEN "stuck" ELSE "none"
  /\ UNCHANGED <<mounts, mounted, wizard, popup, message, listing, accounts, linked, connects>>

\* An error, or the browser refuses the popup.
ConnectFails ==
  /\ step = "asking"
  /\ step' = "none"
  /\ UNCHANGED <<mounts, mounted, wizard, popup, message, listing, accounts, linked, connects>>

\* cleanup(): timers and listener go, and the user may connect again.
Cleanup == step' = "none"

CheckMessage ==
  /\ message > 0
  /\ message' = message - 1
  /\ IF step = "waiting"
     THEN Cleanup /\ listing' = listing + 1
     ELSE UNCHANGED <<step, listing>>
  /\ UNCHANGED <<mounts, mounted, wizard, popup, accounts, linked, connects>>

\* setInterval, every second
SeesClosed ==
  /\ step = "waiting"
  /\ popup = "closed"
  /\ Cleanup
  /\ UNCHANGED <<mounts, mounted, wizard, popup, message, listing, accounts, linked, connects>>

\* A timer that leaves an open popup alone.
TimesOutClosed ==
  /\ step = "waiting"
  /\ popup = "closed"
  /\ Cleanup
  /\ UNCHANGED <<mounts, mounted, wizard, popup, message, listing, accounts, linked, connects>>

\* setTimeout, two minutes
TimesOut ==
  /\ step = "waiting"
  /\ popup' = "closed"
  /\ Cleanup
  /\ UNCHANGED <<mounts, mounted, wizard, message, listing, accounts, linked, connects>>

\* cleanupRef; the cleanup of a call that still awaits its URL does not exist yet.
Unmount ==
  /\ mounted
  /\ mounted' = FALSE
  /\ step' = Left
  /\ UNCHANGED <<mounts, wizard, popup, message, listing, accounts, linked, connects>>

Mount ==
  /\ ~mounted
  /\ step = "none" /\ saving = 0  \* bound: calls that outlive the wizard end before it opens again
  /\ mounts < MaxMounts
  /\ mounts' = mounts + 1
  /\ mounted' = TRUE
  /\ page' = 1 /\ saving' = 0
  /\ accounts' = FALSE
  /\ listing' = listing + 1
  /\ UNCHANGED <<setup, step, popup, message, linked, connects>>

-----------------------------------------------------------------------------
(* The popup                                                               *)

\* The API takes the provider's code and sends the popup to the callback page with
\* success=true or an error; or the code itself comes to the page.
ApiLinks ==
  /\ popup = "provider"
  /\ popup' = "succeeded"
  /\ linked' = TRUE
  /\ UNCHANGED <<mounts, mounted, wizard, step, message, listing, accounts, connects>>

ApiRefuses ==
  /\ popup = "provider"
  /\ popup' = "failed"
  /\ message' = message + 1
  /\ UNCHANGED <<mounts, mounted, wizard, step, listing, accounts, linked, connects>>

CodeComes ==
  /\ popup = "provider"
  /\ popup' = "callback"
  /\ UNCHANGED <<mounts, mounted, wizard, step, message, listing, accounts, linked, connects>>

\* handleCallback compares the state with oauth_state of sessionStorage, which only
\* connect() sets, and the wizard does not call it: the page reports a failure.
CallbackRefuses ==
  /\ popup = "callback"
  /\ popup' = "failed"
  /\ message' = message + 1
  /\ UNCHANGED <<mounts, mounted, wizard, step, listing, accounts, linked, connects>>

\* The page of a success closes itself, without a message; any page, when the user does.
PopupCloses ==
  /\ popup \notin {"none", "closed"}
  /\ popup' = "closed"
  /\ UNCHANGED <<mounts, mounted, wizard, step, message, listing, accounts, linked, connects>>

-----------------------------------------------------------------------------
AuthUrlEnds == AuthUrlAnswers \/ AuthUrlIsMissing \/ ConnectFails

Next ==
  \/ NextPage \/ BackPage \/ Complete \/ CompleteAnswers \/ CompleteFails
  \/ AccountsListed \/ HandleConnect \/ AuthUrlEnds \/ CheckMessage
  \/ SeesClosed \/ TimesOut \/ Unmount \/ Mount
  \/ ApiLinks \/ ApiRefuses \/ CodeComes \/ CallbackRefuses \/ PopupCloses

\* Requests of the page end and its timers fire; nobody has to do anything in the popup.
Fairness ==
  /\ WF_vars(AuthUrlEnds)
  /\ WF_vars(SeesClosed)
  /\ WF_vars(TimesOut)

Spec == Init /\ [][Next]_vars /\ Fairness

-----------------------------------------------------------------------------
TypeOK ==
  /\ mounts \in 1..MaxMounts
  /\ mounted \in BOOLEAN
  /\ page \in 1..4 /\ saving \in 0..1 /\ setup \in BOOLEAN
  /\ step \in {"none", "asking", "waiting", "stuck"}
  /\ popup \in Popups
  /\ message \in Nat
  /\ listing \in Nat
  /\ accounts \in BOOLEAN
  /\ linked \in BOOLEAN
  /\ connects \in 0..MaxConnects

\* However the popup ends, if it ends (linked, refused, closed, left open and forgotten),
\* the wizard lets the user connect again. Only an answer without an address keeps its
\* buttons from the user, until the wizard is closed.
ConnectEnds == []<>(step = "none") \/ <>[](step = "stuck" /\ mounted)
=============================================================================
