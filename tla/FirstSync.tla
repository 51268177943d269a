----------------------------- MODULE FirstSync -----------------------------
(***************************************************************************)
(* The first synchronisation of the page's store (lib/aaliyah/store.ts):   *)
(* triggerInitialSync asks the server to begin and then polls it. Each     *)
(* call has its own polls, all write the one syncProgress, and the user    *)
(* may dismiss it meanwhile.                                               *)
(***************************************************************************)
EXTENDS Integers

CONSTANTS
  Triggers,  \* bound: calls of triggerInitialSync
  MaxPolls   \* MAX_POLLS, 40 in the code

VARIABLES
  phase,     \* syncProgress.phase
  trigger,   \* the calls of triggerInitialSync, with their poll timers
  remote     \* which of the services the server says are synchronised

vars == <<phase, trigger, remote>>

Services == {"inbox", "calendar"}
Phases == {"idle", "queued", "syncing", "partial", "done"}

Init ==
  /\ phase = "idle"
  /\ trigger = [g \in Triggers |-> [pc |-> "none", attempts |-> 0]]
  /\ remote = {}

-----------------------------------------------------------------------------
TriggerInitialSync(g) ==
  /\ trigger[g].pc = "none"
  /\ trigger' = [trigger EXCEPT ![g].pc = "posting"]
  /\ phase' = "queued"
  /\ UNCHANGED remote

Triggered(g) ==
  /\ trigger[g].pc = "posting"
  /\ \/ /\ trigger' = [trigger EXCEPT ![g].pc = "timer"]
        /\ phase' = "syncing"
     \/ /\ trigger' = [trigger EXCEPT ![g].pc = "over"]
        /\ phase' = "done"
  /\ UNCHANGED remote

\* attempts++
CountedNever(attempts) == attempts
Counted(attempts) == attempts + 1

PollTimer(g) ==
  /\ trigger[g].pc = "timer"
  /\ IF trigger[g].attempts > MaxPolls
     THEN /\ trigger' = [trigger EXCEPT ![g].pc = "over"]
          /\ phase' = "done"
     ELSE /\ trigger' = [trigger EXCEPT ![g].pc = "polling", ![g].attempts = Counted(@)]
          /\ UNCHANGED phase
  /\ UNCHANGED remote

PhaseOf(done) ==
  IF done = Services THEN "done" ELSE IF done # {} THEN "partial" ELSE "syncing"

\* With items in the inbox the status and the list are fetched again (InboxLists).
PollAnswers(g) ==
  /\ trigger[g].pc = "polling"
  /\ phase' = PhaseOf(remote)
  /\ trigger' = [trigger EXCEPT ![g].pc = IF remote = Services THEN "over" ELSE "timer"]
  /\ UNCHANGED remote

PollFails(g) ==
  /\ trigger[g].pc = "polling"
  /\ trigger' = [trigger EXCEPT ![g].pc = "timer"]
  /\ UNCHANGED <<phase, remote>>

\* The timers go on, and the next answer writes over it.
DismissSyncProgress ==
  /\ phase' = "idle"
  /\ UNCHANGED <<trigger, remote>>

\* The server's work: a service is done, or starts anew.
ServerSyncs ==
  /\ \E s \in Services : remote' = (remote \ {s}) \union ({s} \ remote)
  /\ \E g \in Triggers : trigger[g].pc \in {"timer", "polling"}
  /\ UNCHANGED <<phase, trigger>>

-----------------------------------------------------------------------------
Work(g) == Triggered(g) \/ PollTimer(g) \/ PollAnswers(g) \/ PollFails(g)

Next ==
  \/ \E g \in Triggers : TriggerInitialSync(g) \/ Work(g)
  \/ DismissSyncProgress \/ ServerSyncs

\* Requests of the page end, by their answer or their timeout, and timers fire.
Fairness == \A g \in Triggers : WF_vars(Work(g))

Spec == Init /\ [][Next]_vars /\ Fairness

-----------------------------------------------------------------------------
TypeOK ==
  /\ phase \in Phases
  /\ trigger \in [Triggers -> [pc : {"none", "posting", "timer", "polling", "over"},
                              attempts : 0..(MaxPolls + 1)]]
  /\ remote \subseteq Services

\* The progress of a first synchronisation comes to an end on the screen, whatever
\* becomes of the server's work, of the polls, or of a second trigger whose timers
\* write over the first one's phase.
ProgressEnds == []<>(phase \in {"idle", "done"})
=============================================================================
