--------------------------- MODULE BackgroundWork ---------------------------
(***************************************************************************)
(* What apps/api does away from a request of the page: the ingestion of    *)
(* mail (MailSync) and the workflows of the agents (AgentWorkflows). The   *)
(* two share no state, so a behaviour is about one of them.                *)
(***************************************************************************)
EXTENDS MailSync, Sequences

CONSTANTS Requests, Outreaches, AgentLists, MaxRestarts  \* AgentWorkflows

ASSUME RunsAssumption == Requests \intersect Outreaches = {}
ASSUME RestartsAssumption == MaxRestarts \in Nat

\* A list names agents, and the origin of an outreach is no name of a request by chance.
ASSUME ListsAssumption == AgentLists \subseteq Seq(STRING)
ASSUME OriginsAssumption == {"none", "caller"} \intersect Requests = {}

VARIABLES
  service,  \* bound: the part that the behaviour is about
  worker, registering, deaths, registered, state, done, busy, context, intent, calling,
  workflowIds, output, origin, briefed, memory, restarts, unheard

Agent == INSTANCE AgentWorkflows WITH todo <- calling

agents ==
  <<worker, registering, deaths, registered, state, done, busy, context, intent, calling,
    workflowIds, output, origin, briefed, memory, restarts, unheard>>
work == <<service, vars, agents>>

WorkInit == service \in {"mail", "agents"} /\ Init /\ Agent!Init

MailStep(action) == service = "mail" /\ action /\ UNCHANGED <<service, agents>>

AgentStep(action) == service = "agents" /\ action /\ UNCHANGED <<service, vars>>

WorkNext == MailStep(Next) \/ AgentStep(Agent!Next)

\* The fairness of the ingestion. Nothing is assumed of the engine, the worker or the model.
WorkFairness ==
  /\ \A s \in JobSyncs : WF_work(MailStep(Ingest(s) \/ Store(s)))
  /\ \A s \in InboxSyncs : WF_work(MailStep(pc[s] # "idle" /\ (Ingest(s) \/ Store(s))))
  /\ \A m \in Messages : WF_work(MailStep(Triage(m)))

WorkSpec == WorkInit /\ [][WorkNext]_work /\ WorkFairness

-----------------------------------------------------------------------------
\* The work that the agents do for a request is the work that was decided on, and the
\* user is told of it.
WorkIsEarned == Agent!WorkIsEarned
=============================================================================
