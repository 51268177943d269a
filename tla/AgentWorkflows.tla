--------------------------- MODULE AgentWorkflows ---------------------------
(***************************************************************************)
(* The durable workflows of apps/api/src: the router of a user's requests  *)
(* (workflows/chief-router.ts), the sales agent that it may delegate to    *)
(* (workflows/agents/rico-sales.ts) and the process that registers both    *)
(* (workers/main.ts).                                                      *)
(*                                                                         *)
(* The workflow engine is external. It hands a step to the worker when the *)
(* step's parents have succeeded, fails the run when a step throws or      *)
(* exceeds its time limit (no step asks for retries), and hands out anew   *)
(* the step that a worker was in when it died. What it cannot do is stop   *)
(* the function of a step: past its time limit the function goes on, and   *)
(* with it what it still starts, though nobody awaits its return.          *)
(***************************************************************************)
EXTENDS Naturals, Sequences, FiniteSets

CONSTANTS
  Requests,     \* runs of the router, one per message of a user
  Outreaches,   \* runs of the sales agent
  AgentLists,   \* lists of agents that classifyIntent may delegate to
  MaxRestarts   \* bound: deaths of the worker; a caller asks for one outreach of its own

VARIABLES
  \* the process of workers/main.ts: the workflows that it has yet to register, its deaths
  worker, registering, deaths,
  \* the engine: workflows it knows, and of each run its state, the steps that have
  \* succeeded and the step whose function is running ("" for none)
  registered, state, done, busy,
  \* the router: whether anything was recalled, what was decided, the agents yet to call, the runs started, what it returned
  context, intent, todo, workflowIds, output,
  \* an outreach: who started it (a request, or a caller of its own), and whether it was
  \* given what was recalled
  origin, briefed,
  memory,    \* interactions that Mem0 keeps of each request
  restarts,  \* history: how often the action of a request was begun anew
  unheard    \* history: outreaches that started though the router's call of the engine threw

process == <<worker, registering, deaths>>
engine == <<registered, state, done, busy>>
router == <<context, intent, todo, workflowIds, output>>
calls == <<origin, briefed>>
history == <<restarts, unheard>>
vars == <<process, engine, router, calls, memory, history>>

Runs == Requests \union Outreaches

Workflow(i) == IF i \in Requests THEN "chief-router" ELSE "rico-workflow"
Workflows == {"chief-router", "rico-workflow"}

\* Only the sales agent has a workflow: `${agent}-workflow` names no other.
HasWorkflow(agent) == agent = "rico"

RouterParents ==
  [step \in {"recall-context", "classify-intent", "execute-action"} |->
     CASE step = "recall-context"  -> {}
       [] step = "classify-intent" -> {"recall-context"}
       [] step = "execute-action"  -> {"classify-intent"}]

RicoParents ==
  [step \in {"research-lead", "draft-outreach", "save-to-crm", "format-response"} |->
     CASE step = "research-lead"   -> {}
       [] step = "draft-outreach"  -> {"research-lead"}
       [] step = "save-to-crm"     -> {"draft-outreach"}
       [] step = "format-response" -> {"draft-outreach", "save-to-crm"}]

Parents(i) == IF i \in Requests THEN RouterParents ELSE RicoParents
Steps(i) == DOMAIN Parents(i)

\* What classifyIntent may return, as far as it is read: the list of agents is optional,
\* and may name an agent twice.
Nobody == <<>>
Intents ==
  [action : {"RESPOND", "COORDINATE"}, delegateTo : {Nobody}] \union
  [action : {"DELEGATE"}, delegateTo : AgentLists]
NoIntent == [action |-> "none", delegateTo |-> Nobody]
NoOutput == [action |-> "none", ids |-> {}]

Init ==
  /\ worker = "down" /\ registering = {} /\ deaths = 0
  /\ registered = {}
  /\ state = [i \in Runs |-> "none"]
  /\ done = [i \in Runs |-> {}]
  /\ busy = [i \in Runs |-> ""]
  /\ context = [r \in Requests |-> FALSE]
  /\ intent = [r \in Requests |-> NoIntent]
  /\ todo = [r \in Requests |-> Nobody]
  /\ workflowIds = [r \in Requests |-> {}]
  /\ output = [r \in Requests |-> NoOutput]
  /\ origin = [o \in Outreaches |-> "none"] /\ briefed = [o \in Outreaches |-> FALSE]
  /\ memory = [r \in Requests |-> 0]
  /\ restarts = [r \in Requests |-> 0] /\ unheard = {}

-----------------------------------------------------------------------------
(* The worker                                                              *)

WorkerStarts ==
  /\ worker = "down"
  /\ worker' = "up" /\ registering' = Workflows
  /\ UNCHANGED <<deaths, engine, router, calls, memory, history>>

Registers(w) ==
  /\ worker = "up" /\ w \in registering
  /\ registering' = registering \ {w}
  /\ registered' = registered \union {w}
  /\ UNCHANGED <<worker, deaths, state, done, busy, router, calls, memory, history>>

\* A registration fails, and the process exits with an error; or it is told to end, and
\* exits in the middle of whatever it does. The functions that run end with it.
WorkerExits ==
  /\ worker = "up" /\ deaths < MaxRestarts
  /\ worker' = "down" /\ deaths' = deaths + 1
  /\ busy' = [i \in Runs |-> ""]
  /\ restarts' = [r \in Requests |->
       IF busy[r] = "execute-action" /\ state[r] = "running" THEN restarts[r] + 1 ELSE restarts[r]]
  /\ UNCHANGED <<registering, registered, state, done, router, calls, memory, unheard>>

Working == worker = "up" /\ registering = {}

-----------------------------------------------------------------------------
(* The engine                                                              *)

\* A new run of the sales agent has the next id that is free.
Free == {o \in Outreaches : state[o] = "none"}
NextOutreach == CHOOSE o \in Free : TRUE

\* triggerChiefRouter and triggerRicoWorkflow throw when the engine knows no such workflow.
Trigger(i) ==
  /\ state[i] = "none" /\ Workflow(i) \in registered
  /\ i \in Outreaches => i = NextOutreach /\ \A o \in Outreaches : origin[o] # "caller"
  /\ state' = [state EXCEPT ![i] = "running"]
  /\ origin' = IF i \in Outreaches THEN [origin EXCEPT ![i] = "caller"] ELSE origin
  /\ UNCHANGED <<process, registered, done, busy, router, briefed, memory, history>>

\* The function of a step is called. That of execute-action begins with an empty list of
\* workflow ids, and of an intent to delegate with the list of agents.
Begin(i, step) ==
  /\ Working /\ state[i] = "running" /\ busy[i] = ""
  /\ step \in Steps(i) \ done[i] /\ Parents(i)[step] \subseteq done[i]
  /\ busy' = [busy EXCEPT ![i] = step]
  /\ IF step = "execute-action"
     THEN /\ todo' = [todo EXCEPT ![i] =
               IF intent[i].action = "DELEGATE" THEN intent[i].delegateTo ELSE Nobody]
          /\ workflowIds' = [workflowIds EXCEPT ![i] = {}]
     ELSE UNCHANGED <<todo, workflowIds>>
  /\ UNCHANGED <<process, registered, state, done, context, intent, output, calls, memory, history>>

\* A step has run for longer than its timeout, and none has retries. Its function is not
\* stopped.
TimesOut(i) ==
  /\ state[i] = "running" /\ busy[i] # ""
  /\ state' = [state EXCEPT ![i] = "failed"]
  /\ UNCHANGED <<process, registered, done, busy, router, calls, memory, history>>

\* No worker has taken a step within the time that the engine gives it.
NobodyTakes(i) ==
  /\ state[i] = "running" /\ busy[i] = "" /\ ~Working
  /\ state' = [state EXCEPT ![i] = "failed"]
  /\ UNCHANGED <<process, registered, done, busy, router, calls, memory, history>>

\* The function of the step returns: nobody listens when the run has ended meanwhile.
Returns(i) ==
  /\ busy' = [busy EXCEPT ![i] = ""]
  /\ IF state[i] = "running"
     THEN /\ done' = [done EXCEPT ![i] = @ \union {busy[i]}]
          /\ state' = [state EXCEPT ![i] = IF done'[i] = Steps(i) THEN "succeeded" ELSE @]
     ELSE UNCHANGED <<done, state>>

Throws(i) ==
  /\ busy' = [busy EXCEPT ![i] = ""]
  /\ state' = [state EXCEPT ![i] = IF @ = "running" THEN "failed" ELSE @]
  /\ UNCHANGED done

-----------------------------------------------------------------------------
(* The router                                                              *)

\* Whether a source has anything; a search that fails counts as empty.
UserMemories == BOOLEAN
KnowledgeGraph == BOOLEAN

\* What the two sources have, asked side by side, as formatContextForPrompt words it.
Recalled == {preferences \/ knowledge : preferences \in UserMemories, knowledge \in KnowledgeGraph}

RecallContext(r) ==
  /\ busy[r] = "recall-context"
  /\ \E found \in Recalled : context' = [context EXCEPT ![r] = found]
  /\ Returns(r)
  /\ UNCHANGED <<process, registered, intent, todo, workflowIds, output, calls, memory, history>>

ClassifyIntent(r) ==
  /\ busy[r] = "classify-intent"
  /\ \E i \in Intents : intent' = [intent EXCEPT ![r] = i]
  /\ Returns(r)
  /\ UNCHANGED <<process, registered, context, todo, workflowIds, output, calls, memory, history>>

\* generateStructured throws when the model fails, answers no JSON or JSON of another shape.
ClassifyFails(r) ==
  /\ busy[r] = "classify-intent"
  /\ Throws(r)
  /\ UNCHANGED <<process, registered, router, calls, memory, history>>

Executing(r, action) == busy[r] = "execute-action" /\ intent[r].action = action

Output(action, ids) == [action |-> action, ids |-> ids]

\* updateUserProfile has Mem0 remember the interaction, and swallows a failure.
UpdateUserProfile(r) == {memory[r], memory[r] + 1}

\* The response is that of the intent, or the model is asked for one, whose failure
\* generateText turns into an apology.
Respond(r) ==
  /\ Executing(r, "RESPOND")
  /\ \E count \in UpdateUserProfile(r) : memory' = [memory EXCEPT ![r] = count]
  /\ output' = [output EXCEPT ![r] = Output("RESPOND", {})]
  /\ Returns(r)
  /\ UNCHANGED <<process, registered, context, intent, todo, workflowIds, calls, history>>

\* The loop goes on to the next agent.
Called(r) == todo' = [todo EXCEPT ![r] = Tail(@)]

\* One round of the loop over the agents, at the point where runWorkflow asks the engine
\* for a run of the agent's workflow, briefed with what was recalled.
StartsAgent(r) ==
  /\ Executing(r, "DELEGATE") /\ todo[r] # Nobody /\ HasWorkflow(Head(todo[r]))
  /\ "rico-workflow" \in registered /\ Free # {}
  /\ state' = [state EXCEPT ![NextOutreach] = "running"]
  /\ origin' = [origin EXCEPT ![NextOutreach] = r]
  /\ briefed' = [briefed EXCEPT ![NextOutreach] = context[r]]
  /\ UNCHANGED <<process, registered, done, busy, context, intent, output, memory, restarts>>

\* The engine answers with the id of the run ...
Delegates(r) ==
  /\ StartsAgent(r) /\ Called(r)
  /\ workflowIds' = [workflowIds EXCEPT ![r] = @ \union {NextOutreach}]
  /\ UNCHANGED unheard

\* A bug: the call is made anew after an error.
DelegatesAnew(r) ==
  /\ StartsAgent(r)
  /\ unheard' = unheard \union {NextOutreach}
  /\ UNCHANGED <<todo, workflowIds>>

\* ... or its answer is lost: the call throws, which is logged, and the run goes on unnamed ...
DelegateAnswerLost(r) ==
  /\ StartsAgent(r) /\ Called(r)
  /\ unheard' = unheard \union {NextOutreach}
  /\ UNCHANGED workflowIds

\* ... or no run is started, as always for a name without a workflow.
DelegateFails(r) ==
  /\ Executing(r, "DELEGATE") /\ todo[r] # Nobody
  /\ Called(r)
  /\ UNCHANGED <<process, engine, context, intent, workflowIds, output, calls, memory, history>>

\* The end of the step for an intent other than to respond: the agents have been called,
\* coordination is a placeholder, and an intent to delegate to nobody is not understood.
Conclude(r) ==
  /\ busy[r] = "execute-action" /\ intent[r].action # "RESPOND" /\ todo[r] = Nobody
  /\ output' = [output EXCEPT ![r] =
       IF intent[r].action = "DELEGATE" /\ intent[r].delegateTo = Nobody
       THEN Output("RESPOND", {})
       ELSE Output(intent[r].action, workflowIds[r])]
  /\ Returns(r)
  /\ UNCHANGED <<process, registered, context, intent, todo, workflowIds, calls, memory, history>>

\* getWorkflowResult: null while the run goes on, and for ever when it has failed.
WorkflowResult(r) == IF state[r] = "succeeded" THEN output[r] ELSE NoOutput

-----------------------------------------------------------------------------
(* The sales agent                                                         *)

\* research-lead and draft-outreach ask the model, and throw as classifyIntent does.
\* save-to-crm makes up a lead id and stores nothing; format-response words the outcome.
StepSucceeds(o) ==
  /\ busy[o] \in Steps(o)
  /\ Returns(o)
  /\ UNCHANGED <<process, registered, router, calls, memory, history>>

StepThrows(o) ==
  /\ busy[o] \in {"research-lead", "draft-outreach"}
  /\ Throws(o)
  /\ UNCHANGED <<process, registered, router, calls, memory, history>>

-----------------------------------------------------------------------------
Next ==
  \/ WorkerStarts \/ WorkerExits
  \/ \E w \in Workflows : Registers(w)
  \/ \E i \in Runs :
       \/ Trigger(i) \/ TimesOut(i) \/ NobodyTakes(i)
       \/ \E step \in Steps(i) : Begin(i, step)
  \/ \E r \in Requests :
       \/ RecallContext(r) \/ ClassifyIntent(r) \/ ClassifyFails(r)
       \/ Respond(r)
       \/ Delegates(r) \/ DelegateAnswerLost(r) \/ DelegateFails(r) \/ Conclude(r)
  \/ \E o \in Outreaches : StepSucceeds(o) \/ StepThrows(o)

Spec == Init /\ [][Next]_vars

-----------------------------------------------------------------------------
(* Properties                                                              *)

TypeOK ==
  /\ worker \in {"down", "up"} /\ registering \subseteq Workflows /\ deaths \in 0..MaxRestarts
  /\ registered \subseteq Workflows
  /\ state \in [Runs -> {"none", "running", "succeeded", "failed"}]
  /\ \A i \in Runs : done[i] \subseteq Steps(i) /\ busy[i] \in Steps(i) \union {""}
  /\ intent \in [Requests -> Intents \union {NoIntent}]
  /\ workflowIds \in [Requests -> SUBSET Outreaches]
  /\ origin \in [Outreaches -> Requests \union {"none", "caller"}]
  /\ context \in [Requests -> BOOLEAN] /\ briefed \in [Outreaches -> BOOLEAN]
  /\ memory \in [Requests -> Nat] /\ restarts \in [Requests -> 0..MaxRestarts]
  /\ unheard \subseteq Outreaches

Started(r) == {o \in Outreaches : origin[o] = r}
Named(r) == {n \in DOMAIN intent[r].delegateTo : HasWorkflow(intent[r].delegateTo[n])}

\* The work done for a request is the work that was decided on, and the user is told of
\* it: an answer names runs that were started for the request and no other, and all of
\* them but for those of an earlier beginning of the action and those whose start the
\* router did not hear of; and whatever dies, times out or goes unheard, each beginning
\* starts an agent no more often than the intent names it, with what was recalled for the
\* request, and remembers the request once.
WorkIsEarned ==
  \A r \in Requests :
    /\ WorkflowResult(r).ids \subseteq Started(r)
    /\ WorkflowResult(r).action = "DELEGATE" /\ restarts[r] = 0 =>
         WorkflowResult(r).ids = Started(r) \ unheard
    /\ Cardinality(Started(r)) <= Cardinality(Named(r)) * (1 + restarts[r])
    /\ memory[r] <= 1 + restarts[r]
    /\ \A o \in Started(r) : briefed[o] = context[r]
=============================================================================
