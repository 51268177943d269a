-------------------------- MODULE SendDraftProofs --------------------------
(***************************************************************************)
(* Theorems about the life of a draft (SendDraft.tla), for every number of *)
(* senders, routes, editors, drafters, bodies and faults, and for every    *)
(* placing of them on event loops.                                         *)
(***************************************************************************)
EXTENDS SendDraft, TLAPS

USE DEF database, history, mails, origins

-----------------------------------------------------------------------------
(* Type correctness                                                        *)

LEMMA NoDraftTyped == NoDraft \in Drafts
BY DEF NoDraft, Drafts

\* Changing one field of a draft leaves a draft.
LEMMA DraftFieldsTyped ==
  ASSUME NEW draft \in Drafts, BodiesAssumption
  PROVE  /\ \A status \in {"open", "failed", "sent"} :
              [draft EXCEPT !.status = status] \in Drafts
         /\ \A b \in Bodies : [draft EXCEPT !.body = b] \in Drafts
         /\ draft.body # NoBody => draft.body \in Bodies
BY DEF Drafts, BodiesAssumption

\* The parts of the type invariant that a move of an actor can disturb.
ActorsTyped ==
  /\ stuck \subseteq Actors
  /\ pc \in [Actors -> Places]
  /\ copy \in [Actors -> Drafts]
  /\ \A s \in Senders \union Clients \union Editors : pc[s] # "idle" => copy[s].body \in Bodies

LEMMA StepTyped ==
  ASSUME ActorsTyped, NEW a \in Actors, NEW from \in Places \ {"idle"},
         NEW to \in Places, Step(a, from, to), UNCHANGED copy, stuck' \subseteq stuck
  PROVE  ActorsTyped'
BY DEF ActorsTyped, Step

LEMMA FinishTyped ==
  ASSUME ActorsTyped, NEW a \in Actors, NEW from, Finish(a, from), stuck' \subseteq stuck
  PROVE  ActorsTyped'
BY NoDraftTyped DEF ActorsTyped, Finish, Step, Places

LEMMA TakeTyped ==
  ASSUME ActorsTyped, NEW a \in Actors, NEW to \in Places, NEW draft \in Drafts,
         Step(a, "idle", to), copy' = [copy EXCEPT ![a] = draft], UNCHANGED stuck,
         a \in Senders \union Clients \union Editors => draft.body \in Bodies
  PROVE  ActorsTyped'
BY DEF ActorsTyped, Step

LEMMA CountTyped ==
  ASSUME NEW b \in Bodies, NEW counts \in [Bodies -> 0..2]
  PROVE  [counts EXCEPT ![b] = OneMore(@)] \in [Bodies -> 0..2]
BY DEF OneMore

LEMMA SenderTyped ==
  ASSUME TypeOK, NEW s \in Senders, SenderStep(s),
         BodiesAssumption, ActorsAssumption, FaultsAssumption
  PROVE  TypeOK'
<1> USE DEF Actors
<1>a. ActorsTyped /\ s \in Actors
  BY DEF TypeOK, ActorsTyped
<1>b. pc[s] # "idle" => copy[s].body \in Bodies
  BY DEF TypeOK
<1>c. copy[s] \in Drafts
  BY DEF TypeOK
<1>1. CASE \E explicit \in Approvals : FetchDraft(s, explicit)
  <2>1. row.body \in Bodies
    BY <1>1, DraftFieldsTyped DEF FetchDraft, Unsent, TypeOK
  <2>2. ActorsTyped'
    BY <1>a, <1>1, <2>1, TakeTyped DEF FetchDraft, TypeOK, Places
  <2> QED
    BY <1>1, <2>2 DEF FetchDraft, TypeOK, ActorsTyped
<1>2. CASE FindToken(s) \/ LoseToken(s)
  <2>1. ActorsTyped'
    BY <1>a, <1>2, FinishTyped DEF FindToken, LoseToken
  <2> QED
    BY <1>2, <2>1 DEF FindToken, LoseToken, Finish, TypeOK, ActorsTyped
<1>3. CASE FindNoToken(s)
  <2>1. ActorsTyped'
    BY <1>a, <1>3, StepTyped DEF FindNoToken, Places
  <2> QED
    BY <1>3, <2>1 DEF FindNoToken, TypeOK, ActorsTyped
<1>4. CASE ClaimToken(s)
  <2>1. ActorsTyped'
    BY <1>a, <1>4, StepTyped DEF ClaimToken, Places
  <2>2. copy[s].body \in Bodies
    BY <1>b, <1>4 DEF ClaimToken, Step
  <2> QED
    BY <1>4, <2>1, <2>2 DEF ClaimToken, TypeOK, ActorsTyped
<1>5. CASE Deliver(s) \/ DeliverFails(s) \/ AnswerLost(s)
  <2>1. ActorsTyped'
    BY <1>a, <1>5, StepTyped DEF Deliver, DeliverFails, AnswerLost, Places
  <2>2. copy[s].body \in Bodies
    BY <1>b, <1>5 DEF Deliver, DeliverFails, AnswerLost, Step
  <2>3. deliveries' \in [Bodies -> 0..2] /\ unapproved' \subseteq Bodies
    BY <1>5, <2>2, CountTyped
       DEF Deliver, DeliverFails, AnswerLost, CountDelivery, TypeOK
  <2>4. faults' \in 0..MaxFaults
    BY <1>5 DEF Deliver, DeliverFails, AnswerLost, Fault, TypeOK, FaultsAssumption
  <2> QED
    BY <1>5, <2>1, <2>2, <2>3, <2>4
       DEF Deliver, DeliverFails, AnswerLost, TypeOK, ActorsTyped
<1>6. CASE RecordSent(s) \/ RecordFailed(s)
  <2>1. row' \in Drafts
    BY <1>6, <1>c, DraftFieldsTyped DEF RecordSent, RecordFailed, RecordOutcome
  <2>2. ActorsTyped'
    BY <1>a, <1>6, FinishTyped DEF RecordSent, RecordFailed, RecordOutcome, Update
  <2> QED
    BY <1>6, <2>1, <2>2 DEF RecordSent, RecordFailed, RecordOutcome, Finish, TypeOK, ActorsTyped
<1> QED
  BY <1>1, <1>2, <1>3, <1>4, <1>5, <1>6 DEF SenderStep

LEMMA ClientTyped ==
  ASSUME TypeOK, NEW c \in Clients, ClientStep(c),
         BodiesAssumption, ActorsAssumption, FaultsAssumption
  PROVE  TypeOK'
<1> USE DEF Actors
<1>a. ActorsTyped /\ c \in Actors
  BY DEF TypeOK, ActorsTyped
<1>b. pc[c] # "idle" => copy[c].body \in Bodies
  BY DEF TypeOK
<1>c. copy[c] \in Drafts
  BY DEF TypeOK
<1>1. CASE ReadForSend(c)
  <2>1. row.body \in Bodies
    BY <1>1, DraftFieldsTyped DEF ReadForSend, Unsent, TypeOK
  <2>2. ActorsTyped'
    BY <1>a, <1>1, <2>1, TakeTyped DEF ReadForSend, TypeOK, Places
  <2> QED
    BY <1>1, <2>2 DEF ReadForSend, TypeOK, ActorsTyped
<1>2. CASE MarkSent(c)
  <2>1. row' \in Drafts
    BY <1>2, <1>c, DraftFieldsTyped DEF MarkSent
  <2>2. ActorsTyped'
    BY <1>a, <1>2, FinishTyped DEF MarkSent, Update
  <2>3. copy[c].body \in Bodies
    BY <1>b, <1>2 DEF MarkSent, Finish, Step
  <2> QED
    BY <1>2, <2>1, <2>2, <2>3 DEF MarkSent, Finish, TypeOK, ActorsTyped
<1> QED
  BY <1>1, <1>2 DEF ClientStep

LEMMA EditorTyped ==
  ASSUME TypeOK, NEW e \in Editors, EditorStep(e), BodiesAssumption, ActorsAssumption
  PROVE  TypeOK'
<1> USE DEF Actors
<1>a. ActorsTyped /\ e \in Actors
  BY DEF TypeOK, ActorsTyped
<1>1. CASE \E b \in EditedBodies : ReadForEdit(e, b)
  <2>1. PICK b \in EditedBodies : ReadForEdit(e, b)
    BY <1>1
  <2>2. [row EXCEPT !.body = b] \in Drafts
    BY DraftFieldsTyped DEF TypeOK, BodiesAssumption
  <2>3. ActorsTyped'
    <3>1. [row EXCEPT !.body = b].body \in Bodies
      BY DEF BodiesAssumption, TypeOK, Drafts
    <3> QED
      BY <1>a, <2>1, <2>2, <3>1, TakeTyped DEF ReadForEdit, Places
  <2> QED
    BY <2>1, <2>3 DEF ReadForEdit, TypeOK, ActorsTyped
<1>2. CASE WriteEdit(e)
  <2>1. row' \in Drafts
    BY <1>2, <1>a DEF WriteEdit, TypeOK
  <2>2. ActorsTyped'
    BY <1>a, <1>2, FinishTyped DEF WriteEdit, Update
  <2>3. copy[e].body \in Bodies
    BY <1>2 DEF WriteEdit, Finish, Step, TypeOK
  <2> QED
    BY <1>2, <2>1, <2>2, <2>3 DEF WriteEdit, Finish, TypeOK, ActorsTyped
<1> QED
  BY <1>1, <1>2 DEF EditorStep

LEMMA DrafterTyped ==
  ASSUME TypeOK, NEW d \in Drafters, DrafterStep(d),
         BodiesAssumption, ActorsAssumption, FaultsAssumption
  PROVE  TypeOK'
<1> USE DEF Actors
<1>a. ActorsTyped /\ d \in Actors /\ d \notin Senders \union Clients \union Editors
  BY DEF TypeOK, ActorsTyped, ActorsAssumption
<1>b. ASSUME NEW from, NEW to \in Places, Step(d, from, to), UNCHANGED copy,
             stuck' \subseteq stuck
      PROVE  ActorsTyped'
  BY <1>a, <1>b DEF ActorsTyped, Step
<1>1. CASE BeginDraft(d)
  <2>1. ActorsTyped'
    BY <1>1, <1>b DEF BeginDraft, Places
  <2> QED
    BY <1>1, <2>1 DEF BeginDraft, TypeOK, ActorsTyped
<1>2. CASE ClearDraft(d)
  <2>1. ActorsTyped'
    BY <1>2, <1>b DEF ClearDraft, Update, Places
  <2> QED
    BY <1>2, <2>1 DEF ClearDraft, TypeOK, ActorsTyped
<1>3. CASE \E b \in Bodies : EndDraft(d, b)
  <2>1. row' \in Drafts
    BY <1>3 DEF EndDraft, Drafts
  <2>2. ActorsTyped'
    BY <1>3, <1>b DEF EndDraft, Update, Places
  <2> QED
    BY <1>3, <2>1, <2>2 DEF EndDraft, Unlock, TypeOK, ActorsTyped
<1>4. CASE DraftFails(d)
  <2>1. ActorsTyped'
    BY <1>4, <1>b DEF DraftFails, Update, Places
  <2>2. faults' \in 0..MaxFaults
    BY <1>4 DEF DraftFails, Fault, TypeOK, FaultsAssumption
  <2> QED
    BY <1>4, <2>1, <2>2, NoDraftTyped DEF DraftFails, Unlock, TypeOK, ActorsTyped
<1>5. CASE IgnoreEmail(d)
  <2>1. ActorsTyped'
    BY <1>5, <1>b DEF IgnoreEmail, Places
  <2> QED
    BY <1>5, <2>1, NoDraftTyped DEF IgnoreEmail, Unlock, TypeOK, ActorsTyped
<1> QED
  BY <1>1, <1>2, <1>3, <1>4, <1>5 DEF DrafterStep

LEMMA WaitOrCrashTyped ==
  ASSUME TypeOK, NEW a \in Actors, WaitForRow(a) \/ Crash(a), FaultsAssumption
  PROVE  TypeOK'
<1>1. CASE WaitForRow(a)
  BY <1>1 DEF WaitForRow, TypeOK
<1>2. CASE Crash(a)
  <2>1. ActorsTyped'
    BY <1>2, NoDraftTyped DEF Crash, TypeOK, ActorsTyped, Places
  <2>2. faults' \in 0..MaxFaults
    BY <1>2 DEF Crash, Fault, TypeOK, FaultsAssumption
  <2> QED
    BY <1>2, <2>1, <2>2 DEF Crash, Unlock, TypeOK, ActorsTyped
<1> QED
  BY <1>1, <1>2

LEMMA TypeInductive ==
  ASSUME BodiesAssumption, ActorsAssumption, FaultsAssumption
  PROVE  (Init => TypeOK) /\ (TypeOK /\ [Next]_vars => TypeOK')
<1>1. Init => TypeOK
  BY NoDraftTyped DEF Init, TypeOK, Actors, Places, FaultsAssumption
<1>2. ASSUME TypeOK, Next
      PROVE  TypeOK'
  BY <1>2, SenderTyped, ClientTyped, EditorTyped, DrafterTyped, WaitOrCrashTyped DEF Next
<1>3. TypeOK /\ UNCHANGED vars => TypeOK'
  BY DEF vars, TypeOK
<1> QED
  BY <1>1, <1>2, <1>3

\* Every reachable state is well typed: in particular no sender and no route
\* ever holds an email without a draft (action_executor.py:141, routes.py:868).
THEOREM TypeCorrect == Spec => []TypeOK
BY TypeInductive, BodiesAssumption, ActorsAssumption, FaultsAssumption, PTL DEF Spec

-----------------------------------------------------------------------------
(* The executor sends once                                                 *)

\* What makes the token a lock: a sender that is about to send holds the only
\* claim of a body that was never sent, and the token of a sent body stays.
Claims ==
  /\ \A s \in Senders : pc[s] = "claimed" =>
       copy[s].body \in tokens /\ deliveries[copy[s].body] = 0
  /\ \A s, t \in Senders : pc[s] = "claimed" /\ pc[t] = "claimed" /\ s # t =>
       copy[s].body # copy[t].body
  /\ \A b \in Bodies : deliveries[b] > 0 => b \in tokens

SendsInv == TypeOK /\ Claims /\ ExecutorSendsOnce

\* A step that neither claims nor delivers keeps the claims.
LEMMA NoClaimKeepsSends ==
  ASSUME SendsInv, TypeOK', UNCHANGED <<tokens, deliveries>>,
         \A s \in Senders : pc'[s] = "claimed" =>
           pc[s] = "claimed" /\ copy'[s] = copy[s]
  PROVE  SendsInv'
BY DEF SendsInv, Claims, ExecutorSendsOnce

LEMMA ClaimKeepsSends ==
  ASSUME SendsInv, TypeOK', NEW s \in Senders, ClaimToken(s)
  PROVE  SendsInv'
<1> USE DEF Actors
<1>1. copy[s].body \in Bodies /\ copy[s].body \notin tokens
  BY DEF SendsInv, TypeOK, ClaimToken, Step
<1>2. deliveries[copy[s].body] = 0
  BY <1>1 DEF SendsInv, Claims, TypeOK
<1>3. /\ UNCHANGED <<copy, deliveries>>
      /\ tokens' = tokens \union {copy[s].body}
      /\ \A t \in Senders : pc'[t] = IF t = s THEN "claimed" ELSE pc[t]
  BY DEF ClaimToken, Step, SendsInv, TypeOK
<1> QED
  BY <1>1, <1>2, <1>3 DEF SendsInv, Claims, ExecutorSendsOnce

LEMMA DeliverKeepsSends ==
  ASSUME SendsInv, TypeOK', NEW s \in Senders, Deliver(s) \/ AnswerLost(s)
  PROVE  SendsInv'
<1> USE DEF Actors
<1>1. pc[s] = "claimed" /\ copy[s].body \in Bodies
  BY DEF SendsInv, TypeOK, Deliver, AnswerLost, Step
<1>2. deliveries[copy[s].body] = 0 /\ copy[s].body \in tokens
  BY <1>1 DEF SendsInv, Claims
<1>3. /\ UNCHANGED <<copy, tokens>>
      /\ \A b \in Bodies : deliveries'[b] = IF b = copy[s].body THEN 1 ELSE deliveries[b]
      /\ pc'[s] # "claimed"
      /\ \A t \in Senders \ {s} : pc'[t] = pc[t]
  BY <1>2 DEF Deliver, AnswerLost, CountDelivery, OneMore, Step, SendsInv, TypeOK
<1>4. \A t \in Senders : pc[t] # "idle" => copy[t].body \in Bodies
  BY DEF SendsInv, TypeOK
<1> QED
  BY <1>1, <1>2, <1>3, <1>4 DEF SendsInv, Claims, ExecutorSendsOnce

LEMMA SenderKeepsSends ==
  ASSUME SendsInv, TypeOK', NEW s \in Senders, SenderStep(s)
  PROVE  SendsInv'
<1> USE DEF Actors
<1>1. CASE ClaimToken(s)
  BY <1>1, ClaimKeepsSends
<1>2. CASE Deliver(s) \/ AnswerLost(s)
  BY <1>2, DeliverKeepsSends
<1>3. CASE \/ \E explicit \in Approvals : FetchDraft(s, explicit)
           \/ FindToken(s) \/ FindNoToken(s) \/ LoseToken(s) \/ DeliverFails(s)
           \/ RecordSent(s) \/ RecordFailed(s)
  <2>1. UNCHANGED <<tokens, deliveries>>
    BY <1>3 DEF FetchDraft, FindToken, FindNoToken, LoseToken, DeliverFails,
                RecordSent, RecordFailed, RecordOutcome
  <2>2. pc'[s] # "claimed"
    BY <1>3 DEF FetchDraft, FindToken, FindNoToken, LoseToken, DeliverFails,
                RecordSent, RecordFailed, RecordOutcome, Finish, Step, SendsInv, TypeOK
  <2>3. \A t \in Senders \ {s} : pc'[t] = pc[t] /\ copy'[t] = copy[t]
    BY <1>3 DEF FetchDraft, FindToken, FindNoToken, LoseToken, DeliverFails,
                RecordSent, RecordFailed, RecordOutcome, Finish, Step, SendsInv, TypeOK
  <2> QED
    BY <2>1, <2>2, <2>3, NoClaimKeepsSends
<1> QED
  BY <1>1, <1>2, <1>3 DEF SenderStep

LEMMA SendsInductive ==
  ASSUME BodiesAssumption, ActorsAssumption, FaultsAssumption
  PROVE  (Init => SendsInv) /\ (SendsInv /\ [Next]_vars => SendsInv')
<1> USE DEF Actors
<1>1. Init => SendsInv
  <2>1. Init => TypeOK
    BY TypeInductive
  <2> QED
    BY <2>1 DEF Init, SendsInv, Claims, ExecutorSendsOnce
<1>2. ASSUME SendsInv, [Next]_vars
      PROVE  SendsInv'
  <2>a. TypeOK'
    BY <1>2, TypeInductive DEF SendsInv
  <2>1. CASE \E s \in Senders : SenderStep(s)
    BY <1>2, <2>a, <2>1, SenderKeepsSends
  <2>2. CASE \E c \in Clients : ClientStep(c)
    <3>1. PICK c \in Clients : ClientStep(c)
      BY <2>2
    <3>2. \A s \in Senders : s # c
      BY DEF ActorsAssumption
    <3>3. /\ UNCHANGED <<tokens, deliveries>>
          /\ \A s \in Senders : pc'[s] = pc[s] /\ copy'[s] = copy[s]
      BY <1>2, <3>1, <3>2 DEF ClientStep, ReadForSend, MarkSent, Finish, Step, SendsInv, TypeOK
    <3> QED
      BY <1>2, <2>a, <3>3, NoClaimKeepsSends
  <2>3. CASE \E e \in Editors : EditorStep(e)
    <3>1. PICK e \in Editors : EditorStep(e)
      BY <2>3
    <3>2. \A s \in Senders : s # e
      BY DEF ActorsAssumption
    <3>3. /\ UNCHANGED <<tokens, deliveries>>
          /\ \A s \in Senders : pc'[s] = pc[s] /\ copy'[s] = copy[s]
      BY <1>2, <3>1, <3>2 DEF EditorStep, ReadForEdit, WriteEdit, Finish, Step,
         SendsInv, TypeOK
    <3> QED
      BY <1>2, <2>a, <3>3, NoClaimKeepsSends
  <2>4. CASE \E d \in Drafters : DrafterStep(d)
    <3>1. PICK d \in Drafters : DrafterStep(d)
      BY <2>4
    <3>2. \A s \in Senders : s # d
      BY DEF ActorsAssumption
    <3>3. /\ UNCHANGED <<tokens, deliveries>>
          /\ \A s \in Senders : pc'[s] = pc[s] /\ copy'[s] = copy[s]
      BY <1>2, <3>1, <3>2 DEF DrafterStep, BeginDraft, ClearDraft, EndDraft,
         DraftFails, IgnoreEmail, Step, SendsInv, TypeOK
    <3> QED
      BY <1>2, <2>a, <3>3, NoClaimKeepsSends
  <2>5. CASE \E a \in Actors : WaitForRow(a) \/ Crash(a)
    <3>1. PICK a \in Actors : WaitForRow(a) \/ Crash(a)
      BY <2>5
    <3>2. UNCHANGED <<tokens, deliveries>>
      BY <3>1 DEF WaitForRow, Crash
    <3>3. \A s \in Senders : pc'[s] = "claimed" => pc[s] = "claimed" /\ copy'[s] = copy[s]
      BY <1>2, <3>1 DEF WaitForRow, Crash, SendsInv, TypeOK
    <3> QED
      BY <1>2, <2>a, <3>2, <3>3, NoClaimKeepsSends
  <2>6. CASE UNCHANGED vars
    BY <1>2, <2>a, <2>6, NoClaimKeepsSends DEF vars
  <2> QED
    BY <1>2, <2>1, <2>2, <2>3, <2>4, <2>5, <2>6 DEF Next
<1> QED
  BY <1>1, <1>2

\* However many processes send the same draft, however often, and wherever they
\* crash or their answers are lost, the connector sends each body at most once
\* (action_executor.py:180-202, send_token.py:14).
THEOREM TokensSendOnce == Spec => []ExecutorSendsOnce
<1>1. Init => SendsInv
  BY SendsInductive, BodiesAssumption, ActorsAssumption, FaultsAssumption
<1>2. SendsInv /\ [Next]_vars => SendsInv'
  BY SendsInductive, BodiesAssumption, ActorsAssumption, FaultsAssumption
<1>3. SendsInv => ExecutorSendsOnce
  BY DEF SendsInv
<1> QED
  BY <1>1, <1>2, <1>3, PTL DEF Spec

-----------------------------------------------------------------------------
(* Risky drafts need an approval                                           *)

\* A draft that the model would label carries the label, or its body is excused.
LabelledOr(draft, excused) ==
  draft.body \in RiskyBodies => draft.labelled \/ draft.body \in excused

Labelled(draft) == LabelledOr(draft, unlabelled)

\* What a person has typed is excused only when it is written.
RiskInv ==
  /\ TypeOK
  /\ Labelled(row)
  /\ \A a \in Actors \ Editors : Labelled(copy[a])
  /\ \A s \in Senders \ approved : pc[s] # "idle" => ~copy[s].labelled
  /\ LabelsHold

\* Writing back a draft that was read, with another status, writes a labelled draft.
LEMMA StatusKeepsLabel ==
  ASSUME NEW draft \in Drafts, NEW excused, LabelledOr(draft, excused)
  PROVE  \A status \in {"open", "failed", "sent"} :
           LabelledOr([draft EXCEPT !.status = status], excused)
BY DEF Drafts, LabelledOr

\* What is excused once stays excused.
LEMMA ExcusedStays ==
  ASSUME NEW draft, NEW excused, NEW more, excused \subseteq more,
         LabelledOr(draft, excused)
  PROVE  LabelledOr(draft, more)
BY DEF LabelledOr

LEMMA NoDraftLabelled ==
  ASSUME BodiesAssumption
  PROVE  \A excused : LabelledOr(NoDraft, excused)
BY DEF NoDraft, LabelledOr, BodiesAssumption

LEMMA SenderKeepsRisk ==
  ASSUME RiskInv, TypeOK', NEW s \in Senders, SenderStep(s),
         BodiesAssumption, ActorsAssumption
  PROVE  RiskInv'
<1> USE DEF Actors, Labelled
<1>a. /\ copy[s] \in Drafts /\ row \in Drafts
      /\ pc \in [Actors -> Places] /\ copy \in [Actors -> Drafts]
      /\ s \in Actors \ Editors
  BY DEF RiskInv, TypeOK, ActorsAssumption
<1>b. LabelledOr(NoDraft, unlabelled)
  BY NoDraftLabelled
<1>c. UNCHANGED unlabelled
  BY DEF SenderStep, FetchDraft, FindToken, FindNoToken, ClaimToken, LoseToken, Deliver,
     DeliverFails, AnswerLost, RecordSent, RecordFailed, RecordOutcome
<1>d. \A a \in Actors \ Editors : Labelled(copy[a])'
  <2>1. \A a \in Actors : copy'[a] \in {copy[a], row, NoDraft}
    BY <1>a DEF SenderStep, FetchDraft, FindToken, FindNoToken, ClaimToken, LoseToken,
       Deliver, DeliverFails, AnswerLost, RecordSent, RecordFailed, RecordOutcome, Finish
  <2> QED
    BY <1>b, <1>c, <2>1 DEF RiskInv
<1>1. CASE \E explicit \in Approvals : FetchDraft(s, explicit)
  <2>1. PICK explicit \in Approvals : FetchDraft(s, explicit)
    BY <1>1
  <2>3. \A t \in Senders \ approved' : pc'[t] # "idle" => ~copy'[t].labelled
    <3> SUFFICES ASSUME NEW t \in Senders \ approved', pc'[t] # "idle"
                 PROVE  ~copy'[t].labelled
      OBVIOUS
    <3>1. CASE t = s
      BY <1>a, <2>1, <3>1 DEF FetchDraft, GatePasses
    <3>2. CASE t # s
      BY <1>a, <2>1, <3>2 DEF FetchDraft, Step, RiskInv
    <3> QED
      BY <3>1, <3>2
  <2>4. UNCHANGED <<row, unapproved>>
    BY <2>1 DEF FetchDraft
  <2> QED
    BY <1>c, <1>d, <2>3, <2>4 DEF RiskInv, LabelsHold
<1>2. CASE Deliver(s) \/ AnswerLost(s)
  <2>1. /\ UNCHANGED <<row, copy, approved>>
        /\ pc[s] # "idle"
        /\ \A t \in Senders : pc'[t] # "idle" => pc[t] # "idle"
    BY <1>a, <1>2 DEF Deliver, AnswerLost, Step
  <2>2. s \notin approved /\ copy[s].body \in RiskyBodies => copy[s].body \in unlabelled
    BY <1>a, <2>1 DEF RiskInv, LabelledOr
  <2>3. LabelsHold'
    BY <1>2, <1>c, <2>2 DEF Deliver, AnswerLost, CountDelivery, RiskInv, LabelsHold
  <2> QED
    BY <1>c, <1>d, <2>1, <2>3 DEF RiskInv
<1>3. CASE \/ FindToken(s) \/ LoseToken(s) \/ FindNoToken(s) \/ ClaimToken(s)
           \/ DeliverFails(s)
  <2>1. UNCHANGED <<row, unapproved>>
    BY <1>3 DEF FindToken, LoseToken, FindNoToken, ClaimToken, DeliverFails
  <2>2. \A t \in Senders : pc'[t] # "idle" =>
          /\ pc[t] # "idle" /\ copy'[t] = copy[t]
          /\ t \in approved => t \in approved'
    BY <1>a, <1>3 DEF FindToken, LoseToken, FindNoToken, ClaimToken, DeliverFails,
       Finish, Step
  <2> QED
    BY <1>c, <1>d, <2>1, <2>2 DEF RiskInv, LabelsHold
<1>4. CASE RecordSent(s) \/ RecordFailed(s)
  <2>1. LabelledOr(row, unlabelled)'
    <3>1. PICK status \in {"failed", "sent"} : row' = [copy[s] EXCEPT !.status = status]
      BY <1>4 DEF RecordSent, RecordFailed, RecordOutcome
    <3>2. LabelledOr([copy[s] EXCEPT !.status = status], unlabelled)
      BY <1>a, StatusKeepsLabel DEF RiskInv
    <3> QED
      BY <1>c, <3>1, <3>2
  <2>2. UNCHANGED unapproved
    BY <1>4 DEF RecordSent, RecordFailed, RecordOutcome
  <2>3. \A t \in Senders : pc'[t] # "idle" =>
          /\ pc[t] # "idle" /\ copy'[t] = copy[t]
          /\ t \in approved => t \in approved'
    BY <1>a, <1>4 DEF RecordSent, RecordFailed, RecordOutcome, Finish, Step
  <2> QED
    BY <1>c, <1>d, <2>1, <2>2, <2>3 DEF RiskInv, LabelsHold
<1> QED
  BY <1>1, <1>2, <1>3, <1>4 DEF SenderStep

\* The steps of the others leave alone what the senders have read and sent.
LEMMA OthersKeepRisk ==
  ASSUME RiskInv, TypeOK', UNCHANGED unapproved, unlabelled \subseteq unlabelled',
         LabelledOr(row', unlabelled'),
         \A a \in Actors \ Editors : copy'[a] \in {copy[a], row, NoDraft},
         \A s \in Senders : pc'[s] # "idle" =>
           /\ pc[s] # "idle" /\ copy'[s] = copy[s]
           /\ s \in approved => s \in approved',
         BodiesAssumption
  PROVE  RiskInv'
<1>1. \A a \in Actors \ Editors : LabelledOr(copy'[a], unlabelled')
  BY NoDraftLabelled, ExcusedStays DEF RiskInv, Labelled
<1>2. LabelsHold'
  BY DEF RiskInv, LabelsHold
<1>3. \A s \in Senders \ approved' : pc'[s] # "idle" => ~copy'[s].labelled
  BY DEF RiskInv
<1> QED
  BY <1>1, <1>2, <1>3 DEF RiskInv, Labelled

LEMMA RiskInductive ==
  ASSUME BodiesAssumption, ActorsAssumption, FaultsAssumption
  PROVE  (Init => RiskInv) /\ (RiskInv /\ [Next]_vars => RiskInv')
<1> USE DEF Actors
<1>1. Init => RiskInv
  <2>1. Init => TypeOK
    BY TypeInductive
  <2> QED
    BY <2>1, NoDraftLabelled DEF Init, RiskInv, LabelsHold, Labelled
<1>2. ASSUME RiskInv, [Next]_vars
      PROVE  RiskInv'
  <2>a. TypeOK'
    BY <1>2, TypeInductive DEF RiskInv
  <2>b. /\ row \in Drafts /\ LabelledOr(row, unlabelled)
        /\ \A a \in Actors : copy[a] \in Drafts
        /\ \A a \in Actors \ Editors : LabelledOr(copy[a], unlabelled)
        /\ pc \in [Actors -> Places] /\ copy \in [Actors -> Drafts]
    BY <1>2 DEF RiskInv, TypeOK, Labelled
  <2>1. CASE \E s \in Senders : SenderStep(s)
    BY <1>2, <2>a, <2>1, SenderKeepsRisk
  <2>2. CASE \E c \in Clients : ClientStep(c)
    <3>1. PICK c \in Clients : ClientStep(c)
      BY <2>2
    <3>a. c \in Actors \ Editors /\ c \notin Senders
      BY DEF ActorsAssumption
    <3>2. UNCHANGED <<unapproved, unlabelled>>
      BY <3>1 DEF ClientStep, ReadForSend, MarkSent
    <3>3. LabelledOr(row', unlabelled')
      <4>1. LabelledOr([copy[c] EXCEPT !.status = "sent"], unlabelled)
        BY <2>b, <3>a, StatusKeepsLabel
      <4>2. row' = row \/ row' = [copy[c] EXCEPT !.status = "sent"]
        BY <3>1 DEF ClientStep, ReadForSend, MarkSent
      <4> QED
        BY <2>b, <3>2, <4>1, <4>2
    <3>4. \A a \in Actors \ Editors : copy'[a] \in {copy[a], row, NoDraft}
      BY <2>b, <3>1 DEF ClientStep, ReadForSend, MarkSent, Finish
    <3>6. \A s \in Senders : pc'[s] # "idle" =>
            /\ pc[s] # "idle" /\ copy'[s] = copy[s]
            /\ s \in approved => s \in approved'
      BY <2>b, <3>1, <3>a DEF ClientStep, ReadForSend, MarkSent, Finish, Step
    <3> QED
      BY <1>2, <2>a, <3>2, <3>3, <3>4, <3>6, OthersKeepRisk
  <2>3. CASE \E e \in Editors : EditorStep(e)
    <3>1. PICK e \in Editors : EditorStep(e)
      BY <2>3
    <3>a. e \in Actors /\ e \notin Senders
      BY DEF ActorsAssumption
    <3>2. UNCHANGED unapproved /\ unlabelled \subseteq unlabelled'
      BY <3>1 DEF EditorStep, ReadForEdit, WriteEdit
    <3>3. LabelledOr(row', unlabelled')
      <4>1. CASE WriteEdit(e)
        BY <4>1 DEF WriteEdit, LabelledOr
      <4>2. CASE ~WriteEdit(e)
        BY <2>b, <3>1, <4>2 DEF EditorStep, ReadForEdit
      <4> QED
        BY <4>1, <4>2
    <3>4. \A a \in Actors \ Editors : copy'[a] \in {copy[a], row, NoDraft}
      BY <2>b, <3>1 DEF EditorStep, ReadForEdit, WriteEdit, Finish
    <3>6. \A s \in Senders : pc'[s] # "idle" =>
            /\ pc[s] # "idle" /\ copy'[s] = copy[s]
            /\ s \in approved => s \in approved'
      BY <2>b, <3>1, <3>a DEF EditorStep, ReadForEdit, WriteEdit, Finish, Step
    <3> QED
      BY <1>2, <2>a, <3>2, <3>3, <3>4, <3>6, OthersKeepRisk
  <2>4. CASE \E d \in Drafters : DrafterStep(d)
    <3>1. PICK d \in Drafters : DrafterStep(d)
      BY <2>4
    <3>a. d \in Actors /\ d \notin Senders
      BY DEF ActorsAssumption
    <3>2. /\ UNCHANGED <<copy, approved, unapproved>>
          /\ unlabelled \subseteq unlabelled'
      BY <3>1 DEF DrafterStep, BeginDraft, ClearDraft, EndDraft, DraftFails, IgnoreEmail
    <3>3. LabelledOr(row', unlabelled')
      <4>1. CASE \E b \in Bodies : EndDraft(d, b)
        <5>1. PICK b \in Bodies : EndDraft(d, b)
          BY <4>1
        <5>2. row'.body = b
          BY <5>1 DEF EndDraft
        <5>3. row'.labelled = (b \in RiskyBodies /\ d \in InboxDrafters)
          BY <5>1, Zenon DEF EndDraft
        <5>4. d \notin InboxDrafters /\ b \in RiskyBodies => b \in unlabelled'
          BY <5>1 DEF EndDraft
        <5> QED
          BY <5>2, <5>3, <5>4, Zenon DEF LabelledOr
      <4>2. CASE BeginDraft(d) \/ ClearDraft(d) \/ DraftFails(d) \/ IgnoreEmail(d)
        <5>1. row' \in {row, NoDraft}
          BY <4>2 DEF BeginDraft, ClearDraft, DraftFails, IgnoreEmail
        <5> QED
          BY <2>b, <3>2, <5>1, NoDraftLabelled, ExcusedStays
      <4> QED
        BY <3>1, <4>1, <4>2 DEF DrafterStep
    <3>5. \A s \in Senders : pc'[s] = pc[s]
      BY <2>b, <3>1, <3>a DEF DrafterStep, BeginDraft, ClearDraft, EndDraft, DraftFails,
         IgnoreEmail, Step
    <3> QED
      BY <1>2, <2>a, <3>2, <3>3, <3>5, OthersKeepRisk
  <2>5. CASE \E a \in Actors : WaitForRow(a) \/ Crash(a)
    <3>1. PICK a \in Actors : WaitForRow(a) \/ Crash(a)
      BY <2>5
    <3>2. UNCHANGED <<row, unapproved, unlabelled>>
      BY <3>1 DEF WaitForRow, Crash
    <3>3. \A x \in Actors : copy'[x] \in {copy[x], NoDraft}
      BY <2>b, <3>1 DEF WaitForRow, Crash
    <3>5. \A s \in Senders : pc'[s] # "idle" =>
            /\ pc[s] # "idle" /\ copy'[s] = copy[s]
            /\ s \in approved => s \in approved'
      BY <2>b, <3>1 DEF WaitForRow, Crash
    <3>6. LabelledOr(row', unlabelled')
      BY <2>b, <3>2
    <3> QED
      BY <1>2, <2>a, <3>2, <3>3, <3>5, <3>6, OthersKeepRisk
  <2>6. CASE UNCHANGED vars
    BY <1>2, <2>a, <2>b, <2>6, OthersKeepRisk DEF vars
  <2> QED
    BY <1>2, <2>1, <2>2, <2>3, <2>4, <2>5, <2>6 DEF Next
<1> QED
  BY <1>1, <1>2

\* Whatever is edited, redrafted, retried or lost meanwhile, and whoever writes back what
\* he read before: what the model labels is sent without an explicit approval
\* (runtime_gate.py:225-233) only if process_drafting, which keeps no labels
\* (local_sync.py:482-489), drafted it or a person typed it.
THEOREM RiskNeedsApproval == Spec => []LabelsHold
<1>1. Init => RiskInv
  BY RiskInductive, BodiesAssumption, ActorsAssumption, FaultsAssumption
<1>2. RiskInv /\ [Next]_vars => RiskInv'
  BY RiskInductive, BodiesAssumption, ActorsAssumption, FaultsAssumption
<1>3. RiskInv => LabelsHold
  BY DEF RiskInv
<1> QED
  BY <1>1, <1>2, <1>3, PTL DEF Spec

-----------------------------------------------------------------------------
(* The row's lock, and what "sent" stands for                              *)

LockInv == TypeOK /\ LockHasOwner

LEMMA LockInductive ==
  ASSUME BodiesAssumption, ActorsAssumption, FaultsAssumption
  PROVE  (Init => LockInv) /\ (LockInv /\ [Next]_vars => LockInv')
<1> USE DEF Actors
<1>1. Init => LockInv
  BY TypeInductive DEF Init, LockInv, LockHasOwner
<1>2. ASSUME LockInv, [Next]_vars
      PROVE  LockInv'
  <2>a. TypeOK'
    BY <1>2, TypeInductive DEF LockInv
  <2>b. /\ pc \in [Actors -> Places]
        /\ rowLock # NoLock => rowLock \in Drafters /\ pc[rowLock] = "drafting"
        /\ NoLock \notin Actors
    BY <1>2 DEF LockInv, LockHasOwner, TypeOK, ActorsAssumption
  <2>1. ASSUME NEW a \in Actors \ Drafters, UNCHANGED rowLock,
               \A x \in Actors \ {a} : pc'[x] = pc[x]
        PROVE  LockInv'
    BY <2>a, <2>b, <2>1 DEF LockInv, LockHasOwner
  <2>2. CASE \E s \in Senders : SenderStep(s)
    <3>1. PICK s \in Senders : SenderStep(s)
      BY <2>2
    <3>2. s \in Actors \ Drafters
      BY DEF ActorsAssumption
    <3>3. UNCHANGED rowLock /\ \A x \in Actors \ {s} : pc'[x] = pc[x]
      BY <2>b, <3>1 DEF SenderStep, FetchDraft, FindToken, FindNoToken, ClaimToken,
         LoseToken, Deliver, DeliverFails, AnswerLost, RecordSent, RecordFailed,
         RecordOutcome, Finish, Step
    <3> QED
      BY <2>1, <3>2, <3>3
  <2>3. CASE \E c \in Clients : ClientStep(c)
    <3>1. PICK c \in Clients : ClientStep(c)
      BY <2>3
    <3>2. c \in Actors \ Drafters
      BY DEF ActorsAssumption
    <3>3. UNCHANGED rowLock /\ \A x \in Actors \ {c} : pc'[x] = pc[x]
      BY <2>b, <3>1 DEF ClientStep, ReadForSend, MarkSent, Finish, Step
    <3> QED
      BY <2>1, <3>2, <3>3
  <2>4. CASE \E e \in Editors : EditorStep(e)
    <3>1. PICK e \in Editors : EditorStep(e)
      BY <2>4
    <3>2. e \in Actors \ Drafters
      BY DEF ActorsAssumption
    <3>3. UNCHANGED rowLock /\ \A x \in Actors \ {e} : pc'[x] = pc[x]
      BY <2>b, <3>1 DEF EditorStep, ReadForEdit, WriteEdit, Finish, Step
    <3> QED
      BY <2>1, <3>2, <3>3
  <2>5. CASE \E d \in Drafters : DrafterStep(d)
    <3>1. PICK d \in Drafters : DrafterStep(d)
      BY <2>5
    <3>2. \A x \in Actors \ {d} : pc'[x] = pc[x]
      BY <2>b, <3>1 DEF DrafterStep, BeginDraft, ClearDraft, EndDraft, DraftFails,
         IgnoreEmail, Step
    <3>3. CASE BeginDraft(d)
      BY <2>a, <2>b, <3>2, <3>3 DEF BeginDraft, Step, LockInv, LockHasOwner
    <3>4. CASE ClearDraft(d)
      BY <2>a, <2>b, <3>4 DEF ClearDraft, Step, LockInv, LockHasOwner
    <3>5. CASE (\E b \in Bodies : EndDraft(d, b)) \/ DraftFails(d) \/ IgnoreEmail(d)
      <4>1. Unlock(d)
        BY <3>5 DEF EndDraft, DraftFails, IgnoreEmail
      <4> QED
        BY <2>a, <2>b, <3>2, <4>1 DEF Unlock, LockInv, LockHasOwner
    <3> QED
      BY <3>1, <3>3, <3>4, <3>5 DEF DrafterStep
  <2>6. CASE \E a \in Actors : WaitForRow(a) \/ Crash(a)
    <3>1. PICK a \in Actors : WaitForRow(a) \/ Crash(a)
      BY <2>6
    <3>2. CASE WaitForRow(a)
      BY <2>a, <2>b, <3>2 DEF WaitForRow, LockInv, LockHasOwner
    <3>3. CASE Crash(a)
      BY <2>a, <2>b, <3>3 DEF Crash, Unlock, LockInv, LockHasOwner
    <3> QED
      BY <3>1, <3>2, <3>3
  <2>7. CASE UNCHANGED vars
    BY <1>2, <2>7, <2>a DEF vars, LockInv, LockHasOwner
  <2> QED
    BY <1>2, <2>2, <2>3, <2>4, <2>5, <2>6, <2>7 DEF Next
<1> QED
  BY <1>1, <1>2

\* Whatever fails between the flush that clears a draft (drafting.py:165) and
\* the commit of the next one, the row is not left locked.
THEOREM LockIsOwned == Spec => []LockHasOwner
<1>1. Init => LockInv
  BY LockInductive, BodiesAssumption, ActorsAssumption, FaultsAssumption
<1>2. LockInv /\ [Next]_vars => LockInv'
  BY LockInductive, BodiesAssumption, ActorsAssumption, FaultsAssumption
<1>3. LockInv => LockHasOwner
  BY DEF LockInv
<1> QED
  BY <1>1, <1>2, <1>3, PTL DEF Spec

-----------------------------------------------------------------------------

Accounted(draft) ==
  draft.status = "sent" =>
    \/ draft.body \in marked \union retyped
    \/ draft.body \in Bodies /\ Delivered(draft.body)

\* Behind an outcome that is still to be recorded stands a mail.
SentInv ==
  /\ TypeOK
  /\ Accounted(row)
  /\ \A s \in Senders : pc[s] = "delivered" => Delivered(copy[s].body)

\* Mails are never unsent.
LEMMA MailsStay ==
  ASSUME SentInv, NEW s \in Senders, SenderStep(s), NEW b \in Bodies
  PROVE  Delivered(b) => Delivered(b)'
<1>1. CASE Deliver(s) \/ AnswerLost(s)
  BY <1>1 DEF Deliver, AnswerLost, CountDelivery, OneMore, Delivered, SentInv, TypeOK
<1>2. CASE ~(Deliver(s) \/ AnswerLost(s))
  <2>1. UNCHANGED deliveries
    BY <1>2 DEF SenderStep, FetchDraft, FindToken, FindNoToken, ClaimToken, LoseToken,
       DeliverFails, RecordSent, RecordFailed, RecordOutcome
  <2> QED
    BY <2>1 DEF Delivered
<1> QED
  BY <1>1, <1>2

LEMMA SenderKeepsSent ==
  ASSUME SentInv, TypeOK', NEW s \in Senders, SenderStep(s)
  PROVE  SentInv'
<1> USE DEF Actors
<1>a. /\ pc \in [Actors -> Places] /\ copy \in [Actors -> Drafts]
      /\ \A t \in Senders : pc[t] # "idle" => copy[t].body \in Bodies
  BY DEF SentInv, TypeOK
<1>b. UNCHANGED <<marked, retyped>>
  BY DEF SenderStep, FetchDraft, FindToken, FindNoToken, ClaimToken, LoseToken, Deliver,
     DeliverFails, AnswerLost, RecordSent, RecordFailed, RecordOutcome
<1>1. Accounted(row)'
  <2>1. CASE RecordSent(s)
    <3>1. pc[s] = "delivered" /\ row' = [copy[s] EXCEPT !.status = "sent"]
          /\ UNCHANGED deliveries
      BY <2>1 DEF RecordSent, RecordOutcome, Finish, Step
    <3>2. row'.body = copy[s].body /\ copy[s].body \in Bodies /\ Delivered(copy[s].body)
      BY <1>a, <3>1 DEF SentInv, Drafts
    <3> QED
      BY <3>1, <3>2 DEF Accounted, Delivered
  <2>2. CASE RecordFailed(s)
    <3>1. row'.status = "failed"
      BY <1>a, <2>2 DEF RecordFailed, RecordOutcome, Drafts
    <3> QED
      BY <3>1 DEF Accounted
  <2>3. CASE ~RecordSent(s) /\ ~RecordFailed(s)
    <3>1. UNCHANGED row
      BY <2>3 DEF SenderStep, FetchDraft, FindToken, FindNoToken, ClaimToken, LoseToken,
         Deliver, DeliverFails, AnswerLost
    <3> QED
      BY <1>b, <3>1, MailsStay DEF SentInv, Accounted
  <2> QED
    BY <2>1, <2>2, <2>3
<1>2. \A t \in Senders : pc'[t] = "delivered" => Delivered(copy[t].body)'
  <2>1. CASE Deliver(s)
    <3>1. copy[s].body \in Bodies /\ UNCHANGED copy
      BY <1>a, <2>1 DEF Deliver, Step
    <3>2. Delivered(copy[s].body)'
      BY <2>1, <3>1 DEF Deliver, CountDelivery, OneMore, Delivered, SentInv, TypeOK
    <3>3. \A t \in Senders \ {s} : pc'[t] = pc[t]
      BY <1>a, <2>1 DEF Deliver, Step
    <3>4. \A t \in Senders \ {s} : pc[t] = "delivered" => Delivered(copy[t].body)'
      BY <1>a, <3>1, MailsStay DEF SentInv, Delivered
    <3> QED
      BY <3>2, <3>3, <3>4
  <2>2. CASE ~Deliver(s)
    <3>1. \A t \in Senders : pc'[t] = "delivered" =>
            pc[t] = "delivered" /\ copy'[t] = copy[t]
      BY <1>a, <2>2 DEF SenderStep, FetchDraft, FindToken, FindNoToken, ClaimToken,
         LoseToken, DeliverFails, AnswerLost, RecordSent, RecordFailed, RecordOutcome,
         Finish, Step
    <3> QED
      BY <1>a, <3>1, MailsStay DEF SentInv, Delivered
  <2> QED
    BY <2>1, <2>2
<1> QED
  BY <1>1, <1>2 DEF SentInv

\* The steps of the others send nothing.
LEMMA OthersKeepSent ==
  ASSUME SentInv, TypeOK', UNCHANGED deliveries,
         \/ row' = row /\ marked \subseteq marked' /\ retyped \subseteq retyped'
         \/ row'.status # "sent"
         \/ row'.body \in marked' \union retyped',
         \A s \in Senders : pc'[s] = "delivered" =>
           pc[s] = "delivered" /\ copy'[s] = copy[s]
  PROVE  SentInv'
BY DEF SentInv, Accounted, Delivered

LEMMA SentInductive ==
  ASSUME BodiesAssumption, ActorsAssumption, FaultsAssumption
  PROVE  (Init => SentInv) /\ (SentInv /\ [Next]_vars => SentInv')
<1> USE DEF Actors
<1>1. Init => SentInv
  BY TypeInductive DEF Init, SentInv, Accounted, NoDraft
<1>2. ASSUME SentInv, [Next]_vars
      PROVE  SentInv'
  <2>a. TypeOK'
    BY <1>2, TypeInductive DEF SentInv
  <2>b. /\ pc \in [Actors -> Places] /\ copy \in [Actors -> Drafts] /\ row \in Drafts
        /\ NoDraft.status # "sent"
    BY <1>2 DEF SentInv, TypeOK, NoDraft
  <2>1. CASE \E s \in Senders : SenderStep(s)
    BY <1>2, <2>a, <2>1, SenderKeepsSent
  <2>2. CASE \E c \in Clients : ClientStep(c)
    <3>1. PICK c \in Clients : ClientStep(c)
      BY <2>2
    <3>2. c \in Actors /\ c \notin Senders /\ copy[c] \in Drafts
      BY <2>b DEF ActorsAssumption
    <3>3. UNCHANGED <<deliveries, retyped>>
          /\ \/ UNCHANGED <<row, marked>>
             \/ row'.body \in marked'
      BY <3>1, <3>2 DEF ClientStep, ReadForSend, MarkSent, Drafts
    <3>4. \A s \in Senders : pc'[s] = pc[s] /\ copy'[s] = copy[s]
      BY <2>b, <3>1, <3>2 DEF ClientStep, ReadForSend, MarkSent, Finish, Step
    <3> QED
      BY <1>2, <2>a, <3>3, <3>4, OthersKeepSent
  <2>3. CASE \E e \in Editors : EditorStep(e)
    <3>1. PICK e \in Editors : EditorStep(e)
      BY <2>3
    <3>2. e \in Actors /\ e \notin Senders
      BY DEF ActorsAssumption
    <3>3. /\ UNCHANGED <<deliveries, marked>>
          /\ \/ UNCHANGED <<row, retyped>>
             \/ row'.status # "sent"
             \/ row'.body \in retyped'
      BY <3>1 DEF EditorStep, ReadForEdit, WriteEdit
    <3>4. \A s \in Senders : pc'[s] = pc[s] /\ copy'[s] = copy[s]
      BY <2>b, <3>1, <3>2 DEF EditorStep, ReadForEdit, WriteEdit, Finish, Step
    <3> QED
      BY <1>2, <2>a, <3>3, <3>4, OthersKeepSent
  <2>4. CASE \E d \in Drafters : DrafterStep(d)
    <3>1. PICK d \in Drafters : DrafterStep(d)
      BY <2>4
    <3>2. d \in Actors /\ d \notin Senders
      BY DEF ActorsAssumption
    <3>3. /\ UNCHANGED <<copy, deliveries, marked, retyped>>
          /\ row' = row \/ row'.status # "sent"
      BY <2>b, <3>1 DEF DrafterStep, BeginDraft, ClearDraft, EndDraft, DraftFails,
         IgnoreEmail
    <3>4. \A s \in Senders : pc'[s] = pc[s]
      BY <2>b, <3>1, <3>2 DEF DrafterStep, BeginDraft, ClearDraft, EndDraft, DraftFails,
         IgnoreEmail, Step
    <3> QED
      BY <1>2, <2>a, <3>3, <3>4, OthersKeepSent
  <2>5. CASE \E a \in Actors : WaitForRow(a) \/ Crash(a)
    <3>1. PICK a \in Actors : WaitForRow(a) \/ Crash(a)
      BY <2>5
    <3>2. UNCHANGED <<row, deliveries, marked, retyped>>
      BY <3>1 DEF WaitForRow, Crash
    <3>3. \A s \in Senders : pc'[s] = "delivered" =>
            pc[s] = "delivered" /\ copy'[s] = copy[s]
      BY <2>b, <3>1 DEF WaitForRow, Crash
    <3> QED
      BY <1>2, <2>a, <3>2, <3>3, OthersKeepSent
  <2>6. CASE UNCHANGED vars
    BY <1>2, <2>a, <2>6, OthersKeepSent DEF vars
  <2> QED
    BY <1>2, <2>1, <2>2, <2>3, <2>4, <2>5, <2>6 DEF Next
<1> QED
  BY <1>1, <1>2

\* With the route /drafts/send, which marks a draft and sends nothing (routes.py:871-899),
\* with edits of drafts that are marked, and with everybody writing back what he read
\* before: a draft is marked sent only if its body was mailed
\* (action_executor.py:241-259), marked by the route or typed over a marked one.
THEOREM SentIsEarned == Spec => []SentIsAccounted
<1>1. Init => SentInv
  BY SentInductive, BodiesAssumption, ActorsAssumption, FaultsAssumption
<1>2. SentInv /\ [Next]_vars => SentInv'
  BY SentInductive, BodiesAssumption, ActorsAssumption, FaultsAssumption
<1>3. SentInv => SentIsAccounted
  BY DEF SentInv, SentIsAccounted, Accounted
<1> QED
  BY <1>1, <1>2, <1>3, PTL DEF Spec

=============================================================================
