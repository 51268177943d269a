------------------------- MODULE WorkspaceSettings -------------------------
(***************************************************************************)
(* workspaces.settings_json: one document with the user's settings, the    *)
(* primary account, and what workers keep about the workspace. Everyone    *)
(* who changes a key reads the whole document, changes its copy, and       *)
(* writes the whole document; four server processes and the workers do so  *)
(* side by side. The forms of the page read the settings when they open    *)
(* and send all the keys they know when they save.                         *)
(***************************************************************************)
EXTENDS Integers, FiniteSets

CONSTANTS
  Texts,      \* what a user may enter
  MaxOpen,    \* bound: forms open at a time
  MaxAtOnce,  \* bound: changes under way
  MaxCommits  \* bound: writes of the document

VARIABLES
  doc,     \* settings_json
  form,    \* the forms that are open: what each shows, and whether its answer is due
  copy,    \* who is changing the document: the copy read, and the keys to set
  commits, \* writes so far
  last,    \* what was written last under each key, unless crossed
  crossed  \* whether somebody wrote a copy read before another's write

vars == <<doc, form, copy, commits, last, crossed>>

\* Of the user's settings, two that every form sends and not every form can edit.
FormKeys == {"draft_tone", "attend_meetings"}
SettingsEdits == {"attend_meetings"}
GuidelinesEdits == {"draft_tone"}
WizardEdits == {"draft_tone"}
Editable == [settings |-> SettingsEdits, guidelines |-> GuidelinesEdits, wizard |-> WizardEdits]
Keys == FormKeys \union
        {"primary_email_provider", "last_preflight_result", "last_briefing", "_runtime_state"}
Unset == "unset"
Values == Texts \union {Unset, "connected", "result"}

NoDoc == [k \in {} |-> Unset]  \* NULL, or without keys
Empty == [k \in Keys |-> Unset]
Forms == {"settings", "guidelines", "wizard"}
Closed == [loading |-> FALSE]
Defaults == [k \in FormKeys |-> Unset]
Idle == [pc |-> "idle"]

\* Who changes the document, each at most once at a time.
Saving == {"put", "onboarding"}
Writers == Saving \union {"primary", "preflight", "briefing", "runtime", "analytics"}

Init ==
  /\ doc = NoDoc
  /\ form = [f \in Forms |-> Closed]
  /\ copy = [w \in Writers |-> Idle]
  /\ commits = 0
  /\ last = Empty
  /\ crossed = FALSE

\* dict(workspace.settings_json or {})
Held == IF doc = NoDoc THEN Empty ELSE doc

\* update(): the keys that are set replace those of the copy, and no other.
MergedAnew(old, sets) == [k \in Keys |-> IF k \in DOMAIN sets THEN sets[k] ELSE Unset]
Merged(old, sets) == [k \in Keys |-> IF k \in DOMAIN sets THEN sets[k] ELSE old[k]]

Read(w, sets) ==
  /\ copy[w] = Idle
  /\ Cardinality({x \in Writers : copy[x] # Idle}) < MaxAtOnce
  /\ commits < MaxCommits
  /\ copy' = [copy EXCEPT ![w] =
       [pc |-> "writing", old |-> doc, sets |-> sets, stale |-> FALSE]]
  /\ UNCHANGED <<doc, commits, last, crossed>>

-----------------------------------------------------------------------------
(* The forms                                                               *)

\* The wizard reads nothing.
OpenForm(f) ==
  /\ form[f] = Closed
  /\ Cardinality({x \in Forms : form[x] # Closed}) < MaxOpen
  /\ form' = [form EXCEPT ![f] = [shown |-> Defaults, loading |-> f # "wizard"]]
  /\ UNCHANGED <<doc, copy, commits, last, crossed>>

CloseForm(f) ==
  /\ form[f] # Closed
  /\ form' = [form EXCEPT ![f] = Closed]
  /\ UNCHANGED <<doc, copy, commits, last, crossed>>

\* GET /settings answers the settings themselves, next to the workspace's id.
Answer == [k \in {"workspace_id"} \union FormKeys |->
             IF k = "workspace_id" THEN "id" ELSE Held[k]]

\* getAaliyahSettings takes response.data.settings; without data the form is left alone.
Filled(config, answer) ==
  IF "settings" \in DOMAIN answer THEN answer["settings"] ELSE config

SettingsLoad(f) ==
  /\ form[f].loading
  /\ form' = [form EXCEPT ![f].loading = FALSE, ![f].shown = Filled(@, Answer)]
  /\ UNCHANGED <<doc, copy, commits, last, crossed>>

\* setConfig, and setState in the wizard
Edit(f) ==
  /\ form[f] # Closed
  /\ \E t \in Texts, k \in Editable[f] : form' = [form EXCEPT ![f].shown[k] = t]
  /\ UNCHANGED <<doc, copy, commits, last, crossed>>

\* handleSave sends what the form shows, whether it was edited or not.
UpdateSettings(f) ==
  /\ f \in {"settings", "guidelines"}
  /\ form[f] # Closed
  /\ Read("put", form[f].shown)
  /\ UNCHANGED form

CompleteOnboarding ==
  /\ form["wizard"] # Closed
  /\ Read("onboarding", form["wizard"].shown)
  /\ UNCHANGED form

-----------------------------------------------------------------------------
(* The other writers                                                       *)

\* POST /connectors/primary/email: the provider is set, or popped for "none".
SetPrimaryEmail ==
  /\ \E v \in {"connected", Unset} : Read("primary", [k \in {"primary_email_provider"} |-> v])
  /\ UNCHANGED form

RunPreflight ==
  /\ Read("preflight", [k \in {"last_preflight_result"} |-> "result"])
  /\ UNCHANGED form

\* The session has read the workspace before it asks the model, and keeps what it read.
GenerateBriefing ==
  /\ Read("briefing", [k \in {"last_briefing"} |-> "result"])
  /\ UNCHANGED form

SavePersistedState ==
  /\ Read("runtime", [k \in {"_runtime_state"} |-> "result"])
  /\ UNCHANGED form

\* The minutes saved by a triage, and the settings of the automatic chat, are put into
\* the document that was read itself: SQLAlchemy sees no change and writes nothing,
\* unless there was no document.
CountTimeSaved ==
  /\ Read("analytics", [k \in {} |-> Unset])
  /\ UNCHANGED form

Old(w) == IF copy[w].old = NoDoc THEN Empty ELSE copy[w].old

\* The write of w, and where w goes next; the copies of the others are stale from then on.
Write(w, next) ==
  /\ doc' = Merged(Old(w), copy[w].sets)
  /\ crossed' = (crossed \/ copy[w].stale)
  /\ last' = IF crossed' THEN Empty
             ELSE [k \in Keys |-> IF k \in DOMAIN copy[w].sets THEN copy[w].sets[k] ELSE last[k]]
  /\ commits' = commits + 1
  /\ copy' = [x \in Writers |-> IF x = w THEN next
                                ELSE IF copy[x] = Idle THEN Idle
                                ELSE [copy[x] EXCEPT !.stale = TRUE]]
  /\ UNCHANGED form

\* db.commit(); PUT /settings and the wizard write the same document once more.
Commit(w) ==
  /\ copy[w].pc = "writing"
  /\ w # "analytics" \/ copy[w].old = NoDoc
  /\ Write(w, IF w \in Saving THEN [copy[w] EXCEPT !.pc = "forcing", !.stale = FALSE] ELSE Idle)

ForceUpdate(w) ==
  /\ copy[w].pc = "forcing"
  /\ Write(w, Idle)

\* The request or the task fails, or its process dies, or SQLAlchemy has nothing to
\* write; the second write may be refused.
Fails(w) ==
  /\ copy[w] # Idle
  /\ copy' = [copy EXCEPT ![w] = Idle]
  /\ UNCHANGED <<doc, form, commits, last, crossed>>

-----------------------------------------------------------------------------
Next ==
  \/ \E f \in Forms :
       \/ OpenForm(f) \/ CloseForm(f) \/ SettingsLoad(f) \/ Edit(f) \/ UpdateSettings(f)
  \/ CompleteOnboarding \/ SetPrimaryEmail \/ RunPreflight \/ GenerateBriefing
  \/ SavePersistedState \/ CountTimeSaved
  \/ \E w \in Writers : Commit(w) \/ ForceUpdate(w) \/ Fails(w)

Spec == Init /\ [][Next]_vars

-----------------------------------------------------------------------------
TypeOK ==
  /\ doc \in [Keys -> Values] \union {NoDoc}
  /\ form \in [Forms -> {Closed} \union [shown : [FormKeys -> Values], loading : BOOLEAN]]
  /\ last \in [Keys -> Values]
  /\ crossed \in BOOLEAN
  /\ \A w \in Writers :
       \/ copy[w] = Idle
       \/ /\ copy[w].pc \in {"writing", "forcing"}
          /\ copy[w].old \in [Keys -> Values] \union {NoDoc}
          /\ DOMAIN copy[w].sets \subseteq Keys

\* What was saved under a key stays until something is saved under that key, whoever
\* writes the document in between: the primary account outlives a save of the form, the
\* user's settings outlive a preflight, a briefing or a worker's state. It fails
\* once a copy is written over a document that has changed since it was read.
SavedStands == crossed \/ Held = last

\* A form that is opened shows what is stored, as long as the user has entered nothing.
FormShowsSaved ==
  [][\A f \in Forms : SettingsLoad(f) /\ form[f].shown = Defaults =>
       \A k \in FormKeys : form'[f].shown[k] = Held[k]]_vars
=============================================================================
