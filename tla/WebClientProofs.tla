--------------------------- MODULE WebClientProofs ---------------------------
(* Proofs about the parts of the page that wait and overlap, for any       *)
(* conversations, threads, messages, letters and streams, and without a    *)
(* bound on commands, retries or writes.                                   *)
EXTENDS WebClient, Sequences, TLAPS

\* A step of the page is a step of the part that the behaviour is about, and leaves
\* the other parts alone.
LEMMA StepOfOnePart ==
  ASSUME [ClientNext]_client
  PROVE  /\ [Next]_vars
         /\ [Feed!Next]_feeds
         /\ [Chat!Next]_chat
         /\ [Compose!Next]_composer
         /\ [Stream!Next]_stream
<1>1. CASE UNCHANGED client
  <2>1. UNCHANGED <<stream, chat, vars, feeds, composer>>
    BY <1>1 DEF client
  <2>. QED BY <2>1
<1>2. CASE ClientNext
  BY <1>2, Zenon DEF ClientNext, Of, Unless
<1>. QED BY <1>1, <1>2

-----------------------------------------------------------------------------
(* The settings: as long as nobody writes over a document that has changed *)
(* since it was read, nothing that was saved is lost.                      *)

IsCopy(c) ==
  /\ DOMAIN c = {"pc", "old", "sets", "stale"}
  /\ c.pc \in {"writing", "forcing"}
  /\ c.stale \in BOOLEAN

\* A copy that is not stale stands for the document: as it was read, or, before the second
\* write of the same save, as the first one has left it.
Faithful(w) ==
  IF copy[w].pc = "writing" THEN Old(w) = Held ELSE Held = Merged(Old(w), copy[w].sets)

CopiesInv ==
  /\ DOMAIN copy = Writers
  /\ \A w \in Writers : copy[w] # Idle => IsCopy(copy[w])

SavedInv ==
  /\ CopiesInv
  /\ crossed \in BOOLEAN
  /\ ~crossed => /\ Held = last
                 /\ \A w \in Writers : copy[w] # Idle /\ ~copy[w].stale => Faithful(w)

\* What is written has keys, so it is not taken for a document that is missing.
LEMMA MergedIsHeld ==
  ASSUME NEW old, NEW sets, doc' = Merged(old, sets)
  PROVE  Held' = Merged(old, sets)
<1>1. "draft_tone" \in DOMAIN Merged(old, sets)
  BY DEF Merged, Keys, FormKeys
<1>2. "draft_tone" \notin DOMAIN NoDoc
  BY DEF NoDoc
<1>3. doc' # NoDoc
  BY <1>1, <1>2
<1>. QED BY <1>3 DEF Held

LEMMA SavedInvInit == Init => SavedInv
<1>. SUFFICES ASSUME Init PROVE SavedInv
  OBVIOUS
<1>1. Held = Empty
  BY DEF Init, Held
<1>. QED BY <1>1 DEF Init, SavedInv, CopiesInv, Empty, Idle, Writers, Saving

\* The copy that is read is the document.
LEMMA ReadKeepsSavedInv ==
  ASSUME SavedInv, NEW w \in Writers, NEW sets, Read(w, sets)
  PROVE  SavedInv'
<1>. DEFINE c == [pc |-> "writing", old |-> doc, sets |-> sets, stale |-> FALSE]
<1>1. copy' = [copy EXCEPT ![w] = c] /\ Held' = Held /\ last' = last /\ crossed' = crossed
  BY DEF Read, Held
<1>2. IsCopy(c)
  BY DEF IsCopy
<1>3. CopiesInv'
  BY <1>1, <1>2 DEF SavedInv, CopiesInv
<1>4. ASSUME NEW x \in Writers, ~crossed, copy'[x] # Idle, ~copy'[x].stale
      PROVE  Faithful(x)'
  <2>1. CASE x = w
    <3>1. copy'[x] = c
      BY <1>1, <2>1 DEF SavedInv, CopiesInv
    <3>. QED BY <1>1, <3>1 DEF Faithful, Old, Held
  <2>2. CASE x # w
    <3>1. copy'[x] = copy[x]
      BY <1>1, <2>2 DEF SavedInv, CopiesInv
    <3>2. Faithful(x)
      BY <1>4, <3>1 DEF SavedInv
    <3>. QED BY <1>1, <3>1, <3>2 DEF Faithful, Old
  <2>. QED BY <2>1, <2>2
<1>. QED BY <1>1, <1>3, <1>4 DEF SavedInv

\* A copy that is not stale adds to the document what it sets.
LEMMA WriteKeepsSaved ==
  ASSUME SavedInv, NEW w \in Writers, copy[w] # Idle, NEW next, Write(w, next), ~crossed'
  PROVE  /\ ~crossed /\ ~copy[w].stale
         /\ Held' = last'
         /\ Held' = Merged(Old(w), copy[w].sets)
<1>1. ~crossed /\ ~copy[w].stale
  BY DEF Write, SavedInv
<1>2. Held = last /\ Faithful(w)
  BY <1>1 DEF SavedInv
<1>3. Held' = Merged(Old(w), copy[w].sets)
  BY MergedIsHeld DEF Write
<1>4. last' = Merged(last, copy[w].sets)
  BY DEF Write, Merged
<1>5. Merged(Held, copy[w].sets) = Merged(Old(w), copy[w].sets)
  <2>1. CASE copy[w].pc = "writing"
    BY <1>2, <2>1 DEF Faithful
  <2>2. CASE copy[w].pc # "writing"
    BY <1>2, <2>2 DEF Faithful, Merged
  <2>. QED BY <2>1, <2>2
<1>. QED BY <1>1, <1>2, <1>3, <1>4, <1>5

\* After a write every other copy is stale, and the writer's own, if it writes once more,
\* is what the document has become.
LEMMA WriteKeepsSavedInv ==
  ASSUME SavedInv, NEW w \in Writers, copy[w] # Idle, NEW next, Write(w, next),
         \/ next = Idle
         \/ next = [copy[w] EXCEPT !.pc = "forcing", !.stale = FALSE]
  PROVE  SavedInv'
<1>1. IsCopy(copy[w])
  BY DEF SavedInv, CopiesInv
<1>2. copy' = [x \in Writers |-> IF x = w THEN next
                                ELSE IF copy[x] = Idle THEN Idle
                                ELSE [copy[x] EXCEPT !.stale = TRUE]]
  BY DEF Write
<1>3. next # Idle => /\ IsCopy(next)
                     /\ next.pc = "forcing" /\ next.old = copy[w].old /\ next.sets = copy[w].sets
  BY <1>1 DEF IsCopy
<1>4. CopiesInv'
  <2>1. ASSUME NEW x \in Writers, copy'[x] # Idle
        PROVE  IsCopy(copy'[x])
    <3>1. CASE x = w
      BY <1>2, <1>3, <2>1, <3>1
    <3>2. CASE x # w
      <4>1. copy[x] # Idle /\ copy'[x] = [copy[x] EXCEPT !.stale = TRUE]
        BY <1>2, <2>1, <3>2
      <4>2. IsCopy(copy[x])
        BY <4>1 DEF SavedInv, CopiesInv
      <4>. QED BY <4>1, <4>2 DEF IsCopy
    <3>. QED BY <3>1, <3>2
  <2>. QED BY <1>2, <2>1 DEF CopiesInv
<1>5. crossed' \in BOOLEAN
  BY <1>1 DEF Write, SavedInv, IsCopy
<1>6. ASSUME ~crossed', NEW x \in Writers, copy'[x] # Idle, ~copy'[x].stale
      PROVE  Faithful(x)'
  <2>1. CASE x = w
    <3>1. copy'[x] = next /\ next # Idle
      BY <1>2, <1>6, <2>1
    <3>2. Held' = Merged(Old(w), copy[w].sets)
      BY <1>6, WriteKeepsSaved
    <3>. QED BY <1>3, <2>1, <3>1, <3>2 DEF Faithful, Old
  <2>2. CASE x # w
    <3>1. copy[x] # Idle /\ copy'[x] = [copy[x] EXCEPT !.stale = TRUE]
      BY <1>2, <1>6, <2>2
    <3>2. IsCopy(copy[x])
      BY <3>1 DEF SavedInv, CopiesInv
    <3>3. copy'[x].stale
      BY <3>1, <3>2 DEF IsCopy
    <3>. QED BY <1>6, <3>3
  <2>. QED BY <2>1, <2>2
<1>7. ~crossed' => Held' = last'
  BY WriteKeepsSaved
<1>. QED BY <1>4, <1>5, <1>6, <1>7 DEF SavedInv

\* A copy that is given up changes nothing.
LEMMA FailKeepsSavedInv ==
  ASSUME SavedInv, NEW w \in Writers, Fails(w)
  PROVE  SavedInv'
<1>1. /\ copy' = [copy EXCEPT ![w] = Idle]
      /\ Held' = Held /\ last' = last /\ crossed' = crossed
  BY DEF Fails, Held
<1>2. \A x \in Writers : copy'[x] # Idle => copy'[x] = copy[x]
  BY <1>1 DEF SavedInv, CopiesInv
<1>3. CopiesInv'
  BY <1>1, <1>2 DEF SavedInv, CopiesInv
<1>4. ASSUME NEW x \in Writers, ~crossed, copy'[x] # Idle, ~copy'[x].stale
      PROVE  Faithful(x)'
  <2>1. Faithful(x)
    BY <1>2, <1>4 DEF SavedInv
  <2>. QED BY <1>1, <1>2, <1>4, <2>1 DEF Faithful, Old
<1>. QED BY <1>1, <1>3, <1>4 DEF SavedInv

LEMMA FormsKeepSavedInv ==
  ASSUME SavedInv, UNCHANGED <<doc, copy, last, crossed>>
  PROVE  SavedInv'
<1>1. Held' = Held /\ copy' = copy /\ last' = last /\ crossed' = crossed
  BY DEF Held
<1>. QED BY <1>1 DEF SavedInv, CopiesInv, Faithful, Old

LEMMA SavedInvStep ==
  ASSUME SavedInv, [Next]_vars
  PROVE  SavedInv'
<1>1. ASSUME NEW f \in Forms, OpenForm(f) \/ CloseForm(f) \/ SettingsLoad(f) \/ Edit(f)
      PROVE  SavedInv'
  BY <1>1, FormsKeepSavedInv DEF OpenForm, CloseForm, SettingsLoad, Edit
<1>2. ASSUME NEW f \in Forms, UpdateSettings(f) PROVE SavedInv'
  BY <1>2, ReadKeepsSavedInv DEF UpdateSettings, Writers, Saving
<1>3. CASE CompleteOnboarding
  BY <1>3, ReadKeepsSavedInv DEF CompleteOnboarding, Writers, Saving
<1>4. CASE SetPrimaryEmail
  BY <1>4, ReadKeepsSavedInv DEF SetPrimaryEmail, Writers, Saving
<1>5. CASE RunPreflight \/ GenerateBriefing \/ SavePersistedState \/ CountTimeSaved
  BY <1>5, ReadKeepsSavedInv
     DEF RunPreflight, GenerateBriefing, SavePersistedState, CountTimeSaved, Writers, Saving
<1>6. ASSUME NEW w \in Writers, Commit(w) PROVE SavedInv'
  <2>1. copy[w] # Idle
    BY <1>6 DEF Commit, Idle
  <2>. QED BY <1>6, <2>1, WriteKeepsSavedInv DEF Commit
<1>7. ASSUME NEW w \in Writers, ForceUpdate(w) PROVE SavedInv'
  <2>1. copy[w] # Idle
    BY <1>7 DEF ForceUpdate, Idle
  <2>. QED BY <1>7, <2>1, WriteKeepsSavedInv DEF ForceUpdate
<1>8. ASSUME NEW w \in Writers, Fails(w) PROVE SavedInv'
  BY <1>8, FailKeepsSavedInv
<1>9. CASE UNCHANGED vars
  BY <1>9, FormsKeepSavedInv DEF vars
<1>. QED
  BY <1>1, <1>2, <1>3, <1>4, <1>5, <1>6, <1>7, <1>8, <1>9 DEF Next

\* What was saved under a key of settings_json stays until something is saved under that
\* key, whichever of the other writers (the forms, the wizard, the primary account, the
\* preflight, the briefing, the workers) writes the document in between, unless one of them
\* writes a copy that was read before another's write.
THEOREM SavedIsKept == ClientSpec => []SavedStands
<1>1. ClientInit => SavedInv
  BY SavedInvInit DEF ClientInit
<1>2. SavedInv /\ [ClientNext]_client => SavedInv'
  BY SavedInvStep, StepOfOnePart
<1>3. SavedInv => SavedStands
  BY DEF SavedInv, SavedStands
<1>. QED BY <1>1, <1>2, <1>3, PTL DEF ClientSpec

-----------------------------------------------------------------------------
(* The feed                                                                *)

\* Requests are numbered upwards, so the number that a cancellation takes belongs to
\* no request under way: without this a cancelled Feed!command could be answered for the next.
Numbered ==
  /\ requestId \in Nat
  /\ posted \subseteq 1..requestId

Switches == submitting \in BOOLEAN /\ delay \in BOOLEAN /\ working \in BOOLEAN

FeedInv == Numbered /\ Switches /\ Feed!OverlayFollowsRequest

LEMMA FeedInvInit == Feed!Init => FeedInv
<1>. SUFFICES ASSUME Feed!Init PROVE FeedInv
  OBVIOUS
<1>1. Numbered
  BY DEF Feed!Init, Numbered
<1>2. Switches
  BY Zenon DEF Feed!Init, Switches
<1>3. Feed!OverlayFollowsRequest
  BY Zenon DEF Feed!Init, Feed!OverlayFollowsRequest
<1>. QED BY <1>1, <1>2, <1>3 DEF FeedInv

\* A new number is above every number under way.
LEMMA NextNumberIsNew ==
  ASSUME Numbered
  PROVE  requestId + 1 \notin posted
  BY DEF Numbered

\* Conversations and their fetches leave the Feed!command alone.
LEMMA CommandIsLeft ==
  ASSUME FeedInv, UNCHANGED Feed!command
  PROVE  FeedInv'
<1>1. /\ requestId' = requestId /\ posted' = posted /\ submitting' = submitting
      /\ delay' = delay /\ working' = working
  BY DEF Feed!command
<1>. QED BY <1>1 DEF FeedInv, Numbered, Switches, Feed!OverlayFollowsRequest

LEMMA FeedInvStep ==
  ASSUME FeedInv, [Feed!Next]_feeds
  PROVE  FeedInv'
<1>1. ASSUME NEW c \in Feed!All, Feed!Open(c) PROVE FeedInv'
  BY <1>1, CommandIsLeft DEF Feed!Open
<1>2. ASSUME NEW c \in Conversations, Feed!FetchAnswers(c) \/ Feed!FetchFails(c) PROVE FeedInv'
  BY <1>2, CommandIsLeft DEF Feed!FetchAnswers, Feed!FetchFails
<1>3. CASE Feed!HandleSend
  <2>1. Numbered'
    BY <1>3 DEF Feed!HandleSend, FeedInv, Numbered
  <2>2. Switches'
    BY <1>3 DEF Feed!HandleSend, FeedInv, Switches
  <2>3. Feed!OverlayFollowsRequest'
    BY <1>3 DEF Feed!HandleSend, Feed!OverlayFollowsRequest
  <2>. QED BY <2>1, <2>2, <2>3 DEF FeedInv
<1>4. CASE Feed!DelayFires
  BY <1>4 DEF Feed!DelayFires, FeedInv, Numbered, Switches, Feed!OverlayFollowsRequest
<1>5. ASSUME NEW id \in Feed!Ids, Feed!SendAnswers(id) PROVE FeedInv'
  <2>1. posted' = posted \ {id} /\ requestId' = requestId
    BY <1>5 DEF Feed!SendAnswers
  <2>2. Numbered'
    BY <2>1 DEF FeedInv, Numbered
  <2>3. CASE id = requestId
    <3>1. submitting' = FALSE /\ delay' = FALSE /\ working' = FALSE
      BY <1>5, <2>3 DEF Feed!SendAnswers, Feed!IsCurrent, Feed!StopWorking
    <3>2. Switches' /\ Feed!OverlayFollowsRequest'
      BY <2>1, <2>3, <3>1 DEF Switches, Feed!OverlayFollowsRequest
    <3>. QED BY <2>2, <3>2 DEF FeedInv
  <2>4. CASE id # requestId
    <3>1. submitting' = submitting /\ delay' = delay /\ working' = working
      BY <1>5, <2>4 DEF Feed!SendAnswers, Feed!IsCurrent
    <3>2. requestId' \in posted' <=> requestId \in posted
      BY <2>1, <2>4
    <3>3. Switches' /\ Feed!OverlayFollowsRequest'
      BY <3>1, <3>2 DEF FeedInv, Switches, Feed!OverlayFollowsRequest
    <3>. QED BY <2>2, <3>3 DEF FeedInv
  <2>. QED BY <2>3, <2>4
<1>6. CASE Feed!CancelWorking
  <2>1. /\ requestId' = requestId + 1 /\ posted' = posted
        /\ submitting' = FALSE /\ delay' = FALSE /\ working' = FALSE
    BY <1>6 DEF Feed!CancelWorking, Feed!StopWorking
  <2>2. Numbered' /\ requestId' \notin posted'
    BY <2>1, NextNumberIsNew DEF FeedInv, Numbered
  <2>3. Switches' /\ Feed!OverlayFollowsRequest'
    BY <2>1, <2>2 DEF Switches, Feed!OverlayFollowsRequest
  <2>. QED BY <2>2, <2>3 DEF FeedInv
<1>7. CASE Feed!Remount
  <2>1. /\ requestId' = 0 /\ posted' = {}
        /\ submitting' = FALSE /\ delay' = FALSE /\ working' = FALSE
    BY <1>7 DEF Feed!Remount, Feed!StopWorking
  <2>. QED BY <2>1 DEF FeedInv, Numbered, Switches, Feed!OverlayFollowsRequest
<1>8. CASE UNCHANGED feeds
  BY <1>8, CommandIsLeft DEF feeds, Feed!command
<1>. QED BY <1>1, <1>2, <1>3, <1>4, <1>5, <1>6, <1>7, <1>8 DEF Feed!Next

\* A late answer to a cancelled command neither unlocks the composer for the next one
\* nor closes its overlay, and the overlay is open only while a command is awaited
\* (handleSend and cancelWorking of NotificationStream.tsx).
THEOREM OverlayIsHonest == ClientSpec => []OverlayFollowsRequest
<1>1. ClientInit => FeedInv
  BY FeedInvInit DEF ClientInit
<1>2. FeedInv /\ [ClientNext]_client => FeedInv'
  BY FeedInvStep, StepOfOnePart
<1>3. FeedInv => OverlayFollowsRequest
  BY DEF FeedInv, OverlayFollowsRequest
<1>. QED BY <1>1, <1>2, <1>3, PTL DEF ClientSpec

-----------------------------------------------------------------------------
(* The live stream: until the window is told of a return of the network,   *)
(* only one run of connect() is on its way.                                *)

StreamTyped ==
  /\ stage \in [Calls -> Stream!Stages]
  /\ streamMounted \in BOOLEAN
  /\ watchdog \in BOOLEAN
  /\ onlines \in Nat

\* A retry is due only after the run has ended, so that it finds nothing to abort; and
\* the watchdog runs for the run whose controller the page holds.
OneRun ==
  /\ \A c, d \in Calls : stage[c] # "none" /\ stage[d] # "none" => c = d
  /\ retries \in {0, 1}
  /\ retries = 1 => \A c \in Calls : stage[c] \in {"none", "closed", "failed"}
  /\ \A c \in Calls : stage[c] \in {"asking", "live", "silent"} => controller = c
  /\ watchdog => /\ controller \in Calls
                 /\ stage[controller] \in {"asking", "live", "silent", "closed", "failed"}

StreamInv == StreamTyped /\ (streamMounted /\ onlines = 0 => OneRun)

LEMMA StreamInvInit == Stream!Init => StreamInv
<1>. SUFFICES ASSUME Stream!Init PROVE StreamInv
  OBVIOUS
<1>1. StreamTyped
  BY DEF Stream!Init, StreamTyped, Stream!Stages
<1>2. \A c \in Calls : stage[c] # "none" => c = CHOOSE x \in Calls : TRUE
  BY DEF Stream!Init
<1>3. \A c, d \in Calls : stage[c] # "none" /\ stage[d] # "none" => c = d
  BY <1>2
<1>4. /\ \A c \in Calls : stage[c] \in {"none", "token"}
      /\ retries = 0 /\ watchdog = FALSE
  BY DEF Stream!Init
<1>5. OneRun
  BY <1>3, <1>4 DEF OneRun
<1>. QED BY <1>1, <1>5 DEF StreamInv

\* A run goes from one stage to another.
LEMMA RunMoves ==
  ASSUME StreamTyped, NEW c \in Calls, NEW s \in Stream!Stages,
         stage' = [stage EXCEPT ![c] = s],
         streamMounted' \in BOOLEAN, watchdog' \in BOOLEAN, onlines' \in Nat
  PROVE  /\ StreamTyped'
         /\ stage'[c] = s
         /\ \A d \in Calls : d # c => stage'[d] = stage[d]
  BY DEF StreamTyped

LEMMA StreamTypedStep ==
  ASSUME StreamTyped, [Stream!Next]_stream
  PROVE  StreamTyped'
<1>1. ASSUME NEW c \in Calls,
             \/ Stream!TokenAnswers(c) \/ Stream!TokenFails(c) \/ Stream!LibraryLoads(c)
             \/ Stream!AfterStream(c) \/ Stream!Opens(c) \/ Stream!Refused(c)
             \/ Stream!ServerCloses(c) \/ Stream!NetworkFails(c) \/ Stream!GoesSilent(c)
      PROVE  StreamTyped'
  <2>1. /\ \E s \in Stream!Stages : stage' = [stage EXCEPT ![c] = s]
        /\ streamMounted' \in BOOLEAN /\ watchdog' \in BOOLEAN /\ onlines' \in Nat
    BY <1>1
       DEF Stream!TokenAnswers, Stream!TokenFails, Stream!LibraryLoads, Stream!AfterStream,
           Stream!Opens, Stream!Refused, Stream!ServerCloses, Stream!NetworkFails,
           Stream!GoesSilent, Stream!ScheduleRetry, Stream!Stages, StreamTyped
  <2>. QED BY <2>1, RunMoves
<1>2. ASSUME NEW c \in Calls, Stream!Message(c) PROVE StreamTyped'
  BY <1>2 DEF Stream!Message, StreamTyped
<1>3. Stream!Aborted \in [Calls -> Stream!Stages]
  BY DEF Stream!Aborted, StreamTyped, Stream!Stages
<1>4. CASE Stream!WatchdogFires \/ Stream!Unmount
  BY <1>3, <1>4 DEF Stream!WatchdogFires, Stream!Unmount, Stream!ScheduleRetry, StreamTyped
<1>5. CASE Stream!RetryFires \/ Stream!Online
  <2>1. /\ Stream!Connect
        /\ streamMounted' = streamMounted
        /\ onlines' \in Nat
    BY <1>5 DEF Stream!RetryFires, Stream!Online, Stream!Connect, StreamTyped
  <2>. QED BY <1>3, <2>1 DEF Stream!Connect, StreamTyped, Stream!Stages
<1>6. CASE UNCHANGED stream
  BY <1>6 DEF stream, StreamTyped
<1>. QED BY <1>1, <1>2, <1>4, <1>5, <1>6 DEF Stream!Next

\* While a retry is due there is nothing that connect() could abort, and its run is the
\* only one.
LEMMA RetryKeepsOneRun ==
  ASSUME StreamTyped, OneRun, Stream!RetryFires
  PROVE  /\ OneRun'
         /\ \A c \in Calls : stage[c] = "none"
<1>1. retries = 1 /\ retries' = 0 /\ watchdog' = FALSE
  BY DEF Stream!RetryFires, Stream!Connect, OneRun
<1>2. \A c \in Calls : stage[c] = "none"
  BY <1>1 DEF Stream!RetryFires, Stream!Settled, OneRun
<1>3. Stream!Aborted = stage
  BY <1>2 DEF Stream!Aborted, StreamTyped
<1>. DEFINE c == CHOOSE c \in Stream!Free : TRUE
<1>4. stage' = [stage EXCEPT ![c] = "token"]
  BY <1>3 DEF Stream!RetryFires, Stream!Connect
<1>. HIDE DEF c
<1>5. \A d \in Calls : d # c => stage'[d] = "none"
  BY <1>2, <1>4 DEF StreamTyped
<1>6. \A d, e \in Calls : stage'[d] # "none" /\ stage'[e] # "none" => d = e
  BY <1>5
<1>7. \A d \in Calls : stage'[d] \in {"none", "token"}
  BY <1>2, <1>4 DEF StreamTyped
<1>. QED BY <1>1, <1>2, <1>6, <1>7 DEF OneRun

LEMMA WatchdogKeepsOneRun ==
  ASSUME StreamTyped, OneRun, Stream!WatchdogFires
  PROVE  OneRun'
<1>1. retries' = 1 /\ watchdog' = FALSE /\ stage' = Stream!Aborted
  BY DEF Stream!WatchdogFires, Stream!ScheduleRetry, Stream!Rearmed
<1>2. /\ controller \in Calls
      /\ stage[controller] \in {"asking", "silent"}
  BY DEF Stream!WatchdogFires, Stream!Settled, OneRun
<1>3. \A c \in Calls : stage'[c] = IF c = controller THEN "closed" ELSE "none"
  BY <1>1, <1>2 DEF Stream!Aborted, OneRun
<1>. QED BY <1>1, <1>3 DEF OneRun

\* A step of the only run.
LEMMA RunKeepsOneRun ==
  ASSUME StreamTyped, OneRun, streamMounted, NEW c \in Calls,
         \/ Stream!TokenAnswers(c) \/ Stream!TokenFails(c) \/ Stream!LibraryLoads(c)
         \/ Stream!AfterStream(c) \/ Stream!Opens(c) \/ Stream!Refused(c)
         \/ Stream!ServerCloses(c) \/ Stream!NetworkFails(c) \/ Stream!GoesSilent(c)
  PROVE  OneRun'
<1>. DEFINE s == stage'[c]
<1>1. PICK t \in Stream!Stages : stage' = [stage EXCEPT ![c] = t]
  BY DEF Stream!TokenAnswers, Stream!TokenFails, Stream!LibraryLoads, Stream!AfterStream,
         Stream!Opens, Stream!Refused, Stream!ServerCloses, Stream!NetworkFails,
         Stream!GoesSilent, Stream!Stages
<1>2. stage[c] # "none"
  BY DEF Stream!TokenAnswers, Stream!TokenFails, Stream!LibraryLoads, Stream!AfterStream,
         Stream!Opens, Stream!Refused, Stream!ServerCloses, Stream!NetworkFails,
         Stream!GoesSilent
<1>3. \A d \in Calls : d # c => stage[d] = "none" /\ stage'[d] = "none"
  BY <1>1, <1>2 DEF OneRun, StreamTyped
<1>4. \A d, e \in Calls : stage'[d] # "none" /\ stage'[e] # "none" => d = e
  BY <1>3
<1>5. CASE Stream!AfterStream(c)
  <2>1. retries' = 1 /\ watchdog' = FALSE /\ stage'[c] = "none"
    BY <1>5 DEF Stream!AfterStream, Stream!ScheduleRetry, Stream!Rearmed, StreamTyped
  <2>. QED BY <1>3, <1>4, <2>1 DEF OneRun
<1>6. CASE Stream!TokenAnswers(c)
  <2>1. /\ stage[c] = "token" /\ stage'[c] = "library"
        /\ retries' = retries /\ watchdog' = watchdog /\ controller' = controller
    BY <1>6 DEF Stream!TokenAnswers, StreamTyped
  <2>. QED BY <1>3, <1>4, <2>1 DEF OneRun
<1>7. CASE Stream!TokenFails(c)
  <2>1. /\ stage[c] \in {"token", "library"} /\ stage'[c] = "failed"
        /\ retries' = retries /\ watchdog' = watchdog /\ controller' = controller
    BY <1>7 DEF Stream!TokenFails, StreamTyped
  <2>. QED BY <1>3, <1>4, <2>1 DEF OneRun
<1>8. CASE Stream!LibraryLoads(c)
  <2>1. /\ stage[c] = "library" /\ stage'[c] = "asking"
        /\ retries' = retries /\ controller' = c
    BY <1>8 DEF Stream!LibraryLoads, StreamTyped
  <2>. QED BY <1>3, <1>4, <2>1 DEF OneRun
<1>9. CASE \/ Stream!Opens(c) \/ Stream!Refused(c) \/ Stream!ServerCloses(c)
           \/ Stream!NetworkFails(c) \/ Stream!GoesSilent(c)
  <2>1. /\ stage[c] \in {"asking", "live"}
        /\ stage'[c] \in {"live", "failed", "closed", "silent"}
        /\ retries' = retries /\ controller' = controller
    BY <1>9
       DEF Stream!Opens, Stream!Refused, Stream!ServerCloses, Stream!NetworkFails,
           Stream!GoesSilent, StreamTyped
  <2>2. watchdog' = watchdog \/ Stream!Opens(c)
    BY <1>9
       DEF Stream!Refused, Stream!ServerCloses, Stream!NetworkFails, Stream!GoesSilent
  <2>. QED BY <1>3, <1>4, <2>1, <2>2 DEF OneRun
<1>. QED BY <1>5, <1>6, <1>7, <1>8, <1>9

LEMMA StreamInvStep ==
  ASSUME StreamInv, [Stream!Next]_stream
  PROVE  StreamInv'
<1>1. StreamTyped'
  BY StreamTypedStep DEF StreamInv
<1>. SUFFICES ASSUME streamMounted', onlines' = 0
              PROVE  OneRun'
  BY <1>1 DEF StreamInv
<1>2. ASSUME NEW c \in Calls,
             \/ Stream!TokenAnswers(c) \/ Stream!TokenFails(c) \/ Stream!LibraryLoads(c)
             \/ Stream!AfterStream(c) \/ Stream!Opens(c) \/ Stream!Refused(c)
             \/ Stream!ServerCloses(c) \/ Stream!NetworkFails(c) \/ Stream!GoesSilent(c)
      PROVE  OneRun'
  <2>1. streamMounted /\ onlines = 0
    BY <1>2
       DEF Stream!TokenAnswers, Stream!TokenFails, Stream!LibraryLoads, Stream!AfterStream,
           Stream!Opens, Stream!Refused, Stream!ServerCloses, Stream!NetworkFails,
           Stream!GoesSilent
  <2>. QED BY <1>2, <2>1, RunKeepsOneRun DEF StreamInv
<1>3. ASSUME NEW c \in Calls, Stream!Message(c) PROVE OneRun'
  <2>1. /\ streamMounted' = streamMounted /\ onlines' = onlines /\ stage' = stage
        /\ controller' = controller /\ retries' = retries /\ stage[c] = "live"
    BY <1>3 DEF Stream!Message
  <2>. QED BY <2>1 DEF StreamInv, OneRun
<1>4. CASE Stream!RetryFires
  BY <1>4, RetryKeepsOneRun DEF StreamInv, Stream!RetryFires, Stream!Connect
<1>5. CASE Stream!WatchdogFires
  BY <1>5, WatchdogKeepsOneRun DEF StreamInv, Stream!WatchdogFires
<1>6. CASE Stream!Online
  <2>1. onlines \in Nat /\ onlines' = onlines + 1
    BY <1>6 DEF Stream!Online, StreamInv, StreamTyped
  <2>2. onlines' # 0
    BY <2>1
  <2>. QED BY <2>2
<1>7. CASE Stream!Unmount
  BY <1>7 DEF Stream!Unmount
<1>8. CASE UNCHANGED stream
  BY <1>8 DEF stream, StreamInv, OneRun
<1>. QED BY <1>2, <1>3, <1>4, <1>5, <1>6, <1>7, <1>8 DEF Stream!Next

\* The page itself ends no live stream, neither with a retry timer left over from an
\* earlier failure, nor with a second run of connect(), nor with the watchdog, unless it was
\* told of a return of the network or unmounts (useFeedSSE.ts).
THEOREM HealthyStreamsLast == ClientSpec => KeepsHealthyStream
<1>1. ClientInit => StreamInv
  BY StreamInvInit DEF ClientInit
<1>2. StreamInv /\ [ClientNext]_client => StreamInv'
  BY StreamInvStep, StepOfOnePart
<1>3. ASSUME StreamInv, [Stream!Next]_stream, NEW c \in Calls,
             stage[c] = "live", stage'[c] = "closed"
      PROVE  Stream!ServerCloses(c) \/ ~streamMounted' \/ onlines > 0 \/ onlines' > 0
  <2>1. ASSUME NEW d \in Calls,
               \/ Stream!TokenAnswers(d) \/ Stream!TokenFails(d) \/ Stream!LibraryLoads(d)
               \/ Stream!AfterStream(d) \/ Stream!Opens(d) \/ Stream!Refused(d)
               \/ Stream!NetworkFails(d) \/ Stream!GoesSilent(d) \/ Stream!Message(d)
        PROVE  FALSE
    <3>1. stage'[c] # "closed"
      BY <1>3, <2>1
         DEF StreamInv, StreamTyped, Stream!TokenAnswers, Stream!TokenFails,
             Stream!LibraryLoads, Stream!AfterStream, Stream!Opens, Stream!Refused,
             Stream!NetworkFails, Stream!GoesSilent, Stream!Message
    <3>. QED BY <1>3, <3>1
  <2>2. ASSUME NEW d \in Calls, Stream!ServerCloses(d) PROVE c = d
    BY <1>3, <2>2 DEF StreamInv, StreamTyped, Stream!ServerCloses
  <2>3. CASE Stream!RetryFires
    <3>1. streamMounted /\ onlines \in Nat
      BY <1>3, <2>3 DEF Stream!RetryFires, StreamInv, StreamTyped
    <3>2. ~(onlines = 0)
      BY <1>3, <2>3, <3>1, RetryKeepsOneRun DEF StreamInv
    <3>. QED BY <3>1, <3>2
  <2>4. CASE Stream!WatchdogFires
    BY <1>3, <2>4 DEF Stream!WatchdogFires
  <2>5. CASE Stream!Online
    <3>1. onlines \in Nat /\ onlines' = onlines + 1
      BY <1>3, <2>5 DEF Stream!Online, StreamInv, StreamTyped
    <3>. QED BY <3>1
  <2>6. CASE Stream!Unmount
    BY <2>6 DEF Stream!Unmount
  <2>7. CASE UNCHANGED stream
    BY <1>3, <2>7 DEF stream
  <2>. QED BY <1>3, <2>1, <2>2, <2>3, <2>4, <2>5, <2>6, <2>7 DEF Stream!Next
<1>4. StreamInv /\ [Stream!Next]_stream =>
        [\A c \in Calls : stage[c] = "live" /\ stage'[c] = "closed" =>
           Stream!ServerCloses(c) \/ ~streamMounted' \/ onlines > 0 \/ onlines' > 0]_stream
  BY <1>3
<1>. QED BY <1>1, <1>2, <1>4, StepOfOnePart, PTL
     DEF ClientSpec, KeepsHealthyStream, Stream!KeepsHealthyStream, Stream!vars, stream

-----------------------------------------------------------------------------
(* The composer                                                            *)

Written == [of : Letters \union {NoLetter}, written : Nat]

\* While a letter is open or a send is on its way, the fields hold what the user wrote
\* last; what is sent is that too, unless something has crossed the send.
LetterInv ==
  /\ fields \in Written
  /\ Compose!isOpen => fields.of = composeData
  /\ Compose!isOpen \/ Compose!isSending => mine = Compose!Empty \/ mine = fields
  /\ Compose!isSending /\ ~writtenOver => mine = Compose!Empty \/ mine = sending.fields
  /\ Compose!LetterIsKept

LEMMA LetterInvInit == Compose!Init => LetterInv
  BY DEF Compose!Init, LetterInv, Written, Compose!Empty, Compose!isOpen, Compose!isSending,
         Compose!NoSend, Compose!LetterIsKept

\* A letter that opens, over whatever is open.
LEMMA OpeningKeepsLetters ==
  ASSUME LetterInv, NEW letter \in Letters, Compose!OpenCompose(letter)
  PROVE  LetterInv'
<1>1. /\ fields' = [of |-> letter, written |-> 0] /\ composeData' = letter
      /\ mine' = Compose!Empty /\ sending' = sending
      /\ writtenOver' = Compose!isSending
  BY DEF Compose!OpenCompose, Compose!Prefill
<1>2. fields' \in Written /\ fields'.of = letter
  BY <1>1 DEF Written
<1>3. Compose!isSending' = Compose!isSending
  BY <1>1 DEF Compose!isSending
<1>. QED
  BY <1>1, <1>2, <1>3 DEF LetterInv, Compose!LetterIsKept, Compose!isOpen, Compose!Empty

LEMMA WritingKeepsLetters ==
  ASSUME LetterInv, Compose!Write
  PROVE  LetterInv'
<1>1. /\ fields' = [fields EXCEPT !.written = @ + 1]
      /\ mine' = fields' /\ sending' = sending /\ composeData' = composeData
      /\ writtenOver' = (writtenOver \/ Compose!isSending) /\ Compose!isOpen
  BY DEF Compose!Write, Compose!store
<1>2. fields' \in Written /\ fields'.of = fields.of
  BY <1>1 DEF LetterInv, Written
<1>3. Compose!isSending' = Compose!isSending
  BY <1>1 DEF Compose!isSending
<1>. QED
  BY <1>1, <1>2, <1>3 DEF LetterInv, Compose!LetterIsKept, Compose!isOpen

LEMMA SendingKeepsLetters ==
  ASSUME LetterInv, Compose!HandleSend
  PROVE  LetterInv'
<1>1. /\ sending'.thread = composeData /\ sending'.fields = fields
      /\ Compose!isOpen /\ fields' = fields /\ mine' = mine
      /\ writtenOver' = writtenOver /\ composeData' = composeData
  BY DEF Compose!HandleSend, Compose!store
<1>. QED
  BY <1>1 DEF LetterInv, Compose!LetterIsKept, Compose!isOpen, Compose!Empty

LEMMA SentKeepsLetters ==
  ASSUME LetterInv, Compose!SendSucceeds
  PROVE  LetterInv'
<1>1. /\ sending' = Compose!NoSend /\ fields' = Compose!Empty /\ composeData' = NoLetter
      /\ mine' = IF mine = sending.fields THEN Compose!Empty ELSE mine
      /\ writtenOver' = (writtenOver /\ mine' # Compose!Empty)
      /\ Compose!isSending
  BY DEF Compose!SendSucceeds
<1>2. Compose!Empty' = Compose!Empty
  BY DEF Compose!Empty
<1>3. ~writtenOver' => mine' = Compose!Empty
  BY <1>1 DEF LetterInv
<1>4. fields' \in Written
  BY <1>1 DEF Written, Compose!Empty
<1>. QED
  BY <1>1, <1>2, <1>3, <1>4
     DEF LetterInv, Compose!LetterIsKept, Compose!isOpen, Compose!isSending, Compose!NoSend

LEMMA LetterInvStep ==
  ASSUME LetterInv, [Compose!Next]_composer
  PROVE  LetterInv'
<1>1. ASSUME NEW l \in Letters, Compose!StreamComposes(l) PROVE LetterInv'
  BY <1>1, OpeningKeepsLetters DEF Compose!StreamComposes
<1>2. ASSUME NEW l \in Letters, NEW c \in Cards, Compose!EditOrForward(c, l) PROVE LetterInv'
  BY <1>2, OpeningKeepsLetters DEF Compose!EditOrForward
<1>3. CASE Compose!CloseCompose
  BY <1>3
     DEF Compose!CloseCompose, LetterInv, Compose!LetterIsKept, Compose!isOpen,
         Compose!isSending, Compose!NoSend, Compose!Empty
<1>4. CASE Compose!Write
  BY <1>4, WritingKeepsLetters
<1>5. CASE Compose!HandleSend
  BY <1>5, SendingKeepsLetters
<1>6. CASE Compose!SendSucceeds
  BY <1>6, SentKeepsLetters
<1>7. CASE Compose!SendFails
  BY <1>7
     DEF Compose!SendFails, Compose!store, LetterInv, Compose!LetterIsKept, Compose!isOpen,
         Compose!isSending, Compose!NoSend, Compose!Empty
<1>8. ASSUME UNCHANGED <<composeData, fields, sending, mine, writtenOver>> PROVE LetterInv'
  BY <1>8
     DEF LetterInv, Compose!LetterIsKept, Compose!isOpen, Compose!isSending, Compose!NoSend,
         Compose!Empty
<1>9. ASSUME NEW f \in Files, Compose!ChooseFile(f) \/ Compose!RemoveAttachment(f)
      PROVE  LetterInv'
  BY <1>8, <1>9 DEF Compose!ChooseFile, Compose!RemoveAttachment, Compose!store
<1>10. ASSUME NEW r \in readings, Compose!FileIsRead(r) PROVE LetterInv'
  BY <1>8, <1>10 DEF Compose!FileIsRead, Compose!store
<1>11. CASE Compose!ProposalSends \/ Compose!ProposalAnswered \/ Compose!ConnectionChanges
  BY <1>8, <1>11
     DEF Compose!ProposalSends, Compose!ProposalAnswered, Compose!ConnectionChanges,
         Compose!store, Compose!composer
<1>12. ASSUME NEW c \in Cards,
              \/ Compose!HandleApproveDraft(c) \/ Compose!HandleRetryDraft(c)
              \/ Compose!HandleActionClick(c) \/ Compose!CardAnswered(c)
       PROVE  LetterInv'
  BY <1>8, <1>12
     DEF Compose!HandleApproveDraft, Compose!HandleRetryDraft, Compose!HandleActionClick,
         Compose!Click, Compose!CardAnswered, Compose!store, Compose!composer
<1>13. CASE UNCHANGED composer
  BY <1>8, <1>13 DEF composer
<1>. QED
  BY <1>1, <1>2, <1>3, <1>4, <1>5, <1>6, <1>7, <1>9, <1>10, <1>11, <1>12, <1>13
     DEF Compose!Next, Compose!SendEnds

\* What the user wrote in the composer stays until it is sent or given up, whatever becomes
\* of the sends and whatever the stream opens; only what is written or opened over a send
\* on its way goes with its success. And a mail goes to the thread of the letter that is in
\* its fields (ComposeModal.tsx).
THEOREM LettersAreKept == ClientSpec => []LetterIsKept
<1>1. ClientInit => LetterInv
  BY LetterInvInit DEF ClientInit
<1>2. LetterInv /\ [ClientNext]_client => LetterInv'
  BY LetterInvStep, StepOfOnePart
<1>3. LetterInv => LetterIsKept
  BY DEF LetterInv, LetterIsKept
<1>. QED BY <1>1, <1>2, <1>3, PTL DEF ClientSpec

-----------------------------------------------------------------------------
(* The chat: while a thread was opened at rest, one message at a time is   *)
(* on its way, and it belongs to the thread that is open.                  *)

Entries ==
  [role : {"user", "card"}, id : Messages \union {"page"}] \union
  [role : {"assistant"}, id : Messages \union {"page"}, said : BOOLEAN]

ChatTyped ==
  /\ here \in Threads
  /\ list \in Seq(Entries)
  /\ saved \in [Threads -> Seq(Entries)]
  /\ history \in [Threads -> Seq(Entries)]
  /\ send \in [Messages -> {Chat!Unsent} \union
               [pc : Chat!Places, at : Threads, tries : Int, kept : BOOLEAN]]
  /\ fresh \subseteq Messages
  /\ fetching \in BOOLEAN /\ loading \in BOOLEAN /\ hurried \in BOOLEAN

OneTalks ==
  /\ fetching => loading /\ fresh = {}
  /\ \A m \in Messages : Chat!Active(m) => send[m].at = here /\ loading /\ ~fetching
  /\ \A m, n \in Messages : Chat!Active(m) /\ Chat!Active(n) => m = n

ChatInv == ChatTyped /\ (~hurried => OneTalks) /\ Chat!MineStay

\* Of lists.
Holds(s, e) == \E i \in 1..Len(s) : s[i] = e

LEMMA LongerHolds ==
  ASSUME NEW S, NEW s \in Seq(S), NEW t \in Seq(S), NEW e, Holds(s, e)
  PROVE  Holds(s \o t, e)
<1>1. PICK i \in 1..Len(s) : s[i] = e
  BY DEF Holds
<1>2. i \in 1..Len(s \o t) /\ (s \o t)[i] = e
  BY <1>1
<1>. QED BY <1>2 DEF Holds

LEMMA FrontHolds ==
  ASSUME NEW S, NEW s \in Seq(S), s # <<>>
  PROVE  /\ SubSeq(s, 1, Len(s) - 1) \in Seq(S)
         /\ s[Len(s)] \in S
         /\ \A e : Holds(s, e) /\ s[Len(s)] # e => Holds(SubSeq(s, 1, Len(s) - 1), e)
<1>1. Len(s) \in Nat /\ Len(s) > 0
  BY SMT
<1>2. SubSeq(s, 1, Len(s) - 1) \in Seq(S) /\ s[Len(s)] \in S
  BY <1>1
<1>3. ASSUME NEW e, Holds(s, e), s[Len(s)] # e
      PROVE  Holds(SubSeq(s, 1, Len(s) - 1), e)
  <2>1. PICK i \in 1..Len(s) : s[i] = e
    BY <1>3 DEF Holds
  <2>2. i \in 1..(Len(s) - 1)
    BY <1>1, <1>3, <2>1
  <2>3. Len(SubSeq(s, 1, Len(s) - 1)) = Len(s) - 1 /\ SubSeq(s, 1, Len(s) - 1)[i] = s[i]
    BY <1>1, <2>2
  <2>. QED BY <2>1, <2>2, <2>3 DEF Holds
<1>. QED BY <1>2, <1>3

\* A message of the user is no bubble of the assistant.
LEMMA UsersAreNoBubbles ==
  ASSUME ChatTyped, Chat!LastIsBubble
  PROVE  /\ list # <<>> /\ list \in Seq(Entries)
         /\ Chat!Last(list) = list[Len(list)]
         /\ Chat!Front(list) = SubSeq(list, 1, Len(list) - 1)
         /\ Chat!Last(list) \in [role : {"assistant"}, id : Messages \union {"page"}, said : BOOLEAN]
         /\ \A m \in Messages : Chat!Last(list) # Chat!User(m)
<1>1. /\ list # <<>> /\ list \in Seq(Entries)
      /\ Chat!Last(list) = list[Len(list)]
      /\ Chat!Front(list) = SubSeq(list, 1, Len(list) - 1)
      /\ Chat!Last(list).role = "assistant"
  BY DEF Chat!LastIsBubble, Chat!Last, Chat!Front, ChatTyped
<1>2. Chat!Last(list) \in Entries
  BY <1>1, FrontHolds
<1>3. Chat!Last(list) \in [role : {"assistant"}, id : Messages \union {"page"}, said : BOOLEAN]
  BY <1>1, <1>2 DEF Entries
<1>4. \A m \in Messages : Chat!Last(list) # Chat!User(m)
  BY <1>1 DEF Chat!User
<1>. QED BY <1>1, <1>3, <1>4

\* What the page does to a list keeps the user's messages: it grows, or its last bubble goes
\* or is written into.
Keeps(next) ==
  /\ next \in Seq(Entries)
  /\ \A m \in Messages : Holds(list, Chat!User(m)) => Holds(next, Chat!User(m))

LEMMA GrowingKeeps ==
  ASSUME ChatTyped, NEW t \in Seq(Entries)
  PROVE  Keeps(list \o t)
<1>1. list \o t \in Seq(Entries)
  BY DEF ChatTyped
<1>2. list \in Seq(Entries)
  BY DEF ChatTyped
<1>3. ASSUME NEW m \in Messages, Holds(list, Chat!User(m))
      PROVE  Holds(list \o t, Chat!User(m))
  BY <1>2, <1>3, LongerHolds
<1>. QED BY <1>1, <1>3 DEF Keeps

LEMMA AppendingKeeps ==
  ASSUME ChatTyped, NEW e \in Entries
  PROVE  Keeps(Append(list, e))
<1>1. <<e>> \in Seq(Entries)
  OBVIOUS
<1>2. Append(list, e) = list \o <<e>>
  BY DEF ChatTyped
<1>. QED BY <1>1, <1>2, GrowingKeeps

LEMMA DroppingKeeps ==
  ASSUME ChatTyped, Chat!LastIsBubble
  PROVE  Keeps(Chat!Front(list))
<1>1. /\ list # <<>> /\ list \in Seq(Entries)
      /\ Chat!Front(list) = SubSeq(list, 1, Len(list) - 1)
      /\ \A m \in Messages : list[Len(list)] # Chat!User(m)
  BY UsersAreNoBubbles, Zenon
<1>2. SubSeq(list, 1, Len(list) - 1) \in Seq(Entries)
  BY <1>1, FrontHolds
<1>3. ASSUME NEW m \in Messages, Holds(list, Chat!User(m))
      PROVE  Holds(SubSeq(list, 1, Len(list) - 1), Chat!User(m))
  BY <1>1, <1>3, FrontHolds
<1>. QED BY <1>1, <1>2, <1>3 DEF Keeps

LEMMA RewritingKeeps ==
  ASSUME ChatTyped, Chat!LastIsBubble
  PROVE  Keeps(Chat!Front(list) \o <<[Chat!Last(list) EXCEPT !.said = TRUE]>>)
<1>. DEFINE e == [Chat!Last(list) EXCEPT !.said = TRUE]
<1>1. e \in Entries
  BY UsersAreNoBubbles DEF Entries
<1>2. Keeps(Chat!Front(list))
  BY DroppingKeeps
<1>. HIDE DEF e
<1>3. <<e>> \in Seq(Entries)
  BY <1>1
<1>4. Chat!Front(list) \o <<e>> \in Seq(Entries)
  BY <1>2, <1>3 DEF Keeps
<1>5. ASSUME NEW m \in Messages, Holds(list, Chat!User(m))
      PROVE  Holds(Chat!Front(list) \o <<e>>, Chat!User(m))
  <2>1. Chat!Front(list) \in Seq(Entries) /\ Holds(Chat!Front(list), Chat!User(m))
    BY <1>2, <1>5 DEF Keeps
  <2>. QED BY <1>3, <2>1, LongerHolds
<1>. QED BY <1>4, <1>5 DEF Keeps, e

\* MineStay in terms of Holds.
LEMMA MineAreHeld ==
  ASSUME ChatInv, ~hurried, NEW m \in fresh
  PROVE  Holds(list, Chat!User(m)) /\ Holds(saved[here], Chat!User(m))
  BY DEF ChatInv, Chat!MineStay, Chat!Contains, Holds

LEMMA MineStayAfter ==
  ASSUME ~hurried' => \A m \in fresh' : /\ Holds(list', Chat!User(m))
                                        /\ Holds(saved'[here'], Chat!User(m))
  PROVE  Chat!MineStay'
  BY DEF Chat!MineStay, Chat!Contains, Holds, Chat!User

LEMMA SettingKeepsMine ==
  ASSUME ChatInv, NEW t \in Threads, NEW next, Keeps(next), Chat!SetMessages(t, next),
         ~hurried => t = here, hurried' = hurried, here' = here, fresh' = fresh
  PROVE  /\ list' \in Seq(Entries) /\ saved' \in [Threads -> Seq(Entries)]
         /\ Chat!MineStay'
<1>1. list' = next /\ saved' = [saved EXCEPT ![t] = next]
  BY DEF Chat!SetMessages
<1>2. list' \in Seq(Entries) /\ saved' \in [Threads -> Seq(Entries)]
  BY <1>1 DEF ChatInv, ChatTyped, Keeps
<1>3. ASSUME ~hurried', NEW m \in fresh'
      PROVE  Holds(list', Chat!User(m)) /\ Holds(saved'[here'], Chat!User(m))
  <2>1. Holds(list, Chat!User(m)) /\ m \in Messages
    BY <1>3, MineAreHeld DEF ChatInv, ChatTyped
  <2>2. Holds(next, Chat!User(m))
    BY <2>1 DEF Keeps
  <2>3. saved'[here'] = next
    BY <1>1, <1>3 DEF ChatInv, ChatTyped
  <2>. QED BY <1>1, <2>2, <2>3
<1>4. Chat!MineStay'
  BY <1>3, MineStayAfter
<1>. QED BY <1>2, <1>4

LEMMA LeavingKeepsMine ==
  ASSUME ChatInv, UNCHANGED <<list, saved, here, hurried, fresh>>
  PROVE  /\ list' \in Seq(Entries) /\ saved' \in [Threads -> Seq(Entries)]
         /\ Chat!MineStay'
<1>1. list' \in Seq(Entries) /\ saved' \in [Threads -> Seq(Entries)]
  BY DEF ChatInv, ChatTyped
<1>2. Chat!MineStay'
  BY DEF ChatInv, Chat!MineStay, Chat!Contains, Chat!User
<1>. QED BY <1>1, <1>2

\* A message on its way goes on, or ends.
GoesOn(m) ==
  /\ send' \in [Messages -> {Chat!Unsent} \union
               [pc : Chat!Places, at : Threads, tries : Int, kept : BOOLEAN]]
  /\ send'[m].at = send[m].at
  /\ \A n \in Messages : n # m => send'[n] = send[n]

LEMMA MovesGoOn ==
  ASSUME ChatTyped, NEW m \in Messages,
         \/ Chat!Answering(m) \/ Chat!StreamEnds(m) \/ Chat!AttemptFails(m)
         \/ Chat!BackoffEnds(m) \/ Chat!SendEnds(m) \/ Chat!Delta(m) \/ Chat!RichCard(m)
  PROVE  GoesOn(m) /\ Chat!Active(m) /\ send[m].at \in Threads
<1>. DEFINE Sent == [pc : Chat!Places, at : Threads, tries : Int, kept : BOOLEAN]
<1>1. Chat!Active(m)
  BY DEF Chat!Answering, Chat!StreamEnds, Chat!AttemptFails, Chat!BackoffEnds,
         Chat!SendEnds, Chat!Delta, Chat!RichCard, Chat!Active
<1>2. send[m] \in Sent
  BY <1>1 DEF ChatTyped, Chat!Active, Chat!Unsent
<1>3. \E r \in Sent : r.at = send[m].at /\ send' = [send EXCEPT ![m] = r]
  <2>1. CASE Chat!Delta(m) \/ Chat!RichCard(m)
    <3>1. send' = send
      BY <2>1 DEF Chat!Delta, Chat!RichCard
    <3>2. send' = [send EXCEPT ![m] = send[m]]
      BY <3>1 DEF ChatTyped
    <3>. QED BY <1>2, <3>2
  <2>2. CASE Chat!Answering(m)
    <3>. DEFINE r == [send[m] EXCEPT !.pc = "streaming", !.kept = TRUE]
    <3>1. r \in Sent /\ r.at = send[m].at
      BY <1>2 DEF Chat!Places
    <3>2. send' = [send EXCEPT ![m] = r]
      BY <2>2 DEF Chat!Answering, ChatTyped
    <3>. QED BY <3>1, <3>2
  <2>3. CASE \/ Chat!StreamEnds(m) \/ Chat!BackoffEnds(m) \/ Chat!SendEnds(m)
             \/ Chat!AttemptFails(m) /\ ~(send[m].tries < MaxRetries)
    <3>1. PICK p \in Chat!Places : send' = [send EXCEPT ![m].pc = p]
      BY <2>3
         DEF Chat!StreamEnds, Chat!BackoffEnds, Chat!SendEnds, Chat!AttemptFails, Chat!Places
    <3>. DEFINE r == [send[m] EXCEPT !.pc = p]
    <3>2. r \in Sent /\ r.at = send[m].at
      BY <1>2
    <3>3. send' = [send EXCEPT ![m] = r]
      BY <3>1 DEF ChatTyped
    <3>. QED BY <3>2, <3>3
  <2>4. CASE Chat!AttemptFails(m) /\ send[m].tries < MaxRetries
    <3>1. send[m].tries \in Int
      BY <1>2
    <3>2. Chat!Retried(send[m].tries) \in Int
      BY <3>1 DEF Chat!Retried
    <3>. DEFINE k == Chat!Retried(send[m].tries)
                r == [send[m] EXCEPT !.pc = "backoff", !.tries = k]
    <3>3. send' = [send EXCEPT ![m] = r]
      BY <2>4 DEF Chat!AttemptFails, ChatTyped
    <3>. HIDE DEF k
    <3>4. r \in Sent /\ r.at = send[m].at
      BY <1>2, <3>2 DEF Chat!Places, k
    <3>. QED BY <3>3, <3>4
  <2>. QED BY <2>1, <2>2, <2>3, <2>4
<1>4. PICK r \in Sent : r.at = send[m].at /\ send' = [send EXCEPT ![m] = r]
  BY <1>3
<1>5. GoesOn(m)
  BY <1>4 DEF GoesOn, ChatTyped
<1>. QED BY <1>1, <1>2, <1>5

\* What becomes of the list when a message goes on.
LEMMA AnswersKeepMine ==
  ASSUME ChatInv, NEW m \in Messages,
         \/ Chat!Answering(m) \/ Chat!StreamEnds(m) \/ Chat!AttemptFails(m)
         \/ Chat!BackoffEnds(m) \/ Chat!SendEnds(m) \/ Chat!Delta(m) \/ Chat!RichCard(m)
  PROVE  /\ list' \in Seq(Entries) /\ saved' \in [Threads -> Seq(Entries)]
         /\ Chat!MineStay'
<1>. DEFINE at == send[m].at
<1>1. at \in Threads /\ (~hurried => at = here)
  BY MovesGoOn DEF ChatInv, OneTalks
<1>2. hurried' = hurried /\ here' = here /\ fresh' = fresh
  BY DEF Chat!Answering, Chat!StreamEnds, Chat!AttemptFails, Chat!BackoffEnds, Chat!SendEnds,
         Chat!Delta, Chat!RichCard
<1>3. Keeps(list)
  BY DEF ChatInv, ChatTyped, Keeps
<1>4. CASE UNCHANGED <<list, saved>>
  BY <1>2, <1>4, LeavingKeepsMine
<1>5. CASE \E next : Keeps(next) /\ Chat!SetMessages(at, next)
  BY <1>1, <1>2, <1>5, SettingKeepsMine
<1>6. CASE Chat!Answering(m) \/ Chat!StreamEnds(m) \/ Chat!BackoffEnds(m)
  BY <1>4, <1>6 DEF Chat!Answering, Chat!StreamEnds, Chat!BackoffEnds
<1>7. CASE Chat!AttemptFails(m)
  BY <1>3, <1>4, <1>5, <1>7, RewritingKeeps DEF Chat!AttemptFails, ChatInv
<1>8. CASE Chat!SendEnds(m)
  BY <1>3, <1>5, <1>8, DroppingKeeps DEF Chat!SendEnds, ChatInv
<1>9. CASE Chat!Delta(m)
  BY <1>5, <1>9, RewritingKeeps DEF Chat!Delta, ChatInv
<1>10. CASE Chat!RichCard(m)
  <2>1. Chat!Card(m) \in Entries
    BY DEF Chat!Card, Entries
  <2>2. Keeps(Append(list, Chat!Card(m)))
    BY <2>1, AppendingKeeps DEF ChatInv
  <2>. QED BY <1>5, <1>10, <2>2 DEF Chat!RichCard
<1>. QED BY <1>6, <1>7, <1>8, <1>9, <1>10

LEMMA AnswersKeepChat ==
  ASSUME ChatInv, NEW m \in Messages,
         \/ Chat!Answering(m) \/ Chat!StreamEnds(m) \/ Chat!AttemptFails(m)
         \/ Chat!BackoffEnds(m) \/ Chat!SendEnds(m) \/ Chat!Delta(m) \/ Chat!RichCard(m)
  PROVE  ChatInv'
<1>1. /\ list' \in Seq(Entries) /\ saved' \in [Threads -> Seq(Entries)]
      /\ Chat!MineStay'
  BY AnswersKeepMine
<1>2. /\ GoesOn(m) /\ Chat!Active(m) /\ send[m].at \in Threads
  BY MovesGoOn DEF ChatInv
<1>3. /\ hurried' = hurried /\ here' = here /\ fresh' = fresh /\ fetching' = fetching
      /\ \/ loading' = loading
         \/ loading' = FALSE /\ send'[m].pc = "over"
  <2>1. CASE Chat!SendEnds(m)
    <3>1. send' = [send EXCEPT ![m].pc = "over"] /\ send[m].pc = "ending"
      BY <2>1 DEF Chat!SendEnds
    <3>2. send[m] \in [pc : Chat!Places, at : Threads, tries : Int, kept : BOOLEAN]
      BY <3>1 DEF ChatInv, ChatTyped, Chat!Unsent
    <3>3. send'[m].pc = "over"
      BY <3>1, <3>2 DEF ChatInv, ChatTyped
    <3>. QED BY <2>1, <3>3 DEF Chat!SendEnds
  <2>2. CASE ~Chat!SendEnds(m)
    BY <2>2
       DEF Chat!Answering, Chat!StreamEnds, Chat!AttemptFails, Chat!BackoffEnds, Chat!Delta,
           Chat!RichCard
  <2>. QED BY <2>1, <2>2
<1>4. history' \in [Threads -> Seq(Entries)]
  <2>1. CASE Chat!Answering(m)
    <3>1. Chat!User(m) \in Entries
      BY DEF Chat!User, Entries
    <3>2. \A t \in Threads : Append(history[t], Chat!User(m)) \in Seq(Entries)
      BY <3>1 DEF ChatInv, ChatTyped
    <3>. QED BY <1>2, <2>1, <3>2 DEF Chat!Answering, ChatInv, ChatTyped
  <2>2. CASE ~Chat!Answering(m)
    <3>1. history' = history
      BY <2>2
         DEF Chat!StreamEnds, Chat!AttemptFails, Chat!BackoffEnds, Chat!SendEnds, Chat!Delta,
             Chat!RichCard
    <3>. QED BY <3>1 DEF ChatInv, ChatTyped
  <2>. QED BY <2>1, <2>2
<1>5. ChatTyped'
  BY <1>1, <1>2, <1>3, <1>4 DEF ChatInv, ChatTyped, GoesOn
<1>6. ASSUME ~hurried PROVE OneTalks'
  <2>1. OneTalks
    BY <1>6 DEF ChatInv
  <2>2. \A n \in Messages : n # m => ~Chat!Active(n) /\ ~Chat!Active(n)'
    BY <1>2, <2>1 DEF OneTalks, GoesOn, Chat!Active
  <2>3. send'[m].at = here /\ ~fetching
    BY <1>2, <2>1 DEF OneTalks, GoesOn
  <2>4. CASE loading' = loading
    BY <1>2, <1>3, <2>1, <2>2, <2>3, <2>4 DEF OneTalks
  <2>5. CASE loading' = FALSE /\ send'[m].pc = "over"
    <3>1. ~Chat!Active(m)'
      BY <2>5 DEF Chat!Active
    <3>. QED BY <1>3, <2>2, <2>3, <3>1 DEF OneTalks
  <2>. QED BY <1>3, <2>4, <2>5
<1>. QED BY <1>1, <1>3, <1>5, <1>6 DEF ChatInv

\* A message that is sent, or answered by the page itself, is added to the open thread.
LEMMA SendingKeepsChat ==
  ASSUME ChatInv, NEW m \in Messages, Chat!SendMessage(m) \/ Chat!SendIsBlocked(m)
  PROVE  ChatInv'
<1>1. PICK said \in BOOLEAN :
        Chat!SetMessages(here, list \o <<Chat!User(m), Chat!Bubble(m, said)>>)
  BY DEF Chat!SendMessage, Chat!SendIsBlocked
<1>. DEFINE two == <<Chat!User(m), Chat!Bubble(m, said)>>
            next == list \o two
<1>2. two \in Seq(Entries) /\ Holds(two, Chat!User(m))
  <2>1. Chat!User(m) \in Entries /\ Chat!Bubble(m, said) \in Entries
    BY DEF Chat!User, Chat!Bubble, Entries
  <2>2. two[1] = Chat!User(m) /\ 1 \in 1..Len(two)
    OBVIOUS
  <2>. QED BY <2>1, <2>2 DEF Holds
<1>3. Keeps(next)
  BY <1>2, GrowingKeeps DEF ChatInv
<1>4. Holds(next, Chat!User(m))
  <2>1. list \in Seq(Entries) /\ Len(list) \in Nat
    BY DEF ChatInv, ChatTyped
  <2>2. Len(list) + 1 \in 1..Len(next) /\ next[Len(list) + 1] = two[1]
    BY <1>2, <2>1
  <2>3. next[Len(list) + 1] = Chat!User(m)
    BY <2>2
  <2>. QED BY <2>2, <2>3 DEF Holds
<1>. HIDE DEF next
<1>5. list' = next /\ saved' = [saved EXCEPT ![here] = next]
  BY <1>1 DEF Chat!SetMessages, next
<1>6. /\ ~loading /\ here' = here /\ history' = history /\ fetching' = fetching
      /\ hurried' = hurried /\ fresh' = fresh \union {m}
      /\ loading' \in BOOLEAN
  BY DEF Chat!SendMessage, Chat!SendIsBlocked, Chat!MaySend, ChatInv, ChatTyped
<1>7. /\ list' \in Seq(Entries) /\ saved' \in [Threads -> Seq(Entries)]
      /\ saved'[here] = next
  BY <1>3, <1>5 DEF Keeps, ChatInv, ChatTyped
<1>8. Chat!MineStay'
  <2>1. ASSUME ~hurried', NEW n \in fresh'
        PROVE  Holds(next, Chat!User(n))
    <3>1. CASE n = m
      BY <1>4, <3>1
    <3>2. CASE n # m
      <4>1. n \in fresh /\ n \in Messages
        BY <1>6, <2>1, <3>2 DEF ChatInv, ChatTyped
      <4>2. Holds(list, Chat!User(n))
        BY <1>6, <2>1, <4>1, MineAreHeld
      <4>. QED BY <1>3, <4>1, <4>2 DEF Keeps
    <3>. QED BY <3>1, <3>2
  <2>. QED BY <1>5, <1>6, <1>7, <2>1, MineStayAfter
<1>9. \E p \in {"posting", "over"} :
         send' = [send EXCEPT ![m] = [pc |-> p, at |-> here, tries |-> 0, kept |-> FALSE]]
  BY DEF Chat!SendMessage, Chat!SendIsBlocked
<1>10. PICK p \in {"posting", "over"} :
         send' = [send EXCEPT ![m] = [pc |-> p, at |-> here, tries |-> 0, kept |-> FALSE]]
  BY <1>9
<1>. DEFINE r == [pc |-> p, at |-> here, tries |-> 0, kept |-> FALSE]
<1>11. /\ send'[m] = r /\ \A n \in Messages : n # m => send'[n] = send[n]
       /\ send' \in [Messages -> {Chat!Unsent} \union
                     [pc : Chat!Places, at : Threads, tries : Int, kept : BOOLEAN]]
  <2>1. r \in [pc : Chat!Places, at : Threads, tries : Int, kept : BOOLEAN]
    BY DEF Chat!Places, ChatInv, ChatTyped
  <2>. QED BY <1>10, <2>1 DEF ChatInv, ChatTyped
<1>12. ChatTyped'
  BY <1>6, <1>7, <1>11 DEF ChatInv, ChatTyped
<1>13. ASSUME ~hurried PROVE OneTalks'
  <2>1. ~fetching /\ \A n \in Messages : ~Chat!Active(n)
    BY <1>6, <1>13 DEF ChatInv, OneTalks
  <2>2. \A n \in Messages : n # m => ~Chat!Active(n)'
    BY <1>11, <2>1 DEF Chat!Active
  <2>3. Chat!Active(m)' => loading'
    <3>1. CASE Chat!SendMessage(m)
      BY <3>1 DEF Chat!SendMessage
    <3>2. CASE Chat!SendIsBlocked(m)
      <4>1. send' = [send EXCEPT ![m] =
                       [pc |-> "over", at |-> here, tries |-> 0, kept |-> FALSE]]
        BY <3>2 DEF Chat!SendIsBlocked
      <4>2. send'[m].pc = "over"
        BY <4>1 DEF ChatInv, ChatTyped
      <4>. QED BY <4>2 DEF Chat!Active
    <3>. QED BY <3>1, <3>2
  <2>4. send'[m].at = here
    BY <1>11
  <2>. QED BY <1>6, <2>1, <2>2, <2>3, <2>4 DEF OneTalks
<1>. QED BY <1>6, <1>8, <1>12, <1>13 DEF ChatInv

LEMMA OpeningKeepsChat ==
  ASSUME ChatInv, NEW t \in Threads, Chat!OpenThread(t)
  PROVE  ChatInv'
<1>1. /\ here' = t /\ loading' = ~fetching /\ fetching' = TRUE /\ fresh' = {}
      /\ hurried' = (fetching \/ \E m \in Messages : Chat!Active(m))
      /\ list' = list /\ saved' = saved /\ history' = history /\ send' = send
  BY DEF Chat!OpenThread
<1>2. ChatTyped'
  BY <1>1 DEF ChatInv, ChatTyped
<1>3. ~hurried' => OneTalks'
  BY <1>1 DEF OneTalks, Chat!Active
<1>4. Chat!MineStay'
  BY <1>1 DEF Chat!MineStay
<1>. QED BY <1>2, <1>3, <1>4 DEF ChatInv

\* A history that comes late replaces nothing, as nothing was sent yet.
LEMMA HistoryKeepsChat ==
  ASSUME ChatInv, Chat!HistoryComes \/ Chat!HistoryFails
  PROVE  ChatInv'
<1>1. /\ fetching /\ fetching' = FALSE /\ loading' = FALSE
      /\ here' = here /\ history' = history /\ send' = send /\ fresh' = fresh
      /\ hurried' = hurried
  BY DEF Chat!HistoryComes, Chat!HistoryFails, Chat!FetchEnds
<1>2. list' \in Seq(Entries) /\ saved' \in [Threads -> Seq(Entries)]
  <2>1. /\ here \in Threads /\ list \in Seq(Entries) /\ history[here] \in Seq(Entries)
        /\ saved \in [Threads -> Seq(Entries)] /\ saved[here] \in Seq(Entries)
    BY DEF ChatInv, ChatTyped
  <2>2. CASE Chat!HistoryComes
    BY <2>1, <2>2 DEF Chat!HistoryComes, Chat!SetMessages
  <2>3. CASE Chat!HistoryFails
    BY <2>1, <2>3 DEF Chat!HistoryFails
  <2>. QED BY <2>2, <2>3
<1>3. ChatTyped'
  BY <1>1, <1>2 DEF ChatInv, ChatTyped
<1>4. ASSUME ~hurried PROVE fresh = {} /\ \A m \in Messages : ~Chat!Active(m)
  BY <1>1, <1>4 DEF ChatInv, OneTalks
<1>5. ~hurried' => OneTalks'
  BY <1>1, <1>4 DEF OneTalks, Chat!Active
<1>6. Chat!MineStay'
  BY <1>1, <1>4 DEF Chat!MineStay
<1>. QED BY <1>3, <1>5, <1>6 DEF ChatInv

LEMMA InjectingKeepsChat ==
  ASSUME ChatInv, Chat!Inject
  PROVE  ChatInv'
<1>1. PICK item \in {Chat!Injected, Chat!Card("page")} :
        Chat!SetMessages(here, Append(list, item))
  BY DEF Chat!Inject
<1>2. /\ here' = here /\ history' = history /\ fetching' = fetching /\ loading' = loading
      /\ send' = send /\ fresh' = fresh /\ hurried' = hurried
  BY DEF Chat!Inject
<1>3. item \in Entries
  <2>1. Chat!Injected \in Entries
    BY DEF Chat!Injected, Chat!Bubble, Entries
  <2>2. Chat!Card("page") \in Entries
    BY DEF Chat!Card, Entries
  <2>. QED BY <2>1, <2>2
<1>4. Keeps(Append(list, item)) /\ here \in Threads
  BY <1>3, AppendingKeeps DEF ChatInv, ChatTyped
<1>5. /\ list' \in Seq(Entries) /\ saved' \in [Threads -> Seq(Entries)]
      /\ Chat!MineStay'
  BY <1>1, <1>2, <1>4, SettingKeepsMine
<1>6. ChatTyped'
  BY <1>2, <1>5 DEF ChatInv, ChatTyped
<1>7. ~hurried' => OneTalks'
  BY <1>2 DEF ChatInv, OneTalks, Chat!Active
<1>. QED BY <1>5, <1>6, <1>7 DEF ChatInv

LEMMA ChatInvInit == Chat!Init => ChatInv
<1>. SUFFICES ASSUME Chat!Init PROVE ChatInv
  OBVIOUS
<1>1. <<Chat!Injected>> \in Seq(Entries) /\ <<>> \in Seq(Entries)
  <2>1. Chat!Injected \in Entries
    BY DEF Chat!Injected, Chat!Bubble, Entries
  <2>. QED BY <2>1
<1>2. history \in [Threads -> Seq(Entries)]
  BY <1>1 DEF Chat!Init
<1>3. ChatTyped
  BY <1>1, <1>2 DEF Chat!Init, ChatTyped
<1>4. \A m \in Messages : ~Chat!Active(m)
  BY DEF Chat!Init, Chat!Active, Chat!Unsent
<1>5. OneTalks /\ Chat!MineStay
  BY <1>4 DEF Chat!Init, OneTalks, Chat!MineStay
<1>. QED BY <1>3, <1>5 DEF ChatInv

LEMMA ChatInvStep ==
  ASSUME ChatInv, [Chat!Next]_chat
  PROVE  ChatInv'
<1>1. ASSUME NEW t \in Threads, Chat!OpenThread(t) PROVE ChatInv'
  BY <1>1, OpeningKeepsChat
<1>2. CASE Chat!HistoryComes \/ Chat!HistoryFails
  BY <1>2, HistoryKeepsChat
<1>3. CASE Chat!Inject
  BY <1>3, InjectingKeepsChat
<1>4. ASSUME NEW m \in Messages, Chat!SendMessage(m) \/ Chat!SendIsBlocked(m) PROVE ChatInv'
  BY <1>4, SendingKeepsChat
<1>5. ASSUME NEW m \in Messages, Chat!Step(m) \/ Chat!Delta(m) \/ Chat!RichCard(m)
      PROVE  ChatInv'
  BY <1>5, AnswersKeepChat DEF Chat!Step
<1>6. CASE UNCHANGED chat
  BY <1>6
     DEF chat, ChatInv, ChatTyped, OneTalks, Chat!Active, Chat!MineStay, Chat!Contains,
         Chat!User
<1>. QED BY <1>1, <1>2, <1>3, <1>4, <1>5, <1>6 DEF Chat!Next

\* What the user writes in a thread stays on the screen and in sessionStorage until the
\* thread is left, however late the history, the answers, their retries and the messages of
\* the page come, unless the thread was opened while the last one loaded or answered
\* (useAaliyahChat.ts).
THEOREM MessagesStay == ClientSpec => []MineStay
<1>1. ClientInit => ChatInv
  BY ChatInvInit DEF ClientInit
<1>2. ChatInv /\ [ClientNext]_client => ChatInv'
  BY ChatInvStep, StepOfOnePart
<1>3. ChatInv => MineStay
  BY DEF ChatInv, MineStay
<1>. QED BY <1>1, <1>2, <1>3, PTL DEF ClientSpec
==============================================================================
