----------------------- MODULE ConnectorServiceProofs -----------------------
(* Proofs about ConnectorService. Approvals: an action runs only under an   *)
(* approval that someone granted, and an approval is marked only after its  *)
(* action ran. Accounts: stored tokens decrypt, and what a connection or a  *)
(* revocation has told its user stands until the other runs into it.        *)
(* Synchronisation: no cursor passes what no sync has counted.              *)
EXTENDS ConnectorService, Integers, TLAPS

\* Whoever found the approval pending and in time granted it: every record
\* and every handler past that point owes it to a grant.
GrantInv ==
  /\ \A a \in Approvals : status[a] \in {"APPROVED", "EXECUTED"} => a \in granted
  /\ \A h \in Handlers : pc[h] \in {"executing", "marking"} => target[h] \in granted
  /\ RunsAreGranted

\* A handler marks what it has executed.
MarkInv ==
  /\ \A h \in Handlers : pc[h] = "marking" => runs[target[h]] > 0
  /\ ExecutedMeansRun

\* The steps of Next by their kind, for the proofs.
LookStep ==
  \E h \in Handlers, a \in Approvals :
    \/ Look(h, a, "approving") \/ Look(h, a, "expiring") \/ Look(h, a, "rejecting")
    \/ status[a] = "APPROVED" /\ Look(h, a, "executing")

\* What a handler finds decides where it goes; only an approved record leads
\* to an execution.
LEMMA LooksAreOfFourKinds ==
  ASSUME NEW h \in Handlers, NEW a \in Approvals,
         FindToApprove(h, a) \/ FindToReject(h, a) \/ Validate(h, a)
  PROVE  LookStep
<1>1. CASE FindToApprove(h, a)
  <2>1. CASE a \in overdue
    BY <1>1, <2>1 DEF FindToApprove, LookStep
  <2>2. CASE a \notin overdue
    BY <1>1, <2>2 DEF FindToApprove, LookStep
  <2>. QED BY <2>1, <2>2
<1>2. CASE FindToReject(h, a)
  BY <1>2 DEF FindToReject, LookStep
<1>3. CASE Validate(h, a)
  <2>1. CASE a \in overdue
    BY <1>3, <2>1 DEF Validate, LookStep
  <2>2. CASE a \notin overdue
    BY <1>3, <2>2 DEF Validate, LookStep
  <2>. QED BY <2>1, <2>2
<1>. QED BY <1>1, <1>2, <1>3

\* Next, one disjunct for each way it changes the state.
LEMMA StepCases ==
  ASSUME Next
  PROVE  \/ \E a \in Approvals : Create(a) \/ TimePasses(a)
         \/ LookStep
         \/ \E h \in Handlers :
              \/ Approve(h) \/ Reject(h) \/ Expire(h) \/ MarkExecuted(h)
              \/ Execute(h) \/ ExecuteFails(h) \/ Crash(h)
<1>1. CASE \E a \in Approvals : Create(a) \/ TimePasses(a)
  BY <1>1
<1>2. CASE \E h \in Deciders, a \in Approvals : FindToApprove(h, a) \/ FindToReject(h, a)
  BY <1>2, LooksAreOfFourKinds DEF Handlers
<1>3. CASE \E h \in Deciders : Decide(h)
  BY <1>3 DEF Handlers, Decide
<1>4. CASE \E h \in Executors, a \in Approvals : Validate(h, a)
  BY <1>4, LooksAreOfFourKinds DEF Handlers
<1>5. CASE \E h \in Executors : Carry(h)
  BY <1>5 DEF Handlers, Carry
<1>6. CASE \E h \in Handlers : Crash(h)
  BY <1>6
<1>. QED BY <1>1, <1>2, <1>3, <1>4, <1>5, <1>6 DEF Next

LEMMA CountsStayBounded ==
  ASSUME NEW n \in 0..2
  PROVE  OneMore(n) \in 0..2 /\ OneMore(n) > 0
BY DEF OneMore

-----------------------------------------------------------------------------
(* Types *)

LEMMA TypeHoldsInitially == Init => TypeOK
BY BoundAssumption DEF Init, TypeOK, Statuses, Places

LEMMA TypeStep ==
  ASSUME TypeOK, Next
  PROVE  TypeOK'
<1>. USE DEF TypeOK, Statuses, Places
<1>0. ASSUME Fault PROVE faults' \in 0..MaxFaults
  BY <1>0, BoundAssumption DEF Fault
<1>1. CASE \E a \in Approvals : Create(a) \/ TimePasses(a)
  BY <1>1 DEF Create, TimePasses
<1>2. CASE LookStep
  BY <1>2 DEF LookStep, Look
<1>3. ASSUME NEW h \in Handlers, Approve(h) \/ Reject(h) \/ Expire(h) \/ MarkExecuted(h)
      PROVE TypeOK'
  <2>1. target[h] \in Approvals
    OBVIOUS
  <2>. QED BY <1>3, <2>1 DEF Approve, Reject, Expire, MarkExecuted, Update
<1>4. ASSUME NEW h \in Handlers, Execute(h) \/ ExecuteFails(h) PROVE TypeOK'
  <2>1. OneMore(runs[target[h]]) \in 0..2
    BY CountsStayBounded
  <2>2. runs' \in [Approvals -> 0..2]
    BY <1>4, <2>1 DEF Execute, ExecuteFails
  <2>. QED BY <1>4, <1>0, <2>2 DEF Execute, ExecuteFails
<1>5. ASSUME NEW h \in Handlers, Crash(h) PROVE TypeOK'
  BY <1>5, <1>0 DEF Crash
<1>. QED BY <1>1, <1>2, <1>3, <1>4, <1>5, StepCases

\* Every reachable state has its type.
THEOREM TypeCorrect == Spec => []TypeOK
<1>1. TypeOK /\ [Next]_vars => TypeOK'
  <2>1. TypeOK /\ UNCHANGED vars => TypeOK'
    BY DEF TypeOK, vars
  <2>. QED BY <2>1, TypeStep
<1>. QED BY <1>1, TypeHoldsInitially, PTL DEF Spec

-----------------------------------------------------------------------------
(* Grants *)

LEMMA GrantHoldsInitially == Init => GrantInv
BY DEF Init, GrantInv, RunsAreGranted

LEMMA GrantStep ==
  ASSUME TypeOK, GrantInv, Next
  PROVE  GrantInv'
<1>. USE DEF GrantInv, RunsAreGranted, TypeOK
<1>1. CASE \E a \in Approvals : Create(a) \/ TimePasses(a)
  BY <1>1 DEF Create, TimePasses
<1>2. CASE LookStep
  BY <1>2 DEF LookStep, Look
<1>3. ASSUME NEW h \in Handlers, Approve(h) PROVE GrantInv'
  BY <1>3 DEF Approve, Update
<1>4. ASSUME NEW h \in Handlers, Reject(h) \/ Expire(h) PROVE GrantInv'
  BY <1>4 DEF Reject, Expire, Update
<1>5. ASSUME NEW h \in Handlers, MarkExecuted(h) PROVE GrantInv'
  BY <1>5 DEF MarkExecuted, Update
<1>6. ASSUME NEW h \in Handlers, Execute(h) \/ ExecuteFails(h) PROVE GrantInv'
  BY <1>6 DEF Execute, ExecuteFails
<1>7. ASSUME NEW h \in Handlers, Crash(h) PROVE GrantInv'
  BY <1>7 DEF Crash
<1>. QED BY <1>1, <1>2, <1>3, <1>4, <1>5, <1>6, <1>7, StepCases

\* No action of the connectors runs under an approval that nobody granted.
THEOREM NoRunWithoutGrant == Spec => []RunsAreGranted
<1>1. TypeOK /\ GrantInv /\ [Next]_vars => GrantInv'
  <2>1. GrantInv /\ UNCHANGED vars => GrantInv'
    BY DEF GrantInv, RunsAreGranted, vars
  <2>. QED BY <2>1, GrantStep
<1>2. GrantInv => RunsAreGranted
  BY DEF GrantInv
<1>. QED BY <1>1, <1>2, GrantHoldsInitially, TypeCorrect, PTL DEF Spec

-----------------------------------------------------------------------------
(* Marks *)

LEMMA MarkHoldsInitially == Init => MarkInv
BY DEF Init, MarkInv, ExecutedMeansRun

LEMMA MarkStep ==
  ASSUME TypeOK, MarkInv, Next
  PROVE  MarkInv'
<1>. USE DEF MarkInv, ExecutedMeansRun, TypeOK
<1>1. CASE \E a \in Approvals : Create(a) \/ TimePasses(a)
  BY <1>1 DEF Create, TimePasses
<1>2. CASE LookStep
  BY <1>2 DEF LookStep, Look
<1>3. ASSUME NEW h \in Handlers, Approve(h) \/ Reject(h) \/ Expire(h) PROVE MarkInv'
  BY <1>3 DEF Approve, Reject, Expire, Update
<1>4. ASSUME NEW h \in Handlers, MarkExecuted(h) PROVE MarkInv'
  BY <1>4 DEF MarkExecuted, Update
<1>5. ASSUME NEW h \in Handlers, Execute(h) \/ ExecuteFails(h) PROVE MarkInv'
  <2>1. OneMore(runs[target[h]]) > 0 /\ target[h] \in Approvals
    BY CountsStayBounded
  <2>2. \A a \in Approvals : runs[a] > 0 => runs'[a] > 0
    BY <1>5, <2>1 DEF Execute, ExecuteFails
  <2>3. Execute(h) => runs'[target[h]] > 0
    BY <2>1 DEF Execute
  <2>. QED BY <1>5, <2>2, <2>3 DEF Execute, ExecuteFails
<1>6. ASSUME NEW h \in Handlers, Crash(h) PROVE MarkInv'
  BY <1>6 DEF Crash
<1>. QED BY <1>1, <1>2, <1>3, <1>4, <1>5, <1>6, StepCases

\* An approval says EXECUTED only if its action was executed.
THEOREM MarksAreTrue == Spec => []ExecutedMeansRun
<1>1. TypeOK /\ MarkInv /\ [Next]_vars => MarkInv'
  <2>1. MarkInv /\ UNCHANGED vars => MarkInv'
    BY DEF MarkInv, ExecutedMeansRun, vars
  <2>. QED BY <2>1, MarkStep
<1>2. MarkInv => ExecutedMeansRun
  BY DEF MarkInv
<1>. QED BY <1>1, <1>2, MarkHoldsInitially, TypeCorrect, PTL DEF Spec

\* The approvals of the composed service behave as those of ApprovalGate.
LEMMA ServiceApproves == ServiceSpec => Spec
<1>1. ServiceInit => Init
  BY DEF ServiceInit
<1>2. [ServiceNext]_services => [Next]_vars
  BY DEF ServiceNext, ApprovalStep, AccountStep, SyncStep, services
<1>. QED BY <1>1, <1>2, PTL DEF ServiceSpec, Spec

-----------------------------------------------------------------------------
(* Accounts: the fields of a request.                                       *)

CallsTyped == callback \in [Callbacks -> Link!CallbackCalls \union {Link!Unsent}]
RevocationsTyped == revoke \in [Revocations -> Link!RevokeCalls \union {Link!Unsent}]

\* y is x at another place.
Follows(y, x, place) ==
  y.pc = place /\ y.account = x.account /\ y.overtaken = x.overtaken

LEMMA CallbackFields ==
  ASSUME NEW x \in Link!CallbackCalls
  PROVE  /\ \A q \in Link!CallbackPlaces :
              LET y == [x EXCEPT !.pc = q]
              IN  y \in Link!CallbackCalls /\ Follows(y, x, q) /\ y.key = x.key
         /\ \A q \in Link!CallbackPlaces, k \in Link!Keys :
              LET y == [x EXCEPT !.pc = q, !.key = k]
              IN  y \in Link!CallbackCalls /\ Follows(y, x, q) /\ y.key = k
         /\ LET y == [x EXCEPT !.overtaken = TRUE]
            IN  /\ y \in Link!CallbackCalls /\ y.pc = x.pc /\ y.key = x.key
                /\ y.account = x.account /\ y.overtaken = TRUE
         /\ x.pc \in Link!CallbackPlaces /\ x.pc # "unsent"
         /\ x.account \in Accounts /\ x.process \in Processes /\ x.flow \in Flows
  BY DEF Link!CallbackCalls, Link!CallbackPlaces, Follows

LEMMA RevokeFields ==
  ASSUME NEW x \in Link!RevokeCalls
  PROVE  /\ \A q \in {"deleting", "updating", "success", "error"} :
              LET y == [x EXCEPT !.pc = q] IN y \in Link!RevokeCalls /\ Follows(y, x, q)
         /\ LET y == [x EXCEPT !.overtaken = TRUE]
            IN  /\ y \in Link!RevokeCalls /\ y.pc = x.pc
                /\ y.account = x.account /\ y.overtaken = TRUE
         /\ x.account \in Accounts /\ x.pc # "unsent"
  BY DEF Link!RevokeCalls, Follows

\* A request that is sent has its fields.
LEMMA SentCallback ==
  ASSUME CallsTyped, NEW c \in Callbacks, callback[c].pc # "unsent"
  PROVE  callback[c] \in Link!CallbackCalls
  BY DEF CallsTyped, Link!Unsent

LEMMA SentRevocation ==
  ASSUME RevocationsTyped, NEW r \in Revocations, revoke[r].pc # "unsent"
  PROVE  revoke[r] \in Link!RevokeCalls
  BY DEF RevocationsTyped, Link!Unsent

LEMMA CallbackGoes ==
  ASSUME CallsTyped, NEW c \in Callbacks, callback[c].pc # "unsent",
         NEW q \in Link!CallbackPlaces, Link!Goto(c, q)
  PROVE  /\ CallsTyped'
         /\ Follows(callback'[c], callback[c], q) /\ callback'[c].key = callback[c].key
         /\ \A d \in Callbacks \ {c} : callback'[d] = callback[d]
<1> DEFINE y == [callback[c] EXCEPT !.pc = q]
<1>1. callback' = [callback EXCEPT ![c] = y]
  BY DEF Link!Goto
<1>2. y \in Link!CallbackCalls /\ Follows(y, callback[c], q) /\ y.key = callback[c].key
  BY SentCallback, CallbackFields
<1> HIDE DEF y
<1>. QED BY <1>1, <1>2 DEF CallsTyped

LEMMA CallbackTakesKey ==
  ASSUME CallsTyped, NEW c \in Callbacks, callback[c].pc # "unsent",
         NEW q \in Link!CallbackPlaces, NEW k \in Link!Keys,
         callback' = [callback EXCEPT ![c].pc = q, ![c].key = k]
  PROVE  /\ CallsTyped'
         /\ Follows(callback'[c], callback[c], q) /\ callback'[c].key = k
         /\ \A d \in Callbacks \ {c} : callback'[d] = callback[d]
<1> DEFINE y == [callback[c] EXCEPT !.pc = q, !.key = k]
<1>0. c \in DOMAIN callback /\ callback = [d \in Callbacks |-> callback[d]]
  BY DEF CallsTyped
<1>1. callback' = [callback EXCEPT ![c] = y]
  BY <1>0
<1>2. y \in Link!CallbackCalls /\ Follows(y, callback[c], q) /\ y.key = k
  BY SentCallback, CallbackFields
<1> HIDE DEF y
<1>. QED BY <1>1, <1>2 DEF CallsTyped

LEMMA RevocationGoes ==
  ASSUME RevocationsTyped, NEW r \in Revocations, revoke[r].pc # "unsent",
         NEW q \in {"deleting", "updating", "success", "error"},
         revoke' = [revoke EXCEPT ![r].pc = q]
  PROVE  /\ RevocationsTyped'
         /\ Follows(revoke'[r], revoke[r], q)
         /\ \A s \in Revocations \ {r} : revoke'[s] = revoke[s]
<1> DEFINE y == [revoke[r] EXCEPT !.pc = q]
<1>1. revoke' = [revoke EXCEPT ![r] = y]
  OBVIOUS
<1>2. y \in Link!RevokeCalls /\ Follows(y, revoke[r], q)
  BY SentRevocation, RevokeFields
<1> HIDE DEF y
<1>. QED BY <1>1, <1>2 DEF RevocationsTyped

\* A request that another one of account a runs into stays where it is.
CallbackMeets(c, a) ==
  /\ callback'[c].pc = callback[c].pc
  /\ \/ /\ callback'[c] = callback[c]
        /\ callback[c].pc # "unsent" => callback[c].account # a
     \/ /\ callback'[c].account = callback[c].account
        /\ callback'[c].key = callback[c].key /\ callback'[c].overtaken

RevocationMeets(r, a) ==
  /\ revoke'[r].pc = revoke[r].pc
  /\ \/ /\ revoke'[r] = revoke[r]
        /\ revoke[r].pc # "unsent" => revoke[r].account # a
     \/ revoke'[r].account = revoke[r].account /\ revoke'[r].overtaken

LEMMA CallbacksOvertaken ==
  ASSUME CallsTyped, NEW a \in Accounts, Link!OvertakeCallbacks(a)
  PROVE  /\ CallsTyped'
         /\ \A c \in Callbacks : CallbackMeets(c, a)
<1>1. ASSUME NEW c \in Callbacks
      PROVE /\ callback'[c] \in Link!CallbackCalls \union {Link!Unsent}
            /\ CallbackMeets(c, a)
  <2> DEFINE y == [callback[c] EXCEPT !.overtaken = TRUE]
  <2>1. callback'[c] = IF callback[c] # Link!Unsent /\ callback[c].account = a
                       THEN y ELSE callback[c]
    BY DEF Link!OvertakeCallbacks
  <2>2. CASE callback[c] # Link!Unsent /\ callback[c].account = a
    <3>1. callback[c] \in Link!CallbackCalls
      BY <2>2 DEF CallsTyped
    <3>2. /\ y \in Link!CallbackCalls /\ y.pc = callback[c].pc /\ y.key = callback[c].key
          /\ y.account = callback[c].account /\ y.overtaken = TRUE
      BY <3>1, CallbackFields
    <3> HIDE DEF y
    <3>. QED BY <2>1, <2>2, <3>2 DEF CallbackMeets
  <2>3. CASE ~(callback[c] # Link!Unsent /\ callback[c].account = a)
    <3>1. callback'[c] = callback[c]
      BY <2>1, <2>3
    <3>2. callback[c].pc # "unsent" => callback[c].account # a
      BY <2>3 DEF Link!Unsent
    <3>. QED BY <3>1, <3>2 DEF CallsTyped, CallbackMeets
  <2>. QED BY <2>2, <2>3
<1>2. callback' = [c \in Callbacks |-> callback'[c]]
  BY DEF Link!OvertakeCallbacks
<1>3. CallsTyped'
  BY <1>1, <1>2 DEF CallsTyped
<1>. QED BY <1>1, <1>3

LEMMA RevocationsOvertaken ==
  ASSUME RevocationsTyped, NEW a \in Accounts, Link!OvertakeRevocations(a)
  PROVE  /\ RevocationsTyped'
         /\ \A r \in Revocations : RevocationMeets(r, a)
<1>1. ASSUME NEW r \in Revocations
      PROVE /\ revoke'[r] \in Link!RevokeCalls \union {Link!Unsent}
            /\ RevocationMeets(r, a)
  <2> DEFINE y == [revoke[r] EXCEPT !.overtaken = TRUE]
  <2>1. revoke'[r] = IF revoke[r] # Link!Unsent /\ revoke[r].account = a
                     THEN y ELSE revoke[r]
    BY DEF Link!OvertakeRevocations
  <2>2. CASE revoke[r] # Link!Unsent /\ revoke[r].account = a
    <3>1. revoke[r] \in Link!RevokeCalls
      BY <2>2 DEF RevocationsTyped
    <3>2. /\ y \in Link!RevokeCalls /\ y.pc = revoke[r].pc
          /\ y.account = revoke[r].account /\ y.overtaken = TRUE
      BY <3>1, RevokeFields
    <3> HIDE DEF y
    <3>. QED BY <2>1, <2>2, <3>2 DEF RevocationMeets
  <2>3. CASE ~(revoke[r] # Link!Unsent /\ revoke[r].account = a)
    <3>1. revoke'[r] = revoke[r]
      BY <2>1, <2>3
    <3>2. revoke[r].pc # "unsent" => revoke[r].account # a
      BY <2>3 DEF Link!Unsent
    <3>. QED BY <3>1, <3>2 DEF RevocationsTyped, RevocationMeets
  <2>. QED BY <2>2, <2>3
<1>2. revoke' = [r \in Revocations |-> revoke'[r]]
  BY DEF Link!OvertakeRevocations
<1>3. RevocationsTyped'
  BY <1>1, <1>2 DEF RevocationsTyped
<1>. QED BY <1>1, <1>3

-----------------------------------------------------------------------------
(* Accounts: the invariant.                                                 *)

Tabled ==
  /\ account \in [Accounts -> Link!Statuses]
  /\ token \in [Accounts -> Link!Tokens \union {Link!NoToken}]
  /\ key \in Link!Keys \union {Link!NoKey}
  /\ cache \in [Processes -> Link!Keys \union {Link!NoKey}]
  /\ synced \subseteq Accounts

LinkTyped == CallsTyped /\ RevocationsTyped /\ Tabled

\* The tenant has one key: what a process remembers, a request carries or a token was
\* encrypted with is the key of the row, so that the version names it truly.
OneKey ==
  /\ \A p \in Processes : cache[p] \in {Link!NoKey, key}
  /\ \A c \in Callbacks :
       callback[c].pc = "storing" => key # Link!NoKey /\ callback[c].key = key
  /\ \A a \in Accounts : token[a] # Link!NoToken => key # Link!NoKey /\ token[a].key = key

\* What a connection has written stands until a revocation runs into it.
ConnectionsStand ==
  \A c \in Callbacks :
    LET a == callback[c].account IN
    callback[c].pc \in {"finding", "creating", "storing", "syncing", "auditing", "success"} =>
      \/ callback[c].overtaken
      \/ /\ account[a] = "ACTIVE"
         /\ callback[c].pc \in {"syncing", "auditing", "success"} => token[a] # Link!NoToken
         /\ callback[c].pc \in {"auditing", "success"} => a \in synced

\* What a revocation has written stands until a connection runs into it.
RevocationsStand ==
  \A r \in Revocations :
    LET a == revoke[r].account IN
    revoke[r].pc \in {"updating", "success"} =>
      \/ revoke[r].overtaken
      \/ token[a] = Link!NoToken /\ (revoke[r].pc = "success" => account[a] = "REVOKED")

LinkInv == LinkTyped /\ OneKey /\ ConnectionsStand /\ RevocationsStand

LEMMA SentKnowAccount ==
  ASSUME LinkTyped
  PROVE  /\ \A c \in Callbacks : callback[c].pc # "unsent" => callback[c].account \in Accounts
         /\ \A r \in Revocations : revoke[r].pc # "unsent" => revoke[r].account \in Accounts
<1>1. ASSUME NEW c \in Callbacks, callback[c].pc # "unsent" PROVE callback[c].account \in Accounts
  BY <1>1, SentCallback, CallbackFields DEF LinkTyped
<1>2. ASSUME NEW r \in Revocations, revoke[r].pc # "unsent" PROVE revoke[r].account \in Accounts
  BY <1>2, SentRevocation, RevokeFields DEF LinkTyped
<1>. QED BY <1>1, <1>2

\* The invariant is about the tables, the caches and the requests.
Remains == UNCHANGED <<account, token, synced, key, cache, callback, revoke>>

LEMMA LinkInvRemains ==
  ASSUME LinkInv, Remains
  PROVE  LinkInv'
  BY DEF LinkInv, LinkTyped, CallsTyped, RevocationsTyped, Tabled, OneKey, ConnectionsStand,
         RevocationsStand, Remains

\* A request that does not write to an account goes on to a place where nothing more is
\* claimed of it.
LEMMA LinkInvGoes ==
  ASSUME LinkInv, NEW c \in Callbacks, callback[c].pc # "unsent",
         NEW q \in Link!CallbackPlaces, Link!Goto(c, q),
         \/ q \in {"exchanging", "saving", "error"}
         \/ callback[c].pc = "finding" /\ q = "creating"
         \/ callback[c].pc = "auditing" /\ q = "success",
         UNCHANGED <<account, token, synced, key, cache, revoke>>
  PROVE  LinkInv'
<1>. USE DEF LinkInv
<1>1. /\ CallsTyped'
      /\ Follows(callback'[c], callback[c], q) /\ callback'[c].key = callback[c].key
      /\ \A d \in Callbacks \ {c} : callback'[d] = callback[d]
  BY CallbackGoes DEF LinkTyped
<1>2. LinkTyped'
  BY <1>1 DEF LinkTyped, RevocationsTyped, Tabled
<1>3. OneKey'
  BY <1>1 DEF OneKey, Follows
<1>4. ConnectionsStand'
  BY <1>1 DEF ConnectionsStand, Follows
<1>5. RevocationsStand'
  BY DEF RevocationsStand
<1>. QED BY <1>2, <1>3, <1>4, <1>5

LEMMA GetStateKeeps ==
  ASSUME LinkInv, NEW c \in Callbacks, NEW f \in Flows, NEW p \in Processes, NEW a \in Accounts,
         Link!GetState(c, f, p, a)
  PROVE  LinkInv'
<1>. USE DEF LinkInv
<1> DEFINE q == IF state[f] = "pending" THEN "deleting" ELSE "error"
           x == [pc |-> q, process |-> p, flow |-> f, account |-> a,
                 key |-> Link!NoKey, overtaken |-> FALSE]
<1>1. /\ callback' = [callback EXCEPT ![c] = x]
      /\ UNCHANGED <<account, token, synced, key, cache, revoke>>
  BY DEF Link!GetState, Link!tables
<1>2. x \in Link!CallbackCalls /\ x.pc \in {"deleting", "error"}
  BY DEF Link!CallbackCalls, Link!CallbackPlaces
<1> HIDE DEF x
<1>3. LinkTyped'
  BY <1>1, <1>2 DEF LinkTyped, CallsTyped, RevocationsTyped, Tabled
<1>4. /\ callback'[c].pc \in {"deleting", "error"}
      /\ \A d \in Callbacks \ {c} : callback'[d] = callback[d]
  BY <1>1, <1>2 DEF LinkTyped, CallsTyped
<1>5. OneKey'
  BY <1>1, <1>4 DEF OneKey
<1>6. ConnectionsStand'
  BY <1>1, <1>4 DEF ConnectionsStand
<1>7. RevocationsStand'
  BY <1>1 DEF RevocationsStand
<1>. QED BY <1>3, <1>5, <1>6, <1>7

LEMMA SaveAccountKeeps ==
  ASSUME LinkInv, NEW c \in Callbacks, Link!SaveAccount(c)
  PROVE  LinkInv'
<1>. USE DEF LinkInv
<1> DEFINE a == callback[c].account
<1>1. /\ callback[c].pc = "saving" /\ Link!Goto(c, "finding") /\ Link!OvertakeRevocations(a)
      /\ account' = [account EXCEPT ![a] = "ACTIVE"]
      /\ UNCHANGED <<token, synced, key, cache>>
  BY DEF Link!SaveAccount, Link!At
<1>2. a \in Accounts
  BY <1>1, SentCallback, CallbackFields DEF LinkTyped
<1>3. /\ CallsTyped'
      /\ Follows(callback'[c], callback[c], "finding") /\ callback'[c].key = callback[c].key
      /\ \A d \in Callbacks \ {c} : callback'[d] = callback[d]
  BY <1>1, CallbackGoes DEF LinkTyped, Link!CallbackPlaces
<1>4. /\ RevocationsTyped'
      /\ \A r \in Revocations : RevocationMeets(r, a)
  BY <1>1, <1>2, RevocationsOvertaken DEF LinkTyped
<1>5. /\ account' \in [Accounts -> Link!Statuses] /\ account'[a] = "ACTIVE"
      /\ \A b \in Accounts \ {a} : account'[b] = account[b]
  BY <1>1, <1>2 DEF LinkTyped, Tabled, Link!Statuses
<1> HIDE DEF a
<1>6. LinkTyped'
  BY <1>1, <1>3, <1>4, <1>5 DEF LinkTyped, Tabled
<1>7. OneKey'
  BY <1>1, <1>3 DEF OneKey, Follows
<1>9. callback'[c].account = a
  BY <1>3 DEF a, Follows
<1>10. ConnectionsStand'
  BY <1>1, <1>3, <1>5, SentKnowAccount, <1>9 DEF ConnectionsStand, Follows
<1>12. RevocationsStand'
  BY <1>1, <1>4, <1>5, SentKnowAccount DEF RevocationsStand, RevocationMeets
<1>. QED BY <1>6, <1>7, <1>10, <1>12

LEMMA FindKeyKeeps ==
  ASSUME LinkInv, NEW c \in Callbacks, Link!FindKey(c)
  PROVE  LinkInv'
<1>. USE DEF LinkInv
<1> DEFINE p == callback[c].process
           found == IF cache[p] # Link!NoKey THEN cache[p] ELSE key
<1>1. callback[c].pc = "finding" /\ UNCHANGED <<account, token, synced, key, revoke>>
  BY DEF Link!FindKey, Link!At, Link!tables
<1>2. CASE key = Link!NoKey
  <2>1. Link!Goto(c, "creating") /\ cache' = cache
    BY <1>2 DEF Link!FindKey
  <2>. QED BY <1>1, <2>1, LinkInvGoes DEF Link!CallbackPlaces
<1>3. CASE key # Link!NoKey
  <2>1. p \in Processes
    BY <1>1, SentCallback, CallbackFields DEF LinkTyped
  <2>2. found = key
    BY <2>1 DEF OneKey
  <2>3. /\ callback' = [callback EXCEPT ![c].pc = "storing", ![c].key = key]
        /\ cache' = [cache EXCEPT ![p] = key]
    BY <1>3, <2>2 DEF Link!FindKey
  <2>4. key \in Link!Keys
    BY <1>3 DEF LinkTyped, Tabled
  <2>5. /\ CallsTyped'
        /\ Follows(callback'[c], callback[c], "storing") /\ callback'[c].key = key
        /\ \A d \in Callbacks \ {c} : callback'[d] = callback[d]
    BY <1>1, <2>3, <2>4, CallbackTakesKey DEF LinkTyped, Link!CallbackPlaces
  <2>6. LinkTyped'
    BY <1>1, <2>3, <2>4, <2>5 DEF LinkTyped, RevocationsTyped, Tabled
  <2>7. \A x \in Processes : cache'[x] \in {Link!NoKey, key}
    BY <2>3 DEF OneKey, LinkTyped, Tabled
  <2>8. OneKey'
    BY <1>1, <1>3, <2>5, <2>7 DEF OneKey
  <2>9. ConnectionsStand'
    BY <1>1, <2>5 DEF ConnectionsStand, Follows
  <2>10. RevocationsStand'
    BY <1>1 DEF RevocationsStand
  <2>. QED BY <2>6, <2>8, <2>9, <2>10
<1>. QED BY <1>2, <1>3

LEMMA CreateKeyKeeps ==
  ASSUME LinkInv, NEW c \in Callbacks, Link!CreateKey(c)
  PROVE  LinkInv'
<1>. USE DEF LinkInv
<1> DEFINE p == callback[c].process
<1>1. callback[c].pc = "creating" /\ UNCHANGED <<account, token, synced, revoke>>
  BY DEF Link!CreateKey, Link!At
<1>2. p \in Processes
  BY <1>1, SentCallback, CallbackFields DEF LinkTyped
<1>3. CASE key = Link!NoKey
  <2>1. /\ key' = c /\ cache' = [cache EXCEPT ![p] = c]
        /\ callback' = [callback EXCEPT ![c].pc = "storing", ![c].key = c]
    BY <1>3 DEF Link!CreateKey
  <2>2. c \in Link!Keys /\ c # Link!NoKey
    BY NoKeyAssumption DEF Link!Keys
  <2>3. /\ CallsTyped'
        /\ Follows(callback'[c], callback[c], "storing") /\ callback'[c].key = c
        /\ \A d \in Callbacks \ {c} : callback'[d] = callback[d]
    BY <1>1, <2>1, <2>2, CallbackTakesKey DEF LinkTyped, Link!CallbackPlaces
  <2>4. LinkTyped'
    BY <1>1, <2>1, <2>2, <2>3 DEF LinkTyped, RevocationsTyped, Tabled
  <2>5. \A x \in Processes : cache'[x] \in {Link!NoKey, key'}
    BY <1>3, <2>1 DEF OneKey, LinkTyped, Tabled
  <2>6. \A d \in Callbacks : callback'[d].pc = "storing" => callback'[d].key = key'
    BY <1>3, <2>1, <2>3 DEF OneKey
  <2>7. OneKey'
    BY <1>1, <1>3, <2>1, <2>2, <2>5, <2>6 DEF OneKey
  <2>8. ConnectionsStand'
    BY <1>1, <2>3 DEF ConnectionsStand, Follows
  <2>9. RevocationsStand'
    BY <1>1 DEF RevocationsStand
  <2>. QED BY <2>4, <2>7, <2>8, <2>9
<1>4. CASE key # Link!NoKey
  <2>1. Link!Goto(c, "error") /\ key' = key /\ cache' = [cache EXCEPT ![p] = cache[p]]
    BY <1>4 DEF Link!CreateKey, Link!KeepCreated
  <2>2. cache' = cache
    BY <2>1, <1>2 DEF LinkTyped, Tabled
  <2>. QED BY <1>1, <2>1, <2>2, LinkInvGoes DEF Link!CallbackPlaces
<1>. QED BY <1>3, <1>4

LEMMA StoreTokensKeeps ==
  ASSUME LinkInv, NEW c \in Callbacks, Link!StoreTokens(c)
  PROVE  LinkInv'
<1>. USE DEF LinkInv
<1> DEFINE a == callback[c].account
           t == Link!EncryptToken(c)
<1>1. /\ callback[c].pc = "storing" /\ Link!Goto(c, "syncing") /\ Link!OvertakeRevocations(a)
      /\ token' = [token EXCEPT ![a] = t]
      /\ UNCHANGED <<account, synced, key, cache>>
  BY DEF Link!StoreTokens, Link!At
<1>2. a \in Accounts
  BY <1>1, SentKnowAccount DEF LinkTyped
<1>3. key # Link!NoKey /\ callback[c].key = key
  BY <1>1 DEF OneKey
<1>4. t \in Link!Tokens /\ t.key = key
  <2>1. callback[c].flow \in Flows
    BY <1>1, SentCallback, CallbackFields DEF LinkTyped
  <2>. QED BY <1>3, <2>1 DEF Link!EncryptToken, Link!Tokens, LinkTyped, Tabled
<1>5. t # Link!NoToken
  BY <1>3, <1>4 DEF Link!NoToken
<1>6. /\ CallsTyped'
      /\ Follows(callback'[c], callback[c], "syncing") /\ callback'[c].key = callback[c].key
      /\ \A d \in Callbacks \ {c} : callback'[d] = callback[d]
  BY <1>1, CallbackGoes DEF LinkTyped, Link!CallbackPlaces
<1>7. /\ RevocationsTyped'
      /\ \A r \in Revocations : RevocationMeets(r, a)
  BY <1>1, <1>2, RevocationsOvertaken DEF LinkTyped
<1> HIDE DEF t
<1>8. /\ token' \in [Accounts -> Link!Tokens \union {Link!NoToken}] /\ token'[a] = t
      /\ \A b \in Accounts \ {a} : token'[b] = token[b]
  BY <1>1, <1>2, <1>4 DEF LinkTyped, Tabled
<1>9. callback'[c].account = a
  BY <1>6 DEF Follows
<1> HIDE DEF a
<1>10. LinkTyped'
  BY <1>1, <1>6, <1>7, <1>8 DEF LinkTyped, Tabled
<1>11. OneKey'
  BY <1>1, <1>3, <1>4, <1>6, <1>8 DEF OneKey, Follows
<1>12. ConnectionsStand'
  BY <1>1, <1>5, <1>6, <1>8, <1>9, SentKnowAccount DEF ConnectionsStand, Follows, a
<1>13. RevocationsStand'
  BY <1>1, <1>7, <1>8, SentKnowAccount DEF RevocationsStand, RevocationMeets
<1>. QED BY <1>10, <1>11, <1>12, <1>13

LEMMA CreateSyncStateKeeps ==
  ASSUME LinkInv, NEW c \in Callbacks, Link!CreateSyncState(c)
  PROVE  LinkInv'
<1>. USE DEF LinkInv
<1> DEFINE a == callback[c].account
<1>1. /\ callback[c].pc = "syncing" /\ Link!Goto(c, "auditing")
      /\ synced' = synced \union {a}
      /\ UNCHANGED <<account, token, key, cache, revoke>>
  BY DEF Link!CreateSyncState, Link!At
<1>2. a \in Accounts
  BY <1>1, SentKnowAccount DEF LinkTyped
<1>3. /\ CallsTyped'
      /\ Follows(callback'[c], callback[c], "auditing") /\ callback'[c].key = callback[c].key
      /\ \A d \in Callbacks \ {c} : callback'[d] = callback[d]
  BY <1>1, CallbackGoes DEF LinkTyped, Link!CallbackPlaces
<1>4. LinkTyped'
  BY <1>1, <1>2, <1>3 DEF LinkTyped, RevocationsTyped, Tabled
<1>5. OneKey'
  BY <1>1, <1>3 DEF OneKey, Follows
<1>6. ConnectionsStand'
  BY <1>1, <1>3 DEF ConnectionsStand, Follows
<1>7. RevocationsStand'
  BY <1>1 DEF RevocationsStand
<1>. QED BY <1>4, <1>5, <1>6, <1>7

LEMMA CallbackKeeps ==
  ASSUME LinkInv, NEW c \in Callbacks, Link!Callback(c)
  PROVE  LinkInv'
<1>1. ASSUME NEW f \in Flows, NEW p \in Processes, NEW a \in Accounts, Link!GetState(c, f, p, a)
      PROVE  LinkInv'
  BY <1>1, GetStateKeeps
<1>2. CASE Link!DeleteState(c)
  BY <1>2, LinkInvGoes DEF Link!DeleteState, Link!At, Link!tables, Link!CallbackPlaces
<1>3. CASE Link!ExchangeCode(c)
  <2>1. /\ callback[c].pc = "exchanging" /\ (Link!Goto(c, "saving") \/ Link!Goto(c, "error"))
        /\ UNCHANGED <<account, token, synced, key, cache, revoke>>
    BY <1>3 DEF Link!ExchangeCode, Link!At, Link!tables
  <2>. QED BY <2>1, LinkInvGoes DEF Link!CallbackPlaces
<1>4. CASE Link!LogConnect(c)
  BY <1>4, LinkInvGoes DEF Link!LogConnect, Link!At, Link!tables, Link!CallbackPlaces
<1>5. CASE Link!CallbackFails(c)
  BY <1>5, LinkInvGoes DEF Link!CallbackFails, Link!AfterError, Link!Ended,
                            Link!tables, Link!CallbackPlaces
<1>. QED BY <1>1, <1>2, <1>3, <1>4, <1>5, SaveAccountKeeps, FindKeyKeeps, CreateKeyKeeps,
            StoreTokensKeeps, CreateSyncStateKeeps DEF Link!Callback

LEMMA ValidateAccountKeeps ==
  ASSUME LinkInv, NEW r \in Revocations, NEW a \in Accounts, Link!ValidateAccount(r, a)
  PROVE  LinkInv'
<1>. USE DEF LinkInv
<1> DEFINE x == [pc |-> "deleting", account |-> a, overtaken |-> FALSE]
<1>1. /\ revoke' = [revoke EXCEPT ![r] = x]
      /\ UNCHANGED <<account, token, synced, key, cache, callback>>
  BY DEF Link!ValidateAccount, Link!tables
<1>2. x \in Link!RevokeCalls /\ x.pc = "deleting"
  BY DEF Link!RevokeCalls
<1> HIDE DEF x
<1>3. LinkTyped'
  BY <1>1, <1>2 DEF LinkTyped, CallsTyped, RevocationsTyped, Tabled
<1>4. revoke'[r].pc = "deleting" /\ \A s \in Revocations \ {r} : revoke'[s] = revoke[s]
  BY <1>1, <1>2 DEF LinkTyped, RevocationsTyped
<1>5. OneKey' /\ ConnectionsStand'
  BY <1>1 DEF OneKey, ConnectionsStand
<1>6. RevocationsStand'
  BY <1>1, <1>4 DEF RevocationsStand
<1>. QED BY <1>3, <1>5, <1>6

LEMMA RevokeTokensKeeps ==
  ASSUME LinkInv, NEW r \in Revocations, Link!RevokeTokens(r)
  PROVE  LinkInv'
<1>. USE DEF LinkInv
<1> DEFINE a == revoke[r].account
           q == IF Link!CanDelete(a) THEN "updating" ELSE "error"
<1>1. /\ revoke[r].pc = "deleting"
      /\ token' = [token EXCEPT ![a] = Link!NoToken]
      /\ revoke' = [revoke EXCEPT ![r].pc = q]
      /\ IF Link!CanDelete(a) THEN Link!OvertakeCallbacks(a) ELSE callback' = callback
      /\ UNCHANGED <<account, synced, key, cache>>
  BY DEF Link!RevokeTokens
<1>2. a \in Accounts
  BY <1>1, SentKnowAccount DEF LinkTyped
<1>3. /\ RevocationsTyped'
      /\ Follows(revoke'[r], revoke[r], q)
      /\ \A s \in Revocations \ {r} : revoke'[s] = revoke[s]
  BY <1>1, RevocationGoes DEF LinkTyped
<1>4. revoke'[r].account = a
  BY <1>3 DEF Follows
<1>5. /\ token' \in [Accounts -> Link!Tokens \union {Link!NoToken}]
      /\ token'[a] = Link!NoToken
      /\ \A b \in Accounts \ {a} : token'[b] = token[b]
  BY <1>1, <1>2 DEF LinkTyped, Tabled
<1>6. /\ CallsTyped'
      /\ \A c \in Callbacks :
           /\ callback'[c].pc = callback[c].pc
           /\ \/ callback'[c] = callback[c] /\
                 (callback[c].pc # "unsent" => callback[c].account # a \/ token[a] = Link!NoToken)
              \/ /\ callback'[c].account = callback[c].account
                 /\ callback'[c].key = callback[c].key /\ callback'[c].overtaken
  <2>1. CASE Link!CanDelete(a)
    BY <1>1, <1>2, <2>1, CallbacksOvertaken DEF LinkTyped, CallbackMeets
  <2>2. CASE ~Link!CanDelete(a)
    <3>1. callback' = callback /\ token[a] = Link!NoToken
      BY <1>1, <2>2 DEF Link!CanDelete
    <3>. QED BY <3>1 DEF LinkTyped, CallsTyped
  <2>. QED BY <2>1, <2>2
<1> HIDE DEF a, q
<1>7. LinkTyped'
  BY <1>1, <1>3, <1>5, <1>6 DEF LinkTyped, Tabled
<1>8. OneKey'
  BY <1>1, <1>5, <1>6 DEF OneKey
<1>9. ConnectionsStand'
  BY <1>1, <1>5, <1>6, SentKnowAccount DEF ConnectionsStand
<1>10. ASSUME NEW s \in Revocations, revoke'[s].pc \in {"updating", "success"}
       PROVE  \/ revoke'[s].overtaken
              \/ /\ token'[revoke'[s].account] = Link!NoToken
                 /\ revoke'[s].pc = "success" => account'[revoke'[s].account] = "REVOKED"
  <2>1. CASE s = r
    BY <1>3, <1>4, <1>5, <1>10, <2>1 DEF Follows, q
  <2>2. CASE s # r
    BY <1>1, <1>3, <1>5, <1>10, <2>2, SentKnowAccount DEF RevocationsStand
  <2>. QED BY <2>1, <2>2
<1>11. RevocationsStand'
  BY <1>10 DEF RevocationsStand
<1>. QED BY <1>7, <1>8, <1>9, <1>11

LEMMA SetRevokedKeeps ==
  ASSUME LinkInv, NEW r \in Revocations, Link!SetRevoked(r)
  PROVE  LinkInv'
<1>. USE DEF LinkInv
<1> DEFINE a == revoke[r].account
<1>1. /\ revoke[r].pc = "updating"
      /\ account' = [account EXCEPT ![a] = "REVOKED"]
      /\ revoke' = [revoke EXCEPT ![r].pc = "success"]
      /\ Link!OvertakeCallbacks(a)
      /\ UNCHANGED <<token, synced, key, cache>>
  BY DEF Link!SetRevoked
<1>2. a \in Accounts
  BY <1>1, SentKnowAccount DEF LinkTyped
<1>3. /\ RevocationsTyped'
      /\ Follows(revoke'[r], revoke[r], "success")
      /\ \A s \in Revocations \ {r} : revoke'[s] = revoke[s]
  BY <1>1, RevocationGoes DEF LinkTyped
<1>4. revoke'[r].account = a
  BY <1>3 DEF Follows
<1>5. /\ account' \in [Accounts -> Link!Statuses] /\ account'[a] = "REVOKED"
      /\ \A b \in Accounts \ {a} : account'[b] = account[b]
  BY <1>1, <1>2 DEF LinkTyped, Tabled, Link!Statuses
<1>6. /\ CallsTyped'
      /\ \A c \in Callbacks : CallbackMeets(c, a)
  BY <1>1, <1>2, CallbacksOvertaken DEF LinkTyped
<1>7. LinkTyped'
  BY <1>1, <1>3, <1>5, <1>6 DEF LinkTyped, Tabled
<1>8. OneKey'
  BY <1>1, <1>6 DEF OneKey, CallbackMeets
<1>9. \/ revoke[r].overtaken
      \/ token[a] = Link!NoToken
  BY <1>1 DEF RevocationsStand
<1> HIDE DEF a
<1>10. ConnectionsStand'
  BY <1>1, <1>5, <1>6, SentKnowAccount DEF ConnectionsStand, CallbackMeets
<1>11. ASSUME NEW s \in Revocations, revoke'[s].pc \in {"updating", "success"}
       PROVE  \/ revoke'[s].overtaken
              \/ /\ token'[revoke'[s].account] = Link!NoToken
                 /\ revoke'[s].pc = "success" => account'[revoke'[s].account] = "REVOKED"
  <2>1. CASE s = r
    BY <1>1, <1>3, <1>4, <1>5, <1>9, <2>1 DEF Follows
  <2>2. CASE s # r
    BY <1>1, <1>3, <1>5, <1>11, <2>2, SentKnowAccount DEF RevocationsStand
  <2>. QED BY <2>1, <2>2
<1>12. RevocationsStand'
  BY <1>11 DEF RevocationsStand
<1>. QED BY <1>7, <1>8, <1>10, <1>12

LEMMA RevokeFailsKeeps ==
  ASSUME LinkInv, NEW r \in Revocations, Link!RevokeFails(r)
  PROVE  LinkInv'
<1>. USE DEF LinkInv
<1>1. /\ revoke[r].pc # "unsent" /\ revoke' = [revoke EXCEPT ![r].pc = "error"]
      /\ UNCHANGED <<account, token, synced, key, cache, callback>>
  BY DEF Link!RevokeFails, Link!AfterRevokeError, Link!Ended, Link!tables
<1>2. /\ RevocationsTyped'
      /\ Follows(revoke'[r], revoke[r], "error")
      /\ \A s \in Revocations \ {r} : revoke'[s] = revoke[s]
  BY <1>1, RevocationGoes DEF LinkTyped
<1>3. LinkTyped'
  BY <1>1, <1>2 DEF LinkTyped, CallsTyped, Tabled
<1>4. OneKey' /\ ConnectionsStand'
  BY <1>1 DEF OneKey, ConnectionsStand
<1>5. RevocationsStand'
  BY <1>1, <1>2 DEF RevocationsStand, Follows
<1>. QED BY <1>3, <1>4, <1>5

LEMMA CacheExpiresKeeps ==
  ASSUME LinkInv, NEW p \in Processes, Link!CacheExpires(p)
  PROVE  LinkInv'
<1>. USE DEF LinkInv
<1>1. /\ cache' = [cache EXCEPT ![p] = Link!NoKey]
      /\ UNCHANGED <<account, token, synced, key, callback, revoke>>
  BY DEF Link!CacheExpires, Link!tables
<1>2. LinkTyped'
  BY <1>1 DEF LinkTyped, CallsTyped, RevocationsTyped, Tabled
<1>3. \A x \in Processes : cache'[x] \in {Link!NoKey, key}
  BY <1>1 DEF OneKey, LinkTyped, Tabled
<1>4. OneKey'
  BY <1>1, <1>3 DEF OneKey
<1>5. ConnectionsStand' /\ RevocationsStand'
  BY <1>1 DEF ConnectionsStand, RevocationsStand
<1>. QED BY <1>2, <1>4, <1>5

LEMMA LinkInvStep ==
  ASSUME LinkInv, Link!Next
  PROVE  LinkInv'
<1>1. ASSUME NEW f \in Flows,
             Link!ConnectGoogle(f) \/ Link!ConnectMicrosoft(f) \/ Link!StateExpires(f)
      PROVE  LinkInv'
  <2>1. Remains
    BY <1>1 DEF Link!ConnectGoogle, Link!ConnectMicrosoft, Link!StateExpires, Link!tables, Remains
  <2>. QED BY <2>1, LinkInvRemains
<1>2. ASSUME NEW r \in Revocations, Link!Revoke(r)
      PROVE  LinkInv'
  BY <1>2, ValidateAccountKeeps, RevokeTokensKeeps, SetRevokedKeeps, RevokeFailsKeeps
     DEF Link!Revoke
<1>. QED BY <1>1, <1>2, CallbackKeeps, CacheExpiresKeeps DEF Link!Next

LEMMA LinkInvInit == Link!Init => LinkInv
<1>. SUFFICES ASSUME Link!Init PROVE LinkInv
  OBVIOUS
<1>1. /\ \A c \in Callbacks : callback[c] = Link!Unsent
      /\ \A r \in Revocations : revoke[r] = Link!Unsent
      /\ \A a \in Accounts : token[a] = Link!NoToken
      /\ \A p \in Processes : cache[p] = Link!NoKey
  BY DEF Link!Init
<1>2. LinkTyped
  BY DEF Link!Init, LinkTyped, CallsTyped, RevocationsTyped, Tabled, Link!Statuses
<1>3. OneKey /\ ConnectionsStand /\ RevocationsStand
  BY <1>1 DEF OneKey, ConnectionsStand, RevocationsStand, Link!Unsent
<1>. QED BY <1>2, <1>3 DEF LinkInv

LEMMA AccountsInvariant == ServiceSpec => []LinkInv
<1>1. ServiceInit => LinkInv
  BY LinkInvInit DEF ServiceInit
<1>2. LinkInv /\ [ServiceNext]_services => LinkInv'
  <2>1. LinkInv /\ UNCHANGED linked => LinkInv'
    BY LinkInvRemains DEF Remains, linked
  <2>2. LinkInv /\ ServiceNext => LinkInv'
    BY <2>1, LinkInvStep DEF ServiceNext, ApprovalStep, AccountStep, SyncStep
  <2>. QED BY <2>1, <2>2 DEF services
<1>. QED BY <1>1, <1>2, PTL DEF ServiceSpec

\* Every stored token can be decrypted with the key that its row names, for any number
\* of processes with caches of their own and of first connections of the tenant at once.
THEOREM StoredTokensDecrypt == ServiceSpec => []TokensDecrypt
<1>1. LinkInv => TokensDecrypt
  BY DEF LinkInv, OneKey, TokensDecrypt, Link!TokensDecrypt, Link!Decrypts
<1>. QED BY <1>1, AccountsInvariant, PTL

\* A browser that is told of success comes back to an account that works, unless a
\* revocation ran into the connection.
THEOREM SuccessWorks == ServiceSpec => []SuccessIsUsable
<1>1. LinkInv => SuccessIsUsable
  BY DEF LinkInv, ConnectionsStand, SuccessIsUsable, Link!SuccessIsUsable
<1>. QED BY <1>1, AccountsInvariant, PTL

\* A revocation that has succeeded stands, unless a connection ran into it or came later.
THEOREM RevocationsHold == ServiceSpec => []RevocationHolds
<1>1. LinkInv => RevocationHolds
  BY DEF LinkInv, RevocationsStand, RevocationHolds, Link!RevocationHolds
<1>. QED BY <1>1, AccountsInvariant, PTL
-----------------------------------------------------------------------------
(* Synchronisation: what a sync has in hand.                                *)

JobsTyped == job \in [Jobs -> Sync!JobRecords \union {Sync!NoJob}]

SyncTyped ==
  /\ provider \in {"GOOGLE", "MICROSOFT"} /\ kind \in {"email", "calendar"}
  /\ feed \in 0..MaxChanges
  /\ cursor \in Sync!Cursors /\ link \in Sync!Cursors
  /\ JobsTyped

\* The changes up to n have been counted or given up.
Counted(n) == 1..n \subseteq seen \union beyond

\* Where changes are given up: past the first page of a history of Gmail.
GivesUp == provider = "GOOGLE" /\ kind = "email"

\* A sync starts from what was counted, and carries a cursor only with the last page.
JobIsSound(x) ==
  x.pc \in {"listing", "storing", "reporting"} =>
    /\ Counted(x.from)
    /\ x.pc = "storing" /\ x.next # Sync!NoCursor /\ ~GivesUp => x.next <= x.upto

CursorInv ==
  /\ Counted(cursor) /\ Counted(link)
  /\ link # Sync!NoCursor => ~GivesUp
  /\ ~GivesUp => beyond = {}
  /\ \A j \in Jobs : JobIsSound(job[j])

SyncInv == SyncTyped /\ CursorInv

LEMMA CursorsAreIntegers ==
  /\ Sync!Cursors \subseteq Int /\ Sync!Positions = 0..MaxChanges
  /\ Sync!Positions \subseteq Sync!Cursors
  /\ \A n \in Sync!Cursors : n # Sync!NoCursor => n \in Sync!Positions
  /\ Sync!NoCursor = -1 /\ Sync!NoCursor \in Sync!Cursors
  BY SyncAssumption DEF Sync!Cursors, Sync!Positions, Sync!NoCursor

\* The fields of a job.
LEMMA JobFields ==
  ASSUME NEW x \in Sync!JobRecords
  PROVE  /\ x.pc \in Sync!JobPlaces /\ x.type \in Sync!Types /\ x.mode \in Sync!Types
         /\ x.tries \in 1..Attempts
         /\ x.from \in Sync!Positions /\ x.upto \in Sync!Positions /\ x.next \in Sync!Cursors
         /\ LET y == [x EXCEPT !.pc = "reporting"]
            IN  y \in Sync!JobRecords /\ y.pc = "reporting" /\ y.from = x.from
  BY DEF Sync!JobRecords, Sync!JobPlaces

LEMMA QueuedJob ==
  ASSUME JobsTyped, NEW j \in Jobs, job[j].pc # "free"
  PROVE  job[j] \in Sync!JobRecords
  BY DEF JobsTyped, Sync!NoJob

LEMMA WaitingJobIsJob ==
  ASSUME NEW type \in Sync!Types, NEW tries \in 1..Attempts
  PROVE  /\ Sync!WaitingJob(type, tries) \in Sync!JobRecords
         /\ Sync!WaitingJob(type, tries).pc = "waiting"
  BY CursorsAreIntegers, SyncAssumption
     DEF Sync!WaitingJob, Sync!JobRecords, Sync!JobPlaces, Sync!Types

\* The cursors stay, and what is counted stays counted.
LEMMA CursorsStay ==
  ASSUME SyncInv,
         UNCHANGED <<provider, kind, cursor, link, seen, beyond>>, feed' \in 0..MaxChanges,
         JobsTyped', \A j \in Jobs : job'[j] = job[j] \/ JobIsSound(job'[j])
  PROVE  SyncInv'
<1>1. \A j \in Jobs : JobIsSound(job'[j])
  BY DEF SyncInv, CursorInv
<1>2. \A j \in Jobs : JobIsSound(job[j])'
  BY <1>1 DEF JobIsSound, Counted, GivesUp
<1>. QED BY <1>2 DEF SyncInv, SyncTyped, CursorInv, Counted, GivesUp

LEMMA JobGoes ==
  ASSUME SyncInv, NEW j \in Jobs, NEW y \in Sync!JobRecords \union {Sync!NoJob},
         job' = [job EXCEPT ![j] = y], JobIsSound(y),
         UNCHANGED <<provider, kind, cursor, link, seen, beyond>>, feed' \in 0..MaxChanges
  PROVE  SyncInv'
<1>1. JobsTyped' /\ job'[j] = y /\ \A i \in Jobs \ {j} : job'[i] = job[i]
  BY DEF SyncInv, SyncTyped, JobsTyped
<1>. QED BY <1>1, CursorsStay

LEMMA StartKeeps ==
  ASSUME SyncInv, NEW j \in Jobs, Sync!Start(j)
  PROVE  SyncInv'
<1> DEFINE mode == Sync!Mode(job[j].type)
           from == Sync!From(mode)
           y == [job[j] EXCEPT !.pc = "listing", !.mode = mode, !.from = from]
<1>1. /\ job[j].pc = "waiting" /\ job' = [job EXCEPT ![j] = y]
      /\ UNCHANGED <<provider, kind, feed, cursor, link, seen, beyond>>
  BY DEF Sync!Start, Sync!world, Sync!database, Sync!record
<1>2. mode \in Sync!Types /\ (mode = "incremental" => cursor # Sync!NoCursor)
  BY DEF Sync!Mode, Sync!Types
<1>3. from \in {0, cursor, link} \ {Sync!NoCursor} /\ Counted(from)
  <2>1. Counted(0) /\ 0 # Sync!NoCursor
    BY CursorsAreIntegers DEF Counted
  <2>2. Counted(cursor) /\ Counted(link)
    BY DEF SyncInv, CursorInv
  <2>. QED BY <1>2, <2>1, <2>2 DEF Sync!From, Sync!Types, SyncInv, SyncTyped
<1>4. from \in Sync!Positions
  BY <1>3, CursorsAreIntegers, SyncAssumption DEF SyncInv, SyncTyped
<1>5. job[j] \in Sync!JobRecords
  BY <1>1, QueuedJob DEF SyncInv, SyncTyped
<1> HIDE DEF from, mode
<1>6. y \in Sync!JobRecords /\ y.pc = "listing" /\ y.from = from
  BY <1>2, <1>4, <1>5 DEF Sync!JobRecords, Sync!JobPlaces
<1>7. JobIsSound(y)
  BY <1>3, <1>6 DEF JobIsSound
<1> HIDE DEF y
<1>. QED BY <1>1, <1>6, <1>7, JobGoes DEF SyncInv, SyncTyped

\* An answer that names a cursor elsewhere than in Gmail's history has no further page.
LEMMA CursorComesLast ==
  ASSUME SyncInv, NEW mode \in Sync!Types, NEW from \in Sync!Positions
  PROVE  /\ Sync!NextCursor(mode, from) \in Sync!Cursors
         /\ Sync!Lower(from + Page, feed) \in Sync!Positions
         /\ ~GivesUp /\ Sync!NextCursor(mode, from) # Sync!NoCursor =>
              Sync!NextCursor(mode, from) <= Sync!Lower(from + Page, feed)
<1>1. /\ Sync!LastPage(from) \in {feed, Sync!NoCursor}
      /\ Sync!LastPage(from) # Sync!NoCursor => feed - from <= Page
  BY DEF Sync!LastPage
<1>2. /\ Sync!NextCursor(mode, from) \in {Sync!NoCursor, Sync!LastPage(from), feed}
      /\ ~GivesUp => Sync!NextCursor(mode, from) \in {Sync!NoCursor, Sync!LastPage(from)}
  BY DEF Sync!NextCursor, Sync!ListThreads, Sync!GmailHistory, Sync!GraphMailDelta,
         Sync!GoogleEvents, Sync!GoogleEventChanges, Sync!GraphEventDelta, GivesUp, Sync!Types,
         SyncInv, SyncTyped
<1>3. Page \in Nat /\ feed \in 0..MaxChanges /\ from \in 0..MaxChanges /\ MaxChanges \in Nat
  BY SyncAssumption, CursorsAreIntegers DEF SyncInv, SyncTyped
<1>4. Sync!NextCursor(mode, from) \in Sync!Cursors
  BY <1>1, <1>2, <1>3, CursorsAreIntegers
<1>5. Sync!Lower(from + Page, feed) \in Sync!Positions
  BY <1>3, CursorsAreIntegers DEF Sync!Lower
<1>6. ASSUME ~GivesUp, Sync!NextCursor(mode, from) # Sync!NoCursor
      PROVE  Sync!NextCursor(mode, from) <= Sync!Lower(from + Page, feed)
  <2>1. Sync!NextCursor(mode, from) = feed /\ feed - from <= Page
    BY <1>1, <1>2, <1>6
  <2>2. Sync!Lower(from + Page, feed) = feed
    BY <1>3, <2>1 DEF Sync!Lower
  <2>. QED BY <1>3, <2>1, <2>2
<1>. QED BY <1>4, <1>5, <1>6

LEMMA ListKeeps ==
  ASSUME SyncInv, NEW j \in Jobs, Sync!List(j)
  PROVE  SyncInv'
<1> DEFINE from == job[j].from
           upto == Sync!Lower(from + Page, feed)
           next == Sync!NextCursor(job[j].mode, from)
           y == [job[j] EXCEPT !.pc = "storing", !.upto = upto, !.next = next]
<1>1. /\ job[j].pc = "listing" /\ job' = [job EXCEPT ![j] = y]
      /\ UNCHANGED <<provider, kind, feed, cursor, link, seen, beyond>>
  BY DEF Sync!List, Sync!world, Sync!database
<1>2. job[j] \in Sync!JobRecords
  BY <1>1, QueuedJob DEF SyncInv, SyncTyped
<1>3. job[j].mode \in Sync!Types /\ from \in Sync!Positions
  BY <1>2, JobFields
<1>4. /\ next \in Sync!Cursors /\ upto \in Sync!Positions
      /\ ~GivesUp /\ next # Sync!NoCursor => next <= upto
  BY <1>3, CursorComesLast
<1>5. Counted(from)
  BY <1>1 DEF SyncInv, CursorInv, JobIsSound
<1> HIDE DEF upto, next
<1>6. /\ y \in Sync!JobRecords /\ y.pc = "storing"
      /\ y.from = from /\ y.upto = upto /\ y.next = next
  BY <1>2, <1>3, <1>4 DEF Sync!JobRecords, Sync!JobPlaces
<1> HIDE DEF y
<1>7. JobIsSound(y)
  BY <1>4, <1>5, <1>6 DEF JobIsSound
<1>. QED BY <1>1, <1>6, <1>7, JobGoes DEF SyncInv, SyncTyped

\* The cursor that is stored covers no more than what the sync has counted or given up.
LEMMA StoreKeeps ==
  ASSUME SyncInv, NEW j \in Jobs, Sync!Store(j)
  PROVE  SyncInv'
<1> DEFINE from == job[j].from
           upto == job[j].upto
           next == job[j].next
           y == [job[j] EXCEPT !.pc = "reporting"]
<1>1. /\ job[j].pc = "storing" /\ job' = [job EXCEPT ![j] = y]
      /\ UNCHANGED <<provider, kind, feed>>
      /\ seen' = seen \union (from + 1)..upto
      /\ beyond' = IF next = Sync!NoCursor THEN beyond ELSE beyond \union (upto + 1)..next
      /\ IF kind = "email" THEN Sync!StoreEmail(next) ELSE Sync!StoreCalendar(next)
  BY DEF Sync!Store, Sync!world
<1>2. job[j] \in Sync!JobRecords
  BY <1>1, QueuedJob DEF SyncInv, SyncTyped
<1>3. from \in Sync!Positions /\ upto \in Sync!Positions /\ next \in Sync!Cursors
  BY <1>2, JobFields
<1>4. y \in Sync!JobRecords /\ y.pc = "reporting" /\ y.from = from
  BY <1>2, JobFields
<1>5. Counted(from) /\ (next # Sync!NoCursor /\ ~GivesUp => next <= upto)
  BY <1>1 DEF SyncInv, CursorInv, JobIsSound
<1> HIDE DEF from, upto, next, y
<1>6. seen \subseteq seen' /\ beyond \subseteq beyond'
  BY <1>1
<1>7. \A n : Counted(n) => 1..n \subseteq seen' \union beyond'
  BY <1>6 DEF Counted
<1>8. next # Sync!NoCursor => 1..next \subseteq seen' \union beyond'
  <2>1. from \in Int /\ upto \in Int /\ next \in Int
    BY <1>3, CursorsAreIntegers, SyncAssumption
  <2>2. ASSUME next # Sync!NoCursor, NEW n \in 1..next PROVE n \in seen' \union beyond'
    <3>1. n \in 1..from \/ n \in (from + 1)..upto \/ n \in (upto + 1)..next
      BY <2>1, <2>2
    <3>. QED BY <1>1, <1>5, <2>2, <3>1 DEF Counted
  <2>. QED BY <2>2
<1>9. ~GivesUp => beyond' = {}
  <2>1. next # Sync!NoCursor /\ ~GivesUp => (upto + 1)..next = {}
    BY <1>3, <1>5, CursorsAreIntegers, SyncAssumption
  <2>. QED BY <1>1, <2>1 DEF SyncInv, CursorInv
<1>10. /\ cursor' \in {cursor, next} /\ link' \in {link, next}
       /\ cursor' = cursor \/ next # Sync!NoCursor
       /\ link' = link \/ (next # Sync!NoCursor /\ ~GivesUp)
  BY <1>1 DEF Sync!StoreEmail, Sync!StoreCalendar, GivesUp
<1>11. Counted(cursor)' /\ Counted(link)'
  <2>1. Counted(cursor) /\ Counted(link)
    BY DEF SyncInv, CursorInv
  <2>2. 1..(cursor') \subseteq seen' \union beyond'
    BY <1>7, <1>8, <1>10, <2>1
  <2>3. 1..(link') \subseteq seen' \union beyond'
    BY <1>7, <1>8, <1>10, <2>1
  <2>. QED BY <2>2, <2>3 DEF Counted
<1>12. JobsTyped' /\ job'[j] = y /\ \A i \in Jobs \ {j} : job'[i] = job[i]
  BY <1>1, <1>4 DEF SyncInv, SyncTyped, JobsTyped
<1>13. ASSUME NEW i \in Jobs PROVE JobIsSound(job[i])'
  <2>1. CASE i = j
    BY <1>4, <1>5, <1>7, <1>12, <2>1 DEF JobIsSound, Counted
  <2>2. CASE i # j
    BY <1>1, <1>7, <1>12, <2>2 DEF JobIsSound, SyncInv, CursorInv, GivesUp, Counted
  <2>. QED BY <2>1, <2>2
<1>14. SyncTyped'
  BY <1>1, <1>3, <1>10, <1>12 DEF SyncInv, SyncTyped
<1>15. CursorInv'
  <2>1. (link # Sync!NoCursor => ~GivesUp)'
    BY <1>1, <1>10 DEF SyncInv, CursorInv, GivesUp
  <2>2. (~GivesUp => beyond = {})'
    BY <1>1, <1>9 DEF GivesUp
  <2>. QED BY <1>11, <1>13, <2>1, <2>2 DEF CursorInv
<1>. QED BY <1>14, <1>15 DEF SyncInv

\* A job that fails is queued again or given up.
LEMMA RetryKeeps ==
  ASSUME SyncInv, NEW j \in Jobs, job[j].pc # "free", Sync!Retry(j),
         UNCHANGED <<provider, kind, feed, cursor, link, seen, beyond>>
  PROVE  SyncInv'
<1> DEFINE x == job[j]
<1>1. x \in Sync!JobRecords
  BY QueuedJob DEF SyncInv, SyncTyped
<1>2. x.type \in Sync!Types /\ x.tries \in 1..Attempts
  BY <1>1, JobFields
<1>3. CASE x.tries = 1
  BY <1>3, JobGoes DEF Sync!Retry, Sync!NoJob, JobIsSound, SyncInv, SyncTyped
<1>4. CASE x.tries # 1
  <2>1. x.tries - 1 \in 1..Attempts
    BY <1>2, <1>4, SyncAssumption
  <2> DEFINE y == Sync!WaitingJob(x.type, x.tries - 1)
  <2>2. y \in Sync!JobRecords /\ y.pc = "waiting"
    BY <1>2, <2>1, WaitingJobIsJob
  <2>3. job' = [job EXCEPT ![j] = y]
    BY <1>4 DEF Sync!Retry
  <2> HIDE DEF y
  <2>4. JobIsSound(y)
    BY <2>2 DEF JobIsSound
  <2>. QED BY <2>2, <2>3, <2>4, JobGoes DEF SyncInv, SyncTyped
<1>. QED BY <1>3, <1>4

LEMMA ReportKeeps ==
  ASSUME SyncInv, NEW j \in Jobs, Sync!Report(j)
  PROVE  SyncInv'
  BY JobGoes DEF Sync!Report, Sync!world, Sync!database, Sync!record, Sync!NoJob, JobIsSound,
                 SyncInv, SyncTyped

LEMMA QueuedKeeps ==
  ASSUME SyncInv, NEW type \in Sync!Types, Sync!Queued(type),
         UNCHANGED <<provider, kind, feed, cursor, link, seen, beyond>>
  PROVE  SyncInv'
<1> DEFINE y == Sync!WaitingJob(type, Attempts)
<1>1. Sync!FreeJob \in Jobs /\ job' = [job EXCEPT ![Sync!FreeJob] = y]
  BY DEF Sync!Queued, Sync!FreeJob
<1>2. Attempts \in 1..Attempts
  BY SyncAssumption
<1>3. y \in Sync!JobRecords /\ y.pc = "waiting"
  BY <1>2, WaitingJobIsJob
<1> HIDE DEF y
<1>4. JobIsSound(y)
  BY <1>3 DEF JobIsSound
<1>. QED BY <1>1, <1>3, <1>4, JobGoes DEF SyncInv, SyncTyped

LEMMA SyncCrashKeeps ==
  ASSUME SyncInv, Sync!Crash
  PROVE  SyncInv'
<1>1. /\ UNCHANGED <<provider, kind, feed, cursor, link, seen, beyond>>
      /\ job' = [j \in Jobs |-> IF Sync!Busy(j) THEN Sync!WaitingJob(job[j].type, job[j].tries)
                                ELSE job[j]]
  BY DEF Sync!Crash, Sync!world, Sync!database, Sync!record
<1>2. ASSUME NEW j \in Jobs
      PROVE  /\ job'[j] \in Sync!JobRecords \union {Sync!NoJob}
             /\ job'[j] = job[j] \/ JobIsSound(job'[j])
  <2>1. CASE Sync!Busy(j)
    <3>1. job[j].type \in Sync!Types /\ job[j].tries \in 1..Attempts
      BY <2>1, QueuedJob, JobFields DEF Sync!Busy, SyncInv, SyncTyped
    <3> DEFINE y == Sync!WaitingJob(job[j].type, job[j].tries)
    <3>2. y \in Sync!JobRecords /\ y.pc = "waiting"
      BY <3>1, WaitingJobIsJob
    <3>3. job'[j] = y
      BY <1>1, <2>1
    <3> HIDE DEF y
    <3>. QED BY <3>2, <3>3 DEF JobIsSound
  <2>2. CASE ~Sync!Busy(j)
    BY <1>1, <2>2 DEF SyncInv, SyncTyped, JobsTyped
  <2>. QED BY <2>1, <2>2
<1>3. JobsTyped'
  BY <1>1, <1>2 DEF JobsTyped
<1>. QED BY <1>1, <1>2, <1>3, CursorsStay DEF SyncInv, SyncTyped

LEMMA SyncInvStep ==
  ASSUME SyncInv, Sync!Next
  PROVE  SyncInv'
<1>. USE DEF Sync!world, Sync!database, Sync!record, Sync!bounds
<1>0. ASSUME UNCHANGED <<provider, kind, cursor, link, job, seen, beyond>>, feed' \in 0..MaxChanges
      PROVE  SyncInv'
  <2>1. JobsTyped'
    BY <1>0 DEF SyncInv, SyncTyped, JobsTyped
  <2>. QED BY <1>0, <2>1, CursorsStay
<1>00. feed \in 0..MaxChanges /\ MaxChanges \in Nat
  BY SyncAssumption DEF SyncInv, SyncTyped
<1>1. CASE Sync!Change
  <2>1. feed' \in 0..MaxChanges
    BY <1>1, <1>00 DEF Sync!Change
  <2>. QED BY <1>0, <1>1, <2>1 DEF Sync!Change
<1>2. CASE Sync!Forget
  BY <1>0, <1>00, <1>2 DEF Sync!Forget
<1>3. ASSUME NEW type \in Sync!Types, Sync!Request(type) PROVE SyncInv'
  BY <1>3, QueuedKeeps DEF Sync!Request
<1>4. ASSUME NEW h \in Hooks, Sync!Accept(h) PROVE SyncInv'
  BY <1>0, <1>00, <1>4 DEF Sync!Accept
<1>5. ASSUME NEW h \in Hooks, Sync!ProcessGoogleWebhook(h) \/ Sync!ProcessMicrosoftWebhook(h)
      PROVE  SyncInv'
  BY <1>5, QueuedKeeps DEF Sync!ProcessGoogleWebhook, Sync!ProcessMicrosoftWebhook, Sync!Types
<1>6. ASSUME NEW h \in Hooks, Sync!MarkProcessed(h) \/ Sync!WebhookFails(h) PROVE SyncInv'
  BY <1>0, <1>00, <1>6 DEF Sync!MarkProcessed, Sync!WebhookFails
<1>7. ASSUME NEW j \in Jobs, Sync!ListRefused(j) \/ Sync!SyncFails(j) PROVE SyncInv'
  BY <1>7, RetryKeeps DEF Sync!ListRefused, Sync!SyncFails
<1>8. ASSUME NEW j \in Jobs, Sync!ProcessSync(j) PROVE SyncInv'
  BY <1>7, <1>8, StartKeeps, ListKeeps, StoreKeeps, ReportKeeps DEF Sync!ProcessSync
<1>9. CASE Sync!Signal \/ Sync!CloseWorker
  BY <1>0, <1>00, <1>9 DEF Sync!Signal, Sync!CloseWorker
<1>. QED BY <1>1, <1>2, <1>3, <1>4, <1>5, <1>6, <1>7, <1>8, <1>9, SyncCrashKeeps
         DEF Sync!Next, Sync!ProcessWebhook

LEMMA SyncInvInit == Sync!Init => SyncInv
<1>. SUFFICES ASSUME Sync!Init PROVE SyncInv
  OBVIOUS
<1>1. /\ feed = 0 /\ cursor \in {Sync!NoCursor, 0} /\ link = Sync!NoCursor /\ beyond = {}
      /\ \A j \in Jobs : job[j] = Sync!NoJob
  BY DEF Sync!Init
<1>2. SyncTyped
  BY <1>1, SyncAssumption, CursorsAreIntegers DEF Sync!Init, SyncTyped, JobsTyped
<1>3. Counted(cursor) /\ Counted(link)
  BY <1>1, CursorsAreIntegers DEF Counted
<1>4. \A j \in Jobs : JobIsSound(job[j])
  BY <1>1 DEF JobIsSound, Sync!NoJob
<1>. QED BY <1>1, <1>2, <1>3, <1>4 DEF SyncInv, CursorInv

\* No cursor of an account passes a change that no sync has counted, for pages of any
\* size, any number of overlapping, failing and repeated syncs, crashes and shutdowns;
\* only what follows the first page of a history of Gmail is passed over.
THEOREM CursorsSkipNothing == ServiceSpec => []NothingIsSkipped
<1>1. ServiceInit => SyncInv
  BY SyncInvInit DEF ServiceInit
<1>2. SyncInv /\ [ServiceNext]_services => SyncInv'
  <2>1. SyncInv /\ UNCHANGED syncing => SyncInv'
    <3>. SUFFICES ASSUME SyncInv, UNCHANGED syncing PROVE SyncInv'
      OBVIOUS
    <3>1. UNCHANGED <<provider, kind, feed, cursor, link, job, seen, beyond>>
      BY DEF syncing
    <3>2. JobsTyped'
      BY <3>1 DEF SyncInv, SyncTyped, JobsTyped
    <3>. QED BY <3>1, <3>2, CursorsStay DEF SyncInv, SyncTyped
  <2>2. SyncInv /\ ServiceNext => SyncInv'
    BY <2>1, SyncInvStep DEF ServiceNext, ApprovalStep, AccountStep, SyncStep
  <2>. QED BY <2>1, <2>2 DEF services
<1>3. SyncInv => NothingIsSkipped
  <2>. SUFFICES ASSUME SyncInv PROVE NothingIsSkipped
    OBVIOUS
  <2>1. 1..link \subseteq seen
    <3>1. CASE link = Sync!NoCursor
      BY <3>1, CursorsAreIntegers
    <3>2. CASE link # Sync!NoCursor
      BY <3>2 DEF SyncInv, CursorInv, Counted
    <3>. QED BY <3>1, <3>2
  <2>. QED BY <2>1 DEF SyncInv, SyncTyped, CursorInv, Counted, GivesUp, NothingIsSkipped,
                       Sync!NothingIsSkipped
<1>. QED BY <1>1, <1>2, <1>3, PTL DEF ServiceSpec
=============================================================================
