------------------------- MODULE TokenRefreshProofs -------------------------
(***************************************************************************)
(* Theorems about the refresh of OAuth tokens (TokenRefresh.tla) for every *)
(* number of calls and faults. A call may outlive its lock at any point.   *)
(***************************************************************************)
EXTENDS TokenRefresh, TLAPS

USE DEF Generations, Places, Call, Ended

\* The token records that the actions write.
LEMMA TokensTyped ==
  /\ NoToken \in Tokens
  /\ \A g \in Generations : [gen |-> g, state |-> "fresh"] \in Tokens
  /\ \A t \in Tokens : t.state = "fresh" => [t EXCEPT !.state = "due"] \in Tokens
  /\ \A t \in Tokens : t.gen \in Generations
<1>1. NoToken.state = "none" /\ NoToken.gen \in Generations
  BY BoundsAssumption DEF NoToken, BoundsAssumption
<1> QED
  BY <1>1 DEF Tokens

\* A renewal issues at most one generation, which the call then holds.
LEMMA RenewTyped ==
  ASSUME NEW c \in Callers, Renew(c), issued \in Generations,
         accepted \subseteq 1..issued, held \in [Callers -> Generations],
         BoundsAssumption
  PROVE  /\ issued' \in Generations
         /\ accepted' \subseteq 1..issued'
         /\ held' \in [Callers -> Generations]
<1>1. \/ UNCHANGED <<issued, accepted, held>>
      \/ /\ issued < MaxIssued
         /\ issued' = issued + 1
         /\ accepted' = (accepted \ {held[c]}) \union {issued'}
         /\ held' = [held EXCEPT ![c] = issued']
  BY Zenon DEF Renew
<1>2. CASE UNCHANGED <<issued, accepted, held>>
  BY <1>2
<1>3. CASE /\ issued < MaxIssued
           /\ issued' = issued + 1
           /\ accepted' = (accepted \ {held[c]}) \union {issued'}
           /\ held' = [held EXCEPT ![c] = issued']
  <2>1. issued' \in Generations /\ issued' \in 1..issued' /\ 1..issued \subseteq 1..issued'
    BY <1>3 DEF BoundsAssumption
  <2> QED
    BY <1>3, <2>1
<1> QED
  BY <1>1, <1>2, <1>3

LEMMA TypeInductive ==
  ASSUME CallersAssumption, BoundsAssumption
  PROVE  (Init => TypeOK) /\ (TypeOK /\ [Next]_vars => TypeOK')
<1> USE DEF CallersAssumption, BoundsAssumption
<1>1. Init => TypeOK
  BY TokensTyped DEF Init, TypeOK
<1>2. ASSUME TypeOK, [Next]_vars
      PROVE  TypeOK'
  <2>a. /\ token \in Tokens
        /\ issued \in Generations /\ accepted \subseteq 1..issued
        /\ lock \in Callers \union {Free, Lost}
        /\ pc \in [Callers -> Places] /\ held \in [Callers -> Generations]
        /\ overrun \subseteq Callers
        /\ agings \in 0..MaxAgings /\ faults \in 0..MaxFaults
    BY <1>2 DEF TypeOK
  <2>f. Fault => faults' \in 0..MaxFaults
    BY <2>a DEF Fault
  <2>1. CASE \E c \in Callers : NeedToken(c) \/ CallStep(c) \/ Die(c)
    <3>1. PICK c \in Callers : NeedToken(c) \/ CallStep(c) \/ Die(c)
      BY <2>1
    <3>2. CASE NeedToken(c)
      BY <2>a, <3>2 DEF NeedToken, Move, TypeOK
    <3>3. CASE Acquire(c) \/ Contend(c) \/ NothingToDo(c) \/ InspectOwn(c)
               \/ InspectOther(c) \/ Delete(c)
      BY <2>a, <3>3 DEF Acquire, Contend, NothingToDo, InspectOwn, InspectOther, Delete,
         Move, TypeOK
    <3>4. CASE Wait(c)
      BY <2>a, <3>4 DEF Wait, Move, TypeOK
    <3>5. CASE Recheck(c)
      BY <2>a, <3>5, TokensTyped DEF Recheck, Move, TypeOK
    <3>6. CASE Refresh(c)
      <4>1. /\ issued' \in Generations /\ accepted' \subseteq 1..issued'
            /\ held' \in [Callers -> Generations]
        BY <2>a, <3>6, RenewTyped DEF Refresh
      <4> QED
        BY <2>a, <3>6, <4>1 DEF Refresh, Move, TypeOK
    <3>7. CASE AnswerLost(c)
      <4>1. /\ issued' \in Generations /\ accepted' \subseteq 1..issued'
            /\ held' \in [Callers -> Generations]
        BY <2>a, <3>7, RenewTyped DEF AnswerLost
      <4> QED
        BY <2>a, <2>f, <3>7, <4>1 DEF AnswerLost, Move, TypeOK
    <3>8. CASE Refused(c) \/ Unreachable(c) \/ Die(c)
      BY <2>a, <2>f, <3>8 DEF Refused, Unreachable, Die, Move, TypeOK
    <3>9. CASE Store(c)
      BY <2>a, <3>9, TokensTyped DEF Store, Move, TypeOK
    <3> QED
      BY <3>1, <3>2, <3>3, <3>4, <3>5, <3>6, <3>7, <3>8, <3>9 DEF CallStep
  <2>2. CASE LockExpires
    BY <2>a, <2>2 DEF LockExpires, TypeOK
  <2>3. CASE TokenAges
    BY <2>a, <2>3, TokensTyped DEF TokenAges, TypeOK
  <2>4. CASE Revoke
    BY <2>a, <2>4, TokensTyped DEF Revoke, TypeOK
  <2>5. CASE Connect
    BY <2>a, <2>5, TokensTyped DEF Connect, TypeOK
  <2>6. CASE UNCHANGED vars
    BY <2>a, <2>6 DEF vars, TypeOK
  <2> QED
    BY <1>2, <2>1, <2>2, <2>3, <2>4, <2>5, <2>6 DEF Next
<1> QED
  BY <1>1, <1>2

\* Every reachable state of the tokens, the lock and the calls is well typed
\* (token.service.ts:155-222).
THEOREM TypeCorrect == Spec => []TypeOK
BY TypeInductive, CallersAssumption, BoundsAssumption, PTL DEF Spec

-----------------------------------------------------------------------------
(* The lock                                                                *)

Locked == {"holding", "refreshing", "storing", "releasing", "deleting"}

\* Every call between SET and DEL finds its own value in the key, unless it lost it; a call
\* that holds no lock has none to lose.
LockIsOurs ==
  \A c \in Callers :
    /\ pc[c] \in Locked => lock = c \/ c \in overrun
    /\ c \in overrun => pc[c] \in Locked /\ lock # c
    /\ lock = c => pc[c] \in Locked

LockInv == TypeOK /\ LockIsOurs

LEMMA LockInductive ==
  ASSUME CallersAssumption, BoundsAssumption
  PROVE  (Init => LockInv) /\ (LockInv /\ [Next]_vars => LockInv')
<1> USE DEF Locked
<1>1. Init => LockInv
  BY TypeInductive DEF Init, LockInv, LockIsOurs, CallersAssumption
<1>2. ASSUME LockInv, [Next]_vars
      PROVE  LockInv'
  <2>a. TypeOK'
    BY <1>2, TypeInductive DEF LockInv
  <2>b. /\ pc \in [Callers -> Places]
        /\ LockIsOurs
        /\ overrun \subseteq Callers
        /\ Free \notin Callers /\ Lost \notin Callers
    BY <1>2 DEF LockInv, TypeOK, CallersAssumption
  <2>1. CASE \E c \in Callers : NeedToken(c) \/ CallStep(c) \/ Die(c)
    <3>1. PICK c \in Callers : NeedToken(c) \/ CallStep(c) \/ Die(c)
      BY <2>1
    <3>2. \A d \in Callers \ {c} : pc'[d] = pc[d]
      BY <2>b, <3>1 DEF NeedToken, CallStep, Die, Acquire, Contend, Wait, NothingToDo,
         Recheck, Refresh, Refused, Unreachable, AnswerLost, Store, InspectOwn,
         InspectOther, Delete, Move
    <3>3. CASE Acquire(c)
      <4>1. pc[c] = "locking" /\ pc'[c] = "holding" /\ lock = Free /\ lock' = c
            /\ UNCHANGED overrun
        BY <2>b, <3>3 DEF Acquire, Move
      <4> QED
        BY <2>a, <2>b, <3>2, <4>1 DEF LockInv, LockIsOurs
    <3>4. CASE Delete(c)
      <4>1. /\ pc[c] = "deleting" /\ pc'[c] = "idle" /\ lock' = Free
            /\ overrun' = (overrun \union ({lock} \intersect Callers)) \ {c}
        BY <2>b, <3>4 DEF Delete, Move
      <4>2. \A d \in Callers \ {c} : d \in overrun' <=> d \in overrun \/ d = lock
        BY <4>1
      <4> QED
        BY <2>a, <2>b, <3>2, <4>1, <4>2 DEF LockInv, LockIsOurs
    <3>5. CASE Die(c)
      <4>1. /\ pc'[c] = "idle" /\ overrun' = overrun \ {c}
            /\ lock' = IF lock = c THEN Lost ELSE lock
        BY <2>b, <3>5 DEF Die, Move
      <4> QED
        BY <2>a, <2>b, <3>2, <4>1 DEF LockInv, LockIsOurs
    <3>6. CASE InspectOther(c)
      <4>1. /\ pc'[c] = "idle" /\ overrun' = overrun \ {c} /\ lock # c /\ UNCHANGED lock
        BY <2>b, <3>6 DEF InspectOther, Move
      <4> QED
        BY <2>a, <2>b, <3>2, <4>1 DEF LockInv, LockIsOurs
    <3>7. CASE \/ NeedToken(c) \/ Contend(c) \/ Wait(c) \/ NothingToDo(c) \/ Recheck(c)
               \/ Refresh(c) \/ Refused(c) \/ Unreachable(c) \/ AnswerLost(c) \/ Store(c)
               \/ InspectOwn(c)
      <4>1. UNCHANGED <<lock, overrun>>
        BY <3>7 DEF NeedToken, Contend, Wait, NothingToDo, Recheck, Refresh, Refused,
           Unreachable, AnswerLost, Store, InspectOwn
      <4>2. pc'[c] \in Locked <=> pc[c] \in Locked
        BY <2>b, <3>7 DEF NeedToken, Contend, Wait, NothingToDo, Recheck, Refresh, Refused,
           Unreachable, AnswerLost, Store, InspectOwn, Move
      <4> QED
        BY <2>a, <2>b, <3>2, <4>1, <4>2 DEF LockInv, LockIsOurs
    <3> QED
      BY <3>1, <3>3, <3>4, <3>5, <3>6, <3>7 DEF CallStep
  <2>2. CASE LockExpires
    <3>1. /\ UNCHANGED pc /\ lock' = Free
          /\ \A d \in Callers : d \in overrun' <=> d \in overrun \/ d = lock
      BY <2>2 DEF LockExpires
    <3> QED
      BY <2>a, <2>b, <3>1 DEF LockInv, LockIsOurs
  <2>3. CASE TokenAges \/ Revoke \/ Connect
    BY <2>a, <2>b, <2>3 DEF TokenAges, Revoke, Connect, LockInv, LockIsOurs
  <2>4. CASE UNCHANGED vars
    BY <2>a, <2>b, <2>4 DEF vars, LockInv, LockIsOurs
  <2> QED
    BY <1>2, <2>1, <2>2, <2>3, <2>4 DEF Next
<1> QED
  BY <1>1, <1>2

\* Two calls refresh an account's tokens at the same time only if one of them has lost
\* its lock: it lasted longer than the 30 seconds, or the release of such a call removed
\* its lock (token.service.ts:164-216). Calls may die with the lock.
THEOREM RefreshIsExclusive == Spec => []RefreshesExclude
<1>1. Init => LockInv
  BY LockInductive, CallersAssumption, BoundsAssumption
<1>2. LockInv /\ [Next]_vars => LockInv'
  BY LockInductive, CallersAssumption, BoundsAssumption
<1>3. LockInv => RefreshesExclude
  BY DEF LockInv, LockIsOurs, Locked, RefreshesExclude
<1> QED
  BY <1>1, <1>2, <1>3, PTL DEF Spec

\* The release is a GET and a DEL (token.service.ts:210-216): only a call that has
\* lost its lock in between, or before, removes the lock of another.
THEOREM ReleaseIsOwn == Spec => ReleasesOwnLock
<1>1. Init => LockInv
  BY LockInductive, CallersAssumption, BoundsAssumption
<1>2. LockInv /\ [Next]_vars => LockInv'
  BY LockInductive, CallersAssumption, BoundsAssumption
<1>3. LockInv /\ [Next]_vars =>
        [\A c \in Callers : Delete(c) => lock \in {c, Free} \/ c \in overrun]_vars
  BY DEF LockInv, LockIsOurs, Locked, Delete, Move
<1> QED
  BY <1>1, <1>2, <1>3, PTL DEF Spec, ReleasesOwnLock

-----------------------------------------------------------------------------
(* The grant                                                               *)

\* A generation that is about to be stored is one the provider accepts, and if the
\* provider rotates, nobody else can use it up: it is not in the record, and no other call
\* works with it. This is what makes overlapping refreshes harmless.
StoringIsAccepted ==
  \A c \in Callers : pc[c] = "storing" => held[c] \in accepted

StoringIsUnknown ==
  Rotating =>
    \A c \in Callers : pc[c] = "storing" =>
      /\ token.gen # held[c]
      /\ \A d \in Callers \ {c} :
           pc[d] \in {"refreshing", "storing"} => held[d] # held[c]

\* What the provider issues next is known to nobody.
IssuedIsLast == token.gen <= issued /\ \A c \in Callers : held[c] <= issued

GrantInv ==
  /\ TypeOK
  /\ IssuedIsLast
  /\ faults = 0 => StoringIsAccepted /\ StoringIsUnknown
  /\ GrantIsKept

LEMMA IssuedStaysLast ==
  ASSUME TypeOK, TypeOK', IssuedIsLast, [Next]_vars, BoundsAssumption
  PROVE  IssuedIsLast'
<1>a. /\ token.gen \in Nat /\ issued \in Nat /\ held \in [Callers -> 0..MaxIssued]
      /\ NoToken.gen = 0 /\ token \in Tokens
  BY TokensTyped DEF TypeOK, NoToken, BoundsAssumption
<1>1. CASE \E c \in Callers : Refresh(c) \/ AnswerLost(c)
  <2>1. PICK c \in Callers : Refresh(c) \/ AnswerLost(c)
    BY <1>1
  <2>2. Renew(c) /\ UNCHANGED token
    BY <2>1 DEF Refresh, AnswerLost
  <2>3. CASE Rotating
    <3>1. issued' = issued + 1 /\ held' = [held EXCEPT ![c] = issued']
      BY <2>2, <2>3 DEF Renew
    <3> QED
      BY <1>a, <2>2, <3>1 DEF IssuedIsLast
  <2>4. CASE ~Rotating
    BY <2>2, <2>4 DEF Renew, IssuedIsLast
  <2> QED
    BY <2>3, <2>4
<1>2. CASE \E c \in Callers : Recheck(c) \/ Store(c)
  BY <1>a, <1>2 DEF Recheck, Store, IssuedIsLast
<1>3. CASE Connect
  BY <1>a, <1>3 DEF Connect, IssuedIsLast
<1>4. CASE Revoke
  BY <1>a, <1>4 DEF Revoke, IssuedIsLast
<1>5. CASE TokenAges
  <2>1. token'.gen = token.gen /\ UNCHANGED <<issued, held>>
    BY <1>a, <1>5 DEF TokenAges, Tokens, NoToken
  <2> QED
    BY <2>1 DEF IssuedIsLast
<1>6. CASE \/ LockExpires \/ UNCHANGED vars
           \/ \E c \in Callers :
                \/ NeedToken(c) \/ Acquire(c) \/ Contend(c) \/ Wait(c) \/ NothingToDo(c)
                \/ Refused(c) \/ Unreachable(c) \/ InspectOwn(c) \/ InspectOther(c)
                \/ Delete(c) \/ Die(c)
  <2>1. UNCHANGED <<token, issued, held>>
    BY <1>6 DEF LockExpires, vars, NeedToken, Acquire, Contend, Wait, NothingToDo, Refused,
       Unreachable, InspectOwn, InspectOther, Delete, Die
  <2> QED
    BY <2>1 DEF IssuedIsLast
<1> QED
  BY <1>1, <1>2, <1>3, <1>4, <1>5, <1>6 DEF Next, CallStep

\* A renewal without faults: the call that renewed holds a generation that is new to all.
LEMMA RefreshKeepsGrant ==
  ASSUME GrantInv, TypeOK', IssuedIsLast', faults = 0, NEW c \in Callers, Refresh(c),
         BoundsAssumption
  PROVE  GrantInv'
<1>a. /\ pc \in [Callers -> Places] /\ held \in [Callers -> 0..MaxIssued]
      /\ issued \in Nat /\ accepted \subseteq 1..issued /\ token.gen \in Nat
      /\ StoringIsAccepted /\ StoringIsUnknown /\ IssuedIsLast
  BY TokensTyped DEF GrantInv, TypeOK, BoundsAssumption
<1>b. /\ pc[c] = "refreshing" /\ pc'[c] = "storing" /\ held[c] \in accepted
      /\ \A d \in Callers \ {c} : pc'[d] = pc[d]
      /\ UNCHANGED token /\ Renew(c)
  BY <1>a DEF Refresh, Move, Renew
<1>1. CASE Rotating
  <2>1. /\ issued' = issued + 1
        /\ accepted' = (accepted \ {held[c]}) \union {issued'}
        /\ held' = [held EXCEPT ![c] = issued']
    BY <1>b, <1>1 DEF Renew
  <2>2. \A d \in Callers \ {c} : held'[d] = held[d] /\ held[d] # issued'
    BY <1>a, <2>1 DEF IssuedIsLast
  <2>3. held'[c] = issued' /\ token.gen # issued'
    BY <1>a, <2>1 DEF IssuedIsLast
  <2>4. \A d \in Callers \ {c} : pc[d] = "storing" =>
          held[d] \in accepted /\ held[d] # held[c]
    BY <1>a, <1>b, <1>1 DEF StoringIsAccepted, StoringIsUnknown
  <2>5. StoringIsAccepted'
    BY <1>b, <2>1, <2>2, <2>3, <2>4 DEF StoringIsAccepted
  <2>6. StoringIsUnknown'
    BY <1>a, <1>b, <1>1, <2>2, <2>3 DEF StoringIsUnknown
  <2>7. GrantIsKept'
    BY <1>b, <2>1, <2>3 DEF GrantIsKept
  <2> QED
    BY <2>5, <2>6, <2>7 DEF GrantInv
<1>2. CASE ~Rotating
  <2>1. UNCHANGED <<issued, accepted, held>>
    BY <1>b, <1>2 DEF Renew
  <2> QED
    BY <1>a, <1>b, <1>2, <2>1
       DEF GrantInv, StoringIsAccepted, StoringIsUnknown, GrantIsKept
<1> QED
  BY <1>1, <1>2

\* Steps that renew and store nothing.
LEMMA OthersKeepGrant ==
  ASSUME GrantInv, TypeOK', IssuedIsLast', faults = 0, BoundsAssumption,
         accepted \subseteq accepted',
         \/ token' = NoToken
         \/ token'.gen \in accepted' /\ token'.gen > issued
         \/ token # NoToken /\ token'.gen = token.gen,
         \A d \in Callers : pc'[d] = "storing" <=> pc[d] = "storing",
         \A d \in Callers : pc'[d] \in {"refreshing", "storing"} =>
           \/ pc[d] \in {"refreshing", "storing"} /\ held'[d] = held[d]
           \/ held'[d] = token.gen /\ pc'[d] = "refreshing"
  PROVE  GrantInv'
<1>a. /\ held \in [Callers -> 0..MaxIssued] /\ issued \in Nat
      /\ accepted \subseteq 1..issued /\ token.gen \in Nat /\ token'.gen \in Nat
      /\ StoringIsAccepted /\ StoringIsUnknown /\ IssuedIsLast /\ NoToken.gen = 0
  BY TokensTyped DEF GrantInv, TypeOK, BoundsAssumption, NoToken
<1>1. \A d \in Callers : pc'[d] = "storing" =>
        /\ held'[d] = held[d] /\ held[d] \in accepted /\ held[d] # 0 /\ held[d] <= issued
  BY <1>a DEF StoringIsAccepted, IssuedIsLast
<1>2. StoringIsAccepted'
  BY <1>1 DEF StoringIsAccepted
<1>3. StoringIsUnknown'
  <2>1. \A d \in Callers : Rotating /\ pc'[d] = "storing" => token'.gen # held'[d]
    BY <1>a, <1>1 DEF StoringIsUnknown
  <2>2. \A d, e \in Callers :
          Rotating /\ pc'[d] = "storing" /\ pc'[e] \in {"refreshing", "storing"} /\ d # e
            => held'[e] # held'[d]
    BY <1>a, <1>1 DEF StoringIsUnknown
  <2> QED
    BY <2>1, <2>2 DEF StoringIsUnknown
<1>4. GrantIsKept'
  BY <1>1 DEF GrantInv, GrantIsKept
<1> QED
  BY <1>2, <1>3, <1>4 DEF GrantInv

LEMMA GrantInductive ==
  ASSUME CallersAssumption, BoundsAssumption
  PROVE  (Init => GrantInv) /\ (GrantInv /\ [Next]_vars => GrantInv')
<1>1. ASSUME Init
      PROVE  GrantInv
  <2>1. TypeOK
    BY <1>1, TypeInductive
  <2>2. token.gen = 1 /\ issued = 1 /\ accepted = {1} /\ held = [c \in Callers |-> 0]
        /\ \A c \in Callers : pc[c] # "storing"
    BY <1>1 DEF Init
  <2> QED
    BY <2>1, <2>2 DEF GrantInv, StoringIsAccepted, StoringIsUnknown, IssuedIsLast, GrantIsKept
<1>2. ASSUME GrantInv, [Next]_vars
      PROVE  GrantInv'
  <2>a. TypeOK' /\ IssuedIsLast'
    BY <1>2, TypeInductive, IssuedStaysLast DEF GrantInv
  <2>0. CASE faults' # 0
    BY <2>a, <2>0 DEF GrantInv, GrantIsKept
  <2>c. SUFFICES ASSUME faults' = 0 PROVE GrantInv'
    BY <2>0
  <2>f. ~Fault
    BY <1>2, <2>c DEF GrantInv, TypeOK, Fault
  <2>e. faults = 0
    BY <1>2, <2>c, <2>f DEF Next, NeedToken, CallStep, Die, Acquire, Contend, Wait,
       NothingToDo, Recheck, Refresh, Refused, Unreachable, AnswerLost, Store, InspectOwn,
       InspectOther, Delete, Call, LockExpires, TokenAges, Revoke, Connect, vars
  <2>b. /\ pc \in [Callers -> Places] /\ held \in [Callers -> 0..MaxIssued]
        /\ accepted \subseteq 1..issued /\ issued \in Nat /\ token \in Tokens
        /\ StoringIsAccepted /\ StoringIsUnknown
    BY <1>2, <2>e DEF GrantInv, TypeOK, BoundsAssumption
  <2>1. CASE \E c \in Callers : NeedToken(c) \/ CallStep(c) \/ Die(c)
    <3>1. PICK c \in Callers : NeedToken(c) \/ CallStep(c) \/ Die(c)
      BY <2>1
    <3>2. CASE Refresh(c)
      BY <1>2, <2>a, <2>e, <3>2, RefreshKeepsGrant
    <3>3. CASE Store(c)
      <4>1. /\ pc[c] = "storing" /\ pc'[c] = "releasing" /\ token'.gen = held[c]
            /\ UNCHANGED <<held, accepted, issued>>
            /\ \A d \in Callers \ {c} : pc'[d] = pc[d]
        BY <2>b, <3>3 DEF Store, Move
      <4>2. held[c] \in accepted
        BY <2>b, <4>1 DEF StoringIsAccepted
      <4>3. GrantIsKept' /\ StoringIsAccepted'
        BY <2>b, <4>1, <4>2 DEF GrantIsKept, StoringIsAccepted
      <4>4. StoringIsUnknown'
        BY <2>b, <4>1 DEF StoringIsUnknown
      <4> QED
        BY <2>a, <4>3, <4>4 DEF GrantInv
    <3>4. CASE \/ NeedToken(c) \/ Acquire(c) \/ Contend(c) \/ Wait(c) \/ NothingToDo(c)
               \/ Refused(c) \/ InspectOwn(c) \/ InspectOther(c) \/ Delete(c)
      <4>1. UNCHANGED <<token, accepted, held>>
        BY <3>4 DEF NeedToken, Acquire, Contend, Wait, NothingToDo, Refused, InspectOwn,
           InspectOther, Delete
      <4>2. \A d \in Callers :
              \/ pc'[d] = pc[d]
              \/ pc[d] # "storing" /\ pc'[d] \notin {"storing", "refreshing"}
        BY <2>b, <3>4 DEF NeedToken, Acquire, Contend, Wait, NothingToDo, Refused,
           InspectOwn, InspectOther, Delete, Move
      <4> QED
        BY <1>2, <2>a, <2>e, <4>1, <4>2, OthersKeepGrant
    <3>5. CASE Recheck(c)
      <4>1. /\ UNCHANGED <<token, accepted>> /\ token # NoToken
            /\ pc[c] = "holding" /\ pc'[c] = "refreshing" /\ held'[c] = token.gen
            /\ \A d \in Callers \ {c} : pc'[d] = pc[d] /\ held'[d] = held[d]
        BY <2>b, <3>5 DEF Recheck, Move, NoToken
      <4>2. \A d \in Callers : pc'[d] = "storing" <=> pc[d] = "storing"
        BY <4>1
      <4> QED
        BY <1>2, <2>a, <2>e, <4>1, <4>2, OthersKeepGrant
    <3> QED
      BY <2>f, <3>1, <3>2, <3>3, <3>4, <3>5 DEF CallStep, Unreachable, AnswerLost, Die
  <2>2. CASE Connect
    <3>1. /\ token'.gen \in accepted' /\ token'.gen > issued /\ accepted \subseteq accepted'
          /\ UNCHANGED <<pc, held>>
      BY <2>b, <2>2 DEF Connect
    <3> QED
      BY <1>2, <2>a, <2>e, <3>1, OthersKeepGrant
  <2>3. CASE Revoke
    <3>1. token' = NoToken /\ UNCHANGED <<accepted, pc, held>>
      BY <2>3 DEF Revoke
    <3> QED
      BY <1>2, <2>a, <2>e, <3>1, OthersKeepGrant
  <2>4. CASE TokenAges
    <3>1. UNCHANGED <<accepted, pc, held>> /\ token'.gen = token.gen /\ token # NoToken
      BY <2>b, <2>4 DEF TokenAges, Tokens, NoToken
    <3> QED
      BY <1>2, <2>a, <2>e, <3>1, OthersKeepGrant
  <2>5. CASE LockExpires \/ UNCHANGED vars
    <3>1. UNCHANGED <<token, accepted, pc, held, faults>>
      BY <2>5 DEF LockExpires, vars
    <3> QED
      BY <1>2, <2>a, <3>1
         DEF GrantInv, StoringIsAccepted, StoringIsUnknown, GrantIsKept
  <2> QED
    BY <1>2, <2>1, <2>2, <2>3, <2>4, <2>5 DEF Next
<1> QED
  BY <1>1, <1>2

\* Where nothing fails, refreshing never loses the account: the refresh token in the
\* database is one that the provider accepts, or a call is about to store one, even when
\* calls outlive their locks and overlap, when the provider replaces the token at every
\* refresh, and when the account is revoked or connected again in between
\* (token.service.ts:164-201).
THEOREM GrantIsNeverLost == Spec => []GrantIsKept
<1>1. Init => GrantInv
  BY GrantInductive, CallersAssumption, BoundsAssumption
<1>2. GrantInv /\ [Next]_vars => GrantInv'
  BY GrantInductive, CallersAssumption, BoundsAssumption
<1>3. GrantInv => GrantIsKept
  BY DEF GrantInv
<1> QED
  BY <1>1, <1>2, <1>3, PTL DEF Spec

=============================================================================
