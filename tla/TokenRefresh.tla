---------------------------- MODULE TokenRefresh ----------------------------
(***************************************************************************)
(* The OAuth tokens of one connected account: their refresh under a Redis  *)
(* lock (packages/connectors/src/services/token.service.ts), as the mail   *)
(* and calendar adapters call it, and their revocation and renewal by the  *)
(* routes. A token record carries a generation of the refresh token; a     *)
(* provider that rotates refuses a generation that it has replaced.        *)
(***************************************************************************)
EXTENDS Naturals, FiniteSets

CONSTANTS
  Callers,    \* calls of refreshTokensWithLock, in any process
  Free,       \* nobody holds the lock
  Lost,       \* the value of a lock whose call died
  Rotating,   \* the provider replaces the refresh token at every refresh
  MaxIssued,  \* bound: refresh tokens issued
  MaxAgings,  \* bound: times the access token comes near its expiry
  MaxFaults   \* bound: failed calls, lost answers and crashes

ASSUME CallersAssumption ==
  /\ Free # Lost /\ {Free, Lost} \intersect Callers = {}
  /\ Rotating \in BOOLEAN
ASSUME BoundsAssumption ==
  MaxIssued \in Nat \ {0} /\ MaxAgings \in Nat /\ MaxFaults \in Nat

VARIABLES
  token,     \* the token record in the database
  issued,    \* the last generation that the provider issued
  accepted,  \* the generations that it accepts
  lock,      \* the value of the Redis key: the call that set it
  pc,
  held,      \* the generation that a call works with
  overrun,   \* history: the calls whose lock was gone before they released it
  agings, faults

vars == <<token, issued, accepted, lock, pc, held, overrun, agings, faults>>

NoToken == [gen |-> 0, state |-> "none"]
Generations == 0..MaxIssued
Tokens == [gen : Generations, state : {"fresh", "due"}] \union {NoToken}
Places == {"idle", "locking", "waiting", "holding", "refreshing", "storing",
           "releasing", "deleting"}

Init ==
  /\ token = [gen |-> 1, state |-> "fresh"]
  /\ issued = 1
  /\ accepted = {1}
  /\ lock = Free
  /\ pc = [c \in Callers |-> "idle"]
  /\ held = [c \in Callers |-> 0]
  /\ overrun = {}
  /\ agings = 0
  /\ faults = 0

Fault == faults < MaxFaults /\ faults' = faults + 1

Move(c, from, to) == pc[c] = from /\ pc' = [pc EXCEPT ![c] = to]

Call == UNCHANGED <<agings, faults>>

-----------------------------------------------------------------------------
(* refreshTokensWithLock                                                   *)

\* An adapter finds the token near its expiry.
NeedToken(c) ==
  /\ Move(c, "idle", "locking")
  /\ token.state = "due"
  /\ UNCHANGED <<token, issued, accepted, lock, held, overrun>> /\ Call

\* As if the option NX were missing.
AcquireAnyway(c) ==
  /\ Move(c, "locking", "holding")
  /\ lock' = c
  /\ UNCHANGED <<token, issued, accepted, held, overrun>> /\ Call

\* SET key value EX 30 NX
Acquire(c) ==
  /\ Move(c, "locking", "holding")
  /\ lock = Free
  /\ lock' = c
  /\ UNCHANGED <<token, issued, accepted, held, overrun>> /\ Call

Contend(c) ==
  /\ Move(c, "locking", "waiting")
  /\ lock # Free
  /\ UNCHANGED <<token, issued, accepted, lock, held, overrun>> /\ Call

\* The record is polled until it is fresh, for at most 5 seconds; whatever it
\* holds then is the answer.
Wait(c) ==
  /\ Move(c, "waiting", "idle")
  /\ UNCHANGED <<token, issued, accepted, lock, held, overrun>> /\ Call

\* The record is read again under the lock: it may be gone, or fresh.
NothingToDo(c) ==
  /\ Move(c, "holding", "releasing")
  /\ token.state # "due"
  /\ UNCHANGED <<token, issued, accepted, lock, held, overrun>> /\ Call

Recheck(c) ==
  /\ Move(c, "holding", "refreshing")
  /\ token.state = "due"
  /\ held' = [held EXCEPT ![c] = token.gen]
  /\ UNCHANGED <<token, issued, accepted, lock, overrun>> /\ Call

\* As if the refresh token in the answer were ignored.
RenewForgotten(c) ==
  /\ held[c] \in accepted
  /\ IF Rotating
       THEN /\ issued < MaxIssued
            /\ issued' = issued + 1
            /\ accepted' = (accepted \ {held[c]}) \union {issued'}
       ELSE UNCHANGED <<issued, accepted>>
  /\ UNCHANGED held

\* The provider's answer carries the next refresh token, or none: then the old
\* one is kept.
Renew(c) ==
  /\ held[c] \in accepted
  /\ IF Rotating
       THEN /\ issued < MaxIssued
            /\ issued' = issued + 1
            /\ accepted' = (accepted \ {held[c]}) \union {issued'}
            /\ held' = [held EXCEPT ![c] = issued']
       ELSE UNCHANGED <<issued, accepted, held>>

Refresh(c) ==
  /\ Move(c, "refreshing", "storing")
  /\ Renew(c)
  /\ UNCHANGED <<token, lock, overrun>> /\ Call

Refused(c) ==
  /\ Move(c, "refreshing", "releasing")
  /\ held[c] \notin accepted
  /\ UNCHANGED <<token, issued, accepted, lock, held, overrun>> /\ Call

\* The provider is unreachable, or its answer never arrives.
Unreachable(c) ==
  /\ Move(c, "refreshing", "releasing")
  /\ Fault
  /\ UNCHANGED <<token, issued, accepted, lock, held, overrun, agings>>

AnswerLost(c) ==
  /\ Move(c, "refreshing", "releasing")
  /\ Fault
  /\ Renew(c)
  /\ UNCHANGED <<token, lock, overrun, agings>>

\* storeTokens: an upsert, whatever has become of the record.
Store(c) ==
  /\ Move(c, "storing", "releasing")
  /\ token' = [gen |-> held[c], state |-> "fresh"]
  /\ UNCHANGED <<issued, accepted, lock, held, overrun>> /\ Call

Ended(c) == overrun' = overrun \ {c}

\* The lock is released by a GET, a comparison and a DEL: what the DEL removes may be the
\* lock of another call by then.
InspectOwn(c) ==
  /\ Move(c, "releasing", "deleting")
  /\ lock = c
  /\ UNCHANGED <<token, issued, accepted, lock, held, overrun>> /\ Call

InspectOther(c) ==
  /\ Move(c, "releasing", "idle")
  /\ lock # c
  /\ Ended(c)
  /\ UNCHANGED <<token, issued, accepted, lock, held>> /\ Call

Delete(c) ==
  /\ Move(c, "deleting", "idle")
  /\ lock' = Free
  /\ overrun' = (overrun \union ({lock} \intersect Callers)) \ {c}
  /\ UNCHANGED <<token, issued, accepted, held>> /\ Call

\* A process dies; the lock it set stays, under a value that nobody has.
Die(c) ==
  /\ pc[c] # "idle"
  /\ Fault
  /\ Move(c, pc[c], "idle")
  /\ lock' = IF lock = c THEN Lost ELSE lock
  /\ Ended(c)
  /\ UNCHANGED <<token, issued, accepted, held, agings>>

-----------------------------------------------------------------------------
(* Redis, time and the routes                                              *)

\* As if the option EX were missing.
LockStays == FALSE /\ UNCHANGED vars

\* Redis forgets the key 30 seconds after it was set, whether or not the call that set
\* it is still at work: the lock is never renewed, and a refresh has no time limit.
LockExpires ==
  /\ lock # Free
  /\ lock' = Free
  /\ overrun' = overrun \union ({lock} \intersect Callers)
  /\ UNCHANGED <<token, issued, accepted, pc, held, agings, faults>>

TokenAges ==
  /\ token.state = "fresh"
  /\ agings < MaxAgings
  /\ agings' = agings + 1
  /\ token' = [token EXCEPT !.state = "due"]
  /\ UNCHANGED <<issued, accepted, lock, pc, held, overrun, faults>>

\* As if the record were blanked, not deleted.
RevokeBlanks ==
  /\ token # NoToken
  /\ token' = [token EXCEPT !.state = "none"]
  /\ UNCHANGED <<issued, accepted, lock, pc, held, overrun, agings, faults>>

\* /accounts/:accountId/revoke
Revoke ==
  /\ token # NoToken
  /\ token' = NoToken
  /\ UNCHANGED <<issued, accepted, lock, pc, held, overrun, agings, faults>>

\* The callback of a new authorization. The bound leaves a generation for each
\* refresh that is still to come.
Connect ==
  /\ issued + MaxAgings < MaxIssued
  /\ issued' = issued + 1
  /\ accepted' = accepted \union {issued'}
  /\ token' = [gen |-> issued', state |-> "fresh"]
  /\ UNCHANGED <<lock, pc, held, overrun, agings, faults>>

CallStep(c) ==
  \/ Acquire(c) \/ Contend(c) \/ Wait(c) \/ NothingToDo(c) \/ Recheck(c)
  \/ Refresh(c) \/ Refused(c) \/ Unreachable(c) \/ AnswerLost(c) \/ Store(c)
  \/ InspectOwn(c) \/ InspectOther(c) \/ Delete(c)

Next ==
  \/ \E c \in Callers : NeedToken(c) \/ CallStep(c) \/ Die(c)
  \/ LockExpires \/ TokenAges \/ Revoke \/ Connect

Spec == Init /\ [][Next]_vars

\* Calls go on, Redis expires its keys, and the adapters, which ask for the
\* token before every request, keep asking.
Fairness ==
  /\ \A c \in Callers : WF_vars(CallStep(c)) /\ WF_vars(NeedToken(c))
  /\ WF_vars(LockExpires)

FairSpec == Spec /\ Fairness

-----------------------------------------------------------------------------
(* Properties                                                              *)

\* Type invariant.
TypeOK ==
  /\ token \in Tokens
  /\ issued \in Generations
  /\ accepted \subseteq 1..issued
  /\ lock \in Callers \union {Free, Lost}
  /\ pc \in [Callers -> Places]
  /\ held \in [Callers -> Generations]
  /\ overrun \subseteq Callers
  /\ agings \in 0..MaxAgings /\ faults \in 0..MaxFaults

\* Two calls refresh the tokens of an account at the same time only if one of them has
\* lost its lock, to the 30 seconds or to the release of another that had lost its own.
RefreshesExclude ==
  \A c, d \in Callers :
    {pc[c], pc[d]} \subseteq {"refreshing", "storing"} =>
      c = d \/ {c, d} \intersect overrun # {}

\* Until something fails, the stored refresh token is one that the provider
\* accepts, except while a call is about to store one that it accepts: refreshes never
\* lose the account, though they outlive their locks and overlap.
GrantIsKept ==
  faults = 0 /\ token # NoToken =>
    \/ token.gen \in accepted
    \/ \E c \in Callers : pc[c] = "storing" /\ held[c] \in accepted

\* A call that still has its lock removes no other's; one that lost it may.
ReleasesOwnLock ==
  [][\A c \in Callers : Delete(c) => lock \in {c, Free} \/ c \in overrun]_vars

\* Only a new authorization brings back the tokens of a revoked account. The code refutes
\* this: a refresh that has read them stores their successors after the revocation.
RevokedStaysRevoked == [][token = NoToken /\ token' # NoToken => Connect]_vars

\* A lock is not held for ever, though its call may die or never end.
LockIsFreed == lock # Free ~> lock = Free

\* A token near its expiry is refreshed or revoked, unless the answer that
\* carried its successor was lost.
DueIsRefreshed ==
  token.state = "due" ~> token.state # "due" \/ token.gen \notin accepted

\* What a call waits for comes: the lock, and the refresh of a token that is due.
RefreshesEnd == LockIsFreed /\ DueIsRefreshed

=============================================================================
