--------------------------- MODULE ConnectAccount ---------------------------
(***************************************************************************)
(* Connecting and revoking accounts in the connector service               *)
(* (routes/index.ts), the tokens that it stores and the data key of a      *)
(* tenant that encrypts them (token.service.ts, encryption.service.ts).    *)
(* Several processes serve the requests of one tenant; each has a cache of *)
(* its own for the key. Between any two statements of a handler another    *)
(* one may run, or its request may fail.                                   *)
(***************************************************************************)
EXTENDS Integers, FiniteSets

CONSTANTS
  Accounts,    \* accounts at the providers
  Processes,   \* bound: processes of the service
  Flows,       \* bound: connections that users begin; a flow is its state
  Callbacks,   \* bound: requests of the callback routes
  Revocations, \* bound: requests of the revoke route
  MaxFaults    \* bound: failed requests and restarts

VARIABLES
  state,    \* oauth_state:* in Redis
  code,     \* the provider's code for a flow
  account,  \* connectedAccount.status, or none
  token,    \* oAuthToken
  synced,   \* accounts that have a row in syncState
  key,      \* the row of encryptionKey, version 1
  cache,    \* dekCache of each process
  callback, \* requests of the callback routes
  revoke,   \* requests of the revoke route
  faults

vars == <<state, code, account, token, synced, key, cache, callback, revoke, faults>>
flows == <<state, code>>
tables == <<account, token, synced, key>>

-----------------------------------------------------------------------------
\* A data key is named by the request that generates it.
Keys == Callbacks
NoKey == "no key"
NoToken == [key |-> NoKey]
Tokens == [key : Keys, flow : Flows]
Statuses == {"none", "ACTIVE", "REVOKED"}

CallbackPlaces == {"deleting", "exchanging", "saving", "finding", "creating", "storing",
                   "syncing", "auditing", "success", "error"}
CallbackCalls ==
  [pc : CallbackPlaces, process : Processes, flow : Flows, account : Accounts,
   key : Keys \union {NoKey}, overtaken : BOOLEAN]
RevokeCalls ==
  [pc : {"deleting", "updating", "success", "error"}, account : Accounts, overtaken : BOOLEAN]
Unsent == [pc |-> "unsent"]

Fault == faults < MaxFaults /\ faults' = faults + 1

Init ==
  /\ state = [f \in Flows |-> "none"]
  /\ code = [f \in Flows |-> "none"]
  /\ account = [a \in Accounts |-> "none"]
  /\ token = [a \in Accounts |-> NoToken]
  /\ synced = {}
  /\ key = NoKey
  /\ cache = [p \in Processes |-> NoKey]
  /\ callback = [c \in Callbacks |-> Unsent]
  /\ revoke = [r \in Revocations |-> Unsent]
  /\ faults = 0

\* A request that another one of the account runs into.
OvertakeCallbacks(a) ==
  callback' = [c \in Callbacks |->
    IF callback[c] # Unsent /\ callback[c].account = a
    THEN [callback[c] EXCEPT !.overtaken = TRUE] ELSE callback[c]]
OvertakeRevocations(a) ==
  revoke' = [r \in Revocations |->
    IF revoke[r] # Unsent /\ revoke[r].account = a
    THEN [revoke[r] EXCEPT !.overtaken = TRUE] ELSE revoke[r]]

-----------------------------------------------------------------------------
(* POST /connect/google and /connect/microsoft: the state is kept in Redis  *)
(* for five minutes and goes to the provider with the user, who comes back  *)
(* with a code.                                                             *)

ConnectGoogle(f) ==
  /\ state[f] = "none"
  /\ state' = [state EXCEPT ![f] = "pending"]
  /\ code' = [code EXCEPT ![f] = "given"]
  /\ UNCHANGED <<tables, cache, callback, revoke, faults>>
ConnectMicrosoft(f) == ConnectGoogle(f)

StateExpires(f) ==
  /\ state[f] = "pending"
  /\ state' = [state EXCEPT ![f] = "gone"]
  /\ UNCHANGED <<code, tables, cache, callback, revoke, faults>>

-----------------------------------------------------------------------------
(* GET /oauth/callback/google and /oauth/callback/microsoft.                *)

At(c, place) == callback[c].pc = place
Goto(c, place) == callback' = [callback EXCEPT ![c].pc = place]

\* The state must be known; a request that repeats another one may find it as well.
GetState(c, f, p, a) ==
  /\ callback[c] = Unsent /\ state[f] # "none"
  /\ callback' = [callback EXCEPT ![c] =
       [pc |-> IF state[f] = "pending" THEN "deleting" ELSE "error", process |-> p,
        flow |-> f, account |-> a, key |-> NoKey, overtaken |-> FALSE]]
  /\ UNCHANGED <<flows, tables, cache, revoke, faults>>

DeleteState(c) ==
  /\ At(c, "deleting")
  /\ state' = [state EXCEPT ![callback[c].flow] = "gone"]
  /\ Goto(c, "exchanging")
  /\ UNCHANGED <<code, tables, cache, revoke, faults>>

\* The provider takes a code once.
ExchangeCode(c) ==
  /\ At(c, "exchanging")
  /\ LET f == callback[c].flow IN
     IF code[f] = "given"
     THEN code' = [code EXCEPT ![f] = "used"] /\ Goto(c, "saving")
     ELSE code' = code /\ Goto(c, "error")
  /\ UNCHANGED <<state, tables, cache, revoke, faults>>

\* The account is active from here on; its tokens are still to come.
SaveAccount(c) ==
  /\ At(c, "saving")
  /\ account' = [account EXCEPT ![callback[c].account] = "ACTIVE"]
  /\ Goto(c, "finding")
  /\ OvertakeRevocations(callback[c].account)
  /\ UNCHANGED <<flows, token, synced, key, cache, faults>>

-----------------------------------------------------------------------------
(* storeTokens.                                                             *)

\* getOrCreateDek: from the cache if there is a row, from the row ...
FindKey(c) ==
  /\ At(c, "finding")
  /\ LET p == callback[c].process IN
     IF key = NoKey
     THEN /\ Goto(c, "creating")
          /\ cache' = cache
     ELSE LET found == IF cache[p] # NoKey THEN cache[p] ELSE key IN
          /\ callback' = [callback EXCEPT ![c].pc = "storing", ![c].key = found]
          /\ cache' = [cache EXCEPT ![p] = found]
  /\ UNCHANGED <<flows, tables, revoke, faults>>

\* A bug: the key is kept before its row is created.
KeepFirst(c) == c
\* The key that the process keeps when its row could not be created.
KeepCreated(c) == cache[callback[c].process]

\* ... or new, as version 1, which the tenant may have once.
CreateKey(c) ==
  /\ At(c, "creating")
  /\ LET p == callback[c].process IN
     IF key = NoKey
     THEN /\ key' = c
          /\ cache' = [cache EXCEPT ![p] = c]
          /\ callback' = [callback EXCEPT ![c].pc = "storing", ![c].key = c]
     ELSE /\ Goto(c, "error")
          /\ cache' = [cache EXCEPT ![p] = KeepCreated(c)]
          /\ key' = key
  /\ UNCHANGED <<flows, account, token, synced, revoke, faults>>

\* A bug: the token does not say for which flow it is.
EncryptTokenBare(c) == [key |-> callback[c].key]
\* encryptToken names the version of the key, which is the same for every key here.
EncryptToken(c) == [key |-> callback[c].key, flow |-> callback[c].flow]

StoreTokens(c) ==
  /\ At(c, "storing")
  /\ token' = [token EXCEPT ![callback[c].account] = EncryptToken(c)]
  /\ Goto(c, "syncing")
  /\ OvertakeRevocations(callback[c].account)
  /\ UNCHANGED <<flows, account, synced, key, cache, faults>>

\* getTokens reads the row of the version and decrypts with it.
Decrypts(a) == token[a].key = key

CreateSyncState(c) ==
  /\ At(c, "syncing")
  /\ synced' = synced \union {callback[c].account}
  /\ Goto(c, "auditing")
  /\ UNCHANGED <<flows, account, token, key, cache, revoke, faults>>

LogConnect(c) ==
  /\ At(c, "auditing")
  /\ Goto(c, "success")
  /\ UNCHANGED <<flows, tables, cache, revoke, faults>>

\* A statement fails, the provider refuses or gives no refresh token: what was written
\* stays, and the browser is sent to the settings with an error.
Ended == {"unsent", "success", "error"}
\* A bug: an error while tokens are stored is logged only.
PassOver(c) == IF callback[c].pc = "storing" THEN "syncing" ELSE "error"
AfterError(c) == "error"

CallbackFails(c) ==
  /\ callback[c].pc \notin Ended
  /\ Goto(c, AfterError(c))
  /\ Fault
  /\ UNCHANGED <<flows, tables, cache, revoke>>

-----------------------------------------------------------------------------
(* POST /accounts/:accountId/revoke.                                        *)

ValidateAccount(r, a) ==
  /\ revoke[r] = Unsent /\ account[a] # "none"
  /\ revoke' = [revoke EXCEPT ![r] = [pc |-> "deleting", account |-> a, overtaken |-> FALSE]]
  /\ UNCHANGED <<flows, tables, cache, callback, faults>>

\* revokeTokens: to delete a record that is not there is an error.
CanDelete(a) == token[a] # NoToken

RevokeTokens(r) ==
  /\ revoke[r].pc = "deleting"
  /\ LET a == revoke[r].account IN
     /\ token' = [token EXCEPT ![a] = NoToken]
     /\ revoke' = [revoke EXCEPT ![r].pc = IF CanDelete(a) THEN "updating" ELSE "error"]
     /\ IF CanDelete(a) THEN OvertakeCallbacks(a) ELSE callback' = callback
  /\ UNCHANGED <<flows, account, synced, key, cache, faults>>

SetRevoked(r) ==
  /\ revoke[r].pc = "updating"
  /\ account' = [account EXCEPT ![revoke[r].account] = "REVOKED"]
  /\ revoke' = [revoke EXCEPT ![r].pc = "success"]
  /\ OvertakeCallbacks(revoke[r].account)
  /\ UNCHANGED <<flows, token, synced, key, cache, faults>>

\* A bug: an error while tokens are deleted is logged only.
PassOverDeletion(r) == IF revoke[r].pc = "deleting" THEN "updating" ELSE "error"
AfterRevokeError(r) == "error"

RevokeFails(r) ==
  /\ revoke[r].pc \notin Ended
  /\ revoke' = [revoke EXCEPT ![r].pc = AfterRevokeError(r)]
  /\ Fault
  /\ UNCHANGED <<flows, tables, cache, callback>>

-----------------------------------------------------------------------------
\* Five minutes after it was kept.
CacheExpires(p) ==
  /\ cache[p] # NoKey
  /\ cache' = [cache EXCEPT ![p] = NoKey]
  /\ UNCHANGED <<flows, tables, callback, revoke, faults>>

Callback(c) ==
  \/ \E f \in Flows, p \in Processes, a \in Accounts : GetState(c, f, p, a)
  \/ DeleteState(c) \/ ExchangeCode(c) \/ SaveAccount(c) \/ FindKey(c) \/ CreateKey(c)
  \/ StoreTokens(c) \/ CreateSyncState(c) \/ LogConnect(c) \/ CallbackFails(c)

Revoke(r) ==
  \/ \E a \in Accounts : ValidateAccount(r, a)
  \/ RevokeTokens(r) \/ SetRevoked(r) \/ RevokeFails(r)

Next ==
  \/ \E f \in Flows : ConnectGoogle(f) \/ ConnectMicrosoft(f) \/ StateExpires(f)
  \/ \E c \in Callbacks : Callback(c)
  \/ \E r \in Revocations : Revoke(r)
  \/ \E p \in Processes : CacheExpires(p)

Spec == Init /\ [][Next]_vars

-----------------------------------------------------------------------------
TypeOK ==
  /\ state \in [Flows -> {"none", "pending", "gone"}]
  /\ code \in [Flows -> {"none", "given", "used"}]
  /\ account \in [Accounts -> Statuses]
  /\ token \in [Accounts -> Tokens \union {NoToken}]
  /\ synced \subseteq Accounts
  /\ key \in Keys \union {NoKey}
  /\ cache \in [Processes -> Keys \union {NoKey}]
  /\ callback \in [Callbacks -> CallbackCalls \union {Unsent}]
  /\ revoke \in [Revocations -> RevokeCalls \union {Unsent}]
  /\ faults \in 0..MaxFaults

\* Every stored token can be decrypted with the row that its version names, though two
\* first connections of a tenant may both generate version 1 and each process trusts
\* its cache.
TokensDecrypt == \A a \in Accounts : token[a] # NoToken => Decrypts(a)

\* A browser that is told of success comes back to an account that is active, has its
\* tokens and a sync state, unless a revocation of the account ran into the connection.
SuccessIsUsable ==
  \A c \in Callbacks :
    callback[c].pc = "success" =>
      LET a == callback[c].account IN
      \/ account[a] = "ACTIVE" /\ token[a] # NoToken /\ a \in synced
      \/ callback[c].overtaken

\* An account whose revocation has succeeded has no tokens and is marked, unless a
\* connection of the same account ran into the revocation or came after it: then it
\* may be marked REVOKED with tokens that work, or ACTIVE without any.
RevocationHolds ==
  \A r \in Revocations :
    revoke[r].pc = "success" =>
      LET a == revoke[r].account IN
      \/ account[a] = "REVOKED" /\ token[a] = NoToken
      \/ revoke[r].overtaken
=============================================================================
