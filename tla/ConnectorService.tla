-------------------------- MODULE ConnectorService --------------------------
(***************************************************************************)
(* What packages/connectors does beside its adapters: the approvals of     *)
(* risky actions (ApprovalGate), the connection and revocation of accounts *)
(* (ConnectAccount) and the synchronisation of an account that is          *)
(* connected (ConnectorSync). None writes to a table of another, so a      *)
(* behaviour is about one of them.                                         *)
(***************************************************************************)
EXTENDS ApprovalGate

CONSTANTS Accounts, Processes, Flows, Callbacks, Revocations, MaxLinkFaults  \* ConnectAccount

CONSTANTS Jobs, Hooks, Attempts, Page, MaxChanges, MaxRequests, MaxHooks, MaxSyncFaults  \* ConnectorSync

CONSTANT Services  \* bound: the services that the behaviours may be about

ASSUME ServicesAssumption == Services \subseteq {"approvals", "accounts", "sync"}
ASSUME LinkBoundAssumption == MaxLinkFaults \in Nat
ASSUME SyncAssumption ==
  /\ Page \in Nat \ {0} /\ Attempts \in Nat \ {0}
  /\ {MaxChanges, MaxRequests, MaxHooks, MaxSyncFaults} \subseteq Nat

VARIABLES
  service,  \* bound: the service that the behaviour is about
  state, code, account, token, synced, key, cache, callback, revoke, linkFaults,
  provider, kind, feed, oldest, cursor, link, events, job, hook, stage, seen, beyond, served,
  failed, requests, notices, syncFaults

Link == INSTANCE ConnectAccount WITH faults <- linkFaults, MaxFaults <- MaxLinkFaults
Sync == INSTANCE ConnectorSync WITH faults <- syncFaults, MaxFaults <- MaxSyncFaults

\* A key is named by a callback; none of them is the name of no key.
ASSUME NoKeyAssumption == Link!NoKey \notin Callbacks

linked == <<state, code, account, token, synced, key, cache, callback, revoke, linkFaults>>
syncing ==
  <<provider, kind, feed, oldest, cursor, link, events, job, hook, stage, seen, beyond, served,
    failed, requests, notices, syncFaults>>
services == <<service, vars, linked, syncing>>

\* Of the service that takes no step, one initial state is enough.
ServiceInit ==
  /\ service \in Services
  /\ Init /\ Link!Init /\ Sync!Init
  /\ service # "approvals" => target = [h \in Handlers |-> CHOOSE a \in Approvals : TRUE]
  /\ service # "sync" =>
       provider = "GOOGLE" /\ kind = "email" /\ cursor = Sync!NoCursor

ApprovalStep == service = "approvals" /\ Next /\ UNCHANGED <<service, linked, syncing>>

AccountStep == service = "accounts" /\ Link!Next /\ UNCHANGED <<service, vars, syncing>>

SyncStep(action) == service = "sync" /\ action /\ UNCHANGED <<service, vars, linked>>

ServiceNext == ApprovalStep \/ AccountStep \/ SyncStep(Sync!Next)

ServiceSpec == ServiceInit /\ [][ServiceNext]_services

\* The workers of a live process take their next step, and a shutdown goes on.
SyncFairness ==
  /\ \A h \in Hooks : WF_services(SyncStep(Sync!ProcessWebhook(h)))
  /\ \A j \in Jobs : WF_services(SyncStep(Sync!ProcessSync(j)))
  /\ WF_services(SyncStep(Sync!CloseWorker))

FairServiceSpec == ServiceSpec /\ SyncFairness

-----------------------------------------------------------------------------
\* Every stored token can be decrypted, whichever process created the key.
TokensDecrypt == Link!TokensDecrypt

\* Who is told of success has an account that works, unless it was revoked meanwhile.
SuccessIsUsable == Link!SuccessIsUsable

\* A revoked account stays without tokens, unless it was connected meanwhile.
RevocationHolds == Link!RevocationHolds

\* No cursor passes a change that no sync has counted, but for Gmail's later pages.
NothingIsSkipped == Sync!NothingIsSkipped

\* A notification that the server has accepted is followed by a sync that lists the
\* account as it was then or later, unless a job or a notification is given up.
EveryNotificationIsServed == Sync!EveryNotificationIsServed
=============================================================================
