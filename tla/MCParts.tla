------------------------------ MODULE MCParts ------------------------------
(***************************************************************************)
(* The smaller components in one run.  They share no state with each other,   *)
(* so every behaviour is a behaviour of one of them, chosen at the start, and *)
(* the others stay as they began: what holds of all behaviours here is what   *)
(* holds of each component by itself.                                        *)
(***************************************************************************)
EXTENDS Integers, Sequences, TLC

CONSTANTS
    Conns, Ids, Reqs, MaxRuntimes,                \* of LiveSessions
    CallIds, MaxLength,                           \* of TransformMessages
    Users, NoUser, MaxConnections, MaxRevision,   \* of SessionLeases
    Clients, MaxVersion,                          \* of ServerSnapshots
    MaxRecords,                                   \* of JsonlStore
    Repos, Ttl, Interval, MaxStorages, MaxQueue,  \* of SqliteLease
    Tasks, MaxLogins, MaxTurns, MaxLate           \* of OAuthRefresh

VARIABLES
    part,   \* the component that runs
    conn, sessionIds, liveSessions, openingSessions, live, req, closing, awaited,
    conversation,
    connected, attached, snapshot, previous, count, exclusive, generation, cleanupRequired, promise,
    phase, leaseGeneration, disposing, answer, serverAttached, revision, removed, connections,
    version, broadcasts, publishing, envelope, recipients, currentRevision, stage, got, shown, missed,
    lines, terminated, process, state, tail, writing, progress, submitted, acknowledged,
    exists, row, storages, active, operation, committer,
    file, holder, task, stored, current, valid, late, session, cut

Live == INSTANCE LiveSessions
Repair == INSTANCE MCTransformMessages WITH Ids <- CallIds
Leases == INSTANCE SessionLeases
Snapshots == INSTANCE ServerSnapshots
Store == INSTANCE JsonlStore WITH AppendsFail <- FALSE
Writers == INSTANCE SqliteLease
Tokens == INSTANCE OAuthRefresh

\* What the theorems about the parts need of the constants.
ASSUME PartsAssumption ==
    /\ Live!RuntimesAssumption /\ Leases!LeasesAssumption /\ Writers!LeaseAssumption
    /\ Tokens!TokensAssumption
    /\ MaxVersion \in Nat /\ MaxRecords \in Nat

liveVars == <<conn, sessionIds, liveSessions, openingSessions, live, req, closing, awaited>>
leasesVars ==
    <<connected, attached, snapshot, previous, count, exclusive, generation, cleanupRequired,
      promise, phase, leaseGeneration, disposing, answer, serverAttached, revision, removed,
      connections>>
snapshotsVars ==
    <<version, broadcasts, publishing, envelope, recipients, currentRevision, stage, got, shown, missed>>
storeVars == <<lines, terminated, process, state, tail, writing, progress, submitted, acknowledged>>
writersVars == <<exists, row, storages, active, operation, committer>>
tokensVars == <<file, holder, task, stored, current, valid, late, session, cut>>
vars ==
    <<part, liveVars, conversation, leasesVars, snapshotsVars, storeVars, writersVars, tokensVars>>

Init ==
    /\ part \in {"live", "repair", "leases", "snapshots", "store", "writers", "tokens"}
    /\ Live!Init /\ Repair!Init /\ Leases!Init /\ Snapshots!Init /\ Store!Init /\ Writers!Init
    /\ Tokens!Init

-----------------------------------------------------------------------------
Runs(p) == part = p /\ UNCHANGED part
OnlyLive ==
    /\ Runs("live")
    /\ UNCHANGED <<conversation, leasesVars, snapshotsVars, storeVars, writersVars, tokensVars>>
OnlyRepair ==
    /\ Runs("repair")
    /\ UNCHANGED <<liveVars, leasesVars, snapshotsVars, storeVars, writersVars, tokensVars>>
OnlyLeases ==
    /\ Runs("leases")
    /\ UNCHANGED <<liveVars, conversation, snapshotsVars, storeVars, writersVars, tokensVars>>
OnlySnapshots ==
    /\ Runs("snapshots")
    /\ UNCHANGED <<liveVars, conversation, leasesVars, storeVars, writersVars, tokensVars>>
OnlyStore ==
    /\ Runs("store")
    /\ UNCHANGED <<liveVars, conversation, leasesVars, snapshotsVars, writersVars, tokensVars>>
OnlyWriters ==
    /\ Runs("writers")
    /\ UNCHANGED <<liveVars, conversation, leasesVars, snapshotsVars, storeVars, tokensVars>>
OnlyTokens ==
    /\ Runs("tokens")
    /\ UNCHANGED <<liveVars, conversation, leasesVars, snapshotsVars, storeVars, writersVars>>

\* One disjunct for each action, so that the run shows which of them happen.
LiveNext ==
    \/ OnlyLive /\ \E q \in Reqs : Live!RequestStep(q)
    \/ OnlyLive /\ \E r \in 1 .. MaxRuntimes : Live!SessionStep(r)
    \/ OnlyLive /\ Live!CloseStep
    \/ OnlyLive /\ Live!Environment

LeasesNext ==
    \/ OnlyLeases /\ \E u \in Users, mode \in {"shared", "exclusive"} : Leases!Acquire(u, mode)
    \/ OnlyLeases /\ \E u \in Users, dispose \in BOOLEAN : Leases!Release(u, dispose)
    \/ OnlyLeases /\ \E u \in Users : Leases!AfterDetachment(u)
    \/ OnlyLeases /\ \E u \in Users : Leases!AfterReconciliation(u)
    \/ OnlyLeases /\ \E u \in Users : Leases!AfterAttachment(u)
    \/ OnlyLeases /\ \E u \in Users : Leases!Released(u)
    \/ OnlyLeases /\ Leases!Connect
    \/ OnlyLeases /\ Leases!Disconnect
    \/ OnlyLeases /\ Leases!Removed
    \/ OnlyLeases /\ Leases!Update
    \/ OnlyLeases /\ \E k \in Leases!Kinds : Leases!Serve(k)
    \/ OnlyLeases /\ \E k \in Leases!Kinds : Leases!Receive(k)

SnapshotsNext ==
    \/ OnlySnapshots /\ Snapshots!Change
    \/ OnlySnapshots /\ Snapshots!PerformBroadcast
    \/ OnlySnapshots /\ Snapshots!ListForBroadcast
    \/ OnlySnapshots /\ Snapshots!EndBroadcast
    \/ OnlySnapshots /\ \E c \in Clients : Snapshots!SendBroadcast(c)
    \/ OnlySnapshots /\ \E c \in Clients : Snapshots!Hello(c)
    \/ OnlySnapshots /\ \E c \in Clients : Snapshots!Listed(c)
    \/ OnlySnapshots /\ \E c \in Clients : Snapshots!Greeted(c)
    \/ OnlySnapshots /\ \E c \in Clients : Snapshots!ListedAgain(c)
    \/ OnlySnapshots /\ \E c \in Clients : Snapshots!CaughtUp(c)
    \/ OnlySnapshots /\ \E c \in Clients : Snapshots!Disconnect(c)

StoreNext ==
    \/ OnlyStore /\ Store!Submit
    \/ OnlyStore /\ Store!Begin
    \/ OnlyStore /\ Store!WritePart
    \/ OnlyStore /\ Store!WriteRest
    \/ OnlyStore /\ Store!WriteNewline
    \/ OnlyStore /\ Store!Acknowledge
    \/ OnlyStore /\ Store!Crash
    \/ OnlyStore /\ Store!Load
    \/ OnlyStore /\ Store!Repair

WritersNext ==
    \/ OnlyWriters /\ \E r \in Repos : Writers!Create(r)
    \/ OnlyWriters /\ \E r \in Repos : Writers!Open(r)
    \/ OnlyWriters /\ \E r \in Repos, op \in {"close", "delete", "repair"} : Writers!Begin(r, op)
    \/ OnlyWriters /\ \E r \in Repos : Writers!ReleaseActive(r)
    \/ OnlyWriters /\ \E r \in Repos : Writers!Delete(r)
    \/ OnlyWriters /\ \E r \in Repos : Writers!RepairBranchCache(r)
    \/ OnlyWriters /\ \E r \in Repos : Writers!Closed(r)
    \/ OnlyWriters /\ \E r \in Repos : Writers!Crash(r)
    \/ OnlyWriters /\ \E s \in Writers!StorageIds : Writers!Submit(s)
    \/ OnlyWriters /\ \E s \in Writers!StorageIds : Writers!HeartbeatDue(s)
    \/ OnlyWriters /\ \E s \in Writers!StorageIds : Writers!Write(s)
    \/ OnlyWriters /\ \E s \in Writers!StorageIds : Writers!Heartbeat(s)
    \/ OnlyWriters /\ \E s \in Writers!StorageIds : Writers!Released(s)
    \/ OnlyWriters /\ Writers!Tick

TokensNext ==
    \/ OnlyTokens /\ \E q \in Tasks : Tokens!Login(q)
    \/ OnlyTokens /\ \E q \in Tasks : Tokens!Logout(q)
    \/ OnlyTokens /\ \E q \in Tasks : Tokens!Read(q)
    \/ OnlyTokens /\ \E q \in Tasks : Tokens!Lock(q)
    \/ OnlyTokens /\ \E q \in Tasks : Tokens!Rotate(q)
    \/ OnlyTokens /\ Tokens!RotateLate
    \/ OnlyTokens /\ \E q \in Tasks : Tokens!Store(q)
    \/ OnlyTokens /\ \E q \in Tasks : Tokens!Fail(q)
    \/ OnlyTokens /\ \E q \in Tasks : Tokens!Crash(q)
    \/ OnlyTokens /\ \E q \in Tasks : Tokens!Compromise(q)
    \/ OnlyTokens /\ Tokens!Expire
    \/ OnlyTokens /\ Tokens!Stale

Next ==
    \/ LiveNext \/ LeasesNext \/ SnapshotsNext \/ StoreNext \/ WritersNext \/ TokensNext
    \/ OnlyRepair /\ Repair!Next

Spec == Init /\ [][Next]_vars

Symmetric == Permutations(Conns) \cup Permutations(Reqs)

-----------------------------------------------------------------------------
(* The properties are those of the modules, where they are explained.        *)

\* Types of the part that runs.
TypeOK ==
    /\ part = "live" => Live!TypeOK
    /\ part = "leases" => Leases!TypeOK
    /\ part = "snapshots" => Snapshots!TypeOK
    /\ part = "store" => Store!TypeOK
    /\ part = "writers" => Writers!TypeOK
    /\ part = "tokens" => Tokens!TypeOK

\* Conversation repair (transform-messages.ts).
EveryCallAnswered == Repair!EveryCallAnswered
\* Conversation repair, what it leaves alone (transform-messages.ts).
KeepsTheRest == Repair!KeepsTheRest

\* Runtimes of one live session (sessions.ts, acquire).
OneRuntimePerSession == Live!OneRuntimePerSession
\* Disposal of live sessions (sessions.ts, maybeDispose).
NoDisposalUnderOperation == Live!NoDisposalUnderOperation
\* Receivers of a live session's events (sessions.ts, attach).
ReceiversAreAttached == Live!ReceiversAreAttached
\* Live sessions after the server has closed (sessions.ts, close).
NothingLeftLive == Live!NothingLeftLive

\* Leases of the client that still count (client.ts, #createSessionLease).
LeaseHolds == Leases!LeaseHolds
\* Exclusive leases of the client (client.ts, #reserveSessionLease).
ExclusiveAlone == Leases!ExclusiveAlone
\* Leases of the client that are all gone (client.ts, acquireSession).
NoneLeftAttached == Leases!NoneLeftAttached

\* The list of sessions a client shows (snapshots.ts).
UpToDate == Snapshots!UpToDate

\* Records of the session log that were acknowledged (jsonl/storage.ts).
AcknowledgedReadable == Store!AcknowledgedReadable

\* Writes of a storage whose lease was taken over (sqlite/repo.ts).
StaleOwnerFenced == Writers!StaleOwnerFenced
\* Leases that are renewed in time (sqlite/repo.ts, scheduleHeartbeat).
PromptOwnerKeepsLease == Writers!PromptOwnerKeepsLease

\* The refresh token in the file (auth/resolve.ts, auth-storage.ts).
StoredIsValid == Tokens!StoredIsValid
=============================================================================
