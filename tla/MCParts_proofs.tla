--------------------------- MODULE MCParts_proofs ---------------------------
(***************************************************************************)
(* The theorems about the components, carried over to the composition that  *)
(* the run checks.  A behaviour of the composition is, for each component,   *)
(* one of the component's own: a step of the part that runs is a step of its *)
(* component, and every other component stutters.  The credentials, the      *)
(* snapshot publisher and the session log are proved right here, as parts of *)
(* it, and the repair from its theorems, which hold of every conversation.   *)
(***************************************************************************)
EXTENDS MCParts, SequenceTheorems, TLAPS

LiveProofs == INSTANCE LiveSessions_proofs
LeaseProofs == INSTANCE SqliteLease_proofs
RepairProofs == INSTANCE TransformMessages_proofs
HoldProofs == INSTANCE SessionLeases_proofs

\* What the disjuncts of each part have in common.
LEMMA OnePartRuns ==
    ASSUME Next
    PROVE  \/ OnlyRepair \/ (OnlyLive /\ LiveNext) \/ (OnlyLeases /\ LeasesNext)
           \/ (OnlyStore /\ StoreNext) \/ (OnlySnapshots /\ SnapshotsNext)
           \/ (OnlyWriters /\ WritersNext) \/ (OnlyTokens /\ TokensNext)
<1>1. (LiveNext => OnlyLive) /\ (LeasesNext => OnlyLeases) /\ (StoreNext => OnlyStore)
  BY DEF LiveNext, LeasesNext, StoreNext
<1>2. /\ SnapshotsNext => OnlySnapshots
      /\ WritersNext => OnlyWriters
      /\ TokensNext => OnlyTokens
  BY DEF SnapshotsNext, WritersNext, TokensNext
<1> QED
  BY <1>1, <1>2 DEF Next

-----------------------------------------------------------------------------
(* Live sessions. *)

\* Both instances of the module say the same, expanded to the last definition.
LEMMA SameLive ==
    /\ Live!Init => LiveProofs!Init
    /\ Live!Next => LiveProofs!Next
    /\ UNCHANGED liveVars => UNCHANGED LiveProofs!vars
    /\ Live!RuntimesAssumption => LiveProofs!RuntimesAssumption
    /\ LiveProofs!OneRuntimePerSession => Live!OneRuntimePerSession
    /\ LiveProofs!NoDisposalUnderOperation => Live!NoDisposalUnderOperation
    /\ LiveProofs!ReceiversAreAttached => Live!ReceiversAreAttached
    /\ LiveProofs!NothingLeftLive => Live!NothingLeftLive
BY DEF liveVars,
       Live!Init, LiveProofs!Init, Live!Next, LiveProofs!Next, Live!vars,
       LiveProofs!vars, Live!RuntimesAssumption, LiveProofs!RuntimesAssumption,
       Live!OneRuntimePerSession, LiveProofs!OneRuntimePerSession,
       Live!NoDisposalUnderOperation, LiveProofs!NoDisposalUnderOperation,
       Live!ReceiversAreAttached, LiveProofs!ReceiversAreAttached,
       Live!NothingLeftLive, LiveProofs!NothingLeftLive, Live!Opening,
       LiveProofs!Opening, Live!NewLive, LiveProofs!NewLive, Live!Idle,
       LiveProofs!Idle, Live!Busy, LiveProofs!Busy, Live!Done, LiveProofs!Done,
       Live!TaskOrder, LiveProofs!TaskOrder, Live!Disposable,
       LiveProofs!Disposable, Live!MaybeDispose, LiveProofs!MaybeDispose,
       Live!DisposeEnd, LiveProofs!DisposeEnd, Live!AcquireLocked,
       LiveProofs!AcquireLocked, Live!AcquireExisting,
       LiveProofs!AcquireExisting, Live!AcquireOpening,
       LiveProofs!AcquireOpening, Live!AcquireAnew, LiveProofs!AcquireAnew,
       Live!AcquireNew, LiveProofs!AcquireNew, Live!Acquire, LiveProofs!Acquire,
       Live!AttachRequest, LiveProofs!AttachRequest, Live!WaitOver,
       LiveProofs!WaitOver, Live!WaitFails, LiveProofs!WaitFails,
       Live!ServiceAnswers, LiveProofs!ServiceAnswers, Live!Validate,
       LiveProofs!Validate, Live!Invalid, LiveProofs!Invalid, Live!Rejected,
       LiveProofs!Rejected, Live!Resume, LiveProofs!Resume, Live!Attach,
       LiveProofs!Attach, Live!Detach, LiveProofs!Detach, Live!DetachEnd,
       LiveProofs!DetachEnd, Live!Attached, LiveProofs!Attached, Live!Operate,
       LiveProofs!Operate, Live!OperationEnds, LiveProofs!OperationEnds,
       Live!Without, LiveProofs!Without, Live!DisconnectAll,
       LiveProofs!DisconnectAll, Live!Disconnect, LiveProofs!Disconnect,
       Live!Subscribed, LiveProofs!Subscribed, Live!RuntimeBusy,
       LiveProofs!RuntimeBusy, Live!RuntimeIdle, LiveProofs!RuntimeIdle,
       Live!RuntimeEvent, LiveProofs!RuntimeEvent, Live!RuntimeError,
       LiveProofs!RuntimeError, Live!TerminateDisconnect,
       LiveProofs!TerminateDisconnect, Live!TerminateEnd,
       LiveProofs!TerminateEnd, Live!Close, LiveProofs!Close,
       Live!CloseConnections, LiveProofs!CloseConnections,
       Live!CloseDisconnects, LiveProofs!CloseDisconnects, Live!AwaitOpenings,
       LiveProofs!AwaitOpenings, Live!Drain, LiveProofs!Drain, Live!CloseEnd,
       LiveProofs!CloseEnd, Live!RequestStep, LiveProofs!RequestStep,
       Live!SessionStep, LiveProofs!SessionStep, Live!CloseStep,
       LiveProofs!CloseStep, Live!Environment, LiveProofs!Environment,
       Live!Held, LiveProofs!Held

\* What the composition does is what the component may do.
LEMMA LiveBehave == Spec => LiveProofs!Spec
<1>1. Init => LiveProofs!Init
  BY SameLive DEF Init
<1>2. [Next]_vars => [LiveProofs!Next]_(LiveProofs!vars)
  <2>1. LiveNext => Live!Next
    BY DEF LiveNext, Live!Next, Live!RequestStep, Live!SessionStep, Live!CloseStep,
       Live!Environment
  <2>2. OnlyLeases \/ OnlyStore \/ OnlyRepair \/ OnlySnapshots \/ OnlyWriters \/ OnlyTokens
          => UNCHANGED liveVars
    BY DEF OnlyLeases, OnlyStore, OnlyRepair, OnlySnapshots, OnlyWriters, OnlyTokens
  <2>3. UNCHANGED vars => UNCHANGED liveVars
    BY DEF vars
  <2> QED BY <2>1, <2>2, <2>3, OnePartRuns, SameLive
<1> QED
  BY <1>1, <1>2, PTL DEF Spec, LiveProofs!Spec

\* A session has one runtime at a time (sessions.ts, acquire).
THEOREM OneRuntimeEach == Spec => []OneRuntimePerSession
<1>1. LiveProofs!Spec => []LiveProofs!OneRuntimePerSession
  BY LiveProofs!OneRuntime, SameLive, PartsAssumption
<1>2. LiveProofs!OneRuntimePerSession => OneRuntimePerSession
  BY SameLive DEF OneRuntimePerSession
<1> QED
  BY <1>1, <1>2, LiveBehave, PTL

\* No runtime is disposed under an operation (sessions.ts, maybeDispose).
THEOREM OperationsKeepRuntimes == Spec => []NoDisposalUnderOperation
<1>1. LiveProofs!Spec => []LiveProofs!NoDisposalUnderOperation
  BY LiveProofs!NoDisposal, SameLive, PartsAssumption
<1>2. LiveProofs!NoDisposalUnderOperation => NoDisposalUnderOperation
  BY SameLive DEF NoDisposalUnderOperation
<1> QED
  BY <1>1, <1>2, LiveBehave, PTL

\* Who receives a session's events is attached to it (sessions.ts, attach).
THEOREM AttachedReceive == Spec => []ReceiversAreAttached
<1>1. LiveProofs!Spec => []LiveProofs!ReceiversAreAttached
  BY LiveProofs!OnlyAttachedReceive, SameLive, PartsAssumption
<1>2. LiveProofs!ReceiversAreAttached => ReceiversAreAttached
  BY SameLive DEF ReceiversAreAttached
<1> QED
  BY <1>1, <1>2, LiveBehave, PTL

\* After close nothing is live or being disposed (sessions.ts, close).
THEOREM CloseLeavesNothing == Spec => []NothingLeftLive
<1>1. LiveProofs!Spec => []LiveProofs!NothingLeftLive
  BY LiveProofs!ClosedIsClosed, SameLive, PartsAssumption
<1>2. LiveProofs!NothingLeftLive => NothingLeftLive
  BY SameLive DEF NothingLeftLive
<1> QED
  BY <1>1, <1>2, LiveBehave, PTL

-----------------------------------------------------------------------------
(* The SQLite lease. *)

\* Both instances of the module say the same, expanded to the last definition.
LEMMA SameWriters ==
    /\ Writers!Init => LeaseProofs!Init
    /\ Writers!Next => LeaseProofs!Next
    /\ UNCHANGED writersVars => UNCHANGED LeaseProofs!vars
    /\ Writers!LeaseAssumption => LeaseProofs!LeaseAssumption
    /\ LeaseProofs!StaleOwnerFenced => Writers!StaleOwnerFenced
    /\ LeaseProofs!PromptOwnerKeepsLease => Writers!PromptOwnerKeepsLease
BY DEF writersVars,
       Writers!Init, LeaseProofs!Init, Writers!Next, LeaseProofs!Next,
       Writers!vars, LeaseProofs!vars, Writers!LeaseAssumption,
       LeaseProofs!LeaseAssumption, Writers!StaleOwnerFenced,
       LeaseProofs!StaleOwnerFenced, Writers!PromptOwnerKeepsLease,
       LeaseProofs!PromptOwnerKeepsLease, Writers!NoRow, LeaseProofs!NoRow,
       Writers!NoTimer, LeaseProofs!NoTimer, Writers!NewStorage,
       LeaseProofs!NewStorage, Writers!Gone, LeaseProofs!Gone,
       Writers!StorageIds, LeaseProofs!StorageIds, Writers!Claimable,
       LeaseProofs!Claimable, Writers!Renewable, LeaseProofs!Renewable,
       Writers!Renew, LeaseProofs!Renew, Writers!Unclaim, LeaseProofs!Unclaim,
       Writers!Claim, LeaseProofs!Claim, Writers!Create, LeaseProofs!Create,
       Writers!Open, LeaseProofs!Open, Writers!Release, LeaseProofs!Release,
       Writers!Begin, LeaseProofs!Begin, Writers!ReleaseActive,
       LeaseProofs!ReleaseActive, Writers!Delete, LeaseProofs!Delete,
       Writers!RepairBranchCache, LeaseProofs!RepairBranchCache, Writers!Closed,
       LeaseProofs!Closed, Writers!Crash, LeaseProofs!Crash, Writers!Submit,
       LeaseProofs!Submit, Writers!HeartbeatDue, LeaseProofs!HeartbeatDue,
       Writers!Turn, LeaseProofs!Turn, Writers!Dequeued, LeaseProofs!Dequeued,
       Writers!Lost, LeaseProofs!Lost, Writers!Write, LeaseProofs!Write,
       Writers!Tolerated, LeaseProofs!Tolerated, Writers!Failing,
       LeaseProofs!Failing, Writers!Rescheduled, LeaseProofs!Rescheduled,
       Writers!Heartbeat, LeaseProofs!Heartbeat, Writers!Released,
       LeaseProofs!Released, Writers!Tick, LeaseProofs!Tick, Writers!RepoStep,
       LeaseProofs!RepoStep, Writers!StorageStep, LeaseProofs!StorageStep

\* What the composition does is what the component may do.
LEMMA WritersBehave == Spec => LeaseProofs!Spec
<1>1. Init => LeaseProofs!Init
  BY SameWriters DEF Init
<1>2. [Next]_vars => [LeaseProofs!Next]_(LeaseProofs!vars)
  <2>1. WritersNext => Writers!Next
    BY DEF WritersNext, Writers!Next, Writers!RepoStep, Writers!StorageStep
  <2>2. OnlyLive \/ OnlyLeases \/ OnlyStore \/ OnlyRepair \/ OnlySnapshots \/ OnlyTokens
          => UNCHANGED writersVars
    BY DEF OnlyLive, OnlyLeases, OnlyStore, OnlyRepair, OnlySnapshots, OnlyTokens
  <2>3. UNCHANGED vars => UNCHANGED writersVars
    BY DEF vars
  <2> QED BY <2>1, <2>2, <2>3, OnePartRuns, SameWriters
<1> QED
  BY <1>1, <1>2, PTL DEF Spec, LeaseProofs!Spec

\* A storage whose lease was taken over commits nothing more (sqlite/repo.ts).
THEOREM WritersFenced == Spec => []StaleOwnerFenced
<1>1. LeaseProofs!Spec => []LeaseProofs!StaleOwnerFenced
  BY LeaseProofs!StaleOwnersFenced, SameWriters, PartsAssumption
<1>2. LeaseProofs!StaleOwnerFenced => StaleOwnerFenced
  BY SameWriters DEF StaleOwnerFenced
<1> QED
  BY <1>1, <1>2, WritersBehave, PTL

\* A process that keeps up keeps its lease (sqlite/repo.ts, scheduleHeartbeat).
THEOREM PromptWritersKeep == Spec => []PromptOwnerKeepsLease
<1>1. LeaseProofs!Spec => []LeaseProofs!PromptOwnerKeepsLease
  BY LeaseProofs!PromptOwnersKeep, SameWriters, PartsAssumption
<1>2. LeaseProofs!PromptOwnerKeepsLease => PromptOwnerKeepsLease
  BY SameWriters DEF PromptOwnerKeepsLease
<1> QED
  BY <1>1, <1>2, WritersBehave, PTL

-----------------------------------------------------------------------------
(* Credentials. *)

\* Who is at the provider has a token of some login, and one that was rotated was
\* not the last the model has.
Asked == {"asking", "answered", "refused"}
LoginsInv ==
    /\ file = Tokens!Nothing \/ file.login \in 1 .. Len(valid)
    /\ \A q \in Tasks : task[q] \in Asked => current[q].login \in 1 .. Len(valid)
    /\ \A q \in Tasks : task[q] = "answered" => current[q].turn < MaxTurns
    /\ \A token \in late : token.login \in 1 .. Len(valid)

\* While no refresh was cut off, nothing given up is under way, and only the holder
\* of the lock is at the provider, with the stored token, which is one turn behind
\* from the answer to the write.
HolderInv ==
    /\ late = {}
    /\ \A q \in Tasks :
          task[q] \in Asked =>
              /\ task[q] # "refused"
              /\ holder = q /\ current[q] = file /\ file # Tokens!Nothing /\ ~file.fresh
StoredInv ==
    IF session = 0 THEN file = Tokens!Nothing
    ELSE /\ file # Tokens!Nothing /\ file.login = session
         /\ \A q \in Tasks : task[q] = "answered" => valid[session] = file.turn + 1
         /\ (\A q \in Tasks : task[q] # "answered") => valid[session] = file.turn

TokensInv == Tokens!TypeOK /\ LoginsInv /\ (~cut => HolderInv /\ StoredInv)

\* What a task that gives up leaves under way is a token of some login.
LEMMA TokensGivenUp ==
    ASSUME Tokens!TypeOK, LoginsInv, NEW q \in Tasks, Tokens!GivenUp(q)
    PROVE  /\ late' \subseteq Tokens!Credentials /\ cut' \in BOOLEAN
           /\ \A token \in late' : token.login \in 1 .. Len(valid)
<1>1. CASE UNCHANGED <<late, cut>>
  BY <1>1 DEF Tokens!TypeOK, LoginsInv
<1>2. CASE task[q] = "asking" /\ late' = late \cup {current[q]} /\ cut' = TRUE
  <2>1. current[q] \in Tokens!Credentials /\ current[q].login \in 1 .. Len(valid)
    BY <1>2 DEF Tokens!TypeOK, LoginsInv, Asked
  <2> QED BY <1>2, <2>1 DEF Tokens!TypeOK, LoginsInv
<1>3. CASE UNCHANGED late /\ cut' = TRUE
  BY <1>3 DEF Tokens!TypeOK, LoginsInv
<1> QED BY <1>1, <1>2, <1>3 DEF Tokens!GivenUp, Tokens!Presented

\* What the provider does with a token of some login.
LEMMA TokensAsked ==
    ASSUME Tokens!TokensAssumption, Tokens!TypeOK, NEW token \in Tokens!Credentials,
           token.login \in 1 .. Len(valid), Tokens!Asks(token)
    PROVE  valid' \in Seq(0 .. MaxTurns) /\ Len(valid') = Len(valid)
<1> DEFINE T == 0 .. MaxTurns
           next == IF Tokens!Accepts(token) THEN token.turn + 1 ELSE 0
           login == token.login
<1>1. valid' = [valid EXCEPT ![login] = next]
  BY DEF Tokens!Asks, Tokens!Revoked
<1>2. next \in T
  <2>1. token.turn \in Nat /\ MaxTurns \in Nat
    BY DEF Tokens!Credentials, Tokens!TokensAssumption
  <2> QED BY <2>1 DEF Tokens!Asks
<1>3. valid \in Seq(T) /\ login \in 1 .. Len(valid)
  BY DEF Tokens!TypeOK
<1> HIDE DEF T, next, login
<1>4. [valid EXCEPT ![login] = next] \in Seq(T) /\ Len([valid EXCEPT ![login] = next]) = Len(valid)
  BY ONLY <1>2, <1>3, ExceptSeq
<1> QED BY <1>1, <1>4 DEF T

\* A task that is done has nothing left that the invariant speaks of.
LEMMA TokensDone ==
    ASSUME Tokens!TokensAssumption, Tokens!TypeOK, LoginsInv, NEW q \in Tasks, Tokens!Done(q),
           UNCHANGED <<valid, session>>, Tokens!GivenUp(q) \/ UNCHANGED <<late, cut>>,
           file' \in Tokens!Credentials,
           file' = Tokens!Nothing \/ file'.login \in 1 .. Len(valid)
    PROVE  Tokens!TypeOK' /\ LoginsInv'
<1>0. /\ late' \subseteq Tokens!Credentials /\ cut' \in BOOLEAN
      /\ \A token \in late' : token.login \in 1 .. Len(valid)
  <2>1. UNCHANGED <<late, cut>> => late' \subseteq Tokens!Credentials /\ cut' \in BOOLEAN
                                    /\ \A token \in late' : token.login \in 1 .. Len(valid)
    BY DEF Tokens!TypeOK, LoginsInv
  <2> QED BY <2>1, TokensGivenUp
<1>1. /\ task' = [task EXCEPT ![q] = "idle"]
       /\ stored' = [stored EXCEPT ![q] = Tokens!Nothing]
      /\ current' = [current EXCEPT ![q] = Tokens!Nothing]
      /\ holder' = IF holder = q THEN Tokens!Nobody ELSE holder
  BY DEF Tokens!Done, Tokens!Goto, Tokens!Release
<1>2. Tokens!Nothing \in Tokens!Credentials
  BY DEF Tokens!TokensAssumption, Tokens!Nothing, Tokens!Credential, Tokens!Credentials
<1>3. Tokens!TypeOK'
  BY <1>0, <1>1, <1>2 DEF Tokens!TypeOK
<1>4. \A p \in Tasks : task'[p] \in Asked =>
         task'[p] = task[p] /\ current'[p] = current[p]
  BY <1>1 DEF Tokens!TypeOK, Asked
<1>5. \A p \in Tasks : task'[p] = "answered" => task'[p] \in Asked
  BY DEF Asked
<1> QED
  BY <1>0, <1>3, <1>4, <1>5 DEF LoginsInv

\* Only a stored credential is refreshed, and the provider knows it.
LEMMA TokensTypes ==
    ASSUME Tokens!TokensAssumption, Tokens!TypeOK, LoginsInv, [Tokens!Next]_(Tokens!vars)
    PROVE  Tokens!TypeOK' /\ LoginsInv'
<1> USE DEF Tokens!TokensAssumption, Tokens!Credential, Tokens!Credentials, Tokens!Nothing,
            Tokens!Nobody, Tokens!Dead, Tokens!Revoked,
            Tokens!TypeOK, LoginsInv, Asked, Tokens!Goto, Tokens!Release, Tokens!Done
<1>1. ASSUME NEW q \in Tasks, Tokens!Login(q) PROVE Tokens!TypeOK' /\ LoginsInv'
  <2>1. /\ Len(valid') = Len(valid) + 1
        /\ valid' \in Seq(0 .. MaxTurns)
    <3>1. valid' = Append(valid, 1) /\ valid \in Seq(0 .. MaxTurns) /\ 1 \in 0 .. MaxTurns
      BY <1>1 DEF Tokens!Login
    <3> DEFINE T == 0 .. MaxTurns
    <3> HIDE DEF T
    <3>2. valid \in Seq(T) /\ 1 \in T
      BY <3>1 DEF T
    <3>3. Append(valid, 1) \in Seq(T) /\ Len(Append(valid, 1)) = Len(valid) + 1
      BY ONLY <3>2, AppendProperties
    <3> QED BY ONLY <3>1, <3>3 DEF T
  <2>2. /\ file' \in Tokens!Credentials /\ file'.login = Len(valid) + 1 /\ session' = Len(valid) + 1
        /\ Len(valid) + 1 <= MaxLogins /\ UNCHANGED <<holder, task, stored, current, late, cut>>
    <3>1. /\ file' = [login |-> Len(valid) + 1, turn |-> 1, fresh |-> TRUE]
          /\ session' = Len(valid) + 1 /\ Len(valid) < MaxLogins
          /\ UNCHANGED <<holder, task, stored, current, late, cut>>
      BY ONLY <1>1 DEF Tokens!Login, Tokens!Credential
    <3>2. Len(valid) \in Nat /\ MaxLogins \in Nat /\ MaxTurns \in Nat \ {0}
      BY LenProperties
    <3>3. Len(valid) + 1 \in 0 .. MaxLogins /\ 1 \in 0 .. MaxTurns /\ Len(valid) + 1 <= MaxLogins
      BY ONLY <3>1, <3>2
    <3> QED BY ONLY <3>1, <3>3 DEF Tokens!Credentials
  <2>3. Tokens!TypeOK'
    <3>1. Len(valid') <= MaxLogins /\ session' \in 0 .. Len(valid')
      <4>1. Len(valid) \in Nat
        BY LenProperties
      <4> QED BY ONLY <2>1, <2>2, <4>1
    <3> QED BY ONLY <2>1, <2>2, <3>1, Tokens!TypeOK DEF Tokens!TypeOK
  <2>4. 1 .. Len(valid) \subseteq 1 .. Len(valid') /\ Len(valid) + 1 \in 1 .. Len(valid')
    <3>1. Len(valid) \in Nat
      BY LenProperties
    <3> QED BY ONLY <2>1, <3>1
  <2>5. LoginsInv'
    BY ONLY <2>2, <2>4, LoginsInv DEF LoginsInv
  <2> QED
    BY <2>3, <2>5
<1>2. ASSUME NEW q \in Tasks, Tokens!Logout(q) PROVE Tokens!TypeOK' /\ LoginsInv'
  BY <1>2 DEF Tokens!Logout
<1>3. ASSUME NEW q \in Tasks, Tokens!Read(q) PROVE Tokens!TypeOK' /\ LoginsInv'
  <2>1. /\ task' = [task EXCEPT ![q] = "locking"] /\ stored' = [stored EXCEPT ![q] = file]
        /\ UNCHANGED <<file, holder, current, valid, late, session, cut>>
    BY <1>3 DEF Tokens!Read
  <2>2. Tokens!TypeOK'
    BY <2>1
  <2>3. LoginsInv'
    <3>1. \A p \in Tasks : task'[p] \in Asked => task'[p] = task[p]
      BY <2>1
    <3> QED BY <2>1, <3>1
  <2> QED BY <2>2, <2>3
<1>4. ASSUME NEW q \in Tasks, Tokens!Lock(q) PROVE Tokens!TypeOK' /\ LoginsInv'
  <2>1. CASE file = Tokens!Nothing \/ file.fresh
    <3>1. Tokens!Done(q) /\ UNCHANGED <<file, valid, late, session, cut>>
      BY <1>4, <2>1 DEF Tokens!Lock
    <3> QED
      BY ONLY <3>1, TokensDone, Tokens!TokensAssumption, Tokens!TypeOK, LoginsInv
      DEF Tokens!TypeOK, LoginsInv
  <2>2. CASE ~(file = Tokens!Nothing \/ file.fresh)
    <3>1. /\ task' = [task EXCEPT ![q] = "asking"] /\ holder' = q
          /\ current' = [current EXCEPT ![q] = file]
          /\ UNCHANGED <<stored, file, valid, late, session, cut>>
      BY <1>4, <2>2 DEF Tokens!Lock
    <3>2. file.login \in 1 .. Len(valid)
      BY <2>2
    <3>3. Tokens!TypeOK'
      BY <3>1
    <3>4. LoginsInv'
      <4>1. file' = file /\ valid' = valid
        BY <3>1
      <4>2. \A p \in Tasks : p # q => task'[p] = task[p] /\ current'[p] = current[p]
        BY <3>1
      <4>3. task'[q] = "asking" /\ current'[q] = file
        BY <3>1
      <4>4. late' = late
        BY <3>1
      <4> QED BY ONLY <3>2, <4>1, <4>2, <4>3, <4>4, LoginsInv DEF LoginsInv, Asked
    <3> QED BY <3>3, <3>4
  <2> QED
    BY <2>1, <2>2
<1>5. ASSUME NEW q \in Tasks, Tokens!Rotate(q) PROVE Tokens!TypeOK' /\ LoginsInv'
  <2> DEFINE token == current[q]
  <2>1. token \in Tokens!Credentials /\ token.login \in 1 .. Len(valid)
    BY <1>5 DEF Tokens!Rotate
  <2>2. Tokens!Asks(token) /\ UNCHANGED <<file, holder, stored, current, late, session, cut>>
    BY <1>5 DEF Tokens!Rotate, Tokens!Presented
  <2>3. valid' \in Seq(0 .. MaxTurns) /\ Len(valid') = Len(valid)
    BY ONLY <2>1, <2>2, TokensAsked, Tokens!TokensAssumption, Tokens!TypeOK
  <2>4. /\ task[q] \in Asked /\ \A p \in Tasks : p # q => task'[p] = task[p]
        /\ task' \in [Tasks -> {"idle", "locking", "asking", "answered", "refused"}]
    BY <1>5 DEF Tokens!Rotate
  <2>5. Tokens!TypeOK'
    BY <2>2, <2>3, <2>4
  <2>6. task'[q] = "answered" => token.turn < MaxTurns
    BY <1>5, <2>2 DEF Tokens!Rotate, Tokens!Presented, Tokens!Asks
  <2>7. LoginsInv'
    BY ONLY <2>2, <2>3, <2>4, <2>6, LoginsInv DEF LoginsInv
  <2> QED
    BY <2>5, <2>7
<1>6. ASSUME NEW q \in Tasks, Tokens!Store(q) PROVE Tokens!TypeOK' /\ LoginsInv'
  <2>1. file' \in Tokens!Credentials /\ file'.login \in 1 .. Len(valid)
    BY <1>6 DEF Tokens!Store
  <2>2. Tokens!Done(q) /\ UNCHANGED <<valid, late, session, cut>>
    BY <1>6 DEF Tokens!Store
  <2> QED
    BY ONLY <2>1, <2>2, TokensDone, Tokens!TokensAssumption, Tokens!TypeOK, LoginsInv
    DEF Tokens!TypeOK
<1>7. ASSUME NEW q \in Tasks, Tokens!Fail(q) PROVE Tokens!TypeOK' /\ LoginsInv'
  <2>1. Tokens!Done(q) /\ UNCHANGED <<file, valid, session>> /\ Tokens!GivenUp(q)
    BY <1>7 DEF Tokens!Fail
  <2> QED
    BY ONLY <2>1, TokensDone, Tokens!TokensAssumption, Tokens!TypeOK, LoginsInv
    DEF Tokens!TypeOK, LoginsInv
<1>8. ASSUME NEW q \in Tasks, Tokens!Crash(q) PROVE Tokens!TypeOK' /\ LoginsInv'
  <2>1. /\ late' \subseteq Tokens!Credentials /\ cut' \in BOOLEAN
        /\ \A token \in late' : token.login \in 1 .. Len(valid)
    <3>1. Tokens!GivenUp(q)
      BY <1>8 DEF Tokens!Crash
    <3> QED BY ONLY <3>1, TokensGivenUp, Tokens!TypeOK, LoginsInv
  <2> QED BY <1>8, <2>1 DEF Tokens!Crash
<1>9. ASSUME NEW q \in Tasks, Tokens!Compromise(q) PROVE Tokens!TypeOK' /\ LoginsInv'
  BY <1>9 DEF Tokens!Compromise
<1>10. CASE Tokens!Expire
  <2>1. file.fresh /\ file' = [file EXCEPT !.fresh = FALSE]
        /\ UNCHANGED <<holder, task, stored, current, valid, late, session, cut>>
    BY <1>10 DEF Tokens!Expire
  <2>2. file # Tokens!Nothing
    BY <2>1
  <2>3. file' \in Tokens!Credentials /\ file'.login = file.login
    BY <2>1
  <2> QED
    BY <2>1, <2>2, <2>3
<1>11. CASE Tokens!Stale
  BY <1>11 DEF Tokens!Stale
<1>12. CASE UNCHANGED Tokens!vars
  BY <1>12 DEF Tokens!vars
<1>13. CASE Tokens!RotateLate
  <2>1. PICK token \in late : Tokens!Asks(token) /\ late' = late \ {token}
    BY <1>13 DEF Tokens!RotateLate
  <2>2. token \in Tokens!Credentials /\ token.login \in 1 .. Len(valid)
    OBVIOUS
  <2>3. valid' \in Seq(0 .. MaxTurns) /\ Len(valid') = Len(valid)
    BY ONLY <2>1, <2>2, TokensAsked, Tokens!TokensAssumption, Tokens!TypeOK
  <2>4. UNCHANGED <<file, holder, task, stored, current, session, cut>>
    BY <1>13 DEF Tokens!RotateLate
  <2>5. Tokens!TypeOK'
    BY <2>1, <2>3, <2>4
  <2>6. LoginsInv'
    BY ONLY <2>1, <2>3, <2>4, LoginsInv DEF LoginsInv
  <2> QED
    BY <2>5, <2>6
<1> QED
  BY <1>1, <1>2, <1>3, <1>4, <1>5, <1>6, <1>7, <1>8, <1>9, <1>10, <1>11, <1>12, <1>13
  DEF Tokens!Next, Tokens!TaskStep

\* The invariant holds at the start, logged out and with nobody at the provider.
LEMMA TokensStart ==
    ASSUME Tokens!TokensAssumption, Tokens!Init PROVE TokensInv
<1>1. Tokens!Nothing \in Tokens!Credentials
  BY DEF Tokens!TokensAssumption, Tokens!Nothing, Tokens!Credential, Tokens!Credentials
<1>2. valid \in Seq(0 .. MaxTurns) /\ Len(valid) = 0
  BY DEF Tokens!Init
<1>3. Tokens!TypeOK
  <2>1. file \in Tokens!Credentials /\ holder \in Tasks \cup {Tokens!Nobody, Tokens!Dead}
    BY <1>1 DEF Tokens!Init
  <2>2. stored \in [Tasks -> Tokens!Credentials] /\ current \in [Tasks -> Tokens!Credentials]
    BY <1>1 DEF Tokens!Init
  <2>3. task \in [Tasks -> {"idle", "locking", "asking", "answered", "refused"}]
    BY DEF Tokens!Init
  <2>4. session \in 0 .. Len(valid) /\ Len(valid) <= MaxLogins
    BY <1>2 DEF Tokens!Init, Tokens!TokensAssumption
  <2>5. cut \in BOOLEAN /\ late \subseteq Tokens!Credentials
    BY DEF Tokens!Init
  <2> QED
    BY <1>2, <2>1, <2>2, <2>3, <2>4, <2>5 DEF Tokens!TypeOK
<1>4. LoginsInv /\ HolderInv /\ StoredInv
  BY DEF Tokens!Init, LoginsInv, HolderInv, StoredInv, Asked
<1> QED
  BY <1>3, <1>4 DEF TokensInv

\* Whoever is at the provider holds the lock and the stored token, so what the
\* provider rotates is what is written.
LEMMA TokensHolder ==
    ASSUME Tokens!TokensAssumption, TokensInv, Tokens!TypeOK', LoginsInv',
           [Tokens!Next]_(Tokens!vars), ~cut'
    PROVE  HolderInv' /\ StoredInv'
<1> USE DEF Tokens!TokensAssumption, TokensInv, Asked, Tokens!Goto, Tokens!Release, Tokens!Done
<1>0. ~cut /\ HolderInv /\ StoredInv
  <2>1. cut => cut'
    BY DEF Tokens!Next, Tokens!TaskStep, Tokens!Login, Tokens!Logout, Tokens!Expire,
           Tokens!Read, Tokens!Lock, Tokens!Rotate, Tokens!Store, Tokens!Fail, Tokens!Crash,
           Tokens!Compromise, Tokens!Stale, Tokens!vars, Tokens!RotateLate, Tokens!GivenUp
  <2> QED
    BY <2>1
<1>1. ASSUME NEW q \in Tasks, Tokens!Login(q) PROVE HolderInv' /\ StoredInv'
  <2>1. \A p \in Tasks : task[p] \notin Asked
    BY <1>0, <1>1 DEF Tokens!Login, HolderInv, Tokens!Nobody
  <2>2. session' = Len(valid) + 1 /\ valid'[session'] = 1
    BY <1>1 DEF Tokens!Login, Tokens!TypeOK
  <2>3. file' # Tokens!Nothing /\ file'.login = session' /\ file'.turn = 1 /\ session' # 0
    BY <1>1, <2>2 DEF Tokens!Login, Tokens!Credential, Tokens!Nothing, Tokens!TypeOK
  <2> QED
    BY <1>1, <2>1, <2>2, <2>3 DEF Tokens!Login, HolderInv, StoredInv
<1>2. ASSUME NEW q \in Tasks, Tokens!Logout(q) PROVE HolderInv' /\ StoredInv'
  <2>1. \A p \in Tasks : task[p] \notin Asked
    BY <1>0, <1>2 DEF Tokens!Logout, HolderInv, Tokens!Nobody
  <2> QED
    BY <1>2, <2>1 DEF Tokens!Logout, HolderInv, StoredInv
<1>3. ASSUME NEW q \in Tasks, Tokens!Read(q) PROVE HolderInv' /\ StoredInv'
  BY <1>0, <1>3 DEF Tokens!Read, HolderInv, StoredInv, Tokens!TypeOK
<1>4. ASSUME NEW q \in Tasks, Tokens!Lock(q) PROVE HolderInv' /\ StoredInv'
  <2>1. \A p \in Tasks : task[p] \notin Asked
    BY <1>0, <1>4 DEF Tokens!Lock, HolderInv, Tokens!Nobody
  <2>2. CASE file = Tokens!Nothing \/ file.fresh
    <3>1. Tokens!Done(q) /\ UNCHANGED <<file, valid, late, session>>
      BY <1>4, <2>2 DEF Tokens!Lock
    <3> QED
      BY <1>0, <2>1, <3>1 DEF HolderInv, StoredInv, Tokens!TypeOK
  <2>3. CASE ~(file = Tokens!Nothing \/ file.fresh)
    <3>1. /\ task' = [task EXCEPT ![q] = "asking"] /\ holder' = q
          /\ current' = [current EXCEPT ![q] = file]
          /\ UNCHANGED <<file, valid, late, session>>
      BY <1>4, <2>3 DEF Tokens!Lock
    <3> QED
      BY <1>0, <2>1, <2>3, <3>1 DEF HolderInv, StoredInv, Tokens!TypeOK
  <2> QED
    BY <2>2, <2>3
<1>5. ASSUME NEW q \in Tasks, Tokens!Rotate(q) PROVE HolderInv' /\ StoredInv'
  <2>1. holder = q /\ current[q] = file /\ file # Tokens!Nothing /\ ~file.fresh
    BY <1>0, <1>5 DEF Tokens!Rotate, HolderInv
  <2>2. \A p \in Tasks : p # q => task[p] \notin Asked
    BY <1>0, <2>1 DEF HolderInv
  <2>3. session # 0 /\ file.login = session /\ valid[session] = file.turn
    <3>1. task[q] # "answered"
      BY <1>5 DEF Tokens!Rotate
    <3> QED
      BY <1>0, <2>1, <2>2, <3>1 DEF StoredInv
  <2>4. valid' = [valid EXCEPT ![session] = file.turn + 1] /\ Tokens!Goto(q, "answered")
    BY <1>5, <2>1, <2>3 DEF Tokens!Rotate, Tokens!Presented, Tokens!Asks, Tokens!Accepts
  <2>5. session \in 1 .. Len(valid)
    BY <2>3 DEF Tokens!TypeOK
  <2>6. valid'[session] = file.turn + 1
    BY <2>4, <2>5 DEF Tokens!TypeOK
  <2>7. UNCHANGED <<file, holder, current, late, session>>
    BY <1>5 DEF Tokens!Rotate
  <2>8. task' = [task EXCEPT ![q] = "answered"]
    BY <2>4
  <2>9. HolderInv'
    BY <1>0, <2>1, <2>2, <2>7, <2>8 DEF HolderInv, Tokens!TypeOK
  <2>10. StoredInv'
    <3>1. task'[q] = "answered"
      BY <2>8 DEF Tokens!TypeOK
    <3> QED BY ONLY <2>1, <2>3, <2>6, <2>7, <3>1 DEF StoredInv
  <2> QED
    BY <2>9, <2>10
<1>6. ASSUME NEW q \in Tasks, Tokens!Store(q) PROVE HolderInv' /\ StoredInv'
  <2>1. /\ holder = q /\ current[q] = file /\ task[q] = "answered"
        /\ file # Tokens!Nothing /\ ~file.fresh
    BY <1>0, <1>6 DEF Tokens!Store, HolderInv
  <2>2. \A p \in Tasks : p # q => task[p] \notin Asked
    BY <1>0, <2>1 DEF HolderInv
  <2>3. session # 0 /\ file.login = session /\ valid[session] = file.turn + 1
    BY <1>0, <2>1 DEF StoredInv
  <2>4. file'.login = file.login /\ file'.turn = file.turn + 1 /\ file'.fresh
    BY <1>6, <2>1 DEF Tokens!Store, Tokens!Credential
  <2>5. file' # Tokens!Nothing
    BY <2>4 DEF Tokens!Nothing, Tokens!Credential
  <2> QED
    BY <1>6, <2>2, <2>3, <2>4, <2>5 DEF Tokens!Store, HolderInv, StoredInv, Tokens!TypeOK
<1>7. ASSUME NEW q \in Tasks, Tokens!Fail(q) PROVE HolderInv' /\ StoredInv'
  <2>1. task[q] # "answered" /\ Tokens!Done(q) /\ UNCHANGED <<file, valid, late, session>>
    BY <1>7 DEF Tokens!Fail, Tokens!GivenUp
  <2> QED
    BY <1>0, <2>1 DEF HolderInv, StoredInv, Tokens!TypeOK
<1>8. ASSUME NEW q \in Tasks, Tokens!Crash(q) PROVE HolderInv' /\ StoredInv'
  <2>1. task[q] # "answered" /\ UNCHANGED late
    BY <1>8 DEF Tokens!Crash, Tokens!GivenUp
  <2> QED
    BY <1>0, <1>8, <2>1 DEF Tokens!Crash, HolderInv, StoredInv, Tokens!TypeOK
<1>9. ASSUME NEW q \in Tasks, Tokens!Compromise(q) PROVE HolderInv' /\ StoredInv'
  BY <1>9 DEF Tokens!Compromise
<1>10. CASE Tokens!Expire
  <2>1. file.fresh /\ file' = [file EXCEPT !.fresh = FALSE]
        /\ UNCHANGED <<holder, task, current, valid, late, session>>
    BY <1>10 DEF Tokens!Expire
  <2>2. file # Tokens!Nothing
    BY <2>1 DEF Tokens!Nothing, Tokens!Credential
  <2>3. file'.login = file.login /\ file'.turn = file.turn
    BY <2>1 DEF Tokens!TypeOK, Tokens!Credentials
  <2>4. \A p \in Tasks : task[p] \notin Asked
    BY <1>0, <2>1 DEF HolderInv
  <2>5. session # 0 /\ file.login = session /\ session \in 1 .. Len(valid)
    BY <1>0, <2>2 DEF StoredInv, Tokens!TypeOK
  <2>6. file' # Tokens!Nothing
    BY <2>3, <2>5 DEF Tokens!Nothing, Tokens!Credential
  <2> QED
    BY <1>0, <2>1, <2>2, <2>3, <2>4, <2>6 DEF HolderInv, StoredInv
<1>11. CASE Tokens!Stale
  BY <1>0, <1>11 DEF Tokens!Stale, HolderInv, StoredInv, Tokens!Dead
<1>12. CASE UNCHANGED Tokens!vars
  BY <1>0, <1>12 DEF Tokens!vars, HolderInv, StoredInv
<1>13. CASE Tokens!RotateLate
  BY <1>0, <1>13 DEF Tokens!RotateLate, HolderInv
<1> QED
  BY <1>1, <1>2, <1>3, <1>4, <1>5, <1>6, <1>7, <1>8, <1>9, <1>10, <1>11, <1>12, <1>13
  DEF Tokens!Next, Tokens!TaskStep

\* What the composition does is what the refresh may do.
LEMMA TokensBehave ==
    ASSUME [Next]_vars
    PROVE  [Tokens!Next]_(Tokens!vars)
<1>1. TokensNext => Tokens!Next
  BY DEF TokensNext, Tokens!Next, Tokens!TaskStep
<1>2. OnlyLive \/ OnlyLeases \/ OnlyStore \/ OnlyRepair \/ OnlySnapshots \/ OnlyWriters
        => UNCHANGED tokensVars
  BY DEF OnlyLive, OnlyLeases, OnlyStore, OnlyRepair, OnlySnapshots, OnlyWriters
<1>3. UNCHANGED vars => UNCHANGED tokensVars
  BY DEF vars
<1>4. UNCHANGED tokensVars => UNCHANGED Tokens!vars
  BY DEF tokensVars, Tokens!vars
<1> QED BY <1>1, <1>2, <1>3, <1>4, OnePartRuns

\* Every behaviour keeps it.
LEMMA TokensInvariant == Spec => []TokensInv
<1>1. Init => TokensInv
  BY TokensStart, PartsAssumption DEF Init
<1>2. TokensInv /\ [Next]_vars => TokensInv'
  <2> SUFFICES ASSUME TokensInv, [Next]_vars PROVE TokensInv'
    OBVIOUS
  <2>1. [Tokens!Next]_(Tokens!vars) /\ Tokens!TokensAssumption
    BY TokensBehave, PartsAssumption
  <2>2. Tokens!TypeOK' /\ LoginsInv'
    BY <2>1, TokensTypes DEF TokensInv
  <2>3. ~cut' => HolderInv' /\ StoredInv'
    BY <2>1, <2>2, TokensHolder
  <2> QED BY <2>2, <2>3 DEF TokensInv
<1> QED BY <1>1, <1>2, PTL DEF Spec

\* The refresh under the lock with its second check (resolve.ts:143): while nobody
\* is in it, the stored token is the one the provider accepts, unless a refresh
\* was cut off.
THEOREM StoredTokensValid == Spec => []StoredIsValid
<1>1. TokensInv => StoredIsValid
  <2> SUFFICES ASSUME TokensInv PROVE Tokens!StoredIsValid
    BY DEF StoredIsValid
  <2> SUFFICES ASSUME holder = Tokens!Nobody, ~cut, session # 0
               PROVE  file.login = session /\ file.turn = valid[session]
    BY DEF TokensInv, Tokens!StoredIsValid, StoredInv
  <2>1. \A q \in Tasks : task[q] # "answered"
    BY PartsAssumption
    DEF Tokens!TokensAssumption, TokensInv, HolderInv, Asked, Tokens!Nobody
  <2> QED
    BY <2>1 DEF TokensInv, StoredInv
<1> QED
  BY <1>1, TokensInvariant, PTL

-----------------------------------------------------------------------------
(* Session leases of the client. *)

\* Both instances of the module say the same, expanded to the last definition.
LEMMA SameLeases ==
    /\ Leases!Init => HoldProofs!Init
    /\ Leases!Next => HoldProofs!Next
    /\ UNCHANGED leasesVars => UNCHANGED HoldProofs!vars
    /\ Leases!LeasesAssumption => HoldProofs!LeasesAssumption
    /\ HoldProofs!LeaseHolds => Leases!LeaseHolds
    /\ HoldProofs!ExclusiveAlone => Leases!ExclusiveAlone
    /\ HoldProofs!NoneLeftAttached => Leases!NoneLeftAttached
BY DEF leasesVars,
       Leases!Init, HoldProofs!Init, Leases!Next, HoldProofs!Next, Leases!vars,
       HoldProofs!vars, Leases!LeasesAssumption, HoldProofs!LeasesAssumption,
       Leases!IsFiniteSet, HoldProofs!IsFiniteSet, Leases!LeaseHolds,
       HoldProofs!LeaseHolds, Leases!ExclusiveAlone, HoldProofs!ExclusiveAlone,
       Leases!NoneLeftAttached, HoldProofs!NoneLeftAttached, Leases!clientVars,
       HoldProofs!clientVars, Leases!userVars, HoldProofs!userVars,
       Leases!serverVars, HoldProofs!serverVars, Leases!Kinds, HoldProofs!Kinds,
       Leases!Waits, HoldProofs!Waits, Leases!Waiting, HoldProofs!Waiting,
       Leases!NoSnapshot, HoldProofs!NoSnapshot, Leases!Quiet, HoldProofs!Quiet,
       Leases!Request, HoldProofs!Request, Leases!JoinRequest,
       HoldProofs!JoinRequest, Leases!ReleaseSessionLease,
       HoldProofs!ReleaseSessionLease, Leases!MayReserve, HoldProofs!MayReserve,
       Leases!Resumed, HoldProofs!Resumed, Leases!CreateLease,
       HoldProofs!CreateLease, Leases!Attach, HoldProofs!Attach,
       Leases!AttachOrLease, HoldProofs!AttachOrLease, Leases!Proceed,
       HoldProofs!Proceed, Leases!Acquire, HoldProofs!Acquire,
       Leases!AfterDetachment, HoldProofs!AfterDetachment,
       Leases!AfterReconciliation, HoldProofs!AfterReconciliation,
       Leases!RestoreSnapshot, HoldProofs!RestoreSnapshot,
       Leases!AfterAttachment, HoldProofs!AfterAttachment, Leases!Invalidated,
       HoldProofs!Invalidated, Leases!IsActive, HoldProofs!IsActive,
       Leases!Release, HoldProofs!Release, Leases!Relinquish,
       HoldProofs!Relinquish, Leases!Released, HoldProofs!Released,
       Leases!Connect, HoldProofs!Connect, Leases!Invalidate,
       HoldProofs!Invalidate, Leases!Disconnect, HoldProofs!Disconnect,
       Leases!ApplySnapshot, HoldProofs!ApplySnapshot, Leases!Receive,
       HoldProofs!Receive, Leases!Removed, HoldProofs!Removed, Leases!Serve,
       HoldProofs!Serve, Leases!Update, HoldProofs!Update, Leases!Continue,
       HoldProofs!Continue

\* What the composition does is what the component may do.
LEMMA LeasesBehave == Spec => HoldProofs!Spec
<1>1. Init => HoldProofs!Init
  BY SameLeases DEF Init
<1>2. [Next]_vars => [HoldProofs!Next]_(HoldProofs!vars)
  <2>1. LeasesNext => Leases!Next
    BY DEF LeasesNext, Leases!Next, Leases!Continue
  <2>2. OnlyLive \/ OnlyStore \/ OnlyRepair \/ OnlySnapshots \/ OnlyWriters \/ OnlyTokens
          => UNCHANGED leasesVars
    BY DEF OnlyLive, OnlyStore, OnlyRepair, OnlySnapshots, OnlyWriters, OnlyTokens
  <2>3. UNCHANGED vars => UNCHANGED leasesVars
    BY DEF vars
  <2> QED BY <2>1, <2>2, <2>3, OnePartRuns, SameLeases
<1> QED
  BY <1>1, <1>2, PTL DEF Spec, HoldProofs!Spec

\* A lease that still counts is attached on both sides (client.ts).
THEOREM LeasesHold == Spec => []LeaseHolds
<1>1. HoldProofs!Spec => []HoldProofs!LeaseHolds
  BY HoldProofs!LeasesHold, SameLeases, PartsAssumption
<1>2. HoldProofs!LeaseHolds => LeaseHolds
  BY SameLeases DEF LeaseHolds
<1> QED
  BY <1>1, <1>2, LeasesBehave, PTL

\* An exclusive lease is alone (client.ts, #reserveSessionLease).
THEOREM ExclusiveIsAlone == Spec => []ExclusiveAlone
<1>1. HoldProofs!Spec => []HoldProofs!ExclusiveAlone
  BY HoldProofs!ExclusiveIsAlone, SameLeases, PartsAssumption
<1>2. HoldProofs!ExclusiveAlone => ExclusiveAlone
  BY SameLeases DEF ExclusiveAlone
<1> QED
  BY <1>1, <1>2, LeasesBehave, PTL

\* No attachment is forgotten (client.ts, acquireSession).
THEOREM NoneForgotten == Spec => []NoneLeftAttached
<1>1. HoldProofs!Spec => []HoldProofs!NoneLeftAttached
  BY HoldProofs!NoneForgotten, SameLeases, PartsAssumption
<1>2. HoldProofs!NoneLeftAttached => NoneLeftAttached
  BY SameLeases DEF NoneLeftAttached
<1> QED
  BY <1>1, <1>2, LeasesBehave, PTL

-----------------------------------------------------------------------------
(* The snapshot publisher. *)

\* Every step keeps the types.
LEMMA SnapshotTypesStep ==
    ASSUME MaxVersion \in Nat, Snapshots!TypeOK, [Snapshots!Next]_(Snapshots!vars)
    PROVE  Snapshots!TypeOK'
<1> USE DEF Snapshots!TypeOK, Snapshots!Snapshot, Snapshots!SnapshotType, Snapshots!Stages,
   Snapshots!Handshaking, Snapshots!Ready, Snapshots!Go
<1>1. CASE Snapshots!Change
  BY <1>1 DEF Snapshots!Change
<1>2. CASE Snapshots!PerformBroadcast
  <2>1. CASE Snapshots!ReadyConnections = {}
    <3>1. missed' \in [Clients -> BOOLEAN]
      BY <1>2, <2>1 DEF Snapshots!PerformBroadcast
    <3> QED BY <1>2, <2>1, <3>1 DEF Snapshots!PerformBroadcast
  <2>2. CASE Snapshots!ReadyConnections # {}
    BY <1>2, <2>2 DEF Snapshots!PerformBroadcast, Snapshots!ReadyConnections
  <2> QED BY <2>1, <2>2
<1>3. CASE Snapshots!ListForBroadcast
  BY <1>3 DEF Snapshots!ListForBroadcast
<1>4. ASSUME NEW c \in Clients, Snapshots!SendBroadcast(c) PROVE Snapshots!TypeOK'
  BY <1>4 DEF Snapshots!SendBroadcast, Snapshots!Apply
<1>5. CASE Snapshots!EndBroadcast
  BY <1>5 DEF Snapshots!EndBroadcast
<1>6. ASSUME NEW c \in Clients, Snapshots!Hello(c) PROVE Snapshots!TypeOK'
  BY <1>6 DEF Snapshots!Hello
<1>7. ASSUME NEW c \in Clients, Snapshots!Listed(c) PROVE Snapshots!TypeOK'
  BY <1>7 DEF Snapshots!Listed, Snapshots!List
<1>8. ASSUME NEW c \in Clients, Snapshots!Greeted(c) PROVE Snapshots!TypeOK'
  <2>1. CASE got[c].revision # currentRevision
    <3>1. got' = [got EXCEPT ![c].revision = currentRevision]
      BY <1>8, <2>1 DEF Snapshots!Greeted
    <3>2. got' \in [Clients -> Snapshots!SnapshotType]
      BY <3>1
    <3> QED BY <1>8, <2>1, <3>2 DEF Snapshots!Greeted
  <2>2. CASE got[c].revision = currentRevision
    BY <1>8, <2>2 DEF Snapshots!Greeted
  <2> QED BY <2>1, <2>2
<1>9. ASSUME NEW c \in Clients, Snapshots!ListedAgain(c) PROVE Snapshots!TypeOK'
  BY <1>9 DEF Snapshots!ListedAgain, Snapshots!List
<1>10. ASSUME NEW c \in Clients, Snapshots!CaughtUp(c) PROVE Snapshots!TypeOK'
  BY <1>10 DEF Snapshots!CaughtUp, Snapshots!Apply
<1>11. ASSUME NEW c \in Clients, Snapshots!Disconnect(c) PROVE Snapshots!TypeOK'
  BY <1>11 DEF Snapshots!Disconnect
<1>12. CASE UNCHANGED Snapshots!vars
  BY <1>12 DEF Snapshots!vars
<1> QED
  BY <1>1, <1>2, <1>3, <1>4, <1>5, <1>6, <1>7, <1>8, <1>9, <1>10, <1>11, <1>12
  DEF Snapshots!Next, Snapshots!Publish, Snapshots!Handshake

\* A snapshot of the current list, or a later one, is still to reach the client.
OnItsWay(c) ==
    \/ broadcasts > 0
    \/ publishing # "no" /\ c \in recipients

\* Revisions are taken from one counter, a list that has changed since it was
\* taken is followed by a broadcast, and a broadcast goes to connections that were
\* ready when it took its revision.
RevisionInv ==
    /\ publishing = "sending" => envelope.revision = currentRevision
    /\ publishing = "sending" => broadcasts > 0 \/ envelope.version = version
    /\ \A c \in Clients :
        /\ got[c].revision <= currentRevision /\ shown[c].revision <= currentRevision
        /\ c \in recipients => stage[c] \in Snapshots!Ready \cup {"closed", "left"}
        /\ c \in recipients /\ stage[c] \in {"catching", "caught"} =>
              got[c].revision < currentRevision

\* What each await of the handshake still has to make good.
HandshakeInv(c) ==
    /\ stage[c] = "sending" =>
          \/ missed[c] \/ got[c].revision < currentRevision
          \/ broadcasts > 0 \/ got[c].version = version
    /\ stage[c] \in {"catching", "caught"} /\ shown[c].revision > got[c].revision =>
          OnItsWay(c) \/ shown[c].version = version
    /\ stage[c] = "caught" /\ shown[c].revision <= got[c].revision =>
          OnItsWay(c) \/ got[c].version = version
    /\ stage[c] = "ready" =>
          missed[c] \/ OnItsWay(c) \/ shown[c].version = version

SnapshotsInv == Snapshots!TypeOK /\ RevisionInv /\ \A c \in Clients : HandshakeInv(c)

\* Every step keeps the counter ahead of the snapshots.
LEMMA RevisionStep ==
    ASSUME MaxVersion \in Nat, Snapshots!TypeOK, Snapshots!TypeOK', RevisionInv,
           [Snapshots!Next]_(Snapshots!vars)
    PROVE  RevisionInv'
<1> USE DEF Snapshots!TypeOK, RevisionInv, Snapshots!Snapshot, Snapshots!SnapshotType,
   Snapshots!Stages, Snapshots!Handshaking, Snapshots!Ready, Snapshots!Go
<1>1. CASE Snapshots!Change
  BY <1>1 DEF Snapshots!Change
<1>2. CASE Snapshots!PerformBroadcast
  <2>1. CASE Snapshots!ReadyConnections = {}
    BY <1>2, <2>1 DEF Snapshots!PerformBroadcast
  <2>2. CASE Snapshots!ReadyConnections # {}
    BY <1>2, <2>2 DEF Snapshots!PerformBroadcast, Snapshots!ReadyConnections
  <2> QED BY <2>1, <2>2
<1>3. CASE Snapshots!ListForBroadcast
  BY <1>3 DEF Snapshots!ListForBroadcast
<1>4. ASSUME NEW c \in Clients, Snapshots!SendBroadcast(c) PROVE RevisionInv'
  BY <1>4 DEF Snapshots!SendBroadcast, Snapshots!Apply
<1>5. CASE Snapshots!EndBroadcast
  BY <1>5 DEF Snapshots!EndBroadcast
<1>6. ASSUME NEW c \in Clients, Snapshots!Hello(c) PROVE RevisionInv'
  BY <1>6 DEF Snapshots!Hello
<1>7. ASSUME NEW c \in Clients, Snapshots!Listed(c) PROVE RevisionInv'
  BY <1>7 DEF Snapshots!Listed, Snapshots!List
<1>8. ASSUME NEW c \in Clients, Snapshots!Greeted(c) PROVE RevisionInv'
  <2>1. CASE got[c].revision # currentRevision
    BY <1>8, <2>1 DEF Snapshots!Greeted
  <2>2. CASE got[c].revision = currentRevision
    BY <1>8, <2>2 DEF Snapshots!Greeted
  <2> QED BY <2>1, <2>2
<1>9. ASSUME NEW c \in Clients, Snapshots!ListedAgain(c) PROVE RevisionInv'
  BY <1>9 DEF Snapshots!ListedAgain, Snapshots!List
<1>10. ASSUME NEW c \in Clients, Snapshots!CaughtUp(c) PROVE RevisionInv'
  BY <1>10 DEF Snapshots!CaughtUp, Snapshots!Apply
<1>11. ASSUME NEW c \in Clients, Snapshots!Disconnect(c) PROVE RevisionInv'
  BY <1>11 DEF Snapshots!Disconnect
<1>12. CASE UNCHANGED Snapshots!vars
  BY <1>12 DEF Snapshots!vars
<1> QED
  BY <1>1, <1>2, <1>3, <1>4, <1>5, <1>6, <1>7, <1>8, <1>9, <1>10, <1>11, <1>12
  DEF Snapshots!Next, Snapshots!Publish, Snapshots!Handshake

\* Every step leaves each client with the current list, or with a snapshot on its
\* way that will bring it (snapshots.ts:50-60, server.ts:229-249).
LEMMA HandshakeStep ==
    ASSUME MaxVersion \in Nat, SnapshotsInv, Snapshots!TypeOK', RevisionInv',
           [Snapshots!Next]_(Snapshots!vars), NEW d \in Clients
    PROVE  HandshakeInv(d)'
<1> USE DEF SnapshotsInv, Snapshots!TypeOK, RevisionInv, HandshakeInv, OnItsWay,
            Snapshots!Snapshot, Snapshots!SnapshotType, Snapshots!Stages,
            Snapshots!Handshaking, Snapshots!Ready, Snapshots!Go
<1>0. HandshakeInv(d)
  OBVIOUS
<1>1. CASE Snapshots!Change
  BY <1>1 DEF Snapshots!Change
<1>2. CASE Snapshots!PerformBroadcast
  <2>1. CASE Snapshots!ReadyConnections = {}
    <3>1. stage[d] \notin Snapshots!Ready
      BY <2>1 DEF Snapshots!ReadyConnections
    <3>2. missed' = [c \in Clients |-> missed[c] \/ stage[c] \in Snapshots!Handshaking]
      BY <1>2, <2>1 DEF Snapshots!PerformBroadcast
    <3>3. stage[d] = "sending" => missed'[d]
      BY <3>2
    <3>4. stage[d] \in {"awaitingHello", "closed", "left", "getting", "sending"}
      BY <3>1
    <3>5. UNCHANGED stage
      BY <1>2 DEF Snapshots!PerformBroadcast
    <3> QED BY <3>3, <3>4, <3>5
  <2>2. CASE Snapshots!ReadyConnections # {}
    BY <1>0, <1>2, <2>2 DEF Snapshots!PerformBroadcast, Snapshots!ReadyConnections
  <2> QED BY <2>1, <2>2
<1>3. CASE Snapshots!ListForBroadcast
  BY <1>0, <1>3 DEF Snapshots!ListForBroadcast
<1>4. ASSUME NEW c \in Clients, Snapshots!SendBroadcast(c) PROVE HandshakeInv(d)'
  <2>1. /\ publishing = "sending" /\ c \in recipients /\ recipients' = recipients \ {c}
        /\ UNCHANGED <<version, broadcasts, publishing, envelope, stage, got, missed>>
        /\ UNCHANGED currentRevision
    BY <1>4 DEF Snapshots!SendBroadcast
  <2>2. CASE c # d
    <3>1. shown'[d] = shown[d]
      BY <1>4, <2>2 DEF Snapshots!SendBroadcast, Snapshots!Apply
    <3> QED BY <1>0, <2>1, <2>2, <3>1
  <2>3. CASE c = d /\ stage[d] \notin Snapshots!Ready
    BY <1>0, <2>1, <2>3
  <2>4. CASE c = d /\ stage[d] \in Snapshots!Ready
    \* Nothing the client has is newer than a broadcast that was not sent yet.
    <3>1. ~(envelope.revision < shown[d].revision)
      BY <2>1
    <3>2. shown'[d] = envelope
      BY <1>4, <2>4, <3>1 DEF Snapshots!SendBroadcast, Snapshots!Apply
    <3>3. envelope.revision = currentRevision
      BY <2>1
    <3>4. stage[d] \in {"catching", "caught"} => got[d].revision < shown'[d].revision
      BY <2>1, <2>4, <3>2, <3>3
    <3>5. broadcasts > 0 \/ shown'[d].version = version
      BY <2>1, <3>2
    <3> QED BY <2>1, <2>4, <3>4, <3>5
  <2> QED BY <2>2, <2>3, <2>4
<1>5. CASE Snapshots!EndBroadcast
  BY <1>0, <1>5 DEF Snapshots!EndBroadcast
<1>6. ASSUME NEW c \in Clients, Snapshots!Hello(c) PROVE HandshakeInv(d)'
  BY <1>0, <1>6 DEF Snapshots!Hello
<1>7. ASSUME NEW c \in Clients, Snapshots!Listed(c) PROVE HandshakeInv(d)'
  BY <1>0, <1>7 DEF Snapshots!Listed, Snapshots!List
<1>8. ASSUME NEW c \in Clients, Snapshots!Greeted(c) PROVE HandshakeInv(d)'
  <2>1. CASE got[c].revision # currentRevision
    BY <1>0, <1>8, <2>1 DEF Snapshots!Greeted
  <2>2. CASE got[c].revision = currentRevision
    BY <1>0, <1>8, <2>2 DEF Snapshots!Greeted
  <2> QED BY <2>1, <2>2
<1>9. ASSUME NEW c \in Clients, Snapshots!ListedAgain(c) PROVE HandshakeInv(d)'
  BY <1>0, <1>9 DEF Snapshots!ListedAgain, Snapshots!List
<1>10. ASSUME NEW c \in Clients, Snapshots!CaughtUp(c) PROVE HandshakeInv(d)'
  BY <1>0, <1>10 DEF Snapshots!CaughtUp, Snapshots!Apply
<1>11. ASSUME NEW c \in Clients, Snapshots!Disconnect(c) PROVE HandshakeInv(d)'
  BY <1>0, <1>11 DEF Snapshots!Disconnect
<1>12. CASE UNCHANGED Snapshots!vars
  BY <1>0, <1>12 DEF Snapshots!vars
<1> QED
  BY <1>1, <1>2, <1>3, <1>4, <1>5, <1>6, <1>7, <1>8, <1>9, <1>10, <1>11, <1>12
  DEF Snapshots!Next, Snapshots!Publish, Snapshots!Handshake

\* What the composition does is what the publisher may do.
LEMMA SnapshotsBehave ==
    ASSUME [Next]_vars
    PROVE  [Snapshots!Next]_(Snapshots!vars)
<1>1. SnapshotsNext => Snapshots!Next
  BY DEF SnapshotsNext, Snapshots!Next, Snapshots!Publish, Snapshots!Handshake
<1>2. OnlyLive \/ OnlyLeases \/ OnlyStore \/ OnlyRepair \/ OnlyWriters \/ OnlyTokens
        => UNCHANGED snapshotsVars
  BY DEF OnlyLive, OnlyLeases, OnlyStore, OnlyRepair, OnlyWriters, OnlyTokens
<1>3. UNCHANGED vars => UNCHANGED snapshotsVars
  BY DEF vars
<1>4. UNCHANGED snapshotsVars => UNCHANGED Snapshots!vars
  BY DEF snapshotsVars, Snapshots!vars
<1> QED BY <1>1, <1>2, <1>3, <1>4, OnePartRuns

\* Every behaviour keeps the types and what is on its way to each client.
LEMMA SnapshotsInvariant == Spec => []SnapshotsInv
<1>1. Init => SnapshotsInv
  <2> SUFFICES ASSUME Snapshots!Init PROVE SnapshotsInv
    BY DEF Init
  <2>1. Snapshots!TypeOK
    BY PartsAssumption DEF Snapshots!Init, Snapshots!TypeOK, Snapshots!Snapshot,
       Snapshots!SnapshotType, Snapshots!Stages
  <2>2. RevisionInv /\ \A c \in Clients : HandshakeInv(c)
    BY DEF Snapshots!Init, RevisionInv, HandshakeInv, OnItsWay, Snapshots!Snapshot,
       Snapshots!Ready
  <2> QED BY <2>1, <2>2 DEF SnapshotsInv
<1>2. SnapshotsInv /\ [Next]_vars => SnapshotsInv'
  <2> SUFFICES ASSUME SnapshotsInv, [Next]_vars PROVE SnapshotsInv'
    OBVIOUS
  <2>1. [Snapshots!Next]_(Snapshots!vars) /\ MaxVersion \in Nat
    BY SnapshotsBehave, PartsAssumption
  <2>2. Snapshots!TypeOK' /\ RevisionInv'
    BY <2>1, SnapshotTypesStep, RevisionStep DEF SnapshotsInv
  <2>3. \A c \in Clients : HandshakeInv(c)'
    BY <2>1, <2>2, HandshakeStep
  <2> QED BY <2>2, <2>3 DEF SnapshotsInv
<1> QED BY <1>1, <1>2, PTL DEF Spec

\* A client that missed no broadcast during its handshake shows the current list
\* when no snapshot is on its way (snapshots.ts, server.ts:229-249).
THEOREM ClientsUpToDate == Spec => []UpToDate
<1>1. SnapshotsInv => UpToDate
  BY DEF SnapshotsInv, Snapshots!TypeOK, HandshakeInv, OnItsWay, Snapshots!UpToDate, UpToDate
<1> QED BY <1>1, SnapshotsInvariant, PTL

-----------------------------------------------------------------------------
(* The session log. *)

\* The first n lines are records with consecutive sequence numbers.
Whole(n) == \A i \in 1 .. n : lines[i] \in [id : Store!Records, seq : {i}]

\* The last line is a part of a record.
Torn == lines # <<>> /\ lines[Len(lines)] = Store!Part /\ ~terminated

\* The lines that reading keeps.
Kept == IF Torn THEN Len(lines) - 1 ELSE Len(lines)

\* The file: only its last line may be torn, and the rest holds what was
\* acknowledged.
FileInv ==
    /\ Whole(Kept)
    /\ \A id \in acknowledged : \E i \in 1 .. Kept : lines[i].id = id

\* The state of a process is what the file holds, but for the record that is being
\* appended.
StateInv ==
    process \in {"up", "loaded"} =>
       /\ Len(state) = IF process = "up" /\ progress \in {"all", "line"}
                        THEN Len(lines) - 1 ELSE Kept
       /\ \A i \in 1 .. Len(state) : state[i] = lines[i].id
       /\ \A id \in acknowledged : \E i \in 1 .. Len(state) : state[i] = id

\* How far an append is, and what the file ends with then.
WritingInv ==
    /\ process # "refused"
    /\ process # "up" => progress = "none" /\ writing = Store!Nothing
    /\ progress # "none" => writing # Store!Nothing
    /\ writing # Store!Nothing => writing.seq = Len(state) + 1
    /\ progress = "part" => Torn
    /\ progress = "all" => ~Torn /\ ~terminated /\ lines # <<>> /\ lines[Len(lines)] = writing
    /\ progress = "line" => terminated /\ lines # <<>> /\ lines[Len(lines)] = writing
    /\ process = "up" /\ progress = "none" => terminated

StoreInv == Store!TypeOK /\ FileInv /\ StateInv /\ WritingInv

\* A record that was written is not a torn line.
LEMMA RecordsParse ==
    ASSUME NEW l, l \in [id : Store!Records, seq : Nat]
    PROVE  /\ l # Store!Part /\ l # Store!Spoilt /\ l # Store!Nothing
           /\ Store!Parses(l) /\ l \in Store!Line
<1>1. l.id # 0
  BY DEF Store!Records
<1> QED BY <1>1 DEF Store!Part, Store!Spoilt, Store!Nothing, Store!Record, Store!Parses,
   Store!Line

\* What the invariant says of the types.
LEMMA StoreTypes ==
    ASSUME Store!TypeOK
    PROVE  /\ Len(lines) \in Nat /\ Len(state) \in Nat
           /\ lines # <<>> => Len(lines) >= 1
           /\ Kept \in 0 .. Len(lines)
           /\ writing # Store!Nothing => writing \in [id : Store!Records, seq : Nat]
BY DEF Store!TypeOK, Kept, Torn

\* The file and the state stay as they are.
LEMMA FileStays ==
    ASSUME StoreInv, UNCHANGED <<lines, terminated, acknowledged>>
    PROVE  FileInv' /\ (Torn' <=> Torn) /\ Kept' = Kept
<1>1. (Torn' <=> Torn) /\ Kept' = Kept
  BY DEF Torn, Kept
<1>2. \A n : Whole(n) => Whole(n)'
  BY DEF Whole
<1>3. FileInv
  BY DEF StoreInv
<1>4. Whole(Kept)'
  BY <1>1, <1>2, <1>3 DEF FileInv
<1> QED BY <1>1, <1>3, <1>4 DEF FileInv

\* An operation waits in the tail.
LEMMA SubmitKeeps == ASSUME StoreInv, MaxRecords \in Nat, Store!Submit PROVE StoreInv'
<1>1. Store!TypeOK /\ StateInv /\ WritingInv
  BY DEF StoreInv
<1>2. FileInv' /\ (Torn' <=> Torn) /\ Kept' = Kept
  BY FileStays DEF Store!Submit
<1>3. Store!TypeOK'
  BY <1>1 DEF Store!TypeOK, Store!Submit, Store!Records
<1>4. StateInv'
  BY <1>1, <1>2 DEF StateInv, Store!Submit
<1>5. WritingInv'
  BY <1>1, <1>2 DEF WritingInv, Store!Submit
<1> QED BY <1>2, <1>3, <1>4, <1>5 DEF StoreInv

\* The next record follows the state's last one.
LEMMA BeginKeeps == ASSUME StoreInv, Store!Begin PROVE StoreInv'
<1>1. Store!TypeOK /\ StateInv /\ WritingInv
  BY DEF StoreInv
<1>2. FileInv' /\ (Torn' <=> Torn) /\ Kept' = Kept
  BY FileStays DEF Store!Begin
<1>3. progress = "none" /\ progress' = "none" /\ process = "up" /\ terminated
  BY <1>1 DEF WritingInv, Store!Begin
<1>4. Head(tail) \in Store!Records /\ Tail(tail) \in Seq(Store!Records) /\ Len(state) + 1 \in Nat
  BY <1>1 DEF Store!TypeOK, Store!Begin
<1>5. writing' \in [id : Store!Records, seq : Nat] /\ writing'.seq = Len(state) + 1
  BY <1>4 DEF Store!Begin, Store!Record
<1>6. Store!TypeOK'
  BY <1>1, <1>4, <1>5 DEF Store!TypeOK, Store!Begin, Store!Progress
<1>7. StateInv'
  BY <1>1, <1>2, <1>3 DEF StateInv, Store!Begin
<1>8. WritingInv'
  BY <1>1, <1>2, <1>3, <1>5 DEF WritingInv, Store!Begin
<1> QED BY <1>2, <1>6, <1>7, <1>8 DEF StoreInv

\* The file gets a torn line.
LEMMA WritePartKeeps == ASSUME StoreInv, Store!WritePart PROVE StoreInv'
<1>1. Store!TypeOK /\ FileInv /\ StateInv /\ WritingInv
  BY DEF StoreInv
<1>2. terminated /\ ~terminated' /\ process = "up" /\ process' = "up"
  BY <1>1 DEF WritingInv, Store!WritePart
<1>3. lines' = Append(lines, Store!Part)
  BY <1>2 DEF Store!WritePart
<1>4. /\ Len(lines) \in Nat /\ Len(lines') = Len(lines) + 1
      /\ lines'[Len(lines')] = Store!Part
      /\ \A i \in 1 .. Len(lines) : lines'[i] = lines[i]
  BY <1>1, <1>3 DEF Store!TypeOK
<1>5. Kept = Len(lines) /\ Torn' /\ Kept' = Len(lines)
  <2>1. Kept = Len(lines)
    BY <1>2 DEF Kept, Torn
  <2>2. lines' # <<>>
    BY <1>3, <1>4
  <2>3. Torn'
    BY <1>2, <1>4, <2>2 DEF Torn
  <2> QED BY <1>4, <2>1, <2>3 DEF Kept
<1>6. Store!TypeOK'
  <2>1. Store!Part \in Store!Line
    BY DEF Store!Line
  <2>2. lines' \in Seq(Store!Line)
    BY <1>1, <1>3, <2>1 DEF Store!TypeOK
  <2> QED BY <1>1, <2>2 DEF Store!TypeOK, Store!WritePart, Store!Progress
<1>7. FileInv'
  <2>1. \A i \in 1 .. Kept' : lines'[i] \in [id : Store!Records, seq : {i}]
    BY <1>1, <1>4, <1>5 DEF FileInv, Whole
  <2>2. \A id \in acknowledged' : \E i \in 1 .. Kept' : lines'[i].id = id
    BY <1>1, <1>4, <1>5 DEF FileInv, Store!WritePart
  <2> QED BY <2>1, <2>2 DEF FileInv, Whole
<1>8. StateInv'
  BY <1>1, <1>2, <1>4, <1>5 DEF StateInv, Store!WritePart
<1>9. WritingInv'
  BY <1>1, <1>2, <1>5 DEF WritingInv, Store!WritePart
<1> QED BY <1>6, <1>7, <1>8, <1>9 DEF StoreInv

\* The torn line becomes the record.
LEMMA WriteRestKeeps == ASSUME StoreInv, Store!WriteRest PROVE StoreInv'
<1>1. Store!TypeOK /\ FileInv /\ StateInv /\ WritingInv
  BY DEF StoreInv
<1>2. /\ Torn /\ process = "up" /\ process' = "up" /\ progress' = "all" /\ ~terminated'
      /\ UNCHANGED <<state, writing, acknowledged>>
  BY <1>1 DEF WritingInv, Store!WriteRest, Torn
<1>3. /\ Len(lines) \in Nat /\ Len(lines) >= 1 /\ Kept = Len(lines) - 1
      /\ Len(state) = Kept
  BY <1>1, <1>2, StoreTypes DEF Torn, Kept, StateInv, Store!WriteRest
<1>4. /\ writing \in [id : Store!Records, seq : Nat] /\ writing.seq = Len(lines)
  BY <1>1, <1>3, StoreTypes DEF WritingInv, Store!WriteRest
<1>5. lines' = Append(SubSeq(lines, 1, Len(lines) - 1), writing)
  BY <1>2 DEF Store!WriteRest, Store!Last, Store!Front, Torn
<1>6. SubSeq(lines, 1, Len(lines) - 1) \in Seq(Store!Line) /\ writing \in Store!Line
  BY <1>1, <1>3, <1>4 DEF Store!TypeOK, Store!Line
<1>7. /\ lines' \in Seq(Store!Line) /\ Len(lines') = Len(lines)
      /\ lines'[Len(lines)] = writing
      /\ \A i \in 1 .. Kept : lines'[i] = lines[i]
  BY <1>1, <1>3, <1>5, <1>6 DEF Store!TypeOK
<1>8. ~Torn' /\ Kept' = Len(lines)
  BY <1>4, <1>7, RecordsParse DEF Torn, Kept
<1>9. Store!TypeOK'
  BY <1>1, <1>7 DEF Store!TypeOK, Store!WriteRest, Store!Progress
<1>10. FileInv'
  <2>1. \A i \in 1 .. Kept' : lines'[i] \in [id : Store!Records, seq : {i}]
    <3> SUFFICES ASSUME NEW i \in 1 .. Kept' PROVE lines'[i] \in [id : Store!Records, seq : {i}]
      OBVIOUS
    <3>1. CASE i = Len(lines)
      BY <1>4, <1>7, <3>1
    <3>2. CASE i # Len(lines)
      BY <1>1, <1>3, <1>7, <1>8, <3>2 DEF FileInv, Whole
    <3> QED BY <3>1, <3>2
  <2>2. \A id \in acknowledged' : \E i \in 1 .. Kept' : lines'[i].id = id
    BY <1>1, <1>2, <1>3, <1>7, <1>8 DEF FileInv
  <2> QED BY <2>1, <2>2 DEF FileInv, Whole
<1>11. StateInv'
  BY <1>1, <1>2, <1>3, <1>7 DEF StateInv, Store!WriteRest
<1>12. WritingInv'
  BY <1>1, <1>2, <1>3, <1>7, <1>8 DEF WritingInv, Store!WriteRest
<1> QED BY <1>9, <1>10, <1>11, <1>12 DEF StoreInv

\* The line is terminated.
LEMMA WriteNewlineKeeps == ASSUME StoreInv, Store!WriteNewline PROVE StoreInv'
<1>1. Store!TypeOK /\ FileInv /\ StateInv /\ WritingInv
  BY DEF StoreInv
<1>2. /\ process = "up" /\ process' = "up" /\ progress' = "line" /\ terminated'
      /\ ~Torn /\ lines # <<>> /\ lines[Len(lines)] = writing
      /\ UNCHANGED <<lines, state, writing, acknowledged>>
  BY <1>1 DEF WritingInv, Store!WriteNewline
<1>3. ~Torn' /\ Kept' = Kept
  BY <1>2 DEF Torn, Kept
<1>4. Store!TypeOK'
  BY <1>1 DEF Store!TypeOK, Store!WriteNewline, Store!Progress
<1>5. FileInv'
  BY <1>1, <1>2, <1>3 DEF FileInv, Whole
<1>6. StateInv'
  BY <1>1, <1>2, <1>3 DEF StateInv, Store!WriteNewline
<1>7. WritingInv'
  BY <1>1, <1>2 DEF WritingInv, Store!WriteNewline
<1> QED BY <1>4, <1>5, <1>6, <1>7 DEF StoreInv

\* What is acknowledged is in the file and in the state.
LEMMA AcknowledgeKeeps == ASSUME StoreInv, Store!Acknowledge PROVE StoreInv'
<1>1. Store!TypeOK /\ FileInv /\ StateInv /\ WritingInv
  BY DEF StoreInv
<1>2. /\ process = "up" /\ process' = "up" /\ progress = "line" /\ progress' = "none"
      /\ terminated /\ lines # <<>> /\ lines[Len(lines)] = writing /\ writing # Store!Nothing
      /\ writing' = Store!Nothing /\ UNCHANGED <<lines, terminated>>
      /\ acknowledged' = acknowledged \cup {writing.id}
  BY <1>1 DEF WritingInv, Store!Acknowledge
<1>3. /\ Len(lines) \in Nat /\ Len(lines) >= 1 /\ Len(state) \in Nat /\ Len(state) = Len(lines) - 1
      /\ writing.id \in Store!Records
  BY <1>1, <1>2, StoreTypes DEF StateInv
<1>4. /\ state' \in Seq(Store!Records) /\ Len(state') = Len(lines)
      /\ state'[Len(lines)] = writing.id
      /\ \A i \in 1 .. Len(state) : state'[i] = state[i]
  BY <1>1, <1>3 DEF Store!TypeOK, Store!Acknowledge
<1>5. ~Torn /\ ~Torn' /\ Kept = Len(lines) /\ Kept' = Len(lines)
  BY <1>2 DEF Torn, Kept
<1>6. Store!TypeOK'
  BY <1>1, <1>2, <1>3, <1>4 DEF Store!TypeOK, Store!Acknowledge, Store!Progress
<1>7. FileInv'
  <2>1. Whole(Len(lines))'
    BY <1>1, <1>2, <1>5 DEF FileInv, Whole
  <2>2. \A id \in acknowledged' : \E i \in 1 .. Len(lines) : lines[i].id = id
    BY <1>1, <1>2, <1>3, <1>5 DEF FileInv
  <2>3. Whole(Kept)'
    BY <1>2, <1>5, <2>1 DEF Whole
  <2> QED BY <1>2, <1>5, <2>2, <2>3 DEF FileInv
<1>8. StateInv'
  <2>1. \A i \in 1 .. Len(state') : state'[i] = lines[i].id
    BY <1>1, <1>2, <1>3, <1>4 DEF StateInv
  <2>2. \A id \in acknowledged' : \E i \in 1 .. Len(state') : state'[i] = id
    <3>1. \A id \in acknowledged : \E i \in 1 .. Len(state) : state[i] = id
      BY <1>1, <1>2 DEF StateInv
    <3>2. \A id \in acknowledged : \E i \in 1 .. Len(state') : state'[i] = id
      BY <1>3, <1>4, <3>1
    <3>3. \E i \in 1 .. Len(state') : state'[i] = writing.id
      BY <1>3, <1>4
    <3> QED BY <1>2, <3>2, <3>3
  <2> QED BY <1>2, <1>4, <1>5, <2>1, <2>2 DEF StateInv
<1>9. WritingInv'
  BY <1>1, <1>2 DEF WritingInv
<1> QED BY <1>6, <1>7, <1>8, <1>9 DEF StoreInv

\* The file survives the process.
LEMMA CrashKeeps == ASSUME StoreInv, Store!Crash PROVE StoreInv'
<1>1. Store!TypeOK /\ FileInv /\ StateInv /\ WritingInv
  BY DEF StoreInv
<1>2. FileInv'
  BY FileStays DEF Store!Crash
<1>3. Store!TypeOK'
  BY <1>1 DEF Store!TypeOK, Store!Crash, Store!Progress
<1>4. StateInv'
  BY DEF StateInv, Store!Crash
<1>5. WritingInv'
  BY DEF WritingInv, Store!Crash
<1> QED BY <1>2, <1>3, <1>4, <1>5 DEF StoreInv

\* Reading takes the lines that are not torn.
LEMMA BodyKept ==
    ASSUME StoreInv
    PROVE  /\ Store!TornTail <=> Torn
           /\ Store!Body \in Seq(Store!Line) /\ Len(Store!Body) = Kept
           /\ DOMAIN Store!Body = 1 .. Kept
           /\ \A i \in 1 .. Kept : Store!Body[i] = lines[i] /\ lines[i].id \in Store!Records
           /\ Store!Readable
<1>1. Store!TypeOK /\ FileInv
  BY DEF StoreInv
<1>2. \A i \in 1 .. Kept : lines[i] \in [id : Store!Records, seq : Nat] /\ lines[i].seq = i
  <2>1. Whole(Kept)
    BY <1>1 DEF FileInv
  <2> QED BY <2>1 DEF Whole
<1>3. Kept \in 0 .. Len(lines) /\ Len(lines) \in Nat /\ lines \in Seq(Store!Line)
  BY <1>1, StoreTypes DEF Store!TypeOK
<1>4. Store!TornTail <=> Torn
  <2>1. Torn => Store!TornTail
    BY DEF Store!TornTail, Torn, Store!Last, Store!Parses
  <2>2. ASSUME ~Torn, lines # <<>> PROVE ~Store!TornTail
    <3>1. lines[Len(lines)] \in [id : Store!Records, seq : Nat]
      BY <1>1, <1>2, <1>3, <2>2, StoreTypes DEF Kept
    <3> QED BY <3>1, RecordsParse DEF Store!TornTail, Store!Last
  <2> QED BY <2>1, <2>2 DEF Store!TornTail
<1>5. /\ Len(Store!Body) = Kept /\ \A i \in 1 .. Kept : Store!Body[i] = lines[i]
      /\ Store!Body \in Seq(Store!Line)
  <2>1. CASE Torn
    <3>1. Store!Body = SubSeq(lines, 1, Len(lines) - 1) /\ Len(lines) >= 1
      BY <1>1, <1>4, <2>1, StoreTypes DEF Store!Body, Store!Front, Torn
    <3>2. Kept = Len(lines) - 1 /\ Len(lines) - 1 \in 0 .. Len(lines)
      BY <1>3, <2>1, <3>1 DEF Kept
    <3>3. SubSeq(lines, 1, Len(lines) - 1) \in Seq(Store!Line)
      BY <1>3, <3>2
    <3>4. /\ Len(SubSeq(lines, 1, Len(lines) - 1)) = Len(lines) - 1
          /\ \A i \in 1 .. Len(lines) - 1 : SubSeq(lines, 1, Len(lines) - 1)[i] = lines[i]
      BY <1>3, <3>2
    <3> QED BY <3>1, <3>2, <3>3, <3>4
  <2>2. CASE ~Torn
    BY <1>3, <1>4, <2>2 DEF Store!Body, Kept
  <2> QED BY <2>1, <2>2
<1>6. DOMAIN Store!Body = 1 .. Kept
  BY <1>5
<1>7. Store!Readable
  <2>1. \A i \in 1 .. Kept : Store!Parses(lines[i])
    BY <1>2, RecordsParse
  <2> QED BY <1>2, <1>6, <2>1 DEF Store!Readable, Store!Applies
<1> QED BY <1>2, <1>4, <1>5, <1>6, <1>7

\* The state is what the file holds.
LEMMA LoadKeeps == ASSUME StoreInv, Store!Load PROVE StoreInv'
<1>1. Store!TypeOK /\ FileInv /\ StateInv /\ WritingInv
  BY DEF StoreInv
<1>2. FileInv' /\ (Torn' <=> Torn) /\ Kept' = Kept
  BY FileStays DEF Store!Load
<1>3. /\ state' = [i \in DOMAIN Store!Body |-> Store!Body[i].id]
      /\ process' = IF Store!TornTail \/ ~terminated THEN "loaded" ELSE "up"
      /\ UNCHANGED <<lines, terminated, writing, progress, acknowledged>>
      /\ writing = Store!Nothing /\ progress = "none"
  BY <1>1, BodyKept DEF Store!Load, Store!RecordIds, WritingInv
<1>4. DOMAIN Store!Body = 1 .. Kept /\ Kept \in Nat
  BY <1>1, BodyKept, StoreTypes
<1>5. \A i \in 1 .. Kept : Store!Body[i].id = lines[i].id /\ Store!Body[i].id \in Store!Records
  BY BodyKept
<1>6. /\ state' \in Seq(Store!Records) /\ Len(state') = Kept
      /\ \A i \in 1 .. Kept : state'[i] = lines[i].id
  BY <1>3, <1>4, <1>5
<1>7. Store!TypeOK'
  BY <1>1, <1>3, <1>6 DEF Store!TypeOK, Store!Load
<1>8. StateInv'
  <2>1. \A id \in acknowledged : \E i \in 1 .. Kept : state'[i] = id
    BY <1>1, <1>6 DEF FileInv
  <2>2. progress' = "none" /\ UNCHANGED <<lines, acknowledged>>
    BY <1>3
  <2> QED BY <1>2, <1>6, <2>1, <2>2 DEF StateInv
<1>9. WritingInv'
  BY <1>2, <1>3 DEF WritingInv
<1> QED BY <1>2, <1>7, <1>8, <1>9 DEF StoreInv

\* The torn line goes, and nothing else.
LEMMA RepairKeeps == ASSUME StoreInv, Store!Repair PROVE StoreInv'
<1>1. Store!TypeOK /\ FileInv /\ StateInv /\ WritingInv
  BY DEF StoreInv
<1>2. /\ lines' = Store!Body /\ terminated' /\ process = "loaded" /\ process' = "up"
      /\ UNCHANGED <<state, writing, progress, acknowledged>>
      /\ writing = Store!Nothing /\ progress = "none"
  BY <1>1 DEF Store!Repair, WritingInv
<1>3. /\ lines' \in Seq(Store!Line) /\ Len(lines') = Kept
      /\ \A i \in 1 .. Kept : lines'[i] = lines[i]
  BY <1>2, BodyKept
<1>4. ~Torn' /\ Kept' = Kept
  BY <1>2, <1>3 DEF Torn, Kept
<1>5. Store!TypeOK'
  BY <1>1, <1>3 DEF Store!TypeOK, Store!Repair
<1>6. FileInv'
  <2>1. \A i \in 1 .. Kept : lines'[i] \in [id : Store!Records, seq : {i}]
    BY <1>1, <1>3 DEF FileInv, Whole
  <2>2. \A id \in acknowledged' : \E i \in 1 .. Kept : lines'[i].id = id
    BY <1>1, <1>2, <1>3 DEF FileInv
  <2> QED BY <1>4, <2>1, <2>2 DEF FileInv, Whole
<1>7. StateInv'
  BY <1>1, <1>2, <1>3, <1>4 DEF StateInv
<1>8. WritingInv'
  BY <1>2 DEF WritingInv
<1> QED BY <1>5, <1>6, <1>7, <1>8 DEF StoreInv

\* The file is empty in the beginning.
LEMMA StoreStart == ASSUME Store!Init, MaxRecords \in Nat PROVE StoreInv
<1>1. Store!TypeOK
  BY DEF Store!Init, Store!TypeOK, Store!Progress
<1>2. ~Torn /\ Kept = 0 /\ Len(lines) = 0 /\ Len(state) = 0
  BY DEF Store!Init, Torn, Kept
<1>3. FileInv
  BY <1>2 DEF Store!Init, FileInv, Whole
<1>4. StateInv
  BY <1>2 DEF Store!Init, StateInv
<1>5. WritingInv
  BY DEF Store!Init, WritingInv
<1> QED BY <1>1, <1>3, <1>4, <1>5 DEF StoreInv

\* The invariant depends on nothing else.
LEMMA StoreStays == ASSUME StoreInv, UNCHANGED Store!vars PROVE StoreInv'
<1>1. Store!TypeOK /\ StateInv /\ WritingInv
  BY DEF StoreInv
<1>2. FileInv' /\ (Torn' <=> Torn) /\ Kept' = Kept
  BY FileStays DEF Store!vars
<1>3. Store!TypeOK' /\ StateInv' /\ WritingInv'
  BY <1>1, <1>2 DEF Store!TypeOK, StateInv, WritingInv, Store!vars
<1> QED BY <1>2, <1>3 DEF StoreInv

\* Every behaviour keeps it.
LEMMA StoreInvariant == Spec => []StoreInv
<1>1. Init => StoreInv
  BY StoreStart, PartsAssumption DEF Init
<1>2. StoreInv /\ [Next]_vars => StoreInv'
  <2> SUFFICES ASSUME StoreInv, [Next]_vars PROVE StoreInv'
    OBVIOUS
  <2>1. StoreNext => StoreInv'
    BY SubmitKeeps, BeginKeeps, WritePartKeeps, WriteRestKeeps, WriteNewlineKeeps,
       AcknowledgeKeeps,
       CrashKeeps, LoadKeeps, RepairKeeps, PartsAssumption
    DEF StoreNext
  <2>2. OnlyLive \/ OnlyLeases \/ OnlyRepair \/ OnlySnapshots \/ OnlyWriters \/ OnlyTokens
          => UNCHANGED storeVars
    BY DEF OnlyLive, OnlyLeases, OnlyRepair, OnlySnapshots, OnlyWriters, OnlyTokens
  <2>3. UNCHANGED vars => UNCHANGED storeVars
    BY DEF vars
  <2>4. UNCHANGED storeVars => StoreInv'
    BY StoreStays DEF storeVars, Store!vars
  <2> QED BY <2>1, <2>2, <2>3, <2>4, OnePartRuns
<1> QED BY <1>1, <1>2, PTL DEF Spec

\* The log can be read after any crash, and who has read it knows every record that
\* was acknowledged (jsonl/storage.ts, load).
THEOREM AcknowledgedStays == Spec => []AcknowledgedReadable
<1>1. StoreInv => AcknowledgedReadable
  <2> SUFFICES ASSUME StoreInv PROVE AcknowledgedReadable
    OBVIOUS
  <2>1. process # "refused" /\ Store!TypeOK /\ StateInv
    BY DEF StoreInv, WritingInv
  <2>2. DOMAIN state = 1 .. Len(state)
    BY <2>1 DEF Store!TypeOK
  <2> QED BY <2>1, <2>2 DEF StateInv, Store!AcknowledgedReadable, AcknowledgedReadable
<1> QED BY <1>1, StoreInvariant, PTL

-----------------------------------------------------------------------------
(* Conversation repair. *)

\* Both instances of the module say the same, expanded to the last definition.
LEMMA SameStep == \A s, msg : Repair!PassStep(s, msg) = RepairProofs!PassStep(s, msg)
BY DEF Repair!PassStep, RepairProofs!PassStep, Repair!PassAssistant,
       RepairProofs!PassAssistant, Repair!PassResult, RepairProofs!PassResult,
       Repair!PassUser, RepairProofs!PassUser, Repair!IsSkipped, RepairProofs!IsSkipped,
       Repair!Role, RepairProofs!Role, Repair!InsertSynthetic,
       RepairProofs!InsertSynthetic, Repair!Keeping, RepairProofs!Keeping, Repair!ToSet,
       RepairProofs!ToSet, Repair!ToolResult, RepairProofs!ToolResult, Repair!FoldLeft,
       RepairProofs!FoldLeft, Repair!MapThenFoldSet, RepairProofs!MapThenFoldSet,
       Repair!Max, RepairProofs!Max

\* Both instances repair alike, and say the same of what they repair.
LEMMA SameRepair ==
    /\ \A conv : Repair!Transform(conv) = RepairProofs!Transform(conv)
    /\ \A K, s : Repair!Keeping(K, s) = RepairProofs!Keeping(K, s)
    /\ \A conv, i : Repair!BlockCalls(conv, i) = RepairProofs!BlockCalls(conv, i)
    /\ \A s : Repair!ToSet(s) = RepairProofs!ToSet(s)
    /\ \A msg : Repair!Role(msg) = RepairProofs!Role(msg)
    /\ \A msg : Repair!IsSkipped(msg) = RepairProofs!IsSkipped(msg)
    /\ \A c : Repair!ToolResult(c) = RepairProofs!ToolResult(c)
    /\ \A S : Repair!Cardinality(S) = RepairProofs!Cardinality(S)
<1>1. /\ \A s : Repair!InsertSynthetic(s) = RepairProofs!InsertSynthetic(s)
      /\ \A K, s : Repair!Keeping(K, s) = RepairProofs!Keeping(K, s)
  BY DEF Repair!InsertSynthetic, RepairProofs!InsertSynthetic, Repair!Keeping,
         RepairProofs!Keeping, Repair!ToSet, RepairProofs!ToSet, Repair!ToolResult,
         RepairProofs!ToolResult, Repair!FoldLeft, RepairProofs!FoldLeft,
         Repair!MapThenFoldSet, RepairProofs!MapThenFoldSet, Repair!Max, RepairProofs!Max
<1>2. \A conv : Repair!PassState(conv) = RepairProofs!PassState(conv)
  BY SameStep DEF Repair!PassState, RepairProofs!PassState, Repair!PassStart,
     RepairProofs!PassStart, Repair!FoldLeft, RepairProofs!FoldLeft, Repair!MapThenFoldSet,
     RepairProofs!MapThenFoldSet, Repair!Max, RepairProofs!Max
<1>3. \A conv : Repair!Transform(conv) = RepairProofs!Transform(conv)
  BY <1>1, <1>2 DEF Repair!Transform, RepairProofs!Transform
<1>4. /\ \A conv, i : Repair!BlockCalls(conv, i) = RepairProofs!BlockCalls(conv, i)
      /\ \A s : Repair!ToSet(s) = RepairProofs!ToSet(s)
      /\ \A msg : Repair!Role(msg) = RepairProofs!Role(msg)
      /\ \A msg : Repair!IsSkipped(msg) = RepairProofs!IsSkipped(msg)
      /\ \A c : Repair!ToolResult(c) = RepairProofs!ToolResult(c)
  BY DEF Repair!BlockCalls, RepairProofs!BlockCalls, Repair!ToSet, RepairProofs!ToSet,
         Repair!BlockEnd, RepairProofs!BlockEnd, Repair!Role, RepairProofs!Role,
         Repair!IsSkipped, RepairProofs!IsSkipped, Repair!ToolResult,
         RepairProofs!ToolResult
<1>5. \A S : Repair!Cardinality(S) = RepairProofs!Cardinality(S)
  BY DEF Repair!Cardinality, RepairProofs!Cardinality, Repair!IsFiniteSet,
         RepairProofs!IsFiniteSet
<1> QED BY <1>1, <1>3, <1>4, <1>5

\* The messages that a saved session may hold, and the calls they make.
LEMMA SavedMessages == RepairProofs!Messaging(Repair!Messages, CallIds)
<1>1. ASSUME NEW ids \in {<<>>} \cup {<<c>> : c \in CallIds} \cup {<<c, d>> : c, d \in CallIds}
      PROVE  ids \in Seq(CallIds)
  <2>1. CASE ids \in {<<>>}
    BY <2>1
  <2>2. CASE ids \in {<<c>> : c \in CallIds}
    <3>1. PICK c \in CallIds : ids = <<c>>
      BY <2>2
    <3> QED BY <3>1
  <2>3. CASE ids \in {<<c, d>> : c, d \in CallIds}
    <3>1. PICK c \in CallIds, d \in CallIds : ids = <<c, d>>
      BY <2>3
    <3> QED BY <3>1
  <2> QED BY <1>1, <2>1, <2>2, <2>3
<1>2. ASSUME NEW msg \in Repair!Messages
      PROVE  \/ msg = Repair!User("text")
             \/ (\E ids \in Seq(CallIds) : \E stop : msg = Repair!Assistant(ids, stop))
             \/ (\E c \in CallIds : msg = Repair!ToolResult(c))
  BY <1>1 DEF Repair!Messages
<1>3. \A c \in CallIds : Repair!ToolResult(c) \in Repair!Messages
  BY DEF Repair!Messages
<1> QED
  BY <1>2, <1>3
  DEF RepairProofs!Messaging, Repair!User, Repair!Assistant, Repair!ToolResult,
      RepairProofs!Role, RepairProofs!ToolResult

\* A saved session holds messages, in any order.
SavedInv == conversation \in Seq(Repair!Messages)

\* The conversation grows by messages only.
LEMMA ConversationSaved == Spec => []SavedInv
<1>1. Init => SavedInv
  BY DEF Init, Repair!Init, SavedInv
<1>2. SavedInv /\ [Next]_vars => SavedInv'
  <2> SUFFICES ASSUME SavedInv, [Next]_vars PROVE conversation' \in Seq(Repair!Messages)
    BY DEF SavedInv
  <2>1. CASE OnlyRepair /\ Repair!Next
    BY <2>1 DEF Repair!Next, Repair!Extend, SavedInv
  <2>2. OnlyLive \/ OnlyLeases \/ OnlyStore \/ OnlySnapshots \/ OnlyWriters \/ OnlyTokens
          => UNCHANGED conversation
    BY DEF OnlyLive, OnlyLeases, OnlyStore, OnlySnapshots, OnlyWriters, OnlyTokens
  <2>3. LiveNext \/ LeasesNext \/ SnapshotsNext \/ StoreNext \/ WritersNext \/ TokensNext
          => OnlyLive \/ OnlyLeases \/ OnlyStore \/ OnlySnapshots \/ OnlyWriters \/ OnlyTokens
    BY DEF LiveNext, LeasesNext, SnapshotsNext, StoreNext, WritersNext, TokensNext
  <2>4. UNCHANGED vars => UNCHANGED conversation
    BY DEF vars
  <2> QED BY <2>1, <2>2, <2>3, <2>4 DEF Next, SavedInv
<1> QED BY <1>1, <1>2, PTL DEF Spec

\* Whatever a session's history lacks, each call of a replayed message is answered
\* before the next user or assistant message (transform-messages.ts:159).
THEOREM CallsAnswered == Spec => []EveryCallAnswered
<1>1. ASSUME SavedInv PROVE EveryCallAnswered
  <2> SUFFICES ASSUME NEW i \in DOMAIN Repair!Transform(conversation),
                      Repair!Role(Repair!Transform(conversation)[i]) = "assistant"
               PROVE  LET out == Repair!Transform(conversation)
                      IN  /\ ~Repair!IsSkipped(out[i])
                          /\ Repair!ToSet(out[i].calls)
                                \subseteq Repair!ToSet(Repair!BlockCalls(out, i))
    BY DEF EveryCallAnswered, Repair!EveryCallAnswered
  <2> DEFINE out == RepairProofs!Transform(conversation)
  <2>1. Repair!Transform(conversation) = out
    BY SameRepair
  <2>2. i \in DOMAIN out /\ RepairProofs!Role(out[i]) = "assistant"
    BY <2>1, SameRepair
  <2>3. /\ ~RepairProofs!IsSkipped(out[i])
        /\ RepairProofs!ToSet(out[i].calls)
              \subseteq RepairProofs!ToSet(RepairProofs!BlockCalls(out, i))
    BY <1>1, <2>2, SavedMessages, RepairProofs!RepairAnswers DEF SavedInv
  <2> HIDE DEF out
  <2> QED BY <2>1, <2>3, SameRepair
<1> QED BY <1>1, ConversationSaved, PTL

\* The repair adds results and drops the messages that are not replayed; it
\* reorders nothing and loses nothing else (transform-messages.ts:183).
THEOREM RestKept == Spec => []KeepsTheRest
<1>1. ASSUME SavedInv PROVE KeepsTheRest
  <2> DEFINE out == RepairProofs!Transform(conversation)
             kept == {m \in Repair!Messages :
                         \/ Repair!Role(m) = "user"
                         \/ Repair!Role(m) = "assistant" /\ ~Repair!IsSkipped(m)}
  <2>1. Repair!Transform(conversation) = out
    BY SameRepair
  <2>2. RepairProofs!Keeping(kept, out) = RepairProofs!Keeping(kept, conversation)
    <3>1. \A m \in Repair!Messages :
             m \in kept <=> \/ RepairProofs!Role(m) = "user"
                            \/ /\ RepairProofs!Role(m) = "assistant"
                               /\ ~RepairProofs!IsSkipped(m)
      BY SameRepair
    <3> HIDE DEF kept
    <3> QED BY <1>1, <3>1, SavedMessages, RepairProofs!RepairKeeps DEF SavedInv
  <2>3. ASSUME NEW c \in CallIds
        PROVE  Repair!Cardinality({i \in DOMAIN conversation :
                                     conversation[i] = Repair!ToolResult(c)})
                  <= Repair!Cardinality({i \in DOMAIN out : out[i] = Repair!ToolResult(c)})
    <3>1. RepairProofs!Cardinality(RepairProofs!Places(conversation, c))
             <= RepairProofs!Cardinality(RepairProofs!Places(out, c))
      BY <1>1, SavedMessages, RepairProofs!RepairLosesNone DEF SavedInv
    <3> HIDE DEF out
    <3> QED BY <3>1, SameRepair DEF RepairProofs!Places
  <2> QED BY <2>1, <2>2, <2>3, SameRepair DEF KeepsTheRest, Repair!KeepsTheRest
<1> QED BY <1>1, ConversationSaved, PTL

-----------------------------------------------------------------------------
(* Types. *)

\* Both instances of each module have the same types.
LEMMA SameTypes ==
    /\ LiveProofs!TypeOK => Live!TypeOK
    /\ HoldProofs!TypeOK => Leases!TypeOK
    /\ LeaseProofs!TypeOK => Writers!TypeOK
<1>1. LiveProofs!TypeOK => Live!TypeOK
  BY DEF LiveProofs!TypeOK, Live!TypeOK, LiveProofs!LiveSession, Live!LiveSession,
         LiveProofs!Request, Live!Request, LiveProofs!Idle, Live!Idle,
         LiveProofs!Closings, Live!Closings, LiveProofs!Stages, Live!Stages,
         LiveProofs!Opening, Live!Opening
<1>2. HoldProofs!TypeOK => Leases!TypeOK
  BY DEF HoldProofs!TypeOK, Leases!TypeOK, HoldProofs!Cardinality,
         Leases!Cardinality, HoldProofs!IsFiniteSet, Leases!IsFiniteSet,
         HoldProofs!NoSnapshot, Leases!NoSnapshot, HoldProofs!Kinds, Leases!Kinds,
         HoldProofs!Waiting, Leases!Waiting, HoldProofs!Waits, Leases!Waits
<1>3. LeaseProofs!TypeOK => Writers!TypeOK
  BY DEF LeaseProofs!TypeOK, Writers!TypeOK, LeaseProofs!Storage, Writers!Storage,
         LeaseProofs!NoTimer, Writers!NoTimer, LeaseProofs!Tolerated,
         Writers!Tolerated, LeaseProofs!StorageIds, Writers!StorageIds
<1> QED BY <1>1, <1>2, <1>3

\* Every variable of every part keeps its type.
THEOREM PartsTyped == Spec => []TypeOK
<1>1. LiveProofs!Spec => []LiveProofs!TypeOK
  BY LiveProofs!TypeCorrect, SameLive, PartsAssumption
<1>2. HoldProofs!Spec => []HoldProofs!TypeOK
  BY HoldProofs!TypeCorrect, SameLeases, PartsAssumption
<1>3. LeaseProofs!Spec => []LeaseProofs!TypeOK
  BY LeaseProofs!TypeCorrect, SameWriters, PartsAssumption
<1>4. /\ LiveProofs!TypeOK /\ HoldProofs!TypeOK /\ LeaseProofs!TypeOK
      /\ SnapshotsInv /\ StoreInv /\ TokensInv
      => TypeOK
  BY SameTypes DEF SnapshotsInv, StoreInv, TokensInv, TypeOK
<1> QED
  BY <1>1, <1>2, <1>3, <1>4, LiveBehave, LeasesBehave, WritersBehave,
     SnapshotsInvariant, StoreInvariant, TokensInvariant, PTL
=============================================================================
