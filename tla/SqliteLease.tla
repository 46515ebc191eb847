---------------------------- MODULE SqliteLease ----------------------------
(***************************************************************************)
(* The writer lease of a session in the SQLite backend (packages/session-    *)
(* backends/sqlite-node/src/sqlite/repo.ts and storage/writer-leases.ts):     *)
(* repositories, in one process or several, share a database; the one that    *)
(* holds the session's lease writes.  Every write renews the lease in its own *)
(* transaction, a heartbeat renews it in between, and a lease that was not    *)
(* renewed in time may be taken over.                                        *)
(*                                                                         *)
(* A storage object is known by the number of its claim, which stands for the *)
(* owner id made for it; no other claim has it, so the fence that is compared  *)
(* beside it is left out.  A callback of an operation queue runs one           *)
(* synchronous transaction: it is a step.  Time is the remaining life of the  *)
(* lease; the processes share one clock that does not go back.                *)
(***************************************************************************)
EXTENDS Integers, Sequences

CONSTANTS
    Repos,
    Ttl,            \* ttlMs, in units of time
    Interval,       \* heartbeatIntervalMs: more than none, and less than Ttl
                    \* (resolveWriterLeaseOptions)
    MaxStorages,    \* bound: storage objects made
    MaxQueue        \* bound: operations a write finds in a storage's queue, at most

\* What the theorems need of them (SqliteLease_proofs).
LeaseAssumption ==
    /\ Ttl \in Nat /\ Interval \in Nat \ {0} /\ Interval < Ttl
    /\ MaxStorages \in Nat /\ MaxQueue \in Nat

VARIABLES
    exists,       \* the session's row exists
    row,          \* its writer_leases row, or NoRow
    storages,     \* the storage objects made so far
    active,       \* of each repository: activeStorages
    operation,    \* of each repository: "idle", or what waits for its storages' release
    committer     \* history: the storage whose write the last step committed, or 0

vars == <<exists, row, storages, active, operation, committer>>

NoRow == [owner |-> 0, life |-> 0]
NoTimer == -1

\* error: leaseError is set; timer: time since the heartbeat's was set; failed:
\* heartbeats that failed in a row; kept: history, it has never been late.
NewStorage(r) ==
    [repo |-> r, closing |-> FALSE, error |-> FALSE,
     queue |-> <<>>, timer |-> 0, failed |-> 0, kept |-> TRUE]
Gone(r) == [NewStorage(r) EXCEPT !.closing = TRUE, !.timer = NoTimer]

StorageIds == DOMAIN storages

Init ==
    /\ exists = FALSE /\ row = NoRow /\ storages = <<>>
    /\ active = [r \in Repos |-> {}] /\ operation = [r \in Repos |-> "idle"]
    /\ committer = 0

-----------------------------------------------------------------------------
(* The lease row (writer-leases.ts). *)

\* acquireWriterLease finds no row, or an expired one.
Claimable == row = NoRow \/ row.life = 0

\* A bug: a row is taken for the owner's if it is alive.
RenewableByAny(s) == row # NoRow /\ row.life > 0
\* renewWriterLease
Renewable(s) == row.owner = s /\ row.life > 0
Renew == row' = [row EXCEPT !.life = Ttl]

\* releaseWriterLease
Unclaim(s) == row' = IF row.owner = s THEN NoRow ELSE row

-----------------------------------------------------------------------------
(* The repository: its operations are run one at a time. *)

\* claimStorage, in create() and open().
Claim(r) ==
    /\ operation[r] = "idle" /\ Len(storages) < MaxStorages
    /\ Claimable
    /\ row' = [owner |-> Len(storages) + 1, life |-> Ttl]
    /\ storages' = Append(storages, NewStorage(r))
    /\ active' = [active EXCEPT ![r] = @ \cup {Len(storages) + 1}]
    /\ UNCHANGED <<operation>> /\ committer' = 0

\* A storage of a session that another repository has deleted may still be active.
Create(r) == ~exists /\ exists' = TRUE /\ Claim(r)

\* The first active storage is shared, whatever its state, and nothing changes.
Open(r) == exists /\ active[r] = {} /\ UNCHANGED exists /\ Claim(r)

\* storage.release(): writes are refused from now on, and the release queues up
\* behind those already accepted.
Release(s) ==
    storages' = [storages EXCEPT ![s].closing = TRUE, ![s].timer = NoTimer,
                                 ![s].queue = Append(@, "release")]

\* close(), delete() and repairBranchCache() first release the storages they find,
\* one after the other.
Begin(r, op) ==
    /\ operation[r] = "idle" /\ operation' = [operation EXCEPT ![r] = op]
    /\ UNCHANGED <<exists, row, storages, active>> /\ committer' = 0

ReleaseActive(r) ==
    /\ operation[r] # "idle"
    /\ \E s \in active[r] :
          /\ \A d \in active[r] : s <= d
          /\ ~storages[s].closing
          /\ Release(s)
    /\ UNCHANGED <<exists, row, active, operation>> /\ committer' = 0

\* Then delete() claims the lease and removes every row of the session, or just
\* the lease if the session is gone; repairBranchCache() claims and releases it.
Delete(r) ==
    /\ operation[r] = "delete" /\ active[r] = {}
    /\ IF Claimable \/ ~exists THEN exists' = FALSE /\ row' = NoRow ELSE UNCHANGED <<exists, row>>
    /\ operation' = [operation EXCEPT ![r] = "idle"]
    /\ UNCHANGED <<storages, active>> /\ committer' = 0

RepairBranchCache(r) ==
    /\ operation[r] = "repair" /\ active[r] = {}
    /\ row' = IF Claimable /\ exists THEN NoRow ELSE row
    /\ operation' = [operation EXCEPT ![r] = "idle"]
    /\ UNCHANGED <<exists, storages, active>> /\ committer' = 0

Closed(r) ==
    /\ operation[r] = "close" /\ active[r] = {}
    /\ operation' = [operation EXCEPT ![r] = "idle"]
    /\ UNCHANGED <<exists, row, storages, active>> /\ committer' = 0

\* The process ends without releasing anything.
Crash(r) ==
    /\ storages' = [s \in StorageIds |->
          IF storages[s].repo = r
          THEN Gone(r) ELSE storages[s]]
    /\ active' = [active EXCEPT ![r] = {}] /\ operation' = [operation EXCEPT ![r] = "idle"]
    /\ UNCHANGED <<exists, row>> /\ committer' = 0

-----------------------------------------------------------------------------
(* The storage and its operation queue. *)

\* enqueueWrite, by anybody who was given the storage.
Submit(s) ==
    /\ ~storages[s].closing /\ Len(storages[s].queue) < MaxQueue
    /\ storages' = [storages EXCEPT ![s].queue = Append(@, "write")]
    /\ UNCHANGED <<exists, row, active, operation>> /\ committer' = 0

HeartbeatDue(s) ==
    /\ storages[s].timer >= Interval
    /\ storages' = [storages EXCEPT ![s].timer = NoTimer, ![s].queue = Append(@, "heartbeat")]
    /\ UNCHANGED <<exists, row, active, operation>> /\ committer' = 0

Turn(s, kind) == storages[s].queue # <<>> /\ Head(storages[s].queue) = kind
Dequeued(s) == [storages EXCEPT ![s].queue = Tail(@)]
Lost(s) == [Dequeued(s) EXCEPT ![s].error = TRUE, ![s].timer = NoTimer]

\* A transaction that fails (the database stays busy) changes nothing.
Write(s) ==
    /\ Turn(s, "write")
    /\ \/ storages' = Dequeued(s) /\ UNCHANGED row /\ committer' = 0
       \/ /\ ~storages[s].error /\ ~Renewable(s)
          /\ storages' = Lost(s) /\ UNCHANGED row /\ committer' = 0
       \/ /\ ~storages[s].error /\ Renewable(s)
          /\ storages' = Dequeued(s) /\ Renew /\ committer' = s
    /\ UNCHANGED <<exists, active, operation>>

\* History: more heartbeats failed in a row than the lease outlives.
Tolerated == (Ttl - 1) \div Interval - 1
Failing(s) ==
    [Dequeued(s) EXCEPT ![s].failed = IF @ < Tolerated THEN @ + 1 ELSE @,
                        ![s].kept = @ /\ storages[s].failed < Tolerated]

\* A bug: a heartbeat that failed is the last.
RescheduledUnlessFailed(s) == Failing(s)
Rescheduled(s) == [Failing(s) EXCEPT ![s].timer = 0]

\* scheduleHeartbeat follows, unless the lease is lost or given up.
Heartbeat(s) ==
    /\ Turn(s, "heartbeat")
    /\ \/ /\ storages[s].closing \/ storages[s].error
          /\ storages' = Dequeued(s) /\ UNCHANGED row
       \/ /\ ~storages[s].closing /\ ~storages[s].error /\ Renewable(s)
          /\ storages' = [Dequeued(s) EXCEPT ![s].timer = 0, ![s].failed = 0] /\ Renew
       \/ /\ ~storages[s].closing /\ ~storages[s].error /\ ~Renewable(s)
          /\ storages' = Lost(s) /\ UNCHANGED row
       \/ /\ ~storages[s].closing /\ ~storages[s].error
          /\ storages' = Rescheduled(s) /\ UNCHANGED row
    /\ UNCHANGED <<exists, active, operation>> /\ committer' = 0

\* finishRelease: the storage is forgotten even if its row could not be deleted,
\* and then what waited for it rejects.
Released(s) ==
    /\ Turn(s, "release")
    /\ storages' = [storages EXCEPT ![s] = Gone(@.repo)]
    /\ active' = [active EXCEPT ![storages[s].repo] = @ \ {s}]
    /\ \/ Unclaim(s) /\ UNCHANGED operation
       \/ UNCHANGED row /\ operation' = [operation EXCEPT ![storages[s].repo] = "idle"]
    /\ UNCHANGED <<exists>> /\ committer' = 0

\* Time passes.  A process that lets it pass with a heartbeat due or an operation
\* waiting is late.
Tick ==
    /\ row' = [row EXCEPT !.life = IF @ > 0 THEN @ - 1 ELSE 0]
    /\ storages' = [s \in StorageIds |->
          LET o == storages[s]
          IN  [o EXCEPT !.timer = IF @ \in 0 .. Interval - 1 THEN @ + 1 ELSE @,
                        !.kept = @ /\ o.timer < Interval /\ o.queue = <<>>]]
    /\ UNCHANGED <<exists, active, operation>> /\ committer' = 0

-----------------------------------------------------------------------------
RepoStep(r) ==
    \/ Create(r) \/ Open(r) \/ Delete(r) \/ RepairBranchCache(r) \/ Closed(r) \/ Crash(r)
    \/ ReleaseActive(r) \/ \E op \in {"close", "delete", "repair"} : Begin(r, op)
StorageStep(s) == Submit(s) \/ HeartbeatDue(s) \/ Write(s) \/ Heartbeat(s) \/ Released(s)
Next == (\E r \in Repos : RepoStep(r)) \/ (\E s \in StorageIds : StorageStep(s)) \/ Tick
Spec == Init /\ [][Next]_vars

-----------------------------------------------------------------------------
Storage ==
    [repo : Repos, closing : BOOLEAN, error : BOOLEAN,
     queue : Seq({"write", "heartbeat", "release"}), timer : NoTimer .. Interval,
     failed : 0 .. Tolerated, kept : BOOLEAN]
TypeOK ==
    /\ exists \in BOOLEAN
    /\ row \in [owner : 0 .. Len(storages), life : 0 .. Ttl]
    /\ storages \in Seq(Storage)
    /\ active \in [Repos -> SUBSET StorageIds]
    /\ operation \in [Repos -> {"idle", "close", "delete", "repair"}]
    /\ committer \in 0 .. Len(storages)

\* "fences a stale owner after an expired lease is acquired by another writer"
\* (writer-leases.test.ts:127): whatever a storage still has in its queue, nothing
\* of it is written once the lease was claimed anew.
StaleOwnerFenced == committer # 0 => committer = Len(storages)

\* A process that keeps up does not lose its lease, even if as many heartbeats in a
\* row fail as fit into the lease: "A transient heartbeat failure is retried"
\* (repo.ts:409).
PromptOwnerKeepsLease == \A s \in StorageIds : storages[s].kept => ~storages[s].error
=============================================================================
