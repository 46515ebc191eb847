---------------------------- MODULE SessionLeases ----------------------------
(***************************************************************************)
(* Leases on a session in the client (packages/client/src/client.ts): many  *)
(* holders share one protocol attachment, which is requested for the first   *)
(* of them and given up with the last.  Acquisition, release, the clean-up   *)
(* of a failed detachment, loss of the connection and removal of the session *)
(* meet in any order.  One session is enough: its leases have no state in    *)
(* common with another's.                                                    *)
(*                                                                         *)
(* A message is handled, and a call made, when the continuations of what came *)
(* before have run (Quiet); messages that share a chunk are not modelled.     *)
(***************************************************************************)
EXTENDS Integers, FiniteSets

CONSTANTS
    Users,            \* callers of acquireSession, each with one lease at a time
    NoUser,
    MaxConnections,   \* bound: connections opened
    MaxRevision       \* bound: revision of the session's snapshot

VARIABLES
    connected,
    attached,         \* ClientState: the session is in #attachedSessionIds
    snapshot,         \* revision of the snapshot it holds, NoSnapshot without one
    previous,         \* the one #attachSession has made it forget
    count,            \* #sessionLeaseCounts
    exclusive,        \* #exclusiveSessionLeases: the holder of the token
    generation,       \* #sessionLeaseGenerations
    cleanupRequired,  \* #sessionCleanupRequired
    promise,          \* the request under way of each kind, as its promise
    phase,            \* how far each caller is
    leaseGeneration,  \* the generation its lease was made in
    disposing,        \* it was released by dispose()
    answer,           \* the server's answer on its way, for each kind
    serverAttached,   \* the server has this connection attached
    revision,         \* revision of the server's snapshot
    removed,          \* the session is gone for good
    connections

clientVars == <<connected, attached, snapshot, previous, count, exclusive, generation, cleanupRequired>>
userVars == <<phase, leaseGeneration, disposing>>
serverVars == <<serverAttached, revision, removed>>
vars == <<clientVars, promise, userVars, answer, serverVars, connections>>

\* What the theorems need of the constants.
LeasesAssumption ==
    /\ IsFiniteSet(Users) /\ NoUser \notin Users
    /\ MaxConnections \in Nat /\ MaxRevision \in Nat

Kinds == {"attach", "detach", "reconcile"}
Waits == [detaching |-> "detach", reconciling |-> "reconcile", attaching |-> "attach",
          releasing |-> "detach"]
Waiting == DOMAIN Waits
NoSnapshot == -1

Quiet == \A k \in Kinds : promise[k] \in {"none", "pending"}

Init ==
    /\ connected = FALSE /\ attached = FALSE /\ snapshot = NoSnapshot /\ previous = NoSnapshot
    /\ count = 0 /\ exclusive = NoUser /\ generation = 0 /\ cleanupRequired = FALSE
    /\ promise = [k \in Kinds |-> "none"] /\ answer = [k \in Kinds |-> "none"]
    /\ phase = [u \in Users |-> "idle"] /\ leaseGeneration = [u \in Users |-> 0]
    /\ disposing = [u \in Users |-> FALSE]
    /\ serverAttached = FALSE /\ revision = 0 /\ removed = FALSE /\ connections = 0

-----------------------------------------------------------------------------
(* Requests and the reservation of leases. *)

\* #request: rejected at once without a connection.
Request(p, k) == [p EXCEPT ![k] = IF connected THEN "pending" ELSE "error"]
JoinRequest(p, k) == IF p[k] = "none" THEN Request(p, k) ELSE p

\* A bug: the count outlives its last lease.
ReleaseKeepsOne(u) ==
    /\ count' = IF count <= 1 THEN count ELSE count - 1
    /\ exclusive' = IF exclusive = u THEN NoUser ELSE exclusive

\* #releaseSessionLease
ReleaseSessionLease(u) ==
    /\ count' = IF count <= 1 THEN 0 ELSE count - 1
    /\ exclusive' = IF exclusive = u THEN NoUser ELSE exclusive

\* A bug: an exclusive reservation looks at exclusive leases only.
MayReserveBesideShared(mode) == exclusive = NoUser
\* #reserveSessionLease throws otherwise.
MayReserve(mode) == IF mode = "exclusive" THEN count = 0 ELSE exclusive = NoUser

\* The promises once u has resumed: the last to resume from one drops it.
Resumed(u) ==
    LET k == Waits[phase[u]]
        others == {v \in Users \ {u} : phase[v] \in Waiting /\ Waits[phase[v]] = k}
    IN IF others = {} THEN [promise EXCEPT ![k] = "none"] ELSE promise

-----------------------------------------------------------------------------
(* acquireSession. *)

\* #createSessionLease
CreateLease(u, p) ==
    /\ phase' = [phase EXCEPT ![u] = "leased"]
    /\ leaseGeneration' = [leaseGeneration EXCEPT ![u] = generation]
    /\ promise' = p /\ UNCHANGED <<snapshot, previous>>

\* A bug: a snapshot that is held is kept, and its revision compared.
AttachKeepsSnapshot(u, p) ==
    /\ phase' = [phase EXCEPT ![u] = "attaching"]
    /\ promise' = JoinRequest(p, "attach")
    /\ UNCHANGED <<snapshot, previous, leaseGeneration>>

\* #attachSession, joined if it is under way: the held snapshot is forgotten,
\* for a session that was opened anew counts its revisions anew.
Attach(u, p) ==
    /\ phase' = [phase EXCEPT ![u] = "attaching"]
    /\ promise' = JoinRequest(p, "attach")
    /\ IF p["attach"] = "none" /\ connected
       THEN snapshot' = NoSnapshot /\ previous' = snapshot
       ELSE UNCHANGED <<snapshot, previous>>
    /\ UNCHANGED leaseGeneration

AttachOrLease(u, p, reconciled) ==
    IF reconciled \/ ~attached THEN Attach(u, p) ELSE CreateLease(u, p)

\* A failed detachment is repeated first.
Proceed(u, p) ==
    IF cleanupRequired
    THEN /\ phase' = [phase EXCEPT ![u] = "reconciling"]
         /\ promise' = JoinRequest(p, "reconcile")
         /\ UNCHANGED <<leaseGeneration, snapshot, previous>>
    ELSE AttachOrLease(u, p, FALSE)

Acquire(u, mode) ==
    /\ phase[u] = "idle" /\ Quiet /\ MayReserve(mode)
    /\ count' = count + 1
    /\ exclusive' = IF mode = "exclusive" THEN u ELSE exclusive
    /\ IF promise["detach"] # "none"
       THEN /\ phase' = [phase EXCEPT ![u] = "detaching"]
            /\ UNCHANGED <<promise, leaseGeneration, snapshot, previous>>
       ELSE Proceed(u, promise)
    /\ UNCHANGED <<connected, attached, generation, cleanupRequired, disposing, answer, serverVars,
                   connections>>

\* The lease that is released resumes first from the common promise.
AfterDetachment(u) ==
    /\ phase[u] = "detaching" /\ promise["detach"] \in {"ok", "error"}
    /\ \A v \in Users : phase[v] # "releasing"
    /\ Proceed(u, Resumed(u))
    /\ UNCHANGED <<connected, attached, count, exclusive, generation, cleanupRequired, disposing,
                   answer, serverVars, connections>>

AfterReconciliation(u) ==
    /\ phase[u] = "reconciling"
    /\ \/ /\ promise["reconcile"] = "ok"
          /\ AttachOrLease(u, Resumed(u), TRUE)
          /\ cleanupRequired' = FALSE
          /\ UNCHANGED <<count, exclusive>>
       \/ /\ promise["reconcile"] = "error"
          /\ phase' = [phase EXCEPT ![u] = "idle"] /\ promise' = Resumed(u)
          /\ ReleaseSessionLease(u)
          /\ UNCHANGED <<cleanupRequired, leaseGeneration, snapshot, previous>>
    /\ UNCHANGED <<connected, attached, generation, disposing, answer, serverVars, connections>>

\* A failed attachment gives the snapshot back.
RestoreSnapshot ==
    /\ snapshot' = IF snapshot = NoSnapshot THEN previous ELSE snapshot
    /\ previous' = NoSnapshot

AfterAttachment(u) ==
    /\ phase[u] = "attaching"
    /\ \/ /\ promise["attach"] = "ok"
          /\ CreateLease(u, Resumed(u))
          /\ UNCHANGED <<count, exclusive>>
       \/ /\ promise["attach"] = "error"
          /\ phase' = [phase EXCEPT ![u] = "idle"] /\ promise' = Resumed(u)
          /\ ReleaseSessionLease(u)
          /\ RestoreSnapshot /\ UNCHANGED leaseGeneration
    /\ UNCHANGED <<connected, attached, generation, cleanupRequired, disposing, answer,
                   serverVars, connections>>

-----------------------------------------------------------------------------
(* detach() and dispose() of a lease. *)

Invalidated(u) == leaseGeneration[u] # generation
IsActive(u) == phase[u] = "leased" /\ ~Invalidated(u) /\ attached

\* A release of an invalidated lease does nothing, one of a lease that is not
\* active otherwise throws; the last lease takes the attachment with it.
Release(u, dispose) ==
    /\ phase[u] = "leased" /\ Quiet
    /\ \/ /\ Invalidated(u)
          /\ phase' = [phase EXCEPT ![u] = "idle"]
          /\ UNCHANGED <<promise, count, exclusive, disposing>>
       \/ /\ IsActive(u) /\ connected /\ count <= 1
          /\ phase' = [phase EXCEPT ![u] = "releasing"]
          /\ disposing' = [disposing EXCEPT ![u] = dispose]
          /\ promise' = Request(promise, "detach")
          /\ UNCHANGED <<count, exclusive>>
       \/ /\ IsActive(u) /\ connected /\ count > 1
          /\ phase' = [phase EXCEPT ![u] = "idle"]
          /\ ReleaseSessionLease(u)
          /\ UNCHANGED <<promise, disposing>>
    /\ UNCHANGED <<connected, attached, snapshot, previous, generation, cleanupRequired, leaseGeneration,
                   answer, serverVars, connections>>

\* A bug: the failed detachment is not remembered.
RelinquishForgotten(u) == ReleaseSessionLease(u) /\ UNCHANGED cleanupRequired

\* A failed detach() leaves the lease active; a failed dispose() gives it up and
\* leaves the detachment to the next acquisition.
Relinquish(u) == ReleaseSessionLease(u) /\ cleanupRequired' = TRUE

Released(u) ==
    /\ phase[u] = "releasing" /\ promise["detach"] \in {"ok", "error"}
    /\ promise' = Resumed(u)
    /\ \/ /\ promise["detach"] = "ok"
          /\ phase' = [phase EXCEPT ![u] = "idle"]
          /\ ReleaseSessionLease(u) /\ UNCHANGED cleanupRequired
       \/ /\ promise["detach"] = "error" /\ Invalidated(u)
          /\ phase' = [phase EXCEPT ![u] = "idle"]
          /\ UNCHANGED <<count, exclusive, cleanupRequired>>
       \/ /\ promise["detach"] = "error" /\ ~Invalidated(u) /\ disposing[u]
          /\ phase' = [phase EXCEPT ![u] = "idle"]
          /\ Relinquish(u)
       \/ /\ promise["detach"] = "error" /\ ~Invalidated(u) /\ ~disposing[u]
          /\ phase' = [phase EXCEPT ![u] = "leased"]
          /\ UNCHANGED <<count, exclusive, cleanupRequired>>
    /\ disposing' = [disposing EXCEPT ![u] = FALSE]
    /\ UNCHANGED <<connected, attached, snapshot, previous, generation, leaseGeneration, answer,
                   serverVars, connections>>

-----------------------------------------------------------------------------
(* The connection and its messages. *)

Connect ==
    /\ ~connected /\ Quiet
    /\ connections < MaxConnections /\ connections' = connections + 1
    /\ connected' = TRUE /\ attached' = FALSE /\ snapshot' = NoSnapshot
    /\ UNCHANGED <<previous, count, exclusive, generation, cleanupRequired, promise, userVars, answer, serverVars>>

\* #invalidateSessionLeases
Invalidate ==
    /\ count' = 0 /\ exclusive' = NoUser /\ cleanupRequired' = FALSE
    /\ generation' = generation + 1

\* #handleConnectionStateChange: leases are invalidated, requests rejected.
Disconnect ==
    /\ connected /\ Quiet
    /\ connected' = FALSE /\ attached' = FALSE
    /\ IF count > 0 THEN Invalidate
       ELSE cleanupRequired' = FALSE /\ UNCHANGED <<count, exclusive, generation>>
    /\ promise' = [k \in Kinds |-> IF promise[k] = "pending" THEN "error" ELSE promise[k]]
    /\ answer' = [k \in Kinds |-> "none"]
    /\ serverAttached' = FALSE
    /\ UNCHANGED <<snapshot, previous, userVars, revision, removed, connections>>

\* ClientState.#applySessionSnapshot drops an older revision.
ApplySnapshot(r) ==
    IF r < snapshot THEN UNCHANGED <<snapshot, attached>>
    ELSE snapshot' = r /\ attached' = TRUE

\* An answer arrives: it is applied and the promise settles.
Receive(k) ==
    /\ answer[k] # "none" /\ Quiet
    /\ answer' = [answer EXCEPT ![k] = "none"]
    /\ promise' = [promise EXCEPT ![k] = IF answer[k] = "error" THEN "error" ELSE "ok"]
    /\ \/ /\ answer[k] = "error" /\ UNCHANGED <<attached, snapshot>>
       \/ /\ answer[k] # "error" /\ k = "attach" /\ ApplySnapshot(revision)
       \/ /\ answer[k] # "error" /\ k # "attach" /\ attached' = FALSE /\ UNCHANGED snapshot
    /\ UNCHANGED <<connected, previous, count, exclusive, generation, cleanupRequired, userVars,
                   serverVars, connections>>

\* The server's session_removed event.
Removed ==
    /\ connected /\ serverAttached /\ ~removed /\ Quiet
    /\ \A k \in Kinds : answer[k] = "none"
    /\ removed' = TRUE /\ serverAttached' = FALSE
    /\ Invalidate
    /\ snapshot' = NoSnapshot /\ attached' = FALSE
    /\ UNCHANGED <<connected, previous, promise, userVars, answer, revision, connections>>

-----------------------------------------------------------------------------
(* The server answers (sessions.ts, executeCommand; all of it is in module    *)
(* LiveSessions).  With one client, a session that nobody is attached to is   *)
(* opened anew by the next attachment: it never meets one whose disposal has  *)
(* begun, which run LiveSessionsStaleAttach shows to be possible.             *)

Serve(k) ==
    /\ promise[k] = "pending" /\ answer[k] = "none"
    /\ \/ /\ k = "attach" /\ ~removed
          /\ answer' = [answer EXCEPT ![k] = "ok"]
          /\ serverAttached' = TRUE
          /\ revision' = IF serverAttached THEN revision ELSE 0
       \/ /\ k # "attach"
          /\ answer' = [answer EXCEPT ![k] = "ok"]
          /\ serverAttached' = FALSE /\ UNCHANGED revision
       \/ /\ answer' = [answer EXCEPT ![k] = "error"]
          /\ UNCHANGED <<serverAttached, revision>>
    /\ UNCHANGED <<clientVars, promise, userVars, removed, connections>>

\* A session_snapshot event.
Update ==
    /\ connected /\ serverAttached /\ Quiet /\ \A k \in Kinds : answer[k] = "none"
    /\ revision < MaxRevision /\ revision' = revision + 1
    /\ ApplySnapshot(revision + 1)
    /\ UNCHANGED <<connected, previous, count, exclusive, generation, cleanupRequired, promise,
                   userVars, answer, serverAttached, removed, connections>>

-----------------------------------------------------------------------------
Continue == \E u \in Users : AfterDetachment(u) \/ AfterReconciliation(u) \/ AfterAttachment(u) \/ Released(u)

Next ==
    \/ \E u \in Users : Acquire(u, "shared") \/ Acquire(u, "exclusive")
    \/ \E u \in Users : Release(u, FALSE) \/ Release(u, TRUE)
    \/ Continue
    \/ Connect \/ Disconnect \/ Removed \/ Update
    \/ \E k \in Kinds : Serve(k) \/ Receive(k)

Spec == Init /\ [][Next]_vars

-----------------------------------------------------------------------------
TypeOK ==
    /\ connected \in BOOLEAN /\ attached \in BOOLEAN /\ cleanupRequired \in BOOLEAN
    /\ snapshot \in NoSnapshot .. MaxRevision /\ previous \in NoSnapshot .. MaxRevision
    /\ revision \in 0 .. MaxRevision
    /\ count \in 0 .. Cardinality(Users) /\ exclusive \in Users \cup {NoUser}
    /\ generation \in Nat /\ leaseGeneration \in [Users -> Nat]
    /\ promise \in [Kinds -> {"none", "pending", "ok", "error"}]
    /\ answer \in [Kinds -> {"none", "ok", "error"}]
    /\ phase \in [Users -> {"idle", "leased"} \cup Waiting]
    /\ disposing \in [Users -> BOOLEAN]
    /\ serverAttached \in BOOLEAN /\ removed \in BOOLEAN /\ connections \in 0 .. MaxConnections

\* "Calling `dispose()` or `detach()` releases only that lease" (client/README.md:32):
\* a lease that still counts is attached, here and at the server, whatever the
\* other holders have done (client.ts:235).
LeaseHolds ==
    \A u \in Users :
       Quiet /\ connected /\ phase[u] = "leased" /\ ~Invalidated(u) => attached /\ serverAttached

\* "Exclusive acquisition fails ... while any lease exists, and shared acquisition
\* fails while an exclusive lease exists" (client/README.md:30).
ExclusiveAlone ==
    \A u, v \in Users :
       Quiet /\ IsActive(u) /\ IsActive(v) /\ exclusive = u => v = u

\* "`PiClient` reconciles the failed protocol cleanup before the next acquisition":
\* without leases and requests the server is left attached only if the client
\* knows (client.ts:276).
NoneLeftAttached ==
    (\A u \in Users : phase[u] = "idle") /\ connected /\ serverAttached => cleanupRequired

=============================================================================
