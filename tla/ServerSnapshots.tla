--------------------------- MODULE ServerSnapshots ---------------------------
(***************************************************************************)
(* How clients learn of changes to the server's list of sessions            *)
(* (packages/server/src/snapshots.ts, and the handshake in server.ts): a     *)
(* handshake carries a snapshot, and every change is followed by a broadcast *)
(* of another to the connections that are ready.  A client drops a snapshot  *)
(* whose revision is lower than its own (packages/client/src/state.ts).      *)
(*                                                                         *)
(* The list is a version number; a snapshot pairs a revision with the        *)
(* version that was listed for it.                                           *)
(***************************************************************************)
EXTENDS Integers

CONSTANTS
    Clients,
    MaxVersion     \* bound: changes of the list

VARIABLES
    version,       \* of the list of sessions
    broadcasts,    \* calls of broadcast() that wait in the broadcastQueue
    publishing,    \* the broadcast under way: "no", "listing" or "sending"
    envelope,      \* its snapshot
    recipients,    \* connections it is still to be sent to
    currentRevision,
    stage,         \* of each connection, with the awaits of finishHandshake
    got,           \* the snapshot get() is making for it
    shown,         \* the snapshot the client holds
    missed         \* history: a broadcast was skipped during the handshake

vars == <<version, broadcasts, publishing, envelope, recipients, currentRevision, stage, got, shown,
          missed>>

\* getting, sending: the handshake lists the sessions, sends hello; ready: also
\* while a second snapshot catches up with the broadcasts in between; left: closed
\* after it was ready.
Handshaking == {"getting", "sending"}
Ready == {"ready", "catching", "caught"}
Stages == {"awaitingHello", "closed", "left"} \cup Handshaking \cup Ready
Snapshot(r, v) == [revision |-> r, version |-> v]

Init ==
    /\ version = 0 /\ broadcasts = 0 /\ publishing = "no"
    /\ envelope = Snapshot(0, 0) /\ recipients = {} /\ currentRevision = 0
    /\ stage = [c \in Clients |-> "awaitingHello"]
    /\ got = [c \in Clients |-> Snapshot(0, 0)] /\ shown = [c \in Clients |-> Snapshot(0, 0)]
    /\ missed = [c \in Clients |-> FALSE]

\* The list changes and broadcast() is called: by a request of a connection that is
\* ready, or when a session is disposed after its connections have left.
Change ==
    /\ \E c \in Clients : stage[c] \in Ready \cup {"left"}
    /\ version < MaxVersion /\ version' = version + 1
    /\ broadcasts' = broadcasts + 1
    /\ UNCHANGED <<publishing, envelope, recipients, currentRevision, stage, got, shown, missed>>

-----------------------------------------------------------------------------
(* performBroadcast, one at a time. *)

ReadyConnections == {c \in Clients : stage[c] \in Ready}

PerformBroadcast ==
    /\ publishing = "no" /\ broadcasts > 0
    /\ broadcasts' = broadcasts - 1
    /\ IF ReadyConnections = {}
       THEN /\ missed' = [c \in Clients |-> missed[c] \/ stage[c] \in Handshaking]
            /\ UNCHANGED <<publishing, recipients, currentRevision>>
       ELSE /\ publishing' = "listing" /\ recipients' = ReadyConnections
            /\ currentRevision' = currentRevision + 1
            /\ UNCHANGED missed
    /\ UNCHANGED <<version, envelope, stage, got, shown>>

ListForBroadcast ==
    /\ publishing = "listing" /\ publishing' = "sending"
    /\ envelope' = Snapshot(currentRevision, version)
    /\ UNCHANGED <<version, broadcasts, recipients, currentRevision, stage, got, shown, missed>>

\* applyServerSnapshot
Apply(c, s) ==
    shown' = IF s.revision < shown[c].revision THEN shown ELSE [shown EXCEPT ![c] = s]

SendBroadcast(c) ==
    /\ publishing = "sending" /\ c \in recipients
    /\ recipients' = recipients \ {c}
    /\ IF stage[c] \in Ready THEN Apply(c, envelope) ELSE UNCHANGED shown
    /\ UNCHANGED <<version, broadcasts, publishing, envelope, currentRevision, stage, got, missed>>

EndBroadcast ==
    /\ publishing = "sending" /\ recipients = {} /\ publishing' = "no"
    /\ UNCHANGED <<version, broadcasts, envelope, recipients, currentRevision, stage, got, shown,
                   missed>>

-----------------------------------------------------------------------------
(* finishHandshake. *)

Go(c, next) == stage' = [stage EXCEPT ![c] = next]

\* get() takes the revision at once; the list comes later.
Hello(c) ==
    /\ stage[c] = "awaitingHello" /\ Go(c, "getting")
    /\ got' = [got EXCEPT ![c].revision = currentRevision]
    /\ UNCHANGED <<version, broadcasts, publishing, envelope, recipients, currentRevision, shown,
                   missed>>

List(c) == got' = [got EXCEPT ![c].version = version]

Listed(c) ==
    /\ stage[c] = "getting" /\ Go(c, "sending")
    /\ List(c)
    /\ UNCHANGED <<version, broadcasts, publishing, envelope, recipients, currentRevision, shown,
                   missed>>

\* A bug: what was broadcast during the handshake is not caught up with.
GreetedOnce(c) ==
    /\ stage[c] = "sending"
    /\ shown' = [shown EXCEPT ![c] = got[c]]
    /\ Go(c, "ready")
    /\ UNCHANGED <<version, broadcasts, publishing, envelope, recipients, currentRevision, got, missed>>

\* hello is sent and the connection is ready; if the revision has moved since, a
\* second snapshot follows.
Greeted(c) ==
    /\ stage[c] = "sending"
    /\ shown' = [shown EXCEPT ![c] = got[c]]
    /\ IF got[c].revision # currentRevision
       THEN Go(c, "catching") /\ got' = [got EXCEPT ![c].revision = currentRevision]
       ELSE Go(c, "ready") /\ UNCHANGED got
    /\ UNCHANGED <<version, broadcasts, publishing, envelope, recipients, currentRevision, missed>>

ListedAgain(c) ==
    /\ stage[c] = "catching" /\ Go(c, "caught")
    /\ List(c)
    /\ UNCHANGED <<version, broadcasts, publishing, envelope, recipients, currentRevision, shown,
                   missed>>

CaughtUp(c) ==
    /\ stage[c] = "caught" /\ Go(c, "ready")
    /\ Apply(c, got[c])
    /\ UNCHANGED <<version, broadcasts, publishing, envelope, recipients, currentRevision, got,
                   missed>>

\* A connection that had been ready is missed by the others.
Disconnect(c) ==
    /\ stage[c] \notin {"closed", "left"}
    /\ Go(c, IF stage[c] \in Ready THEN "left" ELSE "closed")
    /\ broadcasts' = IF stage[c] \in Ready THEN broadcasts + 1 ELSE broadcasts
    /\ UNCHANGED <<version, publishing, envelope, recipients, currentRevision, got, shown, missed>>

-----------------------------------------------------------------------------
Handshake(c) == Hello(c) \/ Listed(c) \/ Greeted(c) \/ ListedAgain(c) \/ CaughtUp(c)
Publish == PerformBroadcast \/ ListForBroadcast \/ EndBroadcast \/ \E c \in Clients : SendBroadcast(c)
Next == Change \/ Publish \/ \E c \in Clients : Handshake(c) \/ Disconnect(c)
Spec == Init /\ [][Next]_vars

-----------------------------------------------------------------------------
SnapshotType == [revision : Nat, version : 0 .. MaxVersion]
TypeOK ==
    /\ version \in 0 .. MaxVersion /\ broadcasts \in Nat /\ currentRevision \in Nat
    /\ publishing \in {"no", "listing", "sending"}
    /\ envelope \in SnapshotType /\ recipients \subseteq Clients
    /\ (publishing = "no" => recipients = {})
    /\ stage \in [Clients -> Stages]
    /\ got \in [Clients -> SnapshotType] /\ shown \in [Clients -> SnapshotType]
    /\ missed \in [Clients -> BOOLEAN]

\* "Session and server snapshots are authoritative" (protocol/README.md:10): when
\* no snapshot is on its way, a client that missed no broadcast during its
\* handshake shows the current list (server.ts, finishHandshake).
UpToDate ==
    publishing = "no" /\ broadcasts = 0 =>
        \A c \in Clients : stage[c] = "ready" /\ ~missed[c] => shown[c].version = version

\* "catches up a handshaking client after a concurrent server change"
\* (server/test/conformance.test.ts:126): the same of every client.
HandshakeCatchesUp ==
    publishing = "no" /\ broadcasts = 0 =>
        \A c \in Clients : stage[c] = "ready" => shown[c].version = version
=============================================================================
