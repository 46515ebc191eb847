---------------------------- MODULE LiveSessions ----------------------------
(***************************************************************************)
(* The server's live sessions (packages/server/src/sessions.ts, driven by   *)
(* server.ts): connections attach to durable sessions, the first attachment *)
(* acquires the session's runtime from the service, and the runtime is      *)
(* disposed when nobody is attached, nothing is running and it is idle.     *)
(*                                                                         *)
(* Every request is served concurrently with every other one; an action is  *)
(* the code between two awaits.  Snapshots are read and sent, never stored, *)
(* so only what decides when a request goes on is kept of them.             *)
(***************************************************************************)
EXTENDS Integers, Sequences, FiniteSets

CONSTANTS
    Conns,        \* connections that completed the handshake
    Ids,          \* session identities
    Reqs,         \* bound: requests being served at one time
    MaxRuntimes   \* bound: runtimes asked of the service

VARIABLES
    conn,             \* "ready", "closing" (its transport is closed) or "closed"
    sessionIds,       \* ConnectionState.sessionIds
    liveSessions,     \* id -> LiveSession, 0 for none
    openingSessions,  \* id -> the LiveSession being created, 0 for none
    live,             \* every LiveSession created so far, with its runtime
    req,              \* the requests being served
    closing,          \* how far PiServer.close has come
    awaited           \* the LiveSessions close is waiting for

vars == <<conn, sessionIds, liveSessions, openingSessions, live, req, closing, awaited>>

\* What the theorems need of the bound.
RuntimesAssumption == MaxRuntimes \in Nat

\* acquiring: the service is asked; validating: its snapshot is awaited;
\* rejecting: create() disposes the runtime it cannot use.
Opening == {"acquiring", "validating", "rejecting"}
Stages == Opening \cup {"live", "disposing", "gone", "failed"}
Closings == {"no", "stopping", "disconnecting", "disconnected", "openings", "draining", "closed"}

NewLive(i) ==
    [id |-> i, stage |-> "acquiring", connections |-> {}, operationCount |-> 0,
     busy |-> FALSE, terminal |-> "no", doomed |-> {}]

Idle == [at |-> "idle"]
Busy(at, c, i, r) == [at |-> at, conn |-> c, id |-> i, rt |-> r]
Done(q) == req' = [req EXCEPT ![q] = Idle]

\* What a transport delivers is a task of its own: before it, every request
\* whose awaited disposal is over has gone on.
TaskOrder == \A q \in Reqs : req[q].at = "waiting" => live[req[q].rt].stage # "gone"

Init ==
    /\ conn = [c \in Conns |-> "ready"]
    /\ sessionIds = [c \in Conns |-> {}]
    /\ liveSessions = [i \in Ids |-> 0]
    /\ openingSessions = [i \in Ids |-> 0]
    /\ live = <<>>
    /\ req = [q \in Reqs |-> Idle]
    /\ closing = "no" /\ awaited = {}

-----------------------------------------------------------------------------
(* maybeDispose, up to its first await: a session nobody uses starts to be   *)
(* disposed.                                                                *)

\* A bug: the operations in progress are not counted.
DisposableAnyCount(l) ==
    /\ closing = "no" /\ l.stage = "live" /\ l.connections = {}
    /\ l.terminal # "no" \/ ~l.busy

Disposable(l) ==
    /\ closing = "no" /\ l.stage = "live"
    /\ l.connections = {} /\ l.operationCount = 0
    /\ l.terminal # "no" \/ ~l.busy

MaybeDispose(l) == IF Disposable(l) THEN [l EXCEPT !.stage = "disposing"] ELSE l

\* dispose() settles, rejecting or not; the entry goes unless it was replaced.
DisposeEnd(r) ==
    /\ live[r].stage = "disposing"
    /\ live' = [live EXCEPT ![r].stage = "gone"]
    /\ liveSessions' =
          IF liveSessions[live[r].id] = r THEN [liveSessions EXCEPT ![live[r].id] = 0]
                                          ELSE liveSessions
    /\ UNCHANGED <<conn, sessionIds, openingSessions, req, closing, awaited>>

-----------------------------------------------------------------------------
(* acquire and create. *)

AcquireLocked(q, i) ==
    /\ liveSessions[i] # 0 /\ live[liveSessions[i]].terminal # "no"
    /\ Done(q)
    /\ UNCHANGED <<live, openingSessions>>

AcquireExisting(q, c, i) ==
    /\ liveSessions[i] # 0
    /\ LET r == liveSessions[i]
       IN  /\ live[r].terminal = "no"
           /\ req' = [req EXCEPT ![q] =
                 Busy(IF live[r].stage = "disposing" THEN "waiting" ELSE "acquired", c, i, r)]
    /\ UNCHANGED <<live, openingSessions>>

AcquireOpening(q, c, i) ==
    /\ liveSessions[i] = 0 /\ openingSessions[i] # 0
    /\ req' = [req EXCEPT ![q] = Busy("joining", c, i, openingSessions[i])]
    /\ UNCHANGED <<live, openingSessions>>

\* A bug: a creation in progress is not joined.
AcquireAnew(q, c, i) ==
    /\ liveSessions[i] = 0
    /\ Len(live) < MaxRuntimes
    /\ live' = Append(live, NewLive(i))
    /\ openingSessions' = [openingSessions EXCEPT ![i] = Len(live) + 1]
    /\ req' = [req EXCEPT ![q] = Busy("creating", c, i, Len(live) + 1)]

AcquireNew(q, c, i) ==
    /\ liveSessions[i] = 0 /\ openingSessions[i] = 0
    /\ Len(live) < MaxRuntimes
    /\ live' = Append(live, NewLive(i))
    /\ openingSessions' = [openingSessions EXCEPT ![i] = Len(live) + 1]
    /\ req' = [req EXCEPT ![q] = Busy("creating", c, i, Len(live) + 1)]

Acquire(q, c, i) ==
    /\ \/ AcquireLocked(q, i) \/ AcquireExisting(q, c, i)
       \/ AcquireOpening(q, c, i) \/ AcquireNew(q, c, i)
    /\ UNCHANGED <<conn, sessionIds, liveSessions, closing, awaited>>

\* The `attach` command; `create` is the same for an identity never used before.
AttachRequest(q, c, i) ==
    /\ req[q] = Idle /\ conn[c] = "ready" /\ TaskOrder
    /\ Acquire(q, c, i)

\* acquire() awaited a disposal and tries again ...
WaitOver(q) ==
    /\ req[q].at = "waiting" /\ live[req[q].rt].stage = "gone"
    /\ Acquire(q, req[q].conn, req[q].id)

\* ... or the disposal rejected.
WaitFails(q) ==
    /\ req[q].at = "waiting" /\ live[req[q].rt].stage = "gone"
    /\ Done(q)
    /\ UNCHANGED <<conn, sessionIds, liveSessions, openingSessions, live, closing, awaited>>

\* A bug: create() does not ask whether the server is closing.
ServiceAnswersAnyway(r, ok) ==
    /\ live[r].stage = "acquiring"
    /\ live' = [live EXCEPT ![r].stage = IF ok THEN "validating" ELSE "failed"]
    /\ UNCHANGED <<conn, sessionIds, liveSessions, openingSessions, req, closing, awaited>>

\* openSession or createSession settles.
ServiceAnswers(r, ok) ==
    /\ live[r].stage = "acquiring"
    /\ live' = [live EXCEPT ![r].stage =
          IF ~ok THEN "failed" ELSE IF closing # "no" THEN "rejecting" ELSE "validating"]
    /\ UNCHANGED <<conn, sessionIds, liveSessions, openingSessions, req, closing, awaited>>

\* The runtime's snapshot bears the right identity: the session is live.
Validate(r) ==
    /\ live[r].stage = "validating"
    /\ live' = [live EXCEPT ![r].stage = "live"]
    /\ liveSessions' = [liveSessions EXCEPT ![live[r].id] = r]
    /\ UNCHANGED <<conn, sessionIds, openingSessions, req, closing, awaited>>

\* It does not, or it rejects: the runtime is disposed first.
Invalid(r) ==
    /\ live[r].stage = "validating"
    /\ live' = [live EXCEPT ![r].stage = "rejecting"]
    /\ UNCHANGED <<conn, sessionIds, liveSessions, openingSessions, req, closing, awaited>>

Rejected(r) ==
    /\ live[r].stage = "rejecting"
    /\ live' = [live EXCEPT ![r].stage = "failed"]
    /\ UNCHANGED <<conn, sessionIds, liveSessions, openingSessions, req, closing, awaited>>

\* create() has settled: its caller removes the entry, all who joined go on.
Resume(q) ==
    /\ req[q].at \in {"creating", "joining"}
    /\ LET r == req[q].rt
           i == req[q].id
       IN  /\ live[r].stage \notin Opening
           /\ req' = [req EXCEPT ![q] =
                 IF live[r].stage = "failed" THEN Idle ELSE Busy("acquired", req[q].conn, i, r)]
           /\ openingSessions' =
                 IF req[q].at = "creating" /\ openingSessions[i] = r
                 THEN [openingSessions EXCEPT ![i] = 0] ELSE openingSessions
    /\ UNCHANGED <<conn, sessionIds, liveSessions, live, closing, awaited>>

-----------------------------------------------------------------------------
(* attach, detach and the operations. *)

\* A bug: the connection is not looked at again.
AttachUnchecked(q) ==
    /\ req[q].at = "acquired"
    /\ LET c == req[q].conn
           r == req[q].rt
       IN  /\ sessionIds' = [sessionIds EXCEPT ![c] = @ \cup {live[r].id}]
           /\ live' = [live EXCEPT ![r].connections = @ \cup {c}]
    /\ Done(q)
    /\ UNCHANGED <<conn, liveSessions, openingSessions, closing, awaited>>

\* attach: refused when the connection went away in the meantime.
Attach(q) ==
    /\ req[q].at = "acquired"
    /\ LET c == req[q].conn
           r == req[q].rt
       IN  IF conn[c] = "ready"
           THEN /\ sessionIds' = [sessionIds EXCEPT ![c] = @ \cup {live[r].id}]
                /\ live' = [live EXCEPT ![r].connections = @ \cup {c}]
           ELSE /\ live' = [live EXCEPT ![r] = MaybeDispose(@)]
                /\ UNCHANGED sessionIds
    /\ Done(q)
    /\ UNCHANGED <<conn, liveSessions, openingSessions, closing, awaited>>

\* The `detach` command.  While others are attached a snapshot is broadcast
\* before the session is looked at again.
Detach(q, c, i) ==
    /\ req[q] = Idle /\ conn[c] = "ready" /\ i \in sessionIds[c] /\ TaskOrder
    /\ sessionIds' = [sessionIds EXCEPT ![c] = @ \ {i}]
    /\ LET r == liveSessions[i]
           left == [live[r] EXCEPT !.connections = @ \ {c}]
           broadcast == left.connections # {} /\ left.terminal = "no" /\ left.stage = "live"
       IN  IF r = 0 THEN UNCHANGED <<live, req>>
           ELSE /\ live' = [live EXCEPT ![r] = IF broadcast THEN left ELSE MaybeDispose(left)]
                /\ req' = [req EXCEPT ![q] =
                              IF broadcast THEN Busy("detaching", c, i, r) ELSE Idle]
    /\ UNCHANGED <<conn, liveSessions, openingSessions, closing, awaited>>

DetachEnd(q, snapshotOk) ==
    /\ req[q].at = "detaching"
    /\ live' = IF snapshotOk THEN [live EXCEPT ![req[q].rt] = MaybeDispose(@)] ELSE live
    /\ Done(q)
    /\ UNCHANGED <<conn, sessionIds, liveSessions, openingSessions, closing, awaited>>

\* requireAttached
Attached(c, i) ==
    /\ conn[c] = "ready" /\ i \in sessionIds[c]
    /\ liveSessions[i] # 0
    /\ live[liveSessions[i]].terminal = "no" /\ live[liveSessions[i]].stage = "live"

\* runOperation: prompt, steer, abort, set_model, set_thinking.
Operate(q, c, i) ==
    /\ req[q] = Idle /\ Attached(c, i) /\ TaskOrder
    /\ live' = [live EXCEPT ![liveSessions[i]].operationCount = @ + 1]
    /\ req' = [req EXCEPT ![q] = Busy("operating", c, i, liveSessions[i])]
    /\ UNCHANGED <<conn, sessionIds, liveSessions, openingSessions, closing, awaited>>

\* A bug: the session is not looked at when its last operation ends.
OperationEndsQuietly(q) ==
    /\ req[q].at = "operating"
    /\ live' = [live EXCEPT ![req[q].rt].operationCount = @ - 1]
    /\ Done(q)
    /\ UNCHANGED <<conn, sessionIds, liveSessions, openingSessions, closing, awaited>>

\* The operation and its snapshot settle, whichever way.
OperationEnds(q) ==
    /\ req[q].at = "operating"
    /\ live' = [live EXCEPT ![req[q].rt] =
                   MaybeDispose([live[req[q].rt] EXCEPT !.operationCount = @ - 1])]
    /\ Done(q)
    /\ UNCHANGED <<conn, sessionIds, liveSessions, openingSessions, closing, awaited>>

-----------------------------------------------------------------------------
(* Connections that go away. *)

\* LiveSessionManager.disconnect of each of cs: the session each identity
\* leads to now loses the connection and is looked at.
Without(cs) ==
    [r \in DOMAIN live |->
        LET leavers == {c \in cs : live[r].id \in sessionIds[c]}
        IN  IF liveSessions[live[r].id] = r /\ leavers # {}
            THEN MaybeDispose([live[r] EXCEPT !.connections = @ \ leavers])
            ELSE live[r]]

DisconnectAll(cs) ==
    /\ conn' = [c \in Conns |-> IF c \in cs THEN "closed" ELSE conn[c]]
    /\ sessionIds' = [c \in Conns |-> IF c \in cs THEN {} ELSE sessionIds[c]]

\* The transport closes or fails, or a send fails.
Disconnect(c) ==
    /\ conn[c] # "closed" /\ TaskOrder
    /\ DisconnectAll({c})
    /\ live' = Without({c})
    /\ UNCHANGED <<liveSessions, openingSessions, req, closing, awaited>>

-----------------------------------------------------------------------------
(* What a runtime does of its own accord, while it is subscribed to. *)

Subscribed(r) == live[r].stage = "live" /\ live[r].terminal = "no"

\* An operation makes the runtime busy; the event finds it in use.
RuntimeBusy(r) ==
    /\ Subscribed(r) /\ live[r].operationCount > 0 /\ ~live[r].busy
    /\ live' = [live EXCEPT ![r].busy = TRUE]
    /\ UNCHANGED <<conn, sessionIds, liveSessions, openingSessions, req, closing, awaited>>

\* It becomes idle and says so.
RuntimeIdle(r) ==
    /\ Subscribed(r) /\ live[r].busy
    /\ live' = [live EXCEPT ![r] = MaybeDispose([@ EXCEPT !.busy = FALSE])]
    /\ UNCHANGED <<conn, sessionIds, liveSessions, openingSessions, req, closing, awaited>>

\* A progress or snapshot event.
RuntimeEvent(r) ==
    /\ Subscribed(r)
    /\ live' = [live EXCEPT ![r] = MaybeDispose(@)]
    /\ UNCHANGED <<conn, sessionIds, liveSessions, openingSessions, req, closing, awaited>>

\* terminate: the attached connections are closed ...
RuntimeError(r) ==
    /\ Subscribed(r)
    /\ live' = [live EXCEPT ![r].terminal = "closing", ![r].doomed = live[r].connections]
    /\ conn' = [c \in Conns |->
                   IF c \in live[r].connections /\ conn[c] = "ready" THEN "closing" ELSE conn[c]]
    /\ UNCHANGED <<sessionIds, liveSessions, openingSessions, req, closing, awaited>>

\* ... then disconnected ...
TerminateDisconnect(r) ==
    /\ live[r].terminal = "closing"
    /\ LET cs == {c \in live[r].doomed : conn[c] # "closed"}
       IN  /\ DisconnectAll(cs)
           /\ live' = [Without(cs) EXCEPT ![r].terminal = "last", ![r].doomed = {}]
    /\ UNCHANGED <<liveSessions, openingSessions, req, closing, awaited>>

\* ... and the session is looked at.
TerminateEnd(r) ==
    /\ live[r].terminal = "last"
    /\ live' = [live EXCEPT ![r] = MaybeDispose([@ EXCEPT !.terminal = "done"])]
    /\ UNCHANGED <<conn, sessionIds, liveSessions, openingSessions, req, closing, awaited>>

-----------------------------------------------------------------------------
(* PiServer.close. *)

\* The listeners are closed while the connections still work.
Close ==
    /\ closing = "no" /\ closing' = "stopping"
    /\ UNCHANGED <<conn, sessionIds, liveSessions, openingSessions, live, req, awaited>>

CloseConnections ==
    /\ closing = "stopping" /\ closing' = "disconnecting" /\ TaskOrder
    /\ conn' = [c \in Conns |-> IF conn[c] = "ready" THEN "closing" ELSE conn[c]]
    /\ UNCHANGED <<sessionIds, liveSessions, openingSessions, live, req, awaited>>

CloseDisconnects ==
    /\ closing = "disconnecting" /\ closing' = "disconnected"
    /\ LET cs == {c \in Conns : conn[c] # "closed"}
       IN  DisconnectAll(cs) /\ live' = Without(cs)
    /\ UNCHANGED <<liveSessions, openingSessions, req, awaited>>

\* A bug: the sessions being opened are not awaited.
AwaitNoOpenings ==
    /\ closing = "disconnected" /\ closing' = "openings"
    /\ awaited' = {}
    /\ UNCHANGED <<conn, sessionIds, liveSessions, openingSessions, live, req>>

AwaitOpenings ==
    /\ closing = "disconnected" /\ closing' = "openings"
    /\ awaited' = {openingSessions[i] : i \in Ids} \ {0}
    /\ UNCHANGED <<conn, sessionIds, liveSessions, openingSessions, live, req>>

\* Every live session that is not being disposed already is.
Drain ==
    /\ closing = "openings" /\ closing' = "draining"
    /\ \A r \in awaited : live[r].stage \notin Opening
    /\ awaited' = {liveSessions[i] : i \in Ids} \ {0}
    /\ live' = [r \in DOMAIN live |->
                   IF r \in awaited' THEN [live[r] EXCEPT !.stage = "disposing"] ELSE live[r]]
    /\ liveSessions' = [i \in Ids |-> 0]
    /\ UNCHANGED <<conn, sessionIds, openingSessions, req>>

CloseEnd ==
    /\ closing = "draining" /\ closing' = "closed"
    /\ \A r \in awaited : live[r].stage = "gone"
    /\ UNCHANGED <<conn, sessionIds, liveSessions, openingSessions, live, req, awaited>>

-----------------------------------------------------------------------------
RequestStep(q) ==
    \/ WaitOver(q) \/ WaitFails(q) \/ Resume(q) \/ Attach(q) \/ OperationEnds(q)
    \/ \E ok \in BOOLEAN : DetachEnd(q, ok)

SessionStep(r) ==
    /\ r \in DOMAIN live
    /\ \/ \E ok \in BOOLEAN : ServiceAnswers(r, ok)
       \/ Validate(r) \/ Invalid(r) \/ Rejected(r) \/ DisposeEnd(r)
       \/ RuntimeIdle(r) \/ TerminateDisconnect(r) \/ TerminateEnd(r)

CloseStep ==
    CloseConnections \/ CloseDisconnects \/ AwaitOpenings \/ Drain \/ CloseEnd

Environment ==
    \/ \E q \in Reqs, c \in Conns, i \in Ids :
          AttachRequest(q, c, i) \/ Detach(q, c, i) \/ Operate(q, c, i)
    \/ \E c \in Conns : Disconnect(c)
    \/ \E r \in DOMAIN live : RuntimeBusy(r) \/ RuntimeEvent(r) \/ RuntimeError(r)
    \/ Close

Next ==
    \/ \E q \in Reqs : RequestStep(q)
    \/ \E r \in 1 .. MaxRuntimes : SessionStep(r)
    \/ CloseStep \/ Environment

Spec == Init /\ [][Next]_vars

\* A pending promise settles: the service answers, a runtime is disposed, its
\* operations end and it becomes idle, a transport closes.
Fairness ==
    /\ \A q \in Reqs : WF_vars(RequestStep(q))
    /\ \A r \in 1 .. MaxRuntimes : WF_vars(SessionStep(r))
    /\ WF_vars(CloseStep)

FairSpec == Spec /\ Fairness

-----------------------------------------------------------------------------
Runtimes == 1 .. MaxRuntimes
LiveSession ==
    [id : Ids, stage : Stages, connections : SUBSET Conns, operationCount : Nat,
     busy : BOOLEAN, terminal : {"no", "closing", "last", "done"}, doomed : SUBSET Conns]
Request ==
    {Idle} \cup
    [at : {"waiting", "creating", "joining", "acquired", "operating", "detaching"},
     conn : Conns, id : Ids, rt : Nat \ {0}]

TypeOK ==
    /\ conn \in [Conns -> {"ready", "closing", "closed"}]
    /\ sessionIds \in [Conns -> SUBSET Ids]
    /\ liveSessions \in [Ids -> 0 .. Len(live)]
    /\ openingSessions \in [Ids -> 0 .. Len(live)]
    /\ live \in Seq(LiveSession) /\ Len(live) <= MaxRuntimes
    /\ req \in [Reqs -> Request]
    /\ \A q \in Reqs : req[q] # Idle => req[q].rt <= Len(live)
    /\ closing \in Closings
    /\ awaited \subseteq 1 .. Len(live)

\* The server holds at most one runtime of a session at a time, from the moment
\* it asks the service to the end of the disposal, whatever requests race with
\* the opening, the disposal and the close ("exclusively acquired runtimes",
\* types.ts:54).
Held(r) == live[r].stage \in Opening \cup {"live", "disposing"}
OneRuntimePerSession ==
    \A r, s \in DOMAIN live : r # s /\ Held(r) /\ Held(s) => live[r].id # live[s].id

\* A runtime is not disposed under an operation, unless the server is closing
\* (operationCount, sessions.ts:176).
NoDisposalUnderOperation ==
    \A q \in Reqs :
        req[q].at = "operating" /\ live[req[q].rt].stage # "live" => closing # "no"

\* Only connections that are attached to a live session receive its events, and
\* a connection that is gone keeps no session from being disposed (test
\* sessions.test.ts:206).
ReceiversAreAttached ==
    \A i \in Ids : liveSessions[i] # 0 =>
        \A c \in live[liveSessions[i]].connections : i \in sessionIds[c] /\ conn[c] # "closed"

\* When close has returned, no session is live: a runtime the server still holds
\* is one the service is late with, which create() disposes (sessions.ts:211).
NothingLeftLive ==
    closing = "closed" =>
        \A r \in DOMAIN live : live[r].stage \in {"acquiring", "rejecting", "failed", "gone"}

\* A session nobody uses any more does not stay live (maybeDispose).
Unused(r) ==
    /\ r \in DOMAIN live /\ live[r].stage = "live" /\ closing = "no"
    /\ live[r].connections = {} /\ live[r].operationCount = 0 /\ ~live[r].busy
UnusedReleased == \A r \in Runtimes : Unused(r) ~> ~Unused(r)

\* close returns, and in the end every runtime is given back.
RuntimesReleased ==
    closing = "stopping" ~> closing = "closed" /\ \A r \in DOMAIN live : ~Held(r)

\* "allows every attached client to control a singleton live runtime"
\* (sessions.test.ts:257): the session a connection is attached to, unless it is
\* terminating, is live and counts the connection.
AttachedToLive ==
    closing = "no" =>
        \A c \in Conns : \A i \in sessionIds[c] :
            /\ liveSessions[i] # 0
            /\ c \in live[liveSessions[i]].connections
            /\ live[liveSessions[i]].stage = "live"

\* "disconnects attached clients when a runtime reports a terminal error"
\* (conformance.test.ts:224).
OnTerminal(c, r) ==
    r \in DOMAIN live /\ live[r].terminal # "no" /\ live[r].stage = "live" /\ c \in live[r].connections
TerminalDisconnects ==
    \A r \in Runtimes, c \in Conns : OnTerminal(c, r) ~> ~OnTerminal(c, r)

=============================================================================
