------------------------ MODULE LiveSessions_proofs ------------------------
(***************************************************************************)
(* Proofs about the server's live sessions, for any number of connections,    *)
(* sessions, requests and runtimes: types, that a session has one runtime at  *)
(* a time, that no runtime is disposed under an operation, that only those     *)
(* who are attached receive, and that close leaves nothing live.              *)
(***************************************************************************)
EXTENDS LiveSessions, FiniteSetTheorems, TLAPS

-----------------------------------------------------------------------------
(* What a step does to the runtimes. *)

\* A session that is looked at keeps all but its stage, and starts to be disposed
\* only unused and while the server is open.
Looked(x, y) ==
    /\ y \in LiveSession
    /\ y.id = x.id /\ y.connections = x.connections /\ y.operationCount = x.operationCount
    /\ y.busy = x.busy /\ y.terminal = x.terminal /\ y.doomed = x.doomed
    /\ \/ y.stage = x.stage
       \/ /\ closing = "no" /\ x.stage = "live" /\ y.stage = "disposing"
          /\ x.operationCount = 0 /\ x.connections = {}

\* maybeDispose changes nothing else.
LEMMA LookAt ==
    ASSUME NEW x \in LiveSession
    PROVE  Looked(x, MaybeDispose(x))
<1>1. CASE Disposable(x)
  <2>1. MaybeDispose(x) = [x EXCEPT !.stage = "disposing"]
    BY <1>1 DEF MaybeDispose
  <2>2. closing = "no" /\ x.stage = "live" /\ x.operationCount = 0 /\ x.connections = {}
    BY <1>1 DEF Disposable
  <2> QED BY <2>1, <2>2 DEF Looked, LiveSession, Stages
<1>2. CASE ~Disposable(x)
  BY <1>2 DEF MaybeDispose, Looked
<1> QED BY <1>1, <1>2

\* The runtimes after one of them has become x.
Becomes(r, x) ==
    /\ live' \in Seq(LiveSession) /\ Len(live') = Len(live) /\ live'[r] = x
    /\ \A s \in 1 .. Len(live) : s # r => live'[s] = live[s]

\* Replacing one runtime leaves the others.
LEMMA OneBecomes ==
    ASSUME live \in Seq(LiveSession), NEW r \in 1 .. Len(live), NEW x \in LiveSession,
           live' = [live EXCEPT ![r] = x]
    PROVE  Becomes(r, x)
BY DEF Becomes

\* A request that is served leads to a runtime, and has its connection and identity.
LEMMA Served ==
    ASSUME TypeOK, NEW q \in Reqs, req[q].at # "idle"
    PROVE  /\ req[q].rt \in 1 .. Len(live) /\ req[q].conn \in Conns /\ req[q].id \in Ids
           /\ live[req[q].rt] \in LiveSession
<1>1. req[q] # Idle
  BY DEF Idle
<1>2. req[q] \in Request /\ req[q].rt <= Len(live) /\ Len(live) \in Nat
  BY <1>1 DEF TypeOK
<1>3. req[q].rt \in Nat \ {0} /\ req[q].conn \in Conns /\ req[q].id \in Ids
  BY <1>1, <1>2 DEF Request
<1>4. req[q].rt \in 1 .. Len(live)
  BY <1>2, <1>3
<1> QED BY <1>3, <1>4 DEF TypeOK

\* The request of a slot that is free.
LEMMA Unserved ==
    ASSUME TypeOK, NEW q \in Reqs, req[q] = Idle
    PROVE  req[q].at = "idle"
BY DEF Idle

\* What every action but those that open, validate and dispose does to the
\* runtimes: they stay what they are, or one that nobody uses starts to go.
Keeps(s) ==
    /\ live'[s].id = live[s].id
    /\ \/ live'[s].stage = live[s].stage
       \/ /\ closing = "no" /\ live[s].stage = "live" /\ live'[s].stage = "disposing"
          /\ live'[s].operationCount = 0 /\ live'[s].connections = {}

KeepsRuntimes ==
    /\ live' \in Seq(LiveSession) /\ Len(live') = Len(live)
    /\ \A s \in 1 .. Len(live) : Keeps(s)

\* Nothing happens to the runtimes.
LEMMA SameRuntimes ==
    ASSUME TypeOK, UNCHANGED live
    PROVE  KeepsRuntimes
BY DEF TypeOK, KeepsRuntimes, Keeps

\* One of them is looked at after it changed.
LEMMA LookedRuntimes ==
    ASSUME TypeOK, NEW r \in 1 .. Len(live), NEW x \in LiveSession,
           x.id = live[r].id, x.stage = live[r].stage,
           live' = [live EXCEPT ![r] = x] \/ live' = [live EXCEPT ![r] = MaybeDispose(x)]
    PROVE  /\ KeepsRuntimes
           /\ Looked(x, live'[r])
           /\ \A s \in 1 .. Len(live) : s # r => live'[s] = live[s]
<1>1. live \in Seq(LiveSession)
  BY DEF TypeOK
<1>2. Looked(x, MaybeDispose(x)) /\ MaybeDispose(x) \in LiveSession /\ Looked(x, x)
  BY LookAt DEF Looked
<1>3. PICK y \in LiveSession : Looked(x, y) /\ live' = [live EXCEPT ![r] = y]
  BY <1>2
<1>4. Becomes(r, y)
  BY <1>1, <1>3, OneBecomes
<1>5. Keeps(r)
  BY <1>3, <1>4 DEF Becomes, Looked, Keeps
<1>6. \A s \in 1 .. Len(live) : s # r => Keeps(s)
  BY <1>4 DEF Becomes, Keeps
<1> QED BY <1>3, <1>4, <1>5, <1>6 DEF Becomes, KeepsRuntimes

\* Connections that leave: each session that an identity of theirs leads to loses
\* those of them that are attached, and is looked at.
Leavers(cs, s) == {c \in cs : live[s].id \in sessionIds[c]}
Left(cs, s) ==
    IF liveSessions[live[s].id] = s THEN live[s].connections \ Leavers(cs, s)
                                    ELSE live[s].connections

\* What leaving does to each runtime: the connections are taken out and it is
\* looked at.
LEMMA WithoutThem ==
    ASSUME TypeOK, NEW cs \in SUBSET Conns
    PROVE  /\ Without(cs) \in Seq(LiveSession) /\ Len(Without(cs)) = Len(live)
           /\ \A s \in 1 .. Len(live) :
                 Looked([live[s] EXCEPT !.connections = Left(cs, s)], Without(cs)[s])
<1>1. live \in Seq(LiveSession) /\ Len(live) \in Nat /\ DOMAIN live = 1 .. Len(live)
  BY DEF TypeOK
<1>2. \A s \in 1 .. Len(live) :
        Looked([live[s] EXCEPT !.connections = Left(cs, s)], Without(cs)[s])
  <2> SUFFICES ASSUME NEW s \in 1 .. Len(live)
               PROVE  Looked([live[s] EXCEPT !.connections = Left(cs, s)], Without(cs)[s])
    OBVIOUS
  <2> DEFINE out == [live[s] EXCEPT !.connections = Left(cs, s)]
  <2>1. live[s] \in LiveSession
    BY <1>1
  <2>2. out \in LiveSession
    BY <2>1 DEF Left, LiveSession
  <2>3. CASE liveSessions[live[s].id] = s /\ Leavers(cs, s) # {}
    <3>1. out = [live[s] EXCEPT !.connections = @ \ Leavers(cs, s)]
      BY <2>3 DEF Left
    <3>2. Without(cs)[s] = MaybeDispose(out)
      BY <1>1, <2>3, <3>1 DEF Without, Leavers
    <3> QED BY <2>2, <3>2, LookAt
  <2>4. CASE ~(liveSessions[live[s].id] = s /\ Leavers(cs, s) # {})
    <3>1. Without(cs)[s] = live[s]
      BY <1>1, <2>4 DEF Without, Leavers
    <3>2. Left(cs, s) = live[s].connections
      BY <2>4 DEF Left
    <3>3. out = live[s]
      BY <2>1, <3>2 DEF LiveSession
    <3> QED BY <2>1, <3>1, <3>3 DEF Looked
  <2> QED BY <2>3, <2>4
<1>3. \A s \in 1 .. Len(live) : Without(cs)[s] \in LiveSession
  BY <1>2 DEF Looked
<1>4. DOMAIN Without(cs) = 1 .. Len(live)
  BY <1>1 DEF Without
<1>5. Without(cs) = [s \in 1 .. Len(live) |-> Without(cs)[s]]
  BY <1>1 DEF Without
<1>6. Without(cs) \in Seq(LiveSession)
  BY <1>1, <1>3, <1>5
<1> QED BY <1>1, <1>2, <1>4, <1>6

SameCounts == \A s \in 1 .. Len(live) : live'[s].operationCount = live[s].operationCount
SameConnections == \A s \in 1 .. Len(live) : live'[s].connections = live[s].connections
Quietly == KeepsRuntimes /\ SameCounts /\ SameConnections

\* The steps that use a runtime no more and no less than before.
QuietRequest(q) == WaitFails(q) \/ Resume(q) \/ \E ok \in BOOLEAN : DetachEnd(q, ok)
QuietSession(r) ==
    RuntimeBusy(r) \/ RuntimeIdle(r) \/ RuntimeEvent(r) \/ RuntimeError(r) \/ TerminateEnd(r)
QuietClose == Close \/ CloseConnections \/ AwaitOpenings \/ CloseEnd

\* A step that leaves the runtimes alone is quiet.
LEMMA SameIsQuiet ==
    ASSUME TypeOK, UNCHANGED live
    PROVE  Quietly
BY SameRuntimes DEF Quietly, SameCounts, SameConnections

\* So is one that changes what a runtime says of itself.
LEMMA LookedIsQuiet ==
    ASSUME TypeOK, NEW r \in 1 .. Len(live), NEW x \in LiveSession,
           x.id = live[r].id, x.stage = live[r].stage, x.connections = live[r].connections,
           x.operationCount = live[r].operationCount,
           live' = [live EXCEPT ![r] = x] \/ live' = [live EXCEPT ![r] = MaybeDispose(x)]
    PROVE  Quietly
<1>1. KeepsRuntimes /\ Looked(x, live'[r]) /\ \A s \in 1 .. Len(live) : s # r => live'[s] = live[s]
  BY LookedRuntimes
<1>2. /\ live'[r].connections = live[r].connections
      /\ live'[r].operationCount = live[r].operationCount
  BY <1>1 DEF Looked
<1> QED BY <1>1, <1>2 DEF Quietly, SameCounts, SameConnections

\* The quiet steps of the requests.
LEMMA QuietRequests ==
    ASSUME TypeOK, NEW q \in Reqs, QuietRequest(q)
    PROVE  Quietly
<1>1. CASE WaitFails(q) \/ Resume(q)
  <2>1. UNCHANGED live
    BY <1>1 DEF WaitFails, Resume
  <2> QED BY <2>1, SameIsQuiet
<1>2. CASE \E ok \in BOOLEAN : DetachEnd(q, ok)
  <2>1. PICK ok \in BOOLEAN : DetachEnd(q, ok)
    BY <1>2
  <2>2. req[q].rt \in 1 .. Len(live) /\ live[req[q].rt] \in LiveSession
    BY <2>1, Served DEF DetachEnd
  <2>3. CASE ok
    <3>1. live' = [live EXCEPT ![req[q].rt] = MaybeDispose(live[req[q].rt])]
      BY <2>1, <2>3 DEF DetachEnd
    <3> QED BY <2>2, <3>1, LookedIsQuiet
  <2>4. CASE ~ok
    BY <2>1, <2>4, SameIsQuiet DEF DetachEnd
  <2> QED BY <2>3, <2>4
<1> QED BY <1>1, <1>2 DEF QuietRequest

\* The quiet steps of the runtimes.
LEMMA QuietSessions ==
    ASSUME TypeOK, NEW r \in 1 .. Len(live), QuietSession(r)
    PROVE  Quietly
<1>1. live[r] \in LiveSession /\ Len(live) \in Nat
  BY DEF TypeOK
<1>2. CASE RuntimeBusy(r)
  <2> DEFINE x == [live[r] EXCEPT !.busy = TRUE]
  <2>1. live' = [live EXCEPT ![r] = x]
    BY <1>2 DEF RuntimeBusy
  <2>2. /\ x \in LiveSession /\ x.id = live[r].id /\ x.stage = live[r].stage
        /\ x.connections = live[r].connections /\ x.operationCount = live[r].operationCount
    BY <1>1 DEF LiveSession
  <2> HIDE DEF x
  <2> QED BY <2>1, <2>2, LookedIsQuiet
<1>3. CASE RuntimeIdle(r)
  <2> DEFINE x == [live[r] EXCEPT !.busy = FALSE]
  <2>1. live' = [live EXCEPT ![r] = MaybeDispose(x)]
    BY <1>3 DEF RuntimeIdle
  <2>2. /\ x \in LiveSession /\ x.id = live[r].id /\ x.stage = live[r].stage
        /\ x.connections = live[r].connections /\ x.operationCount = live[r].operationCount
    BY <1>1 DEF LiveSession
  <2> HIDE DEF x
  <2> QED BY <2>1, <2>2, LookedIsQuiet
<1>4. CASE RuntimeEvent(r)
  <2>1. live' = [live EXCEPT ![r] = MaybeDispose(live[r])]
    BY <1>4 DEF RuntimeEvent
  <2> QED BY <1>1, <2>1, LookedIsQuiet
<1>5. CASE RuntimeError(r)
  <2> DEFINE x == [live[r] EXCEPT !.terminal = "closing", !.doomed = live[r].connections]
  <2>1. live' = [live EXCEPT ![r] = x]
    BY <1>5 DEF RuntimeError
  <2>2. /\ x \in LiveSession /\ x.id = live[r].id /\ x.stage = live[r].stage
        /\ x.connections = live[r].connections /\ x.operationCount = live[r].operationCount
    BY <1>1 DEF LiveSession
  <2> HIDE DEF x
  <2> QED BY <2>1, <2>2, LookedIsQuiet
<1>6. CASE TerminateEnd(r)
  <2> DEFINE x == [live[r] EXCEPT !.terminal = "done"]
  <2>1. live' = [live EXCEPT ![r] = MaybeDispose(x)]
    BY <1>6 DEF TerminateEnd
  <2>2. /\ x \in LiveSession /\ x.id = live[r].id /\ x.stage = live[r].stage
        /\ x.connections = live[r].connections /\ x.operationCount = live[r].operationCount
    BY <1>1 DEF LiveSession
  <2> HIDE DEF x
  <2> QED BY <2>1, <2>2, LookedIsQuiet
<1> QED BY <1>2, <1>3, <1>4, <1>5, <1>6 DEF QuietSession

\* attach: the connection is added, or the session is looked at.
LEMMA AttachEffect ==
    ASSUME TypeOK, NEW q \in Reqs, Attach(q)
    PROVE  /\ KeepsRuntimes /\ SameCounts
           /\ \A s \in 1 .. Len(live) : live'[s].connections =
                 IF s = req[q].rt /\ conn[req[q].conn] = "ready"
                 THEN live[s].connections \cup {req[q].conn} ELSE live[s].connections
<1>1. /\ req[q].rt \in 1 .. Len(live) /\ live[req[q].rt] \in LiveSession
      /\ req[q].conn \in Conns
  BY Served DEF Attach
<1> DEFINE r == req[q].rt
           c == req[q].conn
           x == [live[r] EXCEPT !.connections = @ \cup {c}]
<1>2. CASE conn[c] = "ready"
  <2>1. live' = [live EXCEPT ![r] = x]
    BY <1>2 DEF Attach
  <2>2. /\ x \in LiveSession /\ x.id = live[r].id /\ x.stage = live[r].stage
        /\ x.operationCount = live[r].operationCount
        /\ x.connections = live[r].connections \cup {c}
    BY <1>1 DEF LiveSession
  <2> HIDE DEF x
  <2>3. /\ KeepsRuntimes /\ Looked(x, live'[r])
        /\ \A s \in 1 .. Len(live) : s # r => live'[s] = live[s]
    BY <1>1, <2>1, <2>2, LookedRuntimes
  <2>4. live'[r].connections = live[r].connections \cup {c}
    BY <2>2, <2>3 DEF Looked
  <2>5. live'[r].operationCount = live[r].operationCount
    BY <2>2, <2>3 DEF Looked
  <2> QED BY <1>1, <1>2, <2>3, <2>4, <2>5 DEF SameCounts
<1>3. CASE conn[c] # "ready"
  <2>1. live' = [live EXCEPT ![r] = MaybeDispose(live[r])]
    BY <1>3 DEF Attach
  <2>2. Quietly
    BY <1>1, <2>1, LookedIsQuiet
  <2> QED BY <1>3, <2>2 DEF Quietly, SameConnections
<1> QED BY <1>2, <1>3

\* detach: the connection is taken out.
LEMMA DetachEffect ==
    ASSUME TypeOK, NEW q \in Reqs, NEW c \in Conns, NEW i \in Ids, Detach(q, c, i)
    PROVE  /\ KeepsRuntimes /\ SameCounts
           /\ liveSessions[i] # 0 =>
                 live'[liveSessions[i]].connections = live[liveSessions[i]].connections \ {c}
           /\ \A s \in 1 .. Len(live) :
                 s # liveSessions[i] => live'[s].connections = live[s].connections
<1> DEFINE r == liveSessions[i]
           x == [live[r] EXCEPT !.connections = @ \ {c}]
<1>1. r \in 0 .. Len(live) /\ Len(live) \in Nat
  BY DEF TypeOK
<1>2. CASE r = 0
  <2>1. Quietly
    BY <1>2, SameIsQuiet DEF Detach
  <2> QED BY <1>2, <2>1 DEF Quietly, SameConnections
<1>3. CASE r # 0
  <2>1. r \in 1 .. Len(live) /\ live[r] \in LiveSession
    BY <1>1, <1>3 DEF TypeOK
  <2>2. live' = [live EXCEPT ![r] = x] \/ live' = [live EXCEPT ![r] = MaybeDispose(x)]
    BY <1>3 DEF Detach
  <2>3. /\ x \in LiveSession /\ x.id = live[r].id /\ x.stage = live[r].stage
        /\ x.operationCount = live[r].operationCount
        /\ x.connections = live[r].connections \ {c}
    BY <2>1 DEF LiveSession
  <2> HIDE DEF x
  <2>4. /\ KeepsRuntimes /\ Looked(x, live'[r])
        /\ \A s \in 1 .. Len(live) : s # r => live'[s] = live[s]
    BY <2>1, <2>2, <2>3, LookedRuntimes
  <2>5. /\ live'[r].connections = live[r].connections \ {c}
        /\ live'[r].operationCount = live[r].operationCount
    BY <2>3, <2>4 DEF Looked
  <2> QED BY <2>4, <2>5 DEF SameCounts
<1> QED BY <1>2, <1>3

\* An operation is counted as long as it lasts.
LEMMA OperateEffect ==
    ASSUME TypeOK, NEW q \in Reqs, NEW c \in Conns, NEW i \in Ids, Operate(q, c, i)
    PROVE  /\ KeepsRuntimes /\ SameConnections
           /\ liveSessions[i] \in 1 .. Len(live)
           /\ live'[liveSessions[i]].stage = "live"
           /\ \A s \in 1 .. Len(live) : live'[s].operationCount =
                 IF s = liveSessions[i] THEN live[s].operationCount + 1 ELSE live[s].operationCount
<1> DEFINE r == liveSessions[i]
           x == [live[r] EXCEPT !.operationCount = @ + 1]
<1>1. r \in 1 .. Len(live) /\ live[r] \in LiveSession /\ live[r].stage = "live"
  BY DEF TypeOK, Operate, Attached
<1>2. live' = [live EXCEPT ![r] = x]
  BY DEF Operate
<1>3. /\ x \in LiveSession /\ x.id = live[r].id /\ x.stage = live[r].stage
      /\ x.operationCount = live[r].operationCount + 1 /\ x.connections = live[r].connections
  BY <1>1 DEF LiveSession
<1>4. live \in Seq(LiveSession)
  BY DEF TypeOK
<1> HIDE DEF x
<1>5. KeepsRuntimes
  BY <1>1, <1>2, <1>3, LookedRuntimes
<1>6. Becomes(r, x)
  BY <1>1, <1>2, <1>3, <1>4, OneBecomes
<1> HIDE DEF r
<1>7. live'[r].stage = "live" /\ SameConnections
  BY <1>1, <1>3, <1>6 DEF Becomes, SameConnections
<1>8. \A s \in 1 .. Len(live) : live'[s].operationCount =
        IF s = r THEN live[s].operationCount + 1 ELSE live[s].operationCount
  BY <1>1, <1>3, <1>6 DEF Becomes
<1> QED BY <1>1, <1>5, <1>7, <1>8 DEF r

\* The end of an operation takes it off the count again.
LEMMA OperationEndsEffect ==
    ASSUME TypeOK, NEW q \in Reqs, OperationEnds(q), live[req[q].rt].operationCount > 0
    PROVE  /\ KeepsRuntimes /\ SameConnections
           /\ \A s \in 1 .. Len(live) : live'[s].operationCount =
                 IF s = req[q].rt THEN live[s].operationCount - 1 ELSE live[s].operationCount
<1> DEFINE r == req[q].rt
           x == [live[r] EXCEPT !.operationCount = @ - 1]
<1>1. r \in 1 .. Len(live) /\ live[r] \in LiveSession
  BY Served DEF OperationEnds
<1>2. live' = [live EXCEPT ![r] = MaybeDispose(x)]
  BY DEF OperationEnds
<1>3. /\ x \in LiveSession /\ x.id = live[r].id /\ x.stage = live[r].stage
      /\ x.operationCount = live[r].operationCount - 1 /\ x.connections = live[r].connections
  BY <1>1 DEF LiveSession
<1> HIDE DEF x
<1>4. KeepsRuntimes /\ Looked(x, live'[r]) /\ \A s \in 1 .. Len(live) : s # r => live'[s] = live[s]
  BY <1>1, <1>2, <1>3, LookedRuntimes
<1>5. /\ live'[r].connections = live[r].connections
      /\ live'[r].operationCount = live[r].operationCount - 1
  BY <1>3, <1>4 DEF Looked
<1> QED BY <1>4, <1>5 DEF SameConnections

\* Connections that leave.
Leaves(cs) ==
    /\ KeepsRuntimes /\ SameCounts
    /\ \A s \in 1 .. Len(live) : live'[s].connections = Left(cs, s)

\* Connections that leave change who receives, and no runtime's count.
LEMMA LeaveEffect ==
    ASSUME TypeOK, NEW cs \in SUBSET Conns, live' = Without(cs)
    PROVE  Leaves(cs)
<1>1. /\ live' \in Seq(LiveSession) /\ Len(live') = Len(live)
      /\ \A s \in 1 .. Len(live) :
            Looked([live[s] EXCEPT !.connections = Left(cs, s)], live'[s])
  BY WithoutThem
<1>2. ASSUME NEW s \in 1 .. Len(live)
      PROVE  /\ Keeps(s) /\ live'[s].operationCount = live[s].operationCount
             /\ live'[s].connections = Left(cs, s)
  <2> DEFINE x == [live[s] EXCEPT !.connections = Left(cs, s)]
  <2>1. /\ x.id = live[s].id /\ x.stage = live[s].stage
        /\ x.operationCount = live[s].operationCount /\ x.connections = Left(cs, s)
    BY DEF TypeOK, LiveSession
  <2>2. Looked(x, live'[s])
    BY <1>1
  <2> HIDE DEF x
  <2> QED BY <2>1, <2>2 DEF Looked, Keeps
<1> QED BY <1>1, <1>2 DEF Leaves, KeepsRuntimes, SameCounts

\* The termination of a runtime disconnects those who were attached to it.
LEMMA TerminateEffect ==
    ASSUME TypeOK, NEW r \in 1 .. Len(live), TerminateDisconnect(r)
    PROVE  \E cs \in SUBSET Conns : Leaves(cs) /\ DisconnectAll(cs)
<1> DEFINE cs == {c \in live[r].doomed : conn[c] # "closed"}
           w == Without(cs)
           x == [w[r] EXCEPT !.terminal = "last", !.doomed = {}]
<1>1. live[r] \in LiveSession
  BY DEF TypeOK
<1>2. cs \in SUBSET Conns
  BY <1>1 DEF LiveSession
<1>3. /\ w \in Seq(LiveSession) /\ Len(w) = Len(live)
      /\ \A s \in 1 .. Len(live) :
            Looked([live[s] EXCEPT !.connections = Left(cs, s)], w[s])
  BY <1>2, WithoutThem
<1>4. live' = [w EXCEPT ![r] = x] /\ DisconnectAll(cs)
  BY DEF TerminateDisconnect
<1> HIDE DEF cs, w
<1>5. w[r] \in LiveSession
  BY <1>3
<1>6. /\ x \in LiveSession /\ x.id = w[r].id /\ x.stage = w[r].stage
      /\ x.operationCount = w[r].operationCount /\ x.connections = w[r].connections
  BY <1>5 DEF LiveSession
<1> HIDE DEF x
<1>7. /\ live' \in Seq(LiveSession) /\ Len(live') = Len(live)
      /\ \A s \in 1 .. Len(live) :
            /\ live'[s].id = w[s].id /\ live'[s].stage = w[s].stage
            /\ live'[s].operationCount = w[s].operationCount
            /\ live'[s].connections = w[s].connections
  BY <1>3, <1>4, <1>6
<1>8. ASSUME NEW s \in 1 .. Len(live)
      PROVE  /\ Keeps(s) /\ live'[s].operationCount = live[s].operationCount
             /\ live'[s].connections = Left(cs, s)
  <2> DEFINE y == [live[s] EXCEPT !.connections = Left(cs, s)]
  <2>1. /\ y.id = live[s].id /\ y.stage = live[s].stage
        /\ y.operationCount = live[s].operationCount /\ y.connections = Left(cs, s)
    BY DEF TypeOK, LiveSession
  <2>2. Looked(y, w[s])
    BY <1>3
  <2> HIDE DEF y
  <2> QED BY <1>7, <2>1, <2>2 DEF Looked, Keeps
<1>9. Leaves(cs)
  BY <1>7, <1>8 DEF Leaves, KeepsRuntimes, SameCounts
<1> QED BY <1>2, <1>4, <1>9

-----------------------------------------------------------------------------
(* The steps, by what they do to the runtimes. *)

\* A request asks for the runtime of a session, at first or again.
Asks(q, c, i) ==
    /\ Acquire(q, c, i)
    /\ \/ req[q] = Idle /\ conn[c] = "ready" /\ TaskOrder
       \/ /\ req[q].at = "waiting" /\ live[req[q].rt].stage = "gone"
          /\ c = req[q].conn /\ i = req[q].id

Leaving(cs) ==
    /\ Leaves(cs) /\ DisconnectAll(cs)
    /\ UNCHANGED <<liveSessions, openingSessions, req, awaited>>
    /\ \/ UNCHANGED closing
       \/ /\ closing = "disconnecting" /\ closing' = "disconnected"
          /\ \A c \in Conns : conn[c] # "closed" => c \in cs

\* The stages of opening and of disposal.
Proceeds(r) ==
    (\E ok \in BOOLEAN : ServiceAnswers(r, ok)) \/ Invalid(r) \/ Rejected(r)

\* Every step is one of these.
LEMMA Steps ==
    ASSUME TypeOK, [Next]_vars
    PROVE  \/ UNCHANGED vars
           \/ \E q \in Reqs : QuietRequest(q) \/ Attach(q) \/ OperationEnds(q)
           \/ \E q \in Reqs, c \in Conns, i \in Ids :
                 Asks(q, c, i) \/ Detach(q, c, i) \/ Operate(q, c, i)
           \/ \E r \in 1 .. Len(live) :
                 QuietSession(r) \/ Proceeds(r) \/ Validate(r) \/ DisposeEnd(r)
           \/ \E cs \in SUBSET Conns : Leaving(cs)
           \/ QuietClose \/ Drain
<1>1. Len(live) \in Nat /\ DOMAIN live = 1 .. Len(live)
  BY DEF TypeOK
<1>2. ASSUME NEW q \in Reqs, RequestStep(q)
      PROVE  \/ QuietRequest(q) \/ Attach(q) \/ OperationEnds(q)
             \/ \E c \in Conns, i \in Ids : Asks(q, c, i)
  <2>1. CASE WaitOver(q)
    <3>1. req[q].conn \in Conns /\ req[q].id \in Ids
      BY <2>1, Served DEF WaitOver
    <3> QED BY <2>1, <3>1 DEF WaitOver, Asks
  <2>2. CASE ~WaitOver(q)
    BY <1>2, <2>2 DEF RequestStep, QuietRequest
  <2> QED BY <2>1, <2>2
<1>3. ASSUME NEW cs \in SUBSET Conns, live' = Without(cs), DisconnectAll(cs),
             UNCHANGED <<liveSessions, openingSessions, req, awaited>>,
             \/ UNCHANGED closing
             \/ /\ closing = "disconnecting" /\ closing' = "disconnected"
                /\ \A c \in Conns : conn[c] # "closed" => c \in cs
      PROVE  Leaving(cs)
  BY <1>3, LeaveEffect DEF Leaving
<1>4. ASSUME NEW r \in 1 .. Len(live), SessionStep(r)
      PROVE  \/ QuietSession(r) \/ Proceeds(r) \/ Validate(r) \/ DisposeEnd(r)
             \/ \E cs \in SUBSET Conns : Leaving(cs)
  <2>1. CASE TerminateDisconnect(r)
    <3>1. PICK cs \in SUBSET Conns : Leaves(cs) /\ DisconnectAll(cs)
      BY <2>1, TerminateEffect
    <3>2. Leaving(cs)
      BY <2>1, <3>1 DEF Leaving, TerminateDisconnect
    <3> QED BY <3>2
  <2>2. CASE ~TerminateDisconnect(r)
    BY <1>4, <2>2 DEF SessionStep, QuietSession, Proceeds
  <2> QED BY <2>1, <2>2
<1>5. ASSUME NEW c \in Conns, Disconnect(c)
      PROVE  \E cs \in SUBSET Conns : Leaving(cs)
  <2>1. {c} \in SUBSET Conns
    OBVIOUS
  <2>2. Leaving({c})
    BY <1>3, <1>5, <2>1 DEF Disconnect
  <2> QED BY <2>1, <2>2
<1>6. ASSUME CloseDisconnects
      PROVE  \E cs \in SUBSET Conns : Leaving(cs)
  <2> DEFINE cs == {c \in Conns : conn[c] # "closed"}
  <2>1. cs \in SUBSET Conns /\ \A c \in Conns : conn[c] # "closed" => c \in cs
    OBVIOUS
  <2>2. /\ live' = Without(cs) /\ DisconnectAll(cs)
        /\ UNCHANGED <<liveSessions, openingSessions, req, awaited>>
        /\ closing = "disconnecting" /\ closing' = "disconnected"
    BY <1>6 DEF CloseDisconnects
  <2> HIDE DEF cs
  <2>3. Leaving(cs)
    BY <1>3, <2>1, <2>2
  <2> QED BY <2>1, <2>3
<1>7. CASE \E q \in Reqs : RequestStep(q)
  BY <1>2, <1>7
<1>8. CASE \E r \in 1 .. MaxRuntimes : SessionStep(r)
  <2>1. PICK r \in 1 .. Len(live) : SessionStep(r)
    BY <1>1, <1>8 DEF SessionStep
  <2> QED BY <1>4, <2>1
<1>9. CASE CloseStep
  BY <1>6, <1>9 DEF CloseStep, QuietClose
<1>10. CASE Environment
  <2>1. CASE \E q \in Reqs, c \in Conns, i \in Ids :
               AttachRequest(q, c, i) \/ Detach(q, c, i) \/ Operate(q, c, i)
    BY <2>1 DEF AttachRequest, Asks
  <2>2. CASE \E c \in Conns : Disconnect(c)
    BY <1>5, <2>2
  <2>3. CASE \E r \in DOMAIN live : RuntimeBusy(r) \/ RuntimeEvent(r) \/ RuntimeError(r)
    BY <1>1, <2>3 DEF QuietSession
  <2>4. CASE Close
    BY <2>4 DEF QuietClose
  <2> QED BY <1>10, <2>1, <2>2, <2>3, <2>4 DEF Environment
<1> QED BY <1>7, <1>8, <1>9, <1>10 DEF Next

-----------------------------------------------------------------------------
(* Types. *)

\* The requests that lead to an operation on a runtime: operationCount is their
\* number, so it never falls below zero.
Ops(r) == {q \in Reqs : req[q].at = "operating" /\ req[q].rt = r}
OpsInv ==
    \A r \in 1 .. Len(live) :
        IsFiniteSet(Ops(r)) /\ live[r].operationCount = Cardinality(Ops(r))

\* An operation in progress is counted.
LEMMA OperationCounted ==
    ASSUME TypeOK, OpsInv, NEW q \in Reqs, req[q].at = "operating"
    PROVE  req[q].rt \in 1 .. Len(live) /\ live[req[q].rt].operationCount > 0
<1> DEFINE r == req[q].rt
<1>1. r \in 1 .. Len(live)
  BY Served
<1>2. IsFiniteSet(Ops(r)) /\ live[r].operationCount = Cardinality(Ops(r)) /\ q \in Ops(r)
  BY <1>1 DEF OpsInv, Ops
<1> HIDE DEF r
<1>3. Cardinality(Ops(r)) \in Nat /\ Cardinality(Ops(r)) # 0
  BY <1>2, FS_CardinalityType, FS_EmptySet
<1> QED BY <1>1, <1>2, <1>3 DEF r

\* Runtimes are only ever added.
LongerLive == Len(live') \in Nat /\ Len(live) <= Len(live')

\* A step that adds no runtime leaves none out either.
LEMMA SameLength ==
    ASSUME TypeOK, Len(live') = Len(live)
    PROVE  LongerLive
<1>1. Len(live) \in Nat
  BY DEF TypeOK
<1>2. Len(live) <= Len(live)
  BY <1>1
<1> QED BY <1>1, <1>2 DEF LongerLive

\* The requests keep their type when one of them goes on.
RequestsOK ==
    /\ req \in [Reqs -> Request]
    /\ \A q \in Reqs : req[q] # Idle => req[q].rt <= Len(live)

\* One request takes its next value, of a runtime there is.
LEMMA GoesOn ==
    ASSUME TypeOK, NEW q \in Reqs, NEW x \in Request, req' = [req EXCEPT ![q] = x],
           LongerLive, x = Idle \/ x.rt <= Len(live')
    PROVE  RequestsOK'
<1>1. ASSUME NEW p \in Reqs, req'[p] # Idle
      PROVE  req'[p].rt <= Len(live')
  <2>1. CASE p = q
    BY <1>1, <2>1 DEF TypeOK
  <2>2. CASE p # q
    <3>1. req'[p] = req[p] /\ req[p] # Idle
      BY <1>1, <2>2 DEF TypeOK
    <3>2. req[p] \in Request /\ req[p].rt <= Len(live) /\ Len(live) \in Nat
      BY <3>1 DEF TypeOK
    <3>3. req[p].rt \in Nat
      BY <3>1, <3>2 DEF Request
    <3> QED BY <3>1, <3>2, <3>3 DEF LongerLive
  <2> QED BY <2>1, <2>2
<1>2. req' \in [Reqs -> Request]
  BY DEF TypeOK
<1> QED BY <1>1, <1>2 DEF RequestsOK

\* It is done.
LEMMA GoesIdle ==
    ASSUME TypeOK, NEW q \in Reqs, req' = [req EXCEPT ![q] = Idle],
           LongerLive
    PROVE  RequestsOK'
<1>1. Idle \in Request
  BY DEF Request
<1> QED BY <1>1, GoesOn

\* It goes on with a runtime.
LEMMA GoesBusy ==
    ASSUME TypeOK, NEW q \in Reqs, LongerLive,
           NEW a \in {"waiting", "creating", "joining", "acquired", "operating", "detaching"},
           NEW c \in Conns, NEW i \in Ids, NEW r \in 1 .. Len(live'),
           req' = [req EXCEPT ![q] = Busy(a, c, i, r)]
    PROVE  RequestsOK'
<1> DEFINE x == Busy(a, c, i, r)
<1>1. x \in Request /\ x.rt = r
  BY DEF Busy, Request
<1>2. req' = [req EXCEPT ![q] = x] /\ r <= Len(live')
  OBVIOUS
<1> HIDE DEF x
<1> QED BY <1>1, <1>2, GoesOn

\* The requests stay as they are.
LEMMA StaysOn ==
    ASSUME TypeOK, UNCHANGED req, LongerLive
    PROVE  RequestsOK'
<1>1. ASSUME NEW p \in Reqs, req[p] # Idle
      PROVE  req[p].rt <= Len(live')
  <2>1. req[p] \in Request /\ req[p].rt <= Len(live) /\ Len(live) \in Nat
    BY <1>1 DEF TypeOK
  <2>2. req[p].rt \in Nat
    BY <1>1, <2>1 DEF Request
  <2> QED BY <2>1, <2>2 DEF LongerLive
<1> QED BY <1>1 DEF TypeOK, RequestsOK

\* The tables of sessions.
TablesOK ==
    /\ conn \in [Conns -> {"ready", "closing", "closed"}]
    /\ sessionIds \in [Conns -> SUBSET Ids]
    /\ closing \in Closings
SessionsOK ==
    /\ liveSessions \in [Ids -> 0 .. Len(live)]
    /\ openingSessions \in [Ids -> 0 .. Len(live)]
    /\ awaited \subseteq 1 .. Len(live)
RuntimesOK == live \in Seq(LiveSession) /\ Len(live) <= MaxRuntimes

\* The parts of the type invariant.
LEMMA TypeParts == TablesOK' /\ SessionsOK' /\ RuntimesOK' /\ RequestsOK' => TypeOK'
BY DEF TypeOK, TablesOK, SessionsOK, RuntimesOK, RequestsOK

\* A new runtime comes last.
LEMMA Anew ==
    ASSUME RuntimesAssumption, TypeOK, NEW i \in Ids, Len(live) < MaxRuntimes,
           live' = Append(live, NewLive(i))
    PROVE  /\ RuntimesOK' /\ NewLive(i) \in LiveSession
           /\ Len(live') = Len(live) + 1 /\ Len(live) \in Nat
           /\ live'[Len(live) + 1] = NewLive(i)
           /\ \A s \in 1 .. Len(live) : live'[s] = live[s]
<1>1. NewLive(i) \in LiveSession
  BY DEF NewLive, LiveSession, Stages, Opening
<1>2. live \in Seq(LiveSession) /\ Len(live) \in Nat
  BY DEF TypeOK
<1> HIDE DEF NewLive
<1>3. /\ live' \in Seq(LiveSession) /\ Len(live') = Len(live) + 1
      /\ live'[Len(live) + 1] = NewLive(i)
      /\ \A s \in 1 .. Len(live) : live'[s] = live[s]
  BY <1>1, <1>2
<1> QED BY <1>1, <1>2, <1>3 DEF RuntimesOK, RuntimesAssumption

\* A request that asks is answered, waits, joins or creates.
LEMMA AskEffect ==
    ASSUME RuntimesAssumption, TypeOK, NEW q \in Reqs, NEW c \in Conns, NEW i \in Ids,
           Asks(q, c, i)
    PROVE  \/ /\ UNCHANGED <<live, openingSessions>>
              /\ \/ Done(q)
                 \/ /\ liveSessions[i] # 0
                    /\ req' = [req EXCEPT ![q] =
                          Busy(IF live[liveSessions[i]].stage = "disposing" THEN "waiting"
                               ELSE "acquired", c, i, liveSessions[i])]
                 \/ /\ openingSessions[i] # 0
                    /\ req' = [req EXCEPT ![q] = Busy("joining", c, i, openingSessions[i])]
           \/ AcquireNew(q, c, i)
BY DEF Asks, Acquire, AcquireLocked, AcquireExisting, AcquireOpening

\* Such a step keeps the types.
LEMMA AskTypes ==
    ASSUME RuntimesAssumption, TypeOK, NEW q \in Reqs, NEW c \in Conns, NEW i \in Ids,
           Asks(q, c, i)
    PROVE  SessionsOK' /\ RuntimesOK' /\ RequestsOK'
<1>1. /\ liveSessions[i] \in 0 .. Len(live) /\ openingSessions[i] \in 0 .. Len(live)
      /\ Len(live) \in Nat
  BY DEF TypeOK
<1>2. UNCHANGED <<liveSessions, awaited>>
  BY DEF Asks, Acquire
<1>3. CASE AcquireNew(q, c, i)
  <2>1. RuntimesOK' /\ Len(live') = Len(live) + 1
    BY <1>3, Anew DEF AcquireNew
  <2>6. LongerLive
    BY <1>1, <2>1 DEF LongerLive
  <2>2. Len(live) + 1 \in Nat \ {0}
    BY <1>1
  <2>3. RequestsOK'
    <3>1. req' = [req EXCEPT ![q] = Busy("creating", c, i, Len(live) + 1)]
      BY <1>3 DEF AcquireNew
    <3>2. Len(live) + 1 \in 1 .. Len(live')
      BY <1>1, <2>1
    <3> QED BY <2>1, <2>2, <2>6, <3>1, <3>2, GoesBusy
  <2>4. SessionsOK'
    BY <1>1, <1>2, <1>3, <2>1 DEF AcquireNew, TypeOK, SessionsOK
  <2> QED BY <2>1, <2>3, <2>4
<1>4. CASE ~AcquireNew(q, c, i)
  <2>1. UNCHANGED <<live, openingSessions>>
    BY <1>4, AskEffect
  <2>2. SessionsOK' /\ RuntimesOK'
    BY <1>2, <2>1 DEF TypeOK, SessionsOK, RuntimesOK
  <2>6. LongerLive
    BY <2>1, SameLength
  <2>3. CASE Done(q)
    BY <2>2, <2>3, <2>6, GoesIdle DEF Done
  <2>4. CASE /\ liveSessions[i] # 0
             /\ req' = [req EXCEPT ![q] =
                   Busy(IF live[liveSessions[i]].stage = "disposing" THEN "waiting"
                        ELSE "acquired", c, i, liveSessions[i])]
    <3>1. liveSessions[i] \in 1 .. Len(live')
      BY <1>1, <2>1, <2>4
    <3>2. CASE live[liveSessions[i]].stage = "disposing"
      BY <2>2, <2>4, <2>6, <3>1, <3>2, GoesBusy
    <3>3. CASE live[liveSessions[i]].stage # "disposing"
      BY <2>2, <2>4, <2>6, <3>1, <3>3, GoesBusy
    <3> QED BY <3>2, <3>3
  <2>5. CASE /\ openingSessions[i] # 0
             /\ req' = [req EXCEPT ![q] = Busy("joining", c, i, openingSessions[i])]
    <3>1. openingSessions[i] \in 1 .. Len(live')
      BY <1>1, <2>1, <2>5
    <3> QED BY <2>2, <2>5, <2>6, <3>1, GoesBusy
  <2> QED BY <1>4, <2>3, <2>4, <2>5, AskEffect
<1> QED BY <1>3, <1>4

\* A step that keeps the runtimes keeps their types.
LEMMA KeptTypes ==
    ASSUME RuntimesAssumption, TypeOK, KeepsRuntimes
    PROVE  RuntimesOK' /\ Len(live') = Len(live) /\ LongerLive
<1>1. RuntimesOK' /\ Len(live') = Len(live)
  BY DEF RuntimesAssumption, TypeOK, KeepsRuntimes, RuntimesOK
<1> QED BY <1>1, SameLength

\* The next stage of a runtime.
LEMMA ProceedEffect ==
    ASSUME TypeOK, NEW r \in 1 .. Len(live),
           Proceeds(r) \/ Validate(r) \/ DisposeEnd(r)
    PROVE  /\ live' \in Seq(LiveSession) /\ Len(live') = Len(live)
           /\ \A s \in 1 .. Len(live) : live'[s].id = live[s].id
           /\ SameCounts /\ SameConnections
           /\ \A s \in 1 .. Len(live) : s # r => live'[s].stage = live[s].stage
           /\ Proceeds(r) =>
                 \/ /\ live[r].stage \in Opening /\ live'[r].stage \in {"rejecting", "failed"}
                 \/ /\ live[r].stage \in Opening /\ live'[r].stage = "validating" /\ closing = "no"
           /\ Validate(r) => live'[r].stage = "live"
           /\ DisposeEnd(r) => live'[r].stage = "gone"
<1>1. live \in Seq(LiveSession) /\ live[r] \in LiveSession
  BY DEF TypeOK
<1>2. PICK st \in Stages :
        /\ live' = [live EXCEPT ![r].stage = st]
        /\ Proceeds(r) =>
              \/ /\ live[r].stage \in Opening /\ st \in {"rejecting", "failed"}
              \/ /\ live[r].stage \in Opening /\ st = "validating" /\ closing = "no"
        /\ Validate(r) => st = "live"
        /\ DisposeEnd(r) => st = "gone"
  <2>1. CASE \E ok \in BOOLEAN : ServiceAnswers(r, ok)
    <3>1. PICK ok \in BOOLEAN : ServiceAnswers(r, ok)
      BY <2>1
    <3>2. live[r].stage = "acquiring"
      BY <3>1 DEF ServiceAnswers
    <3>3. ~Validate(r) /\ ~DisposeEnd(r)
      BY <3>2 DEF Validate, DisposeEnd
    <3> QED BY <3>1, <3>2, <3>3 DEF ServiceAnswers, Stages, Opening
  <2>2. CASE Invalid(r)
    <3>1. ~DisposeEnd(r)
      BY <2>2 DEF Invalid, DisposeEnd
    <3>2. ~Validate(r)
      <4>1. live'[r].stage = "rejecting"
        BY <1>1, <2>2 DEF Invalid, LiveSession
      <4>2. Validate(r) => live'[r].stage = "live"
        BY <1>1 DEF Validate, LiveSession
      <4> QED BY <4>1, <4>2
    <3> QED BY <2>2, <3>1, <3>2 DEF Invalid, Stages, Opening
  <2>3. CASE Rejected(r)
    <3>1. ~DisposeEnd(r) /\ ~Validate(r)
      BY <2>3 DEF Rejected, DisposeEnd, Validate
    <3> QED BY <2>3, <3>1 DEF Rejected, Stages, Opening
  <2>4. CASE ~Proceeds(r) /\ Validate(r)
    <3>1. ~DisposeEnd(r)
      BY <2>4 DEF DisposeEnd, Validate
    <3> QED BY <2>4, <3>1 DEF Validate, Stages, Opening
  <2>5. CASE ~Proceeds(r) /\ DisposeEnd(r)
    <3>1. ~Validate(r)
      BY <2>5 DEF DisposeEnd, Validate
    <3> QED BY <2>5, <3>1 DEF DisposeEnd, Stages, Opening
  <2> QED BY <2>1, <2>2, <2>3, <2>4, <2>5 DEF Proceeds
<1> DEFINE x == [live[r] EXCEPT !.stage = st]
<1>3. /\ x \in LiveSession /\ x.id = live[r].id /\ x.stage = st
      /\ x.operationCount = live[r].operationCount /\ x.connections = live[r].connections
  BY <1>1 DEF LiveSession
<1>4. live' = [live EXCEPT ![r] = x]
  BY <1>2
<1> HIDE DEF x
<1>5. Becomes(r, x)
  BY <1>1, <1>3, <1>4, OneBecomes
<1> QED BY <1>2, <1>3, <1>5 DEF Becomes, SameCounts, SameConnections

\* close starts the disposal of every live session.
LEMMA DrainEffect ==
    ASSUME TypeOK, Drain
    PROVE  /\ live' \in Seq(LiveSession) /\ Len(live') = Len(live)
           /\ awaited' = {liveSessions[i] : i \in Ids} \ {0}
           /\ awaited' \subseteq 1 .. Len(live)
           /\ \A s \in 1 .. Len(live) : live'[s].id = live[s].id
           /\ SameCounts /\ SameConnections
           /\ \A s \in 1 .. Len(live) :
                 live'[s].stage = IF s \in awaited' THEN "disposing" ELSE live[s].stage
<1> DEFINE new(s) == IF s \in awaited' THEN [live[s] EXCEPT !.stage = "disposing"] ELSE live[s]
<1>1. live \in Seq(LiveSession) /\ DOMAIN live = 1 .. Len(live) /\ Len(live) \in Nat
  BY DEF TypeOK
<1>2. ASSUME NEW s \in 1 .. Len(live)
      PROVE  /\ new(s) \in LiveSession /\ new(s).id = live[s].id
             /\ new(s).operationCount = live[s].operationCount
             /\ new(s).connections = live[s].connections
             /\ new(s).stage = IF s \in awaited' THEN "disposing" ELSE live[s].stage
  <2>1. live[s] \in LiveSession
    BY <1>1
  <2> QED BY <2>1 DEF LiveSession, Stages
<1>3. live' = [s \in 1 .. Len(live) |-> new(s)]
  BY <1>1 DEF Drain
<1> HIDE DEF new
<1>4. live' \in Seq(LiveSession) /\ Len(live') = Len(live)
  BY <1>1, <1>2, <1>3
<1>5. awaited' = {liveSessions[i] : i \in Ids} \ {0} /\ awaited' \subseteq 1 .. Len(live)
  BY DEF Drain, TypeOK
<1> QED BY <1>2, <1>3, <1>4, <1>5 DEF SameCounts, SameConnections

\* Every step keeps the types.
LEMMA TypeStep ==
    ASSUME RuntimesAssumption, TypeOK, OpsInv, [Next]_vars
    PROVE  TypeOK'
<1>0. Len(live) \in Nat /\ Len(live) <= MaxRuntimes /\ live \in Seq(LiveSession)
  BY DEF TypeOK
<1>1. CASE UNCHANGED vars
  BY <1>1 DEF TypeOK, vars
<1>2. ASSUME NEW q \in Reqs, QuietRequest(q)
      PROVE  TypeOK'
  <2>1. KeepsRuntimes
    BY <1>2, QuietRequests DEF Quietly
  <2>2. req' = [req EXCEPT ![q] = Idle] \/
        /\ req' = [req EXCEPT ![q] = Busy("acquired", req[q].conn, req[q].id, req[q].rt)]
        /\ req[q].at # "idle"
    BY <1>2 DEF QuietRequest, WaitFails, Resume, DetachEnd, Done
  <2>3. RequestsOK'
    <3>1. CASE req' = [req EXCEPT ![q] = Idle]
      BY <2>1, <3>1, GoesIdle, KeptTypes
    <3>2. CASE ~(req' = [req EXCEPT ![q] = Idle])
      <4>1. req[q].conn \in Conns /\ req[q].id \in Ids /\ req[q].rt \in 1 .. Len(live)
        BY <2>2, <3>2, Served
      <4>2. req[q].rt \in 1 .. Len(live')
        BY <2>1, <4>1, KeptTypes
      <4> QED BY <2>1, <2>2, <3>2, <4>1, <4>2, GoesBusy, KeptTypes
    <3> QED BY <3>1, <3>2
  <2>4. UNCHANGED <<conn, sessionIds, liveSessions, closing, awaited>>
    BY <1>2 DEF QuietRequest, WaitFails, Resume, DetachEnd
  <2>5. openingSessions' \in [Ids -> 0 .. Len(live)]
    <3>1. \/ UNCHANGED openingSessions
          \/ openingSessions' = [openingSessions EXCEPT ![req[q].id] = 0]
      BY <1>2 DEF QuietRequest, WaitFails, Resume, DetachEnd
    <3>2. openingSessions \in [Ids -> 0 .. Len(live)] /\ 0 \in 0 .. Len(live)
      BY <1>0 DEF TypeOK
    <3> QED BY <3>1, <3>2
  <2>6. TablesOK' /\ SessionsOK'
    BY <2>1, <2>4, <2>5, KeptTypes DEF TypeOK, TablesOK, SessionsOK
  <2> QED BY <2>1, <2>3, <2>6, KeptTypes, TypeParts
<1>3. ASSUME NEW q \in Reqs, Attach(q)
      PROVE  TypeOK'
  <2>1. KeepsRuntimes
    BY <1>3, AttachEffect
  <2>2. RequestsOK'
    BY <1>0, <1>3, <2>1, GoesIdle, KeptTypes DEF Attach, Done
  <2>3. UNCHANGED <<conn, liveSessions, openingSessions, closing, awaited>>
    BY <1>3 DEF Attach
  <2>4. sessionIds' \in [Conns -> SUBSET Ids]
    <3>1. req[q].conn \in Conns /\ live[req[q].rt].id \in Ids
      BY <1>3, Served DEF Attach, LiveSession
    <3>2. \/ UNCHANGED sessionIds
          \/ sessionIds' = [sessionIds EXCEPT ![req[q].conn] =
                               sessionIds[req[q].conn] \cup {live[req[q].rt].id}]
      BY <1>3 DEF Attach
    <3>3. sessionIds \in [Conns -> SUBSET Ids]
      BY DEF TypeOK
    <3>4. sessionIds[req[q].conn] \cup {live[req[q].rt].id} \in SUBSET Ids
      BY <3>1, <3>3
    <3> QED BY <3>1, <3>2, <3>3, <3>4
  <2>5. TablesOK' /\ SessionsOK'
    BY <2>1, <2>3, <2>4, KeptTypes DEF TypeOK, TablesOK, SessionsOK
  <2> QED BY <2>1, <2>2, <2>5, KeptTypes, TypeParts
<1>4. ASSUME NEW q \in Reqs, OperationEnds(q)
      PROVE  TypeOK'
  <2>1. KeepsRuntimes
    BY <1>4, OperationCounted, OperationEndsEffect DEF OperationEnds
  <2>2. RequestsOK'
    BY <1>0, <1>4, <2>1, GoesIdle, KeptTypes DEF OperationEnds, Done
  <2>3. TablesOK' /\ SessionsOK'
    BY <1>4, <2>1, KeptTypes DEF OperationEnds, TypeOK, TablesOK, SessionsOK
  <2> QED BY <2>1, <2>2, <2>3, KeptTypes, TypeParts
<1>5. ASSUME NEW q \in Reqs, NEW c \in Conns, NEW i \in Ids, Asks(q, c, i)
      PROVE  TypeOK'
  <2>1. TablesOK'
    BY <1>5 DEF Asks, Acquire, TypeOK, TablesOK
  <2> QED BY <1>5, <2>1, AskTypes, TypeParts
<1>6. ASSUME NEW q \in Reqs, NEW c \in Conns, NEW i \in Ids, Detach(q, c, i)
      PROVE  TypeOK'
  <2>1. KeepsRuntimes
    BY <1>6, DetachEffect
  <2>2. \/ UNCHANGED req
        \/ req' = [req EXCEPT ![q] = Idle]
        \/ /\ liveSessions[i] \in 1 .. Len(live)
           /\ req' = [req EXCEPT ![q] = Busy("detaching", c, i, liveSessions[i])]
    <3>1. liveSessions[i] \in 0 .. Len(live)
      BY DEF TypeOK
    <3> QED BY <1>0, <1>6, <3>1 DEF Detach
  <2>3. RequestsOK'
    <3>1. CASE UNCHANGED req
      BY <1>0, <2>1, <3>1, StaysOn, KeptTypes
    <3>2. CASE req' = [req EXCEPT ![q] = Idle]
      BY <2>1, <3>2, GoesIdle, KeptTypes
    <3>3. CASE /\ liveSessions[i] \in 1 .. Len(live)
               /\ req' = [req EXCEPT ![q] = Busy("detaching", c, i, liveSessions[i])]
      <4>1. liveSessions[i] \in 1 .. Len(live')
        BY <2>1, <3>3, KeptTypes
      <4> QED BY <2>1, <3>3, <4>1, GoesBusy, KeptTypes
    <3> QED BY <2>2, <3>1, <3>2, <3>3
  <2>4. TablesOK' /\ SessionsOK'
    BY <1>6, <2>1, KeptTypes DEF Detach, TypeOK, TablesOK, SessionsOK
  <2> QED BY <2>1, <2>3, <2>4, KeptTypes, TypeParts
<1>7. ASSUME NEW q \in Reqs, NEW c \in Conns, NEW i \in Ids, Operate(q, c, i)
      PROVE  TypeOK'
  <2>1. KeepsRuntimes /\ liveSessions[i] \in 1 .. Len(live)
    BY <1>7, OperateEffect
  <2>2. RequestsOK'
    <3>1. liveSessions[i] \in 1 .. Len(live')
      BY <2>1, KeptTypes
    <3>2. req' = [req EXCEPT ![q] = Busy("operating", c, i, liveSessions[i])]
      BY <1>7 DEF Operate
    <3> QED BY <2>1, <3>1, <3>2, GoesBusy, KeptTypes
  <2>3. TablesOK' /\ SessionsOK'
    BY <1>7, <2>1, KeptTypes DEF Operate, TypeOK, TablesOK, SessionsOK
  <2> QED BY <2>1, <2>2, <2>3, KeptTypes, TypeParts
<1>8. ASSUME NEW r \in 1 .. Len(live), QuietSession(r)
      PROVE  TypeOK'
  <2>1. KeepsRuntimes
    BY <1>8, QuietSessions DEF Quietly
  <2>2. UNCHANGED <<sessionIds, liveSessions, openingSessions, req, closing, awaited>>
    BY <1>8 DEF QuietSession, RuntimeBusy, RuntimeIdle, RuntimeEvent, RuntimeError, TerminateEnd
  <2>3. conn' \in [Conns -> {"ready", "closing", "closed"}]
    BY <1>8 DEF QuietSession, RuntimeBusy, RuntimeIdle, RuntimeEvent, RuntimeError, TerminateEnd,
                TypeOK
  <2>4. RequestsOK'
    BY <1>0, <2>1, <2>2, StaysOn, KeptTypes
  <2>5. TablesOK' /\ SessionsOK'
    BY <2>1, <2>2, <2>3, KeptTypes DEF TypeOK, TablesOK, SessionsOK
  <2> QED BY <2>1, <2>4, <2>5, KeptTypes, TypeParts
<1>9. ASSUME NEW r \in 1 .. Len(live), Proceeds(r) \/ Validate(r) \/ DisposeEnd(r)
      PROVE  TypeOK'
  <2>1. live' \in Seq(LiveSession) /\ Len(live') = Len(live)
    BY <1>9, ProceedEffect
  <2>2. UNCHANGED <<conn, sessionIds, openingSessions, req, closing, awaited>>
    BY <1>9 DEF Proceeds, ServiceAnswers, Invalid, Rejected, Validate, DisposeEnd
  <2>3. liveSessions' \in [Ids -> 0 .. Len(live)]
    <3>1. \/ UNCHANGED liveSessions
          \/ \E v \in {0, r} : liveSessions' = [liveSessions EXCEPT ![live[r].id] = v]
      BY <1>9 DEF Proceeds, ServiceAnswers, Invalid, Rejected, Validate, DisposeEnd
    <3>2. liveSessions \in [Ids -> 0 .. Len(live)] /\ \A v \in {0, r} : v \in 0 .. Len(live)
      BY <1>0 DEF TypeOK
    <3> QED BY <3>1, <3>2
  <2>4. RequestsOK'
    BY <2>1, <2>2, SameLength, StaysOn
  <2>5. TablesOK' /\ SessionsOK' /\ RuntimesOK'
    BY <1>0, <2>1, <2>2, <2>3 DEF TypeOK, TablesOK, SessionsOK, RuntimesOK
  <2> QED BY <2>4, <2>5, TypeParts
<1>10. ASSUME NEW cs \in SUBSET Conns, Leaving(cs)
       PROVE  TypeOK'
  <2>1. KeepsRuntimes
    BY <1>10 DEF Leaving, Leaves
  <2>2. UNCHANGED <<liveSessions, openingSessions, req, awaited>>
    BY <1>10 DEF Leaving
  <2>3. RequestsOK'
    BY <1>0, <2>1, <2>2, StaysOn, KeptTypes
  <2>4. /\ conn' \in [Conns -> {"ready", "closing", "closed"}]
        /\ sessionIds' \in [Conns -> SUBSET Ids] /\ closing' \in Closings
    BY <1>10 DEF Leaving, DisconnectAll, TypeOK, Closings
  <2>5. TablesOK' /\ SessionsOK'
    BY <2>1, <2>2, <2>4, KeptTypes DEF TypeOK, TablesOK, SessionsOK
  <2> QED BY <2>1, <2>3, <2>5, KeptTypes, TypeParts
<1>11. CASE QuietClose
  <2>1. UNCHANGED <<sessionIds, liveSessions, openingSessions, live, req>>
    BY <1>11 DEF QuietClose, Close, CloseConnections, AwaitOpenings, CloseEnd
  <2>2. /\ conn' \in [Conns -> {"ready", "closing", "closed"}] /\ closing' \in Closings
        /\ awaited' \subseteq 1 .. Len(live)
    <3>1. CASE Close \/ CloseEnd
      BY <3>1 DEF Close, CloseEnd, TypeOK, Closings
    <3>2. CASE CloseConnections
      BY <3>2 DEF CloseConnections, TypeOK, Closings
    <3>3. CASE AwaitOpenings
      <4>1. \A i \in Ids : openingSessions[i] \in 0 .. Len(live)
        BY DEF TypeOK
      <4>2. awaited' \subseteq 1 .. Len(live)
        BY <1>0, <3>3, <4>1 DEF AwaitOpenings
      <4> QED BY <3>3, <4>2 DEF AwaitOpenings, TypeOK, Closings
    <3> QED BY <1>11, <3>1, <3>2, <3>3 DEF QuietClose
  <2> QED BY <2>1, <2>2 DEF TypeOK
<1>12. CASE Drain
  <2>1. live' \in Seq(LiveSession) /\ Len(live') = Len(live) /\ awaited' \subseteq 1 .. Len(live)
    BY <1>12, DrainEffect
  <2>2. UNCHANGED <<conn, sessionIds, openingSessions, req>>
    BY <1>12 DEF Drain
  <2>3. liveSessions' \in [Ids -> 0 .. Len(live)] /\ closing' \in Closings
    BY <1>0, <1>12 DEF Drain, Closings
  <2>4. RequestsOK'
    BY <2>1, <2>2, SameLength, StaysOn
  <2>5. TablesOK' /\ SessionsOK' /\ RuntimesOK'
    BY <1>0, <2>1, <2>2, <2>3 DEF TypeOK, TablesOK, SessionsOK, RuntimesOK
  <2> QED BY <2>4, <2>5, TypeParts
<1> QED
  BY <1>1, <1>2, <1>3, <1>4, <1>5, <1>6, <1>7, <1>8, <1>9, <1>10, <1>11, <1>12, Steps

-----------------------------------------------------------------------------
(* One runtime of a session at a time. *)

\* From CloseConnections on no connection is ready; Drain forgets every session.
Stopped == {"disconnecting", "disconnected", "openings", "draining", "closed"}
Drained == {"draining", "closed"}
Alive == {"live", "disposing"}

\* A runtime that is being opened is the one the identity is being opened with, and
\* until it is there the identity has no other.
OpeningsInv ==
    /\ \A i \in Ids : openingSessions[i] # 0 => live[openingSessions[i]].id = i
    /\ \A r \in 1 .. Len(live) :
          live[r].stage \in Opening =>
              openingSessions[live[r].id] = r /\ liveSessions[live[r].id] = 0

\* A runtime that is live or being disposed is the one the identity leads to, until
\* close forgets them all.
TableInv ==
    /\ \A i \in Ids :
          liveSessions[i] # 0 =>
              live[liveSessions[i]].id = i /\ live[liveSessions[i]].stage \in Alive
    /\ closing \notin Drained =>
          \A r \in 1 .. Len(live) : live[r].stage \in Alive => liveSessions[live[r].id] = r

\* close: nobody can ask any more, what was being opened is waited for, then nothing
\* is live and what is being disposed is waited for.
CloseInv ==
    /\ closing \in Stopped => \A c \in Conns : conn[c] # "ready"
    /\ closing = "openings" =>
          \A r \in 1 .. Len(live) : live[r].stage = "validating" => r \in awaited
    /\ closing \in Drained =>
          /\ \A i \in Ids : liveSessions[i] = 0
          /\ \A r \in 1 .. Len(live) : live[r].stage \notin {"validating", "live"}
    /\ closing = "draining" =>
          \A r \in 1 .. Len(live) : live[r].stage = "disposing" => r \in awaited
    /\ closing = "closed" => \A r \in 1 .. Len(live) : live[r].stage # "disposing"

\* A request waits for the disposal of a runtime of the session it asked for.  Once
\* nobody new can ask, the session is not live again when the disposal is over.
Over(i) ==
    \A r \in 1 .. Len(live) :
        live[r].stage \in {"validating", "live", "disposing"} => live[r].id # i
WaitInv ==
    \A q \in Reqs :
        req[q].at = "waiting" =>
            /\ live[req[q].rt].stage \in {"disposing", "gone"}
            /\ live[req[q].rt].id = req[q].id
            /\ closing \in Stopped => live[req[q].rt].stage = "disposing" \/ Over(req[q].id)

OneInv == OneRuntimePerSession /\ OpeningsInv /\ TableInv /\ CloseInv /\ WaitInv

\* The stages, without the domain of the sequence.
LEMMA HeldStages ==
    ASSUME TypeOK, NEW r \in 1 .. Len(live)
    PROVE  /\ Held(r) <=> (live[r].stage \in Opening \/ live[r].stage \in Alive)
           /\ live[r].id \in Ids /\ live[r].stage \in Stages
<1>1. Held(r) <=> (live[r].stage \in Opening \/ live[r].stage \in Alive)
  BY DEF Held, Alive
<1>2. live[r] \in LiveSession
  BY DEF TypeOK
<1> QED BY <1>1, <1>2 DEF LiveSession

\* A step that keeps the runtimes and the tables keeps what they say together.
LEMMA KeptTables ==
    ASSUME TypeOK, OneRuntimePerSession, OpeningsInv, TableInv, KeepsRuntimes,
           UNCHANGED <<liveSessions, openingSessions>>,
           closing' \notin Drained => closing \notin Drained
    PROVE  OneRuntimePerSession' /\ OpeningsInv' /\ TableInv'
<1>1. DOMAIN live = 1 .. Len(live) /\ DOMAIN live' = 1 .. Len(live) /\ Len(live') = Len(live)
  BY DEF TypeOK, KeepsRuntimes
<1>2. ASSUME NEW s \in 1 .. Len(live)
      PROVE  /\ live'[s].id = live[s].id /\ live[s].id \in Ids
             /\ live'[s].stage \in Opening <=> live[s].stage \in Opening
             /\ live'[s].stage \in Alive <=> live[s].stage \in Alive
  BY HeldStages DEF KeepsRuntimes, Keeps, Opening, Alive
<1>3. OneRuntimePerSession'
  BY <1>1, <1>2 DEF OneRuntimePerSession, Held, Opening, Alive
<1>4. OpeningsInv'
  <2>1. \A i \in Ids : openingSessions[i] # 0 => openingSessions[i] \in 1 .. Len(live)
    BY DEF TypeOK
  <2> QED BY <1>1, <1>2, <2>1 DEF OpeningsInv
<1>5. TableInv'
  <2>1. \A i \in Ids : liveSessions[i] # 0 => liveSessions[i] \in 1 .. Len(live)
    BY DEF TypeOK
  <2> QED BY <1>1, <1>2, <2>1 DEF TableInv
<1> QED BY <1>3, <1>4, <1>5

\* It keeps what close relies on, as long as close does not go on.
LEMMA KeptClose ==
    ASSUME TypeOK, CloseInv, KeepsRuntimes, UNCHANGED <<liveSessions, closing, awaited>>,
           \A c \in Conns : conn'[c] = "ready" => conn[c] = "ready"
    PROVE  CloseInv'
<1>1. Len(live') = Len(live)
  BY DEF KeepsRuntimes
<1>2. \A s \in 1 .. Len(live) :
        closing # "no" => live'[s].stage = live[s].stage
  BY DEF KeepsRuntimes, Keeps
<1>3. closing \in Stopped => closing # "no"
  BY DEF Stopped
<1>4. closing \in Drained => closing # "no"
  BY DEF Drained
<1> QED BY <1>1, <1>2, <1>3, <1>4 DEF CloseInv

\* And what a request relies on that goes on waiting.
LEMMA KeptWait ==
    ASSUME TypeOK, WaitInv, KeepsRuntimes, closing' \in Stopped => closing \in Stopped,
           NEW q \in Reqs, req[q].at = "waiting", req'[q] = req[q]
    PROVE  /\ live'[req[q].rt].stage \in {"disposing", "gone"}
           /\ live'[req[q].rt].id = req[q].id
           /\ closing' \in Stopped => live'[req[q].rt].stage = "disposing" \/ Over(req[q].id)'
<1>1. req[q].rt \in 1 .. Len(live)
  BY Served
<1>2. Keeps(req[q].rt) /\ Len(live') = Len(live)
  BY <1>1 DEF KeepsRuntimes
<1>3. /\ live[req[q].rt].stage \in {"disposing", "gone"}
      /\ live[req[q].rt].id = req[q].id
      /\ closing \in Stopped => live[req[q].rt].stage = "disposing" \/ Over(req[q].id)
  BY DEF WaitInv
<1>4. ASSUME closing' \in Stopped, Over(req[q].id)
      PROVE  Over(req[q].id)'
  <2>1. closing # "no"
    BY <1>4 DEF Stopped
  <2>2. \A s \in 1 .. Len(live) : live'[s].stage = live[s].stage /\ live'[s].id = live[s].id
    BY <2>1 DEF KeepsRuntimes, Keeps
  <2> QED BY <1>2, <1>4, <2>2 DEF Over
<1>5. live'[req[q].rt].stage = live[req[q].rt].stage
  BY <1>2, <1>3 DEF Keeps
<1> QED BY <1>2, <1>3, <1>4, <1>5 DEF Keeps

\* A step that keeps the runtimes, the tables and the progress of close, and makes
\* nobody wait.
LEMMA OneKept ==
    ASSUME TypeOK, OneInv, KeepsRuntimes,
           UNCHANGED <<liveSessions, openingSessions, closing, awaited>>,
           \A c \in Conns : conn'[c] = "ready" => conn[c] = "ready",
           \A q \in Reqs : req'[q].at = "waiting" => req'[q] = req[q]
    PROVE  OneInv'
<1>1. OneRuntimePerSession' /\ OpeningsInv' /\ TableInv'
  BY KeptTables DEF OneInv
<1>2. CloseInv'
  BY KeptClose DEF OneInv
<1>3. WaitInv'
  <2> SUFFICES ASSUME NEW q \in Reqs, req'[q].at = "waiting"
               PROVE  /\ live'[req'[q].rt].stage \in {"disposing", "gone"}
                      /\ live'[req'[q].rt].id = req'[q].id
                      /\ closing' \in Stopped =>
                            live'[req'[q].rt].stage = "disposing" \/ Over(req[q].id)'
    BY DEF WaitInv
  <2>1. req'[q] = req[q] /\ req[q].at = "waiting"
    OBVIOUS
  <2>2. closing' \in Stopped => closing \in Stopped
    OBVIOUS
  <2>3. /\ live'[req[q].rt].stage \in {"disposing", "gone"}
        /\ live'[req[q].rt].id = req[q].id
        /\ closing' \in Stopped =>
              live'[req[q].rt].stage = "disposing" \/ Over(req[q].id)'
    BY <2>1, <2>2, KeptWait DEF OneInv
  <2> QED BY <2>1, <2>3
<1> QED BY <1>1, <1>2, <1>3 DEF OneInv

\* A slot that was set to something that does not wait.
LEMMA OnlyWaits ==
    ASSUME TypeOK, NEW q \in Reqs, NEW x, x.at # "waiting", req' = [req EXCEPT ![q] = x]
    PROVE  \A p \in Reqs : req'[p].at = "waiting" => req'[p] = req[p]
<1>1. req \in [Reqs -> Request]
  BY DEF TypeOK
<1> QED BY <1>1

\* What requests do, but for asking.
LEMMA OneRequests ==
    ASSUME TypeOK, OpsInv, OneInv, NEW q \in Reqs,
           QuietRequest(q) \/ Attach(q) \/ OperationEnds(q)
    PROVE  OneInv'
<1>1. CASE Resume(q)
  <2> DEFINE r == req[q].rt
             i == req[q].id
             mid == [openingSessions EXCEPT ![i] = 0]
  <2>1. KeepsRuntimes /\ Len(live') = Len(live)
    BY <1>1, QuietRequests DEF QuietRequest, Quietly, KeepsRuntimes
  <2>2. /\ UNCHANGED <<conn, liveSessions, live, closing, awaited>>
        /\ live[r].stage \notin Opening
        /\ UNCHANGED openingSessions \/ (openingSessions' = mid /\ openingSessions[i] = r)
    BY <1>1 DEF Resume
  <2>3. \A p \in Reqs : req'[p].at = "waiting" => req'[p] = req[p]
    <3> DEFINE x == IF live[r].stage = "failed" THEN Idle ELSE Busy("acquired", req[q].conn, i, r)
    <3>1. x.at # "waiting" /\ req' = [req EXCEPT ![q] = x]
      BY <1>1 DEF Resume, Idle, Busy
    <3> HIDE DEF x
    <3> QED BY <3>1, OnlyWaits
  <2>4. CASE UNCHANGED openingSessions
    BY <2>1, <2>2, <2>3, <2>4, OneKept
  <2>5. CASE openingSessions' = mid /\ openingSessions[i] = r
    <3>1. openingSessions \in [Ids -> 0 .. Len(live)] /\ i \in Ids
      BY <1>1, Served DEF Resume, TypeOK
    <3>2. OneRuntimePerSession' /\ TableInv' /\ CloseInv'
      BY <2>2 DEF OneInv, OneRuntimePerSession, Held, TableInv, CloseInv
    <3>3. OpeningsInv'
      <4>1. \A j \in Ids : openingSessions'[j] # 0 => openingSessions'[j] = openingSessions[j]
        BY <2>5, <3>1
      <4>2. ASSUME NEW s \in 1 .. Len(live), live[s].stage \in Opening
            PROVE  openingSessions'[live[s].id] = s
        <5>1. openingSessions[live[s].id] = s /\ live[s].id \in Ids
          BY <4>2, HeldStages DEF OneInv, OpeningsInv
        <5>2. live[s].id # i
          BY <2>2, <2>5, <4>2, <5>1
        <5> QED BY <2>5, <3>1, <5>1, <5>2
      <4> QED BY <2>2, <4>1, <4>2 DEF OneInv, OpeningsInv
    <3>4. WaitInv'
      BY <2>2, <2>3 DEF OneInv, WaitInv, Over
    <3> QED BY <3>2, <3>3, <3>4 DEF OneInv
  <2> QED BY <2>2, <2>4, <2>5
<1>2. ASSUME KeepsRuntimes, UNCHANGED <<conn, liveSessions, openingSessions, closing, awaited>>,
             Done(q)
      PROVE  OneInv'
  <2>1. Idle.at # "waiting"
    BY DEF Idle
  <2>2. \A p \in Reqs : req'[p].at = "waiting" => req'[p] = req[p]
    BY <1>2, <2>1, OnlyWaits DEF Done
  <2> QED BY <1>2, <2>2, OneKept
<1>3. CASE WaitFails(q) \/ \E ok \in BOOLEAN : DetachEnd(q, ok)
  <2>1. KeepsRuntimes
    BY <1>3, QuietRequests DEF QuietRequest, Quietly
  <2>2. UNCHANGED <<conn, liveSessions, openingSessions, closing, awaited>> /\ Done(q)
    BY <1>3 DEF WaitFails, DetachEnd
  <2> QED BY <1>2, <2>1, <2>2
<1>4. CASE Attach(q)
  <2>1. KeepsRuntimes
    BY <1>4, AttachEffect
  <2>2. UNCHANGED <<conn, liveSessions, openingSessions, closing, awaited>> /\ Done(q)
    BY <1>4 DEF Attach
  <2> QED BY <1>2, <2>1, <2>2
<1>5. CASE OperationEnds(q)
  <2>1. KeepsRuntimes
    BY <1>5, OperationCounted, OperationEndsEffect DEF OperationEnds
  <2>2. UNCHANGED <<conn, liveSessions, openingSessions, closing, awaited>> /\ Done(q)
    BY <1>5 DEF OperationEnds
  <2> QED BY <1>2, <2>1, <2>2
<1> QED BY <1>1, <1>3, <1>4, <1>5 DEF QuietRequest

\* detach and the operations.
LEMMA OneCommands ==
    ASSUME TypeOK, OneInv, NEW q \in Reqs, NEW c \in Conns, NEW i \in Ids,
           Detach(q, c, i) \/ Operate(q, c, i)
    PROVE  OneInv'
<1>1. KeepsRuntimes
  BY DetachEffect, OperateEffect
<1>2. UNCHANGED <<conn, liveSessions, openingSessions, closing, awaited>>
  BY DEF Detach, Operate
<1>3. \E x : x.at # "waiting" /\ (req' = [req EXCEPT ![q] = x] \/ req' = req)
  <2>1. Idle.at # "waiting"
    BY DEF Idle
  <2>2. \A a \in {"detaching", "operating"} : Busy(a, c, i, liveSessions[i]).at # "waiting"
    BY DEF Busy
  <2>3. CASE Detach(q, c, i)
    BY <2>1, <2>2, <2>3 DEF Detach
  <2>4. CASE Operate(q, c, i)
    BY <2>2, <2>4 DEF Operate
  <2> QED BY <2>3, <2>4
<1>4. \A p \in Reqs : req'[p].at = "waiting" => req'[p] = req[p]
  BY <1>3, OnlyWaits
<1> QED BY <1>1, <1>2, <1>4, OneKept

\* What happens to a live runtime, and the connections that leave.
LEMMA OneOthers ==
    ASSUME TypeOK, OneInv,
           \/ \E r \in 1 .. Len(live) : QuietSession(r)
           \/ \E cs \in SUBSET Conns : Leaving(cs) /\ UNCHANGED closing
    PROVE  OneInv'
<1>1. CASE \E r \in 1 .. Len(live) : QuietSession(r)
  <2>1. PICK r \in 1 .. Len(live) : QuietSession(r)
    BY <1>1
  <2>2. KeepsRuntimes
    BY <2>1, QuietSessions DEF Quietly
  <2>3. UNCHANGED <<liveSessions, openingSessions, req, closing, awaited>>
    BY <2>1 DEF QuietSession, RuntimeBusy, RuntimeIdle, RuntimeEvent, RuntimeError, TerminateEnd
  <2>4. \A c \in Conns : conn'[c] = "ready" => conn[c] = "ready"
    BY <2>1 DEF QuietSession, RuntimeBusy, RuntimeIdle, RuntimeEvent, RuntimeError, TerminateEnd
  <2> QED BY <2>2, <2>3, <2>4, OneKept
<1>2. CASE \E cs \in SUBSET Conns : Leaving(cs) /\ UNCHANGED closing
  <2>1. PICK cs \in SUBSET Conns : Leaving(cs) /\ UNCHANGED closing
    BY <1>2
  <2>2. KeepsRuntimes /\ UNCHANGED <<liveSessions, openingSessions, req, closing, awaited>>
    BY <2>1 DEF Leaving, Leaves
  <2>3. \A c \in Conns : conn'[c] = "ready" => conn[c] = "ready"
    BY <2>1 DEF Leaving, DisconnectAll
  <2> QED BY <2>2, <2>3, OneKept
<1> QED BY <1>1, <1>2

\* The steps of close that leave the runtimes to themselves.
LEMMA OneCloses ==
    ASSUME TypeOK, OneInv,
           \/ QuietClose
           \/ closing' # closing /\ \E cs \in SUBSET Conns : Leaving(cs)
    PROVE  OneInv'
<1>1. KeepsRuntimes /\ Len(live') = Len(live) /\ Len(live) \in Nat
  <2>1. CASE QuietClose
    <3>1. UNCHANGED live
      BY <2>1 DEF QuietClose, Close, CloseConnections, AwaitOpenings, CloseEnd
    <3> QED BY <3>1, SameRuntimes DEF KeepsRuntimes, TypeOK
  <2>2. CASE closing' # closing /\ \E cs \in SUBSET Conns : Leaving(cs)
    BY <2>2 DEF Leaving, Leaves, KeepsRuntimes, TypeOK
  <2> QED BY <2>1, <2>2
<1>2. /\ UNCHANGED <<liveSessions, openingSessions, req>>
      /\ closing' \in {"stopping", "disconnecting", "disconnected", "openings", "closed"}
      /\ closing' = "stopping" => closing = "no"
      /\ closing' = "disconnecting" => CloseConnections
      /\ closing' = "disconnected" => closing = "disconnecting"
      /\ closing' = "openings" => AwaitOpenings /\ closing = "disconnected"
      /\ closing' = "closed" => CloseEnd /\ closing = "draining"
  BY DEF QuietClose, Close, CloseConnections, AwaitOpenings, CloseEnd, Leaving
<1>3. \A c \in Conns : conn'[c] = "ready" => conn[c] = "ready" /\ ~CloseConnections
  BY DEF QuietClose, Close, CloseConnections, AwaitOpenings, CloseEnd, Leaving, DisconnectAll,
         TypeOK
<1>4. OneRuntimePerSession' /\ OpeningsInv' /\ TableInv'
  <2>1. closing' \notin Drained => closing \notin Drained
    BY <1>2 DEF Drained, CloseConnections
  <2> QED BY <1>1, <1>2, <2>1, KeptTables DEF OneInv
<1>5. CloseInv'
  <2>1. CASE closing' \in {"stopping", "disconnecting", "disconnected"}
    <3>1. closing' \in Stopped => \A c \in Conns : conn'[c] # "ready"
      <4>1. closing' = "disconnected" => \A c \in Conns : conn[c] # "ready"
        BY <1>2 DEF OneInv, CloseInv, Stopped
      <4> QED BY <1>2, <1>3, <2>1, <4>1 DEF Stopped
    <3> QED BY <2>1, <3>1 DEF CloseInv, Drained
  <2>2. CASE closing' = "openings"
    <3>1. \A c \in Conns : conn'[c] # "ready"
      BY <1>2, <1>3, <2>2 DEF OneInv, CloseInv, Stopped
    <3>2. UNCHANGED live /\ awaited' = {openingSessions[i] : i \in Ids} \ {0}
      BY <1>2, <2>2 DEF AwaitOpenings
    <3>3. ASSUME NEW r \in 1 .. Len(live), live[r].stage = "validating"
          PROVE  r \in awaited'
      <4>1. openingSessions[live[r].id] = r /\ live[r].id \in Ids /\ r # 0
        BY <3>3, HeldStages DEF OneInv, OpeningsInv, Opening
      <4> QED BY <3>2, <4>1
    <3> QED BY <2>2, <3>1, <3>2, <3>3 DEF CloseInv, Drained
  <2>3. CASE closing' = "closed"
    <3>1. UNCHANGED <<conn, live, awaited>> /\ \A r \in awaited : live[r].stage = "gone"
      BY <1>2, <2>3 DEF CloseEnd
    <3>2. /\ \A c \in Conns : conn[c] # "ready"
          /\ \A i \in Ids : liveSessions[i] = 0
          /\ \A r \in 1 .. Len(live) : live[r].stage \notin {"validating", "live"}
          /\ \A r \in 1 .. Len(live) : live[r].stage = "disposing" => r \in awaited
      BY <1>2, <2>3 DEF OneInv, CloseInv, Stopped, Drained
    <3> QED BY <1>2, <2>3, <3>1, <3>2 DEF CloseInv
  <2> QED BY <1>2, <2>1, <2>2, <2>3
<1>6. WaitInv'
  <2> SUFFICES ASSUME NEW q \in Reqs, req[q].at = "waiting"
               PROVE  /\ live'[req[q].rt].stage \in {"disposing", "gone"}
                      /\ live'[req[q].rt].id = req[q].id
                      /\ closing' \in Stopped =>
                            live'[req[q].rt].stage = "disposing" \/ Over(req[q].id)'
    BY <1>2 DEF WaitInv, Over
  <2>1. CASE closing' # "disconnecting"
    <3>1. closing' \in Stopped => closing \in Stopped
      BY <1>2, <2>1 DEF Stopped
    <3> QED BY <1>1, <1>2, <3>1, KeptWait DEF OneInv
  <2>2. CASE closing' = "disconnecting"
    <3>1. UNCHANGED live /\ TaskOrder
      BY <1>2, <2>2 DEF CloseConnections
    <3> QED BY <3>1 DEF OneInv, WaitInv, TaskOrder
  <2> QED BY <2>1, <2>2
<1> QED BY <1>4, <1>5, <1>6 DEF OneInv

\* A request that asks finds the runtime, waits for its disposal, joins its opening, or
\* opens the only one.
LEMMA OneAsks ==
    ASSUME RuntimesAssumption, TypeOK, OneInv, NEW q \in Reqs, NEW c \in Conns, NEW i \in Ids,
           Asks(q, c, i)
    PROVE  OneInv'
<1>0. UNCHANGED <<conn, sessionIds, liveSessions, closing, awaited>>
  BY DEF Asks, Acquire
<1>00. req \in [Reqs -> Request] /\ DOMAIN live = 1 .. Len(live) /\ Len(live) \in Nat
  BY DEF TypeOK
<1>1. CASE ~AcquireNew(q, c, i)
  <2>1. UNCHANGED <<live, openingSessions>>
    BY <1>1, AskEffect
  <2>2. OneRuntimePerSession' /\ OpeningsInv' /\ TableInv' /\ CloseInv'
    BY <1>0, <2>1 DEF OneInv, OneRuntimePerSession, Held, OpeningsInv, TableInv, CloseInv
  <2>3. \A p \in Reqs : p # q => req'[p] = req[p]
    BY <1>00, <1>1, AskEffect DEF Done
  <2>4. req'[q].at = "waiting" =>
          /\ liveSessions[i] # 0 /\ live[liveSessions[i]].stage = "disposing"
          /\ req'[q].rt = liveSessions[i] /\ req'[q].id = i
    <3>1. CASE Done(q)
      BY <1>00, <3>1 DEF Done, Idle
    <3>2. CASE /\ liveSessions[i] # 0
               /\ req' = [req EXCEPT ![q] =
                     Busy(IF live[liveSessions[i]].stage = "disposing" THEN "waiting"
                          ELSE "acquired", c, i, liveSessions[i])]
      BY <1>00, <3>2 DEF Busy
    <3>3. CASE req' = [req EXCEPT ![q] = Busy("joining", c, i, openingSessions[i])]
      BY <1>00, <3>3 DEF Busy
    <3> QED BY <1>1, <3>1, <3>2, <3>3, AskEffect
  <2>5. WaitInv'
    <3>1. ASSUME NEW p \in Reqs, p # q, req'[p].at = "waiting"
          PROVE  /\ live'[req'[p].rt].stage \in {"disposing", "gone"}
                 /\ live'[req'[p].rt].id = req'[p].id
                 /\ closing' \in Stopped =>
                       live'[req'[p].rt].stage = "disposing" \/ Over(req[p].id)'
      BY <1>0, <2>1, <2>3, <3>1 DEF OneInv, WaitInv, Over
    <3>2. ASSUME req'[q].at = "waiting"
          PROVE  live'[req'[q].rt].stage = "disposing" /\ live'[req'[q].rt].id = req'[q].id
      BY <2>1, <2>4, <3>2 DEF OneInv, TableInv
    <3> QED BY <3>1, <3>2 DEF WaitInv
  <2> QED BY <2>2, <2>5 DEF OneInv
<1>2. CASE AcquireNew(q, c, i)
  <2> DEFINE n == Len(live) + 1
  <2>1. /\ Len(live') = n /\ live'[n] = NewLive(i)
        /\ \A s \in 1 .. Len(live) : live'[s] = live[s]
        /\ live' \in Seq(LiveSession)
    BY <1>2, Anew DEF AcquireNew, RuntimesOK
  <2>2. live'[n].stage = "acquiring" /\ live'[n].id = i
    BY <2>1 DEF NewLive
  <2>3. /\ liveSessions[i] = 0 /\ openingSessions[i] = 0
        /\ openingSessions' = [openingSessions EXCEPT ![i] = n]
        /\ req' = [req EXCEPT ![q] = Busy("creating", c, i, n)]
    BY <1>2 DEF AcquireNew
  <2>4. DOMAIN live' = 1 .. n /\ \A s \in 1 .. n : s = n \/ s \in 1 .. Len(live)
    BY <1>00, <2>1
  <2>5. ASSUME NEW s \in 1 .. Len(live), Held(s)
        PROVE  live[s].id # i
    <3>1. CASE live[s].stage \in Opening
      BY <2>3, <3>1 DEF OneInv, OpeningsInv
    <3>2. CASE live[s].stage \in Alive /\ closing \notin Drained
      BY <2>3, <3>2 DEF OneInv, TableInv
    <3>3. CASE live[s].stage \in Alive /\ closing \in Drained
      <4>1. conn[c] # "ready"
        BY <3>3 DEF OneInv, CloseInv, Stopped, Drained
      <4>2. req[q].at = "waiting" /\ live[req[q].rt].stage = "gone" /\ i = req[q].id
        BY <4>1 DEF Asks
      <4>3. Over(i)
        BY <3>3, <4>2 DEF OneInv, WaitInv, Stopped, Drained
      <4> QED BY <3>3, <4>3 DEF Over, Alive
    <3> QED BY <2>5, <3>1, <3>2, <3>3, HeldStages
  <2>6. \A s \in 1 .. Len(live) : Held(s)' <=> Held(s)
    BY <2>1 DEF Held
  <2> HIDE DEF n
  <2>7. OneRuntimePerSession'
    <3> SUFFICES ASSUME NEW r \in 1 .. n, NEW s \in 1 .. n, r # s, Held(r)', Held(s)'
                 PROVE  live'[r].id # live'[s].id
      BY <2>4 DEF OneRuntimePerSession
    <3>1. CASE r = n
      BY <2>1, <2>2, <2>4, <2>5, <2>6, <3>1
    <3>2. CASE s = n
      BY <2>1, <2>2, <2>4, <2>5, <2>6, <3>2
    <3>3. CASE r # n /\ s # n
      BY <1>00, <2>1, <2>4, <2>6, <3>3 DEF OneInv, OneRuntimePerSession
    <3> QED BY <3>1, <3>2, <3>3
  <2>8. OpeningsInv'
    <3>1. openingSessions \in [Ids -> 0 .. Len(live)] /\ n \in Nat /\ n # 0
      BY <1>00 DEF TypeOK, n
    <3>2. ASSUME NEW j \in Ids, openingSessions'[j] # 0
          PROVE  live'[openingSessions'[j]].id = j
      <4>1. CASE j = i
        BY <2>2, <2>3, <3>1, <4>1
      <4>2. CASE j # i
        <5>1. openingSessions'[j] = openingSessions[j] /\ openingSessions[j] \in 1 .. Len(live)
          BY <2>3, <3>1, <3>2, <4>2
        <5> QED BY <2>1, <3>2, <5>1 DEF OneInv, OpeningsInv
      <4> QED BY <4>1, <4>2
    <3>3. ASSUME NEW s \in 1 .. n, live'[s].stage \in Opening
          PROVE  openingSessions'[live'[s].id] = s /\ liveSessions[live'[s].id] = 0
      <4>1. CASE s = n
        BY <2>2, <2>3, <3>1, <4>1
      <4>2. CASE s # n
        <5>1. s \in 1 .. Len(live) /\ live'[s] = live[s] /\ live[s].id \in Ids
          BY <2>1, <2>4, <4>2, HeldStages
        <5>2. openingSessions[live[s].id] = s /\ liveSessions[live[s].id] = 0
          BY <3>3, <5>1 DEF OneInv, OpeningsInv
        <5>3. live[s].id # i
          BY <2>3, <5>1, <5>2
        <5> QED BY <2>3, <3>1, <5>1, <5>2, <5>3
      <4> QED BY <4>1, <4>2
    <3> QED BY <1>0, <2>1, <3>2, <3>3 DEF OpeningsInv
  <2>9. TableInv'
    <3>1. ASSUME NEW j \in Ids, liveSessions[j] # 0
          PROVE  liveSessions[j] \in 1 .. Len(live)
      BY <3>1 DEF TypeOK
    <3>2. live'[n].stage \notin Alive
      BY <2>2 DEF Alive
    <3> QED BY <1>0, <2>1, <2>4, <3>1, <3>2 DEF OneInv, TableInv
  <2>10. CloseInv'
    BY <1>0, <2>1, <2>2, <2>4 DEF OneInv, CloseInv
  <2>11. WaitInv'
    <3>1. req'[q].at # "waiting" /\ \A p \in Reqs : p # q => req'[p] = req[p]
      BY <1>00, <2>3 DEF Busy
    <3>2. ASSUME NEW p \in Reqs, req'[p].at = "waiting"
          PROVE  /\ live'[req'[p].rt].stage \in {"disposing", "gone"}
                 /\ live'[req'[p].rt].id = req'[p].id
                 /\ closing' \in Stopped =>
                       live'[req'[p].rt].stage = "disposing" \/ Over(req[p].id)'
      <4>1. req'[p] = req[p] /\ req[p].at = "waiting"
        BY <3>1, <3>2
      <4>2. req[p].rt \in 1 .. Len(live)
        BY <4>1, Served
      <4>3. live'[req[p].rt] = live[req[p].rt]
        BY <2>1, <4>2
      <4>4. Over(req[p].id) => Over(req[p].id)'
        BY <2>1, <2>2, <2>4, <4>1 DEF Over
      <4> QED BY <1>0, <4>1, <4>3, <4>4 DEF OneInv, WaitInv
    <3> QED BY <3>2 DEF WaitInv
  <2> QED BY <2>7, <2>8, <2>9, <2>10, <2>11 DEF OneInv
<1> QED BY <1>1, <1>2

\* An opening proceeds, or fails.
LEMMA OneProceeds ==
    ASSUME TypeOK, OneInv, NEW r \in 1 .. Len(live), Proceeds(r)
    PROVE  OneInv'
<1>1. /\ live' \in Seq(LiveSession) /\ Len(live') = Len(live)
      /\ \A s \in 1 .. Len(live) : live'[s].id = live[s].id
      /\ \A s \in 1 .. Len(live) : s # r => live'[s].stage = live[s].stage
      /\ live[r].stage \in Opening
      /\ \/ live'[r].stage \in {"rejecting", "failed"}
         \/ live'[r].stage = "validating" /\ closing = "no"
  BY ProceedEffect
<1>2. UNCHANGED <<conn, liveSessions, openingSessions, req, closing, awaited>>
  BY DEF Proceeds, ServiceAnswers, Invalid, Rejected
<1>3. DOMAIN live = 1 .. Len(live) /\ DOMAIN live' = 1 .. Len(live)
  BY <1>1 DEF TypeOK
<1>4. ASSUME NEW s \in 1 .. Len(live)
      PROVE  /\ live'[s].stage \in Opening => live[s].stage \in Opening
             /\ live'[s].stage \in Alive <=> live[s].stage \in Alive
             /\ live'[s].stage \in {"disposing", "gone"} <=> live[s].stage \in {"disposing", "gone"}
             /\ closing # "no" /\ live'[s].stage = "validating" => live[s].stage = "validating"
             /\ live'[s].stage = "live" <=> live[s].stage = "live"
             /\ live'[s].stage = "disposing" <=> live[s].stage = "disposing"
  BY <1>1 DEF Opening, Alive
<1>5. OneRuntimePerSession'
  <2>1. \A s \in 1 .. Len(live) : Held(s)' => Held(s)
    BY <1>4 DEF Held, Alive
  <2> QED BY <1>1, <1>3, <2>1 DEF OneInv, OneRuntimePerSession
<1>6. OpeningsInv'
  <2>1. \A i \in Ids : openingSessions[i] # 0 => openingSessions[i] \in 1 .. Len(live)
    BY DEF TypeOK
  <2> QED BY <1>1, <1>2, <1>4, <2>1 DEF OneInv, OpeningsInv
<1>7. TableInv'
  <2>1. \A i \in Ids : liveSessions[i] # 0 => liveSessions[i] \in 1 .. Len(live)
    BY DEF TypeOK
  <2> QED BY <1>1, <1>2, <1>4, <2>1 DEF OneInv, TableInv
<1>8. CloseInv'
  <2>1. CASE closing = "no"
    BY <1>2, <2>1 DEF CloseInv, Stopped, Drained
  <2>2. CASE closing # "no"
    BY <1>1, <1>2, <1>4, <2>2 DEF OneInv, CloseInv
  <2> QED BY <2>1, <2>2
<1>9. WaitInv'
  <2> SUFFICES ASSUME NEW q \in Reqs, req[q].at = "waiting"
               PROVE  /\ live'[req[q].rt].stage \in {"disposing", "gone"}
                      /\ live'[req[q].rt].id = req[q].id
                      /\ closing \in Stopped =>
                            live'[req[q].rt].stage = "disposing" \/ Over(req[q].id)'
    BY <1>2 DEF WaitInv, Over
  <2>1. req[q].rt \in 1 .. Len(live)
    BY Served
  <2>2. /\ live[req[q].rt].stage \in {"disposing", "gone"}
        /\ live[req[q].rt].id = req[q].id
        /\ closing \in Stopped => live[req[q].rt].stage = "disposing" \/ Over(req[q].id)
    BY DEF OneInv, WaitInv
  <2>3. closing \in Stopped /\ Over(req[q].id) => Over(req[q].id)'
    <3>1. closing \in Stopped => closing # "no"
      BY DEF Stopped
    <3> QED BY <1>1, <1>2, <1>4, <3>1 DEF Over
  <2> QED BY <1>1, <1>4, <2>1, <2>2, <2>3
<1> QED BY <1>5, <1>6, <1>7, <1>8, <1>9 DEF OneInv

\* A runtime becomes live: the session had no other.
LEMMA OneValidates ==
    ASSUME TypeOK, OneInv, NEW r \in 1 .. Len(live), Validate(r)
    PROVE  OneInv'
<1>1. /\ live' \in Seq(LiveSession) /\ Len(live') = Len(live)
      /\ \A s \in 1 .. Len(live) : live'[s].id = live[s].id
      /\ \A s \in 1 .. Len(live) : s # r => live'[s].stage = live[s].stage
      /\ live'[r].stage = "live"
  BY ProceedEffect
<1>2. /\ UNCHANGED <<conn, openingSessions, req, closing, awaited>>
      /\ liveSessions' = [liveSessions EXCEPT ![live[r].id] = r]
      /\ live[r].stage = "validating"
  BY DEF Validate
<1>3. DOMAIN live = 1 .. Len(live) /\ DOMAIN live' = 1 .. Len(live)
  BY <1>1 DEF TypeOK
<1>4. live[r].id \in Ids /\ liveSessions \in [Ids -> 0 .. Len(live)]
  BY HeldStages DEF TypeOK
<1>5. closing \notin Drained
  BY <1>2 DEF OneInv, CloseInv
<1>6. \A s \in 1 .. Len(live) : s # r /\ Held(s) => live[s].id # live[r].id
  BY <1>2, <1>3 DEF OneInv, OneRuntimePerSession, Held, Opening
<1>7. OneRuntimePerSession'
  <2>1. \A s \in 1 .. Len(live) : Held(s)' => Held(s)
    BY <1>1, <1>2 DEF Held, Opening
  <2> QED BY <1>1, <1>3, <2>1 DEF OneInv, OneRuntimePerSession
<1>8. OpeningsInv'
  <2>1. \A i \in Ids : openingSessions[i] # 0 => openingSessions[i] \in 1 .. Len(live)
    BY DEF TypeOK
  <2>2. \A i \in Ids : openingSessions'[i] # 0 => live'[openingSessions'[i]].id = i
    BY <1>1, <1>2, <2>1 DEF OneInv, OpeningsInv
  <2>3. ASSUME NEW s \in 1 .. Len(live), live'[s].stage \in Opening
        PROVE  openingSessions'[live'[s].id] = s /\ liveSessions'[live'[s].id] = 0
    <3>1. s # r /\ live[s].stage \in Opening
      BY <1>1, <2>3 DEF Opening
    <3>2. live[s].id # live[r].id /\ live[s].id \in Ids
      BY <1>6, <3>1, HeldStages
    <3>3. openingSessions[live[s].id] = s /\ liveSessions[live[s].id] = 0
      BY <3>1 DEF OneInv, OpeningsInv
    <3> QED BY <1>1, <1>2, <1>4, <3>2, <3>3
  <2> QED BY <1>1, <2>2, <2>3 DEF OpeningsInv
<1>9. TableInv'
  <2>1. ASSUME NEW i \in Ids, liveSessions'[i] # 0
        PROVE  live'[liveSessions'[i]].id = i /\ live'[liveSessions'[i]].stage \in Alive
    <3>1. CASE i = live[r].id
      BY <1>1, <1>2, <1>4, <3>1 DEF Alive
    <3>2. CASE i # live[r].id
      <4>1. liveSessions'[i] = liveSessions[i] /\ liveSessions[i] \in 1 .. Len(live)
        BY <1>2, <1>4, <2>1, <3>2
      <4>2. /\ live[liveSessions[i]].id = i /\ live[liveSessions[i]].stage \in Alive
            /\ liveSessions[i] # r
        BY <1>2, <2>1, <3>2, <4>1 DEF OneInv, TableInv
      <4> QED BY <1>1, <4>1, <4>2
    <3> QED BY <3>1, <3>2
  <2>2. ASSUME NEW s \in 1 .. Len(live), live'[s].stage \in Alive
        PROVE  liveSessions'[live'[s].id] = s
    <3>1. CASE s = r
      BY <1>1, <1>2, <1>4, <3>1
    <3>2. CASE s # r
      <4>1. live[s].stage \in Alive
        BY <1>1, <2>2, <3>2
      <4>2. live[s].id # live[r].id /\ live[s].id \in Ids /\ liveSessions[live[s].id] = s
        BY <1>5, <1>6, <3>2, <4>1, HeldStages DEF OneInv, TableInv
      <4> QED BY <1>1, <1>2, <1>4, <4>2
    <3> QED BY <3>1, <3>2
  <2> QED BY <1>1, <2>1, <2>2 DEF TableInv
<1>10. CloseInv'
  <2>1. \A s \in 1 .. Len(live) : live'[s].stage = "validating" => live[s].stage = "validating"
    BY <1>1, <1>2
  <2>2. closing # "draining" /\ closing # "closed"
    BY <1>5 DEF Drained
  <2> QED BY <1>1, <1>2, <1>5, <2>1, <2>2 DEF OneInv, CloseInv
<1>11. WaitInv'
  <2> SUFFICES ASSUME NEW q \in Reqs, req[q].at = "waiting"
               PROVE  /\ live'[req[q].rt].stage \in {"disposing", "gone"}
                      /\ live'[req[q].rt].id = req[q].id
                      /\ closing \in Stopped =>
                            live'[req[q].rt].stage = "disposing" \/ Over(req[q].id)'
    BY <1>2 DEF WaitInv, Over
  <2>1. req[q].rt \in 1 .. Len(live)
    BY Served
  <2>2. /\ live[req[q].rt].stage \in {"disposing", "gone"}
        /\ live[req[q].rt].id = req[q].id
        /\ closing \in Stopped => live[req[q].rt].stage = "disposing" \/ Over(req[q].id)
    BY DEF OneInv, WaitInv
  <2>3. req[q].rt # r
    BY <1>2, <2>2
  <2>4. Over(req[q].id) => Over(req[q].id)'
    BY <1>1, <1>2 DEF Over
  <2> QED BY <1>1, <2>1, <2>2, <2>3, <2>4
<1> QED BY <1>7, <1>8, <1>9, <1>10, <1>11 DEF OneInv

\* A disposal is over.
LEMMA OneDisposed ==
    ASSUME TypeOK, OneInv, NEW r \in 1 .. Len(live), DisposeEnd(r)
    PROVE  OneInv'
<1>1. /\ live' \in Seq(LiveSession) /\ Len(live') = Len(live)
      /\ \A s \in 1 .. Len(live) : live'[s].id = live[s].id
      /\ \A s \in 1 .. Len(live) : s # r => live'[s].stage = live[s].stage
      /\ live'[r].stage = "gone"
  BY ProceedEffect
<1>2. /\ UNCHANGED <<conn, openingSessions, req, closing, awaited>>
      /\ live[r].stage = "disposing"
      /\ liveSessions' = IF liveSessions[live[r].id] = r
                         THEN [liveSessions EXCEPT ![live[r].id] = 0] ELSE liveSessions
  BY DEF DisposeEnd
<1>3. DOMAIN live = 1 .. Len(live) /\ DOMAIN live' = 1 .. Len(live)
  BY <1>1 DEF TypeOK
<1>4. live[r].id \in Ids /\ liveSessions \in [Ids -> 0 .. Len(live)]
  BY HeldStages DEF TypeOK
<1>5. \A i \in Ids : /\ liveSessions'[i] # 0 => liveSessions'[i] = liveSessions[i]
                     /\ liveSessions'[i] # r
                     /\ i # live[r].id => liveSessions'[i] = liveSessions[i]
  <2>1. \A i \in Ids : liveSessions[i] = r => i = live[r].id
    BY <1>4 DEF OneInv, TableInv
  <2>2. r # 0
    OBVIOUS
  <2> QED BY <1>2, <1>4, <2>1, <2>2
<1>6. \A s \in 1 .. Len(live) : s # r /\ Held(s) => live[s].id # live[r].id
  BY <1>2, <1>3 DEF OneInv, OneRuntimePerSession, Held
<1>7. OneRuntimePerSession'
  <2>1. \A s \in 1 .. Len(live) : Held(s)' => Held(s)
    BY <1>1, <1>2 DEF Held, Opening
  <2> QED BY <1>1, <1>3, <2>1 DEF OneInv, OneRuntimePerSession
<1>8. OpeningsInv'
  <2>1. \A i \in Ids : openingSessions[i] # 0 => openingSessions[i] \in 1 .. Len(live)
    BY DEF TypeOK
  <2>2. \A i \in Ids : openingSessions'[i] # 0 => live'[openingSessions'[i]].id = i
    BY <1>1, <1>2, <2>1 DEF OneInv, OpeningsInv
  <2>3. ASSUME NEW s \in 1 .. Len(live), live'[s].stage \in Opening
        PROVE  openingSessions'[live'[s].id] = s /\ liveSessions'[live'[s].id] = 0
    <3>1. live[s].stage \in Opening /\ live[s].id \in Ids
      BY <1>1, <2>3, HeldStages DEF Opening
    <3>2. openingSessions[live[s].id] = s /\ liveSessions[live[s].id] = 0
      BY <3>1 DEF OneInv, OpeningsInv
    <3> QED BY <1>1, <1>2, <1>5, <3>1, <3>2
  <2> QED BY <1>1, <2>2, <2>3 DEF OpeningsInv
<1>9. TableInv'
  <2>1. ASSUME NEW i \in Ids, liveSessions'[i] # 0
        PROVE  live'[liveSessions'[i]].id = i /\ live'[liveSessions'[i]].stage \in Alive
    <3>1. liveSessions'[i] = liveSessions[i] /\ liveSessions[i] \in 1 .. Len(live)
      BY <1>4, <1>5, <2>1
    <3>2. live[liveSessions[i]].id = i /\ live[liveSessions[i]].stage \in Alive
      BY <2>1, <3>1 DEF OneInv, TableInv
    <3> QED BY <1>1, <1>5, <3>1, <3>2
  <2>2. ASSUME closing \notin Drained, NEW s \in 1 .. Len(live), live'[s].stage \in Alive
        PROVE  liveSessions'[live'[s].id] = s
    <3>1. s # r /\ live[s].stage \in Alive
      BY <1>1, <2>2 DEF Alive
    <3>2. live[s].id # live[r].id /\ live[s].id \in Ids /\ liveSessions[live[s].id] = s
      BY <1>6, <2>2, <3>1, HeldStages DEF OneInv, TableInv
    <3> QED BY <1>1, <1>5, <3>2
  <2> QED BY <1>1, <1>2, <2>1, <2>2 DEF TableInv
<1>10. CloseInv'
  <2>1. \A s \in 1 .. Len(live) :
          live'[s].stage \in {"validating", "live", "disposing"} => live'[s].stage = live[s].stage
    BY <1>1
  <2>2. closing \in Drained => \A i \in Ids : liveSessions'[i] = 0
    BY <1>5 DEF OneInv, CloseInv
  <2> QED BY <1>1, <1>2, <2>1, <2>2 DEF OneInv, CloseInv
<1>11. WaitInv'
  <2> SUFFICES ASSUME NEW q \in Reqs, req[q].at = "waiting"
               PROVE  /\ live'[req[q].rt].stage \in {"disposing", "gone"}
                      /\ live'[req[q].rt].id = req[q].id
                      /\ closing \in Stopped =>
                            live'[req[q].rt].stage = "disposing" \/ Over(req[q].id)'
    BY <1>2 DEF WaitInv, Over
  <2>1. req[q].rt \in 1 .. Len(live)
    BY Served
  <2>2. /\ live[req[q].rt].stage \in {"disposing", "gone"}
        /\ live[req[q].rt].id = req[q].id
        /\ closing \in Stopped => live[req[q].rt].stage = "disposing" \/ Over(req[q].id)
    BY DEF OneInv, WaitInv
  <2>3. Over(req[q].id) => Over(req[q].id)'
    BY <1>1, <1>2 DEF Over
  <2>4. CASE req[q].rt = r
    <3>1. Over(req[q].id)'
      BY <1>1, <1>2, <1>6, <2>2, <2>4 DEF Over, Held, Opening
    <3> QED BY <1>1, <2>2, <2>4, <3>1
  <2>5. CASE req[q].rt # r
    BY <1>1, <2>1, <2>2, <2>3, <2>5
  <2> QED BY <2>4, <2>5
<1> QED BY <1>7, <1>8, <1>9, <1>10, <1>11 DEF OneInv

\* close disposes what is live, when nothing is being opened any more that could be.
LEMMA OneDrains ==
    ASSUME TypeOK, OneInv, Drain
    PROVE  OneInv'
<1>1. /\ live' \in Seq(LiveSession) /\ Len(live') = Len(live)
      /\ awaited' = {liveSessions[i] : i \in Ids} \ {0}
      /\ \A s \in 1 .. Len(live) : live'[s].id = live[s].id
      /\ \A s \in 1 .. Len(live) :
            live'[s].stage = IF s \in awaited' THEN "disposing" ELSE live[s].stage
  BY DrainEffect
<1>2. /\ UNCHANGED <<conn, openingSessions, req>> /\ closing = "openings" /\ closing' = "draining"
      /\ \A r \in awaited : live[r].stage \notin Opening
      /\ \A i \in Ids : liveSessions'[i] = 0
  BY DEF Drain
<1>3. DOMAIN live = 1 .. Len(live) /\ DOMAIN live' = 1 .. Len(live)
  BY <1>1 DEF TypeOK
<1>4. ASSUME NEW s \in 1 .. Len(live)
      PROVE  s \in awaited' <=> live[s].stage \in Alive
  <2>1. live[s].id \in Ids /\ s # 0
    BY HeldStages
  <2>2. live[s].stage \in Alive => liveSessions[live[s].id] = s
    BY <1>2 DEF OneInv, TableInv, Drained
  <2>3. \A i \in Ids : liveSessions[i] = s => live[s].stage \in Alive
    BY <2>1 DEF OneInv, TableInv
  <2> QED BY <1>1, <2>1, <2>2, <2>3
<1>5. ASSUME NEW s \in 1 .. Len(live)
      PROVE  /\ live[s].stage # "validating"
             /\ live'[s].stage \in Alive => live'[s].stage = "disposing" /\ s \in awaited'
             /\ live'[s].stage \in Alive <=> live[s].stage \in Alive
             /\ live[s].stage \notin Alive => live'[s].stage = live[s].stage
  <2>1. live[s].stage # "validating"
    BY <1>2 DEF OneInv, CloseInv, Opening
  <2>2. live'[s].stage = IF live[s].stage \in Alive THEN "disposing" ELSE live[s].stage
    BY <1>1, <1>4
  <2> QED BY <1>4, <2>1, <2>2 DEF Alive
<1>6. OneRuntimePerSession'
  <2>1. \A s \in 1 .. Len(live) : Held(s)' => Held(s)
    BY <1>5 DEF Held, Alive
  <2> QED BY <1>1, <1>3, <2>1 DEF OneInv, OneRuntimePerSession
<1>7. OpeningsInv'
  <2>1. \A i \in Ids : openingSessions[i] # 0 => openingSessions[i] \in 1 .. Len(live)
    BY DEF TypeOK
  <2>2. \A i \in Ids : openingSessions'[i] # 0 => live'[openingSessions'[i]].id = i
    BY <1>1, <1>2, <2>1 DEF OneInv, OpeningsInv
  <2>3. ASSUME NEW s \in 1 .. Len(live), live'[s].stage \in Opening
        PROVE  openingSessions'[live'[s].id] = s /\ liveSessions'[live'[s].id] = 0
    <3>1. live[s].stage \in Opening /\ live[s].id \in Ids
      BY <1>5, <2>3, HeldStages DEF Opening, Alive
    <3> QED BY <1>1, <1>2, <3>1 DEF OneInv, OpeningsInv
  <2> QED BY <1>1, <2>2, <2>3 DEF OpeningsInv
<1>8. TableInv'
  BY <1>2 DEF TableInv, Drained
<1>9. CloseInv'
  <2>1. \A c \in Conns : conn[c] # "ready"
    BY <1>2 DEF OneInv, CloseInv, Stopped
  <2>2. ASSUME NEW s \in 1 .. Len(live)
        PROVE  /\ live'[s].stage \notin {"validating", "live"}
               /\ live'[s].stage = "disposing" => s \in awaited'
    BY <1>5 DEF Alive
  <2> QED BY <1>1, <1>2, <2>1, <2>2 DEF CloseInv
<1>10. WaitInv'
  <2> SUFFICES ASSUME NEW q \in Reqs, req[q].at = "waiting"
               PROVE  /\ live'[req[q].rt].stage \in {"disposing", "gone"}
                      /\ live'[req[q].rt].id = req[q].id
                      /\ live'[req[q].rt].stage = "disposing" \/ Over(req[q].id)'
    BY <1>2 DEF WaitInv, Over
  <2>1. req[q].rt \in 1 .. Len(live)
    BY Served
  <2>2. /\ live[req[q].rt].stage \in {"disposing", "gone"}
        /\ live[req[q].rt].id = req[q].id
        /\ live[req[q].rt].stage = "disposing" \/ Over(req[q].id)
    BY <1>2 DEF OneInv, WaitInv, Stopped
  <2>3. Over(req[q].id) => Over(req[q].id)'
    BY <1>1, <1>2, <1>5 DEF Over, Alive
  <2>4. live'[req[q].rt].stage = live[req[q].rt].stage
    BY <1>5, <2>1, <2>2 DEF Alive
  <2> QED BY <1>1, <2>1, <2>2, <2>3, <2>4
<1> QED BY <1>6, <1>7, <1>8, <1>9, <1>10 DEF OneInv

\* Every step keeps a session's only runtime.
LEMMA OneStep ==
    ASSUME RuntimesAssumption, TypeOK, OpsInv, OneInv, [Next]_vars
    PROVE  OneInv'
<1>1. CASE UNCHANGED vars
  BY <1>1 DEF vars, OneInv, OneRuntimePerSession, Held, OpeningsInv, TableInv, CloseInv, WaitInv,
              Over
<1>2. CASE ~UNCHANGED vars
  <2>1. ASSUME NEW cs \in SUBSET Conns, Leaving(cs)
        PROVE  OneInv'
    BY <2>1, OneOthers, OneCloses
  <2>2. ASSUME NEW r \in 1 .. Len(live),
               QuietSession(r) \/ Proceeds(r) \/ Validate(r) \/ DisposeEnd(r)
        PROVE  OneInv'
    BY <2>2, OneOthers, OneProceeds, OneValidates, OneDisposed
  <2>3. QuietClose \/ Drain => OneInv'
    BY OneCloses, OneDrains
  <2> QED
    BY <1>2, <2>1, <2>2, <2>3, Steps, OneRequests, OneCommands, OneAsks
<1> QED BY <1>1, <1>2

-----------------------------------------------------------------------------
(* The operations in progress are counted. *)

\* A step that counts nothing and begins or ends no operation.
LEMMA OpsKept ==
    ASSUME TypeOK, OpsInv, Len(live') = Len(live), SameCounts,
           \A q \in Reqs :
              req[q].at = "operating" \/ req'[q].at = "operating" => req'[q] = req[q]
    PROVE  OpsInv'
<1>1. \A r : Ops(r)' = Ops(r)
  BY DEF Ops
<1> QED BY <1>1 DEF OpsInv, SameCounts

\* A slot that goes from one thing to another, neither of them an operation.
LEMMA NoOperation ==
    ASSUME TypeOK, NEW q \in Reqs, req[q].at # "operating", NEW x, x.at # "operating",
           req' = [req EXCEPT ![q] = x]
    PROVE  \A p \in Reqs :
              req[p].at = "operating" \/ req'[p].at = "operating" => req'[p] = req[p]
<1>1. req \in [Reqs -> Request]
  BY DEF TypeOK
<1> QED BY <1>1

\* The slots after every other step.
LEMMA OtherRequests ==
    ASSUME RuntimesAssumption, TypeOK, [Next]_vars,
           ~\E q \in Reqs : OperationEnds(q),
           ~\E q \in Reqs, c \in Conns, i \in Ids : Operate(q, c, i)
    PROVE  \A p \in Reqs :
              req[p].at = "operating" \/ req'[p].at = "operating" => req'[p] = req[p]
<1> DEFINE Goal == \A p \in Reqs :
              req[p].at = "operating" \/ req'[p].at = "operating" => req'[p] = req[p]
<1>1. Idle.at # "operating"
  BY DEF Idle
<1>2. \A a, c, i, r : a # "operating" => Busy(a, c, i, r).at # "operating"
  BY DEF Busy
<1>3. ASSUME NEW q \in Reqs, QuietRequest(q) \/ Attach(q)
      PROVE  Goal
  <2>1. req[q].at # "operating"
    BY <1>3 DEF QuietRequest, WaitFails, Resume, DetachEnd, Attach
  <2>2. \E x : x.at # "operating" /\ req' = [req EXCEPT ![q] = x]
    <3>1. CASE Resume(q)
      BY <1>1, <1>2, <3>1 DEF Resume
    <3>2. CASE ~Resume(q)
      BY <1>1, <1>3, <3>2 DEF QuietRequest, WaitFails, DetachEnd, Attach, Done
    <3> QED BY <3>1, <3>2
  <2> QED BY <2>1, <2>2, NoOperation
<1>4. ASSUME NEW q \in Reqs, NEW c \in Conns, NEW i \in Ids, Asks(q, c, i) \/ Detach(q, c, i)
      PROVE  Goal
  <2>1. req[q].at # "operating"
    BY <1>1, <1>4 DEF Asks, Detach
  <2>2. \E x : x.at # "operating" /\ (req' = [req EXCEPT ![q] = x] \/ req' = req)
    <3>1. CASE Asks(q, c, i)
      BY <1>1, <1>2, <3>1, AskEffect DEF AcquireNew, Done
    <3>2. CASE Detach(q, c, i)
      BY <1>1, <1>2, <3>2 DEF Detach
    <3> QED BY <1>4, <3>1, <3>2
  <2> QED BY <2>1, <2>2, NoOperation
<1>5. (\/ UNCHANGED vars \/ QuietClose \/ Drain
       \/ \E cs \in SUBSET Conns : Leaving(cs)
       \/ \E r \in 1 .. Len(live) :
             QuietSession(r) \/ Proceeds(r) \/ Validate(r) \/ DisposeEnd(r)) => UNCHANGED req
  <2>1. UNCHANGED vars \/ QuietClose \/ Drain => UNCHANGED req
    BY DEF vars, QuietClose, Close, CloseConnections, AwaitOpenings, CloseEnd, Drain
  <2>2. (\E cs \in SUBSET Conns : Leaving(cs)) => UNCHANGED req
    BY DEF Leaving
  <2>3. ASSUME NEW r \in 1 .. Len(live),
               QuietSession(r) \/ Proceeds(r) \/ Validate(r) \/ DisposeEnd(r)
        PROVE  UNCHANGED req
    BY <2>3 DEF QuietSession, RuntimeBusy, RuntimeIdle, RuntimeEvent, RuntimeError, TerminateEnd,
                Proceeds, ServiceAnswers, Invalid, Rejected, Validate, DisposeEnd
  <2> QED BY <2>1, <2>2, <2>3
<1>6. UNCHANGED req => Goal
  OBVIOUS
<1> HIDE DEF Goal
<1>7. Goal
  BY <1>3, <1>4, <1>5, <1>6, Steps
<1> QED BY <1>7 DEF Goal

\* The counts after every other step; a runtime that is asked for starts from none.
LEMMA OtherCounts ==
    ASSUME RuntimesAssumption, TypeOK, OpsInv, [Next]_vars,
           ~\E q \in Reqs : OperationEnds(q),
           ~\E q \in Reqs, c \in Conns, i \in Ids : Operate(q, c, i)
    PROVE  \/ Len(live') = Len(live) /\ SameCounts
           \/ /\ Len(live') = Len(live) + 1 /\ live'[Len(live) + 1].operationCount = 0
              /\ SameCounts
<1>1. ASSUME NEW q \in Reqs, QuietRequest(q) \/ Attach(q)
      PROVE  Len(live') = Len(live) /\ SameCounts
  BY <1>1, QuietRequests, AttachEffect DEF Quietly, KeepsRuntimes
<1>2. ASSUME NEW q \in Reqs, NEW c \in Conns, NEW i \in Ids, Detach(q, c, i)
      PROVE  Len(live') = Len(live) /\ SameCounts
  BY <1>2, DetachEffect DEF KeepsRuntimes
<1>3. ASSUME NEW q \in Reqs, NEW c \in Conns, NEW i \in Ids, Asks(q, c, i)
      PROVE  \/ Len(live') = Len(live) /\ SameCounts
             \/ /\ Len(live') = Len(live) + 1 /\ live'[Len(live) + 1].operationCount = 0
                /\ SameCounts
  <2>1. CASE AcquireNew(q, c, i)
    BY <2>1, Anew DEF AcquireNew, NewLive, SameCounts
  <2>2. CASE ~AcquireNew(q, c, i)
    <3>1. UNCHANGED live
      BY <1>3, <2>2, AskEffect
    <3> QED BY <3>1 DEF SameCounts
  <2> QED BY <2>1, <2>2
<1>4. ASSUME NEW r \in 1 .. Len(live),
             QuietSession(r) \/ Proceeds(r) \/ Validate(r) \/ DisposeEnd(r)
      PROVE  Len(live') = Len(live) /\ SameCounts
  BY <1>4, QuietSessions, ProceedEffect DEF Quietly, KeepsRuntimes
<1>5. ASSUME NEW cs \in SUBSET Conns, Leaving(cs)
      PROVE  Len(live') = Len(live) /\ SameCounts
  BY <1>5 DEF Leaving, Leaves, KeepsRuntimes
<1>6. Drain => Len(live') = Len(live) /\ SameCounts
  BY DrainEffect
<1>7. UNCHANGED vars \/ QuietClose => Len(live') = Len(live) /\ SameCounts
  BY DEF vars, QuietClose, Close, CloseConnections, AwaitOpenings, CloseEnd, SameCounts
<1> QED BY <1>1, <1>2, <1>3, <1>4, <1>5, <1>6, <1>7, Steps

\* Every step keeps the counts right.
LEMMA OpsStep ==
    ASSUME RuntimesAssumption, TypeOK, OpsInv, [Next]_vars
    PROVE  OpsInv'
<1>0. req \in [Reqs -> Request] /\ Len(live) \in Nat
  BY DEF TypeOK
<1>1. ASSUME NEW q \in Reqs, OperationEnds(q)
      PROVE  OpsInv'
  <2> DEFINE r == req[q].rt
  <2>1. r \in 1 .. Len(live) /\ live[r].operationCount > 0
    BY <1>1, OperationCounted DEF OperationEnds
  <2>2. /\ Len(live') = Len(live)
        /\ \A s \in 1 .. Len(live) : live'[s].operationCount =
              IF s = r THEN live[s].operationCount - 1 ELSE live[s].operationCount
    BY <1>1, <2>1, OperationEndsEffect DEF KeepsRuntimes
  <2>3. req' = [req EXCEPT ![q] = Idle] /\ req[q].at = "operating"
    BY <1>1 DEF OperationEnds, Done
  <2>4. \A p \in Reqs : req'[p] = IF p = q THEN Idle ELSE req[p]
    BY <1>0, <2>3
  <2>5. \A s : Ops(s)' = IF s = r THEN Ops(s) \ {q} ELSE Ops(s)
    BY <2>3, <2>4 DEF Ops, Idle
  <2>6. q \in Ops(r)
    BY <2>3 DEF Ops
  <2> HIDE DEF r
  <2>7. ASSUME NEW s \in 1 .. Len(live)
        PROVE  IsFiniteSet(Ops(s)') /\ live'[s].operationCount = Cardinality(Ops(s)')
    <3>1. IsFiniteSet(Ops(s)) /\ live[s].operationCount = Cardinality(Ops(s))
      BY DEF OpsInv
    <3>2. CASE s = r
      BY <2>2, <2>5, <2>6, <3>1, <3>2, FS_RemoveElement
    <3>3. CASE s # r
      BY <2>2, <2>5, <3>1, <3>3
    <3> QED BY <3>2, <3>3
  <2> QED BY <2>2, <2>7 DEF OpsInv
<1>2. ASSUME NEW q \in Reqs, NEW c \in Conns, NEW i \in Ids, Operate(q, c, i)
      PROVE  OpsInv'
  <2> DEFINE r == liveSessions[i]
  <2>1. /\ r \in 1 .. Len(live) /\ Len(live') = Len(live)
        /\ \A s \in 1 .. Len(live) : live'[s].operationCount =
              IF s = r THEN live[s].operationCount + 1 ELSE live[s].operationCount
    BY <1>2, OperateEffect DEF KeepsRuntimes
  <2>2. req' = [req EXCEPT ![q] = Busy("operating", c, i, r)] /\ req[q] = Idle
    BY <1>2 DEF Operate
  <2>3. /\ \A p \in Reqs : p # q => req'[p] = req[p]
        /\ req'[q].at = "operating" /\ req'[q].rt = r
    BY <1>0, <2>2 DEF Busy
  <2>4. req[q].at # "operating"
    BY <2>2 DEF Idle
  <2>5. \A s : Ops(s)' = IF s = r THEN Ops(s) \cup {q} ELSE Ops(s)
    BY <2>3, <2>4 DEF Ops
  <2>6. q \notin Ops(r)
    BY <2>4 DEF Ops
  <2> HIDE DEF r
  <2>7. ASSUME NEW s \in 1 .. Len(live)
        PROVE  IsFiniteSet(Ops(s)') /\ live'[s].operationCount = Cardinality(Ops(s)')
    <3>1. IsFiniteSet(Ops(s)) /\ live[s].operationCount = Cardinality(Ops(s))
      BY DEF OpsInv
    <3>2. CASE s = r
      BY <2>1, <2>5, <2>6, <3>1, <3>2, FS_AddElement
    <3>3. CASE s # r
      BY <2>1, <2>5, <3>1, <3>3
    <3> QED BY <3>2, <3>3
  <2> QED BY <2>1, <2>7 DEF OpsInv
<1>3. CASE /\ ~\E q \in Reqs : OperationEnds(q)
           /\ ~\E q \in Reqs, c \in Conns, i \in Ids : Operate(q, c, i)
  <2>1. \A p \in Reqs :
          req[p].at = "operating" \/ req'[p].at = "operating" => req'[p] = req[p]
    BY <1>3, OtherRequests
  <2>2. CASE Len(live') = Len(live) /\ SameCounts
    BY <2>1, <2>2, OpsKept
  <2>3. CASE /\ Len(live') = Len(live) + 1 /\ live'[Len(live) + 1].operationCount = 0
             /\ SameCounts
    <3>1. \A s : Ops(s)' = Ops(s)
      BY <2>1 DEF Ops
    <3>2. Ops(Len(live) + 1) = {}
      <4> SUFFICES ASSUME NEW p \in Ops(Len(live) + 1) PROVE FALSE
        OBVIOUS
      <4>1. p \in Reqs /\ req[p].at = "operating" /\ req[p].rt = Len(live) + 1
        BY DEF Ops
      <4>2. req[p].rt \in 1 .. Len(live)
        BY <4>1, Served
      <4> QED BY <1>0, <4>1, <4>2
    <3>3. IsFiniteSet(Ops(Len(live) + 1)) /\ Cardinality(Ops(Len(live) + 1)) = 0
      BY <3>2, FS_EmptySet
    <3>4. \A s \in 1 .. Len(live') : s = Len(live) + 1 \/ s \in 1 .. Len(live)
      BY <1>0, <2>3
    <3> QED BY <2>3, <3>1, <3>3, <3>4 DEF OpsInv, SameCounts
  <2> QED BY <1>3, <2>2, <2>3, OtherCounts
<1> QED BY <1>1, <1>2, <1>3

-----------------------------------------------------------------------------
(* Who uses a runtime. *)

\* A request that has a runtime has one that was live; one that is not live yet, or
\* never was, has nobody attached.
Been == {"live", "disposing", "gone"}
UseInv ==
    /\ \A q \in Reqs :
          req[q].at \in {"acquired", "operating", "detaching"} => live[req[q].rt].stage \in Been
    /\ \A r \in 1 .. Len(live) : live[r].stage \notin Been => live[r].connections = {}

\* What was live stays so.
LEMMA BeenStays ==
    ASSUME TypeOK, RuntimesAssumption, OpsInv, [Next]_vars, NEW r \in 1 .. Len(live)
    PROVE  live[r].stage \in Been => live'[r].stage \in Been
<1>1. KeepsRuntimes => (live[r].stage \in Been => live'[r].stage \in Been)
  BY DEF KeepsRuntimes, Keeps, Been
<1>2. UNCHANGED live => (live[r].stage \in Been => live'[r].stage \in Been)
  OBVIOUS
<1>3. ASSUME NEW q \in Reqs, QuietRequest(q) \/ Attach(q) \/ OperationEnds(q)
      PROVE  KeepsRuntimes
  BY <1>3, QuietRequests, AttachEffect, OperationEndsEffect, OperationCounted
     DEF Quietly, OperationEnds
<1>4. ASSUME NEW q \in Reqs, NEW c \in Conns, NEW i \in Ids, Detach(q, c, i) \/ Operate(q, c, i)
      PROVE  KeepsRuntimes
  BY <1>4, DetachEffect, OperateEffect
<1>5. ASSUME NEW q \in Reqs, NEW c \in Conns, NEW i \in Ids, Asks(q, c, i)
      PROVE  live'[r] = live[r]
  BY <1>5, AskEffect, Anew DEF AcquireNew
<1>6. ASSUME NEW s \in 1 .. Len(live), Proceeds(s) \/ Validate(s) \/ DisposeEnd(s)
      PROVE  live[r].stage \in Been => live'[r].stage \in Been
  <2>1. live[s].stage \in Been => live'[s].stage \in Been
    BY <1>6, ProceedEffect DEF Been, Opening
  <2>2. r # s => live'[r].stage = live[r].stage
    BY <1>6, ProceedEffect
  <2> QED BY <2>1, <2>2
<1>7. ASSUME NEW s \in 1 .. Len(live), QuietSession(s)
      PROVE  KeepsRuntimes
  BY <1>7, QuietSessions DEF Quietly
<1>8. ASSUME NEW cs \in SUBSET Conns, Leaving(cs)
      PROVE  KeepsRuntimes
  BY <1>8 DEF Leaving, Leaves
<1>9. Drain => (live[r].stage \in Been => live'[r].stage \in Been)
  BY DrainEffect DEF Been
<1>10. UNCHANGED vars \/ QuietClose => UNCHANGED live
  BY DEF vars, QuietClose, Close, CloseConnections, AwaitOpenings, CloseEnd
<1> QED
  BY <1>1, <1>2, <1>3, <1>4, <1>5, <1>6, <1>7, <1>8, <1>9, <1>10, Steps

\* Only what was live gets an attachment.
LEMMA UnusedStays ==
    ASSUME TypeOK, RuntimesAssumption, OpsInv, UseInv, [Next]_vars, NEW r \in 1 .. Len(live),
           live[r].connections = {}, live[r].stage \notin Been
    PROVE  live'[r].connections = {}
<1>1. SameConnections => live'[r].connections = {}
  BY DEF SameConnections
<1>2. ASSUME NEW q \in Reqs, QuietRequest(q) \/ OperationEnds(q)
      PROVE  SameConnections
  BY <1>2, QuietRequests, OperationEndsEffect, OperationCounted DEF Quietly, OperationEnds
<1>3. ASSUME NEW q \in Reqs, Attach(q)
      PROVE  live'[r].connections = {}
  <2>1. req[q].rt # r
    BY <1>3 DEF UseInv, Attach
  <2> QED BY <1>3, <2>1, AttachEffect
<1>4. ASSUME NEW q \in Reqs, NEW c \in Conns, NEW i \in Ids, Detach(q, c, i) \/ Operate(q, c, i)
      PROVE  live'[r].connections = {}
  <2>1. CASE Detach(q, c, i)
    <3>1. CASE r = liveSessions[i]
      <4>1. live'[r].connections = live[r].connections \ {c}
        BY <2>1, <3>1, DetachEffect
      <4> QED BY <4>1
    <3>2. CASE r # liveSessions[i]
      BY <2>1, <3>2, DetachEffect
    <3> QED BY <3>1, <3>2
  <2>2. CASE Operate(q, c, i)
    BY <1>1, <2>2, OperateEffect
  <2> QED BY <1>4, <2>1, <2>2
<1>5. ASSUME NEW q \in Reqs, NEW c \in Conns, NEW i \in Ids, Asks(q, c, i)
      PROVE  live'[r] = live[r]
  BY <1>5, AskEffect, Anew DEF AcquireNew
<1>6. ASSUME NEW s \in 1 .. Len(live),
             QuietSession(s) \/ Proceeds(s) \/ Validate(s) \/ DisposeEnd(s)
      PROVE  SameConnections
  BY <1>6, QuietSessions, ProceedEffect DEF Quietly
<1>7. ASSUME NEW cs \in SUBSET Conns, Leaving(cs)
      PROVE  live'[r].connections = {}
  BY <1>7 DEF Leaving, Leaves, Left
<1>8. Drain => SameConnections
  BY DrainEffect
<1>9. UNCHANGED vars \/ QuietClose => UNCHANGED live
  BY DEF vars, QuietClose, Close, CloseConnections, AwaitOpenings, CloseEnd
<1> QED
  BY <1>1, <1>2, <1>3, <1>4, <1>5, <1>6, <1>7, <1>8, <1>9, Steps

\* A request goes on with a runtime only when that is live.
LEMMA GoesOnLive ==
    ASSUME TypeOK, RuntimesAssumption, TableInv, [Next]_vars, NEW q \in Reqs,
           req'[q].at \in {"acquired", "operating", "detaching"}
    PROVE  req'[q] = req[q] \/ (req'[q].rt \in 1 .. Len(live) /\ live[req'[q].rt].stage \in Been)
<1> DEFINE Goal ==
        req'[q] = req[q] \/ (req'[q].rt \in 1 .. Len(live) /\ live[req'[q].rt].stage \in Been)
<1>1. req \in [Reqs -> Request]
  BY DEF TypeOK
<1>2. \A p \in Reqs : p # q => \A x : req' = [req EXCEPT ![p] = x] => Goal
  BY <1>1
<1>3. req' = [req EXCEPT ![q] = Idle] => FALSE
  BY <1>1 DEF Idle
<1>4. \A a, c, i, r :
        req' = [req EXCEPT ![q] = Busy(a, c, i, r)] => req'[q].at = a /\ req'[q].rt = r
  BY <1>1 DEF Busy
<1>5. \A i \in Ids : liveSessions[i] # 0 =>
        liveSessions[i] \in 1 .. Len(live) /\ live[liveSessions[i]].stage \in Been
  BY DEF TypeOK, TableInv, Alive, Been
<1>6. ASSUME NEW p \in Reqs, QuietRequest(p) \/ Attach(p) \/ OperationEnds(p)
      PROVE  Goal
  <2>1. CASE Resume(p) /\ p = q
    <3>1. live[req[q].rt].stage \notin Opening /\ req[q].rt \in 1 .. Len(live)
      BY <2>1, Served DEF Resume
    <3>2. live[req[q].rt].stage # "failed"
      BY <1>3, <2>1 DEF Resume
    <3>3. live[req[q].rt].stage \in Stages
      BY <3>1, HeldStages
    <3>4. req'[q].rt = req[q].rt
      <4>1. req' = [req EXCEPT ![q] = Busy("acquired", req[q].conn, req[q].id, req[q].rt)]
        BY <2>1, <3>2, <1>3 DEF Resume
      <4> QED BY <1>1, <4>1 DEF Busy
    <3> QED BY <3>1, <3>2, <3>3, <3>4 DEF Stages, Been
  <2>2. CASE Resume(p) /\ p # q
    BY <1>1, <2>2 DEF Resume
  <2>3. CASE ~Resume(p)
    <3>1. req' = [req EXCEPT ![p] = Idle]
      BY <1>6, <2>3 DEF QuietRequest, WaitFails, DetachEnd, Attach, OperationEnds, Done
    <3> QED BY <1>2, <1>3, <3>1
  <2> QED BY <2>1, <2>2, <2>3
<1>7. ASSUME NEW p \in Reqs, NEW c \in Conns, NEW i \in Ids, Asks(p, c, i)
      PROVE  Goal
  <2>1. CASE p # q
    BY <1>2, <1>7, <2>1, AskEffect DEF AcquireNew, Done
  <2>2. CASE p = q
    <3>1. CASE AcquireNew(q, c, i)
      <4>1. req'[q].at = "creating"
        BY <1>1, <3>1 DEF AcquireNew, Busy
      <4> QED BY <4>1
    <3>2. CASE Done(q)
      BY <1>3, <3>2 DEF Done
    <3>3. CASE req' = [req EXCEPT ![q] = Busy("joining", c, i, openingSessions[i])]
      BY <1>4, <3>3
    <3>4. CASE /\ liveSessions[i] # 0
               /\ req' = [req EXCEPT ![q] =
                     Busy(IF live[liveSessions[i]].stage = "disposing" THEN "waiting"
                          ELSE "acquired", c, i, liveSessions[i])]
      BY <1>4, <1>5, <3>4
    <3> QED BY <1>7, <2>2, <3>1, <3>2, <3>3, <3>4, AskEffect
  <2> QED BY <2>1, <2>2
<1>8. ASSUME NEW p \in Reqs, NEW c \in Conns, NEW i \in Ids, Detach(p, c, i) \/ Operate(p, c, i)
      PROVE  Goal
  <2>1. \/ UNCHANGED req
        \/ req' = [req EXCEPT ![p] = Idle]
        \/ /\ liveSessions[i] # 0
           /\ \E a : req' = [req EXCEPT ![p] = Busy(a, c, i, liveSessions[i])]
    <3>1. CASE Detach(p, c, i)
      BY <3>1 DEF Detach
    <3>2. CASE Operate(p, c, i)
      BY <3>2 DEF Operate, Attached
    <3> QED BY <1>8, <3>1, <3>2
  <2>2. CASE p # q
    BY <1>2, <2>1, <2>2
  <2>3. CASE p = q
    BY <1>3, <1>4, <1>5, <2>1, <2>3
  <2> QED BY <2>2, <2>3
<1>9. ASSUME NEW r \in 1 .. Len(live),
             QuietSession(r) \/ Proceeds(r) \/ Validate(r) \/ DisposeEnd(r)
      PROVE  UNCHANGED req
  BY <1>9 DEF QuietSession, RuntimeBusy, RuntimeIdle, RuntimeEvent, RuntimeError, TerminateEnd,
              Proceeds, ServiceAnswers, Invalid, Rejected, Validate, DisposeEnd
<1>10. ASSUME NEW cs \in SUBSET Conns, Leaving(cs)
       PROVE  UNCHANGED req
  BY <1>10 DEF Leaving
<1>11. UNCHANGED vars \/ QuietClose \/ Drain => UNCHANGED req
  BY DEF vars, QuietClose, Close, CloseConnections, AwaitOpenings, CloseEnd, Drain
<1>12. UNCHANGED req => Goal
  OBVIOUS
<1> HIDE DEF Goal
<1>13. Goal
  BY <1>6, <1>7, <1>8, <1>9, <1>10, <1>11, <1>12, Steps
<1> QED BY <1>13 DEF Goal

\* The runtimes after a step are those before it, and maybe one that is asked for.
LEMMA Longer ==
    ASSUME TypeOK, RuntimesAssumption, OpsInv, [Next]_vars
    PROVE  /\ Len(live) \in Nat
           /\ \/ Len(live') = Len(live)
              \/ /\ Len(live') = Len(live) + 1
                 /\ live'[Len(live) + 1].stage = "acquiring"
                 /\ live'[Len(live) + 1].connections = {}
<1>0. Len(live) \in Nat
  BY DEF TypeOK
<1>1. ASSUME NEW q \in Reqs, QuietRequest(q) \/ Attach(q) \/ OperationEnds(q)
      PROVE  Len(live') = Len(live)
  BY <1>1, QuietRequests, AttachEffect, OperationEndsEffect, OperationCounted
     DEF Quietly, KeepsRuntimes, OperationEnds
<1>2. ASSUME NEW q \in Reqs, NEW c \in Conns, NEW i \in Ids, Detach(q, c, i) \/ Operate(q, c, i)
      PROVE  Len(live') = Len(live)
  BY <1>2, DetachEffect, OperateEffect DEF KeepsRuntimes
<1>3. ASSUME NEW q \in Reqs, NEW c \in Conns, NEW i \in Ids, Asks(q, c, i)
      PROVE  \/ Len(live') = Len(live)
             \/ /\ Len(live') = Len(live) + 1
                /\ live'[Len(live) + 1].stage = "acquiring"
                /\ live'[Len(live) + 1].connections = {}
  <2>1. CASE AcquireNew(q, c, i)
    BY <2>1, Anew DEF AcquireNew, NewLive
  <2>2. CASE ~AcquireNew(q, c, i)
    BY <1>3, <2>2, AskEffect
  <2> QED BY <2>1, <2>2
<1>4. ASSUME NEW r \in 1 .. Len(live),
             QuietSession(r) \/ Proceeds(r) \/ Validate(r) \/ DisposeEnd(r)
      PROVE  Len(live') = Len(live)
  BY <1>4, QuietSessions, ProceedEffect DEF Quietly, KeepsRuntimes
<1>5. ASSUME NEW cs \in SUBSET Conns, Leaving(cs)
      PROVE  Len(live') = Len(live)
  BY <1>5 DEF Leaving, Leaves, KeepsRuntimes
<1>6. Drain => Len(live') = Len(live)
  BY DrainEffect
<1>7. UNCHANGED vars \/ QuietClose => Len(live') = Len(live)
  BY DEF vars, QuietClose, Close, CloseConnections, AwaitOpenings, CloseEnd
<1> QED BY <1>0, <1>1, <1>2, <1>3, <1>4, <1>5, <1>6, <1>7, Steps

\* A runtime that is not live yet stays unused, and its requests wait.
LEMMA UseStep ==
    ASSUME RuntimesAssumption, TypeOK, OpsInv, OneInv, UseInv, [Next]_vars
    PROVE  UseInv'
<1>1. ASSUME NEW q \in Reqs, req'[q].at \in {"acquired", "operating", "detaching"}
      PROVE  live'[req'[q].rt].stage \in Been
  <2>1. req'[q].rt \in 1 .. Len(live) /\ live[req'[q].rt].stage \in Been
    <3>1. CASE req'[q] = req[q]
      BY <1>1, <3>1, Served DEF UseInv
    <3>2. CASE req'[q] # req[q]
      BY <1>1, <3>2, GoesOnLive DEF OneInv
    <3> QED BY <3>1, <3>2
  <2> QED BY <2>1, BeenStays
<1>2. ASSUME NEW r \in 1 .. Len(live'), live'[r].stage \notin Been
      PROVE  live'[r].connections = {}
  <2>1. CASE r \in 1 .. Len(live)
    <3>1. live[r].stage \notin Been /\ live[r].connections = {}
      BY <1>2, <2>1, BeenStays DEF UseInv
    <3> QED BY <2>1, <3>1, UnusedStays
  <2>2. CASE r \notin 1 .. Len(live)
    BY <1>2, <2>2, Longer
  <2> QED BY <2>1, <2>2
<1> QED BY <1>1, <1>2 DEF UseInv

-----------------------------------------------------------------------------
(* Disposal and operations. *)

\* Only an unused runtime is disposed while the server is open.
LEMMA LiveStays ==
    ASSUME TypeOK, RuntimesAssumption, OpsInv, [Next]_vars, NEW r \in 1 .. Len(live),
           live[r].stage = "live", closing' = "no"
    PROVE  live'[r].stage = "live" \/ live'[r].operationCount = 0
<1>1. KeepsRuntimes => (live'[r].stage = "live" \/ live'[r].operationCount = 0)
  BY DEF KeepsRuntimes, Keeps
<1>2. live'[r].stage = live[r].stage => live'[r].stage = "live"
  OBVIOUS
<1>3. ASSUME NEW q \in Reqs, QuietRequest(q) \/ Attach(q) \/ OperationEnds(q)
      PROVE  KeepsRuntimes
  BY <1>3, QuietRequests, AttachEffect, OperationEndsEffect, OperationCounted
     DEF Quietly, OperationEnds
<1>4. ASSUME NEW q \in Reqs, NEW c \in Conns, NEW i \in Ids, Detach(q, c, i) \/ Operate(q, c, i)
      PROVE  KeepsRuntimes
  BY <1>4, DetachEffect, OperateEffect
<1>5. ASSUME NEW q \in Reqs, NEW c \in Conns, NEW i \in Ids, Asks(q, c, i)
      PROVE  live'[r] = live[r]
  BY <1>5, AskEffect, Anew DEF AcquireNew
<1>6. ASSUME NEW s \in 1 .. Len(live), Proceeds(s) \/ Validate(s) \/ DisposeEnd(s)
      PROVE  live'[r].stage = live[r].stage
  <2>1. live[s].stage # "live"
    BY <1>6, ProceedEffect DEF Validate, DisposeEnd, Opening
  <2> QED BY <1>6, <2>1, ProceedEffect
<1>7. ASSUME NEW s \in 1 .. Len(live), QuietSession(s)
      PROVE  KeepsRuntimes
  BY <1>7, QuietSessions DEF Quietly
<1>8. ASSUME NEW cs \in SUBSET Conns, Leaving(cs)
      PROVE  KeepsRuntimes
  BY <1>8 DEF Leaving, Leaves
<1>9. ~Drain
  BY DEF Drain
<1>10. UNCHANGED vars \/ QuietClose => UNCHANGED live
  BY DEF vars, QuietClose, Close, CloseConnections, AwaitOpenings, CloseEnd
<1> QED
  BY <1>1, <1>2, <1>3, <1>4, <1>5, <1>6, <1>7, <1>8, <1>9, <1>10, Steps

\* close is not taken back.
LEMMA CloseStays ==
    ASSUME TypeOK, [Next]_vars, closing' = "no"
    PROVE  closing = "no"
<1>1. ASSUME NEW q \in Reqs, QuietRequest(q) \/ Attach(q) \/ OperationEnds(q)
      PROVE  UNCHANGED closing
  BY <1>1 DEF QuietRequest, WaitFails, Resume, DetachEnd, Attach, OperationEnds
<1>2. ASSUME NEW q \in Reqs, NEW c \in Conns, NEW i \in Ids,
             Asks(q, c, i) \/ Detach(q, c, i) \/ Operate(q, c, i)
      PROVE  UNCHANGED closing
  BY <1>2 DEF Asks, Acquire, Detach, Operate
<1>3. ASSUME NEW r \in 1 .. Len(live),
             QuietSession(r) \/ Proceeds(r) \/ Validate(r) \/ DisposeEnd(r)
      PROVE  UNCHANGED closing
  BY <1>3 DEF QuietSession, RuntimeBusy, RuntimeIdle, RuntimeEvent, RuntimeError, TerminateEnd,
              Proceeds, ServiceAnswers, Invalid, Rejected, Validate, DisposeEnd
<1>4. ASSUME NEW cs \in SUBSET Conns, Leaving(cs)
      PROVE  UNCHANGED closing
  BY <1>4 DEF Leaving
<1>5. UNCHANGED vars => UNCHANGED closing
  BY DEF vars
<1>6. ~QuietClose /\ ~Drain
  BY DEF QuietClose, Close, CloseConnections, AwaitOpenings, CloseEnd, Drain
<1> QED BY <1>1, <1>2, <1>3, <1>4, <1>5, <1>6, Steps

\* An operation begins on a live runtime.
LEMMA OperationBegins ==
    ASSUME TypeOK, RuntimesAssumption, [Next]_vars, NEW q \in Reqs, req'[q].at = "operating"
    PROVE  req'[q] = req[q] \/ live'[req'[q].rt].stage = "live"
<1>0. req \in [Reqs -> Request]
  BY DEF TypeOK
<1>1. CASE \E p \in Reqs, c \in Conns, i \in Ids : Operate(p, c, i)
  <2>1. PICK p \in Reqs, c \in Conns, i \in Ids : Operate(p, c, i)
    BY <1>1
  <2>2. req' = [req EXCEPT ![p] = Busy("operating", c, i, liveSessions[i])]
    BY <2>1 DEF Operate
  <2>3. live'[liveSessions[i]].stage = "live"
    BY <2>1, OperateEffect
  <2>4. CASE p = q
    <3>1. req'[q].rt = liveSessions[i]
      BY <1>0, <2>2, <2>4 DEF Busy
    <3> QED BY <2>3, <3>1
  <2>5. CASE p # q
    BY <1>0, <2>2, <2>5
  <2> QED BY <2>4, <2>5
<1>2. CASE \E p \in Reqs : OperationEnds(p)
  <2>1. PICK p \in Reqs : OperationEnds(p)
    BY <1>2
  <2>2. req' = [req EXCEPT ![p] = Idle]
    BY <2>1 DEF OperationEnds, Done
  <2> QED BY <1>0, <2>2 DEF Idle
<1>3. CASE /\ ~\E p \in Reqs : OperationEnds(p)
           /\ ~\E p \in Reqs, c \in Conns, i \in Ids : Operate(p, c, i)
  BY <1>3, OtherRequests
<1> QED BY <1>1, <1>2, <1>3

\* No runtime is disposed under an operation, because the operation is counted.
LEMMA DisposalStep ==
    ASSUME RuntimesAssumption, TypeOK, TypeOK', OpsInv, OpsInv', NoDisposalUnderOperation,
           [Next]_vars
    PROVE  NoDisposalUnderOperation'
<1> SUFFICES ASSUME NEW q \in Reqs, req'[q].at = "operating", closing' = "no"
             PROVE  live'[req'[q].rt].stage = "live"
  BY DEF NoDisposalUnderOperation
<1>1. CASE req'[q] # req[q]
  BY <1>1, OperationBegins
<1>2. CASE req'[q] = req[q]
  <2>0. req[q].rt \in 1 .. Len(live)
    BY <1>2, Served
  <2> PICK r \in 1 .. Len(live) : r = req[q].rt
    BY <2>0
  <2>1. live[r].stage = "live"
    BY <1>2, CloseStays DEF NoDisposalUnderOperation
  <2>2. r \in 1 .. Len(live')
    BY Longer
  <2>3. q \in Ops(r)'
    BY <1>2 DEF Ops
  <2>4. live'[r].operationCount # 0
    <3>1. IsFiniteSet(Ops(r)') /\ live'[r].operationCount = Cardinality(Ops(r)')
      BY <2>2 DEF OpsInv
    <3> QED BY <2>3, <3>1, FS_EmptySet
  <2> QED BY <1>2, <2>1, <2>4, LiveStays
<1> QED BY <1>1, <1>2

-----------------------------------------------------------------------------
(* Who receives. *)

\* The connections of a session in the table.
LEMMA TableTyped ==
    ASSUME TypeOK, NEW i \in Ids, liveSessions[i] # 0
    PROVE  /\ liveSessions[i] \in 1 .. Len(live)
           /\ live[liveSessions[i]].connections \subseteq Conns
<1>1. liveSessions[i] \in 1 .. Len(live)
  BY DEF TypeOK
<1>2. live[liveSessions[i]] \in LiveSession
  BY <1>1 DEF TypeOK
<1> QED BY <1>1, <1>2 DEF LiveSession

\* What is attached through a table entry stays attached as long as neither side
\* changes.
LEMMA ReceiversKept ==
    ASSUME TypeOK, ReceiversAreAttached,
           \A i \in Ids : liveSessions'[i] # 0 =>
              /\ liveSessions'[i] = liveSessions[i]
              /\ live'[liveSessions[i]].connections = live[liveSessions[i]].connections,
           \A c \in Conns : conn[c] # "closed" => conn'[c] # "closed",
           UNCHANGED sessionIds
    PROVE  ReceiversAreAttached'
<1>1. \A i \in Ids : liveSessions[i] # 0 => live[liveSessions[i]].connections \subseteq Conns
  BY TableTyped
<1> QED BY <1>1 DEF ReceiversAreAttached

\* The steps that attach or detach nobody.
LEMMA ReceiversQuiet ==
    ASSUME RuntimesAssumption, TypeOK, OpsInv, ReceiversAreAttached,
           \/ \E q \in Reqs : QuietRequest(q) \/ OperationEnds(q)
           \/ \E q \in Reqs, c \in Conns, i \in Ids : Operate(q, c, i) \/ Asks(q, c, i)
           \/ \E r \in 1 .. Len(live) : QuietSession(r) \/ Proceeds(r) \/ DisposeEnd(r)
           \/ QuietClose
    PROVE  ReceiversAreAttached'
<1>0. liveSessions \in [Ids -> 0 .. Len(live)] /\ Len(live) \in Nat
  BY DEF TypeOK
<1>1. UNCHANGED sessionIds
  BY DEF QuietRequest, WaitFails, Resume, DetachEnd, OperationEnds, Operate, Asks, Acquire,
         QuietSession, RuntimeBusy, RuntimeIdle, RuntimeEvent, RuntimeError, TerminateEnd,
         Proceeds, ServiceAnswers, Invalid, Rejected, DisposeEnd,
         QuietClose, Close, CloseConnections, AwaitOpenings, CloseEnd
<1>2. \A c \in Conns : conn[c] # "closed" => conn'[c] # "closed"
  <2>1. CASE \E r \in 1 .. Len(live) : RuntimeError(r)
    BY <2>1 DEF RuntimeError
  <2>2. CASE CloseConnections
    BY <2>2 DEF CloseConnections
  <2>3. CASE ~CloseConnections /\ ~\E r \in 1 .. Len(live) : RuntimeError(r)
    <3>1. UNCHANGED conn
      BY <2>3 DEF QuietRequest, WaitFails, Resume, DetachEnd, OperationEnds, Operate, Asks, Acquire,
             QuietSession, RuntimeBusy, RuntimeIdle, RuntimeEvent, TerminateEnd,
             Proceeds, ServiceAnswers, Invalid, Rejected, DisposeEnd,
             QuietClose, Close, AwaitOpenings, CloseEnd
    <3> QED BY <3>1
  <2> QED BY <2>1, <2>2, <2>3
<1>3. \A i \in Ids : liveSessions'[i] # 0 => liveSessions'[i] = liveSessions[i]
  <2>1. CASE \E r \in 1 .. Len(live) : DisposeEnd(r)
    BY <1>0, <2>1 DEF DisposeEnd
  <2>2. CASE ~\E r \in 1 .. Len(live) : DisposeEnd(r)
    <3>1. UNCHANGED liveSessions
      BY <2>2 DEF QuietRequest, WaitFails, Resume, DetachEnd, OperationEnds, Operate, Asks, Acquire,
             QuietSession, RuntimeBusy, RuntimeIdle, RuntimeEvent, RuntimeError, TerminateEnd,
             Proceeds, ServiceAnswers, Invalid, Rejected,
             QuietClose, Close, CloseConnections, AwaitOpenings, CloseEnd
    <3> QED BY <3>1
  <2> QED BY <2>1, <2>2
<1>4. SameConnections
  <2>1. ASSUME NEW q \in Reqs, QuietRequest(q) \/ OperationEnds(q)
        PROVE  SameConnections
    BY <2>1, QuietRequests, OperationEndsEffect, OperationCounted DEF Quietly, OperationEnds
  <2>2. ASSUME NEW q \in Reqs, NEW c \in Conns, NEW i \in Ids, Operate(q, c, i) \/ Asks(q, c, i)
        PROVE  SameConnections
    <3>1. CASE Operate(q, c, i)
      BY <3>1, OperateEffect
    <3>2. CASE AcquireNew(q, c, i)
      BY <3>2, Anew DEF AcquireNew, SameConnections
    <3>3. CASE Asks(q, c, i) /\ ~AcquireNew(q, c, i)
      BY <3>3, AskEffect DEF SameConnections
    <3> QED BY <2>2, <3>1, <3>2, <3>3
  <2>3. ASSUME NEW r \in 1 .. Len(live), QuietSession(r) \/ Proceeds(r) \/ DisposeEnd(r)
        PROVE  SameConnections
    BY <2>3, QuietSessions, ProceedEffect DEF Quietly
  <2>4. QuietClose => SameConnections
    BY DEF QuietClose, Close, CloseConnections, AwaitOpenings, CloseEnd, SameConnections
  <2> QED BY <2>1, <2>2, <2>3, <2>4
<1>5. \A i \in Ids : liveSessions[i] # 0 => liveSessions[i] \in 1 .. Len(live)
  BY <1>0
<1>6. \A i \in Ids : liveSessions'[i] # 0 =>
        /\ liveSessions'[i] = liveSessions[i]
        /\ live'[liveSessions[i]].connections = live[liveSessions[i]].connections
  BY <1>3, <1>4, <1>5 DEF SameConnections
<1> QED BY <1>1, <1>2, <1>6, ReceiversKept

\* attach adds both sides, detach takes both away.
LEMMA ReceiversAttach ==
    ASSUME TypeOK, OneInv, ReceiversAreAttached,
           \/ \E q \in Reqs : Attach(q)
           \/ \E q \in Reqs, c \in Conns, i \in Ids : Detach(q, c, i)
    PROVE  ReceiversAreAttached'
<1>0. /\ sessionIds \in [Conns -> SUBSET Ids]
      /\ \A i \in Ids : liveSessions[i] # 0 =>
            /\ liveSessions[i] \in 1 .. Len(live) /\ live[liveSessions[i]].id = i
            /\ live[liveSessions[i]].connections \subseteq Conns
  <2>1. sessionIds \in [Conns -> SUBSET Ids]
    BY DEF TypeOK
  <2> QED BY <2>1, TableTyped DEF OneInv, TableInv
<1>1. CASE \E q \in Reqs : Attach(q)
  <2>1. PICK q \in Reqs : Attach(q)
    BY <1>1
  <2> DEFINE c == req[q].conn
             r == req[q].rt
  <2>2. r \in 1 .. Len(live) /\ c \in Conns
    BY <2>1, Served DEF Attach
  <2>3. UNCHANGED <<conn, liveSessions>>
    BY <2>1 DEF Attach
  <2>4. CASE conn[c] = "ready"
    <3>1. sessionIds' = [sessionIds EXCEPT ![c] = sessionIds[c] \cup {live[r].id}]
      BY <2>1, <2>4 DEF Attach
    <3>2. \A s \in 1 .. Len(live) : live'[s].connections =
            IF s = r THEN live[s].connections \cup {c} ELSE live[s].connections
      BY <2>1, <2>4, AttachEffect
    <3> SUFFICES ASSUME NEW i \in Ids, liveSessions[i] # 0,
                        NEW d \in live'[liveSessions[i]].connections
                 PROVE  i \in sessionIds'[d] /\ conn[d] # "closed"
      BY <2>3 DEF ReceiversAreAttached
    <3> HIDE DEF c, r
    <3>3. CASE d \in live[liveSessions[i]].connections
      <4>1. i \in sessionIds[d] /\ conn[d] # "closed" /\ d \in Conns
        BY <1>0, <3>3 DEF ReceiversAreAttached
      <4> QED BY <1>0, <2>2, <3>1, <4>1
    <3>4. CASE d \notin live[liveSessions[i]].connections
      <4>1. d = c /\ liveSessions[i] = r
        BY <1>0, <3>2, <3>4
      <4>2. live[r].id = i
        BY <1>0, <4>1
      <4>3. i \in sessionIds'[c]
        BY <1>0, <2>2, <3>1, <4>2
      <4> QED BY <2>4, <4>1, <4>3
    <3> QED BY <3>3, <3>4
  <2>5. CASE conn[c] # "ready"
    <3>1. UNCHANGED sessionIds
      BY <2>1, <2>5 DEF Attach
    <3>2. \A s \in 1 .. Len(live) : live'[s].connections = live[s].connections
      BY <2>1, <2>5, AttachEffect
    <3> QED BY <1>0, <2>3, <3>1, <3>2, ReceiversKept
  <2> QED BY <2>4, <2>5
<1>2. ASSUME NEW q \in Reqs, NEW c \in Conns, NEW i \in Ids, Detach(q, c, i)
      PROVE  ReceiversAreAttached'
  <2>2. /\ UNCHANGED <<conn, liveSessions>>
        /\ sessionIds' = [sessionIds EXCEPT ![c] = sessionIds[c] \ {i}]
    BY <1>2 DEF Detach
  <2>3. /\ liveSessions[i] # 0 =>
              live'[liveSessions[i]].connections = live[liveSessions[i]].connections \ {c}
        /\ \A s \in 1 .. Len(live) :
              s # liveSessions[i] => live'[s].connections = live[s].connections
    BY <1>2, DetachEffect
  <2> SUFFICES ASSUME NEW j \in Ids, liveSessions[j] # 0,
                      NEW d \in live'[liveSessions[j]].connections
               PROVE  j \in sessionIds'[d] /\ conn[d] # "closed"
    BY <2>2 DEF ReceiversAreAttached
  <2>4. d \in live[liveSessions[j]].connections /\ (j = i => d # c)
    BY <1>0, <2>3
  <2>5. j \in sessionIds[d] /\ conn[d] # "closed" /\ d \in Conns
    BY <1>0, <2>4 DEF ReceiversAreAttached
  <2> QED BY <1>0, <2>2, <2>4, <2>5
<1> QED BY <1>1, <1>2

\* Connections that leave are detached from every session they are attached to.
LEMMA ReceiversLeave ==
    ASSUME TypeOK, OneInv, ReceiversAreAttached, NEW cs \in SUBSET Conns, Leaving(cs)
    PROVE  ReceiversAreAttached'
<1>1. \A i \in Ids : liveSessions[i] # 0 =>
        /\ liveSessions[i] \in 1 .. Len(live) /\ live[liveSessions[i]].id = i
        /\ live[liveSessions[i]].connections \subseteq Conns
  BY TableTyped DEF OneInv, TableInv
<1>2. /\ UNCHANGED liveSessions
      /\ \A s \in 1 .. Len(live) : live'[s].connections = Left(cs, s)
      /\ \A c \in Conns : c \notin cs => sessionIds'[c] = sessionIds[c] /\ conn'[c] = conn[c]
  BY DEF Leaving, Leaves, DisconnectAll
<1> SUFFICES ASSUME NEW i \in Ids, liveSessions[i] # 0,
                    NEW d \in live'[liveSessions[i]].connections
             PROVE  i \in sessionIds'[d] /\ conn'[d] # "closed"
  BY <1>2 DEF ReceiversAreAttached
<1>3. d \in live[liveSessions[i]].connections /\ ~(d \in cs /\ i \in sessionIds[d])
  <2>1. liveSessions[i] \in 1 .. Len(live) /\ live[liveSessions[i]].id = i
    BY <1>1
  <2>2. d \in Left(cs, liveSessions[i])
    BY <1>2, <2>1
  <2>3. Left(cs, liveSessions[i]) =
          live[liveSessions[i]].connections \ Leavers(cs, liveSessions[i])
    BY <2>1 DEF Left
  <2>4. Leavers(cs, liveSessions[i]) = {c \in cs : i \in sessionIds[c]}
    BY <2>1 DEF Leavers
  <2> QED BY <2>2, <2>3, <2>4
<1>4. i \in sessionIds[d] /\ conn[d] # "closed" /\ d \in Conns
  BY <1>1, <1>3 DEF ReceiversAreAttached
<1> QED BY <1>2, <1>3, <1>4

\* Whoever receives is attached.
LEMMA ReceiversStep ==
    ASSUME RuntimesAssumption, TypeOK, OpsInv, OneInv, UseInv, ReceiversAreAttached, [Next]_vars
    PROVE  ReceiversAreAttached'
<1>1. CASE UNCHANGED vars
  BY <1>1 DEF vars, ReceiversAreAttached
<1>2. CASE \E r \in 1 .. Len(live) : Validate(r)
  <2>1. PICK r \in 1 .. Len(live) : Validate(r)
    BY <1>2
  <2>2. /\ UNCHANGED <<conn, sessionIds>> /\ live[r].stage = "validating"
        /\ liveSessions' = [liveSessions EXCEPT ![live[r].id] = r]
    BY <2>1 DEF Validate
  <2>3. SameConnections
    BY <2>1, ProceedEffect
  <2>4. live[r].connections = {}
    BY <2>2 DEF UseInv, Been
  <2>5. liveSessions \in [Ids -> 0 .. Len(live)] /\ live[r].id \in Ids
    BY HeldStages DEF TypeOK
  <2> SUFFICES ASSUME NEW i \in Ids, liveSessions'[i] # 0,
                      NEW d \in live'[liveSessions'[i]].connections
               PROVE  i \in sessionIds[d] /\ conn[d] # "closed"
    BY <2>2 DEF ReceiversAreAttached
  <2>6. liveSessions'[i] # r
    BY <2>3, <2>4 DEF SameConnections
  <2>7. liveSessions'[i] = liveSessions[i] /\ liveSessions[i] \in 1 .. Len(live)
    BY <2>2, <2>5, <2>6
  <2> QED BY <2>3, <2>7 DEF SameConnections, ReceiversAreAttached
<1>3. CASE Drain
  <2>1. \A i \in Ids : liveSessions'[i] = 0
    BY <1>3 DEF Drain
  <2> QED BY <2>1 DEF ReceiversAreAttached
<1> QED
  BY <1>1, <1>2, <1>3, Steps, ReceiversQuiet, ReceiversAttach, ReceiversLeave

-----------------------------------------------------------------------------
(* The theorems. *)

LiveInv ==
    /\ TypeOK /\ OpsInv /\ OneInv /\ UseInv
    /\ NoDisposalUnderOperation /\ ReceiversAreAttached

\* It holds at the start, when nothing is there.
LEMMA LiveStart ==
    ASSUME RuntimesAssumption, Init
    PROVE  LiveInv
<1>1. /\ live = <<>> /\ Len(live) = 0 /\ DOMAIN live = {} /\ 1 .. Len(live) = {}
      /\ live \in Seq(LiveSession)
  BY DEF Init
<1>2. /\ \A q \in Reqs : req[q] = Idle /\ req[q].at = "idle"
      /\ \A i \in Ids : liveSessions[i] = 0 /\ openingSessions[i] = 0
      /\ closing = "no" /\ awaited = {}
  BY DEF Init, Idle
<1>3. TypeOK
  <2>1. req \in [Reqs -> Request]
    BY DEF Init, Request
  <2>2. Len(live) <= MaxRuntimes
    BY <1>1 DEF RuntimesAssumption
  <2> QED BY <1>1, <1>2, <2>1, <2>2 DEF Init, TypeOK, Closings
<1>4. OpsInv /\ UseInv /\ NoDisposalUnderOperation /\ ReceiversAreAttached
  BY <1>1, <1>2 DEF OpsInv, UseInv, NoDisposalUnderOperation, ReceiversAreAttached
<1>5. OneInv
  BY <1>1, <1>2 DEF OneInv, OneRuntimePerSession, OpeningsInv, TableInv, CloseInv, WaitInv,
                    Stopped, Drained
<1> QED BY <1>3, <1>4, <1>5 DEF LiveInv

\* Every behaviour keeps the invariant.
THEOREM LiveInvariant == ASSUME RuntimesAssumption PROVE Spec => []LiveInv
<1>1. Init => LiveInv
  BY LiveStart
<1>2. LiveInv /\ [Next]_vars => LiveInv'
  <2> SUFFICES ASSUME LiveInv, [Next]_vars PROVE LiveInv'
    OBVIOUS
  <2>1. TypeOK /\ OpsInv /\ OneInv /\ UseInv /\ NoDisposalUnderOperation /\ ReceiversAreAttached
    BY DEF LiveInv
  <2>2. TypeOK' /\ OpsInv'
    BY <2>1, TypeStep, OpsStep
  <2>3. OneInv' /\ UseInv' /\ ReceiversAreAttached'
    BY <2>1, OneStep, UseStep, ReceiversStep
  <2>4. NoDisposalUnderOperation'
    BY <2>1, <2>2, DisposalStep
  <2> QED BY <2>2, <2>3, <2>4 DEF LiveInv
<1> QED BY <1>1, <1>2, PTL DEF Spec

\* Every variable of the server's sessions keeps its type (sessions.ts).
THEOREM TypeCorrect == ASSUME RuntimesAssumption PROVE Spec => []TypeOK
<1>1. LiveInv => TypeOK
  BY DEF LiveInv
<1> QED BY <1>1, LiveInvariant, PTL

\* A session has one runtime at a time, whatever requests race with its opening, its
\* disposal and the close (sessions.ts, acquire).
THEOREM OneRuntime == ASSUME RuntimesAssumption PROVE Spec => []OneRuntimePerSession
<1>1. LiveInv => OneRuntimePerSession
  BY DEF LiveInv, OneInv
<1> QED BY <1>1, LiveInvariant, PTL

\* While the server is open no runtime is disposed under an operation (sessions.ts,
\* runOperation and maybeDispose).
THEOREM NoDisposal == ASSUME RuntimesAssumption PROVE Spec => []NoDisposalUnderOperation
<1>1. LiveInv => NoDisposalUnderOperation
  BY DEF LiveInv
<1> QED BY <1>1, LiveInvariant, PTL

\* Only connections that are attached, and not gone, receive a session's events
\* (sessions.ts, attach and disconnect).
THEOREM OnlyAttachedReceive == ASSUME RuntimesAssumption PROVE Spec => []ReceiversAreAttached
<1>1. LiveInv => ReceiversAreAttached
  BY DEF LiveInv
<1> QED BY <1>1, LiveInvariant, PTL

\* When close has returned nothing is live or being disposed (sessions.ts, close).
THEOREM ClosedIsClosed == ASSUME RuntimesAssumption PROVE Spec => []NothingLeftLive
<1>1. LiveInv => NothingLeftLive
  <2> SUFFICES ASSUME LiveInv, closing = "closed", NEW r \in DOMAIN live
               PROVE  live[r].stage \in {"acquiring", "rejecting", "failed", "gone"}
    BY DEF NothingLeftLive
  <2>1. r \in 1 .. Len(live) /\ TypeOK
    BY DEF LiveInv, TypeOK
  <2>2. live[r].stage \in Stages
    BY <2>1, HeldStages
  <2>3. live[r].stage \notin {"validating", "live", "disposing"}
    BY <2>1 DEF LiveInv, OneInv, CloseInv, Drained
  <2> QED BY <2>2, <2>3 DEF Stages, Opening
<1> QED BY <1>1, LiveInvariant, PTL
=============================================================================
