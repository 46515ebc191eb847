------------------------ MODULE SessionLeases_proofs ------------------------
(***************************************************************************)
(* Proofs about the client's session leases, for any number of callers, of     *)
(* connections and of revisions: types, that a lease which counts is attached  *)
(* on both sides, that an exclusive lease is alone, and that no attachment is  *)
(* forgotten.                                                              *)
(***************************************************************************)
EXTENDS SessionLeases, FiniteSetTheorems, TLAPS

-----------------------------------------------------------------------------
(* The inductive invariant. *)

\* A lease that counts, and everyone who has one or waits: in a connection that is
\* up, they are what is counted.
ValidLease(u) == phase[u] = "leased" /\ ~Invalidated(u)
Holds(u) ==
    \/ phase[u] \in {"detaching", "reconciling", "attaching"}
    \/ phase[u] \in {"leased", "releasing"} /\ ~Invalidated(u)
Holders == {u \in Users : Holds(u)}
Up == connected /\ ~removed

\* A promise is there as long as somebody waits for it, and only what is pending is
\* answered.
WaitsInv ==
    /\ promise["detach"] # "none" <=> \E u \in Users : phase[u] \in {"detaching", "releasing"}
    /\ promise["reconcile"] # "none" <=> \E u \in Users : phase[u] = "reconciling"
    /\ promise["attach"] # "none" <=> \E u \in Users : phase[u] = "attaching"
    /\ \A k \in Kinds : answer[k] # "none" => promise[k] = "pending"

\* Without a connection nothing is pending; without one, or without the session,
\* nothing is attached and no lease is valid.
DownInv ==
    /\ ~connected => \A k \in Kinds : promise[k] # "pending"
    /\ ~Up =>
       /\ ~attached /\ ~serverAttached /\ promise["attach"] # "ok" /\ answer["attach"] # "ok"
       /\ \A u \in Users : phase[u] \in {"leased", "releasing"} => Invalidated(u)

\* The count is that of the holders while it matters, a bound for it otherwise.
CountInv ==
    /\ \A u \in Users : leaseGeneration[u] <= generation
    /\ count <= Cardinality(Holders)
    /\ Up => count = Cardinality(Holders)
    /\ ~removed /\ exclusive # NoUser => Holders = {exclusive}

\* Who meets whom: a lease that is released is the last one, and nobody holds one
\* while the detachment has failed.
PhaseInv ==
    /\ \A u \in Users : phase[u] = "releasing" =>
          /\ ~Invalidated(u) /\ ~cleanupRequired
          /\ promise["detach"] # "ok" => attached
          /\ promise["detach"] = "ok" => ~attached
          /\ \A v \in Users : /\ phase[v] \notin {"reconciling", "attaching"} /\ ~ValidLease(v)
                              /\ phase[v] = "releasing" => v = u
    /\ cleanupRequired => \A u \in Users : phase[u] # "attaching" /\ ~ValidLease(u)
    /\ promise["detach"] = "pending" => \E u \in Users : phase[u] = "releasing"
    /\ promise["reconcile"] \in {"pending", "error"} => cleanupRequired

\* What both sides know: they agree on the attachment unless an answer is on its
\* way.
ServerInv ==
    /\ \A u \in Users : ValidLease(u) => attached
    /\ promise["attach"] = "ok" => attached
    /\ promise["attach"] \in {"pending", "error"} => ~attached
    /\ promise["attach"] = "pending" => snapshot = NoSnapshot
    /\ promise["reconcile"] = "ok" => ~attached
    /\ answer["attach"] = "ok" => serverAttached
    /\ answer["detach"] = "ok" \/ answer["reconcile"] = "ok" => ~serverAttached
    /\ (\A k \in Kinds : answer[k] # "ok") => (attached <=> serverAttached)
    /\ serverAttached => cleanupRequired \/ \E u \in Users : phase[u] \in Waiting \/ ValidLease(u)

\* Once the connection or the session is gone, the server and the client may disagree.
UpInv == Up => PhaseInv /\ ServerInv
LeaseInv == TypeOK /\ WaitsInv /\ DownInv /\ CountInv /\ UpInv

-----------------------------------------------------------------------------
\* The phases in which a caller waits.
LEMMA WaitingPhases == Waiting = {"detaching", "reconciling", "attaching", "releasing"}
BY DEF Waiting, Waits

\* Who may hold a lease is finitely many.
LEMMA HoldersFinite ==
    ASSUME LeasesAssumption
    PROVE  /\ IsFiniteSet(Holders) /\ Cardinality(Holders) \in Nat
           /\ Cardinality(Users) \in Nat /\ Cardinality(Holders) <= Cardinality(Users)
<1>1. Holders \in SUBSET Users
  BY DEF Holders
<1>2. IsFiniteSet(Users)
  BY DEF LeasesAssumption
<1> QED BY <1>1, <1>2, FS_Subset, FS_CardinalityType

\* The count is within its type.
LEMMA CountTyped ==
    ASSUME LeasesAssumption, CountInv', count' \in Nat
    PROVE  count' \in 0 .. Cardinality(Users)
<1>1. Holders' \in SUBSET Users
  BY DEF Holders
<1>2. IsFiniteSet(Users)
  BY DEF LeasesAssumption
<1>3. Cardinality(Holders') \in Nat /\ Cardinality(Users) \in Nat
      /\ Cardinality(Holders') <= Cardinality(Users)
  BY <1>1, <1>2, FS_Subset, FS_CardinalityType
<1> QED BY <1>3 DEF CountInv

\* One caller goes on to the next phase.
Moves(u, x) ==
    /\ phase' = [phase EXCEPT ![u] = x] /\ generation' = generation
    /\ leaseGeneration' \in {leaseGeneration, [leaseGeneration EXCEPT ![u] = generation]}

\* The others stay where they are, and so does the validity of their leases.
LEMMA MovesOnly ==
    ASSUME TypeOK, NEW u \in Users, NEW x, Moves(u, x)
    PROVE  /\ phase'[u] = x
           /\ \A v \in Users \ {u} : /\ phase'[v] = phase[v]
                                     /\ Invalidated(v)' <=> Invalidated(v)
                                     /\ ValidLease(v)' <=> ValidLease(v)
           /\ ValidLease(u)' <=> x = "leased" /\ leaseGeneration'[u] = generation
           /\ leaseGeneration'[u] \in {leaseGeneration[u], generation}
           /\ (\A v \in Users : leaseGeneration[v] <= generation)
                => \A v \in Users : leaseGeneration'[v] <= generation'
BY DEF TypeOK, Moves, ValidLease, Invalidated

\* Whether the one who moves is counted.
LEMMA HoldersMove ==
    ASSUME TypeOK, NEW u \in Users, NEW x, Moves(u, x)
    PROVE  /\ Holds(u)' => Holders' = Holders \cup {u}
           /\ ~Holds(u)' => Holders' = Holders \ {u}
           /\ Holds(u) <=> u \in Holders
<1>1. \A v \in Users \ {u} : phase'[v] = phase[v] /\ (Invalidated(v)' <=> Invalidated(v))
  BY MovesOnly
<1>2. \A v \in Users \ {u} : Holds(v)' <=> Holds(v)
  BY <1>1 DEF Holds
<1> QED BY <1>2 DEF Holders

\* A reservation is counted.
LEMMA CountEnters ==
    ASSUME LeasesAssumption, TypeOK, CountInv, NEW u \in Users, NEW x, Moves(u, x),
           ~Holds(u), Holds(u)', UNCHANGED <<connected, removed>>, count' = count + 1,
           \/ exclusive' = u /\ (removed \/ Holders = {})
           \/ exclusive' = NoUser
    PROVE  CountInv' /\ count' \in Nat
<1>1. Holders' = Holders \cup {u} /\ u \notin Holders
  BY HoldersMove
<1>2. Cardinality(Holders') = Cardinality(Holders) + 1 /\ Cardinality(Holders) \in Nat
  BY <1>1, HoldersFinite, FS_AddElement
<1>3. count \in Nat
  BY HoldersFinite DEF TypeOK
<1>4. \A v \in Users : leaseGeneration'[v] <= generation'
  BY MovesOnly DEF CountInv
<1>5. count <= Cardinality(Holders) /\ (Up => count = Cardinality(Holders))
  BY DEF CountInv
<1>6. count' <= Cardinality(Holders') /\ (Up' => count' = Cardinality(Holders'))
  BY <1>2, <1>3, <1>5 DEF Up
<1>7. ~removed' /\ exclusive' # NoUser => Holders' = {exclusive'}
  BY <1>1
<1> QED BY <1>3, <1>4, <1>6, <1>7 DEF CountInv

\* A caller who stays counted, or uncounted.
LEMMA CountStays ==
    ASSUME LeasesAssumption, TypeOK, CountInv, NEW u \in Users, NEW x, Moves(u, x),
           Holds(u) <=> Holds(u)', UNCHANGED <<connected, removed, count, exclusive>>
    PROVE  CountInv' /\ count' \in Nat
<1>1. Holders' = Holders
  BY HoldersMove
<1>2. count \in Nat
  BY HoldersFinite DEF TypeOK
<1>3. \A v \in Users : leaseGeneration'[v] <= generation'
  BY MovesOnly DEF CountInv
<1> QED BY <1>1, <1>2, <1>3 DEF CountInv, Up

\* A lease that ends is taken off the count.
LEMMA CountLeaves ==
    ASSUME LeasesAssumption, TypeOK, CountInv, NEW u \in Users, NEW x, Moves(u, x),
           Holds(u), ~Holds(u)', UNCHANGED <<connected, removed>>, ReleaseSessionLease(u)
    PROVE  CountInv' /\ count' \in Nat /\ exclusive' \in Users \cup {NoUser}
<1>1. Holders' = Holders \ {u} /\ u \in Holders
  BY HoldersMove
<1>2. /\ Cardinality(Holders') = Cardinality(Holders) - 1
      /\ Cardinality(Holders) \in Nat /\ Cardinality(Holders') \in Nat
  <2>1. IsFiniteSet(Holders) /\ Cardinality(Holders) \in Nat
    BY HoldersFinite
  <2>2. IsFiniteSet(Holders') /\ Cardinality(Holders') = Cardinality(Holders) - 1
    BY <1>1, <2>1, FS_RemoveElement
  <2> QED BY <2>1, <2>2, FS_CardinalityType
<1>3. count \in Nat
  BY HoldersFinite DEF TypeOK
<1>4. \A v \in Users : leaseGeneration'[v] <= generation'
  BY MovesOnly DEF CountInv
<1>5. count <= Cardinality(Holders) /\ (Up => count = Cardinality(Holders))
  BY DEF CountInv
<1>6. count' = IF count <= 1 THEN 0 ELSE count - 1
  BY DEF ReleaseSessionLease
<1>7. count' \in Nat /\ count' <= Cardinality(Holders') /\ (Up' => count' = Cardinality(Holders'))
  BY <1>2, <1>3, <1>5, <1>6 DEF Up
<1>8. ~removed' /\ exclusive' # NoUser => Holders' = {exclusive'}
  BY <1>1 DEF ReleaseSessionLease, CountInv
<1>9. exclusive' \in Users \cup {NoUser}
  BY DEF ReleaseSessionLease, TypeOK
<1> QED BY <1>4, <1>7, <1>8, <1>9 DEF CountInv

\* Without a connection a release of what is not counted takes from the count of
\* others, which is no more than a bound then.
LEMMA CountLowers ==
    ASSUME LeasesAssumption, TypeOK, CountInv, NEW u \in Users, NEW x, Moves(u, x), ~Up,
           ~Holds(u), ~Holds(u)', UNCHANGED <<connected, removed>>, ReleaseSessionLease(u)
    PROVE  CountInv' /\ count' \in Nat /\ exclusive' \in Users \cup {NoUser}
<1>1. Holders' = Holders
  BY HoldersMove
<1>2. Cardinality(Holders) \in Nat /\ count \in Nat
  BY HoldersFinite DEF TypeOK
<1>3. \A v \in Users : leaseGeneration'[v] <= generation'
  BY MovesOnly DEF CountInv
<1>4. count <= Cardinality(Holders)
  BY DEF CountInv
<1>5. count' = IF count <= 1 THEN 0 ELSE count - 1
  BY DEF ReleaseSessionLease
<1>6. count' \in Nat /\ count' <= Cardinality(Holders') /\ ~Up'
  BY <1>1, <1>2, <1>4, <1>5 DEF Up
<1>7. ~removed' /\ exclusive' # NoUser => Holders' = {exclusive'}
  BY <1>1 DEF ReleaseSessionLease, CountInv
<1>8. exclusive' \in Users \cup {NoUser}
  BY DEF ReleaseSessionLease, TypeOK
<1> QED BY <1>3, <1>6, <1>7, <1>8 DEF CountInv

\* With one lease in the count there is one holder, with more there is another.
LEMMA OneHolder ==
    ASSUME LeasesAssumption, TypeOK, CountInv, Up, NEW u \in Users, Holds(u)
    PROVE  /\ count <= 1 => \A v \in Users : Holds(v) => v = u
           /\ count > 1 => \E v \in Users : v # u /\ Holds(v)
<1>1. u \in Holders /\ \A v \in Users : Holds(v) <=> v \in Holders
  BY DEF Holders
<1>2. IsFiniteSet(Holders) /\ Cardinality(Holders) \in Nat
  BY HoldersFinite
<1>3. IsFiniteSet(Holders \ {u}) /\ Cardinality(Holders \ {u}) = Cardinality(Holders) - 1
  BY <1>1, <1>2, FS_RemoveElement
<1>4. Cardinality(Holders \ {u}) = 0 <=> Holders \ {u} = {}
  BY <1>3, FS_EmptySet
<1>5. count = Cardinality(Holders)
  BY DEF CountInv
<1>6. Cardinality(Holders \ {u}) \in Nat
  BY <1>3, FS_CardinalityType
<1>7. CASE count <= 1
  <2>1. Holders \ {u} = {}
    BY <1>2, <1>3, <1>4, <1>5, <1>6, <1>7
  <2> QED BY <1>1, <1>7, <2>1, <1>2, <1>5
<1>8. CASE count > 1
  <2>1. Holders \ {u} # {}
    BY <1>2, <1>3, <1>4, <1>5, <1>8
  <2>2. PICK v \in Holders : v # u
    BY <2>1
  <2>3. v \in Users
    BY DEF Holders
  <2> QED BY <1>1, <1>2, <1>5, <1>8, <2>2, <2>3
<1> QED BY <1>2, <1>5, <1>7, <1>8

-----------------------------------------------------------------------------
(* Promises. *)
Promises == {"none", "pending", "ok", "error"}
WaitsFor(x, k) == x \in Waiting /\ Waits[x] = k
Others(u, k) == \E v \in Users \ {u} : WaitsFor(phase[v], k)

\* Which phase waits for which request.
LEMMA WaitsForIs ==
    /\ \A x : WaitsFor(x, "detach") <=> x \in {"detaching", "releasing"}
    /\ \A x : WaitsFor(x, "reconcile") <=> x = "reconciling"
    /\ \A x : WaitsFor(x, "attach") <=> x = "attaching"
    /\ \A x \in Waiting : Waits[x] \in Kinds
BY DEF WaitsFor, Waits, Waiting, Kinds

\* The invariant of the promises, for every kind at once.
LEMMA WaitsInvIs ==
    WaitsInv <=> \A k \in Kinds : /\ promise[k] # "none" <=> \E u \in Users : WaitsFor(phase[u], k)
                                  /\ answer[k] # "none" => promise[k] = "pending"
BY WaitsForIs DEF WaitsInv, Kinds

\* The last to resume from a promise drops it.
LEMMA ResumedIs ==
    ASSUME TypeOK, WaitsInv, NEW u \in Users, phase[u] \in Waiting
    PROVE  /\ Resumed(u) \in [Kinds -> Promises]
           /\ \A k \in Kinds : Resumed(u)[k] # "none" <=> Others(u, k)
           /\ \A k \in Kinds : Resumed(u)[k] \in {"none", promise[k]}
           /\ \A k \in Kinds : k # Waits[phase[u]] => Resumed(u)[k] = promise[k]
<1>1. PICK k \in Kinds : k = Waits[phase[u]]
  BY WaitsForIs
<1>2. promise \in [Kinds -> Promises]
  BY DEF TypeOK, Promises
<1>3. Resumed(u) = IF {v \in Users \ {u} : phase[v] \in Waiting /\ Waits[phase[v]] = k} = {}
                   THEN [promise EXCEPT ![k] = "none"] ELSE promise
  BY <1>1 DEF Resumed
<1>4. {v \in Users \ {u} : phase[v] \in Waiting /\ Waits[phase[v]] = k} = {} <=> ~Others(u, k)
  BY DEF Others, WaitsFor
<1>5. Resumed(u) = IF Others(u, k) THEN promise ELSE [promise EXCEPT ![k] = "none"]
  BY <1>3, <1>4
<1>6. /\ Resumed(u) \in [Kinds -> Promises]
      /\ Resumed(u)[k] = IF Others(u, k) THEN promise[k] ELSE "none"
      /\ \A j \in Kinds \ {k} : Resumed(u)[j] = promise[j]
  BY <1>2, <1>5 DEF Promises
<1>7. promise[k] # "none"
  BY <1>1, WaitsInvIs DEF WaitsFor
<1>8. ASSUME NEW j \in Kinds \ {k}
      PROVE  promise[j] # "none" <=> Others(u, j)
  <2>1. ~WaitsFor(phase[u], j)
    BY <1>1 DEF WaitsFor
  <2> QED BY <2>1, WaitsInvIs DEF Others
<1> QED BY <1>1, <1>6, <1>7, <1>8

\* Who does not wait has no part in the promises.
LEMMA OthersWait ==
    ASSUME TypeOK, WaitsInv, NEW u \in Users, phase[u] \notin Waiting
    PROVE  /\ promise \in [Kinds -> Promises]
           /\ \A k \in Kinds : promise[k] # "none" <=> Others(u, k)
<1>1. \A k \in Kinds : ~WaitsFor(phase[u], k)
  BY DEF WaitsFor
<1>2. promise \in [Kinds -> Promises]
  BY DEF TypeOK, Promises
<1> QED BY <1>1, <1>2, WaitsInvIs DEF Others

\* A request is joined or made.
LEMMA Joins ==
    ASSUME TypeOK, NEW p \in [Kinds -> Promises], NEW k \in Kinds
    PROVE  /\ JoinRequest(p, k) \in [Kinds -> Promises]
           /\ \A j \in Kinds \ {k} : JoinRequest(p, k)[j] = p[j]
           /\ JoinRequest(p, k)[k] =
                 IF p[k] # "none" THEN p[k] ELSE IF connected THEN "pending" ELSE "error"
BY DEF JoinRequest, Request, Promises, TypeOK

\* The promises after somebody has gone on to another phase.
Joined(p, x) ==
    \/ x \in Waiting /\ promise' = JoinRequest(p, Waits[x])
    \/ x \in Waiting /\ promise' = p /\ p[Waits[x]] # "none"
    \/ x \notin Waiting /\ promise' = p

\* They are there for those who wait after the step, and nobody else.
LEMMA WaitsMove ==
    ASSUME TypeOK, WaitsInv, NEW u \in Users, NEW x, Moves(u, x), UNCHANGED answer,
           NEW p \in [Kinds -> Promises], \A k \in Kinds : p[k] # "none" <=> Others(u, k),
           \A k \in Kinds : promise[k] = "pending" => p[k] = "pending", Joined(p, x)
    PROVE  WaitsInv' /\ promise' \in [Kinds -> Promises]
<1>1. x \in Waiting => Waits[x] \in Kinds
  BY WaitsForIs
<1>2. promise' \in [Kinds -> Promises]
  BY <1>1, Joins DEF Joined
<1>3. phase'[u] = x /\ \A v \in Users \ {u} : phase'[v] = phase[v]
  BY MovesOnly
<1>4. ASSUME NEW k \in Kinds
      PROVE  /\ promise'[k] # "none" <=> Others(u, k) \/ WaitsFor(x, k)
             /\ promise[k] = "pending" => promise'[k] = "pending"
  BY <1>1, Joins DEF Joined, WaitsFor
<1>5. ASSUME NEW k \in Kinds
      PROVE  (\E v \in Users : WaitsFor(phase'[v], k)) <=> Others(u, k) \/ WaitsFor(x, k)
  BY <1>3 DEF Others
<1>6. \A k \in Kinds : /\ promise'[k] # "none" <=> \E v \in Users : WaitsFor(phase'[v], k)
                       /\ answer'[k] # "none" => promise'[k] = "pending"
  BY <1>4, <1>5, WaitsInvIs
<1>7. WaitsInv' <=> \A k \in Kinds :
         /\ promise'[k] # "none" <=> \E v \in Users : WaitsFor(phase'[v], k)
         /\ answer'[k] # "none" => promise'[k] = "pending"
  BY WaitsForIs DEF WaitsInv, Kinds
<1> QED BY <1>2, <1>6, <1>7

\* Who goes on without a connection, or without the session, gets no lease.
LEMMA DownMove ==
    ASSUME TypeOK, DownInv, NEW u \in Users, NEW x, Moves(u, x),
           UNCHANGED <<connected, removed, attached, serverAttached, answer>>,
           NEW p \in [Kinds -> Promises], \A k \in Kinds : p[k] \in {"none", promise[k]},
           Joined(p, x), Up \/ x \notin {"leased", "releasing"}
    PROVE  DownInv'
<1>1. x \in Waiting => Waits[x] \in Kinds
  BY WaitsForIs
<1>2. ASSUME NEW k \in Kinds
      PROVE  promise'[k] \in {"none", promise[k], IF connected THEN "pending" ELSE "error"}
  BY <1>1, Joins DEF Joined
<1>3. ~connected' => \A k \in Kinds : promise'[k] # "pending"
  BY <1>2 DEF DownInv
<1>4. promise["attach"] # "ok" => promise'["attach"] # "ok"
  BY <1>2 DEF Kinds
<1>5. ASSUME ~Up, NEW v \in Users, phase'[v] \in {"leased", "releasing"}
      PROVE  Invalidated(v)'
  <2>1. v # u
    BY <1>5, MovesOnly
  <2>2. phase[v] \in {"leased", "releasing"} /\ (Invalidated(v)' <=> Invalidated(v))
    BY <1>5, <2>1, MovesOnly
  <2> QED BY <1>5, <2>2 DEF DownInv
<1>6. Up' <=> Up
  BY DEF Up
<1> QED BY <1>3, <1>4, <1>5, <1>6 DEF DownInv

-----------------------------------------------------------------------------
(* Going on to a lease. *)

\* A caller goes on to reconcile, to attach, or has its lease.
ToReconcile(u, p) ==
    /\ cleanupRequired /\ Moves(u, "reconciling") /\ promise' = JoinRequest(p, "reconcile")
    /\ UNCHANGED <<snapshot, previous, leaseGeneration>>
ToAttach(u, p) ==
    /\ Moves(u, "attaching") /\ promise' = JoinRequest(p, "attach")
    /\ IF p["attach"] = "none" /\ connected
       THEN snapshot' = NoSnapshot /\ previous' = snapshot ELSE UNCHANGED <<snapshot, previous>>
    /\ UNCHANGED leaseGeneration
ToLease(u, p) ==
    /\ attached /\ Moves(u, "leased") /\ leaseGeneration' = [leaseGeneration EXCEPT ![u] = generation]
    /\ promise' = p /\ UNCHANGED <<snapshot, previous>>

\* Which of the three it is.
LEMMA ProceedCases ==
    ASSUME NEW u \in Users, NEW p, Proceed(u, p), UNCHANGED generation
    PROVE  \/ ToReconcile(u, p)
           \/ ~cleanupRequired /\ ~attached /\ ToAttach(u, p)
           \/ ~cleanupRequired /\ ToLease(u, p)
BY DEF Proceed, AttachOrLease, Attach, CreateLease, ToReconcile, ToAttach, ToLease, Moves

\* The types of what goes on.
LEMMA ProceedTypes ==
    ASSUME TypeOK, NEW u \in Users, NEW p \in [Kinds -> Promises],
           ToReconcile(u, p) \/ ToAttach(u, p) \/ ToLease(u, p)
    PROVE  /\ snapshot' \in {snapshot, NoSnapshot} /\ previous' \in {previous, snapshot}
           /\ leaseGeneration' \in [Users -> Nat]
           /\ phase' \in [Users -> {"idle", "leased"} \cup Waiting]
           /\ \E x \in {"reconciling", "attaching", "leased"} : Moves(u, x) /\ Joined(p, x) /\ phase'[u] = x
           /\ Holds(u)'
<1>1. phase \in [Users -> {"idle", "leased"} \cup Waiting] /\ leaseGeneration \in [Users -> Nat]
      /\ generation \in Nat
  BY DEF TypeOK
<1>2. CASE ToReconcile(u, p)
  <2>1. Moves(u, "reconciling") /\ Joined(p, "reconciling")
    BY <1>2, WaitingPhases DEF ToReconcile, Joined, Waits
  <2>2. phase'[u] = "reconciling"
    BY <2>1, MovesOnly
  <2> QED BY <1>1, <1>2, <2>1, <2>2, WaitingPhases DEF ToReconcile, Moves, Holds
<1>3. CASE ToAttach(u, p)
  <2>1. Moves(u, "attaching") /\ Joined(p, "attaching")
    BY <1>3, WaitingPhases DEF ToAttach, Joined, Waits
  <2>2. phase'[u] = "attaching"
    BY <2>1, MovesOnly
  <2> QED BY <1>1, <1>3, <2>1, <2>2, WaitingPhases DEF ToAttach, Moves, Holds
<1>4. CASE ToLease(u, p)
  <2>1. Moves(u, "leased") /\ Joined(p, "leased")
    BY <1>4, WaitingPhases DEF ToLease, Joined
  <2>2. phase'[u] = "leased" /\ leaseGeneration'[u] = generation
    BY <1>1, <1>4, <2>1, MovesOnly DEF ToLease
  <2>3. ValidLease(u)'
    BY <2>1, <2>2, MovesOnly
  <2> QED BY <1>1, <1>4, <2>1, <2>2, <2>3 DEF ToLease, Moves, Holds, ValidLease
<1> QED BY <1>2, <1>3, <1>4

\* What is known while somebody goes on: nobody is releasing, and nobody waits for
\* a detachment that is pending.
Passing(p) ==
    /\ \A v \in Users : phase[v] # "releasing"
    /\ p["detach"] # "pending" /\ p["detach"] \in {"none", promise["detach"]}

\* A caller who repeats the detachment.
LEMMA ReconcileUp ==
    ASSUME TypeOK, NEW u \in Users, phase[u] # "attaching", NEW p \in [Kinds -> Promises],
           Passing(p), Up, PhaseInv, ServerInv, ToReconcile(u, p), UNCHANGED cleanupRequired,
           UNCHANGED <<attached, answer, serverAttached>>,
           p["reconcile"] = promise["reconcile"], p["attach"] = promise["attach"]
    PROVE  PhaseInv' /\ ServerInv'
<1>1. /\ Moves(u, "reconciling") /\ cleanupRequired
      /\ promise'["attach"] = promise["attach"] /\ promise'["detach"] = p["detach"]
      /\ promise'["reconcile"] \in {promise["reconcile"], "pending"}
  BY Joins DEF ToReconcile, Kinds, Up
<1>2. /\ phase'[u] = "reconciling" /\ ~ValidLease(u)'
      /\ \A v \in Users \ {u} : phase'[v] = phase[v] /\ (ValidLease(v)' <=> ValidLease(v))
  BY <1>1, MovesOnly
<1>3. PhaseInv'
  BY <1>1, <1>2 DEF PhaseInv, Passing
<1>4. snapshot' = snapshot
  BY DEF ToReconcile
<1>5. ServerInv'
  BY <1>1, <1>2, <1>4 DEF ServerInv
<1> QED BY <1>3, <1>5

\* A caller who attaches, or joins an attachment.
LEMMA AttachUp ==
    ASSUME TypeOK, NEW u \in Users, NEW p \in [Kinds -> Promises],
           Passing(p), Up, PhaseInv, ServerInv, ToAttach(u, p), ~attached, ~cleanupRequired',
           UNCHANGED <<attached, answer, serverAttached>>,
           p["reconcile"] = promise["reconcile"] \/ p["reconcile"] = "none",
           cleanupRequired => promise["reconcile"] = "ok", p["attach"] = promise["attach"]
    PROVE  PhaseInv' /\ ServerInv'
<1>1. /\ Moves(u, "attaching")
      /\ promise'["reconcile"] = p["reconcile"] /\ promise'["detach"] = p["detach"]
      /\ IF promise["attach"] = "none" THEN promise'["attach"] = "pending" /\ snapshot' = NoSnapshot
                                       ELSE UNCHANGED <<snapshot>> /\ promise'["attach"] = promise["attach"]
  BY Joins DEF ToAttach, Kinds, Up
<1>2. /\ phase'[u] = "attaching" /\ ~ValidLease(u)'
      /\ \A v \in Users \ {u} : phase'[v] = phase[v] /\ (ValidLease(v)' <=> ValidLease(v))
  BY <1>1, MovesOnly
<1>3. PhaseInv'
  BY <1>1, <1>2 DEF PhaseInv, Passing
<1>4. phase'[u] \in Waiting
  BY <1>2, WaitingPhases
<1>5. ServerInv'
  BY <1>1, <1>2, <1>4 DEF ServerInv
<1> QED BY <1>3, <1>5

\* A caller who has the lease at once, or after the attachment.
LEMMA LeaseUp ==
    ASSUME TypeOK, NEW u \in Users, NEW p \in [Kinds -> Promises],
           Passing(p), Up, PhaseInv, ServerInv, ToLease(u, p), ~cleanupRequired,
           UNCHANGED <<attached, answer, serverAttached, cleanupRequired>>,
           p["reconcile"] = promise["reconcile"],
           p["attach"] \in {"none", promise["attach"]}
    PROVE  PhaseInv' /\ ServerInv'
<1>1. Moves(u, "leased") /\ attached /\ promise' = p /\ snapshot' = snapshot
  BY DEF ToLease
<1>2. /\ phase'[u] = "leased" /\ ValidLease(u)'
      /\ \A v \in Users \ {u} : phase'[v] = phase[v] /\ (ValidLease(v)' <=> ValidLease(v))
  <2>1. leaseGeneration'[u] = generation
    BY DEF ToLease, TypeOK
  <2> QED BY <1>1, <2>1, MovesOnly
<1>3. PhaseInv'
  BY <1>1, <1>2 DEF PhaseInv, Passing
<1>4. ServerInv'
  BY <1>1, <1>2 DEF ServerInv
<1> QED BY <1>3, <1>4

-----------------------------------------------------------------------------
(* Acquisition. *)

\* The invariant after a caller has gone on (Proceed).
LEMMA ProceedKeeps ==
    ASSUME TypeOK, WaitsInv, DownInv, UpInv, CountInv', count' \in Nat, LeasesAssumption,
           exclusive' \in Users \cup {NoUser},
           NEW u \in Users, phase[u] # "attaching", phase[u] # "reconciling",
           NEW p \in [Kinds -> Promises], \A k \in Kinds : p[k] # "none" <=> Others(u, k),
           \A k \in Kinds : p[k] \in {"none", promise[k]}, Passing(p),
           \A k \in Kinds : promise[k] = "pending" => p[k] = "pending",
           p["attach"] = promise["attach"], p["reconcile"] = promise["reconcile"],
           Proceed(u, p),
           UNCHANGED <<connected, attached, generation, cleanupRequired, disposing, answer,
                       serverVars, connections>>
    PROVE  LeaseInv'
<1>1. \/ ToReconcile(u, p)
      \/ ~cleanupRequired /\ ~attached /\ ToAttach(u, p)
      \/ ~cleanupRequired /\ ToLease(u, p)
  BY ProceedCases
<1>2. PICK x \in {"reconciling", "attaching", "leased"} :
         Moves(u, x) /\ Joined(p, x) /\ phase'[u] = x
  BY <1>1, ProceedTypes
<1>3. /\ snapshot' \in {snapshot, NoSnapshot} /\ previous' \in {previous, snapshot}
      /\ leaseGeneration' \in [Users -> Nat]
      /\ phase' \in [Users -> {"idle", "leased"} \cup Waiting]
  BY <1>1, ProceedTypes
<1>4. WaitsInv' /\ promise' \in [Kinds -> Promises]
  BY <1>2, WaitsMove
<1>5. x = "leased" => attached
  BY <1>1, <1>2, MovesOnly DEF ToReconcile, ToAttach, ToLease
<1>6. DownInv'
  <2>1. Up \/ x \notin {"leased", "releasing"}
    BY <1>5 DEF DownInv
  <2>2. UNCHANGED serverAttached /\ UNCHANGED removed
    BY DEF serverVars
  <2> QED BY <1>2, <2>1, <2>2, DownMove
<1>7. TypeOK'
  <2>1. count' \in 0 .. Cardinality(Users)
    BY CountTyped
  <2>2. NoSnapshot \in NoSnapshot .. MaxRevision
    BY DEF NoSnapshot, LeasesAssumption
  <2>3. snapshot' \in NoSnapshot .. MaxRevision /\ previous' \in NoSnapshot .. MaxRevision
    BY <1>3, <2>2 DEF TypeOK
  <2> QED BY <1>3, <1>4, <2>1, <2>3 DEF TypeOK, Promises, serverVars
<1>8. UpInv'
  <2> SUFFICES ASSUME Up' PROVE PhaseInv' /\ ServerInv'
    BY DEF UpInv
  <2>1. Up /\ PhaseInv /\ ServerInv /\ UNCHANGED serverAttached
    BY DEF Up, UpInv, serverVars
  <2>2. CASE ToReconcile(u, p)
    BY <2>1, <2>2, ReconcileUp
  <2>3. CASE ~cleanupRequired /\ ~attached /\ ToAttach(u, p)
    BY <2>1, <2>3, AttachUp
  <2>4. CASE ~cleanupRequired /\ ToLease(u, p)
    BY <2>1, <2>4, LeaseUp
  <2> QED BY <1>1, <2>2, <2>3, <2>4
<1> QED BY <1>4, <1>6, <1>7, <1>8 DEF LeaseInv

\* acquireSession reserves the lease and waits for a detachment, or goes on.
LEMMA AcquireKeeps ==
    ASSUME LeasesAssumption, LeaseInv, NEW u \in Users, NEW mode \in {"shared", "exclusive"},
           Acquire(u, mode)
    PROVE  LeaseInv'
<1>1. TypeOK /\ WaitsInv /\ DownInv /\ CountInv /\ UpInv
  BY DEF LeaseInv
<1>2. /\ phase[u] = "idle" /\ phase[u] \notin Waiting /\ ~Holds(u)
      /\ \A k \in Kinds : promise[k] \in {"none", "pending"}
  BY WaitingPhases DEF Acquire, Quiet, Holds
<1>3. promise \in [Kinds -> Promises] /\ \A k \in Kinds : promise[k] # "none" <=> Others(u, k)
  BY <1>1, <1>2, OthersWait
<1>4. /\ count' = count + 1 /\ count \in Nat /\ exclusive' \in Users \cup {NoUser}
      /\ UNCHANGED <<connected, removed, generation, answer, attached, serverAttached>>
  BY <1>1, HoldersFinite DEF Acquire, TypeOK, serverVars
<1>5. \/ exclusive' = u /\ (removed \/ Holders = {})
      \/ exclusive' = NoUser
  <2>1. CASE mode = "exclusive"
    <3>1. exclusive' = u /\ count = 0
      BY <2>1 DEF Acquire, MayReserve
    <3>2. CASE Up
      <4>1. IsFiniteSet(Holders) /\ Cardinality(Holders) = 0
        BY <1>1, <3>1, <3>2, HoldersFinite DEF CountInv
      <4> QED BY <3>1, <4>1, FS_EmptySet
    <3>3. CASE ~connected
      <4>1. \A k \in Kinds : promise[k] = "none"
        BY <1>1, <1>2, <3>3 DEF DownInv
      <4>2. \A v \in Users : phase[v] \notin Waiting
        BY <1>1, <4>1, WaitingPhases DEF WaitsInv, Kinds
      <4>3. \A v \in Users : phase[v] = "leased" => Invalidated(v)
        BY <1>1, <3>3 DEF DownInv, Up
      <4>4. \A v \in Users : ~Holds(v)
        BY <4>2, <4>3, WaitingPhases DEF Holds
      <4> QED BY <3>1, <4>4 DEF Holders
    <3> QED BY <3>1, <3>2, <3>3 DEF Up
  <2>2. CASE mode # "exclusive"
    BY <2>2 DEF Acquire, MayReserve
  <2> QED BY <2>1, <2>2
<1>6. CASE promise["detach"] # "none"
  <2>1. /\ Moves(u, "detaching") /\ Joined(promise, "detaching")
        /\ UNCHANGED <<promise, leaseGeneration, snapshot, previous>>
    BY <1>4, <1>6, WaitingPhases DEF Acquire, Moves, Joined, Waits
  <2>2. /\ phase'[u] = "detaching" /\ ~ValidLease(u)' /\ Holds(u)'
        /\ \A v \in Users \ {u} : phase'[v] = phase[v] /\ (ValidLease(v)' <=> ValidLease(v))
                                  /\ (Invalidated(v)' <=> Invalidated(v))
    BY <1>1, <2>1, MovesOnly, WaitingPhases DEF Holds
  <2>3. CountInv' /\ count' \in Nat
    BY <1>1, <1>2, <1>4, <1>5, <2>1, <2>2, CountEnters
  <2>4. WaitsInv'
    BY <1>1, <1>3, <1>4, <2>1, WaitsMove
  <2>5. DownInv'
    BY <1>1, <1>3, <1>4, <2>1, DownMove
  <2>6. TypeOK'
    <3>1. count' \in 0 .. Cardinality(Users)
      BY <2>3, CountTyped
    <3>2. phase' \in [Users -> {"idle", "leased"} \cup Waiting]
      BY <1>1, <2>1, WaitingPhases DEF TypeOK, Moves
    <3> QED BY <1>1, <1>4, <2>1, <3>1, <3>2 DEF TypeOK, Acquire, serverVars
  <2>7. UpInv'
    <3> SUFFICES ASSUME Up' PROVE PhaseInv' /\ ServerInv'
      BY DEF UpInv
    <3>1. PhaseInv /\ ServerInv /\ UNCHANGED cleanupRequired
      BY <1>1, <1>4 DEF UpInv, Up, Acquire
    <3>2. PhaseInv'
      BY <1>2, <1>4, <2>1, <2>2, <3>1 DEF PhaseInv
    <3>3. phase'[u] \in Waiting
      BY <2>2, WaitingPhases
    <3>4. ServerInv'
      BY <1>4, <2>1, <2>2, <3>1, <3>3 DEF ServerInv
    <3> QED BY <3>2, <3>4
  <2> QED BY <2>3, <2>4, <2>5, <2>6, <2>7 DEF LeaseInv
<1>7. CASE promise["detach"] = "none"
  <2>1. Proceed(u, promise)
    BY <1>7 DEF Acquire
  <2>2. Passing(promise)
    BY <1>1, <1>7 DEF Passing, WaitsInv
  <2>3. /\ \/ ToReconcile(u, promise)
           \/ ~cleanupRequired /\ ~attached /\ ToAttach(u, promise)
           \/ ~cleanupRequired /\ ToLease(u, promise)
    BY <1>4, <2>1, ProceedCases
  <2>4. Holds(u)' /\ \E x \in {"reconciling", "attaching", "leased"} : Moves(u, x)
    BY <1>1, <1>3, <2>3, ProceedTypes
  <2>5. CountInv' /\ count' \in Nat
    BY <1>1, <1>2, <1>4, <1>5, <2>4, CountEnters
  <2>6. UNCHANGED <<connected, attached, generation, cleanupRequired, disposing, answer,
                    serverVars, connections>>
    BY DEF Acquire
  <2> QED BY <1>1, <1>2, <1>3, <1>4, <2>1, <2>2, <2>5, <2>6, ProceedKeeps
<1> QED BY <1>6, <1>7

\* The detachment that was waited for is over.
LEMMA AfterDetachmentKeeps ==
    ASSUME LeasesAssumption, LeaseInv, NEW u \in Users, AfterDetachment(u)
    PROVE  LeaseInv'
<1>1. TypeOK /\ WaitsInv /\ DownInv /\ CountInv /\ UpInv
  BY DEF LeaseInv
<1>2. /\ phase[u] = "detaching" /\ phase[u] \in Waiting /\ Waits[phase[u]] = "detach" /\ Holds(u)
      /\ promise["detach"] \in {"ok", "error"}
      /\ \A v \in Users : phase[v] # "releasing"
  <2>1. /\ phase[u] = "detaching" /\ promise["detach"] \in {"ok", "error"}
        /\ \A v \in Users : phase[v] # "releasing"
    BY DEF AfterDetachment
  <2> QED BY <2>1, WaitingPhases DEF Waits, Holds
<1>3. PICK p \in [Kinds -> Promises] : p = Resumed(u)
  BY <1>1, <1>2, ResumedIs
<1>4. /\ \A k \in Kinds : p[k] # "none" <=> Others(u, k)
      /\ \A k \in Kinds : p[k] \in {"none", promise[k]}
      /\ p["attach"] = promise["attach"] /\ p["reconcile"] = promise["reconcile"]
      /\ p["detach"] \in {"none", promise["detach"]}
  BY <1>1, <1>2, <1>3, ResumedIs DEF Kinds
<1>5. \A k \in Kinds : promise[k] = "pending" => p[k] = "pending"
  BY <1>2, <1>4 DEF Kinds
<1>6. Passing(p)
  BY <1>2, <1>4 DEF Passing
<1>7. /\ Proceed(u, p)
      /\ UNCHANGED <<connected, attached, count, exclusive, generation, cleanupRequired, disposing,
                     answer, serverVars, connections>>
  BY <1>3 DEF AfterDetachment
<1>8. /\ \/ ToReconcile(u, p)
         \/ ~cleanupRequired /\ ~attached /\ ToAttach(u, p)
         \/ ~cleanupRequired /\ ToLease(u, p)
  BY <1>7, ProceedCases
<1>9. Holds(u)' /\ \E x \in {"reconciling", "attaching", "leased"} : Moves(u, x)
  BY <1>1, <1>8, ProceedTypes
<1>10. UNCHANGED removed
  BY <1>7 DEF serverVars
<1>11. CountInv' /\ count' \in Nat
  BY <1>1, <1>2, <1>7, <1>9, <1>10, CountStays
<1>12. exclusive' \in Users \cup {NoUser}
  BY <1>1, <1>7 DEF TypeOK
<1> QED BY <1>1, <1>2, <1>4, <1>5, <1>6, <1>7, <1>11, <1>12, ProceedKeeps

\* What a step of one caller keeps, whichever it is.
LEMMA MoveKeeps ==
    ASSUME LeasesAssumption, TypeOK, WaitsInv, DownInv, CountInv', count' \in Nat, UpInv',
           exclusive' \in Users \cup {NoUser}, NEW u \in Users,
           NEW x \in {"idle", "leased"} \cup Waiting, Moves(u, x),
           NEW p \in [Kinds -> Promises], \A k \in Kinds : p[k] # "none" <=> Others(u, k),
           \A k \in Kinds : p[k] \in {"none", promise[k]},
           \A k \in Kinds : promise[k] = "pending" => p[k] = "pending",
           Joined(p, x), Up \/ x \notin {"leased", "releasing"},
           snapshot' \in {snapshot, previous, NoSnapshot},
           previous' \in {snapshot, previous, NoSnapshot},
           cleanupRequired' \in BOOLEAN, disposing' \in [Users -> BOOLEAN],
           UNCHANGED <<connected, attached, generation, answer, serverVars, connections>>
    PROVE  LeaseInv'
<1>1. WaitsInv' /\ promise' \in [Kinds -> Promises]
  BY WaitsMove
<1>2. DownInv'
  <2>1. UNCHANGED serverAttached /\ UNCHANGED removed
    BY DEF serverVars
  <2> QED BY <2>1, DownMove
<1>3. TypeOK'
  <2>1. count' \in 0 .. Cardinality(Users)
    BY CountTyped
  <2>2. NoSnapshot \in NoSnapshot .. MaxRevision
    BY DEF NoSnapshot, LeasesAssumption
  <2>3. snapshot' \in NoSnapshot .. MaxRevision /\ previous' \in NoSnapshot .. MaxRevision
    BY <2>2 DEF TypeOK
  <2>4. phase' \in [Users -> {"idle", "leased"} \cup Waiting]
    BY DEF TypeOK, Moves
  <2>5. leaseGeneration' \in [Users -> Nat]
    BY DEF TypeOK, Moves
  <2> QED BY <1>1, <2>1, <2>3, <2>4, <2>5 DEF TypeOK, Promises, serverVars
<1> QED BY <1>1, <1>2, <1>3 DEF LeaseInv

\* The reconciliation is over: the caller attaches, or gives up.
LEMMA AfterReconciliationKeeps ==
    ASSUME LeasesAssumption, LeaseInv, NEW u \in Users, AfterReconciliation(u)
    PROVE  LeaseInv'
<1>1. TypeOK /\ WaitsInv /\ DownInv /\ CountInv /\ UpInv
  BY DEF LeaseInv
<1>2. /\ phase[u] = "reconciling" /\ phase[u] \in Waiting /\ Waits[phase[u]] = "reconcile" /\ Holds(u)
      /\ promise["reconcile"] \in {"ok", "error"}
  <2>1. phase[u] = "reconciling" /\ promise["reconcile"] \in {"ok", "error"}
    BY DEF AfterReconciliation
  <2> QED BY <2>1, WaitingPhases DEF Waits, Holds
<1>3. PICK p \in [Kinds -> Promises] : p = Resumed(u)
  BY <1>1, <1>2, ResumedIs
<1>4. /\ \A k \in Kinds : p[k] # "none" <=> Others(u, k)
      /\ \A k \in Kinds : p[k] \in {"none", promise[k]}
      /\ p["attach"] = promise["attach"] /\ p["detach"] = promise["detach"]
      /\ p["reconcile"] \in {"none", promise["reconcile"]}
  BY <1>1, <1>2, <1>3, ResumedIs DEF Kinds
<1>5. \A k \in Kinds : promise[k] = "pending" => p[k] = "pending"
  BY <1>2, <1>4 DEF Kinds
<1>6. /\ UNCHANGED <<connected, attached, generation, disposing, answer, serverVars, connections>>
      /\ UNCHANGED <<serverAttached, removed>>
  BY DEF AfterReconciliation, serverVars
<1>7. Up => Passing(p)
  BY <1>1, <1>2, <1>4 DEF Passing, UpInv, PhaseInv
<1>8. CASE promise["reconcile"] = "ok"
  <2>1. /\ Attach(u, p) /\ cleanupRequired' = FALSE /\ UNCHANGED <<count, exclusive>>
    BY <1>3, <1>8 DEF AfterReconciliation, AttachOrLease
  <2>2. ToAttach(u, p)
    BY <1>6, <2>1 DEF ToAttach, Attach, Moves
  <2>3. Joined(p, "attaching") /\ Moves(u, "attaching") /\ Holds(u)' /\ "attaching" \in Waiting
    BY <1>1, <2>2, MovesOnly, WaitingPhases DEF ToAttach, Joined, Waits, Holds
  <2>4. CountInv' /\ count' \in Nat
    BY <1>1, <1>2, <1>6, <2>1, <2>3, CountStays
  <2>5. UpInv'
    <3> SUFFICES ASSUME Up' PROVE PhaseInv' /\ ServerInv'
      BY DEF UpInv
    <3>1. Up /\ PhaseInv /\ ServerInv
      BY <1>1, <1>6 DEF Up, UpInv
    <3>2. ~attached
      BY <1>8, <3>1 DEF ServerInv
    <3> QED BY <1>1, <1>4, <1>6, <1>7, <1>8, <2>1, <2>2, <3>1, <3>2, AttachUp
  <2>6. exclusive' \in Users \cup {NoUser} /\ disposing' \in [Users -> BOOLEAN]
    BY <1>1, <1>6, <2>1 DEF TypeOK
  <2>7. snapshot' \in {snapshot, NoSnapshot} /\ previous' \in {snapshot, previous}
    BY <2>2 DEF ToAttach
  <2> QED BY <1>1, <1>4, <1>5, <1>6, <2>1, <2>3, <2>4, <2>5, <2>6, <2>7, MoveKeeps
<1>9. CASE promise["reconcile"] = "error"
  <2>1. /\ Moves(u, "idle") /\ promise' = p /\ ReleaseSessionLease(u)
        /\ UNCHANGED <<cleanupRequired, leaseGeneration, snapshot, previous>>
    BY <1>3, <1>6, <1>9 DEF AfterReconciliation, Moves
  <2>2. /\ phase'[u] = "idle" /\ ~ValidLease(u)' /\ ~Holds(u)' /\ Joined(p, "idle")
        /\ \A v \in Users \ {u} : phase'[v] = phase[v] /\ (ValidLease(v)' <=> ValidLease(v))
                                  /\ (Invalidated(v)' <=> Invalidated(v))
    BY <1>1, <2>1, MovesOnly, WaitingPhases DEF Holds, Joined
  <2>3. CountInv' /\ count' \in Nat /\ exclusive' \in Users \cup {NoUser}
    BY <1>1, <1>2, <1>6, <2>1, <2>2, CountLeaves
  <2>4. UpInv'
    <3> SUFFICES ASSUME Up' PROVE PhaseInv' /\ ServerInv'
      BY DEF UpInv
    <3>1. Up /\ PhaseInv /\ ServerInv
      BY <1>1, <1>6 DEF Up, UpInv
    <3>2. cleanupRequired
      BY <1>9, <3>1 DEF PhaseInv
    <3>3. PhaseInv'
      BY <1>2, <1>4, <1>6, <1>7, <2>1, <2>2, <3>1, <3>2 DEF PhaseInv, Passing
    <3>4. ServerInv'
      BY <1>2, <1>4, <1>6, <2>1, <2>2, <3>1, <3>2 DEF ServerInv
    <3> QED BY <3>3, <3>4
  <2>5. cleanupRequired' \in BOOLEAN /\ disposing' \in [Users -> BOOLEAN]
    BY <1>1, <1>6, <2>1 DEF TypeOK
  <2> QED BY <1>1, <1>4, <1>5, <1>6, <2>1, <2>2, <2>3, <2>4, <2>5, MoveKeeps
<1> QED BY <1>2, <1>8, <1>9

\* The attachment has been answered: the caller has its lease, or gives up.
LEMMA AfterAttachmentKeeps ==
    ASSUME LeasesAssumption, LeaseInv, NEW u \in Users, AfterAttachment(u)
    PROVE  LeaseInv'
<1>1. TypeOK /\ WaitsInv /\ DownInv /\ CountInv /\ UpInv
  BY DEF LeaseInv
<1>2. /\ phase[u] = "attaching" /\ phase[u] \in Waiting /\ Waits[phase[u]] = "attach" /\ Holds(u)
      /\ promise["attach"] \in {"ok", "error"}
  <2>1. phase[u] = "attaching" /\ promise["attach"] \in {"ok", "error"}
    BY DEF AfterAttachment
  <2> QED BY <2>1, WaitingPhases DEF Waits, Holds
<1>3. PICK p \in [Kinds -> Promises] : p = Resumed(u)
  BY <1>1, <1>2, ResumedIs
<1>4. /\ \A k \in Kinds : p[k] # "none" <=> Others(u, k)
      /\ \A k \in Kinds : p[k] \in {"none", promise[k]}
      /\ p["reconcile"] = promise["reconcile"] /\ p["detach"] = promise["detach"]
      /\ p["attach"] \in {"none", promise["attach"]}
  BY <1>1, <1>2, <1>3, ResumedIs DEF Kinds
<1>5. \A k \in Kinds : promise[k] = "pending" => p[k] = "pending"
  BY <1>2, <1>4 DEF Kinds
<1>6. /\ UNCHANGED <<connected, attached, generation, cleanupRequired, disposing, answer,
                     serverVars, connections>>
      /\ UNCHANGED <<serverAttached, removed>>
  BY DEF AfterAttachment, serverVars
<1>7. Up => Passing(p) /\ ~cleanupRequired
  BY <1>1, <1>2, <1>4 DEF Passing, UpInv, PhaseInv
<1>8. cleanupRequired' \in BOOLEAN /\ disposing' \in [Users -> BOOLEAN]
  BY <1>1, <1>6 DEF TypeOK
<1>9. CASE promise["attach"] = "ok"
  <2>1. /\ Up
        /\ CreateLease(u, p) /\ UNCHANGED <<count, exclusive>>
    BY <1>1, <1>3, <1>9 DEF AfterAttachment, DownInv
  <2>2. PhaseInv /\ ServerInv /\ attached
    BY <1>1, <1>9, <2>1 DEF UpInv, ServerInv
  <2>3. ToLease(u, p)
    BY <1>6, <2>1, <2>2 DEF ToLease, CreateLease, Moves
  <2>4. Joined(p, "leased") /\ Moves(u, "leased") /\ Holds(u)'
    <3>1. Holds(u)'
      BY <1>1, <2>3, ProceedTypes
    <3> QED BY <2>3, <3>1, WaitingPhases DEF ToLease, Joined
  <2>5. CountInv' /\ count' \in Nat
    BY <1>1, <1>2, <1>6, <2>1, <2>4, CountStays
  <2>6. UpInv'
    BY <1>1, <1>4, <1>6, <1>7, <2>1, <2>2, <2>3, LeaseUp DEF UpInv
  <2>7. exclusive' \in Users \cup {NoUser} /\ UNCHANGED <<snapshot, previous>>
    BY <1>1, <2>1, <2>3 DEF TypeOK, ToLease
  <2> QED BY <1>1, <1>4, <1>5, <1>6, <1>8, <2>1, <2>4, <2>5, <2>6, <2>7, MoveKeeps
<1>10. CASE promise["attach"] = "error"
  <2>1. /\ Moves(u, "idle") /\ promise' = p /\ ReleaseSessionLease(u)
        /\ snapshot' \in {snapshot, previous} /\ previous' = NoSnapshot
    BY <1>3, <1>6, <1>10 DEF AfterAttachment, Moves, RestoreSnapshot
  <2>2. /\ phase'[u] = "idle" /\ ~ValidLease(u)' /\ ~Holds(u)' /\ Joined(p, "idle")
        /\ \A v \in Users \ {u} : phase'[v] = phase[v] /\ (ValidLease(v)' <=> ValidLease(v))
                                  /\ (Invalidated(v)' <=> Invalidated(v))
    BY <1>1, <2>1, MovesOnly, WaitingPhases DEF Holds, Joined
  <2>3. CountInv' /\ count' \in Nat /\ exclusive' \in Users \cup {NoUser}
    BY <1>1, <1>2, <1>6, <2>1, <2>2, CountLeaves
  <2>4. UpInv'
    <3> SUFFICES ASSUME Up' PROVE PhaseInv' /\ ServerInv'
      BY DEF UpInv
    <3>1. Up /\ PhaseInv /\ ServerInv /\ ~cleanupRequired
      BY <1>1, <1>6, <1>7 DEF Up, UpInv
    <3>2. PhaseInv'
      BY <1>2, <1>4, <1>6, <1>7, <2>1, <2>2, <3>1 DEF PhaseInv, Passing
    <3>3. ~serverAttached
      <4>1. promise["reconcile"] # "pending" /\ promise["detach"] # "pending"
        BY <1>2, <3>1 DEF PhaseInv
      <4>2. \A k \in Kinds : answer[k] # "ok"
        BY <1>1, <1>2, <4>1 DEF WaitsInv, Kinds
      <4>3. ~attached
        BY <1>10, <3>1 DEF ServerInv
      <4> QED BY <3>1, <4>2, <4>3 DEF ServerInv
    <3>4. ServerInv'
      BY <1>2, <1>4, <1>6, <1>10, <2>1, <2>2, <3>1, <3>3 DEF ServerInv
    <3> QED BY <3>2, <3>4
  <2> QED BY <1>1, <1>4, <1>5, <1>6, <1>8, <2>1, <2>2, <2>3, <2>4, MoveKeeps
<1> QED BY <1>2, <1>9, <1>10

-----------------------------------------------------------------------------
(* Release. *)

\* A lease that no longer counts is let go.
LEMMA ReleaseInvalid ==
    ASSUME LeasesAssumption, LeaseInv, NEW u \in Users, phase[u] = "leased", Invalidated(u),
           Moves(u, "idle"), UNCHANGED <<promise, count, exclusive, disposing, leaseGeneration>>,
           UNCHANGED <<connected, attached, snapshot, previous, generation, cleanupRequired, answer,
                       serverVars, connections>>
    PROVE  LeaseInv'
<1>1. TypeOK /\ WaitsInv /\ DownInv /\ CountInv /\ UpInv
  BY DEF LeaseInv
<1>2. phase[u] \notin Waiting /\ ~Holds(u) /\ UNCHANGED <<serverAttached, removed>>
  BY WaitingPhases DEF Holds, serverVars
<1>3. promise \in [Kinds -> Promises] /\ \A k \in Kinds : promise[k] # "none" <=> Others(u, k)
  BY <1>1, <1>2, OthersWait
<1>4. /\ phase'[u] = "idle" /\ ~ValidLease(u)' /\ ~Holds(u)' /\ Joined(promise, "idle")
      /\ \A v \in Users \ {u} : phase'[v] = phase[v] /\ (ValidLease(v)' <=> ValidLease(v))
                                /\ (Invalidated(v)' <=> Invalidated(v))
  BY <1>1, MovesOnly, WaitingPhases DEF Holds, Joined
<1>5. CountInv' /\ count' \in Nat
  BY <1>1, <1>2, <1>4, CountStays
<1>6. UpInv'
  <2> SUFFICES ASSUME Up' PROVE PhaseInv' /\ ServerInv'
    BY DEF UpInv
  <2>1. Up /\ PhaseInv /\ ServerInv
    BY <1>1, <1>2 DEF Up, UpInv
  <2>2. PhaseInv'
    BY <1>4, <2>1 DEF PhaseInv
  <2>3. ~ValidLease(u)
    BY DEF ValidLease
  <2>4. ServerInv'
    BY <1>2, <1>4, <2>1, <2>3 DEF ServerInv
  <2> QED BY <2>2, <2>4
<1>7. /\ exclusive' \in Users \cup {NoUser} /\ cleanupRequired' \in BOOLEAN
      /\ disposing' \in [Users -> BOOLEAN]
  BY <1>1 DEF TypeOK
<1> QED BY <1>1, <1>3, <1>4, <1>5, <1>6, <1>7, MoveKeeps

\* The last lease asks for the detachment.
LEMMA ReleaseLast ==
    ASSUME LeasesAssumption, LeaseInv, NEW u \in Users, phase[u] = "leased", IsActive(u),
           connected, count <= 1, Quiet, Moves(u, "releasing"),
           promise' = Request(promise, "detach"), disposing' \in [Users -> BOOLEAN],
           UNCHANGED <<count, exclusive, leaseGeneration>>,
           UNCHANGED <<connected, attached, snapshot, previous, generation, cleanupRequired, answer,
                       serverVars, connections>>
    PROVE  LeaseInv'
<1>1. TypeOK /\ WaitsInv /\ DownInv /\ CountInv /\ UpInv
  BY DEF LeaseInv
<1>2. /\ phase[u] \notin Waiting /\ ValidLease(u) /\ Holds(u) /\ attached
      /\ UNCHANGED <<serverAttached, removed>>
  BY WaitingPhases DEF Holds, ValidLease, serverVars, IsActive
<1>3. Up /\ PhaseInv /\ ServerInv
  BY <1>1, <1>2 DEF DownInv, UpInv
<1>4. promise \in [Kinds -> Promises] /\ \A k \in Kinds : promise[k] # "none" <=> Others(u, k)
  BY <1>1, <1>2, OthersWait
<1>5. /\ phase'[u] = "releasing" /\ ~ValidLease(u)' /\ Holds(u)' /\ "releasing" \in Waiting
      /\ (Invalidated(u)' <=> Invalidated(u))
      /\ \A v \in Users \ {u} : phase'[v] = phase[v] /\ (ValidLease(v)' <=> ValidLease(v))
                                /\ (Invalidated(v)' <=> Invalidated(v))
  <2>1. (Invalidated(u)' <=> Invalidated(u)) /\ ~Invalidated(u)
    BY DEF Invalidated, IsActive
  <2> QED BY <1>1, <2>1, MovesOnly, WaitingPhases DEF Holds
<1>6. Joined(promise, "releasing") /\ promise'["detach"] = "pending"
      /\ promise'["attach"] = promise["attach"] /\ promise'["reconcile"] = promise["reconcile"]
  <2>1. promise' = [promise EXCEPT !["detach"] = "pending"]
    BY DEF Request
  <2>2. promise["detach"] \in {"none", "pending"} /\ "detach" \in Kinds
    BY DEF Quiet, Kinds
  <2>3. promise["detach"] = "pending" => promise' = promise
    BY <1>4, <2>1, <2>2
  <2>4. Waits["releasing"] = "detach"
    BY DEF Waits
  <2>5. Joined(promise, "releasing")
    BY <1>5, <2>1, <2>2, <2>3, <2>4 DEF Joined, JoinRequest, Request
  <2> QED BY <1>4, <2>1, <2>2, <2>5 DEF Kinds
<1>7. \A v \in Users : Holds(v) => v = u
  BY <1>1, <1>2, <1>3, OneHolder
<1>8. CountInv' /\ count' \in Nat
  BY <1>1, <1>2, <1>5, CountStays
<1>9. \A v \in Users \ {u} :
         phase[v] \notin {"detaching", "reconciling", "attaching", "releasing"} /\ ~ValidLease(v)
  <2>1. \A v \in Users : phase[v] = "releasing" => ~Invalidated(v)
    BY <1>3 DEF PhaseInv
  <2> QED BY <1>7, <2>1 DEF Holds, ValidLease
<1>10. PhaseInv'
  <2>1. ~cleanupRequired /\ ~Invalidated(u)
    BY <1>2, <1>3 DEF PhaseInv, ValidLease
  <2> QED BY <1>2, <1>3, <1>5, <1>6, <1>9, <2>1 DEF PhaseInv
<1>11. ServerInv'
  BY <1>2, <1>3, <1>5, <1>6, <1>9 DEF ServerInv
<1>12. exclusive' \in Users \cup {NoUser} /\ cleanupRequired' \in BOOLEAN
  BY <1>1 DEF TypeOK
<1> QED BY <1>1, <1>3, <1>4, <1>5, <1>6, <1>8, <1>10, <1>11, <1>12, MoveKeeps DEF UpInv

\* One lease of several ends.
LEMMA ReleaseOne ==
    ASSUME LeasesAssumption, LeaseInv, NEW u \in Users, phase[u] = "leased", IsActive(u),
           connected, count > 1, Moves(u, "idle"), ReleaseSessionLease(u),
           UNCHANGED <<promise, disposing, leaseGeneration>>,
           UNCHANGED <<connected, attached, snapshot, previous, generation, cleanupRequired, answer,
                       serverVars, connections>>
    PROVE  LeaseInv'
<1>1. TypeOK /\ WaitsInv /\ DownInv /\ CountInv /\ UpInv
  BY DEF LeaseInv
<1>2. /\ phase[u] \notin Waiting /\ ValidLease(u) /\ Holds(u) /\ attached
      /\ UNCHANGED <<serverAttached, removed>>
  BY WaitingPhases DEF Holds, ValidLease, serverVars, IsActive
<1>3. Up /\ PhaseInv /\ ServerInv
  BY <1>1, <1>2 DEF DownInv, UpInv
<1>4. promise \in [Kinds -> Promises] /\ \A k \in Kinds : promise[k] # "none" <=> Others(u, k)
  BY <1>1, <1>2, OthersWait
<1>5. /\ phase'[u] = "idle" /\ ~ValidLease(u)' /\ ~Holds(u)' /\ Joined(promise, "idle")
      /\ \A v \in Users \ {u} : phase'[v] = phase[v] /\ (ValidLease(v)' <=> ValidLease(v))
                                /\ (Invalidated(v)' <=> Invalidated(v))
  BY <1>1, MovesOnly, WaitingPhases DEF Holds, Joined
<1>6. PICK w \in Users : w # u /\ Holds(w)
  BY <1>1, <1>2, <1>3, OneHolder
<1>7. CountInv' /\ count' \in Nat /\ exclusive' \in Users \cup {NoUser}
  BY <1>1, <1>2, <1>5, CountLeaves
<1>8. PhaseInv'
  BY <1>3, <1>5 DEF PhaseInv
<1>9. phase'[w] \in Waiting \/ ValidLease(w)'
  BY <1>5, <1>6, WaitingPhases DEF Holds, ValidLease
<1>10. ServerInv'
  BY <1>2, <1>3, <1>5, <1>9 DEF ServerInv
<1>11. cleanupRequired' \in BOOLEAN /\ disposing' \in [Users -> BOOLEAN]
  BY <1>1 DEF TypeOK
<1> QED BY <1>1, <1>3, <1>4, <1>5, <1>7, <1>8, <1>10, <1>11, MoveKeeps DEF UpInv

\* detach() and dispose().
LEMMA ReleaseKeeps ==
    ASSUME LeasesAssumption, LeaseInv, NEW u \in Users, NEW dispose \in BOOLEAN,
           Release(u, dispose)
    PROVE  LeaseInv'
<1>1. /\ phase[u] = "leased" /\ Quiet /\ disposing \in [Users -> BOOLEAN]
      /\ UNCHANGED <<connected, attached, snapshot, previous, generation, cleanupRequired,
                     leaseGeneration, answer, serverVars, connections>>
  BY DEF Release, LeaseInv, TypeOK
<1>2. CASE /\ Invalidated(u) /\ phase' = [phase EXCEPT ![u] = "idle"]
           /\ UNCHANGED <<promise, count, exclusive, disposing>>
  <2>1. Moves(u, "idle")
    BY <1>1, <1>2 DEF Moves
  <2> QED BY <1>1, <1>2, <2>1, ReleaseInvalid
<1>3. CASE /\ IsActive(u) /\ connected /\ count <= 1
           /\ phase' = [phase EXCEPT ![u] = "releasing"]
           /\ disposing' = [disposing EXCEPT ![u] = dispose]
           /\ promise' = Request(promise, "detach")
           /\ UNCHANGED <<count, exclusive>>
  <2>1. Moves(u, "releasing") /\ disposing' \in [Users -> BOOLEAN]
    BY <1>1, <1>3 DEF Moves
  <2> QED BY <1>1, <1>3, <2>1, ReleaseLast
<1>4. CASE /\ IsActive(u) /\ connected /\ count > 1
           /\ phase' = [phase EXCEPT ![u] = "idle"]
           /\ ReleaseSessionLease(u)
           /\ UNCHANGED <<promise, disposing>>
  <2>1. Moves(u, "idle")
    BY <1>1, <1>4 DEF Moves
  <2> QED BY <1>1, <1>4, <2>1, ReleaseOne
<1> QED BY <1>2, <1>3, <1>4 DEF Release

\* The detachment is answered: the lease is gone, or given up, or goes on.
LEMMA ReleasedKeeps ==
    ASSUME LeasesAssumption, LeaseInv, NEW u \in Users, Released(u)
    PROVE  LeaseInv'
<1>1. TypeOK /\ WaitsInv /\ DownInv /\ CountInv /\ UpInv
  BY DEF LeaseInv
<1>2. /\ phase[u] = "releasing" /\ phase[u] \in Waiting /\ Waits[phase[u]] = "detach"
      /\ promise["detach"] \in {"ok", "error"} /\ (Holds(u) <=> ~Invalidated(u))
  <2>1. phase[u] = "releasing" /\ promise["detach"] \in {"ok", "error"}
    BY DEF Released
  <2> QED BY <2>1, WaitingPhases DEF Waits, Holds
<1>3. PICK p \in [Kinds -> Promises] : p = Resumed(u)
  BY <1>1, <1>2, ResumedIs
<1>4. /\ \A k \in Kinds : p[k] # "none" <=> Others(u, k)
      /\ \A k \in Kinds : p[k] \in {"none", promise[k]}
      /\ p["reconcile"] = promise["reconcile"] /\ p["attach"] = promise["attach"]
      /\ p["detach"] \in {"none", promise["detach"]}
  BY <1>1, <1>2, <1>3, ResumedIs DEF Kinds
<1>5. \A k \in Kinds : promise[k] = "pending" => p[k] = "pending"
  BY <1>2, <1>4 DEF Kinds
<1>6. /\ promise' = p
      /\ UNCHANGED <<connected, attached, snapshot, previous, generation, leaseGeneration, answer,
                     serverVars, connections>>
      /\ UNCHANGED <<serverAttached, removed>>
  BY <1>3 DEF Released, serverVars
<1>7. disposing' \in [Users -> BOOLEAN]
  BY <1>1 DEF Released, TypeOK
<1>8. Up => PhaseInv /\ ServerInv
  BY <1>1 DEF UpInv
<1>9. CASE /\ phase' = [phase EXCEPT ![u] = "idle"] /\ ReleaseSessionLease(u)
           /\ \/ promise["detach"] = "ok" /\ UNCHANGED cleanupRequired
              \/ promise["detach"] = "error" /\ ~Invalidated(u) /\ cleanupRequired' = TRUE
  <2>1. Moves(u, "idle")
    BY <1>6, <1>9 DEF Moves
  <2>2. /\ phase'[u] = "idle" /\ ~ValidLease(u)' /\ ~Holds(u)' /\ Joined(p, "idle")
        /\ \A v \in Users \ {u} : phase'[v] = phase[v] /\ (ValidLease(v)' <=> ValidLease(v))
                                  /\ (Invalidated(v)' <=> Invalidated(v))
    BY <1>1, <1>6, <2>1, MovesOnly, WaitingPhases DEF Holds, Joined
  <2>3. CountInv' /\ count' \in Nat /\ exclusive' \in Users \cup {NoUser}
    <3>1. CASE Holds(u)
      BY <1>1, <1>6, <1>9, <2>1, <2>2, <3>1, CountLeaves
    <3>2. CASE ~Holds(u)
      <4>1. ~Up
        BY <1>2, <1>8, <3>2 DEF PhaseInv
      <4> QED BY <1>1, <1>6, <1>9, <2>1, <2>2, <3>2, <4>1, CountLowers
    <3> QED BY <3>1, <3>2
  <2>4. UpInv'
    <3> SUFFICES ASSUME Up' PROVE PhaseInv' /\ ServerInv'
      BY DEF UpInv
    <3>1. Up /\ PhaseInv /\ ServerInv
      BY <1>6, <1>8 DEF Up
    <3>2. /\ ~cleanupRequired
          /\ \A v \in Users \ {u} : /\ phase[v] \notin {"reconciling", "attaching", "releasing"}
                                    /\ ~ValidLease(v)
      BY <1>2, <3>1 DEF PhaseInv
    <3>3. PhaseInv'
      BY <1>2, <1>4, <1>6, <2>2, <3>1, <3>2 DEF PhaseInv
    <3>4. promise["detach"] = "ok" => ~serverAttached
      <4>1. promise["attach"] = "none" /\ promise["reconcile"] = "none"
        BY <1>1, <1>2, <3>2 DEF WaitsInv
      <4>2. promise["detach"] = "ok" => \A k \in Kinds : answer[k] # "ok"
        BY <1>1, <4>1 DEF WaitsInv, Kinds
      <4>3. promise["detach"] = "ok" => ~attached
        BY <1>2, <3>1 DEF PhaseInv
      <4> QED BY <3>1, <4>2, <4>3 DEF ServerInv
    <3>5. serverAttached => cleanupRequired'
      BY <1>9, <3>4
    <3>6. ServerInv'
      BY <1>2, <1>4, <1>6, <2>2, <3>1, <3>5 DEF ServerInv
    <3> QED BY <3>3, <3>6
  <2>5. cleanupRequired' \in BOOLEAN
    BY <1>1, <1>9 DEF TypeOK
  <2> QED BY <1>1, <1>4, <1>5, <1>6, <1>7, <2>1, <2>2, <2>3, <2>4, <2>5, MoveKeeps
<1>10. CASE /\ phase' = [phase EXCEPT ![u] = "idle"] /\ Invalidated(u)
            /\ UNCHANGED <<count, exclusive, cleanupRequired>>
  <2>1. ~Up
    BY <1>2, <1>8, <1>10 DEF PhaseInv
  <2>2. Moves(u, "idle")
    BY <1>6, <1>10 DEF Moves
  <2>3. /\ phase'[u] = "idle" /\ ~ValidLease(u)' /\ ~Holds(u)' /\ Joined(p, "idle")
    BY <1>1, <1>6, <2>2, MovesOnly, WaitingPhases DEF Holds, Joined
  <2>4. CountInv' /\ count' \in Nat
    BY <1>1, <1>2, <1>6, <1>10, <2>2, <2>3, CountStays
  <2>5. UpInv'
    BY <1>6, <2>1 DEF UpInv, Up
  <2>6. exclusive' \in Users \cup {NoUser} /\ cleanupRequired' \in BOOLEAN
    BY <1>1, <1>10 DEF TypeOK
  <2> QED BY <1>1, <1>4, <1>5, <1>6, <1>7, <2>2, <2>3, <2>4, <2>5, <2>6, MoveKeeps
<1>11. CASE /\ promise["detach"] = "error" /\ ~Invalidated(u)
            /\ phase' = [phase EXCEPT ![u] = "leased"]
            /\ UNCHANGED <<count, exclusive, cleanupRequired>>
  <2>1. Up
    BY <1>1, <1>2, <1>11 DEF DownInv
  <2>2. Moves(u, "leased")
    BY <1>6, <1>11 DEF Moves
  <2>3. /\ phase'[u] = "leased" /\ ValidLease(u)' /\ Holds(u)' /\ Joined(p, "leased")
        /\ \A v \in Users \ {u} : phase'[v] = phase[v] /\ (ValidLease(v)' <=> ValidLease(v))
                                  /\ (Invalidated(v)' <=> Invalidated(v))
    <3>1. leaseGeneration'[u] = generation
      BY <1>6, <1>11 DEF Invalidated
    <3>2. ~Invalidated(u)'
      BY <1>6, <3>1 DEF Invalidated
    <3>3. /\ phase'[u] = "leased"
          /\ \A v \in Users \ {u} : phase'[v] = phase[v] /\ (ValidLease(v)' <=> ValidLease(v))
                                    /\ (Invalidated(v)' <=> Invalidated(v))
      BY <1>1, <2>2, MovesOnly
    <3>4. Joined(p, "leased")
      BY <1>6, WaitingPhases DEF Joined
    <3> QED BY <3>2, <3>3, <3>4 DEF Holds, ValidLease
  <2>4. CountInv' /\ count' \in Nat
    BY <1>1, <1>2, <1>6, <1>11, <2>2, <2>3, CountStays
  <2>5. PhaseInv /\ ServerInv /\ attached /\ ~cleanupRequired
        /\ \A v \in Users \ {u} : phase[v] # "releasing"
    <3>1. promise["detach"] # "ok"
      BY <1>11
    <3> QED BY <1>2, <1>8, <2>1, <3>1 DEF PhaseInv
  <2>6. PhaseInv'
    BY <1>2, <1>4, <1>6, <1>11, <2>3, <2>5 DEF PhaseInv
  <2>7. ServerInv'
    BY <1>4, <1>6, <1>11, <2>3, <2>5 DEF ServerInv
  <2>8. exclusive' \in Users \cup {NoUser} /\ cleanupRequired' \in BOOLEAN
    BY <1>1, <1>11 DEF TypeOK
  <2> QED BY <1>1, <1>4, <1>5, <1>6, <1>7, <2>1, <2>2, <2>3, <2>4, <2>6, <2>7, <2>8, MoveKeeps
          DEF UpInv
<1> QED BY <1>9, <1>10, <1>11 DEF Released, Relinquish

-----------------------------------------------------------------------------
(* The connection, its messages and the server. *)

\* The callers and what they wait for stay: so does the invariant of the promises,
\* as long as no promise comes or goes.
LEMMA WaitsStay ==
    ASSUME WaitsInv, UNCHANGED phase,
           \A k \in Kinds : promise'[k] # "none" <=> promise[k] # "none",
           \A k \in Kinds : answer'[k] # "none" => promise'[k] = "pending"
    PROVE  WaitsInv'
<1>1. /\ promise'["detach"] # "none" <=> promise["detach"] # "none"
      /\ promise'["reconcile"] # "none" <=> promise["reconcile"] # "none"
      /\ promise'["attach"] # "none" <=> promise["attach"] # "none"
  BY DEF Kinds
<1> QED BY <1>1 DEF WaitsInv

\* The callers and the count stay.
LEMMA CountUnchanged ==
    ASSUME CountInv, UNCHANGED <<phase, leaseGeneration, generation, count, exclusive, removed>>,
           Up' => Up
    PROVE  CountInv'
<1>1. Holders' = Holders
  BY DEF Holders, Holds, Invalidated
<1> QED BY <1>1 DEF CountInv

\* The validity of leases depends on their generation alone.
LEMMA ValidUnchanged ==
    ASSUME UNCHANGED <<phase, leaseGeneration, generation>>
    PROVE  \A u \in Users : /\ ValidLease(u)' <=> ValidLease(u)
                            /\ Invalidated(u)' <=> Invalidated(u)
BY DEF ValidLease, Invalidated

\* A new generation invalidates every lease.
LEMMA NewGeneration ==
    ASSUME TypeOK, CountInv, generation' = generation + 1, UNCHANGED leaseGeneration
    PROVE  \A u \in Users : Invalidated(u)' /\ leaseGeneration'[u] <= generation'
BY DEF TypeOK, CountInv, Invalidated

\* Without a connection, when all continuations have run, nobody holds a lease.
LEMMA NobodyDown ==
    ASSUME LeasesAssumption, LeaseInv, ~connected, Quiet
    PROVE  /\ \A k \in Kinds : promise[k] = "none" /\ answer[k] = "none"
           /\ Holders = {} /\ count = 0 /\ \A u \in Users : phase[u] \notin Waiting
           /\ \A u \in Users : ~ValidLease(u)
<1>1. TypeOK /\ WaitsInv /\ DownInv /\ CountInv
  BY DEF LeaseInv
<1>2. \A k \in Kinds : promise[k] = "none"
  BY <1>1 DEF Quiet, DownInv
<1>3. \A k \in Kinds : answer[k] = "none"
  BY <1>1, <1>2 DEF WaitsInv
<1>4. \A u \in Users : phase[u] \notin {"detaching", "reconciling", "attaching", "releasing"}
  BY <1>1, <1>2 DEF WaitsInv, Kinds
<1>5. \A u \in Users : phase[u] = "leased" => Invalidated(u)
  BY <1>1 DEF DownInv, Up
<1>6. Holders = {}
  BY <1>4, <1>5 DEF Holders, Holds
<1>7. count = 0
  <2>1. Cardinality(Holders) = 0
    BY <1>6, FS_EmptySet
  <2> QED BY <1>1, <2>1, HoldersFinite DEF CountInv, TypeOK
<1> QED BY <1>2, <1>3, <1>4, <1>5, <1>6, <1>7, WaitingPhases DEF ValidLease

\* A connection is there: nothing is attached in it yet.
LEMMA ConnectKeeps ==
    ASSUME LeasesAssumption, LeaseInv, Connect
    PROVE  LeaseInv'
<1>1. TypeOK /\ WaitsInv /\ DownInv /\ CountInv
  BY DEF LeaseInv
<1>2. /\ ~connected /\ Quiet /\ connected' = TRUE /\ attached' = FALSE /\ snapshot' = NoSnapshot
      /\ connections < MaxConnections /\ connections' = connections + 1
      /\ UNCHANGED <<previous, count, exclusive, generation, cleanupRequired, promise, answer>>
      /\ UNCHANGED <<phase, leaseGeneration, disposing, serverAttached, revision, removed>>
  BY DEF Connect, userVars, serverVars
<1>3. /\ \A k \in Kinds : promise[k] = "none" /\ answer[k] = "none"
      /\ Holders = {} /\ count = 0 /\ \A u \in Users : phase[u] \notin Waiting
      /\ \A u \in Users : ~ValidLease(u)
  BY <1>2, NobodyDown
<1>4. /\ promise["detach"] = "none" /\ promise["reconcile"] = "none" /\ promise["attach"] = "none"
      /\ answer["detach"] = "none" /\ answer["reconcile"] = "none" /\ answer["attach"] = "none"
  BY <1>3 DEF Kinds
<1>5. ~serverAttached /\ ~attached /\ \A u \in Users : phase[u] = "leased" => Invalidated(u)
  BY <1>1, <1>2 DEF DownInv, Up
<1>6. \A u \in Users : /\ ValidLease(u)' <=> ValidLease(u)
                       /\ Invalidated(u)' <=> Invalidated(u)
  BY <1>2, ValidUnchanged
<1>7. \A u \in Users : phase[u] \notin {"detaching", "reconciling", "attaching", "releasing"}
  BY <1>3, WaitingPhases
<1>8. TypeOK'
  <2>1. NoSnapshot \in NoSnapshot .. MaxRevision
    BY DEF NoSnapshot, LeasesAssumption
  <2>2. connections' \in 0 .. MaxConnections
    BY <1>1, <1>2 DEF TypeOK, LeasesAssumption
  <2> QED BY <1>1, <1>2, <2>1, <2>2 DEF TypeOK
<1>9. WaitsInv'
  BY <1>1, <1>2 DEF WaitsInv
<1>10. DownInv'
  BY <1>2, <1>4, <1>5, <1>6, <1>7 DEF DownInv
<1>11. CountInv'
  <2>1. Holders' = {}
    BY <1>2, <1>3, <1>6 DEF Holders, Holds
  <2>2. Cardinality(Holders') = 0
    BY <2>1, FS_EmptySet
  <2>3. ~removed' /\ exclusive' # NoUser => Holders' = {exclusive'}
    BY <1>1, <1>2, <1>3, <2>1 DEF CountInv
  <2>4. \A u \in Users : leaseGeneration'[u] <= generation'
    BY <1>1, <1>2 DEF CountInv
  <2> QED BY <1>2, <1>3, <2>2, <2>3, <2>4 DEF CountInv
<1>12. UpInv'
  <2>1. PhaseInv'
    BY <1>2, <1>3, <1>4, <1>6, <1>7 DEF PhaseInv
  <2>2. \A k \in Kinds : answer'[k] # "ok"
    BY <1>2, <1>3
  <2>3. ServerInv'
    BY <1>2, <1>3, <1>4, <1>5, <1>6, <2>2 DEF ServerInv
  <2> QED BY <2>1, <2>3 DEF UpInv
<1> QED BY <1>8, <1>9, <1>10, <1>11, <1>12 DEF LeaseInv

\* The connection is lost: what is pending fails, and no lease stays valid.
LEMMA DisconnectKeeps ==
    ASSUME LeasesAssumption, LeaseInv, Disconnect
    PROVE  LeaseInv'
<1>1. TypeOK /\ WaitsInv /\ DownInv /\ CountInv
  BY DEF LeaseInv
<1>2. /\ connected /\ Quiet /\ connected' = FALSE /\ attached' = FALSE /\ serverAttached' = FALSE
      /\ promise' = [k \in Kinds |-> IF promise[k] = "pending" THEN "error" ELSE promise[k]]
      /\ answer' = [k \in Kinds |-> "none"] /\ cleanupRequired' = FALSE
      /\ count > 0 => count' = 0 /\ exclusive' = NoUser /\ generation' = generation + 1
      /\ ~(count > 0) => UNCHANGED <<count, exclusive, generation>>
      /\ UNCHANGED <<snapshot, previous, revision, removed, connections>>
      /\ UNCHANGED <<phase, leaseGeneration, disposing>>
  BY DEF Disconnect, Invalidate, userVars
<1>3. count \in Nat /\ generation \in Nat
  BY <1>1, HoldersFinite DEF TypeOK
<1>4. count' = 0 /\ generation' \in Nat /\ exclusive' \in {exclusive, NoUser}
  BY <1>2, <1>3
<1>5. /\ \A k \in Kinds : promise'[k] \in {"none", "error"} /\ answer'[k] = "none"
      /\ \A k \in Kinds : promise'[k] # "none" <=> promise[k] # "none"
      /\ promise' \in [Kinds -> {"none", "pending", "ok", "error"}]
      /\ answer' \in [Kinds -> {"none", "ok", "error"}]
  BY <1>1, <1>2 DEF Quiet, TypeOK
<1>6. \A u \in Users : /\ leaseGeneration'[u] <= generation'
                       /\ phase[u] \in {"leased", "releasing"} => Invalidated(u)'
  <2>1. CASE count > 0
    BY <1>1, <1>2, <2>1, NewGeneration
  <2>2. CASE ~(count > 0)
    <3>1. \A u \in Users : /\ Invalidated(u)' <=> Invalidated(u)
                           /\ leaseGeneration'[u] <= generation'
      BY <1>1, <1>2, <2>2 DEF Invalidated, CountInv
    <3>2. CASE Up
      <4>1. IsFiniteSet(Holders) /\ Cardinality(Holders) = 0
        BY <1>1, <1>3, <2>2, <3>2, HoldersFinite DEF CountInv
      <4>2. \A u \in Users : ~Holds(u)
        BY <4>1, FS_EmptySet DEF Holders
      <4> QED BY <3>1, <4>2 DEF Holds
    <3>3. CASE ~Up
      BY <1>1, <3>1, <3>3 DEF DownInv
    <3> QED BY <3>2, <3>3
  <2> QED BY <2>1, <2>2
<1>7. ~removed' => exclusive' = NoUser
  <2>1. CASE ~(count > 0) /\ ~removed
    <3>1. IsFiniteSet(Holders) /\ Cardinality(Holders) = 0
      BY <1>1, <1>2, <1>3, <2>1, HoldersFinite DEF CountInv, Up
    <3>2. Holders = {}
      BY <3>1, FS_EmptySet
    <3> QED BY <1>1, <1>2, <2>1, <3>2 DEF CountInv
  <2> QED BY <1>2, <2>1
<1>8. CountInv'
  <2>1. Cardinality(Holders') \in Nat
    <3>1. Holders' \in SUBSET Users
      BY DEF Holders
    <3> QED BY <3>1, FS_Subset, FS_CardinalityType DEF LeasesAssumption
  <2> QED BY <1>2, <1>4, <1>6, <1>7, <2>1 DEF CountInv, Up
<1>9. TypeOK'
  <2>1. count' \in 0 .. Cardinality(Users)
    BY <1>4, <1>8, CountTyped
  <2> QED BY <1>1, <1>2, <1>4, <1>5, <2>1 DEF TypeOK
<1>10. WaitsInv'
  BY <1>1, <1>2, <1>5, WaitsStay
<1>11. DownInv'
  <2>1. promise'["attach"] # "ok" /\ answer'["attach"] # "ok"
    BY <1>5 DEF Kinds
  <2>2. \A k \in Kinds : promise'[k] # "pending"
    BY <1>5
  <2> QED BY <1>2, <1>6, <2>1, <2>2 DEF DownInv
<1> QED BY <1>2, <1>8, <1>9, <1>10, <1>11 DEF LeaseInv, UpInv, Up

\* The session is gone: its leases are invalid, and nothing can attach it.
LEMMA RemovedKeeps ==
    ASSUME LeasesAssumption, LeaseInv, Removed
    PROVE  LeaseInv'
<1>1. TypeOK /\ WaitsInv /\ DownInv /\ CountInv
  BY DEF LeaseInv
<1>2. /\ Quiet /\ connected /\ removed' = TRUE /\ serverAttached' = FALSE /\ attached' = FALSE
      /\ \A k \in Kinds : answer[k] = "none"
      /\ count' = 0 /\ exclusive' = NoUser /\ cleanupRequired' = FALSE
      /\ generation' = generation + 1 /\ snapshot' = NoSnapshot
      /\ UNCHANGED <<connected, previous, promise, answer, revision, connections>>
      /\ UNCHANGED <<phase, leaseGeneration, disposing>>
  BY DEF Removed, Invalidate, userVars
<1>3. \A u \in Users : Invalidated(u)' /\ leaseGeneration'[u] <= generation'
  BY <1>1, <1>2, NewGeneration
<1>4. CountInv'
  <2>1. Cardinality(Holders') \in Nat
    <3>1. Holders' \in SUBSET Users
      BY DEF Holders
    <3> QED BY <3>1, FS_Subset, FS_CardinalityType DEF LeasesAssumption
  <2> QED BY <1>2, <1>3, <2>1 DEF CountInv, Up
<1>5. TypeOK'
  <2>1. count' \in 0 .. Cardinality(Users)
    BY <1>2, <1>4, CountTyped
  <2>2. NoSnapshot \in NoSnapshot .. MaxRevision
    BY DEF NoSnapshot, LeasesAssumption
  <2>3. /\ connected \in BOOLEAN /\ previous \in NoSnapshot .. MaxRevision
        /\ revision \in 0 .. MaxRevision /\ generation \in Nat /\ leaseGeneration \in [Users -> Nat]
        /\ promise \in [Kinds -> {"none", "pending", "ok", "error"}]
        /\ answer \in [Kinds -> {"none", "ok", "error"}]
        /\ phase \in [Users -> {"idle", "leased"} \cup Waiting]
        /\ disposing \in [Users -> BOOLEAN] /\ connections \in 0 .. MaxConnections
    BY <1>1 DEF TypeOK
  <2>4. generation' \in Nat
    BY <1>2, <2>3
  <2> QED BY <1>2, <2>1, <2>2, <2>3, <2>4 DEF TypeOK
<1>6. WaitsInv'
  BY <1>1, <1>2 DEF WaitsInv
<1>7. DownInv'
  <2>1. promise["attach"] # "ok" /\ answer["attach"] # "ok"
    BY <1>2 DEF Quiet, Kinds
  <2> QED BY <1>2, <1>3, <2>1 DEF DownInv
<1> QED BY <1>2, <1>4, <1>5, <1>6, <1>7 DEF LeaseInv, UpInv, Up

\* One request is pending at a time in a connection that is up.
LEMMA OnePending ==
    ASSUME WaitsInv, PhaseInv
    PROVE  /\ promise["attach"] = "pending" => promise["detach"] # "pending"
           /\ promise["attach"] = "pending" => promise["reconcile"] # "pending"
           /\ promise["detach"] = "pending" => promise["reconcile"] # "pending"
BY DEF WaitsInv, PhaseInv

\* What was not asked is not answered.
LEMMA OneAnswer ==
    ASSUME WaitsInv, PhaseInv
    PROVE  /\ promise["attach"] = "pending" => answer["detach"] = "none" /\ answer["reconcile"] = "none"
           /\ promise["detach"] = "pending" => answer["attach"] = "none" /\ answer["reconcile"] = "none"
           /\ promise["reconcile"] = "pending" => answer["attach"] = "none" /\ answer["detach"] = "none"
BY OnePending DEF WaitsInv, Kinds

\* The server does what it is asked, or fails.
LEMMA ServeKeeps ==
    ASSUME LeasesAssumption, LeaseInv, NEW k \in Kinds, Serve(k)
    PROVE  LeaseInv'
<1>1. TypeOK /\ WaitsInv /\ DownInv /\ CountInv /\ UpInv
  BY DEF LeaseInv
<1>2. /\ promise[k] = "pending" /\ answer[k] = "none"
      /\ UNCHANGED <<connected, attached, snapshot, previous, count, exclusive, generation,
                     cleanupRequired>>
      /\ UNCHANGED <<promise, removed, connections>>
      /\ UNCHANGED <<phase, leaseGeneration, disposing>>
  BY DEF Serve, clientVars, userVars
<1>3. \/ /\ k = "attach" /\ ~removed /\ answer' = [answer EXCEPT ![k] = "ok"]
         /\ serverAttached' = TRUE /\ revision' \in {revision, 0}
      \/ /\ k # "attach" /\ answer' = [answer EXCEPT ![k] = "ok"]
         /\ serverAttached' = FALSE /\ UNCHANGED revision
      \/ /\ answer' = [answer EXCEPT ![k] = "error"] /\ UNCHANGED <<serverAttached, revision>>
  BY DEF Serve
<1>4. connected /\ (Up' <=> Up)
  BY <1>1, <1>2 DEF DownInv, Up
<1>5. /\ answer' \in [Kinds -> {"none", "ok", "error"}] /\ answer'[k] \in {"ok", "error"}
      /\ \A j \in Kinds \ {k} : answer'[j] = answer[j]
  BY <1>1, <1>3 DEF TypeOK
<1>6. \A u \in Users : /\ ValidLease(u)' <=> ValidLease(u)
                       /\ Invalidated(u)' <=> Invalidated(u)
  BY <1>2, ValidUnchanged
<1>7. TypeOK'
  <2>1. 0 \in 0 .. MaxRevision
    BY DEF LeasesAssumption
  <2>2. serverAttached' \in BOOLEAN /\ revision' \in 0 .. MaxRevision
    BY <1>1, <1>3, <2>1 DEF TypeOK
  <2> QED BY <1>1, <1>2, <1>5, <2>2 DEF TypeOK
<1>8. WaitsInv'
  <2>1. \A j \in Kinds : answer'[j] # "none" => promise'[j] = "pending"
    BY <1>1, <1>2, <1>5 DEF WaitsInv
  <2> QED BY <1>1, <1>2, <2>1, WaitsStay
<1>9. CountInv'
  BY <1>1, <1>2, <1>4, CountUnchanged
<1>10. DownInv'
  <2>1. ~Up => ~serverAttached' /\ answer'["attach"] # "ok"
    BY <1>1, <1>3, <1>4, <1>5 DEF DownInv, Up, Kinds
  <2> QED BY <1>1, <1>2, <1>4, <1>6, <2>1 DEF DownInv
<1>11. UpInv'
  <2> SUFFICES ASSUME Up' PROVE PhaseInv' /\ ServerInv'
    BY DEF UpInv
  <2>1. Up /\ PhaseInv /\ ServerInv
    BY <1>1, <1>4 DEF UpInv
  <2>2. PhaseInv'
    BY <1>2, <1>6, <2>1 DEF PhaseInv
  <2>3. CASE k = "attach" /\ answer' = [answer EXCEPT ![k] = "ok"] /\ serverAttached' = TRUE
    <3>1. PICK w \in Users : phase[w] = "attaching"
      BY <1>1, <1>2, <2>3 DEF WaitsInv
    <3>2. phase'[w] \in Waiting
      BY <1>2, <3>1, WaitingPhases
    <3>3. /\ answer'["attach"] = "ok" /\ answer'["detach"] = "none"
          /\ answer'["reconcile"] = "none" /\ "attach" \in Kinds
      BY <1>1, <1>2, <1>5, <2>1, <2>3, OneAnswer DEF Kinds, TypeOK
    <3> QED BY <1>2, <1>6, <2>1, <2>2, <2>3, <3>2, <3>3 DEF ServerInv
  <2>4. CASE k # "attach" /\ answer' = [answer EXCEPT ![k] = "ok"] /\ serverAttached' = FALSE
    <3>1. answer["attach"] = "none"
      BY <1>1, <1>2, <2>1, <2>4, OneAnswer DEF Kinds
    <3>2. answer'["attach"] = "none" /\ answer'[k] = "ok"
      BY <1>1, <1>5, <2>4, <3>1 DEF Kinds, TypeOK
    <3> QED BY <1>2, <1>6, <2>1, <2>2, <2>4, <3>2 DEF ServerInv
  <2>5. CASE answer' = [answer EXCEPT ![k] = "error"] /\ UNCHANGED serverAttached
    <3>1. \A j \in Kinds : answer'[j] = "ok" <=> answer[j] = "ok"
      BY <1>1, <1>2, <2>5 DEF TypeOK
    <3>2. /\ answer'["attach"] = "ok" <=> answer["attach"] = "ok"
          /\ answer'["detach"] = "ok" <=> answer["detach"] = "ok"
          /\ answer'["reconcile"] = "ok" <=> answer["reconcile"] = "ok"
      BY <3>1 DEF Kinds
    <3> QED BY <1>2, <1>6, <2>1, <2>2, <2>5, <3>1, <3>2 DEF ServerInv
  <2> QED BY <1>3, <2>3, <2>4, <2>5
<1> QED BY <1>7, <1>8, <1>9, <1>10, <1>11 DEF LeaseInv

\* An update of the snapshot leaves the session attached.
LEMMA UpdateKeeps ==
    ASSUME LeasesAssumption, LeaseInv, Update
    PROVE  LeaseInv'
<1>1. TypeOK /\ WaitsInv /\ DownInv /\ CountInv /\ UpInv
  BY DEF LeaseInv
<1>2. /\ connected /\ serverAttached /\ \A k \in Kinds : answer[k] = "none"
      /\ revision < MaxRevision /\ revision' = revision + 1 /\ ApplySnapshot(revision + 1)
      /\ UNCHANGED <<connected, previous, count, exclusive, generation, cleanupRequired, promise,
                     answer, serverAttached, removed, connections>>
      /\ UNCHANGED <<phase, leaseGeneration, disposing>>
  BY DEF Update, userVars
<1>3. Up /\ Up' /\ PhaseInv /\ ServerInv
  BY <1>1, <1>2 DEF DownInv, UpInv, Up
<1>4. attached
  BY <1>2, <1>3 DEF ServerInv
<1>5. attached' = attached /\ snapshot' \in {snapshot, revision + 1}
  BY <1>1, <1>2, <1>4 DEF ApplySnapshot, TypeOK
<1>6. \A u \in Users : /\ ValidLease(u)' <=> ValidLease(u)
                       /\ Invalidated(u)' <=> Invalidated(u)
  BY <1>2, ValidUnchanged
<1>7. TypeOK'
  <2>1. revision + 1 \in 0 .. MaxRevision /\ revision + 1 \in NoSnapshot .. MaxRevision
    BY <1>1, <1>2 DEF TypeOK, NoSnapshot, LeasesAssumption
  <2> QED BY <1>1, <1>2, <1>5, <2>1 DEF TypeOK
<1>8. WaitsInv'
  BY <1>1, <1>2 DEF WaitsInv
<1>9. CountInv'
  BY <1>1, <1>2, <1>3, CountUnchanged
<1>10. DownInv'
  BY <1>2, <1>3 DEF DownInv, Up
<1>11. PhaseInv'
  BY <1>2, <1>3, <1>5, <1>6 DEF PhaseInv
<1>12. promise["attach"] # "pending"
  BY <1>3, <1>4 DEF ServerInv
<1>13. ServerInv'
  BY <1>2, <1>3, <1>5, <1>6, <1>12 DEF ServerInv
<1> QED BY <1>7, <1>8, <1>9, <1>10, <1>11, <1>13 DEF LeaseInv, UpInv

\* An answer arrives: both sides agree again.
LEMMA ReceiveKeeps ==
    ASSUME LeasesAssumption, LeaseInv, NEW k \in Kinds, Receive(k)
    PROVE  LeaseInv'
<1>1. TypeOK /\ WaitsInv /\ DownInv /\ CountInv /\ UpInv
  BY DEF LeaseInv
<1>2. /\ answer[k] # "none" /\ Quiet /\ promise[k] = "pending" /\ connected
      /\ answer' = [answer EXCEPT ![k] = "none"]
      /\ promise' = [promise EXCEPT ![k] = IF answer[k] = "error" THEN "error" ELSE "ok"]
      /\ UNCHANGED <<connected, previous, count, exclusive, generation, cleanupRequired>>
      /\ UNCHANGED <<serverAttached, revision, removed, connections>>
      /\ UNCHANGED <<phase, leaseGeneration, disposing>>
  BY <1>1 DEF Receive, userVars, serverVars, WaitsInv, DownInv
<1>3. \/ answer[k] = "error" /\ UNCHANGED <<attached, snapshot>>
      \/ answer[k] = "ok" /\ k = "attach" /\ ApplySnapshot(revision)
      \/ answer[k] = "ok" /\ k # "attach" /\ attached' = FALSE /\ UNCHANGED snapshot
  BY <1>1, <1>2 DEF Receive, TypeOK
<1>4. /\ Up' <=> Up
      /\ answer' \in [Kinds -> {"none", "ok", "error"}]
      /\ promise' \in [Kinds -> {"none", "pending", "ok", "error"}]
      /\ answer'[k] = "none" /\ \A j \in Kinds \ {k} : answer'[j] = answer[j] /\ promise'[j] = promise[j]
      /\ answer[k] = "error" => promise'[k] = "error"
      /\ answer[k] = "ok" => promise'[k] = "ok"
  BY <1>1, <1>2 DEF TypeOK, Up
<1>5. \A u \in Users : /\ ValidLease(u)' <=> ValidLease(u)
                       /\ Invalidated(u)' <=> Invalidated(u)
  BY <1>2, ValidUnchanged
<1>6. answer[k] = "ok" /\ k = "attach" => Up /\ attached' = TRUE /\ snapshot' = revision /\ serverAttached
  <2> SUFFICES ASSUME answer[k] = "ok", k = "attach"
               PROVE  Up /\ attached' = TRUE /\ snapshot' = revision /\ serverAttached
    OBVIOUS
  <2>1. Up
    BY <1>1 DEF DownInv
  <2>2. snapshot = NoSnapshot /\ serverAttached
    BY <1>1, <1>2, <2>1 DEF UpInv, ServerInv
  <2>3. ~(revision < snapshot)
    BY <1>1, <2>2 DEF TypeOK, NoSnapshot
  <2> QED BY <1>3, <2>1, <2>2, <2>3 DEF ApplySnapshot
<1>7. TypeOK'
  <2>1. revision \in NoSnapshot .. MaxRevision
    BY <1>1 DEF TypeOK, NoSnapshot, LeasesAssumption
  <2>2. snapshot' \in {snapshot, revision} /\ attached' \in {attached, TRUE, FALSE}
    BY <1>3, <1>6
  <2>3. snapshot' \in NoSnapshot .. MaxRevision /\ attached' \in BOOLEAN
    BY <1>1, <2>1, <2>2 DEF TypeOK
  <2> QED BY <1>1, <1>2, <1>4, <2>3 DEF TypeOK
<1>8. WaitsInv'
  <2>1. \A j \in Kinds : promise'[j] # "none" <=> promise[j] # "none"
    BY <1>2, <1>3, <1>4
  <2>2. \A j \in Kinds : answer'[j] # "none" => promise'[j] = "pending"
    BY <1>1, <1>4 DEF WaitsInv
  <2> QED BY <1>1, <1>2, <2>1, <2>2, WaitsStay
<1>9. CountInv'
  BY <1>1, <1>2, <1>4, CountUnchanged
<1>10. DownInv'
  <2>1. ~Up => ~attached' /\ promise'["attach"] # "ok" /\ answer'["attach"] # "ok"
    BY <1>1, <1>2, <1>3, <1>4 DEF DownInv, Kinds
  <2> QED BY <1>1, <1>2, <1>4, <1>5, <2>1 DEF DownInv
<1>11. UpInv'
  <2> SUFFICES ASSUME Up' PROVE PhaseInv' /\ ServerInv'
    BY DEF UpInv
  <2>1. Up /\ PhaseInv /\ ServerInv
    BY <1>1, <1>4 DEF UpInv
  <2>2. \A j \in Kinds : promise[j] # "ok" /\ promise[j] # "error"
    BY <1>2 DEF Quiet
  <2>3. promise["attach"] # "ok" /\ promise["detach"] # "ok" /\ promise["reconcile"] # "ok"
    BY <2>2 DEF Kinds
  <2>4. CASE answer[k] = "error"
    <3>1. /\ UNCHANGED <<attached, snapshot>> /\ promise'[k] = "error"
          /\ \A j \in Kinds : answer'[j] = "ok" <=> answer[j] = "ok"
      BY <1>3, <1>4, <2>4
    <3>2. /\ answer'["attach"] = "ok" <=> answer["attach"] = "ok"
          /\ answer'["detach"] = "ok" <=> answer["detach"] = "ok"
          /\ answer'["reconcile"] = "ok" <=> answer["reconcile"] = "ok"
          /\ promise'["attach"] \in {promise["attach"], "error"}
          /\ promise'["attach"] = "error" => promise["attach"] \in {"pending", "error"}
          /\ promise'["detach"] \in {promise["detach"], "error"}
          /\ promise'["reconcile"] \in {promise["reconcile"], "error"}
          /\ promise'["reconcile"] = "error" => promise["reconcile"] \in {"pending", "error"}
      BY <1>2, <1>4, <3>1 DEF Kinds
    <3>3. PhaseInv'
      BY <1>2, <1>5, <2>1, <2>3, <3>1, <3>2 DEF PhaseInv
    <3>4. ServerInv'
      BY <1>2, <1>5, <2>1, <2>3, <3>1, <3>2 DEF ServerInv
    <3> QED BY <3>3, <3>4
  <2>5. CASE answer[k] = "ok" /\ k = "attach"
    <3>1. /\ promise'["attach"] = "ok" /\ promise'["detach"] = promise["detach"]
          /\ promise'["reconcile"] = promise["reconcile"]
      BY <1>4, <2>5 DEF Kinds
    <3>2. /\ answer'["attach"] = "none" /\ answer'["detach"] = "none"
          /\ answer'["reconcile"] = "none"
      BY <1>1, <1>2, <1>4, <2>1, <2>5, OneAnswer DEF Kinds
    <3>3. PICK w \in Users : phase[w] = "attaching"
      BY <1>1, <1>2, <2>5 DEF WaitsInv
    <3>4. \A u \in Users : phase[u] # "releasing"
      BY <2>1, <3>3 DEF PhaseInv
    <3>5. PhaseInv'
      BY <1>2, <1>5, <2>1, <3>1, <3>4 DEF PhaseInv
    <3>6. phase'[w] \in Waiting
      BY <1>2, <3>3, WaitingPhases
    <3>7. ServerInv'
      BY <1>2, <1>5, <1>6, <2>1, <2>3, <2>5, <3>1, <3>2, <3>6 DEF ServerInv
    <3> QED BY <3>5, <3>7
  <2>6. CASE answer[k] = "ok" /\ k # "attach"
    <3>1. attached' = FALSE /\ UNCHANGED snapshot
      BY <1>3, <2>6
    <3>2. /\ answer'["attach"] = "none" /\ answer'["detach"] = "none"
          /\ answer'["reconcile"] = "none"
      BY <1>1, <1>2, <1>4, <2>1, <2>6, OneAnswer DEF Kinds
    <3>3. /\ promise'["attach"] = promise["attach"]
          /\ promise'["detach"] = (IF k = "detach" THEN "ok" ELSE promise["detach"])
          /\ promise'["reconcile"] = (IF k = "detach" THEN promise["reconcile"] ELSE "ok")
      BY <1>4, <2>6 DEF Kinds
    <3>4. ~serverAttached
      BY <2>1, <2>6 DEF ServerInv, Kinds
    <3>5. \A u \in Users : ~ValidLease(u)
      BY <1>2, <2>1, <2>6 DEF PhaseInv, Kinds
    <3>6. PhaseInv'
      <4>1. k = "detach" \/ \A u \in Users : phase[u] # "releasing"
        BY <1>2, <2>1, <2>6 DEF PhaseInv, Kinds
      <4> QED BY <1>2, <1>5, <2>1, <2>3, <3>1, <3>3, <4>1 DEF PhaseInv
    <3>7. ServerInv'
      BY <1>2, <1>5, <2>1, <2>3, <3>1, <3>2, <3>3, <3>4, <3>5 DEF ServerInv
    <3> QED BY <3>6, <3>7
  <2> QED BY <1>3, <2>4, <2>5, <2>6
<1> QED BY <1>7, <1>8, <1>9, <1>10, <1>11 DEF LeaseInv

-----------------------------------------------------------------------------
(* The invariant, and what it gives. *)

\* Nothing is attached in the beginning.
LEMMA LeaseStart ==
    ASSUME LeasesAssumption, Init
    PROVE  LeaseInv
<1>1. Holders = {} /\ Cardinality(Holders) = 0
  <2>1. Holders = {}
    BY DEF Init, Holders, Holds
  <2> QED BY <2>1, FS_EmptySet
<1>2. TypeOK
  <2>1. NoSnapshot \in NoSnapshot .. MaxRevision /\ 0 \in 0 .. MaxRevision
    BY DEF NoSnapshot, LeasesAssumption
  <2>2. 0 \in 0 .. Cardinality(Users) /\ 0 \in 0 .. MaxConnections
    BY HoldersFinite DEF LeasesAssumption
  <2> QED BY <2>1, <2>2 DEF Init, TypeOK
<1>3. WaitsInv
  BY DEF Init, WaitsInv, Kinds
<1>4. DownInv
  BY DEF Init, DownInv, Kinds
<1>5. CountInv
  BY <1>1 DEF Init, CountInv
<1> QED BY <1>2, <1>3, <1>4, <1>5 DEF LeaseInv, UpInv, Up, Init

\* It depends on nothing else.
LEMMA LeaseStays ==
    ASSUME LeaseInv, UNCHANGED vars
    PROVE  LeaseInv'
<1>1. /\ UNCHANGED <<connected, attached, snapshot, previous, count, exclusive, generation,
                     cleanupRequired>>
      /\ UNCHANGED <<promise, answer, phase, leaseGeneration, disposing>>
      /\ UNCHANGED <<serverAttached, revision, removed, connections>>
  BY DEF vars, clientVars, userVars, serverVars
<1>2. \A u \in Users : /\ ValidLease(u)' <=> ValidLease(u)
                       /\ Invalidated(u)' <=> Invalidated(u)
  BY <1>1, ValidUnchanged
<1>3. TypeOK /\ WaitsInv /\ DownInv /\ CountInv /\ UpInv
  BY DEF LeaseInv
<1>4. (Up' <=> Up) /\ TypeOK' /\ WaitsInv'
  BY <1>1, <1>3 DEF Up, TypeOK, WaitsInv
<1>5. CountInv'
  BY <1>1, <1>3, <1>4, CountUnchanged
<1>6. DownInv'
  BY <1>1, <1>2, <1>3, <1>4 DEF DownInv
<1>7. PhaseInv => PhaseInv'
  BY <1>1, <1>2 DEF PhaseInv
<1>8. ServerInv => ServerInv'
  BY <1>1, <1>2 DEF ServerInv
<1> QED BY <1>3, <1>4, <1>5, <1>6, <1>7, <1>8 DEF LeaseInv, UpInv

\* A lease that counts is attached on both sides when nothing is under way.
LEMMA LeaseHoldsIs ==
    ASSUME LeaseInv
    PROVE  LeaseHolds
<1> SUFFICES ASSUME NEW u \in Users, Quiet, connected, phase[u] = "leased", ~Invalidated(u)
             PROVE  attached /\ serverAttached
  BY DEF LeaseHolds
<1>1. Up
  BY DEF LeaseInv, DownInv
<1>2. WaitsInv /\ PhaseInv /\ ServerInv /\ ValidLease(u)
  BY <1>1 DEF LeaseInv, UpInv, ValidLease
<1>3. attached
  BY <1>2 DEF ServerInv
<1>4. promise["attach"] # "pending" /\ promise["reconcile"] # "pending" /\ promise["detach"] # "pending"
  BY <1>2, <1>3 DEF PhaseInv, ServerInv
<1>5. \A k \in Kinds : answer[k] # "ok"
  BY <1>2, <1>4 DEF WaitsInv, Kinds
<1> QED BY <1>2, <1>3, <1>5 DEF ServerInv

\* Who has an exclusive lease is the only one who is counted.
LEMMA ExclusiveAloneIs ==
    ASSUME LeasesAssumption, LeaseInv
    PROVE  ExclusiveAlone
<1> SUFFICES ASSUME NEW u \in Users, NEW v \in Users, IsActive(u), IsActive(v), exclusive = u
             PROVE  v = u
  BY DEF ExclusiveAlone
<1>1. ~removed
  BY DEF LeaseInv, DownInv, IsActive, Up
<1>2. exclusive # NoUser
  BY DEF LeasesAssumption
<1>3. Holders = {u}
  BY <1>1, <1>2 DEF LeaseInv, CountInv
<1>4. v \in Holders
  BY DEF Holders, Holds, IsActive
<1> QED BY <1>3, <1>4

\* An attachment without a lease is remembered.
LEMMA NoneLeftAttachedIs ==
    ASSUME LeaseInv
    PROVE  NoneLeftAttached
<1> SUFFICES ASSUME \A u \in Users : phase[u] = "idle", connected, serverAttached
             PROVE  cleanupRequired
  BY DEF NoneLeftAttached
<1>1. Up
  BY DEF LeaseInv, DownInv
<1>2. ServerInv
  BY <1>1 DEF LeaseInv, UpInv
<1>3. \A u \in Users : phase[u] \notin Waiting /\ ~ValidLease(u)
  BY WaitingPhases DEF ValidLease
<1> QED BY <1>2, <1>3 DEF ServerInv

-----------------------------------------------------------------------------
(* Theorems. *)

\* Every behaviour keeps the invariant.
THEOREM LeaseInvariant == ASSUME LeasesAssumption PROVE Spec => []LeaseInv
<1>1. Init => LeaseInv
  BY LeaseStart
<1>2. LeaseInv /\ [Next]_vars => LeaseInv'
  <2> SUFFICES ASSUME LeaseInv, [Next]_vars PROVE LeaseInv'
    OBVIOUS
  <2>1. ASSUME NEW u \in Users, Acquire(u, "shared") \/ Acquire(u, "exclusive")
        PROVE  LeaseInv'
    BY <2>1, AcquireKeeps
  <2>2. ASSUME NEW u \in Users, Release(u, FALSE) \/ Release(u, TRUE) PROVE LeaseInv'
    BY <2>2, ReleaseKeeps
  <2>3. CASE Continue
    BY <2>3, AfterDetachmentKeeps, AfterReconciliationKeeps, AfterAttachmentKeeps, ReleasedKeeps
    DEF Continue
  <2>4. CASE Connect \/ Disconnect \/ Removed \/ Update
    BY <2>4, ConnectKeeps, DisconnectKeeps, RemovedKeeps, UpdateKeeps
  <2>5. ASSUME NEW k \in Kinds, Serve(k) \/ Receive(k) PROVE LeaseInv'
    BY <2>5, ServeKeeps, ReceiveKeeps
  <2>6. CASE UNCHANGED vars
    BY <2>6, LeaseStays
  <2> QED BY <2>1, <2>2, <2>3, <2>4, <2>5, <2>6 DEF Next
<1> QED BY <1>1, <1>2, PTL DEF Spec

\* Every variable of the client's leases keeps its type (client.ts).
THEOREM TypeCorrect == ASSUME LeasesAssumption PROVE Spec => []TypeOK
<1>1. LeaseInv => TypeOK
  BY DEF LeaseInv
<1> QED BY <1>1, LeaseInvariant, PTL

\* A lease that still counts is attached, here and at the server, whatever the other
\* holders have done (client.ts, #releaseSessionLease).
THEOREM LeasesHold == ASSUME LeasesAssumption PROVE Spec => []LeaseHolds
<1>1. LeaseInv => LeaseHolds
  BY LeaseHoldsIs
<1> QED BY <1>1, LeaseInvariant, PTL

\* An exclusive lease is the only one that is active (client.ts,
\* #reserveSessionLease).
THEOREM ExclusiveIsAlone == ASSUME LeasesAssumption PROVE Spec => []ExclusiveAlone
<1>1. LeaseInv => ExclusiveAlone
  BY ExclusiveAloneIs
<1> QED BY <1>1, LeaseInvariant, PTL

\* Without leases and requests the server is left attached only if the client knows
\* (client.ts, acquireSession).
THEOREM NoneForgotten == ASSUME LeasesAssumption PROVE Spec => []NoneLeftAttached
<1>1. LeaseInv => NoneLeftAttached
  BY NoneLeftAttachedIs
<1> QED BY <1>1, LeaseInvariant, PTL
=============================================================================
