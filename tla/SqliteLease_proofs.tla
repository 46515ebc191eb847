-------------------------- MODULE SqliteLease_proofs --------------------------
(***************************************************************************)
(* Proofs about the writer lease of a session, for any number of processes    *)
(* and of claims and any lengths of lease and heartbeat: types, the fence, and *)
(* that heartbeats in time keep the lease.                                   *)
(***************************************************************************)
EXTENDS SqliteLease, TLAPS

\* The lease outlives one heartbeat more than are tolerated to fail.
LEMMA ToleratedFits ==
    ASSUME LeaseAssumption
    PROVE  Tolerated \in Nat /\ (Tolerated + 1) * Interval < Ttl
<1> DEFINE n == (Ttl - 1) \div Interval
<1>1. Ttl \in Nat /\ Interval \in Nat /\ Interval > 0 /\ Ttl - 1 \in Nat /\ Ttl - 1 >= Interval
  BY DEF LeaseAssumption
<1>2. n \in Nat /\ n * Interval <= Ttl - 1 /\ Ttl - 1 < (n + 1) * Interval
  BY <1>1
<1>3. n >= 1
  <2>1. n # 0
    <3>1. SUFFICES ASSUME n = 0 PROVE FALSE
      OBVIOUS
    <3>2. (n + 1) * Interval = Interval
      BY <1>1, <3>1
    <3> QED BY <1>1, <1>2, <3>2
  <2> HIDE DEF n
  <2> QED BY <1>2, <2>1
<1> QED
  <2>1. Tolerated = n - 1
    BY DEF Tolerated
  <2> HIDE DEF n
  <2>2. Tolerated + 1 = n
    BY <1>2, <2>1
  <2>3. n * Interval \in Nat /\ n * Interval < Ttl
    BY <1>1, <1>2
  <2> QED BY <1>2, <1>3, <2>1, <2>2, <2>3

\* However many tolerated failures there were, one interval more is left.
LEMMA FailuresFit ==
    ASSUME LeaseAssumption, NEW k \in 0 .. Tolerated
    PROVE  k * Interval \in Nat /\ k * Interval + Interval < Ttl
<1>1. Tolerated \in Nat /\ (Tolerated + 1) * Interval < Ttl
  BY ToleratedFits
<1>2. Interval \in Nat /\ Interval > 0 /\ Ttl \in Nat
  BY DEF LeaseAssumption
<1> HIDE DEF Tolerated
<1>3. k * Interval \in Nat /\ k * Interval + Interval = (k + 1) * Interval
  BY <1>1, <1>2
<1>4. (k + 1) * Interval <= (Tolerated + 1) * Interval
  BY <1>1, <1>2
<1> QED
  BY <1>1, <1>2, <1>3, <1>4

Op == {"write", "heartbeat", "release"}

\* Storing a storage object back.
LEMMA UpdatedType ==
    ASSUME TypeOK, NEW s \in StorageIds, NEW o \in Storage,
           storages' = [storages EXCEPT ![s] = o]
    PROVE  /\ storages' \in Seq(Storage) /\ Len(storages') = Len(storages)
           /\ storages'[s] = o /\ \A d \in StorageIds : d # s => storages'[d] = storages[d]
BY DEF TypeOK, StorageIds

\* What the operations make of a storage object.
Submitted(o, op) == [o EXCEPT !.queue = Append(@, op)]
Rest(o) == [o EXCEPT !.queue = Tail(@)]
Expired(o) == [Rest(o) EXCEPT !.error = TRUE, !.timer = NoTimer]
Renewed(o) == [Rest(o) EXCEPT !.timer = 0, !.failed = 0]
Failed(o) ==
    [Rest(o) EXCEPT !.failed = IF @ < Tolerated THEN @ + 1 ELSE @,
                    !.kept = @ /\ o.failed < Tolerated, !.timer = 0]
Due(o) == [Submitted(o, "heartbeat") EXCEPT !.timer = NoTimer]
Closing(o) == [Submitted(o, "release") EXCEPT !.timer = NoTimer, !.closing = TRUE]

\* They are storage objects again.
LEMMA ObjectTypes ==
    ASSUME LeaseAssumption, NEW o \in Storage
    PROVE  /\ \A op \in Op : Submitted(o, op) \in Storage
           /\ Due(o) \in Storage /\ Closing(o) \in Storage
           /\ o.queue # <<>> => /\ Rest(o) \in Storage /\ Expired(o) \in Storage
                                /\ Renewed(o) \in Storage /\ Failed(o) \in Storage
<1>1. Tolerated \in Nat /\ NoTimer \in NoTimer .. Interval /\ 0 \in NoTimer .. Interval
  BY ToleratedFits DEF LeaseAssumption, NoTimer
<1>2. ASSUME NEW op \in Op PROVE Submitted(o, op) \in Storage
  <2>1. Append(o.queue, op) \in Seq({"write", "heartbeat", "release"})
    BY DEF Op, Storage
  <2> QED BY <2>1 DEF Submitted, Storage
<1>3. Due(o) \in Storage /\ Closing(o) \in Storage
  <2>1. Submitted(o, "heartbeat") \in Storage /\ Submitted(o, "release") \in Storage
    BY <1>2 DEF Op
  <2> QED BY <1>1, <2>1 DEF Due, Closing, Storage
<1>4. ASSUME o.queue # <<>>
      PROVE  Rest(o) \in Storage /\ Expired(o) \in Storage /\ Renewed(o) \in Storage
  <2>1. Tail(o.queue) \in Seq({"write", "heartbeat", "release"})
    BY <1>4 DEF Storage
  <2>2. Rest(o) \in Storage
    BY <2>1 DEF Rest, Storage
  <2>3. Expired(o) \in Storage
    BY <1>1, <2>2 DEF Expired, Storage
  <2>4. Renewed(o) \in Storage
    <3>1. [Rest(o) EXCEPT !.timer = 0] \in Storage
      BY <1>1, <2>2 DEF Storage
    <3>2. 0 \in 0 .. Tolerated
      BY <1>1
    <3> QED BY <3>1, <3>2 DEF Renewed, Storage
  <2> QED BY <2>2, <2>3, <2>4
<1>5. ASSUME o.queue # <<>> PROVE Failed(o) \in Storage
  <2>1. Rest(o) \in Storage /\ Rest(o).failed = o.failed /\ Rest(o).kept = o.kept
    BY <1>4, <1>5 DEF Rest, Storage
  <2>2. (IF o.failed < Tolerated THEN o.failed + 1 ELSE o.failed) \in 0 .. Tolerated
    BY <1>1 DEF Storage
  <2>3. (o.kept /\ o.failed < Tolerated) \in BOOLEAN
    OBVIOUS
  <2> QED BY <1>1, <2>1, <2>2, <2>3 DEF Failed, Storage
<1> QED
  BY <1>2, <1>3, <1>4, <1>5

\* So are a new one and one that was given up.
LEMMA MadeTypes ==
    ASSUME LeaseAssumption, NEW r \in Repos
    PROVE  NewStorage(r) \in Storage /\ Gone(r) \in Storage
<1>1. Tolerated \in Nat /\ NoTimer \in NoTimer .. Interval /\ 0 \in NoTimer .. Interval
  BY ToleratedFits DEF LeaseAssumption, NoTimer
<1>2. <<>> \in Seq({"write", "heartbeat", "release"})
  OBVIOUS
<1>3. NewStorage(r) \in Storage
  BY <1>1, <1>2 DEF NewStorage, Storage
<1> QED BY <1>1, <1>3 DEF Gone, Storage

-----------------------------------------------------------------------------
(* The inductive invariant. *)

\* The lease is the last claim's or nobody's, and nobody's without a session.
RowInv ==
    /\ row.owner \in {0, Len(storages)}
    /\ ~exists => row.owner = 0

\* What the owner may still do, and how long ago its last heartbeat was due.
InUse(o) == ~(o.closing /\ o.queue = <<>>)
SinceBeat(o) == IF o.timer = NoTimer THEN Interval ELSE o.timer
BeatPending(o) == \E i \in DOMAIN o.queue : o.queue[i] = "heartbeat"

\* A storage object that was never late has the lease, with a life that the time
\* since the last heartbeat and the failed ones before it account for.
HasLease(s, o, lease) ==
    /\ o.kept => ~o.error
    /\ o.kept /\ InUse(o) => lease.owner = s /\ lease.life > 0
    /\ o.kept /\ ~o.closing => lease.life + o.failed * Interval + SinceBeat(o) >= Ttl
    /\ ~o.closing /\ ~o.error /\ o.timer = NoTimer => BeatPending(o)
    /\ o.closing => o.timer = NoTimer

LeaseInv == TypeOK /\ RowInv /\ \A s \in StorageIds : HasLease(s, storages[s], row)

Row == [owner : 0 .. Len(storages), life : 0 .. Ttl]

MayRenew(s) == UNCHANGED row \/ (Renewable(s) /\ Renew)

\* A step of one storage object that may renew its own lease.
LEMMA ObjectStep ==
    ASSUME LeaseAssumption, LeaseInv, NEW s \in StorageIds, NEW o \in Storage,
           storages' = [storages EXCEPT ![s] = o],
           o.repo = storages[s].repo, o.closing <=> storages[s].closing,
           UNCHANGED <<exists, active, operation>>,
           MayRenew(s),
           committer' = 0 \/ committer' = s,
           HasLease(s, o, row')
    PROVE  LeaseInv'
<1>1. /\ storages' \in Seq(Storage) /\ Len(storages') = Len(storages)
      /\ storages'[s] = o /\ \A d \in StorageIds : d # s => storages'[d] = storages[d]
  BY UpdatedType DEF LeaseInv
<1>2. StorageIds' = StorageIds /\ s \in 1 .. Len(storages)
  BY <1>1 DEF StorageIds, LeaseInv, TypeOK
<1>3. row \in Row /\ Ttl \in Nat
  BY DEF LeaseInv, TypeOK, Row, LeaseAssumption
<1>4. row' \in Row /\ row'.owner = row.owner /\ (row' = row \/ row.owner = s)
  BY <1>3 DEF Row, MayRenew, Renewable, Renew
<1>5. TypeOK'
  BY <1>1, <1>2, <1>4 DEF LeaseInv, TypeOK, Row, StorageIds
<1>7. RowInv'
  BY <1>1, <1>4 DEF LeaseInv, RowInv
<1>8. ASSUME NEW d \in StorageIds PROVE HasLease(d, storages'[d], row')
  <2>1. CASE d = s
    BY <1>1, <2>1
  <2>2. CASE d # s
    <3>1. HasLease(d, storages[d], row) /\ storages'[d] = storages[d] /\ storages[d] \in Storage
      BY <1>1, <2>2 DEF LeaseInv, TypeOK, StorageIds
    <3>2. CASE row' = row
      BY <3>1, <3>2
    <3>3. CASE row.owner = s
      \* Nobody else is in use and never late.
      <4>1. ~(storages[d].kept /\ InUse(storages[d]))
        BY <2>2, <3>1, <3>3 DEF HasLease
      <4>2. ~storages[d].closing => InUse(storages[d])
        BY DEF InUse
      <4> QED BY <3>1, <4>1, <4>2 DEF HasLease
    <3> QED BY <1>4, <3>2, <3>3
  <2> QED BY <2>1, <2>2
<1> QED
  BY <1>2, <1>5, <1>7, <1>8 DEF LeaseInv

\* When nobody has a lease that is alive, every storage object is released or was
\* late, and a step that changes none of them cannot hurt.
LEMMA NobodyInUse ==
    ASSUME LeaseInv, NEW s \in StorageIds, Claimable \/ row.owner = 0
    PROVE  ~(storages[s].kept /\ (InUse(storages[s]) \/ ~storages[s].closing))
<1>1. s \in 1 .. Len(storages)
  BY DEF LeaseInv, TypeOK, StorageIds
<1>2. row.owner = 0 \/ row.life = 0
  BY DEF Claimable, NoRow
<1>3. ~(row.owner = s /\ row.life > 0)
  BY <1>1, <1>2
<1>4. ~storages[s].closing => InUse(storages[s])
  BY DEF InUse
<1> QED
  BY <1>3, <1>4 DEF LeaseInv, HasLease

-----------------------------------------------------------------------------
(* The operations of a storage object. *)

\* An object that differs in its queue only, or in a timer that has run out.
LEMMA SameLease ==
    ASSUME NEW s, NEW o, NEW p, NEW w, HasLease(s, o, w), ~o.closing,
           p.kept => o.kept, p.error => o.error, ~p.closing,
           p.failed = o.failed, SinceBeat(p) = SinceBeat(o),
           ~p.error /\ p.timer = NoTimer => BeatPending(p)
    PROVE  HasLease(s, p, w)
<1>1. InUse(o)
  BY DEF InUse
<1>2. p.kept => ~p.error
  BY DEF HasLease
<1>3. p.kept => w.owner = s /\ w.life > 0
  BY <1>1 DEF HasLease
<1>4. p.kept => w.life + p.failed * Interval + SinceBeat(p) >= Ttl
  <2>1. o.kept => w.life + o.failed * Interval + SinceBeat(o) >= Ttl
    BY DEF HasLease
  <2> QED BY <2>1
<1> QED
  BY <1>2, <1>3, <1>4 DEF HasLease

\* Submit and HeartbeatDue put an operation into the queue (repo.ts:377, 396).
LEMMA EnqueueStep ==
    ASSUME LeaseAssumption, LeaseInv, NEW s \in StorageIds, Submit(s) \/ HeartbeatDue(s)
    PROVE  LeaseInv'
<1> DEFINE o == storages[s]
<1>0. o \in Storage /\ HasLease(s, o, row)
  BY DEF LeaseInv, TypeOK, StorageIds
<1>1. Submitted(o, "write") \in Storage /\ Due(o) \in Storage
  BY <1>0, ObjectTypes DEF Op
<1>2. CASE Submit(s)
  <2>1. storages' = [storages EXCEPT ![s] = Submitted(o, "write")] /\ ~o.closing
    BY <1>2 DEF Submit, Submitted
  <2>2. UNCHANGED <<exists, active, operation, row>> /\ committer' = 0
    BY <1>2 DEF Submit
  <2>3. HasLease(s, Submitted(o, "write"), row)
    <3>1. BeatPending(o) => BeatPending(Submitted(o, "write"))
      BY <1>0 DEF BeatPending, Submitted, Storage
    <3>2. /\ Submitted(o, "write").timer = o.timer /\ (Submitted(o, "write").kept <=> o.kept)
          /\ (Submitted(o, "write").error <=> o.error) /\ (Submitted(o, "write").closing <=> o.closing)
          /\ Submitted(o, "write").failed = o.failed
      BY <1>0 DEF Submitted, Storage
    <3>3. SinceBeat(Submitted(o, "write")) = SinceBeat(o)
      BY <3>2 DEF SinceBeat
    <3> QED BY <1>0, <2>1, <3>1, <3>2, <3>3, SameLease DEF HasLease
  <2>4. Submitted(o, "write").repo = o.repo /\ (Submitted(o, "write").closing <=> o.closing)
    BY <1>0 DEF Submitted, Storage
  <2>5. MayRenew(s) /\ HasLease(s, Submitted(o, "write"), row')
    BY <2>2, <2>3 DEF MayRenew
  <2> QED BY <1>1, <2>1, <2>2, <2>4, <2>5, ObjectStep
<1>3. CASE HeartbeatDue(s)
  <2>1. storages' = [storages EXCEPT ![s] = Due(o)] /\ o.timer >= Interval
    <3>1. s \in DOMAIN storages /\ storages \in Seq(Storage)
      BY DEF LeaseInv, TypeOK, StorageIds
    <3>2. storages' = [storages EXCEPT ![s].timer = NoTimer, ![s].queue = Append(@, "heartbeat")]
          /\ o.timer >= Interval
      BY <1>3 DEF HeartbeatDue
    <3>3. storages' = [storages EXCEPT ![s] =
                          [o EXCEPT !.timer = NoTimer, !.queue = Append(@, "heartbeat")]]
      BY ONLY <3>1, <3>2
    <3>4. [o EXCEPT !.timer = NoTimer, !.queue = Append(@, "heartbeat")] = Due(o)
      BY ONLY <1>0 DEF Due, Submitted, Storage
    <3> QED BY <3>2, <3>3, <3>4
  <2>2. UNCHANGED <<exists, active, operation, row>> /\ committer' = 0
    BY <1>3 DEF HeartbeatDue
  <2>3. HasLease(s, Due(o), row)
    <3>1. /\ Due(o).timer = NoTimer /\ Due(o).queue = Append(o.queue, "heartbeat")
          /\ (Due(o).kept <=> o.kept) /\ (Due(o).error <=> o.error) /\ (Due(o).closing <=> o.closing)
          /\ Due(o).failed = o.failed
      BY <1>0 DEF Due, Submitted, Storage
    <3>2. BeatPending(Due(o))
      <4>1. Append(o.queue, "heartbeat")[Len(o.queue) + 1] = "heartbeat"
        BY <1>0 DEF Storage
      <4> QED BY <1>0, <3>1, <4>1 DEF BeatPending, Storage
    <3>3. o.timer = Interval
      BY <1>0, <2>1 DEF Storage, LeaseAssumption, NoTimer
    <3>4. SinceBeat(Due(o)) = SinceBeat(o)
      BY <3>1, <3>3 DEF SinceBeat
    <3>5. ~o.closing
      BY <1>0, <3>3 DEF HasLease, LeaseAssumption, NoTimer
    <3> QED BY <1>0, <3>1, <3>2, <3>4, <3>5, SameLease
  <2>4. Due(o).repo = o.repo /\ (Due(o).closing <=> o.closing)
    BY <1>0 DEF Due, Submitted, Storage
  <2>5. MayRenew(s) /\ HasLease(s, Due(o), row')
    BY <2>2, <2>3 DEF MayRenew
  <2> QED BY <1>1, <2>1, <2>2, <2>4, <2>5, ObjectStep
<1> QED
  BY <1>2, <1>3

\* A lease that lives longer.
LEMMA LeaseLonger ==
    ASSUME LeaseAssumption, NEW s, NEW o \in Storage, NEW w, NEW v, HasLease(s, o, w),
           v.owner = w.owner, w.life \in Nat, v.life \in Nat, w.life <= v.life
    PROVE  HasLease(s, o, v)
<1>1. o.failed * Interval \in Nat /\ SinceBeat(o) \in Nat /\ Ttl \in Nat
  <2>1. o.failed \in 0 .. Tolerated
    BY DEF Storage
  <2>2. o.failed * Interval \in Nat
    BY <2>1, FailuresFit
  <2>3. Interval \in Nat /\ Ttl \in Nat /\ (o.timer = NoTimer \/ o.timer \in Nat)
    BY DEF LeaseAssumption, NoTimer, Storage
  <2> QED BY <2>2, <2>3 DEF SinceBeat
<1>2. o.kept /\ ~o.closing => w.life + o.failed * Interval + SinceBeat(o) >= Ttl
  BY DEF HasLease
<1>3. o.kept /\ ~o.closing => v.life + o.failed * Interval + SinceBeat(o) >= Ttl
  BY <1>1, <1>2
<1> QED
  BY <1>3 DEF HasLease

\* What a queue and an object become when an operation is taken off.
LEMMA RestFields ==
    ASSUME NEW o \in Storage, o.queue # <<>>
    PROVE  /\ Rest(o).repo = o.repo /\ (Rest(o).closing <=> o.closing)
           /\ (Rest(o).error <=> o.error) /\ (Rest(o).kept <=> o.kept)
           /\ Rest(o).timer = o.timer /\ Rest(o).failed = o.failed
           /\ Head(o.queue) # "heartbeat" /\ BeatPending(o) => BeatPending(Rest(o))
<1>1. Rest(o).queue = Tail(o.queue)
  BY DEF Rest, Storage
<1>2. ASSUME Head(o.queue) # "heartbeat", NEW i \in DOMAIN o.queue, o.queue[i] = "heartbeat"
      PROVE  BeatPending(Rest(o))
  <2>1. o.queue \in Seq(Op)
    BY DEF Storage, Op
  <2>2. i \in 2 .. Len(o.queue)
    BY <1>2, <2>1
  <2>3. i - 1 \in DOMAIN Tail(o.queue) /\ Tail(o.queue)[i - 1] = "heartbeat"
    BY <1>2, <2>1, <2>2
  <2> QED BY <1>1, <2>3 DEF BeatPending
<1> QED
  BY <1>2 DEF Rest, Storage, BeatPending

\* A step that takes an operation off and changes nothing else keeps the lease, if
\* what it took off was not the heartbeat of an object in use.
LEMMA RestHasLease ==
    ASSUME LeaseAssumption, NEW s, NEW o \in Storage, NEW w, HasLease(s, o, w), o.queue # <<>>,
           Head(o.queue) # "heartbeat" \/ o.closing \/ o.error
    PROVE  HasLease(s, Rest(o), w)
<1>1. /\ (Rest(o).closing <=> o.closing)
      /\ (Rest(o).error <=> o.error) /\ (Rest(o).kept <=> o.kept)
      /\ Rest(o).timer = o.timer /\ Rest(o).failed = o.failed
      /\ Head(o.queue) # "heartbeat" /\ BeatPending(o) => BeatPending(Rest(o))
  BY RestFields
<1>2. CASE ~o.closing
  <2>1. ~o.error /\ o.timer = NoTimer => BeatPending(o)
    BY <1>2 DEF HasLease
  <2>2. ~Rest(o).error /\ Rest(o).timer = NoTimer => BeatPending(Rest(o))
    BY <1>1, <1>2, <2>1
  <2>3. SinceBeat(Rest(o)) = SinceBeat(o)
    BY <1>1 DEF SinceBeat
  <2> QED BY <1>1, <1>2, <2>2, <2>3, SameLease
<1>3. CASE o.closing
  <2>1. InUse(o)
    BY DEF InUse
  <2>2. o.kept => ~o.error /\ w.owner = s /\ w.life > 0
    BY <2>1 DEF HasLease
  <2>3. o.timer = NoTimer
    BY <1>3 DEF HasLease
  <2> QED BY <1>1, <1>3, <2>2, <2>3 DEF HasLease
<1> QED
  BY <1>2, <1>3

\* Losing the lease (repo.ts:384): only who was late does.
LEMMA ExpiredHasLease ==
    ASSUME LeaseAssumption, LeaseInv, NEW s \in StorageIds, storages[s].queue # <<>>, ~Renewable(s)
    PROVE  HasLease(s, Expired(storages[s]), row)
<1> DEFINE o == storages[s]
<1>1. o \in Storage /\ HasLease(s, o, row)
  BY DEF LeaseInv, TypeOK, StorageIds
<1>2. InUse(o)
  BY DEF InUse
<1>3. ~o.kept
  BY <1>1, <1>2 DEF HasLease, Renewable
<1>4. /\ (Expired(o).kept <=> o.kept) /\ Expired(o).error /\ Expired(o).timer = NoTimer
  BY <1>1 DEF Expired, Rest, Storage
<1> QED
  BY <1>3, <1>4 DEF HasLease

\* An operation that writes (repo.ts:377-392).
LEMMA WriteStep ==
    ASSUME LeaseAssumption, LeaseInv, NEW s \in StorageIds, Write(s)
    PROVE  LeaseInv'
<1> DEFINE o == storages[s]
<1>1. o \in Storage /\ HasLease(s, o, row)
  BY DEF LeaseInv, TypeOK, StorageIds
<1>2. o.queue # <<>> /\ Head(o.queue) = "write" /\ UNCHANGED <<exists, active, operation>>
  BY DEF Write, Turn
<1>3. Dequeued(s) = [storages EXCEPT ![s] = Rest(o)] /\ Lost(s) = [storages EXCEPT ![s] = Expired(o)]
  BY <1>1 DEF Dequeued, Lost, Rest, Expired, LeaseInv, TypeOK, StorageIds
<1>4. /\ Rest(o) \in Storage /\ Expired(o) \in Storage
      /\ Rest(o).repo = o.repo /\ (Rest(o).closing <=> o.closing)
      /\ Expired(o).repo = o.repo /\ (Expired(o).closing <=> o.closing)
  <2>1. Rest(o) \in Storage /\ Expired(o) \in Storage
    BY <1>1, <1>2, ObjectTypes
  <2> QED BY <1>1, <2>1 DEF Rest, Expired, Storage
<1>5. HasLease(s, Rest(o), row)
  BY <1>1, <1>2, RestHasLease
<1>6. CASE storages' = Dequeued(s) /\ UNCHANGED row /\ committer' = 0
  <2>1. MayRenew(s) /\ HasLease(s, Rest(o), row')
    BY <1>5, <1>6 DEF MayRenew
  <2> QED BY <1>2, <1>3, <1>4, <1>6, <2>1, ObjectStep
<1>7. CASE ~Renewable(s) /\ storages' = Lost(s) /\ UNCHANGED row /\ committer' = 0
  <2>1. HasLease(s, Expired(o), row)
    BY <1>2, <1>7, ExpiredHasLease
  <2>2. MayRenew(s) /\ HasLease(s, Expired(o), row')
    BY <1>7, <2>1 DEF MayRenew
  <2> QED BY <1>2, <1>3, <1>4, <1>7, <2>2, ObjectStep
<1>8. CASE Renewable(s) /\ storages' = Dequeued(s) /\ Renew /\ committer' = s
  <2>1. row'.owner = row.owner /\ row'.life = Ttl /\ row.life <= Ttl /\ row.life \in Nat /\ Ttl \in Nat
    BY <1>8 DEF Renew, LeaseInv, TypeOK, LeaseAssumption
  <2>2. HasLease(s, o, row')
    BY <1>1, <2>1, LeaseLonger
  <2>3. HasLease(s, Rest(o), row')
    BY <1>1, <1>2, <2>2, RestHasLease
  <2>4. MayRenew(s)
    BY <1>8 DEF MayRenew
  <2> QED BY <1>2, <1>3, <1>4, <1>8, <2>3, <2>4, ObjectStep
<1> QED
  BY <1>6, <1>7, <1>8 DEF Write

\* Renewing starts the count of time and of failures again.
LEMMA RenewedHasLease ==
    ASSUME LeaseAssumption, LeaseInv, NEW s \in StorageIds, storages[s].queue # <<>>, Renewable(s),
           ~storages[s].closing, ~storages[s].error, Renew
    PROVE  HasLease(s, Renewed(storages[s]), row')
<1> DEFINE o == storages[s]
<1>1. o \in Storage
  BY DEF LeaseInv, TypeOK, StorageIds
<1>2. /\ ~Renewed(o).error /\ ~Renewed(o).closing /\ Renewed(o).timer = 0 /\ Renewed(o).failed = 0
  BY <1>1 DEF Renewed, Rest, Storage
<1>3. row'.owner = s /\ row'.life = Ttl /\ Ttl \in Nat /\ Ttl > 0 /\ Interval \in Nat
  BY DEF Renew, Renewable, LeaseInv, TypeOK, LeaseAssumption
<1>4. SinceBeat(Renewed(o)) = 0 /\ Renewed(o).timer # NoTimer
  BY <1>2 DEF SinceBeat, NoTimer
<1>5. row'.life + Renewed(o).failed * Interval + SinceBeat(Renewed(o)) >= Ttl
  BY <1>2, <1>3, <1>4
<1> QED
  BY <1>2, <1>3, <1>4, <1>5 DEF HasLease

\* A heartbeat that fails has cost an interval at most (repo.ts:408).
LEMMA FailedHasLease ==
    ASSUME LeaseAssumption, LeaseInv, NEW s \in StorageIds, storages[s].queue # <<>>,
           ~storages[s].closing, ~storages[s].error
    PROVE  HasLease(s, Failed(storages[s]), row)
<1> DEFINE o == storages[s]
<1>1. o \in Storage /\ HasLease(s, o, row) /\ InUse(o) /\ row.life \in Nat
  BY DEF LeaseInv, TypeOK, StorageIds, InUse
<1>2. Tolerated \in Nat /\ Interval \in Nat /\ Ttl \in Nat
  BY ToleratedFits DEF LeaseAssumption
<1>3. /\ (Failed(o).error <=> o.error) /\ (Failed(o).closing <=> o.closing) /\ Failed(o).timer = 0
      /\ (Failed(o).kept => o.kept /\ o.failed < Tolerated /\ Failed(o).failed = o.failed + 1)
  BY <1>1 DEF Failed, Rest, Storage
<1>4. SinceBeat(Failed(o)) = 0 /\ Failed(o).timer # NoTimer
  BY <1>3 DEF SinceBeat, NoTimer
<1>5. ASSUME Failed(o).kept
      PROVE  row.life + Failed(o).failed * Interval + SinceBeat(Failed(o)) >= Ttl
  <2>1. row.life + o.failed * Interval + SinceBeat(o) >= Ttl
    BY <1>1, <1>3, <1>5 DEF HasLease
  <2>2. SinceBeat(o) \in 0 .. Interval /\ o.failed \in Nat
    BY <1>1, <1>2 DEF SinceBeat, Storage, NoTimer
  <2>3. o.failed * Interval \in Nat /\ (o.failed + 1) * Interval = o.failed * Interval + Interval
    BY <1>2, <2>2
  <2>4. Failed(o).failed = o.failed + 1
    BY <1>3, <1>5
  <2>5. Failed(o).failed * Interval = o.failed * Interval + Interval
    BY <2>3, <2>4
  <2> DEFINE k == o.failed * Interval
  <2>6. k \in Nat /\ row.life + k + SinceBeat(o) >= Ttl
    BY <2>1, <2>3
  <2>7. Failed(o).failed * Interval = k + Interval
    BY <2>5
  <2> HIDE DEF k
  <2>8. row.life + (k + Interval) >= Ttl
    BY <1>1, <1>2, <2>2, <2>6
  <2> QED BY <1>1, <1>2, <1>4, <2>6, <2>7, <2>8
<1>6. Failed(o).kept => o.kept /\ ~o.error /\ row.owner = s /\ row.life > 0
  BY <1>1, <1>3 DEF HasLease
<1> QED
  BY <1>3, <1>4, <1>5, <1>6 DEF HasLease

\* A heartbeat (repo.ts:396-415).
LEMMA HeartbeatStep ==
    ASSUME LeaseAssumption, LeaseInv, NEW s \in StorageIds, Heartbeat(s)
    PROVE  LeaseInv'
<1> DEFINE o == storages[s]
<1>1. o \in Storage /\ HasLease(s, o, row)
  BY DEF LeaseInv, TypeOK, StorageIds
<1>2. o.queue # <<>> /\ UNCHANGED <<exists, active, operation>> /\ committer' = 0
  BY DEF Heartbeat, Turn
<1>3. Dequeued(s) = [storages EXCEPT ![s] = Rest(o)] /\ Lost(s) = [storages EXCEPT ![s] = Expired(o)]
  BY <1>1 DEF Dequeued, Lost, Rest, Expired, LeaseInv, TypeOK, StorageIds
<1>4. /\ [Dequeued(s) EXCEPT ![s].timer = 0, ![s].failed = 0] = [storages EXCEPT ![s] = Renewed(o)]
      /\ Rescheduled(s) = [storages EXCEPT ![s] = Failed(o)]
  <2>1. s \in DOMAIN storages /\ storages \in Seq(Storage)
    BY DEF LeaseInv, TypeOK, StorageIds
  <2>2. ASSUME NEW rest PROVE [storages EXCEPT ![s] = rest][s] = rest
    BY <2>1
  <2>3. [Dequeued(s) EXCEPT ![s].timer = 0, ![s].failed = 0] = [storages EXCEPT ![s] = Renewed(o)]
    <3>1. [Dequeued(s) EXCEPT ![s].timer = 0, ![s].failed = 0]
             = [[storages EXCEPT ![s] = Rest(o)] EXCEPT ![s] = Renewed(o)]
      BY <1>3, <2>2 DEF Renewed
    <3> QED BY <2>1, <3>1
  <2>4. Rescheduled(s) = [storages EXCEPT ![s] = Failed(o)]
    <3> DEFINE failed == IF Rest(o).failed < Tolerated THEN Rest(o).failed + 1 ELSE Rest(o).failed
    <3>1. /\ Dequeued(s)[s] = Rest(o) /\ Dequeued(s)[s].failed = Rest(o).failed
          /\ Dequeued(s)[s].kept = Rest(o).kept
      BY <1>3, <2>2
    <3>2. [Dequeued(s) EXCEPT ![s].failed = IF @ < Tolerated THEN @ + 1 ELSE @]
             = [storages EXCEPT ![s] = [Rest(o) EXCEPT !.failed = failed]]
      BY <1>3, <2>1, <3>1
    <3> HIDE DEF failed
    <3>3. Failing(s) = [storages EXCEPT ![s] = [[Rest(o) EXCEPT !.failed = failed]
                            EXCEPT !.kept = Rest(o).kept /\ o.failed < Tolerated]]
      BY <2>1, <2>2, <3>1, <3>2 DEF Failing
    <3>4. Rescheduled(s) = [storages EXCEPT ![s] = [[[Rest(o) EXCEPT !.failed = failed]
                            EXCEPT !.kept = Rest(o).kept /\ o.failed < Tolerated] EXCEPT !.timer = 0]]
      BY <2>1, <2>2, <3>3 DEF Rescheduled
    <3> QED BY <3>4 DEF Failed, failed
  <2> QED BY <2>3, <2>4
<1>5. /\ Rest(o) \in Storage /\ Expired(o) \in Storage
      /\ Renewed(o) \in Storage /\ Failed(o) \in Storage
  BY <1>1, <1>2, ObjectTypes
<1>6. /\ Rest(o).repo = o.repo /\ (Rest(o).closing <=> o.closing)
      /\ Expired(o).repo = o.repo /\ (Expired(o).closing <=> o.closing)
      /\ Renewed(o).repo = o.repo /\ (Renewed(o).closing <=> o.closing)
      /\ Failed(o).repo = o.repo /\ (Failed(o).closing <=> o.closing)
  BY <1>1 DEF Rest, Expired, Renewed, Failed, Storage
<1>7. CASE (o.closing \/ o.error) /\ storages' = Dequeued(s) /\ UNCHANGED row
  <2>1. MayRenew(s) /\ HasLease(s, Rest(o), row')
    <3>1. HasLease(s, Rest(o), row)
      BY <1>1, <1>2, <1>7, RestHasLease
    <3> QED BY <1>7, <3>1 DEF MayRenew
  <2> QED BY <1>2, <1>3, <1>5, <1>6, <1>7, <2>1, ObjectStep
<1>8. CASE /\ ~o.closing /\ ~o.error /\ Renewable(s)
           /\ storages' = [storages EXCEPT ![s] = Renewed(o)] /\ Renew
  <2>1. MayRenew(s) /\ HasLease(s, Renewed(o), row')
    BY <1>2, <1>8, RenewedHasLease DEF MayRenew
  <2> QED BY <1>2, <1>5, <1>6, <1>8, <2>1, ObjectStep
<1>9. CASE ~Renewable(s) /\ storages' = Lost(s) /\ UNCHANGED row
  <2>1. HasLease(s, Expired(o), row)
    BY <1>2, <1>9, ExpiredHasLease
  <2>2. MayRenew(s) /\ HasLease(s, Expired(o), row')
    BY <1>9, <2>1 DEF MayRenew
  <2> QED BY <1>2, <1>3, <1>5, <1>6, <1>9, <2>2, ObjectStep
<1>10. CASE ~o.closing /\ ~o.error /\ storages' = Rescheduled(s) /\ UNCHANGED row
  <2>1. HasLease(s, Failed(o), row)
    BY <1>2, <1>10, FailedHasLease
  <2>2. MayRenew(s) /\ HasLease(s, Failed(o), row')
    BY <1>10, <2>1 DEF MayRenew
  <2> QED BY <1>2, <1>4, <1>5, <1>6, <1>10, <2>2, ObjectStep
<1> QED
  BY <1>4, <1>7, <1>8, <1>9, <1>10 DEF Heartbeat

-----------------------------------------------------------------------------
(* The repository's operations, and the end of a release. *)

\* Nothing is asked of an object that was given up.
LEMMA GoneHasLease ==
    ASSUME NEW s, NEW r \in Repos, NEW w PROVE HasLease(s, Gone(r), w)
<1>1. /\ Gone(r).closing /\ ~Gone(r).error /\ Gone(r).queue = <<>> /\ Gone(r).timer = NoTimer
  BY DEF Gone, NewStorage
<1> QED
  BY <1>1 DEF HasLease, InUse

\* create() and open() claim a lease that nobody in use has (repo.ts:647).
LEMMA ClaimStep ==
    ASSUME LeaseAssumption, LeaseInv, NEW r \in Repos, Claim(r), exists' = TRUE
    PROVE  LeaseInv'
<1> DEFINE n == Len(storages) + 1
<1>1. /\ Claimable /\ row' = [owner |-> n, life |-> Ttl] /\ storages' = Append(storages, NewStorage(r))
      /\ active' = [active EXCEPT ![r] = @ \cup {n}] /\ UNCHANGED operation /\ committer' = 0
  BY DEF Claim
<1>2. storages \in Seq(Storage) /\ Len(storages) \in Nat /\ NewStorage(r) \in Storage
  BY MadeTypes DEF LeaseInv, TypeOK
<1>3. /\ storages' \in Seq(Storage) /\ Len(storages') = n
      /\ storages'[n] = NewStorage(r) /\ \A d \in StorageIds : storages'[d] = storages[d]
  BY <1>1, <1>2 DEF StorageIds
<1>4. StorageIds' = 1 .. n /\ StorageIds = 1 .. Len(storages) /\ n \notin StorageIds
  BY <1>2, <1>3 DEF StorageIds
<1>5. TypeOK'
  <2>1. active' \in [Repos -> SUBSET StorageIds']
    BY <1>1, <1>4 DEF LeaseInv, TypeOK
  <2>2. row' \in [owner : 0 .. n, life : 0 .. Ttl]
    BY <1>1, <1>2 DEF LeaseAssumption
  <2> QED BY <1>1, <1>2, <1>3, <2>1, <2>2 DEF LeaseInv, TypeOK
<1>6. NewStorage(r).repo = r /\ ~NewStorage(r).closing
  BY DEF NewStorage
<1>8. RowInv'
  BY <1>1, <1>3 DEF RowInv
<1>9. ASSUME NEW d \in StorageIds' PROVE HasLease(d, storages'[d], row')
  <2>1. CASE d = n
    <3>1. /\ ~NewStorage(r).error /\ NewStorage(r).timer = 0 /\ NewStorage(r).failed = 0
      BY DEF NewStorage
    <3>2. SinceBeat(NewStorage(r)) = 0 /\ NewStorage(r).timer # NoTimer
      BY <3>1 DEF SinceBeat, NoTimer
    <3>3. Ttl \in Nat /\ Ttl > 0 /\ Interval \in Nat
      BY DEF LeaseAssumption
    <3>4. row'.owner = d /\ row'.life = Ttl
      BY <1>1, <2>1
    <3>5. row'.life + NewStorage(r).failed * Interval + SinceBeat(NewStorage(r)) >= Ttl
      BY <3>1, <3>2, <3>3, <3>4
    <3> QED BY <1>3, <1>6, <2>1, <3>1, <3>2, <3>3, <3>4, <3>5 DEF HasLease
  <2>2. CASE d # n
    <3>1. d \in StorageIds /\ storages'[d] = storages[d] /\ HasLease(d, storages[d], row)
      BY <1>3, <1>4, <2>2 DEF LeaseInv
    <3>2. ~(storages[d].kept /\ (InUse(storages[d]) \/ ~storages[d].closing))
      BY <1>1, <3>1, NobodyInUse
    <3> QED BY <3>1, <3>2 DEF HasLease
  <2> QED BY <2>1, <2>2
<1> QED
  BY <1>5, <1>8, <1>9 DEF LeaseInv

\* A step that changes neither storage objects nor who is active, and gives up a
\* lease only if nobody in use has it.
LEMMA QuietStep ==
    ASSUME LeaseAssumption, LeaseInv, NEW r \in Repos, UNCHANGED <<storages, active>>, committer' = 0,
           NEW op \in {"idle", "close", "delete", "repair"},
           operation' = [operation EXCEPT ![r] = op], exists' \in BOOLEAN,
           ((Claimable \/ row.owner = 0) /\ row' = NoRow) \/ UNCHANGED <<exists, row>>
    PROVE  LeaseInv'
<1>1. row' \in [owner : 0 .. Len(storages), life : 0 .. Ttl] /\ (row' = row \/ row'.owner = 0)
  BY DEF LeaseInv, TypeOK, NoRow, LeaseAssumption
<1>2. TypeOK'
  BY <1>1 DEF LeaseInv, TypeOK, StorageIds
<1>3. RowInv'
  BY <1>1 DEF LeaseInv, RowInv, NoRow
<1>5. ASSUME NEW d \in StorageIds PROVE HasLease(d, storages[d], row')
  <2>1. CASE UNCHANGED <<exists, row>>
    BY <2>1 DEF LeaseInv
  <2>2. CASE Claimable \/ row.owner = 0
    <3>1. ~(storages[d].kept /\ (InUse(storages[d]) \/ ~storages[d].closing))
      BY <2>2, NobodyInUse
    <3>2. HasLease(d, storages[d], row)
      BY DEF LeaseInv
    <3> QED BY <3>1, <3>2 DEF HasLease
  <2> QED BY <2>1, <2>2
<1> QED
  BY <1>2, <1>3, <1>5 DEF LeaseInv, StorageIds

\* The release of an object is queued up behind its writes (repo.ts:687).
LEMMA ReleaseStep ==
    ASSUME LeaseAssumption, LeaseInv, NEW r \in Repos, ReleaseActive(r)
    PROVE  LeaseInv'
<1>1. PICK s \in active[r] : ~storages[s].closing /\ Release(s)
  BY DEF ReleaseActive
<1>2. UNCHANGED <<exists, row, active, operation>> /\ committer' = 0
  BY DEF ReleaseActive
<1> DEFINE o == storages[s]
<1>3. s \in StorageIds /\ o \in Storage /\ HasLease(s, o, row)
  BY DEF LeaseInv, TypeOK, StorageIds
<1>4. storages' = [storages EXCEPT ![s] = Closing(o)]
  BY <1>1, <1>3 DEF Release, Closing, Submitted, LeaseInv, TypeOK, StorageIds
<1>5. Closing(o) \in Storage
  BY <1>3, ObjectTypes
<1>6. /\ storages' \in Seq(Storage) /\ Len(storages') = Len(storages)
      /\ storages'[s] = Closing(o) /\ \A d \in StorageIds : d # s => storages'[d] = storages[d]
  BY <1>3, <1>4, <1>5, UpdatedType DEF LeaseInv
<1>7. /\ Closing(o).repo = o.repo /\ Closing(o).closing /\ (Closing(o).error <=> o.error)
      /\ (Closing(o).kept <=> o.kept) /\ Closing(o).timer = NoTimer
  BY <1>3 DEF Closing, Submitted, Storage
<1>8. StorageIds' = StorageIds
  BY <1>6 DEF StorageIds, LeaseInv, TypeOK
<1>9. TypeOK' /\ RowInv'
  BY <1>2, <1>6, <1>8 DEF LeaseInv, TypeOK, RowInv
<1>10. HasLease(s, Closing(o), row)
  <2>1. InUse(o)
    BY <1>1 DEF InUse
  <2>2. o.kept => ~o.error /\ row.owner = s /\ row.life > 0
    BY <1>3, <2>1 DEF HasLease
  <2> QED BY <1>7, <2>2 DEF HasLease
<1>11. ASSUME NEW d \in StorageIds PROVE HasLease(d, storages'[d], row)
  <2>1. CASE d = s
    BY <1>6, <1>10, <2>1
  <2>2. CASE d # s
    <3>1. storages'[d] = storages[d] /\ HasLease(d, storages[d], row)
      BY <1>6, <2>2 DEF LeaseInv
    <3> QED BY <3>1
  <2> QED BY <2>1, <2>2
<1> QED BY <1>2, <1>8, <1>9, <1>11 DEF LeaseInv

\* Objects that are given up, at the end of a release (repo.ts:365) or with their
\* process, leave the others their lease.
LEMMA GiveUpStep ==
    ASSUME LeaseAssumption, LeaseInv, NEW r \in Repos, NEW G \in SUBSET StorageIds,
           NEW A \in SUBSET StorageIds,
           \A d \in G : storages[d].repo = r,
           storages' = [d \in StorageIds |-> IF d \in G THEN Gone(r) ELSE storages[d]],
           active' = [active EXCEPT ![r] = A],
           UNCHANGED exists, committer' = 0,
           UNCHANGED operation \/ operation' = [operation EXCEPT ![r] = "idle"],
           UNCHANGED row \/ (row.owner \in G /\ row' = NoRow)
    PROVE  LeaseInv'
<1>1. storages \in Seq(Storage) /\ StorageIds = 1 .. Len(storages) /\ Len(storages) \in Nat
  BY DEF LeaseInv, TypeOK, StorageIds
<1>2. Gone(r) \in Storage
  BY MadeTypes
<1>3. \A d \in StorageIds : (IF d \in G THEN Gone(r) ELSE storages[d]) \in Storage
  BY <1>1, <1>2
<1>4. storages' \in Seq(Storage) /\ Len(storages') = Len(storages) /\ StorageIds' = StorageIds
  <2>1. storages' \in [1 .. Len(storages) -> Storage]
    BY <1>1, <1>3
  <2> QED BY <1>1, <2>1 DEF StorageIds
<1>5. row' \in [owner : 0 .. Len(storages), life : 0 .. Ttl] /\ (row' = row \/ row'.owner = 0)
  BY DEF LeaseInv, TypeOK, NoRow, LeaseAssumption
<1>6. TypeOK'
  <2>1. active' \in [Repos -> SUBSET StorageIds']
    BY <1>4 DEF LeaseInv, TypeOK
  <2>2. operation' \in [Repos -> {"idle", "close", "delete", "repair"}]
    BY DEF LeaseInv, TypeOK
  <2>3. exists' \in BOOLEAN /\ committer' \in 0 .. Len(storages)
    BY <1>1 DEF LeaseInv, TypeOK
  <2> QED BY <1>4, <1>5, <2>1, <2>2, <2>3 DEF TypeOK
<1>8. RowInv'
  BY <1>4, <1>5 DEF LeaseInv, RowInv
<1>9. ASSUME NEW d \in StorageIds PROVE HasLease(d, storages'[d], row')
  <2>1. CASE d \in G
    BY <2>1, GoneHasLease
  <2>2. CASE d \notin G
    <3>1. storages'[d] = storages[d] /\ HasLease(d, storages[d], row)
      BY <2>2 DEF LeaseInv
    <3>2. CASE UNCHANGED row
      BY <3>1, <3>2
    <3>3. CASE row.owner \in G
      <4>1. ~(storages[d].kept /\ (InUse(storages[d]) \/ ~storages[d].closing))
        BY <2>2, <3>1, <3>3 DEF HasLease, InUse
      <4> QED BY <3>1, <4>1 DEF HasLease
    <3> QED BY <3>2, <3>3
  <2> QED BY <2>1, <2>2
<1> QED
  BY <1>4, <1>6, <1>8, <1>9 DEF LeaseInv

\* Time passes (the heartbeat's timer and the lease's life).
LEMMA TickStep ==
    ASSUME LeaseAssumption, LeaseInv, Tick
    PROVE  LeaseInv'
<1> DEFINE Later(o) ==
      [o EXCEPT !.timer = IF @ \in 0 .. Interval - 1 THEN @ + 1 ELSE @,
                !.kept = @ /\ o.timer < Interval /\ o.queue = <<>>]
<1>1. storages \in Seq(Storage) /\ StorageIds = 1 .. Len(storages) /\ Len(storages) \in Nat
  BY DEF LeaseInv, TypeOK, StorageIds
<1>2. storages' = [d \in StorageIds |-> Later(storages[d])] /\ UNCHANGED <<exists, active, operation>>
      /\ committer' = 0 /\ row' = [row EXCEPT !.life = IF @ > 0 THEN @ - 1 ELSE 0]
  BY DEF Tick
<1>3. ASSUME NEW o \in Storage
      PROVE  /\ Later(o) \in Storage /\ Later(o).repo = o.repo /\ (Later(o).closing <=> o.closing)
             /\ (Later(o).error <=> o.error) /\ Later(o).queue = o.queue /\ Later(o).failed = o.failed
             /\ Later(o).timer = (IF o.timer \in 0 .. Interval - 1 THEN o.timer + 1 ELSE o.timer)
             /\ (Later(o).kept => o.kept /\ o.timer < Interval /\ o.queue = <<>>)
  <2>1. (IF o.timer \in 0 .. Interval - 1 THEN o.timer + 1 ELSE o.timer) \in NoTimer .. Interval
    BY DEF Storage, NoTimer, LeaseAssumption
  <2>2. (o.kept /\ o.timer < Interval /\ o.queue = <<>>) \in BOOLEAN
    OBVIOUS
  <2> QED BY <2>1, <2>2 DEF Storage
<1> HIDE DEF Later
<1>4. storages' \in Seq(Storage) /\ Len(storages') = Len(storages) /\ StorageIds' = StorageIds
  <2>1. storages' \in [1 .. Len(storages) -> Storage]
    BY <1>1, <1>2, <1>3
  <2> QED BY <1>1, <2>1 DEF StorageIds
<1>5. row \in [owner : 0 .. Len(storages), life : 0 .. Ttl] /\ Ttl \in Nat
  BY DEF LeaseInv, TypeOK, LeaseAssumption
<1>6. row' \in [owner : 0 .. Len(storages), life : 0 .. Ttl] /\ row'.owner = row.owner
      /\ (row.life > 0 => row'.life = row.life - 1)
  BY <1>2, <1>5
<1>7. TypeOK'
  <2>1. /\ exists' \in BOOLEAN /\ committer' \in 0 .. Len(storages)
        /\ active' \in [Repos -> SUBSET StorageIds']
        /\ operation' \in [Repos -> {"idle", "close", "delete", "repair"}]
    BY <1>1, <1>2, <1>4 DEF LeaseInv, TypeOK
  <2> QED BY <1>4, <1>6, <2>1 DEF TypeOK
<1>8. RowInv'
  BY <1>2, <1>4, <1>6 DEF LeaseInv, RowInv
<1>9. ASSUME NEW d \in StorageIds PROVE HasLease(d, storages'[d], row')
  <2> DEFINE o == storages[d]
  <2>1. o \in Storage /\ HasLease(d, o, row) /\ storages'[d] = Later(o)
    BY <1>1, <1>2 DEF LeaseInv
  <2>2. /\ (Later(o).closing <=> o.closing)
        /\ (Later(o).error <=> o.error) /\ Later(o).queue = o.queue /\ Later(o).failed = o.failed
        /\ Later(o).timer = (IF o.timer \in 0 .. Interval - 1 THEN o.timer + 1 ELSE o.timer)
        /\ (Later(o).kept => o.kept /\ o.timer < Interval /\ o.queue = <<>>)
    BY <1>3, <2>1
  <2>3. Later(o).timer = NoTimer <=> o.timer = NoTimer
    BY <2>1, <2>2 DEF NoTimer, Storage, LeaseAssumption
  <2>4. BeatPending(o) => BeatPending(Later(o))
    BY <2>2 DEF BeatPending
  <2>5. ASSUME Later(o).kept, ~o.closing
        PROVE  /\ row'.life + o.failed * Interval + SinceBeat(Later(o)) >= Ttl
               /\ row'.owner = d /\ row'.life > 0
    <3>1. o.kept /\ o.queue = <<>> /\ ~o.error /\ InUse(o) /\ row.owner = d /\ row.life > 0
      BY <2>1, <2>2, <2>5 DEF HasLease, InUse
    <3>2. o.timer # NoTimer
      BY <2>1, <2>5, <3>1 DEF HasLease, BeatPending
    <3>3. o.timer \in 0 .. Interval - 1 /\ Later(o).timer = o.timer + 1 /\ Interval \in Nat
      BY <2>1, <2>2, <2>5, <3>2 DEF Storage, NoTimer, LeaseAssumption
    <3>4. SinceBeat(o) = o.timer /\ SinceBeat(Later(o)) = o.timer + 1
      BY <2>3, <3>2, <3>3 DEF SinceBeat
    <3> DEFINE k == o.failed * Interval
    <3>5. k \in Nat /\ k + Interval < Ttl
      <4>1. o.failed \in 0 .. Tolerated
        BY <2>1 DEF Storage
      <4> QED BY <4>1, FailuresFit
    <3>6. row.life + k + o.timer >= Ttl
      BY <2>1, <2>5, <3>1, <3>4 DEF HasLease
    <3>7. row'.life = row.life - 1 /\ row'.owner = d
      BY <1>6, <3>1
    <3> HIDE DEF k
    <3>8. row'.life + k + (o.timer + 1) >= Ttl /\ row'.life > 0
      <4> DEFINE life == row.life
                 timer == o.timer
      <4>1. life \in Nat /\ timer \in Nat /\ Ttl \in Nat /\ Interval \in Nat
        BY <1>5, <3>3
      <4>2. timer + 1 <= Interval /\ life + k + timer >= Ttl
        BY <3>3, <3>6
      <4> HIDE DEF life, timer
      <4>3. (life - 1) + k + (timer + 1) >= Ttl /\ life - 1 > 0
        BY ONLY <3>5, <4>1, <4>2
      <4> QED BY <3>7, <4>3 DEF life, timer
    <3>9. row'.life + o.failed * Interval + SinceBeat(Later(o)) >= Ttl
      BY <3>4, <3>8 DEF k
    <3> QED BY <3>7, <3>8, <3>9
  <2>6. Later(o).kept => ~o.error
    BY <2>1, <2>2 DEF HasLease
  <2>7. Later(o).kept /\ InUse(Later(o)) => ~o.closing
    BY <2>2 DEF InUse
  <2> QED BY <2>1, <2>2, <2>3, <2>4, <2>5, <2>6, <2>7 DEF HasLease
<1> QED
  BY <1>2, <1>4, <1>7, <1>8, <1>9 DEF LeaseInv

\* At first there is no storage object.
LEMMA Initially == ASSUME LeaseAssumption, Init PROVE LeaseInv
<1>1. StorageIds = {} /\ Len(storages) = 0 /\ storages \in Seq(Storage)
  BY DEF Init, StorageIds
<1>2. TypeOK
  <2>1. row \in [owner : 0 .. Len(storages), life : 0 .. Ttl]
    <3>1. 0 \in 0 .. Len(storages) /\ 0 \in 0 .. Ttl
      BY <1>1 DEF LeaseAssumption
    <3>2. row = [owner |-> 0, life |-> 0]
      BY DEF Init, NoRow
    <3> QED BY <3>1, <3>2
  <2>2. /\ exists \in BOOLEAN /\ active \in [Repos -> SUBSET StorageIds]
        /\ operation \in [Repos -> {"idle", "close", "delete", "repair"}]
        /\ committer \in 0 .. Len(storages)
    <3>1. 0 \in 0 .. Len(storages)
      BY <1>1
    <3>2. active \in [Repos -> SUBSET StorageIds]
      BY DEF Init
    <3>3. operation \in [Repos -> {"idle", "close", "delete", "repair"}]
      BY DEF Init
    <3> QED BY <3>1, <3>2, <3>3 DEF Init
  <2> QED BY <1>1, <2>1, <2>2 DEF TypeOK
<1>3. RowInv
  BY <1>1 DEF Init, RowInv, NoRow
<1> QED
  BY <1>1, <1>2, <1>3 DEF LeaseInv

\* The release of an object gives up the lease it may have (repo.ts:365).
LEMMA ReleasedStep ==
    ASSUME LeaseAssumption, LeaseInv, NEW s \in StorageIds, Released(s)
    PROVE  LeaseInv'
<1> DEFINE r == storages[s].repo
           G == {s}
           A == active[r] \ {s}
<1>1. r \in Repos /\ G \in SUBSET StorageIds /\ \A d \in G : storages[d].repo = r
  <2>1. storages[s] \in Storage
    BY DEF LeaseInv, TypeOK, StorageIds
  <2> QED BY <2>1 DEF Storage
<1>2. storages' = [storages EXCEPT ![s] = Gone(r)]
  BY DEF Released
<1>3. storages' = [d \in StorageIds |-> IF d \in G THEN Gone(r) ELSE storages[d]]
  BY <1>2 DEF LeaseInv, TypeOK, StorageIds
<1>4. /\ active' = [active EXCEPT ![r] = A] /\ UNCHANGED exists /\ committer' = 0
      /\ UNCHANGED operation \/ operation' = [operation EXCEPT ![r] = "idle"]
      /\ A \in SUBSET StorageIds
  BY <1>1 DEF Released, LeaseInv, TypeOK
<1>5. UNCHANGED row \/ (row.owner \in G /\ row' = NoRow)
  BY DEF Released, Unclaim
<1> HIDE DEF r, G, A
<1> QED
  BY <1>1, <1>3, <1>4, <1>5, GiveUpStep

\* With its process every object it had is given up, and no lease.
LEMMA CrashStep ==
    ASSUME LeaseAssumption, LeaseInv, NEW r \in Repos, Crash(r)
    PROVE  LeaseInv'
<1> DEFINE G == {d \in StorageIds : storages[d].repo = r}
<1>1. G \in SUBSET StorageIds /\ \A d \in G : storages[d].repo = r
  OBVIOUS
<1>2. storages' = [d \in StorageIds |-> IF d \in G THEN Gone(r) ELSE storages[d]]
  BY DEF Crash
<1>3. /\ active' = [active EXCEPT ![r] = {}] /\ UNCHANGED <<exists, row>> /\ committer' = 0
      /\ operation' = [operation EXCEPT ![r] = "idle"]
  BY DEF Crash
<1> HIDE DEF G
<1> QED
  BY <1>1, <1>2, <1>3, GiveUpStep

\* Every operation of a repository.
LEMMA RepoNext ==
    ASSUME LeaseAssumption, LeaseInv, NEW r \in Repos, RepoStep(r)
    PROVE  LeaseInv'
<1>1. CASE Create(r)
  BY <1>1, ClaimStep DEF Create
<1>2. CASE Open(r)
  <2>1. exists' = TRUE
    BY <1>2 DEF Open, LeaseInv, TypeOK
  <2> QED BY <1>2, <2>1, ClaimStep DEF Open
<1>3. CASE Delete(r)
  <2>1. ~exists => row.owner = 0
    BY DEF LeaseInv, RowInv
  <2>2. exists' \in BOOLEAN
    BY <1>3 DEF Delete, LeaseInv, TypeOK
  <2> QED BY <1>3, <2>1, <2>2, QuietStep DEF Delete
<1>4. CASE RepairBranchCache(r)
  <2>1. exists' \in BOOLEAN
    BY <1>4 DEF RepairBranchCache, LeaseInv, TypeOK
  <2> QED BY <1>4, <2>1, QuietStep DEF RepairBranchCache
<1>5. CASE Closed(r)
  <2>1. exists' \in BOOLEAN
    BY <1>5 DEF Closed, LeaseInv, TypeOK
  <2> QED BY <1>5, <2>1, QuietStep DEF Closed
<1>6. CASE Crash(r)
  BY <1>6, CrashStep
<1>7. ASSUME NEW op \in {"close", "delete", "repair"}, Begin(r, op) PROVE LeaseInv'
  <2>1. exists' \in BOOLEAN
    BY <1>7 DEF Begin, LeaseInv, TypeOK
  <2> QED BY <1>7, <2>1, QuietStep DEF Begin
<1>8. CASE ReleaseActive(r)
  BY <1>8, ReleaseStep
<1> QED
  BY <1>1, <1>2, <1>3, <1>4, <1>5, <1>6, <1>7, <1>8 DEF RepoStep

\* Every step.
LEMMA NextStep == ASSUME LeaseAssumption, LeaseInv, [Next]_vars PROVE LeaseInv'
<1>1. ASSUME NEW r \in Repos, RepoStep(r) PROVE LeaseInv'
  BY <1>1, RepoNext
<1>2. ASSUME NEW s \in StorageIds, StorageStep(s) PROVE LeaseInv'
  BY <1>2, EnqueueStep, WriteStep, HeartbeatStep, ReleasedStep DEF StorageStep
<1>3. CASE Tick
  BY <1>3, TickStep
<1>4. CASE UNCHANGED vars
  BY <1>4 DEF vars, LeaseInv, TypeOK, RowInv, StorageIds, HasLease
<1> QED
  BY <1>1, <1>2, <1>3, <1>4 DEF Next

\* The invariant of the specification (repo.ts, writer-leases.ts).
LEMMA Invariant == ASSUME LeaseAssumption PROVE Spec => []LeaseInv
<1>1. Init => LeaseInv
  BY Initially
<1>2. LeaseInv /\ [Next]_vars => LeaseInv'
  BY NextStep
<1> QED
  BY <1>1, <1>2, PTL DEF Spec

\* The row, the storage objects and the operations of the repositories keep their
\* types (repo.ts, writer-leases.ts).
THEOREM TypeCorrect == ASSUME LeaseAssumption PROVE Spec => []TypeOK
<1>1. LeaseInv => TypeOK
  BY DEF LeaseInv
<1> QED
  BY <1>1, Invariant, PTL

\* A storage whose lease was claimed by another commits nothing any more
\* (renewWriterLease in the transaction of every write).
THEOREM StaleOwnersFenced == ASSUME LeaseAssumption PROVE Spec => []StaleOwnerFenced
<1>1. Init => StaleOwnerFenced
  BY DEF Init, StaleOwnerFenced
<1>2. LeaseInv /\ StaleOwnerFenced /\ [Next]_vars => StaleOwnerFenced'
  <2> SUFFICES ASSUME LeaseInv, StaleOwnerFenced, [Next]_vars PROVE StaleOwnerFenced'
    OBVIOUS
  <2>1. ASSUME NEW s \in StorageIds, Write(s) PROVE StaleOwnerFenced'
    <3>1. storages' = Dequeued(s) \/ storages' = Lost(s)
      BY <2>1 DEF Write
    <3>2. Len(storages') = Len(storages)
      BY <3>1 DEF Dequeued, Lost, LeaseInv, TypeOK
    <3>3. committer' # 0 => committer' = s /\ row.owner = s
      BY <2>1 DEF Write, Renewable
    <3>4. row.owner = 0 \/ row.owner = Len(storages)
      BY DEF LeaseInv, RowInv
    <3>5. s # 0
      BY DEF LeaseInv, TypeOK, StorageIds
    <3> QED BY <3>2, <3>3, <3>4, <3>5 DEF StaleOwnerFenced
  <2>2. ASSUME NEW r \in Repos, RepoStep(r) PROVE committer' = 0
    BY <2>2 DEF RepoStep, Create, Open, Claim, Delete, RepairBranchCache, Closed, Crash, Begin,
               ReleaseActive
  <2>3. ASSUME NEW s \in StorageIds, StorageStep(s), ~Write(s) PROVE committer' = 0
    BY <2>3 DEF StorageStep, Submit, HeartbeatDue, Heartbeat, Released
  <2>4. Tick => committer' = 0
    BY DEF Tick
  <2>5. UNCHANGED vars => StaleOwnerFenced'
    BY DEF vars, StaleOwnerFenced
  <2>6. committer' = 0 => StaleOwnerFenced'
    BY DEF StaleOwnerFenced
  <2> QED BY <2>1, <2>2, <2>3, <2>4, <2>5, <2>6 DEF Next
<1> QED
  BY <1>1, <1>2, Invariant, PTL DEF Spec

\* A process that keeps up keeps its lease, whatever tolerated number of heartbeats
\* in a row fail (scheduleHeartbeat).
THEOREM PromptOwnersKeep == ASSUME LeaseAssumption PROVE Spec => []PromptOwnerKeepsLease
<1>1. LeaseInv => PromptOwnerKeepsLease
  BY DEF LeaseInv, HasLease, PromptOwnerKeepsLease
<1> QED
  BY <1>1, Invariant, PTL
=============================================================================
