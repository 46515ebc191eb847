---------------------- MODULE FileMutationQueue_proofs ----------------------
(***************************************************************************)
(* Proofs about the per-file mutation queue, for any set of operations and  *)
(* any file system: types, the serialization of operations with one key,    *)
(* and what it is worth when paths are canonical.                           *)
(***************************************************************************)
EXTENDS FileMutationQueue, FiniteSetTheorems, WellFoundedInduction, TLAPS

\* The key of an operation names a path, whatever the file system says
\* (getMutationQueueKey returns a path).
LEMMA KeyOfType ==
    ASSUME TypeOK, NEW p \in Paths
    PROVE  KeyOf(p) \in Paths
BY QueueAssumption DEF TypeOK, KeyOf

\* Type correctness of the queue's state and of the files' (every variable of
\* the specification).
THEOREM TypeCorrect == Spec => []TypeOK
<1>1. Init => TypeOK
  BY DEF Init, TypeOK, Phase
<1>2. TypeOK /\ [Next]_vars => TypeOK'
  <2> SUFFICES ASSUME TypeOK, [Next]_vars PROVE TypeOK'
    OBVIOUS
  <2> USE DEF TypeOK, Phase, Active
  <2>1. ASSUME NEW o \in Ops, Call(o) PROVE TypeOK'
    BY <2>1 DEF Call, fileVars
  <2>2. ASSUME NEW o \in Ops, ComputeKey(o) PROVE TypeOK'
    <3>1. KeyOf(path[o]) \in Paths
      BY KeyOfType
    <3> QED BY <2>2, <3>1 DEF ComputeKey, queueVars, fileVars
  <2>3. ASSUME NEW o \in Ops, RegistrationFails(o) PROVE TypeOK'
    BY <2>3 DEF RegistrationFails, AtHead, fileVars
  <2>4. ASSUME NEW o \in Ops, Register(o) PROVE TypeOK'
    BY <2>4 DEF Register, AtHead, fileVars
  <2>5. ASSUME NEW o \in Ops, Start(o) PROVE TypeOK'
    BY <2>5 DEF Start, queueVars, fileVars
  <2>6. ASSUME NEW o \in Ops, Read(o) PROVE TypeOK'
    BY <2>6, QueueAssumption DEF Read, File, queueVars
  <2>7. ASSUME NEW o \in Ops, Write(o) \/ Tear(o) PROVE TypeOK'
    <3>1. CASE Write(o)
      BY <3>1, QueueAssumption DEF Write, File, queueVars
    <3>2. CASE Tear(o)
      BY <3>2, QueueAssumption DEF Tear, File, queueVars
    <3> QED BY <2>7, <3>1, <3>2
  <2>8. ASSUME NEW o \in Ops, Finish(o) PROVE TypeOK'
    BY <2>8 DEF Finish, fileVars
  <2>9. CASE UNCHANGED vars
    BY <2>9 DEF vars, opVars, queueVars, fileVars
  <2> QED
    BY <2>1, <2>2, <2>3, <2>4, <2>5, <2>6, <2>7, <2>8, <2>9 DEF Next, Settle
<1> QED
  BY <1>1, <1>2, PTL DEF Spec

-----------------------------------------------------------------------------
(* The inductive invariant behind Serialized.                               *)

\* Earlier(q, o): q was registered before o under the same key.
Earlier(q, o) == 0 < rank[q] /\ rank[q] < rank[o] /\ key[q] = key[o]

\* Exactly the operations that went through the chain have a rank, their own.
RankInv ==
    /\ \A o \in Ops : rank[o] <= registered
    /\ \A o \in Ops : rank[o] > 0 <=> phase[o] \in {"waiting", "done"} \cup Active
    /\ \A o, q \in Ops : rank[o] > 0 /\ rank[o] = rank[q] => o = q

\* The map holds the last operation registered under a key until it is done;
\* without an entry, all of them are.
TailInv ==
    \A p \in Paths :
        IF tail[p] = NoOp
        THEN \A o \in Ops : rank[o] > 0 /\ key[o] = p => phase[o] = "done"
        ELSE /\ rank[tail[p]] > 0 /\ key[tail[p]] = p /\ phase[tail[p]] # "done"
             /\ \A o \in Ops : rank[o] > 0 /\ key[o] = p => rank[o] <= rank[tail[p]]

\* An operation waits for the one right before it, or for none if all are done.
PredInv ==
    \A o \in Ops :
        rank[o] > 0 =>
            IF pred[o] = NoOp
            THEN \A q \in Ops : Earlier(q, o) => phase[q] = "done"
            ELSE /\ Earlier(pred[o], o)
                 /\ \A q \in Ops : Earlier(q, o) => rank[q] <= rank[pred[o]]

QueueInv == TypeOK /\ RankInv /\ TailInv /\ PredInv /\ Serialized

\* Registration puts the call behind the last one of its key and nothing else
\* changes (file-mutation-queue.ts:35).
LEMMA RegisterStep ==
    ASSUME QueueInv, TypeOK', NEW o \in Ops, Register(o)
    PROVE  QueueInv'
<1> DEFINE k == key[o]
<1> USE DEF QueueInv, TypeOK
<1>1. /\ k \in Paths /\ phase[o] = "keyed" /\ rank[o] = 0
      /\ rank' = [rank EXCEPT ![o] = registered + 1]
      /\ phase' = [phase EXCEPT ![o] = "waiting"]
      /\ pred' = [pred EXCEPT ![o] = tail[k]]
      /\ tail' = [tail EXCEPT ![k] = o]
      /\ registered' = registered + 1
      /\ key' = key
  <2>1. phase[o] = "keyed" /\ rank[o] = 0
    <3>1. phase[o] = "keyed"
      BY DEF Register
    <3>2. phase[o] \notin {"waiting", "done"} \cup Active
      BY <3>1 DEF Active
    <3>3. rank[o] \in Nat /\ ~(rank[o] > 0)
      BY <3>2 DEF RankInv
    <3> QED BY <3>1, <3>3
  <2>2. k \in Paths
    OBVIOUS
  <2>3. key' = key /\ registered' = registered + 1
    BY DEF Register
  <2> QED BY ONLY Register(o), <2>1, <2>2, <2>3 DEF Register
<1>2. RankInv'
  BY <1>1 DEF RankInv, Active
<1>3. \A q \in Ops : rank[q] > 0 => rank'[q] = rank[q] /\ rank[q] < rank'[o] /\ q # o
                                     /\ phase'[q] = phase[q]
  BY <1>1 DEF RankInv
<1>4. \A q \in Ops : rank'[q] > 0 /\ q # o => rank[q] > 0
  BY <1>1
<1>5. TailInv'
  <2> SUFFICES ASSUME NEW p \in Paths
               PROVE  TailInv!(p)'
    BY DEF TailInv
  <2>1. CASE p = k
    BY <2>1, <1>1, <1>3, <1>4, QueueAssumption DEF TailInv
  <2>2. CASE p # k
    <3>1. tail'[p] = tail[p]
      BY <2>2, <1>1
    <3>2. \A q \in Ops : key[q] = p => q # o
      BY <2>2
    <3> QED
      BY <2>2, <3>1, <3>2, <1>1, <1>3, <1>4 DEF TailInv
  <2> QED BY <2>1, <2>2
<1>6. PredInv'
  <2> SUFFICES ASSUME NEW r \in Ops, rank'[r] > 0
               PROVE  IF pred'[r] = NoOp
                      THEN \A q \in Ops : Earlier(q, r)' => phase'[q] = "done"
                      ELSE /\ Earlier(pred[r], r)'
                           /\ \A q \in Ops : Earlier(q, r)' => rank'[q] <= rank'[pred'[r]]
    BY DEF PredInv
  <2>1. CASE r = o
    <3>1. pred'[r] = tail[k]
      BY <2>1, <1>1
    <3>2. \A q \in Ops : Earlier(q, r)' => rank[q] > 0 /\ key[q] = k /\ q # o
      BY <2>1, <1>1, <1>4 DEF Earlier
    <3> QED
      BY <2>1, <3>1, <3>2, <1>1, <1>3 DEF TailInv, Earlier
  <2>2. CASE r # o
    <3>1. pred'[r] = pred[r] /\ rank[r] > 0 /\ rank'[r] = rank[r]
      BY <2>2, <1>1, <1>3, <1>4
    <3>2. \A q \in Ops : Earlier(q, r)' => q # o /\ Earlier(q, r)
      BY <3>1, <1>1, <1>3, <1>4 DEF Earlier
    <3>3. \A q \in Ops : Earlier(q, r) => Earlier(q, r)' /\ phase'[q] = phase[q]
                                          /\ rank'[q] = rank[q]
      BY <3>1, <1>1, <1>3 DEF Earlier
    <3> QED
      BY <3>1, <3>2, <3>3 DEF PredInv
  <2> QED BY <2>1, <2>2
<1>7. Serialized'
  <2> SUFFICES ASSUME NEW q \in Ops, NEW r \in Ops,
                      0 < rank'[q], rank'[q] < rank'[r], key[q] = key[r], phase'[r] # "waiting"
               PROVE  phase'[q] = "done"
    BY <1>1 DEF Serialized
  <2>1. r # o /\ rank'[r] \in Nat /\ rank'[q] \in Nat /\ rank'[o] \in Nat
    BY <1>1
  <2>2. rank[r] > 0 /\ rank'[r] = rank[r] /\ phase'[r] = phase[r] /\ rank'[r] < rank'[o]
    BY <2>1, <1>3, <1>4
  <2>3. q # o
    BY <2>1, <2>2
  <2>4. rank[q] > 0 /\ rank'[q] = rank[q] /\ phase'[q] = phase[q]
    BY <2>3, <1>3, <1>4
  <2> QED
    BY <2>2, <2>4 DEF Serialized
<1> QED
  BY <1>2, <1>5, <1>6, <1>7

\* The calls that are not at the end of a wait leave the queue as it is: they
\* move through the chain or work on the file (file-mutation-queue.ts:33, 54).
LEMMA QuietStep ==
    ASSUME QueueInv, TypeOK', UNCHANGED <<tail, pred, rank, registered>>,
           \A o \in Ops : rank[o] > 0 =>
               /\ key'[o] = key[o]
               /\ phase'[o] = phase[o] \/ (phase[o] \in Active /\ phase'[o] \in Active),
           \A o \in Ops : rank[o] = 0 => phase'[o] \notin {"waiting", "done"} \cup Active
    PROVE  QueueInv'
<1>1. TypeOK /\ RankInv /\ TailInv /\ PredInv /\ Serialized
  BY DEF QueueInv
<1>2. /\ \A o \in Ops : rank[o] \in Nat /\ pred[o] \in Ops \cup {NoOp}
      /\ \A p \in Paths : tail[p] \in Ops \cup {NoOp}
      /\ tail' = tail /\ pred' = pred /\ rank' = rank /\ registered' = registered
  BY <1>1 DEF TypeOK
<1>3. ASSUME NEW o \in Ops, rank[o] > 0
      PROVE  /\ key'[o] = key[o]
             /\ phase'[o] = "done" <=> phase[o] = "done"
             /\ phase'[o] = "waiting" <=> phase[o] = "waiting"
  <2>1. /\ key'[o] = key[o]
        /\ phase'[o] = phase[o] \/ (phase[o] \in Active /\ phase'[o] \in Active)
    BY <1>3
  <2>2. CASE phase'[o] = phase[o]
    BY <2>1, <2>2
  <2>3. CASE phase[o] \in Active /\ phase'[o] \in Active
    BY <2>1, <2>3 DEF Active
  <2> QED BY <2>1, <2>2, <2>3
<1>4. RankInv'
  <2>1. ASSUME NEW o \in Ops
        PROVE  rank[o] > 0 <=> phase'[o] \in {"waiting", "done"} \cup Active
    <3>1. CASE rank[o] > 0
      <4>1. phase[o] \in {"waiting", "done"} \cup Active
        BY <3>1, <1>1 DEF RankInv
      <4> QED BY <3>1, <4>1
    <3>2. CASE rank[o] = 0
      BY <3>2
    <3> QED BY <3>1, <3>2, <1>2
  <2> QED BY <2>1, <1>1, <1>2 DEF RankInv
<1>5. \A q, o \in Ops : Earlier(q, o)' <=> Earlier(q, o)
  BY <1>2, <1>3 DEF Earlier
<1>6. TailInv'
  BY <1>1, <1>2, <1>3 DEF TailInv
<1>7. PredInv'
  <2>1. ASSUME NEW o \in Ops, rank[o] > 0
        PROVE  IF pred[o] = NoOp
               THEN \A q \in Ops : Earlier(q, o)' => phase'[q] = "done"
               ELSE /\ Earlier(pred[o], o)'
                    /\ \A q \in Ops : Earlier(q, o)' => rank[q] <= rank[pred[o]]
    <3>1. \A q \in Ops : Earlier(q, o) => rank[q] > 0
      BY DEF Earlier
    <3>2. CASE pred[o] = NoOp
      BY <2>1, <3>1, <3>2, <1>1, <1>3, <1>5 DEF PredInv
    <3>3. CASE pred[o] # NoOp
      BY <2>1, <3>3, <1>1, <1>2, <1>5 DEF PredInv
    <3> QED BY <3>2, <3>3
  <2> QED BY <2>1, <1>2 DEF PredInv, Earlier
<1>8. Serialized'
  <2>1. ASSUME NEW q \in Ops, NEW r \in Ops,
               0 < rank[q], rank[q] < rank[r], key'[q] = key'[r], phase'[r] # "waiting"
        PROVE  phase'[q] = "done"
    <3>1. rank[q] > 0 /\ rank[r] > 0
      BY <2>1, <1>2
    <3>2. key[q] = key[r] /\ phase[r] # "waiting"
      BY <2>1, <3>1, <1>3
    <3> QED BY <2>1, <3>1, <3>2, <1>1, <1>3 DEF Serialized
  <2> QED BY <2>1, <1>2 DEF Serialized
<1> QED
  BY <1>4, <1>6, <1>7, <1>8 DEF QueueInv

\* An operation starts only when all earlier ones of its key are done.
LEMMA StartStep ==
    ASSUME QueueInv, TypeOK', NEW o \in Ops, Start(o)
    PROVE  QueueInv'
<1> USE DEF QueueInv, TypeOK
<1>1. /\ phase[o] = "waiting" /\ pred[o] \in Released
      /\ phase' = [phase EXCEPT ![o] = "running"]
      /\ UNCHANGED <<key, tail, pred, rank, registered>>
  BY DEF Start, queueVars
<1>2. rank[o] \in Nat /\ rank[o] > 0
  BY <1>1 DEF RankInv
<1>3. \A q \in Ops : Earlier(q, o) => phase[q] = "done"
  <2> SUFFICES ASSUME NEW q \in Ops, Earlier(q, o) PROVE phase[q] = "done"
    OBVIOUS
  <2>1. CASE pred[o] = NoOp
    BY <2>1, <1>2 DEF PredInv
  <2>2. CASE pred[o] # NoOp
    <3> DEFINE p == pred[o]
    <3>1. p \in Ops /\ phase[p] = "done"
      BY <2>2, <1>1 DEF Released
    <3>2. Earlier(p, o) /\ rank[q] <= rank[p]
      BY <2>2, <1>2 DEF PredInv
    <3>3. CASE rank[q] = rank[p]
      BY <3>1, <3>2, <3>3 DEF RankInv, Earlier
    <3>4. CASE rank[q] # rank[p]
      <4>1. rank[q] < rank[p] /\ 0 < rank[q] /\ key[q] = key[p]
        BY <3>1, <3>2, <3>4 DEF Earlier
      <4> QED BY <4>1, <3>1 DEF Serialized
    <3> QED BY <3>3, <3>4
  <2> QED BY <2>1, <2>2
<1>4. RankInv'
  BY <1>1, <1>2 DEF RankInv, Active
<1>5. TailInv'
  BY <1>1 DEF TailInv
<1>6. PredInv'
  BY <1>1 DEF PredInv, Earlier
<1>7. Serialized'
  BY <1>1, <1>3 DEF Serialized, Earlier
<1> QED
  BY <1>4, <1>5, <1>6, <1>7

\* When the last operation of a key is done, all of them are: the entry may go
\* (file-mutation-queue.ts:57).
LEMMA FinishStep ==
    ASSUME QueueInv, TypeOK', NEW o \in Ops, Finish(o)
    PROVE  QueueInv'
<1> DEFINE k == key[o]
<1>1. TypeOK /\ RankInv /\ TailInv /\ PredInv /\ Serialized
  BY DEF QueueInv
<1>2. /\ \A q \in Ops : rank[q] \in Nat /\ key[q] \in Paths /\ pred[q] \in Ops \cup {NoOp}
      /\ \A p \in Paths : tail[p] \in Ops \cup {NoOp}
      /\ k \in Paths
  BY <1>1 DEF TypeOK
<1>3. /\ phase[o] \in Active /\ rank[o] > 0
      /\ pred' = pred /\ rank' = rank /\ registered' = registered /\ key' = key
      /\ phase'[o] = "done"
      /\ \A q \in Ops : q # o => phase'[q] = phase[q]
  BY <1>1 DEF Finish, TypeOK, RankInv
<1>4. \A q \in Ops : phase[q] = "done" => phase'[q] = "done"
  BY <1>3
<1>5. RankInv'
  BY <1>1, <1>3 DEF RankInv
<1>6. TailInv'
  <2>1. ASSUME NEW p \in Paths, tail'[p] = NoOp,
               NEW q \in Ops, rank[q] > 0, key[q] = p
        PROVE  phase'[q] = "done"
    <3>1. CASE tail[p] = NoOp
      BY <2>1, <3>1, <1>1, <1>4 DEF TailInv
    <3>2. CASE tail[p] # NoOp
      <4>1. tail[p] = o /\ k = p
        BY <2>1, <3>2, <1>1, <1>2 DEF Finish, TypeOK
      <4>2. rank[q] <= rank[o]
        BY <2>1, <3>2, <4>1, <1>1 DEF TailInv
      <4>3. CASE rank[q] = rank[o]
        BY <2>1, <4>3, <1>1, <1>3 DEF RankInv
      <4>4. CASE rank[q] < rank[o]
        <5>1. phase[o] # "waiting"
          BY <1>3 DEF Active
        <5>2. phase[q] = "done"
          BY <2>1, <4>1, <4>4, <5>1, <1>1 DEF Serialized
        <5> QED BY <5>2, <1>4
      <4> QED BY <4>2, <4>3, <4>4, <1>2
    <3> QED BY <3>1, <3>2
  <2>2. ASSUME NEW p \in Paths, tail'[p] # NoOp
        PROVE  tail'[p] = tail[p] /\ tail[p] # o
    <3>1. CASE tail[k] = o
      <4>1. p # k /\ tail'[p] = tail[p]
        BY <2>2, <3>1, <1>1, <1>2 DEF Finish, TypeOK
      <4>2. tail[p] # o
        BY <4>1, <1>1, <1>2, QueueAssumption DEF TailInv
      <4> QED BY <4>1, <4>2
    <3>2. CASE tail[k] # o
      <4>1. tail'[p] = tail[p]
        BY <3>2 DEF Finish
      <4>2. tail[p] # o
        BY <3>2, <1>1, <1>2, QueueAssumption DEF TailInv
      <4> QED BY <4>1, <4>2
    <3> QED BY <3>1, <3>2
  <2>3. ASSUME NEW p \in Paths, tail'[p] # NoOp
        PROVE  /\ rank[tail'[p]] > 0 /\ key[tail'[p]] = p /\ phase'[tail'[p]] # "done"
               /\ \A q \in Ops : rank[q] > 0 /\ key[q] = p => rank[q] <= rank[tail'[p]]
    <3>1. tail'[p] = tail[p] /\ tail[p] # o /\ tail[p] # NoOp
      BY <2>2, <2>3
    <3>2. tail[p] \in Ops
      BY <3>1, <1>2
    <3> QED BY <3>1, <3>2, <1>1, <1>3 DEF TailInv
  <2> QED BY <2>1, <2>3, <1>3 DEF TailInv
<1>7. \A q, r \in Ops : Earlier(q, r)' <=> Earlier(q, r)
  BY <1>3 DEF Earlier
<1>8. PredInv'
  <2>1. ASSUME NEW r \in Ops, rank[r] > 0
        PROVE  IF pred[r] = NoOp
               THEN \A q \in Ops : Earlier(q, r) => phase'[q] = "done"
               ELSE /\ Earlier(pred[r], r)
                    /\ \A q \in Ops : Earlier(q, r) => rank[q] <= rank[pred[r]]
    BY <2>1, <1>1, <1>4 DEF PredInv
  <2> QED BY <2>1, <1>3 DEF PredInv, Earlier
<1>9. Serialized'
  <2>1. ASSUME NEW q \in Ops, NEW r \in Ops,
               0 < rank[q], rank[q] < rank[r], key[q] = key[r], phase'[r] # "waiting"
        PROVE  phase'[q] = "done"
    <3>1. phase[r] # "waiting"
      BY <2>1, <1>3 DEF Active
    <3> QED BY <2>1, <3>1, <1>1, <1>4 DEF Serialized
  <2> QED BY <2>1, <1>3 DEF Serialized
<1> QED
  BY <1>5, <1>6, <1>8, <1>9 DEF QueueInv

\* The strengthened invariant holds of the queue in every state.
THEOREM QueueInvariant == Spec => []QueueInv
<1>1. Init => QueueInv
  <2> SUFFICES ASSUME Init PROVE QueueInv
    OBVIOUS
  <2>1. TypeOK
    BY DEF Init, TypeOK, Phase
  <2>2. RankInv /\ TailInv /\ PredInv /\ Serialized
    BY DEF Init, RankInv, TailInv, PredInv, Serialized, Active
  <2> QED BY <2>1, <2>2 DEF QueueInv
<1>2. QueueInv /\ TypeOK' /\ [Next]_vars => QueueInv'
  <2> SUFFICES ASSUME QueueInv, TypeOK', [Next]_vars PROVE QueueInv'
    OBVIOUS
  <2>1. TypeOK /\ RankInv
    BY DEF QueueInv
  <2>2. ASSUME NEW o \in Ops, Call(o) \/ ComputeKey(o) \/ RegistrationFails(o) PROVE QueueInv'
    <3>1. phase[o] \in {"new", "queued"} /\ rank[o] = 0
      <4>1. phase[o] \in {"new", "queued"}
        BY <2>2 DEF Call, ComputeKey, RegistrationFails
      <4>2. phase[o] \notin {"waiting", "done"} \cup Active
        BY <4>1 DEF Active
      <4>3. rank[o] \in Nat /\ ~(rank[o] > 0)
        BY <4>2, <2>1 DEF RankInv, TypeOK
      <4> QED BY <4>1, <4>3
    <3>2. /\ UNCHANGED <<tail, pred, rank, registered>>
          /\ phase'[o] \in {"queued", "keyed", "rejected"}
          /\ \A q \in Ops : q # o => phase'[q] = phase[q] /\ key'[q] = key[q]
      BY <2>1, <2>2 DEF Call, ComputeKey, RegistrationFails, TypeOK, queueVars
    <3>3. \A q \in Ops : rank[q] > 0 => key'[q] = key[q] /\ phase'[q] = phase[q]
      BY <3>1, <3>2
    <3>4. \A q \in Ops : rank[q] = 0 => phase'[q] \notin {"waiting", "done"} \cup Active
      BY <3>2, <2>1 DEF RankInv, Active
    <3> QED BY <3>2, <3>3, <3>4, QuietStep
  <2>3. ASSUME NEW o \in Ops, Read(o) \/ Write(o) \/ Tear(o) PROVE QueueInv'
    <3>1. /\ UNCHANGED <<tail, pred, rank, registered, key>>
          /\ phase[o] \in Active /\ phase'[o] \in Active
          /\ \A q \in Ops : q # o => phase'[q] = phase[q]
      BY <2>1, <2>3 DEF Read, Write, Tear, queueVars, TypeOK, Active
    <3>2. rank[o] > 0
      BY <3>1, <2>1 DEF RankInv
    <3>3. \A q \in Ops : rank[q] = 0 => phase'[q] \notin {"waiting", "done"} \cup Active
      BY <3>1, <3>2, <2>1 DEF RankInv
    <3> QED BY <3>1, <3>3, QuietStep
  <2>4. ASSUME NEW o \in Ops, Register(o) PROVE QueueInv'
    BY <2>4, RegisterStep
  <2>5. ASSUME NEW o \in Ops, Start(o) PROVE QueueInv'
    BY <2>5, StartStep
  <2>6. ASSUME NEW o \in Ops, Finish(o) PROVE QueueInv'
    BY <2>6, FinishStep
  <2>7. CASE UNCHANGED vars
    <3>1. UNCHANGED <<tail, pred, rank, registered, key, phase>>
      BY <2>7 DEF vars, opVars, queueVars
    <3>2. \A q \in Ops : rank[q] = 0 => phase[q] \notin {"waiting", "done"} \cup Active
      BY <2>1 DEF RankInv
    <3> QED BY <3>1, <3>2, QuietStep
  <2> QED
    BY <2>2, <2>3, <2>4, <2>5, <2>6, <2>7 DEF Next, Settle
<1> QED
  BY <1>1, <1>2, TypeCorrect, PTL DEF Spec

\* Two operations with one key never execute together, and they execute in the
\* order of their registration (file-mutation-queue.ts:52).
THEOREM KeysSerialized == Spec => []Serialized
<1>1. QueueInv => Serialized
  BY DEF QueueInv
<1> QED
  BY <1>1, QueueInvariant, PTL

\* No entry of the map outlives its queue (file-mutation-queue.ts:57).
THEOREM EntriesFresh == Spec => []NoStaleEntry
<1>1. QueueInv => NoStaleEntry
  BY DEF QueueInv, TypeOK, RankInv, TailInv, NoStaleEntry
<1> QED
  BY <1>1, QueueInvariant, PTL

-----------------------------------------------------------------------------
(* What the keys are worth for files.                                       *)

\* Every path is the real path of the file it leads to: no symbolic links.
CanonicalOnly == \A p \in Paths : Canonical[Target[p]] = p

\* The key is then the path itself, whether the file exists or not.
LEMMA KeyIsPath ==
    ASSUME CanonicalOnly
    PROVE  Spec => [](key = path)
<1>1. Init => key = path
  BY DEF Init
<1>2. TypeOK /\ key = path /\ [Next]_vars => (key = path)'
  <2> SUFFICES ASSUME TypeOK, key = path, [Next]_vars PROVE key' = path'
    OBVIOUS
  <2>1. ASSUME NEW o \in Ops, ComputeKey(o) PROVE key' = path'
    <3>1. KeyOf(path[o]) = path[o]
      BY CanonicalOnly DEF KeyOf, CanonicalOnly, TypeOK
    <3> QED BY <2>1, <3>1 DEF ComputeKey, TypeOK
  <2>2. ASSUME NEW o \in Ops,
               Call(o) \/ RegistrationFails(o) \/ Register(o) \/ Start(o)
                  \/ Read(o) \/ Write(o) \/ Tear(o) \/ Finish(o)
        PROVE  key' = path'
    BY <2>2 DEF Call, RegistrationFails, Register, Start, Read, Write, Tear, Finish
  <2>3. CASE UNCHANGED vars
    BY <2>3 DEF vars, opVars
  <2> QED BY <2>1, <2>2, <2>3 DEF Next, Settle
<1> QED
  BY <1>1, <1>2, TypeCorrect, PTL DEF Spec

\* Operations with one key never overlap.
LEMMA ResolvedExcluded ==
    ASSUME QueueInv, NEW o \in Ops, NEW q \in Ops, o # q,
           phase[o] \in Active, phase[q] \in Active, key[o] = key[q]
    PROVE  FALSE
<1>1. TypeOK /\ RankInv /\ Serialized
  BY DEF QueueInv
<1>2. /\ rank[o] \in Nat /\ rank[q] \in Nat /\ rank[o] > 0 /\ rank[q] > 0
      /\ rank[o] # rank[q]
  BY <1>1 DEF RankInv, TypeOK
<1>3. \A r \in {o, q} : phase[r] # "waiting" /\ phase[r] # "done"
  BY DEF Active
<1>4. CASE rank[o] < rank[q]
  BY <1>1, <1>2, <1>3, <1>4 DEF Serialized
<1>5. CASE rank[q] < rank[o]
  BY <1>1, <1>2, <1>3, <1>5 DEF Serialized
<1> QED BY <1>2, <1>4, <1>5

\* Without symbolic links the queue excludes two operations on one file
\* (file-mutation-queue.ts:29).  With them it does not: see FileQueueAlias.cfg.
THEOREM FilesExcluded ==
    ASSUME CanonicalOnly
    PROVE  Spec => []FileExclusion
<1>1. QueueInv /\ key = path => FileExclusion
  <2> SUFFICES ASSUME QueueInv, key = path,
                      NEW o \in Ops, NEW q \in Ops, o # q,
                      phase[o] \in Active, phase[q] \in Active, File(o) = File(q)
               PROVE  FALSE
    BY DEF FileExclusion
  <2>1. key[o] = key[q]
    BY CanonicalOnly DEF CanonicalOnly, File, QueueInv, TypeOK
  <2> QED BY <2>1, ResolvedExcluded
<1>2. Spec => [](key = path)
  BY KeyIsPath
<1> QED
  BY <1>1, <1>2, QueueInvariant, PTL

\* A step registers operations and never takes a registration back.
LEMMA ResolvedBefore ==
    ASSUME TypeOK, RankInv, [Next]_vars, NEW f \in Files, Resolved(f)'
    PROVE  Resolved(f)
<1> SUFFICES ASSUME NEW q \in Ops, rank[q] > 0, File(q) = f PROVE key[q] = Canonical[f]
  BY DEF Resolved
<1>1. phase[q] # "queued"
  BY DEF RankInv, Active
<1>2. rank'[q] > 0 /\ key'[q] = key[q] /\ path'[q] = path[q]
  <2>1. ASSUME NEW o \in Ops, ComputeKey(o)
        PROVE  rank'[q] > 0 /\ key'[q] = key[q] /\ path'[q] = path[q]
    BY <2>1, <1>1 DEF ComputeKey, queueVars, TypeOK
  <2>2. ASSUME NEW o \in Ops, Register(o)
        PROVE  rank'[q] > 0 /\ key'[q] = key[q] /\ path'[q] = path[q]
    BY <2>2 DEF Register, TypeOK
  <2>3. ASSUME NEW o \in Ops,
               Call(o) \/ RegistrationFails(o) \/ Start(o)
                  \/ Read(o) \/ Write(o) \/ Tear(o) \/ Finish(o)
        PROVE  rank'[q] > 0 /\ key'[q] = key[q] /\ path'[q] = path[q]
    BY <2>3 DEF Call, RegistrationFails, Start, Read, Write, Tear, Finish, queueVars
  <2>4. CASE UNCHANGED vars
    BY <2>4 DEF vars, opVars, queueVars
  <2> QED BY <2>1, <2>2, <2>3, <2>4 DEF Next, Settle
<1>3. Target[path'[q]] = f
  BY <1>2 DEF File
<1> QED
  BY <1>2, <1>3 DEF Resolved, File

\* No edit writes back a stale copy of a file that every operation registered
\* for it had found (test file-mutation-queue.test.ts:102, "preserves both
\* parallel edits").
THEOREM NoLostUpdate == Spec => []EditSeesLatest
<1>1. Init => EditSeesLatest
  BY DEF Init, EditSeesLatest
<1>2. QueueInv /\ EditSeesLatest /\ [Next]_vars => EditSeesLatest'
  <2> SUFFICES ASSUME QueueInv, EditSeesLatest, [Next]_vars,
                      NEW r \in Ops, phase'[r] = "read", Resolved(File(r))'
               PROVE  copy'[r] = content'[Target[path'[r]]]
    BY DEF EditSeesLatest, File
  <2>1. TypeOK /\ RankInv
    BY DEF QueueInv
  <2>2. path' = path
    BY DEF Next, Settle, Call, ComputeKey, RegistrationFails, Register, Start, Read, Write,
           Tear, Finish, vars, opVars
  <2>3. File(r)' = File(r) /\ File(r) \in Files
    BY <2>1, <2>2, QueueAssumption DEF File, TypeOK
  <2>4. Resolved(File(r))
    <3> DEFINE f == File(r)
    <3>1. Resolved(f)'
      BY <2>3 DEF Resolved
    <3> QED BY <2>1, <2>3, <3>1, ResolvedBefore
  <2>5. ASSUME NEW o \in Ops,
               Call(o) \/ ComputeKey(o) \/ RegistrationFails(o) \/ Register(o)
                  \/ Start(o) \/ Finish(o)
        PROVE  phase[r] = "read" /\ UNCHANGED <<copy, content, path>>
    BY <2>1, <2>5 DEF Call, ComputeKey, RegistrationFails, Register, Start, Finish,
                fileVars, TypeOK
  <2>6. ASSUME NEW o \in Ops, Read(o) PROVE copy'[r] = content'[Target[path'[r]]]
    BY <2>1, <2>4, <2>6 DEF Read, File, EditSeesLatest, TypeOK
  <2>7. ASSUME NEW o \in Ops, Write(o) \/ Tear(o) PROVE copy'[r] = content'[Target[path'[r]]]
    <3>1. phase[o] \in Active
      BY <2>7 DEF Write, Tear, Active
    <3>2. r # o /\ phase[r] = "read" /\ phase[r] \in Active
      BY <2>1, <2>7 DEF Write, Tear, TypeOK, Active
    <3>3. rank[o] > 0 /\ rank[r] > 0
      BY <2>1, <3>1, <3>2 DEF RankInv
    <3>4. File(o) # File(r)
      <4> SUFFICES ASSUME File(o) = File(r) PROVE FALSE
        OBVIOUS
      <4>1. key[o] = key[r]
        BY <2>4, <3>3 DEF Resolved
      <4> QED BY <3>1, <3>2, <4>1, ResolvedExcluded
    <3>5. copy'[r] = copy[r] /\ content'[File(r)] = content[File(r)] /\ path' = path
      <4>1. CASE Write(o)
        BY <2>1, <2>3, <3>4, <4>1 DEF Write, TypeOK
      <4>2. CASE Tear(o)
        BY <2>1, <2>3, <3>4, <4>2 DEF Tear, TypeOK
      <4> QED BY <2>7, <4>1, <4>2
    <3>6. copy[r] = content[File(r)]
      BY <2>4, <3>2 DEF EditSeesLatest
    <3> QED BY <3>5, <3>6 DEF File
  <2>8. CASE UNCHANGED vars
    BY <2>4, <2>8 DEF vars, opVars, fileVars, EditSeesLatest, File
  <2> QED
    BY <2>1, <2>4, <2>5, <2>6, <2>7, <2>8 DEF Next, Settle, EditSeesLatest, File
<1> QED
  BY <1>1, <1>2, QueueInvariant, PTL DEF Spec

-----------------------------------------------------------------------------
(* The queue as a lock per key.                                             *)

\* s lists S by increasing r.
Ordered(s, S, r) ==
    /\ s \in Seq(S)
    /\ \A x \in S : \E i \in 1 .. Len(s) : s[i] = x
    /\ \A i, j \in 1 .. Len(s) : i < j => r[s[i]] < r[s[j]]

\* The same of a function on 1 .. n.
Lists(s, n, S, r) ==
    /\ s \in [1 .. n -> S]
    /\ \A x \in S : \E i \in 1 .. n : s[i] = x
    /\ \A i, j \in 1 .. n : i < j => r[s[i]] < r[s[j]]

\* A set of numbers has a least one.
LEMMA LeastNumber ==
    ASSUME NEW S \in SUBSET Nat, S # {}
    PROVE  \E x \in S : \A y \in S : x <= y
<1> DEFINE R == OpToRel(<, Nat)
<1>1. IsWellFoundedOn(R, Nat)
  BY NatLessThanWellFounded
<1>2. \A x, y \in Nat : x < y => <<x, y>> \in R
  BY DEF OpToRel
<1> HIDE DEF R
<1>3. PICK x \in S : \A y \in S : ~(<<y, x>> \in R)
  BY <1>1, WFMin
<1>4. \A y \in S : x \in Nat /\ y \in Nat /\ ~(y < x)
  BY <1>2, <1>3
<1>5. \A y \in S : x <= y
  BY <1>4
<1> QED
  BY <1>5

\* There is one such list: of two that differ, look at the first place.
LEMMA OneOrder ==
    ASSUME NEW S, NEW r, \A x \in S : r[x] \in Nat, NEW n \in Nat,
           NEW s, Lists(s, n, S, r), NEW t, Lists(t, n, S, r)
    PROVE  s = t
<1> USE DEF Lists
<1> DEFINE D == {i \in 1 .. n : s[i] # t[i]}
<1>0. (\A i \in 1 .. n : s[i] = t[i]) => s = t
  OBVIOUS
<1> SUFFICES ASSUME D # {} PROVE FALSE
  BY <1>0
<1>1. D \in SUBSET Nat
  OBVIOUS
<1>2. PICK i \in D : \A j \in D : i <= j
  BY <1>1, LeastNumber
<1>3. i \in 1 .. n /\ s[i] # t[i] /\ \A j \in 1 .. n : j < i => s[j] = t[j]
  BY <1>2
<1>4. PICK j \in 1 .. n : t[j] = s[i]
  BY <1>3
<1>5. PICK k \in 1 .. n : s[k] = t[i]
  BY <1>3
<1>6. r[s[i]] \in Nat /\ r[t[i]] \in Nat
  BY <1>3
<1>7. ~(j < i)
  <2> SUFFICES ASSUME j < i PROVE FALSE
    OBVIOUS
  <2>1. r[s[j]] < r[s[i]] /\ s[j] = t[j]
    BY <1>3
  <2>2. s[j] = s[i]
    BY <2>1, <1>4
  <2> QED BY ONLY <2>1, <2>2, <1>6
<1>8. ~(k < i)
  <2> SUFFICES ASSUME k < i PROVE FALSE
    OBVIOUS
  <2>1. r[t[k]] < r[t[i]] /\ s[k] = t[k]
    BY <1>3
  <2>2. t[k] = t[i]
    BY <2>1, <1>5
  <2> QED BY ONLY <2>1, <2>2, <1>6
<1>9. i < j /\ i < k
  <2>1. j # i /\ k # i
    BY <1>3, <1>4, <1>5
  <2>2. i \in Nat /\ j \in Nat /\ k \in Nat
    BY <1>3
  <2> QED BY <2>1, <2>2, <1>7, <1>8
<1>10. r[t[i]] < r[s[i]] /\ r[s[i]] < r[t[i]]
  BY <1>3, <1>4, <1>5, <1>9
<1> QED
  BY ONLY <1>6, <1>10

\* A list in order is the one that InOrder takes.
LEMMA OrderIs ==
    ASSUME NEW S, NEW r, \A x \in S : r[x] \in Nat, NEW s, Ordered(s, S, r)
    PROVE  InOrder(S, r) = s
<1> DEFINE n == Len(s)
           Fits(t) == /\ \A x \in S : \E i \in DOMAIN t : t[i] = x
                      /\ \A i, j \in DOMAIN t : i < j => r[t[i]] < r[t[j]]
<1>1. /\ n \in Nat /\ s \in [1 .. n -> S] /\ DOMAIN s = 1 .. n
      /\ \A x \in S : \E i \in 1 .. n : s[i] = x
      /\ \A i, j \in 1 .. n : i < j => r[s[i]] < r[s[j]]
  BY DEF Ordered
<1> HIDE DEF n
<1>2. Cardinality(S) = n
  <2>1. \A i, j \in 1 .. n : s[i] = s[j] => i = j
    <3> SUFFICES ASSUME NEW i \in 1 .. n, NEW j \in 1 .. n, s[i] = s[j], i # j PROVE FALSE
      OBVIOUS
    <3>1. r[s[i]] \in Nat /\ r[s[j]] \in Nat /\ (i < j \/ j < i)
      BY <1>1
    <3> QED BY <3>1, <1>1
  <2>2. s \in Injection(1 .. n, S)
    BY <1>1, <2>1 DEF Injection, IsInjective
  <2>3. s \in Surjection(1 .. n, S)
    BY <1>1 DEF Surjection
  <2>4. ExistsBijection(1 .. n, S)
    BY <2>2, <2>3 DEF ExistsBijection, Bijection
  <2> QED BY <1>1, <2>4, FS_CountingElements
<1>3. s \in [1 .. Cardinality(S) -> S] /\ Fits(s)
  BY <1>1, <1>2
<1>4. InOrder(S, r) = CHOOSE t \in [1 .. Cardinality(S) -> S] : Fits(t)
  BY DEF InOrder
<1> DEFINE t == CHOOSE t \in [1 .. Cardinality(S) -> S] : Fits(t)
<1>5. t \in [1 .. n -> S] /\ Fits(t)
  BY <1>2, <1>3
<1>6. DOMAIN t = 1 .. n
  BY <1>5
<1> HIDE DEF t
<1>7. Lists(t, n, S, r) /\ Lists(s, n, S, r)
  BY <1>1, <1>5, <1>6 DEF Lists
<1>8. s = t
  BY <1>1, <1>7, OneOrder
<1> QED
  BY <1>4, <1>8 DEF t

\* What waits or executes under a key is in line, in the order of registration.
LinesInv == \A p \in Paths : Ordered(Line(p), Pending(p), rank)
Lines == [p \in Paths |-> Line(p)]
Inside == {o \in Ops : phase[o] \in Active}

\* A step keeps the line of a key to which nothing happens.
LEMMA LineStays ==
    ASSUME QueueInv, TypeOK', LinesInv, NEW p \in Paths, Pending(p)' = Pending(p),
           \A o \in Pending(p) : rank'[o] = rank[o]
    PROVE  Line(p)' = Line(p) /\ Ordered(Line(p), Pending(p), rank)'
<1> DEFINE s == Line(p)
<1>1. Ordered(s, Pending(p), rank)
  BY DEF LinesInv
<1>2. \A i \in 1 .. Len(s) : s[i] \in Pending(p)
  BY <1>1 DEF Ordered
<1> HIDE DEF s
<1>3. Ordered(s, Pending(p), rank')
  BY <1>1, <1>2 DEF Ordered
<1>4. \A o \in Pending(p) : rank'[o] \in Nat
  BY DEF TypeOK, Pending
<1>5. InOrder(Pending(p), rank') = s
  BY <1>3, <1>4, OrderIs
<1>6. Line(p)' = s
  BY <1>5 DEF Line
<1> QED
  BY <1>3, <1>6 DEF s

\* A step that keeps the lines and who is inside is no step of the locks.
LEMMA LinesStay ==
    ASSUME QueueInv, TypeOK', LinesInv, Inside' = Inside,
           \A p \in Paths : Pending(p)' = Pending(p),
           \A o \in Ops : rank[o] > 0 => rank'[o] = rank[o]
    PROVE  LinesInv' /\ UNCHANGED Lock!lockVars
<1>1. \A p \in Paths : Line(p)' = Line(p) /\ Ordered(Line(p), Pending(p), rank)'
  <2> SUFFICES ASSUME NEW p \in Paths
               PROVE  Line(p)' = Line(p) /\ Ordered(Line(p), Pending(p), rank)'
    OBVIOUS
  <2>1. \A o \in Pending(p) : rank'[o] = rank[o]
    BY DEF Pending
  <2> QED BY <2>1, LineStays
<1>2. LinesInv'
  BY <1>1 DEF LinesInv
<1>3. [p \in Paths |-> Line(p)]' = [p \in Paths |-> Line(p)]
  BY <1>1
<1> QED
  BY <1>2, <1>3 DEF Lock!lockVars, Inside

\* What is in no line yet.
LEMMA NotInLine ==
    ASSUME LinesInv, NEW o \in Ops, NEW p \in Paths, o \notin Pending(p)
    PROVE  o \notin Lock!ToSet([q \in Paths |-> Line(q)][p])
<1>1. Ordered(Line(p), Pending(p), rank)
  BY DEF LinesInv
<1>2. \A i \in DOMAIN Line(p) : Line(p)[i] \in Pending(p)
  BY <1>1 DEF Ordered
<1> QED
  BY <1>2 DEF Lock!ToSet

\* Registration puts an operation at the end of its line: the lock's Arrive.
LEMMA RegisterArrives ==
    ASSUME QueueInv, TypeOK', LinesInv, NEW o \in Ops, Register(o)
    PROVE  LinesInv' /\ Lock!Arrive(o, key[o])
<1> DEFINE k == key[o]
           s == Line(k)
<1>1. TypeOK /\ RankInv
  BY DEF QueueInv
<1>2. /\ k \in Paths /\ phase[o] = "keyed" /\ rank[o] = 0 /\ key' = key
      /\ phase' = [phase EXCEPT ![o] = "waiting"]
      /\ rank' = [rank EXCEPT ![o] = registered + 1]
  <2>1. phase[o] = "keyed" /\ k \in Paths /\ key' = key
    BY <1>1 DEF Register, TypeOK
  <2>2. phase[o] \notin {"waiting", "done"} \cup Active
    BY <2>1 DEF Active
  <2>3. rank[o] \in Nat /\ ~(rank[o] > 0)
    BY <1>1, <2>2 DEF RankInv, TypeOK
  <2> QED BY ONLY <2>1, <2>3, Register(o) DEF Register
<1>3. \A q \in Ops : rank[q] > 0 => q # o /\ rank'[q] = rank[q] /\ phase'[q] = phase[q]
                                    /\ rank[q] < rank'[o]
  BY <1>1, <1>2 DEF RankInv, TypeOK
<1>4. \A q \in Ops : q # o => rank'[q] = rank[q] /\ phase'[q] = phase[q]
  BY <1>2, <1>1 DEF TypeOK
<1>5. rank'[o] > 0 /\ phase'[o] = "waiting"
  BY <1>1, <1>2 DEF TypeOK
<1>6. \A p \in Paths : o \notin Pending(p)
  BY <1>2 DEF Pending
<1>7. Pending(k)' = Pending(k) \cup {o}
  BY <1>2, <1>4, <1>5, <1>6 DEF Pending
<1>8. \A p \in Paths : p # k => Pending(p)' = Pending(p)
  BY <1>2, <1>4, <1>6 DEF Pending
<1>9. ASSUME NEW p \in Paths, p # k
      PROVE  Line(p)' = Line(p) /\ Ordered(Line(p), Pending(p), rank)'
  <2>1. Pending(p)' = Pending(p)
    BY <1>8, <1>9
  <2>2. \A q \in Pending(p) : rank'[q] = rank[q]
    BY <1>3 DEF Pending
  <2> QED BY <1>9, <2>1, <2>2, LineStays
<1>10. Ordered(Append(s, o), Pending(k)', rank')
  <2>1. Ordered(s, Pending(k), rank)
    BY <1>2 DEF LinesInv
  <2>2. \A i \in 1 .. Len(s) : s[i] \in Pending(k)
    BY <2>1 DEF Ordered
  <2> HIDE DEF s, k
  <2> DEFINE t == Append(s, o)
  <2>3. /\ s \in Seq(Pending(k)) /\ Len(s) \in Nat
        /\ t \in Seq(Pending(k) \cup {o}) /\ Len(t) = Len(s) + 1
        /\ \A i \in 1 .. Len(s) : t[i] = s[i]
        /\ t[Len(s) + 1] = o
    BY <2>1 DEF Ordered
  <2> HIDE DEF t
  <2>4. \A x \in Pending(k) \cup {o} : \E i \in 1 .. Len(t) : t[i] = x
    <3>1. \A x \in Pending(k) : \E i \in 1 .. Len(s) : s[i] = x
      BY <2>1 DEF Ordered
    <3> QED BY <2>3, <3>1
  <2>5. \A i, j \in 1 .. Len(t) : i < j => rank'[t[i]] < rank'[t[j]]
    <3> SUFFICES ASSUME NEW i \in 1 .. Len(t), NEW j \in 1 .. Len(t), i < j
                 PROVE  rank'[t[i]] < rank'[t[j]]
      OBVIOUS
    <3>1. i \in 1 .. Len(s) /\ t[i] = s[i] /\ s[i] \in Pending(k)
      BY <2>2, <2>3
    <3>2. rank'[t[i]] = rank[s[i]] /\ rank[s[i]] < rank'[o]
      BY <3>1, <1>3 DEF Pending
    <3>3. CASE j = Len(s) + 1
      BY <3>2, <3>3, <2>3
    <3>4. CASE j # Len(s) + 1
      <4>1. j \in 1 .. Len(s) /\ t[j] = s[j] /\ s[j] \in Pending(k)
        BY <3>4, <2>2, <2>3
      <4>2. rank'[t[j]] = rank[s[j]]
        BY <4>1, <1>3 DEF Pending
      <4>3. rank[s[i]] < rank[s[j]]
        BY <2>1, <3>1, <4>1 DEF Ordered
      <4> QED BY <3>2, <4>2, <4>3
    <3> QED BY <3>3, <3>4
  <2> QED BY <2>3, <2>4, <2>5, <1>7 DEF Ordered, t
<1>11. Line(k)' = Append(s, o)
  <2>1. \A x \in Pending(k)' : rank'[x] \in Nat
    BY DEF TypeOK, Pending
  <2> HIDE DEF s, k
  <2>2. InOrder(Pending(k)', rank') = Append(s, o)
    BY <1>10, <2>1, OrderIs
  <2>3. Line(k)' = InOrder(Pending(k)', rank')
    BY <1>2 DEF Line, k
  <2> QED BY <2>2, <2>3
<1> HIDE DEF s
<1>12. LinesInv'
  <2>1. ASSUME NEW p \in Paths PROVE Ordered(Line(p), Pending(p), rank)'
    BY <1>9, <1>10, <1>11, <1>2
  <2> QED BY <2>1 DEF LinesInv
<1>13. \A p \in Paths : o \notin Lock!ToSet([q \in Paths |-> Line(q)][p])
  BY <1>6, NotInLine
<1>14. [p \in Paths |-> Line(p)]'
       = [[p \in Paths |-> Line(p)] EXCEPT ![k] = Append([p \in Paths |-> Line(p)][k], o)]
  BY <1>2, <1>9, <1>11 DEF s
<1>15. Inside' = Inside
  BY <1>2, <1>4, <1>5 DEF Inside, Active
<1> QED
  BY <1>12, <1>13, <1>14, <1>15 DEF Lock!Arrive, Inside

\* Whoever is not behind anybody is the first of its line.
LEMMA FirstInLine ==
    ASSUME QueueInv, LinesInv, NEW o \in Ops, rank[o] > 0, phase[o] # "done",
           \A q \in Ops : Earlier(q, o) => phase[q] = "done"
    PROVE  Line(key[o]) # <<>> /\ Head(Line(key[o])) = o
<1> DEFINE k == key[o]
           s == Line(k)
<1>1. /\ k \in Paths /\ o \in Pending(k)
      /\ \A q \in Ops : rank[q] \in Nat
  BY DEF QueueInv, TypeOK, Pending
<1>2. Ordered(s, Pending(k), rank)
  BY <1>1 DEF LinesInv
<1> HIDE DEF s
<1>3. PICK i \in 1 .. Len(s) : s[i] = o
  BY <1>1, <1>2 DEF Ordered
<1>4. s \in Seq(Pending(k)) /\ Len(s) \in Nat /\ 1 \in 1 .. Len(s) /\ s[1] \in Pending(k)
  BY <1>2, <1>3 DEF Ordered
<1>5. i = 1
  <2> SUFFICES ASSUME i # 1 PROVE FALSE
    OBVIOUS
  <2>1. 1 < i
    BY <1>3, <1>4
  <2>2. rank[s[1]] < rank[o]
    BY <1>2, <1>3, <1>4, <2>1 DEF Ordered
  <2>3. Earlier(s[1], o) /\ phase[s[1]] # "done" /\ s[1] \in Ops
    BY <1>4, <2>2 DEF Earlier, Pending
  <2> QED BY <2>3
<1>6. s # <<>> /\ Head(s) = o
  BY <1>3, <1>4, <1>5
<1> QED
  BY <1>6 DEF s

\* An operation whose wait is over is the first of its line: the lock's Enter.
LEMMA StartEnters ==
    ASSUME QueueInv, QueueInv', LinesInv, NEW o \in Ops, Start(o)
    PROVE  LinesInv' /\ Lock!Enter(o, key[o])
<1> DEFINE k == key[o]
<1>1. /\ phase[o] = "waiting" /\ phase' = [phase EXCEPT ![o] = "running"]
      /\ key' = key /\ rank' = rank
  BY DEF Start, queueVars
<1>2. /\ k \in Paths /\ rank[o] > 0
      /\ phase'[o] = "running" /\ \A q \in Ops : q # o => phase'[q] = phase[q]
  BY <1>1 DEF QueueInv, TypeOK, RankInv
<1>3. \A q \in Ops : Earlier(q, o) => phase[q] = "done"
  <2> SUFFICES ASSUME NEW q \in Ops, Earlier(q, o) PROVE phase[q] = "done"
    OBVIOUS
  <2>1. 0 < rank'[q] /\ rank'[q] < rank'[o] /\ key'[q] = key'[o] /\ phase'[o] # "waiting"
    BY <1>1, <1>2 DEF Earlier
  <2>2. phase'[q] = "done"
    BY <2>1 DEF QueueInv, Serialized
  <2> QED BY <1>2, <2>2
<1>4. Line(k) # <<>> /\ Head(Line(k)) = o
  BY <1>1, <1>2, <1>3, FirstInLine
<1>5. \A p \in Paths : Pending(p)' = Pending(p)
  BY <1>1, <1>2 DEF Pending
<1>6. \A p \in Paths : Line(p)' = Line(p) /\ Ordered(Line(p), Pending(p), rank)'
  BY <1>1, <1>5, LineStays DEF QueueInv
<1>7. LinesInv'
  BY <1>6 DEF LinesInv
<1>8. [p \in Paths |-> Line(p)]' = [p \in Paths |-> Line(p)]
  BY <1>6
<1>9. Inside' = Inside \cup {o} /\ o \notin Inside
  BY <1>1, <1>2 DEF Inside, Active
<1> QED
  BY <1>2, <1>4, <1>7, <1>8, <1>9 DEF Lock!Enter, Inside

\* An operation that is done leaves the head of its line: the lock's Leave.
LEMMA FinishLeaves ==
    ASSUME QueueInv, TypeOK', LinesInv, NEW o \in Ops, Finish(o)
    PROVE  LinesInv' /\ Lock!Leave(o, key[o])
<1> DEFINE k == key[o]
           s == Line(k)
<1>1. TypeOK /\ RankInv /\ Serialized
  BY DEF QueueInv
<1>2. /\ phase[o] \in Active /\ key' = key /\ rank' = rank
      /\ phase'[o] = "done" /\ \A q \in Ops : q # o => phase'[q] = phase[q]
      /\ k \in Paths /\ rank[o] > 0
  BY <1>1 DEF Finish, TypeOK, RankInv
<1>3. phase[o] # "waiting" /\ phase[o] # "done"
  BY <1>2 DEF Active
<1>4. \A q \in Ops : Earlier(q, o) => phase[q] = "done"
  BY <1>1, <1>3 DEF Earlier, Serialized
<1>5. s # <<>> /\ Head(s) = o
  BY <1>2, <1>3, <1>4, FirstInLine
<1>6. Pending(k)' = Pending(k) \ {o}
  BY <1>2 DEF Pending
<1>7. \A p \in Paths : p # k => Pending(p)' = Pending(p)
  BY <1>2 DEF Pending
<1>8. \A p \in Paths : p # k => Line(p)' = Line(p) /\ Ordered(Line(p), Pending(p), rank)'
  BY <1>2, <1>7, LineStays
<1>9. Ordered(Tail(s), Pending(k)', rank)
  <2>1. Ordered(s, Pending(k), rank)
    BY <1>2 DEF LinesInv
  <2> HIDE DEF s, k
  <2>2. \A i \in 1 .. Len(s) : s[i] \in Pending(k) /\ rank[s[i]] \in Nat
    <3>1. \A i \in 1 .. Len(s) : s[i] \in Pending(k)
      BY <2>1 DEF Ordered
    <3>2. \A x \in Pending(k) : rank[x] \in Nat
      BY <1>1 DEF Pending, TypeOK
    <3> QED BY <3>1, <3>2
  <2> DEFINE t == Tail(s)
  <2>3. /\ s \in Seq(Pending(k)) /\ Len(s) \in Nat /\ Len(s) > 0 /\ s[1] = o
        /\ t \in Seq(Pending(k)) /\ Len(t) = Len(s) - 1
        /\ \A i \in 1 .. Len(t) : t[i] = s[i + 1]
    BY <2>1, <1>5 DEF Ordered
  <2> HIDE DEF t
  <2>4. \A i, j \in 1 .. Len(s) : i < j => rank[s[i]] < rank[s[j]]
    BY <2>1 DEF Ordered
  <2>5. ASSUME NEW i \in 1 .. Len(t)
        PROVE  i + 1 \in 1 .. Len(s) /\ t[i] = s[i + 1] /\ t[i] \in Pending(k) /\ t[i] # o
    <3>1. i + 1 \in 1 .. Len(s) /\ t[i] = s[i + 1] /\ 1 \in 1 .. Len(s) /\ 1 < i + 1
      BY <2>3
    <3>2. rank[s[1]] < rank[s[i + 1]] /\ rank[s[1]] \in Nat
      BY <3>1, <2>2, <2>4
    <3>3. s[i + 1] # s[1]
      BY <3>2
    <3> QED BY <3>1, <3>3, <2>2, <2>3
  <2>6. t \in Seq(Pending(k) \ {o})
    <3>1. \A i \in 1 .. Len(t) : t[i] \in Pending(k) \ {o}
      BY <2>5
    <3> QED BY <2>3, <3>1
  <2>7. \A x \in Pending(k) \ {o} : \E i \in 1 .. Len(t) : t[i] = x
    <3> SUFFICES ASSUME NEW x \in Pending(k) \ {o} PROVE \E i \in 1 .. Len(t) : t[i] = x
      OBVIOUS
    <3>1. PICK i \in 1 .. Len(s) : s[i] = x
      BY <2>1 DEF Ordered
    <3>2. i # 1
      BY <3>1, <2>3
    <3>3. i - 1 \in 1 .. Len(t) /\ t[i - 1] = s[(i - 1) + 1] /\ (i - 1) + 1 = i
      BY <3>2, <2>3
    <3> QED BY <3>1, <3>3
  <2>8. \A i, j \in 1 .. Len(t) : i < j => rank[t[i]] < rank[t[j]]
    <3> SUFFICES ASSUME NEW i \in 1 .. Len(t), NEW j \in 1 .. Len(t), i < j
                 PROVE  rank[t[i]] < rank[t[j]]
      OBVIOUS
    <3>1. i + 1 < j + 1
      OBVIOUS
    <3> QED BY <3>1, <2>4, <2>5
  <2> QED BY <2>6, <2>7, <2>8, <1>6 DEF Ordered, t
<1>10. Line(k)' = Tail(s)
  <2>1. \A x \in Pending(k)' : rank[x] \in Nat
    BY <1>1, <1>6 DEF TypeOK, Pending
  <2> HIDE DEF s, k
  <2>2. InOrder(Pending(k)', rank) = Tail(s)
    BY <1>9, <2>1, OrderIs
  <2>3. Line(k)' = InOrder(Pending(k)', rank)
    BY <1>2 DEF Line, k
  <2> QED BY <2>2, <2>3
<1> HIDE DEF s
<1>11. LinesInv'
  <2>1. ASSUME NEW p \in Paths PROVE Ordered(Line(p), Pending(p), rank)'
    BY <1>2, <1>8, <1>9, <1>10
  <2> QED BY <2>1 DEF LinesInv
<1>12. [p \in Paths |-> Line(p)]'
       = [[p \in Paths |-> Line(p)] EXCEPT ![k] = Tail([p \in Paths |-> Line(p)][k])]
  BY <1>2, <1>8, <1>10 DEF s
<1>13. Inside' = Inside \ {o} /\ o \in Inside
  BY <1>2 DEF Inside, Active
<1> QED
  BY <1>2, <1>5, <1>11, <1>12, <1>13 DEF Lock!Leave, Inside, s

\* Every step of the queue is one of the locks, or none.
LEMMA LockStep ==
    ASSUME QueueInv, QueueInv', LinesInv, [Next]_vars
    PROVE  LinesInv' /\ [Lock!LockNext]_(Lock!lockVars)
<1>1. TypeOK /\ TypeOK' /\ RankInv
  BY DEF QueueInv
<1>2. ASSUME NEW o \in Ops, Call(o) \/ ComputeKey(o) \/ RegistrationFails(o)
      PROVE  LinesInv' /\ UNCHANGED Lock!lockVars
  <2>1. /\ phase[o] \in {"new", "queued"} /\ rank' = rank
        /\ phase'[o] \in {"queued", "keyed", "rejected"}
        /\ \A q \in Ops : q # o => phase'[q] = phase[q] /\ key'[q] = key[q]
    BY <1>1, <1>2 DEF Call, ComputeKey, RegistrationFails, TypeOK, queueVars
  <2>2. phase[o] \notin {"waiting", "done"} \cup Active
    BY <2>1 DEF Active
  <2>3. ~(rank[o] > 0)
    BY <1>1, <2>2 DEF RankInv
  <2>4. \A p \in Paths : Pending(p)' = Pending(p)
    BY <2>1, <2>3 DEF Pending
  <2>5. Inside' = Inside
    BY <2>1 DEF Inside, Active
  <2> QED BY <1>1, <2>1, <2>4, <2>5, LinesStay
<1>3. ASSUME NEW o \in Ops, Read(o) \/ Write(o) \/ Tear(o)
      PROVE  LinesInv' /\ UNCHANGED Lock!lockVars
  <2>1. /\ phase[o] \in Active /\ phase'[o] \in Active /\ rank' = rank /\ key' = key
        /\ \A q \in Ops : q # o => phase'[q] = phase[q]
    BY <1>1, <1>3 DEF Read, Write, Tear, queueVars, TypeOK, Active
  <2>2. phase[o] # "done" /\ phase'[o] # "done"
    BY <2>1 DEF Active
  <2>3. \A p \in Paths : Pending(p)' = Pending(p)
    BY <2>1, <2>2 DEF Pending
  <2>4. Inside' = Inside
    BY <2>1 DEF Inside
  <2> QED BY <1>1, <2>1, <2>3, <2>4, LinesStay
<1>4. ASSUME NEW o \in Ops, Register(o) \/ Start(o) \/ Finish(o)
      PROVE  LinesInv' /\ Lock!LockNext
  <2>1. key[o] \in Paths
    BY <1>1 DEF TypeOK
  <2>2. CASE Register(o)
    <3>1. LinesInv' /\ Lock!Arrive(o, key[o])
      BY <1>1, <2>2, RegisterArrives
    <3>2. \E p \in Paths : Lock!Arrive(o, p)
      BY <2>1, <3>1
    <3> QED BY <3>1, <3>2 DEF Lock!LockNext
  <2>3. CASE Start(o)
    <3>1. LinesInv' /\ Lock!Enter(o, key[o])
      BY <2>3, StartEnters
    <3>2. \E p \in Paths : Lock!Enter(o, p)
      BY <2>1, <3>1
    <3> QED BY <3>1, <3>2 DEF Lock!LockNext
  <2>4. CASE Finish(o)
    <3>1. LinesInv' /\ Lock!Leave(o, key[o])
      BY <1>1, <2>4, FinishLeaves
    <3>2. \E p \in Paths : Lock!Leave(o, p)
      BY <2>1, <3>1
    <3> QED BY <3>1, <3>2 DEF Lock!LockNext
  <2> QED BY <1>4, <2>2, <2>3, <2>4
<1>5. ASSUME UNCHANGED vars
      PROVE  LinesInv' /\ UNCHANGED Lock!lockVars
  <2>1. rank' = rank /\ key' = key /\ phase' = phase
    BY <1>5 DEF vars, opVars, queueVars
  <2>2. (\A p \in Paths : Pending(p)' = Pending(p)) /\ Inside' = Inside
    BY <2>1 DEF Pending, Inside
  <2> QED BY <1>1, <2>1, <2>2, LinesStay
<1> QED
  BY <1>2, <1>3, <1>4, <1>5 DEF Next, Settle

\* At the start no key has a line and nobody is inside.
LEMMA LockStart ==
    ASSUME Init
    PROVE  LinesInv /\ Lock!LockInit
<1>1. ASSUME NEW p \in Paths PROVE Line(p) = <<>> /\ Ordered(Line(p), Pending(p), rank)
  <2>1. Pending(p) = {}
    BY DEF Init, Pending
  <2>2. Ordered(<<>>, Pending(p), rank)
    BY <2>1 DEF Ordered
  <2>3. Line(p) = <<>>
    BY <2>1, <2>2, OrderIs DEF Line
  <2> QED BY <2>2, <2>3
<1>2. LinesInv
  BY <1>1 DEF LinesInv
<1>3. [p \in Paths |-> Line(p)] = [p \in Paths |-> <<>>]
  BY <1>1
<1>4. {o \in Ops : phase[o] \in Active} = {}
  BY DEF Init, Active
<1> QED
  BY <1>2, <1>3, <1>4 DEF Lock!LockInit

\* The queue implements one first-come-first-served lock per key ("serialize file
\* mutation operations targeting the same file", file-mutation-queue.ts:29).
THEOREM QueueIsLock == Spec => ImplementsFifoLock
<1>1. Init => LinesInv /\ Lock!LockInit
  BY LockStart
<1>2. QueueInv /\ QueueInv' /\ LinesInv /\ [Next]_vars
      => LinesInv' /\ [Lock!LockNext]_(Lock!lockVars)
  BY LockStep
<1> QED
  BY <1>1, <1>2, QueueInvariant, PTL DEF Spec, ImplementsFifoLock, Lock!LockSpec

=============================================================================
