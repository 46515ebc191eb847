------------------------- MODULE FileMutationQueue -------------------------
(***************************************************************************)
(* withFileMutationQueue and the edit and write tools that run under it     *)
(* (packages/coding-agent/src/core/tools/file-mutation-queue.ts, edit.ts,   *)
(* write.ts; the harness's copy in packages/agent/src/harness/tools keeps   *)
(* one such queue per execution environment).                               *)
(*                                                                         *)
(* An operation first goes through one global registration chain, where     *)
(* its key is computed, then waits for the operation registered before it   *)
(* under the same key.  The key is the file's real path, or the path as     *)
(* given (made absolute) while the file does not exist.                     *)
(***************************************************************************)
EXTENDS Naturals, Sequences, FiniteSets

CONSTANTS
    Ops,        \* calls of withFileMutationQueue
    Paths,      \* absolute paths
    Files,      \* what paths lead to, symbolic links followed
    Target,     \* Target[p]: the file p leads to
    Canonical,  \* Canonical[f]: the real path of f
    NoOp

ASSUME QueueAssumption ==
    /\ Target \in [Paths -> Files]
    /\ Canonical \in [Files -> Paths]
    /\ \A f \in Files : Target[Canonical[f]] = f
    /\ NoOp \notin Ops

VARIABLES
    phase,        \* how far each operation is
    path, kind,   \* its arguments: a path, "edit" or "write"
    key,          \* its key, once computed
    registration, \* the registration chain, oldest first
    tail,         \* fileMutationQueues: the last operation of each key
    pred,         \* the operation whose chainedQueue is this one's currentQueue
    rank,         \* the order of registration, 0 before it
    registered,   \* operations registered so far
    exists,       \* the file system
    content,      \* content[f]: the operations whose effect f shows
    copy          \* what an edit has read

opVars == <<phase, path, kind, key>>
queueVars == <<registration, tail, pred, rank, registered>>
fileVars == <<exists, content, copy>>
vars == <<opVars, queueVars, fileVars>>

Active == {"running", "read", "written"}
Phase == {"new", "queued", "keyed", "waiting", "done", "rejected"} \cup Active

File(o) == Target[path[o]]

\* A bug: the file where its path is meant.
KeyOfFile(p) == IF exists[Target[p]] THEN Target[p] ELSE p

\* getMutationQueueKey: realpath, or the resolved path of a missing file.
KeyOf(p) == IF exists[Target[p]] THEN Canonical[Target[p]] ELSE p

Init ==
    /\ phase = [o \in Ops |-> "new"]
    /\ path \in [Ops -> Paths] /\ kind \in [Ops -> {"edit", "write"}]
    /\ key = path
    /\ registration = <<>>
    /\ tail = [p \in Paths |-> NoOp]
    /\ pred = [o \in Ops |-> NoOp]
    /\ rank = [o \in Ops |-> 0] /\ registered = 0
    /\ exists \in [Files -> BOOLEAN]
    /\ content = [f \in Files |-> {}]
    /\ copy = [o \in Ops |-> {}]

\* registrationQueue.then(...): the call joins the chain.
Call(o) ==
    /\ phase[o] = "new"
    /\ phase' = [phase EXCEPT ![o] = "queued"]
    /\ registration' = Append(registration, o)
    /\ UNCHANGED <<path, kind, key, tail, pred, rank, registered, fileVars>>

AtHead(o) == registration # <<>> /\ Head(registration) = o

\* The head of the chain asks the file system for its key ...
ComputeKey(o) ==
    /\ AtHead(o) /\ phase[o] = "queued"
    /\ phase' = [phase EXCEPT ![o] = "keyed"]
    /\ key' = [key EXCEPT ![o] = KeyOf(path[o])]
    /\ UNCHANGED <<path, kind, queueVars, fileVars>>

\* A bug: a rejected registration breaks the chain.
RegistrationSticks(o) ==
    /\ AtHead(o) /\ phase[o] = "queued"
    /\ phase' = [phase EXCEPT ![o] = "rejected"]
    /\ UNCHANGED <<path, kind, key, queueVars, fileVars>>

\* ... which may fail for another reason than a missing file: the call rejects
\* and the chain goes on.
RegistrationFails(o) ==
    /\ AtHead(o) /\ phase[o] = "queued"
    /\ phase' = [phase EXCEPT ![o] = "rejected"]
    /\ registration' = Tail(registration)
    /\ UNCHANGED <<path, kind, key, tail, pred, rank, registered, fileVars>>

\* It then chains itself behind the last operation of that key.
Register(o) ==
    /\ AtHead(o) /\ phase[o] = "keyed"
    /\ phase' = [phase EXCEPT ![o] = "waiting"]
    /\ pred' = [pred EXCEPT ![o] = tail[key[o]]]
    /\ tail' = [tail EXCEPT ![key[o]] = o]
    /\ registered' = registered + 1
    /\ rank' = [rank EXCEPT ![o] = registered + 1]
    /\ registration' = Tail(registration)
    /\ UNCHANGED <<path, kind, key, fileVars>>

\* await currentQueue
Released == {NoOp} \cup {o \in Ops : phase[o] = "done"}

Start(o) ==
    /\ phase[o] = "waiting" /\ pred[o] \in Released
    /\ phase' = [phase EXCEPT ![o] = "running"]
    /\ UNCHANGED <<path, kind, key, queueVars, fileVars>>

\* The edit tool reads the whole file.
Read(o) ==
    /\ phase[o] = "running" /\ kind[o] = "edit" /\ exists[File(o)]
    /\ phase' = [phase EXCEPT ![o] = "read"]
    /\ copy' = [copy EXCEPT ![o] = content[File(o)]]
    /\ UNCHANGED <<path, kind, key, queueVars, exists, content>>

\* The edit tool writes back what it read with its change; the write tool
\* creates or replaces the file.
Write(o) ==
    /\ phase[o] = IF kind[o] = "edit" THEN "read" ELSE "running"
    /\ phase' = [phase EXCEPT ![o] = "written"]
    /\ content' = [content EXCEPT ![File(o)] = copy[o] \cup {o}]
    /\ exists' = [exists EXCEPT ![File(o)] = TRUE]
    /\ UNCHANGED <<path, kind, key, queueVars, copy>>

\* The write fails, or the harness's file operation sees the abort signal,
\* between the opening of the file, which empties it, and its last chunk.
Tear(o) ==
    /\ phase[o] = IF kind[o] = "edit" THEN "read" ELSE "running"
    /\ phase' = [phase EXCEPT ![o] = "written"]
    /\ content' = [content EXCEPT ![File(o)] = {}]
    /\ exists' = [exists EXCEPT ![File(o)] = TRUE]
    /\ UNCHANGED <<path, kind, key, queueVars, copy>>

\* A bug: the entry is deleted although a later operation has taken its place.
FinishDropsTail(o) ==
    /\ phase[o] \in Active
    /\ phase' = [phase EXCEPT ![o] = "done"]
    /\ tail' = [tail EXCEPT ![key[o]] = NoOp]
    /\ UNCHANGED <<path, kind, key, registration, pred, rank, registered, fileVars>>

\* A bug: the entry is never deleted.
FinishKeepsTail(o) ==
    /\ phase[o] \in Active
    /\ phase' = [phase EXCEPT ![o] = "done"]
    /\ UNCHANGED <<path, kind, key, queueVars, fileVars>>

\* finally: fn has returned, thrown or seen the abort signal, never while one
\* of its file operations is in flight.
Finish(o) ==
    /\ phase[o] \in Active
    /\ phase' = [phase EXCEPT ![o] = "done"]
    /\ tail' = IF tail[key[o]] = o THEN [tail EXCEPT ![key[o]] = NoOp] ELSE tail
    /\ UNCHANGED <<path, kind, key, registration, pred, rank, registered, fileVars>>

Settle(o) == ComputeKey(o) \/ RegistrationFails(o) \/ Register(o) \/ Start(o)
                \/ Read(o) \/ Write(o) \/ Tear(o) \/ Finish(o)

Next == \E o \in Ops : Call(o) \/ Settle(o)

Spec == Init /\ [][Next]_vars

\* Promises settle and file operations return.
FairSpec == Spec /\ \A o \in Ops : WF_vars(Settle(o))

-----------------------------------------------------------------------------
TypeOK ==
    /\ phase \in [Ops -> Phase]
    /\ path \in [Ops -> Paths] /\ kind \in [Ops -> {"edit", "write"}]
    /\ key \in [Ops -> Paths]
    /\ registration \in Seq(Ops)
    /\ tail \in [Paths -> Ops \cup {NoOp}]
    /\ pred \in [Ops -> Ops \cup {NoOp}]
    /\ rank \in [Ops -> Nat] /\ registered \in Nat
    /\ exists \in [Files -> BOOLEAN]
    /\ content \in [Files -> SUBSET Ops]
    /\ copy \in [Ops -> SUBSET Ops]

\* Two operations registered under one key never execute together, and they
\* execute in the order of their registration (file-mutation-queue.ts:52).
Serialized ==
    \A o, q \in Ops :
        0 < rank[o] /\ rank[o] < rank[q] /\ key[o] = key[q] /\ phase[q] # "waiting"
            => phase[o] = "done"

\* "Serialize file mutation operations targeting the same file"
\* (file-mutation-queue.ts:29): the same file, whatever paths name it.
FileExclusion ==
    \A o, q \in Ops :
        o # q /\ phase[o] \in Active /\ phase[q] \in Active => File(o) # File(q)

\* No update is lost: what an edit is about to write back is still what the file
\* holds (test file-mutation-queue.test.ts:102, "preserves both parallel edits"),
\* whatever paths name it and whichever writes failed half way, as long as every
\* operation registered for the file found it when its key was computed.
Resolved(f) ==
    \A q \in Ops : rank[q] > 0 /\ File(q) = f => key[q] = Canonical[f]
EditSeesLatest ==
    \A o \in Ops :
        phase[o] = "read" /\ Resolved(File(o)) => copy[o] = content[File(o)]

\* The map never holds a finished operation: no entry outlives its queue, and no
\* later operation waits behind a chain that is over (file-mutation-queue.ts:57).
NoStaleEntry ==
    \A p \in Paths :
        tail[p] # NoOp => /\ key[tail[p]] = p
                          /\ phase[tail[p]] \in {"waiting"} \cup Active

\* The lock a key stands for: its registered, unfinished operations in order.
Pending(p) == {o \in Ops : rank[o] > 0 /\ key[o] = p /\ phase[o] # "done"}
InOrder(S, r) ==
    CHOOSE s \in [1 .. Cardinality(S) -> S] :
        /\ \A x \in S : \E i \in DOMAIN s : s[i] = x
        /\ \A i, j \in DOMAIN s : i < j => r[s[i]] < r[s[j]]
Line(p) == InOrder(Pending(p), rank)

Lock == INSTANCE FifoLock WITH
    Keys <- Paths,
    line <- [p \in Paths |-> Line(p)],
    inside <- {o \in Ops : phase[o] \in Active}

\* The queue implements one first-come-first-served lock per key.
ImplementsFifoLock == Lock!LockSpec

\* Every call settles, whichever calls before it were rejected or failed.
AllSettle ==
    \A o \in Ops : phase[o] = "queued" ~> phase[o] \in {"done", "rejected"}

=============================================================================
