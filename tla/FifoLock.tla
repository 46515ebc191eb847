------------------------------ MODULE FifoLock ------------------------------
(***************************************************************************)
(* What "serialize operations targeting the same file, run the others in    *)
(* parallel" promises: one first-come-first-served lock per key.            *)
(***************************************************************************)
EXTENDS Sequences, SequencesExt

CONSTANTS Ops, Keys

VARIABLES
    line,    \* line[k]: the operations registered for k and not yet finished
    inside   \* the operations that are executing

lockVars == <<line, inside>>

LockInit == line = [k \in Keys |-> <<>>] /\ inside = {}

Arrive(o, k) ==
    /\ \A l \in Keys : o \notin ToSet(line[l])
    /\ line' = [line EXCEPT ![k] = Append(@, o)]
    /\ UNCHANGED inside

Enter(o, k) ==
    /\ line[k] # <<>> /\ Head(line[k]) = o
    /\ o \notin inside
    /\ inside' = inside \cup {o}
    /\ UNCHANGED line

Leave(o, k) ==
    /\ o \in inside /\ line[k] # <<>> /\ Head(line[k]) = o
    /\ inside' = inside \ {o}
    /\ line' = [line EXCEPT ![k] = Tail(@)]

LockNext == \E o \in Ops, k \in Keys : Arrive(o, k) \/ Enter(o, k) \/ Leave(o, k)

LockSpec == LockInit /\ [][LockNext]_lockVars

=============================================================================
