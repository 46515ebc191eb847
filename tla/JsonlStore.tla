----------------------------- MODULE JsonlStore -----------------------------
(***************************************************************************)
(* The session log in a file (packages/agent/src/harness/session/jsonl/      *)
(* storage.ts): records are appended one at a time as lines, with            *)
(* consecutive sequence numbers, and the file is read back after a crash.     *)
(*                                                                         *)
(* A line is the record it parses to, Part or Spoilt.  Bytes reach the file in *)
(* order and stay there when the process dies (it is the process that         *)
(* crashes, not the machine); an append may stop after any of them.           *)
(***************************************************************************)
EXTENDS Integers, Sequences, SequencesExt

CONSTANTS
    MaxRecords,     \* bound: records submitted
    AppendsFail     \* an append may fail although the process goes on

VARIABLES
    lines,          \* the file, without its header
    terminated,     \* it ends with a newline
    process,        \* "up", "down", "loaded" (before the tail is repaired) or "refused"
    state,          \* SessionState: the records applied
    tail,           \* operations that wait in the tail
    writing,        \* the record being appended, or Nothing
    progress,       \* how much of its line is in the file
    submitted,
    acknowledged    \* records whose operation has resolved

vars == <<lines, terminated, process, state, tail, writing, progress, submitted, acknowledged>>

Records == 1 .. MaxRecords
Record(id, seq) == [id |-> id, seq |-> seq]
Nothing == Record(0, 0)
\* Lines that do not parse: a part of a record, and anything appended to a line
\* that had no newline yet.
Part == Record(0, -1)
Spoilt == Record(0, -2)
Progress == {"none", "part", "all", "line"}

Init ==
    /\ lines = <<>> /\ terminated = TRUE /\ process = "up" /\ state = <<>>
    /\ tail = <<>> /\ writing = Nothing /\ progress = "none"
    /\ submitted = 0 /\ acknowledged = {}

-----------------------------------------------------------------------------
(* enqueue and appendMutation. *)

Submit ==
    /\ process = "up" /\ submitted < MaxRecords
    /\ submitted' = submitted + 1
    /\ tail' = Append(tail, submitted + 1)
    /\ UNCHANGED <<lines, terminated, process, state, writing, progress, acknowledged>>

\* The next operation: it takes the sequence number that follows the state's.
Begin ==
    /\ process = "up" /\ writing = Nothing /\ tail # <<>>
    /\ writing' = Record(Head(tail), Len(state) + 1) /\ tail' = Tail(tail)
    /\ progress' = "none"
    /\ UNCHANGED <<lines, terminated, process, state, submitted, acknowledged>>

\* A first part of the line, which continues a line that was not terminated.
WritePart ==
    /\ process = "up" /\ writing # Nothing /\ progress = "none" /\ progress' = "part"
    /\ lines' = IF terminated THEN Append(lines, Part) ELSE Append(Front(lines), Spoilt)
    /\ terminated' = FALSE
    /\ UNCHANGED <<process, state, tail, writing, submitted, acknowledged>>

\* All but the newline: the line parses if it holds nothing else.
WriteRest ==
    /\ process = "up" /\ progress = "part" /\ progress' = "all"
    /\ lines' = IF Last(lines) = Part THEN Append(Front(lines), writing) ELSE lines
    /\ UNCHANGED <<terminated, process, state, tail, writing, submitted, acknowledged>>

WriteNewline ==
    /\ process = "up" /\ progress = "all" /\ progress' = "line"
    /\ terminated' = TRUE
    /\ UNCHANGED <<lines, process, state, tail, writing, submitted, acknowledged>>

\* The append has resolved: the record is applied and the operation resolves.
Acknowledge ==
    /\ process = "up" /\ progress = "line"
    /\ state' = Append(state, writing.id)
    /\ acknowledged' = acknowledged \cup {writing.id}
    /\ writing' = Nothing /\ progress' = "none"
    /\ UNCHANGED <<lines, terminated, process, tail, submitted>>

\* The append fails before its last byte: the operation rejects, and the tail
\* goes on.
Fail ==
    /\ AppendsFail /\ process = "up" /\ writing # Nothing /\ progress # "line"
    /\ writing' = Nothing /\ progress' = "none"
    /\ UNCHANGED <<lines, terminated, process, state, tail, submitted, acknowledged>>

Crash ==
    /\ process \in {"up", "loaded"} /\ process' = "down"
    /\ state' = <<>> /\ tail' = <<>> /\ writing' = Nothing /\ progress' = "none"
    /\ UNCHANGED <<lines, terminated, submitted, acknowledged>>

-----------------------------------------------------------------------------
(* load. *)

Parses(line) == line \notin {Part, Spoilt}
RecordIds(records) == [i \in DOMAIN records |-> records[i].id]

\* Lines are applied while they parse and continue the sequence; only a last line
\* that does not parse is taken for a torn append.
Applies(i) == Parses(lines[i]) /\ lines[i].seq = i
TornTail == lines # <<>> /\ ~Parses(Last(lines))
Body == IF TornTail THEN Front(lines) ELSE lines
Readable == \A i \in DOMAIN Body : Applies(i)

Load ==
    /\ process = "down"
    /\ IF Readable
       THEN /\ state' = RecordIds(Body)
            /\ process' = IF TornTail \/ ~terminated THEN "loaded" ELSE "up"
       ELSE process' = "refused" /\ UNCHANGED state
    /\ UNCHANGED <<lines, terminated, tail, writing, progress, submitted, acknowledged>>

\* A bug: a torn line is skipped and stays in the file.
RepairNothingTorn ==
    /\ process = "loaded" /\ process' = "up"
    /\ terminated' = TRUE
    /\ UNCHANGED <<lines, state, tail, writing, progress, submitted, acknowledged>>

\* The torn line is dropped by a rename, or the missing newline is appended.
Repair ==
    /\ process = "loaded" /\ process' = "up"
    /\ lines' = Body /\ terminated' = TRUE
    /\ UNCHANGED <<state, tail, writing, progress, submitted, acknowledged>>

Next ==
    \/ Submit \/ Begin \/ WritePart \/ WriteRest \/ WriteNewline \/ Acknowledge \/ Fail
    \/ Crash \/ Load \/ Repair

Spec == Init /\ [][Next]_vars

-----------------------------------------------------------------------------
Line == [id : Records, seq : Nat] \cup {Part, Spoilt}
TypeOK ==
    /\ lines \in Seq(Line) /\ terminated \in BOOLEAN
    /\ process \in {"up", "down", "loaded", "refused"}
    /\ state \in Seq(Records) /\ tail \in Seq(Records)
    /\ writing \in [id : Records, seq : Nat] \cup {Nothing} /\ progress \in Progress
    /\ submitted \in 0 .. MaxRecords /\ acknowledged \subseteq Records

\* A session can be read again after any crash, and a process that has read it
\* knows every record that was acknowledged: only "the unacknowledged partial
\* append" is dropped (storage.ts:86).
AcknowledgedReadable ==
    /\ process # "refused"
    /\ process \in {"up", "loaded"} => \A id \in acknowledged : \E i \in DOMAIN state : state[i] = id
=============================================================================
