# A verification project for the agent

TLA+ models, TLC configurations and TLAPS proofs for the part of this
repository where order, interleaving and failure decide whether it is correct:
the agent and its loop, the session above it with its retries and compactions,
the repair of conversations, the queue that serializes file edits, the server's
live sessions and its snapshots, the client's leases, the SQLite writer lease, the
JSONL log and the refresh of stored credentials. `PROJECT.json` lists the runs,
the mutants, the theorems, and for each definition the lines of the source it
translates.

Everything here is JavaScript: one thread, and interleaving wherever code
awaits. **An action is the code from one `await` to the next.** What happens
inside it cannot be interrupted; what was read before it may be stale after it.

## Inventory

Paths are relative to `src/packages`. "Hard" names what a unit test would hardly
reach; the hazards in `PROJECT.json` give the lines.

### Core: the agent

| component | state | operations | interacts with |
|---|---|---|---|
| **Agent** `agent/src/agent.ts` | transcript, steering and follow-up queue, active run and its signal, pending calls | prompt, continue, steer, followUp, clear*, abort, reset, failure and end of a run | calls the loop; reduces the loop's events; is called by listeners and the agent session |
| **Agent loop** `agent/src/agent-loop.ts` | its copy of the conversation, pending messages, the tool batch of the turn | turns, requests, sequential, parallel and truncated batches, polls of the queues | polls the agent's queues, calls the provider, tools and hooks, emits events |
| **Conversation repair** `ai/src/api/transform-messages.ts` | none between calls | second pass: pair tool calls with results | between the loop and every provider |
| **Agent session** `coding-agent/src/core/agent-session.ts` | streaming, compaction and retry flags, queues shown to the user | prompt, steer, abort, retry, compaction, model changes | drives the agent, persists its events |

*Hard:* users steer, abort and reset between any two awaits of a run; a listener
may reject in the middle of a tool batch whose other calls go on; the
conversation is kept twice. *Correct when:* every message reaches the model
once and in order, the two copies agree whenever the model is asked, every
request is one that providers accept, batches respect their mode, every run
comes to rest. *Agent session, hard:* its own flags are set several awaits
after they are tested, and retry, compaction and abort overlap. *Correct when:*
the flags, the queues shown and the conversation stay consistent, retries and
recoveries are bounded, and prompts and waits for idle end.

### Core: tools

| component | state | operations | interacts with |
|---|---|---|---|
| **File mutation queue** `coding-agent/src/core/tools/file-mutation-queue.ts` | registration chain, map from key to the last promise | withFileMutationQueue | asks the file system for real paths |
| **File tools** `.../edit.ts`, `write.ts` | the file system | edit (read, change, write back), write | run under the queue, started by parallel batches of the loop |
| **Harness file tools** `agent/src/harness/tools/` | the same queue, one per execution environment | the same, with file operations that take the abort signal | execution environments |

*Hard:* keys are computed asynchronously, from a file system the operations
themselves change. *Correct when:* operations on a file exclude each other in
the order of the calls, no update is lost, nothing waits for ever.

### Core: client and server

| component | state | operations | interacts with |
|---|---|---|---|
| **Live sessions** `server/src/sessions.ts` | live and opening sessions, attachments, operation counts | attach, create, detach, operations, disposal, termination, close | acquires runtimes from the session service, sends to connections |
| **Server connections** `server/src/server.ts`, `connection.ts` | connections and their phase | handshake, dispatch, disconnect, close | calls live sessions and the publisher |
| **Snapshot publisher** `server/src/snapshots.ts` | revision, broadcast chain | get, broadcast | lists sessions, sends to every connection |
| **Client leases** `client/src/client.ts`, `state.ts` | leases per session, cached snapshots with revisions | acquire, release, reconcile, invalidate | sends requests to the server, applies its events |
| **Remote session** `coding-agent/src/client/remote-session.ts`, `server/create-harness.ts` | a view of a server's session | the session's commands | a client lease, events |
| **Client connection** `client/src/connection.ts`, `session-handle.ts` | pending requests | request, respond, close | transports |
| **Wire protocol** `protocol/src/` | the frame being decoded | encode, push | both ends |
| **Unix listener** `server/src/transports/unix/listener.ts` | socket file | listen, probe, remove | the file system |

*Hard:* opening, disposal, termination and close of one session overlap with
attachments that are resumed late; snapshots and revisions arrive out of order.
*Correct when:* a session has one runtime, it is not disposed in use and is
disposed once unused, close leaves nothing, an attached client controls and
observes the live session, and a client never replaces a newer snapshot by an
older one.

### Core: persistence

| component | state | operations | interacts with |
|---|---|---|---|
| **SQLite backend** `session-backends/sqlite-node/src/sqlite/` | writer leases and fences, log rows | acquire, heartbeat, append, release | a database shared by processes |
| **JSONL storage** `agent/src/harness/session/jsonl/` | the file, the position of its end | append, load, repair | crashes |
| **Session state, reducer** `agent/src/harness/session/state.ts`, `reducer.ts` | lanes and entries derived from a log | apply a record | both storages; the reducer is a pure function that only tests call |
| **Harness events** `agent/src/harness/events.ts` | watchers and their buffers | emit, watch | harness and reducer |
| **Event stream** `ai/src/utils/event-stream.ts` | queue, waiting readers, final result | push, end, iterate, result | providers and the loop |
| **Credential storage** `coding-agent/src/core/auth-storage.ts` | credentials file and its lock | get, set, refresh | processes that share the file |
| **Agent harness** `agent/src/harness/agent-harness.ts` | none to speak of | at this commit nearly every operation rejects with `HarnessNotImplemented` | meant to orchestrate the parts above |

*Hard:* a writer that lost its lease still has queued operations; a crash tears
the last line. *Correct when:* acknowledged records survive in order, only the
holder of the lease writes, a refresh token is used once.

### Periphery

Providers (`ai/src/api`, `ai/src/providers`) and OAuth flows translate to
vendors' HTTP interfaces. The session manager is a synchronous tree of entries
over a file. Settings, package and resource loading, modes and the command line,
terminal UI, telemetry, evaluations and the desktop application are input,
output, presentation or configuration with little concurrent state. None of
them is planned; `PROJECT.json` gives the reason for each.

## Modules

| module | role |
|---|---|
| `Agent` (extends `TransformMessages`) | the agent and its loop |
| `AgentSession` | the coding agent's session, over a run reduced to what it sees of it |
| `TransformMessages`, `MCTransformMessages` | the repair, as a fold, and what providers accept; the repair of every short conversation |
| `FileMutationQueue` | the queue with edit and write under it |
| `FifoLock` | what the queue promises: one first-come-first-served lock per key |
| `LiveSessions` | live sessions with the connections that use them |
| `SessionLeases` | the client's leases on a session, with the server as a peer over a channel that may close |
| `ServerSnapshots` | revisions and broadcasts of the server's list, and the clients that apply them |
| `SqliteLease` | writer leases, fences, heartbeats and write queues of processes that share a database |
| `JsonlStore` | the session log in a file, with crashes inside an append |
| `OAuthRefresh` | a stored credential that many tasks refresh under a lock |
| `MCAgent`, `MCAgentSession`, `MCFileMutationQueue`, `MCLiveSessions` | instances for TLC |
| `MCParts` | `LiveSessions`, `MCTransformMessages`, `SessionLeases`, `ServerSnapshots`, `JsonlStore`, `SqliteLease`, `OAuthRefresh` in one run |
| `MCProgress` | liveness of `Agent`, `LiveSessions` and `AgentSession` in one run |
| `Agent_proofs`, `AgentSession_proofs`, `FileMutationQueue_proofs`, `LiveSessions_proofs`, `SessionLeases_proofs`, `SqliteLease_proofs`, `TransformMessages_proofs` | theorems about the component each is named after |
| `MCParts_proofs` | the theorems of the last four, of the composition that is run, and those about `OAuthRefresh`, `ServerSnapshots` and `JsonlStore` |

Each component module also holds a few operators commented "A bug": plausible
mistakes in that code. Nothing uses them; they replace the definition they
follow to show that a property notices.

### Agent

`messages`, `steeringQueue`, `followUpQueue`, `active`, `aborted` and
`pendingToolCalls` are the fields of the `Agent`; `context`, `pending`,
`skipPoll`, `hasMoreToolCalls` the locals of `runLoop`; `mode`, `calls`, `st`,
`terminating`, `answered` those of the tool batch; `pc` is the await the run
stands at. `submitted`, `dropped` and the counters are history and bounds.

User calls (`Steer`, `FollowUp`, `ClearSteering`, `ClearFollowUps`, `Abort`,
`Reset`, `Prompt`, `Continue...`) are enabled whenever the code accepts them,
between any two steps of a run. Emitting an event reduces it into the agent
(synchronously) and then awaits the listeners, so the reduction belongs to the
emitting action. A turn is `Inject`* `Request` `Respond`, then `ToolStart`,
`ToolRefused`, `ToolPrepared`, `Launch`, `ToolEnd`, `Answer` for each call,
`BatchDone`, and `StopAfterTurn` or the polls. `Throw` is anything the run
awaits that rejects; in a parallel batch it has a culprit and the other running
calls become `orphans`, whose ends (`OrphanEnd`) still reach the agent, in the
failed run, in none, or in the next. `RecordFailure` and `FailureThrows` are
`handleRunFailure` and its own rejection, `FinishRun` the `finally`.

Abstracted: message contents; the deltas of a stream (the final message is one
outcome); which tool, arguments and hook verdicts (nondeterministic choices with
the same control flow); `clearAllQueues` is its two clears. The reason recorded
for a failed run is either of the two once the signal is set, since the signal
may be set between the throw and the record. Left out: a `prepareNextTurn` hook
that replaces the loop's context, which by design breaks the agreement of the
two copies.

### AgentSession

`isAgentRunActive`, `steeringMessages`, `followUpMessages`, `retryAttempt`,
`overflowRecoveryAttempted` and `lastAssistant` are fields of the session (the
two lists hold texts, as the code's do),
`pendingBash` and `pendingCustom` the messages it puts off while streaming,
`sleeper` the retry's abort controller. Each caller of `prompt()` or
`sendCustomMessage()` has a `pc` that names the await it stands at: `input`
handlers, `auth`, the compaction before the prompt, the hooks before the run,
the run (`Driving`), and the `finally` block. The agent below is `run`, how far
its active run is; `RunStep` is all the session sees of it: polls, messages
delivered, answers by what the session makes of them (`retryable`, `overflow`,
`length`, `full`, ...), `turn_end`, `agent_end`. `PostRun`, `PostCheck`,
`CompactRetry`, `CompactFails` and `Continue` are `_handlePostAgentRun` and
`_runAutoCompaction`; `Compact`/`CompactEnd` the user's compaction, `Abort` the
user's abort, `Settled` `_resolveIdleWaitIfIdle`. A message is its text, which
is all that the lists and the queues tell apart here: `NoText` is that of a
message with images alone, and two messages may have equal texts. `Deliver` takes
every message of the user that the agent emits, the prompt's own included, off
the lists as the code does (`TakeOff`): by its text if it has one, the first
entry that equals it, in the steering list before the follow-up list. `trail` and `saved` are the
assistant messages at the end of the transcript and of the session's file, which
is as much as retry, recovery and `agent.continue()` look at.

Two prompts can pass the `isStreaming` check together, since the flag is set
several awaits after it is tested (agent-session.ts:1086); the second is refused
by the agent and its `finally` clears the flag under the first one's run.
`raced` records this. What the flag should mean while a prompt drives the agent,
and what is put off because of it, is stated of executions without the race; that
the session is never left busy with nobody to make it idle is stated of all. Observed while modelling: `abort()` during an automatic compaction
does not reach it (there is no such signal to set in `StopWork`), and `isIdle`
is true during the compaction before a prompt. Settings are taken as enabled.
Left out: compactions an extension provides, `nextTurn` messages, model changes,
tree navigation and the replacement of sessions; why a compaction is not tried (a
`length` answer that cannot be recovered, a message of another model) is one
choice of `Compacts`; a tool batch whose results all end the run, which the loop
allows, is the same as an answer without calls to the session.

### TransformMessages

The second pass of `transformMessages`, message by message, with its three
pieces of state (output, pending calls, seen results) and with the detail that
`seen` is reset only together with pending calls. The first pass rewrites
contents (images, thinking, identifiers) and never adds, drops or reorders a
message.

### FileMutationQueue

`registration` is the promise chain behind `registrationQueue`, `tail` the map
`fileMutationQueues`, `pred` the promise an operation awaits, `exists` and
`content` the file system; `content[f]` is the set of operations whose effect
the file shows, so a write-back of a stale copy is a set that lost a member.
`Target` and `Canonical` are what path names lead to and their real paths.
`ComputeKey` and `Register` are separate since `realpath` is awaited between
them, `RegistrationFails` is a `realpath` error other than a missing file,
`Finish` may come at any point of the operation, never while one of its file
operations is in flight (both tools await them without the signal). The harness
tools pass the signal on: `Tear` is a write that was aborted half way.
`FifoLock` has a queue per key and a set of operations inside; it is implemented
(`Lock`, `ImplementsFifoLock`) with `line[k]` the registered, unfinished operations of `k` in order of
registration.

### LiveSessions

`live` is every `LiveSession` created so far, with the promise it stands at in
`stage`; `liveSessions` and `openingSessions` are the two maps, holding indices
into `live`; `req` are the requests being served, each at one of the awaits of
`acquire`, `attach`, `detach` or `runOperation`; `conn` and `sessionIds` are the
connections; `closing` is how far `PiServer.close` has come. Events of a runtime
are `RuntimeBusy`, `RuntimeIdle`, `RuntimeEvent` and `RuntimeError`, followed by
the two later steps of `terminate`.

Scheduling: requests resume from awaited promises in microtasks, in any order
the model allows; what a transport delivers (`AttachRequest`, `Detach`,
`Operate`, `Disconnect`, the end of a listener's close) is a task of its own and
finds all microtasks done. The operator `TaskOrder` keeps just as much of this
as matters: no such delivery while a request whose awaited disposal is over has
not gone on. Without it, the model would let a delivered request open a session
first and a resumed one find it in a state the code never shows it.

Abstracted: snapshots are read and sent but never stored, so only the await
remains; `create` is `attach` for an identity nobody used before; the rejection
of a disposal changes the waiting request (`WaitFails`) and nothing else;
`close` does not wait for disposals that connections' ends began, as the code
does not. Handshakes and protocol errors end in `Disconnect`.

### SessionLeases

`count`, `exclusive`, `generation`, `cleanupRequired` are the client's maps at
one session, `attached` and `snapshot` what `ClientState` holds of it, `promise`
the request of each kind that is under way and joined by later callers. Every
caller of `acquireSession` has one `phase` per await: a detachment under way,
the reconciliation of a failed one, the attachment, its own detachment.
`Acquire`, `After...`, `Release` and `Released` are the code between them;
`Connect`, `Disconnect` and `Removed` invalidate leases. The server is `Serve`, a
peer reduced to its answers (`attach` and `detach` of `sessions.ts`, which
`LiveSessions` models): whoever attaches to a session that nobody was attached
to opens it anew, and its revisions start again. An attachment to a session
whose disposal has begun is not among its answers; that is the finding
`LiveSessionsStaleAttach`. `Quiet` says that a message is
handled, or a call made, when all continuations of what came before have run;
several messages in one chunk are left out. A failed attachment gives the
forgotten snapshot back (`RestoreSnapshot`).

### ServerSnapshots

`version` stands for the list of sessions, a snapshot pairs the revision that
was taken first with the version that was listed later. `PerformBroadcast`,
`ListForBroadcast`, `SendBroadcast`, `EndBroadcast` are `performBroadcast`
between its awaits, one at a time; `Hello`, `Listed`, `Greeted`, `ListedAgain`,
`CaughtUp` are `finishHandshake`; `Apply` is the client's `applyServerSnapshot`.
Listings do not fail here (a listed hazard).

### SqliteLease

`row` is the session's row of `writer_leases` with its remaining life,
`storages` the storage objects ever claimed, each with its operation queue,
heartbeat timer and flags, `active` the storages of a session that each
repository knows (`create()` adds one without looking whether another is there,
after a deletion elsewhere for instance), `operation` the operation that waits
for their release: close, delete and repair release all of them at once
(`ReleaseActive`). A queued operation is one
synchronous transaction, so `Write` and `Heartbeat` are single steps; each may
also fail and change nothing. `Release`, `Begin`, `Released` are a release in
its turn behind the writes that were accepted; `Crash` leaves the row. `Tick`
lets time pass, and marks a storage `kept = FALSE` if a heartbeat was due or an
operation waited: lateness is the only excuse that `PromptOwnerKeepsLease`
grants. An owner is the number of its claim, which no other claim has, so that
the fence compared beside it is left out. `close()` of a repository blocks its
other operations; forks are `Create`.

### JsonlStore

`lines` is the file, where a line is the record it parses to, `Part` of one, or
`Spoilt` (something appended to a line that had no newline). `WritePart`,
`WriteRest`, `WriteNewline`, `Acknowledge` are one append; a `Crash` between
them leaves what was written. `Load` accepts lines that parse and continue the
sequence, and a torn last one; `Repair` drops it or supplies the missing
newline. The process crashes, not the machine: bytes that were written stay.
`AppendsFail` adds appends that fail while the process goes on (disk full):
`MCParts` runs without, `JsonlFailedAppend` with it.

### OAuthRefresh

`file` is the provider's credential in `auth.json`, `holder` the lock's,
`stored` and `current` the two reads of `resolveStoredOAuth`, before and under
the lock. `Rotate` is the provider, which accepts a refresh token once and
revokes a login whose token comes twice; `Store` is the write under the lock.
`Fail` is a rejection, a timeout or an abort, `Crash` a process that dies with
the lock, `Stale` its removal, `Compromise` a lock that was lost by a suspended
process. A request that was given up while the provider was asked may have come
to nothing, or is still under way (`late`) and rotates the token at any time later
(`RotateLate`). `cut` records that a refresh was given up when its token could
still be spent or was, or that its lock was lost, and `StoredIsValid` says
nothing after that.
API keys and runtime overrides are left out.

### MCParts and MCProgress

The components in them share no state. `MCParts` chooses at the start which
`part` runs; the others stay at their initial state, so what holds of all its
behaviours is what holds of each component by itself, and no interleaving of two
components is claimed or needed. `Live` is instantiated with the constants of
its own, and its connections and requests are a symmetry set, which no other
part mentions. `MCProgress` does the same for three components with liveness; there
is no symmetry in it. Its properties name the part they are about and the
fairness that is assumed of it (`part = "live" /\ Live!Fairness =>
Live!UnusedReleased`). Since the part never changes, and the others have nothing
to do, this says the same as the fairness of all in the specification would, and
TLC need not evaluate the fairness of one component along the behaviours of
another.

## Runs

`tlc -config X.cfg M` in this directory. `CHECK_DEADLOCK` is off in every run:
each of these systems may stop, an idle agent with no input left, a queue with
every operation finished, a closed server.

| run | bounds | what it shows |
|---|---|---|
| `AgentRuns` | 2 runs, 1 failure; *tools*: 2 messages (prompts and steering), 2 tool turns of up to 2 calls; *queues*: 3 messages of every lane, 1 tool turn of 1 call, the drain modes of the two queues exchanged | `FifoPerLane`: no message is delivered twice and no lane overtakes itself, over polls, `continue()`, aborts, failures; `NothingLost`: unless something threw; `ContextIsTranscript`: both copies agree at every request; `WellPairedRequest`, `AnsweredUnlessAborted`, `ResultsInSourceOrder`, `OneCallAtATime`, `PendingToolCallsExact`, over every batch mode, abort, early stop, failed batch and orphan |
| `AgentSessionUse` | *race*: 2 callers, 2 messages with text, 1 retry, 1 tool turn, 1 context-only message; *queueing*: 1 caller at a time, 3 messages, with images alone or with equal texts too | `ShownIsPending`: no text is listed as queued more often than the agent has it queued or in hand; `BusyWhileDriving`: the flag is set while a prompt is under way, and never left set without one; `ResultsFollowCalls`: nothing comes between a call and its result; `WillRetryKept`: `agent_end` announces a retry exactly when one follows |
| `FileQueueLock` | 3 operations, 2 paths to 1 file (one a link), existing or not | `Serialized`, `NoStaleEntry`, `EditSeesLatest`; the queue implements `FifoLock`; `AllSettle`: every call settles |
| `Parts` | below | the safety of seven components |
| `Progress` | agent: 2 messages, 2 runs, 1 tool turn of 1 call, 1 failure; live sessions: 1 connection, 1 session, 2 requests, 2 runtimes; agent session: 1 caller, 2 messages, 1 retry | `RunSettles`: every run comes to rest; `UnusedReleased`, `RuntimesReleased`; `PromptsEnd`, `WaitersGoOn` |
| `AgentSessionQueue`, `FileQueueAlias`, `LiveSessionsStaleAttach`, `LiveSessionsTerminalAttach`, `AgentSessionRecovery`, `JsonlFailedAppend`, `ServerSnapshotsMissed` | small | *violations*, see findings |

`Parts`, component by component:

| component | bounds | what it shows |
|---|---|---|
| `LiveSessions` | 2 connections, 1 session, 2 requests at a time, 2 runtimes | `OneRuntimePerSession`, `NoDisposalUnderOperation`, `ReceiversAreAttached`, `NothingLeftLive` |
| `MCTransformMessages` | every conversation of up to 4 messages over 2 call identities | `EveryCallAnswered`, `KeepsTheRest` |
| `SessionLeases` | 3 callers, 2 connections, revisions 0 and 1 | `LeaseHolds`: a lease that still counts is attached on both sides; `ExclusiveAlone`; `NoneLeftAttached`: the server's attachment is not forgotten |
| `ServerSnapshots` | 2 clients, 2 changes | `UpToDate`: a client that missed no broadcast ends with the current list |
| `JsonlStore` | 4 records, any number of crashes | `AcknowledgedReadable`: after any crash the file loads, with every acknowledged record |
| `SqliteLease` | 2 repositories, 2 claims, lease of 3 and heartbeat of 1 unit, 1 queued write | `StaleOwnerFenced`; `PromptOwnerKeepsLease`: also with one heartbeat that fails |
| `OAuthRefresh` | 2 tasks, 2 logins, 3 tokens of each, 1 late request at a time | `StoredIsValid`: the file holds the token the provider accepts |

Why the bounds are enough. *Agent:* three messages put two in one lane and one
in another, or one in the run's hands and two queued; two runs let what the
first leaves behind (queued messages, orphans, a failed turn) meet the second;
two calls have every order of preparation, execution and settlement that a pair
can have, and two tool turns let a batch find what the one before left. That a
run comes to rest is checked with two messages, one for its prompt and one that a
poll finds, and a second run after what the first one left; with one call a turn
no call outlives its batch there, and nothing waits for one that does. *Agent
session:* two callers are one in a run and one at any await of its own; one
retry followed by its failure is the last allowed one; two messages are one
drained and one queued, three are one in hand and one in each queue, whose texts
may be equal or empty. *Repair:* four messages hold a call, a missing, late and
repeated result and what follows. *Queue:* three operations under one key are a
holder, a waiter and one whose entry must survive the holder's clean-up; two
paths make the two keys a file can have. *Live sessions:* two requests are one
suspended and one that changes what it will find; two runtimes are one on its
way out and its successor; a second session would share nothing with the first
but the connection's list. *Leases:* three callers are one that gives up the
attachment, one that waits for it and one that comes later; two connections are
a lease and what it finds after a reconnection. *Snapshots:* two clients are one
whose broadcasts the other must not miss; two changes are one during and one
after a handshake. *JSONL:* four records are torn, whole and following ones.
*SQLite:* a claim and the one that takes it over; a lease of three units
survives one missed heartbeat and not two. *Credentials:* two tasks that race, a
second login that must not be overwritten, three tokens so that a stale one
differs from both its neighbours; one late request is enough to spend the stored
token. Theorems below say the same of every safety
property that these runs check, for every bound.

Fairness. `Agent`: weak fairness of the loop's steps together: a started promise
chain goes on, a provider answers, a tool settles. It is not assumed of users,
orphans or failures. `FileMutationQueue`: of each operation that was called:
promises settle and file operations return. `LiveSessions`: of each pending
request, of each session's own steps (the service answers, a runtime is
disposed, an operation ends, a busy runtime becomes idle, a terminating
connection closes) and of `close`. `AgentSession`: of the run's steps, of each
caller's, and of the end of a manual compaction: the model answers, timers fire,
extensions and summaries return. All of these are promises that were already
obtained; nothing is assumed of clients, users or of the order of arrival.

## Proofs

TLAPS checks these for all values of the constants, under the assumptions the
component modules name: `AgentAssumption` (modes and bounds are what their names
say), `SessionAssumption` and `RuntimesAssumption` (bounds are numbers),
`QueueAssumption` (`Canonical` is a right inverse of `Target`, `NoOp` is no
operation), `LeasesAssumption` (callers are finitely many, since they are
counted), `LeaseAssumption` (a heartbeat interval of at least one unit, shorter
than the lease, which `resolveWriterLeaseOptions` enforces), `TokensAssumption`
(bounds are numbers, and no task has the name of the two other states of the
lock). TLC evaluates all of them; those of the parts of `MCParts` as its
`PartsAssumption`, with the bounds of the two parts that have no other.

`TransformMessages_proofs` is about conversations of any length. The pass is a
fold, and the library's induction theorems cannot be cited, so induction is
stated over sets: `LeastNumber` (from the well-foundedness of the order of
numbers) gives `NumbersReached` and `SequencesReached`, by which a set with the
empty sequence that is closed under `Append` has every sequence. `PassIter` is
the table of what the fold computes at each set of places; `PassAppend` follows,
that one more message is one more step, and `KeepingAppend` for the filter.
After these two no proof looks into a fold.
* `RepairAnswers`: whatever the history lacks, each assistant message of the
  repaired conversation is followed by a result for each of its calls. The
  invariant of the pass (`Answering`) says that of all messages but the last one
  replayed, whose open calls are pending.
* `RepairKeeps` and `RepairLosesNone`: what the user said and what is replayed
  stays in order, and no result is lost.
* `RepairPairs`: of an `Orderly` conversation, one whose results answer the
  calls of the message before them in order, though perhaps not all of them,
  providers accept the repair. The invariant (`InOrder`) says that the output is
  paired up to its last message, that this one has its first so many results,
  and that those are the ones seen, so that the insertion adds the others and
  none twice. For that the calls of a message must be distinct.

`Agent_proofs`:
* `TypeCorrect`: `[]TypeOK`.
* `BatchInvariant`: `[]BatchInv`, from which `SequentialBatches`,
  `TurnsAnswered` and `PendingCallsExact` follow. `PendingToolCallsExact` is not
  inductive alone: a call that ends is removed by identity, so the proof needs
  `NamesInv` (calls of a batch have different identities, all newer than those
  of any orphan, so an orphan's end removes nothing of the current batch), and
  `ActiveInv` (a run is active exactly when the loop is somewhere) to keep a run
  from starting inside another. The sequential order needs `AnsweredInv` (what
  is answered is over).
* `ContextInvariant`: `[]ContextInv`, which says by how much the two copies differ
  at each await: by the prompts still to emit while prompting, by the results
  already emitted while in the batch, by nothing elsewhere. `ContextCorrect`:
  `[]ContextIsTranscript` follows.
* `ResultsFollowTheSource`: `[]ResultsInSourceOrder`. The property is about
  blocks (an assistant message and the results after it); `ResultsOrdered` says
  the same place by place, which an appended message does not disturb. A result
  is appended by the batch alone, and it is in its place because the loop's copy
  still ends with the message whose calls run (`BatchSource`, with `ContextInv`).
  That a block has an end is the least number beyond it (`LeastNumber`).
* `RequestsWellPaired`: `[]WellPairedRequest`. The transcript is orderly in every
  state (`OrderInv`): results are in the order of their calls, they follow a
  message that is replayed, and calls have different names. `RepairPairs` says
  the rest, since a request holds what the two copies agree on. That the message
  whose batch runs is not a skipped one is part of `BatchSource`.
* `LanesInOrder` and `MessagesKept`: `[]FifoPerLane` and `[]NothingLost`, from
  `QueuesInvariant`. `FifoInv` takes the log of submissions, the transcript, what
  the run has in its hands and the two queues apart: numbers of submissions grow
  inside each of them, and from each to the next in every lane. `PendingInv`: the
  run has messages in its hands only where it emits them; otherwise a poll would
  overwrite them. `KeptInv` is `NothingLost` by identities. Every step is one of
  a few moves (submit, drain a queue, deliver the head, reply, drop), with a
  lemma each.

`FileMutationQueue_proofs`:
* `TypeCorrect`: `[]TypeOK`.
* `QueueInvariant`: `[]QueueInv`. `Serialized` alone does not survive `Start`,
  which only looks at the operation before: `PredInv` says that nothing under
  the key was registered between an operation and its predecessor, and that all
  is done where there is none; `TailInv` that the map's entry is the last one
  registered and not done, and that all is done where there is no entry;
  `RankInv` that ranks are distinct and bounded by the count. `KeysSerialized`
  and `EntriesFresh` follow.
* `FilesExcluded`: under `CanonicalOnly` (each path is its file's real path) a
  key is a file, so operations on one file exclude each other. The finding
  `FileQueueAlias` shows that the hypothesis cannot be dropped.
* `NoLostUpdate`: `[]EditSeesLatest`, without that hypothesis: the property
  itself is about the files whose registered operations all found them; such a
  file cannot have been otherwise before (`ResolvedBefore`), and its operations
  share a key.
* `QueueIsLock`: `Spec => ImplementsFifoLock`, the refinement. `Line(p)` is the
  set of pending operations of a key, sorted by rank; `OrderIs` says that a set
  has one sorted list (of two, look at the first place where they differ), so
  that a list which is shown to be sorted is the line. `LinesInv` says that each
  line is. `Register` maps to `Arrive`, since the new rank is the greatest,
  `Start` to `Enter` and `Finish` to `Leave`, since `PredInv` and `Serialized`
  make the operation the first in line; every other step leaves line and inside
  alone.

`SqliteLease_proofs`:
* `TypeCorrect`: `[]TypeOK`.
* `StaleOwnersFenced`: `[]StaleOwnerFenced`. `RowInv` says that the lease is the
  last claim's or nobody's; a write renews the lease of its own claim in its
  transaction, so a claim that was followed by another cannot write.
* `PromptOwnersKeep`: `[]PromptOwnerKeepsLease`, whatever the lease, the
  interval and the failures. The invariant `HasLease` is a balance: of a storage
  that was never late, the life of the lease, plus an interval for every
  heartbeat that failed since the last renewal, plus the time since the timer
  was set, is at least the lease's length (`Ttl`). `FailuresFit` shows that the
  tolerated number of failures leaves more than one interval, so that life is
  left at every tick. The rest of `LeaseInv` (a repository shares a storage of
  its own; without a timer a heartbeat is queued) makes sure that nobody else
  can claim it meanwhile.

`AgentSession_proofs`:
* `TypeCorrect`: `[]TypeOK`.
* `IdleMeansIdle`: `[]BusyWhileDriving`, and `ContextsWait`:
  `[]ResultsFollowCalls`. `DrivenInv`, that the flag is not set with nobody left
  to clear it, holds whatever calls race, since only the `finally` block of a
  call that drives leaves `Busy`, and it clears the flag. The rest is about
  executions in which no two calls passed the `isStreaming` check together:
  `ControlInv` says who waits for the run and for the timer; `SingleInv` that a
  call drives the agent exactly when the flag is set, and at most one does.
* `RetriesAsAnnounced`: `WillRetryKept`, an action property. `AnnounceInv` says
  that the message `_handlePostAgentRun` looks at is the one `agent_end` was
  decided on.
* `DeliveredIsNotShown`: `[]ShownIsPending`. The lists and the queues change at
  different events, and a delivery takes the first entry with the message's text,
  whichever message that was made for; so nothing relates the places of the two
  sides, and the argument counts. The `Occurrences...` lemmas say how often a text
  is in a sequence after an append, a removal and a drain; no step then adds to
  the lists more than to the queues, and the one that takes a text from the run's
  hands takes one off the lists if there is one (`ShownStep`). Draining would
  forget what the run has in its hands; `HandsInv` says that it has nothing then.

`LiveSessions_proofs`:
* `TypeCorrect`: `[]TypeOK`; with `OpsInv`, since `operationCount` would be
  decremented below zero if it were not the number of requests that operate.
* `LiveInvariant`: `[]LiveInv`, the conjunction of the above with the following.
* `OneRuntime`: `[]OneRuntimePerSession`. An acquisition finds no entry in either
  map; that no runtime is held then needs `OpeningsInv` (what is opened is what
  the identity is being opened with) and `TableInv` (what is live or being
  disposed is what the identity leads to). `close` empties the second map while
  disposals go on, so `CloseInv` and `WaitInv` have to say that nobody can ask
  any more, and that whoever still waits for a disposal finds nothing live.
* `NoDisposal`: `[]NoDisposalUnderOperation`: `maybeDispose` looks at the count.
* `OnlyAttachedReceive`: `[]ReceiversAreAttached`. `UseInv` says that a runtime
  which is not live yet has nobody attached.
* `ClosedIsClosed`: `[]NothingLeftLive`, from `CloseInv`: what `close` waits for
  (`awaited`) is all there is to wait for.

`SessionLeases_proofs`:
* `LeaseInvariant`: `[]LeaseInv`, and `TypeCorrect`.
* `LeasesHold`: `[]LeaseHolds`; `ExclusiveIsAlone`: `[]ExclusiveAlone`;
  `NoneForgotten`: `[]NoneLeftAttached`. The three need one another. The count
  is that of the callers who hold a lease or are about to (`CountInv`), as long
  as connection and session are the same; afterwards it is only bounded. A
  release that leaves the count at zero is therefore the last, and nobody
  attaches beside it (`PhaseInv`). `WaitsInv` ties promises to the callers who
  wait for them. `ServerInv` says by which answer on its way the two sides
  differ. `DownInv` is what an invalidation leaves.

`MCParts_proofs` carries the theorems of `LiveSessions_proofs`,
`SessionLeases_proofs` and `SqliteLease_proofs` over to `MCParts`: a step of the
part that runs is a step of its component, every other component stutters, and
the two instances of a module are equal by definition. Its theorems are thus
about the very properties that the run `Parts` checks. It also proves:
* `CallsAnswered`: `[]EveryCallAnswered`, and `RestKept`: `[]KeepsTheRest`. The
  conversation is one of messages (`SavedInv`); what the repair does to any such
  is `RepairAnswers`, `RepairKeeps` and `RepairLosesNone`.
* `StoredTokensValid`: `[]StoredIsValid` of the credentials. It is about the
  moments when nobody holds the lock; until something is cut off, `HolderInv`
  says that whoever is at the provider has the lock and has read what is still
  in the file, and `StoredInv` what the provider accepts meanwhile; `LoginsInv`
  that logins are numbered as they are made, so that a new one is not mistaken
  for another's.
* `ClientsUpToDate`: `[]UpToDate` of the snapshot publisher. `RevisionInv` says
  that revisions come from one counter and that a list which changed after it was
  listed is followed by a broadcast; `HandshakeInv` says, for each await of the
  handshake, that a client shows the current list, or that what it lacks is on
  its way (`OnItsWay`), or will be fetched because its revision is behind.
* `AcknowledgedStays`: `[]AcknowledgedReadable` of the session log, without
  appends that fail while the process goes on (the finding `JsonlFailedAppend`
  is about those). `FileInv` says that the lines are records that continue one
  another, but for a torn last one, and that what was acknowledged is among them;
  `StateInv` that the state of a process is what the file holds, but for the
  record that is being appended; `WritingInv` how far an append is and what the
  file then ends with.
* `PartsTyped`: `[]TypeOK`, of whichever part runs.

Every invariant and every action property of a passing run is thus a theorem,
and so is the refinement. Only model-checked: liveness (`RunSettles`,
`AllSettle`, `PromptsEnd`, `WaitersGoOn`, `UnusedReleased`,
`RuntimesReleased`), since the prover does not reach ENABLED and with it
fairness; and what the findings show, which only an execution can.

## Findings

* `AgentSessionQueue`: "`queue_update` emits the full pending steering and
  follow-up queues" (`coding-agent/docs/json.md:31`), but a delivered message is
  taken off the lists by its text and only if it has one: one with images alone
  stays listed after the agent has got it, and of two equal texts the first entry
  goes, steering before follow-up, whichever was delivered. `ShownIsPending` is
  what does hold of texts.
* `FileQueueAlias`: while a file does not exist, its key is the path as given,
  so two names for it (through a link, or before and after its creation) are not
  serialized.
* `LiveSessionsStaleAttach`: `attach` looks at the connection again after its
  await but not at the session, and attaches to one whose disposal has begun.
  The client is told it is attached; its operations fail, and after a reopening
  it controls a runtime whose events it does not receive.
* `LiveSessionsTerminalAttach`: a connection whose attachment resumes after a
  terminal error is neither refused nor disconnected, and keeps the dead session
  from being disposed.
* `AgentSessionRecovery`: a failed message that was retried stays in the
  session's file; if the retry overflows, compaction rebuilds both, one of them
  is removed, and `agent.continue()` refuses to continue from the other.
* `JsonlFailedAppend`: an append that fails after a part of it was written is
  followed by the next record on the same line, which is acknowledged and lost,
  or makes the file unreadable.
* `ServerSnapshotsMissed`: a broadcast that finds no connection ready takes no
  revision, so that a client in its handshake does not see that its list is old.

Observed, without a run: `tool_execution_end` of a call that outlives its failed
batch reaches listeners after `agent_end` (agent.ts:540); the notes on races and
abort under `AgentSession`.

## Plan

Done: all modules above, with the theorems named. Next: the client's messages
that share a chunk, torn writes of `auth.json`, a snapshot publisher whose
listing fails, watchers of the harness events: the hazards in `PROJECT.json`
that have a note instead of a property.

## Not modelled

Pure functions and data formats: the reducer and session state, the wire
protocol, matching and diffs, the first pass of the repair. Synchronous trees
and files with one user: session manager, settings, packages. Input and output:
the Unix listener, providers, OAuth flows, modes, terminal UI, telemetry,
evaluations, the desktop application. Dispatch over components that are
modelled: the remote session and the client's connection. The agent harness is a
scaffold at this commit. Most of the repository's lines belong to these, which
is why the mapped share of all its lines is small.
