------------------------------- MODULE Agent -------------------------------
(***************************************************************************)
(* The stateful agent (packages/agent/src/agent.ts) and the loop it runs    *)
(* (packages/agent/src/agent-loop.ts): prompts, the two queues of pending   *)
(* user messages, turns, tool batches, abort and run failure.               *)
(*                                                                         *)
(* A run is one async function; every `await` in it is a point where the    *)
(* user's calls (steer, followUp, abort, reset) and settling tools may      *)
(* interleave.  An action is the code between two awaits.  Emitting an      *)
(* event reduces it into the agent's state and then awaits the listeners,   *)
(* so a rejecting listener, hook or converter is the action Throw, taken    *)
(* after the emission's own effect.                                         *)
(***************************************************************************)
EXTENDS Integers, Sequences, FiniteSets, TransformMessages

CONSTANTS
    MaxMsgs,        \* bound: messages the user submits
    SteeringMode,   \* "all" or "one-at-a-time"
    FollowUpMode,   \* the same, for the follow-up queue
    MaxCalls,       \* tool calls in one assistant message
    MaxToolTurns,   \* bound: assistant messages that call tools
    MaxRuns,        \* bound: runs started
    MaxFailures     \* bound: runs interrupted by a throw

QueueMode == {"all", "one-at-a-time"}

ASSUME AgentAssumption ==
    /\ SteeringMode \in QueueMode
    /\ FollowUpMode \in QueueMode
    /\ MaxMsgs \in Nat /\ MaxCalls \in Nat
    /\ MaxToolTurns \in Nat
    /\ MaxRuns \in Nat
    /\ MaxFailures \in Nat

VARIABLES
    \* The Agent object
    messages,          \* state.messages, the transcript
    steeringQueue,
    followUpQueue,
    active,            \* activeRun is set
    aborted,           \* the abort signal of the active run
    pendingToolCalls,  \* state.pendingToolCalls
    \* The loop's locals
    pc,
    context,           \* currentContext.messages
    pending,           \* prompts still to emit, then pendingMessages
    skipPoll,          \* skipInitialSteeringPoll
    hasMoreToolCalls,
    failing,           \* runWithLifecycle is in its catch block
    \* The tool batch of the turn
    mode,              \* "sequential", "parallel" or "truncated"
    calls,             \* the call identities, in source order
    st,                \* how far each call is
    terminating,       \* positions whose result has terminate = true
    answered,          \* result messages emitted so far
    \* Calls still executing although their run has failed
    orphans,
    \* Counters and history
    toolTurns, runs, failures,
    submitted,         \* every message handed to the agent, with its lane
    dropped            \* messages removed by clear* or reset

agentVars == <<messages, steeringQueue, followUpQueue, active, aborted, pendingToolCalls>>
turnVars == <<context, pending, skipPoll, hasMoreToolCalls, failing>>
batchVars == <<mode, calls, st, terminating, answered>>
history == <<toolTurns, runs, failures, submitted, dropped>>
vars == <<agentVars, pc, turnVars, batchVars, orphans, history>>

Lanes == {"prompt", "steer", "followUp"}
CallState == {"todo", "preparing", "refused", "prepared", "running", "ended"}
Over == {"refused", "ended"}

Ids(log) == {log[i].id : i \in DOMAIN log}
\* The user's messages are numbered as they are submitted.
Msgs == 1 .. MaxMsgs
Fresh(m) == m \in Msgs /\ m = Len(submitted) + 1

\* PendingMessageQueue.drain: what the drain takes, and what it leaves.
Drained(queue, queueMode) ==
    IF queueMode = "all" \/ queue = <<>> THEN queue ELSE <<Head(queue)>>
\* A bug: the drain of "all" forgets to empty the queue.
RemainingAfterFirst(queue, queueMode) == IF queue = <<>> THEN <<>> ELSE Tail(queue)
Remaining(queue, queueMode) ==
    IF queueMode = "all" \/ queue = <<>> THEN <<>> ELSE Tail(queue)

Init ==
    /\ messages = <<>> /\ steeringQueue = <<>> /\ followUpQueue = <<>>
    /\ active = FALSE /\ aborted = FALSE /\ pendingToolCalls = {}
    /\ pc = "idle" /\ context = <<>> /\ pending = <<>>
    /\ skipPoll = FALSE /\ hasMoreToolCalls = FALSE /\ failing = FALSE
    /\ mode = "sequential" /\ calls = <<>> /\ st = <<>>
    /\ terminating = {} /\ answered = 0
    /\ orphans = {}
    /\ toolTurns = 0 /\ runs = 0 /\ failures = 0
    /\ submitted = <<>> /\ dropped = {}

-----------------------------------------------------------------------------
(* Calls a user of the agent may make at any time. *)

Steer(m) ==
    /\ Fresh(m)
    /\ steeringQueue' = Append(steeringQueue, m)
    /\ submitted' = Append(submitted, [id |-> m, lane |-> "steer"])
    /\ UNCHANGED <<messages, followUpQueue, active, aborted, pendingToolCalls,
                   pc, turnVars, batchVars, orphans, toolTurns, runs, failures, dropped>>

FollowUp(m) ==
    /\ Fresh(m)
    /\ followUpQueue' = Append(followUpQueue, m)
    /\ submitted' = Append(submitted, [id |-> m, lane |-> "followUp"])
    /\ UNCHANGED <<messages, steeringQueue, active, aborted, pendingToolCalls,
                   pc, turnVars, batchVars, orphans, toolTurns, runs, failures, dropped>>

\* clearSteeringQueue
ClearSteering ==
    /\ steeringQueue # <<>>
    /\ steeringQueue' = <<>>
    /\ dropped' = dropped \cup ToSet(steeringQueue)
    /\ UNCHANGED <<messages, followUpQueue, active, aborted, pendingToolCalls,
                   pc, turnVars, batchVars, orphans, toolTurns, runs, failures, submitted>>

\* clearFollowUpQueue; clearAllQueues is the one clear after the other.
ClearFollowUps ==
    /\ followUpQueue # <<>>
    /\ followUpQueue' = <<>>
    /\ dropped' = dropped \cup ToSet(followUpQueue)
    /\ UNCHANGED <<messages, steeringQueue, active, aborted, pendingToolCalls,
                   pc, turnVars, batchVars, orphans, toolTurns, runs, failures, submitted>>

Abort ==
    /\ active /\ ~aborted
    /\ aborted' = TRUE
    /\ UNCHANGED <<messages, steeringQueue, followUpQueue, active, pendingToolCalls,
                   pc, turnVars, batchVars, orphans, history>>

\* reset: refused while a run is active.
Reset ==
    /\ ~active
    /\ dropped' = Ids(submitted)
    /\ messages' = <<>> /\ steeringQueue' = <<>> /\ followUpQueue' = <<>>
    /\ pendingToolCalls' = {}
    /\ UNCHANGED <<active, aborted, pc, turnVars, batchVars, orphans,
                   toolTurns, runs, failures, submitted>>

-----------------------------------------------------------------------------
(* Starting a run: prompt, continue. *)

\* runWithLifecycle up to the loop's first await: the run is active before
\* anything else can happen.
StartRun(prompts, loopContext, skip) ==
    /\ ~active /\ runs < MaxRuns
    /\ active' = TRUE /\ aborted' = FALSE
    /\ runs' = runs + 1
    /\ context' = loopContext
    /\ pending' = prompts
    /\ skipPoll' = skip
    /\ failing' = FALSE
    /\ pc' = "prompting"
    /\ UNCHANGED <<hasMoreToolCalls, batchVars, orphans, toolTurns, failures>>

UserMessages(ids) == [i \in DOMAIN ids |-> User(ids[i])]

Prompt(m) ==
    /\ Fresh(m)
    /\ StartRun(<<m>>, Append(messages, User(m)), FALSE)
    /\ submitted' = Append(submitted, [id |-> m, lane |-> "prompt"])
    /\ UNCHANGED <<messages, steeringQueue, followUpQueue, pendingToolCalls, dropped>>

LastRole == Role(messages[Len(messages)])

\* continue() after an assistant message: the queued messages become prompts.
ContinueFromSteering ==
    /\ messages # <<>> /\ LastRole = "assistant" /\ steeringQueue # <<>>
    /\ LET taken == Drained(steeringQueue, SteeringMode)
       IN  StartRun(taken, messages \o UserMessages(taken), TRUE)
    /\ steeringQueue' = Remaining(steeringQueue, SteeringMode)
    /\ UNCHANGED <<messages, followUpQueue, pendingToolCalls, submitted, dropped>>

ContinueFromFollowUps ==
    /\ messages # <<>> /\ LastRole = "assistant"
    /\ steeringQueue = <<>> /\ followUpQueue # <<>>
    /\ LET taken == Drained(followUpQueue, FollowUpMode)
       IN  StartRun(taken, messages \o UserMessages(taken), FALSE)
    /\ followUpQueue' = Remaining(followUpQueue, FollowUpMode)
    /\ UNCHANGED <<messages, steeringQueue, pendingToolCalls, submitted, dropped>>

\* continue() after a user message or a tool result.
Continue ==
    /\ messages # <<>> /\ LastRole # "assistant"
    /\ StartRun(<<>>, messages, FALSE)
    /\ UNCHANGED <<messages, steeringQueue, followUpQueue, pendingToolCalls, submitted, dropped>>

-----------------------------------------------------------------------------
(* The loop: prompts, polls and the request. *)

\* runAgentLoop: emit the prompts (the context holds them already).
EmitPrompt ==
    /\ pc = "prompting" /\ pending # <<>>
    /\ messages' = Append(messages, User(Head(pending)))
    /\ pending' = Tail(pending)
    /\ UNCHANGED <<steeringQueue, followUpQueue, active, aborted, pendingToolCalls, pc, context,
                   skipPoll, hasMoreToolCalls, failing, batchVars, orphans, history>>

\* getSteeringMessages: a drain, unless continue() has just drained.
TakeSteering ==
    IF skipPoll
    THEN pending' = <<>> /\ skipPoll' = FALSE /\ UNCHANGED steeringQueue
    ELSE /\ pending' = Drained(steeringQueue, SteeringMode)
         /\ steeringQueue' = Remaining(steeringQueue, SteeringMode)
         /\ UNCHANGED skipPoll

InitialPoll ==
    /\ pc = "prompting" /\ pending = <<>>
    /\ TakeSteering
    /\ pc' = "injecting"
    /\ UNCHANGED <<messages, followUpQueue, active, aborted, pendingToolCalls, context,
                   hasMoreToolCalls, failing, batchVars, orphans, history>>

\* A bug: the message is emitted and not added to the context.
InjectIntoTranscript ==
    /\ pc = "injecting" /\ pending # <<>>
    /\ messages' = Append(messages, User(Head(pending)))
    /\ pending' = Tail(pending)
    /\ UNCHANGED <<steeringQueue, followUpQueue, active, aborted, pendingToolCalls, pc, context,
                   skipPoll, hasMoreToolCalls, failing, batchVars, orphans, history>>

\* One pending message enters the transcript and the loop's context.
Inject ==
    /\ pc = "injecting" /\ pending # <<>>
    /\ messages' = Append(messages, User(Head(pending)))
    /\ context' = Append(context, User(Head(pending)))
    /\ pending' = Tail(pending)
    /\ UNCHANGED <<steeringQueue, followUpQueue, active, aborted, pendingToolCalls, pc,
                   skipPoll, hasMoreToolCalls, failing, batchVars, orphans, history>>

\* streamAssistantResponse sends the context to the provider.
Request ==
    /\ pc = "injecting" /\ pending = <<>>
    /\ pc' = "streaming"
    /\ UNCHANGED <<agentVars, turnVars, batchVars, orphans, history>>

\* The identities of the tool calls of the t-th message that calls tools.
CallIds(t, n) == [i \in 1 .. n |-> <<t, i>>]

\* A bug: the results of the previous batch are still counted.
NewBatchKeepsAnswers(ids) ==
    /\ calls' = ids
    /\ st' = [i \in DOMAIN ids |-> "todo"]
    /\ UNCHANGED <<terminating, answered>>

NewBatch(ids) ==
    /\ calls' = ids
    /\ st' = [i \in DOMAIN ids |-> "todo"]
    /\ terminating' = {} /\ answered' = 0

\* How the calls of the message are executed; without any it does not matter.
Modes(stop, n) ==
    IF n = 0 \/ stop \in {"error", "aborted"} THEN {"sequential"}
    ELSE IF stop = "length" THEN {"truncated"} ELSE {"sequential", "parallel"}

\* The final assistant message.  "aborted" is what a provider reports once the
\* signal is set; any other outcome may still win the race with the signal.
Respond(stop, n) ==
    /\ pc = "streaming"
    /\ stop = "aborted" => aborted
    /\ n > 0 => toolTurns < MaxToolTurns
    /\ toolTurns' = IF n > 0 THEN toolTurns + 1 ELSE toolTurns
    /\ LET ids == CallIds(toolTurns + 1, n)
           reply == Assistant(ids, stop)
       IN  /\ messages' = Append(messages, reply)
           /\ context' = Append(context, reply)
           /\ NewBatch(IF stop \in {"stop", "length"} THEN ids ELSE <<>>)
    /\ hasMoreToolCalls' = FALSE
    /\ mode' \in Modes(stop, n)
    /\ pc' = IF stop \in {"error", "aborted"} THEN "ending"
             ELSE IF n = 0 THEN "turnEnd" ELSE "tools"
    /\ UNCHANGED <<steeringQueue, followUpQueue, active, aborted, pendingToolCalls, pending,
                   skipPoll, failing, orphans, runs, failures, submitted, dropped>>

-----------------------------------------------------------------------------
(* The tool batch: executeToolCallsSequential, executeToolCallsParallel and *)
(* failToolCallsFromTruncatedMessage.                                       *)

Positions == DOMAIN calls
InState(s) == {i \in Positions : st[i] = s}
Started == Positions \ InState("todo")
AllStarted == InState("todo") = {}
Finished == InState("refused") \cup InState("ended")

\* The loops over the calls `break` once the signal is set, after the first
\* call; the loop over the calls of a truncated message does not.
\* A bug: a terminating result also ends the batch.
BreaksOutOnTerminate == mode # "truncated" /\ (aborted \/ terminating # {})
BreaksOut == aborted /\ mode # "truncated"

\* A bug: every batch is prepared as a parallel one is.
ToolStartAhead(i) ==
    /\ pc = "tools" /\ i \in InState("todo")
    /\ \A j \in 1 .. (i - 1) : st[j] \in Over \cup {"prepared", "running"}
    /\ i > 1 => ~BreaksOut
    /\ st' = [st EXCEPT ![i] = "preparing"]
    /\ pendingToolCalls' = pendingToolCalls \cup {calls[i]}
    /\ UNCHANGED <<messages, steeringQueue, followUpQueue, active, aborted, pc, turnVars,
                   mode, calls, terminating, answered, orphans, history>>

\* tool_execution_start.  One call at a time is emitted, executed and answered
\* unless the batch is parallel, whose calls are only prepared one at a time.
ToolStart(i) ==
    /\ pc = "tools" /\ i \in InState("todo")
    /\ \A j \in 1 .. (i - 1) :
          IF mode = "parallel" THEN st[j] \in Over \cup {"prepared"} ELSE j <= answered
    /\ i > 1 => ~BreaksOut
    /\ st' = [st EXCEPT ![i] = "preparing"]
    /\ pendingToolCalls' = pendingToolCalls \cup {calls[i]}
    /\ UNCHANGED <<messages, steeringQueue, followUpQueue, active, aborted, pc, turnVars,
                   mode, calls, terminating, answered, orphans, history>>

\* tool_execution_end, at once or when the tool has settled.
EndCall(i, how, terminate) ==
    /\ st' = [st EXCEPT ![i] = how]
    /\ terminating' = IF terminate THEN terminating \cup {i} ELSE terminating
    /\ pendingToolCalls' = pendingToolCalls \ {calls[i]}
    /\ UNCHANGED <<messages, steeringQueue, followUpQueue, active, aborted, pc, turnVars,
                   mode, calls, answered, orphans, history>>

\* prepareToolCall refuses: unknown tool, invalid arguments, blocked by
\* beforeToolCall (which alone may ask to terminate), aborted, truncated.
ToolRefused(i, terminate) ==
    /\ pc = "tools" /\ i \in InState("preparing")
    /\ terminate => mode # "truncated" /\ ~aborted
    /\ EndCall(i, "refused", terminate)

\* prepareToolCall accepts: only while the signal is not set.  A sequential
\* batch executes the call at once.
ToolPrepared(i) ==
    /\ pc = "tools" /\ i \in InState("preparing")
    /\ mode # "truncated" /\ ~aborted
    /\ st' = [st EXCEPT ![i] = IF mode = "sequential" THEN "running" ELSE "prepared"]
    /\ UNCHANGED <<agentVars, pc, turnVars, mode, calls, terminating, answered, orphans, history>>

\* Promise.all starts every prepared call of a parallel batch together.
Launch ==
    /\ pc = "tools" /\ mode = "parallel"
    /\ InState("preparing") = {} /\ InState("prepared") # {}
    /\ AllStarted \/ BreaksOut
    /\ st' = [i \in Positions |-> IF st[i] = "prepared" THEN "running" ELSE st[i]]
    /\ UNCHANGED <<agentVars, pc, turnVars, mode, calls, terminating, answered, orphans, history>>

\* The tool settles (whatever the signal says) and afterToolCall has its say.
ToolEnd(i, terminate) ==
    /\ pc = "tools" /\ i \in InState("running")
    /\ EndCall(i, "ended", terminate)

\* The results of a parallel batch wait for all of its calls.
AnswersDue ==
    mode = "parallel" =>
        /\ InState("preparing") \cup InState("prepared") \cup InState("running") = {}
        /\ AllStarted \/ BreaksOut

\* A bug: results are emitted in the order the calls are found to have ended.
AnswerAnyEnded ==
    /\ pc = "tools" /\ AnswersDue
    /\ \E i \in Finished :
          /\ ToolResult(calls[i]) \notin ToSet(messages)
          /\ messages' = Append(messages, ToolResult(calls[i]))
    /\ answered' = answered + 1
    /\ UNCHANGED <<steeringQueue, followUpQueue, active, aborted, pendingToolCalls, pc, turnVars,
                   mode, calls, st, terminating, orphans, history>>

\* emitToolResultMessage, in source order.
Answer ==
    /\ pc = "tools" /\ AnswersDue
    /\ answered + 1 \in Finished
    /\ messages' = Append(messages, ToolResult(calls[answered + 1]))
    /\ answered' = answered + 1
    /\ UNCHANGED <<steeringQueue, followUpQueue, active, aborted, pendingToolCalls, pc, turnVars,
                   mode, calls, st, terminating, orphans, history>>

\* The batch returns; its results enter the context and turn_end is emitted.
BatchDone ==
    /\ pc = "tools" /\ AnswersDue
    /\ answered > 0 /\ Started = 1 .. answered
    /\ AllStarted \/ BreaksOut
    /\ context' = context \o [i \in 1 .. answered |-> ToolResult(calls[i])]
    /\ hasMoreToolCalls' = (mode = "truncated" \/ terminating # 1 .. answered)
    /\ pc' = "turnEnd"
    /\ UNCHANGED <<agentVars, pending, skipPoll, failing, batchVars, orphans, history>>

-----------------------------------------------------------------------------
(* The end of a turn and of the run. *)

\* shouldStopAfterTurn says so: the queues are not polled.
StopAfterTurn ==
    /\ pc = "turnEnd"
    /\ pc' = "ending"
    /\ UNCHANGED <<agentVars, turnVars, batchVars, orphans, history>>

\* A bug: the signal is checked after the queue was drained.
PollThenCheckSignal ==
    /\ pc = "turnEnd"
    /\ TakeSteering
    /\ pc' = CASE aborted -> "ending"
               [] hasMoreToolCalls \/ pending' # <<>> -> "injecting"
               [] OTHER -> "pollFollowUps"
    /\ UNCHANGED <<messages, followUpQueue, active, aborted, pendingToolCalls, context,
                   hasMoreToolCalls, failing, batchVars, orphans, history>>

PollSteering ==
    /\ pc = "turnEnd"
    /\ TakeSteering
    /\ pc' = IF hasMoreToolCalls \/ pending' # <<>> THEN "injecting" ELSE "pollFollowUps"
    /\ UNCHANGED <<messages, followUpQueue, active, aborted, pendingToolCalls, context,
                   hasMoreToolCalls, failing, batchVars, orphans, history>>

PollFollowUps ==
    /\ pc = "pollFollowUps"
    /\ pending' = Drained(followUpQueue, FollowUpMode)
    /\ followUpQueue' = Remaining(followUpQueue, FollowUpMode)
    /\ pc' = IF pending' # <<>> THEN "injecting" ELSE "ending"
    /\ UNCHANGED <<messages, steeringQueue, active, aborted, pendingToolCalls, context, skipPoll,
                   hasMoreToolCalls, failing, batchVars, orphans, history>>

\* agent_end is emitted; its listeners are awaited while pc = "ended".
EmitAgentEnd ==
    /\ pc = "ending"
    /\ pc' = "ended"
    /\ UNCHANGED <<agentVars, turnVars, batchVars, orphans, history>>

\* A bug: the started calls of a failed run are never cleared.
FinishRunKeepsCalls ==
    /\ pc \in {"ended", "closing"}
    /\ active' = FALSE /\ pc' = "idle"
    /\ pending' = <<>> /\ failing' = FALSE
    /\ UNCHANGED <<messages, steeringQueue, followUpQueue, aborted, pendingToolCalls, context,
                   skipPoll, hasMoreToolCalls, batchVars, orphans, history>>

\* A bug: finishRun is not in a finally block.
FinishRunAfterEnd ==
    /\ pc = "ended"
    /\ active' = FALSE /\ pc' = "idle"
    /\ pendingToolCalls' = {}
    /\ pending' = <<>> /\ failing' = FALSE
    /\ UNCHANGED <<messages, steeringQueue, followUpQueue, aborted, context, skipPoll,
                   hasMoreToolCalls, batchVars, orphans, history>>

\* finishRun
FinishRun ==
    /\ pc \in {"ended", "closing"}
    /\ active' = FALSE /\ pc' = "idle"
    /\ pendingToolCalls' = {}
    /\ pending' = <<>> /\ failing' = FALSE
    /\ UNCHANGED <<messages, steeringQueue, followUpQueue, aborted, context, skipPoll,
                   hasMoreToolCalls, batchVars, orphans, history>>

-----------------------------------------------------------------------------
(* Failure: something the loop awaits rejects. *)

\* A listener may reject whatever event it is given; hooks, converters and the
\* stream function may reject where they are awaited.  While calls of a batch
\* execute, Promise.all rejects with the first that rejects, the `culprit`: a
\* listener refused one of its updates, or its tool_execution_end.  The other
\* calls go on executing.
Culprits ==
    IF pc = "tools" /\ InState("running") # {}
    THEN InState("running") \cup (IF mode = "parallel" THEN InState("ended") ELSE {})
    ELSE {0}

Throw(culprit) ==
    /\ active /\ ~failing
    /\ failures < MaxFailures
    /\ culprit \in Culprits
    /\ orphans' = IF pc = "tools"
                  THEN orphans \cup {calls[i] : i \in InState("running") \ {culprit}}
                  ELSE orphans
    /\ failing' = TRUE
    /\ failures' = failures + 1
    /\ pending' = <<>>
    /\ pc' = "failing"
    /\ UNCHANGED <<agentVars, context, skipPoll, hasMoreToolCalls, batchVars,
                   toolTurns, runs, submitted, dropped>>

\* handleRunFailure records an empty assistant message, "aborted" if the signal
\* was set when the run threw (it may have been set only since then) ...
RecordFailure ==
    /\ pc = "failing"
    /\ \E stop \in {"error", "aborted"} :
          /\ stop = "aborted" => aborted
          /\ messages' = Append(messages, Assistant(<<>>, stop))
    /\ pc' = "ending"
    /\ UNCHANGED <<steeringQueue, followUpQueue, active, aborted, pendingToolCalls, turnVars,
                   batchVars, orphans, history>>

\* ... and if that, its turn_end or its agent_end rejects, `finally` runs at once.
FailureThrows ==
    /\ failing /\ pc \in {"failing", "ending", "ended"}
    /\ pc' = "closing"
    /\ UNCHANGED <<agentVars, turnVars, batchVars, orphans, history>>

\* An orphaned call settles: processEvents reduces its tool_execution_end, then
\* hands it to the listeners if any run is active, and throws otherwise.
OrphanEnd(c) ==
    /\ c \in orphans
    /\ orphans' = orphans \ {c}
    /\ pendingToolCalls' = pendingToolCalls \ {c}
    /\ UNCHANGED <<messages, steeringQueue, followUpQueue, active, aborted, pc, turnVars,
                   batchVars, history>>

-----------------------------------------------------------------------------
UserCall ==
    \/ \E m \in Msgs : Steer(m) \/ FollowUp(m) \/ Prompt(m)
    \/ ClearSteering \/ ClearFollowUps \/ Abort \/ Reset
    \/ ContinueFromSteering \/ ContinueFromFollowUps \/ Continue

ToolStep ==
    \/ \E i \in Positions : ToolStart(i) \/ ToolPrepared(i)
    \/ \E i \in Positions, t \in BOOLEAN : ToolRefused(i, t) \/ ToolEnd(i, t)
    \/ Launch \/ Answer \/ BatchDone

LoopStep ==
    \/ EmitPrompt \/ InitialPoll \/ Inject \/ Request
    \/ \E stop \in StopReasons, n \in 0 .. MaxCalls : Respond(stop, n)
    \/ ToolStep
    \/ StopAfterTurn \/ PollSteering \/ PollFollowUps \/ EmitAgentEnd
    \/ RecordFailure \/ FinishRun

Failure == FailureThrows \/ \E culprit \in 0 .. MaxCalls : Throw(culprit)

Next == UserCall \/ LoopStep \/ Failure \/ \E c \in orphans : OrphanEnd(c)

Spec == Init /\ [][Next]_vars

\* A started promise chain goes on, a provider answers and a tool settles.
Fairness == WF_vars(LoopStep)

FairSpec == Spec /\ Fairness

-----------------------------------------------------------------------------
(* What the agent promises. *)

Call == Nat \X Nat
Message ==
    [role : {"user"}, id : Msgs]
        \cup [role : {"assistant"}, calls : Seq(Call), stop : StopReasons]
        \cup [role : {"toolResult"}, call : Call]

Entry == [id : Msgs, lane : Lanes]

FlagsOK ==
    /\ active \in BOOLEAN /\ aborted \in BOOLEAN /\ failing \in BOOLEAN
    /\ skipPoll \in BOOLEAN /\ hasMoreToolCalls \in BOOLEAN
TranscriptOK == messages \in Seq(Message) /\ context \in Seq(Message)
QueuesOK == steeringQueue \in Seq(Msgs) /\ followUpQueue \in Seq(Msgs) /\ pending \in Seq(Msgs)
BatchOK ==
    /\ mode \in {"sequential", "parallel", "truncated"}
    /\ calls \in Seq(Call)
    /\ st \in [Positions -> CallState]
    /\ terminating \subseteq Positions
    /\ answered \in 0 .. Len(calls)
    /\ pendingToolCalls \subseteq Call /\ orphans \subseteq Call
ControlOK ==
    /\ pc \in {"idle", "prompting", "injecting", "streaming", "tools", "turnEnd",
               "pollFollowUps", "ending", "ended", "failing", "closing"}
    /\ toolTurns \in Nat /\ runs \in Nat /\ failures \in Nat
    /\ submitted \in Seq(Entry) /\ dropped \subseteq Msgs

TypeOK == FlagsOK /\ TranscriptOK /\ QueuesOK /\ BatchOK /\ ControlOK

\* Everything the agent holds, first what was delivered, and where the user's
\* messages are in a conversation.
Held == messages \o UserMessages(pending \o steeringQueue \o followUpQueue)
FromUser(conv) == {i \in DOMAIN conv : Role(conv[i]) = "user"}

SubmittedAt(m) == CHOOSE i \in DOMAIN submitted : submitted[i].id = m
Lane(m) == submitted[SubmittedAt(m)].lane

\* m may come before n: they differ, and within a lane the order is kept.
MayPrecede(m, n) == m # n /\ (Lane(m) = Lane(n) => SubmittedAt(m) < SubmittedAt(n))

\* No message is delivered twice or is queued while it is delivered, and each
\* lane is first in, first out, across polls, runs, aborts and failures
\* (PendingMessageQueue, agent.ts:125).
FifoPerLane ==
    LET held == Held
    IN  \A i, j \in FromUser(held) : i < j => MayPrecede(held[i].id, held[j].id)

\* As long as nothing threw, a message given to the agent is in the transcript,
\* in the hands of the run or queued, unless the user removed it; no poll,
\* abort, early stop or end of a run loses one (agent-loop.ts:167, 259, 263).
NothingLost ==
    LET held == Held
    IN  failures = 0 =>
            Ids(submitted) \subseteq {held[i].id : i \in FromUser(held)} \cup dropped

\* The loop keeps its own copy of the conversation; when it asks the model, the
\* copy is the transcript the agent recorded from the events, though the two
\* are appended at different awaits (agent-loop.ts:186, 218; agent.ts:556).
ContextIsTranscript == pc = "streaming" => context = messages

\* Whatever was aborted, refused or interrupted by a failure before, the
\* conversation a provider receives answers every tool call exactly once, right
\* after the message that made it (agent-loop.ts:476; transform-messages.ts:155).
WellPairedRequest == pc = "streaming" => WellPaired(Transform(context))

\* In the transcript, the results after an assistant message are those of its
\* first calls, in source order, in every execution mode (README.md:115).
ResultsInSourceOrder ==
    \A i \in DOMAIN messages :
        Role(messages[i]) = "assistant" =>
            IsPrefix(BlockCalls(messages, i), messages[i].calls)

\* Only an abort leaves calls of a finished turn unanswered (agent-loop.ts:476).
AnsweredUnlessAborted ==
    pc = "turnEnd" /\ answered < Len(calls) => aborted

\* state.pendingToolCalls is exactly the calls that have started and not ended,
\* whatever the calls of an earlier, failed run still do (agent.ts:560).
PendingToolCallsExact ==
    /\ pc = "tools" => pendingToolCalls =
            {calls[i] : i \in {j \in Positions : st[j] \notin Over \cup {"todo"}}}
    /\ pc \notin {"tools", "failing", "ending", "ended", "closing"} => pendingToolCalls = {}

\* "sequential": each call is prepared, executed, finalized and answered before
\* the next one starts (types.ts:37); so is the batch of a truncated message.
OneCallAtATime ==
    pc = "tools" /\ mode # "parallel" =>
        \A i \in Started : \A j \in 1 .. (i - 1) : st[j] \in Over /\ j <= answered

\* A run that started comes to rest.
RunSettles == active ~> ~active

=============================================================================
