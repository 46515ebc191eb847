---------------------------- MODULE AgentSession ----------------------------
(***************************************************************************)
(* The coding agent's session (packages/coding-agent/src/core/              *)
(* agent-session.ts): prompts that start or join a run, automatic retry,    *)
(* overflow and threshold compaction, queued messages, context-only         *)
(* messages, abort and manual compaction.                                   *)
(*                                                                         *)
(* The agent below it (module Agent) is reduced to what the session sees of *)
(* a run: when it asks the model, how the model answers, when it drains its *)
(* queues and when it ends.  Several callers may be inside prompt() at a    *)
(* time; an action is the code between two awaits.                          *)
(***************************************************************************)
EXTENDS Integers, Sequences, FiniteSets, SequencesExt

CONSTANTS
    Callers,        \* concurrent calls of prompt() and sendCustomMessage()
    NoCaller,
    Texts,          \* texts of the user's messages
    NoText,         \* the empty one, of a message with images alone
    CustomMessage,  \* stands for any message of an extension
    MaxRetries,     \* retry.maxRetries
    MaxSubmits,     \* bound: messages submitted
    MaxToolTurns,   \* bound: assistant messages that call tools
    MaxContexts     \* bound: context-only messages

ASSUME SessionAssumption ==
    /\ NoCaller \notin Callers
    /\ CustomMessage \notin Texts \cup {NoText}
    /\ MaxRetries \in Nat /\ MaxSubmits \in Nat /\ MaxToolTurns \in Nat /\ MaxContexts \in Nat

VARIABLES
    \* AgentSession
    isAgentRunActive,
    steeringMessages, followUpMessages,  \* the texts shown as queued
    pendingBash, pendingCustom,          \* context-only messages put off
    lastAssistant,                       \* _lastAssistantMessage, or "none"
    retryAttempt,
    overflowRecoveryAttempted,
    sleeper,                             \* whose _retryAbortController is set
    compactor,                           \* compact(): "no", "aborting", "summarizing"
    aborter,                             \* abort(): "no" or "waiting" to be idle
    \* The agent
    run,                                 \* how far its active run is, "none" without one
    owner,                               \* the caller that awaits the run
    signal,                              \* the run's abort signal
    reply,                               \* the last assistant message of the run
    inFlight,                            \* prompts and drained messages not emitted yet
    steeringQueue, followUpQueue,
    trail,                               \* assistant messages at the end of state.messages
    \* The session file
    saved,                               \* the same of the persisted branch
    fresh,                               \* an assistant message follows the last compaction
    \* The callers
    pc, held,                            \* held: the message whose aftermath is handled
    text,                                \* the text prompt() was called with, until its run
    \* Counters and history
    submits, toolTurns, contexts,
    announced,                           \* willRetry of the last agent_end
    raced,                               \* two callers passed the isStreaming check
    split                                \* a message came between a call and its result

queueVars == <<steeringMessages, followUpMessages, steeringQueue, followUpQueue, inFlight>>
contextVars == <<pendingBash, pendingCustom, trail, saved, split>>
flagVars == <<lastAssistant, retryAttempt, overflowRecoveryAttempted, sleeper>>
waitVars == <<compactor, aborter>>
runVars == <<run, owner, signal, reply>>
callerVars == <<pc, held, text>>
history == <<submits, toolTurns, contexts, announced, raced>>
vars == <<isAgentRunActive, queueVars, contextVars, flagVars, waitVars, runVars, fresh,
          callerVars, history>>

\* Assistant messages, by what the session makes of them; the Failed ones have
\* stopReason "error", a "length" one was cut short.
Failed == {"retryable", "overflow", "error"}
Replies == {"stop", "length", "aborted"} \cup Failed
Assistant == Replies \cup {"calls"}
Recoverable == {"overflow", "length"}

\* Between the start of _runAgentPrompt and its finally block.
Driving == {"running", "post", "sleeping", "checking", "compacting", "continuing"}
Phases == {"idle", "input", "auth", "precompacting", "before", "finally", "settling"} \cup Driving
RunPhases == {"none", "prompting", "injecting", "tools", "turnEnd", "polling", "ending", "ended"}

HasQueued == steeringQueue # <<>> \/ followUpQueue # <<>>
FromUser(m) == m # CustomMessage
Drain(queue) == <<Head(queue)>>   \* one at a time, the default

Init ==
    /\ isAgentRunActive = FALSE
    /\ steeringMessages = <<>> /\ followUpMessages = <<>> /\ pendingBash = 0 /\ pendingCustom = 0
    /\ lastAssistant = "none" /\ retryAttempt = 0 /\ overflowRecoveryAttempted = FALSE
    /\ sleeper = NoCaller /\ compactor = "no" /\ aborter = "no"
    /\ run = "none" /\ owner = NoCaller /\ signal = FALSE /\ reply = "none"
    /\ inFlight = <<>> /\ steeringQueue = <<>> /\ followUpQueue = <<>>
    /\ trail = <<>> /\ saved = <<>> /\ fresh = FALSE
    /\ pc = [c \in Callers |-> "idle"] /\ held = [c \in Callers |-> "none"]
    /\ text = [c \in Callers |-> NoText]
    /\ submits = 0 /\ toolTurns = 0 /\ contexts = 0
    /\ announced = FALSE /\ raced = FALSE /\ split = FALSE

-----------------------------------------------------------------------------
(* Messages that only enter the context. *)

\* A message other than the assistant's is appended to the transcript and the
\* session, between a call and its result if one is awaited.
AppendContext ==
    /\ trail' = <<>> /\ saved' = <<>>
    /\ split' = (split \/ run = "tools")

\* _flushPendingBashMessages and _flushPendingCustomMessages.
Flush ==
    /\ pendingBash' = 0 /\ pendingCustom' = 0
    /\ IF pendingBash + pendingCustom > 0 THEN AppendContext ELSE UNCHANGED <<trail, saved, split>>

\* A bug: the result is appended at once.
RecordBashAtOnce ==
    /\ contexts < MaxContexts /\ contexts' = contexts + 1
    /\ AppendContext
    /\ UNCHANGED <<isAgentRunActive, queueVars, pendingBash, pendingCustom, flagVars, waitVars, runVars,
                   fresh, callerVars, submits, toolTurns, announced, raced>>

\* recordBashResult: put off while streaming.
RecordBash ==
    /\ contexts < MaxContexts /\ contexts' = contexts + 1
    /\ IF isAgentRunActive
       THEN pendingBash' = pendingBash + 1 /\ UNCHANGED <<trail, saved, split>>
       ELSE AppendContext /\ UNCHANGED pendingBash
    /\ UNCHANGED <<isAgentRunActive, queueVars, pendingCustom, flagVars, waitVars, runVars, fresh,
                   callerVars, submits, toolTurns, announced, raced>>

\* sendCustomMessage without a turn.
SendCustom ==
    /\ contexts < MaxContexts /\ contexts' = contexts + 1
    /\ IF isAgentRunActive
       THEN pendingCustom' = pendingCustom + 1 /\ UNCHANGED <<trail, saved, split>>
       ELSE AppendContext /\ UNCHANGED pendingCustom
    /\ UNCHANGED <<isAgentRunActive, queueVars, pendingBash, flagVars, waitVars, runVars, fresh,
                   callerVars, submits, toolTurns, announced, raced>>

-----------------------------------------------------------------------------
(* The queues. *)

\* _queueSteer and _queueFollowUp
QueueSteer(m) ==
    /\ steeringMessages' = Append(steeringMessages, m)
    /\ steeringQueue' = Append(steeringQueue, m)
    /\ UNCHANGED <<followUpMessages, followUpQueue, inFlight>>

QueueFollowUp(m) ==
    /\ followUpMessages' = Append(followUpMessages, m)
    /\ followUpQueue' = Append(followUpQueue, m)
    /\ UNCHANGED <<steeringMessages, steeringQueue, inFlight>>

\* steer() and followUp(), at any time.
Steer ==
    /\ submits < MaxSubmits /\ submits' = submits + 1
    /\ \E m \in Texts : QueueSteer(m) \/ QueueFollowUp(m)
    /\ UNCHANGED <<isAgentRunActive, contextVars, flagVars, waitVars, runVars, fresh, callerVars,
                   toolTurns, contexts, announced, raced>>

\* sendCustomMessage into a run: the agent queues it, the user's lists do not show
\* it.
SteerCustom ==
    /\ isAgentRunActive
    /\ submits < MaxSubmits /\ submits' = submits + 1
    /\ \/ steeringQueue' = Append(steeringQueue, CustomMessage) /\ UNCHANGED followUpQueue
       \/ followUpQueue' = Append(followUpQueue, CustomMessage) /\ UNCHANGED steeringQueue
    /\ UNCHANGED <<isAgentRunActive, steeringMessages, followUpMessages, inFlight, contextVars,
                   flagVars, waitVars, runVars, fresh, callerVars, toolTurns, contexts, announced,
                   raced>>

ClearQueue ==
    /\ steeringMessages # <<>> \/ followUpMessages # <<>> \/ HasQueued
    /\ steeringMessages' = <<>> /\ followUpMessages' = <<>>
    /\ steeringQueue' = <<>> /\ followUpQueue' = <<>>
    /\ UNCHANGED <<isAgentRunActive, inFlight, contextVars, flagVars, waitVars, runVars, fresh,
                   callerVars, history>>

-----------------------------------------------------------------------------
(* prompt(), up to the run. *)

Go(c, phase) == pc' = [pc EXCEPT ![c] = phase]

\* Refused while a manual compaction summarizes; the input handlers are awaited.
Submit(c) ==
    /\ pc[c] = "idle" /\ compactor # "summarizing"
    /\ submits < MaxSubmits /\ submits' = submits + 1
    /\ Go(c, "input") /\ \E m \in Texts : text' = [text EXCEPT ![c] = m]
    /\ UNCHANGED <<isAgentRunActive, queueVars, contextVars, flagVars, waitVars, runVars, fresh,
                   held, toolTurns, contexts, announced, raced>>

\* While streaming the message is queued, or refused without a behaviour.
Join(c) ==
    /\ pc[c] = "input" /\ isAgentRunActive
    /\ Go(c, "idle") /\ text' = [text EXCEPT ![c] = NoText]
    /\ QueueSteer(text[c]) \/ QueueFollowUp(text[c]) \/ UNCHANGED queueVars
    /\ UNCHANGED <<isAgentRunActive, contextVars, flagVars, waitVars, runVars, fresh, held, history>>

\* Otherwise what was put off is flushed and the credentials are checked.
Prepare(c) ==
    /\ pc[c] = "input" /\ ~isAgentRunActive
    /\ Go(c, "auth")
    /\ Flush
    /\ UNCHANGED <<isAgentRunActive, queueVars, flagVars, waitVars, runVars, fresh, held, text, history>>

Unauthorized(c) ==
    /\ pc[c] = "auth" /\ Go(c, "idle") /\ text' = [text EXCEPT ![c] = NoText]
    /\ UNCHANGED <<isAgentRunActive, queueVars, contextVars, flagVars, waitVars, runVars, fresh,
                   held, history>>

\* _checkCompaction on message m: an overflow of the session's model, or an answer
\* that stopped short of its limit, is recovered from once; any other message may
\* have exceeded the threshold.  Or nothing is compacted: the message is older
\* than the last compaction, below the threshold, or the setting is off.
Compacts(m, skipAborted, reason) ==
    /\ fresh /\ (skipAborted => m # "aborted")
    /\ reason = "overflow" => m \in Recoverable /\ ~overflowRecoveryAttempted
Reasons == {"overflow", "threshold"}

\* The message that is recovered from leaves the transcript.
StartCompaction(c, reason, phase) ==
    /\ held' = [held EXCEPT ![c] = reason]
    /\ Go(c, phase)
    /\ IF reason = "overflow"
       THEN /\ overflowRecoveryAttempted' = TRUE
            /\ trail' = IF trail # <<>> THEN Front(trail) ELSE trail
       ELSE UNCHANGED <<overflowRecoveryAttempted, trail>>

\* _findLastAssistantMessage: when the transcript does not end with one, an
\* earlier one, whose own aftermath is over.
LastAssistants == IF trail # <<>> THEN {Last(trail)} ELSE {"none", "stop"}

\* The check before a prompt.
PreCheck(c) ==
    /\ pc[c] = "auth"
    /\ \/ \E m \in LastAssistants \ {"none"}, reason \in Reasons :
             /\ Compacts(m, FALSE, reason)
             /\ StartCompaction(c, reason, "precompacting")
       \/ Go(c, "before") /\ UNCHANGED <<held, overflowRecoveryAttempted, trail>>
    /\ UNCHANGED <<isAgentRunActive, queueVars, pendingBash, pendingCustom, saved, split,
                   lastAssistant, retryAttempt, sleeper, waitVars, runVars, fresh, text, history>>

-----------------------------------------------------------------------------
(* _runAutoCompaction. *)

\* The transcript is rebuilt from the session: what the compaction keeps may
\* begin at any message and ends with the one that was persisted last
\* (findCutPoint), the failed ones that had left the transcript included.
Kept == {SubSeq(saved, i, Len(saved)) : i \in {1} \cup 1 .. Len(saved)}

\* "remove the retriable error or truncated-length response again"
Retriable(messages) ==
    IF messages # <<>> /\ Last(messages) \in Failed \cup {"length"} THEN Front(messages) ELSE messages

Compacted(c) ==
    /\ \E kept \in Kept :
          /\ saved' = kept
          /\ trail' = IF held[c] = "overflow" THEN Retriable(kept) ELSE kept
    /\ fresh' = FALSE
    /\ UNCHANGED split

PreCompact(c) ==
    /\ pc[c] = "precompacting"
    /\ Go(c, "before")
    /\ held' = [held EXCEPT ![c] = "none"]
    /\ Compacted(c) \/ UNCHANGED <<trail, saved, split, fresh>>
    /\ UNCHANGED <<isAgentRunActive, queueVars, pendingBash, pendingCustom, flagVars, waitVars,
                   runVars, text, history>>

\* It succeeds ...
CompactRetry(c) ==
    /\ pc[c] = "compacting"
    /\ Compacted(c)
    /\ Go(c, IF held[c] = "overflow" \/ HasQueued THEN "continuing" ELSE "finally")
    /\ held' = [held EXCEPT ![c] = "none"]
    /\ UNCHANGED <<isAgentRunActive, queueVars, pendingBash, pendingCustom, flagVars, waitVars,
                   runVars, text, history>>

\* ... or is cancelled, aborted, fails or finds nothing to compact.
CompactFails(c) ==
    /\ pc[c] = "compacting"
    /\ Go(c, IF HasQueued THEN "continuing" ELSE "finally")
    /\ held' = [held EXCEPT ![c] = "none"]
    /\ UNCHANGED <<isAgentRunActive, queueVars, contextVars, flagVars, waitVars, runVars, fresh,
                   text, history>>

-----------------------------------------------------------------------------
(* The run, as the session sees it. *)

BeginRun(c, phase, prompts) ==
    /\ run' = phase /\ inFlight' = prompts
    /\ owner' = c /\ signal' = FALSE /\ reply' = "none"

\* _runAgentPrompt: agent.prompt() is refused while another run is active.
RunAgentPrompt(c, message) ==
    /\ isAgentRunActive' = TRUE
    /\ raced' = (raced \/ isAgentRunActive)
    /\ IF run # "none"
       THEN Go(c, "finally") /\ UNCHANGED <<runVars, inFlight>>
       ELSE Go(c, "running") /\ BeginRun(c, "prompting", <<message>>)
    /\ text' = [text EXCEPT ![c] = NoText]
    /\ UNCHANGED <<steeringMessages, followUpMessages, steeringQueue, followUpQueue, contextVars,
                   flagVars, waitVars, fresh, held, toolTurns, contexts, announced>>

StartRun(c) ==
    /\ pc[c] = "before"
    /\ RunAgentPrompt(c, text[c])
    /\ UNCHANGED submits

\* sendCustomMessage with triggerTurn: nothing else is looked at.
Trigger(c) ==
    /\ pc[c] = "idle" /\ ~isAgentRunActive
    /\ submits < MaxSubmits /\ submits' = submits + 1
    /\ RunAgentPrompt(c, CustomMessage)

\* A bug: only the steering list is looked at.
TakeOffSteering(m) ==
    /\ steeringMessages' = RemoveFirst(steeringMessages, m)
    /\ UNCHANGED followUpMessages

\* A message of the user is taken off the lists by its text, unless that is empty:
\* the first entry that equals it, whichever message that was made for.
TakeOff(m) ==
    /\ steeringMessages' = IF m = NoText THEN steeringMessages ELSE RemoveFirst(steeringMessages, m)
    /\ followUpMessages' = IF m = NoText \/ Contains(steeringMessages, m) THEN followUpMessages
                           ELSE RemoveFirst(followUpMessages, m)

\* A message is emitted: what follows one of the user may be recovered anew.
Deliver ==
    /\ run \in {"prompting", "injecting"} /\ inFlight # <<>>
    /\ inFlight' = Tail(inFlight)
    /\ IF FromUser(Head(inFlight))
       THEN TakeOff(Head(inFlight)) /\ overflowRecoveryAttempted' = FALSE
       ELSE UNCHANGED <<steeringMessages, followUpMessages, overflowRecoveryAttempted>>
    /\ trail' = <<>> /\ saved' = <<>>
    /\ UNCHANGED <<isAgentRunActive, steeringQueue, followUpQueue, pendingBash, pendingCustom, split,
                   lastAssistant, retryAttempt, sleeper, waitVars, runVars, fresh, callerVars,
                   history>>

TakeSteering ==
    /\ steeringQueue # <<>>
    /\ inFlight' = Drain(steeringQueue) /\ steeringQueue' = Tail(steeringQueue)
    /\ UNCHANGED followUpQueue
TakeFollowUps ==
    /\ steeringQueue = <<>> /\ followUpQueue # <<>>
    /\ inFlight' = Drain(followUpQueue) /\ followUpQueue' = Tail(followUpQueue)
    /\ UNCHANGED steeringQueue
TakeNothing == UNCHANGED <<inFlight, steeringQueue, followUpQueue>>

\* The loop polls: steering first; follow-ups only when it would stop, because
\* nothing was called or every result of the batch terminates it.
Poll ==
    /\ \/ /\ run = "prompting" /\ inFlight = <<>>
          /\ run' = "injecting"
          /\ TakeSteering \/ (steeringQueue = <<>> /\ TakeNothing)
       \/ /\ run = "polling" /\ reply = "calls"
          /\ run' = "injecting"
          /\ TakeSteering \/ (steeringQueue = <<>> /\ TakeNothing)
       \/ /\ run = "polling"
          /\ \/ run' = "injecting" /\ (TakeSteering \/ TakeFollowUps)
             \/ run' = "ending" /\ ~HasQueued /\ TakeNothing
    /\ UNCHANGED <<isAgentRunActive, steeringMessages, followUpMessages, contextVars, flagVars,
                   waitVars, owner, signal, reply, fresh, callerVars, history>>

\* A bug: every answer resets the flag of the overflow recovery.
FlagsAfterAny(kind) ==
    /\ lastAssistant' = kind
    /\ overflowRecoveryAttempted' = FALSE
    /\ retryAttempt' = IF kind \in Failed THEN retryAttempt ELSE 0

\* message_end of an assistant message.
FlagsAfter(kind) ==
    /\ lastAssistant' = kind
    /\ overflowRecoveryAttempted' =
          (overflowRecoveryAttempted /\ kind \in Failed \cup {"length"})
    /\ retryAttempt' = IF kind \in Failed THEN retryAttempt ELSE 0

\* The model answers, whatever it was asked.
Respond(kind) ==
    /\ run = "injecting" /\ inFlight = <<>>
    /\ kind = "aborted" => signal
    /\ kind = "calls" => toolTurns < MaxToolTurns
    /\ toolTurns' = IF kind = "calls" THEN toolTurns + 1 ELSE toolTurns
    /\ trail' = Append(trail, kind) /\ saved' = Append(saved, kind)
    /\ fresh' = TRUE /\ reply' = kind
    /\ FlagsAfter(kind)
    /\ run' = IF kind = "calls" THEN "tools" ELSE "turnEnd"
    /\ UNCHANGED <<isAgentRunActive, queueVars, pendingBash, pendingCustom, split, sleeper, waitVars,
                   owner, signal, callerVars, submits, contexts, announced, raced>>

ToolsDone ==
    /\ run = "tools" /\ run' = "turnEnd"
    /\ trail' = <<>> /\ saved' = <<>>
    /\ UNCHANGED <<isAgentRunActive, queueVars, pendingBash, pendingCustom, split, flagVars, waitVars,
                   owner, signal, reply, fresh, callerVars, history>>

\* turn_end flushes the custom messages; a failed turn ends the run.
TurnEnd ==
    /\ run = "turnEnd"
    /\ run' = IF reply \in Failed \cup {"aborted"} THEN "ending" ELSE "polling"
    /\ pendingCustom' = 0
    /\ IF pendingCustom > 0 THEN AppendContext ELSE UNCHANGED <<trail, saved, split>>
    /\ UNCHANGED <<isAgentRunActive, queueVars, pendingBash, flagVars, waitVars, owner, signal, reply,
                   fresh, callerVars, history>>

\* agent_end tells the listeners whether a retry will follow.
EmitAgentEnd ==
    /\ run = "ending" /\ run' = "ended"
    /\ announced' = (reply = "retryable" /\ retryAttempt < MaxRetries)
    /\ UNCHANGED <<isAgentRunActive, queueVars, contextVars, flagVars, waitVars, owner, signal, reply,
                   fresh, callerVars, submits, toolTurns, contexts, raced>>

\* A bug: the end of the agent's run is taken for the end of the prompt.
FinishRunIdle ==
    /\ run = "ended" /\ run' = "none"
    /\ Go(owner, "post")
    /\ owner' = NoCaller /\ signal' = FALSE /\ reply' = "none"
    /\ isAgentRunActive' = FALSE
    /\ UNCHANGED <<queueVars, contextVars, flagVars, waitVars, fresh, held, text, history>>

\* The agent's run is over and its caller goes on.
FinishRun ==
    /\ run = "ended" /\ run' = "none"
    /\ owner' = NoCaller /\ signal' = FALSE /\ reply' = "none"
    /\ Go(owner, "post")
    /\ UNCHANGED <<isAgentRunActive, queueVars, contextVars, flagVars, waitVars, fresh, held, text, history>>

-----------------------------------------------------------------------------
(* _handlePostAgentRun: retry, compaction, queued messages. *)

\* A bug: the attempt is counted after it is compared.
RetriesOneMore(m) == m = "retryable" /\ retryAttempt <= MaxRetries
Retries(m) == m = "retryable" /\ retryAttempt < MaxRetries

PostRun(c) ==
    /\ pc[c] = "post"
    /\ lastAssistant' = "none"
    /\ held' = [held EXCEPT ![c] = lastAssistant]
    /\ announced' = FALSE
    /\ IF Retries(lastAssistant)
       THEN /\ Go(c, "sleeping") /\ sleeper' = c
            /\ retryAttempt' = retryAttempt + 1
            /\ trail' = IF trail # <<>> THEN Front(trail) ELSE trail
       ELSE /\ Go(c, IF lastAssistant = "none" THEN "finally" ELSE "checking")
            /\ retryAttempt' = IF lastAssistant \in Failed THEN 0 ELSE retryAttempt
            /\ UNCHANGED <<sleeper, trail>>
    /\ UNCHANGED <<isAgentRunActive, queueVars, pendingBash, pendingCustom, saved, split,
                   overflowRecoveryAttempted, waitVars, runVars, fresh, text, submits, toolTurns,
                   contexts, raced>>

SleepOver(c) ==
    /\ pc[c] = "sleeping" /\ Go(c, "continuing")
    /\ sleeper' = NoCaller /\ held' = [held EXCEPT ![c] = "none"]
    /\ UNCHANGED <<isAgentRunActive, queueVars, contextVars, lastAssistant, retryAttempt,
                   overflowRecoveryAttempted, waitVars, runVars, fresh, text, history>>

PostCheck(c) ==
    /\ pc[c] = "checking"
    /\ \/ \E reason \in Reasons :
             Compacts(held[c], TRUE, reason) /\ StartCompaction(c, reason, "compacting")
       \/ /\ Go(c, IF HasQueued THEN "continuing" ELSE "finally")
          /\ held' = [held EXCEPT ![c] = "none"]
          /\ UNCHANGED <<overflowRecoveryAttempted, trail>>
    /\ UNCHANGED <<isAgentRunActive, queueVars, pendingBash, pendingCustom, saved, split,
                   lastAssistant, retryAttempt, sleeper, waitVars, runVars, fresh, text, history>>

\* agent.continue(): from a user message or a tool result the loop goes on; after
\* an assistant message queued messages become prompts, and without any it is
\* refused, as it is while a run is active.
Continue(c) ==
    /\ pc[c] = "continuing"
    /\ \/ /\ run = "none" /\ trail = <<>>
          /\ Go(c, "running") /\ BeginRun(c, "prompting", <<>>)
          /\ UNCHANGED <<steeringQueue, followUpQueue>>
       \/ /\ run = "none" /\ trail # <<>> /\ steeringQueue # <<>>
          /\ Go(c, "running") /\ BeginRun(c, "injecting", Drain(steeringQueue))
          /\ steeringQueue' = Tail(steeringQueue) /\ UNCHANGED followUpQueue
       \/ /\ run = "none" /\ trail # <<>> /\ steeringQueue = <<>> /\ followUpQueue # <<>>
          /\ Go(c, "running") /\ BeginRun(c, "prompting", Drain(followUpQueue))
          /\ followUpQueue' = Tail(followUpQueue) /\ UNCHANGED steeringQueue
       \/ /\ run # "none" \/ (trail # <<>> /\ ~HasQueued)
          /\ Go(c, "finally")
          /\ UNCHANGED <<runVars, inFlight, steeringQueue, followUpQueue>>
    /\ UNCHANGED <<isAgentRunActive, steeringMessages, followUpMessages, contextVars, flagVars,
                   waitVars, fresh, held, text, history>>

\* The finally block, up to the extensions' agent_settled.
Finally(c) ==
    /\ pc[c] = "finally" /\ Go(c, "settling")
    /\ isAgentRunActive' = FALSE
    /\ Flush
    /\ UNCHANGED <<queueVars, flagVars, waitVars, runVars, fresh, held, text, history>>

\* A bug: nobody is told when another run has started in the meantime.
SettledOnce(c) ==
    /\ pc[c] = "settling" /\ Go(c, "idle")
    /\ IF isAgentRunActive \/ compactor = "aborting" THEN UNCHANGED waitVars
       ELSE aborter' = "no" /\ UNCHANGED compactor
    /\ UNCHANGED <<isAgentRunActive, queueVars, contextVars, flagVars, runVars, fresh, held, text, history>>

\* _resolveIdleWaitIfIdle: abort() returns, compact() goes on.
Settled(c) ==
    /\ pc[c] = "settling" /\ Go(c, "idle")
    /\ IF isAgentRunActive THEN UNCHANGED waitVars
       ELSE /\ aborter' = "no"
            /\ compactor' = IF compactor = "aborting" THEN "summarizing" ELSE compactor
    /\ UNCHANGED <<isAgentRunActive, queueVars, contextVars, flagVars, runVars, fresh, held, text, history>>

-----------------------------------------------------------------------------
(* abort() and compact(). *)

\* abortRetry ends the sleep, agent.abort sets the signal of a run; then the
\* call waits until the session is idle.
StopWork ==
    /\ signal' = (run # "none")
    /\ sleeper' = NoCaller
    /\ IF sleeper # NoCaller
       THEN Go(sleeper, "checking") /\ retryAttempt' = 0
       ELSE UNCHANGED <<pc, retryAttempt>>
    /\ UNCHANGED <<isAgentRunActive, queueVars, contextVars, lastAssistant, overflowRecoveryAttempted,
                   run, owner, reply, fresh, held, text, history>>

Abort ==
    /\ aborter = "no"
    /\ StopWork
    /\ aborter' = IF isAgentRunActive THEN "waiting" ELSE "no"
    /\ UNCHANGED compactor

Compact ==
    /\ compactor = "no"
    /\ StopWork
    /\ compactor' = IF isAgentRunActive THEN "aborting" ELSE "summarizing"
    /\ UNCHANGED aborter

\* The manual compaction ends, with a rebuilt transcript if it succeeds.
CompactEnd ==
    /\ compactor = "summarizing" /\ compactor' = "no"
    /\ \/ /\ \E kept \in Kept : trail' = kept /\ saved' = kept
          /\ fresh' = FALSE
       \/ UNCHANGED <<trail, saved, fresh>>
    /\ UNCHANGED <<isAgentRunActive, queueVars, pendingBash, pendingCustom, split, flagVars, aborter,
                   runVars, callerVars, history>>

-----------------------------------------------------------------------------
CallerStep(c) ==
    \/ Join(c) \/ Prepare(c) \/ Unauthorized(c) \/ PreCheck(c) \/ PreCompact(c) \/ StartRun(c)
    \/ PostRun(c) \/ SleepOver(c) \/ PostCheck(c) \/ CompactRetry(c) \/ CompactFails(c)
    \/ Continue(c) \/ Finally(c) \/ Settled(c)

RunStep ==
    \/ Deliver \/ Poll \/ ToolsDone \/ TurnEnd \/ EmitAgentEnd \/ FinishRun
    \/ \E kind \in Assistant : Respond(kind)

UserCall ==
    \/ \E c \in Callers : Submit(c) \/ Trigger(c)
    \/ Steer \/ SteerCustom \/ ClearQueue \/ RecordBash \/ SendCustom \/ Abort \/ Compact

Next == UserCall \/ RunStep \/ CompactEnd \/ \E c \in Callers : CallerStep(c)

Spec == Init /\ [][Next]_vars

\* Awaited calls settle: the model answers, tools end, timers fire, extensions
\* and summaries return.
Fairness ==
    /\ WF_vars(RunStep) /\ WF_vars(CompactEnd)
    /\ \A c \in Callers : WF_vars(CallerStep(c))
FairSpec == Spec /\ Fairness

-----------------------------------------------------------------------------
Text == Texts \cup {NoText}
Message == Text \cup {CustomMessage}
FlagsOK ==
    /\ isAgentRunActive \in BOOLEAN /\ overflowRecoveryAttempted \in BOOLEAN /\ signal \in BOOLEAN
    /\ lastAssistant \in Assistant \cup {"none"} /\ retryAttempt \in 0 .. MaxRetries
    /\ sleeper \in Callers \cup {NoCaller}
    /\ compactor \in {"no", "aborting", "summarizing"} /\ aborter \in {"no", "waiting"}
    /\ fresh \in BOOLEAN /\ announced \in BOOLEAN /\ raced \in BOOLEAN /\ split \in BOOLEAN
QueuesOK ==
    /\ steeringMessages \in Seq(Text) /\ followUpMessages \in Seq(Text)
    /\ steeringQueue \in Seq(Message) /\ followUpQueue \in Seq(Message)
    /\ inFlight \in Seq(Message)
ContextOK ==
    /\ pendingBash \in Nat /\ pendingCustom \in Nat /\ contexts \in Nat
    /\ trail \in Seq(Assistant) /\ saved \in Seq(Assistant)
RunOK ==
    /\ run \in RunPhases /\ owner \in Callers \cup {NoCaller} /\ (run # "none" => owner \in Callers)
    /\ reply \in Assistant \cup {"none"} /\ toolTurns \in Nat
CallersOK ==
    /\ pc \in [Callers -> Phases] /\ held \in [Callers -> Assistant \cup {"none", "threshold"}]
    /\ text \in [Callers -> Text] /\ submits \in Nat
TypeOK == FlagsOK /\ QueuesOK /\ ContextOK /\ RunOK /\ CallersOK

Occurrences(list, m) == Cardinality({i \in 1 .. Len(list) : list[i] = m})

\* A message that was delivered is not shown as queued any more: no text is shown
\* more often than the agent has it queued or in hand, however drains, deliveries,
\* clears and equal texts in both lists follow each other.  Texts that are empty
\* are excepted: those stay (agent-session.ts:627-641).
ShownIsPending ==
    \A m \in Texts \ {NoText} :
        Occurrences(steeringMessages, m) + Occurrences(followUpMessages, m)
            <= Occurrences(steeringQueue, m) + Occurrences(followUpQueue, m)
               + Occurrences(inFlight, m)

\* "`queue_update` emits the full pending steering and follow-up queues whenever
\* they change" (docs/json.md:31): with nothing in hand, the lists are the texts of
\* the user's messages in the agent's queues.
QueueShown ==
    inFlight = <<>> => /\ steeringMessages = SelectSeq(steeringQueue, FromUser)
                       /\ followUpMessages = SelectSeq(followUpQueue, FromUser)

\* "`ctx.isIdle()` is false while Pi is processing an agent run, automatic retry,
\* auto-compaction retry, or queued continuation" (docs/extensions.md:1046), as
\* long as no two calls have passed the isStreaming check together.  And whatever
\* calls did: the session never stays busy with nobody left to make it idle.
BusyWhileDriving ==
    LET driven == \E c \in Callers : pc[c] \in Driving \cup {"finally"}
    IN  /\ isAgentRunActive => driven
        /\ driven /\ ~raced => isAgentRunActive

\* Without that race a context-only message never comes between a tool call and
\* its result (agent-session.ts:1487).
ResultsFollowCalls == ~raced => ~split

\* "If `willRetry` is true, an automatic retry will follow" (docs/rpc.md:895),
\* and if it is false none does.
WillRetryKept ==
    [][\A c \in Callers :
          pc[c] = "post" /\ pc'[c] # "post" /\ ~raced => (announced <=> pc'[c] = "sleeping")]_vars

\* A prompt comes to an end however the model answers: retries, recoveries and
\* continuations do not feed each other for ever (agent-session.ts:2105).
PromptsEnd == \A c \in Callers : pc[c] # "idle" ~> pc[c] = "idle"

\* abort() and compact() find the session idle in the end (agent-session.ts:599).
WaitersGoOn == (aborter = "waiting" ~> aborter = "no") /\ (compactor = "aborting" ~> compactor = "no")

\* "agent.continue() rejects that state, so remove the retriable error or
\* truncated-length response again" (agent-session.ts:2365): after the recovery
\* from an overflow the agent does not refuse the continuation.
RecoveryContinues ==
    [][\A c \in Callers :
          pc[c] = "compacting" /\ pc'[c] = "continuing" => trail' = <<>> \/ HasQueued']_vars

=============================================================================
