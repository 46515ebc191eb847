---------------------------- MODULE Agent_proofs ----------------------------
(***************************************************************************)
(* Proofs about the agent for any messages, any modes and any bounds: type  *)
(* correctness, then the invariants of the tool batch, of the loop's copy   *)
(* of the conversation, of the order of results, and of the two queues.     *)
(***************************************************************************)
EXTENDS Agent, TransformMessages_proofs

-----------------------------------------------------------------------------
(* The operators the actions are built from.                                *)

\* A drain splits the queue (PendingMessageQueue.drain, agent.ts:141).
LEMMA DrainType ==
    ASSUME NEW queue \in Seq(Msgs), NEW queueMode
    PROVE  /\ Drained(queue, queueMode) \in Seq(Msgs)
           /\ Remaining(queue, queueMode) \in Seq(Msgs)
BY DEF Drained, Remaining

\* The constructors build messages.
LEMMA MessageTypes ==
    /\ \A m \in Msgs : User(m) \in Message
    /\ \A ids \in Seq(Call), stop \in StopReasons : Assistant(ids, stop) \in Message
    /\ \A c \in Call : ToolResult(c) \in Message
BY DEF User, Assistant, ToolResult, Message

\* Queued messages become user messages, one each, in order.
LEMMA UserMessagesType ==
    ASSUME NEW ids \in Seq(Msgs)
    PROVE  /\ UserMessages(ids) \in Seq(Message)
           /\ Len(UserMessages(ids)) = Len(ids)
           /\ \A i \in 1 .. Len(ids) : UserMessages(ids)[i] = User(ids[i])
BY MessageTypes DEF UserMessages

\* The calls of an assistant message are named in source order.
LEMMA CallIdsType ==
    ASSUME NEW t \in Nat, NEW n \in Nat
    PROVE  /\ CallIds(t, n) \in Seq(Call) /\ Len(CallIds(t, n)) = n
           /\ \A i \in 1 .. n : CallIds(t, n)[i] = <<t, i>>
BY DEF CallIds, Call

\* What a queue holds is what it was given.
LEMMA ToSetType ==
    ASSUME NEW S, NEW s \in Seq(S)
    PROVE  ToSet(s) \subseteq S
BY DEF ToSet

\* The log names messages of the user.
LEMMA IdsType ==
    ASSUME TypeOK
    PROVE  Ids(submitted) \subseteq Msgs
<1>1. \A i \in DOMAIN submitted : submitted[i] \in Entry
  BY ElementOfSeq DEF TypeOK, ControlOK
<1> QED
  BY <1>1 DEF Ids, Entry

\* A message enters the log with its lane.
LEMMA SubmitType ==
    ASSUME TypeOK, NEW m \in Msgs, NEW lane \in Lanes
    PROVE  Append(submitted, [id |-> m, lane |-> lane]) \in Seq(Entry)
BY DEF TypeOK, ControlOK, Entry

\* The state functions of the batch speak of positions.
LEMMA PositionsType ==
    ASSUME TypeOK
    PROVE  /\ Positions = 1 .. Len(calls)
           /\ \A s : InState(s) \subseteq Positions
           /\ Finished \subseteq Positions
<1>1. Positions = 1 .. Len(calls)
  BY DEF TypeOK, BatchOK, Positions
<1> QED
  BY <1>1 DEF InState, Finished

-----------------------------------------------------------------------------
(* Type correctness, group by group.                                        *)

\* The calls that leave the run alone keep the types.
LEMMA QueueCallType ==
    ASSUME TypeOK,
           Abort \/ Reset \/ ClearSteering \/ ClearFollowUps
               \/ \E m \in Msgs : Steer(m) \/ FollowUp(m)
    PROVE  TypeOK'
<1> USE DEF turnVars, batchVars, history
<1>1. FlagsOK'
  BY DEF Abort, Reset, ClearSteering, ClearFollowUps, Steer, FollowUp, TypeOK, FlagsOK
<1>2. TranscriptOK'
  <2>1. messages' \in {messages, <<>>} /\ context' = context
    BY DEF Abort, Reset, ClearSteering, ClearFollowUps, Steer, FollowUp
  <2>2. messages \in Seq(Message) /\ <<>> \in Seq(Message) /\ context \in Seq(Message)
    BY EmptySeq DEF TypeOK, TranscriptOK
  <2> QED BY ONLY <2>1, <2>2 DEF TranscriptOK
<1>3. QueuesOK'
  <2>1. CASE \E m \in Msgs : Steer(m) \/ FollowUp(m)
    <3>1. PICK m \in Msgs : Steer(m) \/ FollowUp(m)
      BY <2>1
    <3>2. /\ steeringQueue' \in {steeringQueue, Append(steeringQueue, m)}
          /\ followUpQueue' \in {followUpQueue, Append(followUpQueue, m)}
          /\ pending' = pending
      BY <3>1 DEF Steer, FollowUp
    <3>3. /\ steeringQueue \in Seq(Msgs) /\ Append(steeringQueue, m) \in Seq(Msgs)
          /\ followUpQueue \in Seq(Msgs) /\ Append(followUpQueue, m) \in Seq(Msgs)
          /\ pending \in Seq(Msgs)
      BY DEF TypeOK, QueuesOK
    <3> QED BY ONLY <3>2, <3>3 DEF QueuesOK
  <2>2. CASE Abort \/ Reset \/ ClearSteering \/ ClearFollowUps
    <3>1. /\ steeringQueue' \in {steeringQueue, <<>>} /\ followUpQueue' \in {followUpQueue, <<>>}
          /\ pending' = pending
      BY <2>2 DEF Abort, Reset, ClearSteering, ClearFollowUps
    <3>2. /\ steeringQueue \in Seq(Msgs) /\ followUpQueue \in Seq(Msgs)
          /\ pending \in Seq(Msgs) /\ <<>> \in Seq(Msgs)
      BY EmptySeq DEF TypeOK, QueuesOK
    <3> QED BY ONLY <3>1, <3>2 DEF QueuesOK
  <2> QED BY <2>1, <2>2
<1>4. BatchOK'
  BY DEF Abort, Reset, ClearSteering, ClearFollowUps, Steer, FollowUp, TypeOK, BatchOK,
         Positions
<1>5. ControlOK'
  <2>1. CASE \E m \in Msgs : Steer(m) \/ FollowUp(m)
    BY <2>1, SubmitType DEF Steer, FollowUp, Lanes, TypeOK, ControlOK
  <2>2. ToSet(steeringQueue) \subseteq Msgs /\ ToSet(followUpQueue) \subseteq Msgs
    BY ToSetType DEF TypeOK, QueuesOK
  <2>3. CASE Abort \/ Reset \/ ClearSteering \/ ClearFollowUps
    BY <2>2, <2>3, IdsType DEF Abort, Reset, ClearSteering, ClearFollowUps, TypeOK, ControlOK
  <2> QED BY <2>1, <2>3
<1> QED
  BY <1>1, <1>2, <1>3, <1>4, <1>5 DEF TypeOK

\* A run starts with typed prompts and a typed context (agent.ts:350, 361).
LEMMA RunCallType ==
    ASSUME TypeOK,
           Continue \/ ContinueFromSteering \/ ContinueFromFollowUps
               \/ \E m \in Msgs : Prompt(m)
    PROVE  TypeOK'
<1> USE DEF batchVars
<1>1. FlagsOK'
  BY DEF Continue, ContinueFromSteering, ContinueFromFollowUps, Prompt, StartRun,
         TypeOK, FlagsOK
<1>2. \A queue \in Seq(Msgs) : \A queueMode :
          /\ Drained(queue, queueMode) \in Seq(Msgs)
          /\ Remaining(queue, queueMode) \in Seq(Msgs)
          /\ messages \o UserMessages(Drained(queue, queueMode)) \in Seq(Message)
  BY DrainType, UserMessagesType DEF TypeOK, TranscriptOK
<1>3. \A m \in Msgs : Append(messages, User(m)) \in Seq(Message) /\ <<m>> \in Seq(Msgs)
  BY MessageTypes DEF TypeOK, TranscriptOK
<1>4. TranscriptOK'
  <2>1. messages' = messages
    BY DEF Continue, ContinueFromSteering, ContinueFromFollowUps, Prompt
  <2>2. CASE Continue \/ \E m \in Msgs : Prompt(m)
    BY <2>1, <2>2, <1>3 DEF Continue, Prompt, StartRun, TypeOK, TranscriptOK
  <2>3. steeringQueue \in Seq(Msgs) /\ followUpQueue \in Seq(Msgs)
    BY DEF TypeOK, QueuesOK
  <2>4. CASE ContinueFromSteering \/ ContinueFromFollowUps
    <3>1. \E queue \in Seq(Msgs) : \E queueMode :
             context' = messages \o UserMessages(Drained(queue, queueMode))
      BY <2>3, <2>4 DEF ContinueFromSteering, ContinueFromFollowUps, StartRun
    <3> QED BY <2>1, <3>1, <1>2 DEF TypeOK, TranscriptOK
  <2> QED BY <2>2, <2>4
<1>5. QueuesOK'
  <2>1. steeringQueue \in Seq(Msgs) /\ followUpQueue \in Seq(Msgs) /\ <<>> \in Seq(Msgs)
    BY DEF TypeOK, QueuesOK
  <2>2. CASE Continue
    BY <2>1, <2>2 DEF Continue, StartRun, QueuesOK
  <2>3. CASE \E m \in Msgs : Prompt(m)
    BY <2>1, <2>3, <1>3 DEF Prompt, StartRun, QueuesOK
  <2>4. CASE ContinueFromSteering
    BY <2>1, <2>4, <1>2 DEF ContinueFromSteering, StartRun, QueuesOK
  <2>5. CASE ContinueFromFollowUps
    BY <2>1, <2>5, <1>2 DEF ContinueFromFollowUps, StartRun, QueuesOK
  <2> QED BY <2>2, <2>3, <2>4, <2>5
<1>6. BatchOK'
  BY DEF Continue, ContinueFromSteering, ContinueFromFollowUps, Prompt, StartRun,
         TypeOK, BatchOK, Positions
<1>7. ControlOK'
  <2>1. /\ pc' = "prompting" /\ runs' = runs + 1 /\ dropped' = dropped
        /\ toolTurns' = toolTurns /\ failures' = failures
    BY DEF Continue, ContinueFromSteering, ContinueFromFollowUps, Prompt, StartRun
  <2>2. submitted' \in Seq(Entry)
    <3>1. CASE \E m \in Msgs : Prompt(m)
      BY <3>1, SubmitType DEF Prompt, Lanes
    <3>2. CASE Continue \/ ContinueFromSteering \/ ContinueFromFollowUps
      BY <3>2 DEF Continue, ContinueFromSteering, ContinueFromFollowUps, TypeOK, ControlOK
    <3> QED BY <3>1, <3>2
  <2> QED BY <2>1, <2>2 DEF TypeOK, ControlOK
<1> QED
  BY <1>1, <1>4, <1>5, <1>6, <1>7 DEF TypeOK

\* What the loop does between the tool batches (agent-loop.ts:155).
TurnStep ==
    \/ EmitPrompt \/ InitialPoll \/ Inject \/ Request
    \/ StopAfterTurn \/ PollSteering \/ PollFollowUps \/ EmitAgentEnd
    \/ RecordFailure \/ FinishRun

\* The loop keeps the types between the tool batches (agent-loop.ts:155).
LEMMA TurnStepType ==
    ASSUME TypeOK, TurnStep
    PROVE  TypeOK'
<1> USE DEF agentVars, turnVars, batchVars, history, TakeSteering
<1>1. /\ messages \in Seq(Message) /\ context \in Seq(Message)
      /\ steeringQueue \in Seq(Msgs) /\ followUpQueue \in Seq(Msgs) /\ pending \in Seq(Msgs)
      /\ <<>> \in Seq(Msgs)
  BY EmptySeq DEF TypeOK, TranscriptOK, QueuesOK
<1>2. FlagsOK'
  BY DEF TurnStep, EmitPrompt, InitialPoll, Inject, Request, StopAfterTurn, PollSteering,
         PollFollowUps, EmitAgentEnd, RecordFailure, FinishRun, TypeOK, FlagsOK
<1>3. TranscriptOK'
  <2>1. CASE EmitPrompt \/ Inject
    <3>1. /\ pending # <<>> /\ context' \in {context, Append(context, User(Head(pending)))}
          /\ messages' = Append(messages, User(Head(pending)))
      BY <2>1 DEF EmitPrompt, Inject
    <3>2. User(Head(pending)) \in Message
      BY <1>1, <3>1, MessageTypes
    <3>3. /\ Append(messages, User(Head(pending))) \in Seq(Message)
          /\ Append(context, User(Head(pending))) \in Seq(Message)
      BY <1>1, <3>2
    <3> QED BY <3>1, <3>3, <1>1 DEF TranscriptOK
  <2>2. CASE RecordFailure
    <3>1. \A stop \in StopReasons : Append(messages, Assistant(<<>>, stop)) \in Seq(Message)
      <4>1. <<>> \in Seq(Call)
        BY EmptySeq
      <4>2. \A stop \in StopReasons : Assistant(<<>>, stop) \in Message
        BY <4>1, MessageTypes
      <4> QED BY <1>1, <4>2
    <3>2. /\ context' = context
          /\ \E stop \in StopReasons : messages' = Append(messages, Assistant(<<>>, stop))
      BY <2>2 DEF RecordFailure, StopReasons
    <3> QED BY <3>1, <3>2, <1>1 DEF TranscriptOK
  <2>3. CASE ~(EmitPrompt \/ Inject \/ RecordFailure)
    <3>1. messages' = messages /\ context' = context
      BY <2>3 DEF TurnStep, InitialPoll, Request, StopAfterTurn, PollSteering,
                  PollFollowUps, EmitAgentEnd, FinishRun
    <3> QED BY <3>1, <1>1 DEF TranscriptOK
  <2> QED BY <2>1, <2>2, <2>3
<1>4. QueuesOK'
  <2>1. CASE EmitPrompt \/ Inject
    <3>1. /\ pending # <<>> /\ pending' = Tail(pending)
          /\ UNCHANGED <<steeringQueue, followUpQueue>>
      BY <2>1 DEF EmitPrompt, Inject
    <3> QED BY ONLY <1>1, <3>1 DEF QueuesOK
  <2>2. CASE InitialPoll \/ PollSteering
    <3>1. /\ steeringQueue' \in {steeringQueue, Remaining(steeringQueue, SteeringMode)}
          /\ pending' \in {<<>>, Drained(steeringQueue, SteeringMode)}
          /\ followUpQueue' = followUpQueue
      BY <2>2 DEF InitialPoll, PollSteering
    <3> QED BY <3>1, <1>1, DrainType DEF QueuesOK
  <2>3. CASE PollFollowUps
    <3>1. /\ followUpQueue' = Remaining(followUpQueue, FollowUpMode)
          /\ pending' = Drained(followUpQueue, FollowUpMode)
          /\ steeringQueue' = steeringQueue
      BY <2>3 DEF PollFollowUps
    <3> QED BY <3>1, <1>1, DrainType DEF QueuesOK
  <2>4. CASE Request \/ StopAfterTurn \/ EmitAgentEnd \/ RecordFailure \/ FinishRun
    <3>1. /\ pending' \in {<<>>, pending} /\ steeringQueue' = steeringQueue
          /\ followUpQueue' = followUpQueue
      BY <2>4 DEF Request, StopAfterTurn, EmitAgentEnd, RecordFailure, FinishRun
    <3> QED BY <3>1, <1>1 DEF QueuesOK
  <2> QED BY <2>1, <2>2, <2>3, <2>4 DEF TurnStep
<1>5. BatchOK'
  <2>1. /\ UNCHANGED <<mode, calls, st, terminating, answered, orphans>>
        /\ pendingToolCalls' \in {pendingToolCalls, {}}
    BY DEF TurnStep, EmitPrompt, InitialPoll, Inject, Request, StopAfterTurn, PollSteering,
           PollFollowUps, EmitAgentEnd, RecordFailure, FinishRun
  <2> QED BY <2>1 DEF TypeOK, BatchOK, Positions
<1>6. ControlOK'
  <2>1. UNCHANGED <<toolTurns, runs, failures, submitted, dropped>>
    BY DEF TurnStep, EmitPrompt, InitialPoll, Inject, Request, StopAfterTurn, PollSteering,
           PollFollowUps, EmitAgentEnd, RecordFailure, FinishRun
  <2>2. pc' \in {"idle", "prompting", "injecting", "streaming", "pollFollowUps",
                 "ending", "ended"}
    BY DEF TurnStep, EmitPrompt, InitialPoll, Inject, Request, StopAfterTurn, PollSteering,
           PollFollowUps, EmitAgentEnd, RecordFailure, FinishRun
  <2> QED BY <2>1, <2>2 DEF TypeOK, ControlOK
<1> QED
  BY <1>2, <1>3, <1>4, <1>5, <1>6 DEF TypeOK

\* The assistant's message starts a batch (agent-loop.ts:193).
LEMMA RespondType ==
    ASSUME TypeOK, NEW stop \in StopReasons, NEW n \in Nat, Respond(stop, n)
    PROVE  TypeOK'
<1> DEFINE ids == CallIds(toolTurns + 1, n)
<1>1. /\ ids \in Seq(Call) /\ <<>> \in Seq(Call) /\ Assistant(ids, stop) \in Message
  <2>1. ids \in Seq(Call)
    BY CallIdsType DEF TypeOK, ControlOK
  <2> QED BY <2>1, EmptySeq, MessageTypes
<1> HIDE DEF ids
<1>2. FlagsOK'
  BY DEF Respond, TypeOK, FlagsOK
<1>3. TranscriptOK'
  <2>1. /\ messages' = Append(messages, Assistant(ids, stop))
        /\ context' = Append(context, Assistant(ids, stop))
    BY DEF Respond, ids
  <2> QED BY <1>1, <2>1 DEF TypeOK, TranscriptOK
<1>4. QueuesOK'
  BY DEF Respond, TypeOK, QueuesOK
<1>5. BatchOK'
  <2>1. /\ calls' \in Seq(Call)
        /\ st' = [i \in DOMAIN calls' |-> "todo"]
        /\ terminating' = {} /\ answered' = 0
        /\ mode' \in {"truncated", "sequential", "parallel"}
        /\ UNCHANGED <<pendingToolCalls, orphans>>
    BY <1>1 DEF Respond, NewBatch, Modes, ids
  <2>2. 0 \in 0 .. Len(calls')
    BY <2>1, LenProperties
  <2> QED BY <2>1, <2>2 DEF TypeOK, BatchOK, Positions, CallState
<1>6. ControlOK'
  BY DEF Respond, TypeOK, ControlOK
<1> QED
  BY <1>2, <1>3, <1>4, <1>5, <1>6 DEF TypeOK

\* A tool batch executes and answers its calls (agent-loop.ts:411).
LEMMA ToolStepType ==
    ASSUME TypeOK, ToolStep
    PROVE  TypeOK'
<1> USE DEF agentVars, turnVars, history
<1>1. /\ messages \in Seq(Message) /\ context \in Seq(Message)
      /\ Positions = 1 .. Len(calls) /\ Len(calls) \in Nat /\ st \in [Positions -> CallState]
      /\ terminating \subseteq Positions /\ answered \in 0 .. Len(calls)
      /\ \A i \in Positions : calls[i] \in Call
      /\ Finished \subseteq Positions /\ calls \in Seq(Call)
  BY PositionsType, ElementOfSeq, LenProperties DEF TypeOK, TranscriptOK, BatchOK
<1>2. FlagsOK'
  <2>1. UNCHANGED <<active, aborted, failing, skipPoll>>
    BY DEF ToolStep, ToolStart, ToolPrepared, ToolRefused, ToolEnd, EndCall, Launch, Answer,
           BatchDone
  <2>2. hasMoreToolCalls' = hasMoreToolCalls \/ BatchDone
    BY DEF ToolStep, ToolStart, ToolPrepared, ToolRefused, ToolEnd, EndCall, Launch, Answer
  <2>3. hasMoreToolCalls' \in BOOLEAN
    BY <2>2 DEF BatchDone, TypeOK, FlagsOK
  <2> QED BY <2>1, <2>3 DEF TypeOK, FlagsOK
<1>3. TranscriptOK'
  <2>1. CASE Answer
    <3>1. /\ messages' = Append(messages, ToolResult(calls[answered + 1])) /\ context' = context
          /\ answered + 1 \in Positions
      BY <2>1, <1>1 DEF Answer
    <3>2. ToolResult(calls[answered + 1]) \in Message
      BY <3>1, <1>1, MessageTypes
    <3> QED BY ONLY <3>1, <3>2, <1>1 DEF TranscriptOK
  <2>2. CASE BatchDone
    <3> DEFINE results == [i \in 1 .. answered |-> ToolResult(calls[i])]
    <3>1. messages' = messages /\ context' = context \o results
      BY <2>2 DEF BatchDone
    <3>2. results \in Seq(Message)
      <4>1. \A i \in 1 .. answered : ToolResult(calls[i]) \in Message
        BY <1>1, MessageTypes
      <4> QED BY <4>1, <1>1
    <3> HIDE DEF results
    <3> QED BY ONLY <3>1, <3>2, <1>1, ConcatProperties DEF TranscriptOK
  <2>3. CASE ~(Answer \/ BatchDone)
    <3>1. messages' = messages /\ context' = context
      BY <2>3 DEF ToolStep, ToolStart, ToolPrepared, ToolRefused, ToolEnd, EndCall, Launch
    <3> QED BY <3>1, <1>1 DEF TranscriptOK
  <2> QED BY <2>1, <2>2, <2>3
<1>4. QueuesOK'
  <2>1. UNCHANGED <<steeringQueue, followUpQueue, pending>>
    BY DEF ToolStep, ToolStart, ToolPrepared, ToolRefused, ToolEnd, EndCall, Launch, Answer,
           BatchDone
  <2> QED BY <2>1 DEF TypeOK, QueuesOK
<1>5. BatchOK'
  <2>1. /\ UNCHANGED <<mode, calls, orphans>>
        /\ pendingToolCalls' \subseteq pendingToolCalls \cup {calls[i] : i \in Positions}
    BY DEF ToolStep, ToolStart, ToolPrepared, ToolRefused, ToolEnd, EndCall, Launch, Answer,
           BatchDone, batchVars
  <2>2. st' \in [Positions -> CallState]
    <3>1. \A i \in Positions : \A how \in CallState :
             [st EXCEPT ![i] = how] \in [Positions -> CallState]
      BY <1>1
    <3>2. [i \in Positions |-> IF st[i] = "prepared" THEN "running" ELSE st[i]]
             \in [Positions -> CallState]
      BY <1>1 DEF CallState
    <3>3. CASE \E i \in Positions, t \in BOOLEAN :
                  ToolStart(i) \/ ToolPrepared(i) \/ ToolRefused(i, t) \/ ToolEnd(i, t)
      <4>1. PICK i \in Positions :
               \E how \in {"preparing", "running", "prepared", "refused", "ended"} :
                  st' = [st EXCEPT ![i] = how]
        BY <3>3 DEF ToolStart, ToolPrepared, ToolRefused, ToolEnd, EndCall
      <4>2. {"preparing", "running", "prepared", "refused", "ended"} \subseteq CallState
        BY DEF CallState
      <4> QED BY <3>1, <4>1, <4>2
    <3>4. CASE Launch
      BY <3>2, <3>4 DEF Launch
    <3>5. CASE Answer \/ BatchDone
      BY <3>5, <1>1 DEF Answer, BatchDone, batchVars
    <3> QED
      BY <3>3, <3>4, <3>5 DEF ToolStep
  <2>3. terminating' \subseteq Positions
    <3>1. \E i \in Positions : terminating' \subseteq terminating \cup {i}
      <4>1. CASE \E i \in Positions, t \in BOOLEAN : ToolRefused(i, t) \/ ToolEnd(i, t)
        BY <4>1 DEF ToolRefused, ToolEnd, EndCall
      <4>2. CASE \E i \in Positions : ToolStart(i) \/ ToolPrepared(i)
        BY <4>2 DEF ToolStart, ToolPrepared
      <4>3. CASE Launch \/ Answer \/ BatchDone
        <5>1. terminating' = terminating /\ \E i \in Positions : TRUE
          BY <4>3, <1>1 DEF Launch, Answer, BatchDone, batchVars, InState, Finished
        <5> QED BY <5>1
      <4> QED BY <4>1, <4>2, <4>3 DEF ToolStep
    <3> QED BY <3>1, <1>1
  <2>4. answered' \in 0 .. Len(calls)
    <3>1. CASE Answer
      <4>1. answered' = answered + 1 /\ answered + 1 \in 1 .. Len(calls)
        BY <3>1, <1>1 DEF Answer
      <4> QED BY <4>1, <1>1
    <3>2. CASE ~Answer
      <4>1. answered' = answered
        BY <3>2 DEF ToolStep, ToolStart, ToolPrepared, ToolRefused, ToolEnd, EndCall, Launch,
               BatchDone, batchVars
      <4> QED BY <4>1, <1>1
    <3> QED BY <3>1, <3>2
  <2>5. Positions' = Positions
    BY <2>1 DEF Positions
  <2> QED BY <2>1, <2>2, <2>3, <2>4, <2>5, <1>1 DEF TypeOK, BatchOK
<1>6. ControlOK'
  <2>1. pc' \in {pc, "turnEnd"} /\ UNCHANGED history
    BY DEF ToolStep, ToolStart, ToolPrepared, ToolRefused, ToolEnd, EndCall, Launch, Answer,
           BatchDone
  <2> QED BY <2>1 DEF TypeOK, ControlOK
<1> QED
  BY <1>2, <1>3, <1>4, <1>5, <1>6 DEF TypeOK

\* Something rejects, or an orphaned call settles (agent.ts:504).
LEMMA FailureType ==
    ASSUME TypeOK, Failure \/ \E c \in orphans : OrphanEnd(c)
    PROVE  TypeOK'
<1> USE DEF agentVars, turnVars, batchVars, history
<1>1. FlagsOK'
  BY DEF Failure, FailureThrows, Throw, OrphanEnd, TypeOK, FlagsOK
<1>2. TranscriptOK'
  BY DEF Failure, FailureThrows, Throw, OrphanEnd, TypeOK, TranscriptOK
<1>3. QueuesOK'
  <2>1. /\ UNCHANGED <<steeringQueue, followUpQueue>> /\ pending' \in {<<>>, pending}
    BY DEF Failure, FailureThrows, Throw, OrphanEnd
  <2> QED BY <2>1, EmptySeq DEF TypeOK, QueuesOK
<1>4. BatchOK'
  <2>1. /\ UNCHANGED <<mode, calls, st, terminating, answered>>
        /\ pendingToolCalls' \subseteq pendingToolCalls
        /\ orphans' \subseteq orphans \cup {calls[i] : i \in Positions}
    BY PositionsType DEF Failure, FailureThrows, Throw, OrphanEnd
  <2>2. \A i \in Positions : calls[i] \in Call
    BY PositionsType, ElementOfSeq DEF TypeOK, BatchOK
  <2> QED BY <2>1, <2>2 DEF TypeOK, BatchOK, Positions
<1>5. ControlOK'
  BY DEF Failure, FailureThrows, Throw, OrphanEnd, TypeOK, ControlOK
<1> QED
  BY <1>1, <1>2, <1>3, <1>4, <1>5 DEF TypeOK

\* Type correctness of the agent, its loop and its tool batch (every variable).
THEOREM TypeCorrect == Spec => []TypeOK
<1>1. Init => TypeOK
  <2> SUFFICES ASSUME Init PROVE TypeOK
    OBVIOUS
  <2>1. FlagsOK
    BY DEF Init, FlagsOK
  <2>2. TranscriptOK /\ QueuesOK
    BY EmptySeq DEF Init, TranscriptOK, QueuesOK
  <2>3. BatchOK
    <3>1. calls \in Seq(Call) /\ Positions = {} /\ Len(calls) = 0
      BY EmptySeq DEF Init, Positions
    <3>2. st \in [Positions -> CallState]
      BY <3>1 DEF Init
    <3> QED BY <3>1, <3>2 DEF Init, BatchOK
  <2>4. ControlOK
    BY EmptySeq DEF Init, ControlOK
  <2> QED BY <2>1, <2>2, <2>3, <2>4 DEF TypeOK
<1>2. TypeOK /\ [Next]_vars => TypeOK'
  <2> SUFFICES ASSUME TypeOK, [Next]_vars PROVE TypeOK'
    OBVIOUS
  <2>1. CASE UserCall
    BY <2>1, QueueCallType, RunCallType DEF UserCall
  <2>2. CASE TurnStep
    BY <2>2, TurnStepType
  <2>3. ASSUME NEW stop \in StopReasons, NEW n \in 0 .. MaxCalls, Respond(stop, n)
        PROVE  TypeOK'
    BY <2>3, RespondType, AgentAssumption
  <2>4. CASE ToolStep
    BY <2>4, ToolStepType
  <2>5. CASE Failure \/ \E c \in orphans : OrphanEnd(c)
    BY <2>5, FailureType
  <2>6. CASE UNCHANGED vars
    BY <2>6 DEF vars, agentVars, turnVars, batchVars, history, TypeOK, FlagsOK, TranscriptOK,
                QueuesOK, BatchOK, ControlOK, Positions
  <2> QED
    BY <2>1, <2>2, <2>3, <2>4, <2>5, <2>6 DEF Next, LoopStep, TurnStep
<1> QED
  BY <1>1, <1>2, PTL DEF Spec

-----------------------------------------------------------------------------
(* The tool batch: what the runs check of it, for batches of any size.      *)

\* A run is active exactly while the loop is somewhere in it.
ActiveInv == active <=> pc # "idle"

\* The calls of a batch are new: none of them is still executing on behalf of an
\* earlier run.
NamesInv ==
    /\ \A c \in orphans : c[1] <= toolTurns
    /\ pc = "tools" => /\ \A i \in Positions : calls[i] = <<toolTurns, i>>
                       /\ \A c \in orphans : c[1] < toolTurns

\* Only calls that are over are answered.
AnsweredInv == pc = "tools" => \A j \in 1 .. answered : st[j] \in Over

BatchInv ==
    ActiveInv /\ NamesInv /\ AnsweredInv
    /\ PendingToolCallsExact /\ OneCallAtATime /\ AnsweredUnlessAborted

\* A step that leaves the run and the batch alone keeps the invariant.
LEMMA BatchFrame ==
    ASSUME TypeOK, BatchInv,
           UNCHANGED <<active, pc, mode, calls, st, answered, toolTurns>>,
           orphans' \subseteq orphans, pendingToolCalls' = pendingToolCalls,
           aborted => aborted'
    PROVE  BatchInv'
<1>1. ActiveInv'
  BY DEF BatchInv, ActiveInv
<1>2. NamesInv'
  BY DEF BatchInv, NamesInv, Positions
<1>3. AnsweredInv'
  BY DEF BatchInv, AnsweredInv
<1>4. PendingToolCallsExact'
  BY DEF BatchInv, PendingToolCallsExact, Positions
<1>5. OneCallAtATime'
  BY DEF BatchInv, OneCallAtATime, Started, InState, Positions
<1>6. AnsweredUnlessAborted'
  BY DEF BatchInv, AnsweredUnlessAborted
<1> QED
  BY <1>1, <1>2, <1>3, <1>4, <1>5, <1>6 DEF BatchInv

\* Outside the batch there is little to keep: any move of the loop that is not
\* into a batch, and leaves no started call behind unless the run is failing.
LEMMA BatchOutside ==
    ASSUME TypeOK, BatchInv,
           active' <=> pc' # "idle", pc' # "tools", pc' # "turnEnd",
           toolTurns' = toolTurns,
           \A c \in orphans' : c[1] <= toolTurns,
           pc' \notin {"failing", "ending", "ended", "closing"} => pendingToolCalls' = {}
    PROVE  BatchInv'
BY DEF BatchInv, ActiveInv, NamesInv, AnsweredInv, PendingToolCallsExact, OneCallAtATime,
       AnsweredUnlessAborted

\* A user's call never disturbs a batch (agent.ts:283, 319, 333, 350).
LEMMA UserCallBatch ==
    ASSUME TypeOK, BatchInv, UserCall
    PROVE  BatchInv'
<1>1. CASE Abort \/ ClearSteering \/ ClearFollowUps \/ \E m \in Msgs : Steer(m) \/ FollowUp(m)
  <2>1. /\ UNCHANGED <<active, pc, mode, calls, st, answered, toolTurns, orphans, pendingToolCalls>>
    BY <1>1 DEF Abort, ClearSteering, ClearFollowUps, Steer, FollowUp, batchVars, history
  <2>2. aborted' = aborted \/ aborted' = TRUE
    BY <1>1 DEF Abort, ClearSteering, ClearFollowUps, Steer, FollowUp
  <2> QED BY <2>1, <2>2, BatchFrame
<1>2. CASE Reset
  <2>1. /\ pc = "idle" /\ UNCHANGED <<active, pc, toolTurns, orphans>> /\ pendingToolCalls' = {}
    BY <1>2 DEF Reset, BatchInv, ActiveInv, turnVars
  <2> QED BY <2>1, BatchOutside DEF BatchInv, ActiveInv, NamesInv
<1>3. CASE Continue \/ ContinueFromSteering \/ ContinueFromFollowUps \/ \E m \in Msgs : Prompt(m)
  <2>1. /\ ~active /\ active' = TRUE /\ pc' = "prompting"
        /\ UNCHANGED <<toolTurns, orphans, pendingToolCalls>>
    BY <1>3 DEF Continue, ContinueFromSteering, ContinueFromFollowUps, Prompt, StartRun
  <2>2. pendingToolCalls = {}
    BY <2>1 DEF BatchInv, ActiveInv, PendingToolCallsExact
  <2> QED BY <2>1, <2>2, BatchOutside DEF BatchInv, NamesInv
<1> QED
  BY <1>1, <1>2, <1>3 DEF UserCall

\* The loop between the batches.
LEMMA TurnStepBatch ==
    ASSUME TypeOK, BatchInv, TurnStep
    PROVE  BatchInv'
<1> USE DEF agentVars, turnVars, batchVars, history
<1>1. CASE FinishRun
  <2>1. /\ active' = FALSE /\ pc' = "idle" /\ pendingToolCalls' = {}
        /\ UNCHANGED <<toolTurns, orphans>>
    BY <1>1 DEF FinishRun
  <2> QED BY <2>1, BatchOutside DEF BatchInv, NamesInv
<1>2. CASE ~FinishRun
  <2>1. /\ pc # "idle" /\ pc' \notin {"idle", "tools", "turnEnd"}
        /\ UNCHANGED <<active, toolTurns, orphans, pendingToolCalls>>
    BY <1>2 DEF TurnStep, EmitPrompt, InitialPoll, Inject, Request, StopAfterTurn,
                PollSteering, PollFollowUps, EmitAgentEnd, RecordFailure
  <2>2. pc' \notin {"failing", "ending", "ended", "closing"} =>
            pc \notin {"tools", "failing", "ending", "ended", "closing"}
    BY <1>2 DEF TurnStep, EmitPrompt, InitialPoll, Inject, Request, StopAfterTurn,
                PollSteering, PollFollowUps, EmitAgentEnd, RecordFailure
  <2>3. pc' \notin {"failing", "ending", "ended", "closing"} => pendingToolCalls' = {}
    BY <2>1, <2>2 DEF BatchInv, PendingToolCallsExact
  <2> QED BY <2>1, <2>3, BatchOutside DEF BatchInv, ActiveInv, NamesInv
<1> QED
  BY <1>1, <1>2

\* Something rejects, or an orphaned call settles.
LEMMA FailureBatch ==
    ASSUME TypeOK, BatchInv, Failure \/ \E c \in orphans : OrphanEnd(c)
    PROVE  BatchInv'
<1> USE DEF agentVars, turnVars, batchVars, history
<1>1. CASE FailureThrows
  <2>1. /\ pc # "idle" /\ pc' = "closing" /\ UNCHANGED <<active, toolTurns, orphans>>
    BY <1>1 DEF FailureThrows
  <2> QED BY <2>1, BatchOutside DEF BatchInv, ActiveInv, NamesInv
<1>2. ASSUME NEW culprit \in 0 .. MaxCalls, Throw(culprit) PROVE BatchInv'
  <2>1. /\ active' = active /\ active /\ pc' = "failing" /\ toolTurns' = toolTurns
        /\ orphans' \subseteq orphans \cup {c \in {calls[i] : i \in Positions} : pc = "tools"}
    BY <1>2, PositionsType DEF Throw
  <2>2. \A c \in orphans' : c[1] <= toolTurns
    <3> SUFFICES ASSUME NEW c \in orphans' PROVE c[1] <= toolTurns
      OBVIOUS
    <3>1. CASE c \in orphans
      BY <3>1 DEF BatchInv, NamesInv
    <3>2. CASE c \notin orphans
      <4>1. PICK i \in Positions : c = calls[i] /\ pc = "tools"
        BY <2>1, <3>2
      <4>2. c[1] = toolTurns
        BY <4>1 DEF BatchInv, NamesInv
      <4> QED BY <4>2 DEF TypeOK, ControlOK
    <3> QED BY <3>1, <3>2
  <2> QED BY <2>1, <2>2, BatchOutside
<1>3. ASSUME NEW c \in orphans, OrphanEnd(c) PROVE BatchInv'
  <2>1. /\ UNCHANGED <<active, pc, mode, calls, st, answered, toolTurns, aborted>>
        /\ orphans' \subseteq orphans
        /\ pendingToolCalls' = pendingToolCalls \ {c}
    BY <1>3 DEF OrphanEnd
  <2>2. CASE pendingToolCalls' = pendingToolCalls
    BY <2>1, <2>2, BatchFrame
  <2>3. CASE pc \notin {"tools", "turnEnd"}
    <3>1. pc' \notin {"failing", "ending", "ended", "closing"} => pendingToolCalls' = {}
      BY <2>1, <2>3 DEF BatchInv, PendingToolCallsExact
    <3> QED BY <2>1, <2>3, <3>1, BatchOutside DEF BatchInv, ActiveInv, NamesInv
  <2>4. CASE pc = "turnEnd"
    <3>1. pendingToolCalls = {}
      BY <2>4 DEF BatchInv, PendingToolCallsExact
    <3> QED BY <2>1, <2>2, <3>1
  <2>5. CASE pc = "tools"
    <3>1. \A i \in Positions : calls[i] # c
      <4>1. c[1] < toolTurns /\ \A i \in Positions : calls[i][1] = toolTurns
        BY <2>5 DEF BatchInv, NamesInv
      <4>2. c[1] # toolTurns
        BY <4>1 DEF TypeOK, ControlOK, BatchOK, Call
      <4> QED BY <4>1, <4>2
    <3>2. c \notin pendingToolCalls
      BY <2>5, <3>1 DEF BatchInv, PendingToolCallsExact
    <3> QED BY <2>1, <2>2, <3>2
  <2> QED BY <2>3, <2>4, <2>5
<1> QED
  BY <1>1, <1>2, <1>3 DEF Failure

\* A new batch has new names and nothing started (agent-loop.ts:203).
LEMMA RespondBatch ==
    ASSUME TypeOK, BatchInv, NEW stop \in StopReasons, NEW n \in Nat, Respond(stop, n)
    PROVE  BatchInv'
<1>1. /\ pc = "streaming" /\ active' = active /\ orphans' = orphans
      /\ pendingToolCalls' = pendingToolCalls
      /\ toolTurns' = IF n > 0 THEN toolTurns + 1 ELSE toolTurns
      /\ pc' = IF stop \in {"error", "aborted"} THEN "ending"
               ELSE IF n = 0 THEN "turnEnd" ELSE "tools"
      /\ NewBatch(IF stop \in {"stop", "length"} THEN CallIds(toolTurns + 1, n) ELSE <<>>)
  BY DEF Respond, agentVars
<1>2. /\ toolTurns \in Nat /\ pendingToolCalls = {} /\ active
      /\ \A c \in orphans : c[1] <= toolTurns /\ c[1] \in Nat
  BY <1>1 DEF TypeOK, ControlOK, BatchOK, Call, BatchInv, ActiveInv, NamesInv,
              PendingToolCallsExact
<1>3. CASE stop \in {"error", "aborted"}
  <2>1. pc' = "ending"
    BY ONLY <1>1, <1>3
  <2> QED
    BY <2>1, <1>1, <1>2 DEF BatchInv, ActiveInv, NamesInv, AnsweredInv, PendingToolCallsExact,
                            OneCallAtATime, AnsweredUnlessAborted
<1>4. CASE stop \notin {"error", "aborted"}
  <2>1. calls' = CallIds(toolTurns + 1, n) /\ pc' \in {"turnEnd", "tools"}
    <3>1. stop \in {"stop", "length"}
      BY <1>4 DEF StopReasons
    <3>2. NewBatch(CallIds(toolTurns + 1, n))
      BY <3>1, <1>1
    <3> QED BY ONLY <1>1, <1>4, <3>2 DEF NewBatch
  <2>2. /\ calls' \in Seq(Call) /\ Len(calls') = n /\ Positions' = 1 .. n
        /\ \A i \in 1 .. n : calls'[i] = <<toolTurns + 1, i>>
    <3>1. toolTurns + 1 \in Nat
      BY <1>2
    <3>2. /\ calls' \in Seq(Call) /\ Len(calls') = n
          /\ \A i \in 1 .. n : calls'[i] = <<toolTurns + 1, i>>
      BY ONLY <3>1, <2>1, CallIdsType
    <3> QED BY <3>2, LenProperties DEF Positions
  <2>3. /\ \A i \in 1 .. n : st'[i] = "todo"
        /\ answered' = 0
    BY <1>1, <1>4, <2>1, <2>2 DEF NewBatch, StopReasons
  <2>4. ActiveInv'
    BY <1>1, <1>2, <2>1 DEF ActiveInv
  <2>5. NamesInv'
    <3>1. CASE n = 0
      BY <3>1, <1>1, <1>2, <1>4 DEF NamesInv
    <3>2. CASE n > 0
      BY <3>2, <1>1, <1>2, <2>2 DEF NamesInv
    <3> QED BY <3>1, <3>2
  <2>6. AnsweredInv'
    BY <2>3 DEF AnsweredInv
  <2>7. PendingToolCallsExact'
    BY <1>1, <1>2, <2>1, <2>2, <2>3 DEF PendingToolCallsExact
  <2>8. OneCallAtATime'
    BY <2>2, <2>3 DEF OneCallAtATime, Started, InState
  <2>9. AnsweredUnlessAborted'
    <3>1. pc' = "turnEnd" => n = 0
      BY <1>1, <1>4
    <3> QED BY <3>1, <2>2, <2>3 DEF AnsweredUnlessAborted
  <2> QED BY <2>4, <2>5, <2>6, <2>7, <2>8, <2>9 DEF BatchInv
<1> QED
  BY <1>3, <1>4

\* A call moves on: it starts, is prepared, ends or is answered; the others stay.
LEMMA ToolStepBatch ==
    ASSUME TypeOK, BatchInv, ToolStep
    PROVE  BatchInv'
<1> USE DEF turnVars, history
<1>1. /\ pc = "tools" /\ active' = active /\ active
      /\ Positions = 1 .. Len(calls) /\ Len(calls) \in Nat /\ answered \in 0 .. Len(calls)
      /\ st \in [Positions -> CallState]
      /\ \A i, j \in Positions : i # j => calls[i] # calls[j]
  <2>1. pc = "tools" /\ active' = active
    BY DEF ToolStep, ToolStart, ToolPrepared, ToolRefused, ToolEnd, EndCall, Launch, Answer,
           BatchDone, agentVars
  <2>2. \A i \in Positions : calls[i] = <<toolTurns, i>>
    BY <2>1 DEF BatchInv, NamesInv
  <2> QED
    BY <2>1, <2>2, PositionsType, LenProperties DEF TypeOK, BatchOK, BatchInv, ActiveInv
<1>2. /\ \A j \in 1 .. answered : st[j] \in Over
      /\ pendingToolCalls = {calls[i] : i \in {j \in Positions : st[j] \notin Over \cup {"todo"}}}
      /\ mode # "parallel" =>
            \A i \in Positions : st[i] # "todo" =>
                \A j \in 1 .. (i - 1) : st[j] \in Over /\ j <= answered
  BY <1>1 DEF BatchInv, AnsweredInv, PendingToolCallsExact, OneCallAtATime, Started, InState
<1>3. CASE BatchDone
  <2>1. /\ pc' = "turnEnd" /\ UNCHANGED <<orphans, toolTurns, pendingToolCalls, calls, answered,
                                         aborted, st>>
        /\ Started = 1 .. answered /\ (AllStarted \/ BreaksOut)
    BY <1>3 DEF BatchDone, agentVars, batchVars
  <2>2. pendingToolCalls = {}
    BY <1>1, <1>2, <2>1 DEF Started, InState
  <2>3. answered < Len(calls) => aborted
    <3>1. CASE BreaksOut
      BY <3>1 DEF BreaksOut
    <3>2. CASE AllStarted
      <4>1. Started = Positions
        BY <3>2 DEF AllStarted, Started, InState
      <4>2. answered + 1 \notin Positions
        BY <4>1, <2>1, <1>1
      <4> QED BY <4>2, <1>1
    <3> QED BY <3>1, <3>2, <2>1
  <2> QED
    BY <1>1, <2>1, <2>2, <2>3 DEF BatchInv, ActiveInv, NamesInv, AnsweredInv,
       PendingToolCallsExact, OneCallAtATime, AnsweredUnlessAborted
<1>4. CASE Answer
  <2>1. /\ answered' = answered + 1 /\ answered + 1 \in Positions /\ st[answered + 1] \in Over
        /\ UNCHANGED <<pc, active, orphans, toolTurns, pendingToolCalls, calls, mode, st>>
    BY <1>4, PositionsType DEF Answer, Finished, InState, Over
  <2>2. Positions' = Positions
    BY <2>1 DEF Positions
  <2>3. AnsweredInv'
    BY <1>1, <1>2, <2>1 DEF AnsweredInv
  <2>4. OneCallAtATime'
    BY <1>1, <1>2, <2>1, <2>2 DEF OneCallAtATime, Started, InState
  <2>5. NamesInv' /\ ActiveInv' /\ AnsweredUnlessAborted'
    BY <1>1, <2>1, <2>2 DEF BatchInv, NamesInv, ActiveInv, AnsweredUnlessAborted
  <2>6. PendingToolCallsExact'
    BY <1>1, <1>2, <2>1, <2>2 DEF PendingToolCallsExact
  <2> QED BY <2>3, <2>4, <2>5, <2>6 DEF BatchInv
<1>5. CASE ~(BatchDone \/ Answer)
  <2>1. UNCHANGED <<pc, active, orphans, toolTurns, calls, mode, answered>>
    BY <1>5 DEF ToolStep, ToolStart, ToolPrepared, ToolRefused, ToolEnd, EndCall, Launch,
                agentVars, batchVars
  <2>2. Positions' = Positions
    BY <2>1 DEF Positions
  <2>3. NamesInv' /\ ActiveInv' /\ AnsweredUnlessAborted'
    BY <1>1, <2>1, <2>2 DEF BatchInv, NamesInv, ActiveInv, AnsweredUnlessAborted
  <2>4. \A j \in Positions : st[j] \in Over => st'[j] \in Over
    BY <1>1, <1>5 DEF ToolStep, ToolStart, ToolPrepared, ToolRefused, ToolEnd, EndCall, Launch,
                      InState, Over
  <2>5. AnsweredInv'
    BY <1>1, <1>2, <2>1, <2>4 DEF AnsweredInv
  <2>6. OneCallAtATime'
    <3> SUFFICES ASSUME mode # "parallel", NEW i \in Positions, st'[i] # "todo",
                        NEW j \in 1 .. (i - 1)
                 PROVE  st'[j] \in Over /\ j <= answered
      BY <2>1, <2>2 DEF OneCallAtATime, Started, InState
    <3>1. CASE st[i] # "todo"
      BY <3>1, <1>1, <1>2, <2>4
    <3>2. CASE st[i] = "todo"
      <4>1. ToolStart(i)
        BY <3>2, <1>1, <1>5 DEF ToolStep, ToolStart, ToolPrepared, ToolRefused, ToolEnd, EndCall,
                                Launch, InState
      <4>2. j <= answered
        BY <4>1 DEF ToolStart
      <4> QED BY <4>2, <1>1, <1>2, <2>4
    <3> QED BY <3>1, <3>2
  <2>7. PendingToolCallsExact'
    <3> DEFINE Begun(state) == {j \in Positions : state[j] \notin Over \cup {"todo"}}
    <3> DEFINE Pending(state) == {calls[i] : i \in Begun(state)}
    <3>1. ASSUME NEW i \in Positions, ToolStart(i) PROVE pendingToolCalls' = Pending(st')
      <4>1. /\ st' = [st EXCEPT ![i] = "preparing"]
            /\ pendingToolCalls' = pendingToolCalls \cup {calls[i]}
        BY <3>1 DEF ToolStart
      <4>2. Begun(st') = Begun(st) \cup {i}
        BY <4>1, <1>1 DEF Over
      <4>3. pendingToolCalls = Pending(st)
        BY <1>2
      <4> HIDE DEF Begun
      <4> QED BY <4>1, <4>2, <4>3
    <3>2. ASSUME NEW i \in Positions, NEW how \in Over, NEW t, EndCall(i, how, t)
          PROVE  pendingToolCalls' = Pending(st')
      <4>1. st' = [st EXCEPT ![i] = how] /\ pendingToolCalls' = pendingToolCalls \ {calls[i]}
        BY <3>2 DEF EndCall
      <4>2. Begun(st') = Begun(st) \ {i}
        BY <4>1, <1>1
      <4>3. pendingToolCalls = Pending(st)
        BY <1>2
      <4>4. Begun(st) \subseteq Positions
        OBVIOUS
      <4> HIDE DEF Begun
      <4> QED BY <4>1, <4>2, <4>3, <4>4, <1>1
    <3>3. ASSUME Launch \/ \E i \in Positions : ToolPrepared(i)
          PROVE  pendingToolCalls' = Pending(st')
      <4>1. pendingToolCalls' = pendingToolCalls
        BY <3>3 DEF Launch, ToolPrepared, agentVars
      <4>2. \A j \in Positions :
               st'[j] \notin Over \cup {"todo"} <=> st[j] \notin Over \cup {"todo"}
        BY <3>3, <1>1 DEF Launch, ToolPrepared, InState, Over
      <4> QED BY <4>1, <4>2, <1>2
    <3>4. pendingToolCalls' = Pending(st')
      <4>1. \A i \in Positions, t \in BOOLEAN :
                ToolRefused(i, t) \/ ToolEnd(i, t) => \E how \in Over : EndCall(i, how, t)
        BY DEF ToolRefused, ToolEnd, Over
      <4> HIDE DEF Begun, Pending
      <4> QED BY <3>1, <3>2, <3>3, <4>1, <1>5 DEF ToolStep
    <3> QED BY <3>4, <1>1, <2>1, <2>2 DEF PendingToolCallsExact
  <2> QED BY <2>3, <2>5, <2>6, <2>7 DEF BatchInv
<1> QED
  BY <1>3, <1>4, <1>5

\* The strengthened invariant holds in every state.
THEOREM BatchInvariant == Spec => []BatchInv
<1>1. Init => BatchInv
  BY DEF Init, BatchInv, ActiveInv, NamesInv, AnsweredInv, PendingToolCallsExact,
         OneCallAtATime, AnsweredUnlessAborted
<1>2. TypeOK /\ BatchInv /\ [Next]_vars => BatchInv'
  <2> SUFFICES ASSUME TypeOK, BatchInv, [Next]_vars PROVE BatchInv'
    OBVIOUS
  <2>1. CASE UserCall
    BY <2>1, UserCallBatch
  <2>2. CASE TurnStep
    BY <2>2, TurnStepBatch
  <2>3. ASSUME NEW stop \in StopReasons, NEW n \in 0 .. MaxCalls, Respond(stop, n)
        PROVE  BatchInv'
    BY <2>3, RespondBatch, AgentAssumption
  <2>4. CASE ToolStep
    BY <2>4, ToolStepBatch
  <2>5. CASE Failure \/ \E c \in orphans : OrphanEnd(c)
    BY <2>5, FailureBatch
  <2>6. CASE UNCHANGED vars
    <3>1. UNCHANGED <<active, pc, mode, calls, st, answered, toolTurns, orphans,
                      pendingToolCalls, aborted>>
      BY <2>6 DEF vars, agentVars, batchVars, history
    <3> QED BY <3>1, BatchFrame
  <2> QED
    BY <2>1, <2>2, <2>3, <2>4, <2>5, <2>6 DEF Next, LoopStep, TurnStep
<1> QED
  BY <1>1, <1>2, TypeCorrect, PTL DEF Spec

\* In a sequential batch a call starts only when those before it are executed
\* and answered (types.ts:37).
THEOREM SequentialBatches == Spec => []OneCallAtATime
<1>1. BatchInv => OneCallAtATime
  BY DEF BatchInv
<1> QED
  BY <1>1, BatchInvariant, PTL

\* Only an abort leaves calls of a finished turn unanswered (agent-loop.ts:476).
THEOREM TurnsAnswered == Spec => []AnsweredUnlessAborted
<1>1. BatchInv => AnsweredUnlessAborted
  BY DEF BatchInv
<1> QED
  BY <1>1, BatchInvariant, PTL

\* state.pendingToolCalls is exactly the calls started and not ended
\* (agent.ts:559, 566), whatever orphaned calls do.
THEOREM PendingCallsExact == Spec => []PendingToolCallsExact
<1>1. BatchInv => PendingToolCallsExact
  BY DEF BatchInv
<1> QED
  BY <1>1, BatchInvariant, PTL

-----------------------------------------------------------------------------
(* The loop's copy of the conversation.                                     *)

Results(n) == [i \in 1 .. n |-> ToolResult(calls[i])]

\* The prompts are in the copy before they are in the transcript, the results
\* of a batch in the transcript before they are in the copy.
ContextInv ==
    /\ pc = "prompting" => context = messages \o UserMessages(pending)
    /\ pc \in {"injecting", "streaming", "turnEnd", "pollFollowUps"} => context = messages
    /\ pc = "tools" => messages = context \o Results(answered)

\* Emitting one prompt moves it from the prompts still to emit to the
\* transcript (agent-loop.ts:112).
LEMMA PromptsMove ==
    ASSUME NEW s \in Seq(Message), NEW ids \in Seq(Msgs), ids # <<>>
    PROVE  Append(s, User(Head(ids))) \o UserMessages(Tail(ids)) = s \o UserMessages(ids)
<1> DEFINE h == User(Head(ids))  r == UserMessages(Tail(ids))  u == UserMessages(ids)
<1>1. /\ Tail(ids) \in Seq(Msgs) /\ Head(ids) \in Msgs
      /\ Len(Tail(ids)) = Len(ids) - 1 /\ Len(ids) \in Nat \ {0}
      /\ \A i \in 1 .. Len(Tail(ids)) : Tail(ids)[i] = ids[i + 1]
  <2>1. Len(ids) \in Nat /\ Len(ids) # 0
    BY LenProperties, EmptySeq
  <2> QED BY <2>1, HeadTailProperties
<1>2. Head(ids) = ids[1]
  BY <1>1
<1>3. /\ r \in Seq(Message) /\ Len(r) = Len(ids) - 1
      /\ \A i \in 1 .. Len(r) : r[i] = User(ids[i + 1])
  <2>1. /\ r \in Seq(Message) /\ Len(r) = Len(Tail(ids))
        /\ \A i \in 1 .. Len(Tail(ids)) : r[i] = User(Tail(ids)[i])
    BY <1>1, UserMessagesType
  <2> QED BY <2>1, <1>1
<1>4. /\ u \in Seq(Message) /\ Len(u) = Len(ids)
      /\ \A i \in 1 .. Len(ids) : u[i] = User(ids[i])
  BY UserMessagesType
<1>5. h = User(ids[1]) /\ h \in Message
  BY <1>1, <1>2, MessageTypes
<1> HIDE DEF h, r, u
<1>6. u = <<h>> \o r
  <2>1. <<h>> \in Seq(Message) /\ Len(<<h>>) = 1 /\ <<h>>[1] = h
    BY <1>5
  <2>2. /\ <<h>> \o r \in Seq(Message) /\ Len(<<h>> \o r) = 1 + Len(r)
        /\ \A i \in 1 .. 1 + Len(r) : (<<h>> \o r)[i] = IF i <= 1 THEN h ELSE r[i - 1]
    BY ONLY <2>1, <1>3, ConcatProperties
  <2>3. ASSUME NEW i \in 1 .. Len(ids) PROVE u[i] = (<<h>> \o r)[i]
    <3>1. CASE i = 1
      BY <3>1, <2>2, <1>1, <1>3, <1>4, <1>5
    <3>2. CASE i # 1
      <4>1. i - 1 \in 1 .. Len(r) /\ (i - 1) + 1 = i /\ i \in 1 .. 1 + Len(r) /\ ~(i <= 1)
        BY <3>2, <1>1, <1>3
      <4>2. (<<h>> \o r)[i] = r[i - 1] /\ r[i - 1] = User(ids[i])
        BY <4>1, <2>2, <1>3
      <4> QED BY <4>2, <1>4
    <3> QED BY <3>1, <3>2
  <2>4. Len(u) = Len(<<h>> \o r)
    BY <2>2, <1>1, <1>3, <1>4
  <2> QED BY ONLY <2>2, <2>3, <2>4, <1>4, SeqEqual
<1>7. Append(s, h) = s \o <<h>>
  BY <1>5, AppendIsConcat
<1>8. (s \o <<h>>) \o r = s \o (<<h>> \o r)
  <2>1. <<h>> \in Seq(Message)
    BY <1>5
  <2> QED BY ONLY <2>1, <1>3, s \in Seq(Message), ConcatAssociative
<1> QED
  BY <1>6, <1>7, <1>8 DEF h, r, u

\* Emitting one result makes the transcript one result longer (agent-loop.ts:793).
LEMMA ResultsGrow ==
    ASSUME TypeOK, answered + 1 \in Positions
    PROVE  Append(context \o Results(answered), ToolResult(calls[answered + 1]))
              = context \o Results(answered + 1)
<1> DEFINE r == Results(answered)  t == Results(answered + 1)  x == ToolResult(calls[answered + 1])
<1>1. /\ context \in Seq(Message) /\ answered \in Nat /\ Len(context) \in Nat
      /\ \A i \in 1 .. (answered + 1) : calls[i] \in Call
  BY PositionsType, ElementOfSeq, LenProperties DEF TypeOK, TranscriptOK, BatchOK
<1>2. \A i \in 1 .. (answered + 1) : ToolResult(calls[i]) \in Message
  BY <1>1, MessageTypes
<1>3. /\ r \in Seq(Message) /\ Len(r) = answered
      /\ \A i \in 1 .. answered : r[i] = ToolResult(calls[i])
  BY <1>1, <1>2 DEF Results
<1>4. /\ t \in Seq(Message) /\ Len(t) = answered + 1
      /\ \A i \in 1 .. (answered + 1) : t[i] = ToolResult(calls[i])
  BY <1>1, <1>2 DEF Results
<1>5. x \in Message /\ x = t[answered + 1]
  BY <1>1, <1>2, <1>4
<1> HIDE DEF r, t, x
<1>6. Append(r, x) = t
  BY <1>1, <1>3, <1>4, <1>5, AppendProperties, SeqEqual
<1>7. Append(context \o r, x) = context \o Append(r, x)
  <2>1. <<x>> \in Seq(Message) /\ context \o r \in Seq(Message)
    BY <1>1, <1>3, <1>5, ConcatProperties
  <2>2. Append(context \o r, x) = (context \o r) \o <<x>> /\ Append(r, x) = r \o <<x>>
    BY ONLY <2>1, <1>3, <1>5, AppendIsConcat
  <2>3. (context \o r) \o <<x>> = context \o (r \o <<x>>)
    BY ONLY <2>1, <1>1, <1>3, ConcatAssociative
  <2> QED BY <2>2, <2>3
<1> QED
  BY <1>6, <1>7 DEF r, t, x

\* What the copy lacks or has ahead, at each await of the loop
\* (agent-loop.ts:112, 186, 218).
THEOREM ContextInvariant == Spec => []ContextInv
<1>1. Init => ContextInv
  BY DEF Init, ContextInv
<1>2. TypeOK /\ BatchInv /\ ContextInv /\ [Next]_vars => ContextInv'
  <2> SUFFICES ASSUME TypeOK, BatchInv, ContextInv, [Next]_vars PROVE ContextInv'
    OBVIOUS
  <2> USE DEF agentVars, turnVars, batchVars, history
  <2>1. /\ messages \in Seq(Message) /\ context \in Seq(Message) /\ pending \in Seq(Msgs)
        /\ steeringQueue \in Seq(Msgs) /\ followUpQueue \in Seq(Msgs)
    BY DEF TypeOK, TranscriptOK, QueuesOK
  <2>2. ASSUME UNCHANGED <<messages, context, pending, pc, answered, calls>> PROVE ContextInv'
    BY <2>2 DEF ContextInv, Results
  <2>3. ASSUME pc' \in {"idle", "ending", "ended", "failing", "closing"} PROVE ContextInv'
    BY <2>3 DEF ContextInv
  <2>4. ASSUME UNCHANGED <<messages, context>>, context = messages,
               pc' \in {"injecting", "streaming", "turnEnd", "pollFollowUps"}
        PROVE  ContextInv'
    BY <2>4 DEF ContextInv
  <2>5. CASE UserCall
    <3>1. CASE Abort \/ ClearSteering \/ ClearFollowUps
               \/ \E m \in Msgs : Steer(m) \/ FollowUp(m)
      BY <2>2, <3>1 DEF Abort, ClearSteering, ClearFollowUps, Steer, FollowUp
    <3>2. CASE Reset
      <4>1. pc' = "idle"
        BY <3>2 DEF Reset, BatchInv, ActiveInv
      <4> QED BY <4>1, <2>3
    <3>3. ASSUME NEW m \in Msgs, Prompt(m) PROVE ContextInv'
      <4>1. UserMessages(<<m>>) = <<User(m)>>
        BY DEF UserMessages
      <4>2. Append(messages, User(m)) = messages \o <<User(m)>>
        BY <2>1, MessageTypes, AppendIsConcat
      <4> QED BY <3>3, <4>1, <4>2 DEF Prompt, StartRun, ContextInv
    <3>4. CASE ContinueFromSteering
      BY <3>4 DEF ContinueFromSteering, StartRun, ContextInv
    <3>5. CASE ContinueFromFollowUps
      BY <3>5 DEF ContinueFromFollowUps, StartRun, ContextInv
    <3>6. CASE Continue
      <4>1. messages \o UserMessages(<<>>) = messages
        BY <2>1, ConcatEmptySeq DEF UserMessages
      <4> QED BY <3>6, <4>1 DEF Continue, StartRun, ContextInv
    <3> QED BY <2>5, <3>1, <3>2, <3>3, <3>4, <3>5, <3>6 DEF UserCall
  <2>6. CASE TurnStep
    <3>1. CASE EmitPrompt
      BY <3>1, <2>1, PromptsMove DEF EmitPrompt, ContextInv
    <3>2. CASE InitialPoll
      <4>1. messages \o UserMessages(<<>>) = messages
        BY <2>1, ConcatEmptySeq DEF UserMessages
      <4> QED BY <3>2, <4>1, <2>4 DEF InitialPoll, ContextInv
    <3>3. CASE Inject
      BY <3>3 DEF Inject, ContextInv
    <3>4. CASE Request \/ PollSteering \/ PollFollowUps
      <4>1. context = messages /\ UNCHANGED <<messages, context>>
        BY <3>4 DEF Request, PollSteering, PollFollowUps, ContextInv
      <4>2. pc' \in {"injecting", "streaming", "pollFollowUps", "ending"}
        BY <3>4 DEF Request, PollSteering, PollFollowUps
      <4> QED BY <4>1, <4>2, <2>3, <2>4
    <3>5. CASE StopAfterTurn \/ EmitAgentEnd \/ RecordFailure \/ FinishRun
      BY <3>5, <2>3 DEF StopAfterTurn, EmitAgentEnd, RecordFailure, FinishRun
    <3> QED BY <2>6, <3>1, <3>2, <3>3, <3>4, <3>5 DEF TurnStep
  <2>7. ASSUME NEW stop \in StopReasons, NEW n \in 0 .. MaxCalls, Respond(stop, n)
        PROVE  ContextInv'
    <3>1. /\ messages' = context' /\ answered' = 0 /\ pc' \in {"ending", "turnEnd", "tools"}
      BY <2>7 DEF Respond, NewBatch, ContextInv
    <3>2. context' \in Seq(Message)
      BY <2>7, RespondType, AgentAssumption DEF TypeOK, TranscriptOK
    <3>3. context' \o Results(answered)' = context'
      BY <3>1, <3>2, ConcatEmptySeq DEF Results
    <3> QED BY <3>1, <3>3 DEF ContextInv
  <2>8. CASE ToolStep
    <3>1. CASE Answer
      <4>1. answered + 1 \in Positions
        BY <3>1, PositionsType DEF Answer
      <4>2. messages = context \o Results(answered)
        BY <3>1 DEF Answer, ContextInv
      <4>3. messages' = context' \o Results(answered + 1)
        BY <3>1, <4>1, <4>2, ResultsGrow DEF Answer
      <4> QED BY <3>1, <4>3 DEF Answer, ContextInv, Results
    <3>2. CASE BatchDone
      BY <3>2 DEF BatchDone, ContextInv, Results
    <3>3. CASE ~(Answer \/ BatchDone)
      BY <2>2, <2>8, <3>3 DEF ToolStep, ToolStart, ToolPrepared, ToolRefused, ToolEnd, EndCall,
                              Launch
    <3> QED BY <3>1, <3>2, <3>3
  <2>9. CASE Failure
    BY <2>3, <2>9 DEF Failure, Throw, FailureThrows
  <2>10. CASE (\E c \in orphans : OrphanEnd(c)) \/ UNCHANGED vars
    BY <2>2, <2>10 DEF OrphanEnd, vars
  <2> QED
    BY <2>5, <2>6, <2>7, <2>8, <2>9, <2>10 DEF Next, LoopStep, TurnStep
<1> QED
  BY <1>1, <1>2, TypeCorrect, BatchInvariant, PTL DEF Spec

\* When the loop asks the model, its copy of the conversation is the transcript
\* (agent-loop.ts:186, 218; agent.ts:556).
THEOREM ContextCorrect == Spec => []ContextIsTranscript
<1>1. ContextInv => ContextIsTranscript
  BY DEF ContextInv, ContextIsTranscript
<1> QED
  BY <1>1, ContextInvariant, PTL

-----------------------------------------------------------------------------
(* The order of the results in the transcript.                              *)

\* The loop's copy ends with the message whose calls the batch executes.
BatchSource ==
    pc = "tools" =>
        /\ context # <<>> /\ Role(context[Len(context)]) = "assistant"
        /\ ~IsSkipped(context[Len(context)])
        /\ context[Len(context)].calls = calls

\* The parts of a message, by its role.
LEMMA MessageParts ==
    ASSUME NEW msg \in Message
    PROVE  /\ Role(msg) = "user" => msg.id \in Msgs
           /\ Role(msg) = "assistant" => msg.calls \in Seq(Call)
BY DEF Message, Role

\* Place by place is block by block.
LEMMA BlocksInOrder ==
    ASSUME NEW conv \in Seq(Message), ResultsOrdered(conv), NEW i \in DOMAIN conv,
           Role(conv[i]) = "assistant"
    PROVE  IsPrefix(BlockCalls(conv, i), conv[i].calls)
<1> DEFINE e == BlockEnd(conv, i)
           b == BlockCalls(conv, i)
           c == conv[i].calls
<1>1. i \in 1 .. Len(conv) /\ Len(conv) \in Nat /\ conv[i] \in Message
  BY LenProperties, ElementOfSeq
<1>2. c \in Seq(Call) /\ Len(c) \in Nat
  BY <1>1, MessageParts, LenProperties
<1>3. e \in i .. Len(conv) /\ \A k \in (i + 1) .. e : Role(conv[k]) = "toolResult"
  BY <1>1, BlockEnds
<1>4. b = [k \in 1 .. (e - i) |-> conv[i + k].call]
  BY DEF BlockCalls
<1> HIDE DEF e, b, c
<1>5. ASSUME NEW k \in 1 .. (e - i) PROVE k <= Len(c) /\ conv[i + k].call = c[k]
  <2>1. /\ i + k \in 1 .. Len(conv) /\ i < i + k /\ (i + k) - i = k
        /\ (i + 1) .. (i + k) \subseteq (i + 1) .. e
    BY <1>1, <1>3
  <2>2. \A l \in (i + 1) .. (i + k) : Role(conv[l]) = "toolResult"
    BY <1>3, <2>1
  <2>3. InBlock(conv, i, i + k)
    BY <1>1, <2>1, <2>2 DEF InBlock
  <2> QED BY <1>1, <2>1, <2>3 DEF ResultsOrdered, InPlace, c
<1>6. e - i \in Nat /\ e - i <= Len(c)
  <2>1. e - i \in Nat
    BY <1>1, <1>3
  <2>2. CASE e - i = 0
    BY <2>2, <1>2
  <2>3. CASE e - i # 0
    BY <2>1, <2>3, <1>5
  <2> QED BY <2>2, <2>3
<1>7. /\ Len(b) = e - i /\ \A k \in 1 .. (e - i) : b[k] = c[k]
  BY <1>4, <1>5, <1>6
<1>8. SubSeq(b, 1, Len(b)) = SubSeq(c, 1, Len(b))
  <2>1. \A k \in 1 .. Len(b) : b[k] \in Call /\ c[k] \in Call
    BY <1>2, <1>6, <1>7, ElementOfSeq
  <2>2. b \in Seq(Call)
    <3>1. b \in [1 .. (e - i) -> Call]
      BY ONLY <2>1, <1>4, <1>7
    <3> QED BY <1>6, <3>1, SeqDef
  <2>3. /\ SubSeq(b, 1, Len(b)) \in Seq(Call) /\ Len(SubSeq(b, 1, Len(b))) = Len(b)
        /\ \A k \in 1 .. Len(b) : SubSeq(b, 1, Len(b))[k] = b[k]
    BY <2>1, <2>2, <1>6, <1>7
  <2>4. /\ SubSeq(c, 1, Len(b)) \in Seq(Call) /\ Len(SubSeq(c, 1, Len(b))) = Len(b)
        /\ \A k \in 1 .. Len(b) : SubSeq(c, 1, Len(b))[k] = c[k]
    BY <2>1, <1>2, <1>6, <1>7
  <2> QED BY <2>3, <2>4, <1>7, SeqEqual
<1> QED
  BY <1>6, <1>7, <1>8 DEF IsPrefix, b, c

\* The messages of the agent, and the calls they make.
LEMMA AgentMessages == Messaging(Message, Call)
<1>1. ASSUME NEW msg \in Message, Role(msg) = "toolResult"
      PROVE  msg.call \in Call /\ msg = ToolResult(msg.call)
  BY <1>1 DEF Message, Role, ToolResult
<1>2. \A msg \in Message : Role(msg) \in {"user", "assistant", "toolResult"}
  BY DEF Message, Role
<1> QED
  BY <1>1, <1>2, MessageParts, MessageTypes DEF Messaging

\* The result that is emitted is that of the next call in source order
\* (agent-loop.ts:793).
LEMMA OrderAnswers ==
    ASSUME TypeOK, BatchSource, Orderly(messages), pc = "tools", answered + 1 \in Positions,
           messages = context \o Results(answered)
    PROVE  Orderly(Append(messages, ToolResult(calls[answered + 1])))
<1> DEFINE p == Len(context)
           msg == ToolResult(calls[answered + 1])
<1>1. /\ context \in Seq(Message) /\ messages \in Seq(Message) /\ p \in Nat /\ p > 0
      /\ answered \in Nat /\ \A i \in 1 .. (answered + 1) : calls[i] \in Call
      /\ answered + 1 <= Len(calls) /\ Len(calls) \in Nat
  BY PositionsType, ElementOfSeq, LenProperties, EmptySeq
  DEF TypeOK, TranscriptOK, BatchOK, BatchSource
<1>2. /\ Results(answered) \in Seq(Message) /\ Len(Results(answered)) = answered
      /\ \A i \in 1 .. answered : Results(answered)[i] = ToolResult(calls[i])
  <2>1. \A i \in 1 .. answered : ToolResult(calls[i]) \in Message
    BY <1>1, MessageTypes
  <2> QED BY <1>1, <2>1 DEF Results
<1>3. /\ Len(messages) = p + answered
      /\ \A i \in 1 .. p : messages[i] = context[i]
      /\ \A i \in 1 .. answered : messages[p + i] = ToolResult(calls[i])
  <2>1. /\ Len(messages) = p + answered
        /\ \A i \in 1 .. (p + answered) :
              messages[i] = IF i <= p THEN context[i] ELSE Results(answered)[i - p]
    <3>1. messages = context \o Results(answered)
      OBVIOUS
    <3> HIDE DEF msg, p
    <3>2. LET s == context \o Results(answered)
          IN  /\ Len(s) = Len(context) + Len(Results(answered))
              /\ \A i \in 1 .. (Len(context) + Len(Results(answered))) :
                    s[i] = IF i <= Len(context) THEN context[i]
                           ELSE Results(answered)[i - Len(context)]
      BY <1>1, <1>2, ConcatProperties
    <3>3. Len(context) = p /\ Len(Results(answered)) = answered
      BY <1>2 DEF p
    <3> QED BY ONLY <3>1, <3>2, <3>3
  <2>2. \A i \in 1 .. p : i \in 1 .. (p + answered) /\ i <= p
    BY <1>1
  <2>3. \A i \in 1 .. answered : /\ p + i \in 1 .. (p + answered) /\ ~(p + i <= p)
                                 /\ (p + i) - p = i
    BY <1>1
  <2> QED BY <2>1, <2>2, <2>3, <1>2
<1>4. Role(messages[p]) = "assistant" /\ ~IsSkipped(messages[p]) /\ messages[p].calls = calls
  BY <1>1, <1>3 DEF BatchSource
<1>5. msg \in Message /\ Role(msg) = "toolResult" /\ msg.call = calls[answered + 1]
  BY <1>1, MessageTypes, Constructed
<1>6. \A l \in 1 .. answered : Role(messages[p + l]) = "toolResult"
  BY <1>3, Constructed
<1>7. p \in 1 .. Len(messages)
  BY <1>1, <1>3
<1> HIDE DEF msg, p
<1>8. Orderly(Append(messages, msg))
  BY <1>1, <1>3, <1>4, <1>5, <1>6, <1>7, OrderlyAnswer
<1> QED
  BY <1>8 DEF msg

OrderInv == Orderly(messages) /\ BatchSource

\* The transcript grows by one message at a time; only the batch adds results.
LEMMA OrderStep ==
    ASSUME TypeOK, TypeOK', BatchInv, ContextInv, OrderInv, [Next]_vars
    PROVE  OrderInv'
<1> USE DEF agentVars, turnVars, batchVars, history
<1>1. messages \in Seq(Message) /\ context \in Seq(Message)
  BY DEF TypeOK, TranscriptOK
<1>2. ASSUME UNCHANGED <<messages, context, calls>>, pc' = "tools" => pc = "tools"
      PROVE  OrderInv'
  BY <1>2 DEF OrderInv, BatchSource
<1>3. ASSUME NEW msg \in Message, messages' = Append(messages, msg), Role(msg) # "toolResult",
             Role(msg) = "assistant" => msg.calls = <<>>, pc' # "tools"
      PROVE  OrderInv'
  <2>1. Role(msg) = "assistant" =>
           \A k, l \in 1 .. Len(msg.calls) : msg.calls[k] = msg.calls[l] => k = l
    BY <1>3, EmptySeq
  <2> QED BY <1>1, <1>3, <2>1, OrderlyAppend DEF OrderInv, BatchSource
<1>4. CASE UserCall
  <2>1. CASE Reset
    <3>1. pc' # "tools"
      BY <2>1 DEF Reset, BatchInv, ActiveInv
    <3>2. Orderly(messages')
      BY <2>1, NothingOrderly DEF Reset
    <3> QED BY <3>1, <3>2 DEF OrderInv, BatchSource
  <2>2. CASE Abort \/ ClearSteering \/ ClearFollowUps
             \/ \E m \in Msgs : Steer(m) \/ FollowUp(m)
    BY <1>2, <2>2 DEF Abort, ClearSteering, ClearFollowUps, Steer, FollowUp
  <2>3. CASE ContinueFromSteering \/ ContinueFromFollowUps \/ Continue
             \/ \E m \in Msgs : Prompt(m)
    BY <2>3 DEF ContinueFromSteering, ContinueFromFollowUps, Continue, Prompt, StartRun,
                OrderInv, BatchSource
  <2> QED BY <1>4, <2>1, <2>2, <2>3 DEF UserCall
<1>5. CASE TurnStep
  <2>1. CASE EmitPrompt \/ Inject
    <3>1. Head(pending) \in Msgs
      BY <2>1, HeadTailProperties DEF EmitPrompt, Inject, TypeOK, QueuesOK
    <3>2. User(Head(pending)) \in Message /\ Role(User(Head(pending))) = "user"
      BY <3>1, MessageTypes, Constructed
    <3> QED BY <2>1, <3>2, <1>3 DEF EmitPrompt, Inject
  <2>2. CASE RecordFailure
    <3>1. PICK stop \in {"error", "aborted"} : messages' = Append(messages, Assistant(<<>>, stop))
      BY <2>2 DEF RecordFailure
    <3>2. /\ Assistant(<<>>, stop) \in Message
          /\ Role(Assistant(<<>>, stop)) = "assistant" /\ Assistant(<<>>, stop).calls = <<>>
      <4>1. <<>> \in Seq(Call) /\ stop \in StopReasons
        BY DEF StopReasons
      <4> QED BY <4>1, MessageTypes, Constructed
    <3> QED BY <2>2, <3>1, <3>2, <1>3 DEF RecordFailure
  <2>3. CASE InitialPoll \/ Request \/ StopAfterTurn \/ PollSteering \/ PollFollowUps
             \/ EmitAgentEnd \/ FinishRun
    BY <2>3 DEF InitialPoll, Request, StopAfterTurn, PollSteering, PollFollowUps, EmitAgentEnd,
                FinishRun, OrderInv, BatchSource
  <2> QED BY <1>5, <2>1, <2>2, <2>3 DEF TurnStep
<1>6. ASSUME NEW stop \in StopReasons, NEW n \in 0 .. MaxCalls, Respond(stop, n)
      PROVE  OrderInv'
  <2> DEFINE ids == CallIds(toolTurns + 1, n)  reply == Assistant(ids, stop)
  <2>1. ids \in Seq(Call)
    <3>1. toolTurns + 1 \in Nat /\ n \in Nat
      BY AgentAssumption DEF TypeOK, ControlOK
    <3> QED BY <3>1, CallIdsType
  <2>2. reply \in Message /\ Role(reply) = "assistant" /\ reply.calls = ids
    BY <2>1, MessageTypes, Constructed
  <2>3. /\ messages' = Append(messages, reply) /\ context' = Append(context, reply)
        /\ calls' = IF stop \in {"stop", "length"} THEN ids ELSE <<>>
        /\ pc' = "tools" => stop \in {"stop", "length"} /\ ~IsSkipped(reply)
    BY <1>6 DEF Respond, NewBatch, StopReasons, IsSkipped, Assistant
  <2> HIDE DEF ids, reply
  <2>4. Orderly(messages')
    <3>1. \A k, l \in 1 .. Len(ids) : ids[k] = ids[l] => k = l
      <4>1. Len(ids) = n /\ \A k \in 1 .. n : ids[k] = <<toolTurns + 1, k>>
        BY CallIdsType, AgentAssumption DEF TypeOK, ControlOK, ids
      <4> QED BY <4>1
    <3> QED BY <1>1, <2>2, <2>3, <3>1, OrderlyAppend DEF OrderInv
  <2>5. context' # <<>> /\ context'[Len(context')] = reply
    BY <1>1, <2>2, <2>3, AppendProperties
  <2> QED BY <2>2, <2>3, <2>4, <2>5 DEF OrderInv, BatchSource
<1>7. CASE ToolStep
  <2>1. CASE Answer
    <3>1. answered + 1 \in Positions
      BY <2>1, PositionsType DEF Answer
    <3>2. messages = context \o Results(answered)
      BY <2>1 DEF Answer, ContextInv
    <3>3. Orderly(messages')
      BY <2>1, <3>1, <3>2, OrderAnswers DEF Answer, OrderInv
    <3> QED BY <2>1, <3>3 DEF Answer, OrderInv, BatchSource
  <2>2. CASE BatchDone
    BY <2>2 DEF BatchDone, OrderInv, BatchSource
  <2>3. CASE ~(Answer \/ BatchDone)
    BY <1>2, <1>7, <2>3 DEF ToolStep, ToolStart, ToolPrepared, ToolRefused, ToolEnd, EndCall,
                            Launch
  <2> QED BY <2>1, <2>2, <2>3
<1>8. CASE Failure
  BY <1>8 DEF Failure, Throw, FailureThrows, OrderInv, BatchSource
<1>9. CASE (\E c \in orphans : OrphanEnd(c)) \/ UNCHANGED vars
  BY <1>2, <1>9 DEF OrphanEnd, vars
<1> QED
  BY <1>4, <1>5, <1>6, <1>7, <1>8, <1>9 DEF Next, LoopStep, TurnStep

\* The results in the transcript follow the calls they answer, place by place.
THEOREM OrderInvariant == Spec => []OrderInv
<1>1. Init => OrderInv
  BY NothingOrderly DEF Init, OrderInv, BatchSource
<1>2. TypeOK /\ TypeOK' /\ BatchInv /\ ContextInv /\ OrderInv /\ [Next]_vars => OrderInv'
  BY OrderStep
<1> QED
  BY <1>1, <1>2, TypeCorrect, BatchInvariant, ContextInvariant, PTL DEF Spec

\* The results after an assistant message are those of its first calls, in
\* source order, in every execution mode (README.md:115; agent-loop.ts:793).
THEOREM ResultsFollowTheSource == Spec => []ResultsInSourceOrder
<1>1. TypeOK /\ OrderInv => ResultsInSourceOrder
  BY BlocksInOrder DEF TypeOK, TranscriptOK, OrderInv, Orderly, ResultsInSourceOrder
<1> QED
  BY <1>1, OrderInvariant, TypeCorrect, PTL

\* Whatever was aborted, refused or interrupted before, the conversation a
\* provider receives answers every call exactly once, right after the message
\* that made it (agent-loop.ts:476; transform-messages.ts:155).
THEOREM RequestsWellPaired == Spec => []WellPairedRequest
<1>1. TypeOK /\ ContextInv /\ OrderInv => WellPairedRequest
  <2> SUFFICES ASSUME TypeOK, ContextInv, OrderInv, pc = "streaming"
               PROVE  WellPaired(Transform(context))
    BY DEF WellPairedRequest
  <2>1. context \in Seq(Message) /\ Orderly(context)
    BY DEF TypeOK, TranscriptOK, ContextInv, OrderInv
  <2> QED BY <2>1, AgentMessages, RepairPairs
<1> QED
  BY <1>1, TypeCorrect, ContextInvariant, OrderInvariant, PTL

-----------------------------------------------------------------------------
(* The order of the user's messages, and that none is lost.                 *)

\* The user's messages in a conversation.
Users(conv) == {conv[i].id : i \in FromUser(conv)}

\* m may come before n, by the numbers they were submitted under.
Before(log, m, n) == m # n /\ (log[m].lane = log[n].lane => m < n)
Cross(log, A, B) == \A m \in A, n \in B : Before(log, m, n)
Sorted(log, q) == \A i, j \in DOMAIN q : i < j => Before(log, q[i], q[j])
UsersSorted(log, conv) ==
    \A i, j \in FromUser(conv) : i < j => Before(log, conv[i].id, conv[j].id)

\* What is delivered, in hand or queued was submitted, a queue holds one lane,
\* and the four of them are in order inside and across.
Numbered(log) == \A i \in DOMAIN log : log[i].id = i
HeldIds(conv, p, s, f) == Users(conv) \cup ToSet(p) \cup ToSet(s) \cup ToSet(f)
LaneOf(log, q, lane) == \A m \in ToSet(q) : log[m].lane = lane
Fifo(log, conv, p, s, f) ==
    /\ Numbered(log)
    /\ HeldIds(conv, p, s, f) \subseteq 1 .. Len(log)
    /\ LaneOf(log, s, "steer") /\ LaneOf(log, f, "followUp")
    /\ UsersSorted(log, conv) /\ Sorted(log, p) /\ Sorted(log, s) /\ Sorted(log, f)
    /\ Cross(log, Users(conv), ToSet(p) \cup ToSet(s) \cup ToSet(f))
    /\ Cross(log, ToSet(p), ToSet(s) \cup ToSet(f))

\* A queue is its first message and the rest.
LEMMA HeadSplits ==
    ASSUME NEW log, NEW q \in Seq(Msgs), q # <<>>, Sorted(log, q)
    PROVE  /\ Head(q) \in Msgs /\ Tail(q) \in Seq(Msgs)
           /\ ToSet(q) = {Head(q)} \cup ToSet(Tail(q))
           /\ Sorted(log, Tail(q)) /\ Cross(log, {Head(q)}, ToSet(Tail(q)))
<1> DEFINE n == Len(q)  t == Tail(q)  h == Head(q)
<1>1. /\ n \in Nat /\ n # 0 /\ DOMAIN q = 1 .. n
      /\ t \in Seq(Msgs) /\ h \in Msgs /\ h = q[1]
      /\ DOMAIN t = 1 .. (n - 1) /\ \A i \in 1 .. (n - 1) : t[i] = q[i + 1]
  BY LenProperties, EmptySeq, HeadTailProperties
<1> HIDE DEF n, t, h
<1>2. \A i \in 1 .. (n - 1) : i + 1 \in 1 .. n /\ 1 < i + 1
  BY <1>1
<1>3. ASSUME NEW i \in 1 .. n, i # 1 PROVE \E j \in 1 .. (n - 1) : j + 1 = i
  <2>1. i - 1 \in 1 .. (n - 1) /\ (i - 1) + 1 = i
    BY <1>1, <1>3
  <2> QED BY <2>1
<1>4. ToSet(q) = {h} \cup ToSet(t)
  <2>1. ASSUME NEW i \in 1 .. n PROVE q[i] \in {h} \cup ToSet(t)
    <3>1. CASE i = 1
      BY <3>1, <1>1
    <3>2. CASE i # 1
      <4>1. PICK j \in 1 .. (n - 1) : j + 1 = i
        BY <3>2, <1>3
      <4>2. q[i] = t[j] /\ t[j] \in ToSet(t)
        BY <4>1, <1>1 DEF ToSet
      <4> QED BY <4>2
    <3> QED BY <3>1, <3>2
  <2>2. 1 \in 1 .. n
    BY <1>1
  <2>3. h \in ToSet(q) /\ \A j \in 1 .. (n - 1) : t[j] \in ToSet(q)
    BY <1>1, <1>2, <2>2 DEF ToSet
  <2>4. \A x \in ToSet(t) : \E j \in 1 .. (n - 1) : x = t[j]
    BY <1>1 DEF ToSet
  <2>5. \A x \in ToSet(q) : \E j \in 1 .. n : x = q[j]
    BY <1>1 DEF ToSet
  <2> QED BY <2>1, <2>3, <2>4, <2>5
<1>5. Sorted(log, t)
  <2> SUFFICES ASSUME NEW i \in 1 .. (n - 1), NEW j \in 1 .. (n - 1), i < j
               PROVE  Before(log, t[i], t[j])
    BY <1>1 DEF Sorted
  <2>1. i + 1 \in 1 .. n /\ j + 1 \in 1 .. n /\ i + 1 < j + 1
    BY <1>1
  <2> QED BY <1>1, <2>1 DEF Sorted
<1>6. Cross(log, {h}, ToSet(t))
  <2> SUFFICES ASSUME NEW i \in 1 .. (n - 1) PROVE Before(log, q[1], q[i + 1])
    BY <1>1 DEF Cross, ToSet
  <2>1. 1 \in 1 .. n
    BY <1>1
  <2> QED BY <1>1, <1>2, <2>1 DEF Sorted
<1> QED
  BY <1>1, <1>4, <1>5, <1>6 DEF t, h

\* A drain takes from the front (PendingMessageQueue.drain, agent.ts:141).
LEMMA DrainSplits ==
    ASSUME NEW log, NEW q \in Seq(Msgs), NEW queueMode, Sorted(log, q)
    PROVE  LET d == Drained(q, queueMode)
               r == Remaining(q, queueMode)
           IN  /\ ToSet(q) = ToSet(d) \cup ToSet(r)
               /\ Sorted(log, d) /\ Sorted(log, r) /\ Cross(log, ToSet(d), ToSet(r))
<1>1. ToSet(<<>>) = {} /\ Sorted(log, <<>>)
  BY DEF ToSet, Sorted
<1>2. CASE queueMode = "all" \/ q = <<>>
  BY <1>1, <1>2 DEF Drained, Remaining, Cross
<1>3. CASE ~(queueMode = "all" \/ q = <<>>)
  <2>1. Drained(q, queueMode) = <<Head(q)>> /\ Remaining(q, queueMode) = Tail(q)
    BY <1>3 DEF Drained, Remaining
  <2>2. ToSet(<<Head(q)>>) = {Head(q)} /\ Sorted(log, <<Head(q)>>)
    BY DEF ToSet, Sorted
  <2>3. /\ ToSet(q) = {Head(q)} \cup ToSet(Tail(q)) /\ Sorted(log, Tail(q))
        /\ Cross(log, {Head(q)}, ToSet(Tail(q)))
    BY <1>3, HeadSplits
  <2> QED BY <2>1, <2>2, <2>3
<1> QED
  BY <1>2, <1>3

\* q2 is the queue with one more message.
Behind(q, q2, m) == q2 = Append(q, m)

\* It holds one message more.
LEMMA QueueGrows ==
    ASSUME NEW q \in Seq(Msgs), NEW m, NEW q2, Behind(q, q2, m)
    PROVE  ToSet(q2) = ToSet(q) \cup {m}
<1> DEFINE n == Len(q)
<1>1. /\ n \in Nat /\ DOMAIN q = 1 .. n /\ DOMAIN q2 = 1 .. (n + 1)
      /\ q2[n + 1] = m /\ \A i \in 1 .. n : q2[i] = q[i]
  BY DEF Behind
<1> HIDE DEF n
<1>2. \A i \in 1 .. (n + 1) : i = n + 1 \/ i \in 1 .. n
  BY <1>1
<1>3. n + 1 \in 1 .. (n + 1) /\ \A i \in 1 .. n : i \in 1 .. (n + 1)
  BY <1>1
<1>4. \A i \in 1 .. (n + 1) : q2[i] \in {q[j] : j \in 1 .. n} \cup {m}
  BY <1>1, <1>2
<1> QED
  BY <1>1, <1>3, <1>4 DEF ToSet

\* It stays in order if the message may come after all that is in it.
LEMMA GrowsSorted ==
    ASSUME NEW log, NEW q \in Seq(Msgs), NEW m, NEW q2, Behind(q, q2, m),
           Sorted(log, q), Cross(log, ToSet(q), {m})
    PROVE  Sorted(log, q2)
<1> DEFINE n == Len(q)
<1>1. /\ n \in Nat /\ DOMAIN q = 1 .. n /\ DOMAIN q2 = 1 .. (n + 1)
      /\ q2[n + 1] = m /\ \A i \in 1 .. n : q2[i] = q[i]
  BY DEF Behind
<1> HIDE DEF n
<1>2. \A i \in 1 .. (n + 1) : i = n + 1 \/ i \in 1 .. n
  BY <1>1
<1> SUFFICES ASSUME NEW i \in 1 .. (n + 1), NEW j \in 1 .. (n + 1), i < j
             PROVE  Before(log, q2[i], q2[j])
  BY <1>1 DEF Sorted
<1>3. i \in 1 .. n /\ q2[i] = q[i]
  BY <1>1
<1>4. CASE j = n + 1
  <2>1. q[i] \in ToSet(q)
    BY <1>1, <1>3 DEF ToSet
  <2> QED BY <1>1, <1>3, <1>4, <2>1 DEF Cross
<1>5. CASE j \in 1 .. n
  BY <1>1, <1>3, <1>5 DEF Sorted
<1> QED
  BY <1>2, <1>4, <1>5

\* A transcript with one more message at its end.
LEMMA DeliverSplits ==
    ASSUME NEW log, NEW conv \in Seq(Message), NEW msg \in Message, UsersSorted(log, conv),
           Role(msg) = "user" => Cross(log, Users(conv), {msg.id})
    PROVE  /\ Users(Append(conv, msg))
                 = Users(conv) \cup (IF Role(msg) = "user" THEN {msg.id} ELSE {})
           /\ UsersSorted(log, Append(conv, msg))
<1> DEFINE n == Len(conv)  t == Append(conv, msg)
<1>1. /\ n \in Nat /\ DOMAIN conv = 1 .. n /\ DOMAIN t = 1 .. (n + 1)
      /\ t[n + 1] = msg /\ \A i \in 1 .. n : t[i] = conv[i]
  OBVIOUS
<1> HIDE DEF n, t
<1>2. \A i \in 1 .. (n + 1) : i = n + 1 \/ i \in 1 .. n
  BY <1>1
<1>3. n + 1 \in 1 .. (n + 1) /\ \A i \in 1 .. n : i \in 1 .. (n + 1)
  BY <1>1
<1>4. /\ \A i \in 1 .. n : i \in FromUser(t) <=> i \in FromUser(conv)
      /\ n + 1 \in FromUser(t) <=> Role(msg) = "user"
      /\ FromUser(conv) \subseteq 1 .. n /\ FromUser(t) \subseteq 1 .. (n + 1)
  BY <1>1, <1>3 DEF FromUser
<1>5. Users(t) = Users(conv) \cup (IF Role(msg) = "user" THEN {msg.id} ELSE {})
  <2>1. ASSUME NEW i \in FromUser(t)
        PROVE  t[i].id \in Users(conv) \cup (IF Role(msg) = "user" THEN {msg.id} ELSE {})
    BY <1>1, <1>2, <1>4 DEF Users
  <2>2. ASSUME NEW i \in FromUser(conv) PROVE i \in FromUser(t) /\ t[i].id = conv[i].id
    BY <1>1, <1>4
  <2>3. Role(msg) = "user" => n + 1 \in FromUser(t) /\ t[n + 1].id = msg.id
    BY <1>1, <1>4
  <2> QED BY <2>1, <2>2, <2>3 DEF Users
<1>6. UsersSorted(log, t)
  <2> SUFFICES ASSUME NEW i \in FromUser(t), NEW j \in FromUser(t), i < j
               PROVE  Before(log, t[i].id, t[j].id)
    BY DEF UsersSorted
  <2>1. i \in 1 .. n /\ i \in FromUser(conv) /\ t[i] = conv[i]
    BY <1>1, <1>4
  <2>2. CASE j = n + 1
    <3>1. conv[i].id \in Users(conv)
      BY <2>1 DEF Users
    <3> QED BY <1>1, <1>4, <2>1, <2>2, <3>1 DEF Cross
  <2>3. CASE j \in 1 .. n
    BY <1>1, <1>4, <2>1, <2>3 DEF UsersSorted
  <2> QED BY <1>2, <1>4, <2>2, <2>3
<1> QED
  BY <1>5, <1>6 DEF t


\* Nothing that is not held is owed an order: what is dropped leaves it intact.
LEMMA DropMove ==
    ASSUME NEW log, NEW conv, NEW p, NEW s, NEW f, Fifo(log, conv, p, s, f),
           NEW conv2 \in {conv, <<>>}, NEW p2 \in {p, <<>>}, NEW s2 \in {s, <<>>},
           NEW f2 \in {f, <<>>}
    PROVE  Fifo(log, conv2, p2, s2, f2)
<1>1. /\ ToSet(<<>>) = {} /\ Sorted(log, <<>>) /\ Users(<<>>) = {} /\ UsersSorted(log, <<>>)
  BY DEF ToSet, Sorted, Users, UsersSorted, FromUser
<1>2. /\ Users(conv2) \subseteq Users(conv) /\ ToSet(p2) \subseteq ToSet(p)
      /\ ToSet(s2) \subseteq ToSet(s) /\ ToSet(f2) \subseteq ToSet(f)
  BY <1>1
<1>3. /\ UsersSorted(log, conv2) /\ Sorted(log, p2) /\ Sorted(log, s2) /\ Sorted(log, f2)
  BY <1>1 DEF Fifo
<1> QED
  BY <1>2, <1>3 DEF Fifo, HeldIds, LaneOf, Cross

\* A poll moves the front of the steering queue into the hands of the run
\* (agent.ts:141; agent-loop.ts:167, 259).
LEMMA SteeringMove ==
    ASSUME NEW log, NEW conv, NEW p, NEW s \in Seq(Msgs), NEW f, NEW queueMode,
           Fifo(log, conv, p, s, f)
    PROVE  Fifo(log, conv, Drained(s, queueMode), Remaining(s, queueMode), f)
<1> DEFINE d == Drained(s, queueMode)  r == Remaining(s, queueMode)
<1>1. /\ ToSet(s) = ToSet(d) \cup ToSet(r)
      /\ Sorted(log, d) /\ Sorted(log, r) /\ Cross(log, ToSet(d), ToSet(r))
  BY DrainSplits DEF Fifo
<1> HIDE DEF d, r
<1>2. Cross(log, ToSet(d), ToSet(f))
  <2> SUFFICES ASSUME NEW m \in ToSet(d), NEW n \in ToSet(f) PROVE Before(log, m, n)
    BY DEF Cross
  <2>1. log[m].lane = "steer" /\ log[n].lane = "followUp"
    BY <1>1 DEF Fifo, LaneOf
  <2> QED BY <2>1 DEF Before
<1>3. Fifo(log, conv, d, r, f)
  BY <1>1, <1>2 DEF Fifo, HeldIds, LaneOf, Cross
<1> QED
  BY <1>3 DEF d, r

\* ... or that of the follow-up queue (agent-loop.ts:263).
LEMMA FollowUpMove ==
    ASSUME NEW log, NEW conv, NEW p, NEW s, NEW f \in Seq(Msgs), NEW queueMode,
           Fifo(log, conv, p, s, f)
    PROVE  Fifo(log, conv, Drained(f, queueMode), s, Remaining(f, queueMode))
<1> DEFINE d == Drained(f, queueMode)  r == Remaining(f, queueMode)
<1>1. /\ ToSet(f) = ToSet(d) \cup ToSet(r)
      /\ Sorted(log, d) /\ Sorted(log, r) /\ Cross(log, ToSet(d), ToSet(r))
  BY DrainSplits DEF Fifo
<1> HIDE DEF d, r
<1>2. Cross(log, ToSet(d), ToSet(s))
  <2> SUFFICES ASSUME NEW m \in ToSet(d), NEW n \in ToSet(s) PROVE Before(log, m, n)
    BY DEF Cross
  <2>1. log[n].lane = "steer" /\ log[m].lane = "followUp"
    BY <1>1 DEF Fifo, LaneOf
  <2> QED BY <2>1 DEF Before
<1>3. Fifo(log, conv, d, s, r)
  BY <1>1, <1>2 DEF Fifo, HeldIds, LaneOf, Cross
<1> QED
  BY <1>3 DEF d, r

\* The run delivers the first message in its hands (agent-loop.ts:112, 186).
LEMMA DeliverMove ==
    ASSUME NEW log, NEW conv \in Seq(Message), NEW p \in Seq(Msgs), NEW s, NEW f, p # <<>>,
           Fifo(log, conv, p, s, f)
    PROVE  /\ Fifo(log, Append(conv, User(Head(p))), Tail(p), s, f)
           /\ HeldIds(Append(conv, User(Head(p))), Tail(p), s, f) = HeldIds(conv, p, s, f)
<1> DEFINE h == Head(p)  t == Tail(p)  c == Append(conv, User(h))
<1>1. /\ h \in Msgs /\ ToSet(p) = {h} \cup ToSet(t)
      /\ Sorted(log, t) /\ Cross(log, {h}, ToSet(t))
  BY HeadSplits DEF Fifo
<1>2. User(h) \in Message /\ Role(User(h)) = "user" /\ User(h).id = h
  BY <1>1, MessageTypes, Constructed
<1> HIDE DEF h, t
<1>3. Cross(log, Users(conv), {h})
  BY <1>1 DEF Fifo, Cross
<1>4. Users(c) = Users(conv) \cup {h} /\ UsersSorted(log, c)
  BY <1>2, <1>3, DeliverSplits DEF Fifo
<1> HIDE DEF c
<1>5. HeldIds(c, t, s, f) = HeldIds(conv, p, s, f)
  BY <1>1, <1>4 DEF HeldIds
<1>6. Cross(log, Users(c), ToSet(t) \cup ToSet(s) \cup ToSet(f))
  BY <1>1, <1>4 DEF Fifo, Cross
<1>7. Cross(log, ToSet(t), ToSet(s) \cup ToSet(f))
  BY <1>1 DEF Fifo, Cross
<1>8. Fifo(log, c, t, s, f)
  BY <1>1, <1>4, <1>5, <1>6, <1>7 DEF Fifo
<1> QED
  BY <1>5, <1>8 DEF h, t, c

\* A reply or a result is not a message of the user.
LEMMA ReplyMove ==
    ASSUME NEW log, NEW conv \in Seq(Message), NEW p, NEW s, NEW f, NEW msg \in Message,
           Role(msg) # "user", Fifo(log, conv, p, s, f)
    PROVE  /\ Fifo(log, Append(conv, msg), p, s, f)
           /\ HeldIds(Append(conv, msg), p, s, f) = HeldIds(conv, p, s, f)
<1>1. Users(Append(conv, msg)) = Users(conv) /\ UsersSorted(log, Append(conv, msg))
  BY DeliverSplits DEF Fifo
<1> QED
  BY <1>1 DEF Fifo, HeldIds

\* log2 is the log with one more submission, under the next number.
Entered(log, log2, m, lane) ==
    m = Len(log) + 1 /\ log2 = Append(log, [id |-> m, lane |-> lane])

\* The log names one message more.
LEMMA IdsGrow ==
    ASSUME NEW log \in Seq(Entry), NEW m, NEW lane, NEW log2, Entered(log, log2, m, lane)
    PROVE  Ids(log2) = Ids(log) \cup {m}
<1> DEFINE n == Len(log)
<1>1. /\ n \in Nat /\ m = n + 1 /\ DOMAIN log = 1 .. n /\ DOMAIN log2 = 1 .. m
      /\ \A i \in 1 .. n : log2[i] = log[i]
      /\ log2[m].id = m
  BY DEF Entered
<1> HIDE DEF n
<1>2. \A i \in 1 .. m : i = m \/ i \in 1 .. n
  BY <1>1
<1>3. m \in 1 .. m /\ \A i \in 1 .. n : i \in 1 .. m
  BY <1>1
<1>4. ASSUME NEW i \in 1 .. m PROVE log2[i].id \in Ids(log) \cup {m}
  BY <1>1, <1>2 DEF Ids
<1>5. m \in Ids(log2) /\ \A i \in 1 .. n : log[i].id \in Ids(log2)
  BY <1>1, <1>3 DEF Ids
<1>6. /\ \A x \in Ids(log2) : \E i \in 1 .. m : x = log2[i].id
      /\ \A x \in Ids(log) : \E i \in 1 .. n : x = log[i].id
  BY <1>1 DEF Ids
<1>7. Ids(log2) \subseteq Ids(log) \cup {m}
  BY <1>4, <1>6
<1>8. Ids(log) \cup {m} \subseteq Ids(log2)
  BY <1>5, <1>6
<1> QED
  BY <1>7, <1>8

\* A submission gets the next number and disturbs nothing that was submitted.
LEMMA SubmitMove ==
    ASSUME NEW log \in Seq(Entry), NEW conv, NEW p, NEW s, NEW f, Fifo(log, conv, p, s, f),
           NEW m, NEW lane, NEW log2, Entered(log, log2, m, lane)
    PROVE  /\ Fifo(log2, conv, p, s, f)
           /\ m \in 1 .. Len(log2) /\ log2[m].lane = lane
           /\ \A x \in HeldIds(conv, p, s, f) : x # m /\ x < m
<1> DEFINE n == Len(log)  K == HeldIds(conv, p, s, f)
<1>1. /\ n \in Nat /\ m = n + 1 /\ DOMAIN log = 1 .. n /\ DOMAIN log2 = 1 .. m
      /\ Len(log2) = m /\ \A i \in 1 .. n : log2[i] = log[i]
      /\ log2[m].id = m /\ log2[m].lane = lane
  BY DEF Entered
<1> HIDE DEF n
<1>2. \A i \in 1 .. m : i = m \/ i \in 1 .. n
  BY <1>1
<1>3. m \in 1 .. m /\ \A i \in 1 .. n : i \in 1 .. m /\ i # m /\ i < m
  BY <1>1
<1>4. K \subseteq 1 .. n
  BY DEF Fifo, n
<1>5. /\ Users(conv) \subseteq K /\ ToSet(p) \subseteq K /\ ToSet(s) \subseteq K
      /\ ToSet(f) \subseteq K
  BY DEF HeldIds
<1> HIDE DEF K
<1>6. \A x, y \in K : Before(log2, x, y) <=> Before(log, x, y)
  BY <1>1, <1>4 DEF Before
<1>7. Numbered(log2)
  BY <1>1, <1>2 DEF Numbered, Fifo
<1>8. UsersSorted(log2, conv)
  <2>1. \A i \in FromUser(conv) : conv[i].id \in K
    BY <1>5 DEF Users
  <2> QED BY <1>6, <2>1 DEF UsersSorted, Fifo
<1>9. ASSUME NEW q, Sorted(log, q), ToSet(q) \subseteq K PROVE Sorted(log2, q)
  <2>1. \A i \in DOMAIN q : q[i] \in K
    BY <1>9 DEF ToSet
  <2> QED BY <1>6, <1>9, <2>1 DEF Sorted
<1>10. ASSUME NEW A, NEW B, A \subseteq K, B \subseteq K, Cross(log, A, B)
       PROVE  Cross(log2, A, B)
  BY <1>6, <1>10 DEF Cross
<1>11. LaneOf(log2, s, "steer") /\ LaneOf(log2, f, "followUp")
  BY <1>1, <1>4, <1>5 DEF LaneOf, Fifo
<1>12. K \subseteq 1 .. Len(log2)
  BY <1>1, <1>3, <1>4
<1>13. Sorted(log2, p) /\ Sorted(log2, s) /\ Sorted(log2, f)
  BY <1>5, <1>9 DEF Fifo
<1>14. /\ Cross(log2, Users(conv), ToSet(p) \cup ToSet(s) \cup ToSet(f))
       /\ Cross(log2, ToSet(p), ToSet(s) \cup ToSet(f))
  BY <1>5, <1>10 DEF Fifo
<1>15. Fifo(log2, conv, p, s, f)
  BY <1>7, <1>8, <1>11, <1>12, <1>13, <1>14 DEF Fifo, K
<1> QED
  BY <1>1, <1>3, <1>4, <1>7, <1>15 DEF K


\* A steering message goes behind all of its lane (agent.ts:283).
LEMMA SteerMove ==
    ASSUME NEW log \in Seq(Entry), NEW conv, NEW p, NEW s \in Seq(Msgs), NEW f \in Seq(Msgs),
           Fifo(log, conv, p, s, f), NEW m,
           NEW log2, Entered(log, log2, m, "steer"),
           NEW s2, Behind(s, s2, m)
    PROVE  Fifo(log2, conv, p, s2, f)
<1> DEFINE K == HeldIds(conv, p, s, f)
<1>1. /\ Fifo(log2, conv, p, s, f) /\ m \in 1 .. Len(log2) /\ log2[m].lane = "steer"
      /\ \A x \in K : x # m /\ x < m
  BY SubmitMove
<1>2. Users(conv) \subseteq K /\ ToSet(p) \subseteq K /\ ToSet(s) \subseteq K
  BY DEF HeldIds
<1> HIDE DEF K
<1>3. Cross(log2, ToSet(s), {m}) /\ Cross(log2, Users(conv), {m}) /\ Cross(log2, ToSet(p), {m})
  BY <1>1, <1>2 DEF Cross, Before
<1>4. ToSet(s2) = ToSet(s) \cup {m} /\ Sorted(log2, s2)
  BY <1>1, <1>3, QueueGrows, GrowsSorted DEF Fifo
<1>5. Fifo(log2, conv, p, s2, f)
  BY <1>1, <1>3, <1>4 DEF Fifo, HeldIds, LaneOf, Cross
<1> QED
  BY <1>5

\* So does a follow-up.
LEMMA QueueMove ==
    ASSUME NEW log \in Seq(Entry), NEW conv, NEW p, NEW s \in Seq(Msgs), NEW f \in Seq(Msgs),
           Fifo(log, conv, p, s, f), NEW m,
           NEW log2, Entered(log, log2, m, "followUp"),
           NEW f2, Behind(f, f2, m)
    PROVE  Fifo(log2, conv, p, s, f2)
<1> DEFINE K == HeldIds(conv, p, s, f)
<1>1. /\ Fifo(log2, conv, p, s, f) /\ m \in 1 .. Len(log2) /\ log2[m].lane = "followUp"
      /\ \A x \in K : x # m /\ x < m
  BY SubmitMove
<1>2. Users(conv) \subseteq K /\ ToSet(p) \subseteq K /\ ToSet(f) \subseteq K
  BY DEF HeldIds
<1> HIDE DEF K
<1>3. Cross(log2, ToSet(f), {m}) /\ Cross(log2, Users(conv), {m}) /\ Cross(log2, ToSet(p), {m})
  BY <1>1, <1>2 DEF Cross, Before
<1>4. ToSet(f2) = ToSet(f) \cup {m} /\ Sorted(log2, f2)
  BY <1>1, <1>3, QueueGrows, GrowsSorted DEF Fifo
<1>5. Fifo(log2, conv, p, s, f2)
  BY <1>1, <1>3, <1>4 DEF Fifo, HeldIds, LaneOf, Cross
<1> QED
  BY <1>5

\* A prompt is in the hands of the run at once, ahead of what is queued.
LEMMA PromptMove ==
    ASSUME NEW log \in Seq(Entry), NEW conv, NEW p, NEW s, NEW f,
           Fifo(log, conv, p, s, f), NEW m,
           NEW log2, Entered(log, log2, m, "prompt")
    PROVE  Fifo(log2, conv, <<m>>, s, f)
<1> DEFINE K == HeldIds(conv, p, s, f)
<1>1. /\ Fifo(log2, conv, p, s, f) /\ m \in 1 .. Len(log2) /\ log2[m].lane = "prompt"
      /\ \A x \in K : x # m /\ x < m
  BY SubmitMove
<1>2. Users(conv) \subseteq K /\ ToSet(s) \subseteq K /\ ToSet(f) \subseteq K
  BY DEF HeldIds
<1>3. ToSet(<<m>>) = {m}
  BY DEF ToSet
<1> HIDE DEF K
<1>4. Sorted(log2, <<m>>)
  BY DEF Sorted
<1>5. Cross(log2, Users(conv), {m})
  BY <1>1, <1>2 DEF Cross, Before
<1>6. Cross(log2, {m}, ToSet(s) \cup ToSet(f))
  <2> SUFFICES ASSUME NEW n \in ToSet(s) \cup ToSet(f) PROVE Before(log2, m, n)
    BY DEF Cross
  <2>1. n # m /\ log2[n].lane # log2[m].lane
    BY <1>1, <1>2 DEF Fifo, LaneOf
  <2> QED BY <2>1 DEF Before
<1>7. Fifo(log2, conv, <<m>>, s, f)
  BY <1>1, <1>3, <1>4, <1>5, <1>6 DEF Fifo, HeldIds, Cross
<1> QED
  BY <1>7


FifoInv == Fifo(submitted, messages, pending, steeringQueue, followUpQueue)

\* The run has messages in its hands only where it emits them.
PendingInv == pc \notin {"prompting", "injecting"} => pending = <<>>

KeptInv ==
    failures = 0 =>
        Ids(submitted) \subseteq
            HeldIds(messages, pending, steeringQueue, followUpQueue) \cup dropped

QueuesInv == FifoInv /\ PendingInv /\ KeptInv

\* Every step is one of the moves above.
LEMMA QueuesStep ==
    ASSUME TypeOK, BatchInv, QueuesInv, [Next]_vars
    PROVE  QueuesInv'
<1> USE DEF agentVars, turnVars, batchVars, history
<1>1. /\ messages \in Seq(Message) /\ pending \in Seq(Msgs) /\ steeringQueue \in Seq(Msgs)
      /\ followUpQueue \in Seq(Msgs) /\ submitted \in Seq(Entry) /\ failures \in Nat
  BY DEF TypeOK, TranscriptOK, QueuesOK, ControlOK
<1>2. FifoInv /\ PendingInv /\ KeptInv
  BY DEF QueuesInv
<1>3. ASSUME UNCHANGED <<messages, pending, steeringQueue, followUpQueue, submitted, dropped,
                         failures>>,
             pending = <<>> \/ pc' \in {"prompting", "injecting"}
      PROVE  QueuesInv'
  BY <1>2, <1>3 DEF QueuesInv, FifoInv, PendingInv, KeptInv
<1>4. ASSUME NEW msg \in Message, Role(msg) # "user", messages' = Append(messages, msg),
             UNCHANGED <<pending, steeringQueue, followUpQueue, submitted, dropped, failures>>,
             pending = <<>>
      PROVE  QueuesInv'
  <2>1. /\ Fifo(submitted, messages', pending, steeringQueue, followUpQueue)
        /\ HeldIds(messages', pending, steeringQueue, followUpQueue)
              = HeldIds(messages, pending, steeringQueue, followUpQueue)
    BY <1>1, <1>2, <1>4, ReplyMove DEF FifoInv
  <2> QED BY <1>2, <1>4, <2>1 DEF QueuesInv, FifoInv, PendingInv, KeptInv
<1>5. ASSUME pending # <<>>, messages' = Append(messages, User(Head(pending))),
             pending' = Tail(pending), pc' \in {"prompting", "injecting"},
             UNCHANGED <<steeringQueue, followUpQueue, submitted, dropped, failures>>
      PROVE  QueuesInv'
  <2>1. /\ Fifo(submitted, messages', pending', steeringQueue, followUpQueue)
        /\ HeldIds(messages', pending', steeringQueue, followUpQueue)
              = HeldIds(messages, pending, steeringQueue, followUpQueue)
    BY <1>1, <1>2, <1>5, DeliverMove DEF FifoInv
  <2> QED BY <1>2, <1>5, <2>1 DEF QueuesInv, FifoInv, PendingInv, KeptInv
<1>6. ASSUME pending = <<>>, pending' = Drained(steeringQueue, SteeringMode),
             steeringQueue' = Remaining(steeringQueue, SteeringMode),
             pending' = <<>> \/ pc' \in {"prompting", "injecting"},
             UNCHANGED <<messages, followUpQueue, submitted, dropped, failures>>
      PROVE  QueuesInv'
  <2>1. Fifo(submitted, messages, pending', steeringQueue', followUpQueue)
    BY <1>1, <1>2, <1>6, SteeringMove DEF FifoInv
  <2>2. ToSet(steeringQueue) = ToSet(pending') \cup ToSet(steeringQueue')
    BY <1>1, <1>2, <1>6, DrainSplits DEF FifoInv, Fifo
  <2>3. ToSet(pending) = {}
    BY <1>6 DEF ToSet
  <2> QED BY <1>2, <1>6, <2>1, <2>2, <2>3 DEF QueuesInv, FifoInv, PendingInv, KeptInv, HeldIds
<1>7. ASSUME pending = <<>>, pending' = Drained(followUpQueue, FollowUpMode),
             followUpQueue' = Remaining(followUpQueue, FollowUpMode),
             pending' = <<>> \/ pc' \in {"prompting", "injecting"},
             UNCHANGED <<messages, steeringQueue, submitted, dropped, failures>>
      PROVE  QueuesInv'
  <2>1. Fifo(submitted, messages, pending', steeringQueue, followUpQueue')
    BY <1>1, <1>2, <1>7, FollowUpMove DEF FifoInv
  <2>2. ToSet(followUpQueue) = ToSet(pending') \cup ToSet(followUpQueue')
    BY <1>1, <1>2, <1>7, DrainSplits DEF FifoInv, Fifo
  <2>3. ToSet(pending) = {}
    BY <1>7 DEF ToSet
  <2> QED BY <1>2, <1>7, <2>1, <2>2, <2>3 DEF QueuesInv, FifoInv, PendingInv, KeptInv, HeldIds
<1>8. ASSUME messages' \in {messages, <<>>}, pending' \in {pending, <<>>},
             steeringQueue' \in {steeringQueue, <<>>}, followUpQueue' \in {followUpQueue, <<>>},
             UNCHANGED submitted
      PROVE  FifoInv'
  BY <1>2, <1>8, DropMove DEF FifoInv
<1>9. CASE TurnStep
  <2>1. CASE EmitPrompt
    BY <2>1, <1>5 DEF EmitPrompt
  <2>2. CASE Inject
    BY <2>2, <1>5 DEF Inject
  <2>3. CASE RecordFailure
    <3>1. PICK stop \in {"error", "aborted"} : messages' = Append(messages, Assistant(<<>>, stop))
      BY <2>3 DEF RecordFailure
    <3>2. <<>> \in Seq(Call) /\ stop \in StopReasons
      BY DEF StopReasons
    <3>3. Assistant(<<>>, stop) \in Message /\ Role(Assistant(<<>>, stop)) # "user"
      BY <3>2, MessageTypes, Constructed
    <3> QED BY <2>3, <3>1, <3>3, <1>2, <1>4 DEF RecordFailure, PendingInv
  <2>4. CASE (InitialPoll \/ PollSteering) /\ skipPoll
    <3>1. pending = <<>> /\ UNCHANGED <<messages, pending, steeringQueue, followUpQueue,
                                        submitted, dropped, failures>>
      BY <2>4, <1>2 DEF InitialPoll, PollSteering, TakeSteering, PendingInv
    <3> QED BY <3>1, <1>3
  <2>5. CASE (InitialPoll \/ PollSteering) /\ ~skipPoll
    <3>1. pending = <<>> /\ (pending' = <<>> \/ pc' = "injecting")
      BY <2>5, <1>2 DEF InitialPoll, PollSteering, PendingInv
    <3> QED BY <2>5, <3>1, <1>6 DEF InitialPoll, PollSteering, TakeSteering
  <2>6. CASE PollFollowUps
    <3>1. pending = <<>> /\ (pending' = <<>> \/ pc' = "injecting")
      BY <2>6, <1>2 DEF PollFollowUps, PendingInv
    <3> QED BY <2>6, <3>1, <1>7 DEF PollFollowUps
  <2>7. CASE Request \/ StopAfterTurn \/ EmitAgentEnd \/ FinishRun
    <3>1. pending = <<>> /\ UNCHANGED <<messages, pending, steeringQueue, followUpQueue,
                                        submitted, dropped, failures>>
      BY <2>7, <1>2 DEF Request, StopAfterTurn, EmitAgentEnd, FinishRun, PendingInv
    <3> QED BY <3>1, <1>3
  <2> QED BY <1>9, <2>1, <2>2, <2>3, <2>4, <2>5, <2>6, <2>7 DEF TurnStep
<1>10. CASE UserCall
  <2>1. ASSUME NEW m \in Msgs, Steer(m) \/ FollowUp(m) PROVE QueuesInv'
    <3>1. m = Len(submitted) + 1
      BY <2>1 DEF Steer, FollowUp, Fresh
    <3>2. CASE Steer(m)
      <4>0. /\ Fifo(submitted, messages, pending, steeringQueue, followUpQueue)
            /\ submitted \in Seq(Entry) /\ steeringQueue \in Seq(Msgs)
            /\ followUpQueue \in Seq(Msgs)
        BY <1>1, <1>2 DEF FifoInv
      <4>1. /\ Entered(submitted, submitted', m, "steer")
            /\ Behind(steeringQueue, steeringQueue', m)
        BY <3>1, <3>2 DEF Steer, Entered, Behind
      <4>2. Fifo(submitted', messages, pending, steeringQueue', followUpQueue)
        BY ONLY <4>0, <4>1, SteerMove
      <4>3. Ids(submitted') = Ids(submitted) \cup {m}
        BY ONLY <4>0, <4>1, IdsGrow
      <4>4. ToSet(steeringQueue') = ToSet(steeringQueue) \cup {m}
        BY ONLY <4>0, <4>1, QueueGrows
      <4> QED BY <3>2, <4>2, <4>3, <4>4, <1>2
             DEF Steer, QueuesInv, FifoInv, PendingInv, KeptInv, HeldIds
    <3>3. CASE FollowUp(m)
      <4>0. /\ Fifo(submitted, messages, pending, steeringQueue, followUpQueue)
            /\ submitted \in Seq(Entry) /\ steeringQueue \in Seq(Msgs)
            /\ followUpQueue \in Seq(Msgs)
        BY <1>1, <1>2 DEF FifoInv
      <4>1. /\ Entered(submitted, submitted', m, "followUp")
            /\ Behind(followUpQueue, followUpQueue', m)
        BY <3>1, <3>3 DEF FollowUp, Entered, Behind
      <4>2. Fifo(submitted', messages, pending, steeringQueue, followUpQueue')
        BY ONLY <4>0, <4>1, QueueMove
      <4>3. Ids(submitted') = Ids(submitted) \cup {m}
        BY ONLY <4>0, <4>1, IdsGrow
      <4>4. ToSet(followUpQueue') = ToSet(followUpQueue) \cup {m}
        BY ONLY <4>0, <4>1, QueueGrows
      <4> QED BY <3>3, <4>2, <4>3, <4>4, <1>2
             DEF FollowUp, QueuesInv, FifoInv, PendingInv, KeptInv, HeldIds
    <3> QED BY <2>1, <3>2, <3>3
  <2>2. ~active => pending = <<>>
    BY <1>2 DEF BatchInv, ActiveInv, PendingInv
  <2>3. ASSUME NEW m \in Msgs, Prompt(m) PROVE QueuesInv'
    <3>1. m = Len(submitted) + 1 /\ pending = <<>>
      BY <2>2, <2>3 DEF Prompt, StartRun, Fresh
    <3>4. Entered(submitted, submitted', m, "prompt") /\ pending' = <<m>>
      BY <2>3, <3>1 DEF Prompt, StartRun, Entered
    <3>2. Fifo(submitted', messages, <<m>>, steeringQueue, followUpQueue)
      BY ONLY <3>1, <3>4, <1>1, <1>2, PromptMove DEF FifoInv
    <3>5. Ids(submitted') = Ids(submitted) \cup {m} /\ ToSet(<<m>>) = {m}
      BY <3>4, <1>1, IdsGrow DEF ToSet
    <3>3. ToSet(pending) = {}
      BY <3>1 DEF ToSet
    <3> QED BY <2>3, <3>2, <3>3, <3>4, <3>5, <1>2
           DEF Prompt, StartRun, QueuesInv, FifoInv, PendingInv, KeptInv, HeldIds
  <2>4. CASE ContinueFromSteering
    BY <2>2, <2>4, <1>6 DEF ContinueFromSteering, StartRun
  <2>5. CASE ContinueFromFollowUps
    BY <2>2, <2>5, <1>7 DEF ContinueFromFollowUps, StartRun
  <2>6. CASE Continue
    BY <2>2, <2>6, <1>3 DEF Continue, StartRun
  <2>7. CASE ClearSteering \/ ClearFollowUps
    <3>1. FifoInv'
      BY <2>7, <1>8 DEF ClearSteering, ClearFollowUps
    <3>2. PendingInv'
      BY <2>7, <1>2 DEF ClearSteering, ClearFollowUps, PendingInv
    <3>3. KeptInv'
      BY <2>7, <1>2 DEF ClearSteering, ClearFollowUps, KeptInv, HeldIds
    <3> QED BY <3>1, <3>2, <3>3 DEF QueuesInv
  <2>8. CASE Reset
    <3>1. FifoInv'
      BY <2>8, <1>8 DEF Reset
    <3>2. PendingInv' /\ KeptInv'
      BY <2>8, <1>2 DEF Reset, PendingInv, KeptInv
    <3> QED BY <3>1, <3>2 DEF QueuesInv
  <2>9. CASE Abort
    BY <2>9, <1>2 DEF Abort, QueuesInv, FifoInv, PendingInv, KeptInv
  <2> QED
    BY <1>10, <2>1, <2>3, <2>4, <2>5, <2>6, <2>7, <2>8, <2>9 DEF UserCall
<1>11. ASSUME NEW stop \in StopReasons, NEW n \in 0 .. MaxCalls, Respond(stop, n)
       PROVE  QueuesInv'
  <2> DEFINE reply == Assistant(CallIds(toolTurns + 1, n), stop)
  <2>1. toolTurns + 1 \in Nat /\ n \in Nat
    BY AgentAssumption DEF TypeOK, ControlOK
  <2>2. CallIds(toolTurns + 1, n) \in Seq(Call)
    BY <2>1, CallIdsType
  <2>3. reply \in Message /\ Role(reply) # "user"
    BY <2>2, MessageTypes, Constructed
  <2>4. messages' = Append(messages, reply) /\ pending = <<>>
    BY <1>2, <1>11 DEF Respond, PendingInv
  <2> HIDE DEF reply
  <2> QED BY <1>4, <1>11, <2>3, <2>4 DEF Respond
<1>12. CASE ToolStep
  <2>1. pending = <<>> /\ pc = "tools"
    BY <1>2, <1>12 DEF PendingInv, ToolStep, ToolStart, ToolPrepared, ToolRefused, ToolEnd, Launch,
                       Answer, BatchDone
  <2>2. CASE Answer
    <3>1. calls[answered + 1] \in Call
      BY <2>2, PositionsType, ElementOfSeq DEF Answer, TypeOK, BatchOK
    <3>2. /\ ToolResult(calls[answered + 1]) \in Message
          /\ Role(ToolResult(calls[answered + 1])) # "user"
      BY <3>1, MessageTypes, Constructed
    <3> QED BY <1>4, <2>1, <2>2, <3>2 DEF Answer
  <2>3. CASE ~Answer
    BY <1>3, <1>12, <2>1, <2>3 DEF ToolStep, ToolStart, ToolPrepared, ToolRefused, ToolEnd, EndCall,
                                   Launch, BatchDone
  <2> QED BY <2>2, <2>3
<1>13. CASE FailureThrows
  BY <1>2, <1>3, <1>13 DEF FailureThrows, PendingInv
<1>14. ASSUME NEW culprit, Throw(culprit) PROVE QueuesInv'
  <2>1. FifoInv'
    BY <1>8, <1>14 DEF Throw
  <2>2. failures' # 0
    BY <1>1, <1>14 DEF Throw
  <2> QED BY <1>14, <2>1, <2>2 DEF Throw, QueuesInv, PendingInv, KeptInv
<1>15. CASE (\E c \in orphans : OrphanEnd(c)) \/ UNCHANGED vars
  BY <1>2, <1>15 DEF OrphanEnd, vars, QueuesInv, FifoInv, PendingInv, KeptInv
<1> QED
  BY <1>9, <1>10, <1>11, <1>12, <1>13, <1>14, <1>15 DEF Next, LoopStep, TurnStep, Failure

\* The queues, the hands of the run and the transcript keep their order and what
\* they were given.
THEOREM QueuesInvariant == Spec => []QueuesInv
<1>1. Init => QueuesInv
  BY DEF Init, QueuesInv, FifoInv, PendingInv, KeptInv, Fifo, Numbered, HeldIds, Users, FromUser,
         ToSet, Ids, LaneOf, UsersSorted, Sorted, Cross
<1>2. TypeOK /\ BatchInv /\ QueuesInv /\ [Next]_vars => QueuesInv'
  BY QueuesStep
<1> QED
  BY <1>1, <1>2, TypeCorrect, BatchInvariant, PTL DEF Spec


\* The numbering makes the order of submission the order of the numbers.
LEMMA SubmittedNumbered ==
    ASSUME TypeOK, Numbered(submitted), NEW m \in 1 .. Len(submitted)
    PROVE  SubmittedAt(m) = m /\ Lane(m) = submitted[m].lane
<1>1. DOMAIN submitted = 1 .. Len(submitted)
  BY DEF TypeOK, ControlOK
<1>2. m \in DOMAIN submitted /\ submitted[m].id = m
  BY <1>1 DEF Numbered
<1>3. \A i \in DOMAIN submitted : submitted[i].id = m => i = m
  BY DEF Numbered
<1>4. SubmittedAt(m) = m
  BY <1>2, <1>3 DEF SubmittedAt
<1> QED
  BY <1>4 DEF Lane

\* Two queues in order, one after the other.
LEMMA ConcatSorted ==
    ASSUME NEW log, NEW q \in Seq(Msgs), NEW r \in Seq(Msgs),
           Sorted(log, q), Sorted(log, r), Cross(log, ToSet(q), ToSet(r))
    PROVE  /\ q \o r \in Seq(Msgs) /\ ToSet(q \o r) = ToSet(q) \cup ToSet(r)
           /\ Sorted(log, q \o r)
<1> DEFINE a == Len(q)  b == Len(r)  t == q \o r
<1>1. /\ a \in Nat /\ b \in Nat /\ DOMAIN q = 1 .. a /\ DOMAIN r = 1 .. b
      /\ t \in Seq(Msgs) /\ DOMAIN t = 1 .. (a + b)
      /\ \A i \in 1 .. (a + b) : t[i] = IF i <= a THEN q[i] ELSE r[i - a]
  BY ConcatProperties, LenProperties
<1> HIDE DEF a, b, t
<1>2. ASSUME NEW i \in 1 .. (a + b)
      PROVE  \/ i \in 1 .. a /\ t[i] = q[i] /\ q[i] \in ToSet(q)
             \/ i > a /\ \E j \in 1 .. b : i = a + j /\ t[i] = r[j] /\ r[j] \in ToSet(r)
  <2>1. CASE i <= a
    <3>1. i \in 1 .. a /\ t[i] = q[i]
      BY <1>1, <2>1
    <3> QED BY <3>1, <1>1 DEF ToSet
  <2>2. CASE ~(i <= a)
    <3>1. i - a \in 1 .. b /\ a + (i - a) = i /\ i > a
      BY <1>1, <2>2
    <3>2. t[i] = r[i - a] /\ r[i - a] \in ToSet(r)
      BY <1>1, <2>2, <3>1 DEF ToSet
    <3> QED BY <3>1, <3>2
  <2> QED BY <2>1, <2>2
<1>3. ToSet(t) = ToSet(q) \cup ToSet(r)
  <2>1. \A x \in ToSet(t) : x \in ToSet(q) \cup ToSet(r)
    BY <1>1, <1>2 DEF ToSet
  <2>2. ASSUME NEW i \in 1 .. a PROVE q[i] \in ToSet(t)
    <3>1. i \in 1 .. (a + b) /\ i <= a
      BY <1>1
    <3> QED BY <3>1, <1>1 DEF ToSet
  <2>3. ASSUME NEW j \in 1 .. b PROVE r[j] \in ToSet(t)
    <3>1. a + j \in 1 .. (a + b) /\ ~(a + j <= a) /\ (a + j) - a = j
      BY <1>1
    <3>2. t[a + j] = r[j]
      BY <3>1, <1>1
    <3> QED BY <3>1, <3>2, <1>1 DEF ToSet
  <2>4. \A x \in ToSet(q) \cup ToSet(r) : x \in ToSet(t)
    BY <2>2, <2>3, <1>1 DEF ToSet
  <2> QED BY <2>1, <2>4
<1>4. Sorted(log, t)
  <2> SUFFICES ASSUME NEW i \in 1 .. (a + b), NEW j \in 1 .. (a + b), i < j
               PROVE  Before(log, t[i], t[j])
    BY <1>1 DEF Sorted
  <2>1. CASE j \in 1 .. a
    <3>1. i \in 1 .. a /\ t[i] = q[i] /\ t[j] = q[j]
      BY <1>1, <2>1
    <3> QED BY <1>1, <2>1, <3>1 DEF Sorted
  <2>2. CASE j > a /\ i \in 1 .. a
    BY <1>1, <1>2, <2>2 DEF Cross
  <2>3. CASE j > a /\ i > a
    <3>1. PICK k \in 1 .. b : i = a + k /\ t[i] = r[k]
      BY <1>1, <1>2, <2>3
    <3>2. PICK l \in 1 .. b : j = a + l /\ t[j] = r[l]
      BY <1>1, <1>2, <2>3
    <3>3. k < l
      BY <1>1, <3>1, <3>2
    <3> QED BY <1>1, <3>1, <3>2, <3>3 DEF Sorted
  <2> QED BY <1>1, <1>2, <2>1, <2>2, <2>3
<1> QED
  BY <1>1, <1>3, <1>4 DEF t


\* A conversation with queued messages behind it.
LEMMA ConcatUsers ==
    ASSUME NEW log, NEW conv \in Seq(Message), NEW q \in Seq(Msgs),
           UsersSorted(log, conv), Sorted(log, q), Cross(log, Users(conv), ToSet(q))
    PROVE  /\ Users(conv \o UserMessages(q)) = Users(conv) \cup ToSet(q)
           /\ UsersSorted(log, conv \o UserMessages(q))
<1> DEFINE a == Len(conv)  b == Len(q)  u == UserMessages(q)  t == conv \o u
<1>1. /\ a \in Nat /\ b \in Nat /\ DOMAIN conv = 1 .. a /\ DOMAIN q = 1 .. b
      /\ u \in Seq(Message) /\ Len(u) = b /\ \A i \in 1 .. b : u[i] = User(q[i])
  BY UserMessagesType, LenProperties
<1>2. /\ DOMAIN t = 1 .. (a + b)
      /\ \A i \in 1 .. (a + b) : t[i] = IF i <= a THEN conv[i] ELSE u[i - a]
  <2> HIDE DEF u
  <2>1. /\ t \in Seq(Message) /\ Len(t) = Len(conv) + Len(u)
        /\ \A i \in 1 .. (Len(conv) + Len(u)) :
              t[i] = IF i <= Len(conv) THEN conv[i] ELSE u[i - Len(conv)]
    BY <1>1, ConcatProperties
  <2> HIDE DEF t
  <2>2. DOMAIN t = 1 .. Len(t)
    BY <2>1, LenProperties
  <2> QED BY <1>1, <2>1, <2>2
<1> HIDE DEF a, b, u, t
<1>3. \A i \in 1 .. a : i \in 1 .. (a + b) /\ t[i] = conv[i]
  BY <1>1, <1>2
<1>4. ASSUME NEW j \in 1 .. b
      PROVE  /\ a + j \in 1 .. (a + b) /\ t[a + j] = User(q[j])
             /\ Role(t[a + j]) = "user" /\ t[a + j].id = q[j]
  <2>1. a + j \in 1 .. (a + b) /\ ~(a + j <= a) /\ (a + j) - a = j
    BY <1>1
  <2>2. t[a + j] = User(q[j])
    BY <1>1, <1>2, <2>1
  <2> QED BY <2>1, <2>2, Constructed
<1>5. ASSUME NEW i \in 1 .. (a + b), ~(i \in 1 .. a) PROVE \E j \in 1 .. b : i = a + j
  <2>1. i - a \in 1 .. b /\ a + (i - a) = i
    BY <1>1, <1>5
  <2> QED BY <2>1
<1>6. /\ FromUser(t) \subseteq 1 .. (a + b) /\ FromUser(conv) \subseteq 1 .. a
      /\ \A i \in 1 .. a : i \in FromUser(t) <=> i \in FromUser(conv)
      /\ \A j \in 1 .. b : a + j \in FromUser(t)
  BY <1>1, <1>2, <1>3, <1>4 DEF FromUser
<1>7. ASSUME NEW i \in FromUser(t)
      PROVE  \/ i \in FromUser(conv) /\ i \in 1 .. a /\ t[i] = conv[i] /\ t[i].id \in Users(conv)
             \/ \E j \in 1 .. b : i = a + j /\ t[i].id = q[j] /\ q[j] \in ToSet(q)
  <2>1. CASE i \in 1 .. a
    BY <1>3, <1>6, <2>1 DEF Users
  <2>2. CASE ~(i \in 1 .. a)
    <3>1. PICK j \in 1 .. b : i = a + j
      BY <1>5, <1>6, <2>2
    <3>2. q[j] \in ToSet(q)
      BY <1>1 DEF ToSet
    <3> QED BY <1>4, <3>1, <3>2
  <2> QED BY <2>1, <2>2
<1>8. Users(t) = Users(conv) \cup ToSet(q)
  <2>1. \A x \in Users(t) : x \in Users(conv) \cup ToSet(q)
    BY <1>7 DEF Users
  <2>2. \A x \in Users(conv) : x \in Users(t)
    BY <1>3, <1>6 DEF Users
  <2>3. \A x \in ToSet(q) : \E j \in 1 .. b : x = q[j]
    BY <1>1 DEF ToSet
  <2>4. \A j \in 1 .. b : q[j] \in Users(t)
    BY <1>4, <1>6 DEF Users
  <2> QED BY <2>1, <2>2, <2>3, <2>4
<1>9. UsersSorted(log, t)
  <2> SUFFICES ASSUME NEW i \in FromUser(t), NEW j \in FromUser(t), i < j
               PROVE  Before(log, t[i].id, t[j].id)
    BY DEF UsersSorted
  <2>1. CASE i \in FromUser(conv) /\ j \in FromUser(conv)
    BY <1>3, <1>6, <2>1 DEF UsersSorted
  <2>2. CASE i \in FromUser(conv) /\ ~(j \in FromUser(conv))
    <3>1. t[i].id \in Users(conv) /\ t[j].id \in ToSet(q)
      BY <1>7, <2>2, <1>3, <1>6 DEF Users
    <3> QED BY <3>1 DEF Cross
  <2>3. CASE ~(i \in FromUser(conv)) /\ j \in FromUser(conv)
    <3>1. PICK k \in 1 .. b : i = a + k
      BY <1>7, <2>3
    <3>2. j \in 1 .. a
      BY <1>6, <2>3
    <3> QED BY ONLY <3>1, <3>2, <1>1, i < j
  <2>4. CASE ~(i \in FromUser(conv)) /\ ~(j \in FromUser(conv))
    <3>1. PICK k \in 1 .. b : i = a + k /\ t[i].id = q[k]
      BY <1>7, <2>4
    <3>2. PICK l \in 1 .. b : j = a + l /\ t[j].id = q[l]
      BY <1>7, <2>4
    <3>3. k < l
      BY ONLY <3>1, <3>2, <1>1, i < j
    <3> QED BY <1>1, <3>1, <3>2, <3>3 DEF Sorted
  <2> QED BY <2>1, <2>2, <2>3, <2>4
<1> QED
  BY <1>8, <1>9 DEF t, u

\* What the agent holds, as one conversation.
LEMMA HeldInOrder ==
    ASSUME TypeOK, FifoInv
    PROVE  /\ Users(Held) = HeldIds(messages, pending, steeringQueue, followUpQueue)
           /\ UsersSorted(submitted, Held)
<1> DEFINE q == (pending \o steeringQueue) \o followUpQueue
<1>1. /\ messages \in Seq(Message) /\ pending \in Seq(Msgs) /\ steeringQueue \in Seq(Msgs)
      /\ followUpQueue \in Seq(Msgs)
  BY DEF TypeOK, TranscriptOK, QueuesOK
<1>2. Fifo(submitted, messages, pending, steeringQueue, followUpQueue)
  BY DEF FifoInv
<1>3. /\ pending \o steeringQueue \in Seq(Msgs)
      /\ ToSet(pending \o steeringQueue) = ToSet(pending) \cup ToSet(steeringQueue)
      /\ Sorted(submitted, pending \o steeringQueue)
  <2>1. Cross(submitted, ToSet(pending), ToSet(steeringQueue))
    BY <1>2 DEF Fifo, Cross
  <2> QED BY <1>1, <1>2, <2>1, ConcatSorted DEF Fifo
<1>4. Cross(submitted, ToSet(pending \o steeringQueue), ToSet(followUpQueue))
  <2> SUFFICES ASSUME NEW m \in ToSet(steeringQueue), NEW n \in ToSet(followUpQueue)
               PROVE  Before(submitted, m, n)
    BY <1>2, <1>3 DEF Cross, Fifo
  <2>1. submitted[m].lane = "steer" /\ submitted[n].lane = "followUp"
    BY <1>2 DEF Fifo, LaneOf
  <2> QED BY <2>1 DEF Before
<1>5. /\ q \in Seq(Msgs) /\ ToSet(q) = ToSet(pending \o steeringQueue) \cup ToSet(followUpQueue)
      /\ Sorted(submitted, q)
  BY <1>1, <1>2, <1>3, <1>4, ConcatSorted DEF Fifo
<1> HIDE DEF q
<1>6. ToSet(q) = ToSet(pending) \cup ToSet(steeringQueue) \cup ToSet(followUpQueue)
  BY <1>3, <1>5
<1>7. /\ Users(messages \o UserMessages(q)) = Users(messages) \cup ToSet(q)
      /\ UsersSorted(submitted, messages \o UserMessages(q))
  BY <1>1, <1>2, <1>5, <1>6, ConcatUsers DEF Fifo
<1>8. Held = messages \o UserMessages(q)
  BY DEF Held, q
<1> QED
  BY <1>6, <1>7, <1>8 DEF HeldIds

\* No message is delivered twice or is queued while it is delivered, and each
\* lane is first in, first out, across polls, runs, aborts and failures
\* (PendingMessageQueue, agent.ts:125).
THEOREM LanesInOrder == Spec => []FifoPerLane
<1>1. TypeOK /\ QueuesInv => FifoPerLane
  <2> SUFFICES ASSUME TypeOK, QueuesInv, NEW i \in FromUser(Held), NEW j \in FromUser(Held), i < j
               PROVE  MayPrecede(Held[i].id, Held[j].id)
    BY DEF FifoPerLane
  <2> DEFINE m == Held[i].id  n == Held[j].id
  <2>1. Before(submitted, m, n)
    BY HeldInOrder DEF QueuesInv, UsersSorted
  <2>2. m \in Users(Held) /\ n \in Users(Held)
    BY DEF Users
  <2>3. m \in 1 .. Len(submitted) /\ n \in 1 .. Len(submitted) /\ Numbered(submitted)
    BY <2>2, HeldInOrder DEF QueuesInv, FifoInv, Fifo
  <2> HIDE DEF m, n
  <2>4. /\ SubmittedAt(m) = m /\ Lane(m) = submitted[m].lane
        /\ SubmittedAt(n) = n /\ Lane(n) = submitted[n].lane
    BY <2>3, SubmittedNumbered
  <2>5. MayPrecede(m, n)
    BY <2>1, <2>4 DEF MayPrecede, Before
  <2> QED BY <2>5 DEF m, n
<1> QED
  BY <1>1, QueuesInvariant, TypeCorrect, PTL

\* As long as nothing threw, what the user gave the agent is in the transcript,
\* in the hands of the run or queued, unless the user removed it
\* (agent-loop.ts:167, 259, 263).
THEOREM MessagesKept == Spec => []NothingLost
<1>1. TypeOK /\ QueuesInv => NothingLost
  <2> SUFFICES ASSUME TypeOK, QueuesInv, failures = 0
               PROVE  Ids(submitted) \subseteq {Held[i].id : i \in FromUser(Held)} \cup dropped
    BY DEF NothingLost
  <2>1. Users(Held) = HeldIds(messages, pending, steeringQueue, followUpQueue)
    BY HeldInOrder DEF QueuesInv
  <2>2. Ids(submitted) \subseteq Users(Held) \cup dropped
    BY <2>1 DEF QueuesInv, KeptInv
  <2> QED BY <2>2 DEF Users
<1> QED
  BY <1>1, QueuesInvariant, TypeCorrect, PTL

=============================================================================
