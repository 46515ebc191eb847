------------------------- MODULE AgentSession_proofs -------------------------
(***************************************************************************)
(* Proofs about the coding agent's session, for any number of callers of     *)
(* prompt() and any retries: types, who drives the agent, the messages       *)
(* between a call and its result, the announced retries, and the texts that  *)
(* the user is shown as queued.                                              *)
(***************************************************************************)
EXTENDS AgentSession, SequenceTheorems, FunctionTheorems, FiniteSetTheorems, TLAPS

-----------------------------------------------------------------------------
(* Sequences. *)

\* A set of positions has a least one.
LEMMA LeastOfInterval ==
    ASSUME NEW n \in Nat, NEW S \in SUBSET (1 .. n), S # {}
    PROVE  \E x \in S : \A y \in S : x <= y
<1> DEFINE Below(x) == {y \in S : y <= x}
           family == {Below(x) : x \in S}
<1>1. IsFiniteSet(1 .. n) /\ family \subseteq SUBSET (1 .. n) /\ family # {}
  <2>1. IsFiniteSet(1 .. n)
    BY FS_Interval
  <2>2. \A x \in S : Below(x) \in SUBSET (1 .. n)
    OBVIOUS
  <2> HIDE DEF Below
  <2> QED BY <2>1, <2>2
<1>2. \A T \in SUBSET (1 .. n) : IsFiniteSet(T)
  BY <1>1, FS_Subset
<1>3. family \subseteq FiniteSubsetsOf(1 .. n)
  BY <1>1, <1>2 DEF FiniteSubsetsOf
<1>4. \E T \in family : \A U \in family : ~(<<U, T>> \in StrictSubsetOrdering(1 .. n))
  <2> HIDE DEF family
  <2>1. IsWellFoundedOn(StrictSubsetOrdering(1 .. n), FiniteSubsetsOf(1 .. n))
    BY FS_StrictSubsetOrderingWellFounded
  <2> DEFINE R == StrictSubsetOrdering(1 .. n)
             F == FiniteSubsetsOf(1 .. n)
  <2> HIDE DEF R, F
  <2>2. IsWellFoundedOn(R, F) /\ family \subseteq F /\ family # {}
    BY <1>1, <1>3, <2>1 DEF R, F
  <2>3. \E T \in family : \A U \in family : ~(<<U, T>> \in R)
    BY <2>2, WFMin
  <2> QED BY <2>3 DEF R
<1>5. PICK x \in S : \A y \in S : ~(<<Below(y), Below(x)>> \in StrictSubsetOrdering(1 .. n))
  BY <1>4
<1>6. ASSUME NEW y \in S, ~(x <= y) PROVE FALSE
  <2>1. Below(y) \subseteq Below(x) /\ Below(y) \in SUBSET (1 .. n) /\ Below(x) \in SUBSET (1 .. n)
    <3>1. ASSUME NEW z \in Below(y) PROVE z \in Below(x)
      <4>1. x \in Nat /\ y \in Nat /\ z \in Nat /\ z \in S /\ z <= y
        OBVIOUS
      <4> QED BY ONLY <1>6, <4>1
    <3>2. Below(y) \in SUBSET (1 .. n) /\ Below(x) \in SUBSET (1 .. n)
      OBVIOUS
    <3> HIDE DEF Below
    <3> QED BY <3>1, <3>2
  <2>2. x \in Below(x) /\ x \notin Below(y)
    BY <1>6
  <2> HIDE DEF Below
  <2>3. <<Below(y), Below(x)>> \in StrictSubsetOrdering(1 .. n)
    BY <2>1, <2>2 DEF StrictSubsetOrdering
  <2> QED BY <1>5, <2>3
<1> QED BY <1>6

\* It is what Min takes, the place that indexOf finds.
LEMMA MinOfInterval ==
    ASSUME NEW n \in Nat, NEW S \in SUBSET (1 .. n), S # {}
    PROVE  Min(S) \in S /\ \A y \in S : Min(S) <= y
BY LeastOfInterval DEF Min

\* The last element of a list and the rest before it.
LEMMA FrontLast ==
    ASSUME NEW T, NEW s \in Seq(T), s # <<>>
    PROVE  Front(s) \in Seq(T) /\ Last(s) \in T
<1>1. Len(s) \in Nat /\ Len(s) > 0
  BY LenProperties, EmptySeq
<1>2. \A i \in 1 .. Len(s) : s[i] \in T
  BY ElementOfSeq
<1>3. \A i \in 1 .. Len(s) - 1 : s[i] \in T
  BY <1>1, <1>2
<1>4. SubSeq(s, 1, Len(s) - 1) \in Seq(T)
  BY <1>1, <1>3, SubSeqProperties
<1> QED
  BY <1>1, <1>2, <1>4 DEF Front, Last

\* What compaction keeps of the messages.
LEMMA KeptType ==
    ASSUME saved \in Seq(Assistant), NEW kept \in Kept
    PROVE  kept \in Seq(Assistant) /\ Retriable(kept) \in Seq(Assistant)
<1>1. PICK i \in {1} \cup 1 .. Len(saved) : kept = SubSeq(saved, i, Len(saved))
  BY DEF Kept
<1>2. Len(saved) \in Nat /\ i \in Nat /\ i > 0
  BY LenProperties
<1>3. \A j \in i .. Len(saved) : saved[j] \in Assistant
  BY <1>2, ElementOfSeq
<1>4. kept \in Seq(Assistant)
  BY <1>1, <1>2, <1>3, SubSeqProperties
<1> QED
  BY <1>4, FrontLast DEF Retriable

\* Taking a message off a list takes its first occurrence, as splice at indexOf.
LEMMA RemovedFirst ==
    ASSUME NEW T, NEW s \in Seq(T), NEW e, \E k \in 1 .. Len(s) : s[k] = e
    PROVE  \E i \in 1 .. Len(s) :
              /\ s[i] = e /\ \A j \in 1 .. Len(s) : s[j] = e => i <= j
              /\ RemoveFirst(s, e) = SubSeq(s, 1, i - 1) \o SubSeq(s, i + 1, Len(s))
<1> DEFINE I == {i \in 1 .. Len(s) : s[i] = e}
<1>1. I \in SUBSET (1 .. Len(s)) /\ I # {} /\ Len(s) \in Nat
  BY LenProperties
<1>2. RemoveFirst(s, e) = RemoveAt(s, Min(I))
  BY <1>1 DEF RemoveFirst, SelectInSeq
<1>3. Min(I) \in I /\ \A j \in I : Min(I) <= j
  BY <1>1, MinOfInterval
<1> QED
  BY <1>2, <1>3 DEF RemoveAt

\* A list without the first occurrence of a message.
LEMMA RemovedType ==
    ASSUME NEW T, NEW s \in Seq(T), NEW e
    PROVE  RemoveFirst(s, e) \in Seq(T)
<1>1. CASE \E k \in 1 .. Len(s) : s[k] = e
  <2>1. PICK i \in 1 .. Len(s) :
           RemoveFirst(s, e) = SubSeq(s, 1, i - 1) \o SubSeq(s, i + 1, Len(s))
    BY <1>1, RemovedFirst
  <2>2. Len(s) \in Nat /\ \A j \in 1 .. Len(s) : s[j] \in T
    BY LenProperties, ElementOfSeq
  <2>3. SubSeq(s, 1, i - 1) \in Seq(T)
    <3>1. \A j \in 1 .. i - 1 : s[j] \in T
      BY <2>2
    <3>2. i - 1 \in Int /\ 1 \in Int
      OBVIOUS
    <3> QED BY <3>1, <3>2, SubSeqProperties
  <2>4. SubSeq(s, i + 1, Len(s)) \in Seq(T)
    <3>1. \A j \in i + 1 .. Len(s) : s[j] \in T
      BY <2>2
    <3>2. i + 1 \in Int /\ Len(s) \in Int
      BY <2>2
    <3> QED BY <3>1, <3>2, SubSeqProperties
  <2> QED BY <2>1, <2>3, <2>4, ConcatProperties
<1>2. CASE ~\E k \in 1 .. Len(s) : s[k] = e
  BY <1>2 DEF RemoveFirst
<1> QED
  BY <1>1, <1>2

-----------------------------------------------------------------------------
(* Types. *)

\* What is drained of a queue, and what is left of it.
LEMMA Drained ==
    ASSUME NEW q \in Seq(Message), q # <<>>
    PROVE  Drain(q) \in Seq(Message) /\ Tail(q) \in Seq(Message)
BY HeadTailProperties DEF Drain

\* A message queued for the agent and shown to the user.
LEMMA Queued ==
    ASSUME QueuesOK, NEW m \in Text,
           QueueSteer(m) \/ QueueFollowUp(m) \/ UNCHANGED queueVars
    PROVE  QueuesOK'
<1>1. /\ Append(steeringMessages, m) \in Seq(Text)
      /\ Append(followUpMessages, m) \in Seq(Text)
  BY AppendProperties DEF QueuesOK
<1>2. Append(steeringQueue, m) \in Seq(Message) /\ Append(followUpQueue, m) \in Seq(Message)
  BY AppendProperties DEF QueuesOK, Message
<1> QED
  BY <1>1, <1>2 DEF QueueSteer, QueueFollowUp, queueVars, QueuesOK

\* The flags.
LEMMA FlagsStep ==
    ASSUME TypeOK, [Next]_vars
    PROVE  FlagsOK'
<1>0. MaxRetries \in Nat
  BY SessionAssumption DEF SessionAssumption
<1> FlagsOK
  BY DEF TypeOK
<1>1. ASSUME NEW c \in Callers, Submit(c) \/ Join(c) \/ Unauthorized(c) \/ CompactFails(c)
      PROVE  FlagsOK'
  BY <1>1 DEF Submit, Join, Unauthorized, CompactFails, queueVars, contextVars, flagVars,
              waitVars, runVars, callerVars, history, FlagsOK
<1>2. ASSUME Steer \/ SteerCustom \/ ClearQueue \/ Poll \/ ToolsDone PROVE FlagsOK'
  BY <1>2 DEF Steer, SteerCustom, ClearQueue, Poll, ToolsDone, queueVars, contextVars, flagVars,
              waitVars, runVars, callerVars, history, FlagsOK
<1>3. ASSUME NEW c \in Callers, Trigger(c) PROVE FlagsOK'
  <2>1. UNCHANGED <<lastAssistant, retryAttempt, sleeper, compactor, aborter, fresh, announced,
                    split>>
    BY <1>3 DEF Trigger, RunAgentPrompt, BeginRun, queueVars, contextVars, flagVars, waitVars,
                runVars, callerVars, history
  <2>2. isAgentRunActive' \in BOOLEAN
    BY <1>3 DEF Trigger, RunAgentPrompt, BeginRun, queueVars, contextVars, flagVars, waitVars,
                runVars, callerVars, history, FlagsOK
  <2>3. raced' \in BOOLEAN
    BY <1>3 DEF Trigger, RunAgentPrompt, BeginRun, queueVars, contextVars, flagVars, waitVars,
                runVars, callerVars, history, FlagsOK
  <2>4. overflowRecoveryAttempted' \in BOOLEAN
    BY <1>3 DEF Trigger, RunAgentPrompt, BeginRun, queueVars, contextVars, flagVars, waitVars,
                runVars, callerVars, history, FlagsOK
  <2>5. signal' \in BOOLEAN
    BY <1>3 DEF Trigger, RunAgentPrompt, BeginRun, queueVars, contextVars, flagVars, waitVars,
                runVars, callerVars, history, FlagsOK
  <2> QED BY <2>1, <2>2, <2>3, <2>4, <2>5 DEF FlagsOK
<1>4. ASSUME RecordBash PROVE FlagsOK'
  <2>1. UNCHANGED <<isAgentRunActive, overflowRecoveryAttempted, signal, lastAssistant,
                    retryAttempt, sleeper, compactor, aborter, fresh, announced, raced>>
    BY <1>4 DEF RecordBash, AppendContext, queueVars, contextVars, flagVars, waitVars, runVars,
                callerVars, history
  <2>2. split' \in BOOLEAN
    BY <1>4 DEF RecordBash, AppendContext, queueVars, contextVars, flagVars, waitVars, runVars,
                callerVars, history, FlagsOK
  <2> QED BY <2>1, <2>2 DEF FlagsOK
<1>5. ASSUME SendCustom PROVE FlagsOK'
  <2>1. UNCHANGED <<isAgentRunActive, overflowRecoveryAttempted, signal, lastAssistant,
                    retryAttempt, sleeper, compactor, aborter, fresh, announced, raced>>
    BY <1>5 DEF SendCustom, AppendContext, queueVars, contextVars, flagVars, waitVars, runVars,
                callerVars, history
  <2>2. split' \in BOOLEAN
    BY <1>5 DEF SendCustom, AppendContext, queueVars, contextVars, flagVars, waitVars, runVars,
                callerVars, history, FlagsOK
  <2> QED BY <2>1, <2>2 DEF FlagsOK
<1>6. ASSUME Abort PROVE FlagsOK'
  <2>1. UNCHANGED <<isAgentRunActive, overflowRecoveryAttempted, lastAssistant, compactor,
                    fresh, announced, raced, split>>
    BY <1>6 DEF Abort, StopWork, queueVars, contextVars, flagVars, waitVars, runVars,
                callerVars, history
  <2>2. signal' \in BOOLEAN
    BY <1>6 DEF Abort, StopWork, queueVars, contextVars, flagVars, waitVars, runVars,
                callerVars, history, FlagsOK
  <2>3. sleeper' \in Callers \cup {NoCaller}
    BY <1>6 DEF Abort, StopWork, queueVars, contextVars, flagVars, waitVars, runVars,
                callerVars, history, FlagsOK
  <2>4. retryAttempt' \in 0 .. MaxRetries
    BY <1>0, <1>6 DEF Abort, StopWork, flagVars, FlagsOK
  <2>5. aborter' \in {"no", "waiting"}
    BY <1>6 DEF Abort, StopWork, queueVars, contextVars, flagVars, waitVars, runVars,
                callerVars, history, FlagsOK
  <2> QED BY <2>1, <2>2, <2>3, <2>4, <2>5 DEF FlagsOK
<1>7. ASSUME Compact PROVE FlagsOK'
  <2>1. UNCHANGED <<isAgentRunActive, overflowRecoveryAttempted, lastAssistant, aborter, fresh,
                    announced, raced, split>>
    BY <1>7 DEF Compact, StopWork, queueVars, contextVars, flagVars, waitVars, runVars,
                callerVars, history
  <2>2. signal' \in BOOLEAN
    BY <1>7 DEF Compact, StopWork, queueVars, contextVars, flagVars, waitVars, runVars,
                callerVars, history, FlagsOK
  <2>3. sleeper' \in Callers \cup {NoCaller}
    BY <1>7 DEF Compact, StopWork, queueVars, contextVars, flagVars, waitVars, runVars,
                callerVars, history, FlagsOK
  <2>4. retryAttempt' \in 0 .. MaxRetries
    BY <1>0, <1>7 DEF Compact, StopWork, flagVars, FlagsOK
  <2>5. compactor' \in {"no", "aborting", "summarizing"}
    BY <1>7 DEF Compact, StopWork, queueVars, contextVars, flagVars, waitVars, runVars,
                callerVars, history, FlagsOK
  <2> QED BY <2>1, <2>2, <2>3, <2>4, <2>5 DEF FlagsOK
<1>8. ASSUME Deliver PROVE FlagsOK'
  <2>1. UNCHANGED <<isAgentRunActive, signal, lastAssistant, retryAttempt, sleeper, compactor,
                    aborter, fresh, announced, raced, split>>
    BY <1>8 DEF Deliver, TakeOff, queueVars, contextVars, flagVars, waitVars, runVars, callerVars,
                history
  <2>2. overflowRecoveryAttempted' \in BOOLEAN
    BY <1>8 DEF Deliver, TakeOff, queueVars, contextVars, flagVars, waitVars, runVars, callerVars,
                history, FlagsOK
  <2> QED BY <2>1, <2>2 DEF FlagsOK
<1>9. ASSUME TurnEnd PROVE FlagsOK'
  <2>1. UNCHANGED <<isAgentRunActive, overflowRecoveryAttempted, signal, lastAssistant,
                    retryAttempt, sleeper, compactor, aborter, fresh, announced, raced>>
    BY <1>9 DEF TurnEnd, AppendContext, queueVars, contextVars, flagVars, waitVars, runVars,
                callerVars, history
  <2>2. split' \in BOOLEAN
    BY <1>9 DEF TurnEnd, AppendContext, queueVars, contextVars, flagVars, waitVars, runVars,
                callerVars, history, FlagsOK
  <2> QED BY <2>1, <2>2 DEF FlagsOK
<1>10. ASSUME EmitAgentEnd PROVE FlagsOK'
  <2>1. UNCHANGED <<isAgentRunActive, overflowRecoveryAttempted, signal, lastAssistant,
                    retryAttempt, sleeper, compactor, aborter, fresh, raced, split>>
    BY <1>10 DEF EmitAgentEnd, queueVars, contextVars, flagVars, waitVars, runVars, callerVars,
                 history
  <2>2. announced' \in BOOLEAN
    BY <1>10 DEF EmitAgentEnd, queueVars, contextVars, flagVars, waitVars, runVars, callerVars,
                 history, FlagsOK
  <2> QED BY <2>1, <2>2 DEF FlagsOK
<1>11. ASSUME FinishRun PROVE FlagsOK'
  <2>1. UNCHANGED <<isAgentRunActive, overflowRecoveryAttempted, lastAssistant, retryAttempt,
                    sleeper, compactor, aborter, fresh, announced, raced, split>>
    BY <1>11 DEF FinishRun, queueVars, contextVars, flagVars, waitVars, runVars, callerVars,
                 history
  <2>2. signal' \in BOOLEAN
    BY <1>11 DEF FinishRun, queueVars, contextVars, flagVars, waitVars, runVars, callerVars,
                 history, FlagsOK
  <2> QED BY <2>1, <2>2 DEF FlagsOK
<1>12. ASSUME NEW kind \in Assistant, Respond(kind) PROVE FlagsOK'
  <2>1. UNCHANGED <<isAgentRunActive, signal, sleeper, compactor, aborter, announced, raced,
                    split>>
    BY <1>12 DEF Respond, FlagsAfter, queueVars, contextVars, flagVars, waitVars, runVars,
                 callerVars, history
  <2>2. overflowRecoveryAttempted' \in BOOLEAN
    BY <1>12 DEF Respond, FlagsAfter, queueVars, contextVars, flagVars, waitVars, runVars,
                 callerVars, history, FlagsOK
  <2>3. lastAssistant' \in Assistant \cup {"none"}
    BY <1>12 DEF Respond, FlagsAfter, queueVars, contextVars, flagVars, waitVars, runVars,
                 callerVars, history, FlagsOK
  <2>4. retryAttempt' \in 0 .. MaxRetries
    BY <1>0, <1>12 DEF Respond, FlagsAfter, flagVars, FlagsOK
  <2>5. fresh' \in BOOLEAN
    BY <1>12 DEF Respond, FlagsAfter, queueVars, contextVars, flagVars, waitVars, runVars,
                 callerVars, history, FlagsOK
  <2> QED BY <2>1, <2>2, <2>3, <2>4, <2>5 DEF FlagsOK
<1>13. ASSUME CompactEnd PROVE FlagsOK'
  <2>1. UNCHANGED <<isAgentRunActive, overflowRecoveryAttempted, signal, lastAssistant,
                    retryAttempt, sleeper, aborter, announced, raced, split>>
    BY <1>13 DEF CompactEnd, queueVars, contextVars, flagVars, waitVars, runVars, callerVars,
                 history
  <2>2. compactor' \in {"no", "aborting", "summarizing"}
    BY <1>13 DEF CompactEnd, queueVars, contextVars, flagVars, waitVars, runVars, callerVars,
                 history, FlagsOK
  <2>3. fresh' \in BOOLEAN
    BY <1>13 DEF CompactEnd, queueVars, contextVars, flagVars, waitVars, runVars, callerVars,
                 history, FlagsOK
  <2> QED BY <2>1, <2>2, <2>3 DEF FlagsOK
<1>14. ASSUME NEW c \in Callers, Prepare(c) PROVE FlagsOK'
  <2>1. UNCHANGED <<isAgentRunActive, overflowRecoveryAttempted, signal, lastAssistant,
                    retryAttempt, sleeper, compactor, aborter, fresh, announced, raced>>
    BY <1>14 DEF Prepare, Flush, AppendContext, queueVars, contextVars, flagVars, waitVars,
                 runVars, callerVars, history
  <2>2. split' \in BOOLEAN
    BY <1>14 DEF Prepare, Flush, AppendContext, queueVars, contextVars, flagVars, waitVars,
                 runVars, callerVars, history, FlagsOK
  <2> QED BY <2>1, <2>2 DEF FlagsOK
<1>15. ASSUME NEW c \in Callers, PreCheck(c) PROVE FlagsOK'
  <2>1. UNCHANGED <<isAgentRunActive, signal, lastAssistant, retryAttempt, sleeper, compactor,
                    aborter, fresh, announced, raced, split>>
    BY <1>15 DEF PreCheck, StartCompaction, queueVars, contextVars, flagVars, waitVars, runVars,
                 callerVars, history
  <2>2. overflowRecoveryAttempted' \in BOOLEAN
    BY <1>15 DEF PreCheck, StartCompaction, queueVars, contextVars, flagVars, waitVars, runVars,
                 callerVars, history, FlagsOK
  <2> QED BY <2>1, <2>2 DEF FlagsOK
<1>16. ASSUME NEW c \in Callers, PreCompact(c) PROVE FlagsOK'
  <2>1. UNCHANGED <<isAgentRunActive, overflowRecoveryAttempted, signal, lastAssistant,
                    retryAttempt, sleeper, compactor, aborter, announced, raced, split>>
    BY <1>16 DEF PreCompact, Compacted, queueVars, contextVars, flagVars, waitVars, runVars,
                 callerVars, history
  <2>2. fresh' \in BOOLEAN
    BY <1>16 DEF PreCompact, Compacted, queueVars, contextVars, flagVars, waitVars, runVars,
                 callerVars, history, FlagsOK
  <2> QED BY <2>1, <2>2 DEF FlagsOK
<1>17. ASSUME NEW c \in Callers, StartRun(c) PROVE FlagsOK'
  <2>1. UNCHANGED <<lastAssistant, retryAttempt, sleeper, compactor, aborter, fresh, announced,
                    split>>
    BY <1>17 DEF StartRun, RunAgentPrompt, BeginRun, queueVars, contextVars, flagVars, waitVars,
                 runVars, callerVars, history
  <2>2. isAgentRunActive' \in BOOLEAN
    BY <1>17 DEF StartRun, RunAgentPrompt, BeginRun, queueVars, contextVars, flagVars, waitVars,
                 runVars, callerVars, history, FlagsOK
  <2>3. raced' \in BOOLEAN
    BY <1>17 DEF StartRun, RunAgentPrompt, BeginRun, queueVars, contextVars, flagVars, waitVars,
                 runVars, callerVars, history, FlagsOK
  <2>4. overflowRecoveryAttempted' \in BOOLEAN
    BY <1>17 DEF StartRun, RunAgentPrompt, BeginRun, queueVars, contextVars, flagVars, waitVars,
                 runVars, callerVars, history, FlagsOK
  <2>5. signal' \in BOOLEAN
    BY <1>17 DEF StartRun, RunAgentPrompt, BeginRun, queueVars, contextVars, flagVars, waitVars,
                 runVars, callerVars, history, FlagsOK
  <2> QED BY <2>1, <2>2, <2>3, <2>4, <2>5 DEF FlagsOK
<1>18. ASSUME NEW c \in Callers, PostRun(c) PROVE FlagsOK'
  <2>1. UNCHANGED <<isAgentRunActive, overflowRecoveryAttempted, signal, compactor, aborter,
                    fresh, raced, split>>
    BY <1>18 DEF PostRun, Retries, queueVars, contextVars, flagVars, waitVars, runVars,
                 callerVars, history
  <2>2. lastAssistant' \in Assistant \cup {"none"}
    BY <1>18 DEF PostRun, Retries, queueVars, contextVars, flagVars, waitVars, runVars,
                 callerVars, history, FlagsOK
  <2>3. retryAttempt' \in 0 .. MaxRetries
    BY <1>0, <1>18 DEF PostRun, Retries, flagVars, FlagsOK
  <2>4. sleeper' \in Callers \cup {NoCaller}
    BY <1>18 DEF PostRun, Retries, queueVars, contextVars, flagVars, waitVars, runVars,
                 callerVars, history, FlagsOK
  <2>5. announced' \in BOOLEAN
    BY <1>18 DEF PostRun, Retries, queueVars, contextVars, flagVars, waitVars, runVars,
                 callerVars, history, FlagsOK
  <2> QED BY <2>1, <2>2, <2>3, <2>4, <2>5 DEF FlagsOK
<1>19. ASSUME NEW c \in Callers, SleepOver(c) PROVE FlagsOK'
  <2>1. UNCHANGED <<isAgentRunActive, overflowRecoveryAttempted, signal, lastAssistant,
                    retryAttempt, compactor, aborter, fresh, announced, raced, split>>
    BY <1>19 DEF SleepOver, queueVars, contextVars, flagVars, waitVars, runVars, callerVars,
                 history
  <2>2. sleeper' \in Callers \cup {NoCaller}
    BY <1>19 DEF SleepOver, queueVars, contextVars, flagVars, waitVars, runVars, callerVars,
                 history, FlagsOK
  <2> QED BY <2>1, <2>2 DEF FlagsOK
<1>20. ASSUME NEW c \in Callers, PostCheck(c) PROVE FlagsOK'
  <2>1. UNCHANGED <<isAgentRunActive, signal, lastAssistant, retryAttempt, sleeper, compactor,
                    aborter, fresh, announced, raced, split>>
    BY <1>20 DEF PostCheck, StartCompaction, queueVars, contextVars, flagVars, waitVars,
                 runVars, callerVars, history
  <2>2. overflowRecoveryAttempted' \in BOOLEAN
    BY <1>20 DEF PostCheck, StartCompaction, queueVars, contextVars, flagVars, waitVars,
                 runVars, callerVars, history, FlagsOK
  <2> QED BY <2>1, <2>2 DEF FlagsOK
<1>21. ASSUME NEW c \in Callers, CompactRetry(c) PROVE FlagsOK'
  <2>1. UNCHANGED <<isAgentRunActive, overflowRecoveryAttempted, signal, lastAssistant,
                    retryAttempt, sleeper, compactor, aborter, announced, raced, split>>
    BY <1>21 DEF CompactRetry, Compacted, queueVars, contextVars, flagVars, waitVars, runVars,
                 callerVars, history
  <2>2. fresh' \in BOOLEAN
    BY <1>21 DEF CompactRetry, Compacted, queueVars, contextVars, flagVars, waitVars, runVars,
                 callerVars, history, FlagsOK
  <2> QED BY <2>1, <2>2 DEF FlagsOK
<1>22. ASSUME NEW c \in Callers, Continue(c) PROVE FlagsOK'
  <2>1. UNCHANGED <<isAgentRunActive, overflowRecoveryAttempted, lastAssistant, retryAttempt,
                    sleeper, compactor, aborter, fresh, announced, raced, split>>
    BY <1>22 DEF Continue, BeginRun, queueVars, contextVars, flagVars, waitVars, runVars,
                 callerVars, history
  <2>2. signal' \in BOOLEAN
    BY <1>22 DEF Continue, BeginRun, queueVars, contextVars, flagVars, waitVars, runVars,
                 callerVars, history, FlagsOK
  <2> QED BY <2>1, <2>2 DEF FlagsOK
<1>23. ASSUME NEW c \in Callers, Finally(c) PROVE FlagsOK'
  <2>1. UNCHANGED <<overflowRecoveryAttempted, signal, lastAssistant, retryAttempt, sleeper,
                    compactor, aborter, fresh, announced, raced>>
    BY <1>23 DEF Finally, Flush, AppendContext, queueVars, contextVars, flagVars, waitVars,
                 runVars, callerVars, history
  <2>2. isAgentRunActive' \in BOOLEAN
    BY <1>23 DEF Finally, Flush, AppendContext, queueVars, contextVars, flagVars, waitVars,
                 runVars, callerVars, history, FlagsOK
  <2>3. split' \in BOOLEAN
    BY <1>23 DEF Finally, Flush, AppendContext, queueVars, contextVars, flagVars, waitVars,
                 runVars, callerVars, history, FlagsOK
  <2> QED BY <2>1, <2>2, <2>3 DEF FlagsOK
<1>24. ASSUME NEW c \in Callers, Settled(c) PROVE FlagsOK'
  <2>1. UNCHANGED <<isAgentRunActive, overflowRecoveryAttempted, signal, lastAssistant,
                    retryAttempt, sleeper, fresh, announced, raced, split>>
    BY <1>24 DEF Settled, queueVars, contextVars, flagVars, waitVars, runVars, callerVars,
                 history
  <2>2. aborter' \in {"no", "waiting"}
    BY <1>24 DEF Settled, queueVars, contextVars, flagVars, waitVars, runVars, callerVars,
                 history, FlagsOK
  <2>3. compactor' \in {"no", "aborting", "summarizing"}
    BY <1>24 DEF Settled, queueVars, contextVars, flagVars, waitVars, runVars, callerVars,
                 history, FlagsOK
  <2> QED BY <2>1, <2>2, <2>3 DEF FlagsOK
<1>25. CASE UNCHANGED vars
  BY <1>25 DEF vars, queueVars, contextVars, flagVars, waitVars, runVars, callerVars, history,
               FlagsOK
<1> QED
  BY <1>1, <1>2, <1>3, <1>4, <1>5, <1>6, <1>7, <1>8, <1>9, <1>10, <1>11, <1>12, <1>13, <1>14,
     <1>15, <1>16, <1>17, <1>18, <1>19, <1>20, <1>21, <1>22, <1>23, <1>24, <1>25
  DEF Next, UserCall, RunStep, CallerStep

\* The run.
LEMMA RunStepTypes ==
    ASSUME TypeOK, [Next]_vars
    PROVE  RunOK'
<1> RunOK
  BY DEF TypeOK
<1>1. ASSUME NEW c \in Callers, Submit(c) \/ Join(c) \/ Prepare(c) \/ Unauthorized(c) \/
                             PreCheck(c) \/ PreCompact(c) \/ PostRun(c) \/ SleepOver(c) \/
                             PostCheck(c)
      PROVE  RunOK'
  BY <1>1 DEF Submit, Join, Prepare, Flush, AppendContext, Unauthorized, PreCheck,
              StartCompaction, PreCompact, Compacted, PostRun, Retries, SleepOver, PostCheck,
              queueVars, contextVars, flagVars, waitVars, runVars, callerVars, history, RunOK
<1>2. ASSUME NEW c \in Callers, CompactRetry(c) \/ CompactFails(c) \/ Finally(c) \/ Settled(c)
      PROVE  RunOK'
  BY <1>2 DEF CompactRetry, Compacted, CompactFails, Finally, Flush, AppendContext, Settled,
              queueVars, contextVars, flagVars, waitVars, runVars, callerVars, history, RunOK
<1>3. ASSUME Steer \/ SteerCustom \/ ClearQueue \/ RecordBash \/ SendCustom \/ Abort \/ Compact \/
          Deliver \/ CompactEnd
      PROVE  RunOK'
  BY <1>3 DEF Steer, SteerCustom, ClearQueue, RecordBash, AppendContext, SendCustom, Abort,
              StopWork, Compact, Deliver, CompactEnd, queueVars, contextVars, flagVars,
              waitVars, runVars, callerVars, history, RunOK
<1>4. ASSUME NEW c \in Callers, Trigger(c) PROVE RunOK'
  <2>1. UNCHANGED <<toolTurns>>
    BY <1>4 DEF Trigger, RunAgentPrompt, BeginRun, queueVars, contextVars, flagVars, waitVars,
                runVars, callerVars, history
  <2>2. run' \in RunPhases
    BY <1>4 DEF Trigger, RunAgentPrompt, BeginRun, runVars, RunPhases, RunOK
  <2>3. owner' \in Callers \cup {NoCaller} /\ (run' # "none" => owner' \in Callers)
    BY <1>4 DEF Trigger, RunAgentPrompt, BeginRun, runVars, RunOK
  <2>4. reply' \in Assistant \cup {"none"}
    BY <1>4 DEF Trigger, RunAgentPrompt, BeginRun, runVars, RunOK
  <2> QED BY <2>1, <2>2, <2>3, <2>4 DEF RunOK
<1>5. ASSUME Poll PROVE RunOK'
  <2>1. UNCHANGED <<owner, reply, toolTurns>>
    BY <1>5 DEF Poll, queueVars, contextVars, flagVars, waitVars, runVars, callerVars, history
  <2>2. run' \in RunPhases /\ run # "none"
    BY <1>5 DEF Poll, runVars, RunPhases, RunOK
  <2> QED BY <2>1, <2>2 DEF RunOK
<1>6. ASSUME ToolsDone PROVE RunOK'
  <2>1. UNCHANGED <<owner, reply, toolTurns>>
    BY <1>6 DEF ToolsDone, queueVars, contextVars, flagVars, waitVars, runVars, callerVars,
                history
  <2>2. run' \in RunPhases /\ run # "none"
    BY <1>6 DEF ToolsDone, runVars, RunPhases, RunOK
  <2> QED BY <2>1, <2>2 DEF RunOK
<1>7. ASSUME TurnEnd PROVE RunOK'
  <2>1. UNCHANGED <<owner, reply, toolTurns>>
    BY <1>7 DEF TurnEnd, AppendContext, queueVars, contextVars, flagVars, waitVars, runVars,
                callerVars, history
  <2>2. run' \in RunPhases /\ run # "none"
    BY <1>7 DEF TurnEnd, AppendContext, runVars, RunPhases, RunOK
  <2> QED BY <2>1, <2>2 DEF RunOK
<1>8. ASSUME EmitAgentEnd PROVE RunOK'
  <2>1. UNCHANGED <<owner, reply, toolTurns>>
    BY <1>8 DEF EmitAgentEnd, queueVars, contextVars, flagVars, waitVars, runVars, callerVars,
                history
  <2>2. run' \in RunPhases /\ run # "none"
    BY <1>8 DEF EmitAgentEnd, runVars, RunPhases, RunOK
  <2> QED BY <2>1, <2>2 DEF RunOK
<1>9. ASSUME FinishRun PROVE RunOK'
  <2>1. UNCHANGED <<toolTurns>>
    BY <1>9 DEF FinishRun, queueVars, contextVars, flagVars, waitVars, runVars, callerVars,
                history
  <2>2. run' \in RunPhases
    BY <1>9 DEF FinishRun, runVars, RunPhases, RunOK
  <2>3. owner' \in Callers \cup {NoCaller} /\ (run' # "none" => owner' \in Callers)
    BY <1>9 DEF FinishRun, runVars, RunOK
  <2>4. reply' \in Assistant \cup {"none"}
    BY <1>9 DEF FinishRun, runVars, RunOK
  <2> QED BY <2>1, <2>2, <2>3, <2>4 DEF RunOK
<1>10. ASSUME NEW kind \in Assistant, Respond(kind) PROVE RunOK'
  <2>1. UNCHANGED <<owner>>
    BY <1>10 DEF Respond, FlagsAfter, queueVars, contextVars, flagVars, waitVars, runVars,
                 callerVars, history
  <2>2. run' \in RunPhases /\ run # "none"
    BY <1>10 DEF Respond, FlagsAfter, runVars, RunPhases, RunOK
  <2>3. reply' \in Assistant \cup {"none"}
    BY <1>10 DEF Respond, FlagsAfter, runVars, RunOK
  <2>4. toolTurns' \in Nat
    BY <1>10 DEF Respond, FlagsAfter, queueVars, contextVars, flagVars, waitVars, runVars,
                 callerVars, history, RunOK
  <2> QED BY <2>1, <2>2, <2>3, <2>4 DEF RunOK
<1>11. ASSUME NEW c \in Callers, StartRun(c) PROVE RunOK'
  <2>1. UNCHANGED <<toolTurns>>
    BY <1>11 DEF StartRun, RunAgentPrompt, BeginRun, queueVars, contextVars, flagVars, waitVars,
                 runVars, callerVars, history
  <2>2. run' \in RunPhases
    BY <1>11 DEF StartRun, RunAgentPrompt, BeginRun, runVars, RunPhases, RunOK
  <2>3. owner' \in Callers \cup {NoCaller} /\ (run' # "none" => owner' \in Callers)
    BY <1>11 DEF StartRun, RunAgentPrompt, BeginRun, runVars, RunOK
  <2>4. reply' \in Assistant \cup {"none"}
    BY <1>11 DEF StartRun, RunAgentPrompt, BeginRun, runVars, RunOK
  <2> QED BY <2>1, <2>2, <2>3, <2>4 DEF RunOK
<1>12. ASSUME NEW c \in Callers, Continue(c) PROVE RunOK'
  <2>1. UNCHANGED <<toolTurns>>
    BY <1>12 DEF Continue, BeginRun, queueVars, contextVars, flagVars, waitVars, runVars,
                 callerVars, history
  <2>2. run' \in RunPhases
    BY <1>12 DEF Continue, BeginRun, runVars, RunPhases, RunOK
  <2>3. owner' \in Callers \cup {NoCaller} /\ (run' # "none" => owner' \in Callers)
    BY <1>12 DEF Continue, BeginRun, runVars, RunOK
  <2>4. reply' \in Assistant \cup {"none"}
    BY <1>12 DEF Continue, BeginRun, runVars, RunOK
  <2> QED BY <2>1, <2>2, <2>3, <2>4 DEF RunOK
<1>13. CASE UNCHANGED vars
  BY <1>13 DEF vars, queueVars, contextVars, flagVars, waitVars, runVars, callerVars, history,
               RunOK
<1> QED
  BY <1>1, <1>2, <1>3, <1>4, <1>5, <1>6, <1>7, <1>8, <1>9, <1>10, <1>11, <1>12, <1>13
  DEF Next, UserCall, RunStep, CallerStep

\* The messages of the context.
LEMMA ContextStep ==
    ASSUME TypeOK, [Next]_vars
    PROVE  ContextOK'
<1> ContextOK
  BY DEF TypeOK
<1>1. ASSUME NEW c \in Callers, Submit(c) \/ Join(c) \/ Unauthorized(c) \/ SleepOver(c) \/
                             CompactFails(c) \/ Continue(c) \/ Settled(c)
      PROVE  ContextOK'
  BY <1>1 DEF Submit, Join, Unauthorized, SleepOver, CompactFails, Continue, BeginRun, Settled,
              queueVars, contextVars, flagVars, waitVars, runVars, callerVars, history,
              ContextOK
<1>2. ASSUME Steer \/ SteerCustom \/ ClearQueue \/ Abort \/ Compact \/ Poll \/ EmitAgentEnd \/
          FinishRun
      PROVE  ContextOK'
  BY <1>2 DEF Steer, SteerCustom, ClearQueue, Abort, StopWork, Compact, Poll, EmitAgentEnd,
              FinishRun, queueVars, contextVars, flagVars, waitVars, runVars, callerVars,
              history, ContextOK
<1>3. ASSUME NEW c \in Callers, Trigger(c) PROVE ContextOK'
  <2>1. UNCHANGED <<pendingBash, pendingCustom, contexts>>
    BY <1>3 DEF Trigger, RunAgentPrompt, BeginRun, queueVars, contextVars, flagVars, waitVars,
                runVars, callerVars, history
  <2>2. trail' \in Seq(Assistant)
    BY <1>3 DEF Trigger, RunAgentPrompt, contextVars, ContextOK
  <2>3. saved' \in Seq(Assistant)
    BY <1>3 DEF Trigger, RunAgentPrompt, contextVars, ContextOK
  <2> QED BY <2>1, <2>2, <2>3 DEF ContextOK
<1>4. ASSUME RecordBash PROVE ContextOK'
  <2>1. UNCHANGED <<pendingCustom>>
    BY <1>4 DEF RecordBash, AppendContext, queueVars, contextVars, flagVars, waitVars, runVars,
                callerVars, history
  <2>2. pendingBash' \in Nat
    BY <1>4 DEF RecordBash, AppendContext, queueVars, contextVars, flagVars, waitVars, runVars,
                callerVars, history, ContextOK
  <2>3. contexts' \in Nat
    BY <1>4 DEF RecordBash, AppendContext, queueVars, contextVars, flagVars, waitVars, runVars,
                callerVars, history, ContextOK
  <2>4. trail' \in Seq(Assistant)
    BY <1>4, EmptySeq DEF RecordBash, AppendContext, ContextOK
  <2>5. saved' \in Seq(Assistant)
    BY <1>4, EmptySeq DEF RecordBash, AppendContext, ContextOK
  <2> QED BY <2>1, <2>2, <2>3, <2>4, <2>5 DEF ContextOK
<1>5. ASSUME SendCustom PROVE ContextOK'
  <2>1. UNCHANGED <<pendingBash>>
    BY <1>5 DEF SendCustom, AppendContext, queueVars, contextVars, flagVars, waitVars, runVars,
                callerVars, history
  <2>2. pendingCustom' \in Nat
    BY <1>5 DEF SendCustom, AppendContext, queueVars, contextVars, flagVars, waitVars, runVars,
                callerVars, history, ContextOK
  <2>3. contexts' \in Nat
    BY <1>5 DEF SendCustom, AppendContext, queueVars, contextVars, flagVars, waitVars, runVars,
                callerVars, history, ContextOK
  <2>4. trail' \in Seq(Assistant)
    BY <1>5, EmptySeq DEF SendCustom, AppendContext, ContextOK
  <2>5. saved' \in Seq(Assistant)
    BY <1>5, EmptySeq DEF SendCustom, AppendContext, ContextOK
  <2> QED BY <2>1, <2>2, <2>3, <2>4, <2>5 DEF ContextOK
<1>6. ASSUME Deliver PROVE ContextOK'
  <2>1. UNCHANGED <<pendingBash, pendingCustom, contexts>>
    BY <1>6 DEF Deliver, TakeOff, queueVars, contextVars, flagVars, waitVars, runVars, callerVars,
                history
  <2>2. trail' \in Seq(Assistant)
    BY <1>6, EmptySeq DEF Deliver, ContextOK
  <2>3. saved' \in Seq(Assistant)
    BY <1>6, EmptySeq DEF Deliver, ContextOK
  <2> QED BY <2>1, <2>2, <2>3 DEF ContextOK
<1>7. ASSUME ToolsDone PROVE ContextOK'
  <2>1. UNCHANGED <<pendingBash, pendingCustom, contexts>>
    BY <1>7 DEF ToolsDone, queueVars, contextVars, flagVars, waitVars, runVars, callerVars,
                history
  <2>2. trail' \in Seq(Assistant)
    BY <1>7, EmptySeq DEF ToolsDone, ContextOK
  <2>3. saved' \in Seq(Assistant)
    BY <1>7, EmptySeq DEF ToolsDone, ContextOK
  <2> QED BY <2>1, <2>2, <2>3 DEF ContextOK
<1>8. ASSUME TurnEnd PROVE ContextOK'
  <2>1. UNCHANGED <<pendingBash, contexts>>
    BY <1>8 DEF TurnEnd, AppendContext, queueVars, contextVars, flagVars, waitVars, runVars,
                callerVars, history
  <2>2. pendingCustom' \in Nat
    BY <1>8 DEF TurnEnd, AppendContext, queueVars, contextVars, flagVars, waitVars, runVars,
                callerVars, history, ContextOK
  <2>3. trail' \in Seq(Assistant)
    BY <1>8, EmptySeq DEF TurnEnd, AppendContext, ContextOK
  <2>4. saved' \in Seq(Assistant)
    BY <1>8, EmptySeq DEF TurnEnd, AppendContext, ContextOK
  <2> QED BY <2>1, <2>2, <2>3, <2>4 DEF ContextOK
<1>9. ASSUME NEW kind \in Assistant, Respond(kind) PROVE ContextOK'
  <2>1. UNCHANGED <<pendingBash, pendingCustom, contexts>>
    BY <1>9 DEF Respond, FlagsAfter, queueVars, contextVars, flagVars, waitVars, runVars,
                callerVars, history
  <2>2. trail' \in Seq(Assistant)
    BY <1>9, AppendProperties DEF Respond, FlagsAfter, ContextOK
  <2>3. saved' \in Seq(Assistant)
    BY <1>9, AppendProperties DEF Respond, FlagsAfter, ContextOK
  <2> QED BY <2>1, <2>2, <2>3 DEF ContextOK
<1>10. ASSUME CompactEnd PROVE ContextOK'
  <2>1. UNCHANGED <<pendingBash, pendingCustom, contexts>>
    BY <1>10 DEF CompactEnd, queueVars, contextVars, flagVars, waitVars, runVars, callerVars,
                 history
  <2>2. trail' \in Seq(Assistant)
    BY <1>10, KeptType DEF CompactEnd, ContextOK
  <2>3. saved' \in Seq(Assistant)
    BY <1>10, KeptType DEF CompactEnd, ContextOK
  <2> QED BY <2>1, <2>2, <2>3 DEF ContextOK
<1>11. ASSUME NEW c \in Callers, Prepare(c) PROVE ContextOK'
  <2>1. UNCHANGED <<contexts>>
    BY <1>11 DEF Prepare, Flush, AppendContext, queueVars, contextVars, flagVars, waitVars,
                 runVars, callerVars, history
  <2>2. pendingBash' \in Nat
    BY <1>11 DEF Prepare, Flush, AppendContext, queueVars, contextVars, flagVars, waitVars,
                 runVars, callerVars, history, ContextOK
  <2>3. pendingCustom' \in Nat
    BY <1>11 DEF Prepare, Flush, AppendContext, queueVars, contextVars, flagVars, waitVars,
                 runVars, callerVars, history, ContextOK
  <2>4. trail' \in Seq(Assistant)
    BY <1>11, EmptySeq DEF Prepare, Flush, AppendContext, ContextOK
  <2>5. saved' \in Seq(Assistant)
    BY <1>11, EmptySeq DEF Prepare, Flush, AppendContext, ContextOK
  <2> QED BY <2>1, <2>2, <2>3, <2>4, <2>5 DEF ContextOK
<1>12. ASSUME NEW c \in Callers, PreCheck(c) PROVE ContextOK'
  <2>1. UNCHANGED <<pendingBash, pendingCustom, contexts, saved>>
    BY <1>12 DEF PreCheck, StartCompaction, queueVars, contextVars, flagVars, waitVars, runVars,
                 callerVars, history
  <2>2. trail' \in Seq(Assistant)
    <3>1. trail' = trail \/ (trail # <<>> /\ trail' = Front(trail))
      BY <1>12 DEF PreCheck, StartCompaction
    <3> QED BY <3>1, FrontLast DEF ContextOK
  <2> QED BY <2>1, <2>2 DEF ContextOK
<1>13. ASSUME NEW c \in Callers, PreCompact(c) PROVE ContextOK'
  <2>1. UNCHANGED <<pendingBash, pendingCustom, contexts>>
    BY <1>13 DEF PreCompact, Compacted, queueVars, contextVars, flagVars, waitVars, runVars,
                 callerVars, history
  <2>2. trail' \in Seq(Assistant)
    BY <1>13, KeptType DEF PreCompact, Compacted, ContextOK
  <2>3. saved' \in Seq(Assistant)
    BY <1>13, KeptType DEF PreCompact, Compacted, ContextOK
  <2> QED BY <2>1, <2>2, <2>3 DEF ContextOK
<1>14. ASSUME NEW c \in Callers, StartRun(c) PROVE ContextOK'
  <2>1. UNCHANGED <<pendingBash, pendingCustom, contexts>>
    BY <1>14 DEF StartRun, RunAgentPrompt, BeginRun, queueVars, contextVars, flagVars, waitVars,
                 runVars, callerVars, history
  <2>2. trail' \in Seq(Assistant)
    BY <1>14 DEF StartRun, RunAgentPrompt, contextVars, ContextOK
  <2>3. saved' \in Seq(Assistant)
    BY <1>14 DEF StartRun, RunAgentPrompt, contextVars, ContextOK
  <2> QED BY <2>1, <2>2, <2>3 DEF ContextOK
<1>15. ASSUME NEW c \in Callers, PostRun(c) PROVE ContextOK'
  <2>1. UNCHANGED <<pendingBash, pendingCustom, contexts, saved>>
    BY <1>15 DEF PostRun, Retries, queueVars, contextVars, flagVars, waitVars, runVars,
                 callerVars, history
  <2>2. trail' \in Seq(Assistant)
    BY <1>15, FrontLast DEF PostRun, Retries, ContextOK
  <2> QED BY <2>1, <2>2 DEF ContextOK
<1>16. ASSUME NEW c \in Callers, PostCheck(c) PROVE ContextOK'
  <2>1. UNCHANGED <<pendingBash, pendingCustom, contexts, saved>>
    BY <1>16 DEF PostCheck, StartCompaction, queueVars, contextVars, flagVars, waitVars,
                 runVars, callerVars, history
  <2>2. trail' \in Seq(Assistant)
    <3>1. trail' = trail \/ (trail # <<>> /\ trail' = Front(trail))
      BY <1>16 DEF PostCheck, StartCompaction
    <3> QED BY <3>1, FrontLast DEF ContextOK
  <2> QED BY <2>1, <2>2 DEF ContextOK
<1>17. ASSUME NEW c \in Callers, CompactRetry(c) PROVE ContextOK'
  <2>1. UNCHANGED <<pendingBash, pendingCustom, contexts>>
    BY <1>17 DEF CompactRetry, Compacted, queueVars, contextVars, flagVars, waitVars, runVars,
                 callerVars, history
  <2>2. trail' \in Seq(Assistant)
    BY <1>17, KeptType DEF CompactRetry, Compacted, ContextOK
  <2>3. saved' \in Seq(Assistant)
    BY <1>17, KeptType DEF CompactRetry, Compacted, ContextOK
  <2> QED BY <2>1, <2>2, <2>3 DEF ContextOK
<1>18. ASSUME NEW c \in Callers, Finally(c) PROVE ContextOK'
  <2>1. UNCHANGED <<contexts>>
    BY <1>18 DEF Finally, Flush, AppendContext, queueVars, contextVars, flagVars, waitVars,
                 runVars, callerVars, history
  <2>2. pendingBash' \in Nat
    BY <1>18 DEF Finally, Flush, AppendContext, queueVars, contextVars, flagVars, waitVars,
                 runVars, callerVars, history, ContextOK
  <2>3. pendingCustom' \in Nat
    BY <1>18 DEF Finally, Flush, AppendContext, queueVars, contextVars, flagVars, waitVars,
                 runVars, callerVars, history, ContextOK
  <2>4. trail' \in Seq(Assistant)
    BY <1>18, EmptySeq DEF Finally, Flush, AppendContext, ContextOK
  <2>5. saved' \in Seq(Assistant)
    BY <1>18, EmptySeq DEF Finally, Flush, AppendContext, ContextOK
  <2> QED BY <2>1, <2>2, <2>3, <2>4, <2>5 DEF ContextOK
<1>19. CASE UNCHANGED vars
  BY <1>19 DEF vars, queueVars, contextVars, flagVars, waitVars, runVars, callerVars, history,
               ContextOK
<1> QED
  BY <1>1, <1>2, <1>3, <1>4, <1>5, <1>6, <1>7, <1>8, <1>9, <1>10, <1>11, <1>12, <1>13, <1>14,
     <1>15, <1>16, <1>17, <1>18, <1>19
  DEF Next, UserCall, RunStep, CallerStep

\* The callers.
LEMMA CallersStep ==
    ASSUME TypeOK, [Next]_vars
    PROVE  CallersOK'
<1> CallersOK /\ FlagsOK
  BY DEF TypeOK
<1>1. ASSUME ClearQueue \/ RecordBash \/ SendCustom \/ Deliver \/ Poll \/ ToolsDone \/ TurnEnd \/
          EmitAgentEnd \/ CompactEnd
      PROVE  CallersOK'
  BY <1>1 DEF ClearQueue, RecordBash, AppendContext, SendCustom, Deliver, Poll, ToolsDone,
              TurnEnd, EmitAgentEnd, CompactEnd, queueVars, contextVars, flagVars, waitVars,
              runVars, callerVars, history, CallersOK
<1>2. ASSUME NEW kind \in Assistant, Respond(kind) PROVE CallersOK'
  BY <1>2 DEF Respond, FlagsAfter, queueVars, contextVars, flagVars, waitVars, runVars,
              callerVars, history, CallersOK
<1>3. ASSUME NEW c \in Callers, Submit(c) PROVE CallersOK'
  <2>1. UNCHANGED <<held>>
    BY <1>3 DEF Submit, queueVars, contextVars, flagVars, waitVars, runVars, callerVars, history
  <2>2. pc' \in [Callers -> Phases]
    BY <1>3 DEF Submit, Go, Phases, Driving, CallersOK
  <2>3. text' \in [Callers -> Text]
    BY <1>3 DEF Submit, Text, CallersOK
  <2>4. submits' \in Nat
    BY <1>3 DEF Submit, CallersOK
  <2> QED BY <2>1, <2>2, <2>3, <2>4 DEF CallersOK
<1>4. ASSUME NEW c \in Callers, Trigger(c) PROVE CallersOK'
  <2>1. UNCHANGED <<held>>
    BY <1>4 DEF Trigger, RunAgentPrompt, BeginRun, queueVars, contextVars, flagVars, waitVars,
                runVars, callerVars, history
  <2>2. pc' \in [Callers -> Phases]
    BY <1>4 DEF Trigger, RunAgentPrompt, BeginRun, Go, Phases, Driving, CallersOK
  <2>3. submits' \in Nat
    BY <1>4 DEF Trigger, RunAgentPrompt, BeginRun, CallersOK
  <2>4. text' \in [Callers -> Text]
    BY <1>4 DEF Trigger, RunAgentPrompt, Text, CallersOK
  <2> QED BY <2>1, <2>2, <2>3, <2>4 DEF CallersOK
<1>5. ASSUME Steer PROVE CallersOK'
  <2>1. UNCHANGED <<pc, held, text>>
    BY <1>5 DEF Steer, queueVars, contextVars, flagVars, waitVars, runVars, callerVars, history
  <2>2. submits' \in Nat
    BY <1>5 DEF Steer, CallersOK
  <2> QED BY <2>1, <2>2 DEF CallersOK
<1>6. ASSUME SteerCustom PROVE CallersOK'
  <2>1. UNCHANGED <<pc, held, text>>
    BY <1>6 DEF SteerCustom, queueVars, contextVars, flagVars, waitVars, runVars, callerVars,
                history
  <2>2. submits' \in Nat
    BY <1>6 DEF SteerCustom, CallersOK
  <2> QED BY <2>1, <2>2 DEF CallersOK
<1>7. ASSUME Abort PROVE CallersOK'
  <2>1. UNCHANGED <<held, text, submits>>
    BY <1>7 DEF Abort, StopWork, queueVars, contextVars, flagVars, waitVars, runVars,
                callerVars, history
  <2>2. pc' \in [Callers -> Phases]
    BY <1>7 DEF Abort, StopWork, Go, Phases, Driving, CallersOK, FlagsOK
  <2> QED BY <2>1, <2>2 DEF CallersOK
<1>8. ASSUME Compact PROVE CallersOK'
  <2>1. UNCHANGED <<held, text, submits>>
    BY <1>8 DEF Compact, StopWork, queueVars, contextVars, flagVars, waitVars, runVars,
                callerVars, history
  <2>2. pc' \in [Callers -> Phases]
    BY <1>8 DEF Compact, StopWork, Go, Phases, Driving, CallersOK, FlagsOK
  <2> QED BY <2>1, <2>2 DEF CallersOK
<1>9. ASSUME FinishRun PROVE CallersOK'
  <2>1. UNCHANGED <<held, text, submits>>
    BY <1>9 DEF FinishRun, queueVars, contextVars, flagVars, waitVars, runVars, callerVars,
                history
  <2>2. pc' \in [Callers -> Phases]
    BY <1>9 DEF FinishRun, Go, Phases, Driving, CallersOK
  <2> QED BY <2>1, <2>2 DEF CallersOK
<1>10. ASSUME NEW c \in Callers, Join(c) PROVE CallersOK'
  <2>1. UNCHANGED <<held, submits>>
    BY <1>10 DEF Join, queueVars, contextVars, flagVars, waitVars, runVars, callerVars, history
  <2>2. pc' \in [Callers -> Phases]
    BY <1>10 DEF Join, Go, Phases, Driving, CallersOK
  <2>3. text' \in [Callers -> Text]
    BY <1>10 DEF Join, Text, CallersOK
  <2> QED BY <2>1, <2>2, <2>3 DEF CallersOK
<1>11. ASSUME NEW c \in Callers, Prepare(c) PROVE CallersOK'
  <2>1. UNCHANGED <<held, submits>>
    BY <1>11 DEF Prepare, Flush, AppendContext, queueVars, contextVars, flagVars, waitVars,
                 runVars, callerVars, history
  <2>2. pc' \in [Callers -> Phases]
    BY <1>11 DEF Prepare, Flush, AppendContext, Go, Phases, Driving, CallersOK
  <2>3. text' \in [Callers -> Text]
    BY <1>11 DEF Prepare, Flush, AppendContext, CallersOK
  <2> QED BY <2>1, <2>2, <2>3 DEF CallersOK
<1>12. ASSUME NEW c \in Callers, Unauthorized(c) PROVE CallersOK'
  <2>1. UNCHANGED <<held, submits>>
    BY <1>12 DEF Unauthorized, queueVars, contextVars, flagVars, waitVars, runVars, callerVars,
                 history
  <2>2. pc' \in [Callers -> Phases]
    BY <1>12 DEF Unauthorized, Go, Phases, Driving, CallersOK
  <2>3. text' \in [Callers -> Text]
    BY <1>12 DEF Unauthorized, Text, CallersOK
  <2> QED BY <2>1, <2>2, <2>3 DEF CallersOK
<1>13. ASSUME NEW c \in Callers, PreCheck(c) PROVE CallersOK'
  <2>1. UNCHANGED <<text, submits>>
    BY <1>13 DEF PreCheck, StartCompaction, queueVars, contextVars, flagVars, waitVars, runVars,
                 callerVars, history
  <2>2. pc' \in [Callers -> Phases]
    BY <1>13 DEF PreCheck, StartCompaction, Go, Phases, Driving, CallersOK
  <2>3. held' \in [Callers -> Assistant \cup {"none", "threshold"}]
    BY <1>13 DEF PreCheck, StartCompaction, Reasons, Assistant, Replies, Failed, CallersOK
  <2> QED BY <2>1, <2>2, <2>3 DEF CallersOK
<1>14. ASSUME NEW c \in Callers, PreCompact(c) PROVE CallersOK'
  <2>1. UNCHANGED <<text, submits>>
    BY <1>14 DEF PreCompact, Compacted, queueVars, contextVars, flagVars, waitVars, runVars,
                 callerVars, history
  <2>2. pc' \in [Callers -> Phases]
    BY <1>14 DEF PreCompact, Compacted, Go, Phases, Driving, CallersOK
  <2>3. held' \in [Callers -> Assistant \cup {"none", "threshold"}]
    BY <1>14 DEF PreCompact, Compacted, CallersOK
  <2> QED BY <2>1, <2>2, <2>3 DEF CallersOK
<1>15. ASSUME NEW c \in Callers, StartRun(c) PROVE CallersOK'
  <2>1. UNCHANGED <<held, submits>>
    BY <1>15 DEF StartRun, RunAgentPrompt, BeginRun, queueVars, contextVars, flagVars, waitVars,
                 runVars, callerVars, history
  <2>2. pc' \in [Callers -> Phases]
    BY <1>15 DEF StartRun, RunAgentPrompt, BeginRun, Go, Phases, Driving, CallersOK
  <2>3. text' \in [Callers -> Text]
    BY <1>15 DEF StartRun, RunAgentPrompt, Text, CallersOK
  <2> QED BY <2>1, <2>2, <2>3 DEF CallersOK
<1>16. ASSUME NEW c \in Callers, PostRun(c) PROVE CallersOK'
  <2>1. UNCHANGED <<text, submits>>
    BY <1>16 DEF PostRun, Retries, queueVars, contextVars, flagVars, waitVars, runVars,
                 callerVars, history
  <2>2. pc' \in [Callers -> Phases]
    BY <1>16 DEF PostRun, Retries, Go, Phases, Driving, CallersOK
  <2>3. held' \in [Callers -> Assistant \cup {"none", "threshold"}]
    BY <1>16 DEF PostRun, Retries, CallersOK, FlagsOK
  <2> QED BY <2>1, <2>2, <2>3 DEF CallersOK
<1>17. ASSUME NEW c \in Callers, SleepOver(c) PROVE CallersOK'
  <2>1. UNCHANGED <<text, submits>>
    BY <1>17 DEF SleepOver, queueVars, contextVars, flagVars, waitVars, runVars, callerVars,
                 history
  <2>2. pc' \in [Callers -> Phases]
    BY <1>17 DEF SleepOver, Go, Phases, Driving, CallersOK
  <2>3. held' \in [Callers -> Assistant \cup {"none", "threshold"}]
    BY <1>17 DEF SleepOver, CallersOK
  <2> QED BY <2>1, <2>2, <2>3 DEF CallersOK
<1>18. ASSUME NEW c \in Callers, PostCheck(c) PROVE CallersOK'
  <2>1. UNCHANGED <<text, submits>>
    BY <1>18 DEF PostCheck, StartCompaction, queueVars, contextVars, flagVars, waitVars,
                 runVars, callerVars, history
  <2>2. pc' \in [Callers -> Phases]
    BY <1>18 DEF PostCheck, StartCompaction, Go, Phases, Driving, CallersOK
  <2>3. held' \in [Callers -> Assistant \cup {"none", "threshold"}]
    BY <1>18 DEF PostCheck, StartCompaction, Reasons, Assistant, Replies, Failed, CallersOK
  <2> QED BY <2>1, <2>2, <2>3 DEF CallersOK
<1>19. ASSUME NEW c \in Callers, CompactRetry(c) PROVE CallersOK'
  <2>1. UNCHANGED <<text, submits>>
    BY <1>19 DEF CompactRetry, Compacted, queueVars, contextVars, flagVars, waitVars, runVars,
                 callerVars, history
  <2>2. pc' \in [Callers -> Phases]
    BY <1>19 DEF CompactRetry, Compacted, Go, Phases, Driving, CallersOK
  <2>3. held' \in [Callers -> Assistant \cup {"none", "threshold"}]
    BY <1>19 DEF CompactRetry, Compacted, CallersOK
  <2> QED BY <2>1, <2>2, <2>3 DEF CallersOK
<1>20. ASSUME NEW c \in Callers, CompactFails(c) PROVE CallersOK'
  <2>1. UNCHANGED <<text, submits>>
    BY <1>20 DEF CompactFails, queueVars, contextVars, flagVars, waitVars, runVars, callerVars,
                 history
  <2>2. pc' \in [Callers -> Phases]
    BY <1>20 DEF CompactFails, Go, Phases, Driving, CallersOK
  <2>3. held' \in [Callers -> Assistant \cup {"none", "threshold"}]
    BY <1>20 DEF CompactFails, CallersOK
  <2> QED BY <2>1, <2>2, <2>3 DEF CallersOK
<1>21. ASSUME NEW c \in Callers, Continue(c) PROVE CallersOK'
  <2>1. UNCHANGED <<held, text, submits>>
    BY <1>21 DEF Continue, BeginRun, queueVars, contextVars, flagVars, waitVars, runVars,
                 callerVars, history
  <2>2. pc' \in [Callers -> Phases]
    BY <1>21 DEF Continue, BeginRun, Go, Phases, Driving, CallersOK
  <2> QED BY <2>1, <2>2 DEF CallersOK
<1>22. ASSUME NEW c \in Callers, Finally(c) PROVE CallersOK'
  <2>1. UNCHANGED <<held, text, submits>>
    BY <1>22 DEF Finally, Flush, AppendContext, queueVars, contextVars, flagVars, waitVars,
                 runVars, callerVars, history
  <2>2. pc' \in [Callers -> Phases]
    BY <1>22 DEF Finally, Flush, AppendContext, Go, Phases, Driving, CallersOK
  <2> QED BY <2>1, <2>2 DEF CallersOK
<1>23. ASSUME NEW c \in Callers, Settled(c) PROVE CallersOK'
  <2>1. UNCHANGED <<held, text, submits>>
    BY <1>23 DEF Settled, queueVars, contextVars, flagVars, waitVars, runVars, callerVars,
                 history
  <2>2. pc' \in [Callers -> Phases]
    BY <1>23 DEF Settled, Go, Phases, Driving, CallersOK
  <2> QED BY <2>1, <2>2 DEF CallersOK
<1>24. CASE UNCHANGED vars
  BY <1>24 DEF vars, queueVars, contextVars, flagVars, waitVars, runVars, callerVars, history,
               CallersOK
<1> QED
  BY <1>1, <1>2, <1>3, <1>4, <1>5, <1>6, <1>7, <1>8, <1>9, <1>10, <1>11, <1>12, <1>13, <1>14,
     <1>15, <1>16, <1>17, <1>18, <1>19, <1>20, <1>21, <1>22, <1>23, <1>24
  DEF Next, UserCall, RunStep, CallerStep

\* The queues.
LEMMA QueuesStep ==
    ASSUME TypeOK, [Next]_vars
    PROVE  QueuesOK'
<1> QueuesOK /\ CallersOK
  BY DEF TypeOK
<1>1. ASSUME NEW c \in Callers, Submit(c) \/ Prepare(c) \/ Unauthorized(c) \/ PreCheck(c) \/
                             PreCompact(c) \/ PostRun(c) \/ SleepOver(c) \/ PostCheck(c) \/
                             CompactRetry(c)
      PROVE  QueuesOK'
  BY <1>1 DEF Submit, Prepare, Flush, AppendContext, Unauthorized, PreCheck, StartCompaction,
              PreCompact, Compacted, PostRun, Retries, SleepOver, PostCheck, CompactRetry,
              queueVars, contextVars, flagVars, waitVars, runVars, callerVars, history, QueuesOK
<1>2. ASSUME NEW c \in Callers, CompactFails(c) \/ Finally(c) \/ Settled(c) PROVE QueuesOK'
  BY <1>2 DEF CompactFails, Finally, Flush, AppendContext, Settled, queueVars, contextVars,
              flagVars, waitVars, runVars, callerVars, history, QueuesOK
<1>3. ASSUME RecordBash \/ SendCustom \/ Abort \/ Compact \/ ToolsDone \/ TurnEnd \/ EmitAgentEnd
          \/ FinishRun \/ CompactEnd
      PROVE  QueuesOK'
  BY <1>3 DEF RecordBash, AppendContext, SendCustom, Abort, StopWork, Compact, ToolsDone,
              TurnEnd, EmitAgentEnd, FinishRun, CompactEnd, queueVars, contextVars, flagVars,
              waitVars, runVars, callerVars, history, QueuesOK
<1>4. ASSUME NEW kind \in Assistant, Respond(kind) PROVE QueuesOK'
  BY <1>4 DEF Respond, FlagsAfter, queueVars, contextVars, flagVars, waitVars, runVars,
              callerVars, history, QueuesOK
<1>5. ASSUME NEW c \in Callers, Trigger(c) PROVE QueuesOK'
  <2>1. UNCHANGED <<steeringMessages, followUpMessages, steeringQueue, followUpQueue>>
    BY <1>5 DEF Trigger, RunAgentPrompt, BeginRun, queueVars, contextVars, flagVars, waitVars,
                runVars, callerVars, history
  <2>2. inFlight' \in Seq(Message)
    <3>1. <<CustomMessage>> \in Seq(Message)
      BY DEF Message
    <3> QED BY <1>5, <3>1 DEF Trigger, RunAgentPrompt, BeginRun, QueuesOK
  <2> QED BY <2>1, <2>2 DEF QueuesOK
<1>6. ASSUME Steer PROVE QueuesOK'
  <2>1. PICK m \in Texts : QueueSteer(m) \/ QueueFollowUp(m)
    BY <1>6 DEF Steer
  <2>2. m \in Text
    BY DEF Text
  <2> QED BY <2>1, <2>2, Queued
<1>7. ASSUME SteerCustom PROVE QueuesOK'
  <2>1. CustomMessage \in Message
    BY DEF Message
  <2>2. /\ Append(steeringQueue, CustomMessage) \in Seq(Message)
        /\ Append(followUpQueue, CustomMessage) \in Seq(Message)
    BY <2>1, AppendProperties DEF QueuesOK
  <2>3. UNCHANGED <<steeringMessages, followUpMessages, inFlight>>
    BY <1>7 DEF SteerCustom
  <2>4. steeringQueue' \in Seq(Message) /\ followUpQueue' \in Seq(Message)
    BY <1>7, <2>2 DEF SteerCustom, QueuesOK
  <2> QED BY <2>3, <2>4 DEF QueuesOK
<1>8. ASSUME ClearQueue PROVE QueuesOK'
  <2>1. UNCHANGED <<inFlight>>
    BY <1>8 DEF ClearQueue, queueVars, contextVars, flagVars, waitVars, runVars, callerVars,
                history
  <2>2. steeringMessages' \in Seq(Text)
    BY <1>8, EmptySeq DEF ClearQueue, QueuesOK
  <2>3. followUpMessages' \in Seq(Text)
    BY <1>8, EmptySeq DEF ClearQueue, QueuesOK
  <2>4. steeringQueue' \in Seq(Message)
    BY <1>8, EmptySeq DEF ClearQueue, QueuesOK
  <2>5. followUpQueue' \in Seq(Message)
    BY <1>8, EmptySeq DEF ClearQueue, QueuesOK
  <2> QED BY <2>1, <2>2, <2>3, <2>4, <2>5 DEF QueuesOK
<1>9. ASSUME Deliver PROVE QueuesOK'
  <2>1. UNCHANGED <<steeringQueue, followUpQueue>>
    BY <1>9 DEF Deliver, TakeOff, queueVars, contextVars, flagVars, waitVars, runVars, callerVars,
                history
  <2>2. steeringMessages' \in Seq(Text)
    BY <1>9, RemovedType DEF Deliver, TakeOff, QueuesOK
  <2>3. followUpMessages' \in Seq(Text)
    BY <1>9, RemovedType DEF Deliver, TakeOff, QueuesOK
  <2>4. inFlight' \in Seq(Message)
    BY <1>9, HeadTailProperties DEF Deliver, QueuesOK
  <2> QED BY <2>1, <2>2, <2>3, <2>4 DEF QueuesOK
<1>10. ASSUME Poll PROVE QueuesOK'
  <2>1. UNCHANGED <<steeringMessages, followUpMessages>>
    BY <1>10 DEF Poll, queueVars, contextVars, flagVars, waitVars, runVars, callerVars, history
  <2>2. steeringQueue' \in Seq(Message)
    BY <1>10, Drained DEF Poll, TakeSteering, TakeFollowUps, TakeNothing, QueuesOK
  <2>3. followUpQueue' \in Seq(Message)
    BY <1>10, Drained DEF Poll, TakeSteering, TakeFollowUps, TakeNothing, QueuesOK
  <2>4. inFlight' \in Seq(Message)
    BY <1>10, Drained DEF Poll, TakeSteering, TakeFollowUps, TakeNothing, QueuesOK
  <2> QED BY <2>1, <2>2, <2>3, <2>4 DEF QueuesOK
<1>11. ASSUME NEW c \in Callers, Join(c) PROVE QueuesOK'
  <2>1. text[c] \in Text
    BY DEF CallersOK
  <2>2. QueueSteer(text[c]) \/ QueueFollowUp(text[c]) \/ UNCHANGED queueVars
    BY <1>11 DEF Join
  <2> QED BY <2>1, <2>2, Queued
<1>12. ASSUME NEW c \in Callers, StartRun(c) PROVE QueuesOK'
  <2>1. UNCHANGED <<steeringMessages, followUpMessages, steeringQueue, followUpQueue>>
    BY <1>12 DEF StartRun, RunAgentPrompt, BeginRun, queueVars, contextVars, flagVars, waitVars,
                 runVars, callerVars, history
  <2>2. inFlight' \in Seq(Message)
    <3>1. <<text[c]>> \in Seq(Message)
      BY DEF CallersOK, Message
    <3> QED BY <1>12, <3>1 DEF StartRun, RunAgentPrompt, BeginRun, QueuesOK
  <2> QED BY <2>1, <2>2 DEF QueuesOK
<1>13. ASSUME NEW c \in Callers, Continue(c) PROVE QueuesOK'
  <2>1. UNCHANGED <<steeringMessages, followUpMessages>>
    BY <1>13 DEF Continue, BeginRun, queueVars, contextVars, flagVars, waitVars, runVars,
                 callerVars, history
  <2>2. steeringQueue' \in Seq(Message)
    BY <1>13, Drained DEF Continue, BeginRun, TakeSteering, TakeFollowUps, TakeNothing, QueuesOK
  <2>3. followUpQueue' \in Seq(Message)
    BY <1>13, Drained DEF Continue, BeginRun, TakeSteering, TakeFollowUps, TakeNothing, QueuesOK
  <2>4. inFlight' \in Seq(Message)
    <3>1. <<>> \in Seq(Message)
      BY EmptySeq
    <3> QED BY <1>13, <3>1, Drained DEF Continue, BeginRun, QueuesOK
  <2> QED BY <2>1, <2>2, <2>3, <2>4 DEF QueuesOK
<1>14. CASE UNCHANGED vars
  BY <1>14 DEF vars, queueVars, contextVars, flagVars, waitVars, runVars, callerVars, history,
               QueuesOK
<1> QED
  BY <1>1, <1>2, <1>3, <1>4, <1>5, <1>6, <1>7, <1>8, <1>9, <1>10, <1>11, <1>12, <1>13, <1>14
  DEF Next, UserCall, RunStep, CallerStep

\* The callers and what they do: the one that awaits the run is its owner, and only
\* a call that sleeps can be woken.
ControlInv ==
    /\ \A c \in Callers : pc[c] = "running" <=> (run # "none" /\ owner = c)
    /\ sleeper # NoCaller => pc[sleeper] = "sleeping"

\* Every step keeps it so.
LEMMA ControlStep ==
    ASSUME TypeOK, ControlInv, [Next]_vars
    PROVE  ControlInv'
<1> SessionAssumption
  BY SessionAssumption
<1> CallersOK /\ FlagsOK /\ RunOK
  BY DEF TypeOK
<1>1. ASSUME Steer \/ SteerCustom \/ ClearQueue \/ RecordBash \/ SendCustom \/ Deliver \/
          CompactEnd
      PROVE  ControlInv'
  BY <1>1 DEF Steer, SteerCustom, ClearQueue, RecordBash, AppendContext, SendCustom, Deliver,
              CompactEnd, queueVars, contextVars, flagVars, waitVars, runVars, callerVars,
              history, ControlInv
<1>2. ASSUME NEW c \in Callers, Submit(c) PROVE ControlInv'
  <2>1. UNCHANGED <<run, owner, sleeper>>
    BY <1>2 DEF Submit, queueVars, contextVars, flagVars, waitVars, runVars, callerVars, history
  <2> QED BY <1>2, <2>1 DEF Submit, Go, runVars, flagVars, queueVars, callerVars, CallersOK,
                            FlagsOK, RunOK, SessionAssumption, ControlInv
<1>3. ASSUME NEW c \in Callers, Trigger(c) PROVE ControlInv'
  <2>1. UNCHANGED <<sleeper>>
    BY <1>3 DEF Trigger, RunAgentPrompt, BeginRun, queueVars, contextVars, flagVars, waitVars,
                runVars, callerVars, history
  <2> QED BY <1>3, <2>1 DEF Trigger, RunAgentPrompt, BeginRun, Go, runVars, flagVars, queueVars,
                            callerVars, CallersOK, FlagsOK, RunOK, SessionAssumption,
                            ControlInv
<1>4. ASSUME Abort PROVE ControlInv'
  <2>1. UNCHANGED <<run, owner>>
    BY <1>4 DEF Abort, StopWork, queueVars, contextVars, flagVars, waitVars, runVars,
                callerVars, history
  <2> QED BY <1>4, <2>1 DEF Abort, StopWork, Go, runVars, flagVars, queueVars, callerVars,
                            CallersOK, FlagsOK, RunOK, SessionAssumption, ControlInv
<1>5. ASSUME Compact PROVE ControlInv'
  <2>1. UNCHANGED <<run, owner>>
    BY <1>5 DEF Compact, StopWork, queueVars, contextVars, flagVars, waitVars, runVars,
                callerVars, history
  <2> QED BY <1>5, <2>1 DEF Compact, StopWork, Go, runVars, flagVars, queueVars, callerVars,
                            CallersOK, FlagsOK, RunOK, SessionAssumption, ControlInv
<1>6. ASSUME Poll PROVE ControlInv'
  <2>1. UNCHANGED <<pc, owner, sleeper>>
    BY <1>6 DEF Poll, queueVars, contextVars, flagVars, waitVars, runVars, callerVars, history
  <2> QED BY <1>6, <2>1 DEF Poll, Go, runVars, flagVars, queueVars, callerVars, CallersOK,
                            FlagsOK, RunOK, SessionAssumption, ControlInv
<1>7. ASSUME ToolsDone PROVE ControlInv'
  <2>1. UNCHANGED <<pc, owner, sleeper>>
    BY <1>7 DEF ToolsDone, queueVars, contextVars, flagVars, waitVars, runVars, callerVars,
                history
  <2> QED BY <1>7, <2>1 DEF ToolsDone, Go, runVars, flagVars, queueVars, callerVars, CallersOK,
                            FlagsOK, RunOK, SessionAssumption, ControlInv
<1>8. ASSUME TurnEnd PROVE ControlInv'
  <2>1. UNCHANGED <<pc, owner, sleeper>>
    BY <1>8 DEF TurnEnd, AppendContext, queueVars, contextVars, flagVars, waitVars, runVars,
                callerVars, history
  <2> QED BY <1>8, <2>1 DEF TurnEnd, AppendContext, Go, runVars, flagVars, queueVars,
                            callerVars, CallersOK, FlagsOK, RunOK, SessionAssumption,
                            ControlInv
<1>9. ASSUME EmitAgentEnd PROVE ControlInv'
  <2>1. UNCHANGED <<pc, owner, sleeper>>
    BY <1>9 DEF EmitAgentEnd, queueVars, contextVars, flagVars, waitVars, runVars, callerVars,
                history
  <2> QED BY <1>9, <2>1 DEF EmitAgentEnd, Go, runVars, flagVars, queueVars, callerVars,
                            CallersOK, FlagsOK, RunOK, SessionAssumption, ControlInv
<1>10. ASSUME FinishRun PROVE ControlInv'
  <2>1. UNCHANGED <<sleeper>>
    BY <1>10 DEF FinishRun, queueVars, contextVars, flagVars, waitVars, runVars, callerVars,
                 history
  <2> QED BY <1>10, <2>1 DEF FinishRun, Go, runVars, flagVars, queueVars, callerVars, CallersOK,
                             FlagsOK, RunOK, SessionAssumption, ControlInv
<1>11. ASSUME NEW kind \in Assistant, Respond(kind) PROVE ControlInv'
  <2>1. UNCHANGED <<pc, owner, sleeper>>
    BY <1>11 DEF Respond, FlagsAfter, queueVars, contextVars, flagVars, waitVars, runVars,
                 callerVars, history
  <2> QED BY <1>11, <2>1 DEF Respond, FlagsAfter, Go, runVars, flagVars, queueVars, callerVars,
                             CallersOK, FlagsOK, RunOK, SessionAssumption, ControlInv
<1>12. ASSUME NEW c \in Callers, Join(c) PROVE ControlInv'
  <2>1. UNCHANGED <<run, owner, sleeper>>
    BY <1>12 DEF Join, queueVars, contextVars, flagVars, waitVars, runVars, callerVars, history
  <2> QED BY <1>12, <2>1 DEF Join, Go, runVars, flagVars, queueVars, callerVars, CallersOK,
                             FlagsOK, RunOK, SessionAssumption, ControlInv
<1>13. ASSUME NEW c \in Callers, Prepare(c) PROVE ControlInv'
  <2>1. UNCHANGED <<run, owner, sleeper>>
    BY <1>13 DEF Prepare, Flush, AppendContext, queueVars, contextVars, flagVars, waitVars,
                 runVars, callerVars, history
  <2> QED BY <1>13, <2>1 DEF Prepare, Flush, AppendContext, Go, runVars, flagVars, queueVars,
                             callerVars, CallersOK, FlagsOK, RunOK, SessionAssumption,
                             ControlInv
<1>14. ASSUME NEW c \in Callers, Unauthorized(c) PROVE ControlInv'
  <2>1. UNCHANGED <<run, owner, sleeper>>
    BY <1>14 DEF Unauthorized, queueVars, contextVars, flagVars, waitVars, runVars, callerVars,
                 history
  <2> QED BY <1>14, <2>1 DEF Unauthorized, Go, runVars, flagVars, queueVars, callerVars,
                             CallersOK, FlagsOK, RunOK, SessionAssumption, ControlInv
<1>15. ASSUME NEW c \in Callers, PreCheck(c) PROVE ControlInv'
  <2>1. UNCHANGED <<run, owner, sleeper>>
    BY <1>15 DEF PreCheck, StartCompaction, queueVars, contextVars, flagVars, waitVars, runVars,
                 callerVars, history
  <2> QED BY <1>15, <2>1 DEF PreCheck, StartCompaction, Go, runVars, flagVars, queueVars,
                             callerVars, CallersOK, FlagsOK, RunOK, SessionAssumption,
                             ControlInv
<1>16. ASSUME NEW c \in Callers, PreCompact(c) PROVE ControlInv'
  <2>1. UNCHANGED <<run, owner, sleeper>>
    BY <1>16 DEF PreCompact, Compacted, queueVars, contextVars, flagVars, waitVars, runVars,
                 callerVars, history
  <2> QED BY <1>16, <2>1 DEF PreCompact, Compacted, Go, runVars, flagVars, queueVars,
                             callerVars, CallersOK, FlagsOK, RunOK, SessionAssumption,
                             ControlInv
<1>17. ASSUME NEW c \in Callers, StartRun(c) PROVE ControlInv'
  <2>1. UNCHANGED <<sleeper>>
    BY <1>17 DEF StartRun, RunAgentPrompt, BeginRun, queueVars, contextVars, flagVars, waitVars,
                 runVars, callerVars, history
  <2> QED BY <1>17, <2>1 DEF StartRun, RunAgentPrompt, BeginRun, Go, runVars, flagVars,
                             queueVars, callerVars, CallersOK, FlagsOK, RunOK,
                             SessionAssumption, ControlInv
<1>18. ASSUME NEW c \in Callers, PostRun(c) PROVE ControlInv'
  <2>1. UNCHANGED <<run, owner>>
    BY <1>18 DEF PostRun, Retries, queueVars, contextVars, flagVars, waitVars, runVars,
                 callerVars, history
  <2> QED BY <1>18, <2>1 DEF PostRun, Retries, Go, runVars, flagVars, queueVars, callerVars,
                             CallersOK, FlagsOK, RunOK, SessionAssumption, ControlInv
<1>19. ASSUME NEW c \in Callers, SleepOver(c) PROVE ControlInv'
  <2>1. UNCHANGED <<run, owner>>
    BY <1>19 DEF SleepOver, queueVars, contextVars, flagVars, waitVars, runVars, callerVars,
                 history
  <2> QED BY <1>19, <2>1 DEF SleepOver, Go, runVars, flagVars, queueVars, callerVars, CallersOK,
                             FlagsOK, RunOK, SessionAssumption, ControlInv
<1>20. ASSUME NEW c \in Callers, PostCheck(c) PROVE ControlInv'
  <2>1. UNCHANGED <<run, owner, sleeper>>
    BY <1>20 DEF PostCheck, StartCompaction, queueVars, contextVars, flagVars, waitVars,
                 runVars, callerVars, history
  <2>2. \E phase \in {"compacting", "continuing", "finally"} : pc' = [pc EXCEPT ![c] = phase]
    BY <1>20 DEF PostCheck, StartCompaction, Go
  <2>3. pc[c] = "checking"
    BY <1>20 DEF PostCheck
  <2> QED BY <2>1, <2>2, <2>3 DEF CallersOK, ControlInv
<1>21. ASSUME NEW c \in Callers, CompactRetry(c) PROVE ControlInv'
  <2>1. UNCHANGED <<run, owner, sleeper>>
    BY <1>21 DEF CompactRetry, Compacted, queueVars, contextVars, flagVars, waitVars, runVars,
                 callerVars, history
  <2> QED BY <1>21, <2>1 DEF CompactRetry, Compacted, Go, runVars, flagVars, queueVars,
                             callerVars, CallersOK, FlagsOK, RunOK, SessionAssumption,
                             ControlInv
<1>22. ASSUME NEW c \in Callers, CompactFails(c) PROVE ControlInv'
  <2>1. UNCHANGED <<run, owner, sleeper>>
    BY <1>22 DEF CompactFails, queueVars, contextVars, flagVars, waitVars, runVars, callerVars,
                 history
  <2> QED BY <1>22, <2>1 DEF CompactFails, Go, runVars, flagVars, queueVars, callerVars,
                             CallersOK, FlagsOK, RunOK, SessionAssumption, ControlInv
<1>23. ASSUME NEW c \in Callers, Continue(c) PROVE ControlInv'
  <2>1. UNCHANGED <<sleeper>>
    BY <1>23 DEF Continue, BeginRun, queueVars, contextVars, flagVars, waitVars, runVars,
                 callerVars, history
  <2> QED BY <1>23, <2>1 DEF Continue, BeginRun, Go, runVars, flagVars, queueVars, callerVars,
                             CallersOK, FlagsOK, RunOK, SessionAssumption, ControlInv
<1>24. ASSUME NEW c \in Callers, Finally(c) PROVE ControlInv'
  <2>1. UNCHANGED <<run, owner, sleeper>>
    BY <1>24 DEF Finally, Flush, AppendContext, queueVars, contextVars, flagVars, waitVars,
                 runVars, callerVars, history
  <2> QED BY <1>24, <2>1 DEF Finally, Flush, AppendContext, Go, runVars, flagVars, queueVars,
                             callerVars, CallersOK, FlagsOK, RunOK, SessionAssumption,
                             ControlInv
<1>25. ASSUME NEW c \in Callers, Settled(c) PROVE ControlInv'
  <2>1. UNCHANGED <<run, owner, sleeper>>
    BY <1>25 DEF Settled, queueVars, contextVars, flagVars, waitVars, runVars, callerVars,
                 history
  <2> QED BY <1>25, <2>1 DEF Settled, Go, runVars, flagVars, queueVars, callerVars, CallersOK,
                             FlagsOK, RunOK, SessionAssumption, ControlInv
<1>26. CASE UNCHANGED vars
  BY <1>26 DEF vars, queueVars, contextVars, flagVars, waitVars, runVars, callerVars, history,
               ControlInv
<1> QED
  BY <1>1, <1>2, <1>3, <1>4, <1>5, <1>6, <1>7, <1>8, <1>9, <1>10, <1>11, <1>12, <1>13, <1>14,
     <1>15, <1>16, <1>17, <1>18, <1>19, <1>20, <1>21, <1>22, <1>23, <1>24, <1>25, <1>26
  DEF Next, UserCall, RunStep, CallerStep

\* The types and the callers together.
LEMMA ControlHolds == Spec => [](TypeOK /\ ControlInv)
<1>1. Init => TypeOK /\ ControlInv
  <2> SUFFICES ASSUME Init PROVE TypeOK /\ ControlInv
    OBVIOUS
  <2>1. FlagsOK
    <3>1. 0 \in 0 .. MaxRetries
      BY SessionAssumption DEF SessionAssumption
    <3>2. retryAttempt \in 0 .. MaxRetries
      BY <3>1 DEF Init
    <3> QED BY <3>2 DEF Init, FlagsOK
  <2>2. QueuesOK
    BY EmptySeq DEF Init, QueuesOK
  <2>3. ContextOK
    BY EmptySeq DEF Init, ContextOK
  <2>4. RunOK
    BY DEF Init, RunOK, RunPhases
  <2>5. CallersOK
    BY DEF Init, CallersOK, Phases, Text
  <2>6. ControlInv
    BY DEF Init, ControlInv
  <2> QED BY <2>1, <2>2, <2>3, <2>4, <2>5, <2>6 DEF TypeOK
<1>2. TypeOK /\ ControlInv /\ [Next]_vars => (TypeOK /\ ControlInv)'
  <2> SUFFICES ASSUME TypeOK, ControlInv, [Next]_vars PROVE (TypeOK /\ ControlInv)'
    OBVIOUS
  <2>1. FlagsOK' /\ ContextOK' /\ RunOK' /\ CallersOK'
    BY FlagsStep, ContextStep, RunStepTypes, CallersStep
  <2>2. QueuesOK'
    BY QueuesStep
  <2>3. ControlInv'
    BY ControlStep
  <2> QED BY <2>1, <2>2, <2>3 DEF TypeOK
<1> QED
  BY <1>1, <1>2, PTL DEF Spec

\* Every variable of the session keeps its type.
THEOREM TypeCorrect == Spec => []TypeOK
BY ControlHolds, PTL

-----------------------------------------------------------------------------
(* Who drives the agent. *)

Busy == Driving \cup {"finally"}

\* While no two calls have passed the isStreaming check together, one call at most
\* drives the agent, the session is streaming as long as one does, and a
\* context-only message that comes meanwhile is put off.
SingleInv ==
    /\ isAgentRunActive <=> \E c \in Callers : pc[c] \in Busy
    /\ \A c, d \in Callers : pc[c] \in Busy /\ pc[d] \in Busy => c = d
    /\ ~split

\* And whatever calls did, the session streams only while one of them drives it.
DrivenInv == isAgentRunActive => \E c \in Callers : pc[c] \in Busy

\* A call that does not drive the agent goes on.
LEMMA StillDriven ==
    ASSUME CallersOK, DrivenInv, UNCHANGED isAgentRunActive, NEW c \in Callers,
           NEW phase \in Phases, pc[c] \notin Busy, Go(c, phase)
    PROVE  DrivenInv'
<1>1. \A d \in Callers : pc[d] \in Busy => pc'[d] \in Busy
  BY DEF Go, CallersOK
<1> QED
  BY <1>1 DEF DrivenInv

\* Every step keeps it so: the flag is cleared by the last thing a driver does.
LEMMA DrivenStep ==
    ASSUME TypeOK, ControlInv, DrivenInv, [Next]_vars
    PROVE  DrivenInv'
<1> CallersOK /\ FlagsOK /\ RunOK
  BY DEF TypeOK
<1>1. CASE \E c \in Callers, phase \in Busy : Go(c, phase)
  BY <1>1 DEF Go, CallersOK, DrivenInv
<1>2. CASE isAgentRunActive' = FALSE
  BY <1>2 DEF DrivenInv
<1>3. CASE UNCHANGED <<pc, isAgentRunActive>>
  BY <1>3 DEF DrivenInv
<1>4. ASSUME NEW c \in Callers, Submit(c) \/ Join(c) \/ Prepare(c) \/ Unauthorized(c) \/
                             PreCheck(c) \/ PreCompact(c) \/ Settled(c)
      PROVE  DrivenInv'
  <2>1. UNCHANGED isAgentRunActive
    BY <1>4 DEF Submit, Join, Prepare, Unauthorized, PreCheck, PreCompact, Settled
  <2>2. /\ pc[c] \in {"idle", "input", "auth", "precompacting", "settling"}
        /\ \E phase \in {"input", "idle", "auth", "precompacting", "before"} : Go(c, phase)
    BY <1>4 DEF Submit, Join, Prepare, Unauthorized, PreCheck, StartCompaction, PreCompact, Settled
  <2>3. PICK phase \in {"input", "idle", "auth", "precompacting", "before"} : Go(c, phase)
    BY <2>2
  <2>4. phase \in Phases /\ pc[c] \notin Busy
    BY <2>2 DEF Phases, Busy, Driving
  <2> QED BY <2>1, <2>3, <2>4, StillDriven
<1>5. ASSUME NEW c \in Callers, PostRun(c) \/ SleepOver(c) \/ PostCheck(c) \/ CompactRetry(c)
                             \/ CompactFails(c) \/ Continue(c)
      PROVE  DrivenInv'
  <2>1. UNCHANGED isAgentRunActive
    BY <1>5 DEF PostRun, SleepOver, PostCheck, CompactRetry, CompactFails, Continue
  <2>2. \E phase \in Busy : Go(c, phase)
    BY <1>5 DEF PostRun, SleepOver, PostCheck, StartCompaction, CompactRetry, CompactFails,
                Continue, Busy, Driving
  <2> QED BY <1>1, <2>2
<1>6. ASSUME NEW c \in Callers, Trigger(c) \/ StartRun(c) PROVE DrivenInv'
  <2>1. \E phase \in Busy : Go(c, phase)
    BY <1>6 DEF Trigger, StartRun, RunAgentPrompt, Busy, Driving
  <2> QED BY <1>1, <2>1
<1>7. ASSUME NEW c \in Callers, Finally(c) PROVE DrivenInv'
  BY <1>2, <1>7 DEF Finally
<1>8. ASSUME FinishRun PROVE DrivenInv'
  <2>1. owner \in Callers /\ Go(owner, "post") /\ "post" \in Busy
    BY <1>8 DEF FinishRun, RunOK, Busy, Driving
  <2> QED BY <1>1, <2>1
<1>9. ASSUME Abort \/ Compact PROVE DrivenInv'
  <2>1. UNCHANGED isAgentRunActive /\ (UNCHANGED pc \/ (sleeper # NoCaller /\ Go(sleeper, "checking")))
    BY <1>9 DEF Abort, Compact, StopWork
  <2>2. sleeper # NoCaller => sleeper \in Callers
    BY DEF FlagsOK
  <2>3. "checking" \in Busy
    BY DEF Busy, Driving
  <2> QED BY <1>1, <1>3, <2>1, <2>2, <2>3
<1>10. ASSUME Steer \/ SteerCustom \/ ClearQueue \/ RecordBash \/ SendCustom \/ Deliver \/ Poll
           \/ ToolsDone \/ TurnEnd \/ EmitAgentEnd \/ CompactEnd
      PROVE  DrivenInv'
  <2>1. UNCHANGED <<pc, isAgentRunActive>>
    BY <1>10 DEF Steer, SteerCustom, ClearQueue, RecordBash, SendCustom, Deliver, Poll,
                 ToolsDone, TurnEnd, EmitAgentEnd, CompactEnd, callerVars
  <2> QED BY <1>3, <2>1
<1>11. ASSUME NEW kind \in Assistant, Respond(kind) PROVE DrivenInv'
  BY <1>3, <1>11 DEF Respond, callerVars
<1>12. CASE UNCHANGED vars
  BY <1>3, <1>12 DEF vars, callerVars
<1> QED
  BY <1>4, <1>5, <1>6, <1>7, <1>8, <1>9, <1>10, <1>11, <1>12
  DEF Next, UserCall, RunStep, CallerStep

\* It holds from the start.
LEMMA DrivenHolds == Spec => []DrivenInv
<1>1. Init => DrivenInv
  BY DEF Init, DrivenInv
<1>2. TypeOK /\ ControlInv /\ DrivenInv /\ [Next]_vars => DrivenInv'
  BY DrivenStep
<1> QED
  BY <1>1, <1>2, ControlHolds, PTL DEF Spec

\* The race is never forgotten.
LEMMA RacedStays ==
    ASSUME [Next]_vars, raced
    PROVE  raced'
<1>1. ASSUME NEW c \in Callers, Submit(c) \/ Join(c) \/ Prepare(c) \/ Unauthorized(c) \/
                             PreCheck(c) \/ PreCompact(c) \/ PostRun(c) \/ SleepOver(c) \/
                             PostCheck(c)
      PROVE  raced'
  BY <1>1 DEF Submit, Join, Prepare, Flush, AppendContext, Unauthorized, PreCheck,
              StartCompaction, PreCompact, Compacted, PostRun, Retries, SleepOver, PostCheck,
              queueVars, contextVars, flagVars, waitVars, runVars, callerVars, history
<1>2. ASSUME NEW c \in Callers, CompactRetry(c) \/ CompactFails(c) \/ Continue(c) \/ Finally(c) \/
                             Settled(c)
      PROVE  raced'
  BY <1>2 DEF CompactRetry, Compacted, CompactFails, Continue, BeginRun, Finally, Flush,
              AppendContext, Settled, queueVars, contextVars, flagVars, waitVars, runVars,
              callerVars, history
<1>3. ASSUME NEW kind \in Assistant, Respond(kind) PROVE raced'
  BY <1>3 DEF Respond, FlagsAfter, queueVars, contextVars, flagVars, waitVars, runVars,
              callerVars, history
<1>4. ASSUME Steer \/ SteerCustom \/ ClearQueue \/ RecordBash \/ SendCustom \/ Abort \/ Compact \/
          Deliver \/ Poll
      PROVE  raced'
  BY <1>4 DEF Steer, SteerCustom, ClearQueue, RecordBash, AppendContext, SendCustom, Abort,
              StopWork, Compact, Deliver, Poll, queueVars, contextVars, flagVars, waitVars,
              runVars, callerVars, history
<1>5. ASSUME ToolsDone \/ TurnEnd \/ EmitAgentEnd \/ FinishRun \/ CompactEnd PROVE raced'
  BY <1>5 DEF ToolsDone, TurnEnd, AppendContext, EmitAgentEnd, FinishRun, CompactEnd, queueVars,
              contextVars, flagVars, waitVars, runVars, callerVars, history
<1>6. ASSUME NEW c \in Callers, Trigger(c) PROVE raced'
  <2> QED BY <1>6 DEF Trigger, RunAgentPrompt, BeginRun
<1>7. ASSUME NEW c \in Callers, StartRun(c) PROVE raced'
  <2> QED BY <1>7 DEF StartRun, RunAgentPrompt, BeginRun
<1>8. CASE UNCHANGED vars
  BY <1>8 DEF vars, queueVars, contextVars, flagVars, waitVars, runVars, callerVars, history
<1> QED
  BY <1>1, <1>2, <1>3, <1>4, <1>5, <1>6, <1>7, <1>8
  DEF Next, UserCall, RunStep, CallerStep

\* The run's owner drives it.
LEMMA RunIsDriven ==
    ASSUME RunOK, ControlInv, SingleInv, run # "none"
    PROVE  isAgentRunActive /\ owner \in Callers /\ pc[owner] = "running"
BY DEF RunOK, ControlInv, SingleInv, Busy, Driving

\* A call that does not drive the agent, before and after it goes on.
LEMMA OutsideMove ==
    ASSUME CallersOK, SingleInv, UNCHANGED isAgentRunActive, ~split', NEW c \in Callers,
           NEW phase \in Phases, pc[c] \in Busy <=> phase \in Busy, Go(c, phase)
    PROVE  SingleInv'
<1>1. \A d \in Callers : pc'[d] \in Busy <=> pc[d] \in Busy
  BY DEF Go, CallersOK
<1> QED
  BY <1>1 DEF SingleInv

\* While they have not, every step keeps it so.
LEMMA SingleStep ==
    ASSUME TypeOK, ControlInv, SingleInv, [Next]_vars, ~raced'
    PROVE  SingleInv'
<1> CallersOK /\ FlagsOK /\ RunOK
  BY DEF TypeOK
<1>1. ASSUME NEW kind \in Assistant, Respond(kind) PROVE SingleInv'
  BY <1>1 DEF Respond, FlagsAfter, queueVars, contextVars, flagVars, waitVars, runVars,
              callerVars, history, SingleInv
<1>2. ASSUME Steer \/ SteerCustom \/ ClearQueue \/ Deliver \/ Poll \/ ToolsDone \/ EmitAgentEnd \/
          CompactEnd
      PROVE  SingleInv'
  BY <1>2 DEF Steer, SteerCustom, ClearQueue, Deliver, Poll, ToolsDone, EmitAgentEnd,
              CompactEnd, queueVars, contextVars, flagVars, waitVars, runVars, callerVars,
              history, SingleInv
<1>3. ASSUME NEW c \in Callers, Submit(c) PROVE SingleInv'
  <2>1. UNCHANGED <<isAgentRunActive, split>>
    BY <1>3 DEF Submit, queueVars, contextVars, flagVars, waitVars, runVars, callerVars, history
  <2> QED BY <1>3, <2>1 DEF Submit, Go, Busy, Driving, CallersOK, RunOK, ControlInv, SingleInv
<1>4. ASSUME NEW c \in Callers, Trigger(c) PROVE SingleInv'
  <2>1. UNCHANGED <<split>>
    BY <1>4 DEF Trigger, RunAgentPrompt, BeginRun, queueVars, contextVars, flagVars, waitVars,
                runVars, callerVars, history
  <2> QED BY <1>4, <2>1 DEF Trigger, RunAgentPrompt, BeginRun, Go, Busy, Driving, CallersOK,
                            RunOK, ControlInv, SingleInv
<1>5. ASSUME RecordBash PROVE SingleInv'
  <2>1. UNCHANGED <<isAgentRunActive, pc>>
    BY <1>5 DEF RecordBash, AppendContext, queueVars, contextVars, flagVars, waitVars, runVars,
                callerVars, history
  <2>2. ~split'
    BY <1>5, RunIsDriven DEF RecordBash, AppendContext, SingleInv
  <2> QED BY <2>1, <2>2 DEF SingleInv
<1>6. ASSUME SendCustom PROVE SingleInv'
  <2>1. UNCHANGED <<isAgentRunActive, pc>>
    BY <1>6 DEF SendCustom, AppendContext, queueVars, contextVars, flagVars, waitVars, runVars,
                callerVars, history
  <2>2. ~split'
    BY <1>6, RunIsDriven DEF SendCustom, AppendContext, SingleInv
  <2> QED BY <2>1, <2>2 DEF SingleInv
<1>7. ASSUME Abort PROVE SingleInv'
  <2>1. UNCHANGED <<isAgentRunActive, split>>
    BY <1>7 DEF Abort, StopWork, queueVars, contextVars, flagVars, waitVars, runVars,
                callerVars, history
  <2> QED BY <1>7, <2>1 DEF Abort, StopWork, Go, Busy, Driving, CallersOK, RunOK, ControlInv,
                            SingleInv
<1>8. ASSUME Compact PROVE SingleInv'
  <2>1. UNCHANGED <<isAgentRunActive, split>>
    BY <1>8 DEF Compact, StopWork, queueVars, contextVars, flagVars, waitVars, runVars,
                callerVars, history
  <2> QED BY <1>8, <2>1 DEF Compact, StopWork, Go, Busy, Driving, CallersOK, RunOK, ControlInv,
                            SingleInv
<1>9. ASSUME TurnEnd PROVE SingleInv'
  <2>1. UNCHANGED <<isAgentRunActive, pc>>
    BY <1>9 DEF TurnEnd, AppendContext, queueVars, contextVars, flagVars, waitVars, runVars,
                callerVars, history
  <2>2. ~split'
    BY <1>9 DEF TurnEnd, AppendContext, SingleInv
  <2> QED BY <2>1, <2>2 DEF SingleInv
<1>10. ASSUME FinishRun PROVE SingleInv'
  <2>1. UNCHANGED <<isAgentRunActive, split>>
    BY <1>10 DEF FinishRun, queueVars, contextVars, flagVars, waitVars, runVars, callerVars,
                 history
  <2> QED BY <1>10, <2>1 DEF FinishRun, Go, Busy, Driving, CallersOK, RunOK, ControlInv,
                             SingleInv
<1>11. ASSUME NEW c \in Callers, Join(c) PROVE SingleInv'
  <2>1. UNCHANGED <<isAgentRunActive, split>>
    BY <1>11 DEF Join, queueVars, contextVars, flagVars, waitVars, runVars, callerVars, history
  <2> QED BY <1>11, <2>1 DEF Join, Go, Busy, Driving, CallersOK, RunOK, ControlInv, SingleInv
<1>12. ASSUME NEW c \in Callers, Prepare(c) PROVE SingleInv'
  <2>1. UNCHANGED <<isAgentRunActive>>
    BY <1>12 DEF Prepare, Flush, AppendContext, queueVars, contextVars, flagVars, waitVars,
                 runVars, callerVars, history
  <2>2. ~split'
    BY <1>12, RunIsDriven DEF Prepare, Flush, AppendContext, SingleInv
  <2>3. pc[c] = "input" /\ Go(c, "auth")
    BY <1>12 DEF Prepare
  <2>4. "auth" \in Phases /\ (pc[c] \in Busy <=> "auth" \in Busy)
    BY <2>3 DEF Phases, Driving, Busy
  <2> QED BY <2>1, <2>2, <2>3, <2>4, OutsideMove
<1>13. ASSUME NEW c \in Callers, Unauthorized(c) PROVE SingleInv'
  <2>1. UNCHANGED <<isAgentRunActive, split>>
    BY <1>13 DEF Unauthorized, queueVars, contextVars, flagVars, waitVars, runVars, callerVars,
                 history
  <2> QED BY <1>13, <2>1 DEF Unauthorized, Go, Busy, Driving, CallersOK, RunOK, ControlInv,
                             SingleInv
<1>14. ASSUME NEW c \in Callers, PreCheck(c) PROVE SingleInv'
  <2>1. UNCHANGED <<isAgentRunActive, split>>
    BY <1>14 DEF PreCheck, StartCompaction, queueVars, contextVars, flagVars, waitVars, runVars,
                 callerVars, history
  <2>2. ~split'
    BY <2>1 DEF SingleInv
  <2>3. pc[c] = "auth" /\ \E phase \in {"precompacting", "before"} : Go(c, phase)
    BY <1>14 DEF PreCheck, StartCompaction
  <2>4. PICK phase \in {"precompacting", "before"} : Go(c, phase)
    BY <2>3
  <2>5. phase \in Phases /\ (pc[c] \in Busy <=> phase \in Busy)
    BY <2>3, <2>4 DEF Phases, Driving, Busy
  <2> QED BY <2>1, <2>2, <2>4, <2>5, OutsideMove
<1>15. ASSUME NEW c \in Callers, PreCompact(c) PROVE SingleInv'
  <2>1. UNCHANGED <<isAgentRunActive, split>>
    BY <1>15 DEF PreCompact, Compacted, queueVars, contextVars, flagVars, waitVars, runVars,
                 callerVars, history
  <2> QED BY <1>15, <2>1 DEF PreCompact, Compacted, Go, Busy, Driving, CallersOK, RunOK,
                             ControlInv, SingleInv
<1>16. ASSUME NEW c \in Callers, StartRun(c) PROVE SingleInv'
  <2>1. UNCHANGED <<split>>
    BY <1>16 DEF StartRun, RunAgentPrompt, BeginRun, queueVars, contextVars, flagVars, waitVars,
                 runVars, callerVars, history
  <2>2. ~isAgentRunActive /\ isAgentRunActive' = TRUE /\ ~split'
    <3>1. raced' = (raced \/ isAgentRunActive) /\ isAgentRunActive' = TRUE
      BY <1>16 DEF StartRun, RunAgentPrompt
    <3> QED BY <2>1, <3>1 DEF SingleInv
  <2>3. \E phase \in {"finally", "running"} : Go(c, phase)
    BY <1>16 DEF StartRun, RunAgentPrompt
  <2>4. pc'[c] \in Busy /\ \A d \in Callers \ {c} : pc'[d] = pc[d]
    BY <2>3 DEF Go, CallersOK, Busy, Driving
  <2>5. \A d \in Callers \ {c} : pc'[d] \notin Busy
    BY <2>2, <2>4 DEF SingleInv
  <2> QED BY <2>2, <2>4, <2>5 DEF SingleInv
<1>17. ASSUME NEW c \in Callers, PostRun(c) PROVE SingleInv'
  <2>1. UNCHANGED <<isAgentRunActive, split>>
    BY <1>17 DEF PostRun, Retries, queueVars, contextVars, flagVars, waitVars, runVars,
                 callerVars, history
  <2> QED BY <1>17, <2>1 DEF PostRun, Retries, Go, Busy, Driving, CallersOK, RunOK, ControlInv,
                             SingleInv
<1>18. ASSUME NEW c \in Callers, SleepOver(c) PROVE SingleInv'
  <2>1. UNCHANGED <<isAgentRunActive, split>>
    BY <1>18 DEF SleepOver, queueVars, contextVars, flagVars, waitVars, runVars, callerVars,
                 history
  <2> QED BY <1>18, <2>1 DEF SleepOver, Go, Busy, Driving, CallersOK, RunOK, ControlInv,
                             SingleInv
<1>19. ASSUME NEW c \in Callers, PostCheck(c) PROVE SingleInv'
  <2>1. UNCHANGED <<isAgentRunActive, split>>
    BY <1>19 DEF PostCheck, StartCompaction, queueVars, contextVars, flagVars, waitVars,
                 runVars, callerVars, history
  <2>2. ~split'
    BY <2>1 DEF SingleInv
  <2>3. pc[c] = "checking" /\ \E phase \in {"compacting", "continuing", "finally"} : Go(c, phase)
    BY <1>19 DEF PostCheck, StartCompaction
  <2>4. PICK phase \in {"compacting", "continuing", "finally"} : Go(c, phase)
    BY <2>3
  <2>5. phase \in Phases /\ (pc[c] \in Busy <=> phase \in Busy)
    BY <2>3, <2>4 DEF Phases, Driving, Busy
  <2> QED BY <2>1, <2>2, <2>4, <2>5, OutsideMove
<1>20. ASSUME NEW c \in Callers, CompactRetry(c) PROVE SingleInv'
  <2>1. UNCHANGED <<isAgentRunActive, split>>
    BY <1>20 DEF CompactRetry, Compacted, queueVars, contextVars, flagVars, waitVars, runVars,
                 callerVars, history
  <2> QED BY <1>20, <2>1 DEF CompactRetry, Compacted, Go, Busy, Driving, CallersOK, RunOK,
                             ControlInv, SingleInv
<1>21. ASSUME NEW c \in Callers, CompactFails(c) PROVE SingleInv'
  <2>1. UNCHANGED <<isAgentRunActive, split>>
    BY <1>21 DEF CompactFails, queueVars, contextVars, flagVars, waitVars, runVars, callerVars,
                 history
  <2> QED BY <1>21, <2>1 DEF CompactFails, Go, Busy, Driving, CallersOK, RunOK, ControlInv,
                             SingleInv
<1>22. ASSUME NEW c \in Callers, Continue(c) PROVE SingleInv'
  <2>1. UNCHANGED <<isAgentRunActive, split>>
    BY <1>22 DEF Continue, BeginRun, queueVars, contextVars, flagVars, waitVars, runVars,
                 callerVars, history
  <2> QED BY <1>22, <2>1 DEF Continue, BeginRun, Go, Busy, Driving, CallersOK, RunOK,
                             ControlInv, SingleInv
<1>23. ASSUME NEW c \in Callers, Finally(c) PROVE SingleInv'
  <2> QED BY <1>23 DEF Finally, Flush, AppendContext, Go, Busy, Driving, CallersOK, RunOK,
                       ControlInv, SingleInv
<1>24. ASSUME NEW c \in Callers, Settled(c) PROVE SingleInv'
  <2>1. UNCHANGED <<isAgentRunActive, split>>
    BY <1>24 DEF Settled, queueVars, contextVars, flagVars, waitVars, runVars, callerVars,
                 history
  <2> QED BY <1>24, <2>1 DEF Settled, Go, Busy, Driving, CallersOK, RunOK, ControlInv, SingleInv
<1>25. CASE UNCHANGED vars
  BY <1>25 DEF vars, queueVars, contextVars, flagVars, waitVars, runVars, callerVars, history,
               SingleInv
<1> QED
  BY <1>1, <1>2, <1>3, <1>4, <1>5, <1>6, <1>7, <1>8, <1>9, <1>10, <1>11, <1>12, <1>13, <1>14,
     <1>15, <1>16, <1>17, <1>18, <1>19, <1>20, <1>21, <1>22, <1>23, <1>24, <1>25
  DEF Next, UserCall, RunStep, CallerStep

-----------------------------------------------------------------------------
(* What is announced. *)

Answered == {"tools", "turnEnd", "polling", "ending", "ended"}

\* Once the model has answered, the session's last message is the run's; once
\* agent_end is emitted, what it said of a retry is what _handlePostAgentRun finds.
AnnounceInv ==
    /\ run \in Answered => lastAssistant = reply
    /\ run = "ended" => (announced <=> Retries(lastAssistant))
    /\ (\E c \in Callers : pc[c] = "post") => (announced <=> Retries(lastAssistant))

\* The flags a run ends with are not touched before its caller looks at them.
LEMMA AnnounceStep ==
    ASSUME TypeOK, ControlInv, SingleInv, AnnounceInv, [Next]_vars
    PROVE  AnnounceInv'
<1> CallersOK /\ FlagsOK /\ RunOK
  BY DEF TypeOK
<1>1. ASSUME Steer \/ SteerCustom \/ ClearQueue \/ RecordBash \/ SendCustom \/ Deliver \/
          CompactEnd
      PROVE  AnnounceInv'
  BY <1>1 DEF Steer, SteerCustom, ClearQueue, RecordBash, AppendContext, SendCustom, Deliver,
              CompactEnd, queueVars, contextVars, flagVars, waitVars, runVars, callerVars,
              history, AnnounceInv, Retries
<1>2. ASSUME NEW c \in Callers, Submit(c) PROVE AnnounceInv'
  <2>1. UNCHANGED <<run, reply, lastAssistant, retryAttempt, announced>>
    BY <1>2 DEF Submit, queueVars, contextVars, flagVars, waitVars, runVars, callerVars, history
  <2> QED BY <1>2, <2>1 DEF Submit, Go, Answered, CallersOK, RunOK, ControlInv, AnnounceInv,
                            Retries
<1>3. ASSUME NEW c \in Callers, Trigger(c) PROVE AnnounceInv'
  <2>1. UNCHANGED <<lastAssistant, retryAttempt, announced>>
    BY <1>3 DEF Trigger, RunAgentPrompt, BeginRun, queueVars, contextVars, flagVars, waitVars,
                runVars, callerVars, history
  <2>2. \A e \in Callers : pc'[e] = "post" => pc[e] = "post"
    BY <1>3 DEF Trigger, RunAgentPrompt, Go, CallersOK
  <2>3. run' \notin Answered \/ UNCHANGED <<run, reply>>
    BY <1>3 DEF Trigger, RunAgentPrompt, BeginRun, runVars, Answered
  <2> HIDE DEF Answered
  <2>4. Answered' = Answered /\ "ended" \in Answered
    BY DEF Answered
  <2> QED BY <2>1, <2>2, <2>3, <2>4 DEF AnnounceInv, Retries
<1>4. ASSUME Abort PROVE AnnounceInv'
  <2>1. UNCHANGED <<run, reply, lastAssistant, announced>>
    BY <1>4 DEF Abort, StopWork, queueVars, contextVars, flagVars, waitVars, runVars,
                callerVars, history
  <2>2. CASE sleeper = NoCaller
    <3>1. UNCHANGED <<pc, retryAttempt>>
      BY <1>4, <2>2 DEF Abort, StopWork
    <3> QED BY <2>1, <3>1 DEF AnnounceInv, Answered, Retries
  <2>3. CASE sleeper # NoCaller
    <3>1. pc[sleeper] = "sleeping" /\ sleeper \in Callers
      BY <2>3 DEF ControlInv, FlagsOK
    <3>2. pc' = [pc EXCEPT ![sleeper] = "checking"]
      BY <1>4, <2>3 DEF Abort, StopWork, Go
    <3>3. run = "none" /\ \A e \in Callers : pc[e] # "post"
      BY <3>1 DEF RunOK, ControlInv, SingleInv, Busy, Driving
    <3>4. \A e \in Callers : pc'[e] # "post"
      BY <3>1, <3>2, <3>3 DEF CallersOK
    <3> QED BY <2>1, <3>3, <3>4 DEF AnnounceInv, Answered
  <2> QED BY <2>2, <2>3
<1>5. ASSUME Compact PROVE AnnounceInv'
  <2>1. UNCHANGED <<run, reply, lastAssistant, announced>>
    BY <1>5 DEF Compact, StopWork, queueVars, contextVars, flagVars, waitVars, runVars,
                callerVars, history
  <2>2. CASE sleeper = NoCaller
    <3>1. UNCHANGED <<pc, retryAttempt>>
      BY <1>5, <2>2 DEF Compact, StopWork
    <3> QED BY <2>1, <3>1 DEF AnnounceInv, Answered, Retries
  <2>3. CASE sleeper # NoCaller
    <3>1. pc[sleeper] = "sleeping" /\ sleeper \in Callers
      BY <2>3 DEF ControlInv, FlagsOK
    <3>2. pc' = [pc EXCEPT ![sleeper] = "checking"]
      BY <1>5, <2>3 DEF Compact, StopWork, Go
    <3>3. run = "none" /\ \A e \in Callers : pc[e] # "post"
      BY <3>1 DEF RunOK, ControlInv, SingleInv, Busy, Driving
    <3>4. \A e \in Callers : pc'[e] # "post"
      BY <3>1, <3>2, <3>3 DEF CallersOK
    <3> QED BY <2>1, <3>3, <3>4 DEF AnnounceInv, Answered
  <2> QED BY <2>2, <2>3
<1>6. ASSUME Poll PROVE AnnounceInv'
  <2>1. UNCHANGED <<pc, reply, lastAssistant, retryAttempt, announced>>
    BY <1>6 DEF Poll, queueVars, contextVars, flagVars, waitVars, runVars, callerVars, history
  <2> QED BY <1>6, <2>1 DEF Poll, Go, Answered, CallersOK, RunOK, ControlInv, AnnounceInv,
                            Retries
<1>7. ASSUME ToolsDone PROVE AnnounceInv'
  <2>1. UNCHANGED <<pc, reply, lastAssistant, retryAttempt, announced>>
    BY <1>7 DEF ToolsDone, queueVars, contextVars, flagVars, waitVars, runVars, callerVars,
                history
  <2> QED BY <1>7, <2>1 DEF ToolsDone, Go, Answered, CallersOK, RunOK, ControlInv, AnnounceInv,
                            Retries
<1>8. ASSUME TurnEnd PROVE AnnounceInv'
  <2>1. UNCHANGED <<pc, reply, lastAssistant, retryAttempt, announced>>
    BY <1>8 DEF TurnEnd, AppendContext, queueVars, contextVars, flagVars, waitVars, runVars,
                callerVars, history
  <2> QED BY <1>8, <2>1 DEF TurnEnd, AppendContext, Go, Answered, CallersOK, RunOK, ControlInv,
                            AnnounceInv, Retries
<1>9. ASSUME EmitAgentEnd PROVE AnnounceInv'
  <2>1. UNCHANGED <<pc, reply, lastAssistant, retryAttempt>>
    BY <1>9 DEF EmitAgentEnd, queueVars, contextVars, flagVars, waitVars, runVars, callerVars,
                history
  <2> QED BY <1>9, <2>1 DEF EmitAgentEnd, Go, Answered, CallersOK, RunOK, ControlInv,
                            AnnounceInv, Retries
<1>10. ASSUME FinishRun PROVE AnnounceInv'
  <2>1. UNCHANGED <<lastAssistant, retryAttempt, announced>>
    BY <1>10 DEF FinishRun, queueVars, contextVars, flagVars, waitVars, runVars, callerVars,
                 history
  <2> QED BY <1>10, <2>1 DEF FinishRun, Go, Answered, CallersOK, RunOK, ControlInv, AnnounceInv,
                             Retries
<1>11. ASSUME NEW kind \in Assistant, Respond(kind) PROVE AnnounceInv'
  <2>1. UNCHANGED <<pc, announced>>
    BY <1>11 DEF Respond, FlagsAfter, queueVars, contextVars, flagVars, waitVars, runVars,
                 callerVars, history
  <2>2. \A e \in Callers : pc[e] # "post"
    BY <1>11, RunIsDriven DEF Respond, SingleInv, Busy, Driving
  <2>3. run' # "ended" /\ lastAssistant' = reply'
    BY <1>11 DEF Respond, FlagsAfter
  <2> QED BY <2>1, <2>2, <2>3 DEF AnnounceInv
<1>12. ASSUME NEW c \in Callers, Join(c) PROVE AnnounceInv'
  <2>1. UNCHANGED <<run, reply, lastAssistant, retryAttempt, announced>>
    BY <1>12 DEF Join, queueVars, contextVars, flagVars, waitVars, runVars, callerVars, history
  <2> QED BY <1>12, <2>1 DEF Join, Go, Answered, CallersOK, RunOK, ControlInv, AnnounceInv,
                             Retries
<1>13. ASSUME NEW c \in Callers, Prepare(c) PROVE AnnounceInv'
  <2>1. UNCHANGED <<run, reply, lastAssistant, retryAttempt, announced>>
    BY <1>13 DEF Prepare, Flush, AppendContext, queueVars, contextVars, flagVars, waitVars,
                 runVars, callerVars, history
  <2> QED BY <1>13, <2>1 DEF Prepare, Flush, AppendContext, Go, Answered, CallersOK, RunOK,
                             ControlInv, AnnounceInv, Retries
<1>14. ASSUME NEW c \in Callers, Unauthorized(c) PROVE AnnounceInv'
  <2>1. UNCHANGED <<run, reply, lastAssistant, retryAttempt, announced>>
    BY <1>14 DEF Unauthorized, queueVars, contextVars, flagVars, waitVars, runVars, callerVars,
                 history
  <2> QED BY <1>14, <2>1 DEF Unauthorized, Go, Answered, CallersOK, RunOK, ControlInv,
                             AnnounceInv, Retries
<1>15. ASSUME NEW c \in Callers, PreCheck(c) PROVE AnnounceInv'
  <2>1. UNCHANGED <<run, reply, lastAssistant, retryAttempt, announced>>
    BY <1>15 DEF PreCheck, StartCompaction, queueVars, contextVars, flagVars, waitVars, runVars,
                 callerVars, history
  <2> QED BY <1>15, <2>1 DEF PreCheck, StartCompaction, Go, Answered, CallersOK, RunOK,
                             ControlInv, AnnounceInv, Retries
<1>16. ASSUME NEW c \in Callers, PreCompact(c) PROVE AnnounceInv'
  <2>1. UNCHANGED <<run, reply, lastAssistant, retryAttempt, announced>>
    BY <1>16 DEF PreCompact, Compacted, queueVars, contextVars, flagVars, waitVars, runVars,
                 callerVars, history
  <2> QED BY <1>16, <2>1 DEF PreCompact, Compacted, Go, Answered, CallersOK, RunOK, ControlInv,
                             AnnounceInv, Retries
<1>17. ASSUME NEW c \in Callers, StartRun(c) PROVE AnnounceInv'
  <2>1. UNCHANGED <<lastAssistant, retryAttempt, announced>>
    BY <1>17 DEF StartRun, RunAgentPrompt, BeginRun, queueVars, contextVars, flagVars, waitVars,
                 runVars, callerVars, history
  <2>2. \A e \in Callers : pc'[e] = "post" => pc[e] = "post"
    BY <1>17 DEF StartRun, RunAgentPrompt, Go, CallersOK
  <2>3. run' \notin Answered \/ UNCHANGED <<run, reply>>
    BY <1>17 DEF StartRun, RunAgentPrompt, BeginRun, runVars, Answered
  <2> HIDE DEF Answered
  <2>4. Answered' = Answered /\ "ended" \in Answered
    BY DEF Answered
  <2> QED BY <2>1, <2>2, <2>3, <2>4 DEF AnnounceInv, Retries
<1>18. ASSUME NEW c \in Callers, PostRun(c) PROVE AnnounceInv'
  <2>1. UNCHANGED <<run, reply>>
    BY <1>18 DEF PostRun, Retries, queueVars, contextVars, flagVars, waitVars, runVars,
                 callerVars, history
  <2>2. pc[c] = "post"
    BY <1>18 DEF PostRun
  <2>3. run = "none"
    BY <2>2, RunIsDriven DEF SingleInv, Busy, Driving
  <2>4. \A e \in Callers \ {c} : pc[e] # "post"
    BY <2>2 DEF SingleInv, Busy, Driving
  <2>5. pc'[c] # "post" /\ \A e \in Callers \ {c} : pc'[e] = pc[e]
    BY <1>18 DEF PostRun, Go, CallersOK
  <2> QED BY <2>1, <2>3, <2>4, <2>5 DEF AnnounceInv, Answered
<1>19. ASSUME NEW c \in Callers, SleepOver(c) PROVE AnnounceInv'
  <2>1. UNCHANGED <<run, reply, lastAssistant, retryAttempt, announced>>
    BY <1>19 DEF SleepOver, queueVars, contextVars, flagVars, waitVars, runVars, callerVars,
                 history
  <2> QED BY <1>19, <2>1 DEF SleepOver, Go, Answered, CallersOK, RunOK, ControlInv, AnnounceInv,
                             Retries
<1>20. ASSUME NEW c \in Callers, PostCheck(c) PROVE AnnounceInv'
  <2>1. UNCHANGED <<run, reply, lastAssistant, retryAttempt, announced>>
    BY <1>20 DEF PostCheck, StartCompaction, queueVars, contextVars, flagVars, waitVars,
                 runVars, callerVars, history
  <2> QED BY <1>20, <2>1 DEF PostCheck, StartCompaction, Go, Answered, CallersOK, RunOK,
                             ControlInv, AnnounceInv, Retries
<1>21. ASSUME NEW c \in Callers, CompactRetry(c) PROVE AnnounceInv'
  <2>1. UNCHANGED <<run, reply, lastAssistant, retryAttempt, announced>>
    BY <1>21 DEF CompactRetry, Compacted, queueVars, contextVars, flagVars, waitVars, runVars,
                 callerVars, history
  <2> QED BY <1>21, <2>1 DEF CompactRetry, Compacted, Go, Answered, CallersOK, RunOK,
                             ControlInv, AnnounceInv, Retries
<1>22. ASSUME NEW c \in Callers, CompactFails(c) PROVE AnnounceInv'
  <2>1. UNCHANGED <<run, reply, lastAssistant, retryAttempt, announced>>
    BY <1>22 DEF CompactFails, queueVars, contextVars, flagVars, waitVars, runVars, callerVars,
                 history
  <2> QED BY <1>22, <2>1 DEF CompactFails, Go, Answered, CallersOK, RunOK, ControlInv,
                             AnnounceInv, Retries
<1>23. ASSUME NEW c \in Callers, Continue(c) PROVE AnnounceInv'
  <2>1. UNCHANGED <<lastAssistant, retryAttempt, announced>>
    BY <1>23 DEF Continue, BeginRun, queueVars, contextVars, flagVars, waitVars, runVars,
                 callerVars, history
  <2>2. \A e \in Callers : pc'[e] = "post" => pc[e] = "post"
    BY <1>23 DEF Continue, Go, CallersOK
  <2>3. run' \notin Answered \/ UNCHANGED <<run, reply>>
    BY <1>23 DEF Continue, BeginRun, runVars, Answered
  <2> HIDE DEF Answered
  <2>4. Answered' = Answered /\ "ended" \in Answered
    BY DEF Answered
  <2> QED BY <2>1, <2>2, <2>3, <2>4 DEF AnnounceInv, Retries
<1>24. ASSUME NEW c \in Callers, Finally(c) PROVE AnnounceInv'
  <2>1. UNCHANGED <<run, reply, lastAssistant, retryAttempt, announced>>
    BY <1>24 DEF Finally, Flush, AppendContext, queueVars, contextVars, flagVars, waitVars,
                 runVars, callerVars, history
  <2> QED BY <1>24, <2>1 DEF Finally, Flush, AppendContext, Go, Answered, CallersOK, RunOK,
                             ControlInv, AnnounceInv, Retries
<1>25. ASSUME NEW c \in Callers, Settled(c) PROVE AnnounceInv'
  <2>1. UNCHANGED <<run, reply, lastAssistant, retryAttempt, announced>>
    BY <1>25 DEF Settled, queueVars, contextVars, flagVars, waitVars, runVars, callerVars,
                 history
  <2> QED BY <1>25, <2>1 DEF Settled, Go, Answered, CallersOK, RunOK, ControlInv, AnnounceInv,
                             Retries
<1>26. CASE UNCHANGED vars
  BY <1>26 DEF vars, queueVars, contextVars, flagVars, waitVars, runVars, callerVars, history,
               AnnounceInv, Retries
<1> QED
  BY <1>1, <1>2, <1>3, <1>4, <1>5, <1>6, <1>7, <1>8, <1>9, <1>10, <1>11, <1>12, <1>13, <1>14,
     <1>15, <1>16, <1>17, <1>18, <1>19, <1>20, <1>21, <1>22, <1>23, <1>24, <1>25, <1>26
  DEF Next, UserCall, RunStep, CallerStep

\* The callers, the types and what is announced, together.
SessionInv == TypeOK /\ ControlInv /\ (~raced => SingleInv /\ AnnounceInv)

\* They hold from the start.
LEMMA SessionHolds == Spec => []SessionInv
<1>1. Init => ~raced /\ SingleInv /\ AnnounceInv
  BY DEF Init, SingleInv, Busy, Driving, AnnounceInv, Answered
<1>2. /\ TypeOK /\ ControlInv /\ (~raced => SingleInv /\ AnnounceInv) /\ [Next]_vars
      => (~raced => SingleInv /\ AnnounceInv)'
  <2> SUFFICES ASSUME TypeOK, ControlInv, ~raced => SingleInv /\ AnnounceInv, [Next]_vars, ~raced'
               PROVE  SingleInv' /\ AnnounceInv'
    OBVIOUS
  <2>1. ~raced
    BY RacedStays
  <2>2. SingleInv'
    BY <2>1, SingleStep
  <2>3. AnnounceInv'
    BY <2>1, AnnounceStep
  <2> QED BY <2>2, <2>3
<1> QED
  BY <1>1, <1>2, ControlHolds, PTL DEF Spec, SessionInv

\* ctx.isIdle() is false while a call drives the agent or cleans up after it, through
\* runs, retries, compactions and continuations, unless two calls have raced; and it
\* never stays false without such a call, not even then (agent-session.ts:575).
THEOREM IdleMeansIdle == Spec => []BusyWhileDriving
<1>1. SessionInv /\ DrivenInv => BusyWhileDriving
  BY DEF SessionInv, SingleInv, DrivenInv, Busy, BusyWhileDriving
<1> QED
  BY <1>1, SessionHolds, DrivenHolds, PTL

\* A context-only message is put off while tools run, whoever prompts, retries,
\* compacts or aborts in between (agent-session.ts:1487).
THEOREM ContextsWait == Spec => []ResultsFollowCalls
<1>1. SessionInv => ResultsFollowCalls
  BY DEF SessionInv, SingleInv, ResultsFollowCalls
<1> QED
  BY <1>1, SessionHolds, PTL

\* A caller leaves the phase after the run through _handlePostAgentRun only.
LEMMA LeavesPost ==
    ASSUME TypeOK, ControlInv, [Next]_vars, NEW b \in Callers, pc[b] = "post", pc'[b] # "post"
    PROVE  PostRun(b)
<1> CallersOK /\ FlagsOK /\ RunOK
  BY DEF TypeOK
<1>1. ASSUME NEW kind \in Assistant, Respond(kind) PROVE PostRun(b)
  BY <1>1 DEF Respond, FlagsAfter, queueVars, contextVars, flagVars, waitVars, runVars,
              callerVars, history
<1>2. ASSUME Steer \/ SteerCustom \/ ClearQueue \/ RecordBash \/ SendCustom \/ Deliver \/ Poll \/
          ToolsDone \/ TurnEnd
      PROVE  PostRun(b)
  BY <1>2 DEF Steer, SteerCustom, ClearQueue, RecordBash, AppendContext, SendCustom, Deliver,
              Poll, ToolsDone, TurnEnd, queueVars, contextVars, flagVars, waitVars, runVars,
              callerVars, history
<1>3. ASSUME EmitAgentEnd \/ CompactEnd PROVE PostRun(b)
  BY <1>3 DEF EmitAgentEnd, CompactEnd, queueVars, contextVars, flagVars, waitVars, runVars,
              callerVars, history
<1>4. ASSUME NEW c \in Callers, Submit(c) PROVE PostRun(b)
  BY <1>4 DEF Submit, Go, CallersOK, FlagsOK, RunOK, ControlInv
<1>5. ASSUME NEW c \in Callers, Trigger(c) PROVE PostRun(b)
  BY <1>5 DEF Trigger, RunAgentPrompt, BeginRun, Go, CallersOK, FlagsOK, RunOK,
                      ControlInv
<1>6. ASSUME Abort PROVE PostRun(b)
  BY <1>6 DEF Abort, StopWork, Go, CallersOK, FlagsOK, RunOK, ControlInv
<1>7. ASSUME Compact PROVE PostRun(b)
  BY <1>7 DEF Compact, StopWork, Go, CallersOK, FlagsOK, RunOK, ControlInv
<1>8. ASSUME FinishRun PROVE PostRun(b)
  BY <1>8 DEF FinishRun, Go, CallersOK, FlagsOK, RunOK, ControlInv
<1>9. ASSUME NEW c \in Callers, Join(c) PROVE PostRun(b)
  BY <1>9 DEF Join, Go, CallersOK, FlagsOK, RunOK, ControlInv
<1>10. ASSUME NEW c \in Callers, Prepare(c) PROVE PostRun(b)
  BY <1>10 DEF Prepare, Flush, AppendContext, Go, CallersOK, FlagsOK, RunOK, ControlInv
<1>11. ASSUME NEW c \in Callers, Unauthorized(c) PROVE PostRun(b)
  BY <1>11 DEF Unauthorized, Go, CallersOK, FlagsOK, RunOK, ControlInv
<1>12. ASSUME NEW c \in Callers, PreCheck(c) PROVE PostRun(b)
  BY <1>12 DEF PreCheck, StartCompaction, Go, CallersOK, FlagsOK, RunOK, ControlInv
<1>13. ASSUME NEW c \in Callers, PreCompact(c) PROVE PostRun(b)
  BY <1>13 DEF PreCompact, Compacted, Go, CallersOK, FlagsOK, RunOK, ControlInv
<1>14. ASSUME NEW c \in Callers, StartRun(c) PROVE PostRun(b)
  BY <1>14 DEF StartRun, RunAgentPrompt, BeginRun, Go, CallersOK, FlagsOK, RunOK,
                       ControlInv
<1>15. ASSUME NEW c \in Callers, PostRun(c) PROVE PostRun(b)
  BY <1>15 DEF PostRun, Retries, Go, CallersOK, FlagsOK, RunOK, ControlInv
<1>16. ASSUME NEW c \in Callers, SleepOver(c) PROVE PostRun(b)
  BY <1>16 DEF SleepOver, Go, CallersOK, FlagsOK, RunOK, ControlInv
<1>17. ASSUME NEW c \in Callers, PostCheck(c) PROVE PostRun(b)
  BY <1>17 DEF PostCheck, StartCompaction, Go, CallersOK, FlagsOK, RunOK, ControlInv
<1>18. ASSUME NEW c \in Callers, CompactRetry(c) PROVE PostRun(b)
  BY <1>18 DEF CompactRetry, Compacted, Go, CallersOK, FlagsOK, RunOK, ControlInv
<1>19. ASSUME NEW c \in Callers, CompactFails(c) PROVE PostRun(b)
  BY <1>19 DEF CompactFails, Go, CallersOK, FlagsOK, RunOK, ControlInv
<1>20. ASSUME NEW c \in Callers, Continue(c) PROVE PostRun(b)
  BY <1>20 DEF Continue, BeginRun, Go, CallersOK, FlagsOK, RunOK, ControlInv
<1>21. ASSUME NEW c \in Callers, Finally(c) PROVE PostRun(b)
  BY <1>21 DEF Finally, Flush, AppendContext, Go, CallersOK, FlagsOK, RunOK, ControlInv
<1>22. ASSUME NEW c \in Callers, Settled(c) PROVE PostRun(b)
  BY <1>22 DEF Settled, Go, CallersOK, FlagsOK, RunOK, ControlInv
<1>23. CASE UNCHANGED vars
  BY <1>23 DEF vars, queueVars, contextVars, flagVars, waitVars, runVars, callerVars, history
<1> QED
  BY <1>1, <1>2, <1>3, <1>4, <1>5, <1>6, <1>7, <1>8, <1>9, <1>10, <1>11, <1>12, <1>13, <1>14,
     <1>15, <1>16, <1>17, <1>18, <1>19, <1>20, <1>21, <1>22, <1>23
  DEF Next, UserCall, RunStep, CallerStep

\* The retry that agent_end announces follows, and no other (agent-session.ts:2098).
THEOREM RetriesAsAnnounced == Spec => WillRetryKept
<1>1. ASSUME SessionInv, [Next]_vars, NEW c \in Callers, pc[c] = "post", pc'[c] # "post", ~raced
      PROVE  announced <=> pc'[c] = "sleeping"
  <2>1. PostRun(c)
    BY <1>1, LeavesPost DEF SessionInv
  <2>2. announced <=> Retries(lastAssistant)
    BY <1>1 DEF SessionInv, AnnounceInv
  <2>3. pc'[c] = "sleeping" <=> Retries(lastAssistant)
    <3>1. CASE Retries(lastAssistant)
      BY <1>1, <2>1, <3>1 DEF PostRun, Go, SessionInv, TypeOK, CallersOK
    <3>2. CASE ~Retries(lastAssistant)
      BY <1>1, <2>1, <3>2 DEF PostRun, Go, SessionInv, TypeOK, CallersOK
    <3> QED BY <3>1, <3>2
  <2> QED BY <2>2, <2>3
<1>2. SessionInv /\ [Next]_vars =>
        [\A c \in Callers :
           pc[c] = "post" /\ pc'[c] # "post" /\ ~raced => (announced <=> pc'[c] = "sleeping")]_vars
  BY <1>1
<1> QED
  BY <1>2, SessionHolds, PTL DEF Spec, WillRetryKept

-----------------------------------------------------------------------------
(* How often a text is listed. *)

\* The places of a text in a list are finitely many.
LEMMA OccurrencesType ==
    ASSUME NEW T, NEW s \in Seq(T), NEW m
    PROVE  /\ IsFiniteSet({i \in 1 .. Len(s) : s[i] = m})
           /\ Occurrences(s, m) \in Nat
<1>1. Len(s) \in Nat
  BY LenProperties
<1>2. IsFiniteSet(1 .. Len(s))
  BY <1>1, FS_Interval
<1>3. {i \in 1 .. Len(s) : s[i] = m} \in SUBSET (1 .. Len(s))
  OBVIOUS
<1>4. IsFiniteSet({i \in 1 .. Len(s) : s[i] = m})
  BY <1>2, <1>3, FS_Subset
<1> QED
  BY <1>4, FS_CardinalityType DEF Occurrences

\* A list without a text has none of it, the empty one above all, and the others some.
LEMMA OccurrencesNone ==
    ASSUME NEW s, NEW m, ~Contains(s, m)
    PROVE  Occurrences(s, m) = 0
<1>1. {i \in 1 .. Len(s) : s[i] = m} = {}
  BY DEF Contains
<1> QED
  BY <1>1, FS_EmptySet DEF Occurrences

LEMMA OccurrencesSome ==
    ASSUME NEW T, NEW s \in Seq(T), NEW m, Contains(s, m)
    PROVE  Occurrences(s, m) > 0
<1> DEFINE places == {i \in 1 .. Len(s) : s[i] = m}
<1>1. places # {}
  BY DEF Contains
<1>2. IsFiniteSet(places)
  BY OccurrencesType
<1> HIDE DEF places
<1>3. Cardinality(places) # 0 /\ Cardinality(places) \in Nat
  BY <1>1, <1>2, FS_EmptySet, FS_CardinalityType
<1>4. Cardinality(places) > 0
  BY <1>3
<1> QED
  BY <1>4 DEF Occurrences, places

LEMMA OccurrencesEmpty ==
    ASSUME NEW m
    PROVE  Occurrences(<<>>, m) = 0
<1>1. ~Contains(<<>>, m)
  BY DEF Contains
<1> QED
  BY <1>1, OccurrencesNone

\* A text at the end of a list is one more.
LEMMA OccurrencesAppend ==
    ASSUME NEW T, NEW s \in Seq(T), NEW e \in T, NEW m
    PROVE  Occurrences(Append(s, e), m) = Occurrences(s, m) + (IF e = m THEN 1 ELSE 0)
<1> DEFINE n == Len(s)
           places == {i \in 1 .. n : s[i] = m}
           more == {i \in 1 .. Len(Append(s, e)) : Append(s, e)[i] = m}
<1>1. n \in Nat /\ Len(Append(s, e)) = n + 1
  BY LenProperties, AppendProperties
<1>2. Append(s, e)[n + 1] = e /\ \A i \in 1 .. n : Append(s, e)[i] = s[i]
  BY AppendProperties
<1>3. IsFiniteSet(places) /\ Cardinality(places) \in Nat
  BY OccurrencesType, FS_CardinalityType
<1>4. n + 1 \notin places
  BY <1>1
<1>5. CASE e = m
  <2>1. more = places \cup {n + 1}
    BY <1>1, <1>2, <1>5
  <2>2. Cardinality(more) = Cardinality(places) + 1
    BY <1>3, <1>4, <2>1, FS_AddElement
  <2> QED BY <1>5, <2>2 DEF Occurrences
<1>6. CASE e # m
  <2>1. more = places
    BY <1>1, <1>2, <1>6
  <2> HIDE DEF more, places
  <2>2. Cardinality(more) = Cardinality(places) /\ Cardinality(places) \in Nat
    BY <1>3, <2>1
  <2>3. Occurrences(Append(s, e), m) = Cardinality(more) /\ Occurrences(s, m) = Cardinality(places)
    BY DEF Occurrences, more, places
  <2> QED BY <1>6, <2>2, <2>3
<1> QED
  BY <1>5, <1>6

\* A list with one text alone.
LEMMA OccurrencesOne ==
    ASSUME NEW e, NEW m
    PROVE  Occurrences(<<e>>, m) = IF e = m THEN 1 ELSE 0
<1>1. {i \in 1 .. Len(<<e>>) : <<e>>[i] = m} = IF e = m THEN {1} ELSE {}
  OBVIOUS
<1> QED
  BY <1>1, FS_Singleton, FS_EmptySet DEF Occurrences

\* A list that lacks the entry at one place, and what was behind it moved up.
LEMMA OccurrencesLess ==
    ASSUME NEW T, NEW s \in Seq(T), NEW t \in Seq(T), NEW i \in 1 .. Len(s), NEW m,
           Len(t) = Len(s) - 1,
           \A j \in 1 .. i - 1 : t[j] = s[j],
           \A j \in i .. Len(t) : t[j] = s[j + 1]
    PROVE  Occurrences(t, m) = Occurrences(s, m) - (IF s[i] = m THEN 1 ELSE 0)
<1> DEFINE before == {j \in 1 .. Len(s) : s[j] = m}
           after == {j \in 1 .. Len(t) : t[j] = m}
           f == [j \in after |-> IF j < i THEN j ELSE j + 1]
<1>1. Len(s) \in Nat /\ Len(t) \in Nat
  BY LenProperties
<1>2. IsFiniteSet(before) /\ IsFiniteSet(after) /\ Cardinality(before) \in Nat
  <2>1. IsFiniteSet(before) /\ IsFiniteSet(after)
    BY OccurrencesType
  <2> HIDE DEF before
  <2> QED BY <2>1, FS_CardinalityType
<1>3. f \in [after -> before \ {i}]
  BY <1>1
<1>4. ASSUME NEW j \in after, NEW k \in after, f[j] = f[k] PROVE j = k
  BY <1>1, <1>4
<1>5. ASSUME NEW k \in before \ {i} PROVE \E j \in after : f[j] = k
  <2>1. CASE k < i
    <3>1. k \in after /\ f[k] = k
      BY <1>1, <2>1
    <3> QED BY <3>1
  <2>2. CASE k > i
    <3>1. k - 1 \in after /\ f[k - 1] = k
      BY <1>1, <2>2
    <3> QED BY <3>1
  <2>3. k < i \/ k > i
    BY <1>1
  <2> HIDE DEF after, f
  <2> QED BY <2>1, <2>2, <2>3
<1>6. f \in Bijection(after, before \ {i})
  <2> HIDE DEF after, before, f
  <2> QED BY <1>3, <1>4, <1>5, Fun_IsBij
<1>7. ExistsBijection(after, before \ {i})
  <2> HIDE DEF after, before, f
  <2> QED BY <1>6 DEF ExistsBijection
<1>8. Cardinality(before \ {i}) = Cardinality(after)
  <2> HIDE DEF after, before
  <2> QED BY <1>2, <1>7, FS_Bijection
<1>9. Cardinality(before \ {i})
        = IF i \in before THEN Cardinality(before) - 1 ELSE Cardinality(before)
  <2> HIDE DEF before
  <2> QED BY <1>2, FS_RemoveElement
<1>10. i \in before <=> s[i] = m
  OBVIOUS
<1> QED
  BY <1>2, <1>8, <1>9, <1>10 DEF Occurrences

\* The first message of a queue is drained.
LEMMA OccurrencesTail ==
    ASSUME NEW T, NEW s \in Seq(T), s # <<>>, NEW m
    PROVE  Occurrences(Tail(s), m) = Occurrences(s, m) - (IF Head(s) = m THEN 1 ELSE 0)
<1>1. Len(s) \in Nat /\ Len(s) > 0
  BY LenProperties, EmptySeq
<1>2. /\ Tail(s) \in Seq(T) /\ Len(Tail(s)) = Len(s) - 1
      /\ \A j \in 1 .. Len(Tail(s)) : Tail(s)[j] = s[j + 1]
  BY HeadTailProperties
<1>3. PICK i \in 1 .. Len(s) : i = 1 /\ Head(s) = s[i]
  <2>1. 1 \in 1 .. Len(s) /\ Head(s) = s[1]
    BY <1>1
  <2> QED BY <2>1
<1> DEFINE t == Tail(s)
<1>4. t \in Seq(T) /\ Len(t) = Len(s) - 1
  BY <1>2
<1>5. \A j \in 1 .. i - 1 : t[j] = s[j]
  BY <1>3
<1>6. \A j \in i .. Len(t) : t[j] = s[j + 1]
  BY <1>2, <1>3
<1> HIDE DEF t
<1>7. Occurrences(t, m) = Occurrences(s, m) - (IF s[i] = m THEN 1 ELSE 0)
  BY <1>4, <1>5, <1>6, OccurrencesLess
<1> QED
  BY <1>3, <1>7 DEF t

\* A message is taken off a list that shows its text, whatever else is shown.
LEMMA OccurrencesRemoved ==
    ASSUME NEW T, NEW s \in Seq(T), NEW e, NEW m
    PROVE  Occurrences(RemoveFirst(s, e), m)
             = Occurrences(s, m) - (IF Contains(s, e) /\ e = m THEN 1 ELSE 0)
<1>1. CASE Contains(s, e)
  <2>1. PICK i \in 1 .. Len(s) :
           s[i] = e /\ RemoveFirst(s, e) = SubSeq(s, 1, i - 1) \o SubSeq(s, i + 1, Len(s))
    BY <1>1, RemovedFirst DEF Contains
  <2> DEFINE t == RemoveFirst(s, e)
             low == SubSeq(s, 1, i - 1)
             high == SubSeq(s, i + 1, Len(s))
  <2>2. Len(s) \in Nat /\ \A j \in 1 .. Len(s) : s[j] \in T
    BY LenProperties, ElementOfSeq
  <2>3. /\ low \in Seq(T) /\ Len(low) = i - 1
        /\ \A j \in 1 .. i - 1 : low[j] = s[j]
    <3>1. \A j \in 1 .. i - 1 : s[j] \in T
      BY <2>2
    <3>2. 1 \in Int /\ i - 1 \in Int /\ i - 1 >= 0
      BY <2>2
    <3>3. /\ low \in Seq(T)
          /\ Len(low) = IF 1 <= i - 1 THEN (i - 1) - 1 + 1 ELSE 0
          /\ \A j \in 1 .. (i - 1) - 1 + 1 : low[j] = s[1 + j - 1]
      BY <3>1, <3>2, SubSeqProperties
    <3> QED BY <3>2, <3>3
  <2>4. /\ high \in Seq(T) /\ Len(high) = Len(s) - i
        /\ \A j \in 1 .. Len(s) - i : high[j] = s[i + j]
    <3>1. \A j \in i + 1 .. Len(s) : s[j] \in T
      BY <2>2
    <3>2. i \in Int /\ i + 1 \in Int /\ Len(s) \in Int /\ Len(s) - i >= 0
      BY <2>2
    <3>3. /\ high \in Seq(T)
          /\ Len(high) = IF i + 1 <= Len(s) THEN Len(s) - (i + 1) + 1 ELSE 0
          /\ \A j \in 1 .. Len(s) - (i + 1) + 1 : high[j] = s[(i + 1) + j - 1]
      BY <3>1, <3>2, SubSeqProperties
    <3> QED BY <3>2, <3>3
  <2>5. t = low \o high
    BY <2>1
  <2> HIDE DEF t, low, high
  <2>6. /\ t \in Seq(T) /\ Len(t) = Len(low) + Len(high)
        /\ \A j \in 1 .. Len(low) + Len(high) :
              t[j] = IF j <= Len(low) THEN low[j] ELSE high[j - Len(low)]
    BY <2>3, <2>4, <2>5, ConcatProperties
  <2>7. Len(t) = Len(s) - 1
    BY <2>2, <2>3, <2>4, <2>6
  <2>8. \A j \in 1 .. i - 1 : t[j] = s[j]
    BY <2>2, <2>3, <2>4, <2>6
  <2>9. ASSUME NEW j \in i .. Len(t) PROVE t[j] = s[j + 1]
    <3>1. j - Len(low) \in 1 .. Len(s) - i /\ i + (j - Len(low)) = j + 1 /\ ~(j <= Len(low))
      BY <2>2, <2>3, <2>7
    <3>2. t[j] = high[j - Len(low)]
      BY <2>2, <2>3, <2>4, <2>6, <3>1
    <3> QED BY <2>4, <3>1, <3>2
  <2>10. Occurrences(t, m) = Occurrences(s, m) - (IF s[i] = m THEN 1 ELSE 0)
    <3>1. t \in Seq(T)
      BY <2>6
    <3> QED BY ONLY s \in Seq(T), i \in 1 .. Len(s), <3>1, <2>7, <2>8, <2>9, OccurrencesLess
  <2> QED BY <1>1, <2>1, <2>10 DEF t
<1>2. CASE ~Contains(s, e)
  <2>1. RemoveFirst(s, e) = s
    BY <1>2 DEF Contains, RemoveFirst
  <2>2. Occurrences(s, m) \in Nat
    BY OccurrencesType
  <2> QED BY <1>2, <2>1, <2>2
<1> QED
  BY <1>1, <1>2

\* A drained message is in hand.
LEMMA OccurrencesDrained ==
    ASSUME NEW T, NEW s \in Seq(T), s # <<>>, NEW m
    PROVE  Occurrences(Drain(s), m) + Occurrences(Tail(s), m) = Occurrences(s, m)
<1>1. Head(s) \in T
  BY HeadTailProperties
<1>2. Occurrences(Drain(s), m) = IF Head(s) = m THEN 1 ELSE 0
  BY <1>1, OccurrencesOne DEF Drain
<1>3. Occurrences(Tail(s), m) = Occurrences(s, m) - (IF Head(s) = m THEN 1 ELSE 0)
  BY OccurrencesTail
<1>4. Occurrences(s, m) \in Nat
  BY OccurrencesType
<1> QED
  BY <1>2, <1>3, <1>4

-----------------------------------------------------------------------------
(* The lists of the user and the queues of the agent. *)

Shown(m) == Occurrences(steeringMessages, m) + Occurrences(followUpMessages, m)
Pending(m) ==
    Occurrences(steeringQueue, m) + Occurrences(followUpQueue, m) + Occurrences(inFlight, m)

\* The run has messages in hand only until it asks the model, so a drain never
\* replaces one that was not emitted.
HandsInv == run \notin {"prompting", "injecting"} => inFlight = <<>>

\* Every step keeps it so.
LEMMA HandsStep ==
    ASSUME HandsInv, [Next]_vars
    PROVE  HandsInv'
<1>1. ASSUME NEW c \in Callers, Submit(c) \/ Prepare(c) \/ Unauthorized(c) \/ PreCheck(c) \/
                             PreCompact(c) \/ PostRun(c) \/ SleepOver(c) \/ PostCheck(c)
      PROVE  HandsInv'
  BY <1>1 DEF Submit, Prepare, Unauthorized, PreCheck, PreCompact, PostRun, SleepOver, PostCheck,
              queueVars, runVars, HandsInv
<1>2. ASSUME NEW c \in Callers, CompactRetry(c) \/ CompactFails(c) \/ Finally(c) \/ Settled(c)
                             \/ Join(c)
      PROVE  HandsInv'
  BY <1>2 DEF CompactRetry, CompactFails, Finally, Settled, Join, QueueSteer, QueueFollowUp,
              queueVars, runVars, HandsInv
<1>3. ASSUME Steer \/ SteerCustom \/ ClearQueue \/ RecordBash \/ SendCustom \/ Abort \/ Compact
          \/ CompactEnd
      PROVE  HandsInv'
  BY <1>3 DEF Steer, QueueSteer, QueueFollowUp, SteerCustom, ClearQueue, RecordBash, SendCustom,
              Abort, Compact, StopWork, CompactEnd, queueVars, runVars, HandsInv
<1>4. ASSUME ToolsDone \/ TurnEnd \/ EmitAgentEnd \/ FinishRun PROVE HandsInv'
  BY <1>4 DEF ToolsDone, TurnEnd, EmitAgentEnd, FinishRun, queueVars, HandsInv
<1>5. ASSUME NEW kind \in Assistant, Respond(kind) PROVE HandsInv'
  BY <1>5 DEF Respond, queueVars, HandsInv
<1>6. ASSUME NEW c \in Callers, Trigger(c) \/ StartRun(c) PROVE HandsInv'
  BY <1>6 DEF Trigger, StartRun, RunAgentPrompt, BeginRun, runVars, HandsInv
<1>7. ASSUME NEW c \in Callers, Continue(c) PROVE HandsInv'
  BY <1>7 DEF Continue, BeginRun, runVars, HandsInv
<1>8. ASSUME Deliver PROVE HandsInv'
  BY <1>8 DEF Deliver, runVars, HandsInv
<1>9. ASSUME Poll PROVE HandsInv'
  BY <1>9 DEF Poll, TakeNothing, HandsInv
<1>10. CASE UNCHANGED vars
  BY <1>10 DEF vars, queueVars, runVars, HandsInv
<1> QED
  BY <1>1, <1>2, <1>3, <1>4, <1>5, <1>6, <1>7, <1>8, <1>9, <1>10
  DEF Next, UserCall, RunStep, CallerStep

\* How often a text is anywhere is a number.
LEMMA CountsAreNumbers ==
    ASSUME QueuesOK, NEW m
    PROVE  /\ Occurrences(steeringMessages, m) \in Nat /\ Occurrences(followUpMessages, m) \in Nat
           /\ Occurrences(steeringQueue, m) \in Nat /\ Occurrences(followUpQueue, m) \in Nat
           /\ Occurrences(inFlight, m) \in Nat
BY OccurrencesType DEF QueuesOK

\* A message is queued and shown at once.
LEMMA PendingQueued ==
    ASSUME QueuesOK, NEW e \in Text, QueueSteer(e) \/ QueueFollowUp(e), NEW m, Shown(m) <= Pending(m)
    PROVE  Shown(m)' <= Pending(m)'
<1> DEFINE one == IF e = m THEN 1 ELSE 0
<1>1. one \in Nat /\ e \in Message
  BY DEF Message
<1>2. /\ Occurrences(Append(steeringMessages, e), m) = Occurrences(steeringMessages, m) + one
      /\ Occurrences(Append(followUpMessages, e), m) = Occurrences(followUpMessages, m) + one
      /\ Occurrences(Append(steeringQueue, e), m) = Occurrences(steeringQueue, m) + one
      /\ Occurrences(Append(followUpQueue, e), m) = Occurrences(followUpQueue, m) + one
  BY <1>1, OccurrencesAppend DEF QueuesOK
<1> HIDE DEF one
<1>3. CASE QueueSteer(e)
  BY <1>1, <1>2, <1>3, CountsAreNumbers DEF QueueSteer, Shown, Pending
<1>4. CASE QueueFollowUp(e)
  BY <1>1, <1>2, <1>4, CountsAreNumbers DEF QueueFollowUp, Shown, Pending
<1> QED
  BY <1>3, <1>4

\* Draining a queue while nothing is in hand moves a message.
LEMMA PendingDrained ==
    ASSUME QueuesOK, inFlight = <<>>, TakeSteering \/ TakeFollowUps, NEW m,
           UNCHANGED <<steeringMessages, followUpMessages>>, Shown(m) <= Pending(m)
    PROVE  Shown(m)' <= Pending(m)'
<1>1. Occurrences(inFlight, m) = 0
  BY OccurrencesEmpty
<1>2. CASE TakeSteering
  <2>1. Occurrences(inFlight', m) + Occurrences(steeringQueue', m) = Occurrences(steeringQueue, m)
    BY <1>2, OccurrencesDrained DEF TakeSteering, QueuesOK
  <2>2. Occurrences(inFlight', m) \in Nat /\ Occurrences(steeringQueue', m) \in Nat
    <3>1. inFlight' \in Seq(Message) /\ steeringQueue' \in Seq(Message)
      BY <1>2, Drained DEF TakeSteering, QueuesOK
    <3> QED BY <3>1, OccurrencesType
  <2>3. followUpQueue' = followUpQueue
    BY <1>2 DEF TakeSteering
  <2> QED BY <1>1, <2>1, <2>2, <2>3, CountsAreNumbers DEF Shown, Pending
<1>3. CASE TakeFollowUps
  <2>1. Occurrences(inFlight', m) + Occurrences(followUpQueue', m) = Occurrences(followUpQueue, m)
    BY <1>3, OccurrencesDrained DEF TakeFollowUps, QueuesOK
  <2>2. Occurrences(inFlight', m) \in Nat /\ Occurrences(followUpQueue', m) \in Nat
    <3>1. inFlight' \in Seq(Message) /\ followUpQueue' \in Seq(Message)
      BY <1>3, Drained DEF TakeFollowUps, QueuesOK
    <3> QED BY <3>1, OccurrencesType
  <2>3. steeringQueue' = steeringQueue
    BY <1>3 DEF TakeFollowUps
  <2> QED BY <1>1, <2>1, <2>2, <2>3, CountsAreNumbers DEF Shown, Pending
<1> QED
  BY <1>2, <1>3

\* Taking a text off: once, if a list shows it; no other text is touched.
LEMMA ShownLess ==
    ASSUME QueuesOK, NEW e, TakeOff(e), NEW m, m # NoText
    PROVE  Shown(m)' = Shown(m) - (IF e = m /\ Shown(m) > 0 THEN 1 ELSE 0)
<1>1. /\ Occurrences(RemoveFirst(steeringMessages, e), m)
            = Occurrences(steeringMessages, m)
              - (IF Contains(steeringMessages, e) /\ e = m THEN 1 ELSE 0)
      /\ Occurrences(RemoveFirst(followUpMessages, e), m)
            = Occurrences(followUpMessages, m)
              - (IF Contains(followUpMessages, e) /\ e = m THEN 1 ELSE 0)
  BY OccurrencesRemoved DEF QueuesOK
<1>2. CASE e # m
  <2>1. /\ Occurrences(steeringMessages', m) = Occurrences(steeringMessages, m)
        /\ Occurrences(followUpMessages', m) = Occurrences(followUpMessages, m)
    BY <1>1, <1>2, CountsAreNumbers DEF TakeOff
  <2> QED BY <1>2, <2>1, CountsAreNumbers DEF Shown
<1>3. CASE e = m
  <2>1. CASE Contains(steeringMessages, m)
    <3>1. /\ Occurrences(steeringMessages', m) = Occurrences(steeringMessages, m) - 1
          /\ followUpMessages' = followUpMessages
      BY <1>1, <1>3, <2>1 DEF TakeOff
    <3>2. Occurrences(steeringMessages, m) > 0
      BY <2>1, OccurrencesSome DEF QueuesOK
    <3> QED BY <1>3, <3>1, <3>2, CountsAreNumbers DEF Shown
  <2>2. CASE ~Contains(steeringMessages, m) /\ Contains(followUpMessages, m)
    <3>1. /\ Occurrences(steeringMessages', m) = Occurrences(steeringMessages, m)
          /\ Occurrences(followUpMessages', m) = Occurrences(followUpMessages, m) - 1
      BY <1>1, <1>3, <2>2, CountsAreNumbers DEF TakeOff
    <3>2. Occurrences(followUpMessages, m) > 0
      BY <2>2, OccurrencesSome DEF QueuesOK
    <3> QED BY <1>3, <3>1, <3>2, CountsAreNumbers DEF Shown
  <2>3. CASE ~Contains(steeringMessages, m) /\ ~Contains(followUpMessages, m)
    <3>1. Occurrences(steeringMessages, m) = 0 /\ Occurrences(followUpMessages, m) = 0
      BY <2>3, OccurrencesNone
    <3>2. /\ RemoveFirst(steeringMessages, m) = steeringMessages
          /\ RemoveFirst(followUpMessages, m) = followUpMessages
      BY <2>3 DEF Contains, RemoveFirst
    <3>3. UNCHANGED <<steeringMessages, followUpMessages>>
      BY <1>3, <2>3, <3>2 DEF TakeOff
    <3> QED BY <3>1, <3>3 DEF Shown
  <2> QED BY <2>1, <2>2, <2>3
<1> QED
  BY <1>2, <1>3

\* A message leaves the hands of the run and the lists together.
LEMMA PendingDelivered ==
    ASSUME QueuesOK, Deliver, NEW m \in Texts \ {NoText}, Shown(m) <= Pending(m)
    PROVE  Shown(m)' <= Pending(m)'
<1> DEFINE e == Head(inFlight)
<1>1. inFlight # <<>> /\ inFlight' = Tail(inFlight) /\ UNCHANGED <<steeringQueue, followUpQueue>>
  BY DEF Deliver
<1>2. Occurrences(inFlight', m) = Occurrences(inFlight, m) - (IF e = m THEN 1 ELSE 0)
  BY <1>1, OccurrencesTail DEF QueuesOK
<1>3. CASE FromUser(e)
  <2>1. TakeOff(e)
    BY <1>3 DEF Deliver
  <2>2. Shown(m)' = Shown(m) - (IF e = m /\ Shown(m) > 0 THEN 1 ELSE 0)
    BY <2>1, ShownLess
  <2>3. Shown(m) \in Nat
    BY CountsAreNumbers DEF Shown
  <2>4. Pending(m)' = Pending(m) - (IF e = m THEN 1 ELSE 0) /\ Pending(m)' >= 0
    <3>1. Occurrences(inFlight', m) \in Nat
      <4>1. inFlight' \in Seq(Message)
        BY <1>1, HeadTailProperties DEF QueuesOK
      <4> QED BY <4>1, OccurrencesType
    <3> HIDE DEF e
    <3> QED BY <1>1, <1>2, <3>1, CountsAreNumbers DEF Pending
  <2>5. Pending(m) \in Nat
    BY CountsAreNumbers DEF Pending
  <2> HIDE DEF e
  <2> QED BY <2>2, <2>3, <2>4, <2>5
<1>4. CASE ~FromUser(e)
  <2>1. UNCHANGED <<steeringMessages, followUpMessages>>
    BY <1>4 DEF Deliver
  <2>2. e # m
    BY <1>4, SessionAssumption DEF FromUser, SessionAssumption
  <2> HIDE DEF e
  <2> QED BY <1>1, <1>2, <2>1, <2>2, CountsAreNumbers DEF Shown, Pending
<1> QED
  BY <1>3, <1>4

\* Every step keeps the lists below the queues.
LEMMA ShownStep ==
    ASSUME QueuesOK, CallersOK, HandsInv, [Next]_vars,
           NEW m \in Texts \ {NoText}, Shown(m) <= Pending(m)
    PROVE  Shown(m)' <= Pending(m)'
<1>1. ASSUME UNCHANGED queueVars PROVE Shown(m)' <= Pending(m)'
  BY <1>1 DEF queueVars, Shown, Pending
<1>2. ASSUME NEW c \in Callers, Submit(c) \/ Prepare(c) \/ Unauthorized(c) \/ PreCheck(c) \/
                             PreCompact(c) \/ PostRun(c) \/ SleepOver(c) \/ PostCheck(c)
      PROVE  UNCHANGED queueVars
  BY <1>2 DEF Submit, Prepare, Unauthorized, PreCheck, PreCompact, PostRun, SleepOver, PostCheck
<1>3. ASSUME NEW c \in Callers, CompactRetry(c) \/ CompactFails(c) \/ Finally(c) \/ Settled(c)
      PROVE  UNCHANGED queueVars
  BY <1>3 DEF CompactRetry, CompactFails, Finally, Settled
<1>4. ASSUME RecordBash \/ SendCustom \/ Abort \/ Compact \/ CompactEnd \/ ToolsDone \/ TurnEnd
          \/ EmitAgentEnd \/ FinishRun
      PROVE  UNCHANGED queueVars
  BY <1>4 DEF RecordBash, SendCustom, Abort, Compact, StopWork, CompactEnd, ToolsDone, TurnEnd,
              EmitAgentEnd, FinishRun
<1>5. ASSUME NEW kind \in Assistant, Respond(kind) PROVE UNCHANGED queueVars
  BY <1>5 DEF Respond
<1>6. ASSUME Steer PROVE Shown(m)' <= Pending(m)'
  <2>1. PICK e \in Texts : QueueSteer(e) \/ QueueFollowUp(e)
    BY <1>6 DEF Steer
  <2>2. e \in Text
    BY DEF Text
  <2> QED BY <2>1, <2>2, PendingQueued
<1>7. ASSUME NEW c \in Callers, Join(c) PROVE Shown(m)' <= Pending(m)'
  <2>1. text[c] \in Text
    BY DEF CallersOK
  <2>2. QueueSteer(text[c]) \/ QueueFollowUp(text[c]) \/ UNCHANGED queueVars
    BY <1>7 DEF Join
  <2> QED BY <1>1, <2>1, <2>2, PendingQueued
<1>8. ASSUME SteerCustom PROVE Shown(m)' <= Pending(m)'
  <2>1. CustomMessage # m /\ CustomMessage \in Message
    BY SessionAssumption DEF SessionAssumption, Message
  <2>2. /\ Occurrences(Append(steeringQueue, CustomMessage), m) = Occurrences(steeringQueue, m)
        /\ Occurrences(Append(followUpQueue, CustomMessage), m) = Occurrences(followUpQueue, m)
    <3>1. /\ Occurrences(Append(steeringQueue, CustomMessage), m) = Occurrences(steeringQueue, m) + 0
          /\ Occurrences(Append(followUpQueue, CustomMessage), m) = Occurrences(followUpQueue, m) + 0
      BY <2>1, OccurrencesAppend DEF QueuesOK
    <3> QED BY <3>1, CountsAreNumbers
  <2>3. /\ UNCHANGED <<steeringMessages, followUpMessages, inFlight>>
        /\ \/ steeringQueue' = Append(steeringQueue, CustomMessage) /\ UNCHANGED followUpQueue
           \/ followUpQueue' = Append(followUpQueue, CustomMessage) /\ UNCHANGED steeringQueue
    BY <1>8 DEF SteerCustom
  <2>4. /\ Occurrences(steeringQueue', m) = Occurrences(steeringQueue, m)
        /\ Occurrences(followUpQueue', m) = Occurrences(followUpQueue, m)
    <3>1. CASE steeringQueue' = Append(steeringQueue, CustomMessage) /\ followUpQueue' = followUpQueue
      BY <2>2, <3>1
    <3>2. CASE followUpQueue' = Append(followUpQueue, CustomMessage) /\ steeringQueue' = steeringQueue
      BY <2>2, <3>2
    <3> QED BY <2>3, <3>1, <3>2
  <2> QED BY <2>3, <2>4 DEF Shown, Pending
<1>9. ASSUME ClearQueue PROVE Shown(m)' <= Pending(m)'
  <2>1. /\ steeringMessages' = <<>> /\ followUpMessages' = <<>> /\ steeringQueue' = <<>>
        /\ followUpQueue' = <<>> /\ inFlight' = inFlight
    BY <1>9 DEF ClearQueue
  <2>2. Occurrences(<<>>, m) = 0
    BY OccurrencesEmpty
  <2> QED BY <2>1, <2>2, CountsAreNumbers DEF Shown, Pending
<1>10. ASSUME NEW c \in Callers, Trigger(c) \/ StartRun(c) PROVE Shown(m)' <= Pending(m)'
  <2>1. PICK e \in Message : RunAgentPrompt(c, e)
    <3>1. CustomMessage \in Message /\ text[c] \in Message
      BY DEF Message, CallersOK
    <3> QED BY <1>10, <3>1 DEF Trigger, StartRun
  <2>2. UNCHANGED <<steeringMessages, followUpMessages, steeringQueue, followUpQueue>>
    BY <2>1 DEF RunAgentPrompt
  <2>3. inFlight' = inFlight \/ (inFlight = <<>> /\ inFlight' = <<e>>)
    BY <2>1 DEF RunAgentPrompt, BeginRun, HandsInv
  <2>4. inFlight = <<>> => Occurrences(inFlight, m) = 0
    BY OccurrencesEmpty
  <2>5. Occurrences(<<e>>, m) \in Nat
    BY OccurrencesOne
  <2> QED BY <2>2, <2>3, <2>4, <2>5, CountsAreNumbers DEF Shown, Pending
<1>11. ASSUME NEW c \in Callers, Continue(c) PROVE Shown(m)' <= Pending(m)'
  <2>1. UNCHANGED <<steeringMessages, followUpMessages>>
    BY <1>11 DEF Continue
  <2>2. \/ UNCHANGED queueVars
        \/ inFlight = <<>> /\ (TakeSteering \/ TakeFollowUps)
    BY <1>11 DEF Continue, BeginRun, HandsInv, TakeSteering, TakeFollowUps, queueVars
  <2> QED BY <1>1, <2>1, <2>2, PendingDrained
<1>12. ASSUME Poll PROVE Shown(m)' <= Pending(m)'
  <2>1. UNCHANGED <<steeringMessages, followUpMessages>>
    BY <1>12 DEF Poll
  <2>2. \/ UNCHANGED queueVars
        \/ inFlight = <<>> /\ (TakeSteering \/ TakeFollowUps)
    BY <1>12 DEF Poll, TakeNothing, HandsInv, queueVars
  <2> QED BY <1>1, <2>1, <2>2, PendingDrained
<1>13. ASSUME Deliver PROVE Shown(m)' <= Pending(m)'
  BY <1>13, PendingDelivered
<1>14. ASSUME UNCHANGED vars PROVE UNCHANGED queueVars
  BY <1>14 DEF vars
<1> QED
  BY <1>1, <1>2, <1>3, <1>4, <1>5, <1>6, <1>7, <1>8, <1>9, <1>10, <1>11, <1>12, <1>13, <1>14
  DEF Next, UserCall, RunStep, CallerStep

\* What the user is shown as queued is still to come: a delivered message never stays
\* listed, however equal texts, drains, clears and prompts follow each other.  An
\* image alone has no text and is excepted (agent-session.ts:627).
THEOREM DeliveredIsNotShown == Spec => []ShownIsPending
<1>1. Init => HandsInv /\ ShownIsPending
  <2> SUFFICES ASSUME Init PROVE HandsInv /\ ShownIsPending
    OBVIOUS
  <2>1. /\ steeringMessages = <<>> /\ followUpMessages = <<>> /\ steeringQueue = <<>>
        /\ followUpQueue = <<>> /\ inFlight = <<>>
    BY DEF Init
  <2>2. \A m : Occurrences(<<>>, m) = 0
    BY OccurrencesEmpty
  <2> QED BY <2>1, <2>2 DEF HandsInv, ShownIsPending
<1>2. TypeOK /\ HandsInv /\ ShownIsPending /\ [Next]_vars => (HandsInv /\ ShownIsPending)'
  <2> SUFFICES ASSUME TypeOK, HandsInv, ShownIsPending, [Next]_vars
               PROVE  HandsInv' /\ ShownIsPending'
    OBVIOUS
  <2>1. \A m \in Texts \ {NoText} : Shown(m) <= Pending(m)
    BY DEF ShownIsPending, Shown, Pending
  <2>2. \A m \in Texts \ {NoText} : Shown(m)' <= Pending(m)'
    BY <2>1, ShownStep DEF TypeOK
  <2>3. ShownIsPending'
    BY <2>2 DEF ShownIsPending, Shown, Pending
  <2> QED BY <2>3, HandsStep
<1> QED
  BY <1>1, <1>2, TypeCorrect, PTL DEF Spec

=============================================================================
