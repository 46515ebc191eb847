----------------------------- MODULE MCProgress -----------------------------
(***************************************************************************)
(* Progress of the agent, of the live sessions with one connection and of    *)
(* the agent session with one caller, in one run.  They share no state: a    *)
(* behaviour is one of them, and the others stay as they began.              *)
(***************************************************************************)
EXTENDS Integers, Sequences

CONSTANTS
    MaxMsgs, SteeringMode, FollowUpMode, MaxCalls, MaxCallTurns, MaxRuns, MaxFailures,   \* of Agent
    Conns, LiveIds, Reqs, MaxRuntimes,                                      \* of LiveSessions
    Callers, NoCaller, Texts, NoText, CustomMessage,                        \* of AgentSession
    MaxRetries, MaxSubmits, MaxToolTurns, MaxContexts

VARIABLES
    part,   \* the component that runs
    messages, steers, followUps, active, aborted, pendingToolCalls, loop, context, pending, skipPoll,
    hasMoreToolCalls, failing, mode, calls, st, terminating, answered, orphans, callTurns, runs,
    failures, submitted, dropped,
    conn, sessionIds, liveSessions, openingSessions, live, req, closing, awaited,
    isAgentRunActive, steeringMessages, followUpMessages, pendingBash, pendingCustom, lastAssistant,
    retryAttempt, overflowRecoveryAttempted, sleeper, compactor, aborter, run, owner, signal, reply,
    inFlight, steeringQueue, followUpQueue, trail, saved, fresh, pc, held, text, submits, toolTurns,
    contexts, announced, raced, split

\* The variables of the agent that the agent session has its own of.
Agent ==
    INSTANCE Agent WITH
        MaxToolTurns <- MaxCallTurns, steeringQueue <- steers, followUpQueue <- followUps,
        pc <- loop, toolTurns <- callTurns
Live == INSTANCE LiveSessions WITH Ids <- LiveIds
Session == INSTANCE AgentSession

agentVars ==
    <<messages, steers, followUps, active, aborted, pendingToolCalls, loop, context, pending,
      skipPoll, hasMoreToolCalls, failing, mode, calls, st, terminating, answered, orphans,
      callTurns, runs, failures, submitted, dropped>>
liveVars == <<conn, sessionIds, liveSessions, openingSessions, live, req, closing, awaited>>
sessionVars ==
    <<isAgentRunActive, steeringMessages, followUpMessages, pendingBash, pendingCustom,
      lastAssistant, retryAttempt, overflowRecoveryAttempted, sleeper, compactor, aborter, run,
      owner, signal, reply, inFlight, steeringQueue, followUpQueue, trail, saved, fresh, pc, held, text,
      submits, toolTurns, contexts, announced, raced, split>>
vars == <<part, agentVars, liveVars, sessionVars>>

Init ==
    /\ part \in {"agent", "live", "session"}
    /\ Agent!Init /\ Live!Init /\ Session!Init

OnlyAgent == part = "agent" /\ UNCHANGED <<part, liveVars, sessionVars>>
OnlyLive == part = "live" /\ UNCHANGED <<part, agentVars, sessionVars>>
OnlySession == part = "session" /\ UNCHANGED <<part, agentVars, liveVars>>

Next ==
    \/ OnlyAgent /\ Agent!Next
    \/ OnlyLive /\ \E q \in Reqs : Live!RequestStep(q)
    \/ OnlyLive /\ \E r \in 1 .. MaxRuntimes : Live!SessionStep(r)
    \/ OnlyLive /\ Live!CloseStep
    \/ OnlyLive /\ Live!Environment
    \/ OnlySession /\ Session!UserCall
    \/ OnlySession /\ Session!RunStep
    \/ OnlySession /\ Session!CompactEnd
    \/ OnlySession /\ \E c \in Callers : Session!CallerStep(c)

Spec == Init /\ [][Next]_vars

-----------------------------------------------------------------------------
(* The properties are those of the modules, where they are explained: of the *)
(* component that runs, and under the fairness that is assumed of it.        *)

\* A run of the agent (agent.ts, runWithLifecycle).
RunSettles == part = "agent" /\ Agent!Fairness => Agent!RunSettles

\* Live sessions nobody uses (sessions.ts, maybeDispose).
UnusedReleased == part = "live" /\ Live!Fairness => Live!UnusedReleased
\* Live sessions when the server closes (sessions.ts, close).
RuntimesReleased == part = "live" /\ Live!Fairness => Live!RuntimesReleased

\* A prompt ends (agent-session.ts, _runAgentPrompt).
PromptsEnd == part = "session" /\ Session!Fairness => Session!PromptsEnd
\* A wait for the session to be idle ends (agent-session.ts, _resolveIdleWaitIfIdle).
WaitersGoOn == part = "session" /\ Session!Fairness => Session!WaitersGoOn
=============================================================================
