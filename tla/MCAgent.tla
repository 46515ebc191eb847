------------------------------ MODULE MCAgent ------------------------------
(***************************************************************************)
(* Agent for TLC: batches of several calls with few prompts and steering     *)
(* messages, or several messages of every lane with single calls and the     *)
(* drain modes of the queues exchanged.                                      *)
(***************************************************************************)
EXTENDS Agent

CONSTANT ToolMsgs   \* the messages around batches of several calls

VARIABLE part

Queues ==
    INSTANCE Agent WITH
        SteeringMode <- FollowUpMode, FollowUpMode <- SteeringMode,
        MaxCalls <- 1, MaxToolTurns <- 1

RunsInit == part \in {"tools", "queues"} /\ Init
RunsNext ==
    \/ /\ part = "tools" /\ Next /\ UNCHANGED part
       /\ Len(submitted') <= ToolMsgs /\ followUpQueue' = <<>>
    \/ part = "queues" /\ Queues!Next /\ UNCHANGED part
RunsSpec == RunsInit /\ [][RunsNext]_<<part, vars>>
=============================================================================
