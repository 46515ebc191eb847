--------------------------- MODULE MCAgentSession ---------------------------
(***************************************************************************)
(* AgentSession for TLC: several callers race with few messages, or one      *)
(* prompts while several messages, with and without text, are queued in a    *)
(* session whose turns are neither retried nor call tools.                   *)
(***************************************************************************)
EXTENDS AgentSession

CONSTANTS QueueSubmits, QueueTexts   \* the messages that are queued

VARIABLE part

Queueing ==
    INSTANCE AgentSession WITH
        MaxSubmits <- QueueSubmits, Texts <- QueueTexts,
        MaxRetries <- 0, MaxToolTurns <- 0, MaxContexts <- 0

Busy == {c \in Callers : pc[c] # "idle"}

UseInit == part \in {"race", "queueing"} /\ Init
UseNext ==
    \/ part = "race" /\ Next /\ UNCHANGED part
    \/ part = "queueing" /\ Queueing!Next /\ Cardinality(Busy') <= 1 /\ UNCHANGED part
UseSpec == UseInit /\ [][UseNext]_<<part, vars>>

\* Neither callers nor texts are told apart by anything but the state.
Symmetry == Permutations(Callers) \cup Permutations(Texts)
=============================================================================
