------------------------- MODULE TransformMessages -------------------------
(***************************************************************************)
(* The conversation repair that every provider request goes through         *)
(* (packages/ai/src/api/transform-messages.ts, second pass): errored and    *)
(* aborted assistant messages are not replayed, and a tool call that was    *)
(* never answered gets a synthetic result before the conversation moves on. *)
(*                                                                         *)
(* A conversation is a sequence of                                          *)
(*   [role |-> "user", id |-> m]                                            *)
(*   [role |-> "assistant", calls |-> <<call ids>>, stop |-> reason]        *)
(*   [role |-> "toolResult", call |-> c]                                    *)
(* The first pass (images, thinking blocks, identifier normalisation)       *)
(* rewrites contents only and is left out.                                  *)
(***************************************************************************)
EXTENDS Naturals, Sequences, SequencesExt

\* "stop" stands for every reason that neither cuts the message off nor fails it.
StopReasons == {"stop", "length", "error", "aborted"}

User(m) == [role |-> "user", id |-> m]
Assistant(calls, stop) == [role |-> "assistant", calls |-> calls, stop |-> stop]
ToolResult(c) == [role |-> "toolResult", call |-> c]

Role(msg) == msg.role
IsSkipped(msg) == msg.stop \in {"error", "aborted"}

\* The members of s that are in S, in their order.
Keeping(S, s) ==
    FoldLeft(LAMBDA kept, x : IF x \in S THEN Append(kept, x) ELSE kept, <<>>, s)

\* The state of the pass: the output so far, the calls of the last replayed
\* assistant message and the results seen since.
PassStart == [out |-> <<>>, pending |-> <<>>, seen |-> {}]

\* insertSyntheticToolResults: answer, in order, what nobody answered.
InsertSynthetic(s) ==
    LET missing == Keeping(ToSet(s.pending) \ s.seen, s.pending)
        synthetic == [i \in DOMAIN missing |-> ToolResult(missing[i])]
    IN [out |-> s.out \o synthetic, pending |-> <<>>,
        seen |-> IF s.pending = <<>> THEN s.seen ELSE {}]

\* A bug: a message without tool calls is taken for an empty one.
PassCallingAssistant(s, msg) ==
    LET flushed == InsertSynthetic(s)
    IN  IF IsSkipped(msg) \/ msg.calls = <<>>
        THEN flushed
        ELSE [out |-> Append(flushed.out, msg), pending |-> msg.calls, seen |-> {}]

PassAssistant(s, msg) ==
    LET flushed == InsertSynthetic(s)
    IN  IF IsSkipped(msg)
        THEN flushed
        ELSE [out |-> Append(flushed.out, msg),
              pending |-> msg.calls,
              seen |-> IF msg.calls = <<>> THEN flushed.seen ELSE {}]

PassResult(s, msg) ==
    [s EXCEPT !.out = Append(@, msg), !.seen = @ \cup {msg.call}]

\* A bug: the user's message interrupts the tool flow and nothing is inserted.
PassUserPlain(s, msg) == [s EXCEPT !.out = Append(@, msg)]

PassUser(s, msg) ==
    LET flushed == InsertSynthetic(s) IN [flushed EXCEPT !.out = Append(@, msg)]

PassStep(s, msg) ==
    CASE Role(msg) = "assistant"  -> PassAssistant(s, msg)
      [] Role(msg) = "toolResult" -> PassResult(s, msg)
      [] OTHER                    -> PassUser(s, msg)

PassState(messages) == FoldLeft(PassStep, PassStart, messages)

Transform(messages) == InsertSynthetic(PassState(messages)).out

(***************************************************************************)
(* What a provider accepts.  The block of an assistant message is the run   *)
(* of tool results that directly follows it.                                *)
(***************************************************************************)
BlockEnd(conv, i) ==
    CHOOSE j \in i .. Len(conv) :
        /\ \A k \in (i + 1) .. j : Role(conv[k]) = "toolResult"
        /\ j < Len(conv) => Role(conv[j + 1]) # "toolResult"

BlockCalls(conv, i) ==
    [k \in 1 .. (BlockEnd(conv, i) - i) |-> conv[i + k].call]

\* Every call is answered exactly once, directly after the message that made it.
AllAnswered(conv) ==
    \A i \in DOMAIN conv :
        Role(conv[i]) = "assistant" =>
            /\ ToSet(conv[i].calls) = ToSet(BlockCalls(conv, i))
            /\ Len(conv[i].calls) = Len(BlockCalls(conv, i))

\* Every result belongs to a call of the assistant message its block follows.
NoStrayResult(conv) ==
    \A i \in DOMAIN conv :
        Role(conv[i]) = "toolResult" =>
            \E a \in 1 .. (i - 1) :
                /\ Role(conv[a]) = "assistant"
                /\ conv[i].call \in ToSet(conv[a].calls)
                /\ \A k \in (a + 1) .. i : Role(conv[k]) = "toolResult"

WellPaired(conv) == AllAnswered(conv) /\ NoStrayResult(conv)

=============================================================================
