------------------------ MODULE MCTransformMessages ------------------------
(***************************************************************************)
(* The repair on every short conversation.  A saved session may have been   *)
(* forked, compacted or cut off anywhere, so a result may be missing, late  *)
(* or repeated, and the conversation grows by any message at all.           *)
(***************************************************************************)
EXTENDS TransformMessages

CONSTANTS
    Ids,        \* identities of tool calls
    MaxLength   \* bound: messages in the conversation

VARIABLE conversation

Messages ==
    {User("text")}
        \cup {Assistant(calls, stop) :
                calls \in {<<>>} \cup {<<c>> : c \in Ids}
                            \cup {<<c, d>> : c, d \in Ids},
                stop \in {"stop", "error"}}
        \cup {ToolResult(c) : c \in Ids}

WellFormed(msg) ==
    Role(msg) = "assistant" => Cardinality(ToSet(msg.calls)) = Len(msg.calls)

Init == conversation = <<>>

Extend(msg) ==
    /\ Len(conversation) < MaxLength
    /\ conversation' = Append(conversation, msg)

Next == \E msg \in {m \in Messages : WellFormed(m)} : Extend(msg)

Spec == Init /\ [][Next]_conversation

-----------------------------------------------------------------------------
\* Every call of a replayed assistant message is answered before the next user
\* or assistant message, whatever the history lacks (transform-messages.ts:159).
\* So a repaired conversation needs no repair when it is sent again.
EveryCallAnswered ==
    LET out == Transform(conversation)
    IN  \A i \in DOMAIN out :
            Role(out[i]) = "assistant" =>
                /\ ~IsSkipped(out[i])
                /\ ToSet(out[i].calls) \subseteq ToSet(BlockCalls(out, i))

\* The repair adds results and drops the skipped messages; it reorders nothing
\* and loses nothing else (transform-messages.ts:183).
KeepsTheRest ==
    LET out == Transform(conversation)
        kept == {m \in Messages :
                    Role(m) = "user" \/ (Role(m) = "assistant" /\ ~IsSkipped(m))}
        Answers(conv, c) == {i \in DOMAIN conv : conv[i] = ToolResult(c)}
    IN  /\ Keeping(kept, out) = Keeping(kept, conversation)
        /\ \A c \in Ids :
              Cardinality(Answers(out, c)) >= Cardinality(Answers(conversation, c))

=============================================================================
