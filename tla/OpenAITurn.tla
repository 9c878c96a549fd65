----------------------------- MODULE OpenAITurn -----------------------------
(***************************************************************************)
(* StreamCompletion (internal/translate/openai_response.go): the events of *)
(* the upstream as chat.completion.chunk frames.                           *)
(***************************************************************************)
EXTENDS Turn

VARIABLES
    toolIndex,
    finishReason,  \* "none" once an error has ended the turn (nil)
    includeUsage   \* stream_options.include_usage of the request

openai == <<toolIndex, finishReason, includeUsage>>

Chunks == [frame  : {"role", "content", "reasoning_content", "tool_calls",
                     "error", "final", "usage", "[DONE]"},
           index  : Nat, data : Nat,
           reason : {"stop", "tool_calls", "length", "none"}]
Chunk(kind, i, d) == [frame |-> kind, index |-> i, data |-> d, reason |-> "none"]
Final(reason) == [frame |-> "final", index |-> 0, data |-> 0, reason |-> reason]
Role == Chunk("role", 0, 0)
DONE == Chunk("[DONE]", 0, 0)

CompletionInit ==
    /\ TurnInit /\ todo = <<Role>>
    /\ toolIndex = 0 /\ finishReason = "stop" /\ includeUsage \in BOOLEAN

\* A text or reasoning delta: an empty one gives no chunk.
CompletionOnDelta ==
    \E e \in EventsAt(Len(events) + 1) :
        /\ e.type \in {"text-delta", "reasoning-delta"} /\ Takes(e)
        /\ todo' = IF e.data = 0 THEN <<>>
                   ELSE <<Chunk(IF e.type = "text-delta" THEN "content"
                                ELSE "reasoning_content", 0, e.data)>>
        /\ UNCHANGED <<openai, sawTool, usage, phase, out>>

\* Mutant of CompletionOnToolCall: the index of the calls is not counted.
CompletionOnToolCallSameIndex ==
    \E e \in EventsAt(Len(events) + 1) :
        /\ e.type = "tool-call" /\ Takes(e)
        /\ sawTool' = TRUE
        /\ todo' = <<Chunk("tool_calls", toolIndex, e.data)>>
        /\ UNCHANGED <<openai, usage, phase, out>>

CompletionOnToolCall ==
    \E e \in EventsAt(Len(events) + 1) :
        /\ e.type = "tool-call" /\ Takes(e)
        /\ sawTool' = TRUE /\ toolIndex' = toolIndex + 1
        /\ todo' = <<Chunk("tool_calls", toolIndex, e.data)>>
        /\ UNCHANGED <<finishReason, includeUsage, usage, phase, out>>

CompletionOnFinish ==
    \E e \in EventsAt(Len(events) + 1) :
        /\ e.type = "finish" /\ Takes(e)
        /\ finishReason' = MapFinishReason(e.reason) /\ usage' = e.data
        /\ UNCHANGED <<toolIndex, includeUsage, sawTool, phase, todo, out>>

\* Mutant of Ending: a tool call does not change the finish reason.
EndingPlain(reason) ==
    (IF reason = "none" THEN <<>> ELSE <<Final(reason)>>)
    \o (IF includeUsage /\ usage # 0 THEN <<Chunk("usage", 0, usage)>> ELSE <<>>)
    \o <<DONE>>

\* What follows the loop: the final chunk unless an error ended the turn, the
\* usage if the client asked for it, and the terminator.
Ending(reason) ==
    (IF reason = "none" THEN <<>>
     ELSE <<Final(IF sawTool /\ reason = "stop" THEN "tool_calls" ELSE reason)>>)
    \o (IF includeUsage /\ usage # 0 THEN <<Chunk("usage", 0, usage)>> ELSE <<>>)
    \o <<DONE>>

\* Mutant of CompletionOnError: the error frame does not end the turn.
CompletionOnErrorKeepsReason ==
    \E e \in EventsAt(Len(events) + 1) :
        /\ e.type = "error" /\ Takes(e)
        /\ todo' = <<Chunk("error", 0, 0)>> \o Ending(finishReason)
        /\ phase' = "closing"
        /\ UNCHANGED <<openai, sawTool, usage, out>>

CompletionOnError ==
    \E e \in EventsAt(Len(events) + 1) :
        /\ e.type = "error" /\ Takes(e)
        /\ finishReason' = "none"
        /\ todo' = <<Chunk("error", 0, 0)>> \o Ending("none")
        /\ phase' = "closing"
        /\ UNCHANGED <<toolIndex, includeUsage, sawTool, usage, out>>

CompletionNext ==
    \/ CompletionOnDelta \/ CompletionOnToolCall \/ CompletionOnFinish \/ CompletionOnError
    \/ (OnOther \/ Ends(Ending(finishReason)) \/ Emit \/ EmitFails) /\ UNCHANGED openai

-----------------------------------------------------------------------------
Kinds(kinds) == {f \in Chunks : f.frame \in kinds}
ChunksSent(kind) == Select(out, Kinds({kind}))

\* A reader of the whole stream learns how the turn ended exactly once: by one
\* finish_reason or by one error, and content is never sent after it.
EndsOnce ==
    LET outcome(i) == out[i].frame \in {"final", "error"}
    IN /\ \A i, j \in DOMAIN out :
            outcome(i) /\ i < j => out[j].frame \in {"usage", "[DONE]"}
       /\ ReadTo("[DONE]") => \E i \in DOMAIN out : outcome(i)

\* The order of the chunks of text, reasoning and tool calls is the order the
\* upstream sent the pieces in, and tool calls are numbered from 0: a client
\* that merges chunks by index keeps the calls apart.
ChunksInOrder ==
    LET sent    == DataOf(Select(out, Kinds({"content", "reasoning_content", "tool_calls"})))
        content == DataOf(Select(events, Pieces))
        calls   == ChunksSent("tool_calls")
    IN /\ IsPrefix(sent, content)
       /\ ReadTo("[DONE]") => sent = content
       /\ \A i \in DOMAIN calls : calls[i].index = i - 1

\* A stream read to its end and the buffered answer to the same events agree,
\* unless the turn fails (ARCHITECTURE D8).
ChunksAgree ==
    ReadTo("[DONE]") /\ ~HasError(events) =>
        LET c == BuildCompletion(events)
        IN /\ DataOf(ChunksSent("content")) = c.content
           /\ DataOf(ChunksSent("reasoning_content")) = c.reasoning
           /\ DataOf(ChunksSent("tool_calls")) = c.tool_calls
           /\ ChunksSent("final") = <<Final(c.finish_reason)>>
           /\ DataOf(ChunksSent("usage")) =
                    IF includeUsage /\ c.usage # 0 THEN <<c.usage>> ELSE <<>>
=============================================================================
