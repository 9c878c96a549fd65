---------------------------- MODULE AnthropicTurn ----------------------------
(***************************************************************************)
(* StreamMessage (internal/translate/anthropic.go): the flat event stream  *)
(* of the upstream regrouped into Anthropic's indexed content blocks.      *)
(***************************************************************************)
EXTENDS Turn

VARIABLES
    index,     \* the number of the current block, plus one (0: no block yet)
    current,   \* "" or the kind of the current block
    thinking,  \* thinkingText: the thinking of the current block
    stop       \* stopReasonVal

anthropic == <<index, current, thinking, stop>>

Frames == [frame : {"message_start", "content_block_start", "content_block_delta",
                    "signature_delta", "content_block_stop", "error", "message_delta",
                    "message_stop"},
           index : Nat,
           block : {"", "text", "thinking", "tool_use", "end_turn", "max_tokens"},
           data  : Seq(Nat)]
Frame(kind, i, block, data) ==
    [frame |-> kind, index |-> i, block |-> block, data |-> data]
MessageStart == Frame("message_start", 0, "", <<>>)
BlockStart(i, block) == Frame("content_block_start", i, block, <<>>)
BlockDelta(i, block, d) == Frame("content_block_delta", i, block, <<d>>)
Signature(i, text) == Frame("signature_delta", i, "thinking", text)
BlockStop(i) == Frame("content_block_stop", i, "", <<>>)
ErrorFrame == Frame("error", 0, "", <<>>)
MessageDelta(reason, u) == Frame("message_delta", 0, reason, <<u>>)
MessageStop == Frame("message_stop", 0, "", <<>>)

MessageInit ==
    /\ TurnInit /\ todo = <<MessageStart>>
    /\ index = 0 /\ current = "" /\ thinking = <<>> /\ stop = "end_turn"

\* Mutants of closeCurrent: the signature is left out; a block is not stopped.
CloseUnsigned == IF current = "" THEN <<>> ELSE <<BlockStop(index - 1)>>
CloseOnlyThinking ==
    IF current = "thinking" THEN <<Signature(index - 1, thinking), BlockStop(index - 1)>>
                            ELSE <<>>

\* closeCurrent: a thinking block is signed before it is stopped.
closeCurrent ==
    CASE current = "" -> <<>>
      [] current = "thinking" -> <<Signature(index - 1, thinking), BlockStop(index - 1)>>
      [] OTHER -> <<BlockStop(index - 1)>>

\* Mutant of Continue: a block is opened without its first delta.
ContinueWithoutFirst(block, d) ==
    IF current = block
    THEN /\ todo' = <<BlockDelta(index - 1, block, d)>>
         /\ UNCHANGED <<index, current>>
    ELSE /\ todo' = closeCurrent \o <<BlockStart(index, block)>>
         /\ index' = index + 1 /\ current' = block

\* A block of the given kind goes on with d, or is opened after the current one.
Continue(block, d) ==
    IF current = block
    THEN /\ todo' = <<BlockDelta(index - 1, block, d)>>
         /\ UNCHANGED <<index, current>>
    ELSE /\ todo' = closeCurrent \o <<BlockStart(index, block), BlockDelta(index, block, d)>>
         /\ index' = index + 1 /\ current' = block

MessageOnText ==
    \E e \in EventsAt(Len(events) + 1) :
        /\ e.type = "text-delta" /\ Takes(e)
        /\ IF e.data = 0 THEN UNCHANGED <<index, current, thinking, todo>>
           ELSE /\ Continue("text", e.data)
                /\ thinking' = IF current = "thinking" THEN <<>> ELSE thinking
        /\ UNCHANGED <<stop, sawTool, usage, phase, out>>

MessageOnReasoning ==
    \E e \in EventsAt(Len(events) + 1) :
        /\ e.type = "reasoning-delta" /\ Takes(e)
        /\ IF e.data = 0 THEN UNCHANGED <<index, current, thinking, todo>>
           ELSE /\ Continue("thinking", e.data)
                /\ thinking' = Append(thinking, e.data)
        /\ UNCHANGED <<stop, sawTool, usage, phase, out>>

\* Every tool call is a block of its own, with the whole input in one delta.
MessageOnToolCall ==
    \E e \in EventsAt(Len(events) + 1) :
        /\ e.type = "tool-call" /\ Takes(e)
        /\ todo' = closeCurrent \o <<BlockStart(index, "tool_use"),
                                     BlockDelta(index, "tool_use", e.data)>>
        /\ index' = index + 1 /\ current' = "tool_use" /\ sawTool' = TRUE
        /\ thinking' = IF current = "thinking" THEN <<>> ELSE thinking
        /\ UNCHANGED <<stop, usage, phase, out>>

MessageOnFinish ==
    \E e \in EventsAt(Len(events) + 1) :
        /\ e.type = "finish" /\ Takes(e)
        /\ stop' = stopReason(MapFinishReason(e.reason)) /\ usage' = e.data
        /\ UNCHANGED <<index, current, thinking, sawTool, phase, todo, out>>

\* An error event ends the message without message_delta and message_stop.
MessageOnError ==
    \E e \in EventsAt(Len(events) + 1) :
        /\ e.type = "error" /\ Takes(e)
        /\ todo' = Append(closeCurrent, ErrorFrame) /\ phase' = "closing"
        /\ UNCHANGED <<anthropic, sawTool, usage, out>>

\* Mutant of Closing: a tool call does not change the stop reason.
ClosingPlain == closeCurrent \o <<MessageDelta(stop, usage), MessageStop>>

\* What follows the loop.
Closing ==
    closeCurrent \o
        <<MessageDelta(IF sawTool /\ stop = "end_turn" THEN "tool_use" ELSE stop, usage),
          MessageStop>>

MessageNext ==
    \/ MessageOnText \/ MessageOnReasoning \/ MessageOnToolCall
    \/ MessageOnFinish \/ MessageOnError
    \/ (OnOther \/ Ends(Closing) \/ Emit \/ EmitFails) /\ UNCHANGED anthropic

-----------------------------------------------------------------------------
Deltas == {f \in Frames : f.frame = "content_block_delta"}
OfKind(block) == {f \in Frames : f.block = block}
Numbered(i) == {f \in Frames : f.index = i}

\* What the deltas in S show, in the order they were sent.
Shows(S) == Joined(out, Deltas \cap S)

\* The pieces of text, thinking and tool input reach the client in the order the
\* upstream sent them, each once, whatever the blocks around them.
BlocksInOrder ==
    LET content == DataOf(Select(events, Pieces))
    IN /\ IsPrefix(Shows(Frames), content)
       /\ phase = "reading" /\ todo = <<>> => Shows(Frames) = content

Signatures(i) == Select(out, {f \in Numbered(i) : f.frame = "signature_delta"})

\* A thinking block is signed, once, over exactly the thinking it shows.
BlocksSigned ==
    \A i \in DOMAIN out : out[i].frame = "content_block_stop" =>
        LET shown == Shows(OfKind("thinking") \cap Numbered(out[i].index))
        IN DataOf(Signatures(out[i].index)) = IF shown = <<>> THEN <<>> ELSE <<shown>>

\* The stop reason and usage that end the message.
StreamedStop ==
    LET last == Select(out, {f \in Frames : f.frame = "message_delta"})[1]
    IN [stop_reason |-> last.block, usage |-> last.data[1]]

Buffered == MessageFromCompletion(BuildCompletion(events))

\* A stream read to its end and a buffered answer to the same events agree on
\* the text, the thinking, the tool calls, the stop reason and the usage
\* (ARCHITECTURE D8).
BlocksAgree ==
    ReadTo("message_stop") =>
        /\ \A block \in {"text", "thinking", "tool_use"} :
                Shows(OfKind(block)) = Joined(Buffered.content, {b \in Blocks : b.type = block})
        /\ StreamedStop = [stop_reason |-> Buffered.stop_reason, usage |-> Buffered.usage]
=============================================================================
