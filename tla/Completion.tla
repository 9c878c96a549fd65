------------------------------ MODULE Completion ------------------------------
(***************************************************************************)
(* What a turn of the upstream amounts to when it is answered in one piece:*)
(* BuildCompletion accumulates the events of a stream into an OpenAI       *)
(* completion, and MessageFromCompletion turns that into an Anthropic      *)
(* message (internal/translate).                                           *)
(*                                                                         *)
(* An event has a type, the piece of data it carries (0 is an empty text,  *)
(* or a finish event without usage) and a finish reason.                   *)
(***************************************************************************)
EXTENDS Lists

Reasons == {"stop", "tool-calls", "length", "other"}

EventTypes == {"text-delta", "reasoning-delta", "tool-call", "finish", "error", "start"}

Event == [type : EventTypes, data : Nat, reason : Reasons]

Delta(type, d) == [type |-> type, data |-> d, reason |-> "other"]
FinishEvent(reason, d) == [type |-> "finish", data |-> d, reason |-> reason]

\* The events an upstream may send as the n-th of a turn; n tells their data apart.
EventsAt(n) ==
    {Delta(type, d) : type \in {"text-delta", "reasoning-delta"}, d \in {0, n}}
    \cup {FinishEvent(reason, d) : reason \in Reasons, d \in {0, n}}
    \cup {Delta("tool-call", n), Delta("error", n), Delta("start", n)}

\* AdvanceToDecisive lets through these as the first event of a translator.
FirstEvents ==
    {e \in EventsAt(1) : e.type \notin {"error", "start"}}

MapFinishReason(reason) ==
    CASE reason = "tool-calls" -> "tool_calls"
      [] reason = "length" -> "length"
      [] OTHER -> "stop"

\* Anthropic's name for an OpenAI finish_reason.
stopReason(finish) ==
    CASE finish = "length" -> "max_tokens"
      [] finish = "tool_calls" -> "tool_use"
      [] OTHER -> "end_turn"

OfType(evs, type) == Select(evs, {e \in Event : e.type = type})
NonEmpty(ds) == Select(ds, Nat \ {0})
\* What a turn says: the deltas that are not empty, and the tool calls.
Pieces == {e \in Event : e.type \in {"text-delta", "reasoning-delta", "tool-call"} /\ e.data # 0}
HasError(evs) == \E i \in DOMAIN evs : evs[i].type = "error"

\* The last finish event decides, and "stop" stands for a turn without one.
Finished(evs) ==
    LET fs == OfType(evs, "finish")
    IN IF fs = <<>> THEN [reason |-> "stop", usage |-> 0]
       ELSE [reason |-> MapFinishReason(Last(fs).reason), usage |-> Last(fs).data]

BuildCompletion(evs) ==
    LET texts == DataOf(OfType(evs, "text-delta"))
        tools == DataOf(OfType(evs, "tool-call"))
        fin   == Finished(evs)
    IN [content       |-> NonEmpty(texts),
        reasoning     |-> NonEmpty(DataOf(OfType(evs, "reasoning-delta"))),
        tool_calls    |-> tools,
        finish_reason |-> IF tools # <<>> /\ fin.reason = "stop"
                          THEN "tool_calls" ELSE fin.reason,
        usage         |-> fin.usage,
        \* the caller answers with the error only when the turn has nothing else
        ccErr         |-> HasError(evs) /\ texts = <<>> /\ tools = <<>>]

Blocks == [type : {"thinking", "text", "tool_use"}, data : Seq(Nat)]
Block(type, data) == [type |-> type, data |-> data]

\* The content blocks: thinking, text, one per tool call, and never none at all.
MessageFromCompletion(c) ==
    LET thinking == IF c.reasoning = <<>> THEN <<>> ELSE <<Block("thinking", c.reasoning)>>
        text     == IF c.content = <<>> THEN <<>> ELSE <<Block("text", c.content)>>
        tools    == [i \in DOMAIN c.tool_calls |-> Block("tool_use", <<c.tool_calls[i]>>)]
        blocks   == thinking \o text \o tools
    IN [content     |-> IF blocks = <<>> THEN <<Block("text", <<>>)>> ELSE blocks,
        stop_reason |-> stopReason(c.finish_reason),
        usage       |-> c.usage]
=============================================================================
