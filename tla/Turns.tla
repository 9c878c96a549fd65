-------------------------------- MODULE Turns --------------------------------
(***************************************************************************)
(* One streamed turn over either API: StreamMessage or StreamCompletion is *)
(* given the events of the same upstream.                                  *)
(***************************************************************************)
EXTENDS OpenAITurn, AnthropicTurn

VARIABLE api   \* "openai" or "anthropic"

vars == <<api, events, sawTool, usage, phase, todo, out, openai, anthropic>>

Init ==
    \/ /\ api = "anthropic" /\ MessageInit
       /\ toolIndex = 0 /\ finishReason = "stop" /\ includeUsage = FALSE
    \/ /\ api = "openai" /\ CompletionInit
       /\ index = 0 /\ current = "" /\ thinking = <<>> /\ stop = "end_turn"

Next ==
    \/ api = "anthropic" /\ MessageNext /\ UNCHANGED <<api, openai>>
    \/ api = "openai" /\ CompletionNext /\ UNCHANGED <<api, anthropic>>

Spec == Init /\ [][Next]_vars

-----------------------------------------------------------------------------
\* Over either API, the pieces of text, reasoning and tool input reach the client
\* in the order the upstream sent them, each once and under the right number.
ContentInOrder == IF api = "anthropic" THEN BlocksInOrder ELSE ChunksInOrder

\* Over either API, a stream read to its end and a buffered answer to the same
\* events agree (ARCHITECTURE D8).
AgreesWithBuffered == IF api = "anthropic" THEN BlocksAgree ELSE ChunksAgree

\* A thinking block is signed, once, over exactly the thinking it shows.
SignedThinking == api = "anthropic" => BlocksSigned

\* A reader of a whole stream of chunks learns exactly once how the turn ended.
OneOutcome == api = "openai" => EndsOnce

\* What a client of Messages is sent is a well-formed message stream.
Protocol == INSTANCE MessageProtocol WITH out <- IF api = "anthropic" THEN out ELSE <<>>
FollowsProtocol == Protocol!Spec
=============================================================================
