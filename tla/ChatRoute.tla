------------------------------ MODULE ChatRoute ------------------------------
(***************************************************************************)
(* One request to /v1/chat/completions or /v1/messages (internal/server):  *)
(* the checks before the upstream is called, the peek that decides the     *)
(* status, and the translator that answers with a stream of frames or with *)
(* one document.  It composes the upstream iterator, whose steps it takes  *)
(* once the request is admitted, with what the client gets to see.         *)
(***************************************************************************)
EXTENDS UpstreamStream

CONSTANT Usable   \* content that BuildCompletion answers with in spite of an error
ASSUME UsableAssumption == Usable \subseteq Content

VARIABLES
    request,   \* the client's request, and what is wrong with it if anything
    admitted,  \* the checks have passed: NewStream
    passed,    \* the events the translator was given
    answer     \* status, whether it is complete, whether it reports a failure;
               \* "error" is 400 to 599, "other" neither that nor 200

routeVars == <<request, admitted, passed, answer>>
allVars == <<vars, routeVars>>

Requests == [api : {"openai", "anthropic"}, stream : BOOLEAN,
             body : {"object", "not JSON", "too large"}, key : BOOLEAN,
             model : BOOLEAN, max_tokens : BOOLEAN]

NoAnswer == [status |-> "none", complete |-> FALSE, failed |-> FALSE]
Failure(status) == [status |-> status, complete |-> TRUE, failed |-> TRUE]
Success == [status |-> "200", complete |-> TRUE, failed |-> FALSE]

RouteInit ==
    /\ Init
    /\ request \in Requests /\ admitted = FALSE
    /\ passed = <<>> /\ answer = NoAnswer

-----------------------------------------------------------------------------
(* Before the upstream is called *)

\* readJSONObject, ResolveAPIKey and the required fields, in the handlers' order.
Refusal ==
    CASE request.body = "too large" -> "413"
      [] request.body = "not JSON" -> "400"
      [] ~request.key -> "401"
      [] ~request.model -> "400"
      [] request.api = "anthropic" /\ ~request.max_tokens -> "400"
      [] OTHER -> "none"

Refuse ==
    /\ ~admitted /\ consumer # "closed" /\ Refusal # "none"
    /\ answer' = Failure(Refusal) /\ consumer' = "closed"
    /\ UNCHANGED <<streamVars, ret, cancelled, request, admitted, passed>>

Admit ==
    /\ ~admitted /\ consumer # "closed" /\ Refusal = "none"
    /\ admitted' = TRUE
    /\ UNCHANGED <<vars, request, passed, answer>>

-----------------------------------------------------------------------------
(* The answer *)

Codes == {"error", "other"}

\* Mutant of statusFromCCError: the range is not checked.
StatusUnchecked(code) == code

\* The status of an error event: what its envelope says, if that is an error.
statusFromCCError(code) == IF code = "error" THEN code ELSE "502"

\* Nothing decisive came: an empty completion; a refusal as JSON, with whatever
\* status the upstream refused with; or an error event as JSON.
AnswerPeeked ==
    /\ PeekAnswers
    /\ \E code \in Codes :
        answer' = CASE ret = "EOF" -> Success
                    [] ret = "UpstreamError" -> Failure(code)
                    [] OTHER -> Failure(statusFromCCError(code))
    /\ UNCHANGED <<request, admitted, passed>>

\* Mutant of Commit: the peeked event is lost to the translator.
CommitWithoutFirst ==
    /\ PeekCommits
    /\ answer' = IF request.stream THEN [answer EXCEPT !.status = "200"] ELSE answer
    /\ UNCHANGED <<request, admitted, passed>>

\* The first decisive event is handed to the translator.  streamSSE writes the
\* 200 before the first frame; a buffered answer has no status yet.
Commit ==
    /\ PeekCommits
    /\ passed' = Append(passed, ret)
    /\ answer' = IF request.stream THEN [answer EXCEPT !.status = "200"] ELSE answer
    /\ UNCHANGED <<request, admitted>>

Pass ==
    /\ DrainPasses
    /\ passed' = Append(passed, ret)
    /\ UNCHANGED <<request, admitted, answer>>

\* Mutant of Buffer: the status is the error's, although there is usable content.
BufferErrorFirst(code) == IF ret \in Errors THEN Failure(statusFromCCError(code)) ELSE Success

\* BuildCompletion answers with what it has, and with the error if that is nothing.
Buffer(code) ==
    IF ret \in Errors /\ ~\E i \in DOMAIN passed : passed[i] \in Usable
    THEN Failure(statusFromCCError(code)) ELSE Success

\* Mutant of AnswerDrained: an error in a stream is taken for its end.
AnswerDrainedSilently ==
    /\ DrainEnds
    /\ \E code \in Codes : answer' = IF request.stream THEN Success ELSE Buffer(code)
    /\ passed' = IF ret \in Errors THEN Append(passed, ret) ELSE passed
    /\ UNCHANGED <<request, admitted>>

\* The translator is given the error event, or told that the stream has ended:
\* streamNext does not say how, so an upstream failure ends a stream like EOF.
AnswerDrained ==
    /\ DrainEnds
    /\ \E code \in Codes :
        answer' = IF request.stream
                  THEN [status |-> "200", complete |-> TRUE, failed |-> ret \in Errors]
                  ELSE Buffer(code)
    /\ passed' = IF ret \in Errors THEN Append(passed, ret) ELSE passed
    /\ UNCHANGED <<request, admitted>>

\* The handler of a stream gives up at a failed write.  A buffered answer is only
\* written at the end, whoever is still there to read it.
Abandon ==
    /\ request.stream /\ DrainAbandons
    /\ UNCHANGED routeVars

Upstream ==
    /\ admitted
    /\ CallNext \/ Open \/ Refused \/ Wake \/ ReadLine \/ ReadLast \/ PeekDrops
    /\ UNCHANGED routeVars

Answer == AnswerPeeked \/ Commit \/ Pass \/ AnswerDrained \/ Abandon

RouteNext == Refuse \/ Admit \/ Upstream \/ Answer \/ (HangUp /\ UNCHANGED routeVars)

\* The fairness of the iterator, for the composed steps.
RouteFairness ==
    /\ WF_allVars(Refuse \/ Admit) /\ WF_allVars(Answer)
    /\ WF_allVars(Upstream /\ (CallNext \/ Open \/ Wake \/ PeekDrops))
    /\ WF_allVars(Upstream /\ cancelled /\ (ReadLast \/ Refused))

RouteSpec == RouteInit /\ [][RouteNext]_allVars /\ RouteFairness

-----------------------------------------------------------------------------
IsDecisive(i) == handed[i].type \in Decisive

\* Between the peek and the drain nothing is lost, repeated or reordered: the
\* translator is given everything the iterator handed out from the first decisive
\* event on, but for what the caller still holds.
NothingLost ==
    LET given == passed \o (IF ret \in Events THEN <<ret>> ELSE <<>>) IN
    consumer = "drain" =>
        \E n \in DOMAIN handed :
            /\ \A i \in DOMAIN handed : i < n => ~IsDecisive(i)
            /\ IsDecisive(n)
            /\ Len(given) = Len(handed) - n + 1
            /\ \A i \in DOMAIN given : given[i] = handed[n + i - 1].type

\* The first, or the last, decisive event of the turn is an error.
FailsFirst ==
    \E i \in DOMAIN handed :
        handed[i].type \in Errors /\ \A j \in DOMAIN handed : j < i => ~IsDecisive(j)
FailsLast ==
    \E i \in DOMAIN handed :
        handed[i].type \in Errors /\ \A j \in DOMAIN handed : i < j => ~IsDecisive(j)

HasUsable == \E i \in DOMAIN passed : passed[i] \in Usable

\* A failed turn does not look like a successful one, nor the reverse.  A turn
\* whose first decisive event is an error, and a buffered turn with nothing else,
\* is answered with an error status whatever the event's envelope says; usable
\* content before the failure makes it a 200; and an error event that ends a
\* streamed turn is shown to the client.
HonestStatus ==
    /\ FailsFirst => answer.status # "200"
    /\ answer.complete /\ FailsLast =>
         \/ answer.status \in {"error", "502"} /\ answer.failed /\ ~HasUsable
         \/ answer.status = "200" /\ (request.stream \/ HasUsable)
    /\ HasUsable => answer.status \in {"none", "200"}
    /\ request.stream /\ answer.complete /\ passed # <<>> /\ passed[Len(passed)] \in Errors
         => answer.failed

\* Every request is answered, if the upstream ends the responses it opens and
\* the client stays; a client that leaves still frees its handler.
EveryRequestAnswered ==
    WF_allVars(Upstream /\ (ReadLast \/ Refused)) =>
        <>(consumer = "closed" /\ (cancelled \/ answer.complete))

\* A streamed turn broke off: content, and something after it, had been passed on,
\* but no finish event, when reading the response failed under a client that stays.
BrokeOff ==
    /\ request.stream /\ cut /\ ~cancelled
    /\ \E i \in DOMAIN passed : passed[i] \in Content /\ i < Len(passed)
    /\ \A i \in DOMAIN passed : passed[i] # "finish"

\* ARCHITECTURE D6: a mid-stream failure is surfaced, not hidden.  Refuted: a
\* response that breaks off after content ends a streamed turn like EOF.
MidStreamFailureSurfaced == BrokeOff /\ answer.complete => answer.failed
=============================================================================
