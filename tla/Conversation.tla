---------------------------- MODULE Conversation ----------------------------
(***************************************************************************)
(* The translation of a request (internal/translate): what a client has    *)
(* said so far, sent whole with every request, becomes the messages of a   *)
(* Command Code request.  Chat Completions goes through BuildCCRequest;    *)
(* Messages is first rewritten as a Chat Completions request.              *)
(*                                                                         *)
(* The client is the environment: it adds turns, some of them replies to   *)
(* what it sent, runs the tools it is asked to run or interrupts them, and *)
(* may forget its oldest turn.  A text or an image is the place where it   *)
(* was said: the turn, whether it is in a result (0) or in the turn's own  *)
(* parts (1), and its number there; a string is the sequence of the texts  *)
(* joined in it.                                                           *)
(***************************************************************************)
EXTENDS Lists

CONSTANTS
    Ids,        \* tool call ids, a set; none is used again while it is remembered
    UserParts,  \* what a user turn may say: sequences of "text", "image", "empty"
    ResultKinds,\* what a tool returns: a subset of {"text", "image", "both"}
    MaxTurns    \* bound: turns ever added to the conversation

Kinds == {"text", "image", "empty"}

\* A user turn that says anything says something that is not empty.
ASSUME PartsAssumption ==
    \A kinds \in UserParts :
        kinds \in Seq(Kinds) /\ (kinds # <<>> => \E i \in DOMAIN kinds : kinds[i] # "empty")
ASSUME IdsAssumption == IsFiniteSet(Ids)

VARIABLES
    api,        \* the API the client uses: "openai" or "anthropic"
    said,       \* the turns the client remembers
    turns,      \* turns ever added
    awaiting,   \* the last turn has been sent and not been answered
    sent        \* the last Command Code request of this history, None before

vars == <<api, said, turns, awaiting, sent>>

Text(t) == [type |-> "text", text |-> t]
Image(n) == [type |-> "image", image |-> n]

\* Content, in all shapes: a JSON string, a list of parts, or null.
String(t) == [text |-> t, parts |-> <<>>]
List(ps) == [text |-> <<>>, parts |-> ps]
Null == String(<<>>)

-----------------------------------------------------------------------------
(* OpenAI -> Command Code: a message is [role, content, calls, id] *)

contentToText(content) ==
    content.text \o FlatMap(content.parts, LAMBDA p : IF p.type = "text" THEN p.text ELSE <<>>)

imagePartsToCC(content) == Filter(content.parts, LAMBDA p : p.type = "image")

\* Mutant of userContentToCC: typed parts are kept only if all are images.
userContentFlattened(content) ==
    IF imagePartsToCC(content) # <<>> /\ contentToText(content) = <<>>
    THEN imagePartsToCC(content)
    ELSE <<Text(contentToText(content))>>

\* A string, unless there is an image: then the parts, without the empty texts.
userContentToCC(content) ==
    IF imagePartsToCC(content) # <<>>
    THEN Filter(content.parts, LAMBDA p : p # Text(<<>>))
    ELSE <<Text(contentToText(content))>>

CallsIn(messages) ==
    FlatMap(messages, LAMBDA m : IF m.role = "assistant" THEN m.calls ELSE <<>>)

IdsOf(calls) == {calls[i].id : i \in DOMAIN calls}

\* Mutant of pairedToolCallIDs: a call without a result is kept.
calledToolCallIDs(messages) == IdsOf(CallsIn(messages))

pairedToolCallIDs(messages) ==
    IdsOf(CallsIn(messages))
        \cap {m.id : m \in {x \in ToSet(messages) : x.role = "tool"}}

\* The last call with an id names its tool.
toolNamesByID(messages) ==
    LET calls == CallsIn(messages)
    IN [id \in IdsOf(calls) |->
            calls[SelectLastInSeq(calls, LAMBDA c : c.id = id)].name]

assistantToCC(m, paired) ==
    LET text  == contentToText(m.content)
        parts == (IF text # <<>> THEN <<Text(text)>> ELSE <<>>)
                 \o FlatMap(m.calls, LAMBDA c :
                        IF c.id \in paired
                        THEN <<[type |-> "tool-call", id |-> c.id, name |-> c.name]>> ELSE <<>>)
    IN IF parts # <<>> THEN <<[role |-> "assistant", content |-> parts]>> ELSE <<>>

\* The images of a result follow it as a turn of the user.
toolToCC(m, paired, nameByID) ==
    IF m.id \notin paired THEN <<>>
    ELSE <<[role |-> "tool",
            content |-> <<[type |-> "tool-result", id |-> m.id, name |-> nameByID[m.id],
                           text |-> contentToText(m.content)]>>]>>
         \o (IF imagePartsToCC(m.content) # <<>>
             THEN <<[role |-> "user", content |-> imagePartsToCC(m.content)]>> ELSE <<>>)

\* Mutant of messagesToCC: the images of all results follow at the end.
messagesToCCImagesLast(messages) ==
    LET paired == pairedToolCallIDs(messages)
        names  == toolNamesByID(messages)
        results == Filter(messages, LAMBDA m : m.role = "tool")
    IN FlatMap(messages, LAMBDA m :
            CASE m.role = "user" -> <<[role |-> "user", content |-> userContentToCC(m.content)]>>
              [] m.role = "assistant" -> assistantToCC(m, paired)
              [] m.role = "tool" ->
                    Filter(toolToCC(m, paired, names), LAMBDA x : x.role = "tool"))
       \o FlatMap(results, LAMBDA m :
            Filter(toolToCC(m, paired, names), LAMBDA x : x.role = "user"))

messagesToCC(messages) ==
    LET paired == pairedToolCallIDs(messages)
        names  == toolNamesByID(messages)
    IN FlatMap(messages, LAMBDA m :
            CASE m.role = "user" -> <<[role |-> "user", content |-> userContentToCC(m.content)]>>
              [] m.role = "assistant" -> assistantToCC(m, paired)
              [] m.role = "tool" -> toolToCC(m, paired, names))

\* splitSystemAndMessages: the system texts are lifted, wherever they stand.
BuildCCRequest(messages) ==
    [messages |-> messagesToCC(Filter(messages, LAMBDA m : m.role # "system")),
     system |-> FlatMap(messages, LAMBDA m :
                    IF m.role = "system" THEN contentToText(m.content) ELSE <<>>)]

-----------------------------------------------------------------------------
(* Anthropic -> OpenAI: the content of a message is a list of blocks *)

Message(role, content) == [role |-> role, content |-> content, calls |-> <<>>, id |-> "none"]

Blocks(m, type) == Filter(m.content, LAMBDA b : b.type = type)

\* toolResultContent: a string, unless there is an image: then the text comes first.
toolResultContent(content) ==
    LET text == contentToText(content)
    IN IF imagePartsToCC(content) = <<>> THEN String(text)
       ELSE List((IF text # <<>> THEN <<Text(text)>> ELSE <<>>) \o imagePartsToCC(content))

assistantToOpenAI(m) ==
    <<[Message("assistant", String(FlatMap(Blocks(m, "text"), LAMBDA b : b.text)))
        EXCEPT !.calls = [i \in DOMAIN Blocks(m, "tool_use") |->
            [id |-> Blocks(m, "tool_use")[i].id, name |-> Blocks(m, "tool_use")[i].name]]]>>

toolResultsToOpenAI(m) ==
    FlatMap(Blocks(m, "tool_result"), LAMBDA b :
        <<[Message("tool", toolResultContent(b.content)) EXCEPT !.id = b.id]>>)

userPartsToOpenAI(m) ==
    LET parts == Filter(m.content,
                    LAMBDA b : b.type \in {"text", "image"} /\ b # Text(<<>>))
    IN IF imagePartsToCC(List(parts)) # <<>> THEN <<Message("user", List(parts))>>
       ELSE IF parts # <<>> THEN <<Message("user", String(contentToText(List(parts))))>>
       ELSE <<>>

\* Mutant of anthMessageToOpenAI: the user's words come before the results.
wordsBeforeResults(m) ==
    IF m.role = "assistant" THEN assistantToOpenAI(m)
    ELSE userPartsToOpenAI(m) \o toolResultsToOpenAI(m)

\* Thinking is dropped; the results of a user turn come before its words.
anthMessageToOpenAI(m) ==
    IF m.role = "assistant" THEN assistantToOpenAI(m)
    ELSE toolResultsToOpenAI(m) \o userPartsToOpenAI(m)

systemToText(system) == FlatMap(system, LAMBDA b : b.text)

OpenAIRequestFromAnthropic(body) ==
    (IF systemToText(body.system) # <<>>
     THEN <<Message("system", String(systemToText(body.system)))>> ELSE <<>>)
    \o FlatMap(body.messages, anthMessageToOpenAI)

-----------------------------------------------------------------------------
(* The client: a turn is [role, calls, results, parts], with parts of its own *)

Turn(role, calls, results, parts) ==
    [role |-> role, calls |-> calls, results |-> results, parts |-> parts]

\* The parts of turn n that say what kinds says; an empty text says nothing.
Parts(n, kinds) ==
    [i \in DOMAIN kinds |-> CASE kinds[i] = "text" -> Text(<< <<n, 1, i>> >>)
                              [] kinds[i] = "image" -> Image(<<n, 1, i>>)
                              [] kinds[i] = "empty" -> Text(<<>>)]

\* What the tools called with ids return in turn n, in kinds[id].
Results(n, ids, kinds) ==
    [i \in DOMAIN ids |->
        [id |-> ids[i],
         parts |-> (IF kinds[ids[i]] # "image" THEN <<Text(<< <<n, 0, 2 * i - 1>> >>)>> ELSE <<>>)
                   \o (IF kinds[ids[i]] # "text" THEN <<Image(<<n, 0, 2 * i>>)>> ELSE <<>>)]]

Plain(parts) == Len(parts) = 1 /\ parts[1].type = "text"
Content(parts) == IF parts = <<>> THEN Null
                  ELSE IF Plain(parts) THEN String(parts[1].text) ELSE List(parts)

\* The messages of a turn, as a client of Chat Completions renders it.
AsOpenAI(turn) ==
    [i \in DOMAIN turn.results |->
        [Message("tool", Content(turn.results[i].parts)) EXCEPT !.id = turn.results[i].id]]
    \o (IF turn.role = "user" /\ turn.parts = <<>> THEN <<>>
        ELSE <<[Message(turn.role, Content(turn.parts)) EXCEPT !.calls = turn.calls]>>)

\* The blocks of a turn, as a client of Messages renders it; it sends the
\* thinking of a reply back.
AsAnthropic(turn) ==
    [role |-> turn.role,
     content |->
        [i \in DOMAIN turn.results |-> [type |-> "tool_result", id |-> turn.results[i].id,
                                        content |-> List(turn.results[i].parts)]]
        \o (IF turn.role = "assistant" THEN <<[type |-> "thinking"]>> ELSE <<>>)
        \o turn.parts
        \o [i \in DOMAIN turn.calls |-> [type |-> "tool_use", id |-> turn.calls[i].id,
                                         name |-> turn.calls[i].name]]]

Translated(through) ==
    IF through = "openai" THEN BuildCCRequest(FlatMap(said, AsOpenAI))
    ELSE BuildCCRequest(OpenAIRequestFromAnthropic(
            [system |-> FlatMap(said, LAMBDA t : IF t.role = "system" THEN t.parts ELSE <<>>),
             messages |-> FlatMap(said, LAMBDA t :
                             IF t.role = "system" THEN <<>> ELSE <<AsAnthropic(t)>>)]))

None == [messages |-> <<>>, system |-> <<>>]

Init ==
    /\ api \in {"openai", "anthropic"}
    /\ said = <<>> /\ turns = 0 /\ awaiting = FALSE /\ sent = None

Add(turn) ==
    /\ turns < MaxTurns
    /\ said' = Append(said, turn) /\ turns' = turns + 1 /\ awaiting' = FALSE
    /\ UNCHANGED <<api, sent>>

SystemTurn == Add(Turn("system", <<>>, <<>>, Parts(turns + 1, <<"text">>)))

\* Calls the user has not answered or passed over yet.
Outstanding ==
    IF said # <<>> /\ Last(said).role = "assistant" THEN Last(said).calls ELSE <<>>

\* The user speaks, with the results of the tools that have run: all of them,
\* unless the turn was interrupted.
UserTurn(kinds) ==
    \E ran \in SUBSET IdsOf(Outstanding), of \in [Ids -> ResultKinds] :
        LET ids == Filter([i \in DOMAIN Outstanding |-> Outstanding[i].id],
                             LAMBDA id : id \in ran)
        IN /\ ids # <<>> \/ kinds # <<>>
           /\ \A id \in Ids \ ran : of[id] = "text"
           /\ Add(Turn("user", <<>>, Results(turns + 1, ids, of), Parts(turns + 1, kinds)))

Used == UNION {IdsOf(said[i].calls) \cup {said[i].results[j].id : j \in DOMAIN said[i].results}
               : i \in DOMAIN said}

\* The reply says something, calls tools, or both.
Reply(kinds, ids) ==
    /\ awaiting
    /\ kinds # <<>> \/ ids # <<>>
    /\ Add(Turn("assistant", [i \in DOMAIN ids |-> [id |-> ids[i], name |-> <<turns, i>>]],
                <<>>, Parts(turns + 1, kinds)))

Send ==
    /\ said # <<>> /\ Last(said).role = "user" /\ ~awaiting
    /\ sent' = Translated(api) /\ awaiting' = TRUE
    /\ UNCHANGED <<api, said, turns>>

\* The client forgets its oldest turn: another history.
Forget ==
    /\ Len(said) > 1
    /\ said' = Tail(said) /\ sent' = None /\ awaiting' = FALSE
    /\ UNCHANGED <<api, turns>>

Next ==
    \/ SystemTurn
    \/ \E kinds \in UserParts : UserTurn(kinds)
    \/ \E kinds \in {<<>>, <<"text">>}, S \in SUBSET (Ids \ Used) : Reply(kinds, SetToSeq(S))
    \/ Send
    \/ Forget

Spec == Init /\ [][Next]_vars

-----------------------------------------------------------------------------
(* Properties *)

CCParts(messages) == FlatMap(messages, LAMBDA m : m.content)

\* Whatever the client has forgotten or interrupted, a tool call that is sent has
\* one result, after it and with the name of the tool that was called, and a
\* result that is sent has a call (Command Code rejects a dangling one).
NothingDangling ==
    LET ps    == CCParts(sent.messages)
        at(t) == {i \in DOMAIN ps : ps[i].type = t}
    IN /\ \A i \in at("tool-call") :
            \E j \in at("tool-result") : i < j /\ ps[j].id = ps[i].id /\ ps[j].name = ps[i].name
       /\ \A j \in at("tool-result") :
            \E i \in at("tool-call") : \A k \in at("tool-result") :
                ps[i].id = ps[j].id /\ (ps[k].id = ps[j].id => k = j)

\* The places of the texts and images of a part.
Places(p) == CASE p.type \in {"text", "tool-result"} -> p.text
                [] p.type = "image" -> <<p.image>>
                [] OTHER -> <<>>

Before(x, y) ==
    \/ x[1] < y[1]
    \/ x[1] = y[1] /\ x[2] < y[2]
    \/ x[1] = y[1] /\ x[2] = y[2] /\ x[3] < y[3]
Increases(s) == \A i, j \in DOMAIN s : i < j => Before(s[i], s[j])

\* Everything the client still remembers is sent once and in the order it was
\* said, system texts apart: texts and images, typed or flattened, in a turn or
\* in a result.  Only the results of forgotten calls are left out.
NothingSaidIsLost ==
    LET called  == UNION {IdsOf(said[i].calls) : i \in DOMAIN said}
        all(ps) == ToSet(FlatMap(ps, Places))
        kept(t) == all(t.parts) \cup UNION {all(t.results[j].parts) :
                        j \in {k \in DOMAIN t.results : t.results[k].id \in called}}
        body    == FlatMap(CCParts(sent.messages), Places)
    IN awaiting =>
        /\ Increases(body) /\ Increases(sent.system)
        /\ ToSet(body) = UNION {kept(said[i]) : i \in {k \in DOMAIN said : said[k].role # "system"}}
        /\ ToSet(sent.system) = UNION {kept(said[i]) : i \in {k \in DOMAIN said : said[k].role = "system"}}

\* As long as the client only adds to its history, a request begins with the
\* messages of the one before: the upstream's cache keys on the prefix
\* (ARCHITECTURE, D9), and pruning or re-emitted images must not disturb it.
PrefixIsStable ==
    [][sent' # None => IsPrefix(sent.messages, sent'.messages)]_vars

\* The detour of the Messages API through Chat Completions changes nothing: the
\* same conversation gives the same request through both.
ApisAgree == Translated("anthropic") = Translated("openai")
=============================================================================
