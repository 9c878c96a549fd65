--------------------------- MODULE UpstreamStream ---------------------------
(***************************************************************************)
(* The pull-based iterator over one upstream call (internal/upstream) and  *)
(* the route that consumes it: AdvanceToDecisive peeks until the first     *)
(* event that decides an HTTP status, then streamNext drains the rest.     *)
(*                                                                         *)
(* The upstream service is the environment: it answers a POST with any     *)
(* status, sends any lines, and may end or break a response after any of   *)
(* them.  The client may hang up at any time, which cancels the request's  *)
(* context.  An event is represented by its type alone.                    *)
(***************************************************************************)
EXTENDS Naturals, Sequences

CONSTANTS
    Content,     \* the types in contentEventTypes, a set of strings
    MaxRetries,  \* COMMANDCODE_MAX_RETRIES
    MaxLines     \* bound: complete lines one upstream response may carry

Errors == {"retryable", "fatal"}           \* "error" events, by isRetryable
Events == Content \cup Errors \cup {"meta", "finish"}
Decisive == Content \cup Errors \cup {"finish"}
Results == Events \cup {"none", "EOF", "UpstreamError"}

ASSUME ContentAssumption ==
    Content \cap (Errors \cup {"meta", "finish", "none", "EOF", "UpstreamError"}) = {}
ASSUME BoundsAssumption == MaxRetries \in Nat /\ MaxLines \in Nat

VARIABLES
    reader,     \* a response is open (s.reader # nil)
    attempt,    \* s.attempt
    produced,   \* s.produced
    done,       \* s.done
    pc,         \* where Next stands: "caller" (not called), "loop", "asleep", or
                \* "refused" (open reads the body of a response that is not a 200)
    ret,        \* what the last Next returned and the consumer has not used yet
    consumer,   \* "peek" (AdvanceToDecisive), "drain" (streamNext), "closed"
    cancelled,  \* the client hung up: s.ctx is done
    lines,      \* lines read from the open response
    cut,        \* history: the last response ended in a read error, not in EOF
    posts,      \* history: requests the upstream has received
    handed      \* history: the events Next returned, with the POST they answer

streamVars == <<reader, attempt, produced, done, pc, lines, cut, posts, handed>>
vars == <<streamVars, ret, consumer, cancelled>>

TypeOK ==
    /\ reader \in BOOLEAN /\ produced \in BOOLEAN /\ done \in BOOLEAN
    /\ cancelled \in BOOLEAN /\ cut \in BOOLEAN
    /\ attempt \in Nat /\ posts \in Nat /\ lines \in Nat
    /\ pc \in {"caller", "loop", "asleep", "refused"}
    /\ ret \in Results
    /\ consumer \in {"peek", "drain", "closed"}
    /\ handed \in Seq([type : Events, post : Nat])

Init ==
    /\ reader = FALSE /\ attempt = 0 /\ produced = FALSE /\ done = FALSE
    /\ pc = "caller" /\ ret = "none" /\ consumer = "peek" /\ cancelled = FALSE
    /\ lines = 0 /\ cut = FALSE /\ posts = 0 /\ handed = <<>>

-----------------------------------------------------------------------------
(* Stream.Next *)

\* The consumer calls Next: a stream that is done answers EOF at once.
CallNext ==
    /\ consumer # "closed" /\ pc = "caller" /\ ret = "none"
    /\ IF done THEN ret' = "EOF" /\ UNCHANGED pc
               ELSE pc' = "loop" /\ UNCHANGED ret
    /\ UNCHANGED <<reader, attempt, produced, done, lines, cut, posts, handed,
                   consumer, cancelled>>

\* Next returns r to its caller.
Return(r) == pc' = "caller" /\ ret' = r

Hand(e) == handed' = Append(handed, [type |-> e, post |-> posts])

\* backoff counts the attempt, then sleeps; the sleep ignores the context.
Backoff == pc' = "asleep" /\ attempt' = attempt + 1

\* Mutants of MayRetry: content does not forbid a retry; one retry too many.
RetryAfterContent == attempt < MaxRetries
RetryOnceMore == ~produced /\ attempt <= MaxRetries

MayRetry == ~produced /\ attempt < MaxRetries

\* Mutant of OpenFails: the transport's error is not made an UpstreamError.
OpenFailsRaw(received) ==
    /\ pc = "loop" /\ ~reader
    /\ received => ~cancelled
    /\ posts' = IF received THEN posts + 1 ELSE posts
    /\ done' = TRUE /\ Return("net error")
    /\ UNCHANGED <<reader, attempt, produced, lines, cut, handed, consumer, cancelled>>

\* client.Do fails: the context is done, the upstream cannot be reached, or no
\* response header came in time (the upstream may have received the request).
OpenFails(received) ==
    /\ pc = "loop" /\ ~reader
    /\ received => ~cancelled
    /\ posts' = IF received THEN posts + 1 ELSE posts
    /\ done' = TRUE /\ Return("UpstreamError")
    /\ UNCHANGED <<reader, attempt, produced, lines, cut, handed, consumer, cancelled>>

\* The upstream answers with a status other than 200; open reads the whole body
\* of the refusal, for its message, before it looks at the status.
OpenRefused ==
    /\ pc = "loop" /\ ~reader /\ ~cancelled
    /\ posts' = posts + 1
    /\ pc' = "refused"
    /\ UNCHANGED <<reader, attempt, produced, done, lines, cut, handed, ret, consumer,
                   cancelled>>

\* Mutant of RefusalRead: the body is read by a reader without the context.
RefusalReadOutlivesHangUp(retryableStatus) ==
    /\ pc = "refused" /\ ~cancelled
    /\ IF retryableStatus /\ MayRetry
       THEN Backoff /\ UNCHANGED <<done, ret>>
       ELSE done' = TRUE /\ Return("UpstreamError") /\ UNCHANGED attempt
    /\ UNCHANGED <<reader, produced, lines, cut, posts, handed, consumer, cancelled>>

\* The read of that body ends, completely or in an error that is ignored: one of
\* retryableStatus while a retry is allowed, and an UpstreamError otherwise.
RefusalRead(retryableStatus) ==
    /\ pc = "refused"
    /\ IF retryableStatus /\ MayRetry
       THEN Backoff /\ UNCHANGED <<done, ret>>
       ELSE done' = TRUE /\ Return("UpstreamError") /\ UNCHANGED attempt
    /\ UNCHANGED <<reader, produced, lines, cut, posts, handed, consumer, cancelled>>

\* Mutant of OpenOK: the request is built without the context.
OpenWithoutContext ==
    /\ pc = "loop" /\ ~reader
    /\ posts' = posts + 1
    /\ reader' = TRUE /\ lines' = 0 /\ cut' = FALSE
    /\ UNCHANGED <<attempt, produced, done, pc, handed, ret, consumer, cancelled>>

OpenOK ==
    /\ pc = "loop" /\ ~reader /\ ~cancelled
    /\ posts' = posts + 1
    /\ reader' = TRUE /\ lines' = 0 /\ cut' = FALSE
    /\ UNCHANGED <<attempt, produced, done, pc, handed, ret, consumer, cancelled>>

Open == OpenOK \/ OpenRefused \/ \E b \in BOOLEAN : OpenFails(b)

Refused == \E b \in BOOLEAN : RefusalRead(b)

\* The sleep of backoff ends and the loop goes round.
Wake ==
    /\ pc = "asleep"
    /\ pc' = "loop"
    /\ UNCHANGED <<reader, attempt, produced, done, lines, cut, posts, handed,
                   ret, consumer, cancelled>>

ReadingLine == pc = "loop" /\ reader /\ lines < MaxLines /\ lines' = lines + 1

\* A complete line that is no event (blank, a comment, no JSON object).
ReadNothing ==
    /\ ReadingLine
    /\ UNCHANGED <<reader, attempt, produced, done, pc, cut, posts, handed,
                   ret, consumer, cancelled>>

\* A complete line with an event that is not an error.
ReadEvent(e) ==
    /\ ReadingLine
    /\ produced' = (produced \/ e \in Content)
    /\ Hand(e) /\ Return(e)
    /\ UNCHANGED <<reader, attempt, done, cut, posts, consumer, cancelled>>

\* A complete line with an error event: retried like a status, or the last event.
ReadError(e) ==
    /\ ReadingLine
    /\ reader' = FALSE
    /\ IF e = "retryable" /\ MayRetry
       THEN Backoff /\ UNCHANGED <<done, ret, handed>>
       ELSE done' = TRUE /\ Hand(e) /\ Return(e) /\ UNCHANGED attempt
    /\ UNCHANGED <<produced, cut, posts, consumer, cancelled>>

\* Mutant of ReadEnd: the response is not closed.
ReadEndLeaks(e, broken) ==
    /\ pc = "loop" /\ reader
    /\ done' = TRUE /\ cut' = broken
    /\ IF e = "none" THEN Return("EOF") /\ UNCHANGED handed
                     ELSE Hand(e) /\ Return(e)
    /\ UNCHANGED <<reader, attempt, produced, lines, posts, consumer, cancelled>>

\* ReadString fails, at EOF (broken = FALSE) or in a read error: the unfinished
\* last line may still hold an event e, and "none" stands for no event in it.
ReadEnd(e, broken) ==
    /\ pc = "loop" /\ reader
    /\ reader' = FALSE /\ done' = TRUE /\ cut' = broken
    /\ IF e = "none" THEN Return("EOF") /\ UNCHANGED handed
                     ELSE Hand(e) /\ Return(e)
    /\ UNCHANGED <<attempt, produced, lines, posts, consumer, cancelled>>

ReadLine ==
    \/ ReadNothing
    \/ \E e \in Events \ Errors : ReadEvent(e)
    \/ \E e \in Errors : ReadError(e)

ReadLast == \E e \in Events \cup {"none"}, broken \in BOOLEAN : ReadEnd(e, broken)

-----------------------------------------------------------------------------
(* The route *)

\* The handler returns: its deferred Close releases an open response.
Finish ==
    /\ consumer' = "closed" /\ reader' = FALSE /\ ret' = "none"
    /\ UNCHANGED <<attempt, produced, done, pc, lines, cut, posts, handed, cancelled>>

\* Mutant of PeekDrops: the end of the stream is not told from an event.
PeekDropsEOF ==
    /\ consumer = "peek" /\ ret \in (Events \ Decisive) \cup {"EOF"}
    /\ ret' = "none"
    /\ UNCHANGED <<streamVars, consumer, cancelled>>

\* AdvanceToDecisive drops what is not decisive; an end or a failure before the
\* first decisive event, and an error as that event, answer the request.
PeekDrops ==
    /\ consumer = "peek" /\ ret \in Events \ Decisive
    /\ ret' = "none"
    /\ UNCHANGED <<streamVars, consumer, cancelled>>

PeekAnswers ==
    /\ consumer = "peek" /\ ret \in Errors \cup {"EOF", "UpstreamError"}
    /\ Finish

PeekCommits ==
    /\ consumer = "peek" /\ ret \in Decisive \ Errors
    /\ consumer' = "drain" /\ ret' = "none"
    /\ UNCHANGED <<streamVars, cancelled>>

\* streamNext passes events on and takes every error for the end; the
\* translators stop at an error event.
DrainPasses ==
    /\ consumer = "drain" /\ ret \in Events \ Errors
    /\ ret' = "none"
    /\ UNCHANGED <<streamVars, consumer, cancelled>>

DrainEnds ==
    /\ consumer = "drain" /\ ret \in Errors \cup {"EOF", "UpstreamError"}
    /\ Finish

\* An emit fails, the client being gone: the translator gives up.
DrainAbandons ==
    /\ consumer = "drain" /\ pc = "caller" /\ cancelled
    /\ Finish

Consume == PeekDrops \/ PeekAnswers \/ PeekCommits
           \/ DrainPasses \/ DrainEnds \/ DrainAbandons

HangUp ==
    /\ consumer # "closed" /\ ~cancelled
    /\ cancelled' = TRUE
    /\ UNCHANGED <<streamVars, ret, consumer>>

Next == CallNext \/ Open \/ Refused \/ Wake \/ ReadLine \/ ReadLast \/ Consume \/ HangUp

\* The handler's goroutine runs; dialling and waiting for a response header are
\* bounded by the transport's timeouts; a read of a body whose context is done
\* fails.  Nothing makes the upstream send a line or end a response.
Fairness ==
    /\ WF_vars(CallNext) /\ WF_vars(Open) /\ WF_vars(Wake) /\ WF_vars(Consume)
    /\ WF_vars(cancelled /\ (ReadLast \/ Refused))

Spec == Init /\ [][Next]_vars /\ Fairness

-----------------------------------------------------------------------------
(* Properties *)

IsContent(i) == handed[i].type \in Content

ContentHanded == \E i \in DOMAIN handed : IsContent(i)

\* Content the client has seen is never followed by anything of another
\* response: a retry neither repeats nor splices visible output.
OneResponse ==
    \A i, j \in DOMAIN handed :
        IsContent(i) /\ i < j => handed[j].post = handed[i].post

\* The upstream receives at most one request and MaxRetries retries.
AttemptsBounded == posts <= MaxRetries + 1

\* An UpstreamError is returned only before any content (comment at Next).
FailsBeforeContent == ret = "UpstreamError" => ~ContentHanded

\* No response stays open once the stream is done, or sleeps, or is released, and
\* no refused one is read beside it.
BodyReleased == done \/ pc \in {"asleep", "refused"} \/ consumer = "closed" => ~reader

\* Once content is out, or the client has hung up, no request is sent.
NoLatePost == [][ContentHanded \/ cancelled => posts' = posts]_vars

\* A client that hangs up frees its handler and the upstream response even when
\* the upstream stays silent, though the sleep of backoff ignores the context.
HangUpEnds == cancelled ~> consumer = "closed"

\* The stream implements its contract.
Contract == INSTANCE StreamContract WITH
    Others <- {"meta", "finish"}, over <- done \/ consumer = "closed"
ImplementsContract == Contract!Spec
=============================================================================
