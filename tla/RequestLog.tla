----------------------------- MODULE RequestLog -----------------------------
(***************************************************************************)
(* The request log of the proxy (internal/server/dashboard.go): the        *)
(* middleware around every handler, and the ring of the last requests that *)
(* the dashboard polls.  Handlers run concurrently; add and snapshot hold  *)
(* the ring's mutex, so each is one step.                                  *)
(***************************************************************************)
EXTENDS Naturals, Sequences

CONSTANTS
    Requests,        \* the requests of a run
    Polling,         \* those to /health and /admin*, which are not logged
    maxLogEntries

ASSUME LogAssumption == Polling \subseteq Requests /\ maxLogEntries \in Nat \ {0}

VARIABLES
    pc,        \* each request: "new", "serving", "returned", "done"
    writer,    \* its statusWriter: the status, and whether a header was written
    sent,      \* the status net/http sent the client, "none" before the first write
    entries,   \* requestLog.entries, oldest first
    total,     \* requestLog.total
    recent,    \* what the dashboard's last poll was shown, newest first
    history    \* history: every entry added

ring == <<entries, total>>
vars == <<pc, writer, sent, ring, recent, history>>

Logged == Requests \ Polling
Codes == {"200", "error"}
Entry == [request : Logged, status : Codes]

\* Mutant of Init: a statusWriter without its default status.
InitNoStatus ==
    /\ pc = [r \in Requests |-> "new"]
    /\ writer = [r \in Requests |-> [status |-> "none", wroteHeader |-> FALSE]]
    /\ sent = [r \in Requests |-> "none"]
    /\ entries = <<>> /\ total = 0 /\ recent = <<>> /\ history = <<>>

Init ==
    /\ pc = [r \in Requests |-> "new"]
    /\ writer = [r \in Requests |-> [status |-> "200", wroteHeader |-> FALSE]]
    /\ sent = [r \in Requests |-> "none"]
    /\ entries = <<>> /\ total = 0 /\ recent = <<>> /\ history = <<>>

Begin(r) ==
    /\ pc[r] = "new"
    /\ pc' = [pc EXCEPT ![r] = "serving"]
    /\ UNCHANGED <<writer, sent, ring, recent, history>>

\* net/http sends the first status it is given.
Send(r, code) == sent' = [sent EXCEPT ![r] = IF @ = "none" THEN code ELSE @]

\* Mutant of WriteHeader: the last status is recorded.
WriteHeaderAgain(r, code) ==
    /\ pc[r] = "serving"
    /\ writer' = [writer EXCEPT ![r] = [status |-> code, wroteHeader |-> TRUE]]
    /\ Send(r, code)
    /\ UNCHANGED <<pc, ring, recent, history>>

\* statusWriter.WriteHeader: the first status is recorded, all are passed on.
WriteHeader(r, code) ==
    /\ pc[r] = "serving"
    /\ writer' = [writer EXCEPT ![r] =
                    IF @.wroteHeader THEN @ ELSE [status |-> code, wroteHeader |-> TRUE]]
    /\ Send(r, code)
    /\ UNCHANGED <<pc, ring, recent, history>>

\* statusWriter.Write: without a header before it, a body implies a 200.
Write(r) ==
    /\ pc[r] = "serving"
    /\ writer' = [writer EXCEPT ![r].wroteHeader = TRUE]
    /\ Send(r, "200")
    /\ UNCHANGED <<pc, ring, recent, history>>

\* statusWriter.Flush is no action: the one handler that flushes, streamSSE, has written
\* its header, and then a flush changes nothing of the log.  One that flushed first would
\* have net/http send a 200 that the log may not show.

\* The handler returns; net/http sends a 200 for one that wrote nothing.
Return(r) ==
    /\ pc[r] = "serving"
    /\ pc' = [pc EXCEPT ![r] = IF r \in Polling THEN "done" ELSE "returned"]
    /\ Send(r, "200")
    /\ UNCHANGED <<writer, ring, recent, history>>

\* Mutants of Keep: the oldest entries are kept; one entry too many is dropped.
KeepOldest(es) == IF Len(es) > maxLogEntries THEN SubSeq(es, 1, maxLogEntries) ELSE es
KeepFewer(es) ==
    IF Len(es) >= maxLogEntries
    THEN SubSeq(es, Len(es) - maxLogEntries + 2, Len(es)) ELSE es

\* The last maxLogEntries of es.
Keep(es) ==
    IF Len(es) > maxLogEntries
    THEN SubSeq(es, Len(es) - maxLogEntries + 1, Len(es)) ELSE es

\* The middleware logs the request after its handler has returned.
Add(r) ==
    /\ pc[r] = "returned"
    /\ LET e == [request |-> r, status |-> writer[r].status]
       IN /\ entries' = Keep(Append(entries, e))
          /\ history' = Append(history, e)
    /\ total' = total + 1
    /\ pc' = [pc EXCEPT ![r] = "done"]
    /\ UNCHANGED <<writer, sent, recent>>

\* Mutant of Snapshot: the entries are shown in the order they were added.
SnapshotUnreversed ==
    /\ recent' = entries
    /\ UNCHANGED <<pc, writer, sent, ring, history>>

\* The dashboard polls: the entries newest first.
Snapshot ==
    /\ recent' = [i \in 1..Len(entries) |-> entries[Len(entries) + 1 - i]]
    /\ UNCHANGED <<pc, writer, sent, ring, history>>

Next ==
    \/ \E r \in Requests :
        \/ Begin(r) \/ Write(r) \/ Return(r) \/ Add(r)
        \/ \E code \in Codes : WriteHeader(r, code)
    \/ Snapshot

Spec == Init /\ [][Next]_vars

-----------------------------------------------------------------------------
TypeOK ==
    /\ pc \in [Requests -> {"new", "serving", "returned", "done"}]
    /\ writer \in [Requests -> [status : Codes, wroteHeader : BOOLEAN]]
    /\ sent \in [Requests -> Codes \cup {"none"}]
    /\ entries \in Seq(Entry) /\ history \in Seq(Entry) /\ recent \in Seq(Entry)
    /\ total \in Nat

\* The ring is the tail of everything ever logged, as long as it can be, and the
\* total counts what the ring has forgotten, too.
RingIsTail ==
    /\ total = Len(history)
    /\ Len(entries) = IF total <= maxLogEntries THEN total ELSE maxLogEntries
    /\ \A i \in 1..Len(entries) : entries[i] = history[total - Len(entries) + i]

\* What the dashboard shows is a run of consecutive requests, newest first,
\* without a request twice, however many handlers finish around the poll.
RecentIsConsecutive ==
    \A i \in 1..Len(recent) :
        \E k \in 1..Len(history) :
            /\ recent[i] = history[k]
            /\ i < Len(recent) => k > 1 /\ recent[i + 1] = history[k - 1]

\* The log shows the status the client was sent, also for a handler that writes
\* several headers, or a body before any header.
LogsWhatWasSent == \A i \in 1..Len(history) : history[i].status = sent[history[i].request]
=============================================================================
