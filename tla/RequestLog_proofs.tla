-------------------------- MODULE RequestLog_proofs --------------------------
(***************************************************************************)
(* Proofs about the request log: types, and that the ring is the tail of   *)
(* everything logged, for any number of requests and any capacity.         *)
(***************************************************************************)
EXTENDS RequestLog, SequenceTheorems, TLAPS

\* What Keep leaves of a sequence: its last maxLogEntries elements.
LEMMA KeepProperties ==
    ASSUME NEW S, NEW es \in Seq(S)
    PROVE  /\ Keep(es) \in Seq(S)
           /\ Len(Keep(es)) = IF Len(es) <= maxLogEntries THEN Len(es) ELSE maxLogEntries
           /\ \A i \in 1..Len(Keep(es)) : Keep(es)[i] = es[Len(es) - Len(Keep(es)) + i]
<1>1. maxLogEntries \in Nat \ {0} /\ Len(es) \in Nat
  BY LogAssumption, LenProperties
<1>2. CASE Len(es) <= maxLogEntries
  <2>1. Keep(es) = es
    BY <1>1, <1>2 DEF Keep
  <2>2. QED BY <1>1, <1>2, <2>1
<1>3. CASE Len(es) > maxLogEntries
  <2> DEFINE m == Len(es) - maxLogEntries + 1
  <2>1. Keep(es) = SubSeq(es, m, Len(es))
    BY <1>3 DEF Keep
  <2>2. m \in 1..Len(es)+1 /\ Len(es) \in m-1..Len(es)
    BY <1>1, <1>3
  <2>3. /\ SubSeq(es, m, Len(es)) \in Seq(S)
        /\ Len(SubSeq(es, m, Len(es))) = Len(es) - m + 1
        /\ \A i \in 1..(Len(es) - m + 1) : SubSeq(es, m, Len(es))[i] = es[m + i - 1]
    BY <2>2, SubSeqProperties
  <2>4. Len(Keep(es)) = maxLogEntries /\ Len(es) - m + 1 = maxLogEntries
    BY <1>1, <2>1, <2>3
  <2>5. \A i \in 1..maxLogEntries : m + i - 1 = Len(es) - maxLogEntries + i
    BY <1>1
  <2>6. QED BY <1>1, <1>3, <2>1, <2>3, <2>4, <2>5
<1>4. QED BY <1>1, <1>2, <1>3

-----------------------------------------------------------------------------
(* Types and the ring.  Only logged requests are ever about to be added. *)

RingInv ==
    /\ TypeOK /\ RingIsTail
    /\ \A r \in Polling : pc[r] # "returned"

LEMMA RingInit == Init => RingInv
<1> SUFFICES ASSUME Init PROVE RingInv
  OBVIOUS
<1>1. TypeOK
  BY EmptySeq DEF Init, ring, TypeOK, Codes
<1>2. RingIsTail
  BY LogAssumption DEF Init, ring, RingIsTail
<1>3. QED BY <1>1, <1>2, LogAssumption DEF Init, RingInv

\* An entry at place i of the new ring is at place j = m - f + i of the m entries
\* before the oldest are dropped, f of which are kept.
LEMMA Arithmetic ==
    ASSUME NEW t \in Nat, NEW n \in Nat, NEW f \in Nat, NEW i \in Nat, NEW m, m = n + 1
    PROVE  (t + 1) - f + i = t - n + (m - f + i)
OBVIOUS

\* The ring after an entry e was added to it, and to the history.
LEMMA AddKeepsTail ==
    ASSUME entries \in Seq(Entry), history \in Seq(Entry), total \in Nat, RingIsTail,
           NEW e \in Entry,
           entries' = Keep(Append(entries, e)), history' = Append(history, e),
           total' = total + 1
    PROVE  entries' \in Seq(Entry) /\ history' \in Seq(Entry) /\ RingIsTail'
<1> DEFINE more == Append(entries, e)
<1>1. /\ more \in Seq(Entry) /\ Len(more) = Len(entries) + 1
      /\ \A i \in 1..Len(entries) : more[i] = entries[i]
      /\ more[Len(entries) + 1] = e
  BY AppendProperties
<1>2. /\ history' \in Seq(Entry) /\ Len(history') = Len(history) + 1
      /\ \A i \in 1..Len(history) : history'[i] = history[i]
      /\ history'[Len(history) + 1] = e
  BY AppendProperties
<1>3. /\ entries' \in Seq(Entry)
      /\ Len(entries') = IF Len(more) <= maxLogEntries THEN Len(more) ELSE maxLogEntries
      /\ \A i \in 1..Len(entries') : entries'[i] = more[Len(more) - Len(entries') + i]
  BY <1>1, KeepProperties
<1>4. /\ Len(entries) \in Nat /\ Len(history) \in Nat /\ maxLogEntries \in Nat \ {0}
      /\ Len(more) \in Nat /\ Len(entries') \in Nat /\ Len(entries') <= Len(more)
  BY <1>1, <1>3, LenProperties, LogAssumption
<1> HIDE DEF more
<1>5. /\ total = Len(history)
      /\ Len(entries) = IF total <= maxLogEntries THEN total ELSE maxLogEntries
      /\ \A i \in 1..Len(entries) : entries[i] = history[total - Len(entries) + i]
  BY DEF RingIsTail
<1>6. total' = Len(history')
  BY <1>2, <1>5
<1>7. Len(entries') = IF total' <= maxLogEntries THEN total' ELSE maxLogEntries
  BY <1>1, <1>3, <1>4, <1>5
<1>8. ASSUME NEW i \in 1..Len(entries')
      PROVE  entries'[i] = history'[total' - Len(entries') + i]
  <2> DEFINE j == Len(more) - Len(entries') + i
  <2>1. entries'[i] = more[j]
    BY <1>3
  <2>2. j \in 1..Len(entries) + 1 /\ i \in Nat
    BY <1>1, <1>4
  <2>3. /\ total \in Nat /\ total' = total + 1 /\ Len(more) = Len(entries) + 1
        /\ Len(entries) \in Nat /\ Len(entries') \in Nat /\ i \in Nat
    BY <1>1, <1>4, <2>2
  <2>4. total' - Len(entries') + i = total - Len(entries) + j
    BY <2>3, Arithmetic
  <2> HIDE DEF j
  <2>5. CASE j = Len(entries) + 1
    <3>1. total' - Len(entries') + i = Len(history) + 1
      BY <1>5, <2>3, <2>4, <2>5, SMTT(60)
    <3>2. QED BY <1>1, <1>2, <2>1, <2>5, <3>1
  <2>6. CASE j # Len(entries) + 1
    <3>1. j \in 1..Len(entries)
      BY <1>4, <2>2, <2>6
    <3>2. more[j] = history[total - Len(entries) + j]
      BY <1>1, <1>5, <3>1
    <3>3. total - Len(entries) + j \in 1..Len(history)
      BY <1>4, <1>5, <3>1
    <3>4. QED BY <1>2, <2>1, <2>4, <3>2, <3>3
  <2>7. QED BY <2>5, <2>6
<1>9. QED BY <1>2, <1>3, <1>6, <1>7, <1>8 DEF RingIsTail

\* The dashboard's view of the entries is a sequence of entries.
LEMMA SnapshotIsSeq ==
    ASSUME entries \in Seq(Entry)
    PROVE  [i \in 1..Len(entries) |-> entries[Len(entries) + 1 - i]] \in Seq(Entry)
<1>1. Len(entries) \in Nat /\ entries \in [1..Len(entries) -> Entry]
  BY LenProperties
<1>2. ASSUME NEW i \in 1..Len(entries)
      PROVE  entries[Len(entries) + 1 - i] \in Entry
  <2>1. Len(entries) + 1 - i \in 1..Len(entries)
    BY <1>1
  <2>2. QED BY <1>1, <2>1, Zenon
<1>3. [i \in 1..Len(entries) |-> entries[Len(entries) + 1 - i]] \in [1..Len(entries) -> Entry]
  BY <1>2, Zenon
<1>4. \A m \in Nat : [1..m -> Entry] \subseteq Seq(Entry)
  BY SeqDef, Zenon
<1>5. QED BY <1>1, <1>3, <1>4, Zenon

LEMMA RingStep == RingInv /\ [Next]_vars => RingInv'
<1> SUFFICES ASSUME RingInv, [Next]_vars PROVE RingInv'
  OBVIOUS
<1> USE DEF RingInv, TypeOK
<1>0. ASSUME UNCHANGED <<entries, total, history>> PROVE RingIsTail'
  BY <1>0 DEF RingIsTail
<1>1. ASSUME NEW r \in Requests, Begin(r) PROVE RingInv'
  <2>1. UNCHANGED <<writer, sent, entries, total, recent, history>>
    BY <1>1 DEF Begin, ring
  <2>2. pc' \in [Requests -> {"new", "serving", "returned", "done"}]
        /\ \A q \in Polling : pc'[q] # "returned"
    BY <1>1, LogAssumption DEF Begin
  <2>3. QED BY <1>0, <2>1, <2>2
<1>2. ASSUME NEW r \in Requests, NEW code \in Codes, WriteHeader(r, code) PROVE RingInv'
  <2>1. UNCHANGED <<pc, entries, total, recent, history>>
    BY <1>2 DEF WriteHeader, ring
  <2>2. writer' \in [Requests -> [status : Codes, wroteHeader : BOOLEAN]]
    BY <1>2 DEF WriteHeader
  <2>3. sent' \in [Requests -> Codes \cup {"none"}]
    BY <1>2 DEF WriteHeader, Send
  <2>4. QED BY <1>0, <2>1, <2>2, <2>3
<1>3. ASSUME NEW r \in Requests, Write(r) PROVE RingInv'
  <2>1. UNCHANGED <<pc, entries, total, recent, history>>
    BY <1>3 DEF Write, ring
  <2>2. writer' \in [Requests -> [status : Codes, wroteHeader : BOOLEAN]]
    BY <1>3 DEF Write
  <2>3. sent' \in [Requests -> Codes \cup {"none"}]
    BY <1>3 DEF Write, Send, Codes
  <2>4. QED BY <1>0, <2>1, <2>2, <2>3
<1>4. ASSUME NEW r \in Requests, Return(r) PROVE RingInv'
  <2>1. UNCHANGED <<writer, entries, total, recent, history>>
    BY <1>4 DEF Return, ring
  <2>2. pc' \in [Requests -> {"new", "serving", "returned", "done"}]
        /\ \A q \in Polling : pc'[q] # "returned"
    BY <1>4, LogAssumption DEF Return
  <2>3. sent' \in [Requests -> Codes \cup {"none"}]
    BY <1>4 DEF Return, Send, Codes
  <2>4. QED BY <1>0, <2>1, <2>2, <2>3
<1>5. ASSUME NEW r \in Requests, Add(r) PROVE RingInv'
  <2> DEFINE e == [request |-> r, status |-> writer[r].status]
  <2>1. e \in Entry
    BY <1>5 DEF Add, Entry, Logged
  <2>2. entries' \in Seq(Entry) /\ history' \in Seq(Entry) /\ RingIsTail'
    BY <1>5, <2>1, AddKeepsTail DEF Add
  <2>3. total' \in Nat /\ UNCHANGED <<writer, sent, recent>>
    BY <1>5 DEF Add
  <2>4. pc' \in [Requests -> {"new", "serving", "returned", "done"}]
        /\ \A q \in Polling : pc'[q] # "returned"
    BY <1>5, LogAssumption DEF Add
  <2>5. QED BY <2>2, <2>3, <2>4
<1>6. CASE Snapshot
  <2>1. recent' \in Seq(Entry)
    BY <1>6, SnapshotIsSeq DEF Snapshot
  <2>2. UNCHANGED <<pc, writer, sent, entries, total, history>>
    BY <1>6 DEF Snapshot, ring
  <2>3. QED BY <1>0, <2>1, <2>2
<1>7. CASE UNCHANGED vars
  <2>1. UNCHANGED <<pc, writer, sent, entries, total, recent, history>>
    BY <1>7 DEF vars, ring
  <2>2. QED BY <1>0, <2>1
<1>8. QED BY <1>1, <1>2, <1>3, <1>4, <1>5, <1>6, <1>7 DEF Next

THEOREM RingInvariant == Spec => []RingInv
<1>1. QED BY RingInit, RingStep, PTL DEF Spec

\* Every state of the log is well typed.
THEOREM LogTypeOK == Spec => []TypeOK
<1>1. RingInv => TypeOK
  BY DEF RingInv
<1>2. QED BY <1>1, RingInvariant, PTL

\* The ring is the tail of everything logged, as long as it can be.
THEOREM LogRingIsTail == Spec => []RingIsTail
<1>1. RingInv => RingIsTail
  BY DEF RingInv
<1>2. QED BY <1>1, RingInvariant, PTL

-----------------------------------------------------------------------------
(* What is shown, and what is logged. *)

\* The history grows at its end.
LEMMA HistoryGrows ==
    ASSUME RingInv, NEW r \in Requests, Add(r)
    PROVE  LET e == [request |-> r, status |-> writer[r].status]
           IN /\ Len(history) \in Nat /\ Len(history') = Len(history) + 1
              /\ history'[Len(history) + 1] = e
              /\ \A k \in 1..Len(history) : history'[k] = history[k]
<1> DEFINE e == [request |-> r, status |-> writer[r].status]
<1>1. e \in Entry
  BY DEF Add, RingInv, TypeOK, Entry, Logged
<1>2. history \in Seq(Entry) /\ history' = Append(history, e)
  BY DEF Add, RingInv, TypeOK
<1> HIDE DEF e
<1>3. /\ Len(history') = Len(history) + 1 /\ history'[Len(history) + 1] = e
      /\ \A k \in 1..Len(history) : history'[k] = history[k]
  BY <1>1, <1>2, AppendProperties
<1>4. QED BY <1>2, <1>3, LenProperties DEF e

\* The ring read backwards is the history read backwards.
LEMMA SnapshotIsConsecutive ==
    ASSUME RingInv, Snapshot
    PROVE  RecentIsConsecutive'
<1> DEFINE n == Len(entries)
           t == Len(history)
<1>1. /\ n \in Nat /\ t \in Nat /\ n <= t
      /\ \A i \in 1..n : entries[i] = history[t - n + i]
  <2>1. n \in Nat /\ t \in Nat
    BY LenProperties DEF RingInv, TypeOK
  <2>2. /\ total = t /\ n = (IF t <= maxLogEntries THEN t ELSE maxLogEntries)
        /\ \A i \in 1..n : entries[i] = history[total - n + i]
    BY DEF RingInv, RingIsTail
  <2> HIDE DEF n, t
  <2>3. n <= t
    BY <2>1, <2>2, LogAssumption
  <2>4. QED BY <2>1, <2>2, <2>3
<1>2. recent' = [i \in 1..n |-> entries[n + 1 - i]] /\ history' = history
  BY DEF Snapshot
<1>3. Len(recent') = n
  BY <1>1, <1>2
<1> HIDE DEF n, t
<1>4. \A i \in 1..n : recent'[i] = history[t + 1 - i]
  <2> SUFFICES ASSUME NEW i \in 1..n PROVE recent'[i] = history[t + 1 - i]
    OBVIOUS
  <2>1. n + 1 - i \in 1..n /\ t - n + (n + 1 - i) = t + 1 - i
    BY <1>1
  <2>2. entries[n + 1 - i] = history[t - n + (n + 1 - i)]
    BY <1>1, <2>1
  <2>3. QED BY <1>2, <2>1, <2>2
<1>5. QED
  <2> SUFFICES ASSUME NEW i \in 1..n
               PROVE  \E k \in 1..t :
                        /\ recent'[i] = history[k]
                        /\ i < n => k > 1 /\ recent'[i + 1] = history[k - 1]
    <3>1. Len(history') = t /\ history' = history
      BY <1>2 DEF t
    <3>2. QED BY <1>3, <3>1 DEF RecentIsConsecutive
  <2>1. t + 1 - i \in 1..t /\ (i < n => t + 1 - i > 1)
    BY <1>1
  <2>2. i < n => i + 1 \in 1..n /\ t + 1 - (i + 1) = (t + 1 - i) - 1
    BY <1>1
  <2>3. i < n => recent'[i + 1] = history[(t + 1 - i) - 1]
    BY <1>4, <2>2
  <2>4. QED BY <1>4, <2>1, <2>3

LEMMA ConsecutiveStep == RingInv /\ RecentIsConsecutive /\ [Next]_vars => RecentIsConsecutive'
<1> SUFFICES ASSUME RingInv, RecentIsConsecutive, [Next]_vars PROVE RecentIsConsecutive'
  OBVIOUS
<1>1. CASE Snapshot
  BY <1>1, SnapshotIsConsecutive
<1>2. ASSUME NEW r \in Requests, Add(r) PROVE RecentIsConsecutive'
  <2>1. recent' = recent /\ Len(history) \in Nat /\ Len(history') = Len(history) + 1
        /\ \A k \in 1..Len(history) : history'[k] = history[k]
    BY <1>2, HistoryGrows DEF Add
  <2> SUFFICES ASSUME NEW i \in 1..Len(recent)
               PROVE  \E k \in 1..Len(history') :
                        /\ recent[i] = history'[k]
                        /\ i < Len(recent) => k > 1 /\ recent[i + 1] = history'[k - 1]
    BY <2>1 DEF RecentIsConsecutive
  <2>2. PICK k \in 1..Len(history) :
            /\ recent[i] = history[k]
            /\ i < Len(recent) => k > 1 /\ recent[i + 1] = history[k - 1]
    BY DEF RecentIsConsecutive
  <2>3. k \in 1..Len(history') /\ (k > 1 => k - 1 \in 1..Len(history))
    BY <2>1
  <2>4. QED BY <2>1, <2>2, <2>3
<1>3. CASE UNCHANGED <<recent, history>>
  BY <1>3 DEF RecentIsConsecutive
<1>4. QED BY <1>1, <1>2, <1>3 DEF Next, Begin, WriteHeader, Write, Return, vars

\* What the dashboard shows is a run of consecutive requests, for any capacity.
THEOREM LogRecentIsConsecutive == Spec => []RecentIsConsecutive
<1>1. Init => RecentIsConsecutive
  BY DEF Init, RecentIsConsecutive
<1>2. QED BY <1>1, RingInvariant, ConsecutiveStep, PTL DEF Spec

\* The status that the writer has recorded is the one that was sent, or that will
\* be; what is logged does not change any more.
Recorded ==
    /\ \A r \in Requests :
        \/ pc[r] \in {"new", "serving"} /\ sent[r] = "none"
             /\ ~writer[r].wroteHeader /\ writer[r].status = "200"
        \/ pc[r] = "serving" /\ writer[r].wroteHeader /\ sent[r] = writer[r].status
             /\ sent[r] # "none"
        \/ pc[r] \in {"returned", "done"} /\ sent[r] = writer[r].status /\ sent[r] # "none"
    /\ \A i \in 1..Len(history) : history[i].request \in Requests /\ pc[history[i].request] = "done"
    /\ LogsWhatWasSent

\* One request moves, and stays clear of what is logged.
LEMMA OneRequestMoves ==
    ASSUME RingInv, Recorded, NEW r \in Requests, pc[r] # "done", history' = history,
           \A q \in Requests \ {r} :
                pc'[q] = pc[q] /\ writer'[q] = writer[q] /\ sent'[q] = sent[q],
           \/ pc'[r] \in {"new", "serving"} /\ sent'[r] = "none"
                /\ ~writer'[r].wroteHeader /\ writer'[r].status = "200"
           \/ pc'[r] = "serving" /\ writer'[r].wroteHeader /\ sent'[r] = writer'[r].status
                /\ sent'[r] # "none"
           \/ pc'[r] \in {"returned", "done"} /\ sent'[r] = writer'[r].status /\ sent'[r] # "none"
    PROVE  Recorded'
<1>1. \A i \in 1..Len(history) : history[i].request \in Requests \ {r}
  BY DEF Recorded
<1>2. LogsWhatWasSent'
  BY <1>1 DEF Recorded, LogsWhatWasSent
<1>3. QED BY <1>1, <1>2 DEF Recorded

LEMMA RecordedStep == RingInv /\ Recorded /\ [Next]_vars => Recorded'
<1> SUFFICES ASSUME RingInv, Recorded, [Next]_vars PROVE Recorded'
  OBVIOUS
<1>0. /\ pc \in [Requests -> {"new", "serving", "returned", "done"}]
      /\ writer \in [Requests -> [status : Codes, wroteHeader : BOOLEAN]]
      /\ sent \in [Requests -> Codes \cup {"none"}]
  BY DEF RingInv, TypeOK
<1>1. ASSUME NEW r \in Requests, Begin(r) PROVE Recorded'
  BY <1>0, <1>1, OneRequestMoves DEF Begin, Recorded
<1>2. ASSUME NEW r \in Requests, NEW code \in Codes, WriteHeader(r, code) PROVE Recorded'
  <2>1. code # "none"
    BY DEF Codes
  <2>2. QED BY <1>0, <1>2, <2>1, OneRequestMoves DEF WriteHeader, Send, Recorded
<1>3. ASSUME NEW r \in Requests, Write(r) PROVE Recorded'
  BY <1>0, <1>3, OneRequestMoves DEF Write, Send, Recorded
<1>4. ASSUME NEW r \in Requests, Return(r) PROVE Recorded'
  BY <1>0, <1>4, OneRequestMoves DEF Return, Send, Recorded
<1>5. ASSUME NEW r \in Requests, Add(r) PROVE Recorded'
  <2>1. pc[r] = "returned" /\ pc' = [pc EXCEPT ![r] = "done"] /\ UNCHANGED <<writer, sent>>
    BY <1>5 DEF Add
  <2> DEFINE n == Len(history)
             e == history'[n + 1]
  <2>2. /\ n \in Nat /\ Len(history') = n + 1 /\ e.request = r /\ e.status = writer[r].status
        /\ \A k \in 1..n : history'[k] = history[k]
    <3> DEFINE h == [request |-> r, status |-> writer[r].status]
    <3>1. /\ n \in Nat /\ Len(history') = n + 1 /\ e = h
          /\ \A k \in 1..n : history'[k] = history[k]
      BY <1>5, HistoryGrows
    <3>2. h.request = r /\ h.status = writer[r].status
      OBVIOUS
    <3> HIDE DEF n, e, h
    <3>3. QED BY <3>1, <3>2
  <2> HIDE DEF n, e
  <2>3. \A i \in 1..Len(history') : i \in 1..n \/ i = n + 1
    BY <2>2
  <2>4. e.request \in Requests /\ pc'[e.request] = "done" /\ e.status = sent'[e.request]
    BY <1>0, <2>1, <2>2 DEF Recorded
  <2>5. \A i \in 1..n :
            /\ history[i].request \in Requests /\ pc'[history[i].request] = "done"
            /\ history[i].status = sent'[history[i].request]
    BY <1>0, <2>1 DEF Recorded, LogsWhatWasSent, n
  <2>6. \A i \in 1..Len(history') :
            /\ history'[i].request \in Requests /\ pc'[history'[i].request] = "done"
            /\ history'[i].status = sent'[history'[i].request]
    BY <2>2, <2>3, <2>4, <2>5 DEF e
  <2>7. \A q \in Requests : pc'[q] = pc[q] \/ (q = r /\ pc'[q] = "done")
    BY <1>0, <2>1
  <2>8. QED BY <2>1, <2>6, <2>7 DEF Recorded, LogsWhatWasSent
<1>6. CASE UNCHANGED <<pc, writer, sent, history>>
  BY <1>6 DEF Recorded, LogsWhatWasSent
<1>7. QED BY <1>1, <1>2, <1>3, <1>4, <1>5, <1>6 DEF Next, Snapshot, vars

\* The log shows the status the client was sent, for any number of handlers and any
\* order of headers and bodies.
THEOREM LogLogsWhatWasSent == Spec => []LogsWhatWasSent
<1>1. Init => Recorded
  BY DEF Init, Recorded, LogsWhatWasSent
<1>2. Recorded => LogsWhatWasSent
  BY DEF Recorded
<1>3. QED BY <1>1, <1>2, RingInvariant, RecordedStep, PTL DEF Spec
=============================================================================
