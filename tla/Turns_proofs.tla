---------------------------- MODULE Turns_proofs ----------------------------
(***************************************************************************)
(* For turns of any length: what a client is sent over either API is what  *)
(* the upstream said, in order and well formed, and agrees with the answer *)
(* that is not streamed.                                                   *)
(***************************************************************************)
EXTENDS Turns, Lists_proofs

(* The buffered answer, event by event *)

Texts(evs) == NonEmpty(DataOf(OfType(evs, "text-delta")))
Thoughts(evs) == NonEmpty(DataOf(OfType(evs, "reasoning-delta")))
Calls(evs) == DataOf(OfType(evs, "tool-call"))
Said(evs) == DataOf(Select(evs, Pieces))

LEMMA BuildFields ==
  \A evs : /\ BuildCompletion(evs).content = Texts(evs)
           /\ BuildCompletion(evs).reasoning = Thoughts(evs)
           /\ BuildCompletion(evs).tool_calls = Calls(evs)
           /\ BuildCompletion(evs).finish_reason =
                IF Calls(evs) # <<>> /\ Finished(evs).reason = "stop"
                THEN "tool_calls" ELSE Finished(evs).reason
           /\ BuildCompletion(evs).usage = Finished(evs).usage
  BY DEF BuildCompletion, Texts, Thoughts, Calls

LEMMA EventData == HasData(Event, Nat) /\ \A e \in Event : e.data \in Nat /\ e.type \in EventTypes
  BY DEF HasData, Event

LEMMA DataOfEvents ==
  \A evs \in Seq(Event) : /\ DataOf(evs) \in Seq(Nat)
                          /\ \A e \in Event : DataOf(Append(evs, e)) = Append(DataOf(evs), e.data)
<1> TAKE evs \in Seq(Event)
<1>1. HasData(Event, Nat)
  BY EventData
<1>2. DataOf(evs) \in Seq(Nat)
  BY <1>1, DataType
<1>3. ASSUME NEW e \in Event PROVE DataOf(Append(evs, e)) = Append(DataOf(evs), e.data)
  BY <1>1, DataAppend
<1> QED BY <1>2, <1>3

LEMMA OfTypeAppend ==
  ASSUME NEW evs \in Seq(Event), NEW e \in Event, NEW type
  PROVE  /\ OfType(evs, type) \in Seq(Event) /\ DataOf(OfType(evs, type)) \in Seq(Nat)
         /\ OfType(Append(evs, e), type) =
                IF e.type = type THEN Append(OfType(evs, type), e) ELSE OfType(evs, type)
         /\ DataOf(OfType(Append(evs, e), type)) =
                IF e.type = type THEN Append(DataOf(OfType(evs, type)), e.data)
                ELSE DataOf(OfType(evs, type))
<1> DEFINE S == {x \in Event : x.type = type}
<1>1. Select(evs, S) \in Seq(Event)
  BY SelectType
<1>2. Select(Append(evs, e), S) = IF e \in S THEN Append(Select(evs, S), e) ELSE Select(evs, S)
  BY SelectAppend
<1>3. e \in S <=> e.type = type
  OBVIOUS
<1> HIDE DEF S
<1>4. /\ DataOf(Select(evs, S)) \in Seq(Nat)
      /\ DataOf(Append(Select(evs, S), e)) = Append(DataOf(Select(evs, S)), e.data)
  BY <1>1, DataOfEvents
<1>5. OfType(evs, type) = Select(evs, S) /\ OfType(Append(evs, e), type) = Select(Append(evs, e), S)
  BY DEF OfType, S
<1>6. DataOf(Select(Append(evs, e), S)) =
        IF e \in S THEN Append(DataOf(Select(evs, S)), e.data) ELSE DataOf(Select(evs, S))
  BY <1>2, <1>4
<1> QED BY <1>1, <1>2, <1>3, <1>4, <1>5, <1>6, Zenon

LEMMA NonEmptyAppend ==
  ASSUME NEW ds \in Seq(Nat), NEW d \in Nat
  PROVE  /\ NonEmpty(ds) \in Seq(Nat)
         /\ NonEmpty(Append(ds, d)) = IF d # 0 THEN Append(NonEmpty(ds), d) ELSE NonEmpty(ds)
<1>1. NonEmpty(ds) \in Seq(Nat)
  BY SelectType DEF NonEmpty
<1>2. Select(Append(ds, d), Nat \ {0})
        = IF d \in Nat \ {0} THEN Append(Select(ds, Nat \ {0}), d) ELSE Select(ds, Nat \ {0})
  BY SelectAppend
<1> QED BY <1>1, <1>2 DEF NonEmpty

LEMMA SaidAppend ==
  ASSUME NEW evs \in Seq(Event), NEW e \in Event
  PROVE  /\ Said(evs) \in Seq(Nat)
         /\ Said(Append(evs, e)) = IF e \in Pieces THEN Append(Said(evs), e.data) ELSE Said(evs)
<1>1. Select(evs, Pieces) \in Seq(Event)
  BY SelectType
<1>2. Select(Append(evs, e), Pieces) =
        IF e \in Pieces THEN Append(Select(evs, Pieces), e) ELSE Select(evs, Pieces)
  BY SelectAppend
<1>3. /\ DataOf(Select(evs, Pieces)) \in Seq(Nat)
      /\ DataOf(Append(Select(evs, Pieces), e)) = Append(DataOf(Select(evs, Pieces)), e.data)
  BY <1>1, DataOfEvents
<1> QED BY <1>2, <1>3 DEF Said

LEMMA FieldsAppend ==
  ASSUME NEW evs \in Seq(Event), NEW e \in Event
  PROVE  /\ Texts(evs) \in Seq(Nat) /\ Thoughts(evs) \in Seq(Nat) /\ Calls(evs) \in Seq(Nat)
         /\ Texts(Append(evs, e)) =
                IF e.type = "text-delta" /\ e.data # 0 THEN Append(Texts(evs), e.data) ELSE Texts(evs)
         /\ Thoughts(Append(evs, e)) =
                IF e.type = "reasoning-delta" /\ e.data # 0 THEN Append(Thoughts(evs), e.data)
                ELSE Thoughts(evs)
         /\ Calls(Append(evs, e)) =
                IF e.type = "tool-call" THEN Append(Calls(evs), e.data) ELSE Calls(evs)
<1>1. e.data \in Nat
  BY EventData
<1>2. ASSUME NEW type
      PROVE  /\ NonEmpty(DataOf(OfType(evs, type))) \in Seq(Nat)
             /\ NonEmpty(DataOf(OfType(Append(evs, e), type))) =
                    IF e.type = type /\ e.data # 0 THEN Append(NonEmpty(DataOf(OfType(evs, type))), e.data)
                    ELSE NonEmpty(DataOf(OfType(evs, type)))
  <2>1. /\ DataOf(OfType(evs, type)) \in Seq(Nat)
        /\ DataOf(OfType(Append(evs, e), type)) =
                IF e.type = type THEN Append(DataOf(OfType(evs, type)), e.data)
                ELSE DataOf(OfType(evs, type))
    BY OfTypeAppend
  <2>2. \A ds \in Seq(Nat) :
            /\ NonEmpty(ds) \in Seq(Nat)
            /\ NonEmpty(Append(ds, e.data))
                    = IF e.data # 0 THEN Append(NonEmpty(ds), e.data) ELSE NonEmpty(ds)
    BY <1>1, NonEmptyAppend
  <2> QED BY <2>1, <2>2
<1>3. /\ Calls(evs) \in Seq(Nat)
      /\ Calls(Append(evs, e)) =
            IF e.type = "tool-call" THEN Append(Calls(evs), e.data) ELSE Calls(evs)
  BY OfTypeAppend DEF Calls
<1> QED BY <1>2, <1>3 DEF Texts, Thoughts

LEMMA FinishedAppend ==
  ASSUME NEW evs \in Seq(Event), NEW e \in Event
  PROVE  /\ Finished(Append(evs, e)) =
                IF e.type = "finish" THEN [reason |-> MapFinishReason(e.reason), usage |-> e.data]
                ELSE Finished(evs)
         /\ HasError(Append(evs, e)) <=> HasError(evs) \/ e.type = "error"
<1>1. OfType(evs, "finish") \in Seq(Event)
  BY SelectType DEF OfType
<1>2. \A fs \in Seq(Event) : Append(fs, e) # <<>> /\ Last(Append(fs, e)) = e
  BY AppendProperties, LenProperties DEF Last
<1>3. OfType(Append(evs, e), "finish") =
        IF e.type = "finish" THEN Append(OfType(evs, "finish"), e) ELSE OfType(evs, "finish")
  BY OfTypeAppend
<1>4. Finished(Append(evs, e)) =
        IF e.type = "finish" THEN [reason |-> MapFinishReason(e.reason), usage |-> e.data]
        ELSE Finished(evs)
  BY <1>1, <1>2, <1>3 DEF Finished
<1>5. HasError(Append(evs, e)) <=> HasError(evs) \/ e.type = "error"
  <2>1. /\ DOMAIN evs = 1..Len(evs) /\ DOMAIN Append(evs, e) = 1..(Len(evs) + 1) /\ Len(evs) \in Nat
        /\ Append(evs, e)[Len(evs) + 1] = e /\ \A i \in 1..Len(evs) : Append(evs, e)[i] = evs[i]
    BY AppendProperties, LenProperties
  <2> QED BY <2>1 DEF HasError
<1> QED BY <1>4, <1>5

\* Before the first event.
LEMMA NothingSaid ==
  /\ Said(<<>>) = <<>> /\ Texts(<<>>) = <<>> /\ Thoughts(<<>>) = <<>> /\ Calls(<<>>) = <<>>
  /\ Finished(<<>>) = [reason |-> "stop", usage |-> 0] /\ ~HasError(<<>>)
<1>1. \A type : OfType(<<>>, type) = <<>>
  BY SelectEmpty DEF OfType
<1>2. NonEmpty(<<>>) = <<>>
  BY SelectEmpty DEF NonEmpty
<1>3. Said(<<>>) = <<>>
  BY SelectEmpty, DataEmpty DEF Said
<1>4. Finished(<<>>) = [reason |-> "stop", usage |-> 0]
  BY <1>1 DEF Finished
<1>5. ~HasError(<<>>)
  BY DEF HasError
<1> QED BY <1>1, <1>2, <1>3, <1>4, <1>5, DataEmpty DEF Texts, Thoughts, Calls

LEMMA FinishedType ==
  \A evs \in Seq(Event) :
    Finished(evs).reason \in {"stop", "tool_calls", "length"} /\ Finished(evs).usage \in Nat
<1> TAKE evs \in Seq(Event)
<1> DEFINE fs == OfType(evs, "finish")
<1>1. fs \in Seq(Event)
  BY SelectType DEF OfType
<1>2. CASE fs = <<>>
  BY <1>2 DEF Finished
<1>3. CASE fs # <<>>
  <2>1. Last(fs) \in Event
    <3>1. Len(fs) \in 1..Len(fs)
      BY <1>1, <1>3, EmptySeq, LenProperties
    <3> HIDE DEF fs
    <3> QED BY <1>1, <3>1, ElementOfSeq DEF Last
  <2>2. MapFinishReason(Last(fs).reason) \in {"stop", "tool_calls", "length"}
    BY DEF MapFinishReason
  <2>3. Last(fs).data \in Nat
    BY <2>1, EventData
  <2>4. Finished(evs) = [reason |-> MapFinishReason(Last(fs).reason), usage |-> Last(fs).data]
    BY <1>3 DEF Finished
  <2> HIDE DEF fs
  <2> QED BY <2>2, <2>3, <2>4
<1> QED BY <1>2, <1>3

-----------------------------------------------------------------------------
(* Chat Completions *)

\* The frames that carry what the turn says, and their data.
Content == {"content", "reasoning_content", "tool_calls"}
SentAs(fs, kinds) == DataOf(Select(fs, Kinds(kinds)))

LEMMA ChunkData == HasData(Chunks, Nat) /\ \A f \in Chunks : f.data \in Nat /\ f.index \in Nat
  BY DEF HasData, Chunks

LEMMA ChunkDataConcat ==
  \A r, s \in Seq(Chunks) : DataOf(r \o s) = DataOf(r) \o DataOf(s)
<1>1. HasData(Chunks, Nat)
  BY ChunkData
<1> QED BY <1>1, DataConcat

LEMMA SentAsAppend ==
  ASSUME NEW fs \in Seq(Chunks), NEW f \in Chunks, NEW kinds
  PROVE  /\ Select(fs, Kinds(kinds)) \in Seq(Chunks) /\ SentAs(fs, kinds) \in Seq(Nat)
         /\ Select(Append(fs, f), Kinds(kinds)) =
                IF f.frame \in kinds THEN Append(Select(fs, Kinds(kinds)), f)
                ELSE Select(fs, Kinds(kinds))
         /\ SentAs(Append(fs, f), kinds) =
                IF f.frame \in kinds THEN Append(SentAs(fs, kinds), f.data) ELSE SentAs(fs, kinds)
<1>1. Select(fs, Kinds(kinds)) \in Seq(Chunks)
  BY SelectType
<1>2. f \in Kinds(kinds) <=> f.frame \in kinds
  BY DEF Kinds
<1>3. Select(Append(fs, f), Kinds(kinds)) =
        IF f.frame \in kinds THEN Append(Select(fs, Kinds(kinds)), f) ELSE Select(fs, Kinds(kinds))
  BY <1>2, SelectAppend
<1>4. HasData(Chunks, Nat)
  BY ChunkData
<1>5. DataOf(Select(fs, Kinds(kinds))) \in Seq(Nat)
  BY <1>1, <1>4, DataType
<1>6. DataOf(Append(Select(fs, Kinds(kinds)), f)) = Append(DataOf(Select(fs, Kinds(kinds))), f.data)
  BY <1>1, <1>4, DataAppend
<1>7. DataOf(Select(Append(fs, f), Kinds(kinds))) =
        IF f.frame \in kinds THEN Append(DataOf(Select(fs, Kinds(kinds))), f.data)
        ELSE DataOf(Select(fs, Kinds(kinds)))
  BY <1>3, <1>6
<1> QED BY <1>1, <1>3, <1>5, <1>7 DEF SentAs

\* The calls are numbered from 0.
CallsNumbered(fs) ==
    \A i \in 1..Len(Select(fs, Kinds({"tool_calls"}))) :
        Select(fs, Kinds({"tool_calls"}))[i].index = i - 1

LEMMA CallsNumberedAppend ==
  ASSUME NEW fs \in Seq(Chunks), NEW f \in Chunks, CallsNumbered(fs),
         f.frame = "tool_calls" => f.index = Len(Select(fs, Kinds({"tool_calls"})))
  PROVE  CallsNumbered(Append(fs, f))
<1> DEFINE calls == Select(fs, Kinds({"tool_calls"}))
<1>1. /\ calls \in Seq(Chunks) /\ Len(calls) \in Nat
      /\ \A i \in 1..Len(calls) : calls[i].index = i - 1
      /\ f.frame = "tool_calls" => f.index = Len(calls)
  BY SelectType, LenProperties DEF CallsNumbered
<1>2. Select(Append(fs, f), Kinds({"tool_calls"})) =
        IF f.frame \in {"tool_calls"} THEN Append(calls, f) ELSE calls
  BY SentAsAppend
<1> HIDE DEF calls
<1>3. CASE f.frame = "tool_calls"
  <2>1. Select(Append(fs, f), Kinds({"tool_calls"})) = Append(calls, f)
    BY <1>2, <1>3
  <2>2. /\ Len(Append(calls, f)) = Len(calls) + 1 /\ Append(calls, f)[Len(calls) + 1] = f
        /\ \A i \in 1..Len(calls) : Append(calls, f)[i] = calls[i]
    BY <1>1, AppendProperties
  <2>3. ASSUME NEW i \in 1..(Len(calls) + 1) PROVE Append(calls, f)[i].index = i - 1
    <3>1. i = Len(calls) + 1 \/ i \in 1..Len(calls)
      BY <1>1
    <3> QED BY <1>1, <1>3, <2>2, <3>1
  <2> QED BY <2>1, <2>2, <2>3 DEF CallsNumbered
<1>4. CASE f.frame # "tool_calls"
  <2>1. Select(Append(fs, f), Kinds({"tool_calls"})) = calls
    BY <1>2, <1>4
  <2> QED BY <1>1, <2>1 DEF CallsNumbered
<1> QED BY <1>3, <1>4

\* The chunks carry what the buffered answer to the same events consists of.
Carries(fs, evs, n) ==
    /\ SentAs(fs, Content) = Said(evs)
    /\ SentAs(fs, {"content"}) = Texts(evs)
    /\ SentAs(fs, {"reasoning_content"}) = Thoughts(evs)
    /\ SentAs(fs, {"tool_calls"}) = Calls(evs)
    /\ CallsNumbered(fs) /\ Len(Select(fs, Kinds({"tool_calls"}))) = n

\* The kind of chunk a piece is sent as.
KindOf(e) ==
    CASE e.type = "text-delta" -> "content"
      [] e.type = "reasoning-delta" -> "reasoning_content"
      [] OTHER -> "tool_calls"

LEMMA CarriesPiece ==
  ASSUME NEW fs \in Seq(Chunks), NEW evs \in Seq(Event), NEW n \in Nat, NEW e \in Pieces,
         NEW f \in Chunks, f.frame = KindOf(e), f.data = e.data,
         e.type = "tool-call" => f.index = n,
         Carries(fs, evs, n)
  PROVE  Carries(Append(fs, f), Append(evs, e), IF e.type = "tool-call" THEN n + 1 ELSE n)
<1>1. e \in Event /\ e.data # 0 /\ e.type \in {"text-delta", "reasoning-delta", "tool-call"}
  BY DEF Pieces
<1>2. Said(Append(evs, e)) = Append(Said(evs), e.data)
  BY <1>1, SaidAppend
<1>3. /\ Texts(Append(evs, e)) = IF e.type = "text-delta" THEN Append(Texts(evs), e.data) ELSE Texts(evs)
      /\ Thoughts(Append(evs, e)) =
            IF e.type = "reasoning-delta" THEN Append(Thoughts(evs), e.data) ELSE Thoughts(evs)
      /\ Calls(Append(evs, e)) = IF e.type = "tool-call" THEN Append(Calls(evs), e.data) ELSE Calls(evs)
  BY <1>1, FieldsAppend
<1>4. /\ f.frame \in Content
      /\ f.frame = "content" <=> e.type = "text-delta"
      /\ f.frame = "reasoning_content" <=> e.type = "reasoning-delta"
      /\ f.frame = "tool_calls" <=> e.type = "tool-call"
  BY <1>1 DEF KindOf, Content
<1>5. ASSUME NEW kinds
      PROVE  SentAs(Append(fs, f), kinds) =
                IF f.frame \in kinds THEN Append(SentAs(fs, kinds), e.data) ELSE SentAs(fs, kinds)
  BY SentAsAppend
<1>6. /\ SentAs(Append(fs, f), Content) = Append(SentAs(fs, Content), e.data)
      /\ SentAs(Append(fs, f), {"content"}) =
            IF e.type = "text-delta" THEN Append(SentAs(fs, {"content"}), e.data)
            ELSE SentAs(fs, {"content"})
      /\ SentAs(Append(fs, f), {"reasoning_content"}) =
            IF e.type = "reasoning-delta" THEN Append(SentAs(fs, {"reasoning_content"}), e.data)
            ELSE SentAs(fs, {"reasoning_content"})
      /\ SentAs(Append(fs, f), {"tool_calls"}) =
            IF e.type = "tool-call" THEN Append(SentAs(fs, {"tool_calls"}), e.data)
            ELSE SentAs(fs, {"tool_calls"})
  BY <1>4, <1>5
<1>7. CallsNumbered(Append(fs, f))
  BY <1>4, CallsNumberedAppend DEF Carries
<1>8. Len(Select(Append(fs, f), Kinds({"tool_calls"}))) = IF e.type = "tool-call" THEN n + 1 ELSE n
  <2>1. Select(fs, Kinds({"tool_calls"})) \in Seq(Chunks)
    BY SelectType
  <2>2. Select(Append(fs, f), Kinds({"tool_calls"})) =
          IF e.type = "tool-call" THEN Append(Select(fs, Kinds({"tool_calls"})), f)
          ELSE Select(fs, Kinds({"tool_calls"}))
    BY <1>4, SentAsAppend
  <2>3. Len(Append(Select(fs, Kinds({"tool_calls"})), f)) = Len(Select(fs, Kinds({"tool_calls"}))) + 1
    BY <2>1, AppendProperties
  <2> QED BY <2>2, <2>3 DEF Carries
<1> QED BY <1>2, <1>3, <1>6, <1>7, <1>8 DEF Carries

\* An event that says nothing.
Silent(e) ==
    /\ e.type = "tool-call" => FALSE
    /\ e.type \in {"text-delta", "reasoning-delta"} => e.data = 0

LEMMA CarriesSilent ==
  ASSUME NEW fs, NEW evs \in Seq(Event), NEW n, NEW e \in Event, Silent(e), Carries(fs, evs, n)
  PROVE  Carries(fs, Append(evs, e), n)
<1>1. e \notin Pieces
  BY DEF Pieces, Silent
<1>2. Said(Append(evs, e)) = Said(evs)
  BY <1>1, SaidAppend
<1>3. /\ Texts(Append(evs, e)) = Texts(evs) /\ Thoughts(Append(evs, e)) = Thoughts(evs)
      /\ Calls(Append(evs, e)) = Calls(evs)
  BY FieldsAppend DEF Silent
<1> QED BY <1>2, <1>3 DEF Carries

LEMMA CarriesOther ==
  ASSUME NEW fs \in Seq(Chunks), NEW evs, NEW n, NEW f \in Chunks, f.frame \notin Content,
         Carries(fs, evs, n)
  PROVE  Carries(Append(fs, f), evs, n)
<1>1. ASSUME NEW kinds, f.frame \notin kinds
      PROVE  SentAs(Append(fs, f), kinds) = SentAs(fs, kinds)
             /\ Select(Append(fs, f), Kinds(kinds)) = Select(fs, Kinds(kinds))
  BY <1>1, SentAsAppend
<1>2. /\ f.frame \notin {"content"} /\ f.frame \notin {"reasoning_content"}
      /\ f.frame \notin {"tool_calls"}
  BY DEF Content
<1>3. /\ SentAs(Append(fs, f), Content) = SentAs(fs, Content)
      /\ SentAs(Append(fs, f), {"content"}) = SentAs(fs, {"content"})
      /\ SentAs(Append(fs, f), {"reasoning_content"}) = SentAs(fs, {"reasoning_content"})
      /\ SentAs(Append(fs, f), {"tool_calls"}) = SentAs(fs, {"tool_calls"})
      /\ Select(Append(fs, f), Kinds({"tool_calls"})) = Select(fs, Kinds({"tool_calls"}))
  BY <1>1, <1>2
<1> QED BY <1>3 DEF Carries, CallsNumbered

-----------------------------------------------------------------------------

(* The end of a turn *)

IsOutcome(f) == f.frame \in {"final", "error"}

OutcomeOnce(fs) ==
    /\ \A i, j \in 1..Len(fs) : IsOutcome(fs[i]) /\ i < j => fs[j].frame \in {"usage", "[DONE]"}
    /\ \A i \in 1..Len(fs) : fs[i].frame = "[DONE]" => \E k \in 1..i : IsOutcome(fs[k])

\* The outcome has not been sent yet.
Unended(fs) == \A i \in 1..Len(fs) : fs[i].frame \in Content \cup {"role"}

\* It has been sent, and the terminator has not.
Ended(fs) ==
    /\ OutcomeOnce(fs) /\ \E i \in 1..Len(fs) : IsOutcome(fs[i])
    /\ \A i \in 1..Len(fs) : fs[i].frame # "[DONE]"

LastIs(fs, kind) ==
    /\ fs # <<>> /\ fs[Len(fs)].frame = kind
    /\ \A i \in 1..(Len(fs) - 1) : fs[i].frame # kind

LEMMA Appended ==
  \A E : \A fs \in Seq(E), f \in E :
    /\ Append(fs, f) \in Seq(E) /\ Len(fs) \in Nat /\ Len(Append(fs, f)) = Len(fs) + 1
    /\ Append(fs, f)[Len(fs) + 1] = f /\ \A i \in 1..Len(fs) : Append(fs, f)[i] = fs[i]
    /\ Append(fs, f) # <<>>
<1> TAKE E
<1> TAKE fs \in Seq(E), f \in E
<1>1. Len(Append(fs, f)) = Len(fs) + 1 /\ Len(fs) \in Nat
  BY AppendProperties, LenProperties
<1>2. Append(fs, f) # <<>>
  BY <1>1, EmptySeq
<1> QED BY <1>1, <1>2, AppendProperties

LEMMA UnendedAppend ==
  ASSUME NEW fs \in Seq(Chunks), NEW f \in Chunks, Unended(fs)
  PROVE  /\ OutcomeOnce(fs)
         /\ f.frame \in Content \cup {"role"} => Unended(Append(fs, f))
         /\ IsOutcome(f) => Ended(Append(fs, f))
<1>1. \A i \in 1..Len(fs) : ~IsOutcome(fs[i]) /\ fs[i].frame # "[DONE]"
  BY DEF Unended, IsOutcome, Content
<1>2. /\ Len(fs) \in Nat /\ Len(Append(fs, f)) = Len(fs) + 1
      /\ Append(fs, f)[Len(fs) + 1] = f /\ \A i \in 1..Len(fs) : Append(fs, f)[i] = fs[i]
  BY Appended
<1>3. OutcomeOnce(fs)
  BY <1>1 DEF OutcomeOnce
<1>4. f.frame \in Content \cup {"role"} => Unended(Append(fs, f))
  BY <1>2 DEF Unended
<1>5. ASSUME IsOutcome(f) PROVE Ended(Append(fs, f))
  <2>1. f.frame # "[DONE]"
    BY <1>5 DEF IsOutcome
  <2>2. \A i \in 1..(Len(fs) + 1) : Append(fs, f)[i].frame # "[DONE]"
    BY <1>1, <1>2, <2>1
  <2>3. \A i \in 1..(Len(fs) + 1) : IsOutcome(Append(fs, f)[i]) <=> i = Len(fs) + 1
    BY <1>1, <1>2, <1>5
  <2>4. OutcomeOnce(Append(fs, f))
    BY <1>2, <2>2, <2>3 DEF OutcomeOnce
  <2> QED BY <1>2, <2>2, <2>3, <2>4 DEF Ended
<1> QED BY <1>3, <1>4, <1>5

LEMMA EndedAppend ==
  ASSUME NEW fs \in Seq(Chunks), NEW f \in Chunks, Ended(fs)
  PROVE  /\ f.frame = "usage" => Ended(Append(fs, f))
         /\ f.frame = "[DONE]" => OutcomeOnce(Append(fs, f)) /\ LastIs(Append(fs, f), "[DONE]")
<1>1. /\ Len(fs) \in Nat /\ Len(Append(fs, f)) = Len(fs) + 1 /\ Append(fs, f) # <<>>
      /\ Append(fs, f)[Len(fs) + 1] = f /\ \A i \in 1..Len(fs) : Append(fs, f)[i] = fs[i]
  BY Appended
<1> SUFFICES ASSUME f.frame \in {"usage", "[DONE]"}
             PROVE  /\ OutcomeOnce(Append(fs, f))
                    /\ \E i \in 1..(Len(fs) + 1) : IsOutcome(Append(fs, f)[i])
                    /\ \A i \in 1..Len(fs) : Append(fs, f)[i].frame # "[DONE]"
  BY <1>1 DEF Ended, LastIs
<1>2. ~IsOutcome(f)
  BY DEF IsOutcome
<1>3. PICK k \in 1..Len(fs) : IsOutcome(fs[k])
  BY DEF Ended
<1>4. k \in 1..(Len(fs) + 1) /\ IsOutcome(Append(fs, f)[k])
  BY <1>1, <1>3
<1>5. ASSUME NEW i \in 1..(Len(fs) + 1), NEW j \in 1..(Len(fs) + 1),
             IsOutcome(Append(fs, f)[i]), i < j
      PROVE  Append(fs, f)[j].frame \in {"usage", "[DONE]"}
  <2>1. i \in 1..Len(fs) /\ IsOutcome(fs[i])
    BY <1>1, <1>2, <1>5
  <2>2. CASE j = Len(fs) + 1
    BY <1>1, <2>2
  <2>3. CASE j # Len(fs) + 1
    <3>1. j \in 1..Len(fs)
      BY <1>1, <2>3
    <3>2. fs[j].frame \in {"usage", "[DONE]"}
      BY <1>5, <2>1, <3>1 DEF Ended, OutcomeOnce
    <3> QED BY <1>1, <3>1, <3>2
  <2> QED BY <2>2, <2>3
<1>6. ASSUME NEW i \in 1..(Len(fs) + 1), Append(fs, f)[i].frame = "[DONE]"
      PROVE  \E m \in 1..i : IsOutcome(Append(fs, f)[m])
  <2>1. i = Len(fs) + 1
    BY <1>1, <1>6 DEF Ended
  <2> QED BY <1>4, <2>1
<1>7. OutcomeOnce(Append(fs, f))
  BY <1>1, <1>5, <1>6 DEF OutcomeOnce
<1> QED BY <1>1, <1>4, <1>7 DEF Ended

\* The outcome is not decided yet, and the loop's variables stand for it.
Undecided(reason, evs, u, tool) ==
    /\ ~HasError(evs) /\ reason = Finished(evs).reason /\ u = Finished(evs).usage
    /\ tool <=> Calls(evs) # <<>>

\* The outcome is the one of the buffered answer, unless an error has ended the turn.
Decided(fs, evs, include) ==
    ~HasError(evs) =>
        /\ Select(fs, Kinds({"final"})) = <<Final(BuildCompletion(evs).finish_reason)>>
        /\ SentAs(fs, {"usage"}) = IF include /\ BuildCompletion(evs).usage # 0
                                   THEN <<BuildCompletion(evs).usage>> ELSE <<>>

LEMMA UndecidedAppend ==
  ASSUME NEW evs \in Seq(Event), NEW e \in Event, NEW reason, NEW u, NEW tool \in BOOLEAN,
         Undecided(reason, evs, u, tool), e.type # "error"
  PROVE  IF e.type = "finish"
         THEN Undecided(MapFinishReason(e.reason), Append(evs, e), e.data, tool)
         ELSE IF e.type = "tool-call" THEN Undecided(reason, Append(evs, e), u, TRUE)
         ELSE Undecided(reason, Append(evs, e), u, tool)
<1>1. ~HasError(Append(evs, e))
  BY FinishedAppend DEF Undecided
<1>2. Finished(Append(evs, e)) =
        IF e.type = "finish" THEN [reason |-> MapFinishReason(e.reason), usage |-> e.data]
        ELSE Finished(evs)
  BY FinishedAppend
<1>3. Calls(Append(evs, e)) = IF e.type = "tool-call" THEN Append(Calls(evs), e.data) ELSE Calls(evs)
  BY FieldsAppend
<1>4. Append(Calls(evs), e.data) # <<>>
  <2>1. Calls(evs) \in Seq(Nat) /\ e.data \in Nat
    BY FieldsAppend, EventData
  <2> QED BY <2>1, Appended
<1>5. CASE e.type = "finish"
  BY <1>1, <1>2, <1>3, <1>5 DEF Undecided
<1>6. CASE e.type = "tool-call"
  BY <1>1, <1>2, <1>3, <1>4, <1>6 DEF Undecided
<1>7. CASE e.type \notin {"finish", "tool-call"}
  BY <1>1, <1>2, <1>3, <1>7 DEF Undecided
<1> QED BY <1>5, <1>6, <1>7

\* Appends f to fs, if b.
Then(fs, b, f) == IF b THEN Append(fs, f) ELSE fs

LEMMA ThreeEnds ==
  ASSUME NEW E, NEW fs \in Seq(E), NEW a \in Seq(E), NEW b \in Seq(E), NEW d \in E
  PROVE  /\ a \o b \o <<d>> \in Seq(E) /\ a \o b \o <<d>> # <<>>
         /\ fs \o (a \o b \o <<d>>) = Append((fs \o a) \o b, d)
<1>1. <<d>> \in Seq(E) /\ Len(<<d>>) = 1
  OBVIOUS
<1>2. a \o b \in Seq(E) /\ fs \o a \in Seq(E)
  BY ConcatProperties
<1>3. (fs \o a) \o b \in Seq(E)
  BY <1>2, ConcatProperties
<1>4. Append((fs \o a) \o b, d) = ((fs \o a) \o b) \o <<d>>
  BY <1>3, AppendIsConcat
<1>5. (a \o b) \o <<d>> \in Seq(E) /\ (a \o b) \o <<d>> # <<>>
  <2>1. (a \o b) \o <<d>> \in Seq(E) /\ Len((a \o b) \o <<d>>) = Len(a \o b) + 1 /\ Len(a \o b) \in Nat
    BY <1>1, <1>2, ConcatProperties, LenProperties
  <2> QED BY <2>1, EmptySeq
<1>6. fs \o ((a \o b) \o <<d>>) = ((fs \o a) \o b) \o <<d>>
  <2>1. fs \o ((a \o b) \o <<d>>) = (fs \o (a \o b)) \o <<d>>
    BY <1>1, <1>2
  <2>2. fs \o (a \o b) = (fs \o a) \o b
    OBVIOUS
  <2> QED BY <2>1, <2>2
<1> QED BY <1>4, <1>5, <1>6

LEMMA ChunksMade ==
  /\ \A kind \in {"content", "reasoning_content", "tool_calls", "error", "usage"}, i, d \in Nat :
        Chunk(kind, i, d) \in Chunks
  /\ \A reason \in {"stop", "tool_calls", "length"} : Final(reason) \in Chunks
  /\ Role \in Chunks /\ DONE \in Chunks
  /\ \A kind, i, d : Chunk(kind, i, d).frame = kind /\ Chunk(kind, i, d).index = i
                     /\ Chunk(kind, i, d).data = d
  /\ Role.frame = "role" /\ DONE.frame = "[DONE]" /\ \A reason : Final(reason).frame = "final"
  BY DEF Chunks, Chunk, Final, Role, DONE

\* The frames that follow the outcome of the turn.
LEMMA Terminated ==
  ASSUME NEW fs \in Seq(Chunks), NEW evs, NEW n, NEW u \in Nat, NEW b, Ended(fs), Carries(fs, evs, n)
  PROVE  LET hs == Append(Then(fs, b, Chunk("usage", 0, u)), DONE)
         IN  /\ OutcomeOnce(hs) /\ LastIs(hs, "[DONE]") /\ Carries(hs, evs, n)
             /\ Select(hs, Kinds({"final"})) = Select(fs, Kinds({"final"}))
             /\ SentAs(hs, {"usage"}) = IF b THEN Append(SentAs(fs, {"usage"}), u) ELSE SentAs(fs, {"usage"})
<1> DEFINE x == Chunk("usage", 0, u)
           gs == Then(fs, b, x)
<1>1. x \in Chunks /\ x.frame = "usage" /\ x.data = u /\ x.frame \notin Content
  BY ChunksMade DEF Content
<1>2. DONE \in Chunks /\ DONE.frame = "[DONE]" /\ DONE.frame \notin Content
  BY ChunksMade DEF Content
<1> HIDE DEF x
<1>3. /\ gs \in Seq(Chunks) /\ Ended(gs) /\ Carries(gs, evs, n)
      /\ Select(gs, Kinds({"final"})) = Select(fs, Kinds({"final"}))
      /\ SentAs(gs, {"usage"}) = IF b THEN Append(SentAs(fs, {"usage"}), u) ELSE SentAs(fs, {"usage"})
  <2>1. CASE b
    <3>1. gs = Append(fs, x) /\ gs \in Seq(Chunks)
      BY <1>1, <2>1, Appended DEF Then
    <3>2. Ended(gs)
      BY <1>1, <3>1, EndedAppend
    <3>3. Carries(gs, evs, n)
      BY <1>1, <3>1, CarriesOther
    <3>4. Select(gs, Kinds({"final"})) = Select(fs, Kinds({"final"}))
      BY <1>1, <3>1, SentAsAppend
    <3>5. SentAs(gs, {"usage"}) = Append(SentAs(fs, {"usage"}), u)
      BY <1>1, <3>1, SentAsAppend, ZenonT(60)
    <3> QED BY <2>1, <3>1, <3>2, <3>3, <3>4, <3>5
  <2>2. CASE ~b
    BY <2>2 DEF Then
  <2> QED BY <2>1, <2>2
<1> HIDE DEF gs
<1>4. OutcomeOnce(Append(gs, DONE)) /\ LastIs(Append(gs, DONE), "[DONE]")
  BY <1>2, <1>3, EndedAppend
<1>5. Carries(Append(gs, DONE), evs, n)
  BY <1>2, <1>3, CarriesOther
<1>6. /\ Select(Append(gs, DONE), Kinds({"final"})) = Select(gs, Kinds({"final"}))
      /\ SentAs(Append(gs, DONE), {"usage"}) = SentAs(gs, {"usage"})
  <2>1. DONE.frame \notin {"final"} /\ DONE.frame \notin {"usage"}
    BY <1>2
  <2>2. Select(Append(gs, DONE), Kinds({"final"})) = Select(gs, Kinds({"final"}))
    BY <1>2, <1>3, <2>1, SentAsAppend
  <2>3. SentAs(Append(gs, DONE), {"usage"}) = SentAs(gs, {"usage"})
    BY <1>2, <1>3, <2>1, SentAsAppend
  <2> QED BY <2>2, <2>3
<1> QED BY <1>3, <1>4, <1>5, <1>6 DEF gs, x

LEMMA NoOutcomeYet ==
  ASSUME NEW fs \in Seq(Chunks), Unended(fs)
  PROVE  Select(fs, Kinds({"final"})) = <<>> /\ SentAs(fs, {"usage"}) = <<>>
<1>1. \A i \in 1..Len(fs) : fs[i] \notin Kinds({"final"}) /\ fs[i] \notin Kinds({"usage"})
  BY DEF Unended, Kinds, Content
<1>2. Select(fs, Kinds({"final"})) = <<>>
  BY <1>1, SelectNone
<1>3. Select(fs, Kinds({"usage"})) = <<>>
  BY <1>1, SelectNone
<1> QED BY <1>2, <1>3, DataEmpty DEF SentAs

\* A stream that is read to its end ends as the buffered answer does.
LEMMA Finishes ==
  ASSUME NEW fs \in Seq(Chunks), NEW evs \in Seq(Event), NEW n, NEW u \in Nat,
         NEW reason \in {"stop", "tool_calls", "length"}, NEW tool \in BOOLEAN, NEW include \in BOOLEAN,
         Unended(fs), Carries(fs, evs, n), Undecided(reason, evs, u, tool)
  PROVE  LET final == Final(IF tool /\ reason = "stop" THEN "tool_calls" ELSE reason)
             hs == Append(Then(Append(fs, final), include /\ u # 0, Chunk("usage", 0, u)), DONE)
         IN  OutcomeOnce(hs) /\ LastIs(hs, "[DONE]") /\ Carries(hs, evs, n) /\ Decided(hs, evs, include)
<1> DEFINE final == Final(IF tool /\ reason = "stop" THEN "tool_calls" ELSE reason)
           gs == Append(fs, final)
           b == include /\ u # 0
           hs == Append(Then(gs, b, Chunk("usage", 0, u)), DONE)
<1>1. final \in Chunks /\ final.frame = "final"
  <2>1. (IF tool /\ reason = "stop" THEN "tool_calls" ELSE reason) \in {"stop", "tool_calls", "length"}
    OBVIOUS
  <2> QED BY <2>1, ChunksMade
<1>2. final = Final(BuildCompletion(evs).finish_reason) /\ BuildCompletion(evs).usage = u
  BY BuildFields DEF Undecided
<1> HIDE DEF final
<1>3. gs \in Seq(Chunks) /\ IsOutcome(final) /\ final.frame \notin Content
  BY <1>1, Appended DEF IsOutcome, Content
<1>4. Ended(gs) /\ Carries(gs, evs, n)
  BY <1>1, <1>3, UnendedAppend, CarriesOther
<1>5. /\ Select(fs, Kinds({"final"})) = <<>> /\ SentAs(fs, {"usage"}) = <<>>
  BY NoOutcomeYet
<1>6. Select(gs, Kinds({"final"})) = <<final>>
  <2>1. final.frame \in {"final"}
    BY <1>1
  <2>2. Select(gs, Kinds({"final"})) = Append(Select(fs, Kinds({"final"})), final)
    BY <1>1, <2>1, SentAsAppend
  <2> QED BY <1>5, <2>2
<1>7. SentAs(gs, {"usage"}) = <<>>
  <2>1. final.frame \notin {"usage"}
    BY <1>1
  <2> QED BY <1>1, <1>5, <2>1, SentAsAppend
<1> HIDE DEF gs
<1>8. /\ OutcomeOnce(hs) /\ LastIs(hs, "[DONE]") /\ Carries(hs, evs, n)
      /\ Select(hs, Kinds({"final"})) = Select(gs, Kinds({"final"}))
      /\ SentAs(hs, {"usage"}) = IF b THEN Append(SentAs(gs, {"usage"}), u) ELSE SentAs(gs, {"usage"})
  <2> HIDE DEF b
  <2> QED BY <1>3, <1>4, Terminated
<1> HIDE DEF hs
<1>9. Decided(hs, evs, include)
  <2>1. Append(<<>>, u) = <<u>>
    OBVIOUS
  <2> QED BY <1>2, <1>6, <1>7, <1>8, <2>1 DEF Decided
<1>10. OutcomeOnce(hs) /\ LastIs(hs, "[DONE]") /\ Carries(hs, evs, n) /\ Decided(hs, evs, include)
  BY <1>8, <1>9
<1> QED BY <1>10 DEF hs, gs, final, b

\* An error frame ends a turn as well.
LEMMA Fails ==
  ASSUME NEW fs \in Seq(Chunks), NEW evs \in Seq(Event), NEW n, NEW u \in Nat, NEW b, NEW include,
         Unended(fs), Carries(fs, evs, n), HasError(evs)
  PROVE  LET hs == Append(Then(Append(fs, Chunk("error", 0, 0)), b, Chunk("usage", 0, u)), DONE)
         IN  OutcomeOnce(hs) /\ LastIs(hs, "[DONE]") /\ Carries(hs, evs, n) /\ Decided(hs, evs, include)
<1> DEFINE x == Chunk("error", 0, 0)
<1>1. x \in Chunks /\ IsOutcome(x) /\ x.frame \notin Content
  BY ChunksMade DEF IsOutcome, Content
<1> HIDE DEF x
<1>2. Append(fs, x) \in Seq(Chunks) /\ Ended(Append(fs, x)) /\ Carries(Append(fs, x), evs, n)
  BY <1>1, Appended, UnendedAppend, CarriesOther
<1> QED BY <1>2, Terminated DEF Decided, x

HasFrame(fs, kind) == \E i \in 1..Len(fs) : fs[i].frame = kind

\* What holds of the chunks a client was sent, whether or not a write failed.
ChunksCut(fs, evs, n, include) ==
    /\ CallsNumbered(fs) /\ IsPrefix(SentAs(fs, Content), Said(evs))
    /\ HasFrame(fs, "[DONE]") => Carries(fs, evs, n) /\ Decided(fs, evs, include)

LEMMA ChunksUncut ==
  ASSUME NEW fs \in Seq(Chunks), NEW evs, NEW n, NEW include,
         Carries(fs, evs, n), HasFrame(fs, "[DONE]") => Decided(fs, evs, include)
  PROVE  ChunksCut(fs, evs, n, include)
<1>1. Select(fs, Kinds(Content)) \in Seq(Chunks)
  BY SelectType
<1>2. SentAs(fs, Content) \in Seq(Nat)
  BY <1>1, ChunkData, DataType DEF SentAs
<1>3. IsPrefix(SentAs(fs, Content), SentAs(fs, Content))
  BY <1>2, PrefixOfConcat
<1> QED BY <1>3 DEF ChunksCut, Carries

LEMMA ConcatAt ==
  ASSUME NEW E, NEW fs \in Seq(E), NEW gs \in Seq(E)
  PROVE  /\ fs \o gs \in Seq(E) /\ Len(fs \o gs) = Len(fs) + Len(gs)
         /\ Len(fs) \in Nat /\ Len(gs) \in Nat /\ (gs # <<>> => Len(gs) # 0)
         /\ \A i \in 1..Len(fs) : i \in 1..Len(fs \o gs) /\ (fs \o gs)[i] = fs[i]
         /\ \A i \in 1..Len(gs) : Len(fs) + i \in 1..Len(fs \o gs) /\ (fs \o gs)[Len(fs) + i] = gs[i]
  BY ConcatProperties, LenProperties, EmptySeq

LEMMA PrefixSubSeq ==
  ASSUME NEW E, NEW fs \in Seq(E), NEW gs \in Seq(E), NEW n \in 1..Len(fs)
  PROVE  SubSeq(fs \o gs, 1, n - 1) = SubSeq(fs, 1, n - 1)
<1>1. /\ fs \o gs \in Seq(E) /\ Len(fs) \in Nat /\ Len(gs) \in Nat /\ Len(fs \o gs) = Len(fs) + Len(gs)
      /\ \A i \in 1..Len(fs) : (fs \o gs)[i] = fs[i]
  BY ConcatAt
<1>2. n - 1 \in Nat /\ n - 1 <= Len(fs) /\ n - 1 <= Len(fs \o gs) /\ \A i \in 1..(n - 1) : i \in 1..Len(fs)
  BY <1>1
<1> DEFINE hs == fs \o gs
<1>3. hs \in Seq(E) /\ n - 1 <= Len(hs) /\ \A i \in 1..(n - 1) : hs[i] = fs[i]
  BY <1>1, <1>2
<1> HIDE DEF hs
<1>4. SubSeq(hs, 1, n - 1) = SubSeq(fs, 1, n - 1)
  BY <1>1, <1>2, <1>3
<1> QED BY <1>4 DEF hs

LEMMA OutcomeOfPrefix ==
  ASSUME NEW fs \in Seq(Chunks), NEW gs \in Seq(Chunks), OutcomeOnce(fs \o gs)
  PROVE  OutcomeOnce(fs)
<1>1. /\ Len(fs) \in Nat
      /\ \A i \in 1..Len(fs) : i \in 1..Len(fs \o gs) /\ (fs \o gs)[i] = fs[i]
  BY ConcatAt
<1>2. ASSUME NEW i \in 1..Len(fs), fs[i].frame = "[DONE]"
      PROVE  \E k \in 1..i : IsOutcome(fs[k])
  <2>1. PICK k \in 1..i : IsOutcome((fs \o gs)[k])
    BY <1>1, <1>2 DEF OutcomeOnce
  <2>2. k \in 1..Len(fs)
    BY <1>1
  <2> QED BY <1>1, <2>1, <2>2
<1>3. ASSUME NEW i \in 1..Len(fs), NEW j \in 1..Len(fs), IsOutcome(fs[i]), i < j
      PROVE  fs[j].frame \in {"usage", "[DONE]"}
  BY <1>1, <1>3 DEF OutcomeOnce
<1> QED BY <1>2, <1>3 DEF OutcomeOnce

LEMMA PrefixIsCut ==
  ASSUME NEW fs \in Seq(Chunks), NEW gs \in Seq(Chunks), gs # <<>>, NEW evs, NEW n, NEW include,
         Carries(fs \o gs, evs, n), Unended(fs \o gs) \/ LastIs(fs \o gs, "[DONE]")
  PROVE  ChunksCut(fs, evs, n, include)
<1>1. /\ Len(fs) \in Nat /\ Len(gs) \in Nat /\ Len(gs) # 0 /\ Len(fs \o gs) = Len(fs) + Len(gs)
      /\ \A i \in 1..Len(fs) : i \in 1..Len(fs \o gs) /\ (fs \o gs)[i] = fs[i]
  BY ConcatAt
<1>2. ~HasFrame(fs, "[DONE]")
  <2>1. \A i \in 1..Len(fs) : i \in 1..(Len(fs \o gs) - 1)
    BY <1>1
  <2> QED BY <1>1, <2>1 DEF HasFrame, Unended, LastIs, Content
<1>3. ASSUME NEW S
      PROVE  /\ Select(fs, S) \in Seq(Chunks) /\ Select(gs, S) \in Seq(Chunks)
             /\ Select(fs \o gs, S) = Select(fs, S) \o Select(gs, S)
  BY SelectType, SelectConcat
<1>4. CallsNumbered(fs)
  <2> DEFINE r == Select(fs, Kinds({"tool_calls"}))
             s == Select(gs, Kinds({"tool_calls"}))
  <2>1. r \in Seq(Chunks) /\ s \in Seq(Chunks) /\ Select(fs \o gs, Kinds({"tool_calls"})) = r \o s
    BY <1>3
  <2>2. \A i \in 1..Len(r \o s) : (r \o s)[i].index = i - 1
    BY <2>1 DEF Carries, CallsNumbered
  <2> HIDE DEF r, s
  <2>3. \A i \in 1..Len(r) : i \in 1..Len(r \o s) /\ (r \o s)[i] = r[i]
    BY <2>1, ConcatAt
  <2>4. \A i \in 1..Len(r) : r[i].index = i - 1
    BY <2>2, <2>3
  <2> QED BY <2>4 DEF r, CallsNumbered
<1>5. IsPrefix(SentAs(fs, Content), Said(evs))
  <2> DEFINE r == Select(fs, Kinds(Content))
             s == Select(gs, Kinds(Content))
  <2>1. r \in Seq(Chunks) /\ s \in Seq(Chunks) /\ Select(fs \o gs, Kinds(Content)) = r \o s
    BY <1>3
  <2>2. HasData(Chunks, Nat)
    BY ChunkData
  <2> HIDE DEF r, s
  <2>3. DataOf(r) \in Seq(Nat)
    BY <2>1, <2>2, DataType
  <2>4. DataOf(s) \in Seq(Nat)
    BY <2>1, <2>2, DataType
  <2>5. DataOf(r \o s) = DataOf(r) \o DataOf(s)
    BY <2>1, ChunkDataConcat, Zenon
  <2>6. Said(evs) = DataOf(r) \o DataOf(s) /\ SentAs(fs, Content) = DataOf(r)
    BY <2>1, <2>5 DEF Carries, SentAs, r
  <2> QED BY <2>3, <2>4, <2>6, PrefixOfConcat
<1> QED BY <1>2, <1>4, <1>5 DEF ChunksCut

-----------------------------------------------------------------------------
(* The inductive invariant *)

\* What the client will have been sent if no write fails.
whole == out \o todo

Output == IF api = "openai" THEN Chunks ELSE Frames

TypeOK ==
    /\ api \in {"openai", "anthropic"}
    /\ events \in Seq(Event) /\ sawTool \in BOOLEAN /\ usage \in Nat
    /\ phase \in {"reading", "closing", "over"}
    /\ out \in Seq(Output) /\ todo \in Seq(Output)
    /\ toolIndex \in Nat /\ finishReason \in {"stop", "tool_calls", "length", "none"}
    /\ includeUsage \in BOOLEAN
    /\ index \in Nat /\ current \in {"", "text", "thinking", "tool_use"}
    /\ thinking \in Seq(Nat) /\ stop \in {"end_turn", "tool_use", "max_tokens"}

\* Over Chat Completions: until the outcome is sent, the chunks carry the buffered
\* answer to the events so far; afterwards they also end as it does.
ChunkIInv ==
    /\ OutcomeOnce(whole)
    /\ phase = "reading" =>
        /\ Carries(whole, events, toolIndex) /\ Unended(whole)
        /\ Undecided(finishReason, events, usage, sawTool)
    /\ phase = "closing" =>
        /\ Carries(whole, events, toolIndex) /\ Decided(whole, events, includeUsage)
        /\ LastIs(whole, "[DONE]") /\ todo # <<>>
    /\ phase = "over" => todo = <<>> /\ ChunksCut(out, events, toolIndex, includeUsage)

LEMMA EventsAtType ==
  \A n \in Nat : \A e \in EventsAt(n) :
    /\ e \in Event /\ e.type \in EventTypes /\ e.data \in Nat
    /\ e.type = "tool-call" => e.data = n
    /\ MapFinishReason(e.reason) \in {"stop", "tool_calls", "length"}
<1> TAKE n \in Nat
<1> TAKE e \in EventsAt(n)
<1>1. CASE \E type \in {"text-delta", "reasoning-delta"}, d \in {0, n} : e = Delta(type, d)
  BY <1>1 DEF Delta, Event, EventTypes, Reasons, MapFinishReason
<1>2. CASE \E reason \in Reasons, d \in {0, n} : e = FinishEvent(reason, d)
  BY <1>2 DEF FinishEvent, Event, EventTypes, Reasons, MapFinishReason
<1>3. CASE e \in {Delta("tool-call", n), Delta("error", n), Delta("start", n)}
  BY <1>3 DEF Delta, Event, EventTypes, Reasons, MapFinishReason
<1> QED BY <1>1, <1>2, <1>3 DEF EventsAt

LEMMA TakesType ==
  ASSUME TypeOK, NEW e \in EventsAt(Len(events) + 1), Takes(e)
  PROVE  /\ phase = "reading" /\ todo = <<>> /\ events' = Append(events, e)
         /\ e \in Event /\ e.data \in Nat /\ (e.type = "tool-call" => e.data # 0)
         /\ MapFinishReason(e.reason) \in {"stop", "tool_calls", "length"}
         /\ events' \in Seq(Event) /\ whole = out
<1>1. Len(events) + 1 \in Nat /\ Len(events) + 1 # 0
  <2>1. events \in Seq(Event)
    BY DEF TypeOK
  <2> QED BY <2>1, LenProperties
<1>2. /\ e \in Event /\ e.data \in Nat /\ (e.type = "tool-call" => e.data # 0)
      /\ MapFinishReason(e.reason) \in {"stop", "tool_calls", "length"}
  BY <1>1, EventsAtType
<1>3. phase = "reading" /\ todo = <<>> /\ events' = Append(events, e)
  BY DEF Takes
<1>4. events' \in Seq(Event)
  BY <1>2, <1>3, Appended DEF TypeOK
<1>5. whole = out
  BY <1>3, ConcatEmptySeq DEF whole, TypeOK
<1> QED BY <1>2, <1>3, <1>4, <1>5

LEMMA Emitted ==
  ASSUME NEW E, NEW fs \in Seq(E), NEW gs \in Seq(E), gs # <<>>
  PROVE  /\ Append(fs, Head(gs)) \in Seq(E) /\ Tail(gs) \in Seq(E) /\ Head(gs) \in E
         /\ Append(fs, Head(gs)) \o Tail(gs) = fs \o gs
         /\ Len(gs) = 1 <=> Tail(gs) = <<>>
<1>1. Head(gs) \in E /\ Tail(gs) \in Seq(E) /\ gs = <<Head(gs)>> \o Tail(gs) /\ Len(Tail(gs)) = Len(gs) - 1
  BY HeadTailProperties
<1>2. <<Head(gs)>> \in Seq(E) /\ Append(fs, Head(gs)) = fs \o <<Head(gs)>>
  BY <1>1, AppendIsConcat
<1>3. fs \o (<<Head(gs)>> \o Tail(gs)) = (fs \o <<Head(gs)>>) \o Tail(gs)
  BY <1>1, <1>2
<1>4. Append(fs, Head(gs)) \in Seq(E)
  BY <1>1, Appended
<1>5. Len(gs) = 1 <=> Tail(gs) = <<>>
  <2>1. Len(gs) \in Nat /\ (Len(Tail(gs)) = 0 <=> Tail(gs) = <<>>)
    BY <1>1, EmptySeq, LenProperties
  <2> QED BY <1>1, <2>1
<1> QED BY <1>1, <1>2, <1>3, <1>4, <1>5

\* Every step over Chat Completions keeps the invariant.
LEMMA ChunkDelta ==
  ASSUME TypeOK, ChunkIInv, api = "openai", CompletionOnDelta, UNCHANGED <<api, anthropic>>
  PROVE  (TypeOK /\ ChunkIInv)'
<1>1. PICK e \in EventsAt(Len(events) + 1) :
        /\ e.type \in {"text-delta", "reasoning-delta"} /\ Takes(e)
        /\ todo' = IF e.data = 0 THEN <<>>
                   ELSE <<Chunk(IF e.type = "text-delta" THEN "content"
                                ELSE "reasoning_content", 0, e.data)>>
        /\ UNCHANGED <<openai, sawTool, usage, phase, out>>
  BY DEF CompletionOnDelta
<1>2. /\ phase = "reading" /\ todo = <<>> /\ events' = Append(events, e) /\ events \in Seq(Event)
      /\ e \in Event /\ e.data \in Nat /\ events' \in Seq(Event) /\ whole = out
  BY <1>1, TakesType DEF TypeOK
<1>3. out \in Seq(Chunks) /\ out' = out /\ phase' = "reading"
  BY <1>1, <1>2 DEF TypeOK, Output
<1>4. Carries(out, events, toolIndex) /\ Unended(out) /\ Undecided(finishReason, events, usage, sawTool)
  BY <1>2 DEF ChunkIInv
<1>5. Undecided(finishReason, events', usage, sawTool)
  <2>1. e.type \notin {"error", "finish", "tool-call"} /\ sawTool \in BOOLEAN
    BY <1>1 DEF TypeOK
  <2> QED BY <1>2, <1>4, <2>1, UndecidedAppend
<1>6. todo' \in Seq(Chunks) /\ Carries(whole', events', toolIndex) /\ Unended(whole') /\ OutcomeOnce(whole')
  <2>1. CASE e.data = 0
    <3>1. todo' = <<>> /\ whole' = out
      BY <1>1, <1>3, <2>1, ConcatEmptySeq DEF whole
    <3>2. Silent(e)
      BY <1>1, <2>1 DEF Silent
    <3>3. Carries(out, events', toolIndex)
      BY <1>2, <1>4, <3>2, CarriesSilent
    <3>4. OutcomeOnce(out)
      BY <1>2 DEF ChunkIInv
    <3> QED BY <1>4, <3>1, <3>3, <3>4, EmptySeq
  <2>2. CASE e.data # 0
    <3> DEFINE f == Chunk(KindOf(e), 0, e.data)
    <3>1. /\ f \in Chunks /\ f.frame = KindOf(e) /\ f.data = e.data
          /\ KindOf(e) \in {"content", "reasoning_content"}
      BY <1>1, <1>2, ChunksMade DEF KindOf
    <3>2. todo' = <<f>>
      BY <1>1, <2>2 DEF KindOf
    <3> HIDE DEF f
    <3>3. whole' = Append(out, f) /\ todo' \in Seq(Chunks)
      BY <1>3, <3>1, <3>2, AppendIsConcat DEF whole
    <3>4. e \in Pieces /\ e.type # "tool-call"
      BY <1>1, <1>2, <2>2 DEF Pieces
    <3>5. toolIndex \in Nat
      BY DEF TypeOK
    <3>6. Carries(Append(out, f), Append(events, e), IF e.type = "tool-call" THEN toolIndex + 1 ELSE toolIndex)
      BY <1>2, <1>3, <1>4, <3>1, <3>4, <3>5, CarriesPiece
    <3>7. f.frame \in Content \cup {"role"}
      BY <3>1 DEF Content
    <3>8. Unended(Append(out, f))
      BY <1>3, <1>4, <3>1, <3>7, UnendedAppend
    <3>9. OutcomeOnce(Append(out, f))
      <4>1. Append(out, f) \in Seq(Chunks)
        BY <1>3, <3>1, Appended
      <4> QED BY <3>1, <3>8, <4>1, UnendedAppend
    <3> QED BY <1>2, <3>3, <3>4, <3>6, <3>8, <3>9
  <2> QED BY <2>1, <2>2
<1>7. TypeOK'
  BY <1>1, <1>2, <1>3, <1>6 DEF TypeOK, Output, openai, anthropic
<1>8. ChunkIInv'
  BY <1>1, <1>3, <1>5, <1>6 DEF ChunkIInv, openai
<1> QED BY <1>7, <1>8

LEMMA ChunkToolCall ==
  ASSUME TypeOK, ChunkIInv, api = "openai", CompletionOnToolCall, UNCHANGED <<api, anthropic>>
  PROVE  (TypeOK /\ ChunkIInv)'
<1>1. PICK e \in EventsAt(Len(events) + 1) :
        /\ e.type = "tool-call" /\ Takes(e)
        /\ sawTool' = TRUE /\ toolIndex' = toolIndex + 1
        /\ todo' = <<Chunk("tool_calls", toolIndex, e.data)>>
        /\ UNCHANGED <<finishReason, includeUsage, usage, phase, out>>
  BY DEF CompletionOnToolCall
<1>2. /\ phase = "reading" /\ todo = <<>> /\ events' = Append(events, e) /\ events \in Seq(Event)
      /\ e \in Event /\ e.data \in Nat /\ e.data # 0 /\ events' \in Seq(Event) /\ whole = out
  BY <1>1, TakesType DEF TypeOK
<1>3. out \in Seq(Chunks) /\ out' = out /\ phase' = "reading" /\ toolIndex \in Nat
  BY <1>1, <1>2 DEF TypeOK, Output
<1>4. Carries(out, events, toolIndex) /\ Unended(out) /\ Undecided(finishReason, events, usage, sawTool)
  BY <1>2 DEF ChunkIInv
<1>5. Undecided(finishReason, events', usage, TRUE)
  <2>1. e.type = "tool-call" /\ sawTool \in BOOLEAN
    BY <1>1 DEF TypeOK
  <2> QED BY <1>2, <1>4, <2>1, UndecidedAppend
<1> DEFINE f == Chunk("tool_calls", toolIndex, e.data)
<1>6. f \in Chunks /\ f.frame = "tool_calls" /\ f.data = e.data /\ f.index = toolIndex
  BY <1>2, <1>3 DEF Chunk, Chunks
<1>7. todo' = <<f>>
  BY <1>1
<1> HIDE DEF f
<1>8. whole' = Append(out, f) /\ todo' \in Seq(Chunks)
  BY <1>3, <1>6, <1>7, AppendIsConcat DEF whole
<1>9. Carries(whole', events', toolIndex')
  <2>1. e \in Pieces /\ f.frame = KindOf(e)
    BY <1>1, <1>2, <1>6 DEF Pieces, KindOf
  <2>2. Carries(Append(out, f), Append(events, e), IF e.type = "tool-call" THEN toolIndex + 1 ELSE toolIndex)
    BY <1>2, <1>3, <1>4, <1>6, <2>1, CarriesPiece
  <2> QED BY <1>1, <1>2, <1>8, <2>2
<1>10. Unended(whole') /\ OutcomeOnce(whole')
  <2>1. f.frame \in Content \cup {"role"}
    BY <1>6 DEF Content
  <2>2. Unended(Append(out, f))
    BY <1>3, <1>4, <1>6, <2>1, UnendedAppend
  <2>3. Append(out, f) \in Seq(Chunks)
    BY <1>3, <1>6, Appended
  <2> QED BY <1>6, <1>8, <2>2, <2>3, UnendedAppend
<1>11. TypeOK'
  <2>1. sawTool' \in BOOLEAN /\ toolIndex' \in Nat
    BY <1>1, <1>3
  <2> QED BY <1>1, <1>2, <1>3, <1>8, <2>1 DEF TypeOK, Output, anthropic
<1>12. ChunkIInv'
  BY <1>1, <1>3, <1>5, <1>9, <1>10 DEF ChunkIInv
<1> QED BY <1>11, <1>12

LEMMA ChunkFinish ==
  ASSUME TypeOK, ChunkIInv, api = "openai", CompletionOnFinish, UNCHANGED <<api, anthropic>>
  PROVE  (TypeOK /\ ChunkIInv)'
<1>1. PICK e \in EventsAt(Len(events) + 1) :
        /\ e.type = "finish" /\ Takes(e)
        /\ finishReason' = MapFinishReason(e.reason) /\ usage' = e.data
        /\ UNCHANGED <<toolIndex, includeUsage, sawTool, phase, todo, out>>
  BY DEF CompletionOnFinish
<1>2. /\ phase = "reading" /\ todo = <<>> /\ events' = Append(events, e) /\ events \in Seq(Event)
      /\ e \in Event /\ e.data \in Nat /\ events' \in Seq(Event)
      /\ MapFinishReason(e.reason) \in {"stop", "tool_calls", "length"}
  BY <1>1, TakesType DEF TypeOK
<1>3. Carries(whole, events, toolIndex) /\ Unended(whole) /\ Undecided(finishReason, events, usage, sawTool)
  BY <1>2 DEF ChunkIInv
<1>4. Undecided(finishReason', events', usage', sawTool)
  <2>1. e.type = "finish" /\ e.type # "error" /\ sawTool \in BOOLEAN
    BY <1>1 DEF TypeOK
  <2> QED BY <1>1, <1>2, <1>3, <2>1, UndecidedAppend
<1>5. Carries(whole, events', toolIndex)
  <2>1. Silent(e)
    BY <1>1 DEF Silent
  <2> QED BY <1>2, <1>3, <2>1, CarriesSilent
<1>6. whole' = whole /\ phase' = "reading"
  BY <1>1, <1>2 DEF whole
<1>7. TypeOK'
  BY <1>1, <1>2 DEF TypeOK, Output, anthropic
<1>8. ChunkIInv'
  BY <1>1, <1>3, <1>4, <1>5, <1>6 DEF ChunkIInv
<1> QED BY <1>7, <1>8

LEMMA ChunkOther ==
  ASSUME TypeOK, ChunkIInv, api = "openai", OnOther, UNCHANGED <<api, openai, anthropic>>
  PROVE  (TypeOK /\ ChunkIInv)'
<1>1. PICK e \in EventsAt(Len(events) + 1) :
        e.type = "start" /\ Takes(e) /\ UNCHANGED <<sawTool, usage, phase, todo, out>>
  BY DEF OnOther
<1>2. /\ phase = "reading" /\ events' = Append(events, e) /\ events \in Seq(Event)
      /\ e \in Event /\ events' \in Seq(Event)
  BY <1>1, TakesType DEF TypeOK
<1>3. Carries(whole, events, toolIndex) /\ Unended(whole) /\ Undecided(finishReason, events, usage, sawTool)
  BY <1>2 DEF ChunkIInv
<1>4. Undecided(finishReason, events', usage, sawTool)
  <2>1. e.type \notin {"error", "finish", "tool-call"} /\ sawTool \in BOOLEAN
    BY <1>1 DEF TypeOK
  <2> QED BY <1>2, <1>3, <2>1, UndecidedAppend
<1>5. Carries(whole, events', toolIndex)
  <2>1. Silent(e)
    BY <1>1 DEF Silent
  <2> QED BY <1>2, <1>3, <2>1, CarriesSilent
<1>6. whole' = whole /\ phase' = "reading"
  BY <1>1, <1>2 DEF whole
<1>7. TypeOK'
  BY <1>1, <1>2 DEF TypeOK, Output, anthropic, openai
<1>8. ChunkIInv'
  BY <1>1, <1>3, <1>4, <1>5, <1>6 DEF ChunkIInv, openai
<1> QED BY <1>7, <1>8

\* The last frames, whatever is sent before them.
LEMMA EndingFrames ==
  ASSUME TypeOK, NEW fs \in Seq(Chunks), NEW reason \in {"stop", "tool_calls", "length", "none"}
  PROVE  LET final == Final(IF sawTool /\ reason = "stop" THEN "tool_calls" ELSE reason)
         IN  /\ Ending(reason) \in Seq(Chunks) /\ Ending(reason) # <<>>
             /\ fs \o Ending(reason) =
                    Append(Then(Then(fs, reason # "none", final), includeUsage /\ usage # 0,
                                Chunk("usage", 0, usage)), DONE)
<1> DEFINE final == Final(IF sawTool /\ reason = "stop" THEN "tool_calls" ELSE reason)
           x == IF reason = "none" THEN DONE ELSE final
           y == Chunk("usage", 0, usage)
           p == reason # "none"
           q == includeUsage /\ usage # 0
<1>1. x \in Chunks
  <2>1. reason = "none" \/ (IF sawTool /\ reason = "stop" THEN "tool_calls" ELSE reason)
                                \in {"stop", "tool_calls", "length"}
    OBVIOUS
  <2> QED BY <2>1, ChunksMade
<1>2. y \in Chunks /\ DONE \in Chunks
  BY ChunksMade DEF TypeOK
<1> DEFINE a == IF p THEN <<x>> ELSE <<>>
           b == IF q THEN <<y>> ELSE <<>>
           gs == Then(fs, p, final)
           hs == Then(gs, q, y)
<1>3. Ending(reason) = a \o b \o <<DONE>>
  BY DEF Ending
<1>4. a \in Seq(Chunks) /\ gs = fs \o a /\ gs \in Seq(Chunks)
  <2> HIDE DEF p
  <2>1. CASE p
    <3>1. a = <<x>> /\ gs = Append(fs, final) /\ final = x
      BY <2>1 DEF Then, p
    <3> HIDE DEF x, a, gs, final
    <3> QED BY <1>1, <3>1, AppendIsConcat, Appended
  <2>2. CASE ~p
    <3>1. a = <<>> /\ gs = fs
      BY <2>2 DEF Then
    <3> QED BY <3>1, EmptySeq, ConcatEmptySeq
  <2> QED BY <2>1, <2>2
<1>5. b \in Seq(Chunks) /\ hs = gs \o b
  <2> HIDE DEF gs, q
  <2>1. CASE q
    <3>1. b = <<y>> /\ hs = Append(gs, y)
      BY <2>1 DEF Then
    <3> HIDE DEF y, b, hs
    <3> QED BY <1>2, <1>4, <3>1, AppendIsConcat
  <2>2. CASE ~q
    <3>1. b = <<>> /\ hs = gs
      BY <2>2 DEF Then
    <3> QED BY <1>4, <3>1, EmptySeq, ConcatEmptySeq
  <2> QED BY <2>1, <2>2
<1> HIDE DEF x, y, a, b, gs, hs
<1>6. /\ Ending(reason) \in Seq(Chunks) /\ Ending(reason) # <<>>
      /\ fs \o Ending(reason) = Append(hs, DONE)
  <2>1. a \in Seq(Chunks) /\ b \in Seq(Chunks) /\ DONE \in Chunks
    BY <1>2, <1>4, <1>5
  <2>2. /\ a \o b \o <<DONE>> \in Seq(Chunks) /\ a \o b \o <<DONE>> # <<>>
        /\ fs \o (a \o b \o <<DONE>>) = Append((fs \o a) \o b, DONE)
    BY <2>1, ThreeEnds, SMTT(60)
  <2> QED BY <1>3, <1>4, <1>5, <2>2
<1> QED BY <1>6 DEF hs, gs, final, y, p, q

LEMMA ChunkError ==
  ASSUME TypeOK, ChunkIInv, api = "openai", CompletionOnError, UNCHANGED <<api, anthropic>>
  PROVE  (TypeOK /\ ChunkIInv)'
<1>1. PICK e \in EventsAt(Len(events) + 1) :
        /\ e.type = "error" /\ Takes(e)
        /\ finishReason' = "none"
        /\ todo' = <<Chunk("error", 0, 0)>> \o Ending("none")
        /\ phase' = "closing"
        /\ UNCHANGED <<toolIndex, includeUsage, sawTool, usage, out>>
  BY DEF CompletionOnError
<1>2. /\ phase = "reading" /\ todo = <<>> /\ events' = Append(events, e) /\ events \in Seq(Event)
      /\ e \in Event /\ events' \in Seq(Event) /\ whole = out
  BY <1>1, TakesType DEF TypeOK
<1>3. out \in Seq(Chunks) /\ usage \in Nat
  BY <1>1, <1>2 DEF TypeOK, Output
<1>4. Carries(out, events, toolIndex) /\ Unended(out)
  BY <1>2 DEF ChunkIInv
<1>5. Carries(out, events', toolIndex)
  <2>1. Silent(e)
    BY <1>1 DEF Silent
  <2> QED BY <1>2, <1>4, <2>1, CarriesSilent
<1>6. HasError(events')
  BY <1>1, <1>2, FinishedAppend
<1> DEFINE x == Chunk("error", 0, 0)
           fs == Append(out, x)
<1>7. x \in Chunks
  BY ChunksMade
<1>8. /\ Ending("none") \in Seq(Chunks) /\ Ending("none") # <<>>
      /\ fs \o Ending("none") =
            Append(Then(fs, includeUsage /\ usage # 0, Chunk("usage", 0, usage)), DONE)
  <2>1. fs \in Seq(Chunks)
    BY <1>3, <1>7, Appended
  <2> HIDE DEF fs
  <2>2. fs \o Ending("none") =
            Append(Then(Then(fs, "none" # "none", Final(IF sawTool /\ "none" = "stop" THEN "tool_calls" ELSE "none")),
                        includeUsage /\ usage # 0, Chunk("usage", 0, usage)), DONE)
    BY <2>1, EndingFrames
  <2>3. Ending("none") \in Seq(Chunks) /\ Ending("none") # <<>>
    BY <2>1, EndingFrames
  <2>4. \A f : Then(fs, "none" # "none", f) = fs
    BY DEF Then
  <2> QED BY <2>2, <2>3, <2>4
<1>9. /\ todo' \in Seq(Chunks) /\ todo' # <<>> /\ whole' = fs \o Ending("none")
  <2> DEFINE r == <<x>>
             s == Ending("none")
  <2>1. r \in Seq(Chunks) /\ s \in Seq(Chunks) /\ todo' = r \o s /\ fs = out \o r /\ Len(r) = 1
    <3>1. r \in Seq(Chunks) /\ Len(r) = 1
      BY <1>7
    <3>2. s \in Seq(Chunks)
      BY <1>8
    <3>3. todo' = r \o s
      BY <1>1
    <3>4. fs = out \o r
      BY <1>3, <1>7, AppendIsConcat
    <3> QED BY <3>1, <3>2, <3>3, <3>4
  <2> HIDE DEF r, s, fs
  <2>2. out \o (r \o s) = (out \o r) \o s
    BY <1>3, <2>1, SMTT(60)
  <2>3. r \o s \in Seq(Chunks) /\ Len(r \o s) = Len(r) + Len(s) /\ Len(s) \in Nat
    BY <2>1, ConcatAt, Zenon
  <2>4. r \o s # <<>>
    BY <2>1, <2>3, EmptySeq
  <2> QED BY <1>1, <2>1, <2>2, <2>3, <2>4 DEF whole, s
<1>10. /\ OutcomeOnce(whole') /\ LastIs(whole', "[DONE]") /\ Carries(whole', events', toolIndex)
       /\ Decided(whole', events', includeUsage)
  <2> DEFINE b == includeUsage /\ usage # 0
             hs == Append(Then(fs, b, Chunk("usage", 0, usage)), DONE)
  <2>1. OutcomeOnce(hs) /\ LastIs(hs, "[DONE]") /\ Carries(hs, events', toolIndex)
        /\ Decided(hs, events', includeUsage)
    <3> HIDE DEF b
    <3> QED BY <1>2, <1>3, <1>4, <1>5, <1>6, Fails
  <2>2. whole' = hs
    BY <1>8, <1>9
  <2> HIDE DEF hs
  <2> QED BY <2>1, <2>2
<1>11. TypeOK'
  BY <1>1, <1>2, <1>3, <1>9 DEF TypeOK, Output, anthropic
<1>12. ChunkIInv'
  BY <1>1, <1>9, <1>10 DEF ChunkIInv
<1> QED BY <1>11, <1>12

LEMMA ChunkEnds ==
  ASSUME TypeOK, ChunkIInv, api = "openai", Ends(Ending(finishReason)), UNCHANGED <<api, openai, anthropic>>
  PROVE  (TypeOK /\ ChunkIInv)'
<1>1. /\ phase = "reading" /\ todo = <<>> /\ todo' = Ending(finishReason) /\ phase' = "closing"
      /\ UNCHANGED <<events, sawTool, usage, out>>
  BY DEF Ends
<1>2. out \in Seq(Chunks) /\ usage \in Nat /\ events \in Seq(Event) /\ sawTool \in BOOLEAN
      /\ includeUsage \in BOOLEAN
  BY DEF TypeOK, Output
<1>3. whole = out
  BY <1>1, <1>2, ConcatEmptySeq DEF whole
<1>4. Carries(out, events, toolIndex) /\ Unended(out) /\ Undecided(finishReason, events, usage, sawTool)
  BY <1>1, <1>3 DEF ChunkIInv
<1>5. finishReason \in {"stop", "tool_calls", "length"}
  BY <1>2, <1>4, FinishedType DEF Undecided
<1> DEFINE final == Final(IF sawTool /\ finishReason = "stop" THEN "tool_calls" ELSE finishReason)
           b == includeUsage /\ usage # 0
           hs == Append(Then(Append(out, final), b, Chunk("usage", 0, usage)), DONE)
<1>6. OutcomeOnce(hs) /\ LastIs(hs, "[DONE]") /\ Carries(hs, events, toolIndex)
      /\ Decided(hs, events, includeUsage)
  BY <1>2, <1>4, <1>5, Finishes
<1>7. todo' \in Seq(Chunks) /\ todo' # <<>> /\ whole' = hs
  <2>1. finishReason \in {"stop", "tool_calls", "length", "none"}
    BY <1>5
  <2>2. /\ Ending(finishReason) \in Seq(Chunks) /\ Ending(finishReason) # <<>>
        /\ out \o Ending(finishReason) =
               Append(Then(Then(out, finishReason # "none", final), b, Chunk("usage", 0, usage)), DONE)
    BY <1>2, <2>1, EndingFrames
  <2>3. Then(out, finishReason # "none", final) = Append(out, final)
    BY <1>5 DEF Then
  <2>4. whole' = out \o Ending(finishReason)
    BY <1>1 DEF whole
  <2> QED BY <1>1, <2>2, <2>3, <2>4
<1> HIDE DEF hs
<1>8. TypeOK'
  BY <1>1, <1>2, <1>7 DEF TypeOK, Output, openai, anthropic
<1>9. ChunkIInv'
  BY <1>1, <1>6, <1>7 DEF ChunkIInv, openai
<1> QED BY <1>8, <1>9

\* A frame that is written moves from one part of the whole to the other.
LEMMA EmitKeeps ==
  ASSUME TypeOK, Emit, UNCHANGED <<api, openai, anthropic>>
  PROVE  /\ TypeOK' /\ whole' = whole
         /\ todo' = <<>> => out' = whole
         /\ phase' = IF phase = "closing" /\ todo' = <<>> THEN "over" ELSE phase
         /\ UNCHANGED <<events, sawTool, usage>>
<1>1. /\ todo # <<>> /\ out' = Append(out, Head(todo)) /\ todo' = Tail(todo)
      /\ phase' = IF phase = "closing" /\ Len(todo) = 1 THEN "over" ELSE phase
      /\ UNCHANGED <<events, sawTool, usage>>
  BY DEF Emit
<1>2. out \in Seq(Output) /\ todo \in Seq(Output)
  BY DEF TypeOK
<1>3. /\ Append(out, Head(todo)) \in Seq(Output) /\ Tail(todo) \in Seq(Output)
      /\ Append(out, Head(todo)) \o Tail(todo) = out \o todo
      /\ Len(todo) = 1 <=> Tail(todo) = <<>>
  BY <1>1, <1>2, Emitted
<1>4. out' \in Seq(Output) /\ todo' \in Seq(Output) /\ whole' = whole
  BY <1>1, <1>3 DEF whole
<1>5. todo' = <<>> => out' = whole
  BY <1>1, <1>3, ConcatEmptySeq DEF whole
<1>6. TypeOK'
  <2>1. phase' \in {"reading", "closing", "over"}
    BY <1>1 DEF TypeOK
  <2>2. Output' = Output
    BY DEF Output
  <2> QED BY <1>1, <1>4, <2>1, <2>2 DEF TypeOK, openai, anthropic
<1> QED BY <1>1, <1>3, <1>4, <1>5, <1>6

LEMMA EmitFailsKeeps ==
  ASSUME TypeOK, EmitFails, UNCHANGED <<api, openai, anthropic>>
  PROVE  /\ TypeOK' /\ todo # <<>> /\ todo' = <<>> /\ phase' = "over"
         /\ out' = out /\ whole' = out /\ UNCHANGED <<events, sawTool, usage>>
<1>1. /\ todo # <<>> /\ todo' = <<>> /\ phase' = "over"
      /\ UNCHANGED <<events, sawTool, usage, out>>
  BY DEF EmitFails
<1>2. out \in Seq(Output) /\ Output' = Output
  BY DEF TypeOK, Output
<1>3. whole' = out
  BY <1>1, <1>2, ConcatEmptySeq DEF whole
<1>4. todo' \in Seq(Output)
  BY <1>1, EmptySeq
<1> QED BY <1>1, <1>2, <1>3, <1>4 DEF TypeOK, openai, anthropic

LEMMA ChunkEmit ==
  ASSUME TypeOK, ChunkIInv, api = "openai", Emit, UNCHANGED <<api, openai, anthropic>>
  PROVE  (TypeOK /\ ChunkIInv)'
<1>1. /\ TypeOK' /\ whole' = whole /\ (todo' = <<>> => out' = whole)
      /\ phase' = IF phase = "closing" /\ todo' = <<>> THEN "over" ELSE phase
      /\ UNCHANGED <<events, sawTool, usage>>
  BY EmitKeeps
<1>2. todo # <<>>
  BY DEF Emit
<1>3. CASE phase = "closing" /\ todo' = <<>>
  <2>1. Carries(out', events', toolIndex') /\ Decided(out', events', includeUsage')
    BY <1>1, <1>3 DEF ChunkIInv, openai
  <2>2. out' \in Seq(Chunks)
    BY <1>1 DEF TypeOK, Output
  <2>3. ChunksCut(out', events', toolIndex', includeUsage')
    BY <2>1, <2>2, ChunksUncut
  <2> QED BY <1>1, <1>3, <2>3 DEF ChunkIInv
<1>4. CASE ~(phase = "closing" /\ todo' = <<>>)
  <2>1. phase' = phase /\ phase # "over"
    BY <1>1, <1>2, <1>4 DEF ChunkIInv
  <2> QED BY <1>1, <1>4, <2>1 DEF ChunkIInv, openai
<1> QED BY <1>1, <1>3, <1>4

LEMMA ChunkEmitFails ==
  ASSUME TypeOK, ChunkIInv, api = "openai", EmitFails, UNCHANGED <<api, openai, anthropic>>
  PROVE  (TypeOK /\ ChunkIInv)'
<1>1. /\ TypeOK' /\ todo # <<>> /\ todo' = <<>> /\ phase' = "over"
      /\ out' = out /\ whole' = out /\ UNCHANGED <<events, sawTool, usage>>
  BY EmitFailsKeeps
<1>2. out \in Seq(Chunks) /\ todo \in Seq(Chunks) /\ phase # "over"
  BY <1>1 DEF TypeOK, Output, ChunkIInv
<1>3. OutcomeOnce(out)
  BY <1>2, OutcomeOfPrefix DEF ChunkIInv, whole
<1>4. /\ Carries(out \o todo, events, toolIndex)
      /\ Unended(out \o todo) \/ LastIs(out \o todo, "[DONE]")
  BY <1>2 DEF ChunkIInv, whole, TypeOK
<1>5. ChunksCut(out, events, toolIndex, includeUsage)
  BY <1>1, <1>2, <1>4, PrefixIsCut
<1>6. ChunkIInv'
  BY <1>1, <1>3, <1>5 DEF ChunkIInv, openai
<1> QED BY <1>1, <1>6

LEMMA ChunkInit == Init /\ api = "openai" => TypeOK /\ ChunkIInv
<1> SUFFICES ASSUME Init, api = "openai" PROVE TypeOK /\ ChunkIInv
  OBVIOUS
<1>1. /\ events = <<>> /\ sawTool = FALSE /\ usage = 0 /\ phase = "reading" /\ out = <<>>
      /\ todo = <<Role>> /\ toolIndex = 0 /\ finishReason = "stop" /\ includeUsage \in BOOLEAN
      /\ index = 0 /\ current = "" /\ thinking = <<>> /\ stop = "end_turn"
  BY DEF Init, CompletionInit, TurnInit
<1>2. /\ <<>> \in Seq(Chunks) /\ <<>> \in Seq(Event) /\ <<>> \in Seq(Nat)
  BY EmptySeq
<1>3. Role \in Chunks /\ Role.frame = "role"
  BY ChunksMade
<1>4. <<Role>> \in Seq(Chunks) /\ whole = Append(<<>>, Role)
  <2>1. <<Role>> \in Seq(Chunks) /\ Append(<<>>, Role) = <<Role>>
    BY <1>3
  <2>2. whole = <<Role>>
    BY <1>1, <2>1, ConcatEmptySeq DEF whole
  <2> QED BY <2>1, <2>2
<1>5. TypeOK
  BY <1>1, <1>2, <1>4 DEF TypeOK, Output
<1>6. Unended(<<>>) /\ Carries(<<>>, <<>>, 0) /\ Undecided("stop", <<>>, 0, FALSE)
  <2>1. Unended(<<>>)
    BY DEF Unended
  <2>2. Carries(<<>>, <<>>, 0)
    BY NothingSaid, SelectEmpty, DataEmpty DEF Carries, SentAs, CallsNumbered
  <2>3. Undecided("stop", <<>>, 0, FALSE)
    BY NothingSaid DEF Undecided
  <2> QED BY <2>1, <2>2, <2>3
<1>7. Unended(whole) /\ OutcomeOnce(whole)
  <2>1. Role.frame \in Content \cup {"role"} /\ Append(<<>>, Role) \in Seq(Chunks)
    BY <1>2, <1>3, Appended
  <2>2. Unended(whole)
    BY <1>2, <1>3, <1>4, <1>6, <2>1, UnendedAppend
  <2> QED BY <1>3, <1>4, <2>1, <2>2, UnendedAppend
<1>8. Carries(whole, events, toolIndex)
  <2>1. Role.frame \notin Content
    BY <1>3 DEF Content
  <2> QED BY <1>1, <1>2, <1>3, <1>4, <1>6, <2>1, CarriesOther
<1>9. ChunkIInv
  BY <1>1, <1>6, <1>7, <1>8 DEF ChunkIInv
<1> QED BY <1>5, <1>9

LEMMA ChunkNext ==
  ASSUME TypeOK, ChunkIInv, api = "openai", CompletionNext, UNCHANGED <<api, anthropic>>
  PROVE  (TypeOK /\ ChunkIInv)'
<1>1. CASE CompletionOnDelta
  BY <1>1, ChunkDelta
<1>2. CASE CompletionOnToolCall
  BY <1>2, ChunkToolCall
<1>3. CASE CompletionOnFinish
  BY <1>3, ChunkFinish
<1>4. CASE CompletionOnError
  BY <1>4, ChunkError
<1>5. CASE OnOther /\ UNCHANGED openai
  BY <1>5, ChunkOther
<1>6. CASE Ends(Ending(finishReason)) /\ UNCHANGED openai
  BY <1>6, ChunkEnds
<1>7. CASE Emit /\ UNCHANGED openai
  BY <1>7, ChunkEmit
<1>8. CASE EmitFails /\ UNCHANGED openai
  BY <1>8, ChunkEmitFails
<1> QED BY <1>1, <1>2, <1>3, <1>4, <1>5, <1>6, <1>7, <1>8 DEF CompletionNext

-----------------------------------------------------------------------------
(* Messages *)

\* The thinking that block k shows, and what it is signed over.
ThinkingOf(fs, k) == Joined(fs, Deltas \cap (OfKind("thinking") \cap Numbered(k)))
SignedOver(fs, k) == DataOf(Select(fs, {f \in Numbered(k) : f.frame = "signature_delta"}))

Sealed(fs, k) ==
    SignedOver(fs, k) = IF ThinkingOf(fs, k) = <<>> THEN <<>> ELSE <<ThinkingOf(fs, k)>>

AllSealed(fs) ==
    \A i \in 1..Len(fs) : fs[i].frame = "content_block_stop" => Sealed(fs, fs[i].index)

\* Nothing is added to a block that has been stopped.
StoppedForGood(fs) ==
    \A i, j \in 1..Len(fs) :
        fs[i].frame = "content_block_stop" /\ i < j
            /\ fs[j].frame \in {"content_block_delta", "signature_delta"}
        => fs[j].index # fs[i].index

\* Each frame is allowed by those before it.
WellFormed(fs) == \A n \in 1..Len(fs) : Protocol!May(SubSeq(fs, 1, n - 1), fs[n])

\* The blocks show what the buffered answer to the same events consists of.
Says(fs, evs) ==
    /\ Joined(fs, Deltas) = Said(evs)
    /\ Joined(fs, Deltas \cap OfKind("text")) = Texts(evs)
    /\ Joined(fs, Deltas \cap OfKind("thinking")) = Thoughts(evs)
    /\ Joined(fs, Deltas \cap OfKind("tool_use")) = Calls(evs)

LEMMA FrameData == HasData(Frames, Seq(Nat)) /\ \A f \in Frames : f.data \in Seq(Nat) /\ f.index \in Nat
  BY DEF HasData, Frames

LEMMA ShownAppend ==
  ASSUME NEW fs \in Seq(Frames), NEW f \in Frames, NEW S
  PROVE  /\ Joined(fs, S) \in Seq(Nat)
         /\ Joined(Append(fs, f), S) = IF f \in S THEN Joined(fs, S) \o f.data ELSE Joined(fs, S)
<1>1. HasData(Frames, Seq(Nat))
  BY FrameData
<1> QED BY <1>1, JoinedType, JoinedAppend

LEMMA ThinkingAppend ==
  ASSUME NEW fs \in Seq(Frames), NEW f \in Frames, NEW k
  PROVE  /\ ThinkingOf(fs, k) \in Seq(Nat)
         /\ ThinkingOf(Append(fs, f), k) =
                IF f.frame = "content_block_delta" /\ f.block = "thinking" /\ f.index = k
                THEN ThinkingOf(fs, k) \o f.data ELSE ThinkingOf(fs, k)
<1> DEFINE S == Deltas \cap (OfKind("thinking") \cap Numbered(k))
<1>1. f \in S <=> f.frame = "content_block_delta" /\ f.block = "thinking" /\ f.index = k
  BY DEF Deltas, OfKind, Numbered
<1> HIDE DEF S
<1>2. /\ Joined(fs, S) \in Seq(Nat)
      /\ Joined(Append(fs, f), S) = IF f \in S THEN Joined(fs, S) \o f.data ELSE Joined(fs, S)
  BY ShownAppend
<1>3. ThinkingOf(fs, k) = Joined(fs, S) /\ ThinkingOf(Append(fs, f), k) = Joined(Append(fs, f), S)
  BY DEF ThinkingOf, S
<1> QED BY <1>1, <1>2, <1>3, Zenon

LEMMA SignedAppend ==
  ASSUME NEW fs \in Seq(Frames), NEW f \in Frames, NEW k
  PROVE  /\ SignedOver(fs, k) \in Seq(Seq(Nat))
         /\ SignedOver(Append(fs, f), k) =
                IF f.frame = "signature_delta" /\ f.index = k
                THEN Append(SignedOver(fs, k), f.data) ELSE SignedOver(fs, k)
<1> DEFINE S == {x \in Numbered(k) : x.frame = "signature_delta"}
<1>1. f \in S <=> f.frame = "signature_delta" /\ f.index = k
  BY DEF Numbered
<1> HIDE DEF S
<1>2. Select(fs, S) \in Seq(Frames)
  BY SelectType
<1>3. Select(Append(fs, f), S) = IF f \in S THEN Append(Select(fs, S), f) ELSE Select(fs, S)
  BY SelectAppend
<1>4. HasData(Frames, Seq(Nat))
  BY FrameData
<1>5. DataOf(Select(fs, S)) \in Seq(Seq(Nat))
  BY <1>2, <1>4, DataType
<1>6. DataOf(Append(Select(fs, S), f)) = Append(DataOf(Select(fs, S)), f.data)
  BY <1>2, <1>4, DataAppend
<1>7. DataOf(Select(Append(fs, f), S)) =
        IF f \in S THEN Append(DataOf(Select(fs, S)), f.data) ELSE DataOf(Select(fs, S))
  BY <1>3, <1>6
<1>8. SignedOver(fs, k) = DataOf(Select(fs, S)) /\ SignedOver(Append(fs, f), k) = DataOf(Select(Append(fs, f), S))
  BY DEF SignedOver, S
<1> QED BY <1>1, <1>5, <1>7, <1>8, Zenon

LEMMA ProtocolAppend ==
  ASSUME NEW fs \in Seq(Frames), NEW f \in Frames
  PROVE  /\ \A kind : Protocol!Sent(Append(fs, f), kind) <=> Protocol!Sent(fs, kind) \/ f.frame = kind
         /\ Protocol!Started(Append(fs, f)) = Protocol!Started(fs)
                \cup (IF f.frame = "content_block_start" THEN {f.index} ELSE {})
         /\ Protocol!Stopped(Append(fs, f)) = Protocol!Stopped(fs)
                \cup (IF f.frame = "content_block_stop" THEN {f.index} ELSE {})
         /\ f.frame # "content_block_stop" =>
                \A k, b : Protocol!OpenKind(fs, k, b) => Protocol!OpenKind(Append(fs, f), k, b)
         /\ f.frame = "content_block_start" /\ f.index \notin Protocol!Stopped(fs) =>
                Protocol!OpenKind(Append(fs, f), f.index, f.block)
<1> DEFINE gs == Append(fs, f)
           n == Len(fs) + 1
<1>1. /\ Len(fs) \in Nat /\ DOMAIN fs = 1..Len(fs) /\ DOMAIN gs = 1..n /\ gs[n] = f
      /\ \A i \in 1..Len(fs) : gs[i] = fs[i]
  BY Appended, LenProperties
<1> HIDE DEF gs
<1>2. ASSUME NEW kind
      PROVE  Protocol!FramesOf(gs, kind) = Protocol!FramesOf(fs, kind) \cup (IF f.frame = kind THEN {n} ELSE {})
  BY <1>1 DEF Protocol!FramesOf
<1>3. \A kind : Protocol!Sent(gs, kind) <=> Protocol!Sent(fs, kind) \/ f.frame = kind
  BY <1>2 DEF Protocol!Sent
<1>4. \A kind : Protocol!FramesOf(fs, kind) \subseteq 1..Len(fs)
  BY <1>1 DEF Protocol!FramesOf
<1>5. Protocol!Started(gs) = Protocol!Started(fs) \cup (IF f.frame = "content_block_start" THEN {f.index} ELSE {})
  BY <1>1, <1>2, <1>4 DEF Protocol!Started
<1>6. Protocol!Stopped(gs) = Protocol!Stopped(fs) \cup (IF f.frame = "content_block_stop" THEN {f.index} ELSE {})
  BY <1>1, <1>2, <1>4 DEF Protocol!Stopped
<1>7. ASSUME f.frame # "content_block_stop", NEW k, NEW b, Protocol!OpenKind(fs, k, b)
      PROVE  Protocol!OpenKind(gs, k, b)
  <2>1. Protocol!IsOpen(gs, k)
    BY <1>5, <1>6, <1>7 DEF Protocol!OpenKind, Protocol!IsOpen
  <2>2. PICK i \in Protocol!FramesOf(fs, "content_block_start") : fs[i].index = k /\ fs[i].block = b
    BY <1>7 DEF Protocol!OpenKind
  <2>3. i \in Protocol!FramesOf(gs, "content_block_start") /\ gs[i] = fs[i]
    BY <1>1, <1>2, <1>4, <2>2
  <2> QED BY <2>1, <2>2, <2>3 DEF Protocol!OpenKind
<1>8. ASSUME f.frame = "content_block_start", f.index \notin Protocol!Stopped(fs)
      PROVE  Protocol!OpenKind(gs, f.index, f.block)
  <2>1. Protocol!IsOpen(gs, f.index)
    BY <1>5, <1>6, <1>8 DEF Protocol!IsOpen
  <2>2. n \in Protocol!FramesOf(gs, "content_block_start")
    BY <1>2, <1>8
  <2> QED BY <1>1, <2>1, <2>2 DEF Protocol!OpenKind
<1> QED BY <1>3, <1>5, <1>6, <1>7, <1>8 DEF gs

LEMMA WellFormedAppend ==
  ASSUME NEW fs \in Seq(Frames), NEW f \in Frames, WellFormed(fs), Protocol!May(fs, f)
  PROVE  WellFormed(Append(fs, f))
<1>1. /\ Len(fs) \in Nat /\ Len(Append(fs, f)) = Len(fs) + 1 /\ Append(fs, f)[Len(fs) + 1] = f
      /\ \A i \in 1..Len(fs) : Append(fs, f)[i] = fs[i]
  BY Appended
<1>2. SubSeq(Append(fs, f), 1, Len(fs)) = fs
  OBVIOUS
<1>3. ASSUME NEW n \in 1..Len(fs) PROVE SubSeq(Append(fs, f), 1, n - 1) = SubSeq(fs, 1, n - 1)
  <2>1. n - 1 \in 0..Len(fs)
    BY <1>1
  <2> QED BY <1>1, <2>1
<1> SUFFICES ASSUME NEW n \in 1..(Len(fs) + 1)
             PROVE  Protocol!May(SubSeq(Append(fs, f), 1, n - 1), Append(fs, f)[n])
  BY <1>1 DEF WellFormed
<1>4. CASE n = Len(fs) + 1
  <2>1. n - 1 = Len(fs)
    BY <1>1, <1>4
  <2>2. SubSeq(Append(fs, f), 1, n - 1) = fs /\ Append(fs, f)[n] = f
    BY <1>1, <1>2, <1>4, <2>1, Zenon
  <2> QED BY <2>2, Zenon
<1>5. CASE n # Len(fs) + 1
  <2>1. n \in 1..Len(fs)
    BY <1>1, <1>5
  <2>2. Protocol!May(SubSeq(fs, 1, n - 1), fs[n])
    BY <2>1 DEF WellFormed
  <2> QED BY <1>1, <1>3, <2>1, <2>2
<1> QED BY <1>4, <1>5

(* The blocks, frame by frame *)

\* Blocks 0..n-1 have been started, 0..m-1 of them stopped.
Body(fs, n, m) ==
    /\ Protocol!Started(fs) = {k \in Nat : k < n} /\ Protocol!Stopped(fs) = {k \in Nat : k < m}
    /\ Protocol!InBody(fs) /\ ~Protocol!Sent(fs, "message_stop")
    /\ WellFormed(fs) /\ StoppedForGood(fs)
    /\ \A k \in Nat : k < m => Sealed(fs, k)
    /\ \A k \in Nat : k >= n => ThinkingOf(fs, k) = <<>> /\ SignedOver(fs, k) = <<>>

\* Block n-1 is open, of the given kind, shows that thinking and is not signed.
Open(fs, n, kind, text) ==
    /\ n # 0 /\ Body(fs, n, n - 1) /\ Protocol!OpenKind(fs, n - 1, kind)
    /\ ThinkingOf(fs, n - 1) = text /\ SignedOver(fs, n - 1) = <<>>

LEMMA StoppedAppend ==
  ASSUME NEW fs \in Seq(Frames), NEW f \in Frames, StoppedForGood(fs),
         f.frame \in {"content_block_delta", "signature_delta"} => f.index \notin Protocol!Stopped(fs)
  PROVE  StoppedForGood(Append(fs, f))
<1>1. /\ Len(fs) \in Nat /\ Len(Append(fs, f)) = Len(fs) + 1 /\ Append(fs, f)[Len(fs) + 1] = f
      /\ DOMAIN fs = 1..Len(fs) /\ \A i \in 1..Len(fs) : Append(fs, f)[i] = fs[i]
  BY Appended, LenProperties
<1>2. \A i \in 1..Len(fs) : fs[i].frame = "content_block_stop" => fs[i].index \in Protocol!Stopped(fs)
  BY <1>1 DEF Protocol!Stopped, Protocol!FramesOf
<1> SUFFICES ASSUME NEW i \in 1..(Len(fs) + 1), NEW j \in 1..(Len(fs) + 1), i < j,
                    Append(fs, f)[i].frame = "content_block_stop",
                    Append(fs, f)[j].frame \in {"content_block_delta", "signature_delta"}
             PROVE  Append(fs, f)[j].index # Append(fs, f)[i].index
  BY <1>1 DEF StoppedForGood
<1>3. i \in 1..Len(fs)
  BY <1>1
<1>4. CASE j = Len(fs) + 1
  BY <1>1, <1>2, <1>3, <1>4
<1>5. CASE j # Len(fs) + 1
  <2>1. j \in 1..Len(fs)
    BY <1>1, <1>5
  <2> QED BY <1>1, <1>3, <2>1 DEF StoppedForGood
<1> QED BY <1>4, <1>5

\* A frame that is neither a delta nor a signature changes no block's content.
LEMMA ContentKept ==
  ASSUME NEW fs \in Seq(Frames), NEW f \in Frames,
         f.frame \notin {"content_block_delta", "signature_delta"}
  PROVE  \A k : /\ ThinkingOf(Append(fs, f), k) = ThinkingOf(fs, k)
                /\ SignedOver(Append(fs, f), k) = SignedOver(fs, k)
                /\ Sealed(Append(fs, f), k) <=> Sealed(fs, k)
  BY ThinkingAppend, SignedAppend DEF Sealed

LEMMA BodyStarts ==
  ASSUME NEW fs \in Seq(Frames), NEW n \in Nat, Body(fs, n, n),
         NEW f \in Frames, f.frame = "content_block_start", f.index = n
  PROVE  Open(Append(fs, f), n + 1, f.block, <<>>)
<1> DEFINE gs == Append(fs, f)
<1>0. n + 1 - 1 = n /\ n + 1 # 0 /\ n + 1 \in Nat
  OBVIOUS
<1>1. Protocol!Started(gs) = {k \in Nat : k < n + 1} /\ Protocol!Stopped(gs) = {k \in Nat : k < n}
  <2>1. Protocol!Started(gs) = Protocol!Started(fs) \cup {n} /\ Protocol!Stopped(gs) = Protocol!Stopped(fs)
    BY ProtocolAppend
  <2>2. {k \in Nat : k < n} \cup {n} = {k \in Nat : k < n + 1}
    OBVIOUS
  <2> QED BY <2>1, <2>2 DEF Body
<1>2. Protocol!InBody(gs) /\ ~Protocol!Sent(gs, "message_stop")
  <2>1. Protocol!InBody(fs) /\ ~Protocol!Sent(fs, "message_stop")
    BY DEF Body
  <2>2. \A kind : Protocol!Sent(gs, kind) <=> Protocol!Sent(fs, kind) \/ f.frame = kind
    BY ProtocolAppend
  <2> QED BY <2>1, <2>2 DEF Protocol!InBody
<1>3. Protocol!May(fs, f)
  <2>1. Protocol!Started(fs) = Protocol!Stopped(fs) /\ Protocol!Started(fs) = {k \in Nat : k < n} /\ Protocol!InBody(fs)
    BY DEF Body
  <2>2. {k \in Nat : k < n} = 0..(n - 1)
    OBVIOUS
  <2> QED BY <2>1, <2>2 DEF Protocol!May
<1>4. WellFormed(gs)
  BY <1>3, WellFormedAppend DEF Body
<1>5. StoppedForGood(gs)
  BY StoppedAppend DEF Body
<1>6. Protocol!OpenKind(gs, n, f.block)
  <2>1. n \notin Protocol!Stopped(fs)
    BY DEF Body
  <2> QED BY <2>1, ProtocolAppend
<1>7. \A k : /\ ThinkingOf(gs, k) = ThinkingOf(fs, k) /\ SignedOver(gs, k) = SignedOver(fs, k)
             /\ Sealed(gs, k) <=> Sealed(fs, k)
  BY ContentKept
<1> HIDE DEF gs
<1>8. Body(gs, n + 1, n)
  BY <1>1, <1>2, <1>4, <1>5, <1>7 DEF Body
<1>9. ThinkingOf(gs, n) = <<>> /\ SignedOver(gs, n) = <<>>
  BY <1>7 DEF Body
<1>10. Open(gs, n + 1, f.block, <<>>)
  BY <1>0, <1>6, <1>8, <1>9 DEF Open
<1> QED BY <1>10 DEF gs

LEMMA BodyShows ==
  ASSUME NEW fs \in Seq(Frames), NEW n \in Nat, NEW text, NEW f \in Frames,
         f.frame = "content_block_delta", f.index = n - 1, Open(fs, n, f.block, text)
  PROVE  Open(Append(fs, f), n, f.block, IF f.block = "thinking" THEN text \o f.data ELSE text)
<1> DEFINE gs == Append(fs, f)
<1>0. n # 0 /\ n - 1 \in Nat /\ Body(fs, n, n - 1) /\ Protocol!OpenKind(fs, n - 1, f.block)
  BY DEF Open
<1>1. Protocol!Started(gs) = {k \in Nat : k < n} /\ Protocol!Stopped(gs) = {k \in Nat : k < n - 1}
  <2>1. Protocol!Started(gs) = Protocol!Started(fs) /\ Protocol!Stopped(gs) = Protocol!Stopped(fs)
    BY ProtocolAppend
  <2> QED BY <1>0, <2>1 DEF Body
<1>2. Protocol!InBody(gs) /\ ~Protocol!Sent(gs, "message_stop")
  <2>1. Protocol!InBody(fs) /\ ~Protocol!Sent(fs, "message_stop")
    BY <1>0 DEF Body
  <2>2. \A kind : Protocol!Sent(gs, kind) <=> Protocol!Sent(fs, kind) \/ f.frame = kind
    BY ProtocolAppend
  <2> QED BY <2>1, <2>2 DEF Protocol!InBody
<1>3. WellFormed(gs)
  <2>1. Protocol!May(fs, f)
    BY <1>0 DEF Body, Protocol!May
  <2> QED BY <1>0, <2>1, WellFormedAppend DEF Body
<1>4. StoppedForGood(gs)
  <2>1. f.index \notin Protocol!Stopped(fs)
    BY <1>0 DEF Body
  <2> QED BY <1>0, <2>1, StoppedAppend DEF Body
<1>5. Protocol!OpenKind(gs, n - 1, f.block)
  BY <1>0, ProtocolAppend
<1>6. \A k : k # n - 1 => ThinkingOf(gs, k) = ThinkingOf(fs, k)
  BY ThinkingAppend
<1>7. \A k : SignedOver(gs, k) = SignedOver(fs, k)
  BY SignedAppend
<1>8. ThinkingOf(gs, n - 1) = IF f.block = "thinking" THEN text \o f.data ELSE text
  BY ThinkingAppend DEF Open
<1> HIDE DEF gs
<1>9. \A k \in Nat : k < n - 1 => Sealed(gs, k)
  <2>1. \A k \in Nat : k < n - 1 => k # n - 1 /\ Sealed(fs, k)
    BY <1>0 DEF Body
  <2> QED BY <1>6, <1>7, <2>1 DEF Sealed
<1>10. \A k \in Nat : k >= n => ThinkingOf(gs, k) = <<>> /\ SignedOver(gs, k) = <<>>
  <2>1. \A k \in Nat : k >= n => k # n - 1 /\ ThinkingOf(fs, k) = <<>> /\ SignedOver(fs, k) = <<>>
    BY <1>0 DEF Body
  <2> QED BY <1>6, <1>7, <2>1
<1>11. Body(gs, n, n - 1)
  BY <1>1, <1>2, <1>3, <1>4, <1>9, <1>10 DEF Body
<1>12. Open(gs, n, f.block, IF f.block = "thinking" THEN text \o f.data ELSE text)
  BY <1>0, <1>5, <1>7, <1>8, <1>11 DEF Open
<1> QED BY <1>12 DEF gs

LEMMA BodySigned ==
  ASSUME NEW fs \in Seq(Frames), NEW n \in Nat, NEW text, text # <<>>, NEW f \in Frames,
         f.frame = "signature_delta", f.index = n - 1, f.data = text, Open(fs, n, "thinking", text)
  PROVE  Body(Append(fs, f), n, n - 1) /\ Sealed(Append(fs, f), n - 1)
<1> DEFINE gs == Append(fs, f)
<1>0. n # 0 /\ n - 1 \in Nat /\ Body(fs, n, n - 1) /\ Protocol!OpenKind(fs, n - 1, "thinking")
      /\ ThinkingOf(fs, n - 1) = text /\ SignedOver(fs, n - 1) = <<>>
  BY DEF Open
<1>1. Protocol!Started(gs) = {k \in Nat : k < n} /\ Protocol!Stopped(gs) = {k \in Nat : k < n - 1}
  <2>1. Protocol!Started(gs) = Protocol!Started(fs) /\ Protocol!Stopped(gs) = Protocol!Stopped(fs)
    BY ProtocolAppend
  <2> QED BY <1>0, <2>1 DEF Body
<1>2. Protocol!InBody(gs) /\ ~Protocol!Sent(gs, "message_stop")
  <2>1. Protocol!InBody(fs) /\ ~Protocol!Sent(fs, "message_stop")
    BY <1>0 DEF Body
  <2>2. \A kind : Protocol!Sent(gs, kind) <=> Protocol!Sent(fs, kind) \/ f.frame = kind
    BY ProtocolAppend
  <2> QED BY <2>1, <2>2 DEF Protocol!InBody
<1>3. WellFormed(gs)
  <2>1. Protocol!May(fs, f)
    BY <1>0 DEF Body, Protocol!May
  <2> QED BY <1>0, <2>1, WellFormedAppend DEF Body
<1>4. StoppedForGood(gs)
  <2>1. f.index \notin Protocol!Stopped(fs)
    BY <1>0 DEF Body
  <2> QED BY <1>0, <2>1, StoppedAppend DEF Body
<1>5. \A k : ThinkingOf(gs, k) = ThinkingOf(fs, k)
  BY ThinkingAppend
<1>6. \A k : k # n - 1 => SignedOver(gs, k) = SignedOver(fs, k)
  BY SignedAppend
<1>7. SignedOver(gs, n - 1) = <<text>>
  <2>1. SignedOver(gs, n - 1) = Append(SignedOver(fs, n - 1), f.data)
    BY SignedAppend
  <2>2. SignedOver(fs, n - 1) = <<>> /\ Append(<<>>, f.data) = <<f.data>>
    BY <1>0
  <2> QED BY <2>1, <2>2, Zenon
<1> HIDE DEF gs
<1>8. Sealed(gs, n - 1)
  BY <1>0, <1>5, <1>7 DEF Sealed
<1>9. \A k \in Nat : k < n - 1 => Sealed(gs, k)
  <2>1. \A k \in Nat : k < n - 1 => k # n - 1 /\ Sealed(fs, k)
    BY <1>0 DEF Body
  <2> QED BY <1>5, <1>6, <2>1 DEF Sealed
<1>10. \A k \in Nat : k >= n => ThinkingOf(gs, k) = <<>> /\ SignedOver(gs, k) = <<>>
  <2>1. \A k \in Nat : k >= n => k # n - 1 /\ ThinkingOf(fs, k) = <<>> /\ SignedOver(fs, k) = <<>>
    BY <1>0 DEF Body
  <2> QED BY <1>5, <1>6, <2>1
<1>11. Body(gs, n, n - 1)
  BY <1>1, <1>2, <1>3, <1>4, <1>9, <1>10 DEF Body
<1> QED BY <1>8, <1>11 DEF gs

LEMMA BodyStops ==
  ASSUME NEW fs \in Seq(Frames), NEW n \in Nat, n # 0, Body(fs, n, n - 1), Sealed(fs, n - 1),
         NEW f \in Frames, f.frame = "content_block_stop", f.index = n - 1
  PROVE  Body(Append(fs, f), n, n)
<1> DEFINE gs == Append(fs, f)
<1>1. Protocol!Started(gs) = {k \in Nat : k < n} /\ Protocol!Stopped(gs) = {k \in Nat : k < n}
  <2>1. Protocol!Started(gs) = Protocol!Started(fs) /\ Protocol!Stopped(gs) = Protocol!Stopped(fs) \cup {n - 1}
    <3>1. Protocol!Started(gs) = Protocol!Started(fs) \cup {}
      BY ProtocolAppend
    <3>2. Protocol!Stopped(gs) = Protocol!Stopped(fs) \cup {f.index}
      BY ProtocolAppend
    <3> QED BY <3>1, <3>2
  <2>2. {k \in Nat : k < n - 1} \cup {n - 1} = {k \in Nat : k < n}
    OBVIOUS
  <2> QED BY <2>1, <2>2 DEF Body
<1>2. Protocol!InBody(gs) /\ ~Protocol!Sent(gs, "message_stop")
  <2>1. Protocol!InBody(fs) /\ ~Protocol!Sent(fs, "message_stop")
    BY DEF Body
  <2>2. \A kind : Protocol!Sent(gs, kind) <=> Protocol!Sent(fs, kind) \/ f.frame = kind
    BY ProtocolAppend
  <2> QED BY <2>1, <2>2 DEF Protocol!InBody
<1>3. WellFormed(gs)
  <2>1. f.index \in Protocol!Started(fs) \ Protocol!Stopped(fs)
    BY DEF Body
  <2>2. Protocol!May(fs, f)
    BY <2>1 DEF Body, Protocol!May, Protocol!IsOpen
  <2> QED BY <2>2, WellFormedAppend DEF Body
<1>4. StoppedForGood(gs)
  BY StoppedAppend DEF Body
<1>5. \A k : /\ ThinkingOf(gs, k) = ThinkingOf(fs, k) /\ SignedOver(gs, k) = SignedOver(fs, k)
             /\ Sealed(gs, k) <=> Sealed(fs, k)
  BY ContentKept
<1> HIDE DEF gs
<1>6. \A k \in Nat : k < n => Sealed(gs, k)
  <2>1. \A k \in Nat : k < n => k < n - 1 \/ k = n - 1
    OBVIOUS
  <2> QED BY <1>5, <2>1 DEF Body
<1>7. Body(gs, n, n)
  BY <1>1, <1>2, <1>3, <1>4, <1>5, <1>6 DEF Body
<1> QED BY <1>7 DEF gs

LEMMA DeltaMade ==
  ASSUME NEW i \in Nat, NEW block \in {"text", "thinking", "tool_use"}, NEW d \in Nat
  PROVE  /\ BlockStart(i, block) \in Frames /\ BlockStart(i, block).frame = "content_block_start"
         /\ BlockStart(i, block).index = i /\ BlockStart(i, block).block = block
         /\ BlockDelta(i, block, d) \in Frames /\ BlockDelta(i, block, d).frame = "content_block_delta"
         /\ BlockDelta(i, block, d).index = i /\ BlockDelta(i, block, d).block = block
         /\ BlockDelta(i, block, d).data = <<d>>
<1>0. <<>> \in Seq(Nat) /\ \A x \in Nat : <<x>> \in Seq(Nat)
  BY EmptySeq
<1> DEFINE data == <<d>>
<1>1. data \in Seq(Nat)
  BY <1>0
<1>2. BlockDelta(i, block, d) = [frame |-> "content_block_delta", index |-> i, block |-> block, data |-> data]
  BY DEF BlockDelta, Frame
<1> HIDE DEF data
<1>3. BlockDelta(i, block, d) \in Frames
  <2>1. [frame |-> "content_block_delta", index |-> i, block |-> block, data |-> data] \in Frames
    BY <1>1 DEF Frames
  <2> QED BY <1>2, <2>1, Zenon
<1>4. /\ BlockDelta(i, block, d).frame = "content_block_delta" /\ BlockDelta(i, block, d).index = i
      /\ BlockDelta(i, block, d).block = block /\ BlockDelta(i, block, d).data = data
  BY <1>2
<1>5. /\ BlockStart(i, block) \in Frames /\ BlockStart(i, block).frame = "content_block_start"
      /\ BlockStart(i, block).index = i /\ BlockStart(i, block).block = block
  BY <1>0 DEF Frames, Frame, BlockStart
<1> QED BY <1>3, <1>4, <1>5 DEF data

LEMMA CloserMade ==
  ASSUME NEW i \in Nat
  PROVE  /\ \A text \in Seq(Nat) :
                /\ Signature(i, text) \in Frames /\ Signature(i, text).frame = "signature_delta"
                /\ Signature(i, text).index = i /\ Signature(i, text).data = text
         /\ BlockStop(i) \in Frames /\ BlockStop(i).frame = "content_block_stop"
         /\ BlockStop(i).index = i
<1>1. <<>> \in Seq(Nat)
  BY EmptySeq
<1> QED BY <1>1 DEF Frames, Frame, Signature, BlockStop

LEMMA FramesMade ==
  /\ MessageStart \in Frames /\ MessageStart.frame = "message_start"
  /\ ErrorFrame \in Frames /\ ErrorFrame.frame = "error"
  /\ \A reason \in {"end_turn", "tool_use", "max_tokens"}, u \in Nat :
        MessageDelta(reason, u) \in Frames /\ MessageDelta(reason, u).frame = "message_delta"
  /\ MessageStop \in Frames /\ MessageStop.frame = "message_stop"
<1>1. <<>> \in Seq(Nat) /\ \A d \in Nat : <<d>> \in Seq(Nat)
  BY EmptySeq
<1>2. /\ MessageStart \in Frames /\ MessageStart.frame = "message_start"
      /\ ErrorFrame \in Frames /\ ErrorFrame.frame = "error"
      /\ MessageStop \in Frames /\ MessageStop.frame = "message_stop"
  BY <1>1 DEF Frames, Frame, MessageStart, ErrorFrame, MessageStop
<1>3. \A reason \in {"end_turn", "tool_use", "max_tokens"}, u \in Nat :
        MessageDelta(reason, u) \in Frames /\ MessageDelta(reason, u).frame = "message_delta"
  BY <1>1 DEF Frames, Frame, MessageDelta
<1> QED BY <1>2, <1>3

\* The kind of block a piece is shown in.
BlockOf(e) ==
    CASE e.type = "text-delta" -> "text"
      [] e.type = "reasoning-delta" -> "thinking"
      [] OTHER -> "tool_use"

LEMMA SaysPiece ==
  ASSUME NEW fs \in Seq(Frames), NEW evs \in Seq(Event), NEW e \in Pieces, Says(fs, evs),
         NEW f \in Frames, f.frame = "content_block_delta", f.block = BlockOf(e), f.data = <<e.data>>
  PROVE  Says(Append(fs, f), Append(evs, e))
<1>1. e \in Event /\ e.data # 0 /\ e.type \in {"text-delta", "reasoning-delta", "tool-call"} /\ e.data \in Nat
  BY EventData DEF Pieces
<1>2. Said(Append(evs, e)) = Append(Said(evs), e.data)
  BY <1>1, SaidAppend
<1>3. /\ Texts(Append(evs, e)) = IF e.type = "text-delta" THEN Append(Texts(evs), e.data) ELSE Texts(evs)
      /\ Thoughts(Append(evs, e)) =
            IF e.type = "reasoning-delta" THEN Append(Thoughts(evs), e.data) ELSE Thoughts(evs)
      /\ Calls(Append(evs, e)) = IF e.type = "tool-call" THEN Append(Calls(evs), e.data) ELSE Calls(evs)
  BY <1>1, FieldsAppend
<1>4. /\ f \in Deltas
      /\ f \in Deltas \cap OfKind("text") <=> e.type = "text-delta"
      /\ f \in Deltas \cap OfKind("thinking") <=> e.type = "reasoning-delta"
      /\ f \in Deltas \cap OfKind("tool_use") <=> e.type = "tool-call"
  BY <1>1 DEF BlockOf, Deltas, OfKind
<1>5. ASSUME NEW S
      PROVE  Joined(Append(fs, f), S) = IF f \in S THEN Append(Joined(fs, S), e.data) ELSE Joined(fs, S)
  <2>1. /\ Joined(fs, S) \in Seq(Nat)
        /\ Joined(Append(fs, f), S) = IF f \in S THEN Joined(fs, S) \o f.data ELSE Joined(fs, S)
    BY ShownAppend
  <2>2. Joined(fs, S) \o <<e.data>> = Append(Joined(fs, S), e.data)
    BY <1>1, <2>1, AppendIsConcat
  <2> QED BY <2>1, <2>2
<1>6. Joined(Append(fs, f), Deltas) = Append(Joined(fs, Deltas), e.data)
  BY <1>4, <1>5
<1>7. /\ Joined(Append(fs, f), Deltas \cap OfKind("text")) =
            IF e.type = "text-delta" THEN Append(Joined(fs, Deltas \cap OfKind("text")), e.data)
            ELSE Joined(fs, Deltas \cap OfKind("text"))
      /\ Joined(Append(fs, f), Deltas \cap OfKind("thinking")) =
            IF e.type = "reasoning-delta" THEN Append(Joined(fs, Deltas \cap OfKind("thinking")), e.data)
            ELSE Joined(fs, Deltas \cap OfKind("thinking"))
      /\ Joined(Append(fs, f), Deltas \cap OfKind("tool_use")) =
            IF e.type = "tool-call" THEN Append(Joined(fs, Deltas \cap OfKind("tool_use")), e.data)
            ELSE Joined(fs, Deltas \cap OfKind("tool_use"))
  BY <1>4, <1>5
<1> QED BY <1>2, <1>3, <1>6, <1>7 DEF Says

LEMMA SaysSilent ==
  ASSUME NEW fs, NEW evs \in Seq(Event), NEW e \in Event, Silent(e), Says(fs, evs)
  PROVE  Says(fs, Append(evs, e))
<1>1. e \notin Pieces
  BY DEF Pieces, Silent
<1>2. Said(Append(evs, e)) = Said(evs)
  BY <1>1, SaidAppend
<1>3. /\ Texts(Append(evs, e)) = Texts(evs) /\ Thoughts(Append(evs, e)) = Thoughts(evs)
      /\ Calls(Append(evs, e)) = Calls(evs)
  BY FieldsAppend DEF Silent
<1> QED BY <1>2, <1>3 DEF Says

LEMMA SaysOther ==
  ASSUME NEW fs \in Seq(Frames), NEW evs, NEW f \in Frames, f.frame # "content_block_delta", Says(fs, evs)
  PROVE  Says(Append(fs, f), evs)
<1>1. f \notin Deltas
  BY DEF Deltas
<1>2. \A S : f \notin S => Joined(Append(fs, f), S) = Joined(fs, S)
  BY ShownAppend
<1>3. /\ Joined(Append(fs, f), Deltas) = Joined(fs, Deltas)
      /\ \A S : Joined(Append(fs, f), Deltas \cap S) = Joined(fs, Deltas \cap S)
  BY <1>1, <1>2
<1> QED BY <1>3 DEF Says

LEMMA BodySealed ==
  ASSUME NEW fs \in Seq(Frames), NEW n, NEW m, Body(fs, n, m)
  PROVE  AllSealed(fs)
<1> SUFFICES ASSUME NEW i \in 1..Len(fs), fs[i].frame = "content_block_stop"
             PROVE  Sealed(fs, fs[i].index)
  BY DEF AllSealed
<1>1. DOMAIN fs = 1..Len(fs)
  BY LenProperties
<1>2. fs[i].index \in Protocol!Stopped(fs)
  BY <1>1 DEF Protocol!Stopped, Protocol!FramesOf
<1> QED BY <1>2 DEF Body

LEMMA SealedAppend ==
  ASSUME NEW fs \in Seq(Frames), NEW f \in Frames, AllSealed(fs),
         f.frame \notin {"content_block_delta", "signature_delta", "content_block_stop"}
  PROVE  AllSealed(Append(fs, f))
<1>1. /\ Len(fs) \in Nat /\ Len(Append(fs, f)) = Len(fs) + 1 /\ Append(fs, f)[Len(fs) + 1] = f
      /\ \A i \in 1..Len(fs) : Append(fs, f)[i] = fs[i]
  BY Appended
<1>2. \A k : Sealed(Append(fs, f), k) <=> Sealed(fs, k)
  BY ContentKept
<1> SUFFICES ASSUME NEW i \in 1..(Len(fs) + 1), Append(fs, f)[i].frame = "content_block_stop"
             PROVE  Sealed(Append(fs, f), Append(fs, f)[i].index)
  BY <1>1 DEF AllSealed
<1>3. i \in 1..Len(fs)
  BY <1>1
<1> QED BY <1>1, <1>2, <1>3 DEF AllSealed

\* What was sent of a message is sealed when the whole of it is.
LEMMA SealedOfPrefix ==
  ASSUME NEW fs \in Seq(Frames), NEW gs \in Seq(Frames), AllSealed(fs \o gs), StoppedForGood(fs \o gs)
  PROVE  AllSealed(fs)
<1>1. /\ Len(fs) \in Nat /\ Len(gs) \in Nat
      /\ \A i \in 1..Len(fs) : i \in 1..Len(fs \o gs) /\ (fs \o gs)[i] = fs[i]
      /\ \A i \in 1..Len(gs) : Len(fs) + i \in 1..Len(fs \o gs) /\ (fs \o gs)[Len(fs) + i] = gs[i]
  BY ConcatAt
<1> SUFFICES ASSUME NEW i \in 1..Len(fs), fs[i].frame = "content_block_stop"
             PROVE  Sealed(fs, fs[i].index)
  BY DEF AllSealed
<1> DEFINE k == fs[i].index
           D == Deltas \cap (OfKind("thinking") \cap Numbered(k))
           S == {f \in Numbered(k) : f.frame = "signature_delta"}
<1>2. Sealed(fs \o gs, k)
  BY <1>1 DEF AllSealed
<1>3. \A j \in 1..Len(gs) : gs[j] \notin D /\ gs[j] \notin S
  <2> SUFFICES ASSUME NEW j \in 1..Len(gs),
                      gs[j].frame \in {"content_block_delta", "signature_delta"}
               PROVE  gs[j].index # k
    BY DEF Deltas, Numbered, OfKind
  <2>1. i \in 1..Len(fs \o gs) /\ Len(fs) + j \in 1..Len(fs \o gs) /\ i < Len(fs) + j
    BY <1>1
  <2>2. (fs \o gs)[i] = fs[i] /\ (fs \o gs)[Len(fs) + j] = gs[j]
    BY <1>1
  <2> QED BY <2>1, <2>2 DEF StoppedForGood
<1> HIDE DEF D, S
<1>4. ThinkingOf(fs \o gs, k) = ThinkingOf(fs, k)
  <2>1. Joined(gs, D) = <<>>
    BY <1>3, JoinedNone
  <2>2. HasData(Frames, Seq(Nat))
    BY FrameData
  <2>3. Joined(fs, D) \in Seq(Nat)
    BY <2>2, JoinedType
  <2>4. Joined(fs \o gs, D) = Joined(fs, D) \o Joined(gs, D)
    BY <2>2, JoinedConcat
  <2>5. Joined(fs \o gs, D) = Joined(fs, D)
    BY <2>1, <2>3, <2>4, ConcatEmptySeq
  <2> QED BY <2>5 DEF ThinkingOf, D
<1>5. SignedOver(fs \o gs, k) = SignedOver(fs, k)
  <2>1. Select(gs, S) = <<>>
    BY <1>3, SelectNone
  <2>2. Select(fs, S) \in Seq(Frames)
    BY SelectType
  <2>3. Select(fs \o gs, S) = Select(fs, S) \o Select(gs, S)
    BY SelectConcat
  <2>4. Select(fs \o gs, S) = Select(fs, S)
    BY <2>1, <2>2, <2>3, ConcatEmptySeq
  <2> QED BY <2>4 DEF SignedOver, S
<1> HIDE DEF k
<1>6. Sealed(fs, k)
  BY <1>2, <1>4, <1>5 DEF Sealed
<1> QED BY <1>6 DEF k

LEMMA WellFormedPrefix ==
  ASSUME NEW fs \in Seq(Frames), NEW gs \in Seq(Frames), WellFormed(fs \o gs), StoppedForGood(fs \o gs)
  PROVE  WellFormed(fs) /\ StoppedForGood(fs)
<1>1. /\ fs \o gs \in Seq(Frames) /\ Len(fs) \in Nat /\ Len(fs) <= Len(fs \o gs)
      /\ \A i \in 1..Len(fs) : i \in 1..Len(fs \o gs) /\ (fs \o gs)[i] = fs[i]
  <2>1. Len(fs \o gs) = Len(fs) + Len(gs) /\ Len(gs) \in Nat /\ Len(fs) \in Nat
    BY ConcatAt
  <2>2. Len(fs) <= Len(fs \o gs)
    BY <2>1
  <2> QED BY <2>1, <2>2, ConcatAt
<1>2. ASSUME NEW n \in 1..Len(fs) PROVE Protocol!May(SubSeq(fs, 1, n - 1), fs[n])
  <2>1. SubSeq(fs \o gs, 1, n - 1) = SubSeq(fs, 1, n - 1)
    BY <1>1, PrefixSubSeq
  <2>2. Protocol!May(SubSeq(fs \o gs, 1, n - 1), (fs \o gs)[n])
    BY <1>1 DEF WellFormed
  <2> QED BY <1>1, <2>1, <2>2
<1>3. StoppedForGood(fs)
  BY <1>1 DEF StoppedForGood
<1> QED BY <1>2, <1>3 DEF WellFormed

\* A message is being read: block n-1 is the current one, of the given kind; only a
\* thinking block has thinking to sign.
Current(fs, n, kind, text) ==
    /\ (text # <<>>) <=> (kind = "thinking")
    /\ (kind = "") <=> (n = 0)
    /\ IF n = 0 THEN Body(fs, 0, 0) ELSE Open(fs, n, kind, text)

LEMMA CurrentSealed ==
  ASSUME NEW fs \in Seq(Frames), NEW n, NEW kind, NEW text, Current(fs, n, kind, text)
  PROVE  AllSealed(fs) /\ WellFormed(fs) /\ StoppedForGood(fs) /\ ~HasFrame(fs, "message_stop")
<1>1. PICK m, k : Body(fs, m, k)
  BY DEF Current, Open
<1>2. ~HasFrame(fs, "message_stop")
  <2>1. DOMAIN fs = 1..Len(fs)
    BY LenProperties
  <2> QED BY <1>1, <2>1 DEF Body, HasFrame, Protocol!Sent, Protocol!FramesOf
<1> QED BY <1>1, <1>2, BodySealed DEF Body

LEMMA TwoAppends ==
  ASSUME NEW E, NEW fs \in Seq(E), NEW a \in E, NEW b \in E
  PROVE  /\ <<a, b>> \in Seq(E) /\ Append(fs, a) \in Seq(E)
         /\ fs \o <<a, b>> = Append(Append(fs, a), b)
<1>1. <<a, b>> \in Seq(E) /\ <<a, b>> = Append(<<a>>, b) /\ <<a>> \in Seq(E)
  OBVIOUS
<1>2. Append(fs, a) \in Seq(E)
  BY Appended
<1>3. Append(fs, a) = fs \o <<a>>
  BY AppendIsConcat
<1>4. fs \o Append(<<a>>, b) = Append(fs \o <<a>>, b)
  BY <1>1
<1> QED BY <1>1, <1>2, <1>3, <1>4

\* closeCurrent stops the current block, sealed, and shows nothing.
LEMMA Closes ==
  ASSUME TypeOK, NEW fs \in Seq(Frames), Current(fs, index, current, thinking),
         NEW evs, Says(fs, evs)
  PROVE  /\ closeCurrent \in Seq(Frames) /\ fs \o closeCurrent \in Seq(Frames)
         /\ Body(fs \o closeCurrent, index, index) /\ Says(fs \o closeCurrent, evs)
<1>0. index \in Nat /\ thinking \in Seq(Nat)
  BY DEF TypeOK
<1>1. CASE current = ""
  <2>1. closeCurrent = <<>> /\ index = 0
    BY <1>1 DEF closeCurrent, Current
  <2> QED BY <2>1, EmptySeq, ConcatEmptySeq DEF Current
<1>2. CASE current # ""
  <2> DEFINE m == index - 1
             stopped == BlockStop(m)
             signed == Signature(m, thinking)
  <2>1. index # 0 /\ index - 1 \in Nat /\ Open(fs, index, current, thinking)
    <3>1. index # 0
      BY <1>2 DEF Current
    <3>2. Open(fs, index, current, thinking)
      BY <3>1 DEF Current
    <3> QED BY <1>0, <3>1, <3>2
  <2>2. /\ stopped \in Frames /\ stopped.frame = "content_block_stop" /\ stopped.index = index - 1
        /\ signed \in Frames /\ signed.frame = "signature_delta" /\ signed.index = index - 1
        /\ signed.data = thinking
    <3>1. m \in Nat /\ m = index - 1
      BY <2>1
    <3> HIDE DEF m
    <3> QED BY <1>0, <3>1, CloserMade
  <2>3. ASSUME NEW gs \in Seq(Frames), Body(gs, index, index - 1), Sealed(gs, index - 1), Says(gs, evs)
        PROVE  Body(Append(gs, stopped), index, index) /\ Says(Append(gs, stopped), evs)
               /\ Append(gs, stopped) \in Seq(Frames)
    <3> HIDE DEF stopped
    <3>1. Body(Append(gs, stopped), index, index)
      BY <1>0, <2>1, <2>2, <2>3, BodyStops
    <3>2. Says(Append(gs, stopped), evs)
      BY <2>2, <2>3, SaysOther
    <3> QED BY <2>2, <3>1, <3>2, Appended
  <2>4. CASE current = "thinking"
    <3>1. closeCurrent = <<signed, stopped>> /\ thinking # <<>>
      BY <2>4 DEF closeCurrent, Current
    <3> HIDE DEF signed, stopped
    <3>2. /\ closeCurrent \in Seq(Frames) /\ Append(fs, signed) \in Seq(Frames)
          /\ fs \o closeCurrent = Append(Append(fs, signed), stopped)
      BY <2>2, <3>1, TwoAppends
    <3>3. Body(Append(fs, signed), index, index - 1) /\ Sealed(Append(fs, signed), index - 1)
      BY <1>0, <2>1, <2>2, <2>4, <3>1, BodySigned
    <3>4. Says(Append(fs, signed), evs)
      BY <2>2, SaysOther
    <3> QED BY <2>3, <3>2, <3>3, <3>4
  <2>5. CASE current # "thinking"
    <3>1. closeCurrent = <<stopped>> /\ thinking = <<>>
      BY <1>2, <2>5 DEF closeCurrent, Current
    <3> HIDE DEF signed, stopped
    <3>2. closeCurrent \in Seq(Frames) /\ fs \o closeCurrent = Append(fs, stopped)
      BY <2>2, <3>1, AppendIsConcat
    <3>3. Body(fs, index, index - 1) /\ Sealed(fs, index - 1)
      BY <2>1, <3>1 DEF Open, Sealed
    <3> QED BY <2>3, <3>2, <3>3
  <2> QED BY <2>4, <2>5
<1> QED BY <1>1, <1>2

\* A piece is shown in a block that is opened for it ...
LEMMA Opens ==
  ASSUME TypeOK, NEW fs \in Seq(Frames), Current(fs, index, current, thinking),
         NEW evs \in Seq(Event), Says(fs, evs), NEW e \in Pieces
  PROVE  LET gs == closeCurrent \o <<BlockStart(index, BlockOf(e)), BlockDelta(index, BlockOf(e), e.data)>>
         IN  /\ gs \in Seq(Frames) /\ Says(fs \o gs, Append(evs, e))
             /\ Current(fs \o gs, index + 1, BlockOf(e), IF BlockOf(e) = "thinking" THEN <<e.data>> ELSE <<>>)
<1> DEFINE block == BlockOf(e)
           started == BlockStart(index, block)
           delta == BlockDelta(index, block, e.data)
           cs == fs \o closeCurrent
           hs == Append(Append(cs, started), delta)
           text == IF block = "thinking" THEN <<e.data>> ELSE <<>>
<1>1. index \in Nat /\ e.data \in Nat /\ block \in {"text", "thinking", "tool_use"}
  BY EventData DEF TypeOK, Pieces, BlockOf
<1>2. /\ started \in Frames /\ started.frame = "content_block_start" /\ started.index = index
      /\ started.block = block
      /\ delta \in Frames /\ delta.frame = "content_block_delta" /\ delta.index = index
      /\ delta.block = block /\ delta.data = <<e.data>>
  <2> HIDE DEF block
  <2> QED BY <1>1, DeltaMade, SMTT(60)
<1>3. closeCurrent \in Seq(Frames) /\ cs \in Seq(Frames) /\ Body(cs, index, index) /\ Says(cs, evs)
  BY Closes
<1> HIDE DEF started, delta, cs
<1>4. Append(cs, started) \in Seq(Frames) /\ Open(Append(cs, started), index + 1, block, <<>>)
      /\ Says(Append(cs, started), evs)
  <2>1. Open(Append(cs, started), index + 1, started.block, <<>>)
    BY <1>1, <1>2, <1>3, BodyStarts
  <2>2. Says(Append(cs, started), evs)
    BY <1>2, <1>3, SaysOther
  <2> QED BY <1>2, <1>3, <2>1, <2>2, Appended
<1>5. Open(hs, index + 1, block, text)
  <2> DEFINE gs == Append(cs, started)
             n == index + 1
  <2>1. gs \in Seq(Frames) /\ n \in Nat /\ n - 1 = index /\ Open(gs, n, delta.block, <<>>)
    BY <1>1, <1>2, <1>4
  <2> HIDE DEF gs, n
  <2>2. Open(Append(gs, delta), n, delta.block, IF delta.block = "thinking" THEN <<>> \o delta.data ELSE <<>>)
    BY <1>2, <2>1, BodyShows
  <2>3. <<>> \o delta.data = delta.data /\ delta.data = <<e.data>>
    <3>1. delta.data \in Seq(Nat)
      BY <1>2, FrameData
    <3> QED BY <1>2, <3>1, ConcatEmptySeq
  <2> QED BY <1>2, <2>2, <2>3 DEF gs, n
<1>6. Says(hs, Append(evs, e))
  BY <1>2, <1>4, SaysPiece
<1>7. Current(hs, index + 1, block, text)
  <2>0. block # ""
    BY <1>1, Zenon
  <2>1. index + 1 # 0
    BY <1>1
  <2>2. (text # <<>>) <=> (block = "thinking")
    <3>1. <<e.data>> # <<>>
      OBVIOUS
    <3> QED BY <3>1
  <2> HIDE DEF hs, text, block
  <2> QED BY <1>5, <2>0, <2>1, <2>2, Zenon DEF Current
<1>8. closeCurrent \o <<started, delta>> \in Seq(Frames) /\ fs \o (closeCurrent \o <<started, delta>>) = hs
  <2>1. <<started, delta>> \in Seq(Frames) /\ cs \o <<started, delta>> = hs
    BY <1>2, <1>3, TwoAppends
  <2> DEFINE r == <<started, delta>>
  <2> HIDE DEF r, hs
  <2>2. r \in Seq(Frames) /\ cs \o r = hs
    BY <2>1 DEF r
  <2>3. closeCurrent \o r \in Seq(Frames)
    BY <1>3, <2>2, ConcatProperties
  <2>4. fs \o (closeCurrent \o r) = (fs \o closeCurrent) \o r
    <3> DEFINE c == closeCurrent
    <3>1. c \in Seq(Frames) /\ r \in Seq(Frames)
      BY <1>3, <2>2
    <3> HIDE DEF c
    <3>2. (fs \o c) \o r = fs \o (c \o r)
      BY <3>1
    <3> QED BY <3>2 DEF c
  <2> QED BY <2>2, <2>3, <2>4 DEF r, cs
<1>9. /\ closeCurrent \o <<started, delta>> \in Seq(Frames)
      /\ Says(fs \o (closeCurrent \o <<started, delta>>), Append(evs, e))
      /\ Current(fs \o (closeCurrent \o <<started, delta>>), index + 1, block, text)
  <2> HIDE DEF hs, text, block
  <2> QED BY <1>6, <1>7, <1>8
<1> QED BY <1>9 DEF started, delta, block, text

\* ... or in the current block.
LEMMA GoesOn ==
  ASSUME TypeOK, NEW fs \in Seq(Frames), Current(fs, index, current, thinking),
         NEW evs \in Seq(Event), Says(fs, evs), NEW e \in Pieces, current = BlockOf(e)
  PROVE  LET gs == <<BlockDelta(index - 1, current, e.data)>>
         IN  /\ gs \in Seq(Frames) /\ Says(fs \o gs, Append(evs, e))
             /\ Current(fs \o gs, index, current,
                        IF current = "thinking" THEN Append(thinking, e.data) ELSE <<>>)
<1> DEFINE m == index - 1
           delta == BlockDelta(m, current, e.data)
           text == IF current = "thinking" THEN Append(thinking, e.data) ELSE <<>>
<1>1. /\ index \in Nat /\ e.data \in Nat /\ current \in {"text", "thinking", "tool_use"}
      /\ thinking \in Seq(Nat)
  BY EventData DEF TypeOK, Pieces, BlockOf
<1>2. index # 0 /\ index - 1 \in Nat /\ Open(fs, index, current, thinking)
      /\ ((thinking # <<>>) <=> (current = "thinking"))
  <2>1. current # ""
    BY <1>1
  <2>2. index # 0 /\ Open(fs, index, current, thinking) /\ ((thinking # <<>>) <=> (current = "thinking"))
    BY <2>1 DEF Current
  <2> QED BY <1>1, <2>2
<1>3. /\ delta \in Frames /\ delta.frame = "content_block_delta" /\ delta.index = index - 1
      /\ delta.block = current /\ delta.data = <<e.data>>
  <2>1. m \in Nat /\ m = index - 1
    BY <1>2
  <2>2. current \in {"text", "thinking", "tool_use"} /\ e.data \in Nat
    BY <1>1
  <2> HIDE DEF m
  <2>3. \A d \in Nat, block \in {"text", "thinking", "tool_use"} :
            /\ BlockDelta(m, block, d) \in Frames /\ BlockDelta(m, block, d).frame = "content_block_delta"
            /\ BlockDelta(m, block, d).index = m /\ BlockDelta(m, block, d).block = block
            /\ BlockDelta(m, block, d).data = <<d>>
    BY <2>1, DeltaMade
  <2> QED BY <2>1, <2>2, <2>3
<1> HIDE DEF delta
<1>4. Open(Append(fs, delta), index, current, text)
  <2>1. Open(fs, index, delta.block, thinking)
    BY <1>2, <1>3
  <2>2. Open(Append(fs, delta), index, delta.block,
             IF delta.block = "thinking" THEN thinking \o delta.data ELSE thinking)
    BY <1>1, <1>3, <2>1, BodyShows
  <2>3. thinking \o <<e.data>> = Append(thinking, e.data)
    BY <1>1, AppendIsConcat
  <2> QED BY <1>2, <1>3, <2>2, <2>3
<1>5. Says(Append(fs, delta), Append(evs, e))
  BY <1>3, SaysPiece
<1>6. (text # <<>>) <=> (current = "thinking")
  <2>1. thinking \in Seq(Nat) /\ e.data \in Nat
    BY <1>1
  <2>2. \A s \in Seq(Nat), d \in Nat : Append(s, d) # <<>>
    BY Appended
  <2>3. Append(thinking, e.data) # <<>>
    BY <2>1, <2>2, Zenon
  <2> QED BY <2>3
<1> HIDE DEF text
<1>7. Current(Append(fs, delta), index, current, text)
  BY <1>1, <1>2, <1>4, <1>6 DEF Current
<1>8. <<delta>> \in Seq(Frames) /\ fs \o <<delta>> = Append(fs, delta)
  BY <1>3, AppendIsConcat
<1> QED BY <1>5, <1>7, <1>8 DEF delta, text

StopFrames == {f \in Frames : f.frame = "message_delta"}

\* The message ends as the buffered answer does.
StopsAs(fs, evs) ==
    Select(fs, StopFrames) =
        <<MessageDelta(stopReason(BuildCompletion(evs).finish_reason), BuildCompletion(evs).usage)>>

LEMMA NotSent ==
  ASSUME NEW fs \in Seq(Frames), NEW kind
  PROVE  Protocol!Sent(fs, kind) <=> \E i \in 1..Len(fs) : fs[i].frame = kind
<1>1. DOMAIN fs = 1..Len(fs)
  BY LenProperties
<1> QED BY <1>1 DEF Protocol!Sent, Protocol!FramesOf

LEMMA LastIsAppend ==
  ASSUME NEW fs \in Seq(Frames), NEW f \in Frames, ~Protocol!Sent(fs, f.frame)
  PROVE  LastIs(Append(fs, f), f.frame)
<1>1. /\ Len(fs) \in Nat /\ Len(Append(fs, f)) = Len(fs) + 1 /\ Append(fs, f)[Len(fs) + 1] = f
      /\ Append(fs, f) # <<>> /\ \A i \in 1..Len(fs) : Append(fs, f)[i] = fs[i]
  BY Appended
<1>2. \A i \in 1..Len(fs) : fs[i].frame # f.frame
  BY NotSent
<1>3. Len(fs) + 1 - 1 = Len(fs)
  BY <1>1
<1> QED BY <1>1, <1>2, <1>3 DEF LastIs

\* The frame that ends the body of a message.
LEMMA BodyEnds ==
  ASSUME NEW fs \in Seq(Frames), NEW n, Body(fs, n, n), NEW evs, Says(fs, evs),
         NEW f \in Frames, f.frame \in {"message_delta", "error"}
  PROVE  LET gs == Append(fs, f)
         IN  /\ gs \in Seq(Frames) /\ WellFormed(gs) /\ StoppedForGood(gs) /\ AllSealed(gs) /\ Says(gs, evs)
             /\ ~Protocol!Sent(gs, "message_stop") /\ LastIs(gs, f.frame)
             /\ f.frame = "message_delta" =>
                    Protocol!Sent(gs, "message_delta") /\ Select(gs, StopFrames) = <<f>>
<1> DEFINE gs == Append(fs, f)
<1>1. gs \in Seq(Frames)
  BY Appended
<1>2. \A kind : Protocol!Sent(gs, kind) <=> Protocol!Sent(fs, kind) \/ f.frame = kind
  BY ProtocolAppend
<1>3. ~Protocol!Sent(fs, "message_delta") /\ ~Protocol!Sent(fs, "error") /\ ~Protocol!Sent(fs, "message_stop")
  BY DEF Body, Protocol!InBody
<1>4. WellFormed(gs)
  <2>1. Protocol!May(fs, f)
    BY DEF Body, Protocol!May
  <2> QED BY <2>1, WellFormedAppend DEF Body
<1>5. StoppedForGood(gs)
  BY StoppedAppend DEF Body
<1>6. AllSealed(gs)
  <2>1. AllSealed(fs)
    BY BodySealed
  <2> QED BY <2>1, SealedAppend
<1>7. Says(gs, evs)
  BY SaysOther
<1>8. LastIs(gs, f.frame)
  BY <1>3, LastIsAppend
<1>9. ASSUME f.frame = "message_delta" PROVE Select(gs, StopFrames) = <<f>>
  <2>1. \A i \in 1..Len(fs) : fs[i] \notin StopFrames
    BY <1>3, NotSent DEF StopFrames
  <2>2. Select(fs, StopFrames) = <<>>
    BY <2>1, SelectNone
  <2>3. f \in StopFrames
    BY <1>9 DEF StopFrames
  <2>4. Select(gs, StopFrames) = Append(Select(fs, StopFrames), f)
    BY <2>3, SelectAppend
  <2> QED BY <2>2, <2>4
<1>10. ~Protocol!Sent(gs, "message_stop")
  BY <1>2, <1>3
<1>11. f.frame = "message_delta" => Protocol!Sent(gs, "message_delta")
  BY <1>2
<1> QED BY <1>1, <1>4, <1>5, <1>6, <1>7, <1>8, <1>9, <1>10, <1>11

\* What holds of the frames a client was sent, whether or not a write failed.
FramesCut(fs, evs) ==
    /\ AllSealed(fs) /\ IsPrefix(Joined(fs, Deltas), Said(evs))
    /\ HasFrame(fs, "message_stop") => Says(fs, evs) /\ StopsAs(fs, evs)

\* Over Messages: until the message ends, the blocks show the buffered answer to the
\* events so far; afterwards it also ends as that does, or by an error.
FrameIInv ==
    /\ WellFormed(whole) /\ StoppedForGood(whole)
    /\ phase = "reading" =>
        /\ Says(whole, events) /\ Current(whole, index, current, thinking)
        /\ \E reason \in {"stop", "tool_calls", "length"} :
                stop = stopReason(reason) /\ Undecided(reason, events, usage, sawTool)
    /\ phase = "closing" =>
        /\ Says(whole, events) /\ AllSealed(whole) /\ todo # <<>>
        /\ \/ ~HasFrame(whole, "message_stop")
           \/ LastIs(whole, "message_stop") /\ StopsAs(whole, events)
    /\ phase = "over" => todo = <<>> /\ FramesCut(out, events)

LEMMA FramesUncut ==
  ASSUME NEW fs \in Seq(Frames), NEW evs, AllSealed(fs), Says(fs, evs),
         HasFrame(fs, "message_stop") => StopsAs(fs, evs)
  PROVE  FramesCut(fs, evs)
<1>1. HasData(Frames, Seq(Nat))
  BY FrameData
<1>2. Joined(fs, Deltas) \in Seq(Nat)
  BY <1>1, JoinedType
<1>3. IsPrefix(Joined(fs, Deltas), Joined(fs, Deltas))
  BY <1>2, PrefixOfConcat
<1> QED BY <1>3 DEF FramesCut, Says

LEMMA PrefixIsFrameCut ==
  ASSUME NEW fs \in Seq(Frames), NEW gs \in Seq(Frames), gs # <<>>, NEW evs,
         AllSealed(fs \o gs), StoppedForGood(fs \o gs), Says(fs \o gs, evs),
         ~HasFrame(fs \o gs, "message_stop") \/ LastIs(fs \o gs, "message_stop")
  PROVE  FramesCut(fs, evs)
<1>1. AllSealed(fs)
  BY SealedOfPrefix
<1>2. ~HasFrame(fs, "message_stop")
  <2>1. /\ Len(fs) \in Nat /\ Len(gs) \in Nat /\ Len(gs) # 0 /\ Len(fs \o gs) = Len(fs) + Len(gs)
        /\ \A i \in 1..Len(fs) : i \in 1..Len(fs \o gs) /\ (fs \o gs)[i] = fs[i]
    BY ConcatAt
  <2>2. \A i \in 1..Len(fs) : i \in 1..(Len(fs \o gs) - 1)
    BY <2>1
  <2> QED BY <2>1, <2>2 DEF HasFrame, LastIs
<1>3. IsPrefix(Joined(fs, Deltas), Said(evs))
  <2>1. HasData(Frames, Seq(Nat))
    BY FrameData
  <2>2. Joined(fs, Deltas) \in Seq(Nat)
    BY <2>1, JoinedType
  <2>3. Joined(gs, Deltas) \in Seq(Nat)
    BY <2>1, JoinedType
  <2>4. Joined(fs \o gs, Deltas) = Joined(fs, Deltas) \o Joined(gs, Deltas)
    BY <2>1, JoinedConcat
  <2>5. Said(evs) = Joined(fs, Deltas) \o Joined(gs, Deltas)
    BY <2>4 DEF Says
  <2> QED BY <2>2, <2>3, <2>5, PrefixOfConcat
<1> QED BY <1>1, <1>2, <1>3 DEF FramesCut

\* Every step over Messages keeps the invariant: a delta first.
LEMMA PieceKeeps ==
  ASSUME TypeOK, FrameIInv, api = "anthropic", UNCHANGED <<api, openai>>,
         NEW e \in EventsAt(Len(events) + 1), Takes(e), e \in Pieces,
         UNCHANGED <<stop, usage, phase, out>>,
         sawTool' \in BOOLEAN, sawTool' <=> sawTool \/ e.type = "tool-call",
         \/ /\ current = BlockOf(e) /\ UNCHANGED <<index, current>>
            /\ todo' = <<BlockDelta(index - 1, current, e.data)>>
            /\ thinking' = IF current = "thinking" THEN Append(thinking, e.data) ELSE <<>>
         \/ /\ todo' = closeCurrent \o <<BlockStart(index, BlockOf(e)), BlockDelta(index, BlockOf(e), e.data)>>
            /\ index' = index + 1 /\ current' = BlockOf(e)
            /\ thinking' = IF BlockOf(e) = "thinking" THEN <<e.data>> ELSE <<>>
  PROVE  (TypeOK /\ FrameIInv)'
<1>1. /\ phase = "reading" /\ todo = <<>> /\ events' = Append(events, e) /\ events \in Seq(Event)
      /\ e \in Event /\ e.data \in Nat /\ events' \in Seq(Event) /\ whole = out
  BY TakesType DEF TypeOK
<1>2. out \in Seq(Frames)
  BY DEF TypeOK, Output
<1>3. Says(out, events) /\ Current(out, index, current, thinking)
  BY <1>1 DEF FrameIInv
<1>4. /\ todo' \in Seq(Frames) /\ Says(out \o todo', Append(events, e))
      /\ Current(out \o todo', index', current', thinking')
  <2>1. CASE /\ current = BlockOf(e) /\ UNCHANGED <<index, current>>
             /\ todo' = <<BlockDelta(index - 1, current, e.data)>>
             /\ thinking' = IF current = "thinking" THEN Append(thinking, e.data) ELSE <<>>
    <3> DEFINE gs == <<BlockDelta(index - 1, current, e.data)>>
    <3>1. /\ gs \in Seq(Frames) /\ Says(out \o gs, Append(events, e))
          /\ Current(out \o gs, index, current, IF current = "thinking" THEN Append(thinking, e.data) ELSE <<>>)
      BY <1>1, <1>2, <1>3, <2>1, GoesOn
    <3> HIDE DEF gs
    <3>2. todo' = gs /\ index' = index /\ current' = current
      BY <2>1 DEF gs
    <3>3. thinking' = IF current = "thinking" THEN Append(thinking, e.data) ELSE <<>>
      BY <2>1
    <3> QED BY <3>1, <3>2, <3>3
  <2>2. CASE /\ todo' = closeCurrent \o <<BlockStart(index, BlockOf(e)), BlockDelta(index, BlockOf(e), e.data)>>
             /\ index' = index + 1 /\ current' = BlockOf(e)
             /\ thinking' = IF BlockOf(e) = "thinking" THEN <<e.data>> ELSE <<>>
    <3> DEFINE gs == closeCurrent \o <<BlockStart(index, BlockOf(e)), BlockDelta(index, BlockOf(e), e.data)>>
    <3>1. /\ gs \in Seq(Frames) /\ Says(out \o gs, Append(events, e))
          /\ Current(out \o gs, index + 1, BlockOf(e), IF BlockOf(e) = "thinking" THEN <<e.data>> ELSE <<>>)
      BY <1>1, <1>2, <1>3, Opens
    <3> HIDE DEF gs
    <3>2. todo' = gs /\ index' = index + 1 /\ current' = BlockOf(e)
      BY <2>2 DEF gs
    <3>3. thinking' = IF BlockOf(e) = "thinking" THEN <<e.data>> ELSE <<>>
      BY <2>2
    <3> QED BY <3>1, <3>2, <3>3
  <2> QED BY <2>1, <2>2
<1>5. /\ whole' = out \o todo' /\ whole' \in Seq(Frames)
  BY <1>2, <1>4, ConcatProperties DEF whole
<1>6. WellFormed(whole') /\ StoppedForGood(whole')
  BY <1>4, <1>5, CurrentSealed
<1>7. PICK reason \in {"stop", "tool_calls", "length"} :
        stop = stopReason(reason) /\ Undecided(reason, events, usage, sawTool)
  BY <1>1 DEF FrameIInv
<1>8. Undecided(reason, events', usage, sawTool')
  <2>1. e.type \notin {"error", "finish"} /\ sawTool \in BOOLEAN
    BY DEF TypeOK, Pieces
  <2>2. IF e.type = "tool-call" THEN Undecided(reason, events', usage, TRUE)
                                ELSE Undecided(reason, events', usage, sawTool)
    BY <1>1, <1>7, <2>1, UndecidedAppend
  <2> QED BY <2>2 DEF Undecided
<1>9. TypeOK'
  <2>1. index' \in Nat
    <3>1. index' = index \/ index' = index + 1
      OBVIOUS
    <3>2. index \in Nat
      BY DEF TypeOK
    <3>3. \A k \in Nat : k + 1 \in Nat
      OBVIOUS
    <3> QED BY <3>1, <3>2, <3>3, Zenon
  <2>2. current' \in {"", "text", "thinking", "tool_use"}
    <3>1. current' = current \/ current' = BlockOf(e)
      OBVIOUS
    <3>2. current \in {"", "text", "thinking", "tool_use"}
      BY DEF TypeOK
    <3>3. BlockOf(e) \in {"", "text", "thinking", "tool_use"}
      BY Zenon DEF BlockOf
    <3> QED BY <3>1, <3>2, <3>3, Zenon
  <2>3. thinking' \in Seq(Nat)
    <3>1. thinking \in Seq(Nat)
      BY DEF TypeOK
    <3>2. <<e.data>> \in Seq(Nat) /\ <<>> \in Seq(Nat)
      BY <1>1, EmptySeq
    <3>3. Append(thinking, e.data) \in Seq(Nat)
      BY <1>1, <3>1, Appended
    <3>4. \/ thinking' = Append(thinking, e.data) \/ thinking' = <<>> \/ thinking' = <<e.data>>
      OBVIOUS
    <3> QED BY <3>2, <3>3, <3>4, Zenon
  <2>4. Output' = Frames /\ out' = out
    BY DEF Output
  <2> QED BY <1>1, <1>2, <1>4, <2>1, <2>2, <2>3, <2>4 DEF TypeOK, openai
<1>10. FrameIInv'
  <2>1. phase' = "reading" /\ stop' = stop /\ usage' = usage
    BY <1>1
  <2>2. Says(whole', events') /\ Current(whole', index', current', thinking')
    BY <1>1, <1>4, <1>5
  <2>3. \E r \in {"stop", "tool_calls", "length"} :
            stop' = stopReason(r) /\ Undecided(r, events', usage', sawTool')
    BY <1>7, <1>8, <2>1
  <2> QED BY <1>6, <2>1, <2>2, <2>3 DEF FrameIInv
<1> QED BY <1>9, <1>10

\* A piece that shows nothing, and an event of another kind.
LEMMA SilentKeeps ==
  ASSUME TypeOK, FrameIInv, api = "anthropic",
         NEW e \in EventsAt(Len(events) + 1), Takes(e), Silent(e), e.type \notin {"finish", "error"},
         UNCHANGED <<api, openai, anthropic, sawTool, usage, phase, todo, out>>
  PROVE  (TypeOK /\ FrameIInv)'
<1>1. /\ phase = "reading" /\ todo = <<>> /\ events' = Append(events, e) /\ events \in Seq(Event)
      /\ e \in Event /\ events' \in Seq(Event) /\ whole = out /\ whole' = whole
  BY TakesType DEF TypeOK, whole
<1>2. Says(whole', events')
  <2>1. Says(whole, events)
    BY <1>1 DEF FrameIInv
  <2> QED BY <1>1, <2>1, SaysSilent
<1>3. PICK reason \in {"stop", "tool_calls", "length"} :
        stop = stopReason(reason) /\ Undecided(reason, events, usage, sawTool)
  BY <1>1 DEF FrameIInv
<1>4. Undecided(reason, events', usage, sawTool)
  <2>1. sawTool \in BOOLEAN /\ e.type \notin {"error", "finish", "tool-call"}
    BY DEF TypeOK, Silent
  <2> QED BY <1>1, <1>3, <2>1, UndecidedAppend
<1>5. TypeOK'
  BY <1>1 DEF TypeOK, Output, openai, anthropic
<1>6. FrameIInv'
  <2>1. UNCHANGED <<index, current, thinking, stop, usage, sawTool>> /\ phase' = "reading"
    BY <1>1 DEF anthropic
  <2>2. WellFormed(whole') /\ StoppedForGood(whole')
    BY <1>1 DEF FrameIInv
  <2>3. Current(whole', index', current', thinking')
    BY <1>1, <2>1 DEF FrameIInv
  <2>4. \E r \in {"stop", "tool_calls", "length"} :
            stop' = stopReason(r) /\ Undecided(r, events', usage', sawTool')
    BY <1>3, <1>4, <2>1
  <2> QED BY <1>2, <2>1, <2>2, <2>3, <2>4 DEF FrameIInv
<1> QED BY <1>5, <1>6

LEMMA FrameText ==
  ASSUME TypeOK, FrameIInv, api = "anthropic", MessageOnText, UNCHANGED <<api, openai>>
  PROVE  (TypeOK /\ FrameIInv)'
<1>1. PICK e \in EventsAt(Len(events) + 1) :
        /\ e.type = "text-delta" /\ Takes(e)
        /\ IF e.data = 0 THEN UNCHANGED <<index, current, thinking, todo>>
           ELSE /\ Continue("text", e.data)
                /\ thinking' = IF current = "thinking" THEN <<>> ELSE thinking
        /\ UNCHANGED <<stop, sawTool, usage, phase, out>>
  BY DEF MessageOnText
<1>2. CASE e.data = 0
  <2>1. Silent(e) /\ e.type \notin {"finish", "error"}
    BY <1>1, <1>2 DEF Silent
  <2>2. UNCHANGED <<api, openai, anthropic, sawTool, usage, phase, todo, out>>
    BY <1>1, <1>2 DEF anthropic
  <2> QED BY <1>1, <2>1, <2>2, SilentKeeps
<1>3. CASE e.data # 0
  <2>1. e \in Pieces /\ BlockOf(e) = "text"
    <3>1. e \in Event
      BY <1>1, TakesType
    <3> QED BY <1>1, <1>3, <3>1 DEF Pieces, BlockOf
  <2>2. thinking' = <<>>
    <3>1. thinking # <<>> <=> current = "thinking"
      BY <1>1, TakesType DEF FrameIInv, Current
    <3> QED BY <1>1, <1>3, <3>1
  <2>3. sawTool' \in BOOLEAN /\ (sawTool' <=> sawTool \/ e.type = "tool-call")
    BY <1>1 DEF TypeOK
  <2>4. UNCHANGED <<stop, usage, phase, out>>
    BY <1>1
  <2>5. CASE current = "text"
    <3>1. /\ current = BlockOf(e) /\ UNCHANGED <<index, current>>
          /\ todo' = <<BlockDelta(index - 1, current, e.data)>>
          /\ thinking' = IF current = "thinking" THEN Append(thinking, e.data) ELSE <<>>
      BY <1>1, <1>3, <2>1, <2>2, <2>5 DEF Continue
    <3> QED BY <1>1, <2>1, <2>3, <2>4, <3>1, PieceKeeps
  <2>6. CASE current # "text"
    <3>1. /\ todo' = closeCurrent \o <<BlockStart(index, BlockOf(e)), BlockDelta(index, BlockOf(e), e.data)>>
          /\ index' = index + 1 /\ current' = BlockOf(e)
          /\ thinking' = IF BlockOf(e) = "thinking" THEN <<e.data>> ELSE <<>>
      BY <1>1, <1>3, <2>1, <2>2, <2>6 DEF Continue
    <3> QED BY <1>1, <2>1, <2>3, <2>4, <3>1, PieceKeeps
  <2> QED BY <2>5, <2>6
<1> QED BY <1>2, <1>3

LEMMA FrameReasoning ==
  ASSUME TypeOK, FrameIInv, api = "anthropic", MessageOnReasoning, UNCHANGED <<api, openai>>
  PROVE  (TypeOK /\ FrameIInv)'
<1>1. PICK e \in EventsAt(Len(events) + 1) :
        /\ e.type = "reasoning-delta" /\ Takes(e)
        /\ IF e.data = 0 THEN UNCHANGED <<index, current, thinking, todo>>
           ELSE /\ Continue("thinking", e.data)
                /\ thinking' = Append(thinking, e.data)
        /\ UNCHANGED <<stop, sawTool, usage, phase, out>>
  BY DEF MessageOnReasoning
<1>2. CASE e.data = 0
  <2>1. Silent(e) /\ e.type \notin {"finish", "error"}
    BY <1>1, <1>2 DEF Silent
  <2>2. UNCHANGED <<api, openai, anthropic, sawTool, usage, phase, todo, out>>
    BY <1>1, <1>2 DEF anthropic
  <2> QED BY <1>1, <2>1, <2>2, SilentKeeps
<1>3. CASE e.data # 0
  <2>1. e \in Pieces /\ BlockOf(e) = "thinking"
    <3>1. e \in Event
      BY <1>1, TakesType
    <3> QED BY <1>1, <1>3, <3>1 DEF Pieces, BlockOf
  <2>2. thinking # <<>> <=> current = "thinking"
    BY <1>1, TakesType DEF FrameIInv, Current
  <2>3. sawTool' \in BOOLEAN /\ (sawTool' <=> sawTool \/ e.type = "tool-call")
    BY <1>1 DEF TypeOK
  <2>4. UNCHANGED <<stop, usage, phase, out>>
    BY <1>1
  <2>5. CASE current = "thinking"
    <3>1. /\ current = BlockOf(e) /\ UNCHANGED <<index, current>>
          /\ todo' = <<BlockDelta(index - 1, current, e.data)>>
          /\ thinking' = IF current = "thinking" THEN Append(thinking, e.data) ELSE <<>>
      BY <1>1, <1>3, <2>1, <2>5 DEF Continue
    <3> QED BY <1>1, <2>1, <2>3, <2>4, <3>1, PieceKeeps
  <2>6. CASE current # "thinking"
    <3>1. thinking = <<>> /\ Append(<<>>, e.data) = <<e.data>>
      BY <2>2, <2>6
    <3>2. /\ todo' = closeCurrent \o <<BlockStart(index, BlockOf(e)), BlockDelta(index, BlockOf(e), e.data)>>
          /\ index' = index + 1 /\ current' = BlockOf(e)
          /\ thinking' = IF BlockOf(e) = "thinking" THEN <<e.data>> ELSE <<>>
      BY <1>1, <1>3, <2>1, <2>6, <3>1 DEF Continue
    <3> QED BY <1>1, <2>1, <2>3, <2>4, <3>2, PieceKeeps
  <2> QED BY <2>5, <2>6
<1> QED BY <1>2, <1>3

LEMMA FrameToolCall ==
  ASSUME TypeOK, FrameIInv, api = "anthropic", MessageOnToolCall, UNCHANGED <<api, openai>>
  PROVE  (TypeOK /\ FrameIInv)'
<1>1. PICK e \in EventsAt(Len(events) + 1) :
        /\ e.type = "tool-call" /\ Takes(e)
        /\ todo' = closeCurrent \o <<BlockStart(index, "tool_use"),
                                     BlockDelta(index, "tool_use", e.data)>>
        /\ index' = index + 1 /\ current' = "tool_use" /\ sawTool' = TRUE
        /\ thinking' = IF current = "thinking" THEN <<>> ELSE thinking
        /\ UNCHANGED <<stop, usage, phase, out>>
  BY DEF MessageOnToolCall
<1>2. e \in Pieces /\ BlockOf(e) = "tool_use"
  <2>1. e \in Event /\ e.data # 0
    BY <1>1, TakesType
  <2> QED BY <1>1, <2>1 DEF Pieces, BlockOf
<1>3. thinking' = <<>>
  <2>1. thinking # <<>> <=> current = "thinking"
    BY <1>1, TakesType DEF FrameIInv, Current
  <2> QED BY <1>1, <2>1
<1>4. sawTool' \in BOOLEAN /\ (sawTool' <=> sawTool \/ e.type = "tool-call")
  BY <1>1
<1>5. /\ todo' = closeCurrent \o <<BlockStart(index, BlockOf(e)), BlockDelta(index, BlockOf(e), e.data)>>
      /\ index' = index + 1 /\ current' = BlockOf(e)
      /\ thinking' = IF BlockOf(e) = "thinking" THEN <<e.data>> ELSE <<>>
  BY <1>1, <1>2, <1>3
<1> QED BY <1>1, <1>2, <1>4, <1>5, PieceKeeps

LEMMA FrameFinish ==
  ASSUME TypeOK, FrameIInv, api = "anthropic", MessageOnFinish, UNCHANGED <<api, openai>>
  PROVE  (TypeOK /\ FrameIInv)'
<1>1. PICK e \in EventsAt(Len(events) + 1) :
        /\ e.type = "finish" /\ Takes(e)
        /\ stop' = stopReason(MapFinishReason(e.reason)) /\ usage' = e.data
        /\ UNCHANGED <<index, current, thinking, sawTool, phase, todo, out>>
  BY DEF MessageOnFinish
<1>2. /\ phase = "reading" /\ todo = <<>> /\ events' = Append(events, e) /\ events \in Seq(Event)
      /\ e \in Event /\ e.data \in Nat /\ events' \in Seq(Event) /\ whole = out
      /\ MapFinishReason(e.reason) \in {"stop", "tool_calls", "length"}
  BY <1>1, TakesType DEF TypeOK
<1>3. whole' = whole /\ phase' = "reading"
  BY <1>1, <1>2 DEF whole
<1>4. Says(whole', events')
  <2>1. Says(whole, events) /\ Silent(e)
    BY <1>1, <1>2 DEF FrameIInv, Silent
  <2> QED BY <1>2, <1>3, <2>1, SaysSilent
<1>5. Undecided(MapFinishReason(e.reason), events', usage', sawTool')
  <2>1. PICK reason : Undecided(reason, events, usage, sawTool)
    BY <1>2 DEF FrameIInv
  <2>2. sawTool \in BOOLEAN /\ e.type # "error"
    BY <1>1 DEF TypeOK
  <2> QED BY <1>1, <1>2, <2>1, <2>2, UndecidedAppend
<1>6. TypeOK'
  <2>1. stop' \in {"end_turn", "tool_use", "max_tokens"}
    BY <1>1 DEF stopReason
  <2> QED BY <1>1, <1>2, <2>1 DEF TypeOK, Output, openai
<1>7. FrameIInv'
  <2>1. WellFormed(whole') /\ StoppedForGood(whole')
    BY <1>3 DEF FrameIInv
  <2>2. Current(whole', index', current', thinking')
    BY <1>1, <1>2, <1>3 DEF FrameIInv
  <2>3. \E r \in {"stop", "tool_calls", "length"} :
            stop' = stopReason(r) /\ Undecided(r, events', usage', sawTool')
    BY <1>1, <1>2, <1>5
  <2> QED BY <1>3, <1>4, <2>1, <2>2, <2>3 DEF FrameIInv
<1> QED BY <1>6, <1>7

LEMMA FrameOther ==
  ASSUME TypeOK, FrameIInv, api = "anthropic", OnOther, UNCHANGED <<api, openai, anthropic>>
  PROVE  (TypeOK /\ FrameIInv)'
<1>1. PICK e \in EventsAt(Len(events) + 1) :
        /\ e.type = "start" /\ Takes(e)
        /\ UNCHANGED <<sawTool, usage, phase, todo, out>>
  BY DEF OnOther
<1>2. Silent(e) /\ e.type \notin {"finish", "error"}
  BY <1>1 DEF Silent
<1> QED BY <1>1, <1>2, SilentKeeps

\* An error ends the message after the block that is current.
LEMMA FrameError ==
  ASSUME TypeOK, FrameIInv, api = "anthropic", MessageOnError, UNCHANGED <<api, openai>>
  PROVE  (TypeOK /\ FrameIInv)'
<1>1. PICK e \in EventsAt(Len(events) + 1) :
        /\ e.type = "error" /\ Takes(e)
        /\ todo' = Append(closeCurrent, ErrorFrame) /\ phase' = "closing"
        /\ UNCHANGED <<anthropic, sawTool, usage, out>>
  BY DEF MessageOnError
<1>2. /\ phase = "reading" /\ events' = Append(events, e) /\ events \in Seq(Event)
      /\ e \in Event /\ events' \in Seq(Event) /\ whole = out /\ out \in Seq(Frames)
  BY <1>1, TakesType DEF TypeOK, Output
<1>3. Says(out, events) /\ Current(out, index, current, thinking)
  BY <1>2 DEF FrameIInv
<1> DEFINE c == closeCurrent
           gs == Append(out \o c, ErrorFrame)
<1>4. Says(out, events') /\ ErrorFrame \in Frames /\ ErrorFrame.frame = "error"
  <2>1. Silent(e)
    BY <1>1 DEF Silent
  <2> QED BY <1>2, <1>3, <2>1, SaysSilent, FramesMade
<1>5. /\ c \in Seq(Frames) /\ out \o c \in Seq(Frames)
      /\ Body(out \o c, index, index) /\ Says(out \o c, events')
  BY <1>2, <1>3, <1>4, Closes
<1> HIDE DEF c
<1>6. /\ gs \in Seq(Frames) /\ WellFormed(gs) /\ StoppedForGood(gs) /\ AllSealed(gs) /\ Says(gs, events')
      /\ ~Protocol!Sent(gs, "message_stop")
  BY <1>4, <1>5, BodyEnds
<1>7. todo' = Append(c, ErrorFrame) /\ todo' \in Seq(Frames) /\ todo' # <<>> /\ whole' = gs
  <2>1. todo' = Append(c, ErrorFrame) /\ whole' = out \o Append(c, ErrorFrame)
    BY <1>1 DEF whole, c
  <2>2. Append(c, ErrorFrame) \in Seq(Frames) /\ Append(c, ErrorFrame) # <<>>
    BY <1>4, <1>5, Appended
  <2>3. out \o Append(c, ErrorFrame) = gs
    BY <1>2, <1>4, <1>5
  <2> QED BY <2>1, <2>2, <2>3
<1> HIDE DEF gs
<1>8. ~HasFrame(gs, "message_stop")
  BY <1>6, NotSent DEF HasFrame
<1>9. TypeOK'
  BY <1>1, <1>2, <1>7 DEF TypeOK, Output, openai, anthropic
<1>10. FrameIInv'
  BY <1>1, <1>6, <1>7, <1>8 DEF FrameIInv
<1> QED BY <1>9, <1>10

\* The stop reason of the stream is the one of the buffered answer.
LEMMA StopReason ==
  ASSUME NEW reason \in {"stop", "tool_calls", "length"}, NEW evs, NEW u, NEW tool \in BOOLEAN,
         Undecided(reason, evs, u, tool)
  PROVE  /\ stopReason(BuildCompletion(evs).finish_reason) =
                IF tool /\ stopReason(reason) = "end_turn" THEN "tool_use" ELSE stopReason(reason)
         /\ BuildCompletion(evs).usage = u
         /\ stopReason(BuildCompletion(evs).finish_reason) \in {"end_turn", "tool_use", "max_tokens"}
<1>1. /\ BuildCompletion(evs).finish_reason =
            IF tool /\ reason = "stop" THEN "tool_calls" ELSE reason
      /\ BuildCompletion(evs).usage = u
  BY BuildFields DEF Undecided
<1>2. stopReason(reason) = "end_turn" <=> reason = "stop"
  BY DEF stopReason
<1>3. stopReason("tool_calls") = "tool_use"
  BY DEF stopReason
<1>4. \A r : stopReason(r) \in {"end_turn", "tool_use", "max_tokens"}
  BY DEF stopReason
<1> QED BY <1>1, <1>2, <1>3, <1>4

\* message_stop, after the message_delta that ends the body.
LEMMA Stops ==
  ASSUME NEW fs \in Seq(Frames), NEW evs, WellFormed(fs), StoppedForGood(fs), AllSealed(fs), Says(fs, evs),
         Protocol!Sent(fs, "message_delta"), ~Protocol!Sent(fs, "message_stop")
  PROVE  LET gs == Append(fs, MessageStop)
         IN  /\ gs \in Seq(Frames) /\ WellFormed(gs) /\ StoppedForGood(gs) /\ AllSealed(gs) /\ Says(gs, evs)
             /\ LastIs(gs, "message_stop") /\ Select(gs, StopFrames) = Select(fs, StopFrames)
<1> DEFINE f == MessageStop
           gs == Append(fs, f)
<1>1. f \in Frames /\ f.frame = "message_stop"
  BY FramesMade
<1> HIDE DEF f
<1>2. gs \in Seq(Frames)
  BY <1>1, Appended
<1>3. WellFormed(gs)
  <2>1. Protocol!May(fs, f)
    BY <1>1 DEF Protocol!May
  <2> QED BY <1>1, <2>1, WellFormedAppend
<1>4. StoppedForGood(gs)
  BY <1>1, StoppedAppend
<1>5. AllSealed(gs)
  BY <1>1, SealedAppend
<1>6. Says(gs, evs)
  BY <1>1, SaysOther
<1>7. LastIs(gs, "message_stop")
  BY <1>1, LastIsAppend
<1>8. Select(gs, StopFrames) = Select(fs, StopFrames)
  <2>1. f \notin StopFrames
    BY <1>1 DEF StopFrames
  <2> QED BY <1>1, <2>1, SelectAppend
<1> QED BY <1>2, <1>3, <1>4, <1>5, <1>6, <1>7, <1>8 DEF f

LEMMA FrameEnds ==
  ASSUME TypeOK, FrameIInv, api = "anthropic", Ends(Closing), UNCHANGED <<api, openai, anthropic>>
  PROVE  (TypeOK /\ FrameIInv)'
<1>1. /\ phase = "reading" /\ todo = <<>> /\ todo' = Closing /\ phase' = "closing"
      /\ UNCHANGED <<events, sawTool, usage, out>>
  BY DEF Ends
<1>2. out \in Seq(Frames) /\ usage \in Nat /\ events \in Seq(Event) /\ sawTool \in BOOLEAN
  BY DEF TypeOK, Output
<1>3. whole = out
  BY <1>1, <1>2, ConcatEmptySeq DEF whole
<1>4. Says(out, events) /\ Current(out, index, current, thinking)
  BY <1>1, <1>3 DEF FrameIInv
<1>5. PICK reason \in {"stop", "tool_calls", "length"} :
        stop = stopReason(reason) /\ Undecided(reason, events, usage, sawTool)
  BY <1>1 DEF FrameIInv
<1> DEFINE c == closeCurrent
           s == IF sawTool /\ stop = "end_turn" THEN "tool_use" ELSE stop
           f == MessageDelta(s, usage)
           hs == Append(out \o c, f)
           gs == Append(hs, MessageStop)
<1>6. /\ s = stopReason(BuildCompletion(events).finish_reason) /\ usage = BuildCompletion(events).usage
      /\ s \in {"end_turn", "tool_use", "max_tokens"}
  BY <1>2, <1>5, StopReason
<1> HIDE DEF s
<1>7. f \in Frames /\ f.frame = "message_delta" /\ MessageStop \in Frames
  BY <1>2, <1>6, FramesMade
<1>8. f = MessageDelta(stopReason(BuildCompletion(events).finish_reason), BuildCompletion(events).usage)
  BY <1>6
<1> HIDE DEF f
<1>9. /\ c \in Seq(Frames) /\ out \o c \in Seq(Frames)
      /\ Body(out \o c, index, index) /\ Says(out \o c, events)
  BY <1>2, <1>4, Closes
<1> HIDE DEF c
<1>10. /\ hs \in Seq(Frames) /\ WellFormed(hs) /\ StoppedForGood(hs) /\ AllSealed(hs) /\ Says(hs, events)
       /\ Protocol!Sent(hs, "message_delta") /\ ~Protocol!Sent(hs, "message_stop") /\ Select(hs, StopFrames) = <<f>>
  BY <1>7, <1>9, BodyEnds
<1>11. todo' \in Seq(Frames) /\ todo' # <<>> /\ whole' = gs
  <2>1. todo' = c \o <<f, MessageStop>> /\ whole' = out \o (c \o <<f, MessageStop>>)
    BY <1>1 DEF Closing, whole, c, f, s
  <2>2. /\ <<f, MessageStop>> \in Seq(Frames)
        /\ (out \o c) \o <<f, MessageStop>> = gs
    BY <1>7, <1>9, TwoAppends
  <2>3. out \o (c \o <<f, MessageStop>>) = (out \o c) \o <<f, MessageStop>>
    BY <1>2, <1>9, <2>2
  <2>4. c \o <<f, MessageStop>> \in Seq(Frames) /\ c \o <<f, MessageStop>> # <<>>
    BY <1>9, <2>2, ConcatProperties, LenProperties
  <2> QED BY <2>1, <2>2, <2>3, <2>4
<1> HIDE DEF hs
<1>12. /\ WellFormed(gs) /\ StoppedForGood(gs) /\ AllSealed(gs) /\ Says(gs, events)
       /\ LastIs(gs, "message_stop") /\ Select(gs, StopFrames) = <<f>>
  BY <1>10, Stops
<1> HIDE DEF gs
<1>13. StopsAs(gs, events)
  BY <1>8, <1>12 DEF StopsAs
<1>14. TypeOK'
  BY <1>1, <1>2, <1>11 DEF TypeOK, Output, openai, anthropic
<1>15. FrameIInv'
  BY <1>1, <1>11, <1>12, <1>13 DEF FrameIInv
<1> QED BY <1>14, <1>15

LEMMA FrameEmit ==
  ASSUME TypeOK, FrameIInv, api = "anthropic", Emit, UNCHANGED <<api, openai, anthropic>>
  PROVE  (TypeOK /\ FrameIInv)'
<1>1. /\ TypeOK' /\ whole' = whole /\ (todo' = <<>> => out' = whole)
      /\ phase' = IF phase = "closing" /\ todo' = <<>> THEN "over" ELSE phase
      /\ UNCHANGED <<events, sawTool, usage>>
  BY EmitKeeps
<1>2. todo # <<>> /\ WellFormed(whole') /\ StoppedForGood(whole')
  BY <1>1 DEF Emit, FrameIInv
<1>3. CASE phase = "closing" /\ todo' = <<>>
  <2>1. /\ Says(out', events') /\ AllSealed(out')
        /\ \/ ~HasFrame(out', "message_stop")
           \/ LastIs(out', "message_stop") /\ StopsAs(out', events')
    BY <1>1, <1>3 DEF FrameIInv
  <2>2. out' \in Seq(Frames)
    BY <1>1 DEF TypeOK, Output
  <2>3. FramesCut(out', events')
    BY <2>1, <2>2, FramesUncut
  <2> QED BY <1>1, <1>2, <1>3, <2>3 DEF FrameIInv
<1>4. CASE ~(phase = "closing" /\ todo' = <<>>)
  <2>1. phase' = phase /\ phase # "over"
    BY <1>1, <1>2, <1>4 DEF FrameIInv
  <2>2. UNCHANGED <<index, current, thinking, stop>>
    BY DEF anthropic
  <2> QED BY <1>1, <1>2, <1>4, <2>1, <2>2 DEF FrameIInv
<1> QED BY <1>1, <1>3, <1>4

LEMMA FrameEmitFails ==
  ASSUME TypeOK, FrameIInv, api = "anthropic", EmitFails, UNCHANGED <<api, openai, anthropic>>
  PROVE  (TypeOK /\ FrameIInv)'
<1>1. /\ TypeOK' /\ todo # <<>> /\ todo' = <<>> /\ phase' = "over"
      /\ out' = out /\ whole' = out /\ UNCHANGED <<events, sawTool, usage>>
  BY EmitFailsKeeps
<1>2. out \in Seq(Frames) /\ todo \in Seq(Frames) /\ phase # "over"
  BY <1>1 DEF TypeOK, Output, FrameIInv
<1>3. WellFormed(out \o todo) /\ StoppedForGood(out \o todo)
  BY DEF FrameIInv, whole
<1>4. WellFormed(out) /\ StoppedForGood(out)
  BY <1>2, <1>3, WellFormedPrefix
<1>5. /\ Says(whole, events) /\ AllSealed(whole)
      /\ ~HasFrame(whole, "message_stop") \/ LastIs(whole, "message_stop")
  <2>1. CASE phase = "reading"
    <3>1. Says(whole, events) /\ Current(whole, index, current, thinking)
      BY <2>1 DEF FrameIInv
    <3>2. whole \in Seq(Frames)
      BY <1>2, ConcatProperties DEF whole
    <3> QED BY <3>1, <3>2, CurrentSealed
  <2>2. CASE phase = "closing"
    BY <2>2 DEF FrameIInv
  <2> QED BY <1>2, <2>1, <2>2 DEF TypeOK
<1>6. FramesCut(out, events)
  BY <1>1, <1>2, <1>3, <1>5, PrefixIsFrameCut DEF whole
<1>7. FrameIInv'
  BY <1>1, <1>4, <1>6 DEF FrameIInv
<1> QED BY <1>1, <1>7

LEMMA FrameInit == Init /\ api = "anthropic" => TypeOK /\ FrameIInv
<1> SUFFICES ASSUME Init, api = "anthropic" PROVE TypeOK /\ FrameIInv
  OBVIOUS
<1>1. /\ events = <<>> /\ sawTool = FALSE /\ usage = 0 /\ phase = "reading" /\ out = <<>>
      /\ todo = <<MessageStart>> /\ toolIndex = 0 /\ finishReason = "stop" /\ includeUsage = FALSE
      /\ index = 0 /\ current = "" /\ thinking = <<>> /\ stop = "end_turn"
  BY DEF Init, MessageInit, TurnInit
<1>2. /\ <<>> \in Seq(Frames) /\ <<>> \in Seq(Event) /\ <<>> \in Seq(Nat)
  BY EmptySeq
<1> DEFINE f == MessageStart
           fs == Append(<<>>, f)
<1>3. f \in Frames /\ f.frame = "message_start"
  BY FramesMade
<1> HIDE DEF f
<1>4. fs = <<f>> /\ fs \in Seq(Frames) /\ whole = fs
  <2>1. fs = <<f>> /\ fs \in Seq(Frames)
    BY <1>3
  <2>2. whole = fs
    BY <1>1, <2>1, ConcatEmptySeq DEF whole, f
  <2> QED BY <2>1, <2>2
<1>5. TypeOK
  BY <1>1, <1>2, <1>4 DEF TypeOK, Output, f
<1>6. /\ \A kind : ~Protocol!Sent(<<>>, kind) /\ Protocol!Started(<<>>) = {} /\ Protocol!Stopped(<<>>) = {}
      /\ WellFormed(<<>>) /\ StoppedForGood(<<>>)
      /\ \A k : ThinkingOf(<<>>, k) = <<>> /\ SignedOver(<<>>, k) = <<>>
  <2>1. \A kind : Protocol!FramesOf(<<>>, kind) = {}
    BY DEF Protocol!FramesOf
  <2>2. \A kind : ~Protocol!Sent(<<>>, kind) /\ Protocol!Started(<<>>) = {} /\ Protocol!Stopped(<<>>) = {}
    BY <2>1 DEF Protocol!Sent, Protocol!Started, Protocol!Stopped
  <2>3. WellFormed(<<>>) /\ StoppedForGood(<<>>)
    BY DEF WellFormed, StoppedForGood
  <2>4. \A k : ThinkingOf(<<>>, k) = <<>> /\ SignedOver(<<>>, k) = <<>>
    BY JoinedEmpty, SelectEmpty, DataEmpty DEF ThinkingOf, SignedOver
  <2> QED BY <2>2, <2>3, <2>4
<1>7. /\ \A kind : Protocol!Sent(fs, kind) <=> kind = "message_start"
      /\ Protocol!Started(fs) = {} /\ Protocol!Stopped(fs) = {}
  <2>1. \A kind : Protocol!Sent(fs, kind) <=> Protocol!Sent(<<>>, kind) \/ f.frame = kind
    BY <1>2, <1>3, ProtocolAppend
  <2>2. Protocol!Started(fs) = Protocol!Started(<<>>) \cup {} /\ Protocol!Stopped(fs) = Protocol!Stopped(<<>>) \cup {}
    BY <1>2, <1>3, ProtocolAppend
  <2> QED BY <1>3, <1>6, <2>1, <2>2
<1>8. WellFormed(fs) /\ StoppedForGood(fs)
  <2>1. Protocol!May(<<>>, f)
    BY <1>3 DEF Protocol!May
  <2>2. WellFormed(fs)
    BY <1>2, <1>3, <1>6, <2>1, WellFormedAppend
  <2>3. StoppedForGood(fs)
    BY <1>2, <1>3, <1>6, StoppedAppend
  <2> QED BY <2>2, <2>3
<1>9. \A k : ThinkingOf(fs, k) = <<>> /\ SignedOver(fs, k) = <<>>
  BY <1>2, <1>3, <1>6, ContentKept
<1> HIDE DEF fs
<1>10. Body(fs, 0, 0)
  <2>1. {k \in Nat : k < 0} = {} /\ \A k \in Nat : ~(k < 0)
    OBVIOUS
  <2> QED BY <1>7, <1>8, <1>9, <2>1 DEF Body, Protocol!InBody
<1>11. Current(fs, 0, "", <<>>)
  BY <1>10 DEF Current
<1>12. Says(fs, <<>>)
  <2>1. Says(<<>>, <<>>)
    BY NothingSaid, JoinedEmpty DEF Says
  <2> QED BY <1>2, <1>3, <2>1, SaysOther DEF fs
<1>13. Undecided("stop", <<>>, 0, FALSE) /\ stop = stopReason("stop")
  <2>1. Undecided("stop", <<>>, 0, FALSE)
    BY NothingSaid DEF Undecided
  <2>2. stopReason("stop") = "end_turn"
    BY DEF stopReason
  <2> QED BY <1>1, <2>1, <2>2
<1>14. FrameIInv
  BY <1>1, <1>4, <1>8, <1>11, <1>12, <1>13 DEF FrameIInv
<1> QED BY <1>5, <1>14

LEMMA FrameNext ==
  ASSUME TypeOK, FrameIInv, api = "anthropic", MessageNext, UNCHANGED <<api, openai>>
  PROVE  (TypeOK /\ FrameIInv)'
<1>1. CASE MessageOnText
  BY <1>1, FrameText
<1>2. CASE MessageOnReasoning
  BY <1>2, FrameReasoning
<1>3. CASE MessageOnToolCall
  BY <1>3, FrameToolCall
<1>4. CASE MessageOnFinish
  BY <1>4, FrameFinish
<1>5. CASE MessageOnError
  BY <1>5, FrameError
<1>6. CASE OnOther /\ UNCHANGED anthropic
  BY <1>6, FrameOther
<1>7. CASE Ends(Closing) /\ UNCHANGED anthropic
  BY <1>7, FrameEnds
<1>8. CASE Emit /\ UNCHANGED anthropic
  BY <1>8, FrameEmit
<1>9. CASE EmitFails /\ UNCHANGED anthropic
  BY <1>9, FrameEmitFails
<1> QED BY <1>1, <1>2, <1>3, <1>4, <1>5, <1>6, <1>7, <1>8, <1>9 DEF MessageNext

-----------------------------------------------------------------------------
(* What always holds *)

\* The inductive invariant: what is sent and what is still due together stand for the
\* events taken so far, over the API that the turn is of.
IInv ==
    /\ TypeOK
    /\ api = "openai" => ChunkIInv
    /\ api = "anthropic" => FrameIInv

\* The inductive invariant of a turn over either API, of any number of events.
THEOREM TurnInvariant == Spec => []IInv
<1>1. Init => IInv
  <2> SUFFICES ASSUME Init PROVE IInv
    OBVIOUS
  <2>1. api \in {"openai", "anthropic"}
    BY DEF Init
  <2> QED BY <2>1, ChunkInit, FrameInit DEF IInv
<1>2. IInv /\ [Next]_vars => IInv'
  <2> SUFFICES ASSUME IInv, [Next]_vars PROVE IInv'
    OBVIOUS
  <2>1. CASE api = "openai" /\ CompletionNext /\ UNCHANGED <<api, anthropic>>
    BY <2>1, ChunkNext DEF IInv
  <2>2. CASE api = "anthropic" /\ MessageNext /\ UNCHANGED <<api, openai>>
    BY <2>2, FrameNext DEF IInv
  <2>3. CASE UNCHANGED vars
    <3>1. /\ UNCHANGED <<api, events, sawTool, usage, phase, todo, out>>
          /\ UNCHANGED <<toolIndex, finishReason, includeUsage, index, current, thinking, stop>>
      BY <2>3 DEF vars, openai, anthropic
    <3>2. TypeOK'
      BY <3>1, ZenonT(60) DEF IInv, TypeOK, Output
    <3>3. whole' = whole
      BY <3>1 DEF whole
    <3>4. ChunkIInv => ChunkIInv'
      BY <3>1, <3>3 DEF ChunkIInv
    <3>5. FrameIInv => FrameIInv'
      BY <3>1, <3>3 DEF FrameIInv
    <3> QED BY <3>1, <3>2, <3>4, <3>5 DEF IInv
  <2> QED BY <2>1, <2>2, <2>3 DEF Next
<1> QED BY <1>1, <1>2, PTL DEF Spec

\* Every variable of a turn keeps its type.
THEOREM TurnType == Spec => []TypeOK
<1>1. IInv => TypeOK
  BY DEF IInv
<1> QED BY <1>1, TurnInvariant, PTL

\* What the client of Chat Completions was sent, at any time.
LEMMA ChunksSoFar ==
  ASSUME TypeOK, ChunkIInv, api = "openai"
  PROVE  out \in Seq(Chunks) /\ OutcomeOnce(out) /\ ChunksCut(out, events, toolIndex, includeUsage)
<1>1. out \in Seq(Chunks) /\ todo \in Seq(Chunks)
  BY DEF TypeOK, Output
<1>2. OutcomeOnce(out)
  BY <1>1, OutcomeOfPrefix DEF ChunkIInv, whole
<1>3. CASE phase = "over"
  BY <1>1, <1>2, <1>3 DEF ChunkIInv
<1>4. CASE phase # "over" /\ todo # <<>>
  <2>1. /\ Carries(out \o todo, events, toolIndex)
        /\ Unended(out \o todo) \/ LastIs(out \o todo, "[DONE]")
    BY <1>4 DEF ChunkIInv, whole, TypeOK
  <2> QED BY <1>1, <1>2, <1>4, <2>1, PrefixIsCut
<1>5. CASE phase # "over" /\ todo = <<>>
  <2>1. phase = "reading"
    BY <1>5 DEF TypeOK, ChunkIInv
  <2>2. whole = out
    BY <1>1, <1>5, ConcatEmptySeq DEF whole
  <2>3. Carries(out, events, toolIndex) /\ Unended(out)
    BY <2>1, <2>2 DEF ChunkIInv
  <2>4. ~HasFrame(out, "[DONE]")
    BY <2>3 DEF Unended, HasFrame, Content
  <2> QED BY <1>1, <1>2, <2>3, <2>4, ChunksUncut
<1> QED BY <1>3, <1>4, <1>5

\* What the client of Messages was sent, at any time.
LEMMA FramesSoFar ==
  ASSUME TypeOK, FrameIInv, api = "anthropic"
  PROVE  /\ out \in Seq(Frames) /\ WellFormed(out) /\ FramesCut(out, events)
         /\ phase = "reading" /\ todo = <<>> => Says(out, events)
<1>1. out \in Seq(Frames) /\ todo \in Seq(Frames)
  BY DEF TypeOK, Output
<1>2. WellFormed(out \o todo) /\ StoppedForGood(out \o todo)
  BY DEF FrameIInv, whole
<1>3. WellFormed(out)
  BY <1>1, <1>2, WellFormedPrefix
<1>4. CASE phase = "over"
  BY <1>1, <1>3, <1>4 DEF FrameIInv
<1>5. ASSUME phase # "over"
      PROVE  /\ Says(whole, events) /\ AllSealed(whole)
             /\ ~HasFrame(whole, "message_stop") \/ LastIs(whole, "message_stop")
             /\ phase = "reading" => ~HasFrame(whole, "message_stop")
  <2>1. CASE phase = "reading"
    <3>1. Says(whole, events) /\ Current(whole, index, current, thinking)
      BY <2>1 DEF FrameIInv
    <3>2. whole \in Seq(Frames)
      BY <1>1, ConcatProperties DEF whole
    <3> QED BY <3>1, <3>2, CurrentSealed
  <2>2. CASE phase = "closing"
    BY <2>2 DEF FrameIInv
  <2> QED BY <1>5, <2>1, <2>2 DEF TypeOK
<1>6. CASE phase # "over" /\ todo # <<>>
  <2>1. FramesCut(out, events)
    BY <1>1, <1>2, <1>5, <1>6, PrefixIsFrameCut DEF whole
  <2> QED BY <1>1, <1>3, <1>6, <2>1
<1>7. CASE phase # "over" /\ todo = <<>>
  <2>1. phase = "reading"
    BY <1>7 DEF TypeOK, FrameIInv
  <2>2. whole = out
    BY <1>1, <1>7, ConcatEmptySeq DEF whole
  <2>3. FramesCut(out, events)
    BY <1>1, <1>5, <1>7, <2>1, <2>2, FramesUncut
  <2> QED BY <1>1, <1>3, <1>5, <1>7, <2>2, <2>3
<1> QED BY <1>4, <1>6, <1>7

\* The buffered message shows the fields of the completion it is made from.
ToolBlocks(ds) == [i \in DOMAIN ds |-> Block("tool_use", <<ds[i]>>)]
BlocksOf(block) == {b \in Blocks : b.type = block}

LEMMA ShowsMore ==
  ASSUME NEW bs \in Seq(Blocks), NEW t
  PROVE  /\ Joined(bs, BlocksOf(t)) \in Seq(Nat)
         /\ \A b \in Blocks : Joined(Append(bs, b), BlocksOf(t)) =
                IF b.type = t THEN Joined(bs, BlocksOf(t)) \o b.data ELSE Joined(bs, BlocksOf(t))
         /\ \A cs \in Seq(Blocks) :
                Joined(bs \o cs, BlocksOf(t)) = Joined(bs, BlocksOf(t)) \o Joined(cs, BlocksOf(t))
<1>1. HasData(Blocks, Seq(Nat))
  BY DEF HasData, Blocks
<1>2. \A b \in Blocks : b \in BlocksOf(t) <=> b.type = t
  BY DEF BlocksOf
<1> DEFINE S == BlocksOf(t)
<1> HIDE DEF S
<1>3. Joined(bs, S) \in Seq(Nat)
  BY <1>1, JoinedType
<1>4. \A b \in Blocks : Joined(Append(bs, b), S) = IF b \in S THEN Joined(bs, S) \o b.data ELSE Joined(bs, S)
  BY <1>1, JoinedAppend
<1>5. \A cs \in Seq(Blocks) : Joined(bs \o cs, S) = Joined(bs, S) \o Joined(cs, S)
  BY <1>1, JoinedConcat
<1> QED BY <1>2, <1>3, <1>4, <1>5 DEF S

LEMMA BlockShows ==
  ASSUME NEW type \in {"thinking", "text", "tool_use"}, NEW data \in Seq(Nat)
  PROVE  /\ <<Block(type, data)>> \in Seq(Blocks)
         /\ \A t : Joined(<<Block(type, data)>>, BlocksOf(t)) = IF t = type THEN data ELSE <<>>
<1> DEFINE b == Block(type, data)
<1>1. b \in Blocks /\ b.type = type /\ b.data = data
  BY DEF Block, Blocks
<1> HIDE DEF b
<1>2. <<b>> \in Seq(Blocks) /\ <<b>> = Append(<<>>, b)
  BY <1>1
<1>3. ASSUME NEW t PROVE Joined(<<b>>, BlocksOf(t)) = IF t = type THEN data ELSE <<>>
  <2>1. <<>> \in Seq(Blocks)
    BY EmptySeq
  <2>2. Joined(Append(<<>>, b), BlocksOf(t)) =
            IF b.type = t THEN Joined(<<>>, BlocksOf(t)) \o b.data ELSE Joined(<<>>, BlocksOf(t))
    BY <1>1, <2>1, ShowsMore
  <2>3. Joined(<<>>, BlocksOf(t)) = <<>> /\ <<>> \o data = data
    BY JoinedEmpty, ConcatEmptySeq
  <2> QED BY <1>1, <1>2, <2>2, <2>3
<1> QED BY <1>2, <1>3 DEF b

LEMMA ToolsShow ==
  \A ds \in Seq(Nat) :
    /\ ToolBlocks(ds) \in Seq(Blocks)
    /\ \A t : Joined(ToolBlocks(ds), BlocksOf(t)) = IF t = "tool_use" THEN ds ELSE <<>>
<1> DEFINE S == {ds \in Seq(Nat) :
                    /\ ToolBlocks(ds) \in Seq(Blocks)
                    /\ \A t : Joined(ToolBlocks(ds), BlocksOf(t)) = IF t = "tool_use" THEN ds ELSE <<>>}
<1>1. <<>> \in S
  <2>1. ToolBlocks(<<>>) = <<>> /\ <<>> \in Seq(Nat) /\ <<>> \in Seq(Blocks)
    BY EmptySeq DEF ToolBlocks
  <2> QED BY <2>1, JoinedEmpty
<1>2. ASSUME NEW ds \in Seq(Nat), NEW d \in Nat, ds \in S PROVE Append(ds, d) \in S
  <2> DEFINE tail == <<Block("tool_use", <<d>>)>>
  <2>1. <<d>> \in Seq(Nat) /\ Append(ds, d) \in Seq(Nat)
    BY Appended
  <2>2. tail \in Seq(Blocks) /\ \A t : Joined(tail, BlocksOf(t)) = IF t = "tool_use" THEN <<d>> ELSE <<>>
    BY <2>1, BlockShows
  <2>3. ToolBlocks(Append(ds, d)) = Append(ToolBlocks(ds), Block("tool_use", <<d>>))
    BY DEF ToolBlocks
  <2>4. /\ ToolBlocks(ds) \in Seq(Blocks)
        /\ \A t : Joined(ToolBlocks(ds), BlocksOf(t)) = IF t = "tool_use" THEN ds ELSE <<>>
    BY <1>2
  <2>5. Block("tool_use", <<d>>) \in Blocks
    BY <2>1 DEF Block, Blocks
  <2>6. /\ ToolBlocks(Append(ds, d)) = ToolBlocks(ds) \o tail
        /\ ToolBlocks(Append(ds, d)) \in Seq(Blocks)
    BY <2>3, <2>4, <2>5, AppendIsConcat, Appended
  <2> HIDE DEF tail, S
  <2>7. ASSUME NEW t
        PROVE  Joined(ToolBlocks(Append(ds, d)), BlocksOf(t)) = IF t = "tool_use" THEN Append(ds, d) ELSE <<>>
    <3>1. Joined(ToolBlocks(ds) \o tail, BlocksOf(t)) =
            Joined(ToolBlocks(ds), BlocksOf(t)) \o Joined(tail, BlocksOf(t))
      BY <2>2, <2>4, ShowsMore
    <3>2. ds \o <<d>> = Append(ds, d) /\ <<>> \o <<>> = <<>>
      BY AppendIsConcat
    <3> QED BY <2>2, <2>4, <2>6, <3>1, <3>2
  <2> QED BY <2>1, <2>6, <2>7 DEF S
<1> HIDE DEF S
<1>3. \A ds \in Seq(Nat) : ds \in S
  BY <1>1, <1>2, SeqInduction
<1> QED BY <1>3 DEF S

LEMMA MessageShows ==
  ASSUME NEW c, c.reasoning \in Seq(Nat), c.content \in Seq(Nat), c.tool_calls \in Seq(Nat)
  PROVE  LET content == MessageFromCompletion(c).content
         IN  /\ Joined(content, BlocksOf("text")) = c.content
             /\ Joined(content, BlocksOf("thinking")) = c.reasoning
             /\ Joined(content, BlocksOf("tool_use")) = c.tool_calls
<1> DEFINE a == IF c.reasoning = <<>> THEN <<>> ELSE <<Block("thinking", c.reasoning)>>
           b == IF c.content = <<>> THEN <<>> ELSE <<Block("text", c.content)>>
           d == ToolBlocks(c.tool_calls)
           ab == a \o b
           blocks == ab \o d
           none == <<Block("text", <<>>)>>
<1>1. MessageFromCompletion(c).content = IF blocks = <<>> THEN none ELSE blocks
  BY DEF MessageFromCompletion, ToolBlocks
<1>2. <<>> \in Seq(Nat) /\ <<>> \in Seq(Blocks)
  BY EmptySeq
<1>3. a \in Seq(Blocks) /\ \A t : Joined(a, BlocksOf(t)) = IF t = "thinking" THEN c.reasoning ELSE <<>>
  BY <1>2, BlockShows, JoinedEmpty
<1>4. b \in Seq(Blocks) /\ \A t : Joined(b, BlocksOf(t)) = IF t = "text" THEN c.content ELSE <<>>
  BY <1>2, BlockShows, JoinedEmpty
<1>5. d \in Seq(Blocks) /\ \A t : Joined(d, BlocksOf(t)) = IF t = "tool_use" THEN c.tool_calls ELSE <<>>
  BY ToolsShow
<1>6. \A t : Joined(none, BlocksOf(t)) = <<>>
  BY <1>2, BlockShows
<1> HIDE DEF a, b, d, none
<1>7. ASSUME NEW t
      PROVE  Joined(blocks, BlocksOf(t)) = (Joined(a, BlocksOf(t)) \o Joined(b, BlocksOf(t))) \o Joined(d, BlocksOf(t))
  <2>1. ab \in Seq(Blocks)
    BY <1>3, <1>4, ConcatProperties
  <2>2. Joined(ab, BlocksOf(t)) = Joined(a, BlocksOf(t)) \o Joined(b, BlocksOf(t))
    BY <1>3, <1>4, ShowsMore
  <2> HIDE DEF ab
  <2>3. Joined(ab \o d, BlocksOf(t)) = Joined(ab, BlocksOf(t)) \o Joined(d, BlocksOf(t))
    BY <1>5, <2>1, ShowsMore
  <2> QED BY <2>2, <2>3
<1>8. \A s \in Seq(Nat) : (s \o <<>>) \o <<>> = s /\ (<<>> \o s) \o <<>> = s /\ (<<>> \o <<>>) \o s = s
  BY ConcatEmptySeq
<1> HIDE DEF blocks
<1>9. /\ Joined(blocks, BlocksOf("text")) = c.content
      /\ Joined(blocks, BlocksOf("thinking")) = c.reasoning
      /\ Joined(blocks, BlocksOf("tool_use")) = c.tool_calls
  <2>1. Joined(blocks, BlocksOf("text")) = (<<>> \o c.content) \o <<>>
    BY <1>3, <1>4, <1>5, <1>7
  <2>2. Joined(blocks, BlocksOf("thinking")) = (c.reasoning \o <<>>) \o <<>>
    BY <1>3, <1>4, <1>5, <1>7
  <2>3. Joined(blocks, BlocksOf("tool_use")) = (<<>> \o <<>>) \o c.tool_calls
    BY <1>3, <1>4, <1>5, <1>7
  <2> QED BY <1>8, <2>1, <2>2, <2>3
<1>10. CASE blocks = <<>>
  <2>1. \A t : Joined(blocks, BlocksOf(t)) = <<>>
    BY <1>10, JoinedEmpty
  <2> QED BY <1>1, <1>6, <1>9, <1>10, <2>1
<1>11. CASE blocks # <<>>
  BY <1>1, <1>9, <1>11
<1> QED BY <1>10, <1>11

\* Over either API, a client is sent the pieces of a turn in the order of the upstream.
THEOREM InOrder == Spec => []ContentInOrder
<1>1. IInv => ContentInOrder
  <2> SUFFICES ASSUME IInv PROVE ContentInOrder
    OBVIOUS
  <2>1. CASE api = "anthropic"
    <3>1. /\ out \in Seq(Frames) /\ FramesCut(out, events)
          /\ phase = "reading" /\ todo = <<>> => Says(out, events)
      BY <2>1, FramesSoFar DEF IInv
    <3>2. Deltas \cap Frames = Deltas
      BY DEF Deltas
    <3>3. Shows(Frames) = Joined(out, Deltas)
      BY <3>2 DEF Shows
    <3>4. BlocksInOrder
      BY <3>1, <3>3 DEF BlocksInOrder, FramesCut, Says, Said
    <3> QED BY <2>1, <3>4 DEF ContentInOrder
  <2>2. CASE api = "openai"
    <3>1. out \in Seq(Chunks) /\ ChunksCut(out, events, toolIndex, includeUsage)
      BY <2>2, ChunksSoFar DEF IInv
    <3>2. /\ DOMAIN out = 1..Len(out)
          /\ DOMAIN ChunksSent("tool_calls") = 1..Len(ChunksSent("tool_calls"))
      BY <3>1, SelectType, LenProperties DEF ChunksSent
    <3>3. ReadTo("[DONE]") => HasFrame(out, "[DONE]")
      BY <3>2 DEF ReadTo, HasFrame
    <3>4. ChunksInOrder
      BY <3>1, <3>2, <3>3
      DEF ChunksInOrder, ChunksCut, Carries, SentAs, Said, Content, CallsNumbered, ChunksSent
    <3> QED BY <2>2, <3>4 DEF ContentInOrder
  <2> QED BY <2>1, <2>2 DEF IInv, TypeOK
<1> QED BY <1>1, TurnInvariant, PTL

\* Over either API, a stream that is read to its end is the buffered answer.
THEOREM StreamsAgree == Spec => []AgreesWithBuffered
<1>1. IInv => AgreesWithBuffered
  <2> SUFFICES ASSUME IInv PROVE AgreesWithBuffered
    OBVIOUS
  <2>1. CASE api = "anthropic"
    <3>1. out \in Seq(Frames) /\ FramesCut(out, events)
      BY <2>1, FramesSoFar DEF IInv
    <3>2. DOMAIN out = 1..Len(out) /\ events \in Seq(Event)
      BY <3>1, LenProperties DEF IInv, TypeOK
    <3> SUFFICES ASSUME ReadTo("message_stop")
                 PROVE  /\ \A block \in {"text", "thinking", "tool_use"} :
                             Shows(OfKind(block)) = Joined(Buffered.content, BlocksOf(block))
                        /\ StreamedStop = [stop_reason |-> Buffered.stop_reason, usage |-> Buffered.usage]
      BY <2>1 DEF AgreesWithBuffered, BlocksAgree, BlocksOf
    <3>3. Says(out, events) /\ StopsAs(out, events)
      BY <3>1, <3>2 DEF ReadTo, HasFrame, FramesCut
    <3> DEFINE c == BuildCompletion(events)
    <3>4. c.content = Texts(events) /\ c.reasoning = Thoughts(events) /\ c.tool_calls = Calls(events)
      BY BuildFields
    <3> HIDE DEF c
    <3>5. Texts(events) \in Seq(Nat) /\ Thoughts(events) \in Seq(Nat) /\ Calls(events) \in Seq(Nat)
      <4>1. \E e : e \in Event
        BY EventsAtType DEF EventsAt
      <4> QED BY <3>2, <4>1, FieldsAppend
    <3>6. /\ Joined(MessageFromCompletion(c).content, BlocksOf("text")) = Texts(events)
          /\ Joined(MessageFromCompletion(c).content, BlocksOf("thinking")) = Thoughts(events)
          /\ Joined(MessageFromCompletion(c).content, BlocksOf("tool_use")) = Calls(events)
      BY <3>4, <3>5, MessageShows
    <3>7. Buffered = MessageFromCompletion(c)
      BY DEF Buffered, c
    <3>8. \A block \in {"text", "thinking", "tool_use"} :
            Shows(OfKind(block)) = Joined(Buffered.content, BlocksOf(block))
      BY <3>3, <3>6, <3>7 DEF Says, Shows
    <3>9. Select(out, {f \in Frames : f.frame = "message_delta"})[1] =
            MessageDelta(stopReason(c.finish_reason), c.usage)
      BY <3>3 DEF StopsAs, StopFrames, c
    <3>10. StreamedStop = [stop_reason |-> stopReason(c.finish_reason), usage |-> c.usage]
      BY <3>9 DEF StreamedStop, MessageDelta, Frame
    <3>11. Buffered.stop_reason = stopReason(c.finish_reason) /\ Buffered.usage = c.usage
      BY <3>7 DEF MessageFromCompletion
    <3> QED BY <3>8, <3>10, <3>11
  <2>2. CASE api = "openai"
    <3>1. out \in Seq(Chunks) /\ ChunksCut(out, events, toolIndex, includeUsage)
      BY <2>2, ChunksSoFar DEF IInv
    <3>2. DOMAIN out = 1..Len(out)
      BY <3>1, LenProperties
    <3> SUFFICES ASSUME ReadTo("[DONE]"), ~HasError(events) PROVE ChunksAgree
      BY <2>2 DEF AgreesWithBuffered, ChunksAgree
    <3>3. Carries(out, events, toolIndex) /\ Decided(out, events, includeUsage)
      BY <3>1, <3>2 DEF ReadTo, HasFrame, ChunksCut
    <3>4. ChunksAgree
      BY <3>3, BuildFields DEF ChunksAgree, Carries, Decided, SentAs, ChunksSent
    <3> QED BY <3>4
  <2> QED BY <2>1, <2>2 DEF IInv, TypeOK
<1> QED BY <1>1, TurnInvariant, PTL

\* A thinking block is signed, once, over exactly the thinking it shows.
THEOREM ThinkingSigned == Spec => []SignedThinking
<1>1. IInv => SignedThinking
  <2> SUFFICES ASSUME IInv, api = "anthropic" PROVE BlocksSigned
    BY DEF SignedThinking
  <2>1. out \in Seq(Frames) /\ AllSealed(out)
    BY FramesSoFar DEF IInv, FramesCut
  <2>2. DOMAIN out = 1..Len(out)
    BY <2>1, LenProperties
  <2> QED BY <2>1, <2>2
          DEF BlocksSigned, AllSealed, Sealed, ThinkingOf, SignedOver, Shows, Signatures
<1> QED BY <1>1, TurnInvariant, PTL

\* A reader of a whole stream of chunks learns exactly once how the turn ended.
THEOREM EndsOnceOnly == Spec => []OneOutcome
<1>1. IInv => OneOutcome
  <2> SUFFICES ASSUME IInv, api = "openai" PROVE EndsOnce
    BY DEF OneOutcome
  <2>1. out \in Seq(Chunks) /\ OutcomeOnce(out)
    BY ChunksSoFar DEF IInv
  <2>2. DOMAIN out = 1..Len(out) /\ Len(out) \in Nat
    BY <2>1, LenProperties
  <2>3. \A i \in DOMAIN out : 1..i \subseteq DOMAIN out
    BY <2>2
  <2> QED BY <2>1, <2>2, <2>3 DEF EndsOnce, OutcomeOnce, IsOutcome, ReadTo
<1> QED BY <1>1, TurnInvariant, PTL

\* The protocol's view of a message is that of the frames sent.
ShownWell == api = "anthropic" => out \in Seq(Frames) /\ WellFormed(out)

\* Every step of a turn sends a client of Messages one frame that the protocol allows
\* after those it was sent, or none.
THEOREM MessagesFollowProtocol == Spec => FollowsProtocol
<1>1. Init => Protocol!Init
  BY DEF Init, MessageInit, CompletionInit, TurnInit, Protocol!Init
<1>2. IInv => ShownWell
  BY FramesSoFar DEF IInv, ShownWell
<1>3. IInv' => ShownWell'
  BY <1>2, PTL
<1>4. IInv /\ IInv' /\ [Next]_vars
        => [Protocol!Next]_(IF api = "anthropic" THEN out ELSE <<>>)
  <2> SUFFICES ASSUME IInv, IInv', [Next]_vars
               PROVE  \/ Protocol!Next
                      \/ UNCHANGED (IF api = "anthropic" THEN out ELSE <<>>)
    OBVIOUS
  <2>1. api' = api
    BY DEF Next, vars
  <2>2. out' = out \/ (todo # <<>> /\ out' = Append(out, Head(todo)))
    BY DEF Next, vars, CompletionNext, MessageNext, CompletionOnDelta, CompletionOnToolCall,
           CompletionOnFinish, CompletionOnError, MessageOnText, MessageOnReasoning,
           MessageOnToolCall, MessageOnFinish, MessageOnError, OnOther, Ends, Emit, EmitFails
  <2>3. CASE api # "anthropic" \/ out' = out
    BY <2>1, <2>3
  <2>4. CASE api = "anthropic" /\ todo # <<>> /\ out' = Append(out, Head(todo))
    <3> DEFINE f == Head(todo)
    <3>1. out \in Seq(Frames) /\ f \in Frames
      <4>1. out \in Seq(Frames) /\ todo \in Seq(Frames)
        BY <2>4 DEF IInv, TypeOK, Output
      <4> QED BY <2>4, <4>1, HeadTailProperties
    <3>2. WellFormed(Append(out, f))
      BY <1>3, <2>1, <2>4 DEF ShownWell
    <3> HIDE DEF f
    <3>3. /\ Len(out) \in Nat /\ Len(Append(out, f)) = Len(out) + 1 /\ Append(out, f)[Len(out) + 1] = f
          /\ SubSeq(Append(out, f), 1, Len(out)) = out
      BY <3>1, Appended
    <3>4. Protocol!May(out, f)
      <4> DEFINE n == Len(out) + 1
                 gs == Append(out, f)
      <4>1. n \in 1..Len(gs) /\ n - 1 = Len(out) /\ gs[n] = f /\ SubSeq(gs, 1, Len(out)) = out
        BY <3>3
      <4>2. WellFormed(gs)
        BY <3>2
      <4> HIDE DEF n, gs
      <4>3. Protocol!May(SubSeq(gs, 1, n - 1), gs[n])
        BY <4>1, <4>2 DEF WellFormed
      <4> QED BY <4>1, <4>3
    <3> DEFINE shown == IF api = "anthropic" THEN out ELSE <<>>
    <3>5. shown = out /\ shown' = Append(out, f)
      BY <2>1, <2>4 DEF f
    <3>6. /\ Len(shown') = Len(shown) + 1 /\ SubSeq(shown', 1, Len(shown)) = shown
          /\ Protocol!May(shown, shown'[Len(shown) + 1])
      BY <3>3, <3>4, <3>5
    <3> QED BY <3>6 DEF Protocol!Next
  <2> QED BY <2>2, <2>3, <2>4
<1> QED BY <1>1, <1>4, TurnInvariant, PTL DEF Spec, FollowsProtocol, Protocol!Spec
=============================================================================
