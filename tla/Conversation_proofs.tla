------------------------- MODULE Conversation_proofs -------------------------
(***************************************************************************)
(* The proofs about Conversation, in the order in which they build on each *)
(* other: what the translator makes of content, of a message, of a turn    *)
(* and of a history, through either API (Translation); how calls and       *)
(* results are paired in a history whose ids are used once; which places   *)
(* a turn holds; the invariant, that the client remembers such a history   *)
(* and sent the translation of its first turns; and from it the four       *)
(* properties.                                                             *)
(*                                                                         *)
(* The operators of the translator are restated as mappings of sequences   *)
(* by functions (Mapped), for the lemmas of Lists_proofs to apply.         *)
(***************************************************************************)
EXTENDS Conversation, Lists_proofs, FiniteSetTheorems

Spots == Nat \X Nat \X Nat
Texts == [type : {"text"}, text : Seq(Spots)]
Images == [type : {"image"}, image : Spots]
AnyPart == Texts \cup Images
Full == AnyPart \ {Text(<<>>)}
AnyCall == [id : Ids, name : Nat \X Nat]
AnyResult == [id : Ids, parts : Seq(AnyPart)]
AnyTurn == [role : {"system", "user", "assistant"}, calls : Seq(AnyCall),
            results : Seq(AnyResult), parts : Seq(AnyPart)]
AnyContent == [text : Seq(Spots), parts : Seq(AnyPart)]
AnyId == Ids \cup {"none"}
AnyMessage == {m \in [role : {"system", "user", "assistant", "tool"}, content : AnyContent,
                      calls : Seq(AnyCall), id : AnyId] :
                    m.role = "tool" => m.id \in Ids}

LEMMA PartType ==
  \A p \in AnyPart : /\ p.type \in {"text", "image"}
                     /\ p.type = "text" => p \in Texts /\ p.text \in Seq(Spots)
                     /\ p.type = "image" => p \in Images /\ p.image \in Spots
                     /\ p \in Images <=> p.type = "image"
  BY DEF AnyPart, Texts, Images

-----------------------------------------------------------------------------
(* Content *)

TextIn == [p \in AnyPart |-> IF p.type = "text" THEN p.text ELSE <<>>]
TextOf(ps) == Mapped(ps, TextIn)
ImagesIn(ps) == Select(ps, Images)

LEMMA TextInMaps == Maps(TextIn, AnyPart, Spots)
  BY PartType, EmptySeq DEF TextIn, Maps

LEMMA ContentText ==
  ASSUME NEW c \in AnyContent
  PROVE  contentToText(c) = c.text \o TextOf(c.parts)
<1>1. \A i \in DOMAIN c.parts : c.parts[i] \in AnyPart
  BY ElementOfSeq, LenProperties DEF AnyContent
<1>2. ImagesOf(c.parts, TextIn)
        = [i \in DOMAIN c.parts |-> IF c.parts[i].type = "text" THEN c.parts[i].text ELSE <<>>]
  BY <1>1 DEF ImagesOf, TextIn
<1> QED BY <1>2 DEF contentToText, FlatMap, TextOf, Mapped

LEMMA ContentImages ==
  ASSUME NEW c \in AnyContent
  PROVE  imagePartsToCC(c) = ImagesIn(c.parts)
<1>1. \A i \in DOMAIN c.parts : c.parts[i] \in AnyPart
  BY ElementOfSeq, LenProperties DEF AnyContent
<1>2. [i \in DOMAIN c.parts |-> IF c.parts[i] \in Images THEN <<c.parts[i]>> ELSE <<>>]
        = [i \in DOMAIN c.parts |-> IF c.parts[i].type = "image" THEN <<c.parts[i]>> ELSE <<>>]
  BY <1>1, PartType
<1> QED BY <1>2 DEF imagePartsToCC, Filter, FlatMap, ImagesIn, Select

LEMMA ContentUser ==
  ASSUME NEW c \in AnyContent
  PROVE  userContentToCC(c) = IF ImagesIn(c.parts) # <<>> THEN Select(c.parts, Full)
                              ELSE <<Text(c.text \o TextOf(c.parts))>>
<1>1. \A i \in DOMAIN c.parts : c.parts[i] \in AnyPart
  BY ElementOfSeq, LenProperties DEF AnyContent
<1>2. [i \in DOMAIN c.parts |-> IF c.parts[i] \in Full THEN <<c.parts[i]>> ELSE <<>>]
        = [i \in DOMAIN c.parts |-> IF c.parts[i] # Text(<<>>) THEN <<c.parts[i]>> ELSE <<>>]
  BY <1>1 DEF Full
<1>3. Filter(c.parts, LAMBDA q : q # Text(<<>>)) = Select(c.parts, Full)
  BY <1>2 DEF Filter, FlatMap, Select
<1>4. /\ contentToText(c) = c.text \o TextOf(c.parts)
      /\ imagePartsToCC(c) = ImagesIn(c.parts)
  BY ContentText, ContentImages
<1> QED BY <1>3, <1>4 DEF userContentToCC

\* Texts and images of a list of parts.
LEMMA PartsType ==
  ASSUME NEW ps \in Seq(AnyPart)
  PROVE  /\ TextOf(ps) \in Seq(Spots)
         /\ ImagesIn(ps) \in Seq(Images) /\ ImagesIn(ps) \in Seq(AnyPart)
         /\ TextOf(ImagesIn(ps)) = <<>>
         /\ ImagesIn(ImagesIn(ps)) = ImagesIn(ps)
<1>1. TextOf(ps) \in Seq(Spots)
  BY TextInMaps, MappedType DEF TextOf
<1>2. ImagesIn(ps) \in Seq(AnyPart)
  BY SelectType DEF ImagesIn
<1>3. ImagesIn(ps) \in Seq(Images)
  BY SelectWithin DEF ImagesIn
<1>4. TextOf(ImagesIn(ps)) = <<>>
  <2> DEFINE is == ImagesIn(ps)
  <2>1. \A i \in 1..Len(is) : is[i] \in Images
    BY <1>3, ElementOfSeq
  <2>2. \A q \in Images : TextIn[q] = <<>>
    BY DEF TextIn, Images, AnyPart
  <2>3. \A r \in Seq(AnyPart) : (\A i \in 1..Len(r) : TextIn[r[i]] = <<>>) => Mapped(r, TextIn) = <<>>
    BY TextInMaps, MappedNone
  <2> HIDE DEF is
  <2>4. is \in Seq(AnyPart)
    BY <1>2 DEF is
  <2> QED BY <2>1, <2>2, <2>3, <2>4 DEF TextOf, is
<1>5. ImagesIn(ImagesIn(ps)) = ImagesIn(ps)
  <2>1. Select(Select(ps, Images), Images) = Select(ps, Images \cap Images)
    BY SelectSelect
  <2>2. Images \cap Images = Images
    OBVIOUS
  <2> QED BY <2>1, <2>2 DEF ImagesIn
<1> QED BY <1>1, <1>2, <1>3, <1>4, <1>5

LEMMA PartsEmpty == TextOf(<<>>) = <<>> /\ ImagesIn(<<>>) = <<>>
  BY MappedEmpty, SelectEmpty DEF TextOf, ImagesIn

\* How a list of parts becomes the content of a message to Command Code.
UserCC(ps) == IF ImagesIn(ps) # <<>> THEN Select(ps, Full) ELSE <<Text(TextOf(ps))>>

LEMMA OneText ==
  ASSUME NEW t \in Seq(Spots)
  PROVE  /\ Text(t) \in Texts /\ Text(t) \in AnyPart /\ <<Text(t)>> \in Seq(AnyPart)
         /\ TextOf(<<Text(t)>>) = t /\ ImagesIn(<<Text(t)>>) = <<>>
<1>1. Text(t) \in Texts /\ Text(t) \in AnyPart /\ Text(t) \notin Images
  BY DEF Text, Texts, AnyPart, Images
<1>2. TextIn[Text(t)] = t
  BY <1>1 DEF TextIn, Text
<1>3. \A e \in AnyPart : Mapped(<<e>>, TextIn) = TextIn[e]
  BY TextInMaps, MappedOne
<1>4. <<Text(t)>> \in Seq(AnyPart) /\ Len(<<Text(t)>>) = 1 /\ <<Text(t)>>[1] = Text(t)
  BY <1>1
<1>5. \A i \in 1..Len(<<Text(t)>>) : <<Text(t)>>[i] \notin Images
  BY <1>1, <1>4
<1>6. Select(<<Text(t)>>, Images) = <<>>
  BY <1>4, <1>5, SelectNone
<1> QED BY <1>1, <1>2, <1>3, <1>4, <1>6 DEF TextOf, ImagesIn

\* Parts survive being rendered by a client of Chat Completions.
LEMMA ContentOfParts ==
  ASSUME NEW ps \in Seq(AnyPart)
  PROVE  /\ Content(ps) \in AnyContent
         /\ contentToText(Content(ps)) = TextOf(ps)
         /\ imagePartsToCC(Content(ps)) = ImagesIn(ps)
         /\ userContentToCC(Content(ps)) = UserCC(ps)
<1> DEFINE c == Content(ps)
<1>1. CASE ps = <<>>
  <2>1. c \in AnyContent /\ c.text = <<>> /\ c.parts = <<>>
    BY <1>1, EmptySeq DEF Content, Null, String, AnyContent
  <2> HIDE DEF c
  <2>2. <<>> \o TextOf(<<>>) = <<>>
    BY PartsEmpty, ConcatEmptySeq
  <2> QED BY <1>1, <2>1, <2>2, ContentText, ContentImages, ContentUser, PartsEmpty DEF c, UserCC
<1>2. CASE ps # <<>> /\ Plain(ps)
  <2>1. Len(ps) = 1 /\ ps[1] \in AnyPart /\ ps[1].type = "text"
    BY <1>2, ElementOfSeq DEF Plain
  <2>2. ps[1] = Text(ps[1].text) /\ ps[1].text \in Seq(Spots)
    BY <2>1, PartType DEF Texts, Text
  <2>3. ps = <<ps[1]>>
    BY <2>1
  <2>4. TextOf(ps) = ps[1].text /\ ImagesIn(ps) = <<>>
    BY <2>2, <2>3, OneText
  <2>5. c \in AnyContent /\ c.text = ps[1].text /\ c.parts = <<>>
    BY <1>2, <2>2, EmptySeq DEF Content, String, AnyContent
  <2> HIDE DEF c
  <2>6. c.text \o TextOf(<<>>) = ps[1].text
    BY <2>2, <2>5, PartsEmpty, ConcatEmptySeq
  <2> QED BY <2>4, <2>5, <2>6, ContentText, ContentImages, ContentUser, PartsEmpty DEF c, UserCC
<1>3. CASE ps # <<>> /\ ~Plain(ps)
  <2>1. c \in AnyContent /\ c.text = <<>> /\ c.parts = ps
    BY <1>3, EmptySeq DEF Content, List, AnyContent
  <2> HIDE DEF c
  <2>2. <<>> \o TextOf(ps) = TextOf(ps)
    BY PartsType, ConcatEmptySeq
  <2> QED BY <2>1, <2>2, ContentText, ContentImages, ContentUser DEF c, UserCC
<1> QED BY <1>1, <1>2, <1>3

\* They survive as the content of a result that the Messages translator makes a message of.
LEMMA ContentOfResult ==
  ASSUME NEW ps \in Seq(AnyPart)
  PROVE  /\ toolResultContent(List(ps)) \in AnyContent
         /\ contentToText(toolResultContent(List(ps))) = TextOf(ps)
         /\ imagePartsToCC(toolResultContent(List(ps))) = ImagesIn(ps)
<1> DEFINE c == toolResultContent(List(ps))
           first == IF TextOf(ps) # <<>> THEN <<Text(TextOf(ps))>> ELSE <<>>
<1>1. contentToText(List(ps)) = TextOf(ps) /\ imagePartsToCC(List(ps)) = ImagesIn(ps)
  <2>1. List(ps) \in AnyContent /\ List(ps).text = <<>> /\ List(ps).parts = ps
    BY EmptySeq DEF List, AnyContent
  <2>2. <<>> \o TextOf(ps) = TextOf(ps)
    BY PartsType, ConcatEmptySeq
  <2> QED BY <2>1, <2>2, ContentText, ContentImages
<1>2. c = IF ImagesIn(ps) = <<>> THEN String(TextOf(ps)) ELSE List(first \o ImagesIn(ps))
  BY <1>1 DEF toolResultContent
<1>3. CASE ImagesIn(ps) = <<>>
  <2>1. c \in AnyContent /\ c.text = TextOf(ps) /\ c.parts = <<>>
    BY <1>2, <1>3, PartsType, EmptySeq DEF String, AnyContent
  <2> HIDE DEF c
  <2>2. c.text \o TextOf(<<>>) = TextOf(ps)
    BY <2>1, PartsType, PartsEmpty, ConcatEmptySeq
  <2> QED BY <1>3, <2>1, <2>2, ContentText, ContentImages, PartsEmpty DEF c
<1>4. CASE ImagesIn(ps) # <<>>
  <2>1. /\ first \in Seq(AnyPart) /\ TextOf(first) = TextOf(ps) /\ ImagesIn(first) = <<>>
    BY PartsType, OneText, PartsEmpty, EmptySeq
  <2> HIDE DEF first
  <2>2. first \o ImagesIn(ps) \in Seq(AnyPart)
    BY <2>1, PartsType, ConcatProperties
  <2>3. c \in AnyContent /\ c.text = <<>> /\ c.parts = first \o ImagesIn(ps)
    <3>1. \A r \in Seq(AnyPart) : List(r) \in AnyContent /\ List(r).text = <<>> /\ List(r).parts = r
      BY EmptySeq DEF List, AnyContent
    <3>2. c = List(first \o ImagesIn(ps))
      BY <1>2, <1>4
    <3> HIDE DEF c
    <3> QED BY <2>2, <3>1, <3>2
  <2> HIDE DEF c
  <2>4. TextOf(first \o ImagesIn(ps)) = TextOf(ps)
    <3>1. \A r \in Seq(AnyPart) : Mapped(first \o r, TextIn) = Mapped(first, TextIn) \o Mapped(r, TextIn)
      BY <2>1, TextInMaps, MappedConcat
    <3>2. TextOf(first \o ImagesIn(ps)) = TextOf(first) \o TextOf(ImagesIn(ps))
      BY <3>1, PartsType DEF TextOf
    <3> QED BY <2>1, <3>2, PartsType, ConcatEmptySeq
  <2>5. ImagesIn(first \o ImagesIn(ps)) = ImagesIn(ps)
    <3>1. \A r \in Seq(AnyPart) : Select(first \o r, Images) = Select(first, Images) \o Select(r, Images)
      BY <2>1, SelectConcat
    <3>2. ImagesIn(first \o ImagesIn(ps)) = ImagesIn(first) \o ImagesIn(ImagesIn(ps))
      BY <3>1, PartsType DEF ImagesIn
    <3> QED BY <2>1, <3>2, PartsType, ConcatEmptySeq
  <2>6. <<>> \o TextOf(ps) = TextOf(ps)
    BY PartsType, ConcatEmptySeq
  <2> QED BY <2>3, <2>4, <2>5, <2>6, ContentText, ContentImages DEF c
<1> QED BY <1>3, <1>4

-----------------------------------------------------------------------------
(* A request, message by message *)

NonSystem == {m \in AnyMessage : m.role # "system"}

CallsOf == [m \in AnyMessage |-> IF m.role = "assistant" THEN m.calls ELSE <<>>]
AnswersOf == [m \in AnyMessage |-> IF m.role = "tool" THEN <<m.id>> ELSE <<>>]
SystemOf == [m \in AnyMessage |-> IF m.role = "system" THEN contentToText(m.content) ELSE <<>>]

\* The ids that are both called and answered, and the tools they name.
Paired(calls, answers) == IdsOf(calls) \cap ToSet(answers)
NamesOf(calls) ==
    [id \in IdsOf(calls) |-> calls[SelectLastInSeq(calls, LAMBDA c : c.id = id)].name]

AnyName == Nat \X Nat
CallParts == [type : {"tool-call"}, id : Ids, name : AnyName]
ResultParts == [type : {"tool-result"}, id : Ids, name : AnyName, text : Seq(Spots)]
CCPart == AnyPart \cup CallParts \cup ResultParts
CCMessage == [role : {"user", "assistant", "tool"}, content : Seq(CCPart)]

\* p is a set of ids, each named by n.
Naming(p, n) == p \subseteq Ids /\ \A id \in p : n[id] \in AnyName

CallCC(p) == [c \in AnyCall |-> IF c.id \in p
                THEN <<[type |-> "tool-call", id |-> c.id, name |-> c.name]>> ELSE <<>>]

AssistantParts(t, calls, p) ==
    (IF t # <<>> THEN <<Text(t)>> ELSE <<>>) \o Mapped(calls, CallCC(p))
AssistantMessages(t, calls, p) ==
    IF AssistantParts(t, calls, p) # <<>>
    THEN <<[role |-> "assistant", content |-> AssistantParts(t, calls, p)]>> ELSE <<>>

ResultMessages(id, t, images, p, n) ==
    IF id \notin p THEN <<>>
    ELSE <<[role |-> "tool",
            content |-> <<[type |-> "tool-result", id |-> id, name |-> n[id], text |-> t]>>]>>
         \o (IF images # <<>> THEN <<[role |-> "user", content |-> images]>> ELSE <<>>)

\* What messagesToCC makes of one message.
CC(p, n) == [m \in AnyMessage |->
    IF m.role = "user" THEN <<[role |-> "user", content |-> userContentToCC(m.content)]>>
    ELSE IF m.role = "assistant" THEN AssistantMessages(contentToText(m.content), m.calls, p)
    ELSE IF m.role = "tool"
         THEN ResultMessages(m.id, contentToText(m.content), imagePartsToCC(m.content), p, n)
    ELSE <<>>]

LEMMA AppendEmpty == \A e : Append(<<>>, e) = <<e>>
  OBVIOUS

LEMMA CallCCMaps ==
  ASSUME NEW p
  PROVE  Maps(CallCC(p), AnyCall, CallParts) /\ Maps(CallCC(p), AnyCall, CCPart)
<1>1. \A c \in AnyCall : [type |-> "tool-call", id |-> c.id, name |-> c.name] \in CallParts
  BY DEF AnyCall, CallParts, AnyName
<1>2. CallParts \subseteq CCPart
  BY DEF CCPart
<1> QED BY <1>1, <1>2, EmptySeq DEF Maps, CallCC

LEMMA AssistantType ==
  ASSUME NEW t \in Seq(Spots), NEW calls \in Seq(AnyCall), NEW p
  PROVE  /\ AssistantParts(t, calls, p) \in Seq(CCPart)
         /\ AssistantMessages(t, calls, p) \in Seq(CCMessage)
<1> DEFINE a == IF t # <<>> THEN <<Text(t)>> ELSE <<>>
           b == Mapped(calls, CallCC(p))
<1>1. b \in Seq(CCPart)
  BY CallCCMaps, MappedType
<1>2. a \in Seq(CCPart)
  <2>1. Text(t) \in CCPart
    BY OneText DEF CCPart
  <2> QED BY <2>1, EmptySeq
<1> HIDE DEF a, b
<1>3. a \o b \in Seq(CCPart)
  BY <1>1, <1>2, ConcatProperties
<1>4. AssistantParts(t, calls, p) = a \o b
  BY DEF AssistantParts, a, b
<1>5. \A ps \in Seq(CCPart) : <<[role |-> "assistant", content |-> ps]>> \in Seq(CCMessage)
  BY DEF CCMessage
<1> QED BY <1>3, <1>4, <1>5, EmptySeq DEF AssistantMessages

LEMMA ResultType ==
  ASSUME NEW p, NEW n, Naming(p, n), NEW id \in Ids, NEW t \in Seq(Spots), NEW images \in Seq(AnyPart)
  PROVE  ResultMessages(id, t, images, p, n) \in Seq(CCMessage)
<1> DEFINE part == [type |-> "tool-result", id |-> id, name |-> n[id], text |-> t]
           a == <<[role |-> "tool", content |-> <<part>>]>>
           b == IF images # <<>> THEN <<[role |-> "user", content |-> images]>> ELSE <<>>
<1>1. CASE id \notin p
  BY <1>1, EmptySeq DEF ResultMessages
<1>2. CASE id \in p
  <2>1. part \in CCPart
    BY <1>2 DEF Naming, ResultParts, CCPart
  <2> HIDE DEF part
  <2>2. a \in Seq(CCMessage)
    <3>1. <<part>> \in Seq(CCPart)
      BY <2>1
    <3> QED BY <3>1 DEF CCMessage
  <2>3. b \in Seq(CCMessage)
    <3>1. images \in Seq(CCPart)
      <4>1. \A i \in 1..Len(images) : images[i] \in CCPart
        BY ElementOfSeq DEF CCPart
      <4> QED BY <4>1
    <3>2. <<[role |-> "user", content |-> images]>> \in Seq(CCMessage)
      BY <3>1 DEF CCMessage
    <3> QED BY <3>2, EmptySeq
  <2>4. ResultMessages(id, t, images, p, n) = a \o b
    BY <1>2 DEF ResultMessages, part
  <2> HIDE DEF a, b
  <2> QED BY <2>2, <2>3, <2>4, ConcatProperties
<1> QED BY <1>1, <1>2

LEMMA UserType ==
  ASSUME NEW c \in AnyContent
  PROVE  userContentToCC(c) \in Seq(AnyPart)
<1>1. c.parts \in Seq(AnyPart) /\ c.text \in Seq(Spots)
  BY DEF AnyContent
<1>2. Select(c.parts, Full) \in Seq(AnyPart)
  BY <1>1, SelectType
<1>3. c.text \o TextOf(c.parts) \in Seq(Spots)
  BY <1>1, PartsType, ConcatProperties
<1>4. <<Text(c.text \o TextOf(c.parts))>> \in Seq(AnyPart)
  BY <1>3, OneText
<1> QED BY <1>2, <1>4, ContentUser

LEMMA AnyPartsAreCC == Seq(AnyPart) \subseteq Seq(CCPart)
<1> SUFFICES ASSUME NEW s \in Seq(AnyPart) PROVE s \in Seq(CCPart)
  OBVIOUS
<1>1. \A i \in 1..Len(s) : s[i] \in CCPart
  BY ElementOfSeq DEF CCPart
<1> QED BY <1>1

LEMMA ContentType ==
  ASSUME NEW c \in AnyContent
  PROVE  contentToText(c) \in Seq(Spots) /\ imagePartsToCC(c) \in Seq(AnyPart)
<1>1. c.parts \in Seq(AnyPart) /\ c.text \in Seq(Spots)
  BY DEF AnyContent
<1>2. c.text \o TextOf(c.parts) \in Seq(Spots)
  BY <1>1, PartsType, ConcatProperties
<1> QED BY <1>1, <1>2, ContentText, ContentImages, PartsType

LEMMA MessageMaps ==
  /\ Maps(CallsOf, AnyMessage, AnyCall)
  /\ Maps(AnswersOf, AnyMessage, AnyId)
  /\ Maps(SystemOf, AnyMessage, Spots)
<1>1. \A m \in AnyMessage : /\ m.calls \in Seq(AnyCall) /\ m.id \in AnyId
                            /\ contentToText(m.content) \in Seq(Spots)
  BY ContentType DEF AnyMessage
<1>2. Maps(CallsOf, AnyMessage, AnyCall)
  BY <1>1, EmptySeq DEF Maps, CallsOf
<1>3. Maps(AnswersOf, AnyMessage, AnyId)
  <2>1. \A i \in AnyId : <<i>> \in Seq(AnyId)
    OBVIOUS
  <2> QED BY <1>1, <2>1, EmptySeq DEF Maps, AnswersOf
<1>4. Maps(SystemOf, AnyMessage, Spots)
  BY <1>1, EmptySeq DEF Maps, SystemOf
<1> QED BY <1>2, <1>3, <1>4

LEMMA CCMaps ==
  ASSUME NEW p, NEW n, Naming(p, n)
  PROVE  Maps(CC(p, n), AnyMessage, CCMessage)
<1> SUFFICES ASSUME NEW m \in AnyMessage PROVE CC(p, n)[m] \in Seq(CCMessage)
  BY DEF Maps
<1>1. /\ m.calls \in Seq(AnyCall) /\ m.content \in AnyContent
      /\ m.role = "tool" => m.id \in Ids
  BY DEF AnyMessage
<1>2. /\ contentToText(m.content) \in Seq(Spots) /\ imagePartsToCC(m.content) \in Seq(AnyPart)
      /\ userContentToCC(m.content) \in Seq(AnyPart)
  BY <1>1, ContentType, UserType
<1>3. CASE m.role = "user"
  <2>1. userContentToCC(m.content) \in Seq(CCPart)
    BY <1>2, AnyPartsAreCC
  <2>2. <<[role |-> "user", content |-> userContentToCC(m.content)]>> \in Seq(CCMessage)
    BY <2>1 DEF CCMessage
  <2> QED BY <1>3, <2>2 DEF CC
<1>4. CASE m.role = "assistant"
  <2>1. AssistantMessages(contentToText(m.content), m.calls, p) \in Seq(CCMessage)
    BY <1>1, <1>2, AssistantType
  <2> QED BY <1>4, <2>1 DEF CC
<1>5. CASE m.role = "tool"
  <2>1. ResultMessages(m.id, contentToText(m.content), imagePartsToCC(m.content), p, n)
          \in Seq(CCMessage)
    BY <1>1, <1>2, <1>5, ResultType
  <2> QED BY <1>5, <2>1 DEF CC
<1>6. CASE m.role \notin {"user", "assistant", "tool"}
  BY <1>6, EmptySeq DEF CC
<1> QED BY <1>3, <1>4, <1>5, <1>6

LEMMA CallsInMapped ==
  \A ms \in Seq(AnyMessage) : CallsIn(ms) = Mapped(ms, CallsOf)
<1> TAKE ms \in Seq(AnyMessage)
<1>1. \A i \in DOMAIN ms : ms[i] \in AnyMessage
  BY ElementOfSeq, LenProperties
<1>2. ImagesOf(ms, CallsOf)
        = [i \in DOMAIN ms |-> IF ms[i].role = "assistant" THEN ms[i].calls ELSE <<>>]
  BY <1>1 DEF ImagesOf, CallsOf
<1> QED BY <1>2 DEF CallsIn, FlatMap, Mapped

\* Messages that are mapped to nothing need not be selected.
LEMMA SelectIdle ==
  ASSUME NEW E, NEW R, NEW F, Maps(F, E, R), NEW S, F = [e \in E |-> F[e]],
         \A e \in E : e \notin S => F[e] = <<>>
  PROVE  \A s \in Seq(E) : Mapped(Select(s, S), F) = Mapped(s, F)
<1> DEFINE G == [e \in E |-> IF e \in S THEN F[e] ELSE <<>>]
<1>1. G = F
  <2>1. G = [e \in E |-> F[e]]
    OBVIOUS
  <2> QED BY <2>1
<1>2. \A s \in Seq(E) : Mapped(Select(s, S), F) = Mapped(s, G)
  BY MappedSelect
<1> QED BY <1>1, <1>2

LEMMA NonSystemSelected ==
  \A ms \in Seq(AnyMessage) : Filter(ms, LAMBDA m : m.role # "system") = Select(ms, NonSystem)
<1> TAKE ms \in Seq(AnyMessage)
<1>1. \A i \in DOMAIN ms : ms[i] \in AnyMessage
  BY ElementOfSeq, LenProperties
<1>2. [i \in DOMAIN ms |-> IF ms[i] \in NonSystem THEN <<ms[i]>> ELSE <<>>]
        = [i \in DOMAIN ms |-> IF ms[i].role # "system" THEN <<ms[i]>> ELSE <<>>]
  BY <1>1 DEF NonSystem
<1> QED BY <1>2 DEF Filter, FlatMap, Select

LEMMA AnswerIds ==
  \A ms \in Seq(AnyMessage) :
      {m.id : m \in {x \in ToSet(ms) : x.role = "tool"}} = ToSet(Mapped(ms, AnswersOf))
<1> TAKE ms \in Seq(AnyMessage)
<1>1. ToSet(Mapped(ms, AnswersOf)) = UNION {ToSet(AnswersOf[ms[i]]) : i \in 1..Len(ms)}
  BY MessageMaps, MappedElements
<1>2. /\ \A i \in 1..Len(ms) : ms[i] \in AnyMessage
      /\ DOMAIN ms = 1..Len(ms)
  BY ElementOfSeq, LenProperties
<1>3. \A x : ToSet(<<x>>) = {x} /\ ToSet(<<>>) = {}
  BY DEF ToSet
<1>4. \A m \in AnyMessage : ToSet(AnswersOf[m]) = IF m.role = "tool" THEN {m.id} ELSE {}
  BY <1>3 DEF AnswersOf
<1>5. ToSet(ms) = {ms[i] : i \in 1..Len(ms)}
  BY <1>2 DEF ToSet
<1> DEFINE A == UNION {ToSet(AnswersOf[ms[i]]) : i \in 1..Len(ms)}
           B == {m.id : m \in {x \in ToSet(ms) : x.role = "tool"}}
<1>6. ASSUME NEW a \in A PROVE a \in B
  <2>1. PICK i \in 1..Len(ms) : a \in ToSet(AnswersOf[ms[i]])
    OBVIOUS
  <2>2. ms[i].role = "tool" /\ a = ms[i].id /\ ms[i] \in ToSet(ms)
    BY <1>2, <1>4, <1>5, <2>1
  <2> QED BY <2>2
<1>7. ASSUME NEW b \in B PROVE b \in A
  <2>1. PICK m \in ToSet(ms) : m.role = "tool" /\ b = m.id
    OBVIOUS
  <2>2. PICK i \in 1..Len(ms) : m = ms[i]
    BY <1>5
  <2>3. b \in ToSet(AnswersOf[ms[i]])
    BY <1>2, <1>4, <2>1, <2>2
  <2> QED BY <2>3
<1> QED BY <1>1, <1>6, <1>7

LEMMA AssistantIs ==
  ASSUME NEW m \in AnyMessage, NEW p
  PROVE  assistantToCC(m, p) = AssistantMessages(contentToText(m.content), m.calls, p)
<1> DEFINE calls == m.calls
<1>1. \A i \in DOMAIN calls : calls[i] \in AnyCall
  <2>1. calls \in Seq(AnyCall)
    BY DEF AnyMessage
  <2> QED BY <2>1, ElementOfSeq, LenProperties
<1>2. ImagesOf(calls, CallCC(p))
        = [i \in DOMAIN calls |-> IF calls[i].id \in p
             THEN <<[type |-> "tool-call", id |-> calls[i].id, name |-> calls[i].name]>> ELSE <<>>]
  <2> HIDE DEF calls
  <2> QED BY <1>1 DEF ImagesOf, CallCC
<1> QED BY <1>2 DEF assistantToCC, FlatMap, Mapped, AssistantMessages, AssistantParts

\* What messagesToCC returns.
LEMMA MessagesMapped ==
  ASSUME NEW ms \in Seq(NonSystem), ms \in Seq(AnyMessage)
  PROVE  messagesToCC(ms) = Mapped(ms, CC(pairedToolCallIDs(ms), toolNamesByID(ms)))
<1> DEFINE p == pairedToolCallIDs(ms)
           n == toolNamesByID(ms)
           one(i) == CASE ms[i].role = "user" ->
                          <<[role |-> "user", content |-> userContentToCC(ms[i].content)]>>
                       [] ms[i].role = "assistant" -> assistantToCC(ms[i], p)
                       [] ms[i].role = "tool" -> toolToCC(ms[i], p, n)
<1>1. messagesToCC(ms) = FlattenSeq([i \in DOMAIN ms |-> one(i)])
  BY DEF messagesToCC, FlatMap
<1> HIDE DEF p, n
<1>2. ASSUME NEW i \in DOMAIN ms PROVE one(i) = CC(p, n)[ms[i]]
  <2>1. ms[i] \in AnyMessage /\ ms[i].role \in {"user", "assistant", "tool"}
    <3>1. ms[i] \in NonSystem
      BY ElementOfSeq, LenProperties
    <3> QED BY <3>1 DEF NonSystem, AnyMessage
  <2>2. assistantToCC(ms[i], p) = AssistantMessages(contentToText(ms[i].content), ms[i].calls, p)
    BY <2>1, AssistantIs
  <2>3. toolToCC(ms[i], p, n)
          = ResultMessages(ms[i].id, contentToText(ms[i].content), imagePartsToCC(ms[i].content), p, n)
    BY DEF toolToCC, ResultMessages
  <2> QED BY <2>1, <2>2, <2>3 DEF CC
<1> HIDE DEF one
<1>3. [i \in DOMAIN ms |-> one(i)] = ImagesOf(ms, CC(p, n))
  BY <1>2 DEF ImagesOf
<1> QED BY <1>1, <1>3 DEF Mapped, p, n

LEMMA SystemMapped ==
  \A ms \in Seq(AnyMessage) :
    FlatMap(ms, LAMBDA m : IF m.role = "system" THEN contentToText(m.content) ELSE <<>>)
      = Mapped(ms, SystemOf)
<1> TAKE ms \in Seq(AnyMessage)
<1>1. \A i \in DOMAIN ms : ms[i] \in AnyMessage
  BY ElementOfSeq, LenProperties
<1>2. ImagesOf(ms, SystemOf)
        = [i \in DOMAIN ms |-> IF ms[i].role = "system" THEN contentToText(ms[i].content) ELSE <<>>]
  BY <1>1 DEF ImagesOf, SystemOf
<1> QED BY <1>2 DEF FlatMap, Mapped

\* What BuildCCRequest returns: every message is translated by itself, once the ids
\* that are called and answered are known.
LEMMA RequestMapped ==
  ASSUME NEW ms \in Seq(AnyMessage),
         NEW calls, calls = Mapped(ms, CallsOf), NEW answers, answers = Mapped(ms, AnswersOf),
         Naming(Paired(calls, answers), NamesOf(calls))
  PROVE  BuildCCRequest(ms)
           = [messages |-> Mapped(ms, CC(Paired(calls, answers), NamesOf(calls))),
              system |-> Mapped(ms, SystemOf)]
<1> DEFINE ns == Filter(ms, LAMBDA m : m.role # "system")
<1>1. ns = Select(ms, NonSystem) /\ ns \in Seq(NonSystem) /\ ns \in Seq(AnyMessage)
  <2>1. Filter(ms, LAMBDA m : m.role # "system") = Select(ms, NonSystem)
    BY NonSystemSelected
  <2>2. Select(ms, NonSystem) \in Seq(NonSystem) /\ Select(ms, NonSystem) \in Seq(AnyMessage)
    BY SelectWithin, SelectType
  <2> QED BY <2>1, <2>2
<1>2. BuildCCRequest(ms) = [messages |-> messagesToCC(ns), system |-> Mapped(ms, SystemOf)]
  <2>1. FlatMap(ms, LAMBDA m : IF m.role = "system" THEN contentToText(m.content) ELSE <<>>)
          = Mapped(ms, SystemOf)
    BY SystemMapped
  <2> QED BY <2>1 DEF BuildCCRequest
<1> HIDE DEF ns
<1>3. CallsIn(ns) = calls
  <2>1. \A m \in AnyMessage : m \notin NonSystem => CallsOf[m] = <<>>
    BY DEF NonSystem, CallsOf
  <2>2. CallsOf = [m \in AnyMessage |-> CallsOf[m]]
    BY DEF CallsOf
  <2>3. \A s \in Seq(AnyMessage) : Mapped(Select(s, NonSystem), CallsOf) = Mapped(s, CallsOf)
    BY <2>1, <2>2, MessageMaps, SelectIdle
  <2> QED BY <1>1, <2>3, CallsInMapped
<1>4. Mapped(ns, AnswersOf) = answers
  <2>1. \A m \in AnyMessage : m \notin NonSystem => AnswersOf[m] = <<>>
    BY DEF NonSystem, AnswersOf
  <2>2. AnswersOf = [m \in AnyMessage |-> AnswersOf[m]]
    BY DEF AnswersOf
  <2>3. \A s \in Seq(AnyMessage) : Mapped(Select(s, NonSystem), AnswersOf) = Mapped(s, AnswersOf)
    BY <2>1, <2>2, MessageMaps, SelectIdle
  <2> QED BY <1>1, <2>3
<1>5. pairedToolCallIDs(ns) = Paired(calls, answers)
  <2>1. {m.id : m \in {x \in ToSet(ns) : x.role = "tool"}} = ToSet(answers)
    BY <1>1, <1>4, AnswerIds
  <2> QED BY <1>3, <2>1 DEF pairedToolCallIDs, Paired
<1>6. toolNamesByID(ns) = NamesOf(calls)
  BY <1>3 DEF toolNamesByID, NamesOf
<1> DEFINE p == Paired(calls, answers)
           n == NamesOf(calls)
<1>7. messagesToCC(ns) = Mapped(ns, CC(p, n))
  BY <1>1, <1>5, <1>6, MessagesMapped
<1>8. Mapped(ns, CC(p, n)) = Mapped(ms, CC(p, n))
  <2> HIDE DEF p, n
  <2>0. Naming(p, n)
    BY DEF p, n
  <2>1. \A m \in AnyMessage : m \notin NonSystem => CC(p, n)[m] = <<>>
    BY DEF NonSystem, CC, AnyMessage
  <2>2. CC(p, n) = [m \in AnyMessage |-> CC(p, n)[m]]
    BY DEF CC
  <2>3. \A s \in Seq(AnyMessage) : Mapped(Select(s, NonSystem), CC(p, n)) = Mapped(s, CC(p, n))
    BY <2>0, <2>1, <2>2, CCMaps, SelectIdle
  <2> QED BY <1>1, <2>3
<1> QED BY <1>2, <1>7, <1>8

-----------------------------------------------------------------------------
(* A turn, rendered *)

\* The turns a client may remember.
LegalTurn == {t \in AnyTurn :
    /\ t.role = "system" => t.calls = <<>> /\ t.results = <<>> /\ t.parts \in Seq(Texts)
    /\ t.role = "user" => t.calls = <<>>
                          /\ (t.parts # <<>> => \E i \in 1..Len(t.parts) : t.parts[i] \in Full)
    /\ t.role = "assistant" => t.results = <<>>}

ResultIds(rs) == [i \in DOMAIN rs |-> rs[i].id]

\* What is sent for a turn: its results, then its own parts and calls.
ResultCC(p, n) ==
    [r \in AnyResult |-> ResultMessages(r.id, TextOf(r.parts), ImagesIn(r.parts), p, n)]
OwnCC(t, p) ==
    IF t.role = "system" THEN <<>>
    ELSE IF t.role = "user"
         THEN IF t.parts = <<>> THEN <<>> ELSE <<[role |-> "user", content |-> UserCC(t.parts)]>>
    ELSE AssistantMessages(TextOf(t.parts), t.calls, p)
TurnCC(p, n) == [t \in LegalTurn |-> Mapped(t.results, ResultCC(p, n)) \o OwnCC(t, p)]

\* ms is a rendering of turn t as messages of Chat Completions.
Renders(t, ms) ==
    /\ ms \in Seq(AnyMessage)
    /\ Mapped(ms, CallsOf) = t.calls
    /\ Mapped(ms, AnswersOf) = ResultIds(t.results)
    /\ Mapped(ms, SystemOf) = IF ms # <<>> /\ t.role = "system" THEN TextOf(t.parts) ELSE <<>>
    /\ \A p, n : Naming(p, n) => Mapped(ms, CC(p, n)) = TurnCC(p, n)[t]

\* ms is a rendering of what turn t says besides its results.
RendersOwn(t, ms) ==
    /\ ms \in Seq(AnyMessage)
    /\ Mapped(ms, CallsOf) = t.calls
    /\ Mapped(ms, AnswersOf) = <<>>
    /\ Mapped(ms, SystemOf) = IF ms # <<>> /\ t.role = "system" THEN TextOf(t.parts) ELSE <<>>
    /\ \A p, n : Naming(p, n) => Mapped(ms, CC(p, n)) = OwnCC(t, p)

\* K is a way to write a result as content.
Faithful(K) ==
    \A r \in AnyResult : /\ K[r] \in AnyContent
                         /\ contentToText(K[r]) = TextOf(r.parts)
                         /\ imagePartsToCC(K[r]) = ImagesIn(r.parts)
ToolMessage(K) == [r \in AnyResult |-> [Message("tool", K[r]) EXCEPT !.id = r.id]]
ToolMessages(rs, K) == [i \in DOMAIN rs |-> ToolMessage(K)[rs[i]]]

LEMMA LegalParts ==
  ASSUME NEW t \in LegalTurn
  PROVE  /\ t.role \in {"system", "user", "assistant"}
         /\ t.calls \in Seq(AnyCall) /\ t.results \in Seq(AnyResult) /\ t.parts \in Seq(AnyPart)
  BY DEF LegalTurn, AnyTurn

LEMMA ToolMessageIs ==
  ASSUME NEW K, Faithful(K), NEW r \in AnyResult
  PROVE  /\ ToolMessage(K)[r] \in AnyMessage
         /\ CallsOf[ToolMessage(K)[r]] = <<>>
         /\ AnswersOf[ToolMessage(K)[r]] = <<r.id>>
         /\ SystemOf[ToolMessage(K)[r]] = <<>>
         /\ \A p, n : CC(p, n)[ToolMessage(K)[r]] = ResultCC(p, n)[r]
<1> DEFINE m == ToolMessage(K)[r]
<1>1. m = [role |-> "tool", content |-> K[r], calls |-> <<>>, id |-> r.id]
  BY DEF ToolMessage, Message
<1> HIDE DEF m
<1>2. /\ m.role = "tool" /\ m.content = K[r] /\ m.id = r.id
      /\ K[r] \in AnyContent /\ r.id \in Ids
      /\ contentToText(m.content) = TextOf(r.parts)
      /\ imagePartsToCC(m.content) = ImagesIn(r.parts)
  BY <1>1 DEF Faithful, AnyResult
<1>3. m \in AnyMessage
  BY <1>1, <1>2, EmptySeq DEF AnyMessage, AnyId
<1>4. CallsOf[m] = <<>> /\ AnswersOf[m] = <<r.id>> /\ SystemOf[m] = <<>>
  BY <1>2, <1>3 DEF CallsOf, AnswersOf, SystemOf
<1>5. \A p, n : CC(p, n)[m] = ResultCC(p, n)[r]
  <2> TAKE p, n
  <2>1. CC(p, n)[m]
          = ResultMessages(m.id, contentToText(m.content), imagePartsToCC(m.content), p, n)
    BY <1>2, <1>3 DEF CC
  <2> QED BY <1>2, <2>1 DEF ResultCC
<1> QED BY <1>3, <1>4, <1>5 DEF m

\* The messages of results are a mapping of the results.
LEMMA ToolMessagesMapped ==
  ASSUME NEW K, Faithful(K), NEW rs \in Seq(AnyResult)
  PROVE  /\ ToolMessages(rs, K) \in Seq(AnyMessage)
         /\ Mapped(ToolMessages(rs, K), CallsOf) = <<>>
         /\ Mapped(ToolMessages(rs, K), AnswersOf) = ResultIds(rs)
         /\ Mapped(ToolMessages(rs, K), SystemOf) = <<>>
         /\ \A p, n : Naming(p, n) =>
              Mapped(ToolMessages(rs, K), CC(p, n)) = Mapped(rs, ResultCC(p, n))
<1> DEFINE ms == ToolMessages(rs, K)
           F == [r \in AnyResult |-> <<ToolMessage(K)[r]>>]
<1>1. \A r \in AnyResult : ToolMessage(K)[r] \in AnyMessage /\ F[r] = <<ToolMessage(K)[r]>>
  BY ToolMessageIs
<1>2. Maps(F, AnyResult, AnyMessage) /\ Singles(F, ToolMessage(K), AnyResult, AnyMessage)
  <2>1. \A r \in AnyResult : <<ToolMessage(K)[r]>> \in Seq(AnyMessage)
    <3>1. \A m \in AnyMessage : <<m>> \in Seq(AnyMessage)
      OBVIOUS
    <3> QED BY <1>1, <3>1
  <2> HIDE DEF F
  <2>2. Maps(F, AnyResult, AnyMessage)
    BY <1>1, <2>1 DEF Maps
  <2> QED BY <1>1, <2>2 DEF Singles
<1> HIDE DEF F
<1>3. Mapped(rs, F) = ms
  <2>1. \A s \in Seq(AnyResult) : Mapped(s, F) = [i \in DOMAIN s |-> ToolMessage(K)[s[i]]]
    BY <1>2, MappedSingle
  <2> QED BY <2>1 DEF ToolMessages
<1>4. ms \in Seq(AnyMessage)
  <2>1. Mapped(rs, F) \in Seq(AnyMessage)
    BY <1>2, MappedType
  <2> QED BY <1>3, <2>1
<1> HIDE DEF ms
<1>5. \A i \in 1..Len(rs) : rs[i] \in AnyResult
  BY ElementOfSeq
<1>6. DOMAIN rs = 1..Len(rs) /\ DOMAIN ms = 1..Len(rs) /\ \A i \in 1..Len(rs) : ms[i] = ToolMessage(K)[rs[i]]
  BY LenProperties DEF ms, ToolMessages
<1>7. Len(ms) = Len(rs) /\ \A i \in 1..Len(ms) : ms[i] = ToolMessage(K)[rs[i]] /\ rs[i] \in AnyResult
  BY <1>4, <1>5, <1>6, LenProperties
<1>8. Mapped(ms, CallsOf) = <<>> /\ Mapped(ms, SystemOf) = <<>>
  <2>1. \A i \in 1..Len(ms) : CallsOf[ms[i]] = <<>> /\ SystemOf[ms[i]] = <<>>
    BY <1>7, ToolMessageIs
  <2>2. \A s \in Seq(AnyMessage) : (\A i \in 1..Len(s) : CallsOf[s[i]] = <<>>) => Mapped(s, CallsOf) = <<>>
    BY MessageMaps, MappedNone
  <2>3. \A s \in Seq(AnyMessage) : (\A i \in 1..Len(s) : SystemOf[s[i]] = <<>>) => Mapped(s, SystemOf) = <<>>
    BY MessageMaps, MappedNone
  <2> QED BY <1>4, <2>1, <2>2, <2>3
<1>9. Mapped(ms, AnswersOf) = ResultIds(rs)
  <2> DEFINE G == [r \in AnyResult |-> Mapped(F[r], AnswersOf)]
             I == [r \in AnyResult |-> r.id]
  <2>1. Mapped(Mapped(rs, F), AnswersOf) = Mapped(rs, G)
    BY <1>2, MessageMaps, MappedMapped
  <2>2. \A r \in AnyResult : I[r] \in Ids /\ G[r] = <<I[r]>>
    <3>1. \A m \in AnyMessage : Mapped(<<m>>, AnswersOf) = AnswersOf[m]
      BY MessageMaps, MappedOne
    <3>2. \A r \in AnyResult : AnswersOf[ToolMessage(K)[r]] = <<r.id>>
      BY ToolMessageIs
    <3>3. \A r \in AnyResult : r.id \in Ids
      BY DEF AnyResult
    <3> QED BY <1>1, <3>1, <3>2, <3>3
  <2> HIDE DEF G
  <2>3. \A s \in Seq(AnyResult) : Mapped(s, G) = [i \in DOMAIN s |-> I[s[i]]]
    <3> HIDE DEF I
    <3>1. Singles(G, I, AnyResult, Ids)
      BY <2>2 DEF Singles
    <3> QED BY <3>1, MappedSingle
  <2>4. ResultIds(rs) = [i \in DOMAIN rs |-> I[rs[i]]]
    BY <1>5, <1>6 DEF ResultIds
  <2> QED BY <1>3, <2>1, <2>3, <2>4
<1>10. ASSUME NEW p, NEW n, Naming(p, n)
       PROVE  Mapped(ms, CC(p, n)) = Mapped(rs, ResultCC(p, n))
  <2> DEFINE G == [r \in AnyResult |-> Mapped(F[r], CC(p, n))]
  <2>1. Maps(CC(p, n), AnyMessage, CCMessage)
    BY <1>10, CCMaps
  <2>2. Mapped(Mapped(rs, F), CC(p, n)) = Mapped(rs, G)
    BY <1>2, <2>1, MappedMapped
  <2>3. \A r \in AnyResult : G[r] = ResultCC(p, n)[r]
    <3>1. \A m \in AnyMessage : Mapped(<<m>>, CC(p, n)) = CC(p, n)[m]
      BY <2>1, MappedOne
    <3>2. \A r \in AnyResult : CC(p, n)[ToolMessage(K)[r]] = ResultCC(p, n)[r]
      BY ToolMessageIs
    <3> QED BY <1>1, <3>1, <3>2
  <2> HIDE DEF G
  <2>4. Mapped(rs, G) = Mapped(rs, ResultCC(p, n))
    BY <1>5, <1>6, <2>3, MappedSame
  <2> QED BY <1>3, <2>2, <2>4
<1> QED BY <1>4, <1>8, <1>9, <1>10 DEF ms

\* The messages of the results and those of the rest render a turn.
LEMMA RendersBoth ==
  ASSUME NEW t \in LegalTurn, NEW K, Faithful(K), NEW own, RendersOwn(t, own),
         own = <<>> => t.role # "system"
  PROVE  Renders(t, ToolMessages(t.results, K) \o own)
<1> DEFINE a == ToolMessages(t.results, K)
<1>1. /\ a \in Seq(AnyMessage) /\ Mapped(a, CallsOf) = <<>> /\ Mapped(a, SystemOf) = <<>>
      /\ Mapped(a, AnswersOf) = ResultIds(t.results)
      /\ \A p, n : Naming(p, n) => Mapped(a, CC(p, n)) = Mapped(t.results, ResultCC(p, n))
  BY LegalParts, ToolMessagesMapped
<1> HIDE DEF a
<1>2. /\ own \in Seq(AnyMessage) /\ Mapped(own, CallsOf) = t.calls /\ Mapped(own, AnswersOf) = <<>>
      /\ Mapped(own, SystemOf) = IF own # <<>> /\ t.role = "system" THEN TextOf(t.parts) ELSE <<>>
      /\ \A p, n : Naming(p, n) => Mapped(own, CC(p, n)) = OwnCC(t, p)
  BY DEF RendersOwn
<1>3. a \o own \in Seq(AnyMessage)
  BY <1>1, <1>2, ConcatProperties
<1>4. Mapped(a \o own, CallsOf) = t.calls
  <2>1. Mapped(a \o own, CallsOf) = <<>> \o t.calls
    <3>0. a \in Seq(AnyMessage) /\ Maps(CallsOf, AnyMessage, AnyCall)
      BY <1>1, MessageMaps
    <3>1. \A s \in Seq(AnyMessage) : Mapped(a \o s, CallsOf) = Mapped(a, CallsOf) \o Mapped(s, CallsOf)
      BY <3>0, MappedConcat
    <3> QED BY <1>1, <1>2, <3>1
  <2> QED BY <2>1, LegalParts, ConcatEmptySeq
<1>5. Mapped(a \o own, AnswersOf) = ResultIds(t.results)
  <2>1. Mapped(a \o own, AnswersOf) = Mapped(a, AnswersOf) \o <<>>
    <3>0. a \in Seq(AnyMessage) /\ Maps(AnswersOf, AnyMessage, AnyId)
      BY <1>1, MessageMaps
    <3>1. \A s \in Seq(AnyMessage) : Mapped(a \o s, AnswersOf) = Mapped(a, AnswersOf) \o Mapped(s, AnswersOf)
      BY <3>0, MappedConcat
    <3> QED BY <1>1, <1>2, <3>1
  <2>2. Mapped(a, AnswersOf) \in Seq(AnyId)
    BY <1>1, MessageMaps, MappedType
  <2> QED BY <1>1, <2>1, <2>2, ConcatEmptySeq
<1>6. Mapped(a \o own, SystemOf) = Mapped(own, SystemOf)
  <2>1. Mapped(a \o own, SystemOf) = <<>> \o Mapped(own, SystemOf)
    <3>0. a \in Seq(AnyMessage) /\ Maps(SystemOf, AnyMessage, Spots)
      BY <1>1, MessageMaps
    <3>1. \A s \in Seq(AnyMessage) : Mapped(a \o s, SystemOf) = Mapped(a, SystemOf) \o Mapped(s, SystemOf)
      BY <3>0, MappedConcat
    <3> QED BY <1>1, <1>2, <3>1
  <2>2. Mapped(own, SystemOf) \in Seq(Spots)
    BY <1>2, MessageMaps, MappedType
  <2> QED BY <2>1, <2>2, ConcatEmptySeq
<1>7. a \o own # <<>> /\ t.role = "system" <=> own # <<>> /\ t.role = "system"
  <2>1. t.role = "system" => own # <<>>
    OBVIOUS
  <2>2. own # <<>> => a \o own # <<>>
    BY <1>1, <1>2, ConcatProperties, EmptySeq, LenProperties
  <2> QED BY <2>1, <2>2
<1>8. ASSUME NEW p, NEW n, Naming(p, n) PROVE Mapped(a \o own, CC(p, n)) = TurnCC(p, n)[t]
  <2>1. Maps(CC(p, n), AnyMessage, CCMessage)
    BY <1>8, CCMaps
  <2>2. Mapped(a \o own, CC(p, n)) = Mapped(a, CC(p, n)) \o Mapped(own, CC(p, n))
    BY <1>1, <1>2, <2>1, MappedConcat
  <2> QED BY <1>1, <1>2, <1>8, <2>2 DEF TurnCC
<1>9. Renders(t, a \o own)
  BY <1>2, <1>3, <1>4, <1>5, <1>6, <1>7, <1>8 DEF Renders
<1> QED BY <1>9 DEF a

LEMMA NoMessage ==
  /\ Mapped(<<>>, CallsOf) = <<>> /\ Mapped(<<>>, AnswersOf) = <<>> /\ Mapped(<<>>, SystemOf) = <<>>
  /\ \A p, n : Mapped(<<>>, CC(p, n)) = <<>>
  BY MappedEmpty

\* What the translator makes of one message that renders what a turn says.
LEMMA OneMessage ==
  ASSUME NEW t \in LegalTurn, NEW m \in AnyMessage,
         CallsOf[m] = t.calls, AnswersOf[m] = <<>>,
         SystemOf[m] = IF t.role = "system" THEN TextOf(t.parts) ELSE <<>>,
         \A p, n : Naming(p, n) => CC(p, n)[m] = OwnCC(t, p)
  PROVE  RendersOwn(t, <<m>>)
<1>1. /\ Mapped(<<m>>, CallsOf) = CallsOf[m] /\ Mapped(<<m>>, AnswersOf) = AnswersOf[m]
      /\ Mapped(<<m>>, SystemOf) = SystemOf[m]
  BY MessageMaps, MappedOne
<1>2. \A p, n : Naming(p, n) => Mapped(<<m>>, CC(p, n)) = OwnCC(t, p)
  <2> SUFFICES ASSUME NEW p, NEW n, Naming(p, n) PROVE Mapped(<<m>>, CC(p, n)) = OwnCC(t, p)
    OBVIOUS
  <2>1. Mapped(<<m>>, CC(p, n)) = CC(p, n)[m]
    BY CCMaps, MappedOne
  <2> QED BY <2>1
<1>3. <<m>> \in Seq(AnyMessage) /\ <<m>> # <<>>
  OBVIOUS
<1> QED BY <1>1, <1>2, <1>3 DEF RendersOwn

\* A user's message: its content is translated as the parts of the turn are.
LEMMA UserMessage ==
  ASSUME NEW t \in LegalTurn, t.role = "user", t.parts # <<>>, NEW c \in AnyContent,
         userContentToCC(c) = UserCC(t.parts)
  PROVE  RendersOwn(t, <<Message("user", c)>>)
<1> DEFINE m == Message("user", c)
<1>1. m.role = "user" /\ m.content = c /\ m \in AnyMessage
  BY EmptySeq DEF Message, AnyMessage, AnyId
<1> HIDE DEF m
<1>2. CallsOf[m] = <<>> /\ AnswersOf[m] = <<>> /\ SystemOf[m] = <<>>
  BY <1>1 DEF CallsOf, AnswersOf, SystemOf
<1>3. t.calls = <<>>
  BY DEF LegalTurn
<1>4. \A p, n : CC(p, n)[m] = OwnCC(t, p)
  <2> TAKE p, n
  <2>1. CC(p, n)[m] = <<[role |-> "user", content |-> userContentToCC(c)]>>
    BY <1>1 DEF CC
  <2> QED BY <2>1 DEF OwnCC
<1> QED BY <1>1, <1>2, <1>3, <1>4, OneMessage DEF m

\* An assistant's message: its text and its calls are those of the turn.
LEMMA AssistantMessage ==
  ASSUME NEW t \in LegalTurn, t.role = "assistant", NEW c \in AnyContent,
         contentToText(c) = TextOf(t.parts)
  PROVE  RendersOwn(t, <<[Message("assistant", c) EXCEPT !.calls = t.calls]>>)
<1> DEFINE m == [Message("assistant", c) EXCEPT !.calls = t.calls]
<1>1. m = [role |-> "assistant", content |-> c, calls |-> t.calls, id |-> "none"]
  BY DEF Message
<1> HIDE DEF m
<1>2. m.role = "assistant" /\ m.content = c /\ m.calls = t.calls /\ m \in AnyMessage
  BY <1>1, LegalParts DEF AnyMessage, AnyId
<1>3. CallsOf[m] = t.calls /\ AnswersOf[m] = <<>> /\ SystemOf[m] = <<>>
  BY <1>2 DEF CallsOf, AnswersOf, SystemOf
<1>4. \A p, n : CC(p, n)[m] = OwnCC(t, p)
  <2> TAKE p, n
  <2>1. CC(p, n)[m] = AssistantMessages(contentToText(c), t.calls, p)
    BY <1>2 DEF CC
  <2> QED BY <2>1 DEF OwnCC
<1> QED BY <1>2, <1>3, <1>4, OneMessage DEF m

LEMMA SystemMessage ==
  ASSUME NEW t \in LegalTurn, t.role = "system", NEW c \in AnyContent,
         contentToText(c) = TextOf(t.parts)
  PROVE  RendersOwn(t, <<Message("system", c)>>)
<1> DEFINE m == Message("system", c)
<1>1. m.role = "system" /\ m.content = c /\ m \in AnyMessage
  BY EmptySeq DEF Message, AnyMessage, AnyId
<1> HIDE DEF m
<1>2. CallsOf[m] = <<>> /\ AnswersOf[m] = <<>> /\ SystemOf[m] = TextOf(t.parts)
  BY <1>1 DEF CallsOf, AnswersOf, SystemOf
<1>3. t.calls = <<>>
  BY DEF LegalTurn
<1>4. \A p, n : CC(p, n)[m] = OwnCC(t, p)
  BY <1>1 DEF CC, OwnCC
<1> QED BY <1>1, <1>2, <1>3, <1>4, OneMessage DEF m

\* A turn that says nothing besides its results.
LEMMA NothingOwn ==
  ASSUME NEW t \in LegalTurn, t.role = "user", t.parts = <<>>
  PROVE  RendersOwn(t, <<>>)
<1>1. t.calls = <<>>
  BY DEF LegalTurn
<1>2. \A p : OwnCC(t, p) = <<>>
  BY DEF OwnCC
<1> QED BY <1>1, <1>2, NoMessage, EmptySeq DEF RendersOwn

\* Chat Completions: AsOpenAI renders a turn.
OpenAIContent == [r \in AnyResult |-> Content(r.parts)]

LEMMA AsOpenAIRenders ==
  ASSUME NEW t \in LegalTurn
  PROVE  /\ Renders(t, AsOpenAI(t))
         /\ t.role = "system" => AsOpenAI(t) # <<>>
<1> DEFINE own == IF t.role = "user" /\ t.parts = <<>> THEN <<>>
                  ELSE <<[Message(t.role, Content(t.parts)) EXCEPT !.calls = t.calls]>>
<1>0. /\ t.role \in {"system", "user", "assistant"} /\ t.parts \in Seq(AnyPart)
      /\ t.results \in Seq(AnyResult)
  BY LegalParts
<1>1. Faithful(OpenAIContent)
  <2> SUFFICES ASSUME NEW r \in AnyResult
               PROVE  /\ Content(r.parts) \in AnyContent
                      /\ contentToText(Content(r.parts)) = TextOf(r.parts)
                      /\ imagePartsToCC(Content(r.parts)) = ImagesIn(r.parts)
    BY DEF Faithful, OpenAIContent
  <2>1. r.parts \in Seq(AnyPart)
    BY DEF AnyResult
  <2> QED BY <2>1, ContentOfParts
<1>2. AsOpenAI(t) = ToolMessages(t.results, OpenAIContent) \o own
  <2>1. \A i \in DOMAIN t.results : t.results[i] \in AnyResult
    BY <1>0, ElementOfSeq, LenProperties
  <2>2. ToolMessages(t.results, OpenAIContent)
          = [i \in DOMAIN t.results |->
               [Message("tool", Content(t.results[i].parts)) EXCEPT !.id = t.results[i].id]]
    BY <2>1 DEF ToolMessages, ToolMessage, OpenAIContent
  <2> QED BY <2>2 DEF AsOpenAI
<1>3. /\ Content(t.parts) \in AnyContent
      /\ contentToText(Content(t.parts)) = TextOf(t.parts)
      /\ userContentToCC(Content(t.parts)) = UserCC(t.parts)
  BY <1>0, ContentOfParts
<1>4. RendersOwn(t, own)
  <2>1. CASE t.role = "user" /\ t.parts = <<>>
    BY <2>1, NothingOwn
  <2>2. CASE t.role = "user" /\ t.parts # <<>>
    <3>1. t.calls = <<>>
      BY <2>2 DEF LegalTurn
    <3>2. own = <<Message("user", Content(t.parts))>>
      BY <2>2, <3>1 DEF Message
    <3> HIDE DEF own
    <3> QED BY <1>3, <2>2, <3>2, UserMessage
  <2>3. CASE t.role = "assistant"
    <3>1. own = <<[Message("assistant", Content(t.parts)) EXCEPT !.calls = t.calls]>>
      BY <2>3
    <3> HIDE DEF own
    <3> QED BY <1>3, <2>3, <3>1, AssistantMessage
  <2>4. CASE t.role = "system"
    <3>1. t.calls = <<>>
      BY <2>4 DEF LegalTurn
    <3>2. own = <<Message("system", Content(t.parts))>>
      BY <2>4, <3>1 DEF Message
    <3> HIDE DEF own
    <3> QED BY <1>3, <2>4, <3>2, SystemMessage
  <2> QED BY <1>0, <2>1, <2>2, <2>3, <2>4
<1>5. own = <<>> => t.role # "system"
  OBVIOUS
<1> HIDE DEF own
<1>6. Renders(t, ToolMessages(t.results, OpenAIContent) \o own)
  BY <1>1, <1>4, <1>5, RendersBoth
<1>7. t.role = "system" => ToolMessages(t.results, OpenAIContent) \o own # <<>>
  <2>1. ToolMessages(t.results, OpenAIContent) \in Seq(AnyMessage)
    BY <1>0, <1>1, ToolMessagesMapped
  <2>2. own \in Seq(AnyMessage)
    BY <1>4 DEF RendersOwn
  <2> QED BY <1>5, <2>1, <2>2, ConcatProperties, EmptySeq, LenProperties
<1> QED BY <1>2, <1>6, <1>7

-----------------------------------------------------------------------------
(* The blocks of a turn *)

ResultBlocks == [type : {"tool_result"}, id : Ids, content : AnyContent]
CallBlocks == [type : {"tool_use"}, id : Ids, name : AnyName]
Thinking == {[type |-> "thinking"]}
AnyBlock == ResultBlocks \cup CallBlocks \cup Thinking \cup AnyPart

BlockOfResult == [r \in AnyResult |-> [type |-> "tool_result", id |-> r.id, content |-> List(r.parts)]]
BlockOfCall == [c \in AnyCall |-> [type |-> "tool_use", id |-> c.id, name |-> c.name]]
ResultsAsBlocks(t) == [i \in DOMAIN t.results |-> BlockOfResult[t.results[i]]]
CallsAsBlocks(t) == [i \in DOMAIN t.calls |-> BlockOfCall[t.calls[i]]]
ThinkingOf(t) == IF t.role = "assistant" THEN <<[type |-> "thinking"]>> ELSE <<>>

LEMMA BlockTypes ==
  /\ \A b \in AnyBlock : b.type \in {"tool_result", "tool_use", "thinking", "text", "image"}
  /\ \A b \in ResultBlocks : b.type = "tool_result"
  /\ \A b \in CallBlocks : b.type = "tool_use"
  /\ \A b \in Thinking : b.type = "thinking"
  /\ \A b \in Texts : b.type = "text"
  /\ \A b \in Images : b.type = "image"
  BY DEF AnyBlock, ResultBlocks, CallBlocks, Thinking, AnyPart, Texts, Images

LEMMA BlocksType ==
  ASSUME NEW t \in LegalTurn
  PROVE  /\ ResultsAsBlocks(t) \in Seq(ResultBlocks) /\ ResultsAsBlocks(t) \in Seq(AnyBlock)
         /\ CallsAsBlocks(t) \in Seq(CallBlocks) /\ CallsAsBlocks(t) \in Seq(AnyBlock)
         /\ ThinkingOf(t) \in Seq(Thinking) /\ ThinkingOf(t) \in Seq(AnyBlock)
         /\ t.parts \in Seq(AnyBlock)
         /\ AsAnthropic(t).role = t.role
         /\ AsAnthropic(t).content
              = ((ResultsAsBlocks(t) \o ThinkingOf(t)) \o t.parts) \o CallsAsBlocks(t)
<1>1. t.calls \in Seq(AnyCall) /\ t.results \in Seq(AnyResult) /\ t.parts \in Seq(AnyPart)
  BY LegalParts
<1>2. /\ DOMAIN t.calls = 1..Len(t.calls) /\ Len(t.calls) \in Nat
      /\ \A i \in 1..Len(t.calls) : t.calls[i] \in AnyCall
      /\ DOMAIN t.results = 1..Len(t.results) /\ Len(t.results) \in Nat
      /\ \A i \in 1..Len(t.results) : t.results[i] \in AnyResult
  BY <1>1, ElementOfSeq, LenProperties
<1>3. \A r \in AnyResult : BlockOfResult[r] \in ResultBlocks
  <2> SUFFICES ASSUME NEW r \in AnyResult PROVE BlockOfResult[r] \in ResultBlocks
    OBVIOUS
  <2>1. List(r.parts) \in AnyContent /\ r.id \in Ids
    BY EmptySeq DEF AnyResult, List, AnyContent
  <2> QED BY <2>1 DEF BlockOfResult, ResultBlocks
<1>4. \A c \in AnyCall : BlockOfCall[c] \in CallBlocks
  BY DEF BlockOfCall, CallBlocks, AnyCall, AnyName
<1>5. ResultsAsBlocks(t) \in Seq(ResultBlocks)
  BY <1>2, <1>3, IsASeq DEF ResultsAsBlocks
<1>6. CallsAsBlocks(t) \in Seq(CallBlocks)
  BY <1>2, <1>4, IsASeq DEF CallsAsBlocks
<1>7. ThinkingOf(t) \in Seq(Thinking)
  <2>1. [type |-> "thinking"] \in Thinking
    BY DEF Thinking
  <2>2. <<[type |-> "thinking"]>> \in Seq(Thinking)
    BY <2>1
  <2> QED BY <2>2, EmptySeq DEF ThinkingOf
<1>8. \A S, s : S \subseteq AnyBlock /\ s \in Seq(S) => s \in Seq(AnyBlock)
  <2> SUFFICES ASSUME NEW S, NEW s \in Seq(S), S \subseteq AnyBlock PROVE s \in Seq(AnyBlock)
    OBVIOUS
  <2>1. \A i \in 1..Len(s) : s[i] \in AnyBlock
    BY ElementOfSeq
  <2> QED BY <2>1
<1>9. /\ ResultBlocks \subseteq AnyBlock /\ CallBlocks \subseteq AnyBlock
      /\ Thinking \subseteq AnyBlock /\ AnyPart \subseteq AnyBlock
  BY DEF AnyBlock
<1>10. /\ ResultsAsBlocks(t)
            = [i \in DOMAIN t.results |-> [type |-> "tool_result", id |-> t.results[i].id,
                                           content |-> List(t.results[i].parts)]]
       /\ CallsAsBlocks(t)
            = [i \in DOMAIN t.calls |-> [type |-> "tool_use", id |-> t.calls[i].id,
                                         name |-> t.calls[i].name]]
  BY <1>2, SMTT(60) DEF ResultsAsBlocks, CallsAsBlocks, BlockOfResult, BlockOfCall
<1>11. /\ AsAnthropic(t).role = t.role
       /\ AsAnthropic(t).content
            = ((ResultsAsBlocks(t) \o ThinkingOf(t)) \o t.parts) \o CallsAsBlocks(t)
  BY <1>10, ZenonT(60) DEF AsAnthropic, ThinkingOf
<1> QED BY <1>1, <1>5, <1>6, <1>7, <1>8, <1>9, <1>11

\* A selection of blocks is made of each kind by itself.
LEMMA SelectBlocks ==
  ASSUME NEW t \in LegalTurn, NEW S
  PROVE  Select(AsAnthropic(t).content, S)
           = ((Select(ResultsAsBlocks(t), S) \o Select(ThinkingOf(t), S)) \o Select(t.parts, S))
             \o Select(CallsAsBlocks(t), S)
<1> DEFINE a == ResultsAsBlocks(t)
           b == ThinkingOf(t)
           c == t.parts
           d == CallsAsBlocks(t)
<1>1. a \in Seq(AnyBlock) /\ b \in Seq(AnyBlock) /\ c \in Seq(AnyBlock) /\ d \in Seq(AnyBlock)
  BY BlocksType
<1>2. AsAnthropic(t).content = ((a \o b) \o c) \o d
  BY BlocksType
<1> HIDE DEF a, b, c, d
<1>3. a \o b \in Seq(AnyBlock) /\ (a \o b) \o c \in Seq(AnyBlock)
  BY <1>1, ConcatProperties
<1>4. \A q \in Seq(AnyBlock) : Select(a \o q, S) = Select(a, S) \o Select(q, S)
  BY <1>1, SelectConcat, ZenonT(60)
<1>5. \A q \in Seq(AnyBlock) : Select((a \o b) \o q, S) = Select(a \o b, S) \o Select(q, S)
  BY <1>3, SelectConcat, ZenonT(60)
<1>6. \A q \in Seq(AnyBlock) :
        Select(((a \o b) \o c) \o q, S) = Select((a \o b) \o c, S) \o Select(q, S)
  BY <1>3, SelectConcat, ZenonT(60)
<1>7. Select(((a \o b) \o c) \o d, S) = ((Select(a, S) \o Select(b, S)) \o Select(c, S)) \o Select(d, S)
  BY <1>1, <1>4, <1>5, <1>6
<1> QED BY <1>2, <1>7 DEF a, b, c, d

\* All or nothing of a list is selected, if all its elements are of a kind.
LEMMA SelectKind ==
  ASSUME NEW K, NEW S, NEW s \in Seq(K)
  PROVE  /\ K \subseteq S => Select(s, S) = s
         /\ K \cap S = {} => Select(s, S) = <<>>
<1>1. \A i \in 1..Len(s) : s[i] \in K
  BY ElementOfSeq
<1>2. ASSUME K \subseteq S PROVE Select(s, S) = s
  <2>1. \A i \in 1..Len(s) : s[i] \in S
    BY <1>1, <1>2
  <2> QED BY <2>1, SelectAll
<1>3. ASSUME K \cap S = {} PROVE Select(s, S) = <<>>
  <2>1. \A i \in 1..Len(s) : s[i] \notin S
    BY <1>1, <1>3
  <2> QED BY <2>1, SelectNone
<1> QED BY <1>2, <1>3

\* What the translator finds among the blocks of a turn.
OfType(x) == {b \in AnyBlock : b.type = x}
SayingSome == {b \in AnyBlock : b.type \in {"text", "image"} /\ b # Text(<<>>)}

LEMMA BlocksAre ==
  ASSUME NEW t \in LegalTurn
  PROVE  /\ \A x : Blocks(AsAnthropic(t), x) = Select(AsAnthropic(t).content, OfType(x))
         /\ Filter(AsAnthropic(t).content,
                   LAMBDA b : b.type \in {"text", "image"} /\ b # Text(<<>>))
              = Select(AsAnthropic(t).content, SayingSome)
<1> DEFINE c == AsAnthropic(t).content
<1>1. c \in Seq(AnyBlock)
  <2> DEFINE d == ResultsAsBlocks(t)
             e == ThinkingOf(t)
             f == t.parts
             g == CallsAsBlocks(t)
  <2>1. /\ d \in Seq(AnyBlock) /\ e \in Seq(AnyBlock) /\ f \in Seq(AnyBlock) /\ g \in Seq(AnyBlock)
        /\ c = ((d \o e) \o f) \o g
    BY BlocksType
  <2> HIDE DEF c, d, e, f, g
  <2>2. d \o e \in Seq(AnyBlock)
    BY <2>1, ConcatProperties
  <2>3. (d \o e) \o f \in Seq(AnyBlock)
    BY <2>1, <2>2, ConcatProperties
  <2> QED BY <2>1, <2>3, ConcatProperties
<1> HIDE DEF c
<1>2. \A i \in DOMAIN c : c[i] \in AnyBlock
  BY <1>1, ElementOfSeq, LenProperties
<1>3. \A x : [i \in DOMAIN c |-> IF c[i] \in OfType(x) THEN <<c[i]>> ELSE <<>>]
               = [i \in DOMAIN c |-> IF c[i].type = x THEN <<c[i]>> ELSE <<>>]
  BY <1>2 DEF OfType
<1>4. [i \in DOMAIN c |-> IF c[i] \in SayingSome THEN <<c[i]>> ELSE <<>>]
        = [i \in DOMAIN c |-> IF c[i].type \in {"text", "image"} /\ c[i] # Text(<<>>)
                              THEN <<c[i]>> ELSE <<>>]
  BY <1>2 DEF SayingSome
<1>5. \A x : Blocks(AsAnthropic(t), x) = Select(c, OfType(x))
  BY <1>3 DEF Blocks, Filter, FlatMap, Select, c
<1>6. Filter(c, LAMBDA b : b.type \in {"text", "image"} /\ b # Text(<<>>)) = Select(c, SayingSome)
  BY <1>4 DEF Filter, FlatMap, Select
<1> QED BY <1>5, <1>6 DEF c

LEMMA BlocksFound ==
  ASSUME NEW t \in LegalTurn
  PROVE  /\ Blocks(AsAnthropic(t), "tool_result") = ResultsAsBlocks(t)
         /\ Blocks(AsAnthropic(t), "text") = Select(t.parts, Texts)
         /\ Blocks(AsAnthropic(t), "tool_use") = CallsAsBlocks(t)
         /\ Filter(AsAnthropic(t).content,
                   LAMBDA b : b.type \in {"text", "image"} /\ b # Text(<<>>))
              = Select(t.parts, Full)
<1> DEFINE a == ResultsAsBlocks(t)
           b == ThinkingOf(t)
           c == t.parts
           d == CallsAsBlocks(t)
           m == AsAnthropic(t)
<1>1. /\ a \in Seq(ResultBlocks) /\ b \in Seq(Thinking) /\ c \in Seq(AnyPart) /\ d \in Seq(CallBlocks)
  BY BlocksType, LegalParts
<1>2. \A S : Select(m.content, S) = ((Select(a, S) \o Select(b, S)) \o Select(c, S)) \o Select(d, S)
  BY SelectBlocks
<1>3. \A x : Blocks(m, x) = Select(m.content, OfType(x))
  BY BlocksAre
<1>4. Filter(m.content, LAMBDA q : q.type \in {"text", "image"} /\ q # Text(<<>>))
        = Select(m.content, SayingSome)
  BY BlocksAre
<1> HIDE DEF a, b, c, d, m
<1>5. Blocks(m, "tool_result") = a
  <2> DEFINE S == OfType("tool_result")
  <2>1. /\ ResultBlocks \subseteq S /\ Thinking \cap S = {} /\ AnyPart \cap S = {}
        /\ CallBlocks \cap S = {}
    BY BlockTypes DEF OfType, AnyBlock, AnyPart
  <2> HIDE DEF S
  <2>2. Select(a, S) = a /\ Select(b, S) = <<>> /\ Select(c, S) = <<>> /\ Select(d, S) = <<>>
    BY <1>1, <2>1, SelectKind
  <2>3. ((a \o <<>>) \o <<>>) \o <<>> = a
    BY <1>1, ConcatEmptySeq
  <2> QED BY <1>2, <1>3, <2>2, <2>3 DEF S
<1>6. Blocks(m, "tool_use") = d
  <2> DEFINE S == OfType("tool_use")
  <2>1. /\ ResultBlocks \cap S = {} /\ Thinking \cap S = {} /\ AnyPart \cap S = {}
        /\ CallBlocks \subseteq S
    BY BlockTypes DEF OfType, AnyBlock, AnyPart
  <2> HIDE DEF S
  <2>2. Select(a, S) = <<>> /\ Select(b, S) = <<>> /\ Select(c, S) = <<>> /\ Select(d, S) = d
    BY <1>1, <2>1, SelectKind
  <2>3. ((<<>> \o <<>>) \o <<>>) \o d = d
    BY <1>1, ConcatEmptySeq, EmptySeq
  <2> QED BY <1>2, <1>3, <2>2, <2>3 DEF S
<1>7. Blocks(m, "text") = Select(c, Texts)
  <2> DEFINE S == OfType("text")
  <2>1. ResultBlocks \cap S = {} /\ Thinking \cap S = {} /\ CallBlocks \cap S = {}
    BY BlockTypes DEF OfType
  <2>2. \A q \in AnyPart : q \in S <=> q \in Texts
    BY PartType, BlockTypes DEF OfType, AnyBlock
  <2> HIDE DEF S
  <2>3. Select(c, S) = Select(c, Texts)
    BY <1>1, <2>2, SelectSame
  <2>4. Select(a, S) = <<>> /\ Select(b, S) = <<>> /\ Select(d, S) = <<>>
    BY <1>1, <2>1, SelectKind
  <2>5. \A q \in Seq(AnyPart) : ((<<>> \o <<>>) \o q) \o <<>> = q
    BY ConcatEmptySeq, EmptySeq
  <2>6. Select(c, Texts) \in Seq(AnyPart)
    BY <1>1, SelectType
  <2> QED BY <1>2, <1>3, <2>3, <2>4, <2>5, <2>6 DEF S
<1>8. Select(m.content, SayingSome) = Select(c, Full)
  <2> DEFINE S == SayingSome
  <2>1. ResultBlocks \cap S = {} /\ Thinking \cap S = {} /\ CallBlocks \cap S = {}
    BY BlockTypes DEF SayingSome
  <2>2. \A q \in AnyPart : q \in S <=> q \in Full
    BY PartType DEF SayingSome, AnyBlock, Full
  <2> HIDE DEF S
  <2>3. Select(c, S) = Select(c, Full)
    BY <1>1, <2>2, SelectSame
  <2>4. Select(a, S) = <<>> /\ Select(b, S) = <<>> /\ Select(d, S) = <<>>
    BY <1>1, <2>1, SelectKind
  <2>5. \A q \in Seq(AnyPart) : ((<<>> \o <<>>) \o q) \o <<>> = q
    BY ConcatEmptySeq, EmptySeq
  <2>6. Select(c, Full) \in Seq(AnyPart)
    BY <1>1, SelectType
  <2> QED BY <1>2, <2>3, <2>4, <2>5, <2>6 DEF S
<1> QED BY <1>4, <1>5, <1>6, <1>7, <1>8 DEF a, b, c, d, m

\* Messages: anthMessageToOpenAI renders a turn.
AnthropicContent == [r \in AnyResult |-> toolResultContent(List(r.parts))]

LEMMA AnthropicResults ==
  ASSUME NEW t \in LegalTurn
  PROVE  /\ Faithful(AnthropicContent)
         /\ toolResultsToOpenAI(AsAnthropic(t)) = ToolMessages(t.results, AnthropicContent)
<1> DEFINE K == AnthropicContent
           F == [r \in AnyResult |-> <<ToolMessage(K)[r]>>]
           rs == t.results
<1>1. Faithful(K)
  <2> SUFFICES ASSUME NEW r \in AnyResult
               PROVE  /\ toolResultContent(List(r.parts)) \in AnyContent
                      /\ contentToText(toolResultContent(List(r.parts))) = TextOf(r.parts)
                      /\ imagePartsToCC(toolResultContent(List(r.parts))) = ImagesIn(r.parts)
    BY DEF Faithful, AnthropicContent
  <2>1. r.parts \in Seq(AnyPart)
    BY DEF AnyResult
  <2> QED BY <2>1, ContentOfResult
<1>2. rs \in Seq(AnyResult) /\ \A i \in DOMAIN rs : rs[i] \in AnyResult
  BY LegalParts, ElementOfSeq, LenProperties
<1>3. \A i \in DOMAIN rs :
        <<[Message("tool", toolResultContent(ResultsAsBlocks(t)[i].content))
             EXCEPT !.id = ResultsAsBlocks(t)[i].id]>> = F[rs[i]]
  <2> SUFFICES ASSUME NEW i \in DOMAIN rs
               PROVE  <<[Message("tool", toolResultContent(ResultsAsBlocks(t)[i].content))
                           EXCEPT !.id = ResultsAsBlocks(t)[i].id]>> = F[rs[i]]
    OBVIOUS
  <2>1. rs[i] \in AnyResult
    BY <1>2
  <2>2. /\ ResultsAsBlocks(t)[i].content = List(rs[i].parts)
        /\ ResultsAsBlocks(t)[i].id = rs[i].id
    BY <2>1 DEF ResultsAsBlocks, BlockOfResult
  <2>3. F[rs[i]] = <<[Message("tool", toolResultContent(List(rs[i].parts))) EXCEPT !.id = rs[i].id]>>
    BY <2>1 DEF ToolMessage, AnthropicContent
  <2> QED BY <2>2, <2>3
<1>4. DOMAIN ResultsAsBlocks(t) = DOMAIN rs
  BY DEF ResultsAsBlocks
<1>5. toolResultsToOpenAI(AsAnthropic(t))
        = FlattenSeq([i \in DOMAIN ResultsAsBlocks(t) |->
            <<[Message("tool", toolResultContent(ResultsAsBlocks(t)[i].content))
                 EXCEPT !.id = ResultsAsBlocks(t)[i].id]>>])
  BY BlocksFound DEF toolResultsToOpenAI, FlatMap
<1> HIDE DEF F
<1>6. toolResultsToOpenAI(AsAnthropic(t)) = Mapped(rs, F)
  BY <1>3, <1>4, <1>5 DEF Mapped, ImagesOf
<1>7. Mapped(rs, F) = ToolMessages(rs, K)
  <2>1. Singles(F, ToolMessage(K), AnyResult, AnyMessage)
    <3>1. \A r \in AnyResult : ToolMessage(K)[r] \in AnyMessage
      BY <1>1, ToolMessageIs
    <3>2. \A r \in AnyResult : F[r] = <<ToolMessage(K)[r]>>
      BY DEF F
    <3> QED BY <3>1, <3>2 DEF Singles
  <2>2. \A s \in Seq(AnyResult) : Mapped(s, F) = [i \in DOMAIN s |-> ToolMessage(K)[s[i]]]
    BY <2>1, MappedSingle
  <2> QED BY <1>2, <2>2 DEF ToolMessages
<1> QED BY <1>1, <1>6, <1>7

\* The empty texts do not change what the parts say.
LEMMA FullParts ==
  ASSUME NEW ps \in Seq(AnyPart)
  PROVE  /\ Select(ps, Full) \in Seq(AnyPart)
         /\ TextOf(Select(ps, Full)) = TextOf(ps)
         /\ ImagesIn(Select(ps, Full)) = ImagesIn(ps)
         /\ Select(Select(ps, Full), Full) = Select(ps, Full)
         /\ (\E i \in 1..Len(ps) : ps[i] \in Full) => Select(ps, Full) # <<>>
<1>1. Select(ps, Full) \in Seq(AnyPart)
  BY SelectType
<1>2. TextOf(Select(ps, Full)) = TextOf(ps)
  <2>1. \A q \in AnyPart : q \notin Full => TextIn[q] = <<>>
    BY DEF Full, TextIn, Text
  <2>2. TextIn = [q \in AnyPart |-> TextIn[q]]
    BY DEF TextIn
  <2>3. \A s \in Seq(AnyPart) : Mapped(Select(s, Full), TextIn) = Mapped(s, TextIn)
    BY <2>1, <2>2, TextInMaps, SelectIdle
  <2> QED BY <2>3 DEF TextOf
<1>3. ImagesIn(Select(ps, Full)) = ImagesIn(ps)
  <2>1. Select(Select(ps, Full), Images) = Select(ps, Full \cap Images)
    BY SelectSelect
  <2>2. Full \cap Images = Images
    <3>1. \A q \in Images : q.type = "image"
      BY BlockTypes
    <3>2. Text(<<>>).type = "text"
      BY DEF Text
    <3>3. Text(<<>>) \notin Images
      BY <3>1, <3>2
    <3> QED BY <3>3 DEF Full, AnyPart
  <2> QED BY <2>1, <2>2 DEF ImagesIn
<1>4. Select(Select(ps, Full), Full) = Select(ps, Full)
  <2>1. Select(Select(ps, Full), Full) = Select(ps, Full \cap Full)
    BY SelectSelect
  <2>2. Full \cap Full = Full
    OBVIOUS
  <2> QED BY <2>1, <2>2
<1>5. ASSUME NEW i \in 1..Len(ps), ps[i] \in Full PROVE Select(ps, Full) # <<>>
  <2>1. ToSet(Select(ps, Full)) = ToSet(ps) \cap Full
    BY SelectElements
  <2>2. ps[i] \in ToSet(ps)
    BY LenProperties DEF ToSet
  <2>3. ToSet(<<>>) = {}
    BY DEF ToSet
  <2> QED BY <1>5, <2>1, <2>2, <2>3
<1> QED BY <1>1, <1>2, <1>3, <1>4, <1>5

LEMMA ListType ==
  \A ps \in Seq(AnyPart) : /\ List(ps) \in AnyContent /\ List(ps).parts = ps
                           /\ contentToText(List(ps)) = TextOf(ps)
                           /\ imagePartsToCC(List(ps)) = ImagesIn(ps)
                           /\ userContentToCC(List(ps)) = UserCC(ps)
<1> TAKE ps \in Seq(AnyPart)
<1>1. List(ps) \in AnyContent /\ List(ps).text = <<>> /\ List(ps).parts = ps
  BY EmptySeq DEF List, AnyContent
<1>2. <<>> \o TextOf(ps) = TextOf(ps)
  BY PartsType, ConcatEmptySeq
<1> QED BY <1>1, <1>2, ContentText, ContentImages, ContentUser DEF UserCC

LEMMA StringType ==
  \A s \in Seq(Spots) : /\ String(s) \in AnyContent
                        /\ contentToText(String(s)) = s
                        /\ userContentToCC(String(s)) = <<Text(s)>>
<1> TAKE s \in Seq(Spots)
<1>1. String(s) \in AnyContent /\ String(s).text = s /\ String(s).parts = <<>>
  BY EmptySeq DEF String, AnyContent
<1>2. s \o TextOf(<<>>) = s /\ ImagesIn(<<>>) = <<>>
  BY PartsEmpty, ConcatEmptySeq
<1> QED BY <1>1, <1>2, ContentText, ContentUser

LEMMA AnthropicWords ==
  ASSUME NEW t \in LegalTurn, t.role = "user"
  PROVE  RendersOwn(t, userPartsToOpenAI(AsAnthropic(t)))
<1> DEFINE ps == Select(t.parts, Full)
           own == userPartsToOpenAI(AsAnthropic(t))
<1>1. /\ t.parts \in Seq(AnyPart)
      /\ t.parts # <<>> => \E i \in 1..Len(t.parts) : t.parts[i] \in Full
  BY LegalParts DEF LegalTurn
<1>2. own = IF imagePartsToCC(List(ps)) # <<>> THEN <<Message("user", List(ps))>>
            ELSE IF ps # <<>> THEN <<Message("user", String(contentToText(List(ps))))>>
            ELSE <<>>
  BY BlocksFound DEF userPartsToOpenAI
<1>3. /\ ps \in Seq(AnyPart) /\ TextOf(ps) = TextOf(t.parts) /\ ImagesIn(ps) = ImagesIn(t.parts)
      /\ Select(ps, Full) = ps /\ (t.parts # <<>> => ps # <<>>)
  BY <1>1, FullParts
<1>4. t.parts = <<>> => ps = <<>>
  BY SelectEmpty
<1>5. UserCC(t.parts) = IF ImagesIn(ps) # <<>> THEN ps ELSE <<Text(TextOf(ps))>>
  BY <1>3 DEF UserCC
<1> HIDE DEF ps, own
<1>6. /\ List(ps) \in AnyContent /\ contentToText(List(ps)) = TextOf(ps)
      /\ imagePartsToCC(List(ps)) = ImagesIn(ps) /\ userContentToCC(List(ps)) = UserCC(ps)
  BY <1>3, ListType
<1>7. CASE ImagesIn(ps) # <<>>
  <2>1. own = <<Message("user", List(ps))>>
    BY <1>2, <1>6, <1>7
  <2>2. t.parts # <<>>
    BY <1>4, <1>7, PartsEmpty
  <2>3. userContentToCC(List(ps)) = UserCC(t.parts)
    BY <1>3, <1>5, <1>6, <1>7 DEF UserCC
  <2> QED BY <1>6, <2>1, <2>2, <2>3, UserMessage DEF own
<1>8. CASE ImagesIn(ps) = <<>> /\ ps # <<>>
  <2> DEFINE c == String(TextOf(ps))
  <2>1. own = <<Message("user", c)>>
    BY <1>2, <1>6, <1>8
  <2>2. TextOf(ps) \in Seq(Spots)
    BY <1>3, PartsType
  <2>3. c \in AnyContent /\ userContentToCC(c) = UserCC(t.parts)
    BY <1>5, <1>8, <2>2, StringType
  <2> HIDE DEF c
  <2> QED BY <1>4, <1>8, <2>1, <2>3, UserMessage DEF own
<1>9. CASE ImagesIn(ps) = <<>> /\ ps = <<>>
  <2>1. own = <<>> /\ t.parts = <<>>
    BY <1>2, <1>3, <1>6, <1>9
  <2> QED BY <2>1, NothingOwn DEF own
<1> QED BY <1>7, <1>8, <1>9

LEMMA AnthropicReply ==
  ASSUME NEW t \in LegalTurn, t.role = "assistant"
  PROVE  RendersOwn(t, assistantToOpenAI(AsAnthropic(t)))
<1> DEFINE m == AsAnthropic(t)
           c == String(TextOf(t.parts))
<1>1. t.parts \in Seq(AnyPart) /\ t.calls \in Seq(AnyCall) /\ \A i \in DOMAIN t.calls : t.calls[i] \in AnyCall
  BY LegalParts, ElementOfSeq, LenProperties
<1>2. FlatMap(Blocks(m, "text"), LAMBDA b : b.text) = TextOf(t.parts)
  <2> DEFINE ts == Select(t.parts, Texts)
  <2>1. Blocks(m, "text") = ts
    BY BlocksFound
  <2>2. ts \in Seq(Texts)
    BY <1>1, SelectWithin
  <2>3. \A q \in AnyPart : q \notin Texts => TextIn[q] = <<>>
    BY PartType DEF TextIn
  <2>4. TextIn = [q \in AnyPart |-> TextIn[q]]
    BY DEF TextIn
  <2>5. \A s \in Seq(AnyPart) : Mapped(Select(s, Texts), TextIn) = Mapped(s, TextIn)
    BY <2>3, <2>4, TextInMaps, SelectIdle
  <2>6. Mapped(ts, TextIn) = TextOf(t.parts)
    BY <1>1, <2>5 DEF TextOf
  <2> HIDE DEF ts, m
  <2>7. \A i \in DOMAIN ts : ts[i] \in Texts
    BY <2>2, ElementOfSeq, LenProperties
  <2>8. \A q \in Texts : TextIn[q] = q.text
    BY DEF TextIn, AnyPart, Texts
  <2>9. FlatMap(ts, LAMBDA b : b.text) = Mapped(ts, TextIn)
    <3>1. [i \in DOMAIN ts |-> ts[i].text] = [i \in DOMAIN ts |-> TextIn[ts[i]]]
      BY <2>7, <2>8
    <3> QED BY <3>1 DEF FlatMap, Mapped, ImagesOf
  <2> QED BY <2>1, <2>6, <2>9
<1>3. [i \in DOMAIN Blocks(m, "tool_use") |->
         [id |-> Blocks(m, "tool_use")[i].id, name |-> Blocks(m, "tool_use")[i].name]] = t.calls
  <2>1. Blocks(m, "tool_use") = CallsAsBlocks(t)
    BY BlocksFound
  <2>2. DOMAIN CallsAsBlocks(t) = DOMAIN t.calls
    BY DEF CallsAsBlocks
  <2>3. \A i \in DOMAIN t.calls :
          [id |-> CallsAsBlocks(t)[i].id, name |-> CallsAsBlocks(t)[i].name] = t.calls[i]
    <3> SUFFICES ASSUME NEW i \in DOMAIN t.calls
                 PROVE  [id |-> CallsAsBlocks(t)[i].id, name |-> CallsAsBlocks(t)[i].name] = t.calls[i]
      OBVIOUS
    <3>1. t.calls[i] \in AnyCall
      BY <1>1
    <3>2. CallsAsBlocks(t)[i].id = t.calls[i].id /\ CallsAsBlocks(t)[i].name = t.calls[i].name
      BY <3>1 DEF CallsAsBlocks, BlockOfCall
    <3> QED BY <3>1, <3>2 DEF AnyCall
  <2>4. t.calls = [i \in DOMAIN t.calls |-> t.calls[i]]
    BY <1>1
  <2> HIDE DEF m
  <2> QED BY <2>1, <2>2, <2>3, <2>4
<1>4. assistantToOpenAI(m) = <<[Message("assistant", c) EXCEPT !.calls = t.calls]>>
  BY <1>2, <1>3 DEF assistantToOpenAI
<1>5. TextOf(t.parts) \in Seq(Spots)
  BY <1>1, PartsType
<1>6. c \in AnyContent /\ contentToText(c) = TextOf(t.parts)
  BY <1>5, StringType
<1> HIDE DEF c, m
<1>7. RendersOwn(t, <<[Message("assistant", c) EXCEPT !.calls = t.calls]>>)
  BY <1>6, AssistantMessage
<1> QED BY <1>4, <1>7 DEF m

LEMMA AsAnthropicRenders ==
  ASSUME NEW t \in LegalTurn, t.role # "system"
  PROVE  Renders(t, anthMessageToOpenAI(AsAnthropic(t)))
<1>0. AsAnthropic(t).role = t.role /\ t.role \in {"user", "assistant"} /\ t.results \in Seq(AnyResult)
  BY BlocksType, LegalParts
<1>1. CASE t.role = "user"
  <2>1. anthMessageToOpenAI(AsAnthropic(t))
          = toolResultsToOpenAI(AsAnthropic(t)) \o userPartsToOpenAI(AsAnthropic(t))
    BY <1>0, <1>1 DEF anthMessageToOpenAI
  <2>2. Renders(t, ToolMessages(t.results, AnthropicContent) \o userPartsToOpenAI(AsAnthropic(t)))
    BY <1>1, AnthropicResults, AnthropicWords, RendersBoth
  <2> QED BY <2>1, <2>2, AnthropicResults
<1>2. CASE t.role = "assistant"
  <2> DEFINE own == assistantToOpenAI(AsAnthropic(t))
  <2>1. anthMessageToOpenAI(AsAnthropic(t)) = own
    BY <1>0, <1>2 DEF anthMessageToOpenAI
  <2>2. RendersOwn(t, own) /\ t.results = <<>>
    BY <1>2, AnthropicReply DEF LegalTurn
  <2> HIDE DEF own
  <2>3. Renders(t, ToolMessages(t.results, AnthropicContent) \o own)
    BY <1>2, <2>2, AnthropicResults, RendersBoth
  <2>4. ToolMessages(t.results, AnthropicContent) = <<>>
    BY <2>2 DEF ToolMessages
  <2>5. <<>> \o own = own
    BY <2>2, ConcatEmptySeq DEF RendersOwn
  <2> QED BY <2>1, <2>3, <2>4, <2>5
<1> QED BY <1>0, <1>1, <1>2

-----------------------------------------------------------------------------
(* A history, rendered and translated *)

TurnCalls == [t \in LegalTurn |-> t.calls]
TurnAnswers == [t \in LegalTurn |-> ResultIds(t.results)]
TurnSystem == [t \in LegalTurn |-> IF t.role = "system" THEN TextOf(t.parts) ELSE <<>>]

PairedIn(q) == Paired(Mapped(q, TurnCalls), Mapped(q, TurnAnswers))
NamesIn(q) == NamesOf(Mapped(q, TurnCalls))

\* The request for a history, whichever API it comes through.
Translation(q) == [messages |-> Mapped(q, TurnCC(PairedIn(q), NamesIn(q))),
                   system |-> Mapped(q, TurnSystem)]

LEMMA TurnMaps ==
  /\ Maps(TurnCalls, LegalTurn, AnyCall)
  /\ Maps(TurnAnswers, LegalTurn, Ids)
  /\ Maps(TurnSystem, LegalTurn, Spots)
<1>1. Maps(TurnCalls, LegalTurn, AnyCall)
  BY LegalParts DEF Maps, TurnCalls
<1>2. Maps(TurnAnswers, LegalTurn, Ids)
  <2> SUFFICES ASSUME NEW t \in LegalTurn PROVE ResultIds(t.results) \in Seq(Ids)
    BY DEF Maps, TurnAnswers
  <2> DEFINE rs == t.results
  <2>1. rs \in Seq(AnyResult) /\ DOMAIN rs = 1..Len(rs) /\ Len(rs) \in Nat
    BY LegalParts, LenProperties
  <2> HIDE DEF rs
  <2>2. \A i \in 1..Len(rs) : rs[i].id \in Ids
    <3>1. \A i \in 1..Len(rs) : rs[i] \in AnyResult
      BY <2>1, ElementOfSeq
    <3>2. \A r \in AnyResult : r.id \in Ids
      BY DEF AnyResult
    <3> QED BY <3>1, <3>2
  <2>3. ResultIds(rs) \in Seq(Ids)
    BY <2>1, <2>2, IsASeq DEF ResultIds
  <2> QED BY <2>3 DEF rs
<1>3. Maps(TurnSystem, LegalTurn, Spots)
  <2> SUFFICES ASSUME NEW t \in LegalTurn PROVE TextOf(t.parts) \in Seq(Spots)
    BY EmptySeq DEF Maps, TurnSystem
  <2> QED BY LegalParts, PartsType
<1> QED BY <1>1, <1>2, <1>3

LEMMA TurnCCMaps ==
  ASSUME NEW p, NEW n, Naming(p, n)
  PROVE  /\ Maps(ResultCC(p, n), AnyResult, CCMessage)
         /\ \A t \in LegalTurn : OwnCC(t, p) \in Seq(CCMessage)
         /\ Maps(TurnCC(p, n), LegalTurn, CCMessage)
<1>1. Maps(ResultCC(p, n), AnyResult, CCMessage)
  <2> SUFFICES ASSUME NEW r \in AnyResult
               PROVE  ResultMessages(r.id, TextOf(r.parts), ImagesIn(r.parts), p, n) \in Seq(CCMessage)
    BY DEF Maps, ResultCC
  <2>1. r.id \in Ids /\ r.parts \in Seq(AnyPart)
    BY DEF AnyResult
  <2>2. TextOf(r.parts) \in Seq(Spots) /\ ImagesIn(r.parts) \in Seq(AnyPart)
    BY <2>1, PartsType
  <2> QED BY <2>1, <2>2, ResultType
<1>2. ASSUME NEW t \in LegalTurn PROVE OwnCC(t, p) \in Seq(CCMessage)
  <2>1. t.parts \in Seq(AnyPart) /\ t.calls \in Seq(AnyCall) /\ TextOf(t.parts) \in Seq(Spots)
    BY LegalParts, PartsType
  <2>2. UserCC(t.parts) \in Seq(CCPart)
    <3>1. Select(t.parts, Full) \in Seq(AnyPart) /\ <<Text(TextOf(t.parts))>> \in Seq(AnyPart)
      BY <2>1, SelectType, OneText
    <3> QED BY <3>1, AnyPartsAreCC DEF UserCC
  <2>3. \A ps \in Seq(CCPart) : <<[role |-> "user", content |-> ps]>> \in Seq(CCMessage)
    BY DEF CCMessage
  <2>4. AssistantMessages(TextOf(t.parts), t.calls, p) \in Seq(CCMessage)
    BY <2>1, AssistantType
  <2> QED BY <2>2, <2>3, <2>4, EmptySeq DEF OwnCC
<1>3. Maps(TurnCC(p, n), LegalTurn, CCMessage)
  <2> SUFFICES ASSUME NEW t \in LegalTurn
               PROVE  Mapped(t.results, ResultCC(p, n)) \o OwnCC(t, p) \in Seq(CCMessage)
    BY DEF Maps, TurnCC
  <2>1. Mapped(t.results, ResultCC(p, n)) \in Seq(CCMessage)
    BY <1>1, LegalParts, MappedType
  <2> QED BY <1>2, <2>1, ConcatProperties
<1> QED BY <1>1, <1>2, <1>3

\* Messages that render every turn render the history.
LEMMA HistoryRendered ==
  ASSUME NEW M, \A t \in LegalTurn : Renders(t, M[t])
  PROVE  /\ Maps(M, LegalTurn, AnyMessage)
         /\ \A q \in Seq(LegalTurn) :
              /\ Mapped(q, M) \in Seq(AnyMessage)
              /\ Mapped(Mapped(q, M), CallsOf) = Mapped(q, TurnCalls)
              /\ Mapped(Mapped(q, M), AnswersOf) = Mapped(q, TurnAnswers)
              /\ \A p, n : Naming(p, n) => Mapped(Mapped(q, M), CC(p, n)) = Mapped(q, TurnCC(p, n))
<1>1. Maps(M, LegalTurn, AnyMessage)
  BY DEF Maps, Renders
<1>2. \A q \in Seq(LegalTurn) : Mapped(q, M) \in Seq(AnyMessage)
  BY <1>1, MappedType
<1>3. \A q \in Seq(LegalTurn) : \A i \in DOMAIN q : q[i] \in LegalTurn
  BY ElementOfSeq, LenProperties
<1>4. ASSUME NEW q \in Seq(LegalTurn) PROVE Mapped(Mapped(q, M), CallsOf) = Mapped(q, TurnCalls)
  <2> DEFINE G == [t \in LegalTurn |-> Mapped(M[t], CallsOf)]
  <2>1. Mapped(Mapped(q, M), CallsOf) = Mapped(q, G)
    BY <1>1, MessageMaps, MappedMapped
  <2>2. \A t \in LegalTurn : G[t] = TurnCalls[t]
    BY DEF Renders, TurnCalls
  <2> HIDE DEF G
  <2>3. Mapped(q, G) = Mapped(q, TurnCalls)
    BY <1>3, <2>2, MappedSame
  <2> QED BY <2>1, <2>3
<1>5. ASSUME NEW q \in Seq(LegalTurn) PROVE Mapped(Mapped(q, M), AnswersOf) = Mapped(q, TurnAnswers)
  <2> DEFINE G == [t \in LegalTurn |-> Mapped(M[t], AnswersOf)]
  <2>1. Mapped(Mapped(q, M), AnswersOf) = Mapped(q, G)
    BY <1>1, MessageMaps, MappedMapped
  <2>2. \A t \in LegalTurn : G[t] = TurnAnswers[t]
    BY DEF Renders, TurnAnswers
  <2> HIDE DEF G
  <2>3. Mapped(q, G) = Mapped(q, TurnAnswers)
    BY <1>3, <2>2, MappedSame
  <2> QED BY <2>1, <2>3
<1>6. ASSUME NEW q \in Seq(LegalTurn), NEW p, NEW n, Naming(p, n)
      PROVE  Mapped(Mapped(q, M), CC(p, n)) = Mapped(q, TurnCC(p, n))
  <2> DEFINE G == [t \in LegalTurn |-> Mapped(M[t], CC(p, n))]
  <2>1. Mapped(Mapped(q, M), CC(p, n)) = Mapped(q, G)
    BY <1>1, <1>6, CCMaps, MappedMapped
  <2>2. \A t \in LegalTurn : G[t] = TurnCC(p, n)[t]
    BY <1>6 DEF Renders
  <2> HIDE DEF G
  <2>3. Mapped(q, G) = Mapped(q, TurnCC(p, n))
    BY <1>3, <2>2, MappedSame
  <2> QED BY <2>1, <2>3
<1> QED BY <1>1, <1>2, <1>4, <1>5, <1>6

\* Through Chat Completions.
ByOpenAI == [t \in LegalTurn |-> AsOpenAI(t)]

LEMMA TranslatedOpenAI ==
  ASSUME NEW q \in Seq(LegalTurn), Naming(PairedIn(q), NamesIn(q))
  PROVE  BuildCCRequest(FlatMap(q, AsOpenAI)) = Translation(q)
<1> DEFINE ms == Mapped(q, ByOpenAI)
<1>1. \A i \in DOMAIN q : q[i] \in LegalTurn
  BY ElementOfSeq, LenProperties
<1>2. FlatMap(q, AsOpenAI) = ms
  <2>1. [i \in DOMAIN q |-> AsOpenAI(q[i])] = [i \in DOMAIN q |-> ByOpenAI[q[i]]]
    BY <1>1 DEF ByOpenAI
  <2> QED BY <2>1 DEF FlatMap, Mapped, ImagesOf
<1>3. \A t \in LegalTurn : Renders(t, ByOpenAI[t]) /\ (t.role = "system" => ByOpenAI[t] # <<>>)
  BY AsOpenAIRenders DEF ByOpenAI
<1>4. /\ Maps(ByOpenAI, LegalTurn, AnyMessage)
      /\ ms \in Seq(AnyMessage)
      /\ Mapped(ms, CallsOf) = Mapped(q, TurnCalls)
      /\ Mapped(ms, AnswersOf) = Mapped(q, TurnAnswers)
      /\ \A p, n : Naming(p, n) => Mapped(ms, CC(p, n)) = Mapped(q, TurnCC(p, n))
  BY <1>3, HistoryRendered
<1>5. Mapped(ms, SystemOf) = Mapped(q, TurnSystem)
  <2> DEFINE G == [t \in LegalTurn |-> Mapped(ByOpenAI[t], SystemOf)]
  <2>1. Mapped(Mapped(q, ByOpenAI), SystemOf) = Mapped(q, G)
    BY <1>4, MessageMaps, MappedMapped
  <2>2. \A t \in LegalTurn : G[t] = TurnSystem[t]
    BY <1>3 DEF Renders, TurnSystem
  <2> HIDE DEF G
  <2>3. Mapped(q, G) = Mapped(q, TurnSystem)
    BY <1>1, <2>2, MappedSame
  <2> QED BY <2>1, <2>3
<1> HIDE DEF ms
<1> DEFINE calls == Mapped(ms, CallsOf)
           answers == Mapped(ms, AnswersOf)
<1>6. Paired(calls, answers) = PairedIn(q) /\ NamesOf(calls) = NamesIn(q)
  BY <1>4 DEF PairedIn, NamesIn
<1>7. BuildCCRequest(ms)
        = [messages |-> Mapped(ms, CC(Paired(calls, answers), NamesOf(calls))),
           system |-> Mapped(ms, SystemOf)]
  BY <1>4, <1>6, RequestMapped
<1> HIDE DEF calls, answers
<1>8. BuildCCRequest(ms) = Translation(q)
  BY <1>4, <1>5, <1>6, <1>7 DEF Translation
<1> QED BY <1>2, <1>8

\* Through Messages: the system texts apart, the other turns rewritten.
Said == {t \in LegalTurn : t.role # "system"}
Rewritten == {AsAnthropic(t) : t \in Said}
SystemParts == [t \in LegalTurn |-> IF t.role = "system" THEN t.parts ELSE <<>>]
ToAnthropic == [t \in LegalTurn |-> IF t.role = "system" THEN <<>> ELSE <<AsAnthropic(t)>>]
ToMessages == [m \in Rewritten |-> anthMessageToOpenAI(m)]
ByAnthropic == [t \in LegalTurn |->
                  IF t.role = "system" THEN <<>> ELSE anthMessageToOpenAI(AsAnthropic(t))]

LEMMA ByAnthropicRenders ==
  \A t \in LegalTurn : /\ Renders(t, ByAnthropic[t])
                       /\ Mapped(ByAnthropic[t], SystemOf) = <<>>
<1> SUFFICES ASSUME NEW t \in LegalTurn
             PROVE  /\ Renders(t, ByAnthropic[t])
                    /\ Mapped(ByAnthropic[t], SystemOf) = <<>>
  OBVIOUS
<1>1. CASE t.role # "system"
  <2>1. ByAnthropic[t] = anthMessageToOpenAI(AsAnthropic(t))
    BY <1>1 DEF ByAnthropic
  <2>2. Renders(t, ByAnthropic[t])
    BY <1>1, <2>1, AsAnthropicRenders
  <2> QED BY <1>1, <2>2 DEF Renders
<1>2. CASE t.role = "system"
  <2>1. ByAnthropic[t] = <<>> /\ t.calls = <<>> /\ t.results = <<>>
    BY <1>2 DEF ByAnthropic, LegalTurn
  <2>2. ResultIds(t.results) = <<>>
    BY <2>1 DEF ResultIds
  <2>3. \A p, n : TurnCC(p, n)[t] = <<>>
    <3> TAKE p, n
    <3>1. TurnCC(p, n)[t] = Mapped(<<>>, ResultCC(p, n)) \o <<>>
      BY <1>2, <2>1 DEF TurnCC, OwnCC
    <3>2. Mapped(<<>>, ResultCC(p, n)) = <<>>
      BY MappedEmpty
    <3> QED BY <3>1, <3>2, ConcatEmptySeq, EmptySeq
  <2> QED BY <2>1, <2>2, <2>3, NoMessage, EmptySeq DEF Renders
<1> QED BY <1>1, <1>2

LEMMA AnthropicMapped ==
  ASSUME NEW q \in Seq(LegalTurn)
  PROVE  FlatMap(FlatMap(q, LAMBDA t : IF t.role = "system" THEN <<>> ELSE <<AsAnthropic(t)>>),
                 anthMessageToOpenAI) = Mapped(q, ByAnthropic)
<1>1. \A i \in DOMAIN q : q[i] \in LegalTurn
  BY ElementOfSeq, LenProperties
<1>2. FlatMap(q, LAMBDA t : IF t.role = "system" THEN <<>> ELSE <<AsAnthropic(t)>>)
        = Mapped(q, ToAnthropic)
  <2>1. [i \in DOMAIN q |-> IF q[i].role = "system" THEN <<>> ELSE <<AsAnthropic(q[i])>>]
          = [i \in DOMAIN q |-> ToAnthropic[q[i]]]
    BY <1>1 DEF ToAnthropic
  <2> QED BY <2>1 DEF FlatMap, Mapped, ImagesOf
<1>3. Maps(ToAnthropic, LegalTurn, Rewritten)
  <2> SUFFICES ASSUME NEW t \in LegalTurn PROVE ToAnthropic[t] \in Seq(Rewritten)
    BY DEF Maps
  <2>1. CASE t.role = "system"
    BY <2>1, EmptySeq DEF ToAnthropic
  <2>2. CASE t.role # "system"
    <3>1. AsAnthropic(t) \in Rewritten
      BY <2>2 DEF Rewritten, Said
    <3>2. \A m \in Rewritten : <<m>> \in Seq(Rewritten)
      OBVIOUS
    <3>3. ToAnthropic[t] = <<AsAnthropic(t)>>
      BY <2>2 DEF ToAnthropic
    <3> QED BY <3>1, <3>2, <3>3
  <2> QED BY <2>1, <2>2
<1>4. Maps(ToMessages, Rewritten, AnyMessage)
  <2> SUFFICES ASSUME NEW t \in Said PROVE anthMessageToOpenAI(AsAnthropic(t)) \in Seq(AnyMessage)
    BY DEF Maps, ToMessages, Rewritten
  <2> QED BY AsAnthropicRenders DEF Said, Renders
<1>5. FlatMap(Mapped(q, ToAnthropic), anthMessageToOpenAI) = Mapped(Mapped(q, ToAnthropic), ToMessages)
  <2> DEFINE s == Mapped(q, ToAnthropic)
  <2>1. s \in Seq(Rewritten)
    BY <1>3, MappedType
  <2> HIDE DEF s
  <2>2. \A i \in DOMAIN s : s[i] \in Rewritten
    BY <2>1, ElementOfSeq, LenProperties
  <2>3. [i \in DOMAIN s |-> anthMessageToOpenAI(s[i])] = [i \in DOMAIN s |-> ToMessages[s[i]]]
    BY <2>2 DEF ToMessages
  <2>4. FlatMap(s, anthMessageToOpenAI) = Mapped(s, ToMessages)
    BY <2>3 DEF FlatMap, Mapped, ImagesOf
  <2> QED BY <2>4 DEF s
<1> DEFINE G == [t \in LegalTurn |-> Mapped(ToAnthropic[t], ToMessages)]
<1>6. Mapped(Mapped(q, ToAnthropic), ToMessages) = Mapped(q, G)
  BY <1>3, <1>4, MappedMapped
<1>7. \A t \in LegalTurn : G[t] = ByAnthropic[t]
  <2> SUFFICES ASSUME NEW t \in LegalTurn PROVE Mapped(ToAnthropic[t], ToMessages) = ByAnthropic[t]
    OBVIOUS
  <2>1. CASE t.role = "system"
    <3>1. ToAnthropic[t] = <<>> /\ ByAnthropic[t] = <<>>
      BY <2>1 DEF ToAnthropic, ByAnthropic
    <3> QED BY <3>1, MappedEmpty
  <2>2. CASE t.role # "system"
    <3>1. AsAnthropic(t) \in Rewritten
      BY <2>2 DEF Rewritten, Said
    <3>2. \A m \in Rewritten : Mapped(<<m>>, ToMessages) = ToMessages[m]
      BY <1>4, MappedOne
    <3>3. ToAnthropic[t] = <<AsAnthropic(t)>> /\ ByAnthropic[t] = anthMessageToOpenAI(AsAnthropic(t))
      BY <2>2 DEF ToAnthropic, ByAnthropic
    <3> QED BY <3>1, <3>2, <3>3 DEF ToMessages
  <2> QED BY <2>1, <2>2
<1> HIDE DEF G
<1>8. Mapped(q, G) = Mapped(q, ByAnthropic)
  BY <1>1, <1>7, MappedSame
<1> QED BY <1>2, <1>5, <1>6, <1>8

LEMMA SystemText ==
  ASSUME NEW q \in Seq(LegalTurn)
  PROVE  systemToText(FlatMap(q, LAMBDA t : IF t.role = "system" THEN t.parts ELSE <<>>))
           = Mapped(q, TurnSystem)
<1> DEFINE F == [x \in Texts |-> x.text]
           s == Mapped(q, SystemParts)
           G == [t \in LegalTurn |-> Mapped(SystemParts[t], F)]
<1>1. \A i \in DOMAIN q : q[i] \in LegalTurn
  BY ElementOfSeq, LenProperties
<1>2. FlatMap(q, LAMBDA t : IF t.role = "system" THEN t.parts ELSE <<>>) = s
  <2>1. [i \in DOMAIN q |-> IF q[i].role = "system" THEN q[i].parts ELSE <<>>]
          = [i \in DOMAIN q |-> SystemParts[q[i]]]
    BY <1>1 DEF SystemParts
  <2> QED BY <2>1 DEF FlatMap, Mapped, ImagesOf
<1>3. Maps(SystemParts, LegalTurn, Texts) /\ Maps(F, Texts, Spots)
  <2>1. Maps(SystemParts, LegalTurn, Texts)
    BY EmptySeq DEF Maps, SystemParts, LegalTurn
  <2>2. Maps(F, Texts, Spots)
    BY DEF Maps, Texts
  <2> QED BY <2>1, <2>2
<1>4. systemToText(s) = Mapped(s, F)
  <2>1. s \in Seq(Texts)
    BY <1>3, MappedType
  <2> HIDE DEF s
  <2>2. \A i \in DOMAIN s : s[i] \in Texts
    BY <2>1, ElementOfSeq, LenProperties
  <2>3. [i \in DOMAIN s |-> s[i].text] = [i \in DOMAIN s |-> F[s[i]]]
    BY <2>2
  <2> HIDE DEF F
  <2> QED BY <2>3 DEF systemToText, FlatMap, Mapped, ImagesOf
<1>5. Mapped(Mapped(q, SystemParts), F) = Mapped(q, G)
  <2> HIDE DEF F
  <2> QED BY <1>3, MappedMapped
<1>6. \A t \in LegalTurn : G[t] = TurnSystem[t]
  <2> SUFFICES ASSUME NEW t \in LegalTurn PROVE Mapped(SystemParts[t], F) = TurnSystem[t]
    OBVIOUS
  <2>1. CASE t.role # "system"
    <3>1. SystemParts[t] = <<>> /\ TurnSystem[t] = <<>>
      BY <2>1 DEF SystemParts, TurnSystem
    <3> QED BY <3>1, MappedEmpty
  <2>2. CASE t.role = "system"
    <3>1. SystemParts[t] = t.parts /\ TurnSystem[t] = TextOf(t.parts) /\ t.parts \in Seq(Texts)
      BY <2>2 DEF SystemParts, TurnSystem, LegalTurn
    <3>2. \A i \in DOMAIN t.parts : t.parts[i] \in Texts
      BY <3>1, ElementOfSeq, LenProperties
    <3>3. \A x \in Texts : F[x] = TextIn[x]
      BY BlockTypes DEF TextIn, AnyPart
    <3> HIDE DEF F
    <3>4. Mapped(t.parts, F) = Mapped(t.parts, TextIn)
      BY <3>2, <3>3, MappedSame
    <3> QED BY <3>1, <3>4 DEF TextOf
  <2> QED BY <2>1, <2>2
<1> HIDE DEF G
<1>7. Mapped(q, G) = Mapped(q, TurnSystem)
  BY <1>1, <1>6, MappedSame
<1> QED BY <1>2, <1>4, <1>5, <1>7

LEMMA TranslatedAnthropic ==
  ASSUME NEW q \in Seq(LegalTurn), Naming(PairedIn(q), NamesIn(q))
  PROVE  BuildCCRequest(OpenAIRequestFromAnthropic(
            [system |-> FlatMap(q, LAMBDA t : IF t.role = "system" THEN t.parts ELSE <<>>),
             messages |-> FlatMap(q, LAMBDA t :
                             IF t.role = "system" THEN <<>> ELSE <<AsAnthropic(t)>>)]))
           = Translation(q)
<1> DEFINE text == Mapped(q, TurnSystem)
           first == IF text # <<>> THEN <<Message("system", String(text))>> ELSE <<>>
           rest == Mapped(q, ByAnthropic)
           ms == first \o rest
<1>1. OpenAIRequestFromAnthropic(
            [system |-> FlatMap(q, LAMBDA t : IF t.role = "system" THEN t.parts ELSE <<>>),
             messages |-> FlatMap(q, LAMBDA t :
                             IF t.role = "system" THEN <<>> ELSE <<AsAnthropic(t)>>)]) = ms
  BY SystemText, AnthropicMapped DEF OpenAIRequestFromAnthropic
<1>2. text \in Seq(Spots)
  BY TurnMaps, MappedType
<1>3. /\ first \in Seq(AnyMessage) /\ Mapped(first, CallsOf) = <<>>
      /\ Mapped(first, AnswersOf) = <<>> /\ Mapped(first, SystemOf) = text
      /\ \A p, n : Naming(p, n) => Mapped(first, CC(p, n)) = <<>>
  <2>1. CASE text = <<>>
    BY <2>1, NoMessage, EmptySeq
  <2>2. CASE text # <<>>
    <3> HIDE DEF text
    <3> DEFINE m == Message("system", String(text))
    <3>1. String(text) \in AnyContent /\ contentToText(String(text)) = text
      BY <1>2, StringType
    <3>2. m \in AnyMessage /\ m.role = "system" /\ m.content = String(text)
      BY <3>1, EmptySeq DEF Message, AnyMessage, AnyId
    <3>3. first = <<m>>
      BY <2>2
    <3> HIDE DEF m, first
    <3>4. CallsOf[m] = <<>> /\ AnswersOf[m] = <<>> /\ SystemOf[m] = text /\ \A p, n : CC(p, n)[m] = <<>>
      BY <3>1, <3>2 DEF CallsOf, AnswersOf, SystemOf, CC
    <3>5. /\ Mapped(<<m>>, CallsOf) = <<>> /\ Mapped(<<m>>, AnswersOf) = <<>>
          /\ Mapped(<<m>>, SystemOf) = text
      BY <3>2, <3>4, MessageMaps, MappedOne
    <3>6. \A p, n : Naming(p, n) => Mapped(<<m>>, CC(p, n)) = <<>>
      <4> SUFFICES ASSUME NEW p, NEW n, Naming(p, n) PROVE Mapped(<<m>>, CC(p, n)) = <<>>
        OBVIOUS
      <4>1. Mapped(<<m>>, CC(p, n)) = CC(p, n)[m]
        BY <3>2, CCMaps, MappedOne
      <4> QED BY <3>4, <4>1
    <3>7. <<m>> \in Seq(AnyMessage)
      BY <3>2
    <3> QED BY <3>3, <3>5, <3>6, <3>7
  <2> QED BY <2>1, <2>2
<1>4. /\ Maps(ByAnthropic, LegalTurn, AnyMessage)
      /\ rest \in Seq(AnyMessage)
      /\ Mapped(rest, CallsOf) = Mapped(q, TurnCalls)
      /\ Mapped(rest, AnswersOf) = Mapped(q, TurnAnswers)
      /\ \A p, n : Naming(p, n) => Mapped(rest, CC(p, n)) = Mapped(q, TurnCC(p, n))
  BY ByAnthropicRenders, HistoryRendered
<1>5. Mapped(rest, SystemOf) = <<>>
  <2> DEFINE G == [t \in LegalTurn |-> Mapped(ByAnthropic[t], SystemOf)]
  <2>1. Mapped(Mapped(q, ByAnthropic), SystemOf) = Mapped(q, G)
    BY <1>4, MessageMaps, MappedMapped
  <2>2. \A t \in LegalTurn : G[t] = <<>>
    BY ByAnthropicRenders
  <2> HIDE DEF G
  <2>3. Maps(G, LegalTurn, Spots) /\ \A i \in 1..Len(q) : G[q[i]] = <<>>
    BY <2>2, ElementOfSeq, EmptySeq DEF Maps
  <2>4. Mapped(q, G) = <<>>
    BY <2>3, MappedNone
  <2> QED BY <2>1, <2>4
<1> HIDE DEF text, first, rest
<1>6. ms \in Seq(AnyMessage)
  BY <1>3, <1>4, ConcatProperties
<1>7. Mapped(ms, CallsOf) = Mapped(q, TurnCalls)
  <2>1. Maps(CallsOf, AnyMessage, AnyCall) /\ first \in Seq(AnyMessage) /\ rest \in Seq(AnyMessage)
    BY <1>3, <1>4, MessageMaps
  <2>2. Mapped(first \o rest, CallsOf) = Mapped(first, CallsOf) \o Mapped(rest, CallsOf)
    BY <2>1, MappedConcat
  <2>3. Mapped(rest, CallsOf) \in Seq(AnyCall)
    BY <2>1, MappedType
  <2> QED BY <1>3, <1>4, <2>2, <2>3, ConcatEmptySeq
<1>8. Mapped(ms, AnswersOf) = Mapped(q, TurnAnswers)
  <2>1. Maps(AnswersOf, AnyMessage, AnyId) /\ first \in Seq(AnyMessage) /\ rest \in Seq(AnyMessage)
    BY <1>3, <1>4, MessageMaps
  <2>2. Mapped(first \o rest, AnswersOf) = Mapped(first, AnswersOf) \o Mapped(rest, AnswersOf)
    BY <2>1, MappedConcat
  <2>3. Mapped(rest, AnswersOf) \in Seq(AnyId)
    BY <2>1, MappedType
  <2> QED BY <1>3, <1>4, <2>2, <2>3, ConcatEmptySeq
<1>9. Mapped(ms, SystemOf) = text
  <2>1. Maps(SystemOf, AnyMessage, Spots) /\ first \in Seq(AnyMessage) /\ rest \in Seq(AnyMessage)
    BY <1>3, <1>4, MessageMaps
  <2>2. Mapped(first \o rest, SystemOf) = Mapped(first, SystemOf) \o Mapped(rest, SystemOf)
    BY <2>1, MappedConcat
  <2> QED BY <1>2, <1>3, <1>5, <2>2, ConcatEmptySeq
<1>10. ASSUME NEW p, NEW n, Naming(p, n) PROVE Mapped(ms, CC(p, n)) = Mapped(q, TurnCC(p, n))
  <2>1. Maps(CC(p, n), AnyMessage, CCMessage) /\ first \in Seq(AnyMessage) /\ rest \in Seq(AnyMessage)
    BY <1>3, <1>4, <1>10, CCMaps
  <2>2. Mapped(first \o rest, CC(p, n)) = Mapped(first, CC(p, n)) \o Mapped(rest, CC(p, n))
    BY <2>1, MappedConcat
  <2>3. Mapped(rest, CC(p, n)) \in Seq(CCMessage)
    BY <2>1, MappedType
  <2>4. Mapped(first, CC(p, n)) = <<>> /\ Mapped(rest, CC(p, n)) = Mapped(q, TurnCC(p, n))
    BY <1>3, <1>4, <1>10
  <2> QED BY <2>2, <2>3, <2>4, ConcatEmptySeq
<1> HIDE DEF ms
<1> DEFINE calls == Mapped(ms, CallsOf)
           answers == Mapped(ms, AnswersOf)
<1>11. Paired(calls, answers) = PairedIn(q) /\ NamesOf(calls) = NamesIn(q)
  BY <1>7, <1>8 DEF PairedIn, NamesIn
<1>12. BuildCCRequest(ms)
        = [messages |-> Mapped(ms, CC(Paired(calls, answers), NamesOf(calls))),
           system |-> Mapped(ms, SystemOf)]
  BY <1>6, <1>11, RequestMapped
<1> HIDE DEF calls, answers
<1>13. BuildCCRequest(ms) = Translation(q)
  BY <1>9, <1>10, <1>11, <1>12 DEF Translation, text
<1> QED BY <1>1, <1>13

-----------------------------------------------------------------------------
(* Calls and their results *)

\* No id is called or answered twice, and an answer is in the turn after the call.
UniqueCalls(q) ==
    \A i, k \in 1..Len(q) : \A j \in 1..Len(q[i].calls), l \in 1..Len(q[k].calls) :
        q[i].calls[j].id = q[k].calls[l].id => i = k /\ j = l
UniqueResults(q) ==
    \A i, k \in 1..Len(q) : \A j \in 1..Len(q[i].results), l \in 1..Len(q[k].results) :
        q[i].results[j].id = q[k].results[l].id => i = k /\ j = l
Adjacent(q) ==
    \A i, k \in 1..Len(q) : \A j \in 1..Len(q[i].calls), l \in 1..Len(q[k].results) :
        q[i].calls[j].id = q[k].results[l].id => k = i + 1
IdsInv(q) == UniqueCalls(q) /\ UniqueResults(q) /\ Adjacent(q)

Called(q, id) == \E i \in 1..Len(q) : \E j \in 1..Len(q[i].calls) : q[i].calls[j].id = id
Answered(q, id) == \E i \in 1..Len(q) : \E j \in 1..Len(q[i].results) : q[i].results[j].id = id

LEMMA MaxOne == \A k \in Nat : Max({k}) = k
  BY DEF Max

\* Where calls are distinct, the tool of an id is the one that was called with it.
LEMMA NamesAre ==
  ASSUME NEW calls \in Seq(AnyCall),
         \A k, l \in 1..Len(calls) : calls[k].id = calls[l].id => k = l
  PROVE  /\ IdsOf(calls) = {calls[k].id : k \in 1..Len(calls)}
         /\ \A k \in 1..Len(calls) : NamesOf(calls)[calls[k].id] = calls[k].name
<1>1. DOMAIN calls = 1..Len(calls) /\ Len(calls) \in Nat
  BY LenProperties
<1>2. IdsOf(calls) = {calls[k].id : k \in 1..Len(calls)}
  BY <1>1 DEF IdsOf
<1>3. ASSUME NEW k \in 1..Len(calls) PROVE NamesOf(calls)[calls[k].id] = calls[k].name
  <2>1. {i \in 1..Len(calls) : calls[i].id = calls[k].id} = {k}
    OBVIOUS
  <2>2. Max({k}) = k
    BY MaxOne
  <2>3. SelectLastInSeq(calls, LAMBDA c : c.id = calls[k].id) = k
    BY <2>1, <2>2 DEF SelectLastInSeq
  <2>4. calls[k].id \in IdsOf(calls)
    BY <1>2
  <2> QED BY <2>3, <2>4 DEF NamesOf
<1> QED BY <1>2, <1>3

LEMMA CallsOfHistory ==
  ASSUME NEW q \in Seq(LegalTurn), UniqueCalls(q), NEW calls, calls = Mapped(q, TurnCalls)
  PROVE  /\ calls \in Seq(AnyCall)
         /\ \A k, l \in 1..Len(calls) : calls[k].id = calls[l].id => k = l
         /\ \A i \in 1..Len(q) : \A j \in 1..Len(q[i].calls) :
              \E k \in 1..Len(calls) : calls[k] = q[i].calls[j]
         /\ \A k \in 1..Len(calls) :
              \E i \in 1..Len(q) : \E j \in 1..Len(q[i].calls) : calls[k] = q[i].calls[j]
<1>1. PICK row, col : Placed(q, TurnCalls, row, col)
  <2>1. \A s \in Seq(LegalTurn) : \E row, col : Placed(s, TurnCalls, row, col)
    BY TurnMaps, MappedPlaced
  <2> QED BY <2>1
<1>2. calls \in Seq(AnyCall)
  BY TurnMaps, MappedType
<1>3. \A i \in 1..Len(q) : TurnCalls[q[i]] = q[i].calls
  BY ElementOfSeq DEF TurnCalls
<1>4. /\ \A k \in 1..Len(calls) :
           /\ row[k] \in 1..Len(q) /\ col[k] \in 1..Len(TurnCalls[q[row[k]]])
           /\ calls[k] = TurnCalls[q[row[k]]][col[k]]
      /\ \A k, l \in 1..Len(calls) :
           k < l => row[k] < row[l] \/ (row[k] = row[l] /\ col[k] < col[l])
      /\ \A i \in 1..Len(q) : \A j \in 1..Len(TurnCalls[q[i]]) :
           \E k \in 1..Len(calls) : row[k] = i /\ col[k] = j
  BY <1>1 DEF Placed
<1>5. \A k \in 1..Len(calls) : /\ row[k] \in 1..Len(q) /\ col[k] \in 1..Len(q[row[k]].calls)
                               /\ calls[k] = q[row[k]].calls[col[k]]
  BY <1>3, <1>4, ZenonT(60)
<1>6. ASSUME NEW k \in 1..Len(calls), NEW l \in 1..Len(calls), calls[k].id = calls[l].id
      PROVE  k = l
  <2>1. row[k] = row[l] /\ col[k] = col[l]
    <3>1. /\ row[k] \in 1..Len(q) /\ col[k] \in 1..Len(q[row[k]].calls)
          /\ row[l] \in 1..Len(q) /\ col[l] \in 1..Len(q[row[l]].calls)
      BY <1>5
    <3>2. q[row[k]].calls[col[k]].id = q[row[l]].calls[col[l]].id
      BY <1>5, <1>6
    <3> DEFINE a == row[k]
               b == row[l]
               x == col[k]
               y == col[l]
    <3> HIDE DEF a, b, x, y
    <3>3. /\ a \in 1..Len(q) /\ x \in 1..Len(q[a].calls)
          /\ b \in 1..Len(q) /\ y \in 1..Len(q[b].calls)
          /\ q[a].calls[x].id = q[b].calls[y].id
      BY <3>1, <3>2 DEF a, b, x, y
    <3>4. a = b /\ x = y
      BY <3>3 DEF UniqueCalls
    <3> QED BY <3>4 DEF a, b, x, y
  <2>2. Len(calls) \in Nat /\ Len(q) \in Nat /\ row[k] \in Nat /\ col[k] \in Nat
    <3>1. q[row[k]] \in LegalTurn
      BY <1>5, ElementOfSeq
    <3>2. Len(q[row[k]].calls) \in Nat
      BY <3>1, LegalParts, LenProperties
    <3>3. Len(calls) \in Nat /\ Len(q) \in Nat
      BY <1>2, LenProperties
    <3>4. row[k] \in 1..Len(q) /\ col[k] \in 1..Len(q[row[k]].calls)
      BY <1>5
    <3> QED BY <3>2, <3>3, <3>4
  <2>3. ~(k < l) /\ ~(l < k)
    BY <1>4, <2>1, <2>2
  <2> QED BY <2>2, <2>3
<1>7. ASSUME NEW i \in 1..Len(q), NEW j \in 1..Len(q[i].calls)
      PROVE  \E k \in 1..Len(calls) : calls[k] = q[i].calls[j]
  <2>1. j \in 1..Len(TurnCalls[q[i]])
    BY <1>3
  <2>2. PICK k \in 1..Len(calls) : row[k] = i /\ col[k] = j
    <3>1. \A a \in 1..Len(q) : \A b \in 1..Len(TurnCalls[q[a]]) :
             \E k \in 1..Len(calls) : row[k] = a /\ col[k] = b
      BY <1>4
    <3> QED BY <2>1, <3>1
  <2> QED BY <1>5, <2>2
<1>8. \A k, l \in 1..Len(calls) : calls[k].id = calls[l].id => k = l
  BY <1>6
<1>9. \A i \in 1..Len(q) : \A j \in 1..Len(q[i].calls) :
         \E k \in 1..Len(calls) : calls[k] = q[i].calls[j]
  BY <1>7
<1>10. \A k \in 1..Len(calls) :
          \E i \in 1..Len(q) : \E j \in 1..Len(q[i].calls) : calls[k] = q[i].calls[j]
  BY <1>5
<1> QED BY <1>2, <1>8, <1>9, <1>10

\* Which ids are paired, and what they name.
LEMMA PairedAre ==
  ASSUME NEW q \in Seq(LegalTurn), UniqueCalls(q)
  PROVE  /\ \A id : id \in PairedIn(q) <=> Called(q, id) /\ Answered(q, id)
         /\ \A i \in 1..Len(q) : \A j \in 1..Len(q[i].calls) :
              NamesIn(q)[q[i].calls[j].id] = q[i].calls[j].name
         /\ Naming(PairedIn(q), NamesIn(q))
<1> DEFINE calls == Mapped(q, TurnCalls)
           answers == Mapped(q, TurnAnswers)
<1>1. /\ calls \in Seq(AnyCall)
      /\ \A k, l \in 1..Len(calls) : calls[k].id = calls[l].id => k = l
      /\ \A i \in 1..Len(q) : \A j \in 1..Len(q[i].calls) :
              \E k \in 1..Len(calls) : calls[k] = q[i].calls[j]
      /\ \A k \in 1..Len(calls) :
              \E i \in 1..Len(q) : \E j \in 1..Len(q[i].calls) : calls[k] = q[i].calls[j]
  BY CallsOfHistory
<1> HIDE DEF calls
<1>2. /\ IdsOf(calls) = {calls[k].id : k \in 1..Len(calls)}
      /\ \A k \in 1..Len(calls) : NamesOf(calls)[calls[k].id] = calls[k].name
  BY <1>1, NamesAre
<1>3. \A id : id \in IdsOf(calls) <=> Called(q, id)
  <2> TAKE id
  <2>1. ASSUME id \in IdsOf(calls) PROVE Called(q, id)
    <3>1. PICK k \in 1..Len(calls) : id = calls[k].id
      BY <1>2, <2>1
    <3>2. PICK i \in 1..Len(q) : \E j \in 1..Len(q[i].calls) : calls[k] = q[i].calls[j]
      BY <1>1
    <3> QED BY <3>1, <3>2 DEF Called
  <2>2. ASSUME Called(q, id) PROVE id \in IdsOf(calls)
    <3>1. PICK i \in 1..Len(q) : \E j \in 1..Len(q[i].calls) : q[i].calls[j].id = id
      BY <2>2 DEF Called
    <3>2. PICK j \in 1..Len(q[i].calls) : q[i].calls[j].id = id
      BY <3>1
    <3>3. PICK k \in 1..Len(calls) : calls[k] = q[i].calls[j]
      BY <1>1
    <3> QED BY <1>2, <3>2, <3>3
  <2> QED BY <2>1, <2>2
<1>4. \A id : id \in ToSet(answers) <=> Answered(q, id)
  <2>1. ToSet(answers) = UNION {ToSet(TurnAnswers[q[i]]) : i \in 1..Len(q)}
    BY TurnMaps, MappedElements
  <2>2. ASSUME NEW i \in 1..Len(q)
        PROVE  ToSet(TurnAnswers[q[i]]) = {q[i].results[j].id : j \in 1..Len(q[i].results)}
    <3>1. q[i] \in LegalTurn
      BY ElementOfSeq
    <3>2. q[i].results \in Seq(AnyResult)
      BY <3>1, LegalParts
    <3>3. DOMAIN q[i].results = 1..Len(q[i].results)
      BY <3>2, LenProperties
    <3> QED BY <3>1, <3>3 DEF TurnAnswers, ResultIds, ToSet
  <2> HIDE DEF answers
  <2> TAKE id
  <2>3. ASSUME id \in ToSet(answers) PROVE Answered(q, id)
    <3>1. PICK i \in 1..Len(q) : id \in ToSet(TurnAnswers[q[i]])
      BY <2>1, <2>3
    <3> QED BY <2>2, <3>1 DEF Answered
  <2>4. ASSUME Answered(q, id) PROVE id \in ToSet(answers)
    <3>1. PICK i \in 1..Len(q) : \E j \in 1..Len(q[i].results) : q[i].results[j].id = id
      BY <2>4 DEF Answered
    <3>2. PICK j \in 1..Len(q[i].results) : q[i].results[j].id = id
      BY <3>1
    <3>3. id \in ToSet(TurnAnswers[q[i]])
      BY <2>2, <3>2
    <3> QED BY <2>1, <3>3
  <2> QED BY <2>3, <2>4
<1>5. \A id : id \in PairedIn(q) <=> Called(q, id) /\ Answered(q, id)
  <2>1. PairedIn(q) = IdsOf(calls) \cap ToSet(answers)
    BY DEF PairedIn, Paired, calls
  <2> HIDE DEF answers
  <2> QED BY <1>3, <1>4, <2>1
<1>6. NamesIn(q) = NamesOf(calls)
  BY DEF NamesIn, calls
<1>7. \A i \in 1..Len(q) : \A j \in 1..Len(q[i].calls) :
              NamesIn(q)[q[i].calls[j].id] = q[i].calls[j].name
  <2> SUFFICES ASSUME NEW i \in 1..Len(q), NEW j \in 1..Len(q[i].calls)
               PROVE  NamesIn(q)[q[i].calls[j].id] = q[i].calls[j].name
    OBVIOUS
  <2>1. PICK k \in 1..Len(calls) : calls[k] = q[i].calls[j]
    BY <1>1
  <2>2. NamesOf(calls)[calls[k].id] = calls[k].name
    BY <1>2
  <2> QED BY <1>6, <2>1, <2>2
<1>8. Naming(PairedIn(q), NamesIn(q))
  <2> SUFFICES ASSUME NEW id \in PairedIn(q) PROVE id \in Ids /\ NamesIn(q)[id] \in AnyName
    BY DEF Naming
  <2>1. PICK i \in 1..Len(q) : \E j \in 1..Len(q[i].calls) : q[i].calls[j].id = id
    BY <1>5 DEF Called
  <2>a. PICK j \in 1..Len(q[i].calls) : q[i].calls[j].id = id
    BY <2>1
  <2>2. q[i].calls[j] \in AnyCall
    <3>1. q[i] \in LegalTurn
      BY ElementOfSeq
    <3>2. q[i].calls \in Seq(AnyCall)
      BY <3>1, LegalParts
    <3> QED BY <3>2, ElementOfSeq
  <2>3. NamesIn(q)[id] = q[i].calls[j].name
    BY <1>7, <2>a
  <2> QED BY <2>a, <2>2, <2>3 DEF AnyCall, AnyName
<1> QED BY <1>5, <1>7, <1>8

\* A result stands in the turn after its call.
LEMMA FollowsRule ==
  ASSUME NEW q, IdsInv(q), NEW a \in 1..Len(q), NEW b \in 1..Len(q),
         NEW x \in 1..Len(q[a].calls), NEW y \in 1..Len(q[b].results),
         q[a].calls[x].id = q[b].results[y].id
  PROVE  b = a + 1
BY DEF IdsInv, Adjacent

\* A call stands only once.
LEMMA CallsOnceRule ==
  ASSUME NEW q, IdsInv(q), NEW a \in 1..Len(q), NEW b \in 1..Len(q),
         NEW x \in 1..Len(q[a].calls), NEW y \in 1..Len(q[b].calls),
         q[a].calls[x].id = q[b].calls[y].id
  PROVE  a = b /\ x = y
BY DEF IdsInv, UniqueCalls

\* A result stands only once.
LEMMA OnceRule ==
  ASSUME NEW q, IdsInv(q), NEW a \in 1..Len(q), NEW b \in 1..Len(q),
         NEW x \in 1..Len(q[a].results), NEW y \in 1..Len(q[b].results),
         q[a].results[x].id = q[b].results[y].id
  PROVE  a = b /\ x = y
BY DEF IdsInv, UniqueResults

\* The first turns of a history are a history.
LEMMA FirstTurns ==
  ASSUME NEW q \in Seq(LegalTurn), NEW k \in 1..Len(q), NEW h, h = SubSeq(q, 1, k), IdsInv(q)
  PROVE  /\ h \in Seq(LegalTurn) /\ Len(h) = k /\ \A i \in 1..k : h[i] = q[i]
         /\ 1..k \subseteq 1..Len(q)
         /\ IdsInv(h)
<1>1. h \in Seq(LegalTurn) /\ Len(h) = k /\ \A i \in 1..k : h[i] = q[i]
  BY LenProperties, SubSeqProperties
<1>2. 1..k \subseteq 1..Len(q)
  BY LenProperties
<1>3. UniqueCalls(h)
  <2> SUFFICES ASSUME NEW a \in 1..k, NEW b \in 1..k,
                      NEW x \in 1..Len(h[a].calls), NEW y \in 1..Len(h[b].calls),
                      h[a].calls[x].id = h[b].calls[y].id
               PROVE  a = b /\ x = y
    BY <1>1 DEF UniqueCalls
  <2>1. h[a] = q[a] /\ h[b] = q[b] /\ a \in 1..Len(q) /\ b \in 1..Len(q)
    BY <1>1, <1>2
  <2>2. x \in 1..Len(q[a].calls) /\ y \in 1..Len(q[b].calls) /\ q[a].calls[x].id = q[b].calls[y].id
    BY <2>1
  <2> QED BY <2>1, <2>2, CallsOnceRule
<1>4. UniqueResults(h)
  <2> SUFFICES ASSUME NEW a \in 1..k, NEW b \in 1..k,
                      NEW x \in 1..Len(h[a].results), NEW y \in 1..Len(h[b].results),
                      h[a].results[x].id = h[b].results[y].id
               PROVE  a = b /\ x = y
    BY <1>1 DEF UniqueResults
  <2>1. h[a] = q[a] /\ h[b] = q[b] /\ a \in 1..Len(q) /\ b \in 1..Len(q)
    BY <1>1, <1>2
  <2>2. x \in 1..Len(q[a].results) /\ y \in 1..Len(q[b].results)
        /\ q[a].results[x].id = q[b].results[y].id
    BY <2>1
  <2> QED BY <2>1, <2>2, OnceRule
<1>5. Adjacent(h)
  <2> SUFFICES ASSUME NEW a \in 1..k, NEW b \in 1..k,
                      NEW x \in 1..Len(h[a].calls), NEW y \in 1..Len(h[b].results),
                      h[a].calls[x].id = h[b].results[y].id
               PROVE  b = a + 1
    BY <1>1, SMTT(60) DEF Adjacent
  <2>1. h[a] = q[a] /\ h[b] = q[b] /\ a \in 1..Len(q) /\ b \in 1..Len(q)
    BY <1>1, <1>2
  <2>2. x \in 1..Len(q[a].calls) /\ y \in 1..Len(q[b].results)
        /\ q[a].calls[x].id = q[b].results[y].id
    BY <2>1
  <2> QED BY <2>1, <2>2 DEF IdsInv, Adjacent
<1> QED BY <1>1, <1>2, <1>3, <1>4, <1>5 DEF IdsInv

\* p and n say the same as pp and nn of the ids of turn t.
AgreeOn(t, p, n, pp, nn) ==
    /\ \A j \in 1..Len(t.calls) : t.calls[j].id \in p <=> t.calls[j].id \in pp
    /\ \A j \in 1..Len(t.results) :
         /\ t.results[j].id \in p <=> t.results[j].id \in pp
         /\ t.results[j].id \in p => n[t.results[j].id] = nn[t.results[j].id]

\* Then they translate it to the same messages.
LEMMA AgreeSame ==
  ASSUME NEW t \in LegalTurn, NEW p, NEW n, NEW pp, NEW nn, AgreeOn(t, p, n, pp, nn)
  PROVE  TurnCC(p, n)[t] = TurnCC(pp, nn)[t]
<1>1. /\ DOMAIN t.calls = 1..Len(t.calls) /\ \A j \in 1..Len(t.calls) : t.calls[j] \in AnyCall
      /\ DOMAIN t.results = 1..Len(t.results) /\ \A j \in 1..Len(t.results) : t.results[j] \in AnyResult
  <2>1. t.calls \in Seq(AnyCall) /\ t.results \in Seq(AnyResult)
    BY LegalParts
  <2>2. DOMAIN t.calls = 1..Len(t.calls) /\ DOMAIN t.results = 1..Len(t.results)
    BY <2>1, LenProperties
  <2>3. \A j \in 1..Len(t.calls) : t.calls[j] \in AnyCall
    BY <2>1, ElementOfSeq
  <2>4. \A j \in 1..Len(t.results) : t.results[j] \in AnyResult
    BY <2>1, ElementOfSeq
  <2> QED BY <2>2, <2>3, <2>4
<1>2. Mapped(t.calls, CallCC(p)) = Mapped(t.calls, CallCC(pp))
  <2>1. \A j \in 1..Len(t.calls) : CallCC(p)[t.calls[j]] = CallCC(pp)[t.calls[j]]
    BY <1>1 DEF AgreeOn, CallCC
  <2> QED BY <1>1, <2>1, MappedSame
<1>3. Mapped(t.results, ResultCC(p, n)) = Mapped(t.results, ResultCC(pp, nn))
  <2>1. ASSUME NEW j \in 1..Len(t.results)
        PROVE  ResultCC(p, n)[t.results[j]] = ResultCC(pp, nn)[t.results[j]]
    <3> DEFINE r == t.results[j]
    <3>1. r \in AnyResult /\ (r.id \in p <=> r.id \in pp) /\ (r.id \in p => n[r.id] = nn[r.id])
      BY <1>1 DEF AgreeOn
    <3> HIDE DEF r
    <3>2. ResultMessages(r.id, TextOf(r.parts), ImagesIn(r.parts), p, n)
            = ResultMessages(r.id, TextOf(r.parts), ImagesIn(r.parts), pp, nn)
      BY <3>1 DEF ResultMessages
    <3>3. ResultCC(p, n)[r] = ResultCC(pp, nn)[r]
      BY <3>1, <3>2 DEF ResultCC
    <3> QED BY <3>3 DEF r
  <2> QED BY <1>1, <2>1, MappedSame
<1>4. OwnCC(t, p) = OwnCC(t, pp)
  BY <1>2 DEF OwnCC, AssistantMessages, AssistantParts
<1> QED BY <1>3, <1>4 DEF TurnCC

\* What is added after a turn of the user pairs no call of before.
LEMMA FirstTurnsAgree ==
  ASSUME NEW q \in Seq(LegalTurn), NEW k \in 1..Len(q), NEW h, h = SubSeq(q, 1, k), IdsInv(q),
         q[k].role = "user", NEW i \in 1..k
  PROVE  AgreeOn(q[i], PairedIn(h), NamesIn(h), PairedIn(q), NamesIn(q))
<1>1. /\ h \in Seq(LegalTurn) /\ Len(h) = k /\ (\A m \in 1..k : h[m] = q[m]) /\ 1..k \subseteq 1..Len(q)
      /\ IdsInv(h) /\ Len(q) \in Nat /\ k \in Nat
  <2>1. /\ h \in Seq(LegalTurn) /\ Len(h) = k /\ (\A m \in 1..k : h[m] = q[m])
        /\ 1..k \subseteq 1..Len(q) /\ IdsInv(h)
    BY FirstTurns
  <2>2. Len(q) \in Nat
    BY LenProperties
  <2>3. k \in Nat
    BY <2>2
  <2> QED BY <2>1, <2>2, <2>3
<1>2. /\ \A id : id \in PairedIn(q) <=> Called(q, id) /\ Answered(q, id)
      /\ \A m \in 1..Len(q) : \A j \in 1..Len(q[m].calls) :
           NamesIn(q)[q[m].calls[j].id] = q[m].calls[j].name
  BY PairedAre DEF IdsInv
<1>3. /\ \A id : id \in PairedIn(h) <=> Called(h, id) /\ Answered(h, id)
      /\ \A m \in 1..Len(h) : \A j \in 1..Len(h[m].calls) :
           NamesIn(h)[h[m].calls[j].id] = h[m].calls[j].name
  BY <1>1, PairedAre DEF IdsInv
<1>4. \A id : (Called(h, id) => Called(q, id)) /\ (Answered(h, id) => Answered(q, id))
  <2> TAKE id
  <2>1. ASSUME Called(h, id) PROVE Called(q, id)
    <3>1. PICK m \in 1..k : \E j \in 1..Len(h[m].calls) : h[m].calls[j].id = id
      BY <1>1, <2>1 DEF Called
    <3>2. h[m] = q[m] /\ m \in 1..Len(q)
      BY <1>1
    <3> QED BY <3>1, <3>2 DEF Called
  <2>2. ASSUME Answered(h, id) PROVE Answered(q, id)
    <3>1. PICK m \in 1..k : \E j \in 1..Len(h[m].results) : h[m].results[j].id = id
      BY <1>1, <2>2 DEF Answered
    <3>2. h[m] = q[m] /\ m \in 1..Len(q)
      BY <1>1
    <3> QED BY <3>1, <3>2 DEF Answered
  <2> QED BY <2>1, <2>2
<1>5. q[k].calls = <<>>
  <2>1. q[k] \in LegalTurn
    BY ElementOfSeq
  <2> QED BY <2>1 DEF LegalTurn
<1>6. i \in 1..Len(q) /\ h[i] = q[i]
  BY <1>1
<1>7. ASSUME NEW j \in 1..Len(q[i].calls)
      PROVE  q[i].calls[j].id \in PairedIn(h) <=> q[i].calls[j].id \in PairedIn(q)
  <2> DEFINE id == q[i].calls[j].id
  <2>1. Called(h, id)
    BY <1>1, <1>6 DEF Called
  <2>2. ASSUME Answered(q, id) PROVE Answered(h, id)
    <3>1. PICK m \in 1..Len(q) : \E l \in 1..Len(q[m].results) : q[m].results[l].id = id
      BY <2>2 DEF Answered
    <3>2. PICK l \in 1..Len(q[m].results) : q[m].results[l].id = id
      BY <3>1
    <3>3. m = i + 1
      BY <1>6, <3>1, <3>2, FollowsRule
    <3>4. i # k
      BY <1>5, EmptySeq
    <3>5. m \in 1..k
      BY <1>1, <3>3, <3>4
    <3>6. h[m] = q[m]
      BY <1>1, <3>5
    <3> QED BY <1>1, <3>1, <3>5, <3>6 DEF Answered
  <2> HIDE DEF id
  <2>3. id \in PairedIn(h) <=> id \in PairedIn(q)
    BY <1>2, <1>3, <1>4, <2>1, <2>2
  <2> QED BY <2>3 DEF id
<1>8. ASSUME NEW j \in 1..Len(q[i].results)
      PROVE  /\ q[i].results[j].id \in PairedIn(h) <=> q[i].results[j].id \in PairedIn(q)
             /\ q[i].results[j].id \in PairedIn(h) =>
                  NamesIn(h)[q[i].results[j].id] = NamesIn(q)[q[i].results[j].id]
  <2> DEFINE id == q[i].results[j].id
  <2>1. Answered(h, id)
    BY <1>1, <1>6 DEF Answered
  <2>2. ASSUME Called(q, id)
        PROVE  /\ Called(h, id)
               /\ NamesIn(h)[id] = NamesIn(q)[id]
    <3>1. PICK m \in 1..Len(q) : \E l \in 1..Len(q[m].calls) : q[m].calls[l].id = id
      BY <2>2 DEF Called
    <3>2. PICK l \in 1..Len(q[m].calls) : q[m].calls[l].id = id
      BY <3>1
    <3>3. i = m + 1
      BY <1>6, <3>1, <3>2, FollowsRule
    <3>4. m \in 1..k
      BY <1>1, <3>3
    <3>5. h[m] = q[m]
      BY <1>1, <3>4
    <3>6. Called(h, id)
      BY <1>1, <3>1, <3>4, <3>5 DEF Called
    <3>7. NamesIn(q)[q[m].calls[l].id] = q[m].calls[l].name
      BY <1>2
    <3>8. NamesIn(h)[q[m].calls[l].id] = q[m].calls[l].name
      <4>1. \A y \in 1..Len(h[m].calls) : NamesIn(h)[h[m].calls[y].id] = h[m].calls[y].name
        BY <1>1, <1>3, <3>4
      <4>2. \A y \in 1..Len(q[m].calls) : NamesIn(h)[q[m].calls[y].id] = q[m].calls[y].name
        BY <4>1, <3>5
      <4> QED BY <4>2
    <3> QED BY <3>2, <3>6, <3>7, <3>8
  <2> HIDE DEF id
  <2>3. /\ id \in PairedIn(h) <=> id \in PairedIn(q)
        /\ id \in PairedIn(h) => NamesIn(h)[id] = NamesIn(q)[id]
    BY <1>2, <1>3, <1>4, <2>1, <2>2
  <2> QED BY <2>3 DEF id
<1> QED BY <1>7, <1>8 DEF AgreeOn

\* So the request for the history begins with the request for its first turns.
LEMMA TranslationPrefix ==
  ASSUME NEW q \in Seq(LegalTurn), NEW k \in 1..Len(q), IdsInv(q), q[k].role = "user"
  PROVE  IsPrefix(Translation(SubSeq(q, 1, k)).messages, Translation(q).messages)
<1> DEFINE h == SubSeq(q, 1, k)
           g == SubSeq(q, k + 1, Len(q))
           F == TurnCC(PairedIn(h), NamesIn(h))
           G == TurnCC(PairedIn(q), NamesIn(q))
<1>1. /\ h \in Seq(LegalTurn) /\ Len(h) = k /\ \A i \in 1..k : h[i] = q[i]
      /\ 1..k \subseteq 1..Len(q) /\ IdsInv(h)
  BY FirstTurns
<1>2. g \in Seq(LegalTurn) /\ q = h \o g
  BY LenProperties
<1>3. Maps(G, LegalTurn, CCMessage)
  BY PairedAre, TurnCCMaps DEF IdsInv
<1>4. Mapped(h, F) = Mapped(h, G)
  <2>1. \A i \in 1..k : F[h[i]] = G[h[i]]
    <3> SUFFICES ASSUME NEW i \in 1..k PROVE F[h[i]] = G[h[i]]
      OBVIOUS
    <3>1. q[i] \in LegalTurn /\ h[i] = q[i]
      BY <1>1, ElementOfSeq
    <3>2. AgreeOn(q[i], PairedIn(h), NamesIn(h), PairedIn(q), NamesIn(q))
      BY FirstTurnsAgree
    <3>3. F[q[i]] = G[q[i]]
      BY <3>1, <3>2, AgreeSame
    <3> QED BY <3>1, <3>3
  <2>2. DOMAIN h = 1..k
    BY <1>1, LenProperties
  <2> HIDE DEF h, F, G
  <2> QED BY <2>1, <2>2, MappedSame
<1>5. Translation(h).messages = Mapped(h, F) /\ Translation(q).messages = Mapped(q, G)
  BY DEF Translation
<1> HIDE DEF h, g, F, G
<1>6. Mapped(h \o g, G) = Mapped(h, G) \o Mapped(g, G)
  BY <1>1, <1>2, <1>3, MappedConcat
<1>7. Mapped(h, G) \in Seq(CCMessage) /\ Mapped(g, G) \in Seq(CCMessage)
  BY <1>1, <1>2, <1>3, MappedType
<1>8. IsPrefix(Mapped(h, G), Mapped(h, G) \o Mapped(g, G))
  BY <1>7, PrefixOfConcat
<1>9. IsPrefix(Translation(h).messages, Translation(q).messages)
  BY <1>2, <1>4, <1>5, <1>6, <1>8
<1> QED BY <1>9 DEF h

-----------------------------------------------------------------------------
(* A history that grows, and one that is forgotten *)

\* A turn that may follow q: it calls with ids of its own, or it answers calls of the last turn.
Follows(q, t) ==
    /\ \A x, y \in 1..Len(t.calls) : t.calls[x].id = t.calls[y].id => x = y
    /\ \A x, y \in 1..Len(t.results) : t.results[x].id = t.results[y].id => x = y
    /\ \A x \in 1..Len(t.calls) : ~Called(q, t.calls[x].id) /\ ~Answered(q, t.calls[x].id)
    /\ \A y \in 1..Len(t.results) : /\ Len(q) # 0
                                    /\ \E x \in 1..Len(q[Len(q)].calls) :
                                         q[Len(q)].calls[x].id = t.results[y].id
    /\ t.calls = <<>> \/ t.results = <<>>

LEMMA AddKeeps ==
  ASSUME NEW q \in Seq(LegalTurn), IdsInv(q), NEW t \in LegalTurn, Follows(q, t)
  PROVE  /\ Append(q, t) \in Seq(LegalTurn) /\ Len(Append(q, t)) = Len(q) + 1
         /\ Append(q, t)[Len(q) + 1] = t /\ \A i \in 1..Len(q) : Append(q, t)[i] = q[i]
         /\ IdsInv(Append(q, t))
<1> DEFINE s == Append(q, t)
           n == Len(q)
<1>1. /\ s \in Seq(LegalTurn) /\ Len(s) = n + 1 /\ n \in Nat
      /\ s[n + 1] = t /\ \A i \in 1..n : s[i] = q[i]
  BY AppendProperties, LenProperties
<1> HIDE DEF s
<1>2. \A i \in 1..(n + 1) : i \in 1..n \/ i = n + 1
  BY <1>1
<1>3. UniqueCalls(s)
  <2> SUFFICES ASSUME NEW a \in 1..(n + 1), NEW b \in 1..(n + 1),
                      NEW x \in 1..Len(s[a].calls), NEW y \in 1..Len(s[b].calls),
                      s[a].calls[x].id = s[b].calls[y].id
               PROVE  a = b /\ x = y
    BY <1>1 DEF UniqueCalls
  <2>1. CASE a \in 1..n /\ b \in 1..n
    <3>1. s[a] = q[a] /\ s[b] = q[b]
      BY <1>1, <2>1
    <3>2. x \in 1..Len(q[a].calls) /\ y \in 1..Len(q[b].calls) /\ q[a].calls[x].id = q[b].calls[y].id
      BY <3>1
    <3> QED BY <2>1, <3>2 DEF IdsInv, UniqueCalls
  <2>2. CASE a \in 1..n /\ b = n + 1
    <3>1. s[a] = q[a] /\ s[b] = t
      BY <1>1, <2>2
    <3>2. Called(q, t.calls[y].id)
      BY <2>2, <3>1 DEF Called
    <3> QED BY <3>1, <3>2 DEF Follows
  <2>3. CASE a = n + 1 /\ b \in 1..n
    <3>1. s[b] = q[b] /\ s[a] = t
      BY <1>1, <2>3
    <3>2. Called(q, t.calls[x].id)
      BY <2>3, <3>1 DEF Called
    <3> QED BY <3>1, <3>2 DEF Follows
  <2>4. CASE a = n + 1 /\ b = n + 1
    <3>1. s[b] = t /\ s[a] = t
      BY <1>1, <2>4
    <3> QED BY <2>4, <3>1 DEF Follows
  <2> QED BY <1>2, <2>1, <2>2, <2>3, <2>4
<1>4. UniqueResults(s)
  <2> SUFFICES ASSUME NEW a \in 1..(n + 1), NEW b \in 1..(n + 1),
                      NEW x \in 1..Len(s[a].results), NEW y \in 1..Len(s[b].results),
                      s[a].results[x].id = s[b].results[y].id
               PROVE  a = b /\ x = y
    BY <1>1 DEF UniqueResults
  <2>a. ASSUME NEW i \in 1..n, NEW u \in 1..Len(q[i].results), NEW v \in 1..Len(t.results)
        PROVE  q[i].results[u].id # t.results[v].id
    <3>1. PICK z \in 1..Len(q[n].calls) : q[n].calls[z].id = t.results[v].id
      BY DEF Follows
    <3>2. SUFFICES ASSUME q[n].calls[z].id = q[i].results[u].id PROVE FALSE
      BY <3>1
    <3>3. n \in 1..n
      BY <1>1
    <3>4. i = n + 1
      BY <3>2, <3>3, FollowsRule, SMTT(60)
    <3> QED BY <1>1, <3>4
  <2>1. CASE a \in 1..n /\ b \in 1..n
    <3>1. s[a] = q[a] /\ s[b] = q[b]
      BY <1>1, <2>1
    <3>2. /\ x \in 1..Len(q[a].results) /\ y \in 1..Len(q[b].results)
          /\ q[a].results[x].id = q[b].results[y].id
      BY <3>1
    <3> QED BY <2>1, <3>2 DEF IdsInv, UniqueResults
  <2>2. CASE a \in 1..n /\ b = n + 1
    <3>1. s[a] = q[a] /\ s[b] = t
      BY <1>1, <2>2
    <3> QED BY <2>2, <2>a, <3>1
  <2>3. CASE a = n + 1 /\ b \in 1..n
    <3>1. s[b] = q[b] /\ s[a] = t
      BY <1>1, <2>3
    <3> QED BY <2>3, <2>a, <3>1
  <2>4. CASE a = n + 1 /\ b = n + 1
    <3>1. s[b] = t /\ s[a] = t
      BY <1>1, <2>4
    <3> QED BY <2>4, <3>1 DEF Follows
  <2> QED BY <1>2, <2>1, <2>2, <2>3, <2>4
<1>5. Adjacent(s)
  <2> SUFFICES ASSUME NEW a \in 1..(n + 1), NEW b \in 1..(n + 1),
                      NEW x \in 1..Len(s[a].calls), NEW y \in 1..Len(s[b].results),
                      s[a].calls[x].id = s[b].results[y].id
               PROVE  b = a + 1
    BY <1>1 DEF Adjacent
  <2>1. CASE a \in 1..n /\ b \in 1..n
    <3>1. s[a] = q[a] /\ s[b] = q[b]
      BY <1>1, <2>1
    <3>2. /\ x \in 1..Len(q[a].calls) /\ y \in 1..Len(q[b].results)
          /\ q[a].calls[x].id = q[b].results[y].id
      BY <3>1
    <3> QED BY <2>1, <3>2, FollowsRule
  <2>2. CASE a \in 1..n /\ b = n + 1
    <3>1. s[a] = q[a] /\ s[b] = t
      BY <1>1, <2>2
    <3>2. x \in 1..Len(q[a].calls) /\ y \in 1..Len(t.results) /\ q[a].calls[x].id = t.results[y].id
      BY <3>1
    <3>3. PICK z \in 1..Len(q[n].calls) : q[n].calls[z].id = t.results[y].id
      BY <3>2 DEF Follows
    <3>4. n \in 1..n /\ q[a].calls[x].id = q[n].calls[z].id
      BY <1>1, <2>2, <3>2, <3>3
    <3>5. a = n
      BY <2>2, <3>2, <3>4 DEF IdsInv, UniqueCalls
    <3> QED BY <2>2, <3>5
  <2>3. CASE a = n + 1 /\ b \in 1..n
    <3>1. s[b] = q[b] /\ s[a] = t
      BY <1>1, <2>3
    <3>2. Answered(q, t.calls[x].id)
      BY <2>3, <3>1 DEF Answered
    <3> QED BY <3>1, <3>2 DEF Follows
  <2>4. CASE a = n + 1 /\ b = n + 1
    <3>1. s[b] = t /\ s[a] = t
      BY <1>1, <2>4
    <3>2. Len(t.calls) # 0 /\ Len(t.results) # 0
      BY <3>1
    <3> QED BY <3>2, EmptySeq DEF Follows
  <2> QED BY <1>2, <2>1, <2>2, <2>3, <2>4
<1> QED BY <1>1, <1>3, <1>4, <1>5 DEF IdsInv, s

\* The rest of a history is a history.
LEMMA ForgetKeeps ==
  ASSUME NEW q \in Seq(LegalTurn), IdsInv(q), q # <<>>, NEW s, s = Tail(q)
  PROVE  /\ s \in Seq(LegalTurn) /\ Len(s) = Len(q) - 1 /\ Len(q) \in Nat
         /\ \A i \in 1..Len(s) : s[i] = q[i + 1] /\ i + 1 \in 1..Len(q)
         /\ IdsInv(s)
<1>1. /\ s \in Seq(LegalTurn) /\ Len(s) = Len(q) - 1 /\ Len(q) \in Nat
      /\ \A i \in 1..Len(s) : s[i] = q[i + 1] /\ i + 1 \in 1..Len(q)
  BY HeadTailProperties, LenProperties, EmptySeq
<1>2. UniqueCalls(s)
  <2> SUFFICES ASSUME NEW a \in 1..Len(s), NEW b \in 1..Len(s),
                      NEW x \in 1..Len(s[a].calls), NEW y \in 1..Len(s[b].calls),
                      s[a].calls[x].id = s[b].calls[y].id
               PROVE  a = b /\ x = y
    BY DEF UniqueCalls
  <2> DEFINE c == a + 1
             d == b + 1
  <2>1. s[a] = q[c] /\ s[b] = q[d] /\ c \in 1..Len(q) /\ d \in 1..Len(q)
    BY <1>1
  <2> HIDE DEF c, d
  <2>2. x \in 1..Len(q[c].calls) /\ y \in 1..Len(q[d].calls) /\ q[c].calls[x].id = q[d].calls[y].id
    BY <2>1
  <2>3. c = d /\ x = y
    BY <2>1, <2>2, SMTT(60) DEF IdsInv, UniqueCalls
  <2> QED BY <1>1, <2>3 DEF c, d
<1>3. UniqueResults(s)
  <2> SUFFICES ASSUME NEW a \in 1..Len(s), NEW b \in 1..Len(s),
                      NEW x \in 1..Len(s[a].results), NEW y \in 1..Len(s[b].results),
                      s[a].results[x].id = s[b].results[y].id
               PROVE  a = b /\ x = y
    BY DEF UniqueResults
  <2> DEFINE c == a + 1
             d == b + 1
  <2>1. s[a] = q[c] /\ s[b] = q[d] /\ c \in 1..Len(q) /\ d \in 1..Len(q)
    BY <1>1
  <2> HIDE DEF c, d
  <2>2. /\ x \in 1..Len(q[c].results) /\ y \in 1..Len(q[d].results)
        /\ q[c].results[x].id = q[d].results[y].id
    BY <2>1
  <2>3. c = d /\ x = y
    BY <2>1, <2>2, OnceRule
  <2> QED BY <1>1, <2>3 DEF c, d
<1>4. Adjacent(s)
  <2> SUFFICES ASSUME NEW a \in 1..Len(s), NEW b \in 1..Len(s),
                      NEW x \in 1..Len(s[a].calls), NEW y \in 1..Len(s[b].results),
                      s[a].calls[x].id = s[b].results[y].id
               PROVE  b = a + 1
    BY DEF Adjacent
  <2> DEFINE c == a + 1
             d == b + 1
  <2>1. s[a] = q[c] /\ s[b] = q[d] /\ c \in 1..Len(q) /\ d \in 1..Len(q)
    BY <1>1
  <2> HIDE DEF c, d
  <2>2. /\ x \in 1..Len(q[c].calls) /\ y \in 1..Len(q[d].results)
        /\ q[c].calls[x].id = q[d].results[y].id
    BY <2>1
  <2>3. d = c + 1
    BY <2>1, <2>2, FollowsRule
  <2> QED BY <1>1, <2>3 DEF c, d
<1> QED BY <1>1, <1>2, <1>3, <1>4 DEF IdsInv

-----------------------------------------------------------------------------
(* The places of what is said *)

PlaceIn == [p \in AnyPart |-> IF p.type = "text" THEN p.text ELSE <<p.image>>]
PlacesOf(ps) == Mapped(ps, PlaceIn)

LEMMA PlaceInMaps ==
  /\ Maps(PlaceIn, AnyPart, Spots)
  /\ \A p \in AnyPart : PlaceIn[p] = Places(p)
<1>1. \A b \in Spots : <<b>> \in Seq(Spots)
  OBVIOUS
<1>2. Maps(PlaceIn, AnyPart, Spots)
  BY <1>1, PartType DEF Maps, PlaceIn
<1>3. \A p \in AnyPart : PlaceIn[p] = Places(p)
  BY PartType DEF PlaceIn, Places
<1> QED BY <1>2, <1>3

\* Pieces whose places increase, each before the next, are places that increase.
LEMMA IncreasesMapped ==
  ASSUME NEW E, NEW F, Maps(F, E, Spots), NEW s \in Seq(E),
         \A i \in 1..Len(s) : Increases(F[s[i]]),
         \A i, k \in 1..Len(s) : i < k =>
            \A x \in ToSet(F[s[i]]), y \in ToSet(F[s[k]]) : Before(x, y)
  PROVE  Increases(Mapped(s, F))
<1> DEFINE m == Mapped(s, F)
<1>1. PICK row, col : Placed(s, F, row, col)
  BY MappedPlaced
<1>2. m \in Seq(Spots) /\ DOMAIN m = 1..Len(m)
  BY MappedType, LenProperties
<1>3. \A i \in 1..Len(s) : F[s[i]] \in Seq(Spots) /\ DOMAIN F[s[i]] = 1..Len(F[s[i]])
  BY ElementOfSeq, LenProperties DEF Maps
<1>4. /\ \A k \in 1..Len(m) : /\ row[k] \in 1..Len(s) /\ col[k] \in 1..Len(F[s[row[k]]])
                              /\ m[k] = F[s[row[k]]][col[k]]
      /\ \A k, l \in 1..Len(m) : k < l => row[k] < row[l] \/ (row[k] = row[l] /\ col[k] < col[l])
  BY <1>1 DEF Placed
<1> HIDE DEF m
<1>5. ASSUME NEW k \in 1..Len(m), NEW l \in 1..Len(m), k < l
      PROVE  Before(m[k], m[l])
  <2> DEFINE a == row[k]
             b == row[l]
             x == col[k]
             y == col[l]
  <2>1. /\ a \in 1..Len(s) /\ b \in 1..Len(s) /\ x \in 1..Len(F[s[a]]) /\ y \in 1..Len(F[s[b]])
        /\ m[k] = F[s[a]][x] /\ m[l] = F[s[b]][y]
        /\ a < b \/ (a = b /\ x < y)
    BY <1>4, <1>5
  <2> HIDE DEF a, b, x, y
  <2>2. DOMAIN F[s[a]] = 1..Len(F[s[a]]) /\ DOMAIN F[s[b]] = 1..Len(F[s[b]])
    BY <1>3, <2>1
  <2>3. CASE a < b
    <3>1. F[s[a]][x] \in ToSet(F[s[a]]) /\ F[s[b]][y] \in ToSet(F[s[b]])
      BY <2>1, <2>2 DEF ToSet
    <3> QED BY <2>1, <2>3, <3>1
  <2>4. CASE a = b /\ x < y
    <3>1. Increases(F[s[a]])
      BY <2>1
    <3> QED BY <2>1, <2>2, <2>4, <3>1 DEF Increases
  <2> QED BY <2>1, <2>3, <2>4
<1> QED BY <1>2, <1>5 DEF Increases, m

LEMMA IncreasesConcat ==
  ASSUME NEW s \in Seq(Spots), NEW t \in Seq(Spots), Increases(s), Increases(t),
         \A x \in ToSet(s), y \in ToSet(t) : Before(x, y)
  PROVE  Increases(s \o t)
<1>1. /\ Len(s) \in Nat /\ Len(t) \in Nat /\ Len(s \o t) = Len(s) + Len(t)
      /\ DOMAIN s = 1..Len(s) /\ DOMAIN t = 1..Len(t) /\ DOMAIN (s \o t) = 1..(Len(s) + Len(t))
      /\ \A i \in 1..Len(s) : (s \o t)[i] = s[i]
      /\ \A i \in 1..Len(t) : (s \o t)[Len(s) + i] = t[i]
  BY LenProperties, ConcatProperties
<1> DEFINE u == s \o t
           n == Len(s)
<1> HIDE DEF u, n
<1>2. \A i \in 1..(n + Len(t)) :
        \/ i \in 1..n /\ u[i] = s[i]
        \/ i > n /\ i - n \in 1..Len(t) /\ u[i] = t[i - n]
  <2> SUFFICES ASSUME NEW i \in 1..(n + Len(t))
               PROVE  \/ i \in 1..n /\ u[i] = s[i]
                      \/ i > n /\ i - n \in 1..Len(t) /\ u[i] = t[i - n]
    OBVIOUS
  <2>1. CASE i \in 1..n
    BY <1>1, <2>1 DEF u, n
  <2>2. CASE i \notin 1..n
    <3>1. i > n /\ i - n \in 1..Len(t) /\ n + (i - n) = i
      BY <1>1, <2>2 DEF n
    <3>2. u[n + (i - n)] = t[i - n]
      BY <1>1, <3>1 DEF u, n
    <3> QED BY <3>1, <3>2
  <2> QED BY <2>1, <2>2
<1>3. ASSUME NEW k \in 1..(n + Len(t)), NEW l \in 1..(n + Len(t)), k < l
      PROVE  Before(u[k], u[l])
  <2>1. CASE k \in 1..n /\ u[k] = s[k] /\ l \in 1..n /\ u[l] = s[l]
    BY <1>1, <1>3, <2>1 DEF Increases, n
  <2>2. CASE k \in 1..n /\ u[k] = s[k] /\ l - n \in 1..Len(t) /\ u[l] = t[l - n]
    <3>1. s[k] \in ToSet(s) /\ t[l - n] \in ToSet(t)
      BY <1>1, <2>2 DEF ToSet, n
    <3> QED BY <2>2, <3>1
  <2>3. CASE k > n /\ k - n \in 1..Len(t) /\ u[k] = t[k - n]
             /\ l > n /\ l - n \in 1..Len(t) /\ u[l] = t[l - n]
    <3>1. k - n < l - n
      BY <1>1, <1>3 DEF n
    <3> QED BY <1>1, <2>3, <3>1 DEF Increases
  <2>4. ~(k > n /\ l \in 1..n)
    BY <1>1, <1>3 DEF n
  <2> QED BY <1>2, <2>1, <2>2, <2>3, <2>4
<1> QED BY <1>1, <1>3 DEF Increases, u, n

\* A list of parts said in turn n.
Spoken(ps, n) ==
    /\ Increases(PlacesOf(ps))
    /\ \A x \in ToSet(PlacesOf(ps)) : x[1] = n /\ x[2] = 1

LEMMA PartsAre ==
  ASSUME NEW n \in Nat, NEW kinds \in Seq(Kinds), NEW ps, ps = Parts(n, kinds)
  PROVE  /\ ps \in Seq(AnyPart) /\ Len(ps) = Len(kinds) /\ (kinds = <<>> => ps = <<>>)
         /\ \A i \in 1..Len(kinds) : kinds[i] # "empty" => ps[i] \in Full
         /\ (\A i \in 1..Len(kinds) : kinds[i] = "text") => ps \in Seq(Texts)
         /\ Spoken(ps, n)
<1>1. /\ DOMAIN kinds = 1..Len(kinds) /\ Len(kinds) \in Nat
      /\ \A i \in 1..Len(kinds) : kinds[i] \in {"text", "image", "empty"}
  BY LenProperties, ElementOfSeq DEF Kinds
<1>2. \A i \in 1..Len(kinds) : <<n, 1, i>> \in Spots
  BY <1>1 DEF Spots
<1>3. \A b \in Spots : <<b>> \in Seq(Spots) /\ <<b>> # <<>>
  OBVIOUS
<1>4. \A b \in Spots : /\ Text(<<b>>) \in Texts /\ Text(<<b>>) \in Full /\ PlaceIn[Text(<<b>>)] = <<b>>
                       /\ Image(b) \in Full /\ PlaceIn[Image(b)] = <<b>>
  BY <1>3 DEF Text, Image, Texts, Images, AnyPart, Full, PlaceIn
<1>5. Text(<<>>) \in Texts /\ Text(<<>>) \in AnyPart /\ PlaceIn[Text(<<>>)] = <<>>
  BY EmptySeq DEF Text, Texts, AnyPart, PlaceIn
<1>6. DOMAIN ps = 1..Len(kinds)
  BY <1>1 DEF Parts
<1>7. \A i \in 1..Len(kinds) : \/ kinds[i] = "text" /\ ps[i] = Text(<< <<n, 1, i>> >>)
                               \/ kinds[i] = "image" /\ ps[i] = Image(<<n, 1, i>>)
                               \/ kinds[i] = "empty" /\ ps[i] = Text(<<>>)
  BY <1>1 DEF Parts
<1>8. \A i \in 1..Len(kinds) :
        /\ ps[i] \in AnyPart /\ (kinds[i] # "empty" => ps[i] \in Full)
        /\ (kinds[i] = "text" => ps[i] \in Texts)
        /\ PlaceIn[ps[i]] = << <<n, 1, i>> >> \/ PlaceIn[ps[i]] = <<>>
  BY <1>2, <1>4, <1>5, <1>7 DEF Full
<1>9. ps = [i \in 1..Len(kinds) |-> ps[i]]
  BY <1>1 DEF Parts
<1>10. ps \in Seq(AnyPart) /\ Len(ps) = Len(kinds)
  <2>1. ps \in Seq(AnyPart)
    BY <1>1, <1>8, <1>9, IsASeq
  <2> QED BY <1>1, <1>6, <2>1, LenProperties
<1>11. (\A i \in 1..Len(kinds) : kinds[i] = "text") => ps \in Seq(Texts)
  BY <1>1, <1>8, <1>9, IsASeq
<1>12. kinds = <<>> => ps = <<>>
  BY <1>10, EmptySeq
<1>13. \A i \in 1..Len(ps) :
         /\ ToSet(PlaceIn[ps[i]]) \subseteq {<<n, 1, i>>}
         /\ Increases(PlaceIn[ps[i]])
  <2>1. \A b : ToSet(<<b>>) = {b} /\ ToSet(<<>>) = {}
    BY DEF ToSet
  <2>2. \A b : Increases(<<b>>) /\ Increases(<<>>)
    BY DEF Increases
  <2> QED BY <1>8, <1>10, <2>1, <2>2
<1>14. Increases(PlacesOf(ps))
  <2>1. \A i, k \in 1..Len(ps) : i < k =>
            \A x \in ToSet(PlaceIn[ps[i]]), y \in ToSet(PlaceIn[ps[k]]) : Before(x, y)
    <3> SUFFICES ASSUME NEW i \in 1..Len(ps), NEW k \in 1..Len(ps), i < k,
                        NEW x \in ToSet(PlaceIn[ps[i]]), NEW y \in ToSet(PlaceIn[ps[k]])
                 PROVE  Before(x, y)
      OBVIOUS
    <3>1. x = <<n, 1, i>> /\ y = <<n, 1, k>>
      BY <1>13
    <3> QED BY <3>1 DEF Before
  <2> QED BY <1>10, <1>13, <2>1, PlaceInMaps, IncreasesMapped DEF PlacesOf
<1>15. ASSUME NEW x \in ToSet(PlacesOf(ps)) PROVE x[1] = n /\ x[2] = 1
  <2>1. ToSet(PlacesOf(ps)) = UNION {ToSet(PlaceIn[ps[i]]) : i \in 1..Len(ps)}
    BY <1>10, PlaceInMaps, MappedElements DEF PlacesOf
  <2>2. PICK i \in 1..Len(ps) : x \in ToSet(PlaceIn[ps[i]])
    BY <2>1
  <2>3. x = <<n, 1, i>>
    BY <1>13, <2>2
  <2> QED BY <2>3
<1> QED BY <1>8, <1>10, <1>11, <1>12, <1>14, <1>15 DEF Spoken

\* What the j-th tool of turn n returns: a text, an image, or a text and an image.
TextSpot(n, j) == <<n, 0, 2 * j - 1>>
ImageSpot(n, j) == <<n, 0, 2 * j>>
Returned(ps, n, j) ==
    \/ ps = <<Text(<<TextSpot(n, j)>>)>>
    \/ ps = <<Image(ImageSpot(n, j))>>
    \/ ps = <<Text(<<TextSpot(n, j)>>), Image(ImageSpot(n, j))>>

LEMMA SpotsAre ==
  ASSUME NEW n \in Nat, NEW j \in Nat, j # 0
  PROVE  /\ TextSpot(n, j) \in Spots /\ ImageSpot(n, j) \in Spots
         /\ Text(<<TextSpot(n, j)>>) \in AnyPart /\ Image(ImageSpot(n, j)) \in AnyPart
<1>1. 2 * j - 1 \in Nat /\ 2 * j \in Nat
  OBVIOUS
<1>2. TextSpot(n, j) \in Spots /\ ImageSpot(n, j) \in Spots
  BY <1>1 DEF TextSpot, ImageSpot, Spots
<1>3. \A b \in Spots : <<b>> \in Seq(Spots)
  OBVIOUS
<1>4. \A b \in Spots : Text(<<b>>) \in AnyPart /\ Image(b) \in AnyPart
  BY <1>3 DEF Text, Image, AnyPart, Texts, Images
<1> QED BY <1>2, <1>4

LEMMA ResultsAre ==
  ASSUME NEW n \in Nat, NEW ids \in Seq(Ids), NEW kinds, NEW rs, rs = Results(n, ids, kinds)
  PROVE  /\ rs \in Seq(AnyResult) /\ Len(rs) = Len(ids)
         /\ \A j \in 1..Len(rs) : rs[j].id = ids[j] /\ Returned(rs[j].parts, n, j)
<1>1. DOMAIN ids = 1..Len(ids) /\ Len(ids) \in Nat /\ \A j \in 1..Len(ids) : ids[j] \in Ids
  BY LenProperties, ElementOfSeq
<1> DEFINE parts(j) ==
             (IF kinds[ids[j]] # "image" THEN <<Text(<<TextSpot(n, j)>>)>> ELSE <<>>)
             \o (IF kinds[ids[j]] # "text" THEN <<Image(ImageSpot(n, j))>> ELSE <<>>)
<1>2. rs = [j \in 1..Len(ids) |-> [id |-> ids[j], parts |-> parts(j)]]
  BY <1>1 DEF Results, TextSpot, ImageSpot
<1>5. ASSUME NEW j \in 1..Len(ids)
      PROVE  Returned(parts(j), n, j) /\ parts(j) \in Seq(AnyPart)
  <2> DEFINE a == Text(<<TextSpot(n, j)>>)
             b == Image(ImageSpot(n, j))
  <2>1. a \in AnyPart /\ b \in AnyPart
    <3>1. j \in Nat /\ j # 0
      BY <1>1
    <3> QED BY <3>1, SpotsAre
  <2>2. parts(j) = (IF kinds[ids[j]] # "image" THEN <<a>> ELSE <<>>)
                   \o (IF kinds[ids[j]] # "text" THEN <<b>> ELSE <<>>)
    OBVIOUS
  <2>3. Returned(parts(j), n, j) <=> parts(j) = <<a>> \/ parts(j) = <<b>> \/ parts(j) = <<a, b>>
    BY DEF Returned
  <2> HIDE DEF a, b, parts
  <2>4. /\ <<a>> \o <<>> = <<a>> /\ <<>> \o <<b>> = <<b>> /\ <<a>> \o <<b>> = <<a, b>>
        /\ <<a>> \in Seq(AnyPart) /\ <<b>> \in Seq(AnyPart) /\ <<a, b>> \in Seq(AnyPart)
    <3>1. \A x, y \in AnyPart :
           /\ <<x>> \in Seq(AnyPart) /\ <<y>> \in Seq(AnyPart) /\ <<x, y>> \in Seq(AnyPart)
           /\ <<x>> \o <<y>> = <<x, y>>
           /\ <<x>> \o <<>> = <<x>> /\ <<>> \o <<y>> = <<y>>
           /\ Append(<<>>, x) = <<x>> /\ Append(<<>>, y) = <<y>> /\ Append(<<x>>, y) = <<x, y>>
           /\ ToSet(<<x>>) = {x} /\ ToSet(<<y>>) = {y} /\ ToSet(<<x, y>>) = {x, y}
      BY ShortLists
    <3> QED BY <2>1, <3>1
  <2>5. parts(j) = <<a>> \/ parts(j) = <<b>> \/ parts(j) = <<a, b>>
    BY <2>2, <2>4
  <2> QED BY <2>3, <2>4, <2>5
<1> HIDE DEF parts
<1>6. \A j \in 1..Len(ids) : rs[j] = [id |-> ids[j], parts |-> parts(j)]
  BY <1>2
<1>7. ASSUME NEW j \in 1..Len(ids) PROVE rs[j] \in AnyResult
  <2>1. \A id \in Ids, ps \in Seq(AnyPart) : [id |-> id, parts |-> ps] \in AnyResult
    BY DEF AnyResult
  <2> QED BY <1>1, <1>5, <1>6, <2>1
<1>8. rs \in Seq(AnyResult) /\ Len(rs) = Len(ids)
  <2>1. rs = [j \in 1..Len(ids) |-> rs[j]] /\ DOMAIN rs = 1..Len(ids)
    BY <1>2
  <2>2. rs \in Seq(AnyResult)
    BY <1>1, <1>7, <2>1, IsASeq
  <2> QED BY <1>1, <2>1, <2>2, LenProperties
<1>9. ASSUME NEW j \in 1..Len(ids) PROVE rs[j].id = ids[j] /\ Returned(rs[j].parts, n, j)
  <2>1. rs[j].id = ids[j] /\ rs[j].parts = parts(j)
    <3>1. rs[j] = [id |-> ids[j], parts |-> parts(j)]
      BY <1>6
    <3> QED BY <3>1
  <2> QED BY <1>5, <2>1
<1> QED BY <1>8, <1>9

\* The places of what a tool returned: in order, and as its text followed by its images.
LEMMA ReturnedPlaces ==
  ASSUME NEW n \in Nat, NEW j \in Nat, j # 0, NEW ps \in Seq(AnyPart), Returned(ps, n, j)
  PROVE  /\ PlacesOf(ps) = TextOf(ps) \o PlacesOf(ImagesIn(ps))
         /\ Increases(PlacesOf(ps))
         /\ \A x \in ToSet(PlacesOf(ps)) : x = TextSpot(n, j) \/ x = ImageSpot(n, j)
<1> DEFINE a == TextSpot(n, j)
           b == ImageSpot(n, j)
           p == Text(<<a>>)
           q == Image(b)
<1>1. /\ a \in Spots /\ b \in Spots /\ p \in AnyPart /\ q \in AnyPart
      /\ p \notin Images /\ q \in Images
  <2>1. \A c \in Spots : Image(c) \in Images
    BY DEF Image, Images
  <2>2. \A c : Text(c) \notin Images
    BY DEF Text, Images
  <2> QED BY <2>1, <2>2, SpotsAre
<1>2. PlaceIn[p] = <<a>> /\ PlaceIn[q] = <<b>> /\ TextIn[p] = <<a>> /\ TextIn[q] = <<>>
  <2>1. p.type = "text" /\ p.text = <<a>> /\ q.type = "image" /\ q.image = b
    BY DEF Text, Image
  <2> QED BY <1>1, <2>1 DEF PlaceIn, TextIn
<1>3. Before(a, b)
  BY DEF Before, TextSpot, ImageSpot
<1>4. ps = <<p>> \/ ps = <<q>> \/ ps = <<p, q>>
  BY DEF Returned
<1> HIDE DEF a, b, p, q
<1>5. /\ <<p>> \in Seq(AnyPart) /\ <<q>> \in Seq(AnyPart) /\ <<p, q>> = <<p>> \o <<q>>
      /\ Append(<<>>, p) = <<p>> /\ Append(<<>>, q) = <<q>> /\ Append(<<p>>, q) = <<p, q>>
  <2>1. \A x, y \in AnyPart :
           /\ <<x>> \in Seq(AnyPart) /\ <<y>> \in Seq(AnyPart) /\ <<x, y>> \in Seq(AnyPart)
           /\ <<x>> \o <<y>> = <<x, y>>
           /\ <<x>> \o <<>> = <<x>> /\ <<>> \o <<y>> = <<y>>
           /\ Append(<<>>, x) = <<x>> /\ Append(<<>>, y) = <<y>> /\ Append(<<x>>, y) = <<x, y>>
           /\ ToSet(<<x>>) = {x} /\ ToSet(<<y>>) = {y} /\ ToSet(<<x, y>>) = {x, y}
    BY ShortLists
  <2> QED BY <1>1, <2>1
<1>6. \A e \in AnyPart : Mapped(<<e>>, PlaceIn) = PlaceIn[e] /\ Mapped(<<e>>, TextIn) = TextIn[e]
  BY PlaceInMaps, TextInMaps, MappedOne, ZenonT(60)
<1>7. PlacesOf(<<p>>) = <<a>> /\ PlacesOf(<<q>>) = <<b>> /\ TextOf(<<p>>) = <<a>> /\ TextOf(<<q>>) = <<>>
  BY <1>1, <1>2, <1>6 DEF PlacesOf, TextOf
<1>8. PlacesOf(<<p, q>>) = <<a>> \o <<b>> /\ TextOf(<<p, q>>) = <<a>> \o <<>>
  <2> DEFINE r == <<p>>
  <2>0. r \in Seq(AnyPart)
    BY <1>5
  <2> HIDE DEF r
  <2>a. \A s \in Seq(AnyPart) : Mapped(r \o s, PlaceIn) = Mapped(r, PlaceIn) \o Mapped(s, PlaceIn)
    BY <2>0, PlaceInMaps, MappedConcat
  <2>b. \A s \in Seq(AnyPart) : Mapped(r \o s, TextIn) = Mapped(r, TextIn) \o Mapped(s, TextIn)
    BY <2>0, TextInMaps, MappedConcat
  <2>1. \A s \in Seq(AnyPart) : Mapped(<<p>> \o s, PlaceIn) = Mapped(<<p>>, PlaceIn) \o Mapped(s, PlaceIn)
    BY <2>a DEF r
  <2>2. \A s \in Seq(AnyPart) : Mapped(<<p>> \o s, TextIn) = Mapped(<<p>>, TextIn) \o Mapped(s, TextIn)
    BY <2>b DEF r
  <2> QED BY <1>5, <1>7, <2>1, <2>2 DEF PlacesOf, TextOf
<1>9. ImagesIn(<<p>>) = <<>> /\ ImagesIn(<<q>>) = <<q>> /\ ImagesIn(<<p, q>>) = <<q>>
  <2>1. \A s \in Seq(AnyPart), e \in AnyPart :
           Select(Append(s, e), Images) = IF e \in Images THEN Append(Select(s, Images), e) ELSE Select(s, Images)
    BY SelectAppend
  <2>2. Select(<<>>, Images) = <<>> /\ <<>> \in Seq(AnyPart)
    BY SelectEmpty, EmptySeq
  <2>3. Select(<<p>>, Images) = <<>>
    BY <1>1, <1>5, <2>1, <2>2
  <2>4. Select(<<q>>, Images) = <<q>>
    BY <1>1, <1>5, <2>1, <2>2
  <2>5. Select(<<p, q>>, Images) = <<q>>
    BY <1>1, <1>5, <2>1, <2>3
  <2> QED BY <2>3, <2>4, <2>5 DEF ImagesIn
<1>10. PlacesOf(<<>>) = <<>>
  BY MappedEmpty DEF PlacesOf
<1>11. /\ <<a>> \in Seq(Spots) /\ <<b>> \in Seq(Spots) /\ <<a>> \o <<b>> = <<a, b>>
       /\ <<a>> \o <<>> = <<a>> /\ <<>> \o <<b>> = <<b>>
       /\ ToSet(<<a>>) = {a} /\ ToSet(<<b>>) = {b} /\ ToSet(<<a, b>>) = {a, b}
       /\ Increases(<<a>>) /\ Increases(<<b>>)
  <2>1. Increases(<<a>>) /\ Increases(<<b>>)
    BY DEF Increases
  <2>2. \A x, y \in Spots :
           /\ <<x>> \in Seq(Spots) /\ <<y>> \in Seq(Spots) /\ <<x, y>> \in Seq(Spots)
           /\ <<x>> \o <<y>> = <<x, y>>
           /\ <<x>> \o <<>> = <<x>> /\ <<>> \o <<y>> = <<y>>
           /\ Append(<<>>, x) = <<x>> /\ Append(<<>>, y) = <<y>> /\ Append(<<x>>, y) = <<x, y>>
           /\ ToSet(<<x>>) = {x} /\ ToSet(<<y>>) = {y} /\ ToSet(<<x, y>>) = {x, y}
    BY ShortLists
  <2> QED BY <1>1, <2>1, <2>2
<1>12. ToSet(<<a>> \o <<b>>) \subseteq {a, b} /\ Increases(<<a>> \o <<b>>)
  <2>1. Increases(<<a>> \o <<b>>)
    BY <1>3, <1>11, IncreasesConcat
  <2> QED BY <1>11, <2>1
<1>13. CASE ps = <<p>>
  BY <1>7, <1>9, <1>10, <1>11, <1>13 DEF a, b
<1>14. CASE ps = <<q>>
  BY <1>7, <1>9, <1>10, <1>11, <1>14 DEF a, b
<1>15. CASE ps = <<p, q>>
  BY <1>7, <1>8, <1>9, <1>10, <1>11, <1>12, <1>15 DEF a, b
<1> QED BY <1>4, <1>13, <1>14, <1>15

-----------------------------------------------------------------------------
(* The turns the client adds *)

\* Turn n of a conversation: its texts and images stand where they were said.
SaidIn(t, n) ==
    /\ Spoken(t.parts, n)
    /\ t.role = "assistant" => t.parts \in Seq(Texts)
    /\ \A j \in 1..Len(t.results) : Returned(t.results[j].parts, n, j)

\* What the client remembers after n turns.
History(q, n) ==
    /\ q \in Seq(LegalTurn) /\ n \in Nat /\ Len(q) <= n
    /\ IdsInv(q)
    /\ \A i \in 1..Len(q) : SaidIn(q[i], n - Len(q) + i)

LEMMA HistoryGrows ==
  ASSUME NEW q, NEW n, History(q, n), NEW t \in LegalTurn, Follows(q, t), SaidIn(t, n + 1)
  PROVE  History(Append(q, t), n + 1)
<1> DEFINE s == Append(q, t)
<1>1. /\ q \in Seq(LegalTurn) /\ n \in Nat /\ Len(q) <= n /\ IdsInv(q) /\ Len(q) \in Nat
      /\ \A i \in 1..Len(q) : SaidIn(q[i], n - Len(q) + i)
  BY LenProperties DEF History
<1>2. /\ s \in Seq(LegalTurn) /\ Len(s) = Len(q) + 1 /\ IdsInv(s)
      /\ s[Len(q) + 1] = t /\ \A i \in 1..Len(q) : s[i] = q[i]
  BY <1>1, AddKeeps
<1> HIDE DEF s
<1>3. ASSUME NEW i \in 1..Len(s) PROVE SaidIn(s[i], (n + 1) - Len(s) + i)
  <2>1. CASE i \in 1..Len(q)
    <3>1. (n + 1) - Len(s) + i = n - Len(q) + i
      BY <1>1, <1>2
    <3>2. s[i] = q[i]
      BY <1>2, <2>1
    <3> QED BY <1>1, <2>1, <3>1, <3>2
  <2>2. CASE i = Len(q) + 1
    <3>1. (n + 1) - Len(s) + i = n + 1
      BY <1>1, <1>2, <2>2
    <3> QED BY <1>2, <2>2, <3>1
  <2> QED BY <1>1, <1>2, <2>1, <2>2
<1>4. n + 1 \in Nat /\ Len(s) <= n + 1
  BY <1>1, <1>2
<1>5. History(s, n + 1)
  BY <1>2, <1>3, <1>4 DEF History
<1> QED BY <1>5 DEF s

LEMMA HistoryForgets ==
  ASSUME NEW q, NEW n, History(q, n), q # <<>>
  PROVE  History(Tail(q), n)
<1> DEFINE s == Tail(q)
<1>1. /\ q \in Seq(LegalTurn) /\ n \in Nat /\ Len(q) <= n /\ IdsInv(q) /\ Len(q) \in Nat
      /\ \A i \in 1..Len(q) : SaidIn(q[i], n - Len(q) + i)
  BY LenProperties DEF History
<1>2. /\ s \in Seq(LegalTurn) /\ Len(s) = Len(q) - 1 /\ IdsInv(s)
      /\ \A i \in 1..Len(s) : s[i] = q[i + 1] /\ i + 1 \in 1..Len(q)
  BY <1>1, ForgetKeeps
<1> HIDE DEF s
<1>3. ASSUME NEW i \in 1..Len(s) PROVE SaidIn(s[i], n - Len(s) + i)
  <2>1. n - Len(s) + i = n - Len(q) + (i + 1)
    BY <1>1, <1>2
  <2>2. SaidIn(q[i + 1], n - Len(q) + (i + 1))
    BY <1>1, <1>2
  <2> QED BY <1>2, <2>1, <2>2
<1>4. History(s, n)
  BY <1>1, <1>2, <1>3 DEF History
<1> QED BY <1>4 DEF s

LEMMA TurnType ==
  \A role \in {"system", "user", "assistant"} :
    \A calls \in Seq(AnyCall), results \in Seq(AnyResult), parts \in Seq(AnyPart) :
      [role |-> role, calls |-> calls, results |-> results, parts |-> parts] \in AnyTurn
  BY DEF AnyTurn

LEMMA NoneHere == <<>> \in Seq(AnyCall) /\ <<>> \in Seq(AnyResult) /\ 1..Len(<<>>) = {}
  BY EmptySeq

LEMMA SystemTurnIs ==
  ASSUME NEW q, NEW n \in Nat, NEW t, t = Turn("system", <<>>, <<>>, Parts(n + 1, <<"text">>))
  PROVE  t \in LegalTurn /\ Follows(q, t) /\ SaidIn(t, n + 1)
<1> DEFINE kinds == <<"text">>
           ps == Parts(n + 1, kinds)
<1>1. kinds \in Seq(Kinds) /\ \A i \in 1..Len(kinds) : kinds[i] = "text"
  BY DEF Kinds
<1>2. t = Turn("system", <<>>, <<>>, ps)
  OBVIOUS
<1> HIDE DEF kinds
<1>3. ps \in Seq(AnyPart) /\ ps \in Seq(Texts) /\ Spoken(ps, n + 1)
  BY <1>1, PartsAre
<1> HIDE DEF ps
<1>4. /\ t \in AnyTurn
      /\ t.role = "system" /\ t.calls = <<>> /\ t.results = <<>> /\ t.parts = ps
  <2>1. t = [role |-> "system", calls |-> <<>>, results |-> <<>>, parts |-> ps]
    BY <1>2 DEF Turn
  <2>2. t.role = "system" /\ t.calls = <<>> /\ t.results = <<>> /\ t.parts = ps
    BY <2>1
  <2>3. t \in AnyTurn
    BY <1>3, <2>1, NoneHere, TurnType
  <2> QED BY <2>2, <2>3
<1>5. t \in LegalTurn
  BY <1>3, <1>4 DEF LegalTurn
<1>6. Follows(q, t)
  BY <1>4, NoneHere DEF Follows
<1>7. SaidIn(t, n + 1)
  BY <1>3, <1>4, NoneHere DEF SaidIn
<1> QED BY <1>5, <1>6, <1>7

LEMMA UserTurnIs ==
  ASSUME NEW q, NEW n \in Nat, NEW kinds \in Seq(Kinds), NEW ids \in Seq(Ids), NEW of,
         kinds # <<>> => \E i \in 1..Len(kinds) : kinds[i] # "empty",
         Distinct(ids),
         \A y \in 1..Len(ids) : /\ Len(q) # 0
                                /\ \E x \in 1..Len(q[Len(q)].calls) : q[Len(q)].calls[x].id = ids[y],
         NEW t, t = Turn("user", <<>>, Results(n + 1, ids, of), Parts(n + 1, kinds))
  PROVE  t \in LegalTurn /\ Follows(q, t) /\ SaidIn(t, n + 1)
<1> DEFINE ps == Parts(n + 1, kinds)
           rs == Results(n + 1, ids, of)
<1>1. /\ ps \in Seq(AnyPart) /\ Len(ps) = Len(kinds) /\ (kinds = <<>> => ps = <<>>)
      /\ \A i \in 1..Len(kinds) : kinds[i] # "empty" => ps[i] \in Full
      /\ Spoken(ps, n + 1)
  BY PartsAre
<1>2. /\ rs \in Seq(AnyResult) /\ Len(rs) = Len(ids)
      /\ \A j \in 1..Len(rs) : rs[j].id = ids[j] /\ Returned(rs[j].parts, n + 1, j)
  BY ResultsAre
<1>3. t = Turn("user", <<>>, rs, ps)
  OBVIOUS
<1> HIDE DEF ps, rs
<1>4. /\ t \in AnyTurn
      /\ t.role = "user" /\ t.calls = <<>> /\ t.results = rs /\ t.parts = ps
  <2>1. t = [role |-> "user", calls |-> <<>>, results |-> rs, parts |-> ps]
    BY <1>3 DEF Turn
  <2>2. t.role = "user" /\ t.calls = <<>> /\ t.results = rs /\ t.parts = ps
    BY <2>1
  <2>3. t \in AnyTurn
    BY <1>1, <1>2, <2>1, NoneHere, TurnType
  <2> QED BY <2>2, <2>3
<1>5. t \in LegalTurn
  BY <1>1, <1>4 DEF LegalTurn
<1>6. Follows(q, t)
  <2>1. \A x, y \in 1..Len(t.results) : t.results[x].id = t.results[y].id => x = y
    BY <1>2, <1>4 DEF Distinct
  <2>2. \A y \in 1..Len(t.results) :
           /\ Len(q) # 0
           /\ \E x \in 1..Len(q[Len(q)].calls) : q[Len(q)].calls[x].id = t.results[y].id
    BY <1>2, <1>4, ZenonT(60)
  <2>3. 1..Len(t.calls) = {}
    BY <1>4, NoneHere
  <2> QED BY <1>4, <2>1, <2>2, <2>3 DEF Follows
<1>7. SaidIn(t, n + 1)
  BY <1>1, <1>2, <1>4 DEF SaidIn
<1> QED BY <1>5, <1>6, <1>7

LEMMA ReplyIs ==
  ASSUME NEW q, NEW n \in Nat, NEW kinds \in {<<>>, <<"text">>}, NEW ids \in Seq(Ids),
         Distinct(ids),
         \A x \in 1..Len(ids) : ~Called(q, ids[x]) /\ ~Answered(q, ids[x]),
         NEW t, t = Turn("assistant", [i \in DOMAIN ids |-> [id |-> ids[i], name |-> <<n, i>>]],
                         <<>>, Parts(n + 1, kinds))
  PROVE  t \in LegalTurn /\ Follows(q, t) /\ SaidIn(t, n + 1)
<1> DEFINE ps == Parts(n + 1, kinds)
           calls == [i \in DOMAIN ids |-> [id |-> ids[i], name |-> <<n, i>>]]
<1>1. kinds \in Seq(Kinds) /\ \A i \in 1..Len(kinds) : kinds[i] = "text"
  <2>1. <<"text">> \in Seq(Kinds) /\ Len(<<"text">>) = 1 /\ <<"text">>[1] = "text"
    BY DEF Kinds
  <2>2. <<>> \in Seq(Kinds) /\ 1..Len(<<>>) = {}
    BY EmptySeq
  <2>3. CASE kinds = <<>>
    BY <2>2, <2>3
  <2>4. CASE kinds = <<"text">>
    BY <2>1, <2>4
  <2> QED BY <2>3, <2>4
<1>2. ps \in Seq(AnyPart) /\ ps \in Seq(Texts) /\ Spoken(ps, n + 1)
  BY <1>1, PartsAre
<1>3. t = Turn("assistant", calls, <<>>, ps)
  OBVIOUS
<1>4. DOMAIN ids = 1..Len(ids) /\ Len(ids) \in Nat /\ \A i \in 1..Len(ids) : ids[i] \in Ids
  BY LenProperties, ElementOfSeq
<1>5. DOMAIN calls = 1..Len(ids) /\ calls = [i \in 1..Len(ids) |-> calls[i]]
  BY <1>4
<1>6. ASSUME NEW i \in 1..Len(ids) PROVE calls[i] \in AnyCall /\ calls[i].id = ids[i]
  <2>1. calls[i] = [id |-> ids[i], name |-> <<n, i>>]
    BY <1>4
  <2>2. \A id \in Ids, name \in Nat \X Nat :
            [id |-> id, name |-> name] \in AnyCall /\ [id |-> id, name |-> name].id = id
    BY DEF AnyCall
  <2>3. <<n, i>> \in Nat \X Nat
    BY <1>4
  <2> HIDE DEF calls
  <2> QED BY <1>4, <2>1, <2>2, <2>3
<1> HIDE DEF ps, calls
<1>7. calls \in Seq(AnyCall) /\ Len(calls) = Len(ids)
  <2>1. calls \in Seq(AnyCall)
    BY <1>4, <1>5, <1>6, IsASeq
  <2> QED BY <1>4, <1>5, <2>1, LenProperties
<1>8. /\ t \in AnyTurn
      /\ t.role = "assistant" /\ t.calls = calls /\ t.results = <<>> /\ t.parts = ps
  <2>1. t = [role |-> "assistant", calls |-> calls, results |-> <<>>, parts |-> ps]
    BY <1>3 DEF Turn
  <2>2. t.role = "assistant" /\ t.calls = calls /\ t.results = <<>> /\ t.parts = ps
    BY <2>1
  <2>3. t \in AnyTurn
    BY <1>2, <1>7, <2>1, NoneHere, TurnType
  <2> QED BY <2>2, <2>3
<1>9. t \in LegalTurn
  BY <1>8 DEF LegalTurn
<1>10. Follows(q, t)
  <2>1. \A x, y \in 1..Len(t.calls) : t.calls[x].id = t.calls[y].id => x = y
    BY <1>6, <1>7, <1>8 DEF Distinct
  <2>2. \A x \in 1..Len(t.calls) : ~Called(q, t.calls[x].id) /\ ~Answered(q, t.calls[x].id)
    BY <1>6, <1>7, <1>8
  <2>3. 1..Len(t.results) = {}
    BY <1>8, NoneHere
  <2> QED BY <1>8, <2>1, <2>2, <2>3 DEF Follows
<1>11. SaidIn(t, n + 1)
  <2>1. 1..Len(t.results) = {}
    BY <1>8, NoneHere
  <2> QED BY <1>2, <1>8, <2>1 DEF SaidIn
<1> QED BY <1>9, <1>10, <1>11

-----------------------------------------------------------------------------
(* The invariant *)

\* What has been sent is the translation of the first turns, up to one of the user;
\* while a reply is awaited, of all of them.
SentInv ==
    /\ sent = None \/ \E k \in 1..Len(said) : /\ said[k].role = "user"
                                              /\ sent = Translation(SubSeq(said, 1, k))
    /\ awaiting => sent = Translation(said)

HistoryInv ==
    /\ api \in {"openai", "anthropic"} /\ awaiting \in BOOLEAN
    /\ History(said, turns)
    /\ SentInv

LEMMA TranslatedIs ==
  History(said, turns) => /\ Translated("openai") = Translation(said)
                          /\ Translated("anthropic") = Translation(said)
<1> SUFFICES ASSUME History(said, turns)
             PROVE  /\ Translated("openai") = Translation(said)
                    /\ Translated("anthropic") = Translation(said)
  OBVIOUS
<1>1. said \in Seq(LegalTurn) /\ UniqueCalls(said)
  BY DEF History, IdsInv
<1>2. Naming(PairedIn(said), NamesIn(said))
  BY <1>1, PairedAre
<1>3. BuildCCRequest(FlatMap(said, AsOpenAI)) = Translation(said)
  BY <1>1, <1>2, TranslatedOpenAI
<1>4. BuildCCRequest(OpenAIRequestFromAnthropic(
            [system |-> FlatMap(said, LAMBDA t : IF t.role = "system" THEN t.parts ELSE <<>>),
             messages |-> FlatMap(said, LAMBDA t :
                             IF t.role = "system" THEN <<>> ELSE <<AsAnthropic(t)>>)]))
        = Translation(said)
  BY <1>1, <1>2, TranslatedAnthropic
<1> QED BY <1>3, <1>4 DEF Translated

LEMMA HistoryInit == Init => HistoryInv
<1> SUFFICES ASSUME Init PROVE HistoryInv
  OBVIOUS
<1>1. said = <<>> /\ turns = 0 /\ awaiting = FALSE /\ sent = None /\ api \in {"openai", "anthropic"}
  BY DEF Init
<1>2. <<>> \in Seq(LegalTurn) /\ Len(<<>>) = 0 /\ 1..0 = {}
  BY EmptySeq
<1>3. IdsInv(<<>>)
  BY <1>2 DEF IdsInv, UniqueCalls, UniqueResults, Adjacent
<1>4. History(said, turns)
  BY <1>1, <1>2, <1>3 DEF History
<1> QED BY <1>1, <1>4 DEF HistoryInv, SentInv

\* The first turns stay when one is added.
LEMMA FirstTurnsStay ==
  ASSUME NEW E, NEW q \in Seq(E), NEW t \in E, NEW k \in 1..Len(q)
  PROVE  SubSeq(Append(q, t), 1, k) = SubSeq(q, 1, k)
<1> DEFINE s == Append(q, t)
           g == SubSeq(s, 1, k)
           h == SubSeq(q, 1, k)
<1>1. /\ s \in Seq(E) /\ Len(s) = Len(q) + 1 /\ Len(q) \in Nat
      /\ \A i \in 1..Len(q) : s[i] = q[i]
  BY AppendProperties, LenProperties
<1>2. h \in Seq(E) /\ Len(h) = k /\ \A i \in 1..k : h[i] = q[i]
  BY LenProperties, SubSeqProperties
<1> HIDE DEF s
<1>3. g \in Seq(E) /\ Len(g) = k /\ \A i \in 1..k : g[i] = s[i]
  <2>1. k \in 1..Len(s)
    BY <1>1
  <2> QED BY <1>1, <2>1, SubSeqProperties
<1> HIDE DEF g, h
<1>4. g = [i \in 1..k |-> g[i]] /\ h = [i \in 1..k |-> h[i]]
  BY <1>2, <1>3, LenProperties
<1>5. \A i \in 1..k : g[i] = h[i]
  BY <1>1, <1>2, <1>3
<1>6. g = h
  BY <1>4, <1>5
<1> QED BY <1>6 DEF g, h, s

\* All turns are the first turns.
LEMMA AllTurns ==
  ASSUME NEW E, NEW q \in Seq(E)
  PROVE  SubSeq(q, 1, Len(q)) = q
  BY LenProperties

LEMMA AddStep ==
  ASSUME HistoryInv, NEW t \in LegalTurn, Follows(said, t), SaidIn(t, turns + 1), Add(t)
  PROVE  HistoryInv'
<1>1. /\ said' = Append(said, t) /\ turns' = turns + 1 /\ awaiting' = FALSE
      /\ api' = api /\ sent' = sent
  BY DEF Add
<1>2. /\ api \in {"openai", "anthropic"} /\ History(said, turns) /\ said \in Seq(LegalTurn)
      /\ Len(said) \in Nat
      /\ sent = None \/ \E k \in 1..Len(said) : /\ said[k].role = "user"
                                                /\ sent = Translation(SubSeq(said, 1, k))
  BY LenProperties DEF HistoryInv, SentInv, History
<1>3. History(said', turns')
  BY <1>1, <1>2, HistoryGrows
<1>4. ASSUME NEW k \in 1..Len(said), said[k].role = "user", sent = Translation(SubSeq(said, 1, k))
      PROVE  /\ k \in 1..Len(said')
             /\ said'[k].role = "user" /\ sent' = Translation(SubSeq(said', 1, k))
  <2>1. SubSeq(said', 1, k) = SubSeq(said, 1, k)
    BY <1>1, <1>2, FirstTurnsStay
  <2>2. said'[k] = said[k] /\ Len(said') = Len(said) + 1
    BY <1>1, <1>2, AppendProperties
  <2>3. sent' = Translation(SubSeq(said', 1, k))
    BY <1>1, <1>4, <2>1
  <2>4. k \in 1..Len(said') /\ said'[k].role = "user"
    BY <1>2, <1>4, <2>2
  <2> QED BY <2>3, <2>4
<1>5. sent' = None \/ \E k \in 1..Len(said') : /\ said'[k].role = "user"
                                               /\ sent' = Translation(SubSeq(said', 1, k))
  BY <1>1, <1>2, <1>4
<1> QED BY <1>1, <1>2, <1>3, <1>5 DEF HistoryInv, SentInv

\* The ids of the calls that may be answered: each once, all of the last turn.
OutstandingIds == [i \in DOMAIN Outstanding |-> Outstanding[i].id]

LEMMA OutstandingAre ==
  ASSUME History(said, turns)
  PROVE  /\ OutstandingIds \in Seq(Ids) /\ Distinct(OutstandingIds)
         /\ \A y \in 1..Len(OutstandingIds) :
              /\ Len(said) # 0
              /\ \E x \in 1..Len(said[Len(said)].calls) :
                   said[Len(said)].calls[x].id = OutstandingIds[y]
<1>1. said \in Seq(LegalTurn) /\ Len(said) \in Nat /\ UniqueCalls(said)
  BY LenProperties DEF History, IdsInv
<1>2. CASE Outstanding = <<>>
  <2>1. OutstandingIds = <<>>
    BY <1>2 DEF OutstandingIds
  <2> QED BY <2>1, EmptySeq DEF Distinct
<1>3. CASE Outstanding # <<>>
  <2> DEFINE c == Outstanding
             s == OutstandingIds
             n == Len(said)
  <2>1. said # <<>> /\ c = said[n].calls
    BY <1>3 DEF Outstanding, Last
  <2>2. n # 0 /\ n \in 1..n
    BY <1>1, <2>1, EmptySeq
  <2>3. said[n] \in LegalTurn
    BY <1>1, <2>2, ElementOfSeq
  <2>4. c \in Seq(AnyCall)
    BY <2>1, <2>3, LegalParts
  <2>5. s = [i \in DOMAIN c |-> c[i].id]
    BY DEF OutstandingIds
  <2> HIDE DEF c, s
  <2>6. DOMAIN c = 1..Len(c) /\ Len(c) \in Nat /\ \A i \in 1..Len(c) : c[i].id \in Ids
    <3>1. \A i \in 1..Len(c) : c[i] \in AnyCall
      BY <2>4, ElementOfSeq
    <3> QED BY <2>4, <3>1, LenProperties DEF AnyCall
  <2>7. s = [i \in 1..Len(c) |-> s[i]] /\ \A i \in 1..Len(c) : s[i] = c[i].id
    BY <2>5, <2>6
  <2>8. s \in Seq(Ids) /\ Len(s) = Len(c)
    <3>1. s \in Seq(Ids)
      BY <2>6, <2>7, IsASeq
    <3>2. DOMAIN s = 1..Len(c)
      BY <2>5, <2>6
    <3> QED BY <2>6, <3>1, <3>2, LenProperties
  <2>9. Distinct(s)
    <3> SUFFICES ASSUME NEW x \in 1..Len(s), NEW y \in 1..Len(s), s[x] = s[y] PROVE x = y
      BY DEF Distinct
    <3>1. /\ x \in 1..Len(said[n].calls) /\ y \in 1..Len(said[n].calls)
          /\ said[n].calls[x].id = said[n].calls[y].id
      BY <2>1, <2>7, <2>8
    <3> QED BY <1>1, <2>2, <3>1 DEF UniqueCalls
  <2>10. \A y \in 1..Len(s) : \E x \in 1..Len(said[n].calls) : said[n].calls[x].id = s[y]
    BY <2>1, <2>7, <2>8
  <2> QED BY <2>2, <2>8, <2>9, <2>10 DEF s
<1> QED BY <1>2, <1>3

LEMMA UsedAre ==
  ASSUME History(said, turns), NEW id, id \notin Used
  PROVE  ~Called(said, id) /\ ~Answered(said, id)
<1>1. said \in Seq(LegalTurn) /\ DOMAIN said = 1..Len(said)
  BY LenProperties DEF History
<1>2. \A i \in 1..Len(said) : /\ DOMAIN said[i].calls = 1..Len(said[i].calls)
                              /\ DOMAIN said[i].results = 1..Len(said[i].results)
  <2> TAKE i \in 1..Len(said)
  <2>1. said[i] \in LegalTurn
    BY <1>1, ElementOfSeq
  <2>2. said[i].calls \in Seq(AnyCall) /\ said[i].results \in Seq(AnyResult)
    BY <2>1, LegalParts
  <2> QED BY <2>2, LenProperties
<1>3. ~Called(said, id)
  BY <1>1, <1>2 DEF Called, Used, IdsOf
<1>4. ~Answered(said, id)
  BY <1>1, <1>2 DEF Answered, Used
<1> QED BY <1>3, <1>4

LEMMA HistoryNext == HistoryInv /\ [Next]_vars => HistoryInv'
<1> SUFFICES ASSUME HistoryInv, [Next]_vars PROVE HistoryInv'
  OBVIOUS
<1>1. /\ api \in {"openai", "anthropic"} /\ awaiting \in BOOLEAN /\ History(said, turns) /\ SentInv
      /\ said \in Seq(LegalTurn) /\ Len(said) \in Nat /\ turns \in Nat
  BY LenProperties DEF HistoryInv, History
<1>2. CASE SystemTurn
  <2> DEFINE t == Turn("system", <<>>, <<>>, Parts(turns + 1, <<"text">>))
  <2>1. Add(t)
    BY <1>2 DEF SystemTurn
  <2>2. t \in LegalTurn /\ Follows(said, t) /\ SaidIn(t, turns + 1)
    BY <1>1, SystemTurnIs
  <2> HIDE DEF t
  <2> QED BY <2>1, <2>2, AddStep
<1>3. ASSUME NEW kinds \in UserParts, UserTurn(kinds) PROVE HistoryInv'
  <2>1. PICK ran \in SUBSET IdsOf(Outstanding), of \in [Ids -> ResultKinds] :
          Add(Turn("user", <<>>, Results(turns + 1, Select(OutstandingIds, ran), of),
                   Parts(turns + 1, kinds)))
    BY <1>3 DEF UserTurn, Filter, FlatMap, Select, OutstandingIds
  <2> DEFINE ids == Select(OutstandingIds, ran)
             t == Turn("user", <<>>, Results(turns + 1, ids, of), Parts(turns + 1, kinds))
  <2>2. /\ OutstandingIds \in Seq(Ids) /\ Distinct(OutstandingIds)
        /\ \A y \in 1..Len(OutstandingIds) :
              /\ Len(said) # 0
              /\ \E x \in 1..Len(said[Len(said)].calls) :
                   said[Len(said)].calls[x].id = OutstandingIds[y]
    BY <1>1, OutstandingAre
  <2>3. ids \in Seq(Ids) /\ Distinct(ids)
    BY <2>2, SelectType, SelectDistinct
  <2>4. ToSet(ids) \subseteq ToSet(OutstandingIds)
    BY <2>2, SelectElements
  <2>5. Add(t)
    BY <2>1
  <2> HIDE DEF ids
  <2>6. ASSUME NEW y \in 1..Len(ids)
        PROVE  /\ Len(said) # 0
               /\ \E x \in 1..Len(said[Len(said)].calls) : said[Len(said)].calls[x].id = ids[y]
    <3>1. ids[y] \in ToSet(ids)
      BY <2>3, LenProperties DEF ToSet
    <3>2. DOMAIN OutstandingIds = 1..Len(OutstandingIds)
      BY <2>2, LenProperties
    <3>3. PICK z \in 1..Len(OutstandingIds) : OutstandingIds[z] = ids[y]
      BY <2>4, <3>1, <3>2 DEF ToSet
    <3> QED BY <2>2, <3>3
  <2>7. /\ kinds \in Seq(Kinds) /\ DOMAIN kinds = 1..Len(kinds)
        /\ kinds # <<>> => \E i \in 1..Len(kinds) : kinds[i] # "empty"
    <3>1. kinds \in Seq(Kinds) /\ (kinds # <<>> => \E i \in DOMAIN kinds : kinds[i] # "empty")
      BY PartsAssumption
    <3>2. DOMAIN kinds = 1..Len(kinds)
      BY <3>1, LenProperties
    <3> QED BY <3>1, <3>2
  <2>8. t \in LegalTurn /\ Follows(said, t) /\ SaidIn(t, turns + 1)
    BY <1>1, <2>3, <2>6, <2>7, UserTurnIs
  <2> HIDE DEF t
  <2> QED BY <2>5, <2>8, AddStep
<1>4. ASSUME NEW kinds \in {<<>>, <<"text">>}, NEW S \in SUBSET (Ids \ Used), Reply(kinds, SetToSeq(S))
      PROVE  HistoryInv'
  <2> DEFINE ids == SetToSeq(S)
             t == Turn("assistant", [i \in DOMAIN ids |-> [id |-> ids[i], name |-> <<turns, i>>]],
                       <<>>, Parts(turns + 1, kinds))
  <2>1. Add(t)
    BY <1>4 DEF Reply
  <2>2. IsFiniteSet(S) /\ S \subseteq Ids /\ \A id \in S : id \notin Used
    BY IdsAssumption, FS_Subset
  <2>3. ids \in Seq(S) /\ Distinct(ids)
    BY <2>2, ListedDistinct
  <2> HIDE DEF ids
  <2>4. ids \in Seq(Ids)
    BY <2>2, <2>3, SeqMonotonic
  <2>5. \A x \in 1..Len(ids) : ~Called(said, ids[x]) /\ ~Answered(said, ids[x])
    <3> TAKE x \in 1..Len(ids)
    <3>1. ids[x] \in S
      BY <2>3, ElementOfSeq
    <3> QED BY <1>1, <2>2, <3>1, UsedAre
  <2>6. t \in LegalTurn /\ Follows(said, t) /\ SaidIn(t, turns + 1)
    BY <1>1, <2>3, <2>4, <2>5, ReplyIs
  <2> HIDE DEF t
  <2> QED BY <2>1, <2>6, AddStep
<1>5. CASE Send
  <2>1. /\ said # <<>> /\ Last(said).role = "user" /\ sent' = Translated(api) /\ awaiting' = TRUE
        /\ api' = api /\ said' = said /\ turns' = turns
    BY <1>5 DEF Send
  <2>2. sent' = Translation(said)
    BY <1>1, <2>1, TranslatedIs
  <2>3. Len(said) \in 1..Len(said) /\ said[Len(said)].role = "user"
    BY <1>1, <2>1, EmptySeq DEF Last
  <2>4. SubSeq(said, 1, Len(said)) = said
    BY <1>1, AllTurns
  <2>5. SentInv'
    BY <2>1, <2>2, <2>3, <2>4 DEF SentInv
  <2> QED BY <1>1, <2>1, <2>5 DEF HistoryInv
<1>6. CASE Forget
  <2>1. /\ Len(said) > 1 /\ said' = Tail(said) /\ sent' = None /\ awaiting' = FALSE
        /\ api' = api /\ turns' = turns
    BY <1>6 DEF Forget
  <2>2. said # <<>>
    BY <1>1, <2>1, EmptySeq
  <2>3. History(said', turns')
    BY <1>1, <2>1, <2>2, HistoryForgets
  <2> QED BY <1>1, <2>1, <2>3 DEF HistoryInv, SentInv
<1>7. CASE UNCHANGED vars
  BY <1>7 DEF vars, HistoryInv, SentInv
<1> QED BY <1>2, <1>3, <1>4, <1>5, <1>6, <1>7 DEF Next

\* What the client remembers is always a history: its turns are ones a client may say,
\* no call id is used twice, a result follows in the turn after its call, and what was
\* last sent is the translation of its first turns up to one of the user.
THEOREM HistoryInvariant == Spec => []HistoryInv
<1>1. Init => HistoryInv
  BY HistoryInit
<1>2. HistoryInv /\ [Next]_vars => HistoryInv'
  BY HistoryNext
<1> QED BY <1>1, <1>2, PTL DEF Spec

\* The request is the same whichever API the client uses: the detour of Messages through
\* Chat Completions (OpenAIRequestFromAnthropic, then BuildCCRequest) changes nothing.
THEOREM BothApisAgree == Spec => []ApisAgree
<1>1. HistoryInv => ApisAgree
  BY TranslatedIs DEF HistoryInv, ApisAgree
<1> QED BY <1>1, HistoryInvariant, PTL

-----------------------------------------------------------------------------
(* What is sent keeps its beginning *)

LEMMA MessagesType ==
  ASSUME NEW q \in Seq(LegalTurn), UniqueCalls(q)
  PROVE  Translation(q).messages \in Seq(CCMessage)
<1>1. Maps(TurnCC(PairedIn(q), NamesIn(q)), LegalTurn, CCMessage)
  BY PairedAre, TurnCCMaps
<1>2. Mapped(q, TurnCC(PairedIn(q), NamesIn(q))) \in Seq(CCMessage)
  BY <1>1, MappedType
<1> QED BY <1>2 DEF Translation

LEMMA SentType == HistoryInv => sent.messages \in Seq(CCMessage)
<1> SUFFICES ASSUME HistoryInv PROVE sent.messages \in Seq(CCMessage)
  OBVIOUS
<1>1. /\ said \in Seq(LegalTurn) /\ IdsInv(said)
      /\ sent = None \/ \E k \in 1..Len(said) : /\ said[k].role = "user"
                                                /\ sent = Translation(SubSeq(said, 1, k))
  BY DEF HistoryInv, History, SentInv
<1>2. CASE sent = None
  BY <1>2, EmptySeq DEF None
<1>3. ASSUME NEW k \in 1..Len(said), sent = Translation(SubSeq(said, 1, k))
      PROVE  sent.messages \in Seq(CCMessage)
  <2> DEFINE h == SubSeq(said, 1, k)
  <2>1. h \in Seq(LegalTurn) /\ UniqueCalls(h)
    BY <1>1, FirstTurns DEF IdsInv
  <2>2. sent = Translation(h)
    BY <1>3
  <2> HIDE DEF h
  <2> QED BY <2>1, <2>2, MessagesType
<1> QED BY <1>1, <1>2, <1>3

LEMMA PrefixStep ==
  HistoryInv /\ [Next]_vars => (sent' # None => IsPrefix(sent.messages, sent'.messages))
<1> SUFFICES ASSUME HistoryInv, [Next]_vars
             PROVE  sent' # None => IsPrefix(sent.messages, sent'.messages)
  OBVIOUS
<1>1. sent.messages \in Seq(CCMessage)
  BY SentType
<1>2. CASE sent' = sent
  BY <1>1, <1>2, PrefixOfConcat
<1>3. CASE Send
  <2>1. History(said, turns) /\ api \in {"openai", "anthropic"} /\ sent' = Translated(api)
    BY <1>3 DEF HistoryInv, Send
  <2>2. sent' = Translation(said)
    BY <2>1, TranslatedIs
  <2>3. said \in Seq(LegalTurn) /\ IdsInv(said)
    BY <2>1 DEF History
  <2>4. CASE sent = None
    <3>1. Translation(said).messages \in Seq(CCMessage)
      BY <2>3, MessagesType DEF IdsInv
    <3> DEFINE ms == Translation(said).messages
    <3> HIDE DEF ms
    <3>2. ms \in Seq(CCMessage) /\ <<>> \in Seq(CCMessage) /\ <<>> \o ms = ms
      BY <3>1, EmptySeq, ConcatEmptySeq DEF ms
    <3>3. IsPrefix(<<>>, <<>> \o ms)
      BY <3>2, PrefixOfConcat
    <3>4. sent.messages = <<>>
      BY <2>4 DEF None
    <3>5. IsPrefix(sent.messages, ms)
      BY <3>2, <3>3, <3>4
    <3> QED BY <2>2, <3>5 DEF ms
  <2>5. ASSUME NEW k \in 1..Len(said), said[k].role = "user", sent = Translation(SubSeq(said, 1, k))
        PROVE  IsPrefix(sent.messages, sent'.messages)
    BY <2>2, <2>3, <2>5, TranslationPrefix
  <2> QED BY <2>4, <2>5 DEF HistoryInv, SentInv
<1>4. CASE Forget
  BY <1>4 DEF Forget
<1>5. CASE UNCHANGED vars
  BY <1>2, <1>5 DEF vars
<1>6. CASE SystemTurn
  BY <1>2, <1>6 DEF SystemTurn, Add
<1>7. ASSUME NEW kinds, UserTurn(kinds) PROVE sent' = sent
  BY <1>7 DEF UserTurn, Add
<1>8. ASSUME NEW kinds, NEW ids, Reply(kinds, ids) PROVE sent' = sent
  BY <1>8 DEF Reply, Add
<1> QED BY <1>2, <1>3, <1>4, <1>5, <1>6, <1>7, <1>8 DEF Next

\* As long as the client only adds to its history, every request begins with the messages
\* of the one before: a call that an interruption leaves without a result, or a result
\* whose images follow as a user turn, never changes what was sent.
THEOREM PrefixStable == Spec => PrefixIsStable
<1>1. HistoryInv /\ [Next]_vars => [sent' # None => IsPrefix(sent.messages, sent'.messages)]_vars
  BY PrefixStep
<1> QED BY <1>1, HistoryInvariant, PTL DEF Spec, PrefixIsStable

-----------------------------------------------------------------------------
(* The parts of a request *)

ContentIn == [m \in CCMessage |-> m.content]

CallPart(c) == [type |-> "tool-call", id |-> c.id, name |-> c.name]
ResultPart(r, n) == [type |-> "tool-result", id |-> r.id, name |-> n[r.id], text |-> TextOf(r.parts)]

\* What is sent of a result, of what a turn says itself, and of a turn.
ResultPieces(p, n) == [r \in AnyResult |->
    IF r.id \in p THEN <<ResultPart(r, n)>> \o ImagesIn(r.parts) ELSE <<>>]
OwnParts(t, p) ==
    IF t.role = "system" THEN <<>>
    ELSE IF t.role = "user" THEN IF t.parts = <<>> THEN <<>> ELSE UserCC(t.parts)
    ELSE AssistantParts(TextOf(t.parts), t.calls, p)
TurnPieces(p, n) == [t \in LegalTurn |-> Mapped(t.results, ResultPieces(p, n)) \o OwnParts(t, p)]

LEMMA ContentInMaps ==
  /\ Maps(ContentIn, CCMessage, CCPart)
  /\ \A ms \in Seq(CCMessage) : CCParts(ms) = Mapped(ms, ContentIn)
<1>1. Maps(ContentIn, CCMessage, CCPart)
  BY DEF Maps, ContentIn, CCMessage
<1>2. ASSUME NEW ms \in Seq(CCMessage) PROVE CCParts(ms) = Mapped(ms, ContentIn)
  <2>1. \A i \in DOMAIN ms : ms[i] \in CCMessage
    BY ElementOfSeq, LenProperties
  <2>2. [i \in DOMAIN ms |-> ms[i].content] = ImagesOf(ms, ContentIn)
    BY <2>1 DEF ImagesOf, ContentIn
  <2> QED BY <2>2 DEF CCParts, FlatMap, Mapped
<1> QED BY <1>1, <1>2

\* One message holds its content.
LEMMA OneMessageHolds ==
  ASSUME NEW role \in {"user", "assistant", "tool"}, NEW ps \in Seq(CCPart),
         NEW m, m = [role |-> role, content |-> ps]
  PROVE  <<m>> \in Seq(CCMessage) /\ Mapped(<<m>>, ContentIn) = ps
<1>1. m \in CCMessage /\ m.content = ps
  BY DEF CCMessage
<1>2. ContentIn[m] = ps
  BY <1>1 DEF ContentIn
<1>3. \A e \in CCMessage : Mapped(<<e>>, ContentIn) = ContentIn[e]
  BY ContentInMaps, MappedOne
<1>4. \A e \in CCMessage : <<e>> \in Seq(CCMessage)
  OBVIOUS
<1> QED BY <1>1, <1>2, <1>3, <1>4

LEMMA ResultPartType ==
  ASSUME NEW p, NEW n, Naming(p, n), NEW r \in AnyResult, r.id \in p
  PROVE  ResultPart(r, n) \in ResultParts /\ ResultPart(r, n) \in CCPart
<1>1. r.id \in Ids /\ n[r.id] \in AnyName /\ TextOf(r.parts) \in Seq(Spots)
  <2>1. r.id \in Ids /\ r.parts \in Seq(AnyPart)
    BY DEF AnyResult
  <2> QED BY <2>1, PartsType DEF Naming
<1>2. ResultPart(r, n) \in ResultParts
  BY <1>1 DEF ResultPart, ResultParts
<1> QED BY <1>2 DEF CCPart

LEMMA ResultPiecesSent ==
  ASSUME NEW p, NEW n, Naming(p, n), NEW r \in AnyResult
  PROVE  /\ ResultPieces(p, n)[r] \in Seq(CCPart)
         /\ Mapped(ResultCC(p, n)[r], ContentIn) = ResultPieces(p, n)[r]
<1>1. ResultCC(p, n)[r] = ResultMessages(r.id, TextOf(r.parts), ImagesIn(r.parts), p, n)
  BY DEF ResultCC
<1>2. CASE r.id \notin p
  BY <1>1, <1>2, MappedEmpty, EmptySeq DEF ResultMessages, ResultPieces
<1>3. CASE r.id \in p
  <2> DEFINE part == ResultPart(r, n)
             images == ImagesIn(r.parts)
             a == [role |-> "tool", content |-> <<part>>]
             b == [role |-> "user", content |-> images]
             rest == IF images # <<>> THEN <<b>> ELSE <<>>
  <2>1. part \in CCPart /\ images \in Seq(CCPart)
    <3>1. r.parts \in Seq(AnyPart)
      BY DEF AnyResult
    <3>2. images \in Seq(AnyPart)
      BY <3>1, PartsType
    <3> QED BY <1>3, <3>2, ResultPartType, AnyPartsAreCC
  <2>2. ResultCC(p, n)[r] = <<a>> \o rest /\ ResultPieces(p, n)[r] = <<part>> \o images
    BY <1>1, <1>3 DEF ResultMessages, ResultPieces, ResultPart
  <2> HIDE DEF part, images
  <2>3. <<part>> \in Seq(CCPart)
    BY <2>1
  <2>4. <<a>> \in Seq(CCMessage) /\ Mapped(<<a>>, ContentIn) = <<part>>
    BY <2>3, OneMessageHolds
  <2>5. <<b>> \in Seq(CCMessage) /\ Mapped(<<b>>, ContentIn) = images
    BY <2>1, OneMessageHolds
  <2>6. rest \in Seq(CCMessage) /\ Mapped(rest, ContentIn) = images
    BY <2>5, MappedEmpty, EmptySeq
  <2> DEFINE first == <<a>>
             one == <<part>>
  <2>7. first \in Seq(CCMessage) /\ one \in Seq(CCPart) /\ Mapped(first, ContentIn) = one
    BY <2>3, <2>4
  <2>8. ResultCC(p, n)[r] = first \o rest /\ ResultPieces(p, n)[r] = one \o images
    BY <2>2
  <2> HIDE DEF rest, first, one
  <2>9. Mapped(first \o rest, ContentIn) = Mapped(first, ContentIn) \o Mapped(rest, ContentIn)
    <3>1. \A s, u \in Seq(CCMessage) :
            Mapped(s \o u, ContentIn) = Mapped(s, ContentIn) \o Mapped(u, ContentIn)
      BY ContentInMaps, MappedConcat
    <3> QED BY <2>6, <2>7, <3>1
  <2>10. one \o images \in Seq(CCPart)
    BY <2>1, <2>7, ConcatProperties
  <2> QED BY <2>6, <2>7, <2>8, <2>9, <2>10
<1> QED BY <1>2, <1>3

LEMMA OwnPartsSent ==
  ASSUME NEW p, NEW n, Naming(p, n), NEW t \in LegalTurn
  PROVE  /\ OwnParts(t, p) \in Seq(CCPart)
         /\ Mapped(OwnCC(t, p), ContentIn) = OwnParts(t, p)
<1>1. /\ t.role \in {"system", "user", "assistant"}
      /\ t.calls \in Seq(AnyCall) /\ t.parts \in Seq(AnyPart) /\ TextOf(t.parts) \in Seq(Spots)
  BY LegalParts, PartsType
<1>2. \A ps \in Seq(CCPart) :
        /\ Mapped(<<[role |-> "user", content |-> ps]>>, ContentIn) = ps
        /\ Mapped(<<[role |-> "assistant", content |-> ps]>>, ContentIn) = ps
  BY OneMessageHolds
<1>3. UserCC(t.parts) \in Seq(CCPart)
  <2>1. Select(t.parts, Full) \in Seq(AnyPart) /\ <<Text(TextOf(t.parts))>> \in Seq(AnyPart)
    BY <1>1, SelectType, OneText
  <2> QED BY <2>1, AnyPartsAreCC DEF UserCC
<1> DEFINE as == AssistantParts(TextOf(t.parts), t.calls, p)
<1>4. as \in Seq(CCPart)
  BY <1>1, AssistantType
<1>5. AssistantMessages(TextOf(t.parts), t.calls, p)
        = IF as # <<>> THEN <<[role |-> "assistant", content |-> as]>> ELSE <<>>
  BY DEF AssistantMessages
<1>6. Mapped(<<>>, ContentIn) = <<>> /\ <<>> \in Seq(CCPart)
  BY MappedEmpty, EmptySeq
<1>7. CASE t.role = "system"
  BY <1>6, <1>7 DEF OwnCC, OwnParts
<1>8. CASE t.role = "user"
  BY <1>2, <1>3, <1>6, <1>8 DEF OwnCC, OwnParts
<1>9. CASE t.role = "assistant"
  <2>1. OwnParts(t, p) = as /\ OwnCC(t, p) = AssistantMessages(TextOf(t.parts), t.calls, p)
    BY <1>9 DEF OwnCC, OwnParts
  <2> HIDE DEF as
  <2> QED BY <1>2, <1>4, <1>5, <1>6, <2>1
<1> QED BY <1>1, <1>7, <1>8, <1>9

LEMMA TurnPiecesSent ==
  ASSUME NEW p, NEW n, Naming(p, n)
  PROVE  /\ Maps(ResultPieces(p, n), AnyResult, CCPart)
         /\ Maps(TurnPieces(p, n), LegalTurn, CCPart)
         /\ \A t \in LegalTurn : Mapped(TurnCC(p, n)[t], ContentIn) = TurnPieces(p, n)[t]
         /\ \A q \in Seq(LegalTurn) :
              CCParts(Mapped(q, TurnCC(p, n))) = Mapped(q, TurnPieces(p, n))
<1>1. Maps(ResultPieces(p, n), AnyResult, CCPart)
  BY ResultPiecesSent DEF Maps
<1>2. ASSUME NEW t \in LegalTurn
      PROVE  /\ Mapped(TurnCC(p, n)[t], ContentIn) = TurnPieces(p, n)[t]
             /\ TurnPieces(p, n)[t] \in Seq(CCPart)
  <2> DEFINE R == ResultCC(p, n)
             a == Mapped(t.results, R)
             b == OwnCC(t, p)
             H == [r \in AnyResult |-> Mapped(R[r], ContentIn)]
  <2>1. t.results \in Seq(AnyResult)
    BY LegalParts
  <2>2. Maps(R, AnyResult, CCMessage) /\ b \in Seq(CCMessage)
    BY TurnCCMaps
  <2>3. a \in Seq(CCMessage)
    BY <2>1, <2>2, MappedType
  <2>4. Mapped(a, ContentIn) = Mapped(t.results, ResultPieces(p, n))
    <3>1. Mapped(Mapped(t.results, R), ContentIn) = Mapped(t.results, H)
      BY <2>1, <2>2, ContentInMaps, MappedMapped
    <3>2. \A r \in AnyResult : H[r] = ResultPieces(p, n)[r]
      BY ResultPiecesSent
    <3> HIDE DEF H
    <3>3. \A i \in DOMAIN t.results : H[t.results[i]] = ResultPieces(p, n)[t.results[i]]
      BY <2>1, <3>2, ElementOfSeq, LenProperties
    <3>4. Mapped(t.results, H) = Mapped(t.results, ResultPieces(p, n))
      BY <3>3, MappedSame
    <3> QED BY <3>1, <3>4
  <2>5. TurnCC(p, n)[t] = a \o b
    BY DEF TurnCC
  <2> HIDE DEF a, b, R, H
  <2>6. Mapped(a \o b, ContentIn) = Mapped(a, ContentIn) \o Mapped(b, ContentIn)
    BY <2>2, <2>3, ContentInMaps, MappedConcat
  <2>7. Mapped(b, ContentIn) = OwnParts(t, p) /\ OwnParts(t, p) \in Seq(CCPart)
    BY OwnPartsSent DEF b
  <2>8. TurnPieces(p, n)[t] = Mapped(t.results, ResultPieces(p, n)) \o OwnParts(t, p)
    BY DEF TurnPieces
  <2>9. Mapped(t.results, ResultPieces(p, n)) \in Seq(CCPart)
    BY <1>1, <2>1, MappedType
  <2> QED BY <2>4, <2>5, <2>6, <2>7, <2>8, <2>9, ConcatProperties
<1>3. Maps(TurnPieces(p, n), LegalTurn, CCPart)
  BY <1>2 DEF Maps
<1>4. ASSUME NEW q \in Seq(LegalTurn)
      PROVE  CCParts(Mapped(q, TurnCC(p, n))) = Mapped(q, TurnPieces(p, n))
  <2> DEFINE F == TurnCC(p, n)
             H == [t \in LegalTurn |-> Mapped(F[t], ContentIn)]
  <2>1. Maps(F, LegalTurn, CCMessage)
    BY TurnCCMaps
  <2>2. Mapped(q, F) \in Seq(CCMessage)
    BY <2>1, MappedType
  <2>3. CCParts(Mapped(q, F)) = Mapped(Mapped(q, F), ContentIn)
    BY <2>2, ContentInMaps
  <2>4. Mapped(Mapped(q, F), ContentIn) = Mapped(q, H)
    BY <2>1, ContentInMaps, MappedMapped
  <2>5. \A t \in LegalTurn : H[t] = TurnPieces(p, n)[t]
    BY <1>2
  <2> HIDE DEF F, H
  <2>6. \A i \in DOMAIN q : H[q[i]] = TurnPieces(p, n)[q[i]]
    BY <2>5, ElementOfSeq, LenProperties
  <2>7. Mapped(q, H) = Mapped(q, TurnPieces(p, n))
    BY <2>6, MappedSame
  <2> QED BY <2>3, <2>4, <2>7 DEF F
<1> QED BY <1>1, <1>2, <1>3, <1>4

\* The calls and the results among what is sent of a turn.
LEMMA OwnCalls ==
  ASSUME NEW p, NEW t \in LegalTurn
  PROVE  /\ OwnParts(t, p) \in Seq(CCPart)
         /\ ToSet(OwnParts(t, p)) \cap ResultParts = {}
         /\ ToSet(OwnParts(t, p)) \cap CallParts
              = {CallPart(t.calls[j]) : j \in {k \in 1..Len(t.calls) : t.calls[k].id \in p}}
<1>1. /\ t.role \in {"system", "user", "assistant"}
      /\ t.calls \in Seq(AnyCall) /\ t.parts \in Seq(AnyPart) /\ TextOf(t.parts) \in Seq(Spots)
  BY LegalParts, PartsType
<1>2. AnyPart \cap ResultParts = {} /\ AnyPart \cap CallParts = {} /\ CallParts \cap ResultParts = {}
  BY PartType DEF ResultParts, CallParts
<1>3. CASE t.role # "assistant"
  <2>1. OwnParts(t, p) \in Seq(AnyPart)
    <3>1. Select(t.parts, Full) \in Seq(AnyPart) /\ <<Text(TextOf(t.parts))>> \in Seq(AnyPart)
      BY <1>1, SelectType, OneText
    <3>2. UserCC(t.parts) \in Seq(AnyPart)
      BY <3>1 DEF UserCC
    <3> QED BY <1>1, <1>3, <3>2, EmptySeq DEF OwnParts
  <2>2. ToSet(OwnParts(t, p)) \subseteq AnyPart
    BY <2>1, ElementOfSeq, LenProperties DEF ToSet
  <2>3. 1..Len(t.calls) = {}
    BY <1>1, <1>3, NoneHere DEF LegalTurn
  <2>4. OwnParts(t, p) \in Seq(CCPart)
    BY <2>1, AnyPartsAreCC
  <2> QED BY <1>2, <2>2, <2>3, <2>4
<1>4. CASE t.role = "assistant"
  <2> DEFINE text == TextOf(t.parts)
             a == IF text # <<>> THEN <<Text(text)>> ELSE <<>>
             b == Mapped(t.calls, CallCC(p))
             called == {CallPart(t.calls[j]) : j \in {k \in 1..Len(t.calls) : t.calls[k].id \in p}}
  <2>1. OwnParts(t, p) = a \o b
    BY <1>4 DEF OwnParts, AssistantParts
  <2>2. a \in Seq(AnyPart)
    BY <1>1, OneText, EmptySeq
  <2>3. a \in Seq(CCPart) /\ b \in Seq(CCPart) /\ b \in Seq(CallParts)
    BY <1>1, <2>2, AnyPartsAreCC, CallCCMaps, MappedType
  <2>4. ToSet(a) \subseteq AnyPart /\ ToSet(b) \subseteq CallParts
    <3> HIDE DEF a, b
    <3>1. \A E : \A s \in Seq(E) : ToSet(s) \subseteq E
      BY ElementOfSeq, LenProperties DEF ToSet
    <3> QED BY <2>2, <2>3, <3>1
  <2>5. ToSet(b) = called
    <3>1. ToSet(b) = UNION {ToSet(CallCC(p)[t.calls[j]]) : j \in 1..Len(t.calls)}
      BY <1>1, CallCCMaps, MappedElements
    <3>2. \A c \in AnyCall : ToSet(CallCC(p)[c]) = IF c.id \in p THEN {CallPart(c)} ELSE {}
      BY DEF CallCC, CallPart, ToSet
    <3>3. \A j \in 1..Len(t.calls) : t.calls[j] \in AnyCall
      BY <1>1, ElementOfSeq
    <3>4. \A j \in 1..Len(t.calls) :
             ToSet(CallCC(p)[t.calls[j]]) = IF t.calls[j].id \in p THEN {CallPart(t.calls[j])} ELSE {}
      BY <3>2, <3>3
    <3> HIDE DEF b
    <3>5. ASSUME NEW x \in ToSet(b) PROVE x \in called
      <4>1. PICK j \in 1..Len(t.calls) : x \in ToSet(CallCC(p)[t.calls[j]])
        BY <3>1
      <4>2. x \in (IF t.calls[j].id \in p THEN {CallPart(t.calls[j])} ELSE {})
        BY <3>4, <4>1
      <4>3. t.calls[j].id \in p /\ x = CallPart(t.calls[j])
        BY <4>2
      <4> QED BY <4>3
    <3>6. ASSUME NEW x \in called PROVE x \in ToSet(b)
      <4>1. PICK j \in 1..Len(t.calls) : t.calls[j].id \in p /\ x = CallPart(t.calls[j])
        OBVIOUS
      <4>2. x \in ToSet(CallCC(p)[t.calls[j]])
        BY <3>4, <4>1
      <4> QED BY <3>1, <4>2
    <3> QED BY <3>5, <3>6
  <2> HIDE DEF a, b, called
  <2>6. ToSet(a \o b) = ToSet(a) \cup ToSet(b) /\ a \o b \in Seq(CCPart)
    BY <2>3, ConcatElements, ConcatProperties
  <2>7. ToSet(a \o b) \cap ResultParts = {} /\ ToSet(a \o b) \cap CallParts = called
    BY <1>2, <2>4, <2>5, <2>6
  <2> QED BY <2>1, <2>6, <2>7 DEF called
<1> QED BY <1>3, <1>4

LEMMA ResultsSent ==
  ASSUME NEW p, NEW n, Naming(p, n), NEW rs \in Seq(AnyResult), NEW ps, ps = Mapped(rs, ResultPieces(p, n))
  PROVE  /\ ps \in Seq(CCPart)
         /\ ToSet(ps) \cap CallParts = {}
         /\ ToSet(ps) \cap ResultParts
              = {ResultPart(rs[j], n) : j \in {k \in 1..Len(rs) : rs[k].id \in p}}
<1> DEFINE R == ResultPieces(p, n)
           returned == {ResultPart(rs[j], n) : j \in {k \in 1..Len(rs) : rs[k].id \in p}}
<1>1. Maps(R, AnyResult, CCPart)
  BY TurnPiecesSent
<1>2. AnyPart \cap ResultParts = {} /\ AnyPart \cap CallParts = {} /\ CallParts \cap ResultParts = {}
  BY PartType DEF ResultParts, CallParts
<1>3. ASSUME NEW r \in AnyResult
      PROVE  /\ ToSet(R[r]) \cap CallParts = {}
             /\ ToSet(R[r]) \cap ResultParts = IF r.id \in p THEN {ResultPart(r, n)} ELSE {}
  <2>1. CASE r.id \notin p
    <3>1. R[r] = <<>>
      BY <2>1 DEF ResultPieces
    <3>2. ToSet(<<>>) = {}
      BY DEF ToSet
    <3> QED BY <2>1, <3>1, <3>2
  <2>2. CASE r.id \in p
    <3> DEFINE part == ResultPart(r, n)
               images == ImagesIn(r.parts)
    <3>1. part \in ResultParts /\ part \in CCPart
      BY <2>2, ResultPartType
    <3>2. images \in Seq(AnyPart) /\ images \in Seq(CCPart)
      <4>1. r.parts \in Seq(AnyPart)
        BY DEF AnyResult
      <4>2. images \in Seq(AnyPart)
        BY <4>1, PartsType
      <4> QED BY <4>2, AnyPartsAreCC
    <3>3. R[r] = <<part>> \o images
      BY <2>2 DEF ResultPieces
    <3> HIDE DEF part, images
    <3>4. <<part>> \in Seq(CCPart) /\ ToSet(<<part>>) = {part}
      <4>1. \A x, y \in CCPart : <<x>> \in Seq(CCPart) /\ ToSet(<<x>>) = {x}
        BY ShortLists
      <4> QED BY <3>1, <4>1
    <3>5. ToSet(<<part>> \o images) = ToSet(<<part>>) \cup ToSet(images)
      <4> DEFINE one == <<part>>
      <4>1. one \in Seq(CCPart)
        BY <3>4
      <4> HIDE DEF one
      <4>2. ToSet(one \o images) = ToSet(one) \cup ToSet(images)
        BY <3>2, <4>1, ConcatElements
      <4> QED BY <4>2 DEF one
    <3>6. ToSet(images) \subseteq AnyPart
      BY <3>2, ElementOfSeq, LenProperties DEF ToSet
    <3> HIDE DEF R
    <3>7. ToSet(R[r]) \cap CallParts = {} /\ ToSet(R[r]) \cap ResultParts = {part}
      BY <1>2, <3>1, <3>3, <3>4, <3>5, <3>6
    <3> QED BY <2>2, <3>7 DEF part
  <2> QED BY <2>1, <2>2
<1>4. ps \in Seq(CCPart) /\ ToSet(ps) = UNION {ToSet(R[rs[j]]) : j \in 1..Len(rs)}
  BY <1>1, MappedType, MappedElements
<1>5. \A j \in 1..Len(rs) : rs[j] \in AnyResult
  BY ElementOfSeq
<1> HIDE DEF R
<1>6. \A j \in 1..Len(rs) :
        /\ ToSet(R[rs[j]]) \cap CallParts = {}
        /\ ToSet(R[rs[j]]) \cap ResultParts = IF rs[j].id \in p THEN {ResultPart(rs[j], n)} ELSE {}
  BY <1>3, <1>5
<1>7. ToSet(ps) \cap CallParts = {}
  BY <1>4, <1>6
<1>8. ASSUME NEW x \in ToSet(ps) \cap ResultParts PROVE x \in returned
  <2>1. PICK j \in 1..Len(rs) : x \in ToSet(R[rs[j]])
    BY <1>4
  <2>2. rs[j].id \in p /\ x = ResultPart(rs[j], n)
    BY <1>6, <1>8, <2>1
  <2> QED BY <2>2
<1>9. ASSUME NEW x \in returned PROVE x \in ToSet(ps) \cap ResultParts
  <2>1. PICK j \in 1..Len(rs) : rs[j].id \in p /\ x = ResultPart(rs[j], n)
    OBVIOUS
  <2>2. x \in ToSet(R[rs[j]]) \cap ResultParts
    BY <1>6, <2>1
  <2> QED BY <1>4, <2>2
<1>10. ToSet(ps) \cap ResultParts = returned
  BY <1>8, <1>9
<1> QED BY <1>4, <1>7, <1>10

\* s is what is sent of turn t: a part for each of its calls and of its results that are
\* paired, and no result twice.
SentOf(s, t, p, n) ==
    /\ s \in Seq(CCPart)
    /\ ToSet(s) \cap CallParts
         = {CallPart(t.calls[j]) : j \in {k \in 1..Len(t.calls) : t.calls[k].id \in p}}
    /\ ToSet(s) \cap ResultParts
         = {ResultPart(t.results[j], n) : j \in {k \in 1..Len(t.results) : t.results[k].id \in p}}
    /\ \A x, y \in 1..Len(s) :
         s[x] \in ResultParts /\ s[y] \in ResultParts /\ s[x].id = s[y].id => x = y
ResultsOnce(t) == \A x, y \in 1..Len(t.results) : t.results[x].id = t.results[y].id => x = y

LEMMA TurnPairs ==
  ASSUME NEW p, NEW n, Naming(p, n), NEW t \in LegalTurn, ResultsOnce(t)
  PROVE  SentOf(TurnPieces(p, n)[t], t, p, n)
<1> DEFINE ps == TurnPieces(p, n)[t]
           rs == t.results
           R == ResultPieces(p, n)
           a == Mapped(rs, R)
           b == OwnParts(t, p)
<1>1. ps = a \o b /\ rs \in Seq(AnyResult) /\ Maps(R, AnyResult, CCPart)
  BY LegalParts, TurnPiecesSent DEF TurnPieces
<1>2. /\ a \in Seq(CCPart) /\ ToSet(a) \cap CallParts = {}
      /\ ToSet(a) \cap ResultParts
           = {ResultPart(rs[j], n) : j \in {k \in 1..Len(rs) : rs[k].id \in p}}
  <2>1. rs \in Seq(AnyResult) /\ a = Mapped(rs, ResultPieces(p, n))
    BY <1>1
  <2> HIDE DEF ps, a, b, rs, R
  <2> QED BY <2>1, ResultsSent
<1>3. /\ b \in Seq(CCPart) /\ ToSet(b) \cap ResultParts = {}
      /\ ToSet(b) \cap CallParts
           = {CallPart(t.calls[j]) : j \in {k \in 1..Len(t.calls) : t.calls[k].id \in p}}
  BY OwnCalls
<1>4. PICK row, col : Placed(rs, R, row, col)
  <2> HIDE DEF rs, R
  <2> QED BY <1>1, MappedPlaced
<1>5. ASSUME NEW r \in AnyResult, NEW x \in 1..Len(R[r]), R[r][x] \in ResultParts
      PROVE  x = 1 /\ R[r][x].id = r.id
  <2>1. CASE r.id \notin p
    <3>1. R[r] = <<>>
      BY <2>1 DEF ResultPieces
    <3> QED BY <3>1, NoneHere
  <2>2. CASE r.id \in p
    <3> DEFINE part == ResultPart(r, n)
               images == ImagesIn(r.parts)
    <3>1. images \in Seq(AnyPart)
      <4>1. r.parts \in Seq(AnyPart)
        BY DEF AnyResult
      <4> QED BY <4>1, PartsType
    <3>2. R[r] = <<part>> \o images /\ part.id = r.id
      BY <2>2 DEF ResultPieces, ResultPart
    <3> HIDE DEF part, images, R
    <3>3. Len(images) \in Nat /\ \A i \in 1..Len(images) : images[i] \notin ResultParts
      <4>1. \A i \in 1..Len(images) : images[i] \in AnyPart
        BY <3>1, ElementOfSeq
      <4>2. AnyPart \cap ResultParts = {}
        BY PartType DEF ResultParts
      <4> QED BY <3>1, <4>1, <4>2, LenProperties
    <3>4. R[r][1] = part /\ \A i \in 2..Len(R[r]) : i - 1 \in 1..Len(images) /\ R[r][i] = images[i - 1]
      BY <3>1, <3>2, <3>3
    <3>5. x = 1
      <4>1. x = 1 \/ x \in 2..Len(R[r])
        OBVIOUS
      <4> QED BY <1>5, <3>3, <3>4, <4>1
    <3> QED BY <3>2, <3>4, <3>5
  <2> QED BY <2>1, <2>2
<1>6. \A i \in 1..Len(rs) : rs[i] \in AnyResult
  BY <1>1, ElementOfSeq
<1>7. /\ \A k \in 1..Len(a) : /\ row[k] \in 1..Len(rs) /\ col[k] \in 1..Len(R[rs[row[k]]])
                              /\ a[k] = R[rs[row[k]]][col[k]]
      /\ \A k, l \in 1..Len(a) : k < l => row[k] < row[l] \/ (row[k] = row[l] /\ col[k] < col[l])
  BY <1>4 DEF Placed
<1> HIDE DEF a, b, R, ps
<1>8. Len(a) \in Nat /\ Len(b) \in Nat /\ Len(rs) \in Nat
  BY <1>1, <1>2, <1>3, LenProperties
<1>9. \A k \in 1..Len(a) : a[k] \in ResultParts =>
        row[k] \in 1..Len(rs) /\ row[k] \in Nat /\ col[k] = 1 /\ a[k].id = rs[row[k]].id
  <2> SUFFICES ASSUME NEW k \in 1..Len(a), a[k] \in ResultParts
               PROVE  row[k] \in 1..Len(rs) /\ row[k] \in Nat /\ col[k] = 1 /\ a[k].id = rs[row[k]].id
    OBVIOUS
  <2> DEFINE r == rs[row[k]]
             x == col[k]
  <2>1. row[k] \in 1..Len(rs) /\ x \in 1..Len(R[r]) /\ a[k] = R[r][x]
    BY <1>7
  <2>2. r \in AnyResult
    BY <1>6, <2>1
  <2> HIDE DEF r, x, rs
  <2>3. x = 1 /\ R[r][x].id = r.id
    BY <1>5, <2>1, <2>2
  <2> QED BY <1>8, <2>1, <2>3 DEF r, x
<1>10. ASSUME NEW k \in 1..Len(a), NEW l \in 1..Len(a),
              a[k] \in ResultParts, a[l] \in ResultParts, a[k].id = a[l].id
       PROVE  k = l
  <2>1. /\ row[k] \in 1..Len(rs) /\ row[l] \in 1..Len(rs) /\ row[k] \in Nat
        /\ rs[row[k]].id = rs[row[l]].id /\ col[k] = 1 /\ col[l] = 1
    BY <1>9, <1>10
  <2> DEFINE x == row[k]
             y == row[l]
  <2>2. x \in 1..Len(t.results) /\ y \in 1..Len(t.results) /\ t.results[x].id = t.results[y].id
    BY <2>1
  <2> HIDE DEF x, y
  <2>3. x = y
    BY <2>2 DEF ResultsOnce
  <2>4. row[k] = row[l] /\ row[k] \in Nat /\ col[k] = 1 /\ col[l] = 1
    BY <2>1, <2>3 DEF x, y
  <2>5. \A c, d \in 1..Len(a) : c < d => row[c] < row[d] \/ (row[c] = row[d] /\ col[c] < col[d])
    BY <1>7
  <2>6. ~(k < l)
    BY <2>4, <2>5
  <2>7. ~(l < k)
    BY <2>4, <2>5
  <2> QED BY <1>8, <2>6, <2>7
<1>11. ToSet(ps) = ToSet(a) \cup ToSet(b) /\ ps \in Seq(CCPart)
  BY <1>1, <1>2, <1>3, ConcatElements, ConcatProperties
<1>12. ASSUME NEW x \in 1..Len(ps), ps[x] \in ResultParts
       PROVE  x \in 1..Len(a) /\ ps[x] = a[x]
  <2>1. Len(ps) = Len(a) + Len(b) /\ \A i \in 1..Len(ps) : ps[i] = IF i <= Len(a) THEN a[i] ELSE b[i - Len(a)]
    BY <1>1, <1>2, <1>3, ConcatProperties
  <2>2. \A i \in 1..Len(b) : b[i] \notin ResultParts
    BY <1>3, LenProperties DEF ToSet
  <2>3. CASE x <= Len(a)
    BY <1>8, <2>1, <2>3
  <2>4. CASE ~(x <= Len(a))
    <3>1. x - Len(a) \in 1..Len(b) /\ ps[x] = b[x - Len(a)]
      BY <1>8, <2>1, <2>4
    <3> QED BY <1>12, <2>2, <3>1
  <2> QED BY <2>3, <2>4
<1>13. ASSUME NEW x \in 1..Len(ps), NEW y \in 1..Len(ps),
              ps[x] \in ResultParts, ps[y] \in ResultParts, ps[x].id = ps[y].id
       PROVE  x = y
  BY <1>10, <1>12, <1>13
<1>14. ToSet(ps) \cap CallParts
         = {CallPart(t.calls[j]) : j \in {k \in 1..Len(t.calls) : t.calls[k].id \in p}}
  BY <1>2, <1>3, <1>11
<1>15. ToSet(ps) \cap ResultParts
         = {ResultPart(rs[j], n) : j \in {k \in 1..Len(rs) : rs[k].id \in p}}
  BY <1>2, <1>3, <1>11
<1> QED BY <1>11, <1>13, <1>14, <1>15 DEF SentOf, ps

(* Calls and results of a request *)

LEMMA CCKinds ==
  \A x \in CCPart : /\ x.type = "tool-call" => x \in CallParts
                    /\ x.type = "tool-result" => x \in ResultParts
  BY PartType DEF CCPart, CallParts, ResultParts

LEMMA CallPartIs ==
  \A c : /\ CallPart(c).type = "tool-call" /\ CallPart(c).id = c.id /\ CallPart(c).name = c.name
  BY DEF CallPart

LEMMA ResultPartIs ==
  \A r, n : /\ ResultPart(r, n).type = "tool-result" /\ ResultPart(r, n).id = r.id
            /\ ResultPart(r, n).name = n[r.id]
  BY DEF ResultPart

\* Where the calls and results of a request stand: row[k] is the turn of its k-th part.
PartsFrom(q, ps, p, n, row) ==
    /\ \A k \in 1..Len(ps) : row[k] \in 1..Len(q) /\ ps[k] \in CCPart
    /\ \A k, l \in 1..Len(ps) : k < l => row[k] < row[l] \/ row[k] = row[l]
    /\ \A k \in 1..Len(ps) : ps[k] \in CallParts =>
         \E c \in 1..Len(q[row[k]].calls) : /\ q[row[k]].calls[c].id \in p
                                            /\ ps[k] = CallPart(q[row[k]].calls[c])
    /\ \A k \in 1..Len(ps) : ps[k] \in ResultParts =>
         \E d \in 1..Len(q[row[k]].results) : /\ q[row[k]].results[d].id \in p
                                              /\ ps[k] = ResultPart(q[row[k]].results[d], n)
    /\ \A a \in 1..Len(q) : \A c \in 1..Len(q[a].calls) : q[a].calls[c].id \in p =>
         \E k \in 1..Len(ps) : row[k] = a /\ ps[k] = CallPart(q[a].calls[c])
    /\ \A a \in 1..Len(q) : \A d \in 1..Len(q[a].results) : q[a].results[d].id \in p =>
         \E k \in 1..Len(ps) : row[k] = a /\ ps[k] = ResultPart(q[a].results[d], n)
    /\ \A k, l \in 1..Len(ps) :
         /\ ps[k] \in ResultParts /\ ps[l] \in ResultParts /\ ps[k].id = ps[l].id
         /\ row[k] = row[l]
         => k = l

LEMMA PartsComeFrom ==
  ASSUME NEW p, NEW n, Naming(p, n), NEW q \in Seq(LegalTurn), UniqueResults(q),
         NEW ps, ps = Mapped(q, TurnPieces(p, n))
  PROVE  ps \in Seq(CCPart) /\ \E row : PartsFrom(q, ps, p, n, row)
<1> DEFINE F == TurnPieces(p, n)
<1>1. Maps(F, LegalTurn, CCPart)
  BY TurnPiecesSent
<1>2. ASSUME NEW a \in 1..Len(q)
      PROVE  SentOf(F[q[a]], q[a], p, n)
  <2>1. q[a] \in LegalTurn
    BY <1>2, ElementOfSeq
  <2>2. ResultsOnce(q[a])
    BY <1>2 DEF UniqueResults, ResultsOnce
  <2> QED BY <2>1, <2>2, TurnPairs
<1>3. PICK row, col : Placed(q, F, row, col)
  <2> HIDE DEF F
  <2> QED BY <1>1, MappedPlaced
<1> HIDE DEF F
<1>4. ps = Mapped(q, F) /\ ps \in Seq(CCPart)
  BY <1>1, MappedType DEF F
<1>5. /\ \A k \in 1..Len(ps) : /\ row[k] \in 1..Len(q) /\ col[k] \in 1..Len(F[q[row[k]]])
                               /\ ps[k] = F[q[row[k]]][col[k]]
      /\ \A k, l \in 1..Len(ps) : k < l => row[k] < row[l] \/ (row[k] = row[l] /\ col[k] < col[l])
      /\ \A i \in 1..Len(q) : \A j \in 1..Len(F[q[i]]) :
           \E k \in 1..Len(ps) : row[k] = i /\ col[k] = j
  BY <1>3, <1>4 DEF Placed
<1>6. \A k \in 1..Len(ps) : row[k] \in 1..Len(q) /\ ps[k] \in CCPart
  BY <1>4, <1>5, ElementOfSeq
<1>7. \A k, l \in 1..Len(ps) : k < l => row[k] < row[l] \/ row[k] = row[l]
  BY <1>5
<1>8. ASSUME NEW k \in 1..Len(ps) PROVE ps[k] \in ToSet(F[q[row[k]]])
  <2> DEFINE a == row[k]
             x == col[k]
  <2>1. a \in 1..Len(q) /\ x \in 1..Len(F[q[a]]) /\ ps[k] = F[q[a]][x]
    BY <1>5
  <2> HIDE DEF a, x
  <2>2. F[q[a]] \in Seq(CCPart)
    BY <1>2, <2>1 DEF SentOf
  <2>3. ps[k] \in ToSet(F[q[a]])
    BY <2>1, <2>2, LenProperties DEF ToSet
  <2> QED BY <2>3 DEF a
<1>9. ASSUME NEW k \in 1..Len(ps), ps[k] \in CallParts
      PROVE  \E c \in 1..Len(q[row[k]].calls) : /\ q[row[k]].calls[c].id \in p
                                                /\ ps[k] = CallPart(q[row[k]].calls[c])
  <2> DEFINE a == row[k]
  <2>1. a \in 1..Len(q) /\ ps[k] \in ToSet(F[q[a]]) \cap CallParts
    BY <1>6, <1>8, <1>9
  <2> HIDE DEF a
  <2>2. ps[k] \in {CallPart(q[a].calls[j]) : j \in {c \in 1..Len(q[a].calls) : q[a].calls[c].id \in p}}
    BY <1>2, <2>1 DEF SentOf
  <2>3. \E c \in 1..Len(q[a].calls) : q[a].calls[c].id \in p /\ ps[k] = CallPart(q[a].calls[c])
    BY <2>2
  <2> QED BY <2>3 DEF a
<1>10. ASSUME NEW k \in 1..Len(ps), ps[k] \in ResultParts
       PROVE  \E d \in 1..Len(q[row[k]].results) : /\ q[row[k]].results[d].id \in p
                                                   /\ ps[k] = ResultPart(q[row[k]].results[d], n)
  <2> DEFINE a == row[k]
  <2>1. a \in 1..Len(q) /\ ps[k] \in ToSet(F[q[a]]) \cap ResultParts
    BY <1>6, <1>8, <1>10
  <2> HIDE DEF a
  <2>2. ps[k] \in {ResultPart(q[a].results[j], n) :
                      j \in {d \in 1..Len(q[a].results) : q[a].results[d].id \in p}}
    BY <1>2, <2>1 DEF SentOf
  <2>3. \E d \in 1..Len(q[a].results) : q[a].results[d].id \in p /\ ps[k] = ResultPart(q[a].results[d], n)
    BY <2>2
  <2> QED BY <2>3 DEF a
<1>11. ASSUME NEW a \in 1..Len(q), NEW x \in ToSet(F[q[a]])
       PROVE  \E k \in 1..Len(ps) : row[k] = a /\ ps[k] = x
  <2>1. PICK j \in 1..Len(F[q[a]]) : x = F[q[a]][j]
    <3>1. F[q[a]] \in Seq(CCPart)
      BY <1>2 DEF SentOf
    <3> QED BY <3>1, <1>11, LenProperties DEF ToSet
  <2>2. PICK k \in 1..Len(ps) : row[k] = a /\ col[k] = j
    BY <1>5, <2>1
  <2>3. ps[k] = x
    BY <1>5, <2>1, <2>2
  <2> QED BY <2>2, <2>3
<1>12. ASSUME NEW a \in 1..Len(q), NEW c \in 1..Len(q[a].calls), q[a].calls[c].id \in p
       PROVE  \E k \in 1..Len(ps) : row[k] = a /\ ps[k] = CallPart(q[a].calls[c])
  <2>1. CallPart(q[a].calls[c]) \in ToSet(F[q[a]])
    BY <1>2, <1>12 DEF SentOf
  <2> QED BY <1>11, <2>1
<1>13. ASSUME NEW a \in 1..Len(q), NEW d \in 1..Len(q[a].results), q[a].results[d].id \in p
       PROVE  \E k \in 1..Len(ps) : row[k] = a /\ ps[k] = ResultPart(q[a].results[d], n)
  <2>1. ResultPart(q[a].results[d], n) \in ToSet(F[q[a]])
    BY <1>2, <1>13 DEF SentOf
  <2> QED BY <1>11, <2>1
<1>14. ASSUME NEW k \in 1..Len(ps), NEW l \in 1..Len(ps),
              ps[k] \in ResultParts, ps[l] \in ResultParts, ps[k].id = ps[l].id, row[k] = row[l]
       PROVE  k = l
  <2> DEFINE a == row[k]
             x == col[k]
             y == col[l]
  <2>1. /\ a \in 1..Len(q) /\ x \in 1..Len(F[q[a]]) /\ y \in 1..Len(F[q[a]])
        /\ ps[k] = F[q[a]][x] /\ ps[l] = F[q[a]][y]
    <3>1. a \in 1..Len(q) /\ x \in 1..Len(F[q[a]]) /\ ps[k] = F[q[a]][x]
      BY <1>5
    <3>2. row[l] = a
      BY <1>14
    <3>3. y \in 1..Len(F[q[row[l]]]) /\ ps[l] = F[q[row[l]]][y]
      BY <1>5
    <3> HIDE DEF a, x, y
    <3> QED BY <3>1, <3>2, <3>3
  <2> HIDE DEF a, x, y
  <2>2. x = y
    BY <1>2, <1>14, <2>1 DEF SentOf
  <2>3. F[q[a]] \in Seq(CCPart) /\ Len(q) \in Nat
    BY <1>2, <2>1, LenProperties DEF SentOf
  <2>4. a \in Nat /\ x \in Nat /\ Len(ps) \in Nat
    BY <1>4, <2>1, <2>3, LenProperties
  <2>5. row[k] \in Nat /\ row[l] = row[k] /\ col[k] \in Nat /\ col[l] = col[k]
    BY <1>14, <2>2, <2>4 DEF a, x, y
  <2>6. ~(k < l)
    BY <1>5, <2>5, SMTT(30)
  <2>7. ~(l < k)
    BY <1>5, <2>5, SMTT(30)
  <2> QED BY <2>4, <2>6, <2>7
<1>15. PartsFrom(q, ps, p, n, row)
  BY <1>6, <1>7, <1>9, <1>10, <1>12, <1>13, <1>14 DEF PartsFrom
<1> QED BY <1>4, <1>15

\* No call or result of a request dangles.
NoneDangles(ps) ==
    /\ \A i \in 1..Len(ps) : ps[i] \in CallParts =>
         \E j \in 1..Len(ps) : /\ ps[j] \in ResultParts /\ i < j
                               /\ ps[j].id = ps[i].id /\ ps[j].name = ps[i].name
    /\ \A j \in 1..Len(ps) : ps[j] \in ResultParts =>
         \E i \in 1..Len(ps) : ps[i] \in CallParts /\ ps[i].id = ps[j].id
    /\ \A j, k \in 1..Len(ps) :
         ps[j] \in ResultParts /\ ps[k] \in ResultParts /\ ps[k].id = ps[j].id => k = j

LEMMA HistoryDangles ==
  ASSUME NEW q \in Seq(LegalTurn), IdsInv(q),
         NEW ps, ps = Mapped(q, TurnPieces(PairedIn(q), NamesIn(q)))
  PROVE  ps \in Seq(CCPart) /\ NoneDangles(ps)
<1> DEFINE p == PairedIn(q)
           n == NamesIn(q)
<1>1. /\ Naming(p, n) /\ \A id : id \in p <=> Called(q, id) /\ Answered(q, id)
      /\ \A i \in 1..Len(q) : \A j \in 1..Len(q[i].calls) : n[q[i].calls[j].id] = q[i].calls[j].name
  BY PairedAre DEF IdsInv
<1>2. ps = Mapped(q, TurnPieces(p, n)) /\ UniqueResults(q)
  BY DEF IdsInv
<1> HIDE DEF p, n
<1>3. ps \in Seq(CCPart) /\ \E row : PartsFrom(q, ps, p, n, row)
  BY <1>1, <1>2, PartsComeFrom
<1>4. PICK row : PartsFrom(q, ps, p, n, row)
  BY <1>3
<1>parts. \A k \in 1..Len(ps) : row[k] \in 1..Len(q) /\ ps[k] \in CCPart
  BY <1>4 DEF PartsFrom
<1>order. \A k, l \in 1..Len(ps) : k < l => row[k] < row[l] \/ row[k] = row[l]
  BY <1>4 DEF PartsFrom
<1>called. \A k \in 1..Len(ps) : ps[k] \in CallParts =>
             \E c \in 1..Len(q[row[k]].calls) : /\ q[row[k]].calls[c].id \in p
                                                /\ ps[k] = CallPart(q[row[k]].calls[c])
  BY <1>4 DEF PartsFrom
<1>answered. \A k \in 1..Len(ps) : ps[k] \in ResultParts =>
               \E d \in 1..Len(q[row[k]].results) : /\ q[row[k]].results[d].id \in p
                                                    /\ ps[k] = ResultPart(q[row[k]].results[d], n)
  BY <1>4 DEF PartsFrom
<1>call. \A a \in 1..Len(q) : \A c \in 1..Len(q[a].calls) : q[a].calls[c].id \in p =>
           \E k \in 1..Len(ps) : row[k] = a /\ ps[k] = CallPart(q[a].calls[c])
  BY <1>4 DEF PartsFrom
<1>result. \A a \in 1..Len(q) : \A d \in 1..Len(q[a].results) : q[a].results[d].id \in p =>
             \E k \in 1..Len(ps) : row[k] = a /\ ps[k] = ResultPart(q[a].results[d], n)
  BY <1>4 DEF PartsFrom
<1>once. \A x, y \in 1..Len(ps) :
           /\ ps[x] \in ResultParts /\ ps[y] \in ResultParts /\ ps[x].id = ps[y].id
           /\ row[x] = row[y]
           => x = y
  BY <1>4 DEF PartsFrom
<1>5. Len(ps) \in Nat /\ Len(q) \in Nat /\ \A k \in 1..Len(ps) : row[k] \in 1..Len(q) /\ row[k] \in Nat
  <2>1. Len(ps) \in Nat /\ Len(q) \in Nat
    BY <1>3, LenProperties
  <2> QED BY <1>parts, <2>1
<1>6. ASSUME NEW i \in 1..Len(ps), ps[i] \in CallParts
      PROVE  \E j \in 1..Len(ps) : /\ ps[j] \in ResultParts /\ i < j
                                   /\ ps[j].id = ps[i].id /\ ps[j].name = ps[i].name
  <2> DEFINE a == row[i]
  <2>1. PICK c \in 1..Len(q[a].calls) : q[a].calls[c].id \in p /\ ps[i] = CallPart(q[a].calls[c])
    BY <1>called, <1>6
  <2> DEFINE id == q[a].calls[c].id
  <2>2. PICK b \in 1..Len(q) : \E e \in 1..Len(q[b].results) : q[b].results[e].id = id
    BY <1>1, <2>1 DEF Answered
  <2>3. PICK d \in 1..Len(q[b].results) : q[b].results[d].id = id
    BY <2>2
  <2>4. a \in 1..Len(q)
    BY <1>5
  <2>5. b = a + 1
    <3>1. q[a].calls[c].id = q[b].results[d].id
      BY <2>3
    <3> HIDE DEF a, id
    <3> QED BY <2>1, <2>2, <2>3, <2>4, <3>1, FollowsRule
  <2>6. PICK j \in 1..Len(ps) : row[j] = b /\ ps[j] = ResultPart(q[b].results[d], n)
    <3>1. q[b].results[d].id \in p
      BY <2>1, <2>3
    <3> HIDE DEF id
    <3> QED BY <1>result, <2>2, <2>3, <3>1
  <2>7. /\ ps[i].id = id /\ ps[i].name = q[a].calls[c].name
        /\ ps[j].id = id /\ ps[j].name = n[id] /\ ps[j].type = "tool-result"
    <3>1. ps[i].id = id /\ ps[i].name = q[a].calls[c].name
      BY <2>1, CallPartIs
    <3>2. ResultPart(q[b].results[d], n).type = "tool-result"
          /\ ResultPart(q[b].results[d], n).id = q[b].results[d].id
          /\ ResultPart(q[b].results[d], n).name = n[q[b].results[d].id]
      BY ResultPartIs
    <3> HIDE DEF id
    <3> QED BY <2>3, <2>6, <3>1, <3>2
  <2>8. n[id] = q[a].calls[c].name
    BY <1>1, <2>1, <2>4
  <2>9. ps[j] \in ResultParts
    <3>1. ps[j] \in CCPart
      BY <1>parts
    <3> QED BY <2>7, <3>1, CCKinds
  <2>10. i < j
    <3>1. row[j] = row[i] + 1 /\ row[i] \in Nat /\ row[j] \in Nat
      BY <1>5, <2>5, <2>6
    <3>2. j < i => row[j] < row[i] \/ row[j] = row[i]
      BY <1>order
    <3> QED BY <1>5, <3>1, <3>2
  <2> HIDE DEF id
  <2> QED BY <2>7, <2>8, <2>9, <2>10
<1>7. ASSUME NEW j \in 1..Len(ps), ps[j] \in ResultParts
      PROVE  \E i \in 1..Len(ps) : ps[i] \in CallParts /\ ps[i].id = ps[j].id
  <2> DEFINE b == row[j]
  <2>1. PICK d \in 1..Len(q[b].results) : q[b].results[d].id \in p /\ ps[j] = ResultPart(q[b].results[d], n)
    BY <1>answered, <1>7
  <2> DEFINE id == q[b].results[d].id
  <2>2. PICK a \in 1..Len(q) : \E e \in 1..Len(q[a].calls) : q[a].calls[e].id = id
    BY <1>1, <2>1 DEF Called
  <2>3. PICK c \in 1..Len(q[a].calls) : q[a].calls[c].id = id
    BY <2>2
  <2>4. PICK i \in 1..Len(ps) : row[i] = a /\ ps[i] = CallPart(q[a].calls[c])
    <3>1. q[a].calls[c].id \in p
      BY <2>1, <2>3
    <3> HIDE DEF id
    <3> QED BY <1>call, <2>2, <2>3, <3>1
  <2>5. ps[i].id = id /\ ps[j].id = id /\ ps[i].type = "tool-call"
    <3>1. ps[i].id = q[a].calls[c].id /\ ps[i].type = "tool-call"
      BY <2>4, CallPartIs
    <3>2. ps[j].id = q[b].results[d].id
      BY <2>1, ResultPartIs
    <3> QED BY <2>3, <3>1, <3>2
  <2>6. ps[i] \in CallParts
    <3>1. ps[i] \in CCPart
      BY <1>parts
    <3> QED BY <2>5, <3>1, CCKinds
  <2> QED BY <2>5, <2>6
<1>8. ASSUME NEW j \in 1..Len(ps), NEW k \in 1..Len(ps),
             ps[j] \in ResultParts, ps[k] \in ResultParts, ps[k].id = ps[j].id
      PROVE  k = j
  <2> DEFINE a == row[j]
             b == row[k]
  <2>1. PICK d \in 1..Len(q[a].results) : q[a].results[d].id \in p /\ ps[j] = ResultPart(q[a].results[d], n)
    BY <1>answered, <1>8
  <2>2. PICK e \in 1..Len(q[b].results) : q[b].results[e].id \in p /\ ps[k] = ResultPart(q[b].results[e], n)
    BY <1>answered, <1>8
  <2>3. q[a].results[d].id = q[b].results[e].id
    <3>1. ps[j].id = q[a].results[d].id
      BY <2>1, ResultPartIs
    <3>2. ps[k].id = q[b].results[e].id
      BY <2>2, ResultPartIs
    <3> QED BY <1>8, <3>1, <3>2
  <2>4. a \in 1..Len(q) /\ b \in 1..Len(q)
    BY <1>5
  <2>5. a = b
    <3> HIDE DEF a, b
    <3> QED BY <2>1, <2>2, <2>3, <2>4, OnceRule
  <2>6. \A x, y \in 1..Len(ps) :
          /\ ps[x] \in ResultParts /\ ps[y] \in ResultParts /\ ps[x].id = ps[y].id
          /\ row[x] = row[y]
          => x = y
    BY <1>4 DEF PartsFrom
  <2> QED BY <1>8, <2>5, <2>6
<1> QED BY <1>3, <1>6, <1>7, <1>8 DEF NoneDangles

\* What the parts of a request are.
LEMMA RequestParts ==
  ASSUME NEW q \in Seq(LegalTurn), IdsInv(q)
  PROVE  CCParts(Translation(q).messages) = Mapped(q, TurnPieces(PairedIn(q), NamesIn(q)))
<1>1. Naming(PairedIn(q), NamesIn(q))
  BY PairedAre DEF IdsInv
<1>2. Translation(q).messages = Mapped(q, TurnCC(PairedIn(q), NamesIn(q)))
  BY DEF Translation
<1>3. \A s \in Seq(LegalTurn) :
        CCParts(Mapped(s, TurnCC(PairedIn(q), NamesIn(q))))
          = Mapped(s, TurnPieces(PairedIn(q), NamesIn(q)))
  BY <1>1, TurnPiecesSent
<1> QED BY <1>2, <1>3

LEMMA DanglingTypes ==
  ASSUME NEW ps \in Seq(CCPart), NoneDangles(ps), ps = CCParts(sent.messages)
  PROVE  NothingDangling
<1>1. DOMAIN ps = 1..Len(ps) /\ \A i \in 1..Len(ps) : ps[i] \in CCPart
  BY LenProperties, ElementOfSeq
<1>2. \A i \in DOMAIN ps : /\ ps[i].type = "tool-call" <=> ps[i] \in CallParts
                           /\ ps[i].type = "tool-result" <=> ps[i] \in ResultParts
  BY <1>1, CCKinds DEF CallParts, ResultParts
<1>3. ASSUME NEW i \in DOMAIN ps, ps[i].type = "tool-call"
      PROVE  \E j \in {k \in DOMAIN ps : ps[k].type = "tool-result"} :
               i < j /\ ps[j].id = ps[i].id /\ ps[j].name = ps[i].name
  BY <1>1, <1>2, <1>3 DEF NoneDangles
<1>4. ASSUME NEW j \in DOMAIN ps, ps[j].type = "tool-result"
      PROVE  \E i \in {k \in DOMAIN ps : ps[k].type = "tool-call"} :
               \A k \in {l \in DOMAIN ps : ps[l].type = "tool-result"} :
                 ps[i].id = ps[j].id /\ (ps[k].id = ps[j].id => k = j)
  <2>1. PICK i \in DOMAIN ps : ps[i].type = "tool-call" /\ ps[i].id = ps[j].id
    BY <1>1, <1>2, <1>4 DEF NoneDangles
  <2>2. \A k \in DOMAIN ps : ps[k].type = "tool-result" => (ps[k].id = ps[j].id => k = j)
    BY <1>1, <1>2, <1>4 DEF NoneDangles
  <2> QED BY <2>1, <2>2
<1> QED BY <1>3, <1>4 DEF NothingDangling

LEMMA NoneSent == CCParts(None.messages) = <<>>
<1>1. <<>> \in Seq(CCMessage) /\ None.messages = <<>>
  BY EmptySeq DEF None
<1> QED BY <1>1, ContentInMaps, MappedEmpty

LEMMA HistoryPaired == HistoryInv => NothingDangling
<1> SUFFICES ASSUME HistoryInv PROVE NothingDangling
  OBVIOUS
<1>1. said \in Seq(LegalTurn) /\ IdsInv(said)
  BY DEF HistoryInv, History
<1>2. CASE sent = None
  <2> DEFINE ps == CCParts(sent.messages)
  <2>1. ps = <<>>
    BY <1>2, NoneSent
  <2> HIDE DEF ps
  <2>2. ps \in Seq(CCPart) /\ Len(ps) = 0
    BY <2>1, EmptySeq
  <2>3. NoneDangles(ps)
    BY <2>2 DEF NoneDangles
  <2> QED BY <2>2, <2>3, DanglingTypes DEF ps
<1>3. CASE sent # None
  <2>1. PICK k \in 1..Len(said) : sent = Translation(SubSeq(said, 1, k))
    BY <1>3 DEF HistoryInv, SentInv
  <2> DEFINE h == SubSeq(said, 1, k)
             ps == CCParts(sent.messages)
  <2>2. h \in Seq(LegalTurn) /\ IdsInv(h)
    BY <1>1, FirstTurns
  <2> HIDE DEF h
  <2>3. ps = Mapped(h, TurnPieces(PairedIn(h), NamesIn(h)))
    BY <2>1, <2>2, RequestParts DEF h
  <2> HIDE DEF ps
  <2>4. ps \in Seq(CCPart) /\ NoneDangles(ps)
    BY <2>2, <2>3, HistoryDangles
  <2> QED BY <2>4, DanglingTypes DEF ps
<1> QED BY <1>2, <1>3

\* Every tool call that is sent has its one result after it, with its name, and every
\* result its call: pairedToolCallIDs leaves out what an interrupted turn or a forgotten
\* one has broken, and the names are those of the calls whichever turns are remembered.
THEOREM NoDanglingCall == Spec => []NothingDangling
<1>1. HistoryInv => NothingDangling
  BY HistoryPaired
<1> QED BY <1>1, HistoryInvariant, PTL

(* The places that a request holds *)

CCPlace == [x \in CCPart |-> IF x.type \in {"text", "tool-result"} THEN x.text
                             ELSE IF x.type = "image" THEN <<x.image>> ELSE <<>>]

LEMMA CCPlaceMaps ==
  /\ Maps(CCPlace, CCPart, Spots)
  /\ \A x \in CCPart : CCPlace[x] = Places(x)
  /\ \A x \in AnyPart : CCPlace[x] = PlaceIn[x]
  /\ \A x \in CallParts : CCPlace[x] = <<>>
  /\ \A x \in ResultParts : CCPlace[x] = x.text
<1>1. \A b \in Spots : <<b>> \in Seq(Spots)
  OBVIOUS
<1>2. \A x \in AnyPart : /\ CCPlace[x] = IF x.type = "text" THEN x.text ELSE <<x.image>>
                         /\ Places(x) = IF x.type = "text" THEN x.text ELSE <<x.image>>
  BY PartType DEF CCPlace, CCPart, Places
<1>3. \A x \in CallParts : CCPlace[x] = <<>> /\ Places(x) = <<>>
  BY DEF CCPlace, CCPart, CallParts, Places
<1>4. \A x \in ResultParts : CCPlace[x] = x.text /\ Places(x) = x.text /\ x.text \in Seq(Spots)
  BY DEF CCPlace, CCPart, ResultParts, Places
<1>5. <<>> \in Seq(Spots)
  BY EmptySeq
<1>6. \A x \in AnyPart : CCPlace[x] = PlaceIn[x] /\ PlaceIn[x] \in Seq(Spots)
  BY <1>2, PlaceInMaps DEF PlaceIn, Maps
<1>7. Maps(CCPlace, CCPart, Spots)
  BY <1>3, <1>4, <1>5, <1>6 DEF Maps, CCPart
<1>8. \A x \in CCPart : CCPlace[x] = Places(x)
  BY <1>2, <1>3, <1>4 DEF CCPart
<1> QED BY <1>3, <1>4, <1>6, <1>7, <1>8

\* The places of parts, whether they are read as what is said or as what is sent.
LEMMA PlacesMapped ==
  /\ \A ps \in Seq(CCPart) : FlatMap(ps, Places) = Mapped(ps, CCPlace)
  /\ \A ps \in Seq(AnyPart) : /\ Mapped(ps, CCPlace) = PlacesOf(ps)
                              /\ FlatMap(ps, Places) = PlacesOf(ps)
<1>1. ASSUME NEW ps \in Seq(CCPart) PROVE FlatMap(ps, Places) = Mapped(ps, CCPlace)
  <2>1. \A i \in DOMAIN ps : ps[i] \in CCPart
    BY ElementOfSeq, LenProperties
  <2>2. [i \in DOMAIN ps |-> Places(ps[i])] = ImagesOf(ps, CCPlace)
    BY <2>1, CCPlaceMaps DEF ImagesOf
  <2> QED BY <2>2 DEF FlatMap, Mapped
<1>2. ASSUME NEW ps \in Seq(AnyPart) PROVE Mapped(ps, CCPlace) = PlacesOf(ps)
  <2>1. \A i \in DOMAIN ps : ps[i] \in AnyPart
    BY ElementOfSeq, LenProperties
  <2>2. \A i \in DOMAIN ps : CCPlace[ps[i]] = PlaceIn[ps[i]]
    BY <2>1, CCPlaceMaps
  <2> QED BY <2>2, MappedSame DEF PlacesOf
<1>3. \A ps \in Seq(AnyPart) : ps \in Seq(CCPart)
  BY AnyPartsAreCC
<1> QED BY <1>1, <1>2, <1>3

\* The places of parts without images are their text, and the empty texts have none.
LEMMA PlacesOfTexts ==
  \A ps \in Seq(AnyPart) : /\ ImagesIn(ps) = <<>> => PlacesOf(ps) = TextOf(ps)
                           /\ PlacesOf(Select(ps, Full)) = PlacesOf(ps)
                           /\ PlacesOf(ps) \in Seq(Spots)
<1>1. ASSUME NEW ps \in Seq(AnyPart), ImagesIn(ps) = <<>> PROVE PlacesOf(ps) = TextOf(ps)
  <2>1. ToSet(ps) \cap Images = {}
    <3>1. ToSet(ImagesIn(ps)) = ToSet(ps) \cap Images
      BY SelectElements DEF ImagesIn
    <3>2. ToSet(<<>>) = {}
      BY DEF ToSet
    <3> QED BY <1>1, <3>1, <3>2
  <2>2. \A i \in DOMAIN ps : ps[i] \in AnyPart /\ ps[i] \notin Images
    BY <2>1, ElementOfSeq, LenProperties DEF ToSet
  <2>3. \A i \in DOMAIN ps : PlaceIn[ps[i]] = TextIn[ps[i]]
    BY <2>2, PartType DEF PlaceIn, TextIn
  <2> QED BY <2>3, MappedSame DEF PlacesOf, TextOf
<1>2. ASSUME NEW ps \in Seq(AnyPart) PROVE PlacesOf(Select(ps, Full)) = PlacesOf(ps)
  <2>1. \A q \in AnyPart : q \notin Full => PlaceIn[q] = <<>>
    BY DEF Full, PlaceIn, Text
  <2>2. PlaceIn = [q \in AnyPart |-> PlaceIn[q]]
    BY DEF PlaceIn
  <2>3. \A s \in Seq(AnyPart) : Mapped(Select(s, Full), PlaceIn) = Mapped(s, PlaceIn)
    BY <2>1, <2>2, PlaceInMaps, SelectIdle
  <2> QED BY <2>3 DEF PlacesOf
<1>3. \A ps \in Seq(AnyPart) : PlacesOf(ps) \in Seq(Spots)
  BY PlaceInMaps, MappedType DEF PlacesOf
<1> QED BY <1>1, <1>2, <1>3

LEMMA TextsHaveNoImages ==
  \A ps \in Seq(Texts) : ps \in Seq(AnyPart) /\ ImagesIn(ps) = <<>> /\ PlacesOf(ps) = TextOf(ps)
<1>1. ASSUME NEW ps \in Seq(Texts) PROVE ps \in Seq(AnyPart) /\ ImagesIn(ps) = <<>>
  <2>1. ps \in Seq(AnyPart)
    BY DEF AnyPart
  <2>2. Texts \cap Images = {}
    BY BlockTypes
  <2>3. Select(ps, Images) = <<>>
    BY <2>2, SelectKind
  <2> QED BY <2>1, <2>3 DEF ImagesIn
<1> QED BY <1>1, PlacesOfTexts

\* A result that is sent holds the places of what the tool returned; one that is not, none.
ResultPlaces(p) == [r \in AnyResult |-> IF r.id \in p THEN PlacesOf(r.parts) ELSE <<>>]

LEMMA ResultPlacesMaps ==
  ASSUME NEW p
  PROVE  Maps(ResultPlaces(p), AnyResult, Spots)
<1>1. \A r \in AnyResult : r.parts \in Seq(AnyPart)
  BY DEF AnyResult
<1>2. \A r \in AnyResult : PlacesOf(r.parts) \in Seq(Spots)
  BY <1>1, PlacesOfTexts
<1> QED BY <1>2, EmptySeq DEF Maps, ResultPlaces

LEMMA ResultPlacesSent ==
  ASSUME NEW p, NEW nm, Naming(p, nm), NEW r \in AnyResult,
         NEW n \in Nat, NEW j \in Nat, j # 0, Returned(r.parts, n, j)
  PROVE  Mapped(ResultPieces(p, nm)[r], CCPlace) = ResultPlaces(p)[r]
<1>1. CASE r.id \notin p
  <2>1. ResultPieces(p, nm)[r] = <<>> /\ ResultPlaces(p)[r] = <<>>
    BY <1>1 DEF ResultPieces, ResultPlaces
  <2> QED BY <2>1, MappedEmpty
<1>2. CASE r.id \in p
  <2> DEFINE part == ResultPart(r, nm)
             images == ImagesIn(r.parts)
  <2>1. r.parts \in Seq(AnyPart)
    BY DEF AnyResult
  <2>2. /\ ResultPieces(p, nm)[r] = <<part>> \o images
        /\ ResultPlaces(p)[r] = PlacesOf(r.parts)
    BY <1>2 DEF ResultPieces, ResultPlaces
  <2>3. PlacesOf(r.parts) = TextOf(r.parts) \o PlacesOf(images)
    BY <2>1, ReturnedPlaces
  <2>4. part \in ResultParts /\ part \in CCPart /\ part.text = TextOf(r.parts)
    BY <1>2, ResultPartType DEF ResultPart
  <2>5. images \in Seq(AnyPart) /\ images \in Seq(CCPart)
    BY <2>1, PartsType, AnyPartsAreCC
  <2> HIDE DEF part, images
  <2>6. CCPlace[part] = TextOf(r.parts) /\ Maps(CCPlace, CCPart, Spots)
    BY <2>4, CCPlaceMaps
  <2>7. Mapped(<<part>>, CCPlace) = CCPlace[part]
    BY <2>4, <2>6, MappedOne
  <2>8. Mapped(images, CCPlace) = PlacesOf(images)
    BY <2>5, PlacesMapped
  <2>9. <<part>> \in Seq(CCPart)
    BY <2>4
  <2>10. \A s, u \in Seq(CCPart) : Mapped(s \o u, CCPlace) = Mapped(s, CCPlace) \o Mapped(u, CCPlace)
    BY <2>6, MappedConcat
  <2>11. Mapped(<<part>> \o images, CCPlace) = Mapped(<<part>>, CCPlace) \o Mapped(images, CCPlace)
    BY <2>5, <2>9, <2>10
  <2> QED BY <2>2, <2>3, <2>6, <2>7, <2>8, <2>11
<1> QED BY <1>1, <1>2

LEMMA ResultsPlacesSent ==
  ASSUME NEW p, NEW nm, Naming(p, nm), NEW rs \in Seq(AnyResult), NEW n \in Nat,
         \A j \in 1..Len(rs) : Returned(rs[j].parts, n, j)
  PROVE  Mapped(Mapped(rs, ResultPieces(p, nm)), CCPlace) = Mapped(rs, ResultPlaces(p))
<1> DEFINE G == [r \in AnyResult |-> Mapped(ResultPieces(p, nm)[r], CCPlace)]
<1>1. Maps(ResultPieces(p, nm), AnyResult, CCPart) /\ Maps(CCPlace, CCPart, Spots)
  BY TurnPiecesSent, CCPlaceMaps
<1>2. \A s \in Seq(AnyResult) : Mapped(Mapped(s, ResultPieces(p, nm)), CCPlace) = Mapped(s, G)
  BY <1>1, MappedMapped
<1>3. \A j \in DOMAIN rs : rs[j] \in AnyResult /\ j \in Nat /\ j # 0 /\ j \in 1..Len(rs)
  BY ElementOfSeq, LenProperties
<1>4. ASSUME NEW j \in DOMAIN rs PROVE G[rs[j]] = ResultPlaces(p)[rs[j]]
  <2> DEFINE r == rs[j]
  <2>1. r \in AnyResult /\ j \in Nat /\ j # 0 /\ Returned(r.parts, n, j)
    BY <1>3
  <2> HIDE DEF r
  <2>2. Mapped(ResultPieces(p, nm)[r], CCPlace) = ResultPlaces(p)[r]
    BY <2>1, ResultPlacesSent
  <2> QED BY <2>1, <2>2 DEF r
<1> HIDE DEF G
<1>5. Mapped(rs, G) = Mapped(rs, ResultPlaces(p))
  BY <1>4, MappedSame
<1> QED BY <1>2, <1>5

\* Places of turn n: of results if k is 0, of the turn's own parts if it is 1.
At(n, k, ps) == \A x \in ToSet(ps) : x[1] = n /\ x[2] = k

LEMMA SpotsBefore ==
  ASSUME NEW n \in Nat, NEW i \in Nat, NEW j \in Nat, i < j,
         NEW x, x = TextSpot(n, i) \/ x = ImageSpot(n, i),
         NEW y, y = TextSpot(n, j) \/ y = ImageSpot(n, j)
  PROVE  Before(x, y)
<1>1. x[1] = n /\ x[2] = 0 /\ (x[3] = 2 * i - 1 \/ x[3] = 2 * i)
  BY DEF TextSpot, ImageSpot
<1>2. y[1] = n /\ y[2] = 0 /\ (y[3] = 2 * j - 1 \/ y[3] = 2 * j)
  BY DEF TextSpot, ImageSpot
<1>3. x[3] < y[3]
  BY <1>1, <1>2
<1> QED BY <1>1, <1>2, <1>3 DEF Before

\* The results of a turn: in the order of the calls.
LEMMA ResultsPlaces ==
  ASSUME NEW p, NEW rs \in Seq(AnyResult), NEW n \in Nat,
         \A j \in 1..Len(rs) : Returned(rs[j].parts, n, j),
         NEW ps, ps = Mapped(rs, ResultPlaces(p))
  PROVE  /\ ps \in Seq(Spots) /\ Increases(ps) /\ At(n, 0, ps)
         /\ ToSet(ps) = UNION {ToSet(PlacesOf(rs[j].parts)) :
                                  j \in {k \in 1..Len(rs) : rs[k].id \in p}}
<1> DEFINE F == ResultPlaces(p)
<1>1. Maps(F, AnyResult, Spots)
  BY ResultPlacesMaps
<1>2. \A j \in 1..Len(rs) : j \in Nat /\ j # 0 /\ rs[j] \in AnyResult /\ rs[j].parts \in Seq(AnyPart)
  <2>1. \A j \in 1..Len(rs) : rs[j] \in AnyResult
    BY ElementOfSeq
  <2> QED BY <2>1, LenProperties DEF AnyResult
<1>3. \A j \in 1..Len(rs) : F[rs[j]] = IF rs[j].id \in p THEN PlacesOf(rs[j].parts) ELSE <<>>
  BY <1>2 DEF ResultPlaces
<1>4. Increases(<<>>) /\ ToSet(<<>>) = {}
  BY DEF Increases, ToSet
<1>5. ASSUME NEW j \in 1..Len(rs)
      PROVE  /\ Increases(F[rs[j]])
             /\ \A x \in ToSet(F[rs[j]]) : x = TextSpot(n, j) \/ x = ImageSpot(n, j)
  <2> DEFINE parts == rs[j].parts
  <2>1. j \in Nat /\ j # 0 /\ parts \in Seq(AnyPart) /\ Returned(parts, n, j)
    BY <1>2
  <2> HIDE DEF parts
  <2>2. /\ Increases(PlacesOf(parts))
        /\ \A x \in ToSet(PlacesOf(parts)) : x = TextSpot(n, j) \/ x = ImageSpot(n, j)
    BY <2>1, ReturnedPlaces
  <2>3. F[rs[j]] = PlacesOf(parts) \/ F[rs[j]] = <<>>
    BY <1>3 DEF parts
  <2> QED BY <1>4, <2>2, <2>3
<1> HIDE DEF F
<1>6. ps = Mapped(rs, F)
  BY DEF F
<1>7. ps \in Seq(Spots)
  BY <1>1, <1>6, MappedType
<1>8. Increases(ps)
  <2>1. ASSUME NEW i \in 1..Len(rs), NEW k \in 1..Len(rs), i < k
        PROVE  \A x \in ToSet(F[rs[i]]), y \in ToSet(F[rs[k]]) : Before(x, y)
    BY <1>2, <1>5, <2>1, SpotsBefore
  <2> QED BY <1>1, <1>5, <1>6, <2>1, IncreasesMapped
<1>9. ToSet(ps) = UNION {ToSet(F[rs[j]]) : j \in 1..Len(rs)}
  BY <1>1, <1>6, MappedElements
<1>10. At(n, 0, ps)
  <2> SUFFICES ASSUME NEW x \in ToSet(ps) PROVE x[1] = n /\ x[2] = 0
    BY DEF At
  <2>1. PICK j \in 1..Len(rs) : x \in ToSet(F[rs[j]])
    BY <1>9
  <2>2. x = TextSpot(n, j) \/ x = ImageSpot(n, j)
    BY <1>5, <2>1
  <2> QED BY <2>2 DEF TextSpot, ImageSpot
<1>11. ASSUME NEW x PROVE x \in ToSet(ps) <=> \E j \in 1..Len(rs) : rs[j].id \in p /\ x \in ToSet(PlacesOf(rs[j].parts))
  <2>1. x \in ToSet(ps) <=> \E j \in 1..Len(rs) : x \in ToSet(F[rs[j]])
    BY <1>9
  <2>2. \A j \in 1..Len(rs) : x \in ToSet(F[rs[j]]) <=> rs[j].id \in p /\ x \in ToSet(PlacesOf(rs[j].parts))
    BY <1>3, <1>4
  <2> QED BY <2>1, <2>2
<1>12. ToSet(ps) = UNION {ToSet(PlacesOf(rs[j].parts)) : j \in {k \in 1..Len(rs) : rs[k].id \in p}}
  BY <1>11
<1> QED BY <1>7, <1>8, <1>10, <1>12

\* What a turn says itself is sent as it was said.
LEMMA OwnPlaces ==
  ASSUME NEW p, NEW t \in LegalTurn, NEW n, SaidIn(t, n)
  PROVE  Mapped(OwnParts(t, p), CCPlace) = IF t.role = "system" THEN <<>> ELSE PlacesOf(t.parts)
<1>1. /\ t.role \in {"system", "user", "assistant"}
      /\ t.calls \in Seq(AnyCall) /\ t.parts \in Seq(AnyPart)
  BY LegalParts
<1>2. Maps(CCPlace, CCPart, Spots) /\ TextOf(t.parts) \in Seq(Spots)
  BY <1>1, CCPlaceMaps, PartsType
<1>3. \A s \in Seq(Spots) : Mapped(<<Text(s)>>, CCPlace) = s
  <2> SUFFICES ASSUME NEW s \in Seq(Spots) PROVE Mapped(<<Text(s)>>, CCPlace) = s
    OBVIOUS
  <2>1. Text(s) \in AnyPart /\ Text(s) \in CCPart /\ Text(s).type = "text" /\ Text(s).text = s
    BY OneText DEF Text, CCPart
  <2>2. CCPlace[Text(s)] = s
    BY <2>1 DEF CCPlace
  <2> QED BY <1>2, <2>1, <2>2, MappedOne
<1>4. CASE t.role = "system"
  <2>1. OwnParts(t, p) = <<>>
    BY <1>4 DEF OwnParts
  <2> QED BY <1>4, <2>1, MappedEmpty
<1>5. CASE t.role = "user"
  <2>1. CASE t.parts = <<>>
    <3>1. OwnParts(t, p) = <<>> /\ PlacesOf(t.parts) = <<>>
      BY <1>5, <2>1, MappedEmpty DEF OwnParts, PlacesOf
    <3> QED BY <1>5, <3>1, MappedEmpty
  <2>2. CASE t.parts # <<>> /\ ImagesIn(t.parts) = <<>>
    <3>1. OwnParts(t, p) = <<Text(TextOf(t.parts))>>
      BY <1>5, <2>2 DEF OwnParts, UserCC
    <3>2. PlacesOf(t.parts) = TextOf(t.parts)
      BY <1>1, <2>2, PlacesOfTexts
    <3> QED BY <1>2, <1>3, <1>5, <3>1, <3>2
  <2>3. CASE t.parts # <<>> /\ ImagesIn(t.parts) # <<>>
    <3>1. OwnParts(t, p) = Select(t.parts, Full)
      BY <1>5, <2>3 DEF OwnParts, UserCC
    <3>2. Select(t.parts, Full) \in Seq(AnyPart) /\ PlacesOf(Select(t.parts, Full)) = PlacesOf(t.parts)
      BY <1>1, FullParts, PlacesOfTexts
    <3> QED BY <1>5, <3>1, <3>2, PlacesMapped
  <2> QED BY <2>1, <2>2, <2>3
<1>6. CASE t.role = "assistant"
  <2> DEFINE s == TextOf(t.parts)
             a == IF s # <<>> THEN <<Text(s)>> ELSE <<>>
             b == Mapped(t.calls, CallCC(p))
  <2>1. OwnParts(t, p) = a \o b
    BY <1>6 DEF OwnParts, AssistantParts
  <2>2. t.parts \in Seq(Texts)
    BY <1>6 DEF SaidIn
  <2>3. PlacesOf(t.parts) = s
    BY <2>2, TextsHaveNoImages
  <2>4. a \in Seq(CCPart) /\ Mapped(a, CCPlace) = s
    <3>1. <<Text(s)>> \in Seq(CCPart) /\ <<>> \in Seq(CCPart)
      BY <1>2, OneText, AnyPartsAreCC, EmptySeq
    <3>2. Mapped(<<Text(s)>>, CCPlace) = s /\ Mapped(<<>>, CCPlace) = <<>>
      BY <1>2, <1>3, MappedEmpty
    <3> QED BY <3>1, <3>2
  <2>5. b \in Seq(CCPart) /\ Mapped(b, CCPlace) = <<>>
    <3>1. Maps(CallCC(p), AnyCall, CallParts) /\ Maps(CallCC(p), AnyCall, CCPart)
      BY CallCCMaps
    <3>2. b \in Seq(CallParts) /\ b \in Seq(CCPart)
      BY <1>1, <3>1, MappedType
    <3> HIDE DEF b
    <3>3. \A i \in 1..Len(b) : b[i] \in CallParts
      BY <3>2, ElementOfSeq
    <3>4. \A i \in 1..Len(b) : CCPlace[b[i]] = <<>>
      BY <3>3, CCPlaceMaps
    <3> QED BY <1>2, <3>2, <3>4, MappedNone
  <2> HIDE DEF a, b, s
  <2>6. \A x, y \in Seq(CCPart) : Mapped(x \o y, CCPlace) = Mapped(x, CCPlace) \o Mapped(y, CCPlace)
    BY <1>2, MappedConcat
  <2>7. Mapped(a \o b, CCPlace) = s \o <<>>
    BY <2>4, <2>5, <2>6
  <2>8. s \o <<>> = s
    BY <1>2, ConcatEmptySeq DEF s
  <2> QED BY <1>6, <2>1, <2>3, <2>7, <2>8
<1> QED BY <1>1, <1>4, <1>5, <1>6

\* The places that are sent of a turn, system turns apart.
TurnPlaces(p) == [t \in LegalTurn |->
    IF t.role = "system" THEN <<>> ELSE Mapped(t.results, ResultPlaces(p)) \o PlacesOf(t.parts)]

\* The places of a turn without those of the results whose calls are not in p.
Kept(t, p) == ToSet(PlacesOf(t.parts))
                \cup UNION {ToSet(PlacesOf(t.results[j].parts)) :
                               j \in {k \in 1..Len(t.results) : t.results[k].id \in p}}

\* s is a list of places of turn n, in order.
InTurn(s, n) == Increases(s) /\ \A x \in ToSet(s) : x[1] = n

LEMMA NoPlaces == \A n : InTurn(<<>>, n) /\ ToSet(<<>>) = {}
  BY DEF InTurn, Increases, ToSet

LEMMA TurnPlacesMaps ==
  ASSUME NEW p
  PROVE  Maps(TurnPlaces(p), LegalTurn, Spots)
<1> SUFFICES ASSUME NEW t \in LegalTurn PROVE TurnPlaces(p)[t] \in Seq(Spots)
  BY DEF Maps
<1>1. t.results \in Seq(AnyResult) /\ t.parts \in Seq(AnyPart)
  BY LegalParts
<1>2. Mapped(t.results, ResultPlaces(p)) \in Seq(Spots)
  BY <1>1, ResultPlacesMaps, MappedType
<1>3. PlacesOf(t.parts) \in Seq(Spots)
  BY <1>1, PlacesOfTexts
<1>4. Mapped(t.results, ResultPlaces(p)) \o PlacesOf(t.parts) \in Seq(Spots)
  BY <1>2, <1>3, ConcatProperties
<1> QED BY <1>4, EmptySeq DEF TurnPlaces

LEMMA TurnPlacesAre ==
  ASSUME NEW p, NEW t \in LegalTurn, NEW n \in Nat, SaidIn(t, n)
  PROVE  /\ InTurn(TurnPlaces(p)[t], n)
         /\ t.role # "system" => ToSet(TurnPlaces(p)[t]) = Kept(t, p)
<1>1. CASE t.role = "system"
  <2>1. TurnPlaces(p)[t] = <<>>
    BY <1>1 DEF TurnPlaces
  <2> QED BY <1>1, <2>1, NoPlaces
<1>2. CASE t.role # "system"
  <2> DEFINE rs == t.results
             a == Mapped(rs, ResultPlaces(p))
             b == PlacesOf(t.parts)
  <2>1. TurnPlaces(p)[t] = a \o b
    BY <1>2 DEF TurnPlaces
  <2>2. rs \in Seq(AnyResult) /\ t.parts \in Seq(AnyPart) /\ \A j \in 1..Len(rs) : Returned(rs[j].parts, n, j)
    BY LegalParts DEF SaidIn
  <2>3. /\ a \in Seq(Spots) /\ Increases(a) /\ At(n, 0, a)
        /\ ToSet(a) = UNION {ToSet(PlacesOf(rs[j].parts)) : j \in {k \in 1..Len(rs) : rs[k].id \in p}}
    <3> HIDE DEF rs
    <3> QED BY <2>2, ResultsPlaces
  <2>4. b \in Seq(Spots) /\ Increases(b) /\ At(n, 1, b)
    BY <2>2, PlacesOfTexts DEF SaidIn, Spoken, At
  <2> HIDE DEF a, b, rs
  <2>5. \A x \in ToSet(a), y \in ToSet(b) : Before(x, y)
    BY <2>3, <2>4 DEF At, Before
  <2>6. Increases(a \o b)
    BY <2>3, <2>4, <2>5, IncreasesConcat
  <2>7. ToSet(a \o b) = ToSet(a) \cup ToSet(b)
    BY <2>3, <2>4, ConcatElements
  <2>8. InTurn(a \o b, n)
    BY <2>3, <2>4, <2>6, <2>7 DEF At, InTurn
  <2>9. ToSet(a \o b) = Kept(t, p)
    BY <2>3, <2>7 DEF Kept, b, rs
  <2> QED BY <2>1, <2>8, <2>9
<1> QED BY <1>1, <1>2

LEMMA TurnPlacesSent ==
  ASSUME NEW p, NEW nm, Naming(p, nm), NEW t \in LegalTurn, NEW n \in Nat, SaidIn(t, n)
  PROVE  Mapped(TurnPieces(p, nm)[t], CCPlace) = TurnPlaces(p)[t]
<1> DEFINE rs == t.results
           a == Mapped(rs, ResultPieces(p, nm))
           b == OwnParts(t, p)
<1>1. TurnPieces(p, nm)[t] = a \o b
  BY DEF TurnPieces
<1>2. rs \in Seq(AnyResult) /\ t.parts \in Seq(AnyPart) /\ \A j \in 1..Len(rs) : Returned(rs[j].parts, n, j)
  BY LegalParts DEF SaidIn
<1>3. a \in Seq(CCPart) /\ Mapped(a, CCPlace) = Mapped(rs, ResultPlaces(p))
  <2>1. a \in Seq(CCPart)
    BY <1>2, TurnPiecesSent, MappedType
  <2> HIDE DEF rs
  <2>2. Mapped(a, CCPlace) = Mapped(rs, ResultPlaces(p))
    BY <1>2, ResultsPlacesSent
  <2> QED BY <2>1, <2>2
<1>4. b \in Seq(CCPart)
  BY OwnCalls
<1>5. Mapped(b, CCPlace) = IF t.role = "system" THEN <<>> ELSE PlacesOf(t.parts)
  BY OwnPlaces
<1> HIDE DEF a, b
<1>6. \A x, y \in Seq(CCPart) : Mapped(x \o y, CCPlace) = Mapped(x, CCPlace) \o Mapped(y, CCPlace)
  BY CCPlaceMaps, MappedConcat
<1>7. Mapped(a \o b, CCPlace) = Mapped(rs, ResultPlaces(p)) \o Mapped(b, CCPlace)
  BY <1>3, <1>4, <1>6
<1>8. CASE t.role = "system"
  <2>1. rs = <<>>
    BY <1>8 DEF LegalTurn
  <2>2. Mapped(rs, ResultPlaces(p)) = <<>> /\ Mapped(b, CCPlace) = <<>>
    BY <1>5, <1>8, <2>1, MappedEmpty
  <2>3. <<>> \o <<>> = <<>>
    BY EmptySeq, ConcatEmptySeq
  <2> QED BY <1>1, <1>7, <1>8, <2>2, <2>3 DEF TurnPlaces
<1>9. CASE t.role # "system"
  BY <1>1, <1>5, <1>7, <1>9 DEF TurnPlaces
<1> QED BY <1>8, <1>9

\* Turns that follow each other: their places do, too.
LEMMA TurnsInOrder ==
  ASSUME NEW q, NEW n, History(q, n), NEW F, Maps(F, LegalTurn, Spots),
         \A t \in LegalTurn : \A k \in Nat : SaidIn(t, k) => InTurn(F[t], k)
  PROVE  /\ Increases(Mapped(q, F))
         /\ ToSet(Mapped(q, F)) = UNION {ToSet(F[q[i]]) : i \in 1..Len(q)}
<1>1. q \in Seq(LegalTurn) /\ Len(q) \in Nat /\ n \in Nat /\ Len(q) <= n
  BY LenProperties DEF History
<1>2. ASSUME NEW i \in 1..Len(q) PROVE InTurn(F[q[i]], n - Len(q) + i)
  <2>1. q[i] \in LegalTurn /\ SaidIn(q[i], n - Len(q) + i)
    BY <1>1, ElementOfSeq DEF History
  <2>2. n - Len(q) + i \in Nat
    BY <1>1
  <2> QED BY <2>1, <2>2
<1>3. \A i \in 1..Len(q) : Increases(F[q[i]])
  BY <1>2 DEF InTurn
<1>4. ASSUME NEW i \in 1..Len(q), NEW k \in 1..Len(q), i < k,
             NEW x \in ToSet(F[q[i]]), NEW y \in ToSet(F[q[k]])
      PROVE  Before(x, y)
  <2>1. x[1] = n - Len(q) + i /\ y[1] = n - Len(q) + k
    BY <1>2 DEF InTurn
  <2>2. x[1] < y[1]
    BY <1>1, <1>4, <2>1
  <2> QED BY <2>2 DEF Before
<1>5. Increases(Mapped(q, F))
  BY <1>1, <1>3, <1>4, IncreasesMapped
<1> QED BY <1>1, <1>5, MappedElements

\* The body of a request for a history.
LEMMA BodyIs ==
  ASSUME NEW q, NEW n, History(q, n), NEW p, p = PairedIn(q),
         NEW body, body = FlatMap(CCParts(Translation(q).messages), Places)
  PROVE  /\ Increases(body)
         /\ ToSet(body) = UNION {Kept(q[i], p) : i \in {k \in 1..Len(q) : q[k].role # "system"}}
<1> DEFINE nm == NamesIn(q)
           G == TurnPieces(p, nm)
           F == TurnPlaces(p)
<1>1. q \in Seq(LegalTurn) /\ IdsInv(q) /\ Naming(p, nm)
  BY PairedAre DEF History, IdsInv
<1>2. Maps(G, LegalTurn, CCPart) /\ Maps(CCPlace, CCPart, Spots) /\ Maps(F, LegalTurn, Spots)
  BY <1>1, TurnPiecesSent, CCPlaceMaps, TurnPlacesMaps
<1>3. CCParts(Translation(q).messages) = Mapped(q, G) /\ Mapped(q, G) \in Seq(CCPart)
  BY <1>1, <1>2, RequestParts, MappedType
<1> HIDE DEF nm, F, G
<1>4. body = Mapped(Mapped(q, G), CCPlace)
  BY <1>3, PlacesMapped
<1> DEFINE H == [t \in LegalTurn |-> Mapped(G[t], CCPlace)]
<1>5. Mapped(Mapped(q, G), CCPlace) = Mapped(q, H)
  BY <1>1, <1>2, MappedMapped
<1>6. ASSUME NEW i \in 1..Len(q)
      PROVE  q[i] \in LegalTurn /\ \E k \in Nat : SaidIn(q[i], k)
  <2>1. /\ q[i] \in LegalTurn /\ SaidIn(q[i], n - Len(q) + i)
        /\ n \in Nat /\ Len(q) \in Nat /\ Len(q) <= n
    BY <1>1, ElementOfSeq, LenProperties DEF History
  <2>2. n - Len(q) + i \in Nat
    BY <2>1
  <2> QED BY <2>1, <2>2
<1>7. \A i \in DOMAIN q : H[q[i]] = F[q[i]]
  <2> SUFFICES ASSUME NEW i \in DOMAIN q PROVE H[q[i]] = F[q[i]]
    OBVIOUS
  <2>1. i \in 1..Len(q)
    BY <1>1, LenProperties
  <2>2. PICK k \in Nat : SaidIn(q[i], k)
    BY <1>6, <2>1
  <2>3. q[i] \in LegalTurn
    BY <1>6, <2>1
  <2>4. Mapped(TurnPieces(p, nm)[q[i]], CCPlace) = TurnPlaces(p)[q[i]]
    BY <1>1, <2>2, <2>3, TurnPlacesSent
  <2> QED BY <2>3, <2>4 DEF F, G
<1> HIDE DEF H
<1>8. body = Mapped(q, F)
  BY <1>4, <1>5, <1>7, MappedSame
<1>9. /\ \A t \in LegalTurn : \A k \in Nat : SaidIn(t, k) => InTurn(F[t], k)
      /\ \A t \in LegalTurn : \A k \in Nat : SaidIn(t, k) /\ t.role # "system" => ToSet(F[t]) = Kept(t, p)
  BY TurnPlacesAre DEF F
<1>10. Increases(body) /\ ToSet(body) = UNION {ToSet(F[q[i]]) : i \in 1..Len(q)}
  BY <1>2, <1>8, <1>9, TurnsInOrder
<1>11. ASSUME NEW i \in 1..Len(q)
       PROVE  ToSet(F[q[i]]) = IF q[i].role = "system" THEN {} ELSE Kept(q[i], p)
  <2>1. CASE q[i].role = "system"
    <3>1. F[q[i]] = <<>>
      BY <1>6, <2>1 DEF F, TurnPlaces
    <3> QED BY <2>1, <3>1, NoPlaces
  <2>2. CASE q[i].role # "system"
    <3>1. PICK k \in Nat : SaidIn(q[i], k)
      BY <1>6
    <3> QED BY <1>6, <1>9, <2>2, <3>1
  <2> QED BY <2>1, <2>2
<1>12. ASSUME NEW x
       PROVE  x \in ToSet(body) <=> \E i \in 1..Len(q) : q[i].role # "system" /\ x \in Kept(q[i], p)
  <2>1. x \in ToSet(body) <=> \E i \in 1..Len(q) : x \in ToSet(F[q[i]])
    BY <1>10
  <2>2. \A i \in 1..Len(q) : x \in ToSet(F[q[i]]) <=> q[i].role # "system" /\ x \in Kept(q[i], p)
    BY <1>11
  <2> QED BY <2>1, <2>2
<1>13. ToSet(body) = UNION {Kept(q[i], p) : i \in {k \in 1..Len(q) : q[k].role # "system"}}
  BY <1>12
<1> QED BY <1>10, <1>13

\* The system texts of a request for a history.
LEMMA SystemIs ==
  ASSUME NEW q, NEW n, History(q, n), NEW p, NEW system, system = Translation(q).system
  PROVE  /\ Increases(system)
         /\ ToSet(system) = UNION {Kept(q[i], p) : i \in {k \in 1..Len(q) : q[k].role = "system"}}
<1>1. q \in Seq(LegalTurn) /\ system = Mapped(q, TurnSystem) /\ Maps(TurnSystem, LegalTurn, Spots)
  BY TurnMaps DEF History, Translation
<1>2. ASSUME NEW t \in LegalTurn, t.role = "system"
      PROVE  TurnSystem[t] = PlacesOf(t.parts) /\ ToSet(TurnSystem[t]) = Kept(t, p)
  <2>1. t.results = <<>> /\ t.parts \in Seq(Texts)
    BY <1>2 DEF LegalTurn
  <2>2. TurnSystem[t] = PlacesOf(t.parts)
    BY <1>2, <2>1, TextsHaveNoImages DEF TurnSystem
  <2>3. UNION {ToSet(PlacesOf(t.results[j].parts)) : j \in {k \in 1..Len(t.results) : t.results[k].id \in p}} = {}
    BY <2>1, NoneHere
  <2> QED BY <2>2, <2>3 DEF Kept
<1>3. \A t \in LegalTurn : t.role # "system" => TurnSystem[t] = <<>>
  BY DEF TurnSystem
<1>4. ASSUME NEW t \in LegalTurn, NEW k \in Nat, SaidIn(t, k) PROVE InTurn(TurnSystem[t], k)
  <2>1. CASE t.role = "system"
    BY <1>2, <1>4, <2>1 DEF SaidIn, Spoken, InTurn
  <2>2. CASE t.role # "system"
    BY <1>3, <2>2, NoPlaces
  <2> QED BY <2>1, <2>2
<1>5. Increases(system) /\ ToSet(system) = UNION {ToSet(TurnSystem[q[i]]) : i \in 1..Len(q)}
  BY <1>1, <1>4, TurnsInOrder
<1>6. \A i \in 1..Len(q) : q[i] \in LegalTurn
  BY <1>1, ElementOfSeq
<1>7. ASSUME NEW x
      PROVE  x \in ToSet(system) <=> \E i \in 1..Len(q) : q[i].role = "system" /\ x \in Kept(q[i], p)
  <2>1. x \in ToSet(system) <=> \E i \in 1..Len(q) : x \in ToSet(TurnSystem[q[i]])
    BY <1>5
  <2>2. \A i \in 1..Len(q) : x \in ToSet(TurnSystem[q[i]]) <=> q[i].role = "system" /\ x \in Kept(q[i], p)
    BY <1>2, <1>3, <1>6, NoPlaces
  <2> QED BY <2>1, <2>2
<1>8. ToSet(system) = UNION {Kept(q[i], p) : i \in {k \in 1..Len(q) : q[k].role = "system"}}
  BY <1>7
<1> QED BY <1>5, <1>8

\* A result that is remembered is sent if its call is remembered.
LEMMA KeptIs ==
  ASSUME NEW q \in Seq(LegalTurn), UniqueCalls(q), NEW i \in 1..Len(q),
         NEW called, called = UNION {IdsOf(q[k].calls) : k \in DOMAIN q}
  PROVE  ToSet(FlatMap(q[i].parts, Places))
           \cup UNION {ToSet(FlatMap(q[i].results[j].parts, Places)) :
                          j \in {k \in DOMAIN q[i].results : q[i].results[k].id \in called}}
           = Kept(q[i], PairedIn(q))
<1> DEFINE t == q[i]
           p == PairedIn(q)
<1>1. \A k \in 1..Len(q) : q[k] \in LegalTurn /\ q[k].calls \in Seq(AnyCall)
  BY ElementOfSeq, LegalParts
<1>2. t \in LegalTurn /\ t.results \in Seq(AnyResult) /\ t.parts \in Seq(AnyPart)
  BY ElementOfSeq, LegalParts
<1>3. \A id : id \in called <=> Called(q, id)
  <2>1. \A k \in 1..Len(q) : IdsOf(q[k].calls) = {q[k].calls[j].id : j \in 1..Len(q[k].calls)}
    BY <1>1, LenProperties DEF IdsOf
  <2>2. DOMAIN q = 1..Len(q)
    BY LenProperties
  <2>3. \A id : id \in called <=> \E k \in 1..Len(q) : id \in IdsOf(q[k].calls)
    BY <2>2
  <2>4. ASSUME NEW id, NEW k \in 1..Len(q)
        PROVE  id \in IdsOf(q[k].calls) <=> \E j \in 1..Len(q[k].calls) : q[k].calls[j].id = id
    BY <2>1
  <2>5. ASSUME NEW id
        PROVE  id \in called <=> \E k \in 1..Len(q) : \E j \in 1..Len(q[k].calls) : q[k].calls[j].id = id
    BY <2>3, <2>4
  <2> QED BY <2>5 DEF Called
<1>4. DOMAIN t.results = 1..Len(t.results)
      /\ \A j \in 1..Len(t.results) : t.results[j] \in AnyResult /\ t.results[j].parts \in Seq(AnyPart)
  <2>1. \A j \in 1..Len(t.results) : t.results[j] \in AnyResult
    BY <1>2, ElementOfSeq
  <2>2. \A r \in AnyResult : r.parts \in Seq(AnyPart)
    BY DEF AnyResult
  <2> QED BY <1>2, <2>1, <2>2, LenProperties
<1>5. \A j \in 1..Len(t.results) : t.results[j].id \in called <=> t.results[j].id \in p
  <2>1. \A j \in 1..Len(t.results) : Answered(q, t.results[j].id)
    BY DEF Answered
  <2> QED BY <1>3, <2>1, PairedAre
<1>6. FlatMap(t.parts, Places) = PlacesOf(t.parts)
  BY <1>2, PlacesMapped
<1>7. \A j \in 1..Len(t.results) : FlatMap(t.results[j].parts, Places) = PlacesOf(t.results[j].parts)
  BY <1>4, PlacesMapped
<1> HIDE DEF t, p
<1>8. {k \in DOMAIN t.results : t.results[k].id \in called} = {k \in 1..Len(t.results) : t.results[k].id \in p}
  BY <1>4, <1>5
<1>9. UNION {ToSet(FlatMap(t.results[j].parts, Places)) : j \in {k \in 1..Len(t.results) : t.results[k].id \in p}}
        = UNION {ToSet(PlacesOf(t.results[j].parts)) : j \in {k \in 1..Len(t.results) : t.results[k].id \in p}}
  BY <1>7
<1>10. ToSet(FlatMap(t.parts, Places))
         \cup UNION {ToSet(FlatMap(t.results[j].parts, Places)) :
                        j \in {k \in DOMAIN t.results : t.results[k].id \in called}} = Kept(t, p)
  BY <1>6, <1>8, <1>9 DEF Kept
<1> QED BY <1>10 DEF t, p

LEMMA HistorySent == HistoryInv => NothingSaidIsLost
<1> DEFINE called  == UNION {IdsOf(said[i].calls) : i \in DOMAIN said}
           all(ps) == ToSet(FlatMap(ps, Places))
           kept(t) == all(t.parts) \cup UNION {all(t.results[j].parts) :
                           j \in {k \in DOMAIN t.results : t.results[k].id \in called}}
           body    == FlatMap(CCParts(sent.messages), Places)
           p       == PairedIn(said)
<1> SUFFICES ASSUME HistoryInv, awaiting
             PROVE  /\ Increases(body) /\ Increases(sent.system)
                    /\ ToSet(body) = UNION {kept(said[i]) : i \in {k \in DOMAIN said : said[k].role # "system"}}
                    /\ ToSet(sent.system) = UNION {kept(said[i]) : i \in {k \in DOMAIN said : said[k].role = "system"}}
  BY DEF NothingSaidIsLost
<1>1. /\ History(said, turns) /\ said \in Seq(LegalTurn) /\ UniqueCalls(said)
      /\ sent = Translation(said)
  BY DEF HistoryInv, SentInv, History, IdsInv
<1>2. DOMAIN said = 1..Len(said)
  BY <1>1, LenProperties
<1>3. \A i \in 1..Len(said) : kept(said[i]) = Kept(said[i], p)
  BY <1>1, KeptIs
<1>4. /\ Increases(body)
      /\ ToSet(body) = UNION {Kept(said[i], p) : i \in {k \in 1..Len(said) : said[k].role # "system"}}
  BY <1>1, BodyIs
<1>5. /\ Increases(sent.system)
      /\ ToSet(sent.system) = UNION {Kept(said[i], p) : i \in {k \in 1..Len(said) : said[k].role = "system"}}
  BY <1>1, SystemIs
<1> HIDE DEF kept, body, p
<1>6. ToSet(body) = UNION {kept(said[i]) : i \in {k \in DOMAIN said : said[k].role # "system"}}
  BY <1>2, <1>3, <1>4
<1>7. ToSet(sent.system) = UNION {kept(said[i]) : i \in {k \in DOMAIN said : said[k].role = "system"}}
  BY <1>2, <1>3, <1>5
<1> QED BY <1>4, <1>5, <1>6, <1>7

\* Everything the client remembers is in the request it awaits an answer to, once and in
\* the order it was said: flattening a turn to a string, lifting the system texts, putting
\* results before words and images after their result loses and reorders nothing, and only
\* the results of forgotten calls are pruned.
THEOREM AllIsSent == Spec => []NothingSaidIsLost
<1>1. HistoryInv => NothingSaidIsLost
  BY HistorySent
<1> QED BY <1>1, HistoryInvariant, PTL
=============================================================================
