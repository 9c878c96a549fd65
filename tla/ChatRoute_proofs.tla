-------------------------- MODULE ChatRoute_proofs --------------------------
(***************************************************************************)
(* For any content types, any number of retries and any number of lines    *)
(* per response: the safety properties of UpstreamStream, and that it      *)
(* implements StreamContract.  What the iterator promises its consumer     *)
(* holds of the whole request: the checks before it, a refusal, and the    *)
(* routes' way of consuming it keep its invariant and its contract.        *)
(***************************************************************************)
EXTENDS ChatRoute, TLAPS

(* UpstreamStream *)

\* What Next, the consumer and the open response have to do with each other.
Control ==
    /\ done => pc = "caller"
    /\ pc # "caller" => ret = "none"
    /\ consumer = "closed" => pc = "caller" /\ ret = "none"
    /\ BodyReleased

\* While the stream is live, content that is out comes from the open response,
\* and every attempt before the open one has sent a request.
Live ==
    ~done /\ consumer # "closed" =>
        /\ ContentHanded => produced
        /\ produced => reader
        /\ posts = IF reader \/ pc = "refused" THEN attempt + 1 ELSE attempt

\* The request that produced content is the last one.
ContentIsLatest ==
    \A i \in DOMAIN handed : IsContent(i) => handed[i].post = posts

IInv ==
    /\ TypeOK /\ Control /\ Live
    /\ attempt <= MaxRetries /\ AttemptsBounded
    /\ FailsBeforeContent
    /\ ContentIsLatest /\ OneResponse

-----------------------------------------------------------------------------
\* Handing out an event adds content only if the event is content.
LEMMA HandLemma ==
    ASSUME NEW e \in Events, IInv, Hand(e)
    PROVE  /\ handed' \in Seq([type : Events, post : Nat])
           /\ Len(handed') = Len(handed) + 1
           /\ \A i \in DOMAIN handed : handed'[i] = handed[i]
           /\ DOMAIN handed' = DOMAIN handed \cup {Len(handed) + 1}
           /\ handed'[Len(handed) + 1] = [type |-> e, post |-> posts]
  BY DEF Hand, IInv, TypeOK

\* An event of the open response keeps the histories consistent.
LEMMA HandKeeps ==
    ASSUME NEW e \in Events, IInv, Hand(e), posts' = posts
    PROVE  /\ handed' \in Seq([type : Events, post : Nat])
           /\ ContentIsLatest' /\ OneResponse'
           /\ ContentHanded' <=> (ContentHanded \/ e \in Content)
<1>1. /\ handed' \in Seq([type : Events, post : Nat])
      /\ \A i \in DOMAIN handed : handed'[i] = handed[i]
      /\ DOMAIN handed' = DOMAIN handed \cup {Len(handed) + 1}
      /\ handed'[Len(handed) + 1] = [type |-> e, post |-> posts]
  BY HandLemma
<1>2. ContentIsLatest'
  BY <1>1 DEF IInv, ContentIsLatest, IsContent
<1>3. OneResponse'
  <2> SUFFICES ASSUME NEW i \in DOMAIN handed', NEW j \in DOMAIN handed',
                      IsContent(i)', i < j
               PROVE  handed'[j].post = handed'[i].post
    BY DEF OneResponse
  <2>1. i \in DOMAIN handed
    BY <1>1 DEF IInv, TypeOK
  <2>2. CASE j \in DOMAIN handed
    BY <1>1, <2>1, <2>2 DEF IInv, OneResponse, IsContent
  <2>3. CASE j = Len(handed) + 1
    BY <1>1, <2>1, <2>3 DEF IInv, ContentIsLatest, IsContent
  <2> QED BY <1>1, <2>2, <2>3
<1>4. ContentHanded' <=> (ContentHanded \/ e \in Content)
  BY <1>1 DEF ContentHanded, IsContent
<1> QED BY <1>1, <1>2, <1>3, <1>4

LEMMA InitInv == Init => IInv
<1> SUFFICES ASSUME Init PROVE IInv
  OBVIOUS
<1>1. handed = <<>> /\ handed \in Seq([type : Events, post : Nat]) /\ DOMAIN handed = {}
  BY DEF Init
<1>2. TypeOK
  BY <1>1 DEF Init, TypeOK, Results
<1>3. Control /\ Live
  BY <1>1 DEF Init, Control, Live, BodyReleased, ContentHanded
<1>4. attempt <= MaxRetries /\ AttemptsBounded
  BY BoundsAssumption DEF Init, AttemptsBounded
<1>5. FailsBeforeContent /\ ContentIsLatest /\ OneResponse
  BY <1>1 DEF FailsBeforeContent, ContentHanded, ContentIsLatest, OneResponse
<1> QED BY <1>2, <1>3, <1>4, <1>5 DEF IInv

\* Steps that hand out nothing and send nothing leave the histories alone.
LEMMA SameHistory ==
    ASSUME IInv, UNCHANGED <<handed, posts>>
    PROVE  ContentIsLatest' /\ OneResponse' /\ AttemptsBounded'
           /\ (ContentHanded' <=> ContentHanded)
  BY DEF IInv, ContentIsLatest, OneResponse, AttemptsBounded, ContentHanded, IsContent

\* A request is sent only while no content is out.
LEMMA PostKeeps ==
    ASSUME IInv, pc = "loop", ~reader, posts' \in {posts, posts + 1}, UNCHANGED handed
    PROVE  /\ ~ContentHanded /\ ~ContentHanded'
           /\ ~produced /\ ~done /\ consumer # "closed" /\ posts = attempt
           /\ ContentIsLatest' /\ OneResponse' /\ AttemptsBounded'
<1>1. ~done /\ consumer # "closed"
  BY DEF IInv, Control
<1>2. ~produced /\ ~ContentHanded /\ posts = attempt
  BY <1>1 DEF IInv, Live
<1>3. ContentIsLatest' /\ ~ContentHanded'
  BY <1>2 DEF ContentIsLatest, ContentHanded, IsContent
<1>4. OneResponse'
  BY DEF IInv, OneResponse, IsContent
<1>5. AttemptsBounded'
  BY <1>2, BoundsAssumption DEF IInv, TypeOK, AttemptsBounded
<1> QED BY <1>1, <1>2, <1>3, <1>4, <1>5

-----------------------------------------------------------------------------
(* The invariant is inductive, one lemma for the steps of each kind *)

LEMMA CallInv == IInv /\ CallNext => IInv'
<1> SUFFICES ASSUME IInv, CallNext PROVE IInv'
  OBVIOUS
<1>1. ContentIsLatest' /\ OneResponse' /\ AttemptsBounded'
      /\ (ContentHanded' <=> ContentHanded)
  BY SameHistory DEF CallNext
<1>2. TypeOK'
  BY DEF IInv, TypeOK, CallNext, Results
<1>3. Control' /\ Live' /\ FailsBeforeContent'
  BY <1>1 DEF IInv, Control, Live, BodyReleased, FailsBeforeContent, CallNext
<1> QED BY <1>1, <1>2, <1>3 DEF IInv, CallNext

LEMMA OpenInv == IInv /\ Open => IInv'
<1> USE DEF Return, Backoff, MayRetry
<1>1. ASSUME IInv, OpenOK PROVE IInv'
  <2>1. TypeOK'
    <3>1. posts' \in Nat /\ lines' \in Nat
      BY <1>1 DEF IInv, TypeOK, OpenOK
    <3> QED BY <1>1, <3>1 DEF IInv, TypeOK, OpenOK
  <2>2. /\ ~ContentHanded' /\ ~produced /\ ~done /\ consumer # "closed"
        /\ posts = attempt
        /\ ContentIsLatest' /\ OneResponse' /\ AttemptsBounded'
    BY <1>1, PostKeeps DEF OpenOK
  <2>3. Control' /\ Live' /\ FailsBeforeContent'
    BY <1>1, <2>2 DEF IInv, Control, Live, BodyReleased, FailsBeforeContent, OpenOK
  <2> QED BY <1>1, <2>1, <2>2, <2>3 DEF IInv, OpenOK
<1>2. ASSUME IInv, NEW b \in BOOLEAN, OpenFails(b) PROVE IInv'
  <2>1. TypeOK'
    <3>1. posts' \in Nat
      BY <1>2 DEF IInv, TypeOK, OpenFails
    <3> QED BY <1>2, <3>1 DEF IInv, TypeOK, OpenFails, Results
  <2>2. /\ ~ContentHanded' /\ ~produced /\ ~done /\ consumer # "closed"
        /\ ContentIsLatest' /\ OneResponse' /\ AttemptsBounded'
    BY <1>2, PostKeeps DEF OpenFails
  <2>3. Control' /\ Live' /\ FailsBeforeContent'
    BY <1>2, <2>2 DEF IInv, Control, Live, BodyReleased, FailsBeforeContent, OpenFails
  <2> QED BY <1>2, <2>1, <2>2, <2>3 DEF IInv, OpenFails
<1>3. ASSUME IInv, OpenRefused PROVE IInv'
  <2>1. TypeOK'
    <3>1. posts' \in Nat
      BY <1>3 DEF IInv, TypeOK, OpenRefused
    <3> QED BY <1>3, <3>1 DEF IInv, TypeOK, OpenRefused
  <2>2. /\ ~ContentHanded' /\ ~produced /\ ~done /\ consumer # "closed"
        /\ posts = attempt
        /\ ContentIsLatest' /\ OneResponse' /\ AttemptsBounded'
    BY <1>3, PostKeeps DEF OpenRefused
  <2>3. Control' /\ Live' /\ FailsBeforeContent'
    BY <1>3, <2>2 DEF IInv, Control, Live, BodyReleased, FailsBeforeContent, OpenRefused
  <2> QED BY <1>3, <2>1, <2>2, <2>3 DEF IInv, OpenRefused
<1> QED BY <1>1, <1>2, <1>3 DEF Open

LEMMA RefusedInv == IInv /\ Refused => IInv'
<1> SUFFICES ASSUME IInv, NEW b \in BOOLEAN, RefusalRead(b) PROVE IInv'
  BY DEF Refused
<1> USE DEF Return, Backoff, MayRetry, RefusalRead
<1>1. /\ ContentIsLatest' /\ OneResponse' /\ AttemptsBounded'
      /\ ContentHanded' <=> ContentHanded
  BY SameHistory
<1>2. /\ ~done /\ consumer # "closed" /\ ~reader /\ ~produced
      /\ ~ContentHanded /\ posts = attempt + 1
  BY DEF IInv, Control, Live, BodyReleased
<1>3. TypeOK'
  <2>1. attempt' \in Nat
    BY DEF IInv, TypeOK
  <2> QED BY <2>1 DEF IInv, TypeOK, Results
<1>4. Control' /\ Live' /\ FailsBeforeContent'
  BY <1>1, <1>2 DEF IInv, Control, Live, BodyReleased, FailsBeforeContent
<1>5. attempt' <= MaxRetries
  BY BoundsAssumption DEF IInv, TypeOK
<1> QED BY <1>1, <1>3, <1>4, <1>5 DEF IInv

LEMMA ReadInv == IInv /\ (Wake \/ ReadLine \/ ReadLast) => IInv'
<1> USE DEF Return, Backoff, MayRetry, ReadingLine
<1>1. ASSUME IInv, Wake \/ ReadNothing PROVE IInv'
  <2>1. ContentIsLatest' /\ OneResponse' /\ AttemptsBounded'
        /\ (ContentHanded' <=> ContentHanded)
    BY <1>1, SameHistory DEF Wake, ReadNothing
  <2>2. TypeOK'
    BY <1>1 DEF IInv, TypeOK, Wake, ReadNothing
  <2>3. Control' /\ Live' /\ FailsBeforeContent'
    BY <1>1, <2>1 DEF IInv, Control, Live, BodyReleased, FailsBeforeContent, Wake, ReadNothing
  <2> QED BY <1>1, <2>1, <2>2, <2>3 DEF IInv, Wake, ReadNothing
<1>2. ASSUME IInv, NEW e \in Events \ Errors, ReadEvent(e) PROVE IInv'
  <2>1. /\ handed' \in Seq([type : Events, post : Nat])
        /\ ContentIsLatest' /\ OneResponse'
        /\ ContentHanded' <=> (ContentHanded \/ e \in Content)
    BY <1>2, HandKeeps DEF ReadEvent
  <2>2. TypeOK'
    BY <1>2, <2>1 DEF IInv, TypeOK, ReadEvent, Results
  <2>3. e # "UpstreamError"
    BY ContentAssumption DEF Events, Errors
  <2>4. Control' /\ FailsBeforeContent' /\ AttemptsBounded'
    BY <1>2, <2>3 DEF IInv, Control, BodyReleased, FailsBeforeContent, AttemptsBounded, ReadEvent
  <2>5. Live'
    BY <1>2, <2>1 DEF IInv, Live, ReadEvent
  <2> QED BY <1>2, <2>1, <2>2, <2>4, <2>5 DEF IInv, ReadEvent
<1>3. ASSUME IInv, NEW e \in Errors, ReadError(e) PROVE IInv'
  <2>1. e \in Events /\ e # "UpstreamError"
    BY DEF Events, Errors
  <2>2. CASE e = "retryable" /\ MayRetry
    <3>1. /\ ContentIsLatest' /\ OneResponse' /\ AttemptsBounded'
          /\ ContentHanded' <=> ContentHanded
      BY <1>3, <2>2, SameHistory DEF ReadError
    <3>2. ~done /\ consumer # "closed" /\ ~ContentHanded /\ posts = attempt + 1
      BY <1>3, <2>2 DEF IInv, Control, Live, ReadError
    <3>3. TypeOK'
      <4>1. attempt' \in Nat /\ lines' \in Nat
        BY <1>3, <2>2 DEF IInv, TypeOK, ReadError
      <4> QED BY <1>3, <2>2, <4>1 DEF IInv, TypeOK, ReadError
    <3>4. Control' /\ Live' /\ FailsBeforeContent'
      BY <1>3, <2>2, <3>1, <3>2
      DEF IInv, Control, Live, BodyReleased, FailsBeforeContent, ReadError
    <3>5. attempt' <= MaxRetries
      BY <1>3, <2>2, BoundsAssumption DEF IInv, TypeOK, ReadError
    <3> QED BY <3>1, <3>3, <3>4, <3>5 DEF IInv
  <2>3. CASE ~(e = "retryable" /\ MayRetry)
    <3>1. Hand(e) /\ posts' = posts
      BY <1>3, <2>3 DEF ReadError
    <3>2. /\ handed' \in Seq([type : Events, post : Nat])
          /\ ContentIsLatest' /\ OneResponse'
      BY <1>3, <2>1, <3>1, HandKeeps
    <3>3. TypeOK'
      <4>1. lines' \in Nat
        BY <1>3 DEF IInv, TypeOK, ReadError
      <4> QED BY <1>3, <2>1, <2>3, <3>2, <4>1 DEF IInv, TypeOK, ReadError, Results
    <3>4. Control' /\ Live' /\ FailsBeforeContent' /\ AttemptsBounded'
      BY <1>3, <2>1, <2>3
      DEF IInv, Control, Live, BodyReleased, FailsBeforeContent, AttemptsBounded, ReadError
    <3> QED BY <1>3, <2>3, <3>2, <3>3, <3>4 DEF IInv, ReadError
  <2> QED BY <2>2, <2>3
<1>4. ASSUME IInv, NEW e \in Events \cup {"none"}, NEW broken \in BOOLEAN,
             ReadEnd(e, broken)
      PROVE IInv'
  <2>1. "EOF" # "UpstreamError" /\ (e \in Events => e # "UpstreamError" /\ e # "none")
    BY ContentAssumption DEF Events, Errors
  <2>2. /\ handed' \in Seq([type : Events, post : Nat])
        /\ ContentIsLatest' /\ OneResponse'
    <3>1. CASE e = "none"
      BY <1>4, <3>1, SameHistory DEF ReadEnd, IInv, TypeOK
    <3>2. CASE e # "none"
      <4>1. e \in Events /\ Hand(e) /\ posts' = posts
        BY <1>4, <3>2 DEF ReadEnd
      <4> QED BY <1>4, <4>1, HandKeeps
    <3> QED BY <3>1, <3>2
  <2>3. TypeOK'
    BY <1>4, <2>2 DEF IInv, TypeOK, ReadEnd, Results
  <2>4. Control' /\ Live' /\ FailsBeforeContent' /\ AttemptsBounded'
    BY <1>4, <2>1
    DEF IInv, Control, Live, BodyReleased, FailsBeforeContent, AttemptsBounded, ReadEnd
  <2> QED BY <1>4, <2>2, <2>3, <2>4 DEF IInv, ReadEnd
<1> QED BY <1>1, <1>2, <1>3, <1>4 DEF ReadLine, ReadLast

LEMMA RouteInv == IInv /\ (Consume \/ HangUp \/ UNCHANGED vars) => IInv'
<1> SUFFICES ASSUME IInv, Consume \/ HangUp \/ UNCHANGED vars PROVE IInv'
  OBVIOUS
<1> USE DEF Consume, PeekDrops, PeekAnswers, PeekCommits, DrainPasses, DrainEnds,
            DrainAbandons, Finish, HangUp, vars, streamVars
<1>1. UNCHANGED <<handed, posts, attempt>>
  OBVIOUS
<1>2. ContentIsLatest' /\ OneResponse' /\ AttemptsBounded'
      /\ (ContentHanded' <=> ContentHanded)
  BY <1>1, SameHistory
<1>3. TypeOK'
  BY ZenonT(60) DEF IInv, TypeOK, Results
<1>4. "none" \notin Events /\ "none" \notin Errors
  BY ContentAssumption DEF Events, Errors
<1>5. Control' /\ Live' /\ FailsBeforeContent'
  BY <1>2, <1>4 DEF IInv, Control, Live, BodyReleased, FailsBeforeContent
<1> QED BY <1>1, <1>2, <1>3, <1>5 DEF IInv

LEMMA StepInv == IInv /\ [Next]_vars => IInv'
  BY CallInv, OpenInv, RefusedInv, ReadInv, RouteInv DEF Next

-----------------------------------------------------------------------------
\* The inductive invariant holds in every behaviour.
THEOREM StreamInvariant == Spec => []IInv
  BY InitInv, StepInv, PTL DEF Spec

\* Every run is well typed: the iterator's fields keep their ranges.
THEOREM StreamTypeOK == Spec => []TypeOK
  BY StreamInvariant, PTL DEF IInv

\* Whatever the upstream sends, and however often it fails, content is never
\* followed by an event of another response (the retry condition of Next).
THEOREM StreamOneResponse == Spec => []OneResponse
  BY StreamInvariant, PTL DEF IInv

\* At most MaxRetries retries reach the upstream.
THEOREM StreamAttemptsBounded == Spec => []AttemptsBounded
  BY StreamInvariant, PTL DEF IInv

\* No response body is left open by a stream that is done, asleep or closed.
THEOREM StreamBodyReleased == Spec => []BodyReleased
  BY StreamInvariant, PTL DEF IInv, Control

\* Next fails with an UpstreamError only before any content.
THEOREM StreamFailsBeforeContent == Spec => []FailsBeforeContent
  BY StreamInvariant, PTL DEF IInv

\* Only opening a response sends a request, and with no content out.
LEMMA NoLatePostStep ==
    ASSUME IInv, Next, ContentHanded \/ cancelled PROVE posts' = posts
<1>1. pc = "loop" /\ ~reader => ~ContentHanded
  BY DEF IInv, Control, Live
<1>2. CASE Open
  BY <1>1, <1>2 DEF Open, OpenOK, OpenFails, OpenRefused
<1>3. CASE ~Open
  BY <1>3 DEF Next, CallNext, Refused, RefusalRead, Wake, ReadLine, ReadNothing, ReadEvent, ReadError,
     ReadLast, ReadEnd, Consume, PeekDrops, PeekAnswers, PeekCommits, DrainPasses,
     DrainEnds, DrainAbandons, Finish, HangUp, streamVars
<1> QED BY <1>2, <1>3

\* No request is sent after content is out, or for a client that is gone.
THEOREM StreamNoLatePost == Spec => NoLatePost
<1>1. IInv /\ [Next]_vars => [ContentHanded \/ cancelled => posts' = posts]_vars
  BY NoLatePostStep
<1> QED BY <1>1, StreamInvariant, PTL DEF Spec, NoLatePost

-----------------------------------------------------------------------------
\* Reading from an open response finds the contract not over, a request sent,
\* and gives the caller at most one event of it.
LEMMA GiveStep ==
    ASSUME IInv, pc = "loop", reader, NEW e \in Events, Hand(e), posts' = posts,
           consumer' = consumer, e \in Errors => done', done' \in BOOLEAN
    PROVE  Contract!Give(e)
<1>1. ~done /\ consumer # "closed" /\ posts > 0
  BY DEF IInv, TypeOK, Control, Live
<1> QED BY <1>1 DEF Contract!Give, Hand

\* Every step of the iterator and of its consumer is a step of the contract, or
\* leaves its state alone.
LEMMA ContractStep == IInv /\ [Next]_vars => [Contract!Next]_(Contract!contractVars)
<1> SUFFICES ASSUME IInv, [Next]_vars
             PROVE  Contract!Next \/ UNCHANGED Contract!contractVars
  OBVIOUS
<1> USE DEF Return, Backoff, MayRetry, ReadingLine
<1>1. CASE CallNext \/ Wake \/ ReadNothing \/ HangUp \/ UNCHANGED vars
  BY <1>1 DEF CallNext, Wake, ReadNothing, HangUp, vars, streamVars, Contract!contractVars
<1>2. CASE Open
  <2>1. /\ pc = "loop" /\ ~reader /\ UNCHANGED <<handed, consumer>>
        /\ posts' \in {posts, posts + 1} /\ done' \in BOOLEAN
        /\ posts' = posts => done'
    <3>1. posts + 1 # posts /\ done \in BOOLEAN
      BY DEF IInv, TypeOK
    <3>2. CASE OpenOK
      BY <3>1, <3>2 DEF OpenOK
    <3>3. ASSUME NEW b \in BOOLEAN, OpenFails(b) PROVE <2>1
      BY <3>3 DEF OpenFails
    <3>4. CASE OpenRefused
      BY <3>1, <3>4 DEF OpenRefused
    <3> QED BY <1>2, <3>2, <3>3, <3>4 DEF Open
  <2>2. ~ContentHanded /\ ~done /\ consumer # "closed" /\ posts = attempt
    BY <2>1, PostKeeps
  <2>3. ~Contract!ContentOut /\ posts <= MaxRetries
    BY <2>2 DEF Contract!ContentOut, ContentHanded, IsContent, IInv
  <2>4. CASE posts' = posts + 1
    BY <2>1, <2>2, <2>3, <2>4 DEF Contract!Post, Contract!Next
  <2>5. CASE posts' = posts
    BY <2>1, <2>2, <2>5 DEF Contract!End, Contract!Next
  <2> QED BY <2>1, <2>4, <2>5
<1>3. ASSUME NEW e \in Events \ Errors, ReadEvent(e) PROVE Contract!Next
  <2>1. Contract!Give(e)
    BY <1>3, GiveStep DEF ReadEvent, IInv, TypeOK
  <2> QED BY <2>1 DEF Contract!Next, Events
<1>4. ASSUME NEW e \in Errors, ReadError(e)
      PROVE  Contract!Next \/ UNCHANGED Contract!contractVars
  <2>1. CASE e = "retryable" /\ MayRetry
    BY <1>4, <2>1 DEF ReadError, Contract!contractVars
  <2>2. CASE ~(e = "retryable" /\ MayRetry)
    <3>1. Contract!Give(e)
      BY <1>4, <2>2, GiveStep DEF ReadError, Events
    <3> QED BY <3>1 DEF Contract!Next
  <2> QED BY <2>1, <2>2
<1>5. ASSUME NEW e \in Events \cup {"none"}, NEW broken \in BOOLEAN, ReadEnd(e, broken)
      PROVE  Contract!Next
  <2>1. CASE e = "none"
    <3>1. ~done /\ consumer # "closed"
      BY <1>5 DEF ReadEnd, IInv, Control
    <3> QED BY <1>5, <2>1, <3>1 DEF ReadEnd, Contract!End, Contract!Next
  <2>2. CASE e # "none"
    <3>1. Contract!Give(e)
      BY <1>5, <2>2, GiveStep DEF ReadEnd
    <3> QED BY <1>5, <2>2, <3>1 DEF Contract!Next, Events
  <2> QED BY <2>1, <2>2
<1>6. CASE Consume
  <2>1. /\ UNCHANGED <<posts, handed, done>>
        /\ consumer # "closed"
    BY <1>6 DEF Consume, PeekDrops, PeekAnswers, PeekCommits, DrainPasses, DrainEnds,
       DrainAbandons, Finish, streamVars
  <2> QED BY <2>1 DEF Contract!End, Contract!Next, Contract!contractVars,
             IInv, TypeOK
<1>7. ASSUME NEW b \in BOOLEAN, RefusalRead(b)
      PROVE  Contract!Next \/ UNCHANGED Contract!contractVars
  <2>1. ~done /\ consumer # "closed" /\ consumer' = consumer
        /\ UNCHANGED <<posts, handed>> /\ done' \in {FALSE, TRUE}
    BY <1>7 DEF RefusalRead, IInv, TypeOK, Control
  <2> QED BY <2>1 DEF Contract!End, Contract!Next, Contract!contractVars
<1> QED BY <1>1, <1>2, <1>3, <1>4, <1>5, <1>6, <1>7
        DEF Next, ReadLine, ReadLast, Refused

\* The retry logic of Next keeps the promise made to the routes.
THEOREM StreamImplementsContract == Spec => ImplementsContract
<1>1. Init => Contract!Init
  BY DEF Init, Contract!Init
<1> QED BY <1>1, ContractStep, StreamInvariant, PTL DEF Spec, ImplementsContract, Contract!Spec

-----------------------------------------------------------------------------
(* ChatRoute *)

\* Before a request is admitted nothing has been asked of the upstream.
Untouched == ~admitted => pc = "caller" /\ ret = "none" /\ ~done /\ ~reader

RouteIInv == IInv /\ Untouched

-----------------------------------------------------------------------------
LEMMA RouteInitInv == RouteInit => RouteIInv
  BY InitInv DEF RouteInit, RouteIInv, Untouched, Init

\* Every step of a route is a step of the iterator and its consumer, or a refusal.
LEMMA RouteSteps == [RouteNext]_allVars => [Next]_vars \/ Refuse
<1> SUFFICES ASSUME [RouteNext]_allVars PROVE Next \/ UNCHANGED vars \/ Refuse
  OBVIOUS
<1>1. CASE Admit
  BY <1>1 DEF Admit
<1>2. CASE Upstream
  BY <1>2 DEF Upstream, Next, Consume
<1>3. CASE Answer
  BY <1>3 DEF Answer, AnswerPeeked, Commit, Pass, AnswerDrained, Abandon, Next, Consume
<1>4. CASE HangUp
  BY <1>4 DEF Next
<1>5. CASE UNCHANGED allVars
  BY <1>5 DEF allVars
<1> QED BY <1>1, <1>2, <1>3, <1>4, <1>5 DEF RouteNext

\* A refused request releases nothing, since nothing was opened for it.
LEMMA RefuseInv == RouteIInv /\ Refuse => IInv'
<1> SUFFICES ASSUME RouteIInv, Refuse PROVE IInv'
  OBVIOUS
<1>1. /\ UNCHANGED <<reader, attempt, produced, done, pc, lines, cut, posts, handed, ret, cancelled>>
      /\ consumer # "closed" /\ consumer' = "closed"
      /\ pc = "caller" /\ ret = "none" /\ ~done /\ ~reader
  BY DEF Refuse, streamVars, RouteIInv, Untouched
<1>2. ContentIsLatest' /\ OneResponse' /\ AttemptsBounded'
      /\ (ContentHanded' <=> ContentHanded)
  BY <1>1, SameHistory DEF RouteIInv
<1>3. TypeOK'
  BY <1>1 DEF RouteIInv, IInv, TypeOK
<1>4. Control' /\ Live'
  BY <1>1 DEF Control, Live, BodyReleased
<1>5. FailsBeforeContent'
  BY <1>1 DEF FailsBeforeContent
<1>6. (attempt <= MaxRetries)'
  BY <1>1 DEF RouteIInv, IInv
<1> QED BY <1>2, <1>3, <1>4, <1>5, <1>6 DEF IInv

\* Only an admitted request takes the iterator's steps.
LEMMA UntouchedStep == RouteIInv /\ [RouteNext]_allVars => Untouched'
<1> SUFFICES ASSUME RouteIInv, [RouteNext]_allVars, ~admitted' PROVE Untouched'
  BY DEF Untouched
<1>1. CASE Admit
  BY <1>1 DEF Admit
<1>2. CASE Upstream
  BY <1>2 DEF Upstream, routeVars
<1>3. CASE Refuse \/ (HangUp /\ UNCHANGED routeVars) \/ UNCHANGED allVars
  BY <1>3 DEF Refuse, HangUp, allVars, vars, routeVars, streamVars, RouteIInv, Untouched
<1>4. CASE Answer
  BY <1>4 DEF Answer, AnswerPeeked, Commit, Pass, AnswerDrained, Abandon, routeVars,
     PeekAnswers, PeekCommits, DrainPasses, DrainEnds, DrainAbandons, Finish, streamVars,
     RouteIInv, Untouched
<1> QED BY <1>1, <1>2, <1>3, <1>4 DEF RouteNext

LEMMA RouteStepInv == RouteIInv /\ [RouteNext]_allVars => RouteIInv'
  BY RouteSteps, StepInv, RefuseInv, UntouchedStep DEF RouteIInv

-----------------------------------------------------------------------------
\* The inductive invariant holds in every behaviour of a route.
THEOREM RouteInvariant == RouteSpec => []RouteIInv
  BY RouteInitInv, RouteStepInv, PTL DEF RouteSpec

\* The iterator's fields keep their ranges under the routes' handlers.
THEOREM RouteTypeOK == RouteSpec => []TypeOK
  BY RouteInvariant, PTL DEF RouteIInv, IInv

\* Whatever a handler does with the stream, content it passed to its client is
\* never followed by an event of another response (the retry condition of Next).
THEOREM RouteOneResponse == RouteSpec => []OneResponse
  BY RouteInvariant, PTL DEF RouteIInv, IInv

\* A handler learns of an UpstreamError only before any content.
THEOREM RouteFailsBeforeContent == RouteSpec => []FailsBeforeContent
  BY RouteInvariant, PTL DEF RouteIInv, IInv

\* Every way out of a handler (a refusal, an answer, a failed write) leaves no
\* response body open: its deferred Close.
THEOREM RouteBodyReleased == RouteSpec => []BodyReleased
  BY RouteInvariant, PTL DEF RouteIInv, IInv, Control

\* No handler has a request sent after content, or for a client that is gone.
THEOREM RouteNoLatePost == RouteSpec => NoLatePost
<1>1. RouteIInv /\ [RouteNext]_allVars => [ContentHanded \/ cancelled => posts' = posts]_vars
  <2> SUFFICES ASSUME RouteIInv, [RouteNext]_allVars, ContentHanded \/ cancelled
               PROVE  posts' = posts \/ UNCHANGED vars
    OBVIOUS
  <2>1. CASE Refuse
    BY <2>1 DEF Refuse, streamVars
  <2>2. CASE Next
    BY <2>2, NoLatePostStep DEF RouteIInv
  <2> QED BY <2>1, <2>2, RouteSteps
<1> QED BY <1>1, RouteInvariant, PTL DEF RouteSpec, NoLatePost

\* Behind a route the iterator keeps its contract: a refusal ends it unused.
THEOREM RouteImplementsContract == RouteSpec => ImplementsContract
<1>1. RouteInit => Contract!Init
  BY DEF RouteInit, Init, Contract!Init
<1>2. RouteIInv /\ [RouteNext]_allVars => [Contract!Next]_(Contract!contractVars)
  <2> SUFFICES ASSUME RouteIInv, [RouteNext]_allVars
               PROVE  [Contract!Next]_(Contract!contractVars)
    OBVIOUS
  <2>1. CASE Refuse
    <3>1. /\ UNCHANGED <<posts, handed, done>> /\ ~done
          /\ consumer # "closed" /\ consumer' = "closed"
      BY <2>1 DEF Refuse, streamVars, RouteIInv, Untouched
    <3> QED BY <3>1 DEF Contract!End, Contract!Next
  <2>2. CASE [Next]_vars
    BY <2>2, ContractStep DEF RouteIInv
  <2> QED BY <2>1, <2>2, RouteSteps
<1> QED BY <1>1, <1>2, RouteInvariant, PTL DEF RouteSpec, ImplementsContract, Contract!Spec

-----------------------------------------------------------------------------
(* What the client gets to see *)

\* An event the caller holds is the last one handed out, and an error ends the stream.
HeldIsLast == ret \in Events => handed # <<>> /\ handed[Len(handed)].type = ret
ErrorsEnd == \A i \in DOMAIN handed : handed[i].type \in Errors => i = Len(handed) /\ done

\* Until something decisive comes, nothing is passed or answered.
Peeking ==
    consumer = "peek" =>
        /\ passed = <<>> /\ answer = NoAnswer
        /\ \A i \in DOMAIN handed : IsDecisive(i) => i = Len(handed) /\ ret = handed[i].type

\* What was passed follows from the first decisive event, n, on.
Follows(n) ==
    /\ IsDecisive(n) /\ \A i \in DOMAIN handed : i < n => ~IsDecisive(i)
    /\ Len(passed) = Len(handed) - n + (IF ret \in Events THEN 0 ELSE 1)
    /\ \A i \in DOMAIN passed : passed[i] = handed[n + i - 1].type

\* No error has been passed yet, and an answer has its status if it is a stream.
Draining ==
    consumer = "drain" =>
        /\ admitted /\ passed # <<>> /\ \A i \in DOMAIN passed : passed[i] \notin Errors
        /\ answer = IF request.stream THEN [NoAnswer EXCEPT !.status = "200"] ELSE NoAnswer
        /\ \E n \in DOMAIN handed : Follows(n)

AnswerIInv ==
    /\ request \in Requests /\ passed \in Seq(Events)
    /\ HeldIsLast /\ ErrorsEnd /\ Peeking /\ Draining /\ HonestStatus

LEMMA TypesApart ==
    /\ "none" \notin Events /\ "EOF" \notin Events /\ "UpstreamError" \notin Events
    /\ Errors \subseteq Decisive /\ Decisive \subseteq Events /\ Content \cap Errors = {}
  BY ContentAssumption DEF Events, Errors, Decisive

LEMMA AnswerInitInv == RouteInit => AnswerIInv
<1> SUFFICES ASSUME RouteInit PROVE AnswerIInv
  OBVIOUS
<1>1. /\ request \in Requests /\ passed = <<>> /\ answer = NoAnswer /\ handed = <<>>
      /\ consumer = "peek" /\ ret = "none"
  BY DEF RouteInit, Init
<1>2. DOMAIN handed = {} /\ DOMAIN passed = {} /\ passed \in Seq(Events)
  BY <1>1
<1>3. HonestStatus
  BY <1>1, <1>2 DEF HonestStatus, FailsFirst, HasUsable, NoAnswer
<1> QED BY <1>1, <1>2, <1>3, TypesApart DEF AnswerIInv, HeldIsLast, ErrorsEnd, Peeking, Draining

\* A turn that is being drained did not begin with an error.
LEMMA DrainedTurn ==
    ASSUME NEW n \in DOMAIN handed, Follows(n), passed # <<>>, passed \in Seq(Events),
           handed \in Seq([type : Events, post : Nat]),
           \A i \in DOMAIN passed : passed[i] \notin Errors
    PROVE  ~FailsFirst /\ handed[n].type \notin Errors
<1>1. 1 \in DOMAIN passed
  OBVIOUS
<1>2. handed[n].type = passed[1]
  <2>1. n + 1 - 1 = n
    OBVIOUS
  <2> QED BY <1>1, <2>1 DEF Follows
<1>3. handed[n].type \notin Errors
  BY <1>1, <1>2
<1>4. ASSUME NEW i \in DOMAIN handed, handed[i].type \in Errors,
             \A j \in DOMAIN handed : j < i => ~IsDecisive(j)
      PROVE  FALSE
  <2>1. IsDecisive(i)
    BY <1>4, TypesApart DEF IsDecisive
  <2>2. ~(i < n) /\ ~(n < i) /\ i # n
    BY <1>3, <1>4, <2>1 DEF Follows
  <2> QED BY <2>2
<1> QED BY <1>3, <1>4 DEF FailsFirst

\* As long as the handler has not returned, the status promises nothing wrong.
Unfinished ==
    /\ request \in Requests /\ passed \in Seq(Events) /\ TypeOK
    /\ Peeking /\ Draining /\ consumer # "closed"

LEMMA LiveHonest == Unfinished => HonestStatus
<1> SUFFICES ASSUME Unfinished PROVE HonestStatus
  OBVIOUS
<1>1. CASE consumer = "peek"
  <2>1. passed = <<>> /\ answer.status = "none" /\ answer.complete = FALSE
    BY <1>1 DEF Unfinished, Peeking, NoAnswer
  <2> QED BY <2>1 DEF HonestStatus, HasUsable
<1>2. CASE consumer = "drain"
  <2>1. ~FailsFirst
    BY <1>2, DrainedTurn DEF Unfinished, Draining, TypeOK
  <2>2. answer.status \in {"none", "200"} /\ answer.complete = FALSE
    BY <1>2 DEF Unfinished, Draining, NoAnswer
  <2> QED BY <2>1, <2>2 DEF HonestStatus
<1> QED BY <1>1, <1>2 DEF Unfinished, TypeOK

LEMMA LiveHonestNext == Unfinished' => HonestStatus'
  BY LiveHonest, PTL

\* A step that hands out nothing, and is none of the consumer's.
LEMMA QuietInv ==
    ASSUME AnswerIInv, UNCHANGED <<handed, request, passed, answer, consumer>>,
           admitted => admitted', done => done',
           ret' = ret \/ (ret \notin Events /\ ret' \notin Events)
    PROVE  AnswerIInv'
<1>1. HeldIsLast' /\ ErrorsEnd'
  BY DEF AnswerIInv, HeldIsLast, ErrorsEnd
<1>2. \A i : IsDecisive(i)' <=> IsDecisive(i)
  BY DEF IsDecisive
<1>3. Peeking'
  <2>1. \A i : IsDecisive(i) => handed[i].type \in Events
    BY TypesApart DEF IsDecisive
  <2> QED BY <1>2, <2>1 DEF AnswerIInv, Peeking
<1>4. \A n : Follows(n) => Follows(n)'
  BY <1>2 DEF Follows
<1>5. Draining'
  BY <1>4 DEF AnswerIInv, Draining
<1>6. HonestStatus'
  <2>1. (FailsFirst' <=> FailsFirst) /\ (FailsLast' <=> FailsLast) /\ (HasUsable' <=> HasUsable)
    BY <1>2 DEF FailsFirst, FailsLast, HasUsable
  <2> QED BY <2>1 DEF AnswerIInv, HonestStatus
<1> QED BY <1>1, <1>3, <1>5, <1>6 DEF AnswerIInv

\* The iterator hands out an event.
LEMMA HandInv ==
    ASSUME IInv, TypeOK', AnswerIInv, NEW e \in Events, Hand(e), ret' = e, pc = "loop",
           e \in Errors => done', UNCHANGED <<routeVars, consumer>>
    PROVE  AnswerIInv'
<1>1. /\ handed' \in Seq([type : Events, post : Nat]) /\ Len(handed') = Len(handed) + 1
      /\ \A i \in DOMAIN handed : handed'[i] = handed[i]
      /\ DOMAIN handed' = DOMAIN handed \cup {Len(handed) + 1}
      /\ handed'[Len(handed) + 1].type = e
  <2>1. handed'[Len(handed) + 1] = [type |-> e, post |-> posts]
    BY HandLemma
  <2>2. handed'[Len(handed) + 1].type = e
    BY <2>1
  <2> QED BY <2>2, HandLemma
<1>2. ret = "none" /\ ~done /\ consumer # "closed" /\ ret \notin Events
  BY TypesApart DEF IInv, Control
<1>3. UNCHANGED <<request, admitted, passed, answer, consumer>>
  BY DEF routeVars
<1>4. handed \in Seq([type : Events, post : Nat])
  BY DEF IInv, TypeOK
<1>5. HeldIsLast'
  <2>1. Len(handed') \in DOMAIN handed'
    BY <1>1
  <2>2. handed' # <<>>
    BY <1>1, <1>4
  <2> QED BY <1>1, <2>2 DEF HeldIsLast
<1>6. ErrorsEnd'
  BY <1>1, <1>2 DEF AnswerIInv, ErrorsEnd
<1>7. \A i \in DOMAIN handed : IsDecisive(i)' <=> IsDecisive(i)
  BY <1>1 DEF IsDecisive
<1>8. Peeking'
  <2>1. consumer = "peek" => \A i \in DOMAIN handed : ~IsDecisive(i)
    BY <1>2, TypesApart DEF AnswerIInv, Peeking, IsDecisive
  <2> QED BY <1>1, <1>3, <1>7, <2>1 DEF AnswerIInv, Peeking
<1>9. ASSUME NEW n \in DOMAIN handed, Follows(n) PROVE n \in DOMAIN handed' /\ Follows(n)'
  <2>1. IsDecisive(n)' /\ \A i \in DOMAIN handed' : i < n => ~IsDecisive(i)'
    BY <1>1, <1>4, <1>7, <1>9 DEF Follows
  <2>2. Len(passed) = Len(handed) - n + 1
    BY <1>2, <1>9 DEF Follows
  <2>3. Len(passed) = Len(handed') - n /\ ret' \in Events
    BY <1>1, <1>4, <2>2
  <2>4. ASSUME NEW i \in DOMAIN passed PROVE passed[i] = handed'[n + i - 1].type
    <3>1. n + i - 1 \in DOMAIN handed
      BY <1>4, <2>2, <2>4 DEF AnswerIInv
    <3> QED BY <1>1, <1>9, <3>1 DEF Follows
  <2> QED BY <1>1, <1>3, <2>1, <2>3, <2>4 DEF Follows
<1>10. Draining'
  BY <1>3, <1>9 DEF AnswerIInv, Draining
<1>11. request' \in Requests /\ passed' \in Seq(Events)
  BY <1>3 DEF AnswerIInv
<1>12. HonestStatus'
  BY <1>2, <1>3, <1>8, <1>10, <1>11, LiveHonestNext DEF Unfinished
<1> QED BY <1>5, <1>6, <1>8, <1>10, <1>11, <1>12 DEF AnswerIInv

\* The iterator's steps hand out an event, or nothing; the peek drops what decides nothing.
LEMMA UpstreamAnswer ==
    ASSUME IInv, TypeOK', AnswerIInv, Upstream
    PROVE  AnswerIInv'
<1>1. UNCHANGED <<request, admitted, passed, answer>>
  BY DEF Upstream, routeVars
<1> USE DEF Return
<1>2. CASE CallNext
  BY <1>1, <1>2, TypesApart, QuietInv DEF CallNext
<1>3. CASE Open
  <2>1. ret = "none"
    BY <1>3 DEF Open, OpenOK, OpenRefused, OpenFails, IInv, Control
  <2>2. /\ UNCHANGED <<handed, consumer>> /\ ret' \in {ret, "UpstreamError"}
        /\ done' = TRUE \/ UNCHANGED done
    BY <1>3 DEF Open, OpenOK, OpenRefused, OpenFails
  <2> QED BY <1>1, <2>1, <2>2, TypesApart, QuietInv
<1>4. CASE Refused
  <2>1. ret = "none"
    BY <1>4 DEF Refused, RefusalRead, IInv, Control
  <2>2. /\ UNCHANGED <<handed, consumer>> /\ ret' \in {ret, "UpstreamError"}
        /\ done' = TRUE \/ UNCHANGED done
    BY <1>4 DEF Refused, RefusalRead
  <2> QED BY <1>1, <2>1, <2>2, TypesApart, QuietInv
<1>5. CASE Wake \/ ReadNothing
  BY <1>1, <1>5, QuietInv DEF Wake, ReadNothing
<1>6. ASSUME NEW e \in Events \ Errors, ReadEvent(e) PROVE AnswerIInv'
  BY <1>1, <1>6, HandInv DEF ReadEvent, ReadingLine, routeVars
<1>7. ASSUME NEW e \in Errors, ReadError(e) PROVE AnswerIInv'
  <2>1. CASE done' = TRUE /\ Hand(e) /\ Return(e)
    BY <1>1, <1>7, <2>1, HandInv DEF ReadError, ReadingLine, routeVars, Events
  <2>2. CASE UNCHANGED <<done, ret, handed>>
    BY <1>1, <1>7, <2>2, QuietInv DEF ReadError
  <2> QED BY <1>7, <2>1, <2>2 DEF ReadError
<1>8. ASSUME NEW e \in Events \cup {"none"}, NEW broken \in BOOLEAN, ReadEnd(e, broken)
      PROVE  AnswerIInv'
  <2>1. CASE e = "none"
    <3>1. ret = "none"
      BY <1>8 DEF ReadEnd, IInv, Control
    <3> QED BY <1>1, <1>8, <2>1, <3>1, TypesApart, QuietInv DEF ReadEnd
  <2>2. CASE e # "none"
    BY <1>1, <1>8, <2>2, HandInv DEF ReadEnd, routeVars
  <2> QED BY <2>1, <2>2
<1>9. CASE PeekDrops
  <2>1. /\ consumer = "peek" /\ ret \in Events \ Decisive /\ ret' = "none"
        /\ UNCHANGED <<handed, done, consumer>>
    BY <1>9 DEF PeekDrops, streamVars
  <2>2. HeldIsLast' /\ ErrorsEnd' /\ Draining'
    BY <2>1, TypesApart DEF AnswerIInv, HeldIsLast, ErrorsEnd, Draining
  <2>3. Peeking'
    BY <1>1, <2>1 DEF AnswerIInv, Peeking, IsDecisive
  <2>4. HonestStatus'
    BY <1>1, <2>1 DEF AnswerIInv, HonestStatus, FailsFirst, FailsLast, HasUsable, IsDecisive
  <2> QED BY <1>1, <2>2, <2>3, <2>4 DEF AnswerIInv
<1> QED BY <1>2, <1>3, <1>4, <1>5, <1>6, <1>7, <1>8, <1>9 DEF Upstream, ReadLine, ReadLast

LEMMA CommitAnswer ==
    ASSUME RouteIInv, TypeOK', AnswerIInv, Commit
    PROVE  AnswerIInv'
<1>1. /\ consumer = "peek" /\ consumer' = "drain" /\ ret \in Decisive \ Errors /\ ret' = "none"
      /\ passed' = Append(passed, ret) /\ UNCHANGED <<handed, done, request, admitted>>
      /\ answer' = IF request.stream THEN [answer EXCEPT !.status = "200"] ELSE answer
  BY DEF Commit, PeekCommits, streamVars
<1>2. passed = <<>> /\ answer = NoAnswer
      /\ \A i \in DOMAIN handed : IsDecisive(i) => i = Len(handed)
  BY <1>1 DEF AnswerIInv, Peeking
<1>3. ret \in Events /\ ret' \notin Events /\ admitted
  BY <1>1, TypesApart DEF RouteIInv, Untouched
<1>4. /\ passed' = <<ret>> /\ passed' \in Seq(Events) /\ passed' # <<>>
      /\ Len(passed') = 1 /\ DOMAIN passed' = {1} /\ passed'[1] = ret
  BY <1>1, <1>2, <1>3
<1>5. /\ handed \in Seq([type : Events, post : Nat]) /\ handed # <<>>
      /\ handed[Len(handed)].type = ret /\ Len(handed) \in DOMAIN handed
  <2>1. handed \in Seq([type : Events, post : Nat])
    BY DEF RouteIInv, IInv, TypeOK
  <2>2. handed # <<>> /\ handed[Len(handed)].type = ret
    BY <1>3 DEF AnswerIInv, HeldIsLast
  <2> QED BY <2>1, <2>2
<1>6. Follows(Len(handed))'
  <2>1. IsDecisive(Len(handed))'
    BY <1>1, <1>5 DEF IsDecisive
  <2>2. \A i \in DOMAIN handed : i < Len(handed) => ~IsDecisive(i)'
    BY <1>1, <1>2, <1>5 DEF IsDecisive
  <2>3. Len(passed') = Len(handed) - Len(handed) + 1
    BY <1>4, <1>5
  <2>4. passed'[1] = handed[Len(handed) + 1 - 1].type
    <3>1. Len(handed) + 1 - 1 = Len(handed)
      BY <1>5
    <3> QED BY <1>4, <1>5, <3>1
  <2> QED BY <1>1, <1>3, <1>4, <2>1, <2>2, <2>3, <2>4 DEF Follows
<1>7. Draining'
  <2>1. Len(handed)' \in DOMAIN handed'
    BY <1>1, <1>5
  <2> QED BY <1>1, <1>2, <1>3, <1>4, <1>6, <2>1 DEF Draining
<1>8. HeldIsLast' /\ ErrorsEnd' /\ Peeking'
  BY <1>1, <1>3 DEF AnswerIInv, HeldIsLast, ErrorsEnd, Peeking
<1>9. request' \in Requests
  BY <1>1 DEF AnswerIInv
<1>10. HonestStatus'
  BY <1>1, <1>4, <1>7, <1>8, <1>9, LiveHonestNext DEF Unfinished
<1> QED BY <1>4, <1>7, <1>8, <1>9, <1>10 DEF AnswerIInv

LEMMA PassAnswer ==
    ASSUME IInv, TypeOK', AnswerIInv, Pass
    PROVE  AnswerIInv'
<1>1. /\ consumer = "drain" /\ consumer' = "drain" /\ ret \in Events \ Errors /\ ret' = "none"
      /\ passed' = Append(passed, ret) /\ UNCHANGED <<handed, done, request, admitted, answer>>
  BY DEF Pass, DrainPasses, streamVars
<1>2. /\ passed \in Seq(Events) /\ handed \in Seq([type : Events, post : Nat])
      /\ ret' \notin Events
  BY <1>1, TypesApart DEF AnswerIInv, IInv, TypeOK
<1>3. /\ passed' \in Seq(Events) /\ passed' # <<>> /\ Len(passed') = Len(passed) + 1
      /\ \A i \in DOMAIN passed : passed'[i] = passed[i]
      /\ DOMAIN passed' = DOMAIN passed \cup {Len(passed) + 1}
      /\ passed'[Len(passed) + 1] = ret
  BY <1>1, <1>2
<1>4. ASSUME NEW n \in DOMAIN handed, Follows(n) PROVE Follows(n)'
  <2>1. IsDecisive(n)' /\ \A i \in DOMAIN handed : i < n => ~IsDecisive(i)'
    BY <1>1, <1>4 DEF Follows, IsDecisive
  <2>2. Len(passed) = Len(handed) - n
    BY <1>1, <1>4 DEF Follows
  <2>3. Len(passed') = Len(handed) - n + 1
    BY <1>2, <1>3, <2>2
  <2>4. ASSUME NEW i \in DOMAIN passed' PROVE passed'[i] = handed[n + i - 1].type
    <3>1. CASE i \in DOMAIN passed
      BY <1>3, <1>4, <3>1 DEF Follows
    <3>2. CASE i = Len(passed) + 1
      <4>1. n \in Nat /\ Len(passed) \in Nat /\ Len(handed) \in Nat
        BY <1>2
      <4>2. n + i - 1 = Len(handed)
        BY <2>2, <3>2, <4>1, SMTT(60)
      <4> QED BY <1>1, <1>3, <3>2, <4>2 DEF AnswerIInv, HeldIsLast
    <3> QED BY <1>3, <2>4, <3>1, <3>2
  <2> QED BY <1>1, <1>2, <2>1, <2>3, <2>4 DEF Follows
<1>5. Draining'
  <2>1. \A i \in DOMAIN passed' : passed'[i] \notin Errors
    BY <1>1, <1>3 DEF AnswerIInv, Draining
  <2> QED BY <1>1, <1>3, <1>4, <2>1 DEF AnswerIInv, Draining
<1>6. HeldIsLast' /\ ErrorsEnd' /\ Peeking'
  BY <1>1, <1>2 DEF AnswerIInv, HeldIsLast, ErrorsEnd, Peeking
<1>7. request' \in Requests
  BY <1>1 DEF AnswerIInv
<1>8. HonestStatus'
  BY <1>1, <1>3, <1>5, <1>6, <1>7, LiveHonestNext DEF Unfinished
<1> QED BY <1>3, <1>5, <1>6, <1>7, <1>8 DEF AnswerIInv

\* The handler returns: only the status has to be right.
LEMMA ClosedInv ==
    ASSUME AnswerIInv, Finish, UNCHANGED request, passed' \in Seq(Events), HonestStatus'
    PROVE  AnswerIInv'
  BY TypesApart DEF AnswerIInv, Finish, HeldIsLast, ErrorsEnd, Peeking, Draining

LEMMA PeekedAnswer ==
    ASSUME IInv, AnswerIInv, AnswerPeeked
    PROVE  AnswerIInv'
<1>1. /\ consumer = "peek" /\ ret \in Errors \cup {"EOF", "UpstreamError"} /\ Finish
      /\ UNCHANGED <<handed, request, passed>>
  BY DEF AnswerPeeked, PeekAnswers, Finish
<1>2. PICK code \in Codes :
        answer' = CASE ret = "EOF" -> Success
                    [] ret = "UpstreamError" -> Failure(code)
                    [] OTHER -> Failure(statusFromCCError(code))
  BY DEF AnswerPeeked
<1>3. passed = <<>> /\ \A i \in DOMAIN handed : IsDecisive(i) => ret = handed[i].type
  BY <1>1 DEF AnswerIInv, Peeking
<1>4. ~HasUsable' /\ passed' = <<>> /\ passed' \in Seq(Events)
  BY <1>1, <1>3 DEF HasUsable
<1>5. CASE ret \in Errors
  <2>1. ret # "EOF" /\ ret # "UpstreamError"
    BY <1>5 DEF Errors
  <2>2. answer'.status \in {"error", "502"} /\ answer'.failed
    BY <1>2, <2>1 DEF Failure, statusFromCCError
  <2>3. HonestStatus'
    BY <1>4, <2>2 DEF HonestStatus
  <2> QED BY <1>1, <1>4, <2>3, ClosedInv
<1>6. CASE ret \in {"EOF", "UpstreamError"}
  <2>1. \A i \in DOMAIN handed : ~IsDecisive(i)
    BY <1>3, <1>6, TypesApart DEF IsDecisive
  <2>2. ~FailsFirst' /\ ~FailsLast'
    BY <1>1, <2>1, TypesApart DEF FailsFirst, FailsLast, IsDecisive
  <2>3. HonestStatus'
    BY <1>4, <2>2 DEF HonestStatus
  <2> QED BY <1>1, <1>4, <2>3, ClosedInv
<1> QED BY <1>1, <1>5, <1>6

LEMMA DrainedAnswer ==
    ASSUME IInv, AnswerIInv, AnswerDrained
    PROVE  AnswerIInv'
<1>1. /\ consumer = "drain" /\ ret \in Errors \cup {"EOF", "UpstreamError"} /\ Finish
      /\ UNCHANGED <<handed, request>>
      /\ passed' = IF ret \in Errors THEN Append(passed, ret) ELSE passed
  BY DEF AnswerDrained, DrainEnds, Finish
<1>2. PICK code \in Codes :
        answer' = IF request.stream
                  THEN [status |-> "200", complete |-> TRUE, failed |-> ret \in Errors]
                  ELSE Buffer(code)
  BY DEF AnswerDrained
<1>3. PICK n \in DOMAIN handed : Follows(n)
  BY <1>1 DEF AnswerIInv, Draining
<1>4. /\ passed \in Seq(Events) /\ passed # <<>>
      /\ handed \in Seq([type : Events, post : Nat])
      /\ \A i \in DOMAIN passed : passed[i] \notin Errors
  BY <1>1 DEF AnswerIInv, Draining, IInv, TypeOK
<1>5. ~FailsFirst'
  BY <1>1, <1>3, <1>4, DrainedTurn DEF FailsFirst, IsDecisive
<1>6. CASE ret \in Errors
  <2>1. /\ passed' \in Seq(Events) /\ passed' = Append(passed, ret)
        /\ \A i \in DOMAIN passed : passed'[i] = passed[i]
        /\ DOMAIN passed' = DOMAIN passed \cup {Len(passed) + 1}
        /\ passed'[Len(passed) + 1] = ret
    BY <1>1, <1>4, <1>6, TypesApart
  <2>2. HasUsable' <=> HasUsable
    <3>1. ret \notin Usable
      BY <1>6, TypesApart, UsableAssumption
    <3> QED BY <2>1, <3>1 DEF HasUsable
  <2>3. CASE request.stream
    <3>1. answer'.status = "200" /\ answer'.failed = TRUE
      BY <1>2, <1>6, <2>3
    <3>2. HonestStatus'
      BY <1>1, <1>5, <2>3, <3>1 DEF HonestStatus
    <3> QED BY <1>1, <2>1, <3>2, ClosedInv
  <2>4. CASE ~request.stream
    <3>1. answer' = IF ~HasUsable THEN Failure(statusFromCCError(code)) ELSE Success
      BY <1>2, <1>6, <2>4 DEF Buffer, HasUsable
    <3>2. CASE HasUsable
      <4>1. answer'.status = "200"
        BY <3>1, <3>2 DEF Success
      <4>2. HonestStatus'
        BY <1>1, <1>5, <2>2, <2>4, <3>2, <4>1 DEF HonestStatus
      <4> QED BY <1>1, <2>1, <4>2, ClosedInv
    <3>3. CASE ~HasUsable
      <4>1. answer'.status \in {"error", "502"} /\ answer'.failed
        BY <3>1, <3>3 DEF Failure, statusFromCCError
      <4>2. HonestStatus'
        BY <1>1, <1>5, <2>2, <2>4, <3>3, <4>1 DEF HonestStatus
      <4> QED BY <1>1, <2>1, <4>2, ClosedInv
    <3> QED BY <3>2, <3>3
  <2> QED BY <2>3, <2>4
<1>7. CASE ret \in {"EOF", "UpstreamError"}
  <2>1. ret \notin Events /\ ret \notin Errors
    BY <1>7, TypesApart
  <2>2. passed' = passed
    BY <1>1, <2>1
  <2>3. Len(passed) \in DOMAIN passed /\ n + Len(passed) - 1 = Len(handed)
    <3>1. Len(passed) = Len(handed) - n + 1
      BY <1>3, <2>1 DEF Follows
    <3>2. n \in Nat /\ Len(passed) \in Nat /\ Len(handed) \in Nat
      BY <1>4
    <3>3. \A a, b, c \in Nat : a = b - c + 1 => c + a - 1 = b
      OBVIOUS
    <3>4. n + Len(passed) - 1 = Len(handed)
      BY <3>1, <3>2, <3>3
    <3> QED BY <1>4, <3>4
  <2>4. handed[Len(handed)].type \notin Errors
    <3>1. passed[Len(passed)] = handed[Len(handed)].type
      BY <1>3, <2>3 DEF Follows
    <3> QED BY <1>4, <2>3, <3>1
  <2>5. ~FailsLast'
    BY <1>1, <2>4 DEF FailsLast, AnswerIInv, ErrorsEnd
  <2>6. answer'.status = "200"
    BY <1>2, <2>1 DEF Buffer, Success
  <2>7. passed'[Len(passed')] \notin Errors
    BY <1>4, <2>2, <2>3
  <2>8. HonestStatus'
    BY <1>5, <2>5, <2>6, <2>7 DEF HonestStatus
  <2> QED BY <1>1, <1>4, <2>2, <2>8, ClosedInv
<1> QED BY <1>1, <1>6, <1>7

LEMMA AbandonAnswer ==
    ASSUME IInv, AnswerIInv, Abandon
    PROVE  AnswerIInv'
<1>1. consumer = "drain" /\ Finish /\ UNCHANGED <<handed, request, passed, answer>> /\ request.stream
  BY DEF Abandon, DrainAbandons, Finish, routeVars
<1>2. PICK n \in DOMAIN handed : Follows(n)
  BY <1>1 DEF AnswerIInv, Draining
<1>3. /\ passed \in Seq(Events) /\ passed # <<>>
      /\ handed \in Seq([type : Events, post : Nat])
      /\ \A i \in DOMAIN passed : passed[i] \notin Errors
  BY <1>1 DEF AnswerIInv, Draining, IInv, TypeOK
<1>4. ~FailsFirst'
  BY <1>1, <1>2, <1>3, DrainedTurn DEF FailsFirst, IsDecisive
<1>5. answer'.status = "200" /\ answer'.complete = FALSE
  BY <1>1 DEF AnswerIInv, Draining, NoAnswer
<1>6. HonestStatus'
  BY <1>4, <1>5 DEF HonestStatus
<1> QED BY <1>1, <1>3, <1>6, ClosedInv

\* Nothing was handed out to a request that is refused.
LEMMA RefuseAnswer ==
    ASSUME RouteIInv, AnswerIInv, Refuse
    PROVE  AnswerIInv'
<1>1. /\ ~admitted /\ consumer # "closed" /\ consumer' = "closed" /\ ret = "none" /\ ret' = ret
      /\ answer' = Failure(Refusal) /\ UNCHANGED <<handed, done, request, passed>>
  BY DEF Refuse, streamVars, RouteIInv, Untouched
<1>2. consumer = "peek"
  BY <1>1 DEF AnswerIInv, Draining, RouteIInv, IInv, TypeOK
<1>3. passed = <<>> /\ \A i \in DOMAIN handed : ~IsDecisive(i)
  BY <1>1, <1>2, TypesApart DEF AnswerIInv, Peeking, IsDecisive
<1>4. ~FailsFirst' /\ ~FailsLast' /\ ~HasUsable' /\ passed' = <<>>
  BY <1>1, <1>3, TypesApart DEF FailsFirst, FailsLast, HasUsable, IsDecisive
<1>5. HonestStatus'
  BY <1>4 DEF HonestStatus
<1> QED BY <1>1, <1>5, TypesApart
    DEF AnswerIInv, HeldIsLast, ErrorsEnd, Peeking, Draining

LEMMA AnswerStepInv == RouteIInv /\ AnswerIInv /\ [RouteNext]_allVars => AnswerIInv'
<1> SUFFICES ASSUME RouteIInv, AnswerIInv, [RouteNext]_allVars PROVE AnswerIInv'
  OBVIOUS
<1>1. IInv /\ TypeOK'
  BY RouteStepInv DEF RouteIInv, IInv
<1>2. CASE Refuse
  BY <1>2, RefuseAnswer
<1>3. CASE Admit \/ (HangUp /\ UNCHANGED routeVars) \/ UNCHANGED allVars
  BY <1>3, QuietInv DEF Admit, HangUp, allVars, vars, streamVars, routeVars
<1>4. CASE Upstream
  BY <1>1, <1>4, UpstreamAnswer
<1>5. CASE Answer
  BY <1>1, <1>5, CommitAnswer, PassAnswer, PeekedAnswer, DrainedAnswer, AbandonAnswer DEF Answer
<1> QED BY <1>2, <1>3, <1>4, <1>5 DEF RouteNext

\* What a handler has passed to the translator and answered follows from the events
\* the iterator has handed out.
THEOREM AnswerInvariant == RouteSpec => [](RouteIInv /\ AnswerIInv)
  BY RouteInitInv, RouteStepInv, AnswerInitInv, AnswerStepInv, PTL DEF RouteSpec

\* The status of every answer is honest about the turn (writePeekedError,
\* statusFromCCError, BuildCompletion), for any content and any number of retries.
THEOREM RouteHonestStatus == RouteSpec => []HonestStatus
<1>1. AnswerIInv => HonestStatus
  BY DEF AnswerIInv
<1> QED BY <1>1, AnswerInvariant, PTL

\* The translator is given everything from the first decisive event on, once and in
\* order (AdvanceToDecisive, streamNext).
THEOREM RouteNothingLost == RouteSpec => []NothingLost
<1>1. RouteIInv /\ AnswerIInv => NothingLost
  <2> SUFFICES ASSUME RouteIInv, AnswerIInv, consumer = "drain" PROVE NothingLost
    BY DEF NothingLost
  <2> DEFINE held == IF ret \in Events THEN <<ret>> ELSE <<>>
             given == passed \o held
  <2>1. PICK n \in DOMAIN handed : Follows(n)
    BY DEF AnswerIInv, Draining
  <2>2. passed \in Seq(Events) /\ handed \in Seq([type : Events, post : Nat])
    BY DEF AnswerIInv, RouteIInv, IInv, TypeOK
  <2>3. n \in Nat /\ Len(passed) \in Nat /\ Len(handed) \in Nat
    BY <2>2
  <2>4. CASE ret \in Events
    <3>1. held = <<ret>>
      BY <2>4
    <3>2. /\ Len(given) = Len(passed) + 1 /\ DOMAIN given = DOMAIN passed \cup {Len(passed) + 1}
          /\ \A i \in DOMAIN passed : given[i] = passed[i]
          /\ given[Len(passed) + 1] = ret
      BY <2>2, <2>4, <3>1
    <3>3. Len(passed) = Len(handed) - n
      <4>1. Len(passed) = Len(handed) - n + 0
        BY <2>1, <2>4 DEF Follows
      <4> QED BY <2>3, <4>1
    <3>4. Len(given) = Len(handed) - n + 1 /\ n + (Len(passed) + 1) - 1 = Len(handed)
      BY <2>3, <3>2, <3>3
    <3>5. handed[Len(handed)].type = ret
      BY <2>4 DEF AnswerIInv, HeldIsLast
    <3>6. \A i \in DOMAIN given : given[i] = handed[n + i - 1].type
      BY <2>1, <3>2, <3>4, <3>5 DEF Follows
    <3> QED BY <2>1, <3>4, <3>6 DEF NothingLost, Follows
  <2>5. CASE ret \notin Events
    <3>1. given = passed
      BY <2>2, <2>5
    <3>2. Len(given) = Len(handed) - n + 1
      BY <2>1, <2>5, <3>1 DEF Follows
    <3> QED BY <2>1, <3>1, <3>2 DEF NothingLost, Follows
  <2> QED BY <2>4, <2>5
<1> QED BY <1>1, AnswerInvariant, PTL
=============================================================================
