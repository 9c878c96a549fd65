---------------------------- MODULE Lists_proofs ----------------------------
(***************************************************************************)
(* What the operators of Lists return, for lists of any length.  Each is   *)
(* settled by how it takes one more element: a list that is put together   *)
(* one element at a time is what the models have, and what their           *)
(* invariants are about.  Induction is over sets, where FlattenSeq is a    *)
(* recursive function.                                                     *)
(***************************************************************************)
EXTENDS Lists, SequenceTheorems, FiniteSetTheorems, WellFoundedInduction, TLAPS

\* Induction, for sets.
LEMMA SetInduction ==
  ASSUME NEW S, 0 \in S, \A n \in Nat : n \in S => n + 1 \in S
  PROVE  \A n \in Nat : n \in S
<1> DEFINE T == Nat \ S
           R == {p \in Nat \X Nat : p[1] < p[2]}
<1> SUFFICES ASSUME T # {} PROVE FALSE
  OBVIOUS
<1>1. PICK x \in T : \A y \in T : <<y, x>> \notin R
  <2>1. IsWellFoundedOn(R, Nat)
    BY NatLessThanWellFounded DEF OpToRel
  <2>2. T \subseteq Nat
    OBVIOUS
  <2> HIDE DEF T, R
  <2> QED BY <2>1, <2>2, WFMin
<1>2. x # 0 /\ x - 1 \in Nat /\ x - 1 + 1 = x
  BY SMT
<1>3. x - 1 \in T /\ <<x - 1, x>> \in R
  BY <1>2
<1> QED BY <1>1, <1>3

\* The recursive function that FlattenSeq is defined by.
Joins(g, ss) == g = [i \in 1..Len(ss) |-> IF i = 1 THEN ss[i] ELSE g[i-1] \o ss[i]]

LEMMA JoinsAt ==
  ASSUME NEW g, NEW ss, Joins(g, ss), NEW i \in 1..Len(ss)
  PROVE  g[i] = IF i = 1 THEN ss[i] ELSE g[i - 1] \o ss[i]
<1> DEFINE F == [k \in 1..Len(ss) |-> IF k = 1 THEN ss[k] ELSE g[k - 1] \o ss[k]]
<1>1. F[i] = IF i = 1 THEN ss[i] ELSE g[i - 1] \o ss[i]
  OBVIOUS
<1>2. g = F
  BY DEF Joins
<1> HIDE DEF F
<1> QED BY <1>1, <1>2

\* Two such functions agree on the list that begins both.
LEMMA JoinsUnique ==
  ASSUME NEW ss, NEW tt, Len(ss) \in Nat, Len(tt) \in Nat, Len(ss) <= Len(tt),
         \A i \in 1..Len(ss) : ss[i] = tt[i],
         NEW g, Joins(g, ss), NEW h, Joins(h, tt)
  PROVE  \A i \in 1..Len(ss) : g[i] = h[i]
<1> DEFINE S == {n \in Nat : n \in 1..Len(ss) => g[n] = h[n]}
<1>1. 0 \in S
  OBVIOUS
<1>2. ASSUME NEW n \in Nat, n \in S PROVE n + 1 \in S
  <2> SUFFICES ASSUME n + 1 \in 1..Len(ss) PROVE g[n + 1] = h[n + 1]
    OBVIOUS
  <2>1. g[n + 1] = (IF n + 1 = 1 THEN ss[n + 1] ELSE g[n + 1 - 1] \o ss[n + 1])
    BY JoinsAt
  <2>2. n + 1 \in 1..Len(tt) /\ n + 1 - 1 = n /\ (n + 1 = 1 <=> n = 0) /\ (n # 0 => n \in 1..Len(ss))
    OBVIOUS
  <2>3. h[n + 1] = (IF n + 1 = 1 THEN tt[n + 1] ELSE h[n + 1 - 1] \o tt[n + 1])
    BY <2>2, JoinsAt
  <2>4. n # 0 => g[n] = h[n]
    BY <1>2, <2>2
  <2> QED BY <2>1, <2>2, <2>3, <2>4
<1>3. \A n \in Nat : n \in S
  <2> HIDE DEF S
  <2> QED BY <1>1, <1>2, SetInduction
<1> QED BY <1>3

\* There is one for every list.
LEMMA JoinsExists ==
  ASSUME NEW ss, Len(ss) \in Nat
  PROVE  \E g : Joins(g, ss)
<1> DEFINE Upto(g, n) == g = [i \in 1..n |-> IF i = 1 THEN ss[i] ELSE g[i-1] \o ss[i]]
           S == {n \in Nat : \E g : Upto(g, n)}
<1>1. 0 \in S
  <2>1. Upto(<<>>, 0)
    OBVIOUS
  <2> QED BY <2>1
<1>2. ASSUME NEW n \in Nat, n \in S PROVE n + 1 \in S
  <2>1. PICK g : Upto(g, n)
    BY <1>2
  <2> DEFINE h == [i \in 1..(n+1) |-> IF i = n + 1 THEN (IF i = 1 THEN ss[i] ELSE g[n] \o ss[i]) ELSE g[i]]
  <2>2. ASSUME NEW i \in 1..(n + 1)
        PROVE  h[i] = (IF i = 1 THEN ss[i] ELSE h[i - 1] \o ss[i])
    <3>1. CASE i = n + 1
      <4>1. i # 1 => i - 1 = n /\ i - 1 \in 1..(n + 1) /\ i - 1 # n + 1 
        BY <3>1
      <4>2. i # 1 => h[i - 1] = g[n]
        BY <4>1
      <4> QED BY <3>1, <4>2
    <3>2. CASE i # n + 1
      <4>1. i \in 1..n /\ (i # 1 => i - 1 \in 1..n /\ i - 1 \in 1..(n+1) /\ i - 1 # n + 1)
        BY <3>2
      <4>2. h[i] = g[i] /\ (i # 1 => h[i - 1] = g[i - 1])
        BY <4>1, <3>2
      <4>3. g[i] = (IF i = 1 THEN ss[i] ELSE g[i - 1] \o ss[i])
        BY <2>1, <4>1, Zenon
      <4> QED BY <4>2, <4>3
    <3> QED BY <3>1, <3>2
  <2>3. Upto(h, n + 1)
    <3> HIDE DEF h
    <3>1. h = [i \in 1..(n+1) |-> h[i]]
      BY DEF h
    <3> QED BY <3>1, <2>2
  <2>4. \E f : Upto(f, n + 1)
    <3> HIDE DEF h, Upto
    <3> QED BY <2>3
  <2> HIDE DEF Upto
  <2> QED BY <2>4
<1>3. Len(ss) \in S
  <2> HIDE DEF S
  <2> QED BY <1>1, <1>2, SetInduction
<1> QED BY <1>3 DEF Joins

\* FlattenSeq is its value at the last list.
LEMMA FlattenJoins ==
  ASSUME NEW ss, Len(ss) \in Nat, Len(ss) # 0
  PROVE  \E g : Joins(g, ss) /\ FlattenSeq(ss) = g[Len(ss)]
<1>1. \E g : g = [i \in 1..Len(ss) |-> IF i = 1 THEN ss[i] ELSE g[i-1] \o ss[i]]
  BY JoinsExists DEF Joins
<1> QED BY <1>1 DEF FlattenSeq, Joins

\* Induction over the sequences of elements of E.
LEMMA SeqInduction ==
  ASSUME NEW E, NEW S, <<>> \in S,
         \A s \in Seq(E), e \in E : s \in S => Append(s, e) \in S
  PROVE  \A s \in Seq(E) : s \in S
<1> DEFINE L == {n \in Nat : \A s \in Seq(E) : Len(s) = n => s \in S}
<1>1. 0 \in L
  BY EmptySeq
<1>2. ASSUME NEW n \in Nat, n \in L PROVE n + 1 \in L
  <2> SUFFICES ASSUME NEW s \in Seq(E), Len(s) = n + 1 PROVE s \in S
    OBVIOUS
  <2>1. PICK t \in Seq(E), e \in E : s = Append(t, e)
    <3>1. s # <<>>
      BY EmptySeq
    <3> QED BY <3>1, SequenceEmptyOrAppend
  <2>2. Len(t) = n
    BY <2>1, AppendProperties
  <2> QED BY <1>2, <2>1, <2>2
<1>3. \A n \in Nat : n \in L
  <2> HIDE DEF L
  <2> QED BY <1>1, <1>2, SetInduction
<1> QED BY <1>3, LenProperties

LEMMA FlattenEmpty == FlattenSeq(<<>>) = <<>>
  BY EmptySeq DEF FlattenSeq

\* One more list, flattened, comes last.
LEMMA FlattenAppend ==
  ASSUME NEW E, NEW ss \in Seq(Seq(E)), NEW s \in Seq(E)
  PROVE  FlattenSeq(Append(ss, s)) = FlattenSeq(ss) \o s
<1> DEFINE tt == Append(ss, s)
<1>1. /\ Len(ss) \in Nat /\ Len(tt) = Len(ss) + 1 /\ tt[Len(tt)] = s
      /\ \A i \in 1..Len(ss) : tt[i] = ss[i]
  BY AppendProperties, LenProperties
<1> HIDE DEF tt
<1>2. PICK h : Joins(h, tt) /\ FlattenSeq(tt) = h[Len(tt)]
  BY <1>1, FlattenJoins
<1>3. FlattenSeq(tt) = IF Len(tt) = 1 THEN s ELSE h[Len(tt) - 1] \o s
  BY <1>1, <1>2, JoinsAt
<1>4. CASE Len(ss) = 0
  <2>1. ss = <<>> /\ FlattenSeq(ss) = <<>>
    BY <1>4, FlattenEmpty, EmptySeq
  <2>2. <<>> \o s = s
    BY ConcatEmptySeq
  <2> QED BY <1>1, <1>3, <1>4, <2>1, <2>2 DEF tt
<1>5. CASE Len(ss) # 0
  <2>1. PICK g : Joins(g, ss) /\ FlattenSeq(ss) = g[Len(ss)]
    BY <1>1, <1>5, FlattenJoins
  <2>2. Len(tt) \in Nat /\ Len(ss) <= Len(tt) /\ Len(ss) \in 1..Len(ss) /\ Len(tt) - 1 = Len(ss)
        /\ Len(tt) # 1
    BY <1>1, <1>5
  <2>3. \A i \in 1..Len(ss) : ss[i] = tt[i]
    BY <1>1
  <2>4. \A i \in 1..Len(ss) : g[i] = h[i]
    <3>1. Joins(g, ss) /\ Joins(h, tt)
      BY <1>2, <2>1
    <3>2. Len(ss) \in Nat /\ Len(tt) \in Nat /\ Len(ss) <= Len(tt)
      BY <1>1, <2>2
    <3> HIDE DEF Joins
    <3> QED BY <2>3, <3>1, <3>2, JoinsUnique
  <2> QED BY <1>3, <2>1, <2>2, <2>4 DEF tt
<1> QED BY <1>1, <1>4, <1>5

LEMMA FlattenType ==
  ASSUME NEW E
  PROVE  \A ss \in Seq(Seq(E)) : FlattenSeq(ss) \in Seq(E)
<1> DEFINE S == {ss \in Seq(Seq(E)) : FlattenSeq(ss) \in Seq(E)}
<1>1. <<>> \in S
  BY FlattenEmpty, EmptySeq
<1>2. ASSUME NEW ss \in Seq(Seq(E)), NEW s \in Seq(E), ss \in S
      PROVE  Append(ss, s) \in S
  <2>1. Append(ss, s) \in Seq(Seq(E))
    BY AppendProperties
  <2>2. FlattenSeq(ss) \o s \in Seq(E)
    BY <1>2, ConcatProperties
  <2> QED BY <2>1, <2>2, FlattenAppend
<1>3. \A ss \in Seq(Seq(E)) : ss \in S
  <2> HIDE DEF S
  <2> QED BY <1>1, <1>2, SeqInduction
<1> QED BY <1>3

\* Flattening distributes over concatenation.
LEMMA FlattenConcat ==
  ASSUME NEW E, NEW rr \in Seq(Seq(E))
  PROVE  \A ss \in Seq(Seq(E)) : FlattenSeq(rr \o ss) = FlattenSeq(rr) \o FlattenSeq(ss)
<1> DEFINE S == {ss \in Seq(Seq(E)) : FlattenSeq(rr \o ss) = FlattenSeq(rr) \o FlattenSeq(ss)}
<1>1. <<>> \in S
  BY FlattenEmpty, FlattenType, EmptySeq, ConcatEmptySeq
<1>2. ASSUME NEW ss \in Seq(Seq(E)), NEW s \in Seq(E), ss \in S
      PROVE  Append(ss, s) \in S
  <2>1. Append(ss, s) \in Seq(Seq(E)) /\ rr \o ss \in Seq(Seq(E))
    BY AppendProperties, ConcatProperties
  <2>2. rr \o Append(ss, s) = Append(rr \o ss, s)
    BY <2>1, SMTT(60)
  <2>3. FlattenSeq(rr \o Append(ss, s)) = (FlattenSeq(rr) \o FlattenSeq(ss)) \o s
    BY <1>2, <2>1, <2>2, FlattenAppend, ZenonT(60)
  <2>4. FlattenSeq(rr) \in Seq(E) /\ FlattenSeq(ss) \in Seq(E)
    BY FlattenType
  <2>5. FlattenSeq(Append(ss, s)) = FlattenSeq(ss) \o s
    BY FlattenAppend
  <2>6. (FlattenSeq(rr) \o FlattenSeq(ss)) \o s = FlattenSeq(rr) \o (FlattenSeq(ss) \o s)
    BY <2>4
  <2> QED BY <2>1, <2>3, <2>5, <2>6
<1>3. \A ss \in Seq(Seq(E)) : ss \in S
  <2> HIDE DEF S
  <2> QED BY <1>1, <1>2, SeqInduction
<1> QED BY <1>3

-----------------------------------------------------------------------------
(* Selections *)

\* The pieces a selection is made of.
Picks(s, S) == [i \in DOMAIN s |-> IF s[i] \in S THEN <<s[i]>> ELSE <<>>]

LEMMA PicksType ==
  ASSUME NEW E, NEW S, NEW s \in Seq(E)
  PROVE  Picks(s, S) \in Seq(Seq(E)) /\ Len(Picks(s, S)) = Len(s)
<1>1. DOMAIN s = 1..Len(s) /\ Len(s) \in Nat
  BY LenProperties
<1>2. \A i \in 1..Len(s) : Picks(s, S)[i] \in Seq(E)
  BY <1>1, ElementOfSeq, EmptySeq DEF Picks
<1> QED BY <1>1, <1>2, IsASeq DEF Picks

LEMMA SelectEmpty == \A S : Select(<<>>, S) = <<>>
<1> SUFFICES ASSUME NEW S PROVE Select(<<>>, S) = <<>>
  OBVIOUS
<1>1. Picks(<<>>, S) = <<>>
  BY DEF Picks
<1> QED BY <1>1, FlattenEmpty DEF Select, Picks

LEMMA SelectType ==
  ASSUME NEW E, NEW S, NEW s \in Seq(E)
  PROVE  Select(s, S) \in Seq(E)
  BY PicksType, FlattenType DEF Select, Picks

\* One more element is selected last, or not at all.
LEMMA SelectAppend ==
  ASSUME NEW E, NEW S, NEW s \in Seq(E), NEW e \in E
  PROVE  Select(Append(s, e), S) = IF e \in S THEN Append(Select(s, S), e) ELSE Select(s, S)
<1> DEFINE part == IF e \in S THEN <<e>> ELSE <<>>
<1>1. part \in Seq(E)
  BY EmptySeq
<1>2. Picks(Append(s, e), S) = Append(Picks(s, S), part)
  <2>1. /\ Append(s, e) \in Seq(E) /\ Len(Append(s, e)) = Len(s) + 1 /\ Append(s, e)[Len(s) + 1] = e
        /\ \A i \in 1..Len(s) : Append(s, e)[i] = s[i]
    BY AppendProperties
  <2>2. /\ Picks(s, S) \in Seq(Seq(E)) /\ Len(Picks(s, S)) = Len(s)
        /\ Picks(Append(s, e), S) \in Seq(Seq(E)) /\ Len(Picks(Append(s, e), S)) = Len(s) + 1
    BY <2>1, PicksType, ZenonT(60)
  <2>3. /\ Append(Picks(s, S), part) \in Seq(Seq(E)) /\ Len(Append(Picks(s, S), part)) = Len(s) + 1
        /\ Append(Picks(s, S), part)[Len(s) + 1] = part
        /\ \A i \in 1..Len(s) : Append(Picks(s, S), part)[i] = Picks(s, S)[i]
    BY <1>1, <2>2, AppendProperties
  <2>4. DOMAIN s = 1..Len(s) /\ DOMAIN Append(s, e) = 1..(Len(s) + 1) /\ Len(s) \in Nat
    BY <2>1, LenProperties
  <2>5. ASSUME NEW i \in 1..(Len(s) + 1)
        PROVE  Picks(Append(s, e), S)[i] = Append(Picks(s, S), part)[i]
    <3>1. CASE i = Len(s) + 1
      BY <2>1, <2>3, <2>4, <3>1 DEF Picks
    <3>2. CASE i # Len(s) + 1
      <4>1. i \in 1..Len(s)
        BY <2>4, <3>2
      <4> QED BY <2>1, <2>3, <2>4, <4>1 DEF Picks
    <3> QED BY <3>1, <3>2
  <2> HIDE DEF part
  <2> QED BY <2>2, <2>3, <2>5, SeqEqual
<1>3. FlattenSeq(Append(Picks(s, S), part)) = FlattenSeq(Picks(s, S)) \o part
  <2> HIDE DEF part
  <2> QED BY <1>1, PicksType, FlattenAppend
<1>4. Select(s, S) \in Seq(E)
  BY SelectType
<1>5. Select(s, S) \o part = IF e \in S THEN Append(Select(s, S), e) ELSE Select(s, S)
  BY <1>4, AppendIsConcat, ConcatEmptySeq
<1>6. Select(Append(s, e), S) = FlattenSeq(Picks(Append(s, e), S)) /\ Select(s, S) = FlattenSeq(Picks(s, S))
  BY DEF Select, Picks
<1> HIDE DEF part
<1> QED BY <1>2, <1>3, <1>5, <1>6

\* Selecting distributes over concatenation.
LEMMA SelectConcat ==
  ASSUME NEW E, NEW S, NEW r \in Seq(E)
  PROVE  \A s \in Seq(E) : Select(r \o s, S) = Select(r, S) \o Select(s, S)
<1> DEFINE T == {s \in Seq(E) : Select(r \o s, S) = Select(r, S) \o Select(s, S)}
<1>1. <<>> \in T
  BY SelectEmpty, SelectType, EmptySeq, ConcatEmptySeq
<1>2. ASSUME NEW s \in Seq(E), NEW e \in E, s \in T PROVE Append(s, e) \in T
  <2>1. Append(s, e) \in Seq(E) /\ r \o s \in Seq(E) /\ r \o Append(s, e) = Append(r \o s, e)
    BY AppendProperties, ConcatProperties
  <2>2. Select(r, S) \in Seq(E) /\ Select(s, S) \in Seq(E)
    BY SelectType
  <2>3. CASE e \in S
    <3>1. Select(r \o Append(s, e), S) = Append(Select(r, S) \o Select(s, S), e)
      BY <1>2, <2>1, <2>3, SelectAppend
    <3>2. Select(Append(s, e), S) = Append(Select(s, S), e)
      BY <2>3, SelectAppend
    <3>3. Select(r, S) \o Append(Select(s, S), e) = Append(Select(r, S) \o Select(s, S), e)
      BY <2>2
    <3> QED BY <2>1, <3>1, <3>2, <3>3
  <2>4. CASE e \notin S
    <3>1. \A t \in Seq(E) : Select(Append(t, e), S) = Select(t, S)
      BY <2>4, SelectAppend
    <3>2. Select(Append(s, e), S) = Select(s, S)
      BY <2>4, SelectAppend
    <3> QED BY <1>2, <2>1, <3>1, <3>2
  <2> QED BY <2>3, <2>4
<1>3. \A s \in Seq(E) : s \in T
  <2> HIDE DEF T
  <2> QED BY <1>1, <1>2, SeqInduction
<1> QED BY <1>3

\* A list begins what it is concatenated with.
LEMMA PrefixOfConcat ==
  ASSUME NEW E, NEW s \in Seq(E), NEW t \in Seq(E)
  PROVE  IsPrefix(s, s) /\ IsPrefix(s, s \o t)
<1>1. s \o t \in Seq(E) /\ Len(s \o t) = Len(s) + Len(t) /\ Len(s) \in Nat /\ Len(t) \in Nat
  BY ConcatProperties, LenProperties
<1>2. SubSeq(s \o t, 1, Len(s)) = s /\ SubSeq(s, 1, Len(s)) = s
  OBVIOUS
<1> QED BY <1>1, <1>2 DEF IsPrefix

\* A selection is made of elements of the sequence, and all or none may be selected.
LEMMA SelectNone ==
  ASSUME NEW E, NEW S
  PROVE  \A s \in Seq(E) : (\A i \in 1..Len(s) : s[i] \notin S) => Select(s, S) = <<>>
<1> DEFINE T == {s \in Seq(E) : (\A i \in 1..Len(s) : s[i] \notin S) => Select(s, S) = <<>>}
<1>1. <<>> \in T
  BY SelectEmpty, EmptySeq
<1>2. ASSUME NEW s \in Seq(E), NEW e \in E, s \in T PROVE Append(s, e) \in T
  <2>1. /\ Append(s, e) \in Seq(E) /\ Len(s) \in Nat /\ Len(Append(s, e)) = Len(s) + 1
        /\ Append(s, e)[Len(s) + 1] = e /\ \A i \in 1..Len(s) : Append(s, e)[i] = s[i]
    BY AppendProperties, LenProperties
  <2>2. ASSUME \A i \in 1..(Len(s) + 1) : Append(s, e)[i] \notin S
        PROVE  e \notin S /\ Select(s, S) = <<>>
    <3>1. Append(s, e)[Len(s) + 1] \notin S /\ \A i \in 1..Len(s) : Append(s, e)[i] \notin S
      BY <2>1, <2>2
    <3> QED BY <1>2, <2>1, <3>1
  <2>3. Select(Append(s, e), S) = IF e \in S THEN Append(Select(s, S), e) ELSE Select(s, S)
    BY SelectAppend
  <2> QED BY <2>1, <2>2, <2>3
<1>3. \A s \in Seq(E) : s \in T
  <2> HIDE DEF T
  <2> QED BY <1>1, <1>2, SeqInduction
<1> QED BY <1>3

LEMMA SelectAll ==
  ASSUME NEW E, NEW S
  PROVE  \A s \in Seq(E) : (\A i \in 1..Len(s) : s[i] \in S) => Select(s, S) = s
<1> DEFINE T == {s \in Seq(E) : (\A i \in 1..Len(s) : s[i] \in S) => Select(s, S) = s}
<1>1. <<>> \in T
  BY SelectEmpty, EmptySeq
<1>2. ASSUME NEW s \in Seq(E), NEW e \in E, s \in T PROVE Append(s, e) \in T
  <2>1. /\ Append(s, e) \in Seq(E) /\ Len(s) \in Nat /\ Len(Append(s, e)) = Len(s) + 1
        /\ Append(s, e)[Len(s) + 1] = e /\ \A i \in 1..Len(s) : Append(s, e)[i] = s[i]
    BY AppendProperties, LenProperties
  <2>2. ASSUME \A i \in 1..(Len(s) + 1) : Append(s, e)[i] \in S
        PROVE  e \in S /\ Select(s, S) = s
    <3>1. Append(s, e)[Len(s) + 1] \in S /\ \A i \in 1..Len(s) : Append(s, e)[i] \in S
      BY <2>1, <2>2
    <3> QED BY <1>2, <2>1, <3>1
  <2>3. Select(Append(s, e), S) = IF e \in S THEN Append(Select(s, S), e) ELSE Select(s, S)
    BY SelectAppend
  <2> QED BY <2>1, <2>2, <2>3
<1>3. \A s \in Seq(E) : s \in T
  <2> HIDE DEF T
  <2> QED BY <1>1, <1>2, SeqInduction
<1> QED BY <1>3

HasData(E, D) == \A e \in E : e.data \in D

LEMMA DataType ==
  ASSUME NEW D, NEW E, HasData(E, D), NEW s \in Seq(E)
  PROVE  DataOf(s) \in Seq(D) /\ Len(DataOf(s)) = Len(s)
         /\ \A i \in 1..Len(s) : DataOf(s)[i] = s[i].data
<1>1. DOMAIN s = 1..Len(s) /\ Len(s) \in Nat /\ \A i \in 1..Len(s) : s[i] \in E
  BY LenProperties, ElementOfSeq
<1> QED BY <1>1, IsASeq DEF DataOf, HasData

LEMMA DataEmpty == DataOf(<<>>) = <<>>
  BY DEF DataOf

LEMMA DataAppend ==
  ASSUME NEW D, NEW E, HasData(E, D), NEW s \in Seq(E), NEW f \in E
  PROVE  DataOf(Append(s, f)) = Append(DataOf(s), f.data)
<1>1. /\ Append(s, f) \in Seq(E) /\ Len(Append(s, f)) = Len(s) + 1 /\ Append(s, f)[Len(s) + 1] = f
      /\ \A i \in 1..Len(s) : Append(s, f)[i] = s[i]
  BY AppendProperties
<1>2. /\ DataOf(s) \in Seq(D) /\ Len(DataOf(s)) = Len(s) /\ Len(s) \in Nat
      /\ (\A i \in 1..Len(s) : DataOf(s)[i] = s[i].data) /\ f.data \in D
  BY DataType, LenProperties DEF HasData
<1>3. /\ DataOf(Append(s, f)) \in Seq(D) /\ Len(DataOf(Append(s, f))) = Len(s) + 1
      /\ \A i \in 1..(Len(s) + 1) : DataOf(Append(s, f))[i] = Append(s, f)[i].data
  BY <1>1, DataType
<1>4. /\ Append(DataOf(s), f.data) \in Seq(D) /\ Len(Append(DataOf(s), f.data)) = Len(s) + 1
      /\ Append(DataOf(s), f.data)[Len(s) + 1] = f.data
      /\ \A i \in 1..Len(s) : Append(DataOf(s), f.data)[i] = DataOf(s)[i]
  BY <1>2, AppendProperties
<1>5. \A i \in 1..(Len(s) + 1) : DataOf(Append(s, f))[i] = Append(DataOf(s), f.data)[i]
  <2> SUFFICES ASSUME NEW i \in 1..(Len(s) + 1)
               PROVE  DataOf(Append(s, f))[i] = Append(DataOf(s), f.data)[i]
    OBVIOUS
  <2>1. i = Len(s) + 1 \/ i \in 1..Len(s)
    BY <1>2
  <2> QED BY <1>1, <1>2, <1>3, <1>4, <2>1
<1> QED BY <1>3, <1>4, <1>5, SeqEqual

LEMMA DataConcat ==
  ASSUME NEW D, NEW E, HasData(E, D), NEW r \in Seq(E)
  PROVE  \A s \in Seq(E) : DataOf(r \o s) = DataOf(r) \o DataOf(s)
<1> DEFINE T == {s \in Seq(E) : DataOf(r \o s) = DataOf(r) \o DataOf(s)}
<1>1. <<>> \in T
  <2>1. DataOf(r) \in Seq(D) /\ r \o <<>> = r
    BY DataType, ConcatEmptySeq
  <2>2. DataOf(r) \o <<>> = DataOf(r)
    BY <2>1, ConcatEmptySeq
  <2> QED BY <2>1, <2>2, DataEmpty, EmptySeq
<1>2. ASSUME NEW s \in Seq(E), NEW e \in E, s \in T PROVE Append(s, e) \in T
  <2>1. Append(s, e) \in Seq(E) /\ r \o s \in Seq(E) /\ r \o Append(s, e) = Append(r \o s, e)
    BY AppendProperties, ConcatProperties
  <2>2. DataOf(r) \in Seq(D) /\ DataOf(s) \in Seq(D) /\ e.data \in D
    BY DataType DEF HasData
  <2>3. \A t \in Seq(E) : DataOf(Append(t, e)) = Append(DataOf(t), e.data)
    BY DataAppend
  <2>4. DataOf(Append(s, e)) = Append(DataOf(s), e.data)
    BY DataAppend
  <2>5. DataOf(r) \o Append(DataOf(s), e.data) = Append(DataOf(r) \o DataOf(s), e.data)
    BY <2>2
  <2> QED BY <1>2, <2>1, <2>3, <2>4, <2>5
<1>3. \A s \in Seq(E) : s \in T
  <2> HIDE DEF T
  <2> QED BY <1>1, <1>2, SeqInduction
<1> QED BY <1>3

LEMMA JoinedEmpty == \A S : Joined(<<>>, S) = <<>>
  BY SelectEmpty, DataEmpty, FlattenEmpty DEF Joined

LEMMA JoinedType ==
  ASSUME NEW D, NEW E, HasData(E, Seq(D)), NEW S, NEW s \in Seq(E)
  PROVE  Joined(s, S) \in Seq(D)
<1>1. Select(s, S) \in Seq(E)
  BY SelectType
<1>2. DataOf(Select(s, S)) \in Seq(Seq(D))
  BY <1>1, DataType
<1> QED BY <1>2, FlattenType DEF Joined

\* The data of one more record comes last, if the record is in the set.
LEMMA JoinedAppend ==
  ASSUME NEW D, NEW E, HasData(E, Seq(D)), NEW S, NEW s \in Seq(E), NEW e \in E
  PROVE  Joined(Append(s, e), S) = IF e \in S THEN Joined(s, S) \o e.data ELSE Joined(s, S)
<1>1. Select(s, S) \in Seq(E)
  BY SelectType
<1>2. DataOf(Select(s, S)) \in Seq(Seq(D)) /\ e.data \in Seq(D)
  BY <1>1, DataType DEF HasData
<1>3. CASE e \in S
  <2>1. Select(Append(s, e), S) = Append(Select(s, S), e)
    BY <1>3, SelectAppend
  <2>2. DataOf(Append(Select(s, S), e)) = Append(DataOf(Select(s, S)), e.data)
    BY <1>1, DataAppend
  <2>3. FlattenSeq(Append(DataOf(Select(s, S)), e.data)) = FlattenSeq(DataOf(Select(s, S))) \o e.data
    BY <1>2, FlattenAppend
  <2> QED BY <1>3, <2>1, <2>2, <2>3 DEF Joined
<1>4. CASE e \notin S
  <2>1. Select(Append(s, e), S) = Select(s, S)
    BY <1>4, SelectAppend
  <2> QED BY <1>4, <2>1 DEF Joined
<1> QED BY <1>3, <1>4

\* Joining distributes over concatenation.
LEMMA JoinedConcat ==
  ASSUME NEW D, NEW E, HasData(E, Seq(D)), NEW S, NEW r \in Seq(E), NEW s \in Seq(E)
  PROVE  Joined(r \o s, S) = Joined(r, S) \o Joined(s, S)
<1>1. Select(r, S) \in Seq(E) /\ Select(s, S) \in Seq(E)
  BY SelectType
<1>2. DataOf(Select(r, S)) \in Seq(Seq(D)) /\ DataOf(Select(s, S)) \in Seq(Seq(D))
  BY <1>1, DataType
<1>3. Select(r \o s, S) = Select(r, S) \o Select(s, S)
  BY SelectConcat
<1>4. DataOf(Select(r, S) \o Select(s, S)) = DataOf(Select(r, S)) \o DataOf(Select(s, S))
  BY <1>1, DataConcat, SMTT(60)
<1>5. FlattenSeq(DataOf(Select(r, S)) \o DataOf(Select(s, S)))
        = FlattenSeq(DataOf(Select(r, S))) \o FlattenSeq(DataOf(Select(s, S)))
  BY <1>2, FlattenConcat
<1> QED BY <1>3, <1>4, <1>5 DEF Joined

LEMMA JoinedNone ==
  ASSUME NEW E, NEW S, NEW s \in Seq(E), \A i \in 1..Len(s) : s[i] \notin S
  PROVE  Joined(s, S) = <<>>
<1>1. Select(s, S) = <<>>
  BY SelectNone
<1> QED BY <1>1, DataEmpty, FlattenEmpty DEF Joined

-----------------------------------------------------------------------------
(* Lists mapped to lists: what FlatMap and Filter are, for a function F *)

ImagesOf(s, F) == [i \in DOMAIN s |-> F[s[i]]]
Mapped(s, F) == FlattenSeq(ImagesOf(s, F))

\* F maps an element of E to a list of elements of R.
Maps(F, E, R) == \A e \in E : F[e] \in Seq(R)

LEMMA ImagesType ==
  ASSUME NEW E, NEW R, NEW F, Maps(F, E, R)
  PROVE  \A s \in Seq(E) : /\ ImagesOf(s, F) \in Seq(Seq(R)) /\ Len(ImagesOf(s, F)) = Len(s)
                           /\ \A i \in 1..Len(s) : ImagesOf(s, F)[i] = F[s[i]]
<1> TAKE s \in Seq(E)
<1>1. DOMAIN s = 1..Len(s) /\ Len(s) \in Nat /\ \A i \in 1..Len(s) : F[s[i]] \in Seq(R)
  BY LenProperties, ElementOfSeq DEF Maps
<1> QED BY <1>1, IsASeq DEF ImagesOf

LEMMA MappedEmpty == \A F : Mapped(<<>>, F) = <<>>
<1> SUFFICES ASSUME NEW F PROVE Mapped(<<>>, F) = <<>>
  OBVIOUS
<1>1. ImagesOf(<<>>, F) = <<>>
  BY DEF ImagesOf
<1> QED BY <1>1, FlattenEmpty DEF Mapped

LEMMA MappedType ==
  ASSUME NEW E, NEW R, NEW F, Maps(F, E, R)
  PROVE  \A s \in Seq(E) : Mapped(s, F) \in Seq(R)
  BY ImagesType, FlattenType DEF Mapped

LEMMA MappedAppend ==
  ASSUME NEW E, NEW R, NEW F, Maps(F, E, R), NEW s \in Seq(E), NEW e \in E
  PROVE  Mapped(Append(s, e), F) = Mapped(s, F) \o F[e]
<1> DEFINE longer == ImagesOf(Append(s, e), F)
           images == ImagesOf(s, F)
<1>1. /\ Append(s, e) \in Seq(E) /\ Len(Append(s, e)) = Len(s) + 1 /\ Len(s) \in Nat
      /\ Append(s, e)[Len(s) + 1] = e /\ \A i \in 1..Len(s) : Append(s, e)[i] = s[i]
  BY AppendProperties, LenProperties
<1>2. /\ images \in Seq(Seq(R)) /\ Len(images) = Len(s) /\ F[e] \in Seq(R)
      /\ \A i \in 1..Len(s) : images[i] = F[s[i]]
  <2>1. F[e] \in Seq(R)
    BY DEF Maps
  <2> QED BY <2>1, ImagesType
<1> HIDE DEF images
<1>3. /\ longer \in Seq(Seq(R)) /\ Len(longer) = Len(s) + 1
      /\ \A i \in 1..(Len(s) + 1) : longer[i] = F[Append(s, e)[i]]
  <2> DEFINE t == Append(s, e)
  <2>1. t \in Seq(E) /\ Len(t) = Len(s) + 1
    BY <1>1
  <2> HIDE DEF t
  <2>2. /\ ImagesOf(t, F) \in Seq(Seq(R)) /\ Len(ImagesOf(t, F)) = Len(t)
        /\ \A i \in 1..Len(t) : ImagesOf(t, F)[i] = F[t[i]]
    BY <2>1, ImagesType
  <2>3. longer = ImagesOf(t, F)
    BY DEF t
  <2> HIDE DEF longer
  <2>4. /\ longer \in Seq(Seq(R)) /\ Len(longer) = Len(s) + 1
        /\ \A i \in 1..(Len(s) + 1) : longer[i] = F[t[i]]
    BY <2>1, <2>2, <2>3
  <2> QED BY <2>4 DEF t
<1> HIDE DEF longer
<1>4. longer = Append(images, F[e])
  <2>1. Append(images, F[e]) \in Seq(Seq(R)) /\ Len(Append(images, F[e])) = Len(s) + 1
        /\ Append(images, F[e])[Len(s) + 1] = F[e]
        /\ \A i \in 1..Len(s) : Append(images, F[e])[i] = images[i]
    BY <1>2, AppendProperties
  <2>2. \A i \in 1..(Len(s) + 1) : longer[i] = Append(images, F[e])[i]
    <3> SUFFICES ASSUME NEW i \in 1..(Len(s) + 1) PROVE longer[i] = Append(images, F[e])[i]
      OBVIOUS
    <3>1. i = Len(s) + 1 \/ i \in 1..Len(s)
      BY <1>1
    <3> QED BY <1>1, <1>2, <1>3, <2>1, <3>1
  <2> QED BY <1>3, <2>1, <2>2, SeqEqual
<1> QED BY <1>2, <1>4, FlattenAppend DEF Mapped, images, longer

LEMMA MappedConcat ==
  ASSUME NEW E, NEW R, NEW F, Maps(F, E, R), NEW r \in Seq(E)
  PROVE  \A s \in Seq(E) : Mapped(r \o s, F) = Mapped(r, F) \o Mapped(s, F)
<1> DEFINE T == {s \in Seq(E) : Mapped(r \o s, F) = Mapped(r, F) \o Mapped(s, F)}
<1>1. <<>> \in T
  <2>1. Mapped(r, F) \in Seq(R)
    BY MappedType
  <2>2. r \o <<>> = r /\ Mapped(r, F) \o <<>> = Mapped(r, F) /\ <<>> \in Seq(E)
    BY <2>1, ConcatEmptySeq, EmptySeq
  <2> QED BY <2>2, MappedEmpty
<1>2. ASSUME NEW s \in Seq(E), NEW e \in E, s \in T PROVE Append(s, e) \in T
  <2>1. Append(s, e) \in Seq(E) /\ r \o s \in Seq(E) /\ r \o Append(s, e) = Append(r \o s, e)
    BY AppendProperties, ConcatProperties
  <2>2. Mapped(r, F) \in Seq(R) /\ Mapped(s, F) \in Seq(R) /\ F[e] \in Seq(R)
    BY MappedType DEF Maps
  <2>3. \A t \in Seq(E) : Mapped(Append(t, e), F) = Mapped(t, F) \o F[e]
    BY MappedAppend
  <2>4. Mapped(r \o Append(s, e), F) = (Mapped(r, F) \o Mapped(s, F)) \o F[e]
    BY <1>2, <2>1, <2>3
  <2>5. (Mapped(r, F) \o Mapped(s, F)) \o F[e] = Mapped(r, F) \o (Mapped(s, F) \o F[e])
    <3> DEFINE a == Mapped(r, F)
               b == Mapped(s, F)
               c == F[e]
    <3>1. a \in Seq(R) /\ b \in Seq(R) /\ c \in Seq(R)
      BY <2>2
    <3> HIDE DEF a, b, c
    <3>2. (a \o b) \o c = a \o (b \o c)
      BY <3>1, SMTT(60)
    <3> QED BY <3>2 DEF a, b, c
  <2> QED BY <2>1, <2>3, <2>4, <2>5
<1>3. \A s \in Seq(E) : s \in T
  <2> HIDE DEF T
  <2> QED BY <1>1, <1>2, SeqInduction
<1> QED BY <1>3

\* A list of one element.
LEMMA MappedOne ==
  ASSUME NEW E, NEW R, NEW F, Maps(F, E, R), NEW e \in E
  PROVE  Mapped(<<e>>, F) = F[e]
<1>1. <<>> \in Seq(E) /\ <<e>> = Append(<<>>, e) /\ F[e] \in Seq(R)
  BY EmptySeq DEF Maps
<1>2. Mapped(Append(<<>>, e), F) = Mapped(<<>>, F) \o F[e]
  <2>1. \A t \in Seq(E) : Mapped(Append(t, e), F) = Mapped(t, F) \o F[e]
    BY MappedAppend
  <2> QED BY <1>1, <2>1
<1> QED BY <1>1, <1>2, MappedEmpty, ConcatEmptySeq

\* Mapping twice is mapping once.
LEMMA MappedMapped ==
  ASSUME NEW E, NEW R, NEW Q, NEW F, Maps(F, E, R), NEW G, Maps(G, R, Q)
  PROVE  \A s \in Seq(E) : Mapped(Mapped(s, F), G) = Mapped(s, [e \in E |-> Mapped(F[e], G)])
<1> DEFINE H == [e \in E |-> Mapped(F[e], G)]
           T == {s \in Seq(E) : Mapped(Mapped(s, F), G) = Mapped(s, H)}
<1>1. Maps(H, E, Q) /\ \A e \in E : H[e] = Mapped(F[e], G)
  BY MappedType DEF Maps
<1> HIDE DEF H
<1>2. <<>> \in T
  BY MappedEmpty, EmptySeq
<1>3. ASSUME NEW s \in Seq(E), NEW e \in E, s \in T PROVE Append(s, e) \in T
  <2>1. Append(s, e) \in Seq(E) /\ Mapped(s, F) \in Seq(R) /\ F[e] \in Seq(R)
    BY AppendProperties, MappedType DEF Maps
  <2>2. Mapped(Append(s, e), F) = Mapped(s, F) \o F[e]
    BY MappedAppend
  <2>3. Mapped(Mapped(s, F) \o F[e], G) = Mapped(Mapped(s, F), G) \o Mapped(F[e], G)
    <3>1. \A q \in Seq(R) : Mapped(Mapped(s, F) \o q, G) = Mapped(Mapped(s, F), G) \o Mapped(q, G)
      BY <2>1, MappedConcat
    <3> QED BY <2>1, <3>1
  <2>4. Mapped(Append(s, e), H) = Mapped(s, H) \o H[e]
    BY <1>1, MappedAppend
  <2> QED BY <1>1, <1>3, <2>1, <2>2, <2>3, <2>4
<1>4. \A s \in Seq(E) : s \in T
  <2> HIDE DEF T
  <2> QED BY <1>2, <1>3, SeqInduction
<1> QED BY <1>4 DEF H

\* The function may be replaced by one that does the same to the elements there are.
LEMMA MappedSame ==
  ASSUME NEW s, NEW F, NEW G, \A i \in DOMAIN s : F[s[i]] = G[s[i]]
  PROVE  Mapped(s, F) = Mapped(s, G)
<1>1. ImagesOf(s, F) = ImagesOf(s, G)
  BY DEF ImagesOf
<1> QED BY <1>1 DEF Mapped

\* Nothing comes of elements that are mapped to nothing.
LEMMA MappedNone ==
  ASSUME NEW E, NEW R, NEW F, Maps(F, E, R)
  PROVE  \A s \in Seq(E) : (\A i \in 1..Len(s) : F[s[i]] = <<>>) => Mapped(s, F) = <<>>
<1> DEFINE T == {s \in Seq(E) : (\A i \in 1..Len(s) : F[s[i]] = <<>>) => Mapped(s, F) = <<>>}
<1>1. <<>> \in T
  BY MappedEmpty, EmptySeq
<1>2. ASSUME NEW s \in Seq(E), NEW e \in E, s \in T PROVE Append(s, e) \in T
  <2>1. /\ Append(s, e) \in Seq(E) /\ Len(Append(s, e)) = Len(s) + 1 /\ Len(s) \in Nat
        /\ Append(s, e)[Len(s) + 1] = e /\ \A i \in 1..Len(s) : Append(s, e)[i] = s[i]
    BY AppendProperties, LenProperties
  <2>2. SUFFICES ASSUME \A i \in 1..(Len(s) + 1) : F[Append(s, e)[i]] = <<>>
                 PROVE  Mapped(Append(s, e), F) = <<>>
    BY <2>1
  <2>3. F[e] = <<>>
    BY <2>1, <2>2
  <2>4. \A i \in 1..Len(s) : F[s[i]] = <<>>
    BY <2>1, <2>2
  <2>5. Mapped(s, F) = <<>>
    BY <1>2, <2>4
  <2>6. Mapped(Append(s, e), F) = Mapped(s, F) \o F[e]
    BY MappedAppend
  <2> QED BY <2>3, <2>5, <2>6
<1>3. \A s \in Seq(E) : s \in T
  <2> HIDE DEF T
  <2> QED BY <1>1, <1>2, SeqInduction
<1> QED BY <1>3

\* A selection is a mapping.
PickIn(E, S) == [e \in E |-> IF e \in S THEN <<e>> ELSE <<>>]

LEMMA SelectIsMapped ==
  ASSUME NEW E, NEW S
  PROVE  /\ Maps(PickIn(E, S), E, E)
         /\ \A s \in Seq(E) : Select(s, S) = Mapped(s, PickIn(E, S))
<1>1. Maps(PickIn(E, S), E, E)
  BY EmptySeq DEF Maps, PickIn
<1>2. ASSUME NEW s \in Seq(E) PROVE Select(s, S) = Mapped(s, PickIn(E, S))
  <2>1. \A i \in DOMAIN s : s[i] \in E
    BY LenProperties, ElementOfSeq
  <2>2. ImagesOf(s, PickIn(E, S)) = [i \in DOMAIN s |-> IF s[i] \in S THEN <<s[i]>> ELSE <<>>]
    BY <2>1 DEF ImagesOf, PickIn
  <2> QED BY <2>2 DEF Select, Mapped
<1> QED BY <1>1, <1>2

\* To map what is selected is to map the others to nothing.
LEMMA MappedSelect ==
  ASSUME NEW E, NEW R, NEW F, Maps(F, E, R), NEW S
  PROVE  \A s \in Seq(E) : Mapped(Select(s, S), F) = Mapped(s, [e \in E |-> IF e \in S THEN F[e] ELSE <<>>])
<1> DEFINE P == PickIn(E, S)
           G == [e \in E |-> IF e \in S THEN F[e] ELSE <<>>]
           H == [e \in E |-> Mapped(P[e], F)]
<1>1. Maps(P, E, E) /\ \A s \in Seq(E) : Select(s, S) = Mapped(s, P)
  BY SelectIsMapped
<1>2. \A e \in E : P[e] = IF e \in S THEN <<e>> ELSE <<>>
  BY DEF PickIn
<1> HIDE DEF P
<1>3. \A s \in Seq(E) : Mapped(Mapped(s, P), F) = Mapped(s, H)
  BY <1>1, MappedMapped
<1>4. \A e \in E : H[e] = G[e]
  <2>1. \A e \in E : Mapped(<<e>>, F) = F[e]
    BY MappedOne
  <2>2. Mapped(<<>>, F) = <<>>
    BY MappedEmpty
  <2> TAKE e \in E
  <2>3. H[e] = Mapped(P[e], F) /\ G[e] = IF e \in S THEN F[e] ELSE <<>>
    OBVIOUS
  <2> QED BY <1>2, <2>1, <2>2, <2>3
<1> HIDE DEF G, H
<1>5. \A s \in Seq(E) : Mapped(s, H) = Mapped(s, G)
  <2> TAKE s \in Seq(E)
  <2>1. \A i \in DOMAIN s : s[i] \in E
    BY LenProperties, ElementOfSeq
  <2> QED BY <1>4, <2>1, MappedSame
<1>6. \A s \in Seq(E) : Mapped(Select(s, S), F) = Mapped(s, G)
  BY <1>1, <1>3, <1>5
<1> QED BY <1>6 DEF G

\* Selecting twice is selecting once.
LEMMA SelectSelect ==
  ASSUME NEW E, NEW S, NEW T
  PROVE  \A s \in Seq(E) : Select(Select(s, S), T) = Select(s, S \cap T)
<1> TAKE s \in Seq(E)
<1> DEFINE G == [e \in E |-> IF e \in S THEN PickIn(E, T)[e] ELSE <<>>]
<1>1. Select(s, S) \in Seq(E)
  BY SelectType
<1>2. Select(Select(s, S), T) = Mapped(Select(s, S), PickIn(E, T))
  BY <1>1, SelectIsMapped
<1>3. Mapped(Select(s, S), PickIn(E, T)) = Mapped(s, G)
  BY SelectIsMapped, MappedSelect
<1>4. G = PickIn(E, S \cap T)
  BY DEF PickIn
<1>5. Mapped(s, PickIn(E, S \cap T)) = Select(s, S \cap T)
  BY SelectIsMapped
<1> QED BY <1>2, <1>3, <1>4, <1>5

\* What is selected is selected.
LEMMA SelectWithin ==
  ASSUME NEW E, NEW S
  PROVE  \A s \in Seq(E) : Select(s, S) \in Seq(S)
<1> DEFINE T == {s \in Seq(E) : Select(s, S) \in Seq(S)}
<1>1. <<>> \in T
  BY SelectEmpty, EmptySeq
<1>2. ASSUME NEW s \in Seq(E), NEW e \in E, s \in T PROVE Append(s, e) \in T
  <2>1. Append(s, e) \in Seq(E)
    BY AppendProperties
  <2>2. Select(Append(s, e), S) = IF e \in S THEN Append(Select(s, S), e) ELSE Select(s, S)
    BY SelectAppend
  <2>3. e \in S => Append(Select(s, S), e) \in Seq(S)
    BY <1>2, AppendProperties
  <2> QED BY <1>2, <2>1, <2>2, <2>3
<1>3. \A s \in Seq(E) : s \in T
  <2> HIDE DEF T
  <2> QED BY <1>1, <1>2, SeqInduction
<1> QED BY <1>3

\* A selection from what is mapped is a mapping to selections.
LEMMA SelectMapped ==
  ASSUME NEW E, NEW R, NEW F, Maps(F, E, R), NEW S
  PROVE  \A s \in Seq(E) : Select(Mapped(s, F), S) = Mapped(s, [e \in E |-> Select(F[e], S)])
<1> TAKE s \in Seq(E)
<1> DEFINE P == PickIn(R, S)
           G == [e \in E |-> Mapped(F[e], P)]
           H == [e \in E |-> Select(F[e], S)]
<1>1. Maps(P, R, R) /\ \A r \in Seq(R) : Select(r, S) = Mapped(r, P)
  BY SelectIsMapped
<1> HIDE DEF P
<1>2. Mapped(s, F) \in Seq(R)
  BY MappedType
<1>3. Mapped(Mapped(s, F), P) = Mapped(s, G)
  BY <1>1, MappedMapped
<1>4. G = H
  BY <1>1 DEF Maps
<1> HIDE DEF G, H
<1>5. Select(Mapped(s, F), S) = Mapped(s, H)
  BY <1>1, <1>2, <1>3, <1>4
<1> QED BY <1>5 DEF H

\* One element for each: a mapping that need not be flattened.
Singles(F, G, E, R) == \A e \in E : G[e] \in R /\ F[e] = <<G[e]>>

LEMMA MappedSingle ==
  ASSUME NEW E, NEW R, NEW F, NEW G, Singles(F, G, E, R)
  PROVE  \A s \in Seq(E) : Mapped(s, F) = [i \in DOMAIN s |-> G[s[i]]]
<1> DEFINE T == {s \in Seq(E) : Mapped(s, F) = ImagesOf(s, G)}
<1>0. Maps(F, E, R) /\ \A e \in E : G[e] \in R /\ F[e] = <<G[e]>>
  <2>1. \A e \in E : G[e] \in R /\ F[e] = <<G[e]>>
    BY DEF Singles
  <2>2. \A e \in E : <<G[e]>> \in Seq(R)
    BY <2>1
  <2> QED BY <2>1, <2>2 DEF Maps
<1>1. <<>> \in T
  <2>1. ImagesOf(<<>>, G) = <<>>
    BY DEF ImagesOf
  <2>2. Mapped(<<>>, F) = <<>>
    BY <1>0, MappedEmpty
  <2> QED BY <2>1, <2>2, EmptySeq
<1>2. ASSUME NEW s \in Seq(E), NEW e \in E, s \in T PROVE Append(s, e) \in T
  <2>1. /\ Append(s, e) \in Seq(E) /\ Len(Append(s, e)) = Len(s) + 1 /\ Len(s) \in Nat
        /\ Append(s, e)[Len(s) + 1] = e /\ \A i \in 1..Len(s) : Append(s, e)[i] = s[i]
        /\ DOMAIN Append(s, e) = 1..(Len(s) + 1) /\ DOMAIN s = 1..Len(s)
    BY AppendProperties, LenProperties
  <2> DEFINE a == ImagesOf(s, G)
             b == ImagesOf(Append(s, e), G)
  <2>2. /\ \A i \in 1..Len(s) : s[i] \in E
        /\ \A i \in 1..Len(s) : a[i] = G[s[i]]
        /\ \A i \in 1..(Len(s) + 1) : b[i] = G[Append(s, e)[i]]
    BY <2>1, ElementOfSeq DEF ImagesOf
  <2>3. a \in Seq(R) /\ Len(a) = Len(s)
    BY <1>0, <2>1, <2>2, IsASeq DEF ImagesOf
  <2>4. b \in Seq(R) /\ Len(b) = Len(s) + 1
    <3>1. \A i \in 1..(Len(s) + 1) : G[Append(s, e)[i]] \in R
      BY <1>0, <2>1, ElementOfSeq
    <3> QED BY <2>1, <3>1, IsASeq DEF ImagesOf
  <2>5. b[Len(s) + 1] = G[e] /\ \A i \in 1..Len(s) : b[i] = a[i]
    BY <2>1, <2>2
  <2> HIDE DEF a, b
  <2>6. b = Append(a, G[e])
    <3>1. G[e] \in R
      BY <1>0
    <3>2. Append(a, G[e]) \in Seq(R) /\ Len(Append(a, G[e])) = Len(s) + 1
          /\ Append(a, G[e])[Len(s) + 1] = G[e]
          /\ \A i \in 1..Len(s) : Append(a, G[e])[i] = a[i]
      BY <2>3, <3>1, AppendProperties
    <3>3. \A i \in 1..(Len(s) + 1) : b[i] = Append(a, G[e])[i]
      <4> TAKE i \in 1..(Len(s) + 1)
      <4>1. i = Len(s) + 1 \/ i \in 1..Len(s)
        BY <2>1
      <4> QED BY <2>5, <3>2, <4>1
    <3> QED BY <2>4, <3>2, <3>3, SeqEqual
  <2>7. Mapped(Append(s, e), F) = a \o <<G[e]>>
    <3>1. \A t \in Seq(E) : Mapped(Append(t, e), F) = Mapped(t, F) \o F[e]
      BY <1>0, MappedAppend
    <3>2. Mapped(s, F) = a
      BY <1>2 DEF a
    <3>3. F[e] = <<G[e]>>
      BY <1>0
    <3> QED BY <3>1, <3>2, <3>3
  <2>8. a \o <<G[e]>> = Append(a, G[e])
    <3>1. G[e] \in R
      BY <1>0
    <3> QED BY <2>3, <3>1
  <2> QED BY <2>1, <2>6, <2>7, <2>8 DEF b
<1>3. \A s \in Seq(E) : s \in T
  <2> HIDE DEF T
  <2> QED BY <1>1, <1>2, SeqInduction
<1> QED BY <1>3 DEF ImagesOf

\* Where the elements of a flattened list come from: the k-th is the col[k]-th of the
\* row[k]-th list, these are in order, and none is missing.
Positions(ss, row, col) ==
    LET flat == FlattenSeq(ss)
    IN /\ \A k \in 1..Len(flat) :
            /\ row[k] \in 1..Len(ss) /\ col[k] \in 1..Len(ss[row[k]])
            /\ flat[k] = ss[row[k]][col[k]]
       /\ \A k, l \in 1..Len(flat) :
            k < l => row[k] < row[l] \/ (row[k] = row[l] /\ col[k] < col[l])
       /\ \A i \in 1..Len(ss) : \A j \in 1..Len(ss[i]) :
            \E k \in 1..Len(flat) : row[k] = i /\ col[k] = j

LEMMA FlattenPositions ==
  ASSUME NEW E
  PROVE  \A ss \in Seq(Seq(E)) : \E row, col : Positions(ss, row, col)
<1> DEFINE T == {ss \in Seq(Seq(E)) : \E row, col : Positions(ss, row, col)}
<1>1. <<>> \in T
  <2>1. FlattenSeq(<<>>) = <<>> /\ Len(<<>>) = 0 /\ <<>> \in Seq(Seq(E))
    BY FlattenEmpty, EmptySeq
  <2>2. Positions(<<>>, <<>>, <<>>)
    BY <2>1 DEF Positions
  <2> QED BY <2>1, <2>2
<1>2. ASSUME NEW ss \in Seq(Seq(E)), NEW s \in Seq(E), ss \in T PROVE Append(ss, s) \in T
  <2>1. PICK row, col : Positions(ss, row, col)
    BY <1>2
  <2> DEFINE flat == FlattenSeq(ss)
             n == Len(flat)
             tt == Append(ss, s)
             r == [k \in 1..(n + Len(s)) |-> IF k <= n THEN row[k] ELSE Len(ss) + 1]
             c == [k \in 1..(n + Len(s)) |-> IF k <= n THEN col[k] ELSE k - n]
  <2>2. /\ tt \in Seq(Seq(E)) /\ Len(tt) = Len(ss) + 1 /\ Len(ss) \in Nat
        /\ tt[Len(ss) + 1] = s /\ \A i \in 1..Len(ss) : tt[i] = ss[i]
    BY AppendProperties, LenProperties
  <2>3. FlattenSeq(tt) = flat \o s
    BY FlattenAppend
  <2>4. flat \in Seq(E) /\ n \in Nat /\ Len(s) \in Nat
    BY FlattenType, LenProperties
  <2>5. /\ Len(flat \o s) = n + Len(s) /\ \A k \in 1..n : (flat \o s)[k] = flat[k]
        /\ \A k \in 1..Len(s) : (flat \o s)[n + k] = s[k]
    BY <2>4
  <2>6. /\ \A k \in 1..n : /\ row[k] \in 1..Len(ss) /\ col[k] \in 1..Len(ss[row[k]])
                            /\ flat[k] = ss[row[k]][col[k]]
        /\ \A k, l \in 1..n : k < l => row[k] < row[l] \/ (row[k] = row[l] /\ col[k] < col[l])
        /\ \A i \in 1..Len(ss) : \A j \in 1..Len(ss[i]) : \E k \in 1..n : row[k] = i /\ col[k] = j
    BY <2>1 DEF Positions
  <2>7. /\ \A k \in 1..n : r[k] = row[k] /\ c[k] = col[k]
        /\ \A k \in 1..(n + Len(s)) : k > n => r[k] = Len(ss) + 1 /\ c[k] = k - n
    BY <2>4
  <2> HIDE DEF r, c, n, flat, tt
  <2>8. \A k \in 1..(n + Len(s)) : k \in 1..n \/ (k > n /\ k - n \in 1..Len(s) /\ k = n + (k - n))
    BY <2>4
  <2>9. ASSUME NEW k \in 1..(n + Len(s))
        PROVE  /\ r[k] \in 1..Len(tt) /\ c[k] \in 1..Len(tt[r[k]])
               /\ (flat \o s)[k] = tt[r[k]][c[k]]
    <3>1. CASE k \in 1..n
      <4>1. r[k] = row[k] /\ c[k] = col[k] /\ row[k] \in 1..Len(ss) /\ row[k] \in 1..Len(tt)
            /\ tt[row[k]] = ss[row[k]]
        BY <2>2, <2>6, <2>7, <3>1
      <4>2. flat[k] = ss[row[k]][col[k]] /\ col[k] \in 1..Len(ss[row[k]])
        BY <2>6, <3>1
      <4>3. (flat \o s)[k] = flat[k]
        BY <2>5, <3>1
      <4> QED BY <4>1, <4>2, <4>3
    <3>2. CASE k > n
      <4>1. r[k] = Len(ss) + 1 /\ c[k] = k - n /\ k - n \in 1..Len(s) /\ k = n + (k - n)
        BY <2>4, <2>7, <2>8, <3>2
      <4>2. (flat \o s)[k] = s[k - n]
        BY <2>5, <4>1
      <4> QED BY <2>2, <4>1, <4>2
    <3> QED BY <2>8, <3>1, <3>2
  <2>10. ASSUME NEW k \in 1..(n + Len(s)), NEW l \in 1..(n + Len(s)), k < l
         PROVE  r[k] < r[l] \/ (r[k] = r[l] /\ c[k] < c[l])
    <3>1. CASE l \in 1..n
      <4>1. k \in 1..n
        BY <2>4, <2>10, <3>1
      <4> QED BY <2>6, <2>7, <2>10, <3>1, <4>1
    <3>2. CASE l > n /\ k \in 1..n
      <4>1. r[k] = row[k] /\ row[k] \in 1..Len(ss) /\ r[l] = Len(ss) + 1
        BY <2>6, <2>7, <3>2
      <4> QED BY <2>2, <4>1
    <3>3. CASE l > n /\ k > n
      BY <2>4, <2>7, <2>10, <3>3
    <3> QED BY <2>8, <3>1, <3>2, <3>3
  <2>11. ASSUME NEW i \in 1..Len(tt), NEW j \in 1..Len(tt[i])
         PROVE  \E k \in 1..(n + Len(s)) : r[k] = i /\ c[k] = j
    <3>1. CASE i \in 1..Len(ss)
      <4>1. PICK k \in 1..n : row[k] = i /\ col[k] = j
        BY <2>2, <2>6, <2>11, <3>1
      <4>2. k \in 1..(n + Len(s)) /\ r[k] = i /\ c[k] = j
        BY <2>4, <2>7, <4>1
      <4> QED BY <4>2
    <3>2. CASE i = Len(ss) + 1
      <4>1. j \in 1..Len(s)
        BY <2>2, <3>2
      <4>2. n + j \in 1..(n + Len(s)) /\ n + j > n /\ (n + j) - n = j
        BY <2>4, <4>1
      <4>3. r[n + j] = i /\ c[n + j] = j
        BY <2>7, <3>2, <4>2
      <4> QED BY <4>2, <4>3
    <3> QED BY <2>2, <3>1, <3>2
  <2>12. Positions(tt, r, c)
    BY <2>3, <2>5, <2>9, <2>10, <2>11 DEF Positions
  <2> QED BY <2>2, <2>12 DEF tt
<1>3. \A ss \in Seq(Seq(E)) : ss \in T
  <2> HIDE DEF T
  <2> QED BY <1>1, <1>2, SeqInduction
<1> QED BY <1>3

\* The same of a mapping: the k-th element comes from the row[k]-th.
Placed(s, F, row, col) ==
    /\ \A k \in 1..Len(Mapped(s, F)) :
         /\ row[k] \in 1..Len(s) /\ col[k] \in 1..Len(F[s[row[k]]])
         /\ Mapped(s, F)[k] = F[s[row[k]]][col[k]]
    /\ \A k, l \in 1..Len(Mapped(s, F)) :
         k < l => row[k] < row[l] \/ (row[k] = row[l] /\ col[k] < col[l])
    /\ \A i \in 1..Len(s) : \A j \in 1..Len(F[s[i]]) :
         \E k \in 1..Len(Mapped(s, F)) : row[k] = i /\ col[k] = j

LEMMA MappedPlaced ==
  ASSUME NEW E, NEW R, NEW F, Maps(F, E, R)
  PROVE  \A s \in Seq(E) : \E row, col : Placed(s, F, row, col)
<1> TAKE s \in Seq(E)
<1> DEFINE ss == ImagesOf(s, F)
<1>1. /\ ss \in Seq(Seq(R)) /\ Len(ss) = Len(s)
      /\ \A i \in 1..Len(s) : ss[i] = F[s[i]]
  BY ImagesType
<1> HIDE DEF ss
<1>2. Mapped(s, F) = FlattenSeq(ss)
  BY DEF Mapped, ss
<1>3. PICK row, col : Positions(ss, row, col)
  BY <1>1, FlattenPositions
<1> DEFINE flat == FlattenSeq(ss)
<1>4. /\ \A k \in 1..Len(flat) :
           /\ row[k] \in 1..Len(ss) /\ col[k] \in 1..Len(ss[row[k]])
           /\ flat[k] = ss[row[k]][col[k]]
      /\ \A k, l \in 1..Len(flat) :
           k < l => row[k] < row[l] \/ (row[k] = row[l] /\ col[k] < col[l])
      /\ \A i \in 1..Len(ss) : \A j \in 1..Len(ss[i]) :
           \E k \in 1..Len(flat) : row[k] = i /\ col[k] = j
  BY <1>3 DEF Positions
<1>5. flat = Mapped(s, F)
  BY <1>2
<1> HIDE DEF flat
<1>6. \A k \in 1..Len(flat) :
           /\ row[k] \in 1..Len(s) /\ col[k] \in 1..Len(F[s[row[k]]])
           /\ flat[k] = F[s[row[k]]][col[k]]
  BY <1>1, <1>4, SMTT(60)
<1>7. \A i \in 1..Len(s) : \A j \in 1..Len(F[s[i]]) :
           \E k \in 1..Len(flat) : row[k] = i /\ col[k] = j
  <2> TAKE i \in 1..Len(s)
  <2> TAKE j \in 1..Len(F[s[i]])
  <2>1. i \in 1..Len(ss) /\ j \in 1..Len(ss[i])
    BY <1>1
  <2>2. \A a \in 1..Len(ss) : \A b \in 1..Len(ss[a]) :
           \E k \in 1..Len(flat) : row[k] = a /\ col[k] = b
    BY <1>4
  <2> QED BY <2>1, <2>2
<1>8. Placed(s, F, row, col)
  BY <1>4, <1>5, <1>6, <1>7 DEF Placed
<1> QED BY <1>8

\* What is in a mapping is what is in its pieces.
LEMMA MappedElements ==
  ASSUME NEW E, NEW R, NEW F, Maps(F, E, R)
  PROVE  \A s \in Seq(E) : ToSet(Mapped(s, F)) = UNION {ToSet(F[s[i]]) : i \in 1..Len(s)}
<1> TAKE s \in Seq(E)
<1>1. PICK row, col : Placed(s, F, row, col)
  BY MappedPlaced
<1>2. Mapped(s, F) \in Seq(R) /\ DOMAIN Mapped(s, F) = 1..Len(Mapped(s, F))
  BY MappedType, LenProperties
<1>3. \A i \in 1..Len(s) : F[s[i]] \in Seq(R) /\ DOMAIN F[s[i]] = 1..Len(F[s[i]])
  BY ElementOfSeq, LenProperties DEF Maps
<1> DEFINE m == Mapped(s, F)
<1>4. /\ \A k \in 1..Len(m) : /\ row[k] \in 1..Len(s) /\ col[k] \in 1..Len(F[s[row[k]]])
                              /\ m[k] = F[s[row[k]]][col[k]]
      /\ \A i \in 1..Len(s) : \A j \in 1..Len(F[s[i]]) :
           \E k \in 1..Len(m) : row[k] = i /\ col[k] = j
  BY <1>1 DEF Placed
<1>5. ToSet(m) = {m[k] : k \in 1..Len(m)}
  BY <1>2 DEF ToSet
<1>6. \A i \in 1..Len(s) : ToSet(F[s[i]]) = {F[s[i]][j] : j \in 1..Len(F[s[i]])}
  BY <1>3 DEF ToSet
<1> HIDE DEF m
<1>7. ASSUME NEW x \in ToSet(m) PROVE x \in UNION {ToSet(F[s[i]]) : i \in 1..Len(s)}
  <2>1. PICK k \in 1..Len(m) : x = m[k]
    BY <1>5
  <2>2. row[k] \in 1..Len(s) /\ x \in {F[s[row[k]]][j] : j \in 1..Len(F[s[row[k]]])}
    BY <1>4, <2>1
  <2> QED BY <1>6, <2>2
<1>8. ASSUME NEW i \in 1..Len(s), NEW x \in ToSet(F[s[i]]) PROVE x \in ToSet(m)
  <2>1. PICK j \in 1..Len(F[s[i]]) : x = F[s[i]][j]
    BY <1>6
  <2>2. PICK k \in 1..Len(m) : row[k] = i /\ col[k] = j
    BY <1>4
  <2> QED BY <1>4, <1>5, <2>1, <2>2
<1>9. ToSet(m) = UNION {ToSet(F[s[i]]) : i \in 1..Len(s)}
  BY <1>7, <1>8
<1> QED BY <1>9 DEF m

\* What is selected is what there is of it.
LEMMA SelectElements ==
  ASSUME NEW E, NEW S
  PROVE  \A s \in Seq(E) : ToSet(Select(s, S)) = ToSet(s) \cap S
<1> TAKE s \in Seq(E)
<1> DEFINE P == PickIn(E, S)
<1>1. Maps(P, E, E) /\ Select(s, S) = Mapped(s, P) /\ \A e \in E : P[e] = IF e \in S THEN <<e>> ELSE <<>>
  <2>1. Maps(P, E, E) /\ \A r \in Seq(E) : Select(r, S) = Mapped(r, P)
    BY SelectIsMapped
  <2> QED BY <2>1 DEF PickIn
<1> HIDE DEF P
<1>2. ToSet(Mapped(s, P)) = UNION {ToSet(P[s[i]]) : i \in 1..Len(s)}
  BY <1>1, MappedElements
<1>3. \A i \in 1..Len(s) : s[i] \in E
  BY ElementOfSeq
<1>4. \A e \in E : ToSet(P[e]) = IF e \in S THEN {e} ELSE {}
  <2>1. \A x : ToSet(<<x>>) = {x} /\ ToSet(<<>>) = {}
    BY DEF ToSet
  <2> QED BY <1>1, <2>1
<1>5. ToSet(s) = {s[i] : i \in 1..Len(s)}
  <2>1. DOMAIN s = 1..Len(s)
    BY LenProperties
  <2> QED BY <2>1 DEF ToSet
<1>6. UNION {ToSet(P[s[i]]) : i \in 1..Len(s)} \subseteq {s[i] : i \in 1..Len(s)} \cap S
  <2> SUFFICES ASSUME NEW i \in 1..Len(s), NEW x \in ToSet(P[s[i]])
               PROVE  x = s[i] /\ x \in S
    OBVIOUS
  <2> QED BY <1>3, <1>4
<1>7. {s[i] : i \in 1..Len(s)} \cap S \subseteq UNION {ToSet(P[s[i]]) : i \in 1..Len(s)}
  <2> SUFFICES ASSUME NEW i \in 1..Len(s), s[i] \in S
               PROVE  \E j \in 1..Len(s) : s[i] \in ToSet(P[s[j]])
    OBVIOUS
  <2> QED BY <1>3, <1>4
<1> QED BY <1>1, <1>2, <1>5, <1>6, <1>7

\* A set may be replaced by one that has the same of the elements there are.
LEMMA SelectSame ==
  ASSUME NEW E, NEW S, NEW T, \A e \in E : e \in S <=> e \in T
  PROVE  \A s \in Seq(E) : Select(s, S) = Select(s, T)
<1> TAKE s \in Seq(E)
<1>1. \A i \in DOMAIN s : s[i] \in E
  BY ElementOfSeq, LenProperties
<1>2. \A i \in DOMAIN s : s[i] \in S <=> s[i] \in T
  BY <1>1
<1>3. [i \in DOMAIN s |-> IF s[i] \in S THEN <<s[i]>> ELSE <<>>]
        = [i \in DOMAIN s |-> IF s[i] \in T THEN <<s[i]>> ELSE <<>>]
  BY <1>2
<1> QED BY <1>3 DEF Select

\* No element stands in the list twice.
Distinct(s) == \A k, l \in 1..Len(s) : s[k] = s[l] => k = l

\* A selection from distinct elements is of distinct elements.
LEMMA SelectDistinct ==
  ASSUME NEW E, NEW S
  PROVE  \A s \in Seq(E) : Distinct(s) => Distinct(Select(s, S))
<1> SUFFICES ASSUME NEW s \in Seq(E), Distinct(s) PROVE Distinct(Select(s, S))
  OBVIOUS
<1> DEFINE P == PickIn(E, S)
           m == Select(s, S)
<1>1. Maps(P, E, E) /\ m = Mapped(s, P)
  BY SelectIsMapped
<1>2. PICK row, col : Placed(s, P, row, col)
  <2> HIDE DEF P
  <2> QED BY <1>1, MappedPlaced
<1>3. m \in Seq(E) /\ Len(m) \in Nat /\ Len(s) \in Nat
  BY SelectType, LenProperties
<1>4. \A i \in 1..Len(s) : s[i] \in E
  BY ElementOfSeq
<1>5. \A e \in E : \A j \in 1..Len(P[e]) : j = 1 /\ P[e][j] = e
  BY DEF PickIn
<1> HIDE DEF P, m
<1>6. /\ \A k \in 1..Len(m) : /\ row[k] \in 1..Len(s) /\ col[k] \in 1..Len(P[s[row[k]]])
                              /\ m[k] = P[s[row[k]]][col[k]]
      /\ \A k, l \in 1..Len(m) : k < l => row[k] < row[l] \/ (row[k] = row[l] /\ col[k] < col[l])
  BY <1>1, <1>2 DEF Placed
<1>7. \A k \in 1..Len(m) : row[k] \in 1..Len(s) /\ col[k] = 1 /\ m[k] = s[row[k]]
  BY <1>4, <1>5, <1>6, SMTT(60)
<1>8. \A k, l \in 1..Len(m) : k < l => row[k] < row[l]
  BY <1>6, <1>7
<1>9. ASSUME NEW k \in 1..Len(m), NEW l \in 1..Len(m), m[k] = m[l] PROVE k = l
  <2>1. row[k] = row[l] /\ row[k] \in Nat
    BY <1>3, <1>7, <1>9, SMTT(60) DEF Distinct
  <2>2. ~(k < l) /\ ~(l < k)
    BY <1>8, <2>1
  <2> QED BY <1>3, <2>2
<1> QED BY <1>9 DEF m, Distinct

\* A finite set, listed: every element at most once.
LEMMA ListedDistinct ==
  ASSUME NEW S, IsFiniteSet(S)
  PROVE  SetToSeq(S) \in Seq(S) /\ Distinct(SetToSeq(S))
<1>1. Cardinality(S) \in Nat /\ ExistsBijection(1..Cardinality(S), S)
  BY FS_CardinalityType
<1>2. \E f \in [1..Cardinality(S) -> S] : IsInjective(f)
  BY <1>1 DEF ExistsBijection, Bijection, Injection
<1> DEFINE f == SetToSeq(S)
<1>3. f \in [1..Cardinality(S) -> S] /\ IsInjective(f)
  BY <1>2 DEF SetToSeq
<1> HIDE DEF f
<1>4. f \in Seq(S) /\ Len(f) = Cardinality(S)
  BY <1>1, <1>3
<1>5. Distinct(f)
  BY <1>3, <1>4 DEF Distinct, IsInjective
<1> QED BY <1>4, <1>5 DEF f

\* Lists of one element and of two.
LEMMA ShortLists ==
  ASSUME NEW E
  PROVE  \A a, b \in E :
           /\ <<a>> \in Seq(E) /\ <<b>> \in Seq(E) /\ <<a, b>> \in Seq(E)
           /\ <<a>> \o <<b>> = <<a, b>>
           /\ <<a>> \o <<>> = <<a>> /\ <<>> \o <<b>> = <<b>>
           /\ Append(<<>>, a) = <<a>> /\ Append(<<>>, b) = <<b>> /\ Append(<<a>>, b) = <<a, b>>
           /\ ToSet(<<a>>) = {a} /\ ToSet(<<b>>) = {b} /\ ToSet(<<a, b>>) = {a, b}
<1> TAKE a, b \in E
<1>1. <<a>> \in Seq(E) /\ Len(<<a>>) = 1 /\ <<a>>[1] = a
  OBVIOUS
<1>2. <<b>> \in Seq(E) /\ Len(<<b>>) = 1 /\ <<b>>[1] = b
  OBVIOUS
<1>3. <<a, b>> \in Seq(E) /\ Len(<<a, b>>) = 2 /\ <<a, b>>[1] = a /\ <<a, b>>[2] = b
  OBVIOUS
<1>4. <<a>> \o <<>> = <<a>> /\ <<>> \o <<b>> = <<b>>
  BY <1>1, <1>2, ConcatEmptySeq
<1>5. Append(<<>>, a) = <<a>> /\ Append(<<>>, b) = <<b>>
  OBVIOUS
<1>6. Append(<<a>>, b) = <<a, b>>
  <2> DEFINE s == Append(<<a>>, b)
  <2>1. s \in Seq(E) /\ Len(s) = 2 /\ s[1] = a /\ s[2] = b
    BY <1>1, AppendProperties
  <2> HIDE DEF s
  <2>2. s = [i \in 1..2 |-> s[i]] /\ <<a, b>> = [i \in 1..2 |-> <<a, b>>[i]]
    BY <2>1, <1>3, LenProperties
  <2>3. \A i \in 1..2 : s[i] = <<a, b>>[i]
    BY <1>3, <2>1
  <2>4. s = <<a, b>>
    BY <2>2, <2>3
  <2> QED BY <2>4 DEF s
<1>7. ToSet(<<a>>) = {a}
  BY DEF ToSet
<1>8. ToSet(<<b>>) = {b}
  BY DEF ToSet
<1>9. ToSet(<<a, b>>) = {a, b}
  BY <1>3 DEF ToSet
<1>10. Append(<<a>>, b) = <<a>> \o <<b>>
  BY <1>1, <1>2, AppendIsConcat
<1> QED BY <1>1, <1>2, <1>3, <1>4, <1>5, <1>6, <1>7, <1>8, <1>9, <1>10

\* What is in two lists put together is what is in either.
LEMMA ConcatElements ==
  ASSUME NEW E
  PROVE  \A s, t \in Seq(E) : ToSet(s \o t) = ToSet(s) \cup ToSet(t)
<1> TAKE s, t \in Seq(E)
<1>1. Range(s \o t) = Range(s) \cup Range(t)
  BY RangeConcatenation
<1>2. \A f : Range(f) = ToSet(f)
  BY DEF Range, ToSet
<1> QED BY <1>1, <1>2
=============================================================================
