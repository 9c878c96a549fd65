-------------------------------- MODULE Lists --------------------------------
(***************************************************************************)
(* Sequences taken apart and put together.  Both operators are stated over *)
(* FlattenSeq, and a selection is made by a set rather than by a predicate:*)
(* what is proved of them once holds of every use.                         *)
(***************************************************************************)
EXTENDS Naturals, SequencesExt

\* Concatenates f of every element of s.
FlatMap(s, f(_)) == FlattenSeq([i \in DOMAIN s |-> f(s[i])])

\* The elements of s that pass the test.
Filter(s, Test(_)) == FlatMap(s, LAMBDA x : IF Test(x) THEN <<x>> ELSE <<>>)

\* The elements of s that are in S, in the order in which they are in s.
Select(s, S) == FlattenSeq([i \in DOMAIN s |-> IF s[i] \in S THEN <<s[i]>> ELSE <<>>])

\* The data of the records in s.
DataOf(s) == [i \in DOMAIN s |-> s[i].data]

\* The data of those that are in S, joined.
Joined(s, S) == FlattenSeq(DataOf(Select(s, S)))
=============================================================================
