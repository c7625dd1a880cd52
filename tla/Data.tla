-------------------------------- MODULE Data --------------------------------
(***************************************************************************)
(* What several components do with a sequence or a set of values: add up   *)
(* numbers, join sequences, and put values in an order.  (The community    *)
(* modules do that through FoldLeft and SortSeq, of which the provers know *)
(* nothing.)                                                               *)
(***************************************************************************)
EXTENDS Integers, Sequences, FiniteSets

\* Numbers added up one after the other.
Total(s) ==
    LET sum[i \in 0..Len(s)] == IF i = 0 THEN 0 ELSE sum[i - 1] + s[i]
    IN  sum[Len(s)]

\* Sequences one after the other.
Joined(ss) ==
    LET join[i \in 0..Len(ss)] == IF i = 0 THEN <<>> ELSE join[i - 1] \o ss[i]
    IN  join[Len(ss)]

\* The members of S from first to last: the k-th is the one that k - 1 come
\* before.  <<x, y>> is in `before` when x comes before y.
Arranged(S, before) ==
    [k \in 1..Cardinality(S) |->
        CHOOSE x \in S : Cardinality({y \in S : <<y, x>> \in before}) = k - 1]
=============================================================================
