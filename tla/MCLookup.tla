------------------------------ MODULE MCLookup ------------------------------
(***************************************************************************)
(* usize is scaled to 256: eight records, sixteen measurements and thirty- *)
(* two calibrations are the smallest counts whose length wraps to zero,    *)
(* nine records the smallest whose length wraps to a plausible one.        *)
(* A header field is wrong in a few images, offsets and counts in most.    *)
(*                                                                         *)
(* Every strictly sorted section over six rows is searched, in a catalog   *)
(* of three models, one of whose names begins like another's.              *)
(***************************************************************************)
EXTENDS Lookup, FiniteSets

Good(size, off, count) ==
    [size |-> size, magic |-> TRUE, version |-> 2, recSize |-> 32, off |-> off, count |-> count]

Header(r, s, m, c) ==
    [x \in SectionName |-> CASE x = "records" -> r [] x = "strings" -> s
                             [] x = "measurements" -> m [] x = "calibrations" -> c]

MCHeaders ==
    {Good(size, Header(48, so, 112, co), Header(n, sl, m, c)) :
        size \in {47, 48, 80, 136}, so \in {80, 250}, co \in {128, 250},
        n \in {0, 1, 2, 8, 9}, sl \in {0, 7}, m \in {0, 1, 16}, c \in {0, 1, 33}}

MCTwoRecords == {i \in MCHeaders : i.size = 136 /\ i.count["records"] = 2}

MCOdd ==
    MCHeaders
    \cup {[i EXCEPT !.magic = FALSE] : i \in MCTwoRecords}
    \cup {[i EXCEPT !.version = 1] : i \in MCTwoRecords}
    \cup {[i EXCEPT !.recSize = 40] : i \in MCTwoRecords}

\* Three records, a table of three bytes, and m measurements.
Whole(m) == Good(144 + 3 + 16 * m, Header(48, 144, 147, 0), Header(3, 3, m, 0))

-----------------------------------------------------------------------------
MCRows == [hw : 1..2, index : 0..2]
MCNeedles == [hw : 0..3, index : {0}]

\* The element of S that exactly i others come before.
Nth(S, i) ==
    CHOOSE r \in S : Cardinality({other \in S : Key(other) < Key(r)}) = i

TableOf(S) ==
    [count |-> Cardinality(S), rows |-> [i \in 0..(Cardinality(S) - 1) |-> Nth(S, i)]]

MCSorted == {TableOf(S) : S \in SUBSET MCRows}

\* Sixteen rows, for the images that claim as many.
MCLong == [count |-> 16, rows |-> [i \in 0..15 |-> [hw |-> i, index |-> 1]]]
MCTables == MCSorted \cup {MCLong}

MCNames == <<<<"q", "w">>, <<"q">>, <<"g">>>>
MCQueries == {<<>>, <<"q">>, <<"w">>, <<"g">>, <<"z">>}

OneRow == TableOf({[hw |-> 1, index |-> 0]})
TableFor(count) == CASE count = 0 -> TableOf({}) [] count = 1 -> OneRow [] count = 16 -> MCLong
\* Where there is no string table, every name is empty.
NamesFor(i) ==
    [k \in 1..i.count["records"] |->
        IF i.count["strings"] = 0 THEN <<>> ELSE IF k = 1 THEN <<"q", "w">> ELSE <<"q">>]

MCCatalogs ==
    {<<i, TableFor(i.count["measurements"]), NamesFor(i)>> : i \in MCOdd}
    \cup {<<Whole(t.count), t, MCNames>> : t \in MCSorted}
MCImages == {c[1] : c \in MCCatalogs}
=============================================================================
