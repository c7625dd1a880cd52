---------------------------- MODULE MCReportBuf ----------------------------
(***************************************************************************)
(* Buffers from nothing to one that holds the longest report, characters   *)
(* of one and of three bytes, and pages of up to two rows.                 *)
(***************************************************************************)
EXTENDS ReportBuf

Char(c) == [says |-> c, width |-> 1]
Wide(c) == [says |-> c, width |-> 3]

MCCharacters ==
    {Char(c) : c \in {"M", "Q", "*", "^", "(", ")", "n", "o", "a", "b", "c", "d", "e", "7", "9"}}
    \cup {Wide(c) : c \in {"-", "e"}}

MCHeading == <<<<Char("M")>>, <<Char("Q")>>>>
MCLegend == <<<<Char("*"), Char("^")>>>>
MCNotice == <<<<Char("("), Wide("-"), Char(")")>>>>
MCNothing == <<<<Char("n"), Char("o")>>>>

Plain ==
    [pieces |-> <<<<Char("a"), Char("b"), Char("c"), Char("d"), Char("e")>>, <<Char("7")>>>>,
     marked |-> FALSE]
Accented == [pieces |-> <<<<Char("e"), Wide("e")>>, <<Char("9")>>>>, marked |-> TRUE]

MCTables == {<<>>, <<Plain>>, <<Accented>>, <<Accented, Plain>>, <<Plain, Accented>>}
MCCapacities == 0..17

\* Room for the heading, a row and the notice.
MCRoomy == 13..17
=============================================================================
