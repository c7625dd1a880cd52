----------------------------- MODULE ReportBuf -----------------------------
(***************************************************************************)
(* The device's fixed-capacity report (openchoice-embedded/src/lib.rs,     *)
(* `ReportBuf`) and `Console::rank`, the report that fills it.             *)
(*                                                                         *)
(* A character is a record of what it says and its width in UTF-8 bytes; a *)
(* write is a sequence of characters.  core::fmt hands write_str one piece *)
(* of a formatted line at a time, so a line is a sequence of pieces.       *)
(* capacity is N, the buffer's size in bytes: a session may own a buffer   *)
(* of any size, so it is chosen once, in Init.                             *)
(***************************************************************************)
EXTENDS Data, SequencesExt

CONSTANTS
    Characters, \* what a report is written in
    Capacities, \* buffer sizes in bytes
    Heading,    \* the table's heading, as pieces
    Legend,     \* the line that explains the provenance marks
    Notice,     \* "(truncated - lower `limit`)"
    Nothing,    \* what is written when no model runs
    Tables      \* the lists of rows a ranking may print; a row is a record
                \* of its pieces and of whether it carries a provenance mark

MaxWidth == 4

\* A line is written in pieces, a piece is a sequence of characters.
Pieces == Seq(Seq(Characters))

ASSUME CapacitiesAssumption == Capacities \subseteq Nat
ASSUME CharactersAssumption == \A c \in Characters : c.width \in 1..MaxWidth
ASSUME PagesAssumption ==
    /\ {Heading, Legend, Notice, Nothing} \subseteq Pieces
    /\ \A table \in Tables : table \in Seq([pieces : Pieces, marked : BOOLEAN])

VARIABLES
    capacity,   \* N
    text,       \* the characters held: buf[..len]
    overflowed,
    asked,      \* history: every character written since the last clear
    pc,         \* where `rank` is
    rows,       \* rows still to print
    marked,     \* any_measured
    pieces,     \* pieces of the line being formatted, still to write
    ranking     \* history: the rows the answer is about

vars == <<capacity, text, overflowed, asked, pc, rows, marked, pieces, ranking>>

Bytes(s) == Total([i \in DOMAIN s |-> s[i].width])

\* Mutant: what fits is taken from the end of the write.
Fitting_Tail(s, space) ==
    CHOOSE p \in Suffixes(s) :
        /\ Bytes(p) <= space
        /\ \A q \in Suffixes(s) : Bytes(q) <= space => Len(q) <= Len(p)

\* The longest prefix of s that fits in `space` bytes: write_str copies up to
\* a character boundary.
Fitting(s, space) ==
    CHOOSE p \in Prefixes(s) :
        /\ Bytes(p) <= space
        /\ \A q \in Prefixes(s) : Bytes(q) <= space => Len(q) <= Len(p)

\* Mutant: the flag only remembers the last write.
Write_ForgetsOverflow(s) ==
    LET space == capacity - Bytes(text)
    IN  /\ asked' = asked \o s
        /\ text' = text \o Fitting(s, space)
        /\ overflowed' = (Bytes(s) > space)

\* Mutant: a write that does not fit is dropped whole.
Write_AllOrNothing(s) ==
    LET space == capacity - Bytes(text)
    IN  /\ asked' = asked \o s
        /\ text' = text \o (IF Bytes(s) > space THEN <<>> ELSE s)
        /\ overflowed' = (overflowed \/ Bytes(s) > space)

\* write_str
Write(s) ==
    LET space == capacity - Bytes(text)
    IN  /\ asked' = asked \o s
        /\ text' = text \o Fitting(s, space)
        /\ overflowed' = (overflowed \/ Bytes(s) > space)

-----------------------------------------------------------------------------
Init ==
    /\ capacity \in Capacities
    /\ text = <<>> /\ overflowed = FALSE /\ asked = <<>>
    /\ pc = "idle" /\ rows = <<>> /\ marked = FALSE /\ pieces = <<>>
    /\ ranking = <<>>

\* handle clears the buffer; rank collects the rows it will print.
Ask(table) ==
    /\ pc = "idle"
    /\ text' = <<>> /\ overflowed' = FALSE /\ asked' = <<>>
    /\ rows' = table /\ marked' = FALSE /\ ranking' = table
    /\ pieces' = IF table = <<>> THEN Nothing ELSE Heading
    /\ pc' = IF table = <<>> THEN "last" ELSE "rows"
    /\ UNCHANGED capacity

\* One piece of the line in hand.
Emit ==
    /\ pieces # <<>>
    /\ Write(Head(pieces))
    /\ pieces' = Tail(pieces)
    /\ UNCHANGED <<capacity, pc, rows, marked, ranking>>

\* Mutant: the last row decides whether the marks are explained.
Row_LastMarkDecides ==
    /\ pc = "rows" /\ pieces = <<>> /\ rows # <<>>
    /\ pieces' = Head(rows).pieces
    /\ marked' = Head(rows).marked
    /\ rows' = Tail(rows)
    /\ UNCHANGED <<capacity, text, overflowed, asked, pc, ranking>>

Row ==
    /\ pc = "rows" /\ pieces = <<>> /\ rows # <<>>
    /\ pieces' = Head(rows).pieces
    /\ marked' = (marked \/ Head(rows).marked)
    /\ rows' = Tail(rows)
    /\ UNCHANGED <<capacity, text, overflowed, asked, pc, ranking>>

Explain ==
    /\ pc = "rows" /\ pieces = <<>> /\ rows = <<>>
    /\ pieces' = IF marked THEN Legend ELSE <<>>
    /\ pc' = "notice"
    /\ UNCHANGED <<capacity, text, overflowed, asked, rows, marked, ranking>>

Warn ==
    /\ pc = "notice" /\ pieces = <<>>
    /\ pieces' = IF overflowed THEN Notice ELSE <<>>
    /\ pc' = "last"
    /\ UNCHANGED <<capacity, text, overflowed, asked, rows, marked, ranking>>

Done ==
    /\ pc = "last" /\ pieces = <<>>
    /\ pc' = "idle"
    /\ UNCHANGED <<capacity, text, overflowed, asked, rows, marked, pieces, ranking>>

Next == (\E table \in Tables : Ask(table)) \/ Emit \/ Row \/ Explain \/ Warn \/ Done

Spec == Init /\ [][Next]_vars

-----------------------------------------------------------------------------
(***************************************************************************)
(* Properties                                                              *)
(***************************************************************************)

\* The buffer never holds more bytes than it has, so write_str's copies stay
\* in bounds and its subtraction N - len never underflows (lib.rs:80, 88).
TypeOK ==
    /\ capacity \in Capacities
    /\ text \in Seq(Characters) /\ asked \in Seq(Characters)
    /\ Bytes(text) <= capacity
    /\ pieces \in Pieces
    /\ rows \in Seq([pieces : Pieces, marked : BOOLEAN])
    /\ ranking \in Seq([pieces : Pieces, marked : BOOLEAN])
    /\ overflowed \in BOOLEAN /\ marked \in BOOLEAN
    /\ pc \in {"idle", "rows", "notice", "last"}

\* overflowed says exactly whether anything asked for is missing from what
\* the reader sees, over a whole report of many writes (lib.rs:62-66, 90).
OverflowedIffSomethingIsMissing == overflowed <=> text # asked

\* A report is only cut when the buffer is full to within one character: a
\* line that would have fitted is never lost to an earlier one that did not.
CutOnlyWhenFull == overflowed => Bytes(text) > capacity - MaxWidth

\* What the reader sees is what was written, up to the cut; the writes after
\* the cut can only leave a remainder shorter than one character, in the gap
\* write_str left by stopping on a character boundary (lib.rs:82-86).
CleanUpToTheCut ==
    \E p \in Prefixes(text) :
        IsPrefix(p, asked) /\ Bytes(text) - Bytes(p) < MaxWidth

\* The page of a ranking: the heading and the rows in their order, with the
\* marks explained if a row carries one; or that nothing runs.
Page(table) ==
    IF table = <<>> THEN Joined(Nothing)
    ELSE Joined(Heading)
         \o Joined([i \in DOMAIN table |-> Joined(table[i].pieces)])
         \o (IF \E i \in DOMAIN table : table[i].marked THEN Joined(Legend) ELSE <<>>)

\* A page that fits is what the reader sees, all of it and nothing else: no
\* notice, and nothing of an earlier answer in the same buffer, its overflow
\* included.  One that does not fit is flagged, and the notice asked for; so
\* the flag, raised write by write, says what the size of the whole page says
\* (lib.rs:64-69, 80-95, 392-438).
AnswersAreWhole ==
    [][pc # "idle" /\ pc' = "idle" =>
        IF Bytes(Page(ranking)) <= capacity
        THEN text = Page(ranking) /\ ~overflowed
        ELSE /\ overflowed
             /\ asked = Page(ranking) \o (IF ranking = <<>> THEN <<>> ELSE Joined(Notice))]_vars

\* The crate's promise (lib.rs:62-63, and tests/console.rs:182-183): a
\* truncated table says on its face that it was truncated.
TruncatedTableSaysSo ==
    (pc = "idle" /\ overflowed /\ IsPrefix(Heading[1], asked)) =>
        IsSuffix(Joined(Notice), text)
=============================================================================
