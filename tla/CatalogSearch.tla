--------------------------- MODULE CatalogSearch ---------------------------
(***************************************************************************)
(* Catalog::measurement (openchoice-core/src/catalog.rs): the binary       *)
(* search over the measurement section, one step per iteration.            *)
(* Catalog::calibration is the same loop over rows keyed by the hardware   *)
(* alone: its tables are those whose index is always 0.                    *)
(***************************************************************************)
EXTENDS CatalogImage, Measurements

CONSTANTS Tables,   \* the sections a catalog may carry
          Needles   \* the rows a caller may ask for

ASSUME SearchAssumption ==
    /\ \A table \in Tables : SectionType(table)
    /\ Needles \subseteq Row
    /\ None \notin Nat

VARIABLES table,   \* the section, never changed
          needle,  \* the row asked for, never changed
          progress, \* "search" or "done"
          lo, hi,  \* the interval still to be searched
          found    \* the position returned, or None

searchVars == <<table, needle, progress, lo, hi, found>>

Mid == (lo + hi) \div 2

SearchInit ==
    /\ table \in Tables
    /\ needle \in Needles
    /\ progress = "search"
    /\ lo = 0
    /\ hi = table.count
    /\ found = None

\* Returning `answer`.
Answer(answer) ==
    /\ progress = "search"
    /\ progress' = "done"
    /\ found' = answer
    /\ UNCHANGED <<table, needle, lo, hi>>

\* Key 0 means "unidentified": nothing is found for it.
Unidentified ==
    /\ needle.hw = 0 \/ table.count = 0
    /\ Answer(None)

\* The loop reads the middle row.
Probing ==
    /\ progress = "search"
    /\ needle.hw # 0
    /\ lo < hi

\* Mutant: the middle row stays in the upper half.
GoRight_Stays ==
    /\ Probing
    /\ Key(table.rows[Mid]) < Key(needle)
    /\ lo' = Mid
    /\ UNCHANGED <<table, needle, progress, hi, found>>

GoRight ==
    /\ Probing
    /\ Key(table.rows[Mid]) < Key(needle)
    /\ lo' = Mid + 1
    /\ UNCHANGED <<table, needle, progress, hi, found>>

\* Mutant: the last row of the lower half is lost.
GoLeft_PastOne ==
    /\ Probing
    /\ Key(table.rows[Mid]) > Key(needle)
    /\ hi' = Mid - 1
    /\ UNCHANGED <<table, needle, progress, lo, found>>

GoLeft ==
    /\ Probing
    /\ Key(table.rows[Mid]) > Key(needle)
    /\ hi' = Mid
    /\ UNCHANGED <<table, needle, progress, lo, found>>

Hit ==
    /\ Probing
    /\ Key(table.rows[Mid]) = Key(needle)
    /\ Answer(Mid)

Miss ==
    /\ needle.hw # 0
    /\ table.count # 0
    /\ ~(lo < hi)
    /\ Answer(None)

SearchNext == Unidentified \/ GoRight \/ GoLeft \/ Hit \/ Miss

SearchSpec == SearchInit /\ [][SearchNext]_searchVars

-----------------------------------------------------------------------------
SearchTypeOK ==
    /\ table \in Tables
    /\ needle \in Row
    /\ progress \in {"search", "done"}
    /\ lo \in 0..table.count
    /\ hi \in 0..table.count
    /\ found \in 0..(table.count - 1) \cup {None}

Holds(i) == i \in 0..(table.count - 1) /\ table.rows[i] = needle

\* No row outside the interval is the one asked for: what every iteration
\* throws away was rightly thrown away.
NeverDiscardsTheRow == \A i \in 0..(table.count - 1) :
    progress = "search" /\ Holds(i) => lo <= i /\ i < hi

\* The answer is the row with exactly this hardware and model, whenever the
\* section has one; for an unidentified machine, and only then, a row that is
\* there is not found.  "Zero ... simply means no measurement or calibration
\* will be found - never a wrong one" (hardware.rs, Hardware::hw_key).
FindsExactlyTheRow ==
    progress = "done" =>
        IF needle.hw = 0 THEN found = None
        ELSE IF found = None THEN \A i \in 0..(table.count - 1) : ~Holds(i)
        ELSE Holds(found)

\* An iteration leaves at most half of the interval: "about ten comparisons
\* against a thousand measurements" (catalog.rs:256-260).
Halves ==
    [][progress = "search" /\ progress' = "search" => 2 * (hi' - lo') <= hi - lo]_searchVars
=============================================================================
