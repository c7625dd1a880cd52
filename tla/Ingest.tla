------------------------------- MODULE Ingest -------------------------------
(***************************************************************************)
(* Ingesting community benchmarks (openchoice-catalog/src/community.rs,    *)
(* `ingest`): files are read in the order the directory lists them, which  *)
(* is any order; a result is resolved to a catalog index through the key   *)
(* its model's name normalises to; results are grouped by machine and      *)
(* model; the groups are reduced to one measurement each, and the ratios   *)
(* of measured to predicted throughput to one calibration factor per       *)
(* machine.  It runs inside a build, which says when it starts (Packer).   *)
(*                                                                         *)
(* A file is what parsing it gives: whether it is a submission at all, the *)
(* name and memory of its machine, and its results.  A result is a model's *)
(* name, the throughput in tenths (0 when absent or not positive), the     *)
(* time to first token (0 when absent), and what the engine predicts for   *)
(* that machine (0: nothing).                                              *)
(***************************************************************************)
EXTENDS Names, Measurements, Data

CONSTANTS
    None,
    HwKey,      \* hw_key of each machine name; two spellings may share one
    Paths,      \* the .json files under the directory
    Contents    \* what each holds

Machines == {HwKey[name] : name \in DOMAIN HwKey}
U16Max == 65535
U8Max  == 255

AllResults == UNION {Range(Contents[path].results) : path \in Paths}

\* The key of each name submitted.
KeyOf == [name \in {r.model : r \in AllResults} |-> NormalizeModel(name)]

\* A hw_key is a u32, and never 0.
ASSUME MachinesAssumption ==
    Machines \subseteq Nat \ {0} /\ IsFiniteSet(Machines) /\ None \notin Machines

Result == [model : Seq(STRING), tps : Nat, ttft : Nat, predicted : Nat]

File == [submission : BOOLEAN, name : DOMAIN HwKey \cup {None}, ram : Nat, results : Seq(Result)]

ASSUME ContentsAssumption == \A path \in Paths : Contents[path] \in File

VARIABLES
    index,      \* index_by_key
    todo,       \* files the walk has still to hand over
    reading,    \* "idle", "walk", "file" or "done"
    machine,    \* the machine of the file in hand
    results,    \* its results still to be read
    grouped,    \* samples by machine and model, of those that have any
    ratios,     \* measured over predicted, by machine
    counts,     \* files, results, matched and unmatched
    output      \* what is returned: measurements and calibrations

ingest == <<index, todo, reading, machine, results, grouped, ratios, counts, output>>

-----------------------------------------------------------------------------
(***************************************************************************)
(* Reduction of a group                                                    *)
(***************************************************************************)
Saturated(x) == IF x > U16Max THEN U16Max ELSE x

\* By throughput, slowest first; stable, as Rust's sort_by is.
ByThroughput(s) ==
    LET slower == {p \in (DOMAIN s) \X (DOMAIN s) :
                      \/ s[p[1]].tps < s[p[2]].tps
                      \/ s[p[1]].tps = s[p[2]].tps /\ p[1] < p[2]}
        order == Arranged(DOMAIN s, slower)
    IN  [k \in DOMAIN s |-> s[order[k]]]

\* The element at len / 2 of a vector.
Middle(s) == s[(Len(s) \div 2) + 1]

\* Mutant: nothing is sorted before the middle is taken.
TheSample_Unsorted(samples) == Middle(samples)

\* The sample a group is reduced to: the middle one by throughput.
TheSample(samples) == Middle(ByThroughput(samples))

\* The times to first token, in the order of the throughputs; 0 when no
\* sample has one.
TheTtft(samples) ==
    LET ttfts == SelectSeq([k \in DOMAIN samples |-> ByThroughput(samples)[k].ttft],
                           LAMBDA t : t > 0)
    IN  IF ttfts = <<>> THEN 0 ELSE Middle(ttfts)

\* Mutant: the quant of a group is that of whichever result came first.
MeasurementOf_FirstQuant(pair) ==
    [hw |-> pair[1], index |-> pair[2],
     tps |-> Saturated(TheSample(grouped[pair]).tps),
     ttft |-> Saturated(TheTtft(grouped[pair])),
     quant |-> grouped[pair][1].quant]

MeasurementOf(pair) ==
    [hw |-> pair[1], index |-> pair[2],
     tps |-> Saturated(TheSample(grouped[pair]).tps),
     ttft |-> Saturated(TheTtft(grouped[pair])),
     quant |-> TheSample(grouped[pair]).quant]

\* Mutant: the key is packed the other way round: (model_index << 32) | hw_key.
Below_ByModel(a, b) == a[2] < b[2] \/ (a[2] = b[2] /\ a[1] < b[1])

\* The order of (hw_key << 32) | model_index.
Below(a, b) == a[1] < b[1] \/ (a[1] = b[1] /\ a[2] < b[2])

MeasurementRows ==
    LET below == {p \in (DOMAIN grouped) \X (DOMAIN grouped) : Below(p[1], p[2])}
        pairs == Arranged(DOMAIN grouped, below)
    IN  [k \in DOMAIN pairs |-> MeasurementOf(pairs[k])]

\* Mutant: one sample is enough for a factor.
Calibrated_FromOne(hw) == Len(ratios[hw]) >= 1

\* One sample is an anecdote, not a factor.
Calibrated(hw) == Len(ratios[hw]) >= 2

\* A ratio is a rational number: <<measured, predicted>>.
LessRatio(r, s) == r[1] * s[2] < s[1] * r[2]

\* The middle ratio in thousandths, rounded; the band of Plausible is that of
\* the clamp.
Factor(hw) ==
    LET rs == ratios[hw]
        less == {p \in (DOMAIN rs) \X (DOMAIN rs) :
                    \/ LessRatio(rs[p[1]], rs[p[2]])
                    \/ ~LessRatio(rs[p[2]], rs[p[1]]) /\ p[1] < p[2]}
        r == rs[Middle(Arranged(DOMAIN rs, less))]
    IN  (2000 * r[1] + r[2]) \div (2 * r[2])

Calibrations ==
    LET hws == Arranged({hw \in Machines : Calibrated(hw)},
                        {p \in Machines \X Machines : p[1] < p[2]})
    IN  [k \in DOMAIN hws |-> [hw |-> hws[k], factor |-> Factor(hws[k]),
                               samples |-> IF Len(ratios[hws[k]]) > U8Max
                                           THEN U8Max ELSE Len(ratios[hws[k]])]]

-----------------------------------------------------------------------------
(***************************************************************************)
(* Reading the files                                                       *)
(***************************************************************************)
IngestInit ==
    /\ index = <<>>
    /\ todo = Paths
    /\ reading = "idle"
    /\ machine = None /\ results = <<>>
    /\ grouped = <<>>
    /\ ratios = [hw \in Machines |-> <<>>]
    /\ counts = [files |-> 0, results |-> 0, matched |-> 0, unmatched |-> 0]
    /\ output = [measurements |-> <<>>, calibrations |-> <<>>]

\* machine_from: a machine without a name or without memory is nobody's.
MachineOf(file) == IF file.name = None \/ file.ram = 0 THEN None ELSE HwKey[file.name]

\* One bad file does not stop the build.
SkipMalformed(path) ==
    /\ reading = "walk" /\ path \in todo
    /\ ~Contents[path].submission
    /\ todo' = todo \ {path}
    /\ UNCHANGED <<index, reading, machine, results, grouped, ratios, counts, output>>

\* A submission from nobody is counted only.
SkipAnonymous(path) ==
    /\ reading = "walk" /\ path \in todo
    /\ Contents[path].submission /\ MachineOf(Contents[path]) = None
    /\ todo' = todo \ {path}
    /\ counts' = [counts EXCEPT !.files = @ + 1]
    /\ UNCHANGED <<index, reading, machine, results, grouped, ratios, output>>

TakeFile(path) ==
    /\ reading = "walk" /\ path \in todo
    /\ Contents[path].submission /\ MachineOf(Contents[path]) # None
    /\ todo' = todo \ {path}
    /\ counts' = [counts EXCEPT !.files = @ + 1]
    /\ machine' = MachineOf(Contents[path])
    /\ results' = Contents[path].results
    /\ reading' = "file"
    /\ UNCHANGED <<index, grouped, ratios, output>>

\* The results in hand are read in their order.
Reading(r) ==
    /\ reading = "file" /\ results # <<>>
    /\ r = Head(results) /\ results' = Tail(results)
    /\ UNCHANGED <<index, todo, reading, machine, output>>

Immeasurable(r) ==
    /\ Reading(r)
    /\ r.tps = 0
    /\ counts' = [counts EXCEPT !.results = @ + 1]
    /\ UNCHANGED <<grouped, ratios>>

\* index_by_key knows the key of the name.
Matches(r) == KeyOf[r.model] \in DOMAIN index

Unmatched(r) ==
    /\ Reading(r)
    /\ r.tps > 0 /\ ~Matches(r)
    /\ counts' = [counts EXCEPT !.results = @ + 1, !.unmatched = @ + 1]
    /\ UNCHANGED <<grouped, ratios>>

\* Ratios outside this band mean the pairing was misidentified.
Plausible(r) == r.predicted > 0 /\ 20 * r.tps >= r.predicted /\ r.tps <= 5 * r.predicted

SampleOf(r) == [tps |-> r.tps, ttft |-> r.ttft, quant |-> QuantFromName(r.model)]

Record(r) ==
    /\ Reading(r)
    /\ r.tps > 0 /\ Matches(r)
    /\ counts' = [counts EXCEPT !.results = @ + 1, !.matched = @ + 1]
    /\ LET pair == <<machine, index[KeyOf[r.model]]>>
       IN  grouped' = [p \in DOMAIN grouped \cup {pair} |->
                          (IF p \in DOMAIN grouped THEN grouped[p] ELSE <<>>)
                          \o (IF p = pair THEN <<SampleOf(r)>> ELSE <<>>)]
    /\ ratios' = IF Plausible(r)
                 THEN [ratios EXCEPT ![machine] = Append(@, <<r.tps, r.predicted>>)]
                 ELSE ratios

EndOfFile ==
    /\ reading = "file" /\ results = <<>>
    /\ reading' = "walk"
    /\ UNCHANGED <<index, todo, machine, results, grouped, ratios, counts, output>>

IngestStep ==
    \/ \E path \in Paths : SkipMalformed(path) \/ SkipAnonymous(path) \/ TakeFile(path)
    \/ \E r \in AllResults : Immeasurable(r) \/ Unmatched(r) \/ Record(r)
    \/ EndOfFile

Reduce ==
    /\ reading = "walk" /\ todo = {}
    /\ reading' = "done"
    /\ output' = [measurements |-> MeasurementRows, calibrations |-> Calibrations]
    /\ UNCHANGED <<index, todo, machine, results, grouped, ratios, counts>>

-----------------------------------------------------------------------------
(***************************************************************************)
(* Properties                                                              *)
(***************************************************************************)

\* Everything the submissions say of a machine and a catalog index, whatever
\* file it is in.
Submitted(hw, i) ==
    {source \in UNION {{path} \X DOMAIN Contents[path].results : path \in Paths} :
        LET file == Contents[source[1]]
            r == file.results[source[2]]
        IN  /\ file.submission /\ MachineOf(file) = hw
            /\ r.tps > 0 /\ Matches(r) /\ index[KeyOf[r.model]] = i}

At(source) == Contents[source[1]].results[source[2]]

\* The step that returns.
Returns == reading # "done" /\ reading' = "done"

\* Fewer than half of the submissions for the row are faster, at most half
\* slower.
StatesTheMedian(row) ==
    LET sources == Submitted(row.hw, row.index)
    IN  /\ 2 * Cardinality({s \in sources : At(s).tps < row.tps}) <= Cardinality(sources)
        /\ 2 * Cardinality({s \in sources : Saturated(At(s).tps) > row.tps})
           < Cardinality(sources)

\* The throughput reported for a machine and a model is a median of all that
\* was submitted for them, in whatever order the files were read (398-403).
ReportedThroughputIsTheMedian ==
    [][Returns => \A row \in Range(output'.measurements) : StatesTheMedian(row)]_ingest

\* A row's throughput was observed at the quant the row states: the reader
\* reports it as measured, or rescales it, on the strength of that quant
\* (speed.rs:117-136).
ThroughputWasObservedAtItsQuant ==
    [][Returns =>
        \A row \in Range(output'.measurements) :
            \E s \in Submitted(row.hw, row.index) :
                /\ Saturated(At(s).tps) = row.tps
                /\ QuantFromName(At(s).model) = row.quant]_ingest

SectionOf(rows) == [count |-> Len(rows), rows |-> [i \in 0..(Len(rows) - 1) |-> rows[i + 1]]]

\* The rows are in strictly increasing (hw_key, model_index) order, and so are
\* the calibrations: the sections are of the kind module CatalogSearch assumes
\* of every catalog it searches (catalog.rs:192-196).
RowsAreReadyToSearch ==
    LET measured(k) == [hw |-> output.measurements[k].hw, index |-> output.measurements[k].index]
        calibrated(k) == [hw |-> output.calibrations[k].hw, index |-> 0]
    IN  /\ SectionType(SectionOf([k \in DOMAIN output.measurements |-> measured(k)]))
        /\ SectionType(SectionOf([k \in DOMAIN output.calibrations |-> calibrated(k)]))

\* A machine's factor rests on at least two plausible results, at least one no
\* larger and one no smaller, and never exceeds the band (382-391, 431-443).
FactorsAreSupported ==
    \A c \in Range(output.calibrations) :
        /\ Len(ratios[c.hw]) >= 2
        /\ c.factor \in 50..5000
        /\ \E r \in Range(ratios[c.hw]) : 1000 * r[1] <= (c.factor + 1) * r[2]
        /\ \E r \in Range(ratios[c.hw]) : 1000 * r[1] >= (c.factor - 1) * r[2]
=============================================================================
