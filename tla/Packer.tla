------------------------------- MODULE Packer -------------------------------
(***************************************************************************)
(* Building a catalog (openchoice-catalog/src/main.rs, `build`): source    *)
(* entries are filtered, sorted and cut, packed once without measurements  *)
(* so that submissions can be resolved against them, packed again with the *)
(* measurements, written, and parsed back.                                 *)
(*                                                                         *)
(* A source entry keeps what decides anything: its name, its download      *)
(* count, whether its pipeline is one of text, and its parameter counts.   *)
(* Names are numbers in alphabetical order (0 is the empty name), spelt as *)
(* module Names spells them.  The ingest is module Ingest's, one result at *)
(* a time.                                                                 *)
(***************************************************************************)
EXTENDS Ingest

CONSTANTS
    USize,
    Sources,    \* the source lists a build may be given
    Options,    \* min_downloads, all_pipelines, top and community
    Spelling,   \* the lexemes of each name
    Million     \* 1_000_000, in the unit parameters are counted in

ASSUME MillionAssumption == Million \in Nat \ {0}

NUL == "NUL"

\* No name holds the character that ends it in the string table.
ASSUME SpellingAssumption ==
    Spelling \in Seq(Seq(STRING)) /\ \A name \in DOMAIN Spelling : NUL \notin Range(Spelling[name])

\* What serde makes of an entry; an absent number is 0.
SourceEntry ==
    [name : {0} \cup DOMAIN Spelling, downloads : Nat, params : Nat, text : BOOLEAN,
     moe : BOOLEAN, active : Nat, experts : Nat \cup {None}]

\* Indices into a catalog are u32, and one is packed into the low half of a key.
ASSUME SourcesAssumption ==
    \A entries \in Sources : entries \in Seq(SourceEntry) /\ Len(entries) <= Span

ASSUME OptionsAssumption ==
    Options \subseteq [minDownloads : Nat, allPipelines : BOOLEAN,
                       top : Nat \cup {None}, community : BOOLEAN]

VARIABLES
    source, options,
    pc,             \* what build does next
    kept,           \* the entries that earned a slot
    base,           \* the first packing, without measurements
    bytes,          \* the second packing
    disk,           \* what the build has put at the output path (None: nothing)
    outcome         \* "none", "ok", "error" or "killed"

vars == <<source, options, pc, kept, base, bytes, disk, outcome, ingest>>

\* The key of each name of the source.
SourceKey == [name \in DOMAIN Spelling |-> NormalizeModel(Spelling[name])]

-----------------------------------------------------------------------------
(***************************************************************************)
(* Selection                                                               *)
(***************************************************************************)
\* Whether a source entry earns a slot.
Keep(m) ==
    /\ m.name # 0
    /\ m.params >= Million
    /\ m.downloads >= options.minDownloads
    /\ options.allPipelines \/ m.text

Eligible == {i \in DOMAIN source : Keep(source[i])}

\* Most downloaded first, then by name; the sort is stable.
Earlier(i, j) ==
    \/ source[i].downloads > source[j].downloads
    \/ source[i].downloads = source[j].downloads /\ source[i].name < source[j].name
    \/ source[i].downloads = source[j].downloads /\ source[i].name = source[j].name /\ i < j

Sorted(ids) ==
    LET order == Arranged(ids, {p \in ids \X ids : Earlier(p[1], p[2])})
    IN  [k \in DOMAIN order |-> source[order[k]]]

Cut(ms) == IF options.top = None \/ options.top >= Len(ms)
           THEN ms ELSE SubSeq(ms, 1, options.top)

\* Mutant: the list is cut before it is sorted.
Selection_CutFirst ==
    Sorted({i \in Eligible :
               \/ options.top = None
               \/ Cardinality({j \in Eligible : j < i}) < options.top})

Selection == Cut(Sorted(Eligible))

-----------------------------------------------------------------------------
(***************************************************************************)
(* Packing                                                                 *)
(***************************************************************************)
DivRound(value) ==
    LET rounded == (value + Million \div 2) \div Million
    IN  IF rounded = 0 /\ value > 0 THEN 1 ELSE rounded

AtLeast(a, b) == IF a >= b THEN a ELSE b

\* Mutant: one expert of one is a slice.
Active_AllExperts(m) ==
    LET params == DivRound(m.params)
        stated == DivRound(m.active)
        experts == IF m.experts = None THEN 8 ELSE AtLeast(m.experts, 1)
    IN  IF ~m.moe THEN params
        ELSE IF stated > 0 THEN stated
        ELSE AtLeast(AtLeast(params \div experts, params \div 16), 1)

\* The parameters that move per token: a sparse model that does not state
\* them moves its expert share.
Active(m) ==
    LET params == DivRound(m.params)
        stated == DivRound(m.active)
        experts == IF m.experts = None THEN 8 ELSE AtLeast(m.experts, 2)
    IN  IF ~m.moe THEN params
        ELSE IF stated > 0 THEN stated
        ELSE AtLeast(AtLeast(params \div experts, params \div 16), 1)

\* Mutant: a name is not terminated.
Intern_Unterminated(name, strings, interned) ==
    IF name \in DOMAIN interned
    THEN [strings |-> strings, interned |-> interned]
    ELSE [strings |-> strings \o Spelling[name],
          interned |-> [n \in DOMAIN interned \cup {name} |->
                           IF n = name THEN Len(strings) ELSE interned[n]]]

\* A name is put into the string table once, with its NUL.
Intern(name, strings, interned) ==
    IF name \in DOMAIN interned
    THEN [strings |-> strings, interned |-> interned]
    ELSE [strings |-> strings \o Spelling[name] \o <<NUL>>,
          interned |-> [n \in DOMAIN interned \cup {name} |->
                           IF n = name THEN Len(strings) ELSE interned[n]]]

PackRecord(packed, m) ==
    LET table == Intern(m.name, packed.strings, packed.interned)
    IN  [strings |-> table.strings,
         interned |-> table.interned,
         records |-> Append(packed.records,
                            [nameOff |-> table.interned[m.name],
                             params |-> DivRound(m.params),
                             active |-> Active(m)])]

PackRecords(ms) ==
    LET packed[n \in 0..Len(ms)] ==
            IF n = 0 THEN [strings |-> <<>>, interned |-> <<>>, records |-> <<>>]
            ELSE PackRecord(packed[n - 1], ms[n])
    IN  packed[Len(ms)]

\* Mutant: the measurements are where the strings are.
Offsets_Overlapping(count) ==
    LET records == 48
        strings == records + 32 * count.records
        meas == strings
    IN  [records |-> records, strings |-> strings, measurements |-> meas,
         calibrations |-> meas + 16 * count.measurements]

\* Where each section starts: one after the other, after the header.  (The
\* source counts in a u32, which an image of 4 GiB would wrap: this does not.)
Offsets(count) ==
    LET records == 48
        strings == records + 32 * count.records
        meas == strings + count.strings
    IN  [records |-> records, strings |-> strings, measurements |-> meas,
         calibrations |-> meas + 16 * count.measurements]

Pack(ms, rows, factors) ==
    LET packed == PackRecords(ms)
        count == [records |-> Len(ms), strings |-> Len(packed.strings),
                  measurements |-> Len(rows), calibrations |-> Len(factors)]
    IN  [size |-> 48 + 32 * count.records + count.strings
                     + 16 * count.measurements + 8 * count.calibrations,
         off |-> Offsets(count), count |-> count,
         records |-> packed.records, strings |-> packed.strings,
         measurements |-> rows, calibrations |-> factors]

-----------------------------------------------------------------------------
(***************************************************************************)
(* Reading back                                                            *)
(***************************************************************************)
Reader(file) == INSTANCE CatalogImage WITH
    Images <- {},
    image <- [size |-> file.size, magic |-> TRUE, version |-> 2, recSize |-> 32,
              off |-> file.off, count |-> file.count],
    pc <- "closed", error <- "none", read <- None,
    bound <- [s \in DOMAIN file.off |-> [off |-> 0, len |-> 0]]

Opens(file) == Reader(file)!Complaint = "none"

\* Model::name: what is written from an offset to the next NUL, or to the end.
ReadName(strings, off) ==
    LET ends == {k \in (off + 1)..Len(strings) : strings[k] = NUL}
        last == IF ends = {} THEN Len(strings) + 1
                ELSE CHOOSE k \in ends : \A j \in ends : k <= j
    IN  SubSeq(strings, off + 1, last - 1)

NameAt(file, i) == ReadName(file.strings, file.records[i].nameOff)

KeyAt(file, i) == NormalizeModel(NameAt(file, i))

\* Mutant: the last entry to claim a key takes it.
IndexByKey_LastWins(file) ==
    LET ids == DOMAIN file.records
    IN  [key \in {KeyAt(file, i) : i \in ids} |->
            (CHOOSE i \in ids : KeyAt(file, i) = key
                                /\ \A j \in ids : KeyAt(file, j) = key => j <= i) - 1]

\* The first entry to claim a key keeps it.
IndexByKey(file) ==
    LET ids == DOMAIN file.records
    IN  [key \in {KeyAt(file, i) : i \in ids} |->
            (CHOOSE i \in ids : KeyAt(file, i) = key
                                /\ \A j \in ids : KeyAt(file, j) = key => i <= j) - 1]

-----------------------------------------------------------------------------
(***************************************************************************)
(* The build                                                               *)
(***************************************************************************)
Init ==
    /\ source \in Sources
    /\ options \in Options
    /\ pc = "select"
    /\ kept = <<>>
    /\ base = None
    /\ bytes = None
    /\ disk = None
    /\ outcome = "none"
    /\ IngestInit

Select ==
    /\ pc = "select"
    /\ kept' = Selection
    /\ base' = Pack(kept', <<>>, <<>>)
    /\ pc' = IF options.community THEN "import" ELSE "pack"
    /\ UNCHANGED <<source, options, bytes, disk, outcome, ingest>>

\* import_community opens the base packing, and starts the ingest with the
\* keys of its names.
Import ==
    /\ pc = "import" /\ reading = "idle"
    /\ Opens(base)
    /\ index' = IndexByKey(base)
    /\ reading' = "walk"
    /\ UNCHANGED <<todo, machine, results, grouped, ratios, counts, output>>
    /\ UNCHANGED <<source, options, pc, kept, base, bytes, disk, outcome>>

\* The base packing does not open, or the directory of submissions, or one
\* inside it, cannot be listed.
ImportFails ==
    /\ pc = "import" /\ reading = "idle"
    /\ outcome' = "error"
    /\ pc' = "done"
    /\ UNCHANGED <<source, options, kept, base, bytes, disk, ingest>>

Importing ==
    /\ IngestStep
    /\ UNCHANGED <<source, options, pc, kept, base, bytes, disk, outcome>>

Imported ==
    /\ Reduce
    /\ pc' = "pack"
    /\ UNCHANGED <<source, options, kept, base, bytes, disk, outcome>>

PackAgain ==
    /\ pc = "pack"
    /\ bytes' = Pack(kept, output.measurements, output.calibrations)
    /\ pc' = "write"
    /\ UNCHANGED <<source, options, kept, base, disk, outcome, ingest>>

Write ==
    /\ pc = "write"
    /\ disk' = bytes
    /\ pc' = "check"
    /\ UNCHANGED <<source, options, kept, base, bytes, outcome, ingest>>

\* Mutant: the error of a write is not looked at.
WriteFails_Ignored(written) ==
    /\ pc = "write"
    /\ disk' = [bytes EXCEPT !.size = written]
    /\ pc' = "check"
    /\ UNCHANGED <<source, options, kept, base, bytes, outcome, ingest>>

\* std::fs::write creates the file and then fills it: it may fail, or the
\* process be killed, with any number of bytes written.
WriteFails(written) ==
    /\ pc = "write"
    /\ disk' = [bytes EXCEPT !.size = written]
    /\ outcome' \in {"error", "killed"}
    /\ pc' = "done"
    /\ UNCHANGED <<source, options, kept, base, bytes, ingest>>

\* The output path cannot be created.
CreateFails ==
    /\ pc = "write"
    /\ outcome' = "error"
    /\ pc' = "done"
    /\ UNCHANGED <<source, options, kept, base, bytes, disk, ingest>>

\* What was packed, not what was written, is parsed back and counted.
RoundTrip ==
    /\ pc = "check"
    /\ outcome' = IF Opens(bytes) /\ bytes.count.records = Len(kept) THEN "ok" ELSE "error"
    /\ pc' = "done"
    /\ UNCHANGED <<source, options, kept, base, bytes, disk, ingest>>

WriteFailsSomewhere == pc = "write" /\ \E written \in 0..(bytes.size - 1) : WriteFails(written)

Next ==
    \/ Select \/ Import \/ ImportFails \/ Importing \/ Imported \/ PackAgain
    \/ Write \/ WriteFailsSomewhere \/ CreateFails
    \/ RoundTrip

Spec == Init /\ [][Next]_vars

-----------------------------------------------------------------------------
(***************************************************************************)
(* Properties                                                              *)
(***************************************************************************)

\* Somebody on the row's machine submitted its throughput under a name of the
\* model its index leads to, and no repackage of that model was downloaded more.
NamesItsModel(row, file) ==
    LET chosen == kept[row.index + 1]
        key == SourceKey[chosen.name]
    IN  /\ \E path \in Paths : \E r \in Range(Contents[path].results) :
              /\ MachineOf(Contents[path]) = row.hw
              /\ KeyOf[r.model] = key
              /\ Saturated(r.tps) = row.tps
        /\ NameAt(file, row.index + 1) = Spelling[chosen.name]
        /\ \A m \in Range(source) :
              Keep(m) /\ SourceKey[m.name] = key => m.downloads <= chosen.downloads

\* A measurement is packed under the index of a model it is a measurement of,
\* even though its index was chosen against another packing: somebody on that
\* machine submitted it under a name of that model.  Of the repackages of the
\* model it is the one most downloaded (main.rs:226-238, 290-297).
MeasurementsNameTheirModel ==
    [][bytes' # bytes => \A row \in Range(bytes'.measurements) : NamesItsModel(row, bytes')]_vars

\* What a ranking lists as one model is measured as one: a result submitted
\* under a repackage of a packed model's name is a result of that model.
\* "Two submissions of the same weights at different quantizations are
\* measurements of the same catalog entry, so these are dropped before
\* matching" (community.rs:58-61).
RepackagesAreMatched ==
    reading = "done" =>
        \A m \in Range(kept), r \in AllResults :
            SameWeights(Spelling[m.name], r.model)
            => SourceKey[m.name] = KeyOf[r.model]

\* --top takes the models people use: an entry that earned a slot and is not
\* packed is no more downloaded than any that is, and a slot is left free
\* only when there is nothing to fill it with (main.rs:214-224).
TakesTheMostDownloaded ==
    pc # "select" =>
        LET eligible == {m \in Range(source) : Keep(m)}
        IN  /\ \A m \in eligible \ Range(kept), n \in Range(kept) : m.downloads <= n.downloads
            /\ eligible \ Range(kept) # {} => Len(kept) = options.top

\* A write that was torn is never mistaken for a catalog, wherever it was
\* torn: what opens is all that was packed (main.rs:239-251; catalog.rs,
\* `section`).
ATornFileIsRefused ==
    disk # None /\ Opens(disk) => disk.size = bytes.size

\* A build that reports success has put a catalog of all the kept models at
\* the output path (main.rs:239-251).
SuccessMeansAWholeFile ==
    outcome = "ok" => disk = bytes /\ Opens(disk) /\ disk.count.records = Len(kept)

\* Every name reads back from the interned table as it was spelt, also when
\* an earlier name begins or ends like it (main.rs:374-383; catalog.rs,
\* `read_cstr`).
NamesReadBack ==
    \A file \in {base, bytes} \ {None} :
        \A i \in DOMAIN kept : NameAt(file, i) = Spelling[kept[i].name]

\* A sparse model is never packed as if all of it moved per token, unless it
\* is as small as the format can say or its source states so
\* (main.rs:388-404).
SparseModelsActivateASlice ==
    \A file \in {base, bytes} \ {None} :
        \A i \in DOMAIN kept :
            LET r == file.records[i]
            IN  kept[i].moe /\ kept[i].active = 0 /\ r.params > 1
                => r.active \in 1..(r.params - 1)
=============================================================================
