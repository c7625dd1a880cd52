# OpenChoice in TLA+

OpenChoice says which open-weight language models a machine can run: at which
quantization, how fast and with how much context.  It is one engine
(`openchoice-core`, `no_std`, no allocator) with three shells: a desktop CLI, a
serial console that also runs on an ESP32-C3, and a packer that turns a JSON
catalog and community benchmarks into the binary image the engine reads in
place.

This directory holds TLA+ models of that code, the TLC configurations that
check them on small instances, and TLAPS proofs of what matters most for every
value of the constants.  `PROJECT.json` lists the components, the runs, the
source lines behind every definition, the hazards and the findings.

## Inventory

Nothing here runs two threads over shared state.  What is hard is of another
kind: sequences of commands, and options laid over a detected machine, whose
parts must agree; fixed-capacity buffers at their limit; one-pass algorithms
over a catalog in any order; data one program sorts and another searches; and a
file that can be cut short.

| Component (source) | State | Operations | What makes it correct |
|---|---|---|---|
| **Ranking** (`core/lib.rs` `recommend`, `TopN`; `score::better`) | `items[N]`, `len`, the caller's filter | `push` (collapse, supersede, drop, insert), `resort_from`, iteration | the array is the first N of the best packaging of each admitted model, at every push |
| **Memory fit** (`core/fit.rs`, parts of `quant.rs`, `hardware.rs`) | position in contexts x quantizations | `evaluate` (walk, skip, accept, half context, give up), `evaluate_at` | the first rung that fits; memory that exists; a plan that agrees with itself |
| **Throughput** (`core/speed.rs`, `hardware.rs`) | method, figure, source | `estimate`, then measurement, rescaling, calibration | a figure's provenance is true; blends lie between their pools |
| **Scoring** (`core/score.rs`) | none | four dimensions, composite, `better` | an order in which runnable comes first |
| **Catalog image** (`core/catalog.rs`) | four bound sections | `parse`, `get`, names, `find` | bad images are refused; no accessor reads outside its section |
| **Catalog search** (`core/catalog.rs`) | `lo`, `hi` | `measurement`, `calibration` | finds the row if and only if there is one |
| **Console session** (`embedded/lib.rs` `Console`) | hardware, options, filter, limit | `ram vram gpu bw tflops cpu use ctx kv min limit hw go fit help` | the parts of the described machine agree; rejected lines change nothing |
| **Report buffer** (`embedded/lib.rs` `ReportBuf`, `rank`) | `buf`, `len`, `overflowed` | `write_str`, `clear`, the table | a cut report is a clean prefix and is known to be cut |
| **Firmware loop** (`firmware/esp32c3`) | `line`, `len` | glyph, erase, end of line | what is executed is what is on the screen |
| **Community ingest** (`catalog/community.rs`) | groups, ratios, counters | read file, skip, record, reduce | medians, at the quantization they were observed at, in search order |
| **Packer** (`catalog/main.rs` `build`, `pack`) | kept entries, two packings, the output file | select, pack, import, pack again, write, re-parse | the file is whole and names what it was built from; measurements sit at the right model |
| **Name normalisation** (`community::normalize_model`, `quant_from_name`, `catalog::base_name`) | none | rewriting of a name's words | the same weights are one model to the ranking and to the matching of benchmarks |
| **Desktop CLI** (`cli/main.rs`) | the parsed options, the machine | arguments, errors, overrides | the same words mean what they mean at the console |
| **Hardware detection** (`cli/detect.rs`) | what the tools printed so far | sysinfo, `nvidia-smi`, `rocm-smi`, line by line | all of an accelerator or nothing of it |

How they interact: the packer writes an image and calls the engine to predict
what the ingest calibrates against; `Catalog::parse` binds the image;
`recommend` runs `fit`, `speed` (which searches the image) and `score` on each
model and pushes the result into `TopN`; the console holds the machine and the
filter `recommend` is called with and writes the table into the report; the
firmware turns bytes into lines and lines into calls of the console; the CLI
detects a machine, lays the user's options over it and asks the same engine.

## Modules

| Module | Models | State and actions |
|---|---|---|
| `Recommendation` | verdicts, `Filter::admits`, `score::better` | operators only |
| `Data` | adding up a sequence, joining sequences, putting a set in an order: what the sums and sorts of several components return | operators only |
| `Leaderboard` | what `recommend` promises, without an array | `Visit` one entry; the board is the first N of the ranked bests |
| `TopN` | `recommend`, `push`, `resort_from` | `Reject`, `Collapse`, `Supersede`, `Drop`, `Enter` are the ways a yielded entry goes; `ShiftDown`/`Store` and `SwapUp`/`Settle` are one loop iteration or the loop's end |
| `Fit` | `evaluate`, `evaluate_at` | `Skip`, `StepDown`, `Accept`, `HalveContext`, `GiveUp` |
| `Speed` | `estimate`, `estimate_with_catalog`, on the plan `Fit` chose | `Roofline`/`BackendConstant`, then `Unmeasured`/`SameQuant`/`OtherQuant`/`UnknownQuant`, then `Calibrate`/`Uncalibrated` |
| `Score` | the four dimensions and the composite, on the estimate of `Speed` | `Score`; the rest are operators |
| `Measurements` | the measurement section: what the packer's side promises and the reader's relies on | operators only |
| `CatalogImage` | `Catalog::parse` and the accessors | `Open`, `Refuse`, then `Get`, `Name` and probes as spans of bytes |
| `CatalogSearch` | `Catalog::measurement`, `calibration` | one probe per step: `GoLeft`, `GoRight`, `Hit`, `Miss`, `Unidentified` |
| `Lookup` | `Catalog::find` and the search that follows, over the bytes of an image | `Fetch`, `Exact`, `NotExact`, `NoneExact`, `Probe`, with the parse and the search of the two modules above |
| `Console` | `Console::handle` | one action per command |
| `Device` | the firmware's loop, extending `Console` | `Glyph`, `Erase`, `EndOfLine`, `Ignored` |
| `Cli` | `main`, `parse_cli`, `detect`, `apply_overrides` | `TakeArgument`, `BadArgument`, `EndOfArguments`, `Load`; `AppleSilicon`, `OtherMachine`, `Nvidia*`, `Amd*`, `NoAccelerator`, `Identify`; `ApplyOverrides` |
| `Shells` | a user at the device or at the command line | the steps of `Device` or of `Cli` |
| `ReportBuf` | `write_str`, `rank` | `Ask`, `Row`, one `Emit` per call of write_str, `Explain` (legend), `Warn` (notice), `Done`; `asked` and `ranking` remember what was written and what the answer is about |
| `Names` | `normalize_model`, `quant_from_name`, `base_name`, `same_weights` | operators only |
| `Ingest` | `ingest` | `TakeFile`, `SkipMalformed`, `SkipAnonymous`, `Immeasurable`, `Unmatched`, `Record`, `EndOfFile`, `Reduce` |
| `Packer` | `build`, `pack`, `import_community`, `keep` | `Select`, the steps of `Ingest`, `Imported`, `ImportFails`, `PackAgain`, `Write`, `WriteFails`, `CreateFails`, `RoundTrip` |
| `MC*` | finite instances for TLC | constants only |
| `*_proofs` | theorems and their proofs | |

The compositions are the calls of the code:

* **`evaluate_model`** is `Fit`, then `Speed` on its answer, then `Score` on
  both (`EvaluateSpec`): the throughput is that of the plan the walk chose, in
  its run mode, and the scores are of that throughput.
* **`build`** is `Packer` with `Ingest` between its two packings.  Models and
  submissions meet by the keys `Names` computes of their spellings, the index
  they meet in is that of the first packing, and what the import reduces is
  what the second one writes.  The file is opened with the `CatalogImage` of
  the reader (`Reader`).
* **A lookup** is `CatalogImage`, `find`, `CatalogSearch` (`LookupSpec`): each
  comparison of the walk and of the search is a read of the image.
* **The shells**: in `Cli` the session of `Console` is kept beside the command
  line, as a twin: each argument is also typed at a console, as the command
  that says the same, in the same order.  What `apply_overrides` makes of a
  detected machine is then compared with what the console understood.

An operator or action named `X_Y`, standing before `X` and commented
"Mutant:", is `X` with the bug the comment names.  No specification uses it;
each exists so that the property it would break can be seen to break.
`PROJECT.json` pairs them.

### What is abstracted

* A name is the sequence of its lexemes in lower case (`Names`): words and
  separators.  What the code asks of a word's letters (does it look like a
  graphics card, a date, a family glued to a version, does it end in the
  letters of a tag, as `iq3` does in those of `q3`) is a constant.  `TopN`
  keeps only the class of a name's weights; `Lookup` keeps letters, because
  `find` searches for a substring.
* f32 arithmetic is exact arithmetic on scaled integers, truncated where the
  code casts.  Rounding of the last bit is therefore out of sight; comparisons
  that decide anything (98% of a pool, the harmonic blend) are
  cross-multiplied.  In `Speed` bandwidths are in tenths of a GB/s, and `Scale`
  turns one of them over one MiB of traffic into tenths of a token a second,
  efficiency included.  In `Score` points are in thousandths and logarithms in
  ten-thousandths; the cubic of `log2` is kept term by term.
* Machine words keep their width where it matters: `U32` and `U16Max` in
  `Console` and `Cli` (`tflops` multiplies by ten before it saturates, listed
  memory is added up), `U32` in `Fit` (a card and a declared RAM are added up),
  `USize` in `CatalogImage` and `Packer` (a section's bounds wrap on a 32-bit
  target).  Three sums are of natural numbers where the code has a u32 or casts
  to one: what a model asks for in `Fit` (`fit.rs:283`), which wraps at 4 PiB,
  and the sizes and the offsets in `Packer` (`catalog/main.rs:481-485`), so that
  an image of 4 GiB or more, whose offsets would wrap, is outside the model.
* Text is a sequence of characters only in `ReportBuf`, where bytes per
  character decide where a write is cut, and in `Packer`, where NULs decide
  where a name ends.
* The catalog of `TopN` is any sequence of distinct entries, chosen as the
  iterator yields them; the directory of `Ingest` is read in any order; the
  disk of `Packer` may hold any prefix of what was written; the tools of `Cli`
  print any lines, fail before the first or are not there.  `rocm-smi`'s bytes
  are counted in MiB from the start.
* What the engine would predict for a submission is an input of `Ingest`.

## Runs

Each `pass` run finishes with every property holding; each `violation` run
checks one sentence of the documentation and finds it violated by the code.

| Run | Instance | What it shows |
|---|---|---|
| `topn` (`MCTopN`) | any sequence of up to six entries, four sets of weights, several filters; 22 k states | the board is `Leaderboard`'s board at every step (`ImplementsLeaderboard`), sorted, without repackages, and nothing that deserves a place is lost; the pass ends |
| `evaluate` (`MCScore`) | 18 machines, 35 models, 4 option sets, the real quantization table; memory systems known and unknown, measurements at the same, another and an unknown quantization, a factor; 3 profiles; 390 k states | the first rung that fits; memory promised exists; usable context covers the context judged outside MoE offload; the method named is the one used and a blend lies between its pools; size outweighs the label, the composite is an average, a model that does not run ranks below itself running |
| `fit_moe` (`MCFit`) | three cards, two sparse models | divergence 1 below |
| `speed_moe` (`MCScore`) | the same cards and models | divergence 3 |
| `score_log` (`MCScore`) | eight sizes around powers of two | divergence 4 |
| `catalog` (`MCLookup`) | 8-bit addresses, headers at and around every boundary; all 64 sorted sections over six rows; words that are a name, begin one, end one or are in none; 142 k states | exactly the well-formed images open; reads stay in bounds; the right model; its row, if and only if present; every lookup ends |
| `shells` (`MCShells`) | four glyphs, 21 lines of up to two, every command of the console; command lines of up to three arguments, tools of up to two lines; five accelerators, two of them listed; words scaled to 8 bits; 722 k states | the machine's parts agree after any commands; the session moves as the screen says; detection is whole or nothing; options mean what the same words mean at the console |
| `same_answers` (`MCShells`) | the same | divergence 6 |
| `report` (`MCReportBuf`) | capacities 0..17, characters of 1 and 3 bytes, up to two rows | clean cuts, a truthful flag; an answer that fits is the whole page of its ranking and nothing of an earlier one, a larger one is flagged and its notice asked for; 929 states |
| `report_notice` (`MCReportBuf`) | the same | divergence 2 |
| `build` (`MCPacker`) | five source lists, all options, six files in every order, any torn write; 203 k states | whole files, the right selection, names that read back; medians at the quantization they were observed at, in search order, each at its model's index |
| `names` (`MCPacker`) | the same | divergence 5 |

Components that call each other share a run, because it is in the composition
that most of what could go wrong goes wrong.

### Why the bounds are enough

* `TopN`: six entries with two sets of repackages reach every branch of `push`
  at every fill level, including an eviction whose repackage arrives later.  The
  safety properties are proved for every N and every catalog besides.
* `Fit`, `Speed`, `Score`: the machines hit every run mode and verdict; the
  models fit at the first rung, further down, at half context, below 512, or
  nowhere.  With each of these the bandwidths are unknown, of the memory only or
  of both; the factor slows the figure down.  Priors are the least, the greatest
  and one between.
* `CatalogImage`: with `USize = 256` products and sums of header fields wrap at
  sizes one can enumerate; the proof is for every `USize`.
* `CatalogSearch`, `Lookup`: all subsets of the rows cover sections of 0 to 6,
  and needles before, between and after; of three names one begins like
  another and comes first.  Proved for every length and every list of names.
* `Console`, `Device`: of numbers only zero or not, saturating or not, wrapping
  or not and beyond the page bound matter; 0 and 103 with `U16Max = 100` and
  `U32 = 256` are all of these.
* `Cli`: no two options interact except the accelerator and its memory, so three
  arguments hold every pair and a repetition; two lines hold one that is added
  up before the next is unreadable, and two of 24 and 232 MB wrap a word of 8
  bits to nothing.  What is proved is proved for any number.
* `ReportBuf`: capacity 17 holds the longest report of the tables; every cut
  position inside every character is reached below it.
* `Packer`, `Ingest`: two repackages of a model, a name that begins like
  another, a machine spelt in two ways, ties and missing values are what the
  code distinguishes.

`CHECK_DEADLOCK FALSE` stands where the program really ends (a ranking pass, an
evaluation, a lookup, a command line, a build).  The report buffer waits for
input and is checked for deadlock.

### Fairness

`TopN` assumes `WF_vars(Next)`: `recommend` is a single-threaded function that,
once called, runs until it returns, and its catalog is finite.  `Lookup` assumes
the same of `find` and the search.  The others assume none and claim no
liveness: a build can be killed, a console can be left alone, a tool may never
answer, a report is straight-line code over a list already collected, and the
loops of `Fit` and `Ingest` count down over a bounded range.

## What the documentation says and the code does not do

Six sentences are checked by a run, which finds them violated (the numbers are
referred to in `PROJECT.json`):

1. **`UsableCoversEffective`** (`fit_moe`, `fit.rs:316`).  In MoE offload the
   pool holds the active slice, but usable context subtracts all the weights
   from it: a model that runs at 8k is reported to have room for less, or for
   nothing.
2. **`TruncatedTableSaysSo`** (`report_notice`, `embedded/lib.rs:436`).  The
   notice that the table is truncated is appended to the buffer that is full.
3. **`OnlyActiveWeightsMove`** (`speed_moe`, `speed.rs:173`).  A sparse model
   that fits on the card is charged all its weights per token.
4. **`LogWithinATenth`** (`score_log`, `score.rs:243`).  The fitted logarithm is
   a seventh of a bit high at the top of an octave and exact at the next power
   of two: a model of 7.99B has a better quality score than one of 8.0B.
5. **`RepackagesAreMatched`** (`names`, `community.rs:142`).  Labels such as
   `mxfp4` are split into a family and a version before they could be dropped,
   so a benchmark of `gpt-oss-20b-mxfp4` is not one of `gpt-oss-20b`.  It is one
   reason why 493 of 810 results are matched, as the repository's README counts.
   Of `q8_0` and `q4_0` the zero stays behind in the same way.
6. **`SameAnswers`** (`same_answers`, `cli/main.rs:199`).  A short name in m is
   Apple silicon to the command line, and only to it: `--gpu mi300x` is scored
   as unified memory.

More were met while modelling; the modules show them, no run is spent on them:

7. `fit.rs:288` against the README's "Quality is given up last".  Between 98%
   and 100% of the card the plan is in VRAM, TooTight, and the walk lowers the
   quantization without trying to spill at the higher one (`Plan`, second
   branch).
8. `fit.rs:268` against the doc comment of `evaluate` (`fit.rs:240-243`).  The
   answer when nothing fits is Q2_K whether or not the model is published in it
   or the caller allows it (`GiveUp`).
9. `community.rs:412` against the comment at `community.rs:399-400`.  The time
   to first token is taken from the middle of the throughput order, so it need
   not be a median (`TheTtft`).
10. `speed.rs:252` against `hardware.rs:73-74`.  A model read from system memory
   carries the accelerator's bandwidth source (`GpuSource` in `Roofline`); and
   the source `GpuTable` is never given, a figure of the table being reported as
   an override.
11. `cli/main.rs:182` against its own comment (`main.rs:173-176`).  `--gpu`
    without `--vram` keeps the detected memory: the card is not the one named
    (`WithGpu`).  The share of the operating system stays that of the detected
    memory when `--ram` is given (`WithRam`), and `--vram 0` takes a machine
    off its CPU backend on the command line but not at the console
    (`WithVram`, `SetVram`).
12. `cli/detect.rs:127-128` against `detect.rs:16-17`.  A line of `nvidia-smi`
    without a number ends the attempt and is not noted (`NvidiaUnreadable`).
13. `score.rs:51-56` against `score.rs:40-42`.  "Coding needs context above
    all", and its weight is below that of quality (`WeightsFor`).
14. `fit.rs:318` against `fit.rs:244` and "context that actually fits"
    (`fit.rs:167`).  A record that states no context is
    judged at 4096 and then told that it can use 512: two defaults for one
    missing number meet in `UsableContext`, and in the score's credit for
    context.  The two properties of usable context leave such a record out.
15. `fit.rs:296,305` against "Memory the run mode draws from, MiB"
    (`fit.rs:162`).  A card and a RAM declared near `u32::MAX` add up to less
    than either (`SpillPool`; a debug build panics): after `--ram 4294967295
    --vram 8192` a model that spills is given 6143 MiB (with the reserve of
    2048).  The memory promised still exists, which is what `MemoryExists` says.

## Proofs

Every safety invariant, every action property and the refinement that a passing
run checks is also a theorem, for every value of the constants.  Every leaf is
checked by SMT, Zenon or LS4, and nothing is assumed beyond the named
assumptions of the modules, which TLC evaluates on every run:

* types and bounds: a capacity of at least one, entries, filters and inputs of
  their types, `None` distinct from values, machine words with bounds in order,
  characters of one to four bytes, a page of at least the heading, keys with a
  span of at least one;
* data that other code vouches for: `find` and the search are given a sorted
  section and a file whose header says how many records it has
  (`CatalogsAssumption`, `SearchAssumption`; that the packer writes such files
  is `RowsAreAlwaysReadyToSearch` and `SuccessAlwaysMeansAWholeFile`);
  a profile's prior is a byte (`ProfilesAssumption`), a model's parameters are
  counted in a word of 32 bits (`WidthAssumption`), and no name in a source list
  holds a NUL (`SpellingAssumption`).

| Module | What is proved | The invariant and why it is needed |
|---|---|---|
| `TopN_proofs` | `TypeCorrect`, `AlwaysSorted`, `NeverRepackages`, `AlwaysAdmitted`, `NeverLosesTheBest`, and `PassImplementsLeaderboard` | The claims are about the array at rest, but a push takes several steps.  `IInv` says what holds in the middle: the live slots are sorted and distinct (`LiveSorted`, `LiveDistinct`), the entry in hand belongs at or before `at` (`Inserting`, `Resorting`), and every entry seen is accounted for, counting the one in hand (`AllAccounted`).  It rests on `RanksAboveOrder`: the comparator is a strict weak order.  The refinement follows the positions that the board's entries have in the catalog: `Ranked` says that they stand in the stable order, one for each set of weights, and that every other admitted position is behind one of its weights or behind all of a full list.  There is one such list, the leaderboard's (`BestIsRanked`); inserting an entry that deserves a place leads from one to the next (`InsertedRanked`); the loops do not move the board (`MovesKeepTheBoard`, `LandingKeepsTheBoard`). |
| `Fit_proofs` | `WalkFindsTheFirst`, `MemoryAlwaysExists`, `PerfectAlwaysOnTheAccelerator`, `UsableAlwaysCoversEffective` | `PassedOver`: every rung before the current one was skipped or did not fit.  `AnswerIsARung`, with lemmas about `EvaluateAt`, carries the facts about one plan to the answer. |
| `Score_proofs` | of `Speed`: `ProvenanceIsAlwaysEarned`, `NeverFasterThanItsPools`; of `Score`: `SizeAlwaysOutweighsTheLabel`, `CompositeIsAlwaysAnAverage`, `CollapseIsAlwaysEnough`, `ContextIsAlwaysCredited`; that each stage implements the one before (`SpeedImplementsFit`, `EvaluateImplementsSpeed`) | `SpeedInv`: before the measurement is looked up the figure is the formula's, and before calibration it is the formula's or the row's.  `ScoresAreOfTheAnswer`: what is composed is of this answer.  The rest is arithmetic: the harmonic blend lies between its terms, a weighted mean between its least and its greatest, and the logarithm of eleven times the size is higher by more than a label is worth, piece of an octave by piece. |
| `Lookup_proofs` | of the image: `TypeCorrect`, `AlwaysInBounds`, `ParseIsExact`; of the search: `SearchTypeCorrect`, `SearchIsExact`, `AlwaysHalves`; of the two behind `find`: `FindIsExact`, `LookupIsExact`, `ImplementsImage` | `BoundRight`: the bound sections are those of the header and inside the image (`SectionInImage`, about the checked arithmetic).  `NeverDiscardsTheRow`: the row, if present, is in `lo..hi`; needs `KeyIsInjective`, two pairs never pack to one key.  `WalkRight`: no record passed has the word for a name, and the one remembered is the first that contains it; `PhasesRight` hands over to the search. |
| `Shells_proofs` | of the console: `TypeCorrect`, `VramAlwaysHasAnAccelerator`, `FiguresAlwaysOfTheNamedGpu`, `RejectedLinesAreHarmless`; of the device: `DeviceTypeCorrect`, `ScreenAlwaysShowsTheLine`, `SessionAlwaysFollowsTheScreen`, `ImplementsConsole`; of the command line: `ScoredVramAlwaysHasAnAccelerator`, `AlwaysSaysTheSame`; of both: `SessionIsSound`, `DeviceAlwaysFollowsTheScreen`, `ShellsSayTheSame`, `DetectionIsAlwaysWhole` | Console: three state properties together, one step per command.  Device: `LineInv`, the line is a line and the screen shows it; with `ImplementsConsole` the console's theorems hold of it.  Command line: `Told`, the twin has understood every option read so far (the console's own invariant goes through because an option is one of its commands, `TypedIsACommand`), and `NoneYet`, until a tool has listed memory there is none.  Detection: `Whole`, while a tool is read the machine is still the plain one and what is held is the sum over the lines read. |
| `ReportBuf_proofs` | `NeverOutgrowsTheBuffer`, `TheFlagIsExact`, `OnlyAFullBufferCuts`, `AlwaysCleanUpToTheCut`, `AnswersAreAlwaysWhole` | Once something is missing the buffer no longer tells where: later, shorter writes may still fit.  `Held` names the first cut: what was held then is the beginning of the report and of what was asked for, and it filled the buffer to within one character (`CutIsFull`).  `Promised` carries the answer through the report: what was asked for and what is still to be written come to the page of the ranking, with the notice once it is owed; and what was asked for outgrows the buffer exactly when the flag is up (`FlagComparesTheWhole`). |
| `Packer_proofs` | `RowsAreAlwaysReadyToSearch`, `FactorsAreAlwaysSupported`, `AlwaysTakesTheMostDownloaded`, `NamesAlwaysReadBack`, `SparseModelsAlwaysActivateASlice`, `SuccessAlwaysMeansAWholeFile`, `ATornFileIsAlwaysRefused`, `ThroughputWasAlwaysObservedAtItsQuant`, `ReportedThroughputIsAlwaysTheMedian`, `MeasurementsAlwaysNameTheirModel` | What is packed depends on everything read before.  `IngestInv`: the samples of a machine and an index are those of the submissions read so far, each once; said with a bijection (`Fits`), because that carries a count of samples to a count of submissions whatever the order of the files.  `IndexOK`: the index leads from a key to the first kept name that has it, hence to the most downloaded.  `BuildInv`: the two packings are of the same kept entries, and the path holds nothing, the second packing or a prefix of it. |
| `Data_proofs` | lemmas: `RecursionExists`, `RecursionIsUnique`, `TotalOfAppend`, `TotalOfConcat`, `JoinedType`, `JoinedOfCons`, `ArrangedInOrder` | What the sums, the joined lines and the orders of the models return.  The induction is over sets of indices (`LeastElement`, `Climb`) and rests on the library's theorem that less-than is well-founded, since its induction schemes, which take a predicate, cannot be instantiated. |

The proofs changed the models in three ways, none of which changes what they
say of the code.  Sums and sorts are the recursive function and the ordering of
`Data`, because the provers know nothing of `FoldLeft` and `SortSeq`.  Two
properties of the build name the part about one row (`StatesTheMedian`,
`NamesItsModel`).  And two assumptions were made explicit that a proof turned
out to need (`ProfilesAssumption`, `WidthAssumption`); a third attempt failed
for a good reason and is divergence 14.

Only model-checked:

* the liveness properties, `Termination` of `TopN` and `Answered` of
  `Lookup`: fairness and ENABLED are out of the prover's reach;
* the six sentences of the documentation, which are violated;
* what the operators of `Names` make of each spelling: `Packer` is proved for
  any assignment of keys to names, and the run `names` checks the real one.

## Plan

Done, in this order: ranking and its abstract leaderboard; the memory fit; the
search; the console and the device on top of it; the report buffer; the image;
the throughput; the packer; then names, with the ingest inside the build; the
scores, with fit and speed before them; `find`, with image and search around it;
the command line and detection, with the console beside them; the proofs of the
lookup and of the command line; the proofs of the scores, the report, detection and the build; the refinement
of the leaderboard.

Next, most important first:

1. The ranking over evaluated models: `TopN` fed by `Score`, so that the
   composite it sorts by is the one computed, and the theorems of both carried
   over to the composition.
2. The reader on the packer's files: that the assumptions of `Lookup` are what
   `Packer` guarantees, as one refinement instead of two facts.
3. That the measurement section of a build is complete: every matched
   submission has a row.
4. `render_detail` through `ReportBuf`.

### Not modelled

The accelerator table, `lookup_gpu` and `hw_key` (data and a hash; their results
are inputs), the CLI's table, detail page and JSON (formatting), the firmware's
boot path and busy-wait, the packer's `inspect` and argument parsing, and the
interactive example, which is the device's loop without line editing.
