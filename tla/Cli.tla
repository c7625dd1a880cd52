-------------------------------- MODULE Cli --------------------------------
(***************************************************************************)
(* The desktop shell (openchoice-cli/src/main.rs, detect.rs): the command  *)
(* line is parsed, the catalog is opened, the machine is detected, and     *)
(* what the user said of another machine is laid over what was detected.   *)
(*                                                                         *)
(* The next argument, and the next line a tool prints, is decided when it  *)
(* is read.  A value that is missing or does not parse is None.            *)
(*                                                                         *)
(* The console of module Console follows as a twin: each option is typed   *)
(* there too, as the command that says the same, in the same order.        *)
(***************************************************************************)
EXTENDS Console, Data

CONSTANTS
    Argument,   \* <<option, value>>: what a command line may hold
    MaxArgs,    \* bound: arguments given
    MaxLines,   \* bound: lines a tool prints
    Rams,       \* the memory of the machines the program may run on
    LargeRam,   \* 16 GiB: beyond it the operating system is given more
    Cards,      \* the accelerators a tool may list: [name, mb]
    Traits,     \* what the name of an accelerator looks like
    AppleChip,  \* the name of an Apple machine's processor
    AmdGpu      \* "AMD GPU": an accelerator that rocm-smi does not name

Option ==
    {"ram", "vram", "gpu", "use-case", "only", "limit", "context", "min-fit", "kv",
     "max-quant", "efficiency", "catalog", "json", "positional"}

ASSUME NamesAssumption == AppleChip \in Gpus /\ AmdGpu \in Gpus
ASSUME RamsAssumption == Rams \subseteq Nat
ASSUME CardsAssumption == \A card \in Cards : card.name \in Gpus /\ card.mb \in Nat \cup {None}
\* A number is a u32 and a word one that its option knows: others do not parse.
ASSUME ArgumentAssumption ==
    \A a \in Argument : a[2] # None =>
        /\ a[1] \in {"ram", "vram", "context"} => a[2] \in Numbers
        /\ a[1] = "gpu" => a[2] \in Gpus
        /\ a[1] = "use-case" => a[2] \in UseCases \ {"any"}
        /\ a[1] = "min-fit" => a[2] \in {"perfect", "good", "marginal"}
        /\ a[1] = "kv" => a[2] \in {"f16", "q8", "q4"}

VARIABLES
    command,    \* the first word of the command line
    stage,      \* what the program is about to do
    argc,       \* arguments read
    options,    \* Cli: what the command line said
    hw,         \* Hardware: what was detected, then what is scored with
    gpuName,    \* the accelerator's name so far
    total,      \* the accelerator memory listed so far
    listed,     \* history: the lines nvidia-smi printed
    notes       \* the detection steps that were reported

probe == <<gpuName, total, listed>>
cliVars == <<command, stage, argc, options, hw, gpuName, total, listed, notes>>

-----------------------------------------------------------------------------
(***************************************************************************)
(* main and parse_cli                                                      *)
(***************************************************************************)
CliInit ==
    /\ command \in {"system", "recommend", "fit", "help", "other"}
    /\ stage = CASE command = "system"             -> "sysinfo"
                 [] command \in {"recommend", "fit"} -> "parse"
                 [] command = "help"               -> "done"
                 [] command = "other"              -> "failed"
    /\ argc = 0
    /\ options = [o \in Option |-> None]
    /\ hw = None
    /\ gpuName = None
    /\ total = 0
    /\ listed = <<>>
    /\ notes = {}

\* The console's command for an option, where it has one.
Typed(option, value) ==
    CASE option \in {"ram", "vram", "gpu"}  -> [verb |-> option, arg |-> value]
      [] option = "use-case"                -> [verb |-> "use", arg |-> value]
      [] option = "context"                 -> [verb |-> "ctx", arg |-> value]
      [] option = "min-fit"                 -> [verb |-> "min", arg |-> value]
      [] option = "kv" /\ value = "f16"     -> [verb |-> "kv", arg |-> None]
      [] option = "kv" /\ value # "f16"     -> [verb |-> "kv", arg |-> value]
      [] OTHER                              -> [verb |-> "blank", arg |-> None]

\* The last value given for an option is the one that counts; there is room
\* for one positional argument.
TakeArgument(option, value) ==
    /\ stage = "parse" /\ argc < MaxArgs
    /\ value # None
    /\ option = "positional" => options["positional"] = None
    /\ argc' = argc + 1
    /\ options' = [options EXCEPT ![option] = value]
    /\ Handle(Typed(option, value))
    /\ UNCHANGED <<command, stage, hw, probe, notes>>

\* An option without its value, a second positional, a flag nobody knows.
BadArgument(option, value) ==
    /\ stage = "parse" /\ argc < MaxArgs
    /\ \/ option \notin Option \/ value = None
       \/ option = "positional" /\ options["positional"] # None
    /\ stage' = "failed"
    /\ UNCHANGED <<vars, command, argc, options, hw, probe, notes>>

\* `fit` needs a model's name.
EndOfArguments ==
    /\ stage = "parse"
    /\ stage' = IF command = "fit" /\ options["positional"] = None THEN "failed" ELSE "load"
    /\ UNCHANGED <<vars, command, argc, options, hw, probe, notes>>

\* The file is read and opened, and for `fit` the model is in it (module
\* Lookup); or one of these fails, and nothing is detected.
Load ==
    /\ stage = "load"
    /\ stage' \in {"sysinfo", "failed"}
    /\ UNCHANGED <<vars, command, argc, options, hw, probe, notes>>

-----------------------------------------------------------------------------
(***************************************************************************)
(* detect                                                                  *)
(***************************************************************************)
Plain(ram, backend) ==
    [ram |-> ram, vram |-> 0, unified |-> FALSE, backend |-> backend, bw |-> 0, tflops |-> 0,
     reserve |-> IF ram > LargeRam THEN 4096 ELSE 2048, key |-> None]

\* Unified memory: three quarters of it are offered to the engine.
AppleSilicon(ram) ==
    /\ stage = "sysinfo"
    /\ hw' = [Plain(ram, "Metal") EXCEPT !.vram = (3 * ram) \div 4, !.unified = TRUE]
    /\ gpuName' = AppleChip
    /\ stage' = "figures"
    /\ UNCHANGED <<vars, command, argc, options, total, listed, notes>>

OtherMachine(ram, backend) ==
    /\ stage = "sysinfo"
    /\ hw' = Plain(ram, backend)
    /\ stage' = "nvidia"
    /\ UNCHANGED <<vars, command, argc, options, probe, notes>>

\* What one tool found is what is detected.
Detect(backend, name) ==
    /\ hw' = [hw EXCEPT !.vram = total % U32, !.backend = backend]
    /\ gpuName' = name
    /\ stage' = "figures"
    /\ UNCHANGED <<vars, command, argc, options, total, listed, notes>>

\* A tool that finds nothing leaves nothing for the next one.
GiveUp(next, said) ==
    /\ stage' = next
    /\ gpuName' = None
    /\ total' = 0
    /\ listed' = <<>>
    /\ notes' = notes \cup said
    /\ UNCHANGED <<vars, command, argc, options, hw>>

Lists(card, name, sum) ==
    /\ Len(listed) < MaxLines
    /\ gpuName' = name
    /\ total' = sum
    /\ listed' = Append(listed, card)
    /\ UNCHANGED <<vars, command, stage, argc, options, hw, notes>>

\* detect_nvidia: a tool that is not there says nothing, one that fails does.
NvidiaAbsent == stage = "nvidia" /\ listed = <<>> /\ GiveUp("amd", {})
NvidiaErrs == stage = "nvidia" /\ listed = <<>> /\ GiveUp("amd", {"nvidia-smi"})

\* The first line's name is kept, and the memory of all lines added up in a u32.
NvidiaLine(card) ==
    /\ stage = "nvidia"
    /\ card.mb # None
    /\ Lists(card, IF gpuName = None THEN card.name ELSE gpuName, (total + card.mb) % U32)

\* Mutant: the lines read before it are what is detected.
NvidiaUnreadable_Stops(card) ==
    /\ stage = "nvidia"
    /\ card.mb = None
    /\ hw' = [hw EXCEPT !.vram = total, !.backend = "Cuda"]
    /\ listed' = Append(listed, card)
    /\ stage' = "figures"
    /\ UNCHANGED <<vars, command, argc, options, gpuName, total, notes>>

\* A line without a number ends the attempt, and is not reported.
NvidiaUnreadable(card) ==
    /\ stage = "nvidia"
    /\ card.mb = None
    /\ GiveUp("amd", {})

NvidiaEnds ==
    /\ stage = "nvidia"
    /\ IF total > 0 THEN Detect("Cuda", gpuName) ELSE GiveUp("amd", {})

\* detect_amd: a line names the accelerator, and the last name counts, or says
\* how much memory it has; what does not parse is skipped.  The bytes are added
\* up in a u64, which no machine exhausts, and narrowed at the end (Detect).
AmdAbsent == stage = "amd" /\ listed = <<>> /\ gpuName = None /\ GiveUp("none", {})
AmdErrs == stage = "amd" /\ listed = <<>> /\ gpuName = None /\ GiveUp("none", {"rocm-smi"})

AmdName(card) ==
    /\ stage = "amd"
    /\ gpuName' = card.name
    /\ UNCHANGED <<vars, command, stage, argc, options, hw, total, listed, notes>>

AmdMemory(card) ==
    /\ stage = "amd"
    /\ card.mb # None
    /\ Lists(card, gpuName, total + card.mb)

AmdEnds ==
    /\ stage = "amd"
    /\ IF total > 0 THEN Detect("Rocm", IF gpuName = None THEN AmdGpu ELSE gpuName)
       ELSE GiveUp("none", {})

NoAccelerator ==
    /\ stage = "none"
    /\ notes' = notes \cup {"no accelerator"}
    /\ stage' = "figures"
    /\ UNCHANGED <<vars, command, argc, options, hw, probe>>

\* An accelerator has its name's key, and the figures of the table if listed.
Figures(name) ==
    IF GpuTable[name] = None THEN [bw |-> 0, tflops |-> 0] ELSE GpuTable[name]

Named(h, name) ==
    [h EXCEPT !.key = name, !.bw = Figures(name).bw, !.tflops = Figures(name).tflops]

\* The end of detect; `system` prints what was detected.
Identify ==
    /\ stage = "figures"
    /\ hw' = IF gpuName = None THEN hw ELSE Named(hw, gpuName)
    /\ notes' = IF gpuName # None /\ GpuTable[gpuName] = None
                THEN notes \cup {"not in the table"} ELSE notes
    /\ stage' = IF command = "system" THEN "done" ELSE "override"
    /\ UNCHANGED <<vars, command, argc, options, probe>>

-----------------------------------------------------------------------------
(***************************************************************************)
(* apply_overrides                                                         *)
(***************************************************************************)
WithRam(h) == IF options["ram"] = None THEN h ELSE [h EXCEPT !.ram = options["ram"]]

\* A short name in m, or one with "apple" in it, is Apple's.
IsUnified(name) == Traits[name] \cap {"short m", "apple"} # {}

BackendOf(name) ==
    CASE IsUnified(name) -> "Metal"
      [] ~IsUnified(name) /\ "radeon" \in Traits[name] -> "Rocm"
      [] ~IsUnified(name) /\ "radeon" \notin Traits[name] /\ "arc" \in Traits[name] -> "Sycl"
      [] OTHER -> "Cuda"

\* Mutant: the figures of an unlisted accelerator are those of this machine's.
WithGpu_KeepsFigures(h) ==
    LET name == options["gpu"]
        same == IF name = None \/ GpuTable[name] = None THEN [h EXCEPT !.key = name]
                ELSE Named(h, name)
    IN  IF name = None THEN h
        ELSE [same EXCEPT !.unified = IsUnified(name), !.backend = BackendOf(name)]

\* The detected memory stays, unless it is overridden as well.
WithGpu(h) ==
    LET name == options["gpu"]
    IN  IF name = None THEN h
        ELSE [Named(h, name) EXCEPT !.unified = IsUnified(name), !.backend = BackendOf(name)]

\* Mutant: the backend stays that of a CPU.
WithVram_OnTheCpu(h) ==
    IF options["vram"] = None THEN h ELSE [h EXCEPT !.vram = options["vram"]]

IsCpu(backend) == backend \in {"CpuX86", "CpuArm"}

WithVram(h) ==
    IF options["vram"] = None THEN h
    ELSE [h EXCEPT !.vram = options["vram"], !.backend = IF IsCpu(@) THEN "Cuda" ELSE @]

\* The machine is known: the catalog is ranked, or the model scored, with it.
ApplyOverrides ==
    /\ stage = "override"
    /\ hw' = WithVram(WithGpu(WithRam(hw)))
    /\ stage' = "score"
    /\ UNCHANGED <<vars, command, argc, options, probe, notes>>

CliNext ==
    \/ \E a \in Argument : TakeArgument(a[1], a[2])
    \/ \E a \in Argument : BadArgument(a[1], a[2])
    \/ EndOfArguments \/ Load
    \/ \E ram \in Rams : AppleSilicon(ram)
    \/ \E ram \in Rams, backend \in {"CpuX86", "CpuArm"} : OtherMachine(ram, backend)
    \/ NvidiaAbsent \/ NvidiaErrs \/ NvidiaEnds
    \/ \E card \in Cards : NvidiaLine(card) \/ NvidiaUnreadable(card)
    \/ AmdAbsent \/ AmdErrs \/ AmdEnds
    \/ \E card \in Cards : AmdName(card) \/ AmdMemory(card)
    \/ NoAccelerator \/ Identify \/ ApplyOverrides

CliSpec == Init /\ CliInit /\ [][CliNext]_<<vars, cliVars>>

-----------------------------------------------------------------------------
(***************************************************************************)
(* Properties                                                              *)
(***************************************************************************)

\* All the memory of the lines a tool printed.
Memory(lines) == Total([i \in DOMAIN lines |-> lines[i].mb])

\* What is detected is an accelerator with all the memory its tool listed, or
\* a machine with nothing of one: a tool that fails half-way, whose lines were
\* already added up, leaves neither a name nor a number behind (detect.rs:3-6,
\* 109-178).
DetectionIsWhole ==
    stage = "override" /\ ~hw.unified =>
        IF IsCpu(hw.backend)
        THEN hw.vram = 0 /\ hw.bw = 0 /\ hw.tflops = 0 /\ hw.key = None
        ELSE /\ \A i \in DOMAIN listed : listed[i].mb # None
             /\ Memory(listed) > 0
             /\ hw.backend = "Cuda" => hw.vram > 0
             /\ hw.vram = Memory(listed) % U32

\* Accelerator memory is never scored on a machine taken for CPU-only,
\* whatever was detected and whatever of it was overridden (main.rs:177-216).
ScoredVramHasAnAccelerator ==
    stage = "score" /\ hw.vram > 0 => ~IsCpu(hw.backend)

\* What the user says means the same on the command line, whose options are
\* laid over a detected machine in a fixed order, as typed at the console in
\* any order: the memory, the accelerator and its figures, and the question
\* (main.rs:3-6, 171-216; lib.rs:181-280).
SaysTheSame ==
    stage = "score" =>
        /\ options["ram"] # None => hw.ram = hardware.ram
        /\ options["vram"] # None => hw.vram = hardware.vram
        /\ options["gpu"] # None =>
              /\ hw.key = hardware.key
              /\ hw.bw = hardware.bw
              /\ hw.tflops = hardware.tflops
        /\ options["context"] = opts.context
        /\ options["use-case"] = opts.useCase
        /\ options["min-fit"] = filter.minVerdict
        /\ options["kv"] # None => options["kv"] = opts.kv

\* A machine described by its memory, its accelerator and the accelerator's.
Described ==
    /\ stage = "score"
    /\ options["ram"] # None /\ options["gpu"] # None
    /\ options["vram"] \notin {None, 0}

\* Said of the code: "the answers here and the answers on a microcontroller
\* are the same answers" (main.rs:3-5).  A described machine is the same one to
\* the engine, whichever shell it was described to; a console's is never
\* unified.
SameAnswers == Described => hw.backend = hardware.backend /\ ~hw.unified
=============================================================================
