------------------------------ MODULE Console ------------------------------
(***************************************************************************)
(* A device session (openchoice-embedded/src/lib.rs, `Console`): the       *)
(* machine being described, the query options, the filter and the page     *)
(* size, and one action per command of `Console::handle`.                  *)
(*                                                                         *)
(* A command is the verb and the parsed argument of a trimmed line; a      *)
(* number that does not parse, and a word the verb does not know, is None. *)
(* What a command writes is left to module ReportBuf; here only the        *)
(* Outcome it returns is kept.                                             *)
(*                                                                         *)
(* Fields no command writes (unified on a fresh console, ram_bandwidth,    *)
(* os_reserve, efficiency, allow_moe_offload, max_quant and the filter's   *)
(* other fields) are constant and left out.                                *)
(***************************************************************************)
EXTENDS Integers

CONSTANTS
    None,       \* the absent value of an Option
    Numbers,    \* the numbers a line may carry
    U16Max,     \* u16::MAX
    U32,        \* 2^32: arithmetic on u32 wraps here (release builds)
    DefaultRam, \* the memory of a fresh session, in MiB
    Gpus,       \* accelerator names a user may type, each with its own hw_key
    GpuTable,   \* lookup_gpu: the figures of a listed name, None otherwise
    UseCases

ASSUME U16Assumption == U16Max \in Nat
ASSUME U32Assumption == U32 \in Nat /\ U32 > U16Max
ASSUME NumbersAssumption == Numbers \subseteq 0..(U32 - 1)
ASSUME DefaultRamAssumption == DefaultRam \in 0..(U32 - 1)
ASSUME NoneIsNoName == None \notin Gpus
ASSUME GpuTableAssumption ==
    GpuTable \in [Gpus -> [bw : 0..U16Max, tflops : 0..U16Max] \cup {None}]

VARIABLES
    hardware,   \* Hardware: what the session says the machine is
    opts,       \* Opts: context, kv_quant, use_case
    filter,     \* Filter: min_verdict
    limit,      \* rows to show
    outcome,    \* what the last command returned
    typed       \* history: accelerator figures typed since the last gpu or cpu

session == <<hardware, opts, filter, limit>>
vars == <<hardware, opts, filter, limit, outcome, typed>>

Outcome == {"Ok", "Unknown", "Empty"}

Command ==
    [verb : {"ram", "vram", "bw", "tflops", "limit", "ctx"}, arg : Numbers \cup {None}]
    \cup [verb : {"gpu"}, arg : Gpus \cup {None}]
    \cup [verb : {"use"}, arg : UseCases \cup {"any", None}]
    \cup [verb : {"kv"}, arg : {"q8", "q4", None}]
    \cup [verb : {"min"}, arg : {"perfect", "good", "marginal", None}]
    \cup [verb : {"cpu", "help", "hw", "go", "fit", "unrecognised", "blank"}, arg : {None}]

Least(a, b) == IF a < b THEN a ELSE b
Clamp(v, lo, hi) == IF v < lo THEN lo ELSE Least(v, hi)

-----------------------------------------------------------------------------
(***************************************************************************)
(* Console::new                                                            *)
(***************************************************************************)
Init ==
    /\ hardware = [ram |-> DefaultRam, vram |-> 0, backend |-> "CpuX86",
                   bw |-> 0, tflops |-> 0, key |-> None]
    /\ opts = [context |-> None, kv |-> "f16", useCase |-> None]
    /\ filter = [minVerdict |-> None]
    /\ limit = 10
    /\ outcome = "Ok"
    /\ typed = {}

\* Declaring an accelerator moves a session off the CPU backend.
Accelerated(backend) == IF backend = "CpuX86" THEN "Cuda" ELSE backend

\* The number a command needs is missing: a hint, and nothing changes.
NeedsANumber(c) ==
    /\ c.verb \in {"ram", "vram", "bw", "tflops"}
    /\ c.arg = None
    /\ outcome' = "Unknown"
    /\ UNCHANGED <<session, typed>>

SetRam(c) ==
    /\ c.verb = "ram" /\ c.arg # None
    /\ hardware' = [hardware EXCEPT !.ram = c.arg]
    /\ outcome' = "Ok"
    /\ UNCHANGED <<opts, filter, limit, typed>>

\* Mutant: the backend stays that of a CPU.
SetVram_OnTheCpu(c) ==
    /\ c.verb = "vram" /\ c.arg # None
    /\ hardware' = [hardware EXCEPT !.vram = c.arg]
    /\ outcome' = "Ok"
    /\ UNCHANGED <<opts, filter, limit, typed>>

SetVram(c) ==
    /\ c.verb = "vram" /\ c.arg # None
    /\ hardware' = [hardware EXCEPT
            !.vram = c.arg,
            !.backend = IF c.arg > 0 THEN Accelerated(@) ELSE @]
    /\ outcome' = "Ok"
    /\ UNCHANGED <<opts, filter, limit, typed>>

SetBandwidth(c) ==
    /\ c.verb = "bw" /\ c.arg # None
    /\ hardware' = [hardware EXCEPT !.bw = Least(c.arg, U16Max)]
    /\ typed' = typed \cup {"bw"}
    /\ outcome' = "Ok"
    /\ UNCHANGED <<opts, filter, limit>>

SetTflops(c) ==
    /\ c.verb = "tflops" /\ c.arg # None
    /\ hardware' = [hardware EXCEPT !.tflops = Least((c.arg * 10) % U32, U16Max)]
    /\ typed' = typed \cup {"tflops"}
    /\ outcome' = "Ok"
    /\ UNCHANGED <<opts, filter, limit>>

-----------------------------------------------------------------------------
(***************************************************************************)
(* gpu and cpu: the two commands that replace the accelerator              *)
(***************************************************************************)
AskWhichGpu(c) ==
    /\ c.verb = "gpu" /\ c.arg = None
    /\ outcome' = "Ok"
    /\ UNCHANGED <<session, typed>>

ListedGpu(c) ==
    /\ c.verb = "gpu" /\ c.arg # None
    /\ GpuTable[c.arg] # None
    /\ hardware' = [hardware EXCEPT
            !.key = c.arg,
            !.bw = GpuTable[c.arg].bw,
            !.tflops = GpuTable[c.arg].tflops,
            !.backend = Accelerated(@)]
    /\ typed' = {}
    /\ outcome' = "Ok"
    /\ UNCHANGED <<opts, filter, limit>>

\* Mutant: the compute figure of the previous accelerator is left behind.
UnlistedGpu_KeepsTflops(c) ==
    /\ c.verb = "gpu" /\ c.arg # None
    /\ GpuTable[c.arg] = None
    /\ hardware' = [hardware EXCEPT !.key = c.arg, !.bw = 0]
    /\ typed' = {}
    /\ outcome' = "Ok"
    /\ UNCHANGED <<opts, filter, limit>>

UnlistedGpu(c) ==
    /\ c.verb = "gpu" /\ c.arg # None
    /\ GpuTable[c.arg] = None
    /\ hardware' = [hardware EXCEPT !.key = c.arg, !.bw = 0, !.tflops = 0]
    /\ typed' = {}
    /\ outcome' = "Ok"
    /\ UNCHANGED <<opts, filter, limit>>

Cpu(c) ==
    /\ c.verb = "cpu"
    /\ hardware' = [hardware EXCEPT
            !.vram = 0, !.bw = 0, !.tflops = 0, !.backend = "CpuX86", !.key = None]
    /\ typed' = {}
    /\ outcome' = "Ok"
    /\ UNCHANGED <<opts, filter, limit>>

-----------------------------------------------------------------------------
(***************************************************************************)
(* Query options                                                           *)
(***************************************************************************)
\* Mutant: the limit is taken as it is given.
Limit_Unclamped(c) ==
    /\ c.verb = "limit"
    /\ limit' = IF c.arg = None THEN limit ELSE c.arg
    /\ outcome' = "Ok"
    /\ UNCHANGED <<hardware, opts, filter, typed>>

Limit(c) ==
    /\ c.verb = "limit"
    /\ limit' = IF c.arg = None THEN limit ELSE Clamp(c.arg, 1, 32)
    /\ outcome' = "Ok"
    /\ UNCHANGED <<hardware, opts, filter, typed>>

Use(c) ==
    /\ c.verb = "use"
    /\ opts' = [opts EXCEPT !.useCase = IF c.arg = None THEN @
                                        ELSE IF c.arg = "any" THEN None ELSE c.arg]
    /\ outcome' = "Ok"
    /\ UNCHANGED <<hardware, filter, limit, typed>>

Ctx(c) ==
    /\ c.verb = "ctx"
    /\ opts' = [opts EXCEPT !.context = c.arg]
    /\ outcome' = "Ok"
    /\ UNCHANGED <<hardware, filter, limit, typed>>

Kv(c) ==
    /\ c.verb = "kv"
    /\ opts' = [opts EXCEPT !.kv = IF c.arg = None THEN "f16" ELSE c.arg]
    /\ outcome' = "Ok"
    /\ UNCHANGED <<hardware, filter, limit, typed>>

MinVerdict(c) ==
    /\ c.verb = "min"
    /\ filter' = [filter EXCEPT !.minVerdict = c.arg]
    /\ outcome' = "Ok"
    /\ UNCHANGED <<hardware, opts, limit, typed>>

-----------------------------------------------------------------------------
(***************************************************************************)
(* Commands that only write a report: help, hw, go, list and fit           *)
(***************************************************************************)
Report(c) ==
    /\ c.verb \in {"help", "hw", "go", "fit"}
    /\ outcome' = "Ok"
    /\ UNCHANGED <<session, typed>>

Unrecognised(c) ==
    /\ c.verb = "unrecognised"
    /\ outcome' = "Unknown"
    /\ UNCHANGED <<session, typed>>

Blank(c) ==
    /\ c.verb = "blank"
    /\ outcome' = "Empty"
    /\ UNCHANGED <<session, typed>>

\* Console::handle: the branch of the command's verb.
Handle(c) ==
    \/ NeedsANumber(c) \/ SetRam(c) \/ SetVram(c) \/ SetBandwidth(c) \/ SetTflops(c)
    \/ AskWhichGpu(c) \/ ListedGpu(c) \/ UnlistedGpu(c) \/ Cpu(c)
    \/ Limit(c) \/ Use(c) \/ Ctx(c) \/ Kv(c) \/ MinVerdict(c)
    \/ Report(c) \/ Unrecognised(c) \/ Blank(c)

Next == \E c \in Command : Handle(c)

Spec == Init /\ [][Next]_vars

-----------------------------------------------------------------------------
(***************************************************************************)
(* Properties                                                              *)
(***************************************************************************)

\* Every field keeps its width: the two u16 figures saturate, and a page has
\* between one row and the 32 that `rank` collects (lib.rs:196, 202, 393).
TypeOK ==
    /\ hardware \in [ram : 0..(U32 - 1), vram : 0..(U32 - 1), backend : {"CpuX86", "Cuda"},
                     bw : 0..U16Max, tflops : 0..U16Max, key : Gpus \cup {None}]
    /\ opts \in [context : Numbers \cup {None}, kv : {"f16", "q8", "q4"},
                 useCase : UseCases \cup {None}]
    /\ filter \in [minVerdict : {"perfect", "good", "marginal", None}]
    /\ limit \in 1..32
    /\ outcome \in Outcome
    /\ typed \subseteq {"bw", "tflops"}

\* Accelerator memory is never declared on a session scored as CPU-only,
\* whatever order vram, gpu and cpu were typed in: fit::evaluate_at and
\* speed::estimate would ignore it (lib.rs:215-224, 316-318).
VramHasAnAccelerator == hardware.vram > 0 => hardware.backend # "CpuX86"

\* The bandwidth and compute a session scores with are those of the machine
\* its hw_key names, unless the user typed them after naming it.  Naming
\* another machine, listed or not, or going back to `cpu`, never leaves the
\* previous accelerator's figures behind (lib.rs:215-224, 329-362).
FigureIsOfTheNamedGpu(figure) ==
    figure \notin typed =>
        hardware[figure] = IF hardware.key = None \/ GpuTable[hardware.key] = None
                           THEN 0 ELSE GpuTable[hardware.key][figure]
FiguresAreOfTheNamedGpu == \A figure \in {"bw", "tflops"} : FigureIsOfTheNamedGpu(figure)

\* A line the console answers with Unknown or Empty leaves the session as it
\* was (lib.rs:171-175, 297-300, 322-325).
RejectedLinesChangeNothing == [][outcome' \in {"Unknown", "Empty"} => UNCHANGED session]_vars
=============================================================================
