---------------------------- MODULE Shells_proofs ----------------------------
(***************************************************************************)
(* The device implements the console, and its line editor never shows the  *)
(* user a line other than the one it will hand over; what the user says of *)
(* a machine on a command line survives detection and overrides; and both  *)
(* hold of the shell a user sits at, whichever it is - for every set of    *)
(* glyphs, every command line, every machine and whatever the tools print. *)
(***************************************************************************)
EXTENDS Shells, Data_proofs, TLAPS

-----------------------------------------------------------------------------
(***************************************************************************)
(* The console                                                             *)
(***************************************************************************)
\* The session's three invariants are inductive together.
Inv == TypeOK /\ VramHasAnAccelerator /\ FiguresAreOfTheNamedGpu

USE U16Assumption, U32Assumption

\* The smaller of two numbers stays within the bounds of both.
LEMMA LeastIsBounded ==
    ASSUME NEW a \in Nat, NEW b \in Nat
    PROVE  Least(a, b) \in 0..b
BY DEF Least

\* Saturating at u16::MAX leaves a u16.
LEMMA SaturatesToU16 ==
    ASSUME NEW a \in Nat
    PROVE  Least(a, U16Max) \in 0..U16Max
BY LeastIsBounded

\* The product `tflops` computes is a natural number, wrapped or not.
LEMMA WrapIsNatural ==
    ASSUME NEW a \in Nat
    PROVE  (a * 10) % U32 \in Nat
<1>1. a * 10 \in Nat
  OBVIOUS
<1>2. \A x \in Nat : x % U32 \in Nat
  OBVIOUS
<1> QED BY <1>1, <1>2

\* A typed number is a u32.
LEMMA NumbersFit ==
    ASSUME NEW n \in Numbers
    PROVE  n \in Nat /\ n \in 0..(U32 - 1)
BY NumbersAssumption

\* Console::new satisfies them.
LEMMA InitInv == Init => Inv
BY DefaultRamAssumption
   DEF Init, Inv, TypeOK, VramHasAnAccelerator, FiguresAreOfTheNamedGpu,
       FigureIsOfTheNamedGpu, Outcome

\* Every command preserves them.
LEMMA StepInv == Inv /\ [Next]_vars => Inv'
<1> SUFFICES ASSUME Inv, [Next]_vars PROVE Inv'
  OBVIOUS
<1> USE DEF Inv, TypeOK, Outcome
<1>1. ASSUME NEW c \in Command, Handle(c) PROVE Inv'
  <2> USE DEF VramHasAnAccelerator, FiguresAreOfTheNamedGpu, FigureIsOfTheNamedGpu, session
  <2>1. CASE NeedsANumber(c) \/ AskWhichGpu(c) \/ Report(c) \/ Unrecognised(c) \/ Blank(c)
    BY <2>1 DEF NeedsANumber, AskWhichGpu, Report, Unrecognised, Blank
  <2>2. CASE SetRam(c)
    <3>1. c.arg \in 0..(U32 - 1)
      BY <2>2, NumbersFit DEF SetRam, Command
    <3> QED BY <2>2, <3>1 DEF SetRam
  <2>3. CASE SetVram(c)
    <3>1. c.arg \in 0..(U32 - 1)
      BY <2>3, NumbersFit DEF SetVram, Command
    <3> QED BY <2>3, <3>1 DEF SetVram, Accelerated
  <2>4. CASE SetBandwidth(c)
    <3>1. Least(c.arg, U16Max) \in 0..U16Max
      BY <2>4, NumbersFit, SaturatesToU16 DEF SetBandwidth, Command
    <3> QED BY <2>4, <3>1 DEF SetBandwidth
  <2>5. CASE SetTflops(c)
    <3>1. c.arg \in Nat
      BY <2>5, NumbersFit DEF SetTflops, Command
    <3>2. Least((c.arg * 10) % U32, U16Max) \in 0..U16Max
      BY <3>1, WrapIsNatural, SaturatesToU16
    <3> QED BY <2>5, <3>2 DEF SetTflops
  <2>6. CASE ListedGpu(c)
    <3>1. c.arg \in Gpus /\ c.arg # None
      BY <2>6, NoneIsNoName DEF ListedGpu, Command
    <3>2. GpuTable[c.arg] \in [bw : 0..U16Max, tflops : 0..U16Max]
      BY <2>6, <3>1, GpuTableAssumption DEF ListedGpu
    <3>3. \A figure \in {"bw", "tflops"} :
             hardware'[figure] = GpuTable[c.arg][figure] /\ GpuTable[c.arg][figure] \in 0..U16Max
      BY <2>6, <3>2 DEF ListedGpu
    <3>4. hardware'.key = c.arg /\ hardware'.backend = "Cuda"
      BY <2>6 DEF ListedGpu, Accelerated
    <3>5. FiguresAreOfTheNamedGpu'
      BY <2>6, <3>1, <3>3, <3>4 DEF ListedGpu
    <3>6. TypeOK' /\ VramHasAnAccelerator'
      BY <2>6, <3>1, <3>2, <3>4 DEF ListedGpu, Accelerated
    <3> QED BY <3>5, <3>6
  <2>7. CASE UnlistedGpu(c)
    <3>1. c.arg \in Gpus
      BY <2>7 DEF UnlistedGpu, Command
    <3>2. hardware' = [hardware EXCEPT !.key = c.arg, !.bw = 0, !.tflops = 0]
      BY <2>7 DEF UnlistedGpu
    <3>3. TypeOK' /\ VramHasAnAccelerator'
      <4>1. hardware'.vram = hardware.vram /\ hardware'.backend = hardware.backend
        BY <3>2
      <4>2. 0 \in 0..U16Max
        OBVIOUS
      <4>3. hardware' \in [ram : 0..(U32 - 1), vram : 0..(U32 - 1), backend : {"CpuX86", "Cuda"},
                           bw : 0..U16Max, tflops : 0..U16Max, key : Gpus \cup {None}]
        BY <3>1, <3>2, <4>2
      <4> QED BY <2>7, <4>1, <4>3 DEF UnlistedGpu
    <3>4. GpuTable[hardware'.key] = None
      BY <2>7, <3>2 DEF UnlistedGpu
    <3>5. FiguresAreOfTheNamedGpu'
      BY <3>2, <3>4
    <3> QED BY <3>3, <3>5
  <2>8. CASE Cpu(c)
    <3>1. 0 \in 0..U16Max /\ 0 \in 0..(U32 - 1)
      OBVIOUS
    <3>2. hardware' = [hardware EXCEPT
              !.vram = 0, !.bw = 0, !.tflops = 0, !.backend = "CpuX86", !.key = None]
      BY <2>8 DEF Cpu
    <3>3. hardware' \in [ram : 0..(U32 - 1), vram : 0..(U32 - 1), backend : {"CpuX86", "Cuda"},
                         bw : 0..U16Max, tflops : 0..U16Max, key : Gpus \cup {None}]
      BY <3>1, <3>2
    <3>4. hardware'.vram = 0 /\ hardware'.bw = 0 /\ hardware'.tflops = 0 /\ hardware'.key = None
      BY <3>2
    <3> QED BY <2>8, <3>3, <3>4 DEF Cpu
  <2>9. CASE Limit(c)
    <3>1. c.arg # None => c.arg \in Nat
      BY <2>9, NumbersFit DEF Limit, Command
    <3>2. limit' \in 1..32
      BY <2>9, <3>1 DEF Limit, Clamp, Least
    <3> QED BY <2>9, <3>2 DEF Limit
  <2>10. CASE Use(c)
    <3>1. c.arg \in UseCases \cup {"any", None}
      BY <2>10 DEF Use, Command
    <3>2. opts' \in [context : Numbers \cup {None}, kv : {"f16", "q8", "q4"},
                     useCase : UseCases \cup {None}]
      BY <2>10, <3>1 DEF Use
    <3> QED BY <2>10, <3>2 DEF Use
  <2>11. CASE Ctx(c)
    <3>1. c.arg \in Numbers \cup {None}
      BY <2>11 DEF Ctx, Command
    <3>2. opts' \in [context : Numbers \cup {None}, kv : {"f16", "q8", "q4"},
                     useCase : UseCases \cup {None}]
      BY <2>11, <3>1 DEF Ctx
    <3> QED BY <2>11, <3>2 DEF Ctx
  <2>12. CASE Kv(c)
    <3>1. c.arg \in {"q8", "q4", None}
      BY <2>12 DEF Kv, Command
    <3>2. opts' \in [context : Numbers \cup {None}, kv : {"f16", "q8", "q4"},
                     useCase : UseCases \cup {None}]
      BY <2>12, <3>1 DEF Kv
    <3> QED BY <2>12, <3>2 DEF Kv
  <2>13. CASE MinVerdict(c)
    <3>1. c.arg \in {"perfect", "good", "marginal", None}
      BY <2>13 DEF MinVerdict, Command
    <3>2. filter' \in [minVerdict : {"perfect", "good", "marginal", None}]
      BY <2>13, <3>1 DEF MinVerdict
    <3> QED BY <2>13, <3>2 DEF MinVerdict
  <2> QED
    BY <1>1, <2>1, <2>2, <2>3, <2>4, <2>5, <2>6, <2>7, <2>8, <2>9, <2>10, <2>11,
       <2>12, <2>13 DEF Handle
<1>2. CASE UNCHANGED vars
  BY <1>2 DEF vars, VramHasAnAccelerator, FiguresAreOfTheNamedGpu, FigureIsOfTheNamedGpu
<1> QED BY <1>1, <1>2 DEF Next

\* The invariants hold of every session.
THEOREM Invariant == Spec => []Inv
BY InitInv, StepInv, PTL DEF Spec

\* Every field of a session keeps its type and its width.
THEOREM TypeCorrect == Spec => []TypeOK
<1>1. Inv => TypeOK
  BY DEF Inv
<1> QED BY <1>1, Invariant, PTL

\* No order of commands declares accelerator memory on a CPU-only session.
THEOREM VramAlwaysHasAnAccelerator == Spec => []VramHasAnAccelerator
<1>1. Inv => VramHasAnAccelerator
  BY DEF Inv
<1> QED BY <1>1, Invariant, PTL

\* No order of commands leaves a session with another machine's figures.
THEOREM FiguresAlwaysOfTheNamedGpu == Spec => []FiguresAreOfTheNamedGpu
<1>1. Inv => FiguresAreOfTheNamedGpu
  BY DEF Inv
<1> QED BY <1>1, Invariant, PTL

\* A line that is not understood, and an empty one, change no part of the
\* session.
THEOREM RejectedLinesAreHarmless == Spec => RejectedLinesChangeNothing
<1>1. [Next]_vars => [outcome' \in {"Unknown", "Empty"} => UNCHANGED session]_vars
  <2> SUFFICES ASSUME NEW c \in Command, Handle(c), outcome' \in {"Unknown", "Empty"}
               PROVE  UNCHANGED session
    BY DEF Next
  <2> QED
    BY DEF Handle, NeedsANumber, SetRam, SetVram, SetBandwidth, SetTflops, AskWhichGpu,
           ListedGpu, UnlistedGpu, Cpu, Limit, Use, Ctx, Kv, MinVerdict, Report, Unrecognised, Blank
<1> QED BY <1>1, PTL DEF Spec, RejectedLinesChangeNothing

HIDE U32Assumption
HIDE U16Assumption

-----------------------------------------------------------------------------
(***************************************************************************)
(* The device                                                              *)
(***************************************************************************)
LineInv == line \in Lines /\ ScreenShowsTheLine

\* A line is a sequence of at most LineMax glyphs.
LEMMA LineIsASequence ==
    ASSUME NEW s
    PROVE  s \in Lines <=> s \in Seq(Glyphs) /\ Len(s) <= LineMax
<1>1. ASSUME s \in Lines PROVE s \in Seq(Glyphs) /\ Len(s) <= LineMax
  <2>1. PICK n \in 0..LineMax : s \in [1..n -> Glyphs]
    <3>1. s \in UNION {[1..n -> Glyphs] : n \in 0..LineMax}
      BY <1>1, Zenon DEF Lines, BoundedSeq, SeqOf
    <3> QED BY <3>1, Zenon
  <2>2. n \in Nat /\ n <= LineMax
    BY <2>1, LineMaxAssumption
  <2> QED BY <2>1, <2>2
<1>2. ASSUME s \in Seq(Glyphs), Len(s) <= LineMax PROVE s \in Lines
  <2>1. Len(s) \in 0..LineMax /\ s \in [1..Len(s) -> Glyphs]
    BY <1>2, LineMaxAssumption
  <2>2. s \in UNION {[1..n -> Glyphs] : n \in 0..LineMax}
    BY <2>1, Zenon
  <2> QED BY <2>2, Zenon DEF Lines, BoundedSeq, SeqOf
<1> QED BY <1>1, <1>2

LEMMA EmptyLine == <<>> \in Lines
<1>1. <<>> \in Seq(Glyphs) /\ Len(<<>>) <= LineMax
  BY LineMaxAssumption
<1> QED BY <1>1, LineIsASequence

\* A glyph added where there is room, a glyph taken away, and nothing at all
\* are lines.
LEMMA EditedLines ==
    ASSUME NEW s \in Lines
    PROVE  /\ <<>> \in Lines
           /\ \A g \in Glyphs : Len(s) < LineMax => Append(s, g) \in Lines
           /\ s # <<>> => Front(s) \in Lines
<1>1. s \in Seq(Glyphs) /\ Len(s) <= LineMax
  BY LineIsASequence
<1>2. <<>> \in Lines
  BY EmptyLine
<1>3. ASSUME NEW g \in Glyphs, Len(s) < LineMax PROVE Append(s, g) \in Lines
  <2>1. Append(s, g) \in Seq(Glyphs) /\ Len(Append(s, g)) <= LineMax
    BY <1>1, <1>3, LineMaxAssumption
  <2> QED BY <2>1, LineIsASequence
<1>4. ASSUME s # <<>> PROVE Front(s) \in Lines
  <2>1. Front(s) \in Seq(Glyphs) /\ Len(Front(s)) <= LineMax
    BY <1>1, <1>4, LineMaxAssumption DEF Front
  <2> QED BY <2>1, LineIsASequence
<1> QED BY <1>2, <1>3, <1>4

\* The line editor's invariant is inductive.
LEMMA InitLine == DeviceInit => LineInv
BY EmptyLine DEF DeviceInit, LineInv, ScreenShowsTheLine

LEMMA StepLine == LineInv /\ [DeviceNext]_deviceVars => LineInv'
<1> SUFFICES ASSUME LineInv, [DeviceNext]_deviceVars PROVE LineInv'
  OBVIOUS
<1> USE DEF LineInv, ScreenShowsTheLine
<1>1. CASE \E g \in Glyphs : Glyph(g)
  BY <1>1, EditedLines DEF Glyph
<1>2. CASE Erase
  BY <1>2, EditedLines DEF Erase
<1>3. CASE EndOfLine
  BY <1>3, EditedLines DEF EndOfLine
<1>4. CASE Ignored \/ UNCHANGED deviceVars
  BY <1>4 DEF Ignored, deviceVars
<1> QED BY <1>1, <1>2, <1>3, <1>4 DEF DeviceNext

\* On a device, every step is a command of the session or leaves it alone.
LEMMA StepOfTheSession ==
    ASSUME LineInv, [DeviceNext]_deviceVars
    PROVE  UNCHANGED vars \/ (Meaning[screen] \in Command /\ Handle(Meaning[screen]))
<1>1. CASE EndOfLine
  BY <1>1, MeaningAssumption DEF EndOfLine, LineInv, ScreenShowsTheLine
<1>2. CASE Erase \/ \E g \in Glyphs : Glyph(g)
  BY <1>2 DEF Erase, Glyph, vars
<1>3. CASE Ignored \/ UNCHANGED deviceVars
  BY <1>3 DEF Ignored, deviceVars, vars
<1> QED BY <1>1, <1>2, <1>3 DEF DeviceNext

\* Whatever is typed, the screen shows the line that will be handled.
THEOREM ScreenAlwaysShowsTheLine == DeviceSpec => []ScreenShowsTheLine
<1>1. LineInv => ScreenShowsTheLine
  BY DEF LineInv
<1> QED BY <1>1, InitLine, StepLine, PTL DEF DeviceSpec

\* The session moves only as the line on the screen says.
THEOREM SessionAlwaysFollowsTheScreen == DeviceSpec => SessionFollowsTheScreen
<1>1. LineInv /\ [DeviceNext]_deviceVars
      => [UNCHANGED vars \/ Handle(Meaning[screen])]_deviceVars
  BY StepOfTheSession
<1> QED BY <1>1, InitLine, StepLine, PTL DEF DeviceSpec, SessionFollowsTheScreen

\* The device implements the console: it starts as a fresh session, and each
\* of its steps is a step of the session or a stutter.
THEOREM ImplementsConsole == DeviceSpec => Spec
<1>1. DeviceInit => Init
  BY DEF DeviceInit
<1>2. LineInv /\ [DeviceNext]_deviceVars => [Next]_vars
  BY StepOfTheSession DEF Next
<1> QED BY <1>1, <1>2, InitLine, StepLine, PTL DEF DeviceSpec, Spec

\* The invariants of the session hold on the device.
THEOREM DeviceTypeCorrect == DeviceSpec => []DeviceTypeOK
<1>1. LineInv /\ TypeOK => DeviceTypeOK
  BY DEF LineInv, DeviceTypeOK
<1> QED BY <1>1, InitLine, StepLine, ImplementsConsole, TypeCorrect, PTL DEF DeviceSpec

-----------------------------------------------------------------------------
(***************************************************************************)
(* The command line                                                        *)
(***************************************************************************)
Backend == {"CpuX86", "CpuArm", "Metal", "Cuda", "Rocm", "Sycl"}

Machine == [ram : Nat, vram : Nat, unified : BOOLEAN, backend : Backend, bw : 0..U16Max,
            tflops : 0..U16Max, reserve : Nat, key : Gpus \cup {None}]

\* The stages at which a machine is described.
HasMachine(s) == s \in {"nvidia", "amd", "none", "figures", "override", "score"}

\* Types of what decides the machine scored with.
CliTypeOK ==
    /\ HasMachine(stage) => hw \in Machine
    /\ gpuName \in Gpus \cup {None}
    /\ total \in Nat
    /\ options = [o \in Option |-> options[o]]
    /\ options["ram"] \in Numbers \cup {None}
    /\ options["vram"] \in Numbers \cup {None}
    /\ options["gpu"] \in Gpus \cup {None}

\* While it is detected, a machine taken for CPU-only has no accelerator
\* memory.
NoneYet ==
    /\ stage \in {"nvidia", "amd", "none"} => hw.vram = 0
    /\ stage \in {"figures", "override"} /\ hw.vram > 0 => ~IsCpu(hw.backend)

\* The console has been told every option read so far, and nothing since has
\* taken one back.
Told ==
    /\ options["ram"] # None => hardware.ram = options["ram"]
    /\ options["vram"] # None => hardware.vram = options["vram"]
    /\ options["gpu"] # None =>
          /\ hardware.key = options["gpu"]
          /\ hardware.bw = Figures(options["gpu"]).bw
          /\ hardware.tflops = Figures(options["gpu"]).tflops
    /\ opts.context = options["context"]
    /\ opts.useCase = options["use-case"]
    /\ filter.minVerdict = options["min-fit"]
    /\ options["kv"] # None => opts.kv = options["kv"]

CliInv ==
    /\ Inv /\ CliTypeOK /\ NoneYet /\ Told
    /\ ScoredVramHasAnAccelerator /\ SaysTheSame

-----------------------------------------------------------------------------
\* The figures of an accelerator are two u16s, and the table's where it has
\* them.
LEMMA FiguresFit ==
    ASSUME NEW name \in Gpus
    PROVE  /\ Figures(name).bw \in 0..U16Max
           /\ Figures(name).tflops \in 0..U16Max
           /\ name # None
<1>1. 0 \in 0..U16Max
  BY U16Assumption
<1>2. CASE GpuTable[name] = None
  BY <1>1, <1>2, NoneIsNoName DEF Figures
<1>3. CASE GpuTable[name] # None
  <2>1. GpuTable[name] \in [bw : 0..U16Max, tflops : 0..U16Max]
    BY <1>3, GpuTableAssumption
  <2>2. Figures(name) = GpuTable[name]
    BY <1>3 DEF Figures
  <2> QED BY <2>1, <2>2, NoneIsNoName
<1> QED BY <1>2, <1>3

\* Naming an accelerator keeps a machine a machine.
LEMMA NamedIsAMachine ==
    ASSUME NEW h \in Machine, NEW name \in Gpus
    PROVE  /\ Named(h, name) \in Machine
           /\ Named(h, name).key = name
           /\ Named(h, name).bw = Figures(name).bw
           /\ Named(h, name).tflops = Figures(name).tflops
           /\ Named(h, name).ram = h.ram
           /\ Named(h, name).vram = h.vram
           /\ Named(h, name).backend = h.backend
           /\ Named(h, name).unified = h.unified
<1> DEFINE f == Figures(name)
<1>1. f.bw \in 0..U16Max /\ f.tflops \in 0..U16Max
  BY FiguresFit
<1>2. Named(h, name) = [h EXCEPT !.key = name, !.bw = f.bw, !.tflops = f.tflops]
  BY Zenon DEF Named
<1> HIDE DEF f
<1>3. /\ Named(h, name).key = name
      /\ Named(h, name).bw = f.bw
      /\ Named(h, name).tflops = f.tflops
      /\ Named(h, name).ram = h.ram
      /\ Named(h, name).vram = h.vram
      /\ Named(h, name).backend = h.backend
      /\ Named(h, name).unified = h.unified
  BY <1>2 DEF Machine
<1>4. Named(h, name) \in Machine
  BY <1>1, <1>2 DEF Machine
<1> QED BY <1>3, <1>4 DEF f

\* An option with its value is a command the console knows.
LEMMA TypedIsACommand ==
    ASSUME NEW a \in Argument, a[2] # None
    PROVE  Typed(a[1], a[2]) \in Command
<1>1. CASE a[1] \in {"ram", "vram", "context"}
  BY <1>1, ArgumentAssumption DEF Typed, Command
<1>2. CASE a[1] = "gpu"
  BY <1>2, ArgumentAssumption DEF Typed, Command
<1>3. CASE a[1] = "use-case"
  BY <1>3, ArgumentAssumption DEF Typed, Command
<1>4. CASE a[1] = "min-fit"
  BY <1>4, ArgumentAssumption DEF Typed, Command
<1>5. CASE a[1] = "kv"
  BY <1>5, ArgumentAssumption DEF Typed, Command
<1>6. CASE a[1] \notin {"ram", "vram", "context", "gpu", "use-case", "min-fit", "kv"}
  BY <1>6 DEF Typed, Command
<1> QED BY <1>1, <1>2, <1>3, <1>4, <1>5, <1>6

\* The console's invariants hold of the one that is told the same.
LEMMA TwinInv ==
    ASSUME Inv,
           \/ UNCHANGED vars
           \/ \E a \in Argument : TakeArgument(a[1], a[2])
    PROVE  Inv'
<1>1. [Next]_vars
  BY TypedIsACommand DEF TakeArgument, Next
<1> QED BY <1>1, StepInv

\* No machine is described when the program starts, and nothing is said yet.
LEMMA CliInitInv == Init /\ CliInit => CliInv
<1> SUFFICES ASSUME Init, CliInit PROVE CliInv
  OBVIOUS
<1>1. Inv
  BY InitInv
<1>2. /\ stage \in {"sysinfo", "parse", "done", "failed"}
      /\ options = [o \in Option |-> None]
      /\ gpuName = None /\ total = 0
  BY DEF CliInit
<1>3. \A o \in Option : options[o] = None
  BY <1>2
<1>4. /\ options["ram"] = None /\ options["vram"] = None /\ options["gpu"] = None
      /\ options["context"] = None /\ options["use-case"] = None
      /\ options["min-fit"] = None /\ options["kv"] = None
  BY <1>3 DEF Option
<1>5. CliTypeOK
  BY <1>2, <1>4 DEF CliTypeOK, HasMachine
<1>6. Told
  BY <1>4 DEF Told, Init
<1>7. NoneYet /\ ScoredVramHasAnAccelerator /\ SaysTheSame
  BY <1>2 DEF NoneYet, ScoredVramHasAnAccelerator, SaysTheSame
<1> QED BY <1>1, <1>5, <1>6, <1>7 DEF CliInv

\* An argument is laid down in the options and typed at the console alike.
LEMMA ArgumentInv ==
    ASSUME CliInv, NEW a \in Argument, TakeArgument(a[1], a[2])
    PROVE  CliInv'
<1> DEFINE o == a[1]
           v == a[2]
           c == Typed(o, v)
<1>1. /\ stage = "parse" /\ v # None
      /\ options' = [options EXCEPT ![o] = v]
      /\ Handle(c)
      /\ UNCHANGED <<command, stage, hw, gpuName, total, listed, notes>>
  BY DEF TakeArgument, probe
<1>2. Inv'
  BY TwinInv DEF CliInv
<1>3. options' = [p \in Option |-> options'[p]]
  BY <1>1 DEF CliInv, CliTypeOK
<1>4. \A p \in Option : options'[p] = IF p = o THEN v ELSE options[p]
  BY <1>1 DEF CliInv, CliTypeOK
<1>5. \A p \in {"ram", "vram", "gpu", "context", "use-case", "min-fit", "kv"} :
         options'[p] = IF p = o THEN v ELSE options[p]
  BY <1>4 DEF Option
<1>6. CliTypeOK'
  <2>1. /\ options'["ram"] \in Numbers \cup {None}
        /\ options'["vram"] \in Numbers \cup {None}
        /\ options'["gpu"] \in Gpus \cup {None}
    BY <1>1, <1>5, ArgumentAssumption DEF CliInv, CliTypeOK
  <2> QED BY <1>1, <1>3, <2>1 DEF CliInv, CliTypeOK, HasMachine
<1>7. NoneYet' /\ ScoredVramHasAnAccelerator' /\ SaysTheSame'
  BY <1>1 DEF NoneYet, ScoredVramHasAnAccelerator, SaysTheSame
<1>8. /\ hardware \in [ram : 0..(U32 - 1), vram : 0..(U32 - 1), backend : {"CpuX86", "Cuda"},
                       bw : 0..U16Max, tflops : 0..U16Max, key : Gpus \cup {None}]
      /\ opts \in [context : Numbers \cup {None}, kv : {"f16", "q8", "q4"},
                   useCase : UseCases \cup {None}]
      /\ filter \in [minVerdict : {"perfect", "good", "marginal", None}]
  BY DEF CliInv, Inv, TypeOK
<1>9. Told'
  <2> USE DEF Told
  <2>0. Told
    BY DEF CliInv
  <2>1. CASE o = "ram"
    <3>1. c = [verb |-> "ram", arg |-> v]
      BY <2>1 DEF Typed
    <3>2. hardware' = [hardware EXCEPT !.ram = v] /\ UNCHANGED <<opts, filter>>
      BY <1>1, <3>1 DEF Handle, NeedsANumber, SetRam, SetVram, SetBandwidth, SetTflops,
         AskWhichGpu, ListedGpu, UnlistedGpu, Cpu, Limit, Use, Ctx, Kv, MinVerdict, Report,
         Unrecognised, Blank
    <3> QED BY <1>5, <1>8, <2>0, <2>1, <3>2
  <2>2. CASE o = "vram"
    <3>1. c = [verb |-> "vram", arg |-> v]
      BY <2>2 DEF Typed
    <3>2. /\ hardware' = [hardware EXCEPT
                 !.vram = v, !.backend = IF v > 0 THEN Accelerated(@) ELSE @]
          /\ UNCHANGED <<opts, filter>>
      BY <1>1, <3>1 DEF Handle, NeedsANumber, SetRam, SetVram, SetBandwidth, SetTflops,
         AskWhichGpu, ListedGpu, UnlistedGpu, Cpu, Limit, Use, Ctx, Kv, MinVerdict, Report,
         Unrecognised, Blank
    <3> QED BY <1>5, <1>8, <2>0, <2>2, <3>2
  <2>3. CASE o = "gpu"
    <3>1. c = [verb |-> "gpu", arg |-> v]
      BY <2>3 DEF Typed
    <3>2. v \in Gpus
      BY <1>1, <2>3, ArgumentAssumption
    <3>3. /\ hardware'.key = v /\ hardware'.bw = Figures(v).bw
          /\ hardware'.tflops = Figures(v).tflops
          /\ hardware'.ram = hardware.ram /\ hardware'.vram = hardware.vram
          /\ UNCHANGED <<opts, filter>>
      <4>1. ListedGpu(c) \/ UnlistedGpu(c)
        BY <1>1, <3>1 DEF Handle, NeedsANumber, SetRam, SetVram, SetBandwidth, SetTflops,
           AskWhichGpu, Cpu, Limit, Use, Ctx, Kv, MinVerdict, Report, Unrecognised, Blank
      <4>2. CASE ListedGpu(c)
        <5>1. GpuTable[v] # None /\ UNCHANGED <<opts, filter>>
          BY <3>1, <4>2 DEF ListedGpu
        <5>2. hardware' = [hardware EXCEPT !.key = v, !.bw = GpuTable[v].bw,
                 !.tflops = GpuTable[v].tflops, !.backend = Accelerated(@)]
          BY <3>1, <4>2 DEF ListedGpu
        <5>3. Figures(v) = GpuTable[v]
          BY <5>1 DEF Figures
        <5> QED BY <1>8, <5>1, <5>2, <5>3
      <4>3. CASE UnlistedGpu(c)
        <5>1. GpuTable[v] = None /\ UNCHANGED <<opts, filter>>
          BY <3>1, <4>3 DEF UnlistedGpu
        <5>2. hardware' = [hardware EXCEPT !.key = v, !.bw = 0, !.tflops = 0]
          BY <3>1, <4>3 DEF UnlistedGpu
        <5>3. Figures(v) = [bw |-> 0, tflops |-> 0]
          BY <5>1 DEF Figures
        <5> QED BY <1>8, <5>1, <5>2, <5>3
      <4> QED BY <4>1, <4>2, <4>3
    <3> QED BY <1>5, <2>0, <2>3, <3>3
  <2>4. CASE o = "context"
    <3>1. c = [verb |-> "ctx", arg |-> v]
      BY <2>4 DEF Typed
    <3>2. opts' = [opts EXCEPT !.context = v] /\ UNCHANGED <<hardware, filter>>
      BY <1>1, <3>1 DEF Handle, NeedsANumber, SetRam, SetVram, SetBandwidth, SetTflops,
         AskWhichGpu, ListedGpu, UnlistedGpu, Cpu, Limit, Use, Ctx, Kv, MinVerdict, Report,
         Unrecognised, Blank
    <3> QED BY <1>5, <1>8, <2>0, <2>4, <3>2
  <2>5. CASE o = "use-case"
    <3>1. c = [verb |-> "use", arg |-> v] /\ v # "any"
      BY <1>1, <2>5, ArgumentAssumption DEF Typed
    <3>2. opts' = [opts EXCEPT !.useCase = v] /\ UNCHANGED <<hardware, filter>>
      BY <1>1, <3>1 DEF Handle, NeedsANumber, SetRam, SetVram, SetBandwidth, SetTflops,
         AskWhichGpu, ListedGpu, UnlistedGpu, Cpu, Limit, Use, Ctx, Kv, MinVerdict, Report,
         Unrecognised, Blank
    <3> QED BY <1>5, <1>8, <2>0, <2>5, <3>2
  <2>6. CASE o = "min-fit"
    <3>1. c = [verb |-> "min", arg |-> v]
      BY <2>6 DEF Typed
    <3>2. filter' = [filter EXCEPT !.minVerdict = v] /\ UNCHANGED <<hardware, opts>>
      BY <1>1, <3>1 DEF Handle, NeedsANumber, SetRam, SetVram, SetBandwidth, SetTflops,
         AskWhichGpu, ListedGpu, UnlistedGpu, Cpu, Limit, Use, Ctx, Kv, MinVerdict, Report,
         Unrecognised, Blank
    <3> QED BY <1>5, <1>8, <2>0, <2>6, <3>2
  <2>7. CASE o = "kv"
    <3>1. c = [verb |-> "kv", arg |-> IF v = "f16" THEN None ELSE v]
      BY <2>7 DEF Typed
    <3>2. Kv(c)
      BY <1>1, <3>1 DEF Handle, NeedsANumber, SetRam, SetVram, SetBandwidth, SetTflops,
         AskWhichGpu, ListedGpu, UnlistedGpu, Cpu, Limit, Use, Ctx, MinVerdict, Report,
         Unrecognised, Blank
    <3>3. opts' = [opts EXCEPT !.kv = v] /\ UNCHANGED <<hardware, filter>>
      BY <1>1, <3>1, <3>2 DEF Kv
    <3> QED BY <1>5, <1>8, <2>0, <2>7, <3>3
  <2>8. CASE o \notin {"ram", "vram", "gpu", "context", "use-case", "min-fit", "kv"}
    <3>1. c = [verb |-> "blank", arg |-> None]
      BY <2>8 DEF Typed
    <3>2. UNCHANGED <<hardware, opts, filter>>
      BY <1>1, <3>1 DEF Handle, NeedsANumber, SetRam, SetVram, SetBandwidth, SetTflops,
         AskWhichGpu, ListedGpu, UnlistedGpu, Cpu, Limit, Use, Ctx, Kv, MinVerdict, Report,
         Unrecognised, Blank, session
    <3> QED BY <1>5, <2>0, <2>8, <3>2
  <2> QED BY <2>1, <2>2, <2>3, <2>4, <2>5, <2>6, <2>7, <2>8
<1> QED BY <1>2, <1>6, <1>7, <1>9 DEF CliInv

\* Steps that leave the console, the options and the scored machine's claims
\* alone keep Told and Inv.
LEMMA NothingSaid ==
    ASSUME CliInv, UNCHANGED <<vars, options>>
    PROVE  Inv' /\ Told'
<1>1. Inv'
  BY TwinInv DEF CliInv
<1>2. UNCHANGED <<hardware, opts, filter, options>>
  BY DEF vars
<1>3. Told'
  BY <1>2 DEF CliInv, Told
<1> QED BY <1>1, <1>3

\* Before a machine is described, and where the program stops.
LEMMA ParseInv ==
    ASSUME CliInv,
           \/ \E a \in Argument : BadArgument(a[1], a[2])
           \/ EndOfArguments \/ Load
    PROVE  CliInv'
<1>1. /\ UNCHANGED <<vars, options, hw, gpuName, total>>
      /\ stage' \in {"failed", "load", "sysinfo"}
  BY DEF BadArgument, EndOfArguments, Load, probe
<1>2. CliTypeOK' /\ NoneYet' /\ ScoredVramHasAnAccelerator' /\ SaysTheSame'
  BY <1>1 DEF CliInv, CliTypeOK, HasMachine, NoneYet, ScoredVramHasAnAccelerator, SaysTheSame
<1> QED BY <1>1, <1>2, NothingSaid DEF CliInv

\* A machine without an accelerator of its own, as sysinfo describes it.
LEMMA PlainIsAMachine ==
    ASSUME NEW ram \in Nat, NEW backend \in Backend
    PROVE  Plain(ram, backend) \in Machine /\ Plain(ram, backend).vram = 0
<1>1. (IF ram > LargeRam THEN 4096 ELSE 2048) \in Nat /\ 0 \in 0..U16Max
  BY U16Assumption
<1>2. Plain(ram, backend) \in Machine
  BY <1>1 DEF Plain, Machine
<1> QED BY <1>2 DEF Plain

\* sysinfo.
LEMMA SysinfoInv ==
    ASSUME CliInv, NEW ram \in Rams,
           \/ AppleSilicon(ram)
           \/ \E backend \in {"CpuX86", "CpuArm"} : OtherMachine(ram, backend)
    PROVE  CliInv'
<1>1. ram \in Nat
  BY RamsAssumption
<1>2. UNCHANGED <<vars, options, total>>
  BY DEF AppleSilicon, OtherMachine, probe
<1>3. CASE AppleSilicon(ram)
  <2>1. Plain(ram, "Metal") \in Machine
    BY <1>1, PlainIsAMachine DEF Backend
  <2>2. (3 * ram) \div 4 \in Nat
    BY <1>1
  <2>3. hw' = [Plain(ram, "Metal") EXCEPT !.vram = (3 * ram) \div 4, !.unified = TRUE]
    BY <1>3 DEF AppleSilicon
  <2>4. Plain(ram, "Metal").backend = "Metal"
    BY DEF Plain
  <2>5. hw' \in Machine /\ hw'.backend = "Metal"
    BY <2>1, <2>2, <2>3, <2>4 DEF Machine
  <2>6. stage' = "figures" /\ gpuName' \in Gpus
    BY <1>3, NamesAssumption DEF AppleSilicon
  <2>7. CliTypeOK' /\ NoneYet' /\ ScoredVramHasAnAccelerator' /\ SaysTheSame'
    BY <1>2, <2>5, <2>6
       DEF CliInv, CliTypeOK, NoneYet, ScoredVramHasAnAccelerator, SaysTheSame, IsCpu
  <2> QED BY <1>2, <2>7, NothingSaid DEF CliInv
<1>4. ASSUME NEW backend \in {"CpuX86", "CpuArm"}, OtherMachine(ram, backend) PROVE CliInv'
  <2>1. hw' \in Machine /\ hw'.vram = 0
    BY <1>1, <1>4, PlainIsAMachine DEF OtherMachine, Backend
  <2>2. stage' = "nvidia" /\ UNCHANGED gpuName
    BY <1>4 DEF OtherMachine, probe
  <2>3. CliTypeOK' /\ NoneYet' /\ ScoredVramHasAnAccelerator' /\ SaysTheSame'
    BY <1>2, <2>1, <2>2
       DEF CliInv, CliTypeOK, NoneYet, ScoredVramHasAnAccelerator, SaysTheSame
  <2> QED BY <1>2, <2>3, NothingSaid DEF CliInv
<1> QED BY <1>3, <1>4

\* A tool lists accelerators, or gives up: the machine is as it was.
LEMMA ListingInv ==
    ASSUME CliInv,
           \/ NvidiaAbsent \/ NvidiaErrs \/ AmdAbsent \/ AmdErrs \/ NoAccelerator
           \/ NvidiaEnds /\ ~(total > 0)
           \/ AmdEnds /\ ~(total > 0)
           \/ \E card \in Cards : \/ NvidiaLine(card) \/ NvidiaUnreadable(card)
                                  \/ AmdName(card) \/ AmdMemory(card)
    PROVE  CliInv'
<1>1. /\ UNCHANGED <<vars, options, hw>>
      /\ stage \in {"nvidia", "amd", "none"}
      /\ stage' \in {"nvidia", "amd", "none", "figures"}
  BY DEF NvidiaAbsent, NvidiaErrs, AmdAbsent, AmdErrs, NoAccelerator, NvidiaEnds, AmdEnds,
         NvidiaLine, NvidiaUnreadable, AmdName, AmdMemory, GiveUp, Lists, probe
<1>2. gpuName' \in Gpus \cup {None}
  BY CardsAssumption
     DEF NvidiaAbsent, NvidiaErrs, AmdAbsent, AmdErrs, NoAccelerator, NvidiaEnds, AmdEnds,
         NvidiaLine, NvidiaUnreadable, AmdName, AmdMemory, GiveUp, Lists, probe, CliInv, CliTypeOK
<1>3. total' \in Nat
  <2>1. total \in Nat
    BY DEF CliInv, CliTypeOK
  <2>2. \A x \in Nat : x % U32 \in Nat
    BY U16Assumption, U32Assumption
  <2>3. \A card \in Cards : card.mb # None => /\ total + card.mb \in Nat
                                              /\ (total + card.mb) % U32 \in Nat
    BY <2>1, <2>2, CardsAssumption
  <2>4. \/ total' = 0 \/ total' = total
        \/ \E card \in Cards : /\ card.mb # None
                               /\ \/ total' = total + card.mb
                                  \/ total' = (total + card.mb) % U32
    BY DEF NvidiaAbsent, NvidiaErrs, AmdAbsent, AmdErrs, NoAccelerator, NvidiaEnds, AmdEnds,
           NvidiaLine, NvidiaUnreadable, AmdName, AmdMemory, GiveUp, Lists, probe
  <2> QED BY <2>1, <2>3, <2>4
<1>4. CliTypeOK' /\ NoneYet' /\ ScoredVramHasAnAccelerator' /\ SaysTheSame'
  BY <1>1, <1>2, <1>3
     DEF CliInv, CliTypeOK, HasMachine, NoneYet, ScoredVramHasAnAccelerator, SaysTheSame, Machine
<1> QED BY <1>1, <1>4, NothingSaid DEF CliInv

\* A tool found an accelerator: its backend is not a CPU's.
LEMMA DetectedInv ==
    ASSUME CliInv, NEW backend \in {"Cuda", "Rocm"}, NEW name \in Gpus \cup {None},
           stage \in {"nvidia", "amd"}, Detect(backend, name)
    PROVE  CliInv'
<1>1. /\ UNCHANGED <<vars, options, total>>
      /\ stage' = "figures" /\ gpuName' = name
      /\ hw' = [hw EXCEPT !.vram = total % U32, !.backend = backend]
  BY DEF Detect
<1>2. hw \in Machine /\ total % U32 \in Nat
  <2>1. hw \in Machine /\ total \in Nat
    BY DEF CliInv, CliTypeOK, HasMachine
  <2>2. QED
    BY <2>1, U16Assumption, U32Assumption
<1>3. hw' \in Machine /\ ~IsCpu(hw'.backend)
  BY <1>1, <1>2 DEF Machine, Backend, IsCpu
<1>4. CliTypeOK' /\ NoneYet' /\ ScoredVramHasAnAccelerator' /\ SaysTheSame'
  BY <1>1, <1>3
     DEF CliInv, CliTypeOK, NoneYet, ScoredVramHasAnAccelerator, SaysTheSame
<1> QED BY <1>1, <1>4, NothingSaid DEF CliInv

\* The accelerator's figures are looked up.
LEMMA IdentifyInv ==
    ASSUME CliInv, Identify
    PROVE  CliInv'
<1>1. /\ UNCHANGED <<vars, options, total, gpuName>>
      /\ stage = "figures" /\ stage' \in {"done", "override"}
      /\ hw' = IF gpuName = None THEN hw ELSE Named(hw, gpuName)
  BY DEF Identify, probe
<1>2. hw \in Machine /\ (hw.vram > 0 => ~IsCpu(hw.backend)) /\ gpuName \in Gpus \cup {None}
  BY <1>1 DEF CliInv, CliTypeOK, HasMachine, NoneYet
<1>3. hw' \in Machine /\ hw'.vram = hw.vram /\ hw'.backend = hw.backend
  BY <1>1, <1>2, NamedIsAMachine
<1>4. CliTypeOK' /\ NoneYet' /\ ScoredVramHasAnAccelerator' /\ SaysTheSame'
  BY <1>1, <1>2, <1>3
     DEF CliInv, CliTypeOK, NoneYet, ScoredVramHasAnAccelerator, SaysTheSame
<1> QED BY <1>1, <1>4, NothingSaid DEF CliInv

\* The three overrides, in the order they are applied.
LEMMA OverrideInv ==
    ASSUME CliInv, ApplyOverrides
    PROVE  CliInv'
<1> DEFINE r == WithRam(hw)
           g == WithGpu(r)
           m == WithVram(g)
<1>1. /\ UNCHANGED <<vars, options, total, gpuName>>
      /\ stage = "override" /\ stage' = "score" /\ hw' = m
  BY DEF ApplyOverrides, probe
<1>2. /\ hw \in Machine /\ (hw.vram > 0 => ~IsCpu(hw.backend))
      /\ options["ram"] \in Numbers \cup {None}
      /\ options["vram"] \in Numbers \cup {None}
      /\ options["gpu"] \in Gpus \cup {None}
  BY <1>1 DEF CliInv, CliTypeOK, HasMachine, NoneYet
<1>3. /\ r \in Machine /\ r.vram = hw.vram /\ r.backend = hw.backend
      /\ options["ram"] # None => r.ram = options["ram"]
  BY <1>2, NumbersFit DEF WithRam, Machine
<1>4. /\ g \in Machine /\ g.ram = r.ram /\ g.vram = r.vram
      /\ g.vram > 0 => ~IsCpu(g.backend)
      /\ options["gpu"] # None =>
            /\ g.key = options["gpu"]
            /\ g.bw = Figures(options["gpu"]).bw
            /\ g.tflops = Figures(options["gpu"]).tflops
  <2>1. CASE options["gpu"] = None
    BY <1>2, <1>3, <2>1 DEF WithGpu
  <2>2. CASE options["gpu"] # None
    <3> DEFINE name == options["gpu"]
               n == Named(r, name)
    <3>1. /\ n \in Machine /\ n.ram = r.ram /\ n.vram = r.vram
          /\ n.key = name /\ n.bw = Figures(name).bw /\ n.tflops = Figures(name).tflops
      BY <1>2, <1>3, <2>2, NamedIsAMachine
    <3>2. BackendOf(name) \in Backend /\ ~IsCpu(BackendOf(name))
      <4>1. BackendOf(name) \in {"Metal", "Rocm", "Sycl", "Cuda"}
        BY Zenon DEF BackendOf
      <4> QED BY <4>1 DEF Backend, IsCpu
    <3>3. IsUnified(name) \in BOOLEAN
      BY DEF IsUnified
    <3>4. g = [n EXCEPT !.unified = IsUnified(name), !.backend = BackendOf(name)]
      BY <2>2 DEF WithGpu
    <3> HIDE DEF n, g
    <3>5. /\ g \in Machine /\ g.backend = BackendOf(name)
          /\ g.ram = n.ram /\ g.vram = n.vram /\ g.key = n.key /\ g.bw = n.bw
          /\ g.tflops = n.tflops
      BY <3>1, <3>2, <3>3, <3>4 DEF Machine
    <3> QED BY <3>1, <3>2, <3>5
  <2> QED BY <2>1, <2>2
<1> HIDE DEF r, g
<1>5. /\ m \in Machine /\ m.ram = g.ram
      /\ m.key = g.key /\ m.bw = g.bw /\ m.tflops = g.tflops
      /\ m.vram > 0 => ~IsCpu(m.backend)
      /\ options["vram"] # None => m.vram = options["vram"]
  BY <1>2, <1>4, NumbersFit DEF WithVram, Machine, Backend, IsCpu
<1> HIDE DEF m
<1>6. Told /\ UNCHANGED <<hardware, opts, filter>>
  BY <1>1 DEF CliInv, vars
<1>7. SaysTheSame'
  BY <1>1, <1>3, <1>4, <1>5, <1>6 DEF SaysTheSame, Told
<1>8. CliTypeOK' /\ NoneYet' /\ ScoredVramHasAnAccelerator'
  BY <1>1, <1>5 DEF CliInv, CliTypeOK, NoneYet, ScoredVramHasAnAccelerator
<1> QED BY <1>1, <1>7, <1>8, NothingSaid DEF CliInv

LEMMA CliStepInv == CliInv /\ [CliNext]_<<vars, cliVars>> => CliInv'
<1> SUFFICES ASSUME CliInv, [CliNext]_<<vars, cliVars>> PROVE CliInv'
  OBVIOUS
<1>1. ASSUME NvidiaEnds, total > 0 PROVE CliInv'
  BY <1>1, DetectedInv DEF NvidiaEnds, CliInv, CliTypeOK
<1>2. ASSUME AmdEnds, total > 0 PROVE CliInv'
  <2>1. (IF gpuName = None THEN AmdGpu ELSE gpuName) \in Gpus \cup {None}
    BY NamesAssumption DEF CliInv, CliTypeOK
  <2> QED BY <1>2, <2>1, DetectedInv DEF AmdEnds
<1>3. CASE UNCHANGED <<vars, cliVars>>
  <2>1. UNCHANGED <<vars, options, stage, hw, gpuName, total>>
    BY <1>3 DEF cliVars
  <2>2. UNCHANGED <<hardware, opts, filter>>
    BY <2>1 DEF vars
  <2>3. CliTypeOK' /\ NoneYet' /\ ScoredVramHasAnAccelerator' /\ SaysTheSame'
    BY <2>1, <2>2
       DEF CliInv, CliTypeOK, HasMachine, NoneYet, ScoredVramHasAnAccelerator, SaysTheSame
  <2> QED BY <2>1, <2>3, NothingSaid DEF CliInv
<1> QED
  BY <1>1, <1>2, <1>3, ArgumentInv, ParseInv, SysinfoInv, ListingInv, IdentifyInv, OverrideInv
     DEF CliNext

-----------------------------------------------------------------------------
\* The invariants hold of every command line, on every machine.
THEOREM CliInvariant == CliSpec => []CliInv
BY CliInitInv, CliStepInv, PTL DEF CliSpec

\* Accelerator memory, detected or declared, is never scored as a CPU's.
THEOREM ScoredVramAlwaysHasAnAccelerator == CliSpec => []ScoredVramHasAnAccelerator
<1>1. CliInv => ScoredVramHasAnAccelerator
  BY DEF CliInv
<1> QED BY <1>1, CliInvariant, PTL

\* Whatever the options, their order and the machine they are laid over, what
\* was said is what a console that is told the same has understood.
THEOREM AlwaysSaysTheSame == CliSpec => []SaysTheSame
<1>1. CliInv => SaysTheSame
  BY DEF CliInv
<1> QED BY <1>1, CliInvariant, PTL

-----------------------------------------------------------------------------
(***************************************************************************)
(* Detection                                                               *)
(***************************************************************************)
\* A line more adds its memory.
LEMMA MemoryGrows ==
    ASSUME NEW lines \in Seq(Cards), \A i \in 1..Len(lines) : lines[i].mb \in Nat,
           NEW card \in Cards, card.mb \in Nat
    PROVE  Memory(lines) \in Nat /\ Memory(Append(lines, card)) = Memory(lines) + card.mb
<1> DEFINE more == Append(lines, card)
           old  == [i \in DOMAIN lines |-> lines[i].mb]
           new  == [i \in DOMAIN more |-> more[i].mb]
<1>1. old \in Seq(Nat) /\ Len(old) = Len(lines)
  OBVIOUS
<1>2. new = Append(old, card.mb)
  <2>1. /\ DOMAIN more = 1..(Len(lines) + 1) /\ DOMAIN lines = 1..Len(lines)
        /\ \A i \in 1..Len(lines) : more[i] = lines[i]
        /\ more[Len(lines) + 1] = card /\ Len(lines) \in Nat
    OBVIOUS
  <2>2. Append(old, card.mb) = [i \in 1..(Len(old) + 1) |->
                                   IF i = Len(old) + 1 THEN card.mb ELSE old[i]]
    BY <1>1
  <2>3. \A i \in 1..(Len(lines) + 1) : i = Len(lines) + 1 \/ i \in 1..Len(lines)
    BY <2>1
  <2> HIDE DEF more
  <2>4. ASSUME NEW i \in 1..(Len(lines) + 1)
        PROVE  more[i].mb = IF i = Len(lines) + 1 THEN card.mb ELSE old[i]
    BY <2>1, <2>3
  <2>5. QED
    BY <1>1, <2>1, <2>2, <2>4
<1> HIDE DEF old, new, more
<1>3. Total(old) \in Nat /\ Total(new) = Total(old) + card.mb
  BY <1>1, <1>2, TotalOfAppend
<1>4. QED
  BY <1>3 DEF Memory, old, new, more

\* Nothing listed is no memory.
LEMMA NoLinesNoMemory == Memory(<<>>) = 0
<1>1. [i \in DOMAIN <<>> |-> <<>>[i].mb] = <<>>
  OBVIOUS
<1>2. QED
  BY <1>1, TotalOfNothing DEF Memory

\* What is left when a multiple of the width is taken off.
LEMMA Remainder ==
    ASSUME NEW m \in Nat \ {0}, NEW k \in Nat, NEW z \in 0..(m - 1)
    PROVE  (m * k + z) % m = z
<1> DEFINE y == m * k + z
           d == y \div m
           e == y % m
<1>1. y \in Nat
  OBVIOUS
<1>2. y = m * d + e /\ d \in Nat /\ e \in 0..(m - 1)
  <2> HIDE DEF y
  <2>1. QED
    BY <1>1
<1>3. m * k + z = m * d + e
  BY <1>2
<1> HIDE DEF y, d, e
<1>4. ASSUME NEW u \in Nat, NEW v \in Nat, u < v PROVE m * u + m <= m * v
  <2> DEFINE j == v - u - 1
  <2>1. j \in Nat /\ v = (u + 1) + j
    BY <1>4
  <2> HIDE DEF j
  <2>2. m * j \in Nat
    BY <2>1
  <2>3. m * v = (m * u + m) + m * j
    BY <2>1
  <2>4. m * u \in Nat /\ m * v \in Nat
    OBVIOUS
  <2>5. QED
    BY <2>2, <2>3, <2>4
<1>5. m * k \in Nat /\ m * d \in Nat
  BY <1>2
<1>6. ~(k < d)
  BY <1>2, <1>3, <1>4, <1>5
<1>7. ~(d < k)
  BY <1>2, <1>3, <1>4, <1>5
<1>8. k = d
  BY <1>2, <1>6, <1>7
<1>9. z = e
  BY <1>2, <1>3, <1>5, <1>8
<1>10. QED
  BY <1>9 DEF e, y

\* Wrapping at every line is wrapping once.
LEMMA WrapsOnce ==
    ASSUME NEW x \in Nat, NEW b \in Nat, NEW m \in Nat \ {0}
    PROVE  ((x % m) + b) % m = (x + b) % m
<1> DEFINE q == x \div m
           r == x % m
           y == r + b
           p == y \div m
           z == y % m
<1>1. x = m * q + r /\ q \in Nat /\ r \in Nat
  OBVIOUS
<1>2. y \in Nat /\ y = r + b
  BY <1>1
<1> HIDE DEF q, r, y
<1>3. y = m * p + z /\ p \in Nat /\ z \in 0..(m - 1)
  <2>1. y \in Nat
    BY <1>2
  <2>2. QED
    BY <2>1
<1> HIDE DEF p, z
<1>4. q + p \in Nat /\ x + b = m * (q + p) + z
  <2>1. m * (q + p) = m * q + m * p
    BY <1>1, <1>3
  <2>2. m * q \in Nat /\ m * p \in Nat
    BY <1>1, <1>3
  <2>3. QED
    BY <1>1, <1>2, <1>3, <2>1, <2>2
<1>5. (m * (q + p) + z) % m = z
  BY <1>3, <1>4, Remainder
<1>6. (x + b) % m = z
  BY <1>4, <1>5
<1>7. QED
  BY <1>6 DEF r, y, z

\* A machine with nothing of an accelerator.
PlainCpu(h) ==
    /\ ~h.unified /\ IsCpu(h.backend)
    /\ h.vram = 0 /\ h.bw = 0 /\ h.tflops = 0 /\ h.key = None

\* Lines that all say how much memory there is.
Readable(lines) ==
    /\ lines \in Seq(Cards)
    /\ \A i \in 1..Len(lines) : lines[i].mb \in Nat /\ lines[i].mb # None

\* From tool to tool: while one lists, the machine is a plain one and the sum
\* is that of its lines; where it is left off, no name stays behind.
Whole ==
    /\ stage \in {"parse", "load", "sysinfo"} => gpuName = None /\ total = 0 /\ listed = <<>>
    /\ stage \in {"nvidia", "amd"} =>
          PlainCpu(hw) /\ Readable(listed) /\ Memory(listed) \in Nat
    /\ stage = "nvidia" => total = Memory(listed) % U32
    /\ stage = "amd" => total = Memory(listed)
    /\ stage = "none" => PlainCpu(hw) /\ gpuName = None
    /\ stage = "figures" /\ ~hw.unified =>
          IF IsCpu(hw.backend) THEN PlainCpu(hw) /\ gpuName = None
          ELSE /\ Readable(listed) /\ Memory(listed) > 0
               /\ hw.backend = "Cuda" => hw.vram > 0
               /\ hw.vram = Memory(listed) % U32
    /\ DetectionIsWhole

\* Nothing listed: nothing to add up.
LEMMA EmptyListing == Readable(<<>>) /\ Memory(<<>>) = 0 /\ 0 % U32 = 0
<1>1. <<>> \in Seq(Cards) /\ Len(<<>>) = 0
  OBVIOUS
<1>2. Readable(<<>>)
  BY <1>1 DEF Readable
<1>3. 0 % U32 = 0
  BY U16Assumption, U32Assumption
<1>4. QED
  BY <1>2, <1>3, NoLinesNoMemory

\* A line more, its memory added, and wrapped or not.
LEMMA ALineMore ==
    ASSUME Readable(listed), NEW card \in Cards, card.mb # None
    PROVE  /\ Readable(Append(listed, card))
           /\ Memory(listed) \in Nat /\ Memory(Append(listed, card)) \in Nat
           /\ Memory(listed) + card.mb = Memory(Append(listed, card))
           /\ ((Memory(listed) % U32) + card.mb) % U32 = Memory(Append(listed, card)) % U32
<1> DEFINE more == Append(listed, card)
<1>1. card.mb \in Nat
  BY CardsAssumption
<1>2. listed \in Seq(Cards) /\ \A i \in 1..Len(listed) : listed[i].mb \in Nat
  BY DEF Readable
<1>3. Memory(listed) \in Nat /\ Memory(more) = Memory(listed) + card.mb
  BY <1>1, <1>2, MemoryGrows
<1>4. U32 \in Nat \ {0}
  BY U16Assumption, U32Assumption
<1>5. ((Memory(listed) % U32) + card.mb) % U32 = Memory(more) % U32
  BY <1>1, <1>3, <1>4, WrapsOnce
<1>6. Readable(more)
  <2>1. more \in Seq(Cards) /\ Len(more) = Len(listed) + 1 /\ Len(listed) \in Nat
    BY <1>2
  <2>2. ASSUME NEW i \in 1..Len(more) PROVE more[i].mb \in Nat /\ more[i].mb # None
    <3>1. CASE i = Len(listed) + 1
      <4>1. more[i] = card
        BY <1>2, <3>1
      <4>2. QED
        BY <1>1, <4>1
    <3>2. CASE i # Len(listed) + 1
      <4>1. i \in 1..Len(listed) /\ more[i] = listed[i]
        BY <1>2, <2>1, <3>2
      <4>2. QED
        BY <4>1 DEF Readable
    <3>3. QED
      BY <3>1, <3>2
  <2> HIDE DEF more
  <2>3. QED
    BY <2>1, <2>2 DEF Readable
<1>7. QED
  BY <1>1, <1>3, <1>5, <1>6

LEMMA WholeInit == CliInit => Whole
BY DEF CliInit, Whole, DetectionIsWhole

\* A tool that is left off leaves nothing.
LEMMA GiveUpIsWhole ==
    ASSUME Whole, stage \in {"nvidia", "amd"}, NEW next \in {"amd", "none"}, NEW said,
           GiveUp(next, said)
    PROVE  Whole'
<1>1. stage' = next /\ hw' = hw /\ gpuName' = None /\ total' = 0 /\ listed' = <<>>
  BY DEF GiveUp
<1>2. PlainCpu(hw) /\ PlainCpu(hw')
  BY <1>1 DEF Whole
<1>3. Readable(listed') /\ total' = Memory(listed') /\ Memory(listed') \in Nat
  BY <1>1, EmptyListing
<1>4. QED
  BY <1>1, <1>2, <1>3 DEF Whole, DetectionIsWhole

\* A line that is listed is added up.
LEMMA ListsIsWhole ==
    ASSUME Whole, NEW card \in Cards, NvidiaLine(card) \/ AmdMemory(card)
    PROVE  Whole'
<1>1. /\ card.mb # None /\ stage \in {"nvidia", "amd"}
      /\ stage' = stage /\ hw' = hw /\ listed' = Append(listed, card)
      /\ stage = "nvidia" => total' = (total + card.mb) % U32
      /\ stage = "amd" => total' = total + card.mb
  BY DEF Lists, NvidiaLine, AmdMemory
<1>2. /\ PlainCpu(hw) /\ Readable(listed)
      /\ stage = "nvidia" => total = Memory(listed) % U32
      /\ stage = "amd" => total = Memory(listed)
  BY <1>1 DEF Whole
<1>3. /\ Readable(listed') /\ Memory(listed') \in Nat
      /\ stage = "nvidia" => total' = Memory(listed') % U32
      /\ stage = "amd" => total' = Memory(listed')
  BY <1>1, <1>2, ALineMore
<1>4. PlainCpu(hw')
  BY <1>1, <1>2
<1>5. QED
  BY <1>1, <1>3, <1>4 DEF Whole, DetectionIsWhole

\* What is detected is what was listed.
LEMMA DetectIsWhole ==
    ASSUME CliInv, Whole, NvidiaEnds \/ AmdEnds, total > 0
    PROVE  Whole'
<1>1. PICK backend \in {"Cuda", "Rocm"} :
         /\ stage = IF backend = "Cuda" THEN "nvidia" ELSE "amd"
         /\ stage' = "figures" /\ listed' = listed
         /\ hw' = [hw EXCEPT !.vram = total % U32, !.backend = backend]
  BY DEF Detect, NvidiaEnds, AmdEnds
<1>2. hw \in Machine
  BY <1>1 DEF CliInv, CliTypeOK, HasMachine
<1>3. hw'.vram = total % U32 /\ hw'.backend = backend /\ ~IsCpu(hw'.backend)
  BY <1>1, <1>2 DEF Machine, IsCpu
<1>4. /\ Readable(listed) /\ Memory(listed) \in Nat
      /\ backend = "Cuda" => total = Memory(listed) % U32
      /\ backend = "Rocm" => total = Memory(listed)
  BY <1>1 DEF Whole
<1>5. U32 \in Nat \ {0}
  BY U16Assumption, U32Assumption
<1>6. total % U32 = Memory(listed) % U32 /\ Memory(listed) > 0 /\ (backend = "Cuda" => total % U32 > 0)
  <2>1. CASE backend = "Rocm"
    BY <1>4, <2>1
  <2>2. CASE backend = "Cuda"
    <3>1. \A x \in Nat : (x % U32) % U32 = x % U32 /\ (x = 0 => x % U32 = 0)
      BY <1>5
    <3>2. QED
      BY <1>4, <2>2, <3>1
  <2>3. QED
    BY <2>1, <2>2
<1>7. QED
  BY <1>1, <1>3, <1>4, <1>6 DEF Whole, DetectionIsWhole

\* The figures of an accelerator change none of this.
LEMMA IdentifyIsWhole ==
    ASSUME CliInv, Whole, Identify
    PROVE  Whole'
<1>1. /\ stage = "figures" /\ stage' \in {"done", "override"} /\ listed' = listed
      /\ hw' = IF gpuName = None THEN hw ELSE Named(hw, gpuName)
  BY DEF Identify, probe
<1>2. hw \in Machine /\ gpuName \in Gpus \cup {None}
  BY <1>1 DEF CliInv, CliTypeOK, HasMachine
<1>3. hw'.vram = hw.vram /\ hw'.backend = hw.backend /\ hw'.unified = hw.unified
  BY <1>1, <1>2, NamedIsAMachine
<1>4. CASE hw.unified
  BY <1>1, <1>3, <1>4 DEF Whole, DetectionIsWhole
<1>5. CASE ~hw.unified /\ IsCpu(hw.backend)
  <2>1. PlainCpu(hw) /\ gpuName = None
    BY <1>1, <1>5 DEF Whole
  <2>2. hw' = hw
    BY <1>1, <2>1
  <2>3. QED
    BY <1>1, <1>5, <2>1, <2>2 DEF Whole, DetectionIsWhole, PlainCpu
<1>6. CASE ~hw.unified /\ ~IsCpu(hw.backend)
  <2>1. /\ Readable(listed) /\ Memory(listed) > 0 /\ (hw.backend = "Cuda" => hw.vram > 0)
        /\ hw.vram = Memory(listed) % U32
    BY <1>1, <1>6 DEF Whole
  <2>2. \A i \in DOMAIN listed : listed[i].mb # None
    BY <2>1 DEF Readable
  <2>3. QED
    BY <1>1, <1>3, <1>6, <2>1, <2>2 DEF Whole, DetectionIsWhole
<1>7. QED
  BY <1>4, <1>5, <1>6

LEMMA WholeStep == CliInv /\ Whole /\ [CliNext]_<<vars, cliVars>> => Whole'
<1> SUFFICES ASSUME CliInv, Whole, [CliNext]_<<vars, cliVars>> PROVE Whole'
  OBVIOUS
<1>1. CASE \/ \E a \in Argument : TakeArgument(a[1], a[2]) \/ BadArgument(a[1], a[2])
           \/ EndOfArguments \/ Load
  <2>1. /\ UNCHANGED <<gpuName, total, listed>> /\ stage \in {"parse", "load"}
        /\ stage' \in {"parse", "load", "sysinfo", "failed"}
    BY <1>1 DEF TakeArgument, BadArgument, EndOfArguments, Load, probe
  <2>2. QED
    BY <2>1 DEF Whole, DetectionIsWhole
<1>2. CASE \E ram \in Rams : AppleSilicon(ram)
  <2>1. PICK ram \in Rams : AppleSilicon(ram)
    BY <1>2
  <2>2. hw' = [Plain(ram, "Metal") EXCEPT !.vram = (3 * ram) \div 4, !.unified = TRUE]
        /\ stage' = "figures"
    BY <2>1 DEF AppleSilicon
  <2>3. hw'.unified
    BY <2>2 DEF Plain
  <2>4. QED
    BY <2>2, <2>3 DEF Whole, DetectionIsWhole
<1>3. CASE \E ram \in Rams, backend \in {"CpuX86", "CpuArm"} : OtherMachine(ram, backend)
  <2>1. PICK ram \in Rams, backend \in {"CpuX86", "CpuArm"} : OtherMachine(ram, backend)
    BY <1>3
  <2>2. /\ hw' = Plain(ram, backend) /\ stage = "sysinfo" /\ stage' = "nvidia"
        /\ UNCHANGED <<gpuName, total, listed>>
    BY <2>1 DEF OtherMachine, probe
  <2>3. PlainCpu(hw')
    BY <2>2 DEF Plain, PlainCpu, IsCpu
  <2>4. Readable(listed') /\ Memory(listed') = 0 /\ total' = 0 /\ 0 % U32 = 0
    BY <2>2, EmptyListing DEF Whole
  <2>5. QED
    BY <2>2, <2>3, <2>4 DEF Whole, DetectionIsWhole
<1>4. CASE \/ NvidiaAbsent \/ NvidiaErrs \/ AmdAbsent \/ AmdErrs
           \/ (NvidiaEnds /\ ~(total > 0)) \/ (AmdEnds /\ ~(total > 0))
           \/ \E card \in Cards : NvidiaUnreadable(card)
  <2>1. /\ stage \in {"nvidia", "amd"}
        /\ \E next \in {"amd", "none"} : \E said : GiveUp(next, said)
    BY <1>4 DEF NvidiaAbsent, NvidiaErrs, AmdAbsent, AmdErrs, NvidiaEnds, AmdEnds,
                NvidiaUnreadable
  <2>2. QED
    BY <2>1, GiveUpIsWhole
<1>5. CASE \E card \in Cards : NvidiaLine(card) \/ AmdMemory(card)
  BY <1>5, ListsIsWhole
<1>6. CASE \E card \in Cards : AmdName(card)
  <2>1. stage = "amd" /\ UNCHANGED <<stage, hw, total, listed>>
    BY <1>6 DEF AmdName
  <2>2. QED
    BY <2>1 DEF Whole, DetectionIsWhole
<1>7. CASE (NvidiaEnds \/ AmdEnds) /\ total > 0
  BY <1>7, DetectIsWhole
<1>8. CASE NoAccelerator
  <2>1. /\ stage = "none" /\ stage' = "figures" /\ UNCHANGED <<hw, gpuName>>
    BY <1>8 DEF NoAccelerator, probe
  <2>2. PlainCpu(hw) /\ gpuName = None
    BY <2>1 DEF Whole
  <2>3. IsCpu(hw'.backend) /\ PlainCpu(hw') /\ gpuName' = None
    BY <2>1, <2>2 DEF PlainCpu
  <2>4. QED
    BY <2>1, <2>3 DEF Whole, DetectionIsWhole
<1>9. CASE ApplyOverrides
  BY <1>9 DEF ApplyOverrides, Whole, DetectionIsWhole
<1>10. CASE UNCHANGED <<vars, cliVars>>
  <2>1. UNCHANGED <<stage, hw, gpuName, total, listed>>
    BY <1>10 DEF cliVars
  <2>2. QED
    BY <2>1 DEF Whole, DetectionIsWhole
<1>11. QED
  BY <1>1, <1>2, <1>3, <1>4, <1>5, <1>6, <1>7, <1>8, <1>9, <1>10, IdentifyIsWhole DEF CliNext

-----------------------------------------------------------------------------
(***************************************************************************)
(* The shell a user sits at                                                *)
(***************************************************************************)
\* At the device no command line was read, and none is; at a command line the
\* invariant of the command line holds.
ShellsInv ==
    /\ LineInv /\ Inv
    /\ command = None => stage = "done"
    /\ command # None => CliInv

\* A program that is done takes no further step.
LEMMA DoneIsDone == CliNext => stage # "done"
BY DEF CliNext, TakeArgument, BadArgument, EndOfArguments, Load, AppleSilicon, OtherMachine,
       NvidiaAbsent, NvidiaErrs, NvidiaEnds, NvidiaLine, NvidiaUnreadable, AmdAbsent, AmdErrs,
       AmdEnds, AmdName, AmdMemory, NoAccelerator, Identify, ApplyOverrides

\* The command is read once.
LEMMA CommandStays == CliNext => command' = command
BY DEF CliNext, TakeArgument, BadArgument, EndOfArguments, Load, AppleSilicon, OtherMachine,
       NvidiaAbsent, NvidiaErrs, NvidiaEnds, NvidiaLine, NvidiaUnreadable, AmdAbsent, AmdErrs,
       AmdEnds, AmdName, AmdMemory, NoAccelerator, Identify, ApplyOverrides, Detect, GiveUp,
       Lists

LEMMA ShellsInitInv == ShellsInit => ShellsInv
<1> SUFFICES ASSUME ShellsInit PROVE ShellsInv
  OBVIOUS
<1>1. LineInv /\ Init /\ Inv
  BY InitLine, InitInv DEF ShellsInit, DeviceInit
<1>2. CASE AtTheDevice
  BY <1>1, <1>2 DEF ShellsInv, AtTheDevice
<1>3. CASE CliInit
  <2>1. command # None
    BY <1>3, NoneIsNoCommand DEF CliInit
  <2>2. CliInv
    BY <1>1, <1>3, CliInitInv
  <2>3. QED
    BY <1>1, <2>1, <2>2 DEF ShellsInv
<1>4. QED
  BY <1>2, <1>3 DEF ShellsInit

LEMMA ShellsStepInv == ShellsInv /\ [ShellsNext]_<<deviceVars, cliVars>> => ShellsInv'
<1> SUFFICES ASSUME ShellsInv, [ShellsNext]_<<deviceVars, cliVars>> PROVE ShellsInv'
  OBVIOUS
<1>1. CASE command = None /\ DeviceNext /\ UNCHANGED cliVars
  <2>1. LineInv'
    BY <1>1, StepLine DEF ShellsInv
  <2>2. [Next]_vars
    BY <1>1, StepOfTheSession DEF ShellsInv, Next
  <2>3. Inv'
    BY <2>2, StepInv DEF ShellsInv
  <2>4. command' = None /\ stage' = "done"
    BY <1>1 DEF cliVars, ShellsInv
  <2>5. QED
    BY <2>1, <2>3, <2>4 DEF ShellsInv
<1>2. CASE CliNext /\ UNCHANGED <<line, screen>>
  <2>1. command # None /\ command' = command
    BY <1>2, DoneIsDone, CommandStays DEF ShellsInv
  <2>2. CliInv'
    BY <1>2, <2>1, CliStepInv DEF ShellsInv
  <2>3. LineInv'
    BY <1>2 DEF ShellsInv, LineInv, ScreenShowsTheLine
  <2>4. QED
    BY <2>1, <2>2, <2>3 DEF ShellsInv, CliInv
<1>3. CASE UNCHANGED <<deviceVars, cliVars>>
  <2>1. UNCHANGED <<vars, cliVars>> /\ UNCHANGED <<line, screen>>
        /\ UNCHANGED <<command, stage>>
    BY <1>3 DEF deviceVars, vars, cliVars
  <2>2. LineInv' /\ Inv'
    BY <2>1, StepInv DEF ShellsInv, LineInv, ScreenShowsTheLine
  <2>3. CliInv => CliInv'
    BY <2>1, CliStepInv
  <2>4. QED
    BY <2>1, <2>2, <2>3 DEF ShellsInv
<1>4. QED
  BY <1>1, <1>2, <1>3 DEF ShellsNext

\* Whichever shell it is, its invariant holds.
THEOREM ShellsInvariant == ShellsSpec => []ShellsInv
BY ShellsInitInv, ShellsStepInv, PTL DEF ShellsSpec

\* The session behind either shell keeps its types, its accelerator memory
\* off the CPU and the figures of the machine it names.
THEOREM SessionIsSound ==
    ShellsSpec => [](TypeOK /\ VramHasAnAccelerator /\ FiguresAreOfTheNamedGpu)
<1>1. ShellsInv => TypeOK /\ VramHasAnAccelerator /\ FiguresAreOfTheNamedGpu
  BY DEF ShellsInv, Inv
<1>2. QED
  BY <1>1, ShellsInvariant, PTL

\* At either shell, no memory is scored as a CPU's, and the command line means
\* what the console would have understood.
THEOREM ShellsSayTheSame ==
    ShellsSpec => [](ScoredVramHasAnAccelerator /\ SaysTheSame)
<1>1. ShellsInv => ScoredVramHasAnAccelerator /\ SaysTheSame
  BY DEF ShellsInv, CliInv, ScoredVramHasAnAccelerator, SaysTheSame
<1>2. QED
  BY <1>1, ShellsInvariant, PTL

\* At the device the session moves only as the line on the screen says.
THEOREM DeviceAlwaysFollowsTheScreen == ShellsSpec => DeviceFollowsTheScreen
<1>1. ShellsInv /\ [ShellsNext]_<<deviceVars, cliVars>>
      => [command = None => UNCHANGED vars \/ Handle(Meaning[screen])]_<<deviceVars, cliVars>>
  <2> SUFFICES ASSUME ShellsInv, ShellsNext, command = None
               PROVE  UNCHANGED vars \/ Handle(Meaning[screen])
    OBVIOUS
  <2>1. DeviceNext
    BY DoneIsDone DEF ShellsInv, ShellsNext
  <2>2. QED
    BY <2>1, StepOfTheSession DEF ShellsInv
<1>2. QED
  BY <1>1, ShellsInvariant, PTL DEF ShellsSpec, DeviceFollowsTheScreen

\* What either shell goes on with after detection is an accelerator with all
\* the memory its tool listed, or nothing of one.
THEOREM DetectionIsAlwaysWhole == ShellsSpec => []DetectionIsWhole
<1> DEFINE J == ShellsInv /\ (command # None => Whole)
<1>1. ShellsInit => J
  <2>1. CliInit => Whole
    BY WholeInit
  <2>2. QED
    BY <2>1, ShellsInitInv DEF ShellsInit, AtTheDevice
<1>2. J /\ [ShellsNext]_<<deviceVars, cliVars>> => J'
  <2> SUFFICES ASSUME J, [ShellsNext]_<<deviceVars, cliVars>> PROVE (command # None => Whole)'
    BY ShellsStepInv
  <2>1. CASE command = None /\ UNCHANGED cliVars
    BY <2>1 DEF cliVars
  <2>2. CASE CliNext
    <3>1. command # None
      BY <2>2, DoneIsDone DEF ShellsInv
    <3>2. QED
      BY <2>2, <3>1, WholeStep DEF ShellsInv
  <2>3. CASE UNCHANGED <<deviceVars, cliVars>>
    <3>1. UNCHANGED <<vars, cliVars>> /\ command' = command
      BY <2>3 DEF deviceVars, vars, cliVars
    <3>2. QED
      BY <3>1, WholeStep DEF ShellsInv
  <2>4. QED
    BY <2>1, <2>2, <2>3 DEF ShellsNext
<1>3. J => DetectionIsWhole
  BY DEF ShellsInv, Whole, DetectionIsWhole
<1> HIDE DEF J
<1>4. QED
  BY <1>1, <1>2, <1>3, PTL DEF ShellsSpec
=============================================================================
