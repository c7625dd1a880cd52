-------------------------------- MODULE Fit --------------------------------
(***************************************************************************)
(* The memory model, run-mode selection and quantization walk of           *)
(* openchoice-core/src/fit.rs, with the quantizations of quant.rs and what *)
(* fit.rs reads of hardware.rs and catalog.rs.                             *)
(*                                                                         *)
(* Sizes are MiB.  The f32 arithmetic of the source is replaced by exact   *)
(* arithmetic truncated where the source truncates; a ratio is compared by *)
(* cross-multiplication.  `utilization_pctx10` is left out: it is the same *)
(* ratio for display.                                                      *)
(***************************************************************************)
EXTENDS Integers

CONSTANTS None,      \* the absent value of an Option
          Machines,  \* the machines a caller describes
          Models,    \* the models of a catalog
          Options,   \* the Opts a caller asks for
          U32        \* how many values a u32 has

-----------------------------------------------------------------------------
(***************************************************************************)
(* Data.                                                                   *)
(***************************************************************************)
\* quant::Quant by discriminant: smaller is better quality.
F16   == 0
Q8_0  == 1
Q2K   == 6
Quant == F16..Q2K

\* Quant::bits_per_weight, in hundredths of a bit.
BitsPerWeight ==
    [q \in Quant |-> CASE q = 0 -> 1600 [] q = 1 -> 850 [] q = 2 -> 656
                       [] q = 3 -> 567  [] q = 4 -> 483 [] q = 5 -> 391
                       [] q = 6 -> 335]

\* fit::Verdict in its derived order, and fit::RunMode.
TooTight == 0
Marginal == 1
Good     == 2
Perfect  == 3
Verdict  == TooTight..Perfect
RunMode  == {"Gpu", "MoeOffload", "CpuGpu", "UnifiedSpill", "Cpu"}

MinContext == 512

\* Hardware: `cpu` is backend.is_cpu().
MachineType ==
    [cpu : BOOLEAN, vram : Nat, ram : Nat, reserve : Nat, unified : BOOLEAN]

\* A catalog record, in millions of parameters.  `quants` is the mask, and
\* `kvKib` the KiB that layers * kv_heads * head_dim elements take at one
\* byte each when the record carries architecture metadata, else None.
ModelType ==
    [params : Nat, active : Nat, moe : BOOLEAN, context : Nat,
     quants : SUBSET Quant, kvKib : (Nat \ {0}) \cup {None}]

\* Opts: `kvWidth` is the bytes a K and a V element take together.
OptsType ==
    [context : Nat \cup {None}, kvWidth : {1, 2, 4}, moeOffload : BOOLEAN,
     maxQuant : Quant]

ASSUME InputsAssumption ==
    /\ U32 \in Nat \ {0}
    /\ Machines \subseteq MachineType
    /\ Models \subseteq ModelType
    /\ Options \subseteq OptsType
    /\ None \notin Nat

-----------------------------------------------------------------------------
(***************************************************************************)
(* The memory model.                                                       *)
(***************************************************************************)
Least(a, b) == IF a < b THEN a ELSE b
Most(a, b)  == IF a < b THEN b ELSE a
Monus(a, b) == IF a < b THEN 0 ELSE a - b

\* Hardware::usable_ram_mb.
UsableRam(h) == Monus(h.ram, h.reserve)

\* Model::active_params_m and Model::supports_quant.
ActiveParams(m) == IF m.active = 0 THEN m.params ELSE m.active
Supports(m, q)  == m.quants = {} \/ q \in m.quants

\* weights_mb: params * 10^6 * bits / 8 bytes, which is bits * 625 / 524288
\* MiB for a million parameters, the division split to keep products small.
WeightsMb(params, q) ==
    LET bits == params * BitsPerWeight[q]
    IN  (bits \div 524288) * 625 + ((bits % 524288) * 625) \div 524288

\* arch_for: KiB per token at one byte per element, by size class when the
\* catalog has no metadata (layers * kv_heads * head_dim / 1024).
ArchKib(m) ==
    IF m.kvKib # None THEN m.kvKib
    ELSE CASE m.params <=   600 -> 6
           [] m.params >    600 /\ m.params <=  2000 -> 14
           [] m.params >   2000 /\ m.params <=  9000 -> 32
           [] m.params >   9000 /\ m.params <= 16000 -> 40
           [] m.params >  16000 /\ m.params <= 24000 -> 48
           [] m.params >  24000 /\ m.params <= 40000 -> 64
           [] m.params >  40000 /\ m.params <= 80000 -> 80
           [] m.params >  80000 -> 96

\* kv_bytes_per_token, in KiB.
KvKib(m, o) == ArchKib(m) * o.kvWidth

\* overhead_mb.
OverheadMb(weights, ctx) == 128 + weights \div 20 + ctx \div 512

\* Mutant: the two names of one unified pool are added up.
SpillPool_Doubled(h) == (h.vram + UsableRam(h)) % U32

\* What a model the accelerator cannot hold alone draws from: a card and a RAM
\* declared near the top of a u32 add up to less than either.  (What a model
\* asks for is summed without bound: to wrap it takes 4 PiB.)
SpillPool(h) == IF h.unified THEN UsableRam(h) ELSE (h.vram + UsableRam(h)) % U32

(***************************************************************************)
(* evaluate_at: the plan for model m on machine h at quantization q and    *)
(* context ctx: the first path whose pool holds it, what it keeps in that  *)
(* pool, and what it parks outside of it.                                  *)
(***************************************************************************)
Plan(m, h, o, q, ctx) ==
    LET full    == WeightsMb(m.params, q)
        active  == WeightsMb(ActiveParams(m), q)
        kv      == (KvKib(m, o) * ctx) \div 1024
        oh      == OverheadMb(full, ctx)
        ram     == UsableRam(h)
        parked  == Monus(full, active)
        On(mode, pool, weights, offloaded) ==
            [mode |-> mode, pool |-> pool, weights |-> weights, kv |-> kv,
             overhead |-> oh, offloaded |-> offloaded]
    IN  IF h.cpu \/ h.vram = 0
        THEN On("Cpu", ram, full, 0)
        ELSE IF full + kv + oh <= h.vram
        THEN On("Gpu", h.vram, full, 0)
        ELSE IF h.unified
        THEN On("UnifiedSpill", SpillPool(h), full, 0)
        ELSE IF /\ m.moe /\ o.moeOffload
                /\ active + kv + oh <= h.vram
                /\ parked <= ram
        THEN On("MoeOffload", h.vram, active, parked)
        ELSE On("CpuGpu", SpillPool(h), full, 0)

\* MemoryBreakdown::resident_mb.
Resident(plan) == plan.weights + plan.kv + plan.overhead

\* pure_verdict of resident / pool; an empty pool has an infinite ratio.
PureVerdict(resident, pool) ==
    IF pool = 0 THEN TooTight
    ELSE IF 100 * resident <= 60 * pool THEN Perfect
    ELSE IF 100 * resident <= 85 * pool THEN Good
    ELSE IF 100 * resident <= 98 * pool THEN Marginal
    ELSE TooTight

\* cap, with RunMode::verdict_cap.
Capped(verdict, mode) ==
    Least(verdict, IF mode = "Gpu" THEN Perfect ELSE Good)

\* Mutant: the KV cache is taken out of the spare memory it lives in.
UsableContext_MinusCache(m, o, q, ctx, plan) ==
    LET full  == WeightsMb(m.params, q)
        spare == Monus(plan.pool, full + OverheadMb(full, ctx) + plan.kv)
    IN  Least((spare * 1024) \div KvKib(m, o), Most(m.context, MinContext))

\* The context the pool would take beside the whole weights at q.
UsableContext(m, o, q, ctx, plan) ==
    LET full  == WeightsMb(m.params, q)
        spare == Monus(plan.pool, full + OverheadMb(full, ctx))
    IN  Least((spare * 1024) \div KvKib(m, o), Most(m.context, MinContext))

\* evaluate_at.
EvaluateAt(m, h, o, q, ctx) ==
    LET plan == Plan(m, h, o, q, ctx)
    IN  [verdict |-> Capped(PureVerdict(Resident(plan), plan.pool), plan.mode),
         quant   |-> q,
         context |-> ctx,
         usable  |-> UsableContext(m, o, q, ctx, plan),
         plan    |-> plan]

Runnable(fit) == fit.verdict # TooTight

-----------------------------------------------------------------------------
(***************************************************************************)
(* evaluate: the walk down the quantization hierarchy, at the requested    *)
(* context and then at half of it, one rung per step.                      *)
(***************************************************************************)
VARIABLES hw, model, opts,  \* the arguments of evaluate, never changed
          pc,               \* "walk" or "done"
          halved,           \* which iteration of the outer loop
          rung,             \* the inner loop's quantization; past Q2K at its end
          fit               \* what evaluate returns, None until it does

vars == <<hw, model, opts, pc, halved, rung, fit>>

NativeContext == IF model.context = 0 THEN 4096 ELSE model.context

Requested ==
    Most(Least(IF opts.context = None THEN NativeContext ELSE opts.context,
               NativeContext),
         MinContext)

Context(half) == IF half THEN Requested \div 2 ELSE Requested

\* The rungs the walk does not `continue` past.
Considered(half, q) ==
    /\ Context(half) >= MinContext
    /\ q >= opts.maxQuant
    /\ Supports(model, q)

At(half, q) == EvaluateAt(model, hw, opts, q, Context(half))

Init ==
    /\ hw \in Machines
    /\ model \in Models
    /\ opts \in Options
    /\ pc = "walk"
    /\ halved = FALSE
    /\ rung = F16
    /\ fit = None

\* `continue`: a quantization that is above the cap or not published.
Skip ==
    /\ pc = "walk"
    /\ rung \in Quant
    /\ ~Considered(halved, rung)
    /\ rung' = rung + 1
    /\ UNCHANGED <<hw, model, opts, pc, halved, fit>>

\* A rung that does not fit.
StepDown ==
    /\ pc = "walk"
    /\ rung \in Quant
    /\ Considered(halved, rung)
    /\ ~Runnable(At(halved, rung))
    /\ rung' = rung + 1
    /\ UNCHANGED <<hw, model, opts, pc, halved, fit>>

\* The first rung that fits is returned.
Accept ==
    /\ pc = "walk"
    /\ rung \in Quant
    /\ Considered(halved, rung)
    /\ Runnable(At(halved, rung))
    /\ fit' = At(halved, rung)
    /\ pc' = "done"
    /\ UNCHANGED <<hw, model, opts, halved, rung>>

\* Mutant: the second walk starts where the first one ended.
HalveContext_AtTheEnd ==
    /\ pc = "walk"
    /\ rung \notin Quant
    /\ ~halved
    /\ halved' = TRUE
    /\ rung' = Q2K
    /\ UNCHANGED <<hw, model, opts, pc, fit>>

\* Nothing fits at the requested context: the outer loop's second iteration.
HalveContext ==
    /\ pc = "walk"
    /\ rung \notin Quant
    /\ ~halved
    /\ halved' = TRUE
    /\ rung' = F16
    /\ UNCHANGED <<hw, model, opts, pc, fit>>

\* Nothing fits at all: the most compressed configuration is reported, at
\* the requested context.
GiveUp ==
    /\ pc = "walk"
    /\ rung \notin Quant
    /\ halved
    /\ fit' = At(FALSE, Q2K)
    /\ pc' = "done"
    /\ UNCHANGED <<hw, model, opts, halved, rung>>

Next == Skip \/ StepDown \/ Accept \/ HalveContext \/ GiveUp

Spec == Init /\ [][Next]_vars

-----------------------------------------------------------------------------
(***************************************************************************)
(* Properties.                                                             *)
(***************************************************************************)
PlanType ==
    [mode : RunMode, pool : Nat, weights : Nat, kv : Nat, overhead : Nat,
     offloaded : Nat]

FitType ==
    [verdict : Verdict, quant : Quant, context : Nat, usable : Nat,
     plan : PlanType]

TypeOK ==
    /\ hw \in Machines
    /\ model \in Models
    /\ opts \in Options
    /\ pc \in {"walk", "done"}
    /\ halved \in BOOLEAN
    /\ rung \in 0..(Q2K + 1)
    /\ IF pc = "done" THEN fit \in FitType ELSE fit = None

\* Rung (half, q) comes before rung (half2, q2) in the walk.
Before(half, q, half2, q2) == (~half /\ half2) \/ (half = half2 /\ q < q2)

\* What evaluate's doc comment promises of the walk: the answer is the first
\* considered rung that is runnable, in the order full context before half
\* and best quality first; if no rung is, it is Q2K at the full context.
FirstThatFits ==
    pc = "done" =>
        \/ \E half \in BOOLEAN, q \in Quant :
              /\ Considered(half, q)
              /\ fit = At(half, q)
              /\ Runnable(fit)
              /\ \A h2 \in BOOLEAN, q2 \in Quant :
                    Before(h2, q2, half, q) /\ Considered(h2, q2) =>
                        ~Runnable(At(h2, q2))
        \/ /\ fit = At(FALSE, Q2K)
           /\ \A half \in BOOLEAN, q \in Quant :
                 Considered(half, q) => ~Runnable(At(half, q))

\* No byte of memory is promised twice: what a runnable fit keeps in its pool
\* and what it parks in RAM fit together in the memory the machine really
\* has, which on a unified machine is one pool, not two (the doc of
\* Hardware::unified: "Prevents double-counting the pool").
MemoryExists ==
    pc = "done" /\ Runnable(fit) =>
        LET needed == Resident(fit.plan) + fit.plan.offloaded
        IN  CASE hw.cpu         -> needed <= UsableRam(hw)
              [] hw.unified /\ ~hw.cpu -> needed <= Most(hw.vram, UsableRam(hw))
              [] OTHER          -> needed <= hw.vram + UsableRam(hw)

\* The weights are all somewhere, and a Perfect fit has all of them on the
\* accelerator with two fifths of it to spare (RunMode::verdict_cap: "Only a
\* model sitting wholly on the accelerator can be Perfect").
PerfectIsOnTheAccelerator ==
    pc = "done" /\ fit.verdict = Perfect =>
        /\ ~hw.cpu
        /\ fit.plan.weights = WeightsMb(model.params, fit.quant)
        /\ 100 * Resident(fit.plan) <= 60 * hw.vram

\* A runnable fit can hold the context it was judged at, whenever its pool
\* holds all the weights; the two figures are computed by separate formulas,
\* each with its own rounding.  There are two exceptions: MoeOffload (see
\* UsableCoversEffective), and a record that leaves its window at 0, which is
\* judged at 4096 tokens (fit.rs:244) and credited with no more than 512
\* (fit.rs:318).
UsableCoversEffectiveInPool ==
    pc = "done" /\ Runnable(fit) /\ fit.plan.mode # "MoeOffload" =>
        fit.usable >= Least(fit.context, Most(model.context, MinContext))

-----------------------------------------------------------------------------
(***************************************************************************)
(* What the documentation says and the code does not do.                   *)
(***************************************************************************)
\* Fit::usable_context: "Context that actually fits after weights and
\* overhead".  A fit that runs at some context has at least that context.
UsableCoversEffective ==
    pc = "done" /\ Runnable(fit) => fit.usable >= fit.context

=============================================================================
