----------------------------- MODULE Fit_proofs -----------------------------
(***************************************************************************)
(* Proofs about Fit for every machine, model and option: the types, that   *)
(* the walk returns the first rung that fits, that a runnable fit asks for *)
(* memory the machine has, and that a Perfect fit is on the accelerator.   *)
(***************************************************************************)
EXTENDS Fit, TLAPS

(***************************************************************************)
(* The memory model's types.                                               *)
(***************************************************************************)
LEMMA InputTypes ==
    ASSUME NEW m \in Models, NEW h \in Machines, NEW o \in Options
    PROVE  /\ m.params \in Nat /\ m.active \in Nat /\ m.context \in Nat
           /\ m.kvKib \in (Nat \ {0}) \cup {None}
           /\ h.cpu \in BOOLEAN /\ h.unified \in BOOLEAN
           /\ h.vram \in Nat /\ h.ram \in Nat /\ h.reserve \in Nat
           /\ o.context \in Nat \cup {None} /\ o.kvWidth \in {1, 2, 4}
           /\ o.maxQuant \in Quant
<1>1. m \in ModelType /\ h \in MachineType /\ o \in OptsType
  BY InputsAssumption
<1>2. QED
  BY <1>1 DEF ModelType, MachineType, OptsType

LEMMA WeightsType ==
    ASSUME NEW p \in Nat, NEW q \in Quant
    PROVE  WeightsMb(p, q) \in Nat
<1>1. BitsPerWeight[q] \in Nat
  BY DEF BitsPerWeight, Quant, F16, Q2K
<1>2. p * BitsPerWeight[q] \in Nat
  BY <1>1
<1> DEFINE bits == p * BitsPerWeight[q]
<1>3. bits \div 524288 \in Nat /\ bits % 524288 \in Nat
  BY <1>2
<1>4. (bits % 524288) * 625 \in Nat /\ (bits \div 524288) * 625 \in Nat
  BY <1>3
<1>5. ((bits % 524288) * 625) \div 524288 \in Nat
  BY <1>4
<1>6. QED
  BY <1>4, <1>5 DEF WeightsMb

LEMMA KvType ==
    ASSUME NEW m \in Models, NEW o \in Options
    PROVE  KvKib(m, o) \in Nat \ {0}
<1>1. /\ m.params \in Nat
      /\ m.kvKib \in (Nat \ {0}) \cup {None}
      /\ o.kvWidth \in {1, 2, 4}
  <2>1. m \in ModelType /\ o \in OptsType
    BY InputsAssumption
  <2>2. QED
    BY <2>1 DEF ModelType, OptsType
<1>2. ArchKib(m) \in Nat \ {0}
  BY <1>1 DEF ArchKib
<1>3. QED
  BY <1>1, <1>2 DEF KvKib

LEMMA UsableRamType ==
    ASSUME NEW h \in Machines
    PROVE  UsableRam(h) \in Nat
<1>1. h \in MachineType
  BY InputsAssumption
<1>2. QED
  BY <1>1 DEF MachineType, UsableRam, Monus

\* What is left of a number by a modulus is no more than the number.
LEMMA Remainder ==
    ASSUME NEW n \in Nat, NEW d \in Nat \ {0}
    PROVE  n % d \in Nat /\ n % d <= n
<1>1. n % d \in 0..(d - 1)
  OBVIOUS
<1>2. CASE n >= d
  BY <1>1, <1>2
<1>3. CASE n < d
  <2>1. n % d = n
    BY <1>3
  <2>2. QED
    BY <2>1
<1>4. QED
  BY <1>2, <1>3

\* A pool is a number whatever wraps, and never more than there is.
LEMMA SpillPoolType ==
    ASSUME NEW h \in Machines
    PROVE  /\ SpillPool(h) \in Nat
           /\ ~h.unified => SpillPool(h) <= h.vram + UsableRam(h)
<1>1. h \in MachineType /\ U32 \in Nat \ {0}
  BY InputsAssumption
<1>2. h.vram + UsableRam(h) \in Nat /\ UsableRam(h) \in Nat
  BY <1>1, UsableRamType DEF MachineType
<1>3. /\ (h.vram + UsableRam(h)) % U32 \in Nat
      /\ (h.vram + UsableRam(h)) % U32 <= h.vram + UsableRam(h)
  BY <1>1, <1>2, Remainder
<1>4. QED
  BY <1>2, <1>3 DEF SpillPool

\* The five ways evaluate_at places a model, and what each guarantees.
LEMMA PlanCases ==
    ASSUME NEW m \in Models, NEW h \in Machines, NEW o \in Options,
           NEW q \in Quant, NEW ctx \in Nat
    PROVE  LET p    == Plan(m, h, o, q, ctx)
               full == WeightsMb(m.params, q)
           IN  /\ p \in PlanType
               /\ p.kv = (KvKib(m, o) * ctx) \div 1024
               /\ p.overhead = OverheadMb(full, ctx)
               /\ \/ /\ p.mode = "Cpu" /\ (h.cpu \/ h.vram = 0)
                     /\ p.pool = UsableRam(h)
                     /\ p.weights = full /\ p.offloaded = 0
                  \/ /\ p.mode = "Gpu" /\ ~h.cpu /\ p.pool = h.vram
                     /\ p.weights = full /\ p.offloaded = 0
                  \/ /\ p.mode = "UnifiedSpill" /\ ~h.cpu /\ h.unified
                     /\ p.pool = UsableRam(h)
                     /\ p.weights = full /\ p.offloaded = 0
                  \/ /\ p.mode = "MoeOffload" /\ ~h.cpu /\ ~h.unified
                     /\ p.pool = h.vram /\ p.offloaded <= UsableRam(h)
                  \/ /\ p.mode = "CpuGpu" /\ ~h.cpu /\ ~h.unified
                     /\ p.pool <= h.vram + UsableRam(h)
                     /\ p.weights = full /\ p.offloaded = 0
                     /\ h.vram > 0 /\ Resident(p) > h.vram
<1> DEFINE full   == WeightsMb(m.params, q)
           active == WeightsMb(ActiveParams(m), q)
           kv     == (KvKib(m, o) * ctx) \div 1024
           oh     == OverheadMb(full, ctx)
           parked == Monus(full, active)
           On(mode, pool, weights, offloaded) ==
               [mode |-> mode, pool |-> pool, weights |-> weights, kv |-> kv,
                overhead |-> oh, offloaded |-> offloaded]
<1>1. full \in Nat /\ active \in Nat
  BY InputTypes, WeightsType DEF ActiveParams
<1>2. kv \in Nat
  <2>1. KvKib(m, o) * ctx \in Nat
    BY KvType
  <2>2. QED
    BY <2>1
<1>3. oh \in Nat
  BY <1>1 DEF OverheadMb
<1>4. parked \in Nat
  BY <1>1 DEF Monus
<1>5. h.vram \in Nat /\ UsableRam(h) \in Nat /\ SpillPool(h) \in Nat
  BY InputTypes, UsableRamType, SpillPoolType
<1>6. ASSUME NEW mode \in RunMode, NEW pool \in Nat, NEW weights \in Nat,
             NEW offloaded \in Nat
      PROVE  On(mode, pool, weights, offloaded) \in PlanType
  BY <1>2, <1>3 DEF PlanType
<1>7. Plan(m, h, o, q, ctx) =
        IF h.cpu \/ h.vram = 0
        THEN On("Cpu", UsableRam(h), full, 0)
        ELSE IF full + kv + oh <= h.vram
        THEN On("Gpu", h.vram, full, 0)
        ELSE IF h.unified
        THEN On("UnifiedSpill", SpillPool(h), full, 0)
        ELSE IF /\ m.moe /\ o.moeOffload
                /\ active + kv + oh <= h.vram
                /\ parked <= UsableRam(h)
        THEN On("MoeOffload", h.vram, active, parked)
        ELSE On("CpuGpu", SpillPool(h), full, 0)
  BY Zenon DEF Plan
<1> HIDE DEF full, active, kv, oh, parked
<1>8. /\ Plan(m, h, o, q, ctx).kv = kv
      /\ Plan(m, h, o, q, ctx).overhead = oh
  BY <1>7
<1>9. CASE h.cpu \/ h.vram = 0
  BY <1>1, <1>5, <1>6, <1>7, <1>8, <1>9 DEF RunMode, full, kv, oh
<1>10. CASE ~(h.cpu \/ h.vram = 0) /\ full + kv + oh <= h.vram
  BY <1>1, <1>5, <1>6, <1>7, <1>8, <1>10 DEF RunMode, full, kv, oh
<1>11. CASE /\ ~(h.cpu \/ h.vram = 0) /\ ~(full + kv + oh <= h.vram)
            /\ h.unified
  BY <1>1, <1>5, <1>6, <1>7, <1>8, <1>11 DEF RunMode, SpillPool, full, kv, oh
<1>12. CASE /\ ~(h.cpu \/ h.vram = 0) /\ ~(full + kv + oh <= h.vram)
            /\ ~h.unified
  <2>1. h.vram \in Nat /\ h.vram > 0
    BY <1>5, <1>12
  <2>2. CASE /\ m.moe /\ o.moeOffload
             /\ active + kv + oh <= h.vram
             /\ parked <= UsableRam(h)
    BY <1>1, <1>4, <1>5, <1>6, <1>7, <1>8, <1>12, <2>2 DEF RunMode, full, kv, oh
  <2>3. CASE ~(/\ m.moe /\ o.moeOffload
               /\ active + kv + oh <= h.vram
               /\ parked <= UsableRam(h))
    <3>1. Plan(m, h, o, q, ctx) = On("CpuGpu", SpillPool(h), full, 0)
      BY <1>7, <1>12, <2>3 DEF SpillPool
    <3>2. Resident(Plan(m, h, o, q, ctx)) > h.vram
      BY <1>1, <1>2, <1>3, <1>5, <1>12, <3>1 DEF Resident
    <3>3. SpillPool(h) <= h.vram + UsableRam(h)
      BY <1>12, SpillPoolType
    <3>4. QED
      BY <1>1, <1>5, <1>6, <1>8, <1>12, <2>1, <3>1, <3>2, <3>3 DEF RunMode, full, kv, oh
  <2>4. QED
    BY <2>2, <2>3
<1>13. QED
  BY <1>9, <1>10, <1>11, <1>12

LEMMA ResidentType ==
    ASSUME NEW p \in PlanType
    PROVE  Resident(p) \in Nat /\ p.pool \in Nat
BY DEF PlanType, Resident

\* What a verdict says of the pool.
LEMMA VerdictFacts ==
    ASSUME NEW r \in Nat, NEW pool \in Nat, NEW mode \in RunMode
    PROVE  LET v == Capped(PureVerdict(r, pool), mode)
           IN  /\ v \in Verdict
               /\ v # TooTight => r <= pool /\ 100 * r <= 98 * pool
               /\ v = Perfect => mode = "Gpu" /\ 100 * r <= 60 * pool
<1>1. /\ PureVerdict(r, pool) \in Verdict
      /\ PureVerdict(r, pool) # TooTight => r <= pool /\ 100 * r <= 98 * pool
      /\ PureVerdict(r, pool) = Perfect => 100 * r <= 60 * pool
  BY DEF PureVerdict, Verdict, TooTight, Marginal, Good, Perfect
<1>2. QED
  BY <1>1 DEF Capped, Least, Verdict, TooTight, Marginal, Good, Perfect

LEMMA UsableType ==
    ASSUME NEW m \in Models, NEW h \in Machines, NEW o \in Options,
           NEW q \in Quant, NEW ctx \in Nat, NEW p \in PlanType
    PROVE  UsableContext(m, o, q, ctx, p) \in Nat
<1> DEFINE full  == WeightsMb(m.params, q)
           oh    == OverheadMb(full, ctx)
           spare == Monus(p.pool, full + oh)
<1>1. full \in Nat /\ m.context \in Nat
  BY InputTypes, WeightsType
<1>2. oh \in Nat
  BY <1>1 DEF OverheadMb
<1>3. spare \in Nat
  BY <1>1, <1>2, ResidentType DEF Monus
<1>4. (spare * 1024) \div KvKib(m, o) \in Nat
  <2>1. \A a \in Nat, b \in Nat \ {0} : (a * 1024) \div b \in Nat
    OBVIOUS
  <2>2. QED
    BY <1>3, <2>1, KvType
<1> HIDE DEF full, oh, spare
<1>5. Least((spare * 1024) \div KvKib(m, o), Most(m.context, MinContext)) \in Nat
  BY <1>1, <1>4 DEF Least, Most, MinContext
<1>6. QED
  BY <1>5 DEF UsableContext, spare, oh, full

LEMMA EvaluateType ==
    ASSUME NEW m \in Models, NEW h \in Machines, NEW o \in Options,
           NEW q \in Quant, NEW ctx \in Nat
    PROVE  EvaluateAt(m, h, o, q, ctx) \in FitType
<1> DEFINE p == Plan(m, h, o, q, ctx)
<1>1. p \in PlanType
  BY PlanCases
<1> HIDE DEF p
<1>2. p.mode \in RunMode
  BY <1>1 DEF PlanType
<1>3. Capped(PureVerdict(Resident(p), p.pool), p.mode) \in Verdict
  BY <1>1, <1>2, ResidentType, VerdictFacts
<1>4. UsableContext(m, o, q, ctx, p) \in Nat
  BY <1>1, UsableType
<1>5. QED
  BY <1>1, <1>3, <1>4 DEF EvaluateAt, FitType, p

\* The context a pool takes is rounded down, and so is the cache of a context:
\* a MiB to spare makes up for both.
LEMMA CacheFits ==
    ASSUME NEW k \in Nat \ {0}, NEW ctx \in Nat, NEW spare \in Nat,
           (k * ctx) \div 1024 + 1 <= spare
    PROVE  ctx <= (spare * 1024) \div k
<1> DEFINE n == k * ctx
           s == spare * 1024
<1>1. n \in Nat /\ s \in Nat /\ ctx * k = n
  OBVIOUS
<1>2. n < (n \div 1024 + 1) * 1024
  BY <1>1
<1>3. (n \div 1024 + 1) * 1024 <= s
  BY <1>1
<1>4. ctx * k <= s
  BY <1>1, <1>2, <1>3
<1>5. \A a \in Nat, b \in Nat, d \in Nat \ {0} : b * d <= a => b <= a \div d
  OBVIOUS
<1> HIDE DEF n, s
<1>6. ctx <= s \div k
  BY <1>1, <1>4, <1>5
<1>7. QED
  BY <1>6 DEF s

-----------------------------------------------------------------------------
(***************************************************************************)
(* The walk.                                                               *)
(***************************************************************************)
\* Every rung already passed was skipped or did not fit.
PassedOver ==
    pc = "walk" =>
        \A half \in BOOLEAN, q \in Quant :
            Before(half, q, halved, rung) /\ Considered(half, q) =>
                ~Runnable(At(half, q))

\* The answer is a rung of the model on the machine it was asked about.
AnswerIsARung ==
    pc = "done" => \E half \in BOOLEAN, q \in Quant : fit = At(half, q)

IInv == TypeOK /\ PassedOver /\ AnswerIsARung /\ FirstThatFits

\* A step of the walk keeps its arguments, so a rung means the same after it.
LEMMA SameRungs ==
    ASSUME UNCHANGED <<hw, model, opts>>, NEW half \in BOOLEAN, NEW q \in Quant
    PROVE  At(half, q)' = At(half, q) /\ Considered(half, q)' = Considered(half, q)
BY DEF At, Considered, Context, Requested, NativeContext

LEMMA ContextType ==
    ASSUME TypeOK, NEW half \in BOOLEAN
    PROVE  Context(half) \in Nat
<1>1. /\ model.context \in Nat
      /\ opts.context \in Nat \cup {None}
  BY InputTypes DEF TypeOK
<1>2. NativeContext \in Nat
  BY <1>1 DEF NativeContext
<1>3. Requested \in Nat
  BY <1>1, <1>2 DEF Requested, Least, Most, MinContext
<1>4. QED
  BY <1>3 DEF Context

LEMMA AtType ==
    ASSUME TypeOK, NEW half \in BOOLEAN, NEW q \in Quant
    PROVE  At(half, q) \in FitType
BY EvaluateType, ContextType DEF At, TypeOK

LEMMA InitInvariant == Init => IInv
<1> SUFFICES ASSUME Init PROVE IInv
  OBVIOUS
<1>1. TypeOK
  <2>1. halved \in BOOLEAN
    BY Zenon DEF Init
  <2>2. rung \in 0..(Q2K + 1)
    BY DEF Init, F16, Q2K
  <2>3. QED
    BY <2>1, <2>2 DEF Init, TypeOK
<1>2. PassedOver
  BY DEF Init, PassedOver, Before, Quant, F16, Q2K
<1>3. QED
  BY <1>1, <1>2 DEF Init, IInv, AnswerIsARung, FirstThatFits

\* Moving past a rung that was skipped or does not fit.
LEMMA AdvanceInvariant ==
    ASSUME IInv, Skip \/ StepDown
    PROVE  IInv'
<1>1. /\ pc = "walk" /\ rung \in Quant /\ rung' = rung + 1
      /\ UNCHANGED <<hw, model, opts, pc, halved, fit>>
      /\ Considered(halved, rung) => ~Runnable(At(halved, rung))
      /\ halved \in BOOLEAN
  BY DEF Skip, StepDown, IInv, TypeOK
<1>2. TypeOK'
  BY <1>1 DEF IInv, TypeOK, Quant, F16, Q2K
<1>3. PassedOver'
  <2> SUFFICES ASSUME NEW half \in BOOLEAN, NEW q \in Quant,
                      Before(half, q, halved, rung + 1), Considered(half, q)
               PROVE  ~Runnable(At(half, q))
    BY <1>1, SameRungs DEF PassedOver, Before, Runnable
  <2>1. Before(half, q, halved, rung) \/ (half = halved /\ q = rung)
    BY <1>1 DEF Before, Quant, F16, Q2K
  <2>2. QED
    BY <1>1, <2>1 DEF IInv, PassedOver
<1>4. QED
  BY <1>1, <1>2, <1>3 DEF IInv, AnswerIsARung, FirstThatFits

LEMMA AcceptInvariant ==
    ASSUME IInv, Accept
    PROVE  IInv'
<1>1. /\ pc = "walk" /\ rung \in Quant /\ halved \in BOOLEAN
      /\ UNCHANGED <<hw, model, opts, halved, rung>>
      /\ Considered(halved, rung) /\ Runnable(At(halved, rung))
      /\ fit' = At(halved, rung) /\ pc' = "done"
  BY DEF Accept, IInv, TypeOK
<1>2. TypeOK'
  BY <1>1, AtType DEF IInv, TypeOK
<1>3. PassedOver'
  BY <1>1 DEF PassedOver
<1>4. \A h2 \in BOOLEAN, q2 \in Quant :
         Before(h2, q2, halved, rung) /\ Considered(h2, q2) =>
             ~Runnable(At(h2, q2))
  BY <1>1 DEF IInv, PassedOver
<1>5. \A half \in BOOLEAN, q \in Quant :
         At(half, q)' = At(half, q) /\ Considered(half, q)' = Considered(half, q)
  BY <1>1, SameRungs
<1>6. AnswerIsARung'
  BY <1>1, <1>5 DEF AnswerIsARung
<1>7. FirstThatFits'
  <2>1. fit' = At(halved, rung)' /\ Considered(halved, rung)' /\ Runnable(fit)'
    BY <1>1, <1>5 DEF Runnable
  <2>2. ASSUME NEW h2 \in BOOLEAN, NEW q2 \in Quant,
               Before(h2, q2, halved, rung)', Considered(h2, q2)'
        PROVE  ~Runnable(At(h2, q2))'
    BY <1>1, <1>4, <1>5, <2>2 DEF Runnable, Before
  <2>3. halved' \in BOOLEAN /\ rung' \in Quant
    BY <1>1
  <2>4. QED
    BY <2>1, <2>2, <2>3, Zenon DEF FirstThatFits
<1>8. QED
  BY <1>2, <1>3, <1>6, <1>7 DEF IInv

LEMMA HalveInvariant ==
    ASSUME IInv, HalveContext
    PROVE  IInv'
<1>1. /\ pc = "walk" /\ rung \notin Quant /\ rung \in 0..(Q2K + 1)
      /\ ~halved /\ halved' = TRUE /\ rung' = F16
      /\ UNCHANGED <<hw, model, opts, pc, fit>>
  BY DEF HalveContext, IInv, TypeOK
<1>2. TypeOK'
  BY <1>1 DEF IInv, TypeOK, F16, Q2K
<1>3. PassedOver'
  <2> SUFFICES ASSUME NEW half \in BOOLEAN, NEW q \in Quant,
                      Before(half, q, TRUE, F16), Considered(half, q)
               PROVE  ~Runnable(At(half, q))
    BY <1>1, SameRungs DEF PassedOver, Before, Runnable
  <2>1. q < rung /\ ~(q < F16)
    BY <1>1 DEF Quant, F16, Q2K
  <2>2. Before(half, q, halved, rung)
    BY <1>1, <2>1, Zenon DEF Before, IInv, TypeOK
  <2>3. QED
    BY <1>1, <2>2 DEF IInv, PassedOver
<1>4. QED
  BY <1>1, <1>2, <1>3 DEF IInv, AnswerIsARung, FirstThatFits

LEMMA GiveUpInvariant ==
    ASSUME IInv, GiveUp
    PROVE  IInv'
<1>1. /\ pc = "walk" /\ rung \notin Quant /\ rung \in 0..(Q2K + 1)
      /\ halved /\ halved \in BOOLEAN
      /\ UNCHANGED <<hw, model, opts, halved, rung>>
      /\ fit' = At(FALSE, Q2K) /\ pc' = "done"
      /\ Q2K \in Quant
  BY DEF GiveUp, IInv, TypeOK, Quant, F16, Q2K
<1>2. TypeOK'
  BY <1>1, AtType DEF IInv, TypeOK
<1>3. PassedOver'
  BY <1>1 DEF PassedOver
<1>4. \A half \in BOOLEAN, q \in Quant :
         Considered(half, q) => ~Runnable(At(half, q))
  <2> SUFFICES ASSUME NEW half \in BOOLEAN, NEW q \in Quant
               PROVE  Before(half, q, halved, rung)
    BY <1>1 DEF IInv, PassedOver
  <2>1. q < rung
    BY <1>1 DEF Quant, F16, Q2K
  <2>2. QED
    BY <1>1, <2>1, Zenon DEF Before
<1>5. \A half \in BOOLEAN, q \in Quant :
         At(half, q)' = At(half, q) /\ Considered(half, q)' = Considered(half, q)
  BY <1>1, SameRungs
<1>6. AnswerIsARung'
  BY <1>1, <1>5 DEF AnswerIsARung
<1>7. FirstThatFits'
  BY <1>1, <1>4, <1>5 DEF FirstThatFits, Runnable
<1>8. QED
  BY <1>2, <1>3, <1>6, <1>7 DEF IInv

LEMMA StutterInvariant ==
    ASSUME IInv, UNCHANGED vars
    PROVE  IInv'
<1>1. UNCHANGED <<hw, model, opts, pc, halved, rung, fit>>
  BY DEF vars
<1>2. TypeOK'
  BY <1>1 DEF IInv, TypeOK
<1>3. /\ \A half \in BOOLEAN, q \in Quant :
            At(half, q)' = At(half, q) /\ Considered(half, q)' = Considered(half, q)
      /\ At(FALSE, Q2K)' = At(FALSE, Q2K)
  <2>1. Q2K \in Quant
    BY DEF Quant, F16, Q2K
  <2>2. QED
    BY <1>1, <2>1, SameRungs
<1>4. PassedOver' /\ AnswerIsARung'
  BY <1>1, <1>3 DEF IInv, PassedOver, AnswerIsARung, Before, Runnable
<1>5. FirstThatFits'
  <2> SUFFICES ASSUME pc = "done" PROVE FirstThatFits'
    BY <1>1 DEF FirstThatFits
  <2>1. CASE /\ fit = At(FALSE, Q2K)
             /\ \A half \in BOOLEAN, q \in Quant :
                   Considered(half, q) => ~Runnable(At(half, q))
    BY <2>1, <1>1, <1>3 DEF FirstThatFits, Runnable
  <2>2. ASSUME NEW half \in BOOLEAN, NEW q \in Quant,
               Considered(half, q), fit = At(half, q), Runnable(fit),
               \A h2 \in BOOLEAN, q2 \in Quant :
                   Before(h2, q2, half, q) /\ Considered(h2, q2) =>
                       ~Runnable(At(h2, q2))
        PROVE  FirstThatFits'
    <3>1. Considered(half, q)' /\ fit' = At(half, q)' /\ Runnable(fit)'
      BY <2>2, <1>1, <1>3 DEF Runnable
    <3>2. ASSUME NEW h2 \in BOOLEAN, NEW q2 \in Quant,
                 Before(h2, q2, half, q), Considered(h2, q2)'
          PROVE  ~Runnable(At(h2, q2))'
      BY <2>2, <3>2, <1>3 DEF Runnable
    <3>3. QED
      BY <3>1, <3>2, Zenon DEF FirstThatFits, Before
  <2>3. QED
    BY <2>1, <2>2, Zenon DEF IInv, FirstThatFits
<1>6. QED
  BY <1>2, <1>4, <1>5 DEF IInv

\* The inductive invariant holds of every walk.
THEOREM Invariant == Spec => []IInv
<1>1. Init => IInv
  BY InitInvariant
<1>2. IInv /\ [Next]_vars => IInv'
  BY AdvanceInvariant, AcceptInvariant, HalveInvariant, GiveUpInvariant,
     StutterInvariant DEF Next
<1>3. QED
  BY <1>1, <1>2, PTL DEF Spec

\* evaluate always has a well-formed answer: no subtraction of the memory
\* model goes below zero, whatever the machine and the model.
THEOREM TypeCorrect == Spec => []TypeOK
<1>1. IInv => TypeOK
  BY DEF IInv
<1>2. QED
  BY <1>1, Invariant, PTL

\* The answer is the first rung that fits.
THEOREM WalkFindsTheFirst == Spec => []FirstThatFits
<1>1. IInv => FirstThatFits
  BY DEF IInv
<1>2. QED
  BY <1>1, Invariant, PTL

\* What is known of the answer: it is a plan of its machine, with the verdict
\* its pool earns.
LEMMA AnswerFacts ==
    ASSUME IInv, pc = "done"
    PROVE  \E q \in Quant, ctx \in Nat : fit = EvaluateAt(model, hw, opts, q, ctx)
BY ContextType DEF IInv, AnswerIsARung, At

\* No runnable answer needs memory the machine does not have.
THEOREM MemoryAlwaysExists == Spec => []MemoryExists
<1>1. ASSUME IInv PROVE MemoryExists
  <2> SUFFICES ASSUME pc = "done", Runnable(fit)
               PROVE  LET needed == Resident(fit.plan) + fit.plan.offloaded
                      IN  /\ hw.cpu => needed <= UsableRam(hw)
                          /\ hw.unified /\ ~hw.cpu =>
                                needed <= Most(hw.vram, UsableRam(hw))
                          /\ ~hw.cpu /\ ~hw.unified =>
                                needed <= hw.vram + UsableRam(hw)
    BY InputTypes DEF MemoryExists, IInv, TypeOK
  <2>1. PICK q \in Quant, ctx \in Nat : fit = EvaluateAt(model, hw, opts, q, ctx)
    BY <1>1, AnswerFacts
  <2> DEFINE p == Plan(model, hw, opts, q, ctx)
  <2>2. /\ fit.plan = p
        /\ fit.verdict = Capped(PureVerdict(Resident(p), p.pool), p.mode)
    BY <2>1 DEF EvaluateAt
  <2>3. /\ p \in PlanType
        /\ \/ p.mode = "Cpu" /\ (hw.cpu \/ hw.vram = 0)
              /\ p.pool = UsableRam(hw) /\ p.offloaded = 0
           \/ p.mode = "Gpu" /\ ~hw.cpu /\ p.pool = hw.vram /\ p.offloaded = 0
           \/ p.mode = "UnifiedSpill" /\ ~hw.cpu /\ hw.unified
              /\ p.pool = UsableRam(hw) /\ p.offloaded = 0
           \/ p.mode = "MoeOffload" /\ ~hw.cpu /\ ~hw.unified
              /\ p.pool = hw.vram /\ p.offloaded <= UsableRam(hw)
           \/ p.mode = "CpuGpu" /\ ~hw.cpu /\ ~hw.unified
              /\ p.pool <= hw.vram + UsableRam(hw) /\ p.offloaded = 0
    BY <1>1, PlanCases DEF IInv, TypeOK
  <2> HIDE DEF p
  <2>4. Resident(p) \in Nat /\ p.pool \in Nat /\ p.offloaded \in Nat
        /\ p.mode \in RunMode
    BY <2>3, ResidentType DEF PlanType
  <2>5. Resident(p) <= p.pool
    BY <2>2, <2>4, VerdictFacts DEF Runnable
  <2>6. hw.vram \in Nat /\ UsableRam(hw) \in Nat
    BY <1>1, InputTypes, UsableRamType DEF IInv, TypeOK
  <2>7. QED
    BY <2>2, <2>3, <2>4, <2>5, <2>6 DEF Most
<1>2. QED
  BY <1>1, Invariant, PTL

\* A Perfect answer is wholly on the accelerator, with room to spare.
THEOREM PerfectAlwaysOnTheAccelerator == Spec => []PerfectIsOnTheAccelerator
<1>1. ASSUME IInv PROVE PerfectIsOnTheAccelerator
  <2> SUFFICES ASSUME pc = "done", fit.verdict = Perfect
               PROVE  /\ ~hw.cpu
                      /\ fit.plan.weights = WeightsMb(model.params, fit.quant)
                      /\ 100 * Resident(fit.plan) <= 60 * hw.vram
    BY DEF PerfectIsOnTheAccelerator
  <2>1. PICK q \in Quant, ctx \in Nat : fit = EvaluateAt(model, hw, opts, q, ctx)
    BY <1>1, AnswerFacts
  <2> DEFINE p == Plan(model, hw, opts, q, ctx)
  <2>2. /\ fit.plan = p /\ fit.quant = q
        /\ fit.verdict = Capped(PureVerdict(Resident(p), p.pool), p.mode)
    BY <2>1 DEF EvaluateAt
  <2>3. /\ p \in PlanType
        /\ p.mode = "Gpu" =>
              ~hw.cpu /\ p.pool = hw.vram /\ p.weights = WeightsMb(model.params, q)
    BY <1>1, PlanCases DEF IInv, TypeOK
  <2> HIDE DEF p
  <2>4. Resident(p) \in Nat /\ p.pool \in Nat /\ p.mode \in RunMode
    BY <2>3, ResidentType DEF PlanType
  <2>5. p.mode = "Gpu" /\ 100 * Resident(p) <= 60 * p.pool
    BY <2>2, <2>4, VerdictFacts
  <2>6. QED
    BY <2>2, <2>3, <2>5
<1>2. QED
  BY <1>1, Invariant, PTL

\* A runnable answer whose pool holds all of its weights can hold the context
\* it was judged at, up to the window its record declares: the 2% that a
\* runnable verdict leaves free outweighs the rounding of both formulas.
THEOREM UsableAlwaysCoversEffective == Spec => []UsableCoversEffectiveInPool
<1>1. ASSUME IInv PROVE UsableCoversEffectiveInPool
  <2> SUFFICES ASSUME pc = "done", Runnable(fit), fit.plan.mode # "MoeOffload"
               PROVE  fit.usable >= Least(fit.context, Most(model.context, MinContext))
    BY DEF UsableCoversEffectiveInPool
  <2>1. PICK q \in Quant, ctx \in Nat : fit = EvaluateAt(model, hw, opts, q, ctx)
    BY <1>1, AnswerFacts
  <2> DEFINE p    == Plan(model, hw, opts, q, ctx)
             full == WeightsMb(model.params, q)
             oh   == OverheadMb(full, ctx)
             k    == KvKib(model, opts)
             kv   == (k * ctx) \div 1024
             cap  == Most(model.context, MinContext)
  <2>2. /\ fit.plan = p /\ fit.context = ctx
        /\ fit.usable = UsableContext(model, opts, q, ctx, p)
        /\ fit.verdict = Capped(PureVerdict(Resident(p), p.pool), p.mode)
    BY <2>1 DEF EvaluateAt
  <2>3. /\ p \in PlanType
        /\ p.mode # "MoeOffload" => p.weights = full
        /\ p.kv = kv /\ p.overhead = oh
    BY <1>1, PlanCases DEF IInv, TypeOK
  <2>4. full \in Nat /\ k \in Nat \ {0} /\ model.context \in Nat
    BY <1>1, WeightsType, KvType, InputTypes DEF IInv, TypeOK
  <2>5. oh \in Nat /\ oh >= 128
    BY <2>4 DEF OverheadMb
  <2>6. kv \in Nat
    <3>1. k * ctx \in Nat
      BY <2>4
    <3>2. QED
      BY <3>1
  <2> HIDE DEF p, full, oh, k, kv
  <2>7. Resident(p) \in Nat /\ p.pool \in Nat /\ p.mode \in RunMode
    BY <2>3, ResidentType DEF PlanType
  <2>8. Resident(p) = full + kv + oh
    BY <2>2, <2>3, <2>4, <2>5, <2>6 DEF Resident
  <2>9. 100 * Resident(p) <= 98 * p.pool
    BY <2>2, <2>7, VerdictFacts DEF Runnable
  <2> DEFINE spare == Monus(p.pool, full + oh)
  <2>10. spare \in Nat /\ kv + 1 <= spare
    BY <2>4, <2>5, <2>6, <2>7, <2>8, <2>9 DEF Monus
  <2> HIDE DEF spare
  <2>11. ctx <= (spare * 1024) \div k
    BY <2>4, <2>10, CacheFits DEF kv
  <2>12. fit.usable = Least((spare * 1024) \div k, cap)
    BY <2>2 DEF UsableContext, spare, full, oh, k
  <2>13. (spare * 1024) \div k \in Nat
    <3>1. \A a \in Nat, b \in Nat \ {0} : a \div b \in Nat
      OBVIOUS
    <3>2. spare * 1024 \in Nat
      BY <2>10
    <3>3. QED
      BY <2>4, <3>1, <3>2
  <2>14. QED
    BY <2>2, <2>4, <2>11, <2>12, <2>13 DEF Least, Most, MinContext
<1>2. QED
  BY <1>1, Invariant, PTL
=============================================================================
