---------------------------- MODULE Score_proofs ----------------------------
(***************************************************************************)
(* Proofs about Speed and Score for every machine, model, memory system,   *)
(* measurement and profile: what the fit promises survives the estimate    *)
(* and the scores, an estimate earns its provenance, a split model is not  *)
(* read faster than its pools, and the composite is a fair average of the  *)
(* dimensions.                                                             *)
(***************************************************************************)
EXTENDS Score, Fit_proofs

(***************************************************************************)
(* What the walk leaves to the estimate.                                   *)
(***************************************************************************)
LEMMA FitStepInvariant == IInv /\ [Next]_vars => IInv'
BY AdvanceInvariant, AcceptInvariant, HalveInvariant, GiveUpInvariant,
   StutterInvariant DEF Next

\* The walk has no step left once it has answered.
LEMMA WalkEnds == Next => pc = "walk"
BY DEF Next, Skip, StepDown, Accept, HalveContext, GiveUp

\* Estimating is a stutter of the walk: evaluate_model implements evaluate.
LEMMA SpeedStepIsAFitStep == [SpeedNext]_speedVars => [Next]_vars
<1> SUFFICES ASSUME [SpeedNext]_speedVars PROVE [Next]_vars
  OBVIOUS
<1>1. CASE FitStep
  BY <1>1 DEF FitStep
<1>2. CASE \/ Roofline \/ BackendConstant \/ Unmeasured \/ Uncalibrated
  BY <1>2 DEF Roofline, BackendConstant, Unmeasured, Uncalibrated
<1>3. ASSUME NEW m \in Measurements, SameQuant(m) \/ OtherQuant(m) \/ UnknownQuant(m)
      PROVE  UNCHANGED vars
  BY <1>3 DEF SameQuant, OtherQuant, UnknownQuant
<1>4. ASSUME NEW f \in Factors, Calibrate(f) PROVE UNCHANGED vars
  BY <1>4 DEF Calibrate
<1>5. CASE UNCHANGED speedVars
  BY <1>5 DEF speedVars
<1>6. QED
  BY <1>1, <1>2, <1>3, <1>4, <1>5 DEF SpeedNext

LEMMA EvaluateStepIsASpeedStep == [EvaluateNext]_evaluateVars => [SpeedNext]_speedVars
BY DEF EvaluateNext, EstimateStep, Score, evaluateVars

(***************************************************************************)
(* The bandwidths                                                          *)
(***************************************************************************)
LEMMA RateTypes ==
    ASSUME NEW r \in Rates
    PROVE  r.gpu \in Nat /\ r.ram \in Nat /\ r.tflops \in Nat /\ r.constant \in Nat
<1>1. r \in [gpu : Nat, ram : Nat, tflops : Nat, constant : Nat]
  BY CatalogAssumption
<1>2. QED
  BY <1>1

LEMMA BandwidthTypes ==
    ASSUME rates \in Rates
    PROVE  RamBandwidth \in Nat \ {0} /\ GpuBandwidth \in Nat
BY RateTypes DEF RamBandwidth, GpuBandwidth

LEMMA Division ==
    ASSUME NEW n \in Nat, NEW d \in Nat \ {0}
    PROVE  /\ n \div d \in Nat
           /\ (n \div d) * d <= n
           /\ n < (n \div d + 1) * d
           /\ \A q \in Nat : q * d <= n => q <= n \div d
           /\ \A q \in Nat : n < q * d => n \div d < q
OBVIOUS

LEMMA Products ==
    ASSUME NEW a \in Nat, NEW b \in Nat, NEW c \in Nat
    PROVE  /\ a <= b => a * c <= b * c
           /\ c > 0 /\ a * c <= b * c => a <= b
           /\ a * b = b * a /\ a * b \in Nat
           /\ (a * b) * c = (a * c) * b /\ (a * b) * c = a * (b * c)
           /\ (a + b) * c = a * c + b * c /\ (a + 1) * c = a * c + c
OBVIOUS

\* The blend of two pools by what each holds, its divisor rounded up: between
\* the pools, and neither delivers its part faster than it can.
LEMMA BlendOfTwo ==
    ASSUME NEW g \in Nat \ {0}, NEW r \in Nat \ {0}, NEW total \in Nat \ {0},
           NEW held \in 0..total
    PROVE  LET d == (held * r + (total - held) * g + total - 1) \div total
               e == (g * r) \div d
           IN  /\ d \in Nat \ {0} /\ e \in Nat
               /\ Least(g, r) <= e /\ e <= Most(g, r)
               /\ e * held <= total * g
               /\ e * (total - held) <= total * r
<1> DEFINE rest == total - held
           lo   == Least(g, r)
           hi   == Most(g, r)
           s    == held * r + rest * g
           d    == (s + total - 1) \div total
           e    == (g * r) \div d
<1>1. /\ lo \in Nat \ {0} /\ hi \in Nat \ {0} /\ lo <= g /\ lo <= r /\ g <= hi /\ r <= hi
      /\ (lo = g /\ hi = r) \/ (lo = r /\ hi = g)
  BY DEF Least, Most
<1> HIDE DEF lo, hi
<1>2. held \in Nat /\ rest \in Nat /\ total = held + rest
  OBVIOUS
<1> HIDE DEF rest
<1>3. /\ held * r \in Nat /\ rest * g \in Nat /\ s \in Nat
      /\ total * lo = held * lo + rest * lo
      /\ total * hi = held * hi + rest * hi
  BY <1>1, <1>2, Products
<1>4. total * lo <= s /\ s <= total * hi
  <2>1. lo * held <= r * held /\ lo * rest <= g * rest
    BY <1>1, <1>2, Products
  <2>2. r * held <= hi * held /\ g * rest <= hi * rest
    BY <1>1, <1>2, Products
  <2>3. /\ lo * held = held * lo /\ lo * rest = rest * lo
        /\ hi * held = held * hi /\ hi * rest = rest * hi
        /\ r * held = held * r /\ g * rest = rest * g
    BY <1>1, <1>2, Products
  <2>4. held * lo \in Nat /\ rest * lo \in Nat /\ held * hi \in Nat /\ rest * hi \in Nat
    BY <1>1, <1>2, Products
  <2>5. QED
    BY <1>3, <2>1, <2>2, <2>3, <2>4
<1>5. held * r <= s /\ rest * g <= s
  BY <1>3
<1> HIDE DEF s
<1>6. /\ d \in Nat
      /\ s + total - 1 < (d + 1) * total
      /\ \A q \in Nat : s + total - 1 < q * total => d < q
  BY <1>3, Division
<1> HIDE DEF d
<1>7. s <= d * total /\ d * total \in Nat
  BY <1>3, <1>6, Products
<1>8. d <= hi
  <2>1. (hi + 1) * total = hi * total + total /\ hi * total = total * hi
        /\ hi * total \in Nat
    BY <1>1, Products
  <2>2. s + total - 1 < (hi + 1) * total
    BY <1>3, <1>4, <2>1
  <2>3. hi + 1 \in Nat
    BY <1>1
  <2>4. d < hi + 1
    BY <1>6, <2>2, <2>3, Zenon
  <2>5. QED
    BY <1>1, <1>6, <2>4
<1>9. lo <= d /\ d \in Nat \ {0}
  <2>1. lo * total <= d * total
    <3>1. lo * total = total * lo /\ lo * total \in Nat
      BY <1>1, Products
    <3>2. QED
      BY <1>3, <1>4, <1>7, <3>1
  <2>2. lo <= d
    BY <1>1, <1>6, <2>1, Products
  <2>3. QED
    BY <1>1, <1>6, <2>2
<1>10. g * r \in Nat /\ g * r = lo * hi /\ g * r = hi * lo
  BY <1>1, Products
<1>11. /\ e \in Nat /\ e * d <= g * r
       /\ \A q \in Nat : q * d <= g * r => q <= e
       /\ \A q \in Nat : g * r < q * d => e < q
  BY <1>9, <1>10, Division
<1> HIDE DEF e
<1>12. lo <= e
  <2>1. lo * d <= lo * hi
    <3>1. d * lo <= hi * lo
      BY <1>1, <1>8, <1>9, Products
    <3>2. QED
      BY <1>1, <1>9, <3>1, Products
  <2>2. QED
    BY <1>1, <1>10, <1>11, <2>1
<1>13. e <= hi
  <2>1. lo * (hi + 1) <= d * (hi + 1)
    BY <1>1, <1>9, Products
  <2>2. lo * (hi + 1) = hi * lo + lo /\ d * (hi + 1) = (hi + 1) * d
    BY <1>1, <1>9, Products
  <2>3. d * (hi + 1) \in Nat
    BY <1>1, <1>9, Products
  <2>4. g * r < (hi + 1) * d
    BY <1>1, <1>10, <2>1, <2>2, <2>3
  <2>5. e < hi + 1
    BY <1>1, <1>11, <2>4
  <2>6. QED
    BY <1>1, <1>11, <2>5
<1>14. e * s <= (g * r) * total
  <2>1. s * e <= (d * total) * e
    BY <1>3, <1>7, <1>11, Products
  <2>2. (d * total) * e = (e * d) * total /\ s * e = e * s
    BY <1>3, <1>9, <1>11, Products
  <2>3. (e * d) * total <= (g * r) * total
    BY <1>9, <1>10, <1>11, Products
  <2>4. /\ e * s \in Nat /\ (e * d) * total \in Nat /\ (g * r) * total \in Nat
    BY <1>3, <1>9, <1>10, <1>11, Products
  <2>5. QED
    BY <2>1, <2>2, <2>3, <2>4
<1>15. ASSUME NEW part \in Nat, NEW a \in Nat \ {0}, NEW b \in Nat \ {0},
              part * b <= s, a * b = g * r
       PROVE  e * part <= total * a
  <2>1. (part * b) * e <= s * e
    BY <1>3, <1>11, <1>15, Products
  <2>2. (part * b) * e = (e * part) * b /\ s * e = e * s
    BY <1>3, <1>11, Products
  <2>3. (g * r) * total = (total * a) * b
    BY <1>15, Products
  <2>4. /\ e * s \in Nat /\ e * part \in Nat /\ total * a \in Nat
        /\ (e * part) * b \in Nat /\ (total * a) * b \in Nat
    BY <1>3, <1>11, Products
  <2>5. (e * part) * b <= (total * a) * b
    BY <1>14, <2>1, <2>2, <2>3, <2>4
  <2>6. QED
    BY <2>4, <2>5, Products
<1>16. e * held <= total * g
  BY <1>2, <1>5, <1>15
<1>17. e * rest <= total * r
  <2>1. r * g = g * r
    BY Products
  <2>2. QED
    BY <1>2, <1>5, <1>15, <2>1
<1>18. QED
  BY <1>9, <1>11, <1>12, <1>13, <1>16, <1>17 DEF lo, hi, rest, s, d, e

-----------------------------------------------------------------------------
(***************************************************************************)
(* The answer of the walk                                                  *)
(***************************************************************************)
LEMMA BitsType == \A q \in Quant : BitsPerWeight[q] \in Nat \ {0}
BY DEF BitsPerWeight, Quant, F16, Q2K

LEMMA AnswerTypes ==
    ASSUME IInv, pc = "done"
    PROVE  /\ fit \in FitType /\ fit.plan \in PlanType
           /\ fit.quant \in Quant /\ fit.usable \in Nat /\ fit.context \in Nat
           /\ fit.plan.mode \in RunMode
           /\ fit.plan.weights \in Nat /\ fit.plan.kv \in Nat /\ fit.plan.pool \in Nat
           /\ Resident(fit.plan) \in Nat /\ TwiceTraffic \in Nat
<1>1. fit \in FitType
  BY DEF IInv, TypeOK
<1>2. /\ fit.plan \in PlanType /\ fit.quant \in Quant /\ fit.usable \in Nat
      /\ fit.context \in Nat
  BY <1>1 DEF FitType
<1>3. fit.plan.weights \in Nat /\ fit.plan.kv \in Nat /\ fit.plan.mode \in RunMode
  BY <1>2 DEF PlanType
<1>4. QED
  BY <1>1, <1>2, <1>3, ResidentType DEF TwiceTraffic

\* A split model fills the accelerator and goes on in RAM.
LEMMA SplitFacts ==
    ASSUME IInv, pc = "done", fit.plan.mode = "CpuGpu"
    PROVE  hw.vram \in Nat /\ hw.vram > 0 /\ Resident(fit.plan) > hw.vram
<1>1. PICK q \in Quant, ctx \in Nat : fit = EvaluateAt(model, hw, opts, q, ctx)
  BY AnswerFacts
<1>2. fit.plan = Plan(model, hw, opts, q, ctx)
  BY <1>1 DEF EvaluateAt
<1>3. model \in Models /\ hw \in Machines /\ opts \in Options
  BY DEF IInv, TypeOK
<1>4. hw.vram \in Nat
  BY <1>3, InputTypes
<1>5. QED
  BY <1>2, <1>3, <1>4, PlanCases

LEMMA ModeBandwidth ==
    /\ fit.plan.mode \in {"Cpu", "UnifiedSpill"} => EffectiveBandwidth = RamBandwidth
    /\ fit.plan.mode = "Gpu" => EffectiveBandwidth = GpuBandwidth
    /\ fit.plan.mode = "MoeOffload" =>
          EffectiveBandwidth =
              IF GpuBandwidth = 0 THEN 0 ELSE (85 * GpuBandwidth + 15 * RamBandwidth) \div 100
    /\ fit.plan.mode = "CpuGpu" =>
          EffectiveBandwidth =
              IF GpuBandwidth = 0 \/ Resident(fit.plan) = 0
              THEN RamBandwidth ELSE Blend(GpuBandwidth, RamBandwidth)
BY Zenon DEF EffectiveBandwidth

\* The blend of a split model.
LEMMA SplitBandwidth ==
    ASSUME IInv, rates \in Rates, pc = "done", fit.plan.mode = "CpuGpu",
           GpuBandwidth > 0
    PROVE  LET total == Resident(fit.plan)
           IN  /\ EffectiveBandwidth \in Nat
               /\ EffectiveBandwidth >= Least(GpuBandwidth, RamBandwidth)
               /\ EffectiveBandwidth <= Most(GpuBandwidth, RamBandwidth)
               /\ EffectiveBandwidth * hw.vram <= total * GpuBandwidth
               /\ EffectiveBandwidth * (total - hw.vram) <= total * RamBandwidth
<1> DEFINE total == Resident(fit.plan)
           g     == GpuBandwidth
           r     == RamBandwidth
           held  == hw.vram
           d     == (held * r + (total - held) * g + total - 1) \div total
<1>1. /\ total \in Nat \ {0} /\ held \in 0..total /\ Least(held, total) = held
  BY SplitFacts, AnswerTypes DEF Least
<1>2. g \in Nat \ {0} /\ r \in Nat \ {0}
  BY BandwidthTypes
<1>3. EffectiveBandwidth = (g * r) \div d
  BY <1>1, <1>2, ModeBandwidth DEF Blend
<1> HIDE DEF total, g, r, held
<1>4. /\ EffectiveBandwidth \in Nat
      /\ Least(g, r) <= EffectiveBandwidth /\ EffectiveBandwidth <= Most(g, r)
      /\ EffectiveBandwidth * held <= total * g
      /\ EffectiveBandwidth * (total - held) <= total * r
  BY <1>1, <1>2, <1>3, BlendOfTwo
<1>5. Least(g, r) \in Nat
  BY <1>2 DEF Least
<1>6. QED
  BY <1>4, <1>5 DEF total, g, r, held

LEMMA EffectiveType ==
    ASSUME IInv, rates \in Rates, pc = "done"
    PROVE  EffectiveBandwidth \in Nat
<1>1. GpuBandwidth \in Nat /\ RamBandwidth \in Nat \ {0}
  BY BandwidthTypes
<1>2. CASE fit.plan.mode = "CpuGpu"
  <2>1. CASE GpuBandwidth = 0 \/ Resident(fit.plan) = 0
    BY <1>1, <1>2, <2>1, ModeBandwidth
  <2>2. CASE ~(GpuBandwidth = 0 \/ Resident(fit.plan) = 0)
    BY <1>1, <1>2, <2>2, SplitBandwidth
  <2>3. QED
    BY <2>1, <2>2
<1>3. CASE fit.plan.mode = "MoeOffload"
  BY <1>1, <1>3, ModeBandwidth
<1>4. CASE fit.plan.mode \in {"Cpu", "UnifiedSpill", "Gpu"}
  BY <1>1, <1>4, ModeBandwidth
<1>5. QED
  BY <1>2, <1>3, <1>4, AnswerTypes DEF RunMode

LEMMA PoolsBound ==
    ASSUME IInv, rates \in Rates
    PROVE  NoFasterThanItsPools
<1> SUFFICES ASSUME pc = "done", fit.plan.mode \in {"CpuGpu", "MoeOffload"},
                    GpuBandwidth > 0
             PROVE  /\ EffectiveBandwidth >= Least(GpuBandwidth, RamBandwidth)
                    /\ EffectiveBandwidth <= Most(GpuBandwidth, RamBandwidth)
                    /\ fit.plan.mode = "CpuGpu" =>
                          LET total == Resident(fit.plan)
                          IN  /\ EffectiveBandwidth * hw.vram <= total * GpuBandwidth
                              /\ EffectiveBandwidth * (total - hw.vram)
                                     <= total * RamBandwidth
  BY DEF NoFasterThanItsPools
<1>1. CASE fit.plan.mode = "CpuGpu"
  BY <1>1, SplitBandwidth
<1>2. CASE fit.plan.mode = "MoeOffload"
  <2>1. GpuBandwidth \in Nat \ {0} /\ RamBandwidth \in Nat \ {0}
    BY BandwidthTypes
  <2>2. EffectiveBandwidth = (85 * GpuBandwidth + 15 * RamBandwidth) \div 100
    BY <1>2, <2>1, ModeBandwidth
  <2>3. QED
    BY <1>2, <2>1, <2>2 DEF Least, Most
<1>3. QED
  BY <1>1, <1>2

-----------------------------------------------------------------------------
(***************************************************************************)
(* The estimate                                                            *)
(***************************************************************************)
\* What the formula alone leaves behind.
FromTheFormula ==
    /\ method \in {"Roofline", "BackendConstant"}
    /\ factor = None /\ ttft # "scaled"
    /\ method = "Roofline" =>
          /\ bandwidth > 0 /\ TwiceTraffic > 0
          /\ decode = (2 * bandwidth * Scale) \div TwiceTraffic
    /\ method = "BackendConstant" => bandwidth = 0 \/ TwiceTraffic = 0

\* Until the estimate is done, only the formula has had a say.
NotYetCorrected ==
    /\ stage \in {"formula", "measurement"} => measurement = None
    /\ stage = "formula" => factor = None /\ ttft # "scaled"
    /\ stage \in {"measurement", "calibration"} => FromTheFormula
    /\ stage = "calibration" => measurement = None \/ measurement.quant = None

SpeedTypeOK ==
    /\ rates \in Rates
    /\ stage \in {"formula", "measurement", "calibration", "estimated"}
    /\ stage # "formula" => pc = "done"
    /\ decode \in Nat
    /\ measurement \in Measurements \cup {None}
    /\ factor \in Factors \cup {None}

SpeedInv == IInv /\ SpeedTypeOK /\ NotYetCorrected /\ ProvenanceIsEarned

LEMMA SpeedInitInv == EstimateInit => SpeedInv
<1> SUFFICES ASSUME EstimateInit PROVE SpeedInv
  OBVIOUS
<1>1. IInv
  BY InitInvariant DEF EstimateInit
<1>2. SpeedTypeOK
  BY DEF EstimateInit, SpeedTypeOK
<1>3. NotYetCorrected /\ ProvenanceIsEarned
  BY DEF EstimateInit, NotYetCorrected, ProvenanceIsEarned
<1>4. QED
  BY <1>1, <1>2, <1>3 DEF SpeedInv

\* A step of the walk comes before the formula.
LEMMA WalkInv ==
    ASSUME SpeedInv, FitStep
    PROVE  SpeedInv'
<1>1. Next /\ pc = "walk" /\ UNCHANGED <<rates, estimateVars>>
  BY WalkEnds DEF FitStep
<1>2. IInv'
  BY <1>1, FitStepInvariant DEF SpeedInv
<1>3. /\ stage = "formula" /\ stage' = stage
      /\ UNCHANGED <<rates, decode, ttft, method, measurement, factor>>
  BY <1>1 DEF SpeedInv, SpeedTypeOK, estimateVars
<1>4. SpeedTypeOK'
  BY <1>3 DEF SpeedInv, SpeedTypeOK
<1>5. NotYetCorrected' /\ ProvenanceIsEarned'
  BY <1>3 DEF SpeedInv, NotYetCorrected, ProvenanceIsEarned
<1>6. QED
  BY <1>2, <1>4, <1>5 DEF SpeedInv

\* What every later step keeps.
LEMMA KeptInv ==
    ASSUME SpeedInv, UNCHANGED vars
    PROVE  /\ IInv' /\ TwiceTraffic' = TwiceTraffic
           /\ pc' = pc /\ fit' = fit
BY StutterInvariant DEF SpeedInv, vars, TwiceTraffic

LEMMA FormulaInv ==
    ASSUME SpeedInv, Roofline \/ BackendConstant
    PROVE  SpeedInv'
<1> DEFINE b == EffectiveBandwidth
           t == TwiceTraffic
<1>1. /\ pc = "done" /\ stage = "formula" /\ stage' = "measurement"
      /\ bandwidth' = b /\ ttft' = FormulaTtft
      /\ UNCHANGED <<vars, rates, measurement, factor>>
  BY DEF Roofline, BackendConstant
<1>2. IInv' /\ TwiceTraffic' = t /\ pc' = "done"
  BY <1>1, KeptInv
<1>3. b \in Nat /\ t \in Nat /\ fit.quant \in Quant /\ rates.constant \in Nat
  BY <1>1, EffectiveType, AnswerTypes, RateTypes DEF SpeedInv, SpeedTypeOK
<1>4. FormulaTtft # "scaled"
  BY DEF FormulaTtft
<1>5. measurement = None /\ factor = None
  BY <1>1 DEF SpeedInv, NotYetCorrected
<1> HIDE DEF b, t
<1>6. CASE Roofline
  <2>1. /\ b > 0 /\ t > 0 /\ method' = "Roofline"
        /\ decode' = (2 * b * Scale) \div t
    BY <1>6 DEF Roofline, RooflineTps, b, t
  <2>2. 2 * b * Scale \in Nat
    BY <1>3, ScaleAssumption
  <2>3. decode' \in Nat
    BY <1>3, <2>1, <2>2, Division
  <2>4. FromTheFormula'
    BY <1>1, <1>2, <1>4, <1>5, <2>1 DEF FromTheFormula
  <2>5. QED
    BY <1>1, <1>2, <1>5, <2>3, <2>4
       DEF SpeedInv, SpeedTypeOK, NotYetCorrected, ProvenanceIsEarned
<1>7. CASE BackendConstant
  <2>1. /\ ~(b > 0 /\ t > 0) /\ method' = "BackendConstant"
        /\ decode' = (rates.constant * 100 * SpeedMultiplier[fit.quant])
                     \div Most(ActiveParams(model), 50)
    BY <1>7 DEF BackendConstant, b, t
  <2>2. SpeedMultiplier[fit.quant] \in Nat
    BY <1>3 DEF SpeedMultiplier, Quant, F16, Q2K
  <2>3. Most(ActiveParams(model), 50) \in Nat \ {0}
    BY InputTypes DEF SpeedInv, IInv, TypeOK, ActiveParams, Most
  <2>4. rates.constant * 100 * SpeedMultiplier[fit.quant] \in Nat
    BY <1>3, <2>2
  <2>5. decode' \in Nat
    BY <2>1, <2>3, <2>4, Division
  <2>6. FromTheFormula'
    BY <1>1, <1>2, <1>3, <1>4, <1>5, <2>1 DEF FromTheFormula
  <2>7. QED
    BY <1>1, <1>2, <1>5, <2>5, <2>6
       DEF SpeedInv, SpeedTypeOK, NotYetCorrected, ProvenanceIsEarned
<1>8. QED
  BY <1>6, <1>7

\* A rate moved to fewer bits does not rise, to as many or more not fall.
LEMMA Rescaled ==
    ASSUME NEW tps \in Nat, NEW a \in Nat \ {0}, NEW b \in Nat \ {0}
    PROVE  /\ (tps * a) \div b \in Nat
           /\ IF a < b THEN (tps * a) \div b <= tps ELSE (tps * a) \div b >= tps
<1> DEFINE n == tps * a
<1>1. n \in Nat /\ tps * b \in Nat
  BY Products
<1>2. a <= b => n <= tps * b
  BY Products
<1>3. b <= a => tps * b <= n
  BY Products
<1>4. (tps + 1) * b = tps * b + b
  BY Products
<1> HIDE DEF n
<1>5. /\ n \div b \in Nat
      /\ tps * b <= n => tps <= n \div b
      /\ \A q \in Nat : n < q * b => n \div b < q
  BY <1>1, Division
<1>6. CASE a < b
  <2>1. n < (tps + 1) * b /\ tps + 1 \in Nat
    BY <1>1, <1>2, <1>4, <1>6
  <2>2. n \div b < tps + 1
    BY <1>5, <2>1, Zenon
  <2>3. n \div b <= tps
    BY <1>5, <2>2
  <2>4. QED
    BY <1>5, <1>6, <2>3 DEF n
<1>7. CASE ~(a < b)
  BY <1>3, <1>5, <1>7 DEF n
<1>8. QED
  BY <1>6, <1>7

LEMMA MeasurementTypes ==
    ASSUME NEW m \in Measurements
    PROVE  m # None /\ m.tps \in Nat /\ m.quant \in Quant \cup {None}
<1>1. m \in [tps : Nat, quant : Quant \cup {None}] /\ m # None
  BY CatalogAssumption
<1>2. QED
  BY <1>1

LEMMA MeasuredInv ==
    ASSUME SpeedInv, NEW m \in Measurements,
           SameQuant(m) \/ OtherQuant(m) \/ UnknownQuant(m)
    PROVE  SpeedInv'
<1>1. /\ stage = "measurement" /\ measurement' = m
      /\ UNCHANGED <<vars, rates, ttft, bandwidth, factor>>
  BY DEF SameQuant, OtherQuant, UnknownQuant, Found
<1>2. /\ IInv' /\ TwiceTraffic' = TwiceTraffic /\ pc' = pc /\ fit' = fit
  BY <1>1, KeptInv
<1>3. /\ pc = "done" /\ FromTheFormula
  BY <1>1 DEF SpeedInv, SpeedTypeOK, NotYetCorrected
<1>4. /\ m # None /\ m.tps \in Nat /\ m.quant \in Quant \cup {None}
      /\ fit.quant \in Quant /\ None \notin Quant
  BY <1>3, MeasurementTypes, AnswerTypes, InputsAssumption DEF SpeedInv, Quant, F16, Q2K
<1>5. CASE SameQuant(m)
  <2>1. /\ m.quant = fit.quant /\ decode' = m.tps /\ method' = "Measured"
        /\ stage' = "estimated"
    BY <1>5 DEF SameQuant
  <2>2. SpeedTypeOK' /\ NotYetCorrected'
    BY <1>1, <1>2, <1>3, <1>4, <2>1 DEF SpeedInv, SpeedTypeOK, NotYetCorrected
  <2>3. ProvenanceIsEarned'
    BY <1>1, <1>2, <1>3, <1>4, <2>1 DEF ProvenanceIsEarned, FromTheFormula, Method
  <2>4. QED
    BY <1>2, <2>2, <2>3 DEF SpeedInv
<1>6. CASE OtherQuant(m)
  <2> DEFINE a == BitsPerWeight[m.quant]
             b == BitsPerWeight[fit.quant]
  <2>1. /\ m.quant # None /\ m.quant # fit.quant /\ m.quant \in Quant
        /\ decode' = (m.tps * a) \div b
        /\ method' = "MeasuredAdjusted" /\ stage' = "estimated"
    BY <1>4, <1>6 DEF OtherQuant
  <2>2. a \in Nat \ {0} /\ b \in Nat \ {0}
    BY <1>4, <2>1, BitsType
  <2>3. /\ (m.tps * a) \div b \in Nat
        /\ IF a < b THEN (m.tps * a) \div b <= m.tps ELSE (m.tps * a) \div b >= m.tps
    BY <1>4, <2>2, Rescaled
  <2>4. SpeedTypeOK' /\ NotYetCorrected'
    BY <1>1, <1>2, <1>3, <1>4, <2>1, <2>3 DEF SpeedInv, SpeedTypeOK, NotYetCorrected
  <2>5. IF BitsPerWeight[measurement'.quant] < BitsPerWeight[fit'.quant]
        THEN decode' <= measurement'.tps
        ELSE decode' >= measurement'.tps
    BY <1>1, <1>2, <2>1, <2>3
  <2>6. ProvenanceIsEarned'
    BY <1>1, <1>2, <1>3, <1>4, <2>1, <2>5 DEF ProvenanceIsEarned, FromTheFormula, Method
  <2>7. QED
    BY <1>2, <2>4, <2>6 DEF SpeedInv
<1>7. CASE UnknownQuant(m)
  <2>1. /\ m.quant = None /\ UNCHANGED <<decode, method>>
        /\ stage' = IF method = "Roofline" THEN "calibration" ELSE "estimated"
    BY <1>7 DEF UnknownQuant
  <2>2. FromTheFormula'
    BY <1>1, <1>2, <1>3, <2>1 DEF FromTheFormula
  <2>3. SpeedTypeOK' /\ NotYetCorrected'
    BY <1>1, <1>2, <1>3, <1>4, <2>1, <2>2 DEF SpeedInv, SpeedTypeOK, NotYetCorrected
  <2>4. ProvenanceIsEarned'
    BY <1>1, <1>2, <1>4, <2>1, <2>2 DEF ProvenanceIsEarned, FromTheFormula, Method
  <2>5. QED
    BY <1>2, <2>3, <2>4 DEF SpeedInv
<1>8. QED
  BY <1>5, <1>6, <1>7

LEMMA CalibratedInv ==
    ASSUME SpeedInv, NEW f \in Factors, Calibrate(f)
    PROVE  SpeedInv'
<1>1. /\ stage = "calibration" /\ method = "Roofline"
      /\ decode' = (decode * f) \div 1000 /\ method' = "Calibrated"
      /\ factor' = f /\ stage' = "estimated"
      /\ UNCHANGED <<vars, rates, bandwidth, measurement>>
  BY DEF Calibrate
<1>2. /\ IInv' /\ TwiceTraffic' = TwiceTraffic /\ pc' = pc /\ fit' = fit
  BY <1>1, KeptInv
<1>3. /\ pc = "done" /\ FromTheFormula /\ decode \in Nat
      /\ measurement = None \/ measurement.quant = None
  BY <1>1 DEF SpeedInv, SpeedTypeOK, NotYetCorrected
<1>4. decode' \in Nat
  <2>1. f \in Nat
    BY CatalogAssumption
  <2>2. decode * f \in Nat
    BY <1>3, <2>1
  <2>3. QED
    BY <1>1, <2>2
<1>5. SpeedTypeOK' /\ NotYetCorrected'
  BY <1>1, <1>2, <1>3, <1>4 DEF SpeedInv, SpeedTypeOK, NotYetCorrected
<1>6. ProvenanceIsEarned'
  BY <1>1, <1>2, <1>3 DEF ProvenanceIsEarned, FromTheFormula, Method
<1>7. QED
  BY <1>2, <1>5, <1>6 DEF SpeedInv

LEMMA UncorrectedInv ==
    ASSUME SpeedInv, Unmeasured \/ Uncalibrated
    PROVE  SpeedInv'
<1>1. /\ UNCHANGED <<vars, rates, decode, ttft, method, bandwidth, measurement, factor>>
      /\ \/ stage = "measurement" /\ stage' = "calibration"
         \/ stage = "calibration" /\ stage' = "estimated"
  BY DEF Unmeasured, Uncalibrated
<1>2. /\ IInv' /\ TwiceTraffic' = TwiceTraffic /\ pc' = pc /\ fit' = fit
  BY <1>1, KeptInv
<1>3. FromTheFormula'
  BY <1>1, <1>2 DEF SpeedInv, NotYetCorrected, FromTheFormula
<1>4. SpeedTypeOK' /\ NotYetCorrected'
  BY <1>1, <1>2, <1>3 DEF SpeedInv, SpeedTypeOK, NotYetCorrected
<1>5. ProvenanceIsEarned'
  BY <1>1, <1>2, <1>3 DEF SpeedInv, NotYetCorrected, ProvenanceIsEarned, FromTheFormula, Method
<1>6. QED
  BY <1>2, <1>4, <1>5 DEF SpeedInv

LEMMA SpeedStutterInv ==
    ASSUME SpeedInv, UNCHANGED speedVars
    PROVE  SpeedInv'
<1>1. UNCHANGED <<vars, rates, stage, decode, ttft, method, bandwidth, measurement, factor>>
  BY DEF speedVars, estimateVars
<1>2. /\ IInv' /\ TwiceTraffic' = TwiceTraffic /\ pc' = pc /\ fit' = fit
  BY <1>1, KeptInv
<1>3. SpeedTypeOK' /\ NotYetCorrected'
  BY <1>1, <1>2 DEF SpeedInv, SpeedTypeOK, NotYetCorrected, FromTheFormula
<1>4. ProvenanceIsEarned'
  BY <1>1, <1>2 DEF SpeedInv, ProvenanceIsEarned
<1>5. QED
  BY <1>2, <1>3, <1>4 DEF SpeedInv

LEMMA SpeedStepInv == SpeedInv /\ [SpeedNext]_speedVars => SpeedInv'
BY WalkInv, FormulaInv, MeasuredInv, CalibratedInv, UncorrectedInv, SpeedStutterInv
   DEF SpeedNext

-----------------------------------------------------------------------------
(***************************************************************************)
(* The logarithm                                                           *)
(***************************************************************************)
\* A name for the powers of two keeps the provers from folding them.
Power(j) == 2^j

LEMMA Powers ==
    /\ Power(0) = 1 /\ Power(1) = 2
    /\ Power(2) = 4 /\ Power(3) = 8
    /\ Power(4) = 16 /\ Power(5) = 32
    /\ Power(6) = 64 /\ Power(7) = 128
    /\ Power(8) = 256 /\ Power(9) = 512
    /\ Power(10) = 1024 /\ Power(11) = 2048
    /\ Power(12) = 4096 /\ Power(13) = 8192
    /\ Power(14) = 16384 /\ Power(15) = 32768
    /\ Power(16) = 65536 /\ Power(17) = 131072
    /\ Power(18) = 262144 /\ Power(19) = 524288
    /\ Power(20) = 1048576 /\ Power(21) = 2097152
    /\ Power(22) = 4194304 /\ Power(23) = 8388608
    /\ Power(24) = 16777216 /\ Power(25) = 33554432
    /\ Power(26) = 67108864 /\ Power(27) = 134217728
    /\ Power(28) = 268435456 /\ Power(29) = 536870912
    /\ Power(30) = 1073741824 /\ Power(31) = 2147483648
BY SMT DEF Power

LEMMA PowerType ==
    ASSUME NEW j \in 0..31
    PROVE  Power(j) \in Nat \ {0}
BY SMT, Powers

LEMMA PowerGrows ==
    ASSUME NEW j \in 1..31
    PROVE  Power(j) = 2 * Power(j - 1)
BY SMT, Powers

\* The last power of two that a number reaches.
LEMMA LastPower ==
    ASSUME NEW n \in Nat, NEW d \in Nat \ {0}, d <= n, n < d * Power(31)
    PROVE  \E j \in 0..31 : d * Power(j) <= n /\ n < 2 * (d * Power(j))
<1> DEFINE D(j) == d * Power(j)
<1>1. D(0) <= n /\ n < D(31)
  BY SMT, Powers
<1>2. \A j \in 0..31 : D(j) \in Nat
  BY PowerType
<1>3. \A j \in 0..30 : D(j + 1) = 2 * D(j)
  <2> SUFFICES ASSUME NEW j \in 0..30 PROVE D(j + 1) = 2 * D(j)
    OBVIOUS
  <2>1. j + 1 \in 1..31 /\ (j + 1) - 1 = j
    OBVIOUS
  <2>2. Power(j + 1) = 2 * Power(j)
    BY <2>1, PowerGrows
  <2>3. Power(j) \in Nat
    BY PowerType
  <2> DEFINE x == Power(j)
             y == Power(j + 1)
  <2>4. x \in Nat /\ y = 2 * x
    BY <2>2, <2>3
  <2> HIDE DEF x, y
  <2>5. d * y = 2 * (d * x)
    BY <2>4
  <2>6. QED
    BY <2>5 DEF x, y
<1> SUFFICES \E j \in 0..31 : D(j) <= n /\ n < 2 * D(j)
  OBVIOUS
<1> HIDE DEF D
<1>4. QED
  BY <1>1, <1>2, <1>3, SMTT(30)

LEMMA OctaveFacts ==
    ASSUME NEW num \in Nat \ {0}, NEW den \in Nat \ {0},
           den <= num * Power(31), num < den * Power(31)
    PROVE  LET o == Octave(num, den)
           IN  /\ o.exponent \in -31..31 /\ o.num \in Nat /\ o.den \in Nat \ {0}
               /\ o.den <= o.num /\ o.num < 2 * o.den
               /\ \/ /\ num < den /\ o.exponent < 0
                     /\ o.num = num * Power(-o.exponent) /\ o.den = den
                  \/ /\ den <= num /\ o.exponent >= 0
                     /\ o.num = num /\ o.den = den * Power(o.exponent)
<1>1. CASE num < den
  <2> DEFINE Fits(j) == den <= num * Power(j) /\ num * Power(j - 1) < den
             k       == CHOOSE j \in 1..31 : Fits(j)
  <2>1. \E j \in 1..31 : Fits(j)
    <3>1. /\ den - 1 \in Nat /\ num <= den - 1 /\ den - 1 < num * Power(31)
      BY <1>1, Powers
    <3>2. PICK i \in 0..31 : num * Power(i) <= den - 1 /\ den - 1 < 2 * (num * Power(i))
      BY <3>1, LastPower
    <3>3. i # 31
      BY <3>1, <3>2, Powers
    <3>4. i + 1 \in 1..31 /\ (i + 1) - 1 = i
      BY <3>3
    <3>5. Power(i + 1) = 2 * Power(i) /\ Power(i) \in Nat /\ Power((i + 1) - 1) = Power(i)
      BY <3>4, PowerGrows, PowerType
    <3> DEFINE x == Power(i)
               y == Power(i + 1)
    <3>6. x \in Nat /\ y = 2 * x /\ num * x <= den - 1 /\ den - 1 < 2 * (num * x)
      BY <3>2, <3>5
    <3> HIDE DEF x, y
    <3>7. num * y = 2 * (num * x) /\ num * x \in Nat
      BY <3>6
    <3>8. den <= num * y /\ num * x < den
      BY <3>6, <3>7
    <3>9. Fits(i + 1)
      BY <3>5, <3>8 DEF x, y
    <3>10. QED
      BY <3>4, <3>9
  <2> HIDE DEF Fits
  <2>2. k \in 1..31 /\ Fits(k)
    BY <2>1
  <2>3. Octave(num, den) = [exponent |-> -k, num |-> num * Power(k), den |-> den]
    BY <1>1, Zenon DEF Octave, Fits, Power
  <2> HIDE DEF k
  <2>4. Power(k) \in Nat /\ Power(k - 1) \in Nat /\ Power(k) = 2 * Power(k - 1) /\ -(-k) = k
    BY <2>2, PowerType, PowerGrows
  <2> DEFINE x == Power(k - 1)
             y == Power(k)
  <2>5. den <= num * y /\ num * x < den /\ x \in Nat /\ y = 2 * x
    BY <2>2, <2>4 DEF Fits
  <2>6. Power(-(-k)) = y
    BY <2>4
  <2> HIDE DEF x
  <2>7. num * y = 2 * (num * x) /\ num * y \in Nat /\ num * x \in Nat
    BY <2>5
  <2> HIDE DEF y
  <2>8. num * y < 2 * den
    BY <2>5, <2>7
  <2>9. Octave(num, den) = [exponent |-> -k, num |-> num * y, den |-> den]
    BY <2>3 DEF y
  <2>10. num * Power(-(-k)) = num * y
    BY <2>6
  <2>11. QED
    BY <1>1, <2>2, <2>5, <2>7, <2>8, <2>9, <2>10
<1>2. CASE den <= num
  <2> DEFINE Fits(j) == den * Power(j) <= num /\ num \div 2 < den * Power(j)
             k       == CHOOSE j \in 0..31 : Fits(j)
  <2>1. \E j \in 0..31 : Fits(j)
    <3>1. PICK j \in 0..31 : den * Power(j) <= num /\ num < 2 * (den * Power(j))
      BY <1>2, LastPower
    <3>2. den * Power(j) \in Nat
      BY PowerType
    <3> DEFINE x == den * Power(j)
    <3>3. x \in Nat /\ x <= num /\ num < 2 * x
      BY <3>1, <3>2
    <3> HIDE DEF x
    <3>4. num \div 2 < x
      BY <3>3
    <3>5. QED
      BY <3>1, <3>4 DEF x
  <2> HIDE DEF Fits
  <2>2. k \in 0..31 /\ Fits(k)
    BY <2>1
  <2>3. Octave(num, den) = [exponent |-> k, num |-> num, den |-> den * Power(k)]
    <3>1. ~(num < den)
      BY <1>2
    <3>2. QED
      BY <3>1, Zenon DEF Octave, Fits, Power
  <2> HIDE DEF k
  <2> DEFINE x == den * Power(k)
  <2>4. x \in Nat \ {0}
    BY <2>2, PowerType
  <2>5. x <= num /\ num \div 2 < x
    BY <2>2 DEF Fits
  <2>6. Octave(num, den) = [exponent |-> k, num |-> num, den |-> x]
    BY <2>3
  <2>7. x = den * Power(k)
    OBVIOUS
  <2> HIDE DEF x
  <2>8. num < 2 * x
    BY <2>4, <2>5
  <2>9. QED
    BY <1>2, <2>2, <2>4, <2>5, <2>6, <2>7, <2>8
<1>3. QED
  BY <1>1, <1>2

LEMMA ProductBound ==
    \A a, b, c, d \in Nat : a <= c /\ b <= d => a * b \in Nat /\ a * b <= c * d
<1> SUFFICES ASSUME NEW a \in Nat, NEW b \in Nat, NEW c \in Nat, NEW d \in Nat,
                    a <= c, b <= d
             PROVE  a * b \in Nat /\ a * b <= c * d
  OBVIOUS
<1>1. a * b <= c * b /\ b * c <= d * c
  BY Products
<1>2. b * c = c * b /\ d * c = c * d
  BY Products
<1>3. a * b \in Nat /\ c * b \in Nat /\ c * d \in Nat
  BY Products
<1>4. QED
  BY <1>1, <1>2, <1>3

\* A fraction of a number that is at most one is at most the number.
LEMMA ScaledDown ==
    \A t \in Nat \ {0}, m, w \in Nat : m <= t => (m * w) \div t \in 0..w
<1> SUFFICES ASSUME NEW t \in Nat \ {0}, NEW m \in Nat, NEW w \in Nat, m <= t
             PROVE  (m * w) \div t \in 0..w
  OBVIOUS
<1> DEFINE x == m * w
<1>1. x \in Nat /\ x <= t * w
  BY ProductBound
<1> HIDE DEF x
<1>2. t * w = w * t /\ (w + 1) * t = w * t + t /\ w * t \in Nat
  BY Products
<1>3. x < (w + 1) * t
  BY <1>1, <1>2
<1>4. x \div t \in Nat /\ x \div t < w + 1
  BY <1>1, <1>3, Division
<1>5. x \div t \in 0..w
  BY <1>4
<1>6. QED
  BY <1>5 DEF x

\* The logarithm is within an octave and a half of its exponent.
LEMMA Log2Bounds ==
    ASSUME NEW num \in Nat \ {0}, NEW den \in Nat \ {0},
           den <= num * Power(31), num < den * Power(31)
    PROVE  LET e == Octave(num, den).exponent
           IN  /\ Log2(num, den) \in Int
               /\ 10000 * e <= Log2(num, den)
               /\ Log2(num, den) <= 10000 * e + 14427
<1> DEFINE o    == Octave(num, den)
           e    == o.exponent
           n    == 1000 * (o.num - o.den)
           f    == n \div o.den
           m    == 10 * f
           a    == (m * 4276) \div 10000
           w    == 7213 - a
           ten  == 10000
           b    == (m * w) \div ten
           v    == 14427 - b
           poly == (m * v) \div ten
<1>1. /\ e \in -31..31 /\ o.num \in Nat /\ o.den \in Nat \ {0}
      /\ o.den <= o.num /\ o.num < 2 * o.den
  BY OctaveFacts, Zenon
<1>2. Log2(num, den) = 10000 * e + poly
  BY DEF Log2
<1>3. e = Octave(num, den).exponent
  OBVIOUS
<1> HIDE DEF e, o
<1>4. n \in Nat /\ n < 1000 * o.den
  BY <1>1
<1> HIDE DEF n
<1>5. f \in 0..999
  <2>1. f \in Nat /\ \A q \in Nat : n < q * o.den => f < q
    BY <1>1, <1>4, Division
  <2> HIDE DEF f
  <2>2. 1000 \in Nat
    OBVIOUS
  <2>3. f < 1000
    BY <1>4, <2>1, <2>2
  <2>4. QED
    BY <2>1, <2>3
<1> HIDE DEF f
<1>6. m \in 0..9999
  BY <1>5
<1> HIDE DEF m
<1>7. m \in Nat /\ ten \in Nat \ {0} /\ m <= ten
  BY <1>6
<1> HIDE DEF ten
<1>8. w \in Nat /\ w <= 7213
  <2>1. a \in 0..4276
    BY <1>6
  <2> HIDE DEF a
  <2>2. QED
    BY <2>1
<1> HIDE DEF w
<1>9. b \in 0..w
  <2>1. w \in Nat
    BY <1>8
  <2>2. QED
    BY <1>7, <2>1, ScaledDown, Zenon
<1> HIDE DEF b
<1>10. v \in Nat /\ v <= 14427
  BY <1>8, <1>9
<1> HIDE DEF v
<1>11. poly \in 0..v
  <2>1. v \in Nat
    BY <1>10
  <2>2. QED
    BY <1>7, <2>1, ScaledDown, Zenon
<1> HIDE DEF poly
<1> DEFINE l == Log2(num, den)
<1>12. e \in Int /\ l = 10000 * e + poly /\ poly \in Nat /\ poly <= 14427
  BY <1>1, <1>2, <1>10, <1>11
<1> HIDE DEF l
<1>13. l \in Int /\ 10000 * e <= l /\ l <= 10000 * e + 14427
  BY <1>12
<1>14. QED
  BY <1>3, <1>13 DEF l

LEMMA PowersAreOrdered ==
    ASSUME NEW i \in 0..31, NEW j \in 0..31, Power(i) < Power(j)
    PROVE  i < j
<1> DEFINE P(k) == Power(k)
<1>1. \A k \in 0..31 : P(k) \in Nat \ {0}
  BY PowerType
<1>2. \A k \in 1..31 : P(k) = 2 * P(k - 1)
  BY PowerGrows
<1>3. P(i) < P(j)
  OBVIOUS
<1> HIDE DEF P
<1>4. \A k \in 0..30 : P(k) < P(k + 1)
  BY <1>1, <1>2
<1> SUFFICES ASSUME j <= i PROVE FALSE
  OBVIOUS
<1>5. QED
  BY <1>1, <1>3, <1>4, SMTT(60)

\* Eleven times the parameters are at least three octaves up.
LEMMA ElevenFold ==
    ASSUME NEW p \in Nat, 50 <= p, p < 65536 * 65536
    PROVE  LET e  == Octave(p, 1000).exponent
               e2 == Octave(11 * p, 1000).exponent
           IN  /\ 1000 <= p * Power(31) /\ p < 1000 * Power(31)
               /\ 1000 <= (11 * p) * Power(31) /\ 11 * p < 1000 * Power(31)
               /\ e \in Int /\ e2 \in Int
               /\ -1 <= e2 /\ e + 3 <= e2
<1> DEFINE e  == Octave(p, 1000).exponent
           e2 == Octave(11 * p, 1000).exponent
<1>1. /\ 1000 <= p * Power(31) /\ p < 1000 * Power(31)
      /\ 1000 <= (11 * p) * Power(31) /\ 11 * p < 1000 * Power(31)
  BY Powers
<1>2. /\ e \in -31..31
      /\ \/ /\ p < 1000 /\ e < 0
            /\ 1000 <= p * Power(-e) /\ p * Power(-e) < 2000
         \/ /\ 1000 <= p /\ e >= 0
            /\ 1000 * Power(e) <= p /\ p < 2 * (1000 * Power(e))
  BY <1>1, OctaveFacts
<1>3. /\ e2 \in -31..31
      /\ \/ /\ 11 * p < 1000 /\ e2 < 0
            /\ 1000 <= (11 * p) * Power(-e2) /\ (11 * p) * Power(-e2) < 2000
         \/ /\ 1000 <= 11 * p /\ e2 >= 0
            /\ 1000 * Power(e2) <= 11 * p /\ 11 * p < 2 * (1000 * Power(e2))
  BY <1>1, OctaveFacts
<1> HIDE DEF e, e2
<1>4. -1 <= e2
  <2> SUFFICES ASSUME e2 < -1 PROVE FALSE
    BY <1>3
  <2> DEFINE k == -e2
  <2>1. k \in 2..31 /\ (11 * p) * Power(k) < 2000
    BY <1>3
  <2> HIDE DEF k
  <2>2. Power(k) \in Nat /\ Power(k) = 2 * Power(k - 1) /\ Power(k - 1) = 2 * Power((k - 1) - 1)
        /\ Power((k - 1) - 1) \in Nat \ {0}
    BY <2>1, PowerType, PowerGrows
  <2> DEFINE x == Power(k)
  <2>3. x \in Nat /\ x >= 4
    BY <2>2
  <2> HIDE DEF x
  <2>4. (11 * p) * x >= 550 * 4
    BY <2>3
  <2>5. (11 * p) * x < 2000
    BY <2>1 DEF x
  <2>6. QED
    BY <1>1, <2>3, <2>4, <2>5
<1>5. CASE e >= 0
  <2>1. 1000 * Power(e) <= p /\ p >= 1000 /\ e \in 0..31
    BY <1>2, <1>5
  <2>2. e2 \in 0..31 /\ 11 * p < 2 * (1000 * Power(e2))
    BY <1>3, <2>1
  <2>3. e <= 22
    <3> SUFFICES ASSUME e > 22 PROVE FALSE
      BY <2>1
    <3>1. e = 23 \/ e = 24 \/ e = 25 \/ e = 26 \/ e = 27 \/ e = 28 \/ e = 29 \/ e = 30
          \/ e = 31
      BY <2>1
    <3>2. Power(e) >= 8388608
      BY <3>1, Powers
    <3> DEFINE x == Power(e)
    <3>3. x \in Nat /\ x >= 8388608 /\ 1000 * x <= p
      BY <2>1, <3>2, PowerType
    <3> HIDE DEF x
    <3>4. QED
      BY <3>3
  <2>4. Power(e + 3) = 8 * Power(e) /\ Power(e) \in Nat
    <3>1. e + 1 \in 1..31 /\ e + 2 \in 1..31 /\ e + 3 \in 1..31
          /\ (e + 1) - 1 = e /\ (e + 2) - 1 = e + 1 /\ (e + 3) - 1 = e + 2
      BY <2>1, <2>3
    <3> DEFINE P(k) == Power(k)
    <3>2. P(e + 1) = 2 * P(e) /\ P(e + 2) = 2 * P(e + 1) /\ P(e + 3) = 2 * P(e + 2)
      BY <3>1, PowerGrows
    <3>3. P(e) \in Nat
      BY <2>1, PowerType
    <3> HIDE DEF P
    <3>4. P(e + 3) = 8 * P(e)
      BY <3>2, <3>3
    <3>5. QED
      BY <3>3, <3>4 DEF P
  <2>5. e + 3 < e2 + 1
    <3>1. e2 # 31
      <4>1. e2 = 31 => Power(e2) = 2147483648
        BY Powers
      <4> DEFINE x == Power(e2)
      <4>2. 1000 * x <= 11 * p
        BY <1>3, <2>2
      <4>3. e2 = 31 => x = 2147483648
        BY <4>1
      <4> HIDE DEF x
      <4>4. QED
        BY <4>2, <4>3
    <3>2. e2 + 1 \in 1..31 /\ (e2 + 1) - 1 = e2
      BY <2>2, <3>1
    <3> DEFINE P(k) == Power(k)
    <3>3. P(e2 + 1) = 2 * P(e2) /\ P(e2) \in Nat
      BY <2>2, <3>2, PowerGrows, PowerType
    <3>4. P(e + 3) = 8 * P(e) /\ P(e) \in Nat
      BY <2>4
    <3>5. 1000 * P(e) <= p /\ 11 * p < 2 * (1000 * P(e2))
      BY <2>1, <2>2
    <3> HIDE DEF P
    <3>6. P(e + 3) < P(e2 + 1)
      BY <3>3, <3>4, <3>5
    <3>7. Power(e + 3) < Power(e2 + 1)
      BY <3>6 DEF P
    <3>8. e + 3 \in 0..31 /\ e2 + 1 \in 0..31
      BY <2>1, <2>3, <3>2
    <3>9. QED
      BY <3>7, <3>8, PowersAreOrdered
  <2>6. QED
    BY <1>1, <1>3, <1>4, <2>1, <2>2, <2>5 DEF e, e2
<1>6. CASE e < 0
  <2> DEFINE k == -e
             x == Power(k)
  <2>1. k \in 1..31 /\ 1000 <= p * x /\ e = -k
    BY <1>2, <1>6
  <2> HIDE DEF k
  <2>2. /\ k = 1 => x = 2 
        /\ k = 2 => x = 4
        /\ k = 3 => x = 8
    BY Powers
  <2> HIDE DEF x
  <2>3. /\ k = 1 => p >= 500
        /\ k = 2 => p >= 250
        /\ k = 3 => p >= 125
    BY <2>1, <2>2
  <2> DEFINE y == Power(e2)
  <2>4. p >= 125 => e2 \in 0..31 /\ 11 * p < 2 * (1000 * y)
    BY <1>3
  <2>5. (e2 = 0 => y = 1) /\ (e2 = 1 => y = 2)
    BY Powers
  <2> HIDE DEF y
  <2>6. e + 3 <= e2
    <3>1. CASE k = 1
      <4>1. p >= 500 /\ e2 \in 0..31 /\ 11 * p < 2 * (1000 * y)
        BY <2>3, <2>4, <3>1
      <4>2. e2 # 0 /\ e2 # 1
        BY <2>5, <4>1
      <4>3. QED
        BY <2>1, <3>1, <4>1, <4>2
    <3>2. CASE k = 2
      <4>1. p >= 250 /\ e2 \in 0..31 /\ 11 * p < 2 * (1000 * y)
        BY <2>3, <2>4, <3>2
      <4>2. e2 # 0
        BY <2>5, <4>1
      <4>3. QED
        BY <2>1, <3>2, <4>1, <4>2
    <3>3. CASE k = 3
      BY <2>1, <2>3, <2>4, <3>3
    <3>4. CASE k >= 4
      BY <1>3, <1>4, <2>1, <3>4
    <3>5. QED
      BY <2>1, <3>1, <3>2, <3>3, <3>4
  <2>7. QED
    BY <1>1, <1>2, <1>3, <1>4, <2>6 DEF e, e2
<1>7. QED
  BY <1>2, <1>5, <1>6

-----------------------------------------------------------------------------
(***************************************************************************)
(* The dimensions                                                          *)
(***************************************************************************)
LEMMA ClampedType ==
    ASSUME NEW points
    PROVE  Clamped(points) \in 0..100
BY SMT DEF Clamped

LEMMA ClampedMonotone ==
    ASSUME NEW a \in Int, NEW b \in Int, a <= b
    PROVE  Clamped(a) <= Clamped(b)
BY SMT DEF Clamped

LEMMA FactorFacts ==
    ASSUME NEW q \in Quant
    PROVE  QualityFactor[q] \in 810..1000 /\ QualityFactor[Q2K] = 810
BY DEF QualityFactor, Quant, F16, Q2K

LEMMA ProfileTypes ==
    ASSUME NEW profile \in Profiles
    PROVE  profile.prior \in 0..255 /\ profile.useCase \in UseCase
<1>1. profile \in [prior : 0..255, useCase : UseCase]
  BY ProfilesAssumption
<1>2. QED
  BY <1>1

\* The points of quality before the penalty of the quantization.
RawQuality(params, profile, requested) ==
    LET base  == 35000 + (93 * Log2(Most(params, 50), 1000)) \div 100
        prior == (30000 * profile.prior) \div 255 - 15000
    IN  base + prior + AlignmentBonus(profile.useCase, requested)

LEMMA QualityOfRaw ==
    ASSUME NEW params, NEW profile, NEW q, NEW requested
    PROVE  Quality(params, profile, q, requested)
             = Clamped((RawQuality(params, profile, requested) * QualityFactor[q]) \div 1000)
BY SMT DEF Quality, RawQuality

LEMMA ParamsWidth ==
    ASSUME NEW m \in Models
    PROVE  LET p == Most(m.params, 50)
           IN  p \in Nat /\ 50 <= p /\ p < 65536 * 65536
<1>1. m.params \in Nat
  <2>1. m \in ModelType
    BY InputsAssumption
  <2>2. QED
    BY <2>1 DEF ModelType
<1>2. m.params \div 65536 < 65536
  BY WidthAssumption
<1>3. m.params < 65536 * 65536
  BY <1>1, <1>2
<1>4. QED
  BY <1>1, <1>3 DEF Most

LEMMA BonusType ==
    ASSUME NEW case, NEW requested
    PROVE  AlignmentBonus(case, requested) \in {8000, -25000, -10000, 0}
BY DEF AlignmentBonus

LEMMA RawType ==
    ASSUME NEW m \in Models, NEW profile \in Profiles, NEW requested
    PROVE  RawQuality(m.params, profile, requested) \in Int
<1> DEFINE p == Most(m.params, 50)
           l == Log2(p, 1000)
<1>1. /\ p \in Nat \ {0} /\ 1000 <= p * Power(31) /\ p < 1000 * Power(31)
  BY ParamsWidth, ElevenFold
<1> HIDE DEF p
<1>2. l \in Int
  BY <1>1, Log2Bounds
<1> HIDE DEF l
<1>3. AlignmentBonus(profile.useCase, requested) \in Int
  BY BonusType
<1>4. profile.prior \in Nat
  BY ProfileTypes
<1>5. (93 * l) \div 100 \in Int /\ (30000 * profile.prior) \div 255 \in Int
  BY <1>2, <1>4
<1>6. QED
  BY <1>3, <1>5 DEF RawQuality, l, p

\* Compressing costs quality: no quantization scores a model below the last.
LEMMA LastQuantIsWorst ==
    ASSUME NEW m \in Models, NEW profile \in Profiles, NEW requested, NEW q \in Quant
    PROVE  Quality(m.params, profile, Q2K, requested)
             <= Quality(m.params, profile, q, requested)
<1> DEFINE raw == RawQuality(m.params, profile, requested)
           x   == (raw * 810) \div 1000
           y   == (raw * QualityFactor[q]) \div 1000
<1>1. raw \in Int
  BY RawType
<1>2. QualityFactor[q] \in 810..1000
  BY FactorFacts
<1>3. /\ Quality(m.params, profile, Q2K, requested) = Clamped(x)
      /\ Quality(m.params, profile, q, requested) = Clamped(y)
  BY QualityOfRaw, FactorFacts
<1> HIDE DEF raw
<1>4. x \in Int /\ y \in Int
  <2>1. raw * QualityFactor[q] \in Int
    BY <1>1, <1>2
  <2>2. QED
    BY <1>1, <2>1
<1>5. CASE raw >= 0
  <2>1. raw * 810 <= raw * QualityFactor[q] /\ raw * QualityFactor[q] \in Nat
    BY <1>1, <1>2, <1>5
  <2>2. x <= y
    BY <1>1, <2>1
  <2>3. QED
    BY <1>3, <1>4, <2>2, ClampedMonotone
<1>6. CASE raw < 0
  <2>1. x <= 0
    BY <1>1, <1>6
  <2>2. Clamped(x) = 0
    BY SMT, <1>4, <2>1 DEF Clamped
  <2>3. QED
    BY <1>3, <2>2, ClampedType
<1>7. QED
  BY <1>1, <1>5, <1>6

\* Three octaves outweigh the bonus of a match.
LEMMA SizeWins ==
    ASSUME NEW m \in Models, NEW profile \in Profiles, NEW q \in Quant,
           NEW case \in TextCases \ {profile.useCase}
    PROVE  LET requested == profile.useCase
               small == Quality(m.params, profile, q, requested)
               large == Quality(11 * Most(m.params, 50),
                                [profile EXCEPT !.useCase = case], q, requested)
           IN  small < 100 => small < large
<1> DEFINE p     == Most(m.params, 50)
           other == [profile EXCEPT !.useCase = case]
           l     == Log2(p, 1000)
           l2    == Log2(11 * p, 1000)
           prior == (30000 * profile.prior) \div 255 - 15000
           raw   == RawQuality(m.params, profile, profile.useCase)
           raw2  == RawQuality(11 * p, other, profile.useCase)
           x     == (raw * QualityFactor[q]) \div 1000
           y     == (raw2 * QualityFactor[q]) \div 1000
<1>1. p \in Nat \ {0} /\ 50 <= p /\ p < 65536 * 65536 /\ Most(11 * p, 50) = 11 * p
  BY ParamsWidth DEF Most
<1>2. profile.prior \in 0..255 /\ other.prior = profile.prior /\ other.useCase = case
  <2>1. profile \in [prior : 0..255, useCase : UseCase]
    BY ProfilesAssumption
  <2>2. QED
    BY <2>1
<1>3. raw = 35000 + (93 * l) \div 100 + prior + 8000
  <2>1. AlignmentBonus(profile.useCase, profile.useCase) = 8000
    BY DEF AlignmentBonus
  <2>2. QED
    BY <2>1, SMT DEF RawQuality
<1>4. raw2 = 35000 + (93 * l2) \div 100 + prior + 0
  <2>1. AlignmentBonus(case, profile.useCase) = 0
    BY DEF AlignmentBonus, TextCases
  <2>2. Log2(Most(11 * p, 50), 1000) = l2
    BY <1>1
  <2>3. QED
    BY <1>2, <2>1, <2>2, SMT DEF RawQuality
<1>5. l \in Int /\ l2 \in Int /\ -10000 <= l2 /\ l + 15573 <= l2
  <2> DEFINE e  == Octave(p, 1000).exponent
             e2 == Octave(11 * p, 1000).exponent
             n  == 11 * p
  <2> HIDE DEF p
  <2>1. /\ 1000 <= p * Power(31) /\ p < 1000 * Power(31)
        /\ 1000 <= n * Power(31) /\ n < 1000 * Power(31)
        /\ e \in Int /\ e2 \in Int /\ -1 <= e2 /\ e + 3 <= e2
    BY <1>1, ElevenFold
  <2>2. n \in Nat \ {0}
    BY <1>1
  <2>3. l \in Int /\ 10000 * e <= l /\ l <= 10000 * e + 14427
    BY <1>1, <2>1, Log2Bounds
  <2>4. l2 \in Int /\ 10000 * e2 <= l2
    <3> HIDE DEF n
    <3>1. Log2(n, 1000) \in Int /\ 10000 * Octave(n, 1000).exponent <= Log2(n, 1000)
      BY <2>1, <2>2, Log2Bounds
    <3>2. QED
      BY <3>1 DEF n
  <2> HIDE DEF e, e2, l, l2
  <2>5. QED
    BY <2>1, <2>3, <2>4
<1>6. /\ Quality(m.params, profile, q, profile.useCase) = Clamped(x)
      /\ Quality(11 * p, other, q, profile.useCase) = Clamped(y)
  BY QualityOfRaw
<1>7. QualityFactor[q] \in 810..1000
  BY FactorFacts
<1> HIDE DEF p, other, l, l2
<1>8. prior \in Int /\ -15000 <= prior /\ prior <= 15000
  <2> DEFINE n == profile.prior
             z == (30000 * n) \div 255
  <2>1. n \in Nat /\ n <= 255
    BY <1>2
  <2> HIDE DEF n
  <2>2. z \in Int /\ 0 <= z /\ z <= 30000
    BY SMT, <2>1
  <2>3. QED
    BY SMT, <2>2 DEF z, n
<1> HIDE DEF prior
<1>9. raw \in Int /\ raw2 \in Int /\ raw + 6482 <= raw2 /\ 10700 <= raw2
  BY <1>3, <1>4, <1>5, <1>8
<1> HIDE DEF raw, raw2
<1>10. x \in Int /\ y \in Int /\ x + 5250 <= y /\ 8667 <= y
  <2> DEFINE f == QualityFactor[q]
  <2>1. f \in 810..1000
    BY <1>7
  <2> HIDE DEF f
  <2>2. raw * f \in Int /\ raw2 * f \in Int
    BY <1>9, <2>1
  <2>3. raw * f + 6482 * 810 <= raw2 * f
    <3>1. (raw + 6482) * f <= raw2 * f
      BY <1>9, <2>1
    <3>2. (raw + 6482) * f = raw * f + 6482 * f
      BY <1>9, <2>1
    <3>3. QED
      BY <2>1, <2>2, <3>1, <3>2
  <2>4. 10700 * 810 <= raw2 * f
    BY <1>9, <2>1
  <2> DEFINE u == raw * f
             v == raw2 * f
  <2>5. u \in Int /\ v \in Int /\ u + 6482 * 810 <= v /\ 10700 * 810 <= v
    BY <2>2, <2>3, <2>4
  <2> HIDE DEF u, v
  <2>6. u \div 1000 + 5250 <= v \div 1000 /\ 8667 <= v \div 1000
    BY <2>5
  <2>7. QED
    BY <2>5, <2>6 DEF u, v, f
<1> HIDE DEF x, y
<1>11. Clamped(x) < 100 => Clamped(x) < Clamped(y)
  BY SMT, <1>10 DEF Clamped
<1>12. QED
  BY <1>6, <1>11 DEF p, other

LEMMA Weights ==
    ASSUME NEW case \in UseCase
    PROVE  LET w == WeightsFor(case)
           IN  \/ w = [quality |-> 40, speed |-> 25, fit |-> 20, context |-> 15]
               \/ w = [quality |-> 35, speed |-> 20, fit |-> 15, context |-> 30]
               \/ w = [quality |-> 55, speed |-> 15, fit |-> 15, context |-> 15]
               \/ w = [quality |-> 30, speed |-> 35, fit |-> 20, context |-> 15]
               \/ w = [quality |-> 45, speed |-> 20, fit |-> 20, context |-> 15]
               \/ w = [quality |-> 35, speed |-> 40, fit |-> 20, context |-> 5]
BY SMT DEF UseCase, WeightsFor

LEMMA TargetType ==
    ASSUME NEW case \in UseCase
    PROVE  ContextTarget(case) \in {32768, 16384, 512, 8192}
BY SMT DEF UseCase, ContextTarget

LEMMA ContextScoreFacts ==
    ASSUME NEW f \in FitType, NEW case \in UseCase
    PROVE  /\ ContextScore(f, case) \in 0..100
           /\ \A n \in Nat :
                 n <= f.usable =>
                   (100 * Least(n, ContextTarget(case))) \div ContextTarget(case)
                     <= ContextScore(f, case)
<1> DEFINE t == ContextTarget(case)
<1>1. t \in {32768, 16384, 512, 8192}
  BY TargetType
<1>2. f.usable \in Nat
  BY DEF FitType
<1>3. ContextScore(f, case) = IF f.usable >= t THEN 100 ELSE (100 * f.usable) \div t
  BY DEF ContextScore
<1> HIDE DEF t
<1>4. ContextScore(f, case) \in 0..100
  BY <1>1, <1>2, <1>3
<1>5. ASSUME NEW n \in Nat, n <= f.usable
      PROVE  (100 * Least(n, t)) \div t <= ContextScore(f, case)
  BY <1>1, <1>2, <1>3, <1>5 DEF Least
<1>6. QED
  BY <1>4, <1>5 DEF t

LEMMA FitScoreType ==
    ASSUME NEW f \in FitType
    PROVE  FitScore(f) \in 0..100 /\ (~Runnable(f) => FitScore(f) = 0)
BY ClampedType DEF FitScore

LEMMA SpeedScoreType ==
    ASSUME NEW tps, NEW case
    PROVE  SpeedScore(tps, case) \in 0..100
<1>1. \E x : SpeedScore(tps, case) = Clamped(x)
  BY SMT DEF SpeedScore
<1>2. QED
  BY <1>1, ClampedType

LEMMA QualityType ==
    ASSUME NEW params, NEW profile, NEW q, NEW requested
    PROVE  Quality(params, profile, q, requested) \in 0..100
BY QualityOfRaw, ClampedType

\* What a use case weighs, as the linear form it is.
LEMMA WeightedIsLinear ==
    ASSUME NEW s, NEW case \in UseCase,
           s.quality \in Int, s.speed \in Int, s.fit \in Int, s.context \in Int
    PROVE  LET a == s.quality
               b == s.speed
               c == s.fit
               d == s.context
               t == Weighted(s, case)
           IN  \/ t = 40 * a + 25 * b + 20 * c + 15 * d
               \/ t = 35 * a + 20 * b + 15 * c + 30 * d
               \/ t = 55 * a + 15 * b + 15 * c + 15 * d
               \/ t = 30 * a + 35 * b + 20 * c + 15 * d
               \/ t = 45 * a + 20 * b + 20 * c + 15 * d
               \/ t = 35 * a + 40 * b + 20 * c + 5 * d
<1> DEFINE a == s.quality
           b == s.speed
           c == s.fit
           d == s.context
           t == Weighted(s, case)
<1> DEFINE w  == WeightsFor(case)
           wq == w.quality
           ws == w.speed
           wf == w.fit
           wc == w.context
<1>1. \/ wq = 40 /\ ws = 25 /\ wf = 20 /\ wc = 15
      \/ wq = 35 /\ ws = 20 /\ wf = 15 /\ wc = 30
      \/ wq = 55 /\ ws = 15 /\ wf = 15 /\ wc = 15
      \/ wq = 30 /\ ws = 35 /\ wf = 20 /\ wc = 15
      \/ wq = 45 /\ ws = 20 /\ wf = 20 /\ wc = 15
      \/ wq = 35 /\ ws = 40 /\ wf = 20 /\ wc = 5
  BY SMT, Weights
<1>2. /\ t = a * wq + b * ws + c * wf + d * wc
      /\ a \in Int /\ b \in Int /\ c \in Int /\ d \in Int
  BY SMT DEF Weighted
<1> SUFFICES \/ t = 40 * a + 25 * b + 20 * c + 15 * d
             \/ t = 35 * a + 20 * b + 15 * c + 30 * d
             \/ t = 55 * a + 15 * b + 15 * c + 15 * d
             \/ t = 30 * a + 35 * b + 20 * c + 15 * d
             \/ t = 45 * a + 20 * b + 20 * c + 15 * d
             \/ t = 35 * a + 40 * b + 20 * c + 5 * d
  OBVIOUS
<1> HIDE DEF w, wq, ws, wf, wc, a, b, c, d, t
<1>3. CASE wq = 40 /\ ws = 25 /\ wf = 20 /\ wc = 15
  BY SMT, <1>2, <1>3
<1>4. CASE wq = 35 /\ ws = 20 /\ wf = 15 /\ wc = 30
  BY SMT, <1>2, <1>4
<1>5. CASE wq = 55 /\ ws = 15 /\ wf = 15 /\ wc = 15
  BY SMT, <1>2, <1>5
<1>6. CASE wq = 30 /\ ws = 35 /\ wf = 20 /\ wc = 15
  BY SMT, <1>2, <1>6
<1>7. CASE wq = 45 /\ ws = 20 /\ wf = 20 /\ wc = 15
  BY SMT, <1>2, <1>7
<1>8. CASE wq = 35 /\ ws = 40 /\ wf = 20 /\ wc = 5
  BY SMT, <1>2, <1>8
<1>9. QED
  BY <1>1, <1>3, <1>4, <1>5, <1>6, <1>7, <1>8

\* The weights of a use case sum to one: what they weigh stays between the
\* least and the greatest of it.
LEMMA WeightedBetween ==
    ASSUME NEW s \in [quality : 0..100, speed : 0..100, fit : 0..100, context : 0..100],
           NEW case \in UseCase
    PROVE  LET points == {s.quality, s.speed, s.fit, s.context}
           IN  /\ Weighted(s, case) \in Nat /\ Weighted(s, case) <= 10000
               /\ \E p \in points : 100 * p <= Weighted(s, case)
               /\ \E p \in points : Weighted(s, case) <= 100 * p
<1> DEFINE a == s.quality
           b == s.speed
           c == s.fit
           d == s.context
           t == Weighted(s, case)
<1>1. a \in 0..100 /\ b \in 0..100 /\ c \in 0..100 /\ d \in 0..100
  OBVIOUS
<1>2. \/ t = 40 * a + 25 * b + 20 * c + 15 * d
      \/ t = 35 * a + 20 * b + 15 * c + 30 * d
      \/ t = 55 * a + 15 * b + 15 * c + 15 * d
      \/ t = 30 * a + 35 * b + 20 * c + 15 * d
      \/ t = 45 * a + 20 * b + 20 * c + 15 * d
      \/ t = 35 * a + 40 * b + 20 * c + 5 * d
  BY SMT, <1>1, WeightedIsLinear
<1> HIDE DEF a, b, c, d, t
<1>3. t \in Nat /\ t <= 10000
  BY SMT, <1>1, <1>2
<1>4. 100 * a <= t \/ 100 * b <= t \/ 100 * c <= t \/ 100 * d <= t
  BY SMT, <1>1, <1>2
<1>5. t <= 100 * a \/ t <= 100 * b \/ t <= 100 * c \/ t <= 100 * d
  BY SMT, <1>1, <1>2
<1>6. QED
  BY SMT, <1>3, <1>4, <1>5 DEF a, b, c, d, t

\* Without its collapse the worst that runs stays below: the tenth that is
\* left of a composite that does not run is less than the least score a fit
\* that runs is given.
LEMMA TenthIsBelow ==
    ASSUME NEW s \in [quality : 0..100, speed : 0..100, fit : {0}, context : 0..100],
           NEW better \in 0..100, s.quality <= better, NEW case \in UseCase
    PROVE  Composite(s, case, FALSE) <
             Composite([quality |-> better, speed |-> 0, fit |-> 37, context |-> 0],
                       case, TRUE)
<1> DEFINE a == s.quality
           b == s.speed
           d == s.context
           w == WeightsFor(case)
           o == [quality |-> better, speed |-> 0, fit |-> 37, context |-> 0]
           t == Weighted(s, case)
           u == Weighted(o, case)
<1>1. a \in 0..100 /\ b \in 0..100 /\ s.fit = 0 /\ d \in 0..100
  OBVIOUS
<1>2. t = a * w.quality + b * w.speed + 0 * w.fit + d * w.context
  BY SMT, <1>1 DEF Weighted
<1>3. u = better * w.quality + 0 * w.speed + 37 * w.fit + 0 * w.context
  BY SMT DEF Weighted
<1>4. \/ t = 40 * a + 25 * b + 15 * d /\ u = 40 * better + 740
      \/ t = 35 * a + 20 * b + 30 * d /\ u = 35 * better + 555
      \/ t = 55 * a + 15 * b + 15 * d /\ u = 55 * better + 555
      \/ t = 30 * a + 35 * b + 15 * d /\ u = 30 * better + 740
      \/ t = 45 * a + 20 * b + 15 * d /\ u = 45 * better + 740
      \/ t = 35 * a + 40 * b + 5 * d /\ u = 35 * better + 740
  <2> HIDE DEF a, b, d, t, u, o
  <2>1. CASE w = [quality |-> 40, speed |-> 25, fit |-> 20, context |-> 15]
    <3>1. w.quality = 40 /\ w.speed = 25 /\ w.fit = 20 /\ w.context = 15
      BY <2>1
    <3>2. QED
      BY SMT, <1>1, <1>2, <1>3, <3>1
  <2>2. CASE w = [quality |-> 35, speed |-> 20, fit |-> 15, context |-> 30]
    <3>1. w.quality = 35 /\ w.speed = 20 /\ w.fit = 15 /\ w.context = 30
      BY <2>2
    <3>2. QED
      BY SMT, <1>1, <1>2, <1>3, <3>1
  <2>3. CASE w = [quality |-> 55, speed |-> 15, fit |-> 15, context |-> 15]
    <3>1. w.quality = 55 /\ w.speed = 15 /\ w.fit = 15 /\ w.context = 15
      BY <2>3
    <3>2. QED
      BY SMT, <1>1, <1>2, <1>3, <3>1
  <2>4. CASE w = [quality |-> 30, speed |-> 35, fit |-> 20, context |-> 15]
    <3>1. w.quality = 30 /\ w.speed = 35 /\ w.fit = 20 /\ w.context = 15
      BY <2>4
    <3>2. QED
      BY SMT, <1>1, <1>2, <1>3, <3>1
  <2>5. CASE w = [quality |-> 45, speed |-> 20, fit |-> 20, context |-> 15]
    <3>1. w.quality = 45 /\ w.speed = 20 /\ w.fit = 20 /\ w.context = 15
      BY <2>5
    <3>2. QED
      BY SMT, <1>1, <1>2, <1>3, <3>1
  <2>6. CASE w = [quality |-> 35, speed |-> 40, fit |-> 20, context |-> 5]
    <3>1. w.quality = 35 /\ w.speed = 40 /\ w.fit = 20 /\ w.context = 5
      BY <2>6
    <3>2. QED
      BY SMT, <1>1, <1>2, <1>3, <3>1
  <2>7. QED
    BY <2>1, <2>2, <2>3, <2>4, <2>5, <2>6, Weights
<1>5. a <= better /\ better \in 0..100
  OBVIOUS
<1> DEFINE l == Least(t \div 10, 10000)
           r == Least(u, 10000)
<1>6. Composite(s, case, FALSE) = l
  BY SMT DEF Composite
<1>7. Composite(o, case, TRUE) = r
  BY SMT DEF Composite
<1> HIDE DEF a, b, d, t, u, o
<1>8. t \in Nat /\ u \in Nat /\ t \div 10 < u /\ t \div 10 < 10000
  BY SMT, <1>1, <1>4, <1>5
<1>9. l < r
  BY SMT, <1>8 DEF Least
<1> HIDE DEF l, r
<1>10. Composite(s, case, FALSE) < Composite(o, case, TRUE)
  BY <1>6, <1>7, <1>9, Zenon
<1>11. QED
  BY <1>10, Zenon DEF o

-----------------------------------------------------------------------------
(***************************************************************************)
(* evaluate_model                                                          *)
(***************************************************************************)
\* What score computes of the fit and the estimate it was given.
Dims ==
    [quality |-> Quality(model.params, about, fit.quant, use),
     speed |-> SpeedScore(decode, use), fit |-> FitScore(fit),
     context |-> ContextScore(fit, use)]

\* The scores are those of the finished fit and the finished estimate.
ScoresAreOfTheAnswer ==
    Scored =>
        /\ stage = "estimated"
        /\ about \in Profiles /\ use \in UseCase
        /\ scores = [dims |-> Dims, composite |-> Composite(Dims, use, Runnable(fit))]

EvaluateInv == SpeedInv /\ ScoresAreOfTheAnswer

LEMMA ScoreInv ==
    ASSUME EvaluateInv, NEW profile \in Profiles, NEW request \in Requests,
           Score(profile, request)
    PROVE  EvaluateInv'
<1> DEFINE case == IF request # None THEN request ELSE profile.useCase
           dims == [quality |-> Quality(model.params, profile, fit.quant, case),
                    speed |-> SpeedScore(decode, case),
                    fit |-> FitScore(fit),
                    context |-> ContextScore(fit, case)]
<1>1. /\ stage = "estimated"
      /\ about' = profile /\ use' = case
      /\ scores' = [dims |-> dims, composite |-> Composite(dims, case, Runnable(fit))]
      /\ UNCHANGED speedVars
  BY Zenon DEF Score
<1>2. SpeedInv'
  BY <1>1, SpeedStutterInv DEF EvaluateInv
<1>3. case \in UseCase
  BY ProfileTypes, ProfilesAssumption
<1> HIDE DEF case
<1>4. UNCHANGED <<model, fit, decode, stage>>
  BY <1>1 DEF speedVars, vars, estimateVars
<1>5. Dims' = dims
  BY <1>1, <1>4, Zenon DEF Dims
<1>6. Composite(Dims, use, Runnable(fit))' = Composite(dims, case, Runnable(fit))
  BY <1>1, <1>4, <1>5, SMT DEF Composite, Weighted, Runnable
<1> HIDE DEF dims
<1>7. ScoresAreOfTheAnswer'
  BY <1>1, <1>3, <1>4, <1>5, <1>6 DEF ScoresAreOfTheAnswer
<1>8. QED
  BY <1>2, <1>7 DEF EvaluateInv

\* Once it has estimated, evaluate_model only scores.
LEMMA EstimateEnds ==
    ASSUME SpeedInv, SpeedNext
    PROVE  stage # "estimated"
<1>1. FitStep => stage # "estimated"
  BY WalkEnds DEF FitStep, SpeedInv, SpeedTypeOK
<1>2. QED
  BY <1>1 DEF SpeedNext, Roofline, BackendConstant, Unmeasured, Uncalibrated,
              SameQuant, OtherQuant, UnknownQuant, Found, Calibrate

LEMMA EvaluateStepInv ==
    ASSUME EvaluateInv, [EvaluateNext]_evaluateVars
    PROVE  EvaluateInv'
<1>1. CASE EstimateStep
  <2>1. SpeedInv' /\ scores' = scores
    BY <1>1, SpeedStepInv DEF EstimateStep, EvaluateInv
  <2>2. ~Scored
    BY <1>1, EstimateEnds DEF EstimateStep, EvaluateInv, ScoresAreOfTheAnswer
  <2>3. QED
    BY <2>1, <2>2 DEF EvaluateInv, ScoresAreOfTheAnswer, Scored
<1>2. CASE UNCHANGED evaluateVars
  <2>1. UNCHANGED <<speedVars, about, use, scores>>
    BY <1>2 DEF evaluateVars
  <2>2. UNCHANGED <<model, fit, decode, stage>>
    BY <2>1 DEF speedVars, vars, estimateVars
  <2>3. SpeedInv'
    BY <2>1, SpeedStutterInv DEF EvaluateInv
  <2>4. Dims' = Dims
    BY <2>1, <2>2, Zenon DEF Dims
  <2>5. Composite(Dims, use, Runnable(fit))' = Composite(Dims, use, Runnable(fit))
    BY <2>1, <2>2, <2>4, SMT DEF Composite, Weighted, Runnable
  <2>6. ScoresAreOfTheAnswer'
    BY <2>1, <2>2, <2>4, <2>5 DEF EvaluateInv, ScoresAreOfTheAnswer, Scored
  <2>7. QED
    BY <2>3, <2>6 DEF EvaluateInv
<1>3. QED
  BY <1>1, <1>2, ScoreInv DEF EvaluateNext

\* The inductive invariant of evaluate_model.
THEOREM EvaluateInvariant == EvaluateSpec => []EvaluateInv
<1>1. EvaluateInit => EvaluateInv
  BY SpeedInitInv DEF EvaluateInit, EvaluateInv, ScoresAreOfTheAnswer, Scored
<1>2. EvaluateInv /\ [EvaluateNext]_evaluateVars => EvaluateInv'
  BY EvaluateStepInv
<1>3. QED
  BY <1>1, <1>2, PTL DEF EvaluateSpec

\* evaluate_model implements the estimate, and the estimate implements
\* evaluate: what the walk answers is not touched by what comes after it, and
\* every theorem about the walk is one about evaluate_model.
THEOREM EvaluateImplementsSpeed == EvaluateSpec => SpeedSpec
<1>1. EvaluateInit => EstimateInit
  BY DEF EvaluateInit
<1>2. QED
  BY <1>1, EvaluateStepIsASpeedStep, PTL DEF EvaluateSpec, SpeedSpec

THEOREM SpeedImplementsFit == SpeedSpec => Spec
<1>1. EstimateInit => Init
  BY DEF EstimateInit
<1>2. QED
  BY <1>1, SpeedStepIsAFitStep, PTL DEF SpeedSpec, Spec

\* What the fit promises holds of evaluate_model too.
THEOREM EvaluateKeepsTheFit ==
    EvaluateSpec => [](FirstThatFits /\ MemoryExists /\ PerfectIsOnTheAccelerator
                       /\ UsableCoversEffectiveInPool)
BY EvaluateImplementsSpeed, SpeedImplementsFit, WalkFindsTheFirst, MemoryAlwaysExists,
   PerfectAlwaysOnTheAccelerator, UsableAlwaysCoversEffective, PTL

\* Every estimate carries the provenance it earned, whatever the catalog has.
THEOREM ProvenanceIsAlwaysEarned == EvaluateSpec => []ProvenanceIsEarned
<1>1. EvaluateInv => ProvenanceIsEarned
  BY DEF EvaluateInv, SpeedInv
<1>2. QED
  BY <1>1, EvaluateInvariant, PTL

\* A model split between two pools is never read faster than either delivers
\* its part.
THEOREM NeverFasterThanItsPools == EvaluateSpec => []NoFasterThanItsPools
<1>1. EvaluateInv => NoFasterThanItsPools
  BY PoolsBound DEF EvaluateInv, SpeedInv, SpeedTypeOK
<1>2. QED
  BY <1>1, EvaluateInvariant, PTL

LEMMA ScoredFacts ==
    ASSUME EvaluateInv, Scored
    PROVE  /\ pc = "done" /\ model \in Models /\ about \in Profiles /\ use \in UseCase
           /\ fit \in FitType /\ fit.quant \in Quant
           /\ scores.dims = Dims /\ scores.composite = Composite(Dims, use, Runnable(fit))
           /\ Dims \in [quality : 0..100, speed : 0..100, fit : 0..100, context : 0..100]
           /\ scores.dims.quality = Quality(model.params, about, fit.quant, use)
<1>1. /\ stage = "estimated" /\ about \in Profiles /\ use \in UseCase
      /\ scores = [dims |-> Dims, composite |-> Composite(Dims, use, Runnable(fit))]
  BY DEF EvaluateInv, ScoresAreOfTheAnswer
<1>2. IInv /\ pc = "done" /\ model \in Models
  BY <1>1 DEF EvaluateInv, SpeedInv, SpeedTypeOK, IInv, TypeOK
<1>3. fit \in FitType /\ fit.quant \in Quant
  BY <1>2, AnswerTypes
<1>4. Dims \in [quality : 0..100, speed : 0..100, fit : 0..100, context : 0..100]
  BY <1>1, <1>3, QualityType, SpeedScoreType, FitScoreType, ContextScoreFacts DEF Dims
<1>5. /\ scores.dims = Dims /\ scores.composite = Composite(Dims, use, Runnable(fit))
      /\ Dims.quality = Quality(model.params, about, fit.quant, use)
  BY <1>1, Zenon DEF Dims
<1>6. QED
  BY <1>1, <1>2, <1>3, <1>4, <1>5

\* Size always outweighs the label, for every width of record: three octaves
\* of parameters are worth more than the bonus, even where the cubic is
\* furthest from the logarithm.
THEOREM SizeAlwaysOutweighsTheLabel == EvaluateSpec => []SizeOutweighsTheLabel
<1>1. ASSUME EvaluateInv PROVE SizeOutweighsTheLabel
  <2> SUFFICES ASSUME Scored, about.useCase = use, scores.dims.quality < 100,
                      NEW case \in TextCases \ {use}
               PROVE  Quality(11 * Most(model.params, 50),
                              [about EXCEPT !.useCase = case], fit.quant, use)
                        > scores.dims.quality
    BY Zenon DEF SizeOutweighsTheLabel
  <2>1. Quality(model.params, about, fit.quant, use) = scores.dims.quality
    BY <1>1, ScoredFacts
  <2>2. model \in Models /\ about \in Profiles /\ fit.quant \in Quant
    BY <1>1, ScoredFacts
  <2> DEFINE large == Quality(11 * Most(model.params, 50),
                              [about EXCEPT !.useCase = case], fit.quant, use)
  <2>3. scores.dims.quality < large
    BY <2>1, <2>2, SizeWins
  <2>4. large \in 0..100 /\ scores.dims.quality \in 0..100
    BY <2>1, QualityType
  <2> HIDE DEF large
  <2>5. large > scores.dims.quality
    BY <2>3, <2>4
  <2>6. QED
    BY <2>5 DEF large
<1>2. QED
  BY <1>1, EvaluateInvariant, PTL

\* The composite of what runs is always an average of its dimensions.
THEOREM CompositeIsAlwaysAnAverage == EvaluateSpec => []CompositeIsAnAverage
<1>1. ASSUME EvaluateInv PROVE CompositeIsAnAverage
  <2> SUFFICES ASSUME Scored, Runnable(fit) PROVE CompositeIsAnAverage
    BY DEF CompositeIsAnAverage
  <2> DEFINE d == Dims
  <2>1. /\ d \in [quality : 0..100, speed : 0..100, fit : 0..100, context : 0..100]
        /\ use \in UseCase
        /\ scores.dims = d /\ scores.composite = Composite(d, use, Runnable(fit))
    BY <1>1, ScoredFacts
  <2> HIDE DEF d
  <2>2. scores.composite = Least(Weighted(d, use), 10000)
    BY <2>1 DEF Composite
  <2>3. /\ Weighted(d, use) \in Nat /\ Weighted(d, use) <= 10000
        /\ \E p \in {d.quality, d.speed, d.fit, d.context} : 100 * p <= Weighted(d, use)
        /\ \E p \in {d.quality, d.speed, d.fit, d.context} : Weighted(d, use) <= 100 * p
    BY <2>1, WeightedBetween
  <2>4. scores.composite = Weighted(d, use)
    BY <2>2, <2>3 DEF Least
  <2> DEFINE points == {scores.dims.quality, scores.dims.speed, scores.dims.fit,
                        scores.dims.context}
  <2>5. points = {d.quality, d.speed, d.fit, d.context}
    BY <2>1, Zenon
  <2> SUFFICES (\E p \in points : 100 * p <= scores.composite)
               /\ (\E p \in points : scores.composite <= 100 * p)
    BY Zenon DEF CompositeIsAnAverage
  <2> HIDE DEF points
  <2>6. PICK p \in points : 100 * p <= Weighted(d, use)
    BY <2>3, <2>5, SMT
  <2>7. PICK q \in points : Weighted(d, use) <= 100 * q
    BY <2>3, <2>5, SMT
  <2>8. QED
    BY <2>4, <2>6, <2>7, SMT
<1>2. QED
  BY <1>1, EvaluateInvariant, PTL

\* The collapse is always enough: a model that does not load is composed below
\* every configuration of itself that would.
THEOREM CollapseIsAlwaysEnough == EvaluateSpec => []CollapseIsEnough
<1>1. ASSUME EvaluateInv PROVE CollapseIsEnough
  <2> SUFFICES ASSUME Scored, ~Runnable(fit), NEW quant \in Quant
               PROVE  scores.composite <
                        Composite([quality |-> Quality(model.params, about, quant, use),
                                   speed |-> 0, fit |-> 37, context |-> 0], use, TRUE)
    BY DEF CollapseIsEnough
  <2> DEFINE d == Dims
  <2>1. /\ d \in [quality : 0..100, speed : 0..100, fit : 0..100, context : 0..100]
        /\ use \in UseCase /\ model \in Models /\ about \in Profiles /\ fit \in FitType
        /\ scores.dims = d /\ scores.composite = Composite(d, use, Runnable(fit))
        /\ d.quality = Quality(model.params, about, fit.quant, use)
        /\ pc = "done"
    BY <1>1, ScoredFacts
  <2>2. fit.quant = Q2K
    <3>1. fit = At(FALSE, Q2K)
      BY <1>1, <2>1 DEF EvaluateInv, SpeedInv, IInv, FirstThatFits
    <3>2. QED
      BY <3>1 DEF At, EvaluateAt
  <2>3. d.quality <= Quality(model.params, about, quant, use)
    BY <2>1, <2>2, LastQuantIsWorst
  <2>4. d.fit = 0
    BY <2>1, FitScoreType DEF d, Dims
  <2> HIDE DEF d
  <2>5. d \in [quality : 0..100, speed : 0..100, fit : {0}, context : 0..100]
    BY <2>1, <2>4
  <2>6. Quality(model.params, about, quant, use) \in 0..100
    BY QualityType
  <2>7. Composite(d, use, Runnable(fit)) = Composite(d, use, FALSE)
    BY SMT DEF Composite
  <2>8. QED
    BY <2>1, <2>3, <2>5, <2>6, <2>7, TenthIsBelow
<1>2. QED
  BY <1>1, EvaluateInvariant, PTL

\* The context score always credits what a runnable plan holds.
THEOREM ContextIsAlwaysCredited == EvaluateSpec => []ContextIsCreditedWhereItRuns
<1>1. ASSUME EvaluateInv, UsableCoversEffectiveInPool
      PROVE  ContextIsCreditedWhereItRuns
  <2> SUFFICES ASSUME Scored, Runnable(fit), fit.plan.mode # "MoeOffload"
               PROVE  scores.dims.context >=
                        (100 * Least(Least(fit.context, Most(model.context, MinContext)),
                                     ContextTarget(use))) \div ContextTarget(use)
    BY DEF ContextIsCreditedWhereItRuns
  <2> DEFINE held == Least(fit.context, Most(model.context, MinContext))
             t    == ContextTarget(use)
             c    == (100 * Least(held, t)) \div t
  <2>1. /\ use \in UseCase /\ model \in Models /\ fit \in FitType /\ pc = "done"
        /\ scores.dims.context = ContextScore(fit, use)
    BY <1>1, ScoredFacts DEF Dims
  <2>2. fit.usable >= held
    BY <1>1, <2>1 DEF UsableCoversEffectiveInPool
  <2>3. held \in Nat /\ fit.usable \in Nat
    <3>1. fit.context \in Nat /\ fit.usable \in Nat
      BY <2>1 DEF FitType
    <3>2. model.context \in Nat
      <4>1. model \in ModelType
        BY <2>1, InputsAssumption
      <4>2. QED
        BY <4>1 DEF ModelType
    <3>3. QED
      BY <3>1, <3>2 DEF Least, Most, MinContext
  <2> HIDE DEF held
  <2>4. held <= fit.usable
    BY <2>2, <2>3
  <2>5. c <= ContextScore(fit, use) /\ ContextScore(fit, use) \in 0..100
    BY <2>1, <2>3, <2>4, ContextScoreFacts
  <2>6. t \in {32768, 16384, 512, 8192}
    BY <2>1, TargetType
  <2>7. c \in Int
    BY <2>3, <2>6 DEF Least
  <2> HIDE DEF c
  <2>8. scores.dims.context >= c
    BY <2>1, <2>5, <2>7
  <2>9. QED
    BY <2>8 DEF c, t, held
<1>2. QED
  BY <1>1, EvaluateInvariant, EvaluateKeepsTheFit, PTL
=============================================================================
