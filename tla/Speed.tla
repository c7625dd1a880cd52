------------------------------- MODULE Speed -------------------------------
(***************************************************************************)
(* Throughput of a fitted model (openchoice-core/src/speed.rs, with the    *)
(* bandwidths of hardware.rs): once module Fit has its answer, the         *)
(* formula, then what the catalog's measurement and calibration make of    *)
(* it, one step each.                                                      *)
(*                                                                         *)
(* f32 arithmetic is exact here and truncated where the source truncates.  *)
(* Bandwidths are in tenths of a GB/s; Scale is what tenths of a token a   *)
(* second come of one of them over one MiB of traffic, the efficiency      *)
(* included.  Prefill and the time to first token are kept as whether they *)
(* are computed, and whether a factor scaled them.                         *)
(***************************************************************************)
EXTENDS Fit

CONSTANTS
    Scale,
    Rates,          \* memory systems: gpu and ram bandwidth (0: unknown), tflops
                    \* and the backend's constant
    Measurements,   \* what the catalog may hold for a machine and a model
    Factors         \* calibrations it may hold for a machine, in thousandths

ASSUME ScaleAssumption == Scale \in Nat \ {0}

ASSUME CatalogAssumption ==
    /\ Rates \subseteq [gpu : Nat, ram : Nat, tflops : Nat, constant : Nat]
    /\ Measurements \subseteq [tps : Nat, quant : Quant \cup {None}]
    /\ None \notin Measurements
    /\ Factors \subseteq Nat

\* EstimateMethod, best to worst.
Method == {"Measured", "MeasuredAdjusted", "Calibrated", "Roofline", "BackendConstant"}

\* Quant::speed_multiplier, in hundredths.
SpeedMultiplier ==
    [q \in Quant |-> CASE q = 0 -> 52 [] q = 1 -> 78 [] q = 2 -> 90 [] q = 3 -> 96
                       [] q = 4 -> 100 [] q = 5 -> 104 [] q = 6 -> 108]

VARIABLES
    rates,       \* the rest of the Hardware, never changed
    stage,       \* "formula", "measurement", "calibration" or "estimated"
    decode,      \* decode_tps_x10
    ttft,        \* ttft_ms: "none", "computed" or "scaled"
    method,
    bandwidth,   \* the bandwidth the formula used
    source,      \* the BandwidthSource reported with it
    measurement, \* what the catalog had, None until it is looked up
    factor       \* the calibration applied, None when none is

estimateVars == <<stage, decode, ttft, method, bandwidth, source, measurement, factor>>
speedVars == <<vars, rates, estimateVars>>

-----------------------------------------------------------------------------
(***************************************************************************)
(* The formula                                                             *)
(***************************************************************************)
\* Hardware::effective_ram_bandwidth.
RamBandwidth ==
    IF rates.ram > 0 THEN rates.ram
    ELSE IF hw.unified THEN (IF rates.gpu > 0 THEN rates.gpu ELSE 1000)
    ELSE 512

\* Hardware::resolve_gpu_bandwidth.
GpuBandwidth == IF rates.gpu > 0 THEN rates.gpu ELSE IF hw.unified THEN RamBandwidth ELSE 0

GpuSource == IF rates.gpu > 0 THEN "Override" ELSE "BackendConstant"

\* Mutant: the shares of the two pools are exchanged.
Blend_Exchanged(gpu, ram) ==
    LET total == Resident(fit.plan)
        held  == Least(hw.vram, total)
    IN  (gpu * ram) \div ((held * gpu + (total - held) * ram + total - 1) \div total)

\* CpuGpu: the time per byte is each pool's, weighted by what it holds.
Blend(gpu, ram) ==
    LET total == Resident(fit.plan)
        held  == Least(hw.vram, total)
    IN  (gpu * ram) \div ((held * ram + (total - held) * gpu + total - 1) \div total)

EffectiveBandwidth ==
    CASE fit.plan.mode \in {"Cpu", "UnifiedSpill"} -> RamBandwidth
      [] fit.plan.mode = "Gpu" -> GpuBandwidth
      [] fit.plan.mode = "MoeOffload" ->
            IF GpuBandwidth = 0 THEN 0 ELSE (85 * GpuBandwidth + 15 * RamBandwidth) \div 100
      [] fit.plan.mode = "CpuGpu" ->
            IF GpuBandwidth = 0 \/ Resident(fit.plan) = 0
            THEN RamBandwidth ELSE Blend(GpuBandwidth, RamBandwidth)

\* Every weight the pool holds once, and half of the cache: doubled to stay
\* whole.
TwiceTraffic == 2 * fit.plan.weights + fit.plan.kv

RooflineTps(traffic) == (2 * EffectiveBandwidth * Scale) \div traffic

\* Prefill and time to first token: from compute, or not at all.
FormulaTtft == IF rates.tflops > 0 /\ ActiveParams(model) > 0 THEN "computed" ELSE "none"

EstimateInit ==
    /\ Init
    /\ rates \in Rates
    /\ stage = "formula"
    /\ decode = 0 /\ ttft = "none" /\ method = "BackendConstant"
    /\ bandwidth = 0 /\ source = "BackendConstant"
    /\ measurement = None /\ factor = None

\* estimate, when it knows how fast the weights can be read ...
Roofline ==
    /\ pc = "done" /\ stage = "formula"
    /\ EffectiveBandwidth > 0 /\ TwiceTraffic > 0
    /\ decode' = RooflineTps(TwiceTraffic)
    /\ method' = "Roofline"
    /\ bandwidth' = EffectiveBandwidth
    /\ source' = GpuSource
    /\ ttft' = FormulaTtft
    /\ stage' = "measurement"
    /\ UNCHANGED <<vars, rates, measurement, factor>>

\* ... and when it does not.
BackendConstant ==
    /\ pc = "done" /\ stage = "formula"
    /\ ~(EffectiveBandwidth > 0 /\ TwiceTraffic > 0)
    /\ decode' = (rates.constant * 100 * SpeedMultiplier[fit.quant])
                 \div Most(ActiveParams(model), 50)
    /\ method' = "BackendConstant"
    /\ bandwidth' = EffectiveBandwidth
    /\ source' = IF EffectiveBandwidth > 0 THEN GpuSource ELSE "BackendConstant"
    /\ ttft' = FormulaTtft
    /\ stage' = "measurement"
    /\ UNCHANGED <<vars, rates, measurement, factor>>

-----------------------------------------------------------------------------
(***************************************************************************)
(* estimate_with_catalog                                                   *)
(***************************************************************************)
Unmeasured ==
    /\ stage = "measurement"
    /\ stage' = "calibration"
    /\ UNCHANGED <<vars, rates, decode, ttft, method, bandwidth, source, measurement, factor>>

\* The catalog has a measurement for this machine and model.
Found(m) == stage = "measurement" /\ measurement' = m

SameQuant(m) ==
    /\ Found(m)
    /\ m.quant = fit.quant
    /\ decode' = m.tps
    /\ method' = "Measured"
    /\ stage' = "estimated"
    /\ UNCHANGED <<vars, rates, ttft, bandwidth, source, factor>>

\* Mutant: the ratio of the two quants is upside down.
OtherQuant_Inverted(m) ==
    /\ Found(m)
    /\ m.quant \notin {None, fit.quant}
    /\ decode' = (m.tps * BitsPerWeight[fit.quant]) \div BitsPerWeight[m.quant]
    /\ method' = "MeasuredAdjusted"
    /\ stage' = "estimated"
    /\ UNCHANGED <<vars, rates, ttft, bandwidth, source, factor>>

OtherQuant(m) ==
    /\ Found(m)
    /\ m.quant \notin {None, fit.quant}
    /\ decode' = (m.tps * BitsPerWeight[m.quant]) \div BitsPerWeight[fit.quant]
    /\ method' = "MeasuredAdjusted"
    /\ stage' = "estimated"
    /\ UNCHANGED <<vars, rates, ttft, bandwidth, source, factor>>

\* A run of unknown quant is kept for the caller, and changes nothing here.
UnknownQuant(m) ==
    /\ Found(m)
    /\ m.quant = None
    /\ stage' = IF method = "Roofline" THEN "calibration" ELSE "estimated"
    /\ UNCHANGED <<vars, rates, decode, ttft, method, bandwidth, source, factor>>

\* The catalog has a factor for this machine.
Calibrate(f) ==
    /\ stage = "calibration"
    /\ method = "Roofline"
    /\ decode' = (decode * f) \div 1000
    /\ method' = "Calibrated"
    /\ ttft' = IF ttft = "none" THEN "none" ELSE "scaled"
    /\ factor' = f
    /\ stage' = "estimated"
    /\ UNCHANGED <<vars, rates, bandwidth, source, measurement>>

Uncalibrated ==
    /\ stage = "calibration"
    /\ stage' = "estimated"
    /\ UNCHANGED <<vars, rates, decode, ttft, method, bandwidth, source, measurement, factor>>

FitStep == Next /\ UNCHANGED <<rates, estimateVars>>

SpeedNext ==
    \/ FitStep
    \/ Roofline \/ BackendConstant
    \/ Unmeasured
    \/ \E m \in Measurements : SameQuant(m) \/ OtherQuant(m) \/ UnknownQuant(m)
    \/ \E f \in Factors : Calibrate(f)
    \/ Uncalibrated

SpeedSpec == EstimateInit /\ [][SpeedNext]_speedVars

-----------------------------------------------------------------------------
(***************************************************************************)
(* Properties                                                              *)
(***************************************************************************)
\* The provenance a number carries is earned, and nothing is blended
\* (speed.rs:98-105): a number called measured is the measurement itself; an
\* adjusted one comes of it alone, and is no faster than it was observed when
\* the row moves more bits; a calibrated one comes of the roofline alone; a
\* measurement of known quant wins over any formula; and a factor derived
\* from rooflines touches neither a backend constant nor, with it, a time to
\* first token (speed.rs:127-156).
ProvenanceIsEarned ==
    stage = "estimated" =>
        LET known == measurement # None /\ measurement.quant # None
            roof  == (2 * bandwidth * Scale) \div TwiceTraffic
        IN  /\ method \in Method
            /\ known <=> method \in {"Measured", "MeasuredAdjusted"}
            /\ method = "Measured" =>
                   /\ measurement.quant = fit.quant
                   /\ decode = measurement.tps
            /\ method = "MeasuredAdjusted" =>
                   /\ measurement.quant # fit.quant
                   /\ IF BitsPerWeight[measurement.quant] < BitsPerWeight[fit.quant]
                      THEN decode <= measurement.tps
                      ELSE decode >= measurement.tps
            /\ method \in {"Calibrated", "Roofline"} =>
                   /\ bandwidth > 0 /\ TwiceTraffic > 0
                   /\ decode = IF method = "Roofline" THEN roof
                               ELSE (roof * factor) \div 1000
            /\ method = "Roofline" => factor = None
            /\ method = "BackendConstant" => bandwidth = 0 \/ TwiceTraffic = 0
            /\ ttft = "scaled" => method = "Calibrated"

\* A model split between two pools is read no faster than either pool can
\* deliver the part of it that it holds; and whatever weighs them, the
\* bandwidth lies between those of the pools (speed.rs:190-210).
NoFasterThanItsPools ==
    pc = "done" /\ fit.plan.mode \in {"CpuGpu", "MoeOffload"} /\ GpuBandwidth > 0 =>
        /\ EffectiveBandwidth >= Least(GpuBandwidth, RamBandwidth)
        /\ EffectiveBandwidth <= Most(GpuBandwidth, RamBandwidth)
        /\ fit.plan.mode = "CpuGpu" =>
              LET total == Resident(fit.plan)
              IN  /\ EffectiveBandwidth * hw.vram <= total * GpuBandwidth
                  /\ EffectiveBandwidth * (total - hw.vram) <= total * RamBandwidth

\* catalog.rs:174-175 and docs/catalog-format.md:65 say of a sparse model that
\* "only active_params_m move per token"; catalog.rs:414-416 that they are the
\* parameters read per decoded token.
OnlyActiveWeightsMove ==
    method = "Roofline" =>
        decode = RooflineTps(2 * WeightsMb(ActiveParams(model), fit.quant) + fit.plan.kv)
=============================================================================
