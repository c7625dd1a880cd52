------------------------------- MODULE Score -------------------------------
(***************************************************************************)
(* The four dimensions and the composite (openchoice-core/src/score.rs),   *)
(* and with them the whole of lib.rs's `evaluate_model`: the fit of module *)
(* Fit decides the estimate of module Speed, and both decide the scores.   *)
(*                                                                         *)
(* f32 arithmetic is exact on scaled integers and truncated where the      *)
(* source truncates: logarithms are in ten-thousandths, points in          *)
(* thousandths, weights in hundredths.                                     *)
(***************************************************************************)
EXTENDS Speed

CONSTANTS
    Profiles,   \* what else the catalog says of a model: prior and use case
    Requests    \* opts.use_case: a use case or None

UseCase == {"General", "Coding", "Reasoning", "Chat", "Multimodal", "Embedding"}

ASSUME ProfilesAssumption ==
    /\ Profiles \subseteq [prior : 0..255, useCase : UseCase]
    /\ Requests \subseteq UseCase \cup {None}
    /\ None \notin UseCase

\* params_m is a u32: 2^32 millions of parameters are beyond the record.
ASSUME WidthAssumption == \A m \in Models : m.params \div 65536 < 65536

VARIABLES
    about,      \* the model's profile, None until it is scored
    use,        \* the use case it was scored for, None until then
    scores      \* what score returns, None until it does

evaluateVars == <<speedVars, about, use, scores>>

\* Mutant: a digit of one weight is lost, and the others keep theirs.
WeightsFor_Typo(case) ==
    CASE case = "General"    -> [quality |-> 40, speed |-> 25, fit |-> 20, context |-> 15]
      [] case = "Coding"     -> [quality |-> 35, speed |-> 20, fit |-> 15, context |-> 3]
      [] case = "Reasoning"  -> [quality |-> 55, speed |-> 15, fit |-> 15, context |-> 15]
      [] case = "Chat"       -> [quality |-> 30, speed |-> 35, fit |-> 20, context |-> 15]
      [] case = "Multimodal" -> [quality |-> 45, speed |-> 20, fit |-> 20, context |-> 15]
      [] case = "Embedding"  -> [quality |-> 35, speed |-> 40, fit |-> 20, context |-> 5]

WeightsFor(case) ==
    CASE case = "General"    -> [quality |-> 40, speed |-> 25, fit |-> 20, context |-> 15]
      [] case = "Coding"     -> [quality |-> 35, speed |-> 20, fit |-> 15, context |-> 30]
      [] case = "Reasoning"  -> [quality |-> 55, speed |-> 15, fit |-> 15, context |-> 15]
      [] case = "Chat"       -> [quality |-> 30, speed |-> 35, fit |-> 20, context |-> 15]
      [] case = "Multimodal" -> [quality |-> 45, speed |-> 20, fit |-> 20, context |-> 15]
      [] case = "Embedding"  -> [quality |-> 35, speed |-> 40, fit |-> 20, context |-> 5]

ContextTarget(case) ==
    CASE case = "Coding" -> 32768 [] case = "Reasoning" -> 16384
      [] case = "Embedding" -> 512
      [] case \in {"General", "Chat", "Multimodal"} -> 8192

SpeedTarget(case) ==
    CASE case = "Chat" -> 30 [] case \in {"General", "Coding"} -> 20
      [] case = "Multimodal" -> 15 [] case = "Reasoning" -> 10
      [] case = "Embedding" -> 100

\* clamp_u8, from thousandths of a point.
Clamped(points) ==
    IF points \in Nat /\ points <= 100000 THEN points \div 1000
    ELSE IF points <= 0 THEN 0 ELSE 100

-----------------------------------------------------------------------------
(***************************************************************************)
(* log2 of num / den                                                       *)
(***************************************************************************)
\* The exponent of num / den, and the two brought to its octave: 1 <= num/den < 2.
Octave(num, den) ==
    IF num < den
    THEN LET k == CHOOSE j \in 1..31 : den <= num * 2^j /\ num * 2^(j - 1) < den
         IN  [exponent |-> -k, num |-> num * 2^k, den |-> den]
    ELSE LET k == CHOOSE j \in 0..31 : den * 2^j <= num /\ num \div 2 < den * 2^j
         IN  [exponent |-> k, num |-> num, den |-> den * 2^k]

\* The fitted cubic over the octave, with the coefficients of the source.
Log2(num, den) ==
    LET o == Octave(num, den)
        m == 10 * ((1000 * (o.num - o.den)) \div o.den)
        poly == (m * (14427 - (m * (7213 - (m * 4276) \div 10000)) \div 10000)) \div 10000
    IN  10000 * o.exponent + poly

-----------------------------------------------------------------------------
(***************************************************************************)
(* The dimensions                                                          *)
(***************************************************************************)
\* Quant::quality_factor, in thousandths.
QualityFactor ==
    [q \in Quant |-> CASE q = 0 -> 1000 [] q = 1 -> 998 [] q = 2 -> 995 [] q = 3 -> 988
                       [] q = 4 -> 972 [] q = 5 -> 922 [] q = 6 -> 810]

TextCases == {"General", "Coding", "Reasoning", "Chat"}

\* Mutant: the label is worth as much as an order of magnitude of parameters.
AlignmentBonus_Decisive(case, requested) ==
    IF case = requested THEN 40000
    ELSE IF requested \in TextCases /\ case = "Embedding" THEN -25000
    ELSE IF requested \in TextCases /\ case = "Multimodal" THEN -10000
    ELSE 0

AlignmentBonus(case, requested) ==
    IF case = requested THEN 8000
    ELSE IF requested \in TextCases /\ case = "Embedding" THEN -25000
    ELSE IF requested \in TextCases /\ case = "Multimodal" THEN -10000
    ELSE 0

\* quality_score.
Quality(params, profile, quant, requested) ==
    LET base  == 35000 + (93 * Log2(Most(params, 50), 1000)) \div 100
        prior == (30000 * profile.prior) \div 255 - 15000
        raw   == base + prior + AlignmentBonus(profile.useCase, requested)
    IN  Clamped((raw * QualityFactor[quant]) \div 1000)

\* speed_score: past the target, less and less.
SpeedScore(tps, case) ==
    LET target == 10 * SpeedTarget(case)
        log    == Log2(tps + target, target)
    IN  IF tps >= target
        THEN Clamped(85000 + 10 * ((1500 * log) \div (10000 + log)))
        ELSE Clamped((85000 * tps) \div target)

\* Fit::utilization_pctx10.
Utilization(f) ==
    IF f.plan.pool = 0 THEN 65535
    ELSE Least((1000 * Resident(f.plan)) \div f.plan.pool, 65535)

\* fit_score.
FitScore(f) ==
    LET u == Utilization(f)
    IN  IF ~Runnable(f) THEN 0
        ELSE IF u < 500 THEN Clamped(60000 + 80 * u)
        ELSE IF u <= 800 THEN 100
        ELSE Clamped(100000 - (u - 800) * 350)

\* context_score.
ContextScore(f, case) ==
    LET target == ContextTarget(case)
    IN  IF f.usable >= target THEN 100 ELSE (100 * f.usable) \div target

\* The weighted sum, in hundredths of a point.
Weighted(s, case) ==
    LET w == WeightsFor(case)
    IN  s.quality * w.quality + s.speed * w.speed + s.fit * w.fit + s.context * w.context

\* Mutant: what does not load keeps its composite.
Composite_Kept(s, case, runnable) == Least(Weighted(s, case), 10000)

Composite(s, case, runnable) ==
    Least(IF runnable THEN Weighted(s, case) ELSE Weighted(s, case) \div 10, 10000)

-----------------------------------------------------------------------------
(***************************************************************************)
(* evaluate_model                                                          *)
(***************************************************************************)
EvaluateInit == EstimateInit /\ about = None /\ use = None /\ scores = None

\* score, for the use case asked for or else the model's own.
Score(profile, request) ==
    LET case == IF request # None THEN request ELSE profile.useCase
        dims == [quality |-> Quality(model.params, profile, fit.quant, case),
                 speed |-> SpeedScore(decode, case),
                 fit |-> FitScore(fit),
                 context |-> ContextScore(fit, case)]
    IN  /\ stage = "estimated" /\ scores = None
        /\ about' = profile
        /\ use' = case
        /\ scores' = [dims |-> dims, composite |-> Composite(dims, case, Runnable(fit))]
        /\ UNCHANGED speedVars

EstimateStep == SpeedNext /\ UNCHANGED <<about, use, scores>>

EvaluateNext ==
    \/ EstimateStep
    \/ \E profile \in Profiles, request \in Requests : Score(profile, request)

EvaluateSpec == EvaluateInit /\ [][EvaluateNext]_evaluateVars

-----------------------------------------------------------------------------
(***************************************************************************)
(* Properties                                                              *)
(***************************************************************************)
Scored == scores # None

\* A model's own specialisation is "a modest edge, not a decisive one"
\* (score.rs:155-160): at the same quantization and with the same prior, a
\* model of eleven times the parameters and another speciality of the same
\* kind is of higher quality for the job than a match - 32B against 3B -
\* unless both are beyond the scale.
SizeOutweighsTheLabel ==
    Scored /\ about.useCase = use /\ scores.dims.quality < 100 =>
        \A case \in TextCases \ {use} :
            Quality(11 * Most(model.params, 50), [about EXCEPT !.useCase = case], fit.quant, use)
            > scores.dims.quality

\* The composite of a model that runs is an average of its dimensions: the
\* weights of every use case sum to one, so that it lies between the worst
\* and the best of them, and composites of different use cases are on one
\* scale (score.rs:30-36, 126-132).
CompositeIsAnAverage ==
    Scored /\ Runnable(fit) =>
        LET points == {scores.dims.quality, scores.dims.speed, scores.dims.fit,
                       scores.dims.context}
        IN  /\ \E p \in points : 100 * p <= scores.composite
            /\ \E p \in points : scores.composite <= 100 * p

\* What the collapse is for (score.rs:120-124): a model that will not load is
\* composed below any configuration of itself that would, however slow, tight
\* and short of context that one is.
CollapseIsEnough ==
    Scored /\ ~Runnable(fit) =>
        \A quant \in Quant :
            scores.composite <
                Composite([quality |-> Quality(model.params, about, quant, use),
                           speed |-> 0, fit |-> 37, context |-> 0], use, TRUE)

\* The context score is of what the machine can hold, and what a plan that
\* runs was computed at it can hold: at the target or above it, nothing is
\* taken off (score.rs:204-216; fit.rs:316-321).  The exceptions are those
\* of UsableCoversEffectiveInPool.
ContextIsCreditedWhereItRuns ==
    Scored /\ Runnable(fit) /\ fit.plan.mode # "MoeOffload" =>
        LET held   == Least(fit.context, Most(model.context, MinContext))
            target == ContextTarget(use)
        IN  scores.dims.context >= (100 * Least(held, target)) \div target

-----------------------------------------------------------------------------
(***************************************************************************)
(* What the documentation says and the code does not do.                   *)
(***************************************************************************)
\* log2's comments: "Newton refinement on the exponent gets well inside a
\* tenth of a bit", and of the cubic term that it "pulls the error down to
\* well inside a tenth of a bit across the interval" (score.rs:226-239).
\* Below a power of two the logarithm is below its exponent.
LogWithinATenth ==
    Scored =>
        LET p == Most(model.params, 50)
        IN  Log2(p, 1000) <= 10000 * (Octave(p, 1000).exponent + 1) + 1000
=============================================================================
