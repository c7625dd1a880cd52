--------------------------- MODULE Recommendation ---------------------------
(***************************************************************************)
(* What ranking sees of an evaluated model (openchoice-core/src/lib.rs,    *)
(* `Recommendation`), the order that ranks two of them (score::better) and *)
(* the filter that admits one (lib.rs, `Filter`).                          *)
(*                                                                         *)
(* A recommendation is abstracted to the fields the ranking reads.  Its    *)
(* `weights` field stands for catalog::base_name of the model's name: two  *)
(* names denote the same weights iff their base names are equal up to      *)
(* case, an equivalence, so its classes are all that matters here.         *)
(***************************************************************************)
EXTENDS Integers

CONSTANT None   \* the absent value of an Option

ASSUME NoneAssumption == None \notin Int

\* fit::Verdict, in its declaration order (the derived Ord).
TooTight == 0
Marginal == 1
Good     == 2
Perfect  == 3
Verdict  == TooTight..Perfect

\* Composite scores are u16 hundredths, capped at 10 000 by score::score.
MaxComposite == 10000

\* The recommendations of a catalog whose models have names in Names and
\* weights in Weights.
RecommendationOf(Names, Weights) ==
    [name      : Names,
     weights   : Weights,
     verdict   : Verdict,
     composite : 0..MaxComposite,
     useCase   : Nat,
     tps       : Nat,
     context   : Nat,
     params    : Nat]

\* Filter: every field optional.
FilterType ==
    [useCase    : Nat \cup {None},
     minVerdict : Verdict \cup {None},
     minTps     : Nat \cup {None},
     minContext : Nat \cup {None},
     maxParams  : Nat \cup {None}]

Runnable(verdict) == verdict # TooTight

(***************************************************************************)
(* score::better as `ranks_above` uses it: runnable first, then the higher *)
(* composite.                                                              *)
(***************************************************************************)
RanksAbove(a, b) ==
    \/ Runnable(a.verdict) /\ ~Runnable(b.verdict)
    \/ /\ Runnable(a.verdict) = Runnable(b.verdict)
       /\ a.composite > b.composite

\* Filter::admits.
Admits(filter, rec) ==
    /\ filter.useCase # None => rec.useCase = filter.useCase
    /\ IF filter.minVerdict # None
       THEN rec.verdict >= filter.minVerdict
       ELSE Runnable(rec.verdict)
    /\ filter.minTps # None => rec.tps >= filter.minTps
    /\ filter.minContext # None => rec.context >= filter.minContext
    /\ filter.maxParams # None => rec.params <= filter.maxParams
=============================================================================
