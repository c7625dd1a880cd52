------------------------------- MODULE MCTopN -------------------------------
(***************************************************************************)
(* A catalog of six entries: three sets of weights, two of them with       *)
(* repackages, ties in the composite, and entries that will not run.       *)
(***************************************************************************)
EXTENDS TopN

CONSTANTS w1, w2, w3, w4

MCWeights == {w1, w2, w3, w4}
MCNames == 1..6

Entry(n, w, v, c) ==
    [name |-> n, weights |-> w, verdict |-> v, composite |-> c,
     useCase |-> n % 2, tps |-> n, context |-> 2 * n, params |-> 7 - n]

MCEntries ==
    {Entry(1, w1, Good,     5),
     Entry(2, w1, Perfect,  7),
     Entry(3, w2, Marginal, 5),
     Entry(4, w2, TooTight, 9),
     Entry(5, w3, Good,     7),
     Entry(6, w4, Good,     6)}

Everything ==
    [useCase |-> None, minVerdict |-> TooTight, minTps |-> None,
     minContext |-> None, maxParams |-> None]

MCFilters ==
    {Everything,
     [Everything EXCEPT !.minVerdict = None],
     [Everything EXCEPT !.minVerdict = Good, !.maxParams = 5],
     [Everything EXCEPT !.useCase = 0, !.minTps = 3, !.minContext = 7]}
=============================================================================
