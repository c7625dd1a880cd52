------------------------------- MODULE MCFit -------------------------------
(***************************************************************************)
(* An instance for what the documentation of fit.rs says and the code does *)
(* not do: a sparse model on a small card, whose experts park in RAM.      *)
(* What holds of Fit is checked with MCScore.                              *)
(***************************************************************************)
EXTENDS Fit

Box(vram, ram) ==
    [cpu |-> FALSE, vram |-> vram, ram |-> ram, reserve |-> 2048, unified |-> FALSE]

Sparse(params, active, ctx) ==
    [params |-> params, active |-> active, moe |-> TRUE, context |-> ctx,
     quants |-> {}, kvKib |-> None]

MoeMachines == {Box(vram, 65536) : vram \in {12288, 20480, 24576}}
MoeModels   == {Sparse(46700, 12900, 8192), Sparse(20900, 3600, 131072)}

DefaultOptions ==
    {[context |-> None, kvWidth |-> 4, moeOffload |-> TRUE, maxQuant |-> Q8_0]}
=============================================================================
