------------------------------ MODULE MCScore ------------------------------
(***************************************************************************)
(* Machines, models and options: every run mode, every verdict, fits found *)
(* on the first rung, further down, at half context and not at all.  Then  *)
(* memory systems with and without known bandwidths; a measurement at the  *)
(* quant most plans have, at more and fewer bits and of unknown quant; a   *)
(* factor that slows the formula and one that speeds it up; and profiles   *)
(* that match what is asked for, that do not, and that are of another      *)
(* kind, with the least and the greatest prior.                            *)
(***************************************************************************)
EXTENDS Score

Box(cpu, vram, ram, unified) ==
    [cpu |-> cpu, vram |-> vram, ram |-> ram, reserve |-> 2048,
     unified |-> unified]

MCMachines ==
    {Box(TRUE, 0, ram, FALSE) : ram \in {1024, 4096, 8192, 16384, 65536}}
    \cup {Box(FALSE, vram, ram, FALSE) :
            vram \in {0, 6144, 8192, 16384, 24576}, ram \in {8192, 32768}}
    \cup {Box(FALSE, (2 * ram) \div 3, ram, TRUE) : ram \in {8192, 32768}}
    \cup {Box(FALSE, 8192, U32 - 1, FALSE)}

Dense(params, ctx, quants) ==
    [params |-> params, active |-> 0, moe |-> FALSE, context |-> ctx,
     quants |-> quants, kvKib |-> None]

Sparse(params, active, ctx) ==
    [params |-> params, active |-> active, moe |-> TRUE, context |-> ctx,
     quants |-> {}, kvKib |-> None]

MCModels ==
    {Dense(p, c, {}) : p \in {494, 1800, 7000, 13000, 32000, 70000},
                       c \in {512, 2048, 8192, 32768, 131072}}
    \cup {Dense(7000, 8192, {4, 5}), [Dense(8000, 8192, {}) EXCEPT !.kvKib = 36],
          Dense(7000, 0, {})}
    \cup {Sparse(20900, 3600, 131072), Sparse(46700, 12900, 32768),
          Sparse(141000, 39000, 8192)}

Asked(ctx, width, moe, max) ==
    [context |-> ctx, kvWidth |-> width, moeOffload |-> moe, maxQuant |-> max]

MCOptions ==
    {Asked(None, 4, TRUE, Q8_0), Asked(None, 1, TRUE, F16),
     Asked(4096, 2, FALSE, Q8_0), Asked(700, 4, TRUE, 4)}

Memory(gpu, ram, tflops) == [gpu |-> gpu, ram |-> ram, tflops |-> tflops, constant |-> 220]

MCRates == {Memory(0, 0, 0), Memory(0, 800, 0), Memory(3360, 0, 5)}

Run(tps, quant) == [tps |-> tps, quant |-> quant]

MCMeasurements == {Run(390, 1), Run(390, 4), Run(390, None)}
MCFactors == {700}

MCProfiles ==
    {[prior |-> 0, useCase |-> "Chat"], [prior |-> 255, useCase |-> "Embedding"],
     [prior |-> 180, useCase |-> "Coding"]}
MCRequests == {None, "Reasoning"}

\* A sparse model on a small card: the experts park in RAM.
MoeMachines == {Box(FALSE, vram, 65536, FALSE) : vram \in {12288, 20480, 24576}}
MoeModels   == {Sparse(46700, 12900, 8192), Sparse(20900, 3600, 131072)}

DefaultOptions == {Asked(None, 4, TRUE, Q8_0)}

\* Models on either side of a power of two.
NearModels == {Dense(p, 8192, {}) : p \in {1000, 1540, 3900, 7900, 7990, 8000, 8030, 15900}}
=============================================================================
