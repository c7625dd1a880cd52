------------------------------ MODULE MCShells ------------------------------
(***************************************************************************)
(* Four glyphs and lines of up to two: 21 lines, which between them say    *)
(* every command, with and without what it needs.  One accelerator is in   *)
(* the table and one is not.  Words are scaled down: U32 = 256 and         *)
(* U16Max = 100, so that 103 saturates a u16, exceeds the page bound and   *)
(* wraps when tflops multiplies it by ten.                                 *)
(*                                                                         *)
(* A command line has up to three arguments, a tool prints up to two       *)
(* lines, and a machine has less or more than the memory at which the      *)
(* operating system's share grows.                                         *)
(***************************************************************************)
EXTENDS Shells

CONSTANTS a, b, c, d, rtx, voodoo, mi300x, apple, amd

MCGlyphs == {a, b, c, d}
MCNumbers == {0, 103}
MCGpus == {rtx, voodoo, mi300x, apple, amd}
MCGpuTable == [g \in MCGpus |-> IF g = rtx THEN [bw |-> 10, tflops |-> 16]
                                  ELSE IF g = apple THEN [bw |-> 20, tflops |-> 8] ELSE None]
MCUseCases == {"coding"}

Says(verb, arg) == [verb |-> verb, arg |-> arg]

MCMeaning ==
    [l \in Lines |->
        CASE l = <<>>       -> Says("blank", None)
          [] l = <<a>>      -> Says("cpu", None)
          [] l = <<b>>      -> Says("go", None)
          [] l = <<c>>      -> Says("gpu", None)
          [] l = <<d>>      -> Says("unrecognised", None)
          [] l = <<a, a>>   -> Says("ram", 103)
          [] l = <<a, b>>   -> Says("ram", None)
          [] l = <<a, c>>   -> Says("vram", 103)
          [] l = <<a, d>>   -> Says("vram", 0)
          [] l = <<b, a>>   -> Says("bw", 103)
          [] l = <<b, b>>   -> Says("tflops", 103)
          [] l = <<b, c>>   -> Says("gpu", rtx)
          [] l = <<b, d>>   -> Says("gpu", voodoo)
          [] l = <<c, a>>   -> Says("limit", 103)
          [] l = <<c, b>>   -> Says("limit", 0)
          [] l = <<c, c>>   -> Says("use", "coding")
          [] l = <<c, d>>   -> Says("use", "any")
          [] l = <<d, a>>   -> Says("kv", "q8")
          [] l = <<d, b>>   -> Says("kv", None)
          [] l = <<d, c>>   -> Says("ctx", 103)
          [] l = <<d, d>>   -> Says("min", "good")]

MCTraits ==
    [g \in MCGpus |-> CASE g = mi300x -> {"short m", "radeon"}
                        [] g = apple  -> {"apple"}
                        [] g = amd    -> {"radeon"}
                        [] OTHER      -> {}]

MCArguments ==
    {<<"ram", 0>>, <<"ram", 103>>, <<"vram", 0>>, <<"vram", 103>>, <<"vram", None>>,
     <<"gpu", rtx>>, <<"gpu", voodoo>>, <<"gpu", mi300x>>, <<"gpu", apple>>,
     <<"context", 103>>, <<"use-case", "coding">>, <<"kv", "f16">>, <<"kv", "q8">>,
     <<"min-fit", "good">>, <<"only", "coding">>, <<"positional", "qwen">>,
     <<"unheard-of", None>>}

MCCards == {[name |-> rtx, mb |-> 24], [name |-> voodoo, mb |-> 232], [name |-> rtx, mb |-> None]}
MCRams == {16, 64}
=============================================================================
