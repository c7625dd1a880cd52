------------------------------ MODULE MCPacker ------------------------------
(***************************************************************************)
(* Names 2 and 5 are repackages of one model; 4 begins like 3, is another  *)
(* release of it and is not of text; 1 is spelt like no submission of it.  *)
(* Parameters are counted in tenths of a million.                          *)
(*                                                                         *)
(* Six files: two submissions from each of two machines, one spelt two     *)
(* ways; one from nobody, and one that does not parse.  One model has five *)
(* results from a machine across two files, two as fast at different       *)
(* quants; some names match nothing.                                       *)
(***************************************************************************)
EXTENDS Packer

Org(org, name) == <<org, "/">> \o name
Llama == <<"meta", "-", "llama", "-", "3", ".", "1", "-", "8b">>
GptOss == <<"gpt", "-", "oss", "-", "20b">>
Qwen == <<"qwen3", "-", "8b">>

MCSpelling ==
    <<Org("meta-llama", Llama), Org("openai", GptOss), Org("qwen", Qwen),
      Org("qwen", Qwen \o <<"-", "2507">>), Org("unsloth", GptOss \o <<"-", "gguf">>)>>

MCEndsIn == {<<"iq3", "q3">>}

MCGlued == [qwen3 |-> <<"qwen", "3">>, llama3 |-> <<"llama", "3">>]

-----------------------------------------------------------------------------
Entry(name_, downloads_, params_) ==
    [name |-> name_, downloads |-> downloads_, params |-> params_, text |-> name_ # 4,
     moe |-> FALSE, active |-> 0, experts |-> None]

Sparse(name_, downloads_, params_, active_, experts_) ==
    [Entry(name_, downloads_, params_) EXCEPT
        !.moe = TRUE, !.active = active_, !.experts = experts_]

MCSources ==
    {<<>>,
     <<Entry(1, 5, 10), Entry(3, 9, 26), Entry(5, 5, 14), Entry(4, 7, 30)>>,
     <<Entry(5, 9, 10), Entry(3, 0, 9), Entry(2, 9, 10), Sparse(3, 9, 80, 0, 1)>>,
     <<Entry(1, 1, 15), Sparse(5, 3, 400, 4, 8), Entry(3, 1, 0), Entry(2, 2, 24),
       Sparse(3, 2, 20, 0, None), Sparse(4, 4, 20, 0, None)>>,
     <<Entry(0, 9, 50), Entry(1, 0, 5), Entry(3, 4, 20), Sparse(2, 6, 30, 0, 0)>>}

MCOptions ==
    [minDownloads : {0, 4}, allPipelines : BOOLEAN, top : {None, 0, 1, 2, 9}, community : {FALSE}]
    \cup [minDownloads : {0, 4}, allPipelines : BOOLEAN, top : {None, 1, 2}, community : {TRUE}]

-----------------------------------------------------------------------------
Big == "rtx 4090"
BigToo == "RTX 4090"
Small == "m3 max"
MCHwKey == [name \in {Big, BigToo, Small} |-> IF name = Small THEN 9 ELSE 7]
MCPaths == 1..6

Bench(model_, tps_, ttft_, predicted_) ==
    [model |-> model_, tps |-> tps_, ttft |-> ttft_, predicted |-> predicted_]

Sent(name_, results_) ==
    [submission |-> TRUE, name |-> name_, ram |-> 24, results |-> results_]

Pull(family, size) == <<family, ":", size>>
Overridden == <<"-", "gpu50", "-", "iq3", "_", "k", "_", "m">>

MCContents ==
    <<Sent(Big, <<Bench(Pull("qwen3", "8b"), 400, 100, 500),
                  Bench(<<"gpt", "-", "oss", ":", "20b">>, 100, 0, 200),
                  Bench(Qwen \o <<"-", "q4", "_", "k", "_", "m", ".", "gguf">>, 300, 900, 500)>>),
      Sent(BigToo, <<Bench(Org("mlx", Qwen \o <<"-", "8bit">>), 400, 120, 500),
                     Bench(Pull("qwen3", "8b") \o Overridden, 50, 110, 500),
                     Bench(Qwen \o <<"-", "q8", "_", "0">>, 30, 50, 0),
                     Bench(Org("qwen", Qwen), 200, 0, 500)>>),
      Sent(Small, <<Bench(GptOss, 80, 300, 8000),
                    Bench(Pull("qwen3", "8b"), 120, 0, 100),
                    Bench(Pull("qwen3", "8b"), 0, 0, 100)>>),
      [Sent(Small, <<Bench(Qwen, 9, 9, 9)>>) EXCEPT !.ram = 0],
      [Sent(None, <<>>) EXCEPT !.submission = FALSE],
      Sent(Small, <<Bench(GptOss \o <<"-", "mxfp4">>, 300, 40, 0),
                    Bench(<<"llama3", ".", "1", ":", "8b">>, 65536, 90000, 0),
                    Bench(Org("unsloth", GptOss \o <<"-", "bf16">>), 80, 0, 8000),
                    Bench(Qwen \o <<"-", "2507">>, 140, 70, 20),
                    Bench(Qwen \o <<"-", "fp16">>, 30, 60, 20)>>)>>
=============================================================================
