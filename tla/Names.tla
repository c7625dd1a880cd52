------------------------------- MODULE Names -------------------------------
(***************************************************************************)
(* The two ways this system says that two names are one model: the key a   *)
(* benchmark is matched under (openchoice-catalog/src/community.rs,        *)
(* `normalize_model`), and the weights a ranking lists once                *)
(* (openchoice-core/src/catalog.rs, `base_name` and `same_weights`); with  *)
(* the quantization a name says it was run at (`quant_from_name`).         *)
(*                                                                         *)
(* A name is the sequence of its lexemes in lower case, words and          *)
(* separators: "Qwen/Qwen3-8B" is <<"qwen", "/", "qwen3", "-", "8b">>.     *)
(* What the source asks of the letters of a word is a constant.            *)
(***************************************************************************)
EXTENDS Integers, Sequences, SequencesExt

CONSTANTS
    Glued,  \* split_family_version: the families it splits off, and into what
    Dates,  \* words of four digits
    Tags,   \* words that is_gpu_tag or is_ctx_tag recognises
    EndsIn, StartsWith  \* <<word, tag>>: words that end in, or start with, the
                        \* letters of a shorter one ("iq3" ends in "q3")

Separators == {"-", "_", ".", " ", ":"}

\* What follows the last slash.
AfterOrg(name) ==
    LET slashes == {0} \cup {k \in DOMAIN name : name[k] = "/"}
        last == CHOOSE k \in slashes : \A j \in slashes : j <= k
    IN  SubSeq(name, last + 1, Len(name))

-----------------------------------------------------------------------------
(***************************************************************************)
(* normalize_model                                                         *)
(***************************************************************************)
DropTokens ==
    {"q2", "q3", "q4", "q5", "q6", "q8", "k", "m", "s", "l", "f16", "fp16", "bf16", "f32",
     "mxfp4", "mxfp8", "nvfp4", "int4", "int8", "fp8", "4bit", "8bit", "gguf", "awq", "gptq",
     "exl2", "mlx", "bnb", "unsloth", "qat", "ud", "xl", "quantized", "instruct", "it", "chat",
     "sft", "dpo", "hf", "base", "text", "abliterated", "uncensored", "preview", "latest", "pt",
     "distill"}

TailMarkers == {"agent", "enfixed", "cpu"} \cup Tags

\* The words before the submitter's own serving configuration.
Described(words) ==
    SubSeq(words, 1, SelectInSeq(words \o <<"cpu">>, LAMBDA w : w \in TailMarkers) - 1)

\* split_family_version: three letters or more, then digits only.  Some of the
\* labels of DropTokens are spelt like that too.
GluedLabels ==
    [mxfp4 |-> <<"mxfp", "4">>, mxfp8 |-> <<"mxfp", "8">>, nvfp4 |-> <<"nvfp", "4">>,
     int4 |-> <<"int", "4">>, int8 |-> <<"int", "8">>, exl2 |-> <<"exl", "2">>]

SplitVersion(w) ==
    IF w \in DOMAIN Glued THEN Glued[w]
    ELSE IF w \in DOMAIN GluedLabels THEN GluedLabels[w]
    ELSE <<w>>

WithoutMeta(words) == IF IsPrefix(<<"meta", "llama">>, words) THEN Tail(words) ELSE words

\* Trailing release dates.
WithoutDates(words) ==
    SubSeq(words, 1, SelectLastInSeq(words, LAMBDA w : w \notin Dates))

\* The key: the words that are left.  A final ".gguf" is stripped before the
\* split, and would be dropped after it.
NormalizeModel(name) ==
    LET words == SelectSeq(AfterOrg(name), LAMBDA w : w \notin Separators)
        split == FlattenSeq([k \in DOMAIN Described(words) |-> SplitVersion(words[k])])
        kept  == SelectSeq(split, LAMBDA w : w \notin DropTokens)
    IN  WithoutDates(WithoutMeta(kept))

-----------------------------------------------------------------------------
(***************************************************************************)
(* quant_from_name                                                         *)
(***************************************************************************)
\* The needles in the order they are looked for, and the Quant each stands for.
QuantTags ==
    <<<<<<"q4", "_", "k", "_", "m">>, 4>>, <<<<"q4", "_", "k", "_", "s">>, 4>>,
      <<<<"q4", "_", "0">>, 4>>, <<<<"q4km">>, 4>>,
      <<<<"q5", "_", "k", "_", "m">>, 3>>, <<<<"q5", "_", "k">>, 3>>,
      <<<<"q6", "_", "k">>, 2>>, <<<<"q8", "_", "0">>, 1>>,
      <<<<"q3", "_", "k">>, 5>>, <<<<"q2", "_", "k">>, 6>>,
      <<<<"mxfp4">>, 4>>, <<<<"int4">>, 4>>, <<<<"4bit">>, 4>>, <<<<"8bit">>, 1>>,
      <<<<"bf16">>, 0>>, <<<<"fp16">>, 0>>, <<<<"f16">>, 0>>>>

\* `contains`: an occurrence may begin inside a word, and end inside one.
Occurs(needle, name) ==
    \E k \in 0..(Len(name) - Len(needle)) : \A i \in DOMAIN needle :
        \/ name[k + i] = needle[i]
        \/ i = 1 /\ <<name[k + i], needle[i]>> \in EndsIn
        \/ i = Len(needle) /\ <<name[k + i], needle[i]>> \in StartsWith

\* The first tag the name contains, or the default pull.
QuantFromName(name) ==
    LET tag == SelectInSeq(QuantTags, LAMBDA t : Occurs(t[1], name))
    IN  IF tag = 0 THEN 4 ELSE QuantTags[tag][2]

-----------------------------------------------------------------------------
(***************************************************************************)
(* base_name and same_weights                                              *)
(***************************************************************************)
\* The list's "-mxfp4-q8" is two of the others.
RepackageSuffixes ==
    {<<"-", w>> : w \in {"gguf", "awq", "gptq", "exl2", "mlx", "mxfp4", "bf16", "fp16", "fp8",
                         "int4", "int8", "4bit", "8bit", "q8", "q4", "bnb", "unsloth",
                         "quantized", "hf"}}

\* Suffixes stack: they are stripped until nothing more comes off, and never
\* the whole name.
BaseName(name) ==
    LET out == AfterOrg(name)
        stripped[n \in 0..Len(out)] ==
            LET ends == {s \in RepackageSuffixes :
                            Len(s) < n /\ IsSuffix(s, SubSeq(out, 1, n))}
            IN  IF ends = {} THEN n ELSE stripped[n - Len(CHOOSE s \in ends : TRUE)]
    IN  SubSeq(out, 1, stripped[Len(out)])

SameWeights(a, b) == BaseName(a) = BaseName(b)
=============================================================================
