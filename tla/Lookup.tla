------------------------------- MODULE Lookup -------------------------------
(***************************************************************************)
(* From an image and a word to a measurement: the catalog is opened        *)
(* (module CatalogImage), Catalog::find walks its records for the model    *)
(* asked for, and the model's index and the machine's key are searched for *)
(* (module CatalogSearch), as `openchoice fit <model>` and the console's   *)
(* `fit` do (openchoice-core/src/catalog.rs; lib.rs, `evaluate_model`).    *)
(*                                                                         *)
(* A catalog is an image with the rows of its measurement section and the  *)
(* names of its records.  A name is a sequence of letters in lower case.   *)
(***************************************************************************)
EXTENDS CatalogSearch, Sequences

CONSTANTS
    Catalogs,   \* <<image, table, names>>
    Queries     \* the words a model is asked for by

\* A record has a name and an index that fits a key, and the rows of the
\* measurement section are as many as the header says.
ASSUME CatalogsAssumption ==
    \A c \in Catalogs :
        /\ c[2] \in Tables
        /\ c[2].count = c[1].count["measurements"]
        /\ DOMAIN c[3] = 1..c[1].count["records"]
        /\ c[1].count["records"] <= Span

VARIABLES
    names,      \* the names of the catalog's records, never changed
    query,      \* the word asked for, never changed
    finding,    \* "record", "name" or "found"
    cursor,     \* the record the walk is at
    partial,    \* the first record whose name contains the word
    model       \* the record find returned

imageVars == <<image, pc, error, bound, read>>
findVars == <<names, query, finding, cursor, partial, model>>
lookupVars == <<imageVars, searchVars, findVars>>

LookupInit ==
    /\ \E c \in Catalogs : image = c[1] /\ table = c[2] /\ names = c[3]
    /\ Init
    /\ needle \in Needles
    /\ progress = "idle" /\ lo = 0 /\ hi = 0 /\ found = None
    /\ query \in Queries
    /\ finding = "record"
    /\ cursor = 0
    /\ partial = None
    /\ model = None

-----------------------------------------------------------------------------
(***************************************************************************)
(* Catalog::find                                                           *)
(***************************************************************************)
Contains(name, word) ==
    \E k \in 1..(Len(name) + 1) :
        k + Len(word) - 1 <= Len(name) /\ SubSeq(name, k, k + Len(word) - 1) = word

\* find returns, and what it returns is looked up: nothing, when no model is.
Return(i) ==
    /\ model' = i
    /\ finding' = "found"
    /\ IF i = None THEN UNCHANGED searchVars
       ELSE /\ needle' = [needle EXCEPT !.index = i]
            /\ progress' = "search"
            /\ lo' = 0
            /\ hi' = table.count
            /\ UNCHANGED <<table, found>>
    /\ UNCHANGED <<names, query, cursor, partial>>

\* The iterator yields the record at the cursor.
Fetch ==
    /\ finding = "record"
    /\ Get(cursor)
    /\ finding' = "name"
    /\ UNCHANGED <<searchVars, names, query, cursor, partial, model>>

TheName == names[cursor + 1]

\* Model::name: from some offset in the table, up to a NUL or its end.  A
\* record whose offset is beyond the table has an empty name.
ReadsTheName ==
    \/ \E offset \in 0..(USize - 1) : Name(offset)
    \/ TheName = <<>> /\ UNCHANGED imageVars

\* Mutant: the first name that contains the word will do.
Exact_Contains ==
    /\ finding = "name" /\ ReadsTheName
    /\ Contains(TheName, query)
    /\ Return(cursor)

Exact ==
    /\ finding = "name" /\ ReadsTheName
    /\ TheName = query
    /\ Return(cursor)

\* The first name that contains the word is remembered.
NotExact ==
    /\ finding = "name" /\ ReadsTheName
    /\ TheName # query
    /\ partial' = IF partial = None /\ Contains(TheName, query) THEN cursor ELSE partial
    /\ cursor' = cursor + 1
    /\ finding' = "record"
    /\ UNCHANGED <<searchVars, names, query, model>>

\* The iterator is exhausted.
NoneExact ==
    /\ pc = "open"
    /\ finding = "record"
    /\ cursor >= image.count["records"]
    /\ Return(partial)
    /\ UNCHANGED imageVars

-----------------------------------------------------------------------------
(***************************************************************************)
(* Catalog::measurement, over the bytes of the section that was bound      *)
(***************************************************************************)
\* A probe reads the key of the middle row, and the rest of it on a hit.
Probe ==
    \/ (GoLeft \/ GoRight) /\ ProbeMeasurement(Mid, 8)
    \/ Hit /\ ProbeMeasurement(Mid, 15)

LookupNext ==
    \/ Refuse /\ UNCHANGED <<searchVars, findVars>>
    \/ Open /\ UNCHANGED <<searchVars, findVars>>
    \/ Fetch \/ Exact \/ NotExact \/ NoneExact
    \/ Probe /\ UNCHANGED findVars
    \/ Unidentified /\ UNCHANGED <<imageVars, findVars>>
    \/ Miss /\ UNCHANGED <<imageVars, findVars>>

\* Both loops run on one thread until they return.
LookupSpec == LookupInit /\ [][LookupNext]_lookupVars /\ WF_lookupVars(LookupNext)

-----------------------------------------------------------------------------
(***************************************************************************)
(* Properties                                                              *)
(***************************************************************************)

\* The model found is the first whose name is the word asked for, and failing
\* that the first whose name contains it: a longer name that sorts earlier
\* does not shadow it (catalog.rs:346-349).
FindPrefersTheExactName ==
    finding = "found" =>
        LET exact == {i \in DOMAIN names : names[i] = query}
            hits == IF exact = {} THEN {i \in DOMAIN names : Contains(names[i], query)} ELSE exact
        IN  IF hits = {} THEN model = None
            ELSE model + 1 \in hits /\ \A i \in hits : model + 1 <= i

Decided ==
    \/ pc = "refused"
    \/ finding = "found" /\ (model = None \/ progress = "done")

\* Every lookup ends: the image is refused, there is no such model, or the
\* search has its answer (catalog.rs:261-287, 350-362).
Answered == <>Decided
=============================================================================
