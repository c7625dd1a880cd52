-------------------------------- MODULE TopN --------------------------------
(***************************************************************************)
(* recommend and the TopN collector (openchoice-core/src/lib.rs): one pass *)
(* over the catalog that keeps the best N recommendations in a fixed array,*)
(* one step per iteration of the loops of push and resort_from.            *)
(*                                                                         *)
(* The catalog is any sequence of distinct entries of Entries: the next    *)
(* model is chosen when the iterator yields it, and the iterator may end   *)
(* at any point.  `visited` records what it has yielded; only properties   *)
(* and the refinement read it.                                             *)
(***************************************************************************)
EXTENDS Recommendation, Sequences, FiniteSets

CONSTANTS Entries,  \* the recommendations of the catalog's models
          Names,    \* names of models
          Weights,  \* classes of names that denote the same weights
          N,        \* the capacity of the array, a const generic parameter
          Filters   \* the filters a caller may ask for

ASSUME EntriesAssumption ==
    /\ Entries \subseteq RecommendationOf(Names, Weights)
    /\ None \notin Entries
ASSUME CapacityAssumption == N \in Nat \ {0}
ASSUME FiltersAssumption == Filters \subseteq FilterType

VARIABLES filter,   \* the Filter recommend was called with
          visited,  \* the entries the catalog iterator has yielded
          pc,       \* where in recommend / push / resort_from control is
          items,    \* TopN::items
          len,      \* TopN::len
          at,       \* the local `at` of push and of resort_from
          rec       \* the recommendation being pushed

vars == <<filter, visited, pc, items, len, at, rec>>

Slots == 0..(N - 1)
Held  == 0..(len - 1)

\* TopN::find_same_weights: slot is the first held entry of rec's weights.
FindSameWeights(r, slot) ==
    /\ slot \in Held
    /\ items[slot].weights = r.weights
    /\ \A i \in Held : i < slot => items[i].weights # r.weights

\* Mutant: the search stops one slot short.
HoldsWeights_Short(r) == \E i \in 0..(len - 2) : items[i].weights = r.weights

HoldsWeights(r) == \E i \in Held : items[i].weights = r.weights

\* TopN::new.
Init ==
    /\ filter \in Filters
    /\ visited = <<>>
    /\ pc = "iterate"
    /\ items = [i \in Slots |-> None]
    /\ len = 0
    /\ at = 0
    /\ rec = None

\* The iterator of recommend yields e and evaluate_model scores it.
Yield(e) ==
    /\ pc = "iterate"
    /\ \A i \in DOMAIN visited : visited[i] # e
    /\ visited' = Append(visited, e)
    /\ UNCHANGED filter

\* recommend: the filter does not admit e.
Reject(e) ==
    /\ Yield(e)
    /\ ~Admits(filter, e)
    /\ UNCHANGED <<pc, items, len, at, rec>>

\* push: e repackages held weights and is no better than the incumbent.
Collapse(e) ==
    /\ Yield(e)
    /\ Admits(filter, e)
    /\ \E slot \in Slots :
          /\ FindSameWeights(e, slot)
          /\ ~RanksAbove(e, items[slot])
    /\ UNCHANGED <<pc, items, len, at, rec>>

\* Mutant: the incumbent is replaced and resort_from is not called.
Supersede_Unsorted(e) ==
    /\ Yield(e)
    /\ Admits(filter, e)
    /\ \E slot \in Slots :
          /\ FindSameWeights(e, slot)
          /\ RanksAbove(e, items[slot])
          /\ items' = [items EXCEPT ![slot] = e]
    /\ UNCHANGED <<pc, len, at, rec>>

\* push: e replaces the incumbent of its weights and calls resort_from.
Supersede(e) ==
    /\ Yield(e)
    /\ Admits(filter, e)
    /\ \E slot \in Slots :
          /\ FindSameWeights(e, slot)
          /\ RanksAbove(e, items[slot])
          /\ items' = [items EXCEPT ![slot] = e]
          /\ at' = slot
    /\ rec' = e
    /\ pc' = "resort"
    /\ UNCHANGED len

\* Mutant: a full array drops the entry without looking at its tail.
Drop_Unseen(e) ==
    /\ Yield(e)
    /\ Admits(filter, e)
    /\ ~HoldsWeights(e)
    /\ len = N
    /\ UNCHANGED <<pc, items, len, at, rec>>

\* push: the array is full and e does not beat its tail.
Drop(e) ==
    /\ Yield(e)
    /\ Admits(filter, e)
    /\ ~HoldsWeights(e)
    /\ len = N
    /\ ~RanksAbove(e, items[N - 1])
    /\ UNCHANGED <<pc, items, len, at, rec>>

\* push: e makes the cut; the insertion loop starts at the free slot, or at
\* the tail, which it evicts, when there is none.
Enter(e) ==
    /\ Yield(e)
    /\ Admits(filter, e)
    /\ ~HoldsWeights(e)
    /\ len = N => RanksAbove(e, items[N - 1])
    /\ at' = IF len < N THEN len ELSE N - 1
    /\ rec' = e
    /\ pc' = "insert"
    /\ UNCHANGED <<items, len>>

\* Mutant: the loop moves past its equals.
ShiftDown_PastEquals ==
    /\ pc = "insert"
    /\ at > 0
    /\ ~RanksAbove(items[at - 1], rec)
    /\ items' = [items EXCEPT ![at] = items[at - 1]]
    /\ at' = at - 1
    /\ UNCHANGED <<filter, visited, pc, len, rec>>

\* Mutant: the index is not decremented.
ShiftDown_Stuck ==
    /\ pc = "insert"
    /\ at > 0
    /\ RanksAbove(rec, items[at - 1])
    /\ items' = [items EXCEPT ![at] = items[at - 1]]
    /\ UNCHANGED <<filter, visited, pc, len, at, rec>>

\* One iteration of push's insertion loop.
ShiftDown ==
    /\ pc = "insert"
    /\ at > 0
    /\ RanksAbove(rec, items[at - 1])
    /\ items' = [items EXCEPT ![at] = items[at - 1]]
    /\ at' = at - 1
    /\ UNCHANGED <<filter, visited, pc, len, rec>>

\* Control returns to recommend's loop; the locals of push are dead.
Return ==
    /\ pc' = "iterate"
    /\ at' = 0
    /\ rec' = None

\* push: the insertion loop ends and the entry is stored.
Store ==
    /\ pc = "insert"
    /\ at > 0 => ~RanksAbove(rec, items[at - 1])
    /\ items' = [items EXCEPT ![at] = rec]
    /\ len' = IF len < N THEN len + 1 ELSE len
    /\ Return
    /\ UNCHANGED <<filter, visited>>

\* One iteration of resort_from's loop.
SwapUp ==
    /\ pc = "resort"
    /\ at > 0
    /\ RanksAbove(items[at], items[at - 1])
    /\ items' = [items EXCEPT ![at] = items[at - 1], ![at - 1] = items[at]]
    /\ at' = at - 1
    /\ UNCHANGED <<filter, visited, pc, len, rec>>

\* resort_from: the improved entry has found its place.
Settle ==
    /\ pc = "resort"
    /\ at > 0 => ~RanksAbove(items[at], items[at - 1])
    /\ Return
    /\ UNCHANGED <<filter, visited, items, len>>

\* The catalog is exhausted and recommend returns the collector.
Finish ==
    /\ pc = "iterate"
    /\ pc' = "done"
    /\ UNCHANGED <<filter, visited, items, len, at, rec>>

Step == ShiftDown \/ Store \/ SwapUp \/ Settle
Push(e) == Reject(e) \/ Collapse(e) \/ Supersede(e) \/ Drop(e) \/ Enter(e)

Next == (\E e \in Entries : Push(e)) \/ Step \/ Finish

Spec == Init /\ [][Next]_vars /\ WF_vars(Next)

-----------------------------------------------------------------------------
AtRest == pc \in {"iterate", "done"}

TypeOK ==
    /\ filter \in Filters
    /\ visited \in Seq(Entries)
    /\ pc \in {"iterate", "insert", "resort", "done"}
    /\ items \in [Slots -> Entries \cup {None}]
    /\ len \in 0..N
    /\ at \in Slots
    /\ rec \in Entries \cup {None}

(***************************************************************************)
(* The slots of the array that hold an entry of the board: while push is   *)
(* inserting, slot `at` holds a stale copy that the next store overwrites, *)
(* and the slots up to the free one, or to the tail, are in use.           *)
(***************************************************************************)
Live ==
    IF pc = "insert"
    THEN (0..(IF len < N THEN len ELSE N - 1)) \ {at}
    ELSE Held

\* Between two pushes the array is ranked best first, with no repackage of
\* the same weights twice (the doc comment of push: "Keeps the array sorted
\* best first ... repackages of weights already held are collapsed").
Sorted == AtRest => \A i, j \in Held : i < j => ~RanksAbove(items[j], items[i])

NoRepackages ==
    AtRest => \A i, j \in Held :
                 items[i].weights = items[j].weights => i = j

\* Whatever the array holds came out of the catalog and passed the filter,
\* in the middle of a push too: no step makes an entry up or keeps a hole.
OnlyAdmitted ==
    \A i \in Live :
       /\ items[i] # None
       /\ Admits(filter, items[i])
       /\ \E k \in DOMAIN visited : visited[k] = items[i]

\* Nothing that deserves a place was lost: an admitted entry is represented
\* by an entry of the same weights it does not outrank, or the array is full
\* of entries it does not outrank.
Represented(e) ==
    \E i \in Held : /\ items[i].weights = e.weights
                    /\ ~RanksAbove(e, items[i])
Outclassed(e) ==
    len = N /\ \A i \in Held : ~RanksAbove(e, items[i])

NothingBetterLost ==
    AtRest => \A k \in DOMAIN visited :
                 Admits(filter, visited[k]) =>
                     Represented(visited[k]) \/ Outclassed(visited[k])

\* The pass ends: neither loop of push runs for ever.
Termination == <>(pc = "done")

-----------------------------------------------------------------------------
(***************************************************************************)
(* Refinement.  The abstract board changes when push accepts the entry; in *)
(* the middle of a loop it is the live entries of the array with the one   *)
(* being pushed in the place the loop is looking for.                      *)
(***************************************************************************)
Others == [i \in 1..Cardinality(Live \ {at}) |->
              items[IF i - 1 < at THEN i - 1 ELSE i]]

Outranking == Cardinality({i \in DOMAIN Others : ~RanksAbove(rec, Others[i])})

Board ==
    IF AtRest
    THEN [i \in 1..len |-> items[i - 1]]
    ELSE SubSeq(Others, 1, Outranking) \o <<rec>>
            \o SubSeq(Others, Outranking + 1, Len(Others))

Abstract == INSTANCE Leaderboard WITH board <- Board

\* TopN implements the leaderboard: at every step the board is exactly the
\* first N of the ranked bests, or the step does not change the board.
ImplementsLeaderboard == Abstract!Init /\ [][Abstract!Next]_Abstract!vars
=============================================================================
