---------------------------- MODULE Leaderboard ----------------------------
(***************************************************************************)
(* What recommend promises, with no array, no shifting and no eviction:    *)
(* after every model of the catalog that has been looked at, the board is  *)
(* the first N of the best recommendation of each set of weights, ranked   *)
(* by RanksAbove, the one seen first ahead among equals.                   *)
(***************************************************************************)
EXTENDS Recommendation, Sequences, FiniteSets

CONSTANTS Entries,  \* the recommendations of the catalog's models
          N,        \* the capacity of the board
          Filters   \* the filters a caller may ask for

VARIABLES filter,   \* the caller's filter, fixed for the whole pass
          visited,  \* the entries looked at so far, in catalog order
          board     \* the board, best first

vars == <<filter, visited, board>>

\* Position i of seq goes ahead of position j: better, or equal and earlier.
Ahead(seq, i, j) ==
    \/ RanksAbove(seq[i], seq[j])
    \/ ~RanksAbove(seq[j], seq[i]) /\ i < j

Admitted(seq) == {i \in DOMAIN seq : Admits(filter, seq[i])}

\* One position for each set of weights: the one ahead of all its repackages.
Representatives(seq) ==
    {i \in Admitted(seq) :
        \A j \in Admitted(seq) \ {i} :
            seq[j].weights = seq[i].weights => Ahead(seq, i, j)}

Place(seq, i) == Cardinality({j \in Representatives(seq) : Ahead(seq, j, i)}) + 1

BestOf(seq) ==
    LET Reps == Representatives(seq)
        Size == IF Cardinality(Reps) < N THEN Cardinality(Reps) ELSE N
    IN  [k \in 1..Size |-> seq[CHOOSE i \in Reps : Place(seq, i) = k]]

Init ==
    /\ filter \in Filters
    /\ visited = <<>>
    /\ board = <<>>

Visit(e) ==
    /\ \A i \in DOMAIN visited : visited[i] # e
    /\ visited' = Append(visited, e)
    /\ board' = BestOf(visited')
    /\ UNCHANGED filter

Next == \E e \in Entries : Visit(e)

Spec == Init /\ [][Next]_vars
=============================================================================
