---------------------------- MODULE TopN_proofs ----------------------------
(***************************************************************************)
(* Proofs about TopN for every catalog, filter and capacity N > 0: the     *)
(* types, and that between two pushes the array is ranked, free of         *)
(* repackages, made of admitted entries only, and has lost nothing that    *)
(* deserves a place.  The four hold together, by the inductive invariant   *)
(* IInv, which says what of them survives in the middle of each loop; with *)
(* it, that the pass implements the leaderboard, step by step.             *)
(***************************************************************************)
EXTENDS TopN, Data_proofs

(***************************************************************************)
(* The inductive invariant.                                                *)
(***************************************************************************)
\* The slot the insertion loop started from.
LastSlot == IF len < N THEN len ELSE N - 1

\* Ranked, leaving out the entry resort_from is still moving.
LiveSorted ==
    \A i, j \in Live : /\ i < j
                       /\ pc = "resort" => i # at /\ j # at
                       => ~RanksAbove(items[j], items[i])

LiveDistinct ==
    \A i, j \in Live : items[i].weights = items[j].weights => i = j

\* What the insertion loop knows of the entry it finds a place for.
Inserting ==
    pc = "insert" =>
        /\ rec \in Entries
        /\ Admits(filter, rec)
        /\ \E k \in DOMAIN visited : visited[k] = rec
        /\ at <= LastSlot
        /\ \A i \in Live : items[i].weights # rec.weights
        /\ \A i \in Live : at < i => RanksAbove(rec, items[i])

\* What resort_from knows of the entry it moves.
Resorting ==
    pc = "resort" =>
        /\ at \in Held
        /\ rec \in Entries
        /\ items[at] = rec
        /\ \A i \in Live : at < i => RanksAbove(items[at], items[i])

\* An entry that lost its place, or never had one, lost it to its betters.
Accounted(e) ==
    \/ \E i \in Live : items[i].weights = e.weights /\ ~RanksAbove(e, items[i])
    \/ pc = "insert" /\ rec.weights = e.weights /\ ~RanksAbove(e, rec)
    \/ /\ len = N
       /\ \A i \in Live : ~RanksAbove(e, items[i])
       /\ pc = "insert" => ~RanksAbove(e, rec)

AllAccounted ==
    \A k \in DOMAIN visited :
        Admits(filter, visited[k]) => Accounted(visited[k])

IInv ==
    /\ TypeOK
    /\ OnlyAdmitted
    /\ LiveSorted
    /\ LiveDistinct
    /\ Inserting
    /\ Resorting
    /\ AllAccounted

-----------------------------------------------------------------------------
(***************************************************************************)
(* RanksAbove is a strict weak order: what every sorting step relies on.   *)
(***************************************************************************)
LEMMA RanksAboveOrder ==
    ASSUME NEW a \in Entries, NEW b \in Entries, NEW c \in Entries
    PROVE  /\ ~RanksAbove(a, a)
           /\ RanksAbove(a, b) => ~RanksAbove(b, a)
           /\ ~RanksAbove(a, b) /\ ~RanksAbove(b, c) => ~RanksAbove(a, c)
           /\ RanksAbove(a, b) /\ ~RanksAbove(c, b) => RanksAbove(a, c)
           /\ ~RanksAbove(b, a) /\ RanksAbove(b, c) => RanksAbove(a, c)
<1>1. ASSUME NEW r \in Entries PROVE r.composite \in Int
  <2>1. r \in RecommendationOf(Names, Weights)
    BY EntriesAssumption
  <2>2. r.composite \in 0..MaxComposite
    BY <2>1 DEF RecommendationOf
  <2>3. QED
    BY <2>2
<1>2. QED
  BY <1>1 DEF RanksAbove, Runnable

\* What is known of the history after the iterator yields e.
LEMMA YieldFacts ==
    ASSUME TypeOK, NEW e \in Entries, Yield(e)
    PROVE  /\ visited' \in Seq(Entries)
           /\ \A k \in DOMAIN visited' :
                 visited'[k] = e \/ (k \in DOMAIN visited /\ visited'[k] = visited[k])
           /\ \A k \in DOMAIN visited :
                 k \in DOMAIN visited' /\ visited'[k] = visited[k]
           /\ \E k \in DOMAIN visited' : visited'[k] = e
BY DEF TypeOK, Yield

\* The live slots hold entries.
LEMMA LiveEntries ==
    ASSUME IInv
    PROVE  /\ Live \subseteq Slots
           /\ \A i \in Live : items[i] \in Entries
           /\ \A k \in DOMAIN visited : visited[k] \in Entries
<1>1. Live \subseteq Slots
  BY CapacityAssumption DEF IInv, TypeOK, Live, Slots, Held
<1>2. QED
  BY <1>1 DEF IInv, TypeOK, OnlyAdmitted

LEMMA InitInvariant == Init => IInv
<1> SUFFICES ASSUME Init PROVE IInv
  OBVIOUS
<1>1. TypeOK
  BY CapacityAssumption DEF Init, TypeOK, Slots
<1>2. Live = {} /\ DOMAIN visited = {} /\ pc = "iterate"
  BY DEF Init, Live, Held
<1>3. QED
  BY <1>1, <1>2 DEF IInv, OnlyAdmitted, LiveSorted, LiveDistinct, Inserting,
                    Resorting, AllAccounted

-----------------------------------------------------------------------------
(***************************************************************************)
(* The pushes that leave the array alone: only the history grows.          *)
(***************************************************************************)
LEMMA UntouchedInvariant ==
    ASSUME IInv, NEW e \in Entries, Yield(e),
           UNCHANGED <<pc, items, len, at, rec>>,
           Admits(filter, e) => Accounted(e)
    PROVE  IInv'
<1>1. pc = "iterate" /\ UNCHANGED <<filter, pc, items, len, at, rec>> /\ Live' = Live
  BY DEF Yield, Live, Held
<1>2. TypeOK'
  BY <1>1, YieldFacts DEF IInv, TypeOK
<1>3. OnlyAdmitted'
  BY <1>1, YieldFacts DEF IInv, OnlyAdmitted
<1>4. LiveSorted' /\ LiveDistinct' /\ Inserting' /\ Resorting'
  BY <1>1 DEF IInv, LiveSorted, LiveDistinct, Inserting, Resorting
<1>5. \A x \in Entries : Accounted(x) => Accounted(x)'
  BY <1>1 DEF Accounted
<1>6. AllAccounted'
  <2> SUFFICES ASSUME NEW k \in DOMAIN visited', NEW x \in Entries,
                      x = visited'[k], Admits(filter, x)
               PROVE  Accounted(x)'
    BY <1>1, <1>2 DEF AllAccounted, Accounted, TypeOK
  <2>1. CASE x = e
    BY <2>1, <1>5
  <2>2. CASE k \in DOMAIN visited /\ x = visited[k]
    BY <2>2, <1>5 DEF IInv, AllAccounted
  <2>3. QED
    BY <2>1, <2>2, YieldFacts DEF IInv
<1>7. QED
  BY <1>2, <1>3, <1>4, <1>6 DEF IInv

LEMMA RejectInvariant ==
    ASSUME IInv, NEW e \in Entries, Reject(e)
    PROVE  IInv'
BY UntouchedInvariant DEF Reject

LEMMA CollapseInvariant ==
    ASSUME IInv, NEW e \in Entries, Collapse(e)
    PROVE  IInv'
<1>1. Live = Held
  BY DEF Collapse, Yield, Live
<1>2. Accounted(e)
  BY <1>1 DEF Collapse, FindSameWeights, Accounted
<1>3. QED
  BY <1>2, UntouchedInvariant DEF Collapse

LEMMA DropInvariant ==
    ASSUME IInv, NEW e \in Entries, Drop(e)
    PROVE  IInv'
<1>1. Live = Held /\ pc = "iterate" /\ len = N
  BY DEF Drop, Yield, Live
<1>2. N - 1 \in Live
  BY <1>1, CapacityAssumption DEF Held
<1>3. ASSUME NEW i \in Live PROVE ~RanksAbove(e, items[i])
  <2>1. i = N - 1 \/ ~RanksAbove(items[N - 1], items[i])
    BY <1>1, <1>2, CapacityAssumption DEF IInv, LiveSorted, Held
  <2>2. items[i] \in Entries /\ items[N - 1] \in Entries
    BY <1>2, LiveEntries
  <2>3. ~RanksAbove(e, items[N - 1])
    BY DEF Drop
  <2>4. QED
    BY <2>1, <2>2, <2>3, RanksAboveOrder
<1>4. Accounted(e)
  BY <1>1, <1>3 DEF Accounted
<1>5. QED
  BY <1>4, UntouchedInvariant DEF Drop

-----------------------------------------------------------------------------
(***************************************************************************)
(* The insertion loop.                                                     *)
(***************************************************************************)
LEMMA EnterInvariant ==
    ASSUME IInv, NEW e \in Entries, Enter(e)
    PROVE  IInv'
<1>1. /\ pc = "iterate" /\ pc' = "insert" /\ rec' = e
      /\ UNCHANGED <<filter, items, len>>
      /\ Live = Held
      /\ len \in 0..N
      /\ Admits(filter, e)
      /\ at' = LastSlot /\ LastSlot' = LastSlot
  BY DEF Enter, Yield, Live, LastSlot, IInv, TypeOK, Held
<1>2. /\ Live' = Live \ {at'}
      /\ \A i \in Live' : i < at'
      /\ at' \in Slots
      /\ at' \in Live => len = N /\ at' = N - 1 /\ RanksAbove(e, items[N - 1])
      /\ \A i \in Live : i <= at'
  BY <1>1, CapacityAssumption DEF Live, Held, LastSlot, Slots, Enter
<1>3. TypeOK'
  BY <1>1, <1>2, YieldFacts DEF IInv, TypeOK, Enter
<1>4. OnlyAdmitted'
  BY <1>1, <1>2, YieldFacts DEF IInv, OnlyAdmitted, Enter
<1>5. LiveSorted' /\ LiveDistinct' /\ Resorting'
  BY <1>1, <1>2 DEF IInv, LiveSorted, LiveDistinct, Resorting
<1>6. Inserting'
  <2>1. \A i \in Live' : items[i].weights # e.weights
    BY <1>1, <1>2 DEF Enter, HoldsWeights
  <2>2. \A i \in Live' : ~(at' < i)
    BY <1>2, CapacityAssumption DEF Live, Slots, Held, IInv, TypeOK
  <2>3. at' <= LastSlot
    BY <1>1, CapacityAssumption DEF LastSlot
  <2>4. \E k \in DOMAIN visited' : visited'[k] = e
    BY YieldFacts DEF IInv, Enter
  <2>5. QED
    BY <1>1, <2>1, <2>2, <2>3, <2>4 DEF Inserting
<1>7. ASSUME NEW x \in Entries, Accounted(x) PROVE Accounted(x)'
  <2>1. CASE \E i \in Live' : items[i].weights = x.weights /\ ~RanksAbove(x, items[i])
    BY <2>1, <1>1 DEF Accounted
  <2>2. CASE at' \in Live /\ items[at'].weights = x.weights /\ ~RanksAbove(x, items[at'])
    \* x was represented by the entry the insertion evicts.
    <3>1. len = N /\ at' = N - 1 /\ RanksAbove(e, items[N - 1])
      BY <2>2, <1>2
    <3>2. items[N - 1] \in Entries
      BY <2>2, <3>1, LiveEntries
    <3>3. ~RanksAbove(x, e)
      BY <2>2, <3>1, <3>2, RanksAboveOrder
    <3>4. ASSUME NEW i \in Live' PROVE ~RanksAbove(x, items[i])
      <4>1. i \in Live /\ i < at' /\ items[i] \in Entries
        BY <1>2, LiveEntries
      <4>2. ~RanksAbove(items[at'], items[i])
        BY <4>1, <2>2, <1>1 DEF IInv, LiveSorted
      <4>3. QED
        BY <2>2, <3>1, <3>2, <4>1, <4>2, RanksAboveOrder
    <3>5. QED
      BY <1>1, <3>1, <3>3, <3>4 DEF Accounted
  <2>3. CASE len = N /\ \A i \in Live : ~RanksAbove(x, items[i])
    <3>1. at' \in Live /\ at' = N - 1 /\ RanksAbove(e, items[N - 1])
      BY <2>3, <1>1, CapacityAssumption DEF Held, LastSlot, Enter
    <3>2. items[N - 1] \in Entries
      BY <3>1, LiveEntries
    <3>3. ~RanksAbove(x, e)
      BY <2>3, <3>1, <3>2, RanksAboveOrder
    <3>4. QED
      BY <2>3, <3>3, <1>1, <1>2 DEF Accounted
  <2>4. QED
    BY <1>1, <1>2, <1>7, <2>1, <2>2, <2>3 DEF Accounted
<1>8. Accounted(e)'
  BY <1>1, RanksAboveOrder DEF Accounted
<1>9. AllAccounted'
  <2> SUFFICES ASSUME NEW k \in DOMAIN visited', NEW x \in Entries,
                      x = visited'[k], Admits(filter, x)
               PROVE  Accounted(x)'
    BY <1>1, <1>3 DEF AllAccounted, Accounted, TypeOK
  <2>1. CASE x = e
    BY <2>1, <1>8
  <2>2. CASE k \in DOMAIN visited /\ x = visited[k]
    BY <2>2, <1>7 DEF IInv, AllAccounted
  <2>3. QED
    BY <2>1, <2>2, YieldFacts DEF IInv, Enter
<1>10. QED
  BY <1>3, <1>4, <1>5, <1>6, <1>9 DEF IInv

\* The steps that look at no new entry leave the history alone.
LEMMA SameHistory ==
    ASSUME UNCHANGED <<filter, visited>>, IInv,
           \A x \in Entries : Accounted(x) => Accounted(x)'
    PROVE  AllAccounted'
BY LiveEntries DEF AllAccounted, IInv, Accounted

LEMMA ShiftDownInvariant ==
    ASSUME IInv, ShiftDown
    PROVE  IInv'
<1> DEFINE from == at - 1
<1>1. /\ pc = "insert" /\ pc' = "insert"
      /\ UNCHANGED <<filter, visited, len, rec>>
      /\ at > 0 /\ at' = from
      /\ items' = [items EXCEPT ![at] = items[from]]
      /\ RanksAbove(rec, items[from])
      /\ at \in Slots /\ len \in 0..N
      /\ items \in [Slots -> Entries \cup {None}]
      /\ rec \in Entries /\ at <= LastSlot
  BY DEF ShiftDown, IInv, TypeOK, Inserting
<1>2. /\ from \in Slots /\ from # at
      /\ from \in Live /\ at \notin Live
      /\ Live' = (Live \ {from}) \cup {at}
      /\ Live' \subseteq Slots /\ Live \subseteq Slots
      /\ items'[at] = items[from]
      /\ \A i \in Live' : i # at => i \in Live /\ items'[i] = items[i]
  BY <1>1, CapacityAssumption DEF Live, Slots, LastSlot
<1>3. items[from] \in Entries
  BY <1>2, LiveEntries
<1>4. TypeOK'
  BY <1>1, <1>2, <1>3 DEF IInv, TypeOK
<1>5. OnlyAdmitted'
  BY <1>1, <1>2, <1>3 DEF IInv, OnlyAdmitted
<1>6. LiveSorted'
  <2> SUFFICES ASSUME NEW i \in Live', NEW j \in Live', i < j
               PROVE  ~RanksAbove(items'[j], items'[i])
    BY DEF LiveSorted
  <2>1. CASE i = at
    BY <2>1, <1>1, <1>2 DEF IInv, LiveSorted, Slots
  <2>2. CASE j = at
    BY <2>2, <1>1, <1>2 DEF IInv, LiveSorted, Slots
  <2>3. CASE i # at /\ j # at
    BY <2>3, <1>1, <1>2 DEF IInv, LiveSorted
  <2>4. QED
    BY <2>1, <2>2, <2>3
<1>7. LiveDistinct'
  BY <1>1, <1>2 DEF IInv, LiveDistinct
<1>8. Inserting'
  <2>1. \A i \in Live' : from < i => RanksAbove(rec, items'[i])
    BY <1>1, <1>2 DEF IInv, Inserting, Slots
  <2>2. \A i \in Live' : items'[i].weights # rec.weights
    BY <1>1, <1>2 DEF IInv, Inserting
  <2>3. LastSlot' = LastSlot /\ from <= LastSlot
    BY <1>1, CapacityAssumption DEF LastSlot, Slots
  <2>4. QED
    BY <1>1, <2>1, <2>2, <2>3 DEF IInv, Inserting
<1>9. Resorting'
  BY <1>1 DEF Resorting
<1>10. ASSUME NEW x \in Entries, Accounted(x) PROVE Accounted(x)'
  BY <1>1, <1>2, <1>10 DEF Accounted
<1>11. QED
  BY <1>1, <1>4, <1>5, <1>6, <1>7, <1>8, <1>9, <1>10, SameHistory DEF IInv

LEMMA StoreInvariant ==
    ASSUME IInv, Store
    PROVE  IInv'
<1>1. /\ pc = "insert" /\ pc' = "iterate"
      /\ UNCHANGED <<filter, visited>>
      /\ at' = 0 /\ rec' = None
      /\ items' = [items EXCEPT ![at] = rec]
      /\ len' = IF len < N THEN len + 1 ELSE len
      /\ at \in Slots /\ len \in 0..N
      /\ items \in [Slots -> Entries \cup {None}]
      /\ rec \in Entries /\ at <= LastSlot
  BY DEF Store, Return, IInv, TypeOK, Inserting
<1>2. /\ Live' = Live \cup {at}
      /\ at \notin Live /\ Live \subseteq Slots
      /\ items'[at] = rec
      /\ \A i \in Live : items'[i] = items[i]
      /\ len = N => len' = N
  BY <1>1, CapacityAssumption DEF Live, Held, Slots, LastSlot
<1>3. TypeOK'
  BY <1>1, CapacityAssumption DEF IInv, TypeOK, Slots
<1>4. OnlyAdmitted'
  BY <1>1, <1>2, EntriesAssumption DEF IInv, OnlyAdmitted, Inserting
<1>5. LiveSorted'
  <2> SUFFICES ASSUME NEW i \in Live', NEW j \in Live', i < j
               PROVE  ~RanksAbove(items'[j], items'[i])
    BY DEF LiveSorted
  <2>1. CASE i # at /\ j # at
    BY <2>1, <1>1, <1>2 DEF IInv, LiveSorted
  <2>2. CASE i = at
    <3>1. j \in Live /\ RanksAbove(rec, items[j]) /\ items[j] \in Entries
      BY <2>2, <1>1, <1>2, LiveEntries DEF IInv, Inserting, Slots
    <3>2. QED
      BY <2>2, <3>1, <1>1, <1>2, RanksAboveOrder
  <2>3. CASE j = at
    \* The loop stopped because the entry before `at` is not outranked.
    <3>1. /\ i \in Live /\ at > 0 /\ i <= at - 1 /\ items[i] \in Entries
      BY <2>3, <1>1, <1>2, LiveEntries DEF Slots
    <3>2. at - 1 \in Live /\ items[at - 1] \in Entries
      <4>1. at - 1 \in Live
        BY <3>1, <1>1, CapacityAssumption DEF Live, LastSlot, Slots
      <4>2. QED
        BY <4>1, LiveEntries
    <3>3. ~RanksAbove(rec, items[at - 1])
      BY <3>1 DEF Store
    <3>4. i = at - 1 \/ ~RanksAbove(items[at - 1], items[i])
      BY <3>1, <3>2, <1>1, <1>2 DEF IInv, LiveSorted, Slots
    <3>5. ~RanksAbove(rec, items[i])
      BY <3>1, <3>2, <3>3, <3>4, <1>1, RanksAboveOrder
    <3>6. QED
      BY <2>3, <3>1, <3>5, <1>2
  <2>4. QED
    BY <2>1, <2>2, <2>3
<1>6. LiveDistinct'
  BY <1>1, <1>2 DEF IInv, LiveDistinct, Inserting
<1>7. Inserting' /\ Resorting'
  BY <1>1 DEF Inserting, Resorting
<1>8. ASSUME NEW x \in Entries, Accounted(x) PROVE Accounted(x)'
  BY <1>1, <1>2, <1>8 DEF Accounted
<1>9. QED
  BY <1>1, <1>3, <1>4, <1>5, <1>6, <1>7, <1>8, SameHistory DEF IInv

-----------------------------------------------------------------------------
(***************************************************************************)
(* Replacing an incumbent and bubbling it up.                              *)
(***************************************************************************)
LEMMA SupersedeInvariant ==
    ASSUME IInv, NEW e \in Entries, Supersede(e)
    PROVE  IInv'
<1>1. PICK slot \in Slots :
          /\ FindSameWeights(e, slot)
          /\ RanksAbove(e, items[slot])
          /\ items' = [items EXCEPT ![slot] = e]
          /\ at' = slot
  BY DEF Supersede
<1>2. /\ pc = "iterate" /\ pc' = "resort" /\ rec' = e
      /\ UNCHANGED <<filter, len>>
      /\ Admits(filter, e)
      /\ Live = Held /\ Live' = Live /\ Held' = Held
      /\ len \in 0..N
      /\ items \in [Slots -> Entries \cup {None}]
  BY DEF Supersede, Yield, Live, Held, IInv, TypeOK
<1>3. /\ slot \in Live /\ Live \subseteq Slots
      /\ items[slot] \in Entries
      /\ items[slot].weights = e.weights
      /\ items'[slot] = e
      /\ \A i \in Live : i # slot => items'[i] = items[i]
  BY <1>1, <1>2, LiveEntries DEF FindSameWeights
<1>4. TypeOK'
  BY <1>1, <1>2, YieldFacts DEF IInv, TypeOK, Supersede
<1>5. OnlyAdmitted'
  BY <1>2, <1>3, YieldFacts, EntriesAssumption DEF IInv, OnlyAdmitted, Supersede
<1>6. LiveSorted' /\ LiveDistinct' /\ Inserting'
  BY <1>1, <1>2, <1>3 DEF IInv, LiveSorted, LiveDistinct, Inserting
<1>7. Resorting'
  <2>1. ASSUME NEW i \in Live, slot < i PROVE RanksAbove(e, items'[i])
    <3>1. ~RanksAbove(items[i], items[slot]) /\ items[i] \in Entries /\ i # slot
      BY <2>1, <1>2, <1>3, LiveEntries DEF IInv, LiveSorted, Slots
    <3>2. QED
      BY <3>1, <1>1, <1>3, RanksAboveOrder
  <2>2. QED
    BY <2>1, <1>1, <1>2, <1>3 DEF Resorting
<1>8. ASSUME NEW x \in Entries, Accounted(x) PROVE Accounted(x)'
  <2>1. ASSUME NEW i \in Live, ~RanksAbove(x, items[i]) PROVE ~RanksAbove(x, items'[i])
    <3>1. CASE i = slot
      BY <2>1, <3>1, <1>1, <1>3, RanksAboveOrder
    <3>2. QED
      BY <2>1, <3>1, <1>3
  <2>2. \A i \in Live : items'[i].weights = items[i].weights
    BY <1>3
  <2>3. QED
    BY <2>1, <2>2, <1>2, <1>8 DEF Accounted
<1>9. Accounted(e)'
  BY <1>2, <1>3, RanksAboveOrder DEF Accounted
<1>10. AllAccounted'
  <2> SUFFICES ASSUME NEW k \in DOMAIN visited', NEW x \in Entries,
                      x = visited'[k], Admits(filter, x)
               PROVE  Accounted(x)'
    BY <1>2, <1>4 DEF AllAccounted, Accounted, TypeOK
  <2>1. CASE x = e
    BY <2>1, <1>9
  <2>2. CASE k \in DOMAIN visited /\ x = visited[k]
    BY <2>2, <1>8 DEF IInv, AllAccounted
  <2>3. QED
    BY <2>1, <2>2, YieldFacts DEF IInv, Supersede
<1>11. QED
  BY <1>4, <1>5, <1>6, <1>7, <1>10 DEF IInv

LEMMA SwapUpInvariant ==
    ASSUME IInv, SwapUp
    PROVE  IInv'
<1> DEFINE to == at - 1
<1>1. /\ pc = "resort" /\ pc' = "resort"
      /\ UNCHANGED <<filter, visited, len, rec>>
      /\ at > 0 /\ at' = to
      /\ items' = [items EXCEPT ![at] = items[to], ![to] = items[at]]
      /\ RanksAbove(items[at], items[to])
      /\ at \in Slots /\ len \in 0..N
      /\ items \in [Slots -> Entries \cup {None}]
      /\ rec \in Entries /\ items[at] = rec
      /\ at \in Held /\ Live = Held /\ Live' = Held /\ Held' = Held
  BY DEF SwapUp, IInv, TypeOK, Resorting, Live, Held
<1>2. /\ to \in Slots /\ to # at /\ to < at
      /\ to \in Live /\ at \in Live /\ Live \subseteq Slots
      /\ items'[at] = items[to] /\ items'[to] = rec
      /\ \A i \in Live : i # at /\ i # to => items'[i] = items[i]
      /\ items[to] \in Entries
  BY <1>1, LiveEntries, CapacityAssumption DEF Held, Slots
<1>3. TypeOK'
  BY <1>1, <1>2 DEF IInv, TypeOK
<1>4. OnlyAdmitted'
  <2>1. ASSUME NEW i \in Live PROVE \E j \in Live : items'[i] = items[j]
    BY <1>1, <1>2
  <2>2. ASSUME NEW i \in Live
        PROVE  /\ items'[i] # None /\ Admits(filter, items'[i])
               /\ \E k \in DOMAIN visited : visited[k] = items'[i]
    <3>1. PICK j \in Live : items'[i] = items[j]
      BY <2>1
    <3>2. QED
      BY <3>1 DEF IInv, OnlyAdmitted
  <2>3. QED
    BY <2>2, <1>1 DEF OnlyAdmitted
<1>5. LiveSorted'
  <2> SUFFICES ASSUME NEW i \in Live, NEW j \in Live, i < j, i # to, j # to
               PROVE  ~RanksAbove(items'[j], items'[i])
    BY <1>1 DEF LiveSorted
  <2>1. CASE i = at
    BY <2>1, <1>1, <1>2 DEF IInv, LiveSorted, Slots
  <2>2. CASE j = at
    BY <2>2, <1>1, <1>2 DEF IInv, LiveSorted, Slots
  <2>3. CASE i # at /\ j # at
    BY <2>3, <1>1, <1>2 DEF IInv, LiveSorted
  <2>4. QED
    BY <2>1, <2>2, <2>3
<1>6. LiveDistinct'
  BY <1>1, <1>2 DEF IInv, LiveDistinct
<1>7. Inserting'
  BY <1>1 DEF Inserting
<1>8. Resorting'
  <2>1. ASSUME NEW i \in Live, to < i PROVE RanksAbove(rec, items'[i])
    <3>1. CASE i = at
      BY <3>1, <1>1, <1>2, RanksAboveOrder
    <3>2. CASE i # at
      BY <3>2, <2>1, <1>1, <1>2 DEF IInv, Resorting, Slots
    <3>3. QED
      BY <3>1, <3>2
  <2>2. QED
    BY <2>1, <1>1, <1>2 DEF Resorting
<1>9. ASSUME NEW x \in Entries, Accounted(x) PROVE Accounted(x)'
  <2>1. \A i \in Live : \E j \in Live : items'[i] = items[j]
    BY <1>1, <1>2
  <2>2. \A i \in Live : \E j \in Live : items'[j] = items[i]
    BY <1>1, <1>2
  <2>3. CASE \E i \in Live : items[i].weights = x.weights /\ ~RanksAbove(x, items[i])
    <3>1. PICK i \in Live : items[i].weights = x.weights /\ ~RanksAbove(x, items[i])
      BY <2>3
    <3>2. PICK j \in Live : items'[j] = items[i]
      BY <2>2
    <3>3. QED
      BY <3>1, <3>2, <1>1 DEF Accounted
  <2>4. CASE len = N /\ \A i \in Live : ~RanksAbove(x, items[i])
    <3>1. \A i \in Live : ~RanksAbove(x, items'[i])
      BY <2>1, <2>4
    <3>2. QED
      BY <2>4, <3>1, <1>1 DEF Accounted
  <2>5. QED
    BY <2>3, <2>4, <1>1, <1>9 DEF Accounted
<1>10. QED
  BY <1>1, <1>3, <1>4, <1>5, <1>6, <1>7, <1>8, <1>9, SameHistory DEF IInv

LEMMA SettleInvariant ==
    ASSUME IInv, Settle
    PROVE  IInv'
<1>1. /\ pc = "resort" /\ pc' = "iterate"
      /\ UNCHANGED <<filter, visited, items, len>>
      /\ at' = 0 /\ rec' = None
      /\ at \in Live /\ Live = Held /\ Live' = Live /\ Live \subseteq Slots
      /\ at \in Slots
  BY LiveEntries DEF Settle, Return, IInv, TypeOK, Resorting, Live, Held
<1>2. TypeOK'
  BY <1>1, CapacityAssumption DEF IInv, TypeOK, Slots
<1>3. OnlyAdmitted' /\ LiveDistinct' /\ Inserting' /\ Resorting'
  BY <1>1 DEF IInv, OnlyAdmitted, LiveDistinct, Inserting, Resorting
<1>4. LiveSorted'
  <2> SUFFICES ASSUME NEW i \in Live, NEW j \in Live, i < j
               PROVE  ~RanksAbove(items[j], items[i])
    BY <1>1 DEF LiveSorted
  <2>1. CASE i # at /\ j # at
    BY <2>1, <1>1 DEF IInv, LiveSorted
  <2>2. CASE i = at
    BY <2>2, <1>1, LiveEntries, RanksAboveOrder DEF IInv, Resorting
  <2>3. CASE j = at
    <3>1. at > 0 /\ at - 1 \in Live /\ i <= at - 1
      BY <2>3, <1>1 DEF Held, Slots, IInv, TypeOK
    <3>2. ~RanksAbove(items[at], items[at - 1])
      BY <3>1 DEF Settle
    <3>3. i = at - 1 \/ ~RanksAbove(items[at - 1], items[i])
      BY <3>1, <1>1 DEF IInv, LiveSorted, Slots
    <3>4. QED
      BY <2>3, <3>1, <3>2, <3>3, LiveEntries, RanksAboveOrder
  <2>4. QED
    BY <2>1, <2>2, <2>3
<1>5. ASSUME NEW x \in Entries, Accounted(x) PROVE Accounted(x)'
  BY <1>1, <1>5 DEF Accounted
<1>6. QED
  BY <1>1, <1>2, <1>3, <1>4, <1>5, SameHistory DEF IInv

LEMMA IdleInvariant ==
    ASSUME IInv, Finish \/ UNCHANGED vars
    PROVE  IInv'
<1>1. /\ UNCHANGED <<filter, visited, items, len, at, rec>> /\ Live' = Live
      /\ pc' = "insert" <=> pc = "insert"
      /\ pc' = "resort" <=> pc = "resort"
  BY DEF Finish, vars, Live, Held
<1>2. TypeOK'
  BY <1>1 DEF IInv, TypeOK, Finish, vars
<1>3. OnlyAdmitted' /\ LiveSorted' /\ LiveDistinct' /\ Inserting' /\ Resorting'
  BY <1>1 DEF IInv, OnlyAdmitted, LiveSorted, LiveDistinct, Inserting,
              Resorting, LastSlot, Held
<1>4. ASSUME NEW x \in Entries, Accounted(x) PROVE Accounted(x)'
  BY <1>1, <1>4 DEF Accounted
<1>5. QED
  BY <1>1, <1>2, <1>3, <1>4, SameHistory DEF IInv

-----------------------------------------------------------------------------
LEMMA NextInvariant == IInv /\ [Next]_vars => IInv'
<1> SUFFICES ASSUME IInv, [Next]_vars PROVE IInv'
  OBVIOUS
<1>1. ASSUME NEW e \in Entries, Push(e) PROVE IInv'
  BY <1>1, RejectInvariant, CollapseInvariant, SupersedeInvariant,
     DropInvariant, EnterInvariant DEF Push
<1>2. CASE Step
  BY <1>2, ShiftDownInvariant, StoreInvariant, SwapUpInvariant, SettleInvariant
     DEF Step
<1>3. CASE Finish \/ UNCHANGED vars
  BY <1>3, IdleInvariant
<1>4. QED
  BY <1>1, <1>2, <1>3 DEF Next

\* The inductive invariant holds of every pass over every catalog.
THEOREM Invariant == Spec => []IInv
<1>1. Init => IInv
  BY InitInvariant
<1>2. IInv /\ [Next]_vars => IInv'
  BY NextInvariant
<1>3. QED
  BY <1>1, <1>2, PTL DEF Spec

\* The array, its length and the loop indices never leave their ranges: no
\* subscript of push or resort_from is out of bounds.
THEOREM TypeCorrect == Spec => []TypeOK
<1>1. IInv => TypeOK
  BY DEF IInv
<1>2. QED
  BY <1>1, Invariant, PTL

\* Between two pushes the array is ranked best first.
THEOREM AlwaysSorted == Spec => []Sorted
<1>1. IInv => Sorted
  BY DEF IInv, LiveSorted, Sorted, AtRest, Live
<1>2. QED
  BY <1>1, Invariant, PTL

\* Between two pushes no weights are held twice.
THEOREM NeverRepackages == Spec => []NoRepackages
<1>1. IInv => NoRepackages
  BY DEF IInv, LiveDistinct, NoRepackages, AtRest, Live
<1>2. QED
  BY <1>1, Invariant, PTL

\* Every entry of the board came from the catalog and passed the filter.
THEOREM AlwaysAdmitted == Spec => []OnlyAdmitted
<1>1. IInv => OnlyAdmitted
  BY DEF IInv
<1>2. QED
  BY <1>1, Invariant, PTL

\* Nothing that deserves a place on the board is ever lost.
THEOREM NeverLosesTheBest == Spec => []NothingBetterLost
<1>1. IInv => NothingBetterLost
  BY DEF IInv, AllAccounted, Accounted, NothingBetterLost, AtRest, Live,
         Represented, Outclassed
<1>2. QED
  BY <1>1, Invariant, PTL

-----------------------------------------------------------------------------
(***************************************************************************)
(* The refinement.  The board is followed through the positions its        *)
(* entries have in the catalog: Ranked says of a list of positions that it *)
(* is one of N at most, in the stable order, of one position for each set  *)
(* of weights, and that every other admitted position is behind one of its *)
(* weights or behind all of a full list.  Such a list is the best there is *)
(* (BestIsRanked), and every push leads from one to the next.              *)
(***************************************************************************)
\* Position i of v goes ahead of position j.
Goes(v, i, j) ==
    \/ RanksAbove(v[i], v[j])
    \/ ~RanksAbove(v[j], v[i]) /\ i < j

Covered(p, l, v, i) ==
    \/ \E k \in 1..l : v[p[k]].weights = v[i].weights /\ (p[k] = i \/ Goes(v, p[k], i))
    \/ l = N /\ \A k \in 1..l : Goes(v, p[k], i)

Ranked(p, b, v) ==
    /\ Len(b) \in 0..N /\ DOMAIN b = 1..Len(b)
    /\ p \in [1..Len(b) -> DOMAIN v]
    /\ \A k \in 1..Len(b) : b[k] = v[p[k]] /\ Admits(filter, v[p[k]])
    /\ \A j, k \in 1..Len(b) : j < k => Goes(v, p[j], p[k])
    /\ \A j, k \in 1..Len(b) : v[p[j]].weights = v[p[k]].weights => j = k
    /\ \A i \in DOMAIN v : Admits(filter, v[i]) => Covered(p, Len(b), v, i)

LEMMA TheSameCardinality == \A S : Abstract!Cardinality(S) = Cardinality(S)
BY DEF Abstract!Cardinality, Cardinality

LEMMA TheSameOrder ==
    /\ \A v, i, j : Abstract!Ahead(v, i, j) <=> Goes(v, i, j)
    /\ \A f, r : Abstract!Admits(f, r) <=> Admits(f, r)
<1>1. \A a, b : Abstract!RanksAbove(a, b) <=> RanksAbove(a, b)
  BY DEF Abstract!RanksAbove, RanksAbove, Abstract!Runnable, Runnable, Abstract!TooTight, TooTight
<1>2. \A f, r : Abstract!Admits(f, r) <=> Admits(f, r)
  BY DEF Abstract!Admits, Admits, Abstract!Runnable, Runnable, Abstract!TooTight, TooTight
<1>3. QED
  BY <1>1, <1>2 DEF Abstract!Ahead, Goes

LEMMA GoesOrders ==
    \A v \in Seq(Entries) : \A i, j, k \in DOMAIN v :
        /\ ~Goes(v, i, i)
        /\ i # j => Goes(v, i, j) \/ Goes(v, j, i)
        /\ Goes(v, i, j) /\ Goes(v, j, k) => Goes(v, i, k)
<1> SUFFICES ASSUME NEW v \in Seq(Entries), NEW i \in DOMAIN v, NEW j \in DOMAIN v,
                    NEW k \in DOMAIN v
             PROVE  /\ ~Goes(v, i, i)
                    /\ i # j => Goes(v, i, j) \/ Goes(v, j, i)
                    /\ Goes(v, i, j) /\ Goes(v, j, k) => Goes(v, i, k)
  OBVIOUS
<1> DEFINE a == v[i]
           b == v[j]
           c == v[k]
<1>1. a \in Entries /\ b \in Entries /\ c \in Entries
  OBVIOUS
<1>2. i \in Nat /\ j \in Nat /\ k \in Nat
  OBVIOUS
<1>3. /\ Goes(v, i, i) <=> RanksAbove(a, a) \/ (~RanksAbove(a, a) /\ i < i)
      /\ Goes(v, i, j) <=> RanksAbove(a, b) \/ (~RanksAbove(b, a) /\ i < j)
      /\ Goes(v, j, i) <=> RanksAbove(b, a) \/ (~RanksAbove(a, b) /\ j < i)
      /\ Goes(v, j, k) <=> RanksAbove(b, c) \/ (~RanksAbove(c, b) /\ j < k)
      /\ Goes(v, i, k) <=> RanksAbove(a, c) \/ (~RanksAbove(c, a) /\ i < k)
  BY DEF Goes
<1> HIDE DEF a, b, c
<1>4. ~Goes(v, i, i) /\ (i # j => Goes(v, i, j) \/ Goes(v, j, i))
  BY <1>1, <1>2, <1>3, RanksAboveOrder
<1>5. Goes(v, i, j) /\ Goes(v, j, k) => Goes(v, i, k)
  <2>1. /\ RanksAbove(a, b) => ~RanksAbove(b, a)
        /\ RanksAbove(b, c) => ~RanksAbove(c, b)
        /\ RanksAbove(a, b) /\ ~RanksAbove(c, b) => RanksAbove(a, c)
        /\ ~RanksAbove(b, a) /\ RanksAbove(b, c) => RanksAbove(a, c)
        /\ ~RanksAbove(c, b) /\ ~RanksAbove(b, a) => ~RanksAbove(c, a)
    BY <1>1, RanksAboveOrder
  <2>2. i < j /\ j < k => i < k
    BY <1>2
  <2>3. QED
    BY <1>3, <2>1, <2>2
<1>6. QED
  BY <1>4, <1>5

LEMMA UpTo == \A n \in Nat : IsFiniteSet(1..n) /\ Cardinality(1..n) = n
<1> SUFFICES ASSUME NEW n \in Nat PROVE IsFiniteSet(1..n) /\ Cardinality(1..n) = n
  OBVIOUS
<1>1. IsFiniteSet(1..n) /\ Cardinality(1..n) = IF 1 > n THEN 0 ELSE n - 1 + 1
  BY FS_Interval
<1>2. QED
  BY <1>1

\* A ranked list is the first N of the representatives.
LEMMA BestIsRanked ==
    \A v \in Seq(Entries) : \A b, p : Ranked(p, b, v) /\ b \in Seq(Entries) => b = Abstract!BestOf(v)
<1> SUFFICES ASSUME NEW v \in Seq(Entries), NEW b \in Seq(Entries), NEW p, Ranked(p, b, v)
             PROVE  b = Abstract!BestOf(v)
  OBVIOUS
<1> DEFINE l == Len(b)
           Reps == Abstract!Representatives(v)
           InFront(i) == {j \in Reps : Abstract!Ahead(v, j, i)}
           Size == IF Cardinality(Reps) < N THEN Cardinality(Reps) ELSE N
<1>1. /\ l \in Nat /\ l <= N /\ N \in Nat
      /\ p \in [1..l -> DOMAIN v]
      /\ \A k \in 1..l : b[k] = v[p[k]] /\ Admits(filter, v[p[k]])
      /\ \A j, k \in 1..l : j < k => Goes(v, p[j], p[k])
      /\ \A j, k \in 1..l : v[p[j]].weights = v[p[k]].weights => j = k
      /\ \A i \in DOMAIN v : Admits(filter, v[i]) => Covered(p, l, v, i)
  BY CapacityAssumption DEF Ranked
<1>2. \A i : i \in Reps <=>
          /\ i \in DOMAIN v /\ Admits(filter, v[i])
          /\ \A j \in DOMAIN v : Admits(filter, v[j]) /\ j # i /\ v[j].weights = v[i].weights
                                 => Goes(v, i, j)
  BY TheSameOrder DEF Abstract!Representatives, Abstract!Admitted
<1>3. b = [k \in 1..l |-> b[k]]
  OBVIOUS
<1>4. \A i, j : j \in InFront(i) <=> j \in Reps /\ Goes(v, j, i)
  BY TheSameOrder
<1>5. \A i : Abstract!Place(v, i) = Cardinality(InFront(i)) + 1
  BY TheSameCardinality DEF Abstract!Place
<1>6. Abstract!BestOf(v) = [k \in 1..Size |-> v[CHOOSE i \in Reps : Abstract!Place(v, i) = k]]
  BY TheSameCardinality DEF Abstract!BestOf
<1> HIDE DEF l, Reps, InFront
<1>7. \A k \in 1..l : p[k] \in Reps
  <2> SUFFICES ASSUME NEW k \in 1..l, NEW j \in DOMAIN v, Admits(filter, v[j]), j # p[k],
                      v[j].weights = v[p[k]].weights
               PROVE  Goes(v, p[k], j)
    BY <1>1, <1>2
  <2>1. CASE l = N /\ \A m \in 1..l : Goes(v, p[m], j)
    BY <2>1
  <2>2. CASE \E m \in 1..l : v[p[m]].weights = v[j].weights /\ (p[m] = j \/ Goes(v, p[m], j))
    BY <1>1, <2>2
  <2>3. QED
    BY <1>1, <2>1, <2>2 DEF Covered
<1>8. ASSUME NEW i \in Reps, \A k \in 1..l : p[k] # i
      PROVE  l = N /\ \A k \in 1..l : Goes(v, p[k], i)
  <2>1. i \in DOMAIN v /\ Admits(filter, v[i])
    BY <1>2
  <2>2. ASSUME NEW k \in 1..l, v[p[k]].weights = v[i].weights, Goes(v, p[k], i)
        PROVE  FALSE
    <3>1. p[k] \in DOMAIN v /\ Admits(filter, v[p[k]]) /\ p[k] # i
      BY <1>1, <1>8
    <3>2. Goes(v, i, p[k])
      BY <1>2, <2>2, <3>1
    <3>3. QED
      BY <2>1, <2>2, <3>1, <3>2, GoesOrders
  <2>3. QED
    BY <1>1, <1>8, <2>1, <2>2 DEF Covered
<1>9. \A j, k \in 1..l : p[j] = p[k] => j = k
  BY <1>1
<1>10. IsFiniteSet(Reps)
  <2>1. Reps \in SUBSET (1..Len(v)) /\ Len(v) \in Nat
    BY <1>2
  <2>2. QED
    BY <2>1, UpTo, FS_Subset
<1>11. \A k \in 1..l : Abstract!Place(v, p[k]) = k
  <2> SUFFICES ASSUME NEW k \in 1..l PROVE Cardinality(InFront(p[k])) = k - 1
    BY <1>1, <1>5
  <2> DEFINE f == [m \in 1..(k - 1) |-> p[m]]
  <2>1. \A m \in 1..(k - 1) : m \in 1..l /\ m < k
    BY <1>1
  <2>2. f \in [1..(k - 1) -> InFront(p[k])]
    BY <1>1, <1>4, <1>7, <2>1
  <2>3. \A i, j \in 1..(k - 1) : f[i] = f[j] => i = j
    BY <1>9, <2>1
  <2>4. ASSUME NEW i \in InFront(p[k]) PROVE \E m \in 1..(k - 1) : f[m] = i
    <3>1. i \in Reps /\ Goes(v, i, p[k]) /\ i \in DOMAIN v /\ p[k] \in DOMAIN v
      BY <1>1, <1>2, <1>4
    <3>2. ~Goes(v, p[k], i)
      BY <3>1, GoesOrders
    <3>3. PICK m \in 1..l : p[m] = i
      BY <1>8, <3>1, <3>2
    <3>4. ~(k <= m)
      BY <1>1, <3>1, <3>2, <3>3, GoesOrders
    <3>5. m \in 1..(k - 1)
      BY <1>1, <3>4
    <3>6. QED
      BY <3>3, <3>5
  <2> HIDE DEF f
  <2>5. f \in Bijection(1..(k - 1), InFront(p[k]))
    BY <2>2, <2>3, <2>4 DEF Bijection, Injection, Surjection, IsInjective
  <2>6. k - 1 \in Nat
    BY <1>1
  <2>7. QED
    BY <2>5, <2>6, UpTo, FS_Bijection DEF ExistsBijection
<1>12. ASSUME NEW i \in Reps, \A k \in 1..l : p[k] # i
       PROVE  ~(Abstract!Place(v, i) <= l)
  <2>1. p \in [1..l -> InFront(i)]
    BY <1>1, <1>4, <1>7, <1>8, <1>12
  <2>2. p \in Injection(1..l, InFront(i))
    BY <1>9, <2>1 DEF Injection, IsInjective
  <2>3. InFront(i) \in SUBSET Reps
    BY <1>4
  <2>4. IsFiniteSet(InFront(i))
    BY <1>10, <2>3, FS_Subset
  <2>5. l <= Cardinality(InFront(i))
    BY <1>1, <2>2, <2>4, UpTo, FS_Injection
  <2>6. Cardinality(InFront(i)) \in Nat
    BY <2>4, FS_CardinalityType
  <2>7. QED
    BY <1>1, <1>5, <2>5, <2>6
<1>13. Size = l
  <2>1. p \in Injection(1..l, Reps)
    BY <1>1, <1>7, <1>9 DEF Injection, IsInjective
  <2>2. l <= Cardinality(Reps) /\ Cardinality(Reps) \in Nat
    BY <1>1, <1>10, <2>1, UpTo, FS_Injection, FS_CardinalityType
  <2>3. CASE l = N
    BY <1>1, <2>2, <2>3
  <2>4. CASE l # N
    <3>1. \A i \in Reps : \E k \in 1..l : p[k] = i
      BY <1>8, <2>4
    <3>2. p \in Bijection(1..l, Reps)
      BY <2>1, <3>1 DEF Bijection, Injection, Surjection
    <3>3. Cardinality(Reps) = l
      BY <1>1, <3>2, UpTo, FS_Bijection DEF ExistsBijection
    <3>4. QED
      BY <1>1, <2>4, <3>3
  <2>5. QED
    BY <2>3, <2>4
<1>14. ASSUME NEW k \in 1..l
       PROVE  (CHOOSE i \in Reps : Abstract!Place(v, i) = k) = p[k]
  <2> DEFINE i == CHOOSE x \in Reps : Abstract!Place(v, x) = k
  <2>1. i \in Reps /\ Abstract!Place(v, i) = k
    BY <1>7, <1>11
  <2> HIDE DEF i
  <2>2. PICK m \in 1..l : p[m] = i
    BY <1>1, <1>12, <2>1
  <2>3. m = k
    BY <1>11, <2>1, <2>2
  <2>4. QED
    BY <2>2, <2>3 DEF i
<1>15. Abstract!BestOf(v) = [k \in 1..l |-> v[CHOOSE i \in Reps : Abstract!Place(v, i) = k]]
  BY <1>6, <1>13
<1>16. ASSUME NEW k \in 1..l
       PROVE  v[CHOOSE i \in Reps : Abstract!Place(v, i) = k] = b[k]
  BY <1>1, <1>14, Zenon
<1>17. QED
  BY <1>3, <1>15, <1>16

(***************************************************************************)
(* Inserting an entry in a ranked list.                                    *)
(***************************************************************************)
PlaceOf(s, e) == Cardinality({i \in DOMAIN s : ~RanksAbove(e, s[i])})

Inserted(s, e) == SubSeq(s, 1, PlaceOf(s, e)) \o <<e>> \o SubSeq(s, PlaceOf(s, e) + 1, Len(s))

Descending(s) ==
    /\ s \in Seq(Entries)
    /\ \A i, j \in 1..Len(s) : i < j => ~RanksAbove(s[j], s[i])

\* The place counted parts what e does not outrank from what it does.
LEMMA PlaceParts ==
    \A s : Descending(s) => \A e \in Entries :
        /\ PlaceOf(s, e) \in 0..Len(s)
        /\ \A i \in 1..Len(s) : i <= PlaceOf(s, e) <=> ~RanksAbove(e, s[i])
<1> SUFFICES ASSUME NEW s, Descending(s), NEW e \in Entries
             PROVE  /\ PlaceOf(s, e) \in 0..Len(s)
                    /\ \A i \in 1..Len(s) : i <= PlaceOf(s, e) <=> ~RanksAbove(e, s[i])
  OBVIOUS
<1> DEFINE n == Len(s)
           Before == {i \in DOMAIN s : ~RanksAbove(e, s[i])}
           Stops == {i \in 1..(n + 1) : i = n + 1 \/ RanksAbove(e, s[i])}
<1>1. /\ n \in Nat /\ DOMAIN s = 1..n
      /\ \A i \in 1..n : s[i] \in Entries
      /\ \A i, j \in 1..n : i < j => ~RanksAbove(s[j], s[i])
  BY DEF Descending
<1>2. n + 1 \in Stops /\ Stops \subseteq Nat
  BY <1>1
<1>3. PICK x \in Stops : \A y \in Stops : x <= y
  BY <1>2, LeastElement
<1>4. x \in 1..(n + 1) /\ (x = n + 1 \/ RanksAbove(e, s[x]))
  BY <1>3
<1>5. ASSUME NEW i \in 1..n PROVE i < x <=> ~RanksAbove(e, s[i])
  <2>1. CASE i < x
    <3>1. i \notin Stops
      BY <1>2, <1>3, <2>1
    <3>2. QED
      BY <1>1, <2>1, <3>1
  <2>2. CASE x = i
    BY <1>1, <1>4, <2>2
  <2>3. CASE x < i
    <3>1. x \in 1..n /\ RanksAbove(e, s[x]) /\ ~RanksAbove(s[i], s[x])
      BY <1>1, <1>4, <2>3
    <3>2. QED
      BY <1>1, <2>3, <3>1, RanksAboveOrder
  <2>4. QED
    BY <1>1, <1>4, <2>1, <2>2, <2>3
<1>6. Before = 1..(x - 1)
  BY <1>1, <1>4, <1>5
<1>7. PlaceOf(s, e) = x - 1
  <2>1. x - 1 \in Nat
    BY <1>1, <1>4
  <2>2. Cardinality(Before) = x - 1
    BY <1>6, <2>1, UpTo
  <2>3. QED
    BY <2>2 DEF PlaceOf
<1> HIDE DEF Before, Stops
<1>8. QED
  BY <1>1, <1>4, <1>5, <1>7

\* Position by position, the list with e in it.
LEMMA InsertedIs ==
    \A s : Descending(s) => \A e \in Entries :
        /\ Inserted(s, e) \in Seq(Entries)
        /\ Len(Inserted(s, e)) = Len(s) + 1
        /\ \A k \in 1..(Len(s) + 1) :
              Inserted(s, e)[k] = IF k <= PlaceOf(s, e) THEN s[k]
                                  ELSE IF k = PlaceOf(s, e) + 1 THEN e ELSE s[k - 1]
<1> SUFFICES ASSUME NEW s, Descending(s), NEW e \in Entries
             PROVE  /\ Inserted(s, e) \in Seq(Entries)
                    /\ Len(Inserted(s, e)) = Len(s) + 1
                    /\ \A k \in 1..(Len(s) + 1) :
                          Inserted(s, e)[k] = IF k <= PlaceOf(s, e) THEN s[k]
                                              ELSE IF k = PlaceOf(s, e) + 1 THEN e ELSE s[k - 1]
  OBVIOUS
<1> DEFINE n == Len(s)
           o == PlaceOf(s, e)
           front == SubSeq(s, 1, o)
           back == SubSeq(s, o + 1, n)
           low == front \o <<e>>
<1>1. n \in Nat /\ o \in 0..n /\ s \in Seq(Entries)
  BY PlaceParts DEF Descending
<1>2. Inserted(s, e) = low \o back
  BY DEF Inserted
<1> HIDE DEF o
<1>3. front \in Seq(Entries) /\ Len(front) = o /\ \A k \in 1..o : front[k] = s[k]
  BY <1>1
<1>4. /\ back \in Seq(Entries) /\ Len(back) = n - o
      /\ \A k \in 1..(n - o) : back[k] = s[o + k]
  BY <1>1
<1> HIDE DEF front, back
<1>5. /\ low \in Seq(Entries) /\ Len(low) = o + 1 /\ low[o + 1] = e
      /\ \A k \in 1..o : low[k] = s[k]
  BY <1>1, <1>3
<1> HIDE DEF low, n
<1>6. (low \o back) \in Seq(Entries) /\ Len(low \o back) = n + 1
  BY <1>1, <1>4, <1>5
<1>7. ASSUME NEW k \in 1..(n + 1)
      PROVE  (low \o back)[k] = IF k <= o THEN s[k] ELSE IF k = o + 1 THEN e ELSE s[k - 1]
  <2>1. CASE k <= o + 1
    <3>1. (low \o back)[k] = low[k]
      BY <1>1, <1>4, <1>5, <2>1
    <3>2. QED
      BY <1>1, <1>5, <2>1, <3>1
  <2>2. CASE ~(k <= o + 1)
    <3>1. k - (o + 1) \in 1..(n - o) /\ o + (k - (o + 1)) = k - 1
      BY <1>1, <2>2
    <3>2. (low \o back)[k] = back[k - (o + 1)]
      BY <1>1, <1>4, <1>5, <2>2
    <3>3. QED
      BY <1>1, <1>4, <2>2, <3>1, <3>2
  <2>3. QED
    BY <2>1, <2>2
<1>8. QED
  BY <1>2, <1>6, <1>7 DEF o, n

\* A list that has e where it parts the others is the list with e inserted.
LEMMA InsertionIsUnique ==
    \A s : Descending(s) => \A e \in Entries : \A m \in 0..Len(s) : \A b :
        /\ \A i \in 1..Len(s) : i <= m => ~RanksAbove(e, s[i])
        /\ \A i \in 1..Len(s) : m < i => RanksAbove(e, s[i])
        /\ b = [k \in 1..(Len(s) + 1) |-> b[k]]
        /\ \A k \in 1..(Len(s) + 1) :
              b[k] = IF k <= m THEN s[k] ELSE IF k = m + 1 THEN e ELSE s[k - 1]
        => b = Inserted(s, e)
<1> SUFFICES ASSUME NEW s, Descending(s), NEW e \in Entries, NEW m \in 0..Len(s), NEW b,
                    \A i \in 1..Len(s) : i <= m => ~RanksAbove(e, s[i]),
                    \A i \in 1..Len(s) : m < i => RanksAbove(e, s[i]),
                    b = [k \in 1..(Len(s) + 1) |-> b[k]],
                    \A k \in 1..(Len(s) + 1) :
                       b[k] = IF k <= m THEN s[k] ELSE IF k = m + 1 THEN e ELSE s[k - 1]
             PROVE  b = Inserted(s, e)
  OBVIOUS
<1> DEFINE n == Len(s)
           o == PlaceOf(s, e)
           t == Inserted(s, e)
<1>1. n \in Nat /\ o \in 0..n /\ \A i \in 1..n : i <= o <=> ~RanksAbove(e, s[i])
  BY PlaceParts DEF Descending
<1>2. /\ t \in Seq(Entries) /\ Len(t) = n + 1
      /\ \A k \in 1..(n + 1) :
            t[k] = IF k <= o THEN s[k] ELSE IF k = o + 1 THEN e ELSE s[k - 1]
  BY InsertedIs
<1> HIDE DEF o, t
<1>3. o = m
  <2>1. CASE o < m
    <3>1. o + 1 \in 1..n /\ o + 1 <= m /\ ~(o + 1 <= o)
      BY <1>1, <2>1
    <3>2. QED
      BY <1>1, <3>1
  <2>2. CASE m < o
    <3>1. m + 1 \in 1..n /\ m < m + 1 /\ m + 1 <= o
      BY <1>1, <2>2
    <3>2. QED
      BY <1>1, <3>1
  <2>3. QED
    BY <1>1, <2>1, <2>2
<1>4. t = [k \in 1..(n + 1) |-> t[k]]
  BY <1>1, <1>2
<1>5. \A k \in 1..(n + 1) : b[k] = t[k]
  BY <1>2, <1>3
<1>6. b = t
  BY <1>4, <1>5
<1>7. QED
  BY <1>6 DEF t

-----------------------------------------------------------------------------
(***************************************************************************)
(* What one more entry does to a ranked list.                              *)
(***************************************************************************)
\* The history with e at its end.
LEMMA Longer ==
    \A v \in Seq(Entries) : \A e \in Entries :
        /\ Append(v, e) \in Seq(Entries)
        /\ Len(v) \in Nat /\ DOMAIN v = 1..Len(v)
        /\ DOMAIN Append(v, e) = 1..(Len(v) + 1)
        /\ Append(v, e)[Len(v) + 1] = e
        /\ \A i \in DOMAIN v : /\ i \in DOMAIN Append(v, e)
                               /\ Append(v, e)[i] = v[i] /\ v[i] \in Entries
                               /\ i < Len(v) + 1
        /\ \A i, j \in DOMAIN v : Goes(Append(v, e), i, j) <=> Goes(v, i, j)
<1> SUFFICES ASSUME NEW v \in Seq(Entries), NEW e \in Entries
             PROVE  /\ Append(v, e) \in Seq(Entries)
                    /\ Len(v) \in Nat /\ DOMAIN v = 1..Len(v)
                    /\ DOMAIN Append(v, e) = 1..(Len(v) + 1)
                    /\ Append(v, e)[Len(v) + 1] = e
                    /\ \A i \in DOMAIN v : /\ i \in DOMAIN Append(v, e)
                                           /\ Append(v, e)[i] = v[i] /\ v[i] \in Entries
                                           /\ i < Len(v) + 1
                    /\ \A i, j \in DOMAIN v : Goes(Append(v, e), i, j) <=> Goes(v, i, j)
  OBVIOUS
<1>1. /\ Append(v, e) \in Seq(Entries)
      /\ Len(v) \in Nat /\ DOMAIN v = 1..Len(v)
      /\ DOMAIN Append(v, e) = 1..(Len(v) + 1)
      /\ Append(v, e)[Len(v) + 1] = e
      /\ \A i \in DOMAIN v : /\ i \in DOMAIN Append(v, e)
                             /\ Append(v, e)[i] = v[i] /\ v[i] \in Entries
                             /\ i < Len(v) + 1
  OBVIOUS
<1>2. \A i, j \in DOMAIN v : Goes(Append(v, e), i, j) <=> Goes(v, i, j)
  BY <1>1 DEF Goes
<1>3. QED
  BY <1>1, <1>2

\* An entry with no claim to a place leaves the list ranked.
LEMMA KeptRanked ==
    \A v \in Seq(Entries) : \A e \in Entries : \A b, p :
        /\ Ranked(p, b, v)
        /\ Admits(filter, e) =>
              \/ \E k \in 1..Len(b) : b[k].weights = e.weights /\ ~RanksAbove(e, b[k])
              \/ Len(b) = N /\ \A k \in 1..Len(b) : ~RanksAbove(e, b[k])
        => Ranked(p, b, Append(v, e))
<1> SUFFICES ASSUME NEW v \in Seq(Entries), NEW e \in Entries, NEW b, NEW p, Ranked(p, b, v),
                    Admits(filter, e) =>
                       \/ \E k \in 1..Len(b) : b[k].weights = e.weights /\ ~RanksAbove(e, b[k])
                       \/ Len(b) = N /\ \A k \in 1..Len(b) : ~RanksAbove(e, b[k])
             PROVE  Ranked(p, b, Append(v, e))
  OBVIOUS
<1> DEFINE l == Len(b)
           w == Append(v, e)
           n == Len(v) + 1
<1>1. /\ l \in 0..N /\ DOMAIN b = 1..l
      /\ p \in [1..l -> DOMAIN v]
      /\ \A k \in 1..l : b[k] = v[p[k]] /\ Admits(filter, v[p[k]])
      /\ \A j, k \in 1..l : j < k => Goes(v, p[j], p[k])
      /\ \A j, k \in 1..l : v[p[j]].weights = v[p[k]].weights => j = k
      /\ \A i \in DOMAIN v : Admits(filter, v[i]) => Covered(p, l, v, i)
  BY DEF Ranked
<1>2. /\ w[n] = e /\ DOMAIN w = (DOMAIN v) \cup {n}
      /\ \A i \in DOMAIN v : w[i] = v[i] /\ i < n
      /\ \A i, j \in DOMAIN v : Goes(w, i, j) <=> Goes(v, i, j)
  BY Longer
<1> HIDE DEF w, n, l
<1>3. \A k \in 1..l : p[k] \in DOMAIN v /\ w[p[k]] = b[k]
  BY <1>1, <1>2
<1>4. ASSUME NEW i \in DOMAIN v, Admits(filter, w[i]) PROVE Covered(p, l, w, i)
  <2>1. Covered(p, l, v, i)
    BY <1>1, <1>2, <1>4
  <2>2. CASE l = N /\ \A k \in 1..l : Goes(v, p[k], i)
    BY <1>2, <1>3, <2>2 DEF Covered
  <2>3. CASE \E k \in 1..l : v[p[k]].weights = v[i].weights /\ (p[k] = i \/ Goes(v, p[k], i))
    BY <1>2, <1>3, <2>3 DEF Covered
  <2>4. QED
    BY <2>1, <2>2, <2>3 DEF Covered
<1>5. ASSUME Admits(filter, e) PROVE Covered(p, l, w, n)
  <2>1. \A k \in 1..l : ~RanksAbove(e, b[k]) => Goes(w, p[k], n)
    BY <1>2, <1>3 DEF Goes
  <2>2. CASE \E k \in 1..l : b[k].weights = e.weights /\ ~RanksAbove(e, b[k])
    BY <1>2, <1>3, <2>1, <2>2 DEF Covered
  <2>3. CASE l = N /\ \A k \in 1..l : ~RanksAbove(e, b[k])
    BY <2>1, <2>3 DEF Covered
  <2>4. QED
    BY <1>5, <2>2, <2>3 DEF l
<1>6. p \in [1..l -> DOMAIN w]
  BY <1>1, <1>2
<1>7. \A k \in 1..l : b[k] = w[p[k]] /\ Admits(filter, w[p[k]])
  BY <1>1, <1>2, <1>3
<1>8. \A j, k \in 1..l : j < k => Goes(w, p[j], p[k])
  BY <1>1, <1>2, <1>3
<1>9. \A j, k \in 1..l : w[p[j]].weights = w[p[k]].weights => j = k
  BY <1>1, <1>2, <1>3
<1>10. \A i \in DOMAIN w : Admits(filter, w[i]) => Covered(p, l, w, i)
  BY <1>2, <1>4, <1>5
<1>11. Ranked(p, b, w)
  BY <1>1, <1>6, <1>7, <1>8, <1>9, <1>10 DEF Ranked, l
<1>12. QED
  BY <1>11 DEF w

\* s is b without its d-th entry, or all of b when d is past its end.
Without(s, b, d) ==
    /\ d \in 1..(Len(b) + 1)
    /\ s \in Seq(Entries)
    /\ Len(s) = IF d = Len(b) + 1 THEN Len(b) ELSE Len(b) - 1
    /\ \A i \in 1..Len(s) : s[i] = b[IF i < d THEN i ELSE i + 1]

\* e may take a place: there is room, or it is better than the entry that
\* leaves, which is the only one of its weights or the tail of a full list.
Deserves(e, b, d) ==
    /\ d = Len(b) + 1 => Len(b) < N
    /\ d \in 1..Len(b) =>
          RanksAbove(e, b[d]) /\ (b[d].weights = e.weights \/ (Len(b) = N /\ d = N))
    /\ \A k \in 1..Len(b) : k # d => b[k].weights # e.weights

LEMMA WithoutDescends ==
    \A v \in Seq(Entries) : \A b, p, s : \A d :
        Ranked(p, b, v) /\ Without(s, b, d) => Descending(s)
<1> SUFFICES ASSUME NEW v \in Seq(Entries), NEW b, NEW p, NEW s, NEW d,
                    Ranked(p, b, v), Without(s, b, d),
                    NEW i \in 1..Len(s), NEW j \in 1..Len(s), i < j
             PROVE  ~RanksAbove(s[j], s[i])
  BY DEF Descending, Without
<1> DEFINE ii == IF i < d THEN i ELSE i + 1
           jj == IF j < d THEN j ELSE j + 1
<1>1. /\ Len(b) \in Nat
      /\ p \in [1..Len(b) -> DOMAIN v]
      /\ \A k \in 1..Len(b) : b[k] = v[p[k]]
      /\ \A x, y \in 1..Len(b) : x < y => Goes(v, p[x], p[y])
  BY CapacityAssumption DEF Ranked
<1>2. /\ d \in 1..(Len(b) + 1)
      /\ Len(s) = IF d = Len(b) + 1 THEN Len(b) ELSE Len(b) - 1
      /\ s[i] = b[ii] /\ s[j] = b[jj]
  BY DEF Without
<1>3. ii \in 1..Len(b) /\ jj \in 1..Len(b) /\ ii < jj
  <2>1. i \in Int /\ 1 <= i /\ j \in Int /\ j <= Len(s) /\ d \in Int /\ Len(s) \in Int /\ i < j
    BY <1>1, <1>2
  <2>2. IF j < d THEN j <= Len(b) ELSE j + 1 <= Len(b)
    BY <1>1, <1>2, <2>1
  <2>3. QED
    BY <1>1, <2>1, <2>2
<1> HIDE DEF ii, jj
<1>4. Goes(v, p[ii], p[jj]) /\ v[p[ii]] \in Entries /\ v[p[jj]] \in Entries
  BY <1>1, <1>3
<1>5. ~RanksAbove(v[p[jj]], v[p[ii]])
  BY <1>4, RanksAboveOrder DEF Goes
<1>6. QED
  BY <1>1, <1>2, <1>3, <1>5

\* An entry that deserves a place is inserted into a list that stays ranked.
LEMMA InsertedRanked ==
    \A v \in Seq(Entries) : \A e \in Entries : \A b, p, s : \A d :
        /\ Ranked(p, b, v) /\ Without(s, b, d) /\ Deserves(e, b, d)
        /\ Admits(filter, e)
        => \E q : Ranked(q, Inserted(s, e), Append(v, e))
<1> SUFFICES ASSUME NEW v \in Seq(Entries), NEW e \in Entries, NEW b, NEW p, NEW s, NEW d,
                    Ranked(p, b, v), Without(s, b, d), Deserves(e, b, d),
                    Admits(filter, e)
             PROVE  \E q : Ranked(q, Inserted(s, e), Append(v, e))
  OBVIOUS
<1> DEFINE l == Len(b)
           m == Len(s)
           o == PlaceOf(s, e)
           t == Inserted(s, e)
           w == Append(v, e)
           n == Len(v) + 1
           r == [i \in 1..m |-> p[IF i < d THEN i ELSE i + 1]]
           q == [k \in 1..(m + 1) |-> IF k <= o THEN r[k] ELSE IF k = o + 1 THEN n ELSE r[k - 1]]
<1>1. /\ l \in 0..N /\ l \in Nat /\ DOMAIN b = 1..l
      /\ p \in [1..l -> DOMAIN v]
      /\ \A k \in 1..l : b[k] = v[p[k]] /\ Admits(filter, v[p[k]])
      /\ \A j, k \in 1..l : j < k => Goes(v, p[j], p[k])
      /\ \A j, k \in 1..l : v[p[j]].weights = v[p[k]].weights => j = k
      /\ \A i \in DOMAIN v : Admits(filter, v[i]) => Covered(p, l, v, i)
  BY CapacityAssumption DEF Ranked
<1>2. /\ w[n] = e /\ n \in Nat /\ DOMAIN w = (DOMAIN v) \cup {n}
      /\ \A i \in DOMAIN v : w[i] = v[i] /\ v[i] \in Entries /\ i < n /\ i \in Nat
      /\ \A i, j \in DOMAIN v : Goes(w, i, j) <=> Goes(v, i, j)
  BY Longer
<1>3. /\ d \in 1..(l + 1) /\ m \in Nat
      /\ m = IF d = l + 1 THEN l ELSE l - 1
      /\ \A i \in 1..m : s[i] = b[IF i < d THEN i ELSE i + 1]
  BY DEF Without
<1>4. Descending(s)
  BY WithoutDescends
<1>5. /\ o \in 0..m
      /\ \A i \in 1..m : i <= o <=> ~RanksAbove(e, s[i])
  BY <1>4, PlaceParts
<1>6. /\ t \in Seq(Entries) /\ Len(t) = m + 1
      /\ \A k \in 1..(m + 1) : t[k] = IF k <= o THEN s[k] ELSE IF k = o + 1 THEN e ELSE s[k - 1]
  BY <1>4, InsertedIs
<1>7. /\ d = l + 1 => l < N
      /\ d \in 1..l => RanksAbove(e, b[d]) /\ (b[d].weights = e.weights \/ (l = N /\ d = N))
      /\ \A k \in 1..l : k # d => b[k].weights # e.weights
  BY DEF Deserves
<1>8. r = [i \in 1..m |-> p[IF i < d THEN i ELSE i + 1]]
  OBVIOUS
<1>9. q = [k \in 1..(m + 1) |-> IF k <= o THEN r[k] ELSE IF k = o + 1 THEN n ELSE r[k - 1]]
  OBVIOUS
<1> HIDE DEF l, m, o, t, w, n, r, q
<1>10. /\ \A i \in 1..m : (IF i < d THEN i ELSE i + 1) \in 1..l
       /\ \A i \in 1..m : i \in Int
  BY <1>1, <1>3
<1>11. ASSUME NEW i \in 1..m
       PROVE  /\ r[i] \in DOMAIN v /\ s[i] = w[r[i]] /\ s[i] \in Entries
              /\ Admits(filter, s[i]) /\ s[i].weights # e.weights
              /\ r[i] = p[IF i < d THEN i ELSE i + 1]
  <2> DEFINE x == IF i < d THEN i ELSE i + 1
  <2>1. x \in 1..l /\ x # d
    BY <1>3, <1>10
  <2>2. r[i] = p[x] /\ s[i] = b[x]
    BY <1>3, <1>8
  <2> HIDE DEF x
  <2>3. p[x] \in DOMAIN v /\ b[x] = v[p[x]] /\ Admits(filter, v[p[x]]) /\ b[x].weights # e.weights
    BY <1>1, <1>7, <2>1
  <2>4. w[p[x]] = v[p[x]] /\ v[p[x]] \in Entries
    BY <1>2, <2>3
  <2>5. QED
    BY <2>2, <2>3, <2>4 DEF x
<1>12. \A i, j \in 1..m : i < j => Goes(w, r[i], r[j])
  <2> SUFFICES ASSUME NEW i \in 1..m, NEW j \in 1..m, i < j PROVE Goes(w, r[i], r[j])
    OBVIOUS
  <2> DEFINE x == IF i < d THEN i ELSE i + 1
             y == IF j < d THEN j ELSE j + 1
  <2>1. x \in 1..l /\ y \in 1..l /\ x < y
    BY <1>3, <1>10
  <2>2. r[i] = p[x] /\ r[j] = p[y]
    BY <1>11
  <2> HIDE DEF x, y
  <2>3. QED
    BY <1>1, <1>2, <2>1, <2>2
<1>13. \A i, j \in 1..m : s[i].weights = s[j].weights => i = j
  <2> SUFFICES ASSUME NEW i \in 1..m, NEW j \in 1..m, s[i].weights = s[j].weights PROVE i = j
    OBVIOUS
  <2> DEFINE x == IF i < d THEN i ELSE i + 1
             y == IF j < d THEN j ELSE j + 1
  <2>1. x \in 1..l /\ y \in 1..l /\ s[i] = b[x] /\ s[j] = b[y]
    BY <1>3, <1>10
  <2>2. x = y
    BY <1>1, <2>1
  <2>3. QED
    BY <1>3, <1>10, <2>2
<1>14. ASSUME NEW k \in 1..l, k # d PROVE \E i \in 1..m : r[i] = p[k]
  <2> DEFINE i == IF k < d THEN k ELSE k - 1
  <2>1. i \in 1..m /\ (IF i < d THEN i ELSE i + 1) = k
    BY <1>1, <1>3, <1>14
  <2>2. r[i] = p[k]
    BY <1>11, <2>1
  <2>3. QED
    BY <2>1, <2>2
<1>15. \* Each position of the new list is an old one or the new entry's.
       ASSUME NEW k \in 1..(m + 1)
       PROVE  \/ k = o + 1 /\ q[k] = n /\ t[k] = e
              \/ k <= o /\ k \in 1..m /\ q[k] = r[k] /\ t[k] = s[k]
              \/ k > o + 1 /\ k - 1 \in 1..m /\ q[k] = r[k - 1] /\ t[k] = s[k - 1]
  BY <1>3, <1>5, <1>6, <1>9
<1>16. /\ \A i \in 1..m : \E k \in 1..(m + 1) : q[k] = r[i]
       /\ o + 1 \in 1..(m + 1) /\ q[o + 1] = n
  <2>1. ASSUME NEW i \in 1..m PROVE \E k \in 1..(m + 1) : q[k] = r[i]
    <3>1. CASE i <= o
      BY <1>3, <1>5, <1>9, <3>1
    <3>2. CASE ~(i <= o)
      <4>1. i + 1 \in 1..(m + 1) /\ ~(i + 1 <= o) /\ i + 1 # o + 1 /\ (i + 1) - 1 = i
        BY <1>3, <1>5, <3>2
      <4>2. q[i + 1] = r[i]
        BY <1>9, <4>1
      <4>3. QED
        BY <4>1, <4>2
    <3>3. QED
      BY <3>1, <3>2
  <2>2. QED
    BY <1>3, <1>5, <1>9, <2>1
<1>17. Len(t) \in 0..N /\ DOMAIN t = 1..Len(t)
  BY <1>1, <1>3, <1>6, <1>7, CapacityAssumption
<1>18. q \in [1..(m + 1) -> DOMAIN w]
  <2>1. \A k \in 1..(m + 1) : q[k] \in DOMAIN w
    BY <1>2, <1>11, <1>15
  <2>2. QED
    BY <1>9, <2>1
<1>19. \A k \in 1..(m + 1) : t[k] = w[q[k]] /\ Admits(filter, w[q[k]])
  BY <1>2, <1>11, <1>15
<1>20. \A j, k \in 1..(m + 1) : j < k => Goes(w, q[j], q[k])
  <2> SUFFICES ASSUME NEW j \in 1..(m + 1), NEW k \in 1..(m + 1), j < k
               PROVE  Goes(w, q[j], q[k])
    OBVIOUS
  <2>1. CASE j = o + 1
    <3>1. k > o + 1 /\ k - 1 \in 1..m /\ q[k] = r[k - 1] /\ ~(k - 1 <= o) /\ q[j] = n
      BY <1>3, <1>5, <1>15, <2>1
    <3>2. RanksAbove(e, w[r[k - 1]])
      BY <1>5, <1>11, <3>1
    <3>3. QED
      BY <1>2, <3>1, <3>2 DEF Goes
  <2>2. CASE k = o + 1
    <3>1. j <= o /\ j \in 1..m /\ q[j] = r[j] /\ q[k] = n
      BY <1>3, <1>5, <1>15, <2>2
    <3>2. ~RanksAbove(e, w[r[j]]) /\ r[j] < n
      BY <1>2, <1>5, <1>11, <3>1
    <3>3. QED
      BY <1>2, <3>1, <3>2 DEF Goes
  <2>3. CASE j # o + 1 /\ k # o + 1
    <3>1. PICK x \in 1..m, y \in 1..m : q[j] = r[x] /\ q[k] = r[y] /\ x < y
      <4>1. \/ j <= o /\ k <= o
            \/ j <= o /\ k > o + 1
            \/ j > o + 1 /\ k > o + 1
        BY <1>3, <1>5, <2>3
      <4>2. \/ j \in 1..m /\ k \in 1..m /\ q[j] = r[j] /\ q[k] = r[k]
            \/ j \in 1..m /\ k - 1 \in 1..m /\ q[j] = r[j] /\ q[k] = r[k - 1] /\ j < k - 1
            \/ j - 1 \in 1..m /\ k - 1 \in 1..m /\ q[j] = r[j - 1] /\ q[k] = r[k - 1] /\ j - 1 < k - 1
        BY <1>3, <1>5, <1>15, <4>1
      <4>3. QED
        BY <4>2
    <3>2. QED
      BY <1>12, <3>1
  <2>4. QED
    BY <2>1, <2>2, <2>3
<1>21. \A j, k \in 1..(m + 1) : t[j].weights = t[k].weights => j = k
  <2> SUFFICES ASSUME NEW j \in 1..(m + 1), NEW k \in 1..(m + 1), t[j].weights = t[k].weights
               PROVE  j = k
    OBVIOUS
  <2>1. CASE j = o + 1 \/ k = o + 1
    <3>1. ASSUME NEW x \in 1..(m + 1), x # o + 1 PROVE t[x].weights # e.weights
      <4>1. \E i \in 1..m : t[x] = s[i]
        BY <1>15, <3>1
      <4>2. QED
        BY <1>11, <4>1
    <3>2. t[o + 1] = e
      BY <1>6, <1>5, <1>16
    <3>3. QED
      BY <2>1, <3>1, <3>2
  <2>2. CASE j # o + 1 /\ k # o + 1
    <3> DEFINE x == IF j <= o THEN j ELSE j - 1
               y == IF k <= o THEN k ELSE k - 1
    <3>1. x \in 1..m /\ y \in 1..m /\ t[j] = s[x] /\ t[k] = s[y]
      BY <1>3, <1>5, <1>15, <2>2
    <3>2. x = y
      BY <1>13, <3>1
    <3>3. QED
      BY <1>3, <1>5, <2>2, <3>2
  <2>3. QED
    BY <2>1, <2>2
<1>22. \* What was behind the entry that leaves is behind the new one.
       ASSUME NEW i \in DOMAIN v, d \in 1..l, p[d] = i \/ Goes(v, p[d], i)
       PROVE  Goes(w, n, i)
  <2>1. p[d] \in DOMAIN v /\ v[p[d]] \in Entries /\ v[i] \in Entries /\ RanksAbove(e, v[p[d]])
    BY <1>1, <1>2, <1>7, <1>22
  <2>2. ~RanksAbove(v[i], v[p[d]])
    BY <1>22, <2>1, RanksAboveOrder DEF Goes
  <2>3. RanksAbove(e, v[i])
    BY <2>1, <2>2, RanksAboveOrder
  <2>4. QED
    BY <1>2, <2>3 DEF Goes
<1>23. ASSUME NEW i \in DOMAIN v, l = N, d \in 1..l, p[d] = i \/ Goes(v, p[d], i),
              \A k \in 1..l : k # d => Goes(v, p[k], i)
       PROVE  Covered(q, m + 1, w, i)
  <2>1. m + 1 = N
    BY <1>1, <1>3, <1>23
  <2>2. ASSUME NEW x \in 1..m PROVE Goes(w, r[x], i)
    <3> DEFINE k == IF x < d THEN x ELSE x + 1
    <3>1. k \in 1..l /\ k # d
      BY <1>3, <1>10
    <3>2. r[x] = p[k]
      BY <1>11
    <3> HIDE DEF k
    <3>3. QED
      BY <1>1, <1>2, <1>23, <3>1, <3>2
  <2>3. \A k \in 1..(m + 1) : Goes(w, q[k], i)
    BY <1>15, <1>22, <1>23, <2>2
  <2>4. QED
    BY <2>1, <2>3 DEF Covered
<1>24. ASSUME NEW i \in DOMAIN v, Admits(filter, w[i]) PROVE Covered(q, m + 1, w, i)
  <2>1. Covered(p, l, v, i)
    BY <1>1, <1>2, <1>24
  <2>2. CASE l = N /\ \A k \in 1..l : Goes(v, p[k], i)
    <3>1. d \in 1..l
      BY <1>1, <1>3, <1>7, <2>2
    <3>2. QED
      BY <1>23, <2>2, <3>1
  <2>3. CASE \E k \in 1..l : v[p[k]].weights = v[i].weights /\ (p[k] = i \/ Goes(v, p[k], i))
    <3>1. PICK k \in 1..l : v[p[k]].weights = v[i].weights /\ (p[k] = i \/ Goes(v, p[k], i))
      BY <2>3
    <3>2. p[k] \in DOMAIN v
      BY <1>1
    <3>3. CASE k # d
      <4>1. PICK x \in 1..m : r[x] = p[k]
        BY <1>14, <3>3
      <4>2. PICK y \in 1..(m + 1) : q[y] = p[k]
        BY <1>16, <4>1
      <4>3. QED
        BY <1>2, <3>1, <3>2, <4>2 DEF Covered
    <3>4. CASE k = d /\ b[d].weights = e.weights
      <4>1. Goes(w, n, i)
        BY <1>22, <3>1, <3>4
      <4>2. w[q[o + 1]].weights = w[i].weights /\ Goes(w, q[o + 1], i)
        BY <1>1, <1>2, <1>16, <3>1, <3>4, <4>1
      <4>3. QED
        BY <1>16, <4>2 DEF Covered
    <3>5. CASE k = d /\ l = N /\ d = N
      <4>1. ASSUME NEW x \in 1..l, x # d PROVE Goes(v, p[x], i)
        <5>1. x < d
          BY <1>1, <3>5, <4>1
        <5>2. Goes(v, p[x], p[d]) /\ p[x] \in DOMAIN v
          BY <1>1, <3>5, <5>1
        <5>3. QED
          BY <3>1, <3>2, <3>5, <5>2, GoesOrders
      <4>2. QED
        BY <1>23, <3>1, <3>5, <4>1
    <3>6. QED
      BY <1>7, <3>3, <3>4, <3>5
  <2>4. QED
    BY <2>1, <2>2, <2>3 DEF Covered
<1>25. Covered(q, m + 1, w, n)
  BY <1>16 DEF Covered
<1>26. \A i \in DOMAIN w : Admits(filter, w[i]) => Covered(q, m + 1, w, i)
  BY <1>2, <1>24, <1>25
<1>27. \A j, k \in 1..(m + 1) : w[q[j]].weights = w[q[k]].weights => j = k
  BY <1>19, <1>21
<1>28. Ranked(q, t, w)
  BY <1>6, <1>17, <1>18, <1>19, <1>20, <1>26, <1>27 DEF Ranked
<1>29. QED
  BY <1>28 DEF t, w

-----------------------------------------------------------------------------
(***************************************************************************)
(* The live entries beside the one being pushed, in every state.           *)
(***************************************************************************)
Beside == IF pc = "insert" THEN LastSlot ELSE len - 1

OthersListed ==
    /\ Beside \in Nat
    /\ Live \ {at} = (0..Beside) \ {at}
    /\ Others = [i \in 1..Beside |-> items[IF i - 1 < at THEN i - 1 ELSE i]]

LEMMA OthersAre == TypeOK /\ ~AtRest /\ at \in 0..Beside => OthersListed
<1> SUFFICES ASSUME TypeOK, ~AtRest, at \in 0..Beside PROVE OthersListed
  OBVIOUS
<1>1. /\ Beside \in Nat /\ at \in 0..Beside
      /\ pc \in {"insert", "resort"}
  BY CapacityAssumption DEF TypeOK, AtRest, Beside, LastSlot
<1>2. Live \ {at} = (0..Beside) \ {at}
  BY <1>1, CapacityAssumption DEF Live, Held, Beside, LastSlot, TypeOK
<1>3. IsFiniteSet(0..Beside) /\ Cardinality(0..Beside) = Beside + 1
  <2>1. IsFiniteSet(0..Beside) /\ Cardinality(0..Beside) = IF 0 > Beside THEN 0 ELSE Beside - 0 + 1
    BY <1>1, FS_Interval
  <2>2. QED
    BY <1>1, <2>1
<1>4. Cardinality((0..Beside) \ {at}) = Beside
  <2>1. Cardinality((0..Beside) \ {at}) = Cardinality(0..Beside) - 1
    BY <1>1, <1>3, FS_RemoveElement
  <2>2. QED
    BY <1>1, <1>3, <2>1
<1>5. QED
  BY <1>1, <1>2, <1>4 DEF Others, OthersListed

LEMMA OthersWillBe == (TypeOK /\ ~AtRest /\ at \in 0..Beside)' => OthersListed'
BY OthersAre, PTL

LEMMA OthersDescend ==
    ASSUME IInv, ~AtRest
    PROVE  /\ at \in 0..Beside
           /\ rec \in Entries
           /\ Descending(Others)
           /\ Len(Others) = Beside
           /\ \A i \in 1..Beside : at < i => RanksAbove(rec, Others[i])
<1>1. /\ pc \in {"insert", "resort"} /\ at \in Slots /\ len \in 0..N
      /\ pc # "insert" => pc = "resort"
  BY DEF IInv, TypeOK, AtRest
<1>2. at \in 0..Beside /\ rec \in Entries
  BY <1>1, CapacityAssumption DEF IInv, Inserting, Resorting, Beside, LastSlot, Slots, Held
<1>3. /\ Beside \in Nat
      /\ Live \ {at} = (0..Beside) \ {at}
      /\ Others = [i \in 1..Beside |-> items[IF i - 1 < at THEN i - 1 ELSE i]]
  BY <1>2, OthersAre DEF IInv, OthersListed
<1>4. \A i \in Live \ {at} : items[i] \in Entries
  BY LiveEntries
<1>5. \A i, j \in Live \ {at} : i < j => ~RanksAbove(items[j], items[i])
  BY <1>1 DEF IInv, LiveSorted
<1>6. \A i \in Live \ {at} : at < i => RanksAbove(rec, items[i])
  BY <1>1 DEF IInv, Inserting, Resorting
<1>7. ASSUME NEW i \in 1..Beside
      PROVE  /\ (IF i - 1 < at THEN i - 1 ELSE i) \in Live \ {at}
             /\ Others[i] = items[IF i - 1 < at THEN i - 1 ELSE i]
  <2>1. (IF i - 1 < at THEN i - 1 ELSE i) \in (0..Beside) \ {at}
    BY <1>2, <1>3
  <2>2. QED
    BY <1>3, <2>1
<1>8. Others \in Seq(Entries) /\ Len(Others) = Beside
  <2>1. \A i \in 1..Beside : Others[i] \in Entries
    BY <1>4, <1>7
  <2>2. Others = [i \in 1..Beside |-> Others[i]]
    BY <1>3
  <2>3. QED
    BY <1>3, <2>1, <2>2
<1>9. ASSUME NEW i \in 1..Beside, NEW j \in 1..Beside, i < j
      PROVE  ~RanksAbove(Others[j], Others[i])
  <2> DEFINE x == IF i - 1 < at THEN i - 1 ELSE i
             y == IF j - 1 < at THEN j - 1 ELSE j
  <2>1. x \in Live \ {at} /\ y \in Live \ {at} /\ Others[i] = items[x] /\ Others[j] = items[y]
    BY <1>7
  <2>2. x < y
    BY <1>2, <1>3, <1>9
  <2> HIDE DEF x, y
  <2>3. QED
    BY <1>5, <2>1, <2>2
<1>10. ASSUME NEW i \in 1..Beside, at < i PROVE RanksAbove(rec, Others[i])
  <2>1. ~(i - 1 < at)
    BY <1>2, <1>3, <1>10
  <2>2. i \in Live \ {at} /\ Others[i] = items[i]
    BY <1>7, <2>1
  <2>3. QED
    BY <1>6, <1>10, <2>2
<1>11. QED
  BY <1>2, <1>8, <1>9, <1>10 DEF Descending

\* The board of a pass under way.
LEMMA BoardIs ==
    ASSUME IInv
    PROVE  /\ Board \in Seq(Entries)
           /\ AtRest => /\ Len(Board) = len
                        /\ Board = [i \in 1..len |-> items[i - 1]]
           /\ ~AtRest => Board = Inserted(Others, rec)
<1>1. CASE AtRest
  <2>1. len \in Nat /\ Live = Held
    BY <1>1, CapacityAssumption DEF IInv, TypeOK, AtRest, Live
  <2>2. \A i \in 1..len : items[i - 1] \in Entries
    <3>1. \A i \in 1..len : i - 1 \in Live
      BY <2>1 DEF Held
    <3>2. QED
      BY <3>1, LiveEntries
  <2>3. Board = [i \in 1..len |-> items[i - 1]]
    BY <1>1 DEF Board
  <2>4. QED
    BY <1>1, <2>1, <2>2, <2>3
<1>2. CASE ~AtRest
  <2>1. Board = Inserted(Others, rec)
    BY <1>2 DEF Board, Inserted, Outranking, PlaceOf
  <2>2. QED
    BY <1>2, <2>1, OthersDescend, InsertedIs
<1>3. QED
  BY <1>1, <1>2

\* The steps of the loops do not change the board.
LEMMA MovesKeepTheBoard ==
    ASSUME IInv, IInv', ShiftDown \/ SwapUp
    PROVE  Board' = Board
<1>1. /\ ~AtRest /\ ~AtRest'
      /\ Beside' = Beside /\ rec' = rec
      /\ at > 0 /\ at' = at - 1
      /\ \A i \in Slots : i # at /\ i # at - 1 => items'[i] = items[i]
      /\ items'[at] = items[at - 1]
      /\ items \in [Slots -> Entries \cup {None}]
      /\ at \in Slots
  BY CapacityAssumption DEF ShiftDown, SwapUp, AtRest, Beside, LastSlot, IInv, TypeOK, Slots
<1>2. at \in 0..Beside
  BY <1>1, OthersDescend
<1>3. OthersListed
  BY <1>1, <1>2, OthersAre DEF IInv
<1>4. OthersListed'
  <2>1. (at \in 0..Beside)'
    BY <1>1, <1>2, <1>3 DEF OthersListed
  <2>2. TypeOK'
    BY DEF IInv
  <2>3. QED
    BY <1>1, <2>1, <2>2, OthersWillBe
<1>5. Beside <= N - 1
  BY CapacityAssumption DEF Beside, LastSlot, IInv, TypeOK
<1>6. ASSUME NEW i \in 1..Beside
      PROVE  items'[IF i - 1 < at' THEN i - 1 ELSE i] = items[IF i - 1 < at THEN i - 1 ELSE i]
  <2>1. i \in Slots /\ i - 1 \in Slots /\ at \in Int /\ i \in Int
    BY <1>1, <1>3, <1>5, CapacityAssumption DEF OthersListed, Slots
  <2>2. CASE i < at
    BY <1>1, <2>1, <2>2
  <2>3. CASE i = at
    BY <1>1, <2>1, <2>3
  <2>4. CASE at < i
    BY <1>1, <2>1, <2>4
  <2>5. QED
    BY <2>1, <2>2, <2>3, <2>4
<1>7. Others' = Others
  BY <1>1, <1>3, <1>4, <1>6 DEF OthersListed
<1>8. Board = Inserted(Others, rec)
  BY <1>1, BoardIs
<1>9. Board' = Inserted(Others', rec')
  BY <1>1 DEF Board, Inserted, Outranking, PlaceOf
<1>10. QED
  BY <1>1, <1>7, <1>8, <1>9

\* The loops end where the board has had the entry all along.
LEMMA LandingKeepsTheBoard ==
    ASSUME IInv, Store \/ Settle
    PROVE  Board' = Board
<1>1. /\ pc \in {"insert", "resort"} /\ ~AtRest /\ AtRest'
      /\ len' = Beside + 1
      /\ at \in Slots /\ len \in 0..N
      /\ items'[at] = rec
      /\ \A i \in Slots : i # at => items'[i] = items[i]
  BY CapacityAssumption DEF Store, Settle, Return, AtRest, Beside, LastSlot, IInv, TypeOK, Slots,
                            Resorting
<1>2. /\ at \in 0..Beside /\ rec \in Entries /\ Descending(Others) /\ Len(Others) = Beside
      /\ \A i \in 1..Beside : at < i => RanksAbove(rec, Others[i])
  BY <1>1, OthersDescend
<1>3. OthersListed
  BY <1>1, <1>2, OthersAre DEF IInv
<1>4. Beside \in Nat /\ Beside <= N - 1
  BY <1>3, CapacityAssumption DEF Beside, LastSlot, IInv, TypeOK, OthersListed
<1>5. ASSUME NEW i \in 1..Beside
      PROVE  Others[i] = items[IF i - 1 < at THEN i - 1 ELSE i]
  BY <1>3 DEF OthersListed
<1>6. ASSUME NEW i \in 1..Beside, i <= at PROVE ~RanksAbove(rec, Others[i])
  <2>1. at \in 1..Beside /\ Others[at] = items[at - 1]
    BY <1>2, <1>4, <1>5, <1>6
  <2>2. ~RanksAbove(rec, Others[at])
    <3>1. CASE Store
      BY <1>2, <2>1, <3>1 DEF Store
    <3>2. CASE Settle
      <4>1. items[at] = rec
        BY <3>2 DEF Settle, IInv, Resorting
      <4>2. QED
        BY <1>2, <2>1, <3>2, <4>1 DEF Settle
    <3>3. QED
      BY <3>1, <3>2
  <2>3. Others[at] \in Entries /\ Others[i] \in Entries
    BY <1>2, <2>1 DEF Descending
  <2>4. i = at \/ ~RanksAbove(Others[at], Others[i])
    BY <1>2, <1>6, <2>1 DEF Descending
  <2>5. QED
    BY <1>2, <2>2, <2>3, <2>4, RanksAboveOrder
<1> DEFINE b == [k \in 1..(Beside + 1) |-> items'[k - 1]]
<1>7. Board' = b
  BY <1>1 DEF Board
<1>8. ASSUME NEW k \in 1..(Beside + 1)
      PROVE  b[k] = IF k <= at THEN Others[k] ELSE IF k = at + 1 THEN rec ELSE Others[k - 1]
  <2>1. k - 1 \in Slots /\ k \in Int /\ at \in Int
    BY <1>2, <1>4, CapacityAssumption DEF Slots
  <2>2. CASE k <= at
    <3>1. k \in 1..Beside /\ k - 1 < at /\ k - 1 # at
      BY <1>2, <1>4, <2>1, <2>2
    <3>2. QED
      BY <1>1, <1>5, <2>1, <2>2, <3>1
  <2>3. CASE k = at + 1
    BY <1>1, <2>1, <2>3
  <2>4. CASE at + 1 < k
    <3>1. k - 1 \in 1..Beside /\ ~((k - 1) - 1 < at) /\ k - 1 # at
      BY <1>2, <1>4, <2>1, <2>4
    <3>2. QED
      BY <1>1, <1>5, <2>1, <2>4, <3>1
  <2>5. QED
    BY <2>1, <2>2, <2>3, <2>4
<1>9. b = [k \in 1..(Beside + 1) |-> b[k]]
  OBVIOUS
<1> HIDE DEF b
<1>10. b = Inserted(Others, rec)
  BY <1>2, <1>6, <1>8, <1>9, InsertionIsUnique
<1>11. QED
  BY <1>1, <1>7, <1>10, BoardIs

\* A push that leaves the array alone leaves the board alone.
LEMMA UntouchedRanks ==
    ASSUME IInv, NEW e \in Entries, Reject(e) \/ Collapse(e) \/ Drop(e),
           NEW p, Ranked(p, Board, visited)
    PROVE  Board' \in Seq(Entries) /\ Ranked(p, Board', visited')
<1>1. /\ AtRest /\ AtRest' /\ len \in 0..N
      /\ UNCHANGED <<items, len>>
      /\ visited \in Seq(Entries) /\ visited' = Append(visited, e)
  BY DEF Reject, Collapse, Drop, Yield, AtRest, IInv, TypeOK
<1>2. Board' = Board
  BY <1>1 DEF Board
<1>3. /\ Board \in Seq(Entries) /\ Len(Board) = len
      /\ \A k \in 1..len : Board[k] = items[k - 1]
  BY <1>1, BoardIs
<1>4. ASSUME Collapse(e)
      PROVE  \E k \in 1..len : Board[k].weights = e.weights /\ ~RanksAbove(e, Board[k])
  <2>1. PICK slot \in Held : items[slot].weights = e.weights /\ ~RanksAbove(e, items[slot])
    BY <1>4 DEF Collapse, FindSameWeights
  <2>2. slot + 1 \in 1..len /\ (slot + 1) - 1 = slot
    BY <1>1, <2>1, CapacityAssumption DEF Held
  <2>3. QED
    BY <1>3, <2>1, <2>2
<1>5. ASSUME Drop(e) PROVE len = N /\ \A k \in 1..len : ~RanksAbove(e, Board[k])
  <2>1. len = N /\ ~RanksAbove(e, items[N - 1]) /\ Live = Held /\ pc = "iterate"
    BY <1>5 DEF Drop, Yield, Live
  <2>2. ASSUME NEW k \in 1..len PROVE ~RanksAbove(e, items[k - 1])
    <3>1. k - 1 \in Live /\ N - 1 \in Live /\ (k - 1 = N - 1 \/ k - 1 < N - 1)
      BY <1>1, <2>1, CapacityAssumption DEF Held
    <3>2. items[k - 1] \in Entries /\ items[N - 1] \in Entries
      BY <3>1, LiveEntries
    <3>3. k - 1 = N - 1 \/ ~RanksAbove(items[N - 1], items[k - 1])
      BY <2>1, <3>1 DEF IInv, LiveSorted
    <3>4. QED
      BY <2>1, <3>2, <3>3, RanksAboveOrder
  <2>3. QED
    BY <1>3, <2>1, <2>2
<1>6. Admits(filter, e) =>
         \/ \E k \in 1..Len(Board) : Board[k].weights = e.weights /\ ~RanksAbove(e, Board[k])
         \/ Len(Board) = N /\ \A k \in 1..Len(Board) : ~RanksAbove(e, Board[k])
  BY <1>3, <1>4, <1>5 DEF Reject
<1>7. Ranked(p, Board, Append(visited, e))
  BY <1>1, <1>6, KeptRanked
<1>8. QED
  BY <1>1, <1>2, <1>3, <1>7

\* A push that starts a loop puts its entry in its place on the board.
LEMMA AcceptedRanks ==
    ASSUME IInv, IInv', NEW e \in Entries, Supersede(e) \/ Enter(e),
           NEW p, Ranked(p, Board, visited)
    PROVE  Board' \in Seq(Entries) /\ \E q : Ranked(q, Board', visited')
<1>1. /\ AtRest /\ ~AtRest' /\ len \in 0..N /\ len' = len
      /\ rec' = e /\ Admits(filter, e)
      /\ visited \in Seq(Entries) /\ visited' = Append(visited, e)
      /\ \A i \in Slots : i # at' => items'[i] = items[i]
      /\ at' \in Slots
      /\ Live = Held
  <2>1. at' \in Slots
    BY DEF IInv, TypeOK
  <2>2. QED
    BY <2>1 DEF Supersede, Enter, Yield, AtRest, IInv, TypeOK, Live
<1>2. /\ Board \in Seq(Entries) /\ Len(Board) = len
      /\ \A k \in 1..len : Board[k] = items[k - 1]
  BY <1>1, BoardIs
<1>3. /\ Enter(e) => Beside' = LastSlot /\ at' = LastSlot
      /\ Supersede(e) => Beside' = len - 1 /\ at' \in Held
  BY CapacityAssumption DEF Enter, Supersede, Beside, LastSlot, FindSameWeights
<1>4. (at \in 0..Beside)'
  BY <1>1, <1>3, CapacityAssumption DEF Held, LastSlot
<1>5. /\ Beside' \in Nat
      /\ Others' = [i \in 1..Beside' |-> items'[IF i - 1 < at' THEN i - 1 ELSE i]]
  BY <1>1, <1>4, OthersWillBe DEF IInv, OthersListed
\* The slot, the others and their number, once and for all.
<1>6. PICK to, s, m : to = at' /\ s = Others' /\ m = Beside'
  OBVIOUS
<1> DEFINE d == to + 1
           Old(i) == IF i < d THEN i ELSE i + 1
<1>7. /\ to \in Slots /\ to \in Int /\ len \in Nat /\ m \in Nat
      /\ d \in 1..(len + 1)
      /\ m = IF d = len + 1 THEN len ELSE len - 1
  <2>1. to \in Slots
    BY <1>1, <1>6
  <2>2. to \in Int
    BY <2>1, CapacityAssumption DEF Slots
  <2>3. N \in Nat /\ len \in 0..N
    BY <1>1, CapacityAssumption
  <2>4. m \in Nat
    BY <1>5, <1>6
  <2>5. CASE Enter(e)
    <3>1. to = LastSlot /\ m = LastSlot
      BY <1>3, <1>6, <2>5
    <3>2. QED
      BY <2>1, <2>2, <2>3, <2>4, <3>1 DEF LastSlot
  <2>6. CASE Supersede(e)
    <3>1. to \in Held /\ m = len - 1
      BY <1>3, <1>6, <2>6
    <3>2. to \in 0..(len - 1)
      BY <3>1 DEF Held
    <3>3. QED
      BY <2>1, <2>2, <2>3, <2>4, <3>1, <3>2
  <2>7. QED
    BY <2>5, <2>6
<1>8. ASSUME NEW i \in 1..m PROVE s[i] = Board[Old(i)] /\ Board[Old(i)] \in Entries
  <2>1. i \in Int /\ Old(i) \in 1..len
    BY <1>7
  <2>2. Old(i) - 1 = IF i - 1 < to THEN i - 1 ELSE i
    BY <1>7, <2>1
  <2>3. Old(i) - 1 \in Slots /\ Old(i) - 1 # to
    BY <1>1, <1>7, <2>1, CapacityAssumption DEF Slots
  <2>4. items'[Old(i) - 1] = items[Old(i) - 1]
    BY <1>1, <1>6, <2>3
  <2>5. s[i] = items'[IF i - 1 < to THEN i - 1 ELSE i]
    BY <1>5, <1>6
  <2>6. s[i] = items[Old(i) - 1]
    BY <2>2, <2>4, <2>5
  <2> HIDE DEF Old
  <2>7. Board[Old(i)] = items[Old(i) - 1] /\ Board[Old(i)] \in Entries
    BY <1>2, <2>1
  <2>8. QED
    BY <2>6, <2>7
<1>9. Without(s, Board, d)
  <2>1. s = [i \in 1..m |-> s[i]]
    BY <1>5, <1>6
  <2>2. \A i \in 1..m : s[i] \in Entries
    BY <1>8
  <2>3. m \in Nat
    BY <1>7
  <2>4. s \in Seq(Entries) /\ Len(s) = m
    BY <2>1, <2>2, <2>3
  <2>5. QED
    BY <1>2, <1>7, <1>8, <2>4 DEF Without
<1>10. Deserves(e, Board, d)
  <2>1. CASE Enter(e)
    <3>1. \A k \in 1..len : Board[k].weights # e.weights
      <4>1. \A i \in Held : items[i].weights # e.weights
        BY <2>1 DEF Enter, HoldsWeights
      <4>2. \A k \in 1..len : k - 1 \in Held
        BY <1>1 DEF Held
      <4>3. QED
        BY <1>2, <4>1, <4>2
    <3>2. to = LastSlot
      BY <1>3, <1>6, <2>1
    <3>3. d = len + 1 => len < N
      BY <1>1, <3>2, CapacityAssumption DEF LastSlot
    <3>4. d \in 1..len => len = N /\ d = N /\ RanksAbove(e, Board[N])
      BY <1>1, <1>2, <2>1, <3>2, CapacityAssumption DEF LastSlot, Enter
    <3>5. QED
      BY <1>2, <3>1, <3>3, <3>4 DEF Deserves
  <2>2. CASE Supersede(e)
    <3>1. to \in Held /\ items[to].weights = e.weights /\ RanksAbove(e, items[to])
      BY <1>6, <2>2 DEF Supersede, FindSameWeights
    <3>2. d \in 1..len /\ Board[d] = items[to]
      BY <1>2, <1>7, <3>1 DEF Held
    <3>3. ASSUME NEW k \in 1..len, k # d PROVE Board[k].weights # e.weights
      <4>1. k - 1 \in Held /\ k - 1 # to /\ Board[k] = items[k - 1]
        BY <1>2, <1>7, <3>3 DEF Held
      <4>2. QED
        BY <1>1, <3>1, <4>1 DEF IInv, LiveDistinct
    <3>4. d # len + 1
      BY <1>1, <3>2
    <3>5. QED
      BY <1>2, <3>1, <3>2, <3>3, <3>4 DEF Deserves
  <2>3. QED
    BY <2>1, <2>2
<1> HIDE DEF d
<1>11. Board' = Inserted(s, e)
  BY <1>1, <1>6 DEF Board, Inserted, Outranking, PlaceOf
<1>12. \E q : Ranked(q, Inserted(s, e), Append(visited, e))
  BY <1>1, <1>9, <1>10, InsertedRanked
<1>13. Inserted(s, e) \in Seq(Entries)
  BY <1>1, <1>9, WithoutDescends, InsertedIs
<1>14. QED
  BY <1>1, <1>11, <1>12, <1>13

(***************************************************************************)
(* The board is always ranked: the invariant of the refinement.            *)
(***************************************************************************)
BoardIsRanked == \E p : Ranked(p, Board, visited)

LEMMA InitRanks == Init => BoardIsRanked /\ Board = <<>>
<1> SUFFICES ASSUME Init PROVE BoardIsRanked /\ Board = <<>>
  OBVIOUS
<1>1. Board = <<>>
  BY DEF Init, Board, AtRest
<1>2. visited = <<>>
  BY DEF Init
<1>3. Ranked(<<>>, <<>>, <<>>)
  BY CapacityAssumption DEF Ranked
<1>4. QED
  BY <1>1, <1>2, <1>3 DEF BoardIsRanked

\* A push visits the entry it is given; every other step is a stutter.
LEMMA StepImplements ==
    ASSUME IInv, IInv', BoardIsRanked, [Next]_vars
    PROVE  BoardIsRanked' /\ [Abstract!Next]_Abstract!vars
<1>1. PICK p : Ranked(p, Board, visited)
  BY DEF BoardIsRanked
<1>2. ASSUME UNCHANGED <<filter, visited, Board>>
      PROVE  BoardIsRanked' /\ [Abstract!Next]_Abstract!vars
  <2>1. UNCHANGED Abstract!vars
    BY <1>2 DEF Abstract!vars
  <2>2. Ranked(p, Board, visited)'
    BY <1>1, <1>2 DEF Ranked, Covered
  <2>3. QED
    BY <2>1, <2>2 DEF BoardIsRanked
<1>3. ASSUME NEW e \in Entries, Push(e)
      PROVE  BoardIsRanked' /\ [Abstract!Next]_Abstract!vars
  <2>1. /\ filter' = filter
        /\ visited' = Append(visited, e)
        /\ \A i \in DOMAIN visited : visited[i] # e
    BY <1>3 DEF Push, Reject, Collapse, Supersede, Drop, Enter, Yield
  <2>2. Board' \in Seq(Entries) /\ \E q : Ranked(q, Board', visited')
    BY <1>1, <1>3, UntouchedRanks, AcceptedRanks DEF Push
  <2>3. visited' \in Seq(Entries)
    BY DEF IInv, TypeOK
  <2>4. Board' = Abstract!BestOf(visited')
    BY <2>2, <2>3, BestIsRanked
  <2>5. Abstract!Visit(e)
    BY <2>1, <2>4 DEF Abstract!Visit
  <2>6. BoardIsRanked'
    BY <2>1, <2>2 DEF BoardIsRanked, Ranked, Covered
  <2>7. QED
    BY <2>5, <2>6 DEF Abstract!Next
<1>4. CASE Step
  <2>1. Board' = Board
    BY <1>4, MovesKeepTheBoard, LandingKeepsTheBoard DEF Step
  <2>2. UNCHANGED <<filter, visited>>
    BY <1>4 DEF Step, ShiftDown, Store, SwapUp, Settle
  <2>3. QED
    BY <1>2, <2>1, <2>2
<1>5. CASE Finish \/ UNCHANGED vars
  <2>1. Board' = Board
    <3>1. CASE Finish
      BY <3>1 DEF Finish, Board, AtRest
    <3>2. CASE UNCHANGED vars
      BY <3>2 DEF vars, Board, AtRest, Others, Outranking, Live, Held
    <3>3. QED
      BY <1>5, <3>1, <3>2
  <2>2. UNCHANGED <<filter, visited>>
    BY <1>5 DEF Finish, vars
  <2>3. QED
    BY <1>2, <2>1, <2>2
<1>6. QED
  BY <1>3, <1>4, <1>5 DEF Next

\* TopN implements the leaderboard: after every push the board is exactly the
\* first N of the ranked bests of the catalog so far, and the loops of push
\* and resort_from do not change it.
THEOREM PassImplementsLeaderboard == Spec => ImplementsLeaderboard
<1>1. Init => IInv /\ BoardIsRanked /\ Abstract!Init
  BY InitInvariant, InitRanks DEF Init, Abstract!Init
<1>2. IInv /\ BoardIsRanked /\ [Next]_vars
      => IInv' /\ BoardIsRanked' /\ [Abstract!Next]_Abstract!vars
  BY NextInvariant, StepImplements
<1>3. QED
  BY <1>1, <1>2, PTL DEF Spec, ImplementsLeaderboard
=============================================================================
