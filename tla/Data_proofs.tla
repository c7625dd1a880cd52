----------------------------- MODULE Data_proofs -----------------------------
(***************************************************************************)
(* What the operators of module Data return, and the induction that takes. *)
(* The library's induction theorems are about predicates; the first lemmas *)
(* here are about sets, so that a proof can name the set of the indices    *)
(* for which what it is after holds.  They rest on one theorem of the      *)
(* library: less-than is well-founded.                                     *)
(***************************************************************************)
EXTENDS Data, WellFoundedInduction, NaturalsInduction, SequenceTheorems, FiniteSetTheorems,
        TLAPS

-----------------------------------------------------------------------------
(***************************************************************************)
(* Recursive functions                                                     *)
(***************************************************************************)

\* A set of natural numbers that is not empty has a least element.
LEMMA LeastElement ==
    \A T : T \subseteq Nat /\ T # {} => \E x \in T : \A y \in T : x <= y
<1> SUFFICES ASSUME NEW T, T \subseteq Nat, T # {}
             PROVE  \E x \in T : \A y \in T : x <= y
  OBVIOUS
<1> DEFINE R == OpToRel(<, Nat)
<1>1. \A x, y \in Nat : <<y, x>> \in R <=> y < x
  BY DEF OpToRel
<1>2. IsWellFoundedOn(R, Nat)
  BY NatLessThanWellFounded
<1> HIDE DEF R
<1>3. PICK x \in T : \A y \in T : ~(<<y, x>> \in R)
  BY <1>2, WFMin, Zenon
<1>4. ASSUME NEW y \in T PROVE x <= y
  <2>1. x \in Nat /\ y \in Nat /\ ~(<<y, x>> \in R)
    BY <1>3
  <2>2. ~(y < x)
    BY <1>1, <2>1
  <2>3. QED
    BY <2>1, <2>2
<1>5. QED
  BY <1>4

\* A set with m that goes from each number below n to the next holds them all.
LEMMA Climb ==
    \A m, n \in Int : \A S :
        m \in S /\ (\A i \in m..(n - 1) : i \in S => i + 1 \in S)
        => \A i \in m..n : i \in S
<1> SUFFICES ASSUME NEW m \in Int, NEW n \in Int, NEW S, m \in S,
                    \A i \in m..(n - 1) : i \in S => i + 1 \in S
             PROVE  \A i \in m..n : i \in S
  OBVIOUS
<1> DEFINE T == {d \in Nat : m + d <= n /\ m + d \notin S}
<1>1. CASE T = {}
  <2>1. ASSUME NEW i \in m..n PROVE i \in S
    <3>1. i - m \in Nat /\ m + (i - m) = i /\ i <= n
      OBVIOUS
    <3>2. i - m \notin T
      BY <1>1
    <3>3. QED
      BY <3>1, <3>2
  <2>2. QED
    BY <2>1
<1>2. CASE T # {}
  <2>1. PICK d \in T : \A y \in T : d <= y
    <3>1. T \subseteq Nat
      OBVIOUS
    <3> HIDE DEF T
    <3>2. QED
      BY <1>2, <3>1, LeastElement, Zenon
  <2>2. d \in Nat /\ m + d <= n /\ m + d \notin S
    OBVIOUS
  <2>3. d # 0
    BY <2>2
  <2>4. d - 1 \in Nat /\ ~(d <= d - 1) /\ m + (d - 1) <= n
    BY <2>2, <2>3
  <2>5. d - 1 \notin T
    BY <2>1, <2>4
  <2>6. m + (d - 1) \in S
    BY <2>4, <2>5
  <2>7. m + (d - 1) \in m..(n - 1) /\ (m + (d - 1)) + 1 = m + d
    BY <2>2, <2>4
  <2>8. QED
    BY <2>2, <2>6, <2>7
<1>3. QED
  BY <1>1, <1>2

\* A function defined by where it starts and by what it makes of the value
\* before exists.
Steps(n, A) == [(1..n) \X A -> A]

Follows(f, n, A, base, step) ==
    /\ f \in [0..n -> A]
    /\ f[0] = base
    /\ \A i \in 1..n : f[i] = step[<<i, f[i - 1]>>]

LEMMA RecursionExists ==
    \A n \in Nat : \A A : \A base \in A : \A step \in Steps(n, A) :
        \E f : Follows(f, n, A, base, step)
<1> SUFFICES ASSUME NEW n \in Nat, NEW A, NEW base \in A, NEW step \in [(1..n) \X A -> A]
             PROVE  \E f : Follows(f, n, A, base, step)
  BY DEF Steps
<1> DEFINE Solves(f, k) == /\ f \in [0..k -> A] /\ f[0] = base
                           /\ \A i \in 1..k : f[i] = step[<<i, f[i - 1]>>]
           S == {k \in 0..n : \E f : Solves(f, k)}
<1>1. 0 \in S
  <2>1. Solves([i \in 0..0 |-> base], 0)
    OBVIOUS
  <2> HIDE DEF Solves
  <2>2. QED
    BY <2>1
<1>2. ASSUME NEW k \in 0..(n - 1), k \in S PROVE k + 1 \in S
  <2>1. PICK f : Solves(f, k)
    BY <1>2
  <2> DEFINE g == [i \in 0..(k + 1) |->
                      IF i = k + 1 THEN step[<<k + 1, f[k]>>] ELSE f[i]]
  <2>2. k \in Nat /\ k + 1 \in 1..n /\ f[k] \in A
    BY <2>1
  <2>3. step[<<k + 1, f[k]>>] \in A
    BY <2>2
  <2>4. g \in [0..(k + 1) -> A]
    BY <2>1, <2>2, <2>3
  <2>5. g[0] = base
    BY <2>1, <2>2
  <2>6. ASSUME NEW i \in 1..(k + 1) PROVE g[i] = step[<<i, g[i - 1]>>]
    <3>1. CASE i = k + 1
      <4>1. i - 1 = k /\ k \in 0..(k + 1) /\ k # k + 1 /\ k + 1 \in 0..(k + 1)
        BY <2>2, <3>1
      <4>2. g[k] = f[k] /\ g[k + 1] = step[<<k + 1, f[k]>>]
        BY <4>1
      <4> HIDE DEF g
      <4>3. QED
        BY <3>1, <4>1, <4>2
    <3>2. CASE i # k + 1
      <4>1. /\ i \in 1..k /\ i \in 0..(k + 1) /\ i - 1 \in 0..(k + 1)
            /\ i - 1 # k + 1 /\ i # k + 1
        BY <2>2, <3>2
      <4>2. g[i] = f[i] /\ g[i - 1] = f[i - 1]
        BY <4>1
      <4>3. f[i] = step[<<i, f[i - 1]>>]
        BY <2>1, <4>1
      <4> HIDE DEF g
      <4>4. QED
        BY <4>2, <4>3
    <3>3. QED
      BY <3>1, <3>2
  <2> HIDE DEF g
  <2>7. Solves(g, k + 1)
    BY <2>4, <2>5, <2>6
  <2>8. k + 1 \in 0..n
    BY <2>2
  <2> HIDE DEF Solves
  <2>9. QED
    BY <2>7, <2>8
<1>3. n \in S
  <2>1. n \in 0..n
    OBVIOUS
  <2> HIDE DEF S
  <2>2. \A i \in 0..n : i \in S
    BY <1>1, <1>2, Climb
  <2>3. QED
    BY <2>1, <2>2
<1>4. QED
  BY <1>3 DEF Follows

\* ...and there is one: two functions that start alike and go on alike agree.
Parallel(f, g, n) == f[0] = g[0] /\ \A i \in 1..n : f[i - 1] = g[i - 1] => f[i] = g[i]

LEMMA RecursionIsUnique ==
    \A n \in Nat : \A f, g : Parallel(f, g, n) => \A i \in 0..n : f[i] = g[i]
<1> SUFFICES ASSUME NEW n \in Nat, NEW f, NEW g, Parallel(f, g, n)
             PROVE  \A i \in 0..n : f[i] = g[i]
  OBVIOUS
<1> USE DEF Parallel
<1> DEFINE S == {i \in 0..n : f[i] = g[i]}
<1>1. 0 \in S
  OBVIOUS
<1>2. ASSUME NEW i \in 0..(n - 1), i \in S PROVE i + 1 \in S
  <2>1. i + 1 \in 1..n /\ (i + 1) - 1 = i /\ i + 1 \in 0..n /\ f[i] = g[i]
    BY <1>2
  <2>2. QED
    BY <2>1
<1>3. \A i \in 0..n : i \in S
  <2> HIDE DEF S
  <2>1. QED
    BY <1>1, <1>2, Climb
<1>4. QED
  BY <1>3

-----------------------------------------------------------------------------
(***************************************************************************)
(* Total                                                                   *)
(***************************************************************************)
\* f is the running sum over s.
Sums(f, s) ==
    /\ f \in [0..Len(s) -> Nat]
    /\ f[0] = 0
    /\ \A i \in 1..Len(s) : f[i] = f[i - 1] + s[i]

\* A total is where a running sum ends.
LEMMA TotalIsASum == \A s \in Seq(Nat) : \E f : Sums(f, s) /\ Total(s) = f[Len(s)]
<1> SUFFICES ASSUME NEW s \in Seq(Nat)
             PROVE  \E f : Sums(f, s) /\ Total(s) = f[Len(s)]
  OBVIOUS
<1> DEFINE n == Len(s)
           sum[i \in 0..n] == IF i = 0 THEN 0 ELSE sum[i - 1] + s[i]
           step == [p \in (1..n) \X Nat |-> p[2] + s[p[1]]]
<1>1. n \in Nat /\ \A i \in 1..n : s[i] \in Nat
  OBVIOUS
<1>2. step \in Steps(n, Nat)
  BY <1>1 DEF Steps
<1>3. PICK f : Follows(f, n, Nat, 0, step)
  <2>1. 0 \in Nat
    OBVIOUS
  <2> HIDE DEF step, n
  <2>2. QED
    BY <1>1, <1>2, <2>1, RecursionExists
<1>4. f \in [0..n -> Nat] /\ f[0] = 0 /\ \A i \in 1..n : f[i] = step[<<i, f[i - 1]>>]
  BY <1>3 DEF Follows
<1>5. \A i \in 1..n : f[i] = f[i - 1] + s[i]
  <2> SUFFICES ASSUME NEW i \in 1..n PROVE f[i] = f[i - 1] + s[i]
    OBVIOUS
  <2>1. i - 1 \in 0..n
    BY <1>1
  <2>2. <<i, f[i - 1]>> \in (1..n) \X Nat
    BY <1>4, <2>1
  <2>3. QED
    BY <1>4, <2>2
<1>6. f = [i \in 0..n |-> IF i = 0 THEN 0 ELSE f[i - 1] + s[i]]
  <2>1. \A i \in 0..n : i = 0 \/ i \in 1..n
    BY <1>1
  <2>2. \A i \in 0..n : f[i] = IF i = 0 THEN 0 ELSE f[i - 1] + s[i]
    BY <1>4, <1>5, <2>1
  <2>3. QED
    BY <1>4, <2>2
<1>7. sum = [i \in 0..n |-> IF i = 0 THEN 0 ELSE sum[i - 1] + s[i]]
  BY <1>6
<1>8. Total(s) = sum[n]
  BY DEF Total
<1> HIDE DEF sum
<1>9. sum[0] = 0 /\ \A i \in 1..n : sum[i] = sum[i - 1] + s[i]
  BY <1>1, <1>7
<1>10. \A i \in 0..n : f[i] = sum[i]
  <2>1. \A i \in 1..n : f[i - 1] = sum[i - 1] => f[i] = sum[i]
    BY <1>5, <1>9
  <2>2. f[0] = sum[0]
    BY <1>4, <1>9
  <2>3. Parallel(f, sum, n)
    BY <2>1, <2>2 DEF Parallel
  <2>4. QED
    BY <1>1, <2>3, RecursionIsUnique
<1>11. f[n] = sum[n]
  BY <1>1, <1>10
<1>12. Sums(f, s)
  BY <1>4, <1>5 DEF Sums
<1>13. QED
  BY <1>8, <1>11, <1>12

\* Sums over sequences that begin alike are alike that far.
Alike(s, t, n) == n <= Len(s) /\ n <= Len(t) /\ \A i \in 1..n : s[i] = t[i]

LEMMA SumsAgree ==
    \A s, t \in Seq(Nat) : \A f, g : \A n \in Nat :
        Sums(f, s) /\ Sums(g, t) /\ Alike(s, t, n) => f[n] = g[n]
<1> SUFFICES ASSUME NEW s \in Seq(Nat), NEW t \in Seq(Nat), NEW f, NEW g, NEW n \in Nat,
                    Sums(f, s), Sums(g, t), Alike(s, t, n)
             PROVE  f[n] = g[n]
  OBVIOUS
<1> USE DEF Alike
<1>1. \A i \in 1..n : i \in 1..Len(s) /\ i \in 1..Len(t)
  OBVIOUS
<1>2. Parallel(f, g, n)
  BY <1>1 DEF Parallel, Sums
<1>3. \A i \in 0..n : f[i] = g[i]
  BY <1>2, RecursionIsUnique
<1>4. QED
  BY <1>3

\* Nothing adds up to nothing.
LEMMA TotalOfNothing == Total(<<>>) = 0
<1>1. <<>> \in Seq(Nat) /\ Len(<<>>) = 0
  OBVIOUS
<1>2. PICK f : Sums(f, <<>>) /\ Total(<<>>) = f[0]
  BY <1>1, TotalIsASum
<1>3. QED
  BY <1>2 DEF Sums

\* What is added to what was there.
LEMMA TotalOfAppend ==
    \A s \in Seq(Nat) : \A x \in Nat :
        Total(s) \in Nat /\ Total(Append(s, x)) = Total(s) + x
<1> SUFFICES ASSUME NEW s \in Seq(Nat), NEW x \in Nat
             PROVE  Total(s) \in Nat /\ Total(Append(s, x)) = Total(s) + x
  OBVIOUS
<1> DEFINE n == Len(s)
           t == Append(s, x)
<1>1. /\ n \in Nat /\ t \in Seq(Nat) /\ Len(t) = n + 1
      /\ t[n + 1] = x /\ \A i \in 1..n : s[i] = t[i]
  OBVIOUS
<1>2. PICK f : Sums(f, s) /\ Total(s) = f[n]
  BY TotalIsASum
<1>3. PICK g : Sums(g, t) /\ Total(t) = g[n + 1]
  BY <1>1, TotalIsASum
<1> HIDE DEF t
<1>4. f[n] = g[n]
  <2>1. Alike(s, t, n)
    BY <1>1 DEF Alike
  <2> HIDE DEF n
  <2>2. QED
    BY <1>1, <1>2, <1>3, <2>1, SumsAgree
<1>5. g[n + 1] = g[n] + x
  <2>1. n + 1 \in 1..Len(t) /\ (n + 1) - 1 = n
    BY <1>1
  <2>2. QED
    BY <1>1, <1>3, <2>1 DEF Sums
<1>6. f[n] \in Nat
  BY <1>1, <1>2 DEF Sums
<1>7. QED
  BY <1>2, <1>3, <1>4, <1>5, <1>6 DEF t

\* Two sequences add up to what both do.
LEMMA TotalOfConcat ==
    \A s, t \in Seq(Nat) : Total(s \o t) = Total(s) + Total(t)
<1> SUFFICES ASSUME NEW s \in Seq(Nat), NEW t \in Seq(Nat)
             PROVE  Total(s \o t) = Total(s) + Total(t)
  OBVIOUS
<1> DEFINE n == Len(s)
           m == Len(t)
           u == s \o t
<1>1. /\ n \in Nat /\ m \in Nat /\ u \in Seq(Nat) /\ Len(u) = n + m
      /\ \A i \in 1..n : s[i] = u[i]
      /\ \A i \in 1..m : u[n + i] = t[i]
  OBVIOUS
<1>2. PICK f : Sums(f, s) /\ Total(s) = f[n]
  BY TotalIsASum
<1>3. PICK g : Sums(g, t) /\ Total(t) = g[m]
  BY TotalIsASum
<1>4. PICK h : Sums(h, u) /\ Total(u) = h[n + m]
  BY <1>1, TotalIsASum
<1> HIDE DEF u, n, m
<1>5. f[n] = h[n]
  <2>1. Alike(s, u, n)
    BY <1>1 DEF n, Alike
  <2>2. QED
    BY <1>1, <1>2, <1>4, <2>1, SumsAgree
<1> DEFINE a == [i \in 0..m |-> h[n + i]]
           b == [i \in 0..m |-> h[n] + g[i]]
<1>6. h[n] \in Nat
  BY <1>1, <1>4 DEF Sums
<1>7. a[0] = b[0]
  BY <1>1, <1>3, <1>6 DEF Sums
<1>8. ASSUME NEW i \in 1..m, a[i - 1] = b[i - 1] PROVE a[i] = b[i]
  <2>1. i \in 0..m /\ i - 1 \in 0..m /\ n + i \in 1..(n + m) /\ (n + i) - 1 = n + (i - 1)
    BY <1>1
  <2>2. h[n + i] = h[n + (i - 1)] + t[i]
    BY <1>1, <1>4, <2>1 DEF Sums
  <2>3. g[i] = g[i - 1] + t[i] /\ g[i - 1] \in Nat /\ t[i] \in Nat
    <3>1. \A j \in 1..m : t[j] \in Nat
      BY DEF m
    <3>2. g \in [0..m -> Nat] /\ \A j \in 1..m : g[j] = g[j - 1] + t[j]
      BY <1>3 DEF Sums, m
    <3>3. QED
      BY <2>1, <3>1, <3>2
  <2>4. h[n + (i - 1)] = h[n] + g[i - 1]
    BY <1>8, <2>1
  <2>5. h[n + i] = h[n] + g[i]
    BY <1>6, <2>2, <2>3, <2>4
  <2>6. QED
    BY <2>1, <2>5
<1> HIDE DEF a, b
<1>9. a[m] = b[m]
  <2>1. Parallel(a, b, m)
    BY <1>7, <1>8 DEF Parallel
  <2>2. \A i \in 0..m : a[i] = b[i]
    BY <1>1, <2>1, RecursionIsUnique
  <2>3. QED
    BY <1>1, <2>2
<1>10. h[n + m] = h[n] + g[m]
  <2>1. m \in 0..m
    BY <1>1
  <2>2. QED
    BY <1>9, <2>1 DEF a, b
<1>11. QED
  BY <1>2, <1>3, <1>4, <1>5, <1>10 DEF u

-----------------------------------------------------------------------------
(***************************************************************************)
(* Joined                                                                  *)
(***************************************************************************)
\* f is what the first sequences of ss come to.
Joins(f, ss, S) ==
    /\ f \in [0..Len(ss) -> Seq(S)]
    /\ f[0] = <<>>
    /\ \A i \in 1..Len(ss) : f[i] = f[i - 1] \o ss[i]

\* To join is where such a function ends.
LEMMA JoinedIsAJoin ==
    \A S : \A ss \in Seq(Seq(S)) : \E f : Joins(f, ss, S) /\ Joined(ss) = f[Len(ss)]
<1> SUFFICES ASSUME NEW S, NEW ss \in Seq(Seq(S))
             PROVE  \E f : Joins(f, ss, S) /\ Joined(ss) = f[Len(ss)]
  OBVIOUS
<1> DEFINE n == Len(ss)
           A == Seq(S)
           join[i \in 0..n] == IF i = 0 THEN <<>> ELSE join[i - 1] \o ss[i]
           step == [p \in (1..n) \X A |-> p[2] \o ss[p[1]]]
<1>1. n \in Nat /\ (\A i \in 1..n : ss[i] \in A) /\ <<>> \in A
  OBVIOUS
<1>2. \A a, b \in A : a \o b \in A
  OBVIOUS
<1>3. Joined(ss) = join[n]
  BY DEF Joined
<1> HIDE DEF n, A
<1>4. step \in Steps(n, A)
  BY <1>1, <1>2 DEF Steps
<1>5. PICK f : Follows(f, n, A, <<>>, step)
  <2> HIDE DEF step
  <2>1. QED
    BY <1>1, <1>4, RecursionExists
<1>6. f \in [0..n -> A] /\ f[0] = <<>> /\ \A i \in 1..n : f[i] = step[<<i, f[i - 1]>>]
  BY <1>5 DEF Follows
<1>7. \A i \in 1..n : f[i] = f[i - 1] \o ss[i]
  <2> SUFFICES ASSUME NEW i \in 1..n PROVE f[i] = f[i - 1] \o ss[i]
    OBVIOUS
  <2>1. i - 1 \in 0..n
    BY <1>1
  <2>2. <<i, f[i - 1]>> \in (1..n) \X A
    BY <1>6, <2>1
  <2>3. QED
    BY <1>6, <2>2
<1> HIDE DEF step
<1>8. f = [i \in 0..n |-> IF i = 0 THEN <<>> ELSE f[i - 1] \o ss[i]]
  <2>1. \A i \in 0..n : i = 0 \/ i \in 1..n
    BY <1>1
  <2>2. \A i \in 0..n : f[i] = IF i = 0 THEN <<>> ELSE f[i - 1] \o ss[i]
    BY <1>6, <1>7, <2>1
  <2>3. QED
    BY <1>6, <2>2
<1>9. join = [i \in 0..n |-> IF i = 0 THEN <<>> ELSE join[i - 1] \o ss[i]]
  BY <1>8
<1> HIDE DEF join
<1>10. join[0] = <<>> /\ \A i \in 1..n : join[i] = join[i - 1] \o ss[i]
  <2>1. \A i \in 0..n : join[i] = IF i = 0 THEN <<>> ELSE join[i - 1] \o ss[i]
    BY <1>9
  <2>2. 0 \in 0..n /\ \A i \in 1..n : i \in 0..n /\ i # 0
    BY <1>1
  <2>3. QED
    BY <2>1, <2>2, Zenon
<1>11. \A i \in 0..n : f[i] = join[i]
  <2>1. \A i \in 1..n : f[i - 1] = join[i - 1] => f[i] = join[i]
    BY <1>7, <1>10
  <2>2. Parallel(f, join, n)
    BY <1>6, <1>10, <2>1 DEF Parallel
  <2>3. QED
    BY <1>1, <2>2, RecursionIsUnique
<1>12. f[n] = join[n]
  BY <1>1, <1>11
<1>13. Joins(f, ss, S)
  BY <1>6, <1>7 DEF Joins, n, A
<1>14. QED
  BY <1>3, <1>12, <1>13 DEF n

\* Nothing joined is nothing.
LEMMA JoinedOfNothing == Joined(<<>>) = <<>>
<1>1. <<>> \in Seq(Seq({})) /\ Len(<<>>) = 0
  OBVIOUS
<1>2. PICK f : Joins(f, <<>>, {}) /\ Joined(<<>>) = f[0]
  BY <1>1, JoinedIsAJoin
<1>3. QED
  BY <1>2 DEF Joins

\* Sequences over one set join to a sequence over it.
LEMMA JoinedType == \A S : \A ss \in Seq(Seq(S)) : Joined(ss) \in Seq(S)
<1> SUFFICES ASSUME NEW S, NEW ss \in Seq(Seq(S)) PROVE Joined(ss) \in Seq(S)
  OBVIOUS
<1>1. PICK f : Joins(f, ss, S) /\ Joined(ss) = f[Len(ss)]
  BY JoinedIsAJoin
<1>2. Len(ss) \in 0..Len(ss)
  OBVIOUS
<1>3. QED
  BY <1>1, <1>2 DEF Joins

\* It does not matter which two are joined first.
LEMMA JoinAssociative == \A S : \A x, y, z \in Seq(S) : (x \o y) \o z = x \o (y \o z)
BY ConcatAssociative

\* The first sequence comes first, then the others.
LEMMA JoinedOfCons ==
    \A S : \A ss \in Seq(Seq(S)) :
        ss # <<>> => Joined(ss) = Head(ss) \o Joined(Tail(ss))
<1> SUFFICES ASSUME NEW S, NEW ss \in Seq(Seq(S)), ss # <<>>
             PROVE  Joined(ss) = Head(ss) \o Joined(Tail(ss))
  OBVIOUS
<1> DEFINE A == Seq(S)
           t == Tail(ss)
           m == Len(t)
<1>1. ss \in Seq(A) /\ t \in Seq(A) /\ m \in Nat /\ Len(ss) = m + 1
  OBVIOUS
<1>2. Head(ss) = ss[1] /\ ss[1] \in A /\ \A i \in 1..m : t[i] = ss[i + 1] /\ t[i] \in A
  OBVIOUS
<1>3. PICK f : Joins(f, ss, S) /\ Joined(ss) = f[m + 1]
  BY <1>1, JoinedIsAJoin
<1>4. PICK g : Joins(g, t, S) /\ Joined(t) = g[m]
  BY <1>1, JoinedIsAJoin
<1>5. \A x, y, z \in A : (x \o y) \o z = x \o (y \o z)
  BY JoinAssociative
<1>6. \A x \in A : <<>> \o x = x /\ x \o <<>> = x
  OBVIOUS
<1>7. /\ f[0] = <<>> /\ \A i \in 1..(m + 1) : f[i] = f[i - 1] \o ss[i]
  BY <1>1, <1>3 DEF Joins
<1>8. g \in [0..m -> A] /\ g[0] = <<>> /\ \A i \in 1..m : g[i] = g[i - 1] \o t[i]
  BY <1>4 DEF Joins
<1> HIDE DEF A, t, m
<1> DEFINE a == [i \in 0..m |-> f[i + 1]]
           b == [i \in 0..m |-> ss[1] \o g[i]]
<1>9. a[0] = b[0]
  <2>1. 0 \in 0..m /\ 1 \in 1..(m + 1) /\ 1 - 1 = 0 /\ 0 + 1 = 1
    BY <1>1
  <2>2. f[1] = ss[1]
    <3>1. f[1] = f[1 - 1] \o ss[1]
      BY <1>7, <2>1
    <3>2. f[1] = <<>> \o ss[1]
      BY <1>7, <2>1, <3>1, Zenon
    <3>3. QED
      BY <1>2, <1>6, <3>2
  <2>3. ss[1] \o g[0] = ss[1]
    BY <1>2, <1>6, <1>8
  <2>4. QED
    BY <2>1, <2>2, <2>3
<1>10. ASSUME NEW i \in 1..m, a[i - 1] = b[i - 1] PROVE a[i] = b[i]
  <2>1. /\ i \in 0..m /\ i - 1 \in 0..m /\ i + 1 \in 1..(m + 1)
        /\ (i + 1) - 1 = i /\ (i - 1) + 1 = i
    BY <1>1
  <2>2. f[i + 1] = f[i] \o t[i]
    BY <1>2, <1>7, <2>1
  <2>3. f[i] = ss[1] \o g[i - 1]
    BY <1>10, <2>1
  <2>4. g[i - 1] \in A /\ t[i] \in A /\ g[i] = g[i - 1] \o t[i]
    BY <1>2, <1>8, <2>1
  <2>5. (ss[1] \o g[i - 1]) \o t[i] = ss[1] \o (g[i - 1] \o t[i])
    BY <1>2, <1>5, <2>4
  <2>6. a[i] = f[i + 1] /\ b[i] = ss[1] \o g[i]
    BY <2>1
  <2> HIDE DEF a, b
  <2>7. QED
    BY <2>2, <2>3, <2>4, <2>5, <2>6
<1>11. f[m + 1] = ss[1] \o g[m]
  <2>1. Parallel(a, b, m)
    <3> HIDE DEF a, b
    <3>1. QED
      BY <1>9, <1>10 DEF Parallel
  <2>2. \A i \in 0..m : a[i] = b[i]
    <3> HIDE DEF a, b
    <3>1. QED
      BY <1>1, <2>1, RecursionIsUnique
  <2>3. m \in 0..m
    BY <1>1
  <2>4. QED
    BY <2>2, <2>3
<1>12. QED
  BY <1>2, <1>3, <1>4, <1>11 DEF t

-----------------------------------------------------------------------------
(***************************************************************************)
(* Arranged                                                                *)
(***************************************************************************)
\* A strict order of the members of S, total among them.
Orders(before, S) ==
    /\ \A x \in S : <<x, x>> \notin before
    /\ \A x, y \in S : x # y => <<x, y>> \in before \/ <<y, x>> \in before
    /\ \A x, y, z \in S : <<x, y>> \in before /\ <<y, z>> \in before => <<x, z>> \in before

\* a lists the members of S, all of them and each once, in that order.
InOrder(a, S, before) ==
    /\ Cardinality(S) \in Nat
    /\ a \in [1..Cardinality(S) -> S]
    /\ \A x \in S : \E k \in 1..Cardinality(S) : a[k] = x
    /\ \A j, k \in 1..Cardinality(S) : j < k => <<a[j], a[k]>> \in before

Ahead(x, S, before) == {y \in S : <<y, x>> \in before}

\* What is ahead of a member is a part of the others.
LEMMA AheadIsCounted ==
    \A S, before : IsFiniteSet(S) /\ Orders(before, S) =>
        \A x \in S : /\ IsFiniteSet(Ahead(x, S, before))
                     /\ Cardinality(Ahead(x, S, before)) \in 0..(Cardinality(S) - 1)
<1> SUFFICES ASSUME NEW S, NEW before, IsFiniteSet(S), Orders(before, S), NEW x \in S
             PROVE  /\ IsFiniteSet(Ahead(x, S, before))
                    /\ Cardinality(Ahead(x, S, before)) \in 0..(Cardinality(S) - 1)
  OBVIOUS
<1>1. Cardinality(S) \in Nat
  BY FS_CardinalityType
<1>2. IsFiniteSet(S \ {x}) /\ Cardinality(S \ {x}) = Cardinality(S) - 1
  BY FS_RemoveElement
<1>3. Ahead(x, S, before) \in SUBSET (S \ {x})
  BY DEF Ahead, Orders
<1>4. /\ IsFiniteSet(Ahead(x, S, before))
      /\ Cardinality(Ahead(x, S, before)) <= Cardinality(S \ {x})
  BY <1>2, <1>3, FS_Subset
<1>5. Cardinality(Ahead(x, S, before)) \in Nat
  BY <1>4, FS_CardinalityType
<1>6. QED
  BY <1>1, <1>2, <1>4, <1>5

\* Fewer are ahead of one than of another that comes after it.
LEMMA FewerAhead ==
    \A S, before : IsFiniteSet(S) /\ Orders(before, S) =>
        \A x, y \in S :
            <<x, y>> \in before =>
                Cardinality(Ahead(x, S, before)) < Cardinality(Ahead(y, S, before))
<1> SUFFICES ASSUME NEW S, NEW before, IsFiniteSet(S), Orders(before, S),
                    NEW x \in S, NEW y \in S, <<x, y>> \in before
             PROVE  Cardinality(Ahead(x, S, before)) < Cardinality(Ahead(y, S, before))
  OBVIOUS
<1> DEFINE A == Ahead(x, S, before)
           B == Ahead(y, S, before)
<1>1. IsFiniteSet(A) /\ IsFiniteSet(B) /\ Cardinality(A) \in Nat /\ Cardinality(B) \in Nat
  BY AheadIsCounted, FS_CardinalityType
<1>2. A \cup {x} \in SUBSET B
  BY DEF Ahead, Orders
<1>3. x \notin A
  BY DEF Ahead, Orders
<1> HIDE DEF A
<1> HIDE DEF B
<1>4. IsFiniteSet(A \cup {x}) /\ Cardinality(A \cup {x}) = Cardinality(A) + 1
  BY <1>1, <1>3, FS_AddElement
<1>5. Cardinality(A \cup {x}) <= Cardinality(B)
  BY <1>1, <1>2, FS_Subset
<1>6. Cardinality(A) < Cardinality(B)
  BY <1>1, <1>4, <1>5
<1>7. QED
  BY <1>6 DEF A, B

\* To arrange a finite set is to list it.
LEMMA ArrangedInOrder ==
    \A S, before : IsFiniteSet(S) /\ Orders(before, S) => InOrder(Arranged(S, before), S, before)
<1> SUFFICES ASSUME NEW S, NEW before, IsFiniteSet(S), Orders(before, S)
             PROVE  InOrder(Arranged(S, before), S, before)
  OBVIOUS
<1> DEFINE n == Cardinality(S)
           Rank == [x \in S |-> Cardinality(Ahead(x, S, before)) + 1]
           a == Arranged(S, before)
<1>1. n \in Nat
  BY FS_CardinalityType
<1>2. \A x \in S : Cardinality(Ahead(x, S, before)) \in 0..(n - 1)
  BY AheadIsCounted
<1>3. Rank \in [S -> 1..n]
  BY <1>1, <1>2
<1>4. ASSUME NEW x \in S, NEW y \in S, <<x, y>> \in before PROVE Rank[x] < Rank[y]
  <2>1. Cardinality(Ahead(x, S, before)) < Cardinality(Ahead(y, S, before))
    BY <1>4, FewerAhead
  <2>2. QED
    BY <1>1, <1>2, <2>1
<1>5. \A x \in S : \A k \in Int : Cardinality(Ahead(x, S, before)) = k - 1 <=> Rank[x] = k
  BY <1>1, <1>2
<1>6. a = [k \in 1..n |-> CHOOSE x \in S : Cardinality(Ahead(x, S, before)) = k - 1]
  BY DEF Arranged, Ahead
<1> HIDE DEF Rank
<1>7. ASSUME NEW x \in S, NEW y \in S, Rank[x] = Rank[y] PROVE x = y
  <2>1. Rank[x] \in Int /\ Rank[y] \in Int
    BY <1>3
  <2>2. ~(<<x, y>> \in before) /\ ~(<<y, x>> \in before)
    BY <1>4, <1>7, <2>1
  <2>3. QED
    BY <2>2 DEF Orders
<1>8. \A k \in 1..n : \E x \in S : Rank[x] = k
  <2>1. Rank \in Injection(S, 1..n)
    BY <1>3, <1>7 DEF Injection, IsInjective
  <2>2. IsFiniteSet(1..n) /\ Cardinality(1..n) = n
    BY <1>1, FS_Interval
  <2>3. Rank \in Surjection(S, 1..n)
    BY <2>1, <2>2, FS_Injection
  <2>4. QED
    BY <2>3 DEF Surjection
<1>9. ASSUME NEW k \in 1..n PROVE a[k] \in S /\ Rank[a[k]] = k
  <2>1. \E x \in S : Cardinality(Ahead(x, S, before)) = k - 1
    BY <1>5, <1>8
  <2>2. a[k] = CHOOSE x \in S : Cardinality(Ahead(x, S, before)) = k - 1
    BY <1>6
  <2>3. a[k] \in S /\ Cardinality(Ahead(a[k], S, before)) = k - 1
    BY <2>1, <2>2
  <2>4. QED
    BY <1>5, <2>3
<1>10. a \in [1..n -> S]
  BY <1>6, <1>9
<1> HIDE DEF a
<1>11. ASSUME NEW x \in S PROVE \E k \in 1..n : a[k] = x
  <2>1. Rank[x] \in 1..n
    BY <1>3
  <2>2. a[Rank[x]] \in S /\ Rank[a[Rank[x]]] = Rank[x]
    BY <1>9, <2>1
  <2>3. a[Rank[x]] = x
    BY <1>7, <2>2
  <2>4. QED
    BY <2>1, <2>3
<1>12. ASSUME NEW j \in 1..n, NEW k \in 1..n, j < k PROVE <<a[j], a[k]>> \in before
  <2>1. a[j] \in S /\ a[k] \in S /\ Rank[a[j]] = j /\ Rank[a[k]] = k
    BY <1>9
  <2>2. a[j] # a[k] /\ ~(k < j)
    BY <1>1, <1>12, <2>1
  <2>3. ~(<<a[k], a[j]>> \in before)
    BY <1>4, <2>1, <2>2
  <2>4. QED
    BY <2>1, <2>2, <2>3 DEF Orders
<1>13. InOrder(a, S, before)
  BY <1>1, <1>10, <1>11, <1>12 DEF InOrder
<1>14. QED
  BY <1>13 DEF a
=============================================================================
