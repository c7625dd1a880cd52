--------------------------- MODULE Packer_proofs ---------------------------
(***************************************************************************)
(* A build, from any source list, options and submissions.                 *)
(*                                                                         *)
(* What is packed depends on everything read before, so the invariant says *)
(* of each stage what it rests on:                                         *)
(*   - IngestInv: the samples of a machine and an index are those of the   *)
(*     submissions read so far for them, each once.  A bijection says it   *)
(*     (Fits), since it carries a count of samples to a count of           *)
(*     submissions, and the order of the files never enters;               *)
(*   - IndexOK: the index leads from a key to the first kept name that has *)
(*     it, so to the most downloaded;                                      *)
(*   - BuildInv: the two packings are of the same kept entries, and the    *)
(*     output path holds nothing, the second packing or a prefix of it.    *)
(* The lemmas before it say what sorting, packing and reading back give.   *)
(***************************************************************************)
EXTENDS Packer, Data_proofs

-----------------------------------------------------------------------------
(***************************************************************************)
(* Types                                                                   *)
(***************************************************************************)
Indices == 0..(Span - 1)
Pairs == Machines \X Indices
Ratio == {q \in (Nat \ {0}) \X (Nat \ {0}) : 20 * q[1] >= q[2] /\ q[1] <= 5 * q[2]}
Samples == {SampleOf(r) : r \in {r \in AllResults : r.tps > 0}}

LEMMA ResultsAreResults == \A r \in AllResults : r \in Result
<1> SUFFICES ASSUME NEW r \in AllResults PROVE r \in Result
  OBVIOUS
<1>1. PICK path \in Paths : r \in Range(Contents[path].results)
  BY DEF AllResults
<1>2. Contents[path].results \in Seq(Result)
  BY ContentsAssumption DEF File
<1>3. QED
  BY <1>1, <1>2 DEF Range

LEMMA SamplesAreMeasured == \A x \in Samples : x.tps \in Nat \ {0}
BY ResultsAreResults DEF Samples, SampleOf, Result

-----------------------------------------------------------------------------
(***************************************************************************)
(* Reduction of a group                                                    *)
(***************************************************************************)
\* The element in the middle is an element.
LEMMA MiddleIsInside == \A n \in Nat \ {0} : (n \div 2) + 1 \in 1..n
OBVIOUS

LEMMA CountingUp == \A n \in Nat : IsFiniteSet(1..n) /\ Cardinality(1..n) = n
<1> SUFFICES ASSUME NEW n \in Nat PROVE IsFiniteSet(1..n) /\ Cardinality(1..n) = n
  OBVIOUS
<1>1. IsFiniteSet(1..n) /\ Cardinality(1..n) = IF 1 > n THEN 0 ELSE n - 1 + 1
  BY FS_Interval
<1>2. QED
  BY <1>1

\* Sorting a group loses none of its samples and adds none.
LEMMA SlowestFirst ==
    \A s \in Seq(Samples) :
        /\ ByThroughput(s) \in Seq(Samples) /\ Len(ByThroughput(s)) = Len(s)
        /\ \A k \in DOMAIN s : \E i \in DOMAIN s : ByThroughput(s)[k] = s[i]
<1> SUFFICES ASSUME NEW s \in Seq(Samples)
             PROVE  /\ ByThroughput(s) \in Seq(Samples) /\ Len(ByThroughput(s)) = Len(s)
                    /\ \A k \in DOMAIN s : \E i \in DOMAIN s : ByThroughput(s)[k] = s[i]
  OBVIOUS
<1> DEFINE n == Len(s)
           slower == {p \in (DOMAIN s) \X (DOMAIN s) :
                         \/ s[p[1]].tps < s[p[2]].tps
                         \/ s[p[1]].tps = s[p[2]].tps /\ p[1] < p[2]}
           order == Arranged(DOMAIN s, slower)
<1>1. n \in Nat /\ DOMAIN s = 1..n /\ \A i \in 1..n : s[i] \in Samples
  OBVIOUS
<1>2. \A i \in 1..n : s[i].tps \in Nat
  BY <1>1, SamplesAreMeasured
<1>3. Orders(slower, DOMAIN s)
  <2>1. \A i, j \in 1..n : <<i, j>> \in slower <=>
            s[i].tps < s[j].tps \/ (s[i].tps = s[j].tps /\ i < j)
    BY <1>1
  <2> HIDE DEF slower, n
  <2>2. \A i \in 1..n : <<i, i>> \notin slower
    BY <1>1, <1>2, <2>1
  <2>3. \A i, j \in 1..n : i # j => <<i, j>> \in slower \/ <<j, i>> \in slower
    BY <1>1, <1>2, <2>1
  <2>4. \A i, j, k \in 1..n :
            <<i, j>> \in slower /\ <<j, k>> \in slower => <<i, k>> \in slower
    BY <1>1, <1>2, <2>1
  <2>5. QED
    BY <1>1, <2>2, <2>3, <2>4 DEF Orders
<1>4. IsFiniteSet(DOMAIN s) /\ Cardinality(DOMAIN s) = n
  BY <1>1, CountingUp
<1>5. InOrder(order, DOMAIN s, slower)
  BY <1>3, <1>4, ArrangedInOrder
<1> HIDE DEF slower, order
<1>6. order \in [1..n -> 1..n]
  BY <1>1, <1>4, <1>5 DEF InOrder
<1>7. ByThroughput(s) = [k \in 1..n |-> s[order[k]]]
  BY <1>1 DEF ByThroughput, order, slower
<1>8. QED
  BY <1>1, <1>6, <1>7

\* A group is reduced to one of its samples.
LEMMA TheSampleIsOne ==
    \A s \in Seq(Samples) : s # <<>> => \E i \in DOMAIN s : TheSample(s) = s[i]
<1> SUFFICES ASSUME NEW s \in Seq(Samples), s # <<>>
             PROVE  \E i \in DOMAIN s : TheSample(s) = s[i]
  OBVIOUS
<1>1. Len(s) \in Nat \ {0} /\ DOMAIN s = 1..Len(s)
  OBVIOUS
<1>2. (Len(s) \div 2) + 1 \in DOMAIN s
  BY <1>1, MiddleIsInside
<1>3. TheSample(s) = ByThroughput(s)[(Len(s) \div 2) + 1]
  BY SlowestFirst DEF TheSample, Middle
<1>4. QED
  BY <1>2, <1>3, SlowestFirst

-----------------------------------------------------------------------------
(***************************************************************************)
(* Measurement rows                                                        *)
(***************************************************************************)
GroupsOK ==
    /\ IsFiniteSet(DOMAIN grouped) /\ DOMAIN grouped \subseteq Pairs
    /\ \A pair \in DOMAIN grouped : grouped[pair] \in Seq(Samples) \ {<<>>}

LEMMA MachinesAreNumbers == \A hw \in Machines : hw \in Nat \ {0}
BY MachinesAssumption

\* The pair packed into one integer is ordered as the pair.
LEMMA PackedKeysFollow ==
    \A a, b \in Row : Below(<<a.hw, a.index>>, <<b.hw, b.index>>) => Key(a) < Key(b)
<1> SUFFICES ASSUME NEW a \in Row, NEW b \in Row, Below(<<a.hw, a.index>>, <<b.hw, b.index>>)
             PROVE  Key(a) < Key(b)
  OBVIOUS
<1> DEFINE i == a.index
           j == b.index
           g == a.hw
           h == b.hw
<1>1. Span \in Nat /\ i \in Nat /\ j \in Nat /\ i < Span /\ g \in Nat /\ h \in Nat
  BY SpanAssumption DEF Row
<1>2. g < h \/ (g = h /\ i < j)
  BY DEF Below
<1>3. Key(a) = g * Span + i /\ Key(b) = h * Span + j
  BY DEF Key
<1> HIDE DEF i, j, g, h
<1>4. CASE g < h
  <2>1. h = (g + (h - g - 1)) + 1 /\ h - g - 1 \in Nat
    BY <1>1, <1>4
  <2>2. h * Span = g * Span + (h - g - 1) * Span + Span
    BY <1>1, <2>1
  <2>3. (h - g - 1) * Span \in Nat /\ g * Span \in Nat
    BY <1>1, <2>1
  <2>4. QED
    BY <1>1, <1>3, <2>2, <2>3
<1>5. CASE g = h /\ i < j
  <2>1. g * Span \in Nat
    BY <1>1
  <2>2. QED
    BY <1>1, <1>3, <1>5, <2>1
<1>6. QED
  BY <1>2, <1>4, <1>5

\* Rows in that order are a section that can be searched.
LEMMA OrderedRowsAreASection ==
    \A n \in Nat : \A rows \in [1..n -> Row] :
        (\A j, k \in 1..n :
            j < k => Below(<<rows[j].hw, rows[j].index>>, <<rows[k].hw, rows[k].index>>))
        => SectionType(SectionOf(rows))
<1> SUFFICES ASSUME NEW n \in Nat, NEW rows \in [1..n -> Row],
                    \A j, k \in 1..n : j < k =>
                        Below(<<rows[j].hw, rows[j].index>>, <<rows[k].hw, rows[k].index>>)
             PROVE  SectionType(SectionOf(rows))
  OBVIOUS
<1> DEFINE table == SectionOf(rows)
<1>1. rows \in Seq(Row) /\ Len(rows) = n
  OBVIOUS
<1>2. table.count = n /\ table.rows = [i \in 0..(n - 1) |-> rows[i + 1]]
  BY <1>1 DEF SectionOf
<1>3. \A i \in 0..(n - 1) : i + 1 \in 1..n
  OBVIOUS
<1>4. \A i \in 0..(n - 1) : table.rows[i] = rows[i + 1]
  BY <1>2
<1>5. table.rows \in [0..(n - 1) -> Row]
  BY <1>2, <1>3
<1>6. ASSUME NEW i \in 0..(n - 1), NEW j \in 0..(n - 1), i < j
      PROVE  Key(table.rows[i]) < Key(table.rows[j])
  <2>1. i + 1 \in 1..n /\ j + 1 \in 1..n /\ i + 1 < j + 1
    BY <1>6
  <2>2. Key(rows[i + 1]) < Key(rows[j + 1])
    BY <2>1, PackedKeysFollow
  <2>3. QED
    BY <1>4, <2>2
<1> HIDE DEF table
<1>7. SectionType(table)
  BY <1>2, <1>5, <1>6 DEF SectionType
<1>8. QED
  BY <1>7 DEF table

LEMMA RowsAreKeyed ==
    \A pair : MeasurementOf(pair).hw = pair[1] /\ MeasurementOf(pair).index = pair[2]
BY DEF MeasurementOf

\* One row for each group.
LEMMA OneRowForEachGroup ==
    ASSUME GroupsOK
    PROVE  LET n == Cardinality(DOMAIN grouped)
           IN  /\ n \in Nat /\ DOMAIN MeasurementRows = 1..n
               /\ \A k \in 1..n : \E pair \in DOMAIN grouped :
                     MeasurementRows[k] = MeasurementOf(pair)
               /\ \A j, k \in 1..n : j < k =>
                     Below(<<MeasurementRows[j].hw, MeasurementRows[j].index>>,
                           <<MeasurementRows[k].hw, MeasurementRows[k].index>>)
<1> DEFINE n == Cardinality(DOMAIN grouped)
           below == {p \in (DOMAIN grouped) \X (DOMAIN grouped) : Below(p[1], p[2])}
           pairs == Arranged(DOMAIN grouped, below)
<1>1. \A p \in DOMAIN grouped : p \in Nat \X Nat /\ p = <<p[1], p[2]>>
  BY MachinesAreNumbers, SpanAssumption DEF GroupsOK, Pairs, Indices
<1>2. Orders(below, DOMAIN grouped)
  <2>1. \A p, q \in DOMAIN grouped : <<p, q>> \in below <=> Below(p, q)
    OBVIOUS
  <2>2. \A p \in DOMAIN grouped : <<p, p>> \notin below
    BY <1>1, <2>1 DEF Below
  <2>3. \A p, q \in DOMAIN grouped : p # q => <<p, q>> \in below \/ <<q, p>> \in below
    BY <1>1, <2>1 DEF Below
  <2>4. \A p, q, r \in DOMAIN grouped :
            <<p, q>> \in below /\ <<q, r>> \in below => <<p, r>> \in below
    BY <1>1, <2>1 DEF Below
  <2> HIDE DEF below
  <2>5. QED
    BY <2>2, <2>3, <2>4 DEF Orders
<1>3. InOrder(pairs, DOMAIN grouped, below)
  <2> HIDE DEF below
  <2>1. QED
    BY <1>2, ArrangedInOrder DEF GroupsOK
<1>4. MeasurementRows = [k \in DOMAIN pairs |-> MeasurementOf(pairs[k])]
  BY DEF MeasurementRows
<1>5. \A p, q \in DOMAIN grouped : <<p, q>> \in below => Below(p, q)
  OBVIOUS
<1> HIDE DEF below, pairs
<1>6. /\ n \in Nat /\ pairs \in [1..n -> DOMAIN grouped]
      /\ \A j, k \in 1..n : j < k => <<pairs[j], pairs[k]>> \in below
  BY <1>3 DEF InOrder
<1> HIDE DEF n
<1>7. \A k \in 1..n : MeasurementRows[k] = MeasurementOf(pairs[k])
  BY <1>4, <1>6
<1>8. \A k \in 1..n : <<MeasurementRows[k].hw, MeasurementRows[k].index>> = pairs[k]
  <2> SUFFICES ASSUME NEW k \in 1..n
               PROVE  <<MeasurementRows[k].hw, MeasurementRows[k].index>> = pairs[k]
    OBVIOUS
  <2>1. pairs[k] = <<pairs[k][1], pairs[k][2]>>
    BY <1>1, <1>6
  <2>2. MeasurementRows[k].hw = pairs[k][1] /\ MeasurementRows[k].index = pairs[k][2]
    BY <1>7, RowsAreKeyed
  <2>3. QED
    BY <2>1, <2>2
<1>9. \A j, k \in 1..n : j < k => Below(pairs[j], pairs[k])
  BY <1>5, <1>6
<1>10. /\ n \in Nat /\ DOMAIN MeasurementRows = 1..n
       /\ \A k \in 1..n : \E pair \in DOMAIN grouped : MeasurementRows[k] = MeasurementOf(pair)
       /\ \A j, k \in 1..n : j < k =>
             Below(<<MeasurementRows[j].hw, MeasurementRows[j].index>>,
                   <<MeasurementRows[k].hw, MeasurementRows[k].index>>)
  BY <1>4, <1>6, <1>7, <1>8, <1>9
<1>11. QED
  BY <1>10 DEF n

-----------------------------------------------------------------------------
(***************************************************************************)
(* Calibrations                                                            *)
(***************************************************************************)
RatiosOK == ratios \in [Machines -> Seq(Ratio)]

LEMMA RatiosArePositive ==
    \A q \in Ratio : /\ q[1] \in Nat \ {0} /\ q[2] \in Nat \ {0}
                     /\ 20 * q[1] >= q[2] /\ q[1] <= 5 * q[2]
BY DEF Ratio

LEMMA ProductGrows == \A x, y, z \in Nat : x <= y => x * z <= y * z
<1> SUFFICES ASSUME NEW x \in Nat, NEW y \in Nat, NEW z \in Nat, x <= y PROVE x * z <= y * z
  OBVIOUS
<1>1. y = x + (y - x) /\ y - x \in Nat
  OBVIOUS
<1>2. y * z = x * z + (y - x) * z
  BY <1>1
<1>3. (y - x) * z \in Nat /\ x * z \in Nat
  BY <1>1
<1>4. QED
  BY <1>2, <1>3

\* Less-than among ratios is transitive, also through equal ones.
Through(a, b, c, d, e, f) ==
    /\ a * d < c * b /\ c * f <= e * d => a * f < e * b
    /\ a * d <= c * b /\ c * f < e * d => a * f < e * b
    /\ a * d <= c * b /\ c * f <= e * d => a * f <= e * b

LEMMA LessThrough == \A a, b, c, d, e, f \in Nat \ {0} : Through(a, b, c, d, e, f)
<1> SUFFICES ASSUME NEW a \in Nat \ {0}, NEW b \in Nat \ {0}, NEW c \in Nat \ {0},
                    NEW d \in Nat \ {0}, NEW e \in Nat \ {0}, NEW f \in Nat \ {0}
             PROVE  /\ a * d < c * b /\ c * f <= e * d => a * f < e * b
                    /\ a * d <= c * b /\ c * f < e * d => a * f < e * b
                    /\ a * d <= c * b /\ c * f <= e * d => a * f <= e * b
  BY DEF Through
<1>1. \A x, y, z \in Nat : z # 0 /\ x < y => x * z < y * z
  <2> SUFFICES ASSUME NEW x \in Nat, NEW y \in Nat, NEW z \in Nat, z # 0, x < y
               PROVE  x * z < y * z
    OBVIOUS
  <2>1. (x + 1) * z <= y * z
    BY ProductGrows
  <2>2. (x + 1) * z = x * z + z /\ x * z \in Nat /\ y * z \in Nat
    OBVIOUS
  <2>3. QED
    BY <2>1, <2>2
<1>2. /\ (a * d) * f = (a * f) * d /\ (c * b) * f = (c * f) * b
      /\ (e * d) * b = (e * b) * d
  OBVIOUS
<1>3. /\ a * d \in Nat /\ c * b \in Nat /\ c * f \in Nat /\ e * d \in Nat
      /\ a * f \in Nat /\ e * b \in Nat
  OBVIOUS
<1>4. /\ (a * d) * f \in Nat /\ (c * b) * f \in Nat /\ (e * d) * b \in Nat
  BY <1>3
<1> DEFINE ad == a * d
           cb == c * b
           cf == c * f
           ed == e * d
           af == a * f
           eb == e * b
<1>5. /\ ad \in Nat /\ cb \in Nat /\ cf \in Nat /\ ed \in Nat /\ af \in Nat /\ eb \in Nat
      /\ ad * f = af * d /\ cb * f = cf * b /\ ed * b = eb * d
      /\ ad * f \in Nat /\ cb * f \in Nat /\ ed * b \in Nat
  BY <1>2, <1>3, <1>4
<1> HIDE DEF ad, cb, cf, ed, af, eb
<1>6. /\ (ad < cb => ad * f < cb * f) /\ (ad <= cb => ad * f <= cb * f)
      /\ (cf < ed => cf * b < ed * b) /\ (cf <= ed => cf * b <= ed * b)
  BY <1>1, <1>5, ProductGrows
<1>7. (af * d < eb * d => af < eb) /\ (af * d <= eb * d => af <= eb)
  BY <1>1, <1>5, ProductGrows
<1>8. /\ ad < cb /\ cf <= ed => af < eb
      /\ ad <= cb /\ cf < ed => af < eb
      /\ ad <= cb /\ cf <= ed => af <= eb
  <2> DEFINE x == ad * f
             y == cb * f
             z == ed * b
  <2>1. /\ x \in Nat /\ y \in Nat /\ z \in Nat
        /\ (ad < cb => x < y) /\ (ad <= cb => x <= y)
        /\ (cf < ed => y < z) /\ (cf <= ed => y <= z)
        /\ (x < z => af < eb) /\ (x <= z => af <= eb)
    BY <1>5, <1>6, <1>7
  <2> HIDE DEF x, y, z
  <2>2. QED
    BY <2>1
<1>9. QED
  BY <1>8 DEF ad, cb, cf, ed, af, eb

\* What is rounded from a plausible ratio.
Rounded(q) == (2000 * q[1] + q[2]) \div (2 * q[2])

Near(f, q) ==
    /\ f \in 50..5000
    /\ 1000 * q[1] <= (f + 1) * q[2]
    /\ 1000 * q[1] >= (f - 1) * q[2]

LEMMA RoundedIsNear == \A q \in Ratio : Near(Rounded(q), q)
<1> SUFFICES ASSUME NEW q \in Ratio PROVE Near(Rounded(q), q)
  OBVIOUS
<1> DEFINE a == q[1]
           b == q[2]
           f == Rounded(q)
           d == 2 * b
           n == 2000 * a + b
<1>1. /\ a \in Nat \ {0} /\ b \in Nat \ {0} /\ 20 * a >= b /\ a <= 5 * b
  BY RatiosArePositive
<1>2. n \in Nat /\ d \in Nat /\ d > 0 /\ f = n \div d
  BY <1>1 DEF Rounded
<1>3. f \in Nat /\ f * d <= n /\ n < f * d + d
  <2> HIDE DEF n, d, f
  <2>1. QED
    BY <1>2
<1> DEFINE p == f * b
<1>4. f * d = 2 * p /\ p \in Nat
  BY <1>1, <1>3
<1>5. (f + 1) * b = p + b /\ (f - 1) * b = p - b
  BY <1>1, <1>3
<1>6. ~(f <= 49) /\ ~(f >= 5001)
  <2>1. f <= 49 => p <= 49 * b
    BY <1>1, <1>3, ProductGrows
  <2>2. f >= 5001 => 5001 * b <= p
    BY <1>1, <1>3, ProductGrows
  <2> HIDE DEF p, f, a, b
  <2>3. QED
    BY <1>1, <1>3, <1>4, <2>1, <2>2
<1>7. /\ f \in 50..5000
      /\ 1000 * a <= (f + 1) * b
      /\ 1000 * a >= (f - 1) * b
  <2> HIDE DEF p, f, a, b
  <2>1. QED
    BY <1>1, <1>3, <1>4, <1>5, <1>6
<1>8. QED
  BY <1>7 DEF Near

\* A factor is a rounded ratio of the machine's.
LEMMA FactorIsOfARatio ==
    ASSUME RatiosOK, NEW hw \in Machines, ratios[hw] # <<>>
    PROVE  \E i \in DOMAIN ratios[hw] : Factor(hw) = Rounded(ratios[hw][i])
<1> DEFINE rs == ratios[hw]
           n == Len(rs)
           less == {p \in (DOMAIN rs) \X (DOMAIN rs) :
                       \/ LessRatio(rs[p[1]], rs[p[2]])
                       \/ ~LessRatio(rs[p[2]], rs[p[1]]) /\ p[1] < p[2]}
           order == Arranged(DOMAIN rs, less)
<1>1. n \in Nat \ {0} /\ DOMAIN rs = 1..n /\ \A i \in 1..n : rs[i] \in Ratio
  BY DEF RatiosOK
<1>2. Factor(hw) = Rounded(rs[Middle(order)])
  BY DEF Factor, Rounded
<1> HIDE DEF rs, n
<1>3. \A i \in 1..n : rs[i][1] \in Nat \ {0} /\ rs[i][2] \in Nat \ {0}
  BY <1>1, RatiosArePositive
<1>4. Orders(less, DOMAIN rs)
  <2> DEFINE Smaller(i, j) == rs[i][1] * rs[j][2] < rs[j][1] * rs[i][2]
  <2>1. \A i, j \in 1..n :
            <<i, j>> \in less <=> Smaller(i, j) \/ (~Smaller(j, i) /\ i < j)
    BY <1>1 DEF LessRatio
  <2>2. \A i, j \in 1..n : rs[i][1] * rs[j][2] \in Nat
    BY <1>3
  <2>3. ASSUME NEW i \in 1..n, NEW j \in 1..n, NEW k \in 1..n
        PROVE  /\ Smaller(i, j) /\ ~Smaller(k, j) => Smaller(i, k)
               /\ ~Smaller(j, i) /\ Smaller(j, k) => Smaller(i, k)
               /\ ~Smaller(j, i) /\ ~Smaller(k, j) => ~Smaller(k, i)
               /\ Smaller(i, j) => ~Smaller(j, i)
    <3>1. /\ rs[i][1] * rs[j][2] < rs[j][1] * rs[i][2]
             /\ rs[j][1] * rs[k][2] <= rs[k][1] * rs[j][2]
             => rs[i][1] * rs[k][2] < rs[k][1] * rs[i][2]
          /\ rs[i][1] * rs[j][2] <= rs[j][1] * rs[i][2]
             /\ rs[j][1] * rs[k][2] < rs[k][1] * rs[j][2]
             => rs[i][1] * rs[k][2] < rs[k][1] * rs[i][2]
          /\ rs[i][1] * rs[j][2] <= rs[j][1] * rs[i][2]
             /\ rs[j][1] * rs[k][2] <= rs[k][1] * rs[j][2]
             => rs[i][1] * rs[k][2] <= rs[k][1] * rs[i][2]
      <4>1. Through(rs[i][1], rs[i][2], rs[j][1], rs[j][2], rs[k][1], rs[k][2])
        BY <1>3, LessThrough, Zenon
      <4>2. QED
        BY <4>1 DEF Through
    <3> DEFINE ij == rs[i][1] * rs[j][2]
               ji == rs[j][1] * rs[i][2]
               jk == rs[j][1] * rs[k][2]
               kj == rs[k][1] * rs[j][2]
               ik == rs[i][1] * rs[k][2]
               ki == rs[k][1] * rs[i][2]
    <3>2. /\ ij \in Nat /\ ji \in Nat /\ jk \in Nat /\ kj \in Nat /\ ik \in Nat /\ ki \in Nat
      BY <2>2
    <3>3. /\ (ij < ji /\ jk <= kj => ik < ki)
          /\ (ij <= ji /\ jk < kj => ik < ki)
          /\ (ij <= ji /\ jk <= kj => ik <= ki)
      BY <3>1
    <3>4. /\ (Smaller(i, j) <=> ij < ji) /\ (Smaller(j, i) <=> ji < ij)
          /\ (Smaller(j, k) <=> jk < kj) /\ (Smaller(k, j) <=> kj < jk)
          /\ (Smaller(i, k) <=> ik < ki) /\ (Smaller(k, i) <=> ki < ik)
      OBVIOUS
    <3> HIDE DEF ij, ji, jk, kj, ik, ki, Smaller
    <3>5. QED
      BY <3>2, <3>3, <3>4
  <2> HIDE DEF less, Smaller
  <2>4. \A i \in 1..n : <<i, i>> \notin less
    BY <1>1, <2>1, <2>3
  <2>5. \A i, j \in 1..n : i # j => <<i, j>> \in less \/ <<j, i>> \in less
    BY <1>1, <2>1, <2>3
  <2>6. ASSUME NEW i \in 1..n, NEW j \in 1..n, NEW k \in 1..n,
               <<i, j>> \in less, <<j, k>> \in less
        PROVE  <<i, k>> \in less
    <3>1. Smaller(i, j) \/ (~Smaller(j, i) /\ i < j)
      BY <2>1, <2>6
    <3>2. Smaller(j, k) \/ (~Smaller(k, j) /\ j < k)
      BY <2>1, <2>6
    <3>3. ~Smaller(k, j) /\ ~Smaller(j, i)
      BY <2>3, <3>1, <3>2
    <3>4. Smaller(i, k) \/ (~Smaller(k, i) /\ i < j /\ j < k)
      BY <2>3, <3>1, <3>2, <3>3
    <3>5. i < j /\ j < k => i < k
      BY <1>1
    <3>6. QED
      BY <2>1, <3>4, <3>5
  <2>7. QED
    BY <1>1, <2>4, <2>5, <2>6 DEF Orders
<1>5. IsFiniteSet(DOMAIN rs) /\ Cardinality(DOMAIN rs) = n
  BY <1>1, CountingUp
<1> HIDE DEF less
<1>6. InOrder(order, DOMAIN rs, less)
  BY <1>4, <1>5, ArrangedInOrder
<1> HIDE DEF order
<1>7. order \in [1..n -> 1..n]
  BY <1>1, <1>5, <1>6 DEF InOrder
<1>8. order \in Seq(1..n) /\ Len(order) = n
  BY <1>1, <1>7
<1>9. Middle(order) \in 1..n
  <2>1. (n \div 2) + 1 \in 1..n
    BY <1>1, MiddleIsInside
  <2>2. QED
    BY <1>7, <1>8, <2>1 DEF Middle
<1>10. \E i \in DOMAIN rs : Factor(hw) = Rounded(rs[i])
  BY <1>1, <1>2, <1>9
<1>11. QED
  BY <1>10 DEF rs

\* Calibrations are of machines, in the order of their keys.
LEMMA OneFactorForEachMachine ==
    ASSUME RatiosOK
    PROVE  LET calibrated == {hw \in Machines : Calibrated(hw)}
               m == Cardinality(calibrated)
           IN  /\ m \in Nat /\ DOMAIN Calibrations = 1..m
               /\ \A k \in 1..m : /\ Calibrations[k].hw \in calibrated
                                  /\ Calibrations[k].factor = Factor(Calibrations[k].hw)
               /\ \A j, k \in 1..m : j < k => Calibrations[j].hw < Calibrations[k].hw
<1> DEFINE calibrated == {hw \in Machines : Calibrated(hw)}
           m == Cardinality(calibrated)
           before == {p \in Machines \X Machines : p[1] < p[2]}
           hws == Arranged(calibrated, before)
<1>1. IsFiniteSet(calibrated)
  <2>1. calibrated \in SUBSET Machines
    OBVIOUS
  <2> HIDE DEF calibrated
  <2>2. QED
    BY <2>1, MachinesAssumption, FS_Subset
<1>2. calibrated \subseteq Machines
  OBVIOUS
<1>3. Calibrations = [k \in DOMAIN hws |-> [hw |-> hws[k], factor |-> Factor(hws[k]),
                                            samples |-> IF Len(ratios[hws[k]]) > U8Max
                                                        THEN U8Max ELSE Len(ratios[hws[k]])]]
  BY DEF Calibrations
<1> HIDE DEF calibrated
<1>4. \A g, h \in Machines : <<g, h>> \in before <=> g < h
  OBVIOUS
<1> HIDE DEF before
<1>5. Orders(before, calibrated)
  BY <1>2, <1>4, MachinesAreNumbers DEF Orders
<1>6. InOrder(hws, calibrated, before)
  BY <1>1, <1>5, ArrangedInOrder
<1> HIDE DEF hws
<1>7. /\ m \in Nat /\ hws \in [1..m -> calibrated]
      /\ \A j, k \in 1..m : j < k => <<hws[j], hws[k]>> \in before
  BY <1>6 DEF InOrder
<1> HIDE DEF m
<1>8. DOMAIN Calibrations = 1..m
  BY <1>3, <1>7
<1>9. \A k \in 1..m : Calibrations[k].hw = hws[k] /\ Calibrations[k].factor = Factor(hws[k])
  BY <1>3, <1>7
<1>10. \A j, k \in 1..m : j < k => hws[j] < hws[k]
  BY <1>2, <1>4, <1>7
<1>11. /\ m \in Nat /\ DOMAIN Calibrations = 1..m
       /\ \A k \in 1..m : /\ Calibrations[k].hw \in calibrated
                          /\ Calibrations[k].factor = Factor(Calibrations[k].hw)
       /\ \A j, k \in 1..m : j < k => Calibrations[j].hw < Calibrations[k].hw
  BY <1>7, <1>8, <1>9, <1>10
<1>12. QED
  BY <1>11 DEF m, calibrated

\* What is returned is nothing yet, or what the groups and ratios come to.
OutputOK ==
    output \in {[measurements |-> <<>>, calibrations |-> <<>>],
                [measurements |-> MeasurementRows, calibrations |-> Calibrations]}

LEMMA ReadyToSearch ==
    ASSUME GroupsOK, RatiosOK, OutputOK
    PROVE  RowsAreReadyToSearch
<1> DEFINE ms == output.measurements
           cs == output.calibrations
           measured == [k \in DOMAIN ms |-> [hw |-> ms[k].hw, index |-> ms[k].index]]
           calibrated == [k \in DOMAIN cs |-> [hw |-> cs[k].hw, index |-> 0]]
<1>1. 0 \in Nat /\ DOMAIN <<>> = 1..0
  OBVIOUS
<1>2. SectionType(SectionOf(measured))
  <2>1. CASE ms = <<>>
    <3>1. measured \in [1..0 -> Row]
      BY <1>1, <2>1
    <3> HIDE DEF measured
    <3>2. \A j, k \in 1..0 : j < k => Below(<<measured[j].hw, measured[j].index>>,
                                            <<measured[k].hw, measured[k].index>>)
      OBVIOUS
    <3>3. QED
      BY <1>1, <3>1, <3>2, OrderedRowsAreASection
  <2>2. CASE ms = MeasurementRows
    <3> HIDE DEF ms
    <3> DEFINE n == Cardinality(DOMAIN grouped)
    <3>1. /\ n \in Nat /\ DOMAIN ms = 1..n
          /\ \A k \in 1..n : \E pair \in DOMAIN grouped : ms[k] = MeasurementOf(pair)
          /\ \A j, k \in 1..n : j < k => Below(<<ms[j].hw, ms[j].index>>,
                                               <<ms[k].hw, ms[k].index>>)
      BY <2>2, OneRowForEachGroup
    <3>2. \A k \in 1..n : ms[k].hw \in Nat /\ ms[k].index \in Indices
      BY <3>1, RowsAreKeyed, MachinesAreNumbers DEF GroupsOK, Pairs
    <3> HIDE DEF n
    <3>3. measured \in [1..n -> Row]
      BY <3>1, <3>2 DEF Row, Indices
    <3>4. \A k \in 1..n : measured[k].hw = ms[k].hw /\ measured[k].index = ms[k].index
      BY <3>1
    <3>5. \A j, k \in 1..n : j < k => Below(<<measured[j].hw, measured[j].index>>,
                                            <<measured[k].hw, measured[k].index>>)
      BY <3>1, <3>4
    <3> HIDE DEF measured
    <3>6. QED
      BY <3>1, <3>3, <3>5, OrderedRowsAreASection
  <2>3. QED
    BY <2>1, <2>2 DEF OutputOK
<1>3. SectionType(SectionOf(calibrated))
  <2>1. CASE cs = <<>>
    <3>1. calibrated \in [1..0 -> Row]
      BY <1>1, <2>1
    <3> HIDE DEF calibrated
    <3>2. \A j, k \in 1..0 : j < k => Below(<<calibrated[j].hw, calibrated[j].index>>,
                                            <<calibrated[k].hw, calibrated[k].index>>)
      OBVIOUS
    <3>3. QED
      BY <1>1, <3>1, <3>2, OrderedRowsAreASection
  <2>2. CASE cs = Calibrations
    <3> HIDE DEF cs
    <3> DEFINE m == Cardinality({hw \in Machines : Calibrated(hw)})
    <3>1. /\ m \in Nat /\ DOMAIN cs = 1..m
          /\ \A k \in 1..m : cs[k].hw \in Machines
          /\ \A j, k \in 1..m : j < k => cs[j].hw < cs[k].hw
      BY <2>2, OneFactorForEachMachine
    <3> HIDE DEF m
    <3>2. \A k \in 1..m : cs[k].hw \in Nat /\ 0 \in 0..(Span - 1)
      BY <3>1, MachinesAreNumbers, SpanAssumption
    <3>3. calibrated \in [1..m -> Row]
      BY <3>1, <3>2 DEF Row
    <3>4. \A k \in 1..m : calibrated[k].hw = cs[k].hw
      BY <3>1
    <3>5. \A j, k \in 1..m : j < k => Below(<<calibrated[j].hw, calibrated[j].index>>,
                                            <<calibrated[k].hw, calibrated[k].index>>)
      BY <3>1, <3>4 DEF Below
    <3> HIDE DEF calibrated
    <3>6. QED
      BY <3>1, <3>3, <3>5, OrderedRowsAreASection
  <2>3. QED
    BY <2>1, <2>2 DEF OutputOK
<1>4. QED
  BY <1>2, <1>3 DEF RowsAreReadyToSearch

LEMMA FactorsHaveSupport ==
    ASSUME RatiosOK, OutputOK
    PROVE  FactorsAreSupported
<1> SUFFICES ASSUME NEW c \in Range(output.calibrations)
             PROVE  /\ Len(ratios[c.hw]) >= 2
                    /\ c.factor \in 50..5000
                    /\ \E r \in Range(ratios[c.hw]) : 1000 * r[1] <= (c.factor + 1) * r[2]
                    /\ \E r \in Range(ratios[c.hw]) : 1000 * r[1] >= (c.factor - 1) * r[2]
  BY DEF FactorsAreSupported
<1>1. c \in Range(Calibrations)
  BY DEF OutputOK, Range
<1>2. /\ c.hw \in Machines /\ Calibrated(c.hw) /\ c.factor = Factor(c.hw)
  BY <1>1, OneFactorForEachMachine DEF Range
<1> DEFINE rs == ratios[c.hw]
<1>3. rs \in Seq(Ratio) /\ Len(rs) >= 2 /\ rs # <<>>
  BY <1>2 DEF Calibrated, RatiosOK
<1>4. PICK i \in DOMAIN rs : c.factor = Rounded(rs[i])
  BY <1>2, <1>3, FactorIsOfARatio
<1>5. rs[i] \in Ratio /\ rs[i] \in Range(rs)
  BY <1>3 DEF Range
<1>6. /\ c.factor \in 50..5000
      /\ 1000 * rs[i][1] <= (c.factor + 1) * rs[i][2]
      /\ 1000 * rs[i][1] >= (c.factor - 1) * rs[i][2]
  <2>1. Near(c.factor, rs[i])
    BY <1>4, <1>5, RoundedIsNear
  <2>2. QED
    BY <2>1 DEF Near
<1>7. QED
  BY <1>3, <1>5, <1>6

-----------------------------------------------------------------------------
(***************************************************************************)
(* What has been read                                                      *)
(***************************************************************************)
AllSources == UNION {{path} \X DOMAIN Contents[path].results : path \in Paths}

\* What is left in hand of a file of which n results have been read.
Rest(all, n) ==
    /\ n \in 0..Len(all) /\ Len(results) = Len(all) - n
    /\ \A k \in 1..Len(results) : results[k] = all[n + k]

\* The results read so far: those of the files handed over, but of the one in
\* hand the first n only.
HasRead(path, n) == {s \in AllSources : s[1] \notin todo /\ (s[1] = path => s[2] <= n)}

IsRead(R) ==
    IF reading = "file"
    THEN \E path \in Paths \ todo : \E n \in Nat :
            /\ Contents[path].submission /\ machine = MachineOf(Contents[path])
            /\ Rest(Contents[path].results, n)
            /\ R = HasRead(path, n)
    ELSE R = {s \in AllSources : s[1] \notin todo}

\* b says which submission each sample of s is of: every one in T, each once.
Fits(b, s, T) ==
    /\ b \in Bijection(1..Len(s), T)
    /\ \A k \in 1..Len(s) : s[k] = SampleOf(At(b[k]))

GroupOf(pair) == IF pair \in DOMAIN grouped THEN grouped[pair] ELSE <<>>

Tallied(R) == \A pair \in Pairs : \E b : Fits(b, GroupOf(pair), Submitted(pair[1], pair[2]) \cap R)

IngestInv ==
    /\ reading \in {"idle", "walk", "file", "done"}
    /\ \A key \in DOMAIN index : index[key] \in Indices
    /\ todo \subseteq Paths
    /\ reading = "idle" => todo = Paths /\ grouped = <<>>
    /\ reading = "file" => machine \in Machines /\ results \in Seq(AllResults)
    /\ GroupsOK /\ RatiosOK
    /\ \E R : IsRead(R) /\ Tallied(R)
    /\ output = IF reading = "done"
                THEN [measurements |-> MeasurementRows, calibrations |-> Calibrations]
                ELSE [measurements |-> <<>>, calibrations |-> <<>>]

LEMMA MachineOfAFile ==
    \A path \in Paths : MachineOf(Contents[path]) # None => MachineOf(Contents[path]) \in Machines
<1> SUFFICES ASSUME NEW path \in Paths, MachineOf(Contents[path]) # None
             PROVE  MachineOf(Contents[path]) \in Machines
  OBVIOUS
<1>1. Contents[path].name \in DOMAIN HwKey \cup {None}
  BY ContentsAssumption DEF File
<1>2. Contents[path].name # None /\ MachineOf(Contents[path]) = HwKey[Contents[path].name]
  BY DEF MachineOf
<1>3. QED
  BY <1>1, <1>2 DEF Machines

LEMMA ResultsOfAFile ==
    \A path \in Paths : /\ Contents[path].results \in Seq(AllResults)
                        /\ Contents[path].results \in Seq(Result)
<1> SUFFICES ASSUME NEW path \in Paths
             PROVE  /\ Contents[path].results \in Seq(AllResults)
                    /\ Contents[path].results \in Seq(Result)
  OBVIOUS
<1>1. Contents[path].results \in Seq(Result)
  BY ContentsAssumption DEF File
<1>2. \A k \in 1..Len(Contents[path].results) : Contents[path].results[k] \in AllResults
  BY <1>1 DEF AllResults, Range
<1>3. QED
  BY <1>1, <1>2

\* One more sample, one more submission.
LEMMA FitsOneMore ==
    \A s \in Seq(Samples) : \A b, T, x :
        Fits(b, s, T) /\ x \notin T
        => \E c : Fits(c, s \o <<SampleOf(At(x))>>, T \cup {x})
<1> SUFFICES ASSUME NEW s \in Seq(Samples), NEW b, NEW T, NEW x, Fits(b, s, T), x \notin T
             PROVE  \E c : Fits(c, s \o <<SampleOf(At(x))>>, T \cup {x})
  OBVIOUS
<1> DEFINE n == Len(s)
           e == SampleOf(At(x))
           t == s \o <<e>>
           c == [k \in 1..(n + 1) |-> IF k = n + 1 THEN x ELSE b[k]]
<1>1. n \in Nat /\ Len(t) = n + 1 /\ t[n + 1] = e /\ \A k \in 1..n : t[k] = s[k]
  OBVIOUS
<1>2. /\ b \in [1..n -> T] /\ (\A j, k \in 1..n : b[j] = b[k] => j = k)
      /\ \A y \in T : \E k \in 1..n : b[k] = y
      /\ \A k \in 1..n : s[k] = SampleOf(At(b[k]))
  BY DEF Fits, Bijection, Injection, Surjection, IsInjective
<1> HIDE DEF t, e, n
<1>3. c \in [1..(n + 1) -> T \cup {x}] /\ c[n + 1] = x /\ \A k \in 1..n : c[k] = b[k]
  BY <1>1, <1>2
<1>4. \A k \in 1..(n + 1) : k = n + 1 \/ k \in 1..n
  BY <1>1
<1> HIDE DEF c
<1>5. \A j, k \in 1..(n + 1) : c[j] = c[k] => j = k
  BY <1>2, <1>3, <1>4
<1>6. \A y \in T \cup {x} : \E k \in 1..(n + 1) : c[k] = y
  BY <1>1, <1>2, <1>3
<1>7. \A k \in 1..(n + 1) : t[k] = SampleOf(At(c[k]))
  BY <1>1, <1>2, <1>3, <1>4 DEF e
<1>8. Fits(c, t, T \cup {x})
  BY <1>1, <1>3, <1>5, <1>6, <1>7 DEF Fits, Bijection, Injection, Surjection, IsInjective
<1>9. QED
  BY <1>8 DEF t, e

LEMMA NothingFits == Fits(<<>>, <<>>, {})
BY DEF Fits, Bijection, Injection, Surjection, IsInjective

-----------------------------------------------------------------------------
(***************************************************************************)
(* The steps of an ingest                                                  *)
(***************************************************************************)
\* What is read besides is of no machine and model.
LEMMA TallyStays ==
    ASSUME UNCHANGED <<index, grouped>>, NEW R, NEW Q, Tallied(R),
           \A pair \in Pairs :
               Submitted(pair[1], pair[2]) \cap R = Submitted(pair[1], pair[2]) \cap Q
    PROVE  Tallied(Q)'
<1>1. \A pair : GroupOf(pair)' = GroupOf(pair)
  BY DEF GroupOf
<1>2. \A hw, i : Submitted(hw, i)' = Submitted(hw, i)
  BY DEF Submitted, Matches
<1>3. ASSUME NEW pair \in Pairs
      PROVE  \E b : Fits(b, GroupOf(pair)', Submitted(pair[1], pair[2])' \cap Q)
  <2>1. PICK b : Fits(b, GroupOf(pair), Submitted(pair[1], pair[2]) \cap R)
    BY DEF Tallied
  <2>2. Submitted(pair[1], pair[2])' \cap Q = Submitted(pair[1], pair[2]) \cap R
    BY <1>2
  <2>3. QED
    BY <1>1, <2>1, <2>2
<1>4. QED
  BY <1>3 DEF Tallied

\* The parts of the invariant that reading leaves alone.
LEMMA ReadingKeeps ==
    ASSUME IngestInv, UNCHANGED <<index, grouped, ratios, output>>,
           reading \in {"walk", "file"}, reading' \in {"walk", "file"}, todo' \subseteq Paths,
           reading' = "file" => machine' \in Machines /\ results' \in Seq(AllResults),
           NEW R, IsRead(R)', Tallied(R)'
    PROVE  IngestInv'
<1>1. GroupsOK' /\ RatiosOK'
  BY DEF IngestInv, GroupsOK, RatiosOK
<1>2. \E Q : IsRead(Q)' /\ Tallied(Q)'
  OBVIOUS
<1>3. output' = [measurements |-> <<>>, calibrations |-> <<>>] /\ reading' # "done"
  BY DEF IngestInv
<1>4. /\ reading' \in {"idle", "walk", "file", "done"} /\ reading' # "idle"
      /\ \A key \in DOMAIN index' : index'[key] \in Indices
  BY DEF IngestInv
<1>5. QED
  BY <1>1, <1>2, <1>3, <1>4 DEF IngestInv

\* Nothing of a malformed file, or of nobody's, is of a machine.
LEMMA SkipKeepsIngest ==
    ASSUME IngestInv, NEW path \in Paths, SkipMalformed(path) \/ SkipAnonymous(path)
    PROVE  IngestInv'
<1>1. /\ reading = "walk" /\ reading' = "walk" /\ path \in todo
      /\ ~Contents[path].submission \/ MachineOf(Contents[path]) = None
      /\ todo' = todo \ {path} /\ UNCHANGED <<index, grouped, ratios, output>>
  BY DEF SkipMalformed, SkipAnonymous
<1>2. PICK R : IsRead(R) /\ Tallied(R)
  BY DEF IngestInv
<1> PICK Q : Q = {s \in AllSources : s[1] \notin todo'}
  OBVIOUS
<1>3. R = {s \in AllSources : s[1] \notin todo}
  BY <1>1, <1>2 DEF IsRead
<1>4. IsRead(Q)'
  BY <1>1 DEF IsRead
<1>5. ASSUME NEW pair \in Pairs
      PROVE  Submitted(pair[1], pair[2]) \cap R = Submitted(pair[1], pair[2]) \cap Q
  <2>1. pair[1] # None
    BY MachinesAssumption DEF Pairs
  <2>2. \A s \in Submitted(pair[1], pair[2]) : s[1] # path
    BY <1>1, <2>1 DEF Submitted
  <2>3. QED
    BY <1>1, <1>3, <2>2
<1>6. Tallied(Q)'
  BY <1>1, <1>2, <1>5, TallyStays
<1>7. QED
  BY <1>1, <1>4, <1>6, ReadingKeeps DEF IngestInv

\* A file in hand of which nothing is read yet adds nothing to what is read.
LEMMA TakeKeepsIngest ==
    ASSUME IngestInv, NEW path \in Paths, TakeFile(path)
    PROVE  IngestInv'
<1>1. /\ reading = "walk" /\ reading' = "file" /\ path \in todo /\ path \notin todo'
      /\ Contents[path].submission /\ machine' = MachineOf(Contents[path])
      /\ machine' # None /\ results' = Contents[path].results
      /\ todo' = todo \ {path} /\ UNCHANGED <<index, grouped, ratios, output>>
  BY DEF TakeFile
<1>2. PICK R : IsRead(R) /\ Tallied(R)
  BY DEF IngestInv
<1>3. R = {s \in AllSources : s[1] \notin todo}
  BY <1>1, <1>2 DEF IsRead
<1>4. \A s \in AllSources : ~(s[1] = path /\ s[2] <= 0)
  BY ResultsOfAFile DEF AllSources
<1>5. R = HasRead(path, 0)'
  BY <1>1, <1>3, <1>4 DEF HasRead
<1>6. Rest(Contents[path].results, 0)'
  BY <1>1, ResultsOfAFile DEF Rest
<1>7. IsRead(R)'
  BY <1>1, <1>5, <1>6 DEF IsRead
<1>8. Tallied(R)'
  BY <1>1, <1>2, TallyStays
<1>9. machine' \in Machines /\ results' \in Seq(AllResults)
  BY <1>1, MachineOfAFile, ResultsOfAFile
<1>10. todo' \subseteq Paths
  BY <1>1 DEF IngestInv
<1>11. QED
  BY <1>1, <1>7, <1>8, <1>9, <1>10, ReadingKeeps

\* A result in hand is one that was not read yet, of the machine in hand.
NextOne(x, r, R) ==
    /\ x \in AllSources /\ x \notin R /\ At(x) = r /\ r \in AllResults
    /\ Contents[x[1]].submission /\ machine = MachineOf(Contents[x[1]])

LEMMA TheNextResult ==
    ASSUME IngestInv, NEW r, Reading(r), NEW R, IsRead(R)
    PROVE  \E x : NextOne(x, r, R) /\ IsRead(R \cup {x})'
<1>1. /\ reading = "file" /\ results # <<>> /\ r = Head(results) /\ results' = Tail(results)
      /\ results \in Seq(AllResults)
      /\ UNCHANGED <<index, todo, reading, machine, output>>
  BY DEF Reading, IngestInv
<1>2. PICK path \in Paths \ todo : \E n \in Nat :
          /\ Contents[path].submission /\ machine = MachineOf(Contents[path])
          /\ Rest(Contents[path].results, n)
          /\ R = HasRead(path, n)
  BY <1>1 DEF IsRead
<1>3. PICK n \in Nat :
          /\ Contents[path].submission /\ machine = MachineOf(Contents[path])
          /\ Rest(Contents[path].results, n)
          /\ R = HasRead(path, n)
  BY <1>2
<1> DEFINE all == Contents[path].results
           x == <<path, n + 1>>
<1>4. all \in Seq(AllResults) /\ DOMAIN all = 1..Len(all) /\ Len(all) \in Nat
  BY ResultsOfAFile
<1>5. n + 1 \in 1..Len(all) /\ r = all[n + 1]
  <2>1. Len(results) \in Nat \ {0} /\ r = results[1]
    BY <1>1
  <2>2. Len(results) = Len(all) - n /\ results[1] = all[n + 1]
    BY <1>3, <2>1 DEF Rest
  <2> DEFINE left == Len(results)
             whole == Len(all)
  <2>3. left \in Nat \ {0} /\ whole \in Nat /\ left = whole - n
    BY <1>4, <2>1, <2>2
  <2> HIDE DEF left, whole
  <2>4. n + 1 \in 1..whole
    BY <2>3
  <2>5. QED
    BY <2>1, <2>2, <2>4 DEF whole
<1>6. Rest(all, n + 1)'
  <2>1. /\ Len(results) \in Nat \ {0} /\ Len(results') = Len(results) - 1
        /\ \A k \in 1..Len(results') : results'[k] = results[k + 1] /\ k + 1 \in 1..Len(results)
    BY <1>1
  <2> HIDE DEF all
  <2>2. /\ Len(results) = Len(all) - n
        /\ \A k \in 1..Len(results) : results[k] = all[n + k]
    BY <1>3 DEF Rest, all
  <2>3. Len(results') = Len(all) - (n + 1)
    <3> DEFINE left == Len(results)
               whole == Len(all)
    <3>1. left \in Nat /\ whole \in Nat /\ left = whole - n
      BY <1>4, <2>1, <2>2
    <3> HIDE DEF left, whole
    <3>2. left - 1 = whole - (n + 1)
      BY <3>1
    <3>3. QED
      BY <2>1, <3>2 DEF left, whole
  <2>4. \A k \in 1..Len(results') : n + (k + 1) = (n + 1) + k
    OBVIOUS
  <2>5. \A k \in 1..Len(results') : results'[k] = all[(n + 1) + k]
    BY <2>1, <2>2, <2>4
  <2>6. n + 1 \in 0..Len(all)
    BY <1>4, <1>5
  <2>7. QED
    BY <2>3, <2>5, <2>6 DEF Rest, all
<1>7. x \in AllSources
  BY <1>4, <1>5 DEF AllSources
<1>8. x \notin R
  BY <1>3 DEF HasRead
<1>9. HasRead(path, n + 1)' = R \cup {x}
  <2>1. \A s \in AllSources : s = <<s[1], s[2]>> /\ s[2] \in Nat
    BY ResultsOfAFile DEF AllSources
  <2>2. ASSUME NEW s \in AllSources
        PROVE  s[2] <= n + 1 <=> (s[2] <= n \/ s[2] = n + 1)
    BY <2>1
  <2>3. \A s \in AllSources : s = x <=> s[1] = path /\ s[2] = n + 1
    BY <2>1
  <2>4. todo' = todo /\ path \notin todo
    BY <1>1
  <2>5. HasRead(path, n + 1)' = {s \in AllSources : s[1] \notin todo /\ (s[1] = path => s[2] <= n + 1)}
    BY <2>4 DEF HasRead
  <2>6. R = {s \in AllSources : s[1] \notin todo /\ (s[1] = path => s[2] <= n)}
    BY <1>3 DEF HasRead
  <2> HIDE DEF x
  <2>7. QED
    BY <1>7, <2>2, <2>3, <2>4, <2>5, <2>6
<1>10. IsRead(R \cup {x})'
  <2>1. R \cup {x} = HasRead(path, n + 1)'
    BY <1>9
  <2> HIDE DEF x
  <2>2. QED
    BY <1>1, <1>3, <1>6, <2>1 DEF IsRead
<1>11. At(x) = r /\ r \in AllResults
  BY <1>4, <1>5 DEF At
<1>12. Contents[x[1]].submission /\ machine = MachineOf(Contents[x[1]])
  BY <1>3
<1>13. NextOne(x, r, R)
  <2> HIDE DEF x
  <2>1. QED
    BY <1>7, <1>8, <1>11, <1>12 DEF NextOne
<1>14. QED
  BY <1>10, <1>13

\* Whom a result counts for.
LEMMA WhatIsSubmitted ==
    \A hw, i : Submitted(hw, i) =
        {s \in AllSources : /\ Contents[s[1]].submission /\ MachineOf(Contents[s[1]]) = hw
                            /\ At(s).tps > 0 /\ Matches(At(s)) /\ index[KeyOf[At(s).model]] = i}
BY DEF Submitted, AllSources, At

\* One that counts for nobody is only counted.
LEMMA PassedOverKeepsIngest ==
    ASSUME IngestInv, NEW r \in AllResults, Immeasurable(r) \/ Unmatched(r)
    PROVE  IngestInv'
<1>1. /\ Reading(r) /\ UNCHANGED <<grouped, ratios>>
      /\ r.tps = 0 \/ ~Matches(r)
  BY DEF Immeasurable, Unmatched
<1>2. /\ reading = "file" /\ reading' = "file" /\ results # <<>> /\ results' = Tail(results)
      /\ UNCHANGED <<index, todo, machine, output>>
  BY <1>1 DEF Reading
<1>3. PICK R : IsRead(R) /\ Tallied(R)
  BY DEF IngestInv
<1>4. PICK x : NextOne(x, r, R) /\ IsRead(R \cup {x})'
  BY <1>1, <1>3, TheNextResult
<1>5. \A hw, i : x \notin Submitted(hw, i)
  <2>1. ~(At(x).tps > 0 /\ Matches(At(x)))
    BY <1>1, <1>4 DEF NextOne
  <2>2. QED
    BY <2>1, WhatIsSubmitted
<1>6. Tallied(R \cup {x})'
  <2>1. \A pair \in Pairs : Submitted(pair[1], pair[2]) \cap R
                            = Submitted(pair[1], pair[2]) \cap (R \cup {x})
    BY <1>5
  <2>2. UNCHANGED <<index, grouped>>
    BY <1>1, <1>2
  <2>3. QED
    BY <1>3, <2>1, <2>2, TallyStays
<1>7. machine' \in Machines /\ results' \in Seq(AllResults) /\ todo' \subseteq Paths
  BY <1>2 DEF IngestInv
<1>8. QED
  BY <1>1, <1>2, <1>4, <1>6, <1>7, ReadingKeeps

\* The pair a result in hand counts for.
ItsPair(r) == <<machine, index[KeyOf[r.model]]>>

LEMMA RecordedPair ==
    ASSUME IngestInv, NEW r \in AllResults, Record(r)
    PROVE  /\ ItsPair(r) \in Pairs
           /\ DOMAIN grouped' = DOMAIN grouped \cup {ItsPair(r)}
           /\ \A pair : GroupOf(pair)' = IF pair = ItsPair(r)
                                         THEN GroupOf(pair) \o <<SampleOf(r)>>
                                         ELSE GroupOf(pair)
<1> DEFINE p0 == ItsPair(r)
<1>1. p0 \in Pairs
  BY DEF Record, Reading, IngestInv, Pairs, Matches, ItsPair
<1>2. grouped' = [p \in DOMAIN grouped \cup {p0} |->
                     GroupOf(p) \o (IF p = p0 THEN <<SampleOf(r)>> ELSE <<>>)]
  BY DEF Record, GroupOf, ItsPair
<1>3. \A p : GroupOf(p) \in Seq(Samples)
  <2>1. \A p \in DOMAIN grouped : grouped[p] \in Seq(Samples)
    BY DEF IngestInv, GroupsOK
  <2>2. QED
    BY <2>1 DEF GroupOf
<1>4. \A p : GroupOf(p) \o <<>> = GroupOf(p)
  BY <1>3
<1> HIDE DEF p0
<1>5. DOMAIN grouped' = DOMAIN grouped \cup {p0}
  BY <1>2
<1>6. ASSUME NEW pair
      PROVE  GroupOf(pair)' = IF pair = p0 THEN GroupOf(pair) \o <<SampleOf(r)>>
                              ELSE GroupOf(pair)
  <2>1. CASE pair = p0
    <3>1. grouped'[pair] = GroupOf(pair) \o <<SampleOf(r)>> /\ pair \in DOMAIN grouped'
      BY <1>2, <1>5, <2>1
    <3>2. QED
      BY <2>1, <3>1 DEF GroupOf
  <2>2. CASE pair # p0 /\ pair \in DOMAIN grouped
    <3>1. grouped'[pair] = GroupOf(pair) /\ pair \in DOMAIN grouped'
      BY <1>2, <1>4, <1>5, <2>2
    <3>2. QED
      BY <2>2, <3>1 DEF GroupOf
  <2>3. CASE pair # p0 /\ pair \notin DOMAIN grouped
    <3>1. pair \notin DOMAIN grouped'
      BY <1>5, <2>3
    <3>2. QED
      BY <2>3, <3>1 DEF GroupOf
  <2>4. QED
    BY <2>1, <2>2, <2>3
<1>7. QED
  BY <1>1, <1>5, <1>6 DEF p0

LEMMA RecordKeepsGroups ==
    ASSUME IngestInv, NEW r \in AllResults, Record(r)
    PROVE  GroupsOK'
<1> DEFINE p0 == ItsPair(r)
<1>1. /\ p0 \in Pairs /\ DOMAIN grouped' = DOMAIN grouped \cup {p0}
      /\ \A pair : GroupOf(pair)' = IF pair = p0 THEN GroupOf(pair) \o <<SampleOf(r)>>
                                    ELSE GroupOf(pair)
  BY RecordedPair
<1>2. IsFiniteSet(DOMAIN grouped) /\ DOMAIN grouped \subseteq Pairs
  BY DEF IngestInv, GroupsOK
<1> HIDE DEF p0
<1>3. IsFiniteSet(DOMAIN grouped') /\ DOMAIN grouped' \subseteq Pairs
  BY <1>1, <1>2, FS_AddElement
<1>4. SampleOf(r) \in Samples
  BY DEF Samples, Record
<1>5. ASSUME NEW pair \in DOMAIN grouped' PROVE grouped'[pair] \in Seq(Samples) \ {<<>>}
  <2>1. grouped'[pair] = GroupOf(pair)'
    BY DEF GroupOf
  <2>2. /\ pair \in DOMAIN grouped => GroupOf(pair) \in Seq(Samples) \ {<<>>}
        /\ pair \notin DOMAIN grouped => GroupOf(pair) = <<>>
    BY DEF GroupOf, IngestInv, GroupsOK
  <2>3. CASE pair = p0
    <3>1. GroupOf(pair) \in Seq(Samples)
      BY DEF GroupOf, IngestInv, GroupsOK
    <3>2. grouped'[pair] = GroupOf(pair) \o <<SampleOf(r)>>
      BY <1>1, <2>1, <2>3
    <3>3. QED
      BY <1>4, <3>1, <3>2
  <2>4. CASE pair # p0
    BY <1>1, <2>1, <2>2, <2>4
  <2>5. QED
    BY <2>3, <2>4
<1>6. QED
  BY <1>3, <1>5 DEF GroupsOK

LEMMA RecordKeepsRatios ==
    ASSUME IngestInv, NEW r \in AllResults, Record(r)
    PROVE  RatiosOK'
<1>1. r.tps \in Nat \ {0} /\ r.predicted \in Nat
  BY ResultsAreResults DEF Record, Result
<1>2. ratios \in [Machines -> Seq(Ratio)] /\ machine \in Machines
  BY DEF IngestInv, RatiosOK, Record, Reading
<1>3. CASE Plausible(r)
  <2>1. <<r.tps, r.predicted>> \in Ratio
    BY <1>1, <1>3 DEF Plausible, Ratio
  <2>2. ratios' = [ratios EXCEPT ![machine] = Append(@, <<r.tps, r.predicted>>)]
    BY <1>3 DEF Record
  <2>3. Append(ratios[machine], <<r.tps, r.predicted>>) \in Seq(Ratio)
    BY <1>2, <2>1
  <2>4. QED
    BY <1>2, <2>2, <2>3 DEF RatiosOK
<1>4. CASE ~Plausible(r)
  BY <1>2, <1>4 DEF Record, RatiosOK
<1>5. QED
  BY <1>3, <1>4

\* A sample recorded is tallied with the result it is of.
LEMMA RecordKeepsTally ==
    ASSUME IngestInv, NEW r \in AllResults, Record(r), NEW R, Tallied(R),
           NEW x, NextOne(x, r, R)
    PROVE  Tallied(R \cup {x})'
<1> DEFINE p0 == ItsPair(r)
<1>1. \A hw, i : Submitted(hw, i)' = Submitted(hw, i)
  BY DEF Submitted, Matches, Record, Reading
<1>2. \A pair : GroupOf(pair)' = IF pair = p0 THEN GroupOf(pair) \o <<SampleOf(r)>>
                                 ELSE GroupOf(pair)
  BY RecordedPair
<1>3. At(x) = r /\ x \notin R
  BY DEF NextOne
<1>4. ASSUME NEW pair \in Pairs
      PROVE  x \in Submitted(pair[1], pair[2]) <=> pair = p0
  <2>1. pair = <<pair[1], pair[2]>>
    BY DEF Pairs
  <2>2. pair = p0 <=> pair[1] = machine /\ pair[2] = index[KeyOf[r.model]]
    BY <2>1 DEF ItsPair
  <2>3. /\ x \in AllSources /\ Contents[x[1]].submission /\ MachineOf(Contents[x[1]]) = machine
        /\ At(x).tps > 0 /\ Matches(At(x))
    BY <1>3 DEF NextOne, Record
  <2>4. QED
    BY <1>3, <2>2, <2>3, WhatIsSubmitted
<1>5. ASSUME NEW pair \in Pairs
      PROVE  \E c : Fits(c, GroupOf(pair)', Submitted(pair[1], pair[2])' \cap (R \cup {x}))
  <2>1. PICK b : Fits(b, GroupOf(pair), Submitted(pair[1], pair[2]) \cap R)
    BY DEF Tallied
  <2>2. CASE pair = p0
    <3> DEFINE T == Submitted(pair[1], pair[2]) \cap R
    <3>1. Submitted(pair[1], pair[2])' \cap (R \cup {x}) = T \cup {x}
      BY <1>1, <1>4, <2>2
    <3>2. GroupOf(pair)' = GroupOf(pair) \o <<SampleOf(At(x))>>
      BY <1>2, <1>3, <2>2
    <3>3. GroupOf(pair) \in Seq(Samples)
      BY DEF GroupOf, IngestInv, GroupsOK
    <3>4. x \notin T
      BY <1>3
    <3> HIDE DEF T
    <3>5. \E c : Fits(c, GroupOf(pair) \o <<SampleOf(At(x))>>, T \cup {x})
      <4>1. Fits(b, GroupOf(pair), T)
        BY <2>1 DEF T
      <4>2. QED
        BY <3>3, <3>4, <4>1, FitsOneMore
    <3>6. QED
      BY <3>1, <3>2, <3>5
  <2>3. CASE pair # p0
    <3>1. Submitted(pair[1], pair[2])' \cap (R \cup {x}) = Submitted(pair[1], pair[2]) \cap R
      BY <1>1, <1>4, <2>3
    <3>2. GroupOf(pair)' = GroupOf(pair)
      BY <1>2, <2>3
    <3>3. QED
      BY <2>1, <3>1, <3>2
  <2>4. QED
    BY <2>2, <2>3
<1>6. QED
  BY <1>5 DEF Tallied

LEMMA RecordKeepsIngest ==
    ASSUME IngestInv, NEW r \in AllResults, Record(r)
    PROVE  IngestInv'
<1>1. Reading(r) /\ reading = "file" /\ reading' = "file" /\ output' = output
  BY DEF Record, Reading
<1>2. PICK R : IsRead(R) /\ Tallied(R)
  BY DEF IngestInv
<1>3. PICK x : NextOne(x, r, R) /\ IsRead(R \cup {x})'
  BY <1>1, <1>2, TheNextResult
<1>4. Tallied(R \cup {x})'
  BY <1>2, <1>3, RecordKeepsTally
<1>5. GroupsOK' /\ RatiosOK'
  BY RecordKeepsGroups, RecordKeepsRatios
<1>6. /\ machine' \in Machines /\ results' \in Seq(AllResults) /\ todo' \subseteq Paths
      /\ \A key \in DOMAIN index' : index'[key] \in Indices
      /\ output' = [measurements |-> <<>>, calibrations |-> <<>>]
  BY <1>1 DEF IngestInv, Reading
<1>7. \E Q : IsRead(Q)' /\ Tallied(Q)'
  BY <1>3, <1>4
<1>8. QED
  BY <1>1, <1>5, <1>6, <1>7 DEF IngestInv

\* At its end, all of a file has been read.
LEMMA EndKeepsIngest ==
    ASSUME IngestInv, EndOfFile
    PROVE  IngestInv'
<1>1. /\ reading = "file" /\ reading' = "walk" /\ results = <<>>
      /\ UNCHANGED <<index, todo, machine, results, grouped, ratios, counts, output>>
  BY DEF EndOfFile
<1>2. PICK R : IsRead(R) /\ Tallied(R)
  BY DEF IngestInv
<1>3. PICK path \in Paths \ todo : \E n \in Nat :
          Rest(Contents[path].results, n) /\ R = HasRead(path, n)
  BY <1>1, <1>2 DEF IsRead
<1>4. PICK n \in Nat : Rest(Contents[path].results, n) /\ R = HasRead(path, n)
  BY <1>3
<1> DEFINE all == Contents[path].results
<1>5. Len(all) \in Nat /\ DOMAIN all = 1..Len(all) /\ n = Len(all)
  <2>1. Len(all) \in Nat /\ DOMAIN all = 1..Len(all)
    BY ResultsOfAFile
  <2>2. Len(results) = 0 /\ Len(results) = Len(all) - n
    BY <1>1, <1>4 DEF Rest
  <2> DEFINE whole == Len(all)
  <2>3. whole \in Nat /\ 0 = whole - n
    BY <2>1, <2>2
  <2> HIDE DEF whole
  <2>4. n = whole
    BY <2>3
  <2>5. QED
    BY <2>1, <2>4 DEF whole
<1>6. \A s \in AllSources : s[1] = path => s[2] \in 1..Len(all)
  BY <1>5 DEF AllSources
<1>7. R = {s \in AllSources : s[1] \notin todo}
  <2> HIDE DEF all
  <2>1. \A s \in AllSources : s[1] = path => s[2] <= n
    BY <1>5, <1>6
  <2>2. QED
    BY <1>4, <2>1 DEF HasRead
<1>8. IsRead(R)'
  BY <1>1, <1>7 DEF IsRead
<1>9. Tallied(R)'
  BY <1>1, <1>2, TallyStays
<1>10. QED
  BY <1>1, <1>8, <1>9, ReadingKeeps DEF IngestInv

LEMMA IngestStepKeepsIngest ==
    ASSUME IngestInv, IngestStep
    PROVE  IngestInv'
BY SkipKeepsIngest, TakeKeepsIngest, PassedOverKeepsIngest, RecordKeepsIngest, EndKeepsIngest
   DEF IngestStep

\* What is returned is what there was to reduce.
LEMMA ReducedStays ==
    ASSUME UNCHANGED <<grouped, ratios>>
    PROVE  MeasurementRows' = MeasurementRows /\ Calibrations' = Calibrations
<1>1. \A pair : MeasurementOf(pair)' = MeasurementOf(pair)
  BY DEF MeasurementOf
<1>2. \A hw : Factor(hw)' = Factor(hw)
  BY DEF Factor
<1>3. \A hw : Calibrated(hw)' = Calibrated(hw)
  BY DEF Calibrated
<1>4. MeasurementRows' = MeasurementRows
  BY <1>1 DEF MeasurementRows
<1>5. Calibrations' = Calibrations
  BY <1>2, <1>3 DEF Calibrations
<1>6. QED
  BY <1>4, <1>5

LEMMA ReduceKeepsIngest ==
    ASSUME IngestInv, Reduce
    PROVE  IngestInv'
<1>1. /\ reading = "walk" /\ reading' = "done" /\ todo = {}
      /\ output' = [measurements |-> MeasurementRows, calibrations |-> Calibrations]
      /\ UNCHANGED <<index, todo, machine, results, grouped, ratios, counts>>
  BY DEF Reduce
<1>2. PICK R : IsRead(R) /\ Tallied(R)
  BY DEF IngestInv
<1>3. IsRead(R)'
  BY <1>1, <1>2 DEF IsRead
<1>4. Tallied(R)'
  BY <1>1, <1>2, TallyStays
<1>5. GroupsOK' /\ RatiosOK'
  BY <1>1 DEF IngestInv, GroupsOK, RatiosOK
<1>6. output' = [measurements |-> MeasurementRows', calibrations |-> Calibrations']
  BY <1>1, ReducedStays
<1>7. QED
  BY <1>1, <1>3, <1>4, <1>5, <1>6 DEF IngestInv

\* Nothing else disturbs what an ingest knows.
LEMMA IngestStays ==
    ASSUME IngestInv, UNCHANGED ingest
    PROVE  IngestInv'
<1>1. UNCHANGED <<index, todo, reading, machine, results, grouped, ratios, counts, output>>
  BY DEF ingest
<1>2. PICK R : IsRead(R) /\ Tallied(R)
  BY DEF IngestInv
<1>3. IsRead(R)'
  BY <1>1, <1>2 DEF IsRead, Rest, HasRead
<1>4. Tallied(R)'
  BY <1>1, <1>2, TallyStays
<1>5. GroupsOK' /\ RatiosOK'
  BY <1>1 DEF IngestInv, GroupsOK, RatiosOK
<1>6. MeasurementRows' = MeasurementRows /\ Calibrations' = Calibrations
  BY <1>1, ReducedStays
<1>7. QED
  BY <1>1, <1>3, <1>4, <1>5, <1>6 DEF IngestInv

-----------------------------------------------------------------------------
(***************************************************************************)
(* Selection                                                               *)
(***************************************************************************)
Named == {m \in SourceEntry : m.name \in DOMAIN Spelling}

earlier == {p \in Eligible \X Eligible : Earlier(p[1], p[2])}

\* What is kept, in terms of the indices that are eligible.
Chosen(order) ==
    /\ InOrder(order, Eligible, earlier)
    /\ Selection \in Seq(Named) /\ Len(Selection) \in 0..Cardinality(Eligible)
    /\ \A k \in 1..Len(Selection) : Selection[k] = source[order[k]]
    /\ Len(Selection) < Cardinality(Eligible) => Len(Selection) = options.top

LEMMA EligibleEntries ==
    ASSUME source \in Sources
    PROVE  /\ Eligible \subseteq 1..Len(source) /\ IsFiniteSet(Eligible)
           /\ Cardinality(Eligible) \in 0..Span
           /\ \A i \in Eligible : source[i] \in Named
<1>1. source \in Seq(SourceEntry) /\ Len(source) \in Nat /\ Len(source) <= Span
  BY SourcesAssumption
<1>2. Eligible \in SUBSET (1..Len(source))
  BY <1>1 DEF Eligible
<1>3. IsFiniteSet(1..Len(source)) /\ Cardinality(1..Len(source)) = Len(source)
  BY <1>1, CountingUp
<1>4. IsFiniteSet(Eligible) /\ Cardinality(Eligible) <= Len(source)
  BY <1>2, <1>3, FS_Subset
<1>5. Cardinality(Eligible) \in Nat
  BY <1>4, FS_CardinalityType
<1>6. Cardinality(Eligible) \in 0..Span
  <2> DEFINE c == Cardinality(Eligible)
             n == Len(source)
  <2>1. c \in Nat /\ n \in Nat /\ c <= n /\ n <= Span /\ Span \in Nat
    BY <1>1, <1>4, <1>5, SpanAssumption
  <2> HIDE DEF c, n
  <2>2. c \in 0..Span
    BY <2>1
  <2>3. QED
    BY <2>2 DEF c
<1>7. ASSUME NEW i \in Eligible PROVE source[i] \in Named
  <2>1. source[i] \in SourceEntry /\ Keep(source[i])
    BY <1>1, <1>2 DEF Eligible
  <2>2. source[i].name \in {0} \cup DOMAIN Spelling /\ source[i].name # 0
    BY <2>1 DEF SourceEntry, Keep
  <2>3. QED
    BY <2>1, <2>2 DEF Named
<1>8. QED
  BY <1>2, <1>4, <1>6, <1>7

\* More downloads come earlier, then names, then places in the source.
LEMMA EarlierOrders ==
    ASSUME source \in Sources
    PROVE  Orders(earlier, Eligible)
<1>1. \A i \in Eligible : i \in Nat
  BY EligibleEntries
<1>2. \A i \in Eligible : source[i].downloads \in Nat /\ source[i].name \in Nat
  <2>1. \A m \in Named : m.downloads \in Nat /\ m.name \in Nat
    BY SpellingAssumption DEF Named, SourceEntry
  <2>2. QED
    BY <2>1, EligibleEntries
<1>3. \A i, j \in Eligible : <<i, j>> \in earlier <=> Earlier(i, j)
  BY DEF earlier
<1>4. \A i \in Eligible : ~Earlier(i, i)
  BY <1>1, <1>2 DEF Earlier
<1>5. \A i, j \in Eligible : i # j => Earlier(i, j) \/ Earlier(j, i)
  BY <1>1, <1>2 DEF Earlier
<1>6. \A i, j, k \in Eligible : Earlier(i, j) /\ Earlier(j, k) => Earlier(i, k)
  BY <1>1, <1>2 DEF Earlier
<1>7. QED
  BY <1>3, <1>4, <1>5, <1>6 DEF Orders

LEMMA SelectionIsChosen ==
    ASSUME source \in Sources, options \in Options
    PROVE  \E order : Chosen(order)
<1> DEFINE n == Cardinality(Eligible)
           order == Arranged(Eligible, earlier)
           sorted == Sorted(Eligible)
<1>1. InOrder(order, Eligible, earlier)
  BY EligibleEntries, EarlierOrders, ArrangedInOrder
<1>2. sorted = [k \in DOMAIN order |-> source[order[k]]]
  BY DEF Sorted, earlier
<1> HIDE DEF order
<1>3. n \in Nat /\ order \in [1..n -> Eligible]
  BY <1>1 DEF InOrder
<1> HIDE DEF sorted, n
<1>4. /\ sorted \in Seq(Named) /\ Len(sorted) = n
      /\ \A k \in 1..n : sorted[k] = source[order[k]]
  <2>1. \A k \in 1..n : source[order[k]] \in Named
    BY <1>3, EligibleEntries
  <2>2. sorted = [k \in 1..n |-> source[order[k]]]
    BY <1>2, <1>3
  <2>3. QED
    BY <1>3, <2>1, <2>2
<1>5. Selection = Cut(sorted)
  BY DEF Selection, sorted
<1>6. CASE Selection = sorted
  <2>1. Len(Selection) = n /\ n \in 0..n
    BY <1>3, <1>4, <1>6
  <2>2. Chosen(order)
    BY <1>1, <1>3, <1>4, <1>6, <2>1 DEF Chosen, n
  <2>3. QED
    BY <2>2
<1>7. CASE Selection # sorted
  <2> DEFINE top == options.top
  <2>1. top \in Nat \cup {None} /\ top # None /\ ~(top >= n) /\ Selection = SubSeq(sorted, 1, top)
    BY <1>4, <1>5, <1>7, OptionsAssumption DEF Cut
  <2>2. top \in Nat /\ top < n
    BY <1>3, <2>1
  <2> HIDE DEF top
  <2>3. /\ Selection \in Seq(Named) /\ Len(Selection) = top
        /\ \A k \in 1..top : Selection[k] = sorted[k]
    BY <1>3, <1>4, <2>1, <2>2
  <2>4. Len(Selection) \in 0..n /\ \A k \in 1..top : k \in 1..n
    BY <1>3, <2>2, <2>3
  <2>5. \A k \in 1..Len(Selection) : Selection[k] = source[order[k]]
    BY <1>4, <2>3, <2>4
  <2>6. Chosen(order)
    BY <1>1, <2>3, <2>4, <2>5 DEF Chosen, top, n
  <2>7. QED
    BY <2>6
<1>8. QED
  BY <1>6, <1>7

\* What was cut is no more downloaded than what was kept.
LEMMA TheMostDownloaded ==
    ASSUME source \in Sources, options \in Options, pc # "select" => kept = Selection
    PROVE  TakesTheMostDownloaded
<1> SUFFICES ASSUME pc # "select"
             PROVE  LET eligible == {m \in Range(source) : Keep(m)}
                    IN  /\ \A m \in eligible \ Range(kept), n \in Range(kept) :
                              m.downloads <= n.downloads
                        /\ eligible \ Range(kept) # {} => Len(kept) = options.top
  BY DEF TakesTheMostDownloaded
<1> DEFINE c == Cardinality(Eligible)
           l == Len(kept)
<1>1. PICK order : Chosen(order)
  BY SelectionIsChosen
<1>2. /\ c \in Nat /\ order \in [1..c -> Eligible]
      /\ \A i \in Eligible : \E k \in 1..c : order[k] = i
      /\ \A j, k \in 1..c : j < k => <<order[j], order[k]>> \in earlier
  BY <1>1 DEF Chosen, InOrder
<1>3. /\ l \in 0..c /\ kept \in Seq(Named) /\ DOMAIN kept = 1..l
      /\ \A k \in 1..l : kept[k] = source[order[k]]
      /\ l < c => l = options.top
  BY <1>1 DEF Chosen
<1> HIDE DEF c, l
<1>4. ASSUME NEW m \in Range(source), Keep(m), m \notin Range(kept)
      PROVE  \E k \in 1..c : l < k /\ m = source[order[k]]
  <2>1. PICK i \in DOMAIN source : m = source[i]
    BY DEF Range
  <2>2. i \in Eligible
    BY <1>4, <2>1 DEF Eligible
  <2>3. PICK k \in 1..c : order[k] = i
    BY <1>2, <2>2
  <2>4. k \notin 1..l
    BY <1>3, <1>4, <2>1, <2>3 DEF Range
  <2>5. QED
    BY <1>2, <1>3, <2>1, <2>3, <2>4
<1>5. ASSUME NEW m \in Range(source), Keep(m), m \notin Range(kept), NEW n \in Range(kept)
      PROVE  m.downloads <= n.downloads
  <2>1. PICK k \in 1..c : l < k /\ m = source[order[k]]
    BY <1>4, <1>5
  <2>2. PICK j \in 1..l : n = source[order[j]]
    BY <1>3 DEF Range
  <2>3. j \in 1..c /\ j < k
    BY <1>2, <1>3, <2>1, <2>2
  <2>4. Earlier(order[j], order[k])
    BY <1>2, <2>1, <2>3 DEF earlier
  <2>5. source[order[j]].downloads \in Nat /\ source[order[k]].downloads \in Nat
    BY <1>2, <2>1, <2>3, EligibleEntries DEF Named, SourceEntry
  <2>6. QED
    BY <2>1, <2>2, <2>4, <2>5 DEF Earlier
<1>6. ASSUME NEW m \in Range(source), Keep(m), m \notin Range(kept)
      PROVE  l = options.top
  <2>1. PICK k \in 1..c : l < k
    BY <1>4, <1>6
  <2>2. l < c
    BY <1>2, <1>3, <2>1
  <2>3. QED
    BY <1>3, <2>2
<1>7. QED
  BY <1>5, <1>6 DEF l

-----------------------------------------------------------------------------
(***************************************************************************)
(* Packing                                                                 *)
(***************************************************************************)
Lexemes == STRING \cup {NUL}

RecordType == [nameOff : Nat, params : Nat, active : Nat]

PackedType ==
    [strings : Seq(Lexemes), interned : UNION {[names -> Nat] : names \in SUBSET (DOMAIN Spelling)},
     records : Seq(RecordType)]

EmptyPacked == [strings |-> <<>>, interned |-> <<>>, records |-> <<>>]

LEMMA EmptyIsPacked == EmptyPacked \in PackedType
<1>1. <<>> \in [{} -> Nat] /\ {} \in SUBSET (DOMAIN Spelling)
  OBVIOUS
<1>2. <<>> \in UNION {[names -> Nat] : names \in SUBSET (DOMAIN Spelling)}
  BY <1>1
<1>3. QED
  BY <1>2 DEF EmptyPacked, PackedType

LEMMA NULIsALexeme == NUL \in Lexemes
BY DEF Lexemes

LEMMA SpellingsAreWords ==
    \A name \in DOMAIN Spelling :
        /\ Spelling[name] \in Seq(Lexemes)
        /\ \A k \in 1..Len(Spelling[name]) : Spelling[name][k] # NUL
<1> SUFFICES ASSUME NEW name \in DOMAIN Spelling
             PROVE  /\ Spelling[name] \in Seq(Lexemes)
                    /\ \A k \in 1..Len(Spelling[name]) : Spelling[name][k] # NUL
  OBVIOUS
<1>1. Spelling[name] \in Seq(STRING) /\ NUL \notin Range(Spelling[name])
  BY SpellingAssumption
<1>2. \A k \in 1..Len(Spelling[name]) : Spelling[name][k] \in Lexemes
  BY <1>1 DEF Lexemes
<1>3. QED
  BY <1>1, <1>2 DEF Range

LEMMA DivRoundIsNat == \A v \in Nat : DivRound(v) \in Nat
<1> SUFFICES ASSUME NEW v \in Nat PROVE DivRound(v) \in Nat
  OBVIOUS
<1>1. Million \in Nat /\ Million > 0
  BY MillionAssumption
<1>2. Million \div 2 \in Nat
  BY <1>1
<1> DEFINE x == v + Million \div 2
<1>3. x \in Nat
  BY <1>2
<1> HIDE DEF x
<1>4. x \div Million \in Nat
  BY <1>1, <1>3
<1>5. QED
  BY <1>4 DEF DivRound, x

\* What moves per token is a number, and of a sparse model that does not state
\* it a proper part, unless it is all there is.
LEMMA ActiveIsASlice ==
    \A m \in SourceEntry :
        /\ Active(m) \in Nat
        /\ m.moe /\ m.active = 0 /\ DivRound(m.params) > 1
           => Active(m) \in 1..(DivRound(m.params) - 1)
<1> SUFFICES ASSUME NEW m \in SourceEntry
             PROVE  /\ Active(m) \in Nat
                    /\ m.moe /\ m.active = 0 /\ DivRound(m.params) > 1
                       => Active(m) \in 1..(DivRound(m.params) - 1)
  OBVIOUS
<1> DEFINE params == DivRound(m.params)
           stated == DivRound(m.active)
           experts == IF m.experts = None THEN 8 ELSE AtLeast(m.experts, 2)
           share == AtLeast(AtLeast(params \div experts, params \div 16), 1)
<1>1. /\ m.params \in Nat /\ m.active \in Nat /\ m.moe \in BOOLEAN
      /\ m.experts \in Nat \cup {None}
  BY DEF SourceEntry
<1>2. params \in Nat /\ stated \in Nat
  BY <1>1, DivRoundIsNat
<1>3. experts \in Nat /\ experts >= 2
  BY <1>1 DEF AtLeast
<1>4. Active(m) = IF ~m.moe THEN params ELSE IF stated > 0 THEN stated ELSE share
  BY DEF Active
<1>5. m.active = 0 => stated = 0
  <2>1. Million \in Nat /\ Million > 0 /\ Million \div 2 \in Nat /\ Million \div 2 < Million
    BY MillionAssumption
  <2>2. (0 + Million \div 2) \div Million = 0
    BY <2>1
  <2>3. QED
    BY <2>2 DEF DivRound
<1> HIDE DEF params, stated, experts
<1> DEFINE q == params \div experts
           s == params \div 16
<1>6. q \in Nat /\ s \in Nat /\ s * 16 <= params
  BY <1>2, <1>3
<1>7. q * 2 <= params
  <2>1. q * experts <= params
    BY <1>2, <1>3
  <2>2. 2 * q <= experts * q
    BY <1>3, <1>6, ProductGrows
  <2>3. experts * q = q * experts /\ q * experts \in Nat
    BY <1>3, <1>6
  <2> DEFINE r == q * experts
  <2>4. 2 * q <= r /\ r <= params /\ r \in Nat
    BY <2>1, <2>2, <2>3
  <2> HIDE DEF r, q
  <2>5. QED
    BY <1>2, <1>6, <2>4
<1>8. share \in Nat /\ (params > 1 => share \in 1..(params - 1))
  <2> HIDE DEF q, s
  <2>1. share = AtLeast(AtLeast(q, s), 1)
    BY DEF q, s
  <2> HIDE DEF share
  <2>2. QED
    BY <1>2, <1>6, <1>7, <2>1 DEF AtLeast
<1> HIDE DEF share
<1>9. QED
  BY <1>1, <1>2, <1>4, <1>5, <1>8 DEF params

\* Packing one record.
LEMMA PackRecordIsPacked ==
    \A p \in PackedType, m \in Named : PackRecord(p, m) \in PackedType
<1> SUFFICES ASSUME NEW p \in PackedType, NEW m \in Named PROVE PackRecord(p, m) \in PackedType
  OBVIOUS
<1> DEFINE table == Intern(m.name, p.strings, p.interned)
           all == UNION {[names -> Nat] : names \in SUBSET (DOMAIN Spelling)}
<1>1. /\ m \in SourceEntry /\ m.name \in DOMAIN Spelling /\ m.params \in Nat
  BY DEF Named, SourceEntry
<1>2. /\ p.strings \in Seq(Lexemes) /\ p.records \in Seq(RecordType) /\ p.interned \in all
  BY DEF PackedType
<1>3. PICK names \in SUBSET (DOMAIN Spelling) : p.interned \in [names -> Nat]
  BY <1>2
<1>4. /\ table.strings \in Seq(Lexemes) /\ table.interned \in all
      /\ table.interned[m.name] \in Nat
  <2>1. CASE m.name \in names
    <3>1. table.strings = p.strings /\ table.interned = p.interned
      BY <1>3, <2>1 DEF Intern
    <3>2. QED
      BY <1>2, <1>3, <2>1, <3>1
  <2>2. CASE m.name \notin names
    <3> DEFINE more == names \cup {m.name}
    <3>1. /\ table.strings = p.strings \o Spelling[m.name] \o <<NUL>>
          /\ table.interned = [n \in more |-> IF n = m.name THEN Len(p.strings) ELSE p.interned[n]]
      BY <1>3, <2>2 DEF Intern
    <3>2. Spelling[m.name] \in Seq(Lexemes) /\ <<NUL>> \in Seq(Lexemes)
      BY <1>1, SpellingsAreWords, NULIsALexeme
    <3>3. table.strings \in Seq(Lexemes)
      BY <1>2, <3>1, <3>2
    <3>4. Len(p.strings) \in Nat
      BY <1>2
    <3>5. table.interned \in [more -> Nat] /\ more \in SUBSET (DOMAIN Spelling)
      BY <1>1, <1>3, <3>1, <3>4
    <3>6. table.interned[m.name] \in Nat /\ table.interned \in all
      BY <3>5
    <3>7. QED
      BY <3>3, <3>6
  <2>3. QED
    BY <2>1, <2>2
<1> HIDE DEF table, all
<1>5. DivRound(m.params) \in Nat /\ Active(m) \in Nat
  BY <1>1, DivRoundIsNat, ActiveIsASlice
<1> DEFINE record == [nameOff |-> table.interned[m.name], params |-> DivRound(m.params),
                      active |-> Active(m)]
<1>6. record \in RecordType
  BY <1>4, <1>5 DEF RecordType
<1>7. PackRecord(p, m) = [strings |-> table.strings, interned |-> table.interned,
                          records |-> Append(p.records, record)]
  BY DEF PackRecord, table
<1> HIDE DEF record
<1>8. Append(p.records, record) \in Seq(RecordType)
  BY <1>2, <1>6
<1>9. QED
  BY <1>4, <1>7, <1>8 DEF PackedType, all

\* The packings of the first, the first two, ... of ms.
Packings(f, ms) ==
    /\ f \in [0..Len(ms) -> PackedType]
    /\ f[0] = EmptyPacked
    /\ \A i \in 1..Len(ms) : f[i] = PackRecord(f[i - 1], ms[i])

LEMMA PackRecordsEnds ==
    \A ms \in Seq(Named) : \E f : Packings(f, ms) /\ PackRecords(ms) = f[Len(ms)]
<1> SUFFICES ASSUME NEW ms \in Seq(Named)
             PROVE  \E f : Packings(f, ms) /\ PackRecords(ms) = f[Len(ms)]
  OBVIOUS
<1> DEFINE n == Len(ms)
           packed[i \in 0..n] == IF i = 0 THEN [strings |-> <<>>, interned |-> <<>>, records |-> <<>>]
                                 ELSE PackRecord(packed[i - 1], ms[i])
           step == [p \in (1..n) \X PackedType |-> PackRecord(p[2], ms[p[1]])]
<1>1. n \in Nat /\ \A i \in 1..n : ms[i] \in Named
  OBVIOUS
<1>2. step \in Steps(n, PackedType)
  BY <1>1, PackRecordIsPacked DEF Steps
<1>3. PICK f : Follows(f, n, PackedType, EmptyPacked, step)
  <2> HIDE DEF step, n
  <2>1. QED
    BY <1>1, <1>2, EmptyIsPacked, RecursionExists
<1>4. /\ f \in [0..n -> PackedType] /\ f[0] = EmptyPacked
      /\ \A i \in 1..n : f[i] = step[<<i, f[i - 1]>>]
  BY <1>3 DEF Follows
<1>5. \A i \in 1..n : f[i] = PackRecord(f[i - 1], ms[i])
  <2> SUFFICES ASSUME NEW i \in 1..n PROVE f[i] = PackRecord(f[i - 1], ms[i])
    OBVIOUS
  <2>1. i - 1 \in 0..n
    BY <1>1
  <2>2. <<i, f[i - 1]>> \in (1..n) \X PackedType
    BY <1>4, <2>1
  <2>3. QED
    BY <1>4, <2>2
<1>6. f = [i \in 0..n |-> IF i = 0 THEN [strings |-> <<>>, interned |-> <<>>, records |-> <<>>]
                          ELSE PackRecord(f[i - 1], ms[i])]
  <2>1. \A i \in 0..n : i = 0 \/ i \in 1..n
    BY <1>1
  <2>2. \A i \in 0..n : f[i] = IF i = 0 THEN EmptyPacked ELSE PackRecord(f[i - 1], ms[i])
    BY <1>4, <1>5, <2>1
  <2>3. QED
    BY <1>4, <2>2 DEF EmptyPacked
<1>7. packed = [i \in 0..n |-> IF i = 0 THEN [strings |-> <<>>, interned |-> <<>>, records |-> <<>>]
                               ELSE PackRecord(packed[i - 1], ms[i])]
  BY <1>6
<1>8. PackRecords(ms) = packed[n]
  BY DEF PackRecords
<1> HIDE DEF packed
<1>9. packed[0] = EmptyPacked /\ \A i \in 1..n : packed[i] = PackRecord(packed[i - 1], ms[i])
  BY <1>1, <1>7 DEF EmptyPacked
<1>10. \A i \in 0..n : f[i] = packed[i]
  <2>1. \A i \in 1..n : f[i - 1] = packed[i - 1] => f[i] = packed[i]
    BY <1>5, <1>9
  <2>2. f[0] = packed[0]
    BY <1>4, <1>9
  <2>3. Parallel(f, packed, n)
    BY <2>1, <2>2 DEF Parallel
  <2> HIDE DEF n
  <2>4. QED
    BY <1>1, <2>3, RecursionIsUnique
<1>11. f[n] = packed[n]
  BY <1>1, <1>10
<1>12. Packings(f, ms)
  BY <1>4, <1>5 DEF Packings
<1>13. QED
  BY <1>8, <1>11, <1>12

\* A word is in the table at an offset, with its NUL.
Held(strings, off, word) ==
    /\ off \in Nat /\ off + Len(word) + 1 <= Len(strings)
    /\ \A k \in 1..Len(word) : strings[off + k] = word[k]
    /\ strings[off + Len(word) + 1] = NUL

\* What a packing of the first i of ms holds of each of them.
Tabled(p, ms, i) ==
    /\ Len(p.records) = i
    /\ \A name \in DOMAIN p.interned :
          name \in DOMAIN Spelling /\ Held(p.strings, p.interned[name], Spelling[name])
    /\ \A k \in 1..i :
          /\ ms[k].name \in DOMAIN p.interned
          /\ p.records[k].nameOff = p.interned[ms[k].name]
          /\ p.records[k].params = DivRound(ms[k].params)
          /\ p.records[k].active = Active(ms[k])

\* More text after it leaves a word where it is.
LEMMA HeldStays ==
    \A s, t, word \in Seq(Lexemes) : \A off : Held(s, off, word) => Held(s \o t, off, word)
<1> SUFFICES ASSUME NEW s \in Seq(Lexemes), NEW t \in Seq(Lexemes), NEW word \in Seq(Lexemes),
                    NEW off, Held(s, off, word)
             PROVE  Held(s \o t, off, word)
  OBVIOUS
<1> DEFINE l == Len(s)
           w == Len(word)
           u == s \o t
<1>1. l \in Nat /\ w \in Nat /\ Len(t) \in Nat /\ Len(u) = l + Len(t) /\ \A k \in 1..l : u[k] = s[k]
  OBVIOUS
<1>2. /\ off \in Nat /\ off + w + 1 <= l
      /\ \A k \in 1..w : s[off + k] = word[k]
      /\ s[off + w + 1] = NUL
  BY DEF Held
<1> HIDE DEF l, w, u
<1>3. off + w + 1 \in 1..l /\ \A k \in 1..w : off + k \in 1..l
  BY <1>1, <1>2
<1>4. off + w + 1 <= Len(u)
  BY <1>1, <1>2
<1>5. u[off + w + 1] = NUL /\ \A k \in 1..w : u[off + k] = word[k]
  BY <1>1, <1>2, <1>3
<1>6. Held(u, off, word)
  BY <1>2, <1>4, <1>5 DEF Held, w
<1>7. QED
  BY <1>6 DEF u

\* A word put at the end is held there.
LEMMA HeldAtTheEnd ==
    \A s, word \in Seq(Lexemes) : Held(s \o word \o <<NUL>>, Len(s), word)
<1> SUFFICES ASSUME NEW s \in Seq(Lexemes), NEW word \in Seq(Lexemes)
             PROVE  Held(s \o word \o <<NUL>>, Len(s), word)
  OBVIOUS
<1> DEFINE l == Len(s)
           w == Len(word)
           v == s \o word
           u == v \o <<NUL>>
<1>1. /\ l \in Nat /\ w \in Nat /\ v \in Seq(Lexemes) /\ Len(v) = l + w
      /\ \A k \in 1..w : v[l + k] = word[k]
  OBVIOUS
<1>2. NUL \in Lexemes
  BY NULIsALexeme
<1> HIDE DEF l, w, v
<1> DEFINE m == Len(v)
<1>3. Len(u) = m + 1 /\ u[m + 1] = NUL /\ \A k \in 1..m : u[k] = v[k]
  BY <1>1, <1>2
<1> HIDE DEF m
<1> HIDE DEF u
<1>4. m = l + w /\ \A k \in 1..w : l + k \in 1..m
  BY <1>1 DEF m
<1>5. Held(u, l, word)
  <2>1. l + w + 1 <= Len(u)
    BY <1>1, <1>3, <1>4
  <2>2. \A k \in 1..w : u[l + k] = word[k]
    BY <1>1, <1>3, <1>4
  <2>3. QED
    BY <1>1, <1>3, <1>4, <2>1, <2>2 DEF Held, w
<1>6. QED
  BY <1>5 DEF u, v, l

LEMMA InternedIsHeld ==
    ASSUME NEW p \in PackedType, NEW m \in Named,
           \A name \in DOMAIN p.interned :
               name \in DOMAIN Spelling /\ Held(p.strings, p.interned[name], Spelling[name])
    PROVE  LET table == Intern(m.name, p.strings, p.interned)
           IN  /\ DOMAIN table.interned = DOMAIN p.interned \cup {m.name}
               /\ \A name \in DOMAIN p.interned : table.interned[name] = p.interned[name]
               /\ \A name \in DOMAIN table.interned :
                     /\ name \in DOMAIN Spelling
                     /\ Held(table.strings, table.interned[name], Spelling[name])
<1> DEFINE table == Intern(m.name, p.strings, p.interned)
<1>1. p.strings \in Seq(Lexemes) /\ m.name \in DOMAIN Spelling
  BY DEF PackedType, Named
<1>2. CASE m.name \in DOMAIN p.interned
  <2>1. table.strings = p.strings /\ table.interned = p.interned
    BY <1>2 DEF Intern
  <2> HIDE DEF table
  <2>2. DOMAIN table.interned = DOMAIN p.interned \cup {m.name}
    BY <1>2, <2>1
  <2>3. QED
    BY <2>1, <2>2 DEF table
<1>3. CASE m.name \notin DOMAIN p.interned
  <2> DEFINE word == Spelling[m.name]
             names == DOMAIN p.interned
  <2>1. /\ table.strings = p.strings \o word \o <<NUL>>
        /\ table.interned = [n \in names \cup {m.name} |->
                                IF n = m.name THEN Len(p.strings) ELSE p.interned[n]]
    BY <1>3 DEF Intern
  <2>2. word \in Seq(Lexemes) /\ <<NUL>> \in Seq(Lexemes)
    BY <1>1, SpellingsAreWords, NULIsALexeme
  <2> HIDE DEF table
  <2>3. /\ DOMAIN table.interned = names \cup {m.name}
        /\ table.interned[m.name] = Len(p.strings)
        /\ \A name \in names : table.interned[name] = p.interned[name]
    BY <1>3, <2>1
  <2>4. Held(table.strings, table.interned[m.name], word)
    BY <1>1, <2>1, <2>2, <2>3, HeldAtTheEnd
  <2>5. ASSUME NEW name \in names
        PROVE  Held(table.strings, table.interned[name], Spelling[name])
    <3>1. name \in DOMAIN Spelling /\ Spelling[name] \in Seq(Lexemes)
      BY SpellingsAreWords
    <3>2. Held(p.strings, p.interned[name], Spelling[name])
      OBVIOUS
    <3>3. Held(p.strings \o word, p.interned[name], Spelling[name])
      BY <1>1, <2>2, <3>1, <3>2, HeldStays
    <3>4. p.strings \o word \in Seq(Lexemes)
      BY <1>1, <2>2
    <3>5. Held((p.strings \o word) \o <<NUL>>, p.interned[name], Spelling[name])
      BY <2>2, <3>1, <3>3, <3>4, HeldStays
    <3>6. QED
      BY <2>1, <2>3, <3>5
  <2>6. \A name \in names \cup {m.name} :
            /\ name \in DOMAIN Spelling
            /\ Held(table.strings, table.interned[name], Spelling[name])
    BY <1>1, <2>4, <2>5
  <2>7. QED
    BY <2>3, <2>6 DEF table
<1>4. QED
  BY <1>2, <1>3

LEMMA TabledGoesOn ==
    ASSUME NEW ms \in Seq(Named), NEW i \in Nat, i + 1 \in 1..Len(ms),
           NEW p \in PackedType, Tabled(p, ms, i)
    PROVE  Tabled(PackRecord(p, ms[i + 1]), ms, i + 1)
<1> DEFINE m == ms[i + 1]
           table == Intern(m.name, p.strings, p.interned)
           record == [nameOff |-> table.interned[m.name], params |-> DivRound(m.params),
                      active |-> Active(m)]
           q == PackRecord(p, m)
<1>1. m \in Named
  OBVIOUS
<1>2. /\ DOMAIN table.interned = DOMAIN p.interned \cup {m.name}
      /\ \A name \in DOMAIN p.interned : table.interned[name] = p.interned[name]
      /\ \A name \in DOMAIN table.interned :
            /\ name \in DOMAIN Spelling
            /\ Held(table.strings, table.interned[name], Spelling[name])
  <2>1. \A name \in DOMAIN p.interned :
            name \in DOMAIN Spelling /\ Held(p.strings, p.interned[name], Spelling[name])
    BY DEF Tabled
  <2> HIDE DEF m
  <2>2. QED
    BY <1>1, <2>1, InternedIsHeld
<1>3. /\ q.strings = table.strings /\ q.interned = table.interned
      /\ q.records = Append(p.records, record)
  BY DEF PackRecord
<1>4. /\ record.nameOff = table.interned[m.name] /\ record.params = DivRound(m.params)
      /\ record.active = Active(m)
  OBVIOUS
<1> HIDE DEF record, table, q, m
<1>5. /\ p.records \in Seq(RecordType) /\ Len(p.records) = i
      /\ q \in PackedType
  BY <1>1, PackRecordIsPacked DEF PackedType, Tabled, q
<1>6. /\ Len(q.records) = i + 1 /\ q.records[i + 1] = record
      /\ \A k \in 1..i : q.records[k] = p.records[k]
  BY <1>3, <1>5
<1>7. ASSUME NEW k \in 1..(i + 1)
      PROVE  /\ ms[k].name \in DOMAIN q.interned
             /\ q.records[k].nameOff = q.interned[ms[k].name]
             /\ q.records[k].params = DivRound(ms[k].params)
             /\ q.records[k].active = Active(ms[k])
  <2>1. CASE k = i + 1
    BY <1>2, <1>3, <1>4, <1>6, <2>1 DEF m
  <2>2. CASE k # i + 1
    <3>1. k \in 1..i
      BY <2>2
    <3>2. /\ ms[k].name \in DOMAIN p.interned
          /\ p.records[k].nameOff = p.interned[ms[k].name]
          /\ p.records[k].params = DivRound(ms[k].params)
          /\ p.records[k].active = Active(ms[k])
      BY <3>1 DEF Tabled
    <3>3. QED
      BY <1>2, <1>3, <1>6, <3>1, <3>2
  <2>3. QED
    BY <2>1, <2>2
<1>8. Tabled(q, ms, i + 1)
  BY <1>2, <1>3, <1>6, <1>7 DEF Tabled
<1>9. QED
  BY <1>8 DEF q, m

\* A packing holds every name and every record.
LEMMA PackedIsTabled ==
    \A ms \in Seq(Named) : PackRecords(ms) \in PackedType /\ Tabled(PackRecords(ms), ms, Len(ms))
<1> SUFFICES ASSUME NEW ms \in Seq(Named)
             PROVE  PackRecords(ms) \in PackedType /\ Tabled(PackRecords(ms), ms, Len(ms))
  OBVIOUS
<1> DEFINE n == Len(ms)
<1>1. n \in Nat
  OBVIOUS
<1>2. PICK f : Packings(f, ms) /\ PackRecords(ms) = f[n]
  BY PackRecordsEnds
<1>3. /\ f \in [0..n -> PackedType] /\ f[0] = EmptyPacked
      /\ \A i \in 1..n : f[i] = PackRecord(f[i - 1], ms[i])
  BY <1>2 DEF Packings
<1> DEFINE S == {i \in 0..n : Tabled(f[i], ms, i)}
<1>4. 0 \in S
  <2>1. Tabled(EmptyPacked, ms, 0)
    BY DEF Tabled, EmptyPacked
  <2>2. QED
    BY <1>1, <1>3, <2>1
<1>5. ASSUME NEW i \in 0..(n - 1), i \in S PROVE i + 1 \in S
  <2>1. /\ i \in Nat /\ i + 1 \in 1..n /\ i + 1 \in 0..n /\ (i + 1) - 1 = i
        /\ i \in 0..n
    BY <1>1
  <2>2. f[i + 1] = PackRecord(f[i], ms[i + 1]) /\ f[i] \in PackedType
    BY <1>3, <2>1
  <2>3. Tabled(f[i], ms, i)
    BY <1>5
  <2> HIDE DEF S
  <2>4. Tabled(PackRecord(f[i], ms[i + 1]), ms, i + 1)
    BY <2>1, <2>2, <2>3, TabledGoesOn
  <2>5. QED
    BY <2>1, <2>2, <2>4 DEF S
<1>6. n \in S
  <2>1. n \in 0..n /\ 0 \in Int /\ n \in Int
    BY <1>1
  <2> HIDE DEF S, n
  <2>2. \A i \in 0..n : i \in S
    BY <1>4, <1>5, <2>1, Climb
  <2>3. QED
    BY <2>1, <2>2
<1>7. f[n] \in PackedType
  BY <1>1, <1>3
<1>8. QED
  BY <1>2, <1>6, <1>7

\* What is held reads back.
LEMMA HeldReadsBack ==
    ASSUME NEW strings \in Seq(Lexemes), NEW word \in Seq(Lexemes), NEW off,
           Held(strings, off, word), \A k \in 1..Len(word) : word[k] # NUL
    PROVE  ReadName(strings, off) = word
<1> DEFINE w == Len(word)
           l == Len(strings)
           ends == {k \in (off + 1)..l : strings[k] = NUL}
           last == IF ends = {} THEN l + 1 ELSE CHOOSE k \in ends : \A j \in ends : k <= j
<1>1. w \in Nat /\ l \in Nat
  OBVIOUS
<1>2. /\ off \in Nat /\ off + w + 1 <= l
      /\ \A k \in 1..w : strings[off + k] = word[k]
      /\ strings[off + w + 1] = NUL
  BY DEF Held
<1> HIDE DEF l, w
<1>3. off + w + 1 \in ends
  BY <1>1, <1>2
<1>4. ASSUME NEW j \in ends PROVE off + w + 1 <= j
  <2>1. j \in Int /\ off + 1 <= j /\ strings[j] = NUL
    BY <1>1, <1>2
  <2>2. ~(j - off \in 1..w)
    <3>1. SUFFICES ASSUME j - off \in 1..w PROVE FALSE
      OBVIOUS
    <3>2. off + (j - off) = j
      BY <1>2, <2>1
    <3>3. strings[j] = word[j - off]
      BY <1>2, <3>1, <3>2
    <3>4. word[j - off] # NUL
      BY <3>1 DEF w
    <3>5. QED
      BY <2>1, <3>3, <3>4
  <2>3. QED
    BY <1>1, <1>2, <2>1, <2>2
<1>5. last = off + w + 1
  <2>1. \A k \in ends : (\A j \in ends : k <= j) => k = off + w + 1
    <3> SUFFICES ASSUME NEW k \in ends, \A j \in ends : k <= j PROVE k = off + w + 1
      OBVIOUS
    <3>1. k <= off + w + 1 /\ off + w + 1 <= k
      BY <1>3, <1>4
    <3>2. k \in Int
      BY <1>1, <1>2
    <3>3. QED
      BY <1>1, <1>2, <3>1, <3>2
  <2> HIDE DEF ends
  <2>2. QED
    BY <1>3, <1>4, <2>1
<1>6. ReadName(strings, off) = SubSeq(strings, off + 1, last - 1)
  BY DEF ReadName, l
<1> HIDE DEF last
<1>7. ReadName(strings, off) = SubSeq(strings, off + 1, off + w)
  <2>1. last - 1 = off + w
    BY <1>1, <1>2, <1>5
  <2>2. QED
    BY <1>6, <2>1
<1> DEFINE sub == SubSeq(strings, off + 1, off + w)
<1>8. /\ sub \in Seq(Lexemes) /\ Len(sub) = w
      /\ \A k \in 1..w : sub[k] = strings[off + k]
  <2>1. \A k \in (off + 1)..(off + w) : k \in 1..l
    BY <1>1, <1>2
  <2>2. off + w <= l
    BY <1>1, <1>2
  <2>3. sub = [k \in 1..((off + w) - (off + 1) + 1) |-> strings[k + (off + 1) - 1]]
    BY <1>1, <1>2
  <2>4. (off + w) - (off + 1) + 1 = w
    BY <1>1, <1>2
  <2>5. \A k \in 1..w : k + (off + 1) - 1 = off + k /\ off + k \in 1..l
    BY <1>1, <1>2
  <2> HIDE DEF sub
  <2>6. sub = [k \in 1..w |-> strings[off + k]]
    BY <2>3, <2>4, <2>5
  <2>7. \A k \in 1..w : strings[off + k] \in Lexemes
    BY <2>5 DEF l
  <2>8. QED
    BY <1>1, <2>6, <2>7
<1> HIDE DEF sub
<1>9. sub = word
  <2>1. \A k \in 1..w : sub[k] = word[k]
    BY <1>2, <1>8
  <2>2. QED
    BY <1>8, <2>1 DEF w
<1>10. QED
  BY <1>7, <1>9 DEF sub

\* What a packed file says of an entry.
Says(file, ms) ==
    /\ DOMAIN file.records = 1..Len(ms)
    /\ \A i \in 1..Len(ms) :
          /\ NameAt(file, i) = Spelling[ms[i].name]
          /\ file.records[i].params = DivRound(ms[i].params)
          /\ file.records[i].active = Active(ms[i])

LEMMA AFileSaysWhatWasPacked ==
    \A ms \in Seq(Named) : \A rows, factors :
        Says(Pack(ms, rows, factors), ms) /\ Pack(ms, rows, factors).count.strings \in Nat
<1> SUFFICES ASSUME NEW ms \in Seq(Named), NEW rows, NEW factors
             PROVE  /\ Says(Pack(ms, rows, factors), ms)
                    /\ Pack(ms, rows, factors).count.strings \in Nat
  OBVIOUS
<1> DEFINE file == Pack(ms, rows, factors)
           packed == PackRecords(ms)
           n == Len(ms)
<1>1. /\ file.records = packed.records /\ file.strings = packed.strings
      /\ file.count.strings = Len(packed.strings)
  BY DEF Pack
<1>2. packed \in PackedType /\ Tabled(packed, ms, n)
  BY PackedIsTabled
<1>3. n \in Nat /\ \A i \in 1..n : ms[i] \in Named
  OBVIOUS
<1> HIDE DEF file, packed, n
<1>4. packed.records \in Seq(RecordType) /\ packed.strings \in Seq(Lexemes)
  BY <1>2 DEF PackedType
<1>5. DOMAIN file.records = 1..n
  BY <1>1, <1>2, <1>3, <1>4 DEF Tabled
<1>6. ASSUME NEW i \in 1..n
      PROVE  /\ NameAt(file, i) = Spelling[ms[i].name]
             /\ file.records[i].params = DivRound(ms[i].params)
             /\ file.records[i].active = Active(ms[i])
  <2> DEFINE word == Spelling[ms[i].name]
             off == packed.records[i].nameOff
  <2>1. ms[i].name \in DOMAIN Spelling
    BY <1>3 DEF Named
  <2>2. word \in Seq(Lexemes) /\ \A k \in 1..Len(word) : word[k] # NUL
    BY <2>1, SpellingsAreWords
  <2>3. Held(packed.strings, off, word)
    BY <1>2 DEF Tabled
  <2>4. NameAt(file, i) = ReadName(packed.strings, off)
    BY <1>1 DEF NameAt
  <2> HIDE DEF word, off
  <2>5. ReadName(packed.strings, off) = word
    BY <1>4, <2>2, <2>3, HeldReadsBack
  <2>6. file.records[i].params = DivRound(ms[i].params) /\ file.records[i].active = Active(ms[i])
    BY <1>1, <1>2 DEF Tabled
  <2>7. QED
    BY <2>4, <2>5, <2>6 DEF word
<1>7. Says(file, ms)
  BY <1>5, <1>6 DEF Says, n
<1>8. file.count.strings \in Nat
  BY <1>1, <1>4
<1>9. QED
  BY <1>7, <1>8 DEF file

\* A section that is not empty ends within a file that opens.
LEMMA SectionsEndInside ==
    ASSUME NEW file, Opens(file)
    PROVE  /\ ~(file.size < 48)
           /\ file.count.records # 0 => ~(file.off.records + file.count.records * 32 > file.size)
           /\ file.count.strings # 0 => ~(file.off.strings + file.count.strings * 1 > file.size)
           /\ file.count.measurements # 0
              => ~(file.off.measurements + file.count.measurements * 16 > file.size)
           /\ file.count.calibrations # 0
              => ~(file.off.calibrations + file.count.calibrations * 8 > file.size)
<1>1. ~(file.size < 48) /\ ~Reader(file)!Truncated
  BY DEF Opens, Reader!Complaint, Reader!HeaderLen
<1>2. \A s \in Reader(file)!SectionName : Reader(file)!Section(s) # None
  BY <1>1 DEF Reader!Truncated
<1>3. file.count.records # 0 => ~(file.off.records + file.count.records * 32 > file.size)
  BY <1>2 DEF Reader!SectionName, Reader!Section, Reader!Stride, Reader!RecordLen
<1>4. file.count.strings # 0 => ~(file.off.strings + file.count.strings * 1 > file.size)
  BY <1>2 DEF Reader!SectionName, Reader!Section, Reader!Stride
<1>5. file.count.measurements # 0
      => ~(file.off.measurements + file.count.measurements * 16 > file.size)
  BY <1>2 DEF Reader!SectionName, Reader!Section, Reader!Stride, Reader!MeasurementLen
<1>6. file.count.calibrations # 0
      => ~(file.off.calibrations + file.count.calibrations * 8 > file.size)
  BY <1>2 DEF Reader!SectionName, Reader!Section, Reader!Stride, Reader!CalibrationLen
<1>7. QED
  BY <1>1, <1>3, <1>4, <1>5, <1>6

\* The sections of a packed file lie one after the other, to its very end.
LEMMA ATornFileDoesNotOpen ==
    ASSUME NEW ms \in Seq(Named), NEW rows, NEW factors,
           Len(rows) \in Nat, Len(factors) \in Nat,
           NEW written \in 0..(Pack(ms, rows, factors).size - 1)
    PROVE  ~Opens([Pack(ms, rows, factors) EXCEPT !.size = written])
<1> DEFINE file == Pack(ms, rows, factors)
           torn == [file EXCEPT !.size = written]
           r == Len(ms)
           s == file.count.strings
           m == Len(rows)
           c == Len(factors)
<1>1. r \in Nat /\ s \in Nat /\ m \in Nat /\ c \in Nat
  BY AFileSaysWhatWasPacked
<1>2. file.size = 48 + 32 * r + s + 16 * m + 8 * c
  BY DEF Pack
<1>3. /\ torn.size = written
      /\ torn.count.records = r /\ torn.count.strings = s
      /\ torn.count.measurements = m /\ torn.count.calibrations = c
      /\ torn.off.records = 48 /\ torn.off.strings = 48 + 32 * r
      /\ torn.off.measurements = 48 + 32 * r + s
      /\ torn.off.calibrations = 48 + 32 * r + s + 16 * m
  BY DEF Pack, Offsets
<1>4. written \in Nat /\ written < 48 + 32 * r + s + 16 * m + 8 * c
  BY <1>1, <1>2
<1>5. SUFFICES ASSUME Opens(torn) PROVE FALSE
  OBVIOUS
<1> HIDE DEF torn, r, s, m, c
<1>6. /\ ~(written < 48)
      /\ r # 0 => ~(48 + r * 32 > written)
      /\ s # 0 => ~((48 + 32 * r) + s * 1 > written)
      /\ m # 0 => ~((48 + 32 * r + s) + m * 16 > written)
      /\ c # 0 => ~((48 + 32 * r + s + 16 * m) + c * 8 > written)
  BY <1>3, <1>5, SectionsEndInside
<1>7. QED
  BY <1>1, <1>4, <1>6

-----------------------------------------------------------------------------
(***************************************************************************)
(* The build                                                               *)
(***************************************************************************)
\* The index leads from a key to the first of the kept whose name has it.
IndexOK ==
    \A key \in DOMAIN index :
        LET i == index[key] + 1
        IN  /\ index[key] \in Nat /\ i \in 1..Len(kept)
            /\ SourceKey[kept[i].name] = key
            /\ \A j \in 1..Len(kept) : SourceKey[kept[j].name] = key => i <= j

\* The file the second packing gives, and what the output path may hold of it.
Packing == Pack(kept, output.measurements, output.calibrations)

Torn == \E written \in 0..(bytes.size - 1) : disk = [bytes EXCEPT !.size = written]

BuildInv ==
    /\ source \in Sources /\ options \in Options
    /\ pc \in {"select", "import", "pack", "write", "check", "done"}
    /\ pc = "select" => base = None /\ reading = "idle"
    /\ pc # "select" => kept = Selection /\ base = Pack(kept, <<>>, <<>>)
    /\ reading \in {"walk", "file"} => pc = "import"
    /\ reading # "idle" => IndexOK
    /\ pc \in {"select", "import", "pack"} => bytes = None /\ disk = None
    /\ pc \in {"write", "check"} => bytes = Packing
    /\ pc = "write" => disk = None
    /\ pc = "check" => disk = bytes
    /\ pc = "done" => \/ bytes = None /\ disk = None
                      \/ bytes = Packing /\ (disk = None \/ disk = bytes \/ Torn)
    /\ outcome = "ok" => /\ pc = "done" /\ disk = bytes
                         /\ Opens(bytes) /\ bytes.count.records = Len(kept)

Inv == IngestInv /\ BuildInv

LEMMA InvInit == Init => Inv
<1> SUFFICES ASSUME Init PROVE Inv
  OBVIOUS
<1>1. /\ index = <<>> /\ todo = Paths /\ reading = "idle" /\ grouped = <<>>
      /\ ratios = [hw \in Machines |-> <<>>]
      /\ output = [measurements |-> <<>>, calibrations |-> <<>>]
  BY DEF Init, IngestInit
<1>2. DOMAIN <<>> = {}
  OBVIOUS
<1>3. GroupsOK
  BY <1>1, <1>2, FS_EmptySet DEF GroupsOK
<1>4. RatiosOK
  BY <1>1 DEF RatiosOK
<1>5. IsRead({})
  <2>1. \A s \in AllSources : s[1] \in todo
    BY <1>1 DEF AllSources
  <2>2. QED
    BY <1>1, <2>1 DEF IsRead
<1>6. Tallied({})
  <2> SUFFICES ASSUME NEW pair \in Pairs
               PROVE  \E b : Fits(b, GroupOf(pair), Submitted(pair[1], pair[2]) \cap {})
    BY DEF Tallied
  <2>1. GroupOf(pair) = <<>> /\ Submitted(pair[1], pair[2]) \cap {} = {}
    BY <1>1, <1>2 DEF GroupOf
  <2>2. QED
    BY <2>1, NothingFits
<1>7. IngestInv
  BY <1>1, <1>2, <1>3, <1>4, <1>5, <1>6 DEF IngestInv
<1>8. BuildInv
  BY <1>1 DEF Init, BuildInv
<1>9. QED
  BY <1>7, <1>8 DEF Inv

LEMMA SelectionStays ==
    ASSUME UNCHANGED <<source, options>>
    PROVE  Selection' = Selection
<1>1. \A m : Keep(m)' = Keep(m)
  BY DEF Keep
<1>2. Eligible' = Eligible
  BY <1>1 DEF Eligible
<1>3. \A i, j : Earlier(i, j)' = Earlier(i, j)
  BY DEF Earlier
<1>4. Sorted(Eligible)' = Sorted(Eligible)
  BY <1>2, <1>3 DEF Sorted
<1>5. \A ms : Cut(ms)' = Cut(ms)
  BY DEF Cut
<1>6. QED
  BY <1>4, <1>5 DEF Selection

LEMMA SelectKeeps ==
    ASSUME Inv, Select
    PROVE  Inv'
<1>1. /\ pc = "select" /\ kept' = Selection /\ base' = Pack(kept', <<>>, <<>>)
      /\ pc' \in {"import", "pack"}
      /\ UNCHANGED <<source, options, bytes, disk, outcome, ingest>>
  BY DEF Select
<1>2. IngestInv'
  BY <1>1, IngestStays DEF Inv
<1>3. Selection' = Selection
  BY <1>1, SelectionStays
<1>4. reading = "idle" /\ reading' = reading
  BY <1>1 DEF Inv, BuildInv, ingest
<1>5. BuildInv'
  BY <1>1, <1>3, <1>4 DEF Inv, BuildInv
<1>6. QED
  BY <1>2, <1>5 DEF Inv

LEMMA KeptIsNamed ==
    ASSUME BuildInv, pc # "select"
    PROVE  kept \in Seq(Named) /\ Len(kept) \in 0..Span
<1>1. kept = Selection /\ source \in Sources /\ options \in Options
  BY DEF BuildInv
<1>2. Selection \in Seq(Named) /\ Len(Selection) \in 0..Cardinality(Eligible)
  BY <1>1, SelectionIsChosen DEF Chosen
<1>3. Cardinality(Eligible) \in 0..Span
  BY <1>1, EligibleEntries
<1>4. Len(Selection) \in 0..Span
  BY <1>2, <1>3, SpanAssumption
<1>5. QED
  BY <1>1, <1>2, <1>4

\* The index made of the first packing is one of what is kept.
LEMMA TheIndexOfAPacking ==
    \A ms \in Seq(Named) : \A file : Says(file, ms) =>
        \A key \in DOMAIN IndexByKey(file) :
            LET i == IndexByKey(file)[key] + 1
            IN  /\ IndexByKey(file)[key] \in 0..(Len(ms) - 1) /\ i \in 1..Len(ms)
                /\ SourceKey[ms[i].name] = key
                /\ \A j \in 1..Len(ms) : SourceKey[ms[j].name] = key => i <= j
<1> SUFFICES ASSUME NEW ms \in Seq(Named), NEW file, Says(file, ms),
                    NEW key \in DOMAIN IndexByKey(file)
             PROVE  LET i == IndexByKey(file)[key] + 1
                    IN  /\ IndexByKey(file)[key] \in 0..(Len(ms) - 1) /\ i \in 1..Len(ms)
                        /\ SourceKey[ms[i].name] = key
                        /\ \A j \in 1..Len(ms) : SourceKey[ms[j].name] = key => i <= j
  OBVIOUS
<1> DEFINE n == Len(ms)
           First(i) == KeyAt(file, i) = key /\ \A j \in DOMAIN file.records : KeyAt(file, j) = key => i <= j
           first == CHOOSE i \in DOMAIN file.records : First(i)
<1>1. n \in Nat /\ DOMAIN file.records = 1..n
  BY DEF Says
<1>2. \A i \in 1..n : KeyAt(file, i) = SourceKey[ms[i].name]
  BY DEF Says, KeyAt, SourceKey, Named
<1>3. IndexByKey(file)[key] = first - 1 /\ \E i \in DOMAIN file.records : KeyAt(file, i) = key
  BY DEF IndexByKey
<1>4. \E i \in DOMAIN file.records : First(i)
  <2> DEFINE T == {i \in DOMAIN file.records : KeyAt(file, i) = key}
  <2>1. T \subseteq Nat /\ T # {}
    BY <1>1, <1>3
  <2>2. PICK i \in T : \A j \in T : i <= j
    <3> HIDE DEF T
    <3>1. QED
      BY <2>1, LeastElement
  <2>3. QED
    BY <2>2
<1> HIDE DEF First
<1>5. first \in 1..n /\ First(first)
  BY <1>1, <1>4
<1> HIDE DEF first, n
<1>6. IndexByKey(file)[key] \in 0..(n - 1) /\ IndexByKey(file)[key] + 1 = first
  BY <1>1, <1>3, <1>5
<1>7. QED
  BY <1>1, <1>2, <1>5, <1>6 DEF First, n

LEMMA ImportKeeps ==
    ASSUME Inv, Import
    PROVE  Inv'
<1>1. /\ pc = "import" /\ reading = "idle" /\ index' = IndexByKey(base) /\ reading' = "walk"
      /\ UNCHANGED <<todo, machine, results, grouped, ratios, counts, output>>
      /\ UNCHANGED <<source, options, pc, kept, base, bytes, disk, outcome>>
  BY DEF Import
<1>2. /\ kept \in Seq(Named) /\ Len(kept) \in 0..Span
      /\ kept = Selection /\ base = Pack(kept, <<>>, <<>>)
  BY <1>1, KeptIsNamed DEF Inv, BuildInv
<1>3. Says(base, kept)
  BY <1>2, AFileSaysWhatWasPacked
<1>4. \A key \in DOMAIN index' :
          LET i == index'[key] + 1
          IN  /\ index'[key] \in 0..(Len(kept) - 1) /\ i \in 1..Len(kept)
              /\ SourceKey[kept[i].name] = key
              /\ \A j \in 1..Len(kept) : SourceKey[kept[j].name] = key => i <= j
  BY <1>1, <1>2, <1>3, TheIndexOfAPacking
<1>5. \A key \in DOMAIN index' : index'[key] \in Indices
  <2>1. Len(kept) \in Nat /\ Len(kept) <= Span
    BY <1>2
  <2>2. \A i \in 0..(Len(kept) - 1) : i \in Indices
    BY <2>1, SpanAssumption DEF Indices
  <2>3. QED
    BY <1>4, <2>2
<1>6. grouped = <<>> /\ todo = Paths /\ DOMAIN <<>> = {}
  BY <1>1 DEF Inv, IngestInv
<1>7. IsRead({})'
  <2>1. \A s \in AllSources : s[1] \in todo
    BY <1>6 DEF AllSources
  <2>2. QED
    BY <1>1, <2>1 DEF IsRead
<1>8. Tallied({})'
  <2>1. ASSUME NEW pair \in Pairs
        PROVE  \E b : Fits(b, GroupOf(pair)', Submitted(pair[1], pair[2])' \cap {})
    <3>1. GroupOf(pair)' = <<>> /\ Submitted(pair[1], pair[2])' \cap {} = {}
      BY <1>1, <1>6 DEF GroupOf
    <3>2. QED
      BY <3>1, NothingFits
  <2>2. QED
    BY <2>1 DEF Tallied
<1>9. IngestInv'
  <2>1. GroupsOK' /\ RatiosOK'
    BY <1>1 DEF Inv, IngestInv, GroupsOK, RatiosOK
  <2>2. output' = [measurements |-> <<>>, calibrations |-> <<>>]
    BY <1>1 DEF Inv, IngestInv
  <2>3. todo' \subseteq Paths
    BY <1>1, <1>6
  <2>4. QED
    BY <1>1, <1>5, <1>7, <1>8, <2>1, <2>2, <2>3 DEF IngestInv
<1>10. IndexOK'
  <2>1. kept' = kept /\ \A i \in 0..(Len(kept) - 1) : i \in Nat
    BY <1>1, <1>2
  <2>2. QED
    BY <1>4, <2>1 DEF IndexOK
<1>11. Selection' = Selection
  BY <1>1, SelectionStays
<1>12. BuildInv'
  BY <1>1, <1>2, <1>10, <1>11 DEF Inv, BuildInv
<1>13. QED
  BY <1>9, <1>12 DEF Inv

LEMMA IndexStays ==
    ASSUME IndexOK, UNCHANGED <<index, kept>>
    PROVE  IndexOK'
BY DEF IndexOK

LEMMA ImportFailsKeeps ==
    ASSUME Inv, ImportFails
    PROVE  Inv'
<1>1. /\ pc = "import" /\ reading = "idle" /\ pc' = "done" /\ outcome' = "error"
      /\ UNCHANGED <<source, options, kept, base, bytes, disk, ingest>>
  BY DEF ImportFails
<1>2. IngestInv'
  BY <1>1, IngestStays DEF Inv
<1>3. Selection' = Selection /\ reading' = reading
  BY <1>1, SelectionStays DEF ingest
<1>4. BuildInv'
  BY <1>1, <1>3 DEF Inv, BuildInv
<1>5. QED
  BY <1>2, <1>4 DEF Inv

LEMMA ImportingKeeps ==
    ASSUME Inv, Importing
    PROVE  Inv'
<1>1. IngestStep /\ UNCHANGED <<source, options, pc, kept, base, bytes, disk, outcome>>
  BY DEF Importing
<1>2. IngestInv'
  BY <1>1, IngestStepKeepsIngest DEF Inv
<1>3. /\ reading \in {"walk", "file"} /\ reading' \in {"walk", "file"} /\ index' = index
  BY <1>1 DEF IngestStep, SkipMalformed, SkipAnonymous, TakeFile, Immeasurable, Unmatched,
              Record, Reading, EndOfFile
<1>4. pc = "import" /\ IndexOK
  BY <1>3 DEF Inv, BuildInv
<1>5. Selection' = Selection /\ IndexOK'
  BY <1>1, <1>3, <1>4, SelectionStays, IndexStays
<1>6. BuildInv'
  BY <1>1, <1>3, <1>4, <1>5 DEF Inv, BuildInv
<1>7. QED
  BY <1>2, <1>6 DEF Inv

LEMMA ImportedKeeps ==
    ASSUME Inv, Imported
    PROVE  Inv'
<1>1. /\ Reduce /\ pc' = "pack"
      /\ UNCHANGED <<source, options, kept, base, bytes, disk, outcome>>
  BY DEF Imported
<1>2. IngestInv'
  BY <1>1, ReduceKeepsIngest DEF Inv
<1>3. reading = "walk" /\ reading' = "done" /\ index' = index
  BY <1>1 DEF Reduce
<1>4. pc = "import" /\ IndexOK
  BY <1>3 DEF Inv, BuildInv
<1>5. Selection' = Selection /\ IndexOK'
  BY <1>1, <1>3, <1>4, SelectionStays, IndexStays
<1>6. BuildInv'
  BY <1>1, <1>3, <1>4, <1>5 DEF Inv, BuildInv
<1>7. QED
  BY <1>2, <1>6 DEF Inv

\* From the second packing on, what there is to pack stays.
LEMMA PackingStays ==
    ASSUME UNCHANGED <<kept, ingest>>
    PROVE  Packing' = Packing
BY DEF Packing, ingest

LEMMA OutputStepsKeep ==
    ASSUME Inv, PackAgain \/ Write \/ WriteFailsSomewhere \/ CreateFails \/ RoundTrip
    PROVE  Inv'
<1>1. UNCHANGED <<source, options, kept, base, ingest>>
  BY DEF PackAgain, Write, WriteFailsSomewhere, WriteFails, CreateFails, RoundTrip
<1>2. IngestInv'
  BY <1>1, IngestStays DEF Inv
<1>3. /\ Selection' = Selection /\ Packing' = Packing /\ reading' = reading
      /\ UNCHANGED <<index, kept>>
  BY <1>1, SelectionStays, PackingStays DEF ingest
<1>4. reading \notin {"walk", "file"} /\ pc \in {"pack", "write", "check"}
  BY DEF Inv, BuildInv, PackAgain, Write, WriteFailsSomewhere, CreateFails, RoundTrip
<1>5. reading' # "idle" => IndexOK'
  BY <1>3, IndexStays DEF Inv, BuildInv
<1>6. CASE PackAgain
  <2>1. pc = "pack" /\ pc' = "write" /\ bytes' = Packing /\ UNCHANGED <<disk, outcome>>
    BY <1>6 DEF PackAgain, Packing
  <2>2. BuildInv'
    BY <1>1, <1>3, <1>4, <1>5, <2>1 DEF Inv, BuildInv
  <2>3. QED
    BY <1>2, <2>2 DEF Inv
<1>7. CASE Write
  <2>1. pc = "write" /\ pc' = "check" /\ disk' = bytes /\ UNCHANGED <<bytes, outcome>>
    BY <1>7 DEF Write
  <2>2. BuildInv'
    BY <1>1, <1>3, <1>4, <1>5, <2>1 DEF Inv, BuildInv
  <2>3. QED
    BY <1>2, <2>2 DEF Inv
<1>8. CASE WriteFailsSomewhere
  <2>1. /\ pc = "write" /\ pc' = "done" /\ bytes' = bytes /\ outcome' \in {"error", "killed"}
        /\ \E written \in 0..(bytes.size - 1) : disk' = [bytes EXCEPT !.size = written]
    BY <1>8 DEF WriteFailsSomewhere, WriteFails
  <2>2. Torn'
    BY <2>1 DEF Torn
  <2>3. BuildInv'
    BY <1>1, <1>3, <1>4, <1>5, <2>1, <2>2 DEF Inv, BuildInv
  <2>4. QED
    BY <1>2, <2>3 DEF Inv
<1>9. CASE CreateFails
  <2>1. /\ pc = "write" /\ pc' = "done" /\ outcome' = "error" /\ UNCHANGED <<bytes, disk>>
    BY <1>9 DEF CreateFails
  <2>2. BuildInv'
    BY <1>1, <1>3, <1>4, <1>5, <2>1 DEF Inv, BuildInv
  <2>3. QED
    BY <1>2, <2>2 DEF Inv
<1>10. CASE RoundTrip
  <2>1. /\ pc = "check" /\ pc' = "done" /\ UNCHANGED <<bytes, disk>>
        /\ outcome' = "ok" => Opens(bytes) /\ bytes.count.records = Len(kept)
    BY <1>10 DEF RoundTrip
  <2>2. Opens(bytes)' = Opens(bytes)
    BY <2>1
  <2>3. BuildInv'
    BY <1>1, <1>3, <1>4, <1>5, <2>1, <2>2 DEF Inv, BuildInv
  <2>4. QED
    BY <1>2, <2>3 DEF Inv
<1>11. QED
  BY <1>6, <1>7, <1>8, <1>9, <1>10

LEMMA InvStep == Inv /\ [Next]_vars => Inv'
<1> SUFFICES ASSUME Inv, [Next]_vars PROVE Inv'
  OBVIOUS
<1>1. CASE Select
  BY <1>1, SelectKeeps
<1>2. CASE Import
  BY <1>2, ImportKeeps
<1>3. CASE ImportFails
  BY <1>3, ImportFailsKeeps
<1>4. CASE Importing
  BY <1>4, ImportingKeeps
<1>5. CASE Imported
  BY <1>5, ImportedKeeps
<1>6. CASE PackAgain \/ Write \/ WriteFailsSomewhere \/ CreateFails \/ RoundTrip
  BY <1>6, OutputStepsKeep
<1>7. CASE UNCHANGED vars
  <2>1. UNCHANGED <<source, options, pc, kept, base, bytes, disk, outcome, ingest>>
    BY <1>7 DEF vars
  <2>2. IngestInv'
    BY <2>1, IngestStays DEF Inv
  <2>3. /\ Selection' = Selection /\ Packing' = Packing /\ reading' = reading
        /\ UNCHANGED <<index, kept>>
    BY <2>1, SelectionStays, PackingStays DEF ingest
  <2>4. reading' # "idle" => IndexOK'
    BY <2>3, IndexStays DEF Inv, BuildInv
  <2>5. Torn' <=> Torn
    BY <2>1 DEF Torn
  <2>6. BuildInv'
    BY <2>1, <2>3, <2>4, <2>5 DEF Inv, BuildInv
  <2>7. QED
    BY <2>2, <2>6 DEF Inv
<1>8. QED
  BY <1>1, <1>2, <1>3, <1>4, <1>5, <1>6, <1>7 DEF Next

\* Every reachable state is one of those the invariant describes.
THEOREM Invariant == Spec => []Inv
<1>1. Init => Inv
  BY InvInit
<1>2. Inv /\ [Next]_vars => Inv'
  BY InvStep
<1>3. QED
  BY <1>1, <1>2, PTL DEF Spec

-----------------------------------------------------------------------------
(***************************************************************************)
(* The sections of a catalog                                               *)
(***************************************************************************)
LEMMA OutputIsReduced == IngestInv => OutputOK
BY DEF IngestInv, OutputOK

\* The measurements and the calibrations a build returns are in the strictly
\* increasing order that the searches of the reader rely on.
THEOREM RowsAreAlwaysReadyToSearch == Spec => []RowsAreReadyToSearch
<1>1. Inv => RowsAreReadyToSearch
  BY ReadyToSearch, OutputIsReduced DEF Inv, IngestInv
<1>2. QED
  BY <1>1, Invariant, PTL

\* No machine is given a factor that its own plausible results do not support.
THEOREM FactorsAreAlwaysSupported == Spec => []FactorsAreSupported
<1>1. Inv => FactorsAreSupported
  BY FactorsHaveSupport, OutputIsReduced DEF Inv, IngestInv
<1>2. QED
  BY <1>1, Invariant, PTL

\* Whatever the list, the filters and --top, the most downloaded are taken.
THEOREM AlwaysTakesTheMostDownloaded == Spec => []TakesTheMostDownloaded
<1>1. Inv => TakesTheMostDownloaded
  BY TheMostDownloaded DEF Inv, BuildInv
<1>2. QED
  BY <1>1, Invariant, PTL

\* Both packings say of every kept entry what the source said of it.
LEMMA PackingsSay ==
    ASSUME Inv, NEW file \in {base, bytes} \ {None}
    PROVE  kept \in Seq(Named) /\ Says(file, kept)
<1>1. pc # "select"
  BY DEF Inv, BuildInv
<1>2. kept \in Seq(Named)
  BY <1>1, KeptIsNamed DEF Inv
<1>3. file = Pack(kept, <<>>, <<>>) \/ file = Packing
  BY <1>1 DEF Inv, BuildInv
<1>4. QED
  BY <1>2, <1>3, AFileSaysWhatWasPacked DEF Packing

\* Every name of every catalog reads back as it was spelt.
THEOREM NamesAlwaysReadBack == Spec => []NamesReadBack
<1>1. ASSUME Inv PROVE NamesReadBack
  <2> SUFFICES ASSUME NEW file \in {base, bytes} \ {None}, NEW i \in DOMAIN kept
               PROVE  NameAt(file, i) = Spelling[kept[i].name]
    BY DEF NamesReadBack
  <2>1. kept \in Seq(Named) /\ Says(file, kept)
    BY <1>1, PackingsSay
  <2>2. i \in 1..Len(kept)
    BY <2>1
  <2>3. QED
    BY <2>1, <2>2 DEF Says
<1>2. QED
  BY <1>1, Invariant, PTL

\* A sparse model of any size and any number of experts activates a slice.
THEOREM SparseModelsAlwaysActivateASlice == Spec => []SparseModelsActivateASlice
<1>1. ASSUME Inv PROVE SparseModelsActivateASlice
  <2> SUFFICES ASSUME NEW file \in {base, bytes} \ {None}, NEW i \in DOMAIN kept,
                      kept[i].moe, kept[i].active = 0, file.records[i].params > 1
               PROVE  file.records[i].active \in 1..(file.records[i].params - 1)
    BY DEF SparseModelsActivateASlice
  <2>1. kept \in Seq(Named) /\ Says(file, kept)
    BY <1>1, PackingsSay
  <2>2. i \in 1..Len(kept) /\ kept[i] \in SourceEntry
    BY <2>1 DEF Named
  <2>3. /\ file.records[i].params = DivRound(kept[i].params)
        /\ file.records[i].active = Active(kept[i])
    BY <2>1, <2>2 DEF Says
  <2>4. QED
    BY <2>2, <2>3, ActiveIsASlice
<1>2. QED
  BY <1>1, Invariant, PTL

-----------------------------------------------------------------------------
(***************************************************************************)
(* The file at the output path                                             *)
(***************************************************************************)
\* A build that reports success has left the whole catalog behind.
THEOREM SuccessAlwaysMeansAWholeFile == Spec => []SuccessMeansAWholeFile
<1>1. Inv => SuccessMeansAWholeFile
  BY DEF Inv, BuildInv, SuccessMeansAWholeFile
<1>2. QED
  BY <1>1, Invariant, PTL

LEMMA OutputIsCounted ==
    ASSUME IngestInv
    PROVE  Len(output.measurements) \in Nat /\ Len(output.calibrations) \in Nat
<1>1. \A s : \A n \in Nat : DOMAIN s = 1..n => Len(s) \in Nat
  OBVIOUS
<1>2. Len(<<>>) \in Nat
  OBVIOUS
<1>3. GroupsOK /\ RatiosOK
  BY DEF IngestInv
<1>4. Len(MeasurementRows) \in Nat
  BY <1>1, <1>3, OneRowForEachGroup
<1>5. Len(Calibrations) \in Nat
  BY <1>1, <1>3, OneFactorForEachMachine
<1>6. QED
  BY <1>2, <1>4, <1>5 DEF IngestInv

\* Wherever a write was torn, what it left does not open.
THEOREM ATornFileIsAlwaysRefused == Spec => []ATornFileIsRefused
<1>1. ASSUME Inv, disk # None, Opens(disk) PROVE disk.size = bytes.size
  <2>1. disk = bytes \/ (pc # "select" /\ bytes = Packing /\ Torn)
    BY <1>1 DEF Inv, BuildInv
  <2>2. CASE pc # "select" /\ bytes = Packing /\ Torn
    <3>1. kept \in Seq(Named)
      BY <1>1, <2>2, KeptIsNamed DEF Inv
    <3>2. PICK written \in 0..(bytes.size - 1) : disk = [bytes EXCEPT !.size = written]
      BY <2>2 DEF Torn
    <3>3. ~Opens(disk)
      BY <1>1, <2>2, <3>1, <3>2, OutputIsCounted, ATornFileDoesNotOpen DEF Packing, Inv
    <3>4. QED
      BY <1>1, <3>3
  <2>3. QED
    BY <2>1, <2>2
<1>2. Inv => ATornFileIsRefused
  BY <1>1 DEF ATornFileIsRefused
<1>3. QED
  BY <1>2, Invariant, PTL

-----------------------------------------------------------------------------
(***************************************************************************)
(* Where a measurement comes from                                          *)
(***************************************************************************)
LEMMA SubmittedAreSources == \A hw, i : Submitted(hw, i) \subseteq AllSources
BY DEF Submitted, AllSources

\* The samples of a group are of submissions for it: between two files of
\* some, and once all files are read of all of them.
LEMMA AGroupIsOfSubmissions ==
    ASSUME IngestInv, reading # "file", NEW pair \in DOMAIN grouped
    PROVE  /\ grouped[pair] \in Seq(Samples) /\ grouped[pair] # <<>>
           /\ \E b, T : /\ Fits(b, grouped[pair], T)
                        /\ T \subseteq Submitted(pair[1], pair[2])
                        /\ todo = {} => T = Submitted(pair[1], pair[2])
<1> DEFINE S == Submitted(pair[1], pair[2])
<1>1. pair \in Pairs /\ grouped[pair] \in Seq(Samples) /\ grouped[pair] # <<>>
  BY DEF IngestInv, GroupsOK
<1>2. PICK R : IsRead(R) /\ Tallied(R)
  BY DEF IngestInv
<1>3. PICK b : Fits(b, grouped[pair], S \cap R)
  BY <1>1, <1>2 DEF Tallied, GroupOf
<1>4. todo = {} => R = AllSources
  BY <1>2 DEF IsRead
<1>5. todo = {} => S \cap R = S
  BY <1>4, SubmittedAreSources
<1>6. QED
  BY <1>1, <1>3, <1>5

\* Somebody submitted the throughput of a row, and under a name that spells
\* the quant of the row.
LEMMA AMeasurementWasSubmitted ==
    ASSUME IngestInv, reading # "file", NEW pair \in DOMAIN grouped
    PROVE  \E x \in Submitted(pair[1], pair[2]) :
              /\ Saturated(At(x).tps) = MeasurementOf(pair).tps
              /\ QuantFromName(At(x).model) = MeasurementOf(pair).quant
<1> DEFINE s == grouped[pair]
<1>1. s \in Seq(Samples) /\ s # <<>>
  BY AGroupIsOfSubmissions
<1>2. PICK b, T : Fits(b, s, T) /\ T \subseteq Submitted(pair[1], pair[2])
  BY AGroupIsOfSubmissions
<1> HIDE DEF s
<1>3. PICK i \in DOMAIN s : TheSample(s) = s[i]
  BY <1>1, TheSampleIsOne
<1>4. i \in 1..Len(s) /\ b \in [1..Len(s) -> T]
  BY <1>1, <1>2 DEF Fits, Bijection, Injection
<1>5. b[i] \in Submitted(pair[1], pair[2]) /\ s[i] = SampleOf(At(b[i]))
  BY <1>2, <1>4 DEF Fits
<1>6. s[i].tps = At(b[i]).tps /\ s[i].quant = QuantFromName(At(b[i]).model)
  BY <1>5 DEF SampleOf
<1>7. /\ MeasurementOf(pair).tps = Saturated(s[i].tps)
      /\ MeasurementOf(pair).quant = s[i].quant
  BY <1>3 DEF MeasurementOf, s
<1>8. QED
  BY <1>5, <1>6, <1>7

\* What returns is Reduce.
LEMMA ReturnsReduce ==
    ASSUME [Next]_vars, Returns
    PROVE  Reduce
<1>1. reading # "done" /\ reading' = "done"
  BY DEF Returns
<1>2. ~UNCHANGED ingest
  BY <1>1 DEF ingest
<1>3. ~Importing /\ ~Import
  BY <1>1 DEF Importing, Import, IngestStep, SkipMalformed, SkipAnonymous, TakeFile,
              Immeasurable, Unmatched, Record, Reading, EndOfFile
<1>4. QED
  BY <1>2, <1>3 DEF Next, vars, Select, ImportFails, Imported, PackAgain, Write,
                    WriteFailsSomewhere, WriteFails, CreateFails, RoundTrip

\* A row returned is of a group, and the group of all that was submitted.
LEMMA AReturnedRow ==
    ASSUME IngestInv, Reduce, NEW row \in Range(output'.measurements)
    PROVE  /\ reading # "file" /\ todo = {}
           /\ \E pair \in DOMAIN grouped :
                 /\ row = MeasurementOf(pair)
                 /\ row.hw = pair[1] /\ row.index = pair[2]
<1>1. /\ reading = "walk" /\ todo = {} /\ output'.measurements = MeasurementRows
  BY DEF Reduce
<1>2. GroupsOK
  BY DEF IngestInv
<1>3. PICK k \in DOMAIN MeasurementRows : row = MeasurementRows[k]
  BY <1>1 DEF Range
<1>4. \E pair \in DOMAIN grouped : row = MeasurementOf(pair)
  BY <1>2, <1>3, OneRowForEachGroup
<1>5. QED
  BY <1>1, <1>4, RowsAreKeyed

\* The throughput a row states is one that was observed at the quant it states.
THEOREM ThroughputWasAlwaysObservedAtItsQuant == Spec => ThroughputWasObservedAtItsQuant
<1> DEFINE Observed ==
             \A row \in Range(output'.measurements) :
                \E s \in Submitted(row.hw, row.index) :
                    /\ Saturated(At(s).tps) = row.tps
                    /\ QuantFromName(At(s).model) = row.quant
<1>1. ASSUME Inv, [Next]_vars, Returns PROVE Observed
  <2> SUFFICES ASSUME NEW row \in Range(output'.measurements)
               PROVE  \E s \in Submitted(row.hw, row.index) :
                         /\ Saturated(At(s).tps) = row.tps
                         /\ QuantFromName(At(s).model) = row.quant
    OBVIOUS
  <2>1. IngestInv /\ Reduce
    BY <1>1, ReturnsReduce DEF Inv
  <2>2. reading # "file"
    BY <2>1, AReturnedRow
  <2>3. PICK pair \in DOMAIN grouped :
            row = MeasurementOf(pair) /\ row.hw = pair[1] /\ row.index = pair[2]
    BY <2>1, AReturnedRow
  <2>4. QED
    BY <2>1, <2>2, <2>3, AMeasurementWasSubmitted
<1> HIDE DEF Observed
<1>2. Inv /\ [Next]_vars => [Returns => Observed]_ingest
  BY <1>1
<1>3. Spec => [][Returns => Observed]_ingest
  BY <1>2, Invariant, PTL DEF Spec
<1>4. QED
  BY <1>3 DEF ThroughputWasObservedAtItsQuant, Observed

-----------------------------------------------------------------------------
(***************************************************************************)
(* The median                                                              *)
(***************************************************************************)
\* c lists T by throughput: what is at k is no faster than what follows it and
\* no slower than what precedes it.
ByRank(c, T, n, k, tps) ==
    /\ c \in Bijection(1..n, T)
    /\ \A j \in 1..n : At(c[j]).tps \in Nat
    /\ \A j \in 1..n : j >= k => At(c[j]).tps >= tps
    /\ \A j \in 1..n : j <= k => At(c[j]).tps <= tps

\* Sorting a group ranks the submissions it is of.
LEMMA GroupsAreRanked ==
    \A s \in Seq(Samples) : \A b, T :
        s # <<>> /\ Fits(b, s, T)
        => \E c : ByRank(c, T, Len(s), (Len(s) \div 2) + 1, TheSample(s).tps)
<1> SUFFICES ASSUME NEW s \in Seq(Samples), NEW b, NEW T, s # <<>>, Fits(b, s, T)
             PROVE  \E c : ByRank(c, T, Len(s), (Len(s) \div 2) + 1, TheSample(s).tps)
  OBVIOUS
<1> DEFINE n == Len(s)
           k == (n \div 2) + 1
           slower == {p \in (DOMAIN s) \X (DOMAIN s) :
                         \/ s[p[1]].tps < s[p[2]].tps
                         \/ s[p[1]].tps = s[p[2]].tps /\ p[1] < p[2]}
           order == Arranged(DOMAIN s, slower)
           c == [j \in 1..n |-> b[order[j]]]
<1>1. /\ n \in Nat \ {0} /\ DOMAIN s = 1..n /\ \A i \in 1..n : s[i] \in Samples
  OBVIOUS
<1>2. \A i \in 1..n : s[i].tps \in Nat
  BY <1>1, SamplesAreMeasured
<1>3. k \in 1..n
  BY <1>1, MiddleIsInside
<1>4. \A i, j \in 1..n : <<i, j>> \in slower <=>
          s[i].tps < s[j].tps \/ (s[i].tps = s[j].tps /\ i < j)
  BY <1>1
<1>5. TheSample(s) = ByThroughput(s)[k]
  BY SlowestFirst DEF TheSample, Middle
<1>6. ByThroughput(s) = [j \in 1..n |-> s[order[j]]]
  BY <1>1 DEF ByThroughput
<1>7. /\ b \in [1..n -> T] /\ (\A i, j \in 1..n : b[i] = b[j] => i = j)
      /\ \A y \in T : \E i \in 1..n : b[i] = y
      /\ \A i \in 1..n : s[i] = SampleOf(At(b[i]))
  BY DEF Fits, Bijection, Injection, Surjection, IsInjective
<1> HIDE DEF slower, n, k
<1>8. Orders(slower, DOMAIN s)
  <2>1. \A i \in 1..n : <<i, i>> \notin slower
    BY <1>1, <1>2, <1>4
  <2>2. \A i, j \in 1..n : i # j => <<i, j>> \in slower \/ <<j, i>> \in slower
    BY <1>1, <1>2, <1>4
  <2>3. \A i, j, m \in 1..n :
            <<i, j>> \in slower /\ <<j, m>> \in slower => <<i, m>> \in slower
    BY <1>1, <1>2, <1>4
  <2>4. QED
    BY <1>1, <2>1, <2>2, <2>3 DEF Orders
<1>9. IsFiniteSet(DOMAIN s) /\ Cardinality(DOMAIN s) = n
  BY <1>1, CountingUp
<1>10. InOrder(order, DOMAIN s, slower)
  BY <1>8, <1>9, ArrangedInOrder
<1> HIDE DEF order
<1>11. /\ order \in [1..n -> 1..n]
       /\ \A i \in 1..n : \E j \in 1..n : order[j] = i
       /\ \A i, j \in 1..n : i < j => <<order[i], order[j]>> \in slower
  BY <1>1, <1>9, <1>10 DEF InOrder
<1>12. \A i, j \in 1..n : order[i] = order[j] => i = j
  <2>1. \A i, j \in 1..n : i < j => order[i] # order[j]
    BY <1>1, <1>8, <1>11 DEF Orders
  <2>2. QED
    BY <1>1, <2>1
<1>13. c \in [1..n -> T] /\ \A j \in 1..n : c[j] = b[order[j]]
  BY <1>7, <1>11
<1> HIDE DEF c
<1>14. c \in Bijection(1..n, T)
  <2>1. \A i, j \in 1..n : c[i] = c[j] => i = j
    <3> SUFFICES ASSUME NEW i \in 1..n, NEW j \in 1..n, c[i] = c[j] PROVE i = j
      OBVIOUS
    <3>1. order[i] \in 1..n /\ order[j] \in 1..n /\ b[order[i]] = b[order[j]]
      BY <1>11, <1>13
    <3>2. order[i] = order[j]
      BY <1>7, <3>1
    <3>3. QED
      BY <1>12, <3>2
  <2>2. \A y \in T : \E j \in 1..n : c[j] = y
    BY <1>7, <1>11, <1>13
  <2>3. QED
    BY <1>13, <2>1, <2>2 DEF Bijection, Injection, Surjection, IsInjective
<1>15. \A j \in 1..n : At(c[j]).tps = s[order[j]].tps
  <2> SUFFICES ASSUME NEW j \in 1..n PROVE At(c[j]).tps = s[order[j]].tps
    OBVIOUS
  <2>1. order[j] \in 1..n /\ c[j] = b[order[j]]
    BY <1>11, <1>13
  <2>2. s[order[j]] = SampleOf(At(c[j]))
    BY <1>7, <2>1
  <2>3. QED
    BY <2>2 DEF SampleOf
<1>16. \A i, j \in 1..n : i <= j => s[order[i]].tps <= s[order[j]].tps
  <2> SUFFICES ASSUME NEW i \in 1..n, NEW j \in 1..n, i <= j
               PROVE  s[order[i]].tps <= s[order[j]].tps
    OBVIOUS
  <2>1. order[i] \in 1..n /\ order[j] \in 1..n
    BY <1>11
  <2>2. i = j \/ i < j
    BY <1>1
  <2>3. i = j \/ <<order[i], order[j]>> \in slower
    BY <1>11, <2>2
  <2>4. s[order[i]].tps \in Nat /\ s[order[j]].tps \in Nat
    BY <1>2, <2>1
  <2> DEFINE p == order[i]
             q == order[j]
  <2>5. <<p, q>> \in slower => s[p].tps <= s[q].tps
    <3>1. p \in 1..n /\ q \in 1..n /\ s[p].tps \in Nat /\ s[q].tps \in Nat
      BY <2>1, <2>4
    <3> HIDE DEF p, q
    <3>2. QED
      BY <1>4, <3>1
  <2>6. QED
    BY <2>3, <2>4, <2>5
<1>17. TheSample(s).tps = s[order[k]].tps
  BY <1>3, <1>5, <1>6
<1>18. ByRank(c, T, n, k, TheSample(s).tps)
  <2>1. \A j \in 1..n : s[order[j]].tps \in Nat
    BY <1>2, <1>11
  <2>2. \A j \in 1..n : j >= k => s[order[j]].tps >= s[order[k]].tps
    BY <1>1, <1>3, <1>16, <2>1
  <2>3. QED
    BY <1>3, <1>14, <1>15, <1>16, <1>17, <2>1, <2>2 DEF ByRank
<1>19. QED
  BY <1>18 DEF n, k

\* Fewer than half of them are faster, at most half slower.
LEMMA RanksAreCounted ==
    \A T, c : \A n \in Nat \ {0} : \A tps \in Nat :
        ByRank(c, T, n, (n \div 2) + 1, tps)
        => /\ Cardinality(T) = n
           /\ \A F : F \subseteq T /\ (\A x \in F : At(x).tps < tps)
                     => 2 * Cardinality(F) <= n
           /\ \A F : F \subseteq T /\ (\A x \in F : At(x).tps > tps)
                     => 2 * Cardinality(F) < n
<1> SUFFICES ASSUME NEW T, NEW c, NEW n \in Nat \ {0}, NEW tps \in Nat,
                    ByRank(c, T, n, (n \div 2) + 1, tps)
             PROVE  /\ Cardinality(T) = n
                    /\ \A F : F \subseteq T /\ (\A x \in F : At(x).tps < tps)
                              => 2 * Cardinality(F) <= n
                    /\ \A F : F \subseteq T /\ (\A x \in F : At(x).tps > tps)
                              => 2 * Cardinality(F) < n
  OBVIOUS
<1> DEFINE h == n \div 2
           k == h + 1
<1>1. h \in Nat /\ 2 * h <= n /\ n < 2 * h + 2 /\ k \in 1..n /\ k = h + 1
  OBVIOUS
<1> HIDE DEF h, k
<1>2. /\ c \in Bijection(1..n, T)
      /\ \A j \in 1..n : At(c[j]).tps \in Nat
      /\ \A j \in 1..n : j >= k => At(c[j]).tps >= tps
      /\ \A j \in 1..n : j <= k => At(c[j]).tps <= tps
  BY DEF ByRank, h, k
<1>3. IsFiniteSet(1..n) /\ Cardinality(1..n) = n
  BY CountingUp
<1>4. Cardinality(T) = n
  BY <1>2, <1>3, FS_Bijection DEF ExistsBijection
<1>5. /\ c \in [1..n -> T] /\ \A y \in T : \E j \in 1..n : c[j] = y
  BY <1>2 DEF Bijection, Injection, Surjection
<1>6. ASSUME NEW F, F \subseteq T, NEW lo \in Nat, NEW m \in Nat,
             \A j \in 1..n : c[j] \in F => j - lo \in 1..m
      PROVE  Cardinality(F) \in Nat /\ Cardinality(F) <= m
  <2> DEFINE rank == [x \in F |-> CHOOSE j \in 1..n : c[j] = x]
             f == [x \in F |-> rank[x] - lo]
  <2>1. \A x \in F : rank[x] \in 1..n /\ c[rank[x]] = x
    BY <1>5, <1>6
  <2> HIDE DEF rank
  <2>2. f \in [F -> 1..m] /\ \A x \in F : f[x] = rank[x] - lo
    BY <1>6, <2>1
  <2> HIDE DEF f
  <2>3. \A x, y \in F : f[x] = f[y] => x = y
    <3>1. \A x, y \in F : f[x] = f[y] => rank[x] = rank[y]
      BY <1>6, <2>1, <2>2
    <3>2. QED
      BY <2>1, <3>1
  <2>4. f \in Injection(F, 1..m)
    BY <2>2, <2>3 DEF Injection, IsInjective
  <2>5. IsFiniteSet(1..m) /\ Cardinality(1..m) = m
    BY <1>6, CountingUp
  <2>6. IsFiniteSet(F) /\ Cardinality(F) <= m
    BY <2>4, <2>5, FS_Injection
  <2>7. QED
    BY <2>6, FS_CardinalityType
<1>7. ASSUME NEW F, F \subseteq T, \A x \in F : At(x).tps < tps
      PROVE  2 * Cardinality(F) <= n
  <2>1. \A j \in 1..n : c[j] \in F => j - 0 \in 1..h
    BY <1>1, <1>2, <1>7
  <2>2. Cardinality(F) \in Nat /\ Cardinality(F) <= h
    BY <1>1, <1>6, <1>7, <2>1
  <2>3. QED
    BY <1>1, <2>2
<1>8. ASSUME NEW F, F \subseteq T, \A x \in F : At(x).tps > tps
      PROVE  2 * Cardinality(F) < n
  <2>1. \A j \in 1..n : c[j] \in F => j - k \in 1..(n - k)
    BY <1>1, <1>2, <1>8
  <2>2. n - k \in Nat /\ k \in Nat
    BY <1>1
  <2>3. Cardinality(F) \in Nat /\ Cardinality(F) <= n - k
    BY <1>6, <1>8, <2>1, <2>2
  <2>4. QED
    BY <1>1, <2>3
<1>9. QED
  BY <1>4, <1>7, <1>8

\* Of a group of any size, read in any order and from any number of files, the
\* throughput returned is a median of all that was submitted.
THEOREM ReportedThroughputIsAlwaysTheMedian == Spec => ReportedThroughputIsTheMedian
<1> DEFINE Median == \A row \in Range(output'.measurements) : StatesTheMedian(row)
<1>1. ASSUME Inv, [Next]_vars, Returns PROVE Median
  <2> SUFFICES ASSUME NEW row \in Range(output'.measurements) PROVE StatesTheMedian(row)
    OBVIOUS
  <2>1. IngestInv /\ Reduce
    BY <1>1, ReturnsReduce DEF Inv
  <2>2. reading # "file" /\ todo = {}
    BY <2>1, AReturnedRow
  <2>3. PICK pair \in DOMAIN grouped :
            row = MeasurementOf(pair) /\ row.hw = pair[1] /\ row.index = pair[2]
    BY <2>1, AReturnedRow
  <2> DEFINE T == Submitted(row.hw, row.index)
             g == grouped[pair]
             n == Len(g)
             tps == TheSample(g).tps
             slow == {s \in T : At(s).tps < row.tps}
             fast == {s \in T : Saturated(At(s).tps) > row.tps}
  <2>4. g \in Seq(Samples) /\ g # <<>> /\ \E b : Fits(b, g, T)
    BY <2>1, <2>2, <2>3, AGroupIsOfSubmissions
  <2>5. row.tps = Saturated(tps)
    BY <2>3 DEF MeasurementOf
  <2> HIDE DEF T, g
  <2>6. n \in Nat \ {0}
    BY <2>4
  <2>7. tps \in Nat
    BY <2>4, TheSampleIsOne, SamplesAreMeasured
  <2>8. PICK c : ByRank(c, T, n, (n \div 2) + 1, tps)
    BY <2>4, GroupsAreRanked
  <2> HIDE DEF n, tps
  <2>9. \A x \in T : At(x).tps \in Nat
    <3>1. \A x \in T : \E j \in 1..n : c[j] = x
      BY <2>8 DEF ByRank, Bijection, Surjection
    <3>2. QED
      BY <2>8, <3>1 DEF ByRank
  <2>10. \A x \in slow : At(x).tps < tps
    BY <2>5, <2>7, <2>9 DEF Saturated, U16Max
  <2>11. \A x \in fast : At(x).tps > tps
    BY <2>5, <2>7, <2>9 DEF Saturated, U16Max
  <2>12. slow \subseteq T /\ fast \subseteq T
    OBVIOUS
  <2> HIDE DEF slow, fast
  <2>13. Cardinality(T) = n /\ 2 * Cardinality(slow) <= n /\ 2 * Cardinality(fast) < n
    BY <2>6, <2>7, <2>8, <2>10, <2>11, <2>12, RanksAreCounted
  <2>14. QED
    BY <2>13 DEF T, slow, fast, StatesTheMedian
<1> HIDE DEF Median
<1>2. Inv /\ [Next]_vars => [Returns => Median]_ingest
  BY <1>1
<1>3. Spec => [][Returns => Median]_ingest
  BY <1>2, Invariant, PTL DEF Spec
<1>4. QED
  BY <1>3 DEF ReportedThroughputIsTheMedian, Median

-----------------------------------------------------------------------------
(***************************************************************************)
(* The model of a measurement                                              *)
(***************************************************************************)
\* Of the entries of a key the first is the most downloaded.
LEMMA TheFirstOfAKey ==
    ASSUME BuildInv, pc # "select", NEW i \in 1..Len(kept), NEW key,
           \A j \in 1..Len(kept) : SourceKey[kept[j].name] = key => i <= j
    PROVE  \A m \in Range(source) :
               Keep(m) /\ SourceKey[m.name] = key => m.downloads <= kept[i].downloads
<1> SUFFICES ASSUME NEW m \in Range(source), Keep(m), SourceKey[m.name] = key
             PROVE  m.downloads <= kept[i].downloads
  OBVIOUS
<1>1. source \in Sources /\ options \in Options /\ kept = Selection
  BY DEF BuildInv
<1>2. kept \in Seq(Named) /\ DOMAIN kept = 1..Len(kept)
  BY KeptIsNamed
<1>3. CASE m \notin Range(kept)
  <2>1. TakesTheMostDownloaded
    BY <1>1, TheMostDownloaded
  <2>2. kept[i] \in Range(kept)
    BY <1>2 DEF Range
  <2>3. QED
    BY <1>3, <2>1, <2>2 DEF TakesTheMostDownloaded
<1>4. CASE m \in Range(kept)
  <2>1. PICK j \in 1..Len(kept) : m = kept[j]
    BY <1>2, <1>4 DEF Range
  <2>2. i <= j
    BY <2>1
  <2>3. kept[i].downloads \in Nat /\ kept[j].downloads \in Nat
    BY <1>2 DEF Named, SourceEntry
  <2>4. CASE i < j
    <3>1. PICK order : Chosen(order)
      BY <1>1, SelectionIsChosen
    <3>2. /\ kept[i] = source[order[i]] /\ kept[j] = source[order[j]]
          /\ Len(kept) \in 0..Cardinality(Eligible)
      BY <1>1, <3>1 DEF Chosen
    <3>3. /\ Cardinality(Eligible) \in Nat
          /\ \A a, b \in 1..Cardinality(Eligible) : a < b => <<order[a], order[b]>> \in earlier
      BY <3>1 DEF Chosen, InOrder
    <3>4. i \in 1..Cardinality(Eligible) /\ j \in 1..Cardinality(Eligible)
      BY <3>2, <3>3
    <3>5. Earlier(order[i], order[j])
      BY <2>4, <3>3, <3>4 DEF earlier
    <3>6. QED
      BY <2>1, <2>3, <3>2, <3>5 DEF Earlier
  <2>5. CASE i = j
    BY <2>1, <2>3, <2>5
  <2>6. QED
    BY <2>2, <2>4, <2>5
<1>5. QED
  BY <1>3, <1>4

\* The index of a submission leads to the model its name is a name of.
LEMMA ARowNamesItsModel ==
    ASSUME Inv, reading = "done", pc # "select", NEW row \in Range(output.measurements)
    PROVE  NamesItsModel(row, Packing)
<1>1. IngestInv /\ BuildInv /\ IndexOK /\ GroupsOK /\ output.measurements = MeasurementRows
  BY DEF Inv, IngestInv, BuildInv
<1>2. PICK k \in DOMAIN MeasurementRows : row = MeasurementRows[k]
  BY <1>1 DEF Range
<1>3. PICK pair \in DOMAIN grouped : row = MeasurementOf(pair)
  BY <1>1, <1>2, OneRowForEachGroup
<1>4. row.hw = pair[1] /\ row.index = pair[2]
  BY <1>3, RowsAreKeyed
<1>5. PICK x \in Submitted(row.hw, row.index) : Saturated(At(x).tps) = row.tps
  BY <1>1, <1>3, <1>4, AMeasurementWasSubmitted
<1>6. /\ x \in AllSources /\ MachineOf(Contents[x[1]]) = row.hw
      /\ KeyOf[At(x).model] \in DOMAIN index /\ index[KeyOf[At(x).model]] = row.index
  BY <1>5, SubmittedAreSources DEF Submitted, Matches, At
<1>7. x[1] \in Paths /\ At(x) \in Range(Contents[x[1]].results)
  <2>1. PICK path \in Paths : x \in {path} \X DOMAIN Contents[path].results
    BY <1>6 DEF AllSources
  <2>2. x[1] = path /\ x[2] \in DOMAIN Contents[path].results
    BY <2>1
  <2>3. QED
    BY <2>2 DEF At, Range
<1> DEFINE i == row.index + 1
           key == KeyOf[At(x).model]
<1>8. /\ i \in 1..Len(kept) /\ SourceKey[kept[i].name] = key
      /\ \A j \in 1..Len(kept) : SourceKey[kept[j].name] = key => i <= j
  BY <1>1, <1>6 DEF IndexOK
<1> HIDE DEF i
<1>9. kept \in Seq(Named)
  BY <1>1, KeptIsNamed
<1>10. NameAt(Packing, i) = Spelling[kept[i].name]
  BY <1>8, <1>9, AFileSaysWhatWasPacked DEF Packing, Says
<1>11. \A m \in Range(source) :
           Keep(m) /\ SourceKey[m.name] = SourceKey[kept[i].name]
           => m.downloads <= kept[i].downloads
  BY <1>1, <1>8, TheFirstOfAKey
<1>12. \E path \in Paths : \E r \in Range(Contents[path].results) :
           /\ MachineOf(Contents[path]) = row.hw
           /\ KeyOf[r.model] = SourceKey[kept[i].name]
           /\ Saturated(r.tps) = row.tps
  BY <1>5, <1>6, <1>7, <1>8
<1>13. QED
  BY <1>10, <1>11, <1>12 DEF NamesItsModel, i

\* A measurement is packed under the model it is a measurement of.
THEOREM MeasurementsAlwaysNameTheirModel == Spec => MeasurementsNameTheirModel
<1> DEFINE TheyDo == \A row \in Range(bytes'.measurements) : NamesItsModel(row, bytes')
<1>1. ASSUME Inv, [Next]_vars, bytes' # bytes PROVE TheyDo
  <2>1. PackAgain
    BY <1>1 DEF Next, vars, Select, Import, ImportFails, Importing, Imported, Write,
                WriteFailsSomewhere, WriteFails, CreateFails, RoundTrip
  <2>2. pc = "pack" /\ bytes' = Packing
    BY <2>1 DEF PackAgain, Packing
  <2>3. Packing.measurements = output.measurements
    BY DEF Packing, Pack
  <2>4. CASE reading = "done"
    BY <1>1, <2>2, <2>3, <2>4, ARowNamesItsModel
  <2>5. CASE reading # "done"
    <3>1. output.measurements = <<>>
      BY <1>1, <2>5 DEF Inv, IngestInv
    <3>2. Range(bytes'.measurements) = {}
      BY <2>2, <2>3, <3>1 DEF Range
    <3>3. QED
      BY <3>2
  <2>6. QED
    BY <2>4, <2>5
<1> HIDE DEF TheyDo
<1>2. Inv /\ [Next]_vars => [bytes' # bytes => TheyDo]_vars
  BY <1>1
<1>3. Spec => [][bytes' # bytes => TheyDo]_vars
  BY <1>2, Invariant, PTL DEF Spec
<1>4. QED
  BY <1>3 DEF MeasurementsNameTheirModel, TheyDo
=============================================================================
