--------------------------- MODULE Lookup_proofs ---------------------------
(***************************************************************************)
(* From a word to a measurement, for every catalog, every word and every   *)
(* width of a usize: the right model is found, the right row is found for  *)
(* it, and no step reads outside the image.                                *)
(***************************************************************************)
EXTENDS Lookup, TLAPS

-----------------------------------------------------------------------------
(***************************************************************************)
(* The image                                                               *)
(***************************************************************************)
USE USizeAssumption

\* Until it is open an image is not read; once open, its sections are those
\* that Section computes, and none was refused.
BoundRight ==
    /\ pc = "open" => Complaint = "none" /\ bound = [s \in SectionName |-> Section(s)]
    /\ pc = "refused" => Complaint # "none"
    /\ pc # "open" => read = None

Inv == TypeOK /\ BoundRight /\ ReadsStayInBounds

\* An image has a size, and an offset and a count for each section.
LEMMA ImageFields ==
    ASSUME NEW i \in Image, NEW s \in SectionName
    PROVE  /\ i.size \in Nat /\ i.size < USize
           /\ i.off[s] \in Nat /\ i.count[s] \in Nat
BY DEF Image

\* A stride is a positive number of bytes.
LEMMA StrideIsPositive ==
    ASSUME NEW s \in SectionName
    PROVE  Stride[s] \in Nat /\ Stride[s] > 0
BY DEF SectionName, Stride, RecordLen, MeasurementLen, CalibrationLen

\* The product of two naturals is one.
LEMMA ProductIsNatural ==
    ASSUME NEW a \in Nat, NEW b \in Nat
    PROVE  a * b \in Nat
OBVIOUS

\* A section that is bound lies in the image, and is empty or has one stride
\* for each of its records.
LEMMA SectionInImage ==
    ASSUME image \in Image, NEW s \in SectionName, Section(s) # None
    PROVE  /\ Section(s) \in [off : 0..(USize - 1), len : 0..(USize - 1)]
           /\ Section(s).off + Section(s).len <= image.size
           /\ Section(s).len = image.count[s] * Stride[s]
<1> DEFINE n == image.count[s]
           w == Stride[s]
           off == image.off[s]
           len == n * w
<1>1. image.size \in Nat /\ image.size < USize /\ off \in Nat /\ n \in Nat
  BY ImageFields
<1>2. w \in Nat /\ len \in Nat
  BY <1>1, StrideIsPositive, ProductIsNatural
<1>3. CASE n = 0
  <2>1. Section(s) = [off |-> 0, len |-> 0]
    BY <1>3 DEF Section
  <2>2. len = 0
    BY <1>3, <1>2
  <2> QED BY <1>1, <2>1, <2>2
<1>4. CASE n # 0
  <2>1. Section(s) = [off |-> off, len |-> len]
    BY <1>4 DEF Section
  <2>2. ~(len >= USize \/ off + len >= USize \/ off + len > image.size)
    BY <1>4 DEF Section
  <2>3. off \in 0..(USize - 1) /\ len \in 0..(USize - 1) /\ off + len <= image.size
    BY <1>1, <1>2, <2>2
  <2> QED BY <2>1, <2>3
<1> QED BY <1>3, <1>4

\* A section is refused exactly when it is not empty and runs past the image.
LEMMA RefusedSection ==
    ASSUME image \in Image, NEW s \in SectionName
    PROVE  Section(s) = None <=>
             ~(image.count[s] = 0 \/ image.off[s] + image.count[s] * Stride[s] <= image.size)
<1> DEFINE n == image.count[s]
           off == image.off[s]
           len == n * Stride[s]
<1>1. image.size \in Nat /\ image.size < USize /\ off \in Nat /\ n \in Nat /\ len \in Nat
  BY ImageFields, StrideIsPositive, ProductIsNatural
<1>2. n = 0 => Section(s) # None
  BY NoneIsNoRecord DEF Section
<1>3. ASSUME n # 0
      PROVE  Section(s) = None <=> (len >= USize \/ off + len >= USize \/ off + len > image.size)
  <2>1. [off |-> off, len |-> len] # None
    BY <1>1, NoneIsNoRecord
  <2> QED BY <1>3, <2>1 DEF Section
<1>4. (len >= USize \/ off + len >= USize \/ off + len > image.size) <=> off + len > image.size
  BY <1>1
<1>5. off + len > image.size <=> ~(off + len <= image.size)
  BY <1>1
<1> QED BY <1>2, <1>3, <1>4, <1>5

\* parse complains exactly of the images that are not well formed.
LEMMA ComplaintIsRight ==
    ASSUME image \in Image
    PROVE  Complaint = "none" <=> WellFormed
<1>1. image.size < HeaderLen <=> ~(image.size >= HeaderLen)
  BY DEF Image, HeaderLen
<1>2. Truncated <=> ~ \A s \in SectionName :
          image.count[s] = 0 \/ image.off[s] + image.count[s] * Stride[s] <= image.size
  BY RefusedSection DEF Truncated
<1> QED BY <1>1, <1>2 DEF Complaint, WellFormed

-----------------------------------------------------------------------------
LEMMA InitInv == Init => Inv
<1> SUFFICES ASSUME Init PROVE Inv
  OBVIOUS
<1>1. bound \in [SectionName -> [off : 0..(USize - 1), len : 0..(USize - 1)]]
  BY DEF Init, HeaderLen
<1>2. TypeOK
  BY <1>1 DEF Init, TypeOK
<1>3. BoundRight /\ ReadsStayInBounds
  BY DEF Init, BoundRight, ReadsStayInBounds
<1> QED BY <1>2, <1>3 DEF Inv

\* A read of an open image that stays within its section keeps the invariant.
LEMMA ReadInv ==
    ASSUME Inv, NEW s \in SectionName, NEW from \in Nat, NEW to \in Nat,
           from <= to, to <= bound[s].len, Reads(s, from, to)
    PROVE  Inv'
<1>1. image \in Image
  BY ImagesAssumption DEF Inv, TypeOK
<1>2. Section(s) # None /\ bound[s] = Section(s)
  BY DEF Inv, BoundRight, Reads, Complaint, Truncated
<1>3. bound[s].off + bound[s].len <= image.size
  BY <1>1, <1>2, SectionInImage
<1>4. bound[s].off \in Nat /\ bound[s].len \in Nat /\ image.size \in Nat
  BY <1>1, <1>2, SectionInImage DEF Image
<1>5. read' = [section |-> s, from |-> from, to |-> to]
  BY DEF Reads
<1>6. UNCHANGED <<image, pc, error, bound>> /\ pc = "open"
  BY DEF Reads
<1>7. ReadsStayInBounds'
  BY <1>3, <1>4, <1>5, <1>6 DEF ReadsStayInBounds
<1>8. TypeOK'
  BY <1>5, <1>6 DEF Inv, TypeOK
<1>9. BoundRight'
  BY <1>6 DEF Inv, BoundRight, Complaint, Truncated, Section
<1> QED BY <1>7, <1>8, <1>9 DEF Inv

\* The rows of a section: an index below the number of strides it has is the
\* index of a stride within it.
LEMMA StrideInSection ==
    ASSUME NEW len \in Nat, NEW i \in Nat, NEW w \in {8, 16, 32},
           i < len \div w
    PROVE  i * w + w <= len /\ i * w \in Nat
BY Z3

LEMMA StepInv == Inv /\ [Next]_vars => Inv'
<1> SUFFICES ASSUME Inv, [Next]_vars PROVE Inv'
  OBVIOUS
<1>0. image \in Image
  BY ImagesAssumption DEF Inv, TypeOK
<1>1. CASE Refuse
  <2>1. Complaint' = Complaint
    BY <1>1 DEF Refuse, Complaint, Truncated, Section
  <2> QED BY <1>1, <2>1 DEF Refuse, Inv, TypeOK, BoundRight, ReadsStayInBounds, Complaint
<1>2. CASE Open
  <2>1. Complaint' = Complaint /\ \A s \in SectionName : Section(s)' = Section(s)
    BY <1>2 DEF Open, Complaint, Truncated, Section
  <2>2. \A s \in SectionName : Section(s) # None
    BY <1>2 DEF Open, Complaint, Truncated
  <2>3. bound' \in [SectionName -> [off : 0..(USize - 1), len : 0..(USize - 1)]]
    BY <1>0, <1>2, <2>2, SectionInImage DEF Open
  <2> QED BY <1>2, <2>1, <2>3 DEF Open, Inv, TypeOK, BoundRight, ReadsStayInBounds
<1>3. ASSUME NEW i \in 0..(USize - 1), Get(i) PROVE Inv'
  <2>1. "records" \in SectionName
    BY DEF SectionName
  <2>2. Section("records") # None /\ bound["records"] = Section("records")
    BY <1>3, <2>1 DEF Get, Reads, Inv, BoundRight, Complaint, Truncated
  <2>3. bound["records"].len = image.count["records"] * 32
    BY <1>0, <2>1, <2>2, SectionInImage DEF Stride, RecordLen
  <2>4. i < image.count["records"] /\ i \in Nat /\ image.count["records"] \in Nat
    BY <1>0, <1>3, <2>1, ImageFields DEF Get
  <2>5. i * 32 + 32 <= bound["records"].len /\ i * 32 \in Nat /\ i * 32 + 32 \in Nat
    BY <2>3, <2>4
  <2>6. Reads("records", i * 32, i * 32 + 32)
    BY <1>3 DEF Get, RecordLen
  <2> QED BY <2>1, <2>5, <2>6, ReadInv
<1>4. ASSUME NEW i \in 0..(USize - 1), NEW bytes \in {8, 15}, ProbeMeasurement(i, bytes)
      PROVE  Inv'
  <2>1. "measurements" \in SectionName
    BY DEF SectionName
  <2>2. bound["measurements"].len \in Nat
    BY <2>1 DEF Inv, TypeOK
  <2>3. i \in Nat /\ i < bound["measurements"].len \div 16
    BY <1>4 DEF ProbeMeasurement, MeasurementLen
  <2>4. i * 16 + 16 <= bound["measurements"].len /\ i * 16 \in Nat
    BY <2>2, <2>3, StrideInSection
  <2>5. Reads("measurements", i * 16, i * 16 + bytes)
    BY <1>4 DEF ProbeMeasurement, MeasurementLen
  <2>6. i * 16 + bytes \in Nat /\ i * 16 <= i * 16 + bytes
        /\ i * 16 + bytes <= bound["measurements"].len
    BY <2>2, <2>4
  <2> QED BY <2>1, <2>4, <2>5, <2>6, ReadInv
<1>5. ASSUME NEW i \in 0..(USize - 1), ProbeCalibration(i) PROVE Inv'
  <2>1. "calibrations" \in SectionName
    BY DEF SectionName
  <2>2. bound["calibrations"].len \in Nat
    BY <2>1 DEF Inv, TypeOK
  <2>3. i \in Nat /\ i < bound["calibrations"].len \div 8
    BY <1>5 DEF ProbeCalibration, CalibrationLen
  <2>4. i * 8 + 8 <= bound["calibrations"].len /\ i * 8 \in Nat
    BY <2>2, <2>3, StrideInSection
  <2>5. Reads("calibrations", i * 8, i * 8 + 7)
    BY <1>5 DEF ProbeCalibration, CalibrationLen
  <2> QED BY <2>1, <2>2, <2>4, <2>5, ReadInv
<1>6. ASSUME NEW i \in 0..(USize - 1), Name(i) PROVE Inv'
  <2>1. "strings" \in SectionName
    BY DEF SectionName
  <2>2. bound["strings"].len \in Nat
    BY <2>1 DEF Inv, TypeOK
  <2>3. PICK end \in i..bound["strings"].len : Reads("strings", i, end)
    BY <1>6 DEF Name
  <2> QED BY <2>1, <2>2, <2>3, ReadInv
<1>7. CASE UNCHANGED vars
  BY <1>7 DEF vars, Inv, TypeOK, BoundRight, ReadsStayInBounds, Complaint, Truncated, Section
<1> QED BY <1>1, <1>2, <1>3, <1>4, <1>5, <1>6, <1>7 DEF Next

-----------------------------------------------------------------------------
\* The invariants hold of every image.
THEOREM Invariant == Spec => []Inv
BY InitInv, StepInv, PTL DEF Spec

\* Types of the reader's state.
THEOREM TypeCorrect == Spec => []TypeOK
<1>1. Inv => TypeOK
  BY DEF Inv
<1> QED BY <1>1, Invariant, PTL

\* No accessor reads outside its section or the image, on a device of any
\* word size and for any image.
THEOREM AlwaysInBounds == Spec => []ReadsStayInBounds
<1>1. Inv => ReadsStayInBounds
  BY DEF Inv
<1> QED BY <1>1, Invariant, PTL

\* The checks in machine arithmetic accept exactly the images that are well
\* formed in unbounded arithmetic.
THEOREM ParseIsExact == Spec => []OpensExactlyTheWellFormed
<1>1. Inv => OpensExactlyTheWellFormed
  BY ComplaintIsRight, ImagesAssumption DEF Inv, TypeOK, BoundRight, OpensExactlyTheWellFormed
<1> QED BY <1>1, Invariant, PTL

HIDE USizeAssumption

-----------------------------------------------------------------------------
(***************************************************************************)
(* The binary search                                                       *)
(***************************************************************************)
\* The packed key determines the row: Span is larger than any index.
LEMMA KeyIsInjective ==
    ASSUME NEW a \in Row, NEW b \in Row
    PROVE  /\ Key(a) \in Nat
           /\ Key(a) = Key(b) => a = b
<1>1. /\ a.hw \in Nat /\ b.hw \in Nat /\ Span \in Nat \ {0}
      /\ a.index \in 0..(Span - 1) /\ b.index \in 0..(Span - 1)
  BY SpanAssumption DEF Row
<1>2. a = [hw |-> a.hw, index |-> a.index] /\ b = [hw |-> b.hw, index |-> b.index]
  BY DEF Row
<1>3. \A x, y, i, j, s \in Nat :
         i < s /\ j < s /\ x * s + i = y * s + j => x = y
  <2> SUFFICES ASSUME NEW x \in Nat, NEW y \in Nat, NEW i \in Nat, NEW j \in Nat,
                      NEW s \in Nat, i < s, j < s, x * s + i = y * s + j, x # y
               PROVE  FALSE
    OBVIOUS
  <2>1. CASE x < y
    <3>1. PICK d \in Nat : y = x + 1 + d
      <4>1. y - x - 1 \in Nat /\ y = x + 1 + (y - x - 1)
        BY <2>1
      <4>2. QED
        BY <4>1
    <3>2. y * s = x * s + s + d * s /\ d * s >= 0
      BY <3>1
    <3>3. QED
      BY <3>2
  <2>2. CASE y < x
    <3>1. PICK d \in Nat : x = y + 1 + d
      <4>1. x - y - 1 \in Nat /\ x = y + 1 + (x - y - 1)
        BY <2>2
      <4>2. QED
        BY <4>1
    <3>2. x * s = y * s + s + d * s /\ d * s >= 0
      BY <3>1
    <3>3. QED
      BY <3>2
  <2>3. QED
    BY <2>1, <2>2
<1>4. Key(a) = Key(b) => a.hw = b.hw
  <2>1. /\ a.index \in Nat /\ a.index < Span
        /\ b.index \in Nat /\ b.index < Span /\ Span \in Nat
    BY <1>1
  <2>2. QED
    BY <1>1, <1>3, <2>1, Zenon DEF Key
<1>5. Key(a) = Key(b) => a.index = b.index
  <2>1. a.hw * Span \in Nat
    BY <1>1
  <2>2. QED
    BY <1>1, <1>4, <2>1 DEF Key
<1>6. Key(a) \in Nat
  BY <1>1 DEF Key
<1>7. QED
  BY <1>2, <1>4, <1>5, <1>6

\* The section is sorted, and its rows and the needle have keys.
LEMMA SectionFacts ==
    ASSUME SearchTypeOK
    PROVE  /\ table.count \in Nat
           /\ \A i \in 0..(table.count - 1) :
                 table.rows[i] \in Row /\ Key(table.rows[i]) \in Nat
           /\ \A i, j \in 0..(table.count - 1) :
                 i < j => Key(table.rows[i]) < Key(table.rows[j])
           /\ needle \in Row /\ Key(needle) \in Nat
<1>1. SectionType(table) /\ needle \in Row
  BY SearchAssumption DEF SearchTypeOK
<1>2. QED
  BY <1>1, KeyIsInjective DEF SectionType

IInv == SearchTypeOK /\ NeverDiscardsTheRow /\ FindsExactlyTheRow

\* The row probed is inside the interval, hence inside the section.
LEMMA MidInside ==
    ASSUME SearchTypeOK, Probing
    PROVE  Mid \in 0..(table.count - 1) /\ lo <= Mid /\ Mid < hi
BY SectionFacts DEF SearchTypeOK, Probing, Mid

LEMMA InitInvariant == SearchInit => IInv
<1> SUFFICES ASSUME SearchInit PROVE IInv
  OBVIOUS
<1>1. table.count \in Nat /\ needle \in Row
  BY SearchAssumption DEF SearchInit, SectionType
<1>2. QED
  BY <1>1 DEF SearchInit, IInv, SearchTypeOK, NeverDiscardsTheRow, FindsExactlyTheRow, Holds

LEMMA GoRightInvariant ==
    ASSUME IInv, GoRight
    PROVE  IInv'
<1>1. /\ Mid \in 0..(table.count - 1) /\ lo <= Mid /\ Mid < hi
      /\ hi \in 0..table.count
      /\ Key(table.rows[Mid]) < Key(needle)
      /\ lo' = Mid + 1 /\ UNCHANGED <<table, needle, progress, hi, found>>
      /\ progress = "search" /\ SearchTypeOK
  BY MidInside DEF IInv, SearchTypeOK, GoRight, Probing
<1>2. SearchTypeOK'
  BY <1>1, SectionFacts DEF SearchTypeOK
<1>3. ASSUME NEW i \in 0..(table.count - 1), Holds(i) PROVE Mid < i
  <2>1. Key(table.rows[i]) = Key(needle)
    BY <1>3 DEF Holds
  <2>2. QED
    BY <1>1, <2>1, SectionFacts
<1>4. NeverDiscardsTheRow'
  BY <1>1, <1>3, SectionFacts DEF IInv, NeverDiscardsTheRow, Holds
<1>5. QED
  BY <1>1, <1>2, <1>4 DEF IInv, FindsExactlyTheRow

LEMMA GoLeftInvariant ==
    ASSUME IInv, GoLeft
    PROVE  IInv'
<1>1. /\ Mid \in 0..(table.count - 1) /\ lo <= Mid /\ Mid < hi
      /\ hi \in 0..table.count /\ lo \in 0..table.count
      /\ Key(table.rows[Mid]) > Key(needle)
      /\ hi' = Mid /\ UNCHANGED <<table, needle, progress, lo, found>>
      /\ progress = "search" /\ SearchTypeOK
  BY MidInside DEF IInv, SearchTypeOK, GoLeft, Probing
<1>2. SearchTypeOK'
  BY <1>1, SectionFacts DEF SearchTypeOK
<1>3. ASSUME NEW i \in 0..(table.count - 1), Holds(i) PROVE i < Mid
  <2>1. Key(table.rows[i]) = Key(needle)
    BY <1>3 DEF Holds
  <2>2. QED
    BY <1>1, <2>1, SectionFacts
<1>4. NeverDiscardsTheRow'
  BY <1>1, <1>3, SectionFacts DEF IInv, NeverDiscardsTheRow, Holds
<1>5. QED
  BY <1>1, <1>2, <1>4 DEF IInv, FindsExactlyTheRow

\* The three ways the search returns.
LEMMA ReturnInvariant ==
    ASSUME IInv, Unidentified \/ Hit \/ Miss
    PROVE  IInv'
<1>1. /\ progress = "search" /\ progress' = "done"
      /\ UNCHANGED <<table, needle, lo, hi>> /\ SearchTypeOK
  BY DEF IInv, Unidentified, Hit, Miss, Answer
<1>2. NeverDiscardsTheRow'
  BY <1>1 DEF NeverDiscardsTheRow
<1>3. CASE Hit
  <2>1. /\ Mid \in 0..(table.count - 1) /\ needle.hw # 0 /\ found' = Mid
        /\ Key(table.rows[Mid]) = Key(needle)
    BY <1>1, <1>3, MidInside DEF Hit, Probing, Answer
  <2>2. table.rows[Mid] = needle
    BY <1>1, <2>1, SectionFacts, KeyIsInjective
  <2>3. Mid # None
    BY <2>1, SearchAssumption
  <2>4. QED
    BY <1>1, <1>2, <2>1, <2>2, <2>3 DEF IInv, SearchTypeOK, FindsExactlyTheRow, Holds
<1>4. CASE Unidentified
  <2>1. found' = None /\ (needle.hw = 0 \/ table.count = 0)
    BY <1>4 DEF Unidentified, Answer
  <2>2. QED
    BY <1>1, <1>2, <2>1, SectionFacts DEF IInv, SearchTypeOK, FindsExactlyTheRow, Holds
<1>5. CASE Miss
  <2>1. found' = None /\ ~(lo < hi)
    BY <1>5 DEF Miss, Answer
  <2>2. lo \in Nat /\ hi \in Nat
    BY <1>1, SectionFacts DEF SearchTypeOK
  <2>3. \A i \in 0..(table.count - 1) : ~Holds(i)
    BY <1>1, <2>1, <2>2, SectionFacts DEF IInv, NeverDiscardsTheRow
  <2>4. QED
    BY <1>1, <1>2, <2>1, <2>3 DEF IInv, SearchTypeOK, FindsExactlyTheRow, Holds
<1>6. QED
  BY <1>3, <1>4, <1>5

\* The inductive invariant holds of every search.
THEOREM SearchInvariant == SearchSpec => []IInv
<1>1. SearchInit => IInv
  BY InitInvariant
<1>2. IInv /\ [SearchNext]_searchVars => IInv'
  <2>1. ASSUME IInv, UNCHANGED searchVars PROVE IInv'
    BY <2>1 DEF searchVars, IInv, SearchTypeOK, NeverDiscardsTheRow, FindsExactlyTheRow, Holds
  <2>2. QED
    BY <2>1, GoRightInvariant, GoLeftInvariant, ReturnInvariant DEF SearchNext
<1>3. QED
  BY <1>1, <1>2, PTL DEF SearchSpec

\* The interval never leaves the section: no probe reads past its end.
THEOREM SearchTypeCorrect == SearchSpec => []SearchTypeOK
<1>1. IInv => SearchTypeOK
  BY DEF IInv
<1>2. QED
  BY <1>1, SearchInvariant, PTL

\* A lookup answers with exactly the row asked for, if the section has it.
THEOREM SearchIsExact == SearchSpec => []FindsExactlyTheRow
<1>1. IInv => FindsExactlyTheRow
  BY DEF IInv
<1>2. QED
  BY <1>1, SearchInvariant, PTL

\* Every iteration at least halves the interval, so the loop is finite.
THEOREM AlwaysHalves == SearchSpec => Halves
<1>1. ASSUME IInv, [SearchNext]_searchVars
      PROVE  [progress' = "search" => 2 * (hi' - lo') <= hi - lo]_searchVars
  <2> SUFFICES ASSUME SearchNext, progress' = "search" PROVE 2 * (hi' - lo') <= hi - lo
    BY <1>1
  <2>1. /\ Probing /\ SearchTypeOK /\ Mid \in Int /\ lo \in Int /\ hi \in Int
        /\ GoRight \/ GoLeft
    BY <1>1, MidInside, SectionFacts DEF IInv, SearchTypeOK, SearchNext, Unidentified, Hit, Miss,
       Answer, GoRight, GoLeft
  <2>2. 2 * (Mid - lo) <= hi - lo /\ 2 * (hi - (Mid + 1)) <= hi - lo
    BY <2>1, SMT DEF Mid
  <2>3. CASE GoRight
    BY <2>1, <2>2, <2>3 DEF GoRight
  <2>4. CASE GoLeft
    BY <2>1, <2>2, <2>4 DEF GoLeft
  <2>5. QED
    BY <2>1, <2>3, <2>4
<1>2. QED
  BY <1>1, SearchInvariant, PTL DEF SearchSpec, Halves

-----------------------------------------------------------------------------
(***************************************************************************)
(* The lookup                                                              *)
(***************************************************************************)
Records == image.count["records"]

\* The three parts of a catalog belong together.
CatalogRight ==
    /\ image \in Image
    /\ table \in Tables
    /\ table.count = image.count["measurements"]
    /\ DOMAIN names = 1..Records
    /\ Records <= Span
    /\ needle \in Row

\* The image is open while it is walked, and the walk is over when the search
\* begins.
PhasesRight ==
    /\ finding \in {"record", "name", "found"}
    /\ progress \in {"idle", "search", "done"}
    /\ cursor \in Nat
    /\ finding = "name" => cursor < Records
    /\ finding # "record" => pc = "open"
    /\ finding # "found" => progress = "idle"
    /\ progress = "idle" => found = None
    /\ progress # "idle" => finding = "found" /\ IInv

\* Of the records the walk has passed none has the word for a name, and the
\* one remembered is the first that contains it.
WalkRight ==
    finding # "found" =>
        /\ cursor <= Records
        /\ \A i \in 1..cursor : names[i] # query
        /\ partial = None => \A i \in 1..cursor : ~Contains(names[i], query)
        /\ partial # None =>
              /\ partial \in Nat
              /\ partial + 1 <= cursor
              /\ Contains(names[partial + 1], query)
              /\ \A i \in 1..partial : ~Contains(names[i], query)

LookupInv == CatalogRight /\ PhasesRight /\ WalkRight /\ FindPrefersTheExactName

\* A count is a usize.
LEMMA CountsFit ==
    ASSUME CatalogRight
    PROVE  /\ Records \in 0..(USize - 1)
           /\ image.count["measurements"] \in 0..(USize - 1)
           /\ USize \in Nat
BY USizeAssumption DEF CatalogRight, Records, Image, SectionName

-----------------------------------------------------------------------------
LEMMA LookupInitInv == LookupInit => LookupInv
<1> SUFFICES ASSUME LookupInit PROVE LookupInv
  OBVIOUS
<1>1. PICK c \in Catalogs : image = c[1] /\ table = c[2] /\ names = c[3]
  BY DEF LookupInit
<1>2. /\ image \in Image /\ needle \in Row
      /\ finding = "record" /\ progress = "idle" /\ found = None
      /\ cursor = 0 /\ partial = None
  BY ImagesAssumption, SearchAssumption DEF LookupInit, Init
<1>3. CatalogRight
  BY <1>1, <1>2, CatalogsAssumption DEF CatalogRight, Records
<1>4. PhasesRight
  BY <1>2 DEF PhasesRight
<1>5. Records \in Nat
  BY <1>3, CountsFit
<1>6. WalkRight /\ FindPrefersTheExactName
  BY <1>2, <1>5 DEF WalkRight, FindPrefersTheExactName
<1> QED BY <1>3, <1>4, <1>6 DEF LookupInv

\* A search starts with the whole section before it.
LEMMA SearchStarts ==
    ASSUME CatalogRight, needle' \in Row, UNCHANGED table,
           progress' = "search", lo' = 0, hi' = table.count, found' = None
    PROVE  IInv'
<1>1. table.count \in Nat
  BY SearchAssumption DEF CatalogRight, SectionType
<1>2. SearchTypeOK'
  BY <1>1 DEF SearchTypeOK, CatalogRight
<1>3. NeverDiscardsTheRow' /\ FindsExactlyTheRow'
  BY <1>1 DEF NeverDiscardsTheRow, FindsExactlyTheRow, Holds
<1> QED BY <1>2, <1>3 DEF IInv

\* What find returns is what it should, and is searched for.
LEMMA ReturnInv ==
    ASSUME LookupInv, pc = "open", pc' = "open", UNCHANGED <<image>>, finding # "found",
           NEW i, i = None \/ (i \in Nat /\ i < Records),
           Return(i),
           LET exact == {k \in DOMAIN names : names[k] = query}
               hits == IF exact = {} THEN {k \in DOMAIN names : Contains(names[k], query)}
                       ELSE exact
           IN  IF hits = {} THEN i = None
               ELSE i + 1 \in hits /\ \A k \in hits : i + 1 <= k
    PROVE  LookupInv'
<1>1. /\ model' = i /\ finding' = "found"
      /\ UNCHANGED <<image, names, query, cursor, partial, table>>
  BY DEF Return, searchVars
<1>2. needle' \in Row
  <2>1. CASE i = None
    BY <2>1 DEF Return, searchVars, LookupInv, CatalogRight
  <2>2. CASE i # None
    <3>1. i \in 0..(Span - 1)
      <4>1. Records \in Nat /\ Records <= Span /\ Span \in Nat
        BY CountsFit, SpanAssumption DEF LookupInv, CatalogRight
      <4> QED BY <2>2, <4>1
    <3>2. needle' = [needle EXCEPT !.index = i] /\ needle \in Row
      BY <2>2 DEF Return, LookupInv, CatalogRight
    <3> QED BY <3>1, <3>2 DEF Row
  <2> QED BY <2>1, <2>2
<1>3. CatalogRight'
  BY <1>1, <1>2 DEF LookupInv, CatalogRight, Records
<1>4. FindPrefersTheExactName'
  BY <1>1 DEF FindPrefersTheExactName, Contains
<1>5. progress = "idle" /\ found = None /\ cursor \in Nat
  BY DEF LookupInv, PhasesRight
<1>6. PhasesRight'
  <2>1. CASE i = None
    <3>1. progress' = "idle"
      BY <1>5, <2>1 DEF Return, searchVars
    <3>2. UNCHANGED found
      BY <2>1 DEF Return, searchVars
    <3> QED BY <1>1, <1>5, <3>1, <3>2 DEF PhasesRight
  <2>2. CASE i # None
    <3>1. progress' = "search" /\ lo' = 0 /\ hi' = table.count /\ UNCHANGED found
      BY <2>2 DEF Return
    <3>2. IInv'
      BY <1>1, <1>2, <1>5, <3>1, SearchStarts DEF LookupInv
    <3> QED BY <1>1, <1>5, <3>1, <3>2 DEF PhasesRight
  <2> QED BY <2>1, <2>2
<1> QED BY <1>1, <1>3, <1>4, <1>6 DEF LookupInv, WalkRight

\* Opening and refusing.
LEMMA ParseInv ==
    ASSUME LookupInv, Refuse \/ Open, UNCHANGED <<searchVars, findVars>>
    PROVE  LookupInv'
<1>1. /\ UNCHANGED <<image, searchVars, findVars>>
      /\ pc = "closed"
  BY DEF Refuse, Open
<1>2. finding = "record" /\ progress = "idle"
  BY <1>1 DEF LookupInv, PhasesRight
<1> QED
  BY <1>1, <1>2 DEF LookupInv, CatalogRight, PhasesRight, WalkRight, FindPrefersTheExactName,
     Records, searchVars, findVars

\* The iterator yields a record.
LEMMA FetchInv ==
    ASSUME LookupInv, Fetch
    PROVE  LookupInv'
<1>1. /\ pc = "open" /\ cursor < Records /\ finding = "record" /\ finding' = "name"
      /\ UNCHANGED <<image, pc, searchVars, names, query, cursor, partial, model>>
  BY DEF Fetch, Get, Reads, Records
<1>2. progress = "idle"
  BY <1>1 DEF LookupInv, PhasesRight
<1> QED
  BY <1>1, <1>2 DEF LookupInv, CatalogRight, PhasesRight, WalkRight, FindPrefersTheExactName,
     Records, searchVars

\* Reading a name changes nothing but the span read last.
LEMMA ReadingIsHarmless ==
    ASSUME ReadsTheName
    PROVE  UNCHANGED <<image, pc>>
BY DEF ReadsTheName, Name, Reads, imageVars

\* The names before the cursor's and the cursor's own.
LEMMA TheNameIsNext ==
    ASSUME LookupInv, finding = "name"
    PROVE  /\ cursor \in Nat /\ cursor + 1 \in DOMAIN names
           /\ TheName = names[cursor + 1]
           /\ cursor < Records /\ Records \in Nat
           /\ \A i \in 1..(cursor + 1) : i \in 1..cursor \/ i = cursor + 1
           /\ DOMAIN names = 1..Records
<1>1. cursor \in Nat /\ cursor < Records /\ Records \in Nat /\ DOMAIN names = 1..Records
  BY CountsFit DEF LookupInv, PhasesRight, CatalogRight
<1> QED BY <1>1 DEF TheName

\* The first record with exactly that name is returned.
LEMMA ExactInv ==
    ASSUME LookupInv, Exact
    PROVE  LookupInv'
<1>1. /\ finding = "name" /\ TheName = query /\ Return(cursor)
      /\ UNCHANGED <<image, pc>> /\ pc = "open"
  BY ReadingIsHarmless DEF Exact, LookupInv, PhasesRight
<1>2. /\ cursor \in Nat /\ cursor < Records /\ Records \in Nat
      /\ DOMAIN names = 1..Records /\ names[cursor + 1] = query
  BY <1>1, TheNameIsNext
<1>3. \A i \in 1..cursor : names[i] # query
  BY <1>1 DEF LookupInv, WalkRight
<1>4. cursor + 1 \in {k \in DOMAIN names : names[k] = query}
  BY <1>2
<1>5. \A k \in {k \in DOMAIN names : names[k] = query} : cursor + 1 <= k
  BY <1>2, <1>3
<1> QED BY <1>1, <1>2, <1>4, <1>5, ReturnInv

\* Another name: it is remembered if it is the first that contains the word.
LEMMA NotExactInv ==
    ASSUME LookupInv, NotExact
    PROVE  LookupInv'
<1>1. /\ finding = "name" /\ TheName # query /\ finding' = "record"
      /\ partial' = IF partial = None /\ Contains(TheName, query) THEN cursor ELSE partial
      /\ cursor' = cursor + 1
      /\ UNCHANGED <<image, pc, searchVars, names, query, model>>
  BY ReadingIsHarmless DEF NotExact
<1>2. /\ cursor \in Nat /\ cursor < Records /\ Records \in Nat
      /\ DOMAIN names = 1..Records /\ TheName = names[cursor + 1]
      /\ \A i \in 1..(cursor + 1) : i \in 1..cursor \/ i = cursor + 1
  BY <1>1, TheNameIsNext
<1>3. WalkRight /\ progress = "idle" /\ found = None
  BY <1>1 DEF LookupInv, PhasesRight
<1>4. CatalogRight' /\ Records' = Records
  BY <1>1 DEF LookupInv, CatalogRight, Records, searchVars
<1>5. PhasesRight'
  BY <1>1, <1>2, <1>3 DEF LookupInv, PhasesRight, searchVars
<1>6. WalkRight'
  <2>1. cursor' <= Records'
    BY <1>1, <1>2, <1>4
  <2>2. \A i \in 1..cursor' : names'[i] # query'
    BY <1>1, <1>2, <1>3 DEF WalkRight
  <2>3. CASE partial # None
    <3>1. partial' = partial
      BY <1>1, <2>3
    <3>2. /\ partial \in Nat /\ partial + 1 <= cursor
          /\ Contains(names[partial + 1], query)
          /\ \A i \in 1..partial : ~Contains(names[i], query)
      BY <1>1, <1>3, <2>3 DEF WalkRight
    <3>3. partial + 1 <= cursor'
      BY <1>1, <1>2, <3>2
    <3>4. UNCHANGED <<names, query, partial>>
      BY <1>1, <3>1
    <3>5. partial' # None
      BY <2>3, <3>1
    <3>6. Contains(names[partial + 1], query)' /\ (\A i \in 1..partial : ~Contains(names[i], query))'
      BY <3>2, <3>4
    <3>7. (partial \in Nat)' /\ (partial + 1 <= cursor)'
      BY <3>1, <3>2, <3>3
    <3> QED BY <2>1, <2>2, <3>5, <3>6, <3>7 DEF WalkRight
  <2>4. CASE partial = None /\ Contains(TheName, query)
    <3>1. partial' = cursor /\ cursor # None
      BY <1>1, <1>2, <2>4, SearchAssumption
    <3>2. \A i \in 1..cursor : ~Contains(names[i], query)
      BY <1>1, <1>3, <2>4 DEF WalkRight
    <3>3. UNCHANGED <<names, query>> /\ Contains(names[cursor + 1], query)
      BY <1>1, <1>2, <2>4
    <3>4. Contains(names[partial + 1], query)' /\ (\A i \in 1..partial : ~Contains(names[i], query))'
      BY <3>1, <3>2, <3>3
    <3>5. (partial \in Nat)' /\ (partial + 1 <= cursor)' /\ partial' # None
      BY <1>1, <1>2, <3>1
    <3> QED BY <2>1, <2>2, <3>4, <3>5 DEF WalkRight
  <2>5. CASE partial = None /\ ~Contains(TheName, query)
    <3>1. partial' = None
      BY <1>1, <2>5
    <3>2. \A i \in 1..cursor' : ~Contains(names[i], query)
      BY <1>1, <1>2, <1>3, <2>5 DEF WalkRight
    <3>3. (\A i \in 1..cursor : ~Contains(names[i], query))'
      BY <1>1, <3>2
    <3> QED BY <2>1, <2>2, <3>1, <3>3 DEF WalkRight
  <2> QED BY <2>3, <2>4, <2>5
<1>7. FindPrefersTheExactName'
  BY <1>1 DEF FindPrefersTheExactName
<1> QED BY <1>4, <1>5, <1>6, <1>7 DEF LookupInv

\* No name was exactly the word: the one remembered, if any, is returned.
LEMMA NoneExactInv ==
    ASSUME LookupInv, NoneExact
    PROVE  LookupInv'
<1>1. /\ pc = "open" /\ finding = "record" /\ cursor >= Records
      /\ Return(partial) /\ UNCHANGED <<image, pc>>
  BY DEF NoneExact, imageVars, Records
<1>2. WalkRight /\ cursor \in Nat /\ Records \in Nat /\ DOMAIN names = 1..Records
  BY CountsFit DEF LookupInv, PhasesRight, CatalogRight
<1>3. cursor = Records
  BY <1>1, <1>2 DEF WalkRight
<1>4. {k \in DOMAIN names : names[k] = query} = {}
  BY <1>1, <1>2, <1>3 DEF WalkRight
<1>5. CASE partial = None
  <2>1. {k \in DOMAIN names : Contains(names[k], query)} = {}
    BY <1>1, <1>2, <1>3, <1>5 DEF WalkRight
  <2> QED BY <1>1, <1>4, <1>5, <2>1, ReturnInv
<1>6. CASE partial # None
  <2>1. /\ partial \in Nat /\ partial + 1 <= cursor
        /\ Contains(names[partial + 1], query)
        /\ \A i \in 1..partial : ~Contains(names[i], query)
    BY <1>1, <1>2, <1>6 DEF WalkRight
  <2>2. partial + 1 \in {k \in DOMAIN names : Contains(names[k], query)}
    BY <1>2, <1>3, <2>1
  <2>3. \A k \in {k \in DOMAIN names : Contains(names[k], query)} : partial + 1 <= k
    BY <1>2, <2>1
  <2>4. partial < Records
    BY <1>2, <1>3, <2>1
  <2> QED BY <1>1, <1>4, <2>1, <2>2, <2>3, <2>4, ReturnInv
<1> QED BY <1>5, <1>6

\* The search of the measurements.
LEMMA SearchInv ==
    ASSUME LookupInv, SearchNext, UNCHANGED <<image, pc, findVars>>
    PROVE  LookupInv'
<1>1. progress = "search" /\ progress' \in {"search", "done"} /\ UNCHANGED <<table, needle>>
  BY DEF SearchNext, Unidentified, GoRight, GoLeft, Hit, Miss, Answer, Probing
<1>2. IInv'
  BY <1>1, GoRightInvariant, GoLeftInvariant, ReturnInvariant
     DEF LookupInv, PhasesRight, SearchNext
<1> QED
  BY <1>1, <1>2 DEF LookupInv, CatalogRight, PhasesRight, WalkRight, FindPrefersTheExactName,
     Records, findVars

LEMMA LookupStepInv == LookupInv /\ [LookupNext]_lookupVars => LookupInv'
<1> SUFFICES ASSUME LookupInv, [LookupNext]_lookupVars PROVE LookupInv'
  OBVIOUS
<1>1. CASE Probe /\ UNCHANGED findVars
  <2>1. SearchNext /\ UNCHANGED <<image, pc>>
    BY <1>1 DEF Probe, SearchNext, ProbeMeasurement, Reads
  <2> QED BY <1>1, <2>1, SearchInv
<1>2. CASE (Unidentified \/ Miss) /\ UNCHANGED <<imageVars, findVars>>
  BY <1>2, SearchInv DEF SearchNext, imageVars
<1>3. CASE UNCHANGED lookupVars
  <2>1. UNCHANGED <<image, pc, table, needle, progress, lo, hi, found, names, query, finding,
                    cursor, partial, model>>
    BY <1>3 DEF lookupVars, imageVars, searchVars, findVars
  <2>2. UNCHANGED IInv
    BY <2>1 DEF IInv, SearchTypeOK, NeverDiscardsTheRow, FindsExactlyTheRow, Holds
  <2> QED
    BY <2>1, <2>2 DEF LookupInv, CatalogRight, PhasesRight, WalkRight, FindPrefersTheExactName,
       Records
<1> QED
  BY <1>1, <1>2, <1>3, ParseInv, FetchInv, ExactInv, NotExactInv, NoneExactInv DEF LookupNext

-----------------------------------------------------------------------------
\* The invariants hold of every lookup.
THEOREM LookupInvariant == LookupSpec => []LookupInv
BY LookupInitInv, LookupStepInv, PTL DEF LookupSpec

\* The model found is the one named, and a longer name that comes first does
\* not shadow it.
THEOREM FindIsExact == LookupSpec => []FindPrefersTheExactName
<1>1. LookupInv => FindPrefersTheExactName
  BY DEF LookupInv
<1> QED BY <1>1, LookupInvariant, PTL

\* The row found is that of the model and the machine asked for.
THEOREM LookupIsExact == LookupSpec => []FindsExactlyTheRow
<1>1. LookupInv => FindsExactlyTheRow
  BY DEF LookupInv, PhasesRight, IInv, FindsExactlyTheRow
<1> QED BY <1>1, LookupInvariant, PTL

\* Every step of a lookup is a step of the reader of module CatalogImage, or
\* reads nothing: its theorems hold of the lookup.
THEOREM ImplementsImage == LookupSpec => Spec
<1>1. LookupInit => Init
  BY DEF LookupInit
<1>2. LookupInv /\ [LookupNext]_lookupVars => [Next]_vars
  <2> SUFFICES ASSUME LookupInv, LookupNext PROVE [Next]_vars
    BY DEF lookupVars, imageVars, vars
  <2>1. Records \in 0..(USize - 1) /\ image.count["measurements"] \in 0..(USize - 1)
        /\ USize \in Nat /\ cursor \in Nat
    BY CountsFit DEF LookupInv, PhasesRight
  <2>2. CASE Fetch
    <3>1. cursor \in 0..(USize - 1) /\ Get(cursor)
      BY <2>1, <2>2 DEF Fetch, Get, Records
    <3> QED BY <3>1 DEF Next
  <2>3. CASE Exact \/ NotExact
    BY <2>3 DEF Exact, NotExact, ReadsTheName, Next, imageVars, vars
  <2>4. CASE Probe /\ UNCHANGED findVars
    <3>1. Probing /\ (ProbeMeasurement(Mid, 8) \/ ProbeMeasurement(Mid, 15))
      BY <2>4 DEF Probe, GoLeft, GoRight, Hit
    <3>2. SearchTypeOK
      BY <3>1 DEF LookupInv, PhasesRight, Probing, IInv
    <3>3. Mid \in 0..(USize - 1)
      BY <2>1, <3>1, <3>2, MidInside DEF LookupInv, CatalogRight
    <3> QED BY <3>1, <3>3 DEF Next
  <2> QED
    BY <2>2, <2>3, <2>4 DEF LookupNext, Next, NoneExact, imageVars, vars
<1> QED BY <1>1, <1>2, LookupInvariant, PTL DEF LookupSpec, Spec
=============================================================================
