-------------------------- MODULE ReportBuf_proofs --------------------------
(***************************************************************************)
(* A report in a buffer of any size, of any characters of one to four      *)
(* bytes and any pages: it never outgrows the buffer, its flag says        *)
(* exactly whether something is missing, and what is there is what was     *)
(* written up to a cut that only a full buffer makes.                      *)
(*                                                                         *)
(* The invariant names the cut: once something is missing, what was held   *)
(* at the first cut is the beginning of the report and of what was asked   *)
(* for, and it filled the buffer to within one character.                  *)
(***************************************************************************)
EXTENDS ReportBuf, Data_proofs

Text == Seq(Characters)

-----------------------------------------------------------------------------
(***************************************************************************)
(* Bytes                                                                   *)
(***************************************************************************)
Widths(s) == [i \in DOMAIN s |-> s[i].width]

LEMMA WidthsAreNumbers ==
    ASSUME NEW s \in Text
    PROVE  Widths(s) \in Seq(Nat) /\ Len(Widths(s)) = Len(s)
<1>1. \A i \in 1..Len(s) : s[i].width \in Nat
  BY CharactersAssumption DEF Text, MaxWidth
<1>2. QED
  BY <1>1 DEF Widths, Text

LEMMA WidthAt ==
    ASSUME NEW s \in Text, NEW i \in 1..Len(s)
    PROVE  Widths(s)[i] = s[i].width
<1>1. i \in DOMAIN s
  BY DEF Text
<1>2. QED
  BY <1>1 DEF Widths

\* Nothing takes no bytes.
LEMMA BytesOfNothing == Bytes(<<>>) = 0
<1>1. [i \in DOMAIN <<>> |-> <<>>[i].width] = <<>>
  OBVIOUS
<1>2. QED
  BY <1>1, TotalOfNothing DEF Bytes

\* One list of numbers after another: how long it is, and what stands where.
LEMMA PartsOfConcat ==
    \A a, b \in Seq(Nat) :
        /\ a \o b \in Seq(Nat) /\ Len(a \o b) = Len(a) + Len(b)
        /\ \A i \in 1..Len(a) : (a \o b)[i] = a[i]
        /\ \A j \in 1..Len(b) : (a \o b)[Len(a) + j] = b[j]
<1> SUFFICES ASSUME NEW a \in Seq(Nat), NEW b \in Seq(Nat)
             PROVE  /\ a \o b \in Seq(Nat) /\ Len(a \o b) = Len(a) + Len(b)
                    /\ \A i \in 1..Len(a) : (a \o b)[i] = a[i]
                    /\ \A j \in 1..Len(b) : (a \o b)[Len(a) + j] = b[j]
  OBVIOUS
<1>1. a \o b \in Seq(Nat)
  OBVIOUS
<1>2. Len(a \o b) = Len(a) + Len(b)
  OBVIOUS
<1>3. \A i \in 1..Len(a) : (a \o b)[i] = a[i]
  OBVIOUS
<1>4. \A j \in 1..Len(b) : (a \o b)[Len(a) + j] = b[j]
  OBVIOUS
<1>5. QED
  BY <1>1, <1>2, <1>3, <1>4

\* A write adds its own bytes.
LEMMA BytesOfConcat ==
    \A s, t \in Text :
        /\ Bytes(s) \in Nat /\ Bytes(t) \in Nat
        /\ Bytes(s \o t) = Bytes(s) + Bytes(t)
<1> SUFFICES ASSUME NEW s \in Text, NEW t \in Text
             PROVE  /\ Bytes(s) \in Nat /\ Bytes(t) \in Nat
                    /\ Bytes(s \o t) = Bytes(s) + Bytes(t)
  OBVIOUS
<1>1. \A u \in Text : Bytes(u) = Total(Widths(u)) /\ Widths(u) \in Seq(Nat)
  BY WidthsAreNumbers DEF Bytes, Widths
<1>2. \A u \in Seq(Nat) : Total(u) \in Nat
  <2>1. 0 \in Nat
    OBVIOUS
  <2>2. QED
    BY <2>1, TotalOfAppend
<1>3. Widths(s \o t) = Widths(s) \o Widths(t)
  <2>1. /\ s \in Seq(Characters) /\ t \in Seq(Characters)
        /\ Len(Widths(s)) = Len(s) /\ Len(Widths(t)) = Len(t)
        /\ Widths(s) \in Seq(Nat) /\ Widths(t) \in Seq(Nat)
    BY WidthsAreNumbers DEF Text
  <2>2. s \o t \in Text /\ Len(s \o t) = Len(s) + Len(t)
    BY <2>1 DEF Text
  <2>3. Widths(s \o t) \in Seq(Nat) /\ Len(Widths(s \o t)) = Len(s) + Len(t)
    BY <2>2, WidthsAreNumbers
  <2>4. ASSUME NEW i \in 1..(Len(s) + Len(t))
        PROVE  Widths(s \o t)[i] = (Widths(s) \o Widths(t))[i]
    <3>1. CASE i <= Len(s)
      <4>1. i \in 1..Len(s) /\ (s \o t)[i] = s[i]
        BY <2>1, <3>1
      <4>2. Widths(s)[i] = s[i].width
        BY <4>1, WidthAt
      <4>3. (Widths(s) \o Widths(t))[i] = Widths(s)[i]
        BY <2>1, <4>1, PartsOfConcat
      <4>4. Widths(s \o t)[i] = (s \o t)[i].width
        BY <2>2, WidthAt
      <4>5. QED
        BY <4>1, <4>2, <4>3, <4>4
    <3>2. CASE i > Len(s)
      <4>1. i - Len(s) \in 1..Len(t) /\ (s \o t)[i] = t[i - Len(s)]
        BY <2>1, <3>2
      <4>2. Widths(t)[i - Len(s)] = t[i - Len(s)].width
        BY <4>1, WidthAt
      <4>3. (Widths(s) \o Widths(t))[Len(s) + (i - Len(s))] = Widths(t)[i - Len(s)]
        BY <2>1, <4>1, PartsOfConcat
      <4>4. Widths(s \o t)[i] = (s \o t)[i].width
        BY <2>2, WidthAt
      <4>5. Len(s) + (i - Len(s)) = i
        BY <2>1, <2>4
      <4>6. QED
        BY <4>1, <4>2, <4>3, <4>4, <4>5
    <3>3. QED
      BY <2>1, <3>1, <3>2
  <2>5. /\ Widths(s) \o Widths(t) \in Seq(Nat)
        /\ Len(Widths(s) \o Widths(t)) = Len(s) + Len(t)
    BY <2>1, PartsOfConcat
  <2>6. QED
    BY <2>3, <2>4, <2>5, SeqEqual
<1>4. s \o t \in Text
  BY DEF Text
<1>5. Total(Widths(s) \o Widths(t)) = Total(Widths(s)) + Total(Widths(t))
  BY <1>1, TotalOfConcat
<1>6. QED
  BY <1>1, <1>2, <1>3, <1>4, <1>5

\* A character takes one to four bytes.
LEMMA BytesOfOne ==
    ASSUME NEW c \in Characters
    PROVE  <<c>> \in Text /\ Bytes(<<c>>) \in 1..MaxWidth
<1>1. c.width \in 1..MaxWidth /\ c.width \in Nat
  BY CharactersAssumption DEF MaxWidth
<1>2. [i \in DOMAIN <<c>> |-> <<c>>[i].width] = Append(<<>>, c.width)
  OBVIOUS
<1>3. Total(Append(<<>>, c.width)) = Total(<<>>) + c.width
  <2>1. <<>> \in Seq(Nat)
    OBVIOUS
  <2>2. QED
    BY <1>1, <2>1, TotalOfAppend
<1>4. QED
  BY <1>1, <1>2, <1>3, TotalOfNothing DEF Bytes, Text, MaxWidth

-----------------------------------------------------------------------------
(***************************************************************************)
(* What fits                                                               *)
(***************************************************************************)
\* A beginning of s and the rest of it.
LEMMA Beginning ==
    ASSUME NEW s \in Text, NEW k \in 0..Len(s)
    PROVE  /\ SubSeq(s, 1, k) \in Text /\ Len(SubSeq(s, 1, k)) = k
           /\ \E rest \in Text : s = SubSeq(s, 1, k) \o rest
           /\ k = Len(s) => SubSeq(s, 1, k) = s
           /\ k < Len(s) => SubSeq(s, 1, k + 1) = SubSeq(s, 1, k) \o <<s[k + 1]>>
<1>1. s \in Seq(Characters) /\ Len(s) \in Nat
  BY DEF Text
<1>2. SubSeq(s, 1, k) \in Seq(Characters) /\ Len(SubSeq(s, 1, k)) = k
  BY <1>1
<1>3. SubSeq(s, k + 1, Len(s)) \in Seq(Characters)
  BY <1>1
<1>4. SubSeq(s, 1, Len(s)) = s
  BY <1>1, SubSeqFull
<1>5. SubSeq(s, 1, k) \o SubSeq(s, k + 1, Len(s)) = SubSeq(s, 1, Len(s))
  <2>1. 1 \in 1..(Len(s) + 1) /\ k \in (1 - 1)..Len(s) /\ Len(s) \in k..Len(s)
    BY <1>1
  <2>2. QED
    BY <1>1, <2>1, ConcatAdjacentSubSeq
<1>6. ASSUME k < Len(s) PROVE SubSeq(s, 1, k + 1) = SubSeq(s, 1, k) \o <<s[k + 1]>>
  <2>1. 1 \in 1..Len(s) /\ k + 1 \in 1..Len(s) /\ (k + 1) - 1 = k
    BY <1>1, <1>6
  <2>2. SubSeq(s, 1, k + 1) = SubSeq(s, 1, (k + 1) - 1) \o <<s[k + 1]>>
    BY <1>1, <2>1, SubSeqRecursiveSecond
  <2>3. QED
    BY <2>1, <2>2
<1>7. QED
  BY <1>2, <1>3, <1>4, <1>5, <1>6 DEF Text

\* A beginning of s that fits: all of s if that does, and otherwise one that
\* another character would burst.
Fills(fit, s, space) ==
    /\ fit \in Text /\ Bytes(fit) <= space
    /\ \E rest \in Text : s = fit \o rest
    /\ Bytes(s) <= space => fit = s
    /\ Bytes(s) > space => Bytes(fit) > space - MaxWidth

\* What is written of a piece is such a beginning.
LEMMA FittingFacts == \A s \in Text : \A space \in Nat : Fills(Fitting(s, space), s, space)
<1> SUFFICES ASSUME NEW s \in Text, NEW space \in Nat
             PROVE  Fills(Fitting(s, space), s, space)
  OBVIOUS
<1> DEFINE Fits(p) == /\ Bytes(p) <= space
                      /\ \A q \in Prefixes(s) : Bytes(q) <= space => Len(q) <= Len(p)
           n == Len(s)
           T == {d \in 0..n : Bytes(SubSeq(s, 1, n - d)) <= space}
           fit == Fitting(s, space)
<1>1. n \in Nat /\ Prefixes(s) = {SubSeq(s, 1, k) : k \in 0..n}
  BY DEF Text, Prefixes
<1>2. \A k \in 0..n : Len(SubSeq(s, 1, k)) = k /\ SubSeq(s, 1, k) \in Text
  BY Beginning
<1>3. \E p \in Prefixes(s) : Fits(p)
  <2>1. n \in T
    <3>1. SubSeq(s, 1, n - n) = <<>>
      BY <1>1 DEF Text
    <3>2. Bytes(<<>>) <= space
      BY BytesOfNothing
    <3>3. Bytes(SubSeq(s, 1, n - n)) <= space
      BY <3>1, <3>2, Zenon
    <3>4. n \in 0..n
      BY <1>1
    <3>5. QED
      BY <3>3, <3>4
  <2>2. T \subseteq Nat
    OBVIOUS
  <2>3. PICK d \in T : \A e \in T : d <= e
    <3> HIDE DEF T, n
    <3>1. QED
      BY <2>1, <2>2, LeastElement, Zenon
  <2>4. d \in 0..n /\ n - d \in 0..n /\ Bytes(SubSeq(s, 1, n - d)) <= space
    BY <1>1, <2>3
  <2>5. ASSUME NEW q \in Prefixes(s), Bytes(q) <= space PROVE Len(q) <= Len(SubSeq(s, 1, n - d))
    <3>1. PICK k \in 0..n : q = SubSeq(s, 1, k)
      BY <1>1
    <3>2. n - k \in 0..n /\ n - (n - k) = k
      BY <1>1
    <3>3. n - k \in T
      BY <2>5, <3>1, <3>2
    <3>4. d <= n - k
      BY <2>3, <3>3
    <3>5. Len(q) = k /\ Len(SubSeq(s, 1, n - d)) = n - d
      BY <1>2, <2>4, <3>1
    <3>6. QED
      BY <1>1, <2>4, <3>4, <3>5
  <2>6. SubSeq(s, 1, n - d) \in Prefixes(s)
    BY <1>1, <2>4
  <2>7. QED
    BY <2>4, <2>5, <2>6
<1>4. fit \in Prefixes(s) /\ Fits(fit)
  <2>1. fit = CHOOSE p \in Prefixes(s) : Fits(p)
    BY DEF Fitting
  <2> HIDE DEF Fits, fit
  <2>2. QED
    BY <1>3, <2>1
<1> HIDE DEF fit
<1>5. PICK k \in 0..n : fit = SubSeq(s, 1, k)
  BY <1>1, <1>4
<1>6. fit \in Text /\ Len(fit) = k /\ \E rest \in Text : s = fit \o rest
  BY <1>5, Beginning
<1>7. ASSUME Bytes(s) <= space PROVE fit = s
  <2>1. s \in Prefixes(s)
    <3>1. Len(s) \in 0..Len(s)
      BY <1>1
    <3>2. SubSeq(s, 1, Len(s)) = s
      BY <3>1, Beginning
    <3>3. QED
      BY <1>1, <3>1, <3>2
  <2>2. n <= k
    BY <1>4, <1>6, <1>7, <2>1
  <2>3. k = n
    BY <1>1, <2>2
  <2>4. QED
    BY <1>5, <2>3, Beginning
<1>8. ASSUME Bytes(s) > space PROVE Bytes(fit) > space - MaxWidth
  <2>1. k # n
    <3>1. Bytes(s) \in Nat /\ Bytes(fit) \in Nat
      BY <1>6, BytesOfConcat
    <3>2. fit # s
      BY <1>4, <1>8, <3>1
    <3>3. k = Len(s) => fit = s
      BY <1>5, Beginning
    <3>4. QED
      BY <3>2, <3>3
  <2>2. k < n /\ k + 1 \in 0..n /\ k + 1 \in 1..n
    BY <1>1, <2>1
  <2> DEFINE more == SubSeq(s, 1, k + 1)
  <2>3. more \in Prefixes(s) /\ Len(more) = k + 1
    BY <1>1, <1>2, <2>2
  <2>4. ~(Bytes(more) <= space)
    <3>1. Bytes(more) <= space => Len(more) <= Len(fit)
      <4> HIDE DEF more
      <4>1. QED
        BY <1>4, <2>3
    <3>2. QED
      BY <1>6, <2>2, <2>3, <3>1
  <2>5. more = fit \o <<s[k + 1]>>
    BY <1>5, <2>2, Beginning
  <2>6. s[k + 1] \in Characters
    BY <2>2 DEF Text
  <2>7. <<s[k + 1]>> \in Text /\ Bytes(<<s[k + 1]>>) \in 1..MaxWidth
    BY <2>6, BytesOfOne
  <2>8. Bytes(more) = Bytes(fit) + Bytes(<<s[k + 1]>>) /\ Bytes(fit) \in Nat
    BY <1>6, <2>5, <2>7, BytesOfConcat
  <2>9. QED
    BY <2>4, <2>7, <2>8 DEF MaxWidth
<1>9. Fills(fit, s, space)
  <2>1. Bytes(fit) <= space
    BY <1>4
  <2>2. QED
    BY <1>6, <1>7, <1>8, <2>1 DEF Fills
<1>10. QED
  BY <1>9 DEF fit

-----------------------------------------------------------------------------
(***************************************************************************)
(* The report                                                              *)
(***************************************************************************)
\* What was held when the buffer first overflowed begins both what is held and
\* what was asked for, and left room for less than a character.
CutIsFull ==
    \E p, u, v \in Text :
        text = p \o u /\ asked = p \o v /\ Bytes(p) > capacity - MaxWidth

\* All that was asked for is there, or less of it, cut once.
Held ==
    /\ ~overflowed => text = asked
    /\ overflowed => Bytes(asked) > capacity /\ CutIsFull

Inv == TypeOK /\ Held

LEMMA InitInv == Init => Inv
<1> SUFFICES ASSUME Init PROVE Inv
  OBVIOUS
<1>1. capacity \in Nat /\ Bytes(<<>>) <= capacity
  BY CapacitiesAssumption, BytesOfNothing DEF Init
<1>2. /\ <<>> \in Seq(Characters) /\ <<>> \in Pieces
      /\ <<>> \in Seq([pieces : Pieces, marked : BOOLEAN])
  BY DEF Pieces
<1>3. QED
  BY <1>1, <1>2 DEF Init, Inv, TypeOK, Held

\* It does not matter what is written first onto what.
Regrouped(a, b, c) == (a \o b) \o c = a \o (b \o c)

LEMMA Regroup == \A a, b, c \in Text : Regrouped(a, b, c)
<1> SUFFICES ASSUME NEW a \in Seq(Characters), NEW b \in Seq(Characters),
                    NEW c \in Seq(Characters)
             PROVE  Regrouped(a, b, c)
  BY DEF Text
<1>1. QED
  BY ConcatAssociative DEF Regrouped

\* A write keeps what is held: it fits, or it is where the cut is made, or it
\* comes after the cut.
LEMMA WriteHolds ==
    ASSUME Inv, NEW s \in Text, Write(s), capacity' = capacity
    PROVE  /\ text' \in Text /\ asked' \in Text /\ overflowed' \in BOOLEAN
           /\ Bytes(text') <= capacity'
           /\ Held'
<1> DEFINE space == capacity - Bytes(text)
           fit == Fitting(s, space)
<1>1. /\ text \in Text /\ asked \in Text /\ capacity \in Nat /\ Bytes(text) <= capacity
      /\ overflowed \in BOOLEAN
  BY CapacitiesAssumption DEF Inv, TypeOK, Text
<1>2. Bytes(text) \in Nat /\ Bytes(asked) \in Nat /\ Bytes(s) \in Nat
  BY <1>1, BytesOfConcat
<1>3. s \in Text /\ space \in Nat /\ space = capacity - Bytes(text)
  BY <1>1, <1>2
<1>4. asked' = asked \o s /\ text' = text \o fit /\ overflowed' = (overflowed \/ Bytes(s) > space)
  BY DEF Write
<1> HIDE DEF space
<1>5. /\ fit \in Text /\ Bytes(fit) <= space
      /\ \E rest \in Text : s = fit \o rest
      /\ Bytes(s) <= space => fit = s
      /\ Bytes(s) > space => Bytes(fit) > space - MaxWidth
  <2>1. Fills(fit, s, space)
    BY <1>3, FittingFacts
  <2> HIDE DEF fit
  <2>2. QED
    BY <2>1 DEF Fills
<1> HIDE DEF fit
<1>6. PICK rest \in Text : s = fit \o rest
  BY <1>5
<1>7. text' \in Text /\ asked' \in Text /\ overflowed' \in BOOLEAN
  <2>1. \A a, b \in Text : a \o b \in Text
    BY DEF Text
  <2>2. text \o fit \in Text /\ asked \o s \in Text
    BY <1>1, <1>3, <1>5, <2>1
  <2>3. (overflowed \/ Bytes(s) > space) \in BOOLEAN
    OBVIOUS
  <2>4. QED
    BY <1>4, <2>2, <2>3
<1>8. /\ Bytes(fit) \in Nat /\ Bytes(rest) \in Nat /\ Bytes(s) = Bytes(fit) + Bytes(rest)
      /\ Bytes(text') = Bytes(text) + Bytes(fit)
      /\ Bytes(asked') = Bytes(asked) + Bytes(s)
  BY <1>1, <1>4, <1>5, <1>6, BytesOfConcat
<1>9. Bytes(text') <= capacity'
  BY <1>1, <1>2, <1>3, <1>5, <1>8
<1>10. CASE ~overflowed /\ Bytes(s) <= space
  <2>1. text' = asked' /\ ~overflowed'
    <3>1. text = asked /\ fit = s
      BY <1>5, <1>10 DEF Inv, Held
    <3>2. ~(Bytes(s) > space)
      BY <1>2, <1>3, <1>10
    <3>3. QED
      BY <1>4, <1>10, <3>1, <3>2
  <2>2. QED
    BY <1>7, <1>9, <2>1 DEF Held
<1>11. CASE ~overflowed /\ Bytes(s) > space
  <2>1. text = asked /\ overflowed'
    BY <1>4, <1>11 DEF Inv, Held
  <2>2. Bytes(asked') > capacity'
    BY <1>1, <1>2, <1>3, <1>8, <1>11, <2>1
  <2>3. Bytes(text') > capacity' - MaxWidth
    <3>1. Bytes(fit) > space - MaxWidth
      BY <1>5, <1>11
    <3>2. Bytes(fit) \in Nat /\ Bytes(text') = Bytes(text) + Bytes(fit)
      BY <1>8
    <3>3. capacity' = capacity /\ capacity \in Nat
      BY <1>1
    <3>4. QED
      BY <1>2, <1>3, <3>1, <3>2, <3>3 DEF MaxWidth
  <2>4. text' = text' \o <<>> /\ <<>> \in Text
    BY <1>7 DEF Text
  <2>5. asked' = text' \o rest
    <3>1. text \o (fit \o rest) = (text \o fit) \o rest
      <4>1. Regrouped(text, fit, rest)
        BY <1>1, <1>5, Regroup
      <4>2. QED
        BY <4>1 DEF Regrouped
    <3>2. QED
      BY <1>4, <1>6, <2>1, <3>1
  <2>6. CutIsFull'
    BY <1>7, <2>3, <2>4, <2>5 DEF CutIsFull
  <2>7. QED
    BY <1>7, <1>9, <2>1, <2>2, <2>6 DEF Held
<1>12. CASE overflowed
  <2>1. PICK p \in Text, u \in Text, v \in Text :
           text = p \o u /\ asked = p \o v /\ Bytes(p) > capacity - MaxWidth
    BY <1>12 DEF Inv, Held, CutIsFull
  <2>2. Bytes(asked') > capacity'
    BY <1>1, <1>2, <1>8, <1>12 DEF Inv, Held
  <2>3. u \o fit \in Text /\ v \o s \in Text
    BY <1>5 DEF Text
  <2>4. text' = p \o (u \o fit) /\ asked' = p \o (v \o s)
    <3>1. (p \o u) \o fit = p \o (u \o fit)
      <4>1. Regrouped(p, u, fit)
        BY <1>5, Regroup
      <4>2. QED
        BY <4>1 DEF Regrouped
    <3>2. (p \o v) \o s = p \o (v \o s)
      <4>1. Regrouped(p, v, s)
        BY Regroup
      <4>2. QED
        BY <4>1 DEF Regrouped
    <3>3. QED
      BY <1>4, <2>1, <3>1, <3>2
  <2>5. CutIsFull'
    BY <2>1, <2>3, <2>4 DEF CutIsFull
  <2>6. overflowed'
    BY <1>4, <1>12
  <2>7. QED
    BY <1>7, <1>9, <2>2, <2>5, <2>6 DEF Held
<1>13. QED
  BY <1>1, <1>2, <1>3, <1>10, <1>11, <1>12

\* A step that writes nothing keeps what is held.
LEMMA NothingWritten ==
    ASSUME Inv, UNCHANGED <<capacity, text, overflowed, asked>>
    PROVE  /\ text' \in Text /\ asked' \in Text /\ overflowed' \in BOOLEAN
           /\ Bytes(text') <= capacity'
           /\ Held'
BY DEF Inv, TypeOK, Held, CutIsFull, Text

LEMMA StepInv == Inv /\ [Next]_vars => Inv'
<1> SUFFICES ASSUME Inv, [Next]_vars PROVE Inv'
  OBVIOUS
<1> USE DEF Text
<1>1. ASSUME NEW table \in Tables, Ask(table) PROVE Inv'
  <2>1. table \in Seq([pieces : Pieces, marked : BOOLEAN])
    BY PagesAssumption
  <2>2. pieces' \in Pieces /\ rows' = table /\ ranking' = table /\ marked' = FALSE /\ pc' \in {"last", "rows"}
    BY <1>1, PagesAssumption DEF Ask
  <2>3. text' = <<>> /\ asked' = <<>> /\ overflowed' = FALSE /\ capacity' = capacity
    BY <1>1 DEF Ask
  <2>4. Bytes(text') <= capacity' /\ <<>> \in Seq(Characters)
    BY <2>3, CapacitiesAssumption, BytesOfNothing DEF Inv, TypeOK
  <2>5. QED
    BY <2>1, <2>2, <2>3, <2>4 DEF Inv, TypeOK, Held
<1>2. CASE Emit
  <2>1. /\ Write(Head(pieces)) /\ pieces' = Tail(pieces)
        /\ UNCHANGED <<capacity, pc, rows, marked, ranking>>
    BY <1>2 DEF Emit
  <2>2. Head(pieces) \in Text /\ Tail(pieces) \in Pieces
    BY <1>2 DEF Emit, Inv, TypeOK, Pieces
  <2>3. /\ text' \in Text /\ asked' \in Text /\ overflowed' \in BOOLEAN
        /\ Bytes(text') <= capacity' /\ Held'
    BY <2>1, <2>2, WriteHolds
  <2>4. QED
    BY <2>1, <2>2, <2>3 DEF Inv, TypeOK
<1>3. CASE Row
  <2>1. /\ rows # <<>> /\ pieces' = Head(rows).pieces /\ rows' = Tail(rows)
        /\ marked' = (marked \/ Head(rows).marked)
        /\ UNCHANGED <<capacity, text, overflowed, asked, pc, ranking>>
    BY <1>3 DEF Row
  <2>2. /\ Head(rows) \in [pieces : Pieces, marked : BOOLEAN]
        /\ Tail(rows) \in Seq([pieces : Pieces, marked : BOOLEAN])
    <3> DEFINE R == [pieces : Pieces, marked : BOOLEAN]
    <3>1. rows \in Seq(R) /\ rows # <<>>
      BY <2>1 DEF Inv, TypeOK
    <3> HIDE DEF R
    <3>2. Head(rows) \in R /\ Tail(rows) \in Seq(R)
      BY <3>1, HeadTailProperties
    <3>3. QED
      BY <3>2 DEF R
  <2>3. pieces' \in Pieces /\ marked' \in BOOLEAN
    BY <2>1, <2>2 DEF Inv, TypeOK
  <2>4. QED
    BY <2>1, <2>2, <2>3, NothingWritten DEF Inv, TypeOK
<1>4. CASE Explain \/ Warn \/ Done
  <2>1. /\ UNCHANGED <<capacity, text, overflowed, asked, rows, marked, ranking>>
        /\ pc' \in {"notice", "last", "idle"}
    BY <1>4 DEF Explain, Warn, Done
  <2>2. <<>> \in Pieces
    BY DEF Pieces
  <2>3. pieces' \in Pieces
    BY <1>4, <2>2, PagesAssumption DEF Explain, Warn, Done, Inv, TypeOK
  <2>4. QED
    BY <2>1, <2>3, NothingWritten DEF Inv, TypeOK
<1>5. CASE UNCHANGED vars
  <2>1. UNCHANGED <<capacity, text, overflowed, asked>> /\ UNCHANGED <<pc, rows, marked, pieces, ranking>>
    BY <1>5 DEF vars
  <2>2. QED
    BY <2>1, NothingWritten DEF Inv, TypeOK
<1>6. QED
  BY <1>1, <1>2, <1>3, <1>4, <1>5 DEF Next

-----------------------------------------------------------------------------
\* The invariant holds of every buffer and every sequence of reports.
THEOREM Invariant == Spec => []Inv
BY InitInv, StepInv, PTL DEF Spec

\* Nothing is ever written past the end of the buffer, whatever its size.
THEOREM NeverOutgrowsTheBuffer == Spec => []TypeOK
<1>1. Inv => TypeOK
  BY DEF Inv
<1>2. QED
  BY <1>1, Invariant, PTL

\* The flag says exactly whether something asked for is missing.
THEOREM TheFlagIsExact == Spec => []OverflowedIffSomethingIsMissing
<1>1. Inv => OverflowedIffSomethingIsMissing
  <2> SUFFICES ASSUME Inv PROVE overflowed <=> text # asked
    BY DEF OverflowedIffSomethingIsMissing
  <2>1. text \in Text /\ asked \in Text /\ overflowed \in BOOLEAN
    BY DEF Inv, TypeOK, Text
  <2>2. Bytes(text) \in Nat /\ Bytes(asked) \in Nat /\ capacity \in Nat
    BY <2>1, BytesOfConcat, CapacitiesAssumption DEF Inv, TypeOK
  <2>3. overflowed => text # asked
    BY <2>2 DEF Inv, TypeOK, Held
  <2>4. ~overflowed => text = asked
    BY DEF Inv, Held
  <2>5. QED
    BY <2>1, <2>3, <2>4
<1>2. QED
  BY <1>1, Invariant, PTL

\* Only a buffer full to within one character cuts a report.
THEOREM OnlyAFullBufferCuts == Spec => []CutOnlyWhenFull
<1>1. Inv => CutOnlyWhenFull
  <2> SUFFICES ASSUME Inv, overflowed PROVE Bytes(text) > capacity - MaxWidth
    BY DEF CutOnlyWhenFull
  <2>1. PICK p \in Text, u \in Text, v \in Text :
           text = p \o u /\ asked = p \o v /\ Bytes(p) > capacity - MaxWidth
    BY DEF Inv, Held, CutIsFull
  <2>2. Bytes(text) = Bytes(p) + Bytes(u) /\ Bytes(p) \in Nat /\ Bytes(u) \in Nat
    BY <2>1, BytesOfConcat
  <2>3. capacity \in Nat
    BY CapacitiesAssumption DEF Inv, TypeOK
  <2>4. QED
    BY <2>1, <2>2, <2>3 DEF MaxWidth
<1>2. QED
  BY <1>1, Invariant, PTL

\* What begins a sequence is one of its prefixes.
LEMMA BeginningIsAPrefix ==
    ASSUME NEW p \in Text, NEW u \in Text
    PROVE  p \in Prefixes(p \o u) /\ IsPrefix(p, p \o u)
<1>1. p \in Seq(Characters) /\ u \in Seq(Characters) /\ Len(p) \in Nat /\ Len(u) \in Nat
  BY DEF Text
<1>2. Len(p \o u) = Len(p) + Len(u)
  BY <1>1
<1>3. SubSeq(p, 1, Len(p)) = p
  BY <1>1, SubSeqFull
<1>4. SubSeq(p \o u, 1, Len(p)) = p
  <2>1. CASE Len(p) = 0
    BY <1>1, <2>1
  <2>2. CASE Len(p) # 0
    <3>1. 1 \in 1..Len(p) /\ Len(p) \in 1..Len(p)
      BY <1>1, <2>2
    <3>2. QED
      BY <1>1, <1>3, <3>1, SubSeqOfConcat1
  <2>3. QED
    BY <2>1, <2>2
<1>5. Len(p) \in 0..Len(p \o u) /\ Len(p) <= Len(p \o u)
  BY <1>1, <1>2
<1>6. QED
  BY <1>3, <1>4, <1>5 DEF Prefixes, IsPrefix

\* What is read is what was written, up to one cut.
THEOREM AlwaysCleanUpToTheCut == Spec => []CleanUpToTheCut
<1>1. Inv => CleanUpToTheCut
  <2> SUFFICES ASSUME Inv PROVE CleanUpToTheCut
    OBVIOUS
  <2>1. text \in Text /\ <<>> \in Text /\ text \o <<>> = text /\ capacity \in Nat
        /\ Bytes(text) <= capacity
    BY CapacitiesAssumption DEF Inv, TypeOK, Text
  <2>2. CASE ~overflowed
    <3>1. text \in Prefixes(text) /\ IsPrefix(text, asked)
      BY <2>1, <2>2, BeginningIsAPrefix DEF Inv, Held
    <3>2. Bytes(text) - Bytes(text) < MaxWidth
      BY <2>1, BytesOfConcat DEF MaxWidth
    <3>3. QED
      BY <3>1, <3>2 DEF CleanUpToTheCut
  <2>3. CASE overflowed
    <3>1. PICK p \in Text, u \in Text, v \in Text :
             text = p \o u /\ asked = p \o v /\ Bytes(p) > capacity - MaxWidth
      BY <2>3 DEF Inv, Held, CutIsFull
    <3>2. p \in Prefixes(text) /\ IsPrefix(p, asked)
      BY <3>1, BeginningIsAPrefix
    <3>3. Bytes(p) \in Nat /\ Bytes(text) \in Nat
      BY <2>1, BytesOfConcat
    <3>4. Bytes(text) - Bytes(p) < MaxWidth
      BY <2>1, <3>1, <3>3 DEF MaxWidth
    <3>5. QED
      BY <3>2, <3>4 DEF CleanUpToTheCut
  <2>4. QED
    BY <2>2, <2>3
<1>2. QED
  BY <1>1, Invariant, PTL

-----------------------------------------------------------------------------
(***************************************************************************)
(* The answer                                                              *)
(*                                                                         *)
(* What was asked for and what is still to be written come, at every step, *)
(* to the page of the ranking; and what was asked for outgrows the buffer  *)
(* exactly when the flag is up.                                            *)
(***************************************************************************)
Line == [pieces : Pieces, marked : BOOLEAN]

Lines(rs) == [i \in DOMAIN rs |-> Joined(rs[i].pieces)]
Body(rs) == Joined(Lines(rs))
Marks(rs) == \E i \in DOMAIN rs : rs[i].marked
Ending(m) == IF m THEN Joined(Legend) ELSE <<>>

\* A line in its pieces is a text.
LEMMA JoinedPieces == \A ps \in Pieces : Joined(ps) \in Text
BY JoinedType DEF Pieces, Text

LEMMA LinesType ==
    ASSUME NEW rs \in Seq(Line)
    PROVE  Lines(rs) \in Seq(Text) /\ Len(Lines(rs)) = Len(rs)
<1>1. \A i \in 1..Len(rs) : Joined(rs[i].pieces) \in Text
  <2> SUFFICES ASSUME NEW i \in 1..Len(rs) PROVE Joined(rs[i].pieces) \in Text
    OBVIOUS
  <2>1. rs[i] \in Line
    OBVIOUS
  <2>2. rs[i].pieces \in Pieces
    BY <2>1 DEF Line
  <2>3. QED
    BY <2>2, JoinedPieces
<1>2. QED
  BY <1>1 DEF Lines

LEMMA BodyType == \A rs \in Seq(Line) : Body(rs) \in Text
<1> SUFFICES ASSUME NEW rs \in Seq(Line) PROVE Body(rs) \in Text
  OBVIOUS
<1>1. Lines(rs) \in Seq(Seq(Characters))
  BY LinesType DEF Text
<1>2. QED
  BY <1>1, JoinedType DEF Body, Text

\* The first row comes first, then the others.
LEMMA BodyOfCons ==
    ASSUME NEW rs \in Seq(Line), rs # <<>>
    PROVE  /\ Head(rs) \in Line /\ Tail(rs) \in Seq(Line)
           /\ Body(rs) = Joined(Head(rs).pieces) \o Body(Tail(rs))
           /\ Marks(rs) <=> Head(rs).marked \/ Marks(Tail(rs))
<1> HIDE DEF Line
<1>1. Head(rs) \in Line /\ Tail(rs) \in Seq(Line) /\ Head(rs) = rs[1]
  BY HeadTailProperties
<1>2. /\ Len(rs) \in Nat /\ Len(rs) # 0 /\ Len(Tail(rs)) = Len(rs) - 1
      /\ \A i \in 1..(Len(rs) - 1) : Tail(rs)[i] = rs[i + 1]
  OBVIOUS
<1>3. Lines(rs) \in Seq(Text) /\ Len(Lines(rs)) = Len(rs)
  BY LinesType
<1>4. Lines(Tail(rs)) \in Seq(Text) /\ Len(Lines(Tail(rs))) = Len(rs) - 1
  BY <1>1, <1>2, LinesType
<1>5. \A i \in 1..Len(rs) : Lines(rs)[i] = Joined(rs[i].pieces)
  BY DEF Lines
<1>6. \A i \in 1..(Len(rs) - 1) : Lines(Tail(rs))[i] = Joined(Tail(rs)[i].pieces)
  BY <1>1, <1>2 DEF Lines
<1> DEFINE ls == Lines(rs)
<1>7. Tail(ls) = Lines(Tail(rs)) /\ Head(ls) = Joined(Head(rs).pieces)
  <2>1. ls \in Seq(Text) /\ Len(ls) = Len(rs) /\ ls # <<>>
    BY <1>2, <1>3
  <2> HIDE DEF ls
  <2>2. /\ Tail(ls) \in Seq(Text) /\ Len(Tail(ls)) = Len(rs) - 1 /\ Head(ls) = ls[1]
        /\ \A i \in 1..(Len(rs) - 1) : Tail(ls)[i] = ls[i + 1]
    BY <2>1
  <2>3. \A i \in 1..(Len(rs) - 1) : Tail(ls)[i] = Lines(Tail(rs))[i]
    <3> SUFFICES ASSUME NEW i \in 1..(Len(rs) - 1)
                 PROVE  Tail(ls)[i] = Lines(Tail(rs))[i]
      OBVIOUS
    <3>1. i + 1 \in 1..Len(rs)
      BY <1>2
    <3>2. Tail(ls)[i] = Joined(rs[i + 1].pieces)
      BY <1>5, <2>2, <3>1 DEF ls
    <3>3. Lines(Tail(rs))[i] = Joined(rs[i + 1].pieces)
      BY <1>2, <1>6
    <3>4. QED
      BY <3>2, <3>3
  <2>4. Tail(ls) = Lines(Tail(rs))
    BY <1>4, <2>2, <2>3, SeqEqual
  <2>5. Head(ls) = Joined(Head(rs).pieces)
    <3>1. 1 \in 1..Len(rs)
      BY <1>2
    <3>2. QED
      BY <1>1, <1>5, <2>2, <3>1 DEF ls
  <2>6. QED
    BY <2>4, <2>5
<1>8. Body(rs) = Joined(Head(rs).pieces) \o Body(Tail(rs))
  <2>1. ls \in Seq(Seq(Characters)) /\ ls # <<>>
    BY <1>2, <1>3 DEF Text
  <2> HIDE DEF ls
  <2>2. Joined(ls) = Head(ls) \o Joined(Tail(ls))
    BY <2>1, JoinedOfCons
  <2>3. QED
    BY <1>7, <2>2 DEF Body, ls
<1>9. Marks(rs) <=> Head(rs).marked \/ Marks(Tail(rs))
  <2>1. DOMAIN rs = 1..Len(rs) /\ DOMAIN Tail(rs) = 1..(Len(rs) - 1)
    BY <1>1, <1>2
  <2>2. ASSUME Marks(rs) PROVE Head(rs).marked \/ Marks(Tail(rs))
    <3>1. PICK i \in 1..Len(rs) : rs[i].marked
      BY <2>1, <2>2 DEF Marks
    <3>2. CASE i = 1
      BY <1>1, <3>1, <3>2
    <3>3. CASE i # 1
      <4>1. i - 1 \in 1..(Len(rs) - 1) /\ (i - 1) + 1 = i
        BY <1>2, <3>3
      <4>2. Tail(rs)[i - 1] = rs[i]
        BY <1>2, <4>1
      <4>3. QED
        BY <2>1, <3>1, <4>1, <4>2 DEF Marks
    <3>4. QED
      BY <3>2, <3>3
  <2>3. ASSUME Head(rs).marked PROVE Marks(rs)
    <3>1. 1 \in 1..Len(rs)
      BY <1>2
    <3>2. QED
      BY <1>1, <2>1, <2>3, <3>1 DEF Marks
  <2>4. ASSUME Marks(Tail(rs)) PROVE Marks(rs)
    <3>1. PICK i \in 1..(Len(rs) - 1) : Tail(rs)[i].marked
      BY <2>1, <2>4 DEF Marks
    <3>2. i + 1 \in 1..Len(rs) /\ Tail(rs)[i] = rs[i + 1]
      BY <1>2
    <3>3. QED
      BY <2>1, <3>1, <3>2 DEF Marks
  <2>5. QED
    BY <2>2, <2>3, <2>4
<1>10. QED
  BY <1>1, <1>8, <1>9

\* The page of a ranking, in these words.
LEMMA PageIs ==
    ASSUME NEW table \in Seq(Line)
    PROVE  /\ Page(table) \in Text
           /\ table = <<>> => Page(table) = Joined(Nothing)
           /\ table # <<>> =>
                Page(table) = Joined(Heading) \o (Body(table) \o Ending(Marks(table)))
<1>1. /\ Joined(Heading) \in Text /\ Joined(Nothing) \in Text /\ Joined(Legend) \in Text
      /\ <<>> \in Text
  BY PagesAssumption, JoinedPieces DEF Text
<1>2. Body(table) \in Text /\ Ending(Marks(table)) \in Text
  BY <1>1, BodyType DEF Ending
<1>3. Page(table) = IF table = <<>> THEN Joined(Nothing)
                    ELSE (Joined(Heading) \o Body(table)) \o Ending(Marks(table))
  BY DEF Page, Body, Lines, Ending, Marks
<1>4. Regrouped(Joined(Heading), Body(table), Ending(Marks(table)))
  BY <1>1, <1>2, Regroup
<1>5. \A a, b \in Text : a \o b \in Text
  BY DEF Text
<1>6. Joined(Heading) \o (Body(table) \o Ending(Marks(table))) \in Text
  BY <1>1, <1>2, <1>5
<1>7. QED
  BY <1>1, <1>3, <1>4, <1>6 DEF Regrouped

\* What was asked for and what is still to be written make up the answer.
Promised ==
    /\ pc = "rows" =>
        /\ ranking # <<>>
        /\ asked \o (Joined(pieces) \o (Body(rows) \o Ending(marked \/ Marks(rows))))
              = Page(ranking)
    /\ pc = "notice" => ranking # <<>> /\ asked \o Joined(pieces) = Page(ranking)
    /\ pc = "last" =>
        asked \o Joined(pieces) =
            Page(ranking) \o (IF ranking # <<>> /\ Bytes(Page(ranking)) > capacity
                              THEN Joined(Notice) ELSE <<>>)

\* The flag, raised write by write, compares all that was asked for with the
\* buffer.
LEMMA FlagComparesTheWhole == Inv => (overflowed <=> Bytes(asked) > capacity)
<1> SUFFICES ASSUME Inv PROVE overflowed <=> Bytes(asked) > capacity
  OBVIOUS
<1>1. Bytes(asked) \in Nat /\ capacity \in Nat /\ Bytes(text) <= capacity /\ overflowed \in BOOLEAN
  BY BytesOfConcat, CapacitiesAssumption DEF Inv, TypeOK, Text
<1>2. QED
  BY <1>1 DEF Inv, Held

\* A piece moves from what is to be written to what was asked for.
LEMMA EmitMoves ==
    ASSUME NEW a \in Text, NEW ps \in Pieces, ps # <<>>
    PROVE  /\ (a \o Head(ps)) \o Joined(Tail(ps)) = a \o Joined(ps)
           /\ \A r \in Text :
                (a \o Head(ps)) \o (Joined(Tail(ps)) \o r) = a \o (Joined(ps) \o r)
<1> DEFINE h == Head(ps)
           t == Joined(Tail(ps))
<1>1. Head(ps) \in Text /\ Tail(ps) \in Pieces
  BY DEF Pieces, Text
<1>2. h \in Text /\ t \in Text
  BY <1>1, JoinedPieces
<1>3. Joined(ps) = h \o t
  BY JoinedOfCons DEF Pieces
<1> HIDE DEF h, t
<1>4. \A x, y \in Text : x \o y \in Text
  BY DEF Text
<1>5. (a \o h) \o t = a \o (h \o t)
  BY <1>2, Regroup DEF Regrouped
<1>6. ASSUME NEW r \in Text PROVE (a \o h) \o (t \o r) = a \o ((h \o t) \o r)
  <2>1. t \o r \in Text
    BY <1>2, <1>4
  <2>2. Regrouped(a, h, t \o r) /\ Regrouped(h, t, r)
    BY <1>2, <2>1, Regroup
  <2>3. QED
    BY <2>2 DEF Regrouped
<1>7. QED
  BY <1>3, <1>5, <1>6 DEF h, t

LEMMA InitPromised == Init => Promised
BY DEF Init, Promised

LEMMA StepPromised == Inv /\ Promised /\ [Next]_vars => Promised'
<1> SUFFICES ASSUME Inv, Promised, [Next]_vars PROVE Promised'
  OBVIOUS
<1>1. /\ asked \in Text /\ pieces \in Pieces /\ rows \in Seq(Line) /\ ranking \in Seq(Line)
      /\ marked \in BOOLEAN /\ capacity \in Nat
  BY CapacitiesAssumption DEF Inv, TypeOK, Text, Line
<1>2. /\ <<>> \in Text /\ \A a \in Text : <<>> \o a = a /\ a \o <<>> = a
      /\ \A a, b \in Text : a \o b \in Text
  BY DEF Text
<1>3. /\ Joined(Heading) \in Text /\ Joined(Nothing) \in Text /\ Joined(Legend) \in Text
      /\ Joined(Notice) \in Text /\ Joined(<<>>) = <<>>
  BY PagesAssumption, JoinedPieces, JoinedOfNothing
<1>4. \A m \in BOOLEAN : Ending(m) \in Text
  BY <1>2, <1>3 DEF Ending
<1>5. Page(ranking) \in Text
  BY <1>1, PageIs
<1>6. ASSUME NEW table \in Tables, Ask(table) PROVE Promised'
  <2>1. table \in Seq(Line)
    BY PagesAssumption DEF Line
  <2>2. /\ asked' = <<>> /\ rows' = table /\ marked' = FALSE /\ ranking' = table
        /\ pieces' = (IF table = <<>> THEN Nothing ELSE Heading)
        /\ pc' = (IF table = <<>> THEN "last" ELSE "rows")
    BY <1>6 DEF Ask
  <2>3. CASE table = <<>>
    <3>1. pc' = "last" /\ pieces' = Nothing /\ ranking' = <<>>
      BY <2>2, <2>3
    <3>2. Page(<<>>) = Joined(Nothing)
      BY <2>1, <2>3, PageIs
    <3>3. asked' \o Joined(pieces') = Page(ranking') \o <<>>
      BY <1>2, <1>3, <2>2, <3>1, <3>2
    <3>4. QED
      BY <3>1, <3>3 DEF Promised
  <2>4. CASE table # <<>>
    <3> DEFINE rest == Joined(Heading) \o (Body(table) \o Ending(Marks(table)))
    <3>1. pc' = "rows" /\ pieces' = Heading
      BY <2>2, <2>4
    <3>2. Page(table) = rest
      BY <2>1, <2>4, PageIs
    <3>3. rest \in Text
      BY <2>1, <3>2, PageIs
    <3>4. Ending(marked' \/ Marks(rows')) = Ending(Marks(table))
      BY <2>2 DEF Ending
    <3>5. <<>> \o rest = Page(table)
      <4> HIDE DEF rest
      <4>1. QED
        BY <1>2, <3>2, <3>3
    <3>6. asked' \o (Joined(pieces') \o (Body(rows') \o Ending(marked' \/ Marks(rows'))))
            = Page(ranking')
      BY <2>2, <3>1, <3>4, <3>5
    <3>7. QED
      BY <2>2, <2>4, <3>1, <3>6 DEF Promised
  <2>5. QED
    BY <2>3, <2>4
<1>7. CASE Emit
  <2>1. /\ pieces # <<>> /\ asked' = asked \o Head(pieces) /\ pieces' = Tail(pieces)
        /\ UNCHANGED <<capacity, pc, rows, marked, ranking>>
    BY <1>7 DEF Emit, Write
  <2>2. asked' \o Joined(pieces') = asked \o Joined(pieces)
    BY <1>1, <2>1, EmitMoves
  <2> DEFINE rest == Body(rows) \o Ending(marked \/ Marks(rows))
  <2>3. rest \in Text
    <3>1. (marked \/ Marks(rows)) \in BOOLEAN
      OBVIOUS
    <3>2. QED
      BY <1>1, <1>2, <1>4, <3>1, BodyType
  <2>4. asked' \o (Joined(pieces') \o rest) = asked \o (Joined(pieces) \o rest)
    <3> HIDE DEF rest
    <3>1. QED
      BY <1>1, <2>1, <2>3, EmitMoves
  <2>5. QED
    BY <2>1, <2>2, <2>4 DEF Promised
<1>8. CASE Row
  <2>1. /\ pc = "rows" /\ pieces = <<>> /\ rows # <<>>
        /\ pieces' = Head(rows).pieces /\ rows' = Tail(rows)
        /\ marked' = (marked \/ Head(rows).marked)
        /\ UNCHANGED <<capacity, asked, pc, ranking>>
    BY <1>8 DEF Row
  <2>2. /\ Head(rows) \in Line /\ Tail(rows) \in Seq(Line)
        /\ Body(rows) = Joined(Head(rows).pieces) \o Body(Tail(rows))
        /\ Marks(rows) <=> Head(rows).marked \/ Marks(Tail(rows))
    BY <1>1, <2>1, BodyOfCons
  <2> DEFINE hd == Joined(Head(rows).pieces)
             tl == Body(Tail(rows))
             end == Ending(marked \/ Marks(rows))
  <2>3. hd \in Text /\ tl \in Text
    <3>1. Head(rows).pieces \in Pieces
      BY <2>2 DEF Line
    <3>2. QED
      BY <2>2, <3>1, JoinedPieces, BodyType
  <2>4. end \in Text
    <3>1. (marked \/ Marks(rows)) \in BOOLEAN
      OBVIOUS
    <3>2. QED
      BY <1>4, <3>1
  <2>5. Ending(marked' \/ Marks(rows')) = end
    <3>1. (marked' \/ Marks(rows')) <=> (marked \/ Marks(rows))
      BY <2>1, <2>2
    <3>2. QED
      BY <3>1 DEF Ending
  <2>6. asked \o (<<>> \o ((hd \o tl) \o end)) = Page(ranking)
    <3>1. asked \o (Joined(pieces) \o (Body(rows) \o end)) = Page(ranking)
      BY <2>1 DEF Promised
    <3> HIDE DEF end
    <3>2. QED
      BY <1>3, <2>1, <2>2, <3>1
  <2> HIDE DEF hd, tl, end
  <2>7. (hd \o tl) \o end = hd \o (tl \o end) /\ (hd \o tl) \o end \in Text
    <3>1. (hd \o tl) \o end = hd \o (tl \o end)
      BY <2>3, <2>4, Regroup DEF Regrouped
    <3>2. (hd \o tl) \o end \in Text
      BY <1>2, <2>3, <2>4
    <3>3. QED
      BY <3>1, <3>2
  <2>8. asked \o (hd \o (tl \o end)) = Page(ranking)
    BY <1>2, <2>6, <2>7
  <2>9. asked' \o (Joined(pieces') \o (Body(rows') \o Ending(marked' \/ Marks(rows'))))
            = Page(ranking')
    <3>1. Joined(pieces') = hd /\ Body(rows') = tl /\ asked' = asked /\ ranking' = ranking
      BY <2>1 DEF hd, tl
    <3>2. QED
      BY <2>5, <2>8, <3>1
  <2>10. QED
    BY <2>1, <2>9 DEF Promised
<1>9. CASE Explain
  <2>1. /\ pc = "rows" /\ pieces = <<>> /\ rows = <<>> /\ pc' = "notice"
        /\ pieces' = (IF marked THEN Legend ELSE <<>>)
        /\ UNCHANGED <<asked, ranking>>
    BY <1>9 DEF Explain
  <2>2. Joined(pieces') = Ending(marked) /\ Ending(marked) \in Text
    BY <1>1, <1>3, <1>4, <2>1 DEF Ending
  <2>3. Body(<<>>) = <<>> /\ ~Marks(<<>>)
    <3>1. Lines(<<>>) = <<>>
      BY DEF Lines
    <3>2. QED
      BY <1>3, <3>1 DEF Body, Marks
  <2>4. Ending(marked \/ Marks(rows)) = Ending(marked)
    BY <2>1, <2>3 DEF Ending
  <2>5. asked \o (<<>> \o (<<>> \o Ending(marked))) = Page(ranking)
    BY <1>3, <2>1, <2>3, <2>4 DEF Promised
  <2>6. asked \o Ending(marked) = Page(ranking)
    <3>1. <<>> \o Ending(marked) = Ending(marked)
      BY <1>2, <2>2
    <3>2. QED
      BY <2>5, <3>1
  <2>7. QED
    BY <2>1, <2>2, <2>6 DEF Promised
<1>10. CASE Warn
  <2>1. /\ pc = "notice" /\ pieces = <<>> /\ pc' = "last"
        /\ pieces' = (IF overflowed THEN Notice ELSE <<>>)
        /\ UNCHANGED <<capacity, asked, ranking>>
    BY <1>10 DEF Warn
  <2>2. asked = Page(ranking) /\ ranking # <<>>
    BY <1>1, <1>2, <1>3, <2>1 DEF Promised
  <2>3. overflowed <=> Bytes(Page(ranking)) > capacity
    BY <2>2, FlagComparesTheWhole
  <2>4. asked' \o Joined(pieces') =
          Page(ranking') \o (IF ranking' # <<>> /\ Bytes(Page(ranking')) > capacity'
                             THEN Joined(Notice) ELSE <<>>)
    <3>1. CASE overflowed
      <4>1. pieces' = Notice
        BY <2>1, <3>1
      <4>2. QED
        BY <2>1, <2>2, <2>3, <3>1, <4>1
    <3>2. CASE ~overflowed
      <4>1. Joined(pieces') = <<>>
        BY <1>3, <2>1, <3>2
      <4>2. QED
        BY <2>1, <2>2, <2>3, <3>2, <4>1
    <3>3. QED
      BY <3>1, <3>2
  <2>5. QED
    BY <2>1, <2>4 DEF Promised
<1>11. CASE Done
  BY <1>11 DEF Done, Promised
<1>12. CASE UNCHANGED vars
  BY <1>12 DEF vars, Promised
<1>13. QED
  BY <1>6, <1>7, <1>8, <1>9, <1>10, <1>11, <1>12 DEF Next

\* An answer whose page fits is that page and nothing else; one that does not
\* fit is flagged, and was asked to say so.
THEOREM AnswersAreAlwaysWhole == Spec => AnswersAreWhole
<1> DEFINE Whole == pc # "idle" /\ pc' = "idle" =>
               IF Bytes(Page(ranking)) <= capacity
               THEN text = Page(ranking) /\ ~overflowed
               ELSE /\ overflowed
                    /\ asked = Page(ranking)
                               \o (IF ranking = <<>> THEN <<>> ELSE Joined(Notice))
<1>1. Inv /\ Promised /\ [Next]_vars => [Whole]_vars
  <2> SUFFICES ASSUME Inv, Promised, Next, pc # "idle", pc' = "idle"
               PROVE  IF Bytes(Page(ranking)) <= capacity
                      THEN text = Page(ranking) /\ ~overflowed
                      ELSE /\ overflowed
                           /\ asked = Page(ranking)
                                      \o (IF ranking = <<>> THEN <<>> ELSE Joined(Notice))
    OBVIOUS
  <2>1. pc = "last" /\ pieces = <<>>
    BY DEF Next, Ask, Emit, Row, Explain, Warn, Done
  <2>2. asked \in Text /\ ranking \in Seq(Line) /\ capacity \in Nat
    BY CapacitiesAssumption DEF Inv, TypeOK, Text, Line
  <2>3. /\ Page(ranking) \in Text /\ Bytes(Page(ranking)) \in Nat
        /\ Joined(Notice) \in Text /\ <<>> \in Text
    BY <2>2, PageIs, BytesOfConcat, PagesAssumption, JoinedPieces DEF Text
  <2>4. \A a \in Text : a \o <<>> = a
    BY DEF Text
  <2>5. asked = Page(ranking) \o (IF ranking # <<>> /\ Bytes(Page(ranking)) > capacity
                                  THEN Joined(Notice) ELSE <<>>)
    <3>1. asked \o Joined(pieces) = asked
      BY <2>1, <2>2, <2>4, JoinedOfNothing
    <3>2. QED
      BY <2>1, <3>1 DEF Promised
  <2>6. CASE Bytes(Page(ranking)) <= capacity
    <3>1. asked = Page(ranking)
      <4>1. ~(Bytes(Page(ranking)) > capacity)
        BY <2>2, <2>3, <2>6
      <4>2. asked = Page(ranking) \o <<>>
        BY <2>5, <4>1, Zenon
      <4>3. QED
        BY <2>3, <2>4, <4>2
    <3>2. ~overflowed
      BY <2>2, <2>3, <2>6, <3>1, FlagComparesTheWhole
    <3>3. text = asked
      BY <3>2 DEF Inv, Held
    <3>4. QED
      BY <2>6, <3>1, <3>2, <3>3
  <2>7. CASE Bytes(Page(ranking)) > capacity
    <3>1. asked = Page(ranking) \o (IF ranking = <<>> THEN <<>> ELSE Joined(Notice))
      BY <2>5, <2>7
    <3>2. /\ Bytes(asked) \in Nat /\ Bytes(asked) >= Bytes(Page(ranking))
      <4>1. \A t \in Text : Bytes(Page(ranking) \o t) \in Nat
                            /\ Bytes(Page(ranking) \o t) >= Bytes(Page(ranking))
        <5> SUFFICES ASSUME NEW t \in Text
                     PROVE  Bytes(Page(ranking) \o t) \in Nat
                            /\ Bytes(Page(ranking) \o t) >= Bytes(Page(ranking))
          OBVIOUS
        <5>1. Bytes(Page(ranking) \o t) = Bytes(Page(ranking)) + Bytes(t) /\ Bytes(t) \in Nat
          BY <2>3, BytesOfConcat
        <5>2. QED
          BY <2>3, <5>1
      <4>2. QED
        BY <2>3, <3>1, <4>1
    <3>3. overflowed
      BY <2>2, <2>3, <2>7, <3>2, FlagComparesTheWhole
    <3>4. ~(Bytes(Page(ranking)) <= capacity)
      BY <2>2, <2>3, <2>7
    <3>5. QED
      BY <3>1, <3>3, <3>4
  <2>8. QED
    BY <2>2, <2>3, <2>6, <2>7
<1>2. Spec => [](Inv /\ Promised)
  BY InitInv, InitPromised, StepInv, StepPromised, PTL DEF Spec
<1>3. QED
  BY <1>1, <1>2, PTL DEF Spec, AnswersAreWhole
=============================================================================
