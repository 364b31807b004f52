----------------------------- MODULE ScanProofs -----------------------------
(***************************************************************************)
(* Proofs about HttpScan for payloads of any bytes and any length, in      *)
(* chunks of any size.                                                     *)
(***************************************************************************)
EXTENDS HttpScan, FiniteSetTheorems, WellFoundedInduction, TLAPS

(* What holds of every payload: the last answer is the one that it would   *)
(* have, or was a refusal.                                                 *)
ScanInv == data \in Seq(STRING) /\ answer \in {SegmentCheck, -1}

-----------------------------------------------------------------------------
(* A set of places has a least one, by the order of the naturals being     *)
(* well founded; Least finds it.                                           *)
LEMMA LeastProperties ==
  ASSUME NEW S, S \subseteq Nat, S # {}
  PROVE  Least(S) \in S /\ \A j \in S : Least(S) <= j
<1> DEFINE R == OpToRel(<, Nat)
<1>1. IsWellFoundedOn(R, Nat)
  BY NatLessThanWellFounded, Zenon
<1>2. PICK i \in S : \A j \in S : ~ (<<j, i>> \in R)
  <2> HIDE DEF R
  <2> QED
    BY <1>1, WFMin, Zenon
<1>3. \A j \in S : i <= j
  <2> SUFFICES ASSUME NEW j \in S, ~(i <= j) PROVE FALSE
    OBVIOUS
  <2>1. <<j, i>> \in Nat \X Nat
    OBVIOUS
  <2>2. j < i
    OBVIOUS
  <2>3. <<j, i>> \in R
    BY <2>1, <2>2, Zenon DEF OpToRel
  <2>4. QED
    BY <2>3, <1>2
<1> HIDE DEF R
<1>4. QED
  BY <1>3 DEF Least

LEMMA LeastIs ==
  ASSUME NEW S, S \subseteq Nat, NEW i \in S, \A j \in S : i <= j
  PROVE  Least(S) = i
<1>1. Least(S) \in S /\ Least(S) <= i
  BY LeastProperties
<1>2. i <= Least(S) /\ i \in Nat /\ Least(S) \in Nat
  BY <1>1
<1>3. QED
  BY <1>1, <1>2

LEMMA GreatestOfOne ==
  ASSUME NEW i \in Nat
  PROVE  Least({i}) = i /\ Greatest({i}) = i
BY DEF Least, Greatest

(* What a scan for the first place returns. *)
LEMMA FirstOfProperties ==
  ASSUME NEW S, S \subseteq Nat
  PROVE  /\ FirstOf(S) = -1 <=> S = {}
         /\ S # {} => FirstOf(S) \in S /\ FirstOf(S) \in Nat /\ \A j \in S : FirstOf(S) <= j
<1>1. S # {} => Least(S) \in S /\ \A j \in S : Least(S) <= j
  BY LeastProperties
<1>2. CASE S = {}
  BY <1>2 DEF FirstOf
<1>3. CASE S # {}
  <2>1. FirstOf(S) = Least(S) /\ Least(S) \in S /\ Least(S) \in Nat
    BY <1>1, <1>3 DEF FirstOf
  <2>2. FirstOf(S) # -1
    BY <2>1
  <2>3. QED
    BY <1>1, <1>3, <2>1, <2>2
<1>4. QED
  BY <1>2, <1>3

(* The places where a head may end. *)
Breaks(start, end) == {i \in start..(end - 4) : LineBreak(i) /\ LineBreak(i + 2)}

LEMMA LinePlaces ==
  ASSUME NEW start \in Nat, NEW end \in Nat
  PROVE  /\ {i \in start..(end - 2) : LineBreak(i)} \subseteq Nat
         /\ Breaks(start, end) \subseteq Nat
BY DEF Breaks

-----------------------------------------------------------------------------
(* A chunk that is added leaves the bytes before it alone. *)
LEMMA BytesStay ==
  ASSUME data \in Seq(STRING), NEW c \in Seq(STRING), data' = data \o c
  PROVE  /\ Len(data) \in Nat /\ Len(data') \in Nat /\ Len(data') >= Len(data)
         /\ \A i \in 0..(Len(data) - 1) : Byte(i)' = Byte(i)
<1>1. Len(data) \in Nat /\ Len(c) \in Nat /\ Len(data') = Len(data) + Len(c)
  OBVIOUS
<1>2. \A i \in 1..Len(data) : data'[i] = data[i]
  OBVIOUS
<1>3. QED
  BY <1>1, <1>2 DEF Byte

(* So a head's end that was found is found again at its place. *)
LEMMA HeadStays ==
  ASSUME data \in Seq(STRING), NEW c \in Seq(STRING), data' = data \o c, SegmentHead # -1
  PROVE  SegmentHead' = SegmentHead /\ SegmentHead \in 0..(Len(data) - 4)
<1> DEFINE S == Breaks(0, Len(data))
           h == FirstOf(S)
<1>1. /\ Len(data) \in Nat /\ Len(data') \in Nat /\ Len(data') >= Len(data)
      /\ \A i \in 0..(Len(data) - 1) : Byte(i)' = Byte(i)
  BY BytesStay
<1>2. SegmentHead = h
  BY DEF SegmentHead, FindHead, Breaks
<1>3. S \subseteq Nat
  BY <1>1, LinePlaces
<1>4. h \in S /\ h \in Nat /\ \A j \in S : h <= j
  <2> HIDE DEF S
  <2>1. S # {}
    BY <1>2, <1>3, FirstOfProperties DEF h
  <2>2. QED
    BY <1>3, <2>1, FirstOfProperties DEF h
<1> HIDE DEF h
<1>5. h \in 0..(Len(data) - 4)
  BY <1>4 DEF Breaks
<1>6. \A i \in 0..(Len(data) - 4) : i \in S' <=> i \in S
  <2> TAKE i \in 0..(Len(data) - 4)
  <2>1. i \in 0..(Len(data) - 1) /\ i + 1 \in 0..(Len(data) - 1)
        /\ i + 2 \in 0..(Len(data) - 1) /\ (i + 2) + 1 \in 0..(Len(data) - 1)
    BY <1>1
  <2>2. Byte(i)' = Byte(i) /\ Byte(i + 1)' = Byte(i + 1)
        /\ Byte(i + 2)' = Byte(i + 2) /\ Byte((i + 2) + 1)' = Byte((i + 2) + 1)
    BY <1>1, <2>1
  <2>3. LineBreak(i)' <=> LineBreak(i)
    BY <2>2 DEF LineBreak
  <2>4. LineBreak(i + 2)' <=> LineBreak(i + 2)
    BY <2>2 DEF LineBreak
  <2>5. i \in 0..(Len(data') - 4)
    BY <1>1
  <2>6. QED
    BY <2>3, <2>4, <2>5 DEF Breaks
<1>7. S' \subseteq Nat /\ h \in S'
  BY <1>1, <1>4, <1>5, <1>6 DEF Breaks
<1>8. \A j \in S' : h <= j
  <2> TAKE j \in S'
  <2>1. j \in Nat /\ Len(data) \in Nat
    BY <1>1, <1>7
  <2>2. CASE j <= Len(data) - 4
    BY <1>4, <1>6, <2>1, <2>2
  <2>3. CASE ~(j <= Len(data) - 4)
    BY <1>5, <2>1, <2>3
  <2>4. QED
    BY <2>2, <2>3
<1>9. FirstOf(S') = h
  <2> HIDE DEF S
  <2>1. Least(S') = h
    BY <1>7, <1>8, LeastIs
  <2>2. QED
    BY <1>7, <2>1 DEF FirstOf
<1>10. SegmentHead' = FirstOf(S')
  BY DEF SegmentHead, FindHead, Breaks
<1>11. QED
  BY <1>2, <1>5, <1>9, <1>10

(* And the lines before a place within the payload stay what they were.    *)
LEMMA LinesStay ==
  ASSUME data \in Seq(STRING), NEW c \in Seq(STRING), data' = data \o c,
         NEW to \in Nat, to <= Len(data)
  PROVE  ContentLength(to)' = ContentLength(to)
<1>1. \A i \in 0..(to - 1) : Byte(i)' = Byte(i)
  <2> SUFFICES ASSUME NEW i \in 0..(to - 1)
               PROVE  Byte(i)' = Byte(i)
    OBVIOUS
  <2>1. i \in 0..(Len(data) - 1)
    OBVIOUS
  <2>2. QED
    BY <2>1, BytesStay
<1>2. Lines(0, to)' = Lines(0, to)
  <2> SUFFICES ASSUME NEW i \in 0..(to - 1)
               PROVE  i \in Lines(0, to)' <=> i \in Lines(0, to)
    BY DEF Lines
  <2>1. \A j \in 0..i : Byte(j)' = Byte(j)
    BY <1>1
  <2>2. Byte(i)' = Byte(i) /\ (i = 0 \/ Byte(i - 1)' = Byte(i - 1))
    BY <2>1
  <2>3. QED
    BY <2>1, <2>2 DEF Lines
<1>3. Split(0, to)' = Split(0, to)
  BY <1>2 DEF Split
<1>4. LengthLines(0, to)' = LengthLines(0, to)
  <2>1. \A i \in Split(0, to) : Byte(i)' = Byte(i)
    BY <1>1 DEF Split, Lines
  <2>2. QED
    BY <1>3, <2>1 DEF LengthLines
<1>5. CASE LengthLines(0, to) = {}
  BY <1>4, <1>5 DEF ContentLength
<1>6. CASE LengthLines(0, to) # {}
  <2>1. LengthLines(0, to) \subseteq 0..(to - 1)
    BY DEF LengthLines, Split, Lines
  <2>2. Least(LengthLines(0, to)) \in 0..(to - 1)
    <3>1. LengthLines(0, to) \subseteq Nat
      BY <2>1
    <3>2. QED
      BY <1>6, <2>1, <3>1, LeastProperties
  <2>3. Least(LengthLines(0, to))' = Least(LengthLines(0, to))
    BY <1>4
  <2>4. Byte(Least(LengthLines(0, to)))' = Byte(Least(LengthLines(0, to)))
    BY <1>1, <2>2, <2>3 DEF Byte
  <2>5. QED
    BY <1>4, <2>4 DEF ContentLength
<1>7. QED
  BY <1>5, <1>6

(* A message that has its end keeps it when a chunk is added. *)
LEMMA EndStays ==
  ASSUME data \in Seq(STRING), NEW c \in Seq(STRING), data' = data \o c, SegmentCheck # -1
  PROVE  SegmentCheck' = SegmentCheck
<1>1. SegmentHead # -1 /\ ~(ContentLength(SegmentHead) < 0)
  BY DEF SegmentCheck
<1>2. SegmentHead' = SegmentHead /\ SegmentHead \in 0..(Len(data) - 4)
  BY <1>1, HeadStays
<1>3. SegmentHead \in Nat /\ SegmentHead <= Len(data)
  BY <1>2, BytesStay
<1>4. PICK k \in Nat : k = SegmentHead /\ k <= Len(data)
  BY <1>3
<1>5. ContentLength(k)' = ContentLength(k)
  BY <1>4, LinesStay
<1>6. SegmentHead' = k /\ SegmentHead = k
  BY <1>2, <1>4
<1>7. ContentLength(SegmentHead)' = ContentLength(SegmentHead)
  BY <1>5, <1>6 DEF ContentLength, LengthLines, Split, Lines, Byte
<1>8. QED
  <2>1. ContentLength(SegmentHead) = ContentLength(k)
    BY <1>6
  <2>2. ContentLength(SegmentHead)' = ContentLength(k)
    BY <1>7, <2>1
  <2>3. SegmentCheck = AsInt(k + 4 + ContentLength(k))
    BY <1>1, <1>6 DEF SegmentCheck
  <2>4. SegmentCheck' = AsInt(k + 4 + ContentLength(k))
    BY <1>1, <1>6, <2>1, <2>2 DEF SegmentCheck, AsInt
  <2>5. QED
    BY <2>3, <2>4

-----------------------------------------------------------------------------
(* Whatever has come so far is bytes, and the last answer of segment check *)
(* is the one for them, or its -1 for want of memory.                      *)
THEOREM ScanInvariant == Spec => []ScanInv
<1>1. Init => ScanInv
  BY DEF Init, ScanInv
<1>2. ScanInv /\ [Next]_vars => ScanInv'
  <2> SUFFICES ASSUME ScanInv, [Next]_vars PROVE ScanInv'
    OBVIOUS
  <2>1. ASSUME NEW c \in Chunks, Grow(c) PROVE ScanInv'
    <3>1. data' = data \o c /\ c \in Seq(STRING) /\ answer' \in {SegmentCheck', -1}
      BY <2>1, ScanAssumption DEF Grow
    <3>2. data' \in Seq(STRING)
      BY <3>1 DEF ScanInv
    <3>3. QED
      BY <3>1, <3>2 DEF ScanInv
  <2>2. CASE UNCHANGED vars
    <3>1. data' = data /\ answer' = answer
      BY <2>2 DEF vars
    <3>2. SegmentCheck' = SegmentCheck
      BY <3>1 DEF SegmentCheck, SegmentHead, ContentLength, LengthLines, Split, Lines,
                  FindHead, LineBreak, Byte
    <3>3. QED
      BY <3>1, <3>2 DEF ScanInv
  <2>3. QED
    BY <2>1, <2>2 DEF Next
<1>3. QED
  BY <1>1, <1>2, PTL DEF Spec

(* An end that http_segment_check reports is the one it reports of every   *)
(* longer payload, unless malloc fails it.                                 *)
THEOREM ScanEndStable == Spec => EndStable
<1>1. ScanInv /\ [Next]_vars => [answer # -1 => answer' \in {answer, -1}]_vars
  <2> SUFFICES ASSUME ScanInv, NEW c \in Chunks, Grow(c), answer # -1
               PROVE  answer' \in {answer, -1}
    BY DEF Next
  <2>1. data \in Seq(STRING) /\ c \in Seq(STRING) /\ data' = data \o c
        /\ answer = SegmentCheck /\ answer' \in {SegmentCheck', -1}
    BY ScanAssumption DEF ScanInv, Grow
  <2>2. SegmentCheck' = SegmentCheck
    BY <2>1, EndStays
  <2>3. QED
    BY <2>1, <2>2
<1>2. QED
  BY <1>1, ScanInvariant, PTL DEF Spec, EndStable

-----------------------------------------------------------------------------
(* What the two scans find of a message that is dissected: the line's end  *)
(* comes first; behind it a head's end that http_segment_check finds too,  *)
(* unless it found the line's.                                             *)
LEMMA PlacesFound ==
  ASSUME data \in Seq(STRING), Dissected
  PROVE  /\ LineEnd \in Nat /\ LineEnd > 0 /\ LineBreak(LineEnd)
         /\ SegmentHead \in Nat /\ HeadEnd \in Nat
         /\ HeadEnd >= LineEnd + 2
         /\ SegmentHead = LineEnd \/ SegmentHead = HeadEnd
<1> DEFINE L == {i \in 0..(Len(data) - 2) : LineBreak(i)}
           S == Breaks(0, Len(data))
           H == Breaks(HeadStart, Len(data))
<1>1. Len(data) \in Nat
  OBVIOUS
<1>2. LineEnd = FirstOf(L) /\ SegmentHead = FirstOf(S) /\ HeadEnd = FirstOf(H)
      /\ LineEnd > 0 /\ HeadEnd # -1
  BY DEF LineEnd, SegmentHead, HeadEnd, FindLine, FindHead, Breaks, Dissected
<1>3. L \subseteq Nat /\ S \subseteq Nat
  BY <1>1, LinePlaces
<1>4. LineEnd \in L /\ LineEnd \in Nat /\ \A j \in L : LineEnd <= j
  <2>1. LineEnd # -1
    BY <1>2
  <2> HIDE DEF L
  <2>2. QED
    BY <1>2, <1>3, <2>1, FirstOfProperties
<1>5. HeadStart \in Nat /\ HeadStart = LineEnd + 2
  BY <1>4 DEF HeadStart
<1>6. H \subseteq Nat
  BY <1>1, <1>5, LinePlaces
<1>7. HeadEnd \in H /\ HeadEnd \in Nat /\ \A j \in H : HeadEnd <= j
  <2> HIDE DEF H
  <2>1. QED
    BY <1>2, <1>6, FirstOfProperties
<1>8. H \subseteq S
  BY <1>1, <1>5 DEF Breaks
<1>9. SegmentHead \in S /\ SegmentHead \in Nat /\ \A j \in S : SegmentHead <= j
  <2> HIDE DEF S, H
  <2>1. S # {}
    BY <1>7, <1>8
  <2>2. QED
    BY <1>2, <1>3, <2>1, FirstOfProperties
<1>10. LineBreak(LineEnd) /\ HeadEnd >= LineEnd + 2
  BY <1>4, <1>5, <1>7 DEF Breaks
<1>11. /\ LineBreak(SegmentHead) /\ LineBreak(SegmentHead + 2)
       /\ SegmentHead \in 0..(Len(data) - 4)
  BY <1>9 DEF Breaks
<1>12. SegmentHead >= LineEnd
  <2>1. SegmentHead \in L
    BY <1>1, <1>11
  <2>2. QED
    BY <1>4, <2>1
<1>13. SegmentHead # LineEnd + 1
  BY <1>10, <1>11 DEF LineBreak
<1>14. ASSUME SegmentHead # LineEnd PROVE SegmentHead = HeadEnd
  <2>1. SegmentHead >= LineEnd + 2
    BY <1>4, <1>9, <1>12, <1>13, <1>14
  <2>2. SegmentHead \in H
    BY <1>5, <1>11, <2>1, <1>1 DEF Breaks
  <2>3. HeadEnd <= SegmentHead /\ SegmentHead <= HeadEnd
    BY <1>7, <1>8, <1>9, <2>2
  <2>4. QED
    BY <1>7, <1>9, <2>3
<1>15. QED
  BY <1>2, <1>4, <1>7, <1>9, <1>10, <1>14

(* The dissection's head ends where http_segment_check says, except behind *)
(* a first line with no others.                                            *)
THEOREM ScanHeadsAgree == Spec => []HeadsAgree
<1>1. ScanInv => HeadsAgree
  <2> SUFFICES ASSUME ScanInv, Dissected
               PROVE  /\ SegmentHead # -1
                      /\ SegmentHead = HeadEnd <=> SegmentHead # LineEnd
                      /\ SegmentHead = LineEnd => HeadEnd >= SegmentHead + 2
    BY DEF HeadsAgree
  <2>1. /\ LineEnd \in Nat /\ SegmentHead \in Nat /\ HeadEnd \in Nat /\ HeadEnd >= LineEnd + 2
        /\ SegmentHead = LineEnd \/ SegmentHead = HeadEnd
    BY PlacesFound DEF ScanInv
  <2>2. QED
    BY <2>1
<1>2. QED
  BY <1>1, ScanInvariant, PTL

-----------------------------------------------------------------------------
(* The lines that get_content_length goes through are the first line and   *)
(* those that the dissection goes through.                                 *)
LEMMA LinesOfBoth ==
  ASSUME NEW l \in Nat, l > 0, LineBreak(l), OneLine(0, l), NEW h \in Nat, h >= l + 2
  PROVE  Lines(0, h) = {0} \cup Lines(l + 2, h)
<1>1. \A j \in 0..(l - 1) : Byte(j) \notin {"cr", "lf", "nul"}
  BY DEF OneLine
<1>2. Byte(l) = "cr" /\ Byte(l + 1) = "lf"
  BY DEF LineBreak
<1>3. \A j \in 0..(l + 1) : Byte(j) # "nul"
  <2> TAKE j \in 0..(l + 1)
  <2>1. j \in 0..(l - 1) \/ j = l \/ j = l + 1
    OBVIOUS
  <2>2. QED
    BY <1>1, <1>2, <2>1
<1>4. 0 \in Lines(0, h)
  <2>1. 0 \in 0..(h - 1) /\ Byte(0) \notin {"cr", "lf", "nul"} /\ \A j \in 0..0 : j = 0
    BY <1>1
  <2>2. QED
    BY <2>1 DEF Lines
<1>5. ASSUME NEW i \in Lines(0, h), i # 0 PROVE i \in Lines(l + 2, h)
  <2>1. /\ i \in 0..(h - 1) /\ \A j \in 0..i : Byte(j) # "nul"
        /\ Byte(i) \notin {"cr", "lf"} /\ Byte(i - 1) \in {"cr", "lf"}
    BY <1>5 DEF Lines
  <2>2. i # l /\ i # l + 1
    BY <1>2, <2>1
  <2>3. i - 1 \notin 0..(l - 1)
    BY <1>1, <2>1
  <2>4. i >= l + 2
    BY <1>5, <2>1, <2>2, <2>3
  <2>5. i \in (l + 2)..(h - 1) /\ \A j \in (l + 2)..i : Byte(j) # "nul"
    BY <2>1, <2>4
  <2>6. QED
    BY <2>1, <2>5 DEF Lines
<1>6. ASSUME NEW i \in Lines(l + 2, h) PROVE i \in Lines(0, h)
  <2>1. /\ i \in (l + 2)..(h - 1) /\ \A j \in (l + 2)..i : Byte(j) # "nul"
        /\ Byte(i) \notin {"cr", "lf"}
        /\ i = l + 2 \/ Byte(i - 1) \in {"cr", "lf"}
    BY DEF Lines
  <2>2. i \in 0..(h - 1)
    BY <2>1
  <2>3. \A j \in 0..i : Byte(j) # "nul"
    <3> TAKE j \in 0..i
    <3>1. j \in 0..(l + 1) \/ j \in (l + 2)..i
      BY <2>1
    <3>2. QED
      BY <1>3, <2>1, <3>1
  <2>4. Byte(i) \notin {"cr", "lf"} /\ Byte(i - 1) \in {"cr", "lf"}
    <3>1. i = l + 2 => i - 1 = l + 1
      BY <2>1
    <3>2. QED
      BY <1>2, <2>1, <3>1
  <2>5. QED
    BY <2>2, <2>3, <2>4 DEF Lines
<1>7. QED
  BY <1>4, <1>5, <1>6

(* Counting the first line makes a line of the head the next but one at    *)
(* most: one that is not the last is still looked at.                      *)
LEMMA StillLookedAt ==
  ASSUME NEW l \in Nat, NEW h \in Nat,
         Lines(0, h) = {0} \cup Lines(l + 2, h),
         NEW x \in Lines(l + 2, h),
         Cardinality({j \in Lines(l + 2, h) : j <= x}) < HeadMaxNum
  PROVE  x \in Split(0, h) /\ x \in Split(l + 2, h)
<1> DEFINE A == {j \in Lines(l + 2, h) : j <= x}
           B == {j \in Lines(0, h) : j <= x}
<1>1. x \in Nat /\ x > 0 /\ Lines(l + 2, h) \subseteq (l + 2)..(h - 1)
  BY DEF Lines
<1>2. B = A \cup {0} /\ 0 \notin A
  BY <1>1
<1>3. IsFiniteSet(A)
  <2>1. IsFiniteSet((l + 2)..(h - 1)) /\ A \in SUBSET ((l + 2)..(h - 1))
    BY <1>1, FS_Interval
  <2>2. QED
    BY <2>1, FS_Subset
<1>4. Cardinality(A) \in Nat /\ Cardinality(A) < HeadMaxNum
  BY <1>3, FS_CardinalityType
<1> HIDE DEF A
<1>5. Cardinality(B) = Cardinality(A) + 1
  BY <1>2, <1>3, FS_AddElement
<1>6. Cardinality(B) <= HeadMaxNum /\ Cardinality(A) <= HeadMaxNum
  BY <1>4, <1>5, ScanAssumption
<1>7. QED
  BY <1>6 DEF Split, A

(* An int as a uint32_t: itself, or in the upper half when it is negative. *)
LEMMA IntAsUnsigned ==
  ASSUME NEW n \in Int, -Word <= 2 * n, 2 * n < Word
  PROVE  /\ n >= 0 => n % Word = n
         /\ n < 0 => 2 * (n % Word) >= Word
<1>1. PICK w \in Nat : w = Word /\ w > 0
  BY ScanAssumption
<1>2. n >= 0 => n % w = n
  BY <1>1
<1>3. n < 0 => n % w = n + w
  BY <1>1
<1>4. n < 0 => 2 * (n + w) >= w
  BY <1>1
<1>5. QED
  BY <1>1, <1>2, <1>3, <1>4

(* With one Content-length, not the last line looked at, both take it; of  *)
(* a negative one they make -1 and a number in the upper half of uint32_t. *)
THEOREM ScanLengthsAgree == Spec => []LengthsAgree
<1>1. ScanInv => LengthsAgree
  <2> DEFINE before == {i \in Lines(HeadStart, HeadEnd) :
                          Cardinality({j \in Lines(HeadStart, HeadEnd) : j <= i}) < HeadMaxNum}
             found == {i \in Lines(HeadStart, HeadEnd) : Byte(i) \in DOMAIN Lengths}
  <2> SUFFICES ASSUME ScanInv, Dissected, SegmentHead = HeadEnd, OneLine(0, LineEnd),
                      Cardinality(found) = 1, found \subseteq before
               PROVE  IF ContentLength(SegmentHead) >= 0
                      THEN RespContentLen = ContentLength(SegmentHead)
                      ELSE SegmentCheck = -1 /\ 2 * RespContentLen >= Word
    BY DEF LengthsAgree
  <2>1. PICK l \in Nat : l = LineEnd /\ l > 0 /\ LineBreak(l) /\ OneLine(0, l) /\ HeadStart = l + 2
    BY PlacesFound DEF ScanInv, HeadStart
  <2>2. PICK h \in Nat : h = HeadEnd /\ h = SegmentHead /\ h >= l + 2
    BY <2>1, PlacesFound DEF ScanInv
  <2>3. Lines(0, h) = {0} \cup Lines(l + 2, h)
    BY <2>1, <2>2, LinesOfBoth, SMTT(30)
  <2>4. PICK x : found = {x}
    <3>1. l + 2 \in Int /\ h - 1 \in Int
      BY <2>1, <2>2
    <3>2. IsFiniteSet((l + 2)..(h - 1))
      BY <3>1, FS_Interval
    <3>3. found \in SUBSET ((l + 2)..(h - 1))
      BY <2>1, <2>2 DEF Lines
    <3>4. IsFiniteSet(found)
      BY <3>2, <3>3, FS_Subset
    <3> HIDE DEF found
    <3>5. QED
      BY <3>4, FS_Singleton
  <2>5. /\ x \in Lines(l + 2, h) /\ Byte(x) \in DOMAIN Lengths /\ x \in Nat
        /\ Cardinality({j \in Lines(l + 2, h) : j <= x}) < HeadMaxNum
    <3>1. x \in found /\ x \in before
      BY <2>4
    <3>2. x \in Lines(l + 2, h) /\ Byte(x) \in DOMAIN Lengths
          /\ Cardinality({j \in Lines(l + 2, h) : j <= x}) < HeadMaxNum
      BY <2>1, <2>2, <3>1
    <3>3. QED
      BY <3>2 DEF Lines
  <2>6. x \in Split(0, h) /\ x \in Split(l + 2, h)
    BY <2>3, <2>5, StillLookedAt
  <2>7. \A i \in Lines(l + 2, h) : Byte(i) \in DOMAIN Lengths => i = x
    BY <2>1, <2>2, <2>4
  <2>8. LengthLines(l + 2, h) = {x}
    BY <2>5, <2>6, <2>7 DEF LengthLines, Split
  <2>9. LengthLines(0, h) = {x}
    <3>1. Byte(0) \notin DOMAIN Lengths
      BY <2>1 DEF OneLine
    <3>2. \A i \in Lines(0, h) : Byte(i) \in DOMAIN Lengths => i = x
      BY <2>3, <2>7, <3>1
    <3>3. QED
      BY <2>5, <2>6, <3>2 DEF LengthLines, Split
  <2>10. ContentLength(SegmentHead) = Lengths[Byte(x)]
    BY <2>2, <2>5, <2>9, GreatestOfOne DEF ContentLength
  <2>11. RespContentLen = Lengths[Byte(x)] % Word
    BY <2>1, <2>2, <2>5, <2>8, GreatestOfOne DEF RespContentLen
  <2>12. PICK n \in Int : n = Lengths[Byte(x)] /\ -Word <= 2 * n /\ 2 * n < Word
    BY <2>5, ScanAssumption
  <2>13. CASE n >= 0
    BY <2>10, <2>11, <2>12, <2>13, IntAsUnsigned
  <2>14. CASE n < 0
    <3>1. 2 * RespContentLen >= Word
      BY <2>11, <2>12, <2>14, IntAsUnsigned
    <3>2. SegmentCheck = -1 /\ ~(ContentLength(SegmentHead) >= 0)
      BY <2>10, <2>12, <2>14 DEF SegmentCheck
    <3>3. QED
      BY <3>1, <3>2
  <2>15. QED
    BY <2>12, <2>13, <2>14
<1>2. QED
  BY <1>1, ScanInvariant, PTL
=============================================================================
