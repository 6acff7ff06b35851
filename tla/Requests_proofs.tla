---------------------------- MODULE Requests_proofs ----------------------------
(***************************************************************************)
(* Lemmas about the operators on notes, on the index and on what is asked  *)
(* from it.  What each rewrite and each capture makes of the lines of a    *)
(* note is again the lines of a note.  What reconcile_note does to the     *)
(* tasks table, for every table and every new contents of a note: the rows *)
(* are well typed, a snapshot stays a snapshot, and an id that survives    *)
(* still names the same text.  What a gesture asks for is an action on the *)
(* row it is made on.                                                      *)
(***************************************************************************)
EXTENDS Requests, NoteCapture, FiniteSetTheorems, FunctionTheorems, SequenceTheorems, TLAPS

-----------------------------------------------------------------------------
\* Rank numbers the elements of a finite set of integers from 0 without a gap.

LEMMA RankType ==
  ASSUME NEW S, IsFiniteSet(S), NEW i
  PROVE  Rank(S, i) \in Nat /\ Rank(S, i) <= Cardinality(S)
<1> DEFINE below == {j \in S : j < i}
<1>1. below \in SUBSET S  OBVIOUS
<1>2. IsFiniteSet(below) /\ Cardinality(below) <= Cardinality(S)  BY <1>1, FS_Subset
<1>3. Cardinality(below) \in Nat  BY <1>2, FS_CardinalityType
<1> QED  BY <1>2, <1>3 DEF Rank

LEMMA RankBound ==
  ASSUME NEW S \in SUBSET Int, IsFiniteSet(S), NEW i \in S
  PROVE  Rank(S, i) < Cardinality(S)
<1> DEFINE below == {j \in S : j < i}
<1>1. below \in SUBSET S /\ i \notin below  OBVIOUS
<1>2. /\ IsFiniteSet(below)
      /\ Cardinality(below) <= Cardinality(S)
      /\ Cardinality(S) = Cardinality(below) => S = below
  BY <1>1, FS_Subset
<1>3. Cardinality(below) \in Nat /\ Cardinality(S) \in Nat  BY <1>2, FS_CardinalityType
<1> QED  BY <1>1, <1>2, <1>3 DEF Rank

LEMMA RankMonotone ==
  ASSUME NEW S \in SUBSET Int, IsFiniteSet(S), NEW i \in S, NEW j \in S, i < j
  PROVE  Rank(S, i) < Rank(S, j)
<1> DEFINE below == {k \in S : k < j}
<1>1. below \in SUBSET S /\ below \in SUBSET Int /\ i \in below  OBVIOUS
<1>2. IsFiniteSet(below)  BY <1>1, FS_Subset
<1>3. {k \in below : k < i} = {k \in S : k < i}
  <2>1. \A k \in S : k < i => k < j  OBVIOUS
  <2> QED  BY <2>1
<1>4. Rank(below, i) < Cardinality(below)  BY <1>1, <1>2, RankBound
<1> QED  BY <1>3, <1>4 DEF Rank

LEMMA RankInjective ==
  ASSUME NEW S \in SUBSET Int, IsFiniteSet(S), NEW i \in S, NEW j \in S,
         Rank(S, i) = Rank(S, j)
  PROVE  i = j
<1>1. Rank(S, i) \in Nat  BY RankType
<1>2. CASE i < j  BY <1>1, <1>2, RankMonotone
<1>3. CASE j < i  BY <1>1, <1>3, RankMonotone
<1> QED  BY <1>2, <1>3

LEMMA NthType ==
  ASSUME NEW S \in SUBSET Int, IsFiniteSet(S), NEW k \in 1..Cardinality(S)
  PROVE  Nth(S, k) \in S /\ Rank(S, Nth(S, k)) = k - 1
<1> DEFINE f == [i \in S |-> Rank(S, i) + 1]
<1>1. Cardinality(S) \in Nat  BY FS_CardinalityType
<1>2. f \in [S -> 1..Cardinality(S)]
  <2> SUFFICES ASSUME NEW i \in S PROVE Rank(S, i) + 1 \in 1..Cardinality(S)  OBVIOUS
  <2>1. Rank(S, i) \in Nat /\ Rank(S, i) < Cardinality(S)  BY RankType, RankBound
  <2> QED  BY <1>1, <2>1
<1>3. IsInjective(f)
  <2> SUFFICES ASSUME NEW i \in S, NEW j \in S, Rank(S, i) + 1 = Rank(S, j) + 1 PROVE i = j
    BY DEF IsInjective
  <2>1. Rank(S, i) \in Nat /\ Rank(S, j) \in Nat  BY RankType
  <2> QED  BY <2>1, RankInjective
<1>4. f \in Injection(S, 1..Cardinality(S))  BY <1>2, <1>3 DEF Injection
<1>5. /\ IsFiniteSet(1..Cardinality(S))
      /\ Cardinality(1..Cardinality(S)) = Cardinality(S)
  BY <1>1, FS_Interval
<1>6. f \in Surjection(S, 1..Cardinality(S))  BY <1>4, <1>5, FS_Injection
<1>7. PICK i \in S : f[i] = k  BY <1>6 DEF Surjection
<1>8. Rank(S, i) = k - 1
  <2>1. Rank(S, i) \in Nat  BY RankType
  <2> QED  BY <1>7, <2>1
<1> QED  BY <1>8 DEF Nth

LEMMA InOrderType ==
  ASSUME NEW S \in SUBSET Nat, IsFiniteSet(S)
  PROVE  InOrder(S) \in Seq(Nat)
<1> DEFINE n == Cardinality(S)
<1>1. S \in SUBSET Int  OBVIOUS
<1>2. n \in Nat  BY FS_CardinalityType
<1>3. \A k \in 1..n : Nth(S, k) \in Nat  BY <1>1, NthType
<1> HIDE DEF n
<1>4. [k \in 1..n |-> Nth(S, k)] \in Seq(Nat)  BY <1>2, <1>3
<1> QED  BY <1>4 DEF InOrder, n

LEMMA FunctionIsSequence ==
  ASSUME NEW k \in Nat, NEW S \in SUBSET Nat, NEW f \in [1..k -> S]
  PROVE  f \in Seq(Nat)
<1>1. f = [i \in 1..k |-> f[i]] /\ \A i \in 1..k : f[i] \in Nat  OBVIOUS
<1>2. [i \in 1..k |-> f[i]] \in Seq(Nat)  BY <1>1
<1> QED  BY <1>1, <1>2

-----------------------------------------------------------------------------
\* Contents and the sets of their line numbers.

LEMMA LinesFinite ==
  ASSUME NEW c \in Contents, NEW S \in SUBSET DOMAIN c
  PROVE  S \in SUBSET Int /\ IsFiniteSet(S)
<1>1. Len(c) \in Nat /\ DOMAIN c = 1..Len(c)  BY DEF Contents
<1>2. IsFiniteSet(1..Len(c))  BY <1>1, FS_Interval
<1> QED  BY <1>1, <1>2, FS_Subset

LEMMA IndexedLinesType ==
  ASSUME NEW c \in Contents
  PROVE  /\ IndexedLines(c) \in SUBSET DOMAIN c
         /\ IndexedLines(c) \in SUBSET (Nat \ {0})
         /\ IsFiniteSet(IndexedLines(c))
<1>1. IndexedLines(c) \in SUBSET DOMAIN c  BY DEF IndexedLines, TaskLines
<1>2. DOMAIN c \in SUBSET (Nat \ {0})  BY DEF Contents
<1> QED  BY <1>1, <1>2, LinesFinite

-----------------------------------------------------------------------------
\* The rewrites.

LEMMA SetLineType ==
  ASSUME NEW c \in Contents, NEW i \in DOMAIN c, NEW l \in Line
  PROVE  SetLine(c, i, l) \in Contents
BY DEF SetLine, Contents

LEMMA PermuteLinesType ==
  ASSUME NEW c \in Contents, NEW order \in Seq(Nat)
  PROVE  PermuteLines(c, order) \in Contents
<1>1. CASE ~(Range(order) \subseteq DOMAIN c /\ IsInjective(order))
  BY <1>1 DEF PermuteLines
<1>2. CASE Range(order) \subseteq DOMAIN c /\ IsInjective(order)
  <2> DEFINE R == Range(order)
  <2>1. R \in SUBSET Int /\ IsFiniteSet(R)  BY <1>2, LinesFinite
  <2>2. Len(order) \in Nat /\ DOMAIN order = 1..Len(order)  OBVIOUS
  <2>3. order \in Surjection(1..Len(order), R)  BY <2>2 DEF Surjection, Range
  <2>4. IsFiniteSet(1..Len(order)) /\ Cardinality(1..Len(order)) = Len(order)
    <3>1. \A n \in Nat : IsFiniteSet(1..n) /\ Cardinality(1..n) = n  BY FS_Interval
    <3> QED  BY <2>2, <3>1
  <2>5. Cardinality(R) <= Len(order)  BY <2>3, <2>4, FS_Surjection
  <2>6. ASSUME NEW i \in R  PROVE c[order[Rank(R, i) + 1]] \in Line
    <3>1. Rank(R, i) \in Nat /\ Rank(R, i) < Cardinality(R)  BY <2>1, RankType, RankBound
    <3>2. Cardinality(R) \in Nat  BY <2>1, FS_CardinalityType
    <3>3. Rank(R, i) + 1 \in DOMAIN order  BY <2>2, <2>5, <3>1, <3>2
    <3>4. order[Rank(R, i) + 1] \in DOMAIN c  BY <1>2, <3>3 DEF Range
    <3> QED  BY <3>4 DEF Contents
  <2> DEFINE at(i) == IF i \in R THEN c[order[Rank(R, i) + 1]] ELSE c[i]
  <2>7. \A i \in DOMAIN c : at(i) \in Line  BY <2>6 DEF Contents
  <2>8. PermuteLines(c, order) = [i \in DOMAIN c |-> at(i)]  BY <1>2 DEF PermuteLines
  <2>9. Len(c) \in Nat /\ DOMAIN c = 1..Len(c)  BY DEF Contents
  <2> HIDE DEF at
  <2>10. [i \in 1..Len(c) |-> at(i)] \in Seq(Line)  BY <2>7, <2>9
  <2> QED  BY <2>8, <2>9, <2>10 DEF Contents
<1> QED  BY <1>1, <1>2

LEMMA ExtractLinesType ==
  ASSUME NEW c \in Contents, NEW numbers \in Seq(Nat)
  PROVE  ExtractLines(c, numbers) \in Contents
<1> DEFINE listed == {k \in DOMAIN numbers : numbers[k] \in DOMAIN c}
           n == Cardinality(listed)
           at(k) == c[numbers[Nth(listed, k)]]
<1>1. Len(numbers) \in Nat /\ DOMAIN numbers = 1..Len(numbers)  OBVIOUS
<1>2. IsFiniteSet(1..Len(numbers))  BY <1>1, FS_Interval
<1>3. listed \in SUBSET Int /\ IsFiniteSet(listed)  BY <1>1, <1>2, FS_Subset
<1>4. n \in Nat  BY <1>3, FS_CardinalityType
<1>5. \A k \in 1..n : at(k) \in Line
  <2> SUFFICES ASSUME NEW k \in 1..n PROVE at(k) \in Line  OBVIOUS
  <2>1. Nth(listed, k) \in listed  BY <1>3, NthType
  <2>2. numbers[Nth(listed, k)] \in DOMAIN c  BY <2>1
  <2> QED  BY <2>2 DEF Contents
<1> HIDE DEF at, n
<1>6. [k \in 1..n |-> at(k)] \in Seq(Line)  BY <1>4, <1>5
<1> QED  BY <1>6 DEF ExtractLines, Contents, at, n

LEMMA RemoveLinesType ==
  ASSUME NEW c \in Contents, NEW numbers
  PROVE  RemoveLines(c, numbers) \in Contents
<1> DEFINE kept == DOMAIN c \ Range(numbers)
           n == Cardinality(kept)
           at(k) == c[Nth(kept, k)]
<1>1. kept \in SUBSET Int /\ IsFiniteSet(kept)  BY LinesFinite
<1>2. n \in Nat  BY <1>1, FS_CardinalityType
<1>3. \A k \in 1..n : at(k) \in Line
  <2> SUFFICES ASSUME NEW k \in 1..n PROVE at(k) \in Line  OBVIOUS
  <2>1. Nth(kept, k) \in kept  BY <1>1, NthType
  <2> QED  BY <2>1 DEF Contents
<1> HIDE DEF at, n
<1>4. [k \in 1..n |-> at(k)] \in Seq(Line)  BY <1>2, <1>3
<1> QED  BY <1>4 DEF RemoveLines, Contents, at, n

-----------------------------------------------------------------------------
\* Captures.

LEMMA NewLineTypes ==
  ASSUME NEW name \in Names \cup {NoName}, NEW today \in Token, NEW id \in Links \cup {NoLink}
  PROVE  /\ Saying(name) \in Text
         /\ NewTask(name, today) \in Line
         /\ NoteBullet(name) \in Line
         /\ Blank \in Line /\ Section \in Line /\ Heading(id) \in Line
         /\ \A line \in Line : Linked(line, id) \in Line
<1>1. Saying(name) \in Text /\ Saying(NoName) \in Text  BY DEF Saying, Text, Token
<1>2. NewTask(name, today) \in Line  BY <1>1 DEF NewTask, Line, Kinds, Chars, Text
<1>3. NoteBullet(name) \in Line  BY <1>1 DEF NoteBullet, Line, Kinds
<1>4. \A kind \in Kinds, k \in Links \cup {NoLink} : Marker(kind, k) \in Line
  BY <1>1 DEF Marker, Line, Text
<1>5. Blank \in Line /\ Section \in Line /\ Heading(id) \in Line
  BY <1>4 DEF Blank, Section, Heading, Kinds
<1>6. \A line \in Line : Linked(line, id) \in Line  BY DEF Linked, Line, Text
<1> QED  BY <1>1, <1>2, <1>3, <1>5, <1>6

LEMMA FirstType ==
  ASSUME NEW S \in SUBSET Int, IsFiniteSet(S), S # {}
  PROVE  First(S) \in S
<1>1. Cardinality(S) \in Nat \ {0}  BY FS_CardinalityType, FS_EmptySet
<1>2. 1 \in 1..Cardinality(S)  BY <1>1
<1> QED  BY <1>2, NthType DEF First

LEMMA InsertAtType ==
  ASSUME NEW c \in Contents, NEW i \in 1..(Len(c) + 1), NEW l \in Line
  PROVE  InsertAt(c, i, l) \in Contents
<1>1. c \in Seq(Line) /\ Len(c) \in Nat  BY DEF Contents
<1>2. SubSeq(c, 1, i - 1) \in Seq(Line)  BY <1>1
<1>3. SubSeq(c, i, Len(c)) \in Seq(Line)  BY <1>1
<1>4. <<l>> \in Seq(Line)  OBVIOUS
<1> QED  BY <1>2, <1>3, <1>4 DEF InsertAt, Contents

LEMMA RemoveAtType ==
  ASSUME NEW c \in Contents, NEW i \in DOMAIN c
  PROVE  RemoveAt(c, i) \in Contents
<1>1. c \in Seq(Line) /\ Len(c) \in Nat /\ i \in 1..Len(c)  BY DEF Contents
<1>2. SubSeq(c, 1, i - 1) \in Seq(Line)  BY <1>1
<1>3. SubSeq(c, i + 1, Len(c)) \in Seq(Line)  BY <1>1
<1> QED  BY <1>2, <1>3 DEF RemoveAt, Contents

\* A new task goes before some line of the note, or behind the last one.
LEMMA TaskPlaceType ==
  ASSUME NEW c \in Contents
  PROVE  TaskPlace(c) \in 1..(Len(c) + 1)
<1>1. Len(c) \in Nat /\ DOMAIN c = 1..Len(c)  BY DEF Contents
<1>2. CASE Sections(c) = {}  BY <1>1, <1>2 DEF TaskPlace
<1>3. CASE Sections(c) # {}
  <2> DEFINE s == First(Sections(c))
             above == {i \in 1..s : \A j \in i..(s - 1) : c[j].kind = "blank"}
  <2>1. Sections(c) \in SUBSET DOMAIN c  BY DEF Sections
  <2>2. s \in DOMAIN c  BY <1>3, <2>1, LinesFinite, FirstType
  <2> HIDE DEF s
  <2>3. s \in above  BY <1>1, <2>2
  <2>4. above \in SUBSET DOMAIN c  BY <1>1, <2>2
  <2> HIDE DEF above
  <2>5. First(above) \in above  BY <2>3, <2>4, LinesFinite, FirstType
  <2>6. TaskPlace(c) = First(above)  BY <1>3 DEF TaskPlace, above, s
  <2> QED  BY <1>1, <2>4, <2>5, <2>6
<1> QED  BY <1>2, <1>3

LEMMA WithTaskType ==
  ASSUME NEW c \in Contents, NEW l \in Line
  PROVE  WithTask(c, l) \in Contents
BY TaskPlaceType, InsertAtType DEF WithTask

\* What the undo of a quick add leaves of a line.
LEMMA LeftOvers ==
  ASSUME NEW l \in {Blank, Remainder}
  PROVE  l \in Line /\ l.kind \in {"blank", "plain"} /\ l.text.added = NoDate
<1>1. NoName \in Names \cup {NoName} /\ NoDate \in Token /\ NoLink \in Links \cup {NoLink}
  BY DEF Token
<1>2. Saying(NoName) \in Text /\ Saying(NoName).added = NoDate  BY <1>1 DEF Saying, Text
<1> QED  BY <1>2 DEF Blank, Remainder, Marker, Line, Kinds, Text

LEMMA NotedType ==
  ASSUME NEW c \in Contents, NEW i \in DOMAIN c, NEW id \in Links \cup {NoLink},
         NEW bullet \in Line
  PROVE  Noted(c, i, id, bullet) \in Contents
<1>1. /\ Blank \in Line /\ Section \in Line /\ Heading(id) \in Line
      /\ \A line \in Line : Linked(line, id) \in Line
  <2>1. NoDate \in Token /\ NoName \in Names \cup {NoName}  BY DEF Token
  <2> QED  BY <2>1, NewLineTypes
<1>2. ASSUME NEW d \in Contents  PROVE NewBlock(d, id, bullet) \in Contents
  <2>1. <<Blank, Section>> \in Seq(Line) /\ <<>> \in Seq(Line)  BY <1>1
  <2>2. <<Blank, Heading(id), bullet>> \in Seq(Line)  BY <1>1
  <2> QED  BY <2>1, <2>2 DEF NewBlock, Contents
<1>3. BlockEnd(c, id) \in 1..(Len(c) + 1)
  <2> DEFINE next == {j \in DOMAIN c : /\ j > First(Headings(c, id))
                                       /\ c[j].kind \in {"section", "loose", "heading"}}
  <2>1. Len(c) \in Nat /\ DOMAIN c = 1..Len(c)  BY DEF Contents
  <2>2. next \in SUBSET DOMAIN c  OBVIOUS
  <2>3. BlockEnd(c, id) = IF next = {} THEN Len(c) + 1 ELSE First(next)  BY DEF BlockEnd
  <2> HIDE DEF next
  <2>4. next # {} => First(next) \in DOMAIN c  BY <2>2, LinesFinite, FirstType
  <2> QED  BY <2>1, <2>3, <2>4
<1>4. InBlock(c, id, bullet) \in Contents  BY <1>2, <1>3, InsertAtType DEF InBlock
<1>5. SetLine(c, i, Linked(c[i], id)) \in Contents
  <2>1. c[i] \in Line  BY DEF Contents
  <2> QED  BY <1>1, <2>1, SetLineType
<1> QED  BY <1>2, <1>4, <1>5 DEF Noted

-----------------------------------------------------------------------------
\* Counting lines: how often a note has a line of a set, before and after a rewrite.

Spots(c, L) == {i \in DOMAIN c : c[i] \in L}

LEMMA SpotsFinite ==
  ASSUME NEW c \in Contents, NEW L
  PROVE  /\ Spots(c, L) \in SUBSET DOMAIN c /\ IsFiniteSet(Spots(c, L))
         /\ Cardinality(Spots(c, L)) \in Nat
<1>1. Spots(c, L) \in SUBSET DOMAIN c  BY DEF Spots
<1> QED  BY <1>1, LinesFinite, FS_CardinalityType

\* Where the lines of d come from, when each comes from a place of its own in c.
LEMMA CountFrom ==
  ASSUME NEW c \in Contents, NEW d \in Contents, NEW L, NEW f \in [Spots(d, L) -> Spots(c, L)],
         \A i, j \in Spots(d, L) : f[i] = f[j] => i = j
  PROVE  /\ Cardinality(Spots(d, L)) <= Cardinality(Spots(c, L))
         /\ (\A j \in Spots(c, L) : \E i \in Spots(d, L) : f[i] = j)
            => Cardinality(Spots(d, L)) = Cardinality(Spots(c, L))
<1>1. f \in Injection(Spots(d, L), Spots(c, L))  BY Fun_IsInj
<1>2. IsFiniteSet(Spots(c, L))  BY SpotsFinite
<1>3. ASSUME \A j \in Spots(c, L) : \E i \in Spots(d, L) : f[i] = j
      PROVE  f \in Surjection(Spots(d, L), Spots(c, L))
  BY <1>3, Fun_IsSurj
<1> QED  BY <1>1, <1>2, <1>3, FS_Injection

\* A reorder is a permutation of the places: each line of the new note is one of the old.
LEMMA PermutedPlaces ==
  ASSUME NEW c \in Contents, NEW order \in Seq(Nat),
         Range(order) \subseteq DOMAIN c, IsInjective(order)
  PROVE  \E f \in [DOMAIN c -> DOMAIN c] :
            /\ \A i, j \in DOMAIN c : f[i] = f[j] => i = j
            /\ \A j \in DOMAIN c : \E i \in DOMAIN c : f[i] = j
            /\ \A i \in DOMAIN c : PermuteLines(c, order)[i] = c[f[i]]
            /\ \A i \in DOMAIN c \ Range(order) : f[i] = i
<1> DEFINE R == Range(order)
           f == [i \in DOMAIN c |-> IF i \in R THEN order[Rank(R, i) + 1] ELSE i]
<1>1. R \in SUBSET Int /\ IsFiniteSet(R)  BY LinesFinite
<1>2. Len(order) \in Nat /\ DOMAIN order = 1..Len(order)  OBVIOUS
<1>3. order \in Surjection(1..Len(order), R)  BY <1>2 DEF Surjection, Range
<1>4. IsFiniteSet(1..Len(order)) /\ Cardinality(1..Len(order)) = Len(order)
  <2>1. \A n \in Nat : IsFiniteSet(1..n) /\ Cardinality(1..n) = n  BY FS_Interval
  <2> QED  BY <1>2, <2>1
<1>5. Cardinality(R) <= Len(order)  BY <1>3, <1>4, FS_Surjection
<1>6. ASSUME NEW i \in R  PROVE Rank(R, i) \in Nat /\ Rank(R, i) + 1 \in DOMAIN order
  <2>1. Rank(R, i) \in Nat /\ Rank(R, i) < Cardinality(R)  BY <1>1, RankType, RankBound
  <2>2. Cardinality(R) \in Nat  BY <1>1, FS_CardinalityType
  <2> QED  BY <1>2, <1>5, <2>1, <2>2
<1>7. \A i \in R : f[i] = order[Rank(R, i) + 1] /\ f[i] \in R  BY <1>6 DEF Range
<1>8. \A i \in DOMAIN c \ R : f[i] = i  OBVIOUS
<1>9. f \in [DOMAIN c -> DOMAIN c]  BY <1>7, <1>8
<1>10. ASSUME NEW i \in DOMAIN c, NEW j \in DOMAIN c, f[i] = f[j]  PROVE i = j
  <2>1. CASE i \in R /\ j \in R
    <3>1. Rank(R, i) + 1 = Rank(R, j) + 1
      BY <1>6, <1>7, <1>10, <2>1 DEF IsInjective
    <3>2. Rank(R, i) \in Nat /\ Rank(R, j) \in Nat  BY <1>6, <2>1
    <3> QED  BY <1>1, <2>1, <3>1, <3>2, RankInjective
  <2>2. CASE ~(i \in R /\ j \in R)  BY <1>7, <1>8, <1>10, <2>2
  <2> QED  BY <2>1, <2>2
<1>11. ASSUME NEW j \in DOMAIN c  PROVE \E i \in DOMAIN c : f[i] = j
  <2>1. f \in Injection(DOMAIN c, DOMAIN c)  BY <1>9, <1>10, Fun_IsInj
  <2>2. IsFiniteSet(DOMAIN c)  BY LinesFinite
  <2>3. f \in Surjection(DOMAIN c, DOMAIN c)  BY <2>1, <2>2, FS_Injection
  <2> QED  BY <2>3, Fun_SurjectionProperties
<1>12. \A i \in DOMAIN c : PermuteLines(c, order)[i] = c[f[i]]  BY DEF PermuteLines
<1> QED  BY <1>8, <1>9, <1>10, <1>11, <1>12

LEMMA PermuteLinesCount ==
  ASSUME NEW c \in Contents, NEW order \in Seq(Nat), NEW L
  PROVE  Cardinality(Spots(PermuteLines(c, order), L)) = Cardinality(Spots(c, L))
<1> DEFINE d == PermuteLines(c, order)
<1>1. CASE ~(Range(order) \subseteq DOMAIN c /\ IsInjective(order))
  BY <1>1 DEF PermuteLines
<1>2. CASE Range(order) \subseteq DOMAIN c /\ IsInjective(order)
  <2>1. PICK f \in [DOMAIN c -> DOMAIN c] :
          /\ \A i, j \in DOMAIN c : f[i] = f[j] => i = j
          /\ \A j \in DOMAIN c : \E i \in DOMAIN c : f[i] = j
          /\ \A i \in DOMAIN c : d[i] = c[f[i]]
    BY <1>2, PermutedPlaces
  <2>2. d \in Contents /\ DOMAIN d = DOMAIN c
    BY <1>2, PermuteLinesType DEF PermuteLines
  <2> HIDE DEF d
  <2> DEFINE g == [i \in Spots(d, L) |-> f[i]]
  <2>3. g \in [Spots(d, L) -> Spots(c, L)]  BY <2>1, <2>2 DEF Spots
  <2>4. \A i, j \in Spots(d, L) : g[i] = g[j] => i = j  BY <2>1, <2>2 DEF Spots
  <2>5. \A j \in Spots(c, L) : \E i \in Spots(d, L) : g[i] = j  BY <2>1, <2>2 DEF Spots
  <2> HIDE DEF g
  <2> QED  BY <2>2, <2>3, <2>4, <2>5, CountFrom DEF d
<1> QED  BY <1>1, <1>2

\* Lines are numbered through without a gap and without a repetition.
LEMMA NthOrder ==
  ASSUME NEW S \in SUBSET Int, IsFiniteSet(S)
  PROVE  /\ \A k, l \in 1..Cardinality(S) : Nth(S, k) = Nth(S, l) => k = l
         /\ \A i \in S : /\ Rank(S, i) + 1 \in 1..Cardinality(S)
                         /\ Nth(S, Rank(S, i) + 1) = i
<1>1. ASSUME NEW k \in 1..Cardinality(S), NEW l \in 1..Cardinality(S), Nth(S, k) = Nth(S, l)
      PROVE  k = l
  <2>1. Rank(S, Nth(S, k)) = k - 1 /\ Rank(S, Nth(S, l)) = l - 1  BY NthType
  <2> QED  BY <1>1, <2>1
<1>2. ASSUME NEW i \in S
      PROVE  Rank(S, i) + 1 \in 1..Cardinality(S) /\ Nth(S, Rank(S, i) + 1) = i
  <2>1. /\ Cardinality(S) \in Nat /\ Rank(S, i) \in Nat
        /\ Rank(S, i) < Cardinality(S)
    BY FS_CardinalityType, RankType, RankBound
  <2> DEFINE k == Rank(S, i) + 1
  <2>2. k \in 1..Cardinality(S) /\ k - 1 = Rank(S, i)  BY <2>1
  <2> HIDE DEF k
  <2>3. Nth(S, k) \in S /\ Rank(S, Nth(S, k)) = k - 1  BY <2>2, NthType
  <2>4. Nth(S, k) = i  BY <2>2, <2>3, RankInjective
  <2> QED  BY <2>2, <2>4 DEF k
<1> QED  BY <1>1, <1>2

\* Removing lines makes no line more frequent, and only the lines removed less.
LEMMA RemoveLinesCount ==
  ASSUME NEW c \in Contents, NEW numbers, NEW L
  PROVE  /\ Cardinality(Spots(RemoveLines(c, numbers), L)) <= Cardinality(Spots(c, L))
         /\ Spots(c, L) \cap Range(numbers) = {} =>
               Cardinality(Spots(RemoveLines(c, numbers), L)) = Cardinality(Spots(c, L))
<1> DEFINE kept == DOMAIN c \ Range(numbers)
           d == RemoveLines(c, numbers)
           f == [k \in Spots(d, L) |-> Nth(kept, k)]
<1>1. kept \in SUBSET Int /\ IsFiniteSet(kept)  BY LinesFinite
<1>2. d \in Contents  BY RemoveLinesType
<1>3. DOMAIN d = 1..Cardinality(kept) /\ \A k \in DOMAIN d : d[k] = c[Nth(kept, k)]
  BY DEF RemoveLines
<1> HIDE DEF d
<1>4. \A k \in DOMAIN d : Nth(kept, k) \in kept  BY <1>1, <1>3, NthType
<1>5. f \in [Spots(d, L) -> Spots(c, L)]  BY <1>3, <1>4 DEF Spots
<1>6. \A k, l \in Spots(d, L) : f[k] = f[l] => k = l  BY <1>1, <1>3, NthOrder DEF Spots
<1>7. ASSUME Spots(c, L) \cap Range(numbers) = {}, NEW j \in Spots(c, L)
      PROVE  \E k \in Spots(d, L) : f[k] = j
  <2>1. j \in kept /\ c[j] \in L  BY <1>7 DEF Spots
  <2> DEFINE k == Rank(kept, j) + 1
  <2>2. k \in DOMAIN d /\ Nth(kept, k) = j  BY <1>1, <1>3, <2>1, NthOrder
  <2> HIDE DEF k, kept
  <2>3. k \in Spots(d, L)  BY <1>3, <2>1, <2>2 DEF Spots
  <2> QED  BY <2>2, <2>3
<1> HIDE DEF f
<1>8. Cardinality(Spots(d, L)) <= Cardinality(Spots(c, L))  BY <1>2, <1>5, <1>6, CountFrom
<1>9. Spots(c, L) \cap Range(numbers) = {} =>
         Cardinality(Spots(d, L)) = Cardinality(Spots(c, L))
  BY <1>2, <1>5, <1>6, <1>7, CountFrom
<1> QED  BY <1>8, <1>9 DEF d

\* Every listed line is in the copy.
LEMMA ExtractLinesFinds ==
  ASSUME NEW c \in Contents, NEW numbers \in Seq(Nat), NEW i \in Range(numbers) \cap DOMAIN c
  PROVE  c[i] \in Range(ExtractLines(c, numbers))
<1> DEFINE listed == {k \in DOMAIN numbers : numbers[k] \in DOMAIN c}
           e == ExtractLines(c, numbers)
<1>1. Len(numbers) \in Nat /\ DOMAIN numbers = 1..Len(numbers)  OBVIOUS
<1>2. IsFiniteSet(1..Len(numbers))  BY <1>1, FS_Interval
<1>3. listed \in SUBSET Int /\ IsFiniteSet(listed)  BY <1>1, <1>2, FS_Subset
<1>4. PICK k \in listed : numbers[k] = i  BY DEF Range
<1>5. DOMAIN e = 1..Cardinality(listed)
      /\ \A m \in DOMAIN e : e[m] = c[numbers[Nth(listed, m)]]
  BY DEF ExtractLines
<1> DEFINE m == Rank(listed, k) + 1
<1>6. m \in DOMAIN e /\ Nth(listed, m) = k  BY <1>3, <1>5, NthOrder
<1> HIDE DEF e, m, listed
<1>7. e[m] = c[i]  BY <1>4, <1>5, <1>6
<1> QED  BY <1>6, <1>7 DEF e, Range

\* What is added at the end takes nothing away.
LEMMA ConcatCount ==
  ASSUME NEW c \in Contents, NEW e \in Contents, NEW L
  PROVE  /\ c \o e \in Contents
         /\ Cardinality(Spots(c, L)) <= Cardinality(Spots(c \o e, L))
         /\ Range(c) \cup Range(e) \subseteq Range(c \o e)
<1> DEFINE d == c \o e
           f == [i \in Spots(c, L) |-> i]
<1>1. /\ c \in Seq(Line) /\ e \in Seq(Line) /\ d \in Seq(Line)
      /\ Len(d) = Len(c) + Len(e) /\ DOMAIN d = 1..Len(d)
      /\ DOMAIN c = 1..Len(c) /\ DOMAIN e = 1..Len(e)
      /\ Len(c) \in Nat /\ Len(e) \in Nat
  BY DEF Contents
<1>2. /\ \A i \in DOMAIN c : i \in DOMAIN d /\ d[i] = c[i]
      /\ \A i \in DOMAIN e : Len(c) + i \in DOMAIN d /\ d[Len(c) + i] = e[i]
  BY <1>1
<1> HIDE DEF d
<1>3. f \in [Spots(c, L) -> Spots(d, L)]  BY <1>2 DEF Spots
<1>4. d \in Contents  BY <1>1 DEF Contents
<1>5. Cardinality(Spots(c, L)) <= Cardinality(Spots(d, L))  BY <1>3, <1>4, CountFrom
<1>6. Range(c) \cup Range(e) \subseteq Range(d)  BY <1>2 DEF Range
<1> QED  BY <1>4, <1>5, <1>6 DEF d

-----------------------------------------------------------------------------
\* One line more, and one line less.

LEMMA InsertAtLines ==
  ASSUME NEW c \in Contents, NEW p \in 1..(Len(c) + 1), NEW l \in Line
  PROVE  /\ Len(InsertAt(c, p, l)) = Len(c) + 1
         /\ DOMAIN InsertAt(c, p, l) = 1..(Len(c) + 1)
         /\ \A i \in 1..(Len(c) + 1) :
               InsertAt(c, p, l)[i] = IF i < p THEN c[i] ELSE IF i = p THEN l ELSE c[i - 1]
<1>1. c \in Seq(Line) /\ Len(c) \in Nat  BY DEF Contents
<1> DEFINE a == SubSeq(c, 1, p - 1)
           b == SubSeq(c, p, Len(c))
<1>2. a \in Seq(Line) /\ Len(a) = p - 1 /\ \A i \in 1..(p - 1) : a[i] = c[i]  BY <1>1
<1>3. /\ b \in Seq(Line) /\ Len(b) = Len(c) - p + 1
      /\ \A i \in 1..(Len(c) - p + 1) : b[i] = c[p + i - 1]
  BY <1>1
<1> HIDE DEF a, b
<1>4. (a \o <<l>>) \in Seq(Line) /\ Len(a \o <<l>>) = p
      /\ \A i \in 1..p : (a \o <<l>>)[i] = IF i < p THEN c[i] ELSE l
  BY <1>1, <1>2
<1>5. InsertAt(c, p, l) = (a \o <<l>>) \o b  BY DEF InsertAt, a, b
<1>6. /\ Len(InsertAt(c, p, l)) = Len(c) + 1
      /\ InsertAt(c, p, l) \in Seq(Line)
  BY <1>1, <1>3, <1>4, <1>5
<1>7. ASSUME NEW i \in 1..(Len(c) + 1)
      PROVE  InsertAt(c, p, l)[i] = IF i < p THEN c[i] ELSE IF i = p THEN l ELSE c[i - 1]
  <2>1. CASE i <= p  BY <1>1, <1>3, <1>4, <1>5, <2>1
  <2>2. CASE i > p
    <3>1. InsertAt(c, p, l)[i] = b[i - p]  BY <1>1, <1>3, <1>4, <1>5, <2>2
    <3>2. i - p \in 1..(Len(c) - p + 1)  BY <1>1, <2>2
    <3> QED  BY <1>1, <1>3, <2>2, <3>1, <3>2
  <2> QED  BY <1>1, <2>1, <2>2
<1> QED  BY <1>6, <1>7

LEMMA RemoveAtLines ==
  ASSUME NEW c \in Contents, NEW p \in DOMAIN c
  PROVE  /\ Len(RemoveAt(c, p)) = Len(c) - 1
         /\ DOMAIN RemoveAt(c, p) = 1..(Len(c) - 1)
         /\ \A i \in 1..(Len(c) - 1) : RemoveAt(c, p)[i] = IF i < p THEN c[i] ELSE c[i + 1]
<1>1. c \in Seq(Line) /\ Len(c) \in Nat /\ p \in 1..Len(c)  BY DEF Contents
<1> DEFINE a == SubSeq(c, 1, p - 1)
           b == SubSeq(c, p + 1, Len(c))
<1>2. a \in Seq(Line) /\ Len(a) = p - 1 /\ \A i \in 1..(p - 1) : a[i] = c[i]  BY <1>1
<1>3. /\ b \in Seq(Line) /\ Len(b) = Len(c) - p
      /\ \A i \in 1..(Len(c) - p) : b[i] = c[p + i]
  BY <1>1
<1> HIDE DEF a, b
<1>4. RemoveAt(c, p) = a \o b  BY DEF RemoveAt, a, b
<1>5. RemoveAt(c, p) \in Seq(Line) /\ Len(RemoveAt(c, p)) = Len(c) - 1
  BY <1>1, <1>2, <1>3, <1>4
<1>6. ASSUME NEW i \in 1..(Len(c) - 1)
      PROVE  RemoveAt(c, p)[i] = IF i < p THEN c[i] ELSE c[i + 1]
  <2>1. CASE i < p  BY <1>1, <1>2, <1>3, <1>4, <2>1
  <2>2. CASE i >= p
    <3>0. Len(a) = p - 1 /\ Len(b) = Len(c) - p  BY <1>2, <1>3
    <3>1. i \in 1..(Len(a) + Len(b)) /\ ~(i <= Len(a)) /\ i - Len(a) = i - p + 1
      BY <1>1, <2>2, <3>0
    <3>2. (a \o b)[i] = b[i - Len(a)]  BY <1>2, <1>3, <3>1, ConcatProperties
    <3>3. i - p + 1 \in 1..(Len(c) - p) /\ p + (i - p + 1) = i + 1  BY <1>1, <2>2
    <3>4. b[i - p + 1] = c[i + 1]  BY <1>3, <3>3
    <3>5. ~(i < p)  BY <1>1, <2>2
    <3>6. RemoveAt(c, p)[i] = c[i + 1]  BY <1>4, <3>1, <3>2, <3>4
    <3> QED  BY <3>5, <3>6
  <2> QED  BY <1>1, <2>1, <2>2
<1> QED  BY <1>5, <1>6

\* Taking back what was inserted.
LEMMA RemoveInserted ==
  ASSUME NEW c \in Contents, NEW p \in 1..(Len(c) + 1), NEW l \in Line
  PROVE  RemoveAt(InsertAt(c, p, l), p) = c
<1> DEFINE d == InsertAt(c, p, l)
<1>1. c \in Seq(Line) /\ Len(c) \in Nat  BY DEF Contents
<1>2. d \in Contents  BY InsertAtType
<1>3. /\ Len(d) = Len(c) + 1 /\ DOMAIN d = 1..(Len(c) + 1)
      /\ \A i \in 1..(Len(c) + 1) :
            d[i] = IF i < p THEN c[i] ELSE IF i = p THEN l ELSE c[i - 1]
  BY InsertAtLines
<1> HIDE DEF d
<1>4. /\ Len(RemoveAt(d, p)) = Len(c)
      /\ \A i \in 1..Len(c) : RemoveAt(d, p)[i] = IF i < p THEN d[i] ELSE d[i + 1]
  <2>1. p \in DOMAIN d /\ Len(d) - 1 = Len(c)  BY <1>1, <1>3
  <2> QED  BY <1>2, <2>1, RemoveAtLines
<1>5. RemoveAt(d, p) \in Seq(Line)  BY <1>1, <1>2, <1>3, RemoveAtType DEF Contents
<1>6. ASSUME NEW i \in 1..Len(c)  PROVE RemoveAt(d, p)[i] = c[i]
  <2>1. i \in 1..(Len(c) + 1) /\ i + 1 \in 1..(Len(c) + 1) /\ (i + 1) - 1 = i  BY <1>1
  <2>2. CASE i < p  BY <1>3, <1>4, <2>1, <2>2
  <2>3. CASE ~(i < p)
    <3>1. ~(i + 1 < p) /\ i + 1 # p  BY <1>1, <2>3
    <3> QED  BY <1>3, <1>4, <2>1, <2>3, <3>1
  <2> QED  BY <2>2, <2>3
<1> QED  BY <1>1, <1>4, <1>5, <1>6, SeqEqual DEF d

LEMMA FirstLeast ==
  ASSUME NEW S \in SUBSET Int, IsFiniteSet(S), S # {}
  PROVE  First(S) \in S /\ \A j \in S : First(S) <= j
<1>1. Cardinality(S) \in Nat \ {0}  BY FS_CardinalityType, FS_EmptySet
<1>2. 1 \in 1..Cardinality(S)  BY <1>1
<1>3. First(S) \in S /\ Rank(S, First(S)) = 0  BY <1>2, NthType DEF First
<1>4. ASSUME NEW j \in S  PROVE First(S) <= j
  <2>1. j < First(S) => Rank(S, j) < Rank(S, First(S))  BY <1>3, RankMonotone
  <2>2. Rank(S, j) \in Nat /\ First(S) \in Int /\ j \in Int  BY <1>3, RankType
  <2> QED  BY <1>3, <2>1, <2>2
<1> QED  BY <1>3, <1>4

-----------------------------------------------------------------------------
\* Lines that keep their order in another text.

Embeds(f, c, d) == /\ f \in [DOMAIN c -> DOMAIN d]
                   /\ \A i, j \in DOMAIN c : i < j => f[i] < f[j]

LEMMA EmbeddedCount ==
  ASSUME NEW c \in Contents, NEW d \in Contents, NEW f, Embeds(f, c, d), NEW L,
         \A i \in Spots(c, L) : d[f[i]] = c[i]
  PROVE  Cardinality(Spots(c, L)) <= Cardinality(Spots(d, L))
<1> DEFINE g == [i \in Spots(c, L) |-> f[i]]
<1>1. g \in [Spots(c, L) -> Spots(d, L)]  BY DEF Embeds, Spots
<1>2. ASSUME NEW i \in Spots(c, L), NEW j \in Spots(c, L), g[i] = g[j]  PROVE i = j
  <2>1. i \in DOMAIN c /\ j \in DOMAIN c /\ f[i] = f[j]  BY <1>2 DEF Spots
  <2>2. i \in Int /\ j \in Int /\ f[i] \in Int /\ f[j] \in Int
    BY <2>1 DEF Embeds, Contents
  <2> QED  BY <2>1, <2>2 DEF Embeds
<1> HIDE DEF g
<1> QED  BY <1>1, <1>2, CountFrom

\* The images of a set of lines are as many, and numbered the same way.
LEMMA EmbeddedOrder ==
  ASSUME NEW c \in Contents, NEW d \in Contents, NEW f, Embeds(f, c, d),
         NEW S \in SUBSET DOMAIN c, NEW T \in SUBSET DOMAIN d, T = {f[i] : i \in S}
  PROVE  /\ Cardinality(T) = Cardinality(S)
         /\ \A i \in S : Rank(T, f[i]) = Rank(S, i)
         /\ \A k \in 1..Cardinality(S) : Nth(T, k) = f[Nth(S, k)]
<1>1. S \in SUBSET Int /\ IsFiniteSet(S) /\ T \in SUBSET Int /\ IsFiniteSet(T)
  BY LinesFinite
<1>2. \A i, j \in S : i < j <=> f[i] < f[j]
  <2> SUFFICES ASSUME NEW i \in S, NEW j \in S PROVE i < j <=> f[i] < f[j]  OBVIOUS
  <2>1. i \in Int /\ j \in Int /\ f[i] \in Int /\ f[j] \in Int  BY <1>1
  <2>2. (i < j => f[i] < f[j]) /\ (j < i => f[j] < f[i])  BY DEF Embeds
  <2> QED  BY <2>1, <2>2
<1>3. ASSUME NEW U \in SUBSET S, NEW V \in SUBSET T, V = {f[i] : i \in U}
      PROVE  Cardinality(V) = Cardinality(U)
  <2> DEFINE g == [i \in U |-> f[i]]
  <2>1. g \in [U -> V]  BY <1>3
  <2>2. ASSUME NEW i \in U, NEW j \in U, g[i] = g[j]  PROVE i = j
    <3>1. i \in Int /\ j \in Int /\ f[i] = f[j] /\ f[i] \in Int  BY <1>1, <2>2
    <3> QED  BY <1>2, <3>1
  <2>3. \A v \in V : \E i \in U : g[i] = v  BY <1>3
  <2> HIDE DEF g
  <2>4. g \in Injection(U, V) /\ g \in Surjection(U, V)
    BY <2>1, <2>2, <2>3, Fun_IsInj, Fun_IsSurj
  <2>5. IsFiniteSet(U) /\ IsFiniteSet(V)  BY <1>1, FS_Subset
  <2> QED  BY <2>4, <2>5, FS_Injection
<1>4. Cardinality(T) = Cardinality(S)  BY <1>3
<1>5. ASSUME NEW i \in S  PROVE Rank(T, f[i]) = Rank(S, i)
  <2> DEFINE U == {j \in S : j < i}
             V == {v \in T : v < f[i]}
  <2>1. V = {f[j] : j \in U}  BY <1>2
  <2>2. U \in SUBSET S /\ V \in SUBSET T  OBVIOUS
  <2> HIDE DEF U, V
  <2>3. Cardinality(V) = Cardinality(U)  BY <1>3, <2>1, <2>2
  <2> QED  BY <2>3 DEF Rank, U, V
<1>6. ASSUME NEW k \in 1..Cardinality(S)  PROVE Nth(T, k) = f[Nth(S, k)]
  <2>1. Nth(S, k) \in S /\ Rank(S, Nth(S, k)) = k - 1  BY <1>1, NthType
  <2>2. Nth(T, k) \in T /\ Rank(T, Nth(T, k)) = k - 1  BY <1>1, <1>4, NthType
  <2>3. f[Nth(S, k)] \in T /\ Rank(T, f[Nth(S, k)]) = k - 1  BY <1>5, <2>1
  <2> QED  BY <1>1, <2>2, <2>3, RankInjective
<1> QED  BY <1>4, <1>5, <1>6

\* When nothing but lines that are neither tasks nor fences is added, the parser finds
\* the same tasks in the same order.
LEMMA EmbeddedTasks ==
  ASSUME NEW c \in Contents, NEW d \in Contents, NEW f, Embeds(f, c, d),
         \A i \in DOMAIN c : \A kind \in {"task", "fence"} :
            d[f[i]].kind = kind <=> c[i].kind = kind,
         \A j \in DOMAIN d : d[j].kind \in {"task", "fence"} => \E i \in DOMAIN c : f[i] = j
  PROVE  /\ Cardinality(TaskLines(d)) = Cardinality(TaskLines(c))
         /\ \A k \in 1..Cardinality(TaskLines(c)) : Nth(TaskLines(d), k) = f[Nth(TaskLines(c), k)]
<1>1. f \in [DOMAIN c -> DOMAIN d]  BY DEF Embeds
<1>2. \A i \in DOMAIN c : InFence(d, f[i]) <=> InFence(c, i)
  <2> SUFFICES ASSUME NEW i \in DOMAIN c PROVE InFence(d, f[i]) <=> InFence(c, i)  OBVIOUS
  <2> DEFINE A == {j \in DOMAIN c : j < i /\ c[j].kind = "fence"}
             B == {j \in DOMAIN d : j < f[i] /\ d[j].kind = "fence"}
  <2>1. ASSUME NEW v \in B  PROVE \E j \in A : f[j] = v
    <3>1. PICK j \in DOMAIN c : f[j] = v  OBVIOUS
    <3>2. c[j].kind = "fence"  BY <3>1
    <3>3. i \in Int /\ j \in Int /\ f[i] \in Int /\ f[j] \in Int  BY <1>1 DEF Contents
    <3>4. j < i  BY <3>1, <3>3 DEF Embeds
    <3> QED  BY <3>1, <3>2, <3>4
  <2>2. \A j \in A : f[j] \in B  BY <1>1 DEF Embeds
  <2>3. B = {f[j] : j \in A}  BY <2>1, <2>2
  <2>4. A \in SUBSET DOMAIN c /\ B \in SUBSET DOMAIN d  OBVIOUS
  <2> HIDE DEF A, B
  <2>5. Cardinality(B) = Cardinality(A)  BY <2>3, <2>4, EmbeddedOrder
  <2> QED  BY <2>5 DEF InFence, A, B
<1>3. TaskLines(d) = {f[i] : i \in TaskLines(c)}
  <2>1. ASSUME NEW v \in TaskLines(d)  PROVE \E i \in TaskLines(c) : f[i] = v
    <3>1. PICK i \in DOMAIN c : f[i] = v  BY DEF TaskLines
    <3>2. c[i].kind = "task" /\ ~InFence(c, i)  BY <1>2, <3>1 DEF TaskLines
    <3> QED  BY <3>1, <3>2 DEF TaskLines
  <2>2. ASSUME NEW i \in TaskLines(c)  PROVE f[i] \in TaskLines(d)
    <3>1. i \in DOMAIN c /\ c[i].kind = "task" /\ ~InFence(c, i)  BY DEF TaskLines
    <3>2. f[i] \in DOMAIN d /\ d[f[i]].kind = "task" /\ ~InFence(d, f[i])  BY <1>1, <1>2, <3>1
    <3> QED  BY <3>2 DEF TaskLines
  <2> QED  BY <2>1, <2>2
<1>4. TaskLines(c) \in SUBSET DOMAIN c /\ TaskLines(d) \in SUBSET DOMAIN d
  BY DEF TaskLines
<1> DEFINE S == TaskLines(c)
           T == TaskLines(d)
<1>5. S \in SUBSET DOMAIN c /\ T \in SUBSET DOMAIN d /\ T = {f[i] : i \in S}
  BY <1>3, <1>4
<1> HIDE DEF S, T
<1>6. /\ Cardinality(T) = Cardinality(S)
      /\ \A k \in 1..Cardinality(S) : Nth(T, k) = f[Nth(S, k)]
  BY <1>5, EmbeddedOrder
<1> QED  BY <1>6 DEF S, T

LEMMA NthOfInterval ==
  ASSUME NEW n \in Nat, NEW k \in 1..n
  PROVE  Nth(1..n, k) = k
<1>1. \A m \in Nat : IsFiniteSet(1..m) /\ Cardinality(1..m) = m  BY FS_Interval
<1>2. {j \in 1..n : j < k} = 1..(k - 1)  OBVIOUS
<1>3. Rank(1..n, k) = k - 1
  <2>1. k - 1 \in Nat  OBVIOUS
  <2>2. Cardinality(1..(k - 1)) = k - 1  BY <1>1, <2>1
  <2> QED  BY <1>2, <2>2 DEF Rank
<1>4. 1..n \in SUBSET Int /\ IsFiniteSet(1..n) /\ k \in 1..Cardinality(1..n)  BY <1>1
<1>5. Nth(1..n, k) \in 1..n /\ Rank(1..n, Nth(1..n, k)) = k - 1  BY <1>4, NthType
<1> QED  BY <1>3, <1>4, <1>5, RankInjective

LEMMA TaskSeqIs ==
  ASSUME NEW c \in Contents
  PROVE  /\ TaskSeq(c) \in Contents
         /\ Cardinality(TaskLines(c)) \in Nat
         /\ DOMAIN TaskSeq(c) = 1..Cardinality(TaskLines(c))
         /\ \A k \in DOMAIN TaskSeq(c) : TaskSeq(c)[k] = c[Nth(TaskLines(c), k)]
<1> DEFINE S == TaskLines(c)
           n == Cardinality(S)
           numbers == InOrder(S)
           listed == {k \in DOMAIN numbers : numbers[k] \in DOMAIN c}
<1>1. S \in SUBSET DOMAIN c  BY DEF TaskLines
<1> HIDE DEF S
<1>2. S \in SUBSET Int /\ IsFiniteSet(S)  BY <1>1, LinesFinite
<1>3. n \in Nat  BY <1>2, FS_CardinalityType
<1>4. DOMAIN numbers = 1..n /\ \A k \in 1..n : numbers[k] = Nth(S, k)  BY DEF InOrder
<1>5. numbers \in Seq(Nat)
  <2>1. S \in SUBSET Nat  BY <1>1 DEF Contents
  <2> QED  BY <1>2, <2>1, InOrderType
<1>6. \A k \in 1..n : Nth(S, k) \in S  BY <1>2, NthType
<1> HIDE DEF n, numbers
<1>7. listed = 1..n  BY <1>1, <1>4, <1>6
<1>8. Cardinality(listed) = n
  <2>1. \A m \in Nat : Cardinality(1..m) = m  BY FS_Interval
  <2> QED  BY <1>3, <1>7, <2>1
<1>9. ExtractLines(c, numbers) = [k \in 1..n |-> c[numbers[Nth(1..n, k)]]]
  BY <1>7, <1>8 DEF ExtractLines
<1>10. \A k \in 1..n : numbers[Nth(1..n, k)] = Nth(S, k)  BY <1>3, <1>4, NthOfInterval
<1>11. ExtractLines(c, numbers) \in Contents  BY <1>5, ExtractLinesType
<1> QED  BY <1>3, <1>9, <1>10, <1>11 DEF TaskSeq, S, n, numbers

\* The tasks of a text that keeps those of another one, each perhaps rewritten.
LEMMA EmbeddedTaskSeq ==
  ASSUME NEW c \in Contents, NEW d \in Contents, NEW f, Embeds(f, c, d),
         \A i \in DOMAIN c : \A kind \in {"task", "fence"} :
            d[f[i]].kind = kind <=> c[i].kind = kind,
         \A j \in DOMAIN d : d[j].kind \in {"task", "fence"} => \E i \in DOMAIN c : f[i] = j
  PROVE  /\ DOMAIN TaskSeq(d) = DOMAIN TaskSeq(c)
         /\ \A k \in DOMAIN TaskSeq(c) : /\ Nth(TaskLines(c), k) \in TaskLines(c)
                                         /\ TaskSeq(d)[k] = d[f[Nth(TaskLines(c), k)]]
<1>1. /\ Cardinality(TaskLines(d)) = Cardinality(TaskLines(c))
      /\ \A k \in 1..Cardinality(TaskLines(c)) : Nth(TaskLines(d), k) = f[Nth(TaskLines(c), k)]
  BY EmbeddedTasks
<1>2. TaskLines(c) \in SUBSET DOMAIN c  BY DEF TaskLines
<1>3. TaskLines(c) \in SUBSET Int /\ IsFiniteSet(TaskLines(c))  BY <1>2, LinesFinite
<1>4. \A k \in 1..Cardinality(TaskLines(c)) : Nth(TaskLines(c), k) \in TaskLines(c)
  BY <1>3, NthType
<1> QED  BY <1>1, <1>4, TaskSeqIs

LEMMA SameTaskSeq ==
  ASSUME NEW c \in Contents, NEW d \in Contents, NEW f, Embeds(f, c, d),
         \A i \in DOMAIN c : \A kind \in {"task", "fence"} :
            d[f[i]].kind = kind <=> c[i].kind = kind,
         \A j \in DOMAIN d : d[j].kind \in {"task", "fence"} => \E i \in DOMAIN c : f[i] = j,
         \A i \in TaskLines(c) : d[f[i]] = c[i]
  PROVE  TaskSeq(d) = TaskSeq(c)
<1>1. /\ DOMAIN TaskSeq(d) = DOMAIN TaskSeq(c)
      /\ \A k \in DOMAIN TaskSeq(c) : /\ Nth(TaskLines(c), k) \in TaskLines(c)
                                      /\ TaskSeq(d)[k] = d[f[Nth(TaskLines(c), k)]]
  BY EmbeddedTaskSeq
<1>2. \A k \in DOMAIN TaskSeq(c) : TaskSeq(c)[k] = c[Nth(TaskLines(c), k)]  BY TaskSeqIs
<1>3. \A k \in DOMAIN TaskSeq(c) : TaskSeq(d)[k] = TaskSeq(c)[k]  BY <1>1, <1>2
<1>4. TaskSeq(c) \in Seq(Line) /\ TaskSeq(d) \in Seq(Line)  BY TaskSeqIs DEF Contents
<1>5. Len(TaskSeq(c)) = Len(TaskSeq(d))  BY <1>1, <1>4
<1> QED  BY <1>3, <1>4, <1>5, SeqEqual

-----------------------------------------------------------------------------
\* The place of a new task: no section is above it, and up to the first section below
\* it there are blank lines only.

LEMMA TaskPlaceAbove ==
  ASSUME NEW c \in Contents
  PROVE  /\ \A j \in DOMAIN c : j < TaskPlace(c) => c[j].kind # "section"
         /\ \A j \in DOMAIN c : j >= TaskPlace(c) /\ c[j].kind # "blank" =>
               \E k \in TaskPlace(c)..j : c[k].kind = "section"
<1>1. Len(c) \in Nat /\ DOMAIN c = 1..Len(c)  BY DEF Contents
<1>2. CASE Sections(c) = {}
  BY <1>1, <1>2 DEF TaskPlace, Sections
<1>3. CASE Sections(c) # {}
  <2> DEFINE s == First(Sections(c))
             above == {i \in 1..s : \A j \in i..(s - 1) : c[j].kind = "blank"}
  <2>1. Sections(c) \in SUBSET DOMAIN c  BY DEF Sections
  <2>2. s \in Sections(c) /\ \A j \in Sections(c) : s <= j
    BY <1>3, <2>1, LinesFinite, FirstLeast
  <2> HIDE DEF s
  <2>3. s \in DOMAIN c /\ c[s].kind = "section"  BY <2>2 DEF Sections
  <2>4. s \in above /\ above \in SUBSET DOMAIN c  BY <1>1, <2>3
  <2> DEFINE p == First(above)
  <2>5. p \in above  BY <2>4, LinesFinite, FirstLeast
  <2>6. TaskPlace(c) = p  BY <1>3 DEF TaskPlace, s
  <2>7. p \in 1..s /\ \A j \in p..(s - 1) : c[j].kind = "blank"  BY <2>5
  <2> HIDE DEF p
  <2>8. ASSUME NEW j \in DOMAIN c, j < p  PROVE c[j].kind # "section"
    <3>1. j < s  BY <1>1, <2>3, <2>7, <2>8
    <3> QED  BY <1>1, <2>2, <2>3, <3>1 DEF Sections
  <2>9. ASSUME NEW j \in DOMAIN c, j >= p, c[j].kind # "blank"
        PROVE  \E k \in p..j : c[k].kind = "section"
    <3>1. ~(j \in p..(s - 1))  BY <2>7, <2>9
    <3>2. s \in p..j  BY <1>1, <2>3, <2>7, <2>9, <3>1
    <3> QED  BY <2>3, <3>2
  <2> QED  BY <2>6, <2>8, <2>9
<1> QED  BY <1>2, <1>3

LEMMA WithTaskAdds ==
  ASSUME NEW c \in Contents, NEW l \in Line, l.kind = "task"
  PROVE  \E i \in DOMAIN WithTask(c, l) :
            /\ WithTask(c, l)[i] = l
            /\ \A j \in 1..i : WithTask(c, l)[j].kind # "section"
            /\ RemoveAt(WithTask(c, l), i) = c
<1> DEFINE p == TaskPlace(c)
           d == InsertAt(c, p, l)
<1>1. Len(c) \in Nat /\ DOMAIN c = 1..Len(c)  BY DEF Contents
<1>2. p \in 1..(Len(c) + 1)  BY TaskPlaceType
<1>3. \A j \in DOMAIN c : j < p => c[j].kind # "section"  BY TaskPlaceAbove
<1> HIDE DEF p
<1>4. /\ DOMAIN d = 1..(Len(c) + 1)
      /\ \A i \in 1..(Len(c) + 1) :
            d[i] = IF i < p THEN c[i] ELSE IF i = p THEN l ELSE c[i - 1]
      /\ RemoveAt(d, p) = c
  BY <1>2, InsertAtLines, RemoveInserted
<1> HIDE DEF d
<1>5. p \in DOMAIN d /\ d[p] = l  BY <1>1, <1>2, <1>4
<1>6. ASSUME NEW j \in 1..p  PROVE d[j].kind # "section"
  <2>1. CASE j = p  BY <1>5, <2>1
  <2>2. CASE j < p
    <3>1. j \in DOMAIN c /\ d[j] = c[j]  BY <1>1, <1>2, <1>4, <2>2
    <3> QED  BY <1>3, <2>2, <3>1
  <2> QED  BY <1>2, <2>1, <2>2
<1> QED  BY <1>4, <1>5, <1>6 DEF WithTask, d, p

-----------------------------------------------------------------------------
\* The undo takes the line away, leaves something at the end of the note, or joins it to
\* the line below.
LEMMA UndoneIs ==
  ASSUME NEW c \in Contents, NEW i \in DOMAIN c
  PROVE  LET r == RemoveAt(c, i)
         IN  \/ Undone(c, i) = r
             \/ /\ c[i].kind = "plain" \/ c[i].indent > 0
                /\ \/ i = Len(c) /\ \E l \in {Blank, Remainder} : Undone(c, i) = SetLine(c, i, l)
                   \/ i \in DOMAIN r /\ Undone(c, i) = SetLine(r, i, Remainder)
<1> DEFINE r == RemoveAt(c, i)
<1>1. Len(c) \in Nat /\ i \in 1..Len(c) /\ c[i] \in Line  BY DEF Contents
<1>2. DOMAIN r = 1..(Len(c) - 1)  BY RemoveAtLines
<1>3. c[i].indent \in Nat  BY <1>1 DEF Line
<1>4. i # Len(c) => i \in DOMAIN r  BY <1>1, <1>2
<1> HIDE DEF r
<1> QED  BY <1>3, <1>4 DEF Undone, r

LEMMA UndoneType ==
  ASSUME NEW c \in Contents, NEW i \in DOMAIN c
  PROVE  Undone(c, i) \in Contents
BY RemoveAtType, LeftOvers, SetLineType, UndoneIs

\* What the undo of a quick add leaves, where the line below is none the parser reads: the
\* note without the line, for the parser at least.
LEMMA UndoneTasks ==
  ASSUME NEW c \in Contents, NEW i \in DOMAIN c,
         i + 1 \in DOMAIN c => c[i + 1].kind \notin {"task", "fence"}
  PROVE  \/ Undone(c, i) = RemoveAt(c, i)
         \/ /\ c[i].indent > 0 \/ c[i].kind = "plain"
            /\ TaskSeq(Undone(c, i)) = TaskSeq(RemoveAt(c, i))
<1> DEFINE e == RemoveAt(c, i)
           d == Undone(c, i)
           f == [j \in DOMAIN e |-> j]
<1>1. Len(c) \in Nat /\ DOMAIN c = 1..Len(c)  BY DEF Contents
<1>2. e \in Contents /\ d \in Contents  BY RemoveAtType, UndoneType
<1>3. /\ DOMAIN e = 1..(Len(c) - 1)
      /\ \A j \in DOMAIN e : e[j] = IF j < i THEN c[j] ELSE c[j + 1]
  BY RemoveAtLines
<1>4. SUFFICES ASSUME \/ i = Len(c) /\ \E l \in {Blank, Remainder} : d = SetLine(c, i, l)
                      \/ i \in DOMAIN e /\ d = SetLine(e, i, Remainder)
               PROVE  TaskSeq(d) = TaskSeq(e)
  BY UndoneIs
<1> HIDE DEF d, e
<1>5. ASSUME DOMAIN e \subseteq DOMAIN d,
             \A j \in DOMAIN e : \A kind \in {"task", "fence"} :
                d[j].kind = kind <=> e[j].kind = kind,
             \A j \in DOMAIN d : d[j].kind \in {"task", "fence"} => j \in DOMAIN e,
             \A j \in TaskLines(e) : d[j] = e[j]
      PROVE  TaskSeq(d) = TaskSeq(e)
  <2>1. Embeds(f, e, d)  BY <1>5 DEF Embeds
  <2>2. /\ \A j \in DOMAIN e : f[j] = j
        /\ \A j \in TaskLines(e) : f[j] = j
    BY DEF TaskLines
  <2> HIDE DEF f
  <2>3. /\ \A j \in DOMAIN e : \A kind \in {"task", "fence"} :
             d[f[j]].kind = kind <=> e[j].kind = kind
        /\ \A j \in DOMAIN d : d[j].kind \in {"task", "fence"} => \E k \in DOMAIN e : f[k] = j
        /\ \A j \in TaskLines(e) : d[f[j]] = e[j]
    BY <1>5, <2>2
  <2> QED  BY <1>2, <2>1, <2>3, SameTaskSeq
<1>6. ASSUME NEW l \in {Blank, Remainder}, i = Len(c), d = SetLine(c, i, l)
      PROVE  TaskSeq(d) = TaskSeq(e)
  <2>1. DOMAIN d = DOMAIN c /\ d[i] = l  BY <1>6 DEF SetLine
  <2>2. \A j \in DOMAIN e : j < i /\ j \in DOMAIN c  BY <1>1, <1>3, <1>6
  <2>3. \A j \in DOMAIN e : d[j] = e[j]  BY <1>1, <1>3, <1>6, <2>2 DEF SetLine
  <2>4. \A j \in DOMAIN d : j = i \/ j \in DOMAIN e  BY <1>1, <1>3, <1>6, <2>1
  <2>5. DOMAIN e \subseteq DOMAIN d /\ TaskLines(e) \subseteq DOMAIN e
    BY <2>1, <2>2 DEF TaskLines
  <2>6. d[i].kind \notin {"task", "fence"}  BY <2>1, LeftOvers
  <2> QED  BY <1>5, <2>3, <2>4, <2>5, <2>6
<1>7. CASE i \in DOMAIN e /\ d = SetLine(e, i, Remainder)
  <2>1. /\ DOMAIN d = DOMAIN e /\ d[i] = Remainder
        /\ \A j \in DOMAIN e : j # i => d[j] = e[j]
    BY <1>7 DEF SetLine
  <2>2. e[i].kind \notin {"task", "fence"}
    <3>1. i + 1 \in DOMAIN c /\ e[i] = c[i + 1]  BY <1>1, <1>3, <1>7
    <3> QED  BY <3>1
  <2>3. d[i].kind \notin {"task", "fence"}  BY <2>1, LeftOvers
  <2>4. \A j \in TaskLines(e) : j \in DOMAIN e /\ j # i  BY <2>2 DEF TaskLines
  <2> QED  BY <1>5, <2>1, <2>2, <2>3, <2>4
<1> QED  BY <1>4, <1>6, <1>7

-----------------------------------------------------------------------------
\* Notes on tasks.

\* The lines of a note that taski does not write together with a note on a task.
Foreign(line) == line.kind \in {"task", "fence"} \/ line.text.added # NoDate

LEMMA NewBlockLines ==
  ASSUME NEW c \in Contents, NEW id \in Links, NEW bullet \in Line
  PROVE  LET d == NewBlock(c, id, bullet)
         IN  /\ d \in Contents /\ Len(d) >= Len(c) + 3
             /\ \A j \in DOMAIN c : j \in DOMAIN d /\ d[j] = c[j]
             /\ \A j \in DOMAIN d : j > Len(c) /\ j < Len(d) - 1 =>
                   d[j].kind \in {"blank", "section"} /\ d[j].text.added = NoDate
             /\ d[Len(d) - 1] = Heading(id)
             /\ d[Len(d)] = bullet
<1> DEFINE A == IF HasSection(c) THEN <<>> ELSE <<Blank, Section>>
           B == <<Blank, Heading(id), bullet>>
           d == NewBlock(c, id, bullet)
<1>1. Blank \in Line /\ Section \in Line /\ Heading(id) \in Line
  <2>1. NoDate \in Token /\ NoName \in Names \cup {NoName}  BY DEF Token
  <2> QED  BY <2>1, NewLineTypes
<1>2. /\ Blank.kind = "blank" /\ Section.kind = "section"
      /\ Blank.text.added = NoDate /\ Section.text.added = NoDate
  BY DEF Blank, Section, Marker, Saying
<1>3. A \in Seq(Line) /\ \A j \in 1..Len(A) : /\ A[j].kind \in {"blank", "section"}
                                            /\ A[j].text.added = NoDate
  <2>1. CASE HasSection(c)  BY <2>1
  <2>2. CASE ~HasSection(c)  BY <1>1, <1>2, <2>2
  <2> QED  BY <2>1, <2>2
<1>4. /\ B \in Seq(Line) /\ Len(B) = 3
      /\ B[1] = Blank /\ B[2] = Heading(id) /\ B[3] = bullet
  BY <1>1
<1>5. d = (c \o A) \o B  BY DEF NewBlock
<1> HIDE DEF A, B, d
<1>6. c \in Seq(Line) /\ Len(c) \in Nat /\ DOMAIN c = 1..Len(c) /\ Len(A) \in Nat
  BY <1>3 DEF Contents
<1> DEFINE ca == c \o A
<1>7. /\ ca \in Seq(Line) /\ Len(ca) = Len(c) + Len(A)
      /\ \A j \in 1..Len(c) : ca[j] = c[j]
      /\ \A j \in 1..(Len(c) + Len(A)) : j > Len(c) => ca[j] = A[j - Len(c)]
  BY <1>3, <1>6, ConcatProperties
<1>8. d = ca \o B  BY <1>5
<1> HIDE DEF ca
<1>9. /\ d \in Seq(Line) /\ Len(d) = Len(ca) + 3 /\ DOMAIN d = 1..(Len(ca) + 3)
      /\ \A j \in 1..Len(ca) : d[j] = ca[j]
      /\ \A j \in 1..(Len(ca) + 3) : j > Len(ca) => d[j] = B[j - Len(ca)]
  <2>1. ca \in Seq(Line) /\ B \in Seq(Line)  BY <1>4, <1>7
  <2>2. /\ ca \o B \in Seq(Line) /\ Len(ca \o B) = Len(ca) + Len(B)
        /\ \A j \in 1..(Len(ca) + Len(B)) :
              (ca \o B)[j] = IF j <= Len(ca) THEN ca[j] ELSE B[j - Len(ca)]
    BY <2>1, ConcatProperties
  <2>3. Len(B) = 3 /\ Len(ca) \in Nat  BY <1>4, <1>7
  <2> QED  BY <1>8, <2>2, <2>3
<1>10. d \in Contents /\ Len(d) >= Len(c) + 3  BY <1>6, <1>7, <1>9 DEF Contents
<1>11. \A j \in DOMAIN c : j \in DOMAIN d /\ d[j] = c[j]  BY <1>6, <1>7, <1>9
<1>12. ASSUME NEW j \in DOMAIN d, j > Len(c), j < Len(d) - 1
       PROVE  d[j].kind \in {"blank", "section"} /\ d[j].text.added = NoDate
  <2>1. CASE j <= Len(ca)
    <3>1. d[j] = A[j - Len(c)] /\ j - Len(c) \in 1..Len(A)
      BY <1>6, <1>7, <1>9, <1>12, <2>1
    <3> QED  BY <1>3, <3>1
  <2>2. CASE j > Len(ca)
    <3>1. j = Len(ca) + 1 /\ j - Len(ca) = 1
      <4>1. Len(ca) \in Nat /\ Len(d) = Len(ca) + 3 /\ j \in Nat  BY <1>7, <1>9
      <4> QED  BY <1>12, <2>2, <4>1
    <3>2. d[j] = B[1]  BY <1>9, <2>2, <3>1
    <3> QED  BY <1>2, <1>4, <3>2
  <2> QED  BY <1>6, <1>7, <1>9, <2>1, <2>2
<1>13. d[Len(d) - 1] = Heading(id) /\ d[Len(d)] = bullet
  <2>1. Len(ca) \in Nat  BY <1>7
  <2>2. /\ Len(ca) + 2 \in 1..(Len(ca) + 3) /\ Len(ca) + 2 > Len(ca) /\ (Len(ca) + 2) - Len(ca) = 2
        /\ Len(ca) + 3 \in 1..(Len(ca) + 3) /\ Len(ca) + 3 > Len(ca) /\ (Len(ca) + 3) - Len(ca) = 3
    BY <2>1
  <2>3. d[Len(ca) + 2] = B[2] /\ d[Len(ca) + 3] = B[3]  BY <1>9, <2>2
  <2>4. Len(d) = Len(ca) + 3 /\ Len(d) - 1 = Len(ca) + 2  BY <1>9, <2>1
  <2> QED  BY <1>4, <2>3, <2>4
<1> QED  BY <1>10, <1>11, <1>12, <1>13 DEF d

\* Line b of c is in the block of that id: between its first heading and the next one.
InBlockOf(c, b, id) ==
    \E h \in 1..(b - 1) : /\ Headings(c, id) \cap 1..h = {h}
                          /\ \A j \in (h + 1)..b : c[j].kind \notin {"section", "loose", "heading"}

\* d holds the lines of c in their order, and otherwise none that is foreign.
Keeps(f, c, d) ==
    /\ Embeds(f, c, d)
    /\ \A j \in DOMAIN c : d[f[j]] = c[j]
    /\ \A j \in DOMAIN d : Foreign(d[j]) => \E k \in DOMAIN c : f[k] = j

LEMMA NewBlockFinds ==
  ASSUME NEW c \in Contents, NEW id \in Links, Headings(c, id) = {},
         NEW bullet \in Line, bullet.kind = "bullet", bullet.text.added = NoDate
  PROVE  LET d == NewBlock(c, id, bullet)
         IN  /\ d \in Contents
             /\ \E f : Keeps(f, c, d)
             /\ \E b \in DOMAIN d : d[b] = bullet /\ InBlockOf(d, b, id)
<1> DEFINE d == NewBlock(c, id, bullet)
           f == [j \in DOMAIN c |-> j]
<1>1. /\ d \in Contents /\ Len(d) >= Len(c) + 3
      /\ \A j \in DOMAIN c : j \in DOMAIN d /\ d[j] = c[j]
      /\ \A j \in DOMAIN d : j > Len(c) /\ j < Len(d) - 1 =>
            d[j].kind \in {"blank", "section"} /\ d[j].text.added = NoDate
      /\ d[Len(d) - 1] = Heading(id)
      /\ d[Len(d)] = bullet
  BY NewBlockLines
<1> HIDE DEF d
<1>2. /\ Len(c) \in Nat /\ Len(d) \in Nat
      /\ DOMAIN c = 1..Len(c) /\ DOMAIN d = 1..Len(d)
  BY <1>1 DEF Contents
<1>3. /\ Heading(id).kind = "heading" /\ Heading(id).text.link = id
      /\ Heading(id).text.added = NoDate
  BY DEF Heading, Marker, Saying
<1>4. \A j \in DOMAIN d : \/ j \in DOMAIN c
                          \/ j > Len(c) /\ j < Len(d) - 1
                          \/ j = Len(d) - 1
                          \/ j = Len(d)
  BY <1>1, <1>2
<1>5. \A j \in DOMAIN d : Foreign(d[j]) => j \in DOMAIN c
  BY <1>1, <1>3, <1>4 DEF Foreign
<1>6. Keeps(f, c, d)
  <2>1. f \in [DOMAIN c -> DOMAIN d] /\ \A j \in DOMAIN c : f[j] = j  BY <1>1
  <2> HIDE DEF f
  <2> QED  BY <1>1, <1>5, <2>1 DEF Keeps, Embeds
<1>7. InBlockOf(d, Len(d), id)
  <2> DEFINE h == Len(d) - 1
  <2>0. Len(d) \in Nat  BY <1>2
  <2>1. h \in 1..(Len(d) - 1) /\ h \in DOMAIN d  BY <1>1, <1>2
  <2>2. h \in Headings(d, id)  BY <1>1, <1>3, <2>1 DEF Headings
  <2>3. ASSUME NEW j \in Headings(d, id), j \in 1..h  PROVE j = h
    <3>1. j \in DOMAIN d /\ d[j].kind = "heading" /\ d[j].text.link = id  BY DEF Headings
    <3>2. j \notin DOMAIN c
      <4>1. j \in DOMAIN c => j \in Headings(c, id)  BY <1>1, <3>1 DEF Headings
      <4> QED  BY <4>1
    <3>3. j # Len(d)  BY <2>0, <2>3
    <3> QED  BY <1>1, <1>4, <3>1, <3>2, <3>3
  <2>4. Headings(d, id) \cap 1..h = {h}
    <3>1. h \in 1..h  BY <2>1
    <3> QED  BY <2>2, <2>3, <3>1
  <2>5. \A j \in (h + 1)..Len(d) : d[j].kind \notin {"section", "loose", "heading"}
    <3>1. \A j \in (h + 1)..Len(d) : j = Len(d)  BY <2>0
    <3> QED  BY <1>1, <3>1
  <2> QED  BY <2>1, <2>4, <2>5 DEF InBlockOf
<1>8. Len(d) \in DOMAIN d /\ d[Len(d)] = bullet  BY <1>1, <1>2
<1> QED  BY <1>1, <1>6, <1>7, <1>8 DEF d

LEMMA BlockEndLines ==
  ASSUME NEW c \in Contents, NEW id \in Links, Headings(c, id) # {}
  PROVE  LET h == First(Headings(c, id))
         IN  /\ h \in Headings(c, id) /\ \A j \in Headings(c, id) : h <= j
             /\ BlockEnd(c, id) \in 1..(Len(c) + 1) /\ h < BlockEnd(c, id)
             /\ \A j \in DOMAIN c : j > h /\ j < BlockEnd(c, id) =>
                   c[j].kind \notin {"section", "loose", "heading"}
<1> DEFINE h == First(Headings(c, id))
           next == {j \in DOMAIN c : j > h /\ c[j].kind \in {"section", "loose", "heading"}}
           e == BlockEnd(c, id)
<1>1. Len(c) \in Nat /\ DOMAIN c = 1..Len(c)  BY DEF Contents
<1>2. Headings(c, id) \in SUBSET DOMAIN c  BY DEF Headings
<1>3. h \in Headings(c, id) /\ \A j \in Headings(c, id) : h <= j
  BY <1>2, LinesFinite, FirstLeast
<1>4. next \in SUBSET DOMAIN c  OBVIOUS
<1>5. e = IF next = {} THEN Len(c) + 1 ELSE First(next)  BY DEF BlockEnd
<1>6. h \in DOMAIN c  BY <1>2, <1>3
<1> HIDE DEF h, e
<1>7. /\ e \in 1..(Len(c) + 1) /\ h < e
      /\ \A j \in DOMAIN c : j > h /\ j < e => c[j].kind \notin {"section", "loose", "heading"}
  <2>1. CASE next = {}
    <3>1. e = Len(c) + 1  BY <1>5, <2>1
    <3> QED  BY <1>1, <1>6, <2>1, <3>1
  <2>2. CASE next # {}
    <3>1. e \in next /\ \A j \in next : e <= j  BY <1>4, <1>5, <2>2, LinesFinite, FirstLeast
    <3>2. e \in DOMAIN c /\ e > h  BY <3>1
    <3>3. \A j \in DOMAIN c : j < e => j \notin next  BY <1>1, <3>1, <3>2
    <3> QED  BY <1>1, <1>6, <3>2, <3>3
  <2> QED  BY <2>1, <2>2
<1> QED  BY <1>3, <1>7 DEF h, e

LEMMA InBlockFinds ==
  ASSUME NEW c \in Contents, NEW id \in Links, NEW bullet \in Line, bullet.kind = "bullet", bullet.text.added = NoDate
  PROVE  LET d == InBlock(c, id, bullet)
         IN  /\ d \in Contents
             /\ \E f : Keeps(f, c, d)
             /\ \E b \in DOMAIN d : d[b] = bullet /\ InBlockOf(d, b, id)
<1>1. CASE Headings(c, id) = {}
  BY <1>1, NewBlockFinds DEF InBlock
<1>2. CASE Headings(c, id) # {}
  <2> DEFINE h == First(Headings(c, id))
             e == BlockEnd(c, id)
             d == InsertAt(c, e, bullet)
             f == [j \in DOMAIN c |-> IF j < e THEN j ELSE j + 1]
  <2>1. Len(c) \in Nat /\ DOMAIN c = 1..Len(c)  BY DEF Contents
  <2>2. /\ h \in Headings(c, id) /\ \A j \in Headings(c, id) : h <= j
        /\ e \in 1..(Len(c) + 1) /\ h < e
        /\ \A j \in DOMAIN c : j > h /\ j < e => c[j].kind \notin {"section", "loose", "heading"}
    BY <1>2, BlockEndLines
  <2> HIDE DEF h, e
  <2>3. h \in DOMAIN c /\ c[h].kind = "heading" /\ c[h].text.link = id  BY <2>2 DEF Headings
  <2>4. /\ d \in Contents /\ DOMAIN d = 1..(Len(c) + 1)
        /\ \A j \in 1..(Len(c) + 1) :
              d[j] = IF j < e THEN c[j] ELSE IF j = e THEN bullet ELSE c[j - 1]
    BY <2>2, InsertAtType, InsertAtLines
  <2> HIDE DEF d
  <2>5. Keeps(f, c, d)
    <3>1. \A j \in DOMAIN c : f[j] = IF j < e THEN j ELSE j + 1  OBVIOUS
    <3>2. \A j \in DOMAIN c : f[j] \in DOMAIN d  BY <2>1, <2>4
    <3>3. f \in [DOMAIN c -> DOMAIN d]  BY <3>2
    <3> HIDE DEF f
    <3>4. \A j, k \in DOMAIN c : j < k => f[j] < f[k]  BY <2>1, <2>2, <3>1
    <3>5. ASSUME NEW j \in DOMAIN c  PROVE d[f[j]] = c[j]
      <4>1. CASE j < e  BY <2>1, <2>4, <3>1, <4>1
      <4>2. CASE ~(j < e)
        <5>1. f[j] = j + 1 /\ ~(j + 1 < e) /\ j + 1 # e /\ (j + 1) - 1 = j
          BY <2>1, <2>2, <3>1, <4>2
        <5> QED  BY <2>4, <3>2, <5>1
      <4> QED  BY <4>1, <4>2
    <3>6. ASSUME NEW j \in DOMAIN d, Foreign(d[j])
          PROVE  \E k \in DOMAIN c : f[k] = j
      <4>1. j # e  BY <2>4, <3>6 DEF Foreign
      <4>2. CASE j < e
        <5>1. j \in DOMAIN c  BY <2>1, <2>2, <2>4, <4>2
        <5> QED  BY <3>1, <4>2, <5>1
      <4>3. CASE j > e
        <5>1. j - 1 \in DOMAIN c /\ ~(j - 1 < e) /\ (j - 1) + 1 = j  BY <2>1, <2>2, <2>4, <4>3
        <5> QED  BY <3>1, <5>1
      <4> QED  BY <2>1, <2>2, <2>4, <4>1, <4>2, <4>3
    <3> QED  BY <3>3, <3>4, <3>5, <3>6 DEF Keeps, Embeds
  <2>6. e \in DOMAIN d /\ d[e] = bullet  BY <2>1, <2>2, <2>4
  <2>7. InBlockOf(d, e, id)
    <3>1. h \in 1..(e - 1)  BY <2>1, <2>2, <2>3
    <3>2. \A j \in 1..h : j \in DOMAIN c /\ d[j] = c[j]  BY <2>1, <2>2, <2>3, <2>4
    <3>3. h \in Headings(d, id)
      <4>1. h \in DOMAIN d /\ h \in 1..h  BY <2>1, <2>3, <2>4
      <4> QED  BY <2>3, <3>2, <4>1 DEF Headings
    <3>4. ASSUME NEW j \in 1..h, j \in Headings(d, id)  PROVE j = h
      <4>1. j \in Headings(c, id)  BY <3>2, <3>4 DEF Headings
      <4> QED  BY <2>1, <2>2, <2>3, <4>1
    <3>5. Headings(d, id) \cap 1..h = {h}
      <4>1. h \in 1..h  BY <2>1, <2>3
      <4> QED  BY <3>3, <3>4, <4>1
    <3>6. ASSUME NEW j \in (h + 1)..e  PROVE d[j].kind \notin {"section", "loose", "heading"}
      <4>1. CASE j = e  BY <2>6, <4>1
      <4>2. CASE j # e
        <5>1. j \in DOMAIN c /\ j > h /\ j < e /\ d[j] = c[j]  BY <2>1, <2>2, <2>3, <2>4, <4>2
        <5> QED  BY <2>2, <5>1
      <4> QED  BY <4>1, <4>2
    <3> QED  BY <3>1, <3>5, <3>6 DEF InBlockOf
  <2>8. d = InBlock(c, id, bullet)  BY <1>2 DEF InBlock, d, e
  <2> QED  BY <2>4, <2>5, <2>6, <2>7, <2>8
<1> QED  BY <1>1, <1>2

LEMMA NotedLines ==
  ASSUME NEW c \in Contents, NEW i \in DOMAIN c, c[i].kind = "task", NEW id \in Links,
         NEW bullet \in Line, bullet.kind = "bullet", bullet.text.added = NoDate,
         c[i].text.link = id \/ Headings(c, id) = {}
  PROVE  LET d == Noted(c, i, id, bullet)
         IN  /\ d \in Contents
             /\ \E f : /\ Embeds(f, c, d)
                       /\ \A j \in DOMAIN c : d[f[j]] = IF j = i THEN Linked(c[i], id) ELSE c[j]
                       /\ \A j \in DOMAIN d : Foreign(d[j]) => \E k \in DOMAIN c : f[k] = j
             /\ \E b \in DOMAIN d : d[b] = bullet /\ InBlockOf(d, b, id)
<1> DEFINE d == Noted(c, i, id, bullet)
           line == Linked(c[i], id)
<1>1. c[i] \in Line  BY DEF Contents
<1>2. line \in Line /\ line.kind = "task"  BY <1>1 DEF Linked, Line, Text
<1>3. CASE c[i].text.link = id
  <2>1. d = InBlock(c, id, bullet)  BY <1>3 DEF Noted
  <2>2. line = c[i]  BY <1>1, <1>3 DEF Linked, Line, Text
  <2> HIDE DEF d, line
  <2>3. /\ d \in Contents
        /\ \E f : Keeps(f, c, d)
        /\ \E b \in DOMAIN d : d[b] = bullet /\ InBlockOf(d, b, id)
    BY <2>1, InBlockFinds
  <2> QED  BY <2>2, <2>3 DEF Keeps, d, line
<1>4. CASE c[i].text.link # id
  <2> DEFINE e == SetLine(c, i, line)
  <2>1. d = NewBlock(e, id, bullet)  BY <1>4 DEF Noted
  <2>2. e \in Contents  BY <1>2, SetLineType
  <2>3. DOMAIN e = DOMAIN c /\ \A j \in DOMAIN c : e[j] = IF j = i THEN line ELSE c[j]
    BY DEF SetLine, Contents
  <2> HIDE DEF d, e
  <2>4. Headings(e, id) = {}
    <3>1. Headings(c, id) = {}  BY <1>4
    <3>2. \A j \in DOMAIN e : e[j].kind = "heading" => j # i  BY <1>2, <2>3
    <3> HIDE DEF line
    <3> QED  BY <2>3, <3>1, <3>2 DEF Headings
  <2>5. /\ d \in Contents
        /\ \E f : Keeps(f, e, d)
        /\ \E b \in DOMAIN d : d[b] = bullet /\ InBlockOf(d, b, id)
    BY <2>1, <2>2, <2>4, NewBlockFinds
  <2>6. PICK f : Keeps(f, e, d)  BY <2>5
  <2> HIDE DEF line
  <2>7. /\ Embeds(f, c, d)
        /\ \A j \in DOMAIN c : d[f[j]] = IF j = i THEN line ELSE c[j]
        /\ \A j \in DOMAIN d : Foreign(d[j]) => \E k \in DOMAIN c : f[k] = j
    BY <2>3, <2>6 DEF Keeps, Embeds
  <2> QED  BY <2>5, <2>7 DEF d, line
<1> QED  BY <1>3, <1>4

\* The parser finds the tasks it found, the one the note is on with its link; the note
\* is in the block of the link; and no other line is lost.
LEMMA NotedTasks ==
  ASSUME NEW c \in Contents, NEW i \in TaskLines(c), NEW id \in Links,
         NEW bullet \in Line, bullet.kind = "bullet", bullet.text.added = NoDate,
         c[i].text.link = id \/ Headings(c, id) = {}
  PROVE  LET d == Noted(c, i, id, bullet)
         IN  /\ d \in Contents
             /\ \E k \in DOMAIN TaskSeq(c) :
                   /\ TaskSeq(c)[k] = c[i]
                   /\ TaskSeq(d) = [TaskSeq(c) EXCEPT ![k].text.link = id]
             /\ \E b \in DOMAIN d : d[b] = bullet /\ InBlockOf(d, b, id)
             /\ \A L : c[i] \notin L => Cardinality(Spots(c, L)) <= Cardinality(Spots(d, L))
<1> DEFINE d == Noted(c, i, id, bullet)
           S == TaskLines(c)
<1>1. i \in DOMAIN c /\ c[i].kind = "task" /\ S \in SUBSET DOMAIN c  BY DEF TaskLines
<1>2. /\ d \in Contents
      /\ \E f : /\ Embeds(f, c, d)
                /\ \A j \in DOMAIN c : d[f[j]] = IF j = i THEN Linked(c[i], id) ELSE c[j]
                /\ \A j \in DOMAIN d : Foreign(d[j]) => \E k \in DOMAIN c : f[k] = j
      /\ \E b \in DOMAIN d : d[b] = bullet /\ InBlockOf(d, b, id)
  BY <1>1, NotedLines
<1> HIDE DEF d
<1>3. PICK f : /\ Embeds(f, c, d)
               /\ \A j \in DOMAIN c : d[f[j]] = IF j = i THEN Linked(c[i], id) ELSE c[j]
               /\ \A j \in DOMAIN d : Foreign(d[j]) => \E k \in DOMAIN c : f[k] = j
  BY <1>2
<1>4. c[i] \in Line /\ Linked(c[i], id).kind = c[i].kind
  <2>1. c[i] \in Line  BY <1>1 DEF Contents
  <2> QED  BY <2>1 DEF Linked, Line
<1>5. \A j \in DOMAIN c : \A kind \in {"task", "fence"} : d[f[j]].kind = kind <=> c[j].kind = kind
  BY <1>3, <1>4
<1>6. /\ DOMAIN TaskSeq(d) = DOMAIN TaskSeq(c)
      /\ \A k \in DOMAIN TaskSeq(c) : /\ Nth(S, k) \in S
                                      /\ TaskSeq(d)[k] = d[f[Nth(S, k)]]
  <2>1. \A j \in DOMAIN d : d[j].kind \in {"task", "fence"} => \E k \in DOMAIN c : f[k] = j
    BY <1>3 DEF Foreign
  <2> QED  BY <1>2, <1>3, <1>5, <2>1, EmbeddedTaskSeq
<1>7. /\ TaskSeq(c) \in Contents /\ TaskSeq(d) \in Contents
      /\ DOMAIN TaskSeq(c) = 1..Cardinality(S)
      /\ \A k \in DOMAIN TaskSeq(c) : TaskSeq(c)[k] = c[Nth(S, k)]
  BY <1>2, TaskSeqIs
<1>8. S \in SUBSET Int /\ IsFiniteSet(S) /\ i \in S  BY <1>1, LinesFinite
<1> DEFINE m == Rank(S, i) + 1
<1>9. m \in DOMAIN TaskSeq(c) /\ Nth(S, m) = i  BY <1>7, <1>8, NthOrder
<1>10. \A k \in DOMAIN TaskSeq(c) : Nth(S, k) = i => k = m
  BY <1>7, <1>8, <1>9, NthOrder
<1> HIDE DEF S, m
<1>11. TaskSeq(c)[m] = c[i]  BY <1>7, <1>9
<1>12. TaskSeq(d) = [TaskSeq(c) EXCEPT ![m].text.link = id]
  <2> DEFINE s == [TaskSeq(c) EXCEPT ![m].text.link = id]
  <2>1. DOMAIN s = DOMAIN TaskSeq(c) /\ s[m] = Linked(c[i], id)
    BY <1>9, <1>11 DEF Linked
  <2>2. \A k \in DOMAIN TaskSeq(c) : k # m => s[k] = TaskSeq(c)[k]
    BY <1>7 DEF Contents
  <2>3. s \in Seq(Line)
    <3>1. Linked(c[i], id) \in Line  BY <1>4 DEF Linked, Line, Text
    <3>2. s = SetLine(TaskSeq(c), m, Linked(c[i], id))  BY <1>11 DEF Linked, SetLine
    <3>3. SetLine(TaskSeq(c), m, Linked(c[i], id)) \in Contents
      BY <1>7, <1>9, <3>1, SetLineType
    <3> QED  BY <3>2, <3>3 DEF Contents
  <2> HIDE DEF s
  <2>4. \A k \in DOMAIN TaskSeq(c) : TaskSeq(d)[k] = s[k]
    <3> SUFFICES ASSUME NEW k \in DOMAIN TaskSeq(c) PROVE TaskSeq(d)[k] = s[k]  OBVIOUS
    <3>1. Nth(S, k) \in DOMAIN c /\ TaskSeq(d)[k] = d[f[Nth(S, k)]]
      BY <1>1, <1>6 DEF S
    <3>2. CASE k = m  BY <1>3, <1>9, <2>1, <3>1, <3>2
    <3>3. CASE k # m
      <4>1. Nth(S, k) # i  BY <1>10, <3>3
      <4>2. TaskSeq(d)[k] = c[Nth(S, k)]  BY <1>3, <3>1, <4>1
      <4> QED  BY <1>7, <2>2, <3>3, <4>2
    <3> QED  BY <3>2, <3>3
  <2>5. TaskSeq(d) \in Seq(Line) /\ Len(TaskSeq(d)) = Len(s)
    BY <1>6, <1>7, <2>1, <2>3 DEF Contents
  <2>6. TaskSeq(d) = s
    <3>1. \A k \in 1..Len(TaskSeq(d)) : TaskSeq(d)[k] = s[k]
      BY <1>6, <2>4, <2>5
    <3> QED  BY <2>3, <2>5, <3>1, SeqEqual
  <2> QED  BY <2>6 DEF s
<1>13. ASSUME NEW L, c[i] \notin L  PROVE Cardinality(Spots(c, L)) <= Cardinality(Spots(d, L))
  <2>1. \A j \in Spots(c, L) : d[f[j]] = c[j]  BY <1>3, <1>13 DEF Spots
  <2> QED  BY <1>2, <1>3, <2>1, EmbeddedCount
<1> QED  BY <1>2, <1>9, <1>11, <1>12, <1>13 DEF d

\* Nor is any line added that says it was added on a day.
LEMMA NotedCount ==
  ASSUME NEW c \in Contents, NEW i \in TaskLines(c), NEW id \in Links,
         NEW bullet \in Line, bullet.kind = "bullet", bullet.text.added = NoDate,
         c[i].text.link = id \/ Headings(c, id) = {},
         NEW L, \A l \in L : l.text.added # NoDate, Linked(c[i], id) \in L => c[i] \in L
  PROVE  Cardinality(Spots(Noted(c, i, id, bullet), L)) <= Cardinality(Spots(c, L))
<1> DEFINE d == Noted(c, i, id, bullet)
<1>1. i \in DOMAIN c /\ c[i].kind = "task"  BY DEF TaskLines
<1>2. /\ d \in Contents
      /\ \E f : /\ Embeds(f, c, d)
                /\ \A j \in DOMAIN c : d[f[j]] = IF j = i THEN Linked(c[i], id) ELSE c[j]
                /\ \A j \in DOMAIN d : Foreign(d[j]) => \E k \in DOMAIN c : f[k] = j
      /\ \E b \in DOMAIN d : d[b] = bullet /\ InBlockOf(d, b, id)
  BY <1>1, NotedLines
<1> HIDE DEF d
<1>3. PICK f : /\ \A j \in DOMAIN c : d[f[j]] = IF j = i THEN Linked(c[i], id) ELSE c[j]
               /\ \A j \in DOMAIN d : Foreign(d[j]) => \E k \in DOMAIN c : f[k] = j
  BY <1>2
<1>4. ASSUME NEW j \in Spots(d, L)  PROVE \E k \in Spots(c, L) : f[k] = j
  <2>1. j \in DOMAIN d /\ d[j] \in L  BY DEF Spots
  <2>2. PICK k \in DOMAIN c : f[k] = j  BY <1>3, <2>1 DEF Foreign
  <2>3. c[k] \in L  BY <1>3, <2>1, <2>2
  <2> QED  BY <2>2, <2>3 DEF Spots
<1> DEFINE g == [j \in Spots(d, L) |-> CHOOSE k \in Spots(c, L) : f[k] = j]
<1>5. \A j \in Spots(d, L) : g[j] \in Spots(c, L) /\ f[g[j]] = j  BY <1>4
<1>6. g \in [Spots(d, L) -> Spots(c, L)]  BY <1>5
<1> HIDE DEF g
<1>7. \A j, k \in Spots(d, L) : g[j] = g[k] => j = k  BY <1>5
<1>8. Cardinality(Spots(d, L)) <= Cardinality(Spots(c, L))  BY <1>2, <1>6, <1>7, CountFrom
<1> QED  BY <1>8 DEF d

-----------------------------------------------------------------------------
\* How often what was captured on a day is in a note.

\* The lines that say a name was added that day.
AddedLines(name, day) == {l \in Line : l.text.name = name /\ l.text.added = day}

LEMMA RemoveAtCount ==
  ASSUME NEW c \in Contents, NEW p \in DOMAIN c, NEW L
  PROVE  LET r == RemoveAt(c, p)
         IN  /\ Cardinality(Spots(r, L)) <= Cardinality(Spots(c, L))
             /\ Cardinality(Spots(c, L)) <= Cardinality(Spots(r, L)) + 1
             /\ c[p] \notin L => Cardinality(Spots(c, L)) <= Cardinality(Spots(r, L))
<1> DEFINE r == RemoveAt(c, p)
           T == Spots(c, L) \ {p}
           up   == [j \in Spots(r, L) |-> IF j < p THEN j ELSE j + 1]
           down == [j \in T |-> IF j < p THEN j ELSE j - 1]
<1>1. Len(c) \in Nat /\ DOMAIN c = 1..Len(c) /\ p \in 1..Len(c)  BY DEF Contents
<1>2. /\ r \in Contents /\ DOMAIN r = 1..(Len(c) - 1)
      /\ \A i \in 1..(Len(c) - 1) : r[i] = IF i < p THEN c[i] ELSE c[i + 1]
  BY RemoveAtType, RemoveAtLines
<1> HIDE DEF r
<1>3. /\ Spots(c, L) \in SUBSET DOMAIN c /\ IsFiniteSet(Spots(c, L))
      /\ Cardinality(Spots(c, L)) \in Nat
      /\ Spots(r, L) \in SUBSET DOMAIN r /\ IsFiniteSet(Spots(r, L))
      /\ Cardinality(Spots(r, L)) \in Nat
  BY <1>2, SpotsFinite
<1>4. Cardinality(Spots(r, L)) <= Cardinality(Spots(c, L))
  <2>1. ASSUME NEW j \in Spots(r, L)  PROVE up[j] \in Spots(c, L)
    <3>1. j \in 1..(Len(c) - 1) /\ r[j] \in L  BY <1>2 DEF Spots
    <3>2. /\ j < p => j \in DOMAIN c /\ c[j] \in L
          /\ ~(j < p) => j + 1 \in DOMAIN c /\ c[j + 1] \in L
      BY <1>1, <1>2, <3>1
    <3> QED  BY <3>2 DEF Spots
  <2>2. up \in [Spots(r, L) -> Spots(c, L)]  BY <2>1
  <2>3. ASSUME NEW i \in Spots(r, L), NEW j \in Spots(r, L), up[i] = up[j]  PROVE i = j
    <3>1. i \in Nat /\ j \in Nat  BY <1>2, <1>3, <1>1
    <3> QED  BY <1>1, <2>3, <3>1
  <2> HIDE DEF up
  <2> QED  BY <1>2, <2>2, <2>3, CountFrom
<1>5. Cardinality(T) <= Cardinality(Spots(r, L))
  <2>1. ASSUME NEW j \in T  PROVE down[j] \in Spots(r, L)
    <3>1. j \in 1..Len(c) /\ j # p /\ c[j] \in L  BY <1>1 DEF Spots
    <3>2. CASE j < p
      <4>1. j \in DOMAIN r /\ r[j] \in L  BY <1>1, <1>2, <3>1, <3>2
      <4> QED  BY <3>2, <4>1 DEF Spots
    <3>3. CASE ~(j < p)
      <4>1. j - 1 \in DOMAIN r /\ ~(j - 1 < p) /\ (j - 1) + 1 = j
        BY <1>1, <1>2, <3>1, <3>3
      <4>2. r[j - 1] = c[j]  BY <1>2, <4>1
      <4> QED  BY <3>1, <3>3, <4>1, <4>2 DEF Spots
    <3> QED  BY <3>2, <3>3
  <2>2. down \in [T -> Spots(r, L)]  BY <2>1
  <2>3. ASSUME NEW i \in T, NEW j \in T, down[i] = down[j]  PROVE i = j
    <3>1. i \in Nat /\ j \in Nat /\ i # p /\ j # p /\ p \in Nat  BY <1>1, <1>3
    <3>2. (IF i < p THEN i ELSE i - 1) = (IF j < p THEN j ELSE j - 1)  BY <2>3
    <3> HIDE DEF down, T
    <3> QED  BY <3>1, <3>2
  <2> HIDE DEF down, T
  <2>4. down \in Injection(T, Spots(r, L))  BY <2>2, <2>3, Fun_IsInj
  <2> QED  BY <1>3, <2>4, FS_Injection
<1>6. Cardinality(T) = IF p \in Spots(c, L) THEN Cardinality(Spots(c, L)) - 1
                                            ELSE Cardinality(Spots(c, L))
  BY <1>3, FS_RemoveElement
<1>7. p \in Spots(c, L) <=> c[p] \in L  BY DEF Spots
<1> HIDE DEF T
<1> QED  BY <1>3, <1>4, <1>5, <1>6, <1>7 DEF r

LEMMA SetLineCount ==
  ASSUME NEW c \in Contents, NEW i \in DOMAIN c, NEW l \in Line, NEW L, l \in L => c[i] \in L
  PROVE  Cardinality(Spots(SetLine(c, i, l), L)) <= Cardinality(Spots(c, L))
<1>1. SetLine(c, i, l) \in Contents  BY SetLineType
<1>2. Spots(SetLine(c, i, l), L) \in SUBSET Spots(c, L)  BY DEF Spots, SetLine
<1> QED  BY <1>2, SpotsFinite, FS_Subset

\* The undo of a quick add adds nothing.
LEMMA UndoneCount ==
  ASSUME NEW c \in Contents, NEW i \in DOMAIN c, NEW name, NEW day, day # NoDate
  PROVE  LET L == AddedLines(name, day)
         IN  Cardinality(Spots(Undone(c, i), L)) <= Cardinality(Spots(c, L))
<1> DEFINE L == AddedLines(name, day)
           r == RemoveAt(c, i)
<1>1. r \in Contents /\ Cardinality(Spots(r, L)) <= Cardinality(Spots(c, L))
  BY RemoveAtType, RemoveAtCount
<1>2. Cardinality(Spots(c, L)) \in Nat /\ Cardinality(Spots(r, L)) \in Nat
  BY <1>1, SpotsFinite
<1>3. ASSUME NEW d \in Contents, NEW j \in DOMAIN d, NEW l \in {Blank, Remainder}
      PROVE  Cardinality(Spots(SetLine(d, j, l), L)) <= Cardinality(Spots(d, L))
  <2>1. l \in Line /\ l \notin L  BY LeftOvers DEF AddedLines
  <2> QED  BY <2>1, SetLineCount
<1>4. ASSUME NEW d \in Contents, NEW j \in DOMAIN d, NEW l \in {Blank, Remainder}
      PROVE  Cardinality(Spots(SetLine(d, j, l), L)) \in Nat
  <2>1. SetLine(d, j, l) \in Contents  BY LeftOvers, SetLineType
  <2> QED  BY <2>1, SpotsFinite
<1> SUFFICES Cardinality(Spots(Undone(c, i), L)) <= Cardinality(Spots(c, L))  OBVIOUS
<1> HIDE DEF r, L
<1>5. CASE Undone(c, i) = r  BY <1>1, <1>5
<1>6. CASE \E l \in {Blank, Remainder} : Undone(c, i) = SetLine(c, i, l)  BY <1>3, <1>6
<1>7. CASE i \in DOMAIN r /\ Undone(c, i) = SetLine(r, i, Remainder)
  <2>1. Cardinality(Spots(Undone(c, i), L)) <= Cardinality(Spots(r, L))  BY <1>1, <1>3, <1>7
  <2>2. Cardinality(Spots(Undone(c, i), L)) \in Nat  BY <1>1, <1>4, <1>7
  <2> QED  BY <1>1, <1>2, <2>1, <2>2
<1> QED  BY <1>5, <1>6, <1>7, UndoneIs DEF r

-----------------------------------------------------------------------------
\* The index and requests.

\* The rows and the contents the lemmas below are about.
Table(rows, next, n, c) ==
    /\ rows \in SUBSET Row /\ IsFiniteSet(rows) /\ next \in Nat \ {0}
    /\ n \in Notes /\ c \in Contents

LEMMA InsertedType ==
  ASSUME NEW rows, NEW next, NEW n, NEW c, Table(rows, next, n, c)
  PROVE  /\ Inserted(rows, n, c) \in SUBSET IndexedLines(c)
         /\ Inserted(rows, n, c) \in SUBSET Int
         /\ IsFiniteSet(Inserted(rows, n, c))
         /\ Cardinality(Inserted(rows, n, c)) \in Nat
<1>1. Inserted(rows, n, c) \in SUBSET IndexedLines(c)  BY DEF Inserted
<1>2. c \in Contents  BY DEF Table
<1>3. IndexedLines(c) \in SUBSET Int /\ IsFiniteSet(IndexedLines(c))
  BY <1>2, IndexedLinesType
<1>4. IsFiniteSet(Inserted(rows, n, c))  BY <1>1, <1>3, FS_Subset
<1> QED  BY <1>1, <1>3, <1>4, FS_CardinalityType

\* An id is either fresh, from the AUTOINCREMENT, or that of the matched row.
LEMMA IdAtCases ==
  ASSUME NEW rows, NEW next, NEW n, NEW c, Table(rows, next, n, c),
         NEW i \in IndexedLines(c)
  PROVE  \/ /\ i \in Inserted(rows, n, c)
            /\ IdAt(rows, next, n, c, i) = next + Rank(Inserted(rows, n, c), i)
            /\ Rank(Inserted(rows, n, c), i) \in Nat
            /\ Rank(Inserted(rows, n, c), i) < Cardinality(Inserted(rows, n, c))
         \/ /\ i \notin Inserted(rows, n, c)
            /\ \E r \in Match(rows, n, c, i) : IdAt(rows, next, n, c, i) = r.id
<1>1. CASE i \in Inserted(rows, n, c)
  <2>1. /\ Rank(Inserted(rows, n, c), i) \in Nat
        /\ Rank(Inserted(rows, n, c), i) < Cardinality(Inserted(rows, n, c))
    BY <1>1, InsertedType, RankType, RankBound
  <2> QED  BY <1>1, <2>1 DEF IdAt
<1>2. CASE i \notin Inserted(rows, n, c)
  <2>1. Match(rows, n, c, i) # {}  BY <1>2 DEF Inserted
  <2>2. (CHOOSE r \in Match(rows, n, c, i) : TRUE) \in Match(rows, n, c, i)  BY <2>1
  <2> QED  BY <1>2, <2>2 DEF IdAt
<1> QED  BY <1>1, <1>2

LEMMA IdAtType ==
  ASSUME NEW rows, NEW next, NEW n, NEW c, Table(rows, next, n, c),
         NEW i \in IndexedLines(c)
  PROVE  IdAt(rows, next, n, c, i) \in Nat \ {0}
<1>1. next \in Nat \ {0} /\ \A r \in rows : r.id \in Nat \ {0}  BY DEF Table, Row
<1>2. Match(rows, n, c, i) \in SUBSET rows  BY DEF Match, RowsOf
<1> QED  BY <1>1, <1>2, IdAtCases

\* reconcile_note leaves well typed rows and a counter that never goes back.
LEMMA ReconciledType ==
  ASSUME NEW rows, NEW next, NEW n, NEW c, Table(rows, next, n, c)
  PROVE  /\ Reconciled(rows, next, n, c) \in SUBSET Row
         /\ IsFiniteSet(Reconciled(rows, next, n, c))
         /\ NextId(rows, next, n, c) \in Nat \ {0}
         /\ next <= NextId(rows, next, n, c)
<1> DEFINE old == rows \ RowsOf(rows, n)
           L == IndexedLines(c)
           new == {RowAt(rows, next, n, c, i) : i \in L}
<1>1. /\ n \in Notes /\ c \in Contents /\ rows \in SUBSET Row /\ IsFiniteSet(rows)
      /\ next \in Nat \ {0}
  BY DEF Table
<1>2. /\ L \in SUBSET DOMAIN c /\ L \in SUBSET (Nat \ {0}) /\ IsFiniteSet(L)
  BY <1>1, IndexedLinesType
<1>3. new \in SUBSET Row
  <2> SUFFICES ASSUME NEW i \in L PROVE RowAt(rows, next, n, c, i) \in Row  OBVIOUS
  <2>1. c[i] \in Line  BY <1>1, <1>2 DEF Contents
  <2>2. IdAt(rows, next, n, c, i) \in Nat \ {0}  BY IdAtType
  <2> QED  BY <1>1, <1>2, <2>1, <2>2 DEF RowAt, Row, Line
<1>4. IsFiniteSet(new)
  <2> DEFINE f == [i \in L |-> RowAt(rows, next, n, c, i)]
  <2>1. f \in Surjection(L, new)  BY DEF Surjection
  <2> QED  BY <1>2, <2>1, FS_Surjection
<1>5. IsFiniteSet(old)  BY <1>1, FS_Subset
<1>6. IsFiniteSet(old \cup new)  BY <1>4, <1>5, FS_Union
<1>7. Cardinality(Inserted(rows, n, c)) \in Nat  BY InsertedType
<1> QED  BY <1>1, <1>3, <1>6, <1>7 DEF Reconciled, NextId

\* The rows of the other notes stay, those of n are the tasks of c.
LEMMA ReconciledLines ==
  ASSUME NEW rows, NEW next, NEW n, NEW c
  PROVE  /\ \A r \in Reconciled(rows, next, n, c) :
               \/ r \in rows /\ r.note # n
               \/ \E i \in IndexedLines(c) : r = RowAt(rows, next, n, c, i)
         /\ \A m : m # n =>
               RowsOf(Reconciled(rows, next, n, c), m) = RowsOf(rows, m)
         /\ RowsOf(Reconciled(rows, next, n, c), n) =
               {RowAt(rows, next, n, c, i) : i \in IndexedLines(c)}
         /\ LinesOf(Reconciled(rows, next, n, c), n) = IndexedLines(c)
<1> DEFINE new == {RowAt(rows, next, n, c, i) : i \in IndexedLines(c)}
<1>1. \A r \in new : r.note = n  BY DEF RowAt
<1>2. \A i \in IndexedLines(c) : RowAt(rows, next, n, c, i).line = i  BY DEF RowAt
<1>3. RowsOf(Reconciled(rows, next, n, c), n) = new  BY <1>1 DEF RowsOf, Reconciled
<1>4. LinesOf(Reconciled(rows, next, n, c), n) = IndexedLines(c)
  BY <1>2, <1>3 DEF LinesOf
<1> QED  BY <1>1, <1>3, <1>4 DEF RowsOf, Reconciled

\* An id below the counter names, after the reconciliation, a row of the same note and
\* text as before it: identity is never handed to another text.
LEMMA ReconciledKeepsText ==
  ASSUME NEW rows, NEW next, NEW n, NEW c, Table(rows, next, n, c),
         NEW r \in Reconciled(rows, next, n, c)
  PROVE  \/ r.id >= next
         \/ \E q \in rows : q.id = r.id /\ q.text = r.text /\ q.note = r.note
<1>1. CASE r \in rows /\ r.note # n  BY <1>1
<1>2. ASSUME NEW i \in IndexedLines(c), r = RowAt(rows, next, n, c, i)
      PROVE  \/ r.id >= next
             \/ \E q \in rows : q.id = r.id /\ q.text = r.text /\ q.note = r.note
  <2>1. r.id = IdAt(rows, next, n, c, i) /\ r.text = c[i].text /\ r.note = n
    BY <1>2 DEF RowAt
  <2>2. next \in Nat  BY DEF Table
  <2>3. \A q \in Match(rows, n, c, i) : q \in rows /\ q.text = c[i].text /\ q.note = n
    BY DEF Match, RowsOf
  <2> QED  BY <2>1, <2>2, <2>3, IdAtCases
<1> QED  BY <1>1, <1>2, ReconciledLines

\* No two lines get the same id: fresh ids are numbered apart, a row is matched with
\* one line, and fresh ids lie above all others.
LEMMA IdAtInjective ==
  ASSUME NEW rows, NEW next, NEW n, NEW c, Table(rows, next, n, c),
         Snapshot(rows, next),
         NEW i \in IndexedLines(c), NEW j \in IndexedLines(c),
         IdAt(rows, next, n, c, i) = IdAt(rows, next, n, c, j)
  PROVE  i = j
<1> DEFINE I == Inserted(rows, n, c)
<1>1. next \in Nat /\ \A r \in rows : r.id \in Nat /\ r.id < next
  BY DEF Table, Row, Snapshot
<1>2. \A k : Match(rows, n, c, k) \in SUBSET rows  BY DEF Match, RowsOf
<1>3. CASE i \in I /\ j \in I
  <2>1. Rank(I, i) = Rank(I, j)  BY <1>1, <1>3, IdAtCases
  <2> QED  BY <1>3, <2>1, InsertedType, RankInjective
<1>4. CASE i \in I /\ j \notin I  BY <1>1, <1>2, <1>4, IdAtCases
<1>5. CASE i \notin I /\ j \in I  BY <1>1, <1>2, <1>5, IdAtCases
<1>6. CASE i \notin I /\ j \notin I
  <2>1. PICK r \in Match(rows, n, c, i) : IdAt(rows, next, n, c, i) = r.id
    BY <1>6, IdAtCases
  <2>2. PICK q \in Match(rows, n, c, j) : IdAt(rows, next, n, c, j) = q.id
    BY <1>6, IdAtCases
  <2>3. r = q  BY <1>2, <2>1, <2>2 DEF Snapshot
  <2>4. c[i].text = c[j].text /\ LineRank(c, i) = LineRank(c, j)
    BY <2>1, <2>2, <2>3 DEF Match
  <2> DEFINE same == {k \in IndexedLines(c) : c[k].text = c[i].text}
  <2>5. Rank(same, i) = Rank(same, j) /\ i \in same /\ j \in same
    BY <2>4 DEF LineRank
  <2>6. c \in Contents  BY DEF Table
  <2>7. same \in SUBSET IndexedLines(c)  OBVIOUS
  <2>8. same \in SUBSET Int /\ IsFiniteSet(same)
    BY <2>6, <2>7, IndexedLinesType, FS_Subset
  <2> HIDE DEF same
  <2> QED  BY <2>5, <2>8, RankInjective
<1> QED  BY <1>3, <1>4, <1>5, <1>6

\* reconcile_note turns a snapshot into a snapshot.
LEMMA ReconciledSnapshot ==
  ASSUME NEW rows, NEW next, NEW n, NEW c, Table(rows, next, n, c),
         Snapshot(rows, next)
  PROVE  Snapshot(Reconciled(rows, next, n, c), NextId(rows, next, n, c))
<1> DEFINE R == Reconciled(rows, next, n, c)
           N == NextId(rows, next, n, c)
           new(i) == RowAt(rows, next, n, c, i)
<1>0. /\ next \in Nat /\ N \in Nat /\ next <= N
      /\ N = next + Cardinality(Inserted(rows, n, c))
      /\ Cardinality(Inserted(rows, n, c)) \in Nat
  BY ReconciledType, InsertedType DEF Table, NextId
<1>1. \A r \in R : \/ r \in rows /\ r.note # n
                   \/ \E i \in IndexedLines(c) : r = new(i)
  BY ReconciledLines
<1>2. \A i \in IndexedLines(c) :
         /\ new(i).id = IdAt(rows, next, n, c, i) /\ new(i).note = n /\ new(i).line = i
         /\ new(i).char = c[i].char /\ new(i).text = c[i].text
         /\ new(i).indent = c[i].indent /\ new(i).hash = c
  BY DEF RowAt
<1>3. \A r \in rows : r.id \in Nat /\ r.id < next  BY DEF Table, Row, Snapshot
<1>4. \A i \in IndexedLines(c) : \A r \in Match(rows, n, c, i) : r \in rows /\ r.note = n
  BY DEF Match, RowsOf
<1>5. ASSUME NEW r \in R
      PROVE  /\ r.id < N
             /\ r.line \in IndexedLines(r.hash)
             /\ LET l == r.hash[r.line]
                IN  r.char = l.char /\ r.text = l.text /\ r.indent = l.indent
             /\ IndexedLines(r.hash) = LinesOf(R, r.note)
  <2>1. CASE r \in rows /\ r.note # n
    <3>1. RowsOf(R, r.note) = RowsOf(rows, r.note)  BY <2>1, ReconciledLines
    <3>2. IndexedLines(r.hash) = LinesOf(R, r.note)  BY <2>1, <3>1 DEF Snapshot, LinesOf
    <3>3. r.id < N  BY <1>0, <1>3, <2>1
    <3> QED  BY <2>1, <3>2, <3>3 DEF Snapshot
  <2>2. ASSUME NEW i \in IndexedLines(c), r = new(i)
        PROVE  /\ r.id < N
               /\ r.line \in IndexedLines(r.hash)
               /\ LET l == r.hash[r.line]
                  IN  r.char = l.char /\ r.text = l.text /\ r.indent = l.indent
               /\ IndexedLines(r.hash) = LinesOf(R, r.note)
    <3>1. IndexedLines(c) = LinesOf(R, n)  BY ReconciledLines
    <3>2. IdAt(rows, next, n, c, i) < N  BY <1>0, <1>3, <1>4, IdAtCases
    <3> HIDE DEF R, N, new
    <3> QED  BY <1>2, <2>2, <3>1, <3>2
  <2> QED  BY <1>1, <2>1, <2>2
<1>6. ASSUME NEW r \in R, NEW q \in R
      PROVE  /\ r.id = q.id => r = q
             /\ r.note = q.note => r.hash = q.hash /\ (r.line = q.line => r = q)
  <2>1. CASE r \in rows /\ r.note # n /\ q \in rows /\ q.note # n
    BY <2>1 DEF Snapshot
  <2>2. ASSUME NEW i \in IndexedLines(c), NEW p \in rows, p.note # n
        PROVE  new(i).id # p.id /\ new(i).note # p.note
    <3>1. CASE new(i).id >= next  BY <1>0, <1>2, <1>3, <2>2, <3>1, IdAtType
    <3>2. CASE \E m \in Match(rows, n, c, i) : new(i).id = m.id
      BY <1>2, <1>4, <2>2, <3>2 DEF Snapshot
    <3> QED  BY <1>0, <1>2, <3>1, <3>2, IdAtCases
  <2>3. CASE /\ \E i \in IndexedLines(c) : r = new(i)
             /\ \E i \in IndexedLines(c) : q = new(i)
    <3>1. PICK i \in IndexedLines(c) : r = new(i)  BY <2>3
    <3>2. PICK j \in IndexedLines(c) : q = new(j)  BY <2>3
    <3>3. r.id = q.id => i = j  BY <1>2, <3>1, <3>2, IdAtInjective
    <3>4. r.hash = q.hash /\ (r.line = q.line => i = j)  BY <1>2, <3>1, <3>2
    <3> QED  BY <3>1, <3>2, <3>3, <3>4
  <2>4. CASE r \in rows /\ r.note # n /\ \E i \in IndexedLines(c) : q = new(i)
    BY <2>2, <2>4
  <2>5. CASE q \in rows /\ q.note # n /\ \E i \in IndexedLines(c) : r = new(i)
    BY <2>2, <2>5
  <2> QED  BY <1>1, <2>1, <2>3, <2>4, <2>5
<1> QED  BY <1>5, <1>6 DEF Snapshot

\* Taking all rows of a note out of a snapshot leaves one.
LEMMA ForgottenSnapshot ==
  ASSUME NEW rows, NEW next, NEW n, Snapshot(rows, next)
  PROVE  Snapshot(rows \ RowsOf(rows, n), next)
<1> DEFINE R == rows \ RowsOf(rows, n)
<1>1. \A r \in R : r \in rows /\ r.note # n  BY DEF RowsOf
<1>2. \A r \in R : LinesOf(R, r.note) = LinesOf(rows, r.note)
  BY <1>1 DEF LinesOf, RowsOf
<1> HIDE DEF R
<1> QED  BY <1>1, <1>2 DEF Snapshot, R

LEMMA LinesOfType ==
  ASSUME NEW view \in SUBSET Row, IsFiniteSet(view), NEW n
  PROVE  LinesOf(view, n) \in SUBSET Nat /\ IsFiniteSet(LinesOf(view, n))
<1> DEFINE V == RowsOf(view, n)
           f == [r \in V |-> r.line]
<1>1. V \in SUBSET view  BY DEF RowsOf
<1>2. IsFiniteSet(V)  BY <1>1, FS_Subset
<1>3. f \in Surjection(V, LinesOf(view, n))  BY DEF Surjection, LinesOf
<1>4. IsFiniteSet(LinesOf(view, n))  BY <1>2, <1>3, FS_Surjection
<1>5. LinesOf(view, n) \in SUBSET Nat  BY <1>1 DEF LinesOf, Row
<1> QED  BY <1>4, <1>5

-----------------------------------------------------------------------------
\* What a client can enqueue from a view of the index.

LEMMA NoteActionType ==
  ASSUME NEW n \in Notes, NEW type \in Types
  PROVE  NoteAction(n, type) \in Action
<1>1. Saying(NoName) \in Text /\ NoDate \in Token  BY DEF Saying, Text, Token
<1>2. <<>> \in Seq(Nat)  OBVIOUS
<1>3. <<>> \in Contents  BY DEF Contents
<1> QED  BY <1>1, <1>2, <1>3 DEF NoteAction, Action

LEMMA ActionOnType ==
  ASSUME NEW r \in Row, NEW type \in Types
  PROVE  /\ ActionOn(r, type) \in Action
         /\ ActionOn(r, type).task = r.id /\ ActionOn(r, type).note = r.note
         /\ ActionOn(r, type).saw = r.text /\ ActionOn(r, type).state = "pending"
         /\ ActionOn(r, type).type = type
<1>1. r.note \in Notes /\ r.id \in Nat /\ r.line \in Nat /\ r.text \in Text  BY DEF Row
<1>2. NoteAction(r.note, type) \in Action  BY <1>1, NoteActionType
<1>3. /\ NoteAction(r.note, type).note = r.note /\ NoteAction(r.note, type).state = "pending"
      /\ NoteAction(r.note, type).type = type
  BY DEF NoteAction
<1> QED  BY <1>1, <1>2, <1>3 DEF ActionOn, Action

\* A request is a pending action on the row it is made on, with the text seen there; a
\* quick add and its undo are on no row.
LEMMA RequestsType ==
  ASSUME NEW view \in SUBSET Row, IsFiniteSet(view), NEW r \in view,
         NEW a \in Requests(view, r)
  PROVE  /\ a \in Action
         /\ a.task = r.id /\ a.note = r.note /\ a.saw = r.text /\ a.state = "pending"
         /\ a.type \notin {"quick_add", "quick_add_undo"}
<1>1. r \in Row /\ Today \in Token  BY RequestAssumption DEF Token
<1> DEFINE Origin(b) == /\ b.task = r.id /\ b.note = r.note /\ b.saw = r.text
                        /\ b.state = "pending"
                        /\ b.type \notin {"quick_add", "quick_add_undo"}
<1>2. CASE a \in FlipRequests(r)
  <2>1. TargetChars(r.char) \in SUBSET (Chars \cup {NoChar})  BY DEF TargetChars, Chars
  <2>2. r.char \in Chars \cup {NoChar}  BY <1>1 DEF Row
  <2>3. PICK c \in Chars \cup {NoChar} :
          a = [ActionOn(r, "checkbox") EXCEPT !.expected = r.char, !.new = c]
    BY <1>2, <2>1 DEF FlipRequests
  <2>4. /\ ActionOn(r, "checkbox") \in Action
        /\ Origin(ActionOn(r, "checkbox"))
    BY <1>1, ActionOnType DEF Types
  <2> QED  BY <2>2, <2>3, <2>4 DEF Action
<1>3. CASE a \in ScheduleRequests(r)
  <2>1. /\ ActionOn(r, "set_scheduled") \in Action
        /\ Origin(ActionOn(r, "set_scheduled"))
    BY <1>1, ActionOnType DEF Types
  <2>2. Days \cup {NoDate} \in SUBSET Token  BY DEF Token
  <2>3. PICK date \in Token : a = [ActionOn(r, "set_scheduled") EXCEPT !.want = date]
    BY <1>3, <2>2 DEF ScheduleRequests
  <2> QED  BY <2>1, <2>3 DEF Action
<1>4. CASE a \in BulletRequests(r)
  <2> QED  BY <1>1, <1>4, ActionOnType DEF BulletRequests, Types
<1>5. CASE a \in ReorderRequests(view, r)
  <2>1. /\ ActionOn(r, "reorder") \in Action
        /\ Origin(ActionOn(r, "reorder"))
    BY <1>1, ActionOnType DEF Types
  <2> DEFINE orders == UNION {[1..Cardinality(S) -> S] : S \in SUBSET LinesOf(view, r.note)}
  <2>0. PICK o \in orders : a = [ActionOn(r, "reorder") EXCEPT !.lines = o, !.base = r.hash]
    BY <1>5 DEF ReorderRequests
  <2>2. PICK S \in SUBSET LinesOf(view, r.note) : o \in [1..Cardinality(S) -> S]
    BY <2>0
  <2> HIDE DEF orders
  <2> DEFINE k == Cardinality(S)
  <2>3. S \in SUBSET Nat /\ IsFiniteSet(S)  BY <2>2, LinesOfType, FS_Subset
  <2>4. k \in Nat  BY <2>3, FS_CardinalityType
  <2>5. o \in [1..k -> S]  BY <2>2
  <2> HIDE DEF k
  <2>6. o \in Seq(Nat)  BY <2>3, <2>4, <2>5, FunctionIsSequence
  <2>7. r.hash \in Contents  BY <1>1 DEF Row
  <2> QED  BY <2>0, <2>1, <2>6, <2>7 DEF Action
<1>6. CASE a \in ArchiveRequests(view, r)
  <2>1. /\ ActionOn(r, "archive") \in Action
        /\ Origin(ActionOn(r, "archive"))
    BY <1>1, ActionOnType DEF Types
  <2> DEFINE closed == {q \in RowsOf(view, r.note) : IsClosed(q.char)}
             L == {p.line : p \in closed}
  <2>2. a = [ActionOn(r, "archive") EXCEPT !.lines = InOrder(L), !.base = r.hash]
    BY <1>6 DEF ArchiveRequests
  <2>3. L \in SUBSET LinesOf(view, r.note)  BY DEF LinesOf
  <2>4. L \in SUBSET Nat /\ IsFiniteSet(L)  BY <2>3, LinesOfType, FS_Subset
  <2> HIDE DEF L
  <2>5. InOrder(L) \in Seq(Nat)  BY <2>4, InOrderType
  <2>6. r.hash \in Contents  BY <1>1 DEF Row
  <2> QED  BY <2>1, <2>2, <2>5, <2>6 DEF Action
<1>7. CASE a \in NoteRequests(r)
  <2>1. /\ ActionOn(r, "add_note") \in Action
        /\ Origin(ActionOn(r, "add_note"))
    BY <1>1, ActionOnType DEF Types
  <2>2. PICK name \in Names : a = [ActionOn(r, "add_note") EXCEPT !.typed = name]
    BY <1>7, RequestAssumption DEF NoteRequests
  <2> QED  BY <2>1, <2>2 DEF Action
<1> QED  BY <1>2, <1>3, <1>4, <1>5, <1>6, <1>7 DEF Requests

LEMMA ReversalsType ==
  ASSUME NEW a \in Action, NEW b \in Reversals(a)
  PROVE  /\ b \in Action /\ b.task = a.task /\ b.note = a.note /\ b.saw = a.saw
         /\ b.state = "pending"
         /\ b.type \in {"quick_add", "quick_add_undo"} => a.type = "quick_add"
<1>1. CASE a.type = "checkbox"
  <2>1. b = [a EXCEPT !.expected = a.new, !.new = a.expected, !.state = "pending"]
    BY <1>1 DEF Reversals
  <2> QED  BY <1>1, <2>1 DEF Action
<1>2. CASE a.type = "toggle_bullet"
  <2>1. b = [a EXCEPT !.state = "pending"]  BY <1>2 DEF Reversals
  <2> QED  BY <1>2, <2>1 DEF Action
<1>3. CASE a.type = "quick_add"
  <2>1. b = [a EXCEPT !.type = "quick_add_undo", !.state = "pending"]
    BY <1>3 DEF Reversals
  <2> QED  BY <1>3, <2>1 DEF Action, Types
<1> QED  BY <1>1, <1>2, <1>3 DEF Reversals
=============================================================================
