---------------------------- MODULE Texts_proofs ----------------------------
(***************************************************************************)
(* Theorems on the functions on texts and times, for texts of any length.  *)
(* The functions are loops: what they compute takes an induction, which is *)
(* the principle of the least number (Least), applied to the set of the    *)
(* numbers for which a statement fails.                                    *)
(***************************************************************************)
EXTENDS TextProperties, FiniteSetTheorems, SequenceTheorems, TLAPS

-----------------------------------------------------------------------------
\* Numbers.

\* A set of natural numbers has a least: the intervals 0..k are finite sets, and those are
\* well-founded.
LEMMA Least ==
  ASSUME NEW T \in SUBSET Nat, T # {}
  PROVE  \E m \in T : \A k \in T : m <= k
<1>1. PICK t \in T : TRUE
  OBVIOUS
<1> DEFINE S == 0..t
           R == StrictSubsetOrdering(S)
           U == {0..k : k \in {j \in T : j <= t}}
<1>2. IsWellFoundedOn(R, FiniteSubsetsOf(S))
  BY FS_StrictSubsetOrderingWellFounded
<1>3. U \subseteq FiniteSubsetsOf(S)
  <2> SUFFICES ASSUME NEW k \in T, k <= t PROVE 0..k \in FiniteSubsetsOf(S)
    OBVIOUS
  <2>1. IsFiniteSet(0..k)
    BY FS_Interval
  <2> QED BY <2>1, SMT DEF FiniteSubsetsOf
<1>4. U # {}
  BY <1>1
<1>5. PICK x \in U : \A y \in U : ~ (<<y, x>> \in R)
  <2> HIDE DEF R, U
  <2> QED BY <1>2, <1>3, <1>4, WFMin
<1>6. PICK m \in T : m <= t /\ x = 0..m
  BY <1>5
<1>7. ASSUME NEW k \in T, k < m PROVE FALSE
  <2>1. 0..k \in U
    BY <1>6, <1>7
  <2>2. <<0..k, x>> \in R
    BY <1>6, <1>7, SMT DEF StrictSubsetOrdering
  <2> QED BY <2>1, <2>2, <1>5
<1> QED BY <1>7

\* Induction up to n: what holds of 0, and of the next number as well, holds of all.
LEMMA Induct ==
  ASSUME NEW n \in Nat, NEW S, 0 \in S, \A k \in 0..(n - 1) : k \in S => k + 1 \in S
  PROVE  \A k \in 0..n : k \in S
<1> SUFFICES ASSUME NEW j \in 0..n, j \notin S PROVE FALSE
  OBVIOUS
<1> DEFINE T == {k \in 0..n : k \notin S}
<1>1. PICK m \in T : \A k \in T : m <= k
  <2> T \in SUBSET Nat /\ T # {}
    OBVIOUS
  <2> QED BY Least
<1>2. m - 1 \in 0..(n - 1) /\ m - 1 \in S
  BY <1>1
<1> QED BY <1>1, <1>2

\* The greatest of a set of integers that is bounded above, and the least of one that is
\* bounded below.
LEMMA MaxOf ==
  ASSUME NEW S \in SUBSET Int, S # {}, NEW hi \in Int, \A x \in S : x <= hi
  PROVE  Max(S) \in S /\ \A x \in S : x <= Max(S)
<1> DEFINE T == {hi - x : x \in S}
<1>1. PICK m \in T : \A k \in T : m <= k
  <2>1. PICK x \in S : TRUE
    OBVIOUS
  <2>2. hi - x \in T
    BY <2>1
  <2>3. \A y \in S : hi - y \in Nat
    OBVIOUS
  <2>4. T \in SUBSET Nat
    BY <2>3
  <2> QED BY <2>2, <2>4, Least
<1>2. PICK y \in S : m = hi - y
  BY <1>1
<1>3. ASSUME NEW x \in S PROVE y >= x
  <2>1. hi - x \in T
    OBVIOUS
  <2> QED BY <1>1, <1>2, <2>1
<1> HIDE DEF T
<1>4. Max(S) \in S /\ \A x \in S : Max(S) >= x
  BY <1>3, Zenon DEF Max
<1>5. Max(S) \in Int /\ \A x \in S : x \in Int
  BY <1>4
<1> QED BY <1>4, <1>5

LEMMA MinOf ==
  ASSUME NEW S \in SUBSET Int, S # {}, NEW lo \in Int, \A x \in S : lo <= x
  PROVE  Min(S) \in S /\ \A x \in S : Min(S) <= x
<1> DEFINE T == {x - lo : x \in S}
<1>1. PICK m \in T : \A k \in T : m <= k
  <2>1. PICK x \in S : TRUE
    OBVIOUS
  <2>2. x - lo \in T
    BY <2>1
  <2>3. \A y \in S : y - lo \in Nat
    OBVIOUS
  <2>4. T \in SUBSET Nat
    BY <2>3
  <2> QED BY <2>2, <2>4, Least
<1>2. PICK y \in S : m = y - lo
  BY <1>1
<1>3. ASSUME NEW x \in S PROVE y =< x
  <2>1. x - lo \in T
    OBVIOUS
  <2> QED BY <1>1, <1>2, <2>1
<1> HIDE DEF T
<1>4. Min(S) \in S /\ \A x \in S : Min(S) =< x
  BY <1>3, Zenon DEF Min
<1>5. Min(S) \in Int /\ \A x \in S : x \in Int
  BY <1>4
<1> QED BY <1>4, <1>5

LEMMA MaxUpto ==
  ASSUME NEW k \in Nat
  PROVE  Max(1..(k + 1)) = k + 1 /\ (1..(k + 1)) \ {k + 1} = 1..k
<1>1. k + 1 \in 1..(k + 1) /\ 1..(k + 1) \in SUBSET Int /\ \A x \in 1..(k + 1) : x <= k + 1
  OBVIOUS
<1>2. Max(1..(k + 1)) \in 1..(k + 1) /\ k + 1 <= Max(1..(k + 1))
  <2> DEFINE S == 1..(k + 1)
  <2>1. S \in SUBSET Int /\ S # {} /\ k + 1 \in Int /\ k + 1 \in S /\ \A x \in S : x <= k + 1
    BY <1>1
  <2> HIDE DEF S
  <2>2. Max(S) \in S /\ \A x \in S : x <= Max(S)
    BY <2>1, MaxOf
  <2> QED BY <2>1, <2>2 DEF S
<1> QED BY <1>2

-----------------------------------------------------------------------------
\* Folds.  Step is the step of a loop over the elements of A with its state in B.

\* The states of the loop, one for each of the elements before it.
IsRun(v, B, Step, base, s) ==
    /\ v \in [0..Len(s) -> B] /\ v[0] = base
    /\ \A k \in 0..(Len(s) - 1) : v[k + 1] = Step[v[k]][s[k + 1]]

HasRun(B, Step, base, s) == \E v : IsRun(v, B, Step, base, s)

\* The last of them.
Loop(B, Step, base, s) == (CHOOSE v : IsRun(v, B, Step, base, s))[Len(s)]

LEMMA RunExists ==
  ASSUME NEW A, NEW B, NEW Step \in [B -> [A -> B]], NEW base \in B, NEW s \in Seq(A)
  PROVE  HasRun(B, Step, base, s)
<1> DEFINE Upto(v, n) == /\ v \in [0..n -> B] /\ v[0] = base
                         /\ \A k \in 0..(n - 1) : v[k + 1] = Step[v[k]][s[k + 1]]
           S == {n \in 0..Len(s) : \E v : Upto(v, n)}
<1>0. Len(s) \in Nat /\ \A k \in 1..Len(s) : s[k] \in A
  OBVIOUS
<1>1. Upto([k \in 0..0 |-> base], 0)
  OBVIOUS
<1>2. ASSUME NEW n \in 0..(Len(s) - 1), NEW v, Upto(v, n)
      PROVE  Upto([k \in 0..(n + 1) |-> IF k <= n THEN v[k] ELSE Step[v[n]][s[n + 1]]], n + 1)
  <2> DEFINE w == [k \in 0..(n + 1) |-> IF k <= n THEN v[k] ELSE Step[v[n]][s[n + 1]]]
  <2>1. v[n] \in B /\ s[n + 1] \in A /\ n \in Nat
    BY <1>2, <1>0
  <2>2. Step[v[n]][s[n + 1]] \in B
    BY <2>1
  <2>3. w \in [0..(n + 1) -> B]
    BY <1>2, <2>1, <2>2
  <2>4. w[0] = base
    BY <1>2, <2>1
  <2>5. ASSUME NEW k \in 0..n PROVE w[k + 1] = Step[w[k]][s[k + 1]]
    <3>1. CASE k = n
      BY <3>1, <2>1
    <3>2. CASE k # n
      <4>1. k \in 0..(n - 1) /\ k + 1 \in 0..(n + 1) /\ k \in 0..(n + 1) /\ k + 1 <= n /\ k <= n
        BY <3>2, <2>1
      <4>2. w[k + 1] = v[k + 1] /\ w[k] = v[k]
        BY <4>1
      <4> QED BY <1>2, <4>1, <4>2
    <3> QED BY <3>1, <3>2
  <2> HIDE DEF w
  <2>6. \A k \in 0..((n + 1) - 1) : w[k + 1] = Step[w[k]][s[k + 1]]
    BY <2>1, <2>5
  <2> QED BY <2>3, <2>4, <2>6 DEF w
<1> HIDE DEF Upto
<1>3. 0 \in S
  BY <1>0, <1>1
<1>4. ASSUME NEW n \in 0..(Len(s) - 1), n \in S PROVE n + 1 \in S
  <2>1. n + 1 \in 0..Len(s)
    BY <1>0
  <2> QED BY <1>2, <1>4, <2>1
<1>5. Len(s) \in S
  <2> HIDE DEF S
  <2>1. \A k \in 0..Len(s) : k \in S
    BY <1>0, <1>3, <1>4, Induct
  <2> QED BY <1>0, <2>1
<1> QED BY <1>5 DEF IsRun, HasRun, Upto

\* The loop over nothing, and over one element more.
LoopLaws(A, B, Step, base) ==
    /\ Loop(B, Step, base, <<>>) = base
    /\ \A s \in Seq(A) : /\ Loop(B, Step, base, s) \in B
                         /\ \A c \in A : Loop(B, Step, base, Append(s, c))
                                           = Step[Loop(B, Step, base, s)][c]

LEMMA LoopIs ==
  ASSUME NEW A, NEW B, NEW Step \in [B -> [A -> B]], NEW base \in B
  PROVE  LoopLaws(A, B, Step, base)
<1> DEFINE run(s) == CHOOSE v : IsRun(v, B, Step, base, s)
<1>1. ASSUME NEW s \in Seq(A) PROVE IsRun(run(s), B, Step, base, s)
  BY RunExists DEF HasRun
<1> HIDE DEF run
<1>2. \A s : Loop(B, Step, base, s) = run(s)[Len(s)]
  BY DEF Loop, run
<1>3. Loop(B, Step, base, <<>>) = base
  <2>1. <<>> \in Seq(A) /\ Len(<<>>) = 0
    OBVIOUS
  <2>2. IsRun(run(<<>>), B, Step, base, <<>>)
    BY <1>1, <2>1, Zenon
  <2> QED BY <1>2, <2>1, <2>2 DEF IsRun
<1>4. ASSUME NEW s \in Seq(A) PROVE Loop(B, Step, base, s) \in B
  BY <1>1, <1>2, <1>4, Len(s) \in Nat DEF IsRun
<1>5. ASSUME NEW s \in Seq(A), NEW c \in A
      PROVE  Loop(B, Step, base, Append(s, c)) = Step[Loop(B, Step, base, s)][c]
  <2> DEFINE t == Append(s, c)
  <2>1. t \in Seq(A) /\ Len(t) = Len(s) + 1 /\ t[Len(s) + 1] = c /\ Len(s) \in Nat
        /\ \A k \in 1..Len(s) : s[k] = t[k]
    OBVIOUS
  <2> HIDE DEF t
  <2>2. IsRun(run(s), B, Step, base, s) /\ IsRun(run(t), B, Step, base, t)
    BY <1>1, <2>1
  <2>3. \A k \in 0..Len(s) : run(s)[k] = run(t)[k]
    <3>1. ASSUME NEW v, IsRun(v, B, Step, base, s), NEW w, IsRun(w, B, Step, base, t)
          PROVE  \A k \in 0..Len(s) : v[k] = w[k]
      <4> DEFINE S == {k \in 0..Len(s) : v[k] = w[k]}
      <4>1. 0 \in S
        BY <2>1, <3>1 DEF IsRun
      <4>2. ASSUME NEW k \in 0..(Len(s) - 1), k \in S PROVE k + 1 \in S
        <5>1. k \in 0..(Len(t) - 1) /\ k + 1 \in 0..Len(s) /\ k + 1 \in 1..Len(s)
          BY <2>1
        <5>2. v[k + 1] = Step[v[k]][s[k + 1]] /\ w[k + 1] = Step[w[k]][t[k + 1]]
          BY <3>1, <5>1 DEF IsRun
        <5> QED BY <2>1, <4>2, <5>1, <5>2
      <4>3. \A k \in 0..Len(s) : k \in S
        <5> HIDE DEF S
        <5> QED BY <2>1, <4>1, <4>2, Induct
      <4> QED BY <4>3
    <3> QED BY <2>2, <3>1
  <2>4. run(t)[Len(s) + 1] = Step[run(t)[Len(s)]][t[Len(s) + 1]]
    <3>1. Len(s) \in 0..(Len(t) - 1)
      BY <2>1
    <3> QED BY <2>2, <3>1 DEF IsRun
  <2>5. run(s)[Len(s)] = run(t)[Len(s)]
    BY <2>1, <2>3
  <2>7. run(t)[Len(t)] = Step[run(s)[Len(s)]][c]
    BY <2>1, <2>4, <2>5
  <2>6. Loop(B, Step, base, t) = Step[Loop(B, Step, base, s)][c]
    BY <1>2, <2>7
  <2> QED BY <2>6 DEF t
<1> QED BY <1>3, <1>4, <1>5 DEF LoopLaws

\* FoldLeft is defined by a function on the sets of places: take out the greatest, and step.
\* There is such a function,
HasIter(B, Step, base, s) ==
    \E g \in [SUBSET (1..Len(s)) -> B] :
       \A t \in SUBSET (1..Len(s)) :
          g[t] = IF t = {} THEN base ELSE Step[g[t \ {Max(t)}]][s[Max(t)]]

LEMMA IterExists ==
  ASSUME NEW A, NEW B, NEW Step \in [B -> [A -> B]], NEW base \in B, NEW s \in Seq(A)
  PROVE  HasIter(B, Step, base, s)
<1> DEFINE Is(g, n) == /\ g \in [SUBSET (1..n) -> B]
                       /\ \A t \in SUBSET (1..n) :
                             g[t] = IF t = {} THEN base ELSE Step[g[t \ {Max(t)}]][s[Max(t)]]
           S == {n \in 0..Len(s) : \E g : Is(g, n)}
<1>0. Len(s) \in Nat /\ \A k \in 1..Len(s) : s[k] \in A
  OBVIOUS
<1>1. Is([t \in SUBSET (1..0) |-> base], 0)
  OBVIOUS
<1>2. ASSUME NEW n \in 0..(Len(s) - 1), NEW g, Is(g, n)
      PROVE  Is([t \in SUBSET (1..(n + 1)) |->
                    IF n + 1 \in t THEN Step[g[t \ {n + 1}]][s[n + 1]] ELSE g[t]], n + 1)
  <2> DEFINE h == [t \in SUBSET (1..(n + 1)) |->
                     IF n + 1 \in t THEN Step[g[t \ {n + 1}]][s[n + 1]] ELSE g[t]]
  <2>1. n \in Nat /\ s[n + 1] \in A
    BY <1>0
  <2>2. ASSUME NEW t \in SUBSET (1..(n + 1)), n + 1 \in t
        PROVE  /\ t \ {n + 1} \in SUBSET (1..n) /\ t # {} /\ Max(t) = n + 1
               /\ h[t] = Step[g[t \ {n + 1}]][s[n + 1]] /\ h[t \ {n + 1}] = g[t \ {n + 1}]
    <3>1. t \ {n + 1} \in SUBSET (1..n) /\ t \ {n + 1} \in SUBSET (1..(n + 1)) /\ n + 1 \notin t \ {n + 1}
      BY <2>1
    <3>2. Max(t) \in t /\ \A x \in t : x <= Max(t)
      <4>1. t \in SUBSET Int /\ t # {} /\ n + 1 \in Int /\ \A x \in t : x <= n + 1
        BY <2>1, <2>2
      <4> QED BY <4>1, MaxOf
    <3>3. Max(t) \in 1..(n + 1) /\ n + 1 <= Max(t)
      BY <2>2, <3>2
    <3>4. Max(t) = n + 1
      BY <2>1, <3>3
    <3> QED BY <2>2, <3>1, <3>4
  <2>3. ASSUME NEW t \in SUBSET (1..(n + 1)), n + 1 \notin t
        PROVE  t \in SUBSET (1..n) /\ h[t] = g[t] /\ h[t \ {Max(t)}] = g[t \ {Max(t)}]
    <3>1. t \in SUBSET (1..n)
      BY <2>1, <2>3
    <3> QED BY <2>3, <3>1
  <2>4. ASSUME NEW t \in SUBSET (1..(n + 1)) PROVE h[t] \in B
    <3>1. CASE n + 1 \in t
      <4>1. g[t \ {n + 1}] \in B
        BY <1>2, <2>2, <3>1
      <4> QED BY <2>1, <2>2, <3>1, <4>1
    <3>2. CASE n + 1 \notin t
      BY <1>2, <2>3, <3>2
    <3> QED BY <3>1, <3>2
  <2>5. h \in [SUBSET (1..(n + 1)) -> B]
    <3>1. h = [t \in SUBSET (1..(n + 1)) |-> h[t]]
      OBVIOUS
    <3> HIDE DEF h
    <3> QED BY <2>4, <3>1
  <2> HIDE DEF h
  <2>6. ASSUME NEW t \in SUBSET (1..(n + 1))
        PROVE  h[t] = IF t = {} THEN base ELSE Step[h[t \ {Max(t)}]][s[Max(t)]]
    <3>1. CASE n + 1 \in t
      BY <2>2, <3>1
    <3>2. CASE n + 1 \notin t
      BY <1>2, <2>3, <3>2
    <3> QED BY <3>1, <3>2
  <2> QED BY <2>5, <2>6 DEF h
<1> HIDE DEF Is
<1>3. 0 \in S
  BY <1>0, <1>1
<1>4. ASSUME NEW n \in 0..(Len(s) - 1), n \in S PROVE n + 1 \in S
  <2>1. n + 1 \in 0..Len(s)
    BY <1>0
  <2> QED BY <1>2, <1>4, <2>1
<1>5. Len(s) \in S
  <2> HIDE DEF S
  <2>1. \A k \in 0..Len(s) : k \in S
    BY <1>0, <1>3, <1>4, Induct
  <2> QED BY <1>0, <2>1
<1> QED BY <1>5 DEF Is, HasIter

\* and what it says of the first places is the loop.
IsIter(F, B, Step, base, s) ==
    /\ F[{}] = base
    /\ \A k \in 0..(Len(s) - 1) : F[1..k] \in B => F[1..(k + 1)] = Step[F[1..k]][s[k + 1]]

LEMMA IterIs ==
  ASSUME NEW B, NEW Step, NEW base, NEW s, HasRun(B, Step, base, s), Len(s) \in Nat,
         NEW F, IsIter(F, B, Step, base, s)
  PROVE  F[1..Len(s)] = Loop(B, Step, base, s)
<1>1. PICK v : v = CHOOSE u : IsRun(u, B, Step, base, s)
  OBVIOUS
<1>2. IsRun(v, B, Step, base, s)
  BY <1>1 DEF HasRun
<1>3. Len(s) \in Nat /\ 1..0 = {}
  OBVIOUS
<1> DEFINE S == {k \in 0..Len(s) : F[1..k] = v[k]}
<1>4. 0 \in S
  BY <1>2, <1>3 DEF IsRun, IsIter
<1>5. ASSUME NEW k \in 0..(Len(s) - 1), k \in S PROVE k + 1 \in S
  <2>1. k \in 0..Len(s) /\ k + 1 \in 0..Len(s)
    BY <1>3
  <2>2. v[k] \in B /\ v[k + 1] = Step[v[k]][s[k + 1]]
    BY <1>2, <2>1 DEF IsRun
  <2>3. F[1..k] = v[k]
    BY <1>5
  <2>4. F[1..(k + 1)] = v[k + 1]
    BY <2>2, <2>3 DEF IsIter
  <2> QED BY <2>1, <2>4
<1>6. \A k \in 0..Len(s) : k \in S
  <2> HIDE DEF S
  <2> QED BY <1>3, <1>4, <1>5, Induct
<1>7. F[1..Len(s)] = v[Len(s)]
  BY <1>3, <1>6
<1> QED BY <1>1, <1>7 DEF Loop

-----------------------------------------------------------------------------
\* Columns.

AddWidth == [n \in Nat |-> [c \in Keyboard |-> n + WidthOf[c]]]

LEMMA AddWidthType == AddWidth \in [Nat -> [Keyboard -> Nat]]
<1> SUFFICES ASSUME NEW n \in Nat, NEW c \in Keyboard PROVE n + WidthOf[c] \in Nat
  BY DEF AddWidth
<1>1. WidthOf[c] \in 0..2
  BY InputAssumption
<1> QED BY <1>1

LEMMA ColumnsIsLoop ==
  ASSUME NEW s \in Seq(Keyboard)
  PROVE  Columns(s) = Loop(Nat, AddWidth, 0, s)
<1> DEFINE Eq(h) == h = [t \in SUBSET DOMAIN s |->
                           IF t = {} THEN 0 ELSE h[t \ {Max(t)}] + WidthOf[s[Max(t)]]]
           F == CHOOSE h : Eq(h)
<1>0. DOMAIN s = 1..Len(s) /\ Len(s) \in Nat /\ \A k \in 1..Len(s) : s[k] \in Keyboard
  OBVIOUS
<1>1. Columns(s) = F[1..Len(s)]
  BY <1>0 DEF Columns, FoldLeft, MapThenFoldSet
<1>2. \E h : Eq(h)
  <2>1. PICK g \in [SUBSET (1..Len(s)) -> Nat] :
           \A t \in SUBSET (1..Len(s)) :
              g[t] = IF t = {} THEN 0 ELSE AddWidth[g[t \ {Max(t)}]][s[Max(t)]]
    <3>1. HasIter(Nat, AddWidth, 0, s)
      BY AddWidthType, IterExists, 0 \in Nat
    <3> QED BY <3>1 DEF HasIter
  <2>2. ASSUME NEW t \in SUBSET (1..Len(s))
        PROVE  g[t] = IF t = {} THEN 0 ELSE g[t \ {Max(t)}] + WidthOf[s[Max(t)]]
    <3>1. CASE t = {}
      BY <2>1, <3>1
    <3>2. CASE t # {}
      <4>1. Max(t) \in 1..Len(s)
        <5>1. t \in SUBSET Int /\ \A x \in t : x <= Len(s)
          BY <1>0
        <5>2. Max(t) \in t
          BY <1>0, <3>2, <5>1, MaxOf, Len(s) \in Int
        <5> QED BY <5>2
      <4>2. t \ {Max(t)} \in SUBSET (1..Len(s))
        OBVIOUS
      <4>3. AddWidth[g[t \ {Max(t)}]][s[Max(t)]] = g[t \ {Max(t)}] + WidthOf[s[Max(t)]]
        BY <1>0, <2>1, <4>1, <4>2 DEF AddWidth
      <4> QED BY <2>1, <3>2, <4>3
    <3> QED BY <3>1, <3>2
  <2>3. g = [t \in SUBSET (1..Len(s)) |-> IF t = {} THEN 0 ELSE g[t \ {Max(t)}] + WidthOf[s[Max(t)]]]
    BY <2>1, <2>2
  <2> QED BY <1>0, <2>3
<1>3. Eq(F)
  BY <1>2
<1> HIDE DEF F
<1>4. \A t \in SUBSET (1..Len(s)) : F[t] = IF t = {} THEN 0 ELSE F[t \ {Max(t)}] + WidthOf[s[Max(t)]]
  BY <1>0, <1>3
<1> HIDE DEF Eq
<1>5. F[{}] = 0
  BY <1>4
<1>6. ASSUME NEW k \in 0..(Len(s) - 1), F[1..k] \in Nat
      PROVE  F[1..(k + 1)] = AddWidth[F[1..k]][s[k + 1]]
  <2>1. k \in Nat /\ k + 1 \in 1..(k + 1)
    BY <1>0
  <2>2. 1..(k + 1) \in SUBSET (1..Len(s)) /\ s[k + 1] \in Keyboard
    BY <1>0
  <2>3. F[1..(k + 1)] = F[1..k] + WidthOf[s[k + 1]]
    <3> DEFINE t == 1..(k + 1)
    <3>1. t \in SUBSET (1..Len(s)) /\ t # {} /\ Max(t) = k + 1 /\ t \ {k + 1} = 1..k
      BY <2>1, <2>2, MaxUpto
    <3> HIDE DEF t
    <3>2. F[t] = F[t \ {Max(t)}] + WidthOf[s[Max(t)]]
      BY <1>4, <3>1
    <3>3. F[t] = F[1..k] + WidthOf[s[k + 1]]
      BY <3>1, <3>2
    <3> QED BY <3>3 DEF t
  <2> QED BY <1>6, <2>2, <2>3 DEF AddWidth
<1>7. IsIter(F, Nat, AddWidth, 0, s)
  BY <1>5, <1>6 DEF IsIter
<1>8. F[1..Len(s)] = Loop(Nat, AddWidth, 0, s)
  <2>1. HasRun(Nat, AddWidth, 0, s)
    BY AddWidthType, RunExists
  <2> QED BY <1>0, <1>7, <2>1, IterIs
<1> QED BY <1>1, <1>8

LEMMA ColumnsIs ==
  /\ Columns(<<>>) = 0
  /\ \A s \in Seq(Keyboard) : /\ Columns(s) \in Nat
                              /\ \A c \in Keyboard : Columns(Append(s, c)) = Columns(s) + WidthOf[c]
<1>1. LoopLaws(Keyboard, Nat, AddWidth, 0)
  BY AddWidthType, LoopIs, 0 \in Nat
<1>2. Columns(<<>>) = 0
  <2>1. <<>> \in Seq(Keyboard)
    OBVIOUS
  <2> QED BY <1>1, <2>1, ColumnsIsLoop DEF LoopLaws
<1>3. ASSUME NEW s \in Seq(Keyboard)
      PROVE  Columns(s) \in Nat /\ \A c \in Keyboard : Columns(Append(s, c)) = Columns(s) + WidthOf[c]
  <2>1. Columns(s) = Loop(Nat, AddWidth, 0, s) /\ Columns(s) \in Nat
    BY <1>1, ColumnsIsLoop DEF LoopLaws
  <2>2. ASSUME NEW c \in Keyboard PROVE Columns(Append(s, c)) = Columns(s) + WidthOf[c]
    <3>1. Append(s, c) \in Seq(Keyboard)
      OBVIOUS
    <3>2. Columns(Append(s, c)) = AddWidth[Columns(s)][c]
      BY <1>1, <2>1, <3>1, ColumnsIsLoop DEF LoopLaws
    <3> QED BY <2>1, <3>2 DEF AddWidth
  <2> QED BY <2>1, <2>2
<1> QED BY <1>2, <1>3

\* The columns up to a place of a text, and between two places.
Upto(s, i) == Columns(SubSeq(s, 1, i))

LEMMA UptoIs ==
  ASSUME NEW s \in Seq(Keyboard)
  PROVE  /\ Upto(s, 0) = 0
         /\ \A i \in 0..Len(s) : Upto(s, i) \in Nat
         /\ \A i \in 0..(Len(s) - 1) : Upto(s, i + 1) = Upto(s, i) + WidthOf[s[i + 1]]
         /\ \A i \in 1..Len(s) : WidthOf[s[i]] \in 0..2
<1>0. Len(s) \in Nat /\ \A i \in 1..Len(s) : s[i] \in Keyboard
  OBVIOUS
<1>1. SubSeq(s, 1, 0) = <<>>
  OBVIOUS
<1>2. ASSUME NEW i \in 0..Len(s) PROVE SubSeq(s, 1, i) \in Seq(Keyboard)
  BY <1>0
<1>3. ASSUME NEW i \in 0..(Len(s) - 1)
      PROVE  SubSeq(s, 1, i + 1) = Append(SubSeq(s, 1, i), s[i + 1])
  BY <1>0
<1>4. \A i \in 1..Len(s) : WidthOf[s[i]] \in 0..2
  BY <1>0, InputAssumption
<1>5. ASSUME NEW i \in 0..(Len(s) - 1) PROVE Upto(s, i + 1) = Upto(s, i) + WidthOf[s[i + 1]]
  <2>1. i \in 0..Len(s) /\ s[i + 1] \in Keyboard
    BY <1>0
  <2> QED BY <1>2, <1>3, <2>1, ColumnsIs DEF Upto
<1>6. Upto(s, 0) = 0
  BY <1>1, ColumnsIs DEF Upto
<1>7. \A i \in 0..Len(s) : Upto(s, i) \in Nat
  BY <1>2, ColumnsIs DEF Upto
<1> QED BY <1>4, <1>5, <1>6, <1>7

LEMMA ColumnsBetween ==
  ASSUME NEW s \in Seq(Keyboard), NEW a \in 0..Len(s), NEW b \in a..Len(s)
  PROVE  Columns(SubSeq(s, a + 1, b)) = Upto(s, b) - Upto(s, a) /\ Upto(s, a) <= Upto(s, b)
<1>0. Len(s) \in Nat /\ a \in Nat /\ b \in Nat /\ Len(s) - a \in Nat /\ \A i \in 1..Len(s) : s[i] \in Keyboard
  OBVIOUS
<1> DEFINE S == {k \in 0..(Len(s) - a) : Columns(SubSeq(s, a + 1, a + k)) = Upto(s, a + k) - Upto(s, a)}
<1>1. 0 \in S
  <2>1. SubSeq(s, a + 1, a + 0) = <<>> /\ a + 0 = a
    OBVIOUS
  <2>2. Upto(s, a) \in Nat
    BY UptoIs
  <2>3. Columns(SubSeq(s, a + 1, a + 0)) = 0
    BY <2>1, ColumnsIs
  <2>4. Upto(s, a + 0) - Upto(s, a) = 0
    BY <2>1, <2>2
  <2> QED BY <1>0, <2>3, <2>4
<1>2. ASSUME NEW k \in 0..(Len(s) - a - 1), k \in S PROVE k + 1 \in S
  <2>1. a + k \in 0..(Len(s) - 1) /\ a + k \in 0..Len(s) /\ a + (k + 1) = (a + k) + 1 /\ (a + k) + 1 \in 1..Len(s)
        /\ k + 1 \in 0..(Len(s) - a)
    BY <1>0
  <2> DEFINE t == SubSeq(s, a + 1, a + k)
  <2>2. t \in Seq(Keyboard) /\ SubSeq(s, a + 1, a + (k + 1)) = Append(t, s[a + k + 1])
    BY <1>0, <2>1
  <2> HIDE DEF t
  <2>3. Columns(Append(t, s[a + k + 1])) = Columns(t) + WidthOf[s[a + k + 1]]
    BY <1>0, <2>1, <2>2, ColumnsIs
  <2>4. Upto(s, a + (k + 1)) = Upto(s, a + k) + WidthOf[s[a + k + 1]]
    BY <2>1, UptoIs
  <2>5. Upto(s, a + k) \in Nat /\ Upto(s, a) \in Nat /\ WidthOf[s[a + k + 1]] \in 0..2
    BY <2>1, UptoIs
  <2>6. Columns(t) = Upto(s, a + k) - Upto(s, a)
    BY <1>2 DEF t
  <2>7. Columns(SubSeq(s, a + 1, a + (k + 1))) = Upto(s, a + (k + 1)) - Upto(s, a)
    <3>1. Columns(SubSeq(s, a + 1, a + (k + 1))) = Columns(t) + WidthOf[s[a + k + 1]]
      BY <2>2, <2>3
    <3>2. \A x, y, w \in Int : (x - y) + w = (x + w) - y
      OBVIOUS
    <3>3. (Upto(s, a + k) - Upto(s, a)) + WidthOf[s[a + k + 1]]
            = (Upto(s, a + k) + WidthOf[s[a + k + 1]]) - Upto(s, a)
      BY <2>5, <3>2
    <3> QED BY <2>4, <2>6, <3>1, <3>3
  <2> QED BY <2>1, <2>7
<1>3. \A k \in 0..(Len(s) - a) : k \in S
  <2> HIDE DEF S
  <2>1. \A k \in 0..((Len(s) - a) - 1) : k \in S => k + 1 \in S
    BY <1>2
  <2> QED BY <1>0, <1>1, <2>1, Induct
<1>4. b - a \in 0..(Len(s) - a) /\ a + (b - a) = b
  BY <1>0
<1>5. Columns(SubSeq(s, a + 1, b)) = Upto(s, b) - Upto(s, a)
  BY <1>3, <1>4
<1>6. Columns(SubSeq(s, a + 1, b)) \in Nat
  <2>1. SubSeq(s, a + 1, b) \in Seq(Keyboard)
    BY <1>0
  <2> QED BY <2>1, ColumnsIs
<1>7. Upto(s, b) \in Nat /\ Upto(s, a) \in Nat
  BY <1>0, UptoIs
<1> QED BY <1>5, <1>6, <1>7

-----------------------------------------------------------------------------
\* The rows of a dialog.

\* The recursive function is what its definition says.
LEMMA FilledIs ==
  ASSUME text \in Seq(Keyboard)
  PROVE  /\ \A i \in 0..Len(text) : Filled[i] \in Nat
         /\ Filled[0] = 0
         /\ \A i \in 1..Len(text) :
               Filled[i] = WidthOf[text[i]] + IF Wraps(Filled[i - 1], i) THEN 0 ELSE Filled[i - 1]
<1> DEFINE n == Len(text)
           places == [i \in 1..n |-> i]
           After(used, i) == WidthOf[text[i]] + IF Wraps(used, i) THEN 0 ELSE used
           Step == [used \in Nat |-> [i \in 1..n |-> After(used, i)]]
           Eq(f) == f = [i \in 0..n |-> IF i = 0 THEN 0 ELSE After(f[i - 1], i)]
<1>0. n \in Nat /\ \A i \in 1..n : WidthOf[text[i]] \in Nat
  <2>1. \A i \in 1..n : WidthOf[text[i]] \in 0..2
    BY UptoIs
  <2> QED BY <2>1
<1> HIDE DEF n
<1>1. places \in Seq(1..n) /\ Len(places) = n /\ \A i \in 1..n : places[i] = i
  BY <1>0
<1>2. \A used \in Nat, i \in 1..n : After(used, i) \in Nat
  BY <1>0
<1>3. Step \in [Nat -> [1..n -> Nat]]
  <2> HIDE DEF After
  <2> QED BY <1>2
<1>4. \A used \in Nat, i \in 1..n : Step[used][i] = After(used, i)
  OBVIOUS
<1> HIDE DEF After, Step, places
<1>5. PICK v : IsRun(v, Nat, Step, 0, places)
  <2>1. HasRun(Nat, Step, 0, places)
    BY <1>1, <1>3, RunExists, 0 \in Nat
  <2> QED BY <2>1 DEF HasRun
<1>6. v \in [0..n -> Nat] /\ v[0] = 0 /\ \A k \in 0..(n - 1) : v[k + 1] = After(v[k], k + 1)
  <2>1. v \in [0..n -> Nat] /\ v[0] = 0 /\ \A k \in 0..(n - 1) : v[k + 1] = Step[v[k]][places[k + 1]]
    BY <1>1, <1>5 DEF IsRun
  <2>2. ASSUME NEW k \in 0..(n - 1) PROVE v[k + 1] = After(v[k], k + 1)
    <3>1. v[k] \in Nat /\ k + 1 \in 1..n
      BY <1>0, <2>1
    <3> QED BY <1>1, <1>4, <2>1, <3>1
  <2> QED BY <2>1, <2>2
<1>7. \A i \in 1..n : v[i] = After(v[i - 1], i)
  <2> SUFFICES ASSUME NEW i \in 1..n PROVE v[i] = After(v[i - 1], i)
    OBVIOUS
  <2>1. i - 1 \in 0..(n - 1) /\ (i - 1) + 1 = i
    BY <1>0
  <2> QED BY <1>6, <2>1
<1>8. Eq(v)
  BY <1>0, <1>6, <1>7
<1>9. Filled = CHOOSE f : Eq(f)
  BY DEF Filled, After, n
<1>10. Eq(Filled)
  BY <1>8, <1>9
<1>11. Filled[0] = 0 /\ \A i \in 1..n : Filled[i] = After(Filled[i - 1], i)
  BY <1>0, <1>10
<1>12. \A i \in 0..n : Filled[i] \in Nat
  <2> DEFINE S == {i \in 0..n : Filled[i] \in Nat}
  <2>1. 0 \in S
    BY <1>0, <1>11
  <2>2. ASSUME NEW k \in 0..(n - 1), k \in S PROVE k + 1 \in S
    <3>1. k + 1 \in 1..n /\ k + 1 \in 0..n /\ (k + 1) - 1 = k
      BY <1>0
    <3> QED BY <1>2, <1>11, <2>2, <3>1
  <2>3. \A k \in 0..n : k \in S
    <3> HIDE DEF S
    <3> QED BY <1>0, <2>1, <2>2, Induct
  <2> QED BY <2>3
<1> QED BY <1>11, <1>12 DEF After, n

LEMMA FilledFits ==
  ASSUME text \in Seq(Keyboard)
  PROVE  \A i \in 0..Len(text) : Filled[i] \in 0..Width
<1> SUFFICES ASSUME NEW i \in 0..Len(text) PROVE Filled[i] \in 0..Width
  OBVIOUS
<1>1. Width \in Nat /\ 2 <= Width
  <2>1. Width \in Nat \ {0, 1}
    BY InputAssumption
  <2> QED BY <2>1
<1>2. CASE i = 0
  BY <1>1, <1>2, FilledIs
<1>3. CASE i # 0
  <2>1. i \in 1..Len(text) /\ i - 1 \in 0..Len(text)
    BY <1>3, Len(text) \in Nat
  <2>2. WidthOf[text[i]] \in 0..2 /\ Filled[i - 1] \in Nat
    BY <2>1, FilledIs, UptoIs
  <2>3. Filled[i] = WidthOf[text[i]] + IF Wraps(Filled[i - 1], i) THEN 0 ELSE Filled[i - 1]
    BY <2>1, FilledIs
  <2> DEFINE w == WidthOf[text[i]]
             before == Filled[i - 1]
             here == Filled[i]
  <2>4. Wraps(before, i) <=> before + w > Width /\ before > 0
    BY Zenon DEF Wraps
  <2>5. w \in 0..2 /\ before \in Nat /\ here = w + IF Wraps(before, i) THEN 0 ELSE before
    BY <2>2, <2>3
  <2> HIDE DEF w, before, here
  <2>6. here \in 0..Width
    BY <1>1, <2>4, <2>5
  <2> QED BY <2>6 DEF here
<1> QED BY <1>2, <1>3

\* The start of the row of a place, and the columns from there on.
LastStart(i) == Max(RowStarts \cap 0..i)

LEMMA LastStartIs ==
  ASSUME text \in Seq(Keyboard), NEW i \in 0..Len(text)
  PROVE  /\ LastStart(i) \in RowStarts /\ LastStart(i) \in 0..i /\ LastStart(i) \in 0..Len(text)
         /\ \A r \in RowStarts : r <= i => r <= LastStart(i)
         /\ ColumnOf(i) = Upto(text, i) - Upto(text, LastStart(i))
<1> DEFINE S == RowStarts \cap 0..i
<1>1. S \in SUBSET Int /\ 0 \in S /\ i \in Int /\ i \in Nat /\ \A x \in S : x <= i
  BY DEF RowStarts
<1>2. Max(S) \in S /\ \A x \in S : x <= Max(S)
  <2> HIDE DEF S
  <2> QED BY <1>1, MaxOf
<1>3. LastStart(i) \in RowStarts /\ LastStart(i) \in 0..i /\ LastStart(i) \in 0..Len(text)
  BY <1>2 DEF LastStart
<1>4. ASSUME NEW r \in RowStarts, r <= i PROVE r <= LastStart(i)
  <2>1. r \in 0..i
    BY <1>1, <1>4 DEF RowStarts
  <2> QED BY <1>2, <2>1 DEF LastStart
<1>5. i \in LastStart(i)..Len(text)
  BY <1>1, <1>3
<1>6. Columns(SubSeq(text, LastStart(i) + 1, i)) = Upto(text, i) - Upto(text, LastStart(i))
  BY <1>3, <1>5, ColumnsBetween
<1> QED BY <1>3, <1>4, <1>6 DEF ColumnOf, LastStart

LEMMA RowStartsIs ==
  ASSUME text \in Seq(Keyboard)
  PROVE  /\ 0 \in RowStarts /\ RowStarts \in SUBSET (0..Len(text)) /\ Len(text) \in Nat
         /\ \A i \in 1..(Len(text) - 1) : i \in RowStarts <=> Wraps(Filled[i], i + 1)
BY DEF RowStarts

\* The columns taken on a row are those since its start, before the next row begins.
LEMMA FilledSince ==
  ASSUME text \in Seq(Keyboard), NEW j \in 0..(Len(text) - 1)
  PROVE  Filled[j + 1] = Upto(text, j + 1) - Upto(text, LastStart(j))
<1> DEFINE n == Len(text) - 1
           S == {i \in 0..n : Filled[i + 1] = Upto(text, i + 1) - Upto(text, LastStart(i))}
<1>0. n \in Nat /\ Len(text) = n + 1
  OBVIOUS
<1> HIDE DEF n
<1>1. \A i \in 0..(n + 1) : Upto(text, i) \in Nat /\ Filled[i] \in Nat
  BY <1>0, UptoIs, FilledIs
<1>2. \A i \in 0..n : /\ Upto(text, i + 1) = Upto(text, i) + WidthOf[text[i + 1]]
                      /\ WidthOf[text[i + 1]] \in 0..2
                      /\ Filled[i + 1] = WidthOf[text[i + 1]]
                                           + IF Wraps(Filled[i], i + 1) THEN 0 ELSE Filled[i]
  <2> SUFFICES ASSUME NEW i \in 0..n
               PROVE  /\ Upto(text, i + 1) = Upto(text, i) + WidthOf[text[i + 1]]
                      /\ WidthOf[text[i + 1]] \in 0..2
                      /\ Filled[i + 1] = WidthOf[text[i + 1]]
                                           + IF Wraps(Filled[i], i + 1) THEN 0 ELSE Filled[i]
    OBVIOUS
  <2>1. i \in 0..(Len(text) - 1) /\ i + 1 \in 1..Len(text) /\ (i + 1) - 1 = i
    BY <1>0
  <2>2. Upto(text, i + 1) = Upto(text, i) + WidthOf[text[i + 1]] /\ WidthOf[text[i + 1]] \in 0..2
    BY <2>1, UptoIs
  <2>3. Filled[i + 1] = WidthOf[text[i + 1]]
                          + IF Wraps(Filled[(i + 1) - 1], i + 1) THEN 0 ELSE Filled[(i + 1) - 1]
    BY <2>1, FilledIs
  <2> QED BY <2>1, <2>2, <2>3
<1>3. ASSUME NEW i \in 0..n, i \in RowStarts, i # 0 => Wraps(Filled[i], i + 1) PROVE i \in S
  <2>1. LastStart(i) = i
    <3>1. i \in 0..Len(text) /\ i \in Int
      BY <1>0
    <3>2. LastStart(i) \in 0..i /\ i <= LastStart(i)
      BY <1>3, <3>1, LastStartIs
    <3> QED BY <3>1, <3>2
  <2>2. Filled[i + 1] = WidthOf[text[i + 1]]
    <3>1. /\ Filled[i + 1] = WidthOf[text[i + 1]] + IF Wraps(Filled[i], i + 1) THEN 0 ELSE Filled[i]
          /\ WidthOf[text[i + 1]] \in 0..2
      BY <1>2
    <3>2. Wraps(Filled[i], i + 1) \/ Filled[i] = 0
      BY <1>3, FilledIs
    <3> QED BY <3>1, <3>2
  <2>3. Upto(text, i) \in Nat
    BY <1>0, <1>1
  <2> QED BY <1>2, <2>1, <2>2, <2>3
<1>4. 0 \in S
  BY <1>0, <1>3, RowStartsIs
<1>5. ASSUME NEW k \in 0..(n - 1), k \in S PROVE k + 1 \in S
  <2>1. k \in 0..n /\ k + 1 \in 0..n /\ k + 1 \in 1..(Len(text) - 1) /\ k \in 0..Len(text) /\ k + 1 \in 0..Len(text)
        /\ k \in Int /\ k + 1 \in 0..(n + 1)
    BY <1>0
  <2>2. CASE k + 1 \in RowStarts
    BY <1>3, <2>1, <2>2, RowStartsIs
  <2>3. CASE k + 1 \notin RowStarts
    <3>1. ~ Wraps(Filled[k + 1], (k + 1) + 1)
      BY <2>1, <2>3, RowStartsIs
    <3>2. LastStart(k + 1) = LastStart(k)
      <4>1. LastStart(k + 1) \in RowStarts /\ LastStart(k + 1) \in 0..(k + 1)
            /\ \A r \in RowStarts : r <= k + 1 => r <= LastStart(k + 1)
        BY <2>1, LastStartIs
      <4>2. LastStart(k) \in RowStarts /\ LastStart(k) \in 0..k
            /\ \A r \in RowStarts : r <= k => r <= LastStart(k)
        BY <2>1, LastStartIs
      <4>3. LastStart(k + 1) # k + 1
        BY <2>3, <4>1
      <4> QED BY <2>1, <4>1, <4>2, <4>3
    <3>3. Filled[(k + 1) + 1] = WidthOf[text[(k + 1) + 1]] + Filled[k + 1]
      BY <1>2, <2>1, <3>1
    <3>4. Filled[k + 1] = Upto(text, k + 1) - Upto(text, LastStart(k))
      BY <1>5
    <3>5. Upto(text, LastStart(k)) \in Nat
      <4>1. LastStart(k) \in 0..Len(text)
        BY <2>1, LastStartIs
      <4> QED BY <4>1, UptoIs
    <3>6. Upto(text, (k + 1) + 1) = Upto(text, k + 1) + WidthOf[text[(k + 1) + 1]]
          /\ WidthOf[text[(k + 1) + 1]] \in 0..2 /\ Upto(text, k + 1) \in Nat
      BY <1>1, <1>2, <2>1
    <3>7. Filled[(k + 1) + 1] = Upto(text, (k + 1) + 1) - Upto(text, LastStart(k + 1))
      BY <3>2, <3>3, <3>4, <3>5, <3>6
    <3> QED BY <2>1, <3>7
  <2> QED BY <2>2, <2>3
<1>6. \A k \in 0..n : k \in S
  <2> HIDE DEF S
  <2> QED BY <1>0, <1>4, <1>5, Induct
<1> QED BY <1>6 DEF n

\* How wide a row is at a place of it.
LEMMA ColumnFits ==
  ASSUME text \in Seq(Keyboard), NEW i \in 0..Len(text)
  PROVE  /\ ColumnOf(i) \in 0..Width
         /\ ColumnOf(i) > 0 => /\ i \in 1..Len(text) /\ i \notin RowStarts
                               /\ ColumnOf(i) = Filled[i]
<1>0. Len(text) \in Nat /\ i \in Nat
  OBVIOUS
<1>1. Width \in Nat
  BY InputAssumption
<1>2. ColumnOf(i) = Upto(text, i) - Upto(text, LastStart(i)) /\ Upto(text, i) \in Nat
  BY LastStartIs, UptoIs
<1>3. CASE i \in RowStarts
  <2>1. LastStart(i) = i
    BY <1>0, <1>3, LastStartIs
  <2>2. ColumnOf(i) = 0
    BY <1>2, <2>1
  <2> QED BY <1>1, <2>2
<1>4. CASE i \notin RowStarts
  <2>1. i \in 1..Len(text) /\ i - 1 \in 0..(Len(text) - 1) /\ i - 1 \in 0..Len(text) /\ (i - 1) + 1 = i
    BY <1>0, <1>4, RowStartsIs
  <2>2. LastStart(i) = LastStart(i - 1)
    <3>1. LastStart(i) \in RowStarts /\ LastStart(i) \in 0..i /\ \A r \in RowStarts : r <= i => r <= LastStart(i)
      BY LastStartIs
    <3>2. LastStart(i - 1) \in RowStarts /\ LastStart(i - 1) \in 0..(i - 1)
          /\ \A r \in RowStarts : r <= i - 1 => r <= LastStart(i - 1)
      BY <2>1, LastStartIs
    <3>3. LastStart(i) # i
      BY <1>4, <3>1
    <3> QED BY <1>0, <3>1, <3>2, <3>3
  <2>3. Filled[i] = Upto(text, i) - Upto(text, LastStart(i - 1))
    BY <2>1, FilledSince
  <2>4. ColumnOf(i) = Filled[i] /\ Filled[i] \in 0..Width
    BY <1>2, <2>2, <2>3, FilledFits
  <2> QED BY <1>4, <2>1, <2>4
<1> QED BY <1>3, <1>4

\* The rows are numbered in the order of the text.
LEMMA RowsAre ==
  ASSUME text \in Seq(Keyboard)
  PROVE  /\ Rows \in Nat \ {0}
         /\ \A i \in 0..Len(text) : RowOf(i) \in 0..(Rows - 1)
         /\ RowOf(0) = 0 /\ RowOf(Len(text)) = Rows - 1
<1>1. IsFiniteSet(RowStarts) /\ 0 \in RowStarts /\ RowStarts \in SUBSET (0..Len(text)) /\ Len(text) \in Nat
  <2>1. IsFiniteSet(0..Len(text))
    BY FS_Interval, Len(text) \in Int, 0 \in Int
  <2> QED BY <2>1, RowStartsIs, FS_Subset
<1>2. ASSUME NEW i \in 0..Len(text)
      PROVE  RowOf(i) \in Int /\ 0 <= RowOf(i) /\ RowOf(i) <= Rows - 1 /\ Rows \in Nat
  <2> DEFINE S == RowStarts \cap 0..i
  <2>1. S \subseteq RowStarts /\ {0} \subseteq S
    BY <1>1
  <2> HIDE DEF S
  <2>2. IsFiniteSet(S) /\ Cardinality(S) <= Cardinality(RowStarts)
    BY <1>1, <2>1, FS_Subset
  <2>3. Cardinality({0}) <= Cardinality(S) /\ Cardinality({0}) = 1
    BY <2>1, <2>2, FS_Subset, FS_Singleton
  <2>4. Cardinality(S) \in Nat /\ Cardinality(RowStarts) \in Nat
    BY <1>1, <2>2, FS_CardinalityType
  <2> QED BY <2>2, <2>3, <2>4 DEF RowOf, Rows, S
<1>3. RowOf(0) = 0
  <2>1. RowStarts \cap 0..0 = {0}
    BY <1>1
  <2>2. Cardinality({0}) = 1
    BY FS_Singleton
  <2>3. Cardinality(RowStarts \cap 0..0) = 1
    BY <2>1, <2>2, Zenon
  <2> QED BY <2>3 DEF RowOf
<1>4. RowOf(Len(text)) = Rows - 1
  <2>1. RowStarts \cap 0..Len(text) = RowStarts
    BY <1>1
  <2> QED BY <2>1 DEF RowOf, Rows
<1>5. 0 \in 0..Len(text)
  BY <1>1
<1> QED BY <1>2, <1>3, <1>4, <1>5

LEMMA RowOrder ==
  ASSUME text \in Seq(Keyboard), NEW i \in 0..Len(text), NEW j \in i..Len(text)
  PROVE  IF LastStart(j) <= i THEN RowOf(j) = RowOf(i) /\ LastStart(j) = LastStart(i)
                              ELSE RowOf(i) < RowOf(j)
<1>0. i \in Nat /\ j \in Nat /\ j \in 0..Len(text) /\ i <= j
  OBVIOUS
<1>1. /\ LastStart(i) \in RowStarts /\ LastStart(i) \in 0..i
      /\ \A r \in RowStarts : r <= i => r <= LastStart(i)
  BY LastStartIs
<1>2. /\ LastStart(j) \in RowStarts /\ LastStart(j) \in 0..j
      /\ \A r \in RowStarts : r <= j => r <= LastStart(j)
  BY <1>0, LastStartIs
<1>3. RowStarts \in SUBSET Nat
  BY RowStartsIs
<1>4. CASE LastStart(j) <= i
  <2>1. RowStarts \cap 0..j = RowStarts \cap 0..i
    <3> SUFFICES ASSUME NEW r \in RowStarts PROVE r \in 0..j <=> r \in 0..i
      OBVIOUS
    <3> r \in Nat
      BY <1>3
    <3> QED BY <1>0, <1>2, <1>4
  <2> QED BY <1>4, <2>1 DEF RowOf, LastStart
<1>5. CASE ~(LastStart(j) <= i)
  <2> DEFINE S == RowStarts \cap 0..i
             T == RowStarts \cap 0..j
  <2>1. S \subseteq T /\ LastStart(j) \in T /\ LastStart(j) \notin S /\ T \subseteq 0..j
    BY <1>0, <1>2, <1>5
  <2>2. IsFiniteSet(0..j)
    BY <1>0, FS_Interval, 0 \in Int, j \in Int
  <2> HIDE DEF S, T
  <2>3. IsFiniteSet(T) /\ S # T
    BY <2>1, <2>2, FS_Subset
  <2>4. IsFiniteSet(S) /\ Cardinality(S) <= Cardinality(T) /\ Cardinality(S) # Cardinality(T)
    <3>1. IsFiniteSet(S) /\ Cardinality(S) <= Cardinality(T) /\ (Cardinality(T) = Cardinality(S) => T = S)
      BY <2>1, <2>3, FS_Subset, Zenon
    <3> QED BY <2>3, <3>1
  <2>5. Cardinality(S) \in Nat /\ Cardinality(T) \in Nat
    BY <2>3, <2>4, FS_CardinalityType
  <2> QED BY <1>5, <2>4, <2>5 DEF RowOf, S, T
<1> QED BY <1>4, <1>5

LEMMA RowStep ==
  ASSUME text \in Seq(Keyboard), NEW i \in 1..Len(text), i \in RowStarts
  PROVE  RowOf(i) = RowOf(i - 1) + 1
<1>0. i \in Nat /\ i - 1 \in Nat
  OBVIOUS
<1> DEFINE S == RowStarts \cap 0..(i - 1)
<1>1. RowStarts \cap 0..i = S \cup {i} /\ i \notin S /\ S \subseteq 0..(i - 1)
  BY <1>0
<1>2. IsFiniteSet(0..(i - 1))
  BY <1>0, FS_Interval, 0 \in Int, i - 1 \in Int
<1> HIDE DEF S
<1>3. IsFiniteSet(S)
  BY <1>1, <1>2, FS_Subset
<1>4. Cardinality(S \cup {i}) = Cardinality(S) + 1 /\ Cardinality(S) \in Nat
  BY <1>1, <1>3, FS_AddElement, FS_CardinalityType
<1>5. RowOf(i) = Cardinality(S \cup {i}) - 1
  <2>1. Cardinality(RowStarts \cap 0..i) = Cardinality(S \cup {i})
    BY <1>1, Zenon
  <2> QED BY <2>1 DEF RowOf
<1>6. RowOf(i - 1) = Cardinality(S) - 1
  BY DEF RowOf, S
<1> QED BY <1>4, <1>5, <1>6

\* Every row has a start.
LEMMA RowExists ==
  ASSUME text \in Seq(Keyboard)
  PROVE  \A row \in 0..(Rows - 1) : \E i \in RowStarts : RowOf(i) = row
<1>1. Rows - 1 \in Nat /\ RowOf(0) = 0 /\ RowOf(Len(text)) = Rows - 1 /\ Len(text) \in Nat
      /\ \A i \in 0..Len(text) : RowOf(i) \in 0..(Rows - 1)
  BY RowsAre
<1>2. 0 \in RowStarts /\ RowStarts \in SUBSET (0..Len(text))
  BY RowStartsIs
<1> DEFINE S == {row \in 0..(Rows - 1) : \E i \in RowStarts : RowOf(i) = row}
<1>3. 0 \in S
  BY <1>1, <1>2
<1>4. ASSUME NEW row \in 0..((Rows - 1) - 1), row \in S PROVE row + 1 \in S
  <2>1. PICK i \in RowStarts : RowOf(i) = row
    BY <1>4
  <2>2. i \in 0..Len(text) /\ Len(text) \in i..Len(text)
    BY <1>1, <1>2
  <2>3. LastStart(Len(text)) \in RowStarts /\ ~(LastStart(Len(text)) <= i)
    <3>1. RowOf(Len(text)) # RowOf(i)
      BY <1>1, <2>1
    <3>2. LastStart(Len(text)) \in RowStarts
      BY <1>1, LastStartIs, Len(text) \in 0..Len(text)
    <3> QED BY <2>2, <3>1, <3>2, RowOrder
  <2> DEFINE T == {s \in RowStarts : i < s}
  <2>4. PICK m \in T : \A k \in T : m <= k
    <3>1. \A s \in RowStarts : s \in Nat
      BY <1>2
    <3>2. LastStart(Len(text)) \in T
      <4>1. LastStart(Len(text)) \in Nat /\ i \in Nat /\ LastStart(Len(text)) \in RowStarts
        BY <2>2, <2>3, <3>1
      <4> QED BY <2>3, <4>1
    <3>3. T \in SUBSET Nat
      BY <3>1
    <3> HIDE DEF T
    <3> QED BY <3>2, <3>3, Least
  <2>5. m \in RowStarts /\ i < m /\ m \in 1..Len(text) /\ m - 1 \in 0..Len(text) /\ m - 1 \in i..Len(text)
    BY <1>1, <1>2, <2>2, <2>4
  <2>6. RowOf(m) = RowOf(m - 1) + 1
    BY <2>5, RowStep
  <2>7. LastStart(m - 1) <= i
    <3>1. LastStart(m - 1) \in RowStarts /\ LastStart(m - 1) \in 0..(m - 1)
      BY <2>5, LastStartIs
    <3>2. LastStart(m - 1) \notin T
      BY <2>4, <2>5, <3>1
    <3> QED BY <2>2, <3>1, <3>2
  <2>8. RowOf(m - 1) = RowOf(i)
    BY <2>2, <2>5, <2>7, RowOrder
  <2>9. RowOf(m) = row + 1 /\ row + 1 \in 0..(Rows - 1)
    BY <1>1, <2>1, <2>6, <2>8
  <2> QED BY <2>5, <2>9
<1>5. \A row \in 0..(Rows - 1) : row \in S
  <2> HIDE DEF S
  <2> QED BY <1>1, <1>3, <1>4, Induct
<1> QED BY <1>5

LEMMA RowStartIs ==
  ASSUME text \in Seq(Keyboard), NEW row \in 0..(Rows - 1)
  PROVE  RowStart(row) \in RowStarts /\ RowOf(RowStart(row)) = row /\ RowStart(row) \in 0..Len(text)
<1>1. \E i \in RowStarts : RowOf(i) = row
  BY RowExists
<1>2. RowStart(row) \in RowStarts /\ RowOf(RowStart(row)) = row
  BY <1>1, Zenon DEF RowStart
<1> QED BY <1>2, RowStartsIs

\* The places from the start of a row to its end are those on it.
LEMMA RowIs ==
  ASSUME text \in Seq(Keyboard), NEW row \in 0..(Rows - 1)
  PROVE  /\ RowEnd(row) \in RowStart(row)..Len(text)
         /\ \A i \in RowStart(row)..RowEnd(row) : RowOf(i) = row /\ LastStart(i) = RowStart(row)
<1> DEFINE q == RowStart(row)
           e == RowEnd(row)
<1>0. Len(text) \in Nat /\ row \in Nat /\ Rows \in Nat
  BY RowsAre
<1>1. q \in RowStarts /\ RowOf(q) = row /\ q \in 0..Len(text)
  BY RowStartIs
<1>2. ASSUME NEW s \in RowStarts, q < s PROVE row + 1 <= RowOf(s) /\ s \in q..Len(text) /\ s \in 0..Len(text)
  <2>1. s \in q..Len(text) /\ s \in 0..Len(text)
    BY <1>0, <1>1, <1>2, RowStartsIs
  <2>2. LastStart(s) \in 0..s /\ s <= LastStart(s)
    BY <1>2, <2>1, LastStartIs
  <2>3. ~(LastStart(s) <= q)
    BY <1>1, <1>2, <2>1, <2>2
  <2>4. RowOf(q) < RowOf(s) /\ RowOf(s) \in Int
    BY <1>1, <2>1, <2>3, RowOrder, RowsAre
  <2> QED BY <1>0, <1>1, <2>1, <2>4
<1> HIDE DEF q
<1>3. e \in q..Len(text) /\ \A s \in RowStarts : q < s => e < s
  <2>1. CASE row + 1 < Rows
    <3> DEFINE u == RowStart(row + 1)
    <3>1. u \in RowStarts /\ RowOf(u) = row + 1 /\ u \in 0..Len(text)
      BY <1>0, <2>1, RowStartIs, row + 1 \in 0..(Rows - 1)
    <3> HIDE DEF u
    <3>2. q < u
      <4>1. CASE u < q
        <5>1. q \in u..Len(text)
          BY <1>1, <3>1, <4>1
        <5>2. RowOf(u) <= RowOf(q)
          BY <1>0, <1>1, <3>1, <5>1, RowOrder
        <5> QED BY <1>0, <1>1, <3>1, <5>2
      <4>2. u # q
        BY <1>0, <1>1, <3>1
      <4> QED BY <1>1, <3>1, <4>1, <4>2
    <3>3. e = u - 1
      BY <2>1 DEF RowEnd, u
    <3>4. ASSUME NEW s \in RowStarts, q < s PROVE u <= s
      <4>1. s \in 0..Len(text) /\ row + 1 <= RowOf(s) /\ s \in q..Len(text)
        BY <1>2, <3>4
      <4>2. SUFFICES ASSUME s < u PROVE FALSE
        BY <3>1, <4>1
      <4>3. u \in s..Len(text)
        BY <3>1, <4>1, <4>2
      <4>4. u <= LastStart(u)
        BY <3>1, LastStartIs
      <4>5. LastStart(u) \in 0..u
        BY <3>1, LastStartIs
      <4>6. RowOf(s) < RowOf(u) /\ RowOf(s) \in Int
        BY <3>1, <4>1, <4>2, <4>3, <4>4, <4>5, RowOrder, RowsAre
      <4> QED BY <1>0, <3>1, <4>1, <4>6
    <3>5. e \in q..Len(text)
      BY <1>1, <3>1, <3>2, <3>3
    <3>6. \A s \in RowStarts : q < s => e < s
      BY <3>1, <3>3, <3>4, RowStartsIs
    <3> QED BY <3>5, <3>6
  <2>2. CASE ~(row + 1 < Rows)
    <3>1. e = Len(text) /\ row + 1 = Rows
      BY <1>0, <2>2 DEF RowEnd
    <3>2. ASSUME NEW s \in RowStarts, q < s PROVE FALSE
      <4>1. s \in 0..Len(text) /\ row + 1 <= RowOf(s)
        BY <1>2, <3>2
      <4>2. RowOf(s) \in 0..(Rows - 1)
        BY <4>1, RowsAre
      <4> QED BY <1>0, <3>1, <4>1, <4>2
    <3> QED BY <1>0, <1>1, <3>1, <3>2
  <2> QED BY <2>1, <2>2
<1> HIDE DEF e
<1>4. ASSUME NEW i \in q..e PROVE RowOf(i) = row /\ LastStart(i) = q
  <2>1. i \in 0..Len(text) /\ i \in q..Len(text) /\ q <= i /\ i <= e /\ i \in Int
    BY <1>1, <1>3
  <2>2. LastStart(i) \in RowStarts /\ LastStart(i) \in 0..i
    BY <2>1, LastStartIs
  <2>3. LastStart(i) <= q
    BY <1>1, <1>3, <2>1, <2>2
  <2>4. RowOf(i) = RowOf(q) /\ LastStart(i) = LastStart(q)
    BY <1>1, <2>1, <2>3, RowOrder
  <2>5. LastStart(q) \in 0..q /\ q <= LastStart(q)
    BY <1>1, LastStartIs
  <2>6. LastStart(q) = q
    BY <1>1, <2>5
  <2> QED BY <1>1, <2>4, <2>6
<1> QED BY <1>3, <1>4 DEF q, e

-----------------------------------------------------------------------------
\* The cursor of a dialog.

LEMMA MaxOfTwo ==
  ASSUME NEW a \in Int, NEW b \in Int
  PROVE  Max({a, b}) = IF a <= b THEN b ELSE a
<1> DEFINE S == {a, b}
<1>1. S \in SUBSET Int /\ S # {} /\ a \in S /\ b \in S
  OBVIOUS
<1>2. \E hi \in Int : \A x \in S : x <= hi
  <2>1. CASE a <= b
    BY <2>1
  <2>2. CASE b <= a
    BY <2>2
  <2> QED BY <2>1, <2>2
<1>3. Max(S) \in S /\ \A x \in S : x <= Max(S)
  <2> HIDE DEF S
  <2> QED BY <1>1, <1>2, MaxOf
<1> QED BY <1>3

LEMMA MinOfTwo ==
  ASSUME NEW a \in Int, NEW b \in Int
  PROVE  Min({a, b}) = IF a <= b THEN a ELSE b
<1> DEFINE S == {a, b}
<1>1. S \in SUBSET Int /\ S # {} /\ a \in S /\ b \in S
  OBVIOUS
<1>2. \E lo \in Int : \A x \in S : lo <= x
  <2>1. CASE a <= b
    BY <2>1
  <2>2. CASE b <= a
    BY <2>2
  <2> QED BY <2>1, <2>2
<1>3. Min(S) \in S /\ \A x \in S : Min(S) <= x
  <2> HIDE DEF S
  <2> QED BY <1>1, <1>2, MinOf
<1> QED BY <1>3

\* As many rows are shown as there is room for: at least one, and the row is one of them.
LEMMA RowIsShown ==
  ASSUME NEW row \in Nat, Rows \in Nat
  PROVE  row - Top(row) \in 0..(Shown(row) - 1)
<1> DEFINE S == {3, row + 1, Rows}
<1>1. Max(S) \in S /\ 3 <= Max(S)
  <2>1. S \in SUBSET Int /\ 3 \in S /\ row + 1 + Rows + 3 \in Int /\ \A x \in S : x <= row + 1 + Rows + 3
    OBVIOUS
  <2> HIDE DEF S
  <2> QED BY <2>1, MaxOf
<1>2. Max(S) \in Int /\ 3 <= Max(S) /\ MaxRows \in Int /\ 1 <= MaxRows
  <2>1. MaxRows \in Nat \ {0}
    BY InputAssumption
  <2> QED BY <1>1, <2>1
<1> HIDE DEF S
<1>3. Shown(row) = IF MaxRows <= Max(S) THEN MaxRows ELSE Max(S)
  BY <1>2, MinOfTwo DEF Shown, S
<1>4. Shown(row) \in Int /\ 1 <= Shown(row)
  BY <1>2, <1>3
<1>5. Top(row) = IF 0 <= row + 1 - Shown(row) THEN row + 1 - Shown(row) ELSE 0
  BY <1>4, MaxOfTwo, 0 \in Int, row + 1 - Shown(row) \in Int DEF Top
<1> QED BY <1>4, <1>5

\* Where a place of the text is on the screen.
LEMMA CursorPosIs ==
  ASSUME text \in Seq(Keyboard), NEW i \in 0..Len(text)
  PROVE  /\ ColumnOf(i) < Width => CursorPos(i) = <<RowOf(i), ColumnOf(i)>>
         /\ ColumnOf(i) >= Width => CursorPos(i) = <<RowOf(i) + 1, 0>>
         /\ CursorPos(i)[1] \in Nat /\ CursorPos(i)[2] \in 0..(Width - 1)
         /\ ColumnOf(i) \in 0..Width /\ RowOf(i) \in 0..(Rows - 1) /\ Width \in Nat /\ 2 <= Width
<1>1. ColumnOf(i) \in 0..Width /\ RowOf(i) \in 0..(Rows - 1)
  BY ColumnFits, RowsAre
<1>2. Width \in Nat /\ 2 <= Width
  <2>1. Width \in Nat \ {0, 1}
    BY InputAssumption
  <2> QED BY <2>1
<1>3. ColumnOf(i) < Width => CursorPos(i) = <<RowOf(i), ColumnOf(i)>>
  BY <1>1, <1>2 DEF CursorPos
<1>4. ColumnOf(i) >= Width => CursorPos(i) = <<RowOf(i) + 1, 0>>
  BY <1>1, <1>2 DEF CursorPos
<1> QED BY <1>1, <1>2, <1>3, <1>4

\* The next character has room where the cursor is.
LEMMA NextHasRoom ==
  ASSUME text \in Seq(Keyboard), NEW c \in 0..Len(text), c < Len(text)
  PROVE  CursorPos(c)[2] + WidthOf[text[c + 1]] <= Width
<1>0. c + 1 \in 1..Len(text) /\ WidthOf[text[c + 1]] \in 0..2
  <2>1. c + 1 \in 1..Len(text)
    BY Len(text) \in Nat
  <2> QED BY <2>1, UptoIs
<1>1. CASE ColumnOf(c) < Width /\ ColumnOf(c) > 0
  <2>1. c \in 1..Len(text) /\ c \notin RowStarts /\ ColumnOf(c) = Filled[c]
    BY <1>1, ColumnFits
  <2>2. c \in 1..(Len(text) - 1)
    BY <2>1, Len(text) \in Nat
  <2>3. ~ Wraps(Filled[c], c + 1)
    BY <2>1, <2>2, RowStartsIs
  <2>4. Filled[c] \in 0..Width /\ Width \in Nat
    BY <2>1, FilledFits, CursorPosIs
  <2>5. Filled[c] + WidthOf[text[c + 1]] <= Width
    BY <1>0, <1>1, <2>1, <2>3, <2>4 DEF Wraps
  <2> QED BY <1>1, <2>1, <2>5, CursorPosIs
<1>2. CASE ~(ColumnOf(c) < Width /\ ColumnOf(c) > 0)
  <2>1. CursorPos(c)[2] = 0 /\ 2 <= Width /\ Width \in Nat
    BY <1>2, CursorPosIs
  <2> QED BY <1>0, <2>1
<1> QED BY <1>1, <1>2

\* What comes before the cursor in the text is before it on the screen.
LEMMA CursorAfter ==
  ASSUME text \in Seq(Keyboard), NEW c \in 0..Len(text), NEW i \in 0..(c - 1),
         Upto(text, i) < Upto(text, c)
  PROVE  Before(CursorPos(i), CursorPos(c))
<1>0. Len(text) \in Nat /\ c \in Nat /\ i \in Nat /\ i \in 0..Len(text) /\ c \in i..Len(text)
  OBVIOUS
<1>1. /\ ColumnOf(i) = Upto(text, i) - Upto(text, LastStart(i)) /\ LastStart(i) \in 0..Len(text)
      /\ ColumnOf(c) = Upto(text, c) - Upto(text, LastStart(c)) /\ LastStart(c) \in 0..Len(text)
  BY <1>0, LastStartIs
<1>2. \A k \in 0..Len(text) : Upto(text, k) \in Nat
  BY UptoIs
<1>3. RowOf(i) \in Int /\ RowOf(c) \in Int /\ ColumnOf(i) \in 0..Width /\ ColumnOf(c) \in 0..Width
      /\ Width \in Nat /\ 2 <= Width
  BY <1>0, CursorPosIs
<1>4. CASE LastStart(c) <= i
  <2>1. RowOf(c) = RowOf(i) /\ LastStart(c) = LastStart(i)
    BY <1>0, <1>4, RowOrder
  <2>2. ColumnOf(i) < ColumnOf(c)
    BY <1>0, <1>1, <1>2, <2>1
  <2>3. CursorPos(i) = <<RowOf(i), ColumnOf(i)>>
    BY <1>0, <1>3, <2>2, CursorPosIs
  <2>4. CursorPos(c) = <<RowOf(c), ColumnOf(c)>> \/ CursorPos(c) = <<RowOf(c) + 1, 0>>
    BY <1>0, <1>3, CursorPosIs
  <2> QED BY <1>3, <2>1, <2>2, <2>3, <2>4 DEF Before
<1>5. CASE ~(LastStart(c) <= i)
  <2>1. RowOf(i) < RowOf(c)
    BY <1>0, <1>5, RowOrder
  <2>2. CASE ColumnOf(i) < Width
    <3>1. CursorPos(i) = <<RowOf(i), ColumnOf(i)>>
      BY <1>0, <2>2, CursorPosIs
    <3>2. CursorPos(c) = <<RowOf(c), ColumnOf(c)>> \/ CursorPos(c) = <<RowOf(c) + 1, 0>>
      BY <1>0, <1>3, CursorPosIs
    <3> QED BY <1>3, <2>1, <3>1, <3>2 DEF Before
  <2>3. CASE ColumnOf(c) >= Width \/ RowOf(i) + 1 < RowOf(c)
    <3>1. CursorPos(i) = <<RowOf(i), ColumnOf(i)>> \/ CursorPos(i) = <<RowOf(i) + 1, 0>>
      BY <1>0, <1>3, CursorPosIs
    <3>2. CursorPos(c) = <<RowOf(c), ColumnOf(c)>> \/ CursorPos(c) = <<RowOf(c) + 1, 0>>
      BY <1>0, <1>3, CursorPosIs
    <3>3. CASE ColumnOf(c) >= Width
      <4>1. CursorPos(c) = <<RowOf(c) + 1, 0>>
        BY <1>0, <3>3, CursorPosIs
      <4> QED BY <1>3, <2>1, <3>1, <4>1 DEF Before
    <3>4. CASE RowOf(i) + 1 < RowOf(c)
      BY <1>3, <3>1, <3>2, <3>4 DEF Before
    <3> QED BY <2>3, <3>3, <3>4
  <2>4. CASE ColumnOf(i) >= Width /\ ColumnOf(c) < Width /\ ~(RowOf(i) + 1 < RowOf(c))
    <3>1. ColumnOf(i) = Width /\ RowOf(c) = RowOf(i) + 1
      BY <1>3, <2>1, <2>4
    <3>2. CursorPos(i) = <<RowOf(i) + 1, 0>> /\ CursorPos(c) = <<RowOf(c), ColumnOf(c)>>
      BY <1>0, <2>4, CursorPosIs
    <3>3. ColumnOf(c) # 0
      <4> SUFFICES ASSUME ColumnOf(c) = 0 PROVE FALSE
        OBVIOUS
      <4> DEFINE r == LastStart(c)
      <4>1. r \in RowStarts /\ r \in 0..c /\ r \in 0..Len(text)
        BY LastStartIs
      <4>2. Upto(text, c) = Upto(text, r)
        BY <1>1, <1>2
      <4>3. i < r
        BY <1>0, <1>5, <4>1
      <4> HIDE DEF r
      <4>4. r - 1 \in 0..(Len(text) - 1) /\ r - 1 \in 0..Len(text) /\ r - 1 \in i..Len(text)
            /\ r \in 1..Len(text) /\ (r - 1) + 1 = r /\ c \in r..Len(text)
        BY <1>0, <4>1, <4>3
      <4>5. RowOf(r) = RowOf(r - 1) + 1 /\ RowOf(r - 1) \in Int
        BY <4>1, <4>4, RowStep, RowsAre
      <4>6. RowOf(r) <= RowOf(c)
        <5>1. RowOf(r) \in Int
          BY <4>1, RowsAre
        <5>2. RowOf(c) = RowOf(r) \/ RowOf(r) < RowOf(c)
          BY <4>1, <4>4, RowOrder
        <5> QED BY <1>3, <5>1, <5>2
      <4>7. LastStart(r - 1) <= i
        <5> SUFFICES ASSUME ~(LastStart(r - 1) <= i) PROVE FALSE
          OBVIOUS
        <5>1. RowOf(i) < RowOf(r - 1)
          BY <1>0, <4>4, RowOrder
        <5> QED BY <1>3, <3>1, <4>5, <4>6, <5>1
      <4>8. LastStart(r - 1) = LastStart(i)
        BY <1>0, <4>4, <4>7, RowOrder
      <4>9. Filled[r] = Upto(text, r) - Upto(text, LastStart(r - 1)) /\ Filled[r] \in 0..Width
        BY <4>1, <4>4, FilledSince, FilledFits
      <4>10. Upto(text, r) \in Nat /\ Upto(text, i) \in Nat /\ Upto(text, LastStart(i)) \in Nat
        BY <1>0, <1>1, <1>2, <4>1
      <4> QED BY <1>1, <1>3, <3>1, <4>2, <4>8, <4>9, <4>10
    <3> QED BY <1>3, <3>1, <3>2, <3>3 DEF Before
  <2> QED BY <1>3, <2>2, <2>3, <2>4
<1> QED BY <1>4, <1>5

\* What is asked of the cursor, wherever it is in whatever text.
LEMMA CursorIsOnScreen ==
  ASSUME sample.kind = "dialog" => text \in Seq(Keyboard) /\ cursor \in 0..Len(text)
  PROVE  CursorOnScreen
<1> SUFFICES ASSUME sample.kind = "dialog", text \in Seq(Keyboard), cursor \in 0..Len(text)
             PROVE  CursorOnScreen
  BY DEF CursorOnScreen
<1>1. CursorPos(cursor)[1] \in Nat /\ CursorPos(cursor)[2] \in 0..(Width - 1) /\ Rows \in Nat
  BY CursorPosIs, RowsAre
<1>2. CursorPos(cursor)[1] - Top(CursorPos(cursor)[1]) \in 0..(Shown(CursorPos(cursor)[1]) - 1)
  BY <1>1, RowIsShown
<1>3. cursor < Len(text) => CursorPos(cursor)[2] + WidthOf[text[cursor + 1]] <= Width
  BY NextHasRoom
<1>4. ASSUME NEW i \in 0..(cursor - 1), Columns(SubSeq(text, i + 1, cursor)) > 0
      PROVE  Before(CursorPos(i), CursorPos(cursor))
  <2>1. i \in 0..Len(text) /\ cursor \in i..Len(text) /\ cursor \in 0..Len(text)
    BY Len(text) \in Nat
  <2>2. Columns(SubSeq(text, i + 1, cursor)) = Upto(text, cursor) - Upto(text, i)
    BY <2>1, ColumnsBetween
  <2>3. Upto(text, cursor) \in Nat /\ Upto(text, i) \in Nat
    BY <2>1, UptoIs
  <2>4. Upto(text, i) < Upto(text, cursor)
    BY <1>4, <2>2, <2>3
  <2> QED BY <2>4, CursorAfter
<1> QED BY <1>1, <1>2, <1>3, <1>4 DEF CursorOnScreen

\* Where up and down go to.
LEMMA VerticalTarget ==
  ASSUME text \in Seq(Keyboard), cursor \in 0..Len(text),
         NEW row \in 0..(Rows - 1), NEW column \in 0..(Width - 1)
  PROVE  LET fits(i) == Columns(SubSeq(text, RowStart(row) + 1, i)) <= column
             to      == Max({i \in RowStart(row)..RowEnd(row) : fits(i)})
         IN  to \in 0..Len(text) /\ CursorPos(to)[1] = row /\ CursorPos(to)[2] <= column
<1> DEFINE q == RowStart(row)
           S == {i \in q..RowEnd(row) : Columns(SubSeq(text, q + 1, i)) <= column}
           to == Max(S)
<1>0. Len(text) \in Nat /\ column \in Nat /\ row \in Nat
  OBVIOUS
<1>1. q \in RowStarts /\ q \in 0..Len(text)
  BY RowStartIs
<1>2. RowEnd(row) \in q..Len(text) /\ \A i \in q..RowEnd(row) : RowOf(i) = row /\ LastStart(i) = q
  BY RowIs
<1> HIDE DEF q
<1>3. S \in SUBSET Int /\ Len(text) \in Int /\ (\A x \in S : x <= Len(text)) /\ RowEnd(row) \in Int
  BY <1>0, <1>1, <1>2
<1>4. q \in S
  <2>1. q \in 0..Len(text) /\ q \in q..Len(text)
    BY <1>1
  <2>2. Columns(SubSeq(text, q + 1, q)) = Upto(text, q) - Upto(text, q) /\ Upto(text, q) \in Nat
    BY <2>1, ColumnsBetween, UptoIs
  <2>3. q \in q..RowEnd(row)
    BY <1>1, <1>2, <1>3
  <2> QED BY <1>0, <2>2, <2>3
<1>5. to \in S
  <2>1. S # {}
    BY <1>4
  <2> HIDE DEF S
  <2> QED BY <1>3, <2>1, MaxOf
<1>6. to \in q..RowEnd(row) /\ Columns(SubSeq(text, q + 1, to)) <= column
  BY <1>5
<1> HIDE DEF to
<1>7. to \in 0..Len(text) /\ to \in q..Len(text) /\ RowOf(to) = row /\ LastStart(to) = q
  BY <1>0, <1>1, <1>2, <1>3, <1>6
<1>8. ColumnOf(to) = Upto(text, to) - Upto(text, q)
  BY <1>7, LastStartIs
<1>9. Columns(SubSeq(text, q + 1, to)) = Upto(text, to) - Upto(text, q)
  BY <1>1, <1>7, ColumnsBetween
<1>10. ColumnOf(to) <= column
  BY <1>6, <1>8, <1>9
<1>11. ColumnOf(to) \in 0..Width /\ Width \in Nat
  BY <1>7, CursorPosIs
<1>12. CursorPos(to) = <<row, ColumnOf(to)>>
  <2>1. ColumnOf(to) < Width
    BY <1>0, <1>10, <1>11
  <2> QED BY <1>7, <2>1, CursorPosIs
<1>13. to \in 0..Len(text) /\ CursorPos(to)[1] = row /\ CursorPos(to)[2] <= column
  BY <1>7, <1>10, <1>12
<1> QED BY <1>13 DEF to, q

\* Places that are not in the text are taken to be its beginning or its end.
LEMMA Clamped ==
  ASSUME NEW n \in Nat, NEW i \in Int
  PROVE  /\ Min({Max({0, i}), n}) \in 0..n
         /\ i \in 0..n => Min({Max({0, i}), n}) = i
<1>1. Max({0, i}) = IF 0 <= i THEN i ELSE 0
  BY MaxOfTwo, 0 \in Int
<1>2. Max({0, i}) \in Int /\ n \in Int /\ 0 <= Max({0, i})
  BY <1>1
<1>3. Min({Max({0, i}), n}) = IF Max({0, i}) <= n THEN Max({0, i}) ELSE n
  BY <1>2, MinOfTwo
<1> QED BY <1>1, <1>2, <1>3

\* Where the cursor goes when it goes to the row above or below.
LEMMA MoveVerticalIs ==
  ASSUME text \in Seq(Keyboard), cursor \in 0..Len(text), NEW delta \in {-1, 1},
         MoveVertical(delta)
  PROVE  /\ text' = text /\ cursor' \in 0..Len(text)
         /\ CursorPos(cursor')[1] = CursorPos(cursor)[1] + delta
         /\ CursorPos(cursor')[2] <= CursorPos(cursor)[2]
<1> DEFINE row == CursorPos(cursor)[1] + delta
           column == CursorPos(cursor)[2]
           to == Max({i \in RowStart(row)..RowEnd(row) :
                        Columns(SubSeq(text, RowStart(row) + 1, i)) <= column})
<1>1. row \in 0..(Rows - 1) /\ text' = text /\ cursor' = Min({Max({0, to}), Len(text)})
  BY DEF MoveVertical, GoTo
<1>2. column \in 0..(Width - 1)
  BY CursorPosIs
<1>3. to \in 0..Len(text) /\ CursorPos(to)[1] = row /\ CursorPos(to)[2] <= column
  <2> HIDE DEF row, column
  <2>1. row \in 0..(Rows - 1) /\ column \in 0..(Width - 1)
    BY <1>1, <1>2
  <2> QED BY <2>1, VerticalTarget
<1>4. cursor' = to
  <2> HIDE DEF to
  <2>1. to \in Int /\ Len(text) \in Nat
    BY <1>3
  <2> QED BY <1>1, <1>3, <2>1, Clamped
<1> QED BY <1>1, <1>3, <1>4

\* Where a place is on the screen depends on the text only.
LEMMA SamePos ==
  ASSUME text' = text
  PROVE  CursorPos(cursor)' = CursorPos(cursor')
<1>1. Filled' = Filled
  BY DEF Filled, Wraps
<1>2. RowStarts' = RowStarts
  BY <1>1 DEF RowStarts, Wraps
<1> QED BY <1>2 DEF CursorPos, ColumnOf, RowOf

-----------------------------------------------------------------------------
\* The keys, and the inputs of the other functions.

LEMMA InsertIs ==
  ASSUME text \in Seq(Keyboard), cursor \in 0..Len(text), Len(text) <= MaxLength,
         NEW c \in Keyboard, Insert(c)
  PROVE  text' \in Seq(Keyboard) /\ Len(text') <= MaxLength /\ cursor' \in 0..Len(text')
<1> DEFINE a == SubSeq(text, 1, cursor)
           b == SubSeq(text, cursor + 1, Len(text))
<1>0. Len(text) \in Nat /\ cursor \in Nat /\ cursor <= Len(text) /\ MaxLength \in Nat
  <2>1. MaxLength \in Nat
    BY InputAssumption
  <2> QED BY <2>1
<1>1. a \in Seq(Keyboard) /\ Len(a) = cursor
  BY <1>0
<1>2. b \in Seq(Keyboard) /\ Len(b) = Len(text) - cursor
  BY <1>0
<1>3. text' = (a \o <<c>>) \o b
  <2>1. text' = (SubSeq(text, 1, (cursor + 1) - 1) \o <<c>>) \o b
    BY DEF Insert, InsertAt
  <2>2. (cursor + 1) - 1 = cursor
    BY <1>0
  <2> QED BY <2>1, <2>2
<1>4. (a \o <<c>>) \o b \in Seq(Keyboard) /\ Len((a \o <<c>>) \o b) = Len(text) + 1
  <2> HIDE DEF a, b
  <2> DEFINE d == a \o <<c>>
  <2>1. d \in Seq(Keyboard) /\ Len(d) = cursor + 1
    BY <1>1
  <2> HIDE DEF d
  <2>2. d \o b \in Seq(Keyboard) /\ Len(d \o b) = Len(d) + Len(b)
    BY <1>2, <2>1, ConcatProperties
  <2>3. Len(d \o b) = Len(text) + 1
    BY <1>0, <1>2, <2>1, <2>2
  <2> QED BY <2>2, <2>3 DEF d
<1>5. cursor' = cursor + 1 /\ Len(text) < MaxLength
  BY DEF Insert
<1>6. text' \in Seq(Keyboard) /\ Len(text') = Len(text) + 1
  <2> HIDE DEF a, b
  <2> QED BY <1>3, <1>4
<1> QED BY <1>0, <1>5, <1>6

LEMMA DeleteFromIs ==
  ASSUME text \in Seq(Keyboard), Len(text) <= MaxLength,
         NEW from \in 0..Len(text), NEW to \in from..Len(text), DeleteFrom(from, to)
  PROVE  text' \in Seq(Keyboard) /\ Len(text') <= MaxLength /\ cursor' \in 0..Len(text')
<1> DEFINE a == SubSeq(text, 1, from)
           b == SubSeq(text, to + 1, Len(text))
<1>0. Len(text) \in Nat /\ from \in Nat /\ to \in Nat /\ from <= to /\ to <= Len(text) /\ MaxLength \in Nat
  <2>1. MaxLength \in Nat
    BY InputAssumption
  <2> QED BY <2>1
<1>1. a \in Seq(Keyboard) /\ Len(a) = from
  BY <1>0
<1>2. b \in Seq(Keyboard) /\ Len(b) = Len(text) - to
  BY <1>0
<1>3. text' = a \o b /\ cursor' = from
  BY DEF DeleteFrom
<1>4. a \o b \in Seq(Keyboard) /\ Len(a \o b) = from + (Len(text) - to)
  <2> HIDE DEF a, b
  <2>1. a \o b \in Seq(Keyboard) /\ Len(a \o b) = Len(a) + Len(b)
    BY <1>1, <1>2, ConcatProperties
  <2> QED BY <1>1, <1>2, <2>1
<1>5. text' \in Seq(Keyboard) /\ Len(text') = from + (Len(text) - to)
  <2> HIDE DEF a, b
  <2> QED BY <1>3, <1>4
<1>6. cursor' = from
  BY DEF DeleteFrom
<1> QED BY <1>0, <1>5, <1>6

\* The greatest of the places up to a bound that satisfy a condition, or 0.
LEMMA LastPlace ==
  ASSUME NEW n \in Nat, NEW S \in SUBSET (1..n)
  PROVE  Max({0} \cup S) \in 0..n
<1> DEFINE T == {0} \cup S
<1>1. T \in SUBSET Int /\ T # {} /\ n \in Int /\ (\A x \in T : x <= n) /\ T \subseteq 0..n
  OBVIOUS
<1>2. Max(T) \in T
  <2> HIDE DEF T
  <2> QED BY <1>1, MaxOf
<1> QED BY <1>1, <1>2

LEMMA WordStartIs ==
  ASSUME text \in Seq(Keyboard), cursor \in 0..Len(text)
  PROVE  WordStart \in 0..cursor
<1> DEFINE end == Max({0} \cup {i \in 1..cursor : text[i] # " "})
<1>1. end \in 0..cursor
  <2>1. {i \in 1..cursor : text[i] # " "} \in SUBSET (1..cursor)
    BY Zenon
  <2>2. cursor \in Nat
    OBVIOUS
  <2> QED BY <2>1, <2>2, LastPlace
<1>2. WordStart = Max({0} \cup {i \in 1..end : text[i] = " "})
  BY DEF WordStart
<1> HIDE DEF end
<1>3. {i \in 1..end : text[i] = " "} \in SUBSET (1..end)
  BY Zenon
<1>4. end \in Nat
  BY <1>1
<1>5. WordStart \in 0..end
  BY <1>2, <1>3, <1>4, LastPlace
<1> QED BY <1>1, <1>5

LEMMA GoToIs ==
  ASSUME text \in Seq(Keyboard), NEW i \in Int, GoTo(i)
  PROVE  text' = text /\ cursor' \in 0..Len(text)
<1>1. text' = text /\ cursor' = Min({Max({0, i}), Len(text)}) /\ Len(text) \in Nat
  BY DEF GoTo
<1> QED BY <1>1, Clamped

LEMMA EditIs ==
  ASSUME text \in Seq(Keyboard), cursor \in 0..Len(text), Len(text) <= MaxLength, Edit
  PROVE  text' \in Seq(Keyboard) /\ Len(text') <= MaxLength /\ cursor' \in 0..Len(text')
<1>0. Len(text) \in Nat /\ cursor \in Nat /\ cursor <= Len(text)
  OBVIOUS
<1>1. ASSUME NEW c \in Keyboard, Insert(c)
      PROVE  text' \in Seq(Keyboard) /\ Len(text') <= MaxLength /\ cursor' \in 0..Len(text')
  BY <1>1, InsertIs
<1>2. ASSUME NEW from \in 0..Len(text), NEW to \in from..Len(text), DeleteFrom(from, to)
      PROVE  text' \in Seq(Keyboard) /\ Len(text') <= MaxLength /\ cursor' \in 0..Len(text')
  BY <1>2, DeleteFromIs
<1>3. CASE KillWord
  <2>1. WordStart \in 0..Len(text) /\ cursor \in WordStart..Len(text)
    BY <1>0, WordStartIs
  <2> QED BY <1>2, <1>3, <2>1 DEF KillWord
<1>4. CASE KillBefore
  <2>1. 0 \in 0..Len(text) /\ cursor \in 0..Len(text)
    BY <1>0
  <2> QED BY <1>2, <1>4, <2>1 DEF KillBefore
<1>5. CASE KillAfter
  <2>1. cursor \in 0..Len(text) /\ Len(text) \in cursor..Len(text)
    BY <1>0
  <2> QED BY <1>2, <1>5, <2>1 DEF KillAfter
<1>6. CASE Backspace
  <2>1. cursor - 1 \in 0..Len(text) /\ cursor \in (cursor - 1)..Len(text)
    BY <1>0, <1>6 DEF Backspace
  <2> QED BY <1>2, <1>6, <2>1 DEF Backspace
<1>7. CASE Delete
  <2>1. cursor \in 0..Len(text) /\ cursor + 1 \in cursor..Len(text)
    BY <1>0, <1>7 DEF Delete
  <2> QED BY <1>2, <1>7, <2>1 DEF Delete
<1>8. ASSUME NEW i \in {0, cursor - 1, cursor + 1, Len(text)}, GoTo(i)
      PROVE  text' \in Seq(Keyboard) /\ Len(text') <= MaxLength /\ cursor' \in 0..Len(text')
  <2>1. i \in Int
    BY <1>0
  <2>2. text' = text /\ cursor' \in 0..Len(text)
    BY <1>8, <2>1, GoToIs
  <2> QED BY <2>2
<1>9. ASSUME NEW delta \in {-1, 1}, MoveVertical(delta)
      PROVE  text' \in Seq(Keyboard) /\ Len(text') <= MaxLength /\ cursor' \in 0..Len(text')
  <2>1. text' = text /\ cursor' \in 0..Len(text)
    BY <1>9, MoveVerticalIs
  <2> QED BY <2>1
<1> QED BY <1>1, <1>3, <1>4, <1>5, <1>6, <1>7, <1>8, <1>9 DEF Edit

\* At every moment the text of a dialog is one of characters that can be typed and the cursor
\* is in it, from its beginning to its end, whatever keys edit_input is given; and the other
\* inputs are what they are said to be.
THEOREM TextsTyped == Spec => []TextsTypeOK
<1>1. ASSUME Init PROVE TextsTypeOK
  <2>1. sample \in Samples /\ text = sample.start /\ cursor = 0 /\ elapsed = 0
    BY <1>1 DEF Init
  <2>2. Clocks \subseteq Int /\ Span \in Nat
    BY SampleAssumption
  <2>3. clock \in Int
    BY <1>1, <2>2 DEF Init
  <2>4. text \in Seq(sample.chars) /\ (sample.kind = "dialog" => sample.chars \subseteq Keyboard /\ Len(text) <= MaxLength)
    BY <2>1, SampleAssumption
  <2>5. CASE sample.kind = "dialog"
    <3>1. text \in Seq(Keyboard) /\ 0 \in 0..Len(text)
      BY <2>4, <2>5
    <3> QED BY <2>1, <2>2, <2>3, <2>4, <2>5, <3>1 DEF TextsTypeOK
  <2>6. CASE sample.kind # "dialog"
    BY <2>1, <2>2, <2>3, <2>4, <2>6 DEF TextsTypeOK
  <2> QED BY <2>5, <2>6
<1>2. ASSUME TextsTypeOK, [Next]_vars PROVE TextsTypeOK'
  <2>0. Span \in Nat /\ sample \in Samples /\ clock \in Int /\ elapsed \in 0..Span
    BY <1>2, SampleAssumption DEF TextsTypeOK
  <2>1. CASE Dialog
    <3>1. sample.kind = "dialog" /\ Edit /\ sample' = sample /\ clock' = clock /\ elapsed' = elapsed
      BY <2>1 DEF Dialog
    <3>2. text' \in Seq(Keyboard) /\ Len(text') <= MaxLength /\ cursor' \in 0..Len(text')
      BY <1>2, <3>1, EditIs DEF TextsTypeOK
    <3> QED BY <2>0, <3>1, <3>2 DEF TextsTypeOK
  <2>2. CASE Write
    <3>1. sample.kind # "dialog" /\ sample' = sample /\ clock' = clock /\ elapsed' = elapsed
      BY <2>2 DEF Write
    <3>2. text \in Seq(sample.chars)
      BY <1>2, <3>1 DEF TextsTypeOK
    <3>3. text' \in Seq(sample.chars)
      BY <2>2, <3>2 DEF Write
    <3> QED BY <2>0, <3>1, <3>3 DEF TextsTypeOK
  <2>3. CASE Tick
    <3>1. sample.kind # "dialog" /\ sample' = sample /\ text' = text /\ elapsed < Span /\ elapsed' = elapsed + 1
      BY <2>3 DEF Tick, input
    <3>2. clock' \in Int
      BY <2>0, <2>3 DEF Tick, DayLength
    <3>3. elapsed' \in 0..Span
      BY <2>0, <3>1
    <3> QED BY <1>2, <2>0, <3>1, <3>2, <3>3 DEF TextsTypeOK
  <2>4. CASE UNCHANGED vars
    BY <1>2, <2>4 DEF TextsTypeOK, vars, input
  <2> QED BY <1>2, <2>1, <2>2, <2>3, <2>4 DEF Next
<1> QED BY <1>1, <1>2, PTL DEF Spec

\* In every dialog, whatever is typed, the cursor that draw_input_dialog places is inside the
\* rows it shows, where the next character goes, and after all that comes before it.
THEOREM CursorShown == Spec => []CursorOnScreen
<1>1. TextsTypeOK => CursorOnScreen
  BY CursorIsOnScreen DEF TextsTypeOK
<1> QED BY <1>1, TextsTyped, PTL

\* move_vertical goes to the row above or below, never further to the right: from a column
\* past the end of that row, in front of a wide character, after a full last row.
THEOREM UpAndDown == Spec => VerticalMoves
<1>1. ASSUME TextsTypeOK, [Next]_vars, NEW delta \in {-1, 1}, sample.kind = "dialog", MoveVertical(delta)
      PROVE  /\ CursorPos(cursor)[1]' = CursorPos(cursor)[1] + delta
             /\ CursorPos(cursor)[2]' <= CursorPos(cursor)[2]
  <2>1. text \in Seq(Keyboard) /\ cursor \in 0..Len(text)
    BY <1>1 DEF TextsTypeOK
  <2>2. /\ text' = text
        /\ CursorPos(cursor')[1] = CursorPos(cursor)[1] + delta
        /\ CursorPos(cursor')[2] <= CursorPos(cursor)[2]
    BY <1>1, <2>1, MoveVerticalIs
  <2>3. CursorPos(cursor)' = CursorPos(cursor')
    BY <2>2, SamePos
  <2>4. CursorPos(cursor)[1]' = CursorPos(cursor')[1] /\ CursorPos(cursor)[2]' = CursorPos(cursor')[2]
    BY <2>3
  <2> QED BY <2>2, <2>4
<1>2. TextsTypeOK /\ [Next]_vars =>
        [\A delta \in {-1, 1} : sample.kind = "dialog" /\ MoveVertical(delta) =>
            /\ CursorPos(cursor)[1]' = CursorPos(cursor)[1] + delta
            /\ CursorPos(cursor)[2]' <= CursorPos(cursor)[2]]_vars
  BY <1>1
<1> QED BY <1>2, TextsTyped, PTL DEF Spec, VerticalMoves

-----------------------------------------------------------------------------
\* Dates.

\* The days of an era of 400 years, of its centuries, of the four years of those, and of the
\* year: c, q, u and t; the last day of the fourth year is not there in the last of a century,
\* and is there in the last of the era.
IsDay(doe, c, q, u, t) ==
    /\ c \in 0..3 /\ q \in 0..24 /\ u \in 0..3
    /\ t \in Int /\ 0 <= t /\ (IF u = 3 /\ (q = 24 => c = 3) THEN t <= 365 ELSE t <= 364)
    /\ doe = 36524 * c + 1461 * q + 365 * u + t

LEMMA YearOfDay ==
  ASSUME NEW doe, NEW c, NEW q, NEW u, NEW t, IsDay(doe, c, q, u, t)
  PROVE  /\ YearOfEra(doe) = 100 * c + 4 * q + u
         /\ YearOfEra(doe) \div 4 = 25 * c + q /\ YearOfEra(doe) \div 100 = c
<1> USE DEF IsDay
<1>1. doe \in Int
  BY SMT
<1>2. CASE c = 3 /\ q = 24 /\ u = 3 /\ t = 365
  <2>1. doe = 146096
    BY <1>2, SMT
  <2>2. doe \div 1460 = 100 /\ doe \div 36524 = 4 /\ doe \div 146096 = 1
    BY <2>1, SMT
  <2>3. YearOfEra(doe) = 399
    BY <2>1, <2>2, SMT DEF YearOfEra
  <2> QED BY <1>2, <2>3, SMT
<1>3. CASE ~(c = 3 /\ q = 24 /\ u = 3 /\ t = 365)
  <2>1. doe \div 36524 = c /\ doe \div 146096 = 0
    <3>1. 36524 * c <= doe /\ doe < 36524 * c + 36524 /\ doe < 146096
      BY <1>3, SMT
    <3> QED BY <3>1, <1>1, SMT
  <2>2. doe \div 1460 = 25 * c + q + (IF 24 * c + q + 365 * u + t >= 1460 THEN 1 ELSE 0)
    BY <1>1, SMT
  <2>3. (doe - doe \div 1460 + doe \div 36524 - doe \div 146096) \div 365 = 100 * c + 4 * q + u
    BY <1>1, <1>3, <2>1, <2>2, SMT
  <2>4. YearOfEra(doe) = 100 * c + 4 * q + u
    BY <2>3, SMT DEF YearOfEra
  <2> QED BY <2>4, SMT
<1> QED BY <1>2, <1>3

LEMMA DayExists ==
  ASSUME NEW doe \in Int, 0 <= doe, doe <= 146096
  PROVE  \E c, q, u, t \in Int : IsDay(doe, c, q, u, t)
<1> DEFINE c == IF doe = 146096 THEN 3 ELSE doe \div 36524
           r == doe - 36524 * c
           q == IF doe = 146096 THEN 24 ELSE r \div 1461
           s == r - 1461 * q
           u == IF s \div 365 = 4 THEN 3 ELSE s \div 365
           t == s - 365 * u
<1>1. c \in 0..3 /\ r \in Int /\ 0 <= r /\ (c # 3 => r <= 36523) /\ r <= 36524 /\ (r = 36524 <=> doe = 146096)
  BY SMT
<1>2. q \in 0..24 /\ s \in Int /\ 0 <= s /\ s <= 1460 /\ (q = 24 /\ c # 3 => s < 1460)
      /\ (s = 1460 /\ q = 24 => c = 3)
  <2> HIDE DEF c
  <2> QED BY <1>1, SMT
<1>3. u \in 0..3 /\ t \in Int /\ 0 <= t /\ t <= 365 /\ (t = 365 => u = 3 /\ s = 1460)
  <2> HIDE DEF q
  <2> QED BY <1>2, SMT
<1>4. doe = 36524 * c + 1461 * q + 365 * u + t
  <2> HIDE DEF c, q, u
  <2> QED BY <1>1, <1>2, <1>3, SMT
<1>5. IsDay(doe, c, q, u, t)
  <2> HIDE DEF c, q, u, t, s, r
  <2> QED BY <1>1, <1>2, <1>3, <1>4, SMT DEF IsDay
<1> QED BY <1>1, <1>2, <1>3, <1>5

\* The era of a day: the code's division that rounds towards 0 is made to round down.
EraOf(z) == Quotient(IF z >= 0 THEN z ELSE z - 146096, 146097)

LEMMA EraIs ==
  ASSUME NEW z \in Int
  PROVE  /\ EraOf(z) \in Int /\ 146097 * EraOf(z) <= z /\ z <= 146097 * EraOf(z) + 146096
         /\ \A e \in Int : 146097 * e <= z /\ z <= 146097 * e + 146096 => EraOf(z) = e
<1>1. CASE z >= 0
  <2>1. EraOf(z) = z \div 146097
    BY <1>1, SMT DEF EraOf, Quotient
  <2> QED BY <2>1, SMT
<1>2. CASE z < 0
  <2>1. EraOf(z) = -((146096 - z) \div 146097)
    <3>1. ~(z - 146096 >= 0) /\ -(z - 146096) = 146096 - z
      BY <1>2, SMT
    <3> QED BY <1>2, <3>1, SMT DEF EraOf, Quotient
  <2> QED BY <2>1, SMT
<1> QED BY <1>1, <1>2, SMT

\* The months of a year that begins in March, by the day of it: those of the code, and their
\* first days.
FirstDay(mp) == (153 * mp + 2) \div 5

LEMMA MonthIs ==
  ASSUME NEW t \in Int, 0 <= t, t <= 365
  PROVE  /\ (5 * t + 2) \div 153 \in 0..11
         /\ FirstDay((5 * t + 2) \div 153) <= t
         /\ \A mp \in 0..11 : /\ FirstDay(mp) \in Int
                              /\ FirstDay(mp) <= t /\ t < FirstDay(mp + 1) => (5 * t + 2) \div 153 = mp
         /\ t < FirstDay((5 * t + 2) \div 153 + 1)
BY SMT DEF FirstDay

LEMMA MonthLengths ==
  /\ FirstDay(0) = 0 /\ FirstDay(1) = 31 /\ FirstDay(2) = 61 /\ FirstDay(3) = 92
  /\ FirstDay(4) = 122 /\ FirstDay(5) = 153 /\ FirstDay(6) = 184 /\ FirstDay(7) = 214
  /\ FirstDay(8) = 245 /\ FirstDay(9) = 275 /\ FirstDay(10) = 306 /\ FirstDay(11) = 337
BY SMT DEF FirstDay

\* The date of the day t of a year that begins in March of the year y.
Date(y, t) ==
    LET mp == (5 * t + 2) \div 153
        m  == IF mp < 10 THEN mp + 3 ELSE mp - 9
    IN  [year |-> y + (IF m <= 2 THEN 1 ELSE 0), month |-> m, day |-> t - FirstDay(mp) + 1]

\* That of a day since 1970 is so if they are of the same day of an era.
IsDate(days, y, t, e, doe, c, q, u) ==
    /\ days \in Int /\ e \in Int /\ IsDay(doe, c, q, u, t)
    /\ days + 719468 = 146097 * e + doe /\ y = 100 * c + 4 * q + u + e * 400

LEMMA CivilIs ==
  ASSUME NEW days, NEW y, NEW t, NEW e, NEW doe, NEW c, NEW q, NEW u,
         IsDate(days, y, t, e, doe, c, q, u)
  PROVE  CivilFromDays(days) = Date(y, t)
<1>0. days \in Int /\ e \in Int /\ IsDay(doe, c, q, u, t)
      /\ days + 719468 = 146097 * e + doe /\ y = 100 * c + 4 * q + u + e * 400
  BY SMT DEF IsDate
<1> DEFINE z == days + 719468
<1>1. z \in Int /\ doe \in Int /\ 0 <= doe /\ doe <= 146096 /\ c \in Int /\ q \in Int /\ u \in Int /\ t \in Int
  BY <1>0, SMT DEF IsDay
<1>2. EraOf(z) = e
  <2> HIDE DEF z
  <2>1. z = 146097 * e + doe
    BY <1>0, SMT DEF z
  <2> QED BY <1>0, <1>1, <2>1, EraIs, SMT
<1>3. z - e * 146097 = doe
  BY <1>0, <1>1, SMT
<1>4. YearOfEra(doe) = 100 * c + 4 * q + u /\ YearOfEra(doe) \div 4 = 25 * c + q /\ YearOfEra(doe) \div 100 = c
  BY <1>0, YearOfDay
<1>5. doe - (365 * YearOfEra(doe) + YearOfEra(doe) \div 4 - YearOfEra(doe) \div 100) = t
  BY <1>0, <1>1, <1>4, SMT DEF IsDay
<1>6. CivilFromDays(days) =
        LET mp == (5 * t + 2) \div 153
            m  == IF mp < 10 THEN mp + 3 ELSE mp - 9
        IN  [year |-> YearOfEra(doe) + e * 400 + (IF m <= 2 THEN 1 ELSE 0), month |-> m,
             day |-> t - FirstDay(mp) + 1]
  BY <1>2, <1>3, <1>5, SMT DEF CivilFromDays, EraOf, FirstDay, z
<1> QED BY <1>0, <1>4, <1>6, SMT DEF Date

MonthOf(mp) == IF mp < 10 THEN mp + 3 ELSE mp - 9
YearIn(y, mp) == y + (IF MonthOf(mp) <= 2 THEN 1 ELSE 0)

\* How long the months are: February has the days that are left in the year.
LEMMA MonthDays ==
  ASSUME NEW mp \in 0..11, NEW year \in Int
  PROVE  /\ MonthOf(mp) \in 1..12 /\ (MonthOf(mp) <= 2 <=> mp >= 10)
         /\ mp < 11 => FirstDay(mp + 1) - FirstDay(mp) = DaysOf(MonthOf(mp), year)
         /\ mp = 11 => DaysOf(MonthOf(mp), year) = IF Leap(year) THEN 29 ELSE 28
         /\ mp # 11 => MonthOf(mp + 1) = IF MonthOf(mp) < 12 THEN MonthOf(mp) + 1 ELSE 1
         /\ MonthOf(mp) = 12 <=> mp = 9
<1>1. mp = 11 \/ mp \in 0..10
  BY SMT
<1>2. MonthOf(mp) \in 1..12 /\ (MonthOf(mp) <= 2 <=> mp >= 10) /\ (MonthOf(mp) = 12 <=> mp = 9)
      /\ (mp # 11 => MonthOf(mp + 1) = IF MonthOf(mp) < 12 THEN MonthOf(mp) + 1 ELSE 1)
  BY SMT DEF MonthOf
<1>3. CASE mp = 11
  <2>1. MonthOf(mp) = 2
    BY <1>3, SMT DEF MonthOf
  <2> QED BY <1>2, <1>3, <2>1, SMT DEF DaysOf
<1>4. CASE mp \in 0..10
  <2>1. mp = 0 \/ mp = 1 \/ mp = 2 \/ mp = 3 \/ mp = 4 \/ mp = 5 \/ mp = 6 \/ mp = 7 \/ mp = 8 \/ mp = 9 \/ mp = 10
    BY <1>4, SMT
  <2>2. FirstDay(mp + 1) - FirstDay(mp) = IF mp \in {1, 3, 6, 8} THEN 30 ELSE 31
    BY <2>1, SMT DEF FirstDay
  <2>3. DaysOf(MonthOf(mp), year) = IF mp \in {1, 3, 6, 8} THEN 30 ELSE 31
    BY <2>1, SMT DEF DaysOf, MonthOf
  <2> QED BY <1>2, <1>4, <2>2, <2>3, SMT
<1> QED BY <1>1, <1>3, <1>4

LEMMA LeapYears ==
  ASSUME NEW e \in Int, NEW c \in 0..3, NEW q \in 0..24, NEW u \in 0..3
  PROVE  Leap(100 * c + 4 * q + u + e * 400 + 1) <=> u = 3 /\ (q = 24 => c = 3)
<1> DEFINE x == 100 * c + 4 * q + u + 1
           y == 100 * c + 4 * q + u + e * 400 + 1
<1>1. x \in 1..400 /\ y = 400 * e + x
  BY SMT
<1>2. y % 4 = x % 4 /\ y % 100 = x % 100 /\ y % 400 = x % 400
  <2> HIDE DEF x, y
  <2> QED BY <1>1, SMT
<1>3. (x % 4 = 0 <=> u = 3) /\ (x % 400 = 0 <=> u = 3 /\ q = 24 /\ c = 3)
  BY SMT
<1>4. x % 100 = 0 <=> u = 3 /\ q = 24
  BY SMT
<1>5. Leap(y) <=> u = 3 /\ (q = 24 => c = 3)
  <2> HIDE DEF x, y
  <2> QED BY <1>2, <1>3, <1>4, SMT DEF Leap
<1> QED BY <1>5

LEMMA DayAfterIs ==
  ASSUME NEW y \in Int, NEW m \in Int, NEW d \in Int
  PROVE  DayAfter([year |-> y, month |-> m, day |-> d]) =
             IF d < DaysOf(m, y) THEN [year |-> y, month |-> m, day |-> d + 1]
             ELSE IF m < 12 THEN [year |-> y, month |-> m + 1, day |-> 1]
             ELSE [year |-> y + 1, month |-> 1, day |-> 1]
<1> DEFINE r == [year |-> y, month |-> m, day |-> d]
<1>1. r.year = y /\ r.month = m /\ r.day = d
  OBVIOUS
<1>2. [r EXCEPT !.day = @ + 1] = [year |-> y, month |-> m, day |-> d + 1]
  OBVIOUS
<1> HIDE DEF r
<1>4. DayAfter(r) = IF r.day < DaysOf(r.month, r.year) THEN [r EXCEPT !.day = @ + 1]
                    ELSE IF r.month < 12 THEN [year |-> r.year, month |-> r.month + 1, day |-> 1]
                    ELSE [year |-> r.year + 1, month |-> 1, day |-> 1]
  BY Zenon DEF DayAfter
<1>5. DayAfter(r) = IF d < DaysOf(m, y) THEN [year |-> y, month |-> m, day |-> d + 1]
                    ELSE IF m < 12 THEN [year |-> y, month |-> m + 1, day |-> 1]
                    ELSE [year |-> y + 1, month |-> 1, day |-> 1]
  BY <1>1, <1>2, <1>4
<1> QED BY <1>5 DEF r

\* The day after the last of February is the first of March,
LEMMA NextYear ==
  ASSUME NEW y \in Int, NEW t \in Int, t = IF Leap(y + 1) THEN 365 ELSE 364
  PROVE  Date(y + 1, 0) = DayAfter(Date(y, t))
<1>1. (5 * t + 2) \div 153 = 11 /\ (5 * 0 + 2) \div 153 = 0
  BY SMT
<1>2. FirstDay(11) = 337 /\ FirstDay(0) = 0
  BY MonthLengths
<1>3. Date(y, t) = [year |-> y + 1, month |-> 2, day |-> t - 337 + 1]
  BY <1>1, <1>2, SMT DEF Date
<1>4. Date(y + 1, 0) = [year |-> y + 1, month |-> 3, day |-> 1]
  BY <1>1, <1>2, SMT DEF Date
<1>5. DaysOf(2, y + 1) = t - 337 + 1
  BY SMT DEF DaysOf
<1>6. DayAfter(Date(y, t)) = [year |-> y + 1, month |-> 3, day |-> 1]
  <2>1. y + 1 \in Int /\ 2 \in Int /\ t - 337 + 1 \in Int /\ 2 + 1 = 3
    OBVIOUS
  <2> DEFINE d == t - 337 + 1
             z == y + 1
  <2>2. d \in Int /\ z \in Int /\ DaysOf(2, z) = d /\ Date(y, t) = [year |-> z, month |-> 2, day |-> d]
    BY <1>3, <1>5, <2>1
  <2> HIDE DEF d, z
  <2>3. DayAfter([year |-> z, month |-> 2, day |-> d]) = [year |-> z, month |-> 2 + 1, day |-> 1]
    <3> DEFINE m == 2
    <3>1. m \in Int /\ ~(d < DaysOf(m, z)) /\ m < 12
      BY <2>2
    <3> HIDE DEF m
    <3>2. d \in Int /\ z \in Int
      BY <2>2
    <3>3. DayAfter([year |-> z, month |-> m, day |-> d]) =
             IF d < DaysOf(m, z) THEN [year |-> z, month |-> m, day |-> d + 1]
             ELSE IF m < 12 THEN [year |-> z, month |-> m + 1, day |-> 1]
             ELSE [year |-> z + 1, month |-> 1, day |-> 1]
      BY <3>1, <3>2, DayAfterIs
    <3>4. DayAfter([year |-> z, month |-> m, day |-> d]) = [year |-> z, month |-> m + 1, day |-> 1]
      BY <3>1, <3>3
    <3> QED BY <3>4 DEF m
  <2> QED BY <2>1, <2>2, <2>3 DEF z
<1> QED BY <1>4, <1>6

\* and the other days of a year follow each other.
LEMMA NextDay ==
  ASSUME NEW y \in Int, NEW t \in Int, 0 <= t, t < IF Leap(y + 1) THEN 365 ELSE 364
  PROVE  Date(y, t + 1) = DayAfter(Date(y, t))
<1> DEFINE mp == (5 * t + 2) \div 153
           np == (5 * (t + 1) + 2) \div 153
           d  == t - FirstDay(mp) + 1
           year == YearIn(y, mp)
<1>0. t + 1 \in Int /\ 0 <= t + 1 /\ t + 1 <= 365 /\ t <= 365
  BY SMT
<1>1. mp \in 0..11 /\ FirstDay(mp) <= t /\ t < FirstDay(mp + 1)
  BY <1>0, MonthIs
<1>2. np \in 0..11 /\ FirstDay(np) <= t + 1 /\ t + 1 < FirstDay(np + 1)
      /\ \A k \in 0..11 : FirstDay(k) <= t + 1 /\ t + 1 < FirstDay(k + 1) => np = k
  <2> DEFINE s == t + 1
  <2> HIDE DEF s
  <2>1. s \in Int /\ 0 <= s /\ s <= 365
    BY <1>0 DEF s
  <2>2. (5 * s + 2) \div 153 \in 0..11 /\ FirstDay((5 * s + 2) \div 153) <= s /\ s < FirstDay((5 * s + 2) \div 153 + 1)
        /\ \A k \in 0..11 : FirstDay(k) <= s /\ s < FirstDay(k + 1) => (5 * s + 2) \div 153 = k
    BY <2>1, MonthIs
  <2> QED BY <2>2 DEF s
<1>3. Date(y, t) = [year |-> year, month |-> MonthOf(mp), day |-> d]
  BY Zenon DEF Date, MonthOf, YearIn
<1>4. Date(y, t + 1) = [year |-> YearIn(y, np), month |-> MonthOf(np), day |-> (t + 1) - FirstDay(np) + 1]
  BY Zenon DEF Date, MonthOf, YearIn
<1>5. year \in Int /\ (mp >= 10 => year = y + 1) /\ (mp < 10 => year = y)
  <2> HIDE DEF mp
  <2> QED BY <1>1, SMT DEF YearIn, MonthOf
<1>6. \A k \in 0..12 : FirstDay(k) \in Int
  BY SMT DEF FirstDay
<1> HIDE DEF mp, np, year
<1>7. CASE t + 1 < FirstDay(mp + 1) /\ (mp = 11 => t + 1 <= IF Leap(y + 1) THEN 365 ELSE 364)
  <2>1. np = mp
    BY <1>0, <1>1, <1>2, <1>6, <1>7, SMT
  <2>2. d < DaysOf(MonthOf(mp), year)
    <3>1. CASE mp = 11
      <4>1. FirstDay(mp) = 337 /\ year = y + 1
        BY <1>5, <3>1, MonthLengths
      <4>2. DaysOf(MonthOf(mp), year) = IF Leap(y + 1) THEN 29 ELSE 28
        BY <1>1, <1>5, <3>1, <4>1, MonthDays
      <4> QED BY <1>7, <3>1, <4>1, <4>2, SMT
    <3>2. CASE mp # 11
      <4>1. FirstDay(mp + 1) - FirstDay(mp) = DaysOf(MonthOf(mp), year)
        BY <1>1, <1>5, <3>2, MonthDays
      <4>2. FirstDay(mp) \in Int /\ FirstDay(mp + 1) \in Int
        BY <1>1, <1>6, SMT
      <4> QED BY <1>0, <1>7, <4>1, <4>2, SMT
    <3> QED BY <3>1, <3>2
  <2>3. FirstDay(mp) \in Int
    BY <1>1, <1>6, SMT
  <2>4. Date(y, t + 1) = [year |-> year, month |-> MonthOf(mp), day |-> d + 1]
    <3>1. (t + 1) - FirstDay(np) + 1 = d + 1
      BY <2>1, <2>3, SMT
    <3> QED BY <1>4, <2>1, <3>1 DEF year
  <2>5. MonthOf(mp) \in Int /\ d \in Int
    BY <1>1, <1>5, <2>3, MonthDays
  <2>6. DayAfter(Date(y, t)) = [year |-> year, month |-> MonthOf(mp), day |-> d + 1]
    <3> HIDE DEF d
    <3> QED BY <1>3, <1>5, <2>2, <2>5, DayAfterIs
  <2> QED BY <2>4, <2>6
<1>8. CASE ~(t + 1 < FirstDay(mp + 1))
  <2>1. mp # 11
    <3>1. FirstDay(12) = 367
      BY SMT DEF FirstDay
    <3> QED BY <1>0, <1>8, <3>1, SMT
  <2>2. mp + 1 \in 0..11 /\ FirstDay(mp) \in Int /\ FirstDay(mp + 1) \in Int
        /\ FirstDay(mp + 1) < FirstDay((mp + 1) + 1)
    BY <1>1, <2>1, SMT DEF FirstDay
  <2>3. t + 1 = FirstDay(mp + 1)
    BY <1>0, <1>1, <1>8, <2>2, SMT
  <2>4. np = mp + 1
    BY <1>2, <2>2, <2>3, SMT
  <2>5. d = DaysOf(MonthOf(mp), year)
    <3>1. FirstDay(mp + 1) - FirstDay(mp) = DaysOf(MonthOf(mp), year)
      BY <1>1, <1>5, <2>1, MonthDays
    <3> QED BY <2>2, <2>3, <3>1, SMT
  <2>6. Date(y, t + 1) = [year |-> YearIn(y, mp + 1), month |-> MonthOf(mp + 1), day |-> 1]
    BY <1>4, <2>2, <2>3, <2>4, SMT
  <2>7. MonthOf(mp + 1) = (IF MonthOf(mp) < 12 THEN MonthOf(mp) + 1 ELSE 1) /\ MonthOf(mp) \in 1..12
        /\ (MonthOf(mp) = 12 <=> mp = 9)
    BY <1>1, <1>5, <2>1, MonthDays
  <2>8. YearIn(y, mp + 1) = IF MonthOf(mp) < 12 THEN year ELSE year + 1
    <3>1. YearIn(y, mp + 1) = IF mp + 1 >= 10 THEN y + 1 ELSE y
      BY <2>2, SMT DEF YearIn, MonthOf
    <3> QED BY <1>1, <1>5, <2>7, <3>1, SMT
  <2>9. MonthOf(mp) \in Int /\ d \in Int /\ ~(d < DaysOf(MonthOf(mp), year))
    BY <2>2, <2>5, <2>7
  <2>10. DayAfter(Date(y, t)) = IF MonthOf(mp) < 12 THEN [year |-> year, month |-> MonthOf(mp) + 1, day |-> 1]
                                ELSE [year |-> year + 1, month |-> 1, day |-> 1]
    <3> DEFINE m == MonthOf(mp)
    <3> HIDE DEF d, m
    <3>1. m \in Int /\ d \in Int /\ ~(d < DaysOf(m, year)) /\ Date(y, t) = [year |-> year, month |-> m, day |-> d]
      BY <1>3, <2>9 DEF m
    <3>2. DayAfter([year |-> year, month |-> m, day |-> d]) =
             IF m < 12 THEN [year |-> year, month |-> m + 1, day |-> 1] ELSE [year |-> year + 1, month |-> 1, day |-> 1]
      BY <1>5, <3>1, DayAfterIs
    <3> QED BY <3>1, <3>2 DEF m
  <2> QED BY <2>6, <2>7, <2>8, <2>10
<1>9. mp = 11 => t + 1 <= IF Leap(y + 1) THEN 365 ELSE 364
  BY SMT
<1> QED BY <1>7, <1>8, <1>9

\* Each day is followed by the next of the calendar.
LEMMA CivilFollows ==
  ASSUME NEW days \in Int
  PROVE  CivilFromDays(days + 1) = DayAfter(CivilFromDays(days))
<1> DEFINE z == days + 719468
           e == EraOf(z)
           doe == z - 146097 * e
<1>1. z \in Int /\ e \in Int /\ doe \in Int /\ 0 <= doe /\ doe <= 146096
  <2>1. z \in Int
    OBVIOUS
  <2> HIDE DEF z
  <2>2. EraOf(z) \in Int /\ 146097 * EraOf(z) <= z /\ z <= 146097 * EraOf(z) + 146096
    BY <2>1, EraIs, SMT
  <2> QED BY <2>1, <2>2, SMT
<1>2. days + 719468 = 146097 * e + doe
  <2> HIDE DEF e
  <2> QED BY <1>1, SMT
<1> HIDE DEF z, e, doe
<1>3. PICK c, q, u, t \in Int : IsDay(doe, c, q, u, t)
  BY <1>1, DayExists
<1>4. c \in 0..3 /\ q \in 0..24 /\ u \in 0..3 /\ t \in Int /\ 0 <= t
      /\ doe = 36524 * c + 1461 * q + 365 * u + t
      /\ t <= IF u = 3 /\ (q = 24 => c = 3) THEN 365 ELSE 364
  BY <1>3, SMT DEF IsDay
<1> DEFINE y == 100 * c + 4 * q + u + e * 400
           last == IF u = 3 /\ (q = 24 => c = 3) THEN 365 ELSE 364
<1>5. CivilFromDays(days) = Date(y, t)
  <2>1. IsDate(days, y, t, e, doe, c, q, u)
    BY <1>1, <1>2, <1>3, SMT DEF IsDate
  <2> QED BY <2>1, CivilIs
<1>6. (IF Leap(y + 1) THEN 365 ELSE 364) = last /\ y \in Int
  <2>1. Leap(100 * c + 4 * q + u + e * 400 + 1) <=> u = 3 /\ (q = 24 => c = 3)
    BY <1>1, <1>4, LeapYears
  <2>2. y \in Int
    BY <1>1, <1>4, SMT
  <2> QED BY <2>1, <2>2
<1> HIDE DEF y
<1>7. CASE t < last
  <2>1. IsDate(days + 1, y, t + 1, e, doe + 1, c, q, u)
    BY <1>1, <1>2, <1>4, <1>7, SMT DEF IsDay, IsDate, y
  <2>2. CivilFromDays(days + 1) = Date(y, t + 1)
    BY <2>1, CivilIs
  <2>3. Date(y, t + 1) = DayAfter(Date(y, t))
    BY <1>4, <1>6, <1>7, NextDay, SMT
  <2> QED BY <1>5, <2>2, <2>3
<1>8. CASE t = last
  <2>1. Date(y + 1, 0) = DayAfter(Date(y, t))
    BY <1>4, <1>6, <1>8, NextYear, SMT
  <2>2. CivilFromDays(days + 1) = Date(y + 1, 0)
    <3>1. CASE u < 3
      <4>1. IsDate(days + 1, y + 1, 0, e, doe + 1, c, q, u + 1)
        BY <1>1, <1>2, <1>4, <1>8, <3>1, SMT DEF IsDay, IsDate, y
      <4> QED BY <4>1, CivilIs
    <3>2. CASE u = 3 /\ q < 24
      <4>1. IsDate(days + 1, y + 1, 0, e, doe + 1, c, q + 1, 0)
        BY <1>1, <1>2, <1>4, <1>8, <3>2, SMT DEF IsDay, IsDate, y
      <4> QED BY <4>1, CivilIs
    <3>3. CASE u = 3 /\ q = 24 /\ c < 3
      <4>1. IsDate(days + 1, y + 1, 0, e, doe + 1, c + 1, 0, 0)
        BY <1>1, <1>2, <1>4, <1>8, <3>3, SMT DEF IsDay, IsDate, y
      <4> QED BY <4>1, CivilIs
    <3>4. CASE u = 3 /\ q = 24 /\ c = 3
      <4>1. IsDate(days + 1, y + 1, 0, e + 1, 0, 0, 0, 0)
        BY <1>1, <1>2, <1>4, <1>8, <3>4, SMT DEF IsDay, IsDate, y
      <4> QED BY <4>1, CivilIs
    <3> QED BY <1>4, <3>1, <3>2, <3>3, <3>4, SMT
  <2> QED BY <1>5, <2>1, <2>2
<1> QED BY <1>4, <1>7, <1>8, SMT

\* Whatever the clock, the hour and the offset, before 1970 as after it, ymd_from_unix_local
\* gives the days the dates of the calendar, in their order: what is due tomorrow is due today
\* a day later.
THEOREM DatesFollow == Spec => []DaysFollow
<1>1. ASSUME TextsTypeOK PROVE DaysFollow
  <2> SUFFICES ASSUME NEW offset \in Offsets
               PROVE  LocalDate(clock + DayLength, offset) = DayAfter(LocalDate(clock, offset))
    BY DEF DaysFollow
  <2>1. clock \in Int /\ offset \in Int
    BY <1>1, SampleAssumption DEF TextsTypeOK
  <2> DEFINE days == (clock + offset) \div DayLength
  <2>2. days \in Int /\ (clock + DayLength + offset) \div DayLength = days + 1
    BY <2>1, SMT DEF DayLength
  <2> HIDE DEF days
  <2>3. CivilFromDays(days + 1) = DayAfter(CivilFromDays(days))
    BY <2>2, CivilFollows
  <2> QED BY <2>2, <2>3, SMT DEF LocalDate, days
<1> QED BY <1>1, TextsTyped, PTL

-----------------------------------------------------------------------------
\* Lines of a note.

LEMMA MaxIn ==
  ASSUME NEW n \in Nat, NEW t \in SUBSET (1..n), t # {}
  PROVE  Max(t) \in 1..n /\ t \ {Max(t)} \in SUBSET (1..n)
<1>1. t \in SUBSET Int /\ n \in Int /\ \A x \in t : x <= n
  OBVIOUS
<1>2. Max(t) \in t
  BY <1>1, MaxOf
<1> QED BY <1>2

\* Indentation: the loops over the characters of a line, in A, of count_indent and of the pane.
Indent(s) == FoldLeft(LAMBDA col, c : IF c = "\t" THEN NextStop(col) ELSE col + 1, 0, s)

AddIndent(A) == [col \in Nat |-> [c \in A |-> IF c = "\t" THEN NextStop(col) ELSE col + 1]]

LEMMA AddIndentType ==
  ASSUME NEW A
  PROVE  AddIndent(A) \in [Nat -> [A -> Nat]] /\ 0 \in Nat
<1>1. \A col \in Nat : NextStop(col) \in Nat
  BY SMT DEF NextStop
<1> QED BY <1>1 DEF AddIndent

LEMMA IndentIsLoop ==
  ASSUME NEW A, NEW s \in Seq(A)
  PROVE  Indent(s) = Loop(Nat, AddIndent(A), 0, s)
<1> DEFINE Eq(h) == h = [t \in SUBSET DOMAIN s |->
                           IF t = {} THEN 0
                           ELSE (IF s[Max(t)] = "\t" THEN NextStop(h[t \ {Max(t)}]) ELSE h[t \ {Max(t)}] + 1)]
           F == CHOOSE h : Eq(h)
<1>0. DOMAIN s = 1..Len(s) /\ Len(s) \in Nat /\ \A k \in 1..Len(s) : s[k] \in A
  OBVIOUS
<1>1. Indent(s) = F[1..Len(s)]
  BY <1>0 DEF Indent, FoldLeft, MapThenFoldSet
<1>2. \E h : Eq(h)
  <2>1. PICK g \in [SUBSET (1..Len(s)) -> Nat] :
           \A t \in SUBSET (1..Len(s)) :
              g[t] = IF t = {} THEN 0 ELSE AddIndent(A)[g[t \ {Max(t)}]][s[Max(t)]]
    <3>1. HasIter(Nat, AddIndent(A), 0, s)
      BY AddIndentType, IterExists
    <3> QED BY <3>1 DEF HasIter
  <2>2. ASSUME NEW t \in SUBSET (1..Len(s))
        PROVE  g[t] = IF t = {} THEN 0
                      ELSE (IF s[Max(t)] = "\t" THEN NextStop(g[t \ {Max(t)}]) ELSE g[t \ {Max(t)}] + 1)
    <3>1. CASE t = {}
      BY <2>1, <3>1
    <3>2. CASE t # {}
      <4>1. Max(t) \in 1..Len(s) /\ t \ {Max(t)} \in SUBSET (1..Len(s))
        BY <1>0, <3>2, MaxIn
      <4>2. g[t \ {Max(t)}] \in Nat /\ s[Max(t)] \in A
        BY <1>0, <2>1, <4>1
      <4>3. AddIndent(A)[g[t \ {Max(t)}]][s[Max(t)]]
              = (IF s[Max(t)] = "\t" THEN NextStop(g[t \ {Max(t)}]) ELSE g[t \ {Max(t)}] + 1)
        BY <4>2 DEF AddIndent
      <4> QED BY <2>1, <3>2, <4>3
    <3> QED BY <3>1, <3>2
  <2>3. g = [t \in SUBSET (1..Len(s)) |->
               IF t = {} THEN 0 ELSE (IF s[Max(t)] = "\t" THEN NextStop(g[t \ {Max(t)}]) ELSE g[t \ {Max(t)}] + 1)]
    BY <2>1, <2>2
  <2> QED BY <1>0, <2>3
<1>3. Eq(F)
  BY <1>2
<1> HIDE DEF F
<1>4. \A t \in SUBSET (1..Len(s)) :
         F[t] = IF t = {} THEN 0 ELSE (IF s[Max(t)] = "\t" THEN NextStop(F[t \ {Max(t)}]) ELSE F[t \ {Max(t)}] + 1)
  BY <1>0, <1>3
<1> HIDE DEF Eq
<1>5. F[{}] = 0
  BY <1>4
<1>6. ASSUME NEW k \in 0..(Len(s) - 1), F[1..k] \in Nat
      PROVE  F[1..(k + 1)] = AddIndent(A)[F[1..k]][s[k + 1]]
  <2>1. k \in Nat /\ k + 1 \in 1..Len(s) /\ s[k + 1] \in A
    <3>1. k \in Nat /\ k + 1 \in 1..Len(s)
      BY <1>0
    <3> QED BY <1>0, <3>1
  <2>0. 1..(k + 1) \in SUBSET (1..Len(s)) /\ k + 1 \in 1..(k + 1)
    BY <1>0, <2>1
  <2>2. Max(1..(k + 1)) = k + 1 /\ (1..(k + 1)) \ {k + 1} = 1..k
    BY <2>1, MaxUpto
  <2>3. F[1..(k + 1)] = (IF s[k + 1] = "\t" THEN NextStop(F[1..k]) ELSE F[1..k] + 1)
    <3> DEFINE t == 1..(k + 1)
    <3>1. t \in SUBSET (1..Len(s)) /\ t # {} /\ Max(t) = k + 1 /\ t \ {k + 1} = 1..k
      BY <2>0, <2>1, <2>2
    <3> HIDE DEF t
    <3>2. F[t] = (IF s[Max(t)] = "\t" THEN NextStop(F[t \ {Max(t)}]) ELSE F[t \ {Max(t)}] + 1)
      BY <1>4, <3>1
    <3>3. F[t] = (IF s[k + 1] = "\t" THEN NextStop(F[1..k]) ELSE F[1..k] + 1)
      BY <3>1, <3>2
    <3> QED BY <3>3 DEF t
  <2> QED BY <1>6, <2>1, <2>3 DEF AddIndent
<1>7. HasRun(Nat, AddIndent(A), 0, s) /\ IsIter(F, Nat, AddIndent(A), 0, s)
  <2>1. IsIter(F, Nat, AddIndent(A), 0, s)
    BY <1>5, <1>6 DEF IsIter
  <2> QED BY <2>1, AddIndentType, RunExists
<1>8. F[1..Len(s)] = Loop(Nat, AddIndent(A), 0, s)
  BY <1>0, <1>7, IterIs
<1> QED BY <1>1, <1>8

LEMMA IndentIs ==
  ASSUME NEW A
  PROVE  /\ Indent(<<>>) = 0
         /\ \A s \in Seq(A) :
               /\ Indent(s) \in Nat
               /\ \A c \in A : Indent(Append(s, c)) = IF c = "\t" THEN NextStop(Indent(s)) ELSE Indent(s) + 1
<1>1. LoopLaws(A, Nat, AddIndent(A), 0)
  BY AddIndentType, LoopIs
<1>2. Indent(<<>>) = 0
  <2>1. <<>> \in Seq(A)
    OBVIOUS
  <2> QED BY <1>1, <2>1, IndentIsLoop DEF LoopLaws
<1>3. ASSUME NEW s \in Seq(A)
      PROVE  /\ Indent(s) \in Nat
             /\ \A c \in A : Indent(Append(s, c)) = IF c = "\t" THEN NextStop(Indent(s)) ELSE Indent(s) + 1
  <2>1. Indent(s) = Loop(Nat, AddIndent(A), 0, s) /\ Indent(s) \in Nat
    BY <1>1, IndentIsLoop DEF LoopLaws
  <2>2. ASSUME NEW c \in A PROVE Indent(Append(s, c)) = IF c = "\t" THEN NextStop(Indent(s)) ELSE Indent(s) + 1
    <3>1. Append(s, c) \in Seq(A)
      OBVIOUS
    <3>2. Indent(Append(s, c)) = AddIndent(A)[Indent(s)][c]
      BY <1>1, <2>1, <3>1, IndentIsLoop DEF LoopLaws
    <3> QED BY <2>1, <3>2 DEF AddIndent
  <2> QED BY <2>1, <2>2
<1> QED BY <1>2, <1>3

Spaces(n) == [k \in 1..n |-> " "]
WithBlank(A) == A \cup {" "}
PaneLine(A) == Seq(WithBlank(A))
AddShown(A) == [out \in PaneLine(A) |-> [c \in A |-> IF c = "\t" THEN out \o Spaces(4 - (Len(out) % 4))
                                                   ELSE Append(out, c)]]

LEMMA SpacesIs ==
  ASSUME NEW A, NEW out \in PaneLine(A)
  PROVE  /\ Len(out) \in Nat /\ 4 - (Len(out) % 4) \in 1..4
         /\ Spaces(4 - (Len(out) % 4)) \in PaneLine(A)
         /\ Len(Spaces(4 - (Len(out) % 4))) = 4 - (Len(out) % 4)
         /\ out \o Spaces(4 - (Len(out) % 4)) \in PaneLine(A)
         /\ Len(out \o Spaces(4 - (Len(out) % 4))) = NextStop(Len(out))
<1> DEFINE n == 4 - (Len(out) % 4)
<1>1. Len(out) \in Nat /\ n \in 1..4 /\ Len(out) + n = NextStop(Len(out))
  <2>1. Len(out) \in Nat
    BY DEF PaneLine
  <2>2. ASSUME NEW x \in Nat PROVE 4 - (x % 4) \in 1..4 /\ x + (4 - (x % 4)) = (x \div 4 + 1) * 4
    <3>1. x % 4 \in 0..3 /\ x \div 4 \in Int /\ x = 4 * (x \div 4) + (x % 4)
      BY SMT
    <3> QED BY <3>1, SMT
  <2> QED BY <2>1, <2>2 DEF NextStop
<1> HIDE DEF n
<1>2. Spaces(n) \in PaneLine(A) /\ Len(Spaces(n)) = n
  <2>1. " " \in WithBlank(A)
    BY DEF WithBlank
  <2>2. n \in Nat
    BY <1>1
  <2>3. ASSUME NEW X, NEW b \in X PROVE [k \in 1..n |-> b] \in Seq(X) /\ Len([k \in 1..n |-> b]) = n
    BY <2>2
  <2> QED BY <2>1, <2>3 DEF Spaces, PaneLine
<1>3. out \o Spaces(n) \in PaneLine(A) /\ Len(out \o Spaces(n)) = Len(out) + n
  <2> DEFINE sp == Spaces(n)
  <2> HIDE DEF sp
  <2>1. sp \in Seq(WithBlank(A)) /\ Len(sp) = n /\ out \in Seq(WithBlank(A))
    BY <1>2 DEF sp, PaneLine
  <2>2. out \o sp \in Seq(WithBlank(A)) /\ Len(out \o sp) = Len(out) + Len(sp)
    BY <2>1
  <2> QED BY <2>1, <2>2 DEF sp, PaneLine
<1> QED BY <1>1, <1>2, <1>3 DEF n

LEMMA AddShownType ==
  ASSUME NEW A
  PROVE  AddShown(A) \in [PaneLine(A) -> [A -> PaneLine(A)]] /\ <<>> \in PaneLine(A)
<1>1. ASSUME NEW out \in PaneLine(A), NEW c \in A
      PROVE  (IF c = "\t" THEN out \o Spaces(4 - (Len(out) % 4)) ELSE Append(out, c)) \in PaneLine(A)
  <2>1. out \o Spaces(4 - (Len(out) % 4)) \in PaneLine(A)
    BY SpacesIs
  <2>2. Append(out, c) \in PaneLine(A)
    <3>1. c \in WithBlank(A)
      BY DEF WithBlank
    <3> QED BY <3>1 DEF PaneLine
  <2> QED BY <2>1, <2>2
<1>2. <<>> \in PaneLine(A)
  BY DEF PaneLine
<1> QED BY <1>1, <1>2 DEF AddShown

LEMMA ExpandIsLoop ==
  ASSUME NEW A, NEW s \in Seq(A)
  PROVE  ExpandTabs(s) = Loop(PaneLine(A), AddShown(A), <<>>, s)
<1> DEFINE Eq(h) == h = [t \in SUBSET DOMAIN s |->
                           IF t = {} THEN <<>>
                           ELSE (IF s[Max(t)] = "\t" THEN h[t \ {Max(t)}] \o Spaces(4 - (Len(h[t \ {Max(t)}]) % 4)) ELSE Append(h[t \ {Max(t)}], s[Max(t)]))]
           F == CHOOSE h : Eq(h)
<1>0. DOMAIN s = 1..Len(s) /\ Len(s) \in Nat /\ \A k \in 1..Len(s) : s[k] \in A
  OBVIOUS
<1>1. ExpandTabs(s) = F[1..Len(s)]
  BY <1>0 DEF ExpandTabs, Spaces, FoldLeft, MapThenFoldSet
<1>2. \E h : Eq(h)
  <2>1. PICK g \in [SUBSET (1..Len(s)) -> PaneLine(A)] :
           \A t \in SUBSET (1..Len(s)) :
              g[t] = IF t = {} THEN <<>> ELSE AddShown(A)[g[t \ {Max(t)}]][s[Max(t)]]
    <3>1. HasIter(PaneLine(A), AddShown(A), <<>>, s)
      BY AddShownType, IterExists
    <3> QED BY <3>1 DEF HasIter
  <2>2. ASSUME NEW t \in SUBSET (1..Len(s))
        PROVE  g[t] = IF t = {} THEN <<>>
                      ELSE (IF s[Max(t)] = "\t" THEN g[t \ {Max(t)}] \o Spaces(4 - (Len(g[t \ {Max(t)}]) % 4)) ELSE Append(g[t \ {Max(t)}], s[Max(t)]))
    <3>1. CASE t = {}
      BY <2>1, <3>1
    <3>2. CASE t # {}
      <4>1. Max(t) \in 1..Len(s) /\ t \ {Max(t)} \in SUBSET (1..Len(s))
        BY <1>0, <3>2, MaxIn
      <4>2. g[t \ {Max(t)}] \in PaneLine(A) /\ s[Max(t)] \in A
        BY <1>0, <2>1, <4>1
      <4>3. AddShown(A)[g[t \ {Max(t)}]][s[Max(t)]]
              = (IF s[Max(t)] = "\t" THEN g[t \ {Max(t)}] \o Spaces(4 - (Len(g[t \ {Max(t)}]) % 4)) ELSE Append(g[t \ {Max(t)}], s[Max(t)]))
        BY <4>2 DEF AddShown
      <4> QED BY <2>1, <3>2, <4>3
    <3> QED BY <3>1, <3>2
  <2>3. g = [t \in SUBSET (1..Len(s)) |->
               IF t = {} THEN <<>> ELSE (IF s[Max(t)] = "\t" THEN g[t \ {Max(t)}] \o Spaces(4 - (Len(g[t \ {Max(t)}]) % 4)) ELSE Append(g[t \ {Max(t)}], s[Max(t)]))]
    BY <2>1, <2>2
  <2> QED BY <1>0, <2>3
<1>3. Eq(F)
  BY <1>2
<1> HIDE DEF F
<1>4. \A t \in SUBSET (1..Len(s)) :
         F[t] = IF t = {} THEN <<>> ELSE (IF s[Max(t)] = "\t" THEN F[t \ {Max(t)}] \o Spaces(4 - (Len(F[t \ {Max(t)}]) % 4)) ELSE Append(F[t \ {Max(t)}], s[Max(t)]))
  BY <1>0, <1>3
<1> HIDE DEF Eq
<1>5. F[{}] = <<>>
  BY <1>4
<1>6. ASSUME NEW k \in 0..(Len(s) - 1), F[1..k] \in PaneLine(A)
      PROVE  F[1..(k + 1)] = AddShown(A)[F[1..k]][s[k + 1]]
  <2>1. k \in Nat /\ k + 1 \in 1..Len(s) /\ s[k + 1] \in A
    <3>1. k \in Nat /\ k + 1 \in 1..Len(s)
      BY <1>0
    <3> QED BY <1>0, <3>1
  <2>0. 1..(k + 1) \in SUBSET (1..Len(s)) /\ k + 1 \in 1..(k + 1)
    BY <1>0, <2>1
  <2>2. Max(1..(k + 1)) = k + 1 /\ (1..(k + 1)) \ {k + 1} = 1..k
    BY <2>1, MaxUpto
  <2>3. F[1..(k + 1)] = (IF s[k + 1] = "\t" THEN F[1..k] \o Spaces(4 - (Len(F[1..k]) % 4)) ELSE Append(F[1..k], s[k + 1]))
    <3> DEFINE t == 1..(k + 1)
    <3>1. t \in SUBSET (1..Len(s)) /\ t # {} /\ Max(t) = k + 1 /\ t \ {k + 1} = 1..k
      BY <2>0, <2>1, <2>2
    <3> HIDE DEF t
    <3>2. F[t] = (IF s[Max(t)] = "\t" THEN F[t \ {Max(t)}] \o Spaces(4 - (Len(F[t \ {Max(t)}]) % 4)) ELSE Append(F[t \ {Max(t)}], s[Max(t)]))
      BY <1>4, <3>1
    <3>3. F[t] = (IF s[k + 1] = "\t" THEN F[1..k] \o Spaces(4 - (Len(F[1..k]) % 4)) ELSE Append(F[1..k], s[k + 1]))
      BY <3>1, <3>2
    <3> QED BY <3>3 DEF t
  <2> QED BY <1>6, <2>1, <2>3 DEF AddShown
<1>7. HasRun(PaneLine(A), AddShown(A), <<>>, s) /\ IsIter(F, PaneLine(A), AddShown(A), <<>>, s)
  <2>1. IsIter(F, PaneLine(A), AddShown(A), <<>>, s)
    BY <1>5, <1>6 DEF IsIter
  <2> QED BY <2>1, AddShownType, RunExists
<1>8. F[1..Len(s)] = Loop(PaneLine(A), AddShown(A), <<>>, s)
  BY <1>0, <1>7, IterIs
<1> QED BY <1>1, <1>8

LEMMA ExpandIs ==
  ASSUME NEW A
  PROVE  /\ ExpandTabs(<<>>) = <<>>
         /\ \A s \in Seq(A) :
               /\ ExpandTabs(s) \in PaneLine(A)
               /\ \A c \in A :
                     ExpandTabs(Append(s, c)) =
                        IF c = "\t" THEN ExpandTabs(s) \o Spaces(4 - (Len(ExpandTabs(s)) % 4))
                        ELSE Append(ExpandTabs(s), c)
<1>1. LoopLaws(A, PaneLine(A), AddShown(A), <<>>)
  BY AddShownType, LoopIs
<1>2. ExpandTabs(<<>>) = <<>>
  <2>1. <<>> \in Seq(A)
    OBVIOUS
  <2> QED BY <1>1, <2>1, ExpandIsLoop DEF LoopLaws
<1>3. ASSUME NEW s \in Seq(A)
      PROVE  ExpandTabs(s) = Loop(PaneLine(A), AddShown(A), <<>>, s) /\ ExpandTabs(s) \in PaneLine(A)
  BY <1>1, ExpandIsLoop DEF LoopLaws
<1>4. ASSUME NEW s \in Seq(A), NEW c \in A
      PROVE  ExpandTabs(Append(s, c)) =
                IF c = "\t" THEN ExpandTabs(s) \o Spaces(4 - (Len(ExpandTabs(s)) % 4))
                ELSE Append(ExpandTabs(s), c)
  <2>1. Append(s, c) \in Seq(A)
    OBVIOUS
  <2>2. ExpandTabs(Append(s, c)) = AddShown(A)[ExpandTabs(s)][c]
    BY <1>1, <1>3, <2>1, ExpandIsLoop DEF LoopLaws
  <2> QED BY <1>3, <2>2 DEF AddShown
<1> QED BY <1>2, <1>3, <1>4

\* Where the loop that skips characters stops.
LEMMA SkipIs ==
  ASSUME NEW A, NEW line \in Seq(A), NEW i \in Nat \ {0}, NEW chars
  PROVE  /\ Skip(line, i, chars) \in Nat /\ i <= Skip(line, i, chars)
         /\ \A k \in i..(Skip(line, i, chars) - 1) : k \in DOMAIN line /\ line[k] \in chars
         /\ Skip(line, i, chars) \in DOMAIN line => line[Skip(line, i, chars)] \notin chars
         /\ i <= Len(line) + 1 => Skip(line, i, chars) <= Len(line) + 1
<1> DEFINE T == {k \in i..Len(line) : line[k] \notin chars}
           m == Max({i, Len(line) + 1})
           s == Skip(line, i, chars)
<1>0. Len(line) \in Nat /\ DOMAIN line = 1..Len(line) /\ i \in Int /\ Len(line) + 1 \in Int
  OBVIOUS
<1>1. m = IF i <= Len(line) + 1 THEN Len(line) + 1 ELSE i
  BY <1>0, MaxOfTwo
<1> HIDE DEF m
<1>2. m \in Nat /\ i <= m /\ Len(line) < m
  BY <1>0, <1>1
<1>3. s = Min(T \cup {m})
  BY DEF Skip, m
<1>4. s \in T \cup {m} /\ \A x \in T \cup {m} : s <= x
  <2> DEFINE U == T \cup {m}
  <2>1. U \in SUBSET Int /\ m \in U /\ i \in Int /\ \A x \in U : i <= x
    BY <1>0, <1>2
  <2> HIDE DEF U
  <2>2. Min(U) \in U /\ \A x \in U : Min(U) <= x
    BY <2>1, MinOf
  <2>3. s = Min(U)
    BY <1>3 DEF U
  <2> QED BY <2>2, <2>3 DEF U
<1> HIDE DEF s
<1>5. s \in Nat /\ i <= s /\ s <= m
  BY <1>0, <1>2, <1>4
<1>6. ASSUME NEW k \in i..(s - 1) PROVE k \in DOMAIN line /\ line[k] \in chars
  <2>1. k \in Int /\ i <= k /\ k < s
    BY <1>5
  <2>2. k \in 1..Len(line) /\ k \in i..Len(line)
    BY <1>0, <1>1, <1>5, <2>1
  <2>3. k \notin T
    BY <1>4, <1>5, <2>1
  <2> QED BY <1>0, <2>2, <2>3
<1>7. s \in DOMAIN line => line[s] \notin chars
  BY <1>0, <1>2, <1>4
<1>8. i <= Len(line) + 1 => s <= Len(line) + 1
  BY <1>1, <1>5
<1> QED BY <1>5, <1>6, <1>7, <1>8 DEF s

\* It stops where the characters end.
LEMMA SkipTo ==
  ASSUME NEW A, NEW line \in Seq(A), NEW i \in Nat \ {0}, NEW chars, NEW j \in DOMAIN line,
         i <= j, \A k \in i..(j - 1) : line[k] \in chars, line[j] \notin chars
  PROVE  Skip(line, i, chars) = j
<1> DEFINE s == Skip(line, i, chars)
<1>1. /\ s \in Nat /\ i <= s /\ \A k \in i..(s - 1) : k \in DOMAIN line /\ line[k] \in chars
      /\ s \in DOMAIN line => line[s] \notin chars
  BY SkipIs
<1>2. j \in 1..Len(line) /\ Len(line) \in Nat
  OBVIOUS
<1> HIDE DEF s
<1>3. CASE s < j
  <2>1. s \in i..(j - 1) /\ s \in DOMAIN line
    BY <1>1, <1>2, <1>3
  <2> QED BY <1>1, <2>1
<1>4. CASE j < s
  <2>1. j \in i..(s - 1)
    BY <1>1, <1>2, <1>4
  <2> QED BY <1>1, <2>1
<1> QED BY <1>1, <1>2, <1>3, <1>4 DEF s

LEMMA AllIs ==
  ASSUME NEW A, NEW line \in Seq(A), NEW i \in Nat \ {0}, NEW j \in 0..Len(line), NEW chars
  PROVE  All(SubSeq(line, i, j), chars) <=> \A k \in i..j : line[k] \in chars
<1>0. Len(line) \in Nat /\ j \in Nat /\ i \in Nat
  OBVIOUS
<1> DEFINE s == SubSeq(line, i, j)
<1>1. DOMAIN s = 1..(IF i <= j THEN j - i + 1 ELSE 0) /\ \A k \in 1..(j - i + 1) : s[k] = line[i + k - 1]
  BY <1>0
<1>2. All(s, chars) <=> \A k \in DOMAIN s : s[k] \in chars
  BY Zenon DEF All, Range
<1> HIDE DEF s
<1>3. ASSUME \A k \in DOMAIN s : s[k] \in chars, NEW k \in i..j PROVE line[k] \in chars
  <2>1. k - i + 1 \in 1..(j - i + 1) /\ i + (k - i + 1) - 1 = k /\ i <= j
    BY <1>0
  <2>2. s[k - i + 1] = line[k] /\ k - i + 1 \in DOMAIN s
    BY <1>1, <2>1
  <2> QED BY <1>3, <2>2
<1>4. ASSUME \A k \in i..j : line[k] \in chars, NEW k \in DOMAIN s PROVE s[k] \in chars
  <2>1. k \in 1..(j - i + 1) /\ i + k - 1 \in i..j
    BY <1>0, <1>1
  <2> QED BY <1>1, <1>4, <2>1
<1>5. (\A k \in DOMAIN s : s[k] \in chars) <=> \A k \in i..j : line[k] \in chars
  BY <1>3, <1>4
<1> QED BY <1>2, <1>5 DEF s

\* What a match of a line says of it, character by character.
LEMMA MatchesIs ==
  ASSUME NEW A, NEW line \in Seq(A), NEW i \in DOMAIN line, NEW j \in DOMAIN line, NEW k \in 1..(Len(line) + 1)
  PROVE  Matches(line, i, j, k) <=>
           /\ i + 1 < j /\ j + 3 < k /\ k <= Len(line)
           /\ \A n \in 1..(i - 1) : line[n] \in Blanks \cup {">"}
           /\ line[i] \in Bullets
           /\ \A n \in (i + 1)..(j - 1) : line[n] \in Blanks
           /\ line[j] = "[" /\ line[j + 2] = "]"
           /\ \A n \in (j + 3)..(k - 1) : line[n] \in Blanks
<1>0. i \in 1..Len(line) /\ j \in 1..Len(line) /\ k \in 1..(Len(line) + 1) /\ Len(line) \in Nat
  OBVIOUS
<1>1. i - 1 \in 0..Len(line) /\ j - 1 \in 0..Len(line) /\ k - 1 \in 0..Len(line) /\ 1 \in Nat \ {0}
      /\ i + 1 \in Nat \ {0} /\ j + 3 \in Nat \ {0}
  BY <1>0
<1>2. All(SubSeq(line, 1, i - 1), Blanks \cup {">"}) <=> \A n \in 1..(i - 1) : line[n] \in Blanks \cup {">"}
  BY <1>1, AllIs
<1>3. All(SubSeq(line, i + 1, j - 1), Blanks) <=> \A n \in (i + 1)..(j - 1) : line[n] \in Blanks
  BY <1>1, AllIs
<1>4. All(SubSeq(line, j + 3, k - 1), Blanks) <=> \A n \in (j + 3)..(k - 1) : line[n] \in Blanks
  BY <1>1, AllIs
<1> QED BY <1>2, <1>3, <1>4, Zenon DEF Matches

LEMMA CharsDiffer ==
  /\ \A c \in Bullets : c \notin Blanks \cup {">"}
  /\ "[" \notin Blanks /\ "[" \notin Blanks \cup {">"} /\ "\t" \in Blanks /\ " " \in Blanks
BY DEF Bullets, Blanks

\* The function that skips finds the only bullet and the only bracket of a match.
LEMMA MatchesAt ==
  ASSUME NEW A, NEW line \in Seq(A), NEW i \in DOMAIN line, NEW j \in DOMAIN line, NEW k \in DOMAIN line,
         Matches(line, i, j, k)
  PROVE  i = AfterMarkers(line) /\ j \in BulletText(line) /\ j = Skip(line, i + 1, Blanks)
<1>0. i \in 1..Len(line) /\ j \in 1..Len(line) /\ k \in 1..Len(line) /\ Len(line) \in Nat /\ DOMAIN line = 1..Len(line)
      /\ 1 \in Nat \ {0} /\ i + 1 \in Nat \ {0} /\ k \in 1..(Len(line) + 1)
  OBVIOUS
<1>1. /\ i + 1 < j
      /\ \A n \in 1..(i - 1) : line[n] \in Blanks \cup {">"}
      /\ line[i] \in Bullets
      /\ \A n \in (i + 1)..(j - 1) : line[n] \in Blanks
      /\ line[j] = "["
  BY <1>0, MatchesIs
<1>2. AfterMarkers(line) = i
  <2>1. line[i] \notin Blanks \cup {">"}
    BY <1>1, CharsDiffer, Zenon
  <2>2. 1 <= i
    BY <1>0
  <2> QED BY <1>0, <1>1, <2>1, <2>2, SkipTo DEF AfterMarkers
<1>3. Skip(line, i + 1, Blanks) = j
  <2>1. line[j] \notin Blanks
    BY <1>1, CharsDiffer, Zenon
  <2>2. i + 1 <= j
    BY <1>0, <1>1
  <2> QED BY <1>0, <1>1, <2>1, <2>2, SkipTo
<1>4. j \in BulletText(line)
  BY <1>0, <1>1, <1>2, <1>3 DEF BulletText
<1> QED BY <1>2, <1>3, <1>4

\* The blanks after the box are taken as far as they go, and there is one place they go to.
LEMMA LastMatch ==
  ASSUME NEW A, NEW line \in Seq(A), NEW i \in DOMAIN line, NEW j \in DOMAIN line, NEW k \in DOMAIN line,
         Matches(line, i, j, k)
  PROVE  ~Matches(line, i, j, k + 1) <=> line[k] \notin Blanks \/ k = Len(line)
<1>0. i \in 1..Len(line) /\ j \in 1..Len(line) /\ k \in 1..Len(line) /\ Len(line) \in Nat
      /\ k \in 1..(Len(line) + 1) /\ k + 1 \in 1..(Len(line) + 1)
  OBVIOUS
<1>1. /\ i + 1 < j /\ j + 3 < k
      /\ \A n \in 1..(i - 1) : line[n] \in Blanks \cup {">"}
      /\ line[i] \in Bullets
      /\ \A n \in (i + 1)..(j - 1) : line[n] \in Blanks
      /\ line[j] = "[" /\ line[j + 2] = "]"
      /\ \A n \in (j + 3)..(k - 1) : line[n] \in Blanks
  BY <1>0, MatchesIs
<1>2. PICK m : m = k + 1
  OBVIOUS
<1>3. Matches(line, i, j, m) <=>
        /\ i + 1 < j /\ j + 3 < m /\ m <= Len(line)
        /\ \A n \in 1..(i - 1) : line[n] \in Blanks \cup {">"}
        /\ line[i] \in Bullets
        /\ \A n \in (i + 1)..(j - 1) : line[n] \in Blanks
        /\ line[j] = "[" /\ line[j + 2] = "]"
        /\ \A n \in (j + 3)..(m - 1) : line[n] \in Blanks
  <2>1. m \in 1..(Len(line) + 1)
    BY <1>0, <1>2
  <2> QED BY <2>1, MatchesIs
<1>4. (m <= Len(line) <=> k # Len(line)) /\ j + 3 < m
  BY <1>0, <1>1, <1>2
<1>5. (\A n \in (j + 3)..(m - 1) : line[n] \in Blanks) <=> line[k] \in Blanks
  <2>1. j \in Int /\ k \in Int /\ j + 3 < k
    BY <1>0, <1>1
  <2>2. k \in (j + 3)..(m - 1)
    BY <1>2, <2>1
  <2>3. \A n \in (j + 3)..(m - 1) : n = k \/ n \in (j + 3)..(k - 1)
    BY <1>2, <2>1
  <2> QED BY <1>1, <2>2, <2>3, Zenon
<1> QED BY <1>1, <1>2, <1>3, <1>4, <1>5, Zenon

LEMMA ReadsOnce ==
  ASSUME NEW A, NEW line \in Seq(A), NEW i \in DOMAIN line, NEW j \in DOMAIN line,
         NEW k \in DOMAIN line, NEW m \in DOMAIN line, k < m,
         Matches(line, i, j, k), Matches(line, i, j, m)
  PROVE  Matches(line, i, j, k + 1)
<1>0. i \in 1..Len(line) /\ j \in 1..Len(line) /\ k \in 1..Len(line) /\ m \in 1..Len(line) /\ Len(line) \in Nat
      /\ k \in 1..(Len(line) + 1) /\ m \in 1..(Len(line) + 1) /\ k # Len(line)
  OBVIOUS
<1>1. j + 3 < k
  BY <1>0, MatchesIs
<1>2. \A n \in (j + 3)..(m - 1) : line[n] \in Blanks
  BY <1>0, MatchesIs
<1>3. k \in (j + 3)..(m - 1)
  BY <1>0, <1>1
<1> QED BY <1>0, <1>2, <1>3, LastMatch

\* The text of a match is more than blanks if and only if it begins with none.
LEMMA BodyIsText ==
  ASSUME NEW A, NEW line \in Seq(A), NEW i \in DOMAIN line, NEW j \in DOMAIN line, NEW k \in DOMAIN line,
         Matches(line, i, j, k), ~Matches(line, i, j, k + 1)
  PROVE  ~All(From(line, k), Blanks) <=> line[k] \notin Blanks
<1>0. k \in 1..Len(line) /\ Len(line) \in Nat /\ k \in Nat \ {0} /\ Len(line) \in 0..Len(line)
  OBVIOUS
<1>1. All(From(line, k), Blanks) <=> \A n \in k..Len(line) : line[n] \in Blanks
  BY <1>0, AllIs DEF From
<1>2. k \in k..Len(line)
  BY <1>0
<1>3. k = Len(line) => \A n \in k..Len(line) : n = k
  BY <1>0
<1> QED BY <1>1, <1>2, <1>3, LastMatch, Zenon

\* The function that skips finds the only places at which a line can be read as a task.
LEMMA ReadingsAre ==
  ASSUME NEW A, NEW line \in Seq(A), NEW i \in DOMAIN line, NEW j \in DOMAIN line, NEW k \in DOMAIN line
  PROVE  (Matches(line, i, j, k) /\ line[k] \notin Blanks) <=>
           /\ i = AfterMarkers(line) /\ j \in BulletText(line) /\ k \in TextAfterBox(line, j)
           /\ line[j] = "[" /\ From(line, j + 2) # <<>> /\ line[j + 2] = "]"
<1>0. i \in 1..Len(line) /\ j \in 1..Len(line) /\ k \in 1..Len(line) /\ Len(line) \in Nat /\ DOMAIN line = 1..Len(line)
      /\ 1 \in Nat \ {0} /\ i + 1 \in Nat \ {0} /\ j + 3 \in Nat \ {0} /\ k \in 1..(Len(line) + 1) /\ k <= Len(line)
  OBVIOUS
<1>1. ASSUME Matches(line, i, j, k), line[k] \notin Blanks
      PROVE  /\ i = AfterMarkers(line) /\ j \in BulletText(line) /\ k \in TextAfterBox(line, j)
             /\ line[j] = "[" /\ From(line, j + 2) # <<>> /\ line[j + 2] = "]"
  <2>1. /\ j + 3 < k
        /\ line[j] = "[" /\ line[j + 2] = "]"
        /\ \A n \in (j + 3)..(k - 1) : line[n] \in Blanks
    BY <1>0, <1>1, MatchesIs
  <2>2. i = AfterMarkers(line) /\ j \in BulletText(line)
    BY <1>1, MatchesAt
  <2>3. Skip(line, j + 3, Blanks) = k
    <3>1. j + 3 <= k
      BY <1>0, <2>1
    <3> QED BY <1>0, <1>1, <2>1, <3>1, SkipTo
  <2>4. k \in TextAfterBox(line, j)
    BY <1>0, <2>1, <2>3 DEF TextAfterBox
  <2>5. From(line, j + 2) # <<>>
    <3>1. Len(From(line, j + 2)) = Len(line) - j - 1
      BY <1>0, <2>1 DEF From
    <3>2. Len(line) - j - 1 # 0 /\ Len(<<>>) = 0
      BY <1>0, <2>1
    <3> QED BY <3>1, <3>2
  <2> QED BY <2>1, <2>2, <2>4, <2>5
<1>2. ASSUME i = AfterMarkers(line), j \in BulletText(line), k \in TextAfterBox(line, j),
             line[j] = "[", line[j + 2] = "]"
      PROVE  Matches(line, i, j, k) /\ line[k] \notin Blanks
  <2>1. j = Skip(line, i + 1, Blanks) /\ line[i] \in Bullets /\ j > i + 1
    BY <1>2 DEF BulletText
  <2>2. k = Skip(line, j + 3, Blanks) /\ k > j + 3
    BY <1>2 DEF TextAfterBox
  <2>3. \A n \in 1..(i - 1) : line[n] \in Blanks \cup {">"}
    BY <1>0, <1>2, SkipIs DEF AfterMarkers
  <2>4. \A n \in (i + 1)..(j - 1) : line[n] \in Blanks
    BY <1>0, <2>1, SkipIs
  <2>5. (\A n \in (j + 3)..(k - 1) : line[n] \in Blanks) /\ line[k] \notin Blanks
    BY <1>0, <2>2, SkipIs
  <2>6. i + 1 < j /\ j + 3 < k
    BY <1>0, <2>1, <2>2
  <2>7. Matches(line, i, j, k) <=>
          /\ i + 1 < j /\ j + 3 < k /\ k <= Len(line)
          /\ \A n \in 1..(i - 1) : line[n] \in Blanks \cup {">"}
          /\ line[i] \in Bullets
          /\ \A n \in (i + 1)..(j - 1) : line[n] \in Blanks
          /\ line[j] = "[" /\ line[j + 2] = "]"
          /\ \A n \in (j + 3)..(k - 1) : line[n] \in Blanks
    BY <1>0, MatchesIs
  <2> QED BY <1>0, <1>2, <2>1, <2>3, <2>4, <2>5, <2>6, <2>7, Zenon
<1> QED BY <1>1, <1>2

LEMMA BulletIs ==
  ASSUME NEW A, NEW line \in Seq(A), NEW j \in BulletText(line)
  PROVE  j \in DOMAIN line /\ AfterMarkers(line) \in DOMAIN line
BY DEF BulletText

LEMMA CapturesAreReadings ==
  ASSUME NEW A, NEW line \in Seq(A)
  PROVE  /\ TaskCaptures(line) = {task \in Readings(line) : ~All(task.body, Blanks)}
         /\ Cardinality(Readings(line)) <= 1
<1> DEFINE Task(j, k) == [char |-> line[j + 1], body |-> From(line, k)]
           Longest(i, j, k) == Matches(line, i, j, k) /\ ~Matches(line, i, j, k + 1)
           Boxes == {k \in BulletText(line) : line[k] = "[" /\ From(line, k + 2) # <<>> /\ line[k + 2] = "]"}
           Texts(j) == {Task(j, k) : k \in TextAfterBox(line, j)}
           Reads(i, j) == {Task(j, k) : k \in {k \in DOMAIN line : Longest(i, j, k)}}
           Markers(i) == UNION {Reads(i, j) : j \in DOMAIN line}
<1>a. TaskCaptures(line) = UNION {Texts(j) : j \in Boxes}
  BY Zenon DEF TaskCaptures
<1>b. Readings(line) = UNION {Markers(i) : i \in DOMAIN line}
  BY Zenon DEF Readings
<1>c. \A j : j \in Boxes <=> j \in BulletText(line) /\ line[j] = "[" /\ From(line, j + 2) # <<>> /\ line[j + 2] = "]"
  BY Zenon
<1>d. \A j, x : x \in Texts(j) <=> \E k \in TextAfterBox(line, j) : x = Task(j, k)
  BY Zenon
<1>e. \A i, j, x : x \in Reads(i, j) <=> \E k \in DOMAIN line : Longest(i, j, k) /\ x = Task(j, k)
  BY Zenon
<1>k. ASSUME NEW i \in DOMAIN line, NEW j \in DOMAIN line, NEW k \in DOMAIN line
      PROVE  (Longest(i, j, k) /\ ~All(Task(j, k).body, Blanks)) <=>
               (Matches(line, i, j, k) /\ line[k] \notin Blanks)
  <2>1. Task(j, k).body = From(line, k)
    OBVIOUS
  <2>2. ASSUME Longest(i, j, k), ~All(Task(j, k).body, Blanks) PROVE line[k] \notin Blanks
    BY <2>1, <2>2, BodyIsText
  <2>3. ASSUME Matches(line, i, j, k), line[k] \notin Blanks PROVE Longest(i, j, k) /\ ~All(Task(j, k).body, Blanks)
    <3>1. ~Matches(line, i, j, k + 1)
      BY <2>3, LastMatch
    <3> QED BY <2>1, <2>3, <3>1, BodyIsText
  <2> QED BY <2>2, <2>3
<1> HIDE DEF Task, Boxes, Texts, Reads
<1>h. \A i, x : x \in Markers(i) <=> \E j \in DOMAIN line : x \in Reads(i, j)
  BY Zenon
<1> HIDE DEF Markers
<1>f. \A x : x \in TaskCaptures(line) <=> \E j \in Boxes : x \in Texts(j)
  BY <1>a, Zenon
<1>g. \A x : x \in Readings(line) <=> \E i \in DOMAIN line : x \in Markers(i)
  BY <1>b, Zenon
<1>1. ASSUME NEW x \in TaskCaptures(line)
      PROVE  \E i, j, k \in DOMAIN line : Matches(line, i, j, k) /\ line[k] \notin Blanks /\ x = Task(j, k)
  <2>1. PICK j \in Boxes : x \in Texts(j)
    BY <1>1, <1>f, Zenon
  <2>2. PICK k \in TextAfterBox(line, j) : x = Task(j, k)
    BY <1>d, <2>1, Zenon
  <2>3. j \in BulletText(line) /\ line[j] = "[" /\ From(line, j + 2) # <<>> /\ line[j + 2] = "]"
    BY <1>c, <2>1, Zenon
  <2>4. j \in DOMAIN line /\ AfterMarkers(line) \in DOMAIN line
    BY <2>3, BulletIs
  <2>5. k \in DOMAIN line
    BY <2>2, Zenon DEF TextAfterBox
  <2>6. Matches(line, AfterMarkers(line), j, k) /\ line[k] \notin Blanks
    BY <2>2, <2>3, <2>4, <2>5, ReadingsAre
  <2> QED BY <2>2, <2>4, <2>5, <2>6, Zenon
<1>2. ASSUME NEW i \in DOMAIN line, NEW j \in DOMAIN line, NEW k \in DOMAIN line,
             Matches(line, i, j, k), line[k] \notin Blanks
      PROVE  Task(j, k) \in TaskCaptures(line)
  <2>1. /\ j \in BulletText(line) /\ k \in TextAfterBox(line, j)
        /\ line[j] = "[" /\ From(line, j + 2) # <<>> /\ line[j + 2] = "]"
    BY <1>2, ReadingsAre
  <2>2. j \in Boxes /\ Task(j, k) \in Texts(j)
    BY <1>c, <1>d, <2>1, Zenon
  <2> QED BY <1>f, <2>2, Zenon
<1> HIDE DEF Longest
<1>3. \A x : x \in Readings(line) <=> \E i, j, k \in DOMAIN line : Longest(i, j, k) /\ x = Task(j, k)
  <2>1. ASSUME NEW x \in Readings(line) PROVE \E i, j, k \in DOMAIN line : Longest(i, j, k) /\ x = Task(j, k)
    <3>1. PICK i \in DOMAIN line : x \in Markers(i)
      BY <1>g, Zenon
    <3>2. PICK j \in DOMAIN line : x \in Reads(i, j)
      BY <1>h, <3>1, Zenon
    <3>3. PICK k \in DOMAIN line : Longest(i, j, k) /\ x = Task(j, k)
      BY <1>e, <3>2
    <3> QED BY <3>3, Zenon
  <2>2. ASSUME NEW x, NEW i \in DOMAIN line, NEW j \in DOMAIN line, NEW k \in DOMAIN line,
               Longest(i, j, k), x = Task(j, k)
        PROVE  x \in Readings(line)
    <3>1. x \in Reads(i, j)
      BY <1>e, <2>2, Zenon
    <3>2. x \in Markers(i)
      BY <1>h, <3>1, Zenon
    <3> QED BY <1>g, <3>2, Zenon
  <2> QED BY <2>1, <2>2, Zenon
<1>4. TaskCaptures(line) = {task \in Readings(line) : ~All(task.body, Blanks)}
  <2>1. ASSUME NEW x \in TaskCaptures(line) PROVE x \in Readings(line) /\ ~All(x.body, Blanks)
    <3>1. PICK i \in DOMAIN line, j \in DOMAIN line, k \in DOMAIN line :
            Matches(line, i, j, k) /\ line[k] \notin Blanks /\ x = Task(j, k)
      BY <1>1, Zenon
    <3>2. Longest(i, j, k) /\ ~All(Task(j, k).body, Blanks)
      BY <1>k, <3>1
    <3> QED BY <1>3, <3>1, <3>2, Zenon
  <2>2. ASSUME NEW x \in Readings(line), ~All(x.body, Blanks) PROVE x \in TaskCaptures(line)
    <3>1. PICK i \in DOMAIN line, j \in DOMAIN line, k \in DOMAIN line : Longest(i, j, k) /\ x = Task(j, k)
      BY <1>3, <2>2, Zenon
    <3>2. Matches(line, i, j, k) /\ line[k] \notin Blanks
      BY <1>k, <2>2, <3>1
    <3> QED BY <1>2, <3>1, <3>2, Zenon
  <2> QED BY <2>1, <2>2, Zenon
<1>5. ASSUME NEW x \in Readings(line), NEW y \in Readings(line) PROVE x = y
  <2>1. PICK i, j, k \in DOMAIN line : Longest(i, j, k) /\ x = Task(j, k)
    BY <1>3, Zenon
  <2>2. PICK a, b, c \in DOMAIN line : Longest(a, b, c) /\ y = Task(b, c)
    BY <1>3, Zenon
  <2>3. i = AfterMarkers(line) /\ j = Skip(line, i + 1, Blanks)
    BY <2>1, MatchesAt DEF Longest
  <2>4. a = AfterMarkers(line) /\ b = Skip(line, a + 1, Blanks)
    BY <2>2, MatchesAt DEF Longest
  <2>5. i = a /\ j = b
    BY <2>3, <2>4
  <2>6. k = c
    <3>1. ~(k < c) /\ ~(c < k)
      BY <2>1, <2>2, <2>5, ReadsOnce DEF Longest
    <3>2. k \in Nat /\ c \in Nat
      OBVIOUS
    <3> QED BY <3>1, <3>2
  <2> QED BY <2>1, <2>2, <2>5, <2>6
<1>6. Cardinality(Readings(line)) <= 1
  <2>1. CASE Readings(line) = {}
    BY <2>1, FS_EmptySet
  <2>2. CASE Readings(line) # {}
    <3>1. PICK x \in Readings(line) : TRUE
      BY <2>2
    <3>2. Readings(line) = {x}
      BY <1>5, <3>1, Zenon
    <3>3. Cardinality({x}) = 1
      BY FS_Singleton
    <3> QED BY <3>2, <3>3
  <2> QED BY <2>1, <2>2
<1> QED BY <1>4, <1>6

-----------------------------------------------------------------------------
\* Indentation.

Start(line, n) == SubSeq(line, 1, n)

LEMMA StartIs ==
  ASSUME NEW A, NEW line \in Seq(A)
  PROVE  /\ Start(line, 0) = <<>> /\ Start(line, Len(line)) = line
         /\ \A n \in 0..Len(line) : Start(line, n) \in Seq(A)
         /\ \A n \in 0..(Len(line) - 1) : line[n + 1] \in A /\ Start(line, n + 1) = Append(Start(line, n), line[n + 1])
<1>0. Len(line) \in Nat /\ \A k \in 1..Len(line) : line[k] \in A
  OBVIOUS
<1>1. Start(line, 0) = <<>> /\ Start(line, Len(line)) = line
  BY <1>0 DEF Start
<1>2. ASSUME NEW n \in 0..Len(line) PROVE Start(line, n) \in Seq(A)
  BY <1>0 DEF Start
<1>3. ASSUME NEW n \in 0..(Len(line) - 1)
      PROVE  line[n + 1] \in A /\ Start(line, n + 1) = Append(Start(line, n), line[n + 1])
  BY <1>0 DEF Start
<1> QED BY <1>1, <1>2, <1>3

LEMMA ConcatAll ==
  ASSUME NEW B, NEW b, NEW s \in Seq(B), NEW t \in Seq(B),
         \A i \in 1..Len(s) : s[i] = b, \A i \in 1..Len(t) : t[i] = b
  PROVE  Len(s \o t) = Len(s) + Len(t) /\ \A i \in 1..Len(s \o t) : (s \o t)[i] = b
<1>1. Len(s) \in Nat /\ Len(t) \in Nat /\ Len(s \o t) = Len(s) + Len(t)
      /\ \A i \in 1..(Len(s) + Len(t)) : (s \o t)[i] = IF i <= Len(s) THEN s[i] ELSE t[i - Len(s)]
  OBVIOUS
<1>2. ASSUME NEW i \in 1..(Len(s) + Len(t)) PROVE (s \o t)[i] = b
  <2>1. CASE i <= Len(s)
    BY <1>1, <2>1
  <2>2. CASE ~(i <= Len(s))
    <3>1. i - Len(s) \in 1..Len(t)
      BY <1>1, <2>2
    <3> QED BY <1>1, <2>2, <3>1
  <2> QED BY <2>1, <2>2
<1> QED BY <1>1, <1>2

LEMMA AppendAll ==
  ASSUME NEW B, NEW b \in B, NEW s \in Seq(B), \A i \in 1..Len(s) : s[i] = b
  PROVE  Len(Append(s, b)) = Len(s) + 1 /\ \A i \in 1..Len(Append(s, b)) : Append(s, b)[i] = b
<1>1. Len(s) \in Nat /\ Len(Append(s, b)) = Len(s) + 1
      /\ \A i \in 1..(Len(s) + 1) : Append(s, b)[i] = IF i = Len(s) + 1 THEN b ELSE s[i]
  OBVIOUS
<1>2. ASSUME NEW i \in 1..(Len(s) + 1) PROVE Append(s, b)[i] = b
  <2>1. i = Len(s) + 1 \/ i \in 1..Len(s)
    BY <1>1
  <2> QED BY <1>1, <2>1
<1> QED BY <1>1, <1>2

Space == " "
Tab   == "\t"

\* What a character is shown as, after what is shown of the line before it.
Displayed(out, c) == IF c = Tab THEN out \o Spaces(4 - (Len(out) % 4)) ELSE Append(out, c)

\* A blank is shown as spaces, as many as count_indent counts for it.
LEMMA BlankIs ==
  ASSUME NEW A, NEW out \in PaneLine(A), \A i \in 1..Len(out) : out[i] = Space, NEW c \in Blanks
  PROVE  /\ Len(Displayed(out, c)) = IF c = Tab THEN NextStop(Len(out)) ELSE Len(out) + 1
         /\ \A i \in 1..Len(Displayed(out, c)) : Displayed(out, c)[i] = Space
<1>0. out \in Seq(WithBlank(A)) /\ Space \in WithBlank(A)
  BY DEF PaneLine, WithBlank, Space
<1>1. CASE c = Tab
  <2> DEFINE n == 4 - (Len(out) % 4)
             sp == Spaces(n)
  <2>1. n \in Nat /\ sp \in PaneLine(A) /\ Len(sp) = n /\ Len(out \o sp) = NextStop(Len(out))
    BY SpacesIs
  <2>2. \A i \in 1..n : sp[i] = Space
    BY Zenon DEF Spaces, Space
  <2>3. Displayed(out, c) = out \o sp
    BY <1>1 DEF Displayed
  <2> HIDE DEF n, sp
  <2>4. sp \in Seq(WithBlank(A)) /\ \A i \in 1..Len(sp) : sp[i] = Space
    BY <2>1, <2>2 DEF PaneLine
  <2>5. \A i \in 1..Len(out \o sp) : (out \o sp)[i] = Space
    BY <1>0, <2>4, ConcatAll
  <2> QED BY <1>1, <2>1, <2>3, <2>5
<1>2. CASE c # Tab
  <2>1. c = Space
    BY <1>2 DEF Blanks, Space, Tab
  <2>2. Displayed(out, c) = Append(out, Space)
    BY <1>2, <2>1 DEF Displayed
  <2>3. Len(Append(out, Space)) = Len(out) + 1 /\ \A i \in 1..Len(Append(out, Space)) : Append(out, Space)[i] = Space
    BY <1>0, AppendAll
  <2> QED BY <1>2, <2>2, <2>3
<1> QED BY <1>1, <1>2

\* What is shown of a line is kept when it goes on.
LEMMA ShownOn ==
  ASSUME NEW A, NEW out \in PaneLine(A), NEW c \in A
  PROVE  /\ Len(out) \in Nat /\ Len(Displayed(out, c)) \in Nat /\ Len(out) < Len(Displayed(out, c))
         /\ \A i \in 1..Len(out) : Displayed(out, c)[i] = out[i]
         /\ c # Tab => Displayed(out, c)[Len(out) + 1] = c
<1>0. out \in Seq(WithBlank(A)) /\ Len(out) \in Nat
  BY DEF PaneLine
<1>1. CASE c = Tab
  <2> DEFINE n == 4 - (Len(out) % 4)
             sp == Spaces(n)
  <2>1. n \in 1..4 /\ sp \in PaneLine(A) /\ Len(sp) = n
    BY SpacesIs
  <2>2. Displayed(out, c) = out \o sp
    BY <1>1 DEF Displayed
  <2> HIDE DEF n, sp
  <2>3. sp \in Seq(WithBlank(A))
    BY <2>1 DEF PaneLine
  <2>4. Len(out \o sp) = Len(out) + n /\ \A i \in 1..Len(out) : (out \o sp)[i] = out[i]
    BY <1>0, <2>1, <2>3
  <2> QED BY <1>0, <1>1, <2>1, <2>2, <2>4
<1>2. CASE c # Tab
  <2>1. c \in WithBlank(A)
    BY DEF WithBlank
  <2>2. Len(Append(out, c)) = Len(out) + 1 /\ (\A i \in 1..Len(out) : Append(out, c)[i] = out[i])
        /\ Append(out, c)[Len(out) + 1] = c
    BY <1>0, <2>1
  <2>3. Displayed(out, c) = Append(out, c)
    BY <1>2 DEF Displayed
  <2> QED BY <1>0, <1>2, <2>2, <2>3
<1> QED BY <1>1, <1>2

LEMMA IndentShown ==
  ASSUME NEW A, NEW line \in Seq(A)
  PROVE  LET shown == ExpandTabs(line)
         IN  CountIndent(line) = Max({0} \cup {i \in DOMAIN shown : All(SubSeq(shown, 1, i), {" "})})
<1> DEFINE p == Skip(line, 1, Blanks) - 1
           S == {n \in 0..p : /\ Indent(Start(line, n)) = Len(ExpandTabs(Start(line, n)))
                              /\ \A i \in 1..Len(ExpandTabs(Start(line, n))) : ExpandTabs(Start(line, n))[i] = Space}
<1>0. Len(line) \in Nat /\ DOMAIN line = 1..Len(line)
  OBVIOUS
<1>1. /\ p \in 0..Len(line) /\ \A k \in 1..p : line[k] \in Blanks
      /\ p < Len(line) => line[p + 1] \notin Blanks
  <2> DEFINE s == Skip(line, 1, Blanks)
  <2>1. /\ s \in Nat /\ 1 <= s /\ \A k \in 1..(s - 1) : k \in DOMAIN line /\ line[k] \in Blanks
        /\ s \in DOMAIN line => line[s] \notin Blanks
        /\ 1 <= Len(line) + 1 => s <= Len(line) + 1
    BY SkipIs, 1 \in Nat \ {0}
  <2> HIDE DEF s
  <2>2. /\ s - 1 \in 0..Len(line) /\ \A k \in 1..(s - 1) : line[k] \in Blanks
        /\ s - 1 < Len(line) => line[(s - 1) + 1] \notin Blanks
    BY <1>0, <2>1
  <2> QED BY <2>2 DEF s
<1>2. CountIndent(line) = Indent(Start(line, p))
  BY Zenon DEF CountIndent, Indent, Start
<1> HIDE DEF p
<1>3. ASSUME NEW n \in 0..Len(line) PROVE ExpandTabs(Start(line, n)) \in PaneLine(A)
  BY StartIs, ExpandIs
<1>4. ASSUME NEW n \in 0..(Len(line) - 1)
      PROVE  LET out == ExpandTabs(Start(line, n))
                 c   == line[n + 1]
             IN  /\ c \in A /\ out \in PaneLine(A)
                 /\ ExpandTabs(Start(line, n + 1)) = Displayed(out, c)
                 /\ Indent(Start(line, n + 1))
                      = IF c = Tab THEN NextStop(Indent(Start(line, n))) ELSE Indent(Start(line, n)) + 1
  <2>1. n \in 0..Len(line)
    BY <1>0
  <2>2. Start(line, n) \in Seq(A) /\ line[n + 1] \in A /\ Start(line, n + 1) = Append(Start(line, n), line[n + 1])
    BY <2>1, StartIs
  <2>3. ExpandTabs(Append(Start(line, n), line[n + 1])) = Displayed(ExpandTabs(Start(line, n)), line[n + 1])
    BY <2>2, ExpandIs, Zenon DEF Displayed, Tab
  <2>4. Indent(Append(Start(line, n), line[n + 1]))
          = IF line[n + 1] = Tab THEN NextStop(Indent(Start(line, n))) ELSE Indent(Start(line, n)) + 1
    BY <2>2, IndentIs, Zenon DEF Tab
  <2> QED BY <1>3, <2>1, <2>2, <2>3, <2>4
<1>5. 0 \in S
  <2>1. ExpandTabs(Start(line, 0)) = <<>> /\ Indent(Start(line, 0)) = 0
    BY StartIs, ExpandIs, IndentIs, Zenon
  <2>2. Len(<<>>) = 0 /\ 0 \in 0..p
    BY <1>1
  <2> QED BY <2>1, <2>2
<1>6. ASSUME NEW n \in 0..(p - 1), n \in S PROVE n + 1 \in S
  <2> DEFINE out == ExpandTabs(Start(line, n))
             next == ExpandTabs(Start(line, n + 1))
             c == line[n + 1]
  <2>1. n \in 0..(Len(line) - 1) /\ n + 1 \in 1..p /\ n + 1 \in 0..p
    BY <1>0, <1>1
  <2>2. /\ c \in A /\ out \in PaneLine(A) /\ c \in Blanks
        /\ next = Displayed(out, c)
        /\ Indent(Start(line, n + 1))
             = IF c = Tab THEN NextStop(Indent(Start(line, n))) ELSE Indent(Start(line, n)) + 1
    BY <1>1, <1>4, <2>1
  <2>3. Indent(Start(line, n)) = Len(out) /\ \A i \in 1..Len(out) : out[i] = Space
    BY <1>6
  <2> HIDE DEF out, next, c
  <2>4. /\ Len(next) = IF c = Tab THEN NextStop(Len(out)) ELSE Len(out) + 1
        /\ \A i \in 1..Len(next) : next[i] = Space
    BY <2>2, <2>3, BlankIs
  <2>5. Indent(Start(line, n + 1)) = Len(next)
    BY <2>2, <2>3, <2>4
  <2> QED BY <2>1, <2>4, <2>5 DEF next
<1>7. p \in S
  <2> HIDE DEF S
  <2>1. p \in Nat
    BY <1>1
  <2>2. \A n \in 0..p : n \in S
    BY <1>5, <1>6, <2>1, Induct
  <2> QED BY <2>1, <2>2
<1> DEFINE w == ExpandTabs(Start(line, p))
           shown == ExpandTabs(line)
<1>8. CountIndent(line) = Len(w) /\ (\A i \in 1..Len(w) : w[i] = Space) /\ w \in PaneLine(A)
  BY <1>1, <1>2, <1>3, <1>7
<1> HIDE DEF S, w
<1>9. Len(w) \in Nat /\ shown \in PaneLine(A) /\ Len(shown) \in Nat /\ DOMAIN shown = 1..Len(shown)
  <2>1. shown \in PaneLine(A)
    BY ExpandIs
  <2> HIDE DEF shown
  <2> QED BY <1>8, <2>1 DEF PaneLine
<1>10. /\ Len(w) <= Len(shown) /\ \A i \in 1..Len(w) : shown[i] = w[i]
       /\ Len(w) < Len(shown) => shown[Len(w) + 1] # Space
  <2>1. CASE p = Len(line)
    <3>1. w = shown
      BY <2>1, StartIs DEF w
    <3> HIDE DEF shown
    <3> QED BY <1>9, <3>1
  <2>2. CASE p # Len(line)
    <3> DEFINE q == Len(line) - (p + 1)
               out(m) == ExpandTabs(Start(line, p + 1 + m))
               T == {m \in 0..q : /\ out(m) \in PaneLine(A)
                                  /\ Len(out(m)) \in Nat /\ Len(w) < Len(out(m)) /\ out(m)[Len(w) + 1] = line[p + 1]
                                  /\ \A i \in 1..Len(w) : out(m)[i] = w[i]}
    <3> HIDE DEF out, T
    <3>1. p \in 0..(Len(line) - 1) /\ q \in Nat /\ p + 1 + 0 = p + 1 /\ p + 1 + q = Len(line) /\ p \in Nat
      <4>1. p \in 0..Len(line) /\ Len(line) \in Nat
        BY <1>0, <1>1
      <4> QED BY <2>2, <4>1
    <3> USE DEF out, T
    <3>2. line[p + 1] # Tab /\ line[p + 1] # Space
      <4>1. line[p + 1] \notin Blanks
        BY <1>1, <3>1
      <4> QED BY <4>1, CharsDiffer, Zenon DEF Tab, Space
    <3>3. 0 \in T
      <4>1. out(0) = ExpandTabs(Start(line, p + 1)) /\ p + 1 \in 0..Len(line)
        BY <3>1
      <4>2. line[p + 1] \in A /\ out(0) = Displayed(w, line[p + 1])
        BY <1>4, <3>1, <4>1 DEF w
      <4>3. out(0) \in PaneLine(A)
        BY <1>3, <4>1
      <4> HIDE DEF out
      <4>4. /\ Len(w) \in Nat /\ Len(out(0)) \in Nat /\ Len(w) < Len(out(0)) /\ \A i \in 1..Len(w) : out(0)[i] = w[i]
            /\ out(0)[Len(w) + 1] = line[p + 1]
        BY <1>8, <3>2, <4>2, ShownOn
      <4> QED BY <3>1, <4>3, <4>4
    <3>4. ASSUME NEW m \in 0..(q - 1), m \in T PROVE m + 1 \in T
      <4>1. p + 1 + m \in 0..(Len(line) - 1) /\ (p + 1 + m) + 1 = p + 1 + (m + 1) /\ m + 1 \in 0..q
            /\ p + 1 + (m + 1) \in 0..Len(line)
        BY <1>0, <3>1
      <4> DEFINE c == line[p + 1 + m + 1]
      <4>2. /\ c \in A /\ out(m) \in PaneLine(A)
            /\ out(m + 1) = Displayed(out(m), c)
        BY <1>4, <4>1
      <4>3. out(m + 1) \in PaneLine(A)
        BY <1>3, <4>1
      <4> HIDE DEF out, c
      <4>4. /\ Len(out(m)) \in Nat /\ Len(out(m + 1)) \in Nat /\ Len(out(m)) < Len(out(m + 1))
            /\ \A i \in 1..Len(out(m)) : out(m + 1)[i] = out(m)[i]
        BY <4>2, ShownOn
      <4>5. Len(w) < Len(out(m)) /\ out(m)[Len(w) + 1] = line[p + 1] /\ \A i \in 1..Len(w) : out(m)[i] = w[i]
        BY <3>4
      <4>6. Len(w) + 1 \in 1..Len(out(m)) /\ \A i \in 1..Len(w) : i \in 1..Len(out(m))
        BY <1>9, <4>4, <4>5
      <4>7. /\ Len(w) < Len(out(m + 1)) /\ out(m + 1)[Len(w) + 1] = line[p + 1]
            /\ \A i \in 1..Len(w) : out(m + 1)[i] = w[i]
        BY <1>9, <4>4, <4>5, <4>6
      <4> QED BY <4>1, <4>3, <4>4, <4>7
    <3>5. q \in T
      <4> HIDE DEF T
      <4>1. \A m \in 0..q : m \in T
        BY <3>1, <3>3, <3>4, Induct
      <4> QED BY <3>1, <4>1
    <3>6. out(q) = shown
      BY <3>1, StartIs
    <3>7. Len(w) < Len(shown) /\ shown[Len(w) + 1] = line[p + 1] /\ \A i \in 1..Len(w) : shown[i] = w[i]
      BY <3>5, <3>6
    <3> QED BY <1>9, <3>2, <3>7
  <2> QED BY <2>1, <2>2
<1> DEFINE U == {0} \cup {i \in DOMAIN shown : All(SubSeq(shown, 1, i), {" "})}
<1>11. ASSUME NEW i \in 1..Len(shown)
       PROVE  All(SubSeq(shown, 1, i), {" "}) <=> \A k \in 1..i : shown[k] = Space
  <2>1. shown \in Seq(WithBlank(A)) /\ 1 \in Nat \ {0} /\ i \in 0..Len(shown)
    BY <1>9 DEF PaneLine
  <2> HIDE DEF shown
  <2>2. All(SubSeq(shown, 1, i), {Space}) <=> \A k \in 1..i : shown[k] \in {Space}
    BY <2>1, AllIs
  <2> QED BY <2>2, Zenon DEF Space
<1> DEFINE AllBlank(i) == All(SubSeq(shown, 1, i), {" "})
<1> HIDE DEF shown
<1>e. U = {0} \cup {i \in 1..Len(shown) : AllBlank(i)}
  BY <1>9, Zenon
<1>f. \A i \in 1..Len(shown) : AllBlank(i) <=> \A k \in 1..i : shown[k] = Space
  BY <1>11, Zenon
<1> HIDE DEF AllBlank, U
<1>12. Len(w) \in U
  <2>1. CASE Len(w) = 0
    BY <1>e, <2>1
  <2>2. CASE Len(w) # 0
    <3>1. Len(w) \in 1..Len(shown)
      BY <1>9, <1>10, <2>2
    <3>2. \A k \in 1..Len(w) : shown[k] = Space
      BY <1>8, <1>10
    <3> QED BY <1>e, <1>f, <3>1, <3>2
  <2> QED BY <2>1, <2>2
<1>13. ASSUME NEW i \in U PROVE i \in Nat /\ i <= Len(w)
  <2>1. i = 0 \/ (i \in 1..Len(shown) /\ AllBlank(i))
    BY <1>e
  <2>2. CASE i \in 1..Len(shown) /\ AllBlank(i)
    <3>1. \A k \in 1..i : shown[k] = Space
      BY <1>f, <2>2
    <3>2. SUFFICES ASSUME Len(w) < i PROVE FALSE
      BY <1>9, <2>2
    <3>3. Len(w) + 1 \in 1..i /\ Len(w) < Len(shown)
      BY <1>9, <2>2, <3>2
    <3> QED BY <1>10, <3>1, <3>3
  <2> QED BY <1>9, <2>1, <2>2
<1>14. Max(U) = Len(w)
  <2>1. U \in SUBSET Int /\ Len(w) \in Int
    BY <1>9, <1>13
  <2>2. Max(U) \in U /\ \A x \in U : x <= Max(U)
    BY <1>12, <1>13, <2>1, MaxOf
  <2>3. Max(U) <= Len(w) /\ Len(w) <= Max(U) /\ Max(U) \in Int
    BY <1>12, <1>13, <2>1, <2>2
  <2> QED BY <2>1, <2>3
<1> QED BY <1>8, <1>14 DEF shown, U

\* A line of whatever characters is a task if and only if the expression in the comment of
\* task_captures matches it with a text that is more than blanks; there is but one way to
\* match it, the task says what is matched, and is as deep as the pane shows the line.
THEOREM CapturesRead == Spec => []CapturesAgree
<1>1. ASSUME TextsTypeOK PROVE CapturesAgree
  <2> SUFFICES ASSUME sample.kind = "line" PROVE CapturesAgree
    BY DEF CapturesAgree
  <2>1. text \in Seq(sample.chars)
    BY <1>1 DEF TextsTypeOK
  <2> QED BY <2>1, CapturesAreReadings, IndentShown DEF CapturesAgree
<1> QED BY <1>1, TextsTyped, PTL

-----------------------------------------------------------------------------
\* Tags.

Texts(A) == Seq(Seq(A))

TagsOver(body, s) == FoldLeft(LAMBDA tags, i : tags \o SetToSeq(TagsAt(body, i) \ Range(tags)), <<>>, s)

\* The tags, and what is not among them yet.
WithNew(tags, S) == tags \o SetToSeq(S \ Range(tags))

AddTags(A, body) ==
    [tags \in Texts(A) |-> [i \in DOMAIN body |-> WithNew(tags, TagsAt(body, i))]]

\* There is a tag or none at a place.
LEMMA TagAt ==
  ASSUME NEW A, NEW body \in Seq(A), NEW i \in DOMAIN body
  PROVE  /\ TagsAt(body, i) \in SUBSET Seq(A)
         /\ \A t, u \in TagsAt(body, i) : t = u
<1> DEFINE j == Skip(body, i + 1, TagChars)
<1>1. i + 1 \in Nat \ {0} /\ i \in 1..Len(body) /\ Len(body) \in Nat /\ i + 1 <= Len(body) + 1
  OBVIOUS
<1>2. j \in Nat /\ j <= Len(body) + 1
  BY <1>1, SkipIs
<1> HIDE DEF j
<1>3. SubSeq(body, i + 1, j - 1) \in Seq(A)
  BY <1>1, <1>2
<1> QED BY <1>3, Zenon DEF TagsAt, j

\* What is new of a set with one member at most, as a sequence.
LEMMA OneToSeq ==
  ASSUME NEW S, \A t, u \in S : t = u
  PROVE  /\ S = {} => SetToSeq(S) = <<>>
         /\ \A t \in S : SetToSeq(S) = <<t>>
<1>a. \A F, f : F = {f} /\ IsInjective(f) => (CHOOSE g \in F : IsInjective(g)) = f
  OBVIOUS
<1>1. ASSUME S = {} PROVE SetToSeq(S) = <<>>
  <2>1. Cardinality(S) = 0
    BY <1>1, FS_EmptySet
  <2>2. [1..0 -> {}] = {<<>>} /\ DOMAIN <<>> = {}
    <3>1. 1..0 = {} /\ DOMAIN <<>> = {}
      OBVIOUS
    <3>2. ASSUME NEW f \in [1..0 -> {}] PROVE f = <<>>
      <4>1. f \in Seq({}) /\ Len(f) = 0
        OBVIOUS
      <4> QED BY <4>1, EmptySeq
    <3>3. <<>> \in [1..0 -> {}]
      <4>1. <<>> \in Seq({}) /\ Len(<<>>) = 0
        OBVIOUS
      <4>2. <<>> \in [1..Len(<<>>) -> {}]
        BY <4>1, LenProperties
      <4> QED BY <4>1, <4>2
    <3> QED BY <3>1, <3>2, <3>3
  <2>3. IsInjective(<<>>)
    BY <2>2 DEF IsInjective
  <2> DEFINE F == [1..Cardinality(S) -> S]
  <2>4. SetToSeq(S) = CHOOSE g \in F : IsInjective(g)
    BY Zenon DEF SetToSeq
  <2>5. F = {<<>>}
    BY <1>1, <2>1, <2>2
  <2> HIDE DEF F
  <2> QED BY <1>a, <2>3, <2>4, <2>5, Zenon
<1>2. ASSUME NEW t \in S PROVE SetToSeq(S) = <<t>>
  <2>1. S = {t}
    BY <1>2
  <2>2. Cardinality(S) = 1
    BY <2>1, FS_Singleton
  <2> DEFINE F == [1..Cardinality(S) -> S]
  <2>3. SetToSeq(S) = CHOOSE g \in F : IsInjective(g)
    BY Zenon DEF SetToSeq
  <2>4. F = {<<t>>}
    <3>1. F = [1..1 -> {t}]
      BY <2>1, <2>2
    <3>2. <<t>> \in [1..1 -> {t}]
      OBVIOUS
    <3>3. ASSUME NEW f \in [1..1 -> {t}] PROVE f = <<t>>
      OBVIOUS
    <3> QED BY <3>1, <3>2, <3>3
  <2>5. IsInjective(<<t>>)
    <3>1. DOMAIN <<t>> = {1}
      OBVIOUS
    <3> QED BY <3>1 DEF IsInjective
  <2> HIDE DEF F
  <2> QED BY <1>a, <2>3, <2>4, <2>5, Zenon
<1> QED BY <1>1, <1>2

LEMMA PushIs ==
  ASSUME NEW B, NEW s \in Seq(B), NEW t \in B
  PROVE  /\ s \o <<>> = s
         /\ s \o <<t>> \in Seq(B) /\ DOMAIN (s \o <<t>>) = DOMAIN s \cup {Len(s) + 1} /\ Len(s) + 1 \notin DOMAIN s
         /\ (s \o <<t>>)[Len(s) + 1] = t /\ \A k \in DOMAIN s : (s \o <<t>>)[k] = s[k]
<1>1. <<t>> \in Seq(B) /\ Len(<<t>>) = 1 /\ <<t>>[1] = t /\ Len(s) \in Nat /\ DOMAIN s = 1..Len(s)
  OBVIOUS
<1>2. s \o <<t>> \in Seq(B) /\ Len(s \o <<t>>) = Len(s) + 1
      /\ \A k \in 1..(Len(s) + 1) : (s \o <<t>>)[k] = IF k <= Len(s) THEN s[k] ELSE t
  BY <1>1
<1> DEFINE r == s \o <<t>>
<1>3. r \in Seq(B) /\ Len(r) = Len(s) + 1 /\ \A k \in 1..(Len(s) + 1) : r[k] = IF k <= Len(s) THEN s[k] ELSE t
  BY <1>2
<1> HIDE DEF r
<1>4. DOMAIN r = 1..(Len(s) + 1)
  BY <1>3
<1>5. 1..(Len(s) + 1) = (1..Len(s)) \cup {Len(s) + 1} /\ Len(s) + 1 \notin 1..Len(s)
  BY <1>1
<1>6. r[Len(s) + 1] = t /\ \A k \in 1..Len(s) : r[k] = s[k]
  BY <1>1, <1>3
<1>7. s \o <<>> = s
  OBVIOUS
<1> QED BY <1>1, <1>3, <1>4, <1>5, <1>6, <1>7 DEF r

\* What is found at a place is put at the end unless it is there.
LEMMA PutTags ==
  ASSUME NEW B, NEW S \in SUBSET B, \A t, u \in S : t = u, NEW tags \in Seq(B), NEW all,
         all = WithNew(tags, S)
  PROVE  /\ all \in Seq(B) /\ Range(all) = Range(tags) \cup S
         /\ IsInjective(tags) => IsInjective(all)
<1> DEFINE new == S \ Range(tags)
           q == SetToSeq(new)
<1>0. new \in SUBSET B /\ (\A t, u \in new : t = u)
  OBVIOUS
<1>1. Range(tags) \cup S = Range(tags) \cup new /\ \A t \in new : t \notin Range(tags)
  OBVIOUS
<1>a. all = tags \o q
  BY Zenon DEF WithNew
<1> HIDE DEF new
<1>2. /\ new = {} => q = <<>>
      /\ \A t \in new : q = <<t>>
  BY <1>0, OneToSeq
<1> HIDE DEF q
<1>3. CASE new = {}
  <2>1. all = tags
    <3>1. tags \o <<>> = tags
      OBVIOUS
    <3> QED BY <1>a, <1>2, <1>3, <3>1, Zenon
  <2> QED BY <1>1, <1>3, <2>1
<1>4. ASSUME NEW t \in new PROVE all \in Seq(B) /\ Range(all) = Range(tags) \cup S /\ (IsInjective(tags) => IsInjective(all))
  <2>1. new = {t} /\ t \in B
    BY <1>0, <1>4
  <2>a. all = tags \o <<t>>
    BY <1>a, <1>2, <1>4
  <2>3. /\ all \in Seq(B) /\ DOMAIN all = DOMAIN tags \cup {Len(tags) + 1} /\ Len(tags) + 1 \notin DOMAIN tags
        /\ all[Len(tags) + 1] = t /\ \A k \in DOMAIN tags : all[k] = tags[k]
    <3>1. /\ tags \o <<t>> \in Seq(B) /\ DOMAIN (tags \o <<t>>) = DOMAIN tags \cup {Len(tags) + 1}
          /\ Len(tags) + 1 \notin DOMAIN tags
          /\ (tags \o <<t>>)[Len(tags) + 1] = t /\ \A k \in DOMAIN tags : (tags \o <<t>>)[k] = tags[k]
      BY <2>1, PushIs
    <3> QED BY <2>a, <3>1, Zenon
  <2>b. DOMAIN all = DOMAIN tags \cup {Len(tags) + 1}
    BY <2>3, Zenon
  <2>4. Range(all) = Range(tags) \cup {t}
    <3>1. \A x : x \in Range(all) <=> \E k \in DOMAIN all : x = all[k]
      BY Zenon DEF Range
    <3>2. \A x : x \in Range(tags) <=> \E k \in DOMAIN tags : x = tags[k]
      BY Zenon DEF Range
    <3> QED BY <2>3, <2>b, <3>1, <3>2
  <2>5. ASSUME IsInjective(tags), NEW a \in DOMAIN all, NEW b \in DOMAIN all, all[a] = all[b] PROVE a = b
    <3>1. \A k \in DOMAIN tags : tags[k] # t
      BY <1>1, <1>4 DEF Range
    <3>2. (a \in DOMAIN tags \/ a = Len(tags) + 1) /\ (b \in DOMAIN tags \/ b = Len(tags) + 1)
      BY <2>b
    <3>3. CASE a \in DOMAIN tags /\ b \in DOMAIN tags
      BY <2>3, <2>5, <3>3 DEF IsInjective
    <3>4. CASE a = Len(tags) + 1 \/ b = Len(tags) + 1
      BY <2>3, <2>5, <3>1, <3>2, <3>4
    <3> QED BY <3>2, <3>3, <3>4
  <2>6. IsInjective(tags) => IsInjective(all)
    BY <2>5, Zenon DEF IsInjective
  <2> QED BY <1>1, <2>1, <2>3, <2>4, <2>6
<1> QED BY <1>3, <1>4

LEMMA AddTagsType ==
  ASSUME NEW A, NEW body \in Seq(A)
  PROVE  AddTags(A, body) \in [Texts(A) -> [DOMAIN body -> Texts(A)]] /\ <<>> \in Texts(A)
<1>1. ASSUME NEW tags \in Texts(A), NEW i \in DOMAIN body
      PROVE  WithNew(tags, TagsAt(body, i)) \in Texts(A)
  <2> DEFINE S == TagsAt(body, i)
             all == WithNew(tags, S)
  <2>1. S \in SUBSET Seq(A) /\ \A t, u \in S : t = u
    BY TagAt
  <2>2. tags \in Seq(Seq(A)) /\ all = WithNew(tags, S)
    BY DEF Texts
  <2> HIDE DEF S, all
  <2>3. all \in Seq(Seq(A))
    BY <2>1, <2>2, PutTags
  <2> QED BY <2>3 DEF Texts, all, S
<1>2. <<>> \in Texts(A)
  BY DEF Texts
<1> QED BY <1>1, <1>2 DEF AddTags

LEMMA TagsIsLoop ==
  ASSUME NEW A, NEW body \in Seq(A), NEW s \in Seq(DOMAIN body)
  PROVE  TagsOver(body, s) = Loop(Texts(A), AddTags(A, body), <<>>, s)
<1> DEFINE Eq(h) == h = [t \in SUBSET DOMAIN s |->
                           IF t = {} THEN <<>>
                           ELSE WithNew(h[t \ {Max(t)}], TagsAt(body, s[Max(t)]))]
           F == CHOOSE h : Eq(h)
<1>0. DOMAIN s = 1..Len(s) /\ Len(s) \in Nat /\ \A k \in 1..Len(s) : s[k] \in DOMAIN body
  OBVIOUS
<1>1. TagsOver(body, s) = F[1..Len(s)]
  BY <1>0 DEF TagsOver, WithNew, FoldLeft, MapThenFoldSet
<1>2. \E h : Eq(h)
  <2>1. PICK g \in [SUBSET (1..Len(s)) -> Texts(A)] :
           \A t \in SUBSET (1..Len(s)) :
              g[t] = IF t = {} THEN <<>> ELSE AddTags(A, body)[g[t \ {Max(t)}]][s[Max(t)]]
    <3>1. HasIter(Texts(A), AddTags(A, body), <<>>, s)
      BY AddTagsType, IterExists
    <3> QED BY <3>1 DEF HasIter
  <2>2. ASSUME NEW t \in SUBSET (1..Len(s))
        PROVE  g[t] = IF t = {} THEN <<>>
                      ELSE WithNew(g[t \ {Max(t)}], TagsAt(body, s[Max(t)]))
    <3>1. CASE t = {}
      BY <2>1, <3>1
    <3>2. CASE t # {}
      <4>1. Max(t) \in 1..Len(s) /\ t \ {Max(t)} \in SUBSET (1..Len(s))
        BY <1>0, <3>2, MaxIn
      <4>2. g[t \ {Max(t)}] \in Texts(A) /\ s[Max(t)] \in DOMAIN body
        BY <1>0, <2>1, <4>1
      <4>3. AddTags(A, body)[g[t \ {Max(t)}]][s[Max(t)]]
              = WithNew(g[t \ {Max(t)}], TagsAt(body, s[Max(t)]))
        BY <4>2 DEF AddTags
      <4> QED BY <2>1, <3>2, <4>3
    <3> QED BY <3>1, <3>2
  <2>3. g = [t \in SUBSET (1..Len(s)) |->
               IF t = {} THEN <<>> ELSE WithNew(g[t \ {Max(t)}], TagsAt(body, s[Max(t)]))]
    BY <2>1, <2>2
  <2> QED BY <1>0, <2>3
<1>3. Eq(F)
  BY <1>2
<1> HIDE DEF F
<1>4. \A t \in SUBSET (1..Len(s)) :
         F[t] = IF t = {} THEN <<>> ELSE WithNew(F[t \ {Max(t)}], TagsAt(body, s[Max(t)]))
  BY <1>0, <1>3
<1> HIDE DEF Eq
<1>5. F[{}] = <<>>
  BY <1>4
<1>6. ASSUME NEW k \in 0..(Len(s) - 1), F[1..k] \in Texts(A)
      PROVE  F[1..(k + 1)] = AddTags(A, body)[F[1..k]][s[k + 1]]
  <2>1. k \in Nat /\ k + 1 \in 1..Len(s) /\ s[k + 1] \in DOMAIN body
    <3>1. k \in Nat /\ k + 1 \in 1..Len(s)
      BY <1>0
    <3> QED BY <1>0, <3>1
  <2>0. 1..(k + 1) \in SUBSET (1..Len(s)) /\ k + 1 \in 1..(k + 1)
    BY <1>0, <2>1
  <2>2. Max(1..(k + 1)) = k + 1 /\ (1..(k + 1)) \ {k + 1} = 1..k
    BY <2>1, MaxUpto
  <2>3. F[1..(k + 1)] = WithNew(F[1..k], TagsAt(body, s[k + 1]))
    <3> DEFINE t == 1..(k + 1)
    <3>1. t \in SUBSET (1..Len(s)) /\ t # {} /\ Max(t) = k + 1 /\ t \ {k + 1} = 1..k
      BY <2>0, <2>1, <2>2
    <3> HIDE DEF t
    <3>2. F[t] = WithNew(F[t \ {Max(t)}], TagsAt(body, s[Max(t)]))
      BY <1>4, <3>1
    <3>3. F[t] = WithNew(F[1..k], TagsAt(body, s[k + 1]))
      BY <3>1, <3>2
    <3> QED BY <3>3 DEF t
  <2> QED BY <1>6, <2>1, <2>3 DEF AddTags
<1>7. HasRun(Texts(A), AddTags(A, body), <<>>, s) /\ IsIter(F, Texts(A), AddTags(A, body), <<>>, s)
  <2>1. IsIter(F, Texts(A), AddTags(A, body), <<>>, s)
    BY <1>5, <1>6 DEF IsIter
  <2> QED BY <2>1, AddTagsType, RunExists
<1>8. F[1..Len(s)] = Loop(Texts(A), AddTags(A, body), <<>>, s)
  BY <1>0, <1>7, IterIs
<1> QED BY <1>1, <1>8

\* Each of the tags there are at the places of the text, once.
LEMMA TagsAre ==
  ASSUME NEW A, NEW body \in Seq(A)
  PROVE  /\ Range(Tags(body)) = UNION {TagsAt(body, i) : i \in DOMAIN body}
         /\ IsInjective(Tags(body))
<1> DEFINE s == [i \in DOMAIN body |-> i]
           at(n) == Loop(Texts(A), AddTags(A, body), <<>>, Start(s, n))
           found(n) == {t \in Seq(A) : \E i \in 1..n : t \in TagsAt(body, i)}
           S == {n \in 0..Len(body) : Range(at(n)) = found(n) /\ IsInjective(at(n))}
<1>0. /\ Len(body) \in Nat /\ DOMAIN body = 1..Len(body)
      /\ s \in Seq(DOMAIN body) /\ Len(s) = Len(body) /\ \A i \in 1..Len(body) : s[i] = i
  OBVIOUS
<1> HIDE DEF s
<1>1. LoopLaws(DOMAIN body, Texts(A), AddTags(A, body), <<>>)
  BY AddTagsType, LoopIs
<1>2. 0 \in S
  <2>1. at(0) = <<>>
    BY <1>0, <1>1, StartIs DEF LoopLaws
  <2>2. Range(<<>>) = {} /\ IsInjective(<<>>)
    BY DEF Range, IsInjective
  <2>3. found(0) = {} /\ 0 \in 0..Len(body)
    BY <1>0
  <2> QED BY <2>1, <2>2, <2>3
<1>3. ASSUME NEW n \in 0..(Len(body) - 1), n \in S PROVE n + 1 \in S
  <2>1. n \in Nat /\ n \in 0..Len(body) /\ n + 1 \in 0..Len(body) /\ n + 1 \in DOMAIN body /\ n \in 0..(Len(s) - 1) /\ s[n + 1] = n + 1
    BY <1>0
  <2>2. Start(s, n) \in Seq(DOMAIN body) /\ Start(s, n + 1) = Append(Start(s, n), n + 1)
    BY <1>0, <2>1, StartIs
  <2>3. at(n) \in Texts(A) /\ at(n + 1) = AddTags(A, body)[at(n)][n + 1]
    BY <1>1, <2>1, <2>2 DEF LoopLaws
  <2>4. Range(at(n)) = found(n) /\ IsInjective(at(n))
    BY <1>3
  <2> HIDE DEF at
  <2>5. at(n + 1) = WithNew(at(n), TagsAt(body, n + 1))
    BY <2>1, <2>3 DEF AddTags
  <2>6. Range(at(n + 1)) = Range(at(n)) \cup TagsAt(body, n + 1) /\ IsInjective(at(n + 1))
    <3> DEFINE T    == TagsAt(body, n + 1)
               B    == Seq(A)
               tags == at(n)
               all  == at(n + 1)
    <3>1. T \in SUBSET B /\ \A t, u \in T : t = u
      BY <2>1, TagAt
    <3>2. tags \in Seq(B) /\ all = WithNew(tags, T)
      BY <2>3, <2>5 DEF Texts
    <3> HIDE DEF T, B, tags, all
    <3>3. Range(all) = Range(tags) \cup T /\ (IsInjective(tags) => IsInjective(all))
      BY <3>1, <3>2, PutTags
    <3> QED BY <2>4, <3>3, Zenon DEF T, tags, all
  <2>7. TagsAt(body, n + 1) \in SUBSET Seq(A)
    BY <2>1, TagAt
  <2>8. \A i : i \in 1..(n + 1) <=> i \in 1..n \/ i = n + 1
    BY <2>1
  <2>9. Range(at(n + 1)) = found(n + 1)
    BY <2>4, <2>6, <2>7, <2>8
  <2> QED BY <2>1, <2>6, <2>9
<1>4. Len(body) \in S
  <2> HIDE DEF S
  <2>1. \A n \in 0..Len(body) : n \in S
    BY <1>0, <1>2, <1>3, Induct
  <2> QED BY <1>0, <2>1
<1>5. Tags(body) = at(Len(body))
  <2>1. Tags(body) = TagsOver(body, s)
    BY Zenon DEF Tags, TagsOver, s
  <2>2. Start(s, Len(body)) = s
    BY <1>0, StartIs
  <2> QED BY <1>0, <2>1, <2>2, TagsIsLoop
<1>6. Range(Tags(body)) = found(Len(body)) /\ IsInjective(Tags(body))
  BY <1>4, <1>5
<1>7. found(Len(body)) = UNION {TagsAt(body, i) : i \in DOMAIN body}
  <2>1. \A i \in DOMAIN body : TagsAt(body, i) \in SUBSET Seq(A)
    BY TagAt
  <2> QED BY <1>0, <2>1
<1> QED BY <1>6, <1>7
\* A piece of a text, and two that are the same.
LEMMA PieceIs ==
  ASSUME NEW A, NEW s \in Seq(A), NEW i \in Int, NEW j \in Int, 1 <= i, i <= j + 1, j <= Len(s)
  PROVE  /\ SubSeq(s, i, j) \in Seq(A) /\ Len(SubSeq(s, i, j)) = j - i + 1
         /\ DOMAIN SubSeq(s, i, j) = 1..(j - i + 1)
         /\ \A k \in 1..(j - i + 1) : SubSeq(s, i, j)[k] = s[i + k - 1]
<1>1. Len(s) \in Nat
  OBVIOUS
<1> QED BY <1>1

LEMMA PieceAfter ==
  ASSUME NEW A, NEW s \in Seq(A), NEW i \in Nat, NEW j \in Int, i <= j, j <= Len(s)
  PROVE  /\ SubSeq(s, i + 1, j) \in Seq(A) /\ Len(SubSeq(s, i + 1, j)) = j - i
         /\ \A k \in 1..(j - i) : SubSeq(s, i + 1, j)[k] = s[i + k]
<1> DEFINE r == SubSeq(s, i + 1, j)
<1>1. i + 1 \in Int /\ 1 <= i + 1 /\ i + 1 <= j + 1 /\ j - (i + 1) + 1 = j - i /\ j - i \in Int
  OBVIOUS
<1>2. r \in Seq(A) /\ Len(r) = j - (i + 1) + 1 /\ \A k \in 1..(j - (i + 1) + 1) : r[k] = s[(i + 1) + k - 1]
  BY <1>1, PieceIs
<1> HIDE DEF r
<1>3. ASSUME NEW k \in 1..(j - i) PROVE r[k] = s[i + k]
  <2>1. (i + 1) + k - 1 = i + k /\ k \in 1..(j - (i + 1) + 1)
    BY <1>1
  <2> QED BY <1>2, <2>1
<1> QED BY <1>1, <1>2, <1>3 DEF r

LEMMA PushFront ==
  ASSUME NEW A, NEW c \in A, NEW s \in Seq(A)
  PROVE  /\ <<c>> \o s \in Seq(A) /\ Len(<<c>> \o s) = Len(s) + 1 /\ (<<c>> \o s)[1] = c
         /\ \A k \in 1..Len(s) : (<<c>> \o s)[k + 1] = s[k]
<1>1. <<c>> \in Seq(A) /\ Len(<<c>>) = 1 /\ <<c>>[1] = c /\ Len(s) \in Nat
  OBVIOUS
<1> DEFINE r == <<c>> \o s
<1>2. r \in Seq(A) /\ Len(r) = Len(s) + 1 /\ \A k \in 1..(Len(s) + 1) : r[k] = IF k <= 1 THEN c ELSE s[k - 1]
  BY <1>1
<1> HIDE DEF r
<1>3. r[1] = c
  <2>1. 1 \in 1..(Len(s) + 1) /\ 1 <= 1
    BY <1>1
  <2> QED BY <1>2, <2>1
<1>4. ASSUME NEW k \in 1..Len(s) PROVE r[k + 1] = s[k]
  <2>1. k + 1 \in 1..(Len(s) + 1) /\ ~(k + 1 <= 1) /\ (k + 1) - 1 = k
    BY <1>1
  <2> QED BY <1>2, <2>1
<1> QED BY <1>2, <1>3, <1>4 DEF r

LEMMA SameSeq ==
  ASSUME NEW A, NEW s \in Seq(A), NEW t \in Seq(A), Len(s) = Len(t), \A k \in 1..Len(s) : s[k] = t[k]
  PROVE  s = t
OBVIOUS

LEMMA SameStart ==
  ASSUME NEW C, NEW p \in Seq(C), NEW w \in Seq(C)
  PROVE  IsPrefix(p, w) <=> Len(p) <= Len(w) /\ \A k \in 1..Len(p) : w[k] = p[k]
<1>0. Len(p) \in Nat /\ Len(w) \in Nat
  OBVIOUS
<1>1. SubSeq(p, 1, Len(p)) = p
  OBVIOUS
<1>2. ASSUME Len(p) <= Len(w)
      PROVE  SubSeq(w, 1, Len(p)) \in Seq(C) /\ Len(SubSeq(w, 1, Len(p))) = Len(p)
             /\ \A k \in 1..Len(p) : SubSeq(w, 1, Len(p))[k] = w[k]
  BY <1>0, <1>2
<1>3. ASSUME IsPrefix(p, w) PROVE Len(p) <= Len(w) /\ \A k \in 1..Len(p) : w[k] = p[k]
  <2>1. Len(p) <= Len(w) /\ SubSeq(w, 1, Len(p)) = p
    BY <1>1, <1>3, Zenon DEF IsPrefix
  <2> QED BY <1>2, <2>1
<1>4. ASSUME Len(p) <= Len(w), \A k \in 1..Len(p) : w[k] = p[k] PROVE IsPrefix(p, w)
  <2> DEFINE q == SubSeq(w, 1, Len(p))
  <2>1. q \in Seq(C) /\ Len(q) = Len(p) /\ \A k \in 1..Len(p) : q[k] = p[k]
    BY <1>2, <1>4
  <2> HIDE DEF q
  <2>2. q = p
    BY <2>1
  <2> QED BY <1>1, <1>4, <2>2, Zenon DEF IsPrefix, q
<1> QED BY <1>3, <1>4

Hash == "#"

\* A tag at i, character by character.
TagFrom(body, i, tag) ==
    /\ i + Len(tag) \in DOMAIN body /\ body[i] = Hash
    /\ \A k \in 1..Len(tag) : body[i + k] = tag[k]
    /\ i + Len(tag) + 1 \in DOMAIN body => body[i + Len(tag) + 1] \notin TagChars

\* w is what there is of the text from i on.
IsRest(w, body, i) == w = SubSeq(body, i, Len(body))

LEMMA BeginsIs ==
  ASSUME NEW C, Hash \in C, NEW body \in Seq(C), NEW i \in DOMAIN body, NEW tag \in Seq(C), NEW w,
         IsRest(w, body, i)
  PROVE  (/\ IsPrefix(<<Hash>> \o tag, w)
          /\ Len(w) > Len(tag) + 1 => w[Len(tag) + 2] \notin TagChars)
         <=> TagFrom(body, i, tag)
<1> DEFINE p == <<Hash>> \o tag
<1>0. i \in 1..Len(body) /\ Len(body) \in Nat /\ DOMAIN body = 1..Len(body) /\ Len(tag) \in Nat
  OBVIOUS
<1>1. w \in Seq(C) /\ Len(w) = Len(body) - i + 1 /\ \A k \in 1..Len(w) : w[k] = body[i + k - 1]
  BY <1>0 DEF IsRest
<1>2. p \in Seq(C) /\ Len(p) = Len(tag) + 1 /\ p[1] = Hash /\ \A k \in 1..Len(tag) : p[k + 1] = tag[k]
  BY PushFront
<1> HIDE DEF p
<1>3. IsPrefix(p, w) <=> Len(p) <= Len(w) /\ \A k \in 1..Len(p) : w[k] = p[k]
  <2>1. p \in Seq(C) /\ w \in Seq(C)
    BY <1>1, <1>2
  <2> QED BY <2>1, SameStart, SMTT(30)
<1>4. Len(p) <= Len(w) <=> i + Len(tag) \in DOMAIN body
  <2>1. i + Len(tag) \in DOMAIN body <=> i + Len(tag) <= Len(body)
    BY <1>0
  <2>2. Len(p) <= Len(w) <=> Len(tag) + 1 <= Len(body) - i + 1
    BY <1>1, <1>2, Zenon
  <2>3. Len(tag) + 1 <= Len(body) - i + 1 <=> i + Len(tag) <= Len(body)
    BY <1>0
  <2> QED BY <2>1, <2>2, <2>3
<1>5. Len(w) > Len(tag) + 1 <=> i + Len(tag) + 1 \in DOMAIN body
  BY <1>0, <1>1
<1>6. ASSUME Len(w) > Len(tag) + 1 PROVE w[Len(tag) + 2] = body[i + Len(tag) + 1]
  <2>0. ASSUME NEW a \in Int, NEW n \in Nat, NEW l \in Int, l > n + 1
        PROVE  n + 2 \in 1..l /\ a + (n + 2) - 1 = a + n + 1
    BY <2>0
  <2>1. Len(tag) + 2 \in 1..Len(w) /\ i + (Len(tag) + 2) - 1 = i + Len(tag) + 1
    <3>1. Len(w) \in Int /\ i \in Int
      BY <1>0, <1>1
    <3> QED BY <1>0, <1>6, <2>0, <3>1
  <2>2. w[Len(tag) + 2] = body[i + (Len(tag) + 2) - 1]
    BY <1>1, <2>1
  <2> QED BY <2>1, <2>2
<1>7. ASSUME Len(p) <= Len(w)
      PROVE  (\A k \in 1..Len(p) : w[k] = p[k]) <=> body[i] = Hash /\ \A k \in 1..Len(tag) : body[i + k] = tag[k]
  <2>0. 1 \in 1..Len(p) /\ \A k \in 1..Len(p) : k \in 1..Len(w)
    BY <1>0, <1>1, <1>2, <1>7
  <2>1. w[1] = body[i]
    <3>1. w[1] = body[i + 1 - 1] /\ i + 1 - 1 = i
      BY <1>0, <1>1, <2>0
    <3> QED BY <3>1
  <2>2. ASSUME NEW k \in 1..Len(tag) PROVE k + 1 \in 1..Len(p) /\ w[k + 1] = body[i + k] /\ p[k + 1] = tag[k]
    <3>1. k + 1 \in 1..Len(p) /\ i + (k + 1) - 1 = i + k
      BY <1>0, <1>2
    <3>2. w[k + 1] = body[i + (k + 1) - 1]
      BY <1>1, <2>0, <3>1
    <3> QED BY <1>2, <3>1, <3>2
  <2>3. ASSUME NEW k \in 1..Len(p) PROVE k = 1 \/ (k - 1 \in 1..Len(tag) /\ (k - 1) + 1 = k)
    BY <1>0, <1>2
  <2>4. ASSUME \A k \in 1..Len(p) : w[k] = p[k] PROVE body[i] = Hash /\ \A k \in 1..Len(tag) : body[i + k] = tag[k]
    BY <1>2, <2>0, <2>1, <2>2, <2>4
  <2>5. ASSUME body[i] = Hash, \A k \in 1..Len(tag) : body[i + k] = tag[k], NEW k \in 1..Len(p) PROVE w[k] = p[k]
    <3>1. CASE k = 1
      BY <1>2, <2>1, <2>5, <3>1
    <3>2. CASE k - 1 \in 1..Len(tag) /\ (k - 1) + 1 = k
      <4> DEFINE n == k - 1
      <4>1. n \in 1..Len(tag) /\ n + 1 = k
        BY <3>2
      <4> HIDE DEF n
      <4>2. body[i + n] = tag[n] /\ w[n + 1] = body[i + n] /\ p[n + 1] = tag[n]
        BY <2>2, <2>5, <4>1
      <4> QED BY <4>1, <4>2
    <3> QED BY <2>3, <3>1, <3>2
  <2> QED BY <2>4, <2>5
<1> QED BY <1>3, <1>4, <1>5, <1>6, <1>7 DEF TagFrom, p

LEMMA TagCharsDiffer ==
  Hash \notin Blanks /\ Letters \subseteq TagChars
BY DEF Hash, Blanks, Letters, TagChars

\* What the places with a tag are.
LEMMA TagIs ==
  ASSUME NEW C, NEW body \in Seq(C), NEW i \in DOMAIN body, NEW tag \in Seq(C)
  PROVE  tag \in TagsAt(body, i) <=>
           /\ TagFrom(body, i, tag) /\ (i = 1 \/ body[i - 1] \in Blanks)
           /\ tag # <<>> /\ tag[1] \in Letters /\ All(tag, TagChars)
<1> DEFINE e == Skip(body, i + 1, Letters)
           m == Skip(body, i + 1, TagChars)
           t == SubSeq(body, i + 1, m - 1)
<1>0. i \in 1..Len(body) /\ i + 1 \in Nat \ {0} /\ Len(body) \in Nat /\ DOMAIN body = 1..Len(body) /\ Len(tag) \in Nat
      /\ i + 1 <= Len(body) + 1 /\ DOMAIN tag = 1..Len(tag) /\ (tag = <<>> <=> Len(tag) = 0)
  OBVIOUS
<1>1. tag \in TagsAt(body, i) <=> StartsTag(body, i) /\ e > i + 1 /\ tag = t
  BY Zenon DEF TagsAt
<1>2. StartsTag(body, i) <=> body[i] = Hash /\ (i = 1 \/ body[i - 1] \in Blanks)
  <2>1. i > 1 <=> i # 1
    BY <1>0
  <2> QED BY <2>1, Zenon DEF StartsTag, Hash
<1>3. /\ e \in Nat /\ i + 1 <= e
      /\ \A k \in (i + 1)..(e - 1) : k \in DOMAIN body /\ body[k] \in Letters
      /\ e \in DOMAIN body => body[e] \notin Letters
      /\ e <= Len(body) + 1
  BY <1>0, SkipIs
<1>4. /\ m \in Nat /\ i + 1 <= m
      /\ \A k \in (i + 1)..(m - 1) : k \in DOMAIN body /\ body[k] \in TagChars
      /\ m \in DOMAIN body => body[m] \notin TagChars
      /\ m <= Len(body) + 1
  BY <1>0, SkipIs
<1>5. All(tag, TagChars) <=> \A k \in 1..Len(tag) : tag[k] \in TagChars
  <2>1. All(tag, TagChars) <=> \A k \in DOMAIN tag : tag[k] \in TagChars
    BY Zenon DEF All, Range
  <2> QED BY <1>0, <2>1
<1>6. t \in Seq(C) /\ Len(t) = m - 1 - i /\ \A k \in 1..(m - 1 - i) : t[k] = body[i + k]
  <2>1. i \in Nat /\ m - 1 \in Int /\ i <= m - 1 /\ m - 1 <= Len(body)
    BY <1>0, <1>4
  <2> HIDE DEF m
  <2> QED BY <2>1, PieceAfter
<1> HIDE DEF e, m, t
<1>7. ASSUME StartsTag(body, i), e > i + 1, tag = t
      PROVE  /\ TagFrom(body, i, tag) /\ (i = 1 \/ body[i - 1] \in Blanks)
             /\ tag # <<>> /\ tag[1] \in Letters /\ All(tag, TagChars)
  <2>1. i + 1 \in DOMAIN body /\ body[i + 1] \in Letters
    BY <1>0, <1>3, <1>7
  <2>2. m # i + 1
    BY <1>4, <2>1, TagCharsDiffer
  <2>3. Len(tag) = m - 1 - i /\ Len(tag) > 0 /\ \A k \in 1..Len(tag) : tag[k] = body[i + k]
    <3>1. m - 1 - i > 0
      BY <1>0, <1>4, <2>2
    <3> QED BY <1>6, <1>7, <3>1
  <2>4. tag[1] = body[i + 1]
    BY <1>0, <2>3
  <2>5. i + Len(tag) = m - 1 /\ i + Len(tag) + 1 = m /\ m - 1 \in DOMAIN body
    <3>1. i + (m - 1 - i) = m - 1 /\ (m - 1) + 1 = m /\ m - 1 \in 1..Len(body)
      BY <1>0, <1>4, <2>2
    <3> QED BY <1>0, <2>3, <3>1
  <2>6. TagFrom(body, i, tag)
    BY <1>2, <1>4, <1>7, <2>3, <2>5 DEF TagFrom
  <2>7. ASSUME NEW k \in 1..Len(tag) PROVE tag[k] \in TagChars
    <3>1. i + k \in (i + 1)..(m - 1)
      BY <1>0, <1>4, <2>3
    <3> QED BY <1>4, <2>3, <3>1
  <2> QED BY <1>0, <1>2, <1>5, <1>7, <2>1, <2>3, <2>4, <2>6, <2>7
<1>8. ASSUME TagFrom(body, i, tag), i = 1 \/ body[i - 1] \in Blanks,
             tag # <<>>, tag[1] \in Letters, All(tag, TagChars)
      PROVE  StartsTag(body, i) /\ e > i + 1 /\ tag = t
  <2>1. /\ i + Len(tag) \in DOMAIN body /\ body[i] = Hash
        /\ \A k \in 1..Len(tag) : body[i + k] = tag[k] /\ tag[k] \in TagChars
        /\ i + Len(tag) + 1 \in DOMAIN body => body[i + Len(tag) + 1] \notin TagChars
    BY <1>5, <1>8 DEF TagFrom
  <2>2. 1 \in 1..Len(tag) /\ i + 1 \in DOMAIN body
    BY <1>0, <1>8, <2>1
  <2>3. e > i + 1
    <3>1. e # i + 1
      BY <1>3, <1>8, <2>1, <2>2
    <3> QED BY <1>0, <1>3, <3>1
  <2>4. ASSUME NEW k \in (i + 1)..(i + Len(tag)) PROVE body[k] \in TagChars
    <3>1. k - i \in 1..Len(tag) /\ i + (k - i) = k
      BY <1>0
    <3> QED BY <2>1, <3>1
  <2>5. m = i + Len(tag) + 1
    <3>1. CASE m < i + Len(tag) + 1
      <4>1. m \in (i + 1)..(i + Len(tag)) /\ m \in DOMAIN body
        BY <1>0, <1>4, <2>1, <3>1
      <4> QED BY <1>4, <2>4, <4>1
    <3>2. CASE m > i + Len(tag) + 1
      <4>1. i + Len(tag) + 1 \in (i + 1)..(m - 1)
        BY <1>0, <1>4, <3>2
      <4> QED BY <1>4, <2>1, <4>1
    <3> QED BY <1>0, <1>4, <3>1, <3>2
  <2>6. Len(t) = Len(tag) /\ \A k \in 1..Len(tag) : t[k] = tag[k]
    <3>1. m - 1 - i = Len(tag)
      BY <1>0, <2>5
    <3> QED BY <1>6, <2>1, <3>1
  <2>7. tag = t
    BY <1>0, <1>6, <2>6
  <2> QED BY <1>2, <1>8, <2>1, <2>3, <2>7
<1> QED BY <1>1, <1>7, <1>8

\* The tags of a task are what its words say, each once.
LEMMA TagsAreWords ==
  ASSUME NEW C, Hash \in C, NEW body \in Seq(C)
  PROVE  /\ Range(Tags(body)) = {t \in Pieces(body) : IsTag(t) /\ \E w \in Words(body) : BeginsWith(w, t)}
         /\ IsInjective(Tags(body))
<1> DEFINE starts == {k \in DOMAIN body : body[k] \notin Blanks /\ (k = 1 \/ body[k - 1] \in Blanks)}
           word(i) == SubSeq(body, i, Len(body))
<1>0. Len(body) \in Nat /\ DOMAIN body = 1..Len(body)
  OBVIOUS
<1>1. \A t : t \in Range(Tags(body)) <=> \E i \in DOMAIN body : t \in TagsAt(body, i)
  <2> DEFINE found == {TagsAt(body, i) : i \in DOMAIN body}
  <2>1. Range(Tags(body)) = UNION found
    BY TagsAre
  <2>2. \A S : S \in found <=> \E i \in DOMAIN body : S = TagsAt(body, i)
    BY Zenon
  <2> HIDE DEF found
  <2> QED BY <2>1, <2>2
<1>2. \A w : w \in Words(body) <=> \E i \in starts : w = word(i)
  BY Zenon DEF Words
<1>3. /\ \A x : x \in Pieces(body) => x \in Seq(C)
      /\ \A i, j \in DOMAIN body : SubSeq(body, i, j) \in Pieces(body)
  <2> DEFINE from(i) == {SubSeq(body, i, j) : j \in DOMAIN body}
  <2>1. ASSUME NEW i \in DOMAIN body, NEW j \in DOMAIN body PROVE SubSeq(body, i, j) \in Seq(C)
    BY <1>0
  <2>2. \A i, x : x \in from(i) <=> \E j \in DOMAIN body : x = SubSeq(body, i, j)
    BY Zenon
  <2>3. \A x : x \in Pieces(body) <=> \E i \in DOMAIN body : x \in from(i)
    BY Zenon DEF Pieces
  <2> HIDE DEF from
  <2>4. \A x : x \in Pieces(body) <=> \E i \in DOMAIN body : \E j \in DOMAIN body : x = SubSeq(body, i, j)
    BY <2>2, <2>3
  <2>5. \A i, j \in DOMAIN body : SubSeq(body, i, j) \in Pieces(body)
    BY <2>4, Zenon
  <2>6. \A x : x \in Pieces(body) => x \in Seq(C)
    <3>1. ASSUME NEW x \in Pieces(body) PROVE x \in Seq(C)
      <4>1. PICK i \in DOMAIN body, j \in DOMAIN body : x = SubSeq(body, i, j)
        BY <2>4
      <4> QED BY <2>1, <4>1
    <3> QED BY <3>1
  <2> QED BY <2>5, <2>6
<1>4. ASSUME NEW tag \in Seq(C), NEW i \in DOMAIN body
      PROVE  BeginsWith(word(i), tag) <=> TagFrom(body, i, tag)
  <2> DEFINE w == word(i)
  <2>1. IsRest(w, body, i)
    BY DEF IsRest
  <2> HIDE DEF w
  <2>2. (/\ IsPrefix(<<Hash>> \o tag, w)
         /\ Len(w) > Len(tag) + 1 => w[Len(tag) + 2] \notin TagChars) <=> TagFrom(body, i, tag)
    BY <2>1, BeginsIs
  <2> QED BY <2>2, Zenon DEF BeginsWith, w, Hash
<1>5. ASSUME NEW tag \in Seq(C), NEW i \in DOMAIN body
      PROVE  tag \in TagsAt(body, i) <=> TagFrom(body, i, tag) /\ (i = 1 \/ body[i - 1] \in Blanks) /\ IsTag(tag)
  BY TagIs, Zenon DEF IsTag
<1>6. ASSUME NEW i \in DOMAIN body, NEW tag \in TagsAt(body, i) PROVE tag \in Seq(C)
  BY TagAt
<1>7. ASSUME NEW tag \in Seq(C), NEW i \in DOMAIN body, TagFrom(body, i, tag), tag # <<>> PROVE tag \in Pieces(body) /\ body[i] = Hash
  <2>1. Len(tag) \in Nat /\ Len(tag) # 0
    BY <1>7
  <2>2. i + Len(tag) \in DOMAIN body /\ body[i] = Hash /\ \A k \in 1..Len(tag) : body[i + k] = tag[k]
    BY <1>7 DEF TagFrom
  <2>3. i + 1 \in DOMAIN body
    BY <1>0, <2>1, <2>2
  <2> DEFINE s == SubSeq(body, i + 1, i + Len(tag))
  <2>4. s \in Seq(C) /\ Len(s) = Len(tag) /\ \A k \in 1..Len(tag) : s[k] = body[i + k]
    <3>1. i \in Nat /\ i + Len(tag) \in Int /\ i <= i + Len(tag) /\ i + Len(tag) <= Len(body) /\ (i + Len(tag)) - i = Len(tag)
      BY <1>0, <2>1, <2>2
    <3> DEFINE j == i + Len(tag)
    <3>2. j \in Int /\ i <= j /\ j <= Len(body) /\ j - i = Len(tag)
      BY <3>1
    <3> HIDE DEF j
    <3>3. SubSeq(body, i + 1, j) \in Seq(C) /\ Len(SubSeq(body, i + 1, j)) = j - i
          /\ \A k \in 1..(j - i) : SubSeq(body, i + 1, j)[k] = body[i + k]
      BY <3>1, <3>2, PieceAfter
    <3> QED BY <3>2, <3>3 DEF j
  <2> HIDE DEF s
  <2>5. s = tag
    BY <2>2, <2>4, SameSeq
  <2> QED BY <1>3, <2>2, <2>3, <2>5 DEF s
<1> HIDE DEF word
<1>8. ASSUME NEW t \in Range(Tags(body)) PROVE t \in Pieces(body) /\ IsTag(t) /\ \E w \in Words(body) : BeginsWith(w, t)
  <2>1. PICK i \in DOMAIN body : t \in TagsAt(body, i)
    BY <1>1
  <2>2. t \in Seq(C) /\ TagFrom(body, i, t) /\ (i = 1 \/ body[i - 1] \in Blanks) /\ IsTag(t)
    BY <1>5, <1>6, <2>1
  <2>3. t \in Pieces(body) /\ body[i] = Hash
    BY <1>7, <2>2 DEF IsTag
  <2>4. i \in starts
    BY <2>2, <2>3, TagCharsDiffer
  <2>5. word(i) \in Words(body) /\ BeginsWith(word(i), t)
    BY <1>2, <1>4, <2>2, <2>4
  <2> QED BY <2>2, <2>3, <2>5
<1>9. ASSUME NEW t \in Pieces(body), IsTag(t), NEW w \in Words(body), BeginsWith(w, t) PROVE t \in Range(Tags(body))
  <2>1. PICK i \in starts : w = word(i)
    BY <1>2
  <2>2. i \in DOMAIN body /\ (i = 1 \/ body[i - 1] \in Blanks) /\ t \in Seq(C)
    BY <1>3, <2>1
  <2>3. TagFrom(body, i, t)
    BY <1>4, <1>9, <2>1, <2>2
  <2>4. t \in TagsAt(body, i)
    BY <1>5, <1>9, <2>2, <2>3
  <2> QED BY <1>1, <2>2, <2>4
<1>10. Range(Tags(body)) = {t \in Pieces(body) : IsTag(t) /\ \E w \in Words(body) : BeginsWith(w, t)}
  BY <1>8, <1>9, Zenon
<1> QED BY <1>10, TagsAre

\* Every text has the tags its words begin with, each once, whatever the characters: the
\* group of a tag has each of its tasks, and has it once.
THEOREM TagsAreFound == Spec => []TagsFound
<1>1. ASSUME TextsTypeOK PROVE TagsFound
  <2> SUFFICES ASSUME sample.kind = "tags" PROVE TagsFound
    BY DEF TagsFound
  <2> DEFINE C == sample.chars \cup {Hash}
  <2>1. text \in Seq(C) /\ Hash \in C
    <3>1. text \in Seq(sample.chars)
      BY <1>1 DEF TextsTypeOK
    <3> QED BY <3>1
  <2> HIDE DEF C
  <2> QED BY <2>1, TagsAreWords, Zenon DEF TagsFound, Hash
<1> QED BY <1>1, TextsTyped, PTL
=============================================================================
