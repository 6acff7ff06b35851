----------------------------- MODULE Tui_proofs -----------------------------
(***************************************************************************)
(* The session of the TUI: its types, the screen as an arrangement of      *)
(* rows, the cursor, the moves, what it asks of the daemon and what it     *)
(* tells of the outcome.                                                   *)
(***************************************************************************)
EXTENDS TuiProperties, Requests_proofs

-----------------------------------------------------------------------------
\* Sets of pairs of a place and a thing, in the order of their places.

\* The places are triples of numbers, and no two things have the same.
Tidy(placed) ==
    /\ IsFiniteSet(placed)
    /\ \A p \in placed : p[1] \in Nat \X Nat \X Nat
    /\ \A p, q \in placed : p[1] = q[1] => p = q

Ahead(placed, p) == {q \in placed : Before(q[1], p[1])}

LEMMA TriplesFinite ==
  ASSUME NEW A, NEW B, NEW C, IsFiniteSet(A), IsFiniteSet(B), IsFiniteSet(C)
  PROVE  IsFiniteSet(A \X B \X C)
<1> DEFINE f == [t \in A \X B \X C |-> <<<<t[1], t[2]>>, t[3]>>]
<1>1. IsFiniteSet((A \X B) \X C)  BY FS_Product
<1>2. f \in [A \X B \X C -> (A \X B) \X C]  OBVIOUS
<1>3. \A t, u \in A \X B \X C : f[t] = f[u] => t = u  OBVIOUS
<1>4. f \in Injection(A \X B \X C, (A \X B) \X C)  BY <1>2, <1>3, Fun_IsInj
<1> QED  BY <1>1, <1>4, FS_Injection

\* Things at different places within bounds are finitely many.
LEMMA TidyWithin ==
  ASSUME NEW placed, NEW a \in Nat, NEW b \in Nat, NEW c \in Nat,
         \A p \in placed : p[1] \in (0..a) \X (0..b) \X (0..c),
         \A p, q \in placed : p[1] = q[1] => p = q
  PROVE  Tidy(placed)
<1> DEFINE T == (0..a) \X (0..b) \X (0..c)
           f == [p \in placed |-> p[1]]
<1>2. IsFiniteSet(0..a) /\ IsFiniteSet(0..b) /\ IsFiniteSet(0..c)  BY FS_Interval
<1>3. IsFiniteSet(T)  BY <1>2, TriplesFinite
<1>4. f \in [placed -> T] /\ \A p, q \in placed : f[p] = f[q] => p = q  OBVIOUS
<1>6. \A p \in placed : p[1] \in Nat \X Nat \X Nat  OBVIOUS
<1> HIDE DEF f, T
<1>5. f \in Injection(placed, T)  BY <1>4, Fun_IsInj
<1> QED  BY <1>3, <1>5, <1>6, FS_Injection DEF Tidy

\* The places are in a strict linear order.
LEMMA BeforeOrders ==
  ASSUME NEW placed, Tidy(placed), NEW p \in placed, NEW q \in placed
  PROVE  /\ ~Before(p[1], p[1])
         /\ p # q => Before(p[1], q[1]) \/ Before(q[1], p[1])
         /\ Before(p[1], q[1]) => Ahead(placed, p) \subseteq Ahead(placed, q)
<1>1. \A r \in placed : r[1] \in Nat \X Nat \X Nat  BY DEF Tidy
<1>2. ~Before(p[1], p[1])  BY <1>1 DEF Before
<1>3. ASSUME p # q PROVE Before(p[1], q[1]) \/ Before(q[1], p[1])
  <2>1. p[1] # q[1]  BY <1>3 DEF Tidy
  <2> QED  BY <1>1, <2>1 DEF Before
<1>4. ASSUME Before(p[1], q[1]), NEW r \in placed, Before(r[1], p[1])
      PROVE  Before(r[1], q[1])
  <2>1. p[1] \in Nat \X Nat \X Nat /\ q[1] \in Nat \X Nat \X Nat /\ r[1] \in Nat \X Nat \X Nat
    BY <1>1
  <2> QED  BY <1>4, <2>1 DEF Before
<1> QED  BY <1>2, <1>3, <1>4 DEF Ahead

LEMMA AheadGrows ==
  ASSUME NEW placed, Tidy(placed), NEW p \in placed
  PROVE  /\ Cardinality(Ahead(placed, p)) \in Nat
         /\ Cardinality(Ahead(placed, p)) < Cardinality(placed)
         /\ \A q \in placed : Before(p[1], q[1]) =>
               Cardinality(Ahead(placed, p)) < Cardinality(Ahead(placed, q))
<1>1. IsFiniteSet(placed) /\ Cardinality(placed) \in Nat  BY FS_CardinalityType DEF Tidy
<1>2. ASSUME NEW q \in placed
      PROVE  /\ IsFiniteSet(Ahead(placed, q)) /\ Cardinality(Ahead(placed, q)) \in Nat
             /\ Ahead(placed, q) \in SUBSET placed
  <2>1. Ahead(placed, q) \in SUBSET placed  BY DEF Ahead
  <2> QED  BY <1>1, <2>1, FS_Subset, FS_CardinalityType
<1>3. p \notin Ahead(placed, p)  BY BeforeOrders DEF Ahead
<1>4. Cardinality(Ahead(placed, p)) < Cardinality(placed)
  BY <1>1, <1>2, <1>3, FS_Subset
<1>5. ASSUME NEW q \in placed, Before(p[1], q[1])
      PROVE  Cardinality(Ahead(placed, p)) < Cardinality(Ahead(placed, q))
  <2>1. Ahead(placed, p) \in SUBSET Ahead(placed, q)  BY <1>5, BeforeOrders
  <2>2. p \in Ahead(placed, q)  BY <1>5 DEF Ahead
  <2>3. IsFiniteSet(Ahead(placed, q))  BY <1>2
  <2>4. /\ Cardinality(Ahead(placed, p)) <= Cardinality(Ahead(placed, q))
        /\ Cardinality(Ahead(placed, q)) = Cardinality(Ahead(placed, p))
           => Ahead(placed, q) = Ahead(placed, p)
    BY <2>1, <2>3, FS_Subset
  <2> QED  BY <1>2, <1>3, <2>2, <2>4
<1> QED  BY <1>2, <1>4, <1>5

\* Each thing is at one number, and the numbers follow the places.
LEMMA PlacedAtIs ==
  ASSUME NEW placed, Tidy(placed)
  PROVE  /\ \A k \in 1..Cardinality(placed) : PlacedAt(placed, k) \in placed
         /\ \A p \in placed : \E k \in 1..Cardinality(placed) : PlacedAt(placed, k) = p
         /\ \A j, k \in 1..Cardinality(placed) :
               Before(PlacedAt(placed, j)[1], PlacedAt(placed, k)[1]) <=> j < k
<1> DEFINE n == Cardinality(placed)
           c(p) == Cardinality(Ahead(placed, p))
           f == [p \in placed |-> c(p) + 1]
<1>1. IsFiniteSet(placed) /\ n \in Nat  BY FS_CardinalityType DEF Tidy
<1>2. \A p \in placed : c(p) \in Nat /\ c(p) < n  BY AheadGrows
<1>3. \A p, q \in placed : Before(p[1], q[1]) => c(p) < c(q)  BY AheadGrows
<1> HIDE DEF n
<1>4. \A p, q \in placed : c(p) = c(q) => p = q
  <2> SUFFICES ASSUME NEW p \in placed, NEW q \in placed, c(p) = c(q), p # q PROVE FALSE
    OBVIOUS
  <2>1. Before(p[1], q[1]) \/ Before(q[1], p[1])  BY BeforeOrders
  <2> HIDE DEF c
  <2>2. c(p) < c(q) \/ c(q) < c(p)  BY <1>3, <2>1
  <2> QED  BY <1>2, <2>2
<1> HIDE DEF c
<1>5. f \in [placed -> 1..n] /\ \A p, q \in placed : f[p] = f[q] => p = q
  BY <1>1, <1>2, <1>4
<1>6. f \in Injection(placed, 1..n)
  <2> HIDE DEF f
  <2> QED  BY <1>5, Fun_IsInj
<1>7. IsFiniteSet(1..n) /\ Cardinality(1..n) = n  BY <1>1, FS_Interval
<1>8. f \in Surjection(placed, 1..n)
  <2> HIDE DEF f
  <2> QED  BY <1>6, <1>7, FS_Injection DEF n
<1>9. ASSUME NEW k \in 1..n
      PROVE  PlacedAt(placed, k) \in placed /\ c(PlacedAt(placed, k)) = k - 1
  <2>1. PICK p \in placed : f[p] = k  BY <1>8 DEF Surjection
  <2>2. c(p) = k - 1  BY <1>2, <2>1
  <2>3. \E r \in placed : Cardinality({q \in placed : Before(q[1], r[1])}) = k - 1
    BY <2>2 DEF c, Ahead
  <2> QED  BY <2>3 DEF PlacedAt, c, Ahead
<1>10. ASSUME NEW p \in placed
       PROVE  \E k \in 1..n : PlacedAt(placed, k) = p
  <2>1. f[p] \in 1..n /\ c(p) = f[p] - 1  BY <1>2, <1>5
  <2>2. /\ PlacedAt(placed, f[p]) \in placed
        /\ c(PlacedAt(placed, f[p])) = c(p)
    <3> HIDE DEF f
    <3> QED  BY <1>9, <2>1
  <2>3. PlacedAt(placed, f[p]) = p  BY <1>4, <2>2
  <2> QED  BY <2>1, <2>3
<1>11. ASSUME NEW j \in 1..n, NEW k \in 1..n
       PROVE  Before(PlacedAt(placed, j)[1], PlacedAt(placed, k)[1]) <=> j < k
  <2> DEFINE p == PlacedAt(placed, j)
             q == PlacedAt(placed, k)
  <2>1. p \in placed /\ q \in placed /\ c(p) = j - 1 /\ c(q) = k - 1  BY <1>9
  <2> HIDE DEF p, q
  <2>2. Before(p[1], q[1]) => c(p) < c(q)  BY <1>3, <2>1
  <2>3. Before(q[1], p[1]) => c(q) < c(p)  BY <1>3, <2>1
  <2>4. p # q => Before(p[1], q[1]) \/ Before(q[1], p[1])  BY <2>1, BeforeOrders
  <2>5. j \in Int /\ k \in Int  BY <1>1
  <2>6. Before(p[1], q[1]) => j < k  BY <2>1, <2>2, <2>5
  <2>7. Before(q[1], p[1]) => k < j  BY <2>1, <2>3, <2>5
  <2>8. ASSUME j < k PROVE Before(p[1], q[1])
    <3>1. p # q  BY <2>1, <2>5, <2>8
    <3> QED  BY <2>4, <2>5, <2>7, <2>8, <3>1
  <2> QED  BY <2>6, <2>8 DEF p, q
<1> QED  BY <1>9, <1>10, <1>11 DEF n

LEMMA ArrangedIs ==
  ASSUME NEW placed, Tidy(placed)
  PROVE  /\ Cardinality(placed) \in Nat
         /\ DOMAIN Arranged(placed) = 1..Cardinality(placed)
         /\ \A k \in 1..Cardinality(placed) : Arranged(placed)[k] = PlacedAt(placed, k)[2]
         /\ Range(Arranged(placed)) = {p[2] : p \in placed}
         /\ \A S : (\A p \in placed : p[2] \in S) => Arranged(placed) \in Seq(S)
<1> DEFINE n == Cardinality(placed)
           e(k) == PlacedAt(placed, k)[2]
<1>1. n \in Nat  BY FS_CardinalityType DEF Tidy
<1>2. /\ \A k \in 1..n : PlacedAt(placed, k) \in placed
      /\ \A p \in placed : \E k \in 1..n : PlacedAt(placed, k) = p
  BY PlacedAtIs
<1>3. Arranged(placed) = [k \in 1..n |-> e(k)]  BY DEF Arranged
<1>4. Range(Arranged(placed)) = {p[2] : p \in placed}  BY <1>2, <1>3 DEF Range
<1>5. ASSUME NEW S, \A p \in placed : p[2] \in S
      PROVE  Arranged(placed) \in Seq(S)
  <2>1. \A k \in 1..n : e(k) \in S  BY <1>2, <1>5
  <2> HIDE DEF n, e
  <2>2. [k \in 1..n |-> e(k)] \in Seq(S)  BY <1>1, <2>1
  <2> QED  BY <1>3, <2>2
<1> QED  BY <1>1, <1>3, <1>4, <1>5
-----------------------------------------------------------------------------
\* The list of the tasks.

LEMMA NumberIs ==
  ASSUME NEW S, NEW s \in Seq(S), NEW x \in Range(s)
  PROVE  Number(s, x) \in 1..Len(s) /\ s[Number(s, x)] = x
<1>1. \E i \in DOMAIN s : s[i] = x  BY DEF Range
<1> QED  BY <1>1 DEF Number

LEMMA AfterIs ==
  ASSUME NEW S, NEW s \in Seq(S), NEW x \in Range(s)
  PROVE  After(s, x) \in Range(s)
<1>1. Number(s, x) \in 1..Len(s) /\ Len(s) \in Nat  BY NumberIs
<1>2. (Number(s, x) % Len(s)) + 1 \in 1..Len(s)
  <2> DEFINE k == Number(s, x)
             n == Len(s)
  <2>1. k \in Nat /\ n \in Nat \ {0}  BY <1>1
  <2> HIDE DEF k, n
  <2>2. k % n \in 0..(n - 1)  BY <2>1
  <2> QED  BY <2>1, <2>2 DEF k, n
<1> QED  BY <1>2 DEF After, Range

\* The list has each task of the index once.
LEMMA ListedIs ==
  ASSUME NEW R \in SUBSET Row, IsFiniteSet(R), NEW next, Snapshot(R, next)
  PROVE  /\ Listed(R) \in Seq(Row)
         /\ Range(Listed(R)) = R
         /\ IsInjective(Listed(R))
<1> DEFINE pair(r) == <<<<0, Number(Alphabetical, r.note), r.line>>, r>>
           P == {pair(r) : r \in R}
<1>1. \A r \in R : r.note \in Notes /\ r.line \in Nat  BY DEF Row
<1>2. \A r \in R : /\ Number(Alphabetical, r.note) \in Nat
                   /\ Alphabetical[Number(Alphabetical, r.note)] = r.note
  BY <1>1, NumberIs, ViewAssumption
<1>3. \A r, q \in R : r.note = q.note /\ r.line = q.line => r = q  BY DEF Snapshot
<1>4. \A r, q \in R : pair(r)[1] = pair(q)[1] => r = q  BY <1>2, <1>3
<1>5. \A r \in R : pair(r)[1] \in Nat \X Nat \X Nat /\ pair(r)[2] = r  BY <1>1, <1>2
<1>6. IsFiniteSet(P)
  <2> DEFINE f == [r \in R |-> pair(r)]
  <2>1. f \in Surjection(R, P)  BY DEF Surjection
  <2> QED  BY <2>1, FS_Surjection
<1>7. Tidy(P)  BY <1>4, <1>5, <1>6 DEF Tidy
<1>8. {p[2] : p \in P} = R
  <2>1. \A r \in R : pair(r)[2] = r  BY <1>5
  <2>2. \A p \in P : \E r \in R : p = pair(r)  OBVIOUS
  <2>3. \A r \in R : pair(r) \in P  OBVIOUS
  <2> HIDE DEF P, pair
  <2> QED  BY <2>1, <2>2, <2>3
<1>9. \A p \in P : p[2] \in Row  BY <1>8
<1>10. Listed(R) = Arranged(P)  BY DEF Listed
<1>11. \A p, q \in P : p[2] = q[2] => p = q  BY <1>5
<1> HIDE DEF P, pair
<1>12. Listed(R) \in Seq(Row) /\ Range(Listed(R)) = R
  <2>1. Arranged(P) \in Seq(Row)  BY <1>7, <1>9, ArrangedIs
  <2>2. Range(Arranged(P)) = R  BY <1>7, <1>8, ArrangedIs
  <2> QED  BY <1>10, <2>1, <2>2
<1>13. IsInjective(Listed(R))
  <2> DEFINE n == Cardinality(P)
  <2>1. /\ n \in Nat /\ DOMAIN Listed(R) = 1..n
        /\ \A k \in 1..n : Listed(R)[k] = PlacedAt(P, k)[2] /\ PlacedAt(P, k) \in P
    BY <1>7, <1>10, ArrangedIs, PlacedAtIs
  <2>2. \A j, k \in 1..n : j < k => PlacedAt(P, j) # PlacedAt(P, k)
    <3>1. \A p \in P : ~Before(p[1], p[1])  BY <1>7, BeforeOrders
    <3>2. \A j, k \in 1..n : Before(PlacedAt(P, j)[1], PlacedAt(P, k)[1]) <=> j < k
      BY <1>7, PlacedAtIs
    <3> QED  BY <2>1, <3>1, <3>2
  <2> HIDE DEF n
  <2>3. \A j, k \in 1..n : PlacedAt(P, j) = PlacedAt(P, k) => j = k
    <3> SUFFICES ASSUME NEW j \in 1..n, NEW k \in 1..n, PlacedAt(P, j) = PlacedAt(P, k),
                        j # k
                 PROVE  FALSE
      OBVIOUS
    <3>1. j < k \/ k < j  BY <2>1
    <3> QED  BY <2>2, <3>1
  <2> QED  BY <1>11, <2>1, <2>3 DEF IsInjective
<1> QED  BY <1>12, <1>13
-----------------------------------------------------------------------------
\* The rows on the screen.

HeaderRows == [is : {"header"}, key : Scopes \X Keys, collapsed : BOOLEAN, total : Nat,
               open : Nat]
LaneRows   == [is : {"lane"}, key : Range(Lanes), total : Nat, collapsed : BOOLEAN]
TaskRows   == [is : {"task"}, task : Row]
ScreenRow  == HeaderRows \cup LaneRows \cup TaskRows

\* A list of named tasks without repetition.
TaskList(ts) == /\ ts \in Seq(Row) /\ IsInjective(ts)
                /\ \A i \in DOMAIN ts : ts[i].text.name \in Names

LEMMA ListsAre ==
  /\ Range(Lanes) = {"/", "!", " ", "x"} /\ Lanes \in Seq(Range(Lanes)) /\ Len(Lanes) = 4
  /\ Range(Axes) = {"folder+note", "note", "tag", "priority", "folder"}
  /\ Axes \in Seq(Range(Axes))
  /\ Range(Filters) = {"all", "open", "done"} /\ Filters \in Seq(Range(Filters))
<1>1. DOMAIN Lanes = 1..4 /\ DOMAIN Axes = 1..5 /\ DOMAIN Filters = 1..3
  BY DEF Lanes, Axes, Filters
<1>2. Range(Lanes) = {"/", "!", " ", "x"}
  <2>1. Range(Lanes) = {Lanes[1], Lanes[2], Lanes[3], Lanes[4]}  BY <1>1 DEF Range
  <2> QED  BY <2>1 DEF Lanes
<1>3. Range(Axes) = {"folder+note", "note", "tag", "priority", "folder"}
  <2>1. Range(Axes) = {Axes[1], Axes[2], Axes[3], Axes[4], Axes[5]}  BY <1>1 DEF Range
  <2> QED  BY <2>1 DEF Axes
<1>4. Range(Filters) = {"all", "open", "done"}
  <2>1. Range(Filters) = {Filters[1], Filters[2], Filters[3]}  BY <1>1 DEF Range
  <2> QED  BY <2>1 DEF Filters
<1>5. Lanes \in Seq({"/", "!", " ", "x"}) /\ Len(Lanes) = 4  BY DEF Lanes
<1>6. Axes \in Seq({"folder+note", "note", "tag", "priority", "folder"})  BY DEF Axes
<1>7. Filters \in Seq({"all", "open", "done"})  BY DEF Filters
<1> QED  BY <1>2, <1>3, <1>4, <1>5, <1>6, <1>7

LEMMA ColumnsAre ==
  ASSUME NEW o \in Options
  PROVE  /\ Columns(o) \in Seq(Scopes) /\ Len(Columns(o)) \in 1..4
         /\ Range(Columns(o)) = (IF o.board THEN Range(Lanes) ELSE {"list"})
         /\ \A s \in Range(Columns(o)) : /\ Number(Columns(o), s) \in 1..4
                                         /\ Columns(o)[Number(Columns(o), s)] = s
         /\ "list" \notin o.folded
<1>1. "list" \notin Range(Lanes)  BY ListsAre
<1>2. "list" \notin o.folded  BY <1>1 DEF Options
<1>3. Columns(o) \in Seq(Scopes) /\ Len(Columns(o)) \in 1..4
  <2>1. CASE o.board
    <3>1. Columns(o) = Lanes  BY <2>1 DEF Columns
    <3>2. Range(Lanes) \subseteq Scopes  BY DEF Scopes
    <3>3. Lanes \in Seq(Range(Lanes)) /\ Len(Lanes) = 4  BY ListsAre
    <3>4. Lanes \in Seq(Scopes)  BY <3>2, <3>3
    <3> QED  BY <3>1, <3>3, <3>4
  <2>2. CASE ~o.board
    <3>1. Columns(o) = <<"list">>  BY <2>2 DEF Columns
    <3>2. "list" \in Scopes  BY DEF Scopes
    <3> QED  BY <3>1, <3>2
  <2> QED  BY <2>1, <2>2
<1>4. Range(Columns(o)) = (IF o.board THEN Range(Lanes) ELSE {"list"})
  <2>1. Range(<<"list">>) = {"list"}  BY DEF Range
  <2> QED  BY <2>1 DEF Columns
<1>5. ASSUME NEW s \in Range(Columns(o))
      PROVE  /\ Number(Columns(o), s) \in 1..4
             /\ Columns(o)[Number(Columns(o), s)] = s
  BY <1>3, NumberIs
<1> QED  BY <1>2, <1>3, <1>4, <1>5

LEMMA GroupOrderIs ==
  ASSUME NEW axis
  PROVE  /\ GroupOrder(axis) \in Seq(Keys) /\ Len(GroupOrder(axis)) \in Nat
         /\ \A key \in Range(GroupOrder(axis)) :
               /\ Number(GroupOrder(axis), key) \in 1..Len(GroupOrder(axis))
               /\ GroupOrder(axis)[Number(GroupOrder(axis), key)] = key
<1>1. GroupOrder(axis) \in Seq(Keys)  BY ViewAssumption DEF GroupOrder
<1> QED  BY <1>1, NumberIs

LEMMA GroupKeysType ==
  ASSUME NEW r \in Row, r.text.name \in Names, NEW axis \in Range(Axes)
  PROVE  GroupKeys(r, axis) \subseteq Range(GroupOrder(axis)) /\ GroupKeys(r, axis) \subseteq Keys
<1>0. r.note \in Notes  BY DEF Row
<1>1. CASE axis = "priority"
  <2>1. GroupKeys(r, axis) = {PriorityOf[r.text.name]}  BY <1>1 DEF GroupKeys
  <2>2. PriorityOf[r.text.name] \in Range(ByImportance)  BY ViewAssumption
  <2>3. Range(ByImportance) \subseteq Keys  BY ViewAssumption DEF Range
  <2> QED  BY <1>1, <2>1, <2>2, <2>3 DEF GroupOrder
<1>2. CASE axis # "priority"
  <2>1. Range(GroupOrder(axis)) = Keys  BY <1>2, ViewAssumption DEF GroupOrder
  <2>2. CASE axis = "folder+note"
    <3>1. GroupKeys(r, axis) = {r.note}  BY <2>2 DEF GroupKeys
    <3> QED  BY <1>0, <2>1, <3>1, ViewAssumption
  <2>3. CASE axis = "note"
    <3>1. GroupKeys(r, axis) = {FileOf[r.note]}  BY <2>3 DEF GroupKeys
    <3> QED  BY <1>0, <2>1, <3>1, ViewAssumption
  <2>4. CASE axis = "folder"
    <3>1. GroupKeys(r, axis) = {FolderOf[r.note]}  BY <2>4 DEF GroupKeys
    <3> QED  BY <1>0, <2>1, <3>1, ViewAssumption
  <2>5. CASE axis = "tag"
    <3>1. GroupKeys(r, axis) \subseteq {Untagged} \cup TagsOf[r.text.name]
      BY <2>5 DEF GroupKeys
    <3> QED  BY <2>1, <3>1, ViewAssumption
  <2> QED  BY <1>2, <2>2, <2>3, <2>4, <2>5, ListsAre
<1> QED  BY <1>1, <1>2
\* The three kinds of rows with their places, and what is placed on the screen.
LaneCell(ts, o, s) ==
    <<LanePlace(o, s),
      LaneRow(s, Cardinality({i \in DOMAIN ts : InScope(ts[i], s)}), s \in o.folded)>>
HeaderCell(ts, o, g) ==
    <<RowPlace(o, g, 0), HeaderRow(g, {ts[i] : i \in Members(ts, o, g)}, g \in o.expanded)>>
TaskCell(ts, o, g, i) == <<RowPlace(o, g, i), TaskRow(ts[i])>>
Placed(ts, o) == PlacedLanes(ts, o) \cup PlacedHeaders(ts, o) \cup PlacedTasks(ts, o)
OpenGroups(ts, o) == Unfolded(ts, o) \cap o.expanded

\* The groups are those with something visible.
LEMMA GroupHasVisible ==
  ASSUME NEW ts, TaskList(ts), NEW o \in Options, NEW g
  PROVE  g \in Groups(ts, o) <=> g \in Range(Columns(o)) \X Keys /\ Visible(ts, o, g) # {}
<1>1. o.axis \in Range(Axes)  BY DEF Options
<1>2. \A r \in Range(ts) : r \in Row /\ r.text.name \in Names  BY DEF TaskList, Range
<1>3. \A r \in Range(ts) : GroupKeys(r, o.axis) \subseteq Keys
  BY <1>1, <1>2, GroupKeysType, GroupOrderIs
<1>4. ASSUME g \in Groups(ts, o)
      PROVE  g \in Range(Columns(o)) \X Keys /\ Visible(ts, o, g) # {}
  <2>1. PICK r \in Range(ts) :
          /\ Passes(r, Filtered(o))
          /\ g \in {s \in Range(Columns(o)) : InScope(r, s)} \X GroupKeys(r, o.axis)
    BY <1>4 DEF Groups
  <2>2. PICK i \in DOMAIN ts : r = ts[i]  BY DEF Range
  <2>3. /\ g \in Range(Columns(o)) \X Keys
        /\ InScope(ts[i], g[1]) /\ g[2] \in GroupKeys(ts[i], o.axis)
    BY <1>3, <2>1, <2>2
  <2>4. i \in Visible(ts, o, g)  BY <2>1, <2>2, <2>3 DEF Visible, Members
  <2> QED  BY <2>3, <2>4
<1>5. ASSUME g \in Range(Columns(o)) \X Keys, Visible(ts, o, g) # {}
      PROVE  g \in Groups(ts, o)
  <2>1. PICK i \in Visible(ts, o, g) : TRUE  BY <1>5
  <2>2. /\ ts[i] \in Range(ts) /\ Passes(ts[i], Filtered(o))
        /\ InScope(ts[i], g[1]) /\ g[2] \in GroupKeys(ts[i], o.axis)
    BY DEF Visible, Members, Range
  <2>3. g \in {s \in Range(Columns(o)) : InScope(ts[i], s)} \X GroupKeys(ts[i], o.axis)
    BY <1>5, <2>2
  <2> QED  BY <2>2, <2>3 DEF Groups
<1> QED  BY <1>4, <1>5

LEMMA GroupsAre ==
  ASSUME NEW ts, TaskList(ts), NEW o \in Options, NEW g \in Groups(ts, o)
  PROVE  /\ g = <<g[1], g[2]>> /\ g \in Scopes \X Keys
         /\ g[1] \in Range(Columns(o)) /\ g[2] \in Range(GroupOrder(o.axis))
         /\ g[1] # "list" => g[1] \in Range(Lanes)
         /\ Visible(ts, o, g) # {}
<1>1. g \in Range(Columns(o)) \X Keys /\ Visible(ts, o, g) # {}  BY GroupHasVisible
<1>2. PICK i \in DOMAIN ts : g[2] \in GroupKeys(ts[i], o.axis)  BY <1>1 DEF Visible, Members
<1>3. ts[i] \in Row /\ ts[i].text.name \in Names  BY DEF TaskList
<1>4. o.axis \in Range(Axes)  BY DEF Options
<1>5. g[2] \in Range(GroupOrder(o.axis))  BY <1>2, <1>3, <1>4, GroupKeysType
<1>6. Range(Columns(o)) \subseteq Scopes  BY ColumnsAre DEF Scopes
<1>7. g[1] # "list" => g[1] \in Range(Lanes)  BY <1>1, ColumnsAre
<1> QED  BY <1>1, <1>5, <1>6, <1>7

LEMMA VisibleAre ==
  ASSUME NEW ts, TaskList(ts), NEW o, NEW g, NEW i \in Visible(ts, o, g)
  PROVE  i \in DOMAIN ts /\ i \in 1..Len(ts) /\ Len(ts) \in Nat
<1>1. i \in DOMAIN ts  BY DEF Visible, Members
<1>2. ts \in Seq(Row)  BY DEF TaskList
<1> QED  BY <1>1, <1>2

LEMMA PlacedCases ==
  ASSUME NEW ts, NEW o, NEW p \in Placed(ts, o)
  PROVE  \/ \E g \in Groups(ts, o) : g[1] # "list" /\ p = LaneCell(ts, o, g[1])
         \/ \E g \in Unfolded(ts, o) : p = HeaderCell(ts, o, g)
         \/ \E g \in OpenGroups(ts, o) : \E i \in Visible(ts, o, g) : p = TaskCell(ts, o, g, i)
<1>1. CASE p \in PlacedLanes(ts, o)
  BY <1>1 DEF PlacedLanes, LaneCell
<1>2. CASE p \in PlacedHeaders(ts, o)
  BY <1>2 DEF PlacedHeaders, HeaderCell
<1>3. CASE p \in PlacedTasks(ts, o)
  BY <1>3 DEF PlacedTasks, TaskCell, OpenGroups
<1> QED  BY <1>1, <1>2, <1>3 DEF Placed

LEMMA PlacedHas ==
  ASSUME NEW ts, NEW o
  PROVE  /\ \A g \in Unfolded(ts, o) : HeaderCell(ts, o, g) \in Placed(ts, o)
         /\ \A g \in OpenGroups(ts, o) : \A i \in Visible(ts, o, g) :
               TaskCell(ts, o, g, i) \in Placed(ts, o)
<1>1. \A g \in Unfolded(ts, o) : HeaderCell(ts, o, g) \in PlacedHeaders(ts, o)
  BY DEF PlacedHeaders, HeaderCell
<1>2. \A g \in OpenGroups(ts, o) : \A i \in Visible(ts, o, g) :
        TaskCell(ts, o, g, i) \in PlacedTasks(ts, o)
  BY DEF PlacedTasks, TaskCell, OpenGroups
<1> QED  BY <1>1, <1>2 DEF Placed

\* What the place and the row of each kind are.
LEMMA CellsAre ==
  ASSUME NEW ts, TaskList(ts), NEW o \in Options, NEW g \in Groups(ts, o)
  PROVE  LET a == Number(Columns(o), g[1])
             b == Number(GroupOrder(o.axis), g[2])
         IN  /\ a \in 1..4 /\ b \in 1..Len(GroupOrder(o.axis))
             /\ Columns(o)[a] = g[1] /\ GroupOrder(o.axis)[b] = g[2]
             /\ LaneCell(ts, o, g[1])[1] = <<a, 0, 0>>
             /\ g[1] # "list" => LaneCell(ts, o, g[1])[2] \in LaneRows
             /\ HeaderCell(ts, o, g)[1] = <<a, b, 0>>
             /\ HeaderCell(ts, o, g)[2] \in HeaderRows
             /\ HeaderCell(ts, o, g)[2].key = g
             /\ \A i \in Visible(ts, o, g) :
                   /\ TaskCell(ts, o, g, i)[1] = <<a, b, i>>
                   /\ TaskCell(ts, o, g, i)[2] \in TaskRows
                   /\ TaskCell(ts, o, g, i)[2].task = ts[i]
<1> DEFINE a == Number(Columns(o), g[1])
           b == Number(GroupOrder(o.axis), g[2])
<1>1. a \in 1..4 /\ Columns(o)[a] = g[1]  BY GroupsAre, ColumnsAre
<1>2. b \in 1..Len(GroupOrder(o.axis)) /\ GroupOrder(o.axis)[b] = g[2]
  BY GroupsAre, GroupOrderIs
<1>3. g \in Scopes \X Keys /\ (g[1] # "list" => g[1] \in Range(Lanes))  BY GroupsAre
<1>4. IsFiniteSet(DOMAIN ts) /\ ts \in Seq(Row)
  <2>1. ts \in Seq(Row) /\ DOMAIN ts = 1..Len(ts) /\ Len(ts) \in Nat  BY DEF TaskList
  <2> QED  BY <2>1, FS_Interval
<1>5. ASSUME NEW S \in SUBSET DOMAIN ts PROVE IsFiniteSet(S) /\ Cardinality(S) \in Nat
  BY <1>4, FS_Subset, FS_CardinalityType
<1>6. ASSUME g[1] # "list" PROVE LaneCell(ts, o, g[1])[2] \in LaneRows
  <2> DEFINE S == {i \in DOMAIN ts : InScope(ts[i], g[1])}
             n == Cardinality(S)
  <2>1. n \in Nat  BY <1>5
  <2>2. LaneCell(ts, o, g[1])[2] = LaneRow(g[1], n, g[1] \in o.folded)  BY DEF LaneCell
  <2> HIDE DEF n
  <2>3. (g[1] \in o.folded) \in BOOLEAN  OBVIOUS
  <2> QED  BY <1>3, <1>6, <2>1, <2>2, <2>3 DEF LaneRow, LaneRows
<1>7. /\ HeaderCell(ts, o, g)[2] \in HeaderRows
      /\ HeaderCell(ts, o, g)[2].key = g
  <2> DEFINE M == Members(ts, o, g)
             R == {ts[i] : i \in M}
             n == Cardinality(R)
             Q == {r \in R : IsOpenLike(r.char)}
             m == Cardinality(Q)
             f == [i \in M |-> ts[i]]
  <2>1. M \in SUBSET DOMAIN ts  BY DEF Members
  <2>2. IsFiniteSet(M)  BY <1>5, <2>1
  <2>3. f \in Surjection(M, R)  BY DEF Surjection
  <2>4. IsFiniteSet(R)  BY <2>2, <2>3, FS_Surjection
  <2>5. IsFiniteSet(Q)
    <3>1. Q \in SUBSET R  OBVIOUS
    <3> QED  BY <2>4, <3>1, FS_Subset
  <2>6. n \in Nat /\ m \in Nat  BY <2>4, <2>5, FS_CardinalityType
  <2>7. HeaderCell(ts, o, g)[2] = [is |-> "header", key |-> g, collapsed |-> ~(g \in o.expanded),
                                   total |-> n, open |-> m]
    BY DEF HeaderCell, HeaderRow
  <2> HIDE DEF n, m
  <2>8. (~(g \in o.expanded)) \in BOOLEAN  OBVIOUS
  <2> QED  BY <1>3, <2>6, <2>7, <2>8 DEF HeaderRows
<1>8. ASSUME NEW i \in Visible(ts, o, g)
      PROVE  /\ TaskCell(ts, o, g, i)[1] = <<a, b, i>>
             /\ TaskCell(ts, o, g, i)[2] \in TaskRows
             /\ TaskCell(ts, o, g, i)[2].task = ts[i]
  <2>1. i \in DOMAIN ts  BY VisibleAre
  <2>2. ts[i] \in Row  BY <1>4, <2>1
  <2> QED  BY <2>2 DEF TaskCell, RowPlace, TaskRow, TaskRows
<1>9. LaneCell(ts, o, g[1])[1] = <<a, 0, 0>>  BY DEF LaneCell, LanePlace
<1>10. HeaderCell(ts, o, g)[1] = <<a, b, 0>>  BY DEF HeaderCell, RowPlace
<1> QED  BY <1>1, <1>2, <1>6, <1>7, <1>8, <1>9, <1>10
\* A place tells which row it is of.
LEMMA PlacesDiffer ==
  ASSUME NEW ts, TaskList(ts), NEW o \in Options,
         NEW p \in Placed(ts, o), NEW q \in Placed(ts, o), p[1] = q[1]
  PROVE  p = q
<1> DEFINE A(g) == Number(Columns(o), g[1])
           B(g) == Number(GroupOrder(o.axis), g[2])
           IsLane(c)   == \E g \in Groups(ts, o) : g[1] # "list" /\ c = LaneCell(ts, o, g[1])
           IsHeader(c) == \E g \in Unfolded(ts, o) : c = HeaderCell(ts, o, g)
           IsTask(c)   == \E g \in OpenGroups(ts, o) : \E i \in Visible(ts, o, g) :
                             c = TaskCell(ts, o, g, i)
<1>1. ASSUME NEW g \in Groups(ts, o), NEW h \in Groups(ts, o)
      PROVE  /\ A(g) = A(h) => g[1] = h[1]
             /\ B(g) = B(h) => g[2] = h[2]
             /\ B(g) # 0
  BY CellsAre, GroupOrderIs
<1>2. ASSUME NEW g \in Groups(ts, o), NEW h \in Groups(ts, o), A(g) = A(h), B(g) = B(h)
      PROVE  g = h
  BY <1>1, <1>2, GroupsAre
<1>3. /\ Unfolded(ts, o) \subseteq Groups(ts, o)
      /\ OpenGroups(ts, o) \subseteq Groups(ts, o)
  BY DEF Unfolded, OpenGroups
<1> DEFINE At(c, a, b, i) == c[1][1] = a /\ c[1][2] = b /\ c[1][3] = i
<1>4. \A g \in Groups(ts, o) : /\ At(LaneCell(ts, o, g[1]), A(g), 0, 0)
                               /\ At(HeaderCell(ts, o, g), A(g), B(g), 0)
  <2> SUFFICES ASSUME NEW g \in Groups(ts, o)
               PROVE  /\ At(LaneCell(ts, o, g[1]), A(g), 0, 0)
                      /\ At(HeaderCell(ts, o, g), A(g), B(g), 0)
    OBVIOUS
  <2>1. LaneCell(ts, o, g[1])[1] = <<A(g), 0, 0>>  BY DEF LaneCell, LanePlace
  <2>2. HeaderCell(ts, o, g)[1] = <<A(g), B(g), 0>>  BY CellsAre
  <2> QED  BY <2>1, <2>2
<1>5. \A g \in Groups(ts, o) : \A i \in Visible(ts, o, g) :
         At(TaskCell(ts, o, g, i), A(g), B(g), i) /\ i # 0
  <2> SUFFICES ASSUME NEW g \in Groups(ts, o), NEW i \in Visible(ts, o, g)
               PROVE  At(TaskCell(ts, o, g, i), A(g), B(g), i) /\ i # 0
    OBVIOUS
  <2>1. TaskCell(ts, o, g, i)[1] = <<A(g), B(g), i>>  BY CellsAre
  <2>2. i \in 1..Len(ts) /\ Len(ts) \in Nat  BY VisibleAre
  <2> QED  BY <2>1, <2>2
<1> HIDE DEF A, B
<1>6. IsLane(p) \/ IsHeader(p) \/ IsTask(p)  BY PlacedCases
<1>7. IsLane(q) \/ IsHeader(q) \/ IsTask(q)  BY PlacedCases
<1>8. CASE IsLane(p)
  <2>1. PICK g \in Groups(ts, o) : g[1] # "list" /\ p = LaneCell(ts, o, g[1])  BY <1>8
  <2>2. At(p, A(g), 0, 0)  BY <1>4, <2>1
  <2>3. CASE IsLane(q)
    <3>1. PICK h \in Groups(ts, o) : h[1] # "list" /\ q = LaneCell(ts, o, h[1])  BY <2>3
    <3>2. At(q, A(h), 0, 0)  BY <1>4, <3>1
    <3>3. g[1] = h[1]  BY <1>1, <2>2, <3>2
    <3> QED  BY <2>1, <3>1, <3>3
  <2>4. CASE IsHeader(q)
    <3>1. PICK h \in Groups(ts, o) : q = HeaderCell(ts, o, h)  BY <1>3, <2>4
    <3>2. At(q, A(h), B(h), 0)  BY <1>4, <3>1
    <3> QED  BY <1>1, <2>2, <3>2
  <2>5. CASE IsTask(q)
    <3>1. PICK h \in Groups(ts, o) : \E i \in Visible(ts, o, h) : q = TaskCell(ts, o, h, i)
      BY <1>3, <2>5
    <3>2. PICK i \in Visible(ts, o, h) : q = TaskCell(ts, o, h, i)  BY <3>1
    <3>3. At(q, A(h), B(h), i) /\ i # 0  BY <1>5, <3>2
    <3> QED  BY <2>2, <3>3
  <2> QED  BY <1>7, <2>3, <2>4, <2>5
<1>9. CASE IsHeader(p)
  <2>1. PICK g \in Groups(ts, o) : p = HeaderCell(ts, o, g)  BY <1>3, <1>9
  <2>2. At(p, A(g), B(g), 0)  BY <1>4, <2>1
  <2>3. CASE IsLane(q)
    <3>1. PICK h \in Groups(ts, o) : h[1] # "list" /\ q = LaneCell(ts, o, h[1])  BY <2>3
    <3>2. At(q, A(h), 0, 0)  BY <1>4, <3>1
    <3> QED  BY <1>1, <2>2, <3>2
  <2>4. CASE IsHeader(q)
    <3>1. PICK h \in Groups(ts, o) : q = HeaderCell(ts, o, h)  BY <1>3, <2>4
    <3>2. At(q, A(h), B(h), 0)  BY <1>4, <3>1
    <3>3. g = h  BY <1>2, <2>2, <3>2
    <3> QED  BY <2>1, <3>1, <3>3
  <2>5. CASE IsTask(q)
    <3>1. PICK h \in Groups(ts, o) : \E i \in Visible(ts, o, h) : q = TaskCell(ts, o, h, i)
      BY <1>3, <2>5
    <3>2. PICK i \in Visible(ts, o, h) : q = TaskCell(ts, o, h, i)  BY <3>1
    <3>3. At(q, A(h), B(h), i) /\ i # 0  BY <1>5, <3>2
    <3> QED  BY <2>2, <3>3
  <2> QED  BY <1>7, <2>3, <2>4, <2>5
<1>10. CASE IsTask(p)
  <2>1. PICK g \in Groups(ts, o) : \E i \in Visible(ts, o, g) : p = TaskCell(ts, o, g, i)
    BY <1>3, <1>10
  <2>2. PICK i \in Visible(ts, o, g) : p = TaskCell(ts, o, g, i)  BY <2>1
  <2>3. At(p, A(g), B(g), i) /\ i # 0  BY <1>5, <2>2
  <2>4. CASE IsLane(q)
    <3>1. PICK h \in Groups(ts, o) : h[1] # "list" /\ q = LaneCell(ts, o, h[1])  BY <2>4
    <3>2. At(q, A(h), 0, 0)  BY <1>4, <3>1
    <3> QED  BY <2>3, <3>2
  <2>5. CASE IsHeader(q)
    <3>1. PICK h \in Groups(ts, o) : q = HeaderCell(ts, o, h)  BY <1>3, <2>5
    <3>2. At(q, A(h), B(h), 0)  BY <1>4, <3>1
    <3> QED  BY <2>3, <3>2
  <2>6. CASE IsTask(q)
    <3>1. PICK h \in Groups(ts, o) : \E j \in Visible(ts, o, h) : q = TaskCell(ts, o, h, j)
      BY <1>3, <2>6
    <3>2. PICK j \in Visible(ts, o, h) : q = TaskCell(ts, o, h, j)  BY <3>1
    <3>3. At(q, A(h), B(h), j)  BY <1>5, <3>2
    <3>4. g = h /\ i = j  BY <1>2, <2>3, <3>3
    <3> QED  BY <2>2, <3>2, <3>4
  <2> QED  BY <1>7, <2>4, <2>5, <2>6
<1> QED  BY <1>6, <1>8, <1>9, <1>10

LEMMA PlacedTidy ==
  ASSUME NEW ts, TaskList(ts), NEW o \in Options
  PROVE  Tidy(Placed(ts, o)) /\ \A p \in Placed(ts, o) : p[2] \in ScreenRow
<1> DEFINE K == Len(GroupOrder(o.axis))
           N == Len(ts)
<1>1. K \in Nat /\ N \in Nat
  <2>1. ts \in Seq(Row)  BY DEF TaskList
  <2> QED  BY <2>1, GroupOrderIs
<1>2. ASSUME NEW p \in Placed(ts, o)
      PROVE  p[1] \in (0..4) \X (0..K) \X (0..N) /\ p[2] \in ScreenRow
  <2>0. Unfolded(ts, o) \subseteq Groups(ts, o) /\ OpenGroups(ts, o) \subseteq Groups(ts, o)
    BY DEF Unfolded, OpenGroups
  <2>1. CASE \E g \in Groups(ts, o) : g[1] # "list" /\ p = LaneCell(ts, o, g[1])
    <3>1. PICK g \in Groups(ts, o) : g[1] # "list" /\ p = LaneCell(ts, o, g[1])  BY <2>1
    <3>0. /\ Number(Columns(o), g[1]) \in 1..4
          /\ LaneCell(ts, o, g[1])[1] = <<Number(Columns(o), g[1]), 0, 0>>
          /\ LaneCell(ts, o, g[1])[2] \in LaneRows
      BY <3>1, CellsAre, SMTT(30)
    <3>2. /\ Number(Columns(o), g[1]) \in 1..4 /\ p[1] = <<Number(Columns(o), g[1]), 0, 0>>
          /\ p[2] \in LaneRows
      BY <3>0, <3>1
    <3> HIDE DEF K, N
    <3>3. 0 \in 0..K /\ 0 \in 0..N /\ Number(Columns(o), g[1]) \in 0..4  BY <1>1, <3>2
    <3>4. p[1] \in (0..4) \X (0..K) \X (0..N)  BY <3>2, <3>3
    <3> QED  BY <3>2, <3>4 DEF ScreenRow
  <2>2. CASE \E g \in Unfolded(ts, o) : p = HeaderCell(ts, o, g)
    <3>1. PICK g \in Groups(ts, o) : p = HeaderCell(ts, o, g)  BY <2>0, <2>2
    <3>2. /\ Number(Columns(o), g[1]) \in 1..4 /\ Number(GroupOrder(o.axis), g[2]) \in 1..K
          /\ p[1] = <<Number(Columns(o), g[1]), Number(GroupOrder(o.axis), g[2]), 0>>
          /\ p[2] \in HeaderRows
      BY <3>1, CellsAre
    <3> HIDE DEF K, N
    <3> QED  BY <1>1, <3>2 DEF ScreenRow
  <2>3. CASE \E g \in OpenGroups(ts, o) : \E i \in Visible(ts, o, g) : p = TaskCell(ts, o, g, i)
    <3>1. PICK g \in Groups(ts, o) : \E i \in Visible(ts, o, g) : p = TaskCell(ts, o, g, i)
      BY <2>0, <2>3
    <3>2. PICK i \in Visible(ts, o, g) : p = TaskCell(ts, o, g, i)  BY <3>1
    <3>3. i \in 1..N  BY <3>2, VisibleAre
    <3>4. /\ Number(Columns(o), g[1]) \in 1..4 /\ Number(GroupOrder(o.axis), g[2]) \in 1..K
          /\ p[1] = <<Number(Columns(o), g[1]), Number(GroupOrder(o.axis), g[2]), i>>
          /\ p[2] \in TaskRows
      BY <3>2, CellsAre
    <3> HIDE DEF K, N
    <3> QED  BY <1>1, <3>3, <3>4 DEF ScreenRow
  <2> QED  BY <2>1, <2>2, <2>3, PlacedCases
<1>3. \A p, q \in Placed(ts, o) : p[1] = q[1] => p = q  BY PlacesDiffer
<1> HIDE DEF K, N
<1>4. 4 \in Nat  OBVIOUS
<1>5. Tidy(Placed(ts, o))  BY <1>1, <1>2, <1>3, <1>4, TidyWithin
<1> QED  BY <1>2, <1>5
\* What is at each row of the screen.
LEMMA ScreenIs ==
  ASSUME NEW ts, TaskList(ts), NEW o \in Options
  PROVE  LET P == Placed(ts, o)
             n == Cardinality(P)
         IN  /\ n \in Nat /\ Screen(ts, o) \in Seq(ScreenRow)
             /\ DOMAIN Screen(ts, o) = 1..n
             /\ \A k \in 1..n : PlacedAt(P, k) \in P /\ Screen(ts, o)[k] = PlacedAt(P, k)[2]
             /\ \A p \in P : \E k \in 1..n : PlacedAt(P, k) = p
             /\ \A j, k \in 1..n : Before(PlacedAt(P, j)[1], PlacedAt(P, k)[1]) <=> j < k
             /\ \A j, k \in 1..n : PlacedAt(P, j) = PlacedAt(P, k) => j = k
<1> DEFINE P == Placed(ts, o)
           n == Cardinality(P)
<1>1. Tidy(P) /\ \A p \in P : p[2] \in ScreenRow  BY PlacedTidy
<1>2. Screen(ts, o) = Arranged(P)  BY DEF Screen, Placed
<1> HIDE DEF P
<1>3. /\ n \in Nat /\ Screen(ts, o) \in Seq(ScreenRow) /\ DOMAIN Screen(ts, o) = 1..n
      /\ \A k \in 1..n : Screen(ts, o)[k] = PlacedAt(P, k)[2]
  BY <1>1, <1>2, ArrangedIs
<1>4. /\ \A k \in 1..n : PlacedAt(P, k) \in P
      /\ \A p \in P : \E k \in 1..n : PlacedAt(P, k) = p
      /\ \A j, k \in 1..n : Before(PlacedAt(P, j)[1], PlacedAt(P, k)[1]) <=> j < k
  BY <1>1, PlacedAtIs
<1> HIDE DEF n
<1>5. ASSUME NEW j \in 1..n, NEW k \in 1..n, PlacedAt(P, j) = PlacedAt(P, k)
      PROVE  j = k
  <2>1. ~Before(PlacedAt(P, j)[1], PlacedAt(P, j)[1])  BY <1>1, <1>4, BeforeOrders
  <2>2. ~(j < k) /\ ~(k < j)  BY <1>4, <1>5, <2>1
  <2> QED  BY <1>3, <2>2
<1> QED  BY <1>3, <1>4, <1>5 DEF P, n

LEMMA SameGroup ==
  ASSUME NEW ts, TaskList(ts), NEW o \in Options, NEW g \in Groups(ts, o), NEW h \in Groups(ts, o),
         Number(Columns(o), g[1]) = Number(Columns(o), h[1]),
         Number(GroupOrder(o.axis), g[2]) = Number(GroupOrder(o.axis), h[2])
  PROVE  g = h
<1>1. g[1] = h[1]  BY CellsAre
<1>2. g[2] = h[2]  BY CellsAre
<1> QED  BY <1>1, <1>2, GroupsAre

\* Which of the things placed are headers, and which tasks.
LEMMA KindsAre ==
  ASSUME NEW ts, TaskList(ts), NEW o \in Options, NEW p \in Placed(ts, o)
  PROVE  /\ p[2].is = "header" => \E g \in Unfolded(ts, o) : p = HeaderCell(ts, o, g)
         /\ p[2].is = "task" => \E g \in OpenGroups(ts, o) : \E i \in Visible(ts, o, g) :
                                   p = TaskCell(ts, o, g, i)
         /\ p[2].is # "task" => p[1][3] = 0
<1>0. Unfolded(ts, o) \subseteq Groups(ts, o) /\ OpenGroups(ts, o) \subseteq Groups(ts, o)
  BY DEF Unfolded, OpenGroups
<1>1. CASE \E g \in Groups(ts, o) : g[1] # "list" /\ p = LaneCell(ts, o, g[1])
  <2>1. PICK g \in Groups(ts, o) : g[1] # "list" /\ p = LaneCell(ts, o, g[1])  BY <1>1
  <2>2. p[2] \in LaneRows  BY <2>1, CellsAre
  <2>3. p[1] = <<Number(Columns(o), g[1]), 0, 0>>  BY <2>1 DEF LaneCell, LanePlace
  <2>4. p[1][3] = 0  BY <2>3
  <2>5. p[2].is = "lane"  BY <2>2 DEF LaneRows
  <2> QED  BY <2>4, <2>5
<1>2. CASE \E g \in Unfolded(ts, o) : p = HeaderCell(ts, o, g)
  <2>1. PICK g \in Unfolded(ts, o) : p = HeaderCell(ts, o, g)  BY <1>2
  <2>2. p[2] \in HeaderRows  BY <1>0, <2>1, CellsAre
  <2>3. p[1] = <<Number(Columns(o), g[1]), Number(GroupOrder(o.axis), g[2]), 0>>
    BY <2>1 DEF HeaderCell, RowPlace
  <2>4. p[1][3] = 0  BY <2>3
  <2>5. p[2].is = "header"  BY <2>2 DEF HeaderRows
  <2> QED  BY <2>1, <2>4, <2>5
<1>3. CASE \E g \in OpenGroups(ts, o) : \E i \in Visible(ts, o, g) : p = TaskCell(ts, o, g, i)
  <2>1. p[2].is = "task"  BY <1>3 DEF TaskCell, TaskRow
  <2> QED  BY <1>3, <2>1
<1> QED  BY <1>1, <1>2, <1>3, PlacedCases

\* Rows i and k are tasks, and so are all between them.
Joined(v, i, k) == \A j \in (IF k < i THEN k..i ELSE i..k) : OnTask(v, j)

\* No group shows a task twice.
NoTaskTwice(v) == \A i, k \in DOMAIN v : Joined(v, i, k) /\ v[i].task = v[k].task => i = k

LEMMA ScreenTaskOnce ==
  ASSUME NEW ts, TaskList(ts), NEW o \in Options
  PROVE  NoTaskTwice(Screen(ts, o))
<1> DEFINE v == Screen(ts, o)
           P == Placed(ts, o)
           n == Cardinality(P)
           at(k) == PlacedAt(P, k)
<1>1. /\ n \in Nat /\ DOMAIN v = 1..n
      /\ \A k \in 1..n : at(k) \in P /\ v[k] = at(k)[2]
      /\ \A p \in P : \E k \in 1..n : at(k) = p
      /\ \A j, k \in 1..n : Before(at(j)[1], at(k)[1]) <=> j < k
  BY ScreenIs
<1> HIDE DEF v, P, n, at
<1>2. ASSUME NEW i \in 1..n, NEW k \in 1..n, i < k, Joined(v, i, k), v[i].task = v[k].task
      PROVE  FALSE
  <2>1. \A j \in i..k : v[j].is = "task"  BY <1>1, <1>2 DEF Joined, OnTask
  <2>2. v[i].is = "task" /\ v[k].is = "task"  BY <1>1, <1>2, <2>1
  <2>3. PICK g \in OpenGroups(ts, o) : \E a \in Visible(ts, o, g) : at(i) = TaskCell(ts, o, g, a)
    BY <1>1, <2>2, KindsAre DEF P
  <2>4. PICK a \in Visible(ts, o, g) : at(i) = TaskCell(ts, o, g, a)  BY <2>3
  <2>5. PICK h \in OpenGroups(ts, o) : \E b \in Visible(ts, o, h) : at(k) = TaskCell(ts, o, h, b)
    BY <1>1, <2>2, KindsAre DEF P
  <2>6. PICK b \in Visible(ts, o, h) : at(k) = TaskCell(ts, o, h, b)  BY <2>5
  <2>7. g \in Groups(ts, o) /\ h \in Groups(ts, o) /\ h \in Unfolded(ts, o)
    BY DEF OpenGroups, Unfolded
  <2> DEFINE g1 == Number(Columns(o), g[1])
             g2 == Number(GroupOrder(o.axis), g[2])
             h1 == Number(Columns(o), h[1])
             h2 == Number(GroupOrder(o.axis), h[2])
  <2>8. /\ at(i)[1] = <<g1, g2, a>> /\ at(i)[2].task = ts[a] /\ g1 \in Nat /\ g2 \in Nat
        /\ at(k)[1] = <<h1, h2, b>> /\ at(k)[2].task = ts[b] /\ h1 \in Nat /\ h2 \in Nat
    <3>1. g1 \in Nat /\ g2 \in Nat  BY <2>7, CellsAre, GroupOrderIs
    <3>2. h1 \in Nat /\ h2 \in Nat  BY <2>7, CellsAre, GroupOrderIs
    <3>3. at(i)[1] = <<g1, g2, a>> /\ at(i)[2].task = ts[a]  BY <2>4, <2>7, CellsAre
    <3>4. at(k)[1] = <<h1, h2, b>> /\ at(k)[2].task = ts[b]  BY <2>6, <2>7, CellsAre
    <3> QED  BY <3>1, <3>2, <3>3, <3>4
  <2>9. a \in 1..Len(ts) /\ b \in 1..Len(ts) /\ a \in DOMAIN ts /\ b \in DOMAIN ts
        /\ Len(ts) \in Nat
    BY VisibleAre
  <2>10. a = b
    <3>1. ts[a] = ts[b]  BY <1>1, <1>2, <2>8
    <3> QED  BY <2>9, <3>1 DEF TaskList, IsInjective
  <2>11. HeaderCell(ts, o, h)[1] = <<h1, h2, 0>>  BY DEF HeaderCell, RowPlace
  <2>12. HeaderCell(ts, o, h)[2].is = "header"  BY DEF HeaderCell, HeaderRow
  <2>13. PICK m \in 1..n : at(m) = HeaderCell(ts, o, h)  BY <1>1, <2>7, PlacedHas DEF P
  <2> HIDE DEF g1, g2, h1, h2
  <2>14. Before(at(i)[1], at(k)[1])  BY <1>1, <1>2
  <2>15. Before(<<g1, g2, a>>, <<h1, h2, a>>)  BY <2>8, <2>10, <2>14
  <2>16. a \in Nat /\ 0 < a  BY <2>9
  <2>17. Before(<<g1, g2, a>>, <<h1, h2, 0>>) /\ Before(<<h1, h2, 0>>, <<h1, h2, a>>)
    BY <2>8, <2>15, <2>16 DEF Before
  <2>18. Before(at(i)[1], at(m)[1]) /\ Before(at(m)[1], at(k)[1])
    BY <2>8, <2>10, <2>11, <2>13, <2>17
  <2>19. i < m /\ m < k  BY <1>1, <2>18
  <2>20. v[m].is = "header"  BY <1>1, <2>12, <2>13
  <2>21. m \in i..k  BY <1>1, <2>19
  <2> QED  BY <2>1, <2>20, <2>21
<1>3. ASSUME NEW i \in 1..n, NEW k \in 1..n, Joined(v, i, k), v[i].task = v[k].task
      PROVE  i = k
  <2>1. CASE i < k  BY <1>2, <1>3, <2>1
  <2>2. CASE k < i
    <3>1. Joined(v, k, i)  BY <1>1, <1>3, <2>2 DEF Joined
    <3> QED  BY <1>2, <1>3, <2>2, <3>1
  <2> QED  BY <1>1, <2>1, <2>2
<1> QED  BY <1>1, <1>3 DEF NoTaskTwice, v
-----------------------------------------------------------------------------
\* Nothing is lost: the parts of ScreenIsComplete, of any view, list and options.

SeenBy(r, o) ==
    IF ~o.board THEN {scope \in {"list"} : Passes(r, o)}
    ELSE {ch \in Range(Lanes) : ch = LaneOf(r.char) /\ Passes(r, [o EXCEPT !.filter = "all"])}

Due(ts, o) ==
    {q \in UNION {(SeenBy(r, o) \X GroupKeys(r, o.axis)) \X {r} : r \in Range(ts)} :
        o.board => q[1][1] \notin o.folded}
DueOpen(ts, o) == {q \in Due(ts, o) : q[1] \in o.expanded}

HeaderAbove(v, i) ==
    {h \in 1..i : v[h].is = "header" /\ \A k \in (h + 1)..i : v[k].is # "header"}

TaskRowsOf(v) == {i \in DOMAIN v : v[i].is = "task"}

Complete(v, ts, o) ==
    /\ {v[i].key : i \in {k \in DOMAIN v : v[k].is = "header"}} = {q[1] : q \in Due(ts, o)}
    /\ \A q \in DueOpen(ts, o) :
          \E i \in DOMAIN v : v[i] = TaskRow(q[2]) /\ \E h \in HeaderAbove(v, i) : v[h].key = q[1]
    /\ Cardinality(TaskRowsOf(v)) = Cardinality(DueOpen(ts, o))

LEMMA CompleteIs == ScreenIsComplete <=> Complete(view, tasks, opts)
  BY DEF ScreenIsComplete, Complete, Due, DueOpen, SeenBy, Places, SeenIn, HeaderAbove, HeaderOf,
         HeadersShown, TaskRowsOf

\* What is due is what the groups on the screen show.
LEMMA DueIs ==
  ASSUME NEW ts, TaskList(ts), NEW o \in Options, NEW q
  PROVE  q \in Due(ts, o) <=>
            \E g \in Unfolded(ts, o) : \E i \in Visible(ts, o, g) : q = <<g, ts[i]>>
<1>1. "list" \notin o.folded /\ Range(Columns(o)) = (IF o.board THEN Range(Lanes) ELSE {"list"})
      /\ "list" \notin Range(Lanes)
  BY ColumnsAre, ListsAre
<1>2. \A i \in DOMAIN ts : ts[i] \in Row /\ ts[i].text.name \in Names  BY DEF TaskList
<1>3. \A i \in DOMAIN ts : GroupKeys(ts[i], o.axis) \subseteq Keys
  <2>1. o.axis \in Range(Axes)  BY DEF Options
  <2> QED  BY <1>2, <2>1, GroupKeysType
<1>4. \A i \in DOMAIN ts : \A s \in Range(Columns(o)) :
         s \in SeenBy(ts[i], o) <=> InScope(ts[i], s) /\ Passes(ts[i], Filtered(o))
  <2>1. CASE o.board  BY <1>1, <2>1 DEF SeenBy, InScope, Filtered
  <2>2. CASE ~o.board  BY <1>1, <2>2 DEF SeenBy, InScope, Filtered
  <2> QED  BY <2>1, <2>2
<1>5. \A i \in DOMAIN ts : SeenBy(ts[i], o) \subseteq Range(Columns(o))
  BY <1>1 DEF SeenBy
<1>6. ASSUME NEW g \in Unfolded(ts, o), NEW i \in Visible(ts, o, g), q = <<g, ts[i]>>
      PROVE  q \in Due(ts, o)
  <2>1. g \in Groups(ts, o) /\ g[1] \notin o.folded  BY DEF Unfolded
  <2>2. g \in Range(Columns(o)) \X Keys  BY <2>1, GroupHasVisible
  <2>3. i \in DOMAIN ts /\ InScope(ts[i], g[1]) /\ g[2] \in GroupKeys(ts[i], o.axis)
        /\ Passes(ts[i], Filtered(o))
    BY DEF Visible, Members
  <2>4. g[1] \in SeenBy(ts[i], o)  BY <1>4, <2>2, <2>3
  <2>5. g \in SeenBy(ts[i], o) \X GroupKeys(ts[i], o.axis)  BY <2>2, <2>3, <2>4
  <2>6. ts[i] \in Range(ts)  BY <2>3 DEF Range
  <2> QED  BY <1>6, <2>1, <2>5, <2>6 DEF Due
<1>7. ASSUME q \in Due(ts, o)
      PROVE  \E g \in Unfolded(ts, o) : \E i \in Visible(ts, o, g) : q = <<g, ts[i]>>
  <2>1. PICK r \in Range(ts) : q \in (SeenBy(r, o) \X GroupKeys(r, o.axis)) \X {r}
    BY <1>7 DEF Due
  <2>2. PICK i \in DOMAIN ts : r = ts[i]  BY DEF Range
  <2> DEFINE g == q[1]
  <2>3. q = <<g, ts[i]>> /\ g[1] \in SeenBy(ts[i], o) /\ g[2] \in GroupKeys(ts[i], o.axis)
        /\ g = <<g[1], g[2]>>
    BY <2>1, <2>2
  <2>4. g \in Range(Columns(o)) \X Keys  BY <1>3, <1>5, <2>3
  <2>5. i \in Visible(ts, o, g)  BY <1>4, <2>2, <2>3, <2>4 DEF Visible, Members
  <2>6. g \in Groups(ts, o)  BY <2>4, <2>5, GroupHasVisible
  <2>7. g[1] \notin o.folded
    <3>1. o.board => g[1] \notin o.folded  BY <1>7 DEF Due
    <3>2. ~o.board => g[1] = "list"  BY <1>1, <2>4
    <3> QED  BY <1>1, <3>1, <3>2
  <2>8. g \in Unfolded(ts, o)  BY <2>6, <2>7 DEF Unfolded
  <2> QED  BY <2>3, <2>5, <2>8
<1> QED  BY <1>6, <1>7
\* The header of a group is right above its tasks.
LEMMA ScreenHeaders ==
  ASSUME NEW ts, TaskList(ts), NEW o \in Options, NEW g \in OpenGroups(ts, o), NEW a \in Visible(ts, o, g),
         NEW i \in DOMAIN Screen(ts, o),
         PlacedAt(Placed(ts, o), i) = TaskCell(ts, o, g, a)
  PROVE  \E h \in HeaderAbove(Screen(ts, o), i) : Screen(ts, o)[h].key = g
<1> DEFINE v == Screen(ts, o)
           P == Placed(ts, o)
           n == Cardinality(P)
           at(k) == PlacedAt(P, k)
           g1 == Number(Columns(o), g[1])
           g2 == Number(GroupOrder(o.axis), g[2])
<1>1. /\ n \in Nat /\ DOMAIN v = 1..n
      /\ \A k \in 1..n : at(k) \in P /\ v[k] = at(k)[2]
      /\ \A p \in P : \E k \in 1..n : at(k) = p
      /\ \A j, k \in 1..n : Before(at(j)[1], at(k)[1]) <=> j < k
      /\ \A j, k \in 1..n : at(j) = at(k) => j = k
  BY ScreenIs
<1>2. at(i) = TaskCell(ts, o, g, a) /\ i \in 1..n  BY <1>1
<1>3. g \in Groups(ts, o) /\ g \in Unfolded(ts, o)  BY DEF OpenGroups, Unfolded
<1>4. g1 \in Nat /\ g2 \in Nat  BY <1>3, CellsAre, GroupOrderIs
<1>5. a \in Nat /\ 0 < a  BY VisibleAre
<1>6. \A p \in P : p[1] \in Nat \X Nat \X Nat  BY PlacedTidy DEF Tidy
<1>7. TaskCell(ts, o, g, a)[1] = <<g1, g2, a>>  BY DEF TaskCell, RowPlace
<1>8. HeaderCell(ts, o, g)[1] = <<g1, g2, 0>>  BY DEF HeaderCell, RowPlace
<1>9. HeaderCell(ts, o, g)[2].is = "header" /\ HeaderCell(ts, o, g)[2].key = g
  BY DEF HeaderCell, HeaderRow
<1>10. \A p \in P : p[2].is # "task" => p[1][3] = 0  BY KindsAre
<1>11. PICK h \in 1..n : at(h) = HeaderCell(ts, o, g)
  <2>1. HeaderCell(ts, o, g) \in P  BY <1>3, PlacedHas
  <2> HIDE DEF P, n, at
  <2> QED  BY <1>1, <2>1
<1> HIDE DEF v, P, n, at, g1, g2
<1>12. Before(at(h)[1], at(i)[1])  BY <1>2, <1>4, <1>5, <1>7, <1>8, <1>11 DEF Before
<1>13. h < i  BY <1>1, <1>2, <1>12
<1>14. v[h].is = "header" /\ v[h].key = g  BY <1>1, <1>9, <1>11
<1>15. ASSUME NEW k \in (h + 1)..i PROVE v[k].is # "header"
  <2>1. k \in 1..n /\ h < k /\ (k < i \/ k = i)  BY <1>1, <1>2
  <2>2. Before(at(h)[1], at(k)[1])  BY <1>1, <2>1
  <2>3. Before(at(k)[1], at(i)[1]) \/ k = i  BY <1>1, <1>2, <2>1
  <2>4. PICK x \in Nat, y \in Nat, z \in Nat : at(k)[1] = <<x, y, z>>  BY <1>1, <1>6, <2>1
  <2>5. Before(<<g1, g2, 0>>, <<x, y, z>>)  BY <1>8, <1>11, <2>2, <2>4
  <2>6. Before(<<x, y, z>>, <<g1, g2, a>>) \/ <<x, y, z>> = <<g1, g2, a>>
    BY <1>2, <1>7, <2>3, <2>4
  <2>7. z # 0  BY <1>4, <1>5, <2>5, <2>6 DEF Before
  <2>8. at(k)[1][3] # 0  BY <2>4, <2>7
  <2>9. v[k].is = "task"  BY <1>1, <1>10, <2>1, <2>8
  <2> QED  BY <2>9
<1>16. h \in HeaderAbove(v, i)  BY <1>1, <1>2, <1>13, <1>14, <1>15 DEF HeaderAbove
<1> QED  BY <1>14, <1>16 DEF v

LEMMA ScreenCounts ==
  ASSUME NEW ts, TaskList(ts), NEW o \in Options
  PROVE  Cardinality(TaskRowsOf(Screen(ts, o))) = Cardinality(DueOpen(ts, o))
<1> DEFINE v == Screen(ts, o)
           P == Placed(ts, o)
           n == Cardinality(P)
           at(k) == PlacedAt(P, k)
           K == TaskRowsOf(v)
           D == DueOpen(ts, o)
           Spot(q, k) == \E g \in OpenGroups(ts, o) : \E i \in Visible(ts, o, g) :
                            q = <<g, ts[i]>> /\ at(k) = TaskCell(ts, o, g, i)
           f == [q \in D |-> CHOOSE k \in K : Spot(q, k)]
<1>1. /\ n \in Nat /\ DOMAIN v = 1..n
      /\ \A k \in 1..n : at(k) \in P /\ v[k] = at(k)[2]
      /\ \A p \in P : \E k \in 1..n : at(k) = p
      /\ \A j, k \in 1..n : at(j) = at(k) => j = k
  BY ScreenIs
<1>2. IsFiniteSet(K)
  <2>1. IsFiniteSet(DOMAIN v)  BY <1>1, FS_Interval
  <2>2. K \in SUBSET DOMAIN v  BY DEF TaskRowsOf
  <2> QED  BY <2>1, <2>2, FS_Subset
<1>3. \A q : q \in D <=> \E g \in OpenGroups(ts, o) : \E i \in Visible(ts, o, g) : q = <<g, ts[i]>>
  BY DueIs DEF DueOpen, OpenGroups
<1>4. \A g \in OpenGroups(ts, o) : \A i \in Visible(ts, o, g) : TaskCell(ts, o, g, i) \in P
  BY PlacedHas
<1>5. \A p \in P : p[2].is = "task" => \E g \in OpenGroups(ts, o) : \E i \in Visible(ts, o, g) :
                                          p = TaskCell(ts, o, g, i)
  BY KindsAre
<1>6. \A g \in OpenGroups(ts, o) : \A i \in Visible(ts, o, g) : TaskCell(ts, o, g, i)[2].is = "task"
  BY DEF TaskCell, TaskRow
<1>7. \A i, j \in DOMAIN ts : ts[i] = ts[j] => i = j  BY DEF TaskList, IsInjective
<1>8. ASSUME NEW g \in OpenGroups(ts, o), NEW i \in Visible(ts, o, g),
             NEW h \in OpenGroups(ts, o), NEW j \in Visible(ts, o, h),
             TaskCell(ts, o, g, i) = TaskCell(ts, o, h, j)
      PROVE  g = h /\ i = j
  <2>1. g \in Groups(ts, o) /\ h \in Groups(ts, o)  BY DEF OpenGroups, Unfolded
  <2>2. <<Number(Columns(o), g[1]), Number(GroupOrder(o.axis), g[2]), i>>
        = <<Number(Columns(o), h[1]), Number(GroupOrder(o.axis), h[2]), j>>
    BY <1>8 DEF TaskCell, RowPlace
  <2>3. /\ Number(Columns(o), g[1]) = Number(Columns(o), h[1])
        /\ Number(GroupOrder(o.axis), g[2]) = Number(GroupOrder(o.axis), h[2])
        /\ i = j
    BY <2>2
  <2> QED  BY <2>1, <2>3, SameGroup
<1>9. \A g \in OpenGroups(ts, o) : \A i \in Visible(ts, o, g) : i \in DOMAIN ts  BY VisibleAre
<1>10. \A k \in K : k \in 1..n /\ v[k].is = "task"  BY <1>1 DEF TaskRowsOf
<1>11. \A k \in 1..n : v[k].is = "task" => k \in K  BY <1>1 DEF TaskRowsOf
<1> HIDE DEF v, P, n, at, K, D
<1>12. \A q \in D : \E k \in K : Spot(q, k)
  <2> SUFFICES ASSUME NEW q \in D PROVE \E k \in K : Spot(q, k)  OBVIOUS
  <2>1. PICK g \in OpenGroups(ts, o) : \E i \in Visible(ts, o, g) : q = <<g, ts[i]>>  BY <1>3
  <2>2. PICK i \in Visible(ts, o, g) : q = <<g, ts[i]>>  BY <2>1
  <2>3. PICK k \in 1..n : at(k) = TaskCell(ts, o, g, i)  BY <1>1, <1>4
  <2>4. k \in K  BY <1>1, <1>6, <1>11, <2>3
  <2> QED  BY <2>2, <2>3, <2>4
<1>13. \A k \in K : \E q \in D : Spot(q, k)
  <2> SUFFICES ASSUME NEW k \in K PROVE \E q \in D : Spot(q, k)  OBVIOUS
  <2>1. at(k) \in P /\ at(k)[2].is = "task"  BY <1>1, <1>10
  <2>2. PICK g \in OpenGroups(ts, o) : \E i \in Visible(ts, o, g) : at(k) = TaskCell(ts, o, g, i)
    BY <1>5, <2>1
  <2>3. PICK i \in Visible(ts, o, g) : at(k) = TaskCell(ts, o, g, i)  BY <2>2
  <2>4. <<g, ts[i]>> \in D  BY <1>3, <2>3
  <2> QED  BY <2>3, <2>4
<1>14. \A p, q \in D : \A k \in K : Spot(p, k) /\ Spot(q, k) => p = q
  <2> SUFFICES ASSUME NEW p \in D, NEW q \in D, NEW k \in K, Spot(p, k), Spot(q, k) PROVE p = q
    OBVIOUS
  <2>1. PICK g \in OpenGroups(ts, o) : \E i \in Visible(ts, o, g) :
          p = <<g, ts[i]>> /\ at(k) = TaskCell(ts, o, g, i)
    OBVIOUS
  <2>1a. PICK i \in Visible(ts, o, g) :
           p = <<g, ts[i]>> /\ at(k) = TaskCell(ts, o, g, i)
    BY <2>1
  <2>2. PICK h \in OpenGroups(ts, o) : \E j \in Visible(ts, o, h) :
          q = <<h, ts[j]>> /\ at(k) = TaskCell(ts, o, h, j)
    OBVIOUS
  <2>2a. PICK j \in Visible(ts, o, h) :
           q = <<h, ts[j]>> /\ at(k) = TaskCell(ts, o, h, j)
    BY <2>2
  <2>3. TaskCell(ts, o, g, i) = TaskCell(ts, o, h, j)  BY <2>1a, <2>2a
  <2>4. g = h /\ i = j  BY <1>8, <2>3
  <2> QED  BY <2>1a, <2>2a, <2>4
<1>15. \A q \in D : \A j, k \in K : Spot(q, j) /\ Spot(q, k) => j = k
  <2> SUFFICES ASSUME NEW q \in D, NEW j \in K, NEW k \in K, Spot(q, j), Spot(q, k) PROVE j = k
    OBVIOUS
  <2>1. PICK g \in OpenGroups(ts, o) : \E a \in Visible(ts, o, g) :
          q = <<g, ts[a]>> /\ at(j) = TaskCell(ts, o, g, a)
    OBVIOUS
  <2>1a. PICK a \in Visible(ts, o, g) :
           q = <<g, ts[a]>> /\ at(j) = TaskCell(ts, o, g, a)
    BY <2>1
  <2>2. PICK h \in OpenGroups(ts, o) : \E b \in Visible(ts, o, h) :
          q = <<h, ts[b]>> /\ at(k) = TaskCell(ts, o, h, b)
    OBVIOUS
  <2>2a. PICK b \in Visible(ts, o, h) :
           q = <<h, ts[b]>> /\ at(k) = TaskCell(ts, o, h, b)
    BY <2>2
  <2>3. g = h /\ ts[a] = ts[b]  BY <2>1a, <2>2a
  <2>4. a = b  BY <1>7, <1>9, <2>3
  <2>5. at(j) = at(k)  BY <2>1a, <2>2a, <2>3, <2>4
  <2> QED  BY <1>1, <1>10, <2>5
<1> HIDE DEF Spot
<1>16. \A q \in D : f[q] \in K /\ Spot(q, f[q])  BY <1>12
<1>17. f \in [D -> K]  BY <1>16
<1>18. \A p, q \in D : f[p] = f[q] => p = q
  <2> HIDE DEF f
  <2> QED  BY <1>14, <1>16
<1>19. \A k \in K : \E q \in D : f[q] = k
  <2> HIDE DEF f
  <2> QED  BY <1>13, <1>15, <1>16
<1> HIDE DEF f
<1>20. f \in Injection(D, K) /\ f \in Surjection(D, K)  BY <1>17, <1>18, <1>19, Fun_IsInj, Fun_IsSurj
<1>21. Cardinality(D) = Cardinality(K)  BY <1>2, <1>20, FS_Injection
<1> QED  BY <1>21 DEF K, D, v

LEMMA ScreenComplete ==
  ASSUME NEW ts, TaskList(ts), NEW o \in Options
  PROVE  Complete(Screen(ts, o), ts, o)
<1> DEFINE v == Screen(ts, o)
           P == Placed(ts, o)
           n == Cardinality(P)
           at(k) == PlacedAt(P, k)
<1>1. /\ n \in Nat /\ DOMAIN v = 1..n
      /\ \A k \in 1..n : at(k) \in P /\ v[k] = at(k)[2]
      /\ \A p \in P : \E k \in 1..n : at(k) = p
  BY ScreenIs
<1>2. \A q : q \in Due(ts, o) <=>
                \E g \in Unfolded(ts, o) : \E i \in Visible(ts, o, g) : q = <<g, ts[i]>>
  BY DueIs
<1>3. \A q : q \in DueOpen(ts, o) <=>
                \E g \in OpenGroups(ts, o) : \E i \in Visible(ts, o, g) : q = <<g, ts[i]>>
  BY DueIs DEF DueOpen, OpenGroups
<1>4. \A g \in Unfolded(ts, o) : /\ HeaderCell(ts, o, g)[2].is = "header"
                                 /\ HeaderCell(ts, o, g)[2].key = g
                                 /\ HeaderCell(ts, o, g) \in P
                                 /\ Visible(ts, o, g) # {}
  <2>1. \A g \in Unfolded(ts, o) : Visible(ts, o, g) # {}  BY GroupHasVisible DEF Unfolded
  <2> QED  BY <2>1, PlacedHas DEF HeaderCell, HeaderRow
<1>5. \A p \in P : p[2].is = "header" => \E g \in Unfolded(ts, o) : p = HeaderCell(ts, o, g)
  BY KindsAre
<1>6. ASSUME NEW g \in OpenGroups(ts, o), NEW i \in Visible(ts, o, g)
      PROVE  \E k \in DOMAIN v : /\ v[k] = TaskRow(ts[i])
                                 /\ \E h \in HeaderAbove(v, k) : v[h].key = g
  <2>1. TaskCell(ts, o, g, i) \in P /\ TaskCell(ts, o, g, i)[2] = TaskRow(ts[i])
    BY PlacedHas DEF TaskCell
  <2>2. PICK k \in 1..n : at(k) = TaskCell(ts, o, g, i)
    <3> HIDE DEF n, at, P
    <3> QED  BY <1>1, <2>1
  <2>3. k \in DOMAIN v  BY <1>1
  <2>4. \E h \in HeaderAbove(v, k) : v[h].key = g  BY <2>2, <2>3, ScreenHeaders
  <2>5. v[k] = TaskRow(ts[i])  BY <1>1, <2>1, <2>2
  <2> QED  BY <2>3, <2>4, <2>5
<1> HIDE DEF v, P, n, at
<1>7. {v[k].key : k \in {i \in DOMAIN v : v[i].is = "header"}} = {q[1] : q \in Due(ts, o)}
  <2>1. ASSUME NEW k \in DOMAIN v, v[k].is = "header"
        PROVE  \E q \in Due(ts, o) : q[1] = v[k].key
    <3>1. PICK g \in Unfolded(ts, o) : at(k) = HeaderCell(ts, o, g)  BY <1>1, <1>5, <2>1
    <3>2. v[k].key = g  BY <1>1, <1>4, <3>1
    <3>3. PICK i \in Visible(ts, o, g) : TRUE  BY <1>4
    <3>4. <<g, ts[i]>> \in Due(ts, o)  BY <1>2, <3>3
    <3> QED  BY <3>2, <3>4
  <2>2. ASSUME NEW q \in Due(ts, o)
        PROVE  \E k \in DOMAIN v : v[k].is = "header" /\ v[k].key = q[1]
    <3>1. PICK g \in Unfolded(ts, o) : \E i \in Visible(ts, o, g) : q = <<g, ts[i]>>  BY <1>2
    <3>2. q[1] = g  BY <3>1
    <3>3. PICK k \in 1..n : at(k) = HeaderCell(ts, o, g)  BY <1>1, <1>4
    <3> QED  BY <1>1, <1>4, <3>2, <3>3
  <2> QED  BY <2>1, <2>2
<1>8. ASSUME NEW q \in DueOpen(ts, o)
      PROVE  \E k \in DOMAIN v : v[k] = TaskRow(q[2]) /\ \E h \in HeaderAbove(v, k) : v[h].key = q[1]
  <2>1. PICK g \in OpenGroups(ts, o) : \E i \in Visible(ts, o, g) : q = <<g, ts[i]>>  BY <1>3
  <2>2. PICK i \in Visible(ts, o, g) : q = <<g, ts[i]>>  BY <2>1
  <2>3. q[1] = g /\ q[2] = ts[i]  BY <2>2
  <2> QED  BY <1>6, <2>3
<1>9. Cardinality(TaskRowsOf(v)) = Cardinality(DueOpen(ts, o))  BY ScreenCounts DEF v
<1> QED  BY <1>7, <1>8, <1>9 DEF Complete, v
-----------------------------------------------------------------------------
\* The view of a session: rows of tasks of the list, none twice in a group, all that are due.

GoodView(v, ts, o) ==
    /\ v \in Seq(ScreenRow)
    /\ \A i \in TaskRowsOf(v) : v[i].task \in Range(ts)
    /\ NoTaskTwice(v)
    /\ Complete(v, ts, o)

LEMMA ScreenIsGood ==
  ASSUME NEW ts, TaskList(ts), NEW o \in Options
  PROVE  GoodView(Screen(ts, o), ts, o)
<1> DEFINE v == Screen(ts, o)
           P == Placed(ts, o)
           n == Cardinality(P)
           at(k) == PlacedAt(P, k)
<1>1. /\ n \in Nat /\ v \in Seq(ScreenRow) /\ DOMAIN v = 1..n
      /\ \A k \in 1..n : at(k) \in P /\ v[k] = at(k)[2]
  BY ScreenIs
<1>2. ASSUME NEW i \in TaskRowsOf(v) PROVE v[i].task \in Range(ts)
  <2>1. i \in 1..n /\ v[i].is = "task"  BY <1>1 DEF TaskRowsOf
  <2>2. at(i) \in P /\ at(i)[2].is = "task" /\ v[i] = at(i)[2]  BY <1>1, <2>1
  <2>3. PICK g \in OpenGroups(ts, o) : \E a \in Visible(ts, o, g) : at(i) = TaskCell(ts, o, g, a)
    BY <2>2, KindsAre
  <2>4. PICK a \in Visible(ts, o, g) : at(i) = TaskCell(ts, o, g, a)  BY <2>3
  <2>5. v[i].task = ts[a]  BY <2>2, <2>4 DEF TaskCell, TaskRow
  <2>6. a \in DOMAIN ts  BY VisibleAre
  <2> QED  BY <2>5, <2>6 DEF Range
<1>3. NoTaskTwice(v)  BY ScreenTaskOnce
<1>4. Complete(v, ts, o)  BY ScreenComplete
<1> QED  BY <1>1, <1>2, <1>3, <1>4 DEF GoodView

ViewInv ==
    /\ IsFiniteSet(rows) /\ Snapshot(rows, nextId)
    /\ \A r \in rows : r.text.name \in Names
    /\ TaskList(tasks) /\ Snapshot(Range(tasks), nextId)
    /\ GoodView(view, tasks, opts)

LEMMA OnTaskIs ==
  ASSUME NEW v, v \in Seq(ScreenRow), NEW i \in DOMAIN v
  PROVE  OnTask(v, i) <=> v[i].is = "task"
  BY DEF OnTask

LEMMA InitialView ==
  /\ InitialOptions \in Options
  /\ TaskList(<<>>)
  /\ GoodView(<<>>, <<>>, InitialOptions)
<1>1. InitialOptions \in Options
  BY ListsAre, ViewAssumption DEF InitialOptions, Options, Scopes
<1>2. DOMAIN <<>> = {} /\ \A S : <<>> \in Seq(S)  OBVIOUS
<1>3. TaskList(<<>>)  BY <1>2 DEF TaskList, IsInjective
<1>4. Range(<<>>) = {}  BY <1>2 DEF Range
<1>5. Due(<<>>, InitialOptions) = {} /\ DueOpen(<<>>, InitialOptions) = {}
  BY <1>4 DEF Due, DueOpen
<1>6. TaskRowsOf(<<>>) = {}  BY <1>2 DEF TaskRowsOf
<1>7. Complete(<<>>, <<>>, InitialOptions)  BY <1>2, <1>5, <1>6 DEF Complete
<1>8. NoTaskTwice(<<>>)  BY <1>2 DEF NoTaskTwice
<1> QED  BY <1>1, <1>2, <1>3, <1>6, <1>7, <1>8 DEF GoodView

\* The keys that show the list anew leave options behind.
LEMMA KeysKeepOptions ==
  ASSUME TuiTypeOK, GoodView(view, tasks, opts)
  PROVE  /\ [opts EXCEPT !.filter = After(Filters, opts.filter)] \in Options
         /\ [opts EXCEPT !.axis = After(Axes, opts.axis)] \in Options
         /\ [opts EXCEPT !.today = ~opts.today] \in Options
         /\ [opts EXCEPT !.overdue = ~opts.overdue] \in Options
         /\ [opts EXCEPT !.board = ~opts.board] \in Options
         /\ \A i \in DOMAIN view : view[i].is = "header" =>
               /\ [opts EXCEPT !.expanded = opts.expanded \cup {view[i].key}] \in Options
               /\ [opts EXCEPT !.expanded = opts.expanded \ {view[i].key}] \in Options
         /\ \A i \in DOMAIN view : view[i].is = "lane" =>
               /\ [opts EXCEPT !.folded = opts.folded \cup {view[i].key}] \in Options
               /\ [opts EXCEPT !.folded = opts.folded \ {view[i].key}] \in Options
         /\ [opts EXCEPT !.expanded = opts.expanded \cup HeadersShown] \in Options
         /\ [opts EXCEPT !.expanded = {}] \in Options
         /\ \A q \in Queries : [opts EXCEPT !.query = q] \in Options
         /\ \A q \in FileQueries : [opts EXCEPT !.fileQuery = q] \in Options
<1>1. opts \in Options  BY DEF TuiTypeOK
<1>2. After(Filters, opts.filter) \in Range(Filters) /\ After(Axes, opts.axis) \in Range(Axes)
  BY <1>1, AfterIs, ListsAre DEF Options
<1>3. \A i \in DOMAIN view : /\ view[i].is = "header" => view[i].key \in Scopes \X Keys
                             /\ view[i].is = "lane" => view[i].key \in Range(Lanes)
  BY DEF GoodView, ScreenRow, HeaderRows, LaneRows, TaskRows
<1>4. HeadersShown \subseteq Scopes \X Keys  BY <1>3 DEF HeadersShown
<1> QED  BY <1>1, <1>2, <1>3, <1>4 DEF Options
-----------------------------------------------------------------------------
\* The steps, by what they do to the screen, to the keys' addressee and to the tracked actions.

LEMMA NextCases ==
  ASSUME [Next]_vars
  PROVE  \/ UNCHANGED vars
         \/ (\E n \in Notes : Scan(n)) /\ sent' = {}
         \/ (Answer("done") \/ Answer("failed") \/ OtherClient) /\ sent' = {}
         \/ Refresh /\ sent' = {}
         \/ ViewKeys /\ sent' = {}
         \/ ModalKeys /\ sent' = {}
         \/ Asking
  BY DEF Next, Environment

\* What is on the screen stays, is made anew, or is what the user moves in.
LEMMA ScreenSteps ==
  ASSUME TuiTypeOK, GoodView(view, tasks, opts), [Next]_vars
  PROVE  \/ UNCHANGED screen
         \/ Refresh
         \/ mode # "move" /\ \E o \in Options : Rebuild(tasks, o)
         \/ MoveCursor(-1) \/ MoveCursor(1)
         \/ MoveTask(-1) \/ MoveTask(1)
         \/ CancelMove
<1>1. CASE UNCHANGED vars  BY <1>1 DEF vars
<1>2. CASE \E n \in Notes : Scan(n)  BY <1>2 DEF Scan
<1>3. CASE Answer("done") \/ Answer("failed") \/ OtherClient  BY <1>3 DEF Answer, OtherClient
<1>4. CASE ViewKeys
  <2> DEFINE Anew == mode # "move" /\ \E o \in Options : Rebuild(tasks, o)
  <2>1. ASSUME NEW o \in Options, Show(o) PROVE Anew  BY <2>1 DEF Show, Key
  <2>2. ASSUME CycleFilter \/ CycleGroup \/ ToggleToday \/ ToggleOverdue \/ ToggleBoard
        PROVE  Anew
    <3> HIDE DEF Anew
    <3> QED  BY <2>1, <2>2, KeysKeepOptions
             DEF CycleFilter, CycleGroup, ToggleToday, ToggleOverdue, ToggleBoard
  <2>3. ASSUME NEW open \in BOOLEAN, FoldGroup(open) PROVE Anew
    <3>1. PICK h \in HeaderOf(sel) :
            Show([opts EXCEPT !.expanded = IF open THEN opts.expanded \cup {view[h].key}
                                                   ELSE opts.expanded \ {view[h].key}])
      BY <2>3 DEF FoldGroup
    <3>2. sel \in DOMAIN view /\ DOMAIN view = 1..Len(view) /\ Len(view) \in Nat
      BY <2>3 DEF FoldGroup, TuiTypeOK, GoodView
    <3>3. h \in DOMAIN view /\ view[h].is = "header"  BY <3>2 DEF HeaderOf
    <3> HIDE DEF Anew
    <3>4. CASE open  BY <2>1, <3>1, <3>3, <3>4, KeysKeepOptions
    <3>5. CASE ~open  BY <2>1, <3>1, <3>3, <3>5, KeysKeepOptions
    <3> QED  BY <3>4, <3>5
  <2>4. ASSUME NEW open \in BOOLEAN, FoldLane(open) PROVE Anew
    <3>1. Show([opts EXCEPT !.folded = IF open THEN opts.folded \ {view[sel].key}
                                              ELSE opts.folded \cup {view[sel].key}])
          /\ view[sel].is = "lane"
      BY <2>4 DEF FoldLane
    <3>2. sel \in DOMAIN view
      BY <2>4 DEF FoldLane, TuiTypeOK, GoodView
    <3> HIDE DEF Anew
    <3>4. CASE open  BY <2>1, <3>1, <3>2, <3>4, KeysKeepOptions
    <3>5. CASE ~open  BY <2>1, <3>1, <3>2, <3>5, KeysKeepOptions
    <3> QED  BY <3>4, <3>5
  <2>5. ASSUME ExpandAll \/ CollapseAll PROVE Anew
    <3> HIDE DEF Anew
    <3> QED  BY <2>1, <2>5, KeysKeepOptions DEF ExpandAll, CollapseAll
  <2>6. CASE EditQuery \/ ClearSearch
    <3>1. NoQuery \in Queries /\ NoQuery \in FileQueries  BY ViewAssumption
    <3>2. /\ \A q \in Queries : [opts EXCEPT !.query = q] \in Options
          /\ \A q \in FileQueries : [opts EXCEPT !.fileQuery = q] \in Options
      BY KeysKeepOptions
    <3>3. CASE EditQuery  BY <3>2, <3>3 DEF EditQuery, Key
    <3>4. CASE ClearSearch  BY <3>1, <3>2, <3>4 DEF ClearSearch, Key
    <3> QED  BY <2>6, <3>3, <3>4
  <2>7. CASE StartSearch  BY <2>7 DEF StartSearch
  <2> QED  BY <1>4, <2>2, <2>3, <2>4, <2>5, <2>6, <2>7 DEF ViewKeys
<1>5. CASE ModalKeys
  BY <1>5 DEF ModalKeys, StartQuickAdd, StartNote, Close, StartMove, RefuseMove, EndMove,
              RefuseArchive, Refuse
<1>6. CASE Asking
  BY <1>6 DEF Asking, Flip, ToggleBullet, MarkForToday, Undo, SubmitQuickAdd, SubmitNote,
              CommitMove, ArchiveCompleted, Ask, AskOnce, Enqueue
<1> QED  BY <1>1, <1>2, <1>3, <1>4, <1>5, <1>6, NextCases

LEMMA IndexStays ==
  ASSUME [Next]_vars
  PROVE  UNCHANGED <<rows, nextId>> \/ \E n \in Notes : Scan(n)
<1>1. CASE UNCHANGED vars  BY <1>1 DEF vars, db
<1>2. CASE Answer("done") \/ Answer("failed") \/ OtherClient  BY <1>2 DEF Answer, OtherClient
<1>3. CASE Refresh  BY <1>3 DEF Refresh, db
<1>4. CASE ViewKeys
  BY <1>4 DEF ViewKeys, MoveCursor, CycleFilter, CycleGroup, ToggleToday, ToggleOverdue,
              ToggleBoard, FoldGroup, FoldLane, ExpandAll, CollapseAll, StartSearch, EditQuery,
              ClearSearch, Show, db
<1>5. CASE ModalKeys
  BY <1>5 DEF ModalKeys, StartQuickAdd, StartNote, Close, StartMove, RefuseMove, MoveTask,
              EndMove, CancelMove, RefuseArchive, Refuse, db
<1>6. CASE Asking
  BY <1>6 DEF Asking, Flip, ToggleBullet, MarkForToday, Undo, SubmitQuickAdd, SubmitNote,
              CommitMove, ArchiveCompleted, Ask, AskOnce, Enqueue
<1> QED  BY <1>1, <1>2, <1>3, <1>4, <1>5, <1>6, NextCases

\* Who gets the keys: a move and a note begin with a key of the list, and nothing but moving
\* the task, or a refresh of the list below the note, changes the screen meanwhile.
LEMMA ModeSteps ==
  ASSUME [Next]_vars
  PROVE  /\ mode' = "move" =>
               \/ StartMove
               \/ mode = "move" /\ UNCHANGED modal /\ UNCHANGED screen
               \/ mode = "move" /\ UNCHANGED modal /\ (MoveTask(-1) \/ MoveTask(1))
         /\ mode' = "add note" =>
               \/ StartNote
               \/ mode = "add note" /\ UNCHANGED modal /\ UNCHANGED screen
               \/ mode = "add note" /\ Refresh
<1>1. CASE UNCHANGED vars  BY <1>1 DEF vars, modal
<1>2. CASE \E n \in Notes : Scan(n)  BY <1>2 DEF Scan, modal
<1>3. CASE Answer("done") \/ Answer("failed") \/ OtherClient
  BY <1>3 DEF Answer, OtherClient, modal
<1>4. CASE Refresh  BY <1>4 DEF Refresh
<1>5. CASE ViewKeys
  BY <1>5 DEF ViewKeys, MoveCursor, CycleFilter, CycleGroup, ToggleToday, ToggleOverdue,
              ToggleBoard, FoldGroup, FoldLane, ExpandAll, CollapseAll, StartSearch, EditQuery,
              ClearSearch, Show, Key, Leave, modal
<1>6. CASE ModalKeys
  BY <1>6 DEF ModalKeys, StartQuickAdd, StartNote, Close, StartMove, RefuseMove, MoveTask,
              EndMove, CancelMove, RefuseArchive, Refuse, Key, Leave, StopMoving, modal
<1>7. CASE Asking
  BY <1>7 DEF Asking, Flip, ToggleBullet, MarkForToday, Undo, SubmitQuickAdd, SubmitNote,
              CommitMove, ArchiveCompleted, Ask, AskOnce, Key, Leave, StopMoving, modal
<1> QED  BY <1>1, <1>2, <1>3, <1>4, <1>5, <1>6, <1>7, NextCases
-----------------------------------------------------------------------------
\* The cursor.

LEMMA ReconcileIs ==
  ASSUME NEW v \in Seq(ScreenRow), NEW w, NEW i \in Nat
  PROVE  /\ Reconcile(v, w, i) \in 0..Len(v)
         /\ Reconcile(v, w, i) = 0 <=> v = <<>>
         /\ /\ OnTask(w, i)
            /\ \E k \in DOMAIN v : OnTask(v, k) /\ v[k].task.id = w[i].task.id
            => /\ OnTask(v, Reconcile(v, w, i))
               /\ v[Reconcile(v, w, i)].task.id = w[i].task.id
<1> DEFINE same == {k \in DOMAIN v : /\ OnTask(w, i) /\ OnTask(v, k)
                                     /\ v[k].task.id = w[i].task.id}
           near == {k \in DOMAIN v : i # 0 /\ PathOf(v[k]) = PathOf(w[i])}
           rec  == Reconcile(v, w, i)
<1>1. DOMAIN v = 1..Len(v) /\ Len(v) \in Nat /\ (v = <<>> <=> Len(v) = 0)  OBVIOUS
<1>2. rec = IF v = <<>> THEN 0
            ELSE IF same # {} THEN Nth(same, 1)
            ELSE IF near # {} THEN Nth(near, 1)
            ELSE IF i \in DOMAIN v THEN i
            ELSE IF i = 0 THEN 1 ELSE Len(v)
  BY DEF Reconcile
<1>3. ASSUME NEW S \in SUBSET DOMAIN v, S # {}  PROVE Nth(S, 1) \in S
  <2>0. S \in SUBSET (1..Len(v)) /\ IsFiniteSet(1..Len(v))  BY <1>1, FS_Interval
  <2>1. S \in SUBSET Int /\ IsFiniteSet(S)  BY <1>1, <2>0, FS_Subset
  <2>2. Cardinality(S) \in Nat /\ (Cardinality(S) = 0 <=> S = {})
    BY <2>1, FS_CardinalityType, FS_EmptySet
  <2>3. 1 \in 1..Cardinality(S)  BY <1>3, <2>2
  <2> QED  BY <2>1, <2>3, NthType
<1>4. same \in SUBSET DOMAIN v /\ near \in SUBSET DOMAIN v  OBVIOUS
<1>5. same # {} => Nth(same, 1) \in same  BY <1>3, <1>4
<1>6. near # {} => Nth(near, 1) \in near  BY <1>3, <1>4
<1>7. ASSUME OnTask(w, i), \E k \in DOMAIN v : OnTask(v, k) /\ v[k].task.id = w[i].task.id
      PROVE  OnTask(v, rec) /\ v[rec].task.id = w[i].task.id
  <2>1. same # {} /\ v # <<>>  BY <1>1, <1>7
  <2>2. rec \in same  BY <1>2, <1>5, <2>1
  <2> QED  BY <2>2
<1> HIDE DEF same, near
<1>8. rec \in 0..Len(v) /\ (rec = 0 <=> v = <<>>)
  BY <1>1, <1>2, <1>4, <1>5, <1>6
<1> QED  BY <1>7, <1>8
-----------------------------------------------------------------------------
\* The tracked actions.

LEMMA LatestIs ==
  ASSUME NEW s \in Seq(Nat), Len(s) <= TrackCap + 1
  PROVE  /\ Latest(s) \in Seq(Nat) /\ Len(Latest(s)) <= TrackCap
         /\ Range(Latest(s)) \in SUBSET Range(s)
<1>1. TrackCap \in Nat \ {0} /\ Len(s) \in Nat  BY SessionAssumption
<1>2. CASE Len(s) <= TrackCap  BY <1>1, <1>2 DEF Latest
<1>3. CASE Len(s) > TrackCap
  <2> DEFINE m == Len(s) - TrackCap + 1
             t == SubSeq(s, m, Len(s))
  <2>1. m \in 1..Len(s) /\ Latest(s) = t  BY <1>1, <1>3 DEF Latest
  <2>2. /\ t \in Seq(Nat) /\ Len(t) = Len(s) - m + 1
        /\ \A k \in 1..(Len(s) - m + 1) : t[k] = s[m + k - 1]
    <3> HIDE DEF m
    <3>1. m \in Nat /\ 1 <= m /\ m <= Len(s)  BY <1>1, <2>1
    <3> QED  BY <1>1, <3>1
  <2> HIDE DEF t, m
  <2>3. DOMAIN t = 1..Len(t) /\ Len(s) - m + 1 = TrackCap  BY <1>1, <2>2 DEF m
  <2>4. ASSUME NEW k \in DOMAIN t PROVE t[k] \in Range(s)
    <3>1. k \in 1..(Len(s) - m + 1)  BY <2>2, <2>3
    <3>2. t[k] = s[m + k - 1]  BY <2>2, <3>1
    <3>3. m + k - 1 \in 1..Len(s)
      <4>1. m \in Int /\ k \in Int /\ 1 <= m /\ 1 <= k /\ k <= Len(s) - m + 1
        BY <1>1, <2>1, <3>1
      <4> QED  BY <1>1, <4>1
    <3> QED  BY <3>2, <3>3 DEF Range
  <2> QED  BY <1>1, <2>1, <2>2, <2>3, <2>4 DEF Range
<1> QED  BY <1>1, <1>2, <1>3

Without(s, known) ==
    LET kept == {i \in DOMAIN s : s[i] \notin known}
    IN  [k \in 1..Cardinality(kept) |-> s[Nth(kept, k)]]

LEMMA ForgetIs ==
  ASSUME NEW s \in Seq(Nat), NEW known
  PROVE  /\ Without(s, known) \in Seq(Nat) /\ Len(Without(s, known)) <= Len(s)
         /\ Range(Without(s, known)) = Range(s) \ known
<1> DEFINE kept == {i \in DOMAIN s : s[i] \notin known}
           n == Cardinality(kept)
           t == [k \in 1..n |-> s[Nth(kept, k)]]
<1>1. Len(s) \in Nat /\ DOMAIN s = 1..Len(s) /\ \A i \in 1..Len(s) : s[i] \in Nat  OBVIOUS
<1>2. kept \in SUBSET (1..Len(s)) /\ IsFiniteSet(1..Len(s)) /\ Cardinality(1..Len(s)) = Len(s)
  <2>1. IsFiniteSet(1..Len(s)) /\ Cardinality(1..Len(s)) = Len(s)
    <3> HIDE DEF kept, n, t
    <3>1. Len(s) \in Int /\ 1 \in Int  BY <1>1
    <3>2. Cardinality(1..Len(s)) = (IF 1 > Len(s) THEN 0 ELSE Len(s) - 1 + 1)
          /\ IsFiniteSet(1..Len(s))
      BY <3>1, FS_Interval
    <3> QED  BY <1>1, <3>2
  <2>2. kept \in SUBSET (1..Len(s))  BY <1>1
  <2> QED  BY <2>1, <2>2
<1>3. kept \in SUBSET Int /\ IsFiniteSet(kept) /\ n \in Nat /\ n <= Len(s)
  <2>1. IsFiniteSet(kept) /\ n <= Len(s)  BY <1>2, FS_Subset
  <2>2. n \in Nat  BY <2>1, FS_CardinalityType
  <2>3. kept \in SUBSET Int  BY <1>1, <1>2
  <2> QED  BY <2>1, <2>2, <2>3
<1>4. \A k \in 1..n : Nth(kept, k) \in kept  BY <1>3, NthType
<1>5. \A i \in kept : Rank(kept, i) + 1 \in 1..n /\ Nth(kept, Rank(kept, i) + 1) = i
  BY <1>3, NthOrder
<1> HIDE DEF n
<1>6. t \in Seq(Nat) /\ Len(t) = n /\ DOMAIN t = 1..n
  <2>1. \A k \in 1..n : s[Nth(kept, k)] \in Nat  BY <1>1, <1>4
  <2> QED  BY <1>3, <2>1
<1>7. Range(t) \in SUBSET (Range(s) \ known)  BY <1>4, <1>6 DEF Range
<1>8. ASSUME NEW x \in Range(s) \ known PROVE x \in Range(t)
  <2>1. PICK i \in DOMAIN s : s[i] = x  BY DEF Range
  <2>2. i \in kept  BY <2>1
  <2>3. Rank(kept, i) + 1 \in DOMAIN t /\ t[Rank(kept, i) + 1] = x  BY <1>5, <1>6, <2>1, <2>2
  <2> QED  BY <2>3 DEF Range
<1>9. Without(s, known) = t  BY DEF Without, n
<1> HIDE DEF t
<1>10. Range(t) = Range(s) \ known  BY <1>7, <1>8
<1> QED  BY <1>3, <1>6, <1>9, <1>10
-----------------------------------------------------------------------------
\* Tasks change places within a run of task rows: what is on the screen stays complete.

LEMMA JoinedIs ==
  ASSUME NEW v \in Seq(ScreenRow), NEW i \in DOMAIN v, NEW k \in DOMAIN v, Joined(v, i, k)
  PROVE  /\ v[i].is = "task" /\ v[k].is = "task"
         /\ Joined(v, k, i)
         /\ \A j \in DOMAIN v : j \in i..k \cup k..i => v[j].is = "task" /\ Joined(v, i, j)
         /\ \A l \in DOMAIN v : Joined(v, k, l) => Joined(v, i, l)
<1>1. DOMAIN v = 1..Len(v) /\ Len(v) \in Nat  OBVIOUS
<1>2. i \in Nat /\ k \in Nat  BY <1>1
<1>3. \A j \in i..k \cup k..i : OnTask(v, j)  BY <1>2 DEF Joined
<1>4. i \in i..k \cup k..i /\ k \in i..k \cup k..i  BY <1>2
<1>5. Joined(v, k, i)  BY <1>2, <1>3 DEF Joined
<1>6. ASSUME NEW j \in DOMAIN v, j \in i..k \cup k..i
      PROVE  v[j].is = "task" /\ Joined(v, i, j)
  <2>1. v[j].is = "task"  BY <1>3, <1>6 DEF OnTask
  <2>2. j \in Nat  BY <1>1
  <2>3. \A m \in i..j \cup j..i : m \in i..k \cup k..i  BY <1>2, <1>6, <2>2
  <2> QED  BY <1>2, <1>3, <2>1, <2>2, <2>3 DEF Joined
<1>7. ASSUME NEW l \in DOMAIN v, Joined(v, k, l)  PROVE Joined(v, i, l)
  <2>1. l \in Nat  BY <1>1
  <2>2. \A j \in k..l \cup l..k : OnTask(v, j)  BY <1>2, <1>7, <2>1 DEF Joined
  <2>3. \A j \in i..l \cup l..i : j \in i..k \cup k..i \cup k..l \cup l..k  BY <1>2, <2>1
  <2>4. \A j \in i..l \cup l..i : OnTask(v, j)  BY <1>3, <2>2, <2>3
  <2> QED  BY <1>2, <2>1, <2>4 DEF Joined
<1> QED  BY <1>3, <1>4, <1>5, <1>6, <1>7 DEF OnTask

LEMMA SameKeys ==
  ASSUME NEW v, NEW w, NEW H, \A i \in H : w[i].key = v[i].key
  PROVE  {w[i].key : i \in H} = {v[i].key : i \in H}
  OBVIOUS

Rearranges(f, v, w) ==
    /\ w \in Seq(ScreenRow) /\ DOMAIN w = DOMAIN v /\ f \in [DOMAIN v -> DOMAIN v]
    /\ \A i \in DOMAIN v : w[i] = v[f[i]] /\ (f[i] = i \/ Joined(v, i, f[i]))
    /\ \A i, j \in DOMAIN v : f[i] = f[j] => i = j
    /\ \A j \in DOMAIN v : \E i \in DOMAIN v : f[i] = j

LEMMA Rearranged ==
  ASSUME NEW v, NEW ts, NEW o, GoodView(v, ts, o), NEW w, NEW f, Rearranges(f, v, w)
  PROVE  /\ GoodView(w, ts, o)
         /\ \A i \in DOMAIN v : w[i].is = v[i].is
         /\ \A i, k \in DOMAIN v : Joined(w, i, k) <=> Joined(v, i, k)
<1>0. /\ w \in Seq(ScreenRow) /\ DOMAIN w = DOMAIN v /\ f \in [DOMAIN v -> DOMAIN v]
      /\ \A i \in DOMAIN v : w[i] = v[f[i]] /\ (f[i] = i \/ Joined(v, i, f[i]))
      /\ \A i, j \in DOMAIN v : f[i] = f[j] => i = j
      /\ \A j \in DOMAIN v : \E i \in DOMAIN v : f[i] = j
  BY DEF Rearranges
<1> USE <1>0
<1>1. v \in Seq(ScreenRow) /\ DOMAIN v = 1..Len(v) /\ Len(v) \in Nat  BY DEF GoodView
<1>2. \A i \in DOMAIN v : w[i].is = v[i].is /\ (f[i] # i => v[i].is = "task")
  <2> SUFFICES ASSUME NEW i \in DOMAIN v, f[i] # i PROVE w[i].is = v[i].is /\ v[i].is = "task"
    OBVIOUS
  <2>1. Joined(v, i, f[i]) /\ f[i] \in DOMAIN v /\ w[i] = v[f[i]]  OBVIOUS
  <2>2. v[i].is = "task" /\ v[f[i]].is = "task"
    <3> HIDE <1>0
    <3> QED  BY <1>1, <2>1, JoinedIs
  <2> QED  BY <2>1, <2>2
<1>3. TaskRowsOf(w) = TaskRowsOf(v)  BY <1>2 DEF TaskRowsOf
<1>4. ASSUME NEW i \in TaskRowsOf(v)  PROVE f[i] \in TaskRowsOf(v) /\ w[i].task = v[f[i]].task
  <2>1. i \in DOMAIN v /\ v[i].is = "task" /\ w[i].is = "task"  BY <1>2, <1>4 DEF TaskRowsOf
  <2> QED  BY <2>1 DEF TaskRowsOf
<1>5. \A i \in TaskRowsOf(w) : w[i].task \in Range(ts)  BY <1>3, <1>4 DEF GoodView
<1>6. ASSUME NEW i \in DOMAIN v, NEW k \in DOMAIN v  PROVE Joined(w, i, k) <=> Joined(v, i, k)
  <2> HIDE <1>0
  <2>1. i \in 1..Len(v) /\ k \in 1..Len(v)  BY <1>1
  <2>2. \A j \in (IF k < i THEN k..i ELSE i..k) : j \in DOMAIN v  BY <1>1, <2>1
  <2>3. \A j \in (IF k < i THEN k..i ELSE i..k) : OnTask(w, j) <=> OnTask(v, j)
    BY <1>2, <2>2 DEF OnTask
  <2> QED  BY <2>3 DEF Joined
<1>7. NoTaskTwice(w)
  <2> SUFFICES ASSUME NEW i \in DOMAIN w, NEW k \in DOMAIN w, Joined(w, i, k),
                      w[i].task = w[k].task
               PROVE  i = k
    BY DEF NoTaskTwice
  <2>1. i \in DOMAIN v /\ k \in DOMAIN v /\ Joined(v, i, k)  BY <1>6
  <2>2. f[i] \in DOMAIN v /\ f[k] \in DOMAIN v  BY <2>1
  <2>3. Joined(v, f[i], k)
    <3>1. CASE f[i] = i  BY <2>1, <3>1
    <3>2. CASE Joined(v, i, f[i])
      <4>1. Joined(v, f[i], i)  BY <1>1, <2>1, <2>2, <3>2, JoinedIs
      <4> QED  BY <1>1, <2>1, <2>2, <4>1, JoinedIs
    <3> QED  BY <2>1, <3>1, <3>2
  <2>4. Joined(v, f[i], f[k])
    <3>1. CASE f[k] = k  BY <2>3, <3>1
    <3>2. CASE Joined(v, k, f[k])  BY <1>1, <2>1, <2>2, <2>3, <3>2, JoinedIs
    <3> QED  BY <2>1, <3>1, <3>2
  <2>5. v[f[i]].task = v[f[k]].task  BY <2>1
  <2>6. f[i] = f[k]  BY <2>2, <2>4, <2>5 DEF GoodView, NoTaskTwice
  <2> QED  BY <2>1, <2>6
<1>8. \A i \in DOMAIN v : v[i].is = "header" => w[i] = v[i]  BY <1>2
<1>9. {w[i].key : i \in {k \in DOMAIN w : w[k].is = "header"}} = {q[1] : q \in Due(ts, o)}
  <2> DEFINE H == {k \in DOMAIN v : v[k].is = "header"}
  <2>1. {k \in DOMAIN w : w[k].is = "header"} = H  BY <1>2
  <2>2. \A i \in H : w[i].key = v[i].key  BY <1>8
  <2>3. {v[i].key : i \in H} = {q[1] : q \in Due(ts, o)}  BY DEF GoodView, Complete
  <2> HIDE <1>0 DEF H
  <2>4. {w[i].key : i \in H} = {v[i].key : i \in H}  BY <2>2, SameKeys
  <2>5. {w[i].key : i \in {k \in DOMAIN w : w[k].is = "header"}} = {w[i].key : i \in H}
    BY <2>1
  <2> QED  BY <2>3, <2>4, <2>5
<1>10. ASSUME NEW q \in DueOpen(ts, o)
       PROVE  \E i \in DOMAIN w : /\ w[i] = TaskRow(q[2])
                                  /\ \E h \in HeaderAbove(w, i) : w[h].key = q[1]
  <2>1. PICK i \in DOMAIN v : /\ v[i] = TaskRow(q[2])
                              /\ \E h \in HeaderAbove(v, i) : v[h].key = q[1]
    BY DEF GoodView, Complete
  <2>2. PICK h \in HeaderAbove(v, i) : v[h].key = q[1]  BY <2>1
  <2>3. PICK j \in DOMAIN v : f[j] = i  BY <2>1
  <2>4. w[j] = v[i]  BY <2>3
  <2>5. /\ h \in 1..i /\ v[h].is = "header" /\ \A k \in (h + 1)..i : v[k].is # "header"
        /\ i \in 1..Len(v) /\ j \in 1..Len(v)
    BY <1>1, <2>2, <2>3 DEF HeaderAbove
  <2>6. h \in DOMAIN v /\ w[h] = v[h]
    <3>1. h \in 1..Len(v)  BY <1>1, <2>5
    <3> QED  BY <1>1, <1>8, <2>5, <3>1
  <2>7. \A k \in DOMAIN v : k \in j..i \cup i..j => k = i \/ v[k].is = "task"
    <3>1. CASE j = i
      <4>1. \A k \in Nat : k \in i..i => k = i  BY <1>1, <2>5
      <4> QED  BY <1>1, <3>1, <4>1
    <3>2. CASE Joined(v, j, i)
      <4>1. \A k \in DOMAIN v : k \in j..i \cup i..j => v[k].is = "task" /\ Joined(v, j, k)
        BY <1>1, <2>1, <2>3, <3>2, JoinedIs
      <4> QED  BY <4>1
    <3> QED  BY <2>3, <3>1, <3>2
  <2>8. v[i].is = "task"  BY <2>1 DEF TaskRow
  <2>9. h \in 1..j
    <3>1. h \notin j..i  BY <2>5, <2>6, <2>7, <2>8
    <3> QED  BY <2>5, <3>1
  <2>10. ASSUME NEW k \in (h + 1)..j PROVE w[k].is # "header"
    <3> HIDE <1>0
    <3>1. k \in Nat /\ k \in DOMAIN v /\ (k \in (h + 1)..i \/ k \in i..j)  BY <1>1, <2>5
    <3>2. v[k].is # "header"  BY <2>5, <2>7, <2>8, <3>1
    <3> QED  BY <1>2, <3>1, <3>2
  <2>11. h \in HeaderAbove(w, j)  BY <2>5, <2>6, <2>9, <2>10 DEF HeaderAbove
  <2>12. j \in DOMAIN w /\ w[j] = TaskRow(q[2]) /\ w[h].key = q[1]  BY <2>1, <2>2, <2>3, <2>4, <2>6
  <2> HIDE <1>0
  <2> QED  BY <2>11, <2>12
<1>11. Complete(w, ts, o)
  BY <1>3, <1>9, <1>10 DEF Complete, GoodView
<1> QED  BY <1>2, <1>5, <1>6, <1>7, <1>11 DEF GoodView
-----------------------------------------------------------------------------
\* Move mode.

RunOf(v, s) == {i \in DOMAIN v : Joined(v, s, i)}

\* The task is being moved through its run: the rows of the run are those the move began with,
\* in some order, all of one flat note, and the order noted is that of the tasks at the start.
Moving(v, s, ts, o, m, first) ==
    /\ s \in DOMAIN v /\ OnTask(v, s) /\ v[s].task.id = m.id
    /\ GoodView(first, ts, o) /\ DOMAIN first = DOMAIN v
    /\ \A i \in DOMAIN v \ RunOf(v, s) : v[i] = first[i]
    /\ \A i \in RunOf(v, s) : \E k \in RunOf(v, s) : first[i] = v[k]
    /\ \A i \in RunOf(v, s) : \E k \in RunOf(v, s) : v[i] = first[k]
    /\ Len(m.order) = Cardinality(RunOf(v, s))
    /\ \A i \in RunOf(v, s) : /\ m.order[Rank(RunOf(v, s), i) + 1] = first[i].task.id
                              /\ v[i].task.note = v[s].task.note
    /\ AllFlat(Range(ts), v[s].task.note)

MoveInv == mode = "move" => Moving(view, sel, tasks, opts, move, start)

LEMMA RunOfIs ==
  ASSUME NEW v \in Seq(ScreenRow), NEW s \in DOMAIN v
  PROVE  /\ RunOf(v, s) \in SUBSET DOMAIN v /\ RunOf(v, s) \in SUBSET Int
         /\ IsFiniteSet(RunOf(v, s)) /\ Cardinality(RunOf(v, s)) \in Nat
         /\ OnTask(v, s) => s \in RunOf(v, s)
         /\ \A i \in RunOf(v, s) : v[i].is = "task" /\ v[i].task \in Row
         /\ \A i \in RunOf(v, s) : RunOf(v, i) = RunOf(v, s)
<1>1. DOMAIN v = 1..Len(v) /\ Len(v) \in Nat  OBVIOUS
<1>2. RunOf(v, s) \in SUBSET (1..Len(v)) /\ IsFiniteSet(1..Len(v))  BY <1>1, FS_Interval DEF RunOf
<1>3. /\ RunOf(v, s) \in SUBSET DOMAIN v /\ RunOf(v, s) \in SUBSET Int
      /\ IsFiniteSet(RunOf(v, s)) /\ Cardinality(RunOf(v, s)) \in Nat
  BY <1>1, <1>2, FS_Subset, FS_CardinalityType
<1>4. ASSUME OnTask(v, s) PROVE s \in RunOf(v, s)
  <2>1. \A j \in (IF s < s THEN s..s ELSE s..s) : j = s  BY <1>1
  <2> QED  BY <1>4, <2>1 DEF RunOf, Joined
<1>5. ASSUME NEW i \in RunOf(v, s)
      PROVE  v[i].is = "task" /\ v[i].task \in Row /\ RunOf(v, i) = RunOf(v, s)
  <2>1. i \in DOMAIN v /\ Joined(v, s, i)  BY DEF RunOf
  <2>2. /\ v[i].is = "task" /\ Joined(v, i, s)
        /\ \A l \in DOMAIN v : Joined(v, i, l) => Joined(v, s, l)
    BY <2>1, JoinedIs
  <2>3. \A l \in DOMAIN v : Joined(v, s, l) => Joined(v, i, l)  BY <2>1, <2>2, JoinedIs
  <2>4. v[i] \in ScreenRow  BY <2>1
  <2>5. v[i].task \in Row  BY <2>2, <2>4 DEF ScreenRow, HeaderRows, LaneRows, TaskRows
  <2> QED  BY <2>2, <2>3, <2>5 DEF RunOf
<1> QED  BY <1>3, <1>4, <1>5

\* What the moved task leaves behind and what it is put in front of.
LEMMA RunIs ==
  ASSUME view \in Seq(ScreenRow), sel \in DOMAIN view
  PROVE  LET R == RunOf(view, sel)
             n == Cardinality(R)
         IN  /\ Run = R
             /\ DOMAIN RunIds = 1..n /\ Len(RunIds) = n /\ RunIds \in Seq(Nat)
             /\ DOMAIN RunLines = 1..n /\ Len(RunLines) = n
             /\ \A k \in 1..n : /\ Nth(R, k) \in R
                                /\ RunIds[k] = view[Nth(R, k)].task.id
                                /\ RunLines[k] = view[Nth(R, k)].task.line
<1> DEFINE R == RunOf(view, sel)
           n == Cardinality(R)
<1>1. Run = R  BY DEF Run, RunOf, Joined
<1>2. /\ R \in SUBSET Int /\ IsFiniteSet(R) /\ n \in Nat
      /\ \A i \in R : view[i].task \in Row
  BY RunOfIs
<1>3. \A k \in 1..n : Nth(R, k) \in R  BY <1>2, NthType
<1> HIDE DEF R
<1>4. RunTasks = [k \in 1..n |-> view[Nth(R, k)].task]  BY <1>1 DEF RunTasks
<1>5. /\ RunIds = [k \in 1..n |-> view[Nth(R, k)].task.id]
      /\ RunLines = [k \in 1..n |-> view[Nth(R, k)].task.line]
  BY <1>4 DEF RunIds, RunLines
<1>6. \A k \in 1..n : view[Nth(R, k)].task.id \in Nat  BY <1>2, <1>3 DEF Row
<1>0. n \in Nat  BY <1>2
<1> HIDE DEF n
<1>7. /\ DOMAIN RunIds = 1..n /\ Len(RunIds) = n
      /\ DOMAIN RunLines = 1..n /\ Len(RunLines) = n
  BY <1>0, <1>5
<1>8. RunIds \in Seq(Nat)
  <2>1. \A k \in 1..n : RunIds[k] \in Nat  BY <1>5, <1>6
  <2> QED  BY <1>0, <1>5, <2>1
<1> QED  BY <1>1, <1>3, <1>5, <1>7, <1>8 DEF R, n

LEMMA MoveBegins ==
  ASSUME TuiTypeOK, ViewInv, StartMove
  PROVE  Moving(view, sel, tasks, opts, move', start')
<1> DEFINE R == RunOf(view, sel)
           n == Cardinality(R)
<1>1. PICK r \in Selected : MoveRefusals(r) = {} /\ move' = [id |-> r.id, order |-> RunIds]
  BY DEF StartMove
<1>2. /\ sel \in DOMAIN view /\ OnTask(view, sel) /\ r = view[sel].task
      /\ view \in Seq(ScreenRow) /\ GoodView(view, tasks, opts)
  BY DEF Selected, TuiTypeOK, ViewInv, GoodView, OnTask
<1>3. start' = view  BY DEF StartMove
<1>4. /\ Run = R
      /\ DOMAIN RunIds = 1..n /\ Len(RunIds) = n
      /\ \A k \in 1..n : RunIds[k] = view[Nth(R, k)].task.id
  BY <1>2, RunIs
<1>5. /\ R \in SUBSET Int /\ IsFiniteSet(R)  BY <1>2, RunOfIs
<1>6. ASSUME NEW i \in R PROVE RunIds[Rank(R, i) + 1] = view[i].task.id
  <2>1. Rank(R, i) + 1 \in 1..n /\ Nth(R, Rank(R, i) + 1) = i  BY <1>5, NthOrder
  <2> QED  BY <1>4, <2>1
<1>7. /\ \A i \in R : view[i].task.note = view[sel].task.note
      /\ AllFlat(Range(tasks), view[sel].task.note)
  BY <1>1, <1>2, <1>4 DEF MoveRefusals, AllFlat
<1>8. move'.id = r.id /\ move'.order = RunIds  BY <1>1
<1> HIDE DEF R, n
<1> QED  BY <1>2, <1>3, <1>4, <1>6, <1>7, <1>8 DEF Moving, R, n

\* Two tasks of the run change places.
LEMMA MovingGoesOn ==
  ASSUME TuiTypeOK, ViewInv, MoveInv, NEW delta \in {-1, 1}, MoveTask(delta)
  PROVE  /\ GoodView(view', tasks, opts)
         /\ Moving(view', sel', tasks, opts, move, start)
<1> DEFINE R == RunOf(view, sel)
           b == sel + delta
           f == [i \in DOMAIN view |-> IF i = sel THEN b ELSE IF i = b THEN sel ELSE i]
<1>1. /\ mode = "move" /\ b \in Run /\ sel' = b
      /\ view' = [view EXCEPT ![sel] = view[b], ![b] = view[sel]]
  BY DEF MoveTask, Key
<1>2. Moving(view, sel, tasks, opts, move, start)  BY <1>1 DEF MoveInv
<1>3. /\ view \in Seq(ScreenRow) /\ GoodView(view, tasks, opts) /\ sel \in DOMAIN view
      /\ OnTask(view, sel)
  BY <1>2 DEF ViewInv, GoodView, Moving
<1>4. /\ Run = R  BY <1>3, RunIs
<1>5. /\ R \in SUBSET DOMAIN view /\ sel \in R /\ b \in R
      /\ \A i \in R : RunOf(view, i) = R
  BY <1>1, <1>3, <1>4, RunOfIs
<1>6. Joined(view, sel, b) /\ Joined(view, b, sel)
  <2>1. sel \in RunOf(view, b) /\ b \in RunOf(view, sel)  BY <1>5
  <2> QED  BY <2>1 DEF RunOf
<1> HIDE DEF b, R
<1>7. /\ DOMAIN view' = DOMAIN view
      /\ \A i \in DOMAIN view : view'[i] = view[f[i]]
      /\ view' \in Seq(ScreenRow)
  BY <1>1, <1>3, <1>5
<1>8. /\ f \in [DOMAIN view -> DOMAIN view]
      /\ \A i \in DOMAIN view : f[i] = i \/ Joined(view, i, f[i])
      /\ \A i, j \in DOMAIN view : f[i] = f[j] => i = j
      /\ \A j \in DOMAIN view : f[j] \in DOMAIN view /\ f[f[j]] = j
      /\ \A i \in R : f[i] \in R
      /\ \A i \in DOMAIN view \ R : f[i] = i
      /\ f[b] = sel
  BY <1>3, <1>5, <1>6
<1> HIDE DEF f
<1>9. \A j \in DOMAIN view : \E i \in DOMAIN view : f[i] = j  BY <1>8
<1>10. /\ GoodView(view', tasks, opts)
       /\ \A i \in DOMAIN view : view'[i].is = view[i].is
       /\ \A i, k \in DOMAIN view : Joined(view', i, k) <=> Joined(view, i, k)
  <2>1. \A i \in DOMAIN view : view'[i] = view[f[i]] /\ (f[i] = i \/ Joined(view, i, f[i]))
    BY <1>7, <1>8
  <2>2. \A i, j \in DOMAIN view : f[i] = f[j] => i = j  BY <1>8
  <2>3. Rearranges(f, view, view')  BY <1>3, <1>7, <1>8, <1>9, <2>1, <2>2 DEF Rearranges
  <2> QED  BY <1>3, <2>3, Rearranged
<1>11. RunOf(view', sel') = R
  <2>1. RunOf(view', b) = RunOf(view, b)  BY <1>5, <1>7, <1>10 DEF RunOf
  <2> QED  BY <1>1, <1>5, <2>1
<1>12. sel' \in DOMAIN view' /\ view'[sel'] = view[sel]  BY <1>1, <1>5, <1>7, <1>8
<1>13. \A i \in DOMAIN view' \ R : view'[i] = start[i]
  BY <1>2, <1>7, <1>8 DEF Moving, R
<1>14. \A i \in R : \E k \in R : start[i] = view'[k]
  <2> SUFFICES ASSUME NEW i \in R PROVE \E k \in R : start[i] = view'[k]  OBVIOUS
  <2>1. PICK k \in R : start[i] = view[k]  BY <1>2 DEF Moving, R
  <2>2. f[k] \in R /\ view'[f[k]] = view[k]  BY <1>5, <1>7, <1>8
  <2> QED  BY <2>1, <2>2
<1>15. \A i \in R : \E k \in R : view'[i] = start[k]
  <2> SUFFICES ASSUME NEW i \in R PROVE \E k \in R : view'[i] = start[k]  OBVIOUS
  <2>1. f[i] \in R /\ view'[i] = view[f[i]]  BY <1>5, <1>7, <1>8
  <2> QED  BY <1>2, <2>1 DEF Moving, R
<1>16. \A i \in R : view'[i].task.note = view[sel].task.note
  <2> SUFFICES ASSUME NEW i \in R PROVE view'[i].task.note = view[sel].task.note  OBVIOUS
  <2>1. f[i] \in R /\ view'[i] = view[f[i]]  BY <1>5, <1>7, <1>8
  <2> QED  BY <1>2, <2>1 DEF Moving, R
<1>17. OnTask(view', sel') /\ view'[sel'].task = view[sel].task
  BY <1>3, <1>5, <1>12, <1>1 DEF OnTask
<1>18. /\ Len(move.order) = Cardinality(R)
       /\ \A i \in R : move.order[Rank(R, i) + 1] = start[i].task.id
       /\ GoodView(start, tasks, opts) /\ DOMAIN start = DOMAIN view
       /\ AllFlat(Range(tasks), view[sel].task.note) /\ view[sel].task.id = move.id
  BY <1>2 DEF Moving, R
<1> QED
  BY <1>7, <1>10, <1>11, <1>12, <1>13, <1>14, <1>15, <1>16, <1>17, <1>18 DEF Moving

LEMMA CancelIs ==
  ASSUME TuiTypeOK, ViewInv, MoveInv, CancelMove
  PROVE  /\ view' = start /\ GoodView(start, tasks, opts)
         /\ sel' \in DOMAIN start /\ OnTask(start, sel') /\ start[sel'].task.id = move.id
<1> DEFINE R == RunOf(view, sel)
<1>1. mode = "move"  BY DEF CancelMove, Key
<1>2. Moving(view, sel, tasks, opts, move, start)  BY <1>1 DEF MoveInv
<1>3. /\ view \in Seq(ScreenRow) /\ GoodView(view, tasks, opts) /\ sel \in DOMAIN view
      /\ OnTask(view, sel) /\ view[sel].task.id = move.id
      /\ GoodView(start, tasks, opts) /\ start \in Seq(ScreenRow) /\ DOMAIN start = DOMAIN view
  BY <1>2 DEF ViewInv, GoodView, Moving
<1>4. /\ Run = R  BY <1>3, RunIs
<1>5. /\ R \in SUBSET DOMAIN view /\ sel \in R
      /\ \A i \in R : view[i].is = "task"
  BY <1>3, RunOfIs
<1>6. ASSUME NEW i \in R, NEW k \in R, view[i].task.id = view[k].task.id
      PROVE  view[i] = view[k]
  <2>1. view[i].task \in Range(tasks) /\ view[k].task \in Range(tasks)
    BY <1>3, <1>5 DEF GoodView, TaskRowsOf
  <2>2. view[i].task = view[k].task  BY <1>6, <2>1 DEF ViewInv, Snapshot
  <2>3. view[i] \in TaskRows /\ view[k] \in TaskRows
    BY <1>3, <1>5 DEF ScreenRow, HeaderRows, LaneRows, TaskRows
  <2> QED  BY <2>2, <2>3 DEF TaskRows
<1> DEFINE was(i) == CHOOSE row \in {view[k] : k \in Run} :
                        row.task.id = move.order[Rank(Run, i) + 1]
<1>7. ASSUME NEW i \in R PROVE was(i) = start[i]
  <2>1. PICK k \in R : start[i] = view[k]  BY <1>2 DEF Moving
  <2>2. move.order[Rank(R, i) + 1] = view[k].task.id  BY <1>2, <2>1 DEF Moving
  <2> DEFINE C == {view[j] : j \in R}
  <2>3. view[k] \in C  OBVIOUS
  <2>4. \A row \in C : row.task.id = view[k].task.id => row = view[k]  BY <1>6
  <2>5. was(i) = CHOOSE row \in C : row.task.id = view[k].task.id  BY <1>4, <2>2
  <2> HIDE DEF C, was, R
  <2> QED  BY <2>1, <2>3, <2>4, <2>5
<1>8. view' = [i \in DOMAIN view |-> IF i \notin R THEN view[i] ELSE was(i)]
  BY <1>4 DEF CancelMove
<1>9. \A i \in DOMAIN view \ R : view[i] = start[i]  BY <1>2 DEF Moving
<1> HIDE DEF was, R
<1>10. view' = start
  <2>1. \A i \in DOMAIN view : view'[i] = start[i]  BY <1>7, <1>8, <1>9
  <2>2. DOMAIN view' = DOMAIN start  BY <1>3, <1>8
  <2>3. start = [i \in DOMAIN view |-> start[i]]  BY <1>3
  <2> QED  BY <1>3, <1>8, <2>1, <2>3
<1>11. PICK k \in R : start[k] = view[sel]
  <2>1. \E k \in RunOf(view, sel) : view[sel] = start[k]  BY <1>2, <1>5 DEF Moving, R
  <2> QED  BY <2>1 DEF R
<1> DEFINE T == {i \in DOMAIN view' : OnTask(view', i) /\ view'[i].task.id = move.id}
<1>12. sel' = Nth(T, 1)  BY DEF CancelMove
<1>13. k \in T
  <2>1. k \in DOMAIN start /\ start[k].is = "task" /\ start[k].task.id = move.id
    BY <1>3, <1>5, <1>11 DEF OnTask
  <2>2. k # 0  BY <1>3, <2>1
  <2> QED  BY <1>10, <2>1, <2>2 DEF OnTask
<1>14. T \in SUBSET Int /\ IsFiniteSet(T) /\ 1 \in 1..Cardinality(T)
  <2>1. Len(start) \in Nat /\ DOMAIN start = 1..Len(start)  BY <1>3
  <2>2. T \in SUBSET (1..Len(start)) /\ IsFiniteSet(1..Len(start))
    BY <1>10, <2>1, FS_Interval
  <2>3. T \in SUBSET Int /\ IsFiniteSet(T)  BY <2>1, <2>2, FS_Subset
  <2>4. Cardinality(T) \in Nat /\ Cardinality(T) # 0
    BY <1>13, <2>3, FS_CardinalityType, FS_EmptySet
  <2> QED  BY <2>3, <2>4
<1>15. sel' \in T  BY <1>12, <1>14, NthType
<1> QED  BY <1>3, <1>10, <1>15
-----------------------------------------------------------------------------
\* The list and the moves, step by step.

LEMMA SnapshotLater ==
  ASSUME NEW R \in SUBSET Row, NEW k \in Nat, NEW l \in Nat, k <= l, Snapshot(R, k)
  PROVE  Snapshot(R, l)
<1>1. \A r \in R : r.id \in Nat /\ r.id < k  BY DEF Snapshot, Row
<1>2. \A r \in R : r.id < l  BY <1>1
<1> QED  BY <1>2 DEF Snapshot

\* A scan leaves named rows, and a counter that never goes back.
LEMMA ScannedRows ==
  ASSUME TuiTypeOK, ViewInv, [Next]_vars
  PROVE  /\ rows' \in SUBSET Row /\ IsFiniteSet(rows') /\ Snapshot(rows', nextId')
         /\ \A r \in rows' : r.text.name \in Names
         /\ nextId' \in Nat \ {0} /\ nextId <= nextId'
<1>1. /\ rows \in SUBSET Row /\ IsFiniteSet(rows) /\ Snapshot(rows, nextId)
      /\ \A r \in rows : r.text.name \in Names
      /\ nextId \in Nat \ {0}
  BY DEF TuiTypeOK, ViewInv
<1>2. CASE UNCHANGED <<rows, nextId>>  BY <1>1, <1>2
<1>3. CASE \E n \in Notes : Scan(n)
  <2>1. PICK n \in Notes : Scan(n)  BY <1>3
  <2>2. PICK c \in Scans[n] : /\ rows' = Reconciled(rows, nextId, n, c)
                              /\ nextId' = NextId(rows, nextId, n, c)
    BY <2>1 DEF Scan
  <2>3. c \in Contents /\ \A i \in TaskLines(c) : c[i].text.name \in Names
    BY SessionAssumption
  <2>4. Table(rows, nextId, n, c)  BY <1>1, <2>3 DEF Table
  <2>5. /\ rows' \in SUBSET Row /\ IsFiniteSet(rows')
        /\ nextId' \in Nat \ {0} /\ nextId <= nextId'
    BY <2>2, <2>4, ReconciledType
  <2>6. Snapshot(rows', nextId')  BY <1>1, <2>2, <2>4, ReconciledSnapshot
  <2>7. ASSUME NEW r \in rows' PROVE r.text.name \in Names
    <3>1. CASE r \in rows  BY <1>1, <3>1
    <3>2. ASSUME NEW i \in IndexedLines(c), r = RowAt(rows, nextId, n, c, i)
          PROVE  r.text.name \in Names
      <4>1. i \in TaskLines(c)  BY DEF IndexedLines
      <4>2. r.text = c[i].text  BY <3>2 DEF RowAt
      <4> QED  BY <2>3, <4>1, <4>2
    <3>3. r \in rows \/ \E i \in IndexedLines(c) : r = RowAt(rows, nextId, n, c, i)
      BY <2>2 DEF Reconciled
    <3> QED  BY <3>1, <3>2, <3>3
  <2> QED  BY <2>5, <2>6, <2>7
<1> QED  BY <1>2, <1>3, IndexStays

LEMMA Made ==
  ASSUME NEW ts, NEW o, Rebuild(ts, o)
  PROVE  /\ tasks' = ts /\ opts' = o /\ view' = Screen(ts, o)
         /\ sel' = Reconcile(view', view, sel)
  BY DEF Rebuild

\* A refresh lists the rows of the index.
LEMMA RefreshedList ==
  ASSUME TuiTypeOK, ViewInv
  PROVE  TaskList(Listed(rows)) /\ Range(Listed(rows)) = rows
<1>1. rows \in SUBSET Row /\ IsFiniteSet(rows) /\ Snapshot(rows, nextId)
  BY DEF TuiTypeOK, ViewInv
<1>2. /\ Listed(rows) \in Seq(Row) /\ Range(Listed(rows)) = rows
      /\ IsInjective(Listed(rows))
  BY <1>1, ListedIs
<1>3. \A i \in DOMAIN Listed(rows) : Listed(rows)[i] \in rows  BY <1>2 DEF Range
<1> HIDE DEF Listed
<1> QED  BY <1>2, <1>3 DEF TaskList, ViewInv

LEMMA ViewKept ==
  ASSUME TuiTypeOK, ViewInv, MoveInv, [Next]_vars
  PROVE  ViewInv'
<1>1. /\ rows' \in SUBSET Row /\ IsFiniteSet(rows') /\ Snapshot(rows', nextId')
      /\ \A r \in rows' : r.text.name \in Names
      /\ nextId \in Nat /\ nextId' \in Nat \ {0} /\ nextId <= nextId'
  BY ScannedRows DEF TuiTypeOK
<1>2. /\ TaskList(tasks) /\ Snapshot(Range(tasks), nextId) /\ GoodView(view, tasks, opts)
      /\ Range(tasks) \in SUBSET Row /\ opts \in Options
  BY DEF ViewInv, TaskList, TuiTypeOK, Range
<1>3. Snapshot(Range(tasks), nextId')  BY <1>1, <1>2, SnapshotLater
<1> SUFFICES TaskList(tasks') /\ Snapshot(Range(tasks'), nextId') /\ GoodView(view', tasks', opts')
  BY <1>1 DEF ViewInv
<1>4. CASE UNCHANGED screen  BY <1>2, <1>3, <1>4 DEF screen
<1>5. CASE Refresh
  <2>1. Rebuild(Listed(rows), opts) /\ UNCHANGED nextId  BY <1>5 DEF Refresh, db
  <2>2. tasks' = Listed(rows) /\ opts' = opts /\ view' = Screen(Listed(rows), opts)
    BY <2>1, Made
  <2>3. TaskList(Listed(rows)) /\ Range(Listed(rows)) = rows  BY RefreshedList
  <2>4. GoodView(Screen(Listed(rows), opts), Listed(rows), opts)
    BY <1>2, <2>3, ScreenIsGood
  <2>5. Snapshot(rows, nextId)  BY DEF ViewInv
  <2> QED  BY <2>1, <2>2, <2>3, <2>4, <2>5
<1>6. CASE \E o \in Options : Rebuild(tasks, o)
  <2>1. PICK o \in Options : Rebuild(tasks, o)  BY <1>6
  <2>2. tasks' = tasks /\ opts' = o /\ view' = Screen(tasks, o)  BY <2>1, Made
  <2>3. GoodView(Screen(tasks, o), tasks, o)  BY <1>2, ScreenIsGood
  <2> QED  BY <1>2, <1>3, <2>2, <2>3
<1>7. CASE MoveCursor(-1) \/ MoveCursor(1)  BY <1>2, <1>3, <1>7 DEF MoveCursor
<1>8. ASSUME NEW delta \in {-1, 1}, MoveTask(delta)
      PROVE  TaskList(tasks') /\ Snapshot(Range(tasks'), nextId') /\ GoodView(view', tasks', opts')
  <2>1. UNCHANGED <<tasks, opts>>  BY <1>8 DEF MoveTask
  <2> QED  BY <1>2, <1>3, <1>8, <2>1, MovingGoesOn
<1>9. CASE CancelMove
  <2>1. UNCHANGED <<tasks, opts>>  BY <1>9 DEF CancelMove
  <2> QED  BY <1>2, <1>3, <1>9, <2>1, CancelIs
<1> QED  BY <1>4, <1>5, <1>6, <1>7, <1>8, <1>9, ScreenSteps, <1>2

LEMMA MoveKept ==
  ASSUME TuiTypeOK, ViewInv, MoveInv, [Next]_vars
  PROVE  MoveInv'
<1> SUFFICES ASSUME mode' = "move"
             PROVE  Moving(view', sel', tasks', opts', move', start')
  BY DEF MoveInv
<1>1. CASE StartMove
  <2>1. UNCHANGED screen  BY <1>1 DEF StartMove
  <2> QED  BY <1>1, <2>1, MoveBegins DEF screen
<1>2. CASE mode = "move" /\ UNCHANGED modal /\ UNCHANGED screen
  BY <1>2 DEF MoveInv, modal, screen
<1>3. ASSUME NEW delta \in {-1, 1}, MoveTask(delta), UNCHANGED modal
      PROVE  Moving(view', sel', tasks', opts', move', start')
  <2>1. UNCHANGED <<tasks, opts, move, start>>  BY <1>3 DEF MoveTask, modal
  <2> QED  BY <1>3, <2>1, MovingGoesOn
<1> QED  BY <1>1, <1>2, <1>3, ModeSteps
-----------------------------------------------------------------------------
\* The task under the cursor.

LEMMA SelectedIs ==
  ASSUME TuiTypeOK, ViewInv, NEW r \in Selected
  PROVE  /\ sel \in DOMAIN view /\ OnTask(view, sel) /\ r = view[sel].task
         /\ r \in Range(tasks) /\ r \in Row /\ r.text.name \in Names
<1>1. OnTask(view, sel) /\ r = view[sel].task  BY DEF Selected
<1>2. sel \in DOMAIN view /\ view[sel].is = "task"
  BY <1>1 DEF OnTask, TuiTypeOK, ViewInv, GoodView
<1>3. r \in Range(tasks)  BY <1>1, <1>2 DEF ViewInv, GoodView, TaskRowsOf
<1>4. PICK i \in DOMAIN tasks : r = tasks[i]  BY <1>3 DEF Range
<1>5. tasks[i] \in Row /\ tasks[i].text.name \in Names  BY DEF ViewInv, TaskList
<1> QED  BY <1>1, <1>2, <1>3, <1>4, <1>5

LEMMA SelectedIdIs ==
  ASSUME NEW id
  PROVE  /\ id \in SelectedIds <=> OnTask(view, sel) /\ view[sel].task.id = id
         /\ id \in SelectedIds' <=> OnTask(view', sel') /\ view'[sel'].task.id = id
         /\ id \in VisibleIds' <=> \E i \in DOMAIN view' : OnTask(view', i) /\ view'[i].task.id = id
<1>1. Selected = IF OnTask(view, sel) THEN {view[sel].task} ELSE {}  BY DEF Selected
<1>2. Selected' = IF OnTask(view', sel') THEN {view'[sel'].task} ELSE {}  BY DEF Selected
<1> QED  BY <1>1, <1>2 DEF SelectedIds, VisibleIds

LEMMA FollowsTask ==
  ASSUME TuiTypeOK, view' \in Seq(ScreenRow), sel' = Reconcile(view', view, sel),
         NEW id \in SelectedIds, id \in VisibleIds'
  PROVE  id \in SelectedIds'
<1>1. OnTask(view, sel) /\ view[sel].task.id = id  BY SelectedIdIs
<1>2. \E i \in DOMAIN view' : OnTask(view', i) /\ view'[i].task.id = view[sel].task.id
  BY <1>1, SelectedIdIs
<1>3. sel \in Nat  BY DEF TuiTypeOK
<1>4. /\ OnTask(view', Reconcile(view', view, sel))
      /\ view'[Reconcile(view', view, sel)].task.id = view[sel].task.id
  BY <1>1, <1>2, <1>3, ReconcileIs
<1> QED  BY <1>1, <1>4, SelectedIdIs

LEMMA CursorKept ==
  ASSUME TuiTypeOK, ViewInv, MoveInv, ViewInv', [Next]_vars,
         NEW id \in SelectedIds, id \in VisibleIds'
  PROVE  id \in SelectedIds' \/ MoveCursor(-1) \/ MoveCursor(1)
<1>1. view' \in Seq(ScreenRow)  BY DEF ViewInv, GoodView
<1>2. OnTask(view, sel) /\ view[sel].task.id = id  BY SelectedIdIs
<1>3. CASE UNCHANGED screen
  <2>1. view' = view /\ sel' = sel  BY <1>3 DEF screen
  <2> QED  BY <1>2, <2>1, SelectedIdIs
<1>4. CASE Refresh
  <2>1. Rebuild(Listed(rows), opts)  BY <1>4 DEF Refresh
  <2>2. sel' = Reconcile(view', view, sel)  BY <2>1, Made
  <2> QED  BY <1>1, <2>2, FollowsTask
<1>5. CASE \E o \in Options : Rebuild(tasks, o)
  <2>1. PICK o \in Options : Rebuild(tasks, o)  BY <1>5
  <2>2. sel' = Reconcile(view', view, sel)  BY <2>1, Made
  <2> QED  BY <1>1, <2>2, FollowsTask
<1>6. ASSUME NEW delta \in {-1, 1}, MoveTask(delta)  PROVE id \in SelectedIds'
  <2>1. mode = "move"  BY <1>6 DEF MoveTask, Key
  <2>2. Moving(view', sel', tasks, opts, move, start)  BY <1>6, MovingGoesOn
  <2>3. Moving(view, sel, tasks, opts, move, start)  BY <2>1 DEF MoveInv
  <2>4. OnTask(view', sel') /\ view'[sel'].task.id = id  BY <1>2, <2>2, <2>3 DEF Moving
  <2> QED  BY <2>4, SelectedIdIs
<1>7. CASE CancelMove
  <2>1. Moving(view, sel, tasks, opts, move, start)  BY <1>7 DEF CancelMove, Key, MoveInv
  <2>2. OnTask(view', sel') /\ view'[sel'].task.id = move.id  BY <1>7, CancelIs
  <2>3. move.id = id  BY <1>2, <2>1 DEF Moving
  <2> QED  BY <2>2, <2>3, SelectedIdIs
<1> QED  BY <1>3, <1>4, <1>5, <1>6, <1>7, ScreenSteps DEF ViewInv

LEMMA MoveTakenBack ==
  ASSUME TuiTypeOK, ViewInv, MoveInv, CancelMove
  PROVE  view' = start /\ SelectedIds' = {move.id}
<1>1. view' = start /\ OnTask(view', sel') /\ view'[sel'].task.id = move.id  BY CancelIs
<1>2. \A id : id \in SelectedIds' <=> id = move.id  BY <1>1, SelectedIdIs
<1> QED  BY <1>1, <1>2

\* The note modal: the task it was opened on, unless that has left the screen, is selected.
NoteInv == mode = "add note" => Range(start) \in SUBSET SelectedIds

LEMMA ShortRanges ==
  /\ Range(<<>>) = {}
  /\ \A x : Range(<<x>>) = {x}
<1>1. DOMAIN <<>> = {}  OBVIOUS
<1>2. ASSUME NEW x PROVE Range(<<x>>) = {x}
  <2>1. DOMAIN <<x>> = {1} /\ <<x>>[1] = x  OBVIOUS
  <2> QED  BY <2>1 DEF Range
<1> QED  BY <1>1, <1>2 DEF Range

LEMMA NoteKept ==
  ASSUME TuiTypeOK, ViewInv, ViewInv', NoteInv, [Next]_vars
  PROVE  NoteInv'
<1> SUFFICES ASSUME mode' = "add note", NEW id \in Range(start')  PROVE id \in SelectedIds'
  BY DEF NoteInv
<1>1. CASE StartNote
  <2>1. PICK r \in Selected : start' = <<r.id>>  BY <1>1 DEF StartNote
  <2>2. id = r.id
    <3>1. id \in Range(<<r.id>>)  BY <2>1
    <3> QED  BY <3>1, ShortRanges
  <2>3. UNCHANGED <<view, sel>>  BY <1>1 DEF StartNote, screen
  <2>4. OnTask(view, sel) /\ view[sel].task.id = id  BY <2>2, SelectedIs
  <2> QED  BY <2>3, <2>4, SelectedIdIs
<1>2. CASE mode = "add note" /\ UNCHANGED modal /\ UNCHANGED screen
  <2>1. start' = start /\ view' = view /\ sel' = sel  BY <1>2 DEF modal, screen
  <2>2. id \in SelectedIds  BY <1>2, <2>1 DEF NoteInv
  <2> QED  BY <2>1, <2>2, SelectedIdIs
<1>3. CASE mode = "add note" /\ Refresh
  <2>1. /\ Rebuild(Listed(rows), opts)
        /\ start' = IF Range(start) \subseteq VisibleIds' THEN start ELSE <<>>
    BY <1>3 DEF Refresh
  <2>2. sel' = Reconcile(view', view, sel)  BY <2>1, Made
  <2>3. start' = start /\ Range(start) \subseteq VisibleIds'
    <3>1. Range(<<>>) = {}  BY ShortRanges
    <3> QED  BY <2>1, <3>1
  <2>4. id \in SelectedIds /\ id \in VisibleIds'  BY <1>3, <2>3 DEF NoteInv
  <2>5. view' \in Seq(ScreenRow)  BY DEF ViewInv, GoodView
  <2> QED  BY <2>2, <2>4, <2>5, FollowsTask
<1> QED  BY <1>1, <1>2, <1>3, ModeSteps

LEMMA NoteGoesThere ==
  ASSUME TuiTypeOK, ViewInv, NoteInv, SubmitNote, NEW id \in Range(start), NEW a \in sent'
  PROVE  a.task = id
<1>1. mode = "add note"  BY DEF SubmitNote, Key
<1>2. OnTask(view, sel) /\ view[sel].task.id = id  BY <1>1, SelectedIdIs DEF NoteInv
<1>3. PICK r \in Selected : \E b \in NoteRequests(r) : Enqueue(b)  BY DEF SubmitNote
<1>4. PICK b \in NoteRequests(r) : Enqueue(b)  BY <1>3
<1>5. sent' = {b}  BY <1>4 DEF Enqueue
<1>6. r = view[sel].task /\ r \in Row  BY SelectedIs
<1>7. PICK name \in Typed : b = [ActionOn(r, "add_note") EXCEPT !.typed = name]
  BY <1>4 DEF NoteRequests
<1>8. b.task = r.id
  <2>1. ActionOn(r, "add_note") \in Action /\ ActionOn(r, "add_note").task = r.id
    BY <1>6, ActionOnType DEF Types
  <2> QED  BY <1>7, <2>1 DEF Action
<1> QED  BY <1>2, <1>5, <1>6, <1>8
-----------------------------------------------------------------------------
\* What the session asks for, and what it learns of it.

LEMMA Bookkeeping ==
  ASSUME [Next]_vars
  PROVE  \/ UNCHANGED <<queue, tracked, own, told, dropped>>
         \/ (Answer("done") \/ Answer("failed") \/ OtherClient)
            /\ UNCHANGED <<tracked, own, told, dropped>>
         \/ Refresh
         \/ \E a \in sent' : Enqueue(a)
<1>1. CASE UNCHANGED vars  BY <1>1 DEF vars, db, asked
<1>2. CASE \E n \in Notes : Scan(n)  BY <1>2 DEF Scan, asked
<1>3. CASE Answer("done") \/ Answer("failed") \/ OtherClient
  BY <1>3 DEF Answer, OtherClient, asked
<1>5. CASE ViewKeys
  BY <1>5 DEF ViewKeys, MoveCursor, CycleFilter, CycleGroup, ToggleToday, ToggleOverdue,
              ToggleBoard, FoldGroup, FoldLane, ExpandAll, CollapseAll, StartSearch, EditQuery,
              ClearSearch, Show, db, asked
<1>6. CASE ModalKeys
  BY <1>6 DEF ModalKeys, StartQuickAdd, StartNote, Close, StartMove, RefuseMove, MoveTask,
              EndMove, CancelMove, RefuseArchive, Refuse, db, asked
<1>7. CASE Asking
  <2>1. ASSUME NEW a, Enqueue(a) PROVE \E b \in sent' : Enqueue(b)  BY <2>1 DEF Enqueue
  <2>2. ASSUME NEW a, Ask(a) PROVE \E b \in sent' : Enqueue(b)  BY <2>1, <2>2 DEF Ask
  <2>3. ASSUME NEW a, AskOnce(a) PROVE \E b \in sent' : Enqueue(b)  BY <2>2, <2>3 DEF AskOnce
  <2>4. CASE Flip  BY <2>2, <2>4 DEF Flip
  <2>5. CASE ToggleBullet  BY <2>2, <2>5 DEF ToggleBullet
  <2>6. CASE MarkForToday  BY <2>3, <2>6 DEF MarkForToday
  <2>7. CASE Undo  BY <2>3, <2>7 DEF Undo
  <2>8. CASE SubmitQuickAdd  BY <2>1, <2>8 DEF SubmitQuickAdd
  <2>9. CASE SubmitNote  BY <2>1, <2>9 DEF SubmitNote
  <2>10. CASE CommitMove  BY <2>1, <2>10 DEF CommitMove
  <2>11. CASE ArchiveCompleted  BY <2>1, <2>11 DEF ArchiveCompleted
  <2> QED  BY <1>7, <2>4, <2>5, <2>6, <2>7, <2>8, <2>9, <2>10, <2>11 DEF Asking
<1> QED  BY <1>1, <1>2, <1>3, <1>5, <1>6, <1>7, NextCases

LEMMA GreatestIs ==
  ASSUME NEW S \in SUBSET Int, IsFiniteSet(S), S # {}
  PROVE  \E m \in S : \A j \in S : m >= j
<1> DEFINE n == Cardinality(S)
           m == Nth(S, n)
<1>1. n \in Nat /\ n # 0  BY FS_CardinalityType, FS_EmptySet
<1>2. m \in S /\ Rank(S, m) = n - 1
  <2>1. n \in 1..n  BY <1>1
  <2> QED  BY <2>1, NthType
<1> HIDE DEF m
<1>3. ASSUME NEW j \in S PROVE m >= j
  <2> SUFFICES ASSUME m < j PROVE FALSE  BY <1>2
  <2>1. Rank(S, m) < Rank(S, j)  BY <1>2, RankMonotone
  <2>2. Rank(S, j) < n  BY RankBound
  <2>3. Rank(S, j) \in Nat  BY RankType
  <2> HIDE DEF n
  <2> QED  BY <1>1, <1>2, <2>1, <2>2, <2>3
<1> QED  BY <1>2, <1>3

\* Every action of the session is tracked, or was dropped, or its outcome is known to be good,
\* or a failure as new was shown.
TrackInv ==
    /\ tracked \in Seq(Nat)
    /\ \A k \in own : \/ k \in Range(tracked) \cup dropped
                      \/ queue[k] = "done"
                      \/ queue[k] = "failed" /\ \E j \in told : j >= k

\* The numbers of actions are numbers of actions in the queue.
TrackType ==
    /\ queue \in Seq({"pending", "done", "failed"})
    /\ Range(tracked) \cup told \cup dropped \subseteq own /\ own \subseteq DOMAIN queue
    /\ Len(tracked) <= TrackCap

LEMMA EnqueueTracks ==
  ASSUME TrackType, TrackInv, NEW a, Enqueue(a)
  PROVE  TrackType' /\ TrackInv'
<1> DEFINE id == Len(queue) + 1
           s == Append(tracked, id)
<1>1. /\ queue \in Seq({"pending", "done", "failed"}) /\ Len(queue) \in Nat
      /\ DOMAIN queue = 1..Len(queue)
      /\ tracked \in Seq(Nat) /\ Len(tracked) <= TrackCap /\ Len(tracked) \in Nat
  BY DEF TrackType, TrackInv
<1>2. /\ queue' = Append(queue, "pending") /\ own' = own \cup {id} /\ told' = told
      /\ tracked' = Latest(s)
      /\ dropped' = dropped \cup ((Range(tracked) \cup {id}) \ Range(Latest(s)))
  BY DEF Enqueue
<1>3. /\ queue' \in Seq({"pending", "done", "failed"}) /\ DOMAIN queue' = 1..id
      /\ \A k \in DOMAIN queue : queue'[k] = queue[k]
  BY <1>1, <1>2
<1>4. TrackCap \in Nat  BY SessionAssumption
<1>5. /\ s \in Seq(Nat) /\ Len(s) = Len(tracked) + 1 /\ DOMAIN s = 1..(Len(tracked) + 1)
      /\ \A i \in DOMAIN s : s[i] = IF i \in DOMAIN tracked THEN tracked[i] ELSE id
  <2>1. id \in Nat  BY <1>1
  <2> HIDE DEF id
  <2> QED  BY <1>1, <2>1
<1> HIDE DEF s
<1>6. Range(s) \subseteq Range(tracked) \cup {id}  BY <1>5 DEF Range
<1>7. /\ Latest(s) \in Seq(Nat) /\ Len(Latest(s)) <= TrackCap
      /\ Range(Latest(s)) \subseteq Range(s)
  <2>1. Len(s) <= TrackCap + 1  BY <1>1, <1>4, <1>5
  <2> QED  BY <1>5, <2>1, LatestIs
<1>8. DOMAIN queue \subseteq DOMAIN queue' /\ id \in DOMAIN queue'  BY <1>1, <1>3
<1> HIDE DEF id
<1>9. TrackType'
  <2>1. Range(tracked') \cup told' \cup dropped' \subseteq own'
    BY <1>2, <1>6, <1>7 DEF TrackType
  <2>2. own' \subseteq DOMAIN queue'  BY <1>2, <1>8 DEF TrackType
  <2> QED  BY <1>2, <1>3, <1>7, <2>1, <2>2 DEF TrackType
<1>10. ASSUME NEW k \in own'
       PROVE  \/ k \in Range(tracked') \cup dropped'
              \/ queue'[k] = "done"
              \/ queue'[k] = "failed" /\ \E j \in told' : j >= k
  <2>1. CASE k \in Range(tracked) \cup dropped \cup {id}  BY <1>2, <2>1
  <2>2. CASE k \notin Range(tracked) \cup dropped \cup {id}
    <3>1. k \in own /\ k \in DOMAIN queue  BY <1>2, <2>2 DEF TrackType
    <3>2. queue'[k] = queue[k] /\ told' = told  BY <1>2, <1>3, <3>1
    <3>3. \/ k \in Range(tracked) \cup dropped
          \/ queue[k] = "done"
          \/ queue[k] = "failed" /\ \E j \in told : j >= k
      BY <3>1 DEF TrackInv
    <3> QED  BY <2>2, <3>2, <3>3
  <2> QED  BY <2>1, <2>2
<1> QED  BY <1>2, <1>7, <1>9, <1>10 DEF TrackInv

LEMMA PollTracks ==
  ASSUME TrackType, TrackInv, Poll, UNCHANGED queue
  PROVE  TrackType' /\ TrackInv' /\ NewestFailure \subseteq DOMAIN queue
<1> DEFINE failed == {k \in Known : queue[k] = "failed"}
<1>1. /\ queue \in Seq({"pending", "done", "failed"}) /\ Len(queue) \in Nat
      /\ DOMAIN queue = 1..Len(queue) /\ tracked \in Seq(Nat) /\ Len(tracked) \in Nat
  BY DEF TrackType, TrackInv
<1>2. Known \subseteq Range(tracked) /\ Known \subseteq Resolved
  BY DEF Known, Recent
<1>3. \A k \in Known : k \in DOMAIN queue /\ queue[k] \in {"done", "failed"}
  BY <1>1, <1>2 DEF Resolved
<1>4. /\ tracked' \in Seq(Nat) /\ Len(tracked') <= Len(tracked)
      /\ Range(tracked') = Range(tracked) \ Known
  <2>1. tracked' = Without(tracked, Known)  BY DEF Poll, Forget, Without
  <2> QED  BY <1>1, <2>1, ForgetIs
<1>5. told' = told \cup NewestFailure /\ own' = own /\ dropped' = dropped  BY DEF Poll
<1>6. NewestFailure \subseteq Known /\ NewestFailure \subseteq DOMAIN queue
  BY <1>3 DEF NewestFailure
<1>7. ASSUME NEW k \in failed PROVE \E j \in NewestFailure : j >= k
  <2>1. failed \in SUBSET (1..Len(queue)) /\ IsFiniteSet(1..Len(queue))  BY <1>1, <1>3, FS_Interval
  <2>2. failed \in SUBSET Int /\ IsFiniteSet(failed)  BY <1>1, <2>1, FS_Subset
  <2>3. failed # {}  BY <1>7
  <2>4. PICK m \in failed : \A j \in failed : m >= j
    <3> HIDE DEF failed
    <3> QED  BY <2>2, <2>3, GreatestIs
  <2>5. m \in NewestFailure  BY <2>4 DEF NewestFailure
  <2>6. m >= k  BY <1>7, <2>4
  <2> QED  BY <2>5, <2>6
<1>8. Len(tracked') <= TrackCap
  <2>1. Len(tracked') \in Nat /\ TrackCap \in Nat /\ Len(tracked) <= TrackCap
    BY <1>4, SessionAssumption DEF TrackType
  <2> QED  BY <1>1, <1>4, <2>1
<1>9. TrackType'
  <2>1. Range(tracked') \cup told' \cup dropped' \subseteq own'
    BY <1>2, <1>4, <1>5, <1>6 DEF TrackType
  <2> QED  BY <1>5, <1>8, <2>1 DEF TrackType
<1>10. ASSUME NEW k \in own
       PROVE  \/ k \in Range(tracked') \cup dropped
              \/ queue[k] = "done"
              \/ queue[k] = "failed" /\ \E j \in told' : j >= k
  <2>1. CASE k \in Known
    <3>1. queue[k] = "failed" => k \in failed  BY <2>1
    <3>2. queue[k] = "failed" => \E j \in told' : j >= k  BY <1>5, <1>7, <3>1
    <3> QED  BY <1>3, <2>1, <3>2
  <2>2. CASE k \notin Known
    <3>1. \/ k \in Range(tracked) \cup dropped
          \/ queue[k] = "done"
          \/ queue[k] = "failed" /\ \E j \in told : j >= k
      BY DEF TrackInv
    <3> QED  BY <1>4, <1>5, <2>2, <3>1
  <2> QED  BY <2>1, <2>2
<1> QED  BY <1>4, <1>5, <1>6, <1>9, <1>10 DEF TrackInv

LEMMA ResolutionTracks ==
  ASSUME TrackType, TrackInv, Answer("done") \/ Answer("failed") \/ OtherClient,
         UNCHANGED <<tracked, own, told, dropped>>
  PROVE  TrackType' /\ TrackInv'
<1>1. /\ queue \in Seq({"pending", "done", "failed"}) /\ Len(queue) \in Nat
      /\ DOMAIN queue = 1..Len(queue)
  BY DEF TrackType
<1>2. /\ queue' \in Seq({"pending", "done", "failed"}) /\ DOMAIN queue \subseteq DOMAIN queue'
      /\ \A k \in DOMAIN queue : queue[k] # "pending" => queue'[k] = queue[k]
  <2>1. CASE OtherClient  BY <1>1, <2>1 DEF OtherClient
  <2>2. ASSUME NEW state \in {"done", "failed"}, Answer(state)
        PROVE  /\ queue' \in Seq({"pending", "done", "failed"})
               /\ DOMAIN queue \subseteq DOMAIN queue'
               /\ \A k \in DOMAIN queue : queue[k] # "pending" => queue'[k] = queue[k]
    <3>1. PICK k \in Oldest : queue' = [queue EXCEPT ![k] = state]  BY <2>2 DEF Answer
    <3>2. k \in DOMAIN queue /\ queue[k] = "pending"  BY DEF Oldest, Resolved
    <3> QED  BY <1>1, <3>1, <3>2
  <2> QED  BY <2>1, <2>2
<1>3. TrackType'  BY <1>2 DEF TrackType
<1>4. ASSUME NEW k \in own
      PROVE  \/ k \in Range(tracked) \cup dropped
             \/ queue'[k] = "done"
             \/ queue'[k] = "failed" /\ \E j \in told : j >= k
  <2>1. k \in DOMAIN queue  BY DEF TrackType
  <2>2. \/ k \in Range(tracked) \cup dropped
        \/ queue[k] = "done"
        \/ queue[k] = "failed" /\ \E j \in told : j >= k
    BY DEF TrackInv
  <2> QED  BY <1>2, <2>1, <2>2
<1> QED  BY <1>3, <1>4 DEF TrackInv

LEMMA TrackKept ==
  ASSUME TrackType, TrackInv, [Next]_vars
  PROVE  TrackType' /\ TrackInv'
<1>1. CASE UNCHANGED <<queue, tracked, own, told, dropped>>  BY <1>1 DEF TrackType, TrackInv
<1>2. CASE Refresh
  <2>1. Poll /\ UNCHANGED queue  BY <1>2 DEF Refresh, db
  <2> QED  BY <2>1, PollTracks
<1> QED  BY <1>1, <1>2, Bookkeeping, EnqueueTracks, ResolutionTracks
-----------------------------------------------------------------------------
\* Each action that is asked for is one the daemon's side allows for.

LEMMA FlipTargets ==
  ASSUME NEW char
  PROVE  {ToggleTarget(char), CancelTarget(char), InProgressTarget(char)} \cup LaneTargets(char)
         \in SUBSET TargetChars(char)
<1>1. {ToggleTarget(char), CancelTarget(char), InProgressTarget(char)} \in SUBSET TargetChars(char)
  BY DEF ToggleTarget, CancelTarget, InProgressTarget, TargetChars
<1>2. ASSUME NEW c \in LaneTargets(char)  PROVE c \in TargetChars(char)
  <2>1. PICK i \in DOMAIN Lanes :
          c = Lanes[i] /\ \E j \in {i - 1, i + 1} \cap DOMAIN Lanes : Lanes[j] = LaneOf(char)
    BY DEF LaneTargets
  <2>2. PICK j \in {i - 1, i + 1} \cap DOMAIN Lanes : Lanes[j] = LaneOf(char)  BY <2>1
  <2>3. /\ DOMAIN Lanes = 1..4 /\ Lanes[1] = "/" /\ Lanes[2] = "!" /\ Lanes[3] = " "
        /\ Lanes[4] = "x"
    BY DEF Lanes
  <2>4. i \in 1..4 /\ j \in 1..4 /\ i # j
    <3>1. i \in 1..4 /\ j \in 1..4  BY <2>2, <2>3
    <3>2. j = i - 1 \/ j = i + 1  BY <2>2
    <3> QED  BY <3>1, <3>2
  <2>5. i \in {1, 2, 3, 4} /\ j \in {1, 2, 3, 4}  BY <2>4
  <2>6. c = Lanes[i] /\ LaneOf(char) = Lanes[j]  BY <2>1, <2>2
  <2>7. c \in {"/", "!", " ", "x"} /\ c # LaneOf(char)
    <3>1. CASE i = 1  BY <2>3, <2>4, <2>5, <2>6, <3>1
    <3>2. CASE i = 2  BY <2>3, <2>4, <2>5, <2>6, <3>2
    <3>3. CASE i = 3  BY <2>3, <2>4, <2>5, <2>6, <3>3
    <3>4. CASE i = 4  BY <2>3, <2>4, <2>5, <2>6, <3>4
    <3> QED  BY <2>5, <3>1, <3>2, <3>3, <3>4
  <2>8. c # char  BY <2>7 DEF LaneOf
  <2> QED  BY <2>7, <2>8 DEF TargetChars
<1> QED  BY <1>1, <1>2

\* Of a list without repetitions the tasks of one note have different lines.
LEMMA CommitAllowed ==
  ASSUME TuiTypeOK, ViewInv, MoveInv, Key("move"), RunIds # move.order, NEW r \in Selected
  PROVE  [ActionOn(r, "reorder") EXCEPT !.lines = RunLines, !.base = r.hash]
         \in ReorderRequests(Range(tasks), r)
<1> DEFINE R == RunOf(view, sel)
           n == Cardinality(R)
           S == Range(RunLines)
           T == Range(tasks)
<1>1. Moving(view, sel, tasks, opts, move, start)  BY DEF MoveInv, Key
<1>2. /\ sel \in DOMAIN view /\ OnTask(view, sel) /\ r = view[sel].task
      /\ view \in Seq(ScreenRow) /\ GoodView(view, tasks, opts)
  BY SelectedIs DEF ViewInv, GoodView
<1>3. /\ DOMAIN RunIds = 1..n /\ DOMAIN RunLines = 1..n /\ Len(RunLines) = n
      /\ RunIds \in Seq(Nat)
      /\ \A k \in 1..n : /\ Nth(R, k) \in R
                         /\ RunIds[k] = view[Nth(R, k)].task.id
                         /\ RunLines[k] = view[Nth(R, k)].task.line
  BY <1>2, RunIs
<1>4. /\ R \in SUBSET Int /\ R \in SUBSET DOMAIN view /\ IsFiniteSet(R) /\ n \in Nat
      /\ sel \in R /\ \A i \in R : view[i].is = "task"
      /\ \A i \in R : RunOf(view, i) = R
  BY <1>2, RunOfIs
<1>5. ASSUME NEW i \in R
      PROVE  view[i].task \in RowsOf(T, r.note) /\ view[i].task.line \in LinesOf(T, r.note)
  <2>1. view[i].task \in T  BY <1>2, <1>4 DEF GoodView, TaskRowsOf
  <2>2. view[i].task.note = r.note  BY <1>1, <1>2 DEF Moving
  <2> QED  BY <2>1, <2>2 DEF RowsOf, LinesOf
<1>6. ASSUME NEW i \in R, NEW k \in R, view[i].task.line = view[k].task.line
      PROVE  i = k
  <2>1. view[i].task \in RowsOf(T, r.note) /\ view[k].task \in RowsOf(T, r.note)  BY <1>5
  <2>2. view[i].task = view[k].task  BY <1>6, <2>1 DEF RowsOf, ViewInv, Snapshot
  <2>3. Joined(view, i, k)
    <3>1. k \in RunOf(view, i)  BY <1>4
    <3> QED  BY <3>1 DEF RunOf
  <2> QED  BY <1>2, <1>4, <2>2, <2>3 DEF GoodView, NoTaskTwice
<1>7. \A k, l \in 1..n : Nth(R, k) = Nth(R, l) => k = l  BY <1>4, NthOrder
<1>8. \A i \in R : Rank(R, i) + 1 \in 1..n /\ Nth(R, Rank(R, i) + 1) = i  BY <1>4, NthOrder
<1> HIDE DEF R, n
<1>9. \A k, l \in 1..n : RunLines[k] = RunLines[l] => k = l
  <2> SUFFICES ASSUME NEW k \in 1..n, NEW l \in 1..n, RunLines[k] = RunLines[l] PROVE k = l
    OBVIOUS
  <2>1. /\ Nth(R, k) \in R /\ Nth(R, l) \in R
        /\ view[Nth(R, k)].task.line = view[Nth(R, l)].task.line
    BY <1>3
  <2>2. Nth(R, k) = Nth(R, l)  BY <1>6, <2>1
  <2> QED  BY <1>7, <2>2
<1>10. S \in SUBSET LinesOf(T, r.note)
  <2> SUFFICES ASSUME NEW k \in 1..n PROVE RunLines[k] \in LinesOf(T, r.note)
    BY <1>3 DEF Range
  <2> QED  BY <1>3, <1>5
<1>11. RunLines \in [1..n -> S] /\ IsInjective(RunLines)
  <2>1. RunLines = [k \in 1..n |-> view[Nth(R, k)].task.line]
    <3>1. RunLines = [k \in 1..n |-> RunLines[k]]  BY <1>3 DEF RunLines
    <3> QED  BY <1>3, <3>1
  <2>2. RunLines \in [1..n -> S]  BY <1>3, <2>1 DEF Range
  <2> QED  BY <1>3, <1>9, <2>2 DEF IsInjective
<1>12. Cardinality(S) = n
  <2>1. IsFiniteSet(1..n) /\ Cardinality(1..n) = n  BY <1>4, FS_Interval
  <2>2. RunLines \in Surjection(1..n, S)  BY <1>3, <1>11 DEF Surjection, Range
  <2>3. RunLines \in Injection(1..n, S)  BY <1>9, <1>11 DEF Injection, IsInjective
  <2> HIDE DEF S
  <2> QED  BY <2>1, <2>2, <2>3, FS_Surjection
<1>13. r.line \in S
  <2>1. Rank(R, sel) + 1 \in 1..n /\ RunLines[Rank(R, sel) + 1] = r.line
    BY <1>2, <1>3, <1>4, <1>8
  <2> QED  BY <1>3, <2>1 DEF Range
<1>14. n > 1
  <2> SUFFICES ASSUME n <= 1 PROVE RunIds = move.order  BY <1>4
  <2>1. n = 1  BY <1>4, <1>8
  <2>2. \A i \in R : i = sel  BY <1>3, <1>4, <1>7, <1>8, <2>1
  <2>3. PICK k \in R : view[sel] = start[k]  BY <1>1, <1>4 DEF Moving, R
  <2>4. start[sel] = view[sel]  BY <2>2, <2>3
  <2>5. Nth(R, 1) = sel /\ Rank(R, sel) + 1 = 1  BY <1>3, <1>4, <1>8, <2>1, <2>2
  <2>6. move.order[1] = start[sel].task.id /\ Len(move.order) = 1
    BY <1>1, <1>4, <2>1, <2>5 DEF Moving, R, n
  <2>7. RunIds[1] = view[sel].task.id  BY <1>3, <2>1, <2>5
  <2>8. move.order \in Seq(Nat) /\ RunIds \in Seq(Nat) /\ Len(RunIds) = 1
    BY <1>3, <2>1 DEF TuiTypeOK
  <2>9. RunIds[1] = move.order[1]  BY <2>4, <2>6, <2>7
  <2> HIDE DEF T, S
  <2> QED  BY <2>6, <2>8, <2>9
<1>15. AllFlat(T, r.note)  BY <1>1, <1>2 DEF Moving
<1>16. RunLines \in UNION {[1..Cardinality(Q) -> Q] : Q \in SUBSET LinesOf(T, r.note)}
  BY <1>10, <1>11, <1>12
<1> QED
  BY <1>3, <1>11, <1>13, <1>14, <1>15, <1>16 DEF ReorderRequests

LEMMA TasksFinite ==
  ASSUME NEW ts \in Seq(Row)
  PROVE  Range(ts) \in SUBSET Row /\ IsFiniteSet(Range(ts))
<1>1. DOMAIN ts = 1..Len(ts) /\ Len(ts) \in Nat /\ IsFiniteSet(1..Len(ts))  BY FS_Interval
<1>2. [i \in DOMAIN ts |-> ts[i]] \in Surjection(DOMAIN ts, Range(ts))  BY DEF Surjection, Range
<1>3. IsFiniteSet(Range(ts))  BY <1>1, <1>2, FS_Surjection
<1> QED  BY <1>3 DEF Range

LEMMA ArchiveAllowed ==
  ASSUME TuiTypeOK, ViewInv, NEW r \in Selected, ArchiveRefusals(r) = {}
  PROVE  LET closed == {q \in RowsOf(Range(tasks), r.note) : IsClosed(q.char)}
             first  == CHOOSE q \in closed : \A p \in closed : q.line <= p.line
         IN  /\ first \in Range(tasks)
             /\ [ActionOn(first, "archive") EXCEPT
                   !.lines = InOrder({q.line : q \in closed}), !.base = first.hash]
                \in ArchiveRequests(Range(tasks), first)
<1> DEFINE T == Range(tasks)
           closed == {q \in RowsOf(T, r.note) : IsClosed(q.char)}
           first  == CHOOSE q \in closed : \A p \in closed : q.line <= p.line
           L == {q.line : q \in closed}
<1>1. AllFlat(T, r.note) /\ closed # {} /\ r.note # Archive
  <2>1. AllFlat(T, r.note)  BY DEF ArchiveRefusals
  <2>2. ~ \A q \in RowsOf(T, r.note) : ~IsClosed(q.char)  BY <2>1 DEF ArchiveRefusals
  <2> QED  BY <2>1, <2>2 DEF ArchiveRefusals
<1>2. T \in SUBSET Row /\ IsFiniteSet(T)  BY TasksFinite DEF TuiTypeOK
<1>3. L \in SUBSET Int /\ IsFiniteSet(L) /\ L # {}
  <2>1. L \in SUBSET LinesOf(T, r.note)  BY DEF LinesOf
  <2>2. LinesOf(T, r.note) \in SUBSET Nat /\ IsFiniteSet(LinesOf(T, r.note))
    BY <1>2, LinesOfType
  <2>3. L # {}  BY <1>1
  <2> HIDE DEF L
  <2> QED  BY <2>1, <2>2, <2>3, FS_Subset
<1>4. \E q \in closed : \A p \in closed : q.line <= p.line
  <2>1. First(L) \in L /\ \A j \in L : First(L) <= j
    <3> HIDE DEF L
    <3> QED  BY <1>3, FirstLeast
  <2>2. PICK q \in closed : q.line = First(L)  BY <2>1
  <2> QED  BY <2>1, <2>2
<1> HIDE DEF closed
<1>5. first \in closed /\ \A p \in closed : first.line <= p.line  BY <1>4
<1> HIDE DEF first
<1>6. first \in T /\ first.note = r.note  BY <1>5 DEF closed, RowsOf
<1>7. closed = {q \in RowsOf(T, first.note) : IsClosed(q.char)}  BY <1>6 DEF closed
<1>8. [ActionOn(first, "archive") EXCEPT !.lines = InOrder(L), !.base = first.hash]
      \in ArchiveRequests(T, first)
  <2>1. first \in {p \in closed : /\ p = first
                                  /\ first.note # Archive
                                  /\ AllFlat(T, first.note)
                                  /\ \A o \in closed : first.line <= o.line}
    BY <1>1, <1>5, <1>6
  <2> QED  BY <1>7, <2>1 DEF ArchiveRequests
<1> QED  BY <1>6, <1>8 DEF first, closed

\* What is asked for is a gesture on a listed task, a quick add, or takes the last one back.
Allowed(a) == \/ \E r \in Range(tasks) : a \in Requests(Range(tasks), r)
              \/ a \in QuickAddRequests
              \/ last' = last /\ \E b \in last : a \in Reversals(b)

LEMMA AskingIs ==
  ASSUME TuiTypeOK, ViewInv, MoveInv, Asking
  PROVE  \E a : /\ sent' = {a} /\ Allowed(a) /\ tasks' = tasks
                /\ last' = last \/ last' = {a}
<1> DEFINE G == \E a : /\ sent' = {a} /\ Allowed(a) /\ tasks' = tasks
                       /\ last' = last \/ last' = {a}
<1>1. ASSUME NEW a, Enqueue(a), Allowed(a), last' = last \/ last' = {a}  PROVE G
  <2>1. sent' = {a} /\ tasks' = tasks  BY <1>1 DEF Enqueue, screen
  <2> QED  BY <1>1, <2>1
<1> SUFFICES G  OBVIOUS
<1> HIDE DEF G
<1>2. \A r \in Selected : r \in Range(tasks) /\ r \in Row  BY SelectedIs
<1>3. CASE Flip
  <2>1. PICK r \in Selected :
          \E char \in {ToggleTarget(r.char), CancelTarget(r.char), InProgressTarget(r.char)}
                      \cup LaneTargets(r.char) :
             LET a == [ActionOn(r, "checkbox") EXCEPT !.expected = r.char, !.new = char]
             IN  Ask(a) /\ last' = {a}
    BY <1>3 DEF Flip
  <2>2. PICK char \in TargetChars(r.char) :
          LET a == [ActionOn(r, "checkbox") EXCEPT !.expected = r.char, !.new = char]
          IN  Ask(a) /\ last' = {a}
    BY <2>1, FlipTargets
  <2> DEFINE a == [ActionOn(r, "checkbox") EXCEPT !.expected = r.char, !.new = char]
  <2>3. Enqueue(a) /\ last' = {a}  BY <2>2 DEF Ask
  <2>4. a \in FlipRequests(r)  BY DEF FlipRequests
  <2> HIDE DEF a
  <2>5. a \in Requests(Range(tasks), r)  BY <2>4 DEF Requests
  <2>6. Allowed(a)  BY <1>2, <2>5 DEF Allowed
  <2> QED  BY <1>1, <2>3, <2>6
<1>4. CASE ToggleBullet
  <2>1. PICK r \in Selected : LET a == ActionOn(r, "toggle_bullet") IN Ask(a) /\ last' = {a}
    BY <1>4 DEF ToggleBullet
  <2> DEFINE a == ActionOn(r, "toggle_bullet")
  <2>2. Enqueue(a) /\ last' = {a}  BY <2>1 DEF Ask
  <2>3. a \in Requests(Range(tasks), r)  BY DEF Requests, BulletRequests
  <2> HIDE DEF a
  <2>4. Allowed(a)  BY <1>2, <2>3 DEF Allowed
  <2> QED  BY <1>1, <2>2, <2>4
<1>5. CASE MarkForToday
  <2>1. PICK r \in Selected :
          AskOnce([ActionOn(r, "set_scheduled") EXCEPT
                     !.want = IF r.text.sched = Today THEN NoDate ELSE Today])
    BY <1>5 DEF MarkForToday
  <2> DEFINE date == IF r.text.sched = Today THEN NoDate ELSE Today
             a == [ActionOn(r, "set_scheduled") EXCEPT !.want = date]
  <2>2. Enqueue(a) /\ last' = last  BY <2>1 DEF AskOnce, Ask
  <2>3. date \in Days \cup {NoDate}  BY RequestAssumption
  <2> HIDE DEF date
  <2>4. a \in ScheduleRequests(r)  BY <2>3 DEF ScheduleRequests
  <2> HIDE DEF a
  <2>5. Allowed(a)  BY <1>2, <2>4 DEF Allowed, Requests
  <2> QED  BY <1>1, <2>2, <2>5
<1>6. CASE Undo
  <2>1. PICK b \in last : \E a \in Reversals(b) : AskOnce(a)  BY <1>6 DEF Undo
  <2>2. PICK a \in Reversals(b) : AskOnce(a)  BY <2>1
  <2>3. Enqueue(a) /\ last' = last  BY <2>2 DEF AskOnce, Ask
  <2>4. Allowed(a)  BY <2>2, <2>3 DEF Allowed
  <2> QED  BY <1>1, <2>3, <2>4
<1>7. CASE SubmitQuickAdd
  <2>1. PICK a \in QuickAddRequests : Enqueue(a) /\ last' = {a}  BY <1>7 DEF SubmitQuickAdd
  <2>2. Allowed(a)  BY <2>1 DEF Allowed
  <2> QED  BY <1>1, <2>1, <2>2
<1>8. CASE SubmitNote
  <2>1. PICK r \in Selected : \E a \in NoteRequests(r) : Enqueue(a)  BY <1>8 DEF SubmitNote
  <2>2. PICK a \in NoteRequests(r) : Enqueue(a)  BY <2>1
  <2>3. last' = last  BY <1>8 DEF SubmitNote
  <2>4. Allowed(a)  BY <1>2, <2>2 DEF Allowed, Requests
  <2> QED  BY <1>1, <2>2, <2>3, <2>4
<1>9. CASE CommitMove
  <2>1. PICK r \in Selected :
          Enqueue([ActionOn(r, "reorder") EXCEPT !.lines = RunLines, !.base = r.hash])
    BY <1>9 DEF CommitMove
  <2> DEFINE a == [ActionOn(r, "reorder") EXCEPT !.lines = RunLines, !.base = r.hash]
  <2>2. Key("move") /\ RunIds # move.order /\ last' = last  BY <1>9 DEF CommitMove
  <2>3. a \in ReorderRequests(Range(tasks), r)  BY <2>2, CommitAllowed
  <2> HIDE DEF a
  <2>4. Allowed(a)  BY <1>2, <2>3 DEF Allowed, Requests
  <2>5. Enqueue(a)  BY <2>1 DEF a
  <2> QED  BY <1>1, <2>2, <2>4, <2>5
<1>10. CASE ArchiveCompleted
  <2>1. PICK r \in Selected :
          /\ ArchiveRefusals(r) = {}
          /\ LET closed == {q \in RowsOf(Range(tasks), r.note) : IsClosed(q.char)}
                 first  == CHOOSE q \in closed : \A p \in closed : q.line <= p.line
             IN  Enqueue([ActionOn(first, "archive") EXCEPT
                            !.lines = InOrder({q.line : q \in closed}), !.base = first.hash])
    BY <1>10 DEF ArchiveCompleted
  <2> DEFINE closed == {q \in RowsOf(Range(tasks), r.note) : IsClosed(q.char)}
             first  == CHOOSE q \in closed : \A p \in closed : q.line <= p.line
             a == [ActionOn(first, "archive") EXCEPT
                     !.lines = InOrder({q.line : q \in closed}), !.base = first.hash]
  <2>2. first \in Range(tasks) /\ a \in ArchiveRequests(Range(tasks), first)
    BY <2>1, ArchiveAllowed
  <2>3. Enqueue(a)  BY <2>1
  <2>4. last' = last  BY <1>10 DEF ArchiveCompleted
  <2> HIDE DEF a, first
  <2>5. Allowed(a)  BY <2>2 DEF Allowed, Requests
  <2> QED  BY <1>1, <2>3, <2>4, <2>5
<1> QED  BY <1>3, <1>4, <1>5, <1>6, <1>7, <1>8, <1>9, <1>10 DEF Asking

LEMMA AskedIs ==
  ASSUME TuiTypeOK, ViewInv, MoveInv, Asking
  PROVE  /\ AsksWhatTheCoreAllows'
         /\ sent' \in SUBSET Action /\ last' \in SUBSET Action /\ Cardinality(last') <= 1
<1>1. PICK a : /\ sent' = {a} /\ Allowed(a) /\ tasks' = tasks
               /\ last' = last \/ last' = {a}
  BY AskingIs
<1>2. AsksWhatTheCoreAllows'  BY <1>1 DEF Allowed, AsksWhatTheCoreAllows
<1>3. Range(tasks) \in SUBSET Row /\ IsFiniteSet(Range(tasks))  BY TasksFinite DEF TuiTypeOK
<1>4. last \in SUBSET Action /\ Cardinality(last) <= 1  BY DEF TuiTypeOK
<1>5. a \in Action
  <2>1. ASSUME NEW r \in Range(tasks), a \in Requests(Range(tasks), r)  PROVE a \in Action
    BY <1>3, <2>1, RequestsType
  <2>2. CASE a \in QuickAddRequests
    <3>1. PICK name \in Typed : a = [NoteAction(Inbox, "quick_add") EXCEPT !.typed = name]
      BY <2>2 DEF QuickAddRequests
    <3>2. NoteAction(Inbox, "quick_add") \in Action
      BY NoteActionType, RequestAssumption DEF Types
    <3>3. name \in Names  BY RequestAssumption
    <3> QED  BY <3>1, <3>2, <3>3 DEF Action
  <2>3. ASSUME NEW b \in last, a \in Reversals(b)  PROVE a \in Action
    BY <1>4, <2>3, ReversalsType
  <2> QED  BY <1>1, <2>1, <2>2, <2>3 DEF Allowed
<1>6. Cardinality({a}) = 1  BY FS_Singleton
<1> QED  BY <1>1, <1>2, <1>4, <1>5, <1>6

LEMMA LastStays ==
  ASSUME [Next]_vars, ~Asking
  PROVE  last' = last
<1>1. CASE UNCHANGED vars  BY <1>1 DEF vars, asked
<1>2. CASE \E n \in Notes : Scan(n)  BY <1>2 DEF Scan, asked
<1>3. CASE Answer("done") \/ Answer("failed") \/ OtherClient
  BY <1>3 DEF Answer, OtherClient, asked
<1>4. CASE Refresh  BY <1>4 DEF Refresh, Poll
<1>5. CASE ViewKeys
  BY <1>5 DEF ViewKeys, MoveCursor, CycleFilter, CycleGroup, ToggleToday, ToggleOverdue,
              ToggleBoard, FoldGroup, FoldLane, ExpandAll, CollapseAll, StartSearch, EditQuery,
              ClearSearch, Show, asked
<1>6. CASE ModalKeys
  BY <1>6 DEF ModalKeys, StartQuickAdd, StartNote, Close, StartMove, RefuseMove, MoveTask,
              EndMove, CancelMove, RefuseArchive, Refuse, asked
<1> QED  BY <1>1, <1>2, <1>3, <1>4, <1>5, <1>6, NextCases
-----------------------------------------------------------------------------
\* The invariant of the session and its theorems.

LEMMA ModesTyped ==
  ASSUME TuiTypeOK, ViewInv, [Next]_vars
  PROVE  /\ mode' \in Modes /\ move'.id \in Nat /\ move'.order \in Seq(Nat)
         /\ notice' \in Notice
<1>1. mode \in Modes /\ move.id \in Nat /\ move.order \in Seq(Nat) /\ notice \in Notice
  BY DEF TuiTypeOK
<1>2. \A m \in {"list", "search", "file search", "quick add", "add note", "move"} : m \in Modes
  BY DEF Modes
<1>3. \A what \in {"nothing", "not on the board", "one note only", "flat lists only",
                   "nothing to archive", "this is the archive", "archiving"} :
         Says(what) \in Notice
  BY DEF Says, Notice
<1>4. Still.id \in Nat /\ Still.order \in Seq(Nat)  BY DEF Still
<1>5. CASE UNCHANGED vars  BY <1>1, <1>5 DEF vars, modal, asked
<1>6. CASE \E n \in Notes : Scan(n)  BY <1>1, <1>6 DEF Scan, modal, asked
<1>7. CASE Answer("done") \/ Answer("failed") \/ OtherClient
  BY <1>1, <1>7 DEF Answer, OtherClient, modal, asked
<1>8. CASE Refresh
  <2>1. /\ UNCHANGED <<mode, move>>
        /\ notice' \in IF NewestFailure = {} THEN {notice}
                       ELSE {[says |-> "failed", of |-> k] : k \in NewestFailure}
    BY <1>8 DEF Refresh, Poll
  <2>2. ASSUME NEW k \in NewestFailure PROVE [says |-> "failed", of |-> k] \in Notice
    <3>1. k \in DOMAIN queue /\ queue \in Seq({"pending", "done", "failed"})
      BY DEF NewestFailure, Known, Recent, Resolved, TuiTypeOK
    <3>2. k \in Nat  BY <3>1
    <3> QED  BY <3>2 DEF Notice
  <2> QED  BY <1>1, <2>1, <2>2
<1>9. CASE ViewKeys
  BY <1>1, <1>2, <1>9
     DEF ViewKeys, MoveCursor, CycleFilter, CycleGroup, ToggleToday, ToggleOverdue,
         ToggleBoard, FoldGroup, FoldLane, ExpandAll, CollapseAll, StartSearch, EditQuery,
         ClearSearch, Show, Leave, modal, asked
<1>10. CASE StartMove
  <2>1. PICK r \in Selected : move' = [id |-> r.id, order |-> RunIds]  BY <1>10 DEF StartMove
  <2>2. /\ r \in Row /\ sel \in DOMAIN view /\ view \in Seq(ScreenRow)
    BY SelectedIs DEF ViewInv, GoodView
  <2>3. RunIds \in Seq(Nat) /\ r.id \in Nat  BY <2>2, RunIs DEF Row
  <2>4. mode' = "move" /\ UNCHANGED notice  BY <1>10 DEF StartMove, asked
  <2> QED  BY <1>1, <1>2, <2>1, <2>3, <2>4
<1>11. CASE RefuseMove
  <2>1. PICK r \in Selected : \E why \in MoveRefusals(r) : Refuse(why)  BY <1>11 DEF RefuseMove
  <2>2. PICK why \in MoveRefusals(r) : Refuse(why)  BY <2>1
  <2>3. why \in {"not on the board", "one note only", "flat lists only"}  BY DEF MoveRefusals
  <2>4. notice' = Says(why) /\ UNCHANGED <<mode, move>>  BY <2>2 DEF Refuse, modal
  <2> QED  BY <1>1, <1>3, <2>3, <2>4
<1>12. CASE RefuseArchive
  <2>1. PICK r \in Selected : \E why \in ArchiveRefusals(r) : Refuse(why)
    BY <1>12 DEF RefuseArchive
  <2>2. PICK why \in ArchiveRefusals(r) : Refuse(why)  BY <2>1
  <2>3. why \in {"flat lists only", "nothing to archive", "this is the archive"}
    BY DEF ArchiveRefusals
  <2>4. notice' = Says(why) /\ UNCHANGED <<mode, move>>  BY <2>2 DEF Refuse, modal
  <2> QED  BY <1>1, <1>3, <2>3, <2>4
<1>13. CASE StartQuickAdd \/ StartNote \/ Close \/ MoveTask(-1) \/ MoveTask(1) \/ EndMove
            \/ CancelMove
  BY <1>1, <1>2, <1>4, <1>13
     DEF StartQuickAdd, StartNote, Close, MoveTask, EndMove, CancelMove, Leave, StopMoving,
         modal, asked
<1>14. CASE Asking
  <2>1. CASE Flip \/ ToggleBullet \/ MarkForToday \/ Undo
    BY <1>1, <1>3, <2>1 DEF Flip, ToggleBullet, MarkForToday, Undo, AskOnce, Ask, modal
  <2>2. CASE SubmitQuickAdd \/ SubmitNote \/ CommitMove
    BY <1>1, <1>2, <1>3, <1>4, <2>2 DEF SubmitQuickAdd, SubmitNote, CommitMove, Leave, StopMoving
  <2>3. CASE ArchiveCompleted  BY <1>1, <1>3, <2>3 DEF ArchiveCompleted, modal
  <2> QED  BY <1>14, <2>1, <2>2, <2>3 DEF Asking
<1> QED
  BY <1>5, <1>6, <1>7, <1>8, <1>9, <1>10, <1>11, <1>12, <1>13, <1>14, NextCases DEF ModalKeys

LEMMA ScreenTyped ==
  ASSUME TuiTypeOK, ViewInv, MoveInv, ViewInv', [Next]_vars
  PROVE  /\ sel' \in 0..Len(view') /\ (sel' = 0 <=> view' = <<>>)
         /\ opts' \in Options
<1>1. view \in Seq(ScreenRow) /\ view' \in Seq(ScreenRow)  BY DEF ViewInv, GoodView
<1>2. /\ Len(view) \in Nat /\ DOMAIN view = 1..Len(view)
      /\ Len(view') \in Nat /\ DOMAIN view' = 1..Len(view')
  BY <1>1
<1>3. sel \in 0..Len(view) /\ (sel = 0 <=> view = <<>>) /\ opts \in Options /\ sel \in Nat
  BY DEF TuiTypeOK
<1>4. \A v : Reconcile(view', v, sel) \in 0..Len(view')
             /\ (Reconcile(view', v, sel) = 0 <=> view' = <<>>)
  BY <1>1, <1>3, ReconcileIs
<1>5. CASE UNCHANGED screen  BY <1>3, <1>5 DEF screen
<1>6. CASE Refresh
  <2>1. Rebuild(Listed(rows), opts)  BY <1>6 DEF Refresh
  <2>2. opts' = opts /\ sel' = Reconcile(view', view, sel)  BY <2>1, Made
  <2> QED  BY <1>3, <1>4, <2>2
<1>7. CASE \E o \in Options : Rebuild(tasks, o)
  <2>1. PICK o \in Options : Rebuild(tasks, o)  BY <1>7
  <2>2. opts' = o /\ sel' = Reconcile(view', view, sel)  BY <2>1, Made
  <2> QED  BY <1>4, <2>2
<1>8. ASSUME NEW delta \in {-1, 1}, MoveCursor(delta)
      PROVE  sel' \in 0..Len(view') /\ (sel' = 0 <=> view' = <<>>) /\ opts' \in Options
  <2>1. view' = view /\ opts' = opts /\ sel' \in DOMAIN view  BY <1>8 DEF MoveCursor
  <2>2. view # <<>> /\ sel' \in 1..Len(view)  BY <1>2, <1>8, <2>1 DEF MoveCursor
  <2> QED  BY <1>2, <1>3, <2>1, <2>2
<1>9. ASSUME NEW delta \in {-1, 1}, MoveTask(delta)
      PROVE  sel' \in 0..Len(view') /\ (sel' = 0 <=> view' = <<>>) /\ opts' \in Options
  <2>1. Moving(view', sel', tasks, opts, move, start)  BY <1>9, MovingGoesOn
  <2>2. opts' = opts /\ sel' \in 1..Len(view')  BY <1>2, <1>9, <2>1 DEF MoveTask, Moving
  <2>3. view' # <<>>  BY <1>2, <2>2
  <2> QED  BY <1>2, <1>3, <2>2, <2>3
<1>10. CASE CancelMove
  <2>1. sel' \in DOMAIN view' /\ opts' = opts  BY <1>10, CancelIs DEF CancelMove
  <2>2. sel' \in 1..Len(view') /\ view' # <<>>  BY <1>2, <2>1
  <2> QED  BY <1>2, <1>3, <2>1, <2>2
<1> QED  BY <1>5, <1>6, <1>7, <1>8, <1>9, <1>10, ScreenSteps DEF ViewInv

LEMMA TypesKept ==
  ASSUME TuiTypeOK, ViewInv, MoveInv, ViewInv', TrackType', [Next]_vars
  PROVE  TuiTypeOK'
<1>1. /\ rows' \in SUBSET Row /\ nextId' \in Nat \ {0}  BY ScannedRows
<1>2. tasks' \in Seq(Row) /\ view' \in Seq(ScreenRow)  BY DEF ViewInv, TaskList, GoodView
<1>3. \A i \in DOMAIN view' : view'[i].is \in {"header", "task", "lane"}
  <2> SUFFICES ASSUME NEW i \in DOMAIN view' PROVE view'[i].is \in {"header", "task", "lane"}
    OBVIOUS
  <2>1. view'[i] \in ScreenRow  BY <1>2
  <2> QED  BY <2>1 DEF ScreenRow, HeaderRows, LaneRows, TaskRows
<1>4. /\ sel' \in 0..Len(view') /\ (sel' = 0 <=> view' = <<>>) /\ opts' \in Options
  BY ScreenTyped
<1>5. /\ mode' \in Modes /\ move'.id \in Nat /\ move'.order \in Seq(Nat) /\ notice' \in Notice
  BY ModesTyped
<1>6. sent' \in SUBSET Action /\ last' \in SUBSET Action /\ Cardinality(last') <= 1
  <2>1. CASE Asking  BY <2>1, AskedIs
  <2>2. CASE ~Asking
    <3>1. last \in SUBSET Action /\ Cardinality(last) <= 1 /\ sent \in SUBSET Action
      BY DEF TuiTypeOK
    <3>2. sent' = {} \/ sent' = sent  BY <2>2, NextCases DEF vars
    <3>3. last' = last  BY <2>2, LastStays
    <3> QED  BY <3>1, <3>2, <3>3
  <2> QED  BY <2>1, <2>2
<1> QED  BY <1>1, <1>2, <1>3, <1>4, <1>5, <1>6 DEF TuiTypeOK, TrackType

LEMMA TrackTyped == TuiTypeOK => TrackType
  BY DEF TuiTypeOK, TrackType

TuiInv == TuiTypeOK /\ ViewInv /\ MoveInv /\ NoteInv /\ TrackInv /\ AsksWhatTheCoreAllows

LEMMA TuiInvInit == Init => TuiInv
<1> SUFFICES ASSUME Init PROVE TuiInv  OBVIOUS
<1>1. /\ InitialRows \in SUBSET Row /\ IsFiniteSet(InitialRows) /\ InitialNext \in Nat \ {0}
      /\ Snapshot(InitialRows, InitialNext)
      /\ \A r \in InitialRows : r.text.name \in Names
      /\ TrackCap \in Nat
  BY SessionAssumption
<1>2. DOMAIN <<>> = {} /\ (\A S : <<>> \in Seq(S)) /\ Len(<<>>) = 0  OBVIOUS
<1>3. Range(<<>>) = {}  BY ShortRanges
<1>4. IsFiniteSet({}) /\ Cardinality({}) = 0  BY FS_EmptySet
<1>5. Says("nothing") \in Notice /\ Still.id \in Nat /\ Still.order = <<>> /\ "list" \in Modes
  BY DEF Says, Notice, Still, Modes
<1>6. TuiTypeOK
  BY <1>1, <1>2, <1>3, <1>4, <1>5, InitialView DEF Init, TuiTypeOK
<1>7. ViewInv
  <2>1. Snapshot({}, InitialNext)  BY DEF Snapshot
  <2> QED  BY <1>1, <1>3, <2>1, InitialView DEF Init, ViewInv
<1>8. MoveInv /\ NoteInv  BY DEF Init, MoveInv, NoteInv
<1>9. TrackInv  BY <1>2 DEF Init, TrackInv
<1>10. AsksWhatTheCoreAllows  BY DEF Init, AsksWhatTheCoreAllows
<1> QED  BY <1>6, <1>7, <1>8, <1>9, <1>10 DEF TuiInv

LEMMA TuiInvKept == TuiInv /\ [Next]_vars => TuiInv'
<1> SUFFICES ASSUME TuiTypeOK, ViewInv, MoveInv, NoteInv, TrackInv, AsksWhatTheCoreAllows,
                    [Next]_vars
             PROVE  TuiInv'
  BY DEF TuiInv
<1>1. ViewInv'  BY ViewKept
<1>2. TrackType' /\ TrackInv'  BY TrackKept, TrackTyped
<1>3. TuiTypeOK'  BY <1>1, <1>2, TypesKept
<1>4. MoveInv'  BY MoveKept
<1>5. NoteInv'  BY <1>1, NoteKept
<1>6. AsksWhatTheCoreAllows'
  <2>1. CASE Asking  BY <2>1, AskedIs
  <2>2. CASE sent' = {}  BY <2>2 DEF AsksWhatTheCoreAllows
  <2>3. CASE UNCHANGED vars  BY <2>3 DEF vars, screen, asked, AsksWhatTheCoreAllows
  <2> QED  BY <2>1, <2>2, <2>3, NextCases
<1> QED  BY <1>1, <1>2, <1>3, <1>4, <1>5, <1>6 DEF TuiInv

\* The session, whatever keys it gets and whatever the daemon and the other clients do, stays
\* within its types and keeps what its promises rest on.
THEOREM SessionInvariant == Spec => []TuiInv
<1>1. TuiInv /\ [Next]_vars => TuiInv'  BY TuiInvKept
<1> QED  BY TuiInvInit, <1>1, PTL DEF Spec

\* Every variable of the session has its type, the cursor is on a row whenever there is one,
\* and no more actions are tracked than fit.
THEOREM SessionTypes == Spec => []TuiTypeOK
<1>1. TuiInv => TuiTypeOK  BY DEF TuiInv
<1> QED  BY <1>1, SessionInvariant, PTL

\* The list shows each task once in each of its groups and loses none, for every list, every
\* tables of groups and filters, while a task is moved as well.
THEOREM NothingIsLost == Spec => []ScreenIsComplete
<1>1. TuiInv => ScreenIsComplete  BY CompleteIs DEF TuiInv, ViewInv, GoodView
<1> QED  BY <1>1, SessionInvariant, PTL

\* What the write-back core assumes of its clients is what the session does.
THEOREM AsksAreAllowed == Spec => []AsksWhatTheCoreAllows
<1>1. TuiInv => AsksWhatTheCoreAllows  BY DEF TuiInv
<1> QED  BY <1>1, SessionInvariant, PTL

\* A failure of an action of the session is shown, or a newer one, unless the session has lost
\* track of it or does not know it yet.
THEOREM FailuresAreShown == Spec => []RefusalsSurface
<1>1. ASSUME TuiInv PROVE RefusalsSurface
  <2> SUFFICES ASSUME NEW k \in own, queue[k] = "failed"
               PROVE  k \in Range(tracked) \cup dropped \/ \E j \in told : j >= k
    BY DEF RefusalsSurface
  <2>1. \/ k \in Range(tracked) \cup dropped
        \/ queue[k] = "done"
        \/ queue[k] = "failed" /\ \E j \in told : j >= k
    BY <1>1 DEF TuiInv, TrackInv
  <2> QED  BY <2>1
<1> QED  BY <1>1, SessionInvariant, PTL

\* The cursor stays on its task while the list under it is refreshed, filtered, grouped and
\* folded.
THEOREM CursorFollowsTask == Spec => CursorStays
<1>1. ASSUME TuiInv, TuiInv', [Next]_vars
      PROVE  [\A id \in SelectedIds :
                 id \in VisibleIds' => id \in SelectedIds' \/ MoveCursor(-1) \/ MoveCursor(1)]_vars
  BY <1>1, CursorKept DEF TuiInv
<1> QED  BY <1>1, SessionInvariant, PTL DEF Spec, CursorStays

\* A note goes to the task its modal was opened on, if that stayed on the screen.
THEOREM NoteFollowsTask == Spec => NoteKeepsItsTask
<1>1. ASSUME TuiInv, [Next]_vars
      PROVE  [SubmitNote => \A id \in Range(start) : \A a \in sent' : a.task = id]_vars
  BY <1>1, NoteGoesThere DEF TuiInv
<1> QED  BY <1>1, SessionInvariant, PTL DEF Spec, NoteKeepsItsTask

\* Esc puts the list back into the order the move began with.
THEOREM EscTakesMoveBack == Spec => CancelRestores
<1>1. ASSUME TuiInv, [Next]_vars
      PROVE  [CancelMove => view' = start /\ SelectedIds' = {move.id}]_vars
  BY <1>1, MoveTakenBack DEF TuiInv
<1> QED  BY <1>1, SessionInvariant, PTL DEF Spec, CancelRestores
=============================================================================
