----------------------------- MODULE Rows_proofs -----------------------------
(***************************************************************************)
(* Theorems on what the list shows of a task: the links in its text, the   *)
(* lines its row is wrapped to, and where on them a link can be clicked;   *)
(* for texts and rows of any length and any characters.                    *)
(***************************************************************************)
EXTENDS Texts_proofs

-----------------------------------------------------------------------------
\* Links.

Open   == "["
Close  == "]"
LParen == "("
RParen == ")"

\* [[target]] with the second pair of brackets at e, character by character.
WikiAt(body, i, e) ==
    /\ i + 2 < e /\ e + 1 <= Len(body)
    /\ body[i] = Open /\ body[i + 1] = Open /\ body[e] = Close /\ body[e + 1] = Close
    /\ \A k \in (i + 2)..(e - 1) : body[k] # Open /\ ~(body[k] = Close /\ body[k + 1] = Close)

\* [label](url) with the end of the label at c and that of the address at e.
LabelledAt(body, i, c, e) ==
    /\ i + 1 < c /\ c + 2 < e /\ e <= Len(body)
    /\ body[i] = Open /\ body[c] = Close /\ body[c + 1] = LParen /\ body[e] = RParen
    /\ \A k \in (i + 1)..(c - 1) : body[k] # Open /\ body[k] # Close
    /\ \A k \in (c + 2)..(e - 1) : body[k] # RParen /\ body[k] # Space

LEMMA LinkCharsDiffer ==
  /\ Open # Close /\ Close # LParen /\ LParen # RParen /\ Open # RParen /\ Close # RParen /\ Open # LParen
BY DEF Open, Close, LParen, RParen

LEMMA BetweenIs ==
  ASSUME NEW A, NEW s \in Seq(A), NEW i \in Int, NEW j \in Int, 1 <= i, i <= j, j <= Len(s) + 1
  PROVE  /\ Between(s, i, j) = SubSeq(s, i, j - 1) /\ Between(s, i, j) \in Seq(A)
         /\ Len(Between(s, i, j)) = j - i
         /\ \A k \in 1..(j - i) : Between(s, i, j)[k] = s[i + k - 1]
<1>0. Len(s) \in Nat /\ j - 1 \in Int /\ i <= (j - 1) + 1 /\ j - 1 <= Len(s) /\ (j - 1) - i + 1 = j - i
  OBVIOUS
<1>1. Min({j - 1, Len(s)}) = j - 1
  BY <1>0, MinOfTwo
<1>2. Between(s, i, j) = SubSeq(s, i, j - 1)
  BY <1>1, Zenon DEF Between
<1> DEFINE m == j - 1
<1>3. m \in Int /\ i <= m + 1 /\ m <= Len(s) /\ m - i + 1 = j - i
  BY <1>0
<1> HIDE DEF m
<1>4. /\ SubSeq(s, i, m) \in Seq(A) /\ Len(SubSeq(s, i, m)) = m - i + 1
      /\ \A k \in 1..(m - i + 1) : SubSeq(s, i, m)[k] = s[i + k - 1]
  BY <1>3, PieceIs
<1> QED BY <1>2, <1>3, <1>4 DEF m

LEMMA BetweenOne ==
  ASSUME NEW A, NEW s \in Seq(A), NEW k \in 1..Len(s), NEW c
  PROVE  Between(s, k, k + 1) = <<c>> <=> s[k] = c
<1>0. k \in Int /\ k + 1 \in Int /\ 1 <= k /\ k <= k + 1 /\ k + 1 <= Len(s) + 1 /\ (k + 1) - k = 1 /\ k + 1 - 1 = k
      /\ 1 \in 1..1
  OBVIOUS
<1> DEFINE b == Between(s, k, k + 1)
           n == k + 1
<1>1. b \in Seq(A) /\ Len(b) = 1 /\ b[1] = s[k]
  <2>1. n \in Int /\ k <= n /\ n <= Len(s) + 1 /\ n - k = 1
    BY <1>0
  <2> HIDE DEF n
  <2>2. Between(s, k, n) \in Seq(A) /\ Len(Between(s, k, n)) = n - k
        /\ \A l \in 1..(n - k) : Between(s, k, n)[l] = s[k + l - 1]
    BY <1>0, <2>1, BetweenIs
  <2>3. Between(s, k, n)[1] = s[k + 1 - 1]
    BY <1>0, <2>1, <2>2
  <2> QED BY <1>0, <2>1, <2>2, <2>3 DEF n
<1> HIDE DEF b
<1>2. b = <<b[1]>>
  BY <1>1
<1> QED BY <1>1, <1>2 DEF b

LEMMA BetweenTwo ==
  ASSUME NEW A, NEW s \in Seq(A), NEW k \in 1..Len(s), NEW c
  PROVE  Between(s, k, k + 2) = <<c, c>> <=> k < Len(s) /\ s[k] = c /\ s[k + 1] = c
<1>0. k \in Int /\ k + 2 \in Int /\ 1 <= k /\ k <= k + 2 /\ (k + 2) - k = 2 /\ k + 1 - 1 = k /\ k + 2 - 1 = k + 1
      /\ 1 \in 1..2 /\ 2 \in 1..2 /\ Len(s) \in Nat /\ (k + 2) - 1 = k + 1
  OBVIOUS
<1> DEFINE b == Between(s, k, k + 2)
           n == k + 2
<1>1. CASE k < Len(s)
  <2>1. n \in Int /\ k <= n /\ n <= Len(s) + 1 /\ n - k = 2
    BY <1>0, <1>1
  <2> HIDE DEF n
  <2>2. Between(s, k, n) \in Seq(A) /\ Len(Between(s, k, n)) = n - k
        /\ \A l \in 1..(n - k) : Between(s, k, n)[l] = s[k + l - 1]
    BY <1>0, <2>1, BetweenIs
  <2>3. Between(s, k, n)[1] = s[k + 1 - 1] /\ Between(s, k, n)[2] = s[k + 2 - 1]
    BY <1>0, <2>1, <2>2
  <2>4. b \in Seq(A) /\ Len(b) = 2 /\ b[1] = s[k] /\ b[2] = s[k + 1]
    BY <1>0, <2>1, <2>2, <2>3 DEF n
  <2> HIDE DEF b
  <2>5. b = <<b[1], b[2]>>
    BY <2>4
  <2> QED BY <1>1, <2>4, <2>5 DEF b
<1>2. CASE ~(k < Len(s))
  <2>1. k = Len(s)
    BY <1>0, <1>2
  <2>2. Min({n - 1, Len(s)}) = Len(s)
    <3>1. n - 1 \in Int /\ Len(s) \in Int /\ ~(n - 1 <= Len(s))
      BY <1>0, <2>1
    <3> HIDE DEF n
    <3> QED BY <3>1, MinOfTwo
  <2>3. b = SubSeq(s, k, Len(s))
    BY <2>2, Zenon DEF Between
  <2>4. Len(SubSeq(s, k, Len(s))) = 1
    BY <1>0, <2>1
  <2>5. Len(<<c, c>>) = 2
    OBVIOUS
  <2> HIDE DEF b
  <2>6. b # <<c, c>>
    BY <2>3, <2>4, <2>5
  <2> QED BY <1>2, <2>6 DEF b
<1> QED BY <1>1, <1>2

LEMMA FindOne ==
  ASSUME NEW A, NEW s \in Seq(A), NEW i \in Nat \ {0}, NEW c
  PROVE  \A k : k \in Find(s, i, <<c>>) <=> k \in i..Len(s) /\ s[k] = c /\ \A p \in i..(k - 1) : s[p] # c
<1>0. Len(s) \in Nat /\ Len(<<c>>) = 1 /\ Len(s) - 1 + 1 = Len(s) /\ i \in Int
  OBVIOUS
<1> DEFINE places == {k \in i..(Len(s) - Len(<<c>>) + 1) : Between(s, k, k + Len(<<c>>)) = <<c>>}
<1>1. \A k : k \in Find(s, i, <<c>>) <=> k \in places /\ \A p \in places : k <= p
  BY Zenon DEF Find
<1>2. ASSUME NEW k PROVE k \in places <=> k \in i..Len(s) /\ s[k] = c
  <2>1. k \in places <=> k \in i..Len(s) /\ Between(s, k, k + 1) = <<c>>
    BY <1>0
  <2>2. ASSUME k \in i..Len(s) PROVE Between(s, k, k + 1) = <<c>> <=> s[k] = c
    <3>1. k \in 1..Len(s)
      BY <1>0, <2>2
    <3> QED BY <3>1, BetweenOne
  <2> QED BY <2>1, <2>2
<1> HIDE DEF places
<1>3. ASSUME NEW k \in i..Len(s)
      PROVE  (\A p \in places : k <= p) <=> \A p \in i..(k - 1) : s[p] # c
  <2>1. ASSUME \A p \in places : k <= p, NEW p \in i..(k - 1) PROVE s[p] # c
    <3>1. p \in i..Len(s) /\ ~(k <= p)
      BY <1>0
    <3> QED BY <1>2, <2>1, <3>1
  <2>2. ASSUME \A p \in i..(k - 1) : s[p] # c, NEW p \in places PROVE k <= p
    <3>1. p \in i..Len(s) /\ s[p] = c
      BY <1>2
    <3>2. p \notin i..(k - 1)
      BY <2>2, <3>1
    <3> QED BY <1>0, <3>1, <3>2
  <2> QED BY <2>1, <2>2
<1> QED BY <1>1, <1>2, <1>3

LEMMA FindTwo ==
  ASSUME NEW A, NEW s \in Seq(A), NEW i \in Nat \ {0}, NEW c
  PROVE  \A k : k \in Find(s, i, <<c, c>>) <=>
                  /\ k \in i..(Len(s) - 1) /\ s[k] = c /\ s[k + 1] = c
                  /\ \A p \in i..(k - 1) : ~(s[p] = c /\ s[p + 1] = c)
<1>0. Len(s) \in Nat /\ Len(<<c, c>>) = 2 /\ Len(s) - 2 + 1 = Len(s) - 1 /\ i \in Int
  OBVIOUS
<1> DEFINE places == {k \in i..(Len(s) - Len(<<c, c>>) + 1) : Between(s, k, k + Len(<<c, c>>)) = <<c, c>>}
<1>1. \A k : k \in Find(s, i, <<c, c>>) <=> k \in places /\ \A p \in places : k <= p
  BY Zenon DEF Find
<1>2. ASSUME NEW k PROVE k \in places <=> k \in i..(Len(s) - 1) /\ s[k] = c /\ s[k + 1] = c
  <2>1. k \in places <=> k \in i..(Len(s) - 1) /\ Between(s, k, k + 2) = <<c, c>>
    BY <1>0
  <2>2. ASSUME k \in i..(Len(s) - 1) PROVE Between(s, k, k + 2) = <<c, c>> <=> s[k] = c /\ s[k + 1] = c
    <3>1. k \in 1..Len(s) /\ k < Len(s)
      BY <1>0, <2>2
    <3> QED BY <3>1, BetweenTwo
  <2> QED BY <2>1, <2>2
<1> HIDE DEF places
<1>3. ASSUME NEW k \in i..(Len(s) - 1)
      PROVE  (\A p \in places : k <= p) <=> \A p \in i..(k - 1) : ~(s[p] = c /\ s[p + 1] = c)
  <2>1. ASSUME \A p \in places : k <= p, NEW p \in i..(k - 1) PROVE ~(s[p] = c /\ s[p + 1] = c)
    <3>1. p \in i..(Len(s) - 1) /\ ~(k <= p)
      BY <1>0
    <3> QED BY <1>2, <2>1, <3>1
  <2>2. ASSUME \A p \in i..(k - 1) : ~(s[p] = c /\ s[p + 1] = c), NEW p \in places PROVE k <= p
    <3>1. p \in i..(Len(s) - 1) /\ s[p] = c /\ s[p + 1] = c
      BY <1>2
    <3>2. p \notin i..(k - 1)
      BY <2>2, <3>1
    <3> QED BY <1>0, <3>1, <3>2
  <2> QED BY <2>1, <2>2
<1> QED BY <1>1, <1>2, <1>3

LEMMA NoneOf ==
  ASSUME NEW A, NEW s \in Seq(A), NEW i \in Int, NEW j \in Int, 1 <= i, i <= j + 1, j <= Len(s), NEW chars
  PROVE  Range(SubSeq(s, i, j)) \cap chars = {} <=> \A k \in i..j : s[k] \notin chars
<1> DEFINE r == SubSeq(s, i, j)
<1>1. DOMAIN r = 1..(j - i + 1) /\ \A k \in 1..(j - i + 1) : r[k] = s[i + k - 1]
  BY PieceIs
<1>2. Range(r) \cap chars = {} <=> \A k \in DOMAIN r : r[k] \notin chars
  BY Zenon DEF Range
<1> HIDE DEF r
<1>3. ASSUME \A k \in DOMAIN r : r[k] \notin chars, NEW k \in i..j PROVE s[k] \notin chars
  <2> DEFINE n == k - i + 1
  <2>1. n \in 1..(j - i + 1) /\ i + n - 1 = k
    OBVIOUS
  <2> HIDE DEF n
  <2> QED BY <1>1, <1>3, <2>1
<1>4. ASSUME \A k \in i..j : s[k] \notin chars, NEW n \in DOMAIN r PROVE r[n] \notin chars
  <2>1. n \in 1..(j - i + 1) /\ i + n - 1 \in i..j
    BY <1>1
  <2> QED BY <1>1, <1>4, <2>1
<1> QED BY <1>2, <1>3, <1>4 DEF r

LEMMA PairIs ==
  ASSUME NEW A, NEW s \in Seq(A), NEW k \in 1..(Len(s) - 1), NEW c
  PROVE  SubSeq(s, k, k + 1) = <<c, c>> <=> s[k] = c /\ s[k + 1] = c
<1>1. k \in 1..Len(s) /\ k < Len(s) /\ k \in Int /\ k + 2 \in Int /\ 1 <= k /\ k <= k + 2 /\ k + 2 <= Len(s) + 1
      /\ (k + 2) - 1 = k + 1
  OBVIOUS
<1>2. Between(s, k, k + 2) = SubSeq(s, k, (k + 2) - 1)
  BY <1>1, BetweenIs
<1>3. Between(s, k, k + 2) = <<c, c>> <=> s[k] = c /\ s[k + 1] = c
  <2> DEFINE n == k
  <2>1. n \in 1..Len(s)
    BY <1>1
  <2> HIDE DEF n
  <2>2. Between(s, n, n + 2) = <<c, c>> <=> n < Len(s) /\ s[n] = c /\ s[n + 1] = c
    BY <2>1, BetweenTwo
  <2> QED BY <1>1, <2>2 DEF n
<1> QED BY <1>1, <1>2, <1>3

\* What looks like a link, character by character.
LEMMA LinkIs ==
  ASSUME NEW A, NEW s \in Seq(A)
  PROVE  IsLink(s) <=> WikiAt(s, 1, Len(s) - 1) \/ \E c \in 1..Len(s) : LabelledAt(s, 1, c, Len(s))
<1> DEFINE Labelled(k) ==
             /\ s[1] = Open /\ s[k] = Close /\ s[k + 1] = LParen /\ s[Len(s)] = RParen
             /\ Range(SubSeq(s, 2, k - 1)) \cap Brackets = {}
             /\ Range(SubSeq(s, k + 2, Len(s) - 1)) \cap {RParen, Space} = {}
           Wiki ==
             /\ Len(s) > 4
             /\ SubSeq(s, 1, 2) = <<Open, Open>> /\ SubSeq(s, Len(s) - 1, Len(s)) = <<Close, Close>>
             /\ Open \notin Range(SubSeq(s, 3, Len(s) - 2))
             /\ \A k \in 3..(Len(s) - 2) : SubSeq(s, k, k + 1) = <<Close, Close>> => k = Len(s) - 1
<1>0. Len(s) \in Nat
  OBVIOUS
<1>p. \A k \in 1..(Len(s) - 1) : \A c : SubSeq(s, k, k + 1) = <<c, c>> <=> s[k] = c /\ s[k + 1] = c
  BY PairIs
<1>1. IsLink(s) <=> (\E k \in 3..(Len(s) - 3) : Labelled(k)) \/ Wiki
  BY Zenon DEF IsLink, Open, Close, LParen, RParen, Space
<1>b. \A x : x \notin Brackets <=> x # Open /\ x # Close
  BY DEF Brackets, Open, Close
<1>2. ASSUME NEW k \in 3..(Len(s) - 3) PROVE Labelled(k) <=> LabelledAt(s, 1, k, Len(s))
  <2>1. /\ 2 \in Int /\ k - 1 \in Int /\ 2 <= (k - 1) + 1 /\ k - 1 <= Len(s) /\ 1 <= 2
        /\ k + 2 \in Int /\ Len(s) - 1 \in Int /\ 1 <= k + 2 /\ k + 2 <= (Len(s) - 1) + 1 /\ Len(s) - 1 <= Len(s)
        /\ 1 + 1 = 2 /\ 2 < k /\ k + 2 < Len(s)
    BY <1>0
  <2>2. Range(SubSeq(s, 2, k - 1)) \cap Brackets = {} <=> \A n \in 2..(k - 1) : s[n] # Open /\ s[n] # Close
    <3>1. Range(SubSeq(s, 2, k - 1)) \cap Brackets = {} <=> \A n \in 2..(k - 1) : s[n] \notin Brackets
      BY <2>1, NoneOf
    <3> QED BY <1>b, <3>1, Zenon
  <2>3. Range(SubSeq(s, k + 2, Len(s) - 1)) \cap {RParen, Space} = {}
          <=> \A n \in (k + 2)..(Len(s) - 1) : s[n] # RParen /\ s[n] # Space
    <3>1. Range(SubSeq(s, k + 2, Len(s) - 1)) \cap {RParen, Space} = {}
            <=> \A n \in (k + 2)..(Len(s) - 1) : s[n] \notin {RParen, Space}
      BY <2>1, NoneOf
    <3> QED BY <3>1, Zenon
  <2> QED BY <1>0, <2>1, <2>2, <2>3 DEF LabelledAt
<1>3. ASSUME NEW k \in 1..Len(s), LabelledAt(s, 1, k, Len(s)) PROVE k \in 3..(Len(s) - 3)
  BY <1>0, <1>3 DEF LabelledAt
<1>4. ASSUME Len(s) > 4 PROVE Wiki <=> WikiAt(s, 1, Len(s) - 1)
  <2>0. /\ 1 \in 1..(Len(s) - 1) /\ Len(s) - 1 \in 1..(Len(s) - 1) /\ 1 + 1 = 2 /\ (Len(s) - 1) + 1 = Len(s) /\ 1 + 2 = 3
        /\ 3 \in Int /\ Len(s) - 2 \in Int /\ 1 <= 3 /\ 3 <= (Len(s) - 2) + 1 /\ Len(s) - 2 <= Len(s) /\ (Len(s) - 1) - 1 = Len(s) - 2
        /\ 3 < Len(s) - 1 /\ Len(s) <= Len(s)
    BY <1>0, <1>4
  <2>1. SubSeq(s, 1, 2) = <<Open, Open>> <=> s[1] = Open /\ s[2] = Open
    <3> DEFINE n == 1
    <3>1. n \in 1..(Len(s) - 1) /\ n + 1 = 2
      BY <2>0
    <3> HIDE DEF n
    <3>2. SubSeq(s, n, n + 1) = <<Open, Open>> <=> s[n] = Open /\ s[n + 1] = Open
      BY <1>p, <3>1, Zenon
    <3> QED BY <3>1, <3>2 DEF n
  <2>2. SubSeq(s, Len(s) - 1, Len(s)) = <<Close, Close>> <=> s[Len(s) - 1] = Close /\ s[Len(s)] = Close
    <3> DEFINE n == Len(s) - 1
    <3>1. n \in 1..(Len(s) - 1) /\ n + 1 = Len(s)
      BY <2>0
    <3> HIDE DEF n
    <3>2. SubSeq(s, n, n + 1) = <<Close, Close>> <=> s[n] = Close /\ s[n + 1] = Close
      BY <1>p, <3>1, Zenon
    <3> QED BY <3>1, <3>2 DEF n
  <2>3. Open \notin Range(SubSeq(s, 3, Len(s) - 2)) <=> \A k \in 3..(Len(s) - 2) : s[k] # Open
    <3>1. Range(SubSeq(s, 3, Len(s) - 2)) \cap {Open} = {} <=> \A k \in 3..(Len(s) - 2) : s[k] \notin {Open}
      BY <2>0, NoneOf
    <3> QED BY <3>1, Zenon
  <2>4. ASSUME NEW k \in 3..(Len(s) - 2)
        PROVE  (SubSeq(s, k, k + 1) = <<Close, Close>> => k = Len(s) - 1) <=> ~(s[k] = Close /\ s[k + 1] = Close)
    <3>0. ASSUME NEW N \in Nat, NEW m \in 3..(N - 2) PROVE m \in 1..(N - 1) /\ m # N - 1
      OBVIOUS
    <3>1. k \in 1..(Len(s) - 1) /\ k # Len(s) - 1
      BY <1>0, <3>0
    <3> QED BY <1>p, <3>1, Zenon
  <2>5. Wiki <=> /\ s[1] = Open /\ s[2] = Open /\ s[Len(s) - 1] = Close /\ s[Len(s)] = Close
                 /\ \A k \in 3..(Len(s) - 2) : s[k] # Open /\ ~(s[k] = Close /\ s[k + 1] = Close)
    BY <1>4, <2>1, <2>2, <2>3, <2>4
  <2>6. WikiAt(s, 1, Len(s) - 1)
           <=> /\ s[1] = Open /\ s[2] = Open /\ s[Len(s) - 1] = Close /\ s[Len(s)] = Close
               /\ \A k \in 3..(Len(s) - 2) : s[k] # Open /\ ~(s[k] = Close /\ s[k + 1] = Close)
    BY <2>0 DEF WikiAt
  <2> QED BY <2>5, <2>6, Zenon
<1>5. WikiAt(s, 1, Len(s) - 1) => Len(s) > 4
  BY <1>0 DEF WikiAt
<1>6. Wiki => Len(s) > 4
  BY Zenon
<1>7. 3..(Len(s) - 3) \subseteq 1..Len(s)
  BY <1>0
<1> HIDE DEF Wiki, Labelled
<1>8. (\E k \in 3..(Len(s) - 3) : Labelled(k)) <=> \E c \in 1..Len(s) : LabelledAt(s, 1, c, Len(s))
  BY <1>2, <1>3, <1>7
<1> QED BY <1>1, <1>4, <1>5, <1>6, <1>8

\* The same of a piece of a text.
LEMMA PieceLinks ==
  ASSUME NEW A, NEW body \in Seq(A), NEW i \in 1..Len(body), NEW j \in i..(Len(body) + 1)
  PROVE  IsLink(Between(body, i, j)) <=>
           WikiAt(body, i, j - 2) \/ \E c \in 1..Len(body) : LabelledAt(body, i, c, j - 1)
<1> DEFINE s == Between(body, i, j)
           n == j - i
<1>0. /\ Len(body) \in Nat
      /\ i \in Int /\ j \in Int /\ 1 <= i /\ i <= j /\ j <= Len(body) + 1
      /\ n \in Nat /\ i + n = j
  OBVIOUS
<1>1. s \in Seq(A) /\ Len(s) = n /\ \A k \in 1..n : s[k] = body[i + k - 1]
  BY <1>0, BetweenIs
<1> HIDE DEF s
<1>3. IsLink(s) <=> WikiAt(s, 1, n - 1) \/ \E c \in 1..n : LabelledAt(s, 1, c, n)
  BY <1>1, LinkIs
<1> HIDE DEF n
<1>s. ASSUME NEW k \in i..(j - 1) PROVE k - i + 1 \in 1..n /\ s[k - i + 1] = body[k]
  <2>1. k - i + 1 \in 1..n /\ i + (k - i + 1) - 1 = k
    BY <1>0
  <2>2. s[k - i + 1] = body[i + (k - i + 1) - 1]
    BY <1>1, <2>1
  <2> QED BY <2>1, <2>2
<1>t. ASSUME NEW k \in 1..n PROVE i + k - 1 \in i..(j - 1) /\ s[k] = body[i + k - 1]
  BY <1>0, <1>1
<1>4. ASSUME WikiAt(s, 1, n - 1) PROVE WikiAt(body, i, j - 2)
  <2>1. /\ 3 < n - 1 /\ n - 1 + 1 <= n
        /\ s[1] = Open /\ s[2] = Open /\ s[n - 1] = Close /\ s[n] = Close
        /\ \A k \in 3..(n - 2) : s[k] # Open /\ ~(s[k] = Close /\ s[k + 1] = Close)
    <3>1. 1 + 2 = 3 /\ 1 + 1 = 2 /\ (n - 1) + 1 = n /\ (n - 1) - 1 = n - 2
      BY <1>0
    <3> QED BY <1>1, <1>4, <3>1 DEF WikiAt
  <2>2. /\ 1 \in 1..n /\ 2 \in 1..n /\ n - 1 \in 1..n /\ n \in 1..n
        /\ i + 1 - 1 = i /\ i + 2 - 1 = i + 1 /\ i + (n - 1) - 1 = j - 2 /\ i + n - 1 = j - 1 /\ (j - 2) + 1 = j - 1
        /\ i + 2 < j - 2 /\ j - 1 <= Len(body) /\ (j - 2) - 1 = j - 3
    BY <1>0, <2>1
  <2>3. body[i] = Open /\ body[i + 1] = Open /\ body[j - 2] = Close /\ body[j - 1] = Close
    BY <1>1, <2>1, <2>2
  <2>4. ASSUME NEW k \in (i + 2)..(j - 3) PROVE body[k] # Open /\ ~(body[k] = Close /\ body[k + 1] = Close)
    <3> DEFINE m == k - i + 1
    <3>1. m \in 3..(n - 2) /\ m \in 1..n /\ m + 1 \in 1..n /\ i + m - 1 = k /\ i + (m + 1) - 1 = k + 1
      BY <1>0
    <3> HIDE DEF m
    <3>2. s[m] = body[k] /\ s[m + 1] = body[k + 1]
      BY <1>1, <3>1
    <3> QED BY <2>1, <3>1, <3>2
  <2> QED BY <2>2, <2>3, <2>4 DEF WikiAt
<1>5. ASSUME WikiAt(body, i, j - 2) PROVE WikiAt(s, 1, n - 1)
  <2>1. /\ i + 2 < j - 2 /\ j - 1 <= Len(body)
        /\ body[i] = Open /\ body[i + 1] = Open /\ body[j - 2] = Close /\ body[j - 1] = Close
        /\ \A k \in (i + 2)..(j - 3) : body[k] # Open /\ ~(body[k] = Close /\ body[k + 1] = Close)
    <3>1. (j - 2) + 1 = j - 1 /\ (j - 2) - 1 = j - 3
      BY <1>0
    <3> QED BY <1>5, <3>1 DEF WikiAt
  <2>2. /\ 1 \in 1..n /\ 2 \in 1..n /\ n - 1 \in 1..n /\ n \in 1..n
        /\ i + 1 - 1 = i /\ i + 2 - 1 = i + 1 /\ i + (n - 1) - 1 = j - 2 /\ i + n - 1 = j - 1
        /\ 1 + 2 < n - 1 /\ (n - 1) + 1 = n /\ n <= n /\ 1 + 1 = 2
    BY <1>0, <2>1
  <2>3. s[1] = Open /\ s[2] = Open /\ s[n - 1] = Close /\ s[n] = Close
    BY <1>1, <2>1, <2>2
  <2>4. ASSUME NEW m \in (1 + 2)..((n - 1) - 1) PROVE s[m] # Open /\ ~(s[m] = Close /\ s[m + 1] = Close)
    <3> DEFINE k == i + m - 1
    <3>1. k \in (i + 2)..(j - 3) /\ m \in 1..n /\ m + 1 \in 1..n /\ i + (m + 1) - 1 = k + 1 /\ i + m - 1 = k
      BY <1>0
    <3> HIDE DEF k
    <3>2. s[m] = body[k] /\ s[m + 1] = body[k + 1]
      BY <1>1, <3>1
    <3> QED BY <2>1, <3>1, <3>2
  <2> QED BY <1>1, <2>2, <2>3, <2>4 DEF WikiAt
<1>6. ASSUME NEW c \in 1..n, LabelledAt(s, 1, c, n) PROVE \E d \in 1..Len(body) : LabelledAt(body, i, d, j - 1)
  <2> DEFINE d == i + c - 1
  <2>1. /\ 2 < c /\ c + 2 < n
        /\ s[1] = Open /\ s[c] = Close /\ s[c + 1] = LParen /\ s[n] = RParen
        /\ \A k \in 2..(c - 1) : s[k] # Open /\ s[k] # Close
        /\ \A k \in (c + 2)..(n - 1) : s[k] # RParen /\ s[k] # Space
    <3>1. 1 + 1 = 2
      OBVIOUS
    <3> QED BY <1>6, <3>1 DEF LabelledAt
  <2>0. ASSUME NEW N \in Nat, j <= N + 1, 2 < c, c + 2 < n
        PROVE  /\ 1 \in 1..n /\ c + 1 \in 1..n /\ n \in 1..n /\ i + 1 - 1 = i /\ i + (c + 1) - 1 = d + 1
               /\ i + n - 1 = j - 1 /\ i + 1 < d /\ d + 2 < j - 1 /\ j - 1 <= N /\ d \in 1..N /\ d \in Int
    <3>1. i + 1 - 1 = i /\ i + (c + 1) - 1 = d + 1 /\ i + n - 1 = j - 1 /\ d \in Int /\ i >= 1
      BY <1>0
    <3>2. 1 \in 1..n /\ c + 1 \in 1..n /\ n \in 1..n
      BY <1>0, <2>0
    <3>3. i + 1 < d /\ d + 2 < j - 1 /\ j - 1 <= N
      BY <1>0, <2>0
    <3>4. d \in 1..N
      BY <3>1, <3>3, <1>0
    <3> QED BY <3>1, <3>2, <3>3, <3>4
  <2>2. /\ 1 \in 1..n /\ c + 1 \in 1..n /\ n \in 1..n /\ i + 1 - 1 = i /\ i + (c + 1) - 1 = d + 1 /\ i + n - 1 = j - 1
        /\ i + 1 < d /\ d + 2 < j - 1 /\ j - 1 <= Len(body) /\ d \in 1..Len(body) /\ d \in Int
    BY <1>0, <2>0, <2>1
  <2>3. body[i] = Open /\ body[d] = Close /\ body[d + 1] = LParen /\ body[j - 1] = RParen
    BY <1>1, <2>1, <2>2
  <2>4. ASSUME NEW k \in (i + 1)..(d - 1) PROVE body[k] # Open /\ body[k] # Close
    <3> DEFINE m == k - i + 1
    <3>1. m \in 2..(c - 1) /\ k \in i..(j - 1)
      BY <1>0, <2>1
    <3>2. s[m] = body[k]
      BY <1>s, <3>1
    <3> HIDE DEF m
    <3> QED BY <2>1, <3>1, <3>2
  <2>5. ASSUME NEW k \in (d + 2)..((j - 1) - 1) PROVE body[k] # RParen /\ body[k] # Space
    <3> DEFINE m == k - i + 1
    <3>1. m \in (c + 2)..(n - 1) /\ k \in i..(j - 1)
      BY <1>0, <2>1
    <3>2. s[m] = body[k]
      BY <1>s, <3>1
    <3> HIDE DEF m
    <3> QED BY <2>1, <3>1, <3>2
  <2> HIDE DEF d
  <2> QED BY <2>2, <2>3, <2>4, <2>5 DEF LabelledAt
<1>7. ASSUME NEW d \in 1..Len(body), LabelledAt(body, i, d, j - 1) PROVE \E c \in 1..n : LabelledAt(s, 1, c, n)
  <2> DEFINE c == d - i + 1
  <2>1. /\ i + 1 < d /\ d + 2 < j - 1
        /\ body[i] = Open /\ body[d] = Close /\ body[d + 1] = LParen /\ body[j - 1] = RParen
        /\ \A k \in (i + 1)..(d - 1) : body[k] # Open /\ body[k] # Close
        /\ \A k \in (d + 2)..((j - 1) - 1) : body[k] # RParen /\ body[k] # Space
    BY <1>7 DEF LabelledAt
  <2>0. d \in Int /\ c \in Int /\ i \in Int /\ j \in Int /\ n \in Int /\ n = j - i
    BY <1>0
  <2>2. /\ d \in i..(j - 1) /\ d + 1 \in i..(j - 1) /\ i \in i..(j - 1) /\ j - 1 \in i..(j - 1)
        /\ i - i + 1 = 1 /\ (d + 1) - i + 1 = c + 1 /\ (j - 1) - i + 1 = n
        /\ 1 + 1 < c /\ c + 2 < n /\ n <= n /\ c \in 1..n
    <3>1. d \in i..(j - 1) /\ d + 1 \in i..(j - 1) /\ i \in i..(j - 1) /\ j - 1 \in i..(j - 1)
      BY <2>0, <2>1
    <3>2. i - i + 1 = 1 /\ (d + 1) - i + 1 = c + 1 /\ (j - 1) - i + 1 = n
      BY <2>0
    <3>3. 1 + 1 < c /\ c + 2 < n /\ n <= n
      BY <2>0, <2>1
    <3>4. c \in 1..n
      BY <2>0, <3>3
    <3> QED BY <3>1, <3>2, <3>3, <3>4
  <2>3. s[1] = Open /\ s[c] = Close /\ s[c + 1] = LParen /\ s[n] = RParen
    BY <1>s, <2>1, <2>2
  <2>4. ASSUME NEW m \in (1 + 1)..(c - 1) PROVE s[m] # Open /\ s[m] # Close
    <3> DEFINE k == i + m - 1
    <3>1. k \in (i + 1)..(d - 1) /\ m \in 1..n
      BY <1>0, <2>0, <2>2
    <3>2. s[m] = body[k]
      BY <1>1, <3>1
    <3> HIDE DEF k
    <3> QED BY <2>1, <3>1, <3>2
  <2>5. ASSUME NEW m \in (c + 2)..(n - 1) PROVE s[m] # RParen /\ s[m] # Space
    <3> DEFINE k == i + m - 1
    <3>1. k \in (d + 2)..((j - 1) - 1) /\ m \in 1..n
      BY <1>0, <2>0, <2>2
    <3>2. s[m] = body[k]
      BY <1>1, <3>1
    <3> HIDE DEF k
    <3> QED BY <2>1, <3>1, <3>2
  <2> HIDE DEF c
  <2> QED BY <1>1, <2>2, <2>3, <2>4, <2>5 DEF LabelledAt
<1>8. IsLink(s) <=> WikiAt(body, i, j - 2) \/ \E c \in 1..Len(body) : LabelledAt(body, i, c, j - 1)
  BY <1>3, <1>4, <1>5, <1>6, <1>7
<1> QED BY <1>8 DEF s

\* The functions that look for links find what looks like one, and all of it.
LEMMA NotBetween ==
  ASSUME NEW A, NEW s \in Seq(A), NEW a \in 1..Len(s), NEW b \in a..Len(s), NEW x
  PROVE  x \notin Range(Between(s, a, b)) <=> \A p \in a..(b - 1) : s[p] # x
<1>0. Len(s) \in Nat
  OBVIOUS
<1>1. a \in Int /\ b \in Int /\ 1 <= a /\ a <= b /\ b <= Len(s) + 1
  BY <1>0
<1>2. Between(s, a, b) = SubSeq(s, a, b - 1)
  BY <1>1, BetweenIs, SMTT(30)
<1> DEFINE m == b - 1
<1>3. m \in Int /\ a <= m + 1 /\ m <= Len(s)
  BY <1>0, <1>1
<1> HIDE DEF m
<1>4. Range(SubSeq(s, a, m)) \cap {x} = {} <=> \A p \in a..m : s[p] \notin {x}
  BY <1>1, <1>3, NoneOf
<1>5. x \notin Range(SubSeq(s, a, m)) <=> \A p \in a..m : s[p] # x
  BY <1>4, Zenon
<1> QED BY <1>2, <1>5 DEF m

LEMMA WikiEnds ==
  ASSUME NEW A, NEW s \in Seq(A), NEW i \in 1..Len(s), i < Len(s), s[i] = Open, s[i + 1] = Open, NEW k
  PROVE  (/\ k \in Find(s, i + 2, <<Close, Close>>) /\ k > i + 2
          /\ Open \notin Range(Between(s, i + 2, k)))
           <=> (k \in 1..Len(s) /\ WikiAt(s, i, k))
<1> DEFINE n == i + 2
<1>0. Len(s) \in Nat /\ i \in Int /\ n \in Nat \ {0} /\ n \in Int /\ 1 <= n
  OBVIOUS
<1>1. k \in Find(s, n, <<Close, Close>>) <=>
        /\ k \in n..(Len(s) - 1) /\ s[k] = Close /\ s[k + 1] = Close
        /\ \A p \in n..(k - 1) : ~(s[p] = Close /\ s[p + 1] = Close)
  <2> HIDE DEF n
  <2>1. n \in Nat \ {0}
    BY <1>0
  <2> QED BY <2>1, FindTwo, SMTT(30)
<1>2. ASSUME k \in n..(Len(s) - 1), k > n
      PROVE  Open \notin Range(Between(s, n, k)) <=> \A p \in n..(k - 1) : s[p] # Open
  <2>1. n \in 1..Len(s) /\ k \in n..Len(s)
    BY <1>0, <1>2
  <2> HIDE DEF n
  <2> QED BY <2>1, NotBetween
<1>3. ASSUME k \in Find(s, n, <<Close, Close>>), k > n, Open \notin Range(Between(s, n, k))
      PROVE  k \in 1..Len(s) /\ WikiAt(s, i, k)
  <2>1. /\ k \in n..(Len(s) - 1) /\ s[k] = Close /\ s[k + 1] = Close
        /\ \A p \in n..(k - 1) : s[p] # Open /\ ~(s[p] = Close /\ s[p + 1] = Close)
    BY <1>1, <1>2, <1>3
  <2>2. k \in 1..Len(s) /\ i + 2 < k /\ k + 1 <= Len(s)
    BY <1>0, <1>3, <2>1
  <2> QED BY <2>1, <2>2 DEF WikiAt
<1>4. ASSUME k \in 1..Len(s), WikiAt(s, i, k)
      PROVE  k \in Find(s, n, <<Close, Close>>) /\ k > n /\ Open \notin Range(Between(s, n, k))
  <2>1. /\ n < k /\ k + 1 <= Len(s) /\ s[k] = Close /\ s[k + 1] = Close
        /\ \A p \in n..(k - 1) : s[p] # Open /\ ~(s[p] = Close /\ s[p + 1] = Close)
    BY <1>4 DEF WikiAt
  <2>2. k \in n..(Len(s) - 1) /\ k > n
    BY <1>0, <1>4, <2>1
  <2> QED BY <1>1, <1>2, <2>1, <2>2
<1> QED BY <1>3, <1>4

LEMMA LabelEnds ==
  ASSUME NEW A, NEW s \in Seq(A), NEW i \in 1..Len(s), s[i] = Open, NEW c \in Int, NEW k \in Int
  PROVE  (/\ c \in Find(s, i, <<Close>>)
          /\ k \in Find(s, c + 2, <<RParen>>)
          /\ c > i + 1 /\ Open \notin Range(Between(s, i + 1, c))
          /\ Between(s, c + 1, c + 2) = <<LParen>> /\ k > c + 2
          /\ Space \notin Range(Between(s, c + 2, k)))
           <=> (c \in 1..Len(s) /\ k \in 1..Len(s) /\ LabelledAt(s, i, c, k))
<1>0. Len(s) \in Nat /\ i \in Int
  OBVIOUS
<1>1. c \in Find(s, i, <<Close>>) <=> c \in i..Len(s) /\ s[c] = Close /\ \A p \in i..(c - 1) : s[p] # Close
  <2>1. i \in Nat \ {0}
    OBVIOUS
  <2> QED BY <2>1, FindOne
<1>2. ASSUME c \in 1..Len(s)
      PROVE  k \in Find(s, c + 2, <<RParen>>)
               <=> k \in (c + 2)..Len(s) /\ s[k] = RParen /\ \A p \in (c + 2)..(k - 1) : s[p] # RParen
  <2> DEFINE n == c + 2
  <2>1. n \in Nat \ {0}
    BY <1>2
  <2> HIDE DEF n
  <2>2. k \in Find(s, n, <<RParen>>)
          <=> k \in n..Len(s) /\ s[k] = RParen /\ \A p \in n..(k - 1) : s[p] # RParen
    BY <2>1, FindOne, SMTT(30)
  <2> QED BY <2>2, Zenon DEF n
<1>3. ASSUME c + 1 \in 1..Len(s) PROVE Between(s, c + 1, c + 2) = <<LParen>> <=> s[c + 1] = LParen
  <2> DEFINE n == c + 1
  <2>1. n \in 1..Len(s) /\ n + 1 = c + 2
    BY <1>3
  <2> HIDE DEF n
  <2>2. Between(s, n, n + 1) = <<LParen>> <=> s[n] = LParen
    BY <2>1, BetweenOne
  <2> QED BY <2>1, <2>2 DEF n
<1>4. ASSUME c \in Find(s, i, <<Close>>), k \in Find(s, c + 2, <<RParen>>),
             c > i + 1, Open \notin Range(Between(s, i + 1, c)),
             Between(s, c + 1, c + 2) = <<LParen>>, k > c + 2, Space \notin Range(Between(s, c + 2, k))
      PROVE  c \in 1..Len(s) /\ k \in 1..Len(s) /\ LabelledAt(s, i, c, k)
  <2>1. c \in i..Len(s) /\ s[c] = Close /\ \A p \in i..(c - 1) : s[p] # Close
    BY <1>1, <1>4
  <2>2. c \in 1..Len(s)
    BY <1>0, <2>1
  <2>3. k \in (c + 2)..Len(s) /\ s[k] = RParen /\ \A p \in (c + 2)..(k - 1) : s[p] # RParen
    BY <1>2, <1>4, <2>2
  <2>4. /\ k \in 1..Len(s) /\ c + 1 \in 1..Len(s) /\ c + 2 \in 1..Len(s) /\ k <= Len(s)
        /\ i + 1 \in 1..Len(s) /\ c \in (i + 1)..Len(s) /\ i + 1 < c /\ c + 2 < k
    BY <1>0, <1>4, <2>2, <2>3
  <2>5. \A p \in (i + 1)..(c - 1) : s[p] # Open
    BY NotBetween, <2>4, <1>4
  <2>6. \A p \in (c + 2)..(k - 1) : s[p] # Space
    BY NotBetween, <1>4, <2>3, <2>4
  <2>7. \A p \in (i + 1)..(c - 1) : p \in i..(c - 1)
    BY <1>0
  <2>8. s[c + 1] = LParen
    BY <1>3, <1>4, <2>4
  <2> QED BY <2>1, <2>2, <2>3, <2>4, <2>5, <2>6, <2>7, <2>8 DEF LabelledAt
<1>5. ASSUME c \in 1..Len(s), k \in 1..Len(s), LabelledAt(s, i, c, k)
      PROVE  /\ c \in Find(s, i, <<Close>>)
             /\ k \in Find(s, c + 2, <<RParen>>)
             /\ c > i + 1 /\ Open \notin Range(Between(s, i + 1, c))
             /\ Between(s, c + 1, c + 2) = <<LParen>> /\ k > c + 2
             /\ Space \notin Range(Between(s, c + 2, k))
  <2>1. /\ i + 1 < c /\ c + 2 < k /\ k <= Len(s)
        /\ s[c] = Close /\ s[c + 1] = LParen /\ s[k] = RParen
        /\ \A p \in (i + 1)..(c - 1) : s[p] # Open /\ s[p] # Close
        /\ \A p \in (c + 2)..(k - 1) : s[p] # RParen /\ s[p] # Space
    BY <1>5 DEF LabelledAt
  <2>2. /\ c + 1 \in 1..Len(s) /\ c + 2 \in 1..Len(s) /\ k \in (c + 2)..Len(s) /\ c \in i..Len(s)
        /\ i + 1 \in 1..Len(s) /\ c \in (i + 1)..Len(s) /\ c > i + 1 /\ k > c + 2
    BY <1>0, <1>5, <2>1
  <2>3. ASSUME NEW p \in i..(c - 1) PROVE s[p] # Close
    <3>1. p = i \/ p \in (i + 1)..(c - 1)
      BY <1>0
    <3> QED BY <2>1, <3>1, LinkCharsDiffer
  <2>4. c \in Find(s, i, <<Close>>)
    BY <1>1, <2>1, <2>2, <2>3
  <2>5. k \in Find(s, c + 2, <<RParen>>)
    BY <1>2, <1>5, <2>1, <2>2
  <2>6. Open \notin Range(Between(s, i + 1, c))
    BY NotBetween, <2>1, <2>2
  <2>7. Space \notin Range(Between(s, c + 2, k))
    BY NotBetween, <2>1, <2>2
  <2>8. Between(s, c + 1, c + 2) = <<LParen>>
    BY <1>3, <2>1, <2>2
  <2> QED BY <2>2, <2>4, <2>5, <2>6, <2>7, <2>8
<1> QED BY <1>4, <1>5

\* A link from i to e.
LinkFrom(s, i, e) == \/ WikiAt(s, i, e - 2)
                     \/ \E c \in 1..Len(s) : LabelledAt(s, i, c, e - 1)

\* What is parsed at i.
LEMMA ParseIs ==
  ASSUME NEW A, NEW s \in Seq(A), NEW i \in 1..Len(s)
  PROVE  /\ \A l \in ParseLink(s, i) :
               /\ l.at = i /\ l.link = TRUE
               /\ \E e \in (i + 1)..(Len(s) + 1) : l.len = e - i /\ LinkFrom(s, i, e)
         /\ ParseLink(s, i) = {} => \A e \in (i + 1)..(Len(s) + 1) : ~LinkFrom(s, i, e)
<1> DEFINE wikiEnds == {k \in Find(s, i + 2, <<Close, Close>>) : k > i + 2 /\ Open \notin Range(Between(s, i + 2, k))}
           wikiLabel(k) == LabelOf(Between(s, i + 2, k))
           closes == Find(s, i, <<Close>>)
           ends(c) == {k \in Find(s, c + 2, <<RParen>>) :
                         /\ c > i + 1 /\ Open \notin Range(Between(s, i + 1, c))
                         /\ Between(s, c + 1, c + 2) = <<LParen>> /\ k > c + 2
                         /\ Space \notin Range(Between(s, c + 2, k))}
           segs(c) == {Segment(s, i, k + 1, Between(s, i + 1, c), TRUE) : k \in ends(c)}
           pair == i < Len(s) /\ s[i] = Open /\ s[i + 1] = Open
<1>0. Len(s) \in Nat /\ i \in Int
  OBVIOUS
<1>1. Between(s, i, i + 2) = <<Open, Open>> <=> pair
  BY BetweenTwo
<1>a. WikiLink(s, i) = {Segment(s, i, k + 2, wikiLabel(k), TRUE) : k \in wikiEnds}
  BY Zenon DEF WikiLink, Open, Close
<1>b. MarkdownLink(s, i) = UNION {segs(c) : c \in closes}
  BY Zenon DEF MarkdownLink, Open, Close, LParen, RParen, Space
<1>c. ParseLink(s, i) = IF Between(s, i, i + 2) = <<Open, Open>> THEN WikiLink(s, i)
                        ELSE IF s[i] = Open THEN MarkdownLink(s, i) ELSE {}
  BY Zenon DEF ParseLink, Open
<1>d. \A k : k \in wikiEnds <=> k \in Find(s, i + 2, <<Close, Close>>) /\ k > i + 2 /\ Open \notin Range(Between(s, i + 2, k))
  BY Zenon
<1>e. \A c, k : k \in ends(c) <=> /\ k \in Find(s, c + 2, <<RParen>>)
                                  /\ c > i + 1 /\ Open \notin Range(Between(s, i + 1, c))
                                  /\ Between(s, c + 1, c + 2) = <<LParen>> /\ k > c + 2
                                  /\ Space \notin Range(Between(s, c + 2, k))
  BY Zenon
<1> HIDE DEF wikiEnds, ends
<1>f. \A l : l \in WikiLink(s, i) <=> \E k \in wikiEnds : l = Segment(s, i, k + 2, wikiLabel(k), TRUE)
  BY <1>a, Zenon
<1>g. \A c, l : l \in segs(c) <=> \E k \in ends(c) : l = Segment(s, i, k + 1, Between(s, i + 1, c), TRUE)
  BY Zenon
<1> HIDE DEF segs, wikiLabel
<1>h. \A l : l \in MarkdownLink(s, i) <=> \E c \in closes : l \in segs(c)
  BY <1>b, Zenon
<1>2. ASSUME pair, NEW k PROVE k \in wikiEnds <=> k \in 1..Len(s) /\ WikiAt(s, i, k)
  BY <1>d, <1>2, WikiEnds
<1>3. ASSUME NEW c \in closes PROVE c \in Int /\ \A k \in ends(c) : k \in Int
  <2>1. i \in Nat \ {0}
    OBVIOUS
  <2>2. c \in i..Len(s)
    BY <2>1, FindOne
  <2>3. c \in Int /\ c + 2 \in Nat \ {0}
    BY <1>0, <2>2
  <2> DEFINE n == c + 2
  <2>4. ASSUME NEW k \in ends(c) PROVE k \in Int
    <3>1. k \in Find(s, n, <<RParen>>) /\ n \in Nat \ {0}
      BY <1>e, <2>3
    <3> HIDE DEF n
    <3>2. k \in n..Len(s)
      BY <3>1, FindOne
    <3> QED BY <3>2
  <2> QED BY <2>3, <2>4
<1>4. ASSUME s[i] = Open, NEW c \in Int, NEW k \in Int
      PROVE  c \in closes /\ k \in ends(c) <=> c \in 1..Len(s) /\ k \in 1..Len(s) /\ LabelledAt(s, i, c, k)
  BY <1>e, <1>4, LabelEnds
<1> HIDE DEF closes
<1>5. ASSUME NEW l \in ParseLink(s, i)
      PROVE  /\ l.at = i /\ l.link = TRUE
             /\ \E e \in (i + 1)..(Len(s) + 1) : l.len = e - i /\ LinkFrom(s, i, e)
  <2>1. CASE pair
    <3>1. PICK k \in wikiEnds : l = Segment(s, i, k + 2, wikiLabel(k), TRUE)
      BY <1>1, <1>5, <1>c, <1>f, <2>1
    <3>2. k \in 1..Len(s) /\ WikiAt(s, i, k)
      BY <1>2, <2>1, <3>1
    <3> DEFINE e == k + 2
    <3>3. i + 2 < k /\ k + 1 <= Len(s)
      BY <3>2 DEF WikiAt
    <3>4. e \in (i + 1)..(Len(s) + 1) /\ e - 2 = k
      BY <1>0, <3>2, <3>3
    <3>5. l.at = i /\ l.len = e - i /\ l.link = TRUE
      BY <3>1 DEF Segment
    <3> HIDE DEF e
    <3>6. LinkFrom(s, i, e)
      BY <3>2, <3>4 DEF LinkFrom
    <3> QED BY <3>4, <3>5, <3>6
  <2>2. CASE ~pair
    <3>1. s[i] = Open /\ l \in MarkdownLink(s, i)
      BY <1>1, <1>5, <1>c, <2>2
    <3>2. PICK c \in closes : l \in segs(c)
      BY <1>h, <3>1
    <3>3. PICK k \in ends(c) : l = Segment(s, i, k + 1, Between(s, i + 1, c), TRUE)
      BY <1>g, <3>2
    <3>4. c \in 1..Len(s) /\ k \in 1..Len(s) /\ LabelledAt(s, i, c, k)
      BY <1>3, <1>4, <3>1, <3>2, <3>3
    <3> DEFINE e == k + 1
    <3>5. i + 1 < c /\ c + 2 < k
      BY <3>4 DEF LabelledAt
    <3>6. e \in (i + 1)..(Len(s) + 1) /\ e - 1 = k
      BY <1>0, <3>4, <3>5
    <3>7. l.at = i /\ l.len = e - i /\ l.link = TRUE
      BY <3>3 DEF Segment
    <3> HIDE DEF e
    <3>8. LinkFrom(s, i, e)
      BY <3>4, <3>6 DEF LinkFrom
    <3> QED BY <3>6, <3>7, <3>8
  <2> QED BY <2>1, <2>2
<1>6. ASSUME NEW e \in (i + 1)..(Len(s) + 1), LinkFrom(s, i, e) PROVE ParseLink(s, i) # {}
  <2>0. e \in Int
    BY <1>0
  <2>1. CASE WikiAt(s, i, e - 2)
    <3> DEFINE k == e - 2
    <3>1. /\ i + 2 < k /\ k + 1 <= Len(s) /\ s[i] = Open /\ s[i + 1] = Open
      BY <2>1 DEF WikiAt
    <3>2. k \in 1..Len(s) /\ pair
      BY <1>0, <2>0, <3>1
    <3>3. k \in wikiEnds
      BY <1>2, <2>1, <3>2
    <3> HIDE DEF k
    <3>4. Segment(s, i, k + 2, wikiLabel(k), TRUE) \in WikiLink(s, i)
      BY <1>f, <3>3, Zenon
    <3> QED BY <1>1, <1>c, <3>2, <3>4
  <2>2. ASSUME NEW c \in 1..Len(s), LabelledAt(s, i, c, e - 1) PROVE ParseLink(s, i) # {}
    <3> DEFINE k == e - 1
    <3>1. /\ i + 1 < c /\ c + 2 < k /\ k <= Len(s) /\ s[i] = Open
          /\ \A n \in (i + 1)..(c - 1) : s[n] # Open
      BY <2>2 DEF LabelledAt
    <3>2. k \in 1..Len(s) /\ i + 1 \in (i + 1)..(c - 1) /\ c \in Int /\ k \in Int
      BY <1>0, <2>0, <3>1
    <3>3. ~pair
      BY <3>1, <3>2
    <3>4. c \in closes /\ k \in ends(c)
      BY <1>4, <2>2, <3>1, <3>2
    <3> HIDE DEF k
    <3>5. Segment(s, i, k + 1, Between(s, i + 1, c), TRUE) \in segs(c)
      BY <1>g, <3>4, Zenon
    <3>6. Segment(s, i, k + 1, Between(s, i + 1, c), TRUE) \in MarkdownLink(s, i)
      BY <1>h, <3>4, <3>5, Zenon
    <3> QED BY <1>1, <1>c, <3>1, <3>3, <3>6
  <2> QED BY <1>6, <2>1, <2>2 DEF LinkFrom
<1> QED BY <1>5, <1>6

\* The segments of a text: links, which do not follow an exclamation mark, and plain text
\* without a link in it.
IsSegment(body, g) ==
    \E i \in 1..Len(body) : \E j \in (i + 1)..(Len(body) + 1) :
       /\ g.at = i /\ g.len = j - i
       /\ IF g.link THEN LinkFrom(body, i, j) /\ (i > 1 => body[i - 1] # "!")
          ELSE g.label = Between(body, i, j) /\ \A p \in i..(j - 1) : LinkAt(body, p) = {}

Runs(body, i) == {Segment(body, i, j, Between(body, i, j), FALSE) : j \in 1..(Len(body) + 1)}

Segs(body) == {g \in UNION {LinkAt(body, i) \cup Runs(body, i) : i \in 1..Len(body)} : IsSegment(body, g)}

\* One after the other, from i up to j.
Chain(segs, i, j) ==
    /\ segs = <<>> => i = j
    /\ segs # <<>> => segs[1].at = i /\ segs[Len(segs)].at + segs[Len(segs)].len = j
    /\ \A k \in 2..Len(segs) : segs[k].at = segs[k - 1].at + segs[k - 1].len

LEMMA ChainJoin ==
  ASSUME NEW S, NEW s \in Seq(S), NEW t \in Seq(S), NEW i, NEW j, NEW k, Chain(s, i, j), Chain(t, j, k)
  PROVE  Chain(s \o t, i, k)
<1> DEFINE m == Len(s)
           n == Len(t)
           u == s \o t
<1>0. m \in Nat /\ n \in Nat /\ Len(u) = m + n
  OBVIOUS
<1>1. /\ \A p \in 1..m : u[p] = s[p]
      /\ \A p \in 1..n : u[m + p] = t[p]
  OBVIOUS
<1>2. s = <<>> <=> m = 0
  OBVIOUS
<1>3. t = <<>> <=> n = 0
  OBVIOUS
<1>4. u = <<>> <=> m + n = 0
  OBVIOUS
<1>5. /\ m = 0 => i = j
      /\ m # 0 => s[1].at = i /\ s[m].at + s[m].len = j
      /\ \A p \in 2..m : s[p].at = s[p - 1].at + s[p - 1].len
      /\ n = 0 => j = k
      /\ n # 0 => t[1].at = j /\ t[n].at + t[n].len = k
      /\ \A p \in 2..n : t[p].at = t[p - 1].at + t[p - 1].len
  BY <1>2, <1>3 DEF Chain
<1> HIDE DEF u, m, n
<1>6. m + n = 0 => i = k
  BY <1>0, <1>5
<1>7. ASSUME m + n # 0 PROVE u[1].at = i
  <2>1. CASE m = 0
    <3>1. n # 0 /\ 1 \in 1..n /\ m + 1 = 1
      BY <1>0, <1>7, <2>1
    <3> QED BY <1>1, <1>5, <2>1, <3>1
  <2>2. CASE m # 0
    <3>1. 1 \in 1..m
      BY <1>0, <2>2
    <3> QED BY <1>1, <1>5, <2>2, <3>1
  <2> QED BY <2>1, <2>2
<1>8. ASSUME m + n # 0 PROVE u[m + n].at + u[m + n].len = k
  <2>1. CASE n = 0
    <3>1. m # 0 /\ m \in 1..m /\ m + n = m
      BY <1>0, <1>8, <2>1
    <3> QED BY <1>1, <1>5, <2>1, <3>1
  <2>2. CASE n # 0
    <3>1. n \in 1..n
      BY <1>0, <2>2
    <3> QED BY <1>1, <1>5, <2>2, <3>1
  <2> QED BY <2>1, <2>2
<1>9. ASSUME NEW p \in 2..(m + n) PROVE u[p].at = u[p - 1].at + u[p - 1].len
  <2>1. CASE p <= m
    <3>1. p \in 1..m /\ p - 1 \in 1..m /\ p \in 2..m
      BY <1>0, <2>1
    <3> QED BY <1>1, <1>5, <3>1
  <2>2. CASE p = m + 1
    <3>1. m \in 1..m /\ 1 \in 1..n /\ p - 1 = m /\ m # 0 /\ n # 0
      BY <1>0, <2>2
    <3> QED BY <1>1, <1>5, <2>2, <3>1
  <2>3. CASE p > m + 1
    <3> DEFINE q == p - m
    <3>1. q \in 2..n /\ q \in 1..n /\ q - 1 \in 1..n /\ m + q = p /\ m + (q - 1) = p - 1
      BY <1>0, <2>3
    <3> HIDE DEF q
    <3> QED BY <1>1, <1>5, <3>1
  <2> QED BY <1>0, <2>1, <2>2, <2>3
<1> QED BY <1>0, <1>4, <1>6, <1>7, <1>8, <1>9 DEF Chain, u

\* The link at i, and where it ends.
LEMMA LinkEnds ==
  ASSUME NEW A, NEW s \in Seq(A), NEW i \in 1..Len(s), NEW l \in LinkAt(s, i)
  PROVE  /\ l \in Segs(s) /\ Chain(<<l>>, i, i + l.len)
         /\ l.len \in Nat /\ i + l.len \in (i + 1)..(Len(s) + 1)
<1>0. Len(s) \in Nat /\ i \in Int
  OBVIOUS
<1>1. l \in ParseLink(s, i) /\ (i > 1 => s[i - 1] # "!")
  BY DEF LinkAt
<1>2. /\ l.at = i /\ l.link = TRUE
      /\ \E e \in (i + 1)..(Len(s) + 1) : l.len = e - i /\ LinkFrom(s, i, e)
  BY <1>1, ParseIs
<1>3. PICK e \in (i + 1)..(Len(s) + 1) : l.len = e - i /\ LinkFrom(s, i, e)
  BY <1>2
<1>4. IsSegment(s, l)
  BY <1>1, <1>2, <1>3 DEF IsSegment
<1>5. l \in Segs(s)
  BY <1>4 DEF Segs
<1>6. l.len \in Nat /\ i + l.len \in (i + 1)..(Len(s) + 1)
  BY <1>0, <1>3
<1>7. Chain(<<l>>, i, i + l.len)
  <2> DEFINE t == <<l>>
  <2>1. t # <<>> /\ Len(t) = 1 /\ t[1] = l
    OBVIOUS
  <2> HIDE DEF t
  <2>2. Chain(t, i, i + l.len)
    BY <1>2, <2>1 DEF Chain
  <2> QED BY <2>2 DEF t
<1> QED BY <1>5, <1>6, <1>7

\* The plain text from i up to j.
LEMMA PlainIs ==
  ASSUME NEW A, NEW s \in Seq(A), NEW i \in 1..(Len(s) + 1), NEW j \in i..(Len(s) + 1),
         \A p \in i..(j - 1) : LinkAt(s, p) = {}
  PROVE  Plain(s, i, j) \in Seq(Segs(s)) /\ Chain(Plain(s, i, j), i, j)
<1>0. Len(s) \in Nat /\ i \in Int /\ j \in Int
  OBVIOUS
<1>1. CASE i < j
  <2> DEFINE g == Segment(s, i, j, Between(s, i, j), FALSE)
  <2>1. g.at = i /\ g.len = j - i /\ g.label = Between(s, i, j) /\ g.link = FALSE
    BY DEF Segment
  <2>2. i \in 1..Len(s) /\ j \in (i + 1)..(Len(s) + 1) /\ j \in 1..(Len(s) + 1) /\ i + (j - i) = j
    BY <1>0, <1>1
  <2>3. Plain(s, i, j) = <<g>>
    BY <1>1 DEF Plain
  <2>4. g \in Runs(s, i)
    BY <2>2, Zenon DEF Runs
  <2> HIDE DEF g
  <2>5. IsSegment(s, g)
    BY <2>1, <2>2 DEF IsSegment
  <2>6. g \in Segs(s)
    BY <2>2, <2>4, <2>5 DEF Segs
  <2> DEFINE t == <<g>>
  <2>7. t # <<>> /\ Len(t) = 1 /\ t[1] = g /\ t \in Seq(Segs(s))
    BY <2>6
  <2> HIDE DEF t
  <2>8. Chain(t, i, j)
    BY <2>1, <2>2, <2>7 DEF Chain
  <2> QED BY <2>3, <2>7, <2>8 DEF t
<1>2. CASE ~(i < j)
  <2> DEFINE t == <<>>
  <2>1. i = j /\ Plain(s, i, j) = t
    BY <1>0, <1>2 DEF Plain
  <2>2. t = <<>> /\ Len(t) = 0 /\ t \in Seq(Segs(s))
    OBVIOUS
  <2> HIDE DEF t
  <2>3. Chain(t, i, j)
    BY <2>1, <2>2 DEF Chain
  <2> QED BY <2>1, <2>2, <2>3
<1> QED BY <1>1, <1>2

\* What follows from i on, given what does from later places.
FirstLink(body, i) == CHOOSE l \in LinkAt(body, i) : TRUE

Follows(body, f, i) ==
    IF i > Len(body) THEN [plain |-> i, segs |-> <<>>]
    ELSE IF LinkAt(body, i) = {} THEN f[i + 1]
    ELSE LET link == FirstLink(body, i)
             rest == f[i + link.len]
         IN  [plain |-> i,
              segs  |-> <<link>> \o Plain(body, i + link.len, rest.plain) \o rest.segs]

LEMMA FollowsLater ==
  ASSUME NEW A, NEW s \in Seq(A), NEW i \in 1..(Len(s) + 1), NEW f, NEW g,
         \A j \in (i + 1)..(Len(s) + 1) : f[j] = g[j]
  PROVE  Follows(s, f, i) = Follows(s, g, i)
<1>0. Len(s) \in Nat /\ i \in Int
  OBVIOUS
<1>1. CASE i > Len(s)
  BY <1>1 DEF Follows
<1>2. CASE ~(i > Len(s)) /\ LinkAt(s, i) = {}
  <2>1. i + 1 \in (i + 1)..(Len(s) + 1)
    BY <1>0, <1>2
  <2>2. f[i + 1] = g[i + 1]
    BY <2>1
  <2> QED BY <1>2, <2>2, Zenon DEF Follows
<1>3. CASE ~(i > Len(s)) /\ LinkAt(s, i) # {}
  <2>1. i \in 1..Len(s) /\ FirstLink(s, i) \in LinkAt(s, i)
    BY <1>0, <1>3 DEF FirstLink
  <2>2. i + FirstLink(s, i).len \in (i + 1)..(Len(s) + 1)
    BY <2>1, LinkEnds
  <2>3. f[i + FirstLink(s, i).len] = g[i + FirstLink(s, i).len]
    BY <2>2
  <2> QED BY <1>3, <2>3, Zenon DEF Follows
<1> QED BY <1>1, <1>2, <1>3

\* There is a function that says what follows from each place on.
LEMMA FollowsExists ==
  ASSUME NEW A, NEW s \in Seq(A)
  PROVE  \E f : f = [i \in 1..(Len(s) + 1) |-> Follows(s, f, i)]
<1> DEFINE N == Len(s)
           P(k) == \E f : \A i \in (N + 1 - k)..(N + 1) : f[i] = Follows(s, f, i)
           S == {k \in 0..N : P(k)}
<1>0. N \in Nat
  OBVIOUS
<1>1. P(0)
  <2> DEFINE f == [i \in {N + 1} |-> [plain |-> N + 1, segs |-> <<>>]]
  <2>1. ASSUME NEW i \in (N + 1 - 0)..(N + 1) PROVE f[i] = Follows(s, f, i)
    <3>1. i = N + 1 /\ i > Len(s)
      BY <1>0
    <3>2. f[i] = [plain |-> i, segs |-> <<>>]
      BY <3>1
    <3> QED BY <3>1, <3>2, Zenon DEF Follows
  <2> QED BY <2>1
<1>2. ASSUME NEW k \in 0..(N - 1), P(k) PROVE P(k + 1)
  <2> DEFINE n == N - k
  <2>1. n \in 1..N /\ N + 1 - k = n + 1 /\ N + 1 - (k + 1) = n
    BY <1>0
  <2>2. PICK f : \A i \in (n + 1)..(N + 1) : f[i] = Follows(s, f, i)
    BY <1>2, <2>1
  <2> HIDE DEF n
  <2> DEFINE g == [i \in n..(N + 1) |-> IF i = n THEN Follows(s, f, n) ELSE f[i]]
  <2>3. ASSUME NEW i \in (n + 1)..(N + 1) PROVE g[i] = f[i]
    <3>1. i \in n..(N + 1) /\ i # n
      BY <1>0, <2>1
    <3> QED BY <3>1
  <2>4. g[n] = Follows(s, f, n)
    <3>1. n \in n..(N + 1)
      BY <1>0, <2>1
    <3> QED BY <3>1
  <2> HIDE DEF g
  <2>5. ASSUME NEW i \in n..(N + 1) PROVE g[i] = Follows(s, g, i)
    <3>1. /\ i \in 1..(N + 1)
          /\ (i + 1)..(N + 1) \subseteq (n + 1)..(N + 1)
          /\ i = n \/ i \in (n + 1)..(N + 1)
      BY <1>0, <2>1
    <3>2. \A j \in (i + 1)..(N + 1) : g[j] = f[j]
      BY <2>3, <3>1
    <3>3. Follows(s, g, i) = Follows(s, f, i)
      BY <3>1, <3>2, FollowsLater
    <3> QED BY <2>2, <2>3, <2>4, <3>1, <3>3
  <2> QED BY <2>1, <2>5
<1>3. \A k \in 0..N : k \in S
  <2> HIDE DEF P
  <2>1. 0 \in S
    BY <1>0, <1>1
  <2>2. \A k \in 0..(N - 1) : k \in S => k + 1 \in S
    <3>1. ASSUME NEW k \in 0..(N - 1), k \in S PROVE k + 1 \in S
      <4>1. P(k) /\ k + 1 \in 0..N
        BY <1>0, <3>1
      <4> QED BY <1>2, <4>1
    <3> QED BY <3>1
  <2> HIDE DEF S
  <2> QED BY <1>0, <2>1, <2>2, Induct
<1>4. P(N)
  <2>1. N \in 0..N
    BY <1>0
  <2> HIDE DEF P
  <2> QED BY <1>3, <2>1
<1>5. PICK f : \A i \in 1..(N + 1) : f[i] = Follows(s, f, i)
  <2>1. N + 1 - N = 1
    BY <1>0
  <2> QED BY <1>4, <2>1
<1> DEFINE g == [i \in 1..(N + 1) |-> f[i]]
<1>6. \A i \in 1..(N + 1) : g[i] = f[i]
  OBVIOUS
<1> HIDE DEF g
<1>7. ASSUME NEW i \in 1..(N + 1) PROVE Follows(s, g, i) = f[i]
  <2>1. \A j \in (i + 1)..(N + 1) : j \in 1..(N + 1)
    BY <1>0
  <2>2. \A j \in (i + 1)..(N + 1) : g[j] = f[j]
    BY <1>6, <2>1
  <2>3. Follows(s, g, i) = Follows(s, f, i)
    BY <2>2, FollowsLater
  <2> QED BY <1>5, <2>3
<1>8. g = [i \in 1..(N + 1) |-> Follows(s, g, i)]
  <2>1. [i \in 1..(N + 1) |-> Follows(s, g, i)] = [i \in 1..(N + 1) |-> f[i]]
    BY <1>7
  <2> QED BY <2>1 DEF g
<1> QED BY <1>8

\* From each place on there is plain text up to the first link, and then segments.
Split(body, r, i) ==
    /\ r.plain \in i..(Len(body) + 1) /\ r.segs \in Seq(Segs(body))
    /\ Chain(r.segs, r.plain, Len(body) + 1)
    /\ \A j \in i..(r.plain - 1) : LinkAt(body, j) = {}

LEMMA FollowsSplit ==
  ASSUME NEW A, NEW s \in Seq(A), NEW f, NEW i \in 1..(Len(s) + 1),
         \A j \in (i + 1)..(Len(s) + 1) : Split(s, f[j], j)
  PROVE  Split(s, Follows(s, f, i), i)
<1> DEFINE r == Follows(s, f, i)
<1>0. Len(s) \in Nat /\ i \in Int
  OBVIOUS
<1>1. CASE i > Len(s)
  <2> DEFINE t == <<>>
  <2>1. r = [plain |-> i, segs |-> t]
    BY <1>1, Zenon DEF Follows
  <2>2. r.plain = i /\ r.segs = t
    BY <2>1
  <2>3. i = Len(s) + 1
    BY <1>0, <1>1
  <2>4. t = <<>> /\ Len(t) = 0 /\ t \in Seq(Segs(s))
    OBVIOUS
  <2> HIDE DEF t, r
  <2>5. Chain(t, i, Len(s) + 1)
    BY <2>3, <2>4 DEF Chain
  <2>6. i \in i..(Len(s) + 1) /\ \A j \in i..(i - 1) : FALSE
    BY <1>0, <2>3
  <2>7. Split(s, r, i)
    BY <2>2, <2>4, <2>5, <2>6 DEF Split
  <2> QED BY <2>7 DEF r
<1>2. CASE ~(i > Len(s)) /\ LinkAt(s, i) = {}
  <2>1. i + 1 \in (i + 1)..(Len(s) + 1)
    BY <1>0, <1>2
  <2>2. r = f[i + 1]
    BY <1>2, Zenon DEF Follows
  <2>3. Split(s, f[i + 1], i + 1)
    BY <2>1
  <2> HIDE DEF r
  <2>4. /\ r.plain \in (i + 1)..(Len(s) + 1) /\ r.segs \in Seq(Segs(s))
        /\ Chain(r.segs, r.plain, Len(s) + 1)
        /\ \A j \in (i + 1)..(r.plain - 1) : LinkAt(s, j) = {}
    BY <2>2, <2>3 DEF Split
  <2>5. r.plain \in i..(Len(s) + 1)
    BY <1>0, <2>4
  <2>6. ASSUME NEW j \in i..(r.plain - 1) PROVE LinkAt(s, j) = {}
    <3>1. j = i \/ j \in (i + 1)..(r.plain - 1)
      BY <1>0, <2>5
    <3> QED BY <1>2, <2>4, <3>1
  <2>7. Split(s, r, i)
    BY <2>4, <2>5, <2>6 DEF Split
  <2> QED BY <2>7 DEF r
<1>3. CASE ~(i > Len(s)) /\ LinkAt(s, i) # {}
  <2> DEFINE l == FirstLink(s, i)
             e == i + l.len
             one == <<l>>
             rest == f[e]
             plain == Plain(s, e, rest.plain)
  <2>1. i \in 1..Len(s) /\ l \in LinkAt(s, i)
    BY <1>0, <1>3 DEF FirstLink
  <2>2. l \in Segs(s) /\ Chain(one, i, e) /\ e \in (i + 1)..(Len(s) + 1)
    BY <2>1, LinkEnds
  <2>3. r = [plain |-> i, segs |-> one \o plain \o rest.segs]
    BY <1>3, Zenon DEF Follows
  <2>4. one \in Seq(Segs(s))
    BY <2>2
  <2>5. Split(s, rest, e)
    BY <2>2
  <2> HIDE DEF l, e, one, rest, r
  <2>6. /\ rest.plain \in e..(Len(s) + 1) /\ rest.segs \in Seq(Segs(s))
        /\ Chain(rest.segs, rest.plain, Len(s) + 1)
        /\ \A j \in e..(rest.plain - 1) : LinkAt(s, j) = {}
    BY <2>5 DEF Split
  <2>7. e \in 1..(Len(s) + 1)
    BY <1>0, <2>2
  <2>8. plain \in Seq(Segs(s)) /\ Chain(plain, e, rest.plain)
    <3> DEFINE b == rest.plain
    <3>1. b \in e..(Len(s) + 1) /\ \A j \in e..(b - 1) : LinkAt(s, j) = {}
      BY <2>6
    <3> HIDE DEF b
    <3>2. Plain(s, e, b) \in Seq(Segs(s)) /\ Chain(Plain(s, e, b), e, b)
      BY <2>7, <3>1, PlainIs
    <3> QED BY <3>2 DEF b
  <2> HIDE DEF plain
  <2>9. one \o plain \in Seq(Segs(s)) /\ Chain(one \o plain, i, rest.plain)
    BY <2>2, <2>4, <2>8, ChainJoin
  <2> DEFINE front == one \o plain
  <2>10. front \in Seq(Segs(s)) /\ Chain(front, i, rest.plain)
    BY <2>9
  <2> HIDE DEF front
  <2>11. front \o rest.segs \in Seq(Segs(s)) /\ Chain(front \o rest.segs, i, Len(s) + 1)
    BY <2>6, <2>10, ChainJoin
  <2>12. r.plain = i /\ r.segs = front \o rest.segs
    BY <2>3 DEF front
  <2>13. i \in i..(Len(s) + 1) /\ \A j \in i..(i - 1) : FALSE
    BY <1>0
  <2>14. Split(s, r, i)
    BY <2>11, <2>12, <2>13 DEF Split
  <2> QED BY <2>14 DEF r
<1> QED BY <1>1, <1>2, <1>3

LEMMA AllSplit ==
  ASSUME NEW A, NEW s \in Seq(A), NEW f, f = [i \in 1..(Len(s) + 1) |-> Follows(s, f, i)]
  PROVE  \A i \in 1..(Len(s) + 1) : Split(s, f[i], i)
<1> DEFINE N == Len(s)
           S == {k \in 0..N : \A i \in (N + 1 - k)..(N + 1) : Split(s, f[i], i)}
<1>0. N \in Nat
  OBVIOUS
<1>1. \A i \in 1..(N + 1) : f[i] = Follows(s, f, i)
  OBVIOUS
<1>2. ASSUME NEW i \in 1..(N + 1), \A j \in (i + 1)..(N + 1) : Split(s, f[j], j)
      PROVE  Split(s, f[i], i)
  <2>1. Split(s, Follows(s, f, i), i)
    BY <1>2, FollowsSplit
  <2> QED BY <1>1, <2>1
<1>3. 0 \in S
  <2>1. 0 \in 0..N /\ N + 1 \in 1..(N + 1) /\ \A j \in (N + 1 + 1)..(N + 1) : FALSE
    BY <1>0
  <2>2. Split(s, f[N + 1], N + 1)
    BY <1>2, <2>1
  <2>3. \A i \in (N + 1 - 0)..(N + 1) : i = N + 1
    BY <1>0
  <2> QED BY <2>1, <2>2, <2>3
<1>4. ASSUME NEW k \in 0..(N - 1), k \in S PROVE k + 1 \in S
  <2> DEFINE n == N - k
  <2>1. n \in 1..(N + 1) /\ N + 1 - k = n + 1 /\ N + 1 - (k + 1) = n /\ k + 1 \in 0..N
    BY <1>0
  <2>2. \A j \in (n + 1)..(N + 1) : Split(s, f[j], j)
    BY <1>4, <2>1
  <2> HIDE DEF n
  <2>3. Split(s, f[n], n)
    BY <1>2, <2>1, <2>2
  <2>4. \A j \in n..(N + 1) : j = n \/ j \in (n + 1)..(N + 1)
    BY <2>1
  <2>5. \A j \in n..(N + 1) : Split(s, f[j], j)
    BY <2>2, <2>3, <2>4
  <2> QED BY <2>1, <2>5
<1>5. \A k \in 0..N : k \in S
  <2> HIDE DEF S
  <2>1. \A k \in 0..(N - 1) : k \in S => k + 1 \in S
    BY <1>4
  <2> QED BY <1>0, <1>3, <2>1, Induct
<1>6. N \in 0..N /\ N + 1 - N = 1
  BY <1>0
<1> QED BY <1>5, <1>6

\* The segments are one after the other, and make up the text.
LEMMA SplitIs ==
  ASSUME NEW A, NEW s \in Seq(A)
  PROVE  SplitLinks(s) \in Seq(Segs(s)) /\ Chain(SplitLinks(s), 1, Len(s) + 1)
<1> DEFINE from == CHOOSE f : f = [i \in 1..(Len(s) + 1) |-> Follows(s, f, i)]
<1>0. Len(s) \in Nat
  OBVIOUS
<1>1. SplitLinks(s) = Plain(s, 1, from[1].plain) \o from[1].segs
  BY Zenon DEF SplitLinks, Follows, FirstLink
<1>2. from = [i \in 1..(Len(s) + 1) |-> Follows(s, from, i)]
  BY FollowsExists
<1> HIDE DEF from
<1>3. 1 \in 1..(Len(s) + 1)
  BY <1>0
<1>4. Split(s, from[1], 1)
  BY <1>2, <1>3, AllSplit
<1> DEFINE b == from[1].plain
           rest == from[1].segs
           plain == Plain(s, 1, b)
<1>5. /\ b \in 1..(Len(s) + 1) /\ rest \in Seq(Segs(s))
      /\ Chain(rest, b, Len(s) + 1)
      /\ \A j \in 1..(b - 1) : LinkAt(s, j) = {}
  BY <1>4 DEF Split
<1> HIDE DEF b, rest
<1>6. plain \in Seq(Segs(s)) /\ Chain(plain, 1, b)
  BY <1>3, <1>5, PlainIs
<1>7. SplitLinks(s) = plain \o rest
  BY <1>1 DEF b, rest
<1> HIDE DEF plain
<1>8. plain \o rest \in Seq(Segs(s)) /\ Chain(plain \o rest, 1, Len(s) + 1)
  BY <1>5, <1>6, ChainJoin
<1> QED BY <1>7, <1>8

\* A piece of the text that looks like a link.
LEMMA PieceIsLink ==
  ASSUME NEW A, NEW s \in Seq(A), NEW i \in 1..(Len(s) + 1), NEW j \in 1..(Len(s) + 1)
  PROVE  IsLink(Between(s, i, j)) <=> i <= Len(s) /\ i < j /\ LinkFrom(s, i, j)
<1>0. Len(s) \in Nat /\ i \in Int /\ j \in Int
  OBVIOUS
<1>1. CASE i <= Len(s) /\ i < j
  <2>1. i \in 1..Len(s) /\ j \in i..(Len(s) + 1)
    BY <1>0, <1>1
  <2>2. IsLink(Between(s, i, j)) <=>
          WikiAt(s, i, j - 2) \/ \E c \in 1..Len(s) : LabelledAt(s, i, c, j - 1)
    BY <2>1, PieceLinks
  <2> QED BY <1>1, <2>2 DEF LinkFrom
<1>2. CASE ~(i <= Len(s) /\ i < j)
  <2>1. Between(s, i, j) = <<>>
    <3>1. CASE j <= i
      <4>1. SubSeq(s, i, Min({j - 1, Len(s)})) = <<>>
        <5>1. j - 1 <= Len(s) /\ j - 1 \in Int
          BY <1>0
        <5>2. Min({j - 1, Len(s)}) = j - 1
          BY <1>0, <5>1, MinOfTwo
        <5>3. i > j - 1
          BY <1>0, <3>1
        <5> QED BY <1>0, <5>1, <5>2, <5>3
      <4> QED BY <4>1 DEF Between
    <3>2. CASE ~(j <= i)
      <4>1. FALSE
        BY <1>0, <1>2, <3>2
      <4> QED BY <4>1
    <3> QED BY <3>1, <3>2
  <2> DEFINE t == <<>>
  <2>2. t \in Seq(A) /\ Len(t) = 0 /\ t = <<>>
    OBVIOUS
  <2> HIDE DEF t
  <2>3. IsLink(t) <=> WikiAt(t, 1, Len(t) - 1) \/ \E c \in 1..Len(t) : LabelledAt(t, 1, c, Len(t))
    BY <2>2, LinkIs
  <2>4. ~WikiAt(t, 1, Len(t) - 1) /\ \A c \in 1..Len(t) : FALSE
    BY <2>2 DEF WikiAt
  <2>5. ~IsLink(t)
    BY <2>3, <2>4
  <2> QED BY <1>2, <2>1, <2>2, <2>5
<1> QED BY <1>1, <1>2

\* Every text is shown with all of its links as links and everything else as it is.
LEMMA LinksAre ==
  ASSUME NEW A, NEW s \in Seq(A), NEW segs, segs = SplitLinks(s)
  PROVE  /\ segs = <<>> <=> s = <<>>
         /\ \A k \in DOMAIN segs :
               /\ segs[k].at = IF k = 1 THEN 1 ELSE segs[k - 1].at + segs[k - 1].len
               /\ k = Len(segs) => segs[k].at + segs[k].len = Len(s) + 1
         /\ \A k \in DOMAIN segs :
               IF segs[k].link
               THEN /\ IsLink(Between(s, segs[k].at, segs[k].at + segs[k].len))
                    /\ segs[k].at > 1 => s[segs[k].at - 1] # "!"
               ELSE /\ segs[k].label = Between(s, segs[k].at, segs[k].at + segs[k].len)
                    /\ \A i, j \in segs[k].at..(segs[k].at + segs[k].len) :
                          IsLink(Between(s, i, j)) => i > 1 /\ s[i - 1] = "!"
<1>0. Len(s) \in Nat
  OBVIOUS
<1>1. segs \in Seq(Segs(s)) /\ Chain(segs, 1, Len(s) + 1)
  BY SplitIs
<1>2. DOMAIN segs = 1..Len(segs) /\ Len(segs) \in Nat
  BY <1>1
<1>3. ASSUME NEW k \in DOMAIN segs PROVE IsSegment(s, segs[k])
  <2>1. segs[k] \in Segs(s)
    BY <1>1
  <2> QED BY <2>1 DEF Segs
<1>4. segs = <<>> => s = <<>>
  <2>1. segs = <<>> => 1 = Len(s) + 1
    BY <1>1 DEF Chain
  <2> QED BY <1>0, <2>1
<1>5. s = <<>> => segs = <<>>
  <2> SUFFICES ASSUME s = <<>>, segs # <<>> PROVE FALSE
    OBVIOUS
  <2>1. 1 \in DOMAIN segs
    BY <1>1, <1>2
  <2>2. IsSegment(s, segs[1]) /\ Len(s) = 0
    BY <1>3, <2>1
  <2>3. 1..Len(s) = {}
    BY <2>2
  <2> QED BY <2>2, <2>3 DEF IsSegment
<1>6. ASSUME NEW k \in DOMAIN segs
      PROVE  /\ segs[k].at = IF k = 1 THEN 1 ELSE segs[k - 1].at + segs[k - 1].len
             /\ k = Len(segs) => segs[k].at + segs[k].len = Len(s) + 1
  <2>1. segs # <<>> /\ (k # 1 => k \in 2..Len(segs))
    BY <1>2
  <2>2. /\ segs[1].at = 1 /\ segs[Len(segs)].at + segs[Len(segs)].len = Len(s) + 1
        /\ \A p \in 2..Len(segs) : segs[p].at = segs[p - 1].at + segs[p - 1].len
    BY <1>1, <2>1 DEF Chain
  <2> QED BY <2>1, <2>2
<1>7. ASSUME NEW k \in DOMAIN segs
      PROVE  IF segs[k].link
             THEN /\ IsLink(Between(s, segs[k].at, segs[k].at + segs[k].len))
                  /\ segs[k].at > 1 => s[segs[k].at - 1] # "!"
             ELSE /\ segs[k].label = Between(s, segs[k].at, segs[k].at + segs[k].len)
                  /\ \A i, j \in segs[k].at..(segs[k].at + segs[k].len) :
                        IsLink(Between(s, i, j)) => i > 1 /\ s[i - 1] = "!"
  <2> DEFINE g == segs[k]
  <2>1. IsSegment(s, g)
    BY <1>3
  <2> HIDE DEF g
  <2>2. PICK a \in 1..Len(s) : \E b \in (a + 1)..(Len(s) + 1) :
               /\ g.at = a /\ g.len = b - a
               /\ IF g.link THEN LinkFrom(s, a, b) /\ (a > 1 => s[a - 1] # "!")
                  ELSE g.label = Between(s, a, b) /\ \A p \in a..(b - 1) : LinkAt(s, p) = {}
    BY <2>1 DEF IsSegment
  <2>3. PICK b \in (a + 1)..(Len(s) + 1) :
               /\ g.at = a /\ g.len = b - a
               /\ IF g.link THEN LinkFrom(s, a, b) /\ (a > 1 => s[a - 1] # "!")
                  ELSE g.label = Between(s, a, b) /\ \A p \in a..(b - 1) : LinkAt(s, p) = {}
    BY <2>2
  <2>4. a \in Int /\ b \in Int /\ a <= Len(s) /\ a < b /\ a \in 1..(Len(s) + 1) /\ b \in 1..(Len(s) + 1)
        /\ g.at = a /\ g.at + g.len = b
    BY <1>0, <2>3
  <2>5. ASSUME g.link PROVE IsLink(Between(s, a, b)) /\ (a > 1 => s[a - 1] # "!")
    <3>1. LinkFrom(s, a, b)
      BY <2>3, <2>5
    <3>2. IsLink(Between(s, a, b))
      BY <2>4, <3>1, PieceIsLink
    <3> QED BY <2>3, <2>5, <3>2
  <2>6. ASSUME ~g.link, NEW i \in a..b, NEW j \in a..b, IsLink(Between(s, i, j))
        PROVE  i > 1 /\ s[i - 1] = "!"
    <3>1. i \in 1..(Len(s) + 1) /\ j \in 1..(Len(s) + 1) /\ i \in Int /\ j \in Int
      BY <1>0, <2>4
    <3>2. i <= Len(s) /\ i < j /\ LinkFrom(s, i, j)
      BY <2>6, <3>1, PieceIsLink
    <3>3. i \in 1..Len(s) /\ j \in (i + 1)..(Len(s) + 1) /\ i \in a..(b - 1)
      BY <1>0, <2>4, <3>1, <3>2
    <3>4. ParseLink(s, i) # {}
      BY <3>2, <3>3, ParseIs
    <3>5. LinkAt(s, i) = {}
      BY <2>3, <2>6, <3>3
    <3> QED BY <3>4, <3>5, Zenon DEF LinkAt
  <2>7. ~g.link => g.label = Between(s, a, b)
    BY <2>3
  <2> QED BY <2>4, <2>5, <2>6, <2>7 DEF g
<1> QED BY <1>4, <1>5, <1>6, <1>7

\* A text of any length, of any characters, is shown with what looks like a link as a link,
\* unless it is embedded, and with the rest as it is: split_links finds all of them and
\* nothing else, and what it gives is the text, segment by segment.
THEOREM LinksAreFound == Spec => []LinksFound
<1>1. ASSUME TextsTypeOK PROVE LinksFound
  <2> SUFFICES ASSUME sample.kind = "links" PROVE LinksFound
    BY DEF LinksFound
  <2>1. text \in Seq(sample.chars)
    BY <1>1 DEF TextsTypeOK
  <2> DEFINE segs == SplitLinks(text)
  <2>2. /\ segs = <<>> <=> text = <<>>
        /\ \A k \in DOMAIN segs :
              /\ segs[k].at = IF k = 1 THEN 1 ELSE segs[k - 1].at + segs[k - 1].len
              /\ k = Len(segs) => segs[k].at + segs[k].len = Len(text) + 1
        /\ \A k \in DOMAIN segs :
              IF segs[k].link
              THEN /\ IsLink(Between(text, segs[k].at, segs[k].at + segs[k].len))
                   /\ segs[k].at > 1 => text[segs[k].at - 1] # "!"
              ELSE /\ segs[k].label = Between(text, segs[k].at, segs[k].at + segs[k].len)
                   /\ \A i, j \in segs[k].at..(segs[k].at + segs[k].len) :
                         IsLink(Between(text, i, j)) => i > 1 /\ text[i - 1] = "!"
    BY <2>1, LinksAre
  <2> QED BY <2>2, Zenon DEF LinksFound
<1> QED BY <1>1, TextsTyped, PTL

-----------------------------------------------------------------------------
\* Sequences: two of them one after the other, a piece with one element more, and all but the
\* last.

LEMMA JoinIs ==
  ASSUME NEW A, NEW s \in Seq(A), NEW t \in Seq(A)
  PROVE  /\ s \o t \in Seq(A) /\ Len(s \o t) = Len(s) + Len(t)
         /\ \A i \in 1..Len(s) : (s \o t)[i] = s[i]
         /\ \A i \in 1..Len(t) : (s \o t)[Len(s) + i] = t[i]
<1>1. Len(s) \in Nat /\ Len(t) \in Nat
  OBVIOUS
<1>2. s \o t \in Seq(A) /\ Len(s \o t) = Len(s) + Len(t)
  OBVIOUS
<1>3. ASSUME NEW i \in 1..Len(s) PROVE (s \o t)[i] = s[i]
  BY <1>1
<1>4. ASSUME NEW i \in 1..Len(t) PROVE (s \o t)[Len(s) + i] = t[i]
  <2>1. Len(s) + i \in 1..(Len(s) + Len(t)) /\ ~(Len(s) + i <= Len(s)) /\ (Len(s) + i) - Len(s) = i
    BY <1>1
  <2> QED BY <2>1
<1> QED BY <1>2, <1>3, <1>4

LEMMA AppendIs ==
  ASSUME NEW A, NEW s \in Seq(A), NEW c \in A
  PROVE  /\ Append(s, c) \in Seq(A) /\ Len(Append(s, c)) = Len(s) + 1
         /\ \A k \in 1..Len(s) : Append(s, c)[k] = s[k]
         /\ Append(s, c)[Len(s) + 1] = c
<1>1. Len(s) \in Nat /\ Len(Append(s, c)) = Len(s) + 1 /\ Append(s, c) \in Seq(A)
      /\ \A i \in 1..(Len(s) + 1) : Append(s, c)[i] = IF i = Len(s) + 1 THEN c ELSE s[i]
  OBVIOUS
<1>2. ASSUME NEW k \in 1..Len(s) PROVE Append(s, c)[k] = s[k]
  <2>1. k \in 1..(Len(s) + 1) /\ k # Len(s) + 1
    BY <1>1
  <2> QED BY <1>1, <2>1
<1>3. Append(s, c)[Len(s) + 1] = c
  <2>1. Len(s) + 1 \in 1..(Len(s) + 1)
    BY <1>1
  <2> QED BY <1>1, <2>1
<1> QED BY <1>1, <1>2, <1>3

LEMMA PieceGrows ==
  ASSUME NEW A, NEW s \in Seq(A), NEW a \in Int, NEW n \in Int, 1 <= a, a <= n + 1, n < Len(s)
  PROVE  /\ SubSeq(s, a, n) \in Seq(A) /\ s[n + 1] \in A
         /\ SubSeq(s, a, n + 1) = Append(SubSeq(s, a, n), s[n + 1])
<1>0. Len(s) \in Nat /\ n + 1 \in 1..Len(s) /\ \A i \in 1..Len(s) : s[i] \in A
  OBVIOUS
<1> DEFINE t == SubSeq(s, a, n)
           u == SubSeq(s, a, n + 1)
           c == s[n + 1]
<1>1. t \in Seq(A) /\ Len(t) = n - a + 1 /\ \A k \in 1..(n - a + 1) : t[k] = s[a + k - 1]
  <2>1. n <= Len(s)
    BY <1>0
  <2>2. t \in Seq(A) /\ Len(t) = n - a + 1 /\ \A k \in 1..(n - a + 1) : t[k] = s[k + a - 1] /\ k + a - 1 = a + k - 1
    BY <2>1
  <2> QED BY <2>2
<1>2. u \in Seq(A) /\ Len(u) = n - a + 2 /\ \A k \in 1..(n - a + 2) : u[k] = s[a + k - 1]
  <2>1. n + 1 <= Len(s) /\ n + 1 \in Int /\ a <= (n + 1) + 1 /\ (n + 1) - a + 1 = n - a + 2
    BY <1>0
  <2>2. u \in Seq(A) /\ Len(u) = (n + 1) - a + 1 /\ \A k \in 1..((n + 1) - a + 1) : u[k] = s[k + a - 1] /\ k + a - 1 = a + k - 1
    BY <2>1
  <2> QED BY <2>1, <2>2
<1>3. c \in A /\ c = s[n + 1]
  BY <1>0
<1> HIDE DEF t, u, c
<1> DEFINE v == Append(t, c)
<1>4. v \in Seq(A) /\ Len(v) = Len(t) + 1 /\ (\A k \in 1..Len(t) : v[k] = t[k]) /\ v[Len(t) + 1] = c
  <2>1. t \in Seq(A) /\ c \in A
    BY <1>1, <1>3
  <2> QED BY <2>1, AppendIs
<1> HIDE DEF v
<1>5. Len(v) = Len(u)
  BY <1>1, <1>2, <1>4
<1>6. ASSUME NEW k \in 1..Len(u) PROVE u[k] = v[k]
  <2>1. CASE k = n - a + 2
    <3>1. a + k - 1 = n + 1 /\ k = Len(t) + 1
      BY <1>1, <2>1
    <3> QED BY <1>2, <1>3, <1>4, <1>6, <3>1
  <2>2. CASE k # n - a + 2
    <3>1. k \in 1..(n - a + 1)
      BY <1>2, <2>2
    <3> QED BY <1>1, <1>2, <1>4, <1>6, <3>1
  <2> QED BY <2>1, <2>2
<1>7. u = v
  BY <1>2, <1>4, <1>5, <1>6, SameSeq
<1> QED BY <1>1, <1>3, <1>7 DEF t, u, c, v

LEMMA FrontIs ==
  ASSUME NEW A, NEW s \in Seq(A), Len(s) >= 1, NEW x \in A
  PROVE  /\ Front(s) \o <<x>> \in Seq(A) /\ Len(Front(s) \o <<x>>) = Len(s)
         /\ \A i \in 1..Len(s) : (Front(s) \o <<x>>)[i] = IF i = Len(s) THEN x ELSE s[i]
<1> DEFINE n == Len(s) - 1
           f == SubSeq(s, 1, n)
           o == <<x>>
<1>1. n \in Nat /\ n + 1 = Len(s) /\ n <= Len(s)
  OBVIOUS
<1>2. Front(s) = f
  BY DEF Front
<1> HIDE DEF n
<1>3. f \in Seq(A) /\ Len(f) = n /\ \A i \in 1..n : f[i] = s[i]
  <2>1. f \in Seq(A) /\ Len(f) = n
    BY <1>1
  <2>2. ASSUME NEW i \in 1..n PROVE f[i] = s[i]
    BY <1>1
  <2> QED BY <2>1, <2>2
<1>4. o \in Seq(A) /\ Len(o) = 1 /\ o[1] = x
  OBVIOUS
<1> HIDE DEF f, o
<1>5. /\ f \o o \in Seq(A) /\ Len(f \o o) = n + 1
      /\ (\A i \in 1..n : (f \o o)[i] = f[i]) /\ \A i \in 1..1 : (f \o o)[n + i] = o[i]
  <2>1. /\ f \o o \in Seq(A) /\ Len(f \o o) = Len(f) + Len(o)
        /\ (\A i \in 1..Len(f) : (f \o o)[i] = f[i]) /\ \A i \in 1..Len(o) : (f \o o)[Len(f) + i] = o[i]
    <3>1. f \in Seq(A) /\ o \in Seq(A)
      BY <1>3, <1>4
    <3> QED BY <3>1, JoinIs
  <2> QED BY <1>3, <1>4, <2>1, Zenon
<1>6. ASSUME NEW i \in 1..Len(s) PROVE (f \o o)[i] = IF i = Len(s) THEN x ELSE s[i]
  <2>1. CASE i = Len(s)
    <3>1. i = n + 1 /\ 1 \in 1..1
      BY <1>1, <2>1
    <3> QED BY <1>4, <1>5, <2>1, <3>1
  <2>2. CASE i # Len(s)
    <3>1. i \in 1..n
      BY <1>1, <2>2
    <3> QED BY <1>3, <1>5, <2>2, <3>1
  <2> QED BY <2>1, <2>2
<1> QED BY <1>1, <1>2, <1>5, <1>6 DEF o

-----------------------------------------------------------------------------
\* Wrapped rows.

CellSet == [char : Keyboard, width : Nat, link : {0, 1}, flat : Int]

\* The columns that cells take.
AddUsed == [n \in Nat |-> [c \in CellSet |-> n + c.width]]

LEMMA AddUsedType == AddUsed \in [Nat -> [CellSet -> Nat]] /\ 0 \in Nat
BY DEF AddUsed, CellSet

LEMMA UsedIsLoop ==
  ASSUME NEW s \in Seq(CellSet)
  PROVE  Used(s) = Loop(Nat, AddUsed, 0, s)
<1> DEFINE Eq(h) == h = [t \in SUBSET DOMAIN s |->
                           IF t = {} THEN 0
                           ELSE h[t \ {Max(t)}] + s[Max(t)].width]
           F == CHOOSE h : Eq(h)
<1>0. DOMAIN s = 1..Len(s) /\ Len(s) \in Nat /\ \A k \in 1..Len(s) : s[k] \in CellSet
  OBVIOUS
<1>1. Used(s) = F[1..Len(s)]
  BY <1>0 DEF Used, FoldLeft, MapThenFoldSet
<1>2. \E h : Eq(h)
  <2>1. PICK g \in [SUBSET (1..Len(s)) -> Nat] :
           \A t \in SUBSET (1..Len(s)) :
              g[t] = IF t = {} THEN 0 ELSE AddUsed[g[t \ {Max(t)}]][s[Max(t)]]
    <3>1. HasIter(Nat, AddUsed, 0, s)
      BY AddUsedType, IterExists
    <3> QED BY <3>1 DEF HasIter
  <2>2. ASSUME NEW t \in SUBSET (1..Len(s))
        PROVE  g[t] = IF t = {} THEN 0
                      ELSE g[t \ {Max(t)}] + s[Max(t)].width
    <3>1. CASE t = {}
      BY <2>1, <3>1
    <3>2. CASE t # {}
      <4>1. Max(t) \in 1..Len(s) /\ t \ {Max(t)} \in SUBSET (1..Len(s))
        BY <1>0, <3>2, MaxIn
      <4>2. g[t \ {Max(t)}] \in Nat /\ s[Max(t)] \in CellSet
        BY <1>0, <2>1, <4>1
      <4>3. AddUsed[g[t \ {Max(t)}]][s[Max(t)]]
              = g[t \ {Max(t)}] + s[Max(t)].width
        BY <4>2 DEF AddUsed
      <4> QED BY <2>1, <3>2, <4>3
    <3> QED BY <3>1, <3>2
  <2>3. g = [t \in SUBSET (1..Len(s)) |->
               IF t = {} THEN 0 ELSE g[t \ {Max(t)}] + s[Max(t)].width]
    BY <2>1, <2>2
  <2> QED BY <1>0, <2>3
<1>3. Eq(F)
  BY <1>2
<1> HIDE DEF F
<1>4. \A t \in SUBSET (1..Len(s)) :
         F[t] = IF t = {} THEN 0 ELSE F[t \ {Max(t)}] + s[Max(t)].width
  BY <1>0, <1>3
<1> HIDE DEF Eq
<1>5. F[{}] = 0
  BY <1>4
<1>6. ASSUME NEW k \in 0..(Len(s) - 1), F[1..k] \in Nat
      PROVE  F[1..(k + 1)] = AddUsed[F[1..k]][s[k + 1]]
  <2>1. k \in Nat /\ k + 1 \in 1..Len(s) /\ s[k + 1] \in CellSet
    <3>1. k \in Nat /\ k + 1 \in 1..Len(s)
      BY <1>0
    <3> QED BY <1>0, <3>1
  <2>0. 1..(k + 1) \in SUBSET (1..Len(s)) /\ k + 1 \in 1..(k + 1)
    BY <1>0, <2>1
  <2>2. Max(1..(k + 1)) = k + 1 /\ (1..(k + 1)) \ {k + 1} = 1..k
    BY <2>1, MaxUpto
  <2>3. F[1..(k + 1)] = F[1..k] + s[k + 1].width
    <3> DEFINE t == 1..(k + 1)
    <3>1. t \in SUBSET (1..Len(s)) /\ t # {} /\ Max(t) = k + 1 /\ t \ {k + 1} = 1..k
      BY <2>0, <2>1, <2>2
    <3> HIDE DEF t
    <3>2. F[t] = F[t \ {Max(t)}] + s[Max(t)].width
      BY <1>4, <3>1
    <3>3. F[t] = F[1..k] + s[k + 1].width
      BY <3>1, <3>2
    <3> QED BY <3>3 DEF t
  <2> QED BY <1>6, <2>1, <2>3 DEF AddUsed
<1>7. HasRun(Nat, AddUsed, 0, s) /\ IsIter(F, Nat, AddUsed, 0, s)
  <2>1. IsIter(F, Nat, AddUsed, 0, s)
    BY <1>5, <1>6 DEF IsIter
  <2> QED BY <2>1, AddUsedType, RunExists
<1>8. F[1..Len(s)] = Loop(Nat, AddUsed, 0, s)
  BY <1>0, <1>7, IterIs
<1> QED BY <1>1, <1>8

LEMMA UsedIs ==
  /\ Used(<<>>) = 0
  /\ \A s \in Seq(CellSet) : Used(s) \in Nat /\ \A c \in CellSet : Used(Append(s, c)) = Used(s) + c.width
<1>1. LoopLaws(CellSet, Nat, AddUsed, 0)
  BY AddUsedType, LoopIs
<1>2. Used(<<>>) = 0
  <2>1. <<>> \in Seq(CellSet)
    OBVIOUS
  <2> QED BY <1>1, <2>1, UsedIsLoop DEF LoopLaws
<1>3. ASSUME NEW s \in Seq(CellSet)
      PROVE  Used(s) \in Nat /\ \A c \in CellSet : Used(Append(s, c)) = Used(s) + c.width
  <2>1. Used(s) = Loop(Nat, AddUsed, 0, s) /\ Used(s) \in Nat
    BY <1>1, UsedIsLoop DEF LoopLaws
  <2>2. ASSUME NEW c \in CellSet PROVE Used(Append(s, c)) = Used(s) + c.width
    <3>1. Append(s, c) \in Seq(CellSet)
      OBVIOUS
    <3>2. Used(Append(s, c)) = AddUsed[Used(s)][c]
      BY <1>1, <2>1, <3>1, UsedIsLoop DEF LoopLaws
    <3> QED BY <2>1, <3>2 DEF AddUsed
  <2> QED BY <2>1, <2>2
<1> QED BY <1>2, <1>3

\* and those of them that had a column from lo up to hi.
AddTaken(lo, hi) ==
    [n \in Nat |-> [c \in CellSet |-> IF lo <= c.flat /\ c.flat < hi THEN n + c.width ELSE n]]

LEMMA AddTakenType ==
  ASSUME NEW lo, NEW hi
  PROVE  AddTaken(lo, hi) \in [Nat -> [CellSet -> Nat]] /\ 0 \in Nat
BY DEF AddTaken, CellSet

LEMMA TakenIsLoop ==
  ASSUME NEW lo, NEW hi, NEW s \in Seq(CellSet)
  PROVE  Taken(s, lo, hi) = Loop(Nat, AddTaken(lo, hi), 0, s)
<1> DEFINE Eq(h) == h = [t \in SUBSET DOMAIN s |->
                           IF t = {} THEN 0
                           ELSE (IF lo <= s[Max(t)].flat /\ s[Max(t)].flat < hi THEN h[t \ {Max(t)}] + s[Max(t)].width ELSE h[t \ {Max(t)}])]
           F == CHOOSE h : Eq(h)
<1>0. DOMAIN s = 1..Len(s) /\ Len(s) \in Nat /\ \A k \in 1..Len(s) : s[k] \in CellSet
  OBVIOUS
<1>1. Taken(s, lo, hi) = F[1..Len(s)]
  BY <1>0 DEF Taken, FoldLeft, MapThenFoldSet
<1>2. \E h : Eq(h)
  <2>1. PICK g \in [SUBSET (1..Len(s)) -> Nat] :
           \A t \in SUBSET (1..Len(s)) :
              g[t] = IF t = {} THEN 0 ELSE AddTaken(lo, hi)[g[t \ {Max(t)}]][s[Max(t)]]
    <3>1. HasIter(Nat, AddTaken(lo, hi), 0, s)
      BY AddTakenType, IterExists
    <3> QED BY <3>1 DEF HasIter
  <2>2. ASSUME NEW t \in SUBSET (1..Len(s))
        PROVE  g[t] = IF t = {} THEN 0
                      ELSE (IF lo <= s[Max(t)].flat /\ s[Max(t)].flat < hi THEN g[t \ {Max(t)}] + s[Max(t)].width ELSE g[t \ {Max(t)}])
    <3>1. CASE t = {}
      BY <2>1, <3>1
    <3>2. CASE t # {}
      <4>1. Max(t) \in 1..Len(s) /\ t \ {Max(t)} \in SUBSET (1..Len(s))
        BY <1>0, <3>2, MaxIn
      <4>2. g[t \ {Max(t)}] \in Nat /\ s[Max(t)] \in CellSet
        BY <1>0, <2>1, <4>1
      <4>3. AddTaken(lo, hi)[g[t \ {Max(t)}]][s[Max(t)]]
              = (IF lo <= s[Max(t)].flat /\ s[Max(t)].flat < hi THEN g[t \ {Max(t)}] + s[Max(t)].width ELSE g[t \ {Max(t)}])
        BY <4>2 DEF AddTaken
      <4> QED BY <2>1, <3>2, <4>3
    <3> QED BY <3>1, <3>2
  <2>3. g = [t \in SUBSET (1..Len(s)) |->
               IF t = {} THEN 0 ELSE (IF lo <= s[Max(t)].flat /\ s[Max(t)].flat < hi THEN g[t \ {Max(t)}] + s[Max(t)].width ELSE g[t \ {Max(t)}])]
    BY <2>1, <2>2
  <2> QED BY <1>0, <2>3
<1>3. Eq(F)
  BY <1>2
<1> HIDE DEF F
<1>4. \A t \in SUBSET (1..Len(s)) :
         F[t] = IF t = {} THEN 0 ELSE (IF lo <= s[Max(t)].flat /\ s[Max(t)].flat < hi THEN F[t \ {Max(t)}] + s[Max(t)].width ELSE F[t \ {Max(t)}])
  BY <1>0, <1>3
<1> HIDE DEF Eq
<1>5. F[{}] = 0
  BY <1>4
<1>6. ASSUME NEW k \in 0..(Len(s) - 1), F[1..k] \in Nat
      PROVE  F[1..(k + 1)] = AddTaken(lo, hi)[F[1..k]][s[k + 1]]
  <2>1. k \in Nat /\ k + 1 \in 1..Len(s) /\ s[k + 1] \in CellSet
    <3>1. k \in Nat /\ k + 1 \in 1..Len(s)
      BY <1>0
    <3> QED BY <1>0, <3>1
  <2>0. 1..(k + 1) \in SUBSET (1..Len(s)) /\ k + 1 \in 1..(k + 1)
    BY <1>0, <2>1
  <2>2. Max(1..(k + 1)) = k + 1 /\ (1..(k + 1)) \ {k + 1} = 1..k
    BY <2>1, MaxUpto
  <2>3. F[1..(k + 1)] = (IF lo <= s[k + 1].flat /\ s[k + 1].flat < hi THEN F[1..k] + s[k + 1].width ELSE F[1..k])
    <3> DEFINE t == 1..(k + 1)
    <3>1. t \in SUBSET (1..Len(s)) /\ t # {} /\ Max(t) = k + 1 /\ t \ {k + 1} = 1..k
      BY <2>0, <2>1, <2>2
    <3> HIDE DEF t
    <3>2. F[t] = (IF lo <= s[Max(t)].flat /\ s[Max(t)].flat < hi THEN F[t \ {Max(t)}] + s[Max(t)].width ELSE F[t \ {Max(t)}])
      BY <1>4, <3>1
    <3>3. F[t] = (IF lo <= s[k + 1].flat /\ s[k + 1].flat < hi THEN F[1..k] + s[k + 1].width ELSE F[1..k])
      BY <3>1, <3>2
    <3> QED BY <3>3 DEF t
  <2> QED BY <1>6, <2>1, <2>3 DEF AddTaken
<1>7. HasRun(Nat, AddTaken(lo, hi), 0, s) /\ IsIter(F, Nat, AddTaken(lo, hi), 0, s)
  <2>1. IsIter(F, Nat, AddTaken(lo, hi), 0, s)
    BY <1>5, <1>6 DEF IsIter
  <2> QED BY <2>1, AddTakenType, RunExists
<1>8. F[1..Len(s)] = Loop(Nat, AddTaken(lo, hi), 0, s)
  BY <1>0, <1>7, IterIs
<1> QED BY <1>1, <1>8

LEMMA TakenIs ==
  ASSUME NEW lo, NEW hi
  PROVE  /\ Taken(<<>>, lo, hi) = 0
         /\ \A s \in Seq(CellSet) :
               /\ Taken(s, lo, hi) \in Nat
               /\ \A c \in CellSet : Taken(Append(s, c), lo, hi)
                                       = IF lo <= c.flat /\ c.flat < hi THEN Taken(s, lo, hi) + c.width
                                         ELSE Taken(s, lo, hi)
<1>1. LoopLaws(CellSet, Nat, AddTaken(lo, hi), 0)
  BY AddTakenType, LoopIs
<1>2. Taken(<<>>, lo, hi) = 0
  <2>1. <<>> \in Seq(CellSet)
    OBVIOUS
  <2> QED BY <1>1, <2>1, TakenIsLoop DEF LoopLaws
<1>3. ASSUME NEW s \in Seq(CellSet)
      PROVE  /\ Taken(s, lo, hi) \in Nat
             /\ \A c \in CellSet : Taken(Append(s, c), lo, hi)
                                     = IF lo <= c.flat /\ c.flat < hi THEN Taken(s, lo, hi) + c.width
                                       ELSE Taken(s, lo, hi)
  <2>1. Taken(s, lo, hi) = Loop(Nat, AddTaken(lo, hi), 0, s) /\ Taken(s, lo, hi) \in Nat
    BY <1>1, TakenIsLoop DEF LoopLaws
  <2>2. ASSUME NEW c \in CellSet
        PROVE  Taken(Append(s, c), lo, hi) = IF lo <= c.flat /\ c.flat < hi THEN Taken(s, lo, hi) + c.width
                                             ELSE Taken(s, lo, hi)
    <3>1. Append(s, c) \in Seq(CellSet)
      OBVIOUS
    <3>2. Taken(Append(s, c), lo, hi) = Loop(Nat, AddTaken(lo, hi), 0, Append(s, c))
      BY <3>1, TakenIsLoop
    <3>3. Loop(Nat, AddTaken(lo, hi), 0, Append(s, c)) = AddTaken(lo, hi)[Loop(Nat, AddTaken(lo, hi), 0, s)][c]
      BY <1>1, Zenon DEF LoopLaws
    <3> DEFINE n == Taken(s, lo, hi)
    <3>4. Taken(Append(s, c), lo, hi) = AddTaken(lo, hi)[n][c] /\ n \in Nat
      BY <2>1, <3>2, <3>3
    <3> HIDE DEF n
    <3>5. AddTaken(lo, hi)[n][c] = IF lo <= c.flat /\ c.flat < hi THEN n + c.width ELSE n
      BY <3>4 DEF AddTaken
    <3> QED BY <3>4, <3>5 DEF n
  <2> QED BY <2>1, <2>2
<1> QED BY <1>2, <1>3

\* The indentation of a line takes as many columns as it has cells.
LEMMA IndentationIs ==
  ASSUME NEW h \in Nat
  PROVE  /\ Indentation(h) \in Seq(CellSet) /\ Len(Indentation(h)) = h
         /\ \A k \in 1..h : Indentation(h)[k] = [char |-> " ", width |-> 1, link |-> 0, flat |-> -1]
         /\ Used(Indentation(h)) = h
<1> DEFINE blank == [char |-> " ", width |-> 1, link |-> 0, flat |-> -1]
           S == {n \in 0..h : Used(Indentation(n)) = n}
<1>0. blank \in CellSet /\ blank.width = 1
  <2>1. " " \in Keyboard
    BY InputAssumption
  <2>2. 1 \in Nat /\ 0 \in {0, 1}
    OBVIOUS
  <2>3. -1 \in Int
    OBVIOUS
  <2> QED BY <2>1, <2>2, <2>3, Zenon DEF CellSet
<1> HIDE DEF blank
<1>1. ASSUME NEW n \in Nat
      PROVE  /\ Indentation(n) \in Seq(CellSet) /\ Len(Indentation(n)) = n
             /\ \A k \in 1..n : Indentation(n)[k] = blank
  <2>1. Indentation(n) = [k \in 1..n |-> blank]
    BY DEF Indentation, blank
  <2> QED BY <1>0, <2>1
<1>2. 0 \in S
  <2>1. Indentation(0) = <<>>
    BY <1>1
  <2> QED BY <2>1, UsedIs
<1>3. ASSUME NEW n \in 0..(h - 1), n \in S PROVE n + 1 \in S
  <2>1. n \in Nat /\ n + 1 \in Nat /\ n + 1 \in 0..h
    OBVIOUS
  <2>2. /\ Indentation(n) \in Seq(CellSet) /\ Len(Indentation(n)) = n
        /\ \A k \in 1..n : Indentation(n)[k] = blank
    BY <1>1, <2>1
  <2>3. /\ Indentation(n + 1) \in Seq(CellSet) /\ Len(Indentation(n + 1)) = n + 1
        /\ \A k \in 1..(n + 1) : Indentation(n + 1)[k] = blank
    BY <1>1, <2>1
  <2>4. Indentation(n + 1) = Append(Indentation(n), blank)
    BY <1>0, <2>1, <2>2, <2>3
  <2>5. Used(Indentation(n + 1)) = Used(Indentation(n)) + blank.width
    BY <1>0, <2>2, <2>4, UsedIs
  <2> QED BY <1>0, <1>3, <2>1, <2>5
<1>4. h \in S
  <2> HIDE DEF S
  <2>1. \A n \in 0..h : n \in S
    BY <1>2, <1>3, Induct
  <2> QED BY <2>1
<1> QED BY <1>1, <1>4 DEF blank

LEMMA IndentationFits ==
  ASSUME NEW h \in Nat
  PROVE  Indentation(h) \in Seq(CellSet) /\ Used(Indentation(h)) = h
BY IndentationIs

\* The columns of the first n cells.
UsedUpto(s, n) == Used(SubSeq(s, 1, n))

LEMMA UsedUptoIs ==
  ASSUME NEW s \in Seq(CellSet)
  PROVE  /\ UsedUpto(s, 0) = 0 /\ UsedUpto(s, Len(s)) = Used(s)
         /\ \A n \in 0..Len(s) : UsedUpto(s, n) \in Nat
         /\ \A n \in 1..Len(s) : UsedUpto(s, n) = UsedUpto(s, n - 1) + s[n].width /\ s[n].width \in Nat
<1>0. Len(s) \in Nat /\ \A i \in 1..Len(s) : s[i] \in CellSet
  OBVIOUS
<1>1. SubSeq(s, 1, 0) = <<>> /\ SubSeq(s, 1, Len(s)) = s
  OBVIOUS
<1>2. ASSUME NEW i \in 0..Len(s) PROVE SubSeq(s, 1, i) \in Seq(CellSet)
  BY <1>0
<1>3. ASSUME NEW n \in 1..Len(s) PROVE UsedUpto(s, n) = UsedUpto(s, n - 1) + s[n].width /\ s[n].width \in Nat
  <2>1. n - 1 \in 0..Len(s) /\ s[n] \in CellSet /\ s[n].width \in Nat
    BY <1>0 DEF CellSet
  <2>2. SubSeq(s, 1, n) = Append(SubSeq(s, 1, n - 1), s[n])
    BY <1>0
  <2> QED BY <1>2, <2>1, <2>2, UsedIs DEF UsedUpto
<1>4. UsedUpto(s, 0) = 0
  BY <1>1, UsedIs DEF UsedUpto
<1>5. \A n \in 0..Len(s) : UsedUpto(s, n) \in Nat
  BY <1>2, UsedIs DEF UsedUpto
<1> QED BY <1>1, <1>3, <1>4, <1>5 DEF UsedUpto

\* They grow, cell by cell.
LEMMA UsedGrows ==
  ASSUME NEW s \in Seq(CellSet), NEW a \in 0..Len(s), NEW b \in a..Len(s)
  PROVE  /\ UsedUpto(s, a) <= UsedUpto(s, b)
         /\ (\A k \in (a + 1)..b : s[k].width > 0) => UsedUpto(s, a) + (b - a) <= UsedUpto(s, b)
<1>0. Len(s) \in Nat /\ a \in Nat /\ b \in Nat /\ b - a \in Nat
  OBVIOUS
<1> DEFINE U(n) == UsedUpto(s, n)
           S == {k \in 0..(b - a) : /\ U(a) <= U(a + k)
                                    /\ (\A i \in (a + 1)..(a + k) : s[i].width > 0) => U(a) + k <= U(a + k)}
<1>1. \A n \in 0..Len(s) : U(n) \in Nat
  BY UsedUptoIs
<1>2. 0 \in S
  <2>1. a + 0 = a /\ U(a) \in Nat
    BY <1>0, <1>1
  <2> HIDE DEF U
  <2> QED BY <1>0, <2>1
<1>3. ASSUME NEW k \in 0..(b - a - 1), k \in S PROVE k + 1 \in S
  <2>1. a + k + 1 \in 1..Len(s) /\ k + 1 \in 0..(b - a) /\ a + (k + 1) = a + k + 1 /\ (a + k + 1) - 1 = a + k
        /\ a + k \in 0..Len(s) /\ a + k + 1 \in (a + 1)..(a + k + 1)
    BY <1>0
  <2>2. U(a + k + 1) = U(a + k) + s[a + k + 1].width /\ s[a + k + 1].width \in Nat
    BY <2>1, UsedUptoIs
  <2>3. U(a + k) \in Nat /\ U(a) \in Nat /\ U(a + k + 1) \in Nat
    BY <1>0, <1>1, <2>1
  <2> HIDE DEF U
  <2>4. U(a) <= U(a + k + 1)
    BY <1>3, <2>2, <2>3
  <2>5. ASSUME \A i \in (a + 1)..(a + k + 1) : s[i].width > 0 PROVE U(a) + (k + 1) <= U(a + k + 1)
    <3>1. \A i \in (a + 1)..(a + k) : i \in (a + 1)..(a + k + 1)
      BY <1>0
    <3>2. U(a) + k <= U(a + k)
      BY <1>3, <2>5, <3>1
    <3>3. s[a + k + 1].width > 0
      BY <2>1, <2>5
    <3> QED BY <2>2, <2>3, <3>2, <3>3, SMTT(30)
  <2> QED BY <2>1, <2>4, <2>5
<1>4. b - a \in S
  <2> HIDE DEF S
  <2>1. \A k \in 0..(b - a) : k \in S
    BY <1>0, <1>2, <1>3, Induct
  <2> QED BY <1>0, <2>1
<1>5. a + (b - a) = b
  BY <1>0
<1> QED BY <1>4, <1>5

LEMMA UsedBetween ==
  ASSUME NEW s \in Seq(CellSet), NEW a \in 0..Len(s), NEW b \in a..Len(s)
  PROVE  Used(SubSeq(s, a + 1, b)) = UsedUpto(s, b) - UsedUpto(s, a)
<1>0. Len(s) \in Nat /\ a \in Nat /\ b \in Nat /\ b - a \in Nat /\ \A i \in 1..Len(s) : s[i] \in CellSet
  OBVIOUS
<1> DEFINE U(n) == UsedUpto(s, n)
           S == {k \in 0..(b - a) : Used(SubSeq(s, a + 1, a + k)) = U(a + k) - U(a)}
<1>1. \A n \in 0..Len(s) : U(n) \in Nat
  BY UsedUptoIs
<1>2. 0 \in S
  <2>1. a + 0 = a /\ U(a) \in Nat /\ SubSeq(s, a + 1, a + 0) = <<>>
    BY <1>0, <1>1
  <2>2. Used(SubSeq(s, a + 1, a + 0)) = 0
    BY <2>1, UsedIs
  <2> HIDE DEF U
  <2>3. Used(SubSeq(s, a + 1, a + 0)) = U(a + 0) - U(a)
    BY <2>1, <2>2
  <2> QED BY <1>0, <2>3
<1>3. ASSUME NEW k \in 0..(b - a - 1), k \in S PROVE k + 1 \in S
  <2>1. a + k + 1 \in 1..Len(s) /\ k + 1 \in 0..(b - a) /\ a + (k + 1) = a + k + 1 /\ (a + k + 1) - 1 = a + k
        /\ a + k \in 0..Len(s)
    BY <1>0
  <2>2. U(a + k + 1) = U(a + k) + s[a + k + 1].width /\ s[a + k + 1].width \in Nat
    BY <2>1, UsedUptoIs
  <2>3. U(a + k) \in Nat /\ U(a) \in Nat /\ U(a + k + 1) \in Nat
    BY <1>0, <1>1, <2>1
  <2> DEFINE t == SubSeq(s, a + 1, a + k)
  <2>4. t \in Seq(CellSet) /\ SubSeq(s, a + 1, a + (k + 1)) = Append(t, s[a + k + 1]) /\ s[a + k + 1] \in CellSet
    BY <1>0, <2>1
  <2>5. Used(t) = U(a + k) - U(a)
    BY <1>3
  <2> HIDE DEF t, U
  <2>6. Used(SubSeq(s, a + 1, a + (k + 1))) = Used(t) + s[a + k + 1].width
    BY <2>4, UsedIs
  <2>7. Used(SubSeq(s, a + 1, a + (k + 1))) = U(a + (k + 1)) - U(a)
    BY <2>1, <2>2, <2>3, <2>5, <2>6
  <2> QED BY <2>1, <2>7
<1>4. b - a \in S
  <2> HIDE DEF S
  <2>1. \A k \in 0..(b - a) : k \in S
    BY <1>0, <1>2, <1>3, Induct
  <2> QED BY <1>0, <2>1
<1>5. a + (b - a) = b
  BY <1>0
<1> QED BY <1>4, <1>5

LEMMA UsedJoin ==
  ASSUME NEW s \in Seq(CellSet), NEW t \in Seq(CellSet)
  PROVE  s \o t \in Seq(CellSet) /\ Used(s \o t) = Used(s) + Used(t)
<1> DEFINE u == s \o t
           n == Len(s)
<1>1. u \in Seq(CellSet) /\ Len(u) = Len(s) + Len(t) /\ n \in 0..Len(u) /\ Len(u) \in n..Len(u)
  OBVIOUS
<1>2. SubSeq(u, 1, n) = s /\ SubSeq(u, n + 1, Len(u)) = t
  OBVIOUS
<1> HIDE DEF u, n
<1>3. Used(SubSeq(u, n + 1, Len(u))) = UsedUpto(u, Len(u)) - UsedUpto(u, n)
  BY <1>1, UsedBetween
<1>4. UsedUpto(u, Len(u)) = Used(u) /\ UsedUpto(u, Len(u)) \in Nat /\ UsedUpto(u, n) \in Nat
  <2>1. Len(u) \in 0..Len(u)
    BY <1>1
  <2> QED BY <1>1, <2>1, UsedUptoIs
<1>5. UsedUpto(u, n) = Used(s)
  BY <1>2 DEF UsedUpto
<1>6. Used(u) = Used(s) + Used(t)
  <2>1. Used(t) = Used(u) - Used(s)
    BY <1>2, <1>3, <1>4, <1>5
  <2>2. Used(u) \in Nat /\ Used(s) \in Nat
    BY <1>4, <1>5
  <2> QED BY <2>1, <2>2
<1> QED BY <1>1, <1>6 DEF u

\* The cells that had a column from x up to y are those after the first a up to the b-th.
LEMMA TakenPart ==
  ASSUME NEW s \in Seq(CellSet), NEW x \in Int, NEW y \in Int, NEW a \in 0..Len(s), NEW b \in a..Len(s),
         \A k \in 1..Len(s) : (x <= s[k].flat /\ s[k].flat < y) <=> k \in (a + 1)..b
  PROVE  Taken(s, x, y) = UsedUpto(s, b) - UsedUpto(s, a)
<1>0. Len(s) \in Nat /\ a \in Nat /\ b \in Nat /\ \A i \in 1..Len(s) : s[i] \in CellSet
  OBVIOUS
<1> DEFINE U(n) == UsedUpto(s, n)
           T(n) == Taken(SubSeq(s, 1, n), x, y)
           last(n) == IF n <= a THEN a ELSE IF n <= b THEN n ELSE b
           S == {n \in 0..Len(s) : T(n) = U(last(n)) - U(a)}
<1>1. \A n \in 0..Len(s) : U(n) \in Nat
  BY UsedUptoIs
<1>2. 0 \in S
  <2>1. SubSeq(s, 1, 0) = <<>> /\ last(0) = a
    BY <1>0
  <2>2. T(0) = 0
    BY <2>1, TakenIs
  <2>3. U(a) \in Nat
    BY <1>0, <1>1
  <2> HIDE DEF U, T, last
  <2>4. T(0) = U(last(0)) - U(a)
    BY <2>1, <2>2, <2>3
  <2> QED BY <1>0, <2>4
<1>3. ASSUME NEW n \in 0..(Len(s) - 1), n \in S PROVE n + 1 \in S
  <2>1. n + 1 \in 1..Len(s) /\ n \in 0..Len(s) /\ (n + 1) - 1 = n /\ n + 1 \in 0..Len(s) /\ s[n + 1] \in CellSet
    BY <1>0
  <2>2. U(n + 1) = U(n) + s[n + 1].width /\ s[n + 1].width \in Nat
    BY <2>1, UsedUptoIs
  <2>3. U(n) \in Nat /\ U(a) \in Nat /\ U(n + 1) \in Nat /\ U(b) \in Nat
    BY <1>0, <1>1, <2>1
  <2>4. SubSeq(s, 1, n) \in Seq(CellSet) /\ SubSeq(s, 1, n + 1) = Append(SubSeq(s, 1, n), s[n + 1])
    <3>1. n \in Int /\ 1 \in Int /\ 1 <= 1 /\ 1 <= n + 1 /\ n < Len(s)
      BY <1>0
    <3> QED BY <3>1, PieceGrows
  <2>5. T(n) \in Nat
    BY <2>4, TakenIs
  <2>6. T(n + 1) = IF x <= s[n + 1].flat /\ s[n + 1].flat < y THEN T(n) + s[n + 1].width ELSE T(n)
    <3>1. Taken(Append(SubSeq(s, 1, n), s[n + 1]), x, y)
            = IF x <= s[n + 1].flat /\ s[n + 1].flat < y
              THEN Taken(SubSeq(s, 1, n), x, y) + s[n + 1].width ELSE Taken(SubSeq(s, 1, n), x, y)
      BY <2>1, <2>4, TakenIs
    <3> QED BY <2>4, <3>1
  <2>7. T(n) = U(last(n)) - U(a)
    BY <1>3
  <2>8. (x <= s[n + 1].flat /\ s[n + 1].flat < y) <=> n + 1 \in (a + 1)..b
    BY <2>1
  <2>9. T(n + 1) = U(last(n + 1)) - U(a)
    <3> HIDE DEF U, T
    <3>1. CASE n + 1 \in (a + 1)..b
      <4>1. last(n) = n /\ last(n + 1) = n + 1
        BY <1>0, <2>1, <3>1
      <4>2. T(n + 1) = T(n) + s[n + 1].width
        BY <2>6, <2>8, <3>1
      <4> HIDE DEF last
      <4> QED BY <2>2, <2>3, <2>5, <2>7, <4>1, <4>2
    <3>2. CASE n + 1 \notin (a + 1)..b
      <4>1. last(n) = last(n + 1)
        BY <1>0, <2>1, <3>2
      <4>2. T(n + 1) = T(n)
        BY <2>6, <2>8, <3>2
      <4> HIDE DEF last
      <4> QED BY <2>7, <4>1, <4>2
    <3> QED BY <3>1, <3>2
  <2> QED BY <2>1, <2>9
<1>4. Len(s) \in S
  <2> HIDE DEF S
  <2>1. \A k \in 0..Len(s) : k \in S
    BY <1>0, <1>2, <1>3, Induct
  <2> QED BY <1>0, <2>1
<1>5. last(Len(s)) = b
  BY <1>0
<1>6. SubSeq(s, 1, Len(s)) = s
  BY <1>0
<1> HIDE DEF last
<1> QED BY <1>4, <1>5, <1>6

\* The columns that the k-th cell takes, counted from 0, and those of consecutive cells.
ColumnsAt(s, k) == UsedUpto(s, k - 1)..(UsedUpto(s, k - 1) + s[k].width - 1)

LEMMA ColumnsPart ==
  ASSUME NEW s \in Seq(CellSet), NEW a \in 0..Len(s), NEW b \in a..Len(s)
  PROVE  UNION {ColumnsAt(s, k) : k \in (a + 1)..b} = UsedUpto(s, a)..(UsedUpto(s, b) - 1)
<1>0. Len(s) \in Nat /\ a \in Nat /\ b \in Nat /\ b - a \in Nat
  OBVIOUS
<1> DEFINE U(n) == UsedUpto(s, n)
           S == {k \in 0..(b - a) : /\ UNION {ColumnsAt(s, i) : i \in (a + 1)..(a + k)} = U(a)..(U(a + k) - 1)
                                    /\ U(a) <= U(a + k)}
<1>1. \A n \in 0..Len(s) : U(n) \in Nat
  BY UsedUptoIs
<1>2. 0 \in S
  <2>1. a + 0 = a /\ U(a) \in Nat
    BY <1>0, <1>1
  <2>2. (a + 1)..(a + 0) = {}
    BY <1>0
  <2>3. UNION {ColumnsAt(s, i) : i \in (a + 1)..(a + 0)} = {}
    BY <2>2
  <2> HIDE DEF U
  <2>4. U(a)..(U(a + 0) - 1) = {} /\ U(a) <= U(a + 0)
    BY <2>1
  <2> QED BY <1>0, <2>3, <2>4
<1>3. ASSUME NEW k \in 0..(b - a - 1), k \in S PROVE k + 1 \in S
  <2>1. a + k + 1 \in 1..Len(s) /\ k + 1 \in 0..(b - a) /\ a + (k + 1) = a + k + 1 /\ (a + k + 1) - 1 = a + k
        /\ a + k \in 0..Len(s) /\ (a + 1)..(a + (k + 1)) = ((a + 1)..(a + k)) \cup {a + k + 1}
    BY <1>0
  <2>2. U(a + k + 1) = U(a + k) + s[a + k + 1].width /\ s[a + k + 1].width \in Nat
    BY <2>1, UsedUptoIs
  <2>3. U(a + k) \in Nat /\ U(a) \in Nat /\ U(a + k + 1) \in Nat
    BY <1>0, <1>1, <2>1
  <2>4. ColumnsAt(s, a + k + 1) = U(a + k)..(U(a + k + 1) - 1)
    <3>1. ColumnsAt(s, a + k + 1) = U((a + k + 1) - 1)..(U((a + k + 1) - 1) + s[a + k + 1].width - 1)
      BY DEF ColumnsAt
    <3> HIDE DEF U
    <3>2. ColumnsAt(s, a + k + 1) = U(a + k)..(U(a + k) + s[a + k + 1].width - 1)
      BY <2>1, <3>1
    <3>3. U(a + k) + s[a + k + 1].width - 1 = U(a + k + 1) - 1
      BY <2>2, <2>3
    <3> QED BY <3>2, <3>3, Zenon
  <2>5. UNION {ColumnsAt(s, i) : i \in (a + 1)..(a + (k + 1))}
          = (UNION {ColumnsAt(s, i) : i \in (a + 1)..(a + k)}) \cup ColumnsAt(s, a + k + 1)
    BY <2>1, Zenon
  <2>6. UNION {ColumnsAt(s, i) : i \in (a + 1)..(a + k)} = U(a)..(U(a + k) - 1) /\ U(a) <= U(a + k)
    BY <1>3
  <2> HIDE DEF U
  <2>7. (U(a)..(U(a + k) - 1)) \cup (U(a + k)..(U(a + k + 1) - 1)) = U(a)..(U(a + k + 1) - 1)
    BY <2>2, <2>3, <2>6, SMTT(30)
  <2>8. UNION {ColumnsAt(s, i) : i \in (a + 1)..(a + (k + 1))} = U(a)..(U(a + (k + 1)) - 1)
    BY <2>1, <2>4, <2>5, <2>6, <2>7, Zenon
  <2>9. U(a) <= U(a + (k + 1))
    BY <2>1, <2>2, <2>3, <2>6
  <2> QED BY <2>1, <2>8, <2>9
<1>4. b - a \in S
  <2> HIDE DEF S
  <2>1. \A k \in 0..(b - a) : k \in S
    BY <1>0, <1>2, <1>3, Induct
  <2> QED BY <1>0, <2>1
<1>5. a + (b - a) = b
  BY <1>0
<1>6. UNION {ColumnsAt(s, i) : i \in (a + 1)..(a + (b - a))} = U(a)..(U(a + (b - a)) - 1)
  BY <1>4
<1> QED BY <1>5, <1>6

\* A row before wrapping: its cells are one or two columns wide, blanks one, they come one
\* after the other, and those of the indentation are narrow.
IsRow(row, h) ==
    /\ row \in Seq(CellSet) /\ h \in 0..Len(row)
    /\ \A k \in 1..Len(row) : /\ row[k].width \in 1..2 /\ (row[k].char = " " => row[k].width = 1)
                              /\ row[k].flat = UsedUpto(row, k - 1)
    /\ \A k \in 1..h : row[k].width = 1

\* The columns to the left of the part of the row that is on line r.
Left(r, h) == IF r = 1 THEN 0 ELSE h

\* Line r when it has the part from a to b.
Line(row, h, r, a, b) == (IF r = 1 THEN <<>> ELSE Indentation(h)) \o SubSeq(row, a, b)

LineLaws(row, h, r, a, b) ==
    /\ Line(row, h, r, a, b) \in Seq(CellSet)
    /\ Len(Line(row, h, r, a, b)) = Left(r, h) + b - a + 1
    /\ \A i \in 1..Left(r, h) :
          Line(row, h, r, a, b)[i] = [char |-> " ", width |-> 1, link |-> 0, flat |-> -1]
    /\ \A i \in (Left(r, h) + 1)..(Left(r, h) + b - a + 1) :
          Line(row, h, r, a, b)[i] = row[a + i - Left(r, h) - 1]
    /\ Used(Line(row, h, r, a, b)) = Left(r, h) + UsedUpto(row, b) - UsedUpto(row, a - 1)

LEMMA LineIs ==
  ASSUME NEW row \in Seq(CellSet), NEW h \in Nat, NEW r \in Nat, NEW a \in Nat, NEW b \in Nat,
         1 <= a, a <= b + 1, b <= Len(row)
  PROVE  LineLaws(row, h, r, a, b)
<1> DEFINE left == IF r = 1 THEN <<>> ELSE Indentation(h)
           part == SubSeq(row, a, b)
           l == Left(r, h)
           blank == [char |-> " ", width |-> 1, link |-> 0, flat |-> -1]
<1>1. left \in Seq(CellSet) /\ Len(left) = l /\ (\A k \in 1..l : left[k] = blank) /\ Used(left) = l /\ l \in Nat
  <2>1. CASE r = 1
    <3>1. left = <<>> /\ l = 0
      BY <2>1 DEF Left
    <3> HIDE DEF left, l
    <3> QED BY <3>1, UsedIs
  <2>2. CASE r # 1
    <3>1. left = Indentation(h) /\ l = h
      BY <2>2 DEF Left
    <3> HIDE DEF left, l, blank
    <3>2. /\ Indentation(h) \in Seq(CellSet) /\ Len(Indentation(h)) = h
          /\ \A k \in 1..h : Indentation(h)[k] = blank
          /\ Used(Indentation(h)) = h
      BY IndentationIs DEF blank
    <3> QED BY <3>1, <3>2
  <2> QED BY <2>1, <2>2
<1>2. part \in Seq(CellSet) /\ Len(part) = b - a + 1 /\ \A k \in 1..(b - a + 1) : part[k] = row[a + k - 1]
  <2>1. \A k \in 1..(b - a + 1) : part[k] = row[k + a - 1] /\ k + a - 1 = a + k - 1
    BY PieceIs
  <2> QED BY <2>1, PieceIs
<1>3. Used(part) = UsedUpto(row, b) - UsedUpto(row, a - 1) /\ UsedUpto(row, b) \in Nat /\ UsedUpto(row, a - 1) \in Nat
  <2>1. a - 1 \in 0..Len(row) /\ b \in (a - 1)..Len(row) /\ (a - 1) + 1 = a /\ b \in 0..Len(row)
    OBVIOUS
  <2>2. Used(SubSeq(row, (a - 1) + 1, b)) = UsedUpto(row, b) - UsedUpto(row, a - 1)
    BY <2>1, UsedBetween
  <2> QED BY <2>1, <2>2, UsedUptoIs
<1> HIDE DEF left, part, l, blank
<1>4. left \o part \in Seq(CellSet) /\ Used(left \o part) = l + UsedUpto(row, b) - UsedUpto(row, a - 1)
  <2>1. left \o part \in Seq(CellSet) /\ Used(left \o part) = Used(left) + Used(part)
    BY <1>1, <1>2, UsedJoin
  <2> QED BY <1>1, <1>3, <2>1
<1>5. Len(left \o part) = l + b - a + 1
  <2>1. Len(left \o part) = Len(left) + Len(part)
    BY <1>1, <1>2, JoinIs, Zenon
  <2>2. l + (b - a + 1) = l + b - a + 1
    BY <1>1
  <2> QED BY <1>1, <1>2, <2>1, <2>2
<1>6. \A i \in 1..l : (left \o part)[i] = blank
  <2>1. \A i \in 1..Len(left) : (left \o part)[i] = left[i]
    BY <1>1, <1>2, JoinIs, ZenonT(30)
  <2> QED BY <1>1, <2>1
<1>7. ASSUME NEW i \in (l + 1)..(l + b - a + 1) PROVE (left \o part)[i] = row[a + i - l - 1]
  <2>1. i - l \in 1..(b - a + 1) /\ a + (i - l) - 1 = a + i - l - 1 /\ l + (i - l) = i
    BY <1>1
  <2>2. \A k \in 1..Len(part) : (left \o part)[Len(left) + k] = part[k]
    <3>1. left \in Seq(CellSet) /\ part \in Seq(CellSet)
      BY <1>1, <1>2
    <3> QED BY <3>1, JoinIs
  <2> QED BY <1>1, <1>2, <2>1, <2>2
<1>8. Line(row, h, r, a, b) = left \o part
  BY DEF Line, left, part
<1> QED BY <1>4, <1>5, <1>6, <1>7, <1>8 DEF l, blank, LineLaws

\* How a line of a wrapped row may end, after place e, when the next begins with place a: in
\* a word that no line can hold, between two words, or with a blank that is on neither.
Turns(row, w, h, e, a) ==
    \/ a = e + 1 /\ (InWord(row, e) /\ InWord(row, e + 1) => 1 + WordWidth(row, e) > w - h)
    \/ a = e + 2 /\ row[e + 1].char = " "

\* The first n cells of the row on lines, line r with those from place from[r] to to[r].
Laid(row, w, h, lines, n, from, to) ==
    /\ lines \in Seq(Seq(CellSet)) /\ Len(lines) >= 1
    /\ from \in [1..Len(lines) -> Nat] /\ to \in [1..Len(lines) -> Nat]
    /\ \A r \in 1..Len(lines) :
          /\ 1 <= from[r] /\ from[r] <= to[r] + 1 /\ to[r] <= Len(row)
          /\ lines[r] = Line(row, h, r, from[r], to[r]) /\ Used(lines[r]) <= w
    /\ from[1] = 1 /\ to[Len(lines)] = n
    /\ \A r \in 1..(Len(lines) - 1) : from[r] <= to[r] /\ Turns(row, w, h, to[r], from[r + 1])

HasLayout(row, w, h, lines, n) == \E from, to : Laid(row, w, h, lines, n, from, to)

\* The last line ends elsewhere.
LEMMA LaidReplace ==
  ASSUME NEW row \in Seq(CellSet), NEW w, NEW h \in Nat, NEW lines, NEW n, NEW from, NEW to,
         Laid(row, w, h, lines, n, from, to),
         NEW m \in Nat, from[Len(lines)] <= m + 1, m <= Len(row),
         NEW x, x = Line(row, h, Len(lines), from[Len(lines)], m), Used(x) <= w
  PROVE  Laid(row, w, h, Front(lines) \o <<x>>, m, from, [to EXCEPT ![Len(lines)] = m])
<1> DEFINE last == Len(lines)
           new == Front(lines) \o <<x>>
           end == [to EXCEPT ![last] = m]
<1>1. lines \in Seq(Seq(CellSet)) /\ last \in Nat /\ last >= 1
      /\ from \in [1..last -> Nat] /\ to \in [1..last -> Nat] /\ from[1] = 1
  BY DEF Laid
<1>2. /\ \A r \in 1..last : /\ 1 <= from[r] /\ from[r] <= to[r] + 1 /\ to[r] <= Len(row)
                            /\ lines[r] = Line(row, h, r, from[r], to[r]) /\ Used(lines[r]) <= w
      /\ \A r \in 1..(last - 1) : from[r] <= to[r] /\ Turns(row, w, h, to[r], from[r + 1])
  BY DEF Laid
<1>3. x \in Seq(CellSet)
  <2>1. last \in 1..last /\ from[last] \in Nat
    BY <1>1
  <2> QED BY <1>1, <1>2, <2>1, LineIs DEF LineLaws
<1>4. new \in Seq(Seq(CellSet)) /\ Len(new) = last /\ \A i \in 1..last : new[i] = IF i = last THEN x ELSE lines[i]
  <2> DEFINE A == Seq(CellSet)
  <2>1. lines \in Seq(A) /\ x \in A /\ Len(lines) >= 1
    BY <1>1, <1>3
  <2> HIDE DEF A
  <2>2. /\ Front(lines) \o <<x>> \in Seq(A) /\ Len(Front(lines) \o <<x>>) = Len(lines)
        /\ \A i \in 1..Len(lines) : (Front(lines) \o <<x>>)[i] = IF i = Len(lines) THEN x ELSE lines[i]
    BY <2>1, FrontIs
  <2> QED BY <2>2 DEF A
<1>5. end \in [1..last -> Nat] /\ end[last] = m /\ \A r \in 1..last : r # last => end[r] = to[r]
  BY <1>1
<1> HIDE DEF last, new, end
<1>6. ASSUME NEW r \in 1..last
      PROVE  /\ 1 <= from[r] /\ from[r] <= end[r] + 1 /\ end[r] <= Len(row)
             /\ new[r] = Line(row, h, r, from[r], end[r]) /\ Used(new[r]) <= w
  <2>1. CASE r = last
    <3>1. end[r] = m /\ new[r] = x /\ 1 <= from[r]
      BY <1>2, <1>4, <1>5, <2>1
    <3>2. from[r] <= m + 1 /\ x = Line(row, h, r, from[r], m)
      BY <2>1 DEF last
    <3> QED BY <3>1, <3>2
  <2>2. CASE r # last
    BY <1>2, <1>4, <1>5, <2>2
  <2> QED BY <2>1, <2>2
<1>7. ASSUME NEW r \in 1..(last - 1)
      PROVE  from[r] <= end[r] /\ Turns(row, w, h, end[r], from[r + 1])
  <2>1. r \in 1..last /\ r # last
    BY <1>1
  <2> QED BY <1>2, <1>5, <2>1
<1>8. Laid(row, w, h, new, m, from, end)
  BY <1>1, <1>4, <1>5, <1>6, <1>7 DEF Laid
<1> QED BY <1>8 DEF new, end, last

\* Another line.
LEMMA LaidAppend ==
  ASSUME NEW row \in Seq(CellSet), NEW w, NEW h \in Nat, NEW lines, NEW n, NEW from, NEW to,
         Laid(row, w, h, lines, n, from, to), from[Len(lines)] <= n,
         NEW a \in Nat, NEW b \in Nat, 1 <= a, a <= b + 1, b <= Len(row), Turns(row, w, h, n, a),
         NEW y, y = Line(row, h, Len(lines) + 1, a, b), Used(y) <= w
  PROVE  HasLayout(row, w, h, Append(lines, y), b)
<1> DEFINE last == Len(lines)
           new == Append(lines, y)
           start == [r \in 1..(last + 1) |-> IF r = last + 1 THEN a ELSE from[r]]
           end == [r \in 1..(last + 1) |-> IF r = last + 1 THEN b ELSE to[r]]
<1>1. lines \in Seq(Seq(CellSet)) /\ last \in Nat /\ last >= 1
      /\ from \in [1..last -> Nat] /\ to \in [1..last -> Nat] /\ from[1] = 1 /\ to[last] = n
  BY DEF Laid
<1>2. /\ \A r \in 1..last : /\ 1 <= from[r] /\ from[r] <= to[r] + 1 /\ to[r] <= Len(row)
                            /\ lines[r] = Line(row, h, r, from[r], to[r]) /\ Used(lines[r]) <= w
      /\ \A r \in 1..(last - 1) : from[r] <= to[r] /\ Turns(row, w, h, to[r], from[r + 1])
  BY DEF Laid
<1>3. y \in Seq(CellSet)
  <2>1. last + 1 \in Nat
    BY <1>1
  <2>2. Line(row, h, last + 1, a, b) \in Seq(CellSet)
    BY <2>1, LineIs DEF LineLaws
  <2> QED BY <2>2
<1>4. new \in Seq(Seq(CellSet)) /\ Len(new) = last + 1
      /\ \A i \in 1..(last + 1) : new[i] = IF i = last + 1 THEN y ELSE lines[i]
  BY <1>1, <1>3
<1>5. /\ start \in [1..(last + 1) -> Nat] /\ start[last + 1] = a
      /\ end \in [1..(last + 1) -> Nat] /\ end[last + 1] = b
      /\ \A r \in 1..last : start[r] = from[r] /\ end[r] = to[r]
  BY <1>1
<1>9. from[last] <= n /\ y = Line(row, h, last + 1, a, b)
  OBVIOUS
<1> HIDE DEF last, new, start, end
<1>6. ASSUME NEW r \in 1..(last + 1)
      PROVE  /\ 1 <= start[r] /\ start[r] <= end[r] + 1 /\ end[r] <= Len(row)
             /\ new[r] = Line(row, h, r, start[r], end[r]) /\ Used(new[r]) <= w
  <2>1. CASE r = last + 1
    BY <1>1, <1>4, <1>5, <1>9, <2>1
  <2>2. CASE r # last + 1
    <3>1. r \in 1..last
      BY <1>1, <2>2
    <3> QED BY <1>2, <1>4, <1>5, <2>2, <3>1
  <2> QED BY <2>1, <2>2
<1>7. ASSUME NEW r \in 1..last
      PROVE  start[r] <= end[r] /\ Turns(row, w, h, end[r], start[r + 1])
  <2>1. CASE r = last
    <3>1. start[r + 1] = a /\ start[r] = from[last] /\ end[r] = n
      BY <1>1, <1>5, <2>1
    <3> QED BY <1>9, <3>1
  <2>2. CASE r # last
    <3>1. r \in 1..(last - 1) /\ r + 1 \in 1..last
      BY <1>1, <2>2
    <3> QED BY <1>2, <1>5, <3>1
  <2> QED BY <2>1, <2>2
<1>8. Laid(row, w, h, new, b, start, end)
  <2>1. start[1] = 1 /\ Len(new) >= 1 /\ 1..(Len(new) - 1) = 1..last
    BY <1>1, <1>4, <1>5
  <2> QED BY <1>4, <1>5, <1>6, <1>7, <2>1 DEF Laid
<1> QED BY <1>8 DEF new, HasLayout

\* A word that goes on from place p to place e has as many columns as these at least.
LEMMA WordIsLong ==
  ASSUME NEW row \in Seq(CellSet), NEW p \in 1..Len(row), NEW e \in p..Len(row), NEW k \in p..e,
         \A i \in p..e : InWord(row, i)
  PROVE  WordWidth(row, k) \in Nat /\ UsedUpto(row, e) - UsedUpto(row, p - 1) <= WordWidth(row, k)
<1> DEFINE word == {i \in DOMAIN row :
                      \A j \in DOMAIN row : (i <= j /\ j <= k) \/ (k <= j /\ j <= i) => InWord(row, j)}
           lo == Min(word)
           hi == Max(word)
<1>0. Len(row) \in Nat /\ DOMAIN row = 1..Len(row) /\ p \in Nat /\ e \in Nat /\ k \in Nat
  OBVIOUS
<1>1. p \in word /\ e \in word
  BY <1>0
<1>2. word \in SUBSET Int /\ (\A x \in word : x <= Len(row)) /\ (\A x \in word : 1 <= x) /\ word # {}
  BY <1>0, <1>1
<1>3. WordWidth(row, k) = Used(SubSeq(row, lo, hi))
  BY DEF WordWidth
<1> HIDE DEF word
<1>4. lo \in word /\ lo <= p /\ hi \in word /\ e <= hi
  <2>1. lo \in word /\ \A x \in word : lo <= x
    BY <1>2, MinOf, 1 \in Int
  <2>2. hi \in word /\ \A x \in word : x <= hi
    BY <1>0, <1>2, MaxOf, Len(row) \in Int
  <2> QED BY <1>1, <2>1, <2>2
<1> HIDE DEF lo, hi
<1>5. lo \in Nat /\ hi \in Nat /\ 1 <= lo /\ hi <= Len(row)
  BY <1>0, <1>2, <1>4
<1>6. lo - 1 \in 0..Len(row) /\ hi \in (lo - 1)..Len(row) /\ p - 1 \in (lo - 1)..Len(row)
      /\ e \in 0..Len(row) /\ hi \in e..Len(row) /\ (lo - 1) + 1 = lo /\ hi \in 0..Len(row)
      /\ p - 1 \in 0..Len(row)
  BY <1>0, <1>4, <1>5
<1>7. Used(SubSeq(row, lo, hi)) = UsedUpto(row, hi) - UsedUpto(row, lo - 1)
  <2>1. Used(SubSeq(row, (lo - 1) + 1, hi)) = UsedUpto(row, hi) - UsedUpto(row, lo - 1)
    BY <1>6, UsedBetween
  <2> QED BY <1>6, <2>1
<1>8. UsedUpto(row, lo - 1) <= UsedUpto(row, p - 1) /\ UsedUpto(row, e) <= UsedUpto(row, hi)
      /\ UsedUpto(row, lo - 1) <= UsedUpto(row, hi)
  BY <1>6, UsedGrows
<1>9. UsedUpto(row, lo - 1) \in Nat /\ UsedUpto(row, p - 1) \in Nat /\ UsedUpto(row, e) \in Nat
      /\ UsedUpto(row, hi) \in Nat
  BY <1>6, UsedUptoIs
<1> QED BY <1>3, <1>7, <1>8, <1>9

\* Where a line with the part of the row from a to n has its first cell after the columns of
\* the indentation: place First(r, h, a).
First(r, h, a) == IF r = 1 THEN h + 1 ELSE a

\* The facts on the last line that a step of wrap_spans looks at: cell k of it is the one at
\* place first + k - h - 1 of the row.
LEMMA LastLine ==
  ASSUME NEW row, NEW h \in Nat, IsRow(row, h), NEW w \in Nat, NEW lines, NEW n \in 0..Len(row),
         NEW from, NEW to, Laid(row, w, h, lines, n, from, to)
  PROVE  LET last  == Len(lines)
             cur   == lines[last]
             a     == from[last]
             first == First(last, h, a)
         IN  /\ last \in Nat /\ 1 <= last /\ a \in Nat /\ 1 <= a /\ a <= n + 1
             /\ cur = Line(row, h, last, a, n) /\ cur \in Seq(CellSet)
             /\ Used(cur) = Left(last, h) + UsedUpto(row, n) - UsedUpto(row, a - 1) /\ Used(cur) <= w
             /\ Used(cur) > h =>
                  /\ a <= first /\ first <= n
                  /\ Used(cur) = h + UsedUpto(row, n) - UsedUpto(row, first - 1)
                  /\ Len(cur) = h + n - first + 1
                  /\ \A i \in (h + 1)..Len(cur) : cur[i] = row[first + i - h - 1]
<1> DEFINE last == Len(lines)
           cur == lines[last]
           a == from[last]
           first == First(last, h, a)
<1>0. /\ last \in Nat /\ 1 <= last /\ last \in 1..last /\ from \in [1..last -> Nat] /\ to[last] = n /\ from[1] = 1
  BY DEF Laid
<1>1. a \in Nat /\ 1 <= a /\ a <= n + 1 /\ cur = Line(row, h, last, a, n) /\ Used(cur) <= w
  BY <1>0 DEF Laid
<1>2. row \in Seq(CellSet) /\ h \in 0..Len(row) /\ Len(row) \in Nat /\ n \in Nat /\ n <= Len(row)
  <2>1. row \in Seq(CellSet) /\ h \in 0..Len(row)
    BY DEF IsRow
  <2>2. Len(row) \in Nat
    BY <2>1
  <2> QED BY <2>1, <2>2
<1>3. last = 1 => a = 1
  BY <1>0
<1> HIDE DEF last, cur, a, first
<1>4. /\ Line(row, h, last, a, n) \in Seq(CellSet)
      /\ Len(Line(row, h, last, a, n)) = Left(last, h) + n - a + 1
      /\ \A i \in (Left(last, h) + 1)..(Left(last, h) + n - a + 1) :
            Line(row, h, last, a, n)[i] = row[a + i - Left(last, h) - 1]
      /\ Used(Line(row, h, last, a, n)) = Left(last, h) + UsedUpto(row, n) - UsedUpto(row, a - 1)
  <2>1. /\ row \in Seq(CellSet) /\ last \in Nat /\ a \in Nat /\ n \in Nat
        /\ 1 <= a /\ a <= n + 1 /\ n <= Len(row)
    BY <1>0, <1>1, <1>2
  <2>2. LineLaws(row, h, last, a, n)
    BY <2>1, LineIs
  <2> QED BY <2>2 DEF LineLaws
<1>5. a - 1 \in 0..Len(row) /\ n \in 0..Len(row) /\ UsedUpto(row, n) \in Nat /\ UsedUpto(row, a - 1) \in Nat
      /\ UsedUpto(row, h) \in Nat
  <2>1. a - 1 \in 0..Len(row) /\ n \in 0..Len(row)
    BY <1>1, <1>2
  <2> QED BY <1>2, <2>1, UsedUptoIs
<1>6. UsedUpto(row, h) = h
  <2> DEFINE S == {k \in 0..h : UsedUpto(row, k) = k}
  <2>1. 0 \in S
    BY <1>2, UsedUptoIs
  <2>2. ASSUME NEW k \in 0..(h - 1), k \in S PROVE k + 1 \in S
    <3>1. k + 1 \in 1..Len(row) /\ (k + 1) - 1 = k /\ k + 1 \in 1..h /\ k + 1 \in 0..h
      BY <1>2
    <3>2. row[k + 1].width = 1
      BY <3>1 DEF IsRow
    <3>3. UsedUpto(row, k + 1) = UsedUpto(row, (k + 1) - 1) + row[k + 1].width
      BY <1>2, <3>1, UsedUptoIs
    <3> QED BY <2>2, <3>1, <3>2, <3>3
  <2>3. \A k \in 0..h : k \in S
    <3> HIDE DEF S
    <3> QED BY <2>1, <2>2, Induct
  <2>4. h \in S
    BY <2>3
  <2> QED BY <2>4
<1>7. ASSUME Used(cur) > h
      PROVE  /\ a <= first /\ first <= n
             /\ Used(cur) = h + UsedUpto(row, n) - UsedUpto(row, first - 1)
             /\ Len(cur) = h + n - first + 1
             /\ \A i \in (h + 1)..Len(cur) : cur[i] = row[first + i - h - 1]
  <2>1. CASE last = 1
    <3>1. first = h + 1 /\ a = 1 /\ Left(last, h) = 0 /\ first - 1 = h /\ a - 1 = 0
      BY <1>3, <2>1 DEF First, first, Left
    <3>2. UsedUpto(row, 0) = 0 /\ Used(cur) = UsedUpto(row, n)
      <4>1. UsedUpto(row, 0) = 0
        BY <1>2, UsedUptoIs
      <4> QED BY <1>1, <1>4, <1>5, <3>1, <4>1
    <3>3. h < n
      <4>1. CASE n <= h
        <5>1. UsedUpto(row, n) <= UsedUpto(row, h)
          BY <1>2, <4>1, UsedGrows
        <5> QED BY <1>5, <1>6, <1>7, <3>2, <5>1
      <4> QED BY <1>2, <4>1
    <3>4. Len(cur) = n /\ \A i \in 1..n : cur[i] = row[i]
      <4>1. Left(last, h) + n - a + 1 = n /\ \A i \in 1..n : a + i - Left(last, h) - 1 = i
        BY <1>2, <3>1
      <4>2. (Left(last, h) + 1)..(Left(last, h) + n - a + 1) = 1..n
        BY <1>2, <3>1
      <4> QED BY <1>1, <1>4, <4>1, <4>2
    <3>5. h + n - first + 1 = n /\ \A i \in (h + 1)..n : first + i - h - 1 = i /\ i \in 1..n
      BY <1>2, <3>1
    <3>6. h + UsedUpto(row, n) - UsedUpto(row, first - 1) = UsedUpto(row, n)
      BY <1>5, <1>6, <3>1
    <3> QED BY <1>2, <3>1, <3>2, <3>3, <3>4, <3>5, <3>6
  <2>2. CASE last # 1
    <3>1. first = a /\ Left(last, h) = h
      BY <2>2 DEF First, first, Left
    <3>2. a <= n
      <4>1. CASE a = n + 1
        <5>1. a - 1 = n
          BY <1>2, <4>1
        <5>2. Used(cur) = h
          BY <1>1, <1>4, <1>5, <3>1, <5>1
        <5> QED BY <1>7, <5>2
      <4> QED BY <1>1, <1>2, <4>1
    <3> QED BY <1>1, <1>4, <3>1, <3>2
  <2> QED BY <2>1, <2>2
<1> QED BY <1>0, <1>1, <1>4, <1>7 DEF last, cur, a, first

\* A line with one cell more.
LEMMA LineGrows ==
  ASSUME NEW row \in Seq(CellSet), NEW h \in Nat, NEW r \in Nat, NEW a \in Nat, NEW n \in Nat,
         1 <= a, a <= n + 1, n < Len(row)
  PROVE  Append(Line(row, h, r, a, n), row[n + 1]) = Line(row, h, r, a, n + 1)
<1> DEFINE left == IF r = 1 THEN <<>> ELSE Indentation(h)
           part == SubSeq(row, a, n)
           c == row[n + 1]
<1>1. left \in Seq(CellSet)
  <2>1. CASE r = 1
    <3>1. left = <<>>
      BY <2>1
    <3> HIDE DEF left
    <3> QED BY <3>1
  <2>2. CASE r # 1
    <3>1. left = Indentation(h)
      BY <2>2
    <3> QED BY <3>1, IndentationIs
  <2> QED BY <2>1, <2>2
<1>2. part \in Seq(CellSet) /\ c \in CellSet /\ SubSeq(row, a, n + 1) = Append(part, c)
  <2>1. a \in Int /\ n \in Int
    OBVIOUS
  <2> QED BY <2>1, PieceGrows
<1>3. Line(row, h, r, a, n) = left \o part /\ Line(row, h, r, a, n + 1) = left \o SubSeq(row, a, n + 1)
  BY DEF Line
<1> HIDE DEF left, part, c
<1>4. Append(left \o part, c) = left \o Append(part, c)
  <2> DEFINE u == Append(left \o part, c)
             v == left \o Append(part, c)
             j == left \o part
             p == Append(part, c)
  <2>1. /\ j \in Seq(CellSet) /\ Len(j) = Len(left) + Len(part)
        /\ (\A i \in 1..Len(left) : j[i] = left[i]) /\ \A i \in 1..Len(part) : j[Len(left) + i] = part[i]
    BY <1>1, <1>2, JoinIs
  <2>2. /\ p \in Seq(CellSet) /\ Len(p) = Len(part) + 1
        /\ (\A i \in 1..Len(part) : p[i] = part[i]) /\ p[Len(part) + 1] = c
    BY <1>2, AppendIs
  <2>3. /\ u \in Seq(CellSet) /\ Len(u) = Len(j) + 1
        /\ (\A i \in 1..Len(j) : u[i] = j[i]) /\ u[Len(j) + 1] = c
    <3> HIDE DEF j
    <3>1. Append(j, c) \in Seq(CellSet) /\ Len(Append(j, c)) = Len(j) + 1
          /\ (\A i \in 1..Len(j) : Append(j, c)[i] = j[i]) /\ Append(j, c)[Len(j) + 1] = c
      <4>1. j \in Seq(CellSet) /\ c \in CellSet
        BY <1>2, <2>1
      <4> QED BY <4>1, AppendIs
    <3> QED BY <3>1 DEF j
  <2>4. /\ v \in Seq(CellSet) /\ Len(v) = Len(left) + Len(p)
        /\ (\A i \in 1..Len(left) : v[i] = left[i]) /\ \A i \in 1..Len(p) : v[Len(left) + i] = p[i]
    <3> HIDE DEF p
    <3>1. /\ left \o p \in Seq(CellSet) /\ Len(left \o p) = Len(left) + Len(p)
          /\ (\A i \in 1..Len(left) : (left \o p)[i] = left[i])
          /\ \A i \in 1..Len(p) : (left \o p)[Len(left) + i] = p[i]
      <4>1. left \in Seq(CellSet) /\ p \in Seq(CellSet)
        BY <1>1, <2>2
      <4> QED BY <4>1, JoinIs
    <3> QED BY <3>1 DEF p
  <2>5. Len(left) \in Nat /\ Len(part) \in Nat
    BY <1>1, <1>2
  <2> HIDE DEF u, v, j, p
  <2>6. Len(u) = Len(v)
    BY <2>1, <2>2, <2>3, <2>4, <2>5
  <2>7. ASSUME NEW i \in 1..Len(u) PROVE u[i] = v[i]
    <3>1. CASE i <= Len(left)
      <4>1. i \in 1..Len(left) /\ i \in 1..Len(j)
        BY <2>1, <2>5, <3>1
      <4> QED BY <2>1, <2>3, <2>4, <4>1
    <3>2. CASE i > Len(left) /\ i <= Len(left) + Len(part)
      <4>1. i - Len(left) \in 1..Len(part) /\ i \in 1..Len(j) /\ Len(left) + (i - Len(left)) = i
            /\ i - Len(left) \in 1..Len(p)
        BY <2>1, <2>2, <2>5, <3>2
      <4>2. u[i] = j[Len(left) + (i - Len(left))] /\ v[i] = p[i - Len(left)]
        BY <2>3, <2>4, <4>1
      <4>3. j[Len(left) + (i - Len(left))] = part[i - Len(left)] /\ p[i - Len(left)] = part[i - Len(left)]
        BY <2>1, <2>2, <4>1
      <4> QED BY <4>2, <4>3
    <3>3. CASE i > Len(left) + Len(part)
      <4>1. i = Len(j) + 1 /\ i = Len(left) + (Len(part) + 1) /\ Len(part) + 1 \in 1..Len(p)
        BY <2>1, <2>2, <2>3, <2>5, <3>3, SMTT(30)
      <4> QED BY <2>2, <2>3, <2>4, <4>1
    <3> QED BY <2>5, <3>1, <3>2, <3>3
  <2>8. u = v
    BY <2>3, <2>4, <2>6, <2>7, SameSeq
  <2> QED BY <2>8 DEF u, v, j, p
<1> QED BY <1>2, <1>3, <1>4 DEF c

\* A line cut at its cell m, which is the one at place k of the row.
CutLaws(row, h, r, a, b, k, m, line) ==
    /\ SubSeq(line, 1, m - 1) = Line(row, h, r, a, k - 1)
    /\ SubSeq(line, m + 1, Len(line)) = SubSeq(row, k + 1, b)

LEMMA LineCut ==
  ASSUME NEW row \in Seq(CellSet), NEW h \in Nat, NEW r \in Nat, NEW a \in Nat, NEW b \in Nat,
         1 <= a, a <= b + 1, b <= Len(row),
         NEW k \in Nat, a <= k, k <= b, NEW m \in Nat, m = Left(r, h) + k - a + 1,
         NEW line, line = Line(row, h, r, a, b)
  PROVE  CutLaws(row, h, r, a, b, k, m, line)
<1> DEFINE l == Left(r, h)
           blank == [char |-> " ", width |-> 1, link |-> 0, flat |-> -1]
           kept == Line(row, h, r, a, k - 1)
           u == SubSeq(line, 1, m - 1)
           v == SubSeq(line, m + 1, Len(line))
           rest == SubSeq(row, k + 1, b)
<1>0. l \in Nat /\ Len(row) \in Nat /\ m = l + k - a + 1
  <2>1. l \in Nat
    BY DEF Left
  <2> QED BY <2>1
<1>1. /\ line \in Seq(CellSet) /\ Len(line) = l + b - a + 1
      /\ (\A i \in 1..l : line[i] = blank)
      /\ \A i \in (l + 1)..(l + b - a + 1) : line[i] = row[a + i - l - 1]
  <2>1. LineLaws(row, h, r, a, b)
    BY LineIs
  <2> QED BY <2>1 DEF LineLaws
<1>2. /\ kept \in Seq(CellSet) /\ Len(kept) = l + (k - 1) - a + 1
      /\ (\A i \in 1..l : kept[i] = blank)
      /\ \A i \in (l + 1)..(l + (k - 1) - a + 1) : kept[i] = row[a + i - l - 1]
  <2>1. k - 1 \in Nat /\ a <= (k - 1) + 1 /\ k - 1 <= Len(row)
    BY <1>0
  <2>2. LineLaws(row, h, r, a, k - 1)
    BY <2>1, LineIs
  <2> QED BY <2>2 DEF LineLaws
<1> HIDE DEF l, blank, kept
<1>3. u \in Seq(CellSet) /\ Len(u) = m - 1 /\ \A i \in 1..(m - 1) : u[i] = line[i]
  <2> DEFINE n == m - 1
  <2>1. n \in Int /\ 1 <= n + 1 /\ n <= Len(line) /\ n - 1 + 1 = n /\ \A i \in 1..n : i + 1 - 1 = i
    BY <1>0, <1>1
  <2> HIDE DEF n
  <2>2. /\ SubSeq(line, 1, n) \in Seq(CellSet) /\ Len(SubSeq(line, 1, n)) = n - 1 + 1
        /\ \A i \in 1..(n - 1 + 1) : SubSeq(line, 1, n)[i] = line[i + 1 - 1]
    BY <1>1, <2>1, PieceIs
  <2> QED BY <2>1, <2>2 DEF n
<1>4. v \in Seq(CellSet) /\ Len(v) = Len(line) - m /\ \A i \in 1..(Len(line) - m) : v[i] = line[m + i]
  <2> DEFINE n == Len(line)
  <2>1. n \in Int /\ m <= n
    BY <1>0, <1>1
  <2>2. line \in Seq(CellSet) /\ n <= Len(line)
    BY <1>1
  <2> HIDE DEF n
  <2>3. /\ SubSeq(line, m + 1, n) \in Seq(CellSet) /\ Len(SubSeq(line, m + 1, n)) = n - m
        /\ \A i \in 1..(n - m) : SubSeq(line, m + 1, n)[i] = line[m + i]
    BY <2>1, <2>2, PieceAfter, SMTT(30)
  <2> QED BY <2>3 DEF n
<1>5. rest \in Seq(CellSet) /\ Len(rest) = b - k /\ \A i \in 1..(b - k) : rest[i] = row[k + i]
  <2>1. k \in Nat /\ b \in Int
    OBVIOUS
  <2> QED BY <2>1, PieceAfter
<1> HIDE DEF u, v, rest
<1>6. u = kept
  <2>1. Len(u) = Len(kept) /\ Len(u) \in Nat
    BY <1>0, <1>2, <1>3
  <2>2. ASSUME NEW i \in 1..Len(u) PROVE u[i] = kept[i]
    <3>0. i \in 1..(m - 1) /\ u[i] = line[i]
      BY <1>3, <2>2
    <3>1. CASE i <= l
      <4>1. i \in 1..l
        BY <1>0, <3>0, <3>1
      <4> QED BY <1>1, <1>2, <3>0, <4>1
    <3>2. CASE i > l
      <4>1. i \in (l + 1)..(l + b - a + 1) /\ i \in (l + 1)..(l + (k - 1) - a + 1)
        <5>1. i \in Int /\ i <= m - 1 /\ l \in Int /\ m = l + k - a + 1
          BY <1>0, <3>0
        <5>2. l + 1 <= i /\ i <= l + (k - 1) - a + 1 /\ i <= l + b - a + 1
          BY <3>2, <5>1
        <5> QED BY <5>1, <5>2
      <4> QED BY <1>1, <1>2, <3>0, <4>1
    <3> QED BY <1>0, <3>0, <3>1, <3>2
  <2> QED BY <1>2, <1>3, <2>1, <2>2, SameSeq
<1>7. v = rest
  <2>0. Len(line) - m = b - k
    <3>1. Len(line) = l + b - a + 1 /\ m = l + k - a + 1 /\ l \in Nat
      BY <1>0, <1>1
    <3> QED BY <3>1
  <2>1. Len(v) = Len(rest) /\ Len(v) = b - k /\ Len(line) - m = b - k
    BY <1>4, <1>5, <2>0
  <2>2. ASSUME NEW i \in 1..Len(v) PROVE v[i] = rest[i]
    <3>1. i \in 1..(b - k) /\ i \in 1..(Len(line) - m)
      BY <2>1, <2>2
    <3>2. m + i \in (l + 1)..(l + b - a + 1) /\ a + (m + i) - l - 1 = k + i
      <4>1. i \in Int /\ 1 <= i /\ i <= b - k /\ l \in Int /\ m = l + k - a + 1
        BY <1>0, <3>1, SMTT(30)
      <4>2. l + 1 <= m + i /\ m + i <= l + b - a + 1
        BY <4>1
      <4>3. a + (m + i) - l - 1 = k + i
        <5>1. (m + i) - l - 1 = k + i - a
          BY <4>1, SMTT(30)
        <5> QED BY <4>1, <5>1
      <4> QED BY <4>1, <4>2, <4>3
    <3>3. line[m + i] = row[a + (m + i) - l - 1]
      BY <1>1, <3>2
    <3> QED BY <1>4, <1>5, <3>1, <3>2, <3>3
  <2> QED BY <1>4, <1>5, <2>1, <2>2, SameSeq
<1> QED BY <1>6, <1>7 DEF u, v, rest, kept, CutLaws

\* What a step of wrap_spans starts from, with names for the last line.
PutFrom(row, h, w, lines, n, from, to, last, cur, a, first) ==
    /\ IsRow(row, h) /\ n \in 0..(Len(row) - 1) /\ w \in Nat /\ h + 2 <= w
    /\ Laid(row, w, h, lines, n, from, to)
    /\ last = Len(lines) /\ cur = lines[last] /\ a = from[last] /\ first = First(last, h, a)

PutNumbers(row, h, w, n, last, cur, a, first) ==
    /\ Len(row) \in Nat /\ n \in Nat /\ n + 1 <= Len(row) /\ w \in Nat /\ h + 2 <= w
    /\ last \in Nat /\ 1 <= last /\ a \in Nat /\ 1 <= a /\ a <= n + 1 /\ first \in Nat
    /\ Used(cur) \in Nat /\ Used(cur) <= w /\ row[n + 1].width \in 1..2
    /\ UsedUpto(row, n) \in Nat /\ UsedUpto(row, n + 1) \in Nat
    /\ UsedUpto(row, n + 1) = UsedUpto(row, n) + row[n + 1].width
    /\ Used(cur) > h => a <= first /\ first <= n

PutLines(row, h, w, lines, n, from, to, last, cur, a) ==
    /\ row \in Seq(CellSet) /\ row[n + 1] \in CellSet /\ lines \in Seq(Seq(CellSet))
    /\ Laid(row, w, h, lines, n, from, to)
    /\ last = Len(lines) /\ cur = lines[Len(lines)] /\ Last(lines) = cur /\ a = from[Len(lines)]
    /\ cur = Line(row, h, last, a, n) /\ cur \in Seq(CellSet)

PutColumns(row, h, n, cur, first) ==
    Used(cur) > h =>
        /\ Used(cur) = h + UsedUpto(row, n) - UsedUpto(row, first - 1)
        /\ Len(cur) = h + n - first + 1
        /\ \A i \in (h + 1)..Len(cur) : cur[i] = row[first + i - h - 1]

LEMMA PutFacts ==
  ASSUME NEW row, NEW h \in Nat, NEW w, NEW lines, NEW n, NEW from, NEW to, NEW last, NEW cur,
         NEW a, NEW first, PutFrom(row, h, w, lines, n, from, to, last, cur, a, first)
  PROVE  /\ PutNumbers(row, h, w, n, last, cur, a, first)
         /\ PutLines(row, h, w, lines, n, from, to, last, cur, a)
         /\ PutColumns(row, h, n, cur, first)
<1>1. /\ IsRow(row, h) /\ n \in 0..(Len(row) - 1) /\ w \in Nat /\ h + 2 <= w
      /\ Laid(row, w, h, lines, n, from, to)
      /\ last = Len(lines) /\ cur = lines[last] /\ a = from[last] /\ first = First(last, h, a)
  BY DEF PutFrom
<1>2. row \in Seq(CellSet)
  BY <1>1 DEF IsRow
<1>3. Len(row) \in Nat /\ n \in Nat /\ n + 1 \in 1..Len(row) /\ n \in 0..Len(row) /\ (n + 1) - 1 = n
  BY <1>1, <1>2
<1>4. row[n + 1].width \in 1..2 /\ (row[n + 1].char = " " => row[n + 1].width = 1)
  BY <1>1, <1>3 DEF IsRow
<1>5. UsedUpto(row, n + 1) = UsedUpto(row, n) + row[n + 1].width
  BY <1>2, <1>3, UsedUptoIs
<1>6. /\ last \in Nat /\ 1 <= last /\ a \in Nat /\ 1 <= a /\ a <= n + 1
      /\ cur = Line(row, h, last, a, n) /\ cur \in Seq(CellSet)
      /\ Used(cur) = Left(last, h) + UsedUpto(row, n) - UsedUpto(row, a - 1) /\ Used(cur) <= w
      /\ Used(cur) > h =>
           /\ a <= first /\ first <= n
           /\ Used(cur) = h + UsedUpto(row, n) - UsedUpto(row, first - 1)
           /\ Len(cur) = h + n - first + 1
           /\ \A i \in (h + 1)..Len(cur) : cur[i] = row[first + i - h - 1]
  BY <1>1, <1>3, LastLine
<1>7. Used(cur) \in Nat
  BY <1>6, UsedIs
<1>8. first \in Nat
  BY <1>1, <1>6 DEF First
<1>9. Last(lines) = cur /\ lines \in Seq(Seq(CellSet))
  BY <1>1 DEF Last, Laid
<1>10. UsedUpto(row, n) \in Nat /\ UsedUpto(row, n + 1) \in Nat /\ n + 1 <= Len(row) /\ row[n + 1] \in CellSet
  <2>1. n + 1 \in 0..Len(row) /\ n + 1 <= Len(row)
    BY <1>3
  <2> QED BY <1>2, <1>3, <2>1, UsedUptoIs
<1>11. PutNumbers(row, h, w, n, last, cur, a, first)
  BY <1>1, <1>3, <1>4, <1>5, <1>6, <1>7, <1>8, <1>10 DEF PutNumbers
<1>12. PutLines(row, h, w, lines, n, from, to, last, cur, a)
  BY <1>1, <1>2, <1>6, <1>9, <1>10 DEF PutLines
<1>13. PutColumns(row, h, n, cur, first)
  BY <1>6 DEF PutColumns
<1> QED BY <1>11, <1>12, <1>13

\* The next cell on the last line.
LEMMA PutOn ==
  ASSUME NEW row, NEW h \in Nat, NEW w, NEW lines, NEW n, NEW from, NEW to, NEW last, NEW cur,
         NEW a, NEW first, PutFrom(row, h, w, lines, n, from, to, last, cur, a, first),
         ~Full(cur, row[n + 1], w, h)
  PROVE  HasLayout(row, w, h, Put(lines, row[n + 1], w, h), n + 1)
<1> DEFINE x == Append(cur, row[n + 1])
<1>0. /\ PutNumbers(row, h, w, n, last, cur, a, first)
      /\ PutLines(row, h, w, lines, n, from, to, last, cur, a)
      /\ PutColumns(row, h, n, cur, first)
  BY PutFacts
<1>99. /\ Len(row) \in Nat /\ n \in Nat /\ n + 1 <= Len(row) /\ w \in Nat /\ h + 2 <= w
      /\ last \in Nat /\ 1 <= last /\ a \in Nat /\ 1 <= a /\ a <= n + 1 /\ first \in Nat
      /\ Used(cur) \in Nat /\ Used(cur) <= w /\ row[n + 1].width \in 1..2
      /\ (Used(cur) > h => a <= first /\ first <= n)
  BY <1>0 DEF PutNumbers
<1>1. /\ row \in Seq(CellSet) /\ row[n + 1] \in CellSet /\ lines \in Seq(Seq(CellSet))
      /\ Laid(row, w, h, lines, n, from, to)
      /\ last = Len(lines) /\ cur = lines[Len(lines)] /\ Last(lines) = cur /\ a = from[Len(lines)]
      /\ cur = Line(row, h, last, a, n) /\ cur \in Seq(CellSet)
  BY <1>0 DEF PutLines
<1>2. x = Line(row, h, last, a, n + 1)
  <2>1. n < Len(row)
    BY <1>99
  <2>2. Append(Line(row, h, last, a, n), row[n + 1]) = Line(row, h, last, a, n + 1)
    <3>1. /\ row \in Seq(CellSet) /\ last \in Nat /\ a \in Nat /\ n \in Nat
          /\ 1 <= a /\ a <= n + 1 /\ n < Len(row)
      BY <1>99, <1>1, <2>1
    <3> QED BY <3>1, LineGrows
  <2> QED BY <1>1, <2>2
<1>3. Used(x) = Used(cur) + row[n + 1].width
  BY <1>1, UsedIs
<1>4. Used(x) <= w
  <2>1. Used(cur) + row[n + 1].width <= w \/ Used(cur) <= h
    BY <1>99 DEF Full
  <2> QED BY <1>99, <1>3, <2>1
<1>5. Put(lines, row[n + 1], w, h) = Front(lines) \o <<x>>
  BY <1>1 DEF Put
<1> HIDE DEF x
<1>6. Laid(row, w, h, Front(lines) \o <<x>>, n + 1, from, [to EXCEPT ![Len(lines)] = n + 1])
  <2>1. n + 1 \in Nat /\ from[Len(lines)] <= (n + 1) + 1 /\ n + 1 <= Len(row)
    BY <1>99, <1>1, SMTT(30)
  <2>2. x = Line(row, h, Len(lines), from[Len(lines)], n + 1)
    BY <1>1, <1>2
  <2> QED BY <1>1, <1>4, <2>1, <2>2, LaidReplace
<1> QED BY <1>5, <1>6 DEF HasLayout

\* A blank that is dropped.
LEMMA PutDrop ==
  ASSUME NEW row, NEW h \in Nat, NEW w, NEW lines, NEW n, NEW from, NEW to, NEW last, NEW cur,
         NEW a, NEW first, PutFrom(row, h, w, lines, n, from, to, last, cur, a, first),
         Full(cur, row[n + 1], w, h), ~InWord(row, n + 1)
  PROVE  HasLayout(row, w, h, Put(lines, row[n + 1], w, h), n + 1)
<1>0. /\ PutNumbers(row, h, w, n, last, cur, a, first)
      /\ PutLines(row, h, w, lines, n, from, to, last, cur, a)
      /\ PutColumns(row, h, n, cur, first)
  BY PutFacts
<1>99. /\ Len(row) \in Nat /\ n \in Nat /\ n + 1 <= Len(row) /\ w \in Nat /\ h + 2 <= w
      /\ last \in Nat /\ 1 <= last /\ a \in Nat /\ 1 <= a /\ a <= n + 1 /\ first \in Nat
      /\ Used(cur) \in Nat /\ Used(cur) <= w /\ row[n + 1].width \in 1..2
      /\ (Used(cur) > h => a <= first /\ first <= n)
  BY <1>0 DEF PutNumbers
<1>1. /\ row \in Seq(CellSet) /\ row[n + 1] \in CellSet /\ lines \in Seq(Seq(CellSet))
      /\ Laid(row, w, h, lines, n, from, to)
      /\ last = Len(lines) /\ cur = lines[Len(lines)] /\ Last(lines) = cur /\ a = from[Len(lines)]
      /\ cur = Line(row, h, last, a, n) /\ cur \in Seq(CellSet)
  BY <1>0 DEF PutLines
<1>2. a <= n
  BY <1>99 DEF Full
<1> DEFINE y == Indentation(h)
<1>3. Put(lines, row[n + 1], w, h) = Append(lines, y)
  BY <1>1 DEF Put, InWord
<1>4. y = Line(row, h, Len(lines) + 1, n + 2, n + 1) /\ Used(y) <= w
  <2>1. SubSeq(row, n + 2, n + 1) = <<>> /\ Len(lines) + 1 # 1
    BY <1>99, <1>1
  <2>2. Line(row, h, Len(lines) + 1, n + 2, n + 1) = y \o <<>>
    BY <2>1 DEF Line
  <2>3. y \in Seq(CellSet) /\ Used(y) = h
    BY IndentationFits
  <2>4. y \o <<>> = y
    <3> HIDE DEF y
    <3> QED BY <2>3
  <2>5. h <= w
    BY <1>99
  <2> HIDE DEF y
  <2> QED BY <2>2, <2>3, <2>4, <2>5
<1> HIDE DEF y
<1>5. Turns(row, w, h, n, n + 2)
  BY DEF Turns, InWord
<1>6. n + 2 \in Nat /\ n + 1 \in Nat /\ 1 <= n + 2 /\ n + 2 <= (n + 1) + 1 /\ n + 1 <= Len(row)
      /\ from[Len(lines)] <= n
  BY <1>99, <1>1, <1>2
<1>7. HasLayout(row, w, h, Append(lines, y), n + 1)
  BY <1>1, <1>4, <1>5, <1>6, LaidAppend
<1> QED BY <1>3, <1>7

\* The columns of the indentation and of the cells from place a up to the next one.
NextLaws(row, h, r, a, n) ==
    /\ Append(Indentation(h) \o SubSeq(row, a, n), row[n + 1]) = Line(row, h, r, a, n + 1)
    /\ Used(Line(row, h, r, a, n + 1)) = h + UsedUpto(row, n + 1) - UsedUpto(row, a - 1)

LEMMA NextLine ==
  ASSUME NEW row \in Seq(CellSet), NEW h \in Nat, NEW r \in Nat, r # 1, NEW a \in Nat, NEW n \in Nat,
         1 <= a, a <= n + 1, n < Len(row)
  PROVE  NextLaws(row, h, r, a, n)
<1>1. Line(row, h, r, a, n) = Indentation(h) \o SubSeq(row, a, n) /\ Left(r, h) = h /\ r \in Nat
  BY DEF Line, Left
<1>2. Append(Line(row, h, r, a, n), row[n + 1]) = Line(row, h, r, a, n + 1)
  <2>1. r \in Nat
    BY <1>1
  <2> QED BY <2>1, LineGrows
<1>3. LineLaws(row, h, r, a, n + 1)
  <2>1. n + 1 \in Nat /\ a <= (n + 1) + 1 /\ n + 1 <= Len(row)
    OBVIOUS
  <2> QED BY <1>1, <2>1, LineIs
<1> QED BY <1>1, <1>2, <1>3 DEF LineLaws, NextLaws

\* All but the last, and the last, are all.
LEMMA LastKept ==
  ASSUME NEW A, NEW s \in Seq(A), Len(s) >= 1, NEW y \in A
  PROVE  Front(s) \o <<s[Len(s)], y>> = Append(s, y)
<1> DEFINE n == Len(s) - 1
<1>1. n \in Nat /\ n + 1 = Len(s) /\ Front(s) = SubSeq(s, 1, n)
  BY DEF Front
<1> HIDE DEF n
<1>2. SubSeq(s, 1, n) \in Seq(A) /\ Len(SubSeq(s, 1, n)) = n /\ \A i \in 1..n : SubSeq(s, 1, n)[i] = s[i]
  BY <1>1
<1> QED BY <1>1, <1>2

\* A word that fills a line is cut: no line can hold it.
LEMMA PutCut ==
  ASSUME NEW row, NEW h \in Nat, NEW w, NEW lines, NEW n, NEW from, NEW to, NEW last, NEW cur,
         NEW a, NEW first, PutFrom(row, h, w, lines, n, from, to, last, cur, a, first),
         Full(cur, row[n + 1], w, h), InWord(row, n + 1), Breaks(cur, h) = {}
  PROVE  HasLayout(row, w, h, Put(lines, row[n + 1], w, h), n + 1)
<1>0. /\ PutNumbers(row, h, w, n, last, cur, a, first)
      /\ PutLines(row, h, w, lines, n, from, to, last, cur, a)
      /\ PutColumns(row, h, n, cur, first)
  BY PutFacts
<1>99. /\ Len(row) \in Nat /\ n \in Nat /\ n + 1 <= Len(row) /\ w \in Nat /\ h + 2 <= w
      /\ last \in Nat /\ 1 <= last /\ a \in Nat /\ 1 <= a /\ a <= n + 1 /\ first \in Nat
      /\ Used(cur) \in Nat /\ Used(cur) <= w /\ row[n + 1].width \in 1..2
      /\ (Used(cur) > h => a <= first /\ first <= n)
  BY <1>0 DEF PutNumbers
<1>1. /\ row \in Seq(CellSet) /\ row[n + 1] \in CellSet /\ lines \in Seq(Seq(CellSet))
      /\ Laid(row, w, h, lines, n, from, to)
      /\ last = Len(lines) /\ cur = lines[Len(lines)] /\ Last(lines) = cur /\ a = from[Len(lines)]
      /\ cur = Line(row, h, last, a, n) /\ cur \in Seq(CellSet)
  BY <1>0 DEF PutLines
<1>2. Used(cur) > h /\ Used(cur) + row[n + 1].width > w
  BY <1>99 DEF Full
<1>98. a <= first /\ first <= n
  BY <1>99, <1>2
<1>97. /\ UsedUpto(row, n) \in Nat /\ UsedUpto(row, n + 1) \in Nat
      /\ UsedUpto(row, n + 1) = UsedUpto(row, n) + row[n + 1].width
  BY <1>0 DEF PutNumbers
<1>3. /\ Used(cur) = h + UsedUpto(row, n) - UsedUpto(row, first - 1)
      /\ Len(cur) = h + n - first + 1
      /\ \A i \in (h + 1)..Len(cur) : cur[i] = row[first + i - h - 1]
  BY <1>0, <1>2 DEF PutColumns
<1> DEFINE y == Append(Indentation(h) \o <<>>, row[n + 1])
           U(k) == UsedUpto(row, k)
<1>4. Put(lines, row[n + 1], w, h) = Append(lines, y)
  <2>1. Put(lines, row[n + 1], w, h) = Front(lines) \o <<cur, y>>
    BY <1>1 DEF Put, Kept, Carried, InWord
  <2>2. lines \in Seq(Seq(CellSet)) /\ Len(lines) >= 1 /\ cur = lines[Len(lines)] /\ y \in Seq(CellSet)
    <3>1. Indentation(h) \o <<>> \in Seq(CellSet)
      <4>1. Indentation(h) \in Seq(CellSet)
        BY IndentationFits
      <4>2. <<>> \in Seq(CellSet)
        OBVIOUS
      <4> HIDE DEF y
      <4> QED BY <4>1, <4>2, JoinIs
    <3> QED BY <1>99, <1>1, <3>1
  <2> HIDE DEF y
  <2>3. Front(lines) \o <<cur, y>> = Append(lines, y)
    <3> DEFINE A == Seq(CellSet)
    <3>1. lines \in Seq(A) /\ y \in A /\ Len(lines) >= 1 /\ cur = lines[Len(lines)]
      BY <2>2
    <3> HIDE DEF A
    <3> QED BY <3>1, LastKept
  <2> QED BY <2>1, <2>3
<1>5. y = Line(row, h, Len(lines) + 1, n + 1, n + 1) /\ Used(y) = h + row[n + 1].width
  <2> DEFINE r == Len(lines) + 1
  <2>1. r \in Nat /\ r # 1 /\ n + 1 \in Nat /\ 1 <= n + 1 /\ n + 1 <= n + 1 /\ n < Len(row) /\ (n + 1) - 1 = n
    BY <1>99, <1>1
  <2>2. SubSeq(row, n + 1, n) = <<>>
    BY <1>99, <1>1
  <2> HIDE DEF r
  <2>3. /\ Append(Indentation(h) \o SubSeq(row, n + 1, n), row[n + 1]) = Line(row, h, r, n + 1, n + 1)
        /\ Used(Line(row, h, r, n + 1, n + 1)) = h + UsedUpto(row, n + 1) - UsedUpto(row, (n + 1) - 1)
    <3> HIDE DEF y, U
    <3> DEFINE p == n + 1
    <3>1. /\ row \in Seq(CellSet) /\ n \in Nat /\ r \in Nat /\ r # 1 /\ p \in Nat
          /\ 1 <= p /\ p <= n + 1 /\ n < Len(row)
      BY <1>1, <1>99, <2>1
    <3> HIDE DEF p
    <3>2. NextLaws(row, h, r, p, n)
      BY <3>1, NextLine
    <3> QED BY <3>2 DEF p, NextLaws
  <2>4. y = Line(row, h, r, n + 1, n + 1)
    BY <2>2, <2>3
  <2>5. U(n) \in Nat /\ row[n + 1].width \in Nat /\ U(n + 1) = U(n) + row[n + 1].width
    BY <1>99, <1>97
  <2>6. Used(y) = h + row[n + 1].width
    <3>1. Used(y) = h + U(n + 1) - U(n)
      BY <2>1, <2>3, <2>4
    <3> HIDE DEF y, U
    <3> QED BY <2>5, <3>1
  <2> QED BY <2>4, <2>6 DEF r
<1> HIDE DEF y
<1>6. Turns(row, w, h, n, n + 1)
  <2> SUFFICES ASSUME InWord(row, n), InWord(row, n + 1) PROVE 1 + WordWidth(row, n) > w - h
    BY DEF Turns, InWord
  <2>1. \A p \in (first + 1)..n : InWord(row, p)
    <3> SUFFICES ASSUME NEW p \in (first + 1)..n PROVE InWord(row, p)
      OBVIOUS
    <3> DEFINE i == p - first + h + 1
    <3>1. i \in (h + 2)..Len(cur) /\ i \in (h + 1)..Len(cur) /\ first + i - h - 1 = p
      <4>1. Len(cur) = h + n - first + 1
        BY <1>3
      <4> QED BY <1>99, <1>98, <4>1
    <3>2. i \notin Breaks(cur, h)
      OBVIOUS
    <3> HIDE DEF i
    <3>3. cur[i].char # " " /\ cur[i] = row[p]
      BY <1>3, <3>1, <3>2 DEF Breaks
    <3> QED BY <3>3 DEF InWord
  <2>2. U(n) \in Nat /\ U(n + 1) \in Nat /\ U(first) \in Nat /\ U(first - 1) \in Nat
        /\ U(first) = U(first - 1) + row[first].width /\ first \in 1..Len(row)
    <3>1. first \in 1..Len(row) /\ first - 1 \in 0..Len(row) /\ first \in 0..Len(row) /\ n + 1 \in 0..Len(row) /\ n \in 0..Len(row)
      BY <1>99, <1>98
    <3> QED BY <1>1, <3>1, UsedUptoIs
  <2>3. h + U(n + 1) - U(first - 1) > w
    <3>1. Used(cur) = h + U(n) - U(first - 1) /\ U(n) \in Nat /\ U(n + 1) = U(n) + row[n + 1].width
      BY <1>3, <1>97
    <3>2. w \in Nat /\ row[n + 1].width \in Nat /\ Used(cur) + row[n + 1].width > w
      BY <1>99, <1>2
    <3> DEFINE x == U(n)
               z == U(first - 1)
               cw == row[n + 1].width
               used == Used(cur)
    <3>3. /\ used = h + x - z /\ U(n + 1) = x + cw /\ used + cw > w /\ x \in Nat /\ z \in Nat /\ cw \in Nat
          /\ w \in Nat
      BY <2>2, <3>1, <3>2
    <3> HIDE DEF x, z, cw, used, U
    <3>4. h + (x + cw) - z > w
      BY <3>3
    <3> QED BY <3>3, <3>4 DEF z
  <2>4. CASE InWord(row, first)
    <3>1. \A p \in first..(n + 1) : InWord(row, p)
      <4> SUFFICES ASSUME NEW p \in first..(n + 1) PROVE InWord(row, p)
        OBVIOUS
      <4>1. p = first \/ p = n + 1 \/ p \in (first + 1)..n
        BY <1>99, <1>98
      <4> QED BY <2>1, <2>4, <4>1
    <3>2. n + 1 \in first..Len(row) /\ n \in first..(n + 1)
      BY <1>99, <1>98
    <3>3. WordWidth(row, n) \in Nat /\ U(n + 1) - U(first - 1) <= WordWidth(row, n)
      BY <1>1, <2>2, <3>1, <3>2, WordIsLong
    <3> HIDE DEF U
    <3> QED BY <1>99, <2>2, <2>3, <3>3, SMTT(30)
  <2>5. CASE ~InWord(row, first)
    <3>1. first # n /\ row[first].width = 1
      <4>1. row[first].char = " "
        BY <2>5 DEF InWord
      <4>2. row[first].char = " " => row[first].width = 1
        BY <2>2 DEF PutFrom, IsRow
      <4> QED BY <2>5, <4>1, <4>2
    <3>2. \A p \in (first + 1)..(n + 1) : InWord(row, p)
      <4> SUFFICES ASSUME NEW p \in (first + 1)..(n + 1) PROVE InWord(row, p)
        OBVIOUS
      <4>1. p = n + 1 \/ p \in (first + 1)..n
        BY <1>99, <1>98
      <4> QED BY <2>1, <4>1
    <3>3. first + 1 \in 1..Len(row) /\ n + 1 \in (first + 1)..Len(row) /\ n \in (first + 1)..(n + 1)
          /\ (first + 1) - 1 = first
      BY <1>99, <1>98, <3>1
    <3>4. WordWidth(row, n) \in Nat /\ U(n + 1) - U((first + 1) - 1) <= WordWidth(row, n)
      BY <1>1, <3>2, <3>3, WordIsLong
    <3>5. U(n + 1) - U(first) <= WordWidth(row, n)
      BY <3>3, <3>4
    <3>6. w \in Nat /\ h \in Nat /\ U(first) = U(first - 1) + 1
      BY <1>99, <2>2, <3>1
    <3>7. U(first) \in Nat /\ U(first - 1) \in Nat /\ U(n + 1) \in Nat
      BY <2>2
    <3> DEFINE x == U(n + 1)
               y0 == U(first)
               z == U(first - 1)
               l == WordWidth(row, n)
    <3>8. h + x - z > w /\ y0 = z + 1 /\ x - y0 <= l /\ x \in Nat /\ y0 \in Nat /\ z \in Nat /\ l \in Nat
      BY <2>3, <3>4, <3>5, <3>6, <3>7
    <3> HIDE DEF x, y0, z, l
    <3>9. 1 + l > w - h
      BY <3>6, <3>8
    <3> QED BY <3>9 DEF l
  <2> QED BY <2>4, <2>5
<1>7. n + 1 \in Nat /\ 1 <= n + 1 /\ n + 1 <= (n + 1) + 1 /\ n + 1 <= Len(row) /\ from[Len(lines)] <= n
      /\ Used(y) <= w
  <2>1. row[n + 1].width <= 2 /\ row[n + 1].width \in Int
    BY <1>99
  <2>2. from[Len(lines)] <= n
    BY <1>99, <1>98, <1>1
  <2> QED BY <1>99, <1>5, <2>1, <2>2, SMTT(30)
<1>8. HasLayout(row, w, h, Append(lines, y), n + 1)
  BY <1>1, <1>5, <1>6, <1>7, LaidAppend
<1> QED BY <1>4, <1>8

\* A word that does not fill a line is carried to the next one, and the blank before it is
\* dropped.
LEMMA PutCarry ==
  ASSUME NEW row, NEW h \in Nat, NEW w, NEW lines, NEW n, NEW from, NEW to, NEW last, NEW cur,
         NEW a, NEW first, PutFrom(row, h, w, lines, n, from, to, last, cur, a, first),
         Full(cur, row[n + 1], w, h), InWord(row, n + 1), Breaks(cur, h) # {}
  PROVE  HasLayout(row, w, h, Put(lines, row[n + 1], w, h), n + 1)
<1>0. /\ PutNumbers(row, h, w, n, last, cur, a, first)
      /\ PutLines(row, h, w, lines, n, from, to, last, cur, a)
      /\ PutColumns(row, h, n, cur, first)
  BY PutFacts
<1>99. /\ Len(row) \in Nat /\ n \in Nat /\ n + 1 <= Len(row) /\ w \in Nat /\ h + 2 <= w
      /\ last \in Nat /\ 1 <= last /\ a \in Nat /\ 1 <= a /\ a <= n + 1 /\ first \in Nat
      /\ Used(cur) \in Nat /\ Used(cur) <= w /\ row[n + 1].width \in 1..2
      /\ (Used(cur) > h => a <= first /\ first <= n)
  BY <1>0 DEF PutNumbers
<1>1. /\ row \in Seq(CellSet) /\ row[n + 1] \in CellSet /\ lines \in Seq(Seq(CellSet))
      /\ Laid(row, w, h, lines, n, from, to)
      /\ last = Len(lines) /\ cur = lines[Len(lines)] /\ Last(lines) = cur /\ a = from[Len(lines)]
      /\ cur = Line(row, h, last, a, n) /\ cur \in Seq(CellSet)
  BY <1>0 DEF PutLines
<1>2. Used(cur) > h /\ Used(cur) + row[n + 1].width > w
  BY <1>99 DEF Full
<1>98. a <= first /\ first <= n
  BY <1>99, <1>2
<1>97. /\ UsedUpto(row, n) \in Nat /\ UsedUpto(row, n + 1) \in Nat
      /\ UsedUpto(row, n + 1) = UsedUpto(row, n) + row[n + 1].width
  BY <1>0 DEF PutNumbers
<1>3. /\ Used(cur) = h + UsedUpto(row, n) - UsedUpto(row, first - 1)
      /\ Len(cur) = h + n - first + 1
      /\ \A i \in (h + 1)..Len(cur) : cur[i] = row[first + i - h - 1]
  BY <1>0, <1>2 DEF PutColumns
<1> DEFINE m == Max(Breaks(cur, h))
           k == first + m - h - 1
           kept == SubSeq(cur, 1, m - 1)
           rest == SubSeq(cur, m + 1, Len(cur))
           y == Append(Indentation(h) \o rest, row[n + 1])
           U(i) == UsedUpto(row, i)
<1>4. m \in Breaks(cur, h)
  <2>1. Breaks(cur, h) \in SUBSET Int /\ Len(cur) \in Int /\ \A x \in Breaks(cur, h) : x <= Len(cur)
    <3>1. Len(cur) \in Nat
      BY <1>1
    <3>2. Breaks(cur, h) \subseteq (h + 2)..Len(cur)
      BY Zenon DEF Breaks
    <3>3. (h + 2)..Len(cur) \in SUBSET Int /\ \A x \in (h + 2)..Len(cur) : x <= Len(cur)
      BY <3>1
    <3> DEFINE B == Breaks(cur, h)
               R == (h + 2)..Len(cur)
    <3>4. B \subseteq R /\ R \in SUBSET Int /\ (\A x \in R : x <= Len(cur)) /\ Len(cur) \in Int
      BY <3>1, <3>2, <3>3
    <3> HIDE DEF B, R
    <3>5. B \in SUBSET Int /\ Len(cur) \in Int /\ \A x \in B : x <= Len(cur)
      BY <3>4
    <3> QED BY <3>5 DEF B
  <2> DEFINE B == Breaks(cur, h)
  <2>2. B \in SUBSET Int /\ B # {} /\ Len(cur) \in Int /\ \A x \in B : x <= Len(cur)
    BY <2>1
  <2> HIDE DEF B
  <2>3. Max(B) \in B
    BY <2>2, MaxOf
  <2> QED BY <2>3 DEF B
<1>5. Put(lines, row[n + 1], w, h) = Front(lines) \o <<kept, y>>
  BY <1>1 DEF Put, Kept, Carried, InWord
<1> HIDE DEF m
<1>6. m \in (h + 2)..Len(cur) /\ m \in (h + 1)..Len(cur) /\ ~InWord(cur, m) /\ Len(cur) = h + n - first + 1
  <2>1. m \in (h + 2)..Len(cur) /\ ~InWord(cur, m)
    BY <1>4 DEF Breaks, InWord
  <2>2. m \in (h + 1)..Len(cur)
    BY <2>1
  <2> QED BY <1>3, <2>1, <2>2
<1>7. k \in Nat /\ first + 1 <= k /\ k <= n /\ k - first + h + 1 = m
  BY <1>99, <1>98, <1>6
<1>8. ~InWord(row, k)
  <2>1. cur[m] = row[k]
    BY <1>3, <1>6
  <2> QED BY <1>6, <2>1 DEF InWord
<1>9. m \in Nat /\ m = Left(last, h) + k - a + 1
  <2>1. first = First(last, h, a) /\ (last = 1 => a = 1)
    BY <1>1 DEF PutFrom, Laid
  <2>2. CASE last = 1
    <3>1. first = h + 1 /\ a = 1 /\ Left(last, h) = 0
      BY <2>1, <2>2 DEF First, Left
    <3> HIDE DEF k
    <3> QED BY <1>7, <3>1
  <2>3. CASE last # 1
    <3>1. first = a /\ Left(last, h) = h
      BY <2>1, <2>3 DEF First, Left
    <3> HIDE DEF k
    <3> QED BY <1>7, <1>99, <3>1
  <2> QED BY <2>2, <2>3
<1> HIDE DEF k
<1>10. kept = Line(row, h, last, a, k - 1) /\ rest = SubSeq(row, k + 1, n)
  <2>1. row \in Seq(CellSet) /\ cur = Line(row, h, last, a, n)
    BY <1>1
  <2>2. /\ last \in Nat /\ a \in Nat /\ n \in Nat /\ 1 <= a /\ a <= n + 1 /\ n <= Len(row)
        /\ k \in Nat /\ a <= k /\ k <= n
    BY <1>99, <1>98, <1>7
  <2>3. CutLaws(row, h, last, a, n, k, m, cur)
    BY <1>9, <2>1, <2>2, LineCut
  <2> QED BY <2>3 DEF CutLaws
<1> HIDE DEF kept, rest
<1>11. y = Line(row, h, last + 1, k + 1, n + 1) /\ Used(y) = h + U(n + 1) - U(k)
  <2> DEFINE p == k + 1
             r == last + 1
  <2>1. /\ row \in Seq(CellSet) /\ r \in Nat /\ r # 1 /\ p \in Nat /\ n \in Nat
        /\ 1 <= p /\ p <= n + 1 /\ n < Len(row)
    BY <1>1, <1>99, <1>7, SMTT(30)
  <2>2. p - 1 = k
    BY <1>7
  <2> HIDE DEF p, r
  <2>3. NextLaws(row, h, r, p, n)
    BY <2>1, NextLine
  <2>4. y = Line(row, h, r, p, n + 1) /\ Used(Line(row, h, r, p, n + 1)) = h + UsedUpto(row, n + 1) - UsedUpto(row, p - 1)
    BY <1>10, <2>3 DEF NextLaws, p
  <2> HIDE DEF y
  <2> QED BY <2>2, <2>4 DEF p, r
<1> HIDE DEF y
<1>12. /\ U(k) \in Nat /\ U(first - 1) \in Nat /\ U(k - 1) \in Nat /\ U(a - 1) \in Nat /\ U(n) \in Nat
       /\ U(first - 1) + 2 <= U(k) /\ U(k - 1) <= U(n)
  <2>1. /\ first - 1 \in 0..Len(row) /\ k \in (first - 1)..Len(row) /\ k \in 0..Len(row) /\ k - 1 \in 0..Len(row)
        /\ n \in (k - 1)..Len(row) /\ a - 1 \in 0..Len(row) /\ n \in 0..Len(row) /\ k - (first - 1) >= 2
    BY <1>99, <1>98, <1>7
  <2>2. /\ U(k) \in Nat /\ U(first - 1) \in Nat /\ U(k - 1) \in Nat /\ U(a - 1) \in Nat /\ U(n) \in Nat
    BY <1>1, <2>1, UsedUptoIs
  <2>3. U(k - 1) <= U(n)
    BY <1>1, <2>1, UsedGrows
  <2>4. \A i \in ((first - 1) + 1)..k : row[i].width > 0
    <3>1. \A i \in 1..Len(row) : row[i].width \in 1..2
      BY DEF PutFrom, IsRow
    <3>2. \A i \in ((first - 1) + 1)..k : i \in 1..Len(row)
      BY <1>99, <1>98, <1>7
    <3> QED BY <3>1, <3>2
  <2>5. U(first - 1) + (k - (first - 1)) <= U(k)
    BY <1>1, <2>1, <2>4, UsedGrows
  <2> HIDE DEF U
  <2>6. k \in Int /\ first \in Int
    BY <1>99, <1>7
  <2> QED BY <2>1, <2>2, <2>3, <2>5, <2>6, SMTT(30)
<1>13. Used(kept) <= w
  <2>1. /\ k - 1 \in Nat /\ a <= (k - 1) + 1 /\ k - 1 <= Len(row) /\ last \in Nat /\ a \in Nat /\ 1 <= a
        /\ n \in Nat /\ a <= n + 1 /\ n <= Len(row) /\ row \in Seq(CellSet)
    BY <1>99, <1>98, <1>7, <1>1, SMTT(30)
  <2>2. LineLaws(row, h, last, a, k - 1) /\ LineLaws(row, h, last, a, n)
    BY <2>1, LineIs
  <2>3. Used(kept) = Left(last, h) + U(k - 1) - U(a - 1) /\ Used(cur) = Left(last, h) + U(n) - U(a - 1)
    BY <1>1, <1>10, <2>2 DEF LineLaws
  <2>4. Left(last, h) \in Nat
    BY DEF Left
  <2>5. Used(cur) <= w /\ w \in Nat
    BY <1>99
  <2> DEFINE l == Left(last, h)
  <2> HIDE DEF U, l
  <2>6. l + U(k - 1) - U(a - 1) <= l + U(n) - U(a - 1)
    BY <1>12, <2>4 DEF l
  <2> QED BY <1>12, <2>3, <2>4, <2>5, <2>6 DEF l
<1>14. Used(y) <= w
  <2> DEFINE x == U(n)
             z == U(first - 1)
             v == U(k)
             cw == row[n + 1].width
             used == Used(cur)
  <2>1. /\ used = h + x - z /\ U(n + 1) = x + cw /\ x \in Nat /\ z \in Nat /\ v \in Nat /\ cw \in Nat /\ cw <= 2
        /\ w \in Nat /\ used <= w /\ z + 2 <= v
    <3>1. cw \in Nat /\ cw <= 2 /\ w \in Nat /\ used <= w
      BY <1>99
    <3>2. used = h + x - z /\ U(n + 1) = x + cw
      BY <1>3, <1>97
    <3> QED BY <1>12, <3>1, <3>2
  <2> HIDE DEF x, z, v, cw, used, U
  <2>2. h + (x + cw) - v <= w
    BY <2>1
  <2> QED BY <1>11, <2>1, <2>2 DEF v
<1> DEFINE some == Front(lines) \o <<kept>>
           end == [to EXCEPT ![Len(lines)] = k - 1]
<1>15. Laid(row, w, h, some, k - 1, from, end) /\ Len(some) = Len(lines) /\ some \in Seq(Seq(CellSet))
  <2>1. k - 1 \in Nat /\ from[Len(lines)] <= (k - 1) + 1 /\ k - 1 <= Len(row)
    BY <1>99, <1>98, <1>1, <1>7, SMTT(30)
  <2>2. kept = Line(row, h, Len(lines), from[Len(lines)], k - 1)
    BY <1>1, <1>10
  <2>3. Laid(row, w, h, some, k - 1, from, end)
    BY <1>1, <1>13, <2>1, <2>2, LaidReplace
  <2>4. kept \in Seq(CellSet) /\ Len(lines) >= 1
    <3>1. k - 1 \in Nat /\ a <= (k - 1) + 1 /\ k - 1 <= Len(row) /\ last \in Nat /\ a \in Nat /\ 1 <= a /\ row \in Seq(CellSet)
      <4>1. k - 1 \in Nat /\ a <= (k - 1) + 1 /\ k - 1 <= Len(row) /\ last \in Nat /\ a \in Nat /\ 1 <= a
        BY <1>99, <1>98, <1>7
      <4> QED BY <1>1, <4>1
    <3>2. LineLaws(row, h, last, a, k - 1)
      BY <3>1, LineIs
    <3> QED BY <1>1, <1>99, <1>10, <3>2 DEF LineLaws
  <2> DEFINE A == Seq(CellSet)
  <2>5. lines \in Seq(A) /\ kept \in A /\ Len(lines) >= 1
    BY <1>1, <2>4
  <2> HIDE DEF A
  <2>6. some \in Seq(A) /\ Len(some) = Len(lines)
    BY <2>5, FrontIs
  <2> QED BY <2>3, <2>6 DEF A
<1>16. Front(lines) \o <<kept, y>> = Append(some, y)
  <2>1. Front(lines) \in Seq(Seq(CellSet)) /\ kept \in Seq(CellSet) /\ y \in Seq(CellSet)
    <3>1. kept \in Seq(CellSet)
      <4>1. k - 1 \in Nat /\ a <= (k - 1) + 1 /\ k - 1 <= Len(row) /\ last \in Nat /\ a \in Nat /\ 1 <= a /\ row \in Seq(CellSet)
        <5>1. k - 1 \in Nat /\ a <= (k - 1) + 1 /\ k - 1 <= Len(row) /\ last \in Nat /\ a \in Nat /\ 1 <= a
          BY <1>99, <1>98, <1>7
        <5> QED BY <1>1, <5>1
      <4>2. LineLaws(row, h, last, a, k - 1)
        BY <4>1, LineIs
      <4> QED BY <1>10, <4>2 DEF LineLaws
    <3>2. y \in Seq(CellSet)
      <4>1. last + 1 \in Nat /\ k + 1 \in Nat /\ n + 1 \in Nat /\ 1 <= k + 1 /\ k + 1 <= (n + 1) + 1 /\ n + 1 <= Len(row)
        BY <1>99, <1>7, SMTT(30)
      <4>3. row \in Seq(CellSet)
        BY <1>1
      <4>2. LineLaws(row, h, last + 1, k + 1, n + 1)
        BY <4>1, <4>3, LineIs
      <4> QED BY <1>11, <4>2 DEF LineLaws
    <3>3. Front(lines) \in Seq(Seq(CellSet))
      <4> DEFINE A == Seq(CellSet)
                 j == Len(lines) - 1
      <4>1. lines \in Seq(A) /\ j \in Nat /\ j <= Len(lines) /\ Front(lines) = SubSeq(lines, 1, j)
        BY <1>1, <1>99 DEF Front
      <4> HIDE DEF A, j
      <4>2. Front(lines) \in Seq(A)
        BY <4>1
      <4> QED BY <4>2 DEF A
    <3> QED BY <3>1, <3>2, <3>3
  <2> DEFINE A == Seq(CellSet)
             f == Front(lines)
  <2>2. f \in Seq(A) /\ kept \in A /\ y \in A
    BY <2>1
  <2> HIDE DEF A, f
  <2>3. f \o <<kept, y>> = Append(f \o <<kept>>, y)
    BY <2>2
  <2> QED BY <2>3 DEF f
<1> HIDE DEF some, end
<1>17. Turns(row, w, h, k - 1, k + 1)
  <2>1. k + 1 = (k - 1) + 2 /\ (k - 1) + 1 = k
    BY <1>7
  <2> QED BY <1>8, <2>1 DEF Turns, InWord
<1>18. HasLayout(row, w, h, Append(some, y), n + 1)
  <2>1. /\ from[Len(some)] <= k - 1 /\ k + 1 \in Nat /\ n + 1 \in Nat /\ 1 <= k + 1 /\ k + 1 <= (n + 1) + 1
        /\ n + 1 <= Len(row)
    BY <1>1, <1>99, <1>98, <1>7, <1>15, SMTT(30)
  <2>2. y = Line(row, h, Len(some) + 1, k + 1, n + 1)
    BY <1>1, <1>11, <1>15
  <2> QED BY <1>1, <1>14, <1>15, <1>17, <2>1, <2>2, LaidAppend
<1> QED BY <1>5, <1>16, <1>18

\* A step of wrap_spans.
LEMMA PutLaid ==
  ASSUME NEW row, NEW h \in Nat, IsRow(row, h), NEW w \in Nat, h + 2 <= w, NEW lines,
         NEW n \in 0..(Len(row) - 1), HasLayout(row, w, h, lines, n)
  PROVE  HasLayout(row, w, h, Put(lines, row[n + 1], w, h), n + 1)
<1>1. PICK from, to : Laid(row, w, h, lines, n, from, to)
  BY DEF HasLayout
<1> DEFINE last == Len(lines)
           cur == lines[last]
           a == from[last]
           first == First(last, h, a)
<1>2. PutFrom(row, h, w, lines, n, from, to, last, cur, a, first)
  BY <1>1 DEF PutFrom
<1> HIDE DEF last, cur, a, first
<1>3. CASE ~Full(cur, row[n + 1], w, h)
  BY <1>2, <1>3, PutOn
<1>4. CASE Full(cur, row[n + 1], w, h) /\ ~InWord(row, n + 1)
  BY <1>2, <1>4, PutDrop
<1>5. CASE Full(cur, row[n + 1], w, h) /\ InWord(row, n + 1) /\ Breaks(cur, h) = {}
  BY <1>2, <1>5, PutCut
<1>6. CASE Full(cur, row[n + 1], w, h) /\ InWord(row, n + 1) /\ Breaks(cur, h) # {}
  BY <1>2, <1>6, PutCarry
<1> QED BY <1>3, <1>4, <1>5, <1>6

\* A step of wrap_spans, as a function, on lines there is one of at least.
LineSet == {lines \in Seq(Seq(CellSet)) : Len(lines) >= 1}

PutStep(w, h) == [lines \in LineSet |-> [c \in CellSet |-> Put(lines, c, w, h)]]

LEMMA PutType ==
  ASSUME NEW w, NEW h \in Nat, NEW lines \in LineSet, NEW c \in CellSet
  PROVE  Put(lines, c, w, h) \in LineSet
<1> DEFINE A == Seq(CellSet)
           cur == Last(lines)
           kept == Kept(cur, h)
           y == Append(Indentation(h) \o Carried(cur, h), c)
<1>1. lines \in Seq(A) /\ Len(lines) >= 1 /\ cur = lines[Len(lines)]
  BY DEF LineSet, Last
<1>2. cur \in A
  <2> HIDE DEF A, cur
  <2> QED BY <1>1
<1>3. Indentation(h) \in A
  BY IndentationFits
<1>4. Append(cur, c) \in A
  BY <1>2
<1>5. kept \in A /\ Carried(cur, h) \in A
  <2>1. CASE Breaks(cur, h) = {}
    <3>1. <<>> \in A
      OBVIOUS
    <3> HIDE DEF A, cur
    <3> QED BY <1>2, <2>1, <3>1 DEF Kept, Carried
  <2>2. CASE Breaks(cur, h) # {}
    <3> DEFINE B == Breaks(cur, h)
               R == (h + 2)..Len(cur)
    <3>1. B \subseteq R
      BY Zenon DEF Breaks
    <3>2. Len(cur) \in Nat
      BY <1>2
    <3>3. R \in SUBSET Int /\ (\A x \in R : x <= Len(cur) /\ h + 2 <= x) /\ Len(cur) \in Int
      BY <3>2
    <3> HIDE DEF B, R
    <3>4. Max(B) \in B
      <4>1. B \in SUBSET Int /\ B # {} /\ \A x \in B : x <= Len(cur)
        BY <2>2, <3>1, <3>3 DEF B
      <4> QED BY <3>3, <4>1, MaxOf
    <3> DEFINE m == Max(B)
    <3>5. m \in Int /\ m <= Len(cur) /\ h + 2 <= m
      BY <3>1, <3>3, <3>4
    <3>6. Kept(cur, h) = SubSeq(cur, 1, m - 1) /\ Carried(cur, h) = SubSeq(cur, m + 1, Len(cur))
      BY <2>2 DEF Kept, Carried, B
    <3> HIDE DEF m, cur, kept
    <3>7. SubSeq(cur, 1, m - 1) \in Seq(CellSet) /\ SubSeq(cur, m + 1, Len(cur)) \in Seq(CellSet)
      <4>1. 1 <= m - 1 /\ m - 1 <= Len(cur) /\ m - 1 \in Int /\ m + 1 \in Int /\ 1 <= m + 1 /\ m + 1 <= Len(cur) + 1
        BY <3>2, <3>5
      <4>2. cur \in Seq(CellSet)
        BY <1>2
      <4> QED BY <3>2, <4>1, <4>2
    <3> QED BY <3>6, <3>7 DEF kept
  <2> QED BY <2>1, <2>2
<1>6. y \in A
  <2> HIDE DEF cur, y
  <2>1. Indentation(h) \o Carried(cur, h) \in Seq(CellSet)
    BY <1>3, <1>5, JoinIs
  <2> QED BY <2>1 DEF y
<1> HIDE DEF y, kept, A, cur
<1>7. Front(lines) \o <<Append(cur, c)>> \in Seq(A) /\ Len(Front(lines) \o <<Append(cur, c)>>) >= 1
  BY <1>1, <1>4, FrontIs
<1>8. Append(lines, Indentation(h)) \in Seq(A) /\ Len(Append(lines, Indentation(h))) >= 1
  BY <1>1, <1>3
<1>9. Front(lines) \o <<kept, y>> \in Seq(A) /\ Len(Front(lines) \o <<kept, y>>) >= 1
  <2> DEFINE f == Front(lines)
             j == Len(lines) - 1
  <2>1. f \in Seq(A)
    <3>1. j \in Nat /\ j <= Len(lines) /\ f = SubSeq(lines, 1, j)
      BY <1>1 DEF Front
    <3> HIDE DEF f, j
    <3> QED BY <1>1, <3>1
  <2> HIDE DEF f, j
  <2>2. <<kept, y>> \in Seq(A) /\ Len(<<kept, y>>) = 2
    BY <1>5, <1>6
  <2> DEFINE t == <<kept, y>>
  <2> HIDE DEF t
  <2>3. f \o t \in Seq(A) /\ Len(f \o t) = Len(f) + Len(t)
    BY <2>1, <2>2, JoinIs DEF t
  <2>4. Len(f) \in Nat
    BY <2>1
  <2> QED BY <2>2, <2>3, <2>4 DEF f, t
<1>10. \/ Put(lines, c, w, h) = Front(lines) \o <<Append(cur, c)>>
       \/ Put(lines, c, w, h) = Append(lines, Indentation(h))
       \/ Put(lines, c, w, h) = Front(lines) \o <<kept, y>>
  BY Zenon DEF Put, kept, y, cur
<1>11. Put(lines, c, w, h) \in Seq(A) /\ Len(Put(lines, c, w, h)) >= 1
  BY <1>7, <1>8, <1>9, <1>10
<1> QED BY <1>11 DEF LineSet, A

LEMMA PutStepType ==
  ASSUME NEW w, NEW h \in Nat
  PROVE  PutStep(w, h) \in [LineSet -> [CellSet -> LineSet]] /\ <<<<>>>> \in LineSet
<1>1. <<<<>>>> \in LineSet
  <2>1. <<>> \in Seq(CellSet)
    OBVIOUS
  <2> DEFINE A == Seq(CellSet)
             e == <<>>
  <2>2. e \in A
    BY <2>1
  <2> HIDE DEF A, e
  <2>3. <<e>> \in Seq(A) /\ Len(<<e>>) >= 1
    BY <2>2
  <2> QED BY <2>3 DEF A, e, LineSet
<1>2. \A lines \in LineSet, c \in CellSet : Put(lines, c, w, h) \in LineSet
  BY PutType
<1> QED BY <1>1, <1>2 DEF PutStep

LEMMA WrapIsLoop ==
  ASSUME NEW w, NEW p, Hang(p, w) \in Nat, NEW s \in Seq(CellSet)
  PROVE  WrapSpans(s, w, p) = Loop(LineSet, PutStep(w, Hang(p, w)), <<<<>>>>, s)
<1> DEFINE Eq(h) == h = [t \in SUBSET DOMAIN s |->
                           IF t = {} THEN <<<<>>>>
                           ELSE Put(h[t \ {Max(t)}], s[Max(t)], w, Hang(p, w))]
           F == CHOOSE h : Eq(h)
<1>0. DOMAIN s = 1..Len(s) /\ Len(s) \in Nat /\ \A k \in 1..Len(s) : s[k] \in CellSet
  OBVIOUS
<1>1. WrapSpans(s, w, p) = F[1..Len(s)]
  BY <1>0 DEF WrapSpans, FoldLeft, MapThenFoldSet
<1>2. \E h : Eq(h)
  <2>1. PICK g \in [SUBSET (1..Len(s)) -> LineSet] :
           \A t \in SUBSET (1..Len(s)) :
              g[t] = IF t = {} THEN <<<<>>>> ELSE PutStep(w, Hang(p, w))[g[t \ {Max(t)}]][s[Max(t)]]
    <3>1. HasIter(LineSet, PutStep(w, Hang(p, w)), <<<<>>>>, s)
      BY PutStepType, IterExists
    <3> QED BY <3>1 DEF HasIter
  <2>2. ASSUME NEW t \in SUBSET (1..Len(s))
        PROVE  g[t] = IF t = {} THEN <<<<>>>>
                      ELSE Put(g[t \ {Max(t)}], s[Max(t)], w, Hang(p, w))
    <3>1. CASE t = {}
      BY <2>1, <3>1
    <3>2. CASE t # {}
      <4>1. Max(t) \in 1..Len(s) /\ t \ {Max(t)} \in SUBSET (1..Len(s))
        BY <1>0, <3>2, MaxIn
      <4>2. g[t \ {Max(t)}] \in LineSet /\ s[Max(t)] \in CellSet
        BY <1>0, <2>1, <4>1
      <4>3. PutStep(w, Hang(p, w))[g[t \ {Max(t)}]][s[Max(t)]]
              = Put(g[t \ {Max(t)}], s[Max(t)], w, Hang(p, w))
        BY <4>2 DEF PutStep
      <4> QED BY <2>1, <3>2, <4>3
    <3> QED BY <3>1, <3>2
  <2>3. g = [t \in SUBSET (1..Len(s)) |->
               IF t = {} THEN <<<<>>>> ELSE Put(g[t \ {Max(t)}], s[Max(t)], w, Hang(p, w))]
    BY <2>1, <2>2
  <2> QED BY <1>0, <2>3
<1>3. Eq(F)
  BY <1>2
<1> HIDE DEF F
<1>4. \A t \in SUBSET (1..Len(s)) :
         F[t] = IF t = {} THEN <<<<>>>> ELSE Put(F[t \ {Max(t)}], s[Max(t)], w, Hang(p, w))
  BY <1>0, <1>3
<1> HIDE DEF Eq
<1>5. F[{}] = <<<<>>>>
  BY <1>4
<1>6. ASSUME NEW k \in 0..(Len(s) - 1), F[1..k] \in LineSet
      PROVE  F[1..(k + 1)] = PutStep(w, Hang(p, w))[F[1..k]][s[k + 1]]
  <2>1. k \in Nat /\ k + 1 \in 1..Len(s) /\ s[k + 1] \in CellSet
    <3>1. k \in Nat /\ k + 1 \in 1..Len(s)
      BY <1>0
    <3> QED BY <1>0, <3>1
  <2>0. 1..(k + 1) \in SUBSET (1..Len(s)) /\ k + 1 \in 1..(k + 1)
    BY <1>0, <2>1
  <2>2. Max(1..(k + 1)) = k + 1 /\ (1..(k + 1)) \ {k + 1} = 1..k
    BY <2>1, MaxUpto
  <2>3. F[1..(k + 1)] = Put(F[1..k], s[k + 1], w, Hang(p, w))
    <3> DEFINE t == 1..(k + 1)
    <3>1. t \in SUBSET (1..Len(s)) /\ t # {} /\ Max(t) = k + 1 /\ t \ {k + 1} = 1..k
      BY <2>0, <2>1, <2>2
    <3> HIDE DEF t
    <3>2. F[t] = Put(F[t \ {Max(t)}], s[Max(t)], w, Hang(p, w))
      BY <1>4, <3>1
    <3>3. F[t] = Put(F[1..k], s[k + 1], w, Hang(p, w))
      BY <3>1, <3>2
    <3> QED BY <3>3 DEF t
  <2> QED BY <1>6, <2>1, <2>3 DEF PutStep
<1>7. HasRun(LineSet, PutStep(w, Hang(p, w)), <<<<>>>>, s) /\ IsIter(F, LineSet, PutStep(w, Hang(p, w)), <<<<>>>>, s)
  <2>1. IsIter(F, LineSet, PutStep(w, Hang(p, w)), <<<<>>>>, s)
    BY <1>5, <1>6 DEF IsIter
  <2> QED BY <2>1, PutStepType, RunExists
<1>8. F[1..Len(s)] = Loop(LineSet, PutStep(w, Hang(p, w)), <<<<>>>>, s)
  BY <1>0, <1>7, IterIs
<1> QED BY <1>1, <1>8

\* wrap_spans puts the row on lines, cell after cell.
LEMMA WrapLaid ==
  ASSUME NEW row, NEW w \in Nat, NEW p, Hang(p, w) \in Nat, IsRow(row, Hang(p, w)), Hang(p, w) + 2 <= w
  PROVE  HasLayout(row, w, Hang(p, w), WrapSpans(row, w, p), Len(row))
<1> DEFINE h == Hang(p, w)
           W(n) == Loop(LineSet, PutStep(w, h), <<<<>>>>, SubSeq(row, 1, n))
           S == {n \in 0..Len(row) : HasLayout(row, w, h, W(n), n)}
<1>1. row \in Seq(CellSet) /\ h \in 0..Len(row)
  BY DEF IsRow
<1>2. Len(row) \in Nat /\ SubSeq(row, 1, 0) = <<>> /\ SubSeq(row, 1, Len(row)) = row
  BY <1>1
<1>3. WrapSpans(row, w, p) = W(Len(row))
  BY <1>1, <1>2, WrapIsLoop
<1>4. IsRow(row, h) /\ h \in Nat /\ h + 2 <= w
  OBVIOUS
<1> HIDE DEF h
<1>5. LoopLaws(CellSet, LineSet, PutStep(w, h), <<<<>>>>)
  BY <1>4, PutStepType, LoopIs
<1>6. 0 \in S
  <2>1. W(0) = <<<<>>>>
    BY <1>2, <1>5 DEF LoopLaws
  <2>2. Laid(row, w, h, <<<<>>>>, 0, [r \in 1..1 |-> 1], [r \in 1..1 |-> 0])
    <3> DEFINE lines == <<<<>>>>
               from == [r \in 1..1 |-> 1]
               to == [r \in 1..1 |-> 0]
    <3>1. lines \in Seq(Seq(CellSet)) /\ Len(lines) = 1 /\ lines[1] = <<>>
      <4>1. lines \in LineSet
        BY <1>4, PutStepType
      <4> QED BY <4>1 DEF LineSet
    <3>2. from \in [1..1 -> Nat] /\ to \in [1..1 -> Nat] /\ from[1] = 1 /\ to[1] = 0
      OBVIOUS
    <3>3. Line(row, h, 1, 1, 0) = <<>>
      <4>1. SubSeq(row, 1, 0) = <<>>
        BY <1>2
      <4>2. Line(row, h, 1, 1, 0) = <<>> \o SubSeq(row, 1, 0)
        BY DEF Line
      <4>3. <<>> \o <<>> = <<>>
        OBVIOUS
      <4> QED BY <4>1, <4>2, <4>3
    <3>4. Used(<<>>) = 0
      BY UsedIs
    <3> HIDE DEF lines, from, to
    <3>5. ASSUME NEW r \in 1..1
          PROVE  /\ 1 <= from[r] /\ from[r] <= to[r] + 1 /\ to[r] <= Len(row)
                 /\ lines[r] = Line(row, h, r, from[r], to[r]) /\ Used(lines[r]) <= w
      <4>1. r = 1
        OBVIOUS
      <4>2. Used(lines[1]) <= w
        BY <3>1, <3>4
      <4> QED BY <1>2, <3>1, <3>2, <3>3, <4>1, <4>2
    <3>6. 1..(1 - 1) = {}
      OBVIOUS
    <3>7. Laid(row, w, h, lines, 0, from, to)
      BY <3>1, <3>2, <3>5, <3>6 DEF Laid
    <3> QED BY <3>7 DEF lines, from, to
  <2>3. HasLayout(row, w, h, W(0), 0)
    BY <2>1, <2>2, Zenon DEF HasLayout
  <2> HIDE DEF W
  <2> QED BY <1>2, <2>3
<1>7. ASSUME NEW n \in 0..(Len(row) - 1), n \in S PROVE n + 1 \in S
  <2>1. n \in Int /\ 1 \in Int /\ 1 <= 1 /\ 1 <= n + 1 /\ n < Len(row) /\ n + 1 \in 0..Len(row)
    BY <1>2
  <2> DEFINE t == SubSeq(row, 1, n)
  <2>2. t \in Seq(CellSet) /\ SubSeq(row, 1, n + 1) = Append(t, row[n + 1]) /\ row[n + 1] \in CellSet
    BY <1>1, <2>1, PieceGrows
  <2> HIDE DEF t
  <2>3. Loop(LineSet, PutStep(w, h), <<<<>>>>, t) \in LineSet
        /\ Loop(LineSet, PutStep(w, h), <<<<>>>>, Append(t, row[n + 1]))
             = PutStep(w, h)[Loop(LineSet, PutStep(w, h), <<<<>>>>, t)][row[n + 1]]
    BY <1>5, <2>2 DEF LoopLaws
  <2>4. W(n) \in LineSet /\ W(n + 1) = PutStep(w, h)[W(n)][row[n + 1]]
    BY <2>2, <2>3 DEF t
  <2> HIDE DEF W
  <2>5. W(n + 1) = Put(W(n), row[n + 1], w, h)
    BY <2>2, <2>4 DEF PutStep
  <2>6. HasLayout(row, w, h, W(n), n)
    BY <1>7
  <2>7. HasLayout(row, w, h, Put(W(n), row[n + 1], w, h), n + 1)
    BY <1>4, <2>6, PutLaid
  <2> QED BY <2>1, <2>5, <2>7
<1>8. Len(row) \in S
  <2> HIDE DEF S
  <2>1. \A n \in 0..Len(row) : n \in S
    BY <1>2, <1>6, <1>7, Induct
  <2> QED BY <1>2, <2>1
<1> QED BY <1>3, <1>8 DEF h

\* A cell is known by the column it had before wrapping.
LEMMA CellsDiffer ==
  ASSUME NEW row, NEW h, IsRow(row, h), NEW i \in 1..Len(row), NEW j \in 1..Len(row)
  PROVE  row[i].flat >= 0 /\ (i < j => row[i].flat < row[j].flat) /\ (row[i] = row[j] => i = j)
<1>1. row \in Seq(CellSet) /\ \A k \in 1..Len(row) : row[k].flat = UsedUpto(row, k - 1)
  BY DEF IsRow
<1>9. \A k \in 1..Len(row) : row[k].width > 0
  <2>1. \A k \in 1..Len(row) : row[k].width \in 1..2
    BY DEF IsRow
  <2> QED BY <2>1
<1>2. Len(row) \in Nat
  BY <1>1
<1>3. ASSUME NEW k \in 1..Len(row) PROVE row[k].flat \in Nat
  <2>1. k - 1 \in 0..Len(row)
    BY <1>2
  <2> QED BY <1>1, <2>1, UsedUptoIs
<1>4. ASSUME NEW k \in 1..Len(row), NEW l \in 1..Len(row), k < l PROVE row[k].flat < row[l].flat
  <2>1. k - 1 \in 0..Len(row) /\ l - 1 \in (k - 1)..Len(row) /\ (l - 1) - (k - 1) >= 1
    BY <1>2, <1>4
  <2>2. \A p \in ((k - 1) + 1)..(l - 1) : row[p].width > 0
    <3>1. \A p \in ((k - 1) + 1)..(l - 1) : p \in 1..Len(row)
      BY <1>2
    <3> QED BY <1>9, <3>1
  <2>3. UsedUpto(row, k - 1) + ((l - 1) - (k - 1)) <= UsedUpto(row, l - 1)
    BY <1>1, <2>1, <2>2, UsedGrows
  <2> DEFINE x == UsedUpto(row, k - 1)
             y == UsedUpto(row, l - 1)
             d == (l - 1) - (k - 1)
  <2>4. x = row[k].flat /\ y = row[l].flat /\ x + d <= y /\ x \in Nat /\ y \in Nat /\ d >= 1 /\ d \in Int
    BY <1>1, <1>3, <2>1, <2>3
  <2> HIDE DEF x, y, d
  <2>5. x < y
    BY <2>4
  <2> QED BY <2>4, <2>5
<1>5. row[i].flat \in Nat /\ row[j].flat \in Nat /\ i \in Int /\ j \in Int
      /\ (i < j => row[i].flat < row[j].flat) /\ (j < i => row[j].flat < row[i].flat)
  BY <1>3, <1>4
<1> DEFINE x == row[i].flat
           y == row[j].flat
<1>6. row[i] = row[j] => x = y
  OBVIOUS
<1>7. x \in Nat /\ y \in Nat /\ (i < j => x < y) /\ (j < i => y < x)
  BY <1>5
<1> HIDE DEF x, y
<1>8. x >= 0 /\ (i < j => x < y) /\ (x = y => i = j)
  BY <1>5, <1>7
<1> QED BY <1>6, <1>8 DEF x, y

\* What is on a line is the part of the row that is laid on it.
LEMMA PlacesAre ==
  ASSUME NEW row, NEW h \in Nat, IsRow(row, h), NEW r \in Nat, NEW a \in Nat, NEW b \in Nat,
         1 <= a, a <= b + 1, b <= Len(row)
  PROVE  PlacesOn(Line(row, h, r, a, b), row) = a..b
<1> DEFINE l == Left(r, h)
           s == Line(row, h, r, a, b)
           blank == [char |-> " ", width |-> 1, link |-> 0, flat |-> -1]
<1>1. row \in Seq(CellSet)
  BY DEF IsRow
<1>2. DOMAIN row = 1..Len(row) /\ Len(row) \in Nat
  BY <1>1
<1>3. LineLaws(row, h, r, a, b)
  BY <1>1, LineIs
<1>4. l \in Nat
  BY DEF Left
<1>5. /\ s \in Seq(CellSet) /\ Len(s) = l + b - a + 1
      /\ (\A i \in 1..l : s[i] = blank)
      /\ \A i \in (l + 1)..(l + b - a + 1) : s[i] = row[a + i - l - 1]
  BY <1>3 DEF LineLaws
<1>7. blank.flat = -1
  OBVIOUS
<1> HIDE DEF l, s, blank
<1>6. DOMAIN s = 1..(l + b - a + 1)
  <2>1. DOMAIN s = 1..Len(s)
    BY <1>5
  <2> QED BY <1>5, <2>1, Zenon
<1>8. ASSUME NEW k \in 1..Len(row), NEW i \in 1..(l + b - a + 1), row[k] = s[i] PROVE k \in a..b
  <2>1. CASE i <= l
    <3>1. i \in 1..l
      BY <1>4, <2>1
    <3>2. row[k].flat = -1
      BY <1>5, <1>7, <1>8, <3>1
    <3>3. row[k].flat >= 0
      BY CellsDiffer
    <3> QED BY <3>2, <3>3
  <2>2. CASE i > l
    <3>1. i \in (l + 1)..(l + b - a + 1) /\ a + i - l - 1 \in a..b /\ a + i - l - 1 \in 1..Len(row)
      <4>1. i \in Int /\ l + 1 <= i /\ i <= l + b - a + 1
        BY <1>4, <2>2
      <4>2. a <= a + i - l - 1 /\ a + i - l - 1 <= b /\ a + i - l - 1 \in Int
        BY <1>4, <4>1
      <4> QED BY <1>2, <1>4, <4>1, <4>2
    <3>2. row[k] = row[a + i - l - 1]
      BY <1>5, <1>8, <3>1
    <3>3. k = a + i - l - 1
      BY <3>1, <3>2, CellsDiffer
    <3> QED BY <3>1, <3>3
  <2>3. i <= l \/ i > l
    BY <1>4
  <2> QED BY <2>1, <2>2, <2>3
<1>9. ASSUME NEW k \in a..b PROVE k \in 1..Len(row) /\ \E i \in 1..(l + b - a + 1) : row[k] = s[i]
  <2>1. l + k - a + 1 \in (l + 1)..(l + b - a + 1) /\ a + (l + k - a + 1) - l - 1 = k /\ k \in 1..Len(row)
        /\ l + k - a + 1 \in 1..(l + b - a + 1)
    <3>1. k \in Int /\ a <= k /\ k <= b
      OBVIOUS
    <3>2. l + 1 <= l + k - a + 1 /\ l + k - a + 1 <= l + b - a + 1 /\ l + k - a + 1 \in Int
      BY <1>4, <3>1
    <3>3. a + (l + k - a + 1) - l - 1 = k
      BY <1>4, <3>1
    <3> QED BY <1>2, <1>4, <3>1, <3>2, <3>3
  <2> DEFINE i == l + k - a + 1
  <2>2. i \in (l + 1)..(l + b - a + 1) /\ a + i - l - 1 = k /\ i \in 1..(l + b - a + 1)
    BY <2>1
  <2> HIDE DEF i
  <2>3. s[i] = row[a + i - l - 1]
    BY <1>5, <2>2
  <2>4. row[k] = s[i]
    BY <2>2, <2>3
  <2> QED BY <2>1, <2>2, <2>4
<1>10. PlacesOn(s, row) = {k \in 1..Len(row) : \E i \in 1..(l + b - a + 1) : row[k] = s[i]}
  BY <1>2, <1>6 DEF PlacesOn, Range
<1>11. PlacesOn(s, row) = a..b
  BY <1>8, <1>9, <1>10
<1> QED BY <1>11 DEF s

LEMMA PartIs ==
  ASSUME NEW row \in Seq(CellSet), NEW a \in Nat, NEW b \in Nat, 1 <= a, a <= b + 1, b <= Len(row)
  PROVE  Part(row, a..b) = SubSeq(row, a, b)
<1>1. CASE a = b + 1
  <2>1. a..b = {}
    BY <1>1
  <2>2. SubSeq(row, a, b) = <<>>
    BY <1>1
  <2> QED BY <2>1, <2>2 DEF Part
<1>2. CASE a <= b
  <2> DEFINE S == a..b
  <2>1. S \in SUBSET Int /\ S # {} /\ (\A x \in S : a <= x) /\ (\A x \in S : x <= b) /\ a \in S /\ b \in S
        /\ a \in Int /\ b \in Int
    BY <1>2
  <2> HIDE DEF S
  <2>2. Min(S) \in S /\ \A x \in S : Min(S) <= x
    BY <2>1, MinOf
  <2>3. Max(S) \in S /\ \A x \in S : x <= Max(S)
    BY <2>1, MaxOf
  <2> DEFINE lo == Min(S)
             hi == Max(S)
  <2>6. lo \in S /\ hi \in S /\ lo <= a /\ b <= hi
    BY <2>1, <2>2, <2>3
  <2> HIDE DEF lo, hi
  <2>7. lo \in Int /\ hi \in Int /\ a <= lo /\ hi <= b
    BY <2>1, <2>6
  <2>8. lo = a /\ hi = b
    BY <2>6, <2>7
  <2>4. Min(S) = a /\ Max(S) = b
    BY <2>8 DEF lo, hi
  <2>5. Part(row, S) = SubSeq(row, a, b)
    BY <2>1, <2>4 DEF Part
  <2> QED BY <2>5 DEF S
<1> QED BY <1>1, <1>2

\* What has a layout keeps its text.
LEMMA LaidKeepsText ==
  ASSUME NEW row, NEW h \in Nat, IsRow(row, h), NEW w \in Nat, NEW lines, NEW from, NEW to,
         Laid(row, w, h, lines, Len(row), from, to)
  PROVE  KeepsText(row, lines, w, h)
<1> DEFINE last == Len(lines)
           on == [r \in DOMAIN lines |-> PlacesOn(lines[r], row)]
<1>1. row \in Seq(CellSet)
  BY DEF IsRow
<1>2. DOMAIN row = 1..Len(row) /\ Len(row) \in Nat
  BY <1>1
<1>3. lines \in Seq(Seq(CellSet)) /\ last \in Nat /\ last >= 1
      /\ from \in [1..last -> Nat] /\ to \in [1..last -> Nat] /\ from[1] = 1 /\ to[last] = Len(row)
  BY DEF Laid
<1>4. DOMAIN lines = 1..last
  BY <1>3
<1>5. ASSUME NEW r \in 1..last
      PROVE  /\ r \in Nat /\ from[r] \in Nat /\ to[r] \in Nat
             /\ 1 <= from[r] /\ from[r] <= to[r] + 1 /\ to[r] <= Len(row)
  <2>1. 1 <= from[r] /\ from[r] <= to[r] + 1 /\ to[r] <= Len(row)
    BY DEF Laid
  <2>2. r \in Nat /\ from[r] \in Nat /\ to[r] \in Nat
    <3> HIDE DEF last
    <3> QED BY <1>3
  <2> QED BY <2>1, <2>2
<1>6. \A r \in 1..last : lines[r] = Line(row, h, r, from[r], to[r]) /\ Used(lines[r]) <= w
  BY DEF Laid
<1>7. \A r \in 1..(last - 1) : from[r] <= to[r] /\ Turns(row, w, h, to[r], from[r + 1])
  BY DEF Laid
<1> HIDE DEF last
<1>8. ASSUME NEW r \in 1..last PROVE on[r] = from[r]..to[r]
  <2>1. PlacesOn(Line(row, h, r, from[r], to[r]), row) = from[r]..to[r]
    BY <1>5, PlacesAre
  <2> QED BY <1>4, <1>6, <2>1
<1>9. DOMAIN on = 1..last
  BY <1>4
<1> HIDE DEF on
<1>10. ASSUME NEW r \in 1..(last - 1)
       PROVE  /\ r \in 1..last /\ r + 1 \in 1..last /\ from[r] <= to[r]
              /\ to[r] < from[r + 1]
              /\ \/ from[r + 1] = to[r] + 1 /\ (InWord(row, to[r]) /\ InWord(row, to[r] + 1)
                                                => 1 + WordWidth(row, to[r]) > w - h)
                 \/ from[r + 1] = to[r] + 2 /\ ~InWord(row, to[r] + 1)
  <2>1. r \in 1..last /\ r + 1 \in 1..last
    BY <1>3
  <2>2. from[r] <= to[r] /\ Turns(row, w, h, to[r], from[r + 1])
    BY <1>7
  <2>3. \/ from[r + 1] = to[r] + 1 /\ (InWord(row, to[r]) /\ InWord(row, to[r] + 1)
                                                => 1 + WordWidth(row, to[r]) > w - h)
        \/ from[r + 1] = to[r] + 2 /\ ~InWord(row, to[r] + 1)
    BY <2>2 DEF Turns, InWord
  <2>4. to[r] \in Nat
    BY <1>5, <2>1
  <2>5. to[r] < from[r + 1]
    BY <2>3, <2>4
  <2> QED BY <2>1, <2>2, <2>3, <2>5
<1>11. ASSUME NEW r \in 1..last
       PROVE  /\ lines[r] = (IF r = 1 THEN <<>> ELSE Indentation(h)) \o Part(row, on[r])
              /\ Used(lines[r]) <= w
  <2>1. Part(row, on[r]) = SubSeq(row, from[r], to[r])
    BY <1>1, <1>5, <1>8, PartIs
  <2> QED BY <1>6, <2>1 DEF Line
<1>12. ASSUME NEW r \in 1..last, r < last
       PROVE  on[r] # {} /\ \A k \in on[r] : \A l \in on[r + 1] : k < l
  <2>1. r \in 1..(last - 1)
    BY <1>3, <1>12
  <2>2. r + 1 \in 1..last /\ from[r] <= to[r] /\ to[r] < from[r + 1]
    BY <1>10, <2>1
  <2>3. on[r] = from[r]..to[r] /\ on[r + 1] = from[r + 1]..to[r + 1]
    BY <1>8, <2>2
  <2>4. from[r] \in Nat /\ to[r] \in Nat /\ from[r + 1] \in Nat /\ to[r + 1] \in Nat
    BY <1>5, <2>2
  <2> QED BY <2>2, <2>3, <2>4
<1>13. ASSUME NEW r \in 1..last, NEW k \in on[r], k < Len(row), k + 1 \notin on[r], InWord(row, k), InWord(row, k + 1)
       PROVE  1 + WordWidth(row, k) > w - h
  <2>1. from[r] \in Nat /\ to[r] \in Nat /\ k \in from[r]..to[r] /\ k + 1 \notin from[r]..to[r]
    BY <1>5, <1>8, <1>13
  <2>2. k = to[r]
    BY <2>1
  <2>3. r # last
    BY <1>2, <1>3, <1>13, <2>2
  <2>4. r \in 1..(last - 1)
    BY <1>3, <2>3
  <2> QED BY <1>10, <1>13, <2>2, <2>4
<1>14. ASSUME NEW k \in 1..Len(row), \A r \in 1..last : k \notin on[r]
       PROVE  row[k].char = " " /\ \E r \in 1..(last - 1) : k - 1 \in on[r]
  <2> DEFINE S == {r \in 1..last : from[r] <= k}
  <2>1. 1 \in S
    BY <1>3
  <2>2. S \in SUBSET Int /\ \A x \in S : x <= last
    BY <1>3
  <2>3. Max(S) \in S /\ \A x \in S : x <= Max(S)
    <3> HIDE DEF S
    <3>1. S # {} /\ last \in Int
      BY <1>3, <2>1
    <3> QED BY <2>2, <3>1, MaxOf
  <2> DEFINE r == Max(S)
  <2>4. r \in 1..last /\ from[r] <= k /\ \A x \in 1..last : from[x] <= k => x <= r
    BY <2>3
  <2> HIDE DEF r, S
  <2>5. from[r] \in Nat /\ to[r] \in Nat /\ k \notin from[r]..to[r]
    BY <1>5, <1>8, <1>14, <2>4
  <2>6. to[r] < k
    BY <2>4, <2>5
  <2>7. r # last
    BY <1>2, <1>3, <2>6
  <2>8. r \in 1..(last - 1)
    BY <1>3, <2>4, <2>7
  <2>9. /\ r + 1 \in 1..last /\ from[r] <= to[r] /\ to[r] < from[r + 1]
        /\ \/ from[r + 1] = to[r] + 1
           \/ from[r + 1] = to[r] + 2 /\ ~InWord(row, to[r] + 1)
    BY <1>10, <2>8
  <2>10. ~(from[r + 1] <= k)
    <3>1. ~(r + 1 <= r)
      BY <2>8
    <3> QED BY <2>4, <2>9, <3>1
  <2>11. from[r + 1] \in Nat
    BY <1>5, <2>9
  <2>12. k = to[r] + 1 /\ from[r + 1] = to[r] + 2
    BY <2>5, <2>6, <2>9, <2>10, <2>11
  <2>13. ~InWord(row, k)
    <3>1. from[r + 1] # to[r] + 1
      BY <2>5, <2>12
    <3> QED BY <2>9, <2>12, <3>1
  <2>14. k - 1 \in from[r]..to[r]
    BY <2>5, <2>9, <2>12
  <2>15. k - 1 \in on[r]
    BY <1>8, <2>4, <2>14
  <2> QED BY <2>8, <2>13, <2>15 DEF InWord
<1>15. 1..Len(row) = DOMAIN row /\ 1..last = DOMAIN lines /\ Len(lines) = last
  BY <1>2, <1>4 DEF last
<1> QED BY <1>11, <1>12, <1>13, <1>14, <1>15, Zenon DEF KeepsText, on

\* The columns that cells had before wrapping are in the order of the cells.
LEMMA FlatOrder ==
  ASSUME NEW row, NEW h, IsRow(row, h), NEW i \in 1..Len(row), NEW j \in 1..Len(row), NEW k \in 1..Len(row)
  PROVE  /\ row[i].flat \in Nat /\ row[k].flat \in Nat /\ UsedUpto(row, j) \in Nat
         /\ row[i].flat <= row[k].flat <=> i <= k
         /\ row[k].flat < UsedUpto(row, j) <=> k <= j
<1>1. row \in Seq(CellSet) /\ row[k].flat = UsedUpto(row, k - 1) /\ row[i].flat = UsedUpto(row, i - 1)
  BY DEF IsRow
<1>2. row[k].width > 0
  <2>1. row[k].width \in 1..2
    BY DEF IsRow
  <2> QED BY <2>1
<1>3. Len(row) \in Nat /\ i \in Int /\ j \in Int /\ k \in Int
  BY <1>1
<1>4. k - 1 \in 0..Len(row) /\ i - 1 \in 0..Len(row) /\ j \in 0..Len(row) /\ k \in 0..Len(row)
  BY <1>3
<1>5. UsedUpto(row, k - 1) \in Nat /\ UsedUpto(row, i - 1) \in Nat /\ UsedUpto(row, j) \in Nat /\ UsedUpto(row, k) \in Nat
      /\ UsedUpto(row, k) = UsedUpto(row, k - 1) + row[k].width /\ row[k].width \in Nat
  BY <1>1, <1>4, UsedUptoIs
<1> DEFINE x == row[i].flat
           y == row[k].flat
           z == UsedUpto(row, j)
           u == UsedUpto(row, k)
<1>6. x \in Nat /\ y \in Nat /\ z \in Nat /\ u \in Nat /\ y < u
  <2> DEFINE d == row[k].width
  <2>1. x \in Nat /\ y \in Nat /\ z \in Nat /\ u \in Nat /\ u = y + d /\ d \in Nat /\ d > 0
    BY <1>1, <1>2, <1>5
  <2> HIDE DEF x, y, z, u, d
  <2> QED BY <2>1
<1>7. (i < k => x < y) /\ (k < i => y < x) /\ (i = k => x = y)
  BY CellsDiffer
<1>8. k <= j => u <= z
  <2>1. k <= j => j \in k..Len(row)
    BY <1>3
  <2> QED BY <1>1, <1>4, <2>1, UsedGrows
<1>9. j < k => z <= y
  <2>1. j < k => k - 1 \in j..Len(row)
    BY <1>3
  <2>2. j < k => UsedUpto(row, j) <= UsedUpto(row, k - 1)
    BY <1>1, <1>4, <2>1, UsedGrows
  <2> QED BY <1>1, <2>2
<1> HIDE DEF x, y, z, u
<1>10. /\ x <= y <=> i <= k
       /\ y < z <=> k <= j
  BY <1>3, <1>6, <1>7, <1>8, <1>9
<1> QED BY <1>6, <1>10 DEF x, y, z

\* Which cells of a line are of the label from i to j, which had a column of the label, and
\* which had one before it.
LineCells(row, s, l, a, i, j) ==
    \A c \in 1..Len(s) :
        /\ s[c] \in {row[k] : k \in i..j} <=> c > l /\ a + c - l - 1 \in i..j
        /\ row[i].flat <= s[c].flat /\ s[c].flat < UsedUpto(row, j) <=> c > l /\ a + c - l - 1 \in i..j
        /\ -1 <= s[c].flat /\ s[c].flat < row[i].flat <=> c <= l \/ a + c - l - 1 < i
        /\ s[c].width > 0

LEMMA LineCellsAre ==
  ASSUME NEW row, NEW h \in Nat, IsRow(row, h), NEW r \in Nat, NEW a \in Nat, NEW b \in Nat,
         1 <= a, a <= b + 1, b <= Len(row), NEW i \in 1..Len(row), NEW j \in 1..Len(row),
         NEW s, s = Line(row, h, r, a, b), NEW l, l = Left(r, h)
  PROVE  /\ s \in Seq(CellSet) /\ l \in Nat /\ Len(s) = l + b - a + 1
         /\ LineCells(row, s, l, a, i, j)
<1>1. row \in Seq(CellSet)
  BY DEF IsRow
<1>2. Len(row) \in Nat
  BY <1>1
<1> DEFINE blank == [char |-> " ", width |-> 1, link |-> 0, flat |-> -1]
<1>3. LineLaws(row, h, r, a, b)
  BY <1>1, LineIs
<1>4. /\ s \in Seq(CellSet) /\ Len(s) = l + b - a + 1
      /\ (\A c \in 1..l : s[c] = blank)
      /\ \A c \in (l + 1)..(l + b - a + 1) : s[c] = row[a + c - l - 1]
  BY <1>3 DEF LineLaws
<1>5. l \in Nat
  BY DEF Left
<1>6. blank.flat = -1 /\ blank.width = 1
  OBVIOUS
<1> HIDE DEF blank
<1>7. row[i].flat \in Nat
  BY FlatOrder
<1>8. ASSUME NEW c \in 1..Len(s), c <= l
      PROVE  /\ s[c] \notin {row[k] : k \in i..j}
             /\ ~(row[i].flat <= s[c].flat)
             /\ -1 <= s[c].flat /\ s[c].flat < row[i].flat
             /\ s[c].width > 0
  <2>1. c \in 1..l
    BY <1>5, <1>8
  <2>2. s[c].flat = -1 /\ s[c].width = 1
    BY <1>4, <1>6, <2>1
  <2>3. ASSUME NEW k \in i..j, s[c] = row[k] PROVE FALSE
    <3>1. k \in 1..Len(row)
      BY <1>2
    <3>2. row[k].flat >= 0
      BY <3>1, CellsDiffer
    <3> QED BY <2>2, <2>3, <3>2
  <2> DEFINE x == s[c].flat
             y == row[i].flat
  <2>4. x = -1 /\ y \in Nat
    BY <1>7, <2>2
  <2> HIDE DEF x, y
  <2>5. ~(y <= x) /\ -1 <= x /\ x < y
    BY <2>4
  <2>6. s[c].width > 0
    BY <2>2
  <2> QED BY <2>3, <2>5, <2>6 DEF x, y
<1>9. ASSUME NEW c \in 1..Len(s), c > l
      PROVE  LET k == a + c - l - 1
             IN  /\ k \in 1..Len(row)
                 /\ s[c] \in {row[m] : m \in i..j} <=> k \in i..j
                 /\ row[i].flat <= s[c].flat /\ s[c].flat < UsedUpto(row, j) <=> k \in i..j
                 /\ -1 <= s[c].flat /\ s[c].flat < row[i].flat <=> k < i
                 /\ s[c].width > 0
  <2> DEFINE k == a + c - l - 1
  <2>1. c \in (l + 1)..(l + b - a + 1) /\ k \in 1..Len(row)
    <3>1. c \in Int /\ l + 1 <= c /\ c <= l + b - a + 1
      BY <1>4, <1>5, <1>9
    <3>2. k \in Int /\ a <= k /\ k <= b
      BY <1>5, <3>1, SMTT(30)
    <3>3. c \in (l + 1)..(l + b - a + 1)
      BY <1>5, <3>1
    <3> HIDE DEF k
    <3>4. k \in 1..Len(row)
      BY <1>2, <3>2
    <3> QED BY <3>3, <3>4
  <2>2. s[c] = row[k]
    BY <1>4, <2>1
  <2> HIDE DEF k
  <2>3. s[c] \in {row[m] : m \in i..j} <=> k \in i..j
    <3>1. ASSUME NEW m \in i..j, s[c] = row[m] PROVE k = m
      <4>1. m \in 1..Len(row)
        BY <1>2
      <4> QED BY <2>1, <2>2, <3>1, <4>1, CellsDiffer
    <3> QED BY <2>2, <3>1
  <2> DEFINE x == row[i].flat
             y == row[k].flat
             z == UsedUpto(row, j)
  <2>4. /\ x \in Nat /\ y \in Nat /\ z \in Nat
        /\ x <= y <=> i <= k
        /\ y < z <=> k <= j
    BY <2>1, FlatOrder
  <2> HIDE DEF x, y, z
  <2>5. k \in Int /\ i \in Int /\ j \in Int
    BY <2>1
  <2>6. /\ x <= y /\ y < z <=> k \in i..j
        /\ -1 <= y /\ y < x <=> k < i
    BY <2>4, <2>5
  <2>7. row[k].width > 0
    <3>1. row[k].width \in 1..2
      BY <2>1 DEF IsRow
    <3> QED BY <3>1
  <2> QED BY <2>1, <2>2, <2>3, <2>6, <2>7 DEF x, y, z, k
<1>10. ASSUME NEW c \in 1..Len(s)
       PROVE  /\ s[c] \in {row[k] : k \in i..j} <=> c > l /\ a + c - l - 1 \in i..j
              /\ row[i].flat <= s[c].flat /\ s[c].flat < UsedUpto(row, j) <=> c > l /\ a + c - l - 1 \in i..j
              /\ -1 <= s[c].flat /\ s[c].flat < row[i].flat <=> c <= l \/ a + c - l - 1 < i
              /\ s[c].width > 0
  <2>1. c <= l <=> ~(c > l)
    BY <1>4, <1>5
  <2>2. CASE c <= l
    BY <1>8, <2>1, <2>2
  <2>3. CASE c > l
    BY <1>9, <2>1, <2>3
  <2> QED BY <2>1, <2>2, <2>3
<1> QED BY <1>4, <1>5, <1>10 DEF LineCells

\* The cells of the label on a line are consecutive: those after the first p up to the q-th.
Consecutive(row, s, i, j, p, q) ==
    /\ p \in 0..Len(s) /\ q \in p..Len(s)
    /\ \A c \in 1..Len(s) :
          /\ s[c] \in {row[k] : k \in i..j} <=> c \in (p + 1)..q
          /\ row[i].flat <= s[c].flat /\ s[c].flat < UsedUpto(row, j) <=> c \in (p + 1)..q
          /\ p < q => (-1 <= s[c].flat /\ s[c].flat < row[i].flat <=> c \in (0 + 1)..p)
          /\ s[c].width > 0

LEMMA LabelOnLine ==
  ASSUME NEW row, NEW h \in Nat, IsRow(row, h), NEW r \in Nat, NEW a \in Nat, NEW b \in Nat,
         1 <= a, a <= b + 1, b <= Len(row), NEW i \in 1..Len(row), NEW j \in 1..Len(row),
         NEW s, s = Line(row, h, r, a, b)
  PROVE  s \in Seq(CellSet) /\ \E p, q : Consecutive(row, s, i, j, p, q)
<1> DEFINE l == Left(r, h)
           lo == IF i >= a THEN i ELSE a
           hi == IF j <= b THEN j ELSE b
           p == IF lo <= hi THEN l + lo - a ELSE 0
           q == IF lo <= hi THEN l + hi - a + 1 ELSE 0
           n == Len(s)
<1>1. s \in Seq(CellSet) /\ l \in Nat /\ n = l + b - a + 1 /\ LineCells(row, s, l, a, i, j)
  BY LineCellsAre
<1> HIDE DEF l, n
<1>2. i \in Int /\ j \in Int /\ i >= 1 /\ j >= 1
  OBVIOUS
<1>3. lo \in Int /\ lo >= i /\ lo >= a /\ (lo = i \/ lo = a) /\ hi \in Int /\ hi <= j /\ hi <= b /\ (hi = j \/ hi = b)
  BY <1>2
<1>4. p \in 0..n /\ q \in p..n
  <2> HIDE DEF lo, hi
  <2>1. CASE lo <= hi
    <3>1. p = l + lo - a /\ q = l + hi - a + 1
      BY <2>1
    <3> HIDE DEF p, q
    <3> QED BY <1>1, <1>3, <2>1, <3>1
  <2>2. CASE ~(lo <= hi)
    <3>1. p = 0 /\ q = 0
      BY <2>2
    <3> HIDE DEF p, q
    <3> QED BY <1>1, <3>1
  <2> QED BY <2>1, <2>2
<1>5. ASSUME NEW c \in 1..n
      PROVE  /\ c > l /\ a + c - l - 1 \in i..j <=> c \in (p + 1)..q
             /\ p < q => (c <= l \/ a + c - l - 1 < i <=> c \in (0 + 1)..p)
  <2>1. c \in Int /\ 1 <= c /\ c <= l + b - a + 1
    BY <1>1
  <2> HIDE DEF n
  <2> DEFINE k == a + c - l - 1
  <2>2. k \in Int /\ k <= b /\ c = l + k - a + 1 /\ (c > l <=> k >= a)
    BY <1>1, <2>1
  <2> HIDE DEF k
  <2>3. c > l /\ k \in i..j <=> lo <= k /\ k <= hi
    BY <1>2, <1>3, <2>2
  <2>4. CASE lo <= hi
    <3>1. p = l + lo - a /\ q = l + hi - a + 1
      BY <2>4
    <3> HIDE DEF p, q
    <3>2. lo <= k /\ k <= hi <=> c \in (p + 1)..q
      <4> HIDE DEF lo, hi
      <4>1. lo <= k <=> p + 1 <= c
        BY <1>1, <1>3, <2>2, <3>1
      <4>2. k <= hi <=> c <= q
        BY <1>1, <1>3, <2>2, <3>1
      <4>3. p \in Int /\ q \in Int
        BY <1>1, <1>3, <3>1
      <4> QED BY <2>1, <4>1, <4>2, <4>3
    <3>3. c <= l \/ k < i <=> c \in (0 + 1)..p
      <4>1. CASE i >= a
        <5>1. lo = i
          BY <4>1
        <5> HIDE DEF lo
        <5>2. c <= l \/ k < i <=> k < i
          BY <1>1, <1>2, <2>1, <2>2, <4>1
        <5>3. k < i <=> c <= p
          BY <1>1, <1>2, <2>2, <3>1, <5>1
        <5>4. p \in Int
          BY <1>1, <1>3, <3>1
        <5> QED BY <2>1, <5>2, <5>3, <5>4
      <4>2. CASE ~(i >= a)
        <5>1. lo = a
          BY <4>2
        <5> HIDE DEF lo
        <5>2. p = l
          BY <1>1, <3>1, <5>1
        <5>3. k < i => c <= l
          BY <1>1, <1>2, <2>1, <2>2, <4>2
        <5> QED BY <1>1, <2>1, <5>2, <5>3
      <4> QED BY <4>1, <4>2
    <3> QED BY <2>3, <3>2, <3>3 DEF k
  <2>5. CASE ~(lo <= hi)
    <3>1. p = 0 /\ q = 0
      BY <2>5
    <3> HIDE DEF p, q
    <3>2. c \notin (p + 1)..q /\ ~(p < q)
      BY <3>1
    <3>3. ~(lo <= k /\ k <= hi)
      <4> HIDE DEF lo, hi
      <4> QED BY <1>3, <2>2, <2>5
    <3> QED BY <2>3, <3>2, <3>3 DEF k
  <2> QED BY <2>4, <2>5
<1> HIDE DEF p, q
<1>6. Consecutive(row, s, i, j, p, q)
  <2>1. \A c \in 1..n :
          /\ s[c] \in {row[k] : k \in i..j} <=> c \in (p + 1)..q
          /\ row[i].flat <= s[c].flat /\ s[c].flat < UsedUpto(row, j) <=> c \in (p + 1)..q
          /\ p < q => (-1 <= s[c].flat /\ s[c].flat < row[i].flat <=> c \in (0 + 1)..p)
          /\ s[c].width > 0
    <3> SUFFICES ASSUME NEW c \in 1..n
                 PROVE  /\ s[c] \in {row[k] : k \in i..j} <=> c \in (p + 1)..q
                        /\ row[i].flat <= s[c].flat /\ s[c].flat < UsedUpto(row, j) <=> c \in (p + 1)..q
                        /\ p < q => (-1 <= s[c].flat /\ s[c].flat < row[i].flat <=> c \in (0 + 1)..p)
                        /\ s[c].width > 0
      OBVIOUS
    <3>1. /\ s[c] \in {row[k] : k \in i..j} <=> c > l /\ a + c - l - 1 \in i..j
          /\ row[i].flat <= s[c].flat /\ s[c].flat < UsedUpto(row, j) <=> c > l /\ a + c - l - 1 \in i..j
          /\ -1 <= s[c].flat /\ s[c].flat < row[i].flat <=> c <= l \/ a + c - l - 1 < i
          /\ s[c].width > 0
      BY <1>1, Zenon DEF LineCells, n
    <3>2. /\ c > l /\ a + c - l - 1 \in i..j <=> c \in (p + 1)..q
          /\ p < q => (c <= l \/ a + c - l - 1 < i <=> c \in (0 + 1)..p)
      BY <1>5
    <3> QED BY <3>1, <3>2, Zenon
  <2> QED BY <1>4, <2>1, Zenon DEF Consecutive, n
<1> QED BY <1>1, <1>6

\* What a layout has of a label is where its hits are.
LEMMA LaidHits ==
  ASSUME NEW row, NEW h \in Nat, IsRow(row, h), NEW w, NEW lines, NEW n, NEW from, NEW to,
         Laid(row, w, h, lines, n, from, to),
         NEW i \in 1..Len(row), NEW j \in 1..Len(row), i <= j
  PROVE  HitsAre(row, lines, i, j)
<1> DEFINE cells == {row[k] : k \in i..j}
           columns == Used(SubSeq(row, i, j))
           col == row[i].flat
           hits == HitsOf(lines, col, columns)
           column(r, k) == Used(SubSeq(lines[r], 1, k - 1))
<1>1. row \in Seq(CellSet) /\ Len(row) \in Nat
  <2>1. row \in Seq(CellSet)
    BY DEF IsRow
  <2> QED BY <2>1
<1>2. lines \in Seq(Seq(CellSet)) /\ Len(lines) \in Nat
      /\ from \in [1..Len(lines) -> Nat] /\ to \in [1..Len(lines) -> Nat]
  <2>1. lines \in Seq(Seq(CellSet)) /\ from \in [1..Len(lines) -> Nat] /\ to \in [1..Len(lines) -> Nat]
    BY DEF Laid
  <2> DEFINE A == Seq(CellSet)
  <2>2. lines \in Seq(A)
    BY <2>1
  <2> HIDE DEF A
  <2> QED BY <2>1, <2>2
<1>3. DOMAIN lines = 1..Len(lines)
  <2> DEFINE A == Seq(CellSet)
  <2>1. lines \in Seq(A)
    BY <1>2
  <2> HIDE DEF A
  <2> QED BY <2>1
<1>4. col + columns = UsedUpto(row, j) /\ col \in Nat
  <2>1. i - 1 \in 0..Len(row) /\ j \in (i - 1)..Len(row) /\ (i - 1) + 1 = i /\ j \in 0..Len(row)
    BY <1>1
  <2>2. Used(SubSeq(row, (i - 1) + 1, j)) = UsedUpto(row, j) - UsedUpto(row, i - 1)
    BY <1>1, <2>1, UsedBetween
  <2>3. UsedUpto(row, j) \in Nat /\ UsedUpto(row, i - 1) \in Nat
    BY <1>1, <2>1, UsedUptoIs
  <2>4. col = UsedUpto(row, i - 1)
    BY DEF IsRow
  <2> DEFINE x == UsedUpto(row, i - 1)
             y == UsedUpto(row, j)
  <2>5. columns = y - x /\ col = x /\ x \in Nat /\ y \in Nat
    BY <2>1, <2>2, <2>3, <2>4
  <2> HIDE DEF x, y, col, columns
  <2>6. col + columns = y /\ col \in Nat
    BY <2>5
  <2> QED BY <2>6 DEF y
<1> DEFINE end == UsedUpto(row, j)
           hit(r) == <<r, Taken(lines[r], -1, col), Taken(lines[r], col, end)>>
<1>5. hits = {hit(r) : r \in {k \in 1..Len(lines) : Taken(lines[k], col, end) > 0}}
  <2> HIDE DEF col, columns, end
  <2>1. col + columns = end
    BY <1>4 DEF end
  <2> QED BY <1>3, <2>1 DEF HitsOf, StartOf, col, hits
<1>6. \A g \in hits : g[1] \in DOMAIN lines
  <2> HIDE DEF col, end, hits
  <2> QED BY <1>3, <1>5
<1>7. ASSUME NEW r \in DOMAIN lines
      PROVE  UNION {g[2]..(g[2] + g[3] - 1) : g \in {f \in hits : f[1] = r}}
               = UNION {column(r, k)..(column(r, k) + lines[r][k].width - 1) :
                          k \in {c \in DOMAIN lines[r] : lines[r][c] \in cells}}
  <2> DEFINE s == lines[r]
  <2>1. r \in 1..Len(lines) /\ r \in Nat
    BY <1>2, <1>3
  <2>2. from[r] \in Nat /\ to[r] \in Nat
    BY <1>2, <2>1
  <2>3. 1 <= from[r] /\ from[r] <= to[r] + 1 /\ to[r] <= Len(row) /\ s = Line(row, h, r, from[r], to[r])
    BY <2>1 DEF Laid
  <2>4. s \in Seq(CellSet) /\ \E p, q : Consecutive(row, s, i, j, p, q)
    BY <2>1, <2>2, <2>3, LabelOnLine
  <2>5. PICK p, q : Consecutive(row, s, i, j, p, q)
    BY <2>4
  <2> HIDE DEF s, col, end, hits, cells
  <2>6. p \in 0..Len(s) /\ q \in p..Len(s) /\ Len(s) \in Nat /\ p \in 0..q /\ 0 \in 0..Len(s) /\ p \in 0..Len(s)
    <3>1. p \in 0..Len(s) /\ q \in p..Len(s)
      BY <2>5 DEF Consecutive
    <3>2. Len(s) \in Nat
      BY <2>4
    <3> QED BY <3>1, <3>2
  <2>7. \A c \in 1..Len(s) : s[c] \in cells <=> c \in (p + 1)..q
    BY <2>5, Zenon DEF Consecutive, cells
  <2>8. \A c \in 1..Len(s) : col <= s[c].flat /\ s[c].flat < end <=> c \in (p + 1)..q
    BY <2>5, Zenon DEF Consecutive, col, end
  <2>9. p < q => \A c \in 1..Len(s) : -1 <= s[c].flat /\ s[c].flat < col <=> c \in (0 + 1)..p
    BY <2>5, Zenon DEF Consecutive, col
  <2>10. \A c \in 1..Len(s) : s[c].width > 0
    BY <2>5, Zenon DEF Consecutive
  <2>11. col \in Int /\ end \in Int
    <3>1. j \in 0..Len(row)
      BY <1>1
    <3>2. UsedUpto(row, j) \in Nat
      BY <1>1, <3>1, UsedUptoIs
    <3> QED BY <1>4, <3>2 DEF end
  <2>12. Taken(s, col, end) = UsedUpto(s, q) - UsedUpto(s, p)
    BY <2>4, <2>6, <2>8, <2>11, TakenPart
  <2>13. UsedUpto(s, q) \in Nat /\ UsedUpto(s, p) \in Nat /\ UsedUpto(s, 0) = 0
    <3>1. q \in 0..Len(s)
      BY <2>6
    <3> QED BY <2>4, <2>6, <3>1, UsedUptoIs
  <2>14. {c \in DOMAIN s : s[c] \in cells} = (p + 1)..q
    <3>1. DOMAIN s = 1..Len(s)
      BY <2>4
    <3>2. \A c \in (p + 1)..q : c \in 1..Len(s)
      BY <2>6
    <3> QED BY <2>7, <3>1, <3>2
  <2>15. UNION {column(r, k)..(column(r, k) + lines[r][k].width - 1) :
                          k \in {c \in DOMAIN lines[r] : lines[r][c] \in cells}}
           = UsedUpto(s, p)..(UsedUpto(s, q) - 1)
    <3>1. UNION {ColumnsAt(s, k) : k \in (p + 1)..q} = UsedUpto(s, p)..(UsedUpto(s, q) - 1)
      BY <2>4, <2>6, ColumnsPart
    <3>2. \A k : column(r, k)..(column(r, k) + lines[r][k].width - 1) = ColumnsAt(s, k)
      BY DEF ColumnsAt, UsedUpto, s
    <3>3. {column(r, k)..(column(r, k) + lines[r][k].width - 1) :
                          k \in {c \in DOMAIN lines[r] : lines[r][c] \in cells}}
            = {ColumnsAt(s, k) : k \in (p + 1)..q}
      <4>1. {c \in DOMAIN lines[r] : lines[r][c] \in cells} = (p + 1)..q
        BY <2>14 DEF s
      <4> HIDE DEF column
      <4> QED BY <3>2, <4>1, Zenon
    <3> QED BY <3>1, <3>3, Zenon
  <2> DEFINE from1 == UsedUpto(s, p)
             upto1 == UsedUpto(s, q)
  <2>16. CASE p < q
    <3>1. Taken(s, -1, col) = UsedUpto(s, p) - UsedUpto(s, 0)
      <4>1. -1 \in Int /\ p \in 0..Len(s) /\ 0 \in 0..Len(s)
        BY <2>6
      <4>2. \A c \in 1..Len(s) : -1 <= s[c].flat /\ s[c].flat < col <=> c \in (0 + 1)..p
        BY <2>9, <2>16
      <4> QED BY <2>4, <2>11, <4>1, <4>2, TakenPart
    <3>2. from1 < upto1
      <4>1. \A c \in (p + 1)..q : s[c].width > 0
        <5>1. \A c \in (p + 1)..q : c \in 1..Len(s)
          BY <2>6
        <5> QED BY <2>10, <5>1
      <4>2. from1 + (q - p) <= upto1
        BY <2>4, <2>6, <4>1, UsedGrows
      <4>3. from1 \in Nat /\ upto1 \in Nat /\ q - p >= 1 /\ q - p \in Int
        BY <2>6, <2>13, <2>16
      <4> DEFINE d == q - p
      <4> HIDE DEF from1, upto1, d
      <4>4. from1 + d <= upto1 /\ d >= 1 /\ d \in Int /\ from1 \in Nat /\ upto1 \in Nat
        BY <4>2, <4>3 DEF d
      <4> QED BY <4>4
    <3>3. Taken(s, -1, col) = from1 /\ Taken(s, col, end) = upto1 - from1 /\ from1 \in Nat /\ upto1 \in Nat
      BY <2>12, <2>13, <3>1
    <3> HIDE DEF from1, upto1
    <3>4. Taken(lines[r], col, end) > 0 /\ hit(r) = <<r, from1, upto1 - from1>>
      BY <3>2, <3>3 DEF s
    <3>5. {f \in hits : f[1] = r} = {hit(r)}
      <4>1. \A x : hit(x)[1] = x
        OBVIOUS
      <4>2. hit(r) \in hits
        BY <1>5, <2>1, <3>4
      <4> HIDE DEF hit
      <4> QED BY <1>5, <4>1, <4>2
    <3>6. hit(r)[2] = from1 /\ hit(r)[3] = upto1 - from1
      BY <3>4
    <3> HIDE DEF hit
    <3>7. UNION {g[2]..(g[2] + g[3] - 1) : g \in {hit(r)}} = hit(r)[2]..(hit(r)[2] + hit(r)[3] - 1)
      OBVIOUS
    <3>8. from1 + (upto1 - from1) - 1 = upto1 - 1
      BY <3>3
    <3>9. UNION {g[2]..(g[2] + g[3] - 1) : g \in {f \in hits : f[1] = r}} = from1..(upto1 - 1)
      BY <3>5, <3>6, <3>7, <3>8, Zenon
    <3> QED BY <2>15, <3>9, Zenon DEF from1, upto1
  <2>17. CASE ~(p < q)
    <3>1. p = q
      BY <2>6, <2>17
    <3>2. Taken(s, col, end) = 0
      <4>1. Taken(s, col, end) = upto1 - upto1 /\ upto1 \in Nat
        BY <2>12, <2>13, <3>1
      <4> QED BY <4>1
    <3>3. {f \in hits : f[1] = r} = {}
      <4>1. ASSUME NEW f \in hits, f[1] = r PROVE FALSE
        <5>1. PICK k \in 1..Len(lines) : Taken(lines[k], col, end) > 0 /\ f = hit(k)
          BY <1>5
        <5>2. f[1] = k
          BY <5>1
        <5>3. Taken(s, col, end) > 0
          BY <4>1, <5>1, <5>2 DEF s
        <5> HIDE DEF hit
        <5> QED BY <3>2, <5>3
      <4> QED BY <4>1
    <3>4. from1..(upto1 - 1) = {}
      <4>1. from1 \in Nat /\ upto1 = from1
        BY <2>13, <3>1
      <4> QED BY <4>1
    <3>5. UNION {g[2]..(g[2] + g[3] - 1) : g \in {f \in hits : f[1] = r}} = {}
      BY <3>3
    <3> QED BY <2>15, <3>4, <3>5, Zenon
  <2> QED BY <2>16, <2>17
<1> QED BY <1>6, <1>7, Zenon DEF HitsAre

\* The indentation of the row is narrow from the beginning, and stays it.
NarrowPrefix ==
    sample.kind = "row" => Prefix <= Len(text) /\ \A k \in 1..Prefix : WidthOf[text[k].char] = 1

LEMMA PrefixStays == Spec => []NarrowPrefix
<1>1. ASSUME Init PROVE NarrowPrefix
  <2>1. sample \in Samples /\ text = sample.start
    BY <1>1 DEF Init
  <2>2. sample.kind = "row" => Prefix <= Len(sample.start) /\ \A k \in 1..Prefix : WidthOf[sample.start[k].char] = 1
    BY <2>1, SampleAssumption
  <2> QED BY <2>1, <2>2 DEF NarrowPrefix
<1>2. ASSUME TextsTypeOK, NarrowPrefix, [Next]_vars PROVE NarrowPrefix'
  <2>1. CASE Dialog
    <3>1. sample.kind = "dialog" /\ sample' = sample
      BY <2>1 DEF Dialog
    <3>2. sample'.kind # "row"
      BY <3>1
    <3> QED BY <3>2 DEF NarrowPrefix
  <2>2. CASE Write
    <3> SUFFICES ASSUME sample'.kind = "row" PROVE NarrowPrefix'
      BY DEF NarrowPrefix
    <3>1. sample' = sample /\ sample.kind # "dialog"
      BY <2>2 DEF Write
    <3>2. text \in Seq(sample.chars)
      BY <1>2, <3>1 DEF TextsTypeOK
    <3>3. PICK c \in sample.chars : text' = Append(text, c)
      BY <2>2 DEF Write
    <3>4. Prefix <= Len(text) /\ \A k \in 1..Prefix : WidthOf[text[k].char] = 1
      BY <1>2, <3>1 DEF NarrowPrefix
    <3>5. Prefix \in Nat
      BY SampleAssumption
    <3> DEFINE A == sample.chars
    <3>6. text \in Seq(A) /\ c \in A
      BY <3>2
    <3> HIDE DEF A
    <3>7. Len(text) \in Nat /\ Len(text') = Len(text) + 1 /\ \A k \in 1..Len(text) : text'[k] = text[k]
      BY <3>3, <3>6, AppendIs
    <3>8. Prefix <= Len(text')
      BY <3>4, <3>5, <3>7
    <3>9. \A k \in 1..Prefix : text'[k] = text[k]
      <4>1. \A k \in 1..Prefix : k \in 1..Len(text)
        BY <3>4, <3>5, <3>7
      <4> QED BY <3>7, <4>1
    <3> QED BY <3>4, <3>8, <3>9 DEF NarrowPrefix
  <2>3. CASE Tick
    BY <1>2, <2>3 DEF Tick, input, NarrowPrefix
  <2>4. CASE UNCHANGED vars
    BY <1>2, <2>4 DEF vars, input, NarrowPrefix
  <2> QED BY <1>2, <2>1, <2>2, <2>3, <2>4 DEF Next
<1> QED BY <1>1, <1>2, TextsTyped, PTL DEF Spec

\* The row of the list is a row as wrap_spans wants it, in lists of three columns at least.
LEMMA CellsAre ==
  ASSUME TextsTypeOK, NarrowPrefix, sample.kind = "row", NEW w \in RowWidths
  PROVE  LET h == Hang(Prefix, w)
         IN  w \in Nat /\ h \in Nat /\ h + 2 <= w /\ IsRow(Cells, h)
<1> DEFINE h == Hang(Prefix, w)
           n == Len(text)
           chars == [i \in 1..n |-> text[i].char]
           row == Cells
<1>1. sample \in Samples /\ text \in Seq(sample.chars)
  BY DEF TextsTypeOK
<1>2. sample.chars \subseteq [char : Keyboard, link : {0, 1}]
      /\ \A c \in sample.chars : WidthOf[c.char] > 0 /\ (c.char = " " => WidthOf[c.char] = 1)
  BY <1>1, SampleAssumption
<1>3. RowWidths \in SUBSET (Nat \ 0..2) /\ Prefix \in Nat
  BY SampleAssumption
<1>4. w \in Nat /\ w >= 3
  BY <1>3
<1>5. h \in Nat /\ h <= Prefix /\ h + 2 <= w
  <2> DEFINE m == w \div 2
  <2>1. m \in Nat /\ m + 2 <= w
    BY <1>4
  <2> HIDE DEF m
  <2>2. Min({Prefix, m}) = IF Prefix <= m THEN Prefix ELSE m
    <3>1. Prefix \in Int /\ m \in Int
      BY <1>3, <2>1
    <3> QED BY <3>1, MinOfTwo
  <2>3. h = IF Prefix <= m THEN Prefix ELSE m
    BY <2>2 DEF Hang, m
  <2> HIDE DEF h
  <2> QED BY <1>3, <1>4, <2>1, <2>3
<1> DEFINE A == sample.chars
<1>6. n \in Nat /\ DOMAIN text = 1..n /\ \A k \in 1..n : text[k] \in A
  <2>1. text \in Seq(A)
    BY <1>1
  <2> HIDE DEF A
  <2> QED BY <2>1
<1>7. ASSUME NEW k \in 1..n
      PROVE  /\ text[k].char \in Keyboard /\ text[k].link \in {0, 1} /\ WidthOf[text[k].char] \in 0..2
             /\ WidthOf[text[k].char] > 0
  <2>1. text[k] \in A
    BY <1>6
  <2>2. text[k] \in [char : Keyboard, link : {0, 1}]
    BY <1>2, <2>1
  <2>3. text[k].char \in Keyboard /\ text[k].link \in {0, 1}
    BY <2>2
  <2>4. WidthOf[text[k].char] \in 0..2
    BY <2>3, InputAssumption
  <2>5. WidthOf[text[k].char] > 0
    BY <1>2, <2>1
  <2> QED BY <2>3, <2>4, <2>5
<1>8. ASSUME NEW k \in 1..n, text[k].char = " " PROVE WidthOf[text[k].char] = 1
  <2>1. text[k] \in A
    BY <1>6
  <2> QED BY <1>2, <1>8, <2>1
<1> HIDE DEF n, A
<1>9. chars \in Seq(Keyboard) /\ Len(chars) = n /\ \A k \in 1..n : chars[k] = text[k].char
  BY <1>6, <1>7
<1>10. ASSUME NEW k \in 1..n
       PROVE  Columns([i \in 1..(k - 1) |-> text[i].char]) = Upto(chars, k - 1) /\ Upto(chars, k - 1) \in Nat
  <2>1. SubSeq(chars, 1, k - 1) = [i \in 1..(k - 1) |-> text[i].char]
    <3> DEFINE m == k - 1
    <3>1. m \in Int /\ 1 \in Int /\ 1 <= 1 /\ 1 <= m + 1 /\ m <= n /\ m \in Nat
      BY <1>6
    <3>2. \A i \in 1..m : chars[i] = text[i].char
      <4>1. \A i \in 1..m : i \in 1..n
        BY <1>6, <3>1
      <4> QED BY <1>9, <4>1
    <3> HIDE DEF m, chars
    <3>3. SubSeq(chars, 1, m) = [i \in 1..m |-> chars[i]]
      BY <1>9, <3>1
    <3> QED BY <3>2, <3>3 DEF m
  <2>2. k - 1 \in 0..Len(chars)
    <3> HIDE DEF chars
    <3> QED BY <1>6, <1>9
  <2>3. Upto(chars, k - 1) \in Nat
    <3> HIDE DEF chars
    <3> QED BY <1>9, <2>2, UptoIs
  <2> QED BY <2>1, <2>3 DEF Upto
<1>11. row = [k \in 1..n |-> [char |-> text[k].char, width |-> WidthOf[text[k].char], link |-> text[k].link,
                              flat |-> Upto(chars, k - 1)]]
  <2> HIDE DEF chars
  <2> QED BY <1>6, <1>10, Zenon DEF Cells
<1> HIDE DEF chars, row
<1>12. ASSUME NEW k \in 1..n
       PROVE  [char |-> text[k].char, width |-> WidthOf[text[k].char], link |-> text[k].link,
               flat |-> Upto(chars, k - 1)] \in CellSet
  <2>1. text[k].char \in Keyboard /\ text[k].link \in {0, 1} /\ WidthOf[text[k].char] \in Nat /\ Upto(chars, k - 1) \in Int
    <3>1. WidthOf[text[k].char] \in 0..2 /\ Upto(chars, k - 1) \in Nat
      BY <1>7, <1>10
    <3> QED BY <1>7, <3>1
  <2> QED BY <2>1, Zenon DEF CellSet
<1>13. row \in Seq(CellSet) /\ Len(row) = n
  <2> DEFINE c(k) == [char |-> text[k].char, width |-> WidthOf[text[k].char], link |-> text[k].link,
                      flat |-> Upto(chars, k - 1)]
  <2>1. row = [k \in 1..n |-> c(k)] /\ \A k \in 1..n : c(k) \in CellSet
    BY <1>11, <1>12
  <2> HIDE DEF c
  <2> QED BY <1>6, <2>1
<1>14. ASSUME NEW k \in 1..n
       PROVE  row[k].char = text[k].char /\ row[k].width = WidthOf[text[k].char] /\ row[k].flat = Upto(chars, k - 1)
  BY <1>11
<1>15. ASSUME NEW k \in 1..n PROVE row[k].width \in 1..2 /\ (row[k].char = " " => row[k].width = 1)
  <2>1. row[k].width \in 1..2
    BY <1>7, <1>14
  <2>2. row[k].char = " " => row[k].width = 1
    BY <1>8, <1>14, Zenon
  <2> QED BY <2>1, <2>2
<1>16. \A k \in 0..n : UsedUpto(row, k) = Upto(chars, k)
  <2> DEFINE S == {k \in 0..n : UsedUpto(row, k) = Upto(chars, k)}
  <2>1. 0 \in S
    <3>1. UsedUpto(row, 0) = 0
      BY <1>13, UsedUptoIs
    <3>2. Upto(chars, 0) = 0
      BY <1>9, UptoIs
    <3> QED BY <1>6, <3>1, <3>2
  <2>2. ASSUME NEW k \in 0..(n - 1), k \in S PROVE k + 1 \in S
    <3>1. k + 1 \in 1..n /\ (k + 1) - 1 = k /\ k + 1 \in 0..n /\ k \in 0..(Len(chars) - 1) /\ k + 1 \in 1..Len(row)
      BY <1>6, <1>9, <1>13
    <3>2. UsedUpto(row, k + 1) = UsedUpto(row, (k + 1) - 1) + row[k + 1].width
      BY <1>13, <3>1, UsedUptoIs
    <3>3. Upto(chars, k + 1) = Upto(chars, k) + WidthOf[chars[k + 1]]
      BY <1>9, <3>1, UptoIs
    <3>4. row[k + 1].width = WidthOf[chars[k + 1]]
      BY <1>9, <1>14, <3>1
    <3> QED BY <2>2, <3>1, <3>2, <3>3, <3>4
  <2>3. \A k \in 0..n : k \in S
    <3> HIDE DEF S
    <3> QED BY <1>6, <2>1, <2>2, Induct
  <2> QED BY <2>3
<1>17. ASSUME NEW k \in 1..n PROVE row[k].flat = UsedUpto(row, k - 1)
  <2>1. k - 1 \in 0..n
    BY <1>6
  <2> QED BY <1>14, <1>16, <2>1
<1>18. h \in 0..n /\ \A k \in 1..h : row[k].width = 1
  <2>1. Prefix <= n /\ \A k \in 1..Prefix : WidthOf[text[k].char] = 1
    BY DEF NarrowPrefix, n
  <2> HIDE DEF h
  <2>2. h \in 0..n /\ \A k \in 1..h : k \in 1..Prefix /\ k \in 1..n
    BY <1>3, <1>5, <1>6, <2>1
  <2> QED BY <1>14, <2>1, <2>2
<1> HIDE DEF h
<1>19. IsRow(row, h)
  BY <1>13, <1>15, <1>17, <1>18 DEF IsRow
<1> QED BY <1>4, <1>5, <1>19 DEF h, row

\* In a list of three columns or more, whatever the row of a task is, wrapping it into lines
\* loses nothing of it but a blank between two lines, puts no more on a line than fits, and
\* cuts no word that would fit on a line.
THEOREM RowsKeepText == Spec => []RowKeepsText
<1>1. ASSUME TextsTypeOK, NarrowPrefix PROVE RowKeepsText
  <2> SUFFICES ASSUME sample.kind = "row", NEW w \in RowWidths
               PROVE  KeepsText(Cells, WrapSpans(Cells, w, Prefix), w, Hang(Prefix, w))
    BY DEF RowKeepsText
  <2> DEFINE h == Hang(Prefix, w)
             row == Cells
             lines == WrapSpans(row, w, Prefix)
  <2>1. w \in Nat /\ h \in Nat /\ h + 2 <= w /\ IsRow(row, h)
    BY <1>1, CellsAre
  <2>2. HasLayout(row, w, h, lines, Len(row))
    BY <2>1, WrapLaid
  <2> HIDE DEF h, row, lines
  <2>3. PICK from, to : Laid(row, w, h, lines, Len(row), from, to)
    BY <2>2 DEF HasLayout
  <2>4. KeepsText(row, lines, w, h)
    BY <2>1, <2>3, LaidKeepsText
  <2> QED BY <2>4 DEF h, row, lines
<1> QED BY <1>1, TextsTyped, PrefixStays, PTL

\* However the row is wrapped, what can be clicked to open a link, which collect_link_hits
\* works out from the columns before wrapping, is where its label is, on each of the lines
\* the label is on.
THEOREM HitsFound == Spec => []HitsAreLabels
<1>1. ASSUME TextsTypeOK, NarrowPrefix PROVE HitsAreLabels
  <2> SUFFICES ASSUME sample.kind = "row", NEW w \in RowWidths, NEW i \in DOMAIN Cells, NEW j \in DOMAIN Cells,
                      IsLabel(Cells, i, j)
               PROVE  HitsAre(Cells, WrapSpans(Cells, w, Prefix), i, j)
    BY DEF HitsAreLabels
  <2> DEFINE h == Hang(Prefix, w)
             row == Cells
             lines == WrapSpans(row, w, Prefix)
  <2>1. w \in Nat /\ h \in Nat /\ h + 2 <= w /\ IsRow(row, h)
    BY <1>1, CellsAre
  <2>2. HasLayout(row, w, h, lines, Len(row))
    BY <2>1, WrapLaid
  <2>3. i \in DOMAIN row /\ j \in DOMAIN row /\ i <= j
    BY DEF IsLabel
  <2> HIDE DEF h, row, lines
  <2>4. i \in 1..Len(row) /\ j \in 1..Len(row)
    <3>1. row \in Seq(CellSet)
      BY <2>1 DEF IsRow
    <3> QED BY <2>3, <3>1
  <2>5. PICK from, to : Laid(row, w, h, lines, Len(row), from, to)
    BY <2>2 DEF HasLayout
  <2>6. HitsAre(row, lines, i, j)
    BY <2>1, <2>3, <2>4, <2>5, LaidHits
  <2> QED BY <2>6 DEF row, lines
<1> QED BY <1>1, TextsTyped, PrefixStays, PTL
=============================================================================
