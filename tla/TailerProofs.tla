---------------------------- MODULE TailerProofs ----------------------------
(***************************************************************************)
(* Proofs about Tailer, for any text of either watcher: any lines, of      *)
(* characters of any number of bytes, with or without a last line end.     *)
(***************************************************************************)
EXTENDS Tailer, FiniteSetTheorems, WellFoundedInduction, TLAPS

(***************************************************************************)
(* A set of numbers that is not empty has a least element.                 *)
(***************************************************************************)
LEMMA LeastElement ==
    ASSUME NEW T \in SUBSET Nat, T # {}
    PROVE  \E m \in T : \A n \in T : m <= n
<1>1. PICK m \in T : \A n \in T : ~(<<n, m>> \in OpToRel(<, Nat))
  BY NatLessThanWellFounded, WFMin
<1>2. \A n \in T : ~(n < m)
  BY <1>1 DEF OpToRel
<1>3. \A n \in T : m <= n
  BY <1>2
<1> QED BY <1>3

(***************************************************************************)
(* Min is one of the numbers, and below the others.                        *)
(***************************************************************************)
LEMMA MinFacts ==
    ASSUME NEW T \in SUBSET Nat, T # {}
    PROVE  Min(T) \in T /\ \A n \in T : Min(T) <= n
<1>1. \E m \in T : \A n \in T : m <= n
  BY LeastElement
<1> QED BY <1>1, Zenon DEF Min

(***************************************************************************)
(* Max is one of the numbers, and above the others, if they have a bound.  *)
(***************************************************************************)
LEMMA MaxFacts ==
    ASSUME NEW T \in SUBSET Nat, T # {}, NEW b \in Nat, \A n \in T : n <= b
    PROVE  Max(T) \in T /\ \A n \in T : n <= Max(T)
<1> DEFINE R == {k \in Nat : \E n \in T : k = b - n}
<1>1. R \in SUBSET Nat /\ R # {}
  <2>1. PICK n : n \in T
    OBVIOUS
  <2>2. b - n \in R
    BY <2>1
  <2> QED BY <2>2
<1>2. PICK k \in R : \A j \in R : k <= j
  BY <1>1, LeastElement
<1>3. PICK m \in T : k = b - m
  BY <1>2
<1>4. \A n \in T : b - n \in R
  OBVIOUS
<1>5. \A n \in T : n <= m
  <2>1. \A n \in T : b - m <= b - n
    BY <1>2, <1>3, <1>4
  <2> QED BY <2>1
<1>6. \E x \in T : \A n \in T : x >= n
  BY <1>5
<1>7. Max(T) \in T /\ \A n \in T : Max(T) >= n
  BY <1>6, Zenon DEF Max
<1> QED BY <1>7

-----------------------------------------------------------------------------
(* Pieces of the text in their order. *)

\* How many pieces come before p.
Place(pieces, p) == Cardinality({q \in pieces : q[1] < p[1]})

\* Finitely many pieces, no two of which begin at the same byte.
Apart(pieces) ==
    /\ pieces \subseteq Nat \X Nat /\ IsFiniteSet(pieces)
    /\ \A p, q \in pieces : p[1] = q[1] => p = q

(***************************************************************************)
(* The places of pieces that lie apart are those of a sequence, each taken *)
(* once, and rise along the text.                                          *)
(***************************************************************************)
LEMMA PlaceFacts ==
    ASSUME NEW P, Apart(P)
    PROVE  /\ Cardinality(P) \in Nat
           /\ \A p \in P : Place(P, p) \in Nat /\ Place(P, p) < Cardinality(P)
           /\ \A p, q \in P : Place(P, p) = Place(P, q) => p = q
           /\ \A i \in 1..Cardinality(P) : \E p \in P : Place(P, p) = i - 1
<1> DEFINE F(p) == {q \in P : q[1] < p[1]}
           n == Cardinality(P)
<1>1. /\ IsFiniteSet(P) /\ n \in Nat
      /\ \A p \in P : p[1] \in Nat
      /\ \A p, q \in P : p[1] = q[1] => p = q
  BY FS_CardinalityType DEF Apart
<1>2. \A p : Place(P, p) = Cardinality(F(p))
  BY DEF Place
<1>3. ASSUME NEW p PROVE IsFiniteSet(F(p)) /\ Cardinality(F(p)) \in Nat
  <2>1. F(p) \in SUBSET P
    OBVIOUS
  <2> QED BY <1>1, <2>1, FS_Subset, FS_CardinalityType
<1>4. ASSUME NEW p \in P, NEW q \in P, p[1] < q[1]
      PROVE  Cardinality(F(p)) < Cardinality(F(q))
  <2>1. F(p) \in SUBSET F(q) /\ p \in F(q) /\ p \notin F(p)
    BY <1>1, <1>4
  <2>2. Cardinality(F(p)) <= Cardinality(F(q)) /\ (Cardinality(F(q)) = Cardinality(F(p)) => F(q) = F(p))
    BY <2>1, <1>3, FS_Subset
  <2>3. Cardinality(F(p)) \in Nat /\ Cardinality(F(q)) \in Nat /\ F(p) # F(q)
    BY <1>3, <2>1
  <2> HIDE DEF F
  <2> QED BY <2>2, <2>3
<1>5. ASSUME NEW p \in P PROVE Cardinality(F(p)) < n
  <2>1. F(p) \in SUBSET P /\ F(p) # P
    <3>1. p \notin F(p)
      BY <1>1
    <3> QED BY <3>1
  <2>2. Cardinality(F(p)) <= n /\ (n = Cardinality(F(p)) => P = F(p))
    BY <2>1, <1>1, FS_Subset
  <2>3. Cardinality(F(p)) \in Nat
    BY <1>3
  <2> HIDE DEF F, n
  <2> QED BY <1>1, <2>1, <2>2, <2>3
<1>6. \A p \in P : Place(P, p) \in Nat /\ Place(P, p) < n
  BY <1>2, <1>3, <1>5
<1>7. \A p, q \in P : p[1] < q[1] => Place(P, p) < Place(P, q)
  BY <1>2, <1>4
<1> HIDE DEF F, n
<1>8. ASSUME NEW p \in P, NEW q \in P, Place(P, p) = Place(P, q) PROVE p = q
  <2>1. ~(p[1] < q[1]) /\ ~(q[1] < p[1])
    BY <1>6, <1>7, <1>8
  <2>2. p[1] = q[1]
    BY <1>1, <2>1
  <2> QED BY <1>1, <2>2
<1>9. \A i \in 1..n : \E p \in P : Place(P, p) = i - 1
  <2> DEFINE f == [p \in P |-> Place(P, p) + 1]
  <2>1. f \in [P -> 1..n]
    BY <1>1, <1>6
  <2>2. \A p, q \in P : f[p] = f[q] => p = q
    BY <1>6, <1>8
  <2>3. f \in Injection(P, 1..n)
    BY <2>1, <2>2 DEF Injection, IsInjective
  <2>4. \A p \in P : f[p] = Place(P, p) + 1
    OBVIOUS
  <2> HIDE DEF f
  <2>5. IsFiniteSet(1..n) /\ Cardinality(1..n) = n
    <3>1. IsFiniteSet(1..n) /\ Cardinality(1..n) = IF 1 > n THEN 0 ELSE n - 1 + 1
      BY <1>1, FS_Interval
    <3> QED BY <1>1, <3>1
  <2>6. f \in Surjection(P, 1..n)
    BY <2>3, <2>5, FS_Injection DEF n
  <2>7. \A i \in 1..n : \E p \in P : f[p] = i
    BY <2>6 DEF Surjection
  <2> QED BY <1>1, <1>6, <2>4, <2>7
<1> QED BY <1>1, <1>6, <1>8, <1>9 DEF n

(***************************************************************************)
(* InOrder lists exactly the pieces, each at its place.                    *)
(***************************************************************************)
LEMMA InOrderFacts ==
    ASSUME NEW P, Apart(P)
    PROVE  /\ InOrder(P) \in Seq(P)
           /\ Len(InOrder(P)) = Cardinality(P) /\ Cardinality(P) \in Nat
           /\ \A i \in 1..Cardinality(P) :
                InOrder(P)[i] \in P /\ Place(P, InOrder(P)[i]) = i - 1
           /\ Range(InOrder(P)) = P
<1> DEFINE n == Cardinality(P)
           s == InOrder(P)
           at(i) == CHOOSE p \in P : Place(P, p) = i - 1
<1>1. n \in Nat /\ \A i \in 1..n : \E p \in P : Place(P, p) = i - 1
  BY PlaceFacts
<1>2. s = [i \in 1..n |-> at(i)]
  BY DEF InOrder, Place
<1>3. \A i \in 1..n : at(i) \in P /\ Place(P, at(i)) = i - 1
  BY <1>1
<1> HIDE DEF at, s, n
<1>4. s \in [1..n -> P]
  BY <1>2, <1>3
<1>5. s \in Seq(P) /\ Len(s) = n
  BY <1>1, <1>4
<1>6. \A i \in 1..n : s[i] \in P /\ Place(P, s[i]) = i - 1
  BY <1>2, <1>3
<1>7. Range(s) = P
  <2>1. Range(s) = {s[i] : i \in 1..n}
    BY <1>2 DEF Range
  <2>2. ASSUME NEW p \in P PROVE \E i \in 1..n : s[i] = p
    <3>1. Place(P, p) \in Nat /\ Place(P, p) < n /\ \A q \in P : Place(P, p) = Place(P, q) => p = q
      BY PlaceFacts DEF n
    <3>2. Place(P, p) + 1 \in 1..n /\ (Place(P, p) + 1) - 1 = Place(P, p)
      BY <1>1, <3>1
    <3>3. s[Place(P, p) + 1] = p
      BY <1>6, <3>1, <3>2
    <3> QED BY <3>2, <3>3
  <2>3. P \subseteq Range(s)
    BY <2>1, <2>2
  <2>4. Range(s) \subseteq P
    BY <1>6, <2>1
  <2> QED BY <2>3, <2>4
<1> QED BY <1>1, <1>5, <1>6, <1>7 DEF n, s

(***************************************************************************)
(* Pieces that all come before others are listed before them.              *)
(***************************************************************************)
LEMMA InOrderUnion ==
    ASSUME NEW P, NEW Q, Apart(P), Apart(Q), \A p \in P, q \in Q : p[1] < q[1]
    PROVE  InOrder(P \union Q) = InOrder(P) \o InOrder(Q)
<1> DEFINE U == P \union Q
           m == Cardinality(P)
           n == Cardinality(Q)
<1>1. /\ \A p \in U : p[1] \in Nat
      /\ IsFiniteSet(P) /\ IsFiniteSet(Q)
      /\ U \subseteq Nat \X Nat
  BY DEF Apart
<1>2. P \cap Q = {} /\ m \in Nat /\ n \in Nat
  BY <1>1, FS_CardinalityType
<1>3. IsFiniteSet(U) /\ Cardinality(U) = m + n
  <2>1. IsFiniteSet(U) /\ Cardinality(U) = m + n - Cardinality(P \cap Q)
    BY <1>1, FS_Union
  <2>2. Cardinality(P \cap Q) = 0
    BY <1>2, FS_EmptySet
  <2> HIDE DEF m, n, U
  <2> QED BY <1>2, <2>1, <2>2
<1>4. Apart(U)
  <2>1. ASSUME NEW p \in U, NEW q \in U, p[1] = q[1] PROVE p = q
    <3>1. p[1] \in Nat /\ q[1] \in Nat
      BY <1>1
    <3>2. CASE p \in P /\ q \in P
      BY <2>1, <3>2 DEF Apart
    <3>3. CASE p \in Q /\ q \in Q
      BY <2>1, <3>3 DEF Apart
    <3> QED BY <2>1, <3>1, <3>2, <3>3
  <2> QED BY <1>1, <1>3, <2>1 DEF Apart
<1>5. ASSUME NEW p \in P PROVE Place(U, p) = Place(P, p)
  <2>1. {q \in U : q[1] < p[1]} = {q \in P : q[1] < p[1]}
    BY <1>1
  <2> QED BY <2>1 DEF Place
<1>6. ASSUME NEW q \in Q PROVE Place(U, q) = m + Place(Q, q)
  <2> DEFINE B == {r \in Q : r[1] < q[1]}
  <2>1. {r \in U : r[1] < q[1]} = P \union B
    BY <1>1
  <2>2. IsFiniteSet(B) /\ Cardinality(B) \in Nat
    <3>1. B \in SUBSET Q
      OBVIOUS
    <3> QED BY <1>1, <3>1, FS_Subset, FS_CardinalityType
  <2>3. P \cap B = {}
    BY <1>2
  <2>4. Cardinality(P \union B) = m + Cardinality(B) - Cardinality(P \cap B)
    BY <1>1, <2>2, FS_Union
  <2>5. Cardinality(P \cap B) = 0
    BY <2>3, FS_EmptySet
  <2>6. Place(U, q) = Cardinality(P \union B) /\ Place(Q, q) = Cardinality(B)
    BY <2>1 DEF Place
  <2> HIDE DEF B, m, U
  <2> QED BY <1>2, <2>2, <2>4, <2>5, <2>6
<1>7. PICK s, t, u : s = InOrder(P) /\ t = InOrder(Q) /\ u = InOrder(U)
  OBVIOUS
<1>8. /\ s \in Seq(P) /\ Len(s) = m
      /\ \A i \in 1..m : s[i] \in P /\ Place(P, s[i]) = i - 1
  BY <1>7, InOrderFacts
<1>9. /\ t \in Seq(Q) /\ Len(t) = n
      /\ \A i \in 1..n : t[i] \in Q /\ Place(Q, t[i]) = i - 1
  BY <1>7, InOrderFacts
<1>10. /\ u \in Seq(U) /\ Len(u) = m + n
       /\ \A i \in 1..(m + n) : u[i] \in U /\ Place(U, u[i]) = i - 1
  BY <1>3, <1>4, <1>7, InOrderFacts
<1>11. \A p, q \in U : Place(U, p) = Place(U, q) => p = q
  BY <1>4, PlaceFacts
<1> HIDE DEF m, n
<1>12. /\ s \o t \in Seq(U) /\ Len(s \o t) = m + n
       /\ \A i \in 1..m : (s \o t)[i] = s[i]
       /\ \A i \in (m + 1)..(m + n) : (s \o t)[i] = t[i - m]
  <2>1. s \in Seq(U) /\ t \in Seq(U)
    BY <1>8, <1>9
  <2> HIDE DEF U
  <2>2. /\ s \o t \in Seq(U) /\ Len(s \o t) = Len(s) + Len(t)
        /\ \A i \in 1..Len(s) : (s \o t)[i] = s[i]
        /\ \A i \in (Len(s) + 1)..(Len(s) + Len(t)) : (s \o t)[i] = t[i - Len(s)]
    BY <2>1
  <2> QED BY <1>8, <1>9, <2>2
<1>13. ASSUME NEW i \in 1..(m + n) PROVE u[i] = (s \o t)[i]
  <2>1. CASE i \in 1..m
    <3>1. s[i] \in P /\ Place(U, s[i]) = i - 1
      BY <1>5, <1>8, <2>1
    <3>2. s[i] = u[i]
      BY <1>10, <1>11, <3>1
    <3> QED BY <1>12, <2>1, <3>2
  <2>2. CASE i \in (m + 1)..(m + n)
    <3>1. i - m \in 1..n
      BY <1>2, <2>2
    <3>2. t[i - m] \in Q /\ Place(Q, t[i - m]) = (i - m) - 1
      BY <1>9, <3>1
    <3>3. Place(U, t[i - m]) = i - 1
      <4>1. Place(U, t[i - m]) = m + Place(Q, t[i - m])
        BY <1>6, <3>2
      <4> QED BY <1>2, <3>2, <4>1
    <3>4. t[i - m] = u[i]
      BY <1>10, <1>11, <3>2, <3>3
    <3> QED BY <1>12, <2>2, <3>4
  <2>3. i \in 1..m \/ i \in (m + 1)..(m + n)
    BY <1>2
  <2> QED BY <2>1, <2>2, <2>3
<1>14. u = s \o t
  <2>1. DOMAIN u = 1..(m + n) /\ DOMAIN (s \o t) = 1..(m + n)
    BY <1>10, <1>12
  <2>2. \A i \in 1..(m + n) : u[i] = (s \o t)[i]
    BY <1>13
  <2>3. u \in Seq(U) /\ s \o t \in Seq(U) /\ Len(u) = Len(s \o t)
    BY <1>10, <1>12
  <2> HIDE DEF U
  <2> QED BY <1>10, <1>12, <2>1, <2>2, <2>3
<1> QED BY <1>7, <1>14

-----------------------------------------------------------------------------
(* The lines of a text. *)

(***************************************************************************)
(* What Split says of a line.                                              *)
(***************************************************************************)
LEMMA SplitElement ==
    ASSUME NEW a \in Nat, NEW b \in Nat, NEW p
    PROVE  p \in Split(a, b) <=>
             /\ p \in Nat \X Nat /\ p = <<p[1], p[2]>>
             /\ a <= p[1] /\ p[1] <= p[2] /\ p[2] < b
             /\ p[1] = a \/ Bytes[p[1] - 1] = "newline"
             /\ \A k \in p[1]..p[2] : Bytes[k] # "newline"
             /\ Bytes[p[2] + 1] = "newline"
<1>1. ASSUME p \in (a..b) \X (a..b)
      PROVE  p \in Nat \X Nat /\ p = <<p[1], p[2]>> /\ a <= p[1]
  BY <1>1
<1>2. ASSUME p \in Nat \X Nat, a <= p[1], p[1] <= p[2], p[2] < b
      PROVE  p \in (a..b) \X (a..b)
  BY <1>2
<1> QED BY <1>1, <1>2 DEF Split

(***************************************************************************)
(* The lines of a stretch of text lie apart.                               *)
(***************************************************************************)
LEMMA SplitApart ==
    ASSUME NEW a \in Nat, NEW b \in Nat
    PROVE  Apart(Split(a, b))
<1>1. Split(a, b) \subseteq Nat \X Nat
  BY SplitElement
<1>2. IsFiniteSet(Split(a, b))
  <2>1. IsFiniteSet(a..b)
    BY FS_Interval
  <2>2. IsFiniteSet((a..b) \X (a..b))
    BY <2>1, FS_Product
  <2>3. Split(a, b) \in SUBSET ((a..b) \X (a..b))
    BY DEF Split
  <2> QED BY <2>2, <2>3, FS_Subset
<1>3. ASSUME NEW p \in Split(a, b), NEW q \in Split(a, b), p[1] = q[1] PROVE p = q
  <2>1. /\ p = <<p[1], p[2]>> /\ p[1] \in Nat /\ p[2] \in Nat /\ p[1] <= p[2]
        /\ \A k \in p[1]..p[2] : Bytes[k] # "newline"
        /\ Bytes[p[2] + 1] = "newline"
    BY SplitElement
  <2>2. /\ q = <<q[1], q[2]>> /\ q[1] \in Nat /\ q[2] \in Nat /\ q[1] <= q[2]
        /\ \A k \in q[1]..q[2] : Bytes[k] # "newline"
        /\ Bytes[q[2] + 1] = "newline"
    BY SplitElement
  <2>3. ~(p[2] < q[2])
    <3>1. p[2] < q[2] => p[2] + 1 \in q[1]..q[2]
      BY <1>3, <2>1, <2>2
    <3> QED BY <2>1, <2>2, <3>1
  <2>4. ~(q[2] < p[2])
    <3>1. q[2] < p[2] => q[2] + 1 \in p[1]..p[2]
      BY <1>3, <2>1, <2>2
    <3> QED BY <2>1, <2>2, <3>1
  <2>5. p[2] = q[2]
    BY <2>1, <2>2, <2>3, <2>4
  <2> QED BY <1>3, <2>1, <2>2, <2>5
<1> QED BY <1>1, <1>2, <1>3 DEF Apart

(***************************************************************************)
(* More text keeps the lines there were.                                   *)
(***************************************************************************)
LEMMA SplitMonotone ==
    ASSUME NEW a \in Nat, NEW b \in Nat, NEW c \in Nat, b <= c
    PROVE  Split(a, b) \subseteq Split(a, c)
<1> SUFFICES ASSUME NEW p \in Split(a, b) PROVE p \in Split(a, c)
  OBVIOUS
<1>1. /\ p \in Nat \X Nat /\ p = <<p[1], p[2]>>
      /\ a <= p[1] /\ p[1] <= p[2] /\ p[2] < b
      /\ p[1] = a \/ Bytes[p[1] - 1] = "newline"
      /\ \A k \in p[1]..p[2] : Bytes[k] # "newline"
      /\ Bytes[p[2] + 1] = "newline"
  BY SplitElement
<1>2. p[2] < c
  BY <1>1
<1> QED BY <1>1, <1>2, SplitElement

(***************************************************************************)
(* Nothing follows the last line end: the lines up to it are all.          *)
(***************************************************************************)
LEMMA SplitUpTo ==
    ASSUME NEW a \in Nat, NEW b \in Nat, NEW c \in a..b,
           \A k \in a..b : Bytes[k] = "newline" => k <= c
    PROVE  Split(a, b) = Split(a, c)
<1>1. c \in Nat /\ c <= b
  OBVIOUS
<1>2. Split(a, c) \subseteq Split(a, b)
  BY <1>1, SplitMonotone
<1>3. ASSUME NEW p \in Split(a, b) PROVE p \in Split(a, c)
  <2>1. /\ p \in Nat \X Nat /\ p = <<p[1], p[2]>>
        /\ a <= p[1] /\ p[1] <= p[2] /\ p[2] < b
        /\ p[1] = a \/ Bytes[p[1] - 1] = "newline"
        /\ \A k \in p[1]..p[2] : Bytes[k] # "newline"
        /\ Bytes[p[2] + 1] = "newline"
    BY SplitElement
  <2>2. p[2] + 1 \in a..b
    BY <2>1
  <2>3. p[2] < c
    BY <1>1, <2>1, <2>2
  <2> QED BY <1>1, <2>1, <2>3, SplitElement
<1> QED BY <1>2, <1>3

(***************************************************************************)
(* A text cut at a line end m: every line of the whole is a line before m  *)
(* or one that a read beginning at or before m + 1 sees, and with a read   *)
(* that begins at m + 1 these are the lines of the whole.                  *)
(***************************************************************************)
LEMMA SplitAt ==
    ASSUME NEW s \in Nat, NEW m \in Nat, NEW b \in Nat, NEW a \in Nat,
           s <= m, m <= b, s + 1 <= a, a <= m + 1,
           m = s \/ Bytes[m] = "newline"
    PROVE  /\ Split(s + 1, b) \subseteq Split(s + 1, m) \union Split(a, b)
           /\ a = m + 1 => Split(s + 1, b) = Split(s + 1, m) \union Split(a, b)
<1>0. s + 1 \in Nat
  OBVIOUS
<1>1. ASSUME NEW p \in Split(s + 1, b), p \notin Split(s + 1, m) PROVE p \in Split(a, b)
  <2>1. /\ p \in Nat \X Nat /\ p = <<p[1], p[2]>> /\ p[1] \in Nat /\ p[2] \in Nat
        /\ s + 1 <= p[1] /\ p[1] <= p[2] /\ p[2] < b
        /\ p[1] = s + 1 \/ Bytes[p[1] - 1] = "newline"
        /\ \A k \in p[1]..p[2] : Bytes[k] # "newline"
        /\ Bytes[p[2] + 1] = "newline"
    BY <1>0, SplitElement
  <2>2. ~(p[2] < m)
    BY <1>0, <1>1, <2>1, SplitElement
  <2>3. m < p[1]
    <3>1. CASE m = s
      BY <2>1, <3>1
    <3>2. CASE Bytes[m] = "newline"
      <4>1. ~(m \in p[1]..p[2])
        BY <2>1, <3>2
      <4> QED BY <2>1, <2>2, <4>1
    <3> QED BY <3>1, <3>2
  <2>4. a <= p[1]
    BY <2>1, <2>3
  <2>5. p[1] = a \/ Bytes[p[1] - 1] = "newline"
    <3>1. p[1] = s + 1 => p[1] = a
      BY <2>1, <2>4
    <3> QED BY <2>1, <3>1
  <2> QED BY <2>1, <2>4, <2>5, SplitElement
<1>2. Split(s + 1, m) \subseteq Split(s + 1, b)
  BY <1>0, SplitMonotone
<1>3. ASSUME a = m + 1, NEW p \in Split(a, b) PROVE p \in Split(s + 1, b)
  <2>1. /\ p \in Nat \X Nat /\ p = <<p[1], p[2]>> /\ p[1] \in Nat /\ p[2] \in Nat
        /\ a <= p[1] /\ p[1] <= p[2] /\ p[2] < b
        /\ p[1] = a \/ Bytes[p[1] - 1] = "newline"
        /\ \A k \in p[1]..p[2] : Bytes[k] # "newline"
        /\ Bytes[p[2] + 1] = "newline"
    BY SplitElement
  <2>2. s + 1 <= p[1]
    BY <2>1
  <2>3. p[1] = s + 1 \/ Bytes[p[1] - 1] = "newline"
    <3>1. CASE p[1] = a /\ m = s
      BY <1>3, <3>1
    <3>2. CASE p[1] = a /\ Bytes[m] = "newline"
      <4>1. p[1] - 1 = m
        BY <1>3, <3>2
      <4> QED BY <3>2, <4>1
    <3> QED BY <2>1, <3>1, <3>2
  <2> QED BY <1>0, <2>1, <2>2, <2>3, SplitElement
<1>4. Split(s + 1, b) \subseteq Split(s + 1, m) \union Split(a, b)
  BY <1>1
<1>5. a = m + 1 => Split(a, b) \subseteq Split(s + 1, b)
  BY <1>3
<1> QED BY <1>2, <1>4, <1>5

(***************************************************************************)
(* What is broadcast of the lines: some of them, line by line, and as      *)
(* latency records only whole lines.                                       *)
(***************************************************************************)
LEMMA BroadcastFacts ==
    /\ \A P : Broadcast(P) \subseteq P
    /\ \A P, Q : P \subseteq Q => Broadcast(P) \subseteq Broadcast(Q)
    /\ \A P, Q : Broadcast(P \union Q) = Broadcast(P) \union Broadcast(Q)
    /\ \A P : watcher # "log" => \A p \in Broadcast(P) : Whole(p)
    /\ \A P : Apart(P) => Apart(Broadcast(P))
<1>1. /\ \A P : Broadcast(P) \subseteq P
      /\ \A P, Q : P \subseteq Q => Broadcast(P) \subseteq Broadcast(Q)
      /\ \A P, Q : Broadcast(P \union Q) = Broadcast(P) \union Broadcast(Q)
      /\ \A P : watcher # "log" => \A p \in Broadcast(P) : Whole(p)
  BY DEF Broadcast
<1>2. ASSUME NEW P, Apart(P) PROVE Apart(Broadcast(P))
  <2>1. Broadcast(P) \in SUBSET P
    BY <1>1
  <2>2. IsFiniteSet(Broadcast(P))
    BY <1>2, <2>1, FS_Subset DEF Apart
  <2> QED BY <1>2, <2>1, <2>2 DEF Apart
<1> QED BY <1>1, <1>2

(***************************************************************************)
(* The offset never moves past the line end it was moved for, and if the   *)
(* bytes it has passed are one-byte characters it stands exactly on it:    *)
(* the bytes that a count of characters leaves out do not fit behind it.   *)
(***************************************************************************)
LEMMA DecodedFacts ==
    ASSUME NEW a \in Nat, NEW b \in Nat, a <= b, Bytes[b] = "newline"
    PROVE  /\ Decoded(a, b) \in Nat /\ Decoded(a, b) <= b - a + 1
           /\ OneByteOnly(a, a + Decoded(a, b) - 1) => Decoded(a, b) = b - a + 1
<1> DEFINE D == {k \in a..b : Bytes[k] # "cont" \/ \A j \in a..k : Bytes[j] = "cont"}
           C == {k \in a..b : ~(Bytes[k] # "cont" \/ \A j \in a..k : Bytes[j] = "cont")}
<1>1. PICK d : d = Decoded(a, b)
  OBVIOUS
<1>2. IsFiniteSet(a..b) /\ Cardinality(a..b) = b - a + 1
  <2>1. IsFiniteSet(a..b) /\ Cardinality(a..b) = IF a > b THEN 0 ELSE b - a + 1
    BY FS_Interval
  <2> QED BY <2>1
<1>3. D \in SUBSET (a..b) /\ C \in SUBSET (a..b) /\ D \union C = a..b /\ D \cap C = {}
  OBVIOUS
<1>4. /\ IsFiniteSet(D) /\ IsFiniteSet(C)
      /\ Cardinality(D) \in Nat /\ Cardinality(C) \in Nat
      /\ Cardinality(D) <= b - a + 1
  BY <1>2, <1>3, FS_Subset, FS_CardinalityType
<1>5. d = Cardinality(D)
  BY <1>1 DEF Decoded
<1>6. ASSUME NEW k \in C PROVE Bytes[k] = "cont" /\ k \in a..b
  OBVIOUS
<1> HIDE DEF D, C
<1>7. d + Cardinality(C) = b - a + 1
  <2>1. Cardinality(D \union C) = Cardinality(D) + Cardinality(C) - Cardinality(D \cap C)
    BY <1>4, FS_Union
  <2>2. Cardinality(D \cap C) = 0
    BY <1>3, FS_EmptySet
  <2>3. Cardinality(D \union C) = b - a + 1
    BY <1>2, <1>3
  <2> QED BY <1>4, <1>5, <2>1, <2>2, <2>3
<1>8. ASSUME OneByteOnly(a, a + d - 1), d # b - a + 1 PROVE FALSE
  <2>1. \A k \in C : k \in (a + d)..(b - 1)
    <3> SUFFICES ASSUME NEW k \in C PROVE a + d <= k /\ k <= b - 1 /\ k \in Int
      BY <1>4, <1>5
    <3>1. k \in a..b /\ Bytes[k] = "cont"
      BY <1>6
    <3>2. k # b
      BY <3>1
    <3>3. ~(k \in a..(a + d - 1))
      BY <1>8, <3>1 DEF OneByteOnly
    <3> QED BY <1>4, <1>5, <3>1, <3>2, <3>3
  <2>2. d \in Nat /\ d < b - a + 1
    BY <1>4, <1>5, <1>8
  <2>3. a + d \in Int /\ b - 1 \in Int
    BY <2>2
  <2>4. /\ IsFiniteSet((a + d)..(b - 1))
        /\ Cardinality((a + d)..(b - 1)) = IF a + d > b - 1 THEN 0 ELSE (b - 1) - (a + d) + 1
    BY <2>3, FS_Interval
  <2>5. Cardinality((a + d)..(b - 1)) = b - a - d
    BY <2>2, <2>4
  <2>6. C \in SUBSET ((a + d)..(b - 1))
    BY <2>1
  <2>7. Cardinality(C) <= Cardinality((a + d)..(b - 1))
    BY <2>4, <2>6, FS_Subset
  <2> QED BY <1>4, <1>7, <2>2, <2>5, <2>7
<1> QED BY <1>1, <1>4, <1>5, <1>8

-----------------------------------------------------------------------------
(* The inductive invariant. *)

TypeOK ==
    /\ watcher \in Watcher /\ exists \in BOOLEAN
    /\ base \in Nat /\ end \in Nat /\ base <= end /\ end <= Len(Bytes)
    /\ pc \in {"off", "idle", "read"}
    /\ offset \in Nat /\ from \in Nat /\ size \in Nat
    /\ shown \in Seq(Nat \X Nat)
    /\ isLive \in BOOLEAN /\ start \in Nat /\ replaced \in BOOLEAN

\* A file that is gone holds nothing; one that replaced another begins after
\* the text that was there at the start.
FileInv ==
    /\ ~exists => base = end
    /\ start <= end
    /\ replaced => start <= base
    /\ pc = "off" => shown = <<>> /\ ~isLive /\ ~replaced

ShownInv == \A k \in DOMAIN shown : shown[k][1] > start /\ shown[k][2] < end

LiveInv == isLive => \E k \in DOMAIN shown : Whole(shown[k])

\* The last line end that has been read, or the start: every line before it
\* was shown, and the offset is not beyond it.
Reached(m) ==
    /\ base <= start /\ start <= base + offset /\ base + offset <= m /\ m <= end
    /\ m = start \/ Bytes[m] = "newline"
    /\ pc = "read" => from = offset /\ m <= base + size /\ base + size <= end
    /\ Broadcast(Split(start + 1, m)) \subseteq Range(shown)
    /\ OneByteOnly(start + 1, base + offset) =>
         base + offset = m /\ shown = InOrder(Broadcast(Split(start + 1, m)))

ReachedInv == pc # "off" /\ ~replaced => \E m \in Nat : Reached(m)

IInv == TypeOK /\ FileInv /\ ShownInv /\ LiveInv /\ ReachedInv

(***************************************************************************)
(* The text does not change while the watcher is the same one.             *)
(***************************************************************************)
LEMMA SameText ==
    ASSUME watcher' = watcher
    PROVE  /\ Bytes' = Bytes
           /\ \A p : Whole(p)' <=> Whole(p)
<1>1. Bytes' = Bytes
  BY DEF Bytes
<1> QED BY <1>1 DEF Whole

(***************************************************************************)
(* What Reached says after a step of the same watcher, in terms of the     *)
(* text as it was before the step.                                         *)
(***************************************************************************)
LEMMA ReachedNext ==
    ASSUME NEW m \in Nat, watcher' = watcher, NEW s, s = start',
           base' <= s, s <= base' + offset', base' + offset' <= m, m <= end',
           m = s \/ Bytes[m] = "newline",
           pc' = "read" => from' = offset' /\ m <= base' + size' /\ base' + size' <= end',
           Broadcast(Split(s + 1, m)) \subseteq Range(shown'),
           OneByteOnly(s + 1, base' + offset') =>
             base' + offset' = m /\ shown' = InOrder(Broadcast(Split(s + 1, m)))
    PROVE  Reached(m)'
<1>1. Bytes' = Bytes
  BY SameText
<1>2. Split(start + 1, m)' = Split(s + 1, m)
  BY <1>1 DEF Split
<1>3. Broadcast(Split(start + 1, m))' = Broadcast(Split(s + 1, m))
  BY <1>1, <1>2 DEF Broadcast, Whole, Split
<1>4. OneByteOnly(start + 1, base + offset)' <=> OneByteOnly(s + 1, base' + offset')
  BY <1>1 DEF OneByteOnly
<1>5. Range(shown)' = Range(shown')
  BY DEF Range
<1>6. InOrder(Broadcast(Split(start + 1, m)))' = InOrder(Broadcast(Split(s + 1, m)))
  BY <1>3, Zenon
<1> QED BY <1>1, <1>3, <1>4, <1>5, <1>6 DEF Reached

(***************************************************************************)
(* The bytes of either watcher are a sequence.                             *)
(***************************************************************************)
LEMMA BytesFacts ==
    ASSUME watcher \in Watcher
    PROVE  Len(Bytes) \in Nat
<1>1. Bytes \in Seq(ByteClass)
  BY TextAssumption DEF Bytes
<1> QED BY <1>1

(***************************************************************************)
(* A piece that was shown stays one of those shown, and the others come    *)
(* from what is appended.                                                  *)
(***************************************************************************)
LEMMA Appended ==
    ASSUME NEW S, NEW a \in Seq(S), NEW b \in Seq(S)
    PROVE  a \o b \in Seq(S) /\ Range(a \o b) = Range(a) \union Range(b)
<1> DEFINE m == Len(a)
           n == Len(b)
<1>1. PICK c : c = a \o b
  OBVIOUS
<1>2. /\ c \in Seq(S) /\ m \in Nat /\ n \in Nat
      /\ DOMAIN a = 1..m /\ DOMAIN b = 1..n /\ DOMAIN c = 1..(m + n)
      /\ \A i \in 1..m : c[i] = a[i]
      /\ \A i \in (m + 1)..(m + n) : c[i] = b[i - m]
  BY <1>1
<1> HIDE DEF m, n
<1>3. \A i \in 1..n : c[m + i] = b[i] /\ m + i \in 1..(m + n)
  <2>1. \A i \in 1..n : m + i \in (m + 1)..(m + n) /\ (m + i) - m = i
    BY <1>2
  <2> QED BY <1>2, <2>1
<1>4. /\ Range(c) = {c[i] : i \in 1..(m + n)} /\ Range(a) = {a[i] : i \in 1..m}
      /\ Range(b) = {b[i] : i \in 1..n}
  BY <1>2 DEF Range
<1>5. ASSUME NEW i \in 1..(m + n) PROVE c[i] \in Range(a) \union Range(b)
  <2>1. CASE i \in 1..m
    BY <1>2, <1>4, <2>1
  <2>2. CASE i \in (m + 1)..(m + n)
    <3>1. i - m \in 1..n /\ c[i] = b[i - m]
      BY <1>2, <2>2
    <3> QED BY <1>4, <3>1
  <2>3. i \in 1..m \/ i \in (m + 1)..(m + n)
    BY <1>2
  <2> QED BY <2>1, <2>2, <2>3
<1>6. \A i \in 1..m : a[i] \in Range(c)
  <2>1. \A i \in 1..m : i \in 1..(m + n)
    BY <1>2
  <2> QED BY <1>2, <1>4, <2>1
<1>7. \A i \in 1..n : b[i] \in Range(c)
  BY <1>3, <1>4
<1>8. Range(c) \subseteq Range(a) \union Range(b)
  BY <1>4, <1>5
<1>9. Range(a) \subseteq Range(c) /\ Range(b) \subseteq Range(c)
  BY <1>4, <1>6, <1>7
<1>10. Range(c) = Range(a) \union Range(b)
  BY <1>8, <1>9
<1> QED BY <1>1, <1>2, <1>10

(***************************************************************************)
(* The invariants of what is shown, of the pieces in whatever order.       *)
(***************************************************************************)
LEMMA ShownAsSet ==
    /\ ShownInv <=> \A p \in Range(shown) : p[1] > start /\ p[2] < end
    /\ LiveInv <=> (isLive => \E p \in Range(shown) : Whole(p))
BY DEF ShownInv, LiveInv, Range

(***************************************************************************)
(* No pieces are listed as nothing.                                        *)
(***************************************************************************)
LEMMA NoPieces == InOrder({}) = <<>>
<1>1. Apart({})
  BY FS_EmptySet DEF Apart
<1>2. InOrder({}) \in Seq({}) /\ Len(InOrder({})) = 0
  BY <1>1, InOrderFacts, FS_EmptySet
<1> QED BY <1>2

(***************************************************************************)
(* A step that shows nothing keeps what is said of what was shown.         *)
(***************************************************************************)
LEMMA ShownKept ==
    ASSUME ShownInv, LiveInv, UNCHANGED <<watcher, shown, isLive, start>>,
           shown \in Seq(Nat \X Nat), end \in Nat, end' \in Nat, end <= end'
    PROVE  ShownInv' /\ LiveInv'
<1>1. ShownInv'
  <2>1. \A k \in DOMAIN shown : shown[k][2] \in Nat
    OBVIOUS
  <2> QED BY <2>1 DEF ShownInv
<1>2. LiveInv'
  BY SameText DEF LiveInv
<1> QED BY <1>1, <1>2

(***************************************************************************)
(* A step that leaves the offset and what was shown as they are keeps what *)
(* has been reached, if a read it begins covers it.                        *)
(***************************************************************************)
LEMMA ReachedKept ==
    ASSUME NEW m \in Nat, Reached(m), end \in Nat, end' \in Nat, end <= end',
           UNCHANGED <<watcher, start, base, offset, shown>>,
           pc' = "read" => from' = offset' /\ m <= base' + size' /\ base' + size' <= end'
    PROVE  Reached(m)'
<1>1. PICK s : s = start
  OBVIOUS
<1>2. /\ base' <= s /\ s <= base' + offset' /\ base' + offset' <= m /\ m <= end'
      /\ m = s \/ Bytes[m] = "newline"
      /\ Broadcast(Split(s + 1, m)) \subseteq Range(shown')
      /\ OneByteOnly(s + 1, base' + offset') =>
           base' + offset' = m /\ shown' = InOrder(Broadcast(Split(s + 1, m)))
  <2>1. /\ base <= s /\ s <= base + offset /\ base + offset <= m /\ m <= end
        /\ m = s \/ Bytes[m] = "newline"
        /\ Broadcast(Split(s + 1, m)) \subseteq Range(shown)
        /\ OneByteOnly(s + 1, base + offset) =>
             base + offset = m /\ shown = InOrder(Broadcast(Split(s + 1, m)))
    BY <1>1 DEF Reached
  <2>2. m <= end'
    BY <2>1
  <2> QED BY <2>1, <2>2
<1> QED BY <1>1, <1>2, ReachedNext

-----------------------------------------------------------------------------
(* The steps. *)

(***************************************************************************)
(* Nothing is there and nothing is shown at first.                         *)
(***************************************************************************)
LEMMA InitInv == Init => IInv
<1> SUFFICES ASSUME Init PROVE IInv
  OBVIOUS
<1>1. Len(Bytes) \in Nat
  BY BytesFacts DEF Init
<1>2. TypeOK /\ FileInv
  <2>1. shown \in Seq(Nat \X Nat)
    BY DEF Init
  <2>2. /\ watcher \in Watcher /\ exists \in BOOLEAN /\ isLive \in BOOLEAN /\ replaced \in BOOLEAN
        /\ pc \in {"off", "idle", "read"}
    BY DEF Init
  <2>3. /\ base \in Nat /\ end \in Nat /\ base <= end /\ end <= Len(Bytes)
        /\ offset \in Nat /\ from \in Nat /\ size \in Nat /\ start \in Nat
    BY <1>1 DEF Init
  <2>4. FileInv
    BY DEF Init, FileInv
  <2> QED BY <2>1, <2>2, <2>3, <2>4 DEF TypeOK
<1>3. ShownInv /\ LiveInv /\ ReachedInv
  BY DEF Init, ShownInv, LiveInv, ReachedInv
<1> QED BY <1>2, <1>3 DEF IInv

(***************************************************************************)
(* Write: the text that was there keeps its place.                         *)
(***************************************************************************)
LEMMA WriteInv == IInv /\ Write => IInv'
<1> SUFFICES ASSUME IInv, Write PROVE IInv'
  OBVIOUS
<1> USE DEF IInv
<1>1. Bytes' = Bytes /\ Len(Bytes) \in Nat
  BY SameText, BytesFacts DEF Write, TypeOK
<1>2. TypeOK' /\ FileInv'
  BY <1>1 DEF Write, TypeOK, FileInv
<1>3. ShownInv' /\ LiveInv'
  BY <1>2, ShownKept DEF Write, TypeOK
<1>4. ReachedInv'
  <2> SUFFICES ASSUME pc # "off", ~replaced PROVE \E m \in Nat : Reached(m)'
    BY DEF ReachedInv, Write
  <2>1. PICK m \in Nat : Reached(m)
    BY DEF ReachedInv
  <2>2. pc' = "read" => from' = offset' /\ m <= base' + size' /\ base' + size' <= end'
    BY <2>1 DEF Reached, Write, TypeOK
  <2>3. Reached(m)'
    BY <2>1, <2>2, ReachedKept DEF Write, TypeOK
  <2> QED BY <2>3
<1> QED BY <1>2, <1>3, <1>4

(***************************************************************************)
(* Replace: the file that comes begins after all text there has been.      *)
(***************************************************************************)
LEMMA ReplaceInv == IInv /\ Replace => IInv'
<1> SUFFICES ASSUME IInv, Replace PROVE IInv'
  OBVIOUS
<1> USE DEF IInv
<1>1. Bytes' = Bytes /\ Len(Bytes) \in Nat
  BY SameText, BytesFacts DEF Replace, TypeOK
<1>2. NextLine \in Nat /\ end <= NextLine /\ NextLine <= Len(Bytes)
  <2> DEFINE T == {k \in end..Len(Bytes) : k \in {0, Len(Bytes)} \/ Bytes[k] = "newline"}
  <2>1. T \in SUBSET Nat /\ T \subseteq end..Len(Bytes)
    BY DEF TypeOK
  <2>2. Len(Bytes) \in T
    BY <1>1 DEF TypeOK
  <2>3. Min(T) \in T
    BY <2>1, <2>2, MinFacts
  <2>4. NextLine = Min(T)
    BY DEF NextLine
  <2>5. NextLine \in end..Len(Bytes)
    BY <2>1, <2>3, <2>4
  <2> QED BY <1>1, <2>5 DEF TypeOK
<1>3. TypeOK' /\ FileInv'
  BY <1>1, <1>2 DEF Replace, TypeOK, FileInv
<1>4. ShownInv' /\ LiveInv'
  BY <1>2, <1>3, ShownKept DEF Replace, TypeOK
<1>5. ReachedInv'
  BY DEF Replace, ReachedInv
<1> QED BY <1>3, <1>4, <1>5

(***************************************************************************)
(* StartWatcher: it stands at the end of the text there is.                *)
(***************************************************************************)
LEMMA StartWatcherInv == IInv /\ StartWatcher => IInv'
<1> SUFFICES ASSUME IInv, StartWatcher PROVE IInv'
  OBVIOUS
<1> USE DEF IInv
<1>1. Bytes' = Bytes /\ Len(Bytes) \in Nat
  BY SameText, BytesFacts DEF StartWatcher, TypeOK
<1>2. Baseline \in Nat /\ base + Baseline = end
  BY DEF TypeOK, FileInv, Baseline
<1>3. shown = <<>> /\ ~isLive /\ ~replaced
  BY DEF StartWatcher, FileInv
<1>4. TypeOK' /\ FileInv'
  BY <1>1, <1>2, <1>3 DEF StartWatcher, TypeOK, FileInv
<1>5. ShownInv' /\ LiveInv'
  BY <1>3 DEF StartWatcher, ShownInv, LiveInv
<1>6. ReachedInv'
  <2>1. PICK m : m = end
    OBVIOUS
  <2>2. m \in Nat
    BY <2>1 DEF TypeOK
  <2>3. Broadcast(Split(m + 1, m)) = {}
    <3>1. ASSUME NEW p \in Split(m + 1, m) PROVE FALSE
      <4>1. m + 1 \in Nat
        BY <2>2
      <4>2. p \in Nat \X Nat /\ m + 1 <= p[1] /\ p[1] <= p[2] /\ p[2] < m
        BY <2>2, <4>1, SplitElement
      <4> QED BY <2>2, <4>2
    <3>2. Split(m + 1, m) = {}
      BY <3>1
    <3> QED BY <3>2, BroadcastFacts
  <2>4. shown' = InOrder(Broadcast(Split(m + 1, m)))
    BY <1>3, <2>3, NoPieces DEF StartWatcher
  <2>5. base' <= m /\ base' + offset' = m /\ m = end' /\ m = start' /\ pc' = "idle" /\ watcher' = watcher
    BY <1>2, <2>1 DEF StartWatcher, TypeOK
  <2>6. Reached(m)'
    BY <2>2, <2>3, <2>4, <2>5, ReachedNext
  <2> QED BY <2>2, <2>6 DEF ReachedInv
<1> QED BY <1>4, <1>5, <1>6

(***************************************************************************)
(* Stat: a file that was not replaced is never shorter than the offset.    *)
(***************************************************************************)
LEMMA StatInv == IInv /\ Stat => IInv'
<1> SUFFICES ASSUME IInv, Stat PROVE IInv'
  OBVIOUS
<1> USE DEF IInv
<1>1. Bytes' = Bytes /\ Len(Bytes) \in Nat
  BY SameText, BytesFacts DEF Stat, TypeOK
<1>2. EffectiveOffset \in Nat /\ end - base \in Nat
  BY DEF TypeOK, EffectiveOffset
<1>3. TypeOK' /\ FileInv'
  BY <1>1, <1>2 DEF Stat, TypeOK, FileInv
<1>4. ShownInv' /\ LiveInv'
  BY ShownKept DEF Stat, TypeOK
<1>5. ReachedInv'
  <2> SUFFICES ASSUME ~replaced PROVE \E m \in Nat : Reached(m)'
    BY DEF ReachedInv, Stat
  <2>1. PICK m \in Nat : Reached(m)
    BY DEF ReachedInv, Stat
  <2>2. EffectiveOffset = offset /\ m <= end
    BY <2>1 DEF Reached, TypeOK, EffectiveOffset
  <2>3. offset' = offset
    BY <2>2 DEF Stat
  <2>4. pc' = "read" => from' = offset' /\ m <= base' + size' /\ base' + size' <= end'
    BY <2>2, <2>3 DEF Stat, TypeOK
  <2>5. Reached(m)'
    BY <2>1, <2>3, <2>4, ReachedKept DEF Stat, TypeOK
  <2> QED BY <2>5
<1> QED BY <1>3, <1>4, <1>5

(***************************************************************************)
(* Absent: without a file there was nothing to stand behind.               *)
(***************************************************************************)
LEMMA AbsentInv == IInv /\ Absent => IInv'
<1> SUFFICES ASSUME IInv, Absent PROVE IInv'
  OBVIOUS
<1> USE DEF IInv
<1>1. Bytes' = Bytes /\ Len(Bytes) \in Nat
  BY SameText, BytesFacts DEF Absent, TypeOK
<1>2. TypeOK' /\ FileInv'
  BY <1>1 DEF Absent, TypeOK, FileInv
<1>3. ShownInv' /\ LiveInv'
  BY ShownKept DEF Absent, TypeOK
<1>4. ReachedInv'
  <2> SUFFICES ASSUME ~replaced PROVE \E m \in Nat : Reached(m)'
    BY DEF ReachedInv, Absent
  <2>1. PICK m \in Nat : Reached(m)
    BY DEF ReachedInv, Absent
  <2>2. offset = 0
    BY <2>1 DEF Reached, TypeOK, FileInv, Absent
  <2>3. offset' = offset /\ pc' # "read"
    BY <2>2 DEF Absent
  <2>4. Reached(m)'
    BY <2>1, <2>3, ReachedKept DEF Absent, TypeOK
  <2> QED BY <2>4
<1> QED BY <1>2, <1>3, <1>4

(***************************************************************************)
(* ReadFails: the next tick looks again from the same offset.              *)
(***************************************************************************)
LEMMA ReadFailsInv == IInv /\ ReadFails => IInv'
<1> SUFFICES ASSUME IInv, ReadFails PROVE IInv'
  OBVIOUS
<1> USE DEF IInv
<1>1. Bytes' = Bytes /\ Len(Bytes) \in Nat
  BY SameText, BytesFacts DEF ReadFails, TypeOK
<1>2. TypeOK' /\ FileInv'
  BY <1>1 DEF ReadFails, TypeOK, FileInv
<1>3. ShownInv' /\ LiveInv'
  BY ShownKept DEF ReadFails, TypeOK
<1>4. ReachedInv'
  <2> SUFFICES ASSUME ~replaced PROVE \E m \in Nat : Reached(m)'
    BY DEF ReachedInv, ReadFails
  <2>1. PICK m \in Nat : Reached(m)
    BY DEF ReachedInv, ReadFails
  <2>2. Reached(m)'
    BY <2>1, ReachedKept DEF ReadFails, TypeOK
  <2> QED BY <2>2
<1> QED BY <1>2, <1>3, <1>4

(***************************************************************************)
(* What a read shows, and how far it gets: the lines between the byte a    *)
(* and the last line end before the byte b.                                *)
(***************************************************************************)
LEMMA ReadStep ==
    ASSUME IInv, Read
    PROVE  \E a, b \in Nat :
             /\ a = base + from + 1 /\ start < a /\ b <= end /\ b \in {base + size, end}
             /\ \/ offset' = from /\ UNCHANGED <<shown, isLive>>
                \/ \E c \in a..b :
                     /\ Bytes[c] = "newline"
                     /\ \A k \in a..b : Bytes[k] = "newline" => k <= c
                     /\ offset' = from + Decoded(a, c)
                     /\ shown' = shown \o InOrder(Broadcast(Split(a, b)))
                     /\ isLive' = (isLive \/ (watcher = "latencies" /\ Broadcast(Split(a, b)) # {}))
<1> USE DEF IInv
<1>1. PICK a, b : a = base + from + 1 /\ b = Min({base + size, end})
  OBVIOUS
<1>2. b \in {base + size, end} /\ b <= end /\ a \in Nat /\ b \in Nat
  <2>1. {base + size, end} \in SUBSET Nat /\ base + size \in Nat /\ end \in Nat
    BY DEF TypeOK
  <2>2. b \in {base + size, end} /\ \A n \in {base + size, end} : b <= n
    BY <1>1, <2>1, MinFacts
  <2> QED BY <1>1, <2>1, <2>2 DEF TypeOK
<1>3. start < a
  <2>1. CASE replaced
    BY <1>1, <2>1 DEF TypeOK, FileInv
  <2>2. CASE ~replaced
    <3>1. PICK m \in Nat : Reached(m)
      BY <2>2 DEF ReachedInv, Read
    <3> QED BY <1>1, <3>1 DEF Reached, TypeOK, Read
  <2> QED BY <2>1, <2>2
<1>4. PICK N : N = {k \in a..b : Bytes[k] = "newline"}
  OBVIOUS
<1>5. \/ N = {} /\ offset' = from /\ UNCHANGED <<shown, isLive>>
      \/ /\ N # {}
         /\ offset' = Consumed(a, Max(N))
         /\ shown' = shown \o InOrder(Broadcast(Split(a, b)))
         /\ isLive' = (isLive \/ (watcher = "latencies" /\ Broadcast(Split(a, b)) # {}))
  BY <1>1, <1>4 DEF Read
<1>6. ASSUME N # {}
      PROVE  \E c \in a..b : /\ c = Max(N) /\ Bytes[c] = "newline"
                             /\ \A k \in a..b : Bytes[k] = "newline" => k <= c
  <2>1. N \in SUBSET Nat /\ \A k \in N : k <= b
    BY <1>2, <1>4
  <2>2. Max(N) \in N /\ \A k \in N : k <= Max(N)
    BY <1>2, <1>6, <2>1, MaxFacts
  <2> QED BY <1>4, <2>2
<1> QED BY <1>1, <1>2, <1>3, <1>5, <1>6 DEF Consumed

(***************************************************************************)
(* Read: the lines it shows are the next ones, or it comes again upon      *)
(* lines that were shown already, and then also upon all that follow.      *)
(***************************************************************************)
LEMMA ReadInv == IInv /\ Read => IInv'
<1> SUFFICES ASSUME IInv, Read PROVE IInv'
  OBVIOUS
<1> USE DEF IInv
<1>1. Bytes' = Bytes /\ Len(Bytes) \in Nat
  BY SameText, BytesFacts DEF Read, TypeOK
<1>2. PICK a \in Nat, b \in Nat :
        /\ a = base + from + 1 /\ start < a /\ b <= end /\ b \in {base + size, end}
        /\ \/ offset' = from /\ UNCHANGED <<shown, isLive>>
           \/ \E c \in a..b :
                /\ Bytes[c] = "newline"
                /\ \A k \in a..b : Bytes[k] = "newline" => k <= c
                /\ offset' = from + Decoded(a, c)
                /\ shown' = shown \o InOrder(Broadcast(Split(a, b)))
                /\ isLive' = (isLive \/ (watcher = "latencies" /\ Broadcast(Split(a, b)) # {}))
  BY ReadStep
<1>3. /\ pc = "read" /\ pc' = "idle"
      /\ UNCHANGED <<watcher, exists, base, end, from, size, start, replaced>>
  BY DEF Read
<1>4. FileInv'
  BY <1>3 DEF FileInv
<1>5. CASE offset' = from /\ UNCHANGED <<shown, isLive>>
  <2>1. TypeOK'
    BY <1>1, <1>3, <1>5 DEF TypeOK
  <2>2. ShownInv' /\ LiveInv'
    BY <1>3, <1>5, ShownKept DEF TypeOK
  <2>3. ReachedInv'
    <3> SUFFICES ASSUME ~replaced PROVE \E m \in Nat : Reached(m)'
      BY <1>3 DEF ReachedInv
    <3>1. PICK m \in Nat : Reached(m)
      BY <1>3 DEF ReachedInv
    <3>2. offset' = offset
      BY <1>3, <1>5, <3>1 DEF Reached
    <3>3. Reached(m)'
      BY <1>3, <1>5, <3>1, <3>2, ReachedKept DEF TypeOK
    <3> QED BY <3>3
  <2> QED BY <1>4, <2>1, <2>2, <2>3
<1>6. ASSUME NEW c \in a..b,
             Bytes[c] = "newline", \A k \in a..b : Bytes[k] = "newline" => k <= c,
             offset' = from + Decoded(a, c),
             shown' = shown \o InOrder(Broadcast(Split(a, b))),
             isLive' = (isLive \/ (watcher = "latencies" /\ Broadcast(Split(a, b)) # {}))
      PROVE  IInv'
  <2>1. PICK lines, d : lines = Broadcast(Split(a, b)) /\ d = Decoded(a, c)
    OBVIOUS
  <2>2. c \in Nat /\ a <= c /\ c <= b
    BY <1>2
  <2>3. d \in Nat /\ d <= c - a + 1 /\ (OneByteOnly(a, a + d - 1) => d = c - a + 1)
    BY <1>6, <2>1, <2>2, DecodedFacts
  <2>4. Apart(lines) /\ lines \subseteq Split(a, b)
    BY <2>1, SplitApart, BroadcastFacts
  <2>5. InOrder(lines) \in Seq(Nat \X Nat) /\ Range(InOrder(lines)) = lines
    <3>1. InOrder(lines) \in Seq(lines) /\ Range(InOrder(lines)) = lines
      BY <2>4, InOrderFacts
    <3>2. lines \subseteq Nat \X Nat
      BY <2>4 DEF Apart
    <3> QED BY <3>1, <3>2
  <2>6. shown' \in Seq(Nat \X Nat) /\ Range(shown') = Range(shown) \union lines
    <3>1. shown \in Seq(Nat \X Nat) /\ shown' = shown \o InOrder(lines)
      BY <1>6, <2>1 DEF TypeOK
    <3> QED BY <2>5, <3>1, Appended
  <2>7. \A p \in lines : p[1] \in Nat /\ p[2] \in Nat /\ a <= p[1] /\ p[2] < b
    BY <2>4, SplitElement
  <2>8. TypeOK'
    <3>1. offset' \in Nat
      BY <1>6, <2>1, <2>3 DEF TypeOK
    <3>2. isLive' \in BOOLEAN
      BY <1>6
    <3> QED BY <1>1, <1>3, <2>6, <3>1, <3>2 DEF TypeOK
  <2>9. ShownInv'
    <3>1. \A p \in Range(shown) : p[1] > start /\ p[2] < end
      BY ShownAsSet
    <3>2. \A p \in lines : p[1] > start /\ p[2] < end
      BY <1>2, <2>7 DEF TypeOK
    <3>3. \A k \in DOMAIN shown' : shown'[k] \in Range(shown')
      BY DEF Range
    <3> QED BY <1>3, <2>6, <3>1, <3>2, <3>3 DEF ShownInv
  <2>10. LiveInv'
    <3> SUFFICES ASSUME isLive' PROVE \E p \in Range(shown') : Whole(p)
      <4>1. \A p \in Range(shown') : \E k \in DOMAIN shown' : shown'[k] = p
        BY DEF Range
      <4>2. (\E k \in DOMAIN shown' : Whole(shown'[k])) => LiveInv'
        BY <1>1 DEF LiveInv, Whole
      <4> QED BY <4>1, <4>2 DEF LiveInv
    <3>1. CASE isLive
      <4>1. \E p \in Range(shown) : Whole(p)
        BY <3>1, ShownAsSet
      <4> QED BY <2>6, <4>1
    <3>2. CASE watcher = "latencies" /\ lines # {}
      <4>1. \A p \in lines : Whole(p)
        BY <2>1, <3>2, BroadcastFacts
      <4> QED BY <2>6, <3>2, <4>1
    <3> QED BY <1>6, <2>1, <3>1, <3>2
  <2>11. ReachedInv'
    <3> SUFFICES ASSUME ~replaced PROVE \E m \in Nat : Reached(m)'
      BY <1>3 DEF ReachedInv
    <3>1. PICK m \in Nat : Reached(m)
      BY <1>3 DEF ReachedInv
    <3>2. PICK s, o : s = start /\ o = base + offset
      OBVIOUS
    <3>3. /\ s \in Nat /\ o \in Nat /\ base <= s /\ s <= o /\ o <= m /\ a = o + 1
          /\ m <= b /\ (m = s \/ Bytes[m] = "newline")
          /\ base' + offset' = o + d
      <4>1. /\ base <= start /\ start <= base + offset /\ base + offset <= m /\ m <= end
            /\ m = start \/ Bytes[m] = "newline"
            /\ from = offset /\ m <= base + size
        BY <1>3, <3>1 DEF Reached
      <4>2. base \in Nat /\ start \in Nat /\ offset \in Nat
        BY DEF TypeOK
      <4>3. m <= b
        BY <1>2, <4>1
      <4>4. base' + offset' = o + d
        BY <1>3, <1>6, <2>1, <2>3, <3>2, <4>1, <4>2
      <4> QED BY <1>2, <3>2, <4>1, <4>2, <4>3, <4>4
    <3>4. m <= c
      <4>1. a <= m => Bytes[m] = "newline" /\ m \in a..b
        BY <1>2, <3>2, <3>3
      <4> QED BY <1>6, <2>2, <4>1
    <3>5. Split(a, b) = Split(a, c)
      BY <1>6, SplitUpTo
    <3>6. /\ Split(s + 1, c) \subseteq Split(s + 1, m) \union Split(a, b)
          /\ a = m + 1 => Split(s + 1, c) = Split(s + 1, m) \union Split(a, b)
      <4>1. s <= m /\ s + 1 <= a /\ a <= m + 1
        BY <3>3
      <4>2. /\ Split(s + 1, c) \subseteq Split(s + 1, m) \union Split(a, c)
            /\ a = m + 1 => Split(s + 1, c) = Split(s + 1, m) \union Split(a, c)
        <5>1. /\ s \in Nat /\ m \in Nat /\ c \in Nat /\ a \in Nat
              /\ s <= m /\ m <= c /\ s + 1 <= a /\ a <= m + 1
              /\ m = s \/ Bytes[m] = "newline"
          BY <2>2, <3>3, <3>4, <4>1
        <5> QED BY <5>1, SplitAt, Zenon
      <4> QED BY <3>5, <4>2
    <3>7. /\ Broadcast(Split(s + 1, m)) \subseteq Range(shown)
          /\ OneByteOnly(s + 1, o) => o = m /\ shown = InOrder(Broadcast(Split(s + 1, m)))
      BY <3>1, <3>2 DEF Reached
    <3>8. Broadcast(Split(s + 1, c)) \subseteq Range(shown')
      <4>1. /\ Broadcast(Split(s + 1, c)) \subseteq Broadcast(Split(s + 1, m) \union Split(a, b))
            /\ Broadcast(Split(s + 1, m) \union Split(a, b)) =
                 Broadcast(Split(s + 1, m)) \union Broadcast(Split(a, b))
        BY <3>6, BroadcastFacts
      <4> QED BY <2>1, <2>6, <3>7, <4>1
    <3>9. ASSUME OneByteOnly(s + 1, o + d)
          PROVE  o + d = c /\ shown' = InOrder(Broadcast(Split(s + 1, c)))
      <4>1. OneByteOnly(s + 1, o)
        <5>1. \A k \in (s + 1)..o : k \in (s + 1)..(o + d)
          BY <2>3, <3>3
        <5> QED BY <3>9, <5>1 DEF OneByteOnly
      <4>2. OneByteOnly(a, a + d - 1)
        <5>1. \A k \in a..(a + d - 1) : k \in (s + 1)..(o + d)
          BY <2>3, <3>3
        <5> QED BY <3>9, <5>1 DEF OneByteOnly
      <4>3. o + d = c
        BY <2>2, <2>3, <3>3, <4>2
      <4>4. o = m /\ a = m + 1 /\ shown = InOrder(Broadcast(Split(s + 1, m)))
        BY <3>3, <3>7, <4>1
      <4>5. PICK P : P = Broadcast(Split(s + 1, m))
        OBVIOUS
      <4>6. s + 1 \in Nat
        BY <3>3
      <4>7. Apart(P) /\ P \subseteq Split(s + 1, m)
        BY <4>5, <4>6, SplitApart, BroadcastFacts
      <4>8. \A p \in P : p[1] \in Nat /\ p[1] < m
        <5>1. \A p \in P : p \in Nat \X Nat /\ p[1] <= p[2] /\ p[2] < m
          BY <4>6, <4>7, SplitElement
        <5> QED BY <5>1
      <4>9. \A p \in P, q \in lines : p[1] < q[1]
        BY <2>7, <4>4, <4>8
      <4>10. InOrder(P \union lines) = InOrder(P) \o InOrder(lines)
        BY <2>4, <4>7, <4>9, InOrderUnion
      <4>11. Broadcast(Split(s + 1, c)) = P \union lines
        BY <2>1, <3>6, <4>4, <4>5, BroadcastFacts
      <4>12. shown' = InOrder(P) \o InOrder(lines)
        BY <1>6, <2>1, <4>4, <4>5
      <4> QED BY <4>3, <4>10, <4>11, <4>12
    <3>10. /\ base' <= s /\ s <= base' + offset' /\ base' + offset' <= c /\ c <= end'
           /\ s = start' /\ pc' # "read" /\ watcher' = watcher
      BY <1>2, <1>3, <2>2, <2>3, <3>2, <3>3 DEF TypeOK
    <3>11. OneByteOnly(s + 1, base' + offset') =>
             base' + offset' = c /\ shown' = InOrder(Broadcast(Split(s + 1, c)))
      BY <3>3, <3>9
    <3>12. Reached(c)'
      BY <1>6, <2>2, <3>8, <3>10, <3>11, ReachedNext
    <3> QED BY <2>2, <3>12
  <2> QED BY <1>4, <2>8, <2>9, <2>10, <2>11
<1> QED BY <1>2, <1>5, <1>6

-----------------------------------------------------------------------------
(***************************************************************************)
(* Every step keeps the invariant.                                         *)
(***************************************************************************)
LEMMA NextInv == IInv /\ [Next]_vars => IInv'
<1> SUFFICES ASSUME IInv, [Next]_vars PROVE IInv'
  OBVIOUS
<1>1. CASE Next
  BY <1>1, WriteInv, ReplaceInv, StartWatcherInv, StatInv, AbsentInv, ReadInv, ReadFailsInv
     DEF Next
<1>2. CASE UNCHANGED vars
  <2>1. Bytes' = Bytes
    BY <1>2, SameText DEF vars
  <2>2. TypeOK' /\ FileInv'
    BY <1>2, <2>1 DEF IInv, TypeOK, FileInv, vars
  <2>3. ShownInv' /\ LiveInv'
    BY <1>2, ShownKept DEF IInv, TypeOK, vars
  <2>4. ReachedInv'
    <3> SUFFICES ASSUME pc # "off", ~replaced PROVE \E m \in Nat : Reached(m)'
      BY <1>2 DEF ReachedInv, vars
    <3>1. PICK m \in Nat : Reached(m)
      BY DEF IInv, ReachedInv
    <3>2. pc' = "read" => from' = offset' /\ m <= base' + size' /\ base' + size' <= end'
      BY <1>2, <3>1 DEF Reached, vars
    <3>3. Reached(m)'
      BY <1>2, <3>1, <3>2, ReachedKept DEF IInv, TypeOK, vars
    <3> QED BY <3>3
  <2> QED BY <2>2, <2>3, <2>4 DEF IInv
<1> QED BY <1>1, <1>2

(***************************************************************************)
(* The invariant says what the watchers promise.                           *)
(***************************************************************************)
LEMMA InvImplies == IInv => ShownOnceAndWhole
<1> SUFFICES ASSUME IInv PROVE ShownOnceAndWhole
  OBVIOUS
<1> USE DEF IInv
<1>1. ASSUME pc # "off", ~replaced
      PROVE  /\ Broadcast(Split(start + 1, base + offset)) \subseteq Range(shown)
             /\ OneByteOnly(start + 1, base + offset) =>
                  shown = InOrder(Broadcast(Split(start + 1, base + offset)))
  <2>1. PICK m \in Nat : Reached(m)
    BY <1>1 DEF ReachedInv
  <2>2. start + 1 \in Nat /\ base + offset \in Nat /\ base + offset <= m
    BY <2>1 DEF Reached, TypeOK
  <2>3. Split(start + 1, base + offset) \subseteq Split(start + 1, m)
    BY <2>2, SplitMonotone
  <2>4. Broadcast(Split(start + 1, base + offset)) \subseteq Broadcast(Split(start + 1, m))
    BY <2>3, BroadcastFacts
  <2> QED BY <2>1, <2>4 DEF Reached
<1> QED BY <1>1 DEF ShownOnceAndWhole, ShownInv, LiveInv

(***************************************************************************)
(* The state of a watcher has its type: the file is a part of the text     *)
(* and the offset is never negative, whatever the length of a decoded read.*)
(***************************************************************************)
THEOREM TypeCorrect == Spec => []TypeOK
<1>1. IInv => TypeOK
  BY DEF IInv
<1> QED BY <1>1, InitInv, NextInv, PTL DEF Spec

(***************************************************************************)
(* For every text: what was on disk at the start is never shown, only a    *)
(* whole line written since makes the dashboard live, and while the file   *)
(* is not replaced every line behind the offset was shown, with one-byte   *)
(* characters each once, whole and in order.                               *)
(***************************************************************************)
THEOREM LinesOnceAndWhole == Spec => []ShownOnceAndWhole
BY InitInv, NextInv, InvImplies, PTL DEF Spec
=============================================================================
