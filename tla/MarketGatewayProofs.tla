------------------------- MODULE MarketGatewayProofs --------------------------
(***************************************************************************)
(* What MarketGateway promises of its answers holds for every watchlist,   *)
(* page limit, count and clock.  The inductive invariant says what the     *)
(* batch about to be answered was made of; the rest are facts about the    *)
(* operators it is made with: sorting, choosing and sifting.               *)
(***************************************************************************)
EXTENDS MarketGateway, FiniteSetTheorems, WellFoundedInduction, TLAPS

-----------------------------------------------------------------------------
(* Induction over the naturals, and what of a sequence is in a set         *)

\* A set of naturals has a least member.
LEMMA LeastMember ==
  ASSUME NEW S \in SUBSET Nat, S # {}
  PROVE  \E m \in S : \A n \in S : m <= n
<1>1. IsWellFoundedOn(OpToRel(<, Nat), Nat)
  BY NatLessThanWellFounded
<1>2. PICK m \in S : \A n \in S : ~(<<n, m>> \in OpToRel(<, Nat))
  BY <1>1, WFMin
<1>3. \A n \in S : ~(n < m)
  BY <1>2 DEF OpToRel
<1> QED
  BY <1>3

\* A property of 0 that each number passes on to the next up to n.
LEMMA UpTo ==
  ASSUME NEW n \in Nat, NEW Good \in SUBSET (0 .. n), 0 \in Good,
         \A i \in 1 .. n : i - 1 \in Good => i \in Good
  PROVE  Good = 0 .. n
<1> SUFFICES ASSUME Good # 0 .. n PROVE FALSE
  OBVIOUS
<1> DEFINE Gap == (0 .. n) \ Good
<1>1. Gap \in SUBSET Nat /\ Gap # {}
  <2>1. Gap \in SUBSET Nat
    OBVIOUS
  <2>2. Gap = {} => Good = 0 .. n
    BY Zenon
  <2> QED
    BY <2>1, <2>2
<1>2. PICK m \in Gap : \A k \in Gap : m <= k
  BY <1>1, LeastMember
<1>3. m \in 1 .. n /\ m - 1 \in 0 .. n
  BY <1>2
<1>4. m - 1 \in Good
  BY <1>2, <1>3
<1> QED
  BY <1>2, <1>3, <1>4

PartOf(s, keep, part) ==
  [i \in 0 .. Len(s) |->
     IF i = 0 THEN <<>>
     ELSE IF s[i] \in keep THEN Append(part[i - 1], s[i]) ELSE part[i - 1]]

\* The parts that Those builds are a function there is.
LEMMA PartExists ==
  ASSUME NEW S, NEW s \in Seq(S), NEW keep
  PROVE  \E part : part = PartOf(s, keep, part)
<1> DEFINE Fits(n, part) ==
             /\ part \in [0 .. n -> Seq(S)]
             /\ \A i \in 0 .. n :
                  part[i] = IF i = 0 THEN <<>>
                            ELSE IF s[i] \in keep THEN Append(part[i - 1], s[i]) ELSE part[i - 1]
           Good == {n \in 0 .. Len(s) : \E part : Fits(n, part)}
<1>1. 0 \in Good
  <2>1. Fits(0, [i \in 0 .. 0 |-> <<>>])
    OBVIOUS
  <2>2. 0 \in 0 .. Len(s)
    OBVIOUS
  <2> HIDE DEF Fits
  <2> QED
    BY <2>1, <2>2
<1>2. ASSUME NEW n \in 1 .. Len(s), n - 1 \in Good PROVE n \in Good
  <2>1. PICK part : Fits(n - 1, part)
    BY <1>2
  <2> DEFINE longer == [i \in 0 .. n |->
               IF i < n THEN part[i]
               ELSE IF s[n] \in keep THEN Append(part[n - 1], s[n]) ELSE part[n - 1]]
  <2>2. s[n] \in S /\ n - 1 \in 0 .. n - 1
    OBVIOUS
  <2>3. part[n - 1] \in Seq(S)
    BY <2>1, <2>2
  <2>4. longer \in [0 .. n -> Seq(S)]
    BY <2>1, <2>2, <2>3
  <2>5. ASSUME NEW i \in 0 .. n
        PROVE  longer[i] = IF i = 0 THEN <<>>
                 ELSE IF s[i] \in keep THEN Append(longer[i - 1], s[i]) ELSE longer[i - 1]
    <3>1. CASE i = 0
      BY <2>1, <3>1
    <3>2. CASE i # 0
      <4>1. i - 1 \in 0 .. n - 1 /\ i - 1 \in 0 .. n /\ i - 1 < n
        BY <3>2
      <4>2. longer[i - 1] = part[i - 1]
        BY <4>1
      <4>3. CASE i = n
        <5>1. longer[n] = IF s[n] \in keep THEN Append(part[n - 1], s[n]) ELSE part[n - 1]
          OBVIOUS
        <5> HIDE DEF longer
        <5> QED
          BY <3>2, <4>2, <4>3, <5>1
      <4>4. CASE i # n
        <5>1. i \in 0 .. n - 1 /\ longer[i] = part[i]
          BY <4>4
        <5> HIDE DEF longer
        <5> QED
          BY <2>1, <3>2, <4>2, <5>1
      <4> QED
        BY <4>3, <4>4
    <3> QED
      BY <3>1, <3>2
  <2> HIDE DEF longer
  <2>6. Fits(n, longer)
    BY <2>4, <2>5
  <2> HIDE DEF Fits
  <2>7. n \in 0 .. Len(s)
    OBVIOUS
  <2> QED
    BY <2>6, <2>7
<1>3. Good = 0 .. Len(s)
  <2> HIDE DEF Good
  <2>1. Good \in SUBSET (0 .. Len(s))
    BY DEF Good
  <2> QED
    BY <1>1, <1>2, <2>1, UpTo
<1>4. PICK part : Fits(Len(s), part)
  BY <1>3
<1>5. part = PartOf(s, keep, part)
  BY <1>4 DEF PartOf
<1> QED
  BY <1>5

\* What an appended sequence holds.
LEMMA AppendAdds ==
  ASSUME NEW S, NEW s \in Seq(S), NEW e
  PROVE  ToSet(Append(s, e)) = ToSet(s) \cup {e}
<1>1. DOMAIN s = 1 .. Len(s) /\ DOMAIN Append(s, e) = 1 .. (Len(s) + 1)
  OBVIOUS
<1>2. \A i \in 1 .. (Len(s) + 1) : Append(s, e)[i] = IF i \in 1 .. Len(s) THEN s[i] ELSE e
  OBVIOUS
<1>3. Len(s) + 1 \in 1 .. (Len(s) + 1) /\ Len(s) + 1 \notin 1 .. Len(s)
  OBVIOUS
<1>4. 1 .. Len(s) \subseteq 1 .. (Len(s) + 1)
  OBVIOUS
<1>5. \A i \in 1 .. (Len(s) + 1) : i \in 1 .. Len(s) \/ i = Len(s) + 1
  OBVIOUS
<1> QED
  BY <1>1, <1>2, <1>3, <1>4, <1>5 DEF ToSet

\* Those is the last of its parts.
LEMMA PartIsThose ==
  ASSUME NEW S, NEW s \in Seq(S), NEW keep
  PROVE  \E part : part = PartOf(s, keep, part) /\ Those(s, keep) = part[Len(s)]
<1> DEFINE part == CHOOSE p : p = PartOf(s, keep, p)
<1>1. part = PartOf(s, keep, part)
  BY PartExists
<1>2. Those(s, keep) = part[Len(s)]
  BY DEF Those, PartOf
<1> QED
  BY <1>1, <1>2

\* Those holds what of the sequence is in the set.
LEMMA ThoseAreThere ==
  ASSUME NEW S, NEW s \in Seq(S), NEW keep
  PROVE  /\ Those(s, keep) \in Seq(S)
         /\ ToSet(Those(s, keep)) = ToSet(s) \cap keep
<1>1. PICK part : part = PartOf(s, keep, part) /\ Those(s, keep) = part[Len(s)]
  BY PartIsThose
<1> DEFINE Right(n) == /\ part[n] \in Seq(S)
                       /\ ToSet(part[n]) = {s[i] : i \in 1 .. n} \cap keep
           Good == {n \in 0 .. Len(s) : Right(n)}
<1>2. \A i \in 0 .. Len(s) :
        part[i] = IF i = 0 THEN <<>>
                  ELSE IF s[i] \in keep THEN Append(part[i - 1], s[i]) ELSE part[i - 1]
  BY <1>1 DEF PartOf
<1>3. 0 \in Good
  <2>1. 0 \in 0 .. Len(s)
    OBVIOUS
  <2>2. part[0] = <<>>
    BY <1>2, <2>1
  <2>3. ToSet(<<>>) = {} /\ <<>> \in Seq(S)
    BY DEF ToSet
  <2>4. {s[i] : i \in 1 .. 0} = {}
    OBVIOUS
  <2>5. Right(0)
    BY <2>2, <2>3, <2>4
  <2> HIDE DEF Right
  <2> QED
    BY <2>1, <2>5
<1>4. ASSUME NEW n \in 1 .. Len(s), n - 1 \in Good PROVE n \in Good
  <2>1. part[n - 1] \in Seq(S) /\ ToSet(part[n - 1]) = {s[i] : i \in 1 .. n - 1} \cap keep
    BY <1>4
  <2>2. {s[i] : i \in 1 .. n} = {s[i] : i \in 1 .. n - 1} \cup {s[n]}
    OBVIOUS
  <2>3. CASE s[n] \in keep
    <3>1. part[n] = Append(part[n - 1], s[n])
      <4>1. n \in 0 .. Len(s) /\ n # 0
        OBVIOUS
      <4> QED
        BY <1>2, <2>3, <4>1
    <3>2. ToSet(part[n]) = ToSet(part[n - 1]) \cup {s[n]}
      BY <2>1, <3>1, AppendAdds
    <3>3. s[n] \in S /\ part[n] \in Seq(S)
      BY <2>1, <3>1
    <3>4. ToSet(part[n]) = {s[i] : i \in 1 .. n} \cap keep
      BY <2>1, <2>2, <2>3, <3>2
    <3> QED
      BY <3>3, <3>4
  <2>4. CASE s[n] \notin keep
    <3>1. part[n] = part[n - 1]
      <4>1. n \in 0 .. Len(s) /\ n # 0
        OBVIOUS
      <4> QED
        BY <1>2, <2>4, <4>1
    <3> QED
      BY <2>1, <2>2, <2>4, <3>1
  <2> QED
    BY <2>3, <2>4
<1>5. Good = 0 .. Len(s)
  <2> HIDE DEF Good
  <2>1. Good \in SUBSET (0 .. Len(s))
    BY DEF Good
  <2> QED
    BY <1>3, <1>4, <2>1, UpTo
<1>6. Right(Len(s))
  <2>1. Len(s) \in 0 .. Len(s)
    OBVIOUS
  <2> QED
    BY <1>5, <2>1
<1>7. ToSet(s) = {s[i] : i \in 1 .. Len(s)}
  BY DEF ToSet
<1> QED
  BY <1>1, <1>6, <1>7

-----------------------------------------------------------------------------
(* Sorting                                                                 *)

SortedBy(p, s, n) == \A i, j \in 1 .. n : i < j => s[p[i]] <= s[p[j]]

\* A sorted beginning stays sorted with one more member put in its place.
LEMMA InsertionSorts ==
  ASSUME NEW n \in Nat, NEW s \in [1 .. n -> Int], NEW k \in 1 .. n,
         NEW p \in Bijection(1 .. (k - 1), 1 .. (k - 1)), SortedBy(p, s, k - 1)
  PROVE  \E q \in Bijection(1 .. k, 1 .. k) : SortedBy(q, s, k)
<1>1. p \in [1 .. (k - 1) -> 1 .. (k - 1)]
  BY DEF Bijection, Injection
<1>2. \A i, j \in 1 .. (k - 1) : p[i] = p[j] => i = j
  BY DEF Bijection, Injection, IsInjective
<1>3. \A t \in 1 .. (k - 1) : \E i \in 1 .. (k - 1) : p[i] = t
  BY DEF Bijection, Surjection
<1> DEFINE Room == {i \in 1 .. k : i = k \/ s[p[i]] > s[k]}
<1>4. PICK m \in Room : \A i \in Room : m <= i
  <2>1. Room \in SUBSET Nat /\ k \in Room
    OBVIOUS
  <2> HIDE DEF Room
  <2>2. Room # {}
    BY <2>1
  <2> QED
    BY <2>1, <2>2, LeastMember
<1>5. m \in 1 .. k
  BY <1>4
<1>6. \A i \in 1 .. k : i < m => i \in 1 .. (k - 1) /\ s[p[i]] <= s[k]
  <2> SUFFICES ASSUME NEW i \in 1 .. k, i < m PROVE i \in 1 .. (k - 1) /\ s[p[i]] <= s[k]
    OBVIOUS
  <2>1. i \in 1 .. (k - 1) /\ i \notin Room
    BY <1>4, <1>5
  <2>2. p[i] \in 1 .. n /\ s[p[i]] \in Int /\ s[k] \in Int
    BY <1>1, <2>1
  <2> QED
    BY <2>1, <2>2
<1>7. \A i \in 1 .. (k - 1) : m <= i => s[k] <= s[p[i]]
  <2> SUFFICES ASSUME NEW i \in 1 .. (k - 1), m <= i PROVE s[k] <= s[p[i]]
    OBVIOUS
  <2>1. m \in 1 .. (k - 1) /\ m # k
    BY <1>5
  <2>2. s[p[m]] > s[k]
    BY <1>4, <2>1
  <2>3. p[m] \in 1 .. n /\ p[i] \in 1 .. n
    BY <1>1, <2>1
  <2>4. s[p[m]] \in Int /\ s[p[i]] \in Int /\ s[k] \in Int
    BY <2>3
  <2>5. s[p[m]] <= s[p[i]]
    BY <2>1, <2>4 DEF SortedBy
  <2> QED
    BY <2>2, <2>4, <2>5
<1> DEFINE q == [i \in 1 .. k |-> IF i < m THEN p[i] ELSE IF i = m THEN k ELSE p[i - 1]]
<1>8. \A i \in 1 .. k :
         \/ i < m /\ i \in 1 .. (k - 1) /\ q[i] = p[i] /\ q[i] \in 1 .. (k - 1)
         \/ i = m /\ q[i] = k
         \/ i > m /\ i - 1 \in 1 .. (k - 1) /\ q[i] = p[i - 1] /\ q[i] \in 1 .. (k - 1)
  <2> SUFFICES ASSUME NEW i \in 1 .. k
      PROVE \/ i < m /\ i \in 1 .. (k - 1) /\ q[i] = p[i] /\ q[i] \in 1 .. (k - 1)
            \/ i = m /\ q[i] = k
            \/ i > m /\ i - 1 \in 1 .. (k - 1) /\ q[i] = p[i - 1] /\ q[i] \in 1 .. (k - 1)
    OBVIOUS
  <2>1. CASE i < m
    BY <1>1, <1>5, <2>1
  <2>2. CASE i = m
    BY <2>2
  <2>3. CASE i > m
    <3>1. i - 1 \in 1 .. (k - 1) /\ q[i] = p[i - 1]
      BY <1>5, <2>3
    <3> QED
      BY <1>1, <2>3, <3>1
  <2> QED
    BY <1>5, <2>1, <2>2, <2>3
<1>9. q \in [1 .. k -> 1 .. k]
  <2>1. \A i \in 1 .. k : q[i] \in 1 .. k
    <3>1. 1 .. (k - 1) \subseteq 1 .. k /\ k \in 1 .. k
      OBVIOUS
    <3> HIDE DEF q
    <3> QED
      BY <1>8, <3>1
  <2>2. q = [i \in 1 .. k |-> q[i]]
    OBVIOUS
  <2> HIDE DEF q
  <2> QED
    BY <2>1, <2>2
<1> HIDE DEF q, Room
<1>10. \A i, j \in 1 .. k : q[i] = q[j] => i = j
  <2> SUFFICES ASSUME NEW i \in 1 .. k, NEW j \in 1 .. k, q[i] = q[j] PROVE i = j
    OBVIOUS
  <2>1. k \notin 1 .. (k - 1)
    OBVIOUS
  <2>2. \A l \in 1 .. k : l < m => l \in 1 .. (k - 1) /\ q[l] = p[l] /\ q[l] \in 1 .. (k - 1)
    BY <1>5, <1>8
  <2>3. q[m] = k
    BY <1>5, <1>8
  <2>4. \A l \in 1 .. k :
          l > m => l - 1 \in 1 .. (k - 1) /\ q[l] = p[l - 1] /\ q[l] \in 1 .. (k - 1)
    BY <1>5, <1>8
  <2>5. i = m <=> j = m
    BY <1>5, <2>1, <2>2, <2>3, <2>4
  <2>6. i < m /\ j > m => FALSE
    <3> SUFFICES ASSUME i < m, j > m PROVE FALSE
      OBVIOUS
    <3>1. i = j - 1
      BY <1>2, <2>2, <2>4
    <3> QED
      BY <1>5, <3>1
  <2>7. j < m /\ i > m => FALSE
    <3> SUFFICES ASSUME j < m, i > m PROVE FALSE
      OBVIOUS
    <3>1. j = i - 1
      BY <1>2, <2>2, <2>4
    <3> QED
      BY <1>5, <3>1
  <2>8. i < m /\ j < m => i = j
    BY <1>2, <2>2
  <2>9. i > m /\ j > m => i - 1 = j - 1
    BY <1>2, <2>4
  <2> QED
    BY <1>5, <2>5, <2>6, <2>7, <2>8, <2>9
<1>11. \A t \in 1 .. k : \E i \in 1 .. k : q[i] = t
  <2> SUFFICES ASSUME NEW t \in 1 .. k PROVE \E i \in 1 .. k : q[i] = t
    OBVIOUS
  <2>1. CASE t = k
    BY <1>5, <1>8, <2>1
  <2>2. CASE t # k
    <3>0. t \in 1 .. (k - 1)
      BY <2>2
    <3>1. PICK i \in 1 .. (k - 1) : p[i] = t
      BY <1>3, <3>0
    <3>2. CASE i < m
      <4>1. i \in 1 .. k
        OBVIOUS
      <4>2. q[i] = p[i]
        BY <1>5, <1>8, <3>2, <4>1
      <4> QED
        BY <3>1, <4>1, <4>2
    <3>3. CASE ~(i < m)
      <4>1. i + 1 \in 1 .. k /\ i + 1 > m /\ (i + 1) - 1 = i
        BY <1>5, <3>3
      <4>2. q[i + 1] = p[i]
        BY <1>5, <1>8, <4>1
      <4> QED
        BY <3>1, <4>1, <4>2
    <3> QED
      BY <3>2, <3>3
  <2> QED
    BY <2>1, <2>2
<1>12. SortedBy(q, s, k)
  <2> SUFFICES ASSUME NEW i \in 1 .. k, NEW j \in 1 .. k, i < j PROVE s[q[i]] <= s[q[j]]
    BY DEF SortedBy
  <2>1. \A l \in 1 .. (k - 1) : p[l] \in 1 .. n /\ s[p[l]] \in Int
    BY <1>1
  <2>2. s[k] \in Int
    OBVIOUS
  <2>3. \A a, b \in 1 .. (k - 1) : a < b => s[p[a]] <= s[p[b]]
    BY DEF SortedBy
  <2>4. \A a, b \in 1 .. (k - 1) : a <= b => s[p[a]] <= s[p[b]]
    BY <2>1, <2>3
  <2>5. CASE i < m
    <3>1. i \in 1 .. (k - 1) /\ q[i] = p[i] /\ s[p[i]] <= s[k]
      BY <1>5, <1>6, <1>8, <2>5
    <3>2. CASE j < m
      <4>1. j \in 1 .. (k - 1) /\ q[j] = p[j] /\ i <= j
        BY <1>5, <1>8, <3>2
      <4> QED
        BY <2>4, <3>1, <4>1
    <3>3. CASE j = m
      BY <1>5, <1>8, <3>1, <3>3
    <3>4. CASE j > m
      <4>1. j - 1 \in 1 .. (k - 1) /\ q[j] = p[j - 1] /\ i <= j - 1
        BY <1>5, <1>8, <3>4
      <4> QED
        BY <2>4, <3>1, <4>1
    <3> QED
      BY <1>5, <3>2, <3>3, <3>4
  <2>6. CASE ~(i < m)
    <3>1. j - 1 \in 1 .. (k - 1) /\ q[j] = p[j - 1] /\ i <= j - 1
      BY <1>5, <1>8, <2>6
    <3>2. CASE i = m
      <4>1. s[k] <= s[p[j - 1]]
        BY <1>7, <3>1, <3>2
      <4> QED
        BY <1>5, <1>8, <3>1, <3>2, <4>1
    <3>3. CASE i > m
      <4>1. i - 1 \in 1 .. (k - 1) /\ q[i] = p[i - 1] /\ i - 1 <= j - 1
        BY <1>5, <1>8, <3>3
      <4> QED
        BY <2>4, <3>1, <4>1
    <3> QED
      BY <1>5, <2>6, <3>2, <3>3
  <2> QED
    BY <2>5, <2>6
<1> QED
  BY <1>9, <1>10, <1>11, <1>12 DEF Bijection, Injection, Surjection, IsInjective

\* Every finite sequence of integers can be sorted.
LEMMA SortingExists ==
  ASSUME NEW n \in Nat, NEW s \in [1 .. n -> Int]
  PROVE  \E p \in Bijection(1 .. n, 1 .. n) : SortedBy(p, s, n)
<1> DEFINE Good == {k \in 0 .. n : \E p \in Bijection(1 .. k, 1 .. k) : SortedBy(p, s, k)}
<1>1. 0 \in Good
  <2>1. [i \in 1 .. 0 |-> i] \in Bijection(1 .. 0, 1 .. 0)
    BY DEF Bijection, Injection, Surjection, IsInjective
  <2>2. SortedBy([i \in 1 .. 0 |-> i], s, 0)
    BY DEF SortedBy
  <2> QED
    BY <2>1, <2>2
<1>2. ASSUME NEW k \in 1 .. n, k - 1 \in Good PROVE k \in Good
  BY <1>2, InsertionSorts
<1>3. Good = 0 .. n
  <2> HIDE DEF Good
  <2>1. Good \in SUBSET (0 .. n)
    BY DEF Good
  <2> QED
    BY <1>1, <1>2, <2>1, UpTo
<1> QED
  BY <1>3

\* sorted() neither adds nor loses a value.
LEMMA AscendingSorts ==
  ASSUME NEW s \in Seq(Int)
  PROVE  /\ Ascending(s) \in Seq(Int) /\ Len(Ascending(s)) = Len(s)
         /\ ToSet(Ascending(s)) = ToSet(s)
         /\ \A i, j \in 1 .. Len(s) : i < j => Ascending(s)[i] <= Ascending(s)[j]
<1> DEFINE n == Len(s)
           place == CHOOSE p \in Bijection(DOMAIN s, DOMAIN s) :
                      \A i, j \in DOMAIN s : i < j => s[p[i]] <= s[p[j]]
<1>1. DOMAIN s = 1 .. n /\ s \in [1 .. n -> Int] /\ n \in Nat
  OBVIOUS
<1>2. \E p \in Bijection(DOMAIN s, DOMAIN s) :
        \A i, j \in DOMAIN s : i < j => s[p[i]] <= s[p[j]]
  BY <1>1, SortingExists DEF SortedBy
<1>3. /\ place \in Bijection(DOMAIN s, DOMAIN s)
      /\ \A i, j \in DOMAIN s : i < j => s[place[i]] <= s[place[j]]
  BY <1>2, Zenon
<1>4. Ascending(s) = [i \in DOMAIN s |-> s[place[i]]]
  BY DEF Ascending
<1> HIDE DEF place
<1>5. place \in [1 .. n -> 1 .. n] /\ \A t \in 1 .. n : \E i \in 1 .. n : place[i] = t
  BY <1>1, <1>3 DEF Bijection, Injection, Surjection
<1>6. Ascending(s) \in [1 .. n -> Int]
  BY <1>1, <1>4, <1>5
<1>7. Ascending(s) \in Seq(Int) /\ Len(Ascending(s)) = n
  BY <1>1, <1>6
<1>8. ToSet(Ascending(s)) = ToSet(s)
  <2>1. DOMAIN Ascending(s) = 1 .. n /\ \A i \in 1 .. n : Ascending(s)[i] = s[place[i]]
    BY <1>1, <1>4
  <2>2. \A i \in 1 .. n : place[i] \in 1 .. n
    BY <1>5
  <2>3. ToSet(Ascending(s)) \subseteq ToSet(s)
    BY <1>1, <2>1, <2>2 DEF ToSet
  <2>4. ToSet(s) \subseteq ToSet(Ascending(s))
    <3> SUFFICES ASSUME NEW t \in 1 .. n PROVE s[t] \in ToSet(Ascending(s))
      BY <1>1 DEF ToSet
    <3>1. PICK i \in 1 .. n : place[i] = t
      BY <1>5
    <3>2. Ascending(s)[i] = s[t]
      BY <2>1, <3>1
    <3> QED
      BY <2>1, <3>2 DEF ToSet
  <2> QED
    BY <2>3, <2>4
<1> QED
  BY <1>1, <1>3, <1>4, <1>7, <1>8

\* The first row that fails decides: "ok" when none does.
LEMMA NoneIsWorse ==
  ASSUME NEW verdicts, DOMAIN verdicts \in SUBSET Nat, Worst(verdicts) = "ok"
  PROVE  \A i \in DOMAIN verdicts : verdicts[i] = "ok"
<1> DEFINE bad == {i \in DOMAIN verdicts : verdicts[i] # "ok"}
           first == CHOOSE i \in bad : \A j \in bad : i <= j
<1> SUFFICES ASSUME bad # {} PROVE FALSE
  OBVIOUS
<1>1. bad \in SUBSET Nat
  OBVIOUS
<1>2. \E i \in bad : \A j \in bad : i <= j
  <2> HIDE DEF bad
  <2> QED
    BY <1>1, LeastMember
<1>3. first \in bad
  BY <1>2, Zenon
<1>4. Worst(verdicts) = verdicts[first]
  BY DEF Worst
<1> QED
  BY <1>3, <1>4

-----------------------------------------------------------------------------
(* The pass over a disclosure                                              *)

\* What a pass over a disclosure has when it has read one more row.
Passed(sent, cutoff, received, i, was) ==
  LET verdict == HoldingVerdict(sent[i], was.previous, cutoff, received)
  IN IF verdict = "ok"
     THEN [kept |-> Append(was.kept, i), previous |-> {sent[i].avail},
           anomalies |-> IF sent[i].over
                         THEN Append(was.anomalies, <<i, "ABOVE_100">>)
                         ELSE was.anomalies]
     ELSE [was EXCEPT !.anomalies = Append(@, <<i, verdict>>)]

Unread == [kept |-> <<>>, anomalies |-> <<>>, previous |-> {}]

IsWalk(sent, cutoff, received, walk, n) ==
  /\ walk = [i \in 0 .. n |-> walk[i]]
  /\ walk[0] = Unread
  /\ \A i \in 1 .. n : walk[i] = Passed(sent, cutoff, received, i, walk[i - 1])

\* The pass over a disclosure is a function there is.
LEMMA WalkExists ==
  ASSUME NEW sent, Len(sent) \in Nat, NEW cutoff, NEW received
  PROVE  \E walk : IsWalk(sent, cutoff, received, walk, Len(sent))
<1> DEFINE Good == {n \in 0 .. Len(sent) : \E walk : IsWalk(sent, cutoff, received, walk, n)}
<1>1. 0 \in Good
  <2>1. IsWalk(sent, cutoff, received, [i \in 0 .. 0 |-> Unread], 0)
    BY DEF IsWalk
  <2>2. 0 \in 0 .. Len(sent)
    OBVIOUS
  <2> QED
    BY <2>1, <2>2
<1>2. ASSUME NEW n \in 1 .. Len(sent), n - 1 \in Good PROVE n \in Good
  <2>1. PICK walk : IsWalk(sent, cutoff, received, walk, n - 1)
    BY <1>2
  <2> DEFINE longer == [i \in 0 .. n |-> IF i < n THEN walk[i]
                                        ELSE Passed(sent, cutoff, received, n, walk[n - 1])]
  <2>2. longer = [i \in 0 .. n |-> longer[i]]
    OBVIOUS
  <2>3. longer[0] = Unread
    BY <2>1 DEF IsWalk
  <2>4. \A i \in 0 .. n : i < n => longer[i] = walk[i]
    OBVIOUS
  <2>5. longer[n] = Passed(sent, cutoff, received, n, walk[n - 1])
    OBVIOUS
  <2> HIDE DEF longer
  <2>6. ASSUME NEW i \in 1 .. n
        PROVE  longer[i] = Passed(sent, cutoff, received, i, longer[i - 1])
    <3>1. i - 1 \in 0 .. n /\ i - 1 < n
      OBVIOUS
    <3>2. longer[i - 1] = walk[i - 1]
      BY <2>4, <3>1
    <3>3. CASE i = n
      BY <2>5, <3>2, <3>3
    <3>4. CASE i # n
      <4>1. i \in 1 .. n - 1 /\ i \in 0 .. n /\ i < n
        BY <3>4
      <4>2. walk[i] = Passed(sent, cutoff, received, i, walk[i - 1])
        BY <2>1, <4>1 DEF IsWalk
      <4> QED
        BY <2>4, <3>2, <4>1, <4>2
    <3> QED
      BY <3>3, <3>4
  <2>7. IsWalk(sent, cutoff, received, longer, n)
    BY <2>2, <2>3, <2>6 DEF IsWalk
  <2>8. n \in 0 .. Len(sent)
    OBVIOUS
  <2> QED
    BY <2>7, <2>8
<1>3. Good = 0 .. Len(sent)
  <2> HIDE DEF Good
  <2>1. Good \in SUBSET (0 .. Len(sent))
    BY DEF Good
  <2> QED
    BY <1>1, <1>2, <2>1, UpTo
<1>4. Len(sent) \in Good
  <2>1. Len(sent) \in 0 .. Len(sent)
    OBVIOUS
  <2> QED
    BY <1>3, <2>1
<1> QED
  BY <1>4

\* What HoldingsV3 gives is the end of that pass.
LEMMA HoldingsAreWalked ==
  ASSUME NEW sent, Len(sent) \in Nat, NEW cutoff, NEW received
  PROVE  \E walk : /\ IsWalk(sent, cutoff, received, walk, Len(sent))
                   /\ HoldingsV3(sent, cutoff, received) = walk[Len(sent)]
<1> DEFINE Walked(w) ==
             [i \in 0 .. Len(sent) |->
                IF i = 0 THEN Unread ELSE Passed(sent, cutoff, received, i, w[i - 1])]
           walk == CHOOSE w : w = Walked(w)
<1>1. PICK w : IsWalk(sent, cutoff, received, w, Len(sent))
  BY WalkExists
<1>2. w = Walked(w)
  <2>1. w = [i \in 0 .. Len(sent) |-> w[i]]
    BY <1>1 DEF IsWalk
  <2>2. \A i \in 0 .. Len(sent) :
          w[i] = IF i = 0 THEN Unread ELSE Passed(sent, cutoff, received, i, w[i - 1])
    <3>1. \A i \in 0 .. Len(sent) : i = 0 \/ i \in 1 .. Len(sent)
      OBVIOUS
    <3> QED
      BY <1>1, <3>1 DEF IsWalk
  <2> QED
    BY <2>1, <2>2
<1>3. walk = Walked(walk)
  <2> HIDE DEF Walked
  <2> QED
    BY <1>2
<1>4. HoldingsV3(sent, cutoff, received) = walk[Len(sent)]
  BY DEF HoldingsV3, Passed, Unread
<1>5. IsWalk(sent, cutoff, received, walk, Len(sent))
  <2> HIDE DEF walk
  <2>1. walk = [i \in 0 .. Len(sent) |-> walk[i]]
    BY <1>3
  <2>2. \A i \in 0 .. Len(sent) :
          walk[i] = IF i = 0 THEN Unread ELSE Passed(sent, cutoff, received, i, walk[i - 1])
    BY <1>3
  <2>3. 0 \in 0 .. Len(sent) /\ \A i \in 1 .. Len(sent) : i \in 0 .. Len(sent) /\ i # 0
    OBVIOUS
  <2> QED
    BY <2>1, <2>2, <2>3 DEF IsWalk
<1> QED
  BY <1>4, <1>5

-----------------------------------------------------------------------------
(* Its rows are kept or named                                              *)

RowType == [symbol : {"own"} \cup Int, at : Int, avail : Int, sound : BOOLEAN, over : BOOLEAN]

\* Why a row of a disclosure is named.
Codes == {"ABOVE_100", "INVALID_NUMERIC_VALUE", "FUTURE_HOLDINGS_ROW",
          "OUT_OF_ORDER_HOLDINGS_ROW"}

Named(anomalies) == {anomalies[a][1] : a \in DOMAIN anomalies}

\* An appended anomaly names its row.
LEMMA AppendNames ==
  ASSUME NEW S, NEW s \in Seq(S), NEW e
  PROVE  Named(Append(s, e)) = Named(s) \cup {e[1]}
<1>1. DOMAIN s = 1 .. Len(s) /\ DOMAIN Append(s, e) = 1 .. (Len(s) + 1)
  OBVIOUS
<1>2. \A i \in 1 .. (Len(s) + 1) : Append(s, e)[i] = IF i \in 1 .. Len(s) THEN s[i] ELSE e
  OBVIOUS
<1>3. Len(s) + 1 \in 1 .. (Len(s) + 1) /\ Len(s) + 1 \notin 1 .. Len(s)
  OBVIOUS
<1>4. 1 .. Len(s) \subseteq 1 .. (Len(s) + 1)
  OBVIOUS
<1>5. \A i \in 1 .. (Len(s) + 1) : i \in 1 .. Len(s) \/ i = Len(s) + 1
  OBVIOUS
<1> QED
  BY <1>1, <1>2, <1>3, <1>4, <1>5 DEF Named

\* What is known of the first n rows of a disclosure when they have been read.
Sifted(sent, cutoff, w, n) ==
  /\ w \in [kept : Seq(Nat), anomalies : Seq(Nat \X Codes), previous : SUBSET Int]
  /\ ToSet(w.kept) \cup Named(w.anomalies) = 1 .. n
  /\ \A i \in ToSet(w.kept) \cap Named(w.anomalies) : sent[i].over
  /\ \A i \in ToSet(w.kept) : sent[i].avail <= cutoff
  /\ \A i, j \in ToSet(w.kept) : i < j => sent[j].avail <= sent[i].avail
  /\ w.previous = {} => ToSet(w.kept) = {}
  /\ \A p \in w.previous, i \in ToSet(w.kept) : p <= sent[i].avail

\* One more row is kept or named, in the order the pass promises.
LEMMA RowIsSifted ==
  ASSUME NEW sent \in Seq(RowType), NEW cutoff \in Int, NEW received \in Int,
         NEW n \in 1 .. Len(sent), NEW was, Sifted(sent, cutoff, was, n - 1)
  PROVE  Sifted(sent, cutoff, Passed(sent, cutoff, received, n, was), n)
<1> DEFINE verdict == HoldingVerdict(sent[n], was.previous, cutoff, received)
           w == Passed(sent, cutoff, received, n, was)
<1>1. \A i \in 1 .. n : sent[i].avail \in Int /\ sent[i].at \in Int /\ sent[i].over \in BOOLEAN
  <2>1. \A i \in 1 .. n : sent[i] \in RowType
    OBVIOUS
  <2> QED
    BY <2>1 DEF RowType
<1>2. was \in [kept : Seq(Nat), anomalies : Seq(Nat \X Codes), previous : SUBSET Int]
  BY DEF Sifted
<1>3. n \in Nat /\ n \notin 1 .. n - 1 /\ 1 .. n = (1 .. n - 1) \cup {n}
  OBVIOUS
<1>4. ToSet(was.kept) \cup Named(was.anomalies) = 1 .. n - 1
  BY DEF Sifted
<1>5. verdict \in Codes \cup {"ok"}
  BY Zenon DEF HoldingVerdict, Codes
<1>6. CASE verdict = "ok"
  <2>1. /\ sent[n].avail <= cutoff
        /\ \A p \in was.previous : ~(sent[n].avail > p)
    BY <1>1, <1>6 DEF HoldingVerdict
  <2>2. w = [kept |-> Append(was.kept, n), previous |-> {sent[n].avail},
             anomalies |-> IF sent[n].over THEN Append(was.anomalies, <<n, "ABOVE_100">>)
                           ELSE was.anomalies]
    BY <1>6 DEF Passed
  <2>3. ToSet(w.kept) = ToSet(was.kept) \cup {n}
    BY <1>2, <2>2, AppendAdds
  <2>4. Named(w.anomalies) = IF sent[n].over THEN Named(was.anomalies) \cup {n}
                             ELSE Named(was.anomalies)
    <3>1. <<n, "ABOVE_100">>[1] = n /\ was.anomalies \in Seq(Nat \X Codes)
      BY <1>2
    <3>2. Named(Append(was.anomalies, <<n, "ABOVE_100">>)) = Named(was.anomalies) \cup {n}
      BY <3>1, AppendNames
    <3>3. w.anomalies = IF sent[n].over THEN Append(was.anomalies, <<n, "ABOVE_100">>)
                        ELSE was.anomalies
      BY <2>2
    <3> HIDE DEF w
    <3> QED
      BY <3>2, <3>3
  <2>5. w.previous = {sent[n].avail}
    BY <2>2
  <2>6. w \in [kept : Seq(Nat), anomalies : Seq(Nat \X Codes), previous : SUBSET Int]
    <3>1. Append(was.kept, n) \in Seq(Nat)
      BY <1>2, <1>3
    <3>2. Append(was.anomalies, <<n, "ABOVE_100">>) \in Seq(Nat \X Codes)
      <4>1. "ABOVE_100" \in Codes
        BY DEF Codes
      <4>2. <<n, "ABOVE_100">> \in Nat \X Codes
        BY <1>3, <4>1
      <4> QED
        BY <1>2, <4>2
    <3>3. was.anomalies \in Seq(Nat \X Codes)
      BY <1>2
    <3>4. {sent[n].avail} \in SUBSET Int
      BY <1>1
    <3> HIDE DEF w
    <3> QED
      BY <2>2, <3>1, <3>2, <3>3, <3>4
  <2> HIDE DEF w
  <2>7. \A i \in ToSet(was.kept) : sent[n].avail <= sent[i].avail
    <3> SUFFICES ASSUME NEW i \in ToSet(was.kept) PROVE sent[n].avail <= sent[i].avail
      OBVIOUS
    <3>1. PICK p \in was.previous : p <= sent[i].avail
      BY DEF Sifted
    <3>2. p \in Int /\ i \in 1 .. n
      BY <1>2, <1>3, <1>4
    <3> QED
      BY <1>1, <1>3, <2>1, <3>1, <3>2
  <2>8. ToSet(w.kept) \cup Named(w.anomalies) = 1 .. n
    BY <1>3, <1>4, <2>3, <2>4
  <2>9. \A i \in ToSet(w.kept) \cap Named(w.anomalies) : sent[i].over
    BY <1>3, <1>4, <2>3, <2>4 DEF Sifted
  <2>10. \A i \in ToSet(w.kept) : sent[i].avail <= cutoff
    BY <2>1, <2>3 DEF Sifted
  <2>11. \A i, j \in ToSet(w.kept) : i < j => sent[j].avail <= sent[i].avail
    <3>1. \A i \in ToSet(was.kept) : i < n /\ ~(n < i)
      BY <1>3, <1>4
    <3> QED
      BY <1>3, <2>3, <2>7, <3>1 DEF Sifted
  <2>12. \A p \in w.previous, i \in ToSet(w.kept) : p <= sent[i].avail
    BY <1>1, <1>3, <2>3, <2>5, <2>7
  <2>13. w.previous # {}
    BY <2>5
  <2>14. Sifted(sent, cutoff, w, n)
    BY <2>6, <2>8, <2>9, <2>10, <2>11, <2>12, <2>13, Zenon DEF Sifted
  <2> QED
    BY <2>14 DEF w
<1>7. CASE verdict # "ok"
  <2>1. w = [was EXCEPT !.anomalies = Append(@, <<n, verdict>>)]
    BY <1>7 DEF Passed
  <2> HIDE DEF verdict
  <2>2. w.kept = was.kept /\ w.previous = was.previous
        /\ w.anomalies = Append(was.anomalies, <<n, verdict>>)
    BY <1>2, <2>1
  <2>3. w \in [kept : Seq(Nat), anomalies : Seq(Nat \X Codes), previous : SUBSET Int]
    <3>1. Append(was.anomalies, <<n, verdict>>) \in Seq(Nat \X Codes)
      <4>1. <<n, verdict>> \in Nat \X Codes
        BY <1>3, <1>5, <1>7
      <4> QED
        BY <1>2, <4>1
    <3> HIDE DEF w
    <3> QED
      BY <1>2, <2>1, <3>1
  <2>4. Named(w.anomalies) = Named(was.anomalies) \cup {n}
    <3>1. <<n, verdict>>[1] = n /\ was.anomalies \in Seq(Nat \X Codes)
      BY <1>2
    <3>2. Named(Append(was.anomalies, <<n, verdict>>)) = Named(was.anomalies) \cup {n}
      BY <3>1, AppendNames
    <3> QED
      BY <2>2, <3>2
  <2> HIDE DEF w
  <2>5. ToSet(w.kept) \cup Named(w.anomalies) = 1 .. n
    BY <1>3, <1>4, <2>2, <2>4
  <2>6. \A i \in ToSet(w.kept) \cap Named(w.anomalies) : sent[i].over
    BY <1>3, <1>4, <2>2, <2>4 DEF Sifted
  <2>7. w.kept = was.kept /\ w.previous = was.previous
    BY <2>2
  <2>8. /\ \A i \in ToSet(was.kept) : sent[i].avail <= cutoff
        /\ \A i, j \in ToSet(was.kept) : i < j => sent[j].avail <= sent[i].avail
        /\ was.previous = {} => ToSet(was.kept) = {}
        /\ \A p \in was.previous, i \in ToSet(was.kept) : p <= sent[i].avail
    BY DEF Sifted
  <2>9. Sifted(sent, cutoff, w, n)
    BY <2>3, <2>5, <2>6, <2>7, <2>8, Zenon DEF Sifted
  <2> QED
    BY <2>9 DEF w
<1> QED
  BY <1>6, <1>7

\* A whole disclosure, once read.
LEMMA DisclosureIsSifted ==
  ASSUME NEW sent \in Seq(RowType), NEW cutoff \in Int, NEW received \in Int
  PROVE  Sifted(sent, cutoff, HoldingsV3(sent, cutoff, received), Len(sent))
<1>1. Len(sent) \in Nat
  OBVIOUS
<1>2. PICK walk : /\ IsWalk(sent, cutoff, received, walk, Len(sent))
                  /\ HoldingsV3(sent, cutoff, received) = walk[Len(sent)]
  BY <1>1, HoldingsAreWalked
<1> DEFINE Good == {n \in 0 .. Len(sent) : Sifted(sent, cutoff, walk[n], n)}
<1>3. 0 \in Good
  <2>1. walk[0] = Unread /\ 0 \in 0 .. Len(sent)
    BY <1>2 DEF IsWalk
  <2>2. Unread.kept = <<>> /\ Unread.anomalies = <<>> /\ Unread.previous = {}
    BY DEF Unread
  <2>3. ToSet(<<>>) = {} /\ Named(<<>>) = {} /\ 1 .. 0 = {}
    BY DEF ToSet, Named
  <2>4. Unread \in [kept : Seq(Nat), anomalies : Seq(Nat \X Codes), previous : SUBSET Int]
    BY DEF Unread
  <2>5. Sifted(sent, cutoff, Unread, 0)
    BY <2>2, <2>3, <2>4 DEF Sifted
  <2> QED
    BY <2>1, <2>5
<1>4. ASSUME NEW n \in 1 .. Len(sent), n - 1 \in Good PROVE n \in Good
  <2>1. walk[n] = Passed(sent, cutoff, received, n, walk[n - 1]) /\ n \in 0 .. Len(sent)
    BY <1>2 DEF IsWalk
  <2>2. Sifted(sent, cutoff, walk[n - 1], n - 1)
    BY <1>4
  <2>3. Sifted(sent, cutoff, walk[n], n)
    BY <2>1, <2>2, RowIsSifted
  <2> QED
    BY <2>1, <2>3
<1>5. Good = 0 .. Len(sent)
  <2> HIDE DEF Good
  <2>1. Good \in SUBSET (0 .. Len(sent))
    BY DEF Good
  <2> QED
    BY <1>1, <1>3, <1>4, <2>1, UpTo
<1>6. Len(sent) \in Good
  <2>1. Len(sent) \in 0 .. Len(sent)
    OBVIOUS
  <2> QED
    BY <1>5, <2>1
<1> QED
  BY <1>2, <1>6

-----------------------------------------------------------------------------
(* The inductive invariant and the lemmas it needs                         *)

Labels == {"idle", "check", "observe", "connect", "call", "bisect", "page",
           "respond", "receive", "fetch", "finish"}

TypeOK ==
  /\ now \in Int /\ pc \in Labels /\ kind \in Kinds /\ count \in Nat \ {0}
  /\ health.state \in {"healthy", "login-required"}
  /\ list \in Seq(Nat) /\ work \in Seq(Seq(Nat)) /\ refused \in SUBSET Nat
  /\ rows \in Seq(Int)
  /\ pages \in Seq(Keys \cup {None}) /\ more \in Keys \cup {None}
  /\ \A s \in DOMAIN batches : batches[s] \in [received : Int, rows : Seq(RowType)]
  /\ DOMAIN batches \subseteq Sources \cup {"distribution"} /\ failed \subseteq Sources

\* Each label belongs to the operations that get there.
LabelFits ==
  /\ pc = "bisect" => kind = "watchlist"
  /\ pc = "page" => kind \in {"candles", "holdings"}
  /\ pc = "call" => kind \in {"quotes", "flow", "distribution"}
  /\ pc \in {"connect", "respond", "receive"} => kind \notin Snapshots \cup {"health"}
  /\ pc = "receive" => kind # "flow"
  /\ pc = "fetch" => kind \in Snapshots
  /\ pc = "finish" => kind # "health"

\* There is an answer once, at the end; before OpenD is called there is nothing.
OneAnswer ==
  /\ pc # "idle" => answer = NoAnswer
  /\ pc \in {"check", "observe", "connect"} \/ (pc = "idle" /\ answer = NoAnswer) =>
       /\ list = <<>> /\ work = <<>> /\ refused = {} /\ rows = <<>>
       /\ pages = <<>> /\ more = None /\ batches = <<>> /\ failed = {}

\* The codes of some batches, and that each is in one of them, once.
Wanted(w) == UNION {ToSet(w[a]) : a \in DOMAIN w}
Apart(w) == \A a, b \in DOMAIN w : \A i \in DOMAIN w[a], j \in DOMAIN w[b] :
              w[a][i] = w[b][j] => a = b /\ i = j
NoneEmpty(w) == w # <<>> /\ \A a \in DOMAIN w : w[a] # <<>>

\* The batches still to be asked hold each code once, none of which has a row
\* or was refused, and no code ends up both with a row and refused.
BatchesApart ==
  kind = "watchlist" =>
    /\ ToSet(rows) \subseteq ToSet(list) /\ ToSet(rows) \cap refused = {}
    /\ pc = "bisect" =>
         /\ NoneEmpty(work) /\ Apart(work)
         /\ Wanted(work) \subseteq ToSet(list)
         /\ Wanted(work) \cap (ToSet(rows) \cup refused) = {}

\* Every key is asked for once, and a series that is answered has no next page.
PagesInOrder ==
  /\ Len(pages) <= MaxPages
  /\ pc = "page" => Len(pages) < MaxPages
  /\ kind = "candles" => IsInjective(pages) /\ (pc = "page" => more \notin ToSet(pages))
  /\ pc \in {"respond", "receive", "finish"} /\ kind \in {"candles", "holdings"} => more = None

Symbolic(items) == [i \in DOMAIN items |-> items[i].symbol]

\* What the batch about to be answered was made of.
BatchIsMade ==
  /\ pc = "receive" \/ (pc = "finish" /\ kind \notin Snapshots) =>
       \/ SourceOf[kind] \in DOMAIN batches
       \/ pc = "receive" /\ kind = "watchlist" /\ list = <<>>
  /\ pc \in {"receive", "finish"} /\ kind = "candles" =>
       \E t \in Int : batches["candles"].rows = Bars(t)
  /\ pc = "finish" /\ kind = "flow" => \E t \in Int : batches["flow"].rows = Flows(t)
  /\ pc \in {"receive", "finish"} /\ kind = "watchlist" =>
       Symbolic(IF "quote" \in DOMAIN batches THEN batches["quote"].rows ELSE <<>>)
         = Those(list, ToSet(list) \ refused)

\* The sources of a snapshot are asked in their order, and none is left out.
SourcesInTurn ==
  /\ pc = "fetch" => Asked \in {{}, {"quote"}, {"quote", "candles"}, {"quote", "candles", "flow"}}
  /\ pc = "finish" /\ kind \in Snapshots => Asked = Sources
  /\ kind = "v2" => failed = {}

GatewayInv ==
  TypeOK /\ LabelFits /\ OneAnswer /\ BatchesApart /\ PagesInOrder /\ BatchIsMade /\ SourcesInTurn

\* Bars and flows are made of the rows and the count alone.
LEMMA BarsStay ==
  ASSUME rows' = rows, count' = count, NEW CONSTANT t
  PROVE  Bars(t)' = Bars(t) /\ Flows(t)' = Flows(t)
BY DEF Bars, LastOnes, Flows

\* A batch stays what it was made of as long as its parts do.
LEMMA BatchStaysMade ==
  ASSUME BatchIsMade, pc' = pc, kind' = kind, list' = list, refused' = refused,
         batches' = batches, rows' = rows, count' = count
  PROVE  BatchIsMade'
<1>1. \A t \in Int : Bars(t)' = Bars(t) /\ Flows(t)' = Flows(t)
  BY BarsStay
<1> QED
  BY <1>1 DEF BatchIsMade

\* A function on 1 .. n is a sequence.
LEMMA FunctionIsSeq ==
  ASSUME NEW S, NEW n \in Nat, NEW f \in [1 .. n -> S]
  PROVE  f \in Seq(S)
OBVIOUS

\* Of nothing, nothing is there.
LEMMA NothingIsThere ==
  ASSUME NEW keep
  PROVE  Those(<<>>, keep) = <<>>
<1>1. <<>> \in Seq(Int) /\ ToSet(<<>>) = {}
  BY DEF ToSet
<1>2. Those(<<>>, keep) \in Seq(Int) /\ ToSet(Those(<<>>, keep)) = ToSet(<<>>) \cap keep
  BY <1>1, ThoseAreThere
<1> DEFINE t == Those(<<>>, keep)
<1>3. t \in Seq(Int) /\ ToSet(t) = {}
  BY <1>1, <1>2
<1> HIDE DEF t
<1>4. t = <<>>
  BY <1>3 DEF ToSet
<1> QED
  BY <1>4 DEF t

\* A sequence cut in two.
LEMMA HalvesOf ==
  ASSUME NEW s \in Seq(Nat), Len(s) >= 2
  PROVE  LET mid == Len(s) \div 2
         IN /\ mid \in 1 .. Len(s) - 1
            /\ Halves(s) = <<SubSeq(s, 1, mid), SubSeq(s, mid + 1, Len(s))>>
            /\ Halves(s) \in Seq(Seq(Nat))
<1> DEFINE mid == Len(s) \div 2
<1>1. mid \in 1 .. Len(s) - 1
  OBVIOUS
<1>2. Halves(s) = <<SubSeq(s, 1, mid), SubSeq(s, mid + 1, Len(s))>>
  BY DEF Halves
<1> HIDE DEF mid
<1>3. SubSeq(s, 1, mid) \in Seq(Nat) /\ SubSeq(s, mid + 1, Len(s)) \in Seq(Nat)
  BY <1>1
<1>4. Halves(s) \in Seq(Seq(Nat))
  BY <1>2, <1>3
<1> QED
  BY <1>1, <1>2, <1>4 DEF mid

\* Without its first batch the work still holds each code once.
LEMMA TailApart ==
  ASSUME NEW w \in Seq(Seq(Nat)), NoneEmpty(w), Apart(w)
  PROVE  /\ Apart(Tail(w)) /\ \A a \in DOMAIN Tail(w) : Tail(w)[a] # <<>>
         /\ Wanted(Tail(w)) \subseteq Wanted(w) /\ ToSet(Head(w)) \subseteq Wanted(w)
         /\ ToSet(Head(w)) \cap Wanted(Tail(w)) = {}
<1> DEFINE v == Tail(w)
<1>1. /\ Head(w) = w[1] /\ 1 \in DOMAIN w
      /\ \A a \in DOMAIN v : a + 1 \in DOMAIN w /\ v[a] = w[a + 1] /\ a + 1 # 1
  BY DEF NoneEmpty
<1>2. DOMAIN v \subseteq Int
  OBVIOUS
<1> HIDE DEF v
<1>3. Apart(v)
  <2> SUFFICES ASSUME NEW a \in DOMAIN v, NEW b \in DOMAIN v,
                      NEW i \in DOMAIN v[a], NEW j \in DOMAIN v[b], v[a][i] = v[b][j]
      PROVE a = b /\ i = j
    BY DEF Apart
  <2>1. a + 1 = b + 1 /\ i = j
    BY <1>1 DEF Apart
  <2> QED
    BY <1>2, <2>1
<1>4. \A a \in DOMAIN v : v[a] # <<>>
  BY <1>1 DEF NoneEmpty
<1>5. Wanted(v) \subseteq Wanted(w) /\ ToSet(Head(w)) \subseteq Wanted(w)
  BY <1>1 DEF Wanted
<1>6. ToSet(Head(w)) \cap Wanted(v) = {}
  <2> SUFFICES ASSUME NEW a \in DOMAIN v, NEW i \in DOMAIN w[1], NEW j \in DOMAIN v[a],
                      w[1][i] = v[a][j]
      PROVE FALSE
    BY <1>1 DEF Wanted, ToSet
  <2> QED
    BY <1>1 DEF Apart
<1> QED
  BY <1>3, <1>4, <1>5, <1>6 DEF v

\* A refused batch in two halves: the work still holds each code once.
LEMMA HalvesApart ==
  ASSUME NEW w \in Seq(Seq(Nat)), NoneEmpty(w), Apart(w), Len(Head(w)) >= 2
  PROVE  LET v == Halves(Head(w)) \o Tail(w)
         IN v \in Seq(Seq(Nat)) /\ NoneEmpty(v) /\ Apart(v) /\ Wanted(v) \subseteq Wanted(w)
<1> DEFINE s == Head(w)
           mid == Len(s) \div 2
           first == SubSeq(s, 1, mid)
           second == SubSeq(s, mid + 1, Len(s))
           v == Halves(s) \o Tail(w)
<1>1. /\ s = w[1] /\ 1 \in DOMAIN w /\ s \in Seq(Nat) /\ Tail(w) \in Seq(Seq(Nat))
      /\ Len(w) \in Nat \ {0} /\ DOMAIN w = 1 .. Len(w)
      /\ Len(s) \in Nat /\ DOMAIN s = 1 .. Len(s)
  BY DEF NoneEmpty
<1>2. mid \in 1 .. Len(s) - 1 /\ Halves(s) = <<first, second>> /\ Halves(s) \in Seq(Seq(Nat))
  BY <1>1, HalvesOf
<1> HIDE DEF mid, s
<1>3. /\ first \in Seq(Nat) /\ DOMAIN first = 1 .. mid /\ \A i \in 1 .. mid : first[i] = s[i]
      /\ second \in Seq(Nat) /\ DOMAIN second = 1 .. Len(s) - mid
      /\ \A i \in 1 .. Len(s) - mid : second[i] = s[mid + i]
  BY <1>1, <1>2
<1> HIDE DEF first, second
<1>4. /\ v \in Seq(Seq(Nat)) /\ DOMAIN v = 1 .. Len(w) + 1
      /\ v[1] = first /\ v[2] = second
      /\ \A a \in 3 .. Len(w) + 1 : v[a] = w[a - 1]
  <2>1. v = <<first, second>> \o Tail(w)
    BY <1>2
  <2>2. Len(Tail(w)) = Len(w) - 1 /\ \A a \in 1 .. Len(w) - 1 : Tail(w)[a] = w[a + 1]
    BY <1>1
  <2>3. Len(v) = Len(w) + 1 /\ v \in Seq(Seq(Nat))
    BY <1>1, <1>2, <2>1, <2>2
  <2>4. v[1] = first /\ v[2] = second
    BY <1>1, <1>2, <2>1, <2>2
  <2>5. ASSUME NEW a \in 3 .. Len(w) + 1 PROVE v[a] = w[a - 1]
    <3>0. a - 2 \in 1 .. Len(w) - 1
      BY <1>1
    <3>1. v[a] = Tail(w)[a - 2]
      BY <1>1, <1>2, <2>1, <2>2, <3>0
    <3>2. Tail(w)[a - 2] = w[(a - 2) + 1] /\ (a - 2) + 1 = a - 1
      BY <2>2, <3>0
    <3> QED
      BY <3>1, <3>2
  <2>6. DOMAIN v = 1 .. Len(w) + 1
    <3> HIDE DEF v
    <3> QED
      BY <2>3
  <2> HIDE DEF v
  <2> QED
    BY <2>3, <2>4, <2>5, <2>6
<1> HIDE DEF v
<1>5. \A a \in DOMAIN v :
         a = 1 \/ a = 2
         \/ (a \in Int /\ a - 1 \in DOMAIN w /\ a - 1 # 1 /\ v[a] = w[a - 1])
  <2> SUFFICES ASSUME NEW a \in 1 .. Len(w) + 1, a # 1, a # 2
      PROVE a \in Int /\ a - 1 \in DOMAIN w /\ a - 1 # 1 /\ v[a] = w[a - 1]
    BY <1>4
  <2>1. a \in 3 .. Len(w) + 1 /\ a - 1 \in 1 .. Len(w) /\ a - 1 # 1
    BY <1>1
  <2> QED
    BY <1>1, <1>4, <2>1
<1>6. \A i \in DOMAIN first : i \in Int /\ i \in DOMAIN s /\ first[i] = s[i] /\ i <= mid
  <2>1. \A i \in 1 .. mid : i \in Int /\ i \in 1 .. Len(s) /\ i <= mid
    BY <1>1, <1>2
  <2> QED
    BY <1>1, <1>3, <2>1
<1>7. \A i \in DOMAIN second :
         i \in Int /\ mid + i \in DOMAIN s /\ second[i] = s[mid + i] /\ mid + i > mid
  <2>1. \A i \in 1 .. Len(s) - mid : i \in Int /\ mid + i \in 1 .. Len(s) /\ mid + i > mid
    <3>1. mid \in Int /\ 1 <= mid /\ mid < Len(s) /\ Len(s) \in Int
      BY <1>1, <1>2
    <3> QED
      BY <3>1
  <2> QED
    BY <1>1, <1>3, <2>1
<1>8. NoneEmpty(v)
  <2>1. first # <<>> /\ second # <<>>
    BY <1>2, <1>3
  <2>2. \A a \in DOMAIN w : w[a] # <<>>
    BY DEF NoneEmpty
  <2>3. v # <<>>
    BY <1>1, <1>4
  <2> QED
    BY <1>4, <1>5, <2>1, <2>2, <2>3 DEF NoneEmpty
<1>9. Wanted(v) \subseteq Wanted(w)
  <2>1. ToSet(first) \subseteq ToSet(s) /\ ToSet(second) \subseteq ToSet(s)
    BY <1>6, <1>7 DEF ToSet
  <2>2. \A a \in DOMAIN v : \E b \in DOMAIN w : ToSet(v[a]) \subseteq ToSet(w[b])
    BY <1>1, <1>4, <1>5, <2>1
  <2> QED
    BY <2>2 DEF Wanted
<1>10. \A c, d \in DOMAIN w : \A p \in DOMAIN w[c], q \in DOMAIN w[d] :
          w[c][p] = w[d][q] => c = d /\ p = q
  BY DEF Apart
<1>11. \A p, q \in DOMAIN s : s[p] = s[q] => p = q
  <2>1. \A p, q \in DOMAIN w[1] : w[1][p] = w[1][q] => p = q
    BY <1>1, <1>10
  <2> QED
    BY <1>1, <2>1
<1>13. \A d \in DOMAIN w : \A p \in DOMAIN w[1], q \in DOMAIN w[d] :
          w[1][p] = w[d][q] => d = 1
  <2> SUFFICES ASSUME NEW d \in DOMAIN w, NEW p \in DOMAIN w[1], NEW q \in DOMAIN w[d],
                      w[1][p] = w[d][q]
      PROVE d = 1
    OBVIOUS
  <2>1. 1 \in DOMAIN w
    BY <1>1
  <2>2. 1 = d
    BY <1>10, <2>1
  <2> QED
    BY <2>2
<1>12. Apart(v)
  <2> SUFFICES ASSUME NEW a \in DOMAIN v, NEW b \in DOMAIN v,
                      NEW i \in DOMAIN v[a], NEW j \in DOMAIN v[b], v[a][i] = v[b][j]
      PROVE a = b /\ i = j
    BY DEF Apart
  <2>1. CASE a = 1
    <3>1. i \in DOMAIN s /\ v[a][i] = s[i] /\ i <= mid /\ i \in Int
      BY <1>4, <1>6, <2>1
    <3>2. CASE b = 1
      BY <1>4, <1>6, <1>11, <2>1, <3>1, <3>2
    <3>3. CASE b = 2
      <4>1. mid + j \in DOMAIN s /\ v[b][j] = s[mid + j] /\ mid + j > mid
        BY <1>4, <1>7, <3>3
      <4>2. i = mid + j
        BY <1>11, <3>1, <4>1
      <4> QED
        BY <1>2, <3>1, <4>1, <4>2
    <3>4. CASE b \notin {1, 2}
      <4>1. b - 1 \in DOMAIN w /\ b - 1 # 1 /\ v[b] = w[b - 1]
        BY <1>5, <3>4
      <4>2. j \in DOMAIN w[b - 1] /\ w[b - 1][j] = v[a][i]
        BY <4>1
      <4>3. b - 1 = 1
        BY <1>1, <1>10, <3>1, <4>1, <4>2
      <4> QED
        BY <4>1, <4>3
    <3> QED
      BY <3>2, <3>3, <3>4
  <2>2. CASE a = 2
    <3>1. mid + i \in DOMAIN s /\ v[a][i] = s[mid + i] /\ mid + i > mid /\ i \in Int
      BY <1>4, <1>7, <2>2
    <3>2. CASE b = 1
      <4>1. j \in DOMAIN s /\ v[b][j] = s[j] /\ j <= mid /\ j \in Int
        BY <1>4, <1>6, <3>2
      <4>2. j = mid + i
        BY <1>11, <3>1, <4>1
      <4> QED
        BY <1>2, <3>1, <4>1, <4>2
    <3>3. CASE b = 2
      <4>1. mid + j \in DOMAIN s /\ v[b][j] = s[mid + j] /\ j \in Int
        BY <1>4, <1>7, <3>3
      <4>2. mid + i = mid + j
        BY <1>11, <3>1, <4>1
      <4> QED
        BY <1>2, <2>2, <3>1, <3>3, <4>1, <4>2
    <3>4. CASE b \notin {1, 2}
      <4>1. b - 1 \in DOMAIN w /\ b - 1 # 1 /\ v[b] = w[b - 1]
        BY <1>5, <3>4
      <4>2. /\ j \in DOMAIN w[b - 1] /\ mid + i \in DOMAIN w[1]
            /\ w[1][mid + i] = w[b - 1][j]
        BY <1>1, <3>1, <4>1
      <4>3. b - 1 = 1
        BY <1>13, <4>1, <4>2, Zenon
      <4> QED
        BY <4>1, <4>3
    <3> QED
      BY <3>2, <3>3, <3>4
  <2>3. CASE a \notin {1, 2}
    <3>1. a - 1 \in DOMAIN w /\ a - 1 # 1 /\ v[a] = w[a - 1] /\ a \in Int
      BY <1>5, <2>3
    <3>2. CASE b = 1
      <4>1. j \in DOMAIN s /\ v[b][j] = s[j]
        BY <1>4, <1>6, <3>2
      <4>2. /\ i \in DOMAIN w[a - 1] /\ j \in DOMAIN w[1]
            /\ w[1][j] = w[a - 1][i]
        BY <1>1, <3>1, <4>1
      <4>3. a - 1 = 1
        BY <1>13, <3>1, <4>2, Zenon
      <4> QED
        BY <3>1, <4>3
    <3>3. CASE b = 2
      <4>1. mid + j \in DOMAIN s /\ v[b][j] = s[mid + j]
        BY <1>4, <1>7, <3>3
      <4>2. /\ i \in DOMAIN w[a - 1] /\ mid + j \in DOMAIN w[1]
            /\ w[1][mid + j] = w[a - 1][i]
        BY <1>1, <3>1, <4>1
      <4>3. a - 1 = 1
        BY <1>13, <3>1, <4>2, Zenon
      <4> QED
        BY <3>1, <4>3
    <3>4. CASE b \notin {1, 2}
      <4>1. b - 1 \in DOMAIN w /\ v[b] = w[b - 1] /\ b \in Int
        BY <1>5, <3>4
      <4>2. a - 1 = b - 1 /\ i = j
        BY <1>10, <3>1, <4>1
      <4> QED
        BY <3>1, <4>1, <4>2
    <3> QED
      BY <3>2, <3>3, <3>4
  <2> QED
    BY <2>1, <2>2, <2>3
<1> QED
  BY <1>4, <1>8, <1>9, <1>12 DEF v, s

\* A key that was not asked for is asked for once.
LEMMA AppendsOnce ==
  ASSUME NEW S, NEW p \in Seq(S), NEW e, e \notin ToSet(p), IsInjective(p)
  PROVE  IsInjective(Append(p, e))
<1>1. DOMAIN p = 1 .. Len(p) /\ DOMAIN Append(p, e) = 1 .. (Len(p) + 1)
  OBVIOUS
<1>2. \A i \in 1 .. (Len(p) + 1) : Append(p, e)[i] = IF i \in 1 .. Len(p) THEN p[i] ELSE e
  OBVIOUS
<1>3. \A i \in 1 .. (Len(p) + 1) : i \in 1 .. Len(p) \/ i = Len(p) + 1
  OBVIOUS
<1>4. \A i \in 1 .. Len(p) : p[i] # e
  BY <1>1 DEF ToSet
<1> QED
  BY <1>1, <1>2, <1>3, <1>4 DEF IsInjective

\* How many sources have been asked.
LEMMA AskedSoFar ==
  /\ Cardinality({}) = 0 /\ Cardinality({"quote"}) = 1
  /\ Cardinality({"quote", "candles"}) = 2 /\ Cardinality({"quote", "candles", "flow"}) = 3
<1>1. Cardinality({}) = 0 /\ IsFiniteSet({})
  BY FS_EmptySet
<1>2. Cardinality({"quote"}) = 1 /\ IsFiniteSet({"quote"})
  BY FS_Singleton
<1>3. {"quote", "candles"} = {"quote"} \cup {"candles"} /\ "candles" \notin {"quote"}
  OBVIOUS
<1>4. Cardinality({"quote", "candles"}) = 2 /\ IsFiniteSet({"quote", "candles"})
  BY <1>2, <1>3, FS_AddElement
<1>5. /\ {"quote", "candles", "flow"} = {"quote", "candles"} \cup {"flow"}
      /\ "flow" \notin {"quote", "candles"}
  OBVIOUS
<1>6. Cardinality({"quote", "candles", "flow"}) = 3
  BY <1>4, <1>5, FS_AddElement
<1> QED
  BY <1>1, <1>2, <1>4, <1>6

\* What the rows of one operation become.
LEMMA RowsMade ==
  ASSUME TypeOK, NEW CONSTANT t \in Int
  PROVE  /\ Bars(t) \in Seq(RowType) /\ Quotes(t) \in Seq(RowType)
         /\ Disclosures(t) \in Seq(RowType) /\ Flows(t) \in Seq(RowType)
         /\ Totals(t) \in Seq(RowType)
<1>2. rows \in Seq(Int) /\ list \in Seq(Int) /\ count \in Nat \ {0}
  BY DEF TypeOK
<1>3. Ascending(rows) \in Seq(Int)
  BY <1>2, AscendingSorts
<1>4. LastOnes(Ascending(rows)) \in Seq(Int)
  <2> DEFINE s == Ascending(rows)
  <2> HIDE DEF s
  <2>1. s \in Seq(Int)
    BY <1>3 DEF s
  <2>2. Len(s) > count => SubSeq(s, Len(s) - count + 1, Len(s)) \in Seq(Int)
    BY <1>2, <2>1
  <2>3. LastOnes(s) \in Seq(Int)
    BY <1>2, <2>1, <2>2 DEF LastOnes
  <2> QED
    BY <2>3 DEF s
<1>5. Bars(t) \in Seq(RowType)
  <2> DEFINE closed == Those(LastOnes(Ascending(rows)), {close \in ToSet(rows) : close <= t})
  <2>1. closed \in Seq(Int)
    BY <1>4, ThoseAreThere
  <2>2. Bars(t) = [i \in DOMAIN closed |-> Row("own", closed[i], t, TRUE)]
    BY DEF Bars
  <2> HIDE DEF closed
  <2>3. [i \in DOMAIN closed |-> Row("own", closed[i], t, TRUE)] \in [1 .. Len(closed) -> RowType]
    BY <2>1 DEF Row, RowType
  <2>4. Len(closed) \in Nat
    BY <2>1
  <2> QED
    BY <2>2, <2>3, <2>4, FunctionIsSeq
<1>6. Quotes(t) \in Seq(RowType)
  <2> DEFINE quoted == Those(list, ToSet(rows))
  <2>1. quoted \in Seq(Int)
    BY <1>2, ThoseAreThere
  <2>2. Quotes(t) = [i \in DOMAIN quoted |-> Row(quoted[i], t, t, TRUE)]
    BY DEF Quotes
  <2> HIDE DEF quoted
  <2>3. [i \in DOMAIN quoted |-> Row(quoted[i], t, t, TRUE)] \in [1 .. Len(quoted) -> RowType]
    BY <2>1 DEF Row, RowType
  <2>4. Len(quoted) \in Nat
    BY <2>1
  <2> QED
    BY <2>2, <2>3, <2>4, FunctionIsSeq
<1>7. Disclosures(t) \in Seq(RowType)
  <2>1. Disclosures(t) \in [1 .. Len(rows) -> RowType]
    BY <1>2 DEF Disclosures, Row, RowType
  <2>2. Len(rows) \in Nat
    BY <1>2
  <2> QED
    BY <2>1, <2>2, FunctionIsSeq
<1>8. Flows(t) \in Seq(RowType)
  <2> DEFINE starts == Ascending(rows)
  <2>1. starts \in Seq(Int)
    BY <1>3
  <2>2. Flows(t) = [i \in DOMAIN starts |-> Row("own", starts[i], t, TRUE)]
    BY DEF Flows
  <2> HIDE DEF starts
  <2>3. [i \in DOMAIN starts |-> Row("own", starts[i], t, TRUE)] \in [1 .. Len(starts) -> RowType]
    BY <2>1 DEF Row, RowType
  <2>4. Len(starts) \in Nat
    BY <2>1
  <2> QED
    BY <2>2, <2>3, <2>4, FunctionIsSeq
<1>9. Totals(t) \in Seq(RowType)
  <2>1. \A i \in DOMAIN rows : (rows[i] >= 0) \in BOOLEAN
    OBVIOUS
  <2>2. Totals(t) \in [1 .. Len(rows) -> RowType]
    BY <1>2, <2>1 DEF Totals, Row, RowType
  <2>3. Len(rows) \in Nat
    BY <1>2
  <2> QED
    BY <2>2, <2>3, FunctionIsSeq
<1> QED
  BY <1>5, <1>6, <1>7, <1>8, <1>9

\* What two sequences hold together.
LEMMA ConcatAdds ==
  ASSUME NEW S, NEW s \in Seq(S), NEW t \in Seq(S)
  PROVE  ToSet(s \o t) = ToSet(s) \cup ToSet(t)
<1>1. /\ DOMAIN s = 1 .. Len(s) /\ DOMAIN t = 1 .. Len(t)
      /\ DOMAIN (s \o t) = 1 .. (Len(s) + Len(t))
      /\ Len(s) \in Nat /\ Len(t) \in Nat
  OBVIOUS
<1>2. \A i \in 1 .. Len(s) : i \in 1 .. (Len(s) + Len(t)) /\ (s \o t)[i] = s[i]
  OBVIOUS
<1>3. \A i \in 1 .. Len(t) :
         Len(s) + i \in 1 .. (Len(s) + Len(t)) /\ (s \o t)[Len(s) + i] = t[i]
  <2> SUFFICES ASSUME NEW i \in 1 .. Len(t)
               PROVE  Len(s) + i \in 1 .. (Len(s) + Len(t)) /\ (s \o t)[Len(s) + i] = t[i]
    OBVIOUS
  <2>1. Len(s) + i \in 1 .. (Len(s) + Len(t)) /\ Len(s) + i > Len(s)
    BY <1>1
  <2>2. (Len(s) + i) - Len(s) = i
    BY <1>1
  <2> QED
    BY <2>1, <2>2
<1>4. \A i \in 1 .. (Len(s) + Len(t)) :
         i \in 1 .. Len(s) \/ \E j \in 1 .. Len(t) : i = Len(s) + j
  <2> SUFFICES ASSUME NEW i \in 1 .. (Len(s) + Len(t)), i \notin 1 .. Len(s)
               PROVE  \E j \in 1 .. Len(t) : i = Len(s) + j
    OBVIOUS
  <2>1. i - Len(s) \in 1 .. Len(t) /\ i = Len(s) + (i - Len(s))
    BY <1>1
  <2> QED
    BY <2>1
<1> DEFINE u == s \o t
<1>5. ToSet(u) \subseteq ToSet(s) \cup ToSet(t)
  <2> SUFFICES ASSUME NEW i \in 1 .. (Len(s) + Len(t)) PROVE u[i] \in ToSet(s) \cup ToSet(t)
    BY <1>1 DEF ToSet
  <2> HIDE DEF u
  <2>1. \A j \in 1 .. Len(s) : u[j] = s[j]
    BY <1>2 DEF u
  <2>2. \A j \in 1 .. Len(t) : u[Len(s) + j] = t[j]
    BY <1>3 DEF u
  <2> QED
    BY <1>1, <1>4, <2>1, <2>2 DEF ToSet
<1>6. ToSet(s) \subseteq ToSet(u) /\ ToSet(t) \subseteq ToSet(u)
  <2>1. DOMAIN u = 1 .. (Len(s) + Len(t))
    BY <1>1
  <2>2. \A j \in 1 .. Len(s) : j \in DOMAIN u /\ u[j] = s[j]
    BY <1>2, <2>1
  <2>3. \A j \in 1 .. Len(t) : Len(s) + j \in DOMAIN u /\ u[Len(s) + j] = t[j]
    BY <1>3, <2>1
  <2> HIDE DEF u
  <2> QED
    BY <1>1, <2>2, <2>3 DEF ToSet
<1> QED
  BY <1>5, <1>6

\* What Respond answers with is one batch of the operation's rows.
LEMMA RespondMakes ==
  ASSUME TypeOK, LabelFits, NEW updated \in Int, Respond(updated),
         ~(kind = "watchlist" /\ Incomplete)
  PROVE  \E stamp \in Int, items \in Seq(RowType) :
            /\ batches' = [s \in {SourceOf[kind]} |-> Batch(stamp, items)]
            /\ kind \in {"watchlist", "quotes"} => items = Quotes(updated)
            /\ kind = "candles" => items = Bars(now)
            /\ kind = "flow" => items = Flows(now)
<1>1. now \in Int /\ kind \in {"watchlist", "quotes", "candles", "flow", "distribution", "holdings"}
  BY DEF Respond, TypeOK, LabelFits, Kinds, Snapshots
<1>2. /\ Quotes(updated) \in Seq(RowType) /\ Disclosures(updated) \in Seq(RowType)
      /\ Totals(updated) \in Seq(RowType)
  BY RowsMade
<1>3. Bars(now) \in Seq(RowType) /\ Flows(now) \in Seq(RowType)
  BY <1>1, RowsMade
<1> DEFINE stamp == IF kind = "flow" THEN now ELSE 0
           items == CASE kind \in {"watchlist", "quotes"} -> Quotes(updated)
                      [] kind = "candles" -> Bars(now)
                      [] kind = "flow" -> Flows(now)
                      [] kind = "distribution" -> Totals(updated)
                      [] kind = "holdings" -> Disclosures(updated)
<1>4. batches' = [s \in {SourceOf[kind]} |-> Batch(stamp, items)]
  BY DEF Respond
<1>5. stamp \in Int
  BY <1>1
<1>6. /\ kind \in {"watchlist", "quotes"} => items = Quotes(updated)
      /\ kind = "candles" => items = Bars(now)
      /\ kind = "flow" => items = Flows(now)
      /\ kind = "distribution" => items = Totals(updated)
      /\ kind = "holdings" => items = Disclosures(updated)
  OBVIOUS
<1> HIDE DEF stamp, items
<1>7. items \in Seq(RowType)
  BY <1>1, <1>2, <1>3, <1>6
<1> QED
  BY <1>4, <1>5, <1>6, <1>7

-----------------------------------------------------------------------------
(* Each action keeps it                                                    *)

\* A request is admitted or refused.
LEMMA RequestKeeps ==
    ASSUME GatewayInv, NEW k \in Kinds, NEW n \in 1 .. MaxCount,
           NEW method, NEW net, NEW origin, NEW token,
           Request(k, n, method, net, origin, token)
    PROVE  GatewayInv'
<1>1. TypeOK'
  BY DEF GatewayInv, TypeOK, Labels, Admitted, Error, Reply, NoAnswer,
     Request, Keeps, Go, clock, adapter
<1>2. LabelFits'
  BY DEF GatewayInv, LabelFits, Kinds, Snapshots, TypeOK, Admitted, Error,
     Reply, NoAnswer, Request, Keeps, Go, clock, adapter
<1>3. OneAnswer'
  BY DEF GatewayInv, OneAnswer, Admitted, Error, Reply, NoAnswer, Request,
     Keeps, Go, clock, adapter
<1>4. BatchesApart'
  <2>1. pc = "idle" /\ answer = NoAnswer /\ pc' \in {"check", "idle"}
    BY DEF Request, Error, Reply
  <2>2. rows = <<>> /\ pages = <<>> /\ refused = {} /\ failed = {}
    BY <2>1 DEF GatewayInv, OneAnswer
  <2>3. rows' = rows /\ pages' = pages /\ refused' = refused /\ failed' = failed
    BY DEF Request, adapter
  <2>4. ToSet(rows) = {}
    BY <2>2 DEF ToSet
  <2> QED
    BY <2>1, <2>3, <2>4 DEF BatchesApart
<1>5. PagesInOrder'
  <2>1. pc = "idle" /\ answer = NoAnswer /\ pc' \in {"check", "idle"}
    BY DEF Request, Error, Reply
  <2>2. rows = <<>> /\ pages = <<>> /\ refused = {} /\ failed = {}
    BY <2>1 DEF GatewayInv, OneAnswer
  <2>3. rows' = rows /\ pages' = pages /\ refused' = refused /\ failed' = failed
    BY DEF Request, adapter
  <2>4. IsInjective(<<>>) /\ Len(<<>>) <= MaxPages
    BY GatewayAssumption DEF IsInjective
  <2> QED
    BY <2>1, <2>2, <2>3, <2>4 DEF PagesInOrder
<1>6. BatchIsMade'
  BY DEF GatewayInv, BatchIsMade, LabelFits, Snapshots, Bars, LastOnes,
     Flows, Admitted, Error, Reply, NoAnswer, Request, Keeps, Go, clock,
     adapter
<1>7. SourcesInTurn'
  <2>1. pc = "idle" /\ answer = NoAnswer /\ pc' \in {"check", "idle"}
    BY DEF Request, Error, Reply
  <2>2. rows = <<>> /\ pages = <<>> /\ refused = {} /\ failed = {}
    BY <2>1 DEF GatewayInv, OneAnswer
  <2>3. rows' = rows /\ pages' = pages /\ refused' = refused /\ failed' = failed
    BY DEF Request, adapter
  <2> QED
    BY <2>1, <2>2, <2>3 DEF SourcesInTurn
<1> QED
  BY <1>1, <1>2, <1>3, <1>4, <1>5, <1>6, <1>7 DEF GatewayInv

\* The session is checked.
LEMMA CheckHealthKeeps ==
    ASSUME GatewayInv, NEW state \in {"healthy", "login-required"}, CheckHealth(state)
    PROVE  GatewayInv'
<1>1. TypeOK'
  BY DEF GatewayInv, TypeOK, Labels, CheckHealth, Keeps, Go, clock, adapter
<1>2. LabelFits'
  BY DEF GatewayInv, LabelFits, Kinds, Snapshots, TypeOK, CheckHealth,
     Keeps, Go, clock, adapter
<1>3. OneAnswer'
  BY DEF GatewayInv, OneAnswer, CheckHealth, Keeps, Go, clock, adapter
<1>4. BatchesApart'
  BY DEF GatewayInv, BatchesApart, LabelFits, Snapshots, CheckHealth, Keeps,
     Go, clock, adapter
<1>5. PagesInOrder'
  BY DEF GatewayInv, PagesInOrder, LabelFits, Snapshots, CheckHealth, Keeps,
     Go, clock, adapter
<1>6. BatchIsMade'
  BY DEF GatewayInv, BatchIsMade, LabelFits, Snapshots, Bars, LastOnes,
     Flows, CheckHealth, Keeps, Go, clock, adapter
<1>7. SourcesInTurn'
  BY DEF GatewayInv, SourcesInTurn, LabelFits, Snapshots, Asked,
     CheckHealth, Keeps, Go, clock, adapter
<1> QED
  BY <1>1, <1>2, <1>3, <1>4, <1>5, <1>6, <1>7 DEF GatewayInv

\* The health decides whether OpenD is called at all.
LEMMA ObserveKeeps ==
    ASSUME GatewayInv, Observe
    PROVE  GatewayInv'
<1>1. TypeOK'
  BY DEF GatewayInv, TypeOK, Labels, Error, Reply, NoAnswer, UnhealthyV3,
     Observe, Keeps, Go, clock, adapter
<1>2. LabelFits'
  BY DEF GatewayInv, LabelFits, Kinds, Snapshots, TypeOK, Error, Reply,
     NoAnswer, UnhealthyV3, Observe, Keeps, Go, clock, adapter
<1>3. OneAnswer'
  BY DEF GatewayInv, OneAnswer, Error, Reply, NoAnswer, UnhealthyV3,
     Observe, Keeps, Go, clock, adapter
<1>4. BatchesApart'
  BY DEF GatewayInv, BatchesApart, LabelFits, Snapshots, Error, Reply,
     NoAnswer, UnhealthyV3, Observe, Keeps, Go, clock, adapter
<1>5. PagesInOrder'
  BY DEF GatewayInv, PagesInOrder, LabelFits, Snapshots, Error, Reply,
     NoAnswer, UnhealthyV3, Observe, Keeps, Go, clock, adapter
<1>6. BatchIsMade'
  BY DEF GatewayInv, BatchIsMade, LabelFits, Snapshots, Bars, LastOnes,
     Flows, Error, Reply, NoAnswer, UnhealthyV3, Observe, Keeps, Go, clock,
     adapter
<1>7. SourcesInTurn'
  <2>1. pc = "observe" /\ batches = <<>> /\ failed = {} /\ batches' = batches /\ failed' = failed
    BY DEF Observe, Keeps, GatewayInv, OneAnswer
  <2>2. Asked' = {}
    BY <2>1 DEF Asked
  <2>3. pc' # "finish"
    BY DEF Observe, Go, Error, Reply
  <2> QED
    BY <2>1, <2>2, <2>3 DEF SourcesInTurn
<1> QED
  BY <1>1, <1>2, <1>3, <1>4, <1>5, <1>6, <1>7 DEF GatewayInv

\* The connection, and of a watchlist its group.
LEMMA ConnectKeeps ==
    ASSUME GatewayInv, NEW l \in Seq(Nat), l \in Lists,
           kind \notin {"watchlist", "quotes"} => l = <<>>, Connect(l)
    PROVE  GatewayInv'
<1>1. TypeOK'
  BY DEF GatewayInv, TypeOK, Labels, Connect, Keeps, Go, clock, adapter
<1>2. LabelFits'
  BY DEF GatewayInv, LabelFits, Kinds, Snapshots, TypeOK, Connect, Keeps,
     Go, clock, adapter
<1>3. OneAnswer'
  BY DEF GatewayInv, OneAnswer, Connect, Keeps, Go, clock, adapter
<1>4. BatchesApart'
  <2>1. /\ pc = "connect" /\ rows = <<>> /\ pages = <<>> /\ more = None
        /\ refused = {} /\ batches = <<>>
    BY DEF Connect, GatewayInv, OneAnswer
  <2>2. /\ rows' = rows /\ pages' = pages /\ more' = more /\ refused' = refused
        /\ batches' = batches /\ kind' = kind
        /\ list' = IF kind \in {"watchlist", "quotes"} THEN l ELSE <<>>
        /\ work' = IF kind # "watchlist" \/ list' = <<>> THEN <<>> ELSE <<list'>>
        /\ pc' = IF kind \in {"candles", "holdings"} THEN "page"
                 ELSE IF kind # "watchlist" THEN "call"
                 ELSE IF list' = <<>> THEN "receive" ELSE "bisect"
    BY DEF Connect, Keeps, Go
  <2>3. ToSet(rows) = {}
    BY <2>1 DEF ToSet
  <2>4. SUFFICES ASSUME kind = "watchlist", pc' = "bisect" PROVE BatchesApart'
    BY <2>1, <2>2, <2>3 DEF BatchesApart
  <2>5. list' = l /\ l # <<>> /\ work' = <<l>>
    BY <2>2, <2>4
  <2>6. DOMAIN work' = {1} /\ work'[1] = l
    BY <2>5
  <2>7. \A i, j \in DOMAIN l : l[i] = l[j] => i = j
    BY DEF Lists
  <2>8. Wanted(work') = ToSet(l) /\ NoneEmpty(work') /\ Apart(work')
    BY <2>5, <2>6, <2>7 DEF Wanted, NoneEmpty, Apart
  <2> QED
    BY <2>1, <2>2, <2>3, <2>5, <2>8 DEF BatchesApart
<1>5. PagesInOrder'
  <2>1. /\ pc = "connect" /\ rows = <<>> /\ pages = <<>> /\ more = None
        /\ refused = {} /\ batches = <<>>
    BY DEF Connect, GatewayInv, OneAnswer
  <2>2. /\ rows' = rows /\ pages' = pages /\ more' = more /\ refused' = refused
        /\ batches' = batches /\ kind' = kind
        /\ list' = IF kind \in {"watchlist", "quotes"} THEN l ELSE <<>>
        /\ work' = IF kind # "watchlist" \/ list' = <<>> THEN <<>> ELSE <<list'>>
        /\ pc' = IF kind \in {"candles", "holdings"} THEN "page"
                 ELSE IF kind # "watchlist" THEN "call"
                 ELSE IF list' = <<>> THEN "receive" ELSE "bisect"
    BY DEF Connect, Keeps, Go
  <2>3. IsInjective(<<>>) /\ Len(<<>>) < MaxPages /\ ToSet(<<>>) = {}
    BY GatewayAssumption DEF IsInjective, ToSet
  <2>4. pages' = <<>> /\ more' = None
    BY <2>1, <2>2
  <2>5. Len(pages') <= MaxPages /\ Len(pages') < MaxPages
    BY <2>3, <2>4, GatewayAssumption
  <2>6. IsInjective(pages') /\ more' \notin ToSet(pages')
    BY <2>3, <2>4
  <2> QED
    BY <2>4, <2>5, <2>6 DEF PagesInOrder
<1>6. BatchIsMade'
  <2>1. /\ pc = "connect" /\ rows = <<>> /\ pages = <<>> /\ more = None
        /\ refused = {} /\ batches = <<>>
    BY DEF Connect, GatewayInv, OneAnswer
  <2>2. /\ rows' = rows /\ pages' = pages /\ more' = more /\ refused' = refused
        /\ batches' = batches /\ kind' = kind
        /\ list' = IF kind \in {"watchlist", "quotes"} THEN l ELSE <<>>
        /\ work' = IF kind # "watchlist" \/ list' = <<>> THEN <<>> ELSE <<list'>>
        /\ pc' = IF kind \in {"candles", "holdings"} THEN "page"
                 ELSE IF kind # "watchlist" THEN "call"
                 ELSE IF list' = <<>> THEN "receive" ELSE "bisect"
    BY DEF Connect, Keeps, Go
  <2>3. pc' # "finish" /\ (pc' = "receive" => kind' = "watchlist" /\ list' = <<>>)
    BY <2>2
  <2>4. Those(<<>>, ToSet(<<>>) \ {}) = <<>>
    BY NothingIsThere
  <2>5. Symbolic(<<>>) = <<>>
    BY DEF Symbolic
  <2>6. "quote" \notin DOMAIN batches'
    BY <2>1, <2>2
  <2> QED
    BY <2>1, <2>2, <2>3, <2>4, <2>5, <2>6 DEF BatchIsMade
<1>7. SourcesInTurn'
  BY DEF GatewayInv, SourcesInTurn, LabelFits, Snapshots, Asked, Connect,
     Keeps, Go, clock, adapter
<1> QED
  BY <1>1, <1>2, <1>3, <1>4, <1>5, <1>6, <1>7 DEF GatewayInv

\* A failed call ends the request.
LEMMA CallFailsKeeps ==
    ASSUME GatewayInv, CallFails
    PROVE  GatewayInv'
<1>1. TypeOK'
  BY DEF GatewayInv, TypeOK, Labels, Error, Reply, NoAnswer, CallFails,
     Keeps, Go, clock, adapter
<1>2. LabelFits'
  BY DEF GatewayInv, LabelFits, Kinds, Snapshots, TypeOK, Error, Reply,
     NoAnswer, CallFails, Keeps, Go, clock, adapter
<1>3. OneAnswer'
  BY DEF GatewayInv, OneAnswer, Error, Reply, NoAnswer, CallFails, Keeps,
     Go, clock, adapter
<1>4. BatchesApart'
  BY DEF GatewayInv, BatchesApart, LabelFits, Snapshots, Error, Reply,
     NoAnswer, CallFails, Keeps, Go, clock, adapter
<1>5. PagesInOrder'
  BY DEF GatewayInv, PagesInOrder, LabelFits, Snapshots, Error, Reply,
     NoAnswer, CallFails, Keeps, Go, clock, adapter
<1>6. BatchIsMade'
  BY DEF GatewayInv, BatchIsMade, LabelFits, Snapshots, Bars, LastOnes,
     Flows, Error, Reply, NoAnswer, CallFails, Keeps, Go, clock, adapter
<1>7. SourcesInTurn'
  BY DEF GatewayInv, SourcesInTurn, LabelFits, Snapshots, Asked, Error,
     Reply, NoAnswer, CallFails, Keeps, Go, clock, adapter
<1> QED
  BY <1>1, <1>2, <1>3, <1>4, <1>5, <1>6, <1>7 DEF GatewayInv

\* The rows of one call.
LEMMA CallKeeps ==
    ASSUME GatewayInv, NEW found \in Seq(Int), Call(found)
    PROVE  GatewayInv'
<1>1. TypeOK'
  BY DEF GatewayInv, TypeOK, Labels, Call, Keeps, Go, clock, adapter
<1>2. LabelFits'
  BY DEF GatewayInv, LabelFits, Kinds, Snapshots, TypeOK, Call, Keeps, Go,
     clock, adapter
<1>3. OneAnswer'
  BY DEF GatewayInv, OneAnswer, Call, Keeps, Go, clock, adapter
<1>4. BatchesApart'
  BY DEF GatewayInv, BatchesApart, LabelFits, Snapshots, Call, Keeps, Go,
     clock, adapter
<1>5. PagesInOrder'
  BY DEF GatewayInv, PagesInOrder, LabelFits, Snapshots, Call, Keeps, Go,
     clock, adapter
<1>6. BatchIsMade'
  BY DEF GatewayInv, BatchIsMade, LabelFits, Snapshots, Bars, LastOnes,
     Flows, Call, Keeps, Go, clock, adapter
<1>7. SourcesInTurn'
  BY DEF GatewayInv, SourcesInTurn, LabelFits, Snapshots, Asked, Call,
     Keeps, Go, clock, adapter
<1> QED
  BY <1>1, <1>2, <1>3, <1>4, <1>5, <1>6, <1>7 DEF GatewayInv

\* A batch of a watchlist is accepted or refused.
LEMMA BisectKeeps ==
    ASSUME GatewayInv, NEW accepted \in BOOLEAN, NEW reply,
           pc = "bisect" => reply \in SUBSET ToSet(Head(work)), Bisect(accepted, reply)
    PROVE  GatewayInv'
<1>1. TypeOK'
  <2>1. SUFFICES ASSUME pc = "bisect" PROVE TypeOK'
    BY DEF Bisect
  <2>2. work \in Seq(Seq(Nat)) /\ work # <<>> /\ work[1] # <<>>
    BY <2>1 DEF GatewayInv, TypeOK, LabelFits, BatchesApart, NoneEmpty
  <2>3. /\ Head(work) \in Seq(Nat) /\ Tail(work) \in Seq(Seq(Nat)) /\ Len(Head(work)) \in Nat \ {0}
        /\ Head(work)[1] \in Nat
    BY <2>2
  <2>4. Those(Head(work), reply) \in Seq(Nat)
    BY <2>3, ThoseAreThere
  <2>5. rows \o Those(Head(work), reply) \in Seq(Int)
    <3>1. rows \in Seq(Int)
      BY DEF GatewayInv, TypeOK
    <3> QED
      BY <2>4, <3>1
  <2>6a. Len(Head(work)) # 1 => Halves(Head(work)) \in Seq(Seq(Nat))
    <3>0. \A n \in Nat \ {0} : n # 1 => n >= 2
      OBVIOUS
    <3>1. Len(Head(work)) # 1 => Len(Head(work)) >= 2
      BY <2>3, <3>0
    <3> DEFINE s == Head(work)
    <3> HIDE DEF s
    <3>2. s \in Seq(Nat) /\ (Len(s) # 1 => Len(s) >= 2)
      BY <2>3, <3>1 DEF s
    <3>3. Len(s) # 1 => Halves(s) \in Seq(Seq(Nat))
      BY <3>2, HalvesOf
    <3> QED
      BY <3>3 DEF s
  <2>6. Remaining(Head(work)) \in Seq(Seq(Nat))
    BY <2>3, <2>6a DEF Remaining
  <2>7. Refusal(Head(work)) \in SUBSET Nat
    BY <2>3 DEF Refusal
  <2>8. work' \in Seq(Seq(Nat)) /\ refused' \in SUBSET Nat /\ rows' \in Seq(Int)
    BY <2>3, <2>5, <2>6, <2>7 DEF Bisect, GatewayInv, TypeOK
  <2>9. pc' \in {"respond", "bisect"}
    BY DEF Bisect, Go
  <2> QED
    BY <2>8, <2>9 DEF Bisect, Keeps, GatewayInv, TypeOK, Labels, clock
<1>2. LabelFits'
  BY DEF GatewayInv, LabelFits, Kinds, Snapshots, TypeOK, Bisect, Keeps, Go,
     clock, adapter
<1>3. OneAnswer'
  BY DEF GatewayInv, OneAnswer, Bisect, Keeps, Go, clock, adapter
<1>4. BatchesApart'
  <2>1. SUFFICES ASSUME pc = "bisect" PROVE BatchesApart'
    BY DEF Bisect
  <2> DEFINE batch == Head(work)
  <2>2. /\ work \in Seq(Seq(Nat)) /\ rows \in Seq(Int) /\ kind = "watchlist"
        /\ NoneEmpty(work) /\ Apart(work) /\ reply \in SUBSET ToSet(batch)
        /\ Wanted(work) \subseteq ToSet(list)
        /\ Wanted(work) \cap (ToSet(rows) \cup refused) = {}
        /\ ToSet(rows) \subseteq ToSet(list) /\ ToSet(rows) \cap refused = {}
    BY <2>1 DEF GatewayInv, TypeOK, LabelFits, BatchesApart
  <2>3. /\ Apart(Tail(work)) /\ \A a \in DOMAIN Tail(work) : Tail(work)[a] # <<>>
        /\ Wanted(Tail(work)) \subseteq Wanted(work) /\ ToSet(batch) \subseteq Wanted(work)
        /\ ToSet(batch) \cap Wanted(Tail(work)) = {}
    BY <2>2, TailApart
  <2>4. batch \in Seq(Nat) /\ Len(batch) \in Nat \ {0} /\ batch[1] \in ToSet(batch)
    BY <2>2 DEF NoneEmpty, ToSet
  <2>5. list' = list /\ kind' = kind /\ (pc' = "bisect" => work' # <<>>)
    BY DEF Bisect, Keeps, Go
  <2>6. CASE accepted
    <3>1. work' = Tail(work) /\ refused' = refused /\ rows' = rows \o Those(batch, reply)
      BY <2>6 DEF Bisect
    <3>2. Those(batch, reply) \in Seq(Nat) /\ ToSet(Those(batch, reply)) = ToSet(batch) \cap reply
      BY <2>4, ThoseAreThere
    <3>4. Those(batch, reply) \in Seq(Int)
      BY <3>2
    <3>3. ToSet(rows') = ToSet(rows) \cup (ToSet(batch) \cap reply)
      BY <2>2, <3>1, <3>2, <3>4, ConcatAdds
    <3> HIDE DEF batch
    <3> QED
      BY <2>2, <2>3, <2>5, <3>1, <3>3 DEF BatchesApart, NoneEmpty
  <2>7. CASE ~accepted /\ Len(batch) = 1
    <3>1. work' = Tail(work) /\ refused' = refused \cup {batch[1]} /\ rows' = rows
      BY <2>7 DEF Bisect, Remaining, Refusal
    <3> HIDE DEF batch
    <3> QED
      BY <2>2, <2>3, <2>4, <2>5, <3>1 DEF BatchesApart, NoneEmpty
  <2>8. CASE ~accepted /\ Len(batch) # 1
    <3>1. work' = Halves(batch) \o Tail(work) /\ refused' = refused /\ rows' = rows
      BY <2>8 DEF Bisect, Remaining, Refusal
    <3>2. Len(batch) >= 2
      <4>1. \A n \in Nat \ {0} : n # 1 => n >= 2
        OBVIOUS
      <4> QED
        BY <2>4, <2>8, <4>1
    <3>3. NoneEmpty(work') /\ Apart(work') /\ Wanted(work') \subseteq Wanted(work)
      BY <2>2, <3>1, <3>2, HalvesApart
    <3> QED
      BY <2>2, <2>5, <3>1, <3>3 DEF BatchesApart
  <2> QED
    BY <2>6, <2>7, <2>8
<1>5. PagesInOrder'
  BY DEF GatewayInv, PagesInOrder, LabelFits, Snapshots, Bisect, Keeps, Go,
     clock, adapter
<1>6. BatchIsMade'
  BY DEF GatewayInv, BatchIsMade, LabelFits, Snapshots, Bars, LastOnes,
     Flows, Bisect, Keeps, Go, clock, adapter
<1>7. SourcesInTurn'
  BY DEF GatewayInv, SourcesInTurn, LabelFits, Snapshots, Asked, Bisect,
     Keeps, Go, clock, adapter
<1> QED
  BY <1>1, <1>2, <1>3, <1>4, <1>5, <1>6, <1>7 DEF GatewayInv

\* One page of a series.
LEMMA PageKeeps ==
    ASSUME GatewayInv, NEW close \in Int, NEW next \in Keys \cup {None}, Page(close, next)
    PROVE  GatewayInv'
<1>1. TypeOK'
  BY DEF GatewayInv, TypeOK, Labels, Error, Reply, NoAnswer, Page, Keeps,
     Go, clock, adapter
<1>2. LabelFits'
  BY DEF GatewayInv, LabelFits, Kinds, Snapshots, TypeOK, Error, Reply,
     NoAnswer, Page, Keeps, Go, clock, adapter
<1>3. OneAnswer'
  BY DEF GatewayInv, OneAnswer, Error, Reply, NoAnswer, Page, Keeps, Go,
     clock, adapter
<1>4. BatchesApart'
  BY DEF GatewayInv, BatchesApart, LabelFits, Snapshots, Error, Reply,
     NoAnswer, Page, Keeps, Go, clock, adapter
<1>5. PagesInOrder'
  <2>1. /\ pc = "page" /\ pages' = Append(pages, more) /\ more' = next /\ kind' = kind
        /\ \/ next = None /\ pc' = "respond"
           \/ next # None /\ pc' = "idle"
           \/ next # None /\ ~Repeats(next) /\ ~LimitReached(pages') /\ pc' = "page"
    BY DEF Page, Keeps, Go, Error, Reply
  <2>2. pages \in Seq(Keys \cup {None}) /\ Len(pages) < MaxPages /\ Len(pages) \in Nat
    BY <2>1 DEF GatewayInv, TypeOK, PagesInOrder
  <2>3. Len(pages') = Len(pages) + 1 /\ MaxPages \in Nat
    BY <2>1, <2>2, GatewayAssumption
  <2>4. pc' = "page" => Len(pages') < MaxPages
    BY <2>1, <2>2, <2>3 DEF LimitReached
  <2>5. ToSet(pages') = ToSet(pages) \cup {more}
    BY <2>1, <2>2, AppendAdds
  <2>6. kind = "candles" => IsInjective(pages')
    BY <2>1, <2>2, AppendsOnce DEF GatewayInv, PagesInOrder
  <2>7. kind = "candles" /\ pc' = "page" => more' \notin ToSet(pages')
    BY <2>1, <2>5 DEF Repeats
  <2> QED
    BY <2>1, <2>2, <2>3, <2>4, <2>6, <2>7 DEF PagesInOrder
<1>6. BatchIsMade'
  BY DEF GatewayInv, BatchIsMade, LabelFits, Snapshots, Bars, LastOnes,
     Flows, Error, Reply, NoAnswer, Page, Keeps, Go, clock, adapter
<1>7. SourcesInTurn'
  BY DEF GatewayInv, SourcesInTurn, LabelFits, Snapshots, Asked, Error,
     Reply, NoAnswer, Page, Keeps, Go, clock, adapter
<1> QED
  BY <1>1, <1>2, <1>3, <1>4, <1>5, <1>6, <1>7 DEF GatewayInv

\* The rows become items.
LEMMA RespondKeeps ==
    ASSUME GatewayInv, NEW updated \in Int, Respond(updated)
    PROVE  GatewayInv'
<1>1. TypeOK'
  <2>1. pc = "respond" /\ kind \in Kinds \ (Snapshots \cup {"health"})
    BY DEF Respond, GatewayInv, TypeOK, LabelFits
  <2>2. SourceOf[kind] \in Sources \cup {"distribution"}
    BY <2>1 DEF SourceOf, Kinds, Snapshots, Sources
  <2>3. CASE batches' = batches
    BY <2>3 DEF Respond, Go, Error, Reply, Keeps, clock, adapter, GatewayInv, TypeOK, Labels
  <2>4. CASE batches' # batches
    <3>1. PICK stamp \in Int, items \in Seq(RowType) :
            batches' = [s \in {SourceOf[kind]} |-> Batch(stamp, items)]
      <4>1. ~(kind = "watchlist" /\ Incomplete)
        BY <2>4 DEF Respond
      <4> QED
        BY <4>1, RespondMakes DEF GatewayInv
    <3>2. Batch(stamp, items) \in [received : Int, rows : Seq(RowType)]
      BY DEF Batch
    <3>3. DOMAIN batches' = {SourceOf[kind]} /\ batches'[SourceOf[kind]] = Batch(stamp, items)
      BY <3>1
    <3> QED
      BY <2>2, <3>2, <3>3
         DEF Respond, Go, Error, Reply, Keeps, clock, adapter, GatewayInv, TypeOK, Labels
  <2> QED
    BY <2>3, <2>4
<1>2. LabelFits'
  BY DEF GatewayInv, LabelFits, Kinds, Snapshots, TypeOK, Error, Reply,
     NoAnswer, Respond, Keeps, Go, clock, adapter
<1>3. OneAnswer'
  BY DEF GatewayInv, OneAnswer, Error, Reply, NoAnswer, Respond, Keeps, Go,
     clock, adapter
<1>4. BatchesApart'
  BY DEF GatewayInv, BatchesApart, LabelFits, Snapshots, Error, Reply,
     NoAnswer, Respond, Keeps, Go, clock, adapter
<1>5. PagesInOrder'
  BY DEF GatewayInv, PagesInOrder, LabelFits, Snapshots, Error, Reply,
     NoAnswer, Respond, Keeps, Go, clock, adapter
<1>6. BatchIsMade'
  <2>1. /\ pc = "respond" /\ kind \in Kinds \ (Snapshots \cup {"health"}) /\ kind' = kind
        /\ list' = list /\ refused' = refused /\ rows' = rows /\ count' = count
    BY DEF Respond, Keeps, adapter, GatewayInv, TypeOK, LabelFits
  <2>2. SUFFICES ASSUME pc' # "idle" PROVE BatchIsMade'
    BY DEF BatchIsMade
  <2>3. /\ pc' = (IF kind = "flow" THEN "finish" ELSE "receive")
        /\ ~(kind = "watchlist" /\ Incomplete)
    BY <2>2 DEF Respond, Go, Error, Reply
  <2>4. PICK stamp \in Int, items \in Seq(RowType) :
            /\ batches' = [s \in {SourceOf[kind]} |-> Batch(stamp, items)]
            /\ kind \in {"watchlist", "quotes"} => items = Quotes(updated)
            /\ kind = "candles" => items = Bars(now)
            /\ kind = "flow" => items = Flows(now)
    BY <2>3, RespondMakes DEF GatewayInv
  <2>5. DOMAIN batches' = {SourceOf[kind]} /\ batches'[SourceOf[kind]].rows = items
    BY <2>4 DEF Batch
  <2>6. PICK t \in Int : t = now
    BY DEF GatewayInv, TypeOK
  <2>7. Bars(t)' = Bars(t) /\ Flows(t)' = Flows(t)
    BY <2>1, BarsStay
  <2>8. Bars(t) = Bars(now) /\ Flows(t) = Flows(now)
    BY <2>6
  <2>9. CASE kind = "candles"
    <3>1. SourceOf[kind] = "candles"
      BY <2>9 DEF SourceOf, Kinds
    <3>2. batches'["candles"].rows = Bars(t)'
      BY <2>4, <2>5, <2>7, <2>8, <2>9, <3>1
    <3> QED
      BY <2>1, <2>3, <2>5, <2>9, <3>1, <3>2 DEF BatchIsMade
  <2>10. CASE kind = "flow"
    <3>1. SourceOf[kind] = "flow"
      BY <2>10 DEF SourceOf, Kinds
    <3>2. batches'["flow"].rows = Flows(t)'
      BY <2>4, <2>5, <2>7, <2>8, <2>10, <3>1
    <3> QED
      BY <2>1, <2>3, <2>5, <2>10, <3>1, <3>2 DEF BatchIsMade
  <2>11. CASE kind = "watchlist"
    <3>1. SourceOf[kind] = "quote"
      BY <2>11 DEF SourceOf, Kinds
    <3>2. /\ list \in Seq(Nat) /\ ToSet(rows) \subseteq ToSet(list)
          /\ ToSet(rows) \cap refused = {}
          /\ ToSet(list) \subseteq ToSet(rows) \cup refused
      BY <2>3, <2>11 DEF GatewayInv, TypeOK, BatchesApart, Incomplete
    <3>3. ToSet(rows) = ToSet(list) \ refused
      BY <3>2
    <3> DEFINE quoted == Those(list, ToSet(rows))
    <3>4. quoted \in Seq(Nat)
      BY <3>2, ThoseAreThere
    <3>5. items = [i \in DOMAIN quoted |-> Row(quoted[i], updated, updated, TRUE)]
      BY <2>4, <2>11 DEF Quotes
    <3>6. quoted = Those(list, ToSet(list) \ refused)
      BY <3>3
    <3> HIDE DEF quoted
    <3>7. quoted = [i \in DOMAIN quoted |-> quoted[i]]
      BY <3>4
    <3>8. Symbolic(items) = quoted
      BY <3>5, <3>7 DEF Symbolic, Row
    <3> QED
      BY <2>1, <2>3, <2>5, <2>11, <3>1, <3>6, <3>8 DEF BatchIsMade
  <2>12. CASE kind \notin {"candles", "watchlist", "flow"}
    BY <2>1, <2>3, <2>5, <2>12 DEF BatchIsMade
  <2> QED
    BY <2>9, <2>10, <2>11, <2>12
<1>7. SourcesInTurn'
  BY DEF GatewayInv, SourcesInTurn, LabelFits, Snapshots, Asked, Error,
     Reply, NoAnswer, Respond, Keeps, Go, clock, adapter
<1> QED
  BY <1>1, <1>2, <1>3, <1>4, <1>5, <1>6, <1>7 DEF GatewayInv

\* The batch is stamped.
LEMMA ReceiveKeeps ==
    ASSUME GatewayInv, Receive
    PROVE  GatewayInv'
<1>1. TypeOK'
  <2>1. pc' = "finish" /\ pc = "receive" /\ kind \in Kinds \ (Snapshots \cup {"health"})
    BY DEF Receive, Go, GatewayInv, TypeOK, LabelFits
  <2>2. SourceOf[kind] \in Sources \cup {"distribution"}
    BY <2>1 DEF SourceOf, Kinds, Snapshots, Sources
  <2> DEFINE items == IF SourceOf[kind] \in DOMAIN batches
                      THEN batches[SourceOf[kind]].rows ELSE <<>>
  <2>3. items \in Seq(RowType)
    BY DEF GatewayInv, TypeOK
  <2>4. batches' = [x \in {SourceOf[kind]} |-> Batch(now, items)]
    BY DEF Receive
  <2> HIDE DEF items
  <2>5. Batch(now, items) \in [received : Int, rows : Seq(RowType)]
    BY <2>3 DEF Batch, GatewayInv, TypeOK
  <2>6. DOMAIN batches' = {SourceOf[kind]} /\ batches'[SourceOf[kind]] = Batch(now, items)
    BY <2>4
  <2> QED
    BY <2>1, <2>2, <2>5, <2>6 DEF Receive, Keeps, clock, adapter, GatewayInv, TypeOK, Labels
<1>2. LabelFits'
  BY DEF GatewayInv, LabelFits, Kinds, Snapshots, TypeOK, Receive, Keeps,
     Go, clock, adapter
<1>3. OneAnswer'
  BY DEF GatewayInv, OneAnswer, Receive, Keeps, Go, clock, adapter
<1>4. BatchesApart'
  BY DEF GatewayInv, BatchesApart, LabelFits, Snapshots, Receive, Keeps, Go,
     clock, adapter
<1>5. PagesInOrder'
  BY DEF GatewayInv, PagesInOrder, LabelFits, Snapshots, Receive, Keeps, Go,
     clock, adapter
<1>6. BatchIsMade'
  <2>1. /\ pc = "receive" /\ pc' = "finish" /\ kind \in Kinds \ (Snapshots \cup {"health"})
        /\ kind' = kind /\ list' = list /\ refused' = refused /\ rows' = rows /\ count' = count
    BY DEF Receive, Go, Keeps, adapter, GatewayInv, TypeOK, LabelFits
  <2> DEFINE items == IF SourceOf[kind] \in DOMAIN batches
                      THEN batches[SourceOf[kind]].rows ELSE <<>>
  <2>2. batches' = [x \in {SourceOf[kind]} |-> Batch(now, items)]
    BY DEF Receive
  <2>3. DOMAIN batches' = {SourceOf[kind]} /\ batches'[SourceOf[kind]].rows = items
    <3> HIDE DEF items
    <3> QED
      BY <2>2 DEF Batch
  <2>4. kind # "flow"
    BY <2>1 DEF GatewayInv, LabelFits
  <2>5. CASE kind = "candles"
    <3>1. SourceOf[kind] = "candles"
      BY <2>5 DEF SourceOf, Kinds
    <3>2. "candles" \in DOMAIN batches
      BY <2>1, <2>5, <3>1 DEF GatewayInv, BatchIsMade
    <3>3. PICK t \in Int : batches["candles"].rows = Bars(t)
      BY <2>1, <2>5 DEF GatewayInv, BatchIsMade
    <3>4. batches'["candles"].rows = Bars(t)'
      BY <2>1, <2>3, <3>1, <3>2, <3>3, BarsStay
    <3> QED
      BY <2>1, <2>3, <2>5, <3>1, <3>4 DEF BatchIsMade
  <2>6. CASE kind = "watchlist"
    <3>1. SourceOf[kind] = "quote"
      BY <2>6 DEF SourceOf, Kinds
    <3>2. Symbolic(items) = Those(list, ToSet(list) \ refused)
      BY <2>1, <2>6, <3>1 DEF GatewayInv, BatchIsMade
    <3> QED
      BY <2>1, <2>3, <2>6, <3>1, <3>2 DEF BatchIsMade
  <2>7. CASE kind \notin {"candles", "watchlist"}
    BY <2>1, <2>3, <2>4, <2>7 DEF BatchIsMade
  <2> QED
    BY <2>5, <2>6, <2>7
<1>7. SourcesInTurn'
  BY DEF GatewayInv, SourcesInTurn, LabelFits, Snapshots, Asked, Receive,
     Keeps, Go, clock, adapter
<1> QED
  BY <1>1, <1>2, <1>3, <1>4, <1>5, <1>6, <1>7 DEF GatewayInv

\* A source of a snapshot gives a batch.
LEMMA FetchKeeps ==
    ASSUME GatewayInv, NEW s \in Sources, NEW received \in Int, NEW items \in Seq(RowType),
           Fetch(s, received, items)
    PROVE  GatewayInv'
<1>1. TypeOK'
  <2>1. pc' \in {"finish", "fetch"}
    BY DEF Fetch, Go
  <2>2. DOMAIN batches' = DOMAIN batches \cup {s}
    BY DEF Fetch
  <2>3. Batch(received, items) \in [received : Int, rows : Seq(RowType)]
    BY DEF Batch
  <2>4. \A x \in DOMAIN batches' : batches'[x] \in [received : Int, rows : Seq(RowType)]
    BY <2>3 DEF Fetch, GatewayInv, TypeOK
  <2> QED
    BY <2>1, <2>2, <2>4 DEF Fetch, Keeps, clock, adapter, GatewayInv, TypeOK, Labels
<1>2. LabelFits'
  BY DEF GatewayInv, LabelFits, Kinds, Snapshots, TypeOK, Turn, Fetch,
     Keeps, Go, clock, adapter
<1>3. OneAnswer'
  BY DEF GatewayInv, OneAnswer, Turn, Fetch, Keeps, Go, clock, adapter
<1>4. BatchesApart'
  BY DEF GatewayInv, BatchesApart, LabelFits, Snapshots, Turn, Fetch, Keeps,
     Go, clock, adapter
<1>5. PagesInOrder'
  BY DEF GatewayInv, PagesInOrder, LabelFits, Snapshots, Turn, Fetch, Keeps,
     Go, clock, adapter
<1>6. BatchIsMade'
  BY DEF GatewayInv, BatchIsMade, LabelFits, Snapshots, Bars, LastOnes,
     Flows, Turn, Fetch, Keeps, Go, clock, adapter
<1>7. SourcesInTurn'
  <2>1. Asked \in {{}, {"quote"}, {"quote", "candles"}, {"quote", "candles", "flow"}}
    BY DEF Fetch, Turn, GatewayInv, SourcesInTurn
  <2>2. /\ Asked' = Asked \cup {s} /\ s = InOrder[Cardinality(Asked) + 1]
        /\ pc' = (IF Cardinality(Asked) = 3 THEN "finish" ELSE "fetch")
        /\ kind' = kind /\ failed' = failed
    BY DEF Fetch, Turn, Go, Keeps, Asked
  <2>3. \/ /\ Asked' \in {{"quote"}, {"quote", "candles"}, {"quote", "candles", "flow"}}
           /\ pc' # "finish"
        \/ Asked' = Sources /\ pc' # "fetch"
    <3>1. CASE Asked = {}
      BY <2>2, <3>1, AskedSoFar DEF InOrder
    <3>2. CASE Asked = {"quote"}
      BY <2>2, <3>2, AskedSoFar DEF InOrder
    <3>3. CASE Asked = {"quote", "candles"}
      BY <2>2, <3>3, AskedSoFar DEF InOrder
    <3>4. CASE Asked = {"quote", "candles", "flow"}
      BY <2>2, <3>4, AskedSoFar DEF InOrder, Sources
    <3> QED
      BY <2>1, <3>1, <3>2, <3>3, <3>4
  <2> QED
    BY <2>2, <2>3 DEF GatewayInv, SourcesInTurn
<1> QED
  BY <1>1, <1>2, <1>3, <1>4, <1>5, <1>6, <1>7 DEF GatewayInv

\* A source of a snapshot fails.
LEMMA FetchFailsKeeps ==
    ASSUME GatewayInv, NEW s \in Sources, FetchFails(s)
    PROVE  GatewayInv'
<1>1. TypeOK'
  BY DEF GatewayInv, TypeOK, Labels, Error, Reply, NoAnswer, Turn,
     FetchFails, Keeps, Go, clock, adapter
<1>2. LabelFits'
  BY DEF GatewayInv, LabelFits, Kinds, Snapshots, TypeOK, Error, Reply,
     NoAnswer, Turn, FetchFails, Keeps, Go, clock, adapter
<1>3. OneAnswer'
  BY DEF GatewayInv, OneAnswer, Error, Reply, NoAnswer, Turn, FetchFails,
     Keeps, Go, clock, adapter
<1>4. BatchesApart'
  BY DEF GatewayInv, BatchesApart, LabelFits, Snapshots, Error, Reply,
     NoAnswer, Turn, FetchFails, Keeps, Go, clock, adapter
<1>5. PagesInOrder'
  BY DEF GatewayInv, PagesInOrder, LabelFits, Snapshots, Error, Reply,
     NoAnswer, Turn, FetchFails, Keeps, Go, clock, adapter
<1>6. BatchIsMade'
  BY DEF GatewayInv, BatchIsMade, LabelFits, Snapshots, Bars, LastOnes,
     Flows, Error, Reply, NoAnswer, Turn, FetchFails, Keeps, Go, clock,
     adapter
<1>7. SourcesInTurn'
  <2>0. CASE kind = "v2"
    BY <2>0 DEF FetchFails, Error, Reply, Keeps, GatewayInv, SourcesInTurn
  <2>1. CASE kind # "v2"
    <3>1. Asked \in {{}, {"quote"}, {"quote", "candles"}, {"quote", "candles", "flow"}}
      BY DEF FetchFails, Turn, GatewayInv, SourcesInTurn
    <3>2. /\ Asked' = Asked \cup {s} /\ s = InOrder[Cardinality(Asked) + 1]
          /\ pc' = (IF Cardinality(Asked) = 3 THEN "finish" ELSE "fetch") /\ kind' = kind
      BY <2>1 DEF FetchFails, Turn, Go, Keeps, Asked
    <3>3. \/ /\ Asked' \in {{"quote"}, {"quote", "candles"}, {"quote", "candles", "flow"}}
             /\ pc' # "finish"
          \/ Asked' = Sources /\ pc' # "fetch"
      BY <3>1, <3>2, AskedSoFar DEF InOrder, Sources
    <3> QED
      BY <2>1, <3>2, <3>3 DEF SourcesInTurn
  <2> QED
    BY <2>0, <2>1
<1> QED
  BY <1>1, <1>2, <1>3, <1>4, <1>5, <1>6, <1>7 DEF GatewayInv

\* The batches are judged at the cutoff.
LEMMA FinishKeeps ==
    ASSUME GatewayInv, Finish
    PROVE  GatewayInv'
<1>1. TypeOK'
  BY DEF GatewayInv, TypeOK, Labels, Error, Reply, NoAnswer, Execute,
     Finish, Keeps, Go, clock, adapter
<1>2. LabelFits'
  BY DEF GatewayInv, LabelFits, Kinds, Snapshots, TypeOK, Error, Reply,
     NoAnswer, Execute, Finish, Keeps, Go, clock, adapter
<1>3. OneAnswer'
  <2>1. pc' = "idle" /\ answer'.how \in {"error", "ok", "v2", "v3"}
    <3>1. CASE kind = "v2"
      BY <3>1 DEF Finish, Error, Reply, NoAnswer
    <3>2. CASE kind = "v3"
      BY <3>2 DEF Finish, Error, Reply, NoAnswer
    <3>3. CASE kind \notin {"v2", "v3"}
      BY <3>3 DEF Finish, Execute, Error, Reply, NoAnswer
    <3> QED
      BY <3>1, <3>2, <3>3
  <2>2. answer' # NoAnswer
    BY <2>1 DEF NoAnswer
  <2> QED
    BY <2>1, <2>2 DEF OneAnswer
<1>4. BatchesApart'
  BY DEF GatewayInv, BatchesApart, LabelFits, Snapshots, Error, Reply,
     NoAnswer, Execute, Finish, Keeps, Go, clock, adapter
<1>5. PagesInOrder'
  BY DEF GatewayInv, PagesInOrder, LabelFits, Snapshots, Error, Reply,
     NoAnswer, Execute, Finish, Keeps, Go, clock, adapter
<1>6. BatchIsMade'
  BY DEF GatewayInv, BatchIsMade, LabelFits, Snapshots, Bars, LastOnes,
     Flows, Error, Reply, NoAnswer, Execute, Finish, Keeps, Go, clock,
     adapter
<1>7. SourcesInTurn'
  BY DEF GatewayInv, SourcesInTurn, LabelFits, Snapshots, Asked, Error,
     Reply, NoAnswer, Execute, Finish, Keeps, Go, clock, adapter
<1> QED
  BY <1>1, <1>2, <1>3, <1>4, <1>5, <1>6, <1>7 DEF GatewayInv

\* Time passes.
LEMMA TickKeeps ==
    ASSUME GatewayInv, Tick
    PROVE  GatewayInv'
<1>1. TypeOK'
  BY DEF GatewayInv, TypeOK, Labels, Tick, Keeps, Go, clock, adapter
<1>2. LabelFits'
  BY DEF GatewayInv, LabelFits, Kinds, Snapshots, TypeOK, Tick, Keeps, Go,
     clock, adapter
<1>3. OneAnswer'
  BY DEF GatewayInv, OneAnswer, Tick, Keeps, Go, clock, adapter
<1>4. BatchesApart'
  BY DEF GatewayInv, BatchesApart, LabelFits, Snapshots, Tick, Keeps, Go,
     clock, adapter
<1>5. PagesInOrder'
  BY DEF GatewayInv, PagesInOrder, LabelFits, Snapshots, Tick, Keeps, Go,
     clock, adapter
<1>6. BatchIsMade'
  <2>1. pc' = pc /\ kind' = kind /\ list' = list /\ refused' = refused /\ batches' = batches
        /\ rows' = rows /\ count' = count
    BY DEF Tick, adapter
  <2> QED
    BY <2>1, BatchStaysMade DEF GatewayInv
<1>7. SourcesInTurn'
  BY DEF GatewayInv, SourcesInTurn, LabelFits, Snapshots, Asked, Tick,
     Keeps, Go, clock, adapter
<1> QED
  BY <1>1, <1>2, <1>3, <1>4, <1>5, <1>6, <1>7 DEF GatewayInv

\* The clock is set back.
LEMMA SetBackKeeps ==
    ASSUME GatewayInv, SetBack
    PROVE  GatewayInv'
<1>1. TypeOK'
  BY DEF GatewayInv, TypeOK, Labels, SetBack, Keeps, Go, clock, adapter
<1>2. LabelFits'
  BY DEF GatewayInv, LabelFits, Kinds, Snapshots, TypeOK, SetBack, Keeps,
     Go, clock, adapter
<1>3. OneAnswer'
  BY DEF GatewayInv, OneAnswer, SetBack, Keeps, Go, clock, adapter
<1>4. BatchesApart'
  BY DEF GatewayInv, BatchesApart, LabelFits, Snapshots, SetBack, Keeps, Go,
     clock, adapter
<1>5. PagesInOrder'
  BY DEF GatewayInv, PagesInOrder, LabelFits, Snapshots, SetBack, Keeps, Go,
     clock, adapter
<1>6. BatchIsMade'
  <2>1. pc' = pc /\ kind' = kind /\ list' = list /\ refused' = refused /\ batches' = batches
        /\ rows' = rows /\ count' = count
    BY DEF SetBack, adapter
  <2> QED
    BY <2>1, BatchStaysMade DEF GatewayInv
<1>7. SourcesInTurn'
  BY DEF GatewayInv, SourcesInTurn, LabelFits, Snapshots, Asked, SetBack,
     Keeps, Go, clock, adapter
<1> QED
  BY <1>1, <1>2, <1>3, <1>4, <1>5, <1>6, <1>7 DEF GatewayInv

-----------------------------------------------------------------------------
(* The specification keeps it                                              *)

\* What OpenD may give for a source is a sequence of rows.
LEMMA ContentsAreRows ==
  ASSUME NEW s \in Sources, NEW t \in Int, NEW items \in Contents(s, t)
  PROVE  items \in Seq(RowType)
<1>1. /\ Fine(t) \in RowType /\ Fine(t + 1) \in RowType /\ Bad(t) \in RowType
      /\ Row("own", t + 1, t, TRUE) \in RowType /\ Row("own", 0, t - 1, TRUE) \in RowType
  BY DEF Fine, Bad, Row, RowType
<1>2. [Fine(t) EXCEPT !.over = TRUE] \in RowType
  BY DEF Fine, Row, RowType
<1> DEFINE fine == Fine(t)
           ahead == Fine(t + 1)
           bad == Bad(t)
           early == Row("own", t + 1, t, TRUE)
           old == Row("own", 0, t - 1, TRUE)
           over == [Fine(t) EXCEPT !.over = TRUE]
<1>3. items \in {<<>>, <<fine>>, <<ahead>>, <<early>>, <<fine, old>>, <<ahead, fine>>,
                 <<over, old>>, <<bad, old>>, <<bad>>}
  BY DEF Contents, Sources
<1>4. /\ fine \in RowType /\ ahead \in RowType /\ bad \in RowType
      /\ early \in RowType /\ old \in RowType /\ over \in RowType
  BY <1>1, <1>2
<1> HIDE DEF fine, ahead, bad, early, old, over
<1>5. \A a, b \in RowType : <<a>> \in Seq(RowType) /\ <<a, b>> \in Seq(RowType)
  OBVIOUS
<1>6. /\ <<fine>> \in Seq(RowType) /\ <<ahead>> \in Seq(RowType) /\ <<early>> \in Seq(RowType)
      /\ <<bad>> \in Seq(RowType) /\ <<fine, old>> \in Seq(RowType)
      /\ <<ahead, fine>> \in Seq(RowType) /\ <<over, old>> \in Seq(RowType)
      /\ <<bad, old>> \in Seq(RowType) /\ <<>> \in Seq(RowType)
  BY <1>4, <1>5
<1> QED
  BY <1>3, <1>6

\* What a call may find is a sequence of instants.
LEMMA RepliesAreRows ==
  ASSUME TypeOK, NEW found \in Replies
  PROVE  found \in Seq(Int)
<1>1. list \in Seq(Int) /\ MaxTime \in Nat
  BY GatewayAssumption DEF TypeOK
<1>2. CASE kind = "quotes"
  <2>1. PICK got : found = Those(list, got)
    BY <1>2 DEF Replies
  <2> QED
    BY <1>1, <2>1, ThoseAreThere
<1>3. CASE kind = "flow"
  <2>1. PICK n \in 0 .. 2 : found \in [1 .. n -> 0 .. MaxTime]
    BY <1>3 DEF Replies
  <2>2. n \in Nat /\ found \in [1 .. n -> Int]
    BY <1>1, <2>1
  <2> QED
    BY <2>2, FunctionIsSeq
<1>4. CASE kind \notin {"quotes", "flow"}
  <2>1. found = <<>> \/ found = <<0>> \/ found = <<-1>>
    BY <1>4 DEF Replies
  <2>2. <<>> \in Seq(Int) /\ <<0>> \in Seq(Int) /\ <<-1>> \in Seq(Int)
    OBVIOUS
  <2> QED
    BY <2>1, <2>2
<1> QED
  BY <1>2, <1>3, <1>4

\* A watchlist is a sequence of codes.
LEMMA ListsAreSeqs ==
  ASSUME NEW l \in Lists
  PROVE  l \in Seq(Nat)
<1>1. MaxListed \in Nat
  BY GatewayAssumption
<1>2. PICK n \in 0 .. MaxListed : l = [i \in 1 .. n |-> i]
  BY DEF Lists
<1>3. n \in Nat /\ l \in [1 .. n -> Nat]
  BY <1>1, <1>2
<1> QED
  BY <1>3, FunctionIsSeq

\* The gateway begins in order.
LEMMA InitKeeps ==
  ASSUME Init
  PROVE  GatewayInv
<1>1. ToSet(<<>>) = {} /\ IsInjective(<<>>) /\ Len(<<>>) = 0
  BY DEF ToSet, IsInjective
<1>2. DOMAIN batches = {}
  BY DEF Init
<1>3. MaxPages \in Nat
  BY GatewayAssumption
<1> QED
  BY <1>1, <1>2, <1>3 DEF Init, GatewayInv, TypeOK, LabelFits, OneAnswer, BatchesApart,
     PagesInOrder, BatchIsMade, SourcesInTurn, Labels, Kinds, Snapshots

\* What changes nothing changes nothing here.
LEMMA StutterKeeps ==
  ASSUME GatewayInv, vars' = vars
  PROVE  GatewayInv'
<1>1. /\ now' = now /\ pc' = pc /\ kind' = kind /\ count' = count /\ health' = health
      /\ list' = list /\ work' = work /\ refused' = refused /\ rows' = rows
      /\ pages' = pages /\ more' = more /\ batches' = batches /\ failed' = failed
      /\ answer' = answer
  BY DEF vars, clock, adapter
<1>2. BatchIsMade'
  BY <1>1, BatchStaysMade DEF GatewayInv
<1>3. TypeOK' /\ LabelFits' /\ OneAnswer'
  BY <1>1 DEF GatewayInv, TypeOK, LabelFits, OneAnswer
<1>4. BatchesApart' /\ PagesInOrder'
  BY <1>1 DEF GatewayInv, BatchesApart, PagesInOrder, Wanted, NoneEmpty, Apart
<1>5. SourcesInTurn'
  BY <1>1 DEF GatewayInv, SourcesInTurn, Asked
<1> QED
  BY <1>2, <1>3, <1>4, <1>5 DEF GatewayInv

\* Every step keeps the order.
LEMMA NextKeeps ==
  ASSUME GatewayInv, [Next]_vars
  PROVE  GatewayInv'
<1>0. TypeOK /\ now \in Int /\ MaxTime \in Nat
  BY GatewayAssumption DEF GatewayInv, TypeOK
<1>1. CASE vars' = vars
  BY <1>1, StutterKeeps
<1>2. CASE Requested
  <2>1. PICK k \in Kinds, n \in 1 .. MaxCount :
          \/ Request(k, n, "GET", TRUE, "none", TRUE)
          \/ \E method \in {"GET", "POST"}, net \in BOOLEAN,
                origin \in {"none", "allowed", "foreign"}, token \in BOOLEAN :
                   k = "health" /\ Request(k, n, method, net, origin, token)
    BY <1>2, Zenon DEF Requested
  <2>2. ASSUME NEW method, NEW net, NEW origin, NEW token,
               Request(k, n, method, net, origin, token)
        PROVE  GatewayInv'
    BY <2>2, RequestKeeps
  <2> QED
    BY <2>1, <2>2
<1>3. CASE \E state \in {"healthy", "login-required"} : CheckHealth(state)
  BY <1>3, CheckHealthKeeps
<1>4. CASE Observe
  BY <1>4, ObserveKeeps
<1>5. ASSUME NEW l \in Lists, kind \notin {"watchlist", "quotes"} => l = <<>>, Connect(l)
      PROVE  GatewayInv'
  <2>1. l \in Seq(Nat)
    BY ListsAreSeqs
  <2> QED
    BY <1>5, <2>1, ConnectKeeps
<1>6. ASSUME NEW found \in Replies, Call(found) PROVE GatewayInv'
  <2>1. found \in Seq(Int)
    BY <1>0, RepliesAreRows
  <2> QED
    BY <1>6, <2>1, CallKeeps
<1>7. CASE CallFails
  BY <1>7, CallFailsKeeps
<1>8. ASSUME NEW reply \in SUBSET ToSet(Head(work)), NEW accepted \in BOOLEAN,
             Bisect(accepted, reply)
      PROVE  GatewayInv'
  BY <1>8, BisectKeeps
<1>9. ASSUME NEW next \in Keys \cup {None}, NEW close \in 0 .. MaxTime, Page(close, next)
      PROVE  GatewayInv'
  <2>1. close \in Int
    BY <1>0
  <2> QED
    BY <1>9, <2>1, PageKeeps
<1>10. ASSUME NEW updated \in {now, now + 1}, Respond(updated) PROVE GatewayInv'
  <2>1. updated \in Int
    BY <1>0
  <2> QED
    BY <1>10, <2>1, RespondKeeps
<1>11. CASE Receive
  BY <1>11, ReceiveKeeps
<1>12. CASE \E s \in Sources : FetchFails(s)
  BY <1>12, FetchFailsKeeps
<1>13. ASSUME NEW s \in Sources, NEW t \in {now - 1, now}, NEW items \in Contents(s, t),
              Fetch(s, t, items)
       PROVE  GatewayInv'
  <2>1. t \in Int
    BY <1>0
  <2>2. items \in Seq(RowType)
    BY <2>1, ContentsAreRows
  <2> QED
    BY <1>13, <2>1, <2>2, FetchKeeps
<1>14. CASE Finish
  BY <1>14, FinishKeeps
<1>15. CASE Tick
  BY <1>15, TickKeeps
<1>16. CASE SetBack
  BY <1>16, SetBackKeeps
<1>17. CASE Step
  <2>1. ASSUME pc = "bisect", \E reply \in SUBSET ToSet(Head(work)) :
                 Bisect(TRUE, reply) \/ (reply = {} /\ Bisect(FALSE, reply))
        PROVE  GatewayInv'
    BY <1>8, <2>1
  <2> QED
    BY <1>3, <1>4, <1>5, <1>6, <1>7, <1>9, <1>10, <1>11, <1>12, <1>13, <1>14, <1>17, <2>1
       DEF Step
<1> QED
  BY <1>1, <1>2, <1>15, <1>16, <1>17 DEF Next

\* The inductive invariant: batches of codes stay apart, pages are asked for
\* once and in turn, and what is answered was made of the rows that were read.
THEOREM RequestsKeepOrder == Spec => []GatewayInv
<1>1. Init => GatewayInv
  BY InitKeeps
<1>2. GatewayInv /\ [Next]_vars => GatewayInv'
  BY NextKeeps
<1> QED
  BY <1>1, <1>2, PTL DEF Spec

-----------------------------------------------------------------------------
(* How answers come                                                        *)

\* Rows that pass their checks were there at the instant of the check.
LEMMA NormalIsKnown ==
  ASSUME NEW rs \in Seq(RowType), NEW t \in Int, NEW s \in Sources \cup {"distribution"},
         Normal(s, rs, t) = "ok"
  PROVE  \A i \in DOMAIN rs : rs[i].avail <= t
<1>1. DOMAIN rs \in SUBSET Nat
  OBVIOUS
<1>2. CASE s = "quote"
  <2> DEFINE v == [i \in DOMAIN rs |->
                     IF /\ rs[i].sound /\ rs[i].avail <= t
                        /\ \A j \in 1 .. i - 1 : rs[j].symbol # rs[i].symbol
                     THEN "ok" ELSE "malformed"]
  <2>1. Worst(v) = "ok"
    BY <1>2 DEF Normal, NormalQuotes, Verdicts
  <2>2. \A i \in DOMAIN v : v[i] = "ok"
    <3> HIDE DEF v
    <3>1. DOMAIN v = DOMAIN rs
      BY DEF v
    <3> QED
      BY <1>1, <2>1, <3>1, NoneIsWorse
  <2> QED
    BY <2>2
<1>3. CASE s = "candles"
  <2> DEFINE v == [i \in DOMAIN rs |->
                     IF /\ rs[i].sound /\ rs[i].at <= rs[i].avail /\ rs[i].avail <= t
                        /\ i > 1 => rs[i - 1].at < rs[i].at
                     THEN "ok" ELSE "malformed"]
  <2>1. Worst(v) = "ok"
    BY <1>3 DEF Normal, NormalCandles, Verdicts
  <2>2. \A i \in DOMAIN v : v[i] = "ok"
    <3> HIDE DEF v
    <3>1. DOMAIN v = DOMAIN rs
      BY DEF v
    <3> QED
      BY <1>1, <2>1, <3>1, NoneIsWorse
  <2> QED
    BY <2>2
<1>4. CASE s = "flow"
  <2> DEFINE v == [i \in DOMAIN rs |->
                     IF ~rs[i].sound THEN "malformed"
                     ELSE IF rs[i].avail > t THEN "future"
                     ELSE IF rs[i].at > rs[i].avail \/ (i > 1 /\ rs[i - 1].at >= rs[i].at)
                          THEN "malformed" ELSE "ok"]
  <2>1. Worst(v) = "ok"
    BY <1>4 DEF Normal, NormalFlow, Verdicts
  <2>2. \A i \in DOMAIN v : v[i] = "ok"
    <3> HIDE DEF v
    <3>1. DOMAIN v = DOMAIN rs
      BY DEF v
    <3> QED
      BY <1>1, <2>1, <3>1, NoneIsWorse
  <2>3. \A i \in DOMAIN rs : rs[i].avail \in Int
    <3>1. \A i \in DOMAIN rs : rs[i] \in RowType
      OBVIOUS
    <3> QED
      BY <3>1 DEF RowType
  <2>4. \A i \in DOMAIN rs : ~(rs[i].avail > t)
    BY <2>2
  <2> QED
    BY <2>3, <2>4
<1>5. CASE s = "distribution"
  <2> DEFINE v == [i \in DOMAIN rs |->
                     IF rs[i].sound /\ rs[i].avail <= t THEN "ok" ELSE "malformed"]
  <2>1. Worst(v) = "ok"
    BY <1>5 DEF Normal, NormalTotals, Verdicts
  <2>2. \A i \in DOMAIN v : v[i] = "ok"
    <3> HIDE DEF v
    <3>1. DOMAIN v = DOMAIN rs
      BY DEF v
    <3> QED
      BY <1>1, <2>1, <3>1, NoneIsWorse
  <2> QED
    BY <2>2
<1>6. CASE s = "holdings"
  <2> DEFINE v == [i \in DOMAIN rs |->
                     IF /\ rs[i].sound /\ ~rs[i].over
                        /\ rs[i].at <= rs[i].avail /\ rs[i].avail <= t
                        /\ i > 1 => rs[i].avail <= rs[i - 1].avail
                     THEN "ok" ELSE "malformed"]
  <2>1. Worst(v) = "ok"
    BY <1>6 DEF Normal, NormalHoldings, Verdicts
  <2>2. \A i \in DOMAIN v : v[i] = "ok"
    <3> HIDE DEF v
    <3>1. DOMAIN v = DOMAIN rs
      BY DEF v
    <3> QED
      BY <1>1, <2>1, <3>1, NoneIsWorse
  <2> QED
    BY <2>2
<1> QED
  BY <1>2, <1>3, <1>4, <1>5, <1>6 DEF Sources

\* Candles and flow intervals that pass run strictly forward.
LEMMA NormalRunsForward ==
  ASSUME NEW rs \in Seq(RowType), NEW t \in Int, NEW s \in {"candles", "flow"},
         Normal(s, rs, t) = "ok"
  PROVE  \A i \in DOMAIN rs : /\ rs[i].at <= rs[i].avail
                              /\ i > 1 => rs[i - 1].at < rs[i].at
<1>1. DOMAIN rs \in SUBSET Nat
  OBVIOUS
<1>2. CASE s = "candles"
  <2> DEFINE v == [i \in DOMAIN rs |->
                     IF /\ rs[i].sound /\ rs[i].at <= rs[i].avail /\ rs[i].avail <= t
                        /\ i > 1 => rs[i - 1].at < rs[i].at
                     THEN "ok" ELSE "malformed"]
  <2>1. Worst(v) = "ok"
    BY <1>2 DEF Normal, NormalCandles, Verdicts
  <2>2. \A i \in DOMAIN v : v[i] = "ok"
    <3> HIDE DEF v
    <3>1. DOMAIN v = DOMAIN rs
      BY DEF v
    <3> QED
      BY <1>1, <2>1, <3>1, NoneIsWorse
  <2> QED
    BY <2>2
<1>3. CASE s = "flow"
  <2> DEFINE v == [i \in DOMAIN rs |->
                     IF ~rs[i].sound THEN "malformed"
                     ELSE IF rs[i].avail > t THEN "future"
                     ELSE IF rs[i].at > rs[i].avail \/ (i > 1 /\ rs[i - 1].at >= rs[i].at)
                          THEN "malformed" ELSE "ok"]
  <2>1. Worst(v) = "ok"
    BY <1>3 DEF Normal, NormalFlow, Verdicts
  <2>2. \A i \in DOMAIN v : v[i] = "ok"
    <3> HIDE DEF v
    <3>1. DOMAIN v = DOMAIN rs
      BY DEF v
    <3> QED
      BY <1>1, <2>1, <3>1, NoneIsWorse
  <2>3. \A i \in DOMAIN rs : /\ rs[i].avail \in Int /\ rs[i].at \in Int
                             /\ i > 1 => i - 1 \in DOMAIN rs
    <3>1. \A i \in DOMAIN rs : rs[i] \in RowType
      OBVIOUS
    <3>2. \A i \in DOMAIN rs : i > 1 => i - 1 \in DOMAIN rs
      OBVIOUS
    <3> QED
      BY <3>1, <3>2 DEF RowType
  <2>4. \A i \in DOMAIN rs : ~(rs[i].at > rs[i].avail) /\ ~(i > 1 /\ rs[i - 1].at >= rs[i].at)
    BY <2>2
  <2>5. \A i \in DOMAIN rs : i > 1 => rs[i - 1].at \in Int
    BY <2>3
  <2> QED
    BY <2>3, <2>4, <2>5
<1> QED
  BY <1>2, <1>3

\* A batch that is validated was received before the instant, and not long before.
LEMMA ValidatedIsFresh ==
  ASSUME NEW batch, batch.received \in Int, NEW t \in Int, Validated(batch, t) = "ok"
  PROVE  batch.received \in t - ResponseMaxAge .. t
<1>1. ResponseMaxAge \in Nat
  BY GatewayAssumption
<1>2. ~(batch.received > t) /\ ~(t - batch.received > ResponseMaxAge)
  BY DEF Validated
<1> QED
  BY <1>1, <1>2

\* How a request gets its answer: there is none yet, it names a failure or a
\* state of the session, it is the document of a session that is not healthy, or
\* it is what the last step makes of the batches.
Failures == {"none", "error", "malformed", "stale", "healthy", "login-required"}

\* A step leaves the answer to come, or is one of these.
LEMMA AnswersCome ==
  ASSUME GatewayInv, [Next]_vars
  PROVE  \/ vars' = vars
         \/ answer'.how \in Failures
         \/ /\ answer' = UnhealthyV3(now) /\ batches' = <<>> /\ kind' # "watchlist"
         \/ /\ pc = "finish" /\ Finish /\ kind' = kind /\ list' = list /\ refused' = refused
            /\ rows' = rows /\ count' = count /\ pages' = pages /\ more' = more
            /\ batches' = batches /\ failed' = failed
<1> SUFFICES ASSUME vars' # vars, answer'.how \notin Failures
             PROVE  \/ /\ answer' = UnhealthyV3(now) /\ batches' = <<>> /\ kind' # "watchlist"
                    \/ /\ pc = "finish" /\ Finish /\ kind' = kind /\ list' = list
                       /\ refused' = refused /\ rows' = rows /\ count' = count
                       /\ pages' = pages /\ more' = more /\ batches' = batches
                       /\ failed' = failed
  OBVIOUS
<1>0. OneAnswer /\ health.state \in {"healthy", "login-required"}
  BY DEF GatewayInv, TypeOK
<1>1. NoAnswer.how = "none"
  BY DEF NoAnswer
<1>2. answer' # NoAnswer
  BY <1>1 DEF Failures
<1>3. ASSUME pc \notin {"idle", "observe", "finish"}, answer' = answer PROVE FALSE
  BY <1>0, <1>2, <1>3 DEF OneAnswer
<1>4. ASSUME Error PROVE FALSE
  BY <1>4 DEF Error, Reply, NoAnswer, Failures
<1>5. ASSUME NEW k, NEW n, NEW method, NEW net, NEW origin, NEW token,
             Request(k, n, method, net, origin, token)
      PROVE  FALSE
  BY <1>2, <1>4, <1>5 DEF Request
<1>6. ASSUME NEW state, CheckHealth(state) PROVE FALSE
  BY <1>3, <1>6 DEF CheckHealth, Go
<1>7. CASE Observe
  <2>1. pc = "observe" /\ batches = <<>> /\ batches' = batches /\ kind' = kind
        /\ answer = NoAnswer
    BY <1>0, <1>7 DEF Observe, Keeps, OneAnswer
  <2>2. HealthState(health, now) \in Failures
    BY <1>0 DEF HealthState, Failures
  <2>3. kind # "health"
    BY <1>7, <2>2 DEF Observe, Reply, NoAnswer
  <2>4. HealthState(health, now) # "healthy" /\ kind = "v3"
    BY <1>2, <1>4, <1>7, <2>1, <2>3 DEF Observe, Go
  <2>5. answer' = UnhealthyV3(now)
    BY <1>7, <2>3, <2>4 DEF Observe, Reply
  <2> QED
    BY <2>1, <2>4, <2>5
<1>8. ASSUME NEW l, Connect(l) PROVE FALSE
  BY <1>3, <1>8 DEF Connect, Go
<1>9. ASSUME NEW found, Call(found) PROVE FALSE
  BY <1>3, <1>9 DEF Call, Go
<1>10. ASSUME CallFails PROVE FALSE
  BY <1>4, <1>10 DEF CallFails
<1>11. ASSUME NEW accepted, NEW reply, Bisect(accepted, reply) PROVE FALSE
  BY <1>3, <1>11 DEF Bisect, Go
<1>12. ASSUME NEW close, NEW next, Page(close, next) PROVE FALSE
  BY <1>3, <1>4, <1>12 DEF Page, Go
<1>13. ASSUME NEW updated, Respond(updated) PROVE FALSE
  BY <1>3, <1>4, <1>13 DEF Respond, Go
<1>14. ASSUME Receive PROVE FALSE
  BY <1>3, <1>14 DEF Receive, Go
<1>15. ASSUME NEW s, FetchFails(s) PROVE FALSE
  BY <1>3, <1>4, <1>15 DEF FetchFails, Turn, Go
<1>16. ASSUME NEW s, NEW t, NEW items, Fetch(s, t, items) PROVE FALSE
  BY <1>3, <1>16 DEF Fetch, Turn, Go
<1>17. CASE Finish
  BY <1>17 DEF Finish, Keeps, adapter
<1>18. ASSUME Tick \/ SetBack PROVE FALSE
  <2>1. pc # "idle" /\ answer' = answer
    BY <1>18 DEF Tick, SetBack
  <2> QED
    BY <1>0, <1>2, <2>1 DEF OneAnswer
<1> QED
  BY <1>5, <1>6, <1>7, <1>8, <1>9, <1>10, <1>11, <1>12, <1>13, <1>14, <1>15, <1>16, <1>17,
     <1>18 DEF Next, Requested, Step

\* What an operation other than a snapshot serves.
LEMMA ServedRows ==
  ASSUME GatewayInv, pc = "finish", Finish, answer'.how = "ok"
  PROVE  LET s == SourceOf[kind] IN
         /\ kind \in Kinds \ (Snapshots \cup {"health"}) /\ s \in Sources \cup {"distribution"}
         /\ s \in DOMAIN batches /\ batches[s] \in [received : Int, rows : Seq(RowType)]
         /\ Validated(batches[s], now) = "ok" /\ Normal(s, batches[s].rows, now) = "ok"
         /\ answer'.rows = batches[s].rows /\ answer'.cutoff = now
<1>1. kind \notin Snapshots
  BY DEF Finish, Error, Reply, NoAnswer, Snapshots
<1>2. kind \in Kinds \ (Snapshots \cup {"health"})
  BY <1>1 DEF GatewayInv, TypeOK, LabelFits
<1>3. SourceOf[kind] \in Sources \cup {"distribution"}
  BY <1>2 DEF SourceOf, Kinds, Snapshots, Sources
<1>4. SourceOf[kind] \in DOMAIN batches
  BY <1>1 DEF GatewayInv, BatchIsMade
<1>5. Execute(SourceOf[kind])
  BY <1>1 DEF Finish, Snapshots
<1>6. /\ Validated(batches[SourceOf[kind]], now) = "ok"
      /\ Normal(SourceOf[kind], batches[SourceOf[kind]].rows, now) = "ok"
      /\ answer'.rows = batches[SourceOf[kind]].rows /\ answer'.cutoff = now
  BY <1>5 DEF Execute, Error, Reply, NoAnswer
<1> QED
  BY <1>2, <1>3, <1>4, <1>6 DEF GatewayInv, TypeOK

\* WatchlistIsWhole: a watchlist is served in its order, and only what OpenD
\* refused alone is left out.
THEOREM WatchlistsAreWhole == Spec => []WatchlistIsWhole
<1>1. Init => WatchlistIsWhole
  BY DEF Init, NoAnswer, WatchlistIsWhole
<1>2. GatewayInv /\ WatchlistIsWhole /\ [Next]_vars => WatchlistIsWhole'
  <2> SUFFICES ASSUME GatewayInv, WatchlistIsWhole, [Next]_vars PROVE WatchlistIsWhole'
    OBVIOUS
  <2>1. CASE vars' = vars
    BY <2>1 DEF vars, adapter, WatchlistIsWhole
  <2>2. CASE vars' # vars
    <3> SUFFICES ASSUME kind' = "watchlist", answer'.how = "ok" PROVE WatchlistIsWhole'
      BY DEF WatchlistIsWhole
    <3>1. /\ pc = "finish" /\ Finish /\ kind = "watchlist" /\ list' = list
          /\ refused' = refused /\ rows' = rows
      BY <2>2, AnswersCome DEF Failures
    <3>2. SourceOf[kind] = "quote"
      BY <3>1 DEF SourceOf, Kinds
    <3>3. answer'.rows = batches["quote"].rows /\ "quote" \in DOMAIN batches
      BY <3>1, <3>2, ServedRows
    <3>4. Symbolic(batches["quote"].rows) = Those(list, ToSet(list) \ refused)
      BY <3>1, <3>3 DEF GatewayInv, BatchIsMade
    <3>5. ToSet(rows) \cap refused = {}
      BY <3>1 DEF GatewayInv, BatchesApart
    <3> QED
      BY <3>1, <3>3, <3>4, <3>5 DEF WatchlistIsWhole, Symbolic
  <2> QED
    BY <2>1, <2>2
<1> QED
  BY <1>1, <1>2, RequestsKeepOrder, PTL DEF Spec

-----------------------------------------------------------------------------
(* What snapshots serve                                                    *)

\* What the documents of snapshots serve.
LEMMA ServedByV2 ==
  ASSUME NEW bs, NEW t, SnapshotV2(bs, t) # NoDocument, NEW s \in SnapshotV2(bs, t).served
  PROVE  /\ s \in Sources /\ Validated(bs[s], t) = "ok" /\ Normal(s, bs[s].rows, t) = "ok"
<1> DEFINE judged(x) == IF Validated(bs[x], t) # "ok" THEN Validated(bs[x], t)
                        ELSE Normal(x, bs[x].rows, t)
<1>1. /\ \A x \in Sources \ {"flow"} : judged(x) = "ok"
      /\ s \in Sources \ (IF FlowVerdict(bs["flow"], t) = "ok" THEN {} ELSE {"flow"})
  BY DEF SnapshotV2
<1>2. CASE s = "flow"
  <2>1. FlowVerdict(bs["flow"], t) = "ok"
    BY <1>1, <1>2
  <2> QED
    BY <1>2, <2>1 DEF FlowVerdict, Normal, Sources
<1>3. CASE s # "flow"
  <2>1. judged(s) = "ok" /\ s \in Sources
    BY <1>1, <1>3
  <2>2. Validated(bs[s], t) = "ok"
    BY <2>1
  <2> QED
    BY <2>1, <2>2
<1> QED
  BY <1>2, <1>3

\* A source that v3 serves did not fail, is fresh and passed its checks.
LEMMA ServedByV3 ==
  ASSUME NEW bs, NEW out, NEW t, NEW s \in SnapshotV3(bs, out, t).served
  PROVE  /\ s \in Sources \ out /\ Validated(bs[s], t) = "ok"
         /\ s # "holdings" => Normal(s, bs[s].rows, t) = "ok"
<1>1. s \in Sources /\ SectionsV3(bs, out, t)[s].quality # "invalid"
  BY DEF SnapshotV3
<1>2. s # "technical"
  BY <1>1 DEF Sources
<1>3. SectionsV3(bs, out, t)[s] = IF s \in out THEN Unavailable("provider")
                                  ELSE SectionV3(s, bs[s], t)
  BY <1>1, <1>2 DEF SectionsV3
<1>4. \A code : Unavailable(code).quality = "invalid"
  BY DEF Unavailable
<1>5. s \notin out /\ SectionV3(s, bs[s], t).quality # "invalid"
  BY <1>1, <1>3, <1>4
<1>6. Validated(bs[s], t) = "ok"
  BY <1>4, <1>5 DEF SectionV3
<1>7. s # "holdings" => Normal(s, bs[s].rows, t) = "ok"
  BY <1>4, <1>5, <1>6 DEF SectionV3
<1> QED
  BY <1>1, <1>5, <1>6, <1>7

\* The rows of a disclosure: kept or named, known, newest first.
LEMMA HoldingsKept ==
  ASSUME NEW rs \in Seq(RowType), NEW t \in Int, NEW r \in Int
  PROVE  LET held == HoldingsV3(rs, t, r)
         IN /\ ToSet(held.kept) \cup Named(held.anomalies) = DOMAIN rs
            /\ \A i \in ToSet(held.kept) : rs[i].avail <= t
            /\ \A i, j \in ToSet(held.kept) : i < j => rs[j].avail <= rs[i].avail
            /\ \A i \in ToSet(held.kept) \cap Named(held.anomalies) : rs[i].over
<1> DEFINE held == HoldingsV3(rs, t, r)
<1>1. Sifted(rs, t, held, Len(rs))
  BY DisclosureIsSifted
<1>2. DOMAIN rs = 1 .. Len(rs)
  OBVIOUS
<1> HIDE DEF held
<1>3. /\ ToSet(held.kept) \cup Named(held.anomalies) = DOMAIN rs
      /\ \A i \in ToSet(held.kept) : rs[i].avail <= t
      /\ \A i, j \in ToSet(held.kept) : i < j => rs[j].avail <= rs[i].avail
      /\ \A i \in ToSet(held.kept) \cap Named(held.anomalies) : rs[i].over
  BY <1>1, <1>2 DEF Sifted
<1> QED
  BY <1>3 DEF held

\* Every document's instant is a reading of the clock.
LEMMA SnapshotAnswers ==
  ASSUME GatewayInv, pc = "finish", Finish, answer'.how \in Snapshots
  PROVE  /\ kind = answer'.how /\ answer'.cutoff = now /\ now \in Int
         /\ DOMAIN batches \cup failed = Sources
         /\ kind = "v2" => /\ failed = {} /\ SnapshotV2(batches, now) # NoDocument
                           /\ answer'.document = SnapshotV2(batches, now)
         /\ kind = "v3" => answer'.document = SnapshotV3(batches, failed, now)
<1>1. kind \in Snapshots
  BY DEF Finish, Execute, Error, Reply, NoAnswer, Snapshots
<1>2. DOMAIN batches \cup failed = Sources /\ (kind = "v2" => failed = {}) /\ now \in Int
  BY <1>1 DEF GatewayInv, SourcesInTurn, Asked, TypeOK
<1>3. CASE kind = "v2"
  BY <1>2, <1>3 DEF Finish, Error, Reply, NoAnswer, Snapshots
<1>4. CASE kind = "v3"
  BY <1>2, <1>4 DEF Finish, Error, Reply, NoAnswer, Snapshots
<1> QED
  BY <1>1, <1>3, <1>4 DEF Snapshots

\* NothingFromTheFuture: nothing is served that was not there at the cutoff, or
\* whose receipt lies too far back.
THEOREM NothingIsServedEarly == Spec => []NothingFromTheFuture
<1>1. Init => NothingFromTheFuture
  BY DEF Init, NoAnswer, NothingFromTheFuture, Snapshots
<1>2. GatewayInv /\ NothingFromTheFuture /\ [Next]_vars => NothingFromTheFuture'
  <2> SUFFICES ASSUME GatewayInv, NothingFromTheFuture, [Next]_vars
               PROVE  NothingFromTheFuture'
    OBVIOUS
  <2>0. /\ now \in Int
        /\ \A s \in DOMAIN batches : /\ batches[s].received \in Int
                                     /\ batches[s].rows \in Seq(RowType)
    BY DEF GatewayInv, TypeOK
  <2>1. CASE vars' = vars
    BY <2>1 DEF vars, NothingFromTheFuture
  <2>2. CASE answer'.how \in Failures
    BY <2>2 DEF Failures, NothingFromTheFuture, Snapshots
  <2>3. CASE answer' = UnhealthyV3(now)
    <3>1. answer'.how = "v3" /\ answer'.document = SnapshotV3(<<>>, Sources, now)
      BY <2>3 DEF UnhealthyV3, NoAnswer
    <3>2. answer'.document.served = {}
      <4> SUFFICES ASSUME NEW s \in SnapshotV3(<<>>, Sources, now).served PROVE FALSE
        BY <3>1 DEF SnapshotV3
      <4> QED
        BY ServedByV3
    <3> QED
      BY <3>1, <3>2 DEF NothingFromTheFuture, Snapshots
  <2>4. CASE /\ pc = "finish" /\ Finish /\ kind' = kind /\ batches' = batches
    <3>1. CASE answer'.how = "ok"
      <4> DEFINE s == SourceOf[kind]
      <4>1. /\ s \in Sources \cup {"distribution"} /\ s \in DOMAIN batches
            /\ Validated(batches[s], now) = "ok" /\ Normal(s, batches[s].rows, now) = "ok"
            /\ answer'.cutoff = now
        BY <2>4, <3>1, ServedRows
      <4>2. batches[s].received \in now - ResponseMaxAge .. now
        BY <2>0, <4>1, ValidatedIsFresh
      <4>3. \A i \in DOMAIN batches[s].rows : batches[s].rows[i].avail <= now
        <5> HIDE DEF s
        <5> QED
          BY <2>0, <4>1, NormalIsKnown
      <4> QED
        BY <2>4, <3>1, <4>1, <4>2, <4>3 DEF NothingFromTheFuture, Snapshots
    <3>2. CASE answer'.how = "v2"
      <4>1. /\ answer'.cutoff = now /\ DOMAIN batches = Sources
            /\ SnapshotV2(batches, now) # NoDocument
            /\ answer'.document = SnapshotV2(batches, now)
        BY <2>4, <3>2, SnapshotAnswers DEF Snapshots
      <4>2. ASSUME NEW s \in answer'.document.served
            PROVE  /\ batches[s].received \in now - ResponseMaxAge .. now
                   /\ \A i \in DOMAIN batches[s].rows : batches[s].rows[i].avail <= now
        <5>1. /\ s \in Sources /\ Validated(batches[s], now) = "ok"
              /\ Normal(s, batches[s].rows, now) = "ok"
          BY <4>1, <4>2, ServedByV2
        <5>2. batches[s].received \in Int /\ batches[s].rows \in Seq(RowType)
          BY <2>0, <4>1, <5>1
        <5>3. batches[s].received \in now - ResponseMaxAge .. now
          BY <2>0, <5>1, <5>2, ValidatedIsFresh
        <5>4. \A i \in DOMAIN batches[s].rows : batches[s].rows[i].avail <= now
          BY <2>0, <5>1, <5>2, NormalIsKnown
        <5> QED
          BY <5>3, <5>4
      <4> QED
        BY <2>4, <3>2, <4>1, <4>2 DEF NothingFromTheFuture, Snapshots
    <3>3. CASE answer'.how = "v3"
      <4>1. /\ answer'.cutoff = now /\ Sources \ failed \subseteq DOMAIN batches
            /\ answer'.document = SnapshotV3(batches, failed, now)
        BY <2>4, <3>3, SnapshotAnswers DEF Snapshots
      <4>2. ASSUME NEW s \in answer'.document.served
            PROVE  /\ batches[s].received \in now - ResponseMaxAge .. now
                   /\ s # "holdings" =>
                        \A i \in DOMAIN batches[s].rows : batches[s].rows[i].avail <= now
                   /\ \A i \in ToSet(HoldingsV3(batches[s].rows, now, batches[s].received).kept) :
                        batches[s].rows[i].avail <= now
        <5>1. /\ s \in Sources \ failed /\ Validated(batches[s], now) = "ok"
              /\ s # "holdings" => Normal(s, batches[s].rows, now) = "ok"
          BY <4>1, <4>2, ServedByV3
        <5>2. batches[s].received \in Int /\ batches[s].rows \in Seq(RowType)
          BY <2>0, <4>1, <5>1
        <5>3. batches[s].received \in now - ResponseMaxAge .. now
          BY <2>0, <5>1, <5>2, ValidatedIsFresh
        <5>4. s # "holdings" =>
                \A i \in DOMAIN batches[s].rows : batches[s].rows[i].avail <= now
          BY <2>0, <5>1, <5>2, NormalIsKnown
        <5>5. \A i \in ToSet(HoldingsV3(batches[s].rows, now, batches[s].received).kept) :
                 batches[s].rows[i].avail <= now
          BY <2>0, <5>2, HoldingsKept
        <5> QED
          BY <5>3, <5>4, <5>5
      <4> QED
        BY <2>4, <3>3, <4>1, <4>2 DEF NothingFromTheFuture, Snapshots
    <3>4. CASE answer'.how \notin {"ok", "v2", "v3"}
      BY <3>4 DEF NothingFromTheFuture, Snapshots
    <3> QED
      BY <3>1, <3>2, <3>3, <3>4
  <2> QED
    BY <2>1, <2>2, <2>3, <2>4, AnswersCome
<1> QED
  BY <1>1, <1>2, RequestsKeepOrder, PTL DEF Spec

\* RowsAreAccountedFor: every disclosed row of a v3 snapshot is served or named,
\* and those served run from the newest to the oldest.
THEOREM DisclosuresAreAccountedFor == Spec => []RowsAreAccountedFor
<1>1. Init => RowsAreAccountedFor
  BY DEF Init, NoAnswer, RowsAreAccountedFor
<1>2. GatewayInv /\ RowsAreAccountedFor /\ [Next]_vars => RowsAreAccountedFor'
  <2> SUFFICES ASSUME GatewayInv, RowsAreAccountedFor, [Next]_vars
               PROVE  RowsAreAccountedFor'
    OBVIOUS
  <2>1. CASE vars' = vars
    BY <2>1 DEF vars, RowsAreAccountedFor
  <2>2. CASE answer'.how \in Failures \/ batches' = <<>>
    <3>1. "holdings" \notin DOMAIN (<<>>)
      OBVIOUS
    <3> QED
      BY <2>2, <3>1 DEF Failures, RowsAreAccountedFor
  <2>3. CASE pc = "finish" /\ Finish /\ batches' = batches
    <3> SUFFICES ASSUME answer'.how = "v3", "holdings" \in DOMAIN batches
                 PROVE  RowsAreAccountedFor'
      BY <2>3 DEF RowsAreAccountedFor
    <3>1. answer'.cutoff = now /\ now \in Int
      BY <2>3, SnapshotAnswers DEF Snapshots
    <3>2. batches["holdings"].received \in Int /\ batches["holdings"].rows \in Seq(RowType)
      BY DEF GatewayInv, TypeOK
    <3> DEFINE items == batches["holdings"].rows
               held == HoldingsV3(items, now, batches["holdings"].received)
    <3>3. /\ ToSet(held.kept) \cup Named(held.anomalies) = DOMAIN items
          /\ \A i, j \in ToSet(held.kept) : i < j => items[j].avail <= items[i].avail
          /\ \A i \in ToSet(held.kept) \cap Named(held.anomalies) : items[i].over
      BY <3>1, <3>2, HoldingsKept
    <3> QED
      BY <2>3, <3>1, <3>3 DEF RowsAreAccountedFor, Named
  <2> QED
    BY <2>1, <2>2, <2>3, AnswersCome
<1> QED
  BY <1>1, <1>2, RequestsKeepOrder, PTL DEF Spec

-----------------------------------------------------------------------------
(* Series                                                                  *)

\* What rises from each member to the next rises throughout.
LEMMA RisesThroughout ==
  ASSUME NEW n \in Nat, NEW f \in [1 .. n -> Int],
         \A i \in 1 .. n : i > 1 => f[i - 1] < f[i]
  PROVE  \A i, j \in 1 .. n : i < j => f[i] < f[j]
<1> SUFFICES ASSUME NEW i \in 1 .. n PROVE \A j \in 1 .. n : i < j => f[i] < f[j]
  OBVIOUS
<1> DEFINE Good == {j \in 0 .. n : i < j => f[i] < f[j]}
<1>1. 0 \in Good
  OBVIOUS
<1>2. ASSUME NEW j \in 1 .. n, j - 1 \in Good PROVE j \in Good
  <2> SUFFICES ASSUME i < j PROVE f[i] < f[j]
    OBVIOUS
  <2>1. j > 1 /\ j - 1 \in 1 .. n /\ f[j - 1] \in Int /\ f[j] \in Int /\ f[i] \in Int
    OBVIOUS
  <2>2. f[j - 1] < f[j]
    BY <2>1
  <2>3. i = j - 1 \/ f[i] < f[j - 1]
    BY <1>2, <2>1
  <2> QED
    BY <2>1, <2>2, <2>3
<1>3. Good = 0 .. n
  <2> HIDE DEF Good
  <2>1. Good \in SUBSET (0 .. n)
    BY DEF Good
  <2> QED
    BY <1>1, <1>2, <2>1, UpTo
<1>4. \A j \in 1 .. n : j \in Good
  <2> HIDE DEF Good
  <2> QED
    BY <1>3
<1> QED
  BY <1>4

\* A sequence that rises has as many values as members.
LEMMA RisingIsCounted ==
  ASSUME NEW n \in Nat, NEW f \in [1 .. n -> Int],
         \A i, j \in 1 .. n : i < j => f[i] < f[j]
  PROVE  Cardinality({f[i] : i \in 1 .. n}) = n
<1> DEFINE T == {f[i] : i \in 1 .. n}
<1>1. f \in [1 .. n -> T]
  OBVIOUS
<1>2. \A i, j \in 1 .. n : f[i] = f[j] => i = j
  <2> SUFFICES ASSUME NEW i \in 1 .. n, NEW j \in 1 .. n, f[i] = f[j] PROVE i = j
    OBVIOUS
  <2>1. f[i] \in Int /\ f[j] \in Int /\ i \in Int /\ j \in Int
    OBVIOUS
  <2>2. ~(i < j) /\ ~(j < i)
    BY <2>1
  <2> QED
    BY <2>1, <2>2
<1>3. \A t \in T : \E i \in 1 .. n : f[i] = t
  OBVIOUS
<1>4. f \in Injection(1 .. n, T) /\ f \in Surjection(1 .. n, T)
  <2> HIDE DEF T
  <2>1. DOMAIN f = 1 .. n
    OBVIOUS
  <2> QED
    BY <1>1, <1>2, <1>3, <2>1 DEF Injection, Surjection, IsInjective
<1>5. IsFiniteSet(1 .. n) /\ Cardinality(1 .. n) = n
  BY FS_Interval
<1> HIDE DEF T
<1>6. Cardinality(T) = Cardinality(1 .. n)
  BY <1>4, <1>5, FS_Surjection
<1> QED
  BY <1>5, <1>6 DEF T

\* What is not among the last ones is no later than any of them.
LEMMA LastOnesAreLast ==
  ASSUME NEW s \in Seq(Int), count \in Nat \ {0},
         \A i, j \in 1 .. Len(s) : i < j => s[i] <= s[j]
  PROVE  /\ LastOnes(s) \in Seq(Int) /\ ToSet(LastOnes(s)) \subseteq ToSet(s)
         /\ \A x \in ToSet(s) \ ToSet(LastOnes(s)) :
              Len(s) > count /\ \A y \in ToSet(LastOnes(s)) : x <= y
<1>1. CASE Len(s) <= count
  <2>1. LastOnes(s) = s
    BY <1>1 DEF LastOnes
  <2> QED
    BY <2>1
<1>2. CASE ~(Len(s) <= count)
  <2> DEFINE first == Len(s) - count + 1
             last == SubSeq(s, first, Len(s))
  <2>1. LastOnes(s) = last
    BY <1>2 DEF LastOnes
  <2>2. Len(s) \in Nat /\ count \in Nat /\ first \in 1 .. Len(s) /\ Len(s) > count
    BY <1>2
  <2> HIDE DEF first
  <2>3. last \in Seq(Int) /\ Len(last) = Len(s) - first + 1
    BY <2>2
  <2>4. \A i \in 1 .. Len(s) - first + 1 : last[i] = s[first + i - 1]
    BY <2>2
  <2> HIDE DEF last
  <2>5. DOMAIN last = 1 .. Len(s) - first + 1
    BY <2>3
  <2>6. ASSUME NEW y \in ToSet(last) PROVE \E k \in first .. Len(s) : y = s[k]
    <3>1. PICK i \in 1 .. Len(s) - first + 1 : y = last[i]
      BY <2>5 DEF ToSet
    <3>2. first + i - 1 \in first .. Len(s)
      BY <2>2
    <3> QED
      BY <2>4, <3>1, <3>2
  <2>7. ASSUME NEW k \in first .. Len(s) PROVE s[k] \in ToSet(last)
    <3>1. k - first + 1 \in 1 .. Len(s) - first + 1 /\ first + (k - first + 1) - 1 = k
      BY <2>2
    <3>2. last[k - first + 1] = s[k]
      BY <2>4, <3>1
    <3> QED
      BY <2>5, <3>1, <3>2 DEF ToSet
  <2>8. ToSet(last) \subseteq ToSet(s)
    <3>1. \A k \in first .. Len(s) : k \in DOMAIN s
      BY <2>2
    <3> QED
      BY <2>6, <3>1 DEF ToSet
  <2>9. ASSUME NEW x \in ToSet(s), x \notin ToSet(last), NEW y \in ToSet(last)
        PROVE  x <= y
    <3>1. PICK i \in 1 .. Len(s) : x = s[i]
      BY DEF ToSet
    <3>2. PICK k \in first .. Len(s) : y = s[k]
      BY <2>6
    <3>3. i \notin first .. Len(s)
      BY <2>7, <2>9, <3>1
    <3>4. i < k /\ k \in 1 .. Len(s)
      BY <2>2, <3>3
    <3> QED
      BY <3>1, <3>2, <3>4
  <2> QED
    BY <2>1, <2>2, <2>3, <2>8, <2>9
<1> QED
  BY <1>1, <1>2

\* The bars that are made of the rows.
LEMMA BarsAreLast ==
  ASSUME TypeOK, NEW CONSTANT t \in Int
  PROVE  LET closes == {Bars(t)[i].at : i \in DOMAIN Bars(t)}
         IN /\ \A i \in DOMAIN Bars(t) : Bars(t)[i].avail = t /\ Bars(t)[i].at <= t
            /\ closes \subseteq ToSet(rows)
            /\ \A close \in ToSet(rows) \ closes :
                 \/ Len(rows) > count /\ \A x \in closes : close < x
                 \/ t < close
<1> DEFINE s == Ascending(rows)
           keep == {close \in ToSet(rows) : close <= t}
           closed == Those(LastOnes(s), keep)
<1>1. rows \in Seq(Int) /\ count \in Nat \ {0} /\ ToSet(rows) \subseteq Int
  BY DEF TypeOK, ToSet
<1>2. /\ s \in Seq(Int) /\ Len(s) = Len(rows) /\ ToSet(s) = ToSet(rows)
      /\ \A i, j \in 1 .. Len(s) : i < j => s[i] <= s[j]
  BY <1>1, AscendingSorts
<1> HIDE DEF s
<1>3. /\ LastOnes(s) \in Seq(Int) /\ ToSet(LastOnes(s)) \subseteq ToSet(s)
      /\ \A x \in ToSet(s) \ ToSet(LastOnes(s)) :
           Len(s) > count /\ \A y \in ToSet(LastOnes(s)) : x <= y
  BY <1>1, <1>2, LastOnesAreLast
<1>4. closed \in Seq(Int) /\ ToSet(closed) = ToSet(LastOnes(s)) \cap keep
  BY <1>3, ThoseAreThere
<1>5. Bars(t) = [i \in DOMAIN closed |-> Row("own", closed[i], t, TRUE)]
  BY DEF Bars, s
<1> HIDE DEF closed
<1>6. DOMAIN Bars(t) = DOMAIN closed
      /\ \A i \in DOMAIN closed : Bars(t)[i].at = closed[i] /\ Bars(t)[i].avail = t
  BY <1>5 DEF Row
<1>7. {Bars(t)[i].at : i \in DOMAIN Bars(t)} = ToSet(closed)
  BY <1>6 DEF ToSet
<1>8. \A i \in DOMAIN closed : closed[i] <= t
  <2>1. \A i \in DOMAIN closed : closed[i] \in keep
    BY <1>4 DEF ToSet
  <2> QED
    BY <2>1
<1>9. ToSet(closed) \subseteq ToSet(rows)
  BY <1>4
<1>10. ASSUME NEW close \in ToSet(rows), close \notin ToSet(closed), ~(t < close)
       PROVE  Len(rows) > count /\ \A x \in ToSet(closed) : close < x
  <2>1. close \in Int /\ close \in keep
    BY <1>1, <1>10
  <2>2. close \in ToSet(s) \ ToSet(LastOnes(s))
    BY <1>2, <1>4, <1>10, <2>1
  <2>3. Len(rows) > count /\ \A y \in ToSet(LastOnes(s)) : close <= y
    BY <1>2, <1>3, <2>2
  <2>4. \A x \in ToSet(closed) : close <= x /\ close # x /\ x \in Int
    BY <1>1, <1>4, <1>9, <1>10, <2>3
  <2> QED
    BY <2>1, <2>3, <2>4
<1> QED
  BY <1>6, <1>7, <1>8, <1>9, <1>10

\* The intervals of a capital flow.
LEMMA FlowsAreAll ==
  ASSUME TypeOK, NEW CONSTANT t \in Int
  PROVE  {Flows(t)[i].at : i \in DOMAIN Flows(t)} = ToSet(rows)
<1> DEFINE starts == Ascending(rows)
<1>1. starts \in Seq(Int) /\ ToSet(starts) = ToSet(rows)
  BY AscendingSorts DEF TypeOK
<1>2. Flows(t) = [i \in DOMAIN starts |-> Row("own", starts[i], t, TRUE)]
  BY DEF Flows
<1> HIDE DEF starts
<1>3. DOMAIN Flows(t) = DOMAIN starts /\ \A i \in DOMAIN starts : Flows(t)[i].at = starts[i]
  BY <1>2 DEF Row
<1> QED
  BY <1>1, <1>3 DEF ToSet

\* Rows that pass as candles or as a flow rise strictly.
LEMMA SeriesRises ==
  ASSUME NEW rs \in Seq(RowType), NEW t \in Int, NEW s \in {"candles", "flow"},
         Normal(s, rs, t) = "ok"
  PROVE  /\ \A i, j \in DOMAIN rs : i < j => rs[i].at < rs[j].at
         /\ Cardinality({rs[i].at : i \in DOMAIN rs}) = Len(rs)
<1> DEFINE f == [i \in 1 .. Len(rs) |-> rs[i].at]
<1>1. DOMAIN rs = 1 .. Len(rs) /\ Len(rs) \in Nat /\ \A i \in DOMAIN rs : rs[i] \in RowType
  OBVIOUS
<1>2. f \in [1 .. Len(rs) -> Int]
  BY <1>1 DEF RowType
<1>3. \A i \in 1 .. Len(rs) : i > 1 => rs[i - 1].at < rs[i].at
  BY <1>1, NormalRunsForward
<1>4. \A i \in 1 .. Len(rs) : f[i] = rs[i].at
  OBVIOUS
<1>5. \A i \in 1 .. Len(rs) : i > 1 => f[i - 1] = rs[i - 1].at
  <2>1. \A i \in 1 .. Len(rs) : i > 1 => i - 1 \in 1 .. Len(rs)
    OBVIOUS
  <2> QED
    BY <2>1
<1> HIDE DEF f
<1>6. \A i \in 1 .. Len(rs) : i > 1 => f[i - 1] < f[i]
  BY <1>3, <1>4, <1>5
<1>7. \A i, j \in 1 .. Len(rs) : i < j => f[i] < f[j]
  BY <1>1, <1>2, <1>6, RisesThroughout
<1>8. Cardinality({f[i] : i \in 1 .. Len(rs)}) = Len(rs)
  BY <1>1, <1>2, <1>7, RisingIsCounted
<1>9. {rs[i].at : i \in DOMAIN rs} = {f[i] : i \in 1 .. Len(rs)}
  BY <1>1, <1>4
<1> QED
  BY <1>1, <1>4, <1>7, <1>8, <1>9

\* SeriesIsWhole: the pager is bounded, a paged answer is never truncated, the
\* candles served are the newest and the flow is complete.
THEOREM SeriesAreWhole == Spec => []SeriesIsWhole
<1>1. Init => SeriesIsWhole
  <2>1. MaxPages \in Nat /\ Len(<<>>) = 0
    BY GatewayAssumption
  <2> QED
    BY <2>1 DEF Init, NoAnswer, SeriesIsWhole
<1>2. GatewayInv /\ GatewayInv' /\ SeriesIsWhole /\ [Next]_vars => SeriesIsWhole'
  <2> SUFFICES ASSUME GatewayInv, GatewayInv', SeriesIsWhole, [Next]_vars
               PROVE  SeriesIsWhole'
    OBVIOUS
  <2>0. (Len(pages) <= MaxPages)'
    BY DEF GatewayInv, PagesInOrder
  <2>1. CASE vars' = vars
    BY <2>1 DEF vars, adapter, Served, SeriesIsWhole
  <2>2. CASE answer'.how # "ok"
    BY <2>0, <2>2 DEF SeriesIsWhole
  <2>3. CASE /\ pc = "finish" /\ Finish /\ kind' = kind /\ rows' = rows /\ count' = count
             /\ pages' = pages /\ more' = more /\ answer'.how = "ok"
    <3> DEFINE src == SourceOf[kind]
               rs == batches[src].rows
    <3>1. /\ kind \in Kinds \ (Snapshots \cup {"health"}) /\ rs \in Seq(RowType)
          /\ Normal(src, rs, now) = "ok" /\ answer'.rows = rs
      BY <2>3, ServedRows
    <3>2. now \in Int /\ TypeOK
      BY DEF GatewayInv, TypeOK
    <3>3. kind \in {"candles", "holdings"} => more = None
      BY <2>3 DEF GatewayInv, PagesInOrder
    <3>4. CASE kind = "candles"
      <4>1. src = "candles"
        BY <3>4 DEF SourceOf, Kinds
      <4>2. PICK t \in Int : rs = Bars(t)
        BY <2>3, <3>4, <4>1 DEF GatewayInv, BatchIsMade
      <4> DEFINE closes == {rs[i].at : i \in DOMAIN rs}
      <4>3. /\ \A i \in DOMAIN rs : rs[i].avail = t /\ rs[i].at <= t
            /\ \A close \in ToSet(rows) \ closes :
                 \/ Len(rows) > count /\ \A x \in closes : close < x
                 \/ t < close
        BY <3>2, <4>2, BarsAreLast
      <4>4. Cardinality(closes) = Len(rs)
        <5> HIDE DEF rs, src
        <5> QED
          BY <3>1, <3>2, <4>1, SeriesRises
      <4>5. IsInjective(pages)
        BY <3>4 DEF GatewayInv, PagesInOrder
      <4> HIDE DEF rs, src
      <4>6. ToSet(rs) = {rs[i] : i \in DOMAIN rs} /\ closes = {bar.at : bar \in ToSet(rs)}
        BY DEF ToSet
      <4>7. \A bar \in ToSet(rs) : bar.avail = t /\ bar.at <= t /\ bar.at \in closes
        BY <4>3 DEF ToSet
      <4> HIDE DEF closes
      <4>8. \A bar \in ToSet(rs) : bar.at <= bar.avail
        BY <4>7
      <4>9. \A close \in {x \in ToSet(rows) : x \notin closes} :
               \/ Len(rows) > count /\ \A bar \in ToSet(rs) : close < bar.at
               \/ \A bar \in ToSet(rs) : bar.avail < close
        BY <4>3, <4>7
      <4>10. Served' = ToSet(rs)
        BY <3>1 DEF Served
      <4> QED
        BY <2>0, <2>3, <3>1, <3>3, <3>4, <4>4, <4>5, <4>6, <4>8, <4>9, <4>10 DEF SeriesIsWhole
    <3>5. CASE kind = "flow"
      <4>1. src = "flow"
        BY <3>5 DEF SourceOf, Kinds
      <4>2. PICK t \in Int : rs = Flows(t)
        BY <2>3, <3>5, <4>1 DEF GatewayInv, BatchIsMade
      <4>3. {rs[i].at : i \in DOMAIN rs} = ToSet(rows)
        BY <3>2, <4>2, FlowsAreAll
      <4>4. \A i, j \in DOMAIN rs : i < j => rs[i].at < rs[j].at
        <5> HIDE DEF rs, src
        <5> QED
          BY <3>1, <3>2, <4>1, SeriesRises
      <4> HIDE DEF rs, src
      <4>5. {interval.at : interval \in ToSet(rs)} = ToSet(rows)
        BY <4>3 DEF ToSet
      <4>6. Served' = ToSet(rs)
        BY <3>1 DEF Served
      <4> QED
        BY <2>0, <2>3, <3>1, <3>5, <4>4, <4>5, <4>6 DEF SeriesIsWhole
    <3>6. CASE kind \notin {"candles", "flow"}
      BY <2>0, <2>3, <3>3, <3>6 DEF SeriesIsWhole
    <3> QED
      BY <3>4, <3>5, <3>6
  <2>4. UnhealthyV3(now).how = "v3"
    BY DEF UnhealthyV3, NoAnswer
  <2> QED
    BY <2>1, <2>2, <2>3, <2>4, AnswersCome DEF Failures
<1>3. Spec => []GatewayInv
  BY RequestsKeepOrder
<1> QED
  BY <1>1, <1>2, <1>3, PTL DEF Spec
===============================================================================
