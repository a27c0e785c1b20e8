-------------------------- MODULE DecisionPathProofs --------------------------
(***************************************************************************)
(* What DecisionPath promises of a decision holds for every set of events, *)
(* every bound on what is read, every horizon and every budget.  The       *)
(* averages and the score are sums over sets, so the first part is about   *)
(* those; the inductive invariant (PathInv) needs no more of them than     *)
(* that a reading stays between -Full and Full and a score between 0 and   *)
(* 100.                                                                    *)
(***************************************************************************)
EXTENDS DecisionPath, FiniteSetTheorems, WellFoundedInduction, TLAPS

-----------------------------------------------------------------------------
(* Sums                                                                      *)

\* A set of naturals has a least member.
LEMMA LeastMember ==
  ASSUME NEW S \in SUBSET Nat, S # {}
  PROVE  \E m \in S : \A n \in S : m <= n
<1>1. IsWellFoundedOn(OpToRel(<, Nat), Nat)
  BY NatLessThanWellFounded
<1>2. PICK m \in S : \A n \in S : ~(<<n, m>> \in OpToRel(<, Nat))
  BY <1>1, WFMin
<1>3. \A n \in S : ~(n < m)
  BY <1>2 DEF OpToRel
<1> QED
  BY <1>3

\* The member a sum takes next.
First(s) == CHOOSE x \in s : TRUE

\* What a sum over S is made of: the sum over each part of it.
Parts(f, S, g) ==
  [s \in SUBSET S |->
     IF s = {} THEN 0
     ELSE f[First(s)] + g[s \ {First(s)}]]

AddsUp(f, S, g) ==
  /\ g \in [SUBSET S -> Int] /\ g[{}] = 0
  /\ \A s \in SUBSET S : s # {} => g[s] = f[First(s)] + g[s \ {First(s)}]

\* The sum of a function over S is the last of its parts.
LEMMA SumIsPart ==
  ASSUME NEW f, NEW S
  PROVE  SumFunctionOnSet(f, S) = (CHOOSE g : g = Parts(f, S, g))[S]
BY DEF SumFunctionOnSet, FoldFunctionOnSet, MapThenFoldSet, Parts, First

\* A property of 0 that each number passes on to the next up to n.
LEMMA UpTo ==
  ASSUME NEW n \in Nat, NEW Good \in SUBSET (0 .. n), 0 \in Good,
         \A i \in 1 .. n : i - 1 \in Good => i \in Good
  PROVE  Good = 0 .. n
<1> SUFFICES ASSUME Good # 0 .. n PROVE FALSE
  OBVIOUS
<1> DEFINE Bad == (0 .. n) \ Good
<1>1. Bad \in SUBSET Nat /\ Bad # {}
  <2>1. Bad \in SUBSET Nat
    OBVIOUS
  <2>2. Bad = {} => Good = 0 .. n
    BY Zenon
  <2> QED
    BY <2>1, <2>2
<1>2. PICK m \in Bad : \A k \in Bad : m <= k
  BY <1>1, LeastMember
<1>3. m \in 1 .. n /\ m - 1 \in 0 .. n
  BY <1>2
<1>4. m - 1 \in Good
  BY <1>2, <1>3
<1> QED
  BY <1>2, <1>3, <1>4

\* Taking a member out of a part leaves a smaller part.
LEMMA SmallerPart ==
  ASSUME NEW S, IsFiniteSet(S), NEW s \in SUBSET S, s # {}
  PROVE  /\ First(s) \in s /\ First(s) \in S /\ s \ {First(s)} \in SUBSET S
         /\ Cardinality(s) \in Nat /\ Cardinality(s \ {First(s)}) \in Nat
         /\ Cardinality(s \ {First(s)}) = Cardinality(s) - 1
<1> DEFINE x == First(s)
<1>1. x \in s
  BY DEF First
<1>2. IsFiniteSet(s)
  BY FS_Subset
<1>3. Cardinality(s) \in Nat
  BY <1>2, FS_CardinalityType
<1>4. IsFiniteSet(s \ {x}) /\ Cardinality(s \ {x}) = Cardinality(s) - 1
  BY <1>1, <1>2, FS_RemoveElement
<1>5. Cardinality(s \ {x}) \in Nat
  BY <1>4, FS_CardinalityType
<1> QED
  BY <1>1, <1>3, <1>4, <1>5

\* Induction over the parts of a finite set.
LEMMA PartsInduct ==
  ASSUME NEW S, IsFiniteSet(S), NEW P \in SUBSET SUBSET S, {} \in P,
         \A s \in SUBSET S : s # {} /\ s \ {First(s)} \in P => s \in P
  PROVE  P = SUBSET S
<1> SUFFICES ASSUME P # SUBSET S PROVE FALSE
  OBVIOUS
<1> DEFINE Bad == (SUBSET S) \ P
           Sizes == {Cardinality(s) : s \in Bad}
<1>1. Bad # {}
  OBVIOUS
<1>2. \A s \in Bad : /\ s \in SUBSET S /\ s # {}
                     /\ s \ {First(s)} \in SUBSET S
                     /\ Cardinality(s) \in Nat
                     /\ Cardinality(s \ {First(s)}) = Cardinality(s) - 1
  <2> TAKE s \in Bad
  <2>1. s \in SUBSET S /\ s # {}
    OBVIOUS
  <2> HIDE DEF Bad
  <2> QED
    BY <2>1, SmallerPart
<1>3. PICK m \in Sizes : \A n \in Sizes : m <= n
  <2>1. Sizes \in SUBSET Nat /\ Sizes # {}
    <3> HIDE DEF Bad
    <3>1. \A n \in Sizes : n \in Nat
      <4> TAKE n \in Sizes
      <4>1. PICK s \in Bad : n = Cardinality(s)
        OBVIOUS
      <4> QED
        BY <1>2, <4>1
    <3>2. Sizes # {}
      BY <1>1
    <3> HIDE DEF Sizes
    <3> QED
      BY <3>1, <3>2
  <2> HIDE DEF Sizes, Bad
  <2> QED
    BY <2>1, LeastMember
<1>4. PICK s \in Bad : Cardinality(s) = m
  BY <1>3
<1>5. s \ {First(s)} \in P
  <2> SUFFICES ASSUME s \ {First(s)} \in Bad PROVE FALSE
    BY <1>2, <1>4
  <2>1. Cardinality(s \ {First(s)}) \in Sizes
    OBVIOUS
  <2> HIDE DEF Sizes, Bad
  <2> QED
    BY <1>2, <1>3, <1>4, <2>1
<1> QED
  BY <1>2, <1>4, <1>5

\* The sums over the parts are a function there is.
LEMMA PartsExist ==
  ASSUME NEW S, IsFiniteSet(S), NEW f, \A x \in S : f[x] \in Int
  PROVE  \E g : g = Parts(f, S, g)
<1> DEFINE N == Cardinality(S)
           Small(n) == {s \in SUBSET S : Cardinality(s) <= n}
           Fits(n, g) ==
             /\ g \in [Small(n) -> Int]
             /\ \A s \in Small(n) :
                  g[s] = IF s = {} THEN 0 ELSE f[First(s)] + g[s \ {First(s)}]
           Good == {n \in 0 .. N : \E g : Fits(n, g)}
<1>0. N \in Nat
  BY FS_CardinalityType
<1>f. \A s \in SUBSET S : s # {} =>
        /\ First(s) \in S /\ f[First(s)] \in Int /\ s \ {First(s)} \in SUBSET S
        /\ Cardinality(s) \in Nat /\ Cardinality(s \ {First(s)}) \in Nat
        /\ Cardinality(s \ {First(s)}) = Cardinality(s) - 1
  BY SmallerPart
<1>c. \A s \in SUBSET S : Cardinality(s) \in Nat /\ (Cardinality(s) = 0 <=> s = {})
  <2> TAKE s \in SUBSET S
  <2>1. IsFiniteSet(s)
    BY FS_Subset
  <2> QED
    BY <2>1, FS_CardinalityType, FS_EmptySet
<1>1. 0 \in Good
  <2>1. Small(0) = {{}}
    BY <1>c
  <2>2. Fits(0, [s \in Small(0) |-> 0])
    BY <2>1
  <2> HIDE DEF Fits, Small
  <2> QED
    BY <2>2, <1>0
<1>2. ASSUME NEW n \in 1 .. N, n - 1 \in Good PROVE n \in Good
  <2>1. PICK g : Fits(n - 1, g)
    BY <1>2
  <2> DEFINE h == [s \in Small(n) |-> IF s = {} THEN 0 ELSE f[First(s)] + g[s \ {First(s)}]]
  <2>2. \A s \in Small(n) : s # {} => s \ {First(s)} \in Small(n - 1)
    BY <1>f
  <2>3. \A s \in Small(n - 1) : s \in Small(n) /\ h[s] = g[s]
    BY <2>1, <1>c
  <2>4. h \in [Small(n) -> Int]
    <3> SUFFICES ASSUME NEW s \in Small(n), s # {} PROVE f[First(s)] + g[s \ {First(s)}] \in Int
      OBVIOUS
    <3>1. f[First(s)] \in Int
      BY <1>f
    <3>2. g[s \ {First(s)}] \in Int
      BY <2>1, <2>2
    <3> QED
      BY <3>1, <3>2
  <2>5. ASSUME NEW s \in Small(n)
        PROVE  h[s] = IF s = {} THEN 0 ELSE f[First(s)] + h[s \ {First(s)}]
    BY <2>2, <2>3
  <2> HIDE DEF h
  <2>6. Fits(n, h)
    BY <2>4, <2>5
  <2> HIDE DEF Fits
  <2>7. n \in 0 .. N
    BY <1>0
  <2> QED
    BY <2>6, <2>7
<1>3. Good = 0 .. N
  <2> HIDE DEF Good, N
  <2>1. Good \in SUBSET (0 .. N)
    BY DEF Good
  <2> QED
    BY <1>0, <1>1, <1>2, <2>1, UpTo
<1>4. PICK g : Fits(N, g)
  <2> HIDE DEF Fits, N
  <2> QED
    BY <1>0, <1>3
<1>5. Small(N) = SUBSET S
  <2>1. \A s \in SUBSET S : Cardinality(s) <= N
    BY FS_Subset
  <2> QED
    BY <2>1
<1>6. g \in [SUBSET S -> Int]
  BY <1>4, <1>5
<1>7. g = Parts(f, S, g)
  BY <1>4, <1>5, <1>6 DEF Parts
<1> QED
  BY <1>7

\* A sum, member by member.
LEMMA SumByParts ==
  ASSUME NEW S, IsFiniteSet(S), NEW f, \A x \in S : f[x] \in Int
  PROVE  \E g : AddsUp(f, S, g) /\ SumFunctionOnSet(f, S) = g[S]
<1> DEFINE g == CHOOSE h : h = Parts(f, S, h)
<1>1. PICK h : h = Parts(f, S, h)
  BY PartsExist
<1>2. g = Parts(f, S, g)
  BY <1>1
<1>3. SumFunctionOnSet(f, S) = g[S]
  BY SumIsPart
<1> HIDE DEF g
<1>4. /\ DOMAIN g = SUBSET S /\ g[{}] = 0
      /\ \A s \in SUBSET S : s # {} => g[s] = f[First(s)] + g[s \ {First(s)}]
  BY <1>2 DEF Parts
<1>5. {s \in SUBSET S : g[s] \in Int} = SUBSET S
  <2> DEFINE P == {s \in SUBSET S : g[s] \in Int}
  <2>1. P \in SUBSET SUBSET S /\ {} \in P
    BY <1>4
  <2>2. ASSUME NEW s \in SUBSET S, s # {}, s \ {First(s)} \in P
        PROVE  s \in P
    <3>2. f[First(s)] \in Int
      BY <2>2, SmallerPart
    <3> QED
      BY <1>4, <2>2, <3>2
  <2> HIDE DEF P
  <2>3. P = SUBSET S
    BY <2>1, <2>2, PartsInduct
  <2> QED
    BY <2>3 DEF P
<1>6. g \in [SUBSET S -> Int]
  <2>1. \A s \in SUBSET S : g[s] \in Int
    BY <1>5
  <2>2. g = [s \in SUBSET S |-> g[s]]
    <3>1. Parts(f, S, g) = [s \in SUBSET S |-> Parts(f, S, g)[s]]
      BY DEF Parts
    <3> QED
      BY <1>2, <3>1
  <2> QED
    BY <2>1, <2>2
<1> QED
  BY <1>3, <1>4, <1>6 DEF AddsUp

\* A sum of integers is one, and is 0 when there are none.
LEMMA SumType ==
  ASSUME NEW S, IsFiniteSet(S), NEW f, \A x \in S : f[x] \in Int
  PROVE  SumFunctionOnSet(f, S) \in Int
<1>1. PICK g : AddsUp(f, S, g) /\ SumFunctionOnSet(f, S) = g[S]
  BY SumByParts
<1>2. S \in SUBSET S
  OBVIOUS
<1> QED
  BY <1>1, <1>2 DEF AddsUp

\* What is at most so many times its weight everywhere is so in sum.
LEMMA SumWithin ==
  ASSUME NEW S, IsFiniteSet(S), NEW f, NEW w,
         \A x \in S : f[x] \in Int /\ w[x] \in Int /\ -Full * w[x] <= f[x] /\ f[x] <= Full * w[x]
  PROVE  /\ -Full * SumFunctionOnSet(w, S) <= SumFunctionOnSet(f, S)
         /\ SumFunctionOnSet(f, S) <= Full * SumFunctionOnSet(w, S)
<1>1. PICK g : AddsUp(f, S, g) /\ SumFunctionOnSet(f, S) = g[S]
  BY SumByParts
<1>2. PICK v : AddsUp(w, S, v) /\ SumFunctionOnSet(w, S) = v[S]
  BY SumByParts
<1> DEFINE P == {s \in SUBSET S : -Full * v[s] <= g[s] /\ g[s] <= Full * v[s]}
<1>3. P \in SUBSET SUBSET S /\ {} \in P
  BY <1>1, <1>2 DEF Full, AddsUp
<1>4. ASSUME NEW s \in SUBSET S, s # {}, s \ {First(s)} \in P
      PROVE  s \in P
  <2> DEFINE x == First(s)
             rest == s \ {x}
  <2>1. x \in S /\ rest \in SUBSET S
    BY <1>4, SmallerPart
  <2>2. g[s] = f[x] + g[rest] /\ v[s] = w[x] + v[rest]
    BY <1>1, <1>2, <1>4 DEF AddsUp
  <2>3. rest \in P
    BY <1>4
  <2> HIDE DEF x, rest
  <2>4. /\ f[x] \in Int /\ w[x] \in Int /\ g[rest] \in Int /\ v[rest] \in Int
        /\ -Full * w[x] <= f[x] /\ f[x] <= Full * w[x]
        /\ -Full * v[rest] <= g[rest] /\ g[rest] <= Full * v[rest]
    BY <1>1, <1>2, <2>1, <2>3 DEF AddsUp
  <2> QED
    BY <2>2, <2>4 DEF Full
<1> HIDE DEF P
<1>5. P = SUBSET S
  BY <1>3, <1>4, PartsInduct
<1>6. S \in P
  BY <1>5
<1> QED
  BY <1>1, <1>2, <1>6 DEF P

\* One for each member is how many there are.
LEMMA SumOfOnes ==
  ASSUME NEW S, IsFiniteSet(S)
  PROVE  SumFunctionOnSet([x \in S |-> 1], S) = Cardinality(S)
<1> DEFINE w == [x \in S |-> 1]
<1>1. \A x \in S : w[x] \in Int /\ w[x] = 1
  OBVIOUS
<1> HIDE DEF w
<1>2. PICK v : AddsUp(w, S, v) /\ SumFunctionOnSet(w, S) = v[S]
  BY <1>1, SumByParts
<1> DEFINE P == {s \in SUBSET S : v[s] = Cardinality(s)}
<1>3. P \in SUBSET SUBSET S /\ {} \in P
  BY <1>2, FS_EmptySet DEF AddsUp
<1>4. ASSUME NEW s \in SUBSET S, s # {}, s \ {First(s)} \in P
      PROVE  s \in P
  <2> DEFINE x == First(s)
             rest == s \ {x}
  <2>1. /\ x \in S /\ rest \in SUBSET S
        /\ Cardinality(s) \in Nat /\ Cardinality(rest) = Cardinality(s) - 1
    BY <1>4, SmallerPart
  <2>2. v[s] = w[x] + v[rest]
    BY <1>2, <1>4 DEF AddsUp
  <2>3. v[rest] = Cardinality(rest)
    BY <1>4
  <2> HIDE DEF x, rest
  <2> QED
    BY <1>1, <2>1, <2>2, <2>3
<1> HIDE DEF P
<1>5. P = SUBSET S
  BY <1>3, <1>4, PartsInduct
<1>6. S \in P
  BY <1>5
<1> QED
  BY <1>2, <1>6 DEF P, w

\* A quotient whose dividend is between so many times the divisor.
LEMMA DivWithin ==
  ASSUME NEW a \in Nat, NEW b \in Nat \ {0}, NEW k \in Nat, a <= k * b
  PROVE  a \div b \in 0 .. k
<1> DEFINE q == a \div b
<1>1. q \in Nat /\ b * q <= a
  OBVIOUS
<1> HIDE DEF q
<1>2. ASSUME q >= k + 1 PROVE FALSE
  <2>1. b * q >= b * (k + 1)
    BY <1>1, <1>2
  <2>2. b * (k + 1) = k * b + b
    OBVIOUS
  <2> QED
    BY <1>1, <2>1, <2>2
<1> QED
  BY <1>1, <1>2 DEF q

\* What truncation keeps within bounds.
LEMMA TruncatedWithin ==
  ASSUME NEW a \in Int, NEW b \in Nat \ {0}, NEW k \in Nat, -(k * b) <= a, a <= k * b
  PROVE  Truncated(a, b) \in -k .. k
<1>1. CASE a < 0
  <2>1. -a \in Nat /\ -a <= k * b
    BY <1>1
  <2>2. (-a) \div b \in 0 .. k
    BY <2>1, DivWithin
  <2> QED
    BY <1>1, <2>2 DEF Truncated
<1>2. CASE ~(a < 0)
  BY <1>2, DivWithin DEF Truncated
<1> QED
  BY <1>1, <1>2

\* A quotient of what is at least so many times the divisor.
LEMMA TruncatedAtLeast ==
  ASSUME NEW a \in Int, NEW b \in Nat \ {0}, NEW k \in Nat, a >= k * b
  PROVE  Truncated(a, b) >= k
<1>1. k * b >= 0 /\ a >= 0
  OBVIOUS
<1> DEFINE q == a \div b
<1>2. q \in Nat /\ a < b * (q + 1)
  BY <1>1
<1> HIDE DEF q
<1>3. ASSUME q + 1 <= k PROVE FALSE
  <2>1. b * (q + 1) <= b * k
    BY <1>2, <1>3
  <2> QED
    BY <1>2, <2>1
<1> QED
  BY <1>1, <1>2, <1>3 DEF Truncated, q

-----------------------------------------------------------------------------
(* Readings                                                                  *)

\* An average of readings is one.
LEMMA AverageOfReadings ==
  ASSUME NEW f, IsFiniteSet(DOMAIN f), DOMAIN f # {},
         \A x \in DOMAIN f : f[x] \in Readings
  PROVE  Average(f) \in Readings
<1> DEFINE S == DOMAIN f
           w == [x \in S |-> 1]
           n == Cardinality(S)
<1>1. n \in Nat \ {0}
  BY FS_CardinalityType, FS_EmptySet
<1>2. \A x \in S : /\ f[x] \in Int /\ w[x] \in Int
                   /\ -Full * w[x] <= f[x] /\ f[x] <= Full * w[x]
  BY DEF Readings, Full
<1>3. SumFunctionOnSet(w, S) = n
  BY SumOfOnes
<1>4. SumFunction(f) = SumFunctionOnSet(f, S)
  BY DEF SumFunction
<1> HIDE DEF w, n, S
<1>5. IsFiniteSet(S)
  BY DEF S
<1>6. SumFunctionOnSet(f, S) \in Int
  BY <1>2, <1>5, SumType
<1>7. -Full * n <= SumFunctionOnSet(f, S) /\ SumFunctionOnSet(f, S) <= Full * n
  BY <1>2, <1>3, <1>5, SumWithin
<1>8. Truncated(SumFunctionOnSet(f, S), n) \in -6 .. 6
  <2> DEFINE a == SumFunctionOnSet(f, S)
  <2>1. a \in Int /\ -(6 * n) <= a /\ a <= 6 * n
    BY <1>1, <1>6, <1>7 DEF Full
  <2> HIDE DEF a
  <2>2. Truncated(a, n) \in -6 .. 6
    BY <1>1, <2>1, TruncatedWithin
  <2> QED
    BY <2>2 DEF a
<1> QED
  BY <1>4, <1>8 DEF Average, n, S, Readings, Full

\* The sentiment of some events is a reading.
LEMMA SentimentIsReading ==
  ASSUME NEW S \in SUBSET DOMAIN Event, S # {}
  PROVE  Sentiment(S) \in Readings
<1> DEFINE f == [e \in S |-> Full * Event[e].sentiment]
<1>1. DOMAIN f = S /\ IsFiniteSet(S)
  BY EventAssumption, FS_Subset
<1>2. \A e \in S : f[e] \in Readings
  BY EventAssumption DEF Readings, Full
<1> HIDE DEF f
<1>3. Average(f) \in Readings
  BY <1>1, <1>2, AverageOfReadings
<1> QED
  BY <1>3 DEF Sentiment, f

\* What counts of a cluster belongs to it.
LEMMA ActionWithin == \A C, read : Action(C, read) \subseteq C
  BY DEF Action, Active, Newest

\* So is that of a cluster, read or not.
LEMMA ClusterIsReading ==
  ASSUME NEW read, NEW C \in SUBSET DOMAIN Event
  PROVE  ClusterSentiment(C, read) \in Readings
<1>1. Read(Action(C, read)) \in SUBSET DOMAIN Event
  BY ActionWithin DEF Read
<1>2. 0 \in Readings
  BY DEF Readings, Full
<1> QED
  BY <1>1, <1>2, SentimentIsReading DEF ClusterSentiment

\* What the packet makes of its clusters is a reading, or none.
LEMMA MarketWideIsReading ==
  ASSUME NEW read, NEW clusters \in SUBSET SUBSET DOMAIN Event
  PROVE  MarketWide(clusters, read) \in Readings \cup {None}
<1> DEFINE measured == {C \in clusters : Actionable(C, read) /\ Read(C) # {}}
           f == [C \in measured |-> ClusterSentiment(C, read)]
<1>1. IsFiniteSet(measured)
  <2>1. IsFiniteSet(SUBSET DOMAIN Event)
    BY EventAssumption, FS_SUBSET
  <2>2. measured \in SUBSET SUBSET DOMAIN Event
    OBVIOUS
  <2> HIDE DEF measured
  <2> QED
    BY <2>1, <2>2, FS_Subset
<1>2. DOMAIN f = measured /\ \A C \in measured : f[C] \in Readings
  BY ClusterIsReading
<1>3. MarketWide(clusters, read) = IF measured = {} THEN None ELSE Average(f)
  BY DEF MarketWide
<1> HIDE DEF f, measured
<1>4. measured # {} => Average(f) \in Readings
  BY <1>1, <1>2, AverageOfReadings
<1> QED
  BY <1>3, <1>4

\* The market_sentiment factor is a reading, or none.
LEMMA MarketSentimentIsReading ==
  ASSUME NEW read, NEW clusters \in SUBSET SUBSET DOMAIN Event
  PROVE  MarketSentiment(clusters, read) \in Readings \cup {None}
<1> DEFINE own == Read(Counted(clusters, read))
           wide == MarketWide(clusters, read)
<1>1. own \in SUBSET DOMAIN Event
  BY ActionWithin DEF Read, Counted
<1>2. wide \in Readings \cup {None}
  BY MarketWideIsReading
<1>3. own # {} => Sentiment(own) \in Readings
  BY <1>1, SentimentIsReading
<1>4. MarketSentiment(clusters, read) =
        IF own = {} THEN wide
        ELSE IF wide = None THEN Sentiment(own)
        ELSE Truncated(6 * wide + 4 * Sentiment(own), 10)
  BY DEF MarketSentiment
<1> HIDE DEF own, wide
<1>5. ASSUME own # {}, wide # None
      PROVE  Truncated(6 * wide + 4 * Sentiment(own), 10) \in Readings
  <2> DEFINE a == 6 * wide + 4 * Sentiment(own)
             b == 10
  <2>1. a \in Int /\ b \in Nat \ {0} /\ -(6 * b) <= a /\ a <= 6 * b
    BY <1>2, <1>3, <1>5 DEF Readings, Full
  <2> HIDE DEF a, b
  <2>2. Truncated(a, b) \in -6 .. 6
    BY <2>1, TruncatedWithin
  <2> QED
    BY <2>2 DEF a, b, Readings, Full
<1> QED
  BY <1>2, <1>3, <1>4, <1>5

\* The value of some rows is a reading, or none.
LEMMA ValueIsReading ==
  ASSUME NEW rows \in SUBSET [at : Int, value : Readings]
  PROVE  Value(rows) \in Readings \cup {None}
<1>1. CASE rows = {}
  BY <1>1 DEF Value
<1>2. CASE rows # {}
  <2>1. (CHOOSE r \in rows : TRUE) \in rows
    BY <1>2
  <2> QED
    BY <1>2, <2>1 DEF Value
<1> QED
  BY <1>1, <1>2

-----------------------------------------------------------------------------
(* The inductive invariant                                                   *)

Early == {"request", "bars", "evidence", "cutoff"}

Row == [at : Int, value : Readings]
Statuses == {"not_requested", "unavailable", "available"}

TypeOK ==
  /\ clock \in Int /\ cutoff \in Int
  /\ bars \in [closed : Int, at : Int, span : {"tiny", "young", "full"}, lean : -1 .. 1]
  /\ DOMAIN evidence \subseteq DOMAIN Event
  /\ \A e \in DOMAIN evidence : evidence[e] \in Int
  /\ packet.sentiment \in Readings \cup {None}
  /\ factors \in [failed : BOOLEAN, macro : SUBSET Row, fundamentals : SUBSET Row]
  /\ flow \in [outcome : {"fault", "unreachable", "read"},
               proxy : SUBSET Row, holdings : SUBSET Row]
  /\ decision.value \in 0 .. 100
  /\ briefing \in [news : Statuses, council : Statuses, proposed : -Cap .. Cap, usage : BOOLEAN]

\* Whoever is past the door asked about a horizon.
Asked == pc \in {"bars", "evidence", "cutoff", "factors", "flow", "score"} => horizon \in Horizons

\* While nobody set the clock back, what was read was there.
ReadInTime ==
  ~setBack => /\ clock \in Nat /\ packet.late = {}
              /\ \A e \in DOMAIN evidence : evidence[e] <= clock

\* Nothing counts before the cutoff; what was read after it was published before.
KnownBefore ==
  /\ pc \in Early => packet.counted = {}
  /\ pc \in {"flow", "score"} =>
       \A r \in factors.macro \cup factors.fundamentals : r.at <= cutoff
  /\ pc = "score" => \A r \in flow.proxy \cup flow.holdings : r.at <= cutoff

\* The council moves nothing before it met, and nothing that was gated.
Gated ==
  /\ pc \notin {"news", "council", "done"} => briefing.proposed = 0
  /\ decision.blocked # {} => briefing.proposed = 0 /\ decision.plan \in {"none", "avoid"}

\* A position is planned on a score far enough from the middle.
Leaning == decision.plan = "long" => decision.value >= 58 /\ decision.odds.bull > decision.odds.bear

PathInv == TypeOK /\ Asked /\ ReadInTime /\ KnownBefore /\ Gated /\ Leaning

\* The events of a cluster are events.
LEMMA ClustersAreEvents ==
  ASSUME NEW read, DOMAIN read \subseteq DOMAIN Event, NEW t
  PROVE  Clusters(Visible(read, t)) \in SUBSET SUBSET DOMAIN Event
BY DEF Clusters, Visible

\* Every factor is a reading, or none.
LEMMA FeaturesAreReadings ==
  ASSUME TypeOK
  PROVE  \A n \in Names : Feature[n] \in Readings \cup {None}
<1>1. /\ Value(factors.macro) \in Readings \cup {None}
      /\ Value(factors.fundamentals) \in Readings \cup {None}
      /\ Value(flow.proxy) \in Readings \cup {None}
      /\ Value(flow.holdings) \in Readings \cup {None}
  BY ValueIsReading DEF TypeOK, Row
<1>2. Institutional \in Readings \cup {None}
  <2> DEFINE p == Value(flow.proxy)
             d == Value(flow.holdings)
  <2>1. Institutional = IF p = None THEN d ELSE IF d = None THEN Truncated(p, 2)
                        ELSE Truncated(p + 2 * d, 3)
    BY DEF Institutional
  <2>2. p \in Readings \cup {None} /\ d \in Readings \cup {None}
    BY <1>1
  <2> HIDE DEF p, d
  <2>3. p \in Readings => Truncated(p, 2) \in Readings
    BY DEF Readings, Full, Truncated
  <2>4. p \in Readings /\ d \in Readings => Truncated(p + 2 * d, 3) \in Readings
    BY DEF Readings, Full, Truncated
  <2> QED
    BY <2>1, <2>2, <2>3, <2>4
<1>3. /\ Full * bars.lean \in Readings /\ packet.sentiment \in Readings \cup {None}
      /\ None \in Readings \cup {None}
  BY DEF TypeOK, Readings, Full
<1>4. /\ Feature.trend \in Readings \cup {None}
      /\ Feature.momentum \in Readings \cup {None}
      /\ Feature.pattern \in Readings \cup {None}
      /\ Feature.sentiment \in Readings \cup {None}
      /\ Feature.macro \in Readings \cup {None}
      /\ Feature.geopolitics \in Readings \cup {None}
      /\ Feature.institutional \in Readings \cup {None}
      /\ Feature.fundamentals \in Readings \cup {None}
  BY <1>1, <1>2, <1>3 DEF Feature
<1> QED
  BY <1>4 DEF Names

\* The weights are positive, whatever the horizon.
LEMMA WeightsArePositive ==
  ASSUME NEW h \in {"short", "swing", "long"}, NEW n \in Names
  PROVE  Weights[h][n] \in 1 .. 100
BY DEF Weights, Names

\* A score is on its scale, and bullish only well above the middle.
LEMMA ScoreOnItsScale ==
  ASSUME TypeOK, horizon \in Horizons
  PROVE  /\ Score.value \in 0 .. 100
         /\ Score.direction = "bullish" => Score.value >= 58
         /\ Score.actionable => Gates = {}
<1> DEFINE S == {n \in Names : Feature[n] # None}
           w == Weights[horizon]
           f == [n \in S |-> Weights[horizon][n] * Feature[n]]
           weight == SumFunctionOnSet(w, S)
           lean == SumFunction(f)
<1>1. /\ Score.value = (IF weight = 0 THEN 50 ELSE 50 + Truncated(50 * lean, Full * weight))
      /\ Score.direction = (CASE weight > 0 /\ 50 * lean >= 8 * Full * weight -> "bullish"
                              [] weight > 0 /\ 50 * lean <= -8 * Full * weight -> "bearish"
                              [] OTHER -> "neutral")
      /\ Score.actionable = (Gates = {} /\ weight > 0)
  BY DEF Score
<1>2. IsFiniteSet(S)
  <2>1. IsFiniteSet(Names)
    <3>1. \A x : IsFiniteSet({x})
      BY FS_Singleton
    <3>2. \A A, B : IsFiniteSet(A) /\ IsFiniteSet(B) => IsFiniteSet(A \cup B)
      BY FS_Union
    <3>3. IsFiniteSet({"trend"} \cup {"momentum"}) /\ IsFiniteSet({"pattern"} \cup {"sentiment"})
      BY <3>1, <3>2
    <3>4. IsFiniteSet({"macro"} \cup {"geopolitics"})
          /\ IsFiniteSet({"institutional"} \cup {"fundamentals"})
      BY <3>1, <3>2
    <3>5. /\ IsFiniteSet(({"trend"} \cup {"momentum"}) \cup ({"pattern"} \cup {"sentiment"}))
          /\ IsFiniteSet(({"macro"} \cup {"geopolitics"})
                          \cup ({"institutional"} \cup {"fundamentals"}))
      BY <3>2, <3>3, <3>4
    <3>6. Names = (({"trend"} \cup {"momentum"}) \cup ({"pattern"} \cup {"sentiment"}))
                  \cup (({"macro"} \cup {"geopolitics"})
                         \cup ({"institutional"} \cup {"fundamentals"}))
      BY DEF Names
    <3> QED
      BY <3>2, <3>5, <3>6
  <2> QED
    BY <2>1, FS_Subset DEF S
<1>3. \A n \in S : w[n] \in 1 .. 100 /\ Feature[n] \in Readings
  <2>1. horizon \in {"short", "swing", "long"}
    BY DecisionAssumption
  <2>2. \A n \in S : n \in Names /\ Feature[n] # None
    OBVIOUS
  <2> QED
    BY <2>1, <2>2, WeightsArePositive, FeaturesAreReadings
<1>4. \A n \in S : f[n] = w[n] * Feature[n]
  OBVIOUS
<1>5. lean = SumFunctionOnSet(f, S)
  BY DEF SumFunction
<1> HIDE DEF S, w, f, weight, lean
<1>6. \A n \in S : /\ f[n] \in Int /\ w[n] \in Int
                   /\ -Full * w[n] <= f[n] /\ f[n] <= Full * w[n]
  <2> TAKE n \in S
  <2>1. PICK a \in 1 .. 100, x \in -6 .. 6 : w[n] = a /\ Feature[n] = x
    BY <1>3 DEF Readings, Full
  <2>2. a * x \in Int /\ -6 * a <= a * x /\ a * x <= 6 * a
    BY <2>1
  <2> QED
    BY <1>4, <2>1, <2>2 DEF Full
<1>7. weight \in Int /\ lean \in Int
  BY <1>2, <1>5, <1>6, SumType DEF weight
<1>8. -6 * weight <= lean /\ lean <= 6 * weight
  BY <1>2, <1>5, <1>6, SumWithin DEF weight, Full
<1>9. weight >= 0
  BY <1>7, <1>8
<1>10. ASSUME weight > 0
       PROVE  /\ Truncated(50 * lean, Full * weight) \in -50 .. 50
              /\ 50 * lean >= 8 * Full * weight => Truncated(50 * lean, Full * weight) >= 8
  <2> DEFINE a == 50 * lean
             b == Full * weight
  <2>1. /\ a \in Int /\ b \in Nat \ {0} /\ -(50 * b) <= a /\ a <= 50 * b
        /\ 8 * Full * weight = 8 * b
    BY <1>7, <1>8, <1>10 DEF Full
  <2> HIDE DEF a, b
  <2>2. Truncated(a, b) \in -50 .. 50
    BY <2>1, TruncatedWithin
  <2>3. a >= 8 * b => Truncated(a, b) >= 8
    BY <2>1, TruncatedAtLeast
  <2>4. 50 * lean >= 8 * Full * weight => a >= 8 * b
    BY <2>1 DEF a
  <2> QED
    BY <2>2, <2>3, <2>4 DEF a, b
<1>11. weight = 0 \/ weight > 0
  BY <1>7, <1>9
<1>12. Score.direction = "bullish" => weight > 0 /\ 50 * lean >= 8 * Full * weight
  BY <1>1
<1>a. Score.actionable => Gates = {}
  BY <1>1
<1>v. Score.value = (IF weight = 0 THEN 50 ELSE 50 + Truncated(50 * lean, Full * weight))
  BY <1>1
<1>13. CASE weight = 0
  <2>1. Score.value = 50 /\ Score.direction # "bullish"
    BY <1>7, <1>12, <1>13, <1>v
  <2> QED
    BY <1>a, <2>1
<1>14. CASE weight > 0
  <2> DEFINE q == Truncated(50 * lean, Full * weight)
  <2>1. q \in -50 .. 50 /\ (Score.direction = "bullish" => q >= 8)
    BY <1>10, <1>12, <1>14
  <2>2. Score.value = 50 + q
    BY <1>7, <1>14, <1>v
  <2> HIDE DEF q
  <2>3. Score.value \in 0 .. 100 /\ (q >= 8 => Score.value >= 58)
    BY <2>1, <2>2
  <2> QED
    BY <1>a, <2>1, <2>3
<1> QED
  BY <1>11, <1>13, <1>14

-----------------------------------------------------------------------------
(* Each action keeps it                                                      *)

\* The request begins with nothing read and nothing decided.
LEMMA InitKeeps == Init => PathInv
<1> SUFFICES ASSUME Init PROVE PathInv
  OBVIOUS
<1> USE DecisionAssumption DEF Init
<1>1. clock \in Nat /\ cutoff = 0
  BY DEF Started
<1>2. DOMAIN evidence = {}
  OBVIOUS
<1>3. TypeOK
  BY <1>1, <1>2 DEF TypeOK, NoBars, NoPacket, NoFactors, NoFlow, NoDecision, Statuses, Cap, None
<1>4. ReadInTime /\ KnownBefore /\ Gated /\ Leaning /\ Asked
  BY <1>1, <1>2 DEF ReadInTime, KnownBefore, Early, Gated, Leaning, Asked, NoPacket, NoDecision
<1> QED
  BY <1>3, <1>4 DEF PathInv

\* What changes nothing changes nothing here.
LEMMA StutterKeeps == PathInv /\ UNCHANGED vars => PathInv'
BY DEF vars, inputs, PathInv, TypeOK, Asked, ReadInTime, KnownBefore, Early, Gated, Leaning

\* The front door reads nothing and decides nothing.
LEMMA AdmitKeeps == PathInv /\ Admit => PathInv'
<1> SUFFICES ASSUME PathInv, Admit PROVE PathInv'
  OBVIOUS
<1>1. /\ pc = "request" /\ pc' \in {"answered", "bars"}
      /\ pc' = "bars" => horizon' \in Horizons
      /\ UNCHANGED <<clock, setBack, mode, inputs, cutoff, packet, decision, attempts, briefing>>
  BY DEF Admit
<1> QED
  BY <1>1 DEF inputs, PathInv, TypeOK, Asked, ReadInTime, KnownBefore, Early, Gated, Leaning

\* A clock set back only frees the readings from being earlier than it.
LEMMA SetBackKeeps == PathInv /\ SetBack => PathInv'
BY DecisionAssumption
   DEF SetBack, inputs, PathInv, TypeOK, Asked, ReadInTime, KnownBefore, Early, Gated, Leaning

\* Candles are candles.
LEMMA ReadBarsKeeps == PathInv /\ ReadBars => PathInv'
<1> SUFFICES ASSUME PathInv, ReadBars PROVE PathInv'
  OBVIOUS
<1>1. /\ pc = "bars" /\ clock' = clock + 1 /\ pc' \in {"evidence", "unavailable", "failed"}
      /\ UNCHANGED <<setBack, refusal, horizon, mode, evidence, cutoff, packet, factors, flow,
                     decision, attempts, briefing>>
  BY DEF ReadBars
<1>2. bars' \in [closed : Int, at : Int, span : {"tiny", "young", "full"}, lean : -1 .. 1]
  <2>0. clock \in Int
    BY DEF PathInv, TypeOK
  <2>1. CASE bars' = NoBars
    BY <2>1 DEF NoBars
  <2>2. CASE bars' # NoBars
    <3>1. PICK closed \in {0, Started},
               shape \in {"tiny", "full"} \X {0} \cup {"young", "full"} \X {-1, 1} :
            bars' = [closed |-> closed, at |-> clock', span |-> shape[1], lean |-> shape[2]]
      BY <2>2 DEF ReadBars
    <3>2. shape[1] \in {"tiny", "young", "full"} /\ shape[2] \in -1 .. 1
      BY <3>1
    <3> QED
      BY <1>1, <2>0, <3>1, <3>2, DecisionAssumption DEF Started
  <2> QED
    BY <2>1, <2>2
<1>3. TypeOK'
  BY <1>1, <1>2 DEF PathInv, TypeOK
<1> QED
  BY <1>1, <1>3 DEF PathInv, TypeOK, Asked, ReadInTime, KnownBefore, Early, Gated, Leaning

\* What the evidence read became available by now.
LEMMA ReadEvidenceKeeps == PathInv /\ ReadEvidence => PathInv'
<1> SUFFICES ASSUME PathInv, ReadEvidence PROVE PathInv'
  OBVIOUS
<1>1. /\ pc = "evidence" /\ clock' = clock + 1 /\ pc' \in {"cutoff", "failed"}
      /\ UNCHANGED <<setBack, refusal, horizon, mode, bars, cutoff, packet, factors, flow,
                     decision, attempts, briefing>>
  BY DEF ReadEvidence
<1>2. PICK held \in SUBSET DOMAIN Event, fresh \in SUBSET DOMAIN Event :
        evidence' = [e \in held \cup fresh |-> IF e \in fresh THEN clock' ELSE 0]
  BY DEF ReadEvidence
<1>3. DOMAIN evidence' = held \cup fresh
  BY <1>2
<1>4. \A e \in DOMAIN evidence' : evidence'[e] \in {0, clock'}
  BY <1>2, <1>3
<1>5. TypeOK'
  BY <1>1, <1>3, <1>4 DEF PathInv, TypeOK
<1>6. ReadInTime'
  BY <1>1, <1>3, <1>4 DEF PathInv, TypeOK, ReadInTime
<1> QED
  BY <1>1, <1>5, <1>6 DEF PathInv, Asked, KnownBefore, Early, Gated, Leaning

\* At the cutoff nothing read is late, and the packet's sentiment is a reading.
LEMMA TakeCutoffKeeps == PathInv /\ TakeCutoff => PathInv'
<1> SUFFICES ASSUME PathInv, TakeCutoff PROVE PathInv'
  OBVIOUS
<1> DEFINE clusters == Clusters(Visible(evidence, clock))
<1>1. /\ pc = "cutoff" /\ pc' = "factors" /\ cutoff' = clock /\ evidence' = <<>>
      /\ packet'.sentiment = MarketSentiment(clusters, evidence)
      /\ packet'.late = Future(evidence, clock)
      /\ UNCHANGED <<clock, setBack, refusal, horizon, mode, bars, factors, flow,
                     decision, attempts, briefing>>
  BY DEF TakeCutoff, Cutoff
<1>2. packet'.sentiment \in Readings \cup {None}
  BY <1>1, ClustersAreEvents, MarketSentimentIsReading DEF PathInv, TypeOK
<1>3. DOMAIN evidence' = {}
  BY <1>1
<1>4. TypeOK'
  BY <1>1, <1>2, <1>3 DEF PathInv, TypeOK
<1>5. ReadInTime'
  <2> SUFFICES ASSUME ~setBack PROVE Future(evidence, clock) = {}
    BY <1>1, <1>3 DEF PathInv, ReadInTime
  <2> QED
    BY DEF PathInv, TypeOK, ReadInTime, Future
<1> QED
  BY <1>1, <1>4, <1>5 DEF PathInv, Asked, KnownBefore, Early, Gated, Leaning

\* What is served of a source's rows was published by then.
LEMMA LatestIsKnown ==
  ASSUME NEW rows, NEW t
  PROVE  Latest(rows, t) \subseteq {r \in rows : r.at <= t}
BY DEF Latest

\* What a publisher may serve are rows.
LEMMA PublishedAreRows ==
  ASSUME clock' \in Int, NEW old \in Readings, NEW new \in Readings,
         NEW rows \in Published(old, new)
  PROVE  rows \in SUBSET Row
BY DEF Published, Row

\* Factors read after the cutoff are of rows published before it.
LEMMA ReadFactorsKeeps == PathInv /\ ReadFactors => PathInv'
<1> SUFFICES ASSUME PathInv, ReadFactors PROVE PathInv'
  OBVIOUS
<1>1. /\ pc = "factors" /\ clock' = clock + 1 /\ pc' = "flow"
      /\ UNCHANGED <<setBack, refusal, horizon, mode, bars, evidence, cutoff, packet, flow,
                     decision, attempts, briefing>>
  BY DEF ReadFactors
<1>2. clock' \in Int /\ Full \in Readings /\ -Full \in Readings
  BY <1>1 DEF PathInv, TypeOK, Readings, Full
<1>3. /\ factors' \in [failed : BOOLEAN, macro : SUBSET Row, fundamentals : SUBSET Row]
      /\ \A r \in factors'.macro \cup factors'.fundamentals : r.at <= cutoff
  <2>1. CASE factors' = NoFactors
    BY <2>1 DEF NoFactors
  <2>2. CASE factors' # NoFactors
    <3>1. PICK macro \in Published(Full, -Full), fundamentals \in Published(Full, Full) :
            factors' = [failed |-> FALSE, macro |-> Latest(macro, cutoff),
                        fundamentals |-> Latest(fundamentals, cutoff)]
      BY <2>2 DEF ReadFactors
    <3>2. macro \in SUBSET Row /\ fundamentals \in SUBSET Row
      BY <1>2, PublishedAreRows
    <3>3. /\ Latest(macro, cutoff) \subseteq {r \in macro : r.at <= cutoff}
          /\ Latest(fundamentals, cutoff) \subseteq {r \in fundamentals : r.at <= cutoff}
      BY LatestIsKnown
    <3> QED
      BY <3>1, <3>2, <3>3
  <2> QED
    BY <2>1, <2>2
<1>4. TypeOK'
  BY <1>1, <1>2, <1>3 DEF PathInv, TypeOK
<1> QED
  BY <1>1, <1>3, <1>4 DEF PathInv, TypeOK, Asked, ReadInTime, KnownBefore, Early, Gated, Leaning

\* So is the flow, whenever its snapshot was received.
LEMMA ReadFlowKeeps == PathInv /\ ReadFlow => PathInv'
<1> SUFFICES ASSUME PathInv, ReadFlow PROVE PathInv'
  OBVIOUS
<1>1. /\ pc = "flow" /\ clock' = clock + 1 /\ pc' = "score"
      /\ UNCHANGED <<setBack, refusal, horizon, mode, bars, evidence, cutoff, packet, factors,
                     decision, attempts, briefing>>
  BY DEF ReadFlow
<1>2. clock' \in Int /\ cutoff \in Int /\ Full \in Readings /\ -Full \in Readings
  BY <1>1 DEF PathInv, TypeOK, Readings, Full
<1>3. /\ flow' \in [outcome : {"fault", "unreachable", "read"},
                    proxy : SUBSET Row, holdings : SUBSET Row]
      /\ \A r \in flow'.proxy \cup flow'.holdings : r.at <= cutoff
  <2>1. CASE flow' \in {NoFlow, [NoFlow EXCEPT !.outcome = "unreachable"]}
    BY <2>1 DEF NoFlow
  <2>2. CASE flow' \notin {NoFlow, [NoFlow EXCEPT !.outcome = "unreachable"]}
    <3>1. PICK received \in {cutoff, clock'}, holdings \in Published(-Full, Full),
               live \in SUBSET {Full} :
            flow' = [outcome |-> "read",
                     proxy |-> Latest({[at |-> received, value |-> v] : v \in live}, cutoff),
                     holdings |-> Latest(holdings, cutoff)]
      BY <2>2 DEF ReadFlow
    <3> DEFINE proxy == {[at |-> received, value |-> v] : v \in live}
    <3>2. proxy \in SUBSET Row /\ holdings \in SUBSET Row
      <4>1. holdings \in SUBSET Row
        BY <1>2, PublishedAreRows
      <4>2. received \in Int
        BY <1>2
      <4>3. \A v \in live : [at |-> received, value |-> v] \in Row
        BY <1>2, <4>2 DEF Row
      <4> QED
        BY <4>1, <4>3
    <3>3. /\ Latest(proxy, cutoff) \subseteq {r \in proxy : r.at <= cutoff}
          /\ Latest(holdings, cutoff) \subseteq {r \in holdings : r.at <= cutoff}
      BY LatestIsKnown
    <3>4. flow' = [outcome |-> "read", proxy |-> Latest(proxy, cutoff),
                   holdings |-> Latest(holdings, cutoff)]
      BY <3>1
    <3> HIDE DEF proxy
    <3> QED
      BY <3>2, <3>3, <3>4
  <2> QED
    BY <2>1, <2>2
<1>4. TypeOK'
  BY <1>1, <1>2, <1>3 DEF PathInv, TypeOK
<1> QED
  BY <1>1, <1>3, <1>4 DEF PathInv, TypeOK, Asked, ReadInTime, KnownBefore, Early, Gated, Leaning

\* The engine's decision fits its gates and its score.
LEMMA EvaluateKeeps == PathInv /\ Evaluate => PathInv'
<1> SUFFICES ASSUME PathInv, Evaluate PROVE PathInv'
  OBVIOUS
<1>1. /\ pc = "score" /\ pc' \in {"failed", "brief"}
      /\ bars' = NoBars /\ factors' = NoFactors /\ flow' = NoFlow
      /\ UNCHANGED <<evidence, clock, setBack, refusal, horizon, mode, cutoff, packet,
                     attempts, briefing>>
  BY DEF Evaluate
<1>2. horizon \in Horizons /\ briefing.proposed = 0
  BY <1>1 DEF PathInv, Asked, Gated
<1>3. /\ Score.value \in 0 .. 100
      /\ Score.direction = "bullish" => Score.value >= 58
      /\ Score.actionable => Gates = {}
  BY <1>2, ScoreOnItsScale DEF PathInv
<1>4. /\ decision'.value \in 0 .. 100
      /\ decision'.blocked # {} => decision'.plan \in {"none", "avoid"}
      /\ decision'.plan = "long" =>
           decision'.value >= 58 /\ decision'.odds.bull > decision'.odds.bear
  <2>1. CASE decision' = decision
    BY <2>1 DEF PathInv, TypeOK, Gated, Leaning
  <2>2. CASE decision' # decision
    <3> DEFINE score == Score
    <3>1. decision' = [value |-> score.value, direction |-> score.direction,
                       actionable |-> score.actionable, blocked |-> Gates,
                       odds |-> IF VolatilityMeasured THEN Forecast(score) ELSE <<>>,
                       plan |-> IF VolatilityMeasured THEN Plan(score) ELSE "none"]
      BY <2>2 DEF Evaluate
    <3>2. /\ score.value \in 0 .. 100
          /\ score.direction = "bullish" => score.value >= 58
          /\ score.actionable => Gates = {}
      BY <1>3
    <3> HIDE DEF score
    <3>3. /\ Plan(score) = "long" => score.actionable /\ score.direction = "bullish"
          /\ Plan(score) \in {"long", "watch", "avoid"}
          /\ Plan(score) = "watch" => score.actionable
      BY DEF Plan
    <3>4. score.value >= 58 => Forecast(score).bull > Forecast(score).bear
      BY <3>2 DEF Forecast
    <3>5. /\ decision'.value = score.value /\ decision'.blocked = Gates
          /\ decision'.odds = (IF VolatilityMeasured THEN Forecast(score) ELSE <<>>)
          /\ decision'.plan = (IF VolatilityMeasured THEN Plan(score) ELSE "none")
      BY <3>1
    <3>6. decision'.plan = "long" => VolatilityMeasured /\ Plan(score) = "long"
      BY <3>5
    <3>7. decision'.blocked # {} => decision'.plan \in {"none", "avoid"}
      BY <3>2, <3>3, <3>5
    <3> QED
      BY <3>2, <3>3, <3>4, <3>5, <3>6, <3>7
  <2> QED
    BY <2>1, <2>2
<1>5. TypeOK'
  BY <1>1, <1>4 DEF PathInv, TypeOK, NoBars, NoFactors, NoFlow
<1> QED
  BY <1>1, <1>2, <1>4, <1>5
     DEF PathInv, Asked, ReadInTime, KnownBefore, Early, Gated, Leaning, NoFactors, NoFlow

\* What the adviser's block does to the briefing.
LEMMA BriefingKeeps ==
  ASSUME PathInv,
         pc \in {"brief", "news", "council"}, pc' \in {"news", "council", "done"},
         briefing' \in [news : Statuses, council : Statuses, proposed : -Cap .. Cap,
                        usage : BOOLEAN],
         decision.blocked # {} => briefing'.proposed = 0,
         UNCHANGED <<clock, setBack, refusal, horizon, inputs, cutoff, packet, decision>>
  PROVE  PathInv'
BY DEF inputs, PathInv, TypeOK, Asked, ReadInTime, KnownBefore, Early, Gated, Leaning

\* A refused block leaves what was proposed.
LEMMA RefusedBriefing ==
  ASSUME PathInv, NEW m
  PROVE  /\ Refused(m) \in [news : Statuses, council : Statuses, proposed : -Cap .. Cap,
                            usage : BOOLEAN]
         /\ Refused(m).proposed = briefing.proposed
BY DEF Refused, PathInv, TypeOK, Statuses

\* The adviser begins, or does not.
LEMMA BriefKeeps == PathInv /\ Brief => PathInv'
<1> SUFFICES ASSUME PathInv, Brief PROVE PathInv'
  OBVIOUS
<1>1. /\ pc = "brief" /\ pc' \in {"news", "done"}
      /\ briefing' = briefing \/ briefing' = Refused(mode')
      /\ UNCHANGED <<clock, setBack, refusal, horizon, inputs, cutoff, packet, decision>>
  BY DEF Brief
<1>2. briefing' \in [news : Statuses, council : Statuses, proposed : -Cap .. Cap, usage : BOOLEAN]
      /\ briefing'.proposed = briefing.proposed
  BY <1>1, RefusedBriefing DEF PathInv, TypeOK
<1>3. decision.blocked # {} => briefing'.proposed = 0
  BY <1>2 DEF PathInv, Gated
<1> QED
  BY <1>1, <1>2, <1>3, BriefingKeeps

\* An answer moves a gated score not at all, any other within the cap.
LEMMA ModelAnswersKeeps ==
  ASSUME PathInv, NEW block \in {"news", "council"}, ModelAnswers(block)
  PROVE  PathInv'
<1>1. /\ pc = block /\ pc' \in {"council", "done"}
      /\ UNCHANGED <<clock, setBack, refusal, horizon, inputs, cutoff, packet, decision>>
  BY DEF ModelAnswers, Finish
<1>2. PICK status \in Statuses, proposed \in -Cap .. Cap :
        /\ briefing' = [briefing EXCEPT ![block] = status, !.proposed = proposed, !.usage = TRUE]
        /\ decision.blocked # {} => proposed = 0
  <2>1. PICK conclusions \in SUBSET SUBSET Passages, grounded \in BOOLEAN,
             put \in {-Cap, 0, Cap} :
          briefing' = [briefing EXCEPT
            ![block] = IF Traceable(conclusions, grounded) THEN "available" ELSE "unavailable",
            !.proposed = IF block = "council" /\ Traceable(conclusions, grounded)
                         THEN HardGate(put, decision.blocked) ELSE @,
            !.usage = TRUE]
    BY DEF ModelAnswers
  <2> DEFINE status == IF Traceable(conclusions, grounded) THEN "available" ELSE "unavailable"
             proposed == IF block = "council" /\ Traceable(conclusions, grounded)
                         THEN HardGate(put, decision.blocked) ELSE briefing.proposed
  <2>2. status \in Statuses
    BY DEF Statuses
  <2>3. /\ briefing.proposed \in -Cap .. Cap
        /\ decision.blocked # {} => briefing.proposed = 0
    BY DEF PathInv, TypeOK, Gated
  <2>4. /\ HardGate(put, decision.blocked) \in -Cap .. Cap
        /\ decision.blocked # {} => HardGate(put, decision.blocked) = 0
    BY DEF HardGate, Cap
  <2>5. proposed \in -Cap .. Cap /\ (decision.blocked # {} => proposed = 0)
    BY <2>3, <2>4
  <2>6. briefing' = [briefing EXCEPT ![block] = status, !.proposed = proposed, !.usage = TRUE]
    BY <2>1 DEF PathInv, TypeOK
  <2> HIDE DEF status, proposed
  <2> QED
    BY <2>2, <2>5, <2>6
<1>3. /\ briefing' \in [news : Statuses, council : Statuses, proposed : -Cap .. Cap,
                        usage : BOOLEAN]
      /\ briefing'.proposed = proposed
  BY <1>2 DEF PathInv, TypeOK
<1> QED
  BY <1>1, <1>2, <1>3, BriefingKeeps

\* A call that fails moves nothing.
LEMMA CallFailsKeeps ==
  ASSUME PathInv, NEW block \in {"news", "council"}, CallFails(block)
  PROVE  PathInv'
<1>1. /\ pc = block /\ pc' \in {"news", "council", "done"}
      /\ briefing' = briefing \/ briefing' = [briefing EXCEPT ![block] = "unavailable"]
      /\ UNCHANGED <<clock, setBack, refusal, horizon, inputs, cutoff, packet, decision>>
  BY DEF CallFails, Finish
<1>2. /\ briefing' \in [news : Statuses, council : Statuses, proposed : -Cap .. Cap,
                        usage : BOOLEAN]
      /\ briefing'.proposed = briefing.proposed
  BY <1>1 DEF PathInv, TypeOK, Statuses
<1>3. decision.blocked # {} => briefing'.proposed = 0
  BY <1>2 DEF PathInv, Gated
<1> QED
  BY <1>1, <1>2, <1>3, BriefingKeeps

\* Nor does an adviser that fails.
LEMMA AdviserFailsKeeps == PathInv /\ AdviserFails => PathInv'
<1> SUFFICES ASSUME PathInv, AdviserFails PROVE PathInv'
  OBVIOUS
<1>1. /\ pc \in {"news", "council"} /\ pc' = "done" /\ briefing' = Refused(mode)
      /\ UNCHANGED <<clock, setBack, refusal, horizon, inputs, cutoff, packet, decision>>
  BY DEF AdviserFails
<1>2. /\ briefing' \in [news : Statuses, council : Statuses, proposed : -Cap .. Cap,
                        usage : BOOLEAN]
      /\ briefing'.proposed = briefing.proposed
  BY <1>1, RefusedBriefing
<1>3. decision.blocked # {} => briefing'.proposed = 0
  BY <1>2 DEF PathInv, Gated
<1> QED
  BY <1>1, <1>2, <1>3, BriefingKeeps

\* Every step keeps the invariant.
LEMMA NextKeeps == PathInv /\ [Next]_vars => PathInv'
BY AdmitKeeps, SetBackKeeps, ReadBarsKeeps, ReadEvidenceKeeps, TakeCutoffKeeps,
   ReadFactorsKeeps, ReadFlowKeeps, EvaluateKeeps, BriefKeeps, ModelAnswersKeeps,
   CallFailsKeeps, AdviserFailsKeeps, StutterKeeps DEF Next

\* The inductive invariant.
LEMMA PathInvariant == Spec => []PathInv
BY InitKeeps, NextKeeps, PTL DEF Spec

-----------------------------------------------------------------------------
(* What follows from it                                                      *)

\* Unless the clock was set back, nothing a request read itself is set aside
\* as future, whatever the sources returned.
THEOREM BreakingNewsCounts == Spec => []OwnReadingsCount
<1>1. PathInv => OwnReadingsCount
  BY DEF PathInv, ReadInTime, OwnReadingsCount
<1> QED
  BY PathInvariant, <1>1, PTL

\* A gated decision plans no position and is not moved by the council; any other
\* is moved within the cap, and never past what was planned from it.
THEOREM GatesHold == Spec => []GateHolds
<1>1. PathInv => GateHolds
  <2> SUFFICES ASSUME PathInv, pc = "done" PROVE GateHolds
    BY DEF GateHolds
  <2>1. decision.value \in 0 .. 100 /\ briefing.proposed \in -3 .. 3
    BY DEF PathInv, TypeOK, Cap
  <2>2. /\ Served - decision.value \in -3 .. 3
        /\ briefing.proposed = 0 => Served = decision.value
        /\ decision.value >= 58 => Served > 50
    BY <2>1 DEF Served, Clamped
  <2>3. decision.blocked # {} => briefing.proposed = 0 /\ decision.plan \in {"none", "avoid"}
    BY DEF PathInv, Gated
  <2>4. decision.plan = "long" =>
          decision.value >= 58 /\ decision.odds.bull > decision.odds.bear
    BY DEF PathInv, Leaning
  <2> QED
    BY <2>2, <2>3, <2>4 DEF GateHolds, Cap
<1> QED
  BY PathInvariant, <1>1, PTL

\* What counts was worked out at the cutoff, or nothing counts yet.
LEMMA CountedAtCutoff ==
  ASSUME PathInv, Next, pc = "cutoff"
  PROVE  \/ packet'.counted = {}
         \/ /\ cutoff' = clock
            /\ packet'.counted = Counted(Clusters(Visible(evidence, clock)), evidence)
<1>1. packet.counted = {}
  BY DEF PathInv, KnownBefore, Early
<1>2. packet' = packet \/ TakeCutoff
  BY DEF Next, Admit, SetBack, ReadBars, ReadEvidence, ReadFactors, ReadFlow, Evaluate, Brief,
         AdviserFails, ModelAnswers, CallFails
<1>3. CASE packet' = packet
  BY <1>1, <1>3
<1>4. CASE TakeCutoff
  BY <1>4 DEF TakeCutoff, Cutoff
<1> QED
  BY <1>2, <1>3, <1>4

\* No candle, event, row of a factor, of a flow or of a disclosure enters a
\* decision that became known after its cutoff, clock set back or not.
THEOREM NothingOfTheFutureCounts == Spec => OnlyWhatWasKnown
<1> DEFINE Known ==
      /\ (pc = "cutoff") => \A e \in packet'.counted : evidence[e] <= cutoff'
      /\ Decided =>
           /\ bars.at <= cutoff
           /\ \A r \in factors.macro \cup factors.fundamentals
                       \cup flow.proxy \cup flow.holdings : r.at <= cutoff
<1>1. PathInv /\ [Next]_vars => [Known]_vars
  <2> SUFFICES ASSUME PathInv, Next PROVE Known
    OBVIOUS
  <2>1. ASSUME pc = "cutoff"
        PROVE  \A e \in packet'.counted : evidence[e] <= cutoff'
    <3>1. \/ packet'.counted = {}
          \/ /\ cutoff' = clock
             /\ packet'.counted = Counted(Clusters(Visible(evidence, clock)), evidence)
      BY <2>1, CountedAtCutoff
    <3>2. \A e \in Counted(Clusters(Visible(evidence, clock)), evidence) : e \in Visible(evidence, clock)
      BY ActionWithin DEF Counted, Clusters
    <3> QED
      BY <3>1, <3>2 DEF Visible
  <2>3. ASSUME Decided
        PROVE  /\ bars.at <= cutoff
               /\ \A r \in factors.macro \cup factors.fundamentals
                           \cup flow.proxy \cup flow.holdings : r.at <= cutoff
    <3>1. ~(bars.at > cutoff)
      BY <2>3 DEF Decided, Next, Admit, SetBack, ReadBars, ReadEvidence, TakeCutoff, ReadFactors,
           ReadFlow, Evaluate, Brief, AdviserFails, ModelAnswers, CallFails, Finish
    <3>2. bars.at <= cutoff
      BY <3>1 DEF PathInv, TypeOK
    <3> QED
      BY <2>3, <3>2 DEF Decided, PathInv, KnownBefore
  <2> QED
    BY <2>1, <2>3
<1> QED
  BY PathInvariant, <1>1, PTL DEF Spec, OnlyWhatWasKnown

-----------------------------------------------------------------------------
(* What counts of a story                                                    *)

\* Two clusters of the same events have nothing in common.
LEMMA ClustersApart ==
  ASSUME NEW seen, NEW C \in Clusters(seen), NEW D \in Clusters(seen), C \cap D # {}
  PROVE  C = D
<1> DEFINE closed == {B \in SUBSET seen \ {{}} : \A c \in B, d \in seen \ B : ~Joined(c, d)}
<1>1. /\ C \in closed /\ \A B \in closed : B \subseteq C => B = C
      /\ D \in closed /\ \A B \in closed : B \subseteq D => B = D
  BY DEF Clusters
<1>2. C \cap D \in closed
  <2>1. C \cap D \in SUBSET seen \ {{}}
    BY <1>1
  <2>2. ASSUME NEW c \in C \cap D, NEW d \in seen \ (C \cap D) PROVE ~Joined(c, d)
    <3>1. d \in seen \ C \/ d \in seen \ D
      OBVIOUS
    <3> QED
      BY <1>1, <3>1
  <2> QED
    BY <2>1, <2>2
<1> HIDE DEF closed
<1> QED
  BY <1>1, <1>2

\* Of two reports kept of one story neither has the other's text.
LEMMA ReportsDiffer ==
  ASSUME NEW S \in SUBSET DOMAIN Event, NEW d \in Reports(S), NEW e \in Reports(S), d # e
  PROVE  Event[d].text # Event[e].text
<1>1. d \in Nat /\ e \in Nat
  BY EventAssumption DEF Reports
<1> QED
  BY <1>1 DEF Reports

\* A finite set of naturals has a greatest member.
LEMMA GreatestMember ==
  ASSUME NEW S \in SUBSET Nat, S # {}, IsFiniteSet(S)
  PROVE  \E m \in S : \A n \in S : n <= m
<1> DEFINE Above(x) == {y \in S : y > x}
           sizes == {Cardinality(Above(x)) : x \in S}
<1>1. \A x \in S : IsFiniteSet(Above(x)) /\ Cardinality(Above(x)) \in Nat
  BY FS_Subset, FS_CardinalityType
<1>2. sizes \in SUBSET Nat /\ sizes # {}
  BY <1>1
<1>3. PICK m \in S : \A n \in S : Cardinality(Above(m)) <= Cardinality(Above(n))
  <2> HIDE DEF Above
  <2>1. PICK k \in sizes : \A l \in sizes : k <= l
    <3> HIDE DEF sizes
    <3> QED
      BY <1>2, LeastMember
  <2> QED
    BY <2>1
<1>4. ASSUME NEW n \in S, n > m PROVE FALSE
  <2>1. Above(n) \in SUBSET Above(m) /\ n \in Above(m) /\ n \notin Above(n)
    <3>1. m \in Nat /\ n \in Nat
      OBVIOUS
    <3>2. \A y \in S : y \in Nat /\ (y > n => y > m)
      BY <1>4, <3>1
    <3>3. n \in S /\ n > m /\ ~(n > n)
      BY <1>4, <3>1
    <3> QED
      BY <3>2, <3>3
  <2> DEFINE A == Above(n)
             B == Above(m)
  <2>2. A \in SUBSET B /\ A # B /\ IsFiniteSet(B)
    BY <1>1, <2>1
  <2>3. Cardinality(A) < Cardinality(B)
    <3> HIDE DEF A, B
    <3> QED
      BY <2>2, FS_Subset, FS_CardinalityType
  <2> QED
    BY <1>1, <1>3, <2>3
<1> QED
  BY <1>4

\* A publisher whose report is among those at hand is known by its owner, and
\* one that is not by its name.
LEMMA IdentityOf ==
  ASSUME NEW S \in SUBSET DOMAIN Event, NEW e \in S
  PROVE  \/ \E x \in S : Event[x].publisher = From(e) /\ Identity(e, S) = Event[x].owner
         \/ Identity(e, S) = From(e) /\ \A x \in S : Event[x].publisher # From(e)
<1> DEFINE from == {x \in S : Event[x].publisher = Event[e].origin}
<1>1. CASE Event[e].origin = Nobody
  BY <1>1 DEF Identity, From
<1>2. CASE Event[e].origin # Nobody /\ from = {}
  BY <1>2 DEF Identity, From
<1>3. CASE Event[e].origin # Nobody /\ from # {}
  <2>1. from \in SUBSET Nat /\ IsFiniteSet(from)
    BY EventAssumption, FS_Subset
  <2>2. Max(from) \in from
    <3> HIDE DEF from
    <3>1. \E m \in from : \A n \in from : n <= m
      BY <1>3, <2>1, GreatestMember
    <3>2. \E m \in from : \A n \in from : m >= n
      BY <2>1, <3>1
    <3> QED
      BY <3>2 DEF Max
  <2>3. Identity(e, S) = Event[Max(from)].owner
    BY <1>3 DEF Identity
  <2>4. From(e) = Event[e].origin
    BY <1>3 DEF From
  <2> QED
    BY <2>2, <2>3, <2>4
<1> QED
  BY <1>1, <1>2, <1>3

\* Two identities or more are those of two accounts.
LEMMA TwoIdentities ==
  ASSUME NEW S \in SUBSET DOMAIN Event, Cardinality(Identities(Reports(S), S)) >= 2
  PROVE  \E d, e \in S : TwoAccounts(d, e, S)
<1> DEFINE known == Identities(Reports(S), S)
<1>1. known # {}
  BY FS_EmptySet
<1>2. PICK e \in Reports(S) : TRUE
  BY <1>1 DEF Identities
<1>3. known # {Identity(e, S)}
  <2>1. Cardinality({Identity(e, S)}) = 1
    BY FS_Singleton
  <2>2. Cardinality(known) >= 2
    OBVIOUS
  <2> HIDE DEF known
  <2> QED
    BY <2>1, <2>2
<1>4. PICK d \in Reports(S) : Identity(d, S) # Identity(e, S)
  BY <1>2, <1>3 DEF Identities
<1>5. d # e /\ d \in S /\ e \in S
  BY <1>4 DEF Reports
<1>6. Event[d].text # Event[e].text
  BY <1>5, ReportsDiffer
<1>7. \A x, y \in S :
        Event[x].publisher = Event[y].publisher => Event[x].owner = Event[y].owner
  BY EventAssumption
<1>8. /\ \/ \E x \in S : Event[x].publisher = From(d) /\ Identity(d, S) = Event[x].owner
         \/ Identity(d, S) = From(d) /\ \A x \in S : Event[x].publisher # From(d)
      /\ \/ \E x \in S : Event[x].publisher = From(e) /\ Identity(e, S) = Event[x].owner
         \/ Identity(e, S) = From(e) /\ \A x \in S : Event[x].publisher # From(e)
  BY <1>5, IdentityOf
<1>9. From(d) # From(e)
  BY <1>4, <1>7, <1>8
<1>10. ASSUME NEW x \in S, NEW y \in S, Event[x].publisher = From(d), Event[y].publisher = From(e)
       PROVE  Event[x].owner # Event[y].owner
  <2>1. Identity(d, S) = Event[x].owner
    BY <1>7, <1>8, <1>10
  <2>2. Identity(e, S) = Event[y].owner
    BY <1>7, <1>8, <1>10
  <2> QED
    BY <1>4, <2>1, <2>2
<1> QED
  BY <1>5, <1>6, <1>9, <1>10 DEF TwoAccounts

\* What is left of a cluster stands uncorrected, or was reinstated.
LEMMA ActionStands ==
  ASSUME NEW C \in SUBSET DOMAIN Event, NEW read, NEW e \in Action(C, read)
  PROVE  /\ e \in C /\ Event[e].status # "rumour"
         /\ (\A d \in C \ {e} : Event[d].revises # e) \/ Reinstated(e, C)
<1> DEFINE standing == {x \in C : \A d \in C \ {x} : Event[d].revises # x}
<1>1. e \in Active(C, read) /\ Event[e].status # "rumour"
  BY DEF Action
<1>2. CASE standing # {}
  BY <1>1, <1>2 DEF Active
<1>3. CASE standing = {}
  <2>1. e \in Newest(C, read)
    BY <1>1, <1>3 DEF Active
  <2>2. \A c \in C : Event[c].revision \in Nat
    BY EventAssumption
  <2>3. \A c \in C : Event[c].revision <= Event[e].revision
    BY <2>1, <2>2 DEF Newest, Newer
  <2>4. \A c \in C : \E d \in C \ {c} : Event[d].revises = c
    BY <1>3
  <2> QED
    BY <1>1, <2>1, <2>3, <2>4 DEF Newest, Reinstated
<1> QED
  BY <1>2, <1>3

(* Whatever a read returned, what counts is no rumour, was not corrected or has
   the last word of corrections that go round, and what counts of a story rests
   on an authoritative source or on two accounts, as far as the reports that
   count tell them apart.                                                    *)
THEOREM WhatCountsIsCorroborated == Spec => CorroboratedOnly
<1> DEFINE Sound(seen, counted) ==
      /\ counted \subseteq seen
      /\ \A C \in Clusters(seen) :
           /\ \A e \in C \cap counted :
                /\ Event[e].status # "rumour"
                /\ \/ \A d \in seen \ {e} : Event[d].revises # e
                   \/ Reinstated(e, C)
           /\ C \cap counted # {} =>
                \/ \E e \in C \cap counted : Authoritative(e)
                \/ \E d, e \in C \cap counted : TwoAccounts(d, e, C \cap counted)
<1>1. ASSUME NEW read, NEW seen \in SUBSET DOMAIN Event
      PROVE  Sound(seen, Counted(Clusters(seen), read))
  <2> DEFINE counted == Counted(Clusters(seen), read)
  <2>1. \A C \in Clusters(seen) :
           /\ C \in SUBSET seen /\ C \in SUBSET DOMAIN Event
           /\ \A c \in C, d \in seen \ C : ~Joined(c, d)
    BY DEF Clusters
  <2>2. \A e \in counted : \E C \in Clusters(seen) : Actionable(C, read) /\ e \in Action(C, read)
    BY DEF Counted
  <2>3. counted \subseteq seen
    BY <2>1, <2>2, ActionWithin
  <2>4. ASSUME NEW C \in Clusters(seen), C \cap counted # {}
        PROVE  C \cap counted = Action(C, read) /\ Actionable(C, read)
    <3>1. ASSUME NEW x \in C \cap counted
          PROVE  Actionable(C, read) /\ x \in Action(C, read)
      <4>1. PICK D \in Clusters(seen) : Actionable(D, read) /\ x \in Action(D, read)
        BY <2>2
      <4>2. x \in C \cap D
        BY <4>1, ActionWithin
      <4>3. C = D
        BY <4>2, ClustersApart
      <4> QED
        BY <4>1, <4>3
    <3>2. Actionable(C, read)
      BY <2>4, <3>1
    <3>3. Action(C, read) \subseteq C \cap counted
      BY <3>2, ActionWithin DEF Counted
    <3> QED
      BY <3>1, <3>2, <3>3
  <2>5. ASSUME NEW C \in Clusters(seen), NEW e \in C \cap counted
        PROVE  /\ Event[e].status # "rumour"
               /\ \/ \A d \in seen \ {e} : Event[d].revises # e
                  \/ Reinstated(e, C)
    <3>1. e \in Action(C, read)
      BY <2>4
    <3>2. /\ Event[e].status # "rumour"
          /\ (\A d \in C \ {e} : Event[d].revises # e) \/ Reinstated(e, C)
      BY <2>1, <3>1, ActionStands
    <3>3. ASSUME NEW d \in seen \ {e}, Event[d].revises = e PROVE d \in C
      <4>1. Joined(e, d)
        BY <3>3 DEF Joined
      <4> QED
        BY <2>1, <4>1
    <3> QED
      BY <3>2, <3>3
  <2>6. ASSUME NEW C \in Clusters(seen), C \cap counted # {}
        PROVE  \/ \E e \in C \cap counted : Authoritative(e)
               \/ \E d, e \in C \cap counted : TwoAccounts(d, e, C \cap counted)
    <3> DEFINE S == Action(C, read)
    <3>1. S = C \cap counted /\ S \in SUBSET DOMAIN Event
      BY <2>1, <2>4, <2>6
    <3>2. \/ \E e \in S : Authoritative(e)
          \/ Cardinality(Identities(Reports(S), S)) >= 2
      BY <2>4, <2>6 DEF Actionable
    <3> HIDE DEF S
    <3>3. Cardinality(Identities(Reports(S), S)) >= 2 => \E d, e \in S : TwoAccounts(d, e, S)
      BY <3>1, TwoIdentities
    <3> QED
      BY <3>1, <3>2, <3>3
  <2> QED
    BY <2>3, <2>5, <2>6
<1>2. ASSUME NEW seen PROVE Sound(seen, {})
  OBVIOUS
<1> DEFINE Kept == pc = "cutoff" => Sound(Visible(evidence, cutoff'), packet'.counted)
<1>3. PathInv /\ [Next]_vars => [Kept]_vars
  <2> SUFFICES ASSUME PathInv, Next, pc = "cutoff"
               PROVE  Sound(Visible(evidence, cutoff'), packet'.counted)
    OBVIOUS
  <2>1. Visible(evidence, clock) \in SUBSET DOMAIN Event
    BY DEF PathInv, TypeOK, Visible
  <2>2. \/ packet'.counted = {}
        \/ /\ cutoff' = clock
           /\ packet'.counted = Counted(Clusters(Visible(evidence, clock)), evidence)
    BY CountedAtCutoff
  <2> HIDE DEF Sound
  <2> QED
    BY <1>1, <1>2, <2>1, <2>2
<1>4. [Kept]_vars => [pc = "cutoff" =>
       LET seen == Visible(evidence, cutoff')
           counted == packet'.counted
       IN  /\ counted \subseteq seen
           /\ \A C \in Clusters(seen) :
                /\ \A e \in C \cap counted :
                     /\ Event[e].status # "rumour"
                     /\ \/ \A d \in seen \ {e} : Event[d].revises # e
                        \/ Reinstated(e, C)
                /\ C \cap counted # {} =>
                     \/ \E e \in C \cap counted : Authoritative(e)
                     \/ \E d, e \in C \cap counted : TwoAccounts(d, e, C \cap counted)]_vars
  OBVIOUS
<1> QED
  BY PathInvariant, <1>3, <1>4, PTL DEF Spec, CorroboratedOnly
=============================================================================
