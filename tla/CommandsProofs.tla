--------------------------- MODULE CommandsProofs ---------------------------
(***************************************************************************)
(* Payments driven from the command line, for any requests, coins, limits   *)
(* and fees: what the selection of coins takes, and what the two wallets    *)
(* sign, prove and refuse.                                                  *)
(***************************************************************************)
EXTENDS Commands, FiniteSetTheorems, SequenceTheorems, WellFoundedInduction, TLAPS

(* Sums.  What a recursive function computes is shown for every index by    *)
(* induction over a set of numbers: one that has 0 and every successor.     *)

\* A set of numbers has a least one.
LEMMA LeastNumber ==
  ASSUME NEW T \in SUBSET Nat, T # {}
  PROVE  \E x \in T : \A y \in T : x <= y
  <1> DEFINE R == {ss \in Nat \X Nat : ss[1] < ss[2]}
  <1>1. OpToRel(<, Nat) = R
    BY SMT DEF OpToRel
  <1>2. \E x \in T : \A y \in T : ~ (<<y, x>> \in R)
    <2> HIDE DEF R
    <2>1. IsWellFoundedOn(R, Nat)
      BY <1>1, NatLessThanWellFounded
    <2>2. QED
      BY <2>1, WFMin
  <1>3. PICK x \in T : \A y \in T : ~ (<<y, x>> \in R)
    BY <1>2
  <1>4. ASSUME NEW y \in T, ~ (x <= y) PROVE FALSE
    <2>1. x \in Nat /\ y \in Nat
      OBVIOUS
    <2>2. <<y, x>> \in R
      BY <1>4, <2>1
    <2>3. QED
      BY <1>3, <2>2, Zenon
  <1>5. QED
    BY <1>4

\* A set of naturals that is closed under successor contains all of them.
LEMMA SetInduction ==
  ASSUME NEW S, 0 \in S, \A n \in Nat : n \in S => n + 1 \in S
  PROVE  \A n \in Nat : n \in S
  <1> SUFFICES ASSUME NEW m \in Nat, m \notin S PROVE FALSE
    OBVIOUS
  <1> DEFINE T == {n \in Nat : n \notin S}
  <1>1. T \in SUBSET Nat /\ T # {}
    OBVIOUS
  <1>2. PICK x \in T : \A y \in T : x <= y
    <2> HIDE DEF T
    <2>1. QED
      BY <1>1, LeastNumber
  <1>3. x \in Nat /\ x \notin S /\ x # 0
    OBVIOUS
  <1>4. x - 1 \in Nat /\ (x - 1) + 1 = x /\ ~ (x <= x - 1)
    BY <1>3
  <1>5. x - 1 \notin T
    BY <1>2, <1>4
  <1>6. QED
    BY <1>3, <1>4, <1>5

\* The running total of the coins at the indexes I.
Step(c, I, i) == IF i \in I THEN c[i] ELSE 0
IsUpTo(f, c, I, k) ==
  /\ f[0] = 0
  /\ \A i \in 1 .. k : f[i] = f[i - 1] + Step(c, I, i)
  /\ f = [i \in 0 .. k |-> f[i]]

\* There is one for every number of coins.
LEMMA UpToExists ==
  ASSUME NEW c, NEW I, NEW k \in Nat
  PROVE  \E f : IsUpTo(f, c, I, k)
  <1> DEFINE S == {n \in Nat : \E f : IsUpTo(f, c, I, n)}
  <1>1. 0 \in S
    <2>1. IsUpTo([i \in 0 .. 0 |-> 0], c, I, 0)
      BY DEF IsUpTo
    <2>2. QED
      BY <2>1
  <1>2. ASSUME NEW n \in Nat, n \in S PROVE n + 1 \in S
    <2>1. PICK f : IsUpTo(f, c, I, n)
      BY <1>2
    <2> DEFINE g == [i \in 0 .. (n + 1) |-> IF i = n + 1 THEN f[n] + Step(c, I, n + 1) ELSE f[i]]
    <2>2. g[n + 1] = f[n] + Step(c, I, n + 1) /\ \A i \in 0 .. n : g[i] = f[i]
      OBVIOUS
    <2>3. g = [i \in 0 .. (n + 1) |-> g[i]]
      OBVIOUS
    <2>4. \A i \in 1 .. (n + 1) : g[i] = g[i - 1] + Step(c, I, i)
      <3> HIDE DEF g
      <3>1. SUFFICES ASSUME NEW i \in 1 .. (n + 1)
                     PROVE  g[i] = g[i - 1] + Step(c, I, i)
        OBVIOUS
      <3>2. CASE i = n + 1
        BY <2>2, <3>2
      <3>3. CASE i # n + 1
        <4>1. i \in 1 .. n /\ i - 1 \in 0 .. n /\ i \in 0 .. n
          BY <3>3
        <4>2. f[i] = f[i - 1] + Step(c, I, i)
          BY <2>1, <4>1 DEF IsUpTo
        <4>3. QED
          BY <2>2, <4>1, <4>2
      <3>4. QED
        BY <3>2, <3>3
    <2>5. g[0] = 0
      <3> HIDE DEF g
      <3>1. QED
        BY <2>1, <2>2 DEF IsUpTo
    <2>6. IsUpTo(g, c, I, n + 1)
      <3> HIDE DEF g
      <3>1. QED
        BY <2>3, <2>4, <2>5 DEF IsUpTo
    <2>7. QED
      BY <2>6
  <1>3. \A n \in Nat : n \in S
    <2> HIDE DEF S
    <2>1. QED
      BY <1>1, <1>2, SetInduction
  <1>4. QED
    BY <1>3

\* SumOf is the last of the running totals.
UpTo(c, I) == CHOOSE f : f = [i \in 0 .. Len(c) |-> IF i = 0 THEN 0 ELSE f[i - 1] + Step(c, I, i)]

\* The sum is the last running total, and each running total adds one coin to
\* the one before it.
LEMMA UpToIs ==
  ASSUME NEW c \in Seq(Nat), NEW I
  PROVE  /\ SumOf(c, I) = UpTo(c, I)[Len(c)]
         /\ UpTo(c, I)[0] = 0
         /\ \A i \in 1 .. Len(c) : UpTo(c, I)[i] = UpTo(c, I)[i - 1] + Step(c, I, i)
  <1>1. PICK f : IsUpTo(f, c, I, Len(c))
    <2>1. Len(c) \in Nat
      OBVIOUS
    <2>2. QED
      BY <2>1, UpToExists, Zenon
  <1>2. f = [i \in 0 .. Len(c) |-> IF i = 0 THEN 0 ELSE f[i - 1] + Step(c, I, i)]
    <2>1. \A i \in 0 .. Len(c) : f[i] = IF i = 0 THEN 0 ELSE f[i - 1] + Step(c, I, i)
      <3>1. SUFFICES ASSUME NEW i \in 0 .. Len(c)
                     PROVE  f[i] = IF i = 0 THEN 0 ELSE f[i - 1] + Step(c, I, i)
        OBVIOUS
      <3>2. CASE i = 0
        BY <1>1, <3>2 DEF IsUpTo
      <3>3. CASE i # 0
        <4>1. i \in 1 .. Len(c)
          BY <3>3
        <4>2. f[i] = f[i - 1] + Step(c, I, i)
          BY <1>1, <4>1 DEF IsUpTo
        <4>3. QED
          BY <3>3, <4>2, Zenon
      <3>4. QED
        BY <3>2, <3>3
    <2>2. f = [i \in 0 .. Len(c) |-> f[i]]
      BY <1>1, Zenon DEF IsUpTo
    <2>3. QED
      BY <2>1, <2>2, Zenon
  <1> DEFINE u == UpTo(c, I)
  <1>3. u = [i \in 0 .. Len(c) |-> IF i = 0 THEN 0 ELSE u[i - 1] + Step(c, I, i)]
    BY <1>2, Zenon DEF UpTo
  <1>4. u[0] = 0 /\ \A i \in 1 .. Len(c) : u[i] = u[i - 1] + Step(c, I, i)
    <2> HIDE DEF u
    <2>1. \A i \in 0 .. Len(c) : u[i] = IF i = 0 THEN 0 ELSE u[i - 1] + Step(c, I, i)
      BY <1>3, Zenon
    <2>2. QED
      BY <2>1
  <1>5. SumOf(c, I) = u[Len(c)]
    BY DEF SumOf, UpTo, Step
  <1>6. QED
    BY <1>4, <1>5

\* The running totals are numbers.
LEMMA UpToNat ==
  ASSUME NEW c \in Seq(Nat), NEW I
  PROVE  \A i \in 0 .. Len(c) : UpTo(c, I)[i] \in Nat
  <1> DEFINE u == UpTo(c, I)
             S == {n \in Nat : n <= Len(c) => u[n] \in Nat}
  <1>1. 0 \in S
    BY UpToIs
  <1>2. ASSUME NEW n \in Nat, n \in S PROVE n + 1 \in S
    <2>1. SUFFICES ASSUME n + 1 <= Len(c) PROVE u[n + 1] \in Nat
      OBVIOUS
    <2>2. n + 1 \in 1 .. Len(c) /\ (n + 1) - 1 = n /\ n <= Len(c)
      BY <2>1
    <2>3. u[n + 1] = u[n] + Step(c, I, n + 1)
      BY <2>2, UpToIs
    <2>4. Step(c, I, n + 1) \in Nat
      BY <2>2 DEF Step
    <2>5. QED
      BY <1>2, <2>2, <2>3, <2>4
  <1>3. \A n \in Nat : n \in S
    <2> HIDE DEF S
    <2>1. QED
      BY <1>1, <1>2, SetInduction
  <1>4. QED
    BY <1>3

\* The total of coins is a number.
LEMMA SumNat ==
  ASSUME NEW c \in Seq(Nat), NEW I
  PROVE  SumOf(c, I) \in Nat
  <1>1. Len(c) \in 0 .. Len(c)
    OBVIOUS
  <1>2. QED
    BY <1>1, UpToIs, UpToNat

\* More coins are worth no less.
LEMMA SumMono ==
  ASSUME NEW c \in Seq(Nat), NEW I, NEW J, \A i \in 1 .. Len(c) : i \in I => i \in J
  PROVE  SumOf(c, I) <= SumOf(c, J)
  <1> DEFINE u == UpTo(c, I)
             v == UpTo(c, J)
             S == {n \in Nat : n <= Len(c) => u[n] <= v[n]}
  <1>1. 0 \in S
    BY UpToIs
  <1>2. ASSUME NEW n \in Nat, n \in S PROVE n + 1 \in S
    <2>1. SUFFICES ASSUME n + 1 <= Len(c) PROVE u[n + 1] <= v[n + 1]
      OBVIOUS
    <2>2. n + 1 \in 1 .. Len(c) /\ (n + 1) - 1 = n /\ n \in 0 .. Len(c)
      BY <2>1
    <2>3. u[n + 1] = u[n] + Step(c, I, n + 1) /\ v[n + 1] = v[n] + Step(c, J, n + 1)
      BY <2>2, UpToIs
    <2>4. /\ Step(c, I, n + 1) \in Nat /\ Step(c, J, n + 1) \in Nat
          /\ Step(c, I, n + 1) <= Step(c, J, n + 1)
      BY <2>2 DEF Step
    <2>5. u[n] \in Nat /\ v[n] \in Nat /\ u[n] <= v[n]
      BY <1>2, <2>2, UpToNat
    <2>6. QED
      BY <2>3, <2>4, <2>5
  <1>3. \A n \in Nat : n \in S
    <2> HIDE DEF S
    <2>1. QED
      BY <1>1, <1>2, SetInduction
  <1>4. Len(c) \in Nat
    OBVIOUS
  <1>5. u[Len(c)] <= v[Len(c)]
    BY <1>3, <1>4
  <1>6. QED
    BY <1>5, UpToIs

\* The first m coins are worth the running total of all coins at m.
LEMMA PrefixSum ==
  ASSUME NEW c \in Seq(Nat), NEW m \in 0 .. Len(c)
  PROVE  SumOf(c, 1 .. m) = UpTo(c, 1 .. Len(c))[m]
  <1> DEFINE u == UpTo(c, 1 .. m)
             v == UpTo(c, 1 .. Len(c))
             S == {n \in Nat : n <= Len(c) => u[n] = v[IF n <= m THEN n ELSE m]}
  <1>1. 0 \in S
    BY UpToIs
  <1>2. ASSUME NEW n \in Nat, n \in S PROVE n + 1 \in S
    <2>1. SUFFICES ASSUME n + 1 <= Len(c)
                   PROVE  u[n + 1] = v[IF n + 1 <= m THEN n + 1 ELSE m]
      OBVIOUS
    <2>2. n + 1 \in 1 .. Len(c) /\ (n + 1) - 1 = n /\ n \in 0 .. Len(c)
      BY <2>1
    <2>3. u[n + 1] = u[n] + Step(c, 1 .. m, n + 1) /\ v[n + 1] = v[n] + Step(c, 1 .. Len(c), n + 1)
      BY <2>2, UpToIs
    <2>4. u[n] \in Nat /\ v[n] \in Nat
      BY <2>2, UpToNat
    <2>5. CASE n + 1 <= m
      <3>1. Step(c, 1 .. m, n + 1) = c[n + 1] /\ Step(c, 1 .. Len(c), n + 1) = c[n + 1]
        BY <2>2, <2>5 DEF Step
      <3>2. u[n] = v[n]
        BY <1>2, <2>2, <2>5
      <3>3. QED
        BY <2>3, <2>5, <3>1, <3>2
    <2>6. CASE ~ (n + 1 <= m)
      <3>1. Step(c, 1 .. m, n + 1) = 0
        BY <2>2, <2>6 DEF Step
      <3>2. u[n] = v[m]
        <4>1. CASE n = m
          BY <1>2, <2>2, <4>1
        <4>2. CASE n # m
          <5>1. ~ (n <= m)
            BY <2>6, <4>2
          <5>2. QED
            BY <1>2, <2>2, <5>1
        <4>3. QED
          BY <4>1, <4>2
      <3>3. QED
        BY <2>3, <2>4, <2>6, <3>1, <3>2
    <2>7. QED
      BY <2>5, <2>6
  <1>3. \A n \in Nat : n \in S
    <2> HIDE DEF S
    <2>1. QED
      BY <1>1, <1>2, SetInduction
  <1>4. Len(c) \in Nat
    OBVIOUS
  <1>5. u[Len(c)] = v[m]
    <2>1. CASE Len(c) = m
      BY <1>3, <1>4, <2>1
    <2>2. CASE Len(c) # m
      <3>1. ~ (Len(c) <= m)
        BY <2>2
      <3>2. QED
        BY <1>3, <1>4, <3>1
    <2>3. QED
      BY <2>1, <2>2
  <1>6. QED
    BY <1>5, UpToIs

\* Of coins in ascending order, the first ones are the cheapest choice of their number.
Ascending(c) == \A i, j \in DOMAIN c : i <= j => c[i] <= c[j]

Below(J, n) == {j \in J : j <= n}

\* The members of a set of indexes up to n + 1 are those up to n, with n + 1 when
\* it is one; past the largest, they are all of them.
LEMMA BelowStep ==
  ASSUME NEW J, \A j \in J : j \in Nat /\ 1 <= j
  PROVE  /\ Below(J, 0) = {}
         /\ \A n \in Nat :
              /\ n + 1 \in J => /\ Below(J, n + 1) = Below(J, n) \cup {n + 1}
                               /\ n + 1 \notin Below(J, n)
              /\ n + 1 \notin J => Below(J, n + 1) = Below(J, n)
              /\ (\A j \in J : j <= n) => Below(J, n) = J
  <1>1. Below(J, 0) = {}
    BY DEF Below
  <1>2. ASSUME NEW n \in Nat, n + 1 \in J
        PROVE  Below(J, n + 1) = Below(J, n) \cup {n + 1} /\ n + 1 \notin Below(J, n)
    BY <1>2 DEF Below
  <1>3. ASSUME NEW n \in Nat, n + 1 \notin J
        PROVE  Below(J, n + 1) = Below(J, n)
    BY <1>3 DEF Below
  <1>4. ASSUME NEW n \in Nat, \A j \in J : j <= n
        PROVE  Below(J, n) = J
    BY <1>4 DEF Below
  <1>5. QED
    BY <1>1, <1>2, <1>3, <1>4

CheapUpTo(c, J, n) ==
  /\ IsFiniteSet(Below(J, n)) /\ Cardinality(Below(J, n)) \in 0 .. n
  /\ UpTo(c, 1 .. Len(c))[Cardinality(Below(J, n))] <= UpTo(c, J)[n]

\* Of coins in ascending order, no choice of as many is worth less than the first
\* ones: what the "smallest" strategy relies on.
LEMMA FirstAreLeast ==
  ASSUME NEW c \in Seq(Nat), Ascending(c), NEW J \in SUBSET (1 .. Len(c))
  PROVE  /\ IsFiniteSet(J) /\ Cardinality(J) \in 0 .. Len(c)
         /\ SumOf(c, 1 .. Cardinality(J)) <= SumOf(c, J)
  <1> DEFINE all == UpTo(c, 1 .. Len(c))
             u == UpTo(c, J)
             S == {n \in Nat : n <= Len(c) => CheapUpTo(c, J, n)}
  <1>0. \A j \in J : j \in Nat /\ 1 <= j /\ j <= Len(c)
    <2>1. \A j \in J : j \in 1 .. Len(c)
      BY Zenon
    <2>2. QED
      BY <2>1
  <1>1. 0 \in S
    <2>1. Below(J, 0) = {}
      BY <1>0, BelowStep
    <2>2. IsFiniteSet(Below(J, 0)) /\ Cardinality(Below(J, 0)) = 0
      BY <2>1, FS_EmptySet
    <2>3. all[0] = 0 /\ u[0] = 0
      BY UpToIs
    <2>4. CheapUpTo(c, J, 0)
      BY <2>2, <2>3 DEF CheapUpTo
    <2>5. QED
      BY <2>4
  <1>2. ASSUME NEW n \in Nat, n \in S PROVE n + 1 \in S
    <2>1. SUFFICES ASSUME n + 1 <= Len(c) PROVE CheapUpTo(c, J, n + 1)
      OBVIOUS
    <2>2. n + 1 \in 1 .. Len(c) /\ (n + 1) - 1 = n /\ n \in 0 .. Len(c)
      BY <2>1
    <2> DEFINE k == Cardinality(Below(J, n))
    <2>3. IsFiniteSet(Below(J, n)) /\ k \in 0 .. n /\ all[k] <= u[n]
      BY <1>2, <2>2 DEF CheapUpTo
    <2>4. u[n + 1] = u[n] + Step(c, J, n + 1) /\ u[n] \in Nat
      BY <2>2, UpToIs, UpToNat
    <2>5. CASE n + 1 \in J
      <3>1. Below(J, n + 1) = Below(J, n) \cup {n + 1} /\ n + 1 \notin Below(J, n)
        BY <1>0, <2>5, BelowStep, Zenon
      <3>2. IsFiniteSet(Below(J, n + 1)) /\ Cardinality(Below(J, n + 1)) = k + 1
        BY <2>3, <3>1, FS_AddElement
      <3> HIDE DEF k
      <3>4. k + 1 \in 1 .. Len(c) /\ k + 1 <= n + 1 /\ (k + 1) - 1 = k /\ k \in 0 .. Len(c)
        BY <2>2, <2>3
      <3>5. c[k + 1] <= c[n + 1] /\ c[k + 1] \in Nat /\ c[n + 1] \in Nat
        BY <2>2, <3>4 DEF Ascending
      <3>6. all[k + 1] = all[k] + c[k + 1] /\ all[k] \in Nat
        <4>1. all[k + 1] = all[k] + Step(c, 1 .. Len(c), k + 1)
          BY <3>4, UpToIs
        <4>2. Step(c, 1 .. Len(c), k + 1) = c[k + 1]
          BY <3>4 DEF Step
        <4>3. QED
          BY <3>4, <4>1, <4>2, UpToNat
      <3>7. u[n + 1] = u[n] + c[n + 1]
        BY <2>4, <2>5 DEF Step
      <3>8. all[k + 1] <= u[n + 1]
        <4>1. ASSUME NEW a \in Nat, NEW b \in Nat, NEW x \in Nat, NEW y \in Nat, a <= b, x <= y
              PROVE  a + x <= b + y
          BY <4>1
        <4>2. QED
          BY <2>3, <2>4, <3>5, <3>6, <3>7, <4>1
      <3>9. k + 1 \in 0 .. (n + 1)
        BY <2>3
      <3>10. QED
        BY <3>2, <3>8, <3>9 DEF CheapUpTo
    <2>6. CASE n + 1 \notin J
      <3>1. Below(J, n + 1) = Below(J, n)
        BY <1>0, <2>6, BelowStep, Zenon
      <3>2. u[n + 1] = u[n]
        BY <2>4, <2>6 DEF Step
      <3>3. k \in 0 .. (n + 1)
        BY <2>3
      <3>4. QED
        BY <2>3, <3>1, <3>2, <3>3 DEF CheapUpTo
    <2>7. QED
      BY <2>5, <2>6
  <1>3. \A n \in Nat : n \in S
    <2> HIDE DEF S
    <2>1. QED
      BY <1>1, <1>2, SetInduction
  <1>4. Len(c) \in Nat /\ Below(J, Len(c)) = J
    <2>1. Len(c) \in Nat
      OBVIOUS
    <2>2. QED
      BY <1>0, <2>1, BelowStep, Zenon
  <1>5. IsFiniteSet(J) /\ Cardinality(J) \in 0 .. Len(c) /\ all[Cardinality(J)] <= u[Len(c)]
    <2>1. Len(c) \in S
      BY <1>3, <1>4
    <2>2. QED
      BY <1>4, <2>1 DEF CheapUpTo
  <1>6. QED
    BY <1>5, UpToIs, PrefixSum

-----------------------------------------------------------------------------
(* Coin selection *)

\* A choice of coins: indexes of coins, none twice.
CoinChoices(c) == {r \in Seq(1 .. Len(c)) : IsInjective(r)}

\* A set of numbers that has, with each of its elements, all smaller ones is an interval.
LEMMA DownSet ==
  ASSUME NEW L \in Nat, NEW T \in SUBSET (1 .. L),
         \A i \in T : \A j \in 1 .. L : j <= i => j \in T
  PROVE  Cardinality(T) \in 0 .. L /\ T = 1 .. Cardinality(T)
  <1>1. CASE T = 1 .. L
    <2>1. Cardinality(1 .. L) = L
      BY FS_Interval
    <2>2. QED
      BY <1>1, <2>1
  <1>2. CASE T # 1 .. L
    <2> DEFINE M == (1 .. L) \ T
    <2>1. M \in SUBSET Nat /\ M # {}
      <3>1. M # {}
        BY <1>2, Zenon
      <3>2. M \in SUBSET Nat
        OBVIOUS
      <3>3. QED
        BY <3>1, <3>2
    <2>2. PICK x \in M : \A y \in M : x <= y
      <3> HIDE DEF M
      <3>1. QED
        BY <2>1, LeastNumber
    <2>3. x \in 1 .. L /\ x \notin T
      OBVIOUS
    <2>4. T = 1 .. (x - 1)
      <3>1. ASSUME NEW y \in T PROVE y \in 1 .. (x - 1)
        BY <2>3
      <3>2. ASSUME NEW y \in 1 .. (x - 1) PROVE y \in T
        BY <2>2, <2>3
      <3>3. QED
        BY <3>1, <3>2
    <2>5. Cardinality(1 .. (x - 1)) = x - 1
      BY <2>3, FS_Interval
    <2>6. QED
      BY <2>3, <2>4, <2>5
  <1>3. QED
    BY <1>1, <1>2

\* A choice has as many coins as it is long, and takes all coins when it is as long as
\* there are coins.
LEMMA ChoiceSize ==
  ASSUME NEW c \in Seq(Nat), NEW r \in CoinChoices(c)
  PROVE  /\ ToSet(r) \in SUBSET (1 .. Len(c))
         /\ IsFiniteSet(ToSet(r)) /\ Cardinality(ToSet(r)) = Len(r)
         /\ Len(r) \in 0 .. Len(c)
         /\ Len(r) = Len(c) => ToSet(r) = 1 .. Len(c)
  <1>1. r \in Seq(1 .. Len(c)) /\ DOMAIN r = 1 .. Len(r) /\ Len(r) \in Nat /\ Len(c) \in Nat
    BY DEF CoinChoices
  <1>2. ToSet(r) \in SUBSET (1 .. Len(c))
    BY <1>1 DEF ToSet
  <1>3. r \in Surjection(1 .. Len(r), ToSet(r)) /\ r \in Injection(1 .. Len(r), ToSet(r))
    <2>1. r \in [1 .. Len(r) -> ToSet(r)]
      BY <1>1 DEF ToSet
    <2>2. \A t \in ToSet(r) : \E s \in 1 .. Len(r) : r[s] = t
      BY <1>1 DEF ToSet
    <2>3. IsInjective(r)
      BY DEF CoinChoices
    <2>4. QED
      BY <2>1, <2>2, <2>3 DEF Surjection, Injection
  <1>4. IsFiniteSet(1 .. Len(r)) /\ Cardinality(1 .. Len(r)) = Len(r)
        /\ IsFiniteSet(1 .. Len(c)) /\ Cardinality(1 .. Len(c)) = Len(c)
    <2>1. ASSUME NEW n \in Nat PROVE IsFiniteSet(1 .. n) /\ Cardinality(1 .. n) = n
      <3>1. n \in Int /\ 1 \in Int
        OBVIOUS
      <3>2. /\ IsFiniteSet(1 .. n)
            /\ Cardinality(1 .. n) = IF 1 > n THEN 0 ELSE n - 1 + 1
        BY <3>1, FS_Interval
      <3>3. QED
        BY <3>2
    <2>2. QED
      BY <1>1, <2>1
  <1>5. IsFiniteSet(ToSet(r)) /\ Cardinality(ToSet(r)) = Len(r)
    BY <1>3, <1>4, FS_Surjection
  <1>6. Len(r) <= Len(c) /\ (Len(r) = Len(c) => ToSet(r) = 1 .. Len(c))
    BY <1>2, <1>4, <1>5, FS_Subset
  <1>7. QED
    BY <1>1, <1>2, <1>5, <1>6

\* A part of a choice is one.
LEMMA SubChoice ==
  ASSUME NEW c \in Seq(Nat), NEW r \in CoinChoices(c), NEW m \in Nat, NEW n \in Nat,
         1 <= m, n <= Len(r)
  PROVE  /\ SubSeq(r, m, n) \in CoinChoices(c)
         /\ m <= n + 1 => Len(SubSeq(r, m, n)) = n - m + 1
         /\ m = 1 => ToSet(SubSeq(r, m, n)) = {r[j] : j \in 1 .. n}
  <1>1. r \in Seq(1 .. Len(c)) /\ DOMAIN r = 1 .. Len(r) /\ Len(r) \in Nat
    BY DEF CoinChoices
  <1>a. \A i \in 1 .. (n - m + 1) : m + i - 1 \in 1 .. Len(r)
    BY <1>1
  <1> DEFINE t == SubSeq(r, m, n)
  <1>2. /\ t \in Seq(1 .. Len(c)) /\ DOMAIN t = 1 .. Len(t)
        /\ Len(t) = IF m <= n THEN n - m + 1 ELSE 0
        /\ \A i \in 1 .. Len(t) : t[i] = r[m + i - 1]
    <2>1. \A i \in m .. n : r[i] \in 1 .. Len(c)
      BY <1>1
    <2>2. /\ t \in Seq(1 .. Len(c))
          /\ Len(t) = IF m <= n THEN n - m + 1 ELSE 0
      BY <2>1, SubSeqProperties
    <2>3. \A i \in 1 .. (n - m + 1) : t[i] = r[m + i - 1]
      BY <2>1, SubSeqProperties
    <2>4. DOMAIN t = 1 .. Len(t) /\ Len(t) \in Nat
      BY <2>2
    <2>5. 1 .. Len(t) \subseteq 1 .. (n - m + 1)
      BY <2>2
    <2>6. QED
      BY <2>2, <2>3, <2>4, <2>5, Zenon
  <1>3. IsInjective(t)
    <2>1. ASSUME NEW i \in DOMAIN t, NEW j \in DOMAIN t, t[i] = t[j] PROVE i = j
      <3>1. /\ i \in 1 .. Len(t) /\ j \in 1 .. Len(t)
            /\ m + i - 1 \in DOMAIN r /\ m + j - 1 \in DOMAIN r
        <4>1. i \in 1 .. Len(t) /\ j \in 1 .. Len(t)
          BY <1>2, <2>1
        <4>2. Len(t) = n - m + 1
          BY <1>2, <4>1
        <4>3. QED
          BY <1>1, <1>a, <4>1, <4>2, Zenon
      <3>2. r[m + i - 1] = r[m + j - 1]
        BY <1>2, <2>1, <3>1
      <3>3. m + i - 1 = m + j - 1
        BY <3>1, <3>2 DEF CoinChoices, IsInjective
      <3>4. QED
        BY <3>1, <3>3
    <2>2. QED
      BY <2>1 DEF IsInjective
  <1>4. ASSUME m = 1 PROVE ToSet(t) = {r[j] : j \in 1 .. n}
    <2>1. Len(t) = n /\ \A i \in 1 .. n : t[i] = r[i]
      BY <1>2, <1>4
    <2>2. QED
      BY <1>2, <2>1 DEF ToSet
  <1>5. QED
    BY <1>2, <1>3, <1>4 DEF CoinChoices


\* An option holds what was put into it.
LEMMA Options ==
  \A x : IsSome(Some(x)) /\ Get(Some(x)) = x /\ Some(x) # None /\ ~ IsSome(None)
  BY DEF IsSome, Some, None, Get

\* select_from takes coins from outs until the amount is reached, and none if they cannot.
Covers(c, amount, useAll, outs, r) ==
  /\ r \in CoinChoices(c) /\ SumOf(c, ToSet(r)) >= amount
  /\ useAll => r = outs
  /\ ~ useAll => \A l \in Nat : l < Len(outs) /\ SumOf(c, {outs[j] : j \in 1 .. l}) < amount
                                  => l < Len(r)

\* select_from answers None exactly when the outputs it is given are worth too
\* little, and what it takes of them otherwise covers the amount.
LEMMA SelectFromIs ==
  ASSUME NEW c \in Seq(Nat), NEW amount \in Nat, NEW useAll \in BOOLEAN, NEW outs \in CoinChoices(c)
  PROVE  IF SumOf(c, ToSet(outs)) < amount THEN SelectFrom(c, amount, useAll, outs) = None
         ELSE \E r : SelectFrom(c, amount, useAll, outs) = Some(r) /\ Covers(c, amount, useAll, outs, r)
  <1> DEFINE before(i) == SumOf(c, {outs[j] : j \in 1 .. (i - 1)})
             T == {i \in DOMAIN outs : before(i) < amount}
             m == Cardinality(T)
  <1>1. /\ outs \in Seq(1 .. Len(c)) /\ DOMAIN outs = 1 .. Len(outs) /\ Len(outs) \in Nat
        /\ T \in SUBSET (1 .. Len(outs))
    BY DEF CoinChoices
  <1>2. CASE SumOf(c, ToSet(outs)) < amount
    BY <1>2 DEF SelectFrom
  <1>3. CASE ~ (SumOf(c, ToSet(outs)) < amount) /\ useAll
    <2>1. SelectFrom(c, amount, useAll, outs) = Some(outs)
      BY <1>3 DEF SelectFrom
    <2>2. SumOf(c, ToSet(outs)) >= amount
      BY <1>3, SumNat
    <2>3. QED
      BY <1>3, <2>1, <2>2 DEF Covers
  <1>4. CASE ~ (SumOf(c, ToSet(outs)) < amount) /\ ~ useAll
    <2> DEFINE r == SubSeq(outs, 1, m)
    <2>1. SelectFrom(c, amount, useAll, outs) = Some(r)
      BY <1>4 DEF SelectFrom
    <2>2. \A i \in T : \A j \in 1 .. Len(outs) : j <= i => j \in T
      <3>1. SUFFICES ASSUME NEW i \in T, NEW j \in 1 .. Len(outs), j <= i
                     PROVE  before(j) < amount
        BY <1>1
      <3>2. before(i) < amount /\ i \in 1 .. Len(outs)
        BY <1>1
      <3>3. {outs[k] : k \in 1 .. (j - 1)} \subseteq {outs[k] : k \in 1 .. (i - 1)}
        <4>1. \A k \in 1 .. (j - 1) : k \in 1 .. (i - 1)
          BY <3>1, <3>2
        <4>2. QED
          BY <4>1
      <3>4. before(j) <= before(i)
        BY <3>3, SumMono, Zenon
      <3>5. before(j) \in Nat /\ before(i) \in Nat
        BY SumNat
      <3> HIDE DEF before
      <3>6. QED
        BY <3>2, <3>4, <3>5
    <2>3. m \in 0 .. Len(outs) /\ T = 1 .. m
      <3> HIDE DEF T
      <3>1. QED
        BY <1>1, <2>2, DownSet
    <2> HIDE DEF m
    <2>4. r \in CoinChoices(c) /\ Len(r) = m /\ ToSet(r) = {outs[j] : j \in 1 .. m}
      <3>1. m \in Nat /\ 1 \in Nat /\ 1 <= 1 /\ m <= Len(outs) /\ 1 <= m + 1 /\ m - 1 + 1 = m
        BY <1>1, <2>3
      <3>2. QED
        BY <3>1, SubChoice
    <2> HIDE DEF r
    <2>5. SumOf(c, ToSet(r)) >= amount
      <3>1. CASE m = Len(outs)
        <4>1. ToSet(outs) = {outs[j] : j \in 1 .. m}
          BY <1>1, <3>1 DEF ToSet
        <4>2. SumOf(c, ToSet(outs)) \in Nat /\ ToSet(outs) = ToSet(r)
          BY <2>4, <4>1, SumNat
        <4>3. QED
          BY <1>4, <4>2
      <3>2. CASE m # Len(outs)
        <4>1. m + 1 \in 1 .. Len(outs) /\ m + 1 \notin T /\ (m + 1) - 1 = m
          <5>1. m + 1 \in 1 .. Len(outs) /\ (m + 1) - 1 = m /\ m + 1 \notin 1 .. m
            BY <2>3, <3>2
          <5>2. QED
            BY <2>3, <5>1, Zenon
        <4>2. ~ (before(m + 1) < amount)
          BY <1>1, <4>1
        <4>3. before(m + 1) = SumOf(c, {outs[j] : j \in 1 .. m})
          BY <4>1
        <4>4. before(m + 1) \in Nat /\ SumOf(c, ToSet(r)) = before(m + 1)
          BY <2>4, <4>3, SumNat
        <4>5. QED
          BY <4>2, <4>4
      <3>3. QED
        BY <3>1, <3>2
    <2>6. ASSUME NEW l \in Nat, l < Len(outs), SumOf(c, {outs[j] : j \in 1 .. l}) < amount
          PROVE  l < Len(r)
      <3>1. l + 1 \in DOMAIN outs /\ (l + 1) - 1 = l
        BY <1>1, <2>6
      <3>2. before(l + 1) < amount
        BY <2>6, <3>1
      <3>3. l + 1 \in T
        BY <3>1, <3>2
      <3>4. l + 1 \in 1 .. m
        BY <2>3, <3>3, Zenon
      <3>5. QED
        BY <2>3, <2>4, <3>4
    <2>7. QED
      BY <1>4, <2>1, <2>4, <2>5, <2>6 DEF Covers
  <1>5. QED
    BY <1>2, <1>3, <1>4

\* The list of all coins, in their order and reversed.
LEMMA AllCoins ==
  ASSUME NEW c \in Seq(Nat), NEW all, all = [i \in DOMAIN c |-> i]
  PROVE  /\ all \in CoinChoices(c) /\ Len(all) = Len(c) /\ ToSet(all) = 1 .. Len(c)
         /\ \A l \in 0 .. Len(c) : {all[j] : j \in 1 .. l} = 1 .. l
         /\ Reverse(all) \in CoinChoices(c) /\ Len(Reverse(all)) = Len(c)
  <1>1. Len(c) \in Nat /\ DOMAIN c = 1 .. Len(c)
    OBVIOUS
  <1>2. /\ all \in Seq(1 .. Len(c)) /\ Len(all) = Len(c) /\ DOMAIN all = 1 .. Len(c)
        /\ \A i \in 1 .. Len(c) : all[i] = i
    BY <1>1
  <1>3. all \in CoinChoices(c)
    BY <1>2 DEF CoinChoices, IsInjective
  <1>4. \A l \in 0 .. Len(c) : {all[j] : j \in 1 .. l} = 1 .. l
    BY <1>2
  <1>5. ToSet(all) = 1 .. Len(c)
    BY <1>2 DEF ToSet
  <1> DEFINE r == Reverse(all)
  <1>6. /\ r = [i \in 1 .. Len(c) |-> (Len(c) - i) + 1]
        /\ \A i \in 1 .. Len(c) : (Len(c) - i) + 1 \in 1 .. Len(c)
    BY <1>1, <1>2 DEF Reverse
  <1>7. /\ r \in Seq(1 .. Len(c)) /\ Len(r) = Len(c) /\ DOMAIN r = 1 .. Len(c)
        /\ \A i \in 1 .. Len(c) : r[i] = (Len(c) - i) + 1
    <2> HIDE DEF r
    <2>1. QED
      BY <1>1, <1>6
  <1>8. r \in CoinChoices(c)
    <2> HIDE DEF r
    <2>1. QED
      BY <1>1, <1>7 DEF CoinChoices, IsInjective
  <1>9. QED
    BY <1>2, <1>3, <1>4, <1>5, <1>7, <1>8

\* select_coins makes a choice that is worth the amount, unless all coins are not; and
\* with no limit on their number it takes more coins than any number that falls short.
LEMMA SelectCoinsIs ==
  ASSUME NEW c \in Seq(Nat), NEW amount \in Nat, NEW max \in Nat, NEW useAll \in BOOLEAN,
         NEW r, r = SelectCoins(c, amount, max, useAll)
  PROVE  /\ r \in CoinChoices(c)
         /\ SumOf(c, ToSet(r)) >= amount \/ SumOf(c, 1 .. Len(c)) < amount
         /\ Len(c) <= max =>
              \A l \in Nat : l < Len(c) /\ SumOf(c, 1 .. l) < amount => l < Len(r)
  <1> DEFINE all == [i \in DOMAIN c |-> i]
             window(i) == SubSeq(all, i, i + max - 1)
             enough == {i \in 1 .. (Len(c) - max + 1) : SumOf(c, ToSet(window(i))) >= amount}
             first == CHOOSE i \in enough : \A j \in enough : i <= j
             found == IF Len(c) <= max THEN SelectFrom(c, amount, useAll, all)
                      ELSE IF enough # {} THEN SelectFrom(c, amount, useAll, window(first))
                      ELSE SelectFrom(c, amount, FALSE, all)
             rest == SubSeq(Reverse(all), 1, IF max < Len(all) THEN max ELSE Len(all))
  <1>1. r = IF IsSome(found) THEN Get(found) ELSE rest
    BY DEF SelectCoins
  <1>2. /\ all \in CoinChoices(c) /\ Len(all) = Len(c) /\ ToSet(all) = 1 .. Len(c)
        /\ \A l \in 0 .. Len(c) : {all[j] : j \in 1 .. l} = 1 .. l
        /\ Reverse(all) \in CoinChoices(c) /\ Len(Reverse(all)) = Len(c) /\ Len(c) \in Nat
    BY AllCoins
  <1> HIDE DEF all
  <1>3. rest \in CoinChoices(c) /\ (Len(c) <= max => Len(rest) = Len(c))
    <2> DEFINE n == IF max < Len(all) THEN max ELSE Len(all)
    <2>1. n \in Nat /\ n <= Len(Reverse(all)) /\ 1 \in Nat /\ 1 <= n + 1 /\ n - 1 + 1 = n
      BY <1>2
    <2>2. Len(c) <= max => n = Len(c)
      BY <1>2
    <2> HIDE DEF n
    <2>3. SubSeq(Reverse(all), 1, n) \in CoinChoices(c) /\ Len(SubSeq(Reverse(all), 1, n)) = n
      BY <1>2, <2>1, SubChoice
    <2>4. QED
      BY <2>2, <2>3 DEF n
  <1>4. CASE Len(c) <= max
    <2>1. found = SelectFrom(c, amount, useAll, all)
      BY <1>4
    <2> HIDE DEF found, rest
    <2>2. CASE SumOf(c, ToSet(all)) < amount
      <3>1. found = None
        BY <1>2, <2>1, <2>2, SelectFromIs
      <3>2. r = rest
        BY <1>1, <3>1, Options
      <3>3. QED
        BY <1>2, <1>3, <1>4, <2>2, <3>2
    <2>3. CASE ~ (SumOf(c, ToSet(all)) < amount)
      <3>1. PICK x : found = Some(x) /\ Covers(c, amount, useAll, all, x)
        BY <1>2, <2>1, <2>3, SelectFromIs
      <3>4. r = x
        BY <1>1, <3>1, Options
      <3>2. ASSUME NEW l \in Nat, l < Len(c), SumOf(c, 1 .. l) < amount PROVE l < Len(r)
        <4>1. {all[j] : j \in 1 .. l} = 1 .. l
          <5>1. l \in 0 .. Len(c)
            BY <1>2, <3>2
          <5>2. QED
            BY <1>2, <5>1
        <4>2. CASE useAll
          BY <1>2, <3>1, <3>4, <3>2, <4>2 DEF Covers
        <4>3. CASE ~ useAll
          BY <1>2, <3>1, <3>4, <3>2, <4>1, <4>3 DEF Covers
        <4>4. QED
          BY <4>2, <4>3
      <3>3. QED
        BY <3>1, <3>4, <3>2 DEF Covers
    <2>4. QED
      BY <2>2, <2>3
  <1>5. CASE ~ (Len(c) <= max) /\ enough # {}
    <2>1. enough \in SUBSET Nat
      BY <1>2
    <2>2. first \in enough
      <3> HIDE DEF enough
      <3>1. \E x \in enough : \A y \in enough : x <= y
        BY <1>5, <2>1, LeastNumber
      <3>2. QED
        BY <3>1
    <2>3. first \in 1 .. (Len(c) - max + 1) /\ SumOf(c, ToSet(window(first))) >= amount
      <3> HIDE DEF first
      <3>1. QED
        BY <2>2
    <2> HIDE DEF first, enough
    <2>4. window(first) \in CoinChoices(c)
      <3>1. first \in Nat /\ 1 <= first /\ first + max - 1 \in Nat /\ first + max - 1 <= Len(all)
        BY <1>2, <2>3
      <3>2. QED
        BY <1>2, <3>1, SubChoice
    <2>5. found = SelectFrom(c, amount, useAll, window(first))
      BY <1>5
    <2>6. ~ (SumOf(c, ToSet(window(first))) < amount)
      <3> HIDE DEF window
      <3>1. QED
        BY <2>3, SumNat
    <2> HIDE DEF window, found, rest
    <2>7. r \in CoinChoices(c) /\ SumOf(c, ToSet(r)) >= amount
      <3>1. PICK x : found = Some(x) /\ Covers(c, amount, useAll, window(first), x)
        BY <2>4, <2>5, <2>6, SelectFromIs
      <3>2. QED
        BY <1>1, <3>1, Options DEF Covers
    <2>8. QED
      BY <1>5, <2>7
  <1>6. CASE ~ (Len(c) <= max) /\ enough = {}
    <2>1. found = SelectFrom(c, amount, FALSE, all)
      BY <1>6
    <2> HIDE DEF found, rest, enough
    <2>2. CASE SumOf(c, ToSet(all)) < amount
      <3>1. found = None
        BY <1>2, <2>1, <2>2, SelectFromIs
      <3>2. r = rest
        BY <1>1, <3>1, Options
      <3>3. QED
        BY <1>2, <1>3, <1>6, <2>2, <3>2
    <2>3. CASE ~ (SumOf(c, ToSet(all)) < amount)
      <3>1. r \in CoinChoices(c) /\ SumOf(c, ToSet(r)) >= amount
        <4>1. PICK x : found = Some(x) /\ Covers(c, amount, FALSE, all, x)
          BY <1>2, <2>1, <2>3, SelectFromIs
        <4>2. QED
          BY <1>1, <4>1, Options DEF Covers
      <3>2. QED
        BY <1>6, <3>1
    <2>4. QED
      BY <2>2, <2>3
  <1>7. QED
    BY <1>4, <1>5, <1>6

-----------------------------------------------------------------------------
(* Fees and change *)

\* A fee is a positive number that does not fall as outputs are added.
LEMMA FeeGrows ==
  ASSUME NEW i \in Nat, NEW k \in Nat, NEW m \in Nat, NEW n \in Nat, m <= n
  PROVE  TxFee(i, m, k) \in Nat /\ TxFee(i, n, k) \in Nat /\ TxFee(i, m, k) <= TxFee(i, n, k)
  <1> DEFINE w(o) == IF 4 * o + k - i < 1 THEN 1 ELSE 4 * o + k - i
  <1>1. w(m) \in Nat /\ w(n) - w(m) \in Nat /\ w(n) = w(m) + (w(n) - w(m))
    OBVIOUS
  <1>2. TxFee(i, m, k) = BaseFee * w(m) /\ TxFee(i, n, k) = BaseFee * w(n)
    BY DEF TxFee
  <1> HIDE DEF w
  <1>3. ASSUME NEW a \in Nat, NEW b \in Nat
        PROVE  BaseFee * a \in Nat /\ BaseFee * (a + b) = BaseFee * a + BaseFee * b
               /\ BaseFee * b \in Nat
    BY BaseFeeAssumption
  <1>4. BaseFee * w(n) = BaseFee * w(m) + BaseFee * (w(n) - w(m))
        /\ BaseFee * w(m) \in Nat /\ BaseFee * (w(n) - w(m)) \in Nat
    BY <1>1, <1>3
  <1>5. QED
    BY <1>2, <1>4

\* The total of one amount is that amount, that of no amount is 0.
LEMMA SumOfFew ==
  /\ SumSeq(<<>>) = 0
  /\ \A a \in Nat : SumSeq(<<a>>) = a
  <1>1. SumSeq(<<>>) = 0
    <2>1. <<>> \in Seq(Nat) /\ Len(<<>>) = 0
      OBVIOUS
    <2>2. SumOf(<<>>, DOMAIN <<>>) = UpTo(<<>>, DOMAIN <<>>)[0]
      BY <2>1, UpToIs
    <2>3. UpTo(<<>>, DOMAIN <<>>)[0] = 0
      BY <2>1, UpToIs
    <2>4. QED
      BY <2>2, <2>3 DEF SumSeq
  <1>2. ASSUME NEW a \in Nat PROVE SumSeq(<<a>>) = a
    <2> DEFINE c == <<a>>
               u == UpTo(c, DOMAIN c)
    <2>1. c \in Seq(Nat) /\ Len(c) = 1 /\ c[1] = a /\ DOMAIN c = 1 .. 1
      OBVIOUS
    <2> HIDE DEF c
    <2>2. SumOf(c, DOMAIN c) = u[1] /\ u[0] = 0 /\ u[1] = u[1 - 1] + Step(c, DOMAIN c, 1)
      <3>1. 1 \in 1 .. Len(c)
        BY <2>1
      <3>2. QED
        BY <2>1, <3>1, UpToIs
    <2>3. Step(c, DOMAIN c, 1) = a
      BY <2>1 DEF Step
    <2>4. u[1] = a
      <3> HIDE DEF u
      <3>1. QED
        BY <2>2, <2>3
    <2>5. QED
      BY <2>2, <2>4 DEF SumSeq, c
  <1>3. QED
    BY <1>1, <1>2

\* The change is split into the given number of amounts, or not at all if there is none,
\* and a single output takes all of it.
LEMMA ChangeIs ==
  ASSUME NEW change \in Nat, NEW n \in Nat
  PROVE  /\ ~ IsSome(ChangeAmounts(change, n)) => change # 0 /\ (n = 0 \/ change < n)
         /\ IsSome(ChangeAmounts(change, n)) =>
              /\ Get(ChangeAmounts(change, n)) \in Seq(Nat)
              /\ Len(Get(ChangeAmounts(change, n))) = IF change = 0 THEN 0 ELSE n
              /\ SplitsEvenly(change, n) <=> SumSeq(Get(ChangeAmounts(change, n))) = change
         /\ n = 1 => IsSome(ChangeAmounts(change, n)) /\ SplitsEvenly(change, n)
  <1>1. CASE change = 0
    <2>1. ChangeAmounts(change, n) = Some(<<>>)
      BY <1>1 DEF ChangeAmounts
    <2>2. IsSome(ChangeAmounts(change, n)) /\ Get(ChangeAmounts(change, n)) = <<>>
      BY <2>1, Options
    <2>3. SplitsEvenly(change, n) /\ SumSeq(<<>>) = change /\ <<>> \in Seq(Nat) /\ Len(<<>>) = 0
      BY <1>1, SumOfFew DEF SplitsEvenly
    <2>4. QED
      BY <1>1, <2>2, <2>3
  <1>2. CASE change # 0 /\ (n = 0 \/ change < n)
    <2>1. ChangeAmounts(change, n) = None
      BY <1>2 DEF ChangeAmounts
    <2>2. n # 1
      BY <1>2
    <2>3. QED
      BY <1>2, <2>1, <2>2, Options
  <1>3. CASE change # 0 /\ n # 0 /\ ~ (change < n)
    <2> DEFINE part == change \div n
               rest == change % part
               amounts == [i \in 1 .. n |-> IF i = n THEN part + rest ELSE part]
    <2>1. ChangeAmounts(change, n) = Some(amounts)
      BY <1>3 DEF ChangeAmounts
    <2>2. part \in Nat /\ part # 0
      BY <1>3
    <2>3. rest \in Nat
      <3> HIDE DEF part
      <3>1. QED
        BY <2>2
    <2>4. n = 1 => part + rest = change
      <3>1. ASSUME n = 1 PROVE part = change
        BY <3>1
      <3>2. change % change = 0
        BY <1>3
      <3>3. QED
        BY <3>1, <3>2
    <2> HIDE DEF part, rest
    <2>5. amounts \in Seq(Nat) /\ Len(amounts) = n
      BY <2>2, <2>3
    <2>6. ASSUME n = 1 PROVE SumSeq(amounts) = change
      <3>1. amounts = <<change>>
        BY <2>4, <2>6
      <3>2. QED
        BY <3>1, SumOfFew
    <2> HIDE DEF amounts
    <2>7. Get(ChangeAmounts(change, n)) = amounts /\ IsSome(ChangeAmounts(change, n))
      BY <2>1, Options
    <2>8. SplitsEvenly(change, n) <=> SumSeq(amounts) = change
      BY <1>3, <2>7 DEF SplitsEvenly
    <2>9. QED
      BY <1>3, <2>5, <2>6, <2>7, <2>8
  <1>4. QED
    BY <1>1, <1>2, <1>3


-----------------------------------------------------------------------------
(* What the two wallets make of a request q and a selection x *)

Outs(q)       == IF q.kind = "invoice" THEN 1 ELSE q.change
TotalOf(q, x) == SumOf(q.coins, ToSet(x.coins))
ChangeOf(q, x) == TotalOf(q, x) - q.amount - x.fee
Split(q, x)   == ChangeAmounts(ChangeOf(q, x), Outs(q))

\* The selection pays for the amount and a fee for at least as many outputs as it makes.
Affordable(q, x) ==
  /\ TotalOf(q, x) >= q.amount + x.fee
  /\ \/ x.fee = TxFee(Len(x.coins), Outs(q) + 1, 1)
     \/ x.fee = TxFee(Len(x.coins), 1, 1) /\ TotalOf(q, x) = q.amount + x.fee

\* The keys of payer and payee: the one who comes first takes out the offset.
Whole(ins, change, pay)  == [ins |-> ins, change |-> change, pay |-> pay, split |-> FALSE]
Parted(ins, change, pay) == [ins |-> ins, change |-> change, pay |-> pay, split |-> TRUE]
PayerFirst(q, x)  == Parted(ToSet(x.coins), Get(Split(q, x)), None)
PayerSecond(q, x) == Whole(ToSet(x.coins), Get(Split(q, x)), None)
PayeeFirst(q)     == Parted({}, <<>>, Some(q.amount))
PayeeSecond(q)    == Whole({}, <<>>, Some(q.amount))
SigOf(q, x, key, other) == [by |-> key, keys |-> {key, other}, msg |-> x.fee]

Elements(q, x, pay) ==
  [ins |-> ToSet(x.coins), change |-> Get(Split(q, x)), pay |-> pay, fee |-> x.fee, offset |-> TRUE]
Excess(q, x) ==
  [ins |-> ToSet(x.coins), change |-> Get(Split(q, x)), pay |-> Some(q.amount), fee |-> x.fee]

\* What a slate or a text carries in each round: a payment that was offered and answered,
\* an invoice that was issued and paid.
Carries(s, amount, fee, tx, parts) ==
  s.amount = amount /\ s.fee = fee /\ s.tx = tx /\ s.parts = parts
Offered(s, q, x) ==
  Carries(s, q.amount, x.fee, Elements(q, x, None),
          <<[id |-> 0, key |-> PayerFirst(q, x), sig |-> None]>>)
Answered(s, q, x) ==
  Carries(s, q.amount, x.fee, Elements(q, x, Some(q.amount)),
          <<[id |-> 0, key |-> PayerFirst(q, x), sig |-> None],
            [id |-> 1, key |-> PayeeSecond(q),
             sig |-> Some(SigOf(q, x, PayeeSecond(q), PayerFirst(q, x)))]>>)
Issued(s, q) ==
  Carries(s, q.amount, 0,
          [ins |-> {}, change |-> <<>>, pay |-> Some(q.amount), fee |-> 0, offset |-> TRUE],
          <<[id |-> 1, key |-> PayeeFirst(q), sig |-> None]>>)
PaidFor(s, q, x) ==
  Carries(s, q.amount, x.fee, Elements(q, x, Some(q.amount)),
          <<[id |-> 1, key |-> PayeeFirst(q), sig |-> None],
            [id |-> 0, key |-> PayerSecond(q, x),
             sig |-> Some(SigOf(q, x, PayerSecond(q, x), PayeeFirst(q)))]>>)

\* Slates, and their texts.
SlateFields == {"amount", "fee", "ttl", "tx", "parts", "proof", "version", "orig"}
IsSlate(s)  == DOMAIN s = SlateFields /\ s.version \in {2, 3} /\ s.orig \in {2, 3}
IsWire(w)   == w.fmt \in {2, 3} /\ w.version \in {2, 3} /\ w.orig \in {2, 3}

\* The proof and the cutoff arrive as they were sent, except over epicbox; the cutoff
\* neither over version 2.
KeepsTtl(q)   == q.method # "epicbox" /\ ~ (Sender(q) = "http" /\ q.peer = 2)
Requested(q)  == IF q.proof = "no" THEN None ELSE Some([sig |-> None])
Signed(q, x)  == IF q.proof = "no" THEN None
                 ELSE Some([sig |-> Some([amount |-> q.amount, excess |-> Excess(q, x)])])
Faithful(s, q, proof, cut) ==
  q.method # "epicbox" =>
    /\ s.proof = proof /\ (KeepsTtl(q) => s.ttl = cut)
    /\ \/ s.version = 3
       \/ s.proof = None /\ s.ttl = None /\ Sender(q) # "keybase"
FaithfulWire(w, q, proof, cut) ==
  q.method # "epicbox" =>
    \/ w.fmt = 3 /\ w.version = 3 /\ w.proof = proof /\ (KeepsTtl(q) => w.ttl = cut)
    \/ w.fmt = 2 /\ w.version = 2 /\ proof = None /\ (KeepsTtl(q) => cut = None)
       /\ Sender(q) # "keybase"
    \/ w.fmt = 2 /\ w.version = 3 /\ Sender(q) = "keybase"

-----------------------------------------------------------------------------
(* The inductive invariant *)

Places   == {"idle", "select", "reselect", "build", "deliver", "await", "lock", "receive",
             "finalize", "post"}
Selects  == {"select", "reselect", "build"}
Pays     == {"deliver", "await", "lock", "receive", "finalize", "post"}
EntryFields == {"type", "ttl", "fee", "debited", "credited", "proof", "sent", "confirmed"}
IsTtl(t) == IsSome(t) => Get(t) \in Nat

TypeInv ==
  /\ req \in Requests /\ height \in Nat /\ seen \in [Wallets -> Nat]
  /\ pc \in [Wallets -> Places] /\ pc["payee"] \in {"idle", "post"}
  /\ DOMAIN told = Wallets /\ DOMAIN ctx = Wallets /\ DOMAIN log = Wallets
  /\ DOMAIN stored = Wallets /\ DOMAIN wire = {"out", "back"}
  /\ sel.coins \in CoinChoices(req.coins) /\ sel.fee \in Nat

\* The payer selects coins only as long as nothing was built with the ones selected before.
Starting ==
  \/ pc["payer"] \in Selects
  \/ req.kind # "invoice" /\ pc["payer"] = "idle" /\ told["payer"] = "nothing"
Built ==
  \/ pc["payer"] \in Pays \/ IsSome(wire.back) \/ IsSome(log["payer"])
  \/ req.kind # "invoice" /\ (IsSome(wire.out) \/ IsSome(ctx["payer"]) \/ IsSome(stored["payer"])
                              \/ IsSome(final))
StartInv == Starting => ~ Built

SelInv ==
  /\ pc["payer"] = "reselect" => sel.fee = TxFee(Len(sel.coins), Outs(req) + 1, 1)
  /\ pc["payer"] = "build" => Affordable(req, sel)
  /\ Built => /\ req.kind # "estimate" /\ Affordable(req, sel) /\ IsSome(Split(req, sel))
              /\ req.kind = "send" => hand.amount = req.amount

HandInv ==
  /\ pc["payer"] \in Selects =>
       /\ IsSlate(hand) /\ hand.amount = req.amount
       /\ req.kind # "invoice" => hand = Blank(req.amount, hand.ttl) /\ IsTtl(hand.ttl)
       /\ req.kind = "invoice" => Issued(hand, req)
  /\ pc["payer"] \in {"deliver", "lock", "receive", "finalize"} =>
       /\ IsSlate(hand)
       /\ req.kind = "invoice" => PaidFor(hand, req, sel) /\ pc["payer"] # "finalize"
  /\ pc["payer"] = "deliver" /\ req.kind = "send" =>
       /\ Offered(hand, req, sel) /\ hand.version = 3 /\ hand.proof = Requested(req)
       /\ hand.ttl = cutoff
  /\ pc["payer"] \in {"lock", "receive"} /\ req.kind = "send" =>
       IF BySender THEN Answered(hand, req, sel) /\ Faithful(hand, req, Signed(req, sel), cutoff)
       ELSE Offered(hand, req, sel) /\ Faithful(hand, req, Requested(req), cutoff)
  /\ pc["payer"] = "finalize" =>
       Answered(hand, req, sel) /\ Faithful(hand, req, Signed(req, sel), cutoff)
  /\ pc["payer"] = "await" => BySender
  /\ pc["payer"] = "receive" => req.method = "self"

WireInv ==
  /\ IsSome(wire.out) =>
       /\ IsWire(Get(wire.out))
       /\ req.kind = "send" => /\ Offered(Get(wire.out), req, sel)
                               /\ FaithfulWire(Get(wire.out), req, Requested(req), cutoff)
       /\ req.kind = "invoice" => Issued(Get(wire.out), req) /\ Get(wire.out).version = 2
  /\ IsSome(wire.back) =>
       /\ IsWire(Get(wire.back))
       /\ req.kind = "send" => /\ Answered(Get(wire.back), req, sel)
                               /\ FaithfulWire(Get(wire.back), req, Signed(req, sel), cutoff)
       /\ req.kind = "invoice" => PaidFor(Get(wire.back), req, sel)

CtxInv ==
  /\ req.kind = "send" /\ IsSome(ctx["payer"]) =>
       Get(ctx["payer"]).key = PayerFirst(req, sel)
  /\ req.kind = "send" /\ pc["payer"] \in {"deliver", "await", "lock"} => IsSome(ctx["payer"])
  /\ req.kind = "invoice" /\ IsSome(ctx["payee"]) => Get(ctx["payee"]).key = PayeeFirst(req)

LogInv ==
  req.kind = "send" /\ IsSome(log["payer"]) =>
    /\ DOMAIN Get(log["payer"]) = EntryFields
    /\ Get(log["payer"]).debited = TotalOf(req, sel)
    /\ Get(log["payer"]).credited = SumSeq(Get(Split(req, sel)))
    /\ Get(log["payer"]).fee = sel.fee
    /\ req.method # "epicbox" => (IsSome(Get(log["payer"]).proof) <=> req.proof # "no")

StoredInv ==
  req.kind = "send" /\ IsSome(stored["payer"]) /\ Get(stored["payer"]).complete =>
    /\ Get(stored["payer"]).tx = Excess(req, sel)
    /\ pc["payer"] \in {"idle", "post"} /\ ~ IsSome(ctx["payer"]) /\ IsSome(log["payer"])
    /\ TotalOf(req, sel) = SumSeq(Get(Split(req, sel))) + req.amount + sel.fee
    /\ req.method # "epicbox" /\ req.proof # "no" =>
         Get(log["payer"]).proof = Signed(req, sel) /\ Get(log["payer"]).sent

ToldInv ==
  /\ told["payer"] = "panic" =>
       /\ req.kind = "send" /\ pc["payer"] \in {"idle", "post"} /\ hand.amount = req.amount
       /\ Outs(req) = 0 \/ ChangeOf(req, sel) < Outs(req)
  /\ told["payer"] = "invalid" =>
       /\ req.kind = "send" /\ pc["payer"] \in {"idle", "post"} /\ hand.amount = req.amount
       /\ ~ SplitsEvenly(ChangeOf(req, sel), Outs(req))
  /\ told["payee"] # "invalid"

Cutoffs == req.kind = "send" => IsTtl(cutoff)

Inv ==
  /\ TypeInv /\ StartInv /\ SelInv /\ HandInv /\ WireInv /\ CtxInv /\ LogInv /\ StoredInv
  /\ ToldInv /\ Cutoffs /\ RefusedMeansShort /\ TtlRefused

-----------------------------------------------------------------------------
(* The rounds *)

\* The transaction of a slate, field by field; what else a round leaves alone.
Tx(ins, change, pay, fee, offset) ==
  [ins |-> ins, change |-> change, pay |-> pay, fee |-> fee, offset |-> offset]
IsTx(t) == t = Tx(t.ins, t.change, t.pay, t.fee, t.offset)
Taken(ins, change, pay, fee) == Tx(ins, change, pay, fee, TRUE)
IsFresh(s) == s.tx.offset = FALSE
IsTaken(s) == s.tx.offset = TRUE
Pair(a, b) == <<a, b>>
Part(id, key, sig) == [id |-> id, key |-> key, sig |-> sig]
SigBy(key, a, b, fee) == [by |-> key, keys |-> {a, b}, msg |-> fee]
SameInfo(r, s) ==
  r.ttl = s.ttl /\ r.proof = s.proof /\ r.version = s.version /\ r.orig = s.orig

\* Two elements in a row are a pair, and how a slate gets its participants.
LEMMA Appends ==
  ASSUME NEW a, NEW b
  PROVE  Append(<<>>, a) = <<a>> /\ Append(<<a>>, b) = <<a, b>>
  <1>1. Append(<<>>, a) = <<a>>
    OBVIOUS
  <1> DEFINE s == Append(<<a>>, b)
  <1>2. s[1] = a /\ s[2] = b /\ Len(s) = 2 /\ s \in Seq({a, b})
    OBVIOUS
  <1> HIDE DEF s
  <1>3. <<a, b>> \in Seq({a, b}) /\ Len(<<a, b>>) = 2
    OBVIOUS
  <1>4. \A i \in 1 .. 2 : s[i] = <<a, b>>[i]
    <2>1. \A i \in 1 .. 2 : i = 1 \/ i = 2
      OBVIOUS
    <2>2. <<a, b>>[1] = a /\ <<a, b>>[2] = b
      OBVIOUS
    <2>3. QED
      BY <1>2, <2>1, <2>2
  <1>5. s = <<a, b>>
    <2>1. \A i \in 1 .. Len(s) : s[i] = <<a, b>>[i]
      BY <1>2, <1>4
    <2>2. QED
      BY <1>2, <1>3, <2>1, SeqEqual, Zenon
  <1>6. QED
    BY <1>1, <1>5 DEF s

\* The fields of a transaction.
LEMMA TxIs ==
  \A i, c, p, f, o :
    /\ IsTx(Tx(i, c, p, f, o))
    /\ Tx(i, c, p, f, o).ins = i /\ Tx(i, c, p, f, o).change = c
    /\ Tx(i, c, p, f, o).pay = p /\ Tx(i, c, p, f, o).fee = f
    /\ Tx(i, c, p, f, o).offset = o
  BY DEF IsTx, Tx

\* update_kernel copies the fee of the slate into the kernel.
LEMMA UpdateKernelIs ==
  ASSUME NEW s, IsSlate(s), NEW i, NEW c, NEW p, NEW f, NEW o, s.tx = Tx(i, c, p, f, o),
         NEW r, r = UpdateKernel(s)
  PROVE  /\ IsSlate(r) /\ SameInfo(r, s) /\ r.amount = s.amount /\ r.fee = s.fee
         /\ r.parts = s.parts /\ r.tx = Tx(i, c, p, s.fee, o)
  <1>1. r = [s EXCEPT !.tx.fee = s.fee]
    BY DEF UpdateKernel
  <1>2. r.tx = Tx(i, c, p, s.fee, o)
    BY <1>1 DEF IsSlate, SlateFields, Tx
  <1>3. /\ DOMAIN r = SlateFields /\ SameInfo(r, s) /\ r.amount = s.amount /\ r.fee = s.fee
        /\ r.parts = s.parts
    BY <1>1 DEF IsSlate, SlateFields, SameInfo
  <1>4. QED
    BY <1>2, <1>3 DEF IsSlate, SameInfo

\* add_inputs_to_slate and add_output_to_slate update the kernel before they add.
LEMMA AddInputsIs ==
  ASSUME NEW s, IsSlate(s), NEW i, NEW c, NEW p, NEW f, NEW o, s.tx = Tx(i, c, p, f, o),
         NEW ins, NEW change, NEW r, r = AddInputs(s, ins, change)
  PROVE  /\ IsSlate(r) /\ SameInfo(r, s) /\ r.amount = s.amount /\ r.fee = s.fee
         /\ r.parts = s.parts /\ r.tx = Tx(ins, change, p, s.fee, o)
  <1> DEFINE k == UpdateKernel(s)
  <1>1. /\ IsSlate(k) /\ SameInfo(k, s) /\ k.amount = s.amount /\ k.fee = s.fee
        /\ k.parts = s.parts /\ k.tx = Tx(i, c, p, s.fee, o)
    BY UpdateKernelIs
  <1>2. r = [k EXCEPT !.tx.ins = ins, !.tx.change = change]
    BY DEF AddInputs
  <1> HIDE DEF k
  <1>3. r.tx = Tx(ins, change, p, s.fee, o)
    <2> DEFINE k1 == [k EXCEPT !.tx.ins = ins]
    <2>1. r = [k1 EXCEPT !.tx.change = change]
      BY <1>2
    <2>2. k1.tx = Tx(ins, c, p, s.fee, o) /\ DOMAIN k1 = SlateFields
      BY <1>1 DEF IsSlate, SlateFields, Tx
    <2> HIDE DEF k1
    <2>3. QED
      BY <2>1, <2>2 DEF SlateFields, Tx
  <1>4. /\ DOMAIN r = SlateFields /\ SameInfo(r, k) /\ r.amount = k.amount /\ r.fee = k.fee
        /\ r.parts = k.parts
    BY <1>1, <1>2 DEF IsSlate, SlateFields, SameInfo
  <1>5. QED
    BY <1>1, <1>3, <1>4 DEF IsSlate, SameInfo

\* The payee's output is all that add_transaction_elements changes of a slate, and
\* it is worth the slate's amount.
LEMMA AddOutputIs ==
  ASSUME NEW s, IsSlate(s), NEW i, NEW c, NEW p, NEW f, NEW o, s.tx = Tx(i, c, p, f, o),
         NEW r, r = AddOutput(s)
  PROVE  /\ IsSlate(r) /\ SameInfo(r, s) /\ r.amount = s.amount /\ r.fee = s.fee
         /\ r.parts = s.parts /\ r.tx = Tx(i, c, Some(s.amount), s.fee, o)
  <1> DEFINE k == UpdateKernel(s)
  <1>1. /\ IsSlate(k) /\ SameInfo(k, s) /\ k.amount = s.amount /\ k.fee = s.fee
        /\ k.parts = s.parts /\ k.tx = Tx(i, c, p, s.fee, o)
    BY UpdateKernelIs
  <1>2. r = [k EXCEPT !.tx.pay = Some(s.amount)]
    BY DEF AddOutput
  <1> HIDE DEF k
  <1>3. r.tx = Tx(i, c, Some(s.amount), s.fee, o)
    <2>1. ASSUME NEW v, r = [k EXCEPT !.tx.pay = v] PROVE r.tx = Tx(i, c, v, s.fee, o)
      BY <1>1, <2>1 DEF IsSlate, SlateFields, Tx
    <2>2. QED
      BY <1>2, <2>1
  <1>4. /\ DOMAIN r = SlateFields /\ SameInfo(r, k) /\ r.amount = k.amount /\ r.fee = k.fee
        /\ r.parts = k.parts
    BY <1>1, <1>2 DEF IsSlate, SlateFields, SameInfo
  <1>5. QED
    BY <1>1, <1>3, <1>4 DEF IsSlate, SameInfo

\* fill_round_1 adds the participant; the first one takes the offset out of its key.
LEMMA FillRound1Is ==
  ASSUME NEW s, IsSlate(s), IsTx(s.tx), NEW id, NEW key
  PROVE  LET r == FillRound1(s, id, key)
         IN  /\ IsSlate(r) /\ SameInfo(r, s) /\ r.amount = s.amount /\ r.fee = s.fee
             /\ r.parts = Append(s.parts, Part(id, GenerateOffset(s, key), None))
             /\ r.tx = Taken(s.tx.ins, s.tx.change, s.tx.pay, s.tx.fee)
  <1> DEFINE k == AddParticipantInfo(s, id, GenerateOffset(s, key))
             r == FillRound1(s, id, key)
             t == s.tx
  <1>1. /\ IsSlate(k) /\ SameInfo(k, s) /\ k.amount = s.amount /\ k.fee = s.fee /\ k.tx = s.tx
        /\ k.parts = Append(s.parts, Part(id, GenerateOffset(s, key), None))
    BY DEF AddParticipantInfo, IsSlate, SlateFields, SameInfo, Part
  <1>2. r = [k EXCEPT !.tx.offset = TRUE]
    BY DEF FillRound1
  <1> HIDE DEF k, r
  <1>3. r.tx = Taken(t.ins, t.change, t.pay, t.fee)
    <2>1. ASSUME NEW v, r = [k EXCEPT !.tx.offset = v]
          PROVE  r.tx = Tx(t.ins, t.change, t.pay, t.fee, v)
      BY <1>1, <2>1 DEF IsSlate, SlateFields, IsTx, Tx
    <2>2. QED
      BY <1>2, <2>1 DEF Taken
  <1>4. /\ DOMAIN r = SlateFields /\ SameInfo(r, k) /\ r.amount = k.amount /\ r.fee = k.fee
        /\ r.parts = k.parts
    BY <1>1, <1>2 DEF IsSlate, SlateFields, SameInfo
  <1>5. QED
    BY <1>1, <1>3, <1>4 DEF IsSlate, SameInfo, r

\* Only one key has the offset taken out.
LEMMA OffsetOnce ==
  ASSUME NEW s, NEW ki, NEW kc, NEW kp
  PROVE  /\ IsFresh(s) => GenerateOffset(s, Whole(ki, kc, kp)) = Parted(ki, kc, kp)
         /\ IsTaken(s) => GenerateOffset(s, Whole(ki, kc, kp)) = Whole(ki, kc, kp)
  <1>1. ASSUME NEW g, NEW first, NEW key, key = Whole(ki, kc, kp), g = [key EXCEPT !.split = first]
        PROVE  g = [ins |-> ki, change |-> kc, pay |-> kp, split |-> first]
    BY <1>1 DEF Whole
  <1>2. ASSUME IsFresh(s)
        PROVE  GenerateOffset(s, Whole(ki, kc, kp)) = Parted(ki, kc, kp)
    <2>1. (~ s.tx.offset) = TRUE
      BY <1>2 DEF IsFresh
    <2>2. GenerateOffset(s, Whole(ki, kc, kp)) = [Whole(ki, kc, kp) EXCEPT !.split = TRUE]
      BY <2>1 DEF GenerateOffset
    <2>3. QED
      BY <1>1, <2>2 DEF Parted
  <1>3. ASSUME IsTaken(s)
        PROVE  GenerateOffset(s, Whole(ki, kc, kp)) = Whole(ki, kc, kp)
    <2>1. (~ s.tx.offset) = FALSE
      BY <1>3 DEF IsTaken
    <2>2. GenerateOffset(s, Whole(ki, kc, kp)) = [Whole(ki, kc, kp) EXCEPT !.split = FALSE]
      BY <2>1 DEF GenerateOffset
    <2>3. QED
      BY <1>1, <2>2 DEF Whole
  <1>4. QED
    BY <1>2, <1>3

\* The participants of a slate that both wallets have filled in.
LEMMA TwoParts ==
  ASSUME NEW a, NEW b
  PROVE  ToSet(Pair(a, b)) = {a, b}
  <1> DEFINE t == Pair(a, b)
  <1>1. DOMAIN t = {1, 2} /\ t[1] = a /\ t[2] = b
    BY DEF Pair
  <1> HIDE DEF t
  <1>2. ToSet(t) = {a, b}
    BY <1>1 DEF ToSet
  <1>3. QED
    BY <1>2 DEF t

\* The fields of a participant.
LEMMA PartIs ==
  \A i, k, g : Part(i, k, g).id = i /\ Part(i, k, g).key = k /\ Part(i, k, g).sig = g
  BY DEF Part

\* Two participants: who they are, and the sum of their public keys.
LEMMA PartsAre ==
  ASSUME NEW s, NEW i0, NEW k0, NEW g0, NEW i1, NEW k1, NEW g1,
         s.parts = Pair(Part(i0, k0, g0), Part(i1, k1, g1))
  PROVE  ToSet(s.parts) = {Part(i0, k0, g0), Part(i1, k1, g1)} /\ PubKeySum(s) = {k0, k1}
  <1> DEFINE a == Part(i0, k0, g0)
             b == Part(i1, k1, g1)
  <1>1. ToSet(s.parts) = {a, b}
    BY TwoParts, Zenon
  <1>2. a.key = k0 /\ b.key = k1
    BY PartIs
  <1> HIDE DEF a, b
  <1>3. PubKeySum(s) = {a.key, b.key}
    BY <1>1, Zenon DEF PubKeySum
  <1>4. QED
    BY <1>1, <1>2, <1>3, Zenon DEF a, b

\* fill_round_2 signs for one participant.
LEMMA FillRound2Is ==
  ASSUME NEW s, IsSlate(s), NEW i0 \in Nat, NEW k0, NEW g0, NEW i1 \in Nat, NEW k1, NEW g1, i0 # i1,
         s.parts = Pair(Part(i0, k0, g0), Part(i1, k1, g1)),
         NEW id, NEW key
  PROVE  LET r == FillRound2(s, id, key) IN
         /\ IsSlate(r) /\ SameInfo(r, s) /\ r.amount = s.amount /\ r.fee = s.fee /\ r.tx = s.tx
         /\ id = i0 => r.parts = Pair(Part(i0, k0, Some(SigBy(key, k0, k1, s.fee))),
                                      Part(i1, k1, g1))
         /\ id = i1 => r.parts = Pair(Part(i0, k0, g0),
                                      Part(i1, k1, Some(SigBy(key, k0, k1, s.fee))))
  <1> DEFINE sig == SigBy(key, k0, k1, s.fee)
             sgn(p) == IF p.id = id THEN [p EXCEPT !.sig = Some(sig)] ELSE p
             ps == [i \in DOMAIN s.parts |-> sgn(s.parts[i])]
             p0 == Part(i0, k0, g0)
             p1 == Part(i1, k1, g1)
             r == FillRound2(s, id, key)
  <1>1. r = [s EXCEPT !.parts = ps]
    <2>1. PubKeySum(s) = {k0, k1}
      BY PartsAre
    <2>2. QED
      BY <2>1 DEF FillRound2, MsgToSign, SigBy
  <1>2. ps = Pair(sgn(p0), sgn(p1))
    <2> DEFINE t == s.parts
               u == [i \in DOMAIN t |-> sgn(t[i])]
    <2>1. t = Pair(p0, p1) /\ ps = u
      OBVIOUS
    <2> HIDE DEF t, sgn, p0, p1
    <2>2. t[1] = p0 /\ t[2] = p1 /\ DOMAIN t = {1, 2}
      BY <2>1 DEF Pair
    <2>3. u = [i \in {1, 2} |-> IF i = 1 THEN sgn(p0) ELSE sgn(p1)]
      BY <2>2
    <2>4. Pair(sgn(p0), sgn(p1)) = [i \in {1, 2} |-> IF i = 1 THEN sgn(p0) ELSE sgn(p1)]
      BY DEF Pair
    <2> HIDE DEF ps, u
    <2>5. QED
      BY <2>1, <2>3, <2>4
  <1>3. ASSUME NEW p, NEW i, NEW k, NEW g, NEW v, p = Part(i, k, g)
        PROVE  [p EXCEPT !.sig = v] = Part(i, k, v)
    <2> DEFINE e == [p EXCEPT !.sig = v]
    <2>1. e = Part(i, k, v)
      <3>1. e = [p EXCEPT !.sig = v]
        OBVIOUS
      <3> HIDE DEF e
      <3>2. QED
        BY <1>3, <3>1 DEF Part
    <2>2. QED
      BY <2>1
  <1>4. /\ id = i0 => sgn(p0) = Part(i0, k0, Some(sig)) /\ sgn(p1) = p1
        /\ id = i1 => sgn(p0) = p0 /\ sgn(p1) = Part(i1, k1, Some(sig))
    <2> HIDE DEF sig
    <2>1. p0.id = i0 /\ p1.id = i1
      BY DEF Part
    <2>2. [p0 EXCEPT !.sig = Some(sig)] = Part(i0, k0, Some(sig))
          /\ [p1 EXCEPT !.sig = Some(sig)] = Part(i1, k1, Some(sig))
      <3> HIDE DEF p0, p1
      <3>1. p0 = Part(i0, k0, g0) /\ p1 = Part(i1, k1, g1)
        BY DEF p0, p1
      <3>2. QED
        BY <1>3, <3>1
    <2> HIDE DEF p0, p1
    <2>3. QED
      BY <2>1, <2>2
  <1> HIDE DEF ps, sgn, p0, p1, sig, r
  <1>5. /\ DOMAIN r = SlateFields /\ SameInfo(r, s) /\ r.amount = s.amount /\ r.fee = s.fee
        /\ r.tx = s.tx /\ r.parts = ps
    BY <1>1 DEF IsSlate, SlateFields, SameInfo
  <1>6. QED
    BY <1>2, <1>4, <1>5 DEF IsSlate, SameInfo, p0, p1, sig, r


\* A request and a selection from which a payment can be built.
Payment(q, x) ==
  /\ q.coins \in Seq(Nat) /\ q.amount \in Nat /\ q.change \in Nat
  /\ x.coins \in CoinChoices(q.coins) /\ x.fee \in Nat
  /\ Affordable(q, x) /\ IsSome(Split(q, x))

\* What a selection takes is what it pays, its fee and its change; the change
\* outputs are worth the change exactly when it splits evenly among them.
LEMMA PaymentIs ==
  ASSUME NEW q, NEW x, Payment(q, x)
  PROVE  /\ TotalOf(q, x) \in Nat /\ ChangeOf(q, x) \in Nat /\ Outs(q) \in Nat
         /\ TotalOf(q, x) = ChangeOf(q, x) + q.amount + x.fee
         /\ Cardinality(ToSet(x.coins)) = Len(x.coins) /\ Len(x.coins) \in Nat
         /\ Len(Get(Split(q, x))) = IF ChangeOf(q, x) = 0 THEN 0 ELSE Outs(q)
         /\ SumSeq(Get(Split(q, x))) \in Nat
         /\ SplitsEvenly(ChangeOf(q, x), Outs(q))
              <=> TotalOf(q, x) = SumSeq(Get(Split(q, x))) + q.amount + x.fee
  <1>1. TotalOf(q, x) \in Nat /\ q.amount \in Nat /\ x.fee \in Nat
    BY SumNat DEF Payment, TotalOf
  <1>2. TotalOf(q, x) >= q.amount + x.fee
    BY DEF Payment, Affordable
  <1>3. ChangeOf(q, x) \in Nat /\ TotalOf(q, x) = ChangeOf(q, x) + q.amount + x.fee
    BY <1>1, <1>2 DEF ChangeOf
  <1>4. Outs(q) \in Nat
    BY DEF Payment, Outs
  <1>5. Cardinality(ToSet(x.coins)) = Len(x.coins) /\ Len(x.coins) \in Nat
    BY ChoiceSize DEF Payment
  <1>6. /\ Get(Split(q, x)) \in Seq(Nat)
        /\ Len(Get(Split(q, x))) = IF ChangeOf(q, x) = 0 THEN 0 ELSE Outs(q)
        /\ SplitsEvenly(ChangeOf(q, x), Outs(q)) <=> SumSeq(Get(Split(q, x))) = ChangeOf(q, x)
    <2>1. IsSome(ChangeAmounts(ChangeOf(q, x), Outs(q)))
      BY DEF Payment, Split
    <2>2. QED
      BY <1>3, <1>4, <2>1, ChangeIs DEF Split
  <1>7. SumSeq(Get(Split(q, x))) \in Nat
    BY <1>6, SumNat DEF SumSeq
  <1>8. SplitsEvenly(ChangeOf(q, x), Outs(q))
          <=> TotalOf(q, x) = SumSeq(Get(Split(q, x))) + q.amount + x.fee
    <2>1. ASSUME NEW t \in Nat, NEW c \in Nat, NEW m \in Nat, NEW a \in Nat, NEW f \in Nat,
                 t = c + a + f
          PROVE  m = c <=> t = m + a + f
      BY <2>1
    <2>2. SumSeq(Get(Split(q, x))) = ChangeOf(q, x)
            <=> TotalOf(q, x) = SumSeq(Get(Split(q, x))) + q.amount + x.fee
      BY <1>1, <1>3, <1>7, <2>1
    <2>3. QED
      BY <1>6, <2>2, Zenon
  <1>9. QED
    BY <1>1, <1>3, <1>4, <1>5, <1>6, <1>7, <1>8

\* The fee of a selection covers the transaction that is built from it.
LEMMA FeeCovers ==
  ASSUME NEW q, NEW x, Payment(q, x), NEW s, s.tx = Elements(q, x, Some(q.amount)),
         s.fee = x.fee, s.amount = q.amount
  PROVE  CheckFees(s)
  <1> DEFINE n == Len(Get(Split(q, x)))
             k == Len(x.coins)
  <1>1. /\ Cardinality(s.tx.ins) = k /\ Len(s.tx.change) = n /\ Len(s.tx.pay) = 1
        /\ s.tx.fee = x.fee
    <2>1. s.tx.ins = ToSet(x.coins) /\ s.tx.change = Get(Split(q, x)) /\ s.tx.pay = Some(q.amount)
          /\ s.tx.fee = x.fee
      BY DEF Elements
    <2>2. Len(Some(q.amount)) = 1
      BY DEF Some
    <2>3. QED
      BY <2>1, <2>2, PaymentIs
  <1>2. k \in Nat /\ Outs(q) \in Nat /\ n = (IF ChangeOf(q, x) = 0 THEN 0 ELSE Outs(q))
    BY PaymentIs
  <1>3. q.amount \in Nat /\ x.fee \in Nat
    BY DEF Payment
  <1> HIDE DEF n, k
  <1>4. TxFee(k, n + 1, 1) <= x.fee /\ TxFee(k, n + 1, 1) \in Nat
    <2>1. CASE x.fee = TxFee(k, Outs(q) + 1, 1)
      <3>1. n + 1 \in Nat /\ Outs(q) + 1 \in Nat /\ n + 1 <= Outs(q) + 1
        BY <1>2
      <3>2. TxFee(k, n + 1, 1) \in Nat /\ TxFee(k, n + 1, 1) <= TxFee(k, Outs(q) + 1, 1)
        <4>1. 1 \in Nat
          OBVIOUS
        <4>2. QED
          BY <1>2, <3>1, <4>1, FeeGrows, Zenon
      <3>3. QED
        BY <2>1, <3>2, Zenon
    <2>2. CASE x.fee = TxFee(k, 1, 1) /\ TotalOf(q, x) = q.amount + x.fee
      <3>1. ChangeOf(q, x) = 0
        BY <1>3, <2>2 DEF ChangeOf
      <3>2. n + 1 = 1
        BY <1>2, <3>1
      <3>3. TxFee(k, n + 1, 1) \in Nat /\ TxFee(k, n + 1, 1) <= TxFee(k, n + 1, 1)
        <4>1. n + 1 \in Nat /\ 1 \in Nat /\ n + 1 <= n + 1
          BY <3>2
        <4>2. QED
          BY <1>2, <4>1, FeeGrows, Zenon
      <3>4. QED
        BY <2>2, <3>2, <3>3, Zenon
    <2>3. QED
      BY <2>1, <2>2 DEF Payment, Affordable, k
  <1>5. QED
    BY <1>1, <1>3, <1>4 DEF CheckFees

\* The keys of the two wallets are the key of the transaction; its amounts balance exactly
\* if the change was split evenly.
LEMMA KernelOf ==
  ASSUME NEW q, NEW x, Payment(q, x), NEW s, NEW k0, NEW k1,
         s.tx = Elements(q, x, Some(q.amount)), PubKeySum(s) = {k0, k1},
         \/ k0 = PayerFirst(q, x) /\ k1 = PayeeSecond(q)
         \/ k0 = PayerSecond(q, x) /\ k1 = PayeeFirst(q)
  PROVE  KernelVerifies(s, q.coins) <=> SplitsEvenly(ChangeOf(q, x), Outs(q))
  <1> DEFINE ins == ToSet(x.coins)
             change == Get(Split(q, x))
             keys == PubKeySum(s)
  <1>1. /\ k0.ins = ins /\ k0.change = change /\ k0.pay = None
        /\ k1.ins = {} /\ k1.change = <<>> /\ k1.pay = Some(q.amount)
        /\ \/ k0.split = TRUE /\ k1.split = FALSE
           \/ k0.split = FALSE /\ k1.split = TRUE
    BY DEF PayerFirst, PayerSecond, PayeeFirst, PayeeSecond, Whole, Parted
  <1>2. /\ s.tx.ins = ins /\ s.tx.change = change /\ s.tx.pay = Some(q.amount)
        /\ s.tx.fee = x.fee
    BY DEF Elements
  <1> HIDE DEF ins, change
  <1>3. s.tx.ins = UNION {k.ins : k \in keys}
    <2>1. {k.ins : k \in keys} = {ins, {}}
      BY <1>1
    <2>2. QED
      BY <1>2, <2>1
  <1>4. {k.change : k \in keys} \ {<<>>} = {s.tx.change} \ {<<>>}
    <2>1. {k.change : k \in keys} = {change, <<>>}
      BY <1>1
    <2>2. QED
      BY <1>2, <2>1
  <1>5. {k.pay : k \in keys} \ {None} = {s.tx.pay} \ {None}
    <2>1. {k.pay : k \in keys} = {None, Some(q.amount)}
      BY <1>1
    <2>2. QED
      BY <1>2, <2>1
  <1>6. Cardinality({k \in keys : k.split}) = 1
    <2>1. {k \in keys : k.split} = {k0} \/ {k \in keys : k.split} = {k1}
      BY <1>1
    <2>2. QED
      BY <2>1, FS_Singleton
  <1>7. SumOf(q.coins, s.tx.ins) = SumSeq(s.tx.change) + SumSeq(s.tx.pay) + s.tx.fee
          <=> SplitsEvenly(ChangeOf(q, x), Outs(q))
    <2>1. SumOf(q.coins, s.tx.ins) = TotalOf(q, x)
      BY <1>2 DEF TotalOf, ins
    <2>2. SumSeq(s.tx.pay) = q.amount /\ q.amount \in Nat /\ x.fee \in Nat
      BY <1>2, SumOfFew DEF Some, Payment
    <2>3. SumSeq(s.tx.change) = SumSeq(Get(Split(q, x)))
      BY <1>2 DEF change
    <2>4. /\ TotalOf(q, x) \in Nat /\ SumSeq(Get(Split(q, x))) \in Nat
          /\ SplitsEvenly(ChangeOf(q, x), Outs(q))
               <=> TotalOf(q, x) = SumSeq(Get(Split(q, x))) + q.amount + x.fee
      BY PaymentIs
    <2>5. QED
      BY <1>2, <2>1, <2>2, <2>3, <2>4
  <1>8. QED
    BY <1>3, <1>4, <1>5, <1>6, <1>7 DEF KernelVerifies

\* The payer's round adds inputs, change, fee and its entry, to a slate of its own or to an
\* invoice.
PayerFills(h, fee, key) ==
  FillRound1(AddInputs([h EXCEPT !.fee = fee], key.ins, key.change), 0, key)

\* The payer's round: it adds the payer's inputs and change, its fee and its
\* participant, and touches nothing else of the slate.
LEMMA PayerRound ==
  ASSUME NEW h, IsSlate(h), IsTx(h.tx), NEW key, NEW fee,
         NEW s, s = PayerFills(h, fee, key)
  PROVE  /\ IsSlate(s) /\ SameInfo(s, h) /\ s.amount = h.amount /\ s.fee = fee
         /\ s.tx = Taken(key.ins, key.change, h.tx.pay, fee)
         /\ s.parts = Append(h.parts, Part(0, GenerateOffset(h, key), None))
  <1> DEFINE h1 == [h EXCEPT !.fee = fee]
             h2 == AddInputs(h1, key.ins, key.change)
             t == h.tx
  <1>1. /\ IsSlate(h1) /\ SameInfo(h1, h) /\ h1.amount = h.amount /\ h1.fee = fee
        /\ h1.parts = h.parts /\ h1.tx = Tx(t.ins, t.change, t.pay, t.fee, t.offset)
    BY DEF IsSlate, SlateFields, SameInfo, IsTx
  <1>2. s = FillRound1(h2, 0, key)
    BY DEF PayerFills
  <1> HIDE DEF h1, h2
  <1>3. h2 = AddInputs(h1, key.ins, key.change)
    BY DEF h2
  <1>4. /\ IsSlate(h2) /\ SameInfo(h2, h1) /\ h2.amount = h1.amount /\ h2.fee = h1.fee
        /\ h2.parts = h1.parts /\ h2.tx = Tx(key.ins, key.change, t.pay, fee, t.offset)
    BY <1>1, <1>3, AddInputsIs
  <1>5. /\ IsTx(h2.tx) /\ h2.tx.ins = key.ins /\ h2.tx.change = key.change /\ h2.tx.pay = t.pay
        /\ h2.tx.fee = fee /\ h2.tx.offset = t.offset
    BY <1>4, TxIs
  <1>6. /\ IsSlate(s) /\ SameInfo(s, h2) /\ s.amount = h2.amount /\ s.fee = h2.fee
        /\ s.parts = Append(h2.parts, Part(0, GenerateOffset(h2, key), None))
        /\ s.tx = Taken(h2.tx.ins, h2.tx.change, h2.tx.pay, h2.tx.fee)
    BY <1>2, <1>4, <1>5, FillRound1Is
  <1>7. GenerateOffset(h2, key) = GenerateOffset(h, key)
    BY <1>5 DEF GenerateOffset
  <1>8. SameInfo(s, h)
    BY <1>1, <1>4, <1>6 DEF SameInfo
  <1>9. QED
    BY <1>1, <1>4, <1>5, <1>6, <1>7, <1>8

\* The payee's round adds its output and its entry.
LEMMA PayeeRound ==
  ASSUME NEW h, IsSlate(h), IsTx(h.tx), NEW s, s = WithOutput(h)
  PROVE  /\ IsSlate(s) /\ SameInfo(s, h) /\ s.amount = h.amount /\ s.fee = h.fee
         /\ s.tx = Taken(h.tx.ins, h.tx.change, Some(h.amount), h.fee)
         /\ s.parts = Append(h.parts, Part(1, GenerateOffset(h, PayeeKey(h)), None))
  <1> DEFINE h2 == AddOutput(h)
             key == PayeeKey(h)
             t == h.tx
  <1>1. s = FillRound1(h2, 1, key)
    BY DEF WithOutput
  <1>2. h.tx = Tx(t.ins, t.change, t.pay, t.fee, t.offset)
    BY DEF IsTx
  <1> HIDE DEF h2
  <1>3. h2 = AddOutput(h)
    BY DEF h2
  <1>4. /\ IsSlate(h2) /\ SameInfo(h2, h) /\ h2.amount = h.amount /\ h2.fee = h.fee
        /\ h2.parts = h.parts /\ h2.tx = Tx(t.ins, t.change, Some(h.amount), h.fee, t.offset)
    BY <1>2, <1>3, AddOutputIs
  <1>5. /\ IsTx(h2.tx) /\ h2.tx.ins = t.ins /\ h2.tx.change = t.change
        /\ h2.tx.pay = Some(h.amount) /\ h2.tx.fee = h.fee /\ h2.tx.offset = t.offset
    BY <1>4, TxIs
  <1> HIDE DEF key
  <1>6. /\ IsSlate(s) /\ SameInfo(s, h2) /\ s.amount = h2.amount /\ s.fee = h2.fee
        /\ s.parts = Append(h2.parts, Part(1, GenerateOffset(h2, key), None))
        /\ s.tx = Taken(h2.tx.ins, h2.tx.change, h2.tx.pay, h2.tx.fee)
    BY <1>1, <1>4, <1>5, FillRound1Is
  <1>7. GenerateOffset(h2, key) = GenerateOffset(h, key)
    BY <1>5 DEF GenerateOffset
  <1>8. SameInfo(s, h)
    BY <1>4, <1>6 DEF SameInfo
  <1>9. QED
    BY <1>4, <1>5, <1>6, <1>7, <1>8 DEF key

\* A new slate, and the keys of both wallets, in the terms of the lemmas above.
LEMMA BlankIs ==
  ASSUME NEW amount, NEW ttl, NEW h, h = Blank(amount, ttl)
  PROVE  /\ IsSlate(h) /\ IsTx(h.tx) /\ IsFresh(h)
         /\ h.tx.pay = None /\ h.tx.ins = {} /\ h.tx.change = <<>>
         /\ h.amount = amount /\ h.fee = 0 /\ h.parts = <<>> /\ h.proof = None
         /\ h.version = 3 /\ h.orig = 3 /\ h.ttl = ttl
  <1>1. h.tx = Tx({}, <<>>, None, 0, FALSE)
    BY DEF Blank, BlankTx, Tx
  <1>2. IsFresh(h) /\ h.tx.pay = None /\ h.tx.ins = {} /\ h.tx.change = <<>>
    BY <1>1 DEF Tx, IsFresh
  <1>3. IsTx(h.tx)
    BY <1>1 DEF IsTx, Tx
  <1>4. IsSlate(h)
    BY DEF Blank, IsSlate, SlateFields
  <1>5. /\ h.amount = amount /\ h.fee = 0 /\ h.parts = <<>> /\ h.proof = None
        /\ h.version = 3 /\ h.orig = 3 /\ h.ttl = ttl
    BY DEF Blank
  <1>6. QED
    BY <1>2, <1>3, <1>4, <1>5

\* The elements of a payment, under the name the proofs use for them.
LEMMA ElementsAre ==
  \A q, x, p : Elements(q, x, p) = Taken(ToSet(x.coins), Get(Split(q, x)), p, x.fee)
  BY DEF Elements, Taken, Tx

\* The fields of the elements of a payment.
LEMMA TakenIs ==
  \A i, c, p, f :
    /\ IsTx(Taken(i, c, p, f))
    /\ Taken(i, c, p, f).ins = i /\ Taken(i, c, p, f).change = c
    /\ Taken(i, c, p, f).pay = p /\ Taken(i, c, p, f).fee = f
  BY DEF Taken, IsTx, Tx

\* The fields of a wallet's whole key.
LEMMA WholeIs ==
  \A i, c, p : Whole(i, c, p).ins = i /\ Whole(i, c, p).change = c /\ Whole(i, c, p).pay = p
  BY DEF Whole

\* The payee's key is the output it adds, worth the slate's amount.
LEMMA PayeeKeyIs ==
  ASSUME NEW h PROVE PayeeKey(h) = Whole({}, <<>>, Some(h.amount))
  <1>1. ASSUME NEW v, NEW k, k = [NoKey EXCEPT !.pay = v] PROVE k = Whole({}, <<>>, v)
    BY <1>1 DEF NoKey, Whole
  <1>2. QED
    BY <1>1 DEF PayeeKey

\* new_tx_slate and add_inputs_to_slate make an offer of a selection.
LEMMA BuildsOffer ==
  ASSUME NEW q, NEW x, NEW ttl, NEW h, h = Blank(q.amount, ttl),
         NEW key, key = PayerSecond(q, x),
         NEW s, s = PayerFills(h, x.fee, key)
  PROVE  /\ IsSlate(s) /\ Offered(s, q, x) /\ SameInfo(s, h)
         /\ GenerateOffset(h, key) = PayerFirst(q, x)
  <1>1. /\ IsSlate(h) /\ IsTx(h.tx) /\ IsFresh(h) /\ h.tx.pay = None
        /\ h.amount = q.amount /\ h.parts = <<>>
    BY BlankIs
  <1>2. /\ IsSlate(s) /\ SameInfo(s, h) /\ s.amount = h.amount /\ s.fee = x.fee
        /\ s.tx = Taken(key.ins, key.change, h.tx.pay, x.fee)
        /\ s.parts = Append(h.parts, Part(0, GenerateOffset(h, key), None))
    BY <1>1, PayerRound
  <1>3. key.ins = ToSet(x.coins) /\ key.change = Get(Split(q, x))
    BY DEF PayerSecond, Whole
  <1>4. GenerateOffset(h, key) = PayerFirst(q, x)
    BY <1>1, OffsetOnce DEF PayerFirst, PayerSecond
  <1>5. s.tx = Elements(q, x, None)
    BY <1>1, <1>2, <1>3, ElementsAre
  <1>6. s.parts = <<Part(0, PayerFirst(q, x), None)>>
    BY <1>1, <1>2, <1>4, Appends
  <1>7. Offered(s, q, x)
    BY <1>1, <1>2, <1>5, <1>6 DEF Offered, Carries, Part
  <1>8. QED
    BY <1>2, <1>4, <1>7

\* issue_invoice_tx makes an invoice of the payee's output.
LEMMA IssuesInvoice ==
  ASSUME NEW q, NEW h, h = Blank(q.amount, None), NEW s, s = WithOutput(h)
  PROVE  /\ IsSlate(s) /\ Issued(s, q) /\ SameInfo(s, h)
         /\ GenerateOffset(h, PayeeKey(s)) = PayeeFirst(q)
  <1>1. /\ IsSlate(h) /\ IsTx(h.tx) /\ IsFresh(h) /\ h.tx.ins = {} /\ h.tx.change = <<>>
        /\ h.amount = q.amount /\ h.parts = <<>> /\ h.fee = 0
    BY BlankIs
  <1>2. /\ IsSlate(s) /\ SameInfo(s, h) /\ s.amount = h.amount /\ s.fee = h.fee
        /\ s.tx = Taken(h.tx.ins, h.tx.change, Some(h.amount), h.fee)
        /\ s.parts = Append(h.parts, Part(1, GenerateOffset(h, PayeeKey(h)), None))
    BY <1>1, PayeeRound
  <1>3. PayeeKey(h) = Whole({}, <<>>, Some(q.amount)) /\ PayeeKey(s) = PayeeKey(h)
    BY <1>1, <1>2, PayeeKeyIs
  <1>4. GenerateOffset(h, PayeeKey(h)) = PayeeFirst(q)
    BY <1>1, <1>3, OffsetOnce DEF PayeeFirst
  <1>5. s.parts = <<Part(1, PayeeFirst(q), None)>>
    BY <1>1, <1>2, <1>4, Appends
  <1>6. s.tx = Taken({}, <<>>, Some(q.amount), 0)
    BY <1>1, <1>2
  <1>7. Issued(s, q)
    BY <1>1, <1>2, <1>5, <1>6 DEF Issued, Carries, Part, Taken, Tx
  <1>8. QED
    BY <1>2, <1>3, <1>4, <1>7

\* The signatures of two participants who signed for the same keys and fee verify.
MaySign(g, key, a, b, fee) == g \in {None, Some(SigBy(key, a, b, fee))}

\* Partial signatures made over the keys and the fee of the slate verify, and two
\* of them finalize.
LEMMA SignaturesOf ==
  ASSUME NEW s, NEW i0, NEW k0, NEW g0, NEW i1, NEW k1, NEW g1,
         s.parts = Pair(Part(i0, k0, g0), Part(i1, k1, g1)),
         MaySign(g0, k0, k0, k1, s.fee), MaySign(g1, k1, k0, k1, s.fee)
  PROVE  /\ VerifyPartSigs(s)
         /\ g0 # None /\ g1 # None => FinalizeSignature(s)
  <1> DEFINE p0 == Part(i0, k0, g0)
             p1 == Part(i1, k1, g1)
             sig0 == SigBy(k0, k0, k1, s.fee)
             sig1 == SigBy(k1, k0, k1, s.fee)
  <1>1. ToSet(s.parts) = {p0, p1} /\ PubKeySum(s) = {k0, k1}
    <2>1. ToSet(s.parts) = {p0, p1}
      BY PartsAre
    <2>2. PubKeySum(s) = {k0, k1}
      BY PartsAre
    <2>3. QED
      BY <2>1, <2>2
  <1>2. p0.key = k0 /\ p0.sig = g0 /\ p1.key = k1 /\ p1.sig = g1
    BY PartIs
  <1>3. /\ sig0 = [by |-> k0, keys |-> {k0, k1}, msg |-> s.fee]
        /\ sig1 = [by |-> k1, keys |-> {k0, k1}, msg |-> s.fee]
    BY DEF SigBy
  <1>4. g0 \in {None, Some(sig0)} /\ g1 \in {None, Some(sig1)}
    BY DEF MaySign
  <1> HIDE DEF p0, p1, sig0, sig1
  <1>5. IsComplete(p0) => Get(p0.sig) = [by |-> p0.key, keys |-> PubKeySum(s), msg |-> MsgToSign(s)]
    <2>1. IsComplete(p0) => Get(p0.sig) = sig0
      BY <1>2, <1>4, Options DEF IsComplete
    <2>2. QED
      BY <1>1, <1>2, <1>3, <2>1 DEF MsgToSign
  <1>6. IsComplete(p1) => Get(p1.sig) = [by |-> p1.key, keys |-> PubKeySum(s), msg |-> MsgToSign(s)]
    <2>1. IsComplete(p1) => Get(p1.sig) = sig1
      BY <1>2, <1>4, Options DEF IsComplete
    <2>2. QED
      BY <1>1, <1>2, <1>3, <2>1 DEF MsgToSign
  <1>7. VerifyPartSigs(s)
    BY <1>1, <1>5, <1>6 DEF VerifyPartSigs
  <1>8. g0 # None /\ g1 # None => IsComplete(p0) /\ IsComplete(p1)
    BY <1>2 DEF IsComplete, IsSome
  <1>9. QED
    BY <1>1, <1>7, <1>8 DEF FinalizeSignature

\* What the rounds make of a slate, in the terms of the lemmas above.
LEMMA OfferedIs ==
  ASSUME NEW s, NEW q, NEW x
  PROVE  Offered(s, q, x) <=>
            /\ s.amount = q.amount /\ s.fee = x.fee /\ s.tx = Elements(q, x, None)
            /\ s.parts = <<Part(0, PayerFirst(q, x), None)>>
  BY Zenon DEF Offered, Carries, Part

\* A slate the payee of a payment has answered, field by field.
LEMMA AnsweredIs ==
  ASSUME NEW s, NEW q, NEW x
  PROVE  Answered(s, q, x) <=>
            /\ s.amount = q.amount /\ s.fee = x.fee /\ s.tx = Elements(q, x, Some(q.amount))
            /\ s.parts = Pair(Part(0, PayerFirst(q, x), None),
                             Part(1, PayeeSecond(q),
                                  Some(SigBy(PayeeSecond(q), PayerFirst(q, x), PayeeSecond(q), x.fee))))
  <1>1. \A a, b : {a, b} = {b, a}
    OBVIOUS
  <1>2. \A k, o : SigOf(q, x, k, o) = SigBy(k, o, k, x.fee)
    BY <1>1 DEF SigOf, SigBy
  <1>3. QED
    BY <1>2 DEF Answered, Carries, Part, Pair

\* An invoice as its payee issued it, field by field.
LEMMA IssuedIs ==
  ASSUME NEW s, NEW q
  PROVE  Issued(s, q) <=>
            /\ s.amount = q.amount /\ s.fee = 0 /\ s.tx = Taken({}, <<>>, Some(q.amount), 0)
            /\ s.parts = <<Part(1, PayeeFirst(q), None)>>
  <1>1. [ins |-> {}, change |-> <<>>, pay |-> Some(q.amount), fee |-> 0, offset |-> TRUE]
          = Taken({}, <<>>, Some(q.amount), 0)
    BY DEF Taken, Tx
  <1>2. QED
    BY <1>1, Zenon DEF Issued, Carries, Part

\* An invoice its payer has paid, field by field.
LEMMA PaidForIs ==
  ASSUME NEW s, NEW q, NEW x
  PROVE  PaidFor(s, q, x) <=>
            /\ s.amount = q.amount /\ s.fee = x.fee /\ s.tx = Elements(q, x, Some(q.amount))
            /\ s.parts = Pair(Part(1, PayeeFirst(q), None),
                             Part(0, PayerSecond(q, x),
                                  Some(SigBy(PayerSecond(q, x), PayeeFirst(q), PayerSecond(q, x), x.fee))))
  <1>1. \A a, b : {a, b} = {b, a}
    OBVIOUS
  <1>2. \A k, o : SigOf(q, x, k, o) = SigBy(k, o, k, x.fee)
    BY <1>1 DEF SigOf, SigBy
  <1>3. QED
    BY <1>2 DEF PaidFor, Carries, Part, Pair

\* The payee signs amount and kernel of the slate it answers.
Message(q, x) == [amount |-> q.amount, excess |-> Excess(q, x)]

\* Over the elements of a payment, the slate gives its excess and its amount: the
\* message a payment proof signs.
LEMMA MessageIs ==
  ASSUME NEW q, NEW x, NEW s, s.tx = Elements(q, x, Some(q.amount)), s.amount = q.amount
  PROVE  CalcExcess(s) = Excess(q, x) /\ ProofMessage(s) = Message(q, x)
  <1>1. CalcExcess(s) = Excess(q, x)
    BY DEF CalcExcess, Excess, Elements
  <1>2. QED
    BY <1>1 DEF ProofMessage, Message

\* Signing the payment proof changes the proof and nothing else, and only when one
\* was asked for.
LEMMA SignProofIs ==
  ASSUME NEW s, IsSlate(s), NEW r, r = SignProof(s)
  PROVE  /\ IsSlate(r) /\ r.amount = s.amount /\ r.fee = s.fee /\ r.tx = s.tx /\ r.parts = s.parts
         /\ r.ttl = s.ttl /\ r.version = s.version /\ r.orig = s.orig
         /\ r.proof = IF IsSome(s.proof) THEN Some([sig |-> Some(ProofMessage(s))]) ELSE None
  <1> DEFINE v == IF IsSome(s.proof) THEN Some([sig |-> Some(ProofMessage(s))]) ELSE None
  <1>1. r = [s EXCEPT !.proof = v]
    BY DEF SignProof
  <1> HIDE DEF v
  <1>2. r.proof = v /\ DOMAIN r = SlateFields
        /\ r.amount = s.amount /\ r.fee = s.fee /\ r.tx = s.tx /\ r.parts = s.parts
        /\ r.ttl = s.ttl /\ r.version = s.version /\ r.orig = s.orig
    BY <1>1 DEF IsSlate, SlateFields
  <1>3. QED
    BY <1>2 DEF IsSlate, v

\* receive_tx accepts an offer of a payment, signs for it and signs the proof asked for.
LEMMA Answers ==
  ASSUME NEW q, NEW x, Payment(q, x), NEW h, IsSlate(h), Offered(h, q, x)
  PROVE  /\ CanFillRound2(WithOutput(h))
         /\ IsSlate(Received(h)) /\ Answered(Received(h), q, x)
         /\ Received(h).ttl = h.ttl /\ Received(h).version = h.version
         /\ Received(h).orig = h.orig
         /\ Received(h).proof = IF IsSome(h.proof) THEN Some([sig |-> Some(Message(q, x))]) ELSE None
  <1> DEFINE w == WithOutput(h)
             key == GenerateOffset(h, PayeeKey(h))
             f == FillRound2(w, 1, key)
             r == Received(h)
             k0 == PayerFirst(q, x)
             k1 == PayeeSecond(q)
  <1>1. /\ h.amount = q.amount /\ h.fee = x.fee /\ h.tx = Elements(q, x, None)
        /\ h.parts = <<Part(0, k0, None)>>
    BY OfferedIs
  <1>2. /\ IsTx(h.tx) /\ h.tx.ins = ToSet(x.coins) /\ h.tx.change = Get(Split(q, x)) /\ IsTaken(h)
    BY <1>1, ElementsAre, TakenIs DEF IsTaken, Taken, Tx
  <1>3. PayeeKey(h) = Whole({}, <<>>, Some(q.amount))
    BY <1>1, PayeeKeyIs
  <1>4. key = k1
    BY <1>2, <1>3, OffsetOnce DEF PayeeSecond
  <1> HIDE DEF key, k0, k1
  <1>5. r = SignProof(f)
    BY <1>4 DEF Received, key
  <1>16. f = FillRound2(w, 1, k1)
    BY <1>4
  <1>17. w = WithOutput(h)
    OBVIOUS
  <1> HIDE DEF w, f, r
  <1>6. /\ IsSlate(w) /\ SameInfo(w, h) /\ w.amount = h.amount /\ w.fee = h.fee
        /\ w.tx = Taken(h.tx.ins, h.tx.change, Some(h.amount), h.fee)
        /\ w.parts = Append(h.parts, Part(1, GenerateOffset(h, PayeeKey(h)), None))
    BY <1>2, <1>17, PayeeRound
  <1>7. w.tx = Elements(q, x, Some(q.amount)) /\ w.amount = q.amount /\ w.fee = x.fee
    BY <1>1, <1>2, <1>6, ElementsAre
  <1>8. w.parts = Pair(Part(0, k0, None), Part(1, k1, None))
    <2>1. GenerateOffset(h, PayeeKey(h)) = k1
      BY <1>4 DEF key
    <2>2. QED
      BY <1>1, <1>6, <2>1, Appends DEF Pair
  <1>9. CanFillRound2(w)
    <2>1. MaySign(None, k0, k0, k1, w.fee) /\ MaySign(None, k1, k0, k1, w.fee)
      BY DEF MaySign
    <2>2. VerifyPartSigs(w)
      BY <1>8, <2>1, SignaturesOf
    <2>3. CheckFees(w)
      BY <1>7, FeeCovers
    <2>4. QED
      BY <2>2, <2>3 DEF CanFillRound2
  <1>10. /\ IsSlate(f) /\ SameInfo(f, w) /\ f.amount = w.amount /\ f.fee = w.fee /\ f.tx = w.tx
         /\ f.parts = Pair(Part(0, k0, None), Part(1, k1, Some(SigBy(k1, k0, k1, w.fee))))
    <2>1. 0 \in Nat /\ 1 \in Nat /\ 0 # 1
      OBVIOUS
    <2>3. IsSlate(w)
      BY <1>6
    <2>2. QED
      BY <1>16, <1>8, <2>1, <2>3, FillRound2Is
  <1>11. /\ IsSlate(r) /\ r.amount = f.amount /\ r.fee = f.fee /\ r.tx = f.tx /\ r.parts = f.parts
         /\ r.ttl = f.ttl /\ r.version = f.version /\ r.orig = f.orig
         /\ r.proof = IF IsSome(f.proof) THEN Some([sig |-> Some(ProofMessage(f))]) ELSE None
    <2>1. IsSlate(f)
      BY <1>10
    <2>2. QED
      BY <1>5, <2>1, SignProofIs
  <1>12. Answered(r, q, x)
    BY <1>7, <1>10, <1>11, AnsweredIs DEF k0, k1
  <1>13. ProofMessage(f) = Message(q, x)
    BY <1>7, <1>10, MessageIs
  <1>14. f.proof = h.proof /\ f.ttl = h.ttl /\ f.version = h.version /\ f.orig = h.orig
    BY <1>6, <1>10 DEF SameInfo
  <1>15. QED
    BY <1>9, <1>11, <1>12, <1>13, <1>14 DEF w, r

\* process_invoice pays an invoice with a selection.
LEMMA PaysInvoice ==
  ASSUME NEW q, NEW x, Payment(q, x), NEW h, IsSlate(h), Issued(h, q),
         NEW s, s = PayerFills(h, x.fee, PayerSecond(q, x)),
         NEW mine, mine = GenerateOffset(h, PayerSecond(q, x))
  PROVE  /\ CanFillRound2(s)
         /\ IsSlate(FillRound2(s, 0, mine)) /\ PaidFor(FillRound2(s, 0, mine), q, x)
  <1> DEFINE key == PayerSecond(q, x)
             f == FillRound2(s, 0, mine)
             k1 == PayeeFirst(q)
  <1>1. /\ h.amount = q.amount /\ h.tx = Taken({}, <<>>, Some(q.amount), 0)
        /\ h.parts = <<Part(1, k1, None)>>
    BY IssuedIs
  <1>2. IsTx(h.tx) /\ h.tx.pay = Some(q.amount) /\ IsTaken(h)
    BY <1>1, TakenIs DEF IsTaken, Taken, Tx
  <1>3. key = Whole(ToSet(x.coins), Get(Split(q, x)), None)
    BY DEF PayerSecond
  <1>4. mine = key /\ key.ins = ToSet(x.coins) /\ key.change = Get(Split(q, x))
    <2>1. \A a, b : GenerateOffset(h, Whole(a, b, None)) = Whole(a, b, None)
      BY <1>2, OffsetOnce
    <2>2. mine = key
      BY <2>1 DEF PayerSecond
    <2>3. QED
      BY <1>3, <2>2, WholeIs
  <1> HIDE DEF key, k1
  <1>5. s = PayerFills(h, x.fee, key) /\ GenerateOffset(h, key) = key
    BY <1>4 DEF key
  <1>13. f = FillRound2(s, 0, key)
    BY <1>4
  <1> HIDE DEF f
  <1>6. /\ IsSlate(s) /\ SameInfo(s, h) /\ s.amount = h.amount /\ s.fee = x.fee
        /\ s.tx = Taken(key.ins, key.change, h.tx.pay, x.fee)
        /\ s.parts = Append(h.parts, Part(0, GenerateOffset(h, key), None))
    BY <1>2, <1>5, PayerRound
  <1>7. s.tx = Elements(q, x, Some(q.amount)) /\ s.amount = q.amount
    BY <1>1, <1>2, <1>4, <1>6, ElementsAre
  <1>8. s.parts = Pair(Part(1, k1, None), Part(0, key, None))
    BY <1>1, <1>5, <1>6, Appends DEF Pair
  <1>9. CanFillRound2(s)
    <2>1. MaySign(None, k1, k1, key, s.fee) /\ MaySign(None, key, k1, key, s.fee)
      BY DEF MaySign
    <2>2. VerifyPartSigs(s)
      BY <1>8, <2>1, SignaturesOf
    <2>3. CheckFees(s)
      BY <1>6, <1>7, FeeCovers
    <2>4. QED
      BY <2>2, <2>3 DEF CanFillRound2
  <1>10. /\ IsSlate(f) /\ f.amount = s.amount /\ f.fee = s.fee /\ f.tx = s.tx
         /\ f.parts = Pair(Part(1, k1, None), Part(0, key, Some(SigBy(key, k1, key, s.fee))))
    <2>1. 0 \in Nat /\ 1 \in Nat /\ 1 # 0
      OBVIOUS
    <2>3. IsSlate(s)
      BY <1>6
    <2>2. QED
      BY <1>13, <1>8, <2>1, <2>3, FillRound2Is
  <1>11. PaidFor(f, q, x)
    BY <1>6, <1>7, <1>10, PaidForIs DEF k1, key
  <1>12. QED
    BY <1>9, <1>10, <1>11 DEF f

\* complete_tx: with the signatures of both wallets everything verifies, as long as the
\* change adds up.
LEMMA CompletesPayment ==
  ASSUME NEW q, NEW x, Payment(q, x), NEW s, IsSlate(s), Answered(s, q, x),
         NEW d, d = FillRound2(s, 0, PayerFirst(q, x))
  PROVE  /\ CanFillRound2(s) /\ d.proof = s.proof
         /\ CanFinalize(d, q.coins) <=> SplitsEvenly(ChangeOf(q, x), Outs(q))
         /\ CalcExcess(d) = Excess(q, x) /\ ProofMessage(d) = Message(q, x)
  <1> DEFINE k0 == PayerFirst(q, x)
             k1 == PayeeSecond(q)
             sig1 == Some(SigBy(k1, k0, k1, s.fee))
             sig0 == Some(SigBy(k0, k0, k1, s.fee))
  <1>1. /\ s.amount = q.amount /\ s.fee = x.fee /\ s.tx = Elements(q, x, Some(q.amount))
        /\ s.parts = Pair(Part(0, k0, None), Part(1, k1, sig1))
    BY AnsweredIs
  <1>2. d = FillRound2(s, 0, k0)
    OBVIOUS
  <1>3. k0 = PayerFirst(q, x) /\ k1 = PayeeSecond(q)
    OBVIOUS
  <1>4. /\ MaySign(None, k0, k0, k1, s.fee) /\ MaySign(sig0, k0, k0, k1, s.fee)
        /\ MaySign(sig1, k1, k0, k1, s.fee) /\ sig0 # None /\ sig1 # None
    BY Options DEF MaySign
  <1> HIDE DEF k0, k1
  <1>5. /\ IsSlate(d) /\ SameInfo(d, s) /\ d.amount = s.amount /\ d.fee = s.fee /\ d.tx = s.tx
        /\ d.parts = Pair(Part(0, k0, sig0), Part(1, k1, sig1))
    <2> HIDE DEF sig1
    <2>1. 0 \in Nat /\ 1 \in Nat /\ 0 # 1
      OBVIOUS
    <2>2. s.parts = Pair(Part(0, k0, None), Part(1, k1, sig1))
      BY <1>1
    <2>3. QED
      BY <1>2, <2>1, <2>2, FillRound2Is
  <1>6. CanFillRound2(s)
    <2>1. VerifyPartSigs(s)
      <3> HIDE DEF sig1
      <3>1. QED
        BY <1>1, <1>4, SignaturesOf
    <2>2. CheckFees(s)
      BY <1>1, FeeCovers
    <2>3. QED
      BY <2>1, <2>2 DEF CanFillRound2
  <1>7. d.tx = Elements(q, x, Some(q.amount)) /\ d.amount = q.amount /\ d.fee = x.fee
    BY <1>1, <1>5
  <1>8. FinalizeSignature(d) /\ CheckFees(d)
    <2>1. MaySign(sig0, k0, k0, k1, d.fee) /\ MaySign(sig1, k1, k0, k1, d.fee)
      BY <1>4, <1>5
    <2> HIDE DEF sig0, sig1
    <2>2. FinalizeSignature(d)
      BY <1>4, <1>5, <2>1, SignaturesOf
    <2>3. CheckFees(d)
      BY <1>7, FeeCovers
    <2>4. QED
      BY <2>2, <2>3
  <1>9. KernelVerifies(d, q.coins) <=> SplitsEvenly(ChangeOf(q, x), Outs(q))
    <2>1. PubKeySum(d) = {k0, k1}
      BY <1>5, PartsAre
    <2>2. QED
      BY <1>3, <1>7, <2>1, KernelOf
  <1>10. CalcExcess(d) = Excess(q, x) /\ ProofMessage(d) = Message(q, x)
    BY <1>7, MessageIs
  <1>11. d.proof = s.proof
    BY <1>5 DEF SameInfo
  <1>12. QED
    BY <1>6, <1>8, <1>9, <1>10, <1>11 DEF CanFinalize

\* The payee of an invoice can sign what its payer returned, and the result
\* finalizes exactly when the payer's change splits evenly.
LEMMA CompletesInvoice ==
  ASSUME NEW q, NEW x, Payment(q, x), NEW s, IsSlate(s), PaidFor(s, q, x),
         NEW d, d = FillRound2(s, 1, PayeeFirst(q))
  PROVE  /\ CanFillRound2(s)
         /\ CanFinalize(d, q.coins) <=> SplitsEvenly(ChangeOf(q, x), Outs(q))
  <1> DEFINE k0 == PayeeFirst(q)
             k1 == PayerSecond(q, x)
             sig1 == Some(SigBy(k1, k0, k1, s.fee))
             sig0 == Some(SigBy(k0, k0, k1, s.fee))
  <1>1. /\ s.amount = q.amount /\ s.fee = x.fee /\ s.tx = Elements(q, x, Some(q.amount))
        /\ s.parts = Pair(Part(1, k0, None), Part(0, k1, sig1))
    BY PaidForIs
  <1>2. d = FillRound2(s, 1, k0)
    OBVIOUS
  <1>3. k0 = PayeeFirst(q) /\ k1 = PayerSecond(q, x)
    OBVIOUS
  <1>4. /\ MaySign(None, k0, k0, k1, s.fee) /\ MaySign(sig0, k0, k0, k1, s.fee)
        /\ MaySign(sig1, k1, k0, k1, s.fee) /\ sig0 # None /\ sig1 # None
    BY Options DEF MaySign
  <1> HIDE DEF k0, k1
  <1>5. /\ IsSlate(d) /\ SameInfo(d, s) /\ d.amount = s.amount /\ d.fee = s.fee /\ d.tx = s.tx
        /\ d.parts = Pair(Part(1, k0, sig0), Part(0, k1, sig1))
    <2> HIDE DEF sig1
    <2>1. 0 \in Nat /\ 1 \in Nat /\ 1 # 0
      OBVIOUS
    <2>2. s.parts = Pair(Part(1, k0, None), Part(0, k1, sig1))
      BY <1>1
    <2>3. QED
      BY <1>2, <2>1, <2>2, FillRound2Is
  <1>6. CanFillRound2(s)
    <2>1. VerifyPartSigs(s)
      <3> HIDE DEF sig1
      <3>1. QED
        BY <1>1, <1>4, SignaturesOf
    <2>2. CheckFees(s)
      BY <1>1, FeeCovers
    <2>3. QED
      BY <2>1, <2>2 DEF CanFillRound2
  <1>7. d.tx = Elements(q, x, Some(q.amount)) /\ d.amount = q.amount /\ d.fee = x.fee
    BY <1>1, <1>5
  <1>8. FinalizeSignature(d) /\ CheckFees(d)
    <2>1. MaySign(sig0, k0, k0, k1, d.fee) /\ MaySign(sig1, k1, k0, k1, d.fee)
      BY <1>4, <1>5
    <2> HIDE DEF sig0, sig1
    <2>2. FinalizeSignature(d)
      BY <1>4, <1>5, <2>1, SignaturesOf
    <2>3. CheckFees(d)
      BY <1>7, FeeCovers
    <2>4. QED
      BY <2>2, <2>3
  <1>9. KernelVerifies(d, q.coins) <=> SplitsEvenly(ChangeOf(q, x), Outs(q))
    <2>1. PubKeySum(d) = {k0, k1}
      BY <1>5, PartsAre
    <2>2. PubKeySum(d) = {k1, k0}
      BY <2>1
    <2>3. QED
      BY <1>3, <1>7, <2>2, KernelOf
  <1>10. QED
    BY <1>6, <1>8, <1>9 DEF CanFinalize

\* finalize tells by the signature of participant 1 which side a slate came back to.
LEMMA SidesAre ==
  ASSUME NEW s, NEW q, NEW x
  PROVE  /\ Answered(s, q, x) => IsComplete(Participant(s, 1))
         /\ PaidFor(s, q, x) => ~ IsComplete(Participant(s, 1))
  <1>1. ASSUME NEW p0, NEW p1, s.parts = Pair(p0, p1)
        PROVE  /\ p0.id = 0 /\ p1.id = 1 => Participant(s, 1) = p1
               /\ p0.id = 1 /\ p1.id = 0 => Participant(s, 1) = p0
    <2> DEFINE t == s.parts
               at(i) == t[i].id = 1
    <2>1. DOMAIN t = {1, 2} /\ t[1] = p0 /\ t[2] = p1
      BY <1>1 DEF Pair
    <2> HIDE DEF t
    <2>2. Participant(s, 1) = t[CHOOSE i \in DOMAIN t : at(i)]
      BY DEF Participant, t
    <2>3. ASSUME p0.id = 0, p1.id = 1 PROVE Participant(s, 1) = p1
      <3>1. (CHOOSE i \in DOMAIN t : at(i)) = 2
        BY <2>1, <2>3
      <3>2. QED
        BY <2>1, <2>2, <3>1
    <2>4. ASSUME p0.id = 1, p1.id = 0 PROVE Participant(s, 1) = p0
      <3>1. (CHOOSE i \in DOMAIN t : at(i)) = 1
        BY <2>1, <2>4
      <3>2. QED
        BY <2>1, <2>2, <3>1
    <2>5. QED
      BY <2>3, <2>4
  <1>2. ASSUME Answered(s, q, x) PROVE IsComplete(Participant(s, 1))
    <2> DEFINE sig == SigBy(PayeeSecond(q), PayerFirst(q, x), PayeeSecond(q), x.fee)
               p0 == Part(0, PayerFirst(q, x), None)
               p1 == Part(1, PayeeSecond(q), Some(sig))
    <2>1. s.parts = Pair(p0, p1)
      BY <1>2, AnsweredIs
    <2>2. p0.id = 0 /\ p1.id = 1 /\ p1.sig = Some(sig)
      BY PartIs
    <2> HIDE DEF p0, p1, sig
    <2>3. Participant(s, 1) = p1
      BY <1>1, <2>1, <2>2
    <2>4. QED
      BY <2>2, <2>3, Options DEF IsComplete
  <1>3. ASSUME PaidFor(s, q, x) PROVE ~ IsComplete(Participant(s, 1))
    <2> DEFINE sig == SigBy(PayerSecond(q, x), PayeeFirst(q), PayerSecond(q, x), x.fee)
               p0 == Part(1, PayeeFirst(q), None)
               p1 == Part(0, PayerSecond(q, x), Some(sig))
    <2>1. s.parts = Pair(p0, p1)
      BY <1>3, PaidForIs
    <2>2. p0.id = 1 /\ p1.id = 0 /\ p0.sig = None
      BY PartIs
    <2> HIDE DEF p0, p1, sig
    <2>3. Participant(s, 1) = p0
      BY <1>1, <2>1, <2>2
    <2>4. QED
      BY <2>2, <2>3, Options DEF IsComplete
  <1>4. QED
    BY <1>2, <1>3

-----------------------------------------------------------------------------
(* Versions and formats *)

\* What every version carries, and what only version 3 does.
SameBody(a, b) ==
  /\ a.amount = b.amount /\ a.fee = b.fee /\ a.tx = b.tx /\ a.parts = b.parts
SameVersion(a, b) == a.version = b.version /\ a.orig = b.orig
SameExtra(a, b)   == a.ttl = b.ttl /\ a.proof = b.proof

\* The body is all that the rounds are about.
LEMMA BodyKeeps ==
  ASSUME NEW a, NEW b, SameBody(a, b), NEW q, NEW x
  PROVE  /\ Offered(b, q, x) => Offered(a, q, x)
         /\ Answered(b, q, x) => Answered(a, q, x)
         /\ Issued(b, q) => Issued(a, q)
         /\ PaidFor(b, q, x) => PaidFor(a, q, x)
  <1>1. \A amount, fee, tx, parts : Carries(b, amount, fee, tx, parts) => Carries(a, amount, fee, tx, parts)
    BY DEF SameBody, Carries
  <1>2. Offered(b, q, x) => Offered(a, q, x)
    BY <1>1 DEF Offered
  <1>3. Answered(b, q, x) => Answered(a, q, x)
    BY <1>1 DEF Answered
  <1>4. Issued(b, q) => Issued(a, q)
    BY <1>1 DEF Issued
  <1>5. PaidFor(b, q, x) => PaidFor(a, q, x)
    BY <1>1 DEF PaidFor
  <1>6. QED
    BY <1>2, <1>3, <1>4, <1>5

\* Slate to SlateV3: every field is kept.
LEMMA SlateToV3Is ==
  ASSUME NEW s
  PROVE  /\ SlateToV3(s).fmt = 3 /\ SameBody(SlateToV3(s), s)
         /\ SameVersion(SlateToV3(s), s) /\ SameExtra(SlateToV3(s), s)
  BY DEF SlateToV3, LayoutV3, LayoutV2, SameBody, SameVersion, SameExtra

\* SlateV3 to SlateV2: the ttl and the proof are lost, the rest is kept.
LEMMA V3ToV2Is ==
  ASSUME NEW v
  PROVE  V3ToV2(v).fmt = 2 /\ SameBody(V3ToV2(v), v) /\ SameVersion(V3ToV2(v), v)
  BY DEF V3ToV2, LayoutV2, SameBody, SameVersion

\* SlateV2 to SlateV3: there is neither a ttl nor a proof.
LEMMA V2ToV3Is ==
  ASSUME NEW v
  PROVE  /\ V2ToV3(v).fmt = 3 /\ SameBody(V2ToV3(v), v) /\ SameVersion(V2ToV3(v), v)
         /\ V2ToV3(v).ttl = None /\ V2ToV3(v).proof = None
  BY DEF V2ToV3, LayoutV3, LayoutV2, SameBody, SameVersion

\* SlateV3 to Slate: every field is kept.
LEMMA V3ToSlateIs ==
  ASSUME NEW v
  PROVE  /\ DOMAIN V3ToSlate(v) = SlateFields /\ SameBody(V3ToSlate(v), v)
         /\ SameVersion(V3ToSlate(v), v) /\ SameExtra(V3ToSlate(v), v)
  <1>1. LayoutV3 \ {"fmt"} = SlateFields
    BY DEF LayoutV3, LayoutV2, SlateFields
  <1>2. V3ToSlate(v) = [f \in SlateFields |-> v[f]]
    BY <1>1 DEF V3ToSlate
  <1>3. QED
    BY <1>2 DEF SlateFields, SameBody, SameVersion, SameExtra

\* into_version: the ttl and the proof survive in V3 only.
LEMMA IntoVersionIs ==
  ASSUME NEW s, IsSlate(s), NEW n, n = 2 \/ n = 3
  PROVE  /\ IsWire(IntoVersion(s, n)) /\ IntoVersion(s, n).fmt = n
         /\ SameBody(IntoVersion(s, n), s) /\ SameVersion(IntoVersion(s, n), s)
         /\ n = 3 => SameExtra(IntoVersion(s, n), s)
  <1> DEFINE v == SlateToV3(s)
  <1>1. v.fmt = 3 /\ SameBody(v, s) /\ SameVersion(v, s) /\ SameExtra(v, s)
    BY SlateToV3Is
  <1>2. V3ToV2(v).fmt = 2 /\ SameBody(V3ToV2(v), v) /\ SameVersion(V3ToV2(v), v)
    BY V3ToV2Is
  <1>3. n = 3 => IntoVersion(s, n) = v
    BY DEF IntoVersion
  <1>4. n = 2 => IntoVersion(s, n) = V3ToV2(v)
    BY DEF IntoVersion
  <1> HIDE DEF v
  <1>5. s.version \in {2, 3} /\ s.orig \in {2, 3}
    BY DEF IsSlate
  <1>6. CASE n = 3
    BY <1>1, <1>3, <1>5, <1>6 DEF IsWire, SameVersion
  <1>7. CASE n = 2
    <2>1. SameBody(V3ToV2(v), s) /\ SameVersion(V3ToV2(v), s)
      BY <1>1, <1>2 DEF SameBody, SameVersion
    <2>2. QED
      BY <1>2, <1>4, <1>5, <1>7, <2>1 DEF IsWire, SameVersion
  <1>8. QED
    BY <1>6, <1>7

\* Reading either format up to a Slate.
LEMMA UpgradeIs ==
  ASSUME NEW w, IsWire(w)
  PROVE  /\ IsSlate(V3ToSlate(w)) /\ SameBody(V3ToSlate(w), w) /\ SameVersion(V3ToSlate(w), w)
         /\ SameExtra(V3ToSlate(w), w)
         /\ IsSlate(V3ToSlate(V2ToV3(w))) /\ SameBody(V3ToSlate(V2ToV3(w)), w)
         /\ SameVersion(V3ToSlate(V2ToV3(w)), w)
         /\ V3ToSlate(V2ToV3(w)).ttl = None /\ V3ToSlate(V2ToV3(w)).proof = None
  <1> DEFINE v == V2ToV3(w)
             r == V3ToSlate(w)
             u == V3ToSlate(v)
  <1>1. /\ DOMAIN r = SlateFields /\ SameBody(r, w) /\ SameVersion(r, w) /\ SameExtra(r, w)
    BY V3ToSlateIs
  <1>2. SameBody(v, w) /\ SameVersion(v, w) /\ v.ttl = None /\ v.proof = None
    BY V2ToV3Is
  <1>3. DOMAIN u = SlateFields /\ SameBody(u, v) /\ SameVersion(u, v) /\ SameExtra(u, v)
    BY V3ToSlateIs
  <1> HIDE DEF v, r, u
  <1>4. w.version \in {2, 3} /\ w.orig \in {2, 3}
    BY DEF IsWire
  <1>5. SameBody(u, w) /\ SameVersion(u, w) /\ u.ttl = None /\ u.proof = None
    BY <1>2, <1>3 DEF SameBody, SameVersion, SameExtra
  <1>6. IsSlate(r) /\ IsSlate(u)
    BY <1>1, <1>3, <1>4, <1>5 DEF IsSlate, SameVersion
  <1>7. QED
    BY <1>1, <1>5, <1>6 DEF r, u, v

\* A versioned slate read back: its format decides what is there.
LEMMA FromVersionedIs ==
  ASSUME NEW w, IsWire(w)
  PROVE  /\ IsSlate(FromVersioned(w)) /\ SameBody(FromVersioned(w), w)
         /\ SameVersion(FromVersioned(w), w)
         /\ w.fmt = 3 => SameExtra(FromVersioned(w), w)
         /\ w.fmt = 2 => FromVersioned(w).ttl = None /\ FromVersioned(w).proof = None
  <1>1. w.fmt = 3 => FromVersioned(w) = V3ToSlate(w)
    BY DEF FromVersioned
  <1>2. w.fmt = 2 => FromVersioned(w) = V3ToSlate(V2ToV3(w))
    BY DEF FromVersioned
  <1>3. w.fmt = 2 \/ w.fmt = 3
    BY DEF IsWire
  <1>4. CASE w.fmt = 3
    BY <1>1, <1>4, UpgradeIs
  <1>5. CASE w.fmt = 2
    BY <1>2, <1>5, UpgradeIs
  <1>6. QED
    BY <1>3, <1>4, <1>5

\* deserialize_upgrade goes by the version number the slate names: it reads no V2
\* body that names 3, and a slate that names 2 comes without ttl and proof.
LEMMA DeserializeIs ==
  ASSUME NEW w, IsWire(w), NEW o, o = DeserializeUpgrade(w)
  PROVE  /\ IsSome(o) <=> w.version = 2 \/ w.fmt = 3
         /\ IsSome(o) => /\ IsSlate(Get(o)) /\ SameBody(Get(o), w) /\ SameVersion(Get(o), w)
                         /\ w.version = 3 => SameExtra(Get(o), w)
                         /\ w.version = 2 => Get(o).ttl = None /\ Get(o).proof = None
  <1>1. (w.version = 2 \/ w.version = 3) /\ (w.fmt = 2 \/ w.fmt = 3)
    BY DEF IsWire
  <1>2. CASE w.version = 3 /\ w.fmt = 3
    <2>1. o = Some(V3ToSlate(w))
      BY <1>2 DEF DeserializeUpgrade
    <2>2. IsSome(o) /\ Get(o) = V3ToSlate(w)
      BY <2>1, Options
    <2>3. QED
      BY <1>2, <2>2, UpgradeIs
  <1>3. CASE w.version = 3 /\ w.fmt = 2
    <2>1. o = None
      BY <1>3 DEF DeserializeUpgrade
    <2>2. QED
      BY <1>3, <2>1, Options
  <1>4. CASE w.version = 2
    <2>1. o = Some(V3ToSlate(V2ToV3(w)))
      BY <1>4 DEF DeserializeUpgrade
    <2>2. IsSome(o) /\ Get(o) = V3ToSlate(V2ToV3(w))
      BY <2>1, Options
    <2>3. QED
      BY <1>4, <2>2, UpgradeIs
  <1>5. QED
    BY <1>1, <1>2, <1>3, <1>4

\* With the fields of version 2 set, nothing else changes.
Downgraded(s) == [s EXCEPT !.version = 2, !.orig = 2]

\* put_tx first has the slate name version 2: the rest of it stays.
LEMMA DowngradedIs ==
  ASSUME NEW s, IsSlate(s)
  PROVE  /\ IsSlate(Downgraded(s)) /\ SameBody(Downgraded(s), s) /\ SameExtra(Downgraded(s), s)
         /\ Downgraded(s).version = 2 /\ Downgraded(s).orig = 2
  <1> DEFINE k == [s EXCEPT !.version = 2]
             r == Downgraded(s)
  <1>1. DOMAIN k = SlateFields /\ SameBody(k, s) /\ SameExtra(k, s) /\ k.version = 2
    BY DEF IsSlate, SlateFields, SameBody, SameExtra
  <1>2. r = [k EXCEPT !.orig = 2]
    BY DEF Downgraded
  <1> HIDE DEF k, r
  <1>3. DOMAIN r = SlateFields /\ SameBody(r, k) /\ SameExtra(r, k) /\ r.version = 2 /\ r.orig = 2
    BY <1>1, <1>2 DEF SlateFields, SameBody, SameExtra
  <1>4. SameBody(r, s) /\ SameExtra(r, s)
    BY <1>1, <1>3 DEF SameBody, SameExtra
  <1>5. QED
    BY <1>3, <1>4 DEF IsSlate, r

\* put_tx writes V3 when the slate has a proof or a ttl, and V2, naming 2,
\* otherwise.
LEMMA PutTxIs ==
  ASSUME NEW s, IsSlate(s)
  PROVE  /\ IsWire(PutTx(s)) /\ SameBody(PutTx(s), s)
         /\ \/ /\ PutTx(s).fmt = 3 /\ SameExtra(PutTx(s), s) /\ PutTx(s).version = s.version
               /\ IsSome(s.proof) \/ IsSome(s.ttl)
            \/ /\ PutTx(s).fmt = 2 /\ PutTx(s).version = 2
               /\ ~ IsSome(s.proof) /\ ~ IsSome(s.ttl)
  <1>1. CASE IsSome(s.proof) \/ IsSome(s.ttl)
    <2>1. PutTx(s) = IntoVersion(s, 3)
      BY <1>1 DEF PutTx
    <2>2. /\ IsWire(IntoVersion(s, 3)) /\ IntoVersion(s, 3).fmt = 3
          /\ SameBody(IntoVersion(s, 3), s) /\ SameVersion(IntoVersion(s, 3), s)
          /\ SameExtra(IntoVersion(s, 3), s)
      BY IntoVersionIs
    <2>3. QED
      BY <1>1, <2>1, <2>2 DEF SameVersion
  <1>2. CASE ~ (IsSome(s.proof) \/ IsSome(s.ttl))
    <2> DEFINE k == Downgraded(s)
    <2>1. PutTx(s) = IntoVersion(k, 2)
      BY <1>2 DEF PutTx, Downgraded
    <2>2. IsSlate(k) /\ SameBody(k, s) /\ k.version = 2
      BY DowngradedIs
    <2> HIDE DEF k
    <2>3. /\ IsWire(IntoVersion(k, 2)) /\ IntoVersion(k, 2).fmt = 2
          /\ SameBody(IntoVersion(k, 2), k) /\ SameVersion(IntoVersion(k, 2), k)
      BY <2>2, IntoVersionIs
    <2>4. SameBody(IntoVersion(k, 2), s) /\ IntoVersion(k, 2).version = 2
      BY <2>2, <2>3 DEF SameBody, SameVersion
    <2>5. QED
      BY <1>2, <2>1, <2>3, <2>4
  <1>3. QED
    BY <1>1, <1>2

\* The ways a slate is written and read keep the proof and the cutoff, where they can.
LEMMA PutKeeps ==
  ASSUME NEW q, NEW proof, NEW cut, NEW s, IsSlate(s), Faithful(s, q, proof, cut),
         Sender(q) # "keybase"
  PROVE  FaithfulWire(PutTx(s), q, proof, cut)
  <1>1. \/ /\ PutTx(s).fmt = 3 /\ SameExtra(PutTx(s), s) /\ PutTx(s).version = s.version
           /\ IsSome(s.proof) \/ IsSome(s.ttl)
        \/ /\ PutTx(s).fmt = 2 /\ PutTx(s).version = 2
           /\ ~ IsSome(s.proof) /\ ~ IsSome(s.ttl)
    BY PutTxIs
  <1>2. \A o : IsSome(o) <=> o # None
    BY DEF IsSome
  <1>3. QED
    BY <1>1, <1>2 DEF Faithful, FaithfulWire, SameExtra

\* A faithful slate converted to a version it may take is faithful on the wire.
LEMMA IntoKeeps ==
  ASSUME NEW q, NEW proof, NEW cut, NEW s, IsSlate(s), Faithful(s, q, proof, cut),
         NEW n, n = 2 \/ n = 3,
         n = 3 => s.version = 3,
         n = 2 => s.version = 2 \/ Sender(q) = "keybase"
  PROVE  FaithfulWire(IntoVersion(s, n), q, proof, cut)
  <1> DEFINE w == IntoVersion(s, n)
  <1>1. w.fmt = n /\ SameVersion(w, s) /\ (n = 3 => SameExtra(w, s))
    BY IntoVersionIs
  <1> HIDE DEF w
  <1>2. s.version \in {2, 3}
    BY DEF IsSlate
  <1>3. FaithfulWire(w, q, proof, cut)
    BY <1>1, <1>2 DEF Faithful, FaithfulWire, SameExtra, SameVersion
  <1>4. QED
    BY <1>3 DEF w

\* A faithful slate sent over Keybase is faithful on the wire.
LEMMA SerializeKeeps ==
  ASSUME NEW q, NEW proof, NEW cut, NEW s, IsSlate(s), Faithful(s, q, proof, cut),
         Sender(q) = "keybase", q.method # "epicbox"
  PROVE  IsWire(Serialize(s)) /\ SameBody(Serialize(s), s)
         /\ FaithfulWire(Serialize(s), q, proof, cut)
  <1>1. s.orig = 2 \/ s.orig = 3
    BY DEF IsSlate
  <1>2. s.version = 3
    BY DEF Faithful
  <1>3. FaithfulWire(IntoVersion(s, s.orig), q, proof, cut)
    BY <1>1, <1>2, IntoKeeps
  <1>4. IsWire(IntoVersion(s, s.orig)) /\ SameBody(IntoVersion(s, s.orig), s)
    BY <1>1, IntoVersionIs
  <1>5. QED
    BY <1>3, <1>4 DEF Serialize

\* A faithful versioned slate is read back as a faithful slate.
LEMMA FromKeeps ==
  ASSUME NEW q, NEW proof, NEW cut, NEW w, IsWire(w), FaithfulWire(w, q, proof, cut),
         q.method # "epicbox" => Sender(q) = "http"
  PROVE  /\ Faithful(FromVersioned(w), q, proof, cut)
         /\ q.method # "epicbox" => w.fmt = w.version
  <1> DEFINE r == FromVersioned(w)
  <1>1. /\ SameVersion(r, w) /\ (w.fmt = 3 => SameExtra(r, w))
        /\ w.fmt = 2 => r.ttl = None /\ r.proof = None
    BY FromVersionedIs
  <1> HIDE DEF r
  <1>2. Faithful(r, q, proof, cut)
    BY <1>1 DEF Faithful, FaithfulWire, SameExtra, SameVersion
  <1>3. q.method # "epicbox" => w.fmt = w.version
    BY DEF FaithfulWire
  <1>4. QED
    BY <1>2, <1>3 DEF r

\* So is one read by deserialize_upgrade, when it can be read.
LEMMA DeserializeKeeps ==
  ASSUME NEW q, NEW proof, NEW cut, NEW w, IsWire(w), FaithfulWire(w, q, proof, cut),
         IsSome(DeserializeUpgrade(w))
  PROVE  /\ Faithful(Get(DeserializeUpgrade(w)), q, proof, cut)
         /\ q.method # "epicbox" => w.fmt = w.version
  <1> DEFINE r == Get(DeserializeUpgrade(w))
  <1>1. /\ w.version = 2 \/ w.fmt = 3
        /\ SameVersion(r, w) /\ (w.version = 3 => SameExtra(r, w))
        /\ w.version = 2 => r.ttl = None /\ r.proof = None
    BY DeserializeIs
  <1> HIDE DEF r
  <1>2. Faithful(r, q, proof, cut)
    BY <1>1 DEF Faithful, FaithfulWire, SameExtra, SameVersion
  <1>3. q.method # "epicbox" => w.fmt = w.version
    BY <1>1 DEF FaithfulWire
  <1>4. QED
    BY <1>2, <1>3 DEF r

\* The proof that was asked for is the proof that is signed.
LEMMA ProofsAre ==
  ASSUME NEW q, NEW x
  PROVE  /\ Requested(q) = None => Signed(q, x) = None
         /\ (IF IsSome(Requested(q)) THEN Some([sig |-> Some(Message(q, x))]) ELSE None) = Signed(q, x)
         /\ IsSome(Requested(q)) <=> q.proof # "no"
         /\ IsSome(Signed(q, x)) <=> q.proof # "no"
  BY Options DEF Requested, Signed, Message

-----------------------------------------------------------------------------
(* Steps that only move the commands on, and what they leave alone *)

\* Updates and marks change no more than the type of an entry and whether it is confirmed.
SameEntry(d, e) ==
  /\ DOMAIN d = DOMAIN e /\ d.fee = e.fee /\ d.debited = e.debited /\ d.credited = e.credited
  /\ d.proof = e.proof /\ d.sent = e.sent
LogKept ==
  /\ DOMAIN log' = Wallets
  /\ IsSome(log'["payer"]) <=> IsSome(log["payer"])
  /\ req.kind = "send" /\ IsSome(log["payer"]) =>
       SameEntry(Get(log'["payer"]), Get(log["payer"]))
DataKept ==
  /\ UNCHANGED <<req, sel, hand, wire, ctx, stored, final, cutoff>>
  /\ height' \in Nat /\ seen' \in [Wallets -> Nat]
  /\ LogKept

\* The parts of the invariant that only look at one piece of the state.
LEMMA PartsKept ==
  ASSUME Inv, req' = req, sel' = sel
  PROVE  /\ wire' = wire /\ cutoff' = cutoff => WireInv'
         /\ LogKept => LogInv'
         /\ cutoff' = cutoff => Cutoffs'
         /\ final' = final /\ cutoff' = cutoff => TtlRefused'
         /\ told'["payer"] # "funds" \/ told'["payer"] = told["payer"] => RefusedMeansShort'
  <1>1. ASSUME wire' = wire, cutoff' = cutoff PROVE WireInv'
    BY <1>1 DEF Inv, WireInv
  <1>2. ASSUME LogKept PROVE LogInv'
    BY <1>2 DEF Inv, LogInv, LogKept, SameEntry
  <1>3. ASSUME cutoff' = cutoff PROVE Cutoffs'
    BY <1>3 DEF Inv, Cutoffs, IsTtl
  <1>4. ASSUME final' = final, cutoff' = cutoff PROVE TtlRefused'
    BY <1>4 DEF Inv, TtlRefused
  <1>5. ASSUME told'["payer"] # "funds" \/ told'["payer"] = told["payer"] PROVE RefusedMeansShort'
    BY <1>5 DEF Inv, RefusedMeansShort, NumChange
  <1>6. QED
    BY <1>1, <1>2, <1>3, <1>4, <1>5

\* Steps of the world and of the payee's commands, and updates.
LEMMA PayeeMoves ==
  ASSUME Inv, DataKept,
         pc' \in [Wallets -> Places], DOMAIN told' = Wallets,
         pc'["payer"] = pc["payer"], told'["payer"] = told["payer"],
         pc'["payee"] \in {"idle", "post"}, told'["payee"] # "invalid"
  PROVE  Inv'
  <1>1. TypeInv'
    BY DEF Inv, TypeInv, DataKept, LogKept
  <1>2. StartInv'
    BY DEF Inv, StartInv, Starting, Built, DataKept, LogKept
  <1>3. SelInv'
    BY DEF Inv, SelInv, Built, DataKept, LogKept
  <1>4. HandInv'
    BY DEF Inv, HandInv, DataKept, BySender
  <1>5. CtxInv'
    BY DEF Inv, CtxInv, DataKept
  <1>6. StoredInv'
    BY DEF Inv, StoredInv, DataKept, LogKept, SameEntry
  <1>7. ToldInv'
    BY DEF Inv, ToldInv, DataKept
  <1>8. WireInv' /\ LogInv' /\ Cutoffs' /\ TtlRefused' /\ RefusedMeansShort'
    BY PartsKept DEF DataKept
  <1>9. QED
    BY <1>1, <1>2, <1>3, <1>4, <1>5, <1>6, <1>7, <1>8 DEF Inv

\* A command of the payer ends.
LEMMA PayerEnds ==
  ASSUME Inv, DataKept,
         pc' \in [Wallets -> Places], DOMAIN told' = Wallets,
         pc'["payer"] = "idle", told'["payer"] # "nothing",
         pc'["payee"] = pc["payee"], ToldInv', RefusedMeansShort'
  PROVE  Inv'
  <1>1. TypeInv'
    BY DEF Inv, TypeInv, DataKept, LogKept
  <1>2. StartInv'
    BY DEF Inv, StartInv, Starting, Built, DataKept, LogKept, Selects
  <1>3. SelInv'
    BY DEF Inv, SelInv, Built, DataKept, LogKept, Pays
  <1>4. HandInv'
    BY DEF Inv, HandInv, DataKept, Selects
  <1>5. CtxInv'
    BY DEF Inv, CtxInv, DataKept
  <1>6. StoredInv'
    BY DEF Inv, StoredInv, DataKept, LogKept, SameEntry
  <1>8. WireInv' /\ LogInv' /\ Cutoffs' /\ TtlRefused'
    BY PartsKept DEF DataKept
  <1>9. QED
    BY <1>1, <1>2, <1>3, <1>4, <1>5, <1>6, <1>8 DEF Inv

\* The assumption on the requests, for the request of this behaviour.
LEMMA RequestIs ==
  ASSUME Inv
  PROVE  /\ req.kind \in {"send", "invoice", "estimate"} /\ req.method \in Methods
         /\ req.peer \in {2, 3} /\ req.target \in {2, 3} /\ req.useAll \in BOOLEAN
         /\ req.kind = "invoice" => req.method \in {"file", "http", "self"}
         /\ req.ttl \in Nat /\ req.amount \in Nat /\ req.change \in Nat
         /\ req.coins \in Seq(Nat) /\ Ascending(req.coins)
         /\ MaxOutputs \in Nat \ {0}
  <1>1. req \in Requests
    BY DEF Inv, TypeInv
  <1>2. QED
    BY <1>1, CommandsAssumption DEF Ascending

\* Once something was built, the selection pays for it.
LEMMA BuiltPays ==
  ASSUME Inv, Built
  PROVE  Payment(req, sel)
  BY RequestIs DEF Inv, SelInv, TypeInv, Payment

\* A change of an entry's type, or of whether it is confirmed, leaves the rest of it.
WithType(e, type) == [e EXCEPT !.type = type]
AsConfirmed(e)    == [e EXCEPT !.confirmed = TRUE]

\* Changing the kind or the confirmation of an entry keeps the rest of it.
LEMMA Marked ==
  ASSUME NEW e, DOMAIN e = EntryFields, NEW t
  PROVE  SameEntry(e, e) /\ SameEntry(WithType(e, t), e) /\ SameEntry(AsConfirmed(e), e)
  <1>1. ASSUME NEW d, \/ d = e
                     \/ d = [e EXCEPT !.type = t]
                     \/ d = [e EXCEPT !.confirmed = TRUE]
        PROVE  SameEntry(d, e)
    BY <1>1 DEF SameEntry, EntryFields
  <1>2. QED
    BY <1>1 DEF WithType, AsConfirmed

\* What an update, a cancellation and a post make of the payer's entry.
LEMMA MarkedEntries ==
  ASSUME Inv, req.kind = "send", IsSome(log["payer"])
  PROVE  /\ SameEntry(Get(log["payer"]), Get(log["payer"]))
         /\ SameEntry(Updated("payer"), Get(log["payer"]))
         /\ SameEntry(Cancelled(Updated("payer")), Get(log["payer"]))
         /\ SameEntry(Mempool(Get(log["payer"])), Get(log["payer"]))
  <1> DEFINE e == Get(log["payer"])
             u == Updated("payer")
  <1>1. DOMAIN e = EntryFields
    BY DEF Inv, LogInv
  <1>2. \A d : \E t : Cancelled(d) = WithType(d, t)
    BY DEF Cancelled, WithType
  <1>3. \/ u = WithType(AsConfirmed(e), "TxSent")
        \/ u = AsConfirmed(e)
        \/ u = Cancelled(e)
        \/ u = e
    BY DEF Updated, WithType, AsConfirmed
  <1>4. \E t : Mempool(e) = WithType(e, t)
    BY DEF Mempool, WithType
  <1> HIDE DEF e, u
  <1>5. SameEntry(AsConfirmed(e), e) /\ DOMAIN AsConfirmed(e) = EntryFields
    BY <1>1, Marked DEF SameEntry
  <1>6. SameEntry(WithType(AsConfirmed(e), "TxSent"), AsConfirmed(e))
    BY <1>5, Marked
  <1>7. SameEntry(u, e)
    <2>1. SameEntry(WithType(AsConfirmed(e), "TxSent"), e)
      BY <1>5, <1>6 DEF SameEntry
    <2>2. SameEntry(Cancelled(e), e) /\ SameEntry(e, e)
      BY <1>1, <1>2, Marked
    <2>3. QED
      BY <1>3, <1>5, <2>1, <2>2
  <1>8. SameEntry(Cancelled(u), u)
    <2>1. DOMAIN u = EntryFields
      BY <1>1, <1>7 DEF SameEntry
    <2>2. QED
      BY <1>2, <2>1, Marked
  <1>9. SameEntry(Cancelled(u), e)
    BY <1>7, <1>8 DEF SameEntry
  <1>10. SameEntry(Mempool(e), e) /\ SameEntry(e, e)
    BY <1>1, <1>4, Marked
  <1>11. QED
    BY <1>7, <1>9, <1>10 DEF e, u

\* The log is kept when one entry is marked.
LEMMA MarkKept ==
  ASSUME Inv, NEW w \in Wallets, IsSome(log[w]), NEW e, log' = [log EXCEPT ![w] = Some(e)],
         w = "payer" /\ req.kind = "send" => SameEntry(e, Get(log["payer"]))
  PROVE  LogKept
  <1>1. DOMAIN log = Wallets /\ "payer" \in Wallets
    BY DEF Inv, TypeInv, Wallets
  <1>2. DOMAIN log' = Wallets
    BY <1>1
  <1>3. IsSome(Some(e)) /\ Get(Some(e)) = e
    BY Options
  <1>4. CASE w = "payer"
    <2>1. log'["payer"] = Some(e)
      BY <1>1, <1>4
    <2>2. QED
      BY <1>2, <1>3, <1>4, <2>1 DEF LogKept
  <1>5. CASE w # "payer"
    <2>1. log'["payer"] = log["payer"]
      BY <1>1, <1>5
    <2>2. req.kind = "send" /\ IsSome(log["payer"]) => SameEntry(Get(log["payer"]), Get(log["payer"]))
      BY MarkedEntries
    <2>3. QED
      BY <1>2, <2>1, <2>2 DEF LogKept
  <1>6. QED
    BY <1>4, <1>5

\* Leaving the log alone keeps it.
LEMMA SameLog ==
  ASSUME Inv, log' = log
  PROVE  LogKept
  BY MarkedEntries DEF LogKept, Inv, TypeInv


-----------------------------------------------------------------------------
(* The chain, the node, and the commands about the log *)

\* A step that leaves the commands alone, and all data but marks in the log.
LEMMA WorldMoves ==
  ASSUME Inv, UNCHANGED <<pc, told, req, sel, hand, wire, ctx, stored, final, cutoff>>,
         height' \in Nat, seen' \in [Wallets -> Nat], LogKept
  PROVE  Inv'
  <1>1. DataKept
    BY DEF DataKept
  <1>2. /\ pc' \in [Wallets -> Places] /\ DOMAIN told' = Wallets
        /\ pc'["payer"] = pc["payer"] /\ told'["payer"] = told["payer"]
        /\ pc'["payee"] \in {"idle", "post"} /\ told'["payee"] # "invalid"
    BY DEF Inv, TypeInv, ToldInv
  <1>3. QED
    BY <1>1, <1>2, PayeeMoves

\* Init: nothing is built and nothing was told.
LEMMA InvInit == Init => Inv
  <1> SUFFICES ASSUME Init PROVE Inv
    OBVIOUS
  <1>1. TypeInv
    <2>1. pc \in [Wallets -> Places] /\ pc["payee"] = "idle"
      BY DEF Init, Places, Wallets
    <2>2. sel.coins = <<>> /\ sel.fee = 0
      BY DEF Init, NoSel
    <2>3. <<>> \in CoinChoices(req.coins)
      BY DEF CoinChoices, IsInjective
    <2>4. QED
      BY <2>1, <2>2, <2>3 DEF Init, TypeInv
  <1>2. /\ pc["payer"] = "idle" /\ told["payer"] = "nothing" /\ told["payee"] = "nothing"
        /\ ctx["payer"] = None /\ ctx["payee"] = None /\ log["payer"] = None
        /\ stored["payer"] = None
    BY DEF Init, Wallets
  <1>3. wire.out = None /\ wire.back = None /\ final = None /\ cutoff = None
    BY DEF Init
  <1>4. ~ IsSome(None)
    BY Options
  <1>5. ~ Built
    BY <1>2, <1>3, <1>4 DEF Built, Pays
  <1>6. StartInv /\ SelInv
    BY <1>2, <1>5 DEF StartInv, SelInv
  <1>7. HandInv
    BY <1>2 DEF HandInv, Selects
  <1>8. WireInv /\ CtxInv /\ LogInv /\ StoredInv /\ Cutoffs /\ TtlRefused
    BY <1>2, <1>3, <1>4 DEF WireInv, CtxInv, LogInv, StoredInv, Cutoffs, IsTtl, TtlRefused
  <1>9. ToldInv /\ RefusedMeansShort
    BY <1>2 DEF ToldInv, RefusedMeansShort
  <1>10. QED
    BY <1>1, <1>6, <1>7, <1>8, <1>9 DEF Inv

\* Init, the chain and the node move on.
LEMMA InvWorld ==
  ASSUME Inv, Mine \/ Tick \/ Outage \/ \E w \in Wallets : InitWallet(w) \/ Post(w)
  PROVE  Inv'
  <1>1. height \in Nat /\ seen \in [Wallets -> Nat]
    BY DEF Inv, TypeInv
  <1>2. /\ UNCHANGED <<pc, told, req, sel, hand, wire, wallet, final, cutoff>>
        /\ height' = height \/ height' = height + 1
    BY DEF Mine, Tick, Outage, InitWallet, Post, world
  <1>3. LogKept
    BY <1>2, SameLog DEF wallet
  <1>4. height' \in Nat /\ seen' \in [Wallets -> Nat]
    BY <1>1, <1>2 DEF wallet
  <1>5. QED
    BY <1>2, <1>3, <1>4, WorldMoves DEF wallet

\* Updates, and the cancellation of an entry, mark it.
LEMMA InvMarks ==
  ASSUME Inv, NEW w \in Wallets, Refresh(w) \/ Repost(w) \/ Cancel(w)
  PROVE  Inv'
  <1>1. height \in Nat /\ seen \in [Wallets -> Nat]
    BY DEF Inv, TypeInv
  <1>2. /\ UNCHANGED <<pc, told, req, sel, hand, wire, ctx, stored, height, final, cutoff>>
        /\ seen' = [seen EXCEPT ![w] = height]
    BY DEF Refresh, Repost, Cancel, Updates, world
  <1>3. seen' \in [Wallets -> Nat]
    BY <1>1, <1>2
  <1>4. LogKept
    <2>1. \/ log' = log
          \/ /\ IsSome(log[w])
             /\ \/ log' = [log EXCEPT ![w] = Some(Updated(w))]
                \/ log' = [log EXCEPT ![w] = Some(Cancelled(Updated(w)))]
      BY DEF Refresh, Repost, Cancel
    <2>2. CASE log' = log
      BY <2>2, SameLog
    <2>3. CASE IsSome(log[w]) /\ log' = [log EXCEPT ![w] = Some(Updated(w))]
      <3>1. w = "payer" /\ req.kind = "send" => SameEntry(Updated(w), Get(log["payer"]))
        BY <2>3, MarkedEntries
      <3>2. QED
        BY <2>3, <3>1, MarkKept
    <2>4. CASE IsSome(log[w]) /\ log' = [log EXCEPT ![w] = Some(Cancelled(Updated(w)))]
      <3>1. w = "payer" /\ req.kind = "send" => SameEntry(Cancelled(Updated(w)), Get(log["payer"]))
        BY <2>4, MarkedEntries
      <3>2. QED
        BY <2>4, <3>1, MarkKept
    <2>5. QED
      BY <2>1, <2>2, <2>3, <2>4
  <1>5. QED
    BY <1>1, <1>2, <1>3, <1>4, WorldMoves

\* How the command of a wallet ends or goes on.
LEMMA CommandMoves ==
  ASSUME Inv, NEW w \in Wallets
  PROVE  /\ \A outcome : Ends(w, outcome) =>
              /\ pc' \in [Wallets -> Places] /\ DOMAIN told' = Wallets
              /\ pc'[w] = "idle" /\ told'[w] = outcome
              /\ \A v \in Wallets : v # w => pc'[v] = pc[v] /\ told'[v] = told[v]
         /\ \A where \in Places : Goes(w, where) =>
              /\ pc' \in [Wallets -> Places] /\ DOMAIN told' = Wallets /\ told' = told
              /\ pc'[w] = where
              /\ \A v \in Wallets : v # w => pc'[v] = pc[v]
  <1>1. pc \in [Wallets -> Places] /\ DOMAIN told = Wallets /\ "idle" \in Places
    BY DEF Inv, TypeInv, Places
  <1>2. ASSUME NEW outcome, Ends(w, outcome)
        PROVE  /\ pc' \in [Wallets -> Places] /\ DOMAIN told' = Wallets
               /\ pc'[w] = "idle" /\ told'[w] = outcome
               /\ \A v \in Wallets : v # w => pc'[v] = pc[v] /\ told'[v] = told[v]
    <2>1. pc' = [pc EXCEPT ![w] = "idle"] /\ told' = [told EXCEPT ![w] = outcome]
      BY <1>2 DEF Ends
    <2>2. QED
      BY <1>1, <2>1
  <1>3. ASSUME NEW where \in Places, Goes(w, where)
        PROVE  /\ pc' \in [Wallets -> Places] /\ DOMAIN told' = Wallets /\ told' = told
               /\ pc'[w] = where
               /\ \A v \in Wallets : v # w => pc'[v] = pc[v]
    <2>1. pc' = [pc EXCEPT ![w] = where] /\ told' = told
      BY <1>3 DEF Goes
    <2>2. QED
      BY <1>1, <2>1
  <1>4. QED
    BY <1>2, <1>3

\* A command of the payee ends, and leaves the data alone.
LEMMA PayeeEnds ==
  ASSUME Inv, NEW outcome, outcome # "invalid", Ends("payee", outcome), DataKept
  PROVE  Inv'
  <1>1. "payer" \in Wallets /\ "payee" \in Wallets /\ "payer" # "payee"
    BY DEF Wallets
  <1>2. /\ pc' \in [Wallets -> Places] /\ DOMAIN told' = Wallets
        /\ pc'["payee"] = "idle" /\ told'["payee"] = outcome
        /\ pc'["payer"] = pc["payer"] /\ told'["payer"] = told["payer"]
    BY <1>1, CommandMoves
  <1>3. QED
    BY <1>2, PayeeMoves

\* A command of the payer ends with an outcome that no property is about.
Harmless(outcome) == outcome \notin {"nothing", "funds", "panic", "invalid"}

\* A step in which the payer's command ends with a harmless outcome and the data
\* stay keeps the invariant.
LEMMA PayerStops ==
  ASSUME Inv, NEW outcome, Harmless(outcome), Ends("payer", outcome), DataKept
  PROVE  Inv'
  <1>1. "payer" \in Wallets /\ "payee" \in Wallets /\ "payer" # "payee"
    BY DEF Wallets
  <1>2. /\ pc' \in [Wallets -> Places] /\ DOMAIN told' = Wallets
        /\ pc'["payer"] = "idle" /\ told'["payer"] = outcome
        /\ pc'["payee"] = pc["payee"] /\ told'["payee"] = told["payee"]
    BY <1>1, CommandMoves
  <1>3. ToldInv'
    BY <1>2 DEF Inv, ToldInv, Harmless
  <1>4. RefusedMeansShort'
    BY <1>2 DEF RefusedMeansShort, Harmless
  <1>5. QED
    BY <1>2, <1>3, <1>4, PayerEnds DEF Harmless

\* What keeps the data: a step of a command that changes none of it.
LEMMA DataSame ==
  ASSUME Inv, UNCHANGED <<req, sel, hand, wire, ctx, stored, final, cutoff, height, seen, log>>
  PROVE  DataKept
  <1>1. LogKept
    BY SameLog
  <1>2. height' \in Nat /\ seen' \in [Wallets -> Nat]
    BY DEF Inv, TypeInv
  <1>3. QED
    BY <1>1, <1>2 DEF DataKept

\* A killed process leaves what it wrote so far.
LEMMA InvKilled ==
  ASSUME Inv, NEW w \in Wallets, Killed(w)
  PROVE  Inv'
  <1>1. Ends(w, "killed") /\ DataKept
    BY DataSame DEF Killed, wallet
  <1>2. CASE w = "payer"
    BY <1>1, <1>2, PayerStops DEF Harmless
  <1>3. CASE w = "payee"
    BY <1>1, <1>3, PayeeEnds
  <1>4. QED
    BY <1>2, <1>3 DEF Wallets

\* A post, and the poll of the mempool after it.
LEMMA InvPostTx ==
  ASSUME Inv, NEW w \in Wallets, PostTx(w)
  PROVE  Inv'
  <1>1. UNCHANGED <<req, sel, hand, wire, ctx, stored, final, cutoff, height, seen>>
    BY DEF PostTx
  <1>2. LogKept
    <2>1. CASE log' = log
      BY <2>1, SameLog
    <2>2. CASE MarksMempool(w)
      <3>1. PICK found : log' = [v \in Wallets |->
                IF v \in found /\ IsSome(log[v]) THEN Some(Mempool(Get(log[v]))) ELSE log[v]]
        BY <2>2 DEF MarksMempool
      <3>2. \/ log'["payer"] = log["payer"]
            \/ IsSome(log["payer"]) /\ log'["payer"] = Some(Mempool(Get(log["payer"])))
        BY <3>1 DEF Wallets
      <3>3. DOMAIN log' = Wallets
        BY <3>1
      <3>4. \A e : IsSome(Some(e)) /\ Get(Some(e)) = e
        BY Options
      <3>5. QED
        BY <3>2, <3>3, <3>4, MarkedEntries DEF LogKept
    <2>3. QED
      BY <2>1, <2>2 DEF PostTx
  <1>3. DataKept
    BY <1>1, <1>2 DEF DataKept, Inv, TypeInv
  <1>4. Ends(w, "ok") \/ Ends(w, "node")
    BY DEF PostTx
  <1>5. CASE w = "payer"
    BY <1>3, <1>4, <1>5, PayerStops DEF Harmless
  <1>6. CASE w = "payee"
    BY <1>3, <1>4, <1>6, PayeeEnds
  <1>7. QED
    BY <1>5, <1>6 DEF Wallets

-----------------------------------------------------------------------------
(* Selecting the coins *)

\* Steps that select, before anything is built.
LEMMA Selecting ==
  ASSUME Inv, ~ Built, UNCHANGED <<req, wire, ctx, log, stored, final, cutoff, height, told>>,
         seen' \in [Wallets -> Nat], pc' \in [Wallets -> Places],
         pc'["payer"] \in Selects, pc'["payee"] = pc["payee"],
         told["payer"] = "nothing" \/ pc["payer"] \in Selects \/ req.kind = "invoice",
         sel'.coins \in CoinChoices(req.coins), sel'.fee \in Nat,
         pc'["payer"] = "reselect" => sel'.fee = TxFee(Len(sel'.coins), Outs(req) + 1, 1),
         pc'["payer"] = "build" => Affordable(req, sel'),
         IsSlate(hand'), hand'.amount = req.amount,
         req.kind # "invoice" => hand' = Blank(req.amount, hand'.ttl) /\ IsTtl(hand'.ttl),
         req.kind = "invoice" => Issued(hand', req)
  PROVE  Inv'
  <1>1. TypeInv'
    BY DEF Inv, TypeInv
  <1>2. ~ Built'
    BY DEF Built, Pays, Selects
  <1>3. StartInv' /\ SelInv'
    BY <1>2 DEF StartInv, SelInv
  <1>4. HandInv'
    BY DEF HandInv, Selects
  <1>5. WireInv'
    BY DEF Inv, WireInv, Built
  <1>6. CtxInv'
    BY DEF Inv, CtxInv, Built, Selects
  <1>7. LogInv' /\ StoredInv'
    BY <1>2 DEF LogInv, StoredInv, Built
  <1>8. ToldInv'
    BY DEF Inv, ToldInv, Selects
  <1>9. Cutoffs' /\ TtlRefused' /\ RefusedMeansShort'
    BY DEF Inv, Cutoffs, IsTtl, TtlRefused, RefusedMeansShort, NumChange
  <1>10. QED
    BY <1>1, <1>3, <1>4, <1>5, <1>6, <1>7, <1>8, <1>9 DEF Inv

\* The ttl a sender sets is a height.
LEMMA TtlIs == ASSUME Inv PROVE IsTtl(Ttl)
  <1>1. height \in Nat /\ req.ttl \in Nat
    BY RequestIs DEF Inv, TypeInv
  <1>2. height + req.ttl \in Nat
    BY <1>1
  <1>3. QED
    BY <1>2, Options DEF IsTtl, Ttl

\* send begins with a new slate.
LEMMA InvSend ==
  ASSUME Inv, Send
  PROVE  Inv'
  <1>1. UNCHANGED <<sel, req, wire, ctx, log, stored, final, cutoff, height, seen>>
    BY DEF Send, wallet, world
  <1>2. pc["payer"] = "idle" /\ told["payer"] = "nothing" /\ req.kind # "invoice"
    BY DEF Send, Online, Ready
  <1>3. ~ Built
    BY <1>2 DEF Inv, StartInv, Starting
  <1>4. "payer" \in Wallets /\ "payee" \in Wallets /\ "payer" # "payee" /\ "select" \in Places
    BY DEF Wallets, Places
  <1>5. CASE Ends("payer", "arguments") /\ UNCHANGED hand
    <2>1. DataKept
      BY <1>1, <1>5, DataSame
    <2>2. QED
      BY <1>5, <2>1, PayerStops DEF Harmless
  <1>6. CASE hand' = Blank(req.amount, Ttl) /\ Goes("payer", "select")
    <2>1. /\ pc' \in [Wallets -> Places] /\ pc'["payer"] = "select" /\ told' = told
          /\ pc'["payee"] = pc["payee"]
      BY <1>4, <1>6, CommandMoves
    <2>2. IsSlate(hand') /\ hand'.amount = req.amount /\ hand'.ttl = Ttl
      BY <1>6, BlankIs
    <2>3. IsTtl(hand'.ttl)
      BY <2>2, TtlIs
    <2>4. sel.coins \in CoinChoices(req.coins) /\ sel.fee \in Nat /\ seen \in [Wallets -> Nat]
      BY DEF Inv, TypeInv
    <2>5. QED
      BY <1>1, <1>2, <1>3, <1>6, <2>1, <2>2, <2>3, <2>4, Selecting DEF Selects
  <1>7. QED
    BY <1>5, <1>6 DEF Send

\* While the payer selects, nothing is built and the slate is the one that was begun.
LEMMA WhileSelecting ==
  ASSUME Inv, pc["payer"] \in Selects
  PROVE  /\ ~ Built /\ IsSlate(hand) /\ hand.amount = req.amount
         /\ req.kind # "invoice" => hand = Blank(req.amount, hand.ttl) /\ IsTtl(hand.ttl)
         /\ req.kind = "invoice" => Issued(hand, req)
         /\ req.amount \in Nat /\ Outs(req) \in Nat /\ NumChange = Outs(req)
         /\ Len(req.coins) \in Nat /\ DOMAIN req.coins = 1 .. Len(req.coins)
  <1>1. ~ Built
    BY DEF Inv, StartInv, Starting
  <1>2. req.amount \in Nat /\ req.change \in Nat /\ req.coins \in Seq(Nat)
    BY RequestIs
  <1>3. NumChange = Outs(req)
    BY DEF NumChange, Outs
  <1>4. Outs(req) \in Nat
    BY <1>2 DEF Outs
  <1>5. QED
    BY <1>1, <1>2, <1>3, <1>4 DEF Inv, HandInv

\* The fee of a choice is a number.
LEMMA FeeNat ==
  ASSUME NEW i \in Nat, NEW n \in Nat
  PROVE  /\ TxFee(i, n + 1, 1) \in Nat /\ TxFee(i, 1, 1) \in Nat
         /\ TxFee(i, 1, 1) <= TxFee(i, n + 1, 1)
  <1>1. 1 \in Nat /\ n + 1 \in Nat /\ 1 <= n + 1
    OBVIOUS
  <1>2. QED
    BY <1>1, FeeGrows, Zenon

\* A selection goes on with more coins or is done.
LEMMA SelectsOn ==
  ASSUME Inv, pc["payer"] \in Selects,
         UNCHANGED <<req, hand, wire, ctx, log, stored, final, cutoff, height>>,
         seen' \in [Wallets -> Nat], NEW where \in {"reselect", "build"}, Goes("payer", where),
         sel'.coins \in CoinChoices(req.coins), sel'.fee \in Nat,
         where = "reselect" => sel'.fee = TxFee(Len(sel'.coins), Outs(req) + 1, 1),
         where = "build" => Affordable(req, sel')
  PROVE  Inv'
  <1>1. "payer" \in Wallets /\ "payee" \in Wallets /\ "payer" # "payee" /\ where \in Places
        /\ where \in Selects
    BY DEF Wallets, Places, Selects
  <1>2. /\ pc' \in [Wallets -> Places] /\ pc'["payer"] = where /\ told' = told
        /\ pc'["payee"] = pc["payee"]
    BY <1>1, CommandMoves
  <1>3. QED
    BY <1>1, <1>2, WhileSelecting, Selecting

\* A refusal for lack of funds, of a payment that all coins together cannot make.
LEMMA Refuses ==
  ASSUME Inv, pc["payer"] \in Selects, Ends("payer", "funds"), DataKept,
         req.amount > 0 => SumOf(req.coins, 1 .. Len(req.coins))
                             < req.amount + TxFee(Len(req.coins), Outs(req) + 1, 1)
  PROVE  Inv'
  <1>1. "payer" \in Wallets /\ "payee" \in Wallets /\ "payer" # "payee"
    BY DEF Wallets
  <1>2. /\ pc' \in [Wallets -> Places] /\ DOMAIN told' = Wallets
        /\ pc'["payer"] = "idle" /\ told'["payer"] = "funds"
        /\ pc'["payee"] = pc["payee"] /\ told'["payee"] = told["payee"]
    BY <1>1, CommandMoves
  <1>3. ToldInv'
    BY <1>2 DEF Inv, ToldInv
  <1>4. RefusedMeansShort'
    BY WhileSelecting DEF RefusedMeansShort, NumChange, DataKept
  <1>5. QED
    BY <1>2, <1>3, <1>4, PayerEnds

\* The first selection.
LEMMA InvSelectFirst ==
  ASSUME Inv, SelectFirst
  PROVE  Inv'
  <1> DEFINE n == Len(req.coins)
             c == SelectCoins(req.coins, hand.amount, MaxOutputs, req.useAll)
             total == SumOf(req.coins, ToSet(c))
             fee1 == TxFee(Len(c), 1, 1)
             fee == TxFee(Len(c), NumChange + 1, 1)
             needed == hand.amount + fee1
  <1>1. pc["payer"] = "select" /\ pc["payer"] \in Selects
    BY DEF SelectFirst, Selects
  <1>2. /\ req.coins \in Seq(Nat) /\ n \in Nat /\ hand.amount = req.amount /\ hand.amount \in Nat
        /\ Outs(req) \in Nat /\ NumChange = Outs(req) /\ MaxOutputs \in Nat /\ req.useAll \in BOOLEAN
    BY <1>1, WhileSelecting, RequestIs
  <1>3. /\ c \in CoinChoices(req.coins)
        /\ SumOf(req.coins, ToSet(c)) >= hand.amount \/ SumOf(req.coins, 1 .. n) < hand.amount
    BY <1>2, SelectCoinsIs
  <1>4. Len(c) \in Nat /\ (Len(c) = n => ToSet(c) = 1 .. n)
    BY <1>2, <1>3, ChoiceSize
  <1>5. fee1 \in Nat /\ fee \in Nat /\ fee1 <= fee
    BY <1>2, <1>4, FeeNat
  <1>6. /\ UNCHANGED <<req, hand, wire, ctx, log, stored, final, cutoff, height>>
        /\ seen' \in [Wallets -> Nat]
    BY DEF SelectFirst, world, Inv, TypeInv
  <1>7. \/ Ends("payer", "node") /\ UNCHANGED sel
        \/ /\ total = 0 \/ (total < needed /\ Len(c) = n)
           /\ Ends("payer", "funds") /\ UNCHANGED sel
        \/ total = needed /\ sel' = [coins |-> c, fee |-> fee1] /\ Goes("payer", "build")
        \/ sel' = [coins |-> c, fee |-> fee] /\ Goes("payer", "reselect")
    BY DEF SelectFirst
  <1>12. total \in Nat /\ SumOf(req.coins, 1 .. n) \in Nat
    BY <1>2, SumNat
  <1>13. TxFee(n, Outs(req) + 1, 1) \in Nat
    BY <1>2, FeeNat
  <1>14. LogKept
    BY <1>6, SameLog
  <1>15. height \in Nat
    BY DEF Inv, TypeInv
  <1>16. sel' = sel => DataKept
    BY <1>6, <1>14, <1>15 DEF DataKept
  <1> HIDE DEF c
  <1>8. CASE Ends("payer", "node") /\ UNCHANGED sel
    BY <1>8, <1>16, PayerStops DEF Harmless
  <1>9. CASE /\ total = 0 \/ (total < needed /\ Len(c) = n)
             /\ Ends("payer", "funds") /\ UNCHANGED sel
    <2> SUFFICES ASSUME total = 0 \/ (total < needed /\ Len(c) = n),
                        Ends("payer", "funds") /\ UNCHANGED sel
                 PROVE  Inv'
      BY <1>9
    <2>1. ASSUME req.amount > 0
          PROVE  SumOf(req.coins, 1 .. n) < req.amount + TxFee(n, Outs(req) + 1, 1)
      <3>1. CASE total = 0
        BY <1>2, <1>3, <1>12, <1>13, <2>1, <3>1
      <3>2. CASE total < needed /\ Len(c) = n
        <4>1. total = SumOf(req.coins, 1 .. n) /\ fee = TxFee(n, Outs(req) + 1, 1)
          BY <1>2, <1>4, <3>2
        <4> HIDE DEF total, fee1, fee
        <4>2. QED
          BY <1>2, <1>5, <1>12, <3>2, <4>1
      <3>3. QED
        BY <3>1, <3>2
    <2>2. QED
      BY <1>1, <1>16, <2>1, Refuses
  <1>10. CASE total = needed /\ sel' = [coins |-> c, fee |-> fee1] /\ Goes("payer", "build")
    <2>1. sel'.coins = c /\ sel'.fee = fee1
      BY <1>10
    <2>2. TotalOf(req, sel') = req.amount + sel'.fee
      BY <1>2, <1>10, <2>1 DEF TotalOf
    <2>3. Affordable(req, sel')
      <3>1. req.amount + sel'.fee \in Nat
        BY <1>2, <1>5, <2>1
      <3>2. QED
        BY <2>1, <2>2, <3>1 DEF Affordable
    <2>4. QED
      BY <1>1, <1>3, <1>5, <1>6, <1>10, <2>1, <2>3, SelectsOn
  <1>11. CASE sel' = [coins |-> c, fee |-> fee] /\ Goes("payer", "reselect")
    <2>1. sel'.coins = c /\ sel'.fee = fee
      BY <1>11
    <2>2. QED
      BY <1>1, <1>2, <1>3, <1>5, <1>6, <1>11, <2>1, SelectsOn
  <1>17. QED
    BY <1>7, <1>8, <1>9, <1>10, <1>11

\* What the loop makes of the amount and the fee.
LEMMA SelectMoreIs ==
  ASSUME Inv, pc["payer"] = "reselect"
  PROVE  /\ SelectMore.coins \in CoinChoices(req.coins) /\ SelectMore.fee \in Nat
         /\ SelectMore.fee = TxFee(Len(SelectMore.coins), Outs(req) + 1, 1)
         /\ \A l \in Nat : /\ l < Len(req.coins)
                           /\ SumOf(req.coins, 1 .. l) < hand.amount + sel.fee
                           => l < Len(SelectMore.coins)
  <1> DEFINE c == SelectCoins(req.coins, hand.amount + sel.fee, Len(req.coins), req.useAll)
  <1>1. /\ req.coins \in Seq(Nat) /\ Len(req.coins) \in Nat /\ hand.amount = req.amount
        /\ hand.amount \in Nat /\ Outs(req) \in Nat /\ NumChange = Outs(req) /\ req.useAll \in BOOLEAN
    BY WhileSelecting, RequestIs DEF Selects
  <1>2. sel.fee \in Nat
    BY DEF Inv, TypeInv
  <1>3. hand.amount + sel.fee \in Nat /\ Len(req.coins) <= Len(req.coins)
    BY <1>1, <1>2
  <1>4. /\ c \in CoinChoices(req.coins)
        /\ \A l \in Nat : /\ l < Len(req.coins)
                          /\ SumOf(req.coins, 1 .. l) < hand.amount + sel.fee
                          => l < Len(c)
    <2>1. /\ c \in CoinChoices(req.coins)
          /\ Len(req.coins) <= Len(req.coins) =>
               \A l \in Nat : l < Len(req.coins) /\ SumOf(req.coins, 1 .. l) < hand.amount + sel.fee
                                => l < Len(c)
      BY <1>1, <1>3, SelectCoinsIs
    <2>2. QED
      BY <1>3, <2>1
  <1>5. Len(c) \in Nat
    BY <1>1, <1>4, ChoiceSize
  <1>6. SelectMore = [coins |-> c, fee |-> TxFee(Len(c), NumChange + 1, 1)]
    BY DEF SelectMore
  <1> HIDE DEF c
  <1>7. TxFee(Len(c), NumChange + 1, 1) \in Nat
    BY <1>1, <1>5, FeeNat
  <1>8. QED
    BY <1>1, <1>4, <1>6, <1>7

\* The loop.
LEMMA InvReselect ==
  ASSUME Inv, Reselect
  PROVE  Inv'
  <1>1. pc["payer"] = "reselect" /\ pc["payer"] \in Selects /\ "reselect" \in Selects
    BY DEF Reselect, Selects
  <1>2. UNCHANGED <<req, hand, wire, ctx, log, stored, final, cutoff, height, seen>>
    BY DEF Reselect, wallet, world
  <1>3. sel.fee = TxFee(Len(sel.coins), Outs(req) + 1, 1) /\ sel.fee \in Nat
        /\ sel.coins \in CoinChoices(req.coins) /\ seen \in [Wallets -> Nat]
    BY <1>1 DEF Inv, SelInv, TypeInv
  <1>4. CASE Total >= hand.amount + sel.fee /\ Goes("payer", "build") /\ UNCHANGED sel
    <2>1. Affordable(req, sel)
      BY <1>1, <1>3, <1>4, WhileSelecting DEF Affordable, Total, TotalOf
    <2>2. QED
      BY <1>1, <1>2, <1>3, <1>4, <2>1, SelectsOn
  <1>5. CASE /\ ~ (Total >= hand.amount + sel.fee) /\ Len(sel.coins) = Len(req.coins)
             /\ Ends("payer", "funds") /\ UNCHANGED sel
    <2>1. DataKept
      BY <1>2, <1>5, DataSame
    <2>2. req.coins \in Seq(Nat) /\ hand.amount = req.amount /\ req.amount \in Nat
      BY <1>1, RequestIs, WhileSelecting
    <2>3. ToSet(sel.coins) = 1 .. Len(req.coins)
      BY <1>3, <1>5, <2>2, ChoiceSize
    <2>4. Total \in Nat /\ Total = SumOf(req.coins, 1 .. Len(req.coins))
      BY <2>2, <2>3, SumNat DEF Total
    <2>5. SumOf(req.coins, 1 .. Len(req.coins))
            < req.amount + TxFee(Len(req.coins), Outs(req) + 1, 1)
      BY <1>3, <1>5, <2>2, <2>4
    <2>6. QED
      BY <1>1, <1>5, <2>1, <2>5, Refuses
  <1>6. CASE sel' = SelectMore /\ UNCHANGED <<pc, told>>
    <2>1. Goes("payer", "reselect")
      BY <1>1, <1>6 DEF Goes, Inv, TypeInv
    <2>2. QED
      BY <1>1, <1>2, <1>3, <1>6, <2>1, SelectMoreIs, SelectsOn
  <1>7. QED
    BY <1>4, <1>5, <1>6 DEF Reselect


\* The round takes more coins than fell short: any coins are worth at least as much as the
\* same number of the smallest ones.
LEMMA MoreCoins == Inv => SelectionGrows
  <1> SUFFICES ASSUME Inv, pc["payer"] = "reselect", Total < hand.amount + sel.fee,
                      Len(sel.coins) < Len(req.coins)
               PROVE  Len(SelectMore.coins) > Len(sel.coins)
    BY DEF SelectionGrows
  <1> DEFINE l == Len(sel.coins)
  <1>1. req.coins \in Seq(Nat) /\ Ascending(req.coins) /\ sel.coins \in CoinChoices(req.coins)
    BY RequestIs DEF Inv, TypeInv
  <1>2. /\ ToSet(sel.coins) \in SUBSET (1 .. Len(req.coins))
        /\ Cardinality(ToSet(sel.coins)) = l /\ l \in Nat
    BY <1>1, ChoiceSize
  <1>3. SumOf(req.coins, 1 .. l) <= Total
    BY <1>1, <1>2, FirstAreLeast DEF Total
  <1>4. SumOf(req.coins, 1 .. l) \in Nat /\ Total \in Nat
    BY <1>1, SumNat DEF Total
  <1>5. hand.amount \in Nat /\ sel.fee \in Nat
    BY WhileSelecting DEF Inv, TypeInv, Selects
  <1>6. SumOf(req.coins, 1 .. l) < hand.amount + sel.fee
    BY <1>3, <1>4, <1>5
  <1>7. l < Len(SelectMore.coins)
    BY <1>2, <1>6, SelectMoreIs
  <1>8. Len(SelectMore.coins) \in Nat
    <2>1. SelectMore.coins \in CoinChoices(req.coins)
      BY SelectMoreIs
    <2> HIDE DEF SelectMore
    <2>2. QED
      BY <1>1, <2>1, ChoiceSize
  <1>9. QED
    BY <1>2, <1>7, <1>8

\* An invoice that can be read is the one that was issued.
LEMMA InvPay ==
  ASSUME Inv, Pay
  PROVE  Inv'
  <1> DEFINE s == DeserializeUpgrade(Get(wire.out))
  <1>1. UNCHANGED <<sel, req, wire, ctx, log, stored, final, cutoff, height, seen>>
    BY DEF Pay, wallet, world
  <1>2. /\ pc["payer"] = "idle" /\ req.kind = "invoice" /\ IsSome(wire.out)
        /\ ~ IsSome(wire.back) /\ ~ IsSome(log["payer"])
    BY DEF Pay, Online, Ready
  <1>3. ~ Built
    BY <1>2 DEF Built, Pays
  <1>4. "payer" \in Wallets /\ "payee" \in Wallets /\ "payer" # "payee" /\ "select" \in Places
    BY DEF Wallets, Places
  <1>5. IsWire(Get(wire.out)) /\ Issued(Get(wire.out), req) /\ Get(wire.out).version = 2
    BY <1>2 DEF Inv, WireInv
  <1>6. IsSlate(Get(s)) /\ Issued(Get(s), req)
    <2>1. IsSlate(Get(s)) /\ SameBody(Get(s), Get(wire.out))
      BY <1>5, DeserializeIs
    <2>2. QED
      BY <1>5, <2>1, BodyKeeps
  <1> HIDE DEF s
  <1>7. \/ Ends("payer", "arguments") /\ UNCHANGED hand
        \/ Ends("payer", "expired") /\ UNCHANGED hand
        \/ /\ hand' = [Get(s) EXCEPT !.ttl = IF req.ttl = 0 THEN @ ELSE Ttl]
           /\ Goes("payer", "select")
    BY DEF Pay, s
  <1>8. CASE (Ends("payer", "arguments") \/ Ends("payer", "expired")) /\ UNCHANGED hand
    <2>1. DataKept
      BY <1>1, <1>8, DataSame
    <2>2. QED
      BY <1>8, <2>1, PayerStops DEF Harmless
  <1>9. CASE /\ hand' = [Get(s) EXCEPT !.ttl = IF req.ttl = 0 THEN @ ELSE Ttl]
             /\ Goes("payer", "select")
    <2>1. /\ pc' \in [Wallets -> Places] /\ pc'["payer"] = "select" /\ told' = told
          /\ pc'["payee"] = pc["payee"]
      BY <1>4, <1>9, CommandMoves
    <2>2. IsSlate(hand') /\ SameBody(hand', Get(s))
      BY <1>6, <1>9 DEF IsSlate, SlateFields, SameBody
    <2>3. Issued(hand', req)
      BY <1>6, <2>2, BodyKeeps
    <2>4. hand'.amount = req.amount
      BY <2>3 DEF Issued, Carries
    <2>5. sel.coins \in CoinChoices(req.coins) /\ sel.fee \in Nat /\ seen \in [Wallets -> Nat]
      BY DEF Inv, TypeInv
    <2>6. QED
      BY <1>1, <1>2, <1>3, <2>1, <2>2, <2>3, <2>4, <2>5, Selecting DEF Selects
  <1>10. QED
    BY <1>7, <1>8, <1>9

\* An estimate ends with the slate's total and fee.
LEMMA InvEstimated ==
  ASSUME Inv, Estimated
  PROVE  Inv'
  <1>1. UNCHANGED <<sel, req, wire, ctx, log, stored, final, cutoff, height, seen>>
    BY DEF Estimated, wallet, world
  <1>2. pc["payer"] = "build" /\ pc["payer"] \in Selects /\ req.kind = "estimate"
        /\ Ends("payer", "estimate")
    BY DEF Estimated, Selects
  <1>3. ~ Built
    BY <1>2, WhileSelecting
  <1>4. "payer" \in Wallets /\ "payee" \in Wallets /\ "payer" # "payee"
    BY DEF Wallets
  <1>5. /\ pc' \in [Wallets -> Places] /\ DOMAIN told' = Wallets
        /\ pc'["payer"] = "idle" /\ told'["payer"] = "estimate"
        /\ pc'["payee"] = pc["payee"] /\ told'["payee"] = told["payee"]
    BY <1>2, <1>4, CommandMoves
  <1>6. ~ Built'
    BY <1>1, <1>3, <1>5 DEF Built, Pays
  <1>7. TypeInv'
    BY <1>1, <1>5 DEF Inv, TypeInv
  <1>8. StartInv' /\ SelInv' /\ HandInv'
    BY <1>5, <1>6 DEF StartInv, SelInv, HandInv, Selects
  <1>9. CtxInv' /\ StoredInv' /\ ToldInv'
    BY <1>1, <1>2, <1>5, <1>6 DEF Inv, CtxInv, StoredInv, ToldInv
  <1>10. WireInv' /\ LogInv' /\ Cutoffs' /\ TtlRefused' /\ RefusedMeansShort'
    <2>1. LogKept
      BY <1>1, SameLog
    <2>2. QED
      BY <1>1, <1>5, <2>1, PartsKept
  <1>11. QED
    BY <1>7, <1>8, <1>9, <1>10 DEF Inv

-----------------------------------------------------------------------------
(* Building and delivering the payer's part *)

\* What init_send_tx adds.
LEMMA WithRequestIs ==
  ASSUME Inv, NEW s, IsSlate(s), NEW r, r = WithRequest(s)
  PROVE  /\ IsSlate(r) /\ SameBody(r, s) /\ r.ttl = s.ttl /\ r.version = s.version
         /\ r.proof = Requested(req)
  <1>1. req.target \in {2, 3}
    BY RequestIs
  <1> DEFINE p == Requested(req)
             k == [s EXCEPT !.proof = p]
  <1>2. r = [k EXCEPT !.orig = req.target]
    BY DEF WithRequest, Requested
  <1> HIDE DEF p
  <1>3. /\ DOMAIN k = SlateFields /\ SameBody(k, s) /\ k.ttl = s.ttl /\ k.version = s.version
        /\ k.proof = p
    BY DEF IsSlate, SlateFields, SameBody
  <1> HIDE DEF k
  <1>4. /\ DOMAIN r = SlateFields /\ SameBody(r, k) /\ r.ttl = k.ttl /\ r.version = k.version
        /\ r.proof = k.proof /\ r.orig = req.target
    BY <1>2, <1>3 DEF SlateFields, SameBody
  <1>5. SameBody(r, s)
    BY <1>3, <1>4 DEF SameBody
  <1>6. QED
    BY <1>1, <1>3, <1>4, <1>5 DEF IsSlate, p

\* The slate that is built from a selection, with the context for it.
LEMMA Builds ==
  ASSUME Inv, pc["payer"] = "build", req.kind # "estimate",
         UNCHANGED <<req, sel, wire, log, stored, seen, final, height>>, Goes("payer", "deliver"),
         cutoff' = hand.ttl, NEW e, ctx' = [ctx EXCEPT !["payer"] = Some(e)],
         IsSome(Split(req, sel)), IsSlate(hand'),
         req.kind = "invoice" => PaidFor(hand', req, sel),
         req.kind = "send" => /\ Offered(hand', req, sel) /\ hand'.version = 3
                              /\ hand'.proof = Requested(req) /\ hand'.ttl = hand.ttl
                              /\ e.key = PayerFirst(req, sel)
  PROVE  Inv'
  <1>1. "payer" \in Wallets /\ "payee" \in Wallets /\ "payer" # "payee" /\ "deliver" \in Places
    BY DEF Wallets, Places
  <1>2. /\ pc' \in [Wallets -> Places] /\ pc'["payer"] = "deliver" /\ told' = told
        /\ pc'["payee"] = pc["payee"]
    BY <1>1, CommandMoves
  <1>3. ~ Built /\ (req.kind # "invoice" => IsTtl(hand.ttl))
    BY WhileSelecting DEF Selects
  <1>4. /\ DOMAIN ctx' = Wallets /\ ctx'["payer"] = Some(e) /\ ctx'["payee"] = ctx["payee"]
    BY <1>1 DEF Inv, TypeInv
  <1>5. IsSome(ctx'["payer"]) /\ Get(ctx'["payer"]) = e
    BY <1>4, Options
  <1>6. TypeInv'
    BY <1>2, <1>4 DEF Inv, TypeInv
  <1>7. StartInv'
    BY <1>2 DEF StartInv, Starting, Selects
  <1>8. SelInv'
    <2>1. Affordable(req, sel)
      BY DEF Inv, SelInv
    <2>2. req.kind = "send" => hand'.amount = req.amount
      BY DEF Offered, Carries
    <2>3. QED
      BY <1>2, <2>1, <2>2 DEF SelInv
  <1>9. HandInv'
    BY <1>2 DEF HandInv, Selects
  <1>10. WireInv'
    BY <1>3 DEF Inv, WireInv, Built
  <1>11. CtxInv'
    BY <1>2, <1>4, <1>5 DEF Inv, CtxInv
  <1>12. LogInv' /\ StoredInv'
    BY <1>3 DEF LogInv, StoredInv, Built
  <1>13. ToldInv' /\ Cutoffs' /\ TtlRefused' /\ RefusedMeansShort'
    BY <1>2, <1>3 DEF Inv, ToldInv, Cutoffs, TtlRefused, RefusedMeansShort, NumChange, Built, IsTtl
  <1>14. QED
    BY <1>6, <1>7, <1>8, <1>9, <1>10, <1>11, <1>12, <1>13 DEF Inv

\* add_inputs_to_slate, init_send_tx and process_invoice.
LEMMA InvBuildSendTx ==
  ASSUME Inv, BuildSendTx
  PROVE  Inv'
  <1> DEFINE amounts == ChangeAmounts(Change, NumChange)
             key == [NoKey EXCEPT !.ins = ToSet(sel.coins), !.change = Get(amounts)]
             mine == GenerateOffset(hand, key)
             s == WithInputs(key)
             second == PayerSecond(req, sel)
             e == [key |-> mine, proof |-> req.kind = "send" /\ req.proof # "no"]
  <1>1. pc["payer"] = "build" /\ pc["payer"] \in Selects /\ req.kind # "estimate"
    BY DEF BuildSendTx, Selects
  <1>2. UNCHANGED <<req, sel, wire, log, stored, seen, final, height>>
    BY DEF BuildSendTx, world
  <1>3. /\ hand.amount = req.amount /\ IsSlate(hand) /\ NumChange = Outs(req)
        /\ Outs(req) \in Nat /\ req.amount \in Nat
        /\ req.kind = "send" => hand = Blank(req.amount, hand.ttl)
        /\ req.kind = "invoice" => Issued(hand, req)
    BY <1>1, WhileSelecting
  <1>4. Affordable(req, sel) /\ sel.fee \in Nat /\ sel.coins \in CoinChoices(req.coins)
    BY <1>1 DEF Inv, SelInv, TypeInv
  <1>5. amounts = Split(req, sel)
    BY <1>3 DEF Change, Split, ChangeOf, Total, TotalOf
  <1>6. ChangeOf(req, sel) \in Nat
    <2>1. TotalOf(req, sel) \in Nat
      BY SumNat, RequestIs DEF TotalOf
    <2>2. TotalOf(req, sel) >= req.amount + sel.fee
      BY <1>4 DEF Affordable
    <2>3. QED
      BY <1>3, <1>4, <2>1, <2>2 DEF ChangeOf
  <1>7. \/ ~ IsSome(amounts) /\ Ends("payer", "panic") /\ UNCHANGED <<hand, ctx, cutoff>>
        \/ /\ IsSome(amounts) /\ req.kind = "invoice" /\ ~ CanFillRound2(s)
           /\ Ends("payer", "invalid") /\ UNCHANGED <<hand, ctx, cutoff>>
        \/ /\ IsSome(amounts)
           /\ hand' = IF req.kind = "send" THEN WithRequest(s) ELSE FillRound2(s, 0, mine)
           /\ ctx' = [ctx EXCEPT !["payer"] = Some(e)]
           /\ cutoff' = hand.ttl /\ Goes("payer", "deliver")
    BY DEF BuildSendTx
  <1> HIDE DEF amounts
  <1>8. key = second
    <2> DEFINE i == ToSet(sel.coins)
               c == Get(amounts)
    <2>1. key = [NoKey EXCEPT !.ins = i, !.change = c]
      OBVIOUS
    <2> HIDE DEF key, i, c
    <2>2. key = Whole(i, c, None)
      BY <2>1 DEF NoKey, Whole
    <2>3. QED
      BY <1>5, <2>2 DEF second, PayerSecond, i, c
  <1> HIDE DEF key
  <1>9. s = PayerFills(hand, sel.fee, second)
    BY <1>8 DEF WithInputs, PayerFills
  <1>10. mine = GenerateOffset(hand, second)
    BY <1>8
  <1>20. e.key = mine
    OBVIOUS
  <1> HIDE DEF s, mine, second, e
  <1>11. CASE ~ IsSome(amounts) /\ Ends("payer", "panic") /\ UNCHANGED <<hand, ctx, cutoff>>
    <2>1. "payer" \in Wallets /\ "payee" \in Wallets /\ "payer" # "payee"
      BY DEF Wallets
    <2>2. /\ pc' \in [Wallets -> Places] /\ DOMAIN told' = Wallets
          /\ pc'["payer"] = "idle" /\ told'["payer"] = "panic"
          /\ pc'["payee"] = pc["payee"] /\ told'["payee"] = told["payee"]
      BY <1>11, <2>1, CommandMoves
    <2>3. Outs(req) # 1 /\ (Outs(req) = 0 \/ ChangeOf(req, sel) < Outs(req))
      <3>1. ~ IsSome(ChangeAmounts(ChangeOf(req, sel), Outs(req)))
        BY <1>5, <1>11 DEF Split
      <3>2. QED
        BY <1>3, <1>6, <3>1, ChangeIs
    <2>4. req.kind = "send"
      BY <1>1, <2>3, RequestIs DEF Outs
    <2>5. ToldInv'
      BY <1>2, <1>3, <1>11, <2>2, <2>3, <2>4 DEF Inv, ToldInv
    <2>6. RefusedMeansShort'
      BY <2>2 DEF RefusedMeansShort
    <2>7. DataKept
      BY <1>2, <1>11, DataSame
    <2>8. QED
      BY <2>2, <2>5, <2>6, <2>7, PayerEnds
  <1>12. ASSUME IsSome(amounts) PROVE IsSome(Split(req, sel)) /\ Payment(req, sel)
    BY <1>4, <1>5, <1>12, RequestIs DEF Payment
  <1>13. ASSUME IsSome(amounts), req.kind = "invoice"
         PROVE  /\ CanFillRound2(s) /\ IsSlate(FillRound2(s, 0, mine))
                /\ PaidFor(FillRound2(s, 0, mine), req, sel)
    BY <1>3, <1>9, <1>10, <1>12, <1>13, PaysInvoice DEF second
  <1>14. CASE /\ IsSome(amounts)
              /\ hand' = IF req.kind = "send" THEN WithRequest(s) ELSE FillRound2(s, 0, mine)
              /\ ctx' = [ctx EXCEPT !["payer"] = Some(e)]
              /\ cutoff' = hand.ttl /\ Goes("payer", "deliver")
    <2>1. CASE req.kind = "send"
      <3>1. hand = Blank(req.amount, hand.ttl)
        BY <1>3, <2>1
      <3>2. IsSlate(s) /\ Offered(s, req, sel) /\ SameInfo(s, hand) /\ mine = PayerFirst(req, sel)
        BY <1>9, <1>10, <3>1, BuildsOffer DEF second
      <3>3. hand.version = 3
        BY <3>1, BlankIs
      <3>4. hand' = WithRequest(s)
        BY <1>14, <2>1
      <3>5. /\ IsSlate(hand') /\ SameBody(hand', s) /\ hand'.ttl = s.ttl
            /\ hand'.version = s.version /\ hand'.proof = Requested(req)
        BY <3>2, <3>4, WithRequestIs
      <3>6. Offered(hand', req, sel)
        BY <3>2, <3>5, BodyKeeps
      <3>7. hand'.version = 3 /\ hand'.ttl = hand.ttl
        BY <3>2, <3>3, <3>5 DEF SameInfo
      <3>8. req.kind # "invoice" /\ e.key = PayerFirst(req, sel)
        BY <1>20, <2>1, <3>2
      <3>9. QED
        BY <1>1, <1>2, <1>12, <1>14, <3>5, <3>6, <3>7, <3>8, Builds
    <2>2. CASE req.kind = "invoice"
      <3>1. hand' = FillRound2(s, 0, mine)
        BY <1>14, <2>2
      <3>2. IsSlate(hand') /\ PaidFor(hand', req, sel)
        BY <1>13, <1>14, <2>2, <3>1
      <3>3. req.kind # "send"
        BY <2>2
      <3>4. QED
        BY <1>1, <1>2, <1>12, <1>14, <3>2, <3>3, Builds
    <2>3. QED
      BY <1>1, <2>1, <2>2, RequestIs
  <1>15. QED
    BY <1>7, <1>11, <1>13, <1>14


\* Between the payer's steps, from deliver to lock.
LEMMA Delivering ==
  ASSUME Inv, pc["payer"] \in {"deliver", "await"}, NEW where \in {"await", "lock"},
         Goes("payer", where),
         UNCHANGED <<req, sel, ctx, log, stored, seen, height, final, cutoff>>,
         DOMAIN wire' = {"out", "back"},
         req.kind = "send" => hand'.amount = req.amount, HandInv', WireInv'
  PROVE  Inv'
  <1>1. "payer" \in Wallets /\ "payee" \in Wallets /\ "payer" # "payee" /\ where \in Places
    BY DEF Wallets, Places
  <1>2. /\ pc' \in [Wallets -> Places] /\ pc'["payer"] = where /\ told' = told
        /\ pc'["payee"] = pc["payee"]
    BY <1>1, CommandMoves
  <1>3. Built
    BY DEF Built, Pays
  <1>4. TypeInv'
    BY <1>2 DEF Inv, TypeInv
  <1>5. StartInv'
    BY <1>2 DEF StartInv, Starting, Selects
  <1>6. SelInv'
    BY <1>2, <1>3 DEF Inv, SelInv
  <1>7. CtxInv'
    BY <1>2 DEF Inv, CtxInv
  <1>8. LogInv' /\ Cutoffs' /\ TtlRefused' /\ RefusedMeansShort'
    BY <1>2, PartsKept, SameLog
  <1>9. StoredInv' /\ ToldInv'
    BY <1>2 DEF Inv, StoredInv, ToldInv
  <1>10. QED
    BY <1>4, <1>5, <1>6, <1>7, <1>8, <1>9 DEF Inv

\* The slate that is about to be delivered.
LEMMA AtDeliver ==
  ASSUME Inv, pc["payer"] = "deliver"
  PROVE  /\ IsSlate(hand) /\ req.kind \in {"send", "invoice"}
         /\ req.kind = "invoice" => PaidFor(hand, req, sel)
         /\ req.kind = "send" =>
              /\ Offered(hand, req, sel) /\ hand.version = 3 /\ hand.proof = Requested(req)
              /\ hand.ttl = cutoff /\ hand.amount = req.amount
              /\ Faithful(hand, req, Requested(req), cutoff)
  <1>1. Built
    BY DEF Built, Pays
  <1>2. /\ IsSlate(hand) /\ (req.kind = "invoice" => PaidFor(hand, req, sel))
        /\ req.kind = "send" => /\ Offered(hand, req, sel) /\ hand.version = 3
                                /\ hand.proof = Requested(req) /\ hand.ttl = cutoff
    BY DEF Inv, HandInv
  <1>3. req.kind \in {"send", "invoice"}
    BY <1>1, RequestIs DEF Inv, SelInv
  <1>4. req.kind = "send" => hand.amount = req.amount /\ Faithful(hand, req, Requested(req), cutoff)
    BY <1>2 DEF Offered, Carries, Faithful
  <1>5. QED
    BY <1>2, <1>3, <1>4

\* The slate on its way to lock has not been answered unless the sender waited for that.
LEMMA ToLock ==
  ASSUME pc'["payer"] = "lock", IsSlate(hand'),
         req'.kind = "invoice" => PaidFor(hand', req', sel'),
         req'.kind = "send" =>
           IF BySender' THEN Answered(hand', req', sel') /\ Faithful(hand', req', Signed(req', sel'), cutoff')
           ELSE Offered(hand', req', sel') /\ Faithful(hand', req', Requested(req'), cutoff')
  PROVE  HandInv'
  BY DEF HandInv, Selects

\* put_tx to a file or an emoji string.
LEMMA InvDeliverFile ==
  ASSUME Inv, DeliverFile
  PROVE  Inv'
  <1> DEFINE w == PutTx(hand)
  <1>1. /\ pc["payer"] = "deliver" /\ req.method \in {"file", "emoji"} /\ Goes("payer", "lock")
        /\ wire' = IF req.kind = "send" THEN [wire EXCEPT !.out = Some(w)]
                   ELSE [wire EXCEPT !.back = Some(w)]
        /\ UNCHANGED <<req, hand, sel, ctx, log, stored, seen, height, final, cutoff>>
    BY DEF DeliverFile, wallet, world
  <1>2. /\ IsSlate(hand) /\ req.kind \in {"send", "invoice"}
        /\ req.kind = "invoice" => PaidFor(hand, req, sel)
        /\ req.kind = "send" => /\ Offered(hand, req, sel) /\ hand.amount = req.amount
                                /\ Faithful(hand, req, Requested(req), cutoff)
    BY <1>1, AtDeliver
  <1>3. IsWire(w) /\ SameBody(w, hand)
    BY <1>2, PutTxIs
  <1>4. Sender(req) # "keybase" /\ ~ BySender
    BY <1>1 DEF Sender, BySender
  <1>5. req.kind = "send" => Offered(w, req, sel) /\ FaithfulWire(w, req, Requested(req), cutoff)
    BY <1>2, <1>3, <1>4, BodyKeeps, PutKeeps
  <1>6. req.kind = "invoice" => PaidFor(w, req, sel)
    BY <1>2, <1>3, BodyKeeps
  <1> HIDE DEF w
  <1>7. "payer" \in Wallets /\ "lock" \in Places
    BY DEF Wallets, Places
  <1>8. pc'["payer"] = "lock"
    BY <1>1, <1>7, CommandMoves
  <1>9. HandInv'
    BY <1>1, <1>2, <1>4, <1>8, ToLock DEF BySender
  <1>10. DOMAIN wire = {"out", "back"}
    BY DEF Inv, TypeInv
  <1>11. IsSome(Some(w)) /\ Get(Some(w)) = w
    BY Options
  <1>12. WireInv' /\ DOMAIN wire' = {"out", "back"}
    <2>1. CASE req.kind = "send"
      <3>1. wire'.out = Some(w) /\ wire'.back = wire.back /\ DOMAIN wire' = {"out", "back"}
        BY <1>1, <1>10, <2>1
      <3>2. QED
        BY <1>1, <1>3, <1>5, <1>11, <2>1, <3>1 DEF Inv, WireInv
    <2>2. CASE req.kind = "invoice"
      <3>1. wire'.back = Some(w) /\ wire'.out = wire.out /\ DOMAIN wire' = {"out", "back"}
        BY <1>1, <1>10, <2>2
      <3>2. QED
        BY <1>1, <1>3, <1>6, <1>11, <2>2, <3>1 DEF Inv, WireInv
    <2>3. QED
      BY <1>2, <2>1, <2>2
  <1>13. QED
    BY <1>1, <1>2, <1>9, <1>12, Delivering

\* A payment to oneself.
LEMMA InvDeliverSelf ==
  ASSUME Inv, DeliverSelf
  PROVE  Inv'
  <1>1. /\ pc["payer"] = "deliver" /\ req.method = "self" /\ Goes("payer", "lock")
        /\ UNCHANGED <<req, hand, sel, wire, ctx, log, stored, seen, height, final, cutoff>>
    BY DEF DeliverSelf, wallet, world
  <1>2. "payer" \in Wallets /\ "lock" \in Places
    BY DEF Wallets, Places
  <1>3. pc'["payer"] = "lock"
    BY <1>1, <1>2, CommandMoves
  <1>4. HandInv'
    BY <1>1, <1>3, AtDeliver, ToLock DEF BySender
  <1>5. WireInv' /\ DOMAIN wire' = {"out", "back"}
    BY <1>1, PartsKept DEF Inv, TypeInv
  <1>6. QED
    BY <1>1, <1>4, <1>5, AtDeliver, Delivering

\* Over epicbox, in version 2.
LEMMA InvDeliverEpicbox ==
  ASSUME Inv, DeliverEpicbox
  PROVE  Inv'
  <1> DEFINE w == IntoVersion(hand, 2)
             r == FromVersioned(w)
  <1>1. /\ pc["payer"] = "deliver" /\ req.method = "epicbox" /\ Goes("payer", "lock")
        /\ wire' = [wire EXCEPT !.out = Some(w)] /\ hand' = r
        /\ UNCHANGED <<req, sel, ctx, log, stored, seen, height, final, cutoff>>
    BY DEF DeliverEpicbox, wallet, world
  <1>2. IsSlate(hand) /\ req.kind = "send" /\ Offered(hand, req, sel)
    BY <1>1, AtDeliver, RequestIs
  <1>3. IsWire(w) /\ SameBody(w, hand)
    BY <1>2, IntoVersionIs
  <1> HIDE DEF w
  <1>4. IsSlate(r) /\ SameBody(r, w)
    BY <1>3, FromVersionedIs
  <1> HIDE DEF r
  <1>5. Offered(w, req, sel)
    BY <1>2, <1>3, BodyKeeps
  <1>6. Offered(r, req, sel)
    BY <1>4, <1>5, BodyKeeps
  <1>7. "payer" \in Wallets /\ "lock" \in Places
    BY DEF Wallets, Places
  <1>8. pc'["payer"] = "lock"
    BY <1>1, <1>7, CommandMoves
  <1>9. HandInv'
    BY <1>1, <1>2, <1>4, <1>6, <1>8, ToLock DEF BySender, Faithful
  <1>10. wire'.out = Some(w) /\ wire'.back = wire.back /\ DOMAIN wire' = {"out", "back"}
    BY <1>1 DEF Inv, TypeInv
  <1>11. IsSome(Some(w)) /\ Get(Some(w)) = w
    BY Options
  <1>12. WireInv'
    BY <1>1, <1>2, <1>3, <1>5, <1>10, <1>11 DEF Inv, WireInv, FaithfulWire
  <1>13. hand'.amount = req.amount
    BY <1>1, <1>6 DEF Offered, Carries
  <1>14. QED
    BY <1>1, <1>9, <1>10, <1>12, <1>13, Delivering

\* What an http sender puts on the wire.
LEMMA HttpVersionIs ==
  ASSUME Inv, pc["payer"] = "deliver", req.kind = "send", Sender(req) = "http", ~ VersionRefused
  PROVE  /\ IsWire(HttpVersion) /\ Offered(HttpVersion, req, sel)
         /\ FaithfulWire(HttpVersion, req, Requested(req), cutoff)
  <1>1. /\ IsSlate(hand) /\ Offered(hand, req, sel) /\ hand.version = 3
        /\ hand.proof = Requested(req) /\ Faithful(hand, req, Requested(req), cutoff)
    BY AtDeliver
  <1>2. req.peer \in {2, 3}
    BY RequestIs
  <1>3. CASE req.peer = 3
    <2>1. HttpVersion = IntoVersion(hand, 3)
      BY <1>3 DEF HttpVersion
    <2>2. IsWire(IntoVersion(hand, 3)) /\ SameBody(IntoVersion(hand, 3), hand)
      BY <1>1, IntoVersionIs
    <2>3. FaithfulWire(IntoVersion(hand, 3), req, Requested(req), cutoff)
      BY <1>1, IntoKeeps
    <2>4. Offered(IntoVersion(hand, 3), req, sel)
      BY <1>1, <2>2, BodyKeeps
    <2>5. QED
      BY <2>1, <2>2, <2>3, <2>4
  <1>4. CASE req.peer = 2
    <2> DEFINE k == Downgraded(hand)
               w == IntoVersion(k, 2)
    <2>1. HttpVersion = w
      BY <1>4 DEF HttpVersion, Downgraded
    <2>2. IsSlate(k) /\ SameBody(k, hand) /\ k.version = 2
      BY <1>1, DowngradedIs
    <2> HIDE DEF k
    <2>3. IsWire(w) /\ w.fmt = 2 /\ SameBody(w, k) /\ SameVersion(w, k)
      BY <2>2, IntoVersionIs
    <2> HIDE DEF w
    <2>4. Offered(w, req, sel)
      <3>1. Offered(k, req, sel)
        BY <1>1, <2>2, BodyKeeps
      <3>2. QED
        BY <2>3, <3>1, BodyKeeps
    <2>5. Requested(req) = None
      BY <1>1, <1>4 DEF VersionRefused, IsSome
    <2>6. ~ KeepsTtl(req)
      BY <1>4 DEF KeepsTtl
    <2>7. w.version = 2
      BY <2>2, <2>3 DEF SameVersion
    <2>8. FaithfulWire(w, req, Requested(req), cutoff)
      BY <2>3, <2>5, <2>6, <2>7 DEF FaithfulWire
    <2>9. QED
      BY <2>1, <2>3, <2>4, <2>8
  <1>5. QED
    BY <1>2, <1>3, <1>4

\* SlateSender.send_tx.
LEMMA InvDeliverBySender ==
  ASSUME Inv, DeliverBySender
  PROVE  Inv'
  <1>1. /\ pc["payer"] = "deliver" /\ BySender
        /\ UNCHANGED <<req, hand, sel, ctx, log, stored, seen, height, final, cutoff>>
    BY DEF DeliverBySender, wallet, world
  <1>2. \/ (Ends("payer", "unsynced") \/ Ends("payer", "version")) /\ UNCHANGED wire
        \/ /\ Sender(req) = "http" /\ ~ VersionRefused /\ Goes("payer", "await")
           /\ Offers(HttpVersion)
        \/ Sender(req) # "http" /\ Goes("payer", "await") /\ Offers(Serialize(hand))
    BY DEF DeliverBySender
  <1>3. CASE (Ends("payer", "unsynced") \/ Ends("payer", "version")) /\ UNCHANGED wire
    <2>1. DataKept
      BY <1>1, <1>3, DataSame
    <2>2. QED
      BY <1>3, <2>1, PayerStops DEF Harmless
  <1>4. ASSUME Goes("payer", "await"), NEW w, Offers(w),
               req.kind = "send" => /\ IsWire(w) /\ Offered(w, req, sel)
                                    /\ FaithfulWire(w, req, Requested(req), cutoff)
        PROVE  Inv'
    <2>1. "payer" \in Wallets /\ "await" \in Places
      BY DEF Wallets, Places
    <2>2. pc'["payer"] = "await"
      BY <1>4, <2>1, CommandMoves
    <2>3. HandInv'
      BY <1>1, <2>2 DEF HandInv, Selects, BySender
    <2>4. WireInv' /\ DOMAIN wire' = {"out", "back"}
      <3>1. CASE req.kind = "send"
        <4>1. wire' = [out |-> Some(w), back |-> None]
          BY <1>4, <3>1 DEF Offers
        <4>2. IsSome(wire'.out) /\ Get(wire'.out) = w /\ ~ IsSome(wire'.back)
              /\ DOMAIN wire' = {"out", "back"}
          BY <4>1, Options
        <4>3. QED
          BY <1>1, <1>4, <3>1, <4>2 DEF WireInv
      <3>2. CASE req.kind # "send"
        BY <1>1, <1>4, <3>2, PartsKept DEF Offers, Inv, TypeInv
      <3>3. QED
        BY <3>1, <3>2
    <2>5. req.kind = "send" => hand'.amount = req.amount
      BY <1>1, AtDeliver
    <2>6. QED
      BY <1>1, <1>4, <2>3, <2>4, <2>5, Delivering
  <1>5. CASE /\ Sender(req) = "http" /\ ~ VersionRefused /\ Goes("payer", "await")
             /\ Offers(HttpVersion)
    BY <1>1, <1>4, <1>5, HttpVersionIs
  <1>6. CASE Sender(req) # "http" /\ Goes("payer", "await") /\ Offers(Serialize(hand))
    <2>1. Sender(req) = "keybase" /\ req.method # "epicbox"
      BY <1>1, <1>6 DEF Sender, BySender
    <2>2. ASSUME req.kind = "send"
          PROVE  /\ IsWire(Serialize(hand)) /\ Offered(Serialize(hand), req, sel)
                 /\ FaithfulWire(Serialize(hand), req, Requested(req), cutoff)
      <3>1. /\ IsSlate(hand) /\ Offered(hand, req, sel)
            /\ Faithful(hand, req, Requested(req), cutoff)
        BY <1>1, <2>2, AtDeliver
      <3>2. /\ IsWire(Serialize(hand)) /\ SameBody(Serialize(hand), hand)
            /\ FaithfulWire(Serialize(hand), req, Requested(req), cutoff)
        BY <2>1, <3>1, SerializeKeeps
      <3>3. QED
        BY <3>1, <3>2, BodyKeeps
    <2>3. QED
      BY <1>4, <1>6, <2>2
  <1>7. QED
    BY <1>2, <1>3, <1>5, <1>6

\* The sender takes what comes back if it can read it.
LEMMA InvReadAnswer ==
  ASSUME Inv, ReadAnswer
  PROVE  Inv'
  <1> DEFINE w == Get(wire.back)
             s == DeserializeUpgrade(w)
  <1>1. /\ pc["payer"] = "await" /\ IsSome(wire.back)
        /\ UNCHANGED <<req, sel, wire, ctx, log, stored, seen, height, final, cutoff>>
        /\ \/ IsSome(s) /\ hand' = Get(s) /\ Goes("payer", "lock")
           \/ Ends("payer", "format") /\ UNCHANGED hand
    BY DEF ReadAnswer, wallet, world
  <1>2. BySender
    BY <1>1 DEF Inv, HandInv
  <1>3. /\ IsWire(w)
        /\ req.kind = "send" => /\ Answered(w, req, sel)
                                /\ FaithfulWire(w, req, Signed(req, sel), cutoff)
        /\ req.kind = "invoice" => PaidFor(w, req, sel)
    BY <1>1 DEF Inv, WireInv
  <1> HIDE DEF w
  <1>4. CASE Ends("payer", "format") /\ UNCHANGED hand
    <2>1. DataKept
      BY <1>1, <1>4, DataSame
    <2>2. QED
      BY <1>4, <2>1, PayerStops DEF Harmless
  <1>5. CASE IsSome(s) /\ hand' = Get(s) /\ Goes("payer", "lock")
    <2>1. IsSlate(Get(s)) /\ SameBody(Get(s), w)
      BY <1>3, <1>5, DeserializeIs
    <2>2. req.kind = "send" => Faithful(Get(s), req, Signed(req, sel), cutoff)
      BY <1>3, <1>5, DeserializeKeeps
    <2> HIDE DEF s
    <2>3. req.kind = "send" => Answered(Get(s), req, sel)
      BY <1>3, <2>1, BodyKeeps
    <2>4. req.kind = "invoice" => PaidFor(Get(s), req, sel)
      BY <1>3, <2>1, BodyKeeps
    <2>5. "payer" \in Wallets /\ "lock" \in Places
      BY DEF Wallets, Places
    <2>6. pc'["payer"] = "lock"
      BY <1>5, <2>5, CommandMoves
    <2>7. BySender'
      BY <1>1, <1>2 DEF BySender
    <2>8. HandInv'
      BY <1>1, <1>5, <2>1, <2>2, <2>3, <2>4, <2>6, <2>7, ToLock
    <2>9. req.kind = "send" => hand'.amount = req.amount
      BY <1>5, <2>3 DEF Answered, Carries
    <2>10. WireInv' /\ DOMAIN wire' = {"out", "back"}
      BY <1>1, PartsKept DEF Inv, TypeInv
    <2>11. QED
      BY <1>1, <1>5, <2>8, <2>9, <2>10, Delivering
  <1>6. QED
    BY <1>1, <1>4, <1>5

\* No answer.
LEMMA InvNoAnswer ==
  ASSUME Inv, NoAnswer
  PROVE  Inv'
  <1>1. DataKept /\ Ends("payer", "peer")
    BY DataSame DEF NoAnswer, wallet, world
  <1>2. QED
    BY <1>1, PayerStops DEF Harmless

\* tx_lock_outputs writes the entry and the stored transaction of what was built.
LEMMA InvTxLockOutputs ==
  ASSUME Inv, TxLockOutputs
  PROVE  Inv'
  <1> DEFINE key == Get(ctx["payer"]).key
             e == [type |-> "TxSentCreated", ttl |-> hand.ttl, fee |-> hand.fee,
                   debited |-> SumOf(req.coins, key.ins), credited |-> SumSeq(key.change),
                   proof |-> hand.proof, sent |-> FALSE, confirmed |-> FALSE]
             t == [tx |-> CalcExcess(hand), complete |-> FALSE]
  <1>1. /\ pc["payer"] = "lock"
        /\ log' = [log EXCEPT !["payer"] = Some(e)]
        /\ stored' = [stored EXCEPT !["payer"] = Some(t)]
        /\ \/ req.method = "self" /\ Goes("payer", "receive")
           \/ req.method # "self" /\ req.kind = "send" /\ BySender /\ Goes("payer", "finalize")
           \/ Ends("payer", "ok")
        /\ UNCHANGED <<req, hand, sel, wire, ctx, seen, height, final, cutoff>>
    BY DEF TxLockOutputs, world
  <1>2. "payer" \in Wallets /\ "payee" \in Wallets /\ "payer" # "payee"
        /\ "receive" \in Places /\ "finalize" \in Places
    BY DEF Wallets, Places
  <1>3. /\ pc' \in [Wallets -> Places] /\ DOMAIN told' = Wallets
        /\ pc'["payee"] = pc["payee"] /\ told'["payee"] = told["payee"]
        /\ \/ req.method = "self" /\ pc'["payer"] = "receive" /\ told'["payer"] = told["payer"]
           \/ /\ req.kind = "send" /\ BySender /\ pc'["payer"] = "finalize"
              /\ told'["payer"] = told["payer"]
           \/ pc'["payer"] = "idle" /\ told'["payer"] = "ok"
    <2>1. CASE req.method = "self" /\ Goes("payer", "receive")
      BY <1>2, <2>1, CommandMoves DEF Inv, TypeInv
    <2>2. CASE req.kind = "send" /\ BySender /\ Goes("payer", "finalize")
      BY <1>2, <2>2, CommandMoves DEF Inv, TypeInv
    <2>3. CASE Ends("payer", "ok")
      BY <1>2, <2>3, CommandMoves DEF Inv, TypeInv
    <2>4. QED
      BY <1>1, <2>1, <2>2, <2>3
  <1>4. Built
    BY <1>1 DEF Built, Pays
  <1>5. /\ req.kind = "send" => /\ IsSome(ctx["payer"]) /\ key = PayerFirst(req, sel)
        /\ req.kind \in {"send", "invoice"}
    BY <1>1, <1>4, RequestIs DEF Inv, CtxInv, SelInv
  <1>6. /\ DOMAIN e = EntryFields /\ e.fee = hand.fee /\ e.proof = hand.proof
        /\ e.debited = SumOf(req.coins, key.ins) /\ e.credited = SumSeq(key.change)
    BY DEF EntryFields
  <1>7. t.complete = FALSE
    OBVIOUS
  <1> HIDE DEF key, e, t
  <1>8. /\ DOMAIN log' = Wallets /\ log'["payer"] = Some(e)
        /\ DOMAIN stored' = Wallets /\ stored'["payer"] = Some(t)
    BY <1>1, <1>2 DEF Inv, TypeInv
  <1>9. /\ IsSome(log'["payer"]) /\ Get(log'["payer"]) = e
        /\ IsSome(stored'["payer"]) /\ Get(stored'["payer"]) = t
    BY <1>8, Options
  <1>10. TypeInv'
    BY <1>1, <1>3, <1>8 DEF Inv, TypeInv
  <1>11. StartInv'
    BY <1>3 DEF StartInv, Starting, Selects
  <1>12. SelInv'
    BY <1>1, <1>3, <1>4 DEF Inv, SelInv
  <1>13. HandInv'
    <2>1. BySender => req.method # "self"
      BY DEF BySender
    <2>2. BySender' <=> BySender
      BY <1>1 DEF BySender
    <2>3. QED
      BY <1>1, <1>3, <1>5, <2>1, <2>2 DEF Inv, HandInv, Selects
  <1>14. WireInv' /\ Cutoffs' /\ TtlRefused' /\ RefusedMeansShort'
    BY <1>1, <1>3, PartsKept
  <1>15. CtxInv'
    BY <1>1, <1>3 DEF Inv, CtxInv
  <1>16. LogInv'
    <2>1. ASSUME req.kind = "send"
          PROVE  /\ e.debited = TotalOf(req, sel) /\ e.credited = SumSeq(Get(Split(req, sel)))
                 /\ e.fee = sel.fee
                 /\ req.method # "epicbox" => (IsSome(e.proof) <=> req.proof # "no")
      <3>1. key.ins = ToSet(sel.coins) /\ key.change = Get(Split(req, sel))
        BY <1>5, <2>1 DEF PayerFirst, Parted
      <3>2. hand.fee = sel.fee
        BY <1>1, <2>1 DEF Inv, HandInv, Answered, Offered, Carries
      <3>3. req.method # "epicbox" => (IsSome(hand.proof) <=> req.proof # "no")
        BY <1>1, <2>1, ProofsAre DEF Inv, HandInv, Faithful
      <3>4. QED
        BY <1>6, <3>1, <3>2, <3>3 DEF TotalOf
    <2>2. QED
      BY <1>1, <1>6, <1>9, <2>1 DEF LogInv
  <1>17. StoredInv'
    BY <1>7, <1>9 DEF StoredInv
  <1>18. ToldInv'
    BY <1>1, <1>3 DEF Inv, ToldInv
  <1>19. QED
    BY <1>10, <1>11, <1>12, <1>13, <1>14, <1>15, <1>16, <1>17, <1>18 DEF Inv

-----------------------------------------------------------------------------
(* The payee's part *)

\* The payee's answer keeps the cutoff, and signs the proof that was asked for.
LEMMA ReceivedKeeps ==
  ASSUME NEW q, NEW x, Payment(q, x), NEW h, IsSlate(h), Offered(h, q, x), NEW cut,
         Faithful(h, q, Requested(q), cut)
  PROVE  /\ IsSlate(Received(h)) /\ Answered(Received(h), q, x)
         /\ Received(h).version = h.version
         /\ Faithful(Received(h), q, Signed(q, x), cut)
  <1> DEFINE r == Received(h)
  <1>1. /\ IsSlate(r) /\ Answered(r, q, x) /\ r.ttl = h.ttl /\ r.version = h.version
        /\ r.proof = IF IsSome(h.proof) THEN Some([sig |-> Some(Message(q, x))]) ELSE None
    BY Answers
  <1> HIDE DEF r
  <1>2. h.proof = Requested(q) => r.proof = Signed(q, x)
    BY <1>1, ProofsAre
  <1>3. Requested(q) = None => Signed(q, x) = None
    BY ProofsAre
  <1>4. Faithful(r, q, Signed(q, x), cut)
    BY <1>1, <1>2, <1>3 DEF Faithful
  <1>5. QED
    BY <1>1, <1>4 DEF r

\* The entry of the payee is written without touching the payer's.
LEMMA SavesKept ==
  ASSUME Inv, NEW s, SavesReceived(s)
  PROVE  LogKept
  <1>1. DOMAIN log' = Wallets /\ log'["payer"] = log["payer"]
    BY DEF SavesReceived, Inv, TypeInv
  <1>2. QED
    BY <1>1, MarkedEntries DEF LogKept

\* A payment to oneself is received.
LEMMA InvReceiveSelf ==
  ASSUME Inv, ReceiveSelf
  PROVE  Inv'
  <1>1. /\ pc["payer"] = "receive" /\ req.kind = "send"
        /\ UNCHANGED <<req, sel, wire, ctx, stored, seen, height, final, cutoff>>
    BY DEF ReceiveSelf, world
  <1>2. Built
    BY <1>1 DEF Built, Pays
  <1>3. Payment(req, sel)
    BY <1>2, BuiltPays
  <1>4. /\ req.method = "self" /\ ~ BySender
        /\ IsSlate(hand) /\ Offered(hand, req, sel) /\ Faithful(hand, req, Requested(req), cutoff)
    BY <1>1 DEF Inv, HandInv, BySender
  <1>5. /\ IsSlate(Received(hand)) /\ Answered(Received(hand), req, sel)
        /\ Faithful(Received(hand), req, Signed(req, sel), cutoff)
    BY <1>3, <1>4, ReceivedKeeps
  <1>6. CanFillRound2(WithOutput(hand))
    BY <1>3, <1>4, Answers
  <1>7. CASE Ends("payer", "expired") /\ UNCHANGED <<hand, log>>
    <2>1. DataKept
      BY <1>1, <1>7, DataSame
    <2>2. QED
      BY <1>7, <2>1, PayerStops DEF Harmless
  <1>8. CASE SavesReceived(hand) /\ hand' = Received(hand) /\ Goes("payer", "finalize")
    <2>1. "payer" \in Wallets /\ "payee" \in Wallets /\ "payer" # "payee" /\ "finalize" \in Places
      BY DEF Wallets, Places
    <2>2. /\ pc' \in [Wallets -> Places] /\ pc'["payer"] = "finalize" /\ told' = told
          /\ pc'["payee"] = pc["payee"]
      BY <1>8, <2>1, CommandMoves
    <2>3. LogKept
      BY <1>8, SavesKept
    <2>4. hand'.amount = req.amount
      BY <1>5, <1>8 DEF Answered, Carries
    <2>5. TypeInv'
      BY <1>1, <2>2, <2>3 DEF Inv, TypeInv, LogKept
    <2>6. StartInv'
      BY <2>2 DEF StartInv, Starting, Selects
    <2>7. SelInv'
      BY <1>1, <1>2, <2>2, <2>4 DEF Inv, SelInv
    <2>8. HandInv'
      BY <1>1, <1>5, <1>8, <2>2 DEF HandInv, Selects
    <2>9. CtxInv' /\ StoredInv' /\ ToldInv'
      BY <1>1, <2>2 DEF Inv, CtxInv, StoredInv, ToldInv
    <2>10. WireInv' /\ LogInv' /\ Cutoffs' /\ TtlRefused' /\ RefusedMeansShort'
      BY <1>1, <2>2, <2>3, PartsKept
    <2>11. QED
      BY <2>5, <2>6, <2>7, <2>8, <2>9, <2>10 DEF Inv
  <1>9. QED
    BY <1>6, <1>7, <1>8 DEF ReceiveSelf

\* The payee writes a slate on the wire.
LEMMA PayeeWrites ==
  ASSUME Inv, Ends("payee", "ok"), LogKept,
         UNCHANGED <<req, sel, hand, stored, seen, height, final, cutoff>>,
         DOMAIN ctx' = Wallets, ctx'["payer"] = ctx["payer"],
         DOMAIN wire' = {"out", "back"}, WireInv', CtxInv',
         IsSome(wire'.back) => Built,
         IsSome(wire'.out) /\ req.kind # "invoice" => Built
  PROVE  Inv'
  <1>1. "payer" \in Wallets /\ "payee" \in Wallets /\ "payer" # "payee"
    BY DEF Wallets
  <1>2. /\ pc' \in [Wallets -> Places] /\ DOMAIN told' = Wallets
        /\ pc'["payee"] = "idle" /\ told'["payee"] = "ok"
        /\ pc'["payer"] = pc["payer"] /\ told'["payer"] = told["payer"]
    BY <1>1, CommandMoves
  <1>3. Built' => Built
    BY <1>2 DEF Built, LogKept
  <1>4. TypeInv'
    BY <1>2 DEF Inv, TypeInv, LogKept
  <1>5. StartInv'
    BY <1>2, <1>3 DEF Inv, StartInv, Starting
  <1>6. SelInv'
    BY <1>2, <1>3 DEF Inv, SelInv
  <1>7. HandInv'
    BY <1>2 DEF Inv, HandInv, BySender
  <1>8. StoredInv'
    BY <1>2 DEF Inv, StoredInv, LogKept, SameEntry
  <1>9. ToldInv'
    BY <1>2 DEF Inv, ToldInv
  <1>10. LogInv' /\ Cutoffs' /\ TtlRefused' /\ RefusedMeansShort'
    BY <1>2, PartsKept
  <1>11. QED
    BY <1>4, <1>5, <1>6, <1>7, <1>8, <1>9, <1>10 DEF Inv


\* How the receiving side reads an offer: it is the one that was sent.
LEMMA ReadOfferIs ==
  ASSUME Inv, req.kind = "send", NEW w, IsWire(w), NEW proof, NEW cut,
         FaithfulWire(w, req, proof, cut), IsSome(ReadOffer(w))
  PROVE  /\ IsSlate(Get(ReadOffer(w))) /\ SameBody(Get(ReadOffer(w)), w)
         /\ Get(ReadOffer(w)).version = w.version
         /\ Faithful(Get(ReadOffer(w)), req, proof, cut)
         /\ req.method # "epicbox" => w.fmt = w.version
  <1>1. CASE req.method = "epicbox" \/ (Sender(req) = "http" /\ BySender)
    <2>1. ReadOffer(w) = Some(FromVersioned(w))
      BY <1>1 DEF ReadOffer
    <2>2. Get(ReadOffer(w)) = FromVersioned(w)
      BY <2>1, Options
    <2>3. /\ IsSlate(FromVersioned(w)) /\ SameBody(FromVersioned(w), w)
          /\ SameVersion(FromVersioned(w), w)
      BY FromVersionedIs
    <2>4. /\ Faithful(FromVersioned(w), req, proof, cut)
          /\ req.method # "epicbox" => w.fmt = w.version
      BY <1>1, FromKeeps
    <2>5. QED
      BY <2>2, <2>3, <2>4 DEF SameVersion
  <1>2. CASE ~ (req.method = "epicbox" \/ (Sender(req) = "http" /\ BySender))
    <2>1. ReadOffer(w) = DeserializeUpgrade(w)
      BY <1>2 DEF ReadOffer
    <2> DEFINE s == Get(DeserializeUpgrade(w))
    <2>2. IsSome(DeserializeUpgrade(w))
      BY <2>1
    <2>3. IsSlate(s) /\ SameBody(s, w) /\ SameVersion(s, w)
      BY <2>2, DeserializeIs
    <2>4. /\ Faithful(s, req, proof, cut)
          /\ req.method # "epicbox" => w.fmt = w.version
      BY <2>2, DeserializeKeeps
    <2> HIDE DEF s
    <2>5. Get(ReadOffer(w)) = s
      BY <2>1 DEF s
    <2>6. QED
      BY <2>3, <2>4, <2>5 DEF SameVersion
  <1>3. QED
    BY <1>1, <1>2

\* How it writes the answer: proof and cutoff are kept.
LEMMA WriteAnswerIs ==
  ASSUME Inv, req.kind = "send", NEW w, IsWire(w), NEW s, IsSlate(s), s.version = w.version,
         req.method # "epicbox" => w.fmt = w.version,
         NEW proof, NEW cut, Faithful(s, req, proof, cut)
  PROVE  /\ IsWire(WriteAnswer(s, w)) /\ SameBody(WriteAnswer(s, w), s)
         /\ FaithfulWire(WriteAnswer(s, w), req, proof, cut)
  <1>1. CASE req.method \in {"file", "emoji"}
    <2>1. WriteAnswer(s, w) = PutTx(s)
      BY <1>1 DEF WriteAnswer, Sender
    <2>2. Sender(req) # "keybase"
      BY <1>1 DEF Sender
    <2>3. IsWire(PutTx(s)) /\ SameBody(PutTx(s), s)
      BY PutTxIs
    <2>4. FaithfulWire(PutTx(s), req, proof, cut)
      BY <2>2, PutKeeps
    <2>5. QED
      BY <2>1, <2>3, <2>4
  <1>2. CASE Sender(req) = "keybase"
    <2>1. req.method = "keybase"
      BY <1>2 DEF Sender
    <2>2. WriteAnswer(s, w) = Serialize(s) /\ req.method # "epicbox"
      BY <1>2, <2>1 DEF WriteAnswer
    <2>3. QED
      BY <1>2, <2>2, SerializeKeeps
  <1>3. CASE req.method \notin {"file", "emoji"} /\ Sender(req) # "keybase"
    <2>1. WriteAnswer(s, w) = IntoVersion(s, w.fmt)
      BY <1>3 DEF WriteAnswer
    <2>2. w.fmt = 2 \/ w.fmt = 3
      BY DEF IsWire
    <2>3. IsWire(IntoVersion(s, w.fmt)) /\ SameBody(IntoVersion(s, w.fmt), s)
      BY <2>2, IntoVersionIs
    <2>4. FaithfulWire(IntoVersion(s, w.fmt), req, proof, cut)
      <3>1. CASE req.method = "epicbox"
        BY <3>1 DEF FaithfulWire
      <3>2. CASE req.method # "epicbox"
        <4> DEFINE n == w.fmt
        <4>1. /\ n = 2 \/ n = 3
              /\ n = 3 => s.version = 3
              /\ n = 2 => s.version = 2 \/ Sender(req) = "keybase"
          BY <2>2, <3>2
        <4> HIDE DEF n
        <4>2. FaithfulWire(IntoVersion(s, n), req, proof, cut)
          BY <4>1, IntoKeeps
        <4>3. QED
          BY <4>2 DEF n
      <3>3. QED
        BY <3>1, <3>2
    <2>5. QED
      BY <2>1, <2>3, <2>4
  <1>4. QED
    BY <1>1, <1>2, <1>3

\* receive_tx, by the command or a listener.
LEMMA InvReceiveTx ==
  ASSUME Inv, ReceiveTx
  PROVE  Inv'
  <1> DEFINE w == Get(wire.out)
             s == Get(ReadOffer(w))
             a == WriteAnswer(Received(s), w)
  <1>1. /\ req.kind = "send" /\ IsSome(wire.out) /\ IsSome(ReadOffer(w))
        /\ UNCHANGED <<req, hand, sel, ctx, stored, seen, height, final, cutoff>>
    BY DEF ReceiveTx, world
  <1>2. \/ Ends("payee", "expired") /\ UNCHANGED <<log, wire>>
        \/ /\ SavesReceived(s)
           /\ \/ wire' = [wire EXCEPT !.back = Some(a)] /\ Ends("payee", "ok")
              \/ ~ CanFillRound2(WithOutput(s))
    BY DEF ReceiveTx
  <1>3. Built
    BY <1>1 DEF Built
  <1>4. Payment(req, sel)
    BY <1>3, BuiltPays
  <1>5. /\ IsWire(w) /\ Offered(w, req, sel) /\ FaithfulWire(w, req, Requested(req), cutoff)
    BY <1>1 DEF Inv, WireInv
  <1> HIDE DEF w
  <1>6. /\ IsSlate(s) /\ SameBody(s, w) /\ s.version = w.version
        /\ Faithful(s, req, Requested(req), cutoff)
        /\ req.method # "epicbox" => w.fmt = w.version
    BY <1>1, <1>5, ReadOfferIs
  <1> HIDE DEF s
  <1>7. Offered(s, req, sel)
    BY <1>5, <1>6, BodyKeeps
  <1>8. CanFillRound2(WithOutput(s))
    BY <1>4, <1>6, <1>7, Answers
  <1>9. /\ IsSlate(Received(s)) /\ Answered(Received(s), req, sel)
        /\ Received(s).version = w.version
        /\ Faithful(Received(s), req, Signed(req, sel), cutoff)
    BY <1>4, <1>6, <1>7, ReceivedKeeps
  <1>10. /\ IsWire(a) /\ SameBody(a, Received(s))
         /\ FaithfulWire(a, req, Signed(req, sel), cutoff)
    <2> DEFINE r == Received(s)
    <2>1. IsSlate(r) /\ r.version = w.version /\ Faithful(r, req, Signed(req, sel), cutoff)
      BY <1>9
    <2> HIDE DEF r
    <2>2. /\ IsWire(WriteAnswer(r, w)) /\ SameBody(WriteAnswer(r, w), r)
          /\ FaithfulWire(WriteAnswer(r, w), req, Signed(req, sel), cutoff)
      BY <1>1, <1>5, <1>6, <2>1, WriteAnswerIs
    <2>3. QED
      BY <2>2 DEF r
  <1> HIDE DEF a
  <1>11. Answered(a, req, sel)
    BY <1>9, <1>10, BodyKeeps
  <1>12. CASE Ends("payee", "expired") /\ UNCHANGED <<log, wire>>
    <2>1. DataKept
      BY <1>1, <1>12, DataSame
    <2>2. QED
      BY <1>12, <2>1, PayeeEnds
  <1>13. CASE /\ SavesReceived(s) /\ wire' = [wire EXCEPT !.back = Some(a)]
              /\ Ends("payee", "ok")
    <2>1. LogKept
      BY <1>13, SavesKept
    <2>2. wire'.back = Some(a) /\ wire'.out = wire.out /\ DOMAIN wire' = {"out", "back"}
      BY <1>13 DEF Inv, TypeInv
    <2>3. IsSome(wire'.back) /\ Get(wire'.back) = a
      BY <2>2, Options
    <2>4. WireInv'
      BY <1>1, <1>10, <1>11, <2>2, <2>3 DEF Inv, WireInv
    <2>5. /\ DOMAIN ctx' = Wallets /\ ctx'["payer"] = ctx["payer"]
      BY <1>1 DEF Inv, TypeInv
    <2>6. "payer" \in Wallets /\ "payee" \in Wallets /\ "payer" # "payee"
      BY DEF Wallets
    <2>7. pc'["payer"] = pc["payer"]
      BY <1>13, <2>6, CommandMoves
    <2>8. CtxInv'
      BY <1>1, <2>7 DEF Inv, CtxInv
    <2>9. QED
      BY <1>1, <1>3, <1>13, <2>1, <2>2, <2>4, <2>5, <2>8, PayeeWrites
  <1>14. QED
    BY <1>2, <1>8, <1>12, <1>13

\* issue_invoice_tx.
LEMMA InvIssueInvoice ==
  ASSUME Inv, IssueInvoice
  PROVE  Inv'
  <1> DEFINE h == Blank(req.amount, None)
             s == WithOutput(h)
             t == [s EXCEPT !.orig = req.target]
             w == PutTx(t)
             e == [key |-> GenerateOffset(h, PayeeKey(s)), proof |-> FALSE]
  <1>1. /\ req.kind = "invoice" /\ wire' = [wire EXCEPT !.out = Some(w)]
        /\ ctx' = [ctx EXCEPT !["payee"] = Some(e)]
        /\ SavesReceived(s) /\ Ends("payee", "ok")
        /\ UNCHANGED <<req, hand, sel, stored, seen, height, final, cutoff>>
    BY DEF IssueInvoice, world
  <1>2. req.target \in {2, 3}
    BY RequestIs
  <1>3. /\ IsSlate(s) /\ Issued(s, req) /\ SameInfo(s, h)
        /\ GenerateOffset(h, PayeeKey(s)) = PayeeFirst(req)
    BY IssuesInvoice
  <1>4. h.ttl = None /\ h.proof = None
    BY BlankIs
  <1>5. e.key = PayeeFirst(req)
    BY <1>3
  <1> HIDE DEF h, s, e
  <1>6. IsSlate(t) /\ SameBody(t, s) /\ t.ttl = None /\ t.proof = None
    BY <1>2, <1>3, <1>4 DEF IsSlate, SlateFields, SameBody, SameInfo
  <1> HIDE DEF t
  <1>7. IsWire(w) /\ SameBody(w, t) /\ w.version = 2
    <2>1. ~ IsSome(t.ttl) /\ ~ IsSome(t.proof)
      BY <1>6, Options
    <2>2. QED
      BY <1>6, <2>1, PutTxIs
  <1> HIDE DEF w
  <1>8. Issued(w, req)
    <2>1. Issued(t, req)
      BY <1>3, <1>6, BodyKeeps
    <2>2. QED
      BY <1>7, <2>1, BodyKeeps
  <1>9. LogKept
    BY <1>1, SavesKept
  <1>10. wire'.out = Some(w) /\ wire'.back = wire.back /\ DOMAIN wire' = {"out", "back"}
    BY <1>1 DEF Inv, TypeInv
  <1>11. "payer" \in Wallets /\ "payee" \in Wallets /\ "payer" # "payee"
    BY DEF Wallets
  <1>12. /\ DOMAIN ctx' = Wallets /\ ctx'["payer"] = ctx["payer"] /\ ctx'["payee"] = Some(e)
    BY <1>1, <1>11 DEF Inv, TypeInv
  <1>13. /\ IsSome(wire'.out) /\ Get(wire'.out) = w /\ Get(ctx'["payee"]) = e
    BY <1>10, <1>12, Options
  <1>14. WireInv'
    BY <1>1, <1>7, <1>8, <1>10, <1>13 DEF Inv, WireInv
  <1>15. CtxInv'
    BY <1>1, <1>5, <1>13 DEF CtxInv
  <1>16. IsSome(wire'.back) => Built
    BY <1>10 DEF Built
  <1>17. QED
    BY <1>1, <1>9, <1>10, <1>12, <1>14, <1>15, <1>16, PayeeWrites

-----------------------------------------------------------------------------
(* finalize *)

\* A wallet finalizes only what it finds no error in.
LEMMA NoError ==
  ASSUME NEW w \in Wallets, NEW s, NEW done, FinalizeError(w, s, done) = "none"
  PROVE  /\ ~ Expired(s, w) /\ IsSome(ctx[w]) /\ CanFinalize(done, req.coins)
         /\ w = "payer" => ~ ProofError(done)
  BY DEF FinalizeError

\* The reason finalize refuses is one of four, and "invalid" comes from a context
\* that is there and a slate that cannot be signed or finalized.
LEMMA ErrorIs ==
  ASSUME NEW w \in Wallets, NEW s, NEW done, NEW e, e = FinalizeError(w, s, done), e # "none"
  PROVE  /\ e \in {"expired", "missing", "invalid", "proof"}
         /\ e = "invalid" => /\ IsSome(ctx[w])
                             /\ ~ CanFillRound2(s) \/ ~ CanFinalize(done, req.coins)
  BY DEF FinalizeError

\* The payer finalizes the answer to its offer.
LEMMA InvFinalizePayment ==
  ASSUME Inv, Built, req.kind = "send", NEW s, IsSlate(s), Answered(s, req, sel),
         Faithful(s, req, Signed(req, sel), cutoff),
         NEW finish \in {"post", "nopost"}, Finalize("payer", 0, s, finish),
         UNCHANGED <<req, hand, sel, wire, seen, height, cutoff>>
  PROVE  Inv'
  <1> DEFINE done == IF IsSome(ctx["payer"]) THEN FillRound2(s, 0, Get(ctx["payer"]).key) ELSE s
             e == FinalizeError("payer", s, done)
  <1>1. "payer" \in Wallets /\ "payee" \in Wallets /\ "payer" # "payee" /\ "post" \in Places
    BY DEF Wallets, Places
  <1>2. Payment(req, sel) /\ hand.amount = req.amount
    BY BuiltPays DEF Inv, SelInv
  <1>3. IsSome(ctx["payer"]) => done = FillRound2(s, 0, PayerFirst(req, sel))
    BY DEF Inv, CtxInv
  <1>4. \/ e # "none" /\ Ends("payer", e) /\ UNCHANGED <<ctx, log, stored, final>>
        \/ /\ e = "none"
           /\ ctx' = [ctx EXCEPT !["payer"] = None]
           /\ stored' = [stored EXCEPT !["payer"] = Some([tx |-> CalcExcess(done), complete |-> TRUE])]
           /\ log' = [log EXCEPT !["payer"] = Some([Get(log["payer"]) EXCEPT
                                                      !.proof = done.proof, !.sent = IsSome(done.proof)])]
           /\ final' = Some([by |-> "payer", at |-> seen["payer"]])
           /\ Goes("payer", "post") \/ Ends("payer", "ok")
    BY DEF Finalize
  <1> HIDE DEF done
  <1>5. ASSUME IsSome(ctx["payer"])
        PROVE  /\ CanFillRound2(s) /\ done.proof = s.proof
               /\ CanFinalize(done, req.coins) <=> SplitsEvenly(ChangeOf(req, sel), Outs(req))
               /\ CalcExcess(done) = Excess(req, sel) /\ ProofMessage(done) = Message(req, sel)
    BY <1>2, <1>3, <1>5, CompletesPayment
  <1>6. CASE e # "none" /\ Ends("payer", e) /\ UNCHANGED <<ctx, log, stored, final>>
    <2>1. /\ e \in {"expired", "missing", "invalid", "proof"}
          /\ e = "invalid" => /\ IsSome(ctx["payer"])
                              /\ ~ CanFillRound2(s) \/ ~ CanFinalize(done, req.coins)
      BY <1>1, <1>6, ErrorIs
    <2> HIDE DEF e
    <2>2. e = "invalid" => ~ SplitsEvenly(ChangeOf(req, sel), Outs(req))
      BY <1>5, <2>1
    <2>3. /\ pc' \in [Wallets -> Places] /\ DOMAIN told' = Wallets
          /\ pc'["payer"] = "idle" /\ told'["payer"] = e
          /\ pc'["payee"] = pc["payee"] /\ told'["payee"] = told["payee"]
      BY <1>1, <1>6, CommandMoves
    <2>4. ToldInv'
      BY <1>2, <2>1, <2>2, <2>3 DEF Inv, ToldInv
    <2>5. RefusedMeansShort'
      BY <2>1, <2>3 DEF RefusedMeansShort
    <2>6. DataKept
      BY <1>6, DataSame
    <2>7. QED
      BY <2>1, <2>3, <2>4, <2>5, <2>6, PayerEnds
  <1>7. CASE /\ e = "none"
             /\ ctx' = [ctx EXCEPT !["payer"] = None]
             /\ stored' = [stored EXCEPT !["payer"] = Some([tx |-> CalcExcess(done), complete |-> TRUE])]
             /\ log' = [log EXCEPT !["payer"] = Some([Get(log["payer"]) EXCEPT
                                                        !.proof = done.proof, !.sent = IsSome(done.proof)])]
             /\ final' = Some([by |-> "payer", at |-> seen["payer"]])
             /\ Goes("payer", "post") \/ Ends("payer", "ok")
    <2> DEFINE old == Get(log["payer"])
               proof == done.proof
               sent == IsSome(done.proof)
               new == [old EXCEPT !.proof = proof, !.sent = sent]
               t == [tx |-> CalcExcess(done), complete |-> TRUE]
               f == [by |-> "payer", at |-> seen["payer"]]
    <2>1. /\ ~ Expired(s, "payer") /\ IsSome(ctx["payer"]) /\ CanFinalize(done, req.coins)
          /\ ~ ProofError(done)
      BY <1>1, <1>7, NoError
    <2>2. /\ done.proof = s.proof /\ SplitsEvenly(ChangeOf(req, sel), Outs(req))
          /\ CalcExcess(done) = Excess(req, sel)
      BY <1>5, <2>1
    <2>3. IsSome(log["payer"])
      BY <2>1 DEF ProofError
    <2>4. /\ DOMAIN old = EntryFields /\ old.debited = TotalOf(req, sel)
          /\ old.credited = SumSeq(Get(Split(req, sel))) /\ old.fee = sel.fee
      BY <2>3 DEF Inv, LogInv
    <2>5. /\ ctx' = [ctx EXCEPT !["payer"] = None]
          /\ stored' = [stored EXCEPT !["payer"] = Some(t)]
          /\ log' = [log EXCEPT !["payer"] = Some(new)] /\ final' = Some(f)
      BY <1>7
    <2>6. t.tx = Excess(req, sel) /\ t.complete = TRUE /\ f.at = seen["payer"]
      BY <2>2
    <2>7. new = [old EXCEPT !.proof = proof, !.sent = sent]
      OBVIOUS
    <2>8. (sent <=> IsSome(proof)) /\ proof = s.proof
      BY <2>2
    <2> HIDE DEF e, old, proof, sent, new, t, f
    <2>9. /\ DOMAIN new = EntryFields /\ new.debited = old.debited
          /\ new.credited = old.credited /\ new.fee = old.fee
          /\ new.proof = proof /\ new.sent = sent
      BY <2>4, <2>7 DEF EntryFields
    <2>10. /\ DOMAIN ctx' = Wallets /\ ctx'["payer"] = None /\ ctx'["payee"] = ctx["payee"]
           /\ DOMAIN stored' = Wallets /\ stored'["payer"] = Some(t)
           /\ DOMAIN log' = Wallets /\ log'["payer"] = Some(new)
      BY <1>1, <2>5 DEF Inv, TypeInv
    <2>11. /\ ~ IsSome(ctx'["payer"]) /\ IsSome(log'["payer"]) /\ Get(log'["payer"]) = new
           /\ IsSome(stored'["payer"]) /\ Get(stored'["payer"]) = t
           /\ IsSome(final') /\ Get(final') = f
      BY <2>5, <2>10, Options
    <2>12. /\ pc' \in [Wallets -> Places] /\ DOMAIN told' = Wallets
           /\ pc'["payee"] = pc["payee"] /\ told'["payee"] = told["payee"]
           /\ \/ pc'["payer"] = "post" /\ told'["payer"] = told["payer"]
              \/ pc'["payer"] = "idle" /\ told'["payer"] = "ok"
      <3>1. CASE Goes("payer", "post")
        BY <1>1, <3>1, CommandMoves DEF Inv, TypeInv
      <3>2. CASE Ends("payer", "ok")
        BY <1>1, <3>2, CommandMoves DEF Inv, TypeInv
      <3>3. QED
        BY <1>7, <3>1, <3>2
    <2>13. req.method # "epicbox" => proof = Signed(req, sel) /\ (sent <=> req.proof # "no")
      <3>1. req.method # "epicbox" => proof = Signed(req, sel)
        BY <2>8 DEF Faithful
      <3>2. IsSome(Signed(req, sel)) <=> req.proof # "no"
        BY ProofsAre
      <3>3. QED
        BY <2>8, <3>1, <3>2
    <2>14. TypeInv'
      BY <2>10, <2>12 DEF Inv, TypeInv
    <2>15. StartInv' /\ HandInv'
      BY <2>12 DEF StartInv, Starting, HandInv, Selects
    <2>16. SelInv'
      BY <2>12 DEF Inv, SelInv
    <2>17. CtxInv'
      BY <2>11, <2>12 DEF CtxInv
    <2>18. LogInv'
      BY <2>4, <2>8, <2>9, <2>11, <2>13 DEF LogInv
    <2>19. StoredInv'
      <3>1. TotalOf(req, sel) = SumSeq(Get(Split(req, sel))) + req.amount + sel.fee
        BY <1>2, <2>2, PaymentIs
      <3>2. QED
        BY <2>6, <2>9, <2>11, <2>12, <2>13, <3>1 DEF StoredInv
    <2>20. ToldInv'
      BY <1>2, <2>12 DEF Inv, ToldInv
    <2>21. TtlRefused'
      <3>1. ASSUME IsSome(cutoff), KeepsTtl(req) PROVE f.at < Get(cutoff)
        <4>1. s.ttl = cutoff
          BY <3>1 DEF Faithful, KeepsTtl
        <4>2. Get(cutoff) \in Nat /\ seen["payer"] \in Nat
          BY <1>1, <3>1 DEF Inv, Cutoffs, IsTtl, TypeInv
        <4>3. ~ (seen["payer"] >= Get(cutoff))
          BY <2>1, <3>1, <4>1 DEF Expired
        <4>4. QED
          BY <2>6, <4>2, <4>3
      <3>2. QED
        BY <2>11, <3>1 DEF TtlRefused, KeepsTtl
    <2>22. WireInv' /\ Cutoffs' /\ RefusedMeansShort'
      BY <2>12, PartsKept
    <2>23. QED
      BY <2>14, <2>15, <2>16, <2>17, <2>18, <2>19, <2>20, <2>21, <2>22 DEF Inv
  <1>8. QED
    BY <1>4, <1>6, <1>7

\* The payee finalizes the invoice it issued: a payment made for it has one change output,
\* and verifies.
LEMMA InvFinalizeInvoice ==
  ASSUME Inv, Built, req.kind = "invoice", NEW s, IsSlate(s), PaidFor(s, req, sel),
         NEW finish \in {"post", "nopost", "self"}, Finalize("payee", 1, s, finish),
         UNCHANGED <<req, hand, sel, wire, seen, height, cutoff>>
  PROVE  Inv'
  <1> DEFINE done == IF IsSome(ctx["payee"]) THEN FillRound2(s, 1, Get(ctx["payee"]).key) ELSE s
             e == FinalizeError("payee", s, done)
             who == IF finish = "self" THEN "payer" ELSE "payee"
  <1>1. "payer" \in Wallets /\ "payee" \in Wallets /\ "payer" # "payee" /\ "post" \in Places
    BY DEF Wallets, Places
  <1>2. Payment(req, sel)
    BY BuiltPays
  <1>3. IsSome(ctx["payee"]) => done = FillRound2(s, 1, PayeeFirst(req))
    BY DEF Inv, CtxInv
  <1>4. \/ e # "none" /\ Ends(who, e) /\ UNCHANGED <<ctx, log, stored, final>>
        \/ /\ \E t : stored' = [stored EXCEPT !["payee"] = t]
           /\ \E t : log' = [log EXCEPT !["payee"] = t]
           /\ ctx' = [ctx EXCEPT !["payee"] = None]
           /\ Goes("payee", "post") \/ Ends("payee", "ok") \/ Ends("payer", "ok")
    BY DEF Finalize
  <1> HIDE DEF done
  <1>5. SplitsEvenly(ChangeOf(req, sel), Outs(req))
    <2>1. Outs(req) = 1 /\ ChangeOf(req, sel) \in Nat
      BY <1>2, PaymentIs DEF Outs
    <2>2. QED
      BY <2>1, ChangeIs
  <1>6. IsSome(ctx["payee"]) => CanFillRound2(s) /\ CanFinalize(done, req.coins)
    BY <1>2, <1>3, <1>5, CompletesInvoice
  <1>7. CASE e # "none" /\ Ends(who, e) /\ UNCHANGED <<ctx, log, stored, final>>
    <2>1. e \in {"expired", "missing", "proof"}
      BY <1>1, <1>6, <1>7, ErrorIs
    <2> HIDE DEF e
    <2>2. DataKept
      BY <1>7, DataSame
    <2>3. CASE who = "payer"
      BY <1>7, <2>1, <2>2, <2>3, PayerStops DEF Harmless
    <2>4. CASE who = "payee"
      BY <1>7, <2>1, <2>2, <2>4, PayeeEnds
    <2>5. QED
      BY <2>3, <2>4
  <1>8. CASE /\ \E t : stored' = [stored EXCEPT !["payee"] = t]
             /\ \E t : log' = [log EXCEPT !["payee"] = t]
             /\ ctx' = [ctx EXCEPT !["payee"] = None]
             /\ Goes("payee", "post") \/ Ends("payee", "ok") \/ Ends("payer", "ok")
    <2>1. /\ DOMAIN ctx' = Wallets /\ ctx'["payer"] = ctx["payer"] /\ ctx'["payee"] = None
          /\ DOMAIN stored' = Wallets /\ stored'["payer"] = stored["payer"]
          /\ DOMAIN log' = Wallets /\ log'["payer"] = log["payer"]
      BY <1>1, <1>8 DEF Inv, TypeInv
    <2>2. /\ pc' \in [Wallets -> Places] /\ DOMAIN told' = Wallets
          /\ pc'["payee"] \in {"idle", "post"} /\ told'["payee"] # "invalid"
          /\ \/ pc'["payer"] = pc["payer"] /\ told'["payer"] = told["payer"]
             \/ pc'["payer"] = "idle" /\ told'["payer"] = "ok"
      <3>1. CASE Goes("payee", "post")
        BY <1>1, <3>1, CommandMoves DEF Inv, TypeInv, ToldInv
      <3>2. CASE Ends("payee", "ok")
        BY <1>1, <3>2, CommandMoves DEF Inv, TypeInv
      <3>3. CASE Ends("payer", "ok")
        BY <1>1, <3>3, CommandMoves DEF Inv, TypeInv, ToldInv
      <3>4. QED
        BY <1>8, <3>1, <3>2, <3>3
    <2>3. ~ IsSome(None)
      BY Options
    <2>4. TypeInv'
      BY <2>1, <2>2 DEF Inv, TypeInv
    <2>5. StartInv'
      BY <2>1, <2>2 DEF Inv, StartInv, Starting, Built, Selects
    <2>6. SelInv'
      BY <2>2 DEF Inv, SelInv
    <2>7. HandInv'
      BY <2>2 DEF Inv, HandInv, Selects, BySender
    <2>8. CtxInv' /\ LogInv' /\ StoredInv' /\ TtlRefused'
      BY <2>1, <2>3 DEF CtxInv, LogInv, StoredInv, TtlRefused
    <2>9. ToldInv'
      BY <2>2 DEF Inv, ToldInv
    <2>10. WireInv' /\ Cutoffs' /\ RefusedMeansShort'
      BY <2>2, PartsKept
    <2>11. QED
      BY <2>4, <2>5, <2>6, <2>7, <2>8, <2>9, <2>10 DEF Inv
  <1>9. QED
    BY <1>4, <1>7, <1>8

\* The finalizing steps of the payer's command.
LEMMA InvFinalizeInHand ==
  ASSUME Inv, FinalizeInHand
  PROVE  Inv'
  <1>1. /\ pc["payer"] = "finalize" /\ Finalize("payer", 0, hand, "post")
        /\ UNCHANGED <<req, hand, sel, wire, seen, height, cutoff>>
    BY DEF FinalizeInHand, world
  <1>2. Built
    BY <1>1 DEF Built, Pays
  <1>3. /\ IsSlate(hand) /\ Answered(hand, req, sel)
        /\ Faithful(hand, req, Signed(req, sel), cutoff) /\ req.kind = "send"
    BY <1>1, <1>2, RequestIs DEF Inv, HandInv, SelInv
  <1>4. QED
    BY <1>1, <1>2, <1>3, InvFinalizePayment

\* The wallet that paid itself an invoice finalizes it.
LEMMA InvFinalizeInvoiceSelf ==
  ASSUME Inv, FinalizeInvoiceSelf
  PROVE  Inv'
  <1>1. /\ pc["payer"] = "receive" /\ req.kind = "invoice" /\ Finalize("payee", 1, hand, "self")
        /\ UNCHANGED <<req, hand, sel, wire, seen, height, cutoff>>
    BY DEF FinalizeInvoiceSelf, world
  <1>2. Built
    BY <1>1 DEF Built, Pays
  <1>3. IsSlate(hand) /\ PaidFor(hand, req, sel)
    BY <1>1 DEF Inv, HandInv
  <1>4. QED
    BY <1>1, <1>2, <1>3, InvFinalizeInvoice

\* The finalize command tells the sides apart.
LEMMA InvFinalizeBack ==
  ASSUME Inv, NEW finish \in {"post", "nopost"}, FinalizeBack(finish)
  PROVE  Inv'
  <1> DEFINE v == Get(wire.back)
             s == Get(ReadOffer(v))
             w == IF IsComplete(Participant(s, 1)) THEN "payer" ELSE "payee"
  <1>1. /\ IsSome(wire.back) /\ ~ BySender /\ IsSome(ReadOffer(v))
        /\ Finalize(w, IF w = "payer" THEN 0 ELSE 1, s, finish)
        /\ UNCHANGED <<req, hand, sel, wire, seen, height, cutoff>>
    BY DEF FinalizeBack, world
  <1>2. Built
    BY <1>1 DEF Built
  <1>3. /\ IsWire(v)
        /\ req.kind = "send" => /\ Answered(v, req, sel)
                                /\ FaithfulWire(v, req, Signed(req, sel), cutoff)
        /\ req.kind = "invoice" => PaidFor(v, req, sel)
    BY <1>1 DEF Inv, WireInv
  <1> HIDE DEF v
  <1>4. CASE req.kind = "send"
    <2>1. /\ IsSlate(s) /\ SameBody(s, v) /\ Faithful(s, req, Signed(req, sel), cutoff)
      BY <1>1, <1>3, <1>4, ReadOfferIs
    <2>2. Answered(s, req, sel)
      BY <1>3, <1>4, <2>1, BodyKeeps
    <2>3. w = "payer"
      BY <2>2, SidesAre
    <2> HIDE DEF s, w
    <2>4. Finalize("payer", 0, s, finish)
      BY <1>1, <2>3
    <2>5. QED
      BY <1>1, <1>2, <1>4, <2>1, <2>2, <2>4, InvFinalizePayment
  <1>5. CASE req.kind = "invoice"
    <2>1. ReadOffer(v) = DeserializeUpgrade(v)
      <3>1. req.method # "epicbox" /\ req.kind # "send"
        BY <1>5, RequestIs
      <3>2. QED
        BY <3>1 DEF ReadOffer
    <2>2. IsSlate(s) /\ SameBody(s, v)
      BY <1>1, <1>3, <2>1, DeserializeIs
    <2>3. PaidFor(s, req, sel)
      BY <1>3, <1>5, <2>2, BodyKeeps
    <2>4. w = "payee" /\ "payee" # "payer"
      BY <2>3, SidesAre
    <2> HIDE DEF s, w
    <2>5. Finalize("payee", 1, s, finish)
      BY <1>1, <2>4
    <2>6. finish \in {"post", "nopost", "self"}
      OBVIOUS
    <2>7. QED
      BY <1>1, <1>2, <1>5, <2>2, <2>3, <2>5, <2>6, InvFinalizeInvoice
  <1>6. QED
    BY <1>2, <1>4, <1>5, RequestIs DEF Inv, SelInv

-----------------------------------------------------------------------------
(* The theorems *)

\* Every step keeps the invariant.
LEMMA InvNext == Inv /\ [Next]_vars => Inv'
  <1> SUFFICES ASSUME Inv, [Next]_vars PROVE Inv'
    OBVIOUS
  <1>1. CASE UNCHANGED vars
    <2>1. UNCHANGED <<pc, told, req, sel, hand, wire, ctx, log, stored, final, cutoff, height, seen>>
      BY <1>1 DEF vars
    <2>2. height' \in Nat /\ seen' \in [Wallets -> Nat] /\ LogKept
      BY <2>1, SameLog DEF Inv, TypeInv
    <2>3. QED
      BY <2>1, <2>2, WorldMoves
  <1>2. CASE Mine \/ Tick \/ Outage \/ \E w \in Wallets : InitWallet(w) \/ Post(w)
    BY <1>2, InvWorld
  <1>3. ASSUME NEW w \in Wallets, Repost(w) \/ Refresh(w) \/ Cancel(w) PROVE Inv'
    BY <1>3, InvMarks
  <1>4. ASSUME NEW w \in Wallets, Killed(w) PROVE Inv'
    BY <1>4, InvKilled
  <1>5. CASE Send \/ Pay
    BY <1>5, InvSend, InvPay
  <1>6. CASE ReceiveTx \/ IssueInvoice
    BY <1>6, InvReceiveTx, InvIssueInvoice
  <1>7. ASSUME NEW finish \in {"post", "nopost"}, FinalizeBack(finish) PROVE Inv'
    BY <1>7, InvFinalizeBack
  <1>8. CASE PostTx("payer") \/ PostTx("payee")
    BY <1>8, InvPostTx DEF Wallets
  <1>9. CASE SelectFirst \/ Reselect \/ Estimated \/ BuildSendTx
    BY <1>9, InvSelectFirst, InvReselect, InvEstimated, InvBuildSendTx
  <1>10. CASE DeliverFile \/ DeliverSelf \/ DeliverEpicbox \/ DeliverBySender
    BY <1>10, InvDeliverFile, InvDeliverSelf, InvDeliverEpicbox, InvDeliverBySender
  <1>11. CASE ReadAnswer \/ NoAnswer \/ TxLockOutputs \/ ReceiveSelf
    BY <1>11, InvReadAnswer, InvNoAnswer, InvTxLockOutputs, InvReceiveSelf
  <1>12. CASE FinalizeInHand \/ FinalizeInvoiceSelf
    BY <1>12, InvFinalizeInHand, InvFinalizeInvoiceSelf
  <1>13. QED
    BY <1>1, <1>2, <1>3, <1>4, <1>5, <1>6, <1>7, <1>8, <1>9, <1>10, <1>11, <1>12
    DEF Next, PayerStep

\* The invariant holds in every state: what was selected pays for the payment, and in each
\* round a slate, its text on the wire and the private context are those of one payment.
THEOREM CommandsInvariant == Spec => []Inv
  <1>1. Init => Inv
    BY InvInit
  <1>2. Inv /\ [Next]_vars => Inv'
    BY InvNext
  <1>3. QED
    BY <1>1, <1>2, PTL DEF Spec

\* select_coins_and_fee: every round of its loop takes more coins than the one before.
THEOREM LoopGrows == Spec => []SelectionGrows
  <1>1. Inv => SelectionGrows
    BY MoreCoins
  <1>2. QED
    BY <1>1, CommandsInvariant, PTL

\* NotEnoughFunds is reported only if all eligible coins together cannot pay.
THEOREM RefusalsAreShort == Spec => []RefusedMeansShort
  <1>1. Inv => RefusedMeansShort
    BY DEF Inv
  <1>2. QED
    BY <1>1, CommandsInvariant, PTL

\* A wallet that knows a height past the cutoff does not finalize the payment.
THEOREM ExpiredIsRefused == Spec => []TtlRefused
  <1>1. Inv => TtlRefused
    BY DEF Inv
  <1>2. QED
    BY <1>1, CommandsInvariant, PTL

\* Two wallets that follow the protocol never dispute a fee, a signature or the final
\* transaction unless the change amounts do not add up.
THEOREM HonestWalletsComplete == Spec => []HonestCompletes
  <1>1. ASSUME Inv PROVE HonestCompletes
    <2> DEFINE c == ChangeOf(req, sel)
               n == Outs(req)
    <2>1. NumChange = n
      BY DEF NumChange, Outs
    <2>2. hand.amount = req.amount => Change = c
      BY DEF Change, Total, ChangeOf, TotalOf
    <2> HIDE DEF c, n
    <2>3. /\ told["payer"] = "panic" => hand.amount = req.amount /\ (n = 0 \/ c < n)
          /\ told["payer"] = "invalid" => hand.amount = req.amount /\ ~ SplitsEvenly(c, n)
          /\ told["payee"] # "invalid"
      BY <1>1 DEF Inv, ToldInv, c, n
    <2>4. (\E w \in Wallets : told[w] = "invalid") => told["payer"] = "invalid"
      BY <2>3 DEF Wallets
    <2>5. (\E w \in Wallets : told[w] = "invalid") => ~ SplitsEvenly(Change, NumChange)
      BY <2>1, <2>2, <2>3, <2>4
    <2>6. told["payer"] = "panic" => Change < NumChange \/ NumChange = 0
      BY <2>1, <2>2, <2>3
    <2>7. QED
      BY <2>5, <2>6 DEF HonestCompletes
  <1>2. QED
    BY <1>1, CommandsInvariant, PTL

\* A payment for which a proof was requested is not completed without one that verifies,
\* except over epicbox.
THEOREM ProofsVerify == Spec => []ProofVerifies
  <1>1. ASSUME Inv PROVE ProofVerifies
    <2> SUFFICES ASSUME req.kind = "send", IsMined("payer"), Get(stored["payer"]).complete,
                        req.proof # "no", req.method # "epicbox"
                 PROVE  Proven
      BY DEF ProofVerifies, Paid
    <2> DEFINE e == Get(log["payer"])
               x == Excess(req, sel)
               r == RetrievePaymentProof(e)
               p == [amount |-> e.debited - e.credited - e.fee, sig |-> Get(Get(e.proof).sig),
                     excess |-> Get(stored["payer"]).tx]
    <2>1. IsSome(stored["payer"]) /\ Get(stored["payer"]).tx \in chain
      BY DEF IsMined
    <2>2. /\ Get(stored["payer"]).tx = x /\ IsSome(log["payer"])
          /\ TotalOf(req, sel) = SumSeq(Get(Split(req, sel))) + req.amount + sel.fee
          /\ e.proof = Signed(req, sel) /\ e.sent
      BY <1>1, <2>1 DEF Inv, StoredInv
    <2>3. /\ e.debited = TotalOf(req, sel) /\ e.credited = SumSeq(Get(Split(req, sel)))
          /\ e.fee = sel.fee
      BY <1>1, <2>2 DEF Inv, LogInv
    <2>4. Payment(req, sel)
      <3>1. Built
        BY <2>2 DEF Built
      <3>2. QED
        BY <1>1, <3>1, BuiltPays
    <2>5. e.debited - e.credited - e.fee = req.amount
      <3>1. /\ TotalOf(req, sel) \in Nat /\ SumSeq(Get(Split(req, sel))) \in Nat
            /\ req.amount \in Nat /\ sel.fee \in Nat
        BY <2>4, PaymentIs DEF Payment
      <3>2. QED
        BY <2>2, <2>3, <3>1
    <2>6. /\ IsSome(e.proof) /\ IsSome(Get(e.proof).sig)
          /\ Get(Get(e.proof).sig) = [amount |-> req.amount, excess |-> x]
      <3>1. e.proof = Some([sig |-> Some([amount |-> req.amount, excess |-> x])])
        BY <2>2 DEF Signed
      <3> HIDE DEF e, x
      <3>2. IsSome(e.proof) /\ Get(e.proof).sig = Some([amount |-> req.amount, excess |-> x])
        BY <3>1, Options
      <3>3. QED
        BY <3>2, Options
    <2>7. r = Some(p)
      BY <2>2, <2>6 DEF RetrievePaymentProof
    <2>8. IsSome(r) /\ Get(r) = p
      <3> HIDE DEF r, p
      <3>1. QED
        BY <2>7, Options
    <2>9. p.excess = x /\ p.amount = req.amount /\ p.sig = [amount |-> req.amount, excess |-> x]
      <3> HIDE DEF e, x
      <3>1. QED
        BY <2>2, <2>5, <2>6
    <2> HIDE DEF p
    <2>10. VerifyPaymentProof(p)
      BY <2>1, <2>2, <2>9 DEF VerifyPaymentProof
    <2>11. QED
      BY <2>8, <2>10 DEF Proven
  <1>2. QED
    BY <1>1, CommandsInvariant, PTL

=============================================================================
