--------------------------- MODULE SumsProofs ---------------------------
(***************************************************************************)
(* What SumTo computes, for every function on 1..n: it is defined by       *)
(* recursion, and the facts are proved by induction, as least              *)
(* counterexamples.                                                        *)
(***************************************************************************)
EXTENDS Sums, FiniteSets, FiniteSetTheorems, WellFoundedInduction, TLAPS

(* The least number of a set of them. *)
LEMMA LeastOf ==
  ASSUME NEW T \in SUBSET Nat, T # {}
  PROVE  \E n \in T : \A m \in T : n <= m
<1> DEFINE R == OpToRel(<, Nat)
<1>1. IsWellFoundedOn(R, Nat)
  BY NatLessThanWellFounded
<1>2. \A x, y \in Nat : y < x => <<y, x>> \in R
  BY DEF OpToRel
<1> HIDE DEF R
<1>3. PICK n \in T : \A m \in T : ~ (<<m, n>> \in R)
  BY <1>1, WFMin
<1>4. \A m \in T : ~ (m < n)
  BY <1>2, <1>3
<1> QED BY <1>4

(* A set with 0, and with each of 1..N whose predecessor it has, has them all:
   induction, for the members of a set. *)
LEMMA CountingUp ==
  ASSUME NEW N \in Nat, NEW Good, 0 \in Good, \A m \in 1..N : m - 1 \in Good => m \in Good
  PROVE  \A m \in 0..N : m \in Good
<1> DEFINE Bad == {m \in 0..N : m \notin Good}
<1>1. SUFFICES ASSUME Bad # {} PROVE FALSE
  OBVIOUS
<1>2. Bad \in SUBSET Nat
  OBVIOUS
<1>3. PICK m \in Bad : \A n \in Bad : m <= n
  BY <1>1, <1>2, LeastOf
<1>4. m \in 1..N /\ m - 1 \in 0..N
  BY <1>3
<1>5. m - 1 \notin Bad
  BY <1>3, <1>4
<1> QED BY <1>3, <1>4, <1>5

(* The sums of the first 0, 1, ... values exist. *)
LEMMA SumsExist ==
  ASSUME NEW N \in Nat, NEW f \in [1..N -> Int]
  PROVE  \E g \in [0..N -> Int] : g[0] = 0 /\ \A n \in 1..N : g[n] = g[n - 1] + f[n]
<1> DEFINE Good(m) == \E g \in [0..m -> Int] : g[0] = 0 /\ \A n \in 1..m : g[n] = g[n - 1] + f[n]
           All == {m \in 0..N : Good(m)}
<1>1. Good(0)
  <2>1. [n \in 0..0 |-> 0] \in [0..0 -> Int] /\ [n \in 0..0 |-> 0][0] = 0 /\ 1..0 = {}
    OBVIOUS
  <2> QED BY <2>1
<1>2. ASSUME NEW m \in 1..N, Good(m - 1) PROVE Good(m)
  <2>1. PICK g \in [0..m - 1 -> Int] : g[0] = 0 /\ \A n \in 1..m - 1 : g[n] = g[n - 1] + f[n]
    BY <1>2
  <2> DEFINE h == [n \in 0..m |-> IF n = m THEN g[m - 1] + f[m] ELSE g[n]]
  <2>2. g[m - 1] \in Int /\ f[m] \in Int /\ m \in Nat /\ m # 0
    BY <2>1
  <2>3. h \in [0..m -> Int] /\ h[0] = 0
    BY <2>1, <2>2
  <2>4. ASSUME NEW n \in 1..m PROVE h[n] = h[n - 1] + f[n]
    <3>1. n - 1 \in 0..m /\ n - 1 # m
      BY <2>2
    <3>2. CASE n = m
      BY <3>1, <3>2
    <3>3. CASE n # m
      <4>1. n \in 1..m - 1
        BY <3>3, <2>2
      <4> QED BY <3>1, <3>3, <4>1, <2>1
    <3> QED BY <3>2, <3>3
  <2> HIDE DEF h
  <2> QED BY <2>3, <2>4
<1> HIDE DEF Good
<1>3. 0 \in All /\ \A m \in 1..N : m - 1 \in All => m \in All
  BY <1>1, <1>2
<1>4. Good(N)
  <2> HIDE DEF All
  <2>1. \A m \in 0..N : m \in All
    BY <1>3, CountingUp
  <2> QED BY <2>1 DEF All
<1> QED BY <1>4 DEF Good

(* Each running sum is the one before and the next value. *)
LEMMA RunningSumAdds ==
  ASSUME NEW N \in Nat, NEW f \in [1..N -> Int]
  PROVE  /\ RunningSum(f, N)[0] = 0
         /\ \A n \in 1..N : RunningSum(f, N)[n] = RunningSum(f, N)[n - 1] + f[n]
         /\ \A n \in 0..N : RunningSum(f, N)[n] \in Int
<1> DEFINE Step(g) == [n \in 0..N |-> IF n = 0 THEN 0 ELSE g[n - 1] + f[n]]
<1>1. PICK g \in [0..N -> Int] : g[0] = 0 /\ \A n \in 1..N : g[n] = g[n - 1] + f[n]
  BY SumsExist
<1>2. g = Step(g)
  <2>1. \A n \in 0..N : g[n] = Step(g)[n]
    BY <1>1
  <2> QED BY <2>1
<1>3. RunningSum(f, N) = CHOOSE s : s = Step(s)
  BY DEF RunningSum
<1>4. RunningSum(f, N) = Step(RunningSum(f, N))
  BY <1>2, <1>3
<1> DEFINE s == RunningSum(f, N)
           All == {n \in 0..N : s[n] \in Int}
<1>a. s = Step(s)
  BY <1>4
<1> HIDE DEF s
<1>5. s[0] = 0 /\ \A n \in 1..N : s[n] = s[n - 1] + f[n]
  <2>1. \A n \in 0..N : s[n] = IF n = 0 THEN 0 ELSE s[n - 1] + f[n]
    BY <1>a
  <2> QED BY <2>1
<1>6. 0 \in All /\ \A m \in 1..N : m - 1 \in All => m \in All
  BY <1>5
<1>7. \A n \in 0..N : s[n] \in Int
  <2> HIDE DEF All
  <2>1. \A m \in 0..N : m \in All
    BY <1>6, CountingUp
  <2> QED BY <2>1 DEF All
<1> QED BY <1>5, <1>7 DEF s

(* No value above another's, no sum above; and a sum of integers is one. *)
LEMMA SumsInOrder ==
  ASSUME NEW N \in Nat, NEW f \in [1..N -> Int], NEW g \in [1..N -> Int],
         \A n \in 1..N : f[n] <= g[n]
  PROVE  SumTo(f, N) <= SumTo(g, N) /\ SumTo(f, N) \in Int /\ SumTo(g, N) \in Int
<1> DEFINE F == RunningSum(f, N)
           G == RunningSum(g, N)
           All == {n \in 0..N : F[n] <= G[n]}
<1>1. /\ F[0] = 0 /\ \A n \in 1..N : F[n] = F[n - 1] + f[n]
      /\ \A n \in 0..N : F[n] \in Int
  BY RunningSumAdds
<1>2. /\ G[0] = 0 /\ \A n \in 1..N : G[n] = G[n - 1] + g[n]
      /\ \A n \in 0..N : G[n] \in Int
  BY RunningSumAdds
<1> HIDE DEF F, G
<1>3. ASSUME NEW m \in 1..N, m - 1 \in All PROVE m \in All
  <2>1. f[m] <= g[m] /\ f[m] \in Int /\ g[m] \in Int
    OBVIOUS
  <2>2. F[m] = F[m - 1] + f[m] /\ G[m] = G[m - 1] + g[m]
    BY <1>1, <1>2
  <2>3. F[m - 1] \in Int /\ G[m - 1] \in Int /\ F[m - 1] <= G[m - 1]
    BY <1>1, <1>2, <1>3
  <2> QED BY <2>1, <2>2, <2>3
<1>4. 0 \in All
  BY <1>1, <1>2
<1>5. F[N] <= G[N]
  <2> HIDE DEF All
  <2>1. \A m \in 0..N : m \in All
    BY <1>3, <1>4, CountingUp
  <2> QED BY <2>1 DEF All
<1> QED BY <1>1, <1>2, <1>5 DEF SumTo, F, G

(* A sum of integers is one. *)
LEMMA SumIsInt ==
  ASSUME NEW N \in Nat, NEW f \in [1..N -> Int]
  PROVE  SumTo(f, N) \in Int
BY SumsInOrder

(* Nothing adds up to nothing. *)
LEMMA SumOfZeros ==
  ASSUME NEW N \in Nat, NEW f \in [1..N -> Int], \A n \in 1..N : f[n] = 0
  PROVE  SumTo(f, N) = 0
<1> DEFINE F == RunningSum(f, N)
           All == {n \in 0..N : F[n] = 0}
<1>1. F[0] = 0 /\ \A n \in 1..N : F[n] = F[n - 1] + f[n]
  BY RunningSumAdds
<1> HIDE DEF F
<1>2. 0 \in All /\ \A m \in 1..N : m - 1 \in All => m \in All
  BY <1>1
<1>3. F[N] = 0
  <2> HIDE DEF All
  <2>1. \A m \in 0..N : m \in All
    BY <1>2, CountingUp
  <2> QED BY <2>1 DEF All
<1> QED BY <1>3 DEF SumTo, F

(* Natural numbers add up to one. *)
LEMMA SumIsNat ==
  ASSUME NEW N \in Nat, NEW f \in [1..N -> Nat]
  PROVE  SumTo(f, N) \in Nat
<1> DEFINE z == [n \in 1..N |-> 0]
<1>1. z \in [1..N -> Int] /\ f \in [1..N -> Int] /\ (\A n \in 1..N : z[n] <= f[n])
      /\ \A n \in 1..N : z[n] = 0
  OBVIOUS
<1> HIDE DEF z
<1>2. SumTo(z, N) = 0
  BY <1>1, SumOfZeros
<1>3. SumTo(z, N) <= SumTo(f, N) /\ SumTo(f, N) \in Int
  BY <1>1, SumsInOrder
<1> QED BY <1>2, <1>3

(* When one value changes, the sum changes by as much. *)
LEMMA SumOfOneChange ==
  ASSUME NEW N \in Nat, NEW f \in [1..N -> Int], NEW g \in [1..N -> Int], NEW k \in 1..N,
         \A n \in 1..N : n # k => g[n] = f[n]
  PROVE  SumTo(g, N) = SumTo(f, N) + g[k] - f[k]
<1> DEFINE F == RunningSum(f, N)
           G == RunningSum(g, N)
           All == {n \in 0..N : G[n] = F[n] + (IF n < k THEN 0 ELSE g[k] - f[k])}
<1>1. /\ F[0] = 0 /\ \A n \in 1..N : F[n] = F[n - 1] + f[n]
      /\ \A n \in 0..N : F[n] \in Int
  BY RunningSumAdds
<1>2. /\ G[0] = 0 /\ \A n \in 1..N : G[n] = G[n - 1] + g[n]
      /\ \A n \in 0..N : G[n] \in Int
  BY RunningSumAdds
<1> HIDE DEF F, G
<1>3. ASSUME NEW m \in 1..N, m - 1 \in All PROVE m \in All
  <2>1. f[m] \in Int /\ g[m] \in Int /\ f[k] \in Int /\ g[k] \in Int /\ (m # k => g[m] = f[m])
    OBVIOUS
  <2>2. F[m] = F[m - 1] + f[m] /\ G[m] = G[m - 1] + g[m]
    BY <1>1, <1>2
  <2>3. /\ F[m - 1] \in Int /\ G[m - 1] \in Int
        /\ G[m - 1] = F[m - 1] + (IF m - 1 < k THEN 0 ELSE g[k] - f[k])
    BY <1>1, <1>2, <1>3
  <2>4. CASE m < k
    BY <2>1, <2>2, <2>3, <2>4
  <2>5. CASE m = k
    BY <2>1, <2>2, <2>3, <2>5
  <2>6. CASE m > k
    BY <2>1, <2>2, <2>3, <2>6
  <2> QED BY <2>4, <2>5, <2>6
<1>4. 0 \in All
  BY <1>1, <1>2
<1>5. G[N] = F[N] + (g[k] - f[k])
  <2> HIDE DEF All
  <2>1. \A m \in 0..N : m \in All
    BY <1>3, <1>4, CountingUp
  <2> QED BY <2>1 DEF All
<1>6. F[N] \in Int /\ g[k] \in Int /\ f[k] \in Int
  BY <1>1
<1>7. G[N] = F[N] + g[k] - f[k]
  BY <1>5, <1>6
<1> QED BY <1>7 DEF SumTo, F, G

(* A multiple of every value adds up to the multiple of the sum. *)
LEMMA SumScaled ==
  ASSUME NEW N \in Nat, NEW f \in [1..N -> Int], NEW c \in Int, NEW g \in [1..N -> Int],
         \A n \in 1..N : g[n] = c * f[n]
  PROVE  SumTo(g, N) = c * SumTo(f, N)
<1> DEFINE F == RunningSum(f, N)
           G == RunningSum(g, N)
           All == {n \in 0..N : G[n] = c * F[n]}
<1>1. /\ F[0] = 0 /\ \A n \in 1..N : F[n] = F[n - 1] + f[n]
      /\ \A n \in 0..N : F[n] \in Int
  BY RunningSumAdds
<1>2. /\ G[0] = 0 /\ \A n \in 1..N : G[n] = G[n - 1] + g[n]
      /\ \A n \in 0..N : G[n] \in Int
  BY RunningSumAdds
<1> HIDE DEF F, G
<1>3. ASSUME NEW m \in 1..N, m - 1 \in All PROVE m \in All
  <2>1. f[m] \in Int /\ g[m] = c * f[m] /\ F[m - 1] \in Int
    BY <1>1
  <2>2. F[m] = F[m - 1] + f[m] /\ G[m] = G[m - 1] + g[m] /\ G[m - 1] = c * F[m - 1]
    BY <1>1, <1>2, <1>3
  <2>3. \A a, b \in Int : c * (a + b) = (c * a) + (c * b)
    OBVIOUS
  <2>4. c * (F[m - 1] + f[m]) = (c * F[m - 1]) + (c * f[m])
    BY <2>1, <2>3
  <2>5. G[m] = c * F[m]
    BY <2>1, <2>2, <2>4
  <2> QED BY <2>5
<1>4. 0 \in All
  BY <1>1, <1>2
<1>5. G[N] = c * F[N]
  <2> HIDE DEF All
  <2>1. \A m \in 0..N : m \in All
    BY <1>3, <1>4, CountingUp
  <2> QED BY <2>1 DEF All
<1> QED BY <1>5 DEF SumTo, F, G

(* A part of a sum is at most all of it. *)
LEMMA TermBelowSum ==
  ASSUME NEW N \in Nat, NEW f \in [1..N -> Nat], NEW k \in 1..N
  PROVE  f[k] <= SumTo(f, N)
<1> DEFINE g == [f EXCEPT ![k] = 0]
<1>1. /\ f \in [1..N -> Int] /\ g \in [1..N -> Nat] /\ g \in [1..N -> Int]
      /\ g[k] = 0 /\ f[k] \in Nat
      /\ \A n \in 1..N : n # k => g[n] = f[n]
  OBVIOUS
<1> HIDE DEF g
<1>2. SumTo(g, N) = SumTo(f, N) + g[k] - f[k]
  BY <1>1, SumOfOneChange
<1>3. SumTo(g, N) \in Nat /\ SumTo(f, N) \in Nat
  BY <1>1, SumIsNat
<1> QED BY <1>1, <1>2, <1>3

(* Two of the values are no more than the sum of all, where none is negative. *)
LEMMA TwoOfTheSum ==
  ASSUME NEW N \in Nat, NEW f \in [1..N -> Nat], NEW j \in 1..N, NEW k \in 1..N, j # k
  PROVE  f[j] + f[k] <= SumTo(f, N)
<1> DEFINE g == [f EXCEPT ![j] = 0]
           h == [g EXCEPT ![k] = 0]
<1>1. /\ f \in [1..N -> Int] /\ g \in [1..N -> Int] /\ h \in [1..N -> Nat] /\ h \in [1..N -> Int]
      /\ f[j] \in Nat /\ f[k] \in Nat
  OBVIOUS
<1>2. /\ \A n \in 1..N : n # j => g[n] = f[n]
      /\ \A n \in 1..N : n # k => h[n] = g[n]
      /\ g[j] = 0 /\ h[k] = 0 /\ g[k] = f[k]
  OBVIOUS
<1> HIDE DEF g, h
<1>3. SumTo(g, N) = SumTo(f, N) + g[j] - f[j]
  BY <1>1, <1>2, SumOfOneChange
<1>4. SumTo(h, N) = SumTo(g, N) + h[k] - g[k]
  BY <1>1, <1>2, SumOfOneChange
<1>5. SumTo(h, N) \in Nat /\ SumTo(f, N) \in Int /\ SumTo(g, N) \in Int
  BY <1>1, SumIsNat, SumIsInt
<1>6. SumTo(g, N) = SumTo(f, N) + 0 - f[j] /\ SumTo(h, N) = SumTo(g, N) + 0 - f[k]
  BY <1>2, <1>3, <1>4
<1> DEFINE sf == SumTo(f, N)
           sg == SumTo(g, N)
           sh == SumTo(h, N)
<1>7. /\ sh \in Nat /\ sf \in Int /\ sg \in Int /\ f[j] \in Nat /\ f[k] \in Nat
      /\ sg = sf + 0 - f[j] /\ sh = sg + 0 - f[k]
  BY <1>1, <1>5, <1>6
<1> HIDE DEF sf, sg, sh
<1>8. f[j] + f[k] <= sf
  BY <1>7
<1> QED BY <1>8 DEF sf

(* The members of a set of numbers up to m: those up to m - 1, and m. *)
LEMMA OneMore ==
  ASSUME NEW S, NEW m \in Nat \ {0}, IsFiniteSet(S \cap (1..m - 1))
  PROVE  /\ IsFiniteSet(S \cap (1..m))
         /\ Cardinality(S \cap (1..m)) =
              Cardinality(S \cap (1..m - 1)) + (IF m \in S THEN 1 ELSE 0)
         /\ Cardinality(S \cap (1..m - 1)) \in Nat
<1> DEFINE X == S \cap (1..m - 1)
           Y == S \cap (1..m)
<1>1. IsFiniteSet(X) /\ Cardinality(X) \in Nat /\ m \notin X
  BY FS_CardinalityType
<1>2. Y = IF m \in S THEN X \cup {m} ELSE X
  <2>1. CASE m \in S
    BY <2>1
  <2>2. CASE m \notin S
    BY <2>2
  <2> QED BY <2>1, <2>2
<1> HIDE DEF X, Y
<1>3. IsFiniteSet(Y) /\ Cardinality(Y) = Cardinality(X) + (IF m \in S THEN 1 ELSE 0)
  <2>1. CASE m \in S
    <3>1. Y = X \cup {m}
      BY <2>1, <1>2
    <3>2. IsFiniteSet(X \cup {m}) /\ Cardinality(X \cup {m}) = Cardinality(X) + 1
      BY <1>1, FS_AddElement
    <3> QED BY <2>1, <3>1, <3>2
  <2>2. CASE m \notin S
    BY <2>2, <1>1, <1>2
  <2> QED BY <2>1, <2>2
<1> QED BY <1>1, <1>3 DEF X, Y

(* Counting the members of a set of numbers, as a sum. *)
LEMMA SumOfMembers ==
  ASSUME NEW N \in Nat, NEW S \in SUBSET (1..N), NEW f \in [1..N -> Int],
         \A n \in 1..N : f[n] = IF n \in S THEN 1 ELSE 0
  PROVE  SumTo(f, N) = Cardinality(S) /\ IsFiniteSet(S)
<1> DEFINE F == RunningSum(f, N)
           Good(n) == IsFiniteSet(S \cap (1..n)) /\ F[n] = Cardinality(S \cap (1..n))
           All == {n \in 0..N : Good(n)}
<1>1. /\ F[0] = 0 /\ \A n \in 1..N : F[n] = F[n - 1] + f[n]
      /\ \A n \in 0..N : F[n] \in Int
  BY RunningSumAdds
<1> HIDE DEF F
<1>2. Good(0)
  <2>1. S \cap (1..0) = {}
    OBVIOUS
  <2> QED BY <1>1, <2>1, FS_EmptySet
<1>3. ASSUME NEW m \in 1..N, Good(m - 1) PROVE Good(m)
  <2>1. IsFiniteSet(S \cap (1..m - 1)) /\ F[m - 1] = Cardinality(S \cap (1..m - 1))
    BY <1>3
  <2>2. F[m] = F[m - 1] + (IF m \in S THEN 1 ELSE 0)
    BY <1>1
  <2>3. m \in Nat \ {0}
    OBVIOUS
  <2>4. /\ IsFiniteSet(S \cap (1..m))
        /\ Cardinality(S \cap (1..m)) =
             Cardinality(S \cap (1..m - 1)) + (IF m \in S THEN 1 ELSE 0)
    BY <2>1, <2>3, OneMore
  <2> QED BY <2>1, <2>2, <2>4
<1> HIDE DEF Good
<1>4. Good(N)
  <2>1. 0 \in All /\ \A m \in 1..N : m - 1 \in All => m \in All
    BY <1>2, <1>3
  <2> HIDE DEF All
  <2>2. \A m \in 0..N : m \in All
    BY <2>1, CountingUp
  <2> QED BY <2>2 DEF All
<1>5. S \cap (1..N) = S
  OBVIOUS
<1> QED BY <1>4, <1>5 DEF SumTo, F, Good

(* Values added one by one add up to both sums. *)
LEMMA SumOfTwo ==
  ASSUME NEW N \in Nat, NEW f \in [1..N -> Int], NEW g \in [1..N -> Int],
         NEW h \in [1..N -> Int], \A n \in 1..N : h[n] = f[n] + g[n]
  PROVE  SumTo(h, N) = SumTo(f, N) + SumTo(g, N)
<1> DEFINE F == RunningSum(f, N)
           G == RunningSum(g, N)
           H == RunningSum(h, N)
           All == {n \in 0..N : H[n] = F[n] + G[n]}
<1>1. /\ F[0] = 0 /\ \A n \in 1..N : F[n] = F[n - 1] + f[n]
      /\ \A n \in 0..N : F[n] \in Int
  BY RunningSumAdds
<1>2. /\ G[0] = 0 /\ \A n \in 1..N : G[n] = G[n - 1] + g[n]
      /\ \A n \in 0..N : G[n] \in Int
  BY RunningSumAdds
<1>3. /\ H[0] = 0 /\ \A n \in 1..N : H[n] = H[n - 1] + h[n]
      /\ \A n \in 0..N : H[n] \in Int
  BY RunningSumAdds
<1> HIDE DEF F, G, H
<1>4. ASSUME NEW m \in 1..N, m - 1 \in All PROVE m \in All
  <2>1. f[m] \in Int /\ g[m] \in Int /\ h[m] = f[m] + g[m]
    OBVIOUS
  <2>2. F[m] = F[m - 1] + f[m] /\ G[m] = G[m - 1] + g[m] /\ H[m] = H[m - 1] + h[m]
    BY <1>1, <1>2, <1>3
  <2>3. F[m - 1] \in Int /\ G[m - 1] \in Int /\ H[m - 1] = F[m - 1] + G[m - 1]
    BY <1>1, <1>2, <1>4
  <2> QED BY <2>1, <2>2, <2>3
<1>5. 0 \in All
  BY <1>1, <1>2, <1>3
<1>6. H[N] = F[N] + G[N]
  <2> HIDE DEF All
  <2>1. \A m \in 0..N : m \in All
    BY <1>4, <1>5, CountingUp
  <2> QED BY <2>1 DEF All
<1> QED BY <1>6 DEF SumTo, F, G, H

===============================================================================
