--------------------------- MODULE EpochAlgorithmsProofs ---------------------------
(***************************************************************************)
(* Proofs about what an epoch computes: ExplorationVotes and ReferenceFrame, *)
(* for any ballots, reveals and frames; Weights, for any scores and any    *)
(* weights before; Assignment, for any pools, sizes and prices; and        *)
(* Frontier, for any prices and frames.                                    *)
(***************************************************************************)
EXTENDS ReferenceFrame, Weights, Assignment, Frontier, SumsProofs, FiniteSetTheorems, TLAPS

(***************************************************************************)
(* ExplorationVotes                                                        *)
(***************************************************************************)

-----------------------------------------------------------------------------
(* Answers of an epoch, as miners may give them. *)
IsAnswers(a) ==
  /\ DOMAIN a \subseteq Uids
  /\ a \in [DOMAIN a -> [Models -> {"right", "wrong", "failed"}]]

(* A share of the whole, rounded down, is between nothing and the whole. *)
LEMMA PartOf ==
  ASSUME NEW whole \in Nat, NEW n \in Nat \ {0}, NEW k \in 0..n
  PROVE  (whole * k) \div n \in 0..whole
<1>1. whole * k \in Nat /\ whole * k <= whole * n
  OBVIOUS
<1> DEFINE x == whole * k
           y == whole * n
           q == x \div n
<1>2. x \in Nat /\ y \in Nat /\ x <= y
  BY <1>1
<1>3. y = whole * n
  OBVIOUS
<1> HIDE DEF x, y
<1>4. q \in Nat /\ q * n <= x
  BY <1>2
<1> HIDE DEF q
<1>5. q * n <= whole * n
  BY <1>2, <1>3, <1>4
<1>6. q <= whole
  <2>1. SUFFICES ASSUME q >= whole + 1 PROVE FALSE
    BY <1>4
  <2>2. q * n >= (whole + 1) * n
    BY <2>1, <1>4
  <2>3. (whole + 1) * n = (whole * n) + n
    OBVIOUS
  <2> QED BY <2>2, <2>3, <1>4, <1>5
<1> QED BY <1>4, <1>6 DEF q, x

(* All the n-ths of a whole, and none. *)
LEMMA AllOf ==
  ASSUME NEW whole \in Nat, NEW n \in Nat \ {0}
  PROVE  (whole * n) \div n = whole /\ (whole * 0) \div n = 0
<1>1. whole * 0 = 0
  OBVIOUS
<1>2. 0 \div n = 0
  OBVIOUS
<1>3. (whole * n) \div n = whole
  OBVIOUS
<1> QED BY <1>1, <1>2, <1>3

(* The hotkeys an operator votes with are finitely many, and its vote is a part
   of one correct answer. *)
LEMMA VoteInRange ==
  ASSUME NEW a, IsAnswers(a), NEW m \in Models, NEW k, Voting(a, k, m) # {}
  PROVE  Vote(a, k, m) \in 0..Unit
<1> DEFINE S == Voting(a, k, m)
           R == {u \in S : a[u][m] = "right"}
<1>1. IsFiniteSet(S) /\ S # {}
  <2>1. S \subseteq Uids
    BY DEF Voting, IsAnswers
  <2> QED BY <2>1, VotesAssumption, FS_Subset
<1>2. R \in SUBSET S
  OBVIOUS
<1> HIDE DEF S, R
<1>3. Cardinality(S) \in Nat \ {0} /\ Cardinality(R) \in 0..Cardinality(S)
  BY <1>1, <1>2, FS_CardinalityType, FS_EmptySet, FS_Subset
<1>4. Unit \in Nat
  BY VotesAssumption
<1>5. (Unit * Cardinality(R)) \div Cardinality(S) \in 0..Unit
  BY <1>3, <1>4, PartOf
<1> QED BY <1>5 DEF Vote, S, R

(* One ballot of each voter. *)
LEMMA BallotsCount ==
  ASSUME NEW a, NEW m, NEW S, IsFiniteSet(S)
  PROVE  /\ IsFiniteSet({<<k, Vote(a, k, m)>> : k \in S})
         /\ Cardinality({<<k, Vote(a, k, m)>> : k \in S}) = Cardinality(S)
<1> DEFINE B == {<<k, Vote(a, k, m)>> : k \in S}
           b == [k \in S |-> <<k, Vote(a, k, m)>>]
<1>1. b \in [S -> B] /\ (\A x \in B : \E k \in S : b[k] = x)
      /\ \A j, k \in S : b[j] = b[k] => j = k
  OBVIOUS
<1> HIDE DEF B, b
<1>2. b \in Surjection(S, B) /\ b \in Injection(S, B)
  BY <1>1 DEF Surjection, Injection, IsInjective
<1>3. IsFiniteSet(B) /\ Cardinality(B) = Cardinality(S)
  BY <1>2, FS_Surjection
<1> QED BY <1>3 DEF B

(* The ballots of a model: one for each voter, each a part of one answer. *)
LEMMA BallotsSound ==
  ASSUME NEW a, IsAnswers(a), NEW m \in Models, NEW excluded
  PROVE  /\ IsFiniteSet(Ballots(a, m, excluded))
         /\ Cardinality(Ballots(a, m, excluded)) = Cardinality(Voters(a, m, excluded))
         /\ \A b \in Ballots(a, m, excluded) : b[2] \in 0..Unit
<1>1. IsFiniteSet(Voters(a, m, excluded))
  <2>1. Voters(a, m, excluded) \in SUBSET (1..NumColdkeys)
    BY DEF Voters, Coldkeys
  <2>2. NumColdkeys \in Int /\ 1 \in Int
    BY VotesAssumption
  <2>3. IsFiniteSet(1..NumColdkeys)
    BY <2>2, FS_Interval
  <2> QED BY <2>1, <2>3, FS_Subset
<1>2. \A b \in Ballots(a, m, excluded) : b[2] \in 0..Unit
  <2>1. \A k \in Voters(a, m, excluded) : Vote(a, k, m) \in 0..Unit
    BY VoteInRange DEF Voters
  <2> QED BY <2>1 DEF Ballots
<1> QED BY <1>1, <1>2, BallotsCount DEF Ballots

-----------------------------------------------------------------------------
(* Ballots worth considering: finitely many, none above one answer. *)
AreBallots(ballots) == IsFiniteSet(ballots) /\ \A b \in ballots : b[2] \in 0..Unit

(* There is an i-th smallest vote: it was cast, fewer than i are below it, and
   i are not above it. *)
LEMMA RankedIs ==
  ASSUME NEW ballots, AreBallots(ballots), NEW i \in 1..Cardinality(ballots)
  PROVE  /\ Ranked(ballots, i) \in 0..Unit
         /\ Cardinality({b \in ballots : b[2] < Ranked(ballots, i)}) < i
         /\ i <= Cardinality({b \in ballots : b[2] <= Ranked(ballots, i)})
<1> DEFINE below(v) == {b \in ballots : b[2] < v}
           upTo(v) == {b \in ballots : b[2] <= v}
           T == {x \in 0..Unit : i <= Cardinality(upTo(x))}
<1>1. IsFiniteSet(ballots) /\ (\A b \in ballots : b[2] \in 0..Unit) /\ Unit \in Nat
  BY VotesAssumption DEF AreBallots
<1>2. Unit \in T
  <2>1. upTo(Unit) = ballots
    BY <1>1
  <2> HIDE DEF upTo
  <2> QED BY <1>1, <2>1
<1>3. PICK x \in T : \A y \in T : x <= y
  <2>1. T \in SUBSET Nat
    BY <1>1
  <2>3. T # {}
    BY <1>2
  <2> HIDE DEF T
  <2> QED BY <2>1, <2>3, LeastOf
<1>4. /\ below(x) \in SUBSET ballots /\ upTo(x) \in SUBSET ballots
      /\ x \in 0..Unit /\ i <= Cardinality(upTo(x))
  BY <1>3
<1>5. Cardinality(below(x)) < i
  <2>1. CASE x = 0
    <3>1. below(x) = {}
      BY <2>1, <1>1
    <3> HIDE DEF below
    <3> QED BY <3>1, FS_EmptySet
  <2>2. CASE x # 0
    <3>1. x - 1 \in 0..Unit /\ ~ (x <= x - 1)
      BY <2>2, <1>1, <1>4
    <3>2. x - 1 \notin T
      BY <3>1, <1>3
    <3>3. ~ (i <= Cardinality(upTo(x - 1)))
      BY <3>1, <3>2
    <3>4. below(x) = upTo(x - 1)
      BY <1>1, <1>4
    <3> HIDE DEF below, upTo
    <3>5. Cardinality(below(x)) \in Nat
      BY <1>1, <1>4, FS_Subset, FS_CardinalityType
    <3> QED BY <3>3, <3>4, <3>5
  <2> QED BY <2>1, <2>2
<1>6. x \in {b[2] : b \in ballots}
  <2>1. SUFFICES ASSUME \A b \in ballots : b[2] # x PROVE FALSE
    OBVIOUS
  <2>2. below(x) = upTo(x)
    BY <2>1, <1>1, <1>4
  <2> HIDE DEF below, upTo
  <2>3. Cardinality(below(x)) \in Nat
    BY <1>1, <1>4, FS_Subset, FS_CardinalityType
  <2> QED BY <2>2, <2>3, <1>4, <1>5
<1> DEFINE Is(v) == Cardinality(below(v)) < i /\ i <= Cardinality(upTo(v))
<1>7. Ranked(ballots, i) = CHOOSE v \in {b[2] : b \in ballots} : Is(v)
  BY DEF Ranked
<1>8. Is(x)
  BY <1>4, <1>5
<1> HIDE DEF Is
<1>9. Ranked(ballots, i) \in {b[2] : b \in ballots} /\ Is(Ranked(ballots, i))
  BY <1>6, <1>7, <1>8
<1>10. Ranked(ballots, i) \in 0..Unit
  BY <1>9, <1>1
<1> QED BY <1>9, <1>10 DEF Is

(* A set larger than another has a member the other lacks. *)
LEMMA LargerHasAnother ==
  ASSUME NEW S, NEW T, IsFiniteSet(S), IsFiniteSet(T), Cardinality(T) < Cardinality(S)
  PROVE  \E x \in S : x \notin T
<1>1. SUFFICES ASSUME S \in SUBSET T PROVE FALSE
  OBVIOUS
<1>2. Cardinality(S) <= Cardinality(T)
  BY <1>1, FS_Subset
<1> QED BY <1>2, FS_CardinalityType

(* Of a set in two parts, the sizes add up. *)
LEMMA TwoParts ==
  ASSUME NEW S, IsFiniteSet(S), NEW T \in SUBSET S
  PROVE  /\ IsFiniteSet(T) /\ IsFiniteSet(S \ T)
         /\ Cardinality(S) = Cardinality(T) + Cardinality(S \ T)
         /\ Cardinality(T) \in Nat /\ Cardinality(S \ T) \in Nat /\ Cardinality(S) \in Nat
<1>1. IsFiniteSet(T) /\ IsFiniteSet(S \ T) /\ T \cup (S \ T) = S /\ T \cap (S \ T) = {}
  <2>1. S \ T \in SUBSET S
    OBVIOUS
  <2> QED BY <2>1, FS_Subset
<1>2. Cardinality(S) = Cardinality(T) + Cardinality(S \ T) - Cardinality({})
  BY <1>1, FS_Union
<1>3. Cardinality(T) \in Nat /\ Cardinality(S \ T) \in Nat /\ Cardinality({}) = 0
      /\ Cardinality(S) \in Nat
  BY <1>1, FS_CardinalityType, FS_EmptySet
<1> DEFINE s == Cardinality(S)
           t == Cardinality(T)
           r == Cardinality(S \ T)
           z == Cardinality({})
<1>4. s = t + r - z /\ t \in Nat /\ r \in Nat /\ z = 0
  BY <1>2, <1>3
<1> HIDE DEF s, t, r, z
<1>5. s = t + r
  BY <1>4
<1> QED BY <1>1, <1>3, <1>5 DEF s, t, r

(* Either rank of the median has a vote at or below it, and one at or above it,
   of whoever is not in a minority. *)
LEMMA MiddleRank ==
  ASSUME NEW ballots, AreBallots(ballots), NEW c \in SUBSET ballots,
         NEW i \in 1..Cardinality(ballots),
         Cardinality(c) < i, Cardinality(c) <= Cardinality(ballots) - i
  PROVE  \E lo, hi \in ballots \ c :
           lo[2] <= Ranked(ballots, i) /\ Ranked(ballots, i) <= hi[2]
<1> DEFINE v == Ranked(ballots, i)
           below == {b \in ballots : b[2] < v}
           upTo == {b \in ballots : b[2] <= v}
<1>1. IsFiniteSet(ballots) /\ \A b \in ballots : b[2] \in 0..Unit
  BY DEF AreBallots
<1>2. v \in 0..Unit /\ Cardinality(below) < i /\ i <= Cardinality(upTo)
  BY RankedIs
<1> HIDE DEF v
<1>3. below \in SUBSET ballots /\ upTo \in SUBSET ballots
  OBVIOUS
<1>4. \A b \in ballots \ below : v <= b[2]
  BY <1>1, <1>2
<1>5. \A b \in upTo : b \in ballots /\ b[2] <= v
  OBVIOUS
<1> HIDE DEF below, upTo
<1>6. /\ IsFiniteSet(c) /\ IsFiniteSet(upTo) /\ IsFiniteSet(ballots \ below)
      /\ Cardinality(c) \in Nat /\ Cardinality(upTo) \in Nat /\ Cardinality(below) \in Nat
      /\ Cardinality(ballots) = Cardinality(below) + Cardinality(ballots \ below)
      /\ Cardinality(ballots \ below) \in Nat
  BY <1>1, <1>3, TwoParts
<1>7. PICK lo \in upTo : lo \notin c
  <2>1. Cardinality(c) < Cardinality(upTo)
    BY <1>2, <1>6
  <2> QED BY <2>1, <1>6, LargerHasAnother
<1>8. PICK hi \in ballots \ below : hi \notin c
  <2>1. Cardinality(c) < Cardinality(ballots \ below)
    <3> DEFINE n == Cardinality(ballots)
               x == Cardinality(below)
               y == Cardinality(ballots \ below)
               z == Cardinality(c)
    <3>1. n = x + y /\ x \in Nat /\ y \in Nat /\ z \in Nat /\ x < i /\ z <= n - i
      BY <1>2, <1>6
    <3> HIDE DEF n, x, y, z
    <3>2. z < y
      BY <3>1
    <3> QED BY <3>2 DEF y, z
  <2> QED BY <2>1, <1>6, LargerHasAnother
<1>9. lo \in ballots \ c /\ hi \in ballots \ c /\ lo[2] <= v /\ v <= hi[2]
  BY <1>4, <1>5, <1>7, <1>8
<1> QED BY <1>9 DEF v

(* A minority cannot move the median out of the range of the others' votes. *)
LEMMA MedianWithin ==
  ASSUME NEW ballots, AreBallots(ballots), NEW c \in SUBSET ballots,
         2 * Cardinality(c) < Cardinality(ballots)
  PROVE  /\ Median(ballots) \in 0..Unit
         /\ \E lo, hi \in ballots \ c :
              lo[2] <= Median(ballots) /\ Median(ballots) <= hi[2]
<1> DEFINE n == Cardinality(ballots)
           z == Cardinality(c)
           i == (n + 1) \div 2
           j == (n + 2) \div 2
           v == Ranked(ballots, i)
           w == Ranked(ballots, j)
<1>1. n \in Nat /\ z \in Nat /\ 2 * z < n /\ \A b \in ballots : b[2] \in 0..Unit
  BY TwoParts DEF AreBallots
<1>2. Median(ballots) = (v + w) \div 2
  BY DEF Median
<1> HIDE DEF n, z
<1>3. i \in 1..n /\ j \in 1..n /\ z < i /\ z < j /\ z <= n - i /\ z <= n - j
  BY <1>1
<1> HIDE DEF i, j
<1>4. v \in 0..Unit /\ w \in 0..Unit
  BY <1>3, RankedIs DEF n
<1>5. PICK lo1, hi1 \in ballots \ c : lo1[2] <= v /\ v <= hi1[2]
  BY <1>3, MiddleRank DEF n, z
<1>6. PICK lo2, hi2 \in ballots \ c : lo2[2] <= w /\ w <= hi2[2]
  BY <1>3, MiddleRank DEF n, z
<1> HIDE DEF v, w
<1>7. /\ lo1[2] \in Nat /\ hi1[2] \in Nat /\ lo2[2] \in Nat /\ hi2[2] \in Nat
      /\ v \in Nat /\ w \in Nat /\ Unit \in Nat /\ v <= Unit /\ w <= Unit
  BY <1>1, <1>4, <1>5, <1>6, VotesAssumption
<1> DEFINE d == (v + w) \div 2
<1>8. CASE v <= w
  <2>1. v <= d /\ d <= w /\ d \in Nat
    BY <1>7, <1>8
  <2> HIDE DEF d
  <2>2. lo1[2] <= d /\ d <= hi2[2] /\ d \in 0..Unit
    BY <2>1, <1>5, <1>6, <1>7
  <2> QED BY <2>2, <1>2, <1>5, <1>6 DEF d
<1>9. CASE ~ (v <= w)
  <2>1. w <= d /\ d <= v /\ d \in Nat
    BY <1>7, <1>9
  <2> HIDE DEF d
  <2>2. lo2[2] <= d /\ d <= hi1[2] /\ d \in 0..Unit
    BY <2>1, <1>5, <1>6, <1>7
  <2> QED BY <2>2, <1>2, <1>5, <1>6 DEF d
<1> QED BY <1>8, <1>9

(* Every sample is a part of one correct answer. *)
LEMMA SamplesInRange ==
  ASSUME NEW a, IsAnswers(a), NEW excluded
  PROVE  /\ DOMAIN Samples(a, excluded) \subseteq Models
         /\ \A m \in DOMAIN Samples(a, excluded) : Samples(a, excluded)[m] \in 0..Unit
<1> DEFINE D == {n \in Models : Voters(a, n, excluded) # {}}
<1>1. /\ DOMAIN Samples(a, excluded) = D
      /\ \A m \in D : Samples(a, excluded)[m] = Median(Ballots(a, m, excluded))
  BY DEF Samples
<1>2. ASSUME NEW m \in D PROVE Median(Ballots(a, m, excluded)) \in 0..Unit
  <2> DEFINE B == Ballots(a, m, excluded)
  <2>1. AreBallots(B) /\ B # {}
    <3>1. AreBallots(B)
      BY BallotsSound DEF AreBallots
    <3>2. B # {}
      BY DEF Ballots
    <3> QED BY <3>1, <3>2
  <2> HIDE DEF B
  <2>2. {} \in SUBSET B /\ 2 * Cardinality({}) < Cardinality(B)
    <3>1. Cardinality(B) \in Nat /\ Cardinality(B) # 0 /\ Cardinality({}) = 0
      BY <2>1, FS_EmptySet, FS_CardinalityType DEF AreBallots
    <3> QED BY <3>1
  <2>3. Median(B) \in 0..Unit
    BY <2>1, <2>2, MedianWithin
  <2> QED BY <2>3 DEF B
<1> QED BY <1>1, <1>2

(***************************************************************************)
(* ReferenceFrame                                                          *)
(***************************************************************************)

-----------------------------------------------------------------------------
(* A minority of the ballots of a model does not move its sample. *)
LEMMA SampleWithin ==
  ASSUME NEW a, IsAnswers(a), NEW excluded, NEW m \in DOMAIN Samples(a, excluded),
         NEW c \in SUBSET Ballots(a, m, excluded),
         2 * Cardinality(c) < Cardinality(Ballots(a, m, excluded))
  PROVE  \E lo, hi \in Ballots(a, m, excluded) \ c :
           lo[2] <= Samples(a, excluded)[m] /\ Samples(a, excluded)[m] <= hi[2]
<1> DEFINE B == Ballots(a, m, excluded)
<1>1. m \in Models /\ Samples(a, excluded)[m] = Median(B)
  BY DEF Samples
<1>2. AreBallots(B)
  BY <1>1, BallotsSound DEF AreBallots
<1> HIDE DEF B
<1>3. \E lo, hi \in B \ c : lo[2] <= Median(B) /\ Median(B) <= hi[2]
  BY <1>2, MedianWithin DEF B
<1> QED BY <1>1, <1>3 DEF B

(* The operators of an agreeing majority vote with all they have: their ballot
   is what each of them answered. *)
LEMMA AgreeingVote ==
  ASSUME NEW a, IsAnswers(a), NEW h \in Majorities(a), NEW m \in Models,
         NEW u \in DOMAIN a, Owner[u] \in h, a[u][m] # "failed",
         NEW k \in h, Voting(a, k, m) # {}
  PROVE  Vote(a, k, m) = IF a[u][m] = "right" THEN Unit ELSE 0
<1> DEFINE S == Voting(a, k, m)
           R == {x \in S : a[x][m] = "right"}
<1>1. \A x \in S : a[x][m] = a[u][m]
  <2> TAKE x \in S
  <2>1. x \in DOMAIN a /\ Owner[x] = k /\ a[x][m] # "failed"
    BY DEF Voting
  <2>2. \A p, q \in DOMAIN a :
          Owner[p] \in h /\ Owner[q] \in h /\ "failed" \notin {a[p][m], a[q][m]}
            => a[p][m] = a[q][m]
    BY DEF Majorities
  <2> QED BY <2>1, <2>2
<1>2. IsFiniteSet(S) /\ S # {}
  <2>1. S \in SUBSET Uids
    BY DEF Voting, IsAnswers
  <2> QED BY <2>1, VotesAssumption, FS_Subset
<1>3. R = IF a[u][m] = "right" THEN S ELSE {}
  BY <1>1
<1>4. Vote(a, k, m) = (Unit * Cardinality(R)) \div Cardinality(S)
  BY DEF Vote
<1> HIDE DEF S, R
<1>5. Cardinality(S) \in Nat \ {0} /\ Cardinality({}) = 0 /\ Unit \in Nat
  BY <1>2, FS_CardinalityType, FS_EmptySet, VotesAssumption
<1>6. CASE a[u][m] = "right"
  BY <1>3, <1>4, <1>5, <1>6, AllOf
<1>7. CASE a[u][m] # "right"
  BY <1>3, <1>4, <1>5, <1>7, AllOf
<1> QED BY <1>6, <1>7

(* Most ballots of a model are of the agreeing majority, also when others than
   they are left out. *)
LEMMA MajorityOfBallots ==
  ASSUME NEW a, IsAnswers(a), NEW h \in Majorities(a), NEW m \in Models,
         NEW excluded, h \cap excluded = {}
  PROVE  2 * Cardinality({b \in Ballots(a, m, excluded) : b[1] \notin h})
           < Cardinality(Ballots(a, m, excluded))
<1> DEFINE V == Voters(a, m, {})
           W == Voters(a, m, excluded)
           B == Ballots(a, m, excluded)
           O == {b \in B : b[1] \notin h}
           P == {<<k, Vote(a, k, m)>> : k \in W \ h}
<1>1. 2 * Cardinality(V \cap h) > Cardinality(V)
  BY DEF Majorities
<1>2. IsFiniteSet(V)
  <2>1. V \in SUBSET (1..NumColdkeys)
    BY DEF Voters, Coldkeys
  <2>2. IsFiniteSet(1..NumColdkeys)
    <3>1. NumColdkeys \in Int /\ 1 \in Int
      BY VotesAssumption
    <3> QED BY <3>1, FS_Interval
  <2> QED BY <2>1, <2>2, FS_Subset
<1>3. W \in SUBSET V /\ V \cap h = W \cap h
  BY DEF Voters
<1>4. O = P
  <2>1. \A k \in W \ h : <<k, Vote(a, k, m)>> \in O
    BY DEF Ballots
  <2>2. \A b \in O : \E k \in W \ h : b = <<k, Vote(a, k, m)>>
    BY DEF Ballots
  <2> HIDE DEF O
  <2>3. O \subseteq P
    BY <2>2
  <2>4. P \subseteq O
    BY <2>1
  <2> QED BY <2>3, <2>4
<1>5. Cardinality(B) = Cardinality(W)
  BY BallotsSound
<1>6. Cardinality(P) = Cardinality(W \ h)
  <2>1. W \ h \in SUBSET V
    BY <1>3
  <2>2. IsFiniteSet(W \ h)
    BY <2>1, <1>2, FS_Subset
  <2> QED BY <2>2, BallotsCount
<1> HIDE DEF V, W, B, O, P
<1>7. Cardinality(W) <= Cardinality(V) /\ Cardinality(V) \in Nat
  BY <1>2, <1>3, FS_Subset, FS_CardinalityType
<1>8. /\ Cardinality(W) = Cardinality(W \cap h) + Cardinality(W \ h)
      /\ Cardinality(W \cap h) \in Nat /\ Cardinality(W \ h) \in Nat
  <2>1. W \cap h \in SUBSET W /\ W \ (W \cap h) = W \ h /\ IsFiniteSet(W)
    BY <1>2, <1>3, FS_Subset
  <2> QED BY <2>1, TwoParts
<1>9. 2 * Cardinality(W \ h) < Cardinality(W)
  <2> DEFINE v == Cardinality(V)
             w == Cardinality(W)
             i == Cardinality(W \cap h)
             o == Cardinality(W \ h)
  <2>1. v \in Nat /\ i \in Nat /\ o \in Nat /\ w = i + o /\ w <= v /\ 2 * i > v
    BY <1>1, <1>3, <1>7, <1>8
  <2> HIDE DEF v, w, i, o
  <2>2. 2 * o < w
    BY <2>1
  <2> QED BY <2>2 DEF o, w
<1> QED BY <1>4, <1>5, <1>6, <1>9 DEF B, O, P

(* So it decides the sample of every model it answered. *)
LEMMA MajoritySample ==
  ASSUME NEW a, IsAnswers(a), NEW h \in Majorities(a), NEW excluded, h \cap excluded = {},
         NEW u \in DOMAIN a, NEW m \in Models, Owner[u] \in h, a[u][m] # "failed"
  PROVE  Samples(a, excluded)[m] = IF a[u][m] = "right" THEN Unit ELSE 0
<1> DEFINE B == Ballots(a, m, excluded)
           c == {b \in B : b[1] \notin h}
           x == IF a[u][m] = "right" THEN Unit ELSE 0
           s == Samples(a, excluded)[m]
<1>1. m \in DOMAIN Samples(a, excluded)
  <2>1. u \in Voting(a, Owner[u], m)
    BY DEF Voting
  <2>2. u \in Uids /\ Owner[u] \in Coldkeys /\ Owner[u] \notin excluded
    BY VotesAssumption DEF IsAnswers
  <2>3. Owner[u] \in Voters(a, m, excluded)
    BY <2>1, <2>2 DEF Voters
  <2> QED BY <2>3 DEF Samples
<1>2. \A b \in B \ c : b[2] = x
  <2> TAKE b \in B \ c
  <2>1. PICK k \in Voters(a, m, excluded) : b = <<k, Vote(a, k, m)>>
    BY DEF Ballots
  <2>2. k \in h /\ Voting(a, k, m) # {} /\ b[2] = Vote(a, k, m)
    BY <2>1 DEF Voters
  <2>3. Vote(a, k, m) = IF a[u][m] = "right" THEN Unit ELSE 0
    BY <2>2, AgreeingVote
  <2> QED BY <2>2, <2>3
<1>3. c \in SUBSET B /\ 2 * Cardinality(c) < Cardinality(B)
  BY MajorityOfBallots
<1> HIDE DEF c, x
<1>4. PICK lo, hi \in B \ c : lo[2] <= s /\ s <= hi[2]
  BY <1>1, <1>3, SampleWithin
<1>5. lo[2] = x /\ hi[2] = x
  BY <1>2, <1>4
<1>6. x \in Nat /\ s \in Nat
  BY <1>1, SamplesInRange, VotesAssumption DEF x
<1> HIDE DEF s
<1>7. s = x
  BY <1>4, <1>5, <1>6
<1> QED BY <1>7 DEF s, x

-----------------------------------------------------------------------------
(* What a coldkey cast is its vote, and nothing if it has none. *)
LEMMA CastIs ==
  ASSUME NEW a, NEW m, NEW excluded, NEW k
  PROVE  Cast(Ballots(a, m, excluded), k) =
           IF k \in Voters(a, m, excluded) THEN Vote(a, k, m) ELSE 0
<1> DEFINE B == Ballots(a, m, excluded)
           V == Voters(a, m, excluded)
<1>1. B = {<<j, Vote(a, j, m)>> : j \in V}
  BY DEF Ballots
<1> HIDE DEF V
<1>2. CASE k \in V
  <2>1. \E b \in B : b[1] = k
    <3>1. <<k, Vote(a, k, m)>> \in B /\ <<k, Vote(a, k, m)>>[1] = k
      BY <1>1, <1>2
    <3> QED BY <3>1
  <2> DEFINE b0 == CHOOSE b \in B : b[1] = k
  <2>2. b0 \in B /\ b0[1] = k
    BY <2>1
  <2>3. Cast(B, k) = b0[2]
    BY <2>1 DEF Cast
  <2> HIDE DEF b0, B
  <2>4. b0 = <<k, Vote(a, k, m)>>
    BY <2>2, <1>1
  <2> QED BY <2>3, <2>4, <1>2 DEF B, V
<1>3. CASE k \notin V
  <2>1. ~ \E b \in B : b[1] = k
    BY <1>1, <1>3
  <2> QED BY <2>1, <1>3 DEF Cast, V
<1> QED BY <1>2, <1>3

(* The votes of a model on which an agreeing majority has answered lie on its
   side of a half. *)
LEMMA TotalWithMajority ==
  ASSUME NEW a, IsAnswers(a), NEW h \in Majorities(a), NEW m \in Models,
         NEW u \in DOMAIN a, Owner[u] \in h, a[u][m] # "failed"
  PROVE  LET B == Ballots(a, m, {})
         IN  IF a[u][m] = "right"
             THEN 2 * VoteTotal(B) > Cardinality(B) * Unit
             ELSE 2 * VoteTotal(B) < Cardinality(B) * Unit
<1> DEFINE B == Ballots(a, m, {})
           V == Voters(a, m, {})
           N == NumColdkeys
           f == [k \in 1..N |-> Cast(B, k)]
           In(S) == [k \in 1..N |-> IF k \in S THEN 1 ELSE 0]
           Times(S) == [k \in 1..N |-> Unit * In(S)[k]]
<1>1. N \in Nat /\ Unit \in Nat \ {0} /\ Unit \in Int
  BY VotesAssumption
<1>2. V \in SUBSET (1..N)
  BY DEF Voters, Coldkeys
<1>3. \A k \in 1..N : f[k] = IF k \in V THEN Vote(a, k, m) ELSE 0
  BY CastIs
<1>4. \A k \in V : Vote(a, k, m) \in 0..Unit /\ Voting(a, k, m) # {}
  BY VoteInRange DEF Voters
<1>5. f \in [1..N -> Int]
  <2>1. \A k \in 1..N : Cast(B, k) \in Int
    BY <1>1, <1>3, <1>4
  <2> QED BY <2>1
<1>6. VoteTotal(B) = SumTo(f, N) /\ VoteTotal(B) \in Int
  <2>1. VoteTotal(B) = SumTo(f, N)
    BY DEF VoteTotal, Coldkeys
  <2> HIDE DEF f, B
  <2> QED BY <2>1, <1>1, <1>5, SumIsInt
<1>7. ASSUME NEW S \in SUBSET (1..N)
      PROVE  /\ Times(S) \in [1..N -> Int] /\ SumTo(Times(S), N) = Unit * Cardinality(S)
             /\ Cardinality(S) \in Nat /\ IsFiniteSet(S)
  <2> DEFINE g == In(S)
             t == Times(S)
  <2>1. g \in [1..N -> Int] /\ \A k \in 1..N : g[k] = IF k \in S THEN 1 ELSE 0
    OBVIOUS
  <2>2. t \in [1..N -> Int] /\ \A k \in 1..N : t[k] = Unit * g[k]
    <3>1. \A k \in 1..N : g[k] \in Int /\ Unit * g[k] \in Int
      BY <1>1
    <3> QED BY <3>1
  <2> HIDE DEF g, t
  <2>3. SumTo(g, N) = Cardinality(S) /\ IsFiniteSet(S)
    BY <2>1, <1>1, SumOfMembers
  <2>4. SumTo(t, N) = Unit * SumTo(g, N)
    BY <2>1, <2>2, <1>1, SumScaled
  <2> QED BY <2>2, <2>3, <2>4, FS_CardinalityType DEF t
<1>8. Cardinality(B) = Cardinality(V)
  BY BallotsSound
<1>9. 2 * Cardinality(V \cap h) > Cardinality(V)
  BY DEF Majorities
<1>10. \A k \in V \cap h : Vote(a, k, m) = IF a[u][m] = "right" THEN Unit ELSE 0
  BY <1>4, AgreeingVote
<1>11. CASE a[u][m] = "right"
  <2> DEFINE S == V \cap h
             t == Times(S)
  <2>1. S \in SUBSET (1..N)
    BY <1>2
  <2>2. /\ t \in [1..N -> Int] /\ SumTo(t, N) = Unit * Cardinality(S)
        /\ Cardinality(S) \in Nat
    BY <2>1, <1>7
  <2>3. \A k \in 1..N : t[k] <= f[k]
    <3> TAKE k \in 1..N
    <3>1. CASE k \in S
      <4>1. f[k] = Unit /\ In(S)[k] = 1 /\ t[k] = Unit * In(S)[k]
        BY <3>1, <1>3, <1>10, <1>11
      <4> QED BY <4>1, <1>1
    <3>2. CASE k \notin S
      <4>1. In(S)[k] = 0 /\ t[k] = Unit * In(S)[k]
        BY <3>2
      <4>2. f[k] \in Nat
        BY <1>1, <1>3, <1>4
      <4> HIDE DEF f, t, In
      <4>3. t[k] = 0
        BY <4>1, <1>1
      <4> QED BY <4>2, <4>3
    <3> QED BY <3>1, <3>2
  <2> HIDE DEF f, t, S, B, V
  <2>4. Unit * Cardinality(S) <= VoteTotal(B)
    BY <2>2, <2>3, <1>1, <1>5, <1>6, SumsInOrder
  <2> DEFINE s == Cardinality(S)
             n == Cardinality(V)
             total == VoteTotal(B)
  <2>5. s \in Nat /\ n \in Nat /\ total \in Int /\ Unit * s <= total /\ 2 * s > n
    BY <2>2, <2>4, <1>2, <1>6, <1>7, <1>9 DEF S
  <2> HIDE DEF s, n, total
  <2>6. 2 * (Unit * s) > n * Unit
    <3>1. (2 * s) * Unit > n * Unit
      BY <2>5, <1>1
    <3>2. (2 * s) * Unit = 2 * (Unit * s)
      BY <2>5, <1>1
    <3> QED BY <3>1, <3>2
  <2>7. 2 * total > n * Unit
    <3>1. Unit * s \in Int /\ n * Unit \in Int
      BY <2>5, <1>1
    <3> QED BY <3>1, <2>5, <2>6
  <2> QED BY <2>7, <1>8, <1>11 DEF n, total, B, V
<1>12. CASE a[u][m] # "right"
  <2> DEFINE S == V \ h
             t == Times(S)
  <2>1. S \in SUBSET (1..N)
    BY <1>2
  <2>2. /\ t \in [1..N -> Int] /\ SumTo(t, N) = Unit * Cardinality(S)
        /\ Cardinality(S) \in Nat
    BY <2>1, <1>7
  <2>3. \A k \in 1..N : f[k] <= t[k]
    <3> TAKE k \in 1..N
    <3>1. CASE k \in S
      <4>1. In(S)[k] = 1 /\ t[k] = Unit * In(S)[k]
        BY <3>1
      <4>2. f[k] \in 0..Unit
        BY <3>1, <1>3, <1>4
      <4> HIDE DEF f, t, In
      <4> QED BY <4>1, <4>2, <1>1
    <3>2. CASE k \notin S
      <4>1. In(S)[k] = 0 /\ t[k] = Unit * In(S)[k]
        BY <3>2
      <4>2. f[k] = 0
        BY <3>2, <1>3, <1>10, <1>12
      <4> HIDE DEF f, t, In
      <4> QED BY <4>1, <4>2, <1>1
    <3> QED BY <3>1, <3>2
  <2>4. Cardinality(V) = Cardinality(V \cap h) + Cardinality(S) /\ Cardinality(V \cap h) \in Nat
    <3>1. IsFiniteSet(V) /\ V \cap h \in SUBSET V /\ V \ (V \cap h) = S
      BY <1>2, <1>7
    <3> HIDE DEF V, S
    <3> QED BY <3>1, TwoParts
  <2> HIDE DEF f, t, S, B, V
  <2>5. VoteTotal(B) <= Unit * Cardinality(S)
    BY <2>2, <2>3, <1>1, <1>5, <1>6, SumsInOrder
  <2> DEFINE s == Cardinality(S)
             i == Cardinality(V \cap h)
             n == Cardinality(V)
             total == VoteTotal(B)
  <2>6. s \in Nat /\ i \in Nat /\ n = i + s /\ total \in Int /\ total <= Unit * s /\ 2 * i > n
    BY <2>2, <2>4, <2>5, <1>6, <1>9
  <2> HIDE DEF s, n, i, total
  <2>7. 2 * s < n /\ n \in Nat
    BY <2>6
  <2>8. 2 * (Unit * s) < n * Unit
    <3>1. (2 * s) * Unit < n * Unit
      BY <2>6, <2>7, <1>1
    <3>2. (2 * s) * Unit = 2 * (Unit * s)
      BY <2>6, <1>1
    <3> QED BY <3>1, <3>2
  <2>9. 2 * total < n * Unit
    <3>1. Unit * s \in Int /\ n * Unit \in Int
      BY <2>6, <2>7, <1>1
    <3> QED BY <3>1, <2>6, <2>8
  <2> QED BY <2>9, <1>8, <1>12 DEF n, total, B, V
<1> QED BY <1>11, <1>12

(* And none of it is taken to disagree. *)
LEMMA MajorityAgrees ==
  ASSUME NEW a, IsAnswers(a), NEW h \in Majorities(a), NEW u \in Disagreeing(a)
  PROVE  Owner[u] \notin h
<1> SUFFICES ASSUME Owner[u] \in h PROVE FALSE
  OBVIOUS
<1> DEFINE judged == {c \in Consensus(a) : a[u][c[1]] # "failed"}
           against == {c \in judged : a[u][c[1]] # c[2]}
<1>1. u \in DOMAIN a /\ Cardinality(judged) >= MinJudged
      /\ 100 * Cardinality(against) > MaxDisagree * Cardinality(judged)
  BY DEF Disagreeing
<1>2. against = {}
  <2>1. SUFFICES ASSUME NEW c \in judged PROVE a[u][c[1]] = c[2]
    OBVIOUS
  <2>2. PICK m \in Models :
          /\ 2 * VoteTotal(Ballots(a, m, {})) # Cardinality(Ballots(a, m, {})) * Unit
          /\ c = <<m, IF 2 * VoteTotal(Ballots(a, m, {})) > Cardinality(Ballots(a, m, {})) * Unit
                      THEN "right" ELSE "wrong">>
    <3> DEFINE cast == {<<m, Ballots(a, m, {})>> : m \in Models}
               even(d) == Cardinality(d[2]) * Unit
    <3>1. PICK d \in cast :
            /\ 2 * VoteTotal(d[2]) # even(d)
            /\ c = <<d[1], IF 2 * VoteTotal(d[2]) > even(d) THEN "right" ELSE "wrong">>
      BY DEF Consensus
    <3>2. PICK m \in Models : d = <<m, Ballots(a, m, {})>>
      BY <3>1
    <3> QED BY <3>1, <3>2
  <2>3. c[1] = m /\ a[u][m] # "failed" /\ a[u][m] \in {"right", "wrong", "failed"}
    BY <2>1, <2>2, <1>1 DEF IsAnswers
  <2>4. IF a[u][m] = "right"
        THEN 2 * VoteTotal(Ballots(a, m, {})) > Cardinality(Ballots(a, m, {})) * Unit
        ELSE 2 * VoteTotal(Ballots(a, m, {})) < Cardinality(Ballots(a, m, {})) * Unit
    BY <2>3, <1>1, TotalWithMajority
  <2>5. VoteTotal(Ballots(a, m, {})) \in Int /\ Cardinality(Ballots(a, m, {})) * Unit \in Int
    <3>1. \A k \in 1..NumColdkeys : Cast(Ballots(a, m, {}), k) \in Int
      <4>1. \A k \in Voters(a, m, {}) : Vote(a, k, m) \in Int
        BY VoteInRange DEF Voters
      <4> QED BY <4>1, CastIs
    <3>2. VoteTotal(Ballots(a, m, {})) \in Int
      <4> DEFINE f == [k \in 1..NumColdkeys |-> Cast(Ballots(a, m, {}), k)]
      <4>1. f \in [1..NumColdkeys -> Int] /\ NumColdkeys \in Nat
        BY <3>1, VotesAssumption
      <4>2. VoteTotal(Ballots(a, m, {})) = SumTo(f, NumColdkeys)
        BY DEF VoteTotal, Coldkeys
      <4> HIDE DEF f
      <4> QED BY <4>1, <4>2, SumIsInt
    <3>3. Cardinality(Ballots(a, m, {})) \in Nat /\ Unit \in Nat
      BY BallotsSound, FS_CardinalityType, VotesAssumption
    <3> QED BY <3>2, <3>3
  <2> DEFINE x == 2 * VoteTotal(Ballots(a, m, {}))
             y == Cardinality(Ballots(a, m, {})) * Unit
  <2>6. /\ x \in Int /\ y \in Int
        /\ c[2] = (IF x > y THEN "right" ELSE "wrong")
        /\ IF a[u][m] = "right" THEN x > y ELSE x < y
    BY <2>2, <2>4, <2>5
  <2> HIDE DEF x, y
  <2>7. x < y => ~ (x > y)
    BY <2>6
  <2> QED BY <2>3, <2>6, <2>7
<1> HIDE DEF judged, against
<1>3. Cardinality(against) = 0
  BY <1>2, FS_EmptySet
<1>4. IsFiniteSet(judged)
  <2> DEFINE cons == [m \in Models |-> <<m, IF 2 * VoteTotal(Ballots(a, m, {})) > Cardinality(Ballots(a, m, {})) * Unit
                      THEN "right" ELSE "wrong">>]
             T == {cons[m] : m \in Models}
  <2>1. cons \in Surjection(Models, T)
    BY DEF Surjection
  <2>2. IsFiniteSet(T)
    <3> HIDE DEF cons, T
    <3> QED BY <2>1, VotesAssumption, FS_Surjection
  <2>3. judged \in SUBSET T
    <3>1. ASSUME NEW c \in judged PROVE c \in T
      <4> DEFINE cast == {<<m, Ballots(a, m, {})>> : m \in Models}
                 even(d) == Cardinality(d[2]) * Unit
      <4>1. PICK d \in cast :
              c = <<d[1], IF 2 * VoteTotal(d[2]) > even(d) THEN "right" ELSE "wrong">>
        BY <3>1 DEF Consensus, judged
      <4>2. PICK m \in Models : d = <<m, Ballots(a, m, {})>>
        BY <4>1
      <4>3. c = cons[m]
        BY <4>1, <4>2
      <4> QED BY <4>3
    <3> QED BY <3>1
  <2> QED BY <2>2, <2>3, FS_Subset
<1>5. Cardinality(judged) \in Nat /\ MaxDisagree \in Nat
  <2>1. Cardinality(judged) \in Nat
    BY <1>4, FS_CardinalityType
  <2>2. MaxDisagree \in 0..100
    BY VotesAssumption
  <2> QED BY <2>1, <2>2
<1>6. MaxDisagree * Cardinality(judged) \in Nat
  BY <1>5
<1> QED BY <1>1, <1>3, <1>6

-----------------------------------------------------------------------------
(* A frame, of any numbers. *)
Frames == [succ : [Models -> Nat], trials : [Models -> Nat]]

(* What a frame may come to hold of a model. *)
TrialsCap == (IF BootTrials > 2 THEN BootTrials ELSE 2) * Scale

(* A frame whose rates are rates, and whose trials are bounded. *)
Whole(f) ==
  /\ f \in Frames
  /\ \A m \in Models : f.succ[m] <= f.trials[m] /\ f.trials[m] <= TrialsCap

(* What an epoch samples, and what is published of epochs. *)
Sampled(s) == DOMAIN s \subseteq Models /\ \A m \in DOMAIN s : s[m] \in 0..Unit
(* Reveals, each sampled. *)
Published(p) == DOMAIN p \subseteq 0..MaxEpoch /\ \A e \in DOMAIN p : Sampled(p[e])

(* The unit of the frame. *)
LEMMA ScaleIs ==
  /\ Scale \in Nat /\ Unit \in Nat \ {0} /\ Scale \div Unit \in Nat
  /\ Unit * (Scale \div Unit) <= Scale
  /\ MaxEpoch \in Nat /\ BootTrials \in Nat /\ BootSuccesses \in Nat
  /\ BootSuccesses <= BootTrials
  /\ TrialsCap \in Nat /\ 2 * Scale <= TrialsCap /\ BootTrials * Scale <= TrialsCap
<1>1. /\ Unit \in Nat \ {0} /\ Precision \in Nat /\ MaxEpoch \in Nat /\ BootTrials \in Nat
      /\ BootSuccesses \in Nat /\ BootSuccesses <= BootTrials
  BY VotesAssumption, FrameAssumption
<1>2. Scale \in Nat
  BY <1>1 DEF Scale
<1> DEFINE q == Scale \div Unit
<1>3. q \in Nat /\ Unit * q <= Scale
  BY <1>1, <1>2
<1> DEFINE b == IF BootTrials > 2 THEN BootTrials ELSE 2
<1>4. b \in Nat /\ 2 <= b /\ BootTrials <= b
  BY <1>1
<1>5. TrialsCap = b * Scale
  BY DEF TrialsCap
<1> HIDE DEF b, q
<1>6. b * Scale \in Nat /\ 2 * Scale <= b * Scale /\ BootTrials * Scale <= b * Scale
  BY <1>1, <1>2, <1>4
<1> QED BY <1>1, <1>2, <1>3, <1>5, <1>6 DEF q

(* A sample is at most a trial, whatever has decayed. *)
LEMMA Decays ==
  ASSUME NEW s \in Nat, NEW t \in Nat, NEW cap \in Nat, NEW unit \in Nat, s <= t, t <= cap,
         2 * unit <= cap, NEW x \in Nat, x <= unit
  PROVE  /\ (s \div 2) + x \in Nat /\ (t \div 2) + unit \in Nat
         /\ (s \div 2) + 0 \in Nat /\ (t \div 2) + 0 \in Nat
         /\ (s \div 2) + x <= (t \div 2) + unit /\ (t \div 2) + unit <= cap
         /\ (s \div 2) + 0 <= (t \div 2) + 0 /\ (t \div 2) + 0 <= cap
<1>1. s \div 2 \in Nat /\ t \div 2 \in Nat /\ s \div 2 <= t \div 2 /\ 2 * (t \div 2) <= t
  OBVIOUS
<1> DEFINE p == s \div 2
           r == t \div 2
<1>2. p \in Nat /\ r \in Nat /\ p <= r /\ 2 * r <= t
  BY <1>1
<1> HIDE DEF p, r
<1>3. /\ p + x \in Nat /\ r + unit \in Nat /\ p + 0 \in Nat /\ r + 0 \in Nat
      /\ p + x <= r + unit /\ r + unit <= cap /\ p + 0 <= r + 0 /\ r + 0 <= cap
  BY <1>2
<1> QED BY <1>3 DEF p, r

(* Accumulating keeps a frame whole. *)
LEMMA AccumulateWhole ==
  ASSUME NEW f, Whole(f), NEW s, Sampled(s)
  PROVE  Whole(Accumulate(f, s))
<1> DEFINE q == Scale \div Unit
           g == Accumulate(f, s)
           succ(m) == f.succ[m] \div 2 + (IF m \in DOMAIN s THEN s[m] * q ELSE 0)
           trials(m) == f.trials[m] \div 2 + (IF m \in DOMAIN s THEN Scale ELSE 0)
<1>1. g = [succ |-> [m \in Models |-> succ(m)], trials |-> [m \in Models |-> trials(m)]]
  BY DEF Accumulate
<1>2. ASSUME NEW m \in Models
      PROVE  succ(m) \in Nat /\ trials(m) \in Nat /\ succ(m) <= trials(m) /\ trials(m) <= TrialsCap
  <2> DEFINE a == f.succ[m]
             b == f.trials[m]
  <2>1. a \in Nat /\ b \in Nat /\ a <= b /\ b <= TrialsCap
    BY DEF Whole, Frames
  <2>2. Scale \in Nat /\ q \in Nat /\ Unit * q <= Scale /\ Unit \in Nat /\ TrialsCap \in Nat
        /\ 2 * Scale <= TrialsCap
    BY ScaleIs
  <2> HIDE DEF a, b, q
  <2>3. CASE m \in DOMAIN s
    <3>1. s[m] \in Nat /\ s[m] <= Unit
      BY <2>2, <2>3 DEF Sampled
    <3> DEFINE x == s[m] * q
    <3>2. x \in Nat /\ x <= Unit * q
      BY <3>1, <2>2
    <3>3. x \in Nat /\ x <= Scale
      <4>1. Unit * q \in Nat
        BY <2>2
      <4> HIDE DEF x
      <4> QED BY <3>2, <4>1, <2>2
    <3>4. succ(m) = (a \div 2) + x /\ trials(m) = (b \div 2) + Scale
      BY <2>3 DEF a, b
    <3> HIDE DEF x
    <3>5. /\ (a \div 2) + x \in Nat /\ (b \div 2) + Scale \in Nat
          /\ (a \div 2) + x <= (b \div 2) + Scale /\ (b \div 2) + Scale <= TrialsCap
      BY <2>1, <2>2, <3>3, Decays
    <3> QED BY <3>4, <3>5
  <2>4. CASE m \notin DOMAIN s
    <3>1. succ(m) = (a \div 2) + 0 /\ trials(m) = (b \div 2) + 0
      BY <2>4 DEF a, b
    <3>2. /\ (a \div 2) + 0 \in Nat /\ (b \div 2) + 0 \in Nat
          /\ (a \div 2) + 0 <= (b \div 2) + 0 /\ (b \div 2) + 0 <= TrialsCap
      <4>1. 0 \in Nat /\ 0 <= Scale
        BY <2>2
      <4> QED BY <2>1, <2>2, <4>1, Decays
    <3> QED BY <3>1, <3>2
  <2> QED BY <2>3, <2>4
<1> HIDE DEF g, succ, trials
<1>3. g \in Frames /\ \A m \in Models : g.succ[m] = succ(m) /\ g.trials[m] = trials(m)
  BY <1>1, <1>2 DEF Frames
<1> QED BY <1>2, <1>3 DEF Whole, g

(* The frames that a replay may begin with. *)
LEMMA BasesWhole == Whole(Empty) /\ Whole(Bootstrap)
<1>1. /\ Scale \in Nat /\ BootTrials \in Nat /\ BootSuccesses \in Nat /\ BootSuccesses <= BootTrials
      /\ TrialsCap \in Nat /\ BootTrials * Scale <= TrialsCap
  BY ScaleIs
<1>2. BootTrials * Scale \in Nat /\ BootSuccesses * Scale \in Nat
      /\ BootSuccesses * Scale <= BootTrials * Scale
  BY <1>1
<1> DEFINE x == BootSuccesses * Scale
           y == BootTrials * Scale
<1>3. x \in Nat /\ y \in Nat /\ x <= y /\ y <= TrialsCap
  BY <1>1, <1>2
<1>4. Bootstrap = [succ |-> [m \in Models |-> x], trials |-> [m \in Models |-> y]]
  BY DEF Bootstrap
<1> HIDE DEF x, y
<1>5. Whole(Bootstrap)
  BY <1>3, <1>4 DEF Whole, Frames
<1>6. Whole(Empty)
  BY <1>1 DEF Whole, Frames, Empty
<1> QED BY <1>5, <1>6

-----------------------------------------------------------------------------
(* The steps of a replay. *)
(* There is such a function, of whole frames. *)
LEMMA ReplayExists ==
  ASSUME NEW base, Whole(base), NEW p, Published(p), NEW N \in Nat
  PROVE  \E g : /\ g = [n \in 0..N |-> g[n]] /\ g[0] = base
                /\ \A n \in 0..N : Whole(g[n])
                /\ \A n \in 1..N : g[n] = FoldEpoch(g[n - 1], p, n - 1)
<1> DEFINE Good(m) == \E g : /\ g = [n \in 0..m |-> g[n]] /\ g[0] = base
                             /\ \A n \in 0..m : Whole(g[n])
                             /\ \A n \in 1..m : g[n] = FoldEpoch(g[n - 1], p, n - 1)
           All == {m \in 0..N : Good(m)}
<1>1. Good(0)
  <2> DEFINE g == [n \in 0..0 |-> base]
  <2>1. g = [n \in 0..0 |-> g[n]] /\ g[0] = base /\ 1..0 = {} /\ \A n \in 0..0 : g[n] = base
    OBVIOUS
  <2> HIDE DEF g
  <2> QED BY <2>1
<1>2. ASSUME NEW m \in 1..N, Good(m - 1) PROVE Good(m)
  <2>1. PICK g : /\ g = [n \in 0..m - 1 |-> g[n]] /\ g[0] = base
                 /\ \A n \in 0..m - 1 : Whole(g[n])
                 /\ \A n \in 1..m - 1 : g[n] = FoldEpoch(g[n - 1], p, n - 1)
    BY <1>2
  <2> DEFINE x == FoldEpoch(g[m - 1], p, m - 1)
             h == [n \in 0..m |-> IF n = m THEN x ELSE g[n]]
  <2>2. m - 1 \in 0..m - 1 /\ Whole(g[m - 1]) /\ m \in Nat /\ m # 0
    BY <2>1
  <2>3. Whole(x)
    BY <2>2, AccumulateWhole DEF FoldEpoch, Published
  <2> HIDE DEF x
  <2>4. h = [n \in 0..m |-> h[n]] /\ h[0] = base
    BY <2>1, <2>2
  <2>5. ASSUME NEW n \in 0..m PROVE Whole(h[n])
    <3>1. n # m => n \in 0..m - 1
      BY <2>2
    <3> QED BY <2>1, <2>3, <3>1
  <2>6. ASSUME NEW n \in 1..m PROVE h[n] = FoldEpoch(h[n - 1], p, n - 1)
    <3>1. n - 1 \in 0..m /\ n - 1 # m /\ n \in 0..m
      BY <2>2
    <3>2. CASE n = m
      BY <3>1, <3>2 DEF x
    <3>3. CASE n # m
      <4>1. n \in 1..m - 1
        BY <3>3, <2>2
      <4> QED BY <3>1, <3>3, <4>1, <2>1
    <3> QED BY <3>2, <3>3
  <2> HIDE DEF h
  <2> QED BY <2>4, <2>5, <2>6
<1> HIDE DEF Good
<1>3. 0 \in All /\ \A m \in 1..N : m - 1 \in All => m \in All
  BY <1>1, <1>2
<1>4. Good(N)
  <2> HIDE DEF All
  <2>1. \A m \in 0..N : m \in All
    BY <1>3, CountingUp
  <2> QED BY <2>1 DEF All
<1> QED BY <1>4 DEF Good

(* What a replay does, epoch by epoch. *)
LEMMA ReplayingSteps ==
  ASSUME NEW base, Whole(base), NEW p, Published(p)
  PROVE  /\ Replaying(base, p)[0] = base
         /\ \A n \in 1..MaxEpoch + 1 :
              Replaying(base, p)[n] = FoldEpoch(Replaying(base, p)[n - 1], p, n - 1)
<1> DEFINE N == MaxEpoch + 1
           Step(g) == [n \in 0..N |->
             IF n = 0 THEN base ELSE FoldEpoch(g[n - 1], p, n - 1)]
<1>1. N \in Nat
  BY ScaleIs
<1> HIDE DEF N
<1>4. PICK g : /\ g = [n \in 0..N |-> g[n]] /\ g[0] = base
               /\ \A n \in 1..N : g[n] = FoldEpoch(g[n - 1], p, n - 1)
  BY <1>1, ReplayExists
<1> USE DEF N
<1>5. \A n \in 1..N : g[n] = FoldEpoch(g[n - 1], p, n - 1)
  BY <1>4
<1>6. g = Step(g)
  <2>1. ASSUME NEW n \in 0..N PROVE g[n] = Step(g)[n]
    <3>1. CASE n = 0
      BY <3>1, <1>4
    <3>2. CASE n # 0
      <4>1. n \in 1..N /\ n > 0
        BY <3>2, <1>1
      <4> HIDE DEF N
      <4>2. g[n] = FoldEpoch(g[n - 1], p, n - 1)
        BY <4>1, <1>5
      <4> QED BY <3>2, <4>1, <4>2
    <3> QED BY <3>1, <3>2
  <2> HIDE DEF N
  <2> QED BY <2>1, <1>4
<1>7. Replaying(base, p) = CHOOSE s : s = Step(s)
  BY DEF Replaying
<1>8. Replaying(base, p) = Step(Replaying(base, p))
  <2> HIDE DEF Step
  <2> QED BY <1>6, <1>7
<1> DEFINE s == Replaying(base, p)
<1>a. s = Step(s)
  BY <1>8
<1> HIDE DEF s
<1>9. s[0] = base /\ \A n \in 1..N : s[n] = FoldEpoch(s[n - 1], p, n - 1)
  <2>1. \A n \in 0..N : s[n] =
          IF n = 0 THEN base ELSE FoldEpoch(s[n - 1], p, n - 1)
    BY <1>a
  <2>2. s[0] = base
    BY <2>1, <1>1
  <2>3. ASSUME NEW n \in 1..N PROVE s[n] = FoldEpoch(s[n - 1], p, n - 1)
    <3>1. n \in 0..N /\ n # 0 /\ n > 0
      BY <1>1
    <3> HIDE DEF N
    <3> QED BY <2>1, <3>1
  <2> QED BY <2>2, <2>3
<1> QED BY <1>9 DEF s

(* Every frame on the way is whole. *)
LEMMA ReplayWhole ==
  ASSUME NEW base, Whole(base), NEW p, Published(p)
  PROVE  Whole(Replay(base, p))
<1> DEFINE N == MaxEpoch + 1
           s == Replaying(base, p)
           All == {n \in 0..N : Whole(s[n])}
<1>1. N \in Nat
  BY ScaleIs
<1>2. s[0] = base /\ \A n \in 1..N : s[n] = FoldEpoch(s[n - 1], p, n - 1)
  BY ReplayingSteps
<1> HIDE DEF s, N
<1>3. 0 \in All
  BY <1>1, <1>2
<1>4. ASSUME NEW m \in 1..N, m - 1 \in All PROVE m \in All
  <2>1. Whole(s[m - 1]) /\ s[m] = FoldEpoch(s[m - 1], p, m - 1) /\ m \in 0..N
    BY <1>1, <1>2, <1>4
  <2>2. Whole(FoldEpoch(s[m - 1], p, m - 1))
    BY <2>1, AccumulateWhole DEF FoldEpoch, Published
  <2> QED BY <2>1, <2>2
<1>5. Whole(s[N])
  <2> HIDE DEF All
  <2>1. \A m \in 0..N : m \in All
    BY <1>1, <1>3, <1>4, CountingUp
  <2> QED BY <2>1, <1>1 DEF All
<1> QED BY <1>5 DEF Replay, s, N

(* What is published of e and later does not matter to what a replay has of
   the epochs before. *)
LEMMA ReplaysAgree ==
  ASSUME NEW base, Whole(base), NEW p, Published(p), NEW q, Published(q), NEW e \in 0..MaxEpoch + 1,
         \A d \in 0..e - 1 : (d \in DOMAIN p <=> d \in DOMAIN q) /\ (d \in DOMAIN p => p[d] = q[d])
  PROVE  Replaying(base, p)[e] = Replaying(base, q)[e]
<1> DEFINE N == MaxEpoch + 1
           s == Replaying(base, p)
           t == Replaying(base, q)
           All == {n \in 0..e : s[n] = t[n]}
<1>1. N \in Nat /\ e \in Nat /\ e <= N
  BY ScaleIs
<1>2. s[0] = base /\ \A n \in 1..N : s[n] = FoldEpoch(s[n - 1], p, n - 1)
  BY ReplayingSteps
<1>3. t[0] = base /\ \A n \in 1..N : t[n] = FoldEpoch(t[n - 1], q, n - 1)
  BY ReplayingSteps
<1> HIDE DEF s, t, N
<1>4. 0 \in All
  BY <1>1, <1>2, <1>3
<1>5. ASSUME NEW m \in 1..e, m - 1 \in All PROVE m \in All
  <2>1. m \in 1..N /\ m - 1 \in 0..e - 1 /\ m \in 0..e
    BY <1>1
  <2>2. s[m] = FoldEpoch(s[m - 1], p, m - 1) /\ t[m] = FoldEpoch(t[m - 1], q, m - 1) /\ s[m - 1] = t[m - 1]
    BY <1>2, <1>3, <1>5, <2>1
  <2>3. (m - 1 \in DOMAIN p <=> m - 1 \in DOMAIN q) /\ (m - 1 \in DOMAIN p => p[m - 1] = q[m - 1])
    BY <2>1
  <2> QED BY <2>1, <2>2, <2>3 DEF FoldEpoch
<1>6. s[e] = t[e]
  <2> HIDE DEF All
  <2>1. \A m \in 0..e : m \in All
    BY <1>1, <1>4, <1>5, CountingUp
  <2> QED BY <2>1, <1>1 DEF All
<1> QED BY <1>6 DEF s, t

(* After the last epoch published, a replay rests. *)
LEMMA ReplayRests ==
  ASSUME NEW base, Whole(base), NEW p, Published(p), NEW e \in 0..MaxEpoch + 1,
         \A d \in DOMAIN p : d < e
  PROVE  Replay(base, p) = Replaying(base, p)[e]
<1> DEFINE N == MaxEpoch + 1
           s == Replaying(base, p)
           All == {n \in 0..N : n >= e => s[n] = s[e]}
<1>1. N \in Nat /\ e \in Nat /\ e <= N
  BY ScaleIs
<1>2. s[0] = base /\ \A n \in 1..N : s[n] = FoldEpoch(s[n - 1], p, n - 1)
  BY ReplayingSteps
<1>a. \A d \in DOMAIN p : d \in Nat
  BY ScaleIs DEF Published
<1> HIDE DEF s, N
<1>3. 0 \in All
  BY <1>1
<1>4. ASSUME NEW m \in 1..N, m - 1 \in All PROVE m \in All
  <2>1. m \in 0..N /\ s[m] = FoldEpoch(s[m - 1], p, m - 1)
    BY <1>1, <1>2
  <2>2. CASE m > e
    <3>1. m - 1 >= e /\ ~ (m - 1 < e)
      BY <2>2, <1>1
    <3>2. m - 1 \notin DOMAIN p /\ s[m - 1] = s[e]
      BY <3>1, <1>4
    <3> QED BY <2>1, <3>2 DEF FoldEpoch
  <2>3. CASE ~ (m > e)
    <3>1. m >= e => m = e
      BY <2>3, <1>1
    <3> QED BY <2>1, <3>1
  <2> QED BY <2>2, <2>3
<1>5. s[N] = s[e]
  <2> HIDE DEF All
  <2>1. \A m \in 0..N : m \in All
    BY <1>1, <1>3, <1>4, CountingUp
  <2> QED BY <2>1, <1>1 DEF All
<1> QED BY <1>5 DEF Replay, s, N

(* An epoch after all others is folded last. *)
LEMMA ReplayLater ==
  ASSUME NEW base, Whole(base), NEW p, Published(p), NEW e \in 0..MaxEpoch,
         \A d \in DOMAIN p : d < e, NEW q, Published(q), DOMAIN q = DOMAIN p \cup {e},
         \A d \in DOMAIN p : q[d] = p[d]
  PROVE  Replay(base, q) = Accumulate(Replay(base, p), q[e])
<1>1. e \in 0..MaxEpoch + 1 /\ e + 1 \in 1..MaxEpoch + 1 /\ e + 1 \in 0..MaxEpoch + 1
      /\ (e + 1) - 1 = e
  BY ScaleIs
<1>2. \A d \in DOMAIN p : d \in 0..MaxEpoch
  BY DEF Published
<1>3. Replay(base, p) = Replaying(base, p)[e]
  BY <1>1, ReplayRests
<1>4. Replaying(base, p)[e] = Replaying(base, q)[e]
  <2>1. ASSUME NEW d \in 0..e - 1
        PROVE  (d \in DOMAIN p <=> d \in DOMAIN q) /\ (d \in DOMAIN p => p[d] = q[d])
    <3>1. d # e
      BY <1>1
    <3> QED BY <3>1
  <2> QED BY <2>1, <1>1, ReplaysAgree
<1>5. Replay(base, q) = Replaying(base, q)[e + 1]
  <2>1. \A d \in DOMAIN q : d < e + 1
    BY <1>1, <1>2
  <2> QED BY <2>1, <1>1, ReplayRests
<1>6. Replaying(base, q)[e + 1] = FoldEpoch(Replaying(base, q)[(e + 1) - 1], q, (e + 1) - 1)
  BY <1>1, ReplayingSteps
<1>7. e \in DOMAIN q
  OBVIOUS
<1> QED BY <1>1, <1>3, <1>4, <1>5, <1>6, <1>7 DEF FoldEpoch

-----------------------------------------------------------------------------
(* What an epoch samples can be revealed. *)
LEMMA SamplesRevealable ==
  ASSUME NEW a, IsAnswers(a), NEW excluded
  PROVE  Samples(a, excluded) \in Revealable
<1> DEFINE s == Samples(a, excluded)
<1>1. DOMAIN s \subseteq Models /\ \A m \in DOMAIN s : s[m] \in 0..Unit
  BY SamplesInRange
<1>2. s = [m \in DOMAIN s |-> s[m]]
  BY DEF Samples
<1> HIDE DEF s
<1>3. s \in [DOMAIN s -> 0..Unit]
  BY <1>1, <1>2
<1> QED BY <1>1, <1>3 DEF Revealable, s

(* What can be revealed can be replayed. *)
LEMMA RevealsPublished ==
  ASSUME NEW p \in Reveals
  PROVE  Published(p) /\ p = [e \in DOMAIN p |-> p[e]]
<1>1. PICK epochs \in SUBSET (0..MaxEpoch) : p \in [epochs -> Revealable]
  BY DEF Reveals
<1>2. \A s \in Revealable : Sampled(s)
  BY DEF Revealable, Sampled
<1> QED BY <1>1, <1>2 DEF Published

(* Every epoch folded was revealed, those since the start in their order and
   up to the last, and after those rebuilt from, but for one. *)
FoldsInOrder(x) ==
  /\ Epochs(x) \subseteq DOMAIN reveals
  /\ \A i \in 1..Len(x.folded) : x.folded[i].epoch <= x.last
  /\ \A i, j \in 1..Len(x.folded) : i < j => x.folded[i].epoch < x.folded[j].epoch
  /\ \A e \in DOMAIN x.from, i \in 1..Len(x.folded) :
       e < x.folded[i].epoch \/ (i = 1 /\ e = x.folded[i].epoch)

(* What is held, in memory or on disk: a frame that replaying what it was
   folded from gives, whatever has been revealed since. *)
Held(x) ==
  /\ x \in Mem /\ Whole(x.frame) /\ FoldsInOrder(x)
  /\ \A p \in Reveals : FoldedFrom(x, p) => x.frame = Replay(Base(x), p)

(* What is revealed of the past. *)
Revealed == reveals \in Reveals /\ \A e \in DOMAIN reveals : e <= clock

(* The disk is behind the memory. *)
DiskBehind == disk # NoState => Held(disk) /\ disk.last <= mem.last

(* The epoch being scored is revealed, and is the latest of those revealed. *)
WorkAhead ==
  work # NoState =>
    /\ work.answers \in Answers /\ work.excluded \subseteq Coldkeys
    /\ work.epoch \in 0..clock /\ mem.last < work.epoch
    /\ work.epoch \in DOMAIN reveals /\ \A e \in DOMAIN reveals : e <= work.epoch
    /\ work.frame = Accumulate(mem.frame, Samples(work.answers, work.excluded))

(* The inductive invariant. *)
FrameInv ==
  clock \in 0..MaxEpoch /\ Revealed /\ Held(mem) /\ DiskBehind /\ WorkAhead

(* The answers the run draws from are answers. *)
LEMMA AnswersAre == \A a \in Answers : IsAnswers(a)
BY VotesAssumption DEF IsAnswers

(* A start from the reveals. *)
LEMMA FreshIsHeld ==
  ASSUME reveals \in Reveals
  PROVE  Held(Fresh)
<1>1. Published(reveals) /\ MaxEpoch \in Nat
  BY RevealsPublished, ScaleIs
<1>2. Whole(Empty) /\ Whole(Bootstrap)
  BY BasesWhole
<1>3. /\ Fresh.frame = Rebuild(reveals) /\ Fresh.last = -1 /\ Fresh.from = reveals
      /\ Fresh.folded = <<>>
      /\ Fresh = [frame |-> Fresh.frame, last |-> Fresh.last, from |-> Fresh.from,
                  folded |-> Fresh.folded]
  BY DEF Fresh
<1> DEFINE fresh == Fresh
<1> HIDE DEF fresh
<1>4. Whole(Base(Fresh))
  BY <1>2 DEF Base
<1>5. Fresh.frame = Replay(Base(Fresh), reveals)
  <2>1. CASE DOMAIN reveals = {}
    <3>1. Replay(Bootstrap, reveals) = Replaying(Bootstrap, reveals)[0]
      BY <1>1, <1>2, <2>1, ReplayRests
    <3>2. Replaying(Bootstrap, reveals)[0] = Bootstrap
      BY <1>1, <1>2, ReplayingSteps
    <3> QED BY <2>1, <3>1, <3>2, <1>3 DEF Base, Rebuild
  <2>2. CASE DOMAIN reveals # {}
    BY <2>2, <1>3 DEF Base, Rebuild
  <2> QED BY <2>1, <2>2
<1>6. Whole(Fresh.frame)
  BY <1>1, <1>4, <1>5, ReplayWhole
<1>7. Fresh \in Mem
  <2>1. Fresh.frame \in Frames /\ Fresh.last \in -1..MaxEpoch /\ Fresh.folded \in Seq(Folds)
    BY <1>1, <1>3, <1>6 DEF Whole
  <2> QED BY <2>1, <1>3 DEF Mem, Frames
<1>8. Len(Fresh.folded) = 0 /\ DOMAIN Fresh.folded = {}
  BY <1>3
<1>9. FoldsInOrder(Fresh)
  BY <1>3, <1>8 DEF FoldsInOrder, Epochs
<1>10. ASSUME NEW p \in Reveals, FoldedFrom(Fresh, p)
       PROVE  Fresh.frame = Replay(Base(Fresh), p)
  <2>1. DOMAIN p = DOMAIN reveals /\ \A e \in DOMAIN reveals : p[e] = reveals[e]
    BY <1>3, <1>8, <1>10 DEF FoldedFrom, Epochs
  <2>2. p = [e \in DOMAIN p |-> p[e]] /\ reveals = [e \in DOMAIN reveals |-> reveals[e]]
    BY RevealsPublished
  <2>3. p = reveals
    BY <2>1, <2>2
  <2> QED BY <2>3, <1>5
<1> QED BY <1>6, <1>7, <1>9, <1>10 DEF Held

(* Nothing is held yet. *)
LEMMA FrameInitially == FrameInit => FrameInv
<1> SUFFICES ASSUME FrameInit PROVE FrameInv
  OBVIOUS
<1>1. /\ clock = 0 /\ disk = NoState /\ work = NoState /\ reveals = <<>> /\ mem = Fresh
  BY DEF FrameInit
<1>2. MaxEpoch \in Nat /\ DOMAIN reveals = {}
  BY <1>1, ScaleIs
<1>3. reveals \in Reveals
  <2>1. reveals \in [{} -> Revealable]
    BY <1>1, <1>2
  <2> QED BY <2>1 DEF Reveals
<1>4. Held(mem)
  BY <1>1, <1>3, FreshIsHeld
<1> QED BY <1>1, <1>2, <1>3, <1>4 DEF FrameInv, DiskBehind, WorkAhead, Revealed

-----------------------------------------------------------------------------
(* An epoch begins with nothing read. *)
LEMMA NextEpochKeeps == FrameInv /\ NextEpoch => FrameInv'
<1> SUFFICES ASSUME FrameInv, NextEpoch PROVE FrameInv'
  OBVIOUS
<1>1. clock' = clock + 1 /\ clock < MaxEpoch /\ UNCHANGED <<mem, disk, work, reveals>>
      /\ clock \in 0..MaxEpoch /\ MaxEpoch \in Nat
  BY ScaleIs DEF NextEpoch, FrameInv
<1>2. clock' \in 0..MaxEpoch /\ \A e \in 0..MaxEpoch : e <= clock => e <= clock'
  BY <1>1
<1>3. \A e \in DOMAIN reveals : e \in 0..MaxEpoch
  BY RevealsPublished DEF FrameInv, Revealed, Published
<1>4. Revealed'
  BY <1>1, <1>2, <1>3 DEF FrameInv, Revealed
<1>5. Held(mem)' /\ DiskBehind'
  BY <1>1 DEF FrameInv, DiskBehind, Held, FoldsInOrder
<1>6. WorkAhead'
  <2>1. \A e \in 0..clock : e \in 0..clock'
    BY <1>1
  <2> QED BY <1>1, <2>1 DEF FrameInv, WorkAhead
<1> QED BY <1>2, <1>4, <1>5, <1>6 DEF FrameInv

(* An epoch without answers changes nothing. *)
LEMMA NoProofsKeeps == FrameInv /\ NoProofs => FrameInv'
<1> SUFFICES ASSUME FrameInv, NoProofs PROVE FrameInv'
  OBVIOUS
<1>1. /\ work = NoState /\ clock > mem.last /\ mem' = [mem EXCEPT !.last = clock]
      /\ disk' = mem' /\ UNCHANGED <<clock, work, reveals>>
      /\ clock \in 0..MaxEpoch /\ MaxEpoch \in Nat
  BY ScaleIs DEF NoProofs, FrameInv
<1>2. mem \in Mem /\ Whole(mem.frame) /\ FoldsInOrder(mem)
      /\ (\A p \in Reveals : FoldedFrom(mem, p) => mem.frame = Replay(Base(mem), p))
  BY DEF FrameInv, Held
<1>3. mem' \in Mem /\ mem'.frame = mem.frame /\ mem'.from = mem.from
      /\ mem'.folded = mem.folded /\ mem'.last = clock
  <2>1. clock \in -1..MaxEpoch
    BY <1>1
  <2> DEFINE Froms == Reveals
             Foldeds == Seq(Folds)
  <2>2. Mem = [frame : Frames, last : -1..MaxEpoch, from : Froms, folded : Foldeds]
    BY DEF Mem, Frames
  <2> HIDE DEF Froms, Foldeds
  <2> QED BY <1>1, <1>2, <2>1, <2>2
<1>4. FoldsInOrder(mem')
  <2>1. \A i \in 1..Len(mem.folded) : mem.folded[i].epoch \in Int
    <3>1. mem.folded \in Seq(Folds)
      BY <1>2 DEF Mem
    <3>2. \A i \in 1..Len(mem.folded) : mem.folded[i] \in Folds
      BY <3>1
    <3> QED BY <3>2, <1>1 DEF Folds
  <2>2. mem.last \in Int
    BY <1>2 DEF Mem
  <2>3. \A i \in 1..Len(mem.folded) : mem.folded[i].epoch <= clock
    BY <2>1, <2>2, <1>1, <1>2 DEF FoldsInOrder
  <2> QED BY <2>3, <1>2, <1>3 DEF FoldsInOrder, Epochs
<1>5. \A p \in Reveals : FoldedFrom(mem', p) => mem'.frame = Replay(Base(mem'), p)
  <2>1. \A p : FoldedFrom(mem', p) <=> FoldedFrom(mem, p)
    BY <1>3 DEF FoldedFrom, Epochs
  <2>2. Base(mem') = Base(mem)
    BY <1>3 DEF Base
  <2> QED BY <2>1, <2>2, <1>2, <1>3
<1>6. Held(mem')
  BY <1>2, <1>3, <1>4, <1>5 DEF Held
<1>7. Held(mem)' /\ Held(disk)'
  BY <1>1, <1>6 DEF Held, FoldsInOrder
<1>8. mem'.last <= mem'.last /\ disk' = mem'
  BY <1>1, <1>3
<1>9. Revealed' /\ WorkAhead'
  BY <1>1 DEF FrameInv, Revealed, WorkAhead
<1> QED BY <1>1, <1>7, <1>8, <1>9 DEF FrameInv, DiskBehind

(* Answers are sampled and revealed, and judged by the frame as it stands. *)
LEMMA FoldKeeps == ASSUME FrameInv, NEW a \in Answers, Fold(a) PROVE FrameInv'
<1> DEFINE excluded == Excluded(a, mem.frame)
<1>1. /\ work = NoState /\ clock > mem.last
      /\ work' = [epoch |-> clock, answers |-> a, excluded |-> excluded,
                  frame |-> Accumulate(mem.frame, Samples(a, excluded))]
      /\ reveals' = [e \in DOMAIN reveals \cup {clock} |->
                       IF e = clock THEN Samples(a, {}) ELSE reveals[e]]
      /\ UNCHANGED <<clock, mem, disk>>
  BY DEF Fold
<1> HIDE DEF excluded
<1>2. clock \in 0..MaxEpoch /\ MaxEpoch \in Nat /\ IsAnswers(a) /\ Revealed
  BY ScaleIs, AnswersAre DEF FrameInv
<1>3. excluded \subseteq Coldkeys
  <2>1. Suspicious(a, mem.frame) \subseteq DOMAIN a
    BY DEF Suspicious, Implausible, Disagreeing
  <2>2. \A u \in DOMAIN a : Owner[u] \in Coldkeys
    BY <1>2, VotesAssumption DEF IsAnswers
  <2> QED BY <2>1, <2>2 DEF excluded, Excluded
<1>4. Samples(a, {}) \in Revealable
  BY <1>2, SamplesRevealable
<1>5. DOMAIN reveals' = DOMAIN reveals \cup {clock}
  BY <1>1
<1>6. Revealed'
  <2>1. PICK epochs \in SUBSET (0..MaxEpoch) : reveals \in [epochs -> Revealable]
    BY <1>2 DEF Revealed, Reveals
  <2>2. DOMAIN reveals = epochs /\ \A e \in epochs : reveals[e] \in Revealable
    BY <2>1
  <2>3. epochs \cup {clock} \in SUBSET (0..MaxEpoch)
    BY <1>2
  <2>4. reveals' \in [epochs \cup {clock} -> Revealable]
    BY <1>1, <1>4, <2>2
  <2>5. reveals' \in Reveals
    BY <2>3, <2>4 DEF Reveals
  <2>6. \A e \in DOMAIN reveals' : e <= clock
    BY <1>2, <1>5 DEF Revealed
  <2> QED BY <2>5, <2>6, <1>1 DEF Revealed
<1>7. Held(mem)' /\ DiskBehind'
  BY <1>1, <1>5 DEF FrameInv, DiskBehind, Held, FoldsInOrder
<1>8. WorkAhead'
  <2>1. /\ work'.epoch = clock /\ work'.answers = a /\ work'.excluded = excluded
        /\ work'.frame = Accumulate(mem.frame, Samples(a, excluded))
    BY <1>1
  <2>2. clock \in 0..clock /\ clock' = clock /\ mem'.last < clock
    <3>1. mem.last \in Int
      BY DEF FrameInv, Held, Mem
    <3> QED BY <3>1, <1>1, <1>2
  <2>3. \A e \in DOMAIN reveals' : e <= clock
    BY <1>6, <1>1 DEF Revealed
  <2> QED BY <2>1, <2>2, <2>3, <1>1, <1>3, <1>5 DEF WorkAhead
<1> QED BY <1>1, <1>2, <1>6, <1>7, <1>8 DEF FrameInv

(* The frame of the epoch's own replaces the one held. *)
LEMMA AdoptKeeps == FrameInv /\ Adopt => FrameInv'
<1> SUFFICES ASSUME FrameInv, Adopt PROVE FrameInv'
  OBVIOUS
<1> DEFINE e == work.epoch
           fold == [epoch |-> e, excluded |-> work.excluded, revealed |-> Samples(work.answers, {})]
           n == Len(mem.folded)
           new == [frame |-> work.frame, last |-> e, from |-> mem.from,
                   folded |-> Append(mem.folded, fold)]
<1>1. /\ work # NoState /\ mem' = new /\ disk' \in {disk, mem'} /\ work' = NoState
      /\ UNCHANGED <<clock, reveals>>
  BY DEF Adopt
<1>2. /\ work.answers \in Answers /\ work.excluded \subseteq Coldkeys /\ e \in 0..clock
      /\ mem.last < e /\ e \in DOMAIN reveals /\ (\A d \in DOMAIN reveals : d <= e)
      /\ work.frame = Accumulate(mem.frame, Samples(work.answers, work.excluded))
  BY <1>1 DEF FrameInv, WorkAhead
<1>3. /\ mem \in Mem /\ Whole(mem.frame) /\ FoldsInOrder(mem)
      /\ (\A p \in Reveals : FoldedFrom(mem, p) => mem.frame = Replay(Base(mem), p))
  BY DEF FrameInv, Held
<1>4. /\ clock \in 0..MaxEpoch /\ MaxEpoch \in Nat /\ e \in 0..MaxEpoch
      /\ mem.from \in Reveals /\ mem.folded \in Seq(Folds) /\ mem.last \in Int
  <2>1. clock \in 0..MaxEpoch /\ MaxEpoch \in Nat
    BY ScaleIs DEF FrameInv
  <2> QED BY <2>1, <1>2, <1>3 DEF Mem
<1>5. Whole(work.frame)
  <2>1. IsAnswers(work.answers)
    BY <1>2, AnswersAre
  <2>2. Sampled(Samples(work.answers, work.excluded))
    BY <2>1, SamplesInRange DEF Sampled
  <2> QED BY <2>2, <1>2, <1>3, AccumulateWhole
<1>6. fold \in Folds
  <2>1. Samples(work.answers, {}) \in Revealable
    BY <1>2, AnswersAre, SamplesRevealable
  <2> QED BY <2>1, <1>2, <1>4 DEF Folds
<1>7. /\ new.frame = work.frame /\ new.last = e /\ new.from = mem.from
      /\ new.folded = Append(mem.folded, fold)
  OBVIOUS
<1>8. fold.epoch = e /\ fold.excluded = work.excluded /\ fold.revealed = Samples(work.answers, {})
  OBVIOUS
<1> HIDE DEF fold
<1>9. /\ new.folded \in Seq(Folds) /\ n \in Nat /\ Len(new.folded) = n + 1
      /\ new.folded[n + 1] = fold
      /\ \A i \in 1..n : new.folded[i] = mem.folded[i] /\ mem.folded[i] \in Folds
      /\ DOMAIN new.folded = 1..n + 1 /\ DOMAIN mem.folded = 1..n
  BY <1>4, <1>6, <1>7
<1>10. new \in Mem
  <2>1. work.frame \in Frames /\ e \in -1..MaxEpoch
    BY <1>4, <1>5 DEF Whole
  <2> QED BY <2>1, <1>4, <1>9 DEF Mem, Frames
<1> HIDE DEF new, n
<1>11. \A i \in 1..n : mem.folded[i].epoch \in Nat /\ mem.folded[i].epoch < e
  <2> SUFFICES ASSUME NEW i \in 1..n PROVE mem.folded[i].epoch \in Nat /\ mem.folded[i].epoch < e
    OBVIOUS
  <2>1. mem.folded[i].epoch \in Nat
    BY <1>4, <1>9 DEF Folds
  <2>2. mem.folded[i].epoch <= mem.last
    BY <1>3 DEF FoldsInOrder, n
  <2> QED BY <2>1, <2>2, <1>2, <1>4
<1>12. \A d \in DOMAIN mem.from : d \in Nat /\ d <= e
  <2>1. DOMAIN mem.from \subseteq DOMAIN reveals
    BY <1>3 DEF FoldsInOrder, Epochs
  <2>2. \A d \in DOMAIN reveals : d \in Nat
    BY RevealsPublished, <1>4 DEF FrameInv, Revealed, Published
  <2> QED BY <2>1, <2>2, <1>2
<1>13. Epochs(new) = Epochs(mem) \cup {e}
  BY <1>7, <1>8, <1>9 DEF Epochs
<1>14. FoldsInOrder(new)
  <2>1. Epochs(new) \subseteq DOMAIN reveals
    BY <1>2, <1>3, <1>13 DEF FoldsInOrder
  <2>2. \A i \in 1..n + 1 : new.folded[i].epoch <= e /\ (i # n + 1 => new.folded[i].epoch < e)
    BY <1>4, <1>8, <1>9, <1>11
  <2>3. ASSUME NEW i \in 1..n + 1, NEW j \in 1..n + 1, i < j
        PROVE  new.folded[i].epoch < new.folded[j].epoch
    <3>1. CASE j = n + 1
      BY <3>1, <2>2, <2>3, <1>8, <1>9
    <3>2. CASE j # n + 1
      <4>1. i \in 1..n /\ j \in 1..n
        BY <3>2, <2>3, <1>9
      <4> QED BY <4>1, <2>3, <1>3, <1>9 DEF FoldsInOrder, n
    <3> QED BY <3>1, <3>2
  <2>4. ASSUME NEW d \in DOMAIN mem.from, NEW i \in 1..n + 1
        PROVE  d < new.folded[i].epoch \/ (i = 1 /\ d = new.folded[i].epoch)
    <3>1. CASE i \in 1..n
      BY <3>1, <1>3, <1>9 DEF FoldsInOrder, n
    <3>2. CASE i = n + 1 /\ n = 0
      BY <3>2, <1>4, <1>8, <1>9, <1>12
    <3>3. CASE i = n + 1 /\ n # 0
      <4>1. 1 \in 1..n
        BY <3>3, <1>9
      <4>2. d < mem.folded[1].epoch \/ d = mem.folded[1].epoch
        BY <4>1, <1>3 DEF FoldsInOrder, n
      <4>3. d < e
        BY <4>1, <4>2, <1>4, <1>11, <1>12
      <4> QED BY <3>3, <4>3, <1>8, <1>9
    <3> QED BY <3>1, <3>2, <3>3, <1>9
  <2> QED BY <2>1, <2>2, <2>3, <2>4, <1>7, <1>9 DEF FoldsInOrder
<1>15. ASSUME NEW p \in Reveals, FoldedFrom(new, p)
       PROVE  new.frame = Replay(Base(new), p)
  <2> DEFINE q == [d \in Epochs(mem) |-> p[d]]
  <2>1. /\ DOMAIN p = Epochs(mem) \cup {e}
        /\ \A d \in DOMAIN mem.from : p[d] = mem.from[d]
        /\ \A i \in 1..n + 1 : /\ new.folded[i].excluded = {}
                              /\ new.folded[i].epoch \notin DOMAIN mem.from
                              /\ p[new.folded[i].epoch] = new.folded[i].revealed
    BY <1>15, <1>7, <1>9, <1>13 DEF FoldedFrom
  <2>2. n + 1 \in 1..n + 1 /\ \A i \in 1..n : i \in 1..n + 1
    BY <1>9
  <2>3. work.excluded = {} /\ e \notin DOMAIN mem.from /\ p[e] = Samples(work.answers, {})
    BY <2>1, <2>2, <1>8, <1>9
  <2>4. Epochs(mem) \subseteq DOMAIN p /\ DOMAIN q = Epochs(mem) /\ \A d \in Epochs(mem) : q[d] = p[d]
    BY <2>1
  <2>5. \A d \in Epochs(mem) : d < e
    <3>1. \A d \in DOMAIN mem.from : d < e
      BY <2>3, <1>4, <1>12
    <3> QED BY <3>1, <1>9, <1>11 DEF Epochs
  <2>6. q \in Reveals
    <3>1. PICK epochs \in SUBSET (0..MaxEpoch) : p \in [epochs -> Revealable]
      BY DEF Reveals
    <3>2. Epochs(mem) \in SUBSET (0..MaxEpoch) /\ q \in [Epochs(mem) -> Revealable]
      BY <2>4, <3>1
    <3> QED BY <3>2 DEF Reveals
  <2>7. FoldedFrom(mem, q)
    <3>1. \A d \in DOMAIN mem.from : d \in Epochs(mem)
      BY DEF Epochs
    <3>2. \A i \in 1..n : mem.folded[i].epoch \in Epochs(mem)
      BY <1>9 DEF Epochs
    <3>3. \A i \in 1..n : /\ mem.folded[i].excluded = {}
                          /\ mem.folded[i].epoch \notin DOMAIN mem.from
                          /\ p[mem.folded[i].epoch] = mem.folded[i].revealed
      BY <2>1, <2>2, <1>9
    <3> HIDE DEF q
    <3> QED BY <2>1, <2>4, <3>1, <3>2, <3>3, <1>9 DEF FoldedFrom
  <2>8. mem.frame = Replay(Base(mem), q) /\ Base(new) = Base(mem)
    BY <2>6, <2>7, <1>3, <1>7 DEF Base
  <2>9. Whole(Base(mem)) /\ Published(p) /\ Published(q)
    BY <2>6, BasesWhole, RevealsPublished DEF Base
  <2>10. DOMAIN p = DOMAIN q \cup {e} /\ (\A d \in DOMAIN q : p[d] = q[d]) /\ \A d \in DOMAIN q : d < e
    BY <2>1, <2>4, <2>5
  <2> HIDE DEF q, e
  <2>11. Replay(Base(mem), p) = Accumulate(Replay(Base(mem), q), p[e])
    BY <2>9, <2>10, <1>4, ReplayLater
  <2> QED BY <2>3, <2>8, <2>11, <1>2, <1>7
<1>16. Held(new)
  BY <1>5, <1>7, <1>10, <1>14, <1>15 DEF Held
<1>17. Held(mem)'
  BY <1>1, <1>16 DEF Held, FoldsInOrder
<1>18. DiskBehind'
  <2>1. CASE disk' = mem'
    <3>1. disk'.last <= mem'.last
      BY <2>1, <1>1, <1>4, <1>7
    <3>2. Held(disk)'
      BY <2>1, <1>17 DEF Held, FoldsInOrder
    <3> QED BY <3>1, <3>2 DEF DiskBehind
  <2>2. CASE disk' = disk
    <3>1. SUFFICES ASSUME disk # NoState PROVE Held(disk)' /\ disk.last <= mem'.last
      BY <2>2 DEF DiskBehind
    <3>2. Held(disk) /\ disk.last <= mem.last /\ disk.last \in Int
      BY <3>1 DEF FrameInv, DiskBehind, Held, Mem
    <3>3. Held(disk)'
      BY <3>2, <2>2, <1>1 DEF Held, FoldsInOrder
    <3>4. disk.last <= e
      BY <3>2, <1>2, <1>4
    <3> QED BY <3>3, <3>4, <1>1, <1>7
  <2> QED BY <2>1, <2>2, <1>1
<1>19. Revealed' /\ WorkAhead'
  BY <1>1 DEF FrameInv, Revealed, WorkAhead
<1> QED BY <1>1, <1>4, <1>17, <1>18, <1>19 DEF FrameInv

(* An epoch that fails keeps what memory had. *)
LEMMA FailKeeps == FrameInv /\ FailEpoch => FrameInv'
BY DEF FrameInv, FailEpoch, Revealed, Held, FoldsInOrder, DiskBehind, WorkAhead

(* A start, from the state file or from the reveals. *)
LEMMA StartKeeps ==
  ASSUME FrameInv, work' = NoState, UNCHANGED <<clock, reveals>>,
         \/ disk # NoState /\ disk' = disk /\ mem' = disk
         \/ disk' = NoState /\ mem' = Fresh
  PROVE  FrameInv'
<1>1. Revealed' /\ WorkAhead'
  BY DEF FrameInv, Revealed, WorkAhead
<1>2. CASE disk # NoState /\ disk' = disk /\ mem' = disk
  <2>1. Held(disk) /\ disk.last \in Int
    BY <1>2 DEF FrameInv, DiskBehind, Held, Mem
  <2>2. Held(mem)' /\ Held(disk)'
    BY <2>1, <1>2 DEF Held, FoldsInOrder
  <2>3. disk.last <= disk.last
    BY <2>1
  <2> QED BY <1>1, <1>2, <2>2, <2>3 DEF FrameInv, DiskBehind
<1>3. CASE disk' = NoState /\ mem' = Fresh
  <2> DEFINE fresh == Fresh
  <2>1. Held(fresh) /\ mem' = fresh
    BY <1>3, FreshIsHeld DEF FrameInv, Revealed
  <2> HIDE DEF fresh
  <2>2. Held(mem)'
    BY <2>1 DEF Held, FoldsInOrder
  <2> QED BY <1>1, <1>3, <2>2 DEF FrameInv, DiskBehind
<1> QED BY <1>2, <1>3

(* Each step keeps the invariant. *)
LEMMA FrameStep == FrameInv /\ [FrameNext]_frameVars => FrameInv'
<1> SUFFICES ASSUME FrameInv, [FrameNext]_frameVars PROVE FrameInv'
  OBVIOUS
<1>1. CASE RestartValidator
  <2>1. work' = NoState /\ UNCHANGED <<clock, reveals>>
        /\ (\/ disk # NoState /\ disk' = disk /\ mem' = disk
            \/ disk' = NoState /\ mem' = Fresh)
    BY <1>1 DEF RestartValidator
  <2> QED BY <2>1, StartKeeps
<1>2. CASE LoseDisk
  <2>1. work' = NoState /\ UNCHANGED <<clock, reveals>> /\ disk' = NoState /\ mem' = Fresh
    BY <1>2 DEF LoseDisk
  <2> QED BY <2>1, StartKeeps
<1>3. CASE UNCHANGED frameVars
  BY <1>3 DEF frameVars, FrameInv, Revealed, Held, FoldsInOrder, DiskBehind, WorkAhead
<1>4. CASE \E a \in Answers : Fold(a)
  BY <1>4, FoldKeeps
<1>5. CASE NextEpoch \/ NoProofs \/ Adopt \/ FailEpoch
  BY <1>5, NextEpochKeeps, NoProofsKeeps, AdoptKeeps, FailKeeps
<1> QED BY <1>1, <1>2, <1>3, <1>4, <1>5 DEF FrameNext

(* It holds throughout. *)
LEMMA FrameInductive == FrameSpec => []FrameInv
BY FrameInitially, FrameStep, PTL DEF FrameSpec

-----------------------------------------------------------------------------
(* The frame validators share stays one, and whole: rates are rates and trials
   are bounded, a frame folded from the reveals, each once and nobody excluded,
   is what a replay of them gives, and no epoch is folded twice, but for the
   one in which a frame is rebuilt that has it already. *)
THEOREM FrameAlwaysSafe == FrameSpec => []FrameSafety
<1>1. FrameInv => FrameSafety
  <2> SUFFICES ASSUME FrameInv PROVE FrameSafety
    OBVIOUS
  <2>1. Held(mem) /\ Revealed /\ clock \in 0..MaxEpoch /\ MaxEpoch \in Nat
    BY ScaleIs DEF FrameInv
  <2>2. mem \in Mem /\ disk \in Mem \cup {NoState}
    BY <2>1 DEF Held, FrameInv, DiskBehind
  <2>3. work # NoState =>
          work.epoch \in 0..MaxEpoch /\ work.excluded \subseteq Coldkeys /\ work.answers \in Answers
    BY <2>1 DEF FrameInv, WorkAhead
  <2>4. reveals \in Reveals
    BY <2>1 DEF Revealed
  <2>5. \A m \in Models : /\ mem.frame.succ[m] <= mem.frame.trials[m]
                          /\ mem.frame.trials[m] <= (IF BootTrials > 2 THEN BootTrials ELSE 2) * Scale
    BY <2>1 DEF Held, Whole, TrialsCap
  <2>6. FrameTypeOK
    BY <2>1, <2>2, <2>3, <2>4, <2>5 DEF FrameTypeOK
  <2>7. RevealsReplayFrame
    BY <2>1, <2>4 DEF Held, RevealsReplayFrame
  <2>8. AppliedOnce
    <3>1. mem.folded \in Seq(Folds)
      BY <2>2 DEF Mem
    <3>2. DOMAIN mem.folded = 1..Len(mem.folded)
      BY <3>1
    <3> QED BY <2>1, <3>2 DEF Held, FoldsInOrder, AppliedOnce
  <2> QED BY <2>6, <2>7, <2>8 DEF FrameSafety
<1> QED BY <1>1, FrameInductive, PTL

(* No minority of the operators moves a sample of an epoch out of the range of
   what the others voted. *)
THEOREM MinorityNeverMoves == FrameSpec => []MinorityCannotMove
<1>1. FrameInv => MinorityCannotMove
  <2> SUFFICES ASSUME FrameInv, work # NoState,
                      NEW m \in DOMAIN Samples(work.answers, work.excluded),
                      NEW c \in SUBSET Ballots(work.answers, m, work.excluded),
                      2 * Cardinality(c) < Cardinality(Ballots(work.answers, m, work.excluded))
               PROVE  \E lo, hi \in Ballots(work.answers, m, work.excluded) \ c :
                        /\ lo[2] <= Samples(work.answers, work.excluded)[m]
                        /\ Samples(work.answers, work.excluded)[m] <= hi[2]
    BY DEF MinorityCannotMove
  <2>1. IsAnswers(work.answers)
    BY AnswersAre DEF FrameInv, WorkAhead
  <2> QED BY <2>1, SampleWithin
<1> QED BY <1>1, FrameInductive, PTL

(* A majority of operators that agrees is never taken to disagree, and decides
   every sample, however many hotkeys the others have. *)
THEOREM ConsensusAlwaysMajoritys == FrameSpec => []ConsensusIsMajoritys
<1>1. FrameInv => ConsensusIsMajoritys
  <2> SUFFICES ASSUME FrameInv PROVE ConsensusIsMajoritys
    OBVIOUS
  <2>1. work # NoState => IsAnswers(work.answers)
    BY AnswersAre DEF FrameInv, WorkAhead
  <2>2. MajorityNeverDisagrees
    BY <2>1, MajorityAgrees DEF MajorityNeverDisagrees
  <2>3. MajorityDecides
    <3> SUFFICES ASSUME work # NoState, NEW h \in Majorities(work.answers),
                        h \cap work.excluded = {}, NEW u \in DOMAIN work.answers,
                        NEW m \in Models, Owner[u] \in h, work.answers[u][m] # "failed"
                 PROVE  Samples(work.answers, work.excluded)[m] =
                          IF work.answers[u][m] = "right" THEN Unit ELSE 0
      BY DEF MajorityDecides
    <3> QED BY <2>1, MajoritySample
  <2> QED BY <2>2, <2>3 DEF ConsensusIsMajoritys
<1> QED BY <1>1, FrameInductive, PTL

(***************************************************************************)
(* Weights                                                                 *)
(***************************************************************************)

-----------------------------------------------------------------------------
(* The shares of an epoch: they add up, and nobody is paid who is out. *)
SharesSet ==
  /\ shares \in [WeightUids -> Nat]
  /\ Sum1(shares) = Parts
  /\ \A u \in out \ {BurnUid} : shares[u] = 0
  /\ (Parts - shares[BurnUid]) * PaidLevels <= paid * Parts

(* The inductive invariant: the shares are set before the weights, which are
   the capped ones. *)
WeightsInv ==
  /\ prev \in [WeightUids -> Nat] /\ Sum1(prev) = Units
  /\ records \in [WeightUids -> Nat]
  /\ out \in SUBSET (WeightUids \ {BurnUid}) /\ paid \in 0..PaidLevels
  /\ shares = Unset \/ SharesSet
  /\ \/ final = Unset
     \/ /\ SharesSet
        /\ final = [u \in WeightUids |->
             Clamp(prev[u] * Parts, shares[u] * Units, Delta * Parts)]

(* What the ranked have earned is a number, and there is a part to assign. *)
LEMMA PartsPositive ==
  ASSUME records \in [WeightUids -> Nat]
  PROVE  Earned \in Nat /\ Parts \in Nat \ {0}
<1> DEFINE e == [u \in WeightUids |-> IF u \in Ranked1 THEN records[u] ELSE 0]
<1>1. e \in [1..NumUids -> Nat] /\ NumUids \in Nat /\ PaidLevels \in Nat \ {0}
  BY WeightsAssumption DEF WeightUids
<1> HIDE DEF e
<1>2. SumTo(e, NumUids) \in Nat
  BY <1>1, SumIsNat
<1>3. Earned \in Nat
  BY <1>2 DEF Earned, Sum1, e
<1> DEFINE q == IF Earned = 0 THEN 1 ELSE Earned
<1>4. q \in Nat \ {0}
  BY <1>3
<1>5. Parts = PaidLevels * q
  BY DEF Parts
<1> HIDE DEF q
<1>6. PaidLevels * q \in Nat \ {0}
  BY <1>1, <1>4
<1> QED BY <1>3, <1>5, <1>6

(* Nothing is paid yet. *)
LEMMA WeightsInitially == WeightsInit => WeightsInv
BY WeightsAssumption DEF WeightsInit, WeightsInv, WeightUids

(* The step that assigns the shares. *)
LEMMA ShareStep == WeightsInv /\ Share => WeightsInv'
<1> SUFFICES ASSUME WeightsInv, Share PROVE WeightsInv'
  OBVIOUS
<1>1. /\ prev \in [WeightUids -> Nat] /\ Sum1(prev) = Units
      /\ records \in [WeightUids -> Nat]
      /\ out \in SUBSET (WeightUids \ {BurnUid}) /\ paid \in 0..PaidLevels
  BY DEF WeightsInv
<1>2. /\ shares = Unset /\ UNCHANGED <<prev, records, out, paid, final>>
      /\ shares' = [Assigned EXCEPT ![BurnUid] = Parts - Sum1(Assigned)]
  BY DEF Share
<1>3. /\ NumUids \in Nat /\ BurnUid \in 1..NumUids /\ BurnUid \in WeightUids
      /\ PaidLevels \in Nat /\ PaidLevels > 0 /\ paid \in Nat /\ paid <= PaidLevels
  BY <1>1, WeightsAssumption DEF WeightUids
<1>4. Earned \in Nat /\ Parts \in Nat \ {0}
  BY <1>1, PartsPositive
<1> DEFINE e == [u \in WeightUids |-> IF u \in Ranked1 THEN records[u] ELSE 0]
           c == IF Earned = 0 THEN 0 ELSE paid
<1>5. e \in [1..NumUids -> Int] /\ c \in Int /\ c \in Nat /\ Earned = SumTo(e, NumUids)
  BY <1>1, <1>3 DEF WeightUids, Earned, Sum1
<1>6. \A u \in WeightUids : ShareOf(u) \in Nat /\ ShareOf(u) = c * e[u]
  <2> TAKE u \in WeightUids
  <2>1. records[u] \in Nat /\ paid * records[u] \in Nat
    BY <1>1, <1>3
  <2>2. CASE Earned = 0 \/ u \notin Ranked1
    <3>1. ShareOf(u) = 0 /\ (c = 0 \/ e[u] = 0) /\ e[u] \in Nat
      BY <2>2, <2>1 DEF ShareOf
    <3>2. c * e[u] = 0
      BY <3>1, <1>5
    <3> QED BY <3>1, <3>2
  <2>3. CASE ~ (Earned = 0 \/ u \notin Ranked1)
    <3>1. ShareOf(u) = paid * records[u] /\ c = paid /\ e[u] = records[u]
      BY <2>3 DEF ShareOf
    <3> QED BY <3>1, <2>1
  <2> QED BY <2>2, <2>3
<1> DEFINE total == SumTo(Assigned, NumUids)
<1>7. /\ Assigned \in [1..NumUids -> Nat] /\ Assigned \in [1..NumUids -> Int]
      /\ \A u \in 1..NumUids : Assigned[u] = c * e[u]
  BY <1>6 DEF Assigned, WeightUids
<1>8. total = c * Earned /\ total \in Nat
  <2> HIDE DEF e, c
  <2>1. SumTo(Assigned, NumUids) = c * SumTo(e, NumUids)
    BY <1>3, <1>5, <1>7, SumScaled
  <2>2. SumTo(Assigned, NumUids) \in Nat
    BY <1>3, <1>7, SumIsNat
  <2> QED BY <2>1, <2>2, <1>5
<1>9. Assigned[BurnUid] = 0
  BY <1>3 DEF Assigned, ShareOf, Ranked1
<1>10. total * PaidLevels <= paid * Parts /\ total <= Parts
  <2>1. CASE Earned = 0
    <3>1. total = 0
      BY <1>8, <2>1
    <3> HIDE DEF total
    <3> QED BY <3>1, <1>3, <1>4
  <2>2. CASE Earned # 0
    <3>1. total = paid * Earned /\ Parts = PaidLevels * Earned
      BY <1>8, <2>2 DEF Parts
    <3> HIDE DEF total
    <3>2. (paid * Earned) * PaidLevels = paid * (PaidLevels * Earned)
      BY <1>3, <1>4
    <3>3. paid * Earned <= PaidLevels * Earned
      BY <1>3, <1>4
    <3> QED BY <3>1, <3>2, <3>3, <1>3, <1>4
  <2> QED BY <2>1, <2>2
<1> HIDE DEF e, c, total
<1>11. /\ shares' \in [1..NumUids -> Nat] /\ shares' \in [1..NumUids -> Int]
       /\ shares'[BurnUid] = Parts - total
       /\ \A u \in 1..NumUids : u # BurnUid => shares'[u] = Assigned[u]
  <2>1. Sum1(Assigned) = total /\ Parts - total \in Nat
    BY <1>8, <1>10, <1>4 DEF Sum1, total
  <2> QED BY <2>1, <1>2, <1>3, <1>7
<1>12. SumTo(shares', NumUids) = Parts
  <2>1. SumTo(shares', NumUids) = SumTo(Assigned, NumUids) + shares'[BurnUid] - Assigned[BurnUid]
    BY <1>3, <1>7, <1>11, SumOfOneChange
  <2>2. SumTo(Assigned, NumUids) = total
    BY DEF total
  <2>3. SumTo(shares', NumUids) = total + (Parts - total) - 0
    BY <2>1, <2>2, <1>9, <1>11
  <2>4. \A a, b \in Nat : a + (b - a) - 0 = b
    OBVIOUS
  <2> QED BY <2>3, <2>4, <1>4, <1>8
<1>13. \A u \in out \ {BurnUid} : shares'[u] = 0
  <2> TAKE u \in out \ {BurnUid}
  <2>1. u \in WeightUids /\ u # BurnUid /\ u \notin Ranked1
    BY <1>1 DEF Ranked1
  <2> QED BY <2>1, <1>11 DEF Assigned, ShareOf, WeightUids
<1>14. (Parts - shares'[BurnUid]) * PaidLevels <= paid * Parts
  <2>1. Parts - shares'[BurnUid] = total
    BY <1>11, <1>4, <1>8
  <2> QED BY <2>1, <1>10
<1>15. Parts' = Parts
  BY <1>2 DEF Parts, Earned, Ranked1
<1>16. SharesSet'
  BY <1>2, <1>11, <1>12, <1>13, <1>14, <1>15 DEF SharesSet, WeightUids, Sum1
<1>17. /\ (prev \in [WeightUids -> Nat] /\ Sum1(prev) = Units)'
       /\ (records \in [WeightUids -> Nat])'
       /\ (out \in SUBSET (WeightUids \ {BurnUid}) /\ paid \in 0..PaidLevels)'
  BY <1>1, <1>2
<1>18. (final = Unset \/ (SharesSet /\ final = [u \in WeightUids |->
             Clamp(prev[u] * Parts, shares[u] * Units, Delta * Parts)]))'
  <2>1. CASE final = Unset
    BY <2>1, <1>2 DEF Unset
  <2>2. CASE SharesSet
    <3>1. shares = Unset /\ BurnUid \in WeightUids
      BY <1>2, <1>3
    <3>2. SumTo(shares, NumUids) = 0
      BY <3>1, <1>3, SumOfZeros DEF Unset, WeightUids
    <3>3. SumTo(shares, NumUids) = Parts
      BY <2>2 DEF SharesSet, Sum1
    <3> QED BY <3>2, <3>3, <1>4
  <2> QED BY <2>1, <2>2 DEF WeightsInv
<1> QED BY <1>16, <1>17, <1>18 DEF WeightsInv

(* The step that caps them leaves the capped ones. *)
LEMMA CapStep == WeightsInv /\ CapChange => WeightsInv'
<1> SUFFICES ASSUME WeightsInv, CapChange PROVE WeightsInv'
  OBVIOUS
<1>1. /\ SharesSet /\ UNCHANGED <<prev, records, out, paid, shares>>
      /\ final' = [u \in WeightUids |->
             Clamp(prev[u] * Parts, shares[u] * Units, Delta * Parts)]
  BY DEF WeightsInv, CapChange
<1>2. Parts' = Parts
  BY <1>1 DEF Parts, Earned, Ranked1
<1>3. SharesSet'
  BY <1>1, <1>2 DEF SharesSet
<1> QED BY <1>1, <1>2, <1>3 DEF WeightsInv

(* Each step keeps the invariant. *)
LEMMA WeightsStep == WeightsInv /\ [WeightsNext]_weightsVars => WeightsInv'
<1> SUFFICES ASSUME WeightsInv, [WeightsNext]_weightsVars PROVE WeightsInv'
  OBVIOUS
<1>1. CASE Share
  BY <1>1, ShareStep
<1>2. CASE CapChange
  BY <1>2, CapStep
<1>3. CASE UNCHANGED weightsVars
  BY <1>3 DEF WeightsInv, weightsVars, SharesSet, Parts, Earned, Ranked1
<1> QED BY <1>1, <1>2, <1>3 DEF WeightsNext

-----------------------------------------------------------------------------
(* Where a value may move by d, at least a quarter of all, and one falls from p
   to p - d, the square of what it had covers what is left of it. *)
LEMMA QuarterCovers ==
  ASSUME NEW p \in Nat, NEW d \in Nat, NEW s \in Nat, s <= 4 * d, d <= p
  PROVE  (p - d) * s <= p * p
<1>1. 4 * ((p - d) * s) = ((4 * p) * s) - ((4 * d) * s)
  OBVIOUS
<1>2. (4 * d) * s >= s * s
  OBVIOUS
<1>3. ((2 * p) - s) * ((2 * p) - s) >= 0
  OBVIOUS
<1>4. ((2 * p) - s) * ((2 * p) - s) = (4 * (p * p)) - ((4 * p) * s) + (s * s)
  OBVIOUS
<1>5. 4 * ((p - d) * s) <= 4 * (p * p)
  BY <1>1, <1>2, <1>3, <1>4
<1> QED BY <1>5

(* Who is out falls by no less than its part of what the others fall short of. *)
LEMMA OutFalls ==
  ASSUME NEW p \in Nat, NEW d \in Nat, NEW s \in Nat, NEW P \in Nat, NEW F \in Nat,
         d <= p, P * s <= F \/ (p * P <= F /\ s <= 4 * d)
  PROVE  ((p - d) * P) * s <= p * F
<1>1. CASE P * s <= F
  <2>1. p * (P * s) <= p * F
    BY <1>1
  <2>2. (p - d) * (P * s) <= p * (P * s)
    OBVIOUS
  <2>3. ((p - d) * P) * s = (p - d) * (P * s)
    OBVIOUS
  <2>4. /\ ((p - d) * P) * s \in Int /\ p * (P * s) \in Int /\ p * F \in Int
        /\ (p - d) * (P * s) \in Int
    OBVIOUS
  <2> QED BY <2>1, <2>2, <2>3, <2>4
<1>2. CASE p * P <= F /\ s <= 4 * d
  <2>1. p * (p * P) <= p * F
    BY <1>2
  <2>2. (p - d) * s <= p * p
    BY <1>2, QuarterCovers
  <2>3. ((p - d) * s) * P <= (p * p) * P
    BY <2>2
  <2>4. ((p - d) * P) * s = ((p - d) * s) * P /\ p * (p * P) = (p * p) * P
    OBVIOUS
  <2> QED BY <2>1, <2>3, <2>4
<1> QED BY <1>1, <1>2

(* SharesAddUp holds where the invariant does. *)
LEMMA InvSharesAddUp == WeightsInv => SharesAddUp
BY DEF WeightsInv, SharesAddUp, SharesSet

(* What the cap leaves to who is out: where no rise is cut, the capped weights
   add up to all of it at least; where one is, who rises takes what the other
   lost. *)
LEMMA CapLeaves ==
  ASSUME WeightsInv, final # Unset, NEW u \in out \ {BurnUid}
  PROVE  /\ prev[u] \in Nat /\ Sum1(final) \in Nat /\ Parts \in Nat
         /\ prev[u] <= Delta => final[u] = 0
         /\ ~ (prev[u] <= Delta) =>
              /\ final[u] = (prev[u] - Delta) * Parts
              /\ Parts * Units <= Sum1(final) \/ prev[u] * Parts <= Sum1(final)
<1>1. /\ SharesSet
      /\ final = [v \in WeightUids |->
             Clamp(prev[v] * Parts, shares[v] * Units, Delta * Parts)]
      /\ prev \in [WeightUids -> Nat] /\ u \in WeightUids
  BY DEF WeightsInv
<1>2. Parts \in Nat \ {0}
  BY PartsPositive DEF WeightsInv
<1>3. NumUids \in Nat /\ Units \in Nat /\ Delta \in Nat
  BY WeightsAssumption
<1> DEFINE P == Parts
           o(v) == prev[v] * P
           t == [v \in 1..NumUids |-> Units * shares[v]]
           m == Delta * P
           F == SumTo(final, NumUids)
<1>4. P \in Nat /\ m \in Nat
  BY <1>2, <1>3
<1>5. \A v \in WeightUids : prev[v] \in Nat /\ shares[v] \in Nat
  BY <1>1 DEF SharesSet
<1>6. \A v \in WeightUids : o(v) \in Nat /\ t[v] \in Nat /\ shares[v] * Units = t[v]
  <2> TAKE v \in WeightUids
  <2>1. prev[v] \in Nat /\ shares[v] \in Nat
    BY <1>5
  <2>2. prev[v] * P \in Nat /\ Units * shares[v] \in Nat /\ shares[v] * Units = Units * shares[v]
    BY <2>1, <1>3, <1>4
  <2> QED BY <2>2 DEF WeightUids
<1>7. \A v \in WeightUids : final[v] = Clamp(o(v), t[v], m)
  BY <1>1, <1>6
<1>8. t \in [1..NumUids -> Nat] /\ t \in [1..NumUids -> Int]
  BY <1>6 DEF WeightUids
<1>9. SumTo(t, NumUids) = P * Units
  <2>1. shares \in [1..NumUids -> Int] /\ Units \in Int
        /\ \A n \in 1..NumUids : t[n] = Units * shares[n]
    BY <1>1, <1>3 DEF SharesSet, WeightUids
  <2> HIDE DEF t
  <2>2. SumTo(t, NumUids) = Units * SumTo(shares, NumUids)
    BY <2>1, <1>3, <1>8, SumScaled
  <2>3. SumTo(shares, NumUids) = P
    BY <1>1 DEF SharesSet, Sum1
  <2> QED BY <2>2, <2>3, <1>3, <1>4
<1>10. shares[u] = 0 /\ t[u] = 0
  <2>1. shares[u] = 0
    BY <1>1 DEF SharesSet
  <2> QED BY <2>1, <1>1, <1>3 DEF WeightUids
<1> HIDE DEF t, m
<1>11. \A v \in WeightUids : final[v] \in Nat /\ (final[v] < t[v] => final[v] = o(v) + m)
  <2> TAKE v \in WeightUids
  <2> DEFINE ov == o(v)
  <2>1. ov \in Nat /\ t[v] \in Nat /\ m \in Nat /\ final[v] = Clamp(ov, t[v], m)
    BY <1>4, <1>6, <1>7
  <2> HIDE DEF ov
  <2>2. final[v] \in Nat /\ (final[v] < t[v] => final[v] = ov + m)
    <3>1. CASE t[v] > ov + m
      BY <3>1, <2>1 DEF Clamp
    <3>2. CASE ~ (t[v] > ov + m) /\ t[v] < ov - m
      BY <3>2, <2>1 DEF Clamp
    <3>3. CASE ~ (t[v] > ov + m) /\ ~ (t[v] < ov - m)
      BY <3>3, <2>1 DEF Clamp
    <3> QED BY <3>1, <3>2, <3>3
  <2> QED BY <2>2 DEF ov
<1>12. final \in [1..NumUids -> Nat] /\ final \in [1..NumUids -> Int]
  BY <1>1, <1>11 DEF WeightUids
<1>13. F \in Nat
  BY <1>3, <1>12, SumIsNat
<1>14. Sum1(final) = F
  BY DEF Sum1
<1> HIDE DEF F
<1>15. prev[u] \in Nat /\ o(u) \in Nat /\ final[u] = Clamp(o(u), 0, m)
  BY <1>1, <1>5, <1>6, <1>7, <1>10
<1>16. CASE prev[u] <= Delta
  <2>1. prev[u] * P <= Delta * P
    BY <1>16, <1>15, <1>3, <1>4
  <2>2. o(u) <= m
    BY <2>1 DEF m
  <2>3. final[u] = 0
    BY <2>2, <1>15, <1>4 DEF Clamp
  <2> QED BY <2>3, <1>2, <1>13, <1>14, <1>15, <1>16
<1>17. CASE ~ (prev[u] <= Delta)
  <2> DEFINE p == prev[u]
  <2>1. p \in Nat /\ Delta <= p /\ (p * P) - (Delta * P) = (p - Delta) * P /\ p * P > Delta * P
    <3>1. p \in Nat /\ Delta \in Nat /\ Delta < p /\ P \in Nat /\ P > 0
      BY <1>17, <1>15, <1>2, <1>3, <1>4
    <3> DEFINE k == p - Delta
    <3>2. k \in Nat /\ k > 0 /\ p = Delta + k
      BY ONLY <3>1
    <3> HIDE DEF p, k
    <3>3. p * P = Delta * P + k * P /\ Delta * P \in Nat /\ k * P \in Nat
      BY ONLY <3>1, <3>2
    <3>4. k * P > 0
      BY ONLY <3>1, <3>2
    <3>5. p * P > Delta * P /\ (p * P) - (Delta * P) = k * P
      BY ONLY <3>3, <3>4
    <3> QED BY <3>1, <3>5 DEF k
  <2>2. final[u] = (p - Delta) * P
    <3>1. o(u) - m > 0 /\ o(u) - m = (p - Delta) * P
      BY <2>1, <1>15, <1>4 DEF m
    <3> HIDE DEF p
    <3> QED BY <3>1, <1>15, <1>4 DEF Clamp
  <2>3. P * Units <= F \/ p * P <= F
    <3>1. CASE \A v \in 1..NumUids : t[v] <= final[v]
      <4>1. SumTo(t, NumUids) <= SumTo(final, NumUids)
        BY <3>1, <1>3, <1>8, <1>12, SumsInOrder
      <4> QED BY <4>1, <1>9 DEF F
    <3>2. CASE ~ \A v \in 1..NumUids : t[v] <= final[v]
      <4>1. PICK v \in 1..NumUids : ~ (t[v] <= final[v])
        BY <3>2
      <4>2. v \in WeightUids /\ t[v] \in Nat /\ final[v] \in Nat /\ o(v) \in Nat
        BY <1>6, <1>11 DEF WeightUids
      <4>3. final[v] = o(v) + m
        BY <4>1, <4>2, <1>11
      <4>4. v # u
        BY <4>1, <4>2, <1>10
      <4>5. final[u] + final[v] <= F
        BY <4>4, <1>1, <1>3, <1>12, TwoOfTheSum DEF F, WeightUids
      <4>6. final[u] + m = p * P
        BY <2>1, <2>2, <1>3, <1>4 DEF m
      <4> DEFINE ov == o(v)
                 pP == p * P
      <4>7. ov \in Nat /\ final[v] = ov + m /\ final[u] + m = pP /\ final[u] \in Nat
        BY <4>2, <4>3, <4>6, <1>1, <1>11
      <4> HIDE DEF ov, pP
      <4>8. pP <= F
        BY <4>5, <4>7, <1>4, <1>13
      <4> QED BY <4>8, <1>3 DEF pP
    <3> QED BY <3>1, <3>2
  <2> QED BY <2>2, <2>3, <1>2, <1>13, <1>14, <1>15, <1>17
<1> QED BY <1>16, <1>17

(* OutNeverRises holds where the invariant does. *)
LEMMA InvOutNeverRises == WeightsInv => OutNeverRises
<1> SUFFICES ASSUME WeightsInv, final # Unset, 4 * Delta >= Units,
                    NEW u \in out \ {BurnUid}
             PROVE  Change(u) <= 0
  BY DEF OutNeverRises
<1> DEFINE P == Parts
           F == Sum1(final)
           p == prev[u]
<1>1. p \in Nat /\ F \in Nat /\ P \in Nat /\ Units \in Nat /\ Delta \in Nat
      /\ Units <= 4 * Delta
  BY CapLeaves, WeightsAssumption
<1>2. Change(u) = (final[u] * Units) - (p * F)
  BY DEF Change
<1>3. CASE prev[u] <= Delta
  <2>1. final[u] = 0
    BY <1>3, CapLeaves
  <2>2. 0 * Units = 0 /\ p * F \in Nat
    BY <1>1
  <2> QED BY <2>1, <2>2, <1>2
<1>4. CASE ~ (prev[u] <= Delta)
  <2>1. /\ final[u] = (p - Delta) * P
        /\ P * Units <= F \/ (p * P <= F /\ Units <= 4 * Delta)
        /\ Delta <= p
    BY <1>4, <1>1, CapLeaves
  <2> HIDE DEF p, P, F
  <2>2. ((p - Delta) * P) * Units <= p * F
    BY <2>1, <1>1, OutFalls
  <2>3. ((p - Delta) * P) * Units \in Int /\ p * F \in Int
    BY <1>1
  <2> QED BY <2>1, <2>2, <2>3, <1>2
<1> QED BY <1>3, <1>4

(* And OutFallsByCap: a part of the weight is at most all of it. *)
LEMMA InvOutFallsByCap == WeightsInv => OutFallsByCap
<1> SUFFICES ASSUME WeightsInv, final # Unset, NEW u \in out \ {BurnUid},
                    ~ (prev[u] <= Delta)
             PROVE  final[u] * prev[u] <= (prev[u] - Delta) * Sum1(final)
  BY CapLeaves DEF OutFallsByCap
<1> DEFINE P == Parts
           F == Sum1(final)
           p == prev[u]
           k == p - Delta
<1>1. /\ p \in Nat /\ F \in Nat /\ P \in Nat /\ k \in Nat
      /\ final[u] = k * P /\ Units \in Nat
      /\ P * Units <= F \/ p * P <= F
  BY CapLeaves, WeightsAssumption
<1>2. p <= Units
  <2>1. prev \in [1..NumUids -> Nat] /\ u \in 1..NumUids /\ NumUids \in Nat
        /\ SumTo(prev, NumUids) = Units
    BY WeightsAssumption DEF WeightsInv, WeightUids, Sum1
  <2> QED BY <2>1, TermBelowSum
<1> HIDE DEF P, F, p, k
<1>3. p * P <= F
  <2>1. CASE P * Units <= F
    <3>1. p * P <= Units * P /\ Units * P = P * Units /\ p * P \in Nat /\ P * Units \in Nat
      BY <1>1, <1>2
    <3> QED BY <3>1, <2>1, <1>1
  <2> QED BY <2>1, <1>1
<1>4. k * (p * P) <= k * F /\ (k * P) * p = k * (p * P)
  BY <1>1, <1>3
<1> QED BY <1>1, <1>4 DEF F, p, k

(* For any scores, disqualifications, confidence and weights before: every share
   is assigned, nobody is paid who is out, the miners together get the
   confidence at most, while the cap is a quarter or more no UID that is out
   has more after the renormalization than before, and under any cap it keeps
   at most the part of its weight that is above it. *)
THEOREM WeightsAlwaysSafe == WeightsSpec => []WeightsSafety
<1>1. WeightsInv => WeightsSafety
  BY InvSharesAddUp, InvOutNeverRises, InvOutFallsByCap DEF WeightsSafety
<1> QED BY WeightsInitially, WeightsStep, <1>1, PTL DEF WeightsSpec

(***************************************************************************)
(* Assignment                                                              *)
(***************************************************************************)

-----------------------------------------------------------------------------
(* Round-robin, over limits that do not change in a pass. *)
OpenTo(q, lim) == {b \in Benches : q[b] < lim[b]}

(* Of those with room, one that had its turn in this cycle is behind nobody,
   and before each that is still to have it; the others are one slot behind at
   most. *)
TakesTurns(q, lim, l) ==
  \A a \in OpenTo(q, lim), b \in Benches :
    /\ q[b] <= q[a] + (IF b <= l /\ l < a THEN 1 ELSE 0)
    /\ b \in OpenTo(q, lim) /\ a <= l /\ l < b => q[b] + 1 <= q[a]

(* Whose turn it is. *)
NextAfter(q, lim, l, k) ==
  /\ k \in OpenTo(q, lim)
  /\ \/ k > l /\ \A b \in OpenTo(q, lim) : b > l => k <= b
     \/ /\ \A b \in OpenTo(q, lim) : ~ (b > l)
        /\ \A b \in OpenTo(q, lim) : k <= b

(* A slot given in turn leaves everybody in turn. *)
LEMMA TurnsKept ==
  ASSUME NEW q \in [Benches -> Nat], NEW lim \in [Benches -> Nat], NEW l \in Nat,
         TakesTurns(q, lim, l), NEW k, NextAfter(q, lim, l, k)
  PROVE  TakesTurns([q EXCEPT ![k] = @ + 1], lim, k)
<1> DEFINE p == [q EXCEPT ![k] = @ + 1]
<1>1. k \in Benches /\ k \in OpenTo(q, lim) /\ \A b \in Benches : b \in Nat
  BY DEF NextAfter, OpenTo, Benches
<1>2. /\ p \in [Benches -> Nat] /\ p[k] = q[k] + 1
      /\ \A b \in Benches : b # k => p[b] = q[b]
  BY <1>1
<1>3. \A b \in Benches : q[b] \in Nat /\ p[b] \in Nat /\ lim[b] \in Nat
  BY <1>2
<1> HIDE DEF p
<1>4. \A b \in OpenTo(p, lim) : b \in OpenTo(q, lim) /\ b \in Benches
  <2> TAKE b \in OpenTo(p, lim)
  <2>1. b \in Benches /\ p[b] < lim[b] /\ q[b] <= p[b]
    BY <1>2, <1>3 DEF OpenTo
  <2> QED BY <2>1, <1>3 DEF OpenTo
<1>5. \A a \in OpenTo(q, lim), b \in Benches :
        /\ q[b] <= q[a] + (IF b <= l /\ l < a THEN 1 ELSE 0)
        /\ b \in OpenTo(q, lim) /\ a <= l /\ l < b => q[b] + 1 <= q[a]
  BY DEF TakesTurns
<1>6. \/ k > l /\ \A b \in OpenTo(q, lim) : b > l => k <= b
      \/ /\ \A b \in OpenTo(q, lim) : ~ (b > l)
         /\ \A b \in OpenTo(q, lim) : k <= b
  BY DEF NextAfter
<1>7. ASSUME NEW a \in OpenTo(p, lim), NEW b \in Benches
      PROVE  p[b] <= p[a] + (IF b <= k /\ k < a THEN 1 ELSE 0)
  <2>1. a \in OpenTo(q, lim) /\ a \in Benches /\ a \in Nat /\ b \in Nat /\ k \in Nat
    BY <1>1, <1>4
  <2>2. p[a] \in Nat /\ p[b] \in Nat /\ q[a] \in Nat /\ q[b] \in Nat /\ q[k] \in Nat
    BY <1>1, <1>3, <2>1
  <2>3. CASE a = k /\ b = k
    BY <2>1, <2>2, <2>3
  <2>4. CASE a = k /\ b # k
    <3>1. q[b] <= q[k] + 1
      BY <1>1, <1>5, <2>1, <2>2
    <3> QED BY <3>1, <1>2, <2>1, <2>2, <2>4
  <2>5. CASE a # k /\ b = k
    <3>0. p[a] = q[a] /\ p[b] = q[k] + 1
      BY <2>5, <2>1, <1>2
    <3>1. CASE a > k
      <4>1. q[k] <= q[a] + (IF k <= l /\ l < a THEN 1 ELSE 0)
        BY <1>1, <1>5, <2>1
      <4>2. ~ (k <= l /\ l < a)
        BY <1>6, <2>1
      <4> QED BY <3>0, <3>1, <4>1, <4>2, <2>1, <2>2, <2>5
    <3>2. CASE a < k
      <4>1. k > l /\ ~ (a > l)
        BY <1>6, <2>1, <3>2
      <4>2. q[k] + 1 <= q[a]
        BY <4>1, <1>1, <1>5, <2>1
      <4> QED BY <3>0, <4>2, <2>1, <2>2, <3>2, <2>5
    <3> QED BY <3>1, <3>2, <2>1, <2>5
  <2>6. CASE a # k /\ b # k
    <3>0. p[a] = q[a] /\ p[b] = q[b]
      BY <2>6, <2>1, <1>2
    <3>1. q[b] <= q[a] + (IF b <= l /\ l < a THEN 1 ELSE 0)
      BY <1>5, <2>1
    <3>2. b <= l /\ l < a => b <= k /\ k < a
      BY <1>6, <2>1, <2>6
    <3> QED BY <3>0, <3>1, <3>2, <2>1, <2>2
  <2> QED BY <2>3, <2>4, <2>5, <2>6
<1>8. ASSUME NEW a \in OpenTo(p, lim), NEW b \in OpenTo(p, lim), a <= k, k < b
      PROVE  p[b] + 1 <= p[a]
  <2>1. /\ a \in OpenTo(q, lim) /\ a \in Nat /\ b \in OpenTo(q, lim) /\ b \in Nat /\ k \in Nat
        /\ a \in Benches /\ b \in Benches
    BY <1>1, <1>4
  <2>2. p[a] \in Nat /\ p[b] \in Nat /\ q[a] \in Nat /\ q[b] \in Nat /\ q[k] \in Nat
    BY <1>1, <1>3, <2>1
  <2>3. b # k /\ p[b] = q[b]
    BY <1>8, <2>1, <1>2
  <2>4. CASE a = k
    <3>1. q[b] <= q[k] + (IF b <= l /\ l < k THEN 1 ELSE 0)
      BY <1>1, <1>5, <2>1
    <3>2. ~ (b <= l /\ l < k)
      BY <1>8, <2>1
    <3> QED BY <3>1, <3>2, <2>2, <2>3, <2>4, <1>2, <1>1
  <2>5. CASE a # k
    <3>1. a < k
      BY <2>5, <1>8, <2>1
    <3>2. k > l /\ ~ (a > l)
      BY <1>6, <2>1, <3>1
    <3>3. a <= l /\ l < b
      BY <3>2, <2>1, <1>8
    <3>4. q[b] + 1 <= q[a]
      BY <3>3, <1>5, <2>1
    <3>5. p[a] = q[a]
      BY <2>5, <2>1, <1>2
    <3> QED BY <3>4, <3>5, <2>3
  <2> QED BY <2>4, <2>5
<1> QED BY <1>7, <1>8 DEF TakesTurns, p

(* Nobody has had a slot: nobody is behind. *)
LEMMA TurnsBegin ==
  ASSUME NEW q \in [Benches -> Nat], NEW lim \in [Benches -> Nat], \A b \in Benches : q[b] = 0
  PROVE  TakesTurns(q, lim, 0)
<1>1. \A b \in Benches : b \in Nat /\ ~ (b <= 0)
  BY DEF Benches
<1>2. \A a \in OpenTo(q, lim) : a \in Benches
  BY DEF OpenTo
<1> QED BY <1>1, <1>2 DEF TakesTurns

-----------------------------------------------------------------------------
(* One slot more of one benchmark. *)
LEMMA OneSlotMore ==
  ASSUME NEW q \in [Benches -> Nat], NEW k \in Benches
  PROVE  /\ Total([q EXCEPT ![k] = @ + 1]) = Total(q) + 1
         /\ Total(q) \in Nat
<1> DEFINE p == [q EXCEPT ![k] = @ + 1]
           N == NumBenches
<1>1. N \in Nat
  BY AssignmentAssumption
<1>2. /\ q \in [1..N -> Nat] /\ q \in [1..N -> Int] /\ p \in [1..N -> Int] /\ k \in 1..N
      /\ p[k] = q[k] + 1 /\ q[k] \in Nat /\ \A n \in 1..N : n # k => p[n] = q[n]
  BY DEF Benches
<1> HIDE DEF p, N
<1>3. SumTo(p, N) = SumTo(q, N) + p[k] - q[k]
  BY <1>1, <1>2, SumOfOneChange
<1>4. SumTo(q, N) \in Nat
  BY <1>1, <1>2, SumIsNat
<1> DEFINE s == SumTo(q, N)
           t == SumTo(p, N)
           x == q[k]
<1>5. t = s + (x + 1) - x /\ s \in Nat /\ x \in Nat
  BY <1>2, <1>3, <1>4
<1> HIDE DEF s, t, x
<1>6. t = s + 1
  BY <1>5
<1> QED BY <1>4, <1>6 DEF Total, p, N, s, t

(* What a cap and rounding may leave over: a share of the size, rounded down,
   in T-ths. *)
LEMMA RoundedShare ==
  ASSUME NEW w \in Nat, NEW x \in Nat, NEW t \in Nat \ {0}, NEW fn \in Nat, NEW fd \in Nat \ {0},
         fn >= fd, NEW c \in Nat, c >= ((fn * w) * x) \div (fd * t)
  PROVE  w * x <= (t * c) + t
<1> DEFINE y == w * x
           a == fn * y
           d == fd * t
           m == a \div d
<1>1. y \in Nat /\ a \in Nat /\ d \in Nat \ {0} /\ (fn * w) * x = a
  BY SMT
<1>2. c >= m
  BY <1>1
<1> HIDE DEF y
<1>3. fd * y <= fn * y
  BY <1>1
<1> HIDE DEF a, d
<1>4. m \in Nat /\ a < (d * m) + d
  BY <1>1
<1> HIDE DEF m
<1>5. d * m <= d * c
  BY <1>1, <1>2, <1>4
<1>6. fd * y <= (d * c) + d
  <2>1. d * m \in Nat /\ d * c \in Nat /\ fd * y \in Nat /\ fn * y = a
    BY <1>1, <1>4 DEF a
  <2> QED BY <2>1, <1>1, <1>3, <1>4, <1>5
<1>7. fd * y <= fd * ((t * c) + t)
  <2>1. (d * c) + d = fd * ((t * c) + t)
    BY DEF d
  <2> QED BY <2>1, <1>6
<1> DEFINE z == (t * c) + t
<1>8. z \in Nat
  OBVIOUS
<1>9. fd * y <= fd * z
  BY <1>7
<1> HIDE DEF z
<1>10. y <= z
  <2>1. SUFFICES ASSUME y >= z + 1 PROVE FALSE
    BY <1>1, <1>8
  <2>2. fd * y >= fd * (z + 1)
    BY <2>1, <1>1, <1>8
  <2>3. fd * (z + 1) = (fd * z) + fd
    BY <1>8
  <2> QED BY <2>2, <2>3, <1>1, <1>8, <1>9
<1> QED BY <1>10 DEF y, z

(* When everybody is at a cap that is no lower than its share, what is left
   of the size is no more than those that still have questions. *)
LEMMA LeftOverIsRounding ==
  ASSUME NEW left \in [Benches -> Nat], NEW q \in [Benches -> Nat], NEW w \in Nat,
         w <= Total(left), \A b \in Benches : q[b] <= left[b],
         \A b \in OpenTo(q, left) : w * left[b] <= (Total(left) * q[b]) + Total(left)
  PROVE  /\ w - Total(q) <= Cardinality(OpenTo(q, left))
         /\ IsFiniteSet(OpenTo(q, left))
<1> DEFINE N == NumBenches
           t == Total(left)
           S == OpenTo(q, left)
           in == [b \in 1..N |-> IF b \in S THEN 1 ELSE 0]
           f == [b \in 1..N |-> w * left[b]]
           h == [b \in 1..N |-> q[b] + in[b]]
           g == [b \in 1..N |-> t * h[b]]
<1>1. N \in Nat /\ Benches = 1..N
  BY AssignmentAssumption DEF Benches
<1>2. left \in [1..N -> Nat] /\ left \in [1..N -> Int] /\ q \in [1..N -> Nat] /\ q \in [1..N -> Int]
      /\ S \in SUBSET (1..N)
  BY DEF Benches, OpenTo
<1>3. in \in [1..N -> Int] /\ (\A b \in 1..N : in[b] = IF b \in S THEN 1 ELSE 0)
      /\ in \in [1..N -> Nat]
  OBVIOUS
<1> HIDE DEF in, N
<1>4. t \in Nat /\ Total(q) \in Nat
  BY <1>1, <1>2, SumIsNat DEF Total, N
<1>5. SumTo(in, N) = Cardinality(S) /\ IsFiniteSet(S) /\ SumTo(in, N) \in Nat
  BY <1>1, <1>2, <1>3, SumOfMembers, SumIsNat
<1> HIDE DEF t, S
<1>6. f \in [1..N -> Int] /\ (\A b \in 1..N : f[b] = w * left[b])
  <2>1. \A b \in 1..N : w * left[b] \in Int
    BY <1>2
  <2> QED BY <2>1
<1>7. h \in [1..N -> Int] /\ (\A b \in 1..N : h[b] = q[b] + in[b] /\ h[b] \in Nat)
  BY <1>2, <1>3
<1> HIDE DEF h, f
<1>8. g \in [1..N -> Int] /\ (\A b \in 1..N : g[b] = t * h[b])
  <2>1. \A b \in 1..N : t * h[b] \in Int
    BY <1>4, <1>7
  <2> QED BY <2>1
<1> HIDE DEF g
<1>9. \A b \in 1..N : f[b] <= g[b]
  <2> TAKE b \in 1..N
  <2>1. left[b] \in Nat /\ q[b] \in Nat /\ q[b] <= left[b] /\ in[b] = IF b \in S THEN 1 ELSE 0
    BY <1>1, <1>2, <1>3
  <2>2. CASE b \in S
    <3>1. w * left[b] <= (t * q[b]) + t
      BY <2>2 DEF t, S
    <3>2. h[b] = q[b] + 1
      BY <2>1, <2>2, <1>7
    <3>3. t * (q[b] + 1) = (t * q[b]) + t
      BY <2>1, <1>4
    <3> QED BY <3>1, <3>2, <3>3, <1>6, <1>8
  <2>3. CASE b \notin S
    <3>1. q[b] = left[b]
      <4>1. ~ (q[b] < left[b])
        BY <2>3, <1>1 DEF S, OpenTo
      <4> QED BY <4>1, <2>1
    <3>2. h[b] = left[b]
      BY <2>1, <2>3, <3>1, <1>7
    <3>3. w * left[b] <= t * left[b]
      <4>1. w <= t
        BY DEF t
      <4> QED BY <4>1, <2>1, <1>4
    <3> QED BY <3>2, <3>3, <1>6, <1>8
  <2> QED BY <2>2, <2>3
<1>10. SumTo(f, N) <= SumTo(g, N)
  BY <1>1, <1>6, <1>8, <1>9, SumsInOrder
<1>a. N \in Nat /\ w \in Int /\ t \in Int
  BY <1>1, <1>4
<1>b. left \in [1..N -> Int] /\ q \in [1..N -> Int]
  BY <1>2
<1>11. SumTo(f, N) = w * t
  <2>1. SumTo(f, N) = w * SumTo(left, N)
    BY ONLY <1>a, <1>b, <1>6, SumScaled
  <2> QED BY <2>1 DEF t, Total, N
<1>12. SumTo(g, N) = t * SumTo(h, N)
  <2>1. h \in [1..N -> Int]
    BY <1>7
  <2> QED BY ONLY <1>a, <2>1, <1>8, SumScaled
<1>13. SumTo(h, N) = Total(q) + Cardinality(S)
  <2>1. SumTo(h, N) = SumTo(q, N) + SumTo(in, N)
    <3>1. h \in [1..N -> Int] /\ (\A b \in 1..N : h[b] = q[b] + in[b])
      BY <1>7
    <3>2. in \in [1..N -> Int]
      BY <1>3
    <3> QED BY ONLY <1>a, <1>b, <3>1, <3>2, SumOfTwo
  <2> QED BY <2>1, <1>5 DEF Total, N
<1> DEFINE tq == Total(q)
           c == Cardinality(S)
<1>14. w * t <= t * (tq + c) /\ tq \in Nat /\ c \in Nat /\ t \in Nat /\ (t = 0 => w = 0)
  <2>1. w <= t
    BY DEF t
  <2> QED BY <2>1, <1>4, <1>5, <1>10, <1>11, <1>12, <1>13
<1> HIDE DEF tq, c
<1>15. w <= tq + c
  <2>1. CASE t = 0
    BY <2>1, <1>14
  <2>2. CASE t # 0
    <3>1. SUFFICES ASSUME w >= (tq + c) + 1 PROVE FALSE
      BY <1>14
    <3> DEFINE r == tq + c
    <3>2. r \in Nat /\ w * t <= t * r /\ w >= r + 1
      BY <1>14, <3>1
    <3> HIDE DEF r
    <3>3. w * t >= (r + 1) * t
      BY <3>2, <1>14
    <3>4. (r + 1) * t = (t * r) + t
      BY <3>2, <1>14
    <3> QED BY <3>2, <3>3, <3>4, <2>2, <1>14
  <2> QED BY <2>1, <2>2
<1>16. w - tq <= c
  BY <1>14, <1>15
<1> QED BY <1>5, <1>16 DEF tq, c, S

-----------------------------------------------------------------------------
(* The numbers below t, by their rest: what each of n models is asked. *)
Rests(t, n) == [m \in 1..n |-> Cardinality({i \in 0..t - 1 : i % n = m - 1})]

(* They are as many as they are together. *)
LEMMA RestsAddUp ==
  ASSUME NEW n \in Nat \ {0}, NEW t \in Nat
  PROVE  SumTo(Rests(t, n), n) = t
<1> DEFINE of(s, m) == {i \in 0..s - 1 : i % n = m - 1}
           Good(s) == Rests(s, n) \in [1..n -> Nat] /\ SumTo(Rests(s, n), n) = s
           All == {s \in 0..t : Good(s)}
<1>1. \A s \in Nat, m \in 1..n : IsFiniteSet(of(s, m)) /\ Rests(s, n)[m] = Cardinality(of(s, m))
  <2> TAKE s \in Nat, m \in 1..n
  <2>1. of(s, m) \in SUBSET (0..s - 1) /\ 0 \in Int /\ s - 1 \in Int
    OBVIOUS
  <2>2. IsFiniteSet(0..s - 1)
    BY <2>1, FS_Interval
  <2>3. Rests(s, n)[m] = Cardinality(of(s, m))
    BY DEF Rests
  <2> HIDE DEF of
  <2> QED BY <2>1, <2>2, <2>3, FS_Subset
<1>2. \A s \in Nat : Rests(s, n) \in [1..n -> Nat]
  <2> TAKE s \in Nat
  <2>1. \A m \in 1..n : Cardinality(of(s, m)) \in Nat
    <3> HIDE DEF of
    <3> QED BY <1>1, FS_CardinalityType
  <2> QED BY <2>1 DEF Rests
<1>3. Good(0)
  <2>1. \A m \in 1..n : Rests(0, n)[m] = 0
    <3> TAKE m \in 1..n
    <3>1. of(0, m) = {}
      OBVIOUS
    <3>2. Rests(0, n)[m] = Cardinality(of(0, m))
      BY <1>1
    <3> HIDE DEF of
    <3> QED BY <3>1, <3>2, FS_EmptySet
  <2>2. Rests(0, n) \in [1..n -> Int] /\ n \in Nat
    BY <1>2
  <2>3. SumTo(Rests(0, n), n) = 0
    BY <2>1, <2>2, SumOfZeros
  <2> QED BY <2>3, <1>2
<1>4. ASSUME NEW s \in 1..t, Good(s - 1) PROVE Good(s)
  <2> DEFINE r == s - 1
             k == (r % n) + 1
  <2>1. r \in Nat /\ s = r + 1 /\ k \in 1..n /\ k - 1 = r % n /\ s \in Nat
    BY <1>4
  <2>2. ASSUME NEW m \in 1..n, m # k PROVE Rests(s, n)[m] = Rests(r, n)[m]
    <3>1. of(s, m) = of(r, m)
      <4>1. \A i \in 0..s - 1 : i \in 0..r - 1 \/ i = r
        BY <2>1
      <4>2. r % n # m - 1
        BY <2>1, <2>2
      <4>3. \A i \in 0..r - 1 : i \in 0..s - 1
        BY <2>1
      <4> QED BY <4>1, <4>2, <4>3
    <3> HIDE DEF of
    <3> QED BY <3>1, <1>1, <2>1
  <2>3. Rests(s, n)[k] = Rests(r, n)[k] + 1
    <3>1. of(s, k) = of(r, k) \cup {r} /\ r \notin of(r, k)
      <4>1. \A i \in 0..s - 1 : i \in 0..r - 1 \/ i = r
        BY <2>1
      <4>2. r % n = k - 1 /\ r \in 0..s - 1 /\ r \notin 0..r - 1
        BY <2>1
      <4>3. \A i \in 0..r - 1 : i \in 0..s - 1
        BY <2>1
      <4> HIDE DEF k, r
      <4> QED BY <4>1, <4>2, <4>3
    <3>2. Rests(s, n)[k] = Cardinality(of(s, k)) /\ Rests(r, n)[k] = Cardinality(of(r, k))
          /\ IsFiniteSet(of(r, k))
      BY <1>1, <2>1
    <3> HIDE DEF of, k, r
    <3> QED BY <3>1, <3>2, FS_AddElement
  <2>4. Rests(s, n) \in [1..n -> Nat] /\ Rests(r, n) \in [1..n -> Nat]
    BY <1>2, <2>1
  <2>5. SumTo(Rests(r, n), n) = r
    BY <1>4
  <2> HIDE DEF k, r
  <2> DEFINE x == Rests(s, n)
             y == Rests(r, n)
  <2>6. x \in [1..n -> Int] /\ y \in [1..n -> Int] /\ n \in Nat /\ y[k] \in Nat
        /\ x[k] = y[k] + 1 /\ \A m \in 1..n : m # k => x[m] = y[m]
    BY <2>1, <2>2, <2>3, <2>4
  <2>7. SumTo(y, n) = r
    BY <2>5
  <2> HIDE DEF x, y
  <2>8. SumTo(x, n) = SumTo(y, n) + x[k] - y[k]
    BY <2>1, <2>6, SumOfOneChange
  <2>9. SumTo(x, n) = r + (y[k] + 1) - y[k]
    BY <2>6, <2>7, <2>8
  <2> DEFINE z == y[k]
  <2>10. z \in Nat /\ SumTo(x, n) = r + (z + 1) - z
    BY <2>6, <2>9
  <2> HIDE DEF z
  <2>11. SumTo(x, n) = s
    BY <2>1, <2>10
  <2> QED BY <2>4, <2>11 DEF x
<1> HIDE DEF Good
<1>5. Good(t)
  <2>1. 0 \in All /\ \A m \in 1..t : m - 1 \in All => m \in All
    BY <1>3, <1>4
  <2> HIDE DEF All
  <2>2. \A m \in 0..t : m \in All
    BY <2>1, CountingUp
  <2> QED BY <2>2 DEF All
<1> QED BY <1>5 DEF Good

-----------------------------------------------------------------------------
(* What the variables may be. *)
AssignTypes ==
  /\ pool \in [Benches -> Nat] /\ size \in [Rounds -> Nat]
  /\ round \in {"scored", "explored", "assigned"}
  /\ limited \in BOOLEAN
  /\ last \in 0..NumBenches
  /\ quotas \in [Rounds -> [Benches -> Nat]]

(* A slot is given of what is left, and never more than was asked for. *)
Within ==
  /\ \A r \in Opened, b \in Benches : quotas[r][b] <= Left(r)[b]
  /\ \A r \in Opened : Total(quotas[r]) <= Wanted(r)
  /\ round = "scored" => \A b \in Benches : quotas.explored[b] = 0

(* A round that is over is full. *)
Filled ==
  /\ round # "scored" => Total(quotas.scored) = Wanted("scored")
  /\ round = "assigned" => /\ Total(quotas.explored) = Wanted("explored")
                           /\ SumTo(explored, NumModels) = Wanted("explored")

(* The limits of a first pass. *)
LimitsOf(r) == [b \in Benches |-> Least(CapOf(r, b), Left(r)[b])]

(* In the first pass the caps hold and slots are given in turn. *)
FirstPass ==
  round \in Rounds /\ limited =>
    /\ \A b \in Benches : quotas[round][b] <= LimitsOf(round)[b]
    /\ TakesTurns(quotas[round], LimitsOf(round), last)

(* In the second what remains is rounding: no cycle is completed. *)
SecondPass ==
  FactorNum >= FactorDen =>
    /\ \A r \in Opened, b \in Benches : quotas[r][b] <= CapOf(r, b) + 1
    /\ round \in Rounds /\ ~limited =>
         /\ Remaining <= Cardinality({b \in Open : b > last})
         /\ \A b \in Benches : b > last => quotas[round][b] <= CapOf(round, b)

(* The inductive invariant. *)
AssignInv == AssignTypes /\ Within /\ Filled /\ FirstPass /\ SecondPass

-----------------------------------------------------------------------------
(* What a state of the right types has of numbers. *)
LEMMA Numbers ==
  ASSUME AssignTypes, Within, NEW r \in Opened
  PROVE  /\ Left(r) \in [Benches -> Nat] /\ Total(Left(r)) \in Nat
         /\ Wanted(r) \in Nat /\ Wanted(r) <= Total(Left(r)) /\ r \in Rounds
         /\ quotas[r] \in [Benches -> Nat] /\ Total(quotas[r]) \in Nat
<1>1. NumBenches \in Nat /\ r \in Rounds
  BY AssignmentAssumption DEF Opened, Rounds
<1>2. quotas[r] \in [Benches -> Nat] /\ quotas["scored"] \in [Benches -> Nat] /\ pool \in [Benches -> Nat]
      /\ size[r] \in Nat
  BY <1>1 DEF AssignTypes, Rounds
<1>3. Left(r) \in [Benches -> Nat]
  <2>1. CASE r = "scored"
    BY <1>2, <2>1 DEF Left
  <2>2. CASE r # "scored"
    <3>1. "scored" \in Opened
      BY DEF Opened, Rounds
    <3>2. \A b \in Benches : quotas["scored"][b] <= pool[b]
      BY <3>1 DEF Within, Left
    <3>3. \A b \in Benches : pool[b] - quotas["scored"][b] \in Nat
      BY <1>2, <3>2
    <3> QED BY <2>2, <3>3 DEF Left
  <2> QED BY <2>1, <2>2
<1>4. Total(Left(r)) \in Nat /\ Total(quotas[r]) \in Nat
  BY <1>1, <1>2, <1>3, SumIsNat DEF Total, Benches
<1>5. Wanted(r) \in Nat /\ Wanted(r) <= Total(Left(r))
  BY <1>2, <1>4 DEF Wanted, Least
<1> QED BY <1>1, <1>2, <1>3, <1>4, <1>5

(* A cap, and that it is no lower than a share. *)
LEMMA Caps ==
  ASSUME AssignTypes, Within, NEW r \in Opened, NEW b \in Benches
  PROVE  /\ CapOf(r, b) \in Nat
         /\ FactorNum >= FactorDen =>
              Wanted(r) * Left(r)[b] <= (Total(Left(r)) * CapOf(r, b)) + Total(Left(r))
<1> DEFINE t == Total(Left(r))
           w == Wanted(r)
           x == Left(r)[b]
           s == ((FactorNum * w) * x) \div (FactorDen * t)
           c == CapOf(r, b)
<1>1. t \in Nat /\ w \in Nat /\ w <= t /\ x \in Nat
  BY Numbers
<1>2. FactorNum \in Nat /\ FactorDen \in Nat \ {0}
  BY AssignmentAssumption
<1>3. c = IF t = 0 THEN 1 ELSE IF s = 0 THEN 1 ELSE s
  BY DEF CapOf, AtLeastOne
<1> HIDE DEF t, w, x, c
<1>4. CASE t = 0
  <2>1. w = 0 /\ c = 1
    BY <1>1, <1>3, <1>4
  <2> QED BY <2>1, <1>1, <1>4 DEF t, w, x, c
<1>5. CASE t # 0
  <2>1. (FactorNum * w) * x \in Nat /\ FactorDen * t \in Nat /\ FactorDen * t # 0
    BY <1>1, <1>2, <1>5
  <2>2. s \in Nat
    BY <2>1
  <2> HIDE DEF s
  <2>3. c \in Nat /\ c >= s
    BY <1>3, <1>5, <2>2
  <2>4. FactorNum >= FactorDen => w * x <= (t * c) + t
    <3> SUFFICES ASSUME FactorNum >= FactorDen PROVE w * x <= (t * c) + t
      OBVIOUS
    <3> QED BY <1>1, <1>2, <1>5, <2>3, RoundedShare DEF s
  <2> QED BY <2>3, <2>4 DEF t, w, x, c
<1> QED BY <1>4, <1>5

(* What a limit is at most. *)
LEMMA Limits ==
  ASSUME AssignTypes, Within, NEW r \in Opened
  PROVE  /\ LimitsOf(r) \in [Benches -> Nat]
         /\ \A b \in Benches : /\ LimitsOf(r)[b] = Least(CapOf(r, b), Left(r)[b])
                               /\ LimitsOf(r)[b] <= CapOf(r, b) /\ LimitsOf(r)[b] <= Left(r)[b]
                               /\ CapOf(r, b) <= LimitsOf(r)[b] \/ Left(r)[b] <= LimitsOf(r)[b]
<1>1. \A b \in Benches : CapOf(r, b) \in Nat /\ Left(r)[b] \in Nat
  BY Caps, Numbers
<1> QED BY <1>1 DEF LimitsOf, Least

(* Who has room. *)
LEMMA WhoIsOpen ==
  ASSUME AssignTypes, Within, round \in Rounds
  PROVE  /\ round \in Opened
         /\ limited => Open = OpenTo(quotas[round], LimitsOf(round))
         /\ ~limited => Open = OpenTo(quotas[round], Left(round))
         /\ \A b \in Open : b \in Benches /\ quotas[round][b] < Left(round)[b]
         /\ Open \in SUBSET Nat
         /\ \A b \in Benches : limited /\ b \in Open => quotas[round][b] < CapOf(round, b)
<1>1. round \in Opened
  BY DEF Opened, Rounds
<1>2. \A b \in Benches : Limit(round, b, limited) = IF limited THEN LimitsOf(round)[b] ELSE Left(round)[b]
  BY <1>1, Limits DEF Limit
<1>3. limited => Open = OpenTo(quotas[round], LimitsOf(round))
  BY <1>2 DEF Open, OpenTo
<1>4. ~limited => Open = OpenTo(quotas[round], Left(round))
  BY <1>2 DEF Open, OpenTo
<1>5. \A b \in Benches : /\ quotas[round][b] \in Nat /\ Left(round)[b] \in Nat
                         /\ LimitsOf(round)[b] \in Nat /\ CapOf(round, b) \in Nat
                         /\ LimitsOf(round)[b] <= Left(round)[b] /\ LimitsOf(round)[b] <= CapOf(round, b)
  BY <1>1, Limits, Numbers, Caps
<1>6. \A b \in Open : b \in Benches /\ quotas[round][b] < Limit(round, b, limited)
  BY DEF Open
<1>7. \A b \in Open : b \in Benches /\ quotas[round][b] < Left(round)[b]
                      /\ (limited => quotas[round][b] < CapOf(round, b))
  <2> TAKE b \in Open
  <2>1. b \in Benches /\ limited \in BOOLEAN
    BY <1>6 DEF AssignTypes
  <2>2. CASE limited
    <3>1. quotas[round][b] < LimitsOf(round)[b]
      BY <1>2, <1>6, <2>1, <2>2
    <3> QED BY <3>1, <1>5, <2>1
  <2>3. CASE ~limited
    <3>1. quotas[round][b] < Left(round)[b]
      BY <1>2, <1>6, <2>1, <2>3
    <3> QED BY <3>1, <2>1, <2>3
  <2> QED BY <2>1, <2>2, <2>3
<1>8. Open \in SUBSET Nat
  BY <1>6 DEF Benches
<1> QED BY <1>1, <1>3, <1>4, <1>7, <1>8

(* The invariant is stronger. *)
LEMMA AssignSafe == AssignInv => AssignmentSafety
<1> SUFFICES ASSUME AssignInv PROVE AssignmentSafety
  OBVIOUS
<1>1. AssignTypes /\ Within /\ Filled /\ FirstPass /\ SecondPass
  BY DEF AssignInv
<1>2. SlicesAreFull
  <2> SUFFICES ASSUME round # "scored"
               PROVE  /\ \A r \in Complete : Full(r)
                      /\ \A b \in Benches : quotas.scored[b] + quotas.explored[b] <= pool[b]
                      /\ round = "assigned" => SumTo(explored, NumModels) = Wanted("explored")
    BY DEF SlicesAreFull
  <2>1. \A r \in Complete : Full(r)
    BY <1>1 DEF Complete, Full, Filled, Rounds, Opened, AssignTypes
  <2>2. \A b \in Benches : quotas.scored[b] + quotas.explored[b] <= pool[b]
    <3> TAKE b \in Benches
    <3>1. "explored" \in Opened
      BY DEF Opened, Rounds
    <3>2. quotas["explored"][b] <= Left("explored")[b]
      BY <1>1, <3>1 DEF Within
    <3>3. Left("explored")[b] = pool[b] - quotas["scored"][b]
      BY DEF Left
    <3>4. quotas["scored"][b] \in Nat /\ quotas["explored"][b] \in Nat /\ pool[b] \in Nat
      BY <1>1 DEF AssignTypes, Rounds
    <3> QED BY <3>2, <3>3, <3>4
  <2>3. round = "assigned" => SumTo(explored, NumModels) = Wanted("explored")
    BY <1>1 DEF Filled
  <2> QED BY <2>1, <2>2, <2>3
<1>3. OverCapIsRounding
  BY <1>1 DEF OverCapIsRounding, SecondPass
<1>4. InTurn
  <2> SUFFICES ASSUME limited, round \in Rounds, NEW a \in Open, NEW b \in Benches
               PROVE  quotas[round][b] <= quotas[round][a] + 1
    BY DEF InTurn
  <2>1. a \in OpenTo(quotas[round], LimitsOf(round)) /\ a \in Benches
    BY <1>1, WhoIsOpen
  <2>2. quotas[round][b] <= quotas[round][a] + (IF b <= last /\ last < a THEN 1 ELSE 0)
    BY <1>1, <2>1 DEF FirstPass, TakesTurns
  <2>3. quotas[round][a] \in Nat /\ quotas[round][b] \in Nat
    BY <1>1, <2>1 DEF AssignTypes
  <2> QED BY <2>2, <2>3
<1> QED BY <1>2, <1>3, <1>4 DEF AssignmentSafety

(* Nothing is given of what the caps are shares of. *)
LEMMA SharesStay ==
  ASSUME AssignTypes, UNCHANGED <<pool, size>>, NEW r \in Opened,
         r # "scored" => quotas["scored"]' = quotas["scored"]
  PROVE  /\ Left(r)' = Left(r) /\ Wanted(r)' = Wanted(r)
         /\ \A b \in Benches : CapOf(r, b)' = CapOf(r, b)
         /\ LimitsOf(r)' = LimitsOf(r)
<1>1. Left(r)' = Left(r)
  BY DEF Left
<1>2. Wanted(r)' = Wanted(r)
  BY <1>1 DEF Wanted, Total
<1>3. \A b \in Benches : CapOf(r, b)' = CapOf(r, b)
  BY <1>1, <1>2 DEF CapOf, Total
<1>4. LimitsOf(r)' = LimitsOf(r)
  BY <1>1, <1>3 DEF LimitsOf
<1> QED BY <1>1, <1>2, <1>3, <1>4

(* Of nothing the total is nothing. *)
LEMMA NothingGiven ==
  ASSUME NEW q \in [Benches -> Nat], \A b \in Benches : q[b] = 0
  PROVE  Total(q) = 0
<1> DEFINE N == NumBenches
<1>1. N \in Nat /\ q \in [1..N -> Int] /\ \A n \in 1..N : q[n] = 0
  BY AssignmentAssumption DEF Benches
<1> HIDE DEF N
<1>2. SumTo(q, N) = 0
  BY <1>1, SumOfZeros
<1> QED BY <1>2 DEF Total, N

(* Nothing is given yet. *)
LEMMA AssignInitially == AssignmentInit => AssignInv
<1> SUFFICES ASSUME AssignmentInit PROVE AssignInv
  OBVIOUS
<1>1. AssignTypes
  BY AssignmentAssumption DEF AssignmentInit, AssignTypes, Rounds, Benches
<1>2. Opened = {"scored"} /\ round = "scored" /\ limited = TRUE /\ last = 0
  BY DEF AssignmentInit, Opened
<1>3. \A r \in Rounds, b \in Benches : quotas[r][b] = 0
  BY DEF AssignmentInit
<1>4. Within
  <2>1. \A b \in Benches : quotas["scored"][b] = 0 /\ quotas["explored"][b] = 0
    BY <1>3 DEF Rounds
  <2>2. \A b \in Benches : 0 <= Left("scored")[b]
    <3>1. \A b \in Benches : pool[b] \in Nat
      BY <1>1 DEF AssignTypes
    <3> QED BY <3>1 DEF Left
  <2>3. quotas["scored"] \in [Benches -> Nat]
    BY <1>1 DEF AssignTypes, Rounds
  <2>4. Total(quotas["scored"]) = 0
    BY <2>1, <2>3, NothingGiven
  <2>5. Wanted("scored") \in Nat
    <3>1. Left("scored") = pool /\ pool \in [1..NumBenches -> Nat] /\ NumBenches \in Nat /\ size["scored"] \in Nat
      BY <1>1, AssignmentAssumption DEF AssignTypes, Left, Benches, Rounds
    <3>2. SumTo(pool, NumBenches) \in Nat
      BY <3>1, SumIsNat
    <3> QED BY <3>1, <3>2 DEF Wanted, Least, Total
  <2>6. \A r \in Opened : r = "scored"
    BY <1>2
  <2>7. \A r \in Opened, b \in Benches : quotas[r][b] <= Left(r)[b]
    BY <2>1, <2>2, <2>6
  <2>8. \A r \in Opened : Total(quotas[r]) <= Wanted(r)
    BY <2>4, <2>5, <2>6
  <2> QED BY <2>1, <2>7, <2>8 DEF Within
<1>5. Filled
  BY <1>2 DEF Filled
<1>6. "scored" \in Opened /\ "scored" \in Rounds /\ quotas["scored"] \in [Benches -> Nat]
  BY <1>1, <1>2 DEF AssignTypes, Rounds
<1>7. FirstPass
  <2>1. LimitsOf("scored") \in [Benches -> Nat]
    BY <1>1, <1>4, <1>6, Limits
  <2>2. TakesTurns(quotas["scored"], LimitsOf("scored"), 0)
    BY <2>1, <1>3, <1>6, TurnsBegin
  <2>3. \A b \in Benches : quotas["scored"][b] <= LimitsOf("scored")[b]
    BY <2>1, <1>3, <1>6
  <2> QED BY <2>2, <2>3, <1>2 DEF FirstPass
<1>8. SecondPass
  <2>1. \A r \in Opened, b \in Benches : quotas[r][b] <= CapOf(r, b) + 1
    <3> TAKE r \in Opened, b \in Benches
    <3>1. CapOf(r, b) \in Nat /\ quotas[r][b] = 0
      BY <1>1, <1>2, <1>3, <1>4, <1>6, Caps
    <3> QED BY <3>1
  <2> QED BY <2>1, <1>2 DEF SecondPass
<1> QED BY <1>1, <1>4, <1>5, <1>7, <1>8 DEF AssignInv

-----------------------------------------------------------------------------
(* The lemmas on caps and on room, to be cited of the state after a step. *)
CapsAreNumbers ==
  AssignTypes /\ Within =>
    \A r \in Opened : LimitsOf(r) \in [Benches -> Nat] /\ \A b \in Benches : CapOf(r, b) \in Nat

(* Of this state *)
LEMMA CapsNow == CapsAreNumbers
  BY Limits, Caps DEF CapsAreNumbers

(* Of the next *)
LEMMA CapsAfter == CapsAreNumbers'
  BY CapsNow, PTL

(* Who has room, in either pass *)
OpenIsRoom ==
  AssignTypes /\ Within /\ round \in Rounds =>
    /\ limited => Open = OpenTo(quotas[round], LimitsOf(round))
    /\ ~limited => Open = OpenTo(quotas[round], Left(round))

(* Of this state *)
LEMMA OpenNow == OpenIsRoom
  BY WhoIsOpen DEF OpenIsRoom

(* Of the next *)
LEMMA OpenAfter == OpenIsRoom'
  BY OpenNow, PTL

(* The exploration set begins, with what the slice left. *)
LEMMA ExploreKeeps == ASSUME AssignInv, Explore PROVE AssignInv'
<1>1. AssignTypes /\ Within /\ Filled /\ FirstPass /\ SecondPass
  BY DEF AssignInv
<1>2. /\ round = "scored" /\ Remaining = 0 /\ round' = "explored" /\ limited' = TRUE /\ last' = 0
      /\ UNCHANGED <<pool, size, quotas, explored>>
  BY DEF Explore
<1>3. AssignTypes'
  BY <1>1, <1>2, AssignmentAssumption DEF AssignTypes
<1>4. "scored" \in Opened /\ Opened' = Rounds /\ Rounds = {"scored", "explored"}
  BY <1>2 DEF Opened, Rounds
<1>5. \A b \in Benches : quotas'["explored"][b] = 0
  BY <1>1, <1>2 DEF Within
<1>6. /\ Left("scored")' = Left("scored") /\ Wanted("scored")' = Wanted("scored")
      /\ \A b \in Benches : CapOf("scored", b)' = CapOf("scored", b)
  BY <1>1, <1>2, <1>4, SharesStay
<1>7. Total(quotas["scored"]) = Wanted("scored")
  <2>1. Total(quotas["scored"]) \in Nat /\ Wanted("scored") \in Nat
    BY <1>1, <1>4, Numbers
  <2>2. Wanted("scored") - Total(quotas["scored"]) = 0
    BY <1>2 DEF Remaining
  <2> QED BY <2>1, <2>2
<1>8. quotas'["explored"] \in [Benches -> Nat] /\ Total(quotas'["explored"]) = 0
  <2>1. quotas'["explored"] \in [Benches -> Nat]
    BY <1>3, <1>4 DEF AssignTypes
  <2> QED BY <2>1, <1>5, NothingGiven
<1>9. Left("explored")' \in [Benches -> Nat]
  <2>1. \A b \in Benches : quotas["scored"][b] <= pool[b] /\ quotas["scored"][b] \in Nat /\ pool[b] \in Nat
    BY <1>1, <1>4 DEF Within, Left, AssignTypes
  <2>2. Left("explored")' = [b \in Benches |-> pool[b] - quotas["scored"][b]]
    BY <1>2 DEF Left
  <2>3. \A b \in Benches : pool[b] - quotas["scored"][b] \in Nat
    BY <2>1
  <2> QED BY <2>2, <2>3
<1>10. Wanted("explored")' \in Nat
  <2>1. size'["explored"] \in Nat /\ NumBenches \in Nat
    BY <1>3, <1>4, AssignmentAssumption DEF AssignTypes
  <2>2. Total(Left("explored")') \in Nat
    BY <1>9, <2>1, SumIsNat DEF Total, Benches
  <2>3. Wanted("explored")' = Least(size'["explored"], Total(Left("explored")'))
    BY DEF Wanted, Total
  <2> QED BY <2>1, <2>2, <2>3 DEF Least
<1>11. Within'
  <2>1. \A r \in Rounds, b \in Benches : quotas'[r][b] <= Left(r)'[b]
    <3> TAKE r \in Rounds, b \in Benches
    <3>1. CASE r = "scored"
      <4>1. quotas["scored"][b] <= Left("scored")[b]
        BY <1>1, <1>4 DEF Within
      <4> QED BY <3>1, <4>1, <1>2, <1>6
    <3>2. CASE r = "explored"
      <4>1. quotas'["explored"][b] = 0 /\ Left("explored")'[b] \in Nat
        BY <1>5, <1>9
      <4> QED BY <3>2, <4>1
    <3> QED BY <3>1, <3>2, <1>4
  <2>2. \A r \in Rounds : Total(quotas'[r]) <= Wanted(r)'
    <3> TAKE r \in Rounds
    <3>1. CASE r = "scored"
      <4>1. Total(quotas["scored"]) \in Nat
        BY <1>1, <1>4, Numbers
      <4> QED BY <3>1, <4>1, <1>2, <1>6, <1>7
    <3>2. CASE r = "explored"
      BY <3>2, <1>8, <1>10
    <3> QED BY <3>1, <3>2, <1>4
  <2>3. Total(quotas[round])' = Total(quotas'[round']) /\ \A r : Total(quotas[r])' = Total(quotas'[r])
    BY DEF Total
  <2> QED BY <2>1, <2>2, <2>3, <1>2, <1>4 DEF Within
<1>12. Filled'
  <2>1. Total(quotas'["scored"]) = Wanted("scored")'
    BY <1>2, <1>6, <1>7
  <2>2. Total(quotas.scored)' = Total(quotas'["scored"])
    BY DEF Total
  <2> QED BY <2>1, <2>2, <1>2 DEF Filled
<1>13. "explored" \in Opened' /\ "explored" \in Rounds
  BY <1>4
<1>14. LimitsOf("explored")' \in [Benches -> Nat] /\ \A b \in Benches : CapOf("explored", b)' \in Nat
  BY <1>3, <1>11, <1>13, CapsAfter DEF CapsAreNumbers
<1>15. FirstPass'
  <2>1. TakesTurns(quotas'["explored"], LimitsOf("explored")', 0)
    BY <1>5, <1>8, <1>14, TurnsBegin
  <2>2. \A b \in Benches : quotas'["explored"][b] <= LimitsOf("explored")'[b]
    BY <1>5, <1>14
  <2> QED BY <2>1, <2>2, <1>2 DEF FirstPass, TakesTurns, OpenTo
<1>16. SecondPass'
  <2> SUFFICES ASSUME FactorNum >= FactorDen
               PROVE  \A r \in Rounds, b \in Benches : quotas'[r][b] <= CapOf(r, b)' + 1
    BY <1>2, <1>4 DEF SecondPass
  <2> TAKE r \in Rounds, b \in Benches
  <2>1. CASE r = "scored"
    <3>1. quotas["scored"][b] <= CapOf("scored", b) + 1
      BY <1>1, <1>4 DEF SecondPass
    <3> QED BY <3>1, <2>1, <1>2, <1>6
  <2>2. CASE r = "explored"
    <3>1. quotas'["explored"][b] = 0 /\ CapOf("explored", b)' \in Nat
      BY <1>5, <1>14
    <3> QED BY <3>1, <2>2
  <2> QED BY <2>1, <2>2, <1>4
<1> QED BY <1>3, <1>11, <1>12, <1>15, <1>16 DEF AssignInv

(* The second pass begins: what remains is rounding. *)
LEMMA UncapKeeps == ASSUME AssignInv, Uncap PROVE AssignInv'
<1>1. AssignTypes /\ Within /\ Filled /\ FirstPass /\ SecondPass
  BY DEF AssignInv
<1>2. /\ round \in Rounds /\ Remaining > 0 /\ Open = {} /\ limited
      /\ limited' = FALSE /\ last' = 0 /\ UNCHANGED <<pool, size, round, quotas, explored>>
  BY DEF Uncap
<1>3. AssignTypes'
  <2>1. 0 \in 0..NumBenches
    BY AssignmentAssumption
  <2>2. limited' \in BOOLEAN
    BY <1>2
  <2> QED BY <1>1, <1>2, <2>1, <2>2 DEF AssignTypes
<1>4. Opened' = Opened
  BY <1>2 DEF Opened
<1>5. \A r \in Opened : /\ Left(r)' = Left(r) /\ Wanted(r)' = Wanted(r)
                        /\ \A b \in Benches : CapOf(r, b)' = CapOf(r, b)
  BY <1>1, <1>2, SharesStay
<1>6. Within'
  <2>1. \A r : Total(quotas[r])' = Total(quotas[r])
    BY <1>2 DEF Total
  <2> QED BY <1>1, <1>2, <1>4, <1>5, <2>1 DEF Within
<1>7. Filled'
  <2>1. round # "scored" => Wanted("scored")' = Wanted("scored") /\ Wanted("explored")' = Wanted("explored")
    BY <1>5 DEF Opened, Rounds
  <2> QED BY <1>1, <1>2, <2>1 DEF Filled, Total
<1>8. FirstPass'
  BY <1>2 DEF FirstPass
<1>9. round \in Opened
  BY <1>1, <1>2, WhoIsOpen
<1> DEFINE q == quotas[round]
           left == Left(round)
           w == Wanted(round)
<1>10. q \in [Benches -> Nat] /\ left \in [Benches -> Nat] /\ w \in Nat /\ w <= Total(left)
       /\ Total(left) \in Nat
  BY <1>1, <1>9, Numbers
<1>11. \A b \in Benches : /\ q[b] <= left[b] /\ CapOf(round, b) \in Nat
                          /\ (q[b] < left[b] => q[b] = CapOf(round, b)) /\ q[b] <= CapOf(round, b)
  <2> TAKE b \in Benches
  <2>1. OpenTo(q, LimitsOf(round)) = {}
    BY <1>1, <1>2, WhoIsOpen
  <2>2. LimitsOf(round) \in [Benches -> Nat] /\ q[b] <= LimitsOf(round)[b]
        /\ LimitsOf(round)[b] <= CapOf(round, b) /\ LimitsOf(round)[b] <= left[b]
        /\ (CapOf(round, b) <= LimitsOf(round)[b] \/ left[b] <= LimitsOf(round)[b])
    BY <1>1, <1>2, <1>9, Limits DEF FirstPass
  <2>3. ~ (q[b] < LimitsOf(round)[b])
    BY <2>1 DEF OpenTo
  <2>4. CapOf(round, b) \in Nat
    BY <1>1, <1>9, Caps
  <2>5. q[b] \in Nat /\ left[b] \in Nat /\ LimitsOf(round)[b] \in Nat
    BY <1>10, <2>2
  <2> HIDE DEF q, left
  <2> QED BY <2>2, <2>3, <2>4, <2>5
<1>12. Open' = OpenTo(q, left)
  <2>1. (AssignTypes /\ Within /\ round \in Rounds)'
    BY <1>2, <1>3, <1>6
  <2>2. Open' = OpenTo(quotas[round], Left(round))'
    BY <2>1, <1>2, OpenAfter DEF OpenIsRoom
  <2> QED BY <2>2, <1>2, <1>5, <1>9 DEF OpenTo
<1>13. SecondPass'
  <2> SUFFICES ASSUME FactorNum >= FactorDen PROVE SecondPass'
    BY DEF SecondPass
  <2>1. \A r \in Opened, b \in Benches : quotas[r][b] <= CapOf(r, b) + 1
    BY <1>1 DEF SecondPass
  <2>2. \A b \in OpenTo(q, left) : w * left[b] <= (Total(left) * q[b]) + Total(left)
    <3> TAKE b \in OpenTo(q, left)
    <3>1. b \in Benches /\ q[b] = CapOf(round, b)
      BY <1>11 DEF OpenTo
    <3>2. w * left[b] <= (Total(left) * CapOf(round, b)) + Total(left)
      BY <1>1, <1>9, <3>1, Caps
    <3> QED BY <3>1, <3>2
  <2>3. \A b \in Benches : q[b] <= left[b]
    BY <1>11
  <2> HIDE DEF q, left, w
  <2>4. w - Total(q) <= Cardinality(OpenTo(q, left))
    BY ONLY <1>10, <2>2, <2>3, LeftOverIsRounding
  <2>5. Remaining' = w - Total(q)
    BY <1>2, <1>5, <1>9 DEF Remaining, q, w, Total
  <2>6. {b \in Open' : b > last'} = OpenTo(q, left)
    <3>1. \A b \in Benches : b > 0
      BY DEF Benches
    <3>2. \A b \in OpenTo(q, left) : b \in Benches
      BY DEF OpenTo
    <3> QED BY <1>2, <1>12, <3>1, <3>2
  <2>7. Remaining' <= Cardinality({b \in Open : b > last})'
    BY <2>4, <2>5, <2>6
  <2>9. \A b \in Benches : CapOf(round, b)' = CapOf(round, b)
    BY <1>2 DEF CapOf, Left, Wanted, Total
  <2>8. \A b \in Benches : quotas'[round'][b] <= CapOf(round, b)'
    BY <1>2, <1>11, <2>9 DEF q
  <2>10. \A r \in Opened', b \in Benches : quotas'[r][b] <= CapOf(r, b)' + 1
    BY <2>1, <1>2, <1>4, <1>5
  <2> QED BY <2>7, <2>8, <2>10 DEF SecondPass
<1> QED BY <1>3, <1>6, <1>7, <1>8, <1>13 DEF AssignInv

(* Every question of the exploration set gets a model. *)
LEMMA AssignKeeps == ASSUME AssignInv, Assign PROVE AssignInv'
<1>1. AssignTypes /\ Within /\ Filled /\ FirstPass /\ SecondPass
  BY DEF AssignInv
<1>2. /\ round = "explored" /\ Remaining = 0 /\ round' = "assigned"
      /\ explored' = Rests(Total(quotas["explored"]), NumModels)
      /\ UNCHANGED <<pool, size, limited, last, quotas>>
  BY DEF Assign, Rests
<1>3. AssignTypes'
  BY <1>1, <1>2 DEF AssignTypes
<1>4. Opened' = Opened /\ "explored" \in Opened /\ "scored" \in Opened
  BY <1>2 DEF Opened, Rounds
<1>5. \A r \in Opened : /\ Left(r)' = Left(r) /\ Wanted(r)' = Wanted(r)
                        /\ \A b \in Benches : CapOf(r, b)' = CapOf(r, b)
  BY <1>1, <1>2, SharesStay
<1>6. Within'
  <2>1. \A r : Total(quotas[r])' = Total(quotas[r])
    BY <1>2 DEF Total
  <2> QED BY <1>1, <1>2, <1>4, <1>5, <2>1 DEF Within
<1>7. Filled'
  <2>1. Total(quotas["explored"]) \in Nat /\ Wanted("explored") \in Nat
    BY <1>1, <1>4, Numbers
  <2>2. Wanted("explored") - Total(quotas["explored"]) = 0
    BY <1>2 DEF Remaining
  <2>3. Total(quotas["explored"]) = Wanted("explored")
    BY <2>1, <2>2
  <2>4. SumTo(explored', NumModels) = Wanted("explored")
    <3>1. NumModels \in Nat \ {0}
      BY AssignmentAssumption
    <3> QED BY <3>1, <2>1, <2>3, <1>2, RestsAddUp
  <2>5. SumTo(explored, NumModels)' = SumTo(explored', NumModels)
    BY DEF SumTo, RunningSum
  <2> QED BY <2>3, <2>4, <2>5, <1>1, <1>2, <1>4, <1>5 DEF Filled, Total
<1>8. FirstPass' 
  BY <1>2 DEF FirstPass, Rounds
<1>9. SecondPass'
  BY <1>1, <1>2, <1>4, <1>5 DEF SecondPass, Rounds
<1> QED BY <1>3, <1>6, <1>7, <1>8, <1>9 DEF AssignInv

(* One slot: in the first pass in turn and under the caps, in the second one
   benchmark more that has had its question of the rounding. *)
LEMMA SlotKeeps == ASSUME AssignInv, Slot PROVE AssignInv'
<1>1. AssignTypes /\ Within /\ Filled /\ FirstPass /\ SecondPass
  BY DEF AssignInv
<1> DEFINE later == {b \in Open : b > last}
           from == IF \E b \in Open : b > last THEN later ELSE Open
           k == last'
           q == quotas[round]
           p == [q EXCEPT ![k] = @ + 1]
<1>2. /\ round \in Rounds /\ Remaining > 0 /\ Open # {} /\ k = Min(from)
      /\ quotas' = [quotas EXCEPT ![round][k] = @ + 1]
      /\ UNCHANGED <<pool, size, round, limited, explored>>
  BY DEF Slot
<1>3. /\ round \in Opened /\ Open \in SUBSET Nat
      /\ \A b \in Open : b \in Benches /\ q[b] < Left(round)[b]
  BY <1>1, <1>2, WhoIsOpen
<1>4. k \in from /\ \A b \in from : k <= b
  <2>1. from # {} /\ from \in SUBSET Nat
    BY <1>2, <1>3
  <2> HIDE DEF from
  <2>2. \E n \in from : \A m \in from : n <= m
    BY <2>1, LeastOf
  <2> QED BY <2>2, <1>2 DEF Min
<1>5. k \in Open /\ k \in Benches /\ k \in Nat
  BY <1>3, <1>4
<1>6. /\ q \in [Benches -> Nat] /\ p \in [Benches -> Nat] /\ p[k] = q[k] + 1
      /\ \A b \in Benches : b # k => p[b] = q[b]
  <2>1. q \in [Benches -> Nat]
    BY <1>1, <1>2 DEF AssignTypes
  <2> QED BY <2>1, <1>5
<1>7. quotas' = [quotas EXCEPT ![round] = p] /\ quotas'[round] = p /\ quotas' \in [Rounds -> [Benches -> Nat]]
      /\ \A r \in Rounds : r # round => quotas'[r] = quotas[r]
  <2>1. quotas \in [Rounds -> [Benches -> Nat]]
    BY <1>1 DEF AssignTypes
  <2>2. quotas' = [quotas EXCEPT ![round] = p]
    BY <1>2
  <2> HIDE DEF p
  <2> QED BY <2>1, <2>2, <1>2, <1>6
<1> HIDE DEF p
<1>8. Total(p) = Total(q) + 1 /\ Total(q) \in Nat
  BY <1>5, <1>6, OneSlotMore DEF p
<1>9. AssignTypes'
  <2>1. k \in 0..NumBenches
    BY <1>5, AssignmentAssumption DEF Benches
  <2> QED BY <2>1, <1>1, <1>2, <1>7 DEF AssignTypes
<1>10. Opened' = Opened
  BY <1>2 DEF Opened
<1>11. \A r \in Opened : r # "scored" => quotas'["scored"] = quotas["scored"]
  BY <1>2, <1>7 DEF Opened, Rounds
<1>12. \A r \in Opened : /\ Left(r)' = Left(r) /\ Wanted(r)' = Wanted(r)
                         /\ \A b \in Benches : CapOf(r, b)' = CapOf(r, b)
                         /\ LimitsOf(r)' = LimitsOf(r)
  BY <1>1, <1>2, <1>11, SharesStay
<1>13. Left(round)' = Left(round) /\ Wanted(round)' = Wanted(round)
       /\ (\A b \in Benches : CapOf(round, b)' = CapOf(round, b)) /\ LimitsOf(round)' = LimitsOf(round)
  <2>0. round' = round
    BY <1>2
  <2>1. Left(round)' = Left(round)
    BY <1>2, <1>3, <1>7, <1>11 DEF Left, Rounds
  <2>2. Wanted(round)' = Wanted(round)
    BY <1>2, <2>1 DEF Wanted, Total
  <2>3. \A b \in Benches : CapOf(round, b)' = CapOf(round, b)
    BY <2>1, <2>2 DEF CapOf, Total
  <2>4. LimitsOf(round)' = LimitsOf(round)
    BY <2>1, <2>3 DEF LimitsOf
  <2> QED BY <2>1, <2>2, <2>3, <2>4
<1>14. Wanted(round) \in Nat /\ Wanted(round) - Total(q) > 0
  <2>1. Wanted(round) \in Nat
    BY <1>1, <1>3, Numbers
  <2> QED BY <2>1, <1>2 DEF Remaining
<1>15. Within'
  <2>1. \A r \in Opened, b \in Benches : quotas'[r][b] <= Left(r)[b]
    <3> TAKE r \in Opened, b \in Benches
    <3>1. quotas[r][b] <= Left(r)[b] /\ r \in Rounds
      BY <1>1 DEF Within, Opened, Rounds
    <3>2. CASE r # round
      BY <3>1, <3>2, <1>7
    <3>3. CASE r = round /\ b # k
      BY <3>1, <3>3, <1>6, <1>7
    <3>4. CASE r = round /\ b = k
      <4>1. q[k] < Left(round)[k] /\ q[k] \in Nat /\ Left(round)[k] \in Nat
        BY <1>1, <1>3, <1>5, <1>6, Numbers
      <4>2. q[k] + 1 <= Left(round)[k]
        BY <4>1
      <4> QED BY <4>2, <3>4, <1>6, <1>7
    <3> QED BY <3>2, <3>3, <3>4
  <2>2. \A r \in Opened : Total(quotas'[r]) <= Wanted(r)
    <3> TAKE r \in Opened
    <3>1. Total(quotas[r]) <= Wanted(r) /\ r \in Rounds
      BY <1>1 DEF Within, Opened, Rounds
    <3>2. CASE r # round
      BY <3>1, <3>2, <1>7
    <3>3. CASE r = round
      <4>1. Total(p) <= Wanted(round)
        BY <1>8, <1>14
      <4> QED BY <3>3, <4>1, <1>7
    <3> QED BY <3>2, <3>3
  <2>3. \A r : Total(quotas[r])' = Total(quotas'[r])
    BY DEF Total
  <2>4. round = "scored" => \A b \in Benches : quotas'["explored"][b] = 0
    BY <1>1, <1>7 DEF Within, Rounds
  <2>5. \A r \in Opened', b \in Benches : quotas'[r][b] <= Left(r)'[b]
    BY <2>1, <1>10, <1>12
  <2>6. \A r \in Opened' : Total(quotas[r])' <= Wanted(r)'
    BY <2>2, <2>3, <1>10, <1>12
  <2> QED BY <2>4, <2>5, <2>6, <1>2 DEF Within
<1>16. Filled'
  <2>1. round # "scored" => /\ Total(quotas'["scored"]) = Wanted("scored")
                            /\ Wanted("scored")' = Wanted("scored")
    <3> SUFFICES ASSUME round # "scored"
                 PROVE  Total(quotas'["scored"]) = Wanted("scored") /\ Wanted("scored")' = Wanted("scored")
      OBVIOUS
    <3>1. "scored" \in Opened /\ "scored" \in Rounds
      BY DEF Opened, Rounds
    <3> QED BY <3>1, <1>1, <1>7, <1>12 DEF Filled
  <2>2. round # "assigned"
    BY <1>2 DEF Rounds
  <2>3. Total(quotas.scored)' = Total(quotas'["scored"])
    BY DEF Total
  <2> QED BY <2>1, <2>2, <2>3, <1>2 DEF Filled
<1>17. FirstPass'
  <2> SUFFICES ASSUME limited
               PROVE  /\ \A b \in Benches : p[b] <= LimitsOf(round)[b]
                      /\ TakesTurns(p, LimitsOf(round), k)
    BY <1>2, <1>7, <1>13 DEF FirstPass, TakesTurns, OpenTo
  <2> DEFINE lim == LimitsOf(round)
  <2>1. Open = OpenTo(q, lim) /\ lim \in [Benches -> Nat]
        /\ (\A b \in Benches : q[b] <= lim[b]) /\ TakesTurns(q, lim, last)
    BY <1>1, <1>2, <1>3, WhoIsOpen, Limits DEF FirstPass
  <2> HIDE DEF lim
  <2>2. NextAfter(q, lim, last, k)
    <3>1. k \in OpenTo(q, lim)
      BY <2>1, <1>5
    <3>2. CASE \E b \in Open : b > last
      <4>1. from = later
        BY <3>2
      <4>2. k > last /\ \A b \in OpenTo(q, lim) : b > last => k <= b
        BY <4>1, <1>4, <2>1
      <4> QED BY <3>1, <4>2 DEF NextAfter
    <3>3. CASE ~ \E b \in Open : b > last
      <4>1. from = Open
        BY <3>3
      <4>2. (\A b \in OpenTo(q, lim) : ~ (b > last)) /\ \A b \in OpenTo(q, lim) : k <= b
        BY <4>1, <3>3, <1>4, <2>1
      <4> QED BY <3>1, <4>2 DEF NextAfter
    <3> QED BY <3>2, <3>3
  <2>3. last \in Nat
    BY <1>1, AssignmentAssumption DEF AssignTypes
  <2>4. TakesTurns(p, lim, k)
    <3> HIDE DEF q, k
    <3> QED BY <1>6, <2>1, <2>2, <2>3, TurnsKept DEF p
  <2>5. \A b \in Benches : p[b] <= lim[b]
    <3> TAKE b \in Benches
    <3>1. CASE b = k
      <4>1. q[k] < lim[k] /\ q[k] \in Nat /\ lim[k] \in Nat
        BY <1>5, <1>6, <2>1 DEF OpenTo
      <4> QED BY <4>1, <3>1, <1>6
    <3>2. CASE b # k
      BY <3>2, <2>1, <1>6
    <3> QED BY <3>1, <3>2
  <2> QED BY <2>4, <2>5 DEF lim
<1>18. SecondPass'
  <2> SUFFICES ASSUME FactorNum >= FactorDen PROVE SecondPass'
    BY DEF SecondPass
  <2>1. \A r \in Opened, b \in Benches : quotas[r][b] <= CapOf(r, b) + 1
    BY <1>1 DEF SecondPass
  <2>2. \A b \in Benches : CapOf(round, b) \in Nat /\ q[b] \in Nat
    BY <1>1, <1>3, <1>6, Caps
  <2>3. ~limited => /\ later # {} /\ Remaining <= Cardinality(later)
                    /\ \A b \in Benches : b > last => q[b] <= CapOf(round, b)
    <3> SUFFICES ASSUME ~limited
                 PROVE  /\ later # {} /\ Remaining <= Cardinality(later)
                        /\ \A b \in Benches : b > last => q[b] <= CapOf(round, b)
      OBVIOUS
    <3>1. Remaining <= Cardinality(later) /\ \A b \in Benches : b > last => q[b] <= CapOf(round, b)
      BY <1>1, <1>2 DEF SecondPass
    <3>2. Remaining \in Int /\ Remaining > 0
      BY <1>2, <1>8, <1>14 DEF Remaining
    <3>3. later # {}
      <4>1. SUFFICES ASSUME later = {} PROVE FALSE
        OBVIOUS
      <4>2. Cardinality(later) = 0
        BY <4>1, FS_EmptySet
      <4> QED BY <4>2, <3>1, <3>2
    <3> QED BY <3>1, <3>3
  <2>4. q[k] <= CapOf(round, k)
    <3>1. CASE limited
      <4>1. q[k] < CapOf(round, k)
        BY <3>1, <1>1, <1>2, <1>5, WhoIsOpen
      <4> QED BY <4>1, <2>2, <1>5
    <3>2. CASE ~limited
      <4>1. from = later
        BY <2>3, <3>2
      <4>2. k > last
        BY <4>1, <1>4
      <4> QED BY <4>2, <2>3, <3>2, <1>5
    <3> QED BY <3>1, <3>2
  <2>5. \A r \in Opened, b \in Benches : quotas'[r][b] <= CapOf(r, b) + 1
    <3> TAKE r \in Opened, b \in Benches
    <3>1. r \in Rounds
      BY DEF Opened, Rounds
    <3>2. CASE r # round
      BY <2>1, <3>1, <3>2, <1>7
    <3>3. CASE r = round /\ b # k
      BY <2>1, <3>1, <3>3, <1>6, <1>7
    <3>4. CASE r = round /\ b = k
      <4>1. q[k] + 1 <= CapOf(round, k) + 1
        BY <2>2, <2>4, <1>5
      <4> QED BY <4>1, <3>4, <1>6, <1>7
    <3> QED BY <3>2, <3>3, <3>4
  <2>6. ASSUME ~limited
        PROVE  /\ Remaining' <= Cardinality({b \in Open : b > last}')
               /\ \A b \in Benches : b > k => p[b] <= CapOf(round, b)
    <3>1. from = later /\ k > last /\ k \in later /\ \A b \in later : k <= b
      BY <2>3, <2>6, <1>4
    <3>2. Open = OpenTo(q, Left(round)) /\ Open' = OpenTo(p, Left(round))
      <4>1. Open = OpenTo(q, Left(round))
        BY <2>6, <1>1, <1>2, WhoIsOpen
      <4>2. (AssignTypes /\ Within /\ round \in Rounds /\ ~limited)'
        BY <2>6, <1>2, <1>9, <1>15
      <4>3. Open' = OpenTo(quotas[round], Left(round))'
        BY <4>2, OpenAfter DEF OpenIsRoom
      <4> QED BY <4>1, <4>3, <1>2, <1>7, <1>13 DEF OpenTo
    <3>3. {b \in Open : b > last}' = {b \in OpenTo(p, Left(round)) : b > k}
      BY <3>2
    <3>4. {b \in OpenTo(p, Left(round)) : b > k} = later \ {k}
      <4>1. \A b \in Benches : b > k => b # k /\ p[b] = q[b] /\ b > last
        <5>1. \A b \in Benches : b \in Nat
          BY DEF Benches
        <5>2. last \in Nat
          BY <1>1, AssignmentAssumption DEF AssignTypes
        <5> QED BY <3>1, <5>1, <5>2, <1>5, <1>6
      <4>2. \A b \in later : b \in Benches /\ b \in Nat /\ q[b] < Left(round)[b] /\ (b # k => b > k)
        <5> TAKE b \in later
        <5>1. b \in Open /\ k <= b
          BY <3>1
        <5>2. b \in Nat /\ b \in Benches /\ q[b] < Left(round)[b]
          BY <1>3, <5>1
        <5> QED BY <5>1, <5>2, <1>5
      <4>3. later = {b \in OpenTo(q, Left(round)) : b > last}
        BY <3>2
      <4>4. ASSUME NEW b \in OpenTo(p, Left(round)), b > k PROVE b \in later \ {k}
        <5>1. b \in Benches /\ p[b] < Left(round)[b]
          BY <4>4 DEF OpenTo
        <5>2. q[b] < Left(round)[b] /\ b > last /\ b # k
          BY <5>1, <4>1, <4>4
        <5>3. b \in OpenTo(q, Left(round))
          BY <5>1, <5>2 DEF OpenTo
        <5> QED BY <5>2, <5>3, <4>3
      <4>5. ASSUME NEW b \in later \ {k} PROVE b \in OpenTo(p, Left(round)) /\ b > k
        <5>1. b \in Benches /\ q[b] < Left(round)[b] /\ b > k
          BY <4>2, <4>5
        <5>2. p[b] = q[b]
          BY <4>1, <5>1
        <5> QED BY <5>1, <5>2 DEF OpenTo
      <4> HIDE DEF later
      <4> QED BY <4>4, <4>5
    <3>5. IsFiniteSet(later)
      <4>1. IsFiniteSet(1..NumBenches)
        <5>1. 1 \in Int /\ NumBenches \in Int
          BY AssignmentAssumption
        <5> QED BY <5>1, FS_Interval
      <4>2. later \in SUBSET (1..NumBenches)
        BY <1>3 DEF Benches
      <4> HIDE DEF later
      <4> QED BY <4>1, <4>2, FS_Subset
    <3> DEFINE c == Cardinality(later)
               d == Cardinality(later \ {k})
    <3>6. c \in Nat /\ d = c - 1
      <4> HIDE DEF later, k
      <4> QED BY <3>1, <3>5, FS_CardinalityType, FS_RemoveElement
    <3>7. Remaining' = Wanted(round) - (Total(q) + 1) /\ Remaining = Wanted(round) - Total(q)
      <4>1. Remaining' = Wanted(round)' - Total(quotas[round])'
        BY DEF Remaining
      <4>2. Total(quotas[round])' = Total(p)
        BY <1>2, <1>7 DEF Total
      <4> QED BY <4>1, <4>2, <1>8, <1>13 DEF Remaining
    <3>8. Remaining <= c
      BY <2>3, <2>6
    <3>9. Remaining' <= d
      <4> DEFINE w == Wanted(round)
                 t == Total(q)
                 a == Remaining
                 z == Remaining'
      <4>1. w \in Nat /\ t \in Nat /\ z = w - (t + 1) /\ a = w - t /\ a <= c /\ c \in Nat /\ d = c - 1
        BY <1>8, <1>14, <3>6, <3>7, <3>8
      <4> HIDE DEF w, t, a, z, c, d
      <4>2. z <= d
        BY <4>1
      <4> QED BY <4>2 DEF z
    <3>10. \A b \in Benches : b > k => p[b] <= CapOf(round, b)
      <4> TAKE b \in Benches
      <4> SUFFICES ASSUME b > k PROVE p[b] <= CapOf(round, b)
        OBVIOUS
      <4>1. b > last /\ b # k
        <5>1. b \in Nat /\ last \in Nat
          BY <1>1, AssignmentAssumption DEF AssignTypes, Benches
        <5> QED BY <5>1, <3>1, <1>5
      <4> QED BY <4>1, <2>3, <2>6, <1>6
    <3> QED BY <3>3, <3>4, <3>9, <3>10
  <2>7. \A r \in Opened', b \in Benches : quotas'[r][b] <= CapOf(r, b)' + 1
    BY <2>5, <1>10, <1>12
  <2>8. ~limited' => /\ Remaining' <= Cardinality({b \in Open : b > last}')
                     /\ \A b \in Benches : b > last' => quotas'[round'][b] <= CapOf(round, b)'
    BY <2>6, <1>2, <1>7, <1>13
  <2> QED BY <2>7, <2>8 DEF SecondPass
<1> QED BY <1>9, <1>15, <1>16, <1>17, <1>18 DEF AssignInv

(* Each step keeps the invariant. *)
LEMMA AssignStep == ASSUME AssignInv, [AssignmentNext]_assignmentVars PROVE AssignInv'
<1>1. CASE AssignmentNext
  BY <1>1, SlotKeeps, UncapKeeps, ExploreKeeps, AssignKeeps DEF AssignmentNext
<1>2. CASE UNCHANGED assignmentVars
  BY <1>2 DEF AssignInv, AssignTypes, Within, Filled, FirstPass, SecondPass, Opened, Left, Wanted,
              Total, LimitsOf, CapOf, Open, Limit, Remaining, assignmentVars
<1> QED BY <1>1, <1>2

(* The slice and the exploration set are full, no benchmark is over its cap by
   more than the one question of a rounding, and slots are given in turn. *)
THEOREM AssignmentAlwaysSafe == AssignmentSpec => []AssignmentSafety
<1>1. AssignmentSpec => []AssignInv
  <2>1. AssignInv /\ [AssignmentNext]_assignmentVars => AssignInv'
    BY AssignStep
  <2> QED BY <2>1, AssignInitially, PTL DEF AssignmentSpec
<1> QED BY <1>1, AssignSafe, PTL

(***************************************************************************)
(* Frontier                                                                *)
(***************************************************************************)

(* Products keep their order. *)
LEMMA ProductsInOrder ==
  ASSUME NEW x \in Int, NEW y \in Int, NEW z \in Nat, x <= y
  PROVE  x * z <= y * z
  OBVIOUS

(* A positive factor may be taken off both sides. *)
LEMMA FactorsInOrder ==
  ASSUME NEW x \in Int, NEW y \in Int, NEW z \in Nat \ {0}, x * z <= y * z
  PROVE  x <= y
<1>1. SUFFICES ASSUME y < x PROVE FALSE
  OBVIOUS
<1>2. y * z + z <= x * z
  <2>1. (y + 1) * z <= x * z
    BY <1>1, ProductsInOrder
  <2>2. (y + 1) * z = y * z + z
    OBVIOUS
  <2> QED BY <2>1, <2>2
<1> QED BY <1>2

(* A line through the origin, of slope dy/dx.  p and q are below it, p to the
   right, q not: so q is below the line to p. *)
LEMMA LeftOfTurn ==
  ASSUME NEW dx \in Nat \ {0}, NEW dy \in Int, NEW px \in Nat, NEW py \in Int,
         NEW qx \in Int, NEW qy \in Int, qx <= 0,
         dx * py <= dy * px, dx * qy <= dy * qx
  PROVE  px * qy <= py * qx
<1>1. (dx * qy) * px <= (dy * qx) * px
  BY ProductsInOrder
<1>2. (dx * py) * (-qx) <= (dy * px) * (-qx)
  <2>1. -qx \in Nat
    OBVIOUS
  <2> QED BY <2>1, ProductsInOrder
<1>3. (dx * qy) * px = (px * qy) * dx /\ (dx * py) * (-qx) = -((py * qx) * dx)
      /\ (dy * qx) * px = - ((dy * px) * (-qx))
  OBVIOUS
<1>4. (px * qy) * dx <= (py * qx) * dx
  <2>1. (dx * qy) * px \in Int /\ (dy * qx) * px \in Int /\ (dx * py) * (-qx) \in Int
        /\ (dy * px) * (-qx) \in Int /\ (px * qy) * dx \in Int /\ (py * qx) * dx \in Int
    OBVIOUS
  <2> QED BY ONLY <2>1, <1>1, <1>2, <1>3
<1> QED BY <1>4, FactorsInOrder

(* p is above the line, q below it and to the right: so q is below the line
   to p. *)
LEMMA RightOfTurn ==
  ASSUME NEW dx \in Nat \ {0}, NEW dy \in Int, NEW px \in Nat, NEW py \in Int,
         NEW qx \in Nat, NEW qy \in Int,
         dy * px <= dx * py, dx * qy <= dy * qx
  PROVE  px * qy <= py * qx
<1>1. (dx * qy) * px <= (dy * qx) * px
  BY ProductsInOrder
<1>2. (dy * px) * qx <= (dx * py) * qx
  BY ProductsInOrder
<1>3. (dx * qy) * px = (px * qy) * dx /\ (dx * py) * qx = (py * qx) * dx
      /\ (dy * qx) * px = (dy * px) * qx
  OBVIOUS
<1>4. (px * qy) * dx <= (py * qx) * dx
  <2>1. (dx * qy) * px \in Int /\ (dy * qx) * px \in Int /\ (dx * py) * qx \in Int
        /\ (dy * px) * qx \in Int /\ (px * qy) * dx \in Int /\ (py * qx) * dx \in Int
    OBVIOUS
  <2> QED BY ONLY <2>1, <1>1, <1>2, <1>3
<1> QED BY <1>4, FactorsInOrder

(* A lower line of lesser slope stays lower to the right.  v, w: from a point
   of the first line to one of the second, under the first and over the second;
   t, u: from there on. *)
LEMMA LaterEdgeIsLower ==
  ASSUME NEW dx \in Nat \ {0}, NEW dy \in Int, NEW ex \in Nat \ {0}, NEW ey \in Int,
         NEW w \in Nat, NEW v \in Int, NEW u \in Nat, NEW t \in Int,
         w # 0 \/ ey * dx <= dy * ex,
         dx * v <= dy * w, ey * w <= ex * v, ex * t <= ey * u
  PROVE  dx * (t + v) <= dy * (u + w)
<1>1. ey * dx <= dy * ex
  <2>1. CASE w # 0
    <3>1. (dx * v) * ex <= (dy * w) * ex /\ (ey * w) * dx <= (ex * v) * dx
      BY ProductsInOrder
    <3>2. (dx * v) * ex = (ex * v) * dx /\ (dy * w) * ex = (dy * ex) * w /\ (ey * w) * dx = (ey * dx) * w
      OBVIOUS
    <3>3. (ey * dx) * w <= (dy * ex) * w
      <4>1. (dx * v) * ex \in Int /\ (dy * w) * ex \in Int /\ (ey * w) * dx \in Int /\ (ex * v) * dx \in Int
        OBVIOUS
      <4> QED BY ONLY <4>1, <3>1, <3>2
    <3> QED BY <3>3, <2>1, FactorsInOrder
  <2> QED BY <2>1
<1>2. dx * t <= dy * u
  <2>1. (ex * t) * dx <= (ey * u) * dx /\ (ey * dx) * u <= (dy * ex) * u
    BY <1>1, ProductsInOrder
  <2>2. (ex * t) * dx = (dx * t) * ex /\ (ey * u) * dx = (ey * dx) * u /\ (dy * ex) * u = (dy * u) * ex
    OBVIOUS
  <2>3. (dx * t) * ex <= (dy * u) * ex
    <3>1. (ex * t) * dx \in Int /\ (ey * u) * dx \in Int /\ (ey * dx) * u \in Int /\ (dy * ex) * u \in Int
      OBVIOUS
    <3> QED BY ONLY <3>1, <2>1, <2>2
  <2> QED BY <2>3, FactorsInOrder
<1>3. dx * (t + v) = dx * t + dx * v /\ dy * (u + w) = dy * u + dy * w
  OBVIOUS
<1> QED BY <1>2, <1>3

(* Some greatest member below a bound *)
LEMMA GreatestOf ==
  ASSUME NEW N \in Nat, NEW T \in SUBSET (0..N), T # {}
  PROVE  \E n \in T : \A m \in T : m <= n
<1> DEFINE U == {k \in 0..N : N - k \in T}
<1>1. PICK t \in T : TRUE
  OBVIOUS
<1>2. N - t \in U
  BY <1>1
<1>3. U \in SUBSET Nat /\ U # {}
  BY <1>2
<1>4. PICK k \in U : \A j \in U : k <= j
  BY <1>3, LeastOf
<1>5. ASSUME NEW m \in T PROVE m <= N - k
  <2>1. N - m \in U
    OBVIOUS
  <2>2. k <= N - m /\ k \in 0..N
    BY <2>1, <1>4
  <2> QED BY <2>2
<1> QED BY <1>4, <1>5

Points == [cost : Nat, acc : Nat, model : Nat]

(* A cross product may be taken from either end of the edge. *)
LEMMA CrossByDeltas ==
  ASSUME NEW ox \in Int, NEW oy \in Int, NEW ax \in Int, NEW ay \in Int,
         NEW qx \in Int, NEW qy \in Int
  PROVE  (ax - ox) * (qy - oy) - (ay - oy) * (qx - ox)
           = (ax - ox) * (qy - ay) - (ay - oy) * (qx - ax)
  OBVIOUS

(* On which side of the line from o to a the point q is, seen from o and
   from a. *)
LEMMA CrossSeenFrom ==
  ASSUME NEW o \in Points, NEW a \in Points, NEW q \in Points
  PROVE  /\ Cross(o, a, q) \in Int
         /\ Cross(o, a, q) <= 0 <=>
              (a.cost - o.cost) * (q.acc - o.acc) <= (a.acc - o.acc) * (q.cost - o.cost)
         /\ Cross(o, a, q) <= 0 <=>
              (a.cost - o.cost) * (q.acc - a.acc) <= (a.acc - o.acc) * (q.cost - a.cost)
         /\ Cross(o, a, q) >= 0 <=>
              (a.acc - o.acc) * (q.cost - o.cost) <= (a.cost - o.cost) * (q.acc - o.acc)
<1>1. /\ o.cost \in Int /\ o.acc \in Int /\ a.cost \in Int /\ a.acc \in Int
      /\ q.cost \in Int /\ q.acc \in Int
  BY DEF Points
<1>2. /\ (a.cost - o.cost) * (q.acc - o.acc) \in Int /\ (a.acc - o.acc) * (q.cost - o.cost) \in Int
      /\ (a.cost - o.cost) * (q.acc - a.acc) \in Int /\ (a.acc - o.acc) * (q.cost - a.cost) \in Int
  BY <1>1
<1>3. (a.cost - o.cost) * (q.acc - o.acc) - (a.acc - o.acc) * (q.cost - o.cost)
        = (a.cost - o.cost) * (q.acc - a.acc) - (a.acc - o.acc) * (q.cost - a.cost)
  BY ONLY <1>1, CrossByDeltas
<1>4. Cross(o, a, q) = (a.cost - o.cost) * (q.acc - o.acc) - (a.acc - o.acc) * (q.cost - o.cost)
  BY DEF Cross
<1> QED BY ONLY <1>2, <1>3, <1>4

(* Straight below a point below the line, a point is below it. *)
LEMMA BelowIsBelow ==
  ASSUME NEW o \in Points, NEW a \in Points, NEW p \in Points, NEW q \in Points,
         o.cost <= a.cost, p.cost = q.cost, q.acc <= p.acc, Cross(o, a, p) <= 0
  PROVE  Cross(o, a, q) <= 0
<1>1. /\ o.cost \in Nat /\ o.acc \in Nat /\ a.cost \in Nat /\ a.acc \in Nat
      /\ p.cost \in Nat /\ p.acc \in Nat /\ q.cost \in Nat /\ q.acc \in Nat
  BY DEF Points
<1> DEFINE dx == a.cost - o.cost  dy == a.acc - o.acc
<1>2. dx \in Nat /\ dy \in Int /\ q.acc - o.acc \in Int /\ p.acc - o.acc \in Int
      /\ q.acc - o.acc <= p.acc - o.acc
  BY <1>1
<1>3. dx * (p.acc - o.acc) <= dy * (p.cost - o.cost)
  BY CrossSeenFrom
<1>4. dx * (q.acc - o.acc) <= dx * (p.acc - o.acc)
  <2> HIDE DEF dx, dy
  <2>1. (q.acc - o.acc) * dx <= (p.acc - o.acc) * dx
    BY ONLY <1>2, ProductsInOrder
  <2> QED BY ONLY <2>1, <1>2
<1>5. dx * (q.acc - o.acc) <= dy * (q.cost - o.cost)
  <2>1. /\ dx * (q.acc - o.acc) \in Int /\ dx * (p.acc - o.acc) \in Int
        /\ dy * (p.cost - o.cost) \in Int /\ q.cost = p.cost
    BY <1>1
  <2> HIDE DEF dx, dy
  <2> QED BY ONLY <2>1, <1>3, <1>4
<1> QED BY <1>5, CrossSeenFrom

(* The line to p is over all that is left of it, where the turn is concave. *)
LEMMA NewEdgeLeft ==
  ASSUME NEW o \in Points, NEW a \in Points, NEW p \in Points, NEW q \in Points,
         o.cost < a.cost, a.cost <= p.cost, q.cost <= a.cost,
         Cross(o, a, p) <= 0, Cross(o, a, q) <= 0
  PROVE  Cross(a, p, q) <= 0
<1>1. /\ o.cost \in Nat /\ o.acc \in Nat /\ a.cost \in Nat /\ a.acc \in Nat
      /\ p.cost \in Nat /\ p.acc \in Nat /\ q.cost \in Nat /\ q.acc \in Nat
  BY DEF Points
<1> DEFINE dx == a.cost - o.cost  dy == a.acc - o.acc  px == p.cost - a.cost  py == p.acc - a.acc
           qx == q.cost - a.cost  qy == q.acc - a.acc
<1>2. dx \in Nat \ {0} /\ dy \in Int /\ px \in Nat /\ py \in Int /\ qx \in Int /\ qy \in Int /\ qx <= 0
  BY <1>1
<1>3. dx * py <= dy * px /\ dx * qy <= dy * qx
  BY CrossSeenFrom
<1>4. px * qy <= py * qx
  <2> HIDE DEF dx, dy, px, py, qx, qy
  <2> QED BY ONLY <1>2, <1>3, LeftOfTurn
<1> QED BY <1>4, CrossSeenFrom

(* And over what it leaves out. *)
LEMMA NewEdgeRight ==
  ASSUME NEW a \in Points, NEW b \in Points, NEW p \in Points, NEW q \in Points,
         a.cost < b.cost, a.cost <= p.cost, a.cost <= q.cost,
         Cross(a, b, p) >= 0, Cross(a, b, q) <= 0
  PROVE  Cross(a, p, q) <= 0
<1>1. /\ a.cost \in Nat /\ a.acc \in Nat /\ b.cost \in Nat /\ b.acc \in Nat
      /\ p.cost \in Nat /\ p.acc \in Nat /\ q.cost \in Nat /\ q.acc \in Nat
  BY DEF Points
<1> DEFINE dx == b.cost - a.cost  dy == b.acc - a.acc  px == p.cost - a.cost  py == p.acc - a.acc
           qx == q.cost - a.cost  qy == q.acc - a.acc
<1>2. dx \in Nat \ {0} /\ dy \in Int /\ px \in Nat /\ py \in Int /\ qx \in Nat /\ qy \in Int
  BY <1>1
<1>3. dy * px <= dx * py /\ dx * qy <= dy * qx
  BY CrossSeenFrom
<1>4. px * qy <= py * qx
  <2> HIDE DEF dx, dy, px, py, qx, qy
  <2> QED BY ONLY <1>2, <1>3, RightOfTurn
<1> QED BY <1>4, CrossSeenFrom

(* An edge stays over the points after it. *)
LEMMA OldEdge ==
  ASSUME NEW a \in Points, NEW b \in Points, NEW c \in Points, NEW d \in Points,
         NEW p \in Points, a.cost < b.cost, c.cost < d.cost, a.cost < d.cost, d.cost <= p.cost,
         Cross(a, b, d) <= 0, Cross(c, d, a) <= 0, Cross(c, d, p) <= 0
  PROVE  Cross(a, b, p) <= 0
<1>1. /\ a.cost \in Nat /\ a.acc \in Nat /\ b.cost \in Nat /\ b.acc \in Nat
      /\ c.cost \in Nat /\ c.acc \in Nat /\ d.cost \in Nat /\ d.acc \in Nat
      /\ p.cost \in Nat /\ p.acc \in Nat
  BY DEF Points
<1> DEFINE dx == b.cost - a.cost  dy == b.acc - a.acc  ex == d.cost - c.cost  ey == d.acc - c.acc
           w == d.cost - a.cost  v == d.acc - a.acc  u == p.cost - d.cost  t == p.acc - d.acc
<1>2. dx \in Nat \ {0} /\ dy \in Int /\ ex \in Nat \ {0} /\ ey \in Int /\ w \in Nat /\ w # 0
      /\ v \in Int /\ u \in Nat /\ t \in Int
  BY <1>1
<1>3. dx * v <= dy * w /\ ex * t <= ey * u
  BY CrossSeenFrom
<1>4. ey * w <= ex * v
  <2>1. ex * (a.acc - d.acc) <= ey * (a.cost - d.cost)
    BY CrossSeenFrom
  <2>2. a.acc - d.acc = -v /\ a.cost - d.cost = -w
    BY <1>1
  <2> HIDE DEF ex, ey, v, w
  <2>3. ex * (-v) = -(ex * v) /\ ey * (-w) = -(ey * w) /\ ex * v \in Int /\ ey * w \in Int
    BY ONLY <1>2
  <2> QED BY <2>1, <2>2, <2>3
<1>5. dx * (t + v) <= dy * (u + w)
  <2> HIDE DEF dx, dy, ex, ey, t, u, v, w
  <2> QED BY ONLY <1>2, <1>3, <1>4, LaterEdgeIsLower
<1>6. t + v = p.acc - a.acc /\ u + w = p.cost - a.cost
  BY <1>1
<1> QED BY <1>5, <1>6, CrossSeenFrom

(* What the kept points h say of the points D taken so far: no point is over
   them. *)
Over(h, D) ==
  /\ \A i \in 1..Len(h) : h[i] \in D
  /\ \A i, j \in 1..Len(h) : i < j => h[i].cost < h[j].cost
  /\ \A q \in D : q.cost = 0 => q.acc <= h[1].acc
  /\ \A i \in 1..Len(h) - 1, q \in D : Cross(h[i], h[i + 1], q) <= 0
  /\ h[1].cost = 0

(* The points taken so far. *)
Taken == Policies \ todo

(* What each variable holds. *)
FrontierTypes ==
  /\ measured \in [Priced -> [cost : Costs, acc : 0..Top, trials : 0..MinTrials]]
  /\ todo \subseteq Policies /\ hull \in Seq(Points) /\ ready \in BOOLEAN

(* The last point kept is the dearest taken, and the best at its cost. *)
Dearest(h, D) ==
  \A q \in D : q.cost <= h[Len(h)].cost /\ (q.cost = h[Len(h)].cost => q.acc <= h[Len(h)].acc)

LastIsDearest == Dearest(hull, Taken)

InOrder == \A q \in Taken, r \in todo : Before(q, r)
NoneOver == Over(hull, Taken)

(* While points are taken: nothing taken is over the hull, and the last point
   is the dearest. *)
Building ==
  /\ hull = <<>> => Taken = {} \/ todo = {}
  /\ hull # <<>> => NoneOver /\ LastIsDearest /\ InOrder

(* The hull is flattened: nothing is over it and it never falls. *)
Built ==
  /\ todo = {} /\ hull # <<>> /\ Over(hull, Policies)
  /\ \A i \in 1..Len(hull) - 1 : hull[i].acc <= hull[i + 1].acc
  /\ \A q \in Policies : q.acc <= hull[Len(hull)].acc

(* The inductive invariant. *)
FrontierInv ==
  /\ FrontierTypes
  /\ ~ready => Building
  /\ ready => Built

(* The policies measured are points, one per model, the origin among them. *)
LEMMA PoliciesArePoints ==
  ASSUME FrontierTypes
  PROVE  /\ Policies \subseteq Points
         /\ \A p \in Policies : p.acc <= Top
         /\ \A p, q \in Policies : p.model = q.model => p = q
         /\ Origin \in Policies
<1>1. Priced \subseteq Nat \ {0} /\ Costs \subseteq Nat /\ Top \in Nat
  BY FrontierAssumption
<1>2. Origin \in Points /\ Origin.acc <= Top /\ Origin.model = 0
  BY <1>1 DEF Origin, Points
<1>3. \A m \in Priced : PointOf(m) \in Points /\ PointOf(m).acc <= Top /\ PointOf(m).model = m
  <2> TAKE m \in Priced
  <2>1. measured[m] \in [cost : Costs, acc : 0..Top, trials : 0..MinTrials]
    BY DEF FrontierTypes
  <2>2. measured[m].cost \in Nat /\ measured[m].acc \in 0..Top
    BY <2>1, <1>1
  <2>3. Valued(m) \in 0..Top
    BY <2>2, <1>1 DEF Valued
  <2> QED BY <2>2, <2>3, <1>1 DEF PointOf, Points
<1>4. \A p \in Policies : p = Origin \/ \E m \in Priced : p = PointOf(m)
  BY DEF Policies
<1>5. \A p, q \in Policies : p.model = q.model => p = q
  BY ONLY <1>1, <1>2, <1>3, <1>4
<1>6. \A p \in Policies : p \in Points /\ p.acc <= Top
  BY ONLY <1>2, <1>3, <1>4
<1> QED BY <1>5, <1>6 DEF Policies

(* The order of the points is total. *)
LEMMA BeforeIsOrder ==
  ASSUME FrontierTypes, NEW p \in Policies, NEW q \in Policies, NEW r \in Policies
  PROVE  /\ Before(p, q) /\ Before(q, r) => Before(p, r)
         /\ Before(p, q) => p.cost <= q.cost /\ (p.cost = q.cost => q.acc <= p.acc)
<1>1. p \in Points /\ q \in Points /\ r \in Points
  BY PoliciesArePoints
<1>2. /\ p.cost \in Nat /\ p.acc \in Nat /\ p.model \in Nat /\ q.cost \in Nat /\ q.acc \in Nat
      /\ q.model \in Nat /\ r.cost \in Nat /\ r.acc \in Nat /\ r.model \in Nat
  BY <1>1 DEF Points
<1> QED BY ONLY <1>2 DEF Before

(* Where the last points are dropped: the turn before p is concave there, and
   at none that was dropped. *)
LEMMA StayingTurns ==
  ASSUME NEW p, hull \in Seq(Points)
  PROVE  /\ Staying(p) \in 0..Len(hull) /\ Turned(hull, Staying(p), p)
         /\ \A j \in Staying(p) + 1..Len(hull) : ~Turned(hull, j, p)
         /\ hull # <<>> => Staying(p) >= 1
<1> DEFINE T == {n \in 0..Len(hull) : Turned(hull, n, p)}
<1>1. Len(hull) \in Nat
  OBVIOUS
<1>2. 0 \in T
  BY <1>1 DEF Turned
<1>3. PICK n \in T : \A m \in T : m <= n
  BY <1>1, <1>2, GreatestOf
<1>4. n \in 0..Len(hull) /\ Turned(hull, n, p) /\ \A j \in n + 1..Len(hull) : ~Turned(hull, j, p)
  <2>1. \A j \in n + 1..Len(hull) : j \in T => j <= n
    BY <1>3
  <2>2. \A j \in n + 1..Len(hull) : ~(j <= n) /\ j \in 0..Len(hull)
    BY <1>1, <1>3
  <2> QED BY <2>1, <2>2, <1>3
<1>5. /\ Staying(p) \in 0..Len(hull) /\ Turned(hull, Staying(p), p)
      /\ \A j \in Staying(p) + 1..Len(hull) : ~Turned(hull, j, p)
  BY <1>4 DEF Staying
<1>6. ASSUME hull # <<>>, Staying(p) = 0 PROVE FALSE
  <2>1. 1 \in Staying(p) + 1..Len(hull)
    BY <1>6, <1>1
  <2>2. Turned(hull, 1, p)
    BY DEF Turned
  <2> QED BY <2>1, <2>2, <1>5
<1>7. hull # <<>> => Staying(p) >= 1
  BY <1>5, <1>6, <1>1
<1> QED BY <1>5, <1>7

(* Nothing is gathered yet. *)
LEMMA FrontierInitially == FrontierInit => FrontierInv
<1> SUFFICES ASSUME FrontierInit PROVE FrontierInv
  OBVIOUS
<1>1. hull = <<>> /\ todo = {} /\ ready = FALSE
  BY DEF FrontierInit
<1>2. FrontierTypes
  <2>1. measured \in [Priced -> [cost : Costs, acc : 0..Top, trials : 0..MinTrials]]
    BY DEF FrontierInit
  <2>2. <<>> \in Seq(Points)
    OBVIOUS
  <2>3. todo \subseteq Policies
    BY <1>1
  <2>4. ready \in BOOLEAN
    BY ONLY <1>1
  <2> QED BY <2>1, <2>2, <2>3, <2>4, <1>1 DEF FrontierTypes
<1>3. Building
  BY <1>1 DEF Building
<1> QED BY <1>1, <1>2, <1>3 DEF FrontierInv

(* Gathering the policies leaves the hull empty. *)
LEMMA GatherKeeps == ASSUME FrontierInv, Gather PROVE FrontierInv'
<1>1. /\ hull = <<>> /\ ~ready /\ todo' = Policies /\ hull' = hull /\ measured' = measured
      /\ ready' = ready
  BY DEF Gather, FrontierInv, Built
<1>2. Policies' = Policies
  BY <1>1 DEF Policies, PointOf, Valued
<1>3. Taken' = {}
  BY <1>1, <1>2 DEF Taken
<1> QED BY <1>1, <1>2, <1>3 DEF FrontierInv, FrontierTypes, Building

(* A point that costs what the last one kept does changes nothing. *)
LEMMA SameCostKept ==
  ASSUME FrontierInv, ~ready, hull # <<>>, NEW p \in todo, NEW n \in 1..Len(hull),
         hull[n].cost = p.cost
  PROVE  /\ n = Len(hull) /\ p.acc <= hull[n].acc
         /\ Over(hull, Taken \cup {p})
         /\ Dearest(hull, Taken \cup {p})
<1> DEFINE N == Len(hull)
<1>1. /\ FrontierTypes /\ Over(hull, Taken) /\ Taken \subseteq Policies /\ p \in Policies
      /\ \A q \in Taken : q.cost <= hull[N].cost /\ (q.cost = hull[N].cost => q.acc <= hull[N].acc)
      /\ \A q \in Taken : Before(q, p)
  BY DEF FrontierInv, FrontierTypes, Building, NoneOver, LastIsDearest, Dearest, InOrder, Taken
<1>2. N \in Nat \ {0} /\ \A i \in 1..N : hull[i] \in Taken /\ hull[i] \in Points
  <2>1. hull \in Seq(Points)
    BY <1>1 DEF FrontierTypes
  <2> QED BY <2>1, <1>1 DEF Over
<1>3. p \in Points /\ p.cost \in Nat /\ p.acc \in Nat
  BY <1>1, PoliciesArePoints DEF Points
<1>4. \A i \in 1..N : hull[i].cost \in Nat /\ hull[i].acc \in Nat
  BY <1>2 DEF Points
<1>5. hull[N].cost <= p.cost /\ (hull[N].cost = p.cost => p.acc <= hull[N].acc)
  <2>1. hull[N] \in Taken /\ hull[N] \in Policies
    BY <1>1, <1>2
  <2> QED BY <2>1, <1>1, BeforeIsOrder
<1>6. n = N
  <2>1. n < N => hull[n].cost < hull[N].cost
    BY <1>1, <1>2 DEF Over
  <2> QED BY <2>1, <1>2, <1>3, <1>4, <1>5
<1>7. p.cost = hull[N].cost /\ p.acc <= hull[N].acc
  BY <1>5, <1>6
<1>8. \A i \in 1..N - 1 : Cross(hull[i], hull[i + 1], p) <= 0
  <2> TAKE i \in 1..N - 1
  <2>1. i \in 1..N /\ i + 1 \in 1..N /\ N \in 1..N /\ i < i + 1
    BY <1>2
  <2>2. hull[i].cost < hull[i + 1].cost /\ Cross(hull[i], hull[i + 1], hull[N]) <= 0
    BY <2>1, <1>1, <1>2 DEF Over
  <2>3. hull[i].cost <= hull[i + 1].cost
    BY <2>1, <2>2, <1>4
  <2>4. hull[i] \in Points /\ hull[i + 1] \in Points /\ hull[N] \in Points
    BY <2>1, <1>2
  <2> QED BY ONLY <2>2, <2>3, <2>4, <1>3, <1>7, BelowIsBelow
<1>9. p.cost = 0 => p.acc <= hull[1].acc
  <2> SUFFICES ASSUME p.cost = 0 PROVE p.acc <= hull[1].acc
    OBVIOUS
  <2>1. 1 < N => hull[1].cost < hull[N].cost
    BY <1>1, <1>2 DEF Over
  <2>2. N = 1
    <3>1. 1 \in 1..N /\ N \in 1..N /\ N \in Nat
      BY <1>2
    <3>2. hull[1].cost \in Nat /\ hull[N].cost = 0
      BY <3>1, <1>4, <1>7
    <3>3. ~(1 < N)
      BY <2>1, <3>2
    <3> HIDE DEF N
    <3> QED BY ONLY <3>1, <3>3
  <2> QED BY <2>2, <1>7
<1>10. Over(hull, Taken \cup {p})
  BY <1>1, <1>8, <1>9 DEF Over
<1>11. \A q \in Taken \cup {p} : q.cost <= hull[N].cost /\ (q.cost = hull[N].cost => q.acc <= hull[N].acc)
  BY <1>1, <1>3, <1>7
<1> QED BY <1>6, <1>7, <1>10, <1>11 DEF Dearest

(* A dearer one ends the kept points where the turn is concave, and none is
   over them. *)
LEMMA DearerKept ==
  ASSUME FrontierInv, ~ready, hull # <<>>, NEW p \in todo, NEW n \in 1..Len(hull),
         hull[n].cost # p.cost, Turned(hull, n, p), \A j \in n + 1..Len(hull) : ~Turned(hull, j, p),
         NEW h \in Seq(Points), Len(h) = n + 1, h[n + 1] = p, \A i \in 1..n : h[i] = hull[i]
  PROVE  /\ Over(h, Taken \cup {p})
         /\ \A q \in Taken \cup {p} : q.cost <= p.cost /\ (q.cost = p.cost => q.acc <= p.acc)
<1> DEFINE N == Len(hull)
<1>1. /\ FrontierTypes /\ Over(hull, Taken) /\ Taken \subseteq Policies /\ p \in Policies
      /\ \A q \in Taken : q.cost <= hull[N].cost /\ (q.cost = hull[N].cost => q.acc <= hull[N].acc)
      /\ \A q \in Taken : Before(q, p)
  BY DEF FrontierInv, FrontierTypes, Building, NoneOver, LastIsDearest, Dearest, InOrder, Taken
<1>2. N \in Nat \ {0} /\ \A i \in 1..N : hull[i] \in Taken /\ hull[i] \in Points
  <2>1. hull \in Seq(Points)
    BY <1>1 DEF FrontierTypes
  <2> QED BY <2>1, <1>1 DEF Over
<1>3. \A q \in Taken \cup {p} : q \in Points /\ q.cost \in Nat /\ q.acc \in Nat
  BY <1>1, PoliciesArePoints DEF Points
<1>4. \A q \in Taken : q.cost <= p.cost /\ (q.cost = p.cost => p.acc <= q.acc)
  BY <1>1, BeforeIsOrder
<1>5. hull[n].cost < p.cost
  BY <1>2, <1>3, <1>4
<1>6. \A i, j \in 1..N : i < j => hull[i].cost < hull[j].cost
  BY <1>1 DEF Over
<1>7. \A i \in 1..N : hull[i].cost \in Nat
  BY <1>2 DEF Points
<1>8. \A i \in 1..N - 1, q \in Taken : Cross(hull[i], hull[i + 1], q) <= 0
  BY <1>1 DEF Over
<1>9. \A j \in n + 1..N : Cross(hull[j - 1], hull[j], p) >= 0
  <2> TAKE j \in n + 1..N
  <2>1. j \in 1..N /\ j - 1 \in 1..N /\ j >= 2
    BY <1>2
  <2>2. ~(Cross(hull[j - 1], hull[j], p) < 0)
    BY <2>1 DEF Turned
  <2>3. Cross(hull[j - 1], hull[j], p) \in Int
    BY <2>1, <1>2, <1>3, CrossSeenFrom
  <2> QED BY <2>2, <2>3
<1>10. n >= 2 => Cross(hull[n - 1], hull[n], p) <= 0
  <2> SUFFICES ASSUME n >= 2 PROVE Cross(hull[n - 1], hull[n], p) <= 0
    OBVIOUS
  <2>1. n - 1 \in 1..N /\ n \in 1..N
    BY <1>2
  <2>2. Cross(hull[n - 1], hull[n], p) < 0
    BY <2>1 DEF Turned
  <2>3. Cross(hull[n - 1], hull[n], p) \in Int
    BY <2>1, <1>2, <1>3, CrossSeenFrom
  <2> QED BY <2>2, <2>3
<1>11. \A q \in Taken : q.cost = p.cost => q.acc <= p.acc
  <2> SUFFICES ASSUME NEW q \in Taken, q.cost = p.cost PROVE q.acc <= p.acc
    OBVIOUS
  <2>1. hull[N].cost = p.cost /\ q.acc <= hull[N].acc
    <3>1. hull[N] \in Taken /\ hull[N].cost \in Nat
      BY <1>2, <1>7
    <3>2. hull[N].cost <= p.cost /\ q.cost <= hull[N].cost
      BY <3>1, <1>1, <1>4
    <3> QED BY <3>1, <3>2, <1>1, <1>3
  <2>2. N \in n + 1..N /\ N - 1 \in 1..N - 1 /\ N - 1 \in 1..N /\ N \in 1..N
    BY <1>2, <1>5, <2>1, <1>7
  <2>3. Cross(hull[N - 1], hull[N], p) >= 0
    BY <2>2, <1>9
  <2> DEFINE dx == hull[N].cost - hull[N - 1].cost  dy == hull[N].acc - hull[N - 1].acc
  <2>4. hull[N - 1] \in Points /\ hull[N] \in Points /\ p \in Points
    BY <2>2, <1>2, <1>3
  <2>5. dy * (p.cost - hull[N - 1].cost) <= dx * (p.acc - hull[N - 1].acc)
    BY <2>3, <2>4, CrossSeenFrom
  <2>6. hull[N - 1].cost < hull[N].cost
    BY <2>2, <1>6
  <2>7. /\ hull[N - 1].acc \in Nat /\ hull[N].acc \in Nat /\ p.acc \in Nat
        /\ hull[N - 1].cost \in Nat /\ hull[N].cost \in Nat /\ q.acc \in Nat
    BY <2>4, <1>3 DEF Points
  <2>8. dx \in Nat \ {0} /\ dy \in Int /\ p.acc - hull[N - 1].acc \in Int
        /\ p.cost - hull[N - 1].cost = dx
    BY <2>1, <2>6, <2>7
  <2>9. dy <= p.acc - hull[N - 1].acc
    <3>1. dy * dx <= dx * (p.acc - hull[N - 1].acc)
      BY <2>5, <2>8
    <3> HIDE DEF dx, dy
    <3> DEFINE z == p.acc - hull[N - 1].acc
    <3>2. z \in Int /\ dy * dx <= dx * z
      BY <3>1, <2>8
    <3> HIDE DEF z
    <3>3. dy * dx <= z * dx
      BY ONLY <3>2, <2>8
    <3>4. dy <= z
      BY ONLY <3>2, <3>3, <2>8, FactorsInOrder
    <3> QED BY <3>4 DEF z
  <2>10. hull[N].acc <= p.acc
    BY <2>9, <2>7
  <2> QED BY <2>1, <2>7, <2>10
<1>12. \A i \in 1..n - 1 : Cross(hull[i], hull[i + 1], p) <= 0
  <2> TAKE i \in 1..n - 1
  <2>1. /\ i \in 1..N /\ i + 1 \in 1..N /\ n - 1 \in 1..N /\ n \in 1..N /\ i < n /\ i < i + 1
        /\ n - 1 < n /\ n >= 2 /\ n - 1 \in 1..N - 1 /\ i \in 1..N - 1 /\ n - 1 + 1 = n
    BY <1>2
  <2>2. /\ hull[i] \in Points /\ hull[i + 1] \in Points /\ hull[n - 1] \in Points
        /\ hull[n] \in Points /\ p \in Points /\ hull[i] \in Taken /\ hull[n] \in Taken
    BY <2>1, <1>2, <1>3
  <2>3. hull[i].cost < hull[i + 1].cost /\ hull[n - 1].cost < hull[n].cost /\ hull[i].cost < hull[n].cost
    BY <2>1, <1>6
  <2>4. hull[n].cost <= p.cost
    BY <2>2, <1>4
  <2>5. Cross(hull[i], hull[i + 1], hull[n]) <= 0
    BY <2>1, <2>2, <1>8
  <2>6. Cross(hull[n - 1], hull[n], hull[i]) <= 0
    <3>1. Cross(hull[n - 1], hull[n - 1 + 1], hull[i]) <= 0
      BY <2>1, <2>2, <1>8
    <3> QED BY <3>1, <2>1
  <2>7. Cross(hull[n - 1], hull[n], p) <= 0
    BY <2>1, <1>10
  <2> QED BY ONLY <2>2, <2>3, <2>4, <2>5, <2>6, <2>7, OldEdge
<1>13. \A q \in Taken : Cross(hull[n], p, q) <= 0
  <2> TAKE q \in Taken
  <2>1. hull[n] \in Points /\ p \in Points /\ q \in Points /\ n \in 1..N
    BY <1>2, <1>3
  <2>2. hull[n].cost \in Nat /\ q.cost \in Nat /\ p.cost \in Nat /\ hull[n].cost <= p.cost
    BY <2>1, <1>5 DEF Points
  <2>3. CASE q.cost <= hull[n].cost /\ n >= 2
    <3>1. n - 1 \in 1..N /\ n - 1 < n /\ n - 1 \in 1..N - 1 /\ n - 1 + 1 = n
      BY <2>3, <1>2
    <3>2. hull[n - 1] \in Points /\ hull[n - 1].cost < hull[n].cost
      BY <3>1, <2>1, <1>2, <1>6
    <3>3. Cross(hull[n - 1], hull[n], p) <= 0
      BY <2>3, <1>10
    <3>4. Cross(hull[n - 1], hull[n - 1 + 1], q) <= 0
      BY <3>1, <1>8
    <3>5. Cross(hull[n - 1], hull[n], q) <= 0
      BY <3>1, <3>4
    <3> QED BY ONLY <2>1, <2>2, <2>3, <3>2, <3>3, <3>5, NewEdgeLeft
  <2>4. CASE q.cost <= hull[n].cost /\ n = 1
    <3>1. hull[1].cost = 0 /\ (q.cost = 0 => q.acc <= hull[1].acc)
      BY <1>1 DEF Over
    <3>2. q.cost = 0 /\ hull[n].cost = 0 /\ q.acc <= hull[n].acc
      BY <3>1, <2>4, <2>2
    <3>3. p.cost - hull[n].cost \in Nat /\ q.acc - hull[n].acc \in Int /\ q.acc - hull[n].acc <= 0
          /\ q.cost - hull[n].cost = 0 /\ p.acc - hull[n].acc \in Int
      BY <3>2, <2>1, <2>2 DEF Points
    <3>4. (q.acc - hull[n].acc) * (p.cost - hull[n].cost) <= 0 * (p.cost - hull[n].cost)
      <4> DEFINE x == q.acc - hull[n].acc  z == p.cost - hull[n].cost
      <4>1. x \in Int /\ x <= 0 /\ z \in Nat /\ 0 \in Int
        BY <3>3
      <4> HIDE DEF x, z
      <4>2. x * z <= 0 * z
        BY ONLY <4>1, ProductsInOrder
      <4> QED BY <4>2 DEF x, z
    <3>5. (p.cost - hull[n].cost) * (q.acc - hull[n].acc) <= (p.acc - hull[n].acc) * (q.cost - hull[n].cost)
      BY ONLY <3>3, <3>4
    <3> QED BY <3>5, <2>1, CrossSeenFrom
  <2>5. CASE ~(q.cost <= hull[n].cost)
    <3>1. q.cost <= hull[N].cost
      BY <1>1
    <3>2. n # N /\ hull[n].cost <= q.cost
      BY <2>5, <3>1, <2>2
    <3>3. n + 1 \in n + 1..N /\ n + 1 \in 1..N /\ n \in 1..N - 1 /\ n < n + 1 /\ n + 1 - 1 = n
      BY <3>2, <1>2
    <3>4. hull[n + 1] \in Points /\ hull[n].cost < hull[n + 1].cost
      BY <3>3, <2>1, <1>2, <1>6
    <3>5. Cross(hull[n + 1 - 1], hull[n + 1], p) >= 0
      BY <3>3, <1>9
    <3>6. Cross(hull[n], hull[n + 1], p) >= 0 /\ Cross(hull[n], hull[n + 1], q) <= 0
      BY <3>3, <3>5, <1>8
    <3> QED BY ONLY <2>1, <2>2, <3>2, <3>4, <3>6, NewEdgeRight
  <2> QED BY <2>1, <2>3, <2>4, <2>5
<1>14. Cross(hull[n], p, p) <= 0
  <2>1. /\ hull[n].cost \in Int /\ hull[n].acc \in Int /\ p.cost \in Int /\ p.acc \in Int
    BY <1>2, <1>3 DEF Points
  <2> QED BY <2>1 DEF Cross
<1>15. \A q \in Taken \cup {p} : q.cost <= p.cost /\ (q.cost = p.cost => q.acc <= p.acc)
  BY <1>3, <1>4, <1>11
<1>16. Over(h, Taken \cup {p})
  <2>1. n \in 1..N /\ n \in Nat /\ Len(h) = n + 1
    BY <1>2
  <2>2. \A i \in 1..n : i \in 1..N /\ h[i] = hull[i]
    BY <2>1, <1>2
  <2>3. \A i \in 1..Len(h) : h[i] \in Taken \cup {p}
    <3> TAKE i \in 1..Len(h)
    <3>1. i \in 1..n \/ i = n + 1
      BY <2>1
    <3> QED BY <3>1, <2>2, <1>2
  <2>4. \A i, j \in 1..Len(h) : i < j => h[i].cost < h[j].cost
    <3> TAKE i, j \in 1..Len(h)
    <3> SUFFICES ASSUME i < j PROVE h[i].cost < h[j].cost
      OBVIOUS
    <3>1. i \in 1..n /\ (j \in 1..n \/ j = n + 1)
      BY <2>1
    <3>2. CASE j \in 1..n
      BY <3>1, <3>2, <2>2, <1>6
    <3>3. CASE j = n + 1
      <4>1. i = n \/ hull[i].cost < hull[n].cost
        BY <3>1, <2>1, <2>2, <1>6
      <4>2. hull[i].cost \in Nat /\ hull[n].cost \in Nat /\ p.cost \in Nat
        BY <3>1, <2>1, <2>2, <1>3, <1>7
      <4> QED BY <4>1, <4>2, <3>1, <3>3, <2>2, <1>5
    <3> QED BY <3>1, <3>2, <3>3
  <2>5. \A i \in 1..Len(h) - 1, q \in Taken \cup {p} : Cross(h[i], h[i + 1], q) <= 0
    <3> TAKE i \in 1..Len(h) - 1, q \in Taken \cup {p}
    <3>1. i \in 1..n /\ h[i] = hull[i]
      BY <2>1, <2>2
    <3>2. CASE i = n
      BY <3>1, <3>2, <1>13, <1>14
    <3>3. CASE i # n
      <4>1. i \in 1..n - 1 /\ i + 1 \in 1..n /\ i \in 1..N - 1
        BY <3>1, <3>3, <2>1
      <4>2. h[i + 1] = hull[i + 1]
        BY <4>1, <2>2
      <4> QED BY <4>1, <4>2, <3>1, <1>8, <1>12
    <3> QED BY <3>2, <3>3
  <2>6. 1 \in 1..n /\ h[1] = hull[1] /\ hull[1].cost = 0 /\ \A q \in Taken : q.cost = 0 => q.acc <= hull[1].acc
    BY <2>1, <2>2, <1>1 DEF Over
  <2>7. p.cost # 0
    BY <1>3, <1>5, <1>7
  <2> QED BY <2>3, <2>4, <2>5, <2>6, <2>7 DEF Over
<1> QED BY <1>15, <1>16

(* The first point taken costs nothing. *)
LEMMA FirstKept ==
  ASSUME FrontierInv, hull = <<>>, NEW p \in todo, \A q \in todo \ {p} : Before(p, q)
  PROVE  p.cost = 0 /\ Taken = {} /\ ~ready
<1>1. FrontierTypes /\ ~ready /\ todo \subseteq Policies
  BY DEF FrontierInv, Built, FrontierTypes
<1>2. Taken = {}
  BY <1>1 DEF FrontierInv, Building
<1>3. Origin \in todo /\ p \in Policies /\ Origin \in Policies
  BY <1>1, <1>2, PoliciesArePoints DEF Taken
<1>4. p = Origin \/ p.cost <= Origin.cost
  BY <1>1, <1>3, BeforeIsOrder
<1>5. p.cost \in Nat
  BY <1>1, <1>3, PoliciesArePoints DEF Points
<1> QED BY <1>1, <1>2, <1>4, <1>5 DEF Origin

(* Taking a point keeps the invariant: the edges that stay are over it, and the
   new one is over all that was taken. *)
LEMMA TakeKeeps == ASSUME FrontierInv, NEW p \in todo, Take(p) PROVE FrontierInv'
<1> DEFINE n == Staying(p)
           kept == SubSeq(hull, 1, n)
<1>1. /\ FrontierTypes /\ hull \in Seq(Points) /\ todo \subseteq Policies /\ ~ready
      /\ p \in Policies /\ p \in Points
  <2>1. FrontierTypes /\ ~ready
    BY DEF FrontierInv, Built
  <2> QED BY <2>1, PoliciesArePoints DEF FrontierTypes
<1>2. /\ \A q \in todo \ {p} : Before(p, q)
      /\ hull' = IF Len(kept) = 0 \/ kept[Len(kept)].cost # p.cost THEN Append(kept, p)
                 ELSE IF kept[Len(kept)].acc < p.acc THEN [kept EXCEPT ![Len(kept)] = p] ELSE kept
      /\ todo' = todo \ {p} /\ measured' = measured /\ ready' = ready
  BY DEF Take
<1>3. Policies' = Policies
  BY <1>2 DEF Policies, PointOf, Valued
<1>4. Taken' = Taken \cup {p}
  BY <1>1, <1>2, <1>3 DEF Taken
<1>5. /\ n \in 0..Len(hull) /\ Turned(hull, n, p) /\ \A j \in n + 1..Len(hull) : ~Turned(hull, j, p)
      /\ hull # <<>> => n >= 1
  BY <1>1, StayingTurns
<1>6. Len(hull) \in Nat /\ n \in Nat /\ kept \in Seq(Points) /\ Len(kept) = n
      /\ \A i \in 1..n : kept[i] = hull[i]
  <2> HIDE DEF n
  <2> QED BY <1>1, <1>5
<1>7. \A q \in Taken', r \in todo' : Before(q, r)
  <2> SUFFICES ASSUME NEW q \in Taken \cup {p}, NEW r \in todo \ {p} PROVE Before(q, r)
    BY <1>2, <1>4 DEF Before
  <2>1. Before(p, r)
    BY <1>2
  <2>2. CASE q \in Taken
    <3>1. hull # <<>>
      BY <2>2, <1>1, <1>2, FirstKept
    <3> QED BY <3>1, <2>2, <1>1 DEF FrontierInv, Building, InOrder
  <2> QED BY <2>1, <2>2
<1> HIDE DEF n, kept
<1>8. /\ hull' \in Seq(Points) /\ hull' # <<>> /\ Over(hull', Taken \cup {p})
      /\ Dearest(hull', Taken \cup {p})
  <2>1. CASE hull = <<>>
    <3>1. p.cost = 0 /\ Taken = {}
      BY <2>1, <1>2, FirstKept
    <3>2. n = 0 /\ hull' = Append(kept, p) /\ kept = <<>>
      BY <2>1, <1>2, <1>5, <1>6
    <3>3. hull' = <<p>> /\ Len(hull') = 1 /\ hull'[1] = p /\ hull' # <<>> /\ hull' \in Seq(Points)
      BY <3>2, <1>1
    <3>4. p.cost \in Nat /\ p.acc \in Nat
      BY <1>1 DEF Points
    <3>5. Over(hull', {p})
      BY <3>1, <3>3, <3>4 DEF Over
    <3> QED BY <3>1, <3>3, <3>4, <3>5 DEF Dearest
  <2>2. CASE hull # <<>> /\ hull[n].cost = p.cost
    <3>1. n \in 1..Len(hull)
      BY <2>2, <1>5, <1>6
    <3>2. /\ n = Len(hull) /\ p.acc <= hull[n].acc
          /\ Over(hull, Taken \cup {p})
          /\ Dearest(hull, Taken \cup {p})
      BY <3>1, <2>2, <1>1, SameCostKept
    <3>3. kept = hull
      BY <3>2, <1>1, <1>6 DEF kept
    <3>4. hull[n].acc \in Nat /\ p.acc \in Nat
      <4>1. hull[n] \in Points
        BY ONLY <3>1, <1>1
      <4> QED BY <4>1, <1>1 DEF Points
    <3>5. ~(hull[n].acc < p.acc)
      BY <3>2, <3>4
    <3>6. hull' = hull
      BY <3>1, <3>3, <3>5, <1>2, <1>6, <2>2
    <3> QED BY <3>2, <3>6, <1>1, <2>2
  <2>3. CASE hull # <<>> /\ hull[n].cost # p.cost
    <3>1. n \in 1..Len(hull)
      BY <2>3, <1>5, <1>6
    <3>2. hull' = Append(kept, p)
      BY <3>1, <2>3, <1>2, <1>6
    <3>3. /\ hull' \in Seq(Points) /\ Len(hull') = n + 1 /\ hull'[n + 1] = p
          /\ \A i \in 1..n : hull'[i] = hull[i]
      BY <3>1, <3>2, <1>1, <1>6
    <3>4. /\ Over(hull', Taken \cup {p})
          /\ \A q \in Taken \cup {p} : q.cost <= p.cost /\ (q.cost = p.cost => q.acc <= p.acc)
      BY <3>1, <3>3, <2>3, <1>1, <1>5, DearerKept
    <3>5. hull' # <<>>
      BY <3>3, <1>6
    <3> QED BY <3>3, <3>4, <3>5 DEF Dearest
  <2> QED BY <2>1, <2>2, <2>3
<1>9. NoneOver'
  BY <1>4, <1>8 DEF NoneOver, Over, Cross
<1>10. Building'
  <2>1. LastIsDearest'
    BY <1>4, <1>8 DEF LastIsDearest, Dearest
  <2>2. InOrder'
    BY <1>7 DEF InOrder, Before
  <2> QED BY <1>8, <1>9, <2>1, <2>2 DEF Building
<1>11. FrontierTypes'
  BY <1>1, <1>2, <1>3, <1>8 DEF FrontierTypes
<1> QED BY <1>1, <1>2, <1>10, <1>11 DEF FrontierInv

(* The peak is where the accuracy first falls, or the last point. *)
LEMMA PeakIsFirstFall ==
  ASSUME hull \in Seq(Points), hull # <<>>
  PROVE  /\ Peak \in 1..Len(hull)
         /\ \A i \in 1..Peak - 1 : hull[i].acc <= hull[i + 1].acc
         /\ Peak < Len(hull) => hull[Peak].acc > hull[Peak + 1].acc
<1> DEFINE N == Len(hull)
           T == {i \in 1..N : i < N => hull[i].acc > hull[i + 1].acc}
<1>1. N \in Nat \ {0} /\ N \in T
  BY DEF Points
<1>2. PICK n \in T : \A m \in T : n <= m
  <2>1. T \in SUBSET Nat /\ T # {}
    BY <1>1
  <2> HIDE DEF T
  <2> QED BY <2>1, LeastOf
<1>3. \A i \in 1..N : hull[i] \in Points /\ hull[i].acc \in Nat
  <2> TAKE i \in 1..N
  <2>1. hull[i] \in Points
    OBVIOUS
  <2> QED BY <2>1 DEF Points
<1>4. \A i \in 1..n - 1 : hull[i].acc <= hull[i + 1].acc
  <2> TAKE i \in 1..n - 1
  <2>1. i \in 1..N /\ i + 1 \in 1..N /\ ~(n <= i)
    BY <1>1, <1>2
  <2>2. ~(hull[i].acc > hull[i + 1].acc)
    BY <2>1, <1>2
  <2>3. hull[i].acc \in Nat /\ hull[i + 1].acc \in Nat
    BY <2>1, <1>3
  <2> QED BY <2>2, <2>3
<1>5. /\ n \in 1..N
      /\ \A i \in 1..n - 1 : hull[i].acc <= hull[i + 1].acc
      /\ n < N => hull[n].acc > hull[n + 1].acc
  BY <1>2, <1>4
<1> QED BY <1>5 DEF Peak

(* No point is over the peak. *)
LEMMA PeakIsBest ==
  ASSUME FrontierTypes, hull # <<>>, Over(hull, Policies), Dearest(hull, Policies),
         NEW q \in Policies
  PROVE  q.acc <= hull[Peak].acc
<1> DEFINE N == Len(hull)
           n == Peak
<1>1. N \in Nat \ {0} /\ \A i \in 1..N : hull[i] \in Policies /\ hull[i] \in Points
  BY DEF Over, FrontierTypes
<1>2. /\ n \in 1..N
      /\ \A i \in 1..n - 1 : hull[i].acc <= hull[i + 1].acc
      /\ n < N => hull[n].acc > hull[n + 1].acc
  BY PeakIsFirstFall DEF FrontierTypes
<1> SUFFICES q.acc <= hull[n].acc
  OBVIOUS
<1> HIDE DEF n
<1>3. q \in Points /\ q.cost \in Nat /\ q.acc \in Nat
  BY PoliciesArePoints DEF Points
<1>4. \A i \in 1..N : hull[i].cost \in Nat /\ hull[i].acc \in Nat
  BY <1>1 DEF Points
<1>5. \A i \in 1..N - 1 : hull[i].cost < hull[i + 1].cost /\ Cross(hull[i], hull[i + 1], q) <= 0
  <2> TAKE i \in 1..N - 1
  <2>1. i \in 1..N /\ i + 1 \in 1..N /\ i < i + 1
    BY <1>1
  <2> QED BY <2>1 DEF Over
<1>6. CASE q.cost >= hull[n].cost /\ n < N
  <2>1. n \in 1..N /\ n + 1 \in 1..N /\ n \in 1..N - 1
    BY <1>1, <1>2, <1>6
  <2> DEFINE dx == hull[n + 1].cost - hull[n].cost  dy == hull[n + 1].acc - hull[n].acc
             x == q.cost - hull[n].cost  y == q.acc - hull[n].acc
  <2>2. dx \in Nat \ {0} /\ -dy \in Nat /\ dy \in Int /\ x \in Nat /\ y \in Int
    <3>1. /\ hull[n].cost \in Nat /\ hull[n].acc \in Nat
          /\ hull[n + 1].cost \in Nat /\ hull[n + 1].acc \in Nat
      BY <2>1, <1>4
    <3>2. hull[n].cost < hull[n + 1].cost /\ hull[n].acc > hull[n + 1].acc
      BY <2>1, <1>2, <1>5, <1>6
    <3>3. dx \in Nat \ {0} /\ dy \in Int /\ dy <= 0
      BY ONLY <3>1, <3>2
    <3>4. x \in Nat /\ y \in Int
      BY ONLY <3>1, <1>3, <1>6
    <3> HIDE DEF dx, dy, x, y
    <3>5. -dy \in Nat
      BY ONLY <3>3
    <3> QED BY <3>3, <3>4, <3>5
  <2>3. dx * y <= dy * x
    BY <2>1, <1>1, <1>3, <1>5, CrossSeenFrom
  <2>4. y <= 0
    <3> HIDE DEF dx, dy, x, y
    <3>1. 0 * x <= (-dy) * x
      BY <2>2, ProductsInOrder
    <3>2. (-dy) * x = -(dy * x) /\ dy * x \in Int /\ dx * y \in Int /\ dx * y = y * dx
      BY ONLY <2>2
    <3>3. y * dx <= 0 * dx
      BY ONLY <3>1, <3>2, <2>2, <2>3
    <3> QED BY ONLY <3>3, <2>2, FactorsInOrder
  <2>5. hull[n].acc \in Nat
    BY <2>1, <1>4
  <2> QED BY <2>4, <2>5, <1>3
<1>7. CASE q.cost >= hull[n].cost /\ n = N
  <2>1. q.cost <= hull[N].cost /\ (q.cost = hull[N].cost => q.acc <= hull[N].acc)
    BY DEF Dearest
  <2>2. hull[n].cost \in Nat /\ n = N
    BY <1>2, <1>4, <1>7
  <2> QED BY <2>1, <2>2, <1>3, <1>7
<1>8. CASE q.cost < hull[n].cost /\ n >= 2
  <2>1. n \in 1..N /\ n - 1 \in 1..N - 1 /\ n - 1 \in 1..N /\ n - 1 + 1 = n /\ n - 1 \in 1..n - 1
    BY <1>1, <1>2, <1>8
  <2> DEFINE dx == hull[n].cost - hull[n - 1].cost  dy == hull[n].acc - hull[n - 1].acc
             x == q.cost - hull[n].cost  y == q.acc - hull[n].acc
  <2>2. hull[n - 1].cost < hull[n].cost /\ Cross(hull[n - 1], hull[n], q) <= 0
        /\ hull[n - 1].acc <= hull[n].acc
    <3>1. hull[n - 1].cost < hull[n - 1 + 1].cost /\ Cross(hull[n - 1], hull[n - 1 + 1], q) <= 0
          /\ hull[n - 1].acc <= hull[n - 1 + 1].acc
      BY <2>1, <1>2, <1>5
    <3> QED BY <2>1, <3>1
  <2>3. dx \in Nat \ {0} /\ dy \in Nat /\ -x \in Nat /\ x \in Int /\ y \in Int
    <3>1. /\ hull[n].cost \in Nat /\ hull[n].acc \in Nat
          /\ hull[n - 1].cost \in Nat /\ hull[n - 1].acc \in Nat
      BY <2>1, <1>4
    <3> QED BY <3>1, <2>2, <1>3, <1>8
  <2>4. dx * y <= dy * x
    BY <2>1, <2>2, <1>1, <1>3, CrossSeenFrom
  <2>5. y <= 0
    <3> HIDE DEF dx, dy, x, y
    <3>1. 0 * (-x) <= dy * (-x)
      BY <2>3, ProductsInOrder
    <3>2. dy * (-x) = -(dy * x) /\ dy * x \in Int /\ dx * y \in Int /\ dx * y = y * dx
      BY ONLY <2>3
    <3>3. y * dx <= 0 * dx
      BY ONLY <3>1, <3>2, <2>3, <2>4
    <3> QED BY ONLY <3>3, <2>3, FactorsInOrder
  <2>6. hull[n].acc \in Nat
    BY <2>1, <1>4
  <2> QED BY <2>5, <2>6, <1>3
<1>9. CASE q.cost < hull[n].cost /\ n = 1
  <2>1. hull[1].cost = 0
    BY DEF Over
  <2> QED BY <2>1, <1>3, <1>9
<1> QED BY <1>2, <1>3, <1>4, <1>6, <1>7, <1>8, <1>9

(* Flattening cuts the hull after its peak, and nothing is over what is left. *)
LEMMA FlattenKeeps == ASSUME FrontierInv, Flatten PROVE FrontierInv'
<1> DEFINE n == Peak
<1>1. /\ todo = {} /\ hull # <<>> /\ ~ready /\ ready' = TRUE /\ hull' = SubSeq(hull, 1, n)
      /\ measured' = measured /\ todo' = todo
  BY DEF Flatten
<1>2. FrontierTypes /\ hull \in Seq(Points) /\ Taken = Policies
  BY <1>1 DEF FrontierInv, FrontierTypes, Taken
<1>3. Over(hull, Policies) /\ Dearest(hull, Policies)
  BY <1>1, <1>2 DEF FrontierInv, Building, NoneOver, LastIsDearest
<1>4. n \in 1..Len(hull) /\ \A i \in 1..n - 1 : hull[i].acc <= hull[i + 1].acc
  BY <1>1, <1>2, PeakIsFirstFall
<1>5. \A q \in Policies : q.acc <= hull[n].acc
  BY <1>1, <1>2, <1>3, PeakIsBest
<1> HIDE DEF n
<1>6. hull' \in Seq(Points) /\ Len(hull') = n /\ \A i \in 1..n : hull'[i] = hull[i]
  BY <1>1, <1>2, <1>4
<1>7. Policies' = Policies
  BY <1>1 DEF Policies, PointOf, Valued
<1>8. n \in Nat \ {0} /\ \A i \in 1..n : i \in 1..Len(hull)
  BY <1>2, <1>4
<1>9. Over(hull', Policies)
  <2>1. \A i \in 1..n : hull'[i] \in Policies
    BY <1>3, <1>6, <1>8 DEF Over
  <2>2. \A i, j \in 1..n : i < j => hull'[i].cost < hull'[j].cost
    BY <1>3, <1>6, <1>8 DEF Over
  <2>3. 1 \in 1..n /\ hull'[1] = hull[1]
    BY <1>6, <1>8
  <2>4. \A i \in 1..n - 1, q \in Policies : Cross(hull'[i], hull'[i + 1], q) <= 0
    <3> TAKE i \in 1..n - 1, q \in Policies
    <3>1. i \in 1..n /\ i + 1 \in 1..n /\ i \in 1..Len(hull) - 1
      BY <1>2, <1>4, <1>8
    <3> QED BY <3>1, <1>3, <1>6 DEF Over
  <2> QED BY <2>1, <2>2, <2>3, <2>4, <1>3, <1>6 DEF Over
<1>10. \A i \in 1..n - 1 : hull'[i].acc <= hull'[i + 1].acc
  <2> TAKE i \in 1..n - 1
  <2>1. i \in 1..n /\ i + 1 \in 1..n
    BY <1>8
  <2> QED BY <2>1, <1>4, <1>6
<1>11. n \in 1..n /\ hull' # <<>>
  BY <1>6, <1>8
<1>12. \A q \in Policies : q.acc <= hull'[Len(hull')].acc
  BY <1>5, <1>6, <1>11
<1>13. Over(hull, Policies)'
  BY <1>7, <1>9 DEF Over, Cross
<1>14. Built'
  BY <1>1, <1>6, <1>7, <1>10, <1>11, <1>12, <1>13 DEF Built
<1>15. FrontierTypes'
  BY <1>1, <1>2, <1>6, <1>7 DEF FrontierTypes
<1> QED BY <1>1, <1>14, <1>15 DEF FrontierInv

(* Every step keeps the invariant. *)
LEMMA FrontierStep == ASSUME FrontierInv, [FrontierNext]_frontierVars PROVE FrontierInv'
<1>1. CASE FrontierNext
  BY <1>1, GatherKeeps, TakeKeeps, FlattenKeeps DEF FrontierNext
<1>2. CASE UNCHANGED frontierVars
  BY <1>2 DEF FrontierInv, FrontierTypes, Building, Built, NoneOver, LastIsDearest, Dearest, InOrder, Over,
              Taken, Policies, PointOf, Valued, Before, Cross, frontierVars
<1> QED BY <1>1, <1>2

(* What is below a rising line is no better than the line further right. *)
LEMMA PointBelowLine ==
  ASSUME NEW dx \in Nat \ {0}, NEW dy \in Nat, NEW ax \in Int, NEW ay \in Int,
         NEW px \in Int, NEW py \in Int, NEW c \in Int,
         dx * (py - ay) <= dy * (px - ax), 2 * px <= c
  PROVE  py * (2 * dx) <= ay * (2 * dx) + (c - 2 * ax) * dy
<1>1. (2 * px - 2 * ax) * dy <= (c - 2 * ax) * dy
  <2> DEFINE x == 2 * px - 2 * ax  y == c - 2 * ax
  <2>1. x \in Int /\ y \in Int /\ x <= y
    OBVIOUS
  <2> HIDE DEF x, y
  <2>2. x * dy <= y * dy
    BY ONLY <2>1, ProductsInOrder, dy \in Nat
  <2> QED BY <2>2 DEF x, y
<1>2. (2 * px - 2 * ax) * dy = 2 * (dy * (px - ax))
  OBVIOUS
<1>3. py * (2 * dx) = ay * (2 * dx) + 2 * (dx * (py - ay))
  OBVIOUS
<1>4. /\ py * (2 * dx) \in Int /\ ay * (2 * dx) \in Int /\ dx * (py - ay) \in Int
      /\ dy * (px - ax) \in Int /\ (c - 2 * ax) * dy \in Int /\ (2 * px - 2 * ax) * dy \in Int
  OBVIOUS
<1> QED BY ONLY <1>1, <1>2, <1>3, <1>4, dx * (py - ay) <= dy * (px - ax)

(* Nor is a mixture of two points below it: e apart, at s / 2 from the
   first. *)
LEMMA MixBelowLine ==
  ASSUME NEW dx \in Nat \ {0}, NEW dy \in Nat, NEW ax \in Int, NEW ay \in Int,
         NEW px \in Int, NEW py \in Int, NEW e \in Nat \ {0}, NEW qy \in Int,
         NEW s \in 0..2 * e, NEW c \in Int,
         dx * (py - ay) <= dy * (px - ax), dx * (qy - ay) <= dy * (px + e - ax),
         2 * px + s <= c
  PROVE  (py * (2 * e) + s * (qy - py)) * (2 * dx)
           <= (ay * (2 * dx) + (c - 2 * ax) * dy) * (2 * e)
<1> DEFINE t == 2 * e - s
           P == dx * (py - ay)  P2 == dy * (px - ax)
           Q == dx * (qy - ay)  Q2 == dy * (px + e - ax)
<1>1. t \in Nat /\ s \in Nat /\ P \in Int /\ P2 \in Int /\ Q \in Int /\ Q2 \in Int /\ P <= P2 /\ Q <= Q2
  OBVIOUS
<1>2. P * t <= P2 * t /\ Q * s <= Q2 * s
  <2> HIDE DEF t, P, P2, Q, Q2
  <2> QED BY ONLY <1>1, ProductsInOrder
<1>3. (py * (2 * e) + s * (qy - py)) * (2 * dx) = 2 * (P * t + Q * s) + (ay * (2 * dx)) * (2 * e)
  OBVIOUS
<1>4. 2 * (P2 * t + Q2 * s) = ((2 * px + s - 2 * ax) * dy) * (2 * e)
  OBVIOUS
<1>5. ((2 * px + s - 2 * ax) * dy) * (2 * e) <= ((c - 2 * ax) * dy) * (2 * e)
  <2> DEFINE x == 2 * px + s - 2 * ax  y == c - 2 * ax
  <2>1. x \in Int /\ y \in Int /\ x <= y /\ dy \in Nat /\ 2 * e \in Nat
    BY <1>1
  <2> HIDE DEF x, y
  <2>2. x * dy <= y * dy
    BY ONLY <2>1, ProductsInOrder
  <2>3. x * dy \in Int /\ y * dy \in Int
    BY ONLY <2>1
  <2>4. (x * dy) * (2 * e) <= (y * dy) * (2 * e)
    BY ONLY <2>1, <2>2, <2>3, ProductsInOrder
  <2> QED BY <2>4 DEF x, y
<1>6. (ay * (2 * dx) + (c - 2 * ax) * dy) * (2 * e)
        = (ay * (2 * dx)) * (2 * e) + ((c - 2 * ax) * dy) * (2 * e)
  OBVIOUS
<1>7. /\ P * t \in Int /\ P2 * t \in Int /\ Q * s \in Int /\ Q2 * s \in Int
  <2> HIDE DEF t, P, P2, Q, Q2
  <2> QED BY ONLY <1>1
<1>8. /\ (ay * (2 * dx)) * (2 * e) \in Int /\ ((c - 2 * ax) * dy) * (2 * e) \in Int
      /\ ((2 * px + s - 2 * ax) * dy) * (2 * e) \in Int
  BY <1>1
<1> HIDE DEF t, P, P2, Q, Q2
<1> QED BY ONLY <1>2, <1>3, <1>4, <1>5, <1>6, <1>7, <1>8

(* A mixture is no better than the better of the two. *)
LEMMA MixBelowBest ==
  ASSUME NEW py \in Int, NEW qy \in Int, NEW e \in Nat, NEW s \in 0..2 * e, NEW M \in Int,
         py <= M, qy <= M
  PROVE  py * (2 * e) + s * (qy - py) <= M * (2 * e)
<1> DEFINE t == 2 * e - s
<1>1. t \in Nat /\ s \in Nat
  OBVIOUS
<1>2. py * t <= M * t /\ qy * s <= M * s
  <2> HIDE DEF t
  <2> QED BY ONLY <1>1, ProductsInOrder, py \in Int, qy \in Int, M \in Int, py <= M, qy <= M
<1>3. py * (2 * e) + s * (qy - py) = py * t + qy * s /\ M * (2 * e) = M * t + M * s
  OBVIOUS
<1>4. py * t \in Int /\ M * t \in Int /\ qy * s \in Int /\ M * s \in Int
  BY <1>1
<1> HIDE DEF t
<1> QED BY ONLY <1>2, <1>3, <1>4

(* The two points a cost is between *)
LEMMA SegmentExists ==
  ASSUME FrontierInv, ready, NEW c \in Nat, ~(c >= 2 * hull[Len(hull)].cost)
  PROVE  /\ Segment(c) \in 1..Len(hull) - 1
         /\ 2 * hull[Segment(c)].cost <= c /\ c <= 2 * hull[Segment(c) + 1].cost
<1> DEFINE N == Len(hull)
           T == {i \in 1..N : 2 * hull[i].cost <= c}
<1>1. hull \in Seq(Points) /\ hull # <<>> /\ hull[1].cost = 0
  BY DEF FrontierInv, FrontierTypes, Built, Over
<1>2. N \in Nat \ {0} /\ \A i \in 1..N : hull[i].cost \in Nat
  <2>1. N \in Nat \ {0} /\ \A i \in 1..N : hull[i] \in Points
    BY <1>1
  <2> QED BY <2>1 DEF Points
<1>3. 1 \in T
  BY <1>1, <1>2
<1>4. PICK i \in T : \A j \in T : j <= i
  <2>1. T \in SUBSET (0..N) /\ T # {} /\ N \in Nat
    <3>1. T \subseteq 1..N /\ 1..N \subseteq 0..N
      OBVIOUS
    <3> HIDE DEF T
    <3> QED BY <3>1, <1>2, <1>3
  <2> HIDE DEF T, N
  <2> QED BY ONLY <2>1, GreatestOf
<1>5. i \in 1..N - 1 /\ i + 1 \in 1..N
  <2>1. i # N
    OBVIOUS
  <2> QED BY <2>1, <1>2
<1>6. i + 1 \notin T
  BY <1>4, <1>5
<1>7. c <= 2 * hull[i + 1].cost
  <2>1. hull[i + 1].cost \in Nat /\ ~(2 * hull[i + 1].cost <= c)
    BY <1>2, <1>5, <1>6
  <2> QED BY <2>1
<1>8. \E k \in 1..Len(hull) - 1 : 2 * hull[k].cost <= c /\ c <= 2 * hull[k + 1].cost
  BY <1>5, <1>7
<1> QED BY <1>8 DEF Segment

(* f is an accuracy at c that no policy and no mixture that costs c or less
   is over. *)
Best(f, c) ==
  /\ f[1] \in Int /\ f[2] \in Nat \ {0}
  /\ \A p \in Policies : 2 * p.cost <= c => p.acc * f[2] <= f[1]
  /\ \A p, q \in Policies, d \in 0..c :
       p.cost < q.cost /\ 2 * p.cost <= d /\ d <= 2 * q.cost
         => Between(p, q, d)[1] * f[2] <= f[1] * Between(p, q, d)[2]

(* The accuracy of the best policy is the best of all. *)
LEMMA BestAtEnd ==
  ASSUME FrontierInv, NEW M \in Int, \A q \in Policies : q.acc <= M, NEW c \in Nat
  PROVE  Best(<<M, 1>>, c)
<1> DEFINE f == <<M, 1>>
<1>1. FrontierTypes
  BY DEF FrontierInv
<1>2. \A p \in Policies : p.cost \in Nat /\ p.acc \in Nat
  BY <1>1, PoliciesArePoints DEF Points
<1>3. f[1] = M /\ f[2] = 1
  OBVIOUS
<1>4. \A p \in Policies : p.acc * 1 <= M
  BY <1>2
<1>5. ASSUME NEW p \in Policies, NEW q \in Policies, NEW d \in 0..c,
             p.cost < q.cost, 2 * p.cost <= d, d <= 2 * q.cost
      PROVE  Between(p, q, d)[1] * 1 <= M * Between(p, q, d)[2]
  <2> DEFINE e == q.cost - p.cost  s == d - 2 * p.cost
  <2>1. e \in Nat /\ s \in 0..2 * e /\ p.acc \in Int /\ q.acc \in Int /\ p.acc <= M /\ q.acc <= M
    BY <1>2, <1>5
  <2>2. Between(p, q, d)[1] = p.acc * (2 * e) + s * (q.acc - p.acc) /\ Between(p, q, d)[2] = 2 * e
    BY DEF Between
  <2> HIDE DEF e, s
  <2>3. p.acc * (2 * e) + s * (q.acc - p.acc) <= M * (2 * e)
    BY ONLY <2>1, M \in Int, MixBelowBest
  <2>4. p.acc * (2 * e) + s * (q.acc - p.acc) \in Int
    BY ONLY <2>1
  <2> QED BY <2>2, <2>3, <2>4
<1> QED BY <1>3, <1>4, <1>5 DEF Best

(* And so is the point of the edge that a cost is on. *)
LEMMA BestOnEdge ==
  ASSUME FrontierInv, ready, NEW c \in Nat, NEW i \in 1..Len(hull) - 1, 2 * hull[i].cost <= c
  PROVE  Best(Between(hull[i], hull[i + 1], c), c)
<1> DEFINE a == hull[i]
           b == hull[i + 1]
           dx == b.cost - a.cost
           dy == b.acc - a.acc
           f == Between(a, b, c)
<1>1. FrontierTypes /\ Over(hull, Policies) /\ hull \in Seq(Points) /\ a.acc <= b.acc
  BY DEF FrontierInv, FrontierTypes, Built
<1>2. i \in 1..Len(hull) /\ i + 1 \in 1..Len(hull) /\ i < i + 1
  BY <1>1
<1>3. a \in Points /\ b \in Points /\ a.cost < b.cost
  BY <1>1, <1>2 DEF Over
<1>4. \A p \in Policies : p \in Points /\ p.cost \in Nat /\ p.acc \in Nat
  BY <1>1, PoliciesArePoints DEF Points
<1>5. \A p \in Policies : dx * (p.acc - a.acc) <= dy * (p.cost - a.cost)
  <2> TAKE p \in Policies
  <2>1. Cross(a, b, p) <= 0
    BY <1>1 DEF Over
  <2> QED BY <2>1, <1>3, <1>4, CrossSeenFrom
<1>6. a.cost \in Nat /\ a.acc \in Nat /\ b.cost \in Nat /\ b.acc \in Nat
  BY <1>3 DEF Points
<1>7. dx \in Nat \ {0} /\ dy \in Nat
  BY <1>1, <1>3, <1>6
<1>8. f[1] = a.acc * (2 * dx) + (c - 2 * a.cost) * dy /\ f[2] = 2 * dx
  BY DEF Between
<1> SUFFICES Best(f, c)
  OBVIOUS
<1> HIDE DEF a, b, dx, dy, f
<1>9. f[1] \in Int /\ f[2] \in Nat \ {0}
  <2>1. c - 2 * a.cost \in Int /\ 2 * dx \in Nat \ {0} /\ a.acc \in Int /\ dy \in Int
    BY ONLY <1>6, <1>7, c \in Nat
  <2>2. a.acc * (2 * dx) \in Int /\ (c - 2 * a.cost) * dy \in Int
    BY ONLY <2>1
  <2> QED BY ONLY <1>8, <2>1, <2>2
<1>10. ASSUME NEW p \in Policies, 2 * p.cost <= c PROVE p.acc * f[2] <= f[1]
  <2>1. p.acc * (2 * dx) <= a.acc * (2 * dx) + (c - 2 * a.cost) * dy
    <3>1. p.cost \in Int /\ p.acc \in Int /\ a.cost \in Int /\ a.acc \in Int /\ c \in Int
          /\ dx * (p.acc - a.acc) <= dy * (p.cost - a.cost)
      BY <1>4, <1>5, <1>6
    <3> QED BY ONLY <3>1, <1>7, <1>10, PointBelowLine
  <2> QED BY <2>1, <1>8
<1>11. ASSUME NEW p \in Policies, NEW q \in Policies, NEW d \in 0..c,
              p.cost < q.cost, 2 * p.cost <= d, d <= 2 * q.cost
       PROVE  Between(p, q, d)[1] * f[2] <= f[1] * Between(p, q, d)[2]
  <2> DEFINE e == q.cost - p.cost  s == d - 2 * p.cost
  <2>1. /\ e \in Nat \ {0} /\ s \in 0..2 * e /\ p.cost + e = q.cost /\ 2 * p.cost + s <= c
        /\ p.cost \in Int /\ p.acc \in Int /\ q.acc \in Int /\ c \in Int
        /\ a.cost \in Int /\ a.acc \in Int
    <3>1. p.cost \in Nat /\ q.cost \in Nat /\ p.acc \in Nat /\ q.acc \in Nat /\ d \in Nat /\ d <= c
      BY <1>4
    <3>2. p.cost < q.cost /\ 2 * p.cost <= d /\ d <= 2 * q.cost
      BY <1>11
    <3>3. e \in Nat \ {0} /\ s \in 0..2 * e /\ p.cost + e = q.cost /\ 2 * p.cost + s <= c
      BY ONLY <3>1, <3>2, c \in Nat
    <3> HIDE DEF e, s
    <3>4. /\ p.cost \in Int /\ p.acc \in Int /\ q.acc \in Int /\ c \in Int
          /\ a.cost \in Int /\ a.acc \in Int
      BY ONLY <3>1, <1>6, c \in Nat
    <3> QED BY ONLY <3>3, <3>4
  <2>2. Between(p, q, d)[1] = p.acc * (2 * e) + s * (q.acc - p.acc) /\ Between(p, q, d)[2] = 2 * e
    BY DEF Between
  <2> HIDE DEF e, s
  <2>3. dx * (p.acc - a.acc) <= dy * (p.cost - a.cost) /\ dx * (q.acc - a.acc) <= dy * (p.cost + e - a.cost)
    BY <2>1, <1>5
  <2>4. (p.acc * (2 * e) + s * (q.acc - p.acc)) * (2 * dx)
          <= (a.acc * (2 * dx) + (c - 2 * a.cost) * dy) * (2 * e)
    BY ONLY <2>1, <2>3, <1>7, MixBelowLine
  <2> QED BY <2>2, <2>4, <1>8
<1> QED BY <1>9, <1>10, <1>11 DEF Best

(* At every cost the frontier is such a best, and reached. *)
LEMMA FrontierIsBest ==
  ASSUME FrontierInv, ready, NEW c \in Nat
  PROVE  Best(AccuracyAt(c), c) /\ \E r \in Reachable(c) : r[1] = AccuracyAt(c)[1] /\ r[2] = AccuracyAt(c)[2]
<1> DEFINE N == Len(hull)
<1>1. /\ FrontierTypes /\ Over(hull, Policies) /\ hull \in Seq(Points) /\ hull # <<>>
      /\ \A q \in Policies : q.acc <= hull[N].acc
  BY DEF FrontierInv, FrontierTypes, Built
<1>2. N \in Nat \ {0} /\ \A i \in 1..N : hull[i] \in Policies /\ hull[i] \in Points
  BY <1>1 DEF Over
<1>3. CASE c >= 2 * hull[N].cost
  <2>1. AccuracyAt(c) = <<hull[N].acc, 1>>
    BY <1>3 DEF AccuracyAt
  <2>2. hull[N] \in Policies /\ hull[N].acc \in Int /\ hull[N].cost \in Nat
    BY <1>2 DEF Points
  <2>3. Best(AccuracyAt(c), c)
    BY <2>1, <2>2, <1>1, BestAtEnd
  <2>4. <<hull[N].acc, 1>> \in Reachable(c)
    <3>1. 2 * hull[N].cost <= c
      BY <1>3, <2>2
    <3> QED BY <2>2, <3>1 DEF Reachable
  <2> QED BY <2>1, <2>3, <2>4
<1>4. CASE ~(c >= 2 * hull[N].cost)
  <2> DEFINE i == Segment(c)
  <2>1. AccuracyAt(c) = Between(hull[i], hull[i + 1], c)
    BY <1>4 DEF AccuracyAt
  <2>2. i \in 1..N - 1 /\ 2 * hull[i].cost <= c /\ c <= 2 * hull[i + 1].cost
    BY <1>4, SegmentExists
  <2> HIDE DEF i
  <2>3. Best(AccuracyAt(c), c)
    BY <2>1, <2>2, BestOnEdge
  <2>4. i \in 1..N /\ i + 1 \in 1..N /\ i < i + 1
    BY <2>2, <1>2
  <2>5. hull[i] \in Policies /\ hull[i + 1] \in Policies /\ hull[i].cost < hull[i + 1].cost
    BY <2>4, <1>1, <1>2 DEF Over
  <2>6. <<hull[i], hull[i + 1]>> \in Mixes(c)
    BY <2>2, <2>5 DEF Mixes
  <2>7. Between(hull[i], hull[i + 1], c) \in Reachable(c)
    BY <2>6 DEF Reachable
  <2> QED BY <2>1, <2>3, <2>7
<1> QED BY <1>3, <1>4

(* At every cost the frontier is the best of all models and mixtures of two, and
   is one of them. *)
LEMMA BestMixtureReached == ASSUME FrontierInv PROVE FrontierIsBestMixture
<1> SUFFICES ASSUME ready, NEW c \in HalfCosts
             PROVE  /\ \A r \in Reachable(c) : r[1] * AccuracyAt(c)[2] <= AccuracyAt(c)[1] * r[2]
                    /\ \E r \in Reachable(c) : r[1] * AccuracyAt(c)[2] = AccuracyAt(c)[1] * r[2]
  BY DEF FrontierIsBestMixture
<1> DEFINE f == AccuracyAt(c)
<1>1. c \in Nat /\ c \in 0..c
  BY FrontierAssumption DEF HalfCosts
<1>2. Best(f, c) /\ \E r \in Reachable(c) : r[1] = f[1] /\ r[2] = f[2]
  BY <1>1, FrontierIsBest
<1> HIDE DEF f
<1>3. ASSUME NEW r \in Reachable(c) PROVE r[1] * f[2] <= f[1] * r[2]
  <2>1. CASE \E p \in Policies : 2 * p.cost <= c /\ r = <<p.acc, 1>>
    <3>1. PICK p \in Policies : 2 * p.cost <= c /\ r = <<p.acc, 1>>
      BY <2>1
    <3>2. p.acc * f[2] <= f[1] /\ f[1] \in Int
      BY <3>1, <1>2 DEF Best
    <3> QED BY <3>1, <3>2
  <2>2. CASE \E pq \in Mixes(c) : r = Between(pq[1], pq[2], c)
    <3>1. PICK pq \in Mixes(c) : r = Between(pq[1], pq[2], c)
      BY <2>2
    <3>2. /\ pq[1] \in Policies /\ pq[2] \in Policies /\ pq[1].cost < pq[2].cost
          /\ 2 * pq[1].cost <= c /\ c <= 2 * pq[2].cost
      BY DEF Mixes
    <3> QED BY <3>1, <3>2, <1>1, <1>2 DEF Best
  <2>3. (\E p \in Policies : 2 * p.cost <= c /\ r = <<p.acc, 1>>)
        \/ \E pq \in Mixes(c) : r = Between(pq[1], pq[2], c)
    BY DEF Reachable
  <2> QED BY <2>1, <2>2, <2>3
<1>4. \E r \in Reachable(c) : r[1] * f[2] = f[1] * r[2]
  BY <1>2
<1> QED BY <1>3, <1>4 DEF f

(* The frontier never falls. *)
LEMMA FrontierRises ==
  ASSUME FrontierInv, ready, NEW c \in Nat, NEW d \in 0..c
  PROVE  AccuracyAt(d)[1] * AccuracyAt(c)[2] <= AccuracyAt(c)[1] * AccuracyAt(d)[2]
<1> DEFINE f == AccuracyAt(c)
           g == AccuracyAt(d)
<1>1. d \in Nat /\ d <= c
  OBVIOUS
<1>2. Best(f, c)
  BY FrontierIsBest
<1>3. \E r \in Reachable(d) : r[1] = g[1] /\ r[2] = g[2]
  BY <1>1, FrontierIsBest
<1>4. \A p \in Policies : p.cost \in Nat
  BY PoliciesArePoints DEF FrontierInv, Points
<1> HIDE DEF f, g
<1>5. ASSUME NEW r \in Reachable(d) PROVE r[1] * f[2] <= f[1] * r[2]
  <2>1. CASE \E p \in Policies : 2 * p.cost <= d /\ r = <<p.acc, 1>>
    <3>1. PICK p \in Policies : 2 * p.cost <= d /\ r = <<p.acc, 1>>
      BY <2>1
    <3>2. 2 * p.cost <= c
      BY <3>1, <1>1, <1>4
    <3>3. p.acc * f[2] <= f[1] /\ f[1] \in Int
      BY <3>2, <1>2 DEF Best
    <3> QED BY <3>1, <3>3
  <2>2. CASE \E pq \in Mixes(d) : r = Between(pq[1], pq[2], d)
    <3>1. PICK pq \in Mixes(d) : r = Between(pq[1], pq[2], d)
      BY <2>2
    <3>2. /\ pq[1] \in Policies /\ pq[2] \in Policies /\ pq[1].cost < pq[2].cost
          /\ 2 * pq[1].cost <= d /\ d <= 2 * pq[2].cost
      BY DEF Mixes
    <3> QED BY <3>1, <3>2, <1>2 DEF Best
  <2>3. (\E p \in Policies : 2 * p.cost <= d /\ r = <<p.acc, 1>>)
        \/ \E pq \in Mixes(d) : r = Between(pq[1], pq[2], d)
    BY DEF Reachable
  <2> QED BY <2>1, <2>2, <2>3
<1> QED BY <1>3, <1>5 DEF f, g

(* What is over a ratio at a cost is over any ratio that is no greater. *)
LEMMA OverLower ==
  ASSUME NEW l \in Int, NEW f1 \in Int, NEW f2 \in Nat \ {0}, NEW g1 \in Int, NEW g2 \in Nat \ {0},
         l * f2 > f1, g1 * f2 <= f1 * g2
  PROVE  l * g2 > g1
<1> SUFFICES ASSUME l * g2 <= g1 PROVE FALSE
  OBVIOUS
<1>1. (l * g2) * f2 <= g1 * f2
  <2>1. l * g2 \in Int
    OBVIOUS
  <2> QED BY <2>1, ProductsInOrder
<1>2. (f1 + 1) * g2 <= (l * f2) * g2
  <2>1. l * f2 \in Int /\ f1 + 1 \in Int /\ f1 + 1 <= l * f2 /\ g2 \in Nat
    OBVIOUS
  <2> QED BY ONLY <2>1, ProductsInOrder
<1>3. (f1 + 1) * g2 = f1 * g2 + g2 /\ (l * f2) * g2 = (l * g2) * f2
  OBVIOUS
<1>4. f1 * g2 \in Int /\ (l * g2) * f2 \in Int /\ g1 * f2 \in Int
  OBVIOUS
<1> QED BY ONLY <1>1, <1>2, <1>3, <1>4, g1 * f2 <= f1 * g2, g2 \in Nat \ {0}

(* What earns at a cost earns at every lower one. *)
LEMMA CheaperIsEasier == ASSUME FrontierInv PROVE DearerIsNoEasier
<1> SUFFICES ASSUME ready, NEW lcb \in 0..Top, NEW c \in HalfCosts, Earns(lcb, c),
                    NEW d \in HalfCosts, d <= c
             PROVE  Earns(lcb, d)
  BY DEF DearerIsNoEasier
<1> DEFINE f == AccuracyAt(c)
           g == AccuracyAt(d)
<1>1. c \in Nat /\ d \in Nat /\ d \in 0..c
  BY FrontierAssumption DEF HalfCosts
<1>2. f[1] \in Int /\ f[2] \in Nat \ {0} /\ g[1] \in Int /\ g[2] \in Nat \ {0}
  BY <1>1, FrontierIsBest DEF Best
<1>3. g[1] * f[2] <= f[1] * g[2]
  BY <1>1, FrontierRises
<1>4. lcb * f[2] > f[1]
  BY DEF Earns
<1>5. lcb \in Int
  BY FrontierAssumption
<1>6. lcb * g[2] > g[1]
  <2> HIDE DEF f, g
  <2> QED BY ONLY <1>2, <1>3, <1>4, <1>5, OverLower
<1> QED BY <1>6 DEF Earns

(* While a model is unmeasured, pay needs a cheaper one that is perfect. *)
LEMMA UnknownIsUnpaid == ASSUME FrontierInv PROVE UnknownPaysNobody
<1> SUFFICES ASSUME ready, NEW m \in Priced, measured[m].trials = 0,
                    NEW lcb \in 0..Top, NEW c \in HalfCosts, Earns(lcb, c)
             PROVE  \E k \in Priced : /\ measured[k].trials > 0 /\ measured[k].acc = Top
                                      /\ measured[k].cost <= measured[m].cost
  BY DEF UnknownPaysNobody
<1> DEFINE N == Len(hull)
           u == PointOf(m)
<1>1. /\ FrontierTypes /\ Over(hull, Policies) /\ hull \in Seq(Points) /\ hull # <<>>
      /\ \A i \in 1..N - 1 : hull[i].acc <= hull[i + 1].acc
      /\ \A q \in Policies : q.acc <= hull[N].acc
  BY DEF FrontierInv, FrontierTypes, Built
<1>2. N \in Nat \ {0} /\ \A i \in 1..N : hull[i] \in Policies /\ hull[i] \in Points
  BY <1>1 DEF Over
<1>3. \A i \in 1..N : hull[i].cost \in Nat /\ hull[i].acc \in Nat /\ hull[i].acc <= Top
  BY <1>1, <1>2, PoliciesArePoints DEF Points
<1>4. u \in Policies /\ u \in Points /\ u.acc = Top /\ u.cost = measured[m].cost /\ u.cost \in Nat
  <2>1. u \in Policies /\ u.acc = Top /\ u.cost = measured[m].cost
    BY DEF Policies, PointOf, Valued
  <2> QED BY <2>1, <1>1, PoliciesArePoints DEF Points
<1> HIDE DEF u
<1>5. Top \in Nat \ {0}
  BY FrontierAssumption
<1> DEFINE T == {i \in 1..N : hull[i].acc = Top}
<1>6. N \in T
  <2>1. N \in 1..N /\ Top <= hull[N].acc
    BY <1>1, <1>2, <1>4
  <2>2. hull[N].acc \in Nat /\ hull[N].acc <= Top
    BY <2>1, <1>3
  <2> QED BY <2>1, <2>2, <1>5
<1>7. PICK i \in T : \A j \in T : i <= j
  <2>1. T \in SUBSET Nat /\ T # {}
    BY <1>2, <1>6
  <2> HIDE DEF T
  <2> QED BY ONLY <2>1, LeastOf
<1>8. i \in 1..N /\ hull[i].acc = Top
  OBVIOUS
<1>9. hull[i].cost <= u.cost
  <2>1. CASE i = 1
    <3>1. hull[i].cost = 0
      BY <2>1, <1>1 DEF Over
    <3> QED BY <3>1, <1>4
  <2>2. CASE i # 1
    <3>1. i - 1 \in 1..N - 1 /\ i - 1 \in 1..N /\ i - 1 + 1 = i /\ ~(i <= i - 1) /\ i - 1 < i
      BY <2>2, <1>2, <1>8
    <3>2. i - 1 \notin T
      BY <3>1, <1>7
    <3>3. hull[i - 1].acc # Top
      BY <3>1, <3>2
    <3>4. hull[i - 1].acc \in Nat /\ hull[i - 1].acc < Top /\ hull[i - 1].cost \in Nat
      BY <3>1, <3>3, <1>3, <1>5
    <3>5. hull[i - 1].cost < hull[i].cost
      BY <3>1, <1>1, <1>8 DEF Over
    <3>6. Cross(hull[i - 1], hull[i - 1 + 1], u) <= 0
      BY <3>1, <1>1, <1>4 DEF Over
    <3> DEFINE dx == hull[i].cost - hull[i - 1].cost  dy == hull[i].acc - hull[i - 1].acc
               x == u.cost - hull[i].cost
    <3>7. dx * (u.acc - hull[i].acc) <= dy * x
      <4>1. Cross(hull[i - 1], hull[i], u) <= 0
        BY <3>1, <3>6
      <4>2. hull[i - 1] \in Points /\ hull[i] \in Points
        BY <3>1, <1>2, <1>8
      <4> QED BY <4>1, <4>2, <1>4, CrossSeenFrom
    <3>8. hull[i].cost \in Nat
      BY <1>3, <1>8
    <3>9. dx \in Nat \ {0} /\ dy \in Nat \ {0} /\ x \in Int /\ u.acc - hull[i].acc = 0
      BY <3>4, <3>5, <3>8, <1>4, <1>5, <1>8
    <3>10. 0 <= x
      <4> HIDE DEF dx, dy, x
      <4>1. dx * 0 <= dy * x
        BY <3>7, <3>9
      <4>2. 0 * dy <= x * dy
        BY ONLY <3>9, <4>1
      <4> QED BY ONLY <3>9, <4>2, FactorsInOrder
    <3> QED BY <3>8, <3>10, <1>4
  <2> QED BY <2>1, <2>2
<1>10. PICK k \in Priced : hull[i] = PointOf(k)
  <2>1. hull[i] \in Policies /\ hull[i] # Origin
    BY <1>2, <1>5, <1>8 DEF Origin
  <2> QED BY <2>1 DEF Policies
<1>11. k \in HullModels
  <2>1. hull[i].model = k /\ i \in DOMAIN hull
    BY <1>1, <1>8, <1>10 DEF PointOf
  <2>2. k # 0
    BY FrontierAssumption
  <2> QED BY <2>1, <2>2 DEF HullModels
<1>12. measured[k].trials > 0
  BY <1>11 DEF Earns, Confident
<1>13. measured[k].trials # 0
  BY <1>12
<1>14. measured[k].acc = Top /\ measured[k].cost = hull[i].cost
  BY <1>8, <1>10, <1>13 DEF PointOf, Valued
<1> QED BY <1>4, <1>9, <1>12, <1>14

(* The invariant implies the property. *)
LEMMA FrontierSafe == FrontierInv => FrontierSafety
  BY BestMixtureReached, UnknownIsUnpaid, CheaperIsEasier DEF FrontierSafety

(* At every cost the frontier is the best mixture of two policies, an
   unmeasured model pays nobody, and spending more never makes it easier to be
   paid: for every price table and every frame. *)
THEOREM FrontierAlwaysSafe == FrontierSpec => []FrontierSafety
<1>1. FrontierSpec => []FrontierInv
  <2>1. FrontierInv /\ [FrontierNext]_frontierVars => FrontierInv'
    BY FrontierStep
  <2> QED BY <2>1, FrontierInitially, PTL DEF FrontierSpec
<1> QED BY <1>1, FrontierSafe, PTL

=============================================================================
