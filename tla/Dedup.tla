-------------------------------- MODULE Dedup --------------------------------
(***************************************************************************)
(* fugal_subnet/dedup.py: find_duplicates (one pass over the UIDs in       *)
(* ascending order, each gathering a cluster) and epsilon_disqualified     *)
(* (every pair), as the epoch loop of neurons/validator.py runs them.      *)
(*                                                                         *)
(* What two heads' decisions and weights say of each other is given: alike *)
(* is clause 1 or 2 (behaviour or parameters), near is clause 3's          *)
(* agreement, which holds of any two heads whose behaviour is alike.       *)
(* Neither is transitive.                                                  *)
(***************************************************************************)
EXTENDS Naturals, FiniteSets

CONSTANTS
  N,        \* heads verified this epoch; their UIDs are 1..N
  MaxKey,   \* a seniority key is 1..MaxKey
  MaxScore  \* a composite score is 0..MaxScore; one more beats it by epsilon

ASSUME DedupAssumption == N \in Nat \ {0} /\ MaxKey \in Nat /\ MaxScore \in Nat

VARIABLES
  alike,         \* pairs of UIDs clause 1 or 2 calls one head
  near,          \* pairs of UIDs clause 3 compares
  seniority,     \* commit_blocks: seniority_key of each UID
  score,         \* composite scores
  next,          \* the UID find_duplicates visits next; N + 1 when it is done
  clustered,     \* UIDs in a cluster
  disqualified,  \* UIDs disqualified
  done           \* both passes are over

inputs == <<alike, near, seniority, score>>
dedupVars == <<inputs, next, clustered, disqualified, done>>

Verified == 1..N
Pairs == {p \in SUBSET Verified : Cardinality(p) = 2}

DedupTypeOK ==
  /\ alike \subseteq Pairs /\ near \subseteq Pairs
  /\ seniority \in [Verified -> 1..MaxKey] /\ score \in [Verified -> 0..MaxScore]
  /\ next \in 1..N + 1 /\ clustered \subseteq Verified
  /\ disqualified \subseteq Verified /\ done \in BOOLEAN

DedupInit ==
  /\ alike \in SUBSET Pairs /\ near \in SUBSET Pairs
  /\ seniority \in [Verified -> 1..MaxKey] /\ score \in [Verified -> 0..MaxScore]
  /\ next = 1 /\ clustered = {} /\ disqualified = {} /\ done = FALSE

(* a is senior to b: lower key, then lower UID (the sort is stable, and the
   pairs are visited with the lower UID first). *)
Senior(a, b) ==
  seniority[a] < seniority[b] \/ (seniority[a] = seniority[b] /\ a < b)

(* The cluster gathered around u: every later UID alike to it and in no
   cluster yet. *)
Cluster(u) == {u} \cup {v \in Verified \ clustered : v > u /\ {u, v} \in alike}

Survivor(c, u) == u \in c /\ \A v \in c \ {u} : Senior(u, v)

(* Mutant of Visit: the UID that gathered the cluster survives. *)
VisitKeepsFirst ==
  /\ next <= N
  /\ next' = next + 1
  /\ IF next \in clustered \/ Cluster(next) = {next}
       THEN UNCHANGED <<clustered, disqualified>>
       ELSE /\ clustered' = clustered \cup Cluster(next)
            /\ disqualified' = disqualified \cup (Cluster(next) \ {next})
  /\ UNCHANGED <<inputs, done>>

(* find_duplicates, one UID of the outer loop. *)
Visit ==
  /\ next <= N
  /\ next' = next + 1
  /\ IF next \in clustered \/ Cluster(next) = {next}
       THEN UNCHANGED <<clustered, disqualified>>
       ELSE /\ clustered' = clustered \cup Cluster(next)
            /\ disqualified' = disqualified \cup
                 {v \in Cluster(next) : ~Survivor(Cluster(next), v)}
  /\ UNCHANGED <<inputs, done>>

(* epsilon_disqualified: of two near heads, the junior one must beat the
   senior one, disqualified or not. *)
Epsilon ==
  /\ next = N + 1 /\ ~done
  /\ disqualified' = disqualified \cup
       {b \in Verified : \E a \in Verified : /\ {a, b} \in near /\ Senior(a, b)
                                     /\ score[b] <= score[a]}
  /\ done' = TRUE
  /\ UNCHANGED <<inputs, next, clustered>>

DedupNext == Visit \/ Epsilon

DedupSpec == DedupInit /\ [][DedupNext]_dedupVars

-----------------------------------------------------------------------------
Linked == alike \cup near
Reaches(S) == S \cup {v \in Verified : \E u \in S : {u, v} \in Linked}
(* Everything two links of likeness away, or nearer. *)
Kin(u) == Reaches(Reaches({u}))

(* However the copies are chained and the UIDs numbered, a disqualified head
   is at most two links from one that is senior to it: of all the heads a chain
   connects the senior one is kept, and the field never loses every head
   ("in every clause the senior head survives", dedup.py). *)
KinKeepsSenior ==
  \A u \in disqualified : \E v \in Kin(u) : Senior(v, u)

(* dedup.py: any one of the clauses "marks a head a copy of a senior one": when
   both passes are over, of two heads that are alike the junior one is
   disqualified. *)
EveryCopyDisqualified ==
  done => \A u, v \in Verified :
    {u, v} \in alike /\ Senior(v, u) => u \in disqualified

(* The clustering of copies, for every likeness and seniority. *)
CopiesSafety == DedupTypeOK /\ KinKeepsSenior

=============================================================================
