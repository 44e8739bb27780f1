------------------------------ MODULE Frontier ------------------------------
(***************************************************************************)
(* The constant-policy frontier of one epoch and what it pays: _hull of    *)
(* frontier.py, one point at a time, accuracy_at and confidence, and       *)
(* composite of scoring.py.  Costs and accuracies are integers, Top is     *)
(* accuracy 1.0, and a miner is what composite reads of its evidence: its  *)
(* lower bound and its cost per question, in halves of a unit.             *)
(***************************************************************************)
EXTENDS Integers, Sequences

CONSTANTS
  Priced,      \* the models of the price table, 1..n in sorted order
  Costs,       \* what a model can cost per question
  MaxCost,     \* and at most
  Top,         \* accuracy 1.0
  MinTrials,   \* FRONTIER_MIN_TRIALS
  FloorNum, FloorDen   \* SCORE_QUALITY_FLOOR

ASSUME FrontierAssumption ==
  /\ Priced \subseteq Nat \ {0} /\ Costs \subseteq 0..MaxCost /\ MaxCost \in Nat
  /\ {Top, MinTrials, FloorDen} \subseteq Nat \ {0} /\ FloorNum \in 0..FloorDen

VARIABLES
  measured,  \* model |-> cost, mean accuracy and trials in the frame
  todo,      \* points to take
  hull,      \* points kept
  ready      \* the frontier is built

frontierVars == <<measured, todo, hull, ready>>

Origin == [cost |-> 0, acc |-> 0, model |-> 0]

(* frontier_accuracy: an unmeasured model is taken at its best. *)
Valued(m) == IF measured[m].trials = 0 THEN Top ELSE measured[m].acc

PointOf(m) == [cost |-> measured[m].cost, acc |-> Valued(m), model |-> m]

Before(p, q) ==
  \/ p.cost < q.cost
  \/ p.cost = q.cost /\ p.acc > q.acc
  \/ p.cost = q.cost /\ p.acc = q.acc /\ p.model < q.model

(* All that reads no question: no answer, or one model's. *)
Policies == {Origin} \cup {PointOf(m) : m \in Priced}

(* build_frontier: each model's cost and accuracy *)
Gather ==
  /\ todo = {} /\ hull = <<>>
  /\ todo' = Policies
  /\ UNCHANGED <<measured, hull, ready>>

Cross(o, a, b) ==
  (a.cost - o.cost) * (b.acc - o.acc) - (a.acc - o.acc) * (b.cost - o.cost)

(* Mutant of Turned: convex instead of concave *)
TurnedConvex(h, n, p) == n < 2 \/ Cross(h[n - 1], h[n], p) > 0

Turned(h, n, p) == n < 2 \/ Cross(h[n - 1], h[n], p) < 0

(* How many points stay before p: the last ones make a non-concave turn. *)
Staying(p) ==
  CHOOSE n \in 0..Len(hull) :
    Turned(hull, n, p) /\ \A j \in n + 1..Len(hull) : ~Turned(hull, j, p)

(* The next point in order is kept, unless it costs what the one before does. *)
Take(p) ==
  /\ \A q \in todo \ {p} : Before(p, q)
  /\ LET kept == SubSeq(hull, 1, Staying(p))
         n == Len(kept)
     IN  hull' = IF n = 0 \/ kept[n].cost # p.cost THEN Append(kept, p)
                 ELSE IF kept[n].acc < p.acc THEN [kept EXCEPT ![n] = p] ELSE kept
  /\ todo' = todo \ {p}
  /\ UNCHANGED <<measured, ready>>

(* As far as the most accurate point *)
Peak ==
  CHOOSE n \in 1..Len(hull) :
    /\ \A i \in 1..n - 1 : hull[i].acc <= hull[i + 1].acc
    /\ n < Len(hull) => hull[n].acc > hull[n + 1].acc

(* Flat after the peak *)
Flatten ==
  /\ todo = {} /\ hull # <<>> /\ ~ready
  /\ ready' = TRUE /\ hull' = SubSeq(hull, 1, Peak)
  /\ UNCHANGED <<measured, todo>>

FrontierInit ==
  /\ measured \in [Priced -> [cost : Costs, acc : 0..Top, trials : 0..MinTrials]]
  /\ todo = {} /\ hull = <<>> /\ ready = FALSE

FrontierNext == Gather \/ (\E p \in todo : Take(p)) \/ Flatten

(* The two points a cost is between *)
Segment(c) ==
  CHOOSE i \in 1..Len(hull) - 1 : 2 * hull[i].cost <= c /\ c <= 2 * hull[i + 1].cost

(* Between two points, at c / 2, as a pair numerator, denominator *)
Between(p, q, c) ==
  <<p.acc * (2 * (q.cost - p.cost)) + (c - 2 * p.cost) * (q.acc - p.acc), 2 * (q.cost - p.cost)>>

(* accuracy_at *)
AccuracyAt(c) ==
  IF c >= 2 * hull[Len(hull)].cost THEN <<hull[Len(hull)].acc, 1>>
  ELSE Between(hull[Segment(c)], hull[Segment(c) + 1], c)

HullModels == {hull[i].model : i \in DOMAIN hull} \ {0}
MaxAccuracy == hull[Len(hull)].acc

(* Frontier.confidence is not zero *)
Confident == HullModels # {} /\ \A m \in HullModels : measured[m].trials > 0

(* composite is positive *)
Earns(lcb, c) ==
  /\ lcb > 0 /\ lcb * FloorDen >= FloorNum * MaxAccuracy
  /\ lcb * AccuracyAt(c)[2] > AccuracyAt(c)[1]
  /\ Confident

FrontierSpec == FrontierInit /\ [][FrontierNext]_frontierVars

-----------------------------------------------------------------------------
HalfCosts == 0..2 * MaxCost + 1

(* What reads no question: a policy, or a mixture of two. *)
Mixes(c) == {pq \in Policies \X Policies :
               2 * pq[1].cost <= c /\ c <= 2 * pq[2].cost /\ pq[1].cost < pq[2].cost}
Reachable(c) ==
  {<<p.acc, 1>> : p \in {q \in Policies : 2 * q.cost <= c}} \cup
  {Between(pq[1], pq[2], c) : pq \in Mixes(c)}

(* "The frontier is the upper convex hull of the per-model points, together
   with the origin" (frontier.py): at every cost the frontier is the best of
   all single models and all mixtures of two, and one of them reaches it. *)
FrontierIsBestMixture ==
  ready => \A c \in HalfCosts :
    LET f == AccuracyAt(c)
    IN  /\ \A r \in Reachable(c) : r[1] * f[2] <= f[1] * r[2]
        /\ \E r \in Reachable(c) : r[1] * f[2] = f[1] * r[2]

(* "A cold frame pays nobody" (frontier.py): while a model is unmeasured, a
   router is paid only if some cheaper model is known to be perfect. *)
UnknownPaysNobody ==
  ready => \A m \in Priced : measured[m].trials = 0 =>
    \/ \E k \in Priced : /\ measured[k].trials > 0 /\ measured[k].acc = Top
                         /\ measured[k].cost <= measured[m].cost
    \/ \A lcb \in 0..Top, c \in HalfCosts : ~Earns(lcb, c)

(* The frontier rises ever more slowly and never falls, so that a miner gains
   nothing by spending more for the same answers. *)
DearerIsNoEasier ==
  ready => \A lcb \in 0..Top, c \in HalfCosts :
             Earns(lcb, c) => \A d \in HalfCosts : d <= c => Earns(lcb, d)

(* Whom the frontier pays, on every frame. *)
FrontierSafety == FrontierIsBestMixture /\ UnknownPaysNobody /\ DearerIsNoEasier

=============================================================================
