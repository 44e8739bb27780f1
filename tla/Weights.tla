------------------------------- MODULE Weights -------------------------------
(***************************************************************************)
(* rewards.py on one epoch: compute_weights, then cap_weight_change        *)
(* against the weights of the epoch before.  A weight is a numerator over  *)
(* the denominator its state names: shares are over Parts, capped and      *)
(* final ones over the sum of all.                                         *)
(***************************************************************************)
EXTENDS Sums

CONSTANTS
  NumUids, BurnUid,   \* UIDs are 1..NumUids here
  ScoreLevels,  \* a composite score is 0..ScoreLevels
  PaidLevels,   \* the frontier's confidence is 0..PaidLevels over PaidLevels
  Units,        \* the weights of the epoch before are in units of 1/Units
  Delta         \* MAX_WEIGHT_DELTA in such units

ASSUME WeightsAssumption ==
  /\ NumUids \in Nat /\ BurnUid \in 1..NumUids
  /\ {ScoreLevels, PaidLevels, Units} \subseteq Nat \ {0} /\ Delta \in 0..Units

VARIABLES
  prev,      \* weights of the epoch before, over Units
  records,   \* UID |-> score
  out,       \* UIDs disqualified, or absent for too long
  paid,      \* paid_fraction, over PaidLevels
  shares,    \* compute_weights, over Parts
  final      \* cap_weight_change, over their sum

weightsVars == <<prev, records, out, paid, shares, final>>

WeightUids == 1..NumUids
Sum1(f) == SumTo(f, NumUids)
Unset == [u \in WeightUids |-> 0]

WeightsInit ==
  /\ prev \in {f \in [WeightUids -> 0..Units] : Sum1(f) = Units}
  /\ records \in [WeightUids -> 0..ScoreLevels]
  /\ out \in SUBSET (WeightUids \ {BurnUid}) /\ paid \in 0..PaidLevels
  /\ shares = Unset /\ final = Unset

Ranked1 == WeightUids \ (out \cup {BurnUid})
Earned == Sum1([u \in WeightUids |-> IF u \in Ranked1 THEN records[u] ELSE 0])
Parts == PaidLevels * (IF Earned = 0 THEN 1 ELSE Earned)

(* Mutant of ShareOf: the disqualified are ranked with the others *)
ShareOfAll(u) == IF Earned = 0 \/ u = BurnUid THEN 0 ELSE paid * records[u]

ShareOf(u) == IF Earned = 0 \/ u \notin Ranked1 THEN 0 ELSE paid * records[u]

Assigned == [u \in WeightUids |-> ShareOf(u)]

(* compute_weights: what nobody is assigned is burnt. *)
Share ==
  /\ shares = Unset
  /\ shares' = [Assigned EXCEPT ![BurnUid] = Parts - Sum1(Assigned)]
  /\ UNCHANGED <<prev, records, out, paid, final>>

Clamp(old, target, most) ==
  CASE target > old + most -> old + most
    [] target < old - most -> old - most
    [] OTHER -> target

(* cap_weight_change, over Parts * Units until it is normalised *)
CapChange ==
  /\ shares # Unset /\ final = Unset
  /\ final' = [u \in WeightUids |->
       Clamp(prev[u] * Parts, shares[u] * Units, Delta * Parts)]
  /\ UNCHANGED <<prev, records, out, paid, shares>>

WeightsNext == Share \/ CapChange

WeightsSpec == WeightsInit /\ [][WeightsNext]_weightsVars

-----------------------------------------------------------------------------
Change(u) ==   \* of the weight of u, over Units * Sum1(final)
  final[u] * Units - prev[u] * Sum1(final)

(* Whatever scores, disqualifications and confidence an epoch ends with, every
   share is assigned to somebody, nobody is paid who is out, and the miners
   together get no more than the frontier's confidence. *)
SharesAddUp ==
  shares # Unset =>
    /\ Sum1(shares) = Parts
    /\ \A u \in out \ {BurnUid} : shares[u] = 0
    /\ (Parts - shares[BurnUid]) * PaidLevels <= paid * Parts

(* A miner that is out loses weight even when the renormalization raises
   those who fall less than they should.  So it is while the cap is a quarter
   of all weight, and it is 0.3 unless it is set otherwise: under a lower one
   whoever held half the weight may hold more. *)
OutNeverRises ==
  final # Unset /\ 4 * Delta >= Units => \A u \in out \ {BurnUid} : Change(u) <= 0

(* How long a miner that is out is still paid: a weight within the cap is gone
   at the next update, and of a larger one, w, no more than (w - Delta) / w is
   left, however the renormalization stretches it.  With a cap of 0.3 that is
   from all of the weight to none of it in six updates. *)
OutFallsByCap ==
  final # Unset => \A u \in out \ {BurnUid} :
    IF prev[u] <= Delta THEN final[u] = 0
    ELSE final[u] * prev[u] <= (prev[u] - Delta) * Sum1(final)

(* The weight vector of an epoch, from the shares to the cap. *)
WeightsSafety == SharesAddUp /\ OutNeverRises /\ OutFallsByCap

=============================================================================
