--------------------------- MODULE ConsensusAudit ---------------------------
(***************************************************************************)
(* The offline comparison of validators' epoch reports:                    *)
(* fugal_subnet/consensus.py.  Scores and weights are whole percents;      *)
(* medians, the mean of two for an even count, are kept doubled.           *)
(***************************************************************************)
EXTENDS Sums, Sequences, FiniteSets, FiniteSetsExt, Functions

CONSTANTS
  ReportChoices,     \* reports: scores and weights by UID, hash of the commitment
  SubnetUids,        \* UIDs of the subnet, from 0
  MinValidators,     \* CONSENSUS_MIN_VALIDATORS
  ScoreThreshold,    \* SCORE_DIVERGENCE_THRESHOLD
  WeightThreshold,   \* WEIGHT_DIVERGENCE_THRESHOLD
  GapThreshold,      \* 0.3
  MaxReports         \* bound: reports compared

ASSUME AuditAssumption ==
  /\ MinValidators \in Nat \ {0, 1} /\ MaxReports \in Nat /\ SubnetUids \in Nat
  /\ {ScoreThreshold, WeightThreshold, GapThreshold} \subseteq Nat
  /\ \A r \in ReportChoices :
       /\ r.scores \in [DOMAIN r.scores -> 0..100] /\ r.weights \in [DOMAIN r.weights -> Nat]
       /\ DOMAIN r.scores \cup DOMAIN r.weights \subseteq 0..SubnetUids - 1

VARIABLES
  reports,    \* the reports collected, the auditing validator's own first
  result,     \* ConsensusResult
  warnings    \* of check_self_consistency

auditVars == <<reports, result, warnings>>

None == [scores |-> <<>>, weights |-> <<>>, scoreOutliers |-> {}, weightOutliers |-> {}, valid |-> TRUE]

AuditTypeOK ==
  /\ reports \in Seq(ReportChoices) /\ Len(reports) <= MaxReports
  /\ result.scoreOutliers \cup result.weightOutliers \subseteq DOMAIN reports
  /\ \A u \in DOMAIN result.scores : result.scores[u] \in 0..200
  /\ warnings \subseteq {"divergence", "gap", "rank"}

AuditInit == reports = <<>> /\ result = None /\ warnings = {}

-----------------------------------------------------------------------------

Gap(a, b) == IF a > b THEN a - b ELSE b - a

(* The sum of what f is for some UIDs. *)
Summed(f) == SumTo([n \in 1..SubnetUids |-> IF n - 1 \in DOMAIN f THEN f[n - 1] ELSE 0], SubnetUids)

(* The k-th smallest of the values f takes, each as often as it takes it. *)
Kth(f, k) ==
  CHOOSE x \in Range(f) :
    /\ Cardinality({i \in DOMAIN f : f[i] < x}) < k
    /\ Cardinality({i \in DOMAIN f : f[i] <= x}) >= k

(* np.median, doubled. *)
Doubled(f) ==
  LET n == Cardinality(DOMAIN f) IN Kth(f, (n + 1) \div 2) + Kth(f, n \div 2 + 1)

Scored == UNION {DOMAIN reports[i].scores : i \in DOMAIN reports}
Paid(r, u) == IF u \in DOMAIN r.weights THEN r.weights[u] ELSE 0

ConsensusScores ==
  [u \in Scored |->
     Doubled([i \in {j \in DOMAIN reports : u \in DOMAIN reports[j].scores} |-> reports[i].scores[u]])]

(* Over the scored UIDs alone, the others being paid nothing. *)
ConsensusWeights == [u \in Scored |-> Doubled([i \in DOMAIN reports |-> Paid(reports[i], u)])]

(* Mutant of ScoreDiverges: the sum of the differences. *)
ScoreDivergesSummed(mine, doubled) ==
  Summed([u \in DOMAIN mine \cap DOMAIN doubled |-> Gap(2 * mine[u], doubled[u])]) > 2 * ScoreThreshold

(* The mean difference on the UIDs shared is past the threshold. *)
ScoreDiverges(mine, doubled) ==
  LET common == DOMAIN mine \cap DOMAIN doubled
  IN Summed([u \in common |-> Gap(2 * mine[u], doubled[u])]) > 2 * ScoreThreshold * Cardinality(common)

(* L1 over the UIDs of either. *)
WeightDiverges(r, doubled) ==
  Summed([u \in DOMAIN r.weights \cup DOMAIN doubled |->
            Gap(2 * Paid(r, u), IF u \in DOMAIN doubled THEN doubled[u] ELSE 0)])
    > 2 * WeightThreshold

(* Ranks, the best first; equal scores keep the order pos of the dict. *)
RankOrder(scores, pos) ==
  [u \in DOMAIN scores |->
     Cardinality({w \in DOMAIN scores :
       \/ scores[w] > scores[u]
       \/ scores[w] = scores[u] /\ pos[w] < pos[u]})]

(* Kendall's tau is under one half. *)
RanksDisagree(a, b, common) ==
  LET pairs == kSubset(2, common)
      concordant == {p \in pairs : \E u, w \in p : a[u] < a[w] /\ b[u] < b[w]}
  IN 2 * (2 * Cardinality(concordant) - Cardinality(pairs)) < Cardinality(pairs)

-----------------------------------------------------------------------------

AddReport ==
  /\ result = None /\ Len(reports) < MaxReports
  /\ \E r \in ReportChoices : reports' = Append(reports, r)
  /\ UNCHANGED <<result, warnings>>

(* compute_consensus: too few reports are taken as they are. *)
TooFew ==
  /\ result = None /\ Len(reports) \in 1..MinValidators - 1
  /\ result' = [None EXCEPT !.scores = [u \in DOMAIN reports[1].scores |-> 2 * reports[1].scores[u]],
                            !.weights = [u \in DOMAIN reports[1].weights |-> 2 * reports[1].weights[u]]]
  /\ UNCHANGED <<reports, warnings>>

(* Commitments that differ invalidate the comparison. *)
Audit ==
  /\ result = None /\ Len(reports) >= MinValidators
  /\ result' =
       [scores |-> ConsensusScores, weights |-> ConsensusWeights,
        scoreOutliers |-> {i \in DOMAIN reports : ScoreDiverges(reports[i].scores, ConsensusScores)},
        weightOutliers |-> {i \in DOMAIN reports : WeightDiverges(reports[i], ConsensusWeights)},
        valid |-> Cardinality({reports[i].hash : i \in DOMAIN reports} \ {""}) <= 1]
  /\ UNCHANGED <<reports, warnings>>

(* The order of a JSON object's keys: the sorted one, or any other. *)
Positions(uids) == {f \in [uids -> 1..Cardinality(uids)] : IsInjective(f)}

(* check_self_consistency of the first report, its keys in some order; the
   consensus has them sorted, or as they were when it is a copy. *)
SelfCheck ==
  /\ result # None /\ warnings = {}
  /\ LET mine == reports[1].scores
         common == DOMAIN mine \cap DOMAIN result.scores
     IN \E pos \in Positions(DOMAIN mine) :
          LET theirs == IF Len(reports) < MinValidators THEN pos ELSE [u \in DOMAIN result.scores |-> u]
          IN warnings' =
               IF result.scores = <<>> THEN {}
               ELSE (IF ScoreDiverges(mine, result.scores) THEN {"divergence"} ELSE {})
                    \cup (IF \E u \in common : Gap(2 * mine[u], result.scores[u]) > 2 * GapThreshold
                          THEN {"gap"} ELSE {})
                    \cup (IF /\ Cardinality(common) >= 3
                             /\ RanksDisagree(RankOrder(mine, pos), RankOrder(result.scores, theirs), common)
                          THEN {"rank"} ELSE {})
  /\ UNCHANGED <<reports, result>>

AuditNext == AddReport \/ TooFew \/ Audit \/ SelfCheck

AuditSpec == AuditInit /\ [][AuditNext]_auditVars

-----------------------------------------------------------------------------

Audited == result # None /\ Len(reports) >= MinValidators
Alike(i) == {j \in DOMAIN reports : reports[j] = reports[i]}
Majority(i) == 2 * Cardinality(Alike(i)) > Len(reports)

(* A majority that reports the same scores cannot be made outliers by the
   others, whatever they report and whichever UIDs they score. *)
MajorityIsNotAccused ==
  Audited => \A i \in DOMAIN reports : Majority(i) => i \notin result.scoreOutliers

(* The weights of such a majority are outliers exactly when they pay more than
   the threshold to UIDs that no report scores, as the burn UID is: agreement
   does not help then. *)
AccusedForTheUnscored ==
  Audited => \A i \in DOMAIN reports : Majority(i) =>
    (i \in result.weightOutliers <=>
       Summed([u \in DOMAIN reports[i].weights \ Scored |-> reports[i].weights[u]]) > WeightThreshold)

(* Each of two is half their difference from the median: when they score the
   same UIDs both are outliers or neither, from twice the threshold on. *)
TwoDivergeByHalf ==
  Audited /\ Len(reports) = 2 /\ DOMAIN reports[1].scores = DOMAIN reports[2].scores =>
    LET uids == DOMAIN reports[1].scores
        apart == Summed([u \in uids |-> Gap(reports[1].scores[u], reports[2].scores[u])])
    IN result.scoreOutliers = IF apart > 2 * ScoreThreshold * Cardinality(uids) THEN {1, 2} ELSE {}

(* A validator whose scores are the consensus is not warned, unless some are
   equal: ranks of equal scores follow the order of each dict. *)
AgreeingIsNotWarned ==
  result # None /\ warnings # {} =>
    \/ \E u \in DOMAIN result.scores \cap DOMAIN reports[1].scores :
         result.scores[u] # 2 * reports[1].scores[u]
    \/ \E u, w \in DOMAIN reports[1].scores : u # w /\ reports[1].scores[u] = reports[1].scores[w]

(* Whom the comparison of reports accuses or warns, and whom never. *)
AuditSafety ==
  /\ AuditTypeOK /\ MajorityIsNotAccused /\ AccusedForTheUnscored
  /\ TwoDivergeByHalf /\ AgreeingIsNotWarned

=============================================================================
