-------------------------- MODULE ExplorationVotes --------------------------
(***************************************************************************)
(* What an epoch's exploration answers say (fugal_subnet/                  *)
(* reference_frame.py): one vote per coldkey, the median of the votes, and *)
(* the two detectors that keep an operator's answers out of the frame.     *)
(* exploration.py gives each slot a model of its own (there are fewer      *)
(* slots than models), so a slot is named by its model.  An epoch's        *)
(* answers are a function from the UIDs with a verified proof to what      *)
(* each got in each slot; a failed call is graded as not correct.          *)
(***************************************************************************)
EXTENDS Sums, FiniteSets, SequencesExt

CONSTANTS
  Uids, Models,
  NumColdkeys,     \* coldkeys are 1..NumColdkeys here
  Owner,           \* the coldkey of each UID
  Answers,         \* what the miners whose proofs verify may answer in an epoch
  Unit,            \* one correct answer; a multiple of twice any number of hotkeys
  MinVoters,       \* EXPLORE_DISAGREE_MIN_VOTERS
  MinJudged,       \* EXPLORE_DISAGREE_MIN_SAMPLES
  MaxDisagree,     \* EXPLORE_DISAGREE_MAX, in percent
  MinSamples,      \* implausible_exploration's min_samples
  Margin           \* and its margin, in percent

Coldkeys == 1..NumColdkeys

ASSUME VotesAssumption ==
  /\ NumColdkeys \in Nat
  /\ Owner \in [Uids -> Coldkeys]
  /\ \A a \in Answers : /\ DOMAIN a \in (SUBSET Uids) \ {{}}
                       /\ a \in [DOMAIN a -> [Models -> {"right", "wrong", "failed"}]]
  /\ {Unit, MinVoters, MinJudged, MinSamples} \subseteq Nat \ {0}
  /\ {MaxDisagree, Margin} \subseteq 0..100
  /\ IsFiniteSet(Uids) /\ IsFiniteSet(Models)

-----------------------------------------------------------------------------
(* aggregate_observations *)

(* Mutant of Voting: a failed call votes *)
VotingFailed(a, k, m) == {u \in DOMAIN a : Owner[u] = k}

Voting(a, k, m) == {u \in DOMAIN a : Owner[u] = k /\ a[u][m] # "failed"}

Voters(a, m, excluded) == {k \in Coldkeys \ excluded : Voting(a, k, m) # {}}

(* An operator's vote is the average of its hotkeys. *)
Vote(a, k, m) ==
  (Unit * Cardinality({u \in Voting(a, k, m) : a[u][m] = "right"}))
    \div Cardinality(Voting(a, k, m))

Ballots(a, m, excluded) == {<<k, Vote(a, k, m)>> : k \in Voters(a, m, excluded)}

(* The i-th smallest vote cast. *)
Ranked(ballots, i) ==
  CHOOSE v \in {b[2] : b \in ballots} :
    /\ Cardinality({b \in ballots : b[2] < v}) < i
    /\ i <= Cardinality({b \in ballots : b[2] <= v})

Cast(ballots, k) ==
  IF \E b \in ballots : b[1] = k THEN (CHOOSE b \in ballots : b[1] = k)[2] ELSE 0

VoteTotal(ballots) == SumTo([k \in Coldkeys |-> Cast(ballots, k)], NumColdkeys)

(* Mutant of Median *)
MedianMean(ballots) == VoteTotal(ballots) \div Cardinality(ballots)

(* Of an even number of votes, the mean of the two in the middle. *)
Median(ballots) ==
  LET n == Cardinality(ballots)
  IN  (Ranked(ballots, (n + 1) \div 2) + Ranked(ballots, (n + 2) \div 2)) \div 2

Samples(a, excluded) ==
  [m \in {n \in Models : Voters(a, n, excluded) # {}} |-> Median(Ballots(a, m, excluded))]

-----------------------------------------------------------------------------
(* disagreeing_exploration: the consensus is which side of a half the mean of
   the operators' averages lies, and there is none at a half. *)

Consensus(a) ==
  LET cast == {<<m, Ballots(a, m, {})>> : m \in Models}
      even(c) == Cardinality(c[2]) * Unit
  IN  {<<c[1], IF 2 * VoteTotal(c[2]) > even(c) THEN "right" ELSE "wrong">> :
         c \in {d \in cast : /\ Cardinality(d[2]) >= MinVoters
                              /\ 2 * VoteTotal(d[2]) # even(d)}}

Disagreeing(a) ==
  LET consensus == Consensus(a) IN
  {u \in DOMAIN a :
     LET judged == {c \in consensus : a[u][c[1]] # "failed"}
         against == {c \in judged : a[u][c[1]] # c[2]}
     IN  /\ Cardinality(judged) >= MinJudged
         /\ 100 * Cardinality(against) > MaxDisagree * Cardinality(judged)}

-----------------------------------------------------------------------------
(* implausible_exploration, against the accuracy in percent that the frame
   expects of the models it has measured. *)

Implausible(a, accuracy, measured) ==
  LET expected == MapThenSumSet(LAMBDA m : accuracy[m], measured)
      allowed == Margin * Cardinality(measured) IN
  {u \in DOMAIN a :
     LET gap == 100 * Cardinality({m \in measured : a[u][m] = "right"}) - expected
     IN  Cardinality(measured) >= MinSamples /\ (gap > allowed \/ -gap > allowed)}

=============================================================================
