----------------------------- MODULE SubnetWatch -----------------------------
(***************************************************************************)
(* Watching a live subnet: scripts/watch_subnet.py, by hand or hourly      *)
(* (deploy/systemd/fugal-watch.sh), beside the validators it judges.  They *)
(* score an epoch, reveal it, submit its weights with retries and read     *)
(* back whether the chain recorded them (neurons/validator.py), while      *)
(* blocks go by and a miner commits another head.                          *)
(***************************************************************************)
EXTENDS Integers, FiniteSets

CONSTANTS
  Watched,         \* --validators
  RevealRoots,     \* the validators --reveals names a directory for
  EpochLength,     \* blocks_per_epoch
  CollectAfter,    \* blocks from the boundary to the collection
  DeadlineMargin,  \* deadline_block is this far from the next boundary: 5
  SubmitTries,     \* WEIGHTS_SET_RETRIES
  RateLimit,       \* weights_rate_limit, whatever the chain has it at
  ConfirmSlack,    \* 25
  Grace,           \* min(bpe - 1, 30)
  Settle,          \* FUGAL_WATCH_SETTLE_BLOCKS
  LookEpochs,      \* --epochs, by hand
  CommitBlocks,    \* bound: blocks the miner may commit another head in
  LastHead         \* bound: blocks

ASSUME WatchAssumption ==
  /\ IsFiniteSet(Watched) /\ IsFiniteSet(RevealRoots) /\ EpochLength \in Nat \ {0} /\ LastHead \in Nat
  /\ CollectAfter \in 1..EpochLength - 1 /\ Settle \in 1..EpochLength - 1 /\ Grace \in 1..Settle
  /\ {DeadlineMargin, ConfirmSlack, RateLimit} \subseteq Nat
  /\ SubmitTries \in Nat \ {0} /\ LookEpochs \in Nat \ {0} /\ CommitBlocks \subseteq 0..LastHead

VARIABLES
  tip,       \* the chain's height
  headAt,    \* the block of the miner's last commitment
  pinned,    \* by epoch: headAt at its boundary, which validators score
  update,    \* by validator: LastUpdate, the epoch those weights are of, and whether
             \* they landed later than the margin after their attempt was decided on
  pool,      \* by validator: its extrinsics that may still be included
  job,       \* by validator: its epoch, and how far it is
  revealed,  \* <<validator, epoch>> whose reveal.json is written
  claim,     \* by validator: the last epoch whose weights it called confirmed, the
             \* one whose weights were there, and whether it had submitted unsure
  late,      \* history: <<validator, epoch>> first submitted past its deadline
  watch,     \* the run: how it was started, and where it is
  saw        \* what it read of the epoch it judges, and what failed

tipVars == <<tip, headAt, pinned, update, pool>>
jobVars == <<job, revealed, claim, late>>
watchVars == <<tipVars, jobVars, watch, saw>>

WatchEpochs == 0..LastHead \div EpochLength
EpochAt(block) == block \div EpochLength
BoundaryOf(e) == e * EpochLength
TipEpoch == EpochAt(tip)
Deadline(e) == BoundaryOf(e + 1) - DeadlineMargin

NoJob == [epoch |-> -1, at |-> "waiting", tries |-> 0, decided |-> -1, unsure |-> FALSE]
Unwritten == [block |-> -1, epoch |-> -1, slow |-> FALSE]
Unseen == [epoch |-> -1, headAt |-> -1, update |-> [v \in Watched |-> Unwritten], failed |-> {}]

WatchTypeOK ==
  /\ tip \in 0..LastHead /\ headAt \in 0..LastHead /\ pinned \in [WatchEpochs -> -1..LastHead]
  /\ \A v \in Watched :
       /\ update[v].block \in -1..tip /\ update[v].epoch \in WatchEpochs \cup {-1}
       /\ job[v].epoch \in WatchEpochs \cup {-1} /\ job[v].tries \in 0..SubmitTries
       /\ job[v].at \in {"waiting", "scoring", "scored", "submitting", "retrying", "confirming"}
       /\ \A x \in pool[v] : x.epoch \in WatchEpochs /\ x.decided \in 0..tip
       /\ claim[v].epoch \in WatchEpochs \cup {-1} /\ claim[v].of \in WatchEpochs \cup {-1}
  /\ revealed \subseteq Watched \X WatchEpochs /\ late \subseteq Watched \X WatchEpochs
  /\ watch.at \in {"off", "settling", "looking", "commitments", "agreement", "crashed", "done"}
  /\ watch.seen \subseteq WatchEpochs
  /\ saw.failed \subseteq {"commitment", "weights", "reveal"}

WatchInit ==
  /\ tip = 0 /\ headAt = 0 /\ pinned = [e \in WatchEpochs |-> IF e = 0 THEN 0 ELSE -1]
  /\ update = [v \in Watched |-> Unwritten] /\ pool = [v \in Watched |-> {}]
  /\ job = [v \in Watched |-> NoJob] /\ revealed = {} /\ late = {}
  /\ claim = [v \in Watched |-> [epoch |-> -1, of |-> -1, unsure |-> FALSE]]
  /\ watch = [at |-> "off", hourly |-> FALSE, reveals |-> FALSE, seen |-> {}, settled |-> -1]
  /\ saw = Unseen

-----------------------------------------------------------------------------
(* The chain, the miner and the validators *)

(* Blocks go by in the middle of anything: nothing bounds an attempt. *)
TipMoves ==
  /\ tip < LastHead /\ tip' = tip + 1
  /\ pinned' = IF tip' % EpochLength = 0 THEN [pinned EXCEPT ![EpochAt(tip')] = headAt] ELSE pinned
  /\ UNCHANGED <<headAt, update, pool, jobVars, watch, saw>>

(* The miner commits a head, another one than before. *)
CommitHead ==
  /\ tip \in CommitBlocks /\ headAt' = tip
  /\ pinned' = IF tip % EpochLength = 0 THEN [pinned EXCEPT ![TipEpoch] = tip] ELSE pinned
  /\ UNCHANGED <<tip, update, pool, jobVars, watch, saw>>

(* wait_for_block; an epoch it is late for is the current one. *)
StartScoring(v) ==
  /\ job[v].at = "waiting" /\ job[v].epoch < TipEpoch
  /\ tip >= BoundaryOf(TipEpoch) + CollectAfter
  /\ job' = [job EXCEPT ![v] = [NoJob EXCEPT !.epoch = TipEpoch, !.at = "scoring"]]
  /\ UNCHANGED <<tipVars, revealed, claim, late, watch, saw>>

Done(v) == job' = [job EXCEPT ![v] = [NoJob EXCEPT !.epoch = job[v].epoch]]

(* No valid proof: the epoch ends here. *)
NothingToScore(v) ==
  /\ job[v].at = "scoring" /\ Done(v)
  /\ UNCHANGED <<tipVars, revealed, claim, late, watch, saw>>

(* reveal_epoch, before the weights; a commitment that does not match writes
   no reveal, and the weights are submitted all the same. *)
Reveal(v) ==
  /\ job[v].at = "scoring"
  /\ revealed' \in {revealed, revealed \cup {<<v, job[v].epoch>>}}
  /\ job' = [job EXCEPT ![v].at = "scored"]
  /\ UNCHANGED <<tipVars, claim, late, watch, saw>>

LimitElapsed(v) == update[v].block = -1 \/ tip - update[v].block > RateLimit

(* An attempt of set_weights_with_retry.  It reads the rate limit first and
   ends when the chain would refuse, and submits anyway when it cannot be read.
   The first attempt is made whatever the block. *)
Submit(v) ==
  /\ job[v].at \in {"scored", "retrying"}
  /\ LET first == job[v].at = "scored"
         decided == IF first THEN tip ELSE job[v].decided
         unread == ~LimitElapsed(v)
         older == \E x \in pool[v] : x.epoch # job[v].epoch
     IN /\ late' = IF first /\ tip >= Deadline(job[v].epoch)
                   THEN late \cup {<<v, job[v].epoch>>} ELSE late
        /\ \/ /\ pool' = [pool EXCEPT ![v] =
                             @ \cup {[epoch |-> job[v].epoch, decided |-> decided]}]
              /\ job' = [job EXCEPT ![v].at = "submitting", ![v].decided = decided,
                                    ![v].unsure = unread \/ older]
           \/ ~LimitElapsed(v) /\ Done(v) /\ UNCHANGED pool
  /\ UNCHANGED <<tip, headAt, pinned, update, revealed, claim, watch, saw>>

(* An extrinsic is included, while its attempt runs or after it was given up;
   the chain keeps its rate limit. *)
Land(v) ==
  /\ LimitElapsed(v)
  /\ \E x \in pool[v] :
       /\ update' = [update EXCEPT ![v] = [block |-> tip, epoch |-> x.epoch,
                                           slow |-> tip - x.decided > DeadlineMargin]]
       /\ pool' = [pool EXCEPT ![v] = @ \ {x}]
  /\ UNCHANGED <<tip, headAt, pinned, jobVars, watch, saw>>

(* Success: of an extrinsic that was included, or reported so against a chain
   that stored nothing. *)
SubmitSucceeds(v) ==
  /\ job[v].at = "submitting"
  /\ job' = [job EXCEPT ![v].at = "confirming"]
  /\ UNCHANGED <<tipVars, revealed, claim, late, watch, saw>>

(* An attempt fails, or its answer is lost: another follows before the
   deadline, unless the height cannot be read. *)
SubmitFails(v) ==
  /\ job[v].at = "submitting"
  /\ \/ Done(v)
     \/ /\ job[v].tries + 1 < SubmitTries /\ tip < Deadline(job[v].epoch)
        /\ job' = [job EXCEPT ![v].at = "retrying", ![v].tries = @ + 1, ![v].decided = tip]
  /\ UNCHANGED <<tipVars, revealed, claim, late, watch, saw>>

(* Mutant of Recorded: whatever is there counts. *)
RecordedEver(v) == update[v].block # -1

(* confirm_weights_on_chain, on a commit-reveal subnet: LastUpdate is recent.
   The values are compared elsewhere only. *)
Recorded(v) == update[v].block # -1 /\ tip - update[v].block <= ConfirmSlack

Confirm(v) ==
  /\ job[v].at = "confirming"
  /\ claim' = IF Recorded(v)
              THEN [claim EXCEPT ![v] = [epoch |-> job[v].epoch, of |-> update[v].epoch,
                                         unsure |-> job[v].unsure]]
              ELSE claim
  /\ Done(v)
  /\ UNCHANGED <<tipVars, revealed, late, watch, saw>>

-----------------------------------------------------------------------------
(* The watch *)

StartWatch ==
  /\ watch.at = "off"
  /\ \E hourly, reveals \in BOOLEAN :
       /\ reveals => Cardinality(RevealRoots) >= 2
       /\ watch' = [watch EXCEPT !.hourly = hourly, !.reveals = reveals,
                                 !.at = IF hourly THEN "settling" ELSE "looking"]
  /\ UNCHANGED <<tipVars, jobVars, saw>>

(* fugal-watch.sh: the epoch is Settle blocks old, or the chain cannot be
   asked and the watch is run at once. *)
SettleWait ==
  /\ watch.at = "settling"
  /\ \/ tip % EpochLength >= Settle /\ watch' = [watch EXCEPT !.at = "looking", !.settled = TipEpoch]
     \/ watch' = [watch EXCEPT !.at = "looking"]
  /\ UNCHANGED <<tipVars, jobVars, saw>>

Wanted == IF watch.hourly THEN 1 ELSE LookEpochs

(* main picks the epoch of the head; check_epoch reads the metagraph, and
   each LastUpdate is to be of the epoch's blocks. *)
LookAt ==
  /\ watch.at = "looking" /\ Cardinality(watch.seen) < Wanted /\ TipEpoch \notin watch.seen
  /\ tip - BoundaryOf(TipEpoch) >= Grace
  /\ watch' = [watch EXCEPT !.at = "commitments", !.seen = @ \cup {TipEpoch}]
  /\ saw' = [epoch |-> TipEpoch, headAt |-> -1, update |-> update,
             failed |-> IF \E v \in Watched : update[v].block < BoundaryOf(TipEpoch)
                        THEN {"weights"} ELSE {}]
  /\ UNCHANGED <<tipVars, jobVars>>

InTime(block) == block <= BoundaryOf(saw.epoch)

(* The commitments, at the head. *)
LookAtCommitments ==
  /\ watch.at = "commitments"
  /\ saw' = [saw EXCEPT !.headAt = headAt,
                        !.failed = IF InTime(headAt) THEN @ ELSE @ \cup {"commitment"}]
  /\ watch' = [watch EXCEPT !.at = IF watch.reveals THEN "agreement" ELSE "looking"]
  /\ UNCHANGED <<tipVars, jobVars>>

(* A reveal that is not there fails.  One that is has a record for each of
   its scores, and float() of a record raises: nothing catches it.  Those of
   validators not watched are there or not. *)
LookAtReveals ==
  /\ watch.at = "agreement"
  /\ \E there \in SUBSET RevealRoots :
       /\ \A v \in RevealRoots \cap Watched : v \in there <=> <<v, saw.epoch>> \in revealed
       /\ IF there # {}
          THEN watch' = [watch EXCEPT !.at = "crashed"] /\ UNCHANGED saw
          ELSE /\ watch' = [watch EXCEPT !.at = "looking"]
               /\ saw' = [saw EXCEPT !.failed = @ \cup {"reveal"}]
  /\ UNCHANGED <<tipVars, jobVars>>

(* All epochs seen, or the timeout. *)
EndWatch ==
  /\ watch.at = "looking" /\ watch' = [watch EXCEPT !.at = "done"]
  /\ UNCHANGED <<tipVars, jobVars, saw>>

WatchNext ==
  \/ TipMoves \/ CommitHead
  \/ \E v \in Watched :
       \/ StartScoring(v) \/ NothingToScore(v) \/ Reveal(v)
       \/ Submit(v) \/ Land(v) \/ SubmitSucceeds(v) \/ SubmitFails(v) \/ Confirm(v)
  \/ StartWatch \/ SettleWait \/ LookAt \/ LookAtCommitments \/ LookAtReveals \/ EndWatch

WatchSpec == WatchInit /\ [][WatchNext]_watchVars

-----------------------------------------------------------------------------
(* "The extrinsic reported success but the chain disagrees" is never missed:
   where the slack is within the chain's rate limit, weights a validator calls
   confirmed are those of the epoch it confirms, though it sees only the block
   of LastUpdate and a success may have stored nothing.  Two cases are not
   told apart: the rate limit could not be read and had not elapsed, or an
   extrinsic of an earlier epoch was still to be included. *)
ConfirmedAreThisEpochs ==
  ConfirmSlack <= RateLimit =>
    \A v \in Watched : claim[v].unsure \/ claim[v].epoch = claim[v].of

(* A miner the watch passes is scored: the commitment it read at the head is
   the one validators pin at the boundary, whatever was committed meanwhile. *)
PassedIsPinned ==
  saw.headAt # -1 /\ "commitment" \notin saw.failed => saw.headAt = pinned[saw.epoch]

(* "Validator set weights this epoch" is said of weights of another epoch only
   when their first attempt was made past its deadline, or when they were
   included later than the margin (deadline_block leaves 5 blocks) allows for:
   a retry that is decided on in time and lands within it is never taken for
   the next epoch's. *)
PassedWeightsAreThisEpochs ==
  saw.epoch # -1 /\ "weights" \notin saw.failed =>
    \A v \in Watched : LET u == saw.update[v] IN
      u.epoch = saw.epoch \/ <<v, u.epoch>> \in late \/ u.slow

(* "Judging earlier reports 'did not set weights this epoch' for one that
   simply hasn't got there yet": the hourly run that settled in the epoch it
   judges fails none whose weights were there by the block it waits for. *)
HourlyIsFair ==
  watch.hourly /\ saw.epoch # -1 /\ saw.epoch = watch.settled /\ "weights" \in saw.failed =>
    \E v \in Watched :
      update[v].epoch # saw.epoch \/ update[v].block >= BoundaryOf(saw.epoch) + Settle

(* What a run of the watch, or a validator's own confirmation, may be trusted
   for. *)
WatchSafety ==
  /\ WatchTypeOK /\ ConfirmedAreThisEpochs /\ PassedIsPinned
  /\ PassedWeightsAreThisEpochs /\ HourlyIsFair

=============================================================================
