--------------------------- MODULE ValidatorEpoch ---------------------------
(***************************************************************************)
(* The validator's epoch loop (neurons/validator.py, main): what one epoch *)
(* does to the state the validator keeps, to the state it saves and to the *)
(* weights on chain, when a step raises, the process dies, the chain moves *)
(* on meanwhile, or an answer of the chain is lost.                        *)
(*                                                                         *)
(* A validator's state is [evid, frame, prev, last]: the epochs folded     *)
(* into the miners' evidence and into the reference frame, in order; the   *)
(* weights the cap is measured from; the last epoch done (0: none).        *)
(*                                                                         *)
(* A weight vector is told by its lineage, the epochs whose updates it is  *)
(* built on, oldest first: the last was capped against the vector of the   *)
(* others, and <<>> is no weights at all.  What cap_weight_change makes of *)
(* the values is in Weights.  The state file is StateStore, which          *)
(* StateFile implements.                                                   *)
(***************************************************************************)
EXTENDS Integers, Sequences

CONSTANTS
  MaxEpoch,       \* bound: the chain's epochs are 1..MaxEpoch
  SlotsPerEpoch,  \* blocks of an epoch, in slots
  CollectSlot,    \* the slot of an epoch at which proofs are collected
  DeadlineSlot,   \* the slot after which weights are not submitted again
  RateLimit,      \* slots the chain asks for between two weight updates
  MaxAttempts,    \* WEIGHTS_SET_RETRIES
  MaxFaults,      \* bound: crashes, exceptions and lost answers
  Down            \* no process is running

ASSUME EpochAssumption ==
  /\ MaxEpoch \in Nat \ {0} /\ SlotsPerEpoch \in Nat \ {0}
  /\ CollectSlot \in 0..SlotsPerEpoch - 1 /\ DeadlineSlot \in Nat
  /\ RateLimit \in Nat /\ MaxAttempts \in Nat \ {0} /\ MaxFaults \in Nat

VARIABLES
  once,         \* the --once flag
  epoch, slot,  \* the chain's height
  since,        \* slots since this validator's last weight update, capped
  chainW,       \* its weights on chain
  held,         \* history: every vector the chain has held
  mem,          \* the state the process holds, or Down
  disk,         \* the last state saved
  prior,        \* the state saved before it
  pc,           \* where the loop is
  cur,          \* the epoch being processed
  scored,       \* the epoch-local state (epoch_state, epoch_frame)
  w,            \* the epoch's weights, capped
  attempts,     \* submissions of w that failed and were retried
  next_prev,    \* next_prev_weights
  faults        \* faults so far

chain == <<epoch, slot, since, chainW, held>>
store == <<disk, prior>>
work == <<cur, scored, w, attempts, next_prev>>
vars == <<once, chain, mem, store, pc, work, faults>>

Epochs == 1..MaxEpoch
Vectors == Seq(Epochs)
NoWeights == <<>>   \* prev_uids is empty
State == [evid : Seq(Epochs), frame : Seq(Epochs),
          prev : Vectors, last : 0..MaxEpoch]
EmptyState == [evid |-> <<>>, frame |-> <<>>, prev |-> NoWeights, last |-> 0]
Busy == {"waiting", "scoring", "submitting", "submitted"}

TypeOK ==
  /\ once \in BOOLEAN
  /\ epoch \in Epochs /\ slot \in 0..SlotsPerEpoch - 1
  /\ since \in 0..RateLimit + 1 /\ chainW \in Vectors
  /\ \A v \in held : v \in Vectors
  /\ disk \in State /\ prior \in State /\ scored \in State
  /\ pc \in {"top", "saving", "down", "exited"} \cup Busy
  /\ pc = "down" => mem = Down
  /\ pc # "down" => mem \in State
  /\ cur \in Epochs /\ w \in Vectors /\ attempts \in 0..MaxAttempts - 1
  /\ next_prev \in Vectors /\ faults \in 0..MaxFaults

Init ==
  /\ once \in BOOLEAN
  /\ epoch = 1 /\ slot = 0 /\ since = RateLimit + 1
  /\ chainW = NoWeights /\ held = {NoWeights}
  /\ mem = EmptyState /\ disk = EmptyState /\ prior = EmptyState
  /\ pc = "top" /\ cur = 1 /\ scored = EmptyState /\ w = NoWeights
  /\ attempts = 0 /\ next_prev = NoWeights /\ faults = 0

-----------------------------------------------------------------------------
(* The chain, which does not wait for the validator. *)

Reached(e, s) == epoch > e \/ (epoch = e /\ slot >= s)

Tick ==
  /\ \/ slot < SlotsPerEpoch - 1 /\ slot' = slot + 1 /\ UNCHANGED epoch
     \/ /\ slot = SlotsPerEpoch - 1 /\ epoch < MaxEpoch
        /\ slot' = 0 /\ epoch' = epoch + 1
  /\ since' = IF since > RateLimit THEN since ELSE since + 1
  /\ UNCHANGED <<chainW, held, mem, store, pc, work, faults>>

-----------------------------------------------------------------------------
(* One epoch *)

(* The newest epoch, unless it is done (--once runs it again): boundary
   block, commitments, slice, commit. *)
BeginEpoch ==
  /\ pc = "top" /\ (epoch > mem.last \/ once)
  /\ cur' = epoch /\ pc' = "waiting"
  /\ UNCHANGED <<chain, mem, store, scored, w, attempts, next_prev, faults>>

(* Mutant of CollectNone: the epoch is not marked done. *)
CollectNoneRetries ==
  /\ pc = "waiting" /\ Reached(cur, CollectSlot)
  /\ pc' = "top"
  /\ UNCHANGED <<chain, mem, store, work, faults>>

(* Mutant of CollectNone: --once is not looked at on this path. *)
CollectNoneContinues ==
  /\ pc = "waiting" /\ Reached(cur, CollectSlot)
  /\ mem' = [mem EXCEPT !.last = cur]
  /\ disk' = mem' /\ prior' = disk
  /\ pc' = "top"
  /\ UNCHANGED <<chain, work, faults>>

(* The collection block is reached, miners are queried, no proof verifies:
   the epoch is done and nothing is applied. *)
CollectNone ==
  /\ pc = "waiting" /\ Reached(cur, CollectSlot)
  /\ mem' = [mem EXCEPT !.last = cur]
  /\ pc' = "saving"
  /\ UNCHANGED <<chain, store, work, faults>>

CollectProofs ==
  /\ pc = "waiting" /\ Reached(cur, CollectSlot)
  /\ pc' = "scoring"
  /\ UNCHANGED <<chain, mem, store, work, faults>>

(* Mutant of Score: the frame is rebound as soon as it is computed. *)
ScoreRebindsFrame ==
  /\ pc = "scoring"
  /\ scored' = [mem EXCEPT !.evid = Append(@, cur), !.frame = Append(@, cur)]
  /\ w' = Append(mem.prev, cur)
  /\ mem' = [mem EXCEPT !.frame = Append(@, cur)]
  /\ attempts' = 0 /\ next_prev' = mem.prev
  /\ pc' = "submitting"
  /\ UNCHANGED <<chain, store, cur, faults>>

(* accumulate_exploration, update_scores, compute_weights and the cap from
   the vector held, if there is one, on copies: the state held is not
   touched. *)
Score ==
  /\ pc = "scoring"
  /\ scored' = [mem EXCEPT !.evid = Append(@, cur), !.frame = Append(@, cur)]
  /\ w' = Append(mem.prev, cur)
  /\ attempts' = 0 /\ next_prev' = mem.prev
  /\ pc' = "submitting"
  /\ UNCHANGED <<chain, mem, store, cur, faults>>

-----------------------------------------------------------------------------
(* set_weights_with_retry *)

(* The rate limit has not elapsed: no submission, and no success. *)
RateLimited ==
  /\ pc = "submitting" /\ since <= RateLimit
  /\ pc' = "submitted"
  /\ UNCHANGED <<chain, mem, store, work, faults>>

TakeWeights == chainW' = w /\ held' = held \cup {w} /\ since' = 0

(* The chain takes the weights and says so. *)
SubmitAccepted ==
  /\ pc = "submitting" /\ since > RateLimit
  /\ TakeWeights
  /\ next_prev' = w /\ pc' = "submitted"
  /\ UNCHANGED <<epoch, slot, mem, store, cur, scored, w, attempts, faults>>

(* No success: give up when the attempts are used or the deadline passed. *)
AttemptFailed ==
  IF attempts + 1 >= MaxAttempts \/ Reached(cur, DeadlineSlot)
    THEN pc' = "submitted" /\ UNCHANGED attempts
    ELSE pc' = "submitting" /\ attempts' = attempts + 1

(* Mutant of SubmitFailed: what was refused is remembered as the vector that
   the next epoch is capped from. *)
SubmitFailedRemembers ==
  /\ pc = "submitting"
  /\ AttemptFailed
  /\ next_prev' = w
  /\ UNCHANGED <<chain, mem, store, cur, scored, w, faults>>

(* The submission fails, and the chain's weights stay; also when the rate
   limit could not be read and the chain refuses. *)
SubmitFailed ==
  /\ pc = "submitting"
  /\ AttemptFailed
  /\ UNCHANGED <<chain, mem, store, cur, scored, w, next_prev, faults>>

(* The chain takes the weights, and the SDK reports a failure: the answer
   was lost. *)
SubmitReplyLost ==
  /\ pc = "submitting" /\ since > RateLimit /\ faults < MaxFaults
  /\ TakeWeights
  /\ AttemptFailed
  /\ faults' = faults + 1
  /\ UNCHANGED <<epoch, slot, mem, store, cur, scored, w, next_prev>>

-----------------------------------------------------------------------------
(* COMMIT and save_state *)

(* The epoch's results become the state held. *)
Adopt ==
  /\ pc = "submitted"
  /\ mem' = [scored EXCEPT !.prev = next_prev, !.last = cur]
  /\ pc' = "saving"
  /\ UNCHANGED <<chain, store, work, faults>>

AfterEpoch == IF once THEN "exited" ELSE "top"

SaveDone ==
  /\ pc = "saving"
  /\ disk' = mem /\ prior' = disk
  /\ pc' = AfterEpoch
  /\ UNCHANGED <<chain, mem, work, faults>>

-----------------------------------------------------------------------------
(* Faults *)

(* A step of the epoch, or save_state, raises: the loop logs it and goes
   back to its top with whatever state it holds. *)
Fail ==
  /\ pc \in Busy \cup {"saving"} /\ faults < MaxFaults
  /\ faults' = faults + 1
  /\ pc' = AfterEpoch
  /\ UNCHANGED <<chain, mem, store, work>>

(* The process dies, or is interrupted. *)
Crash ==
  /\ pc \notin {"down", "exited"} /\ faults < MaxFaults
  /\ faults' = faults + 1
  /\ mem' = Down /\ pc' = "down"
  /\ UNCHANGED <<chain, store, work>>

(* The supervisor starts it again, and load_state resumes: StateStore. *)
Restart ==
  /\ pc = "down"
  /\ mem' \in {disk, prior, EmptyState}
  /\ pc' = "top"
  /\ UNCHANGED <<chain, store, work, faults>>

Step ==
  \/ BeginEpoch \/ CollectNone \/ CollectProofs \/ Score
  \/ RateLimited \/ SubmitAccepted \/ SubmitFailed
  \/ Adopt \/ SaveDone \/ Restart

Next ==
  /\ Tick \/ Step \/ SubmitReplyLost \/ Fail \/ Crash
  /\ UNCHANGED once

Spec == Init /\ [][Next]_vars

(* Blocks keep coming, no call hangs for ever, and the supervisor restarts
   the process (deploy/systemd: Restart=always). *)
FairSpec ==
  Spec /\ WF_vars(Tick /\ UNCHANGED once) /\ WF_vars(Step /\ UNCHANGED once)

-----------------------------------------------------------------------------
Increasing(s) == \A i, j \in 1..Len(s) : i < j => s[i] < s[j]

(* Every epoch is folded into a state at most once, in order, into the
   evidence and the frame alike, and never one the state says is not done. *)
Sound(state) ==
  /\ Increasing(state.evid)
  /\ state.frame = state.evid
  /\ \A i \in 1..Len(state.evid) : state.evid[i] <= state.last

(* tests/test_epoch_atomicity.py: "an epoch is applied once, or not at all".
   Whatever raises or dies between scoring and the end of the save, and
   however often the epoch is retried, no state that is held, was saved, or
   can be resumed from counts an epoch twice, or in only one place. *)
AppliedOnce ==
  ~once => /\ Sound(disk) /\ Sound(prior)
           /\ mem # Down => Sound(mem)

(* The cap is measured from what the chain holds, as long as nothing was
   lost on the way: a submission the chain refuses leaves the base alone. *)
PrevTracksChain ==
  faults = 0 /\ pc \in {"top", "waiting", "scoring", "saving"} =>
    mem.prev = chainW

(* validator.py:907: "if prev_uids", the weights are capped "vs previous
   epoch".  Whatever is refused, retried, lost or restarted, the weights the
   chain takes are this epoch's change of a vector that the chain itself has
   held, and of the one it holds as long as nothing was lost: no update is
   capped against weights that nobody was ever paid by. *)
UpdatesBuildOnChain ==
  [][ chainW' # chainW =>
        \E base \in held :
          /\ chainW' = Append(base, cur)
          /\ faults' = 0 => base = chainW ]_vars

(* Once the faults are over, every epoch the chain reaches is done, or a
   later one is: no retry, rate limit or lost state stalls the loop. *)
CaughtUp ==
  \A e \in Epochs :
    ~once /\ epoch >= e ~> (mem # Down /\ mem.last >= e)

(* --once ends, whatever fails and whether or not a proof verified. *)
OnceTerminates == once ~> pc = "exited"

(* The state of the loop between any two steps, faults included. *)
EpochSafety == TypeOK /\ AppliedOnce /\ PrevTracksChain

=============================================================================
