--------------------------- MODULE ReferenceFrame ---------------------------
(***************************************************************************)
(* The reference frame over epochs: answers are judged against the frame   *)
(* as it stood, folded into it, revealed, and adopted with the validator's *)
(* state; a validator without state rebuilds the frame from reveals        *)
(* (reference_frame.py, and neurons/validator.py from the frame's load to  *)
(* the commit).  Counts are in units of 1/Scale of a trial, and one        *)
(* half-life is one epoch.                                                 *)
(***************************************************************************)
EXTENDS ExplorationVotes

CONSTANTS
  MaxEpoch,
  PriorStrength,   \* FRAME_PRIOR_STRENGTH
  BootTrials, BootSuccesses,   \* of each model in data/reference_frame.json
  Precision,       \* counts halve exactly where it has a 2 for each half-life
  NoState

ASSUME FrameAssumption ==
  /\ {MaxEpoch, PriorStrength, BootTrials, BootSuccesses} \subseteq Nat
  /\ BootSuccesses <= BootTrials /\ Precision \in Nat \ {0}

VARIABLES
  clock,    \* the current epoch
  mem,      \* what the process holds: the frame, last_epoch_index, and as
            \* history the reveals the frame was rebuilt from and each epoch
            \* folded into it since
  disk,     \* the state file
  work,     \* the epoch being scored
  reveals   \* epoch |-> what a replay of its reveal aggregates

frameVars == <<clock, mem, disk, work, reveals>>

Scale == Unit * Precision

Empty == [succ |-> [m \in Models |-> 0], trials |-> [m \in Models |-> 0]]
Bootstrap == [succ |-> [m \in Models |-> BootSuccesses * Scale],
              trials |-> [m \in Models |-> BootTrials * Scale]]

(* accumulate_exploration *)
Accumulate(f, samples) ==
  [succ |-> [m \in Models |-> f.succ[m] \div 2 +
               (IF m \in DOMAIN samples THEN samples[m] * (Scale \div Unit) ELSE 0)],
   trials |-> [m \in Models |-> f.trials[m] \div 2 +
               (IF m \in DOMAIN samples THEN Scale ELSE 0)]]

(* ReferenceFrame.accuracy in percent, under a prior of one half *)
Accuracy(f, m) ==
  (100 * f.succ[m] + 50 * PriorStrength * Scale) \div (f.trials[m] + PriorStrength * Scale)

Suspicious(a, f) ==
  LET measured == {m \in Models : f.trials[m] >= Scale}
  IN  Implausible(a, [m \in measured |-> Accuracy(f, m)], measured) \cup Disagreeing(a)

Excluded(a, f) == {Owner[u] : u \in Suspicious(a, f)}

FoldEpoch(f, published, e) ==
  IF e \in DOMAIN published THEN Accumulate(f, published[e]) ELSE f

(* The frames a replay goes through, from its base: after the epochs before n *)
Replaying(base, published) ==
  LET upTo[n \in 0..MaxEpoch + 1] ==
        IF n = 0 THEN base ELSE FoldEpoch(upTo[n - 1], published, n - 1)
  IN  upTo

(* Mutant of Replay *)
ReplayNewestFirst(base, published) ==
  LET reversed == [e \in {MaxEpoch - d : d \in DOMAIN published} |-> published[MaxEpoch - e]]
  IN  Replaying(base, reversed)[MaxEpoch + 1]

(* rebuild_from_reveals, which folds what it is given in epoch order *)
Replay(base, published) == Replaying(base, published)[MaxEpoch + 1]

Rebuild(published) ==
  IF DOMAIN published = {} THEN Bootstrap ELSE Replay(Empty, published)

(* What main starts from: the state file, or else the reveals. *)
Fresh == [frame |-> Rebuild(reveals), last |-> -1, from |-> reveals, folded |-> <<>>]

Revealable == UNION {[seen -> 0..Unit] : seen \in SUBSET Models}
Reveals == UNION {[epochs -> Revealable] : epochs \in SUBSET (0..MaxEpoch)}
Folds == [epoch : 0..MaxEpoch, revealed : Revealable, excluded : SUBSET Coldkeys]

Mem == [frame : [succ : [Models -> Nat], trials : [Models -> Nat]],
        last : -1..MaxEpoch, from : Reveals, folded : Seq(Folds)]

(* One trial for each model and epoch, however many miners answered: the sum
   of the decayed trials is at most two, or what the bootstrap had. *)
FrameTypeOK ==
  /\ clock \in 0..MaxEpoch
  /\ mem \in Mem
  /\ disk \in Mem \cup {NoState}
  /\ work # NoState =>
       work.epoch \in 0..MaxEpoch /\ work.excluded \subseteq Coldkeys /\ work.answers \in Answers
  /\ reveals \in Reveals
  /\ \A m \in Models : /\ mem.frame.succ[m] <= mem.frame.trials[m]
                       /\ mem.frame.trials[m] <= (IF BootTrials > 2 THEN BootTrials ELSE 2) * Scale

FrameInit ==
  /\ clock = 0 /\ disk = NoState /\ work = NoState /\ reveals = <<>>
  /\ mem = Fresh

-----------------------------------------------------------------------------
NextEpoch ==
  /\ clock < MaxEpoch /\ clock' = clock + 1
  /\ UNCHANGED <<mem, disk, work, reveals>>

(* No proof verified: the epoch is closed and saved without a sample. *)
NoProofs ==
  /\ work = NoState /\ clock > mem.last
  /\ mem' = [mem EXCEPT !.last = clock] /\ disk' = mem'
  /\ UNCHANGED <<clock, work, reveals>>

(* Detect against the frame as it stands, aggregate, accumulate into a frame
   of the epoch's own, and reveal every observation, excluded or not. *)
Fold(a) ==
  LET excluded == Excluded(a, mem.frame) IN
  /\ work = NoState /\ clock > mem.last
  /\ work' = [epoch |-> clock, answers |-> a, excluded |-> excluded,
              frame |-> Accumulate(mem.frame, Samples(a, excluded))]
  /\ reveals' = [e \in DOMAIN reveals \cup {clock} |->
                   IF e = clock THEN Samples(a, {}) ELSE reveals[e]]
  /\ UNCHANGED <<clock, mem, disk>>

(* The epoch is committed in memory, and save_state writes it or raises. *)
Adopt ==
  /\ work # NoState
  /\ mem' = [frame |-> work.frame, last |-> work.epoch, from |-> mem.from,
             folded |-> Append(mem.folded, [epoch |-> work.epoch, excluded |-> work.excluded,
                                            revealed |-> Samples(work.answers, {})])]
  /\ disk' \in {disk, mem'} /\ work' = NoState
  /\ UNCHANGED <<clock, reveals>>

(* An exception between the reveal and the commit: the epoch is retried. *)
FailEpoch ==
  /\ work # NoState /\ work' = NoState
  /\ UNCHANGED <<clock, mem, disk, reveals>>

RestartValidator ==
  /\ work' = NoState
  /\ mem' = IF disk # NoState THEN disk ELSE Fresh
  /\ UNCHANGED <<clock, disk, reveals>>

LoseDisk ==
  /\ disk # NoState /\ disk' = NoState
  /\ work' = NoState /\ mem' = Fresh
  /\ UNCHANGED <<clock, reveals>>

FrameNext ==
  \/ NextEpoch \/ NoProofs \/ Adopt \/ FailEpoch \/ RestartValidator \/ LoseDisk
  \/ \E a \in Answers : Fold(a)

FrameSpec == FrameInit /\ [][FrameNext]_frameVars

-----------------------------------------------------------------------------
(* The sets of operators that agree with each other where their calls
   succeeded, and are most of the voters on every model. *)
Majorities(a) == {h \in SUBSET Coldkeys :
  /\ \A m \in Models : \A u, v \in DOMAIN a :
       Owner[u] \in h /\ Owner[v] \in h /\ "failed" \notin {a[u][m], a[v][m]}
         => a[u][m] = a[v][m]
  /\ \A m \in Models : 2 * Cardinality(Voters(a, m, {}) \cap h) > Cardinality(Voters(a, m, {}))}

(* However many hotkeys the others register, they cannot have an operator of
   an agreeing majority taken for one that disagrees. *)
MajorityNeverDisagrees ==
  work # NoState => \A u \in Disagreeing(work.answers) :
    \A h \in Majorities(work.answers) : Owner[u] \notin h

(* A coalition of less than half the operators counted on a model cannot move
   its sample out of the range of the others' votes. *)
MinorityCannotMove ==
  work # NoState =>
    LET samples == Samples(work.answers, work.excluded) IN
    \A m \in DOMAIN samples :
      LET ballots == Ballots(work.answers, m, work.excluded) IN
      \A c \in SUBSET ballots :
        2 * Cardinality(c) < Cardinality(ballots) =>
          \E lo, hi \in ballots \ c : lo[2] <= samples[m] /\ samples[m] <= hi[2]

(* A majority that agrees, and is not taken to be implausible itself, decides
   every sample. *)
MajorityDecides ==
  work # NoState =>
    LET samples == Samples(work.answers, work.excluded) IN
    \A h \in Majorities(work.answers) :
      h \cap work.excluded = {} =>
        \A u \in DOMAIN work.answers : \A m \in Models :
          Owner[u] \in h /\ work.answers[u][m] # "failed" =>
            samples[m] = IF work.answers[u][m] = "right" THEN Unit ELSE 0

Base(x) == IF DOMAIN x.from = {} THEN Bootstrap ELSE Empty
Epochs(x) == DOMAIN x.from \cup {x.folded[i].epoch : i \in DOMAIN x.folded}

(* The epochs of x are those of p, nobody was excluded from one, and none was
   folded on top of a reveal of its own. *)
FoldedFrom(x, p) ==
  /\ DOMAIN p = Epochs(x)
  /\ \A e \in DOMAIN x.from : p[e] = x.from[e]
  /\ \A i \in DOMAIN x.folded :
       LET fold == x.folded[i] IN
       fold.excluded = {} /\ fold.epoch \notin DOMAIN x.from /\ p[fold.epoch] = fold.revealed

(* Through retries, failed saves, restarts and lost disks: a frame that is
   folded from the reveals there are, each once and nobody excluded, is what
   replaying them on its own base gives.  When each is folded once is
   AppliedOnce. *)
RevealsReplayFrame ==
  work = NoState /\ FoldedFrom(mem, reveals) => mem.frame = Replay(Base(mem), reveals)

(* tests/test_epoch_atomicity.py: "An epoch is applied once, or not at all",
   and in order, however often it is retried, its save fails, or the process
   restarts.  One case is left: who lost the state after an epoch's reveal was
   written rebuilds a frame with that epoch in it and last_epoch_index -1, and,
   still in it, judges and folds it again.  No other epoch is folded twice. *)
AppliedOnce ==
  /\ \A i, j \in DOMAIN mem.folded : i < j => mem.folded[i].epoch < mem.folded[j].epoch
  /\ \A e \in DOMAIN mem.from, i \in DOMAIN mem.folded :
       e < mem.folded[i].epoch \/ (i = 1 /\ e = mem.folded[i].epoch)

(* tests/test_frame_rebuild.py: "Replaying the published reveals must land on
   the same frame the validator would have reached by processing those epochs
   live".  Violated. *)
RebuildReproducesLive ==
  work = NoState /\ Epochs(mem) = DOMAIN reveals => mem.frame = Rebuild(reveals)

(* A majority of operators that agree is neither outvoted nor blamed, however
   the others spread over hotkeys. *)
ConsensusIsMajoritys == MajorityNeverDisagrees /\ MajorityDecides

(* The frame validators share stays one, and whole. *)
FrameSafety == FrameTypeOK /\ RevealsReplayFrame /\ AppliedOnce

=============================================================================
