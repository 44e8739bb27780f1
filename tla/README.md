# Fugal subnet: TLA+ specifications and proofs

Fugal is a Bittensor subnet. Miners train routing heads (small networks that
pick a model for a question), run them inside a TEE on a slice of questions that
only becomes known at an epoch's boundary block, and serve a proof. Validators
collect the proofs, verify and score them, set weights on chain, and publish
what they did. This directory holds TLA+ models of that system translated from
its source, the TLC configurations that check them on small instances, and TLAPS
proofs of the results that matter most.

Paths below are relative to the repository: `validator.py` and `miner.py` are
under `neurons/`; other Python files are under `fugal_subnet/` unless a directory
is given.

## 1. Inventory of the system

| part | state it keeps | operations | modelled in |
|---|---|---|---|
| epoch loop (`validator.py` main) | `scoring_state`, `frame`, `prev_uids/prev_weights`, `last_epoch_index` | one epoch: boundary, commitments, slice, wait for the collection block, query, verify, score, weights, reveal, submit, publish, commit, save | `ValidatorEpoch` |
| state file (`save_state`, `load_state`) | the JSON file, `.bak`, `.tmp` | save in three renames/writes; load with fallback | `StateFile`, `StateStore` |
| chain reads (`read_commitments_or_fail`, `metagraph_at`, `resolve_burn_uid`, `commitments.py`) | none of its own | reads pinned to a block, with fallbacks | `PinnedReads` |
| weights (`rewards.py`, `set_weights_with_retry`, `confirm_weights_on_chain`) | attempts, the chain's rate limit | shares, cap, submit, retry until a deadline, confirm | `Weights`, `ValidatorEpoch`, `SubnetWatch` |
| verify loop and collateral budget (`validator.py`, `tee/attestation.py`) | `CollateralBudget` | order the proofs, refuse locally, dial the PCCS, abandon a fetch, judge the quote | `ProofVerification` |
| proof checks (`tee/verify.py`, `tee/proof.py`, `tee/runtime.py`, `tee/dstack_client.py`, `tee/tpm.py`) | RTMR3 on the miner's machine | boot, start, attest, and 13 checks in order; the walk of a certificate chain | `ProofChecks`, `CertChain` |
| reveals (`commit_reveal.py`, `reveal_publisher.py`) | `reveals/<epoch>/reveal.json`, `.published` markers, the public store, the hash on chain | write, hold, upload in order, mark, commit the newest hash | `RevealPublisher` |
| dedup (`dedup.py`, `head_distance.py`) | none between epochs | cluster the verified heads, keep the senior one, epsilon rule | `Dedup` |
| miner records (`scoring.py`, `evidence.py`) | `ScoringState.records` | drop recycled, miss, accumulate, refresh, weigh | `MinerRecords` |
| reference frame (`reference_frame.py`) | trials per model, decayed | votes per coldkey, two detectors, accumulate, rebuild from reveals | `ExplorationVotes`, `ReferenceFrame` |
| frontier (`frontier.py`, `scoring.composite`) | none | upper hull of (cost, accuracy), interpolation, confidence | `Frontier` |
| slicer, exploration (`benchmarks/slicer.py`, `exploration.py`) | none | quotas and caps per benchmark, models for exploration | `Assignment` |
| miner (`miner.py`) | current proof, epoch started, commitment; port, address, cache, metagraph | main loop, axon callback, start-up | `MinerLoop`, `MinerServing` |
| harness and metering proxy (`tee/harness.py`, `tee/runtime.py`) | recorded calls | call several at a time, retry, record, bill, total | `Harness` |
| provisioning (`tee/provision.py`, `scripts/provision_td.py`) | nonces, the accepted payload, the log ring | attest, accept one push, serve the log | `Provision`, `LogPull` |
| start-up (`validator.py`, `miner.py`, `benchmarks/loader.py`, `fingerprint.py`) | the pool | checks in order, load and verify the pool, choose the frame | `NodeStartup` |
| head archive (`head_archive.py`) | head files, `index.jsonl` | write once, append | `HeadArchive` |
| consensus audit (`consensus.py`) | none | compare validators' reports | `ConsensusAudit` |
| API spending (`api.py`) | spent and reserved amounts | reserve, call, retry, settle | `SpendTracker` |
| `scripts/provision_subnet.py` | none: the chain's | create, identity, activate, parameters, register, stake | `SubnetProvision` |
| `scripts/watch_subnet.py`, `deploy/systemd/` | none | judge an epoch, by hand or hourly | `SubnetWatch` |
| `scripts/verify_live_miner.py` | none | ask one miner, verify its proof | `ProofChecks` |
| `scripts/record_token_observations.py`, `scripts/build_frame_from_calls.py` | the log of calls | plan, resume, call under a budget, append rows, fold the log into the bootstrap frame | `CallLog` |
| graders, head evaluation, backbone, epoch log, other scripts | | | not modelled (section 5) |

**How they interact.** The validator is one thread that runs one epoch after the
other; everything else it touches moves independently: the chain (blocks,
recycled UIDs, rate limit, lost answers), the PCCS endpoint, the disk, the public
store, the supervisor that kills and restarts it. The verify loop hands verified
proofs to scoring and dedup; those feed the records, the records the weights, the
weights the cap and the submission; exploration answers feed the frame, the frame
the frontier, the frontier the scores. The reveal is written before the weights
are submitted and published epochs later; `save_state` closes the epoch. The
miner is a loop and an axon callback that share the current proof; it and the
validators meet only on the chain (commitment, nonce) and in the query.

**What is hard.** Retried epochs after a partial failure; a crash between any two
writes; the chain taking an extrinsic whose answer is lost; a budget shared by
miners in an order nobody chooses; a breaker that must open on evidence about the
endpoint only; timeouts that bound a socket operation and not a call; likeness
that is not transitive; records keyed by UID while hotkeys move; reads of a chain
that moves between them; scripts that are run again. `PROJECT.json` lists each
hazard at its line, with the properties that are about it.

## 2. The modules

| module | models | actions |
|---|---|---|
| `StateStore` | abstract: what a validator may resume from | `Work`, `Save`, `Stop`, `Resume` |
| `StateFile` | `save_state`, `load_state`, one action per step at which the process can die | `StartSave`, `SyncTmp`, `KeepPrevious`, `PutInPlace`, `SaveRaises`, `Crash`, `Damage`, `Load*`, `OperatorDeletes` |
| `ValidatorEpoch` | `main`'s loop and `set_weights_with_retry` | `Tick`, `BeginEpoch`, `CollectNone`, `CollectProofs`, `Score`, `RateLimited`, `Submit*`, `Adopt`, `SaveDone`, `Fail`, `Crash`, `Restart` |
| `PinnedReads` | the chain reads of two validators in one epoch, and the chain that moves between them | one per read, with its refusal and its fallback |
| `ProofVerification` | the verify loop, `CollateralBudget`, the fetch of `verify_dcap` | one per exit of an iteration |
| `ProofChecks` | boots, process starts and epochs of a machine, its proofs, `verify_proof` check by check | `Boot`, `StartProcess`, `NextEpoch`, `Prove`, `Judge`, `LiveCheck` |
| `CertChain` | `verify_ak_chain`, one certificate at a time | `Climb`, `StopWalk`, `CheckSignature` |
| `RevealPublisher` | `reveal_epoch`, `due_reveals`, `publish_due_reveals` | one per call that can fail |
| `Dedup` | `find_duplicates`, `epsilon_disqualified` | `Visit` (one UID of the outer loop), `Epsilon` |
| `MinerRecords`, `MCMinerRecords` | `update_scores`, `accumulate_epoch`, `apply_miss`, eligibility, and the steps in which the cap lets a weight go | `Recycle`, `Score` (with `Submit`), `NoProofs` |
| `ExplorationVotes` | votes, median, both detectors, as operators over an epoch's answers | |
| `ReferenceFrame`, `MCReferenceFrame` | the frame over epochs, reveals, restarts | `NextEpoch`, `Fold`, `NoProofs`, `Adopt`, `FailEpoch`, `RestartValidator`, `LoseDisk` |
| `Frontier` | `_hull`, one point at a time, `accuracy_at`, `composite` | `Gather`, `Take` (pop what makes no concave turn, keep the point), `Flatten` |
| `Assignment` | `select_slice`, the exploration set | `Slot`, `Uncap`, `Explore`, `Assign` |
| `Weights` | `compute_weights`, `cap_weight_change` over a field | `Share`, `CapChange` |
| `MinerLoop` | the miner's loop and commitment, and validators that collect | `Commit*`, `StartRun`, `FinishRun`, `FailRun`, `RestartMiner`; `StartEpoch`, `DropEpoch` and the query |
| `MinerServing` | start-up, cache, port, address, metagraph, who is answered | one per step of `main`, `Query`, and the world's |
| `Harness` | the harness's pool of calls, the proxy's threads, the proof's three reads | `Open`, `Retry`, `Record`, `Refuse`, `Receive`, `Fail`, `GiveUp`, `Bill`, `Total`, `PerModel` |
| `Provision` | operators and their session files, the receiver's threads, nonces, reboots | `Challenge`, `Inspect`, `SealAndPush`, `Arrive`, `Attest`, `Spend`, `Accept`, `Told`, `SaveSession`, `Abandon`, `Serve`, `Reboot` |
| `LogPull` | the ring of lines and the operator who follows it | `Emit`, `Answer`, `ShowLines`, `Reboot`, ... |
| `NodeStartup` | the checks of both mains, `load_all` | one per check and per step of the loader |
| `HeadArchive`, `ConsensusAudit`, `SpendTracker` | the parts of the same name | one per write, comparison, step of a call |
| `SubnetProvision` | the script's runs on a chain others use too | one per extrinsic or read |
| `CallLog` | the recording scripts: one action per step of a call between its threads, the proxy and the log, and the frame built of the log | `BeginRecording`, `LetThrough`, `TurnBack`, `Charge`, `Complete`, `NoText`, `WriteRow`, `SkipCall`, `EndRun`, `Die`, `Upgrade` |
| `SubnetWatch` | the watch, and the validators, miner and chain it watches | one per read of the watch, per step of a validator; an extrinsic is included (`Land`) whenever the chain likes |
| `MCValidatorParts`, `MCServices`, `MCMiner`, `MCEpochAlgorithms` | roots of the runs | |
| `Sums` | the sum of a function's first values, as a recursive function, for every module that adds up | |
| `*Proofs` | theorems about the modules they extend (section 4) | |

**Composition.** Where two parts really interact, one module has both: miner and
validators in `MinerLoop`, validators and chain in `PinnedReads`, operators and
receiver in `Provision`, harness and proxy in `Harness`, detectors, frame and
reveals in `ReferenceFrame`, watch and validators in `SubnetWatch`. Where one part
only needs what another promises, that promise is the composition:
`ValidatorEpoch` resumes after a crash as `StateStore` allows, and `StateFile` is
shown to implement `StateStore`; `RevealPublisher` takes from `ValidatorEpoch`
that an epoch may be retried or skipped, `MinerRecords` that an epoch is
committed once, `ProofVerification` and `ProofChecks` share the classes of
refusals, `MinerLoop` sees of `Harness` that a run ends or fails.

The roots `MC...` extend several modules that share no variable, with a variable
`part` chosen at the start: the part steps and the others rest in one state. So
each part is checked on its own, exactly as if it had a run of its own, and the
run's properties, each about the variables of one part, hold trivially of the
behaviours of the others only.

A definition that a comment calls a "Mutant of X" has the form of X after a
plausible bug; nothing uses it, and `PROJECT.json` names the property that tells
the two apart.

**Abstractions, by module.**

* `StateFile`: a state is a number, fresh for each epoch. `_known_fields`
  (dropping keys of another version's file) is left out.
* `ValidatorEpoch`: blocks are slots of an epoch. A state's evidence and frame
  are the sequences of epochs folded into them, and a weight vector is the
  sequence of epochs whose change made it: how large a change may be is
  `Weights`'.
* `PinnedReads`: a hotkey serves one head; a commitment matches it or not.
* `ProofVerification`: time is in ticks, a share is rounded down to one. The
  checks of `verify_proof` are grouped by whether they need the network and whose
  fault a refusal is.
* `ProofChecks`: a hash is what it hashes, so RTMR3 is the sequence of values
  extended into it; a proof's content is what tells the checks apart. The
  measured image extends the application it runs and whatever software on it likes
  to extend after that. A log has digests and, apart from them, the application
  its payload names: `replay_event_log` compares only the digests, so a response
  may name any application over any log.
* `CertChain`: a certificate is its name, key, issuer's name, signing key and
  kind; a signature holds if the keys agree.
* `RevealPublisher`: a file's content is the number of the write that made it.
  `commit_reveal_period` may be unreadable at any start of the process, or
  overridden by `FUGAL_REVEAL_DELAY_EPOCHS`.
* `Dedup`: similarity and distance thresholds are given as relations of any shape.
* `MinerRecords`: evidence is a set of epochs, not decayed sums; which eligible
  records have a positive score and are no copies is any choice. A weight is the
  number of updates the cap needs, at most, to let go of it, `MaxFalls` for all of
  it (six with the cap of 0.3, by `OutFallsByCap` of `Weights`); the next vector
  is capped from this one only if the chain took it.
* `ExplorationVotes`, `ReferenceFrame`: exact integer counts in fractions of a
  trial; one half-life is one epoch; a slot is named by its model.
* `Frontier`, `Weights`, `ConsensusAudit`: integers or whole percents over small
  ranges; weights are kept over a common denominator, so nothing is rounded.
* `Assignment`: only counts; which question the nonce picks is immaterial.
* `Harness`: ticks of 20 s counted from each call's start; a try ends at once or
  after operations that all but time out. A reply without usage costs nothing and
  is an answer all the same.
* `Provision`, `LogPull`: a nonce stands for its attempt and session key; a
  machine's key is the number of its boot; ciphers do what they say.
* `NodeStartup`: a question is its benchmark and whether it is the pinned one; a
  frame is where it comes from and whether there is anything in it.
* `SubnetProvision`: an extrinsic lands, or does not, before the script goes on.
  The alpha a stake is held as is one of `Yields`, whatever price and fees made it.
* `SubnetWatch`: what `confirm_weights_on_chain` compares is `LastUpdate`; its
  readback of values is left out, as a commit-reveal subnet has none to compare.
* `SpendTracker`: tokens of one kind, prices in units.
* `CallLog`: a call is its place in the plan, its price what the proxy records for
  it; one process runs at a time, as nothing locks the log, and a process that
  dies while it writes leaves half a line.

## 3. The runs

Each module's safety properties are conjuncts of one named invariant
(`DiskSafety`, `EpochSafety`, ..., with the type invariant among them); the
conjuncts have their own names and comments in the module.

| run | config | checks | shows |
|---|---|---|---|
| `epoch` | `ValidatorEpoch.cfg` | `EpochSafety`, `UpdatesBuildOnChain`, `CaughtUp`, `OnceTerminates` | epochs are applied once whatever fails; every update is capped from a vector the chain has held, and from the one it holds until the first fault; the loop makes progress |
| `records` | `MinerRecords.cfg` | `RecordsAreOwn`, `NoGaps`, `PaidIsRecent`, `OneFrontier`, `ChecksSafety` | evidence belongs to its hotkey and head and skips no scored epoch; pay ends once absence has outlasted the liveness bound and the cap; and a proof that is taken for valid was made so |
| `epoch_algorithms` | `EpochAlgorithms.cfg` | `FrameSafety`, `MinorityCannotMove`, `ConsensusIsMajoritys`, `CopiesSafety`, `AssignmentSafety`, `FrontierSafety`, `WeightsSafety` | what an epoch computes is right on every small input, and the frame survives retries and restarts |
| `miner` | `Miner.cfg` | `ProvisionSafety`, `HarnessSafety`, `LoopSafety`, `BenchmarkEnds`, `PunctualIsCollected`, `LoopCommitmentSticks` | one push per boot; costs add up unless a call was charged late; commit before nonce, one head per epoch; runs end and commitments stick |
| `validator_parts` | `ValidatorParts.cfg` | `DiskSafety`, `KeepsStoreContract`, `RevealSafety`, `HeldAndForward`, `StartupSafety`, `ReadsSafety`, `ArchiveSafety`, `AuditSafety`, `ChainSafety` | the parts around the epoch loop; `StateFile` implements `StateStore` |
| `services` | `Services.cfg` | `BudgetIsFair`, `VerdictIsEarned`, `CircuitIsEvidence`, `SpendSafety`, `SubnetSafety`, `ServingSafety`, `LogSafety`, `WatchSafety`, `CallLogSafety` | verification is fair and its verdicts earned; what is spent, served, logged, provisioned, watched and recorded |
| `state_survives` | `StateFileSurvives.cfg` | `StateSurvivesRestarts`: **violated** | a crash between the two renames resumes from nothing |
| `verification_dead` | `ProofVerificationDead.cfg` | `DeadEndpointCapped`: **violated** | with a share below the timeout a dead endpoint is dialled for nearly every proof |
| `dedup_every` | `DedupEvery.cfg` | `EveryCopyDisqualified`: **violated** | a copy escapes when its pair was never compared |
| `frame_rebuild` | `ReferenceFrameRebuild.cfg` | `RebuildReproducesLive`: **violated** | a rebuilt frame starts empty, the live one from the bootstrap, and excluded operators come back |
| `carried_intermediate` | `CertChainCarried.cfg` | `CarriedIntermediateHelps`: **violated** | a carried intermediate is shadowed by a vendored one of its name |
| `live_check` | `ProofChecksScript.cfg` | `ScriptConfirmsHonest`: **violated** | the live check gives `verify_proof` no head, which refuses every live proof |

Run one with `tlc -config <config> <module>`; `PROJECT.json` has the module of
each. The six violated properties quote a doc, a comment or a test of the
repository; `PROJECT.json` "findings" gives both lines.

Smaller disagreements met while modelling, which the models have and no run
singles out:

* `cap_weight_change` clamps and then renormalises, so that without any fault a
  change may exceed the documented ±0.3 (`docs/VALIDATOR_GUIDE.md`): of four UIDs
  at a quarter each, all due to a new one, the new one gets everything at once.
  `rewards.py:95-97` says "not an exact invariant" of it. `Weights` therefore
  claims what survives the renormalisation (`OutNeverRises`, `OutFallsByCap`),
  and `ValidatorEpoch` which vector a change is measured from.
* After a lost answer the next update is capped from an older vector than the
  chain's (`UpdatesBuildOnChain` asks for the chain's until the first fault).
* A failed commit of a reveal's hash is repeated only when a newer reveal is
  published (`validator.py:1012-1014` says "retried").
* An epoch in which no proof verifies counts as nobody's absence
  (`evidence.py:21-22`).
* "An epoch is applied once, or not at all" (`tests/test_epoch_atomicity.py`) has
  one exception: a validator that loses its state after an epoch's reveal was
  written rebuilds a frame that has that epoch in it, with `last_epoch_index` -1,
  and folds the same epoch again if it is still in it. `AppliedOnce` allows this
  case, of the frame's newest epoch, and no other; `rebuild_from_reveals` calls
  replaying one's own reveals "self-trusting and safe".
* "Live requires the shipped frame" (`validator.py:416-418`): a live validator
  told to rebuild from a directory without reveals begins with
  `load_bootstrap()`'s frame, which may be empty. `LiveValidatorIsPinned` allows
  this case and no other.
* `provision_subnet.py` compares the alpha a validator holds with nine tenths of
  the TAO it was to stake: a stake held as less is paid again by every run,
  although the script says that it is safe to re-run. `StakedWhileShort` is what
  holds. `--create` run again pays for a second subnet.
* `deadline_block` leaves five blocks, but nothing bounds an attempt
  (`validator.py:1240-1276`: a pause, a finalising submission, the SDK's own
  retries), and an attempt is made when the rate limit cannot be read. Weights
  included late can be taken by the watch, or confirmed by the validator, for
  those of another epoch. `PassedWeightsAreThisEpochs` and
  `ConfirmedAreThisEpochs` name these cases and exclude every other.
* The log of a measured boot is replayed by its digests (`attestation.py:304-317`)
  and the application read from its payload (`verify.py:612`): `ValidIsAttested`
  promises an approved application where the payload is what was extended.
* `watch_subnet.py --reveals` ends in an exception on the first reveal it finds
  (`float()` of a record, line 131).
* A call charged after the harness gave up makes an honest proof's costs
  inconsistent (`tee/verify.py:500-503` says this "can never legitimately fail").

**Bounds, and why they are enough.**

* `ValidatorEpoch`: three epochs of three slots, so an epoch may end before its
  deadline, overrun into the next, or be skipped; two attempts; one fault, enough
  for a lost answer, a restart and an update that builds on an older vector.
* `MinerRecords`: two UIDs and three hotkeys (a UID can be recycled, a hotkey
  return at another UID), two heads, four epochs, a liveness bound of two and
  weights that need two falls: an answer and three absences cross both. Two parts
  share the run: `evidence` replaces heads and leaves the weights aside, `weights`
  has one head and every fate of the submissions. The values of each set are
  interchangeable and no property names one, so symmetry is sound.
* `ReferenceFrame`: four UIDs of three operators, one of whom has two hotkeys:
  the least field in which hotkeys outvote operators and two operators are a
  majority; or a single miner. Two models, the least `MinJudged`; two epochs,
  enough to decay, retry, lose the disk and rebuild. No definition tells the
  hotkeys of one operator apart, or operators with one hotkey each, so answers
  are taken in one order of them (`Ordered`).
* `Assignment`: four benchmarks with pools of 1, 3 and 20 and slices of 1, 5 and
  12: caps round down to nothing, bind, and leave a rest for the second pass.
* `Frontier`: three models with costs 0, 1, 3 and accuracies 0..3, measured or
  not: equal costs, collinear points, points below the hull. `Dedup`: four heads
  with every relation of likeness (a chain that is no clique needs three, two
  clusters four), of one score, or three with scores 0 and 1 beside one that is
  alone; seniority is only compared, so ranks without a gap, ties among them,
  stand for all. `Weights`: three miners and the burn UID over
  tenths with a cap of three, scores of none or one and a confidence of none, half
  or whole.
* `Provision`: two operators, one pushing an empty payload, three attempts, a
  nonce store of one, two boots: eviction, races of two pushes and stale keys
  happen. `Harness`: three calls, one of which costs nothing, two at once, patience
  10 against a try of up to 18 ticks. `MinerLoop`: two validators, two heads, two collected epochs and a
  restart.
* `StateFile`: four states, so that a fresh one makes every content of every name
  stale twice over, and a fault at each step of a save. `RevealPublisher`: four
  epochs and three failures: a reveal can fail, be retried after a
  newer one exists, and its epoch rewritten. `NodeStartup`: benchmarks that are
  pinned, skipped and ungradable. `PinnedReads`: a boundary, a collection block
  and a block after each, more hotkeys than UIDs, and one refused read.
  `HeadArchive`: two miners and two heads. `ConsensusAudit`: up to three reports of
  scores some of which are near and some far, with weights on what is scored and
  on a UID nobody scores. `CertChain`: two names and two keys beside the root's, two carried
  certificates: shadowing, cycles and chains of two.
* `ProofVerification`: four responses of five kinds, a budget of nine and a
  timeout of three: an equal share (two) is below the timeout and grows past it
  as proofs are refused for free. The breaker (two) can open and be reset.
  Responses are looked at in the order of their UIDs: they differ only in what
  they are, and every assignment is an initial state.
* `ProofChecks`: two hotkeys, heads, epochs, boots and starts, two responses, and
  responses put together of the parts of any two proofs, the log among them, with
  either application named over it; at most one proof is of a course that is not
  clean, as a verdict is about one. `SpendTracker`: two threads, two tries, a cap that
  an overage crosses. `SubnetProvision`: three runs over two subnets, one of them
  another's; a stake of 0.5 TAO held as 0.5 or as 0.3, on either side of the
  threshold, which two stakes of 0.3 pass. `CallLog`: four calls of three models, one of which is asked out of
  sorted order; two threads, a budget that two calls pass, two runs and a change of
  version between them. `MinerServing`: two crashes, a move, a fault of the disk. `LogPull`:
  a ring of two lines under four, two boots. `SubnetWatch`: one validator watched,
  two epochs of four blocks, so that an attempt crosses the boundary, with a margin
  of one. The weights the watch reads and the commitments it reads meet in no
  property, so it is checked in two parts: beside a validator that submits, with
  one commitment, and beside a miner that commits again, with no validator at work.

**Deadlock** is not checked where the system really stops: the chain stops at its
bound, a loop over a finite field ends, a verdict is given once.

**Fairness.** `ValidatorEpoch`'s `FairSpec`: weak fairness of `Tick` (blocks keep
coming), and of the loop's own steps and `Restart` together. The loop is one
thread without unbounded waits except for the chain; its network calls have
timeouts, exceptions are caught and the loop goes on (`validator.py:1087-1097`);
`deploy/systemd/fugal-validator.service` has `Restart=always`. Faults are bounded:
progress is promised once they are over. Which outcome a call has is never fair.
`Harness`: weak fairness of every step of the harness and of a handler it still
waits for (threads run and timeouts fire), not of a handler that outlived its
caller. `MinerLoop`: weak fairness of a commitment that would succeed and of
seeing that it did; the loop polls, and the commitment is retried at each poll.
`LoopCommitmentSticks` says nothing of a chain that refuses for ever.

## 4. What is proved

Every safety invariant and every action property that a passing run checks, and the
refinement of `StateStore`, for every value of the constants that satisfies the
module's named assumption. Each safety theorem has the same argument: an inductive
invariant with one lemma for the initial states, one per action (or per group of
actions that disturb the same parts), and one that it implies the property; the
last step is temporal. What the invariants say beyond the property, and why the
property alone is not inductive:

| module | of | main theorems | inductive invariant |
|---|---|---|---|
| `ValidatorFilesProofs` | `StateFile` | `DiskAlwaysSafe`, `Implements` | `DiskInv`: `NamesHold` says which contents each name may have at each `pc`, `SoundDisk` that nothing is torn while the disk is undamaged. `LatestIsOnDisk` alone does not say that the name moved over `.bak` holds the last state saved. `Implements` maps `latest`, `previous`, `held` of `StateStore` to `saved`, `kept`, `mem`: a completed save is `Save`, every other step of a save a stutter. |
| | `HeadArchive` | `ArchiveAlwaysSafe` | `ArchiveInv`: a row is about to be written only when its file is whole (`FilesWhole`), and what is introduced in this call is what the rows before the call did not have (`RowsFirst`, `AllIntroduced`). |
| | `RevealPublisher` | `RevealsAlwaysSafe`, `AlwaysHeldAndForward` | `RevealInv`: `Written` and `MarkedIsOld`: only the current epoch's file is written, and all that is marked is older. `DueInOrder`: nothing unmarked and not due precedes what is due. `CommitsMarked`, `PointerKeepsUp`: without faults the pointer is behind only inside a run. `HoldKnown`: the hold is at least a period that was read. |
| `ValidatorChecksProofs` | `PinnedReads` | `ReadsAlwaysSafe` | `ReadsInv`: `SoundChain`: at each block a hotkey has one UID and no commitment is of a later block. `Pins` and `Burns`: what each validator holds is of the block its state says, at each place of its epoch; agreement follows because both hold the same block's. |
| | `NodeStartup` | `StartupAlwaysSafe` | `StartupInv`: what each gate found still holds at every later one (`PoolHeld`, `ChainHeld`, `EnvironmentHeld`, `FrameHeld`, ...): the property speaks of a neuron that runs only. |
| | `CertChain` | `ChainAlwaysSafe` | `ChainInv`: if the certificate the walk is at leads to the root, so does the leaf (`Descends`), and with the pinned files alone the walk climbs at most once (`PinnedWalk`); the property says nothing of a walk that goes on. |
| | `ProofVerification` | `BudgetAlwaysFair`, `VerdictAlwaysEarned`, `CircuitAlwaysEvidence` | `BudgetInv`: `Books`: clock and budget sum to the total, and the budget holds an equal share of it for each proof expected (lemma `ShareKept`). For the breaker, `Evidenced`: since the last answer there are at least as many fairly stalled fetches as it has counted. |
| | `ProofChecks` | `ChecksAlwaysSafe` | `ChecksInv`: `Register`: what the machine's register holds at each boot and start, and `ProofsMadeHere`: every proof, in whichever response, was made by it. A verdict rests on where every proof came from, and on no log's payload. |
| `MinerRecordsProofs` | `MinerRecords` | `RecordsAlwaysOwn`, `NeverGaps`, `PaidAlwaysRecent`, `FrontierAlwaysOne` | `IInv`: `History`, `CountsScored` (`NoGaps` needs it of the epoch to come), `LastAnswer`: the epochs since a record's last answer are among its misses, and the updates taken since then and the falls its weight has left keep within the bound (`PaidIsRecent` forgets both and is not inductive); `PaidAreHeld`. |
| | `Dedup` | `CopiesAlwaysSafe` | what the UIDs visited so far have made of the rest. |
| `SubnetProvisionProofs` | `SubnetProvision` | `SubnetAlwaysSafe` | `IInv`: `PayingIsActive`: a run that is past activation works on an active subnet. `OwnerChecked`: a run that creates is past the owner check only on its own. `ToHandle`: no hotkey is handled before the registrations begin. `DoneSoFar`: what a clean run has passed is done. Of the stakes, `Short`: one was added to another only while that was below the threshold. |
| | `MinerServing` | `ServingAlwaysSafe` | `ServingInv`: `ProbedOn`: past the probe the port is not another's, and who serves has published an address or used up every try; `OldMoved`: a published address is an old one only after a move. |
| | `LogPull` | `LogAlwaysSafe` | `LogInv`: `SealedReply`: what an answer on its way may hold, `ShownUpTo`: all that was shown is before the number the operator would pass on. |
| | `SpendTracker` | `SpendAlwaysSafe` | `SpendInv`: `EachItsOwn`: each thread's reservation is of its own state, `OverrunIsBehind`: what is spent and held is at most the cap and the overages of the threads that hold no reservation now. Sums over the threads. |
| | `SubnetWatch` | `WatchAlwaysSafe` | `WatchInv`: `OnTime`: what a validator may be doing at which block; `SentInTime`: each extrinsic that may still be included was decided on before its deadline, or is late, so that what landed is of its block's epoch, late or slow (`LandedInTime`); `Sure`: who is sure has nothing of another epoch under way and nothing recent on chain; `PinnedThen`, `Looked`, `FoundMissing`: what the watch has read was so when it was read. |
| | `CallLog` | `CallLogAlwaysSafe` | `CallLogInv`: `NotYetLogged`: what is not consumed is not in the log, `OpenIsExposed`: what may still be charged is counted already or among the exposed. That the frame does not depend on the order of the rows follows from `LoggedOnce`, as a sorted sequence without equal keys is unique. |
| `MinerLoopProofs` | `MinerLoop` | `LoopAlwaysSafe`, `PunctualIsAlwaysCollected` | `IInv`: `NotYetMade`: nothing is committed in blocks to come, so what the chain held at a boundary never changes after it. `StartsInOrder` and `ServesItsOwn`: the proof served is of an epoch this process started, over its own head. `AcceptedIsPinned`: what any validator accepted is what was pinned. |
| | `Harness` | `HarnessAlwaysSafe` | `HarnessInv`: `RecordedAsAnswered`, `BilledAsRecorded`: where each record and bill comes from, `TotalsInOrder`: each of the three sums is of a moment, and they were read in this order. |
| | `Provision` | `ProvisionAlwaysSafe` | `ProvisionInv`: `AttestedOnce`, `PendingInOrder`, `EvictedInOrder`: the life of a nonce, `PushedOnce`, `StoreKept`: the accepted push is the one the store has, until the next boot. |
| `ValidatorEpochProofs` | `ValidatorEpoch` | `EpochAlwaysSafe`, `UpdatesAlwaysBuild` | `IInv`: `Lineage`: an epoch in progress is later than all the state held counts, and the epoch-local state is that state and this epoch. `Base`: before any fault, the remembered weights, the next ones and the chain's agree at each `pc`. `Bases`: after any, what is remembered anywhere was on chain once. |
| | `ConsensusAudit` | `AuditAlwaysSafe` | `AuditInv`: `ResultIsOfTheReports`: the result is a function of the reports, so that what is true of medians and margins of any reports is true of it. |
| `EpochAlgorithmsProofs` | `ReferenceFrame` | `FrameAlwaysSafe`, `MinorityNeverMoves`, `ConsensusAlwaysMajoritys` | `FrameInv`: the frame in memory and the one on disk are each the replay, from their own base, of the epochs they have folded, and have folded them in order, with what they were rebuilt from before (`Held`, `FoldsInOrder`); the disk is never ahead of the memory (`DiskBehind`), and the epoch at work is revealed, the latest, and after the last one done (`WorkAhead`). The two about operators are about the votes of one epoch alone. |
| | `Weights` | `WeightsAlwaysSafe` | `WeightsInv`: the shares are those of the records, the final weights the capped shares; the rest is about sums: those of the out fall at least by the cap, what is clamped sums to no less than one minus what was cut off. |
| | `Assignment` | `AssignmentAlwaysSafe` | `AssignInv`: `Within` and `Filled`, and `FirstPass`, `SecondPass`: under the cap, what is left to give after the last slot of a round is rounding, fewer questions than there are benchmarks still open. |
| | `Frontier` | `FrontierAlwaysSafe` | `FrontierInv`: no point taken so far is over an edge of the hull (`Over`), the last point is the dearest taken and the best at its cost, and what is taken precedes what is not. An edge stays over the points to come because a concave turn only gets steeper (`OldEdge`), a new one is over what is left of it and over what it drops (`NewEdgeLeft`, `NewEdgeRight`). That single policies and mixtures of two are below the frontier is then `PointBelowLine` and `MixBelowLine`. |
| `SumsProofs` | `Sums` | | lemmas: the sum exists, is a number, grows with each value, splits and scales; the least member of a set of numbers. |

**Numbers and sums.** The installed provers cannot use the library's induction
theorems, whose parameter is an operator. What needs induction here is proved from
the least counterexample instead: a nonempty set of numbers has a least member
(`LeastOf`, from the well-foundedness theorems), so what holds at 0 and passes from
each number to the next holds at all (`CountingUp`). Sums are recursive functions,
and a function that satisfies such a recursion exists and is unique by the same
argument. Where a model had a fold over a set or a `SortSeq`, it now has a function
over 1..n or the least of what is left: `Frontier` takes its points as a set whose
next member nothing precedes.

**What the proofs turned up.** `WeightsSafety`'s `OutNeverRises` is stated for a
cap of a quarter or more, as the code's default is (`config.py:452`): the
renormalization after the cap can raise the weight of a UID that is out (weights of
.5 and five times .1, all of it due to a new UID, a cap of .1: the UID that goes out
from .5 ends above it). That a UID that is out falls by at least the cap's part of
its weight (`OutFallsByCap`) holds under any cap, and is what bounds the pay of an
absent miner. `ConfirmedAreThisEpochs` needs a slack within the chain's rate limit,
which the chain does not promise, and stands under that condition. `OverCapIsRounding` needs a share factor of at least one
(`config.py:27`): below it the caps together are too low for the slice.
`PassedIsPinned` needs a grace of at least one block, which `watch_subnet.py`'s
`min(blocks_per_epoch - 1, 30)` gives: with none the watch reads the commitment at
the boundary itself.

The assumptions are those of each module's `ASSUME`: naturals, positive where the
code divides or indexes, and values that are no number kept apart from those that
are. Results that carry a hypothesis of their own in the statement: without
faults (`PrevTracksChain`, the second half of `UpdatesBuildOnChain`, `PointerIsNewest`),
the period read at start-up (`HeldForPeriod`), reads that were served
(`ReadersAgree`), answers heard (`CleanRunProvisions`).

**Only model-checked.** `CaughtUp`, `OnceTerminates`, `BenchmarkEnds` and
`LoopCommitmentSticks`: liveness under fairness is out of the prover's reach, as is
ENABLED. The violated properties are counterexamples and need no proof.

## 5. What is not modelled, and why

* Grading of answers, head evaluation, the backbone, embeddings, cosine
  similarity and the Wilson bound: text and floating point. Where a decision
  depends on them, the model allows every outcome.
* Quotes, signatures, ciphers and hashes are trusted to do what they say; bytes
  and encodings are left out.
* The epoch log and the public API append and serve; nothing modelled reads them.
* Rehearsals, local test nets, economic studies, attack scripts, the vendored
  contract and evaluation reports are not part of a running neuron.
* `Dedup` and `MinerRecords` are not composed: that a head disqualified in one
  epoch is paid when it is absent in the next is allowed by `MinerRecords`, whose
  choice of the paid is free.

## 6. What could follow

1. `Dedup` composed with `MinerRecords` over two epochs.
2. `ProofVerification` shown to implement an abstract verifier that judges a proof
   by `ProofChecks` or reports an outage, so that the two are one chain of theorems.
3. That rounding to tokens and to 16-bit weights keeps what `Weights` and
   `Frontier` promise of exact numbers.
