------------------------------ MODULE MinerLoop ------------------------------
(***************************************************************************)
(* A miner over epochs (neurons/miner.py: its main loop, its commitment    *)
(* and its axon) and the validators that collect from it                   *)
(* (neurons/validator.py, to the query): both follow the chain on their    *)
(* own, the miner benchmarks the epoch it sees and serves the last proof   *)
(* it finished, and a proof counts if its head was committed by the        *)
(* epoch's boundary block.  Blocks 1 to EpochLen - 1 are epoch 0's.        *)
(***************************************************************************)
EXTENDS Integers

CONSTANTS
  Validators, HeadHashes,
  EpochLen,       \* blocks of an epoch
  CollectOffset,  \* from its boundary to the block proofs are collected at
  MaxBlock, MaxRestarts,   \* bounds
  None

ASSUME LoopAssumption ==
  /\ EpochLen \in Nat /\ EpochLen > 1 /\ CollectOffset \in 1..EpochLen - 1
  /\ MaxBlock \in Nat \ {0} /\ MaxRestarts \in Nat
  /\ HeadHashes \cap {None, "nothing", "lost"} = {} /\ None \notin {"nothing", "lost"}
  /\ None \notin [epoch : Nat, nonce : Nat, head : HeadHashes]

VARIABLES
  block,      \* the chain's height
  commits,    \* block |-> the head hash a commitment in it set
  restarts,
  miner,      \* the process: its head, whether it knows its commitment stuck,
              \* the last epoch it started, the epoch it runs
  proof,      \* what the axon serves
  punctual,   \* history: epochs whose proof this process had by their collect block
  started,    \* validator |-> the epoch it waits to collect; 0: none
  collected   \* validator |-> epoch |-> the head of the proof it accepted

loopVars == <<block, commits, restarts, miner, proof, punctual, started, collected>>

Blocks == 1..MaxBlock
EpochOf(b) == b \div EpochLen
LoopEpochs == 1..EpochOf(MaxBlock)
Boundary(e) == e * EpochLen
CollectBlock(e) == Boundary(e) + CollectOffset

(* What the commitments pallet holds after a block. *)
Latest(b) ==
  LET made == {c \in Blocks : c <= b /\ commits[c] # None}
  IN  IF made = {} THEN None ELSE commits[CHOOSE c \in made : \A d \in made : d <= c]

Outcomes == HeadHashes \cup {None, "nothing", "lost"}

LoopTypeOK ==
  /\ block \in Blocks /\ restarts \in 0..MaxRestarts
  /\ commits \in [Blocks -> HeadHashes \cup {None}]
  /\ miner \in [head : HeadHashes, committed : BOOLEAN, last : LoopEpochs \cup {0}, runs : LoopEpochs \cup {0}]
  /\ proof \in [epoch : LoopEpochs, nonce : LoopEpochs, head : HeadHashes] \cup {None}
  /\ punctual \subseteq LoopEpochs
  /\ started \in [Validators -> LoopEpochs \cup {0}]
  /\ collected \in [Validators -> [LoopEpochs -> Outcomes]]

Process(h) == [head |-> h, committed |-> FALSE, last |-> 0, runs |-> 0]

LoopInit ==
  /\ block = 1 /\ commits = [b \in Blocks |-> None] /\ restarts = 0
  /\ \E h \in HeadHashes : miner = Process(h)
  /\ proof = None /\ punctual = {}
  /\ started = [v \in Validators |-> 0]
  /\ collected = [v \in Validators |-> [e \in LoopEpochs |-> None]]

NextBlock ==
  /\ block < MaxBlock /\ block' = block + 1
  /\ UNCHANGED <<commits, restarts, miner, proof, punctual, started, collected>>

-----------------------------------------------------------------------------
(* ensure_commitment: the chain has it already *)
AlreadyCommitted ==
  /\ ~miner.committed /\ Latest(block) = miner.head
  /\ miner' = [miner EXCEPT !.committed = TRUE]
  /\ UNCHANGED <<block, commits, restarts, proof, punctual, started, collected>>

(* The next block carries set_commitment; its answer may be lost. *)
Commit ==
  /\ ~miner.committed /\ block < MaxBlock
  /\ block' = block + 1 /\ commits' = [commits EXCEPT ![block'] = miner.head]
  /\ \E known \in BOOLEAN : miner' = [miner EXCEPT !.committed = known]
  /\ UNCHANGED <<restarts, proof, punctual, started, collected>>

(* Mutant of CommitFails: it is not tried again *)
CommitFailsForGood ==
  /\ ~miner.committed
  /\ miner' = [miner EXCEPT !.committed = TRUE]
  /\ UNCHANGED <<block, commits, restarts, proof, punctual, started, collected>>

(* The chain refuses it, or cannot be reached: tried again at the next poll. *)
CommitFails ==
  /\ ~miner.committed /\ UNCHANGED loopVars

(* Mutant of Current: the boundary is off by one *)
CurrentEarly == EpochOf(block + 1)

Current == EpochOf(block)

(* A new epoch: started, and marked started before it is run. *)
StartRun ==
  /\ miner.runs = 0 /\ Current > miner.last /\ Current \in LoopEpochs
  /\ miner' = [miner EXCEPT !.last = Current, !.runs = Current]
  /\ UNCHANGED <<block, commits, restarts, proof, punctual, started, collected>>

(* _run_epoch, however long it took *)
FinishRun ==
  /\ miner.runs # 0
  /\ proof' = [epoch |-> miner.runs, nonce |-> miner.runs, head |-> miner.head]
  /\ punctual' = IF block <= CollectBlock(miner.runs) THEN punctual \cup {miner.runs} ELSE punctual
  /\ miner' = [miner EXCEPT !.runs = 0]
  /\ UNCHANGED <<block, commits, restarts, started, collected>>

(* An exception: the epoch is not run again, the last proof is still served. *)
FailRun ==
  /\ miner.runs # 0 /\ miner' = [miner EXCEPT !.runs = 0]
  /\ UNCHANGED <<block, commits, restarts, proof, punctual, started, collected>>

(* With a new head, or the same; the proof is only in memory. *)
RestartMiner(h) ==
  /\ restarts < MaxRestarts /\ restarts' = restarts + 1
  /\ miner' = Process(h) /\ proof' = None /\ punctual' = {}
  /\ UNCHANGED <<block, commits, started, collected>>

-----------------------------------------------------------------------------
(* A validator sees the boundary, and reads what the chain held there. *)
StartEpoch(v) ==
  /\ started[v] = 0 /\ EpochOf(block) \in LoopEpochs
  /\ collected[v][EpochOf(block)] = None
  /\ started' = [started EXCEPT ![v] = EpochOf(block)]
  /\ UNCHANGED <<block, commits, restarts, miner, proof, punctual, collected>>

(* An exception before the epoch is committed, or a restart: from the top *)
DropEpoch(v) ==
  /\ started[v] # 0 /\ started' = [started EXCEPT ![v] = 0]
  /\ UNCHANGED <<block, commits, restarts, miner, proof, punctual, collected>>

(* Mutant of Pinned: the commitments as they are now *)
PinnedNow(e) == Latest(block + 0 * e)

(* read_commitments_or_fail at the boundary block *)
Pinned(e) == Latest(Boundary(e))

(* forward serves the epoch asked for, and the proof must be over its nonce. *)
Accepts(e) ==
  proof # None /\ proof.epoch = e /\ proof.nonce = e /\ Pinned(e) = proof.head

Collect(v) ==
  /\ started[v] # 0 /\ block >= CollectBlock(started[v])
  /\ collected' = [collected EXCEPT ![v][started[v]] =
                     IF Accepts(started[v]) THEN proof.head ELSE "nothing"]
  /\ started' = [started EXCEPT ![v] = 0]
  /\ UNCHANGED <<block, commits, restarts, miner, proof, punctual>>

(* The query, or its answer, does not get through. *)
CollectLost(v) ==
  /\ started[v] # 0 /\ block >= CollectBlock(started[v])
  /\ collected' = [collected EXCEPT ![v][started[v]] = "lost"]
  /\ started' = [started EXCEPT ![v] = 0]
  /\ UNCHANGED <<block, commits, restarts, miner, proof, punctual>>

LoopNext ==
  \/ NextBlock \/ AlreadyCommitted \/ Commit \/ CommitFails
  \/ StartRun \/ FinishRun \/ FailRun
  \/ \E h \in HeadHashes : RestartMiner(h)
  \/ \E v \in Validators : StartEpoch(v) \/ DropEpoch(v) \/ Collect(v) \/ CollectLost(v)

(* The loop calls ensure_commitment every 30 s, and the chain does not refuse
   it for ever. *)
LoopFairness == WF_loopVars(AlreadyCommitted) /\ WF_loopVars(Commit)

LoopSpec == LoopInit /\ [][LoopNext]_loopVars /\ LoopFairness

-----------------------------------------------------------------------------
(* Commit-before-nonce: the head of an accepted proof was on chain by the
   boundary block, whose hash chose the questions ("a head trained or swapped
   after the nonce is knowable ... is rejected", commitments.py). *)
CommittedBeforeNonce ==
  \A v \in Validators, e \in LoopEpochs :
    collected[v][e] \in HeadHashes => \E b \in Blocks : b <= Boundary(e) /\ commits[b] = collected[v][e]

(* However late validators ask, and whatever the miner restarts with in
   between, those that accept a proof of an epoch accept the same head. *)
OneHeadPerEpoch ==
  \A v, w \in Validators, e \in LoopEpochs :
    {collected[v][e], collected[w][e]} \subseteq HeadHashes => collected[v][e] = collected[w][e]

(* A miner that had its proof by the collect block, over the head it had
   committed, is collected by every validator that asks in that epoch and is
   heard ("proof must be ready by block", miner.py). *)
PunctualIsCollected ==
  [][\A v \in Validators, e \in punctual :
       collected[v][e] = None /\ collected'[v][e] = "nothing" /\ block < Boundary(e + 1)
         => Latest(Boundary(e)) # miner.head]_loopVars

(* "retried ... until it sticks": unless the chain ends, a process that runs
   on gets its head committed. *)
CommitmentSticks ==
  []<>(Latest(block) = miner.head \/ block = MaxBlock)

(* The order of commitment, nonce, proof and collection, as all validators see
   it. *)
LoopSafety == LoopTypeOK /\ CommittedBeforeNonce /\ OneHeadPerEpoch

=============================================================================
