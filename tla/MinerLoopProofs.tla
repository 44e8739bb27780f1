-------------------------- MODULE MinerLoopProofs --------------------------
(***************************************************************************)
(* Proofs about MinerLoop, for any number of blocks, validators and heads; *)
(* about Harness, for any number of calls, costs and tries; and about      *)
(* Provision, for any operators, pushes, attempts and boots.               *)
(***************************************************************************)
EXTENDS MinerLoop, Harness, Provision, SumsProofs, SequenceTheorems,
        FiniteSetTheorems, WellFoundedInduction, TLAPS

(* No block holds a commitment before it is made. *)
NotYetMade == \A b \in Blocks : b > block => commits[b] = None

(* The miner starts epochs the chain has reached, in order. *)
StartsInOrder ==
  /\ miner.runs # 0 => miner.runs = miner.last /\ Boundary(miner.runs) <= block

(* What it serves is over its own head and of an epoch that has begun, and no
   older than any it had ready in time. *)
ServesItsOwn ==
  /\ proof # None => /\ proof.head = miner.head /\ proof.nonce = proof.epoch
                     /\ proof.epoch <= miner.last /\ Boundary(proof.epoch) <= block
  /\ \A e \in punctual : e <= miner.last /\ proof # None /\ e <= proof.epoch

(* A proof is accepted over what the chain holds at the boundary, for good. *)
AcceptedIsPinned ==
  \A v \in Validators, e \in LoopEpochs :
    collected[v][e] \in HeadHashes => Boundary(e) <= block /\ collected[v][e] = Pinned(e)

IInv == LoopTypeOK /\ NotYetMade /\ StartsInOrder /\ ServesItsOwn /\ AcceptedIsPinned

-----------------------------------------------------------------------------
(* A nonempty set of numbers has a least member. *)
LEMMA Least == ASSUME NEW T \in SUBSET Nat, T # {}
               PROVE  \E x \in T : \A y \in T : x <= y
<1> DEFINE R == OpToRel(<, Nat)
<1>1. IsWellFoundedOn(R, Nat)
  BY NatLessThanWellFounded
<1>2. \A x, y \in Nat : y < x => <<y, x>> \in R
  BY DEF OpToRel
<1> HIDE DEF R
<1>3. PICK x \in T : \A y \in T : ~ (<<y, x>> \in R)
  BY <1>1, WFMin
<1>4. \A y \in T : ~ (y < x)
  BY <1>2, <1>3
<1> QED
  BY <1>4

(* A nonempty set of blocks has a last one. *)
LEMMA LastMade == ASSUME NEW made \in SUBSET Blocks, made # {}
              PROVE  \E c \in made : \A d \in made : d <= c
<1> DEFINE T == {MaxBlock - c : c \in made}
<1>1. T \in SUBSET Nat /\ T # {}
  <2>1. \A c \in made : MaxBlock - c \in Nat
    BY LoopAssumption DEF Blocks
  <2> QED
    BY <2>1
<1>2. PICK x \in T : \A y \in T : x <= y
  BY <1>1, Least
<1>3. PICK c \in made : x = MaxBlock - c
  BY <1>2
<1>4. \A d \in made : MaxBlock - c <= MaxBlock - d
  BY <1>2, <1>3
<1> QED
  BY <1>4, LoopAssumption DEF Blocks

(* The commitments up to a block, of which the latest counts. *)
MadeBy(b) == {c \in Blocks : c <= b /\ commits[c] # None}

(* The latest commitment is one that was made. *)
LEMMA LatestIsMade ==
  ASSUME NEW b, MadeBy(b) # {}
  PROVE  \E c \in MadeBy(b) : Latest(b) = commits[c]
<1> DEFINE c == CHOOSE c \in MadeBy(b) : \A d \in MadeBy(b) : d <= c
<1>1. MadeBy(b) \in SUBSET Blocks
  BY DEF MadeBy
<1>2. c \in MadeBy(b)
  BY <1>1, LastMade
<1>3. Latest(b) = commits[c]
  BY DEF Latest, MadeBy
<1> QED
  BY <1>2, <1>3

(* Where none was made there is no latest. *)
LEMMA NothingMade == ASSUME NEW b, MadeBy(b) = {} PROVE Latest(b) = None
  BY DEF Latest, MadeBy

(* What is committed later leaves what the chain held at a block alone. *)
LEMMA LatestStays ==
  ASSUME NEW b, \A c \in Blocks : c <= b => commits'[c] = commits[c]
  PROVE  Latest(b)' = Latest(b)
<1> DEFINE c == CHOOSE c \in MadeBy(b) : \A d \in MadeBy(b) : d <= c
<1>1. MadeBy(b)' = MadeBy(b)
  BY DEF MadeBy
<1>2. CASE MadeBy(b) = {}
  <2>1. Latest(b)' = None
    BY <1>1, <1>2 DEF Latest, MadeBy
  <2> QED
    BY <1>2, <2>1, NothingMade
<1>3. CASE MadeBy(b) # {}
  <2>1. c \in MadeBy(b)
    <3>1. MadeBy(b) \in SUBSET Blocks
      BY DEF MadeBy
    <3> QED
      BY <1>3, <3>1, LastMade
  <2>2. Latest(b) = commits[c]
    BY <1>3 DEF Latest, MadeBy
  <2>3. Latest(b)' = commits'[c]
    BY <1>1, <1>3 DEF Latest, MadeBy
  <2>4. commits'[c] = commits[c]
    BY <2>1 DEF MadeBy
  <2> QED
    BY <2>2, <2>3, <2>4
<1> QED
  BY <1>2, <1>3

(* The epoch a block is in has begun by then. *)
LEMMA EpochBegun == ASSUME block \in Blocks
                    PROVE  EpochOf(block) \in Nat /\ Boundary(EpochOf(block)) <= block
  BY LoopAssumption DEF Blocks, EpochOf, Boundary

(* Epochs and blocks are positive numbers. *)
LEMMA EpochsAreNats == /\ LoopEpochs \subseteq Nat \ {0} /\ Blocks \subseteq Nat \ {0}
                       /\ \A e \in LoopEpochs : Boundary(e) \in Nat /\ CollectBlock(e) \in Nat
<1>1. EpochOf(MaxBlock) \in Nat
  BY LoopAssumption DEF EpochOf
<1>2. LoopEpochs \subseteq Nat \ {0} /\ Blocks \subseteq Nat \ {0}
  BY <1>1, LoopAssumption DEF LoopEpochs, Blocks
<1>3. \A e \in Nat : Boundary(e) \in Nat
  BY LoopAssumption DEF Boundary
<1> QED
  BY <1>2, <1>3, LoopAssumption DEF CollectBlock

(* Nothing is committed yet. *)
LEMMA InitIInv == LoopInit => IInv
<1> SUFFICES ASSUME LoopInit PROVE IInv
  OBVIOUS
<1> USE LoopAssumption DEF LoopInit
<1>1. LoopTypeOK
  BY DEF LoopTypeOK, Blocks, Process, Outcomes
<1>2. NotYetMade
  BY DEF NotYetMade
<1>3. StartsInOrder /\ ServesItsOwn
  BY DEF StartsInOrder, ServesItsOwn, Process
<1>4. AcceptedIsPinned
  BY DEF AcceptedIsPinned
<1> QED
  BY <1>1, <1>2, <1>3, <1>4 DEF IInv

(* Blocks go by, and what the chain held stays. *)
LEMMA Later ==
  ASSUME IInv, block' \in Blocks, block <= block',
         \A c \in Blocks : c <= block => commits'[c] = commits[c],
         UNCHANGED collected
  PROVE  AcceptedIsPinned'
<1> SUFFICES ASSUME NEW v \in Validators, NEW e \in LoopEpochs, collected[v][e] \in HeadHashes
             PROVE  Boundary(e) <= block' /\ collected[v][e] = Pinned(e)'
  BY DEF AcceptedIsPinned
<1>1. Boundary(e) <= block /\ collected[v][e] = Pinned(e) /\ Boundary(e) \in Nat /\ block \in Nat
      /\ block' \in Nat
  BY EpochsAreNats DEF IInv, AcceptedIsPinned, LoopTypeOK
<1>2. ASSUME NEW c \in Blocks, c <= Boundary(e) PROVE commits'[c] = commits[c]
  <2>1. c \in Nat
    BY EpochsAreNats
  <2>2. c <= block
    BY <1>1, <1>2, <2>1
  <2> QED
    BY <2>2
<1>3. Latest(Boundary(e))' = Latest(Boundary(e))
  BY <1>2, LatestStays DEF Boundary
<1> QED
  BY <1>1, <1>3 DEF Pinned, Boundary

(* So does what the miner does with epochs, when only the chain moves on. *)
LEMMA MinerWaits ==
  ASSUME IInv, block' \in Blocks, block <= block', UNCHANGED <<proof, punctual>>,
         miner'.head = miner.head, miner'.last = miner.last, miner'.runs = miner.runs
  PROVE  StartsInOrder' /\ ServesItsOwn'
<1>1. block \in Nat /\ block' \in Nat
  BY EpochsAreNats DEF IInv, LoopTypeOK
<1>2. miner.runs # 0 => Boundary(miner.runs) \in Nat /\ miner.runs = miner.last /\ Boundary(miner.runs) <= block
  BY EpochsAreNats DEF IInv, LoopTypeOK, StartsInOrder
<1>3. proof # None => Boundary(proof.epoch) \in Nat /\ Boundary(proof.epoch) <= block
  BY EpochsAreNats DEF IInv, LoopTypeOK, ServesItsOwn
<1>4. StartsInOrder'
  BY <1>1, <1>2 DEF StartsInOrder, Boundary
<1>5. ServesItsOwn'
  BY <1>1, <1>3 DEF IInv, ServesItsOwn, Boundary
<1> QED
  BY <1>4, <1>5

(* A new block brings no commitment. *)
LEMMA NextBlockStep == ASSUME IInv, NextBlock PROVE IInv'
<1> USE DEF IInv, NextBlock
<1>1. block' \in Blocks /\ block \in Blocks
  BY LoopAssumption DEF LoopTypeOK, Blocks
<1>2. LoopTypeOK'
  BY <1>1 DEF LoopTypeOK
<1>3. NotYetMade'
  BY <1>1, EpochsAreNats DEF NotYetMade
<1>4. StartsInOrder' /\ ServesItsOwn'
  BY <1>1, EpochsAreNats, MinerWaits
<1>5. AcceptedIsPinned'
  BY <1>1, EpochsAreNats, Later
<1> QED
  BY <1>2, <1>3, <1>4, <1>5

(* The next block carries a commitment; what was pinned before it stays. *)
LEMMA CommitStep == ASSUME IInv, Commit PROVE IInv'
<1> USE DEF IInv, Commit
<1>1. block' \in Blocks /\ block \in Blocks /\ block' = block + 1
  BY LoopAssumption DEF LoopTypeOK, Blocks
<1>2. \A c \in Blocks : c # block' => commits'[c] = commits[c]
  BY <1>1 DEF LoopTypeOK
<1>3. LoopTypeOK'
  <2>1. commits' \in [Blocks -> HeadHashes \cup {None}]
    BY <1>1 DEF LoopTypeOK
  <2>2. miner' \in [head : HeadHashes, committed : BOOLEAN, last : LoopEpochs \cup {0},
                    runs : LoopEpochs \cup {0}]
    BY DEF LoopTypeOK
  <2> QED
    BY <1>1, <2>1, <2>2 DEF LoopTypeOK
<1>4. NotYetMade'
  BY <1>1, <1>2, EpochsAreNats DEF NotYetMade
<1>5. miner'.head = miner.head /\ miner'.last = miner.last /\ miner'.runs = miner.runs
  BY DEF LoopTypeOK
<1>6. StartsInOrder' /\ ServesItsOwn'
  BY <1>1, <1>5, EpochsAreNats, MinerWaits
<1>7. AcceptedIsPinned'
  BY <1>1, <1>2, EpochsAreNats, Later
<1> QED
  BY <1>3, <1>4, <1>6, <1>7

(* A commitment that is there already, or fails, leaves the chain alone. *)
LEMMA CommittedStep == ASSUME IInv, AlreadyCommitted \/ CommitFails PROVE IInv'
<1> USE DEF IInv
<1>0. block \in Blocks /\ block <= block
  BY EpochsAreNats DEF LoopTypeOK
<1>1. CASE AlreadyCommitted
  <2> USE <1>1 DEF AlreadyCommitted
  <2>1. LoopTypeOK'
    BY DEF LoopTypeOK
  <2>2. miner'.head = miner.head /\ miner'.last = miner.last /\ miner'.runs = miner.runs
    BY DEF LoopTypeOK
  <2>3. NotYetMade' /\ StartsInOrder' /\ ServesItsOwn'
    BY <2>2 DEF NotYetMade, StartsInOrder, ServesItsOwn, Boundary
  <2>4. AcceptedIsPinned'
    BY <1>0, Later
  <2> QED
    BY <2>1, <2>3, <2>4
<1>2. CASE CommitFails
  <2> USE <1>2 DEF CommitFails, loopVars
  <2>1. LoopTypeOK' /\ NotYetMade' /\ StartsInOrder' /\ ServesItsOwn'
    BY DEF LoopTypeOK, NotYetMade, StartsInOrder, ServesItsOwn, Boundary
  <2>2. AcceptedIsPinned'
    BY <1>0, Later
  <2> QED
    BY <2>1, <2>2
<1> QED
  BY <1>1, <1>2

(* The chain, and what was collected, stay. *)
LEMMA ChainStays == ASSUME IInv, UNCHANGED <<block, commits>>
                    PROVE  /\ NotYetMade' /\ block \in Blocks /\ block <= block
                           /\ collected' = collected => AcceptedIsPinned'
<1>1. block \in Blocks /\ block <= block
  BY EpochsAreNats DEF IInv, LoopTypeOK
<1>2. NotYetMade'
  BY DEF IInv, NotYetMade
<1> QED
  BY <1>1, <1>2, Later

(* A run is of the epoch the chain is in, later than any started before. *)
LEMMA StartRunStep == ASSUME IInv, StartRun PROVE IInv'
<1> USE DEF IInv, StartRun
<1>1. block \in Blocks /\ Current \in LoopEpochs /\ Boundary(Current) <= block
  BY EpochBegun DEF LoopTypeOK, Current
<1>2. /\ miner'.last = Current /\ miner'.runs = Current /\ miner'.head = miner.head
      /\ miner' \in [head : HeadHashes, committed : BOOLEAN, last : LoopEpochs \cup {0},
                    runs : LoopEpochs \cup {0}]
  BY <1>1 DEF LoopTypeOK
<1>3. LoopTypeOK'
  BY <1>2 DEF LoopTypeOK
<1>4. StartsInOrder'
  BY <1>1, <1>2 DEF StartsInOrder, Boundary
<1>5. ServesItsOwn'
  <2>1. miner.last \in Nat /\ Current \in Nat /\ miner.last < Current
    BY <1>1, EpochsAreNats DEF LoopTypeOK
  <2>2. \A e \in punctual \cup (IF proof # None THEN {proof.epoch} ELSE {}) : e \in Nat
    BY EpochsAreNats DEF LoopTypeOK
  <2>3. proof # None => proof.epoch <= Current
    BY <2>1, <2>2 DEF ServesItsOwn
  <2>4. \A e \in punctual : e <= Current
    BY <2>1, <2>2 DEF ServesItsOwn
  <2> QED
    BY <1>2, <2>3, <2>4 DEF ServesItsOwn, Boundary
<1> QED
  BY <1>3, <1>4, <1>5, ChainStays

(* A run that ends serves the proof of its own epoch. *)
LEMMA FinishRunStep == ASSUME IInv, FinishRun PROVE IInv'
<1> USE DEF IInv, FinishRun
<1>1. /\ miner.runs \in LoopEpochs /\ miner.runs = miner.last /\ Boundary(miner.runs) <= block
  BY DEF LoopTypeOK, StartsInOrder
<1>2. /\ miner'.last = miner.last /\ miner'.runs = 0 /\ miner'.head = miner.head
      /\ miner' \in [head : HeadHashes, committed : BOOLEAN, last : LoopEpochs \cup {0},
                    runs : LoopEpochs \cup {0}]
  BY DEF LoopTypeOK
<1>3. /\ proof' \in [epoch : LoopEpochs, nonce : LoopEpochs, head : HeadHashes]
      /\ proof'.epoch = miner.last /\ proof'.nonce = miner.last /\ proof'.head = miner.head
  BY <1>1 DEF LoopTypeOK
<1>4. punctual' \subseteq LoopEpochs
  BY <1>1 DEF LoopTypeOK
<1>5. LoopTypeOK'
  BY <1>2, <1>3, <1>4 DEF LoopTypeOK
<1>6. StartsInOrder'
  BY <1>2 DEF StartsInOrder
<1>7. ServesItsOwn'
  <2>1. \A e \in punctual' : e <= miner.last
    BY <1>1, EpochsAreNats DEF ServesItsOwn
  <2>2. miner.last \in Nat /\ miner.last <= miner.last
    BY <1>1, EpochsAreNats
  <2>3. proof' # None
    BY <1>3, EpochsAreNats, LoopAssumption
  <2> QED
    BY <1>1, <1>2, <1>3, <2>1, <2>2, <2>3 DEF ServesItsOwn, Boundary
<1> QED
  BY <1>5, <1>6, <1>7, ChainStays

(* A run that fails serves nothing new. *)
LEMMA FailRunStep == ASSUME IInv, FailRun PROVE IInv'
<1> USE DEF IInv, FailRun
<1>1. /\ miner'.last = miner.last /\ miner'.runs = 0 /\ miner'.head = miner.head
      /\ miner' \in [head : HeadHashes, committed : BOOLEAN, last : LoopEpochs \cup {0},
                    runs : LoopEpochs \cup {0}]
  BY DEF LoopTypeOK
<1>2. LoopTypeOK'
  BY <1>1 DEF LoopTypeOK
<1>3. StartsInOrder' /\ ServesItsOwn'
  BY <1>1 DEF StartsInOrder, ServesItsOwn, Boundary
<1> QED
  BY <1>2, <1>3, ChainStays

(* A restarted miner has forgotten its runs; the chain has not. *)
LEMMA RestartStep == ASSUME IInv, NEW h \in HeadHashes, RestartMiner(h) PROVE IInv'
<1> USE DEF IInv, RestartMiner
<1>1. LoopTypeOK'
  <2>1. restarts' \in 0..MaxRestarts
    BY LoopAssumption DEF LoopTypeOK
  <2> QED
    BY <2>1 DEF LoopTypeOK, Process
<1>2. StartsInOrder' /\ ServesItsOwn'
  BY DEF StartsInOrder, ServesItsOwn, Process
<1> QED
  BY <1>1, <1>2, ChainStays

(* A validator that starts or drops an epoch accepts nothing. *)
LEMMA EpochStep == ASSUME IInv, NEW v \in Validators, StartEpoch(v) \/ DropEpoch(v) PROVE IInv'
<1> USE DEF IInv, StartEpoch, DropEpoch
<1>1. LoopTypeOK'
  BY DEF LoopTypeOK
<1>2. StartsInOrder' /\ ServesItsOwn'
  BY DEF StartsInOrder, ServesItsOwn, Boundary
<1> QED
  BY <1>1, <1>2, ChainStays

(* One epoch of one validator is collected. *)
LEMMA Collected ==
  ASSUME IInv, NEW v \in Validators, NEW o \in Outcomes, started[v] # 0,
         o \in HeadHashes => o = Pinned(started[v]) /\ Boundary(started[v]) <= block,
         collected' = [collected EXCEPT ![v][started[v]] = o],
         started' = [started EXCEPT ![v] = 0],
         UNCHANGED <<block, commits, restarts, miner, proof, punctual>>
  PROVE  IInv'
<1> USE DEF IInv
<1>1. LoopTypeOK'
  BY DEF LoopTypeOK
<1>2. StartsInOrder' /\ ServesItsOwn'
  BY DEF StartsInOrder, ServesItsOwn, Boundary
<1>3. AcceptedIsPinned'
  <2> SUFFICES ASSUME NEW w \in Validators, NEW e \in LoopEpochs, collected'[w][e] \in HeadHashes
               PROVE  Boundary(e) <= block /\ collected'[w][e] = Pinned(e)
    BY DEF AcceptedIsPinned, Pinned, Latest, Boundary
  <2>1. collected'[w][e] = IF w = v /\ e = started[v] THEN o ELSE collected[w][e]
    BY DEF LoopTypeOK
  <2> QED
    BY <2>1 DEF AcceptedIsPinned
<1> QED
  BY <1>1, <1>2, <1>3, ChainStays

(* What a validator accepts is what was pinned. *)
LEMMA CollectStep == ASSUME IInv, NEW v \in Validators, Collect(v) PROVE IInv'
<1> DEFINE o == IF Accepts(started[v]) THEN proof.head ELSE "nothing"
<1>1. o \in Outcomes
  BY DEF IInv, LoopTypeOK, Collect, Accepts, Outcomes
<1>2. Boundary(started[v]) <= block
  <2>1. started[v] \in LoopEpochs /\ block \in Nat
    BY EpochsAreNats DEF IInv, LoopTypeOK, Collect
  <2>2. Boundary(started[v]) \in Nat /\ Boundary(started[v]) + CollectOffset <= block
    BY <2>1, EpochsAreNats DEF Collect, CollectBlock
  <2>3. CollectOffset \in Nat
    BY LoopAssumption
  <2> QED
    BY <2>1, <2>2, <2>3
<1>3. o \in HeadHashes => o = Pinned(started[v])
  BY LoopAssumption DEF Accepts
<1> HIDE DEF o
<1>4. collected' = [collected EXCEPT ![v][started[v]] = o]
  BY DEF Collect, o
<1> QED
  BY <1>1, <1>2, <1>3, <1>4, Collected DEF Collect

(* A fetch that is lost is no acceptance. *)
LEMMA CollectLostStep == ASSUME IInv, NEW v \in Validators, CollectLost(v) PROVE IInv'
<1>1. "lost" \in Outcomes /\ "lost" \notin HeadHashes
  BY LoopAssumption DEF Outcomes
<1> QED
  BY <1>1, Collected DEF CollectLost

(* Every step keeps the invariant. *)
LEMMA NextIInv == IInv /\ [LoopNext]_loopVars => IInv'
<1> SUFFICES ASSUME IInv, [LoopNext]_loopVars PROVE IInv'
  OBVIOUS
<1>1. CASE NextBlock \/ Commit
  BY <1>1, NextBlockStep, CommitStep
<1>2. CASE AlreadyCommitted \/ CommitFails
  BY <1>2, CommittedStep
<1>3. CASE StartRun \/ FinishRun \/ FailRun
  BY <1>3, StartRunStep, FinishRunStep, FailRunStep
<1>4. CASE \E h \in HeadHashes : RestartMiner(h)
  BY <1>4, RestartStep
<1>5. CASE \E v \in Validators : StartEpoch(v) \/ DropEpoch(v) \/ Collect(v) \/ CollectLost(v)
  BY <1>5, EpochStep, CollectStep, CollectLostStep
<1>6. CASE UNCHANGED loopVars
  <2> USE <1>6 DEF loopVars, IInv
  <2>1. LoopTypeOK' /\ StartsInOrder' /\ ServesItsOwn'
    BY DEF LoopTypeOK, StartsInOrder, ServesItsOwn, Boundary
  <2> QED
    BY <2>1, ChainStays
<1> QED
  BY <1>1, <1>2, <1>3, <1>4, <1>5, <1>6 DEF LoopNext

(* The invariant holds of every behaviour. *)
LEMMA Inductive == LoopSpec => []IInv
<1>1. LoopSpec => LoopInit /\ [][LoopNext]_loopVars
  BY DEF LoopSpec
<1> QED
  BY <1>1, InitIInv, NextIInv, PTL

-----------------------------------------------------------------------------
(* The miner, its axon and the validators stay well formed. *)
THEOREM TypeCorrect == LoopSpec => []LoopTypeOK
  BY Inductive, PTL DEF IInv

(* The head of an accepted proof was on chain by the boundary block, which
   chose the questions. *)
THEOREM AlwaysCommittedBeforeNonce == LoopSpec => []CommittedBeforeNonce
<1>1. IInv => CommittedBeforeNonce
  <2> SUFFICES ASSUME IInv, NEW v \in Validators, NEW e \in LoopEpochs, collected[v][e] \in HeadHashes
               PROVE  \E b \in Blocks : b <= Boundary(e) /\ commits[b] = collected[v][e]
    BY DEF CommittedBeforeNonce
  <2>1. collected[v][e] = Latest(Boundary(e)) /\ collected[v][e] # None
    BY LoopAssumption DEF IInv, AcceptedIsPinned, Pinned
  <2>2. MadeBy(Boundary(e)) # {}
    BY <2>1, NothingMade
  <2> QED
    BY <2>1, <2>2, LatestIsMade DEF MadeBy
<1> QED
  BY <1>1, Inductive, PTL

(* Validators that accept a proof of an epoch accept the same head, however
   late they ask and whatever the miner restarts with. *)
THEOREM AlwaysOneHeadPerEpoch == LoopSpec => []OneHeadPerEpoch
<1>1. IInv => OneHeadPerEpoch
  BY DEF IInv, AcceptedIsPinned, OneHeadPerEpoch
<1> QED
  BY <1>1, Inductive, PTL

(* A miner that had its proof by the collect block is collected by whoever
   asks in that epoch and is heard, if it had committed its head. *)
THEOREM PunctualIsAlwaysCollected == LoopSpec => PunctualIsCollected
<1> DEFINE Served(v, e) ==
      collected[v][e] = None /\ collected'[v][e] = "nothing" /\ block < Boundary(e + 1)
        => Latest(Boundary(e)) # miner.head
<1>1. ASSUME IInv, LoopNext, NEW v \in Validators, NEW e \in punctual
      PROVE  Served(v, e)
  <2> SUFFICES ASSUME collected[v][e] = None, collected'[v][e] = "nothing", block < Boundary(e + 1),
                      Latest(Boundary(e)) = miner.head
               PROVE  FALSE
    OBVIOUS
  <2>1. collected' # collected
    BY LoopAssumption
  <2>2. PICK w \in Validators : Collect(w) \/ CollectLost(w)
    BY <1>1, <2>1 DEF LoopNext, NextBlock, AlreadyCommitted, Commit, CommitFails, loopVars, StartRun,
       FinishRun, FailRun, RestartMiner, StartEpoch, DropEpoch
  <2>3. e \in LoopEpochs /\ e \in Nat /\ block \in Nat
    BY <1>1, EpochsAreNats DEF IInv, LoopTypeOK
  <2>4. Collect(v) /\ started[v] = e /\ ~Accepts(e)
    BY <1>1, <2>1, <2>2, <2>3, LoopAssumption DEF IInv, LoopTypeOK, Collect, CollectLost, Accepts
  <2>5. /\ proof # None /\ proof.head = miner.head /\ proof.nonce = proof.epoch /\ e <= proof.epoch
        /\ proof.epoch \in Nat /\ Boundary(proof.epoch) <= block
    BY <1>1, EpochsAreNats DEF IInv, ServesItsOwn, LoopTypeOK
  <2>6. proof.epoch = e
    <3>1. CASE e + 1 <= proof.epoch
      <4>1. (e + 1) * EpochLen <= proof.epoch * EpochLen
        BY <2>3, <2>5, <3>1, LoopAssumption
      <4>2. (e + 1) * EpochLen \in Nat /\ proof.epoch * EpochLen \in Nat
        BY <2>3, <2>5, LoopAssumption
      <4> QED
        BY <2>3, <2>5, <4>1, <4>2 DEF Boundary
    <3> QED
      BY <2>3, <2>5, <3>1
  <2> QED
    BY <2>4, <2>5, <2>6 DEF Accepts, Pinned
<1>2. IInv /\ [LoopNext]_loopVars => [\A v \in Validators, e \in punctual : Served(v, e)]_loopVars
  BY <1>1
<1>3. LoopSpec => [][LoopNext]_loopVars
  BY DEF LoopSpec
<1> QED
  BY <1>2, <1>3, Inductive, PTL DEF PunctualIsCollected

(* Every accepted proof is of a head committed before the nonce, the same for
   all validators, for any number of them, of heads and of restarts. *)
THEOREM LoopAlwaysSafe == LoopSpec => []LoopSafety
BY TypeCorrect, AlwaysCommittedBeforeNonce, AlwaysOneHeadPerEpoch, PTL DEF LoopSafety

(***************************************************************************)
(* Harness                                                                 *)
(***************************************************************************)

(* No cost above another's, no sum above. *)
LEMMA CostsInOrder ==
  ASSUME NEW f \in [Calls -> Nat], NEW g \in [Calls -> Nat], \A c \in Calls : f[c] <= g[c]
  PROVE  Sum2(f) <= Sum2(g) /\ Sum2(f) \in Nat /\ Sum2(g) \in Nat
<1>1. NumCalls \in Nat /\ f \in [1..NumCalls -> Nat] /\ g \in [1..NumCalls -> Nat]
  BY HarnessAssumption DEF Calls
<1>2. f \in [1..NumCalls -> Int] /\ g \in [1..NumCalls -> Int]
  BY <1>1
<1>3. \A n \in 1..NumCalls : f[n] <= g[n]
  BY DEF Calls
<1> QED BY <1>1, <1>2, <1>3, SumsInOrder, SumIsNat DEF Sum2

(***************************************************************************)
(* The invariant                                                           *)
(***************************************************************************)

(* The proxy records an answer once, at its cost, and the harness has text
   only of calls that were recorded. *)
RecordedAsAnswered ==
  \A c \in Calls :
    /\ records[c] = IF proxy[c].at = "recorded" THEN Cost[c] ELSE 0
    /\ call[c] = "text" => proxy[c].at = "recorded"
    /\ call[c] = "queued" => proxy[c].at = "idle"
    /\ phase = "idle" => call[c] = "queued"

(* A bill is what was recorded when it was made, and a record is never
   changed once it is there. *)
BilledAsRecorded ==
  /\ phase \in {"billing", "totalled", "done"} => \A c \in Calls : call[c] \in Answers
  /\ phase \in {"totalled", "done"} => \A c \in Calls : bills[c] # -1
  /\ phase \in {"idle", "calling"} => \A c \in Calls : bills[c] = -1
  /\ \A c \in Calls : bills[c] # -1 =>
       bills[c] \in {0, records[c]} /\ (call[c] = "text" => bills[c] = records[c])

(* Each total was read after what it is compared with, and before now. *)
TotalsInOrder ==
  /\ phase \in {"totalled", "done"} => Sum2(bills) <= total /\ total <= Sum2(records)
  /\ phase = "done" => total <= perModel /\ perModel <= Sum2(records)

(* The invariant. *)
HarnessInv == HarnessTypeOK /\ RecordedAsAnswered /\ BilledAsRecorded /\ TotalsInOrder

(* Nothing was called. *)
LEMMA HarnessInitially == HarnessInit => HarnessInv
<1> SUFFICES ASSUME HarnessInit PROVE HarnessInv
  OBVIOUS
<1>1. HarnessTypeOK
  BY HarnessAssumption DEF HarnessInit, HarnessTypeOK
<1>2. RecordedAsAnswered /\ BilledAsRecorded /\ TotalsInOrder
  BY DEF HarnessInit, RecordedAsAnswered, BilledAsRecorded, TotalsInOrder
<1> QED BY <1>1, <1>2 DEF HarnessInv

(* What a bill is compared with. *)
LEMMA BillsBelow ==
  ASSUME HarnessInv, phase \in {"billing", "totalled", "done"},
         \A c \in Calls : bills[c] # -1
  PROVE  Sum2(bills) <= Sum2(records) /\ Sum2(records) \in Nat /\ Sum2(bills) \in Nat
<1>1. bills \in [Calls -> Nat] /\ records \in [Calls -> Nat]
  BY DEF HarnessInv, HarnessTypeOK
<1>2. \A c \in Calls : bills[c] <= records[c]
  BY <1>1 DEF HarnessInv, BilledAsRecorded
<1> QED BY <1>1, <1>2, CostsInOrder

(* A try ends after it begins. *)
LEMMA EndsAreTimes ==
  ASSUME NEW start \in Nat
  PROVE  Ends(start) \subseteq Nat
<1>1. Timeout(start) \in Nat /\ MaxOps \in Nat
  BY HarnessAssumption DEF Timeout, Most
<1>2. \A a, b \in Nat : a * b \in Nat
  OBVIOUS
<1>3. MaxOps * Timeout(start) \in Nat
  BY <1>1, <1>2
<1> QED BY <1>3 DEF Ends

(* A step that touches neither records nor bills nor totals. *)
LEMMA TotalsAlone ==
  ASSUME HarnessInv, UNCHANGED <<phase, records, bills, total, perModel>>
  PROVE  TotalsInOrder'
BY DEF HarnessInv, TotalsInOrder

(* The proxy is cleared before the first call. *)
LEMMA BeginKeeps == HarnessInv /\ Begin => HarnessInv'
<1> SUFFICES ASSUME HarnessInv, Begin PROVE HarnessInv'
  OBVIOUS
<1>1. HarnessTypeOK'
  BY DEF HarnessInv, HarnessTypeOK, Begin
<1>2. RecordedAsAnswered'
  BY DEF HarnessInv, HarnessTypeOK, RecordedAsAnswered, Begin
<1>3. BilledAsRecorded' /\ TotalsInOrder'
  BY DEF HarnessInv, HarnessTypeOK, BilledAsRecorded, TotalsInOrder, Begin
<1> QED BY <1>1, <1>2, <1>3 DEF HarnessInv

(* A call is opened or tried again: nothing is recorded yet. *)
LEMMA AskKeeps ==
  ASSUME HarnessInv, NEW c \in Calls, Open(c) \/ Retry(c)
  PROVE  HarnessInv'
<1>0. /\ call \in [Calls -> {"queued", "open"} \cup Answers]
      /\ proxy \in [Calls -> [at : {"idle", "asking", "recorded", "refused"}, tries : Nat, ends : Nat]]
      /\ (\A d \in Calls : proxy[d].tries <= MaxTries) /\ records \in [Calls -> Nat]
      /\ MaxTries \in Nat \ {0} /\ MaxWait \in Nat
  BY HarnessAssumption DEF HarnessInv, HarnessTypeOK
<1>1. UNCHANGED <<phase, records, bills, total, perModel>>
  BY DEF Open, Retry
<1>2. /\ proxy' \in [Calls -> [at : {"idle", "asking", "recorded", "refused"}, tries : Nat, ends : Nat]]
      /\ \A d \in Calls : proxy'[d].tries <= MaxTries
      /\ \A d \in Calls : proxy'[d].at = proxy[d].at \/ (phase = "calling" /\ d = c /\ proxy'[d].at = "asking")
      /\ proxy'[c].at = "asking"
  <2>1. CASE Open(c)
    <3>1. PICK end \in Ends(0) :
            proxy' = [proxy EXCEPT ![c] = [at |-> "asking", tries |-> 1, ends |-> end]]
      BY <2>1 DEF Open
    <3>2. end \in Nat /\ phase = "calling"
      BY <2>1, EndsAreTimes DEF Open
    <3> QED BY <1>0, <3>1, <3>2
  <2>2. CASE Retry(c)
    <3>a. PICK wait \in {0, MaxWait} : \E end \in Ends(proxy[c].ends + wait) :
            proxy' = [proxy EXCEPT ![c] = [at |-> "asking", tries |-> @.tries + 1, ends |-> end]]
      BY <2>2 DEF Retry
    <3>1. PICK end \in Ends(proxy[c].ends + wait) :
            proxy' = [proxy EXCEPT ![c] = [at |-> "asking", tries |-> @.tries + 1, ends |-> end]]
      BY <3>a
    <3>b. wait \in Nat /\ proxy[c].ends \in Nat
      BY <1>0
    <3>2. proxy[c].ends + wait \in Nat /\ proxy[c].at = "asking" /\ proxy[c].tries < MaxTries
      BY <3>b, <2>2 DEF Retry
    <3>3. end \in Nat
      BY <3>2, EndsAreTimes
    <3> DEFINE new == [at |-> "asking", tries |-> proxy[c].tries + 1, ends |-> end]
    <3>4. proxy' = [proxy EXCEPT ![c] = new]
      BY <1>0, <3>1, <3>2
    <3>5. new \in [at : {"idle", "asking", "recorded", "refused"}, tries : Nat, ends : Nat]
          /\ new.tries <= MaxTries /\ new.at = "asking"
      BY <1>0, <3>2, <3>3
    <3> HIDE DEF new
    <3> QED BY <1>0, <3>2, <3>4, <3>5
  <2> QED BY <2>1, <2>2
<1>3. /\ call' \in [Calls -> {"queued", "open"} \cup Answers]
      /\ \A d \in Calls : call'[d] = call[d] \/ (phase = "calling" /\ d = c /\ call'[d] = "open")
  BY <1>0 DEF Open, Retry
<1>4. HarnessTypeOK'
  BY <1>1, <1>2, <1>3 DEF HarnessInv, HarnessTypeOK
<1>5. /\ proxy[c].at \in {"idle", "asking"} /\ call[c] # "text" /\ call'[c] # "queued"
      /\ phase # "idle"
  <2>1. CASE Open(c)
    BY <1>0, <2>1 DEF Open, HarnessInv, RecordedAsAnswered
  <2>2. CASE Retry(c)
    BY <1>0, <2>2 DEF Retry, HarnessInv, RecordedAsAnswered
  <2> QED BY <2>1, <2>2
<1>6. RecordedAsAnswered'
  <2> SUFFICES ASSUME NEW d \in Calls
               PROVE  /\ records'[d] = IF proxy'[d].at = "recorded" THEN Cost[d] ELSE 0
                      /\ call'[d] = "text" => proxy'[d].at = "recorded"
                      /\ call'[d] = "queued" => proxy'[d].at = "idle"
                      /\ phase' = "idle" => call'[d] = "queued"
    BY DEF RecordedAsAnswered
  <2>1. CASE d = c
    BY <1>1, <1>2, <1>3, <1>5, <2>1 DEF HarnessInv, RecordedAsAnswered
  <2>2. CASE d # c
    BY <1>1, <1>2, <1>3, <2>2 DEF HarnessInv, RecordedAsAnswered
  <2> QED BY <2>1, <2>2
<1>7. BilledAsRecorded'
  <2>1. \A d \in Calls : call'[d] = "text" => call[d] = "text"
    BY <1>3
  <2>2. phase \in {"billing", "totalled", "done"} => \A d \in Calls : call'[d] = call[d]
    BY <1>3
  <2> QED BY <1>1, <2>1, <2>2 DEF HarnessInv, BilledAsRecorded
<1> QED BY <1>1, <1>4, <1>6, <1>7, TotalsAlone DEF HarnessInv

(* The upstream's answer comes, in time or too late, and is charged. *)
LEMMA RecordKeeps ==
  ASSUME HarnessInv, NEW c \in Calls, Record(c) \/ Refuse(c)
  PROVE  HarnessInv'
<1>0. /\ proxy \in [Calls -> [at : {"idle", "asking", "recorded", "refused"}, tries : Nat, ends : Nat]]
      /\ records \in [Calls -> Nat] /\ bills \in [Calls -> Nat \cup {-1}] /\ Cost[c] \in Nat
  BY HarnessAssumption DEF HarnessInv, HarnessTypeOK
<1>1. UNCHANGED <<phase, call, bills, total, perModel>> /\ proxy[c].at = "asking"
  BY DEF Record, Refuse
<1>2. PICK s \in {"recorded", "refused"} :
        /\ proxy' = [proxy EXCEPT ![c].at = s]
        /\ records' = IF s = "recorded" THEN [records EXCEPT ![c] = Cost[c]] ELSE records
  BY DEF Record, Refuse
<1>3. records[c] = 0 /\ call[c] \notin {"text", "queued"} /\ phase # "idle"
  BY <1>1 DEF HarnessInv, RecordedAsAnswered
<1>4. /\ \A d \in Calls : proxy'[d].at = IF d = c THEN s ELSE proxy[d].at
      /\ \A d \in Calls : records'[d] = IF d = c /\ s = "recorded" THEN Cost[c] ELSE records[d]
  BY <1>0, <1>2
<1>5. records' \in [Calls -> Nat] /\ (\A d \in Calls : records[d] <= records'[d])
  BY <1>0, <1>2, <1>3
<1>6. HarnessTypeOK'
  <2>1. proxy' \in [Calls -> [at : {"idle", "asking", "recorded", "refused"}, tries : Nat, ends : Nat]]
        /\ \A d \in Calls : proxy'[d].tries = proxy[d].tries
    BY <1>0, <1>2
  <2> QED BY <1>1, <1>5, <2>1 DEF HarnessInv, HarnessTypeOK
<1>7. RecordedAsAnswered'
  BY <1>1, <1>3, <1>4 DEF HarnessInv, RecordedAsAnswered
<1>8. BilledAsRecorded'
  <2> SUFFICES ASSUME NEW d \in Calls, bills[d] # -1
               PROVE  bills[d] \in {0, records'[d]} /\ (call[d] = "text" => bills[d] = records'[d])
    BY <1>1 DEF HarnessInv, BilledAsRecorded
  <2>1. bills[d] \in {0, records[d]} /\ (call[d] = "text" => bills[d] = records[d])
    BY DEF HarnessInv, BilledAsRecorded
  <2> QED BY <1>3, <1>4, <2>1
<1>9. TotalsInOrder'
  <2>2. /\ Sum2(records) <= Sum2(records') /\ Sum2(records) \in Int /\ Sum2(records') \in Int
    BY <1>0, <1>5, CostsInOrder
  <2>3. total \in Nat /\ perModel \in Nat
    BY DEF HarnessInv, HarnessTypeOK
  <2>4. total <= Sum2(records) => total <= Sum2(records')
    BY <2>2, <2>3
  <2>5. perModel <= Sum2(records) => perModel <= Sum2(records')
    BY <2>2, <2>3
  <2> QED BY <1>1, <2>4, <2>5 DEF HarnessInv, TotalsInOrder
<1> QED BY <1>6, <1>7, <1>8, <1>9 DEF HarnessInv

(* The harness takes an answer, or does without. *)
LEMMA AnswerKeeps ==
  ASSUME HarnessInv, NEW c \in Calls, Receive(c) \/ Fail(c) \/ GiveUp(c)
  PROVE  HarnessInv'
<1>1. PICK a \in Answers :
        Answered(c, a) /\ (a = "text" => proxy[c].at = "recorded")
  BY DEF Receive, Fail, GiveUp, Answers
<1>2. UNCHANGED <<phase, proxy, records, bills, total, perModel>> /\ call[c] = "open"
  BY <1>1 DEF Answered
<1>3. call' = [call EXCEPT ![c] = a] /\ call \in [Calls -> {"queued", "open"} \cup Answers]
  BY <1>1 DEF Answered, HarnessInv, HarnessTypeOK
<1>4. HarnessTypeOK'
  BY <1>2, <1>3 DEF HarnessInv, HarnessTypeOK
<1>5. RecordedAsAnswered'
  BY <1>1, <1>2, <1>3 DEF HarnessInv, RecordedAsAnswered, Answers
<1>6. phase \notin {"billing", "totalled", "done"} /\ phase \in {"idle", "calling"}
  BY <1>2 DEF HarnessInv, BilledAsRecorded, Answers, HarnessTypeOK
<1>7. BilledAsRecorded'
  BY <1>2, <1>6 DEF HarnessInv, BilledAsRecorded
<1> QED BY <1>2, <1>4, <1>5, <1>7, TotalsAlone DEF HarnessInv

(* Every call is answered, and each is billed what was recorded for it. *)
LEMMA BillKeeps ==
  ASSUME HarnessInv, NEW c \in Calls, Bill(c)
  PROVE  HarnessInv'
<1>1. UNCHANGED <<phase, call, proxy, records, total, perModel>> /\ phase = "billing"
  BY DEF Bill
<1>2. /\ bills' = [bills EXCEPT ![c] = records[c]] /\ records \in [Calls -> Nat]
      /\ bills \in [Calls -> Nat \cup {-1}]
  BY DEF Bill, BillOf, HarnessInv, HarnessTypeOK
<1>3. HarnessTypeOK'
  BY <1>1, <1>2 DEF HarnessInv, HarnessTypeOK
<1>4. RecordedAsAnswered'
  BY <1>1 DEF HarnessInv, RecordedAsAnswered
<1>5. BilledAsRecorded'
  BY <1>1, <1>2 DEF HarnessInv, BilledAsRecorded
<1>6. TotalsInOrder'
  BY <1>1 DEF TotalsInOrder
<1> QED BY <1>3, <1>4, <1>5, <1>6 DEF HarnessInv

(* The calls end, and the totals are read: nothing recorded changes. *)
LEMMA PhasesKeep == HarnessInv /\ (Gathered \/ Total \/ PerModel) => HarnessInv'
<1> SUFFICES ASSUME HarnessInv, Gathered \/ Total \/ PerModel PROVE HarnessInv'
  OBVIOUS
<1>0. UNCHANGED <<call, proxy, records, bills>>
  BY DEF Gathered, Total, PerModel
<1>1. CASE Gathered
  <2>1. phase = "calling" /\ phase' = "billing" /\ Finished = Calls /\ UNCHANGED <<total, perModel>>
    BY <1>1 DEF Gathered
  <2>2. \A c \in Calls : call[c] \in Answers
    BY <2>1 DEF Finished
  <2> QED BY <1>0, <2>1, <2>2 DEF HarnessInv, HarnessTypeOK, RecordedAsAnswered,
            BilledAsRecorded, TotalsInOrder
<1>2. CASE Total
  <2>1. /\ phase = "billing" /\ phase' = "totalled" /\ total' = Sum2(records)
        /\ (\A c \in Calls : bills[c] # -1) /\ perModel' = perModel
    BY <1>2 DEF Total
  <2>2. Sum2(bills) <= Sum2(records) /\ Sum2(records) \in Nat
    BY <2>1, BillsBelow
  <2>3. HarnessTypeOK' /\ RecordedAsAnswered'
    BY <1>0, <2>1, <2>2 DEF HarnessInv, HarnessTypeOK, RecordedAsAnswered
  <2>4. BilledAsRecorded'
    BY <1>0, <2>1 DEF HarnessInv, BilledAsRecorded
  <2>5. TotalsInOrder'
    BY <1>0, <2>1, <2>2 DEF TotalsInOrder
  <2> QED BY <2>3, <2>4, <2>5 DEF HarnessInv
<1>3. CASE PerModel
  <2>1. phase = "totalled" /\ phase' = "done" /\ perModel' = Sum2(records) /\ total' = total
    BY <1>3 DEF PerModel
  <2>2. Sum2(records) \in Nat /\ Sum2(bills) <= total /\ total <= Sum2(records)
    BY <2>1, BillsBelow DEF HarnessInv, BilledAsRecorded, TotalsInOrder
  <2>3. HarnessTypeOK' /\ RecordedAsAnswered'
    BY <1>0, <2>1, <2>2 DEF HarnessInv, HarnessTypeOK, RecordedAsAnswered
  <2>4. BilledAsRecorded'
    BY <1>0, <2>1 DEF HarnessInv, BilledAsRecorded
  <2>5. TotalsInOrder'
    BY <1>0, <2>1, <2>2 DEF TotalsInOrder
  <2> QED BY <2>3, <2>4, <2>5 DEF HarnessInv
<1> QED BY <1>1, <1>2, <1>3

(* Every step keeps the invariant. *)
LEMMA HarnessStep == HarnessInv /\ [HarnessNext]_harnessVars => HarnessInv'
<1> SUFFICES ASSUME HarnessInv, [HarnessNext]_harnessVars PROVE HarnessInv'
  OBVIOUS
<1>1. CASE Begin
  BY <1>1, BeginKeeps
<1>2. CASE Gathered \/ Total \/ PerModel
  BY <1>2, PhasesKeep
<1>3. CASE \E c \in Calls : Open(c) \/ Retry(c)
  BY <1>3, AskKeeps
<1>4. CASE \E c \in Calls : Receive(c) \/ Fail(c) \/ GiveUp(c)
  BY <1>4, AnswerKeeps
<1>5. CASE \E c \in Calls : Bill(c)
  BY <1>5, BillKeeps
<1>6. CASE \E c \in Calls : Record(c) \/ Refuse(c)
  BY <1>6, RecordKeeps
<1>7. CASE UNCHANGED harnessVars
  BY <1>7 DEF HarnessInv, harnessVars, HarnessTypeOK, RecordedAsAnswered, BilledAsRecorded,
     TotalsInOrder
<1> QED BY <1>1, <1>2, <1>3, <1>4, <1>5, <1>6, <1>7 DEF HarnessNext, InTime, TooLate

(* When no call was charged that had failed, every bill is the record, so all
   the sums are one. *)
LEMMA NothingLateNothingApart ==
  ASSUME HarnessInv, phase = "done", FailedAndCharged = {}
  PROVE  CostsConsistent
<1>1. bills \in [Calls -> Nat] /\ records \in [Calls -> Nat]
  BY DEF HarnessInv, HarnessTypeOK, BilledAsRecorded
<1>2. \A c \in Calls : bills[c] = records[c]
  <2> SUFFICES ASSUME NEW c \in Calls PROVE bills[c] = records[c]
    OBVIOUS
  <2>1. bills[c] # -1 /\ call[c] \in Answers /\ bills[c] \in {0, records[c]}
        /\ (call[c] = "text" => bills[c] = records[c])
    BY DEF HarnessInv, BilledAsRecorded
  <2>2. call[c] = "none" => records[c] = 0
    BY DEF FailedAndCharged
  <2> QED BY <2>1, <2>2 DEF Answers
<1>3. bills = records
  BY <1>1, <1>2
<1>4. Sum2(bills) \in Nat /\ total \in Nat /\ perModel \in Nat
  BY <1>1, CostsInOrder DEF HarnessInv, HarnessTypeOK
<1>5. Sum2(bills) = total /\ perModel = total
  BY <1>3, <1>4 DEF HarnessInv, TotalsInOrder
<1>6. ASSUME NEW a \in Nat PROVE Agree(a, a)
  <2>1. Most(a - a, a - a) = 0 /\ Most(a, a) = a
    BY DEF Most
  <2>2. TolDen \in Nat /\ TolNum \in Nat
    BY HarnessAssumption
  <2>3. \A x, y \in Nat : x * y \in Nat
    OBVIOUS
  <2>4. TolDen * 0 = 0 /\ TolNum * a \in Nat
    BY <2>2, <2>3
  <2> QED BY <2>1, <2>4 DEF Agree
<1> QED BY <1>4, <1>5, <1>6 DEF CostsConsistent

(* However many calls are in flight, retried, refused or late: nobody is billed
   for another's tokens, the totals of a proof cover its bills, and they differ
   only in a run in which a call was charged that had failed. *)
THEOREM HarnessAlwaysSafe == HarnessSpec => []HarnessSafety
<1>1. HarnessInv => HarnessSafety
  <2> SUFFICES ASSUME HarnessInv PROVE HarnessSafety
    OBVIOUS
  <2>1. BillsAreOwn
    <3> SUFFICES ASSUME NEW c \in Calls, bills[c] # -1
                 PROVE  /\ bills[c] \in {0, Cost[c]}
                        /\ call[c] = "text" => bills[c] = Cost[c]
      BY DEF BillsAreOwn
    <3>1. bills[c] \in {0, records[c]} /\ (call[c] = "text" => bills[c] = records[c])
      BY DEF HarnessInv, BilledAsRecorded
    <3>2. records[c] \in {0, Cost[c]} /\ (call[c] = "text" => records[c] = Cost[c])
      BY DEF HarnessInv, RecordedAsAnswered
    <3> QED BY <3>1, <3>2
  <2>2. TotalsCoverBills
    BY DEF HarnessInv, TotalsInOrder, TotalsCoverBills
  <2>3. InconsistentOnlyIfLate
    BY NothingLateNothingApart DEF InconsistentOnlyIfLate
  <2> QED BY <2>1, <2>2, <2>3 DEF HarnessInv, HarnessSafety
<1> QED BY <1>1, HarnessInitially, HarnessStep, PTL DEF HarnessSpec

(***************************************************************************)
(* Provision                                                               *)
(***************************************************************************)

(***************************************************************************)
(* Sequences                                                               *)
(***************************************************************************)

(* What Append does. *)
LEMMA Appended ==
  ASSUME NEW S, NEW s \in Seq(S), NEW e \in S
  PROVE  /\ Append(s, e) \in Seq(S) /\ Len(Append(s, e)) = Len(s) + 1
         /\ DOMAIN s = 1..Len(s) /\ DOMAIN Append(s, e) = 1..Len(s) + 1
         /\ Len(s) \in Nat
         /\ \A i \in 1..Len(s) : Append(s, e)[i] = s[i]
         /\ Append(s, e)[Len(s) + 1] = e
         /\ \A x : Contains(Append(s, e), x) <=> Contains(s, x) \/ x = e
<1>1. /\ Append(s, e) \in Seq(S) /\ Len(Append(s, e)) = Len(s) + 1
      /\ DOMAIN s = 1..Len(s) /\ DOMAIN Append(s, e) = 1..Len(s) + 1
      /\ Len(s) \in Nat
      /\ \A i \in 1..Len(s) : Append(s, e)[i] = s[i]
      /\ Append(s, e)[Len(s) + 1] = e
  OBVIOUS
<1>2. ASSUME NEW x PROVE Contains(Append(s, e), x) <=> Contains(s, x) \/ x = e
  <2>1. \A i \in 1..Len(s) + 1 : i \in 1..Len(s) \/ i = Len(s) + 1
    BY <1>1
  <2>2. 1..Len(s) \subseteq 1..Len(s) + 1 /\ Len(s) + 1 \in 1..Len(s) + 1
    BY <1>1
  <2> QED BY <1>1, <2>1, <2>2 DEF Contains
<1> QED BY <1>1, <1>2

(* What RemoveAt does. *)
LEMMA Removed ==
  ASSUME NEW S, NEW s \in Seq(S), NEW i \in DOMAIN s
  PROVE  /\ RemoveAt(s, i) \in Seq(S) /\ Len(RemoveAt(s, i)) = Len(s) - 1
         /\ \A k \in 1..Len(s) - 1 : RemoveAt(s, i)[k] = IF k < i THEN s[k] ELSE s[k + 1]
<1>1. i \in 1..Len(s) /\ Len(s) \in Nat
  OBVIOUS
<1> DEFINE a == SubSeq(s, 1, i - 1)
           b == SubSeq(s, i + 1, Len(s))
<1>2. a \in Seq(S) /\ Len(a) = i - 1 /\ \A k \in 1..i - 1 : a[k] = s[k]
  BY <1>1
<1>3. b \in Seq(S) /\ Len(b) = Len(s) - i /\ \A k \in 1..Len(s) - i : b[k] = s[i + k]
  BY <1>1
<1> HIDE DEF a, b
<1>4. /\ a \o b \in Seq(S) /\ Len(a \o b) = Len(s) - 1
      /\ \A k \in 1..Len(s) - 1 : (a \o b)[k] = IF k < i THEN a[k] ELSE b[k - (i - 1)]
  <2>1. /\ a \o b \in Seq(S) /\ Len(a \o b) = Len(a) + Len(b)
        /\ \A k \in 1..Len(a) + Len(b) : (a \o b)[k] = IF k <= Len(a) THEN a[k] ELSE b[k - Len(a)]
    BY <1>2, <1>3, ConcatProperties
  <2>2. Len(a) + Len(b) = Len(s) - 1
    BY <1>1, <1>2, <1>3
  <2>3. \A k \in 1..Len(s) - 1 : k <= Len(a) <=> k < i
    BY <1>1, <1>2
  <2> QED BY <1>2, <2>1, <2>2, <2>3
<1>5. ASSUME NEW k \in 1..Len(s) - 1 PROVE (a \o b)[k] = IF k < i THEN s[k] ELSE s[k + 1]
  <2>1. CASE k < i
    <3>1. k \in 1..i - 1
      BY <1>1, <2>1
    <3> QED BY <1>2, <1>4, <2>1, <3>1
  <2>2. CASE ~ (k < i)
    <3>1. k - (i - 1) \in 1..Len(s) - i /\ i + (k - (i - 1)) = k + 1
      BY <1>1, <2>2
    <3> QED BY <1>3, <1>4, <2>2, <3>1
  <2> QED BY <2>1, <2>2
<1> QED BY <1>4, <1>5 DEF RemoveAt, a, b

(***************************************************************************)
(* The invariant                                                           *)
(***************************************************************************)

(* A nonce is drawn once, by its operator. *)
NoncesDrawn ==
  /\ \A r \in requests \cup replies \cup handlers : r.nonce <= Len(owner)
  /\ \A i \in DOMAIN attested : attested[i] <= Len(owner)
  /\ \A o \in Operators :
       /\ op[o].at # "idle" => op[o].nonce \in 1..Len(owner) /\ owner[op[o].nonce] = o
       /\ session[o] # Nobody => session[o] \in 1..Len(owner) /\ owner[session[o]] = o

(* A nonce is attested once: its request is delivered once. *)
AttestedOnce ==
  /\ \A r \in requests : r.path = "attest" =>
       /\ ~Contains(attested, r.nonce)
       /\ \A h \in handlers : h.path = "attest" => h.nonce # r.nonce
  /\ \A h \in handlers : h.path = "attest" => h.key = 0 /\ ~Contains(attested, h.nonce)
  /\ \A i, j \in DOMAIN attested : attested[i] = attested[j] => i = j

(* The nonces not spent yet are in the order they were attested in. *)
PendingInOrder ==
  /\ \A k \in DOMAIN pending : Contains(attested, pending[k]) /\ ~Contains(spent, pending[k])
  /\ \A k, l \in DOMAIN pending : \A i, j \in DOMAIN attested :
       k < l /\ attested[i] = pending[k] /\ attested[j] = pending[l] => i < j

(* A nonce is spent at most once, and accepted at most once after that. *)
SpentOnce ==
  /\ \A i \in DOMAIN spent : Contains(attested, spent[i])
  /\ \A h \in handlers : h.path = "accept" =>
       h.key = boot /\ Contains(spent, h.nonce) /\ ~Contains(accepted, h.nonce)
  /\ \A i \in DOMAIN accepted : Contains(spent, accepted[i])
  /\ \A i, j \in DOMAIN accepted : accepted[i] = accepted[j] => i = j

(* An attempt pushes once, to one boot's key, and is told of an acceptance. *)
PushedOnce ==
  /\ \A r \in requests \cup replies : r.key <= boot
  /\ \A r, q \in requests : r.path = "push" /\ q.path = "push" /\ r.nonce = q.nonce => r.key = q.key
  /\ \A r \in replies : r.path = "push" =>
       r \in requests /\ (r.key = boot => Contains(accepted, r.nonce))
  /\ \A h \in handlers : h.path \in {"push", "accept"} => Seal(h.nonce, h.key) \in requests
  /\ \A i \in DOMAIN accepted : Seal(accepted[i], boot) \in requests
  /\ \A o \in Operators :
       /\ op[o].at = "asked" => \A r \in requests : r.path = "push" => r.nonce # op[o].nonce
       /\ op[o].at \in {"pushed", "told"} => Seal(op[o].nonce, op[o].key) \in requests
       /\ op[o].at = "told" => Seal(op[o].nonce, op[o].key) \in replies
       /\ session[o] # Nobody => \E k \in Boots : Seal(session[o], k) \in replies

(* Once a push with anything in it is accepted, nothing else is. *)
StoreKept ==
  /\ \A i \in DOMAIN accepted : Pushed(accepted[i]) # "empty" =>
       store = [values |-> accepted[i], session |-> accepted[i]]
  /\ Ready => Contains(accepted, store.values)
  /\ serving # Nobody => serving = store.values

(* The invariant. *)
ProvisionInv ==
  /\ ProvisionTypeOK /\ NoncesDrawn /\ AttestedOnce /\ PendingInOrder /\ SpentOnce
  /\ PushedOnce /\ StoreKept /\ EvictedInOrder



(* Nothing was drawn. *)
LEMMA ProvisionInitially == ProvisionInit => ProvisionInv
<1> SUFFICES ASSUME ProvisionInit PROVE ProvisionInv
  OBVIOUS
<1>1. /\ owner = <<>> /\ boot = 1 /\ requests = {} /\ replies = {} /\ handlers = {}
      /\ pending = <<>> /\ attested = <<>> /\ spent = <<>> /\ accepted = <<>>
      /\ store = FreshStore /\ serving = Nobody
      /\ \A o \in Operators : op[o].at = "idle" /\ session[o] = Nobody
  BY DEF ProvisionInit
<1>2. DOMAIN pending = {} /\ DOMAIN attested = {} /\ DOMAIN spent = {} /\ DOMAIN accepted = {}
  BY <1>1
<1>3. ProvisionTypeOK
  <2>1. 1 \in Boots /\ MaxNonces \in Nat /\ MaxPending \in Nat
    BY ProvisionAssumption DEF Boots
  <2>2. /\ op \in [Operators -> [at : {"idle", "asked", "pushed", "told"}, nonce : Nonces \cup {0}, key : Boots \cup {0}]]
        /\ session \in [Operators -> Nonces \cup {Nobody}]
    BY DEF ProvisionInit
  <2>3. <<>> \in Seq(Operators) /\ <<>> \in Seq(Nonces) /\ Len(<<>>) = 0
    OBVIOUS
  <2> QED BY <1>1, <2>1, <2>2, <2>3 DEF ProvisionTypeOK, FreshStore
<1>4. NoncesDrawn /\ AttestedOnce /\ PendingInOrder /\ SpentOnce /\ EvictedInOrder
  BY <1>1, <1>2 DEF NoncesDrawn, AttestedOnce, PendingInOrder, SpentOnce, EvictedInOrder
<1>5. PushedOnce /\ StoreKept
  BY <1>1, <1>2 DEF PushedOnce, StoreKept, Ready, FreshStore
<1> QED BY <1>3, <1>4, <1>5 DEF ProvisionInv

(* The numbers, and what is never one. *)
LEMMA ProvisionConstants ==
  /\ MaxPending \in Nat \ {0} /\ MaxNonces \in Nat \ {0} /\ MaxBoots \in Nat \ {0}
  /\ Nonces \subseteq Nat /\ Boots \subseteq Nat /\ Nobody \notin Nonces /\ 0 \notin Boots
  BY ProvisionAssumption DEF Nonces, Boots

(* What a request, a reply and a thread's request are. *)
LEMMA TypedRequests ==
  ASSUME ProvisionTypeOK
  PROVE  /\ \A r \in requests \cup replies \cup handlers :
              r.nonce \in Nonces /\ r.key \in Boots \cup {0}
         /\ \A r \in requests \cup replies :
              /\ r.path \in {"attest", "push"} /\ r = [path |-> r.path, nonce |-> r.nonce, key |-> r.key]
              /\ r.path = "push" => r.key \in Boots
         /\ \A r \in requests : r.path = "attest" => r.key = 0
         /\ \A r \in replies : r.path = "attest" => r.key \in Boots
         /\ \A h \in handlers :
              /\ h.path \in {"attest", "push", "accept"}
              /\ h = [path |-> h.path, nonce |-> h.nonce, key |-> h.key]
<1>1. ASSUME NEW r \in requests
      PROVE  /\ r.nonce \in Nonces /\ r.key \in Boots \cup {0}
             /\ r.path \in {"attest", "push"} /\ r = [path |-> r.path, nonce |-> r.nonce, key |-> r.key]
             /\ (r.path = "push" => r.key \in Boots) /\ (r.path = "attest" => r.key = 0)
  <2>1. CASE r \in Asks
    BY <2>1 DEF Asks
  <2>2. CASE r \in Pushes
    BY <2>2 DEF Pushes
  <2> QED BY <2>1, <2>2 DEF ProvisionTypeOK
<1>2. ASSUME NEW r \in replies
      PROVE  /\ r.nonce \in Nonces /\ r.key \in Boots
             /\ r.path \in {"attest", "push"} /\ r = [path |-> r.path, nonce |-> r.nonce, key |-> r.key]
  <2>1. CASE r \in Pushes
    BY <2>1 DEF Pushes
  <2>2. CASE r \in [path : {"attest"}, nonce : Nonces, key : Boots]
    BY <2>2
  <2> QED BY <2>1, <2>2 DEF ProvisionTypeOK
<1>3. ASSUME NEW h \in handlers
      PROVE  /\ h.nonce \in Nonces /\ h.key \in Boots \cup {0}
             /\ h.path \in {"attest", "push", "accept"}
             /\ h = [path |-> h.path, nonce |-> h.nonce, key |-> h.key]
  BY DEF ProvisionTypeOK
<1> QED BY <1>1, <1>2, <1>3

(* A nonce is drawn and asked for, by one attempt or none. *)
LEMMA DrawKeeps ==
  ASSUME ProvisionInv, NEW o \in Operators, Challenge(o) \/ Inspect(o)
  PROVE  ProvisionInv'
<1> DEFINE n == Len(owner) + 1
           ask == [path |-> "attest", nonce |-> n, key |-> 0]
<1>1. ProvisionTypeOK
  BY DEF ProvisionInv
<1>2. /\ n \in Nonces /\ n \in Nat /\ Len(owner) \in Nat /\ Len(owner') = n
      /\ owner' \in Seq(Operators) /\ \A m \in 1..Len(owner) : owner'[m] = owner[m]
      /\ owner'[n] = o /\ n <= MaxNonces
  <2>1. owner \in Seq(Operators) /\ Len(owner) < MaxNonces /\ owner' = Append(owner, o)
    BY <1>1 DEF ProvisionTypeOK, Challenge, Inspect
  <2>2. MaxNonces \in Nat /\ Len(owner) \in Nat
    BY <2>1, ProvisionConstants
  <2> QED BY <2>1, <2>2, Appended DEF Nonces
<1>3. /\ requests' = requests \cup {ask}
      /\ UNCHANGED <<session, replies, boot, handlers, pending, store, serving, attested, spent, accepted>>
      /\ \/ op' = op
         \/ op' = [op EXCEPT ![o] = [at |-> "asked", nonce |-> n, key |-> 0]]
  BY <1>2 DEF Challenge, Inspect, tdVars
<1>4. /\ \A p \in Operators : op'[p] = op[p] \/ (p = o /\ op'[p] = [at |-> "asked", nonce |-> n, key |-> 0])
      /\ op' \in [Operators -> [at : {"idle", "asked", "pushed", "told"}, nonce : Nonces \cup {0}, key : Boots \cup {0}]]
  <2> DEFINE fresh == [at |-> "asked", nonce |-> n, key |-> 0]
             All == [at : {"idle", "asked", "pushed", "told"}, nonce : Nonces \cup {0}, key : Boots \cup {0}]
  <2>1. fresh \in All /\ op \in [Operators -> All]
    BY <1>1, <1>2 DEF ProvisionTypeOK
  <2> HIDE DEF fresh, All
  <2>2. op' = op \/ op' = [op EXCEPT ![o] = fresh]
    BY <1>3 DEF fresh
  <2>3. op' \in [Operators -> All] /\ \A p \in Operators : op'[p] = op[p] \/ (p = o /\ op'[p] = fresh)
    BY <2>1, <2>2
  <2> QED BY <2>3 DEF fresh, All
<1>5. ask \in Asks /\ ask.path = "attest" /\ ask.nonce = n /\ ask.key = 0
  BY <1>2 DEF Asks
<1>6. /\ \A r \in requests \cup replies \cup handlers : r.nonce \in Nat /\ r.nonce <= Len(owner)
      /\ \A i \in DOMAIN attested : attested[i] \in Nat /\ attested[i] <= Len(owner)
  <2>1. \A r \in requests \cup replies \cup handlers : r.nonce \in Nat
    BY <1>1, TypedRequests, ProvisionConstants
  <2>2. \A i \in DOMAIN attested : attested[i] \in Nonces
    BY <1>1 DEF ProvisionTypeOK
  <2> QED BY <2>1, <2>2, ProvisionConstants DEF ProvisionInv, NoncesDrawn
<1> HIDE DEF n, ask
<1>7. ~Contains(attested, n) /\ \A r \in requests \cup replies \cup handlers : r.nonce # n
  <2>1. DOMAIN attested = 1..Len(attested)
    BY <1>1 DEF ProvisionTypeOK
  <2>2. \A m \in Nat : m <= Len(owner) => m # n
    BY <1>2 DEF n
  <2> QED BY <1>6, <2>1, <2>2 DEF Contains
<1>8. ProvisionTypeOK'
  <2>1. requests' \subseteq Asks \cup Pushes
    BY <1>1, <1>3, <1>5 DEF ProvisionTypeOK
  <2> QED BY <1>1, <1>2, <1>3, <1>4, <2>1 DEF ProvisionTypeOK
<1>9. NoncesDrawn'
  <2>1. \A m \in Nat : m <= Len(owner) => m <= Len(owner')
    BY <1>2 DEF n
  <2>2. \A r \in (requests \cup replies \cup handlers)' : r.nonce <= Len(owner')
    BY <1>2, <1>3, <1>5, <1>6, <2>1
  <2>3. \A i \in DOMAIN attested' : attested'[i] <= Len(owner')
    BY <1>3, <1>6, <2>1
  <2>4. ASSUME NEW p \in Operators, op'[p].at # "idle"
        PROVE  op'[p].nonce \in 1..Len(owner') /\ owner'[op'[p].nonce] = p
    <3>1. CASE op'[p] = op[p]
      <4>1. op[p].nonce \in 1..Len(owner) /\ owner[op[p].nonce] = p
        BY <2>4, <3>1 DEF ProvisionInv, NoncesDrawn
      <4> QED BY <1>2, <2>1, <3>1, <4>1
    <3>2. CASE p = o /\ op'[p] = [at |-> "asked", nonce |-> n, key |-> 0]
      <4>1. op'[p].nonce = n
        BY <3>2
      <4> QED BY <1>2, <3>2, <4>1 DEF n
    <3> QED BY <1>4, <3>1, <3>2
  <2>5. ASSUME NEW p \in Operators, session'[p] # Nobody
        PROVE  session'[p] \in 1..Len(owner') /\ owner'[session'[p]] = p
    <3>1. session[p] \in 1..Len(owner) /\ owner[session[p]] = p
      BY <1>3, <2>5 DEF ProvisionInv, NoncesDrawn
    <3> QED BY <1>2, <1>3, <2>1, <3>1
  <2> QED BY <2>2, <2>3, <2>4, <2>5 DEF NoncesDrawn
<1>10. AttestedOnce'
  <2>1. AttestedOnce
    BY DEF ProvisionInv
  <2> QED BY <1>3, <1>5, <1>7, <2>1 DEF AttestedOnce
<1>11. PendingInOrder' /\ SpentOnce' /\ EvictedInOrder'
  BY <1>3 DEF ProvisionInv, PendingInOrder, SpentOnce, EvictedInOrder
<1>12. PushedOnce'
  <2>1. PushedOnce
    BY DEF ProvisionInv
  <2>2. boot \in Nat /\ 0 <= boot
    BY <1>1, ProvisionConstants DEF ProvisionTypeOK
  <2>3. /\ \A r \in requests' \cup replies' : r.key <= boot'
        /\ \A r, q \in requests' : r.path = "push" /\ q.path = "push" /\ r.nonce = q.nonce => r.key = q.key
    BY <1>3, <1>5, <2>1, <2>2 DEF PushedOnce
  <2>4. /\ \A r \in replies' : r.path = "push" =>
             r \in requests' /\ (r.key = boot' => Contains(accepted', r.nonce))
        /\ \A h \in handlers' : h.path \in {"push", "accept"} => Seal(h.nonce, h.key) \in requests'
        /\ \A i \in DOMAIN accepted' : Seal(accepted'[i], boot') \in requests'
    BY <1>3, <2>1 DEF PushedOnce
  <2>5. ASSUME NEW p \in Operators
        PROVE  /\ op'[p].at = "asked" => \A r \in requests' : r.path = "push" => r.nonce # op'[p].nonce
               /\ op'[p].at \in {"pushed", "told"} => Seal(op'[p].nonce, op'[p].key) \in requests'
               /\ op'[p].at = "told" => Seal(op'[p].nonce, op'[p].key) \in replies'
               /\ session'[p] # Nobody => \E k \in Boots : Seal(session'[p], k) \in replies'
    <3>1. CASE op'[p] = op[p]
      BY <1>3, <1>5, <2>1, <3>1 DEF PushedOnce
    <3>2. CASE op'[p] = [at |-> "asked", nonce |-> n, key |-> 0]
      <4>1. op'[p].at = "asked" /\ op'[p].nonce = n
        BY <3>2
      <4>2. session'[p] # Nobody => \E k \in Boots : Seal(session'[p], k) \in replies'
        BY <1>3, <2>1 DEF PushedOnce
      <4> QED BY <1>3, <1>5, <1>7, <4>1, <4>2
    <3> QED BY <1>4, <3>1, <3>2
  <2> QED BY <2>3, <2>4, <2>5 DEF PushedOnce
<1>13. StoreKept'
  <2>1. \A i \in DOMAIN accepted : accepted[i] \in 1..Len(owner)
    <3>1. /\ DOMAIN accepted = 1..Len(accepted) /\ DOMAIN spent = 1..Len(spent)
          /\ DOMAIN attested = 1..Len(attested) /\ \A i \in DOMAIN attested : attested[i] \in Nonces
      BY <1>1 DEF ProvisionTypeOK
    <3>2. ASSUME NEW i \in DOMAIN accepted PROVE \E j \in DOMAIN attested : attested[j] = accepted[i]
      <4>1. Contains(spent, accepted[i])
        BY DEF ProvisionInv, SpentOnce
      <4>2. PICK k \in DOMAIN spent : spent[k] = accepted[i]
        BY <3>1, <4>1 DEF Contains
      <4>3. Contains(attested, spent[k])
        BY DEF ProvisionInv, SpentOnce
      <4> QED BY <3>1, <4>2, <4>3 DEF Contains
    <3>3. \A m \in Nonces : m >= 1
      BY ProvisionConstants DEF Nonces
    <3> QED BY <1>2, <1>6, <3>1, <3>2, <3>3
  <2>2. \A i \in DOMAIN accepted : Pushed(accepted[i])' = Pushed(accepted[i])
    BY <1>2, <1>3, <2>1 DEF Pushed
  <2> QED BY <1>3, <2>2 DEF ProvisionInv, StoreKept, Ready
<1> QED BY <1>8, <1>9, <1>10, <1>11, <1>12, <1>13 DEF ProvisionInv

(* A step of an operator, that draws no nonce, leaves what the TD knows. *)
LEMMA TdUntouched ==
  ASSUME ProvisionInv, UNCHANGED <<owner, boot, tdVars>>
  PROVE  PendingInOrder' /\ SpentOnce' /\ EvictedInOrder' /\ StoreKept'
<1>1. UNCHANGED <<owner, boot, handlers, pending, store, serving, attested, spent, accepted>>
  BY DEF tdVars
<1> QED BY <1>1 DEF ProvisionInv, PendingInOrder, SpentOnce, EvictedInOrder, StoreKept, Ready, Pushed

(* What the invariant says of an operator's attempt. *)
AttemptOf(o) ==
  /\ op[o].at # "idle" => op[o].nonce \in 1..Len(owner) /\ owner[op[o].nonce] = o
  /\ session[o] # Nobody => session[o] \in 1..Len(owner) /\ owner[session[o]] = o
  /\ op[o].at = "asked" => \A r \in requests : r.path = "push" => r.nonce # op[o].nonce
  /\ op[o].at \in {"pushed", "told"} => Seal(op[o].nonce, op[o].key) \in requests
  /\ op[o].at = "told" => Seal(op[o].nonce, op[o].key) \in replies
  /\ session[o] # Nobody => \E k \in Boots : Seal(session[o], k) \in replies

(* It is part of the invariant. *)
LEMMA Attempts == ASSUME ProvisionInv, NEW o \in Operators PROVE AttemptOf(o)
<1>1. /\ op[o].at # "idle" => op[o].nonce \in 1..Len(owner) /\ owner[op[o].nonce] = o
      /\ session[o] # Nobody => session[o] \in 1..Len(owner) /\ owner[session[o]] = o
  BY DEF ProvisionInv, NoncesDrawn
<1>2. /\ op[o].at = "asked" => \A r \in requests : r.path = "push" => r.nonce # op[o].nonce
      /\ op[o].at \in {"pushed", "told"} => Seal(op[o].nonce, op[o].key) \in requests
      /\ op[o].at = "told" => Seal(op[o].nonce, op[o].key) \in replies
      /\ session[o] # Nobody => \E k \in Boots : Seal(session[o], k) \in replies
  BY DEF ProvisionInv, PushedOnce
<1> QED BY <1>1, <1>2 DEF AttemptOf

(* An operator is told, writes its key, or gives up: no message is sent. *)
LEMMA AttemptMoves ==
  ASSUME ProvisionInv, NEW o \in Operators, Told(o) \/ SaveSession(o) \/ Abandon(o)
  PROVE  ProvisionInv'
<1>1. ProvisionTypeOK
  BY DEF ProvisionInv
<1>2. UNCHANGED <<owner, boot, tdVars, requests, replies>>
  BY DEF Told, SaveSession, Abandon
<1>3. UNCHANGED <<handlers, pending, store, serving, attested, spent, accepted>>
  BY <1>2 DEF tdVars
<1>4. /\ op[o].at # "idle"
      /\ \/ /\ op[o].at = "pushed" /\ Seal(op[o].nonce, op[o].key) \in replies
            /\ op' = [op EXCEPT ![o].at = "told"] /\ session' = session
         \/ /\ op[o].at = "told" /\ op' = [op EXCEPT ![o].at = "idle"]
            /\ session' = [session EXCEPT ![o] = op[o].nonce]
         \/ op' = [op EXCEPT ![o].at = "idle"] /\ session' = session
  BY DEF Told, SaveSession, Abandon, Seal
<1>5. /\ op \in [Operators -> [at : {"idle", "asked", "pushed", "told"}, nonce : Nonces \cup {0}, key : Boots \cup {0}]]
      /\ session \in [Operators -> Nonces \cup {Nobody}]
  BY <1>1 DEF ProvisionTypeOK
<1>6. Len(owner) \in Nat /\ Len(owner) <= MaxNonces /\ 1..Len(owner) \subseteq Nonces
  BY <1>1, ProvisionConstants DEF ProvisionTypeOK, Nonces
<1>7. \A p \in Operators : p # o => op'[p] = op[p] /\ session'[p] = session[p]
  BY <1>4, <1>5
<1>8. op'[o].nonce = op[o].nonce /\ op'[o].key = op[o].key
  BY <1>4, <1>5
<1>9. \/ op'[o].at = "told" /\ op[o].at = "pushed" /\ session'[o] = session[o] /\ Seal(op[o].nonce, op[o].key) \in replies
      \/ op'[o].at = "idle" /\ op[o].at = "told" /\ session'[o] = op[o].nonce
      \/ op'[o].at = "idle" /\ session'[o] = session[o]
  BY <1>4, <1>5
<1>10. AttemptOf(o)
  BY Attempts
<1>11. ProvisionTypeOK'
  <2>1. op' \in [Operators -> [at : {"idle", "asked", "pushed", "told"}, nonce : Nonces \cup {0}, key : Boots \cup {0}]]
    BY <1>4, <1>5
  <2>2. session' \in [Operators -> Nonces \cup {Nobody}]
    BY <1>4, <1>5, <1>6, <1>10 DEF AttemptOf
  <2> QED BY <1>1, <1>2, <1>3, <2>1, <2>2 DEF ProvisionTypeOK
<1>12. ASSUME NEW p \in Operators PROVE AttemptOf(p)'
  <2>1. CASE p # o
    <3>1. AttemptOf(p)
      BY Attempts
    <3> QED BY <1>2, <1>7, <2>1, <3>1 DEF AttemptOf
  <2>2. CASE p = o
    <3>1. op[o].at = "told" => op[o].key \in Boots
      <4>1. SUFFICES ASSUME op[o].at = "told" PROVE op[o].key \in Boots
        OBVIOUS
      <4>2. Seal(op[o].nonce, op[o].key) \in replies /\ Seal(op[o].nonce, op[o].key).key = op[o].key
            /\ Seal(op[o].nonce, op[o].key).path = "push"
        BY <1>10, <4>1 DEF AttemptOf, Seal
      <4> QED BY <1>1, <4>2, TypedRequests
    <3>2. op'[o].at # "idle" => op'[o].nonce \in 1..Len(owner) /\ owner[op'[o].nonce] = o
      BY <1>4, <1>8, <1>10 DEF AttemptOf
    <3>3. session'[o] # Nobody => session'[o] \in 1..Len(owner) /\ owner[session'[o]] = o
      BY <1>4, <1>9, <1>10 DEF AttemptOf
    <3>4. /\ op'[o].at \in {"pushed", "told"} => Seal(op'[o].nonce, op'[o].key) \in requests
          /\ op'[o].at = "told" => Seal(op'[o].nonce, op'[o].key) \in replies
          /\ op'[o].at # "asked"
      BY <1>8, <1>9, <1>10 DEF AttemptOf
    <3>5. session'[o] # Nobody => \E k \in Boots : Seal(session'[o], k) \in replies
      BY <1>9, <1>10, <3>1 DEF AttemptOf
    <3> QED BY <1>2, <2>2, <3>2, <3>3, <3>4, <3>5 DEF AttemptOf
  <2> QED BY <2>1, <2>2
<1>13. NoncesDrawn'
  <2>1. \A p \in Operators :
          /\ op'[p].at # "idle" => op'[p].nonce \in 1..Len(owner') /\ owner'[op'[p].nonce] = p
          /\ session'[p] # Nobody => session'[p] \in 1..Len(owner') /\ owner'[session'[p]] = p
    BY <1>12 DEF AttemptOf
  <2>2. NoncesDrawn
    BY DEF ProvisionInv
  <2> QED BY <1>2, <1>3, <2>1, <2>2 DEF NoncesDrawn
<1>14. PushedOnce'
  <2>1. \A p \in Operators :
          /\ op'[p].at = "asked" => \A r \in requests' : r.path = "push" => r.nonce # op'[p].nonce
          /\ op'[p].at \in {"pushed", "told"} => Seal(op'[p].nonce, op'[p].key) \in requests'
          /\ op'[p].at = "told" => Seal(op'[p].nonce, op'[p].key) \in replies'
          /\ session'[p] # Nobody => \E k \in Boots : Seal(session'[p], k) \in replies'
    BY <1>12 DEF AttemptOf
  <2>2. PushedOnce
    BY DEF ProvisionInv
  <2> QED BY <1>2, <1>3, <2>1, <2>2 DEF PushedOnce
<1>15. AttestedOnce'
  <2>1. AttestedOnce
    BY DEF ProvisionInv
  <2> QED BY <1>2, <1>3, <2>1 DEF AttestedOnce
<1> QED BY <1>2, <1>11, <1>13, <1>14, <1>15, TdUntouched DEF ProvisionInv

(* The answer is checked, and the payload sealed to the key in it. *)
LEMMA SealKeeps ==
  ASSUME ProvisionInv, NEW o \in Operators, SealAndPush(o)
  PROVE  ProvisionInv'
<1>1. ProvisionTypeOK
  BY DEF ProvisionInv
<1>2. UNCHANGED <<owner, boot, tdVars, session, replies>> /\ op[o].at = "asked"
  BY DEF SealAndPush
<1>3. UNCHANGED <<handlers, pending, store, serving, attested, spent, accepted>>
  BY <1>2 DEF tdVars
<1>4. PICK r \in replies :
        /\ r.path = "attest" /\ r.nonce = op[o].nonce
        /\ op' = [op EXCEPT ![o].at = "pushed", ![o].key = r.key]
        /\ requests' = requests \cup {Seal(r.nonce, r.key)}
  BY DEF SealAndPush, Seal
<1> DEFINE n == op[o].nonce
           k == r.key
           sealed == Seal(n, k)
<1>5. n \in Nonces /\ k \in Boots /\ k <= boot
  <2>1. r \in requests \cup replies
    OBVIOUS
  <2> QED BY <1>1, <1>4, <2>1, TypedRequests DEF ProvisionInv, PushedOnce
<1>6. sealed \in Pushes /\ sealed.path = "push" /\ sealed.nonce = n /\ sealed.key = k
  BY <1>5 DEF Pushes, Seal
<1>7. /\ op \in [Operators -> [at : {"idle", "asked", "pushed", "told"}, nonce : Nonces \cup {0}, key : Boots \cup {0}]]
      /\ requests' = requests \cup {sealed}
  BY <1>1, <1>4 DEF ProvisionTypeOK
<1>8. AttemptOf(o)
  BY Attempts
<1>9. /\ \A p \in Operators : p # o => op'[p] = op[p]
      /\ op'[o].at = "pushed" /\ op'[o].nonce = n /\ op'[o].key = k
  BY <1>4, <1>7
<1>10. op' \in [Operators -> [at : {"idle", "asked", "pushed", "told"}, nonce : Nonces \cup {0}, key : Boots \cup {0}]]
  BY <1>4, <1>5, <1>7
<1>11. n \in 1..Len(owner) /\ owner[n] = o /\ \A q \in requests : q.path = "push" => q.nonce # n
  BY <1>2, <1>8 DEF AttemptOf
<1>12. Len(owner) \in Nat
  BY <1>1 DEF ProvisionTypeOK
<1> HIDE DEF n, k, sealed
<1>13. ProvisionTypeOK'
  <2>1. requests' \subseteq Asks \cup Pushes
    BY <1>1, <1>6, <1>7 DEF ProvisionTypeOK
  <2> QED BY <1>1, <1>2, <1>3, <1>10, <2>1 DEF ProvisionTypeOK
<1>14. ASSUME NEW p \in Operators PROVE AttemptOf(p)'
  <2>1. AttemptOf(p)
    BY Attempts
  <2>2. CASE p # o
    <3>1. op[p].at = "asked" => op[p].nonce # n
      BY <1>11, <2>1, <2>2 DEF AttemptOf
    <3> QED BY <1>2, <1>6, <1>7, <1>9, <2>1, <2>2, <3>1 DEF AttemptOf
  <2>3. CASE p = o
    <3>1. Seal(op'[o].nonce, op'[o].key) \in requests'
      BY <1>7, <1>9 DEF sealed
    <3> QED BY <1>2, <1>9, <1>11, <2>1, <2>3, <3>1 DEF AttemptOf
  <2> QED BY <2>2, <2>3
<1>15. NoncesDrawn'
  <2>1. \A p \in Operators :
          /\ op'[p].at # "idle" => op'[p].nonce \in 1..Len(owner') /\ owner'[op'[p].nonce] = p
          /\ session'[p] # Nobody => session'[p] \in 1..Len(owner') /\ owner'[session'[p]] = p
    BY <1>14 DEF AttemptOf
  <2>2. NoncesDrawn
    BY DEF ProvisionInv
  <2>3. n <= Len(owner)
    BY <1>11, <1>12
  <2>4. \A q \in (requests \cup replies \cup handlers)' : q.nonce <= Len(owner')
    BY <1>2, <1>3, <1>6, <1>7, <2>2, <2>3 DEF NoncesDrawn
  <2> QED BY <1>2, <1>3, <2>1, <2>2, <2>4 DEF NoncesDrawn
<1>16. PushedOnce'
  <2>1. \A p \in Operators :
          /\ op'[p].at = "asked" => \A q \in requests' : q.path = "push" => q.nonce # op'[p].nonce
          /\ op'[p].at \in {"pushed", "told"} => Seal(op'[p].nonce, op'[p].key) \in requests'
          /\ op'[p].at = "told" => Seal(op'[p].nonce, op'[p].key) \in replies'
          /\ session'[p] # Nobody => \E j \in Boots : Seal(session'[p], j) \in replies'
    BY <1>14 DEF AttemptOf
  <2>2. PushedOnce
    BY DEF ProvisionInv
  <2>3. \A q \in (requests \cup replies)' : q.key <= boot'
    BY <1>2, <1>5, <1>6, <1>7, <2>2 DEF PushedOnce
  <2>4. \A q, s \in requests' : q.path = "push" /\ s.path = "push" /\ q.nonce = s.nonce => q.key = s.key
    BY <1>6, <1>7, <1>11, <2>2 DEF PushedOnce
  <2>5. /\ \A q \in replies' : q.path = "push" =>
             q \in requests' /\ (q.key = boot' => Contains(accepted', q.nonce))
        /\ \A h \in handlers' : h.path \in {"push", "accept"} => Seal(h.nonce, h.key) \in requests'
        /\ \A i \in DOMAIN accepted' : Seal(accepted'[i], boot') \in requests'
    BY <1>2, <1>3, <1>7, <2>2 DEF PushedOnce
  <2> QED BY <2>1, <2>3, <2>4, <2>5 DEF PushedOnce
<1>17. AttestedOnce'
  <2>1. AttestedOnce
    BY DEF ProvisionInv
  <2> QED BY <1>2, <1>3, <1>6, <1>7, <2>1 DEF AttestedOnce
<1> QED BY <1>2, <1>13, <1>15, <1>16, <1>17, TdUntouched DEF ProvisionInv

(* No operator moved, and no message is gone that a push or its answer is. *)
LEMMA AttemptsStay ==
  ASSUME ProvisionInv, UNCHANGED <<owner, op, session>>, replies \subseteq replies',
         \A r : r.path = "push" => (r \in requests' <=> r \in requests)
  PROVE  \A o \in Operators :
           /\ op'[o].at = "asked" => \A r \in requests' : r.path = "push" => r.nonce # op'[o].nonce
           /\ op'[o].at \in {"pushed", "told"} => Seal(op'[o].nonce, op'[o].key) \in requests'
           /\ op'[o].at = "told" => Seal(op'[o].nonce, op'[o].key) \in replies'
           /\ session'[o] # Nobody => \E k \in Boots : Seal(session'[o], k) \in replies'
<1> TAKE o \in Operators
<1>1. AttemptOf(o)
  BY Attempts
<1>2. \A n, k : Seal(n, k).path = "push"
  BY DEF Seal
<1>3. op'[o].at = "asked" => \A r \in requests' : r.path = "push" => r.nonce # op'[o].nonce
  BY <1>1 DEF AttemptOf
<1>4. op'[o].at \in {"pushed", "told"} => Seal(op'[o].nonce, op'[o].key) \in requests'
  BY <1>1, <1>2 DEF AttemptOf
<1>5. op'[o].at = "told" => Seal(op'[o].nonce, op'[o].key) \in replies'
  BY <1>1 DEF AttemptOf
<1>6. session'[o] # Nobody => \E k \in Boots : Seal(session'[o], k) \in replies'
  BY <1>1 DEF AttemptOf
<1> QED BY <1>3, <1>4, <1>5, <1>6

(* A request is delivered: an attestation's once, a push any number of times. *)
LEMMA ArriveKeeps ==
  ASSUME ProvisionInv, NEW r \in requests, Arrive(r)
  PROVE  ProvisionInv'
<1>1. ProvisionTypeOK /\ NoncesDrawn /\ AttestedOnce /\ PushedOnce /\ SpentOnce
  BY DEF ProvisionInv
<1>2. UNCHANGED <<owner, op, session, replies, boot, pending, store, serving, attested, spent, accepted>>
  BY DEF Arrive
<1>3. handlers' = handlers \/ handlers' = handlers \cup {r}
  BY DEF Arrive
<1>4. /\ r.path \in {"attest", "push"}
      /\ r.nonce \in Nonces /\ r.key \in Boots \cup {0}
      /\ \A q \in requests : q = [path |-> q.path, nonce |-> q.nonce, key |-> q.key]
      /\ \A q \in requests : q.path = "attest" => q.key = 0
      /\ r = [path |-> r.path, nonce |-> r.nonce, key |-> r.key]
  BY <1>1, TypedRequests
<1>5. /\ requests' \subseteq requests
      /\ \A q : q.path = "push" => (q \in requests' <=> q \in requests)
      /\ r.path = "attest" => r \notin requests'
  BY DEF Arrive
<1>6. r \in [path : {"attest", "push", "accept"}, nonce : Nonces, key : Boots \cup {0}]
  BY <1>4
<1>7. ProvisionTypeOK'
  BY <1>1, <1>2, <1>3, <1>5, <1>6 DEF ProvisionTypeOK
<1>8. NoncesDrawn'
  BY <1>1, <1>2, <1>3, <1>5 DEF NoncesDrawn
<1>9. AttestedOnce'
  <2>1. ASSUME NEW q \in requests', q.path = "attest"
        PROVE  ~Contains(attested, q.nonce) /\ \A h \in handlers' : h.path = "attest" => h.nonce # q.nonce
    <3>1. /\ ~Contains(attested, q.nonce)
          /\ \A h \in handlers : h.path = "attest" => h.nonce # q.nonce
      BY <1>1, <1>5, <2>1 DEF AttestedOnce
    <3>2. r.path = "attest" => r.nonce # q.nonce
      BY <1>4, <1>5, <2>1
    <3> QED BY <1>3, <3>1, <3>2
  <2>2. \A h \in handlers' : h.path = "attest" => h.key = 0 /\ ~Contains(attested, h.nonce)
    BY <1>1, <1>3, <1>4 DEF AttestedOnce
  <2> QED BY <1>1, <1>2, <2>1, <2>2 DEF AttestedOnce
<1>10. SpentOnce'
  <2>1. r.path # "accept"
    BY <1>4
  <2> QED BY <1>1, <1>2, <1>3, <2>1 DEF SpentOnce
<1>11. PushedOnce'
  <2>1. \A q \in (requests \cup replies)' : q.key <= boot'
    BY <1>1, <1>2, <1>5 DEF PushedOnce
  <2>2. \A q, s \in requests' : q.path = "push" /\ s.path = "push" /\ q.nonce = s.nonce => q.key = s.key
    BY <1>1, <1>5 DEF PushedOnce
  <2>3. \A q \in replies' : q.path = "push" =>
          q \in requests' /\ (q.key = boot' => Contains(accepted', q.nonce))
    BY <1>1, <1>2, <1>5 DEF PushedOnce
  <2>4. \A n, k : Seal(n, k).path = "push"
    BY DEF Seal
  <2>5. \A i \in DOMAIN accepted' : Seal(accepted'[i], boot') \in requests'
    BY <1>1, <1>2, <1>5, <2>4 DEF PushedOnce
  <2>6. \A h \in handlers' : h.path \in {"push", "accept"} => Seal(h.nonce, h.key) \in requests'
    <3>1. \A h \in handlers : h.path \in {"push", "accept"} => Seal(h.nonce, h.key) \in requests'
      BY <1>1, <1>5, <2>4 DEF PushedOnce
    <3>2. r.path \in {"push", "accept"} => Seal(r.nonce, r.key) \in requests'
      BY <1>4, <1>5 DEF Seal
    <3> QED BY <1>3, <3>1, <3>2
  <2> QED BY <1>2, <1>5, <2>1, <2>2, <2>3, <2>5, <2>6, AttemptsStay DEF PushedOnce
<1>12. PendingInOrder' /\ EvictedInOrder' /\ StoreKept'
  BY <1>2 DEF ProvisionInv, PendingInOrder, EvictedInOrder, StoreKept, Ready, Pushed
<1> QED BY <1>7, <1>8, <1>9, <1>10, <1>11, <1>12 DEF ProvisionInv

(* The miner serves the head it was pushed. *)
LEMMA ServeKeeps == ASSUME ProvisionInv, Serve PROVE ProvisionInv'
<1>1. ProvisionTypeOK /\ NoncesDrawn /\ AttestedOnce /\ PushedOnce /\ SpentOnce /\ StoreKept
  BY DEF ProvisionInv
<1>2. UNCHANGED <<owner, op, session, requests, replies, boot, handlers, pending, store, attested, spent, accepted>>
      /\ serving' = store.values
  BY DEF Serve
<1>3. ProvisionTypeOK'
  BY <1>1, <1>2 DEF ProvisionTypeOK
<1>4. NoncesDrawn' /\ AttestedOnce' /\ SpentOnce'
  BY <1>1, <1>2 DEF NoncesDrawn, AttestedOnce, SpentOnce
<1>5. PushedOnce'
  BY <1>1, <1>2 DEF PushedOnce
<1>6. StoreKept'
  BY <1>1, <1>2 DEF StoreKept, Ready, Pushed
<1>7. PendingInOrder' /\ EvictedInOrder'
  BY <1>2 DEF ProvisionInv, PendingInOrder, EvictedInOrder
<1> QED BY <1>3, <1>4, <1>5, <1>6, <1>7 DEF ProvisionInv

(* A boot makes a new key, to which nothing was sealed. *)
LEMMA RebootKeeps == ASSUME ProvisionInv, Reboot PROVE ProvisionInv'
<1>1. ProvisionTypeOK /\ NoncesDrawn /\ AttestedOnce /\ PushedOnce
  BY DEF ProvisionInv
<1>2. /\ boot < MaxBoots /\ boot' = boot + 1 /\ handlers' = {} /\ pending' = <<>>
      /\ store' = FreshStore /\ serving' = Nobody
      /\ attested' = <<>> /\ spent' = <<>> /\ accepted' = <<>>
      /\ UNCHANGED <<owner, op, session, requests, replies>>
  BY DEF Reboot, Forget
<1>3. DOMAIN pending' = {} /\ DOMAIN attested' = {} /\ DOMAIN spent' = {} /\ DOMAIN accepted' = {}
      /\ <<>> \in Seq(Nonces) /\ Len(<<>>) = 0 /\ \A n : ~Contains(<<>>, n)
  BY <1>2 DEF Contains
<1>4. boot \in Nat /\ boot' \in Boots /\ \A k \in Boots \cup {0} : k <= boot => k <= boot' /\ k # boot'
  BY <1>1, <1>2, ProvisionConstants DEF ProvisionTypeOK, Boots
<1>5. ProvisionTypeOK'
  <2>1. store' \in [values : Nonces \cup {Nobody}, session : Nonces \cup {Nobody}]
    BY <1>2 DEF FreshStore
  <2>2. 0 <= MaxPending
    BY ProvisionConstants
  <2> QED BY <1>1, <1>2, <1>3, <1>4, <2>1, <2>2 DEF ProvisionTypeOK
<1>6. NoncesDrawn'
  BY <1>1, <1>2, <1>3 DEF NoncesDrawn
<1>7. AttestedOnce' /\ PendingInOrder' /\ SpentOnce' /\ EvictedInOrder'
  BY <1>1, <1>2, <1>3 DEF AttestedOnce, PendingInOrder, SpentOnce, EvictedInOrder
<1>8. StoreKept'
  BY <1>2, <1>3 DEF StoreKept, Ready, FreshStore
<1>9. PushedOnce'
  <2>1. \A r \in requests \cup replies : r.key \in Boots \cup {0} /\ r.key <= boot
    BY <1>1, TypedRequests DEF PushedOnce
  <2>2. \A r \in requests' \cup replies' : r.key <= boot'
    BY <1>2, <1>4, <2>1
  <2>3. \A r \in replies' : r.path = "push" =>
          r \in requests' /\ (r.key = boot' => Contains(accepted', r.nonce))
    <3>1. \A r \in replies : r.path = "push" => r.key \in Boots
      BY <1>1, TypedRequests
    <3> QED BY <1>1, <1>2, <1>4, <2>1, <3>1 DEF PushedOnce
  <2> QED BY <1>1, <1>2, <1>3, <2>2, <2>3, AttemptsStay DEF PushedOnce
<1> QED BY <1>5, <1>6, <1>7, <1>8, <1>9 DEF ProvisionInv

(* A push is accepted, or refused since one was before. *)
LEMMA AcceptKeeps ==
  ASSUME ProvisionInv, NEW h \in handlers, Accept(h)
  PROVE  ProvisionInv'
<1>1. ProvisionTypeOK /\ NoncesDrawn /\ AttestedOnce /\ PushedOnce /\ SpentOnce /\ StoreKept
  BY DEF ProvisionInv
<1>2. /\ h.path = "accept" /\ handlers' = handlers \ {h}
      /\ UNCHANGED <<owner, op, session, requests, boot, pending, serving, attested, spent>>
  BY DEF Accept
<1> DEFINE n == h.nonce
<1>3. /\ n \in Nonces /\ h.key = boot /\ boot \in Boots /\ Contains(spent, n) /\ ~Contains(accepted, n)
      /\ Seal(n, boot) \in requests
  <2>1. h \in requests \cup replies \cup handlers
    OBVIOUS
  <2> QED BY <1>1, <1>2, <2>1, TypedRequests DEF SpentOnce, PushedOnce, ProvisionTypeOK
<1>4. \/ /\ store.values # Nobody /\ UNCHANGED <<store, replies, accepted>>
      \/ /\ store.values = Nobody
         /\ store' = [values |-> IF Pushed(n) = "empty" THEN Nobody ELSE n, session |-> n]
         /\ replies' = replies \cup {Seal(n, boot)}
         /\ accepted' = Append(accepted, n)
  <2>1. [h EXCEPT !.path = "push"] = Seal(n, boot)
    <3>1. h = [path |-> h.path, nonce |-> h.nonce, key |-> h.key]
      BY <1>1, TypedRequests
    <3> QED BY <1>3, <3>1 DEF Seal
  <2> QED BY <2>1 DEF Accept, Refused
<1>5. /\ accepted \in Seq(Nonces) /\ DOMAIN accepted = 1..Len(accepted)
      /\ spent \in Seq(Nonces) /\ DOMAIN spent = 1..Len(spent)
  BY <1>1 DEF ProvisionTypeOK
<1>6. Seal(n, boot).path = "push" /\ Seal(n, boot).nonce = n /\ Seal(n, boot).key = boot
      /\ Seal(n, boot) \in Pushes
  BY <1>3 DEF Seal, Pushes
<1> HIDE DEF n
<1>7. /\ replies \subseteq replies' /\ replies' \subseteq replies \cup {Seal(n, boot)}
      /\ accepted' \in Seq(Nonces) /\ \A m : Contains(accepted, m) => Contains(accepted', m)
      /\ \A m : Contains(accepted', m) => Contains(accepted, m) \/ m = n
      /\ replies' # replies => Contains(accepted', n)
  <2>1. CASE UNCHANGED <<store, replies, accepted>>
    BY <1>5, <2>1
  <2>2. CASE replies' = replies \cup {Seal(n, boot)} /\ accepted' = Append(accepted, n)
    <3>1. /\ Append(accepted, n) \in Seq(Nonces)
          /\ \A m : Contains(Append(accepted, n), m) <=> Contains(accepted, m) \/ m = n
      BY <1>3, <1>5, Appended
    <3> QED BY <2>2, <3>1
  <2> QED BY <1>4, <2>1, <2>2
<1>8. ProvisionTypeOK'
  <2>1. store' \in [values : Nonces \cup {Nobody}, session : Nonces \cup {Nobody}]
    BY <1>1, <1>3, <1>4 DEF ProvisionTypeOK
  <2> QED BY <1>1, <1>2, <1>6, <1>7, <2>1 DEF ProvisionTypeOK
<1>9. NoncesDrawn'
  <2>1. n <= Len(owner)
    BY <1>1 DEF NoncesDrawn, n
  <2> QED BY <1>1, <1>2, <1>6, <1>7, <2>1 DEF NoncesDrawn
<1>10. AttestedOnce' /\ PendingInOrder' /\ EvictedInOrder'
  <2>1. PendingInOrder /\ EvictedInOrder
    BY DEF ProvisionInv
  <2> QED BY <1>1, <1>2, <2>1 DEF AttestedOnce, PendingInOrder, EvictedInOrder
<1>11. SpentOnce'
  <2>1. \A g \in handlers' : g.path = "accept" => g.nonce # n
    <3>1. \A g \in handlers : g = [path |-> g.path, nonce |-> g.nonce, key |-> g.key]
      BY <1>1, TypedRequests
    <3>2. \A g \in handlers : g.path = "accept" => g.key = boot
      BY <1>1 DEF SpentOnce
    <3> QED BY <1>2, <3>1, <3>2 DEF n
  <2>2. \A g \in handlers' : g.path = "accept" =>
          g.key = boot' /\ Contains(spent', g.nonce) /\ ~Contains(accepted', g.nonce)
    BY <1>1, <1>2, <1>7, <2>1 DEF SpentOnce
  <2>3. CASE accepted' = accepted
    BY <1>1, <1>2, <2>2, <2>3 DEF SpentOnce
  <2>4. CASE accepted' = Append(accepted, n)
    <3>1. /\ DOMAIN accepted' = 1..Len(accepted) + 1 /\ accepted'[Len(accepted) + 1] = n
          /\ \A i \in 1..Len(accepted) : accepted'[i] = accepted[i]
          /\ Len(accepted) \in Nat
      BY <1>3, <1>5, <2>4, Appended
    <3>2. \A i \in DOMAIN accepted' : i \in DOMAIN accepted \/ i = Len(accepted) + 1
      BY <1>5, <3>1
    <3>3. \A i \in DOMAIN accepted : accepted[i] # n
      BY <1>3, <1>5 DEF Contains
    <3>4. \A i \in DOMAIN accepted' : Contains(spent', accepted'[i])
      BY <1>1, <1>2, <1>3, <1>5, <3>1, <3>2 DEF SpentOnce
    <3>5. \A i, j \in DOMAIN accepted' : accepted'[i] = accepted'[j] => i = j
      BY <1>1, <1>5, <3>1, <3>2, <3>3 DEF SpentOnce
    <3> QED BY <1>1, <1>2, <2>2, <3>4, <3>5 DEF SpentOnce
  <2> QED BY <1>4, <2>3, <2>4
<1>12. PushedOnce'
  <2>1. \A q \in (requests \cup replies)' : q.key <= boot'
    <3>1. boot \in Nat
      BY <1>3, ProvisionConstants
    <3> QED BY <1>1, <1>2, <1>6, <1>7, <3>1 DEF PushedOnce
  <2>2. \A q \in replies' : q.path = "push" =>
          q \in requests' /\ (q.key = boot' => Contains(accepted', q.nonce))
    BY <1>1, <1>2, <1>3, <1>6, <1>7 DEF PushedOnce
  <2>3. \A i \in DOMAIN accepted' : Seal(accepted'[i], boot') \in requests'
    <3>1. ASSUME NEW i \in DOMAIN accepted' PROVE Contains(accepted', accepted'[i])
      BY <1>7 DEF Contains
    <3>2. \A i \in DOMAIN accepted' : Contains(accepted, accepted'[i]) \/ accepted'[i] = n
      BY <1>7, <3>1
    <3>3. \A m : Contains(accepted, m) => Seal(m, boot) \in requests
      BY <1>1, <1>5 DEF PushedOnce, Contains
    <3> QED BY <1>2, <1>3, <3>2, <3>3
  <2> QED BY <1>1, <1>2, <1>7, <2>1, <2>2, <2>3, AttemptsStay DEF PushedOnce
<1>13. StoreKept'
  <2>1. CASE UNCHANGED <<store, replies, accepted>>
    BY <1>1, <1>2, <2>1 DEF StoreKept, Ready, Pushed
  <2>2. CASE /\ store.values = Nobody /\ accepted' = Append(accepted, n)
             /\ store' = [values |-> IF Pushed(n) = "empty" THEN Nobody ELSE n, session |-> n]
    <3>1. /\ DOMAIN accepted' = 1..Len(accepted) + 1 /\ accepted'[Len(accepted) + 1] = n
          /\ \A i \in 1..Len(accepted) : accepted'[i] = accepted[i]
          /\ Len(accepted) \in Nat
      BY <1>3, <1>5, <2>2, Appended
    <3>2. \A i \in DOMAIN accepted' : i \in DOMAIN accepted \/ i = Len(accepted) + 1
      BY <1>5, <3>1
    <3>3. \A i \in DOMAIN accepted : accepted[i] \in Nonces /\ Pushed(accepted[i]) = "empty"
      <4>1. \A i \in DOMAIN accepted : accepted[i] \in Nonces
        BY <1>5
      <4> QED BY <1>1, <2>2, <4>1, ProvisionConstants DEF StoreKept
    <3>4. serving = Nobody
      BY <1>1, <2>2 DEF StoreKept
    <3>5. Contains(accepted', n)
      BY <1>3, <1>5, <2>2, Appended
    <3>6. \A m : Pushed(m)' = Pushed(m)
      BY <1>2 DEF Pushed
    <3>7. ASSUME NEW i \in DOMAIN accepted', Pushed(accepted'[i]) # "empty"
          PROVE  store' = [values |-> accepted'[i], session |-> accepted'[i]]
      <4>1. accepted'[i] = n
        BY <1>5, <3>1, <3>2, <3>3, <3>7
      <4> QED BY <2>2, <3>7, <4>1
    <3>8. store'.values # Nobody => store'.values = n
      BY <2>2
    <3> QED BY <1>2, <3>4, <3>5, <3>6, <3>7, <3>8 DEF StoreKept, Ready
  <2> QED BY <1>4, <2>1, <2>2
<1> QED BY <1>8, <1>9, <1>10, <1>11, <1>12, <1>13 DEF ProvisionInv

(* What the invariant says of the nonces of this boot, as sequences. *)
LEMMA BootsNonces ==
  ASSUME ProvisionInv
  PROVE  /\ attested \in Seq(Nonces) /\ DOMAIN attested = 1..Len(attested) /\ Len(attested) \in Nat
         /\ spent \in Seq(Nonces) /\ DOMAIN spent = 1..Len(spent) /\ Len(spent) \in Nat
         /\ accepted \in Seq(Nonces) /\ DOMAIN accepted = 1..Len(accepted) /\ Len(accepted) \in Nat
         /\ pending \in Seq(Nonces) /\ DOMAIN pending = 1..Len(pending) /\ Len(pending) \in Nat
         /\ Len(pending) <= MaxPending
         /\ \A n : Contains(accepted, n) => Contains(spent, n)
         /\ \A n : Contains(spent, n) => Contains(attested, n)
         /\ \A n : Contains(pending, n) => Contains(attested, n) /\ ~Contains(spent, n)
         /\ \A k, l \in 1..Len(pending) : pending[k] = pending[l] => k = l
<1>1. /\ attested \in Seq(Nonces) /\ DOMAIN attested = 1..Len(attested) /\ Len(attested) \in Nat
      /\ spent \in Seq(Nonces) /\ DOMAIN spent = 1..Len(spent) /\ Len(spent) \in Nat
      /\ accepted \in Seq(Nonces) /\ DOMAIN accepted = 1..Len(accepted) /\ Len(accepted) \in Nat
      /\ pending \in Seq(Nonces) /\ DOMAIN pending = 1..Len(pending) /\ Len(pending) \in Nat
      /\ Len(pending) <= MaxPending
  BY DEF ProvisionInv, ProvisionTypeOK
<1>2. SpentOnce /\ PendingInOrder
  BY DEF ProvisionInv
<1>3. \A n : Contains(accepted, n) => Contains(spent, n)
  BY <1>1, <1>2 DEF SpentOnce, Contains
<1>4. \A n : Contains(spent, n) => Contains(attested, n)
  BY <1>1, <1>2 DEF SpentOnce, Contains
<1>5. \A n : Contains(pending, n) => Contains(attested, n) /\ ~Contains(spent, n)
  <2>1. \A k \in 1..Len(pending) : Contains(attested, pending[k]) /\ ~Contains(spent, pending[k])
    BY <1>1, <1>2 DEF PendingInOrder
  <2>2. \A n : Contains(pending, n) => \E k \in 1..Len(pending) : pending[k] = n
    BY DEF Contains
  <2> QED BY <2>1, <2>2
<1>6. ASSUME NEW k \in 1..Len(pending), NEW l \in 1..Len(pending), pending[k] = pending[l]
      PROVE  k = l
  <2>1. PICK i \in 1..Len(attested) : attested[i] = pending[k]
    <3>1. Contains(pending, pending[k])
      BY DEF Contains
    <3> QED BY <1>5, <3>1 DEF Contains
  <2>2. ~ (k < l) /\ ~ (l < k)
    <3>1. i < i => FALSE
      BY <1>1
    <3> QED BY <1>1, <1>2, <1>6, <2>1, <3>1 DEF PendingInOrder
  <2> QED BY <1>1, <2>2
<1> QED BY <1>1, <1>3, <1>4, <1>5, <1>6

(* The nonce store after an attestation: the oldest is dropped when it was full. *)
LEMMA Remembered ==
  ASSUME NEW p \in Seq(Nonces), NEW n \in Nonces, Len(p) <= MaxPending
  PROVE  /\ Remember(p, n) \in Seq(Nonces)
         /\ \E d \in {0, 1} :
              /\ d = 1 => Len(p) = MaxPending
              /\ Len(Remember(p, n)) = Len(p) + 1 - d /\ Len(Remember(p, n)) <= MaxPending
              /\ \A k \in 1..Len(p) - d : Remember(p, n)[k] = p[k + d]
              /\ Remember(p, n)[Len(p) + 1 - d] = n
<1>1. MaxPending \in Nat \ {0} /\ Len(p) \in Nat
  BY ProvisionConstants
<1>2. CASE Len(p) >= MaxPending
  <2>1. p # <<>> /\ Len(p) = MaxPending
    BY <1>1, <1>2
  <2>2. /\ Tail(p) \in Seq(Nonces) /\ Len(Tail(p)) = Len(p) - 1
        /\ \A k \in 1..Len(p) - 1 : Tail(p)[k] = p[k + 1]
    BY <2>1
  <2>3. Remember(p, n) = Append(Tail(p), n)
    BY <1>2 DEF Remember
  <2>4. /\ Append(Tail(p), n) \in Seq(Nonces) /\ Len(Append(Tail(p), n)) = Len(Tail(p)) + 1
        /\ \A i \in 1..Len(Tail(p)) : Append(Tail(p), n)[i] = Tail(p)[i]
        /\ Append(Tail(p), n)[Len(Tail(p)) + 1] = n
    BY <2>2, Appended
  <2>5. /\ Len(Remember(p, n)) = Len(p) + 1 - 1 /\ Len(Remember(p, n)) <= MaxPending
        /\ \A k \in 1..Len(p) - 1 : Remember(p, n)[k] = p[k + 1]
        /\ Remember(p, n)[Len(p) + 1 - 1] = n
    BY <1>1, <2>1, <2>2, <2>3, <2>4
  <2> QED BY <2>1, <2>3, <2>4, <2>5
<1>3. CASE ~ (Len(p) >= MaxPending)
  <2>1. Remember(p, n) = Append(p, n)
    BY <1>3 DEF Remember
  <2>2. /\ Append(p, n) \in Seq(Nonces) /\ Len(Append(p, n)) = Len(p) + 1
        /\ \A i \in 1..Len(p) : Append(p, n)[i] = p[i]
        /\ Append(p, n)[Len(p) + 1] = n
    BY Appended
  <2>3. /\ Len(Remember(p, n)) = Len(p) + 1 - 0 /\ Len(Remember(p, n)) <= MaxPending
        /\ \A k \in 1..Len(p) - 0 : Remember(p, n)[k] = p[k + 0]
        /\ Remember(p, n)[Len(p) + 1 - 0] = n
    BY <1>1, <1>3, <2>1, <2>2
  <2> QED BY <2>1, <2>2, <2>3
<1> QED BY <1>2, <1>3

(* What was attested after the i-th. *)
Since(i) == {attested[j] : j \in i + 1..Len(attested)}

(* MaxPending nonces, all different, are that many. *)
LEMMA SinceIsMany ==
  ASSUME NEW T \in SUBSET Nonces, NEW s \in Seq(Nonces), Len(s) = MaxPending,
         \A k \in 1..Len(s) : s[k] \in T,
         \A k, l \in 1..Len(s) : s[k] = s[l] => k = l
  PROVE  Cardinality(T) >= MaxPending
<1> DEFINE f == [k \in 1..MaxPending |-> s[k]]
<1>1. MaxPending \in Nat /\ MaxNonces \in Nat
  BY ProvisionConstants
<1>2. IsFiniteSet(T) /\ Cardinality(T) \in Nat
  <2>1. IsFiniteSet(1..MaxNonces)
    BY <1>1, FS_Interval
  <2>2. IsFiniteSet(T)
    BY <2>1, FS_Subset DEF Nonces
  <2> QED BY <2>2, FS_CardinalityType
<1>3. f \in Injection(1..MaxPending, T)
  <2>1. f \in [1..MaxPending -> T] /\ \A k, l \in 1..MaxPending : f[k] = f[l] => k = l
    OBVIOUS
  <2> HIDE DEF f
  <2> QED BY <2>1 DEF Injection, IsInjective
<1>4. Cardinality(1..MaxPending) = MaxPending
  BY <1>1, FS_Interval
<1>5. Cardinality(1..MaxPending) <= Cardinality(T)
  BY <1>2, <1>3, FS_Injection
<1> QED BY <1>1, <1>2, <1>4, <1>5

(* An attestation is answered, and its nonce remembered. *)
LEMMA AttestKeeps ==
  ASSUME ProvisionInv, NEW h \in handlers, Attest(h)
  PROVE  ProvisionInv'
<1>1. ProvisionTypeOK /\ NoncesDrawn /\ AttestedOnce /\ PushedOnce /\ SpentOnce /\ StoreKept
      /\ PendingInOrder /\ EvictedInOrder
  BY DEF ProvisionInv
<1> DEFINE n == h.nonce
           answer == [path |-> "attest", nonce |-> n, key |-> boot]
<1>2. /\ h.path = "attest" /\ handlers' = handlers \ {h}
      /\ pending' = Remember(pending, n) /\ attested' = Append(attested, n)
      /\ UNCHANGED <<owner, op, session, requests, boot, store, serving, spent, accepted>>
  BY DEF Attest
<1>3. /\ n \in Nonces /\ h = [path |-> h.path, nonce |-> h.nonce, key |-> h.key]
      /\ \A g \in handlers : g = [path |-> g.path, nonce |-> g.nonce, key |-> g.key]
  <2>1. h \in requests \cup replies \cup handlers
    OBVIOUS
  <2> QED BY <1>1, <2>1, TypedRequests
<1>4. replies' = replies \cup {answer}
  BY DEF Attest, ReportDataFor
<1>5. /\ boot \in Boots /\ boot \in Nat /\ answer.path = "attest" /\ answer.nonce = n /\ answer.key = boot
      /\ answer \in [path : {"attest"}, nonce : Nonces, key : Boots]
  BY <1>1, <1>3, ProvisionConstants DEF ProvisionTypeOK
<1>6. /\ attested \in Seq(Nonces) /\ DOMAIN attested = 1..Len(attested) /\ Len(attested) \in Nat
      /\ pending \in Seq(Nonces) /\ DOMAIN pending = 1..Len(pending) /\ Len(pending) \in Nat
      /\ Len(pending) <= MaxPending
      /\ DOMAIN spent = 1..Len(spent) /\ DOMAIN accepted = 1..Len(accepted)
  BY BootsNonces
<1>7. ~Contains(attested, n) /\ n <= Len(owner) /\ h.key = 0
      /\ \A r \in requests : r.path = "attest" => r.nonce # n
  BY <1>1, <1>2 DEF AttestedOnce, NoncesDrawn
<1>8. \A g \in handlers' : g.path = "attest" => g.nonce # n
  <2>1. \A g \in handlers : g.path = "attest" => g.key = 0
    BY <1>1 DEF AttestedOnce
  <2> QED BY <1>2, <1>3, <1>7, <2>1
<1> HIDE DEF n, answer
<1>9. /\ attested' \in Seq(Nonces) /\ DOMAIN attested' = 1..Len(attested) + 1
      /\ Len(attested') = Len(attested) + 1 /\ attested'[Len(attested) + 1] = n
      /\ \A i \in 1..Len(attested) : attested'[i] = attested[i]
      /\ \A m : Contains(attested', m) <=> Contains(attested, m) \/ m = n
  BY <1>2, <1>3, <1>6, Appended
<1>10. \A i \in DOMAIN attested' : i \in 1..Len(attested) \/ i = Len(attested) + 1
  BY <1>6, <1>9
<1>11. \A i \in 1..Len(attested) : attested[i] # n
  BY <1>7 DEF Contains
<1>12. PICK d \in {0, 1} :
         /\ d = 1 => Len(pending) = MaxPending
         /\ Len(pending') = Len(pending) + 1 - d /\ Len(pending') <= MaxPending
         /\ \A k \in 1..Len(pending) - d : pending'[k] = pending[k + d]
         /\ pending'[Len(pending) + 1 - d] = n
  BY <1>2, <1>3, <1>6, Remembered
<1>13. pending' \in Seq(Nonces) /\ DOMAIN pending' = 1..Len(pending')
  <2>1. pending' \in Seq(Nonces)
    BY <1>2, <1>3, <1>6, Remembered
  <2> QED BY <2>1
<1>14. ProvisionTypeOK'
  <2>1. replies' \subseteq Pushes \cup [path : {"attest"}, nonce : Nonces, key : Boots]
    BY <1>1, <1>4, <1>5 DEF ProvisionTypeOK
  <2> QED BY <1>1, <1>2, <1>9, <1>12, <1>13, <2>1 DEF ProvisionTypeOK
<1>15. NoncesDrawn'
  <2>1. \A i \in DOMAIN attested' : attested'[i] <= Len(owner')
    BY <1>1, <1>2, <1>6, <1>7, <1>9, <1>10 DEF NoncesDrawn
  <2>2. \A r \in (requests \cup replies \cup handlers)' : r.nonce <= Len(owner')
    BY <1>1, <1>2, <1>4, <1>5, <1>7 DEF NoncesDrawn
  <2> QED BY <1>1, <1>2, <2>1, <2>2 DEF NoncesDrawn
<1>16. AttestedOnce'
  <2>1. \A r \in requests' : r.path = "attest" =>
          /\ ~Contains(attested', r.nonce)
          /\ \A g \in handlers' : g.path = "attest" => g.nonce # r.nonce
    BY <1>1, <1>2, <1>7, <1>9 DEF AttestedOnce
  <2>2. \A g \in handlers' : g.path = "attest" => g.key = 0 /\ ~Contains(attested', g.nonce)
    BY <1>1, <1>2, <1>8, <1>9 DEF AttestedOnce
  <2>3. \A i, j \in DOMAIN attested' : attested'[i] = attested'[j] => i = j
    BY <1>1, <1>6, <1>9, <1>10, <1>11 DEF AttestedOnce
  <2> QED BY <2>1, <2>2, <2>3 DEF AttestedOnce
<1>17. ~Contains(spent, n)
  BY <1>7, BootsNonces
<1>18. \A k \in DOMAIN pending' : \/ k \in 1..Len(pending) - d /\ k + d \in 1..Len(pending) /\ pending'[k] = pending[k + d]
                                  \/ k = Len(pending) + 1 - d /\ pending'[k] = n
  <2> TAKE k \in DOMAIN pending'
  <2>1. k \in 1..Len(pending) + 1 - d /\ d \in Nat /\ Len(pending) \in Nat
    BY <1>6, <1>12, <1>13
  <2>2. k = Len(pending) + 1 - d \/ (k \in 1..Len(pending) - d /\ k + d \in 1..Len(pending))
    BY <2>1
  <2> QED BY <1>12, <2>2
<1>19. PendingInOrder'
  <2>1. ASSUME NEW k \in DOMAIN pending'
        PROVE  Contains(attested', pending'[k]) /\ ~Contains(spent', pending'[k])
    <3>1. CASE k + d \in 1..Len(pending) /\ pending'[k] = pending[k + d]
      BY <1>1, <1>2, <1>6, <1>9, <3>1 DEF PendingInOrder
    <3>2. CASE pending'[k] = n
      BY <1>2, <1>9, <1>17, <3>2
    <3> QED BY <1>18, <3>1, <3>2
  <2>2. ASSUME NEW k \in DOMAIN pending', NEW l \in DOMAIN pending',
               NEW i \in DOMAIN attested', NEW j \in DOMAIN attested',
               k < l, attested'[i] = pending'[k], attested'[j] = pending'[l]
        PROVE  i < j
    <3>1. k \in Nat /\ l \in Nat /\ i \in Nat /\ j \in Nat /\ Len(pending) \in Nat
      BY <1>6, <1>9, <1>13
    <3>2. k \in 1..Len(pending) - d /\ k + d \in 1..Len(pending) /\ pending'[k] = pending[k + d]
      <4>1. k # Len(pending) + 1 - d
        BY <1>12, <1>13, <2>2, <3>1
      <4> QED BY <1>18, <4>1
    <3>3. pending[k + d] # n /\ i # Len(attested) + 1 /\ i \in 1..Len(attested) /\ attested[i] = pending[k + d]
      <4>1. Contains(attested, pending[k + d])
        BY <1>1, <1>6, <3>2 DEF PendingInOrder
      <4>2. pending[k + d] # n
        BY <1>7, <4>1
      <4> QED BY <1>9, <1>10, <2>2, <3>2, <4>2
    <3>4. CASE l = Len(pending) + 1 - d /\ pending'[l] = n
      <4>1. j = Len(attested) + 1
        BY <1>9, <1>10, <1>11, <2>2, <3>4
      <4> QED BY <1>6, <3>3, <4>1
    <3>5. CASE l + d \in 1..Len(pending) /\ pending'[l] = pending[l + d]
      <4>1. Contains(attested, pending[l + d])
        BY <1>1, <1>6, <3>5 DEF PendingInOrder
      <4>2. pending[l + d] # n
        BY <1>7, <4>1
      <4>3. j \in 1..Len(attested) /\ attested[j] = pending[l + d]
        BY <1>9, <1>10, <2>2, <3>5, <4>2
      <4>4. k + d < l + d
        BY <2>2, <3>1
      <4> QED BY <1>1, <1>6, <3>2, <3>3, <3>5, <4>3, <4>4 DEF PendingInOrder
    <3> QED BY <1>18, <3>4, <3>5
  <2> QED BY <2>1, <2>2 DEF PendingInOrder
<1>24. ASSUME NEW k \in 1..Len(pending'), NEW l \in 1..Len(pending'), pending'[k] = pending'[l]
       PROVE  k = l
  <2>1. PICK i \in 1..Len(attested') : attested'[i] = pending'[k]
    BY <1>13, <1>19 DEF PendingInOrder, Contains
  <2>2. i \in DOMAIN attested' /\ k \in DOMAIN pending' /\ l \in DOMAIN pending'
    BY <1>9, <1>13
  <2>3. ~ (i < i) /\ k \in Int /\ l \in Int
    BY <1>9
  <2>4. ~ (k < l) /\ ~ (l < k)
    BY <1>19, <1>24, <2>1, <2>2, <2>3 DEF PendingInOrder
  <2> QED BY <2>3, <2>4
<1>20. SpentOnce'
  BY <1>1, <1>2, <1>9 DEF SpentOnce
<1>21. PushedOnce'
  <2>1. \A q \in (requests \cup replies)' : q.key <= boot'
    BY <1>1, <1>2, <1>4, <1>5 DEF PushedOnce
  <2>2. \A q \in replies' : q.path = "push" =>
          q \in requests' /\ (q.key = boot' => Contains(accepted', q.nonce))
    BY <1>1, <1>2, <1>4, <1>5 DEF PushedOnce
  <2>3. replies \subseteq replies' /\ \A r : r.path = "push" => (r \in requests' <=> r \in requests)
    BY <1>2, <1>4
  <2>4. /\ \A r, q \in requests' : r.path = "push" /\ q.path = "push" /\ r.nonce = q.nonce => r.key = q.key
        /\ \A g \in handlers' : g.path \in {"push", "accept"} => Seal(g.nonce, g.key) \in requests'
        /\ \A i \in DOMAIN accepted' : Seal(accepted'[i], boot') \in requests'
    BY <1>1, <1>2 DEF PushedOnce
  <2>5. \A o \in Operators :
          /\ op'[o].at = "asked" => \A r \in requests' : r.path = "push" => r.nonce # op'[o].nonce
          /\ op'[o].at \in {"pushed", "told"} => Seal(op'[o].nonce, op'[o].key) \in requests'
          /\ op'[o].at = "told" => Seal(op'[o].nonce, op'[o].key) \in replies'
          /\ session'[o] # Nobody => \E k \in Boots : Seal(session'[o], k) \in replies'
    BY <1>2, <2>3, AttemptsStay
  <2> QED BY <2>1, <2>2, <2>4, <2>5 DEF PushedOnce
<1>22. StoreKept'
  BY <1>1, <1>2 DEF StoreKept, Ready, Pushed
<1>23. EvictedInOrder'
  <2>1. ASSUME NEW i \in 1..Len(attested)
        PROVE  Since(i)' \subseteq Nonces /\ Since(i) \subseteq Since(i)' /\ IsFiniteSet(Since(i)')
    <3>1. ASSUME NEW j \in i + 1..Len(attested') PROVE attested'[j] \in Nonces
      BY <1>6, <1>9
    <3>2. Since(i)' \subseteq Nonces
      BY <3>1 DEF Since
    <3>3. \A j \in i + 1..Len(attested) : j \in i + 1..Len(attested') /\ attested'[j] = attested[j]
      BY <1>6, <1>9
    <3>4. Since(i) \subseteq Since(i)'
      BY <3>3 DEF Since
    <3>5. IsFiniteSet(Nonces)
      BY ProvisionConstants, FS_Interval DEF Nonces
    <3> QED BY <3>2, <3>4, <3>5, FS_Subset
  <2>2. ASSUME NEW i \in 1..Len(attested)
        PROVE  \/ Contains(spent, attested[i]) \/ Contains(pending', attested[i])
               \/ Cardinality(Since(i)') >= MaxPending
    <3>1. CASE Contains(spent, attested[i])
      BY <3>1
    <3>2. CASE Contains(pending, attested[i])
      <4>1. PICK k \in 1..Len(pending) : pending[k] = attested[i]
        BY <3>2 DEF Contains
      <4>2. CASE k > d
        <5>1. k - d \in 1..Len(pending) - d /\ (k - d) + d = k /\ k - d \in 1..Len(pending')
          BY <1>6, <1>12, <4>2
        <5>2. pending'[k - d] = attested[i]
          BY <1>12, <4>1, <5>1
        <5> QED BY <5>1, <5>2 DEF Contains
      <4>3. CASE ~ (k > d)
        <5>1. d = 1 /\ k = 1 /\ Len(pending) = MaxPending /\ Len(pending') = MaxPending
          BY <1>6, <1>12, <4>3
        <5>2. ASSUME NEW l \in 1..Len(pending') PROVE pending'[l] \in Since(i)'
          <6>1. CASE pending'[l] = n
            <7>1. Len(attested) + 1 \in i + 1..Len(attested')
              BY <1>6, <1>9
            <7> QED BY <1>9, <6>1, <7>1 DEF Since
          <6>2. CASE l \in 1..Len(pending) - d /\ l + d \in 1..Len(pending) /\ pending'[l] = pending[l + d]
            <7>1. Contains(attested, pending[l + d])
              BY <1>1, <1>6, <6>2 DEF PendingInOrder
            <7>2. PICK j \in 1..Len(attested) : attested[j] = pending[l + d]
              BY <7>1 DEF Contains
            <7>3. 1 < l + d
              BY <1>6, <5>1, <6>2
            <7>4. i < j
              BY <1>1, <1>6, <4>1, <5>1, <6>2, <7>2, <7>3 DEF PendingInOrder
            <7>5. j \in i + 1..Len(attested') /\ attested'[j] = pending'[l]
              BY <1>6, <1>9, <6>2, <7>2, <7>4
            <7> QED BY <7>5 DEF Since
          <6> QED BY <1>13, <1>18, <6>1, <6>2
        <5>3. \A l, m \in 1..Len(pending') : pending'[l] = pending'[m] => l = m
          BY <1>24
        <5>4. Cardinality(Since(i)') >= MaxPending
          BY <1>13, <2>1, <5>1, <5>2, <5>3, SinceIsMany
        <5> QED BY <5>4
      <4> QED BY <4>2, <4>3
    <3>3. CASE Cardinality(Since(i)) >= MaxPending
      <4>1. Cardinality(Since(i)) <= Cardinality(Since(i)') /\ Cardinality(Since(i)') \in Nat
        BY <2>1, FS_Subset, FS_CardinalityType
      <4>2. Cardinality(Since(i)) \in Nat
        BY <2>1, FS_Subset, FS_CardinalityType
      <4> QED BY <3>3, <4>1, <4>2, ProvisionConstants
    <3> QED BY <1>1, <1>6, <3>1, <3>2, <3>3 DEF EvictedInOrder, Since
  <2>3. Contains(pending', n)
    <3>1. Len(pending) + 1 - d \in 1..Len(pending')
      <4>1. MaxPending \in Nat \ {0} /\ Len(pending) \in Nat
        BY <1>6, ProvisionConstants
      <4>2. CASE d = 0
        BY <1>12, <4>1, <4>2
      <4>3. CASE d = 1
        BY <1>12, <4>1, <4>3
      <4> QED BY <4>2, <4>3
    <3> QED BY <1>12, <3>1 DEF Contains
  <2>4. ASSUME NEW i \in DOMAIN attested'
        PROVE  \/ Contains(spent', attested'[i]) \/ Contains(pending', attested'[i])
               \/ Cardinality(Since(i)') >= MaxPending
    <3>1. CASE i \in 1..Len(attested)
      BY <1>2, <1>9, <2>2, <3>1
    <3>2. CASE i = Len(attested) + 1
      BY <1>9, <2>3, <3>2
    <3> QED BY <1>10, <3>1, <3>2
  <2> QED BY <2>4 DEF EvictedInOrder, Since
<1> QED BY <1>14, <1>15, <1>16, <1>19, <1>20, <1>21, <1>22, <1>23 DEF ProvisionInv

(* A push spends its nonce, if it was attested and neither spent nor dropped. *)
LEMMA SpendKeeps ==
  ASSUME ProvisionInv, NEW h \in handlers, Spend(h)
  PROVE  ProvisionInv'
<1>1. ProvisionTypeOK /\ NoncesDrawn /\ AttestedOnce /\ PushedOnce /\ SpentOnce /\ StoreKept
      /\ PendingInOrder /\ EvictedInOrder
  BY DEF ProvisionInv
<1> DEFINE n == h.nonce
           taken == [path |-> "accept", nonce |-> n, key |-> boot]
<1>2. /\ h.path = "push"
      /\ UNCHANGED <<owner, op, session, requests, replies, boot, store, serving, attested, accepted>>
  BY DEF Spend
<1>3. n \in Nonces /\ h = [path |-> h.path, nonce |-> h.nonce, key |-> h.key]
  <2>1. h \in requests \cup replies \cup handlers
    OBVIOUS
  <2> QED BY <1>1, <2>1, TypedRequests
<1>4. h.key = boot => [h EXCEPT !.path = "accept"] = taken
  BY <1>3
<1>5. /\ attested \in Seq(Nonces) /\ DOMAIN attested = 1..Len(attested) /\ Len(attested) \in Nat
      /\ pending \in Seq(Nonces) /\ DOMAIN pending = 1..Len(pending) /\ Len(pending) \in Nat
      /\ Len(pending) <= MaxPending
      /\ spent \in Seq(Nonces) /\ DOMAIN spent = 1..Len(spent) /\ Len(spent) \in Nat
      /\ DOMAIN accepted = 1..Len(accepted)
  BY BootsNonces
<1>6. \/ /\ ~Contains(pending, n) /\ UNCHANGED <<pending, spent>> /\ handlers' \subseteq handlers
      \/ /\ \E i \in DOMAIN pending : pending[i] = n /\ pending' = RemoveAt(pending, i)
         /\ spent' = Append(spent, n) /\ h.key = boot
         /\ handlers' \subseteq handlers \cup {taken}
      \/ /\ \E i \in DOMAIN pending : pending[i] = n /\ pending' = RemoveAt(pending, i)
         /\ spent' = Append(spent, n) /\ handlers' \subseteq handlers
  BY <1>4 DEF Spend, Unseals
<1>7. /\ taken.path = "accept" /\ taken.nonce = n /\ taken.key = boot
      /\ taken \in [path : {"attest", "push", "accept"}, nonce : Nonces, key : Boots \cup {0}]
  BY <1>1, <1>3 DEF ProvisionTypeOK
<1>8. n <= Len(owner) /\ Seal(n, h.key) \in requests
  BY <1>1, <1>2 DEF NoncesDrawn, PushedOnce
<1> HIDE DEF n, taken
<1>9. CASE ~Contains(pending, n) /\ UNCHANGED <<pending, spent>> /\ handlers' \subseteq handlers
  <2>1. ProvisionTypeOK'
    BY <1>1, <1>2, <1>9 DEF ProvisionTypeOK
  <2>2. NoncesDrawn' /\ AttestedOnce'
    BY <1>1, <1>2, <1>9 DEF NoncesDrawn, AttestedOnce
  <2>3. PendingInOrder' /\ SpentOnce' /\ EvictedInOrder'
    BY <1>1, <1>2, <1>9 DEF PendingInOrder, SpentOnce, EvictedInOrder
  <2>4. PushedOnce'
    BY <1>1, <1>2, <1>9 DEF PushedOnce
  <2>5. StoreKept'
    BY <1>1, <1>2, <1>9 DEF StoreKept, Ready, Pushed
  <2> QED BY <2>1, <2>2, <2>3, <2>4, <2>5 DEF ProvisionInv
<1>10. CASE /\ \E i \in DOMAIN pending : pending[i] = n /\ pending' = RemoveAt(pending, i)
            /\ spent' = Append(spent, n) /\ handlers' \subseteq handlers \cup {taken}
            /\ taken \in handlers' => taken \in handlers \/ h.key = boot
  <2>1. PICK i \in 1..Len(pending) : pending[i] = n /\ pending' = RemoveAt(pending, i)
    BY <1>5, <1>10
  <2>2. /\ pending' \in Seq(Nonces) /\ Len(pending') = Len(pending) - 1
        /\ DOMAIN pending' = 1..Len(pending')
        /\ \A k \in 1..Len(pending) - 1 : pending'[k] = IF k < i THEN pending[k] ELSE pending[k + 1]
    <3>1. i \in DOMAIN pending
      BY <1>5
    <3>2. /\ RemoveAt(pending, i) \in Seq(Nonces) /\ Len(RemoveAt(pending, i)) = Len(pending) - 1
          /\ \A k \in 1..Len(pending) - 1 :
               RemoveAt(pending, i)[k] = IF k < i THEN pending[k] ELSE pending[k + 1]
      BY <1>5, <3>1, Removed
    <3> QED BY <2>1, <3>2
  <2>3. /\ spent' \in Seq(Nonces) /\ DOMAIN spent' = 1..Len(spent) + 1
        /\ spent'[Len(spent) + 1] = n /\ \A k \in 1..Len(spent) : spent'[k] = spent[k]
        /\ \A m : Contains(spent', m) <=> Contains(spent, m) \/ m = n
    BY <1>3, <1>5, <1>10, Appended
  <2>4. Contains(attested, n) /\ ~Contains(spent, n)
    BY <1>1, <1>5, <2>1 DEF PendingInOrder
  <2>5. \A k \in DOMAIN pending' : \E l \in 1..Len(pending) :
          /\ l # i /\ pending'[k] = pending[l] /\ (l = k \/ l = k + 1)
          /\ l = k => k < i
          /\ l = k + 1 => k >= i
    <3> TAKE k \in DOMAIN pending'
    <3>1. k \in 1..Len(pending) - 1 /\ k \in 1..Len(pending) /\ k + 1 \in 1..Len(pending) /\ k \in Nat /\ i \in Nat
      BY <1>5, <2>2
    <3>2. CASE k < i
      <4>1. k # i /\ pending'[k] = pending[k] /\ k # k + 1
        BY <2>2, <3>1, <3>2
      <4> QED BY <3>1, <3>2, <4>1
    <3>3. CASE ~ (k < i)
      <4>1. k + 1 # i /\ pending'[k] = pending[k + 1] /\ k # k + 1 /\ k >= i
        BY <2>2, <3>1, <3>3
      <4> QED BY <3>1, <4>1
    <3> QED BY <3>2, <3>3
  <2>6. ProvisionTypeOK'
    <3>1. Len(pending') <= MaxPending
      BY <1>5, <2>2, ProvisionConstants
    <3>2. handlers' \subseteq [path : {"attest", "push", "accept"}, nonce : Nonces, key : Boots \cup {0}]
      BY <1>1, <1>7, <1>10 DEF ProvisionTypeOK
    <3> QED BY <1>1, <1>2, <2>2, <2>3, <3>1, <3>2 DEF ProvisionTypeOK
  <2>7. NoncesDrawn'
    BY <1>1, <1>2, <1>7, <1>8, <1>10 DEF NoncesDrawn
  <2>8. AttestedOnce'
    BY <1>1, <1>2, <1>7, <1>10 DEF AttestedOnce
  <2>9. PendingInOrder'
    <3>1. ASSUME NEW k \in DOMAIN pending'
          PROVE  Contains(attested', pending'[k]) /\ ~Contains(spent', pending'[k])
      <4>1. PICK l \in 1..Len(pending) : l # i /\ pending'[k] = pending[l]
        BY <2>5
      <4>2. pending[l] # n
        BY <2>1, <4>1, BootsNonces
      <4> QED BY <1>1, <1>2, <1>5, <2>3, <4>1, <4>2 DEF PendingInOrder
    <3>2. ASSUME NEW k \in DOMAIN pending', NEW l \in DOMAIN pending',
                 NEW a \in DOMAIN attested', NEW b \in DOMAIN attested',
                 k < l, attested'[a] = pending'[k], attested'[b] = pending'[l]
          PROVE  a < b
      <4>1. PICK x \in 1..Len(pending) :
              /\ pending'[k] = pending[x] /\ (x = k \/ x = k + 1)
              /\ x = k + 1 => k >= i
        BY <2>5
      <4>2. PICK y \in 1..Len(pending) :
              /\ pending'[l] = pending[y] /\ (y = l \/ y = l + 1)
              /\ y = l => l < i
        BY <2>5
      <4>3. k \in Nat /\ l \in Nat /\ i \in Nat
        BY <1>5, <2>2
      <4>4. x < y
        BY <3>2, <4>1, <4>2, <4>3
      <4> QED BY <1>1, <1>2, <1>5, <3>2, <4>1, <4>2, <4>4 DEF PendingInOrder
    <3> QED BY <3>1, <3>2 DEF PendingInOrder
  <2>10. SpentOnce'
    <3>1. \A k \in DOMAIN spent' : k \in 1..Len(spent) \/ k = Len(spent) + 1
      BY <1>5, <2>3
    <3>2. \A k \in DOMAIN spent' : Contains(attested', spent'[k])
      BY <1>1, <1>2, <1>5, <2>3, <2>4, <3>1 DEF SpentOnce
    <3>3. ~Contains(accepted, n)
      BY <2>4, BootsNonces
    <3>4. \A g \in handlers' : g.path = "accept" =>
            g.key = boot' /\ Contains(spent', g.nonce) /\ ~Contains(accepted', g.nonce)
      BY <1>1, <1>2, <1>7, <1>10, <2>3, <3>3 DEF SpentOnce
    <3>5. \A k \in DOMAIN accepted' : Contains(spent', accepted'[k])
      BY <1>1, <1>2, <2>3 DEF SpentOnce
    <3>6. \A j, k \in DOMAIN accepted' : accepted'[j] = accepted'[k] => j = k
      BY <1>1, <1>2 DEF SpentOnce
    <3> QED BY <3>2, <3>4, <3>5, <3>6 DEF SpentOnce
  <2>11. PushedOnce'
    <3>1. \A g \in handlers' : g.path \in {"push", "accept"} => Seal(g.nonce, g.key) \in requests'
      <4>1. ASSUME NEW g \in handlers', g.path \in {"push", "accept"} PROVE Seal(g.nonce, g.key) \in requests
        <5>1. CASE g \in handlers
          BY <1>1, <4>1, <5>1 DEF PushedOnce
        <5>2. CASE g \notin handlers
          <6>1. g = taken /\ h.key = boot
            BY <1>10, <4>1, <5>2
          <6> QED BY <1>7, <1>8, <6>1
        <5> QED BY <5>1, <5>2
      <4> QED BY <1>2, <4>1
    <3> QED BY <1>1, <1>2, <3>1 DEF PushedOnce
  <2>12. StoreKept'
    BY <1>1, <1>2 DEF StoreKept, Ready, Pushed
  <2>13. EvictedInOrder'
    <3>1. ASSUME NEW m, Contains(pending, m) PROVE Contains(spent', m) \/ Contains(pending', m)
      <4>1. PICK k \in 1..Len(pending) : pending[k] = m
        BY <3>1 DEF Contains
      <4>2. CASE k = i
        BY <2>1, <2>3, <4>1, <4>2
      <4>3. CASE k < i
        <5>1. k \in 1..Len(pending) - 1 /\ k \in 1..Len(pending')
          BY <1>5, <2>2, <4>3
        <5> QED BY <2>2, <4>1, <4>3, <5>1 DEF Contains
      <4>4. CASE k > i
        <5>1. /\ k - 1 \in 1..Len(pending) - 1 /\ k - 1 \in 1..Len(pending')
              /\ ~ (k - 1 < i) /\ (k - 1) + 1 = k
          BY <1>5, <2>2, <4>4
        <5>2. pending'[k - 1] = m
          BY <2>2, <4>1, <5>1
        <5> QED BY <5>1, <5>2 DEF Contains
      <4> QED BY <4>2, <4>3, <4>4
    <3>2. \A m : Contains(spent, m) => Contains(spent', m)
      BY <2>3
    <3> QED BY <1>1, <1>2, <3>1, <3>2 DEF EvictedInOrder
  <2> QED BY <2>6, <2>7, <2>8, <2>9, <2>10, <2>11, <2>12, <2>13 DEF ProvisionInv
<1> QED BY <1>6, <1>9, <1>10

(* Every step keeps the invariant. *)
LEMMA ProvisionStep == ProvisionInv /\ [ProvisionNext]_provisionVars => ProvisionInv'
<1> SUFFICES ASSUME ProvisionInv, [ProvisionNext]_provisionVars PROVE ProvisionInv'
  OBVIOUS
<1>1. CASE UNCHANGED provisionVars
  <2>1. UNCHANGED <<owner, op, session, requests, replies, boot, handlers, pending, store, serving,
                    attested, spent, accepted>>
    BY <1>1 DEF provisionVars, tdVars
  <2>2. ProvisionTypeOK' /\ NoncesDrawn' /\ AttestedOnce'
    BY <2>1 DEF ProvisionInv, ProvisionTypeOK, NoncesDrawn, AttestedOnce
  <2>3. PendingInOrder' /\ SpentOnce' /\ EvictedInOrder'
    BY <2>1 DEF ProvisionInv, PendingInOrder, SpentOnce, EvictedInOrder
  <2>4. PushedOnce' /\ StoreKept'
    BY <2>1 DEF ProvisionInv, PushedOnce, StoreKept, Ready, Pushed
  <2> QED BY <2>2, <2>3, <2>4 DEF ProvisionInv
<1>2. CASE \E o \in Operators : Challenge(o) \/ Inspect(o) \/ SealAndPush(o) \/ Told(o) \/ SaveSession(o) \/ Abandon(o)
  BY <1>2, DrawKeeps, SealKeeps, AttemptMoves
<1>3. CASE \E r \in requests : Arrive(r)
  BY <1>3, ArriveKeeps
<1>4. CASE \E h \in handlers : Attest(h) \/ Spend(h) \/ Accept(h)
  BY <1>4, AttestKeeps, SpendKeeps, AcceptKeeps
<1>5. CASE Serve \/ Reboot
  BY <1>5, ServeKeeps, RebootKeeps
<1> QED BY <1>1, <1>2, <1>3, <1>4, <1>5 DEF ProvisionNext

(* An operator with a key of this boot has the one that was accepted. *)
LEMMA ToldHold == ProvisionInv => TheToldHoldTheKey
<1> SUFFICES ASSUME ProvisionInv, NEW o \in Operators, NEW n \in KeyOf(o),
                    Seal(n, boot) \in requests, Payload[o] # "empty"
             PROVE  store = [values |-> n, session |-> n]
  BY DEF TheToldHoldTheKey, Seal
<1>1. ProvisionTypeOK /\ PushedOnce /\ StoreKept
  BY DEF ProvisionInv
<1>2. AttemptOf(o)
  BY Attempts
<1>3. \A m, k : Seal(m, k).path = "push" /\ Seal(m, k).nonce = m /\ Seal(m, k).key = k
  BY DEF Seal
<1>4. n \in Nonces
  <2>1. Seal(n, boot) \in requests \cup replies \cup handlers
    OBVIOUS
  <2> QED BY <1>1, <1>3, <2>1, TypedRequests
<1>5. (session[o] = n /\ n # Nobody) \/ (op[o].at = "told" /\ op[o].nonce = n)
  BY <1>4, ProvisionConstants DEF KeyOf
<1>6. owner[n] = o
  BY <1>2, <1>5 DEF AttemptOf
<1>7. \E k \in Boots : Seal(n, k) \in replies
  <2>1. CASE session[o] = n /\ n # Nobody
    BY <1>2, <2>1 DEF AttemptOf
  <2>2. CASE op[o].at = "told" /\ op[o].nonce = n
    <3>1. Seal(n, op[o].key) \in replies
      BY <1>2, <2>2 DEF AttemptOf
    <3>2. op[o].key \in Boots
      <4>1. Seal(n, op[o].key) \in requests \cup replies
        BY <3>1
      <4> QED BY <1>1, <1>3, <4>1, TypedRequests
    <3> QED BY <3>1, <3>2
  <2> QED BY <1>5, <2>1, <2>2
<1>8. PICK k \in Boots : Seal(n, k) \in replies
  BY <1>7
<1>9. Seal(n, k) \in requests
  BY <1>1, <1>3, <1>8 DEF PushedOnce
<1>10. k = boot
  BY <1>1, <1>3, <1>9 DEF PushedOnce
<1>11. Contains(accepted, n)
  BY <1>1, <1>3, <1>8, <1>10 DEF PushedOnce
<1>12. DOMAIN accepted = 1..Len(accepted)
  BY BootsNonces
<1>13. PICK i \in DOMAIN accepted : accepted[i] = n
  BY <1>11, <1>12 DEF Contains
<1>14. Pushed(accepted[i]) # "empty"
  BY <1>6, <1>13 DEF Pushed
<1> QED BY <1>1, <1>13, <1>14 DEF StoreKept

(* A nonce is accepted at most once, and then it was attested. *)
LEMMA AcceptedOnce == ProvisionInv => AcceptedAsAttested
<1> SUFFICES ASSUME ProvisionInv, NEW n \in Nonces PROVE Times(accepted, n) <= Times(attested, n)
  BY DEF AcceptedAsAttested
<1> DEFINE A == {i \in DOMAIN accepted : accepted[i] = n}
           T == {i \in DOMAIN attested : attested[i] = n}
<1>1. /\ DOMAIN attested = 1..Len(attested) /\ Len(attested) \in Nat
      /\ DOMAIN accepted = 1..Len(accepted)
      /\ \A m : Contains(accepted, m) => Contains(attested, m)
  BY BootsNonces
<1>2. \A i, j \in DOMAIN accepted : accepted[i] = accepted[j] => i = j
  BY DEF ProvisionInv, SpentOnce
<1>3. IsFiniteSet(T) /\ Cardinality(T) \in Nat
  <2>1. IsFiniteSet(1..Len(attested))
    BY <1>1, FS_Interval
  <2>2. T \in SUBSET (1..Len(attested))
    BY <1>1
  <2> HIDE DEF T
  <2>3. IsFiniteSet(T)
    BY <2>1, <2>2, FS_Subset
  <2> QED BY <2>3, FS_CardinalityType
<1>4. CASE A = {}
  <2>1. Cardinality(A) = 0
    BY <1>4, FS_EmptySet
  <2> HIDE DEF A, T
  <2>2. Cardinality(A) <= Cardinality(T)
    BY <1>3, <2>1
  <2> QED BY <2>2 DEF Times, A, T
<1>5. CASE A # {}
  <2>1. PICK i \in DOMAIN accepted : accepted[i] = n
    BY <1>5
  <2>2. A = {i}
    BY <1>2, <2>1
  <2>3. Contains(accepted, n)
    BY <1>1, <2>1 DEF Contains
  <2>4. PICK j \in DOMAIN attested : attested[j] = n
    BY <1>1, <2>3 DEF Contains
  <2>5. {j} \in SUBSET T
    BY <2>4
  <2> HIDE DEF A, T
  <2>6. Cardinality(A) = 1 /\ Cardinality({j}) = 1
    BY <2>2, FS_Singleton
  <2>7. Cardinality({j}) <= Cardinality(T)
    BY <1>3, <2>5, FS_Subset
  <2>8. Cardinality(A) <= Cardinality(T)
    BY <2>6, <2>7
  <2> QED BY <2>8 DEF Times, A, T
<1> QED BY <1>4, <1>5

(* The miner serves what was accepted, attested and pushed in this boot. *)
LEMMA ServedHere == ProvisionInv => ServesThisBoot
<1> SUFFICES ASSUME ProvisionInv, serving # Nobody PROVE ServesThisBoot
  BY DEF ServesThisBoot
<1>1. PushedOnce /\ StoreKept
  BY DEF ProvisionInv
<1>2. Contains(accepted, serving)
  BY <1>1 DEF StoreKept, Ready
<1>3. Contains(attested, serving) /\ DOMAIN accepted = 1..Len(accepted)
  BY <1>2, BootsNonces
<1>4. Seal(serving, boot) \in requests
  BY <1>1, <1>2, <1>3 DEF PushedOnce, Contains
<1> QED BY <1>2, <1>3, <1>4 DEF ServesThisBoot, Seal

(* Whatever operators push, however often their requests are delivered and
   their answers lost, and whenever the TD is booted again: who was told its
   push was taken holds the only key to the logs of that boot, a nonce is
   accepted at most once and only when attested, one is dropped only for
   MaxPending later ones, and the miner serves a head of its own boot. *)
THEOREM ProvisionAlwaysSafe == ProvisionSpec => []ProvisionSafety
<1>1. ProvisionInv => ProvisionSafety
  <2>1. ProvisionInv => ProvisionTypeOK /\ EvictedInOrder
    BY DEF ProvisionInv
  <2> QED BY <2>1, ToldHold, AcceptedOnce, ServedHere DEF ProvisionSafety
<1> QED BY <1>1, ProvisionInitially, ProvisionStep, PTL DEF ProvisionSpec

=============================================================================
