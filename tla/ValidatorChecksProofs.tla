--------------------------- MODULE ValidatorChecksProofs ---------------------------
(***************************************************************************)
(* Proofs about what a validator checks.  PinnedReads: for any number of   *)
(* validators, any field and any blocks of an epoch; NodeStartup: any pool *)
(* and benches; CertChain: any certificates carried; ProofVerification: any *)
(* number of responses and any budget of at least one tick a response;     *)
(* ProofChecks: any number of epochs, boots, process starts and proofs.    *)
(***************************************************************************)
EXTENDS PinnedReads, NodeStartup, CertChain, ProofVerification, ProofChecks,
        FiniteSetTheorems, SequenceTheorems, WellFoundedInduction, TLAPS

(***************************************************************************)
(* PinnedReads                                                             *)
(***************************************************************************)

Past == {"querying", "scored", "done"}

(* At every block hotkeys have a UID each, and no commitment is of a later
   block. *)
SoundChain ==
  /\ Height \in 1..LastBlock
  /\ \A i \in 1..Height :
       /\ \A u, w \in ChainUids : blocks[i].key[u] = blocks[i].key[w] => u = w
       /\ \A k \in Keys : blocks[i].com[k].block <= i

(* What was read is of the block it is pinned to. *)
PinsOf(v) ==
  /\ comBlock[v] \in {0, Boundary}
  /\ reader[v] = "waiting" => fellBack[v]
  /\ reader[v] \in Past /\ ~fellBack[v] => metaBlock[v] = Collect
  /\ livePair /\ reader[v] \in Past => comBlock[v] = Boundary

Pins == \A v \in Readers : PinsOf(v)

OwnersUids(v) == UidOf(Metagraph(v), OwnerAt)

(* A live validator that is done burns to the owner's UID, or had nothing to
   score. *)
BurnsOf(v) ==
  /\ reader[v] # "done" => burnUid[v] = NoBurn
  /\ reader[v] = "scored" => Accepted(v) # {}
  /\ reader[v] = "done" =>
       \/ Accepted(v) = {} /\ burnUid[v] = NoBurn
       \/ Accepted(v) # {} /\ burnUid[v] \in OwnersUids(v)

Burns == livePair => \A v \in Readers : BurnsOf(v)

ReadsInv == ReadsTypeOK /\ SoundChain /\ Pins /\ Burns

(* Nothing has been read yet. *)
LEMMA ReadsInitially == ReadsInit => ReadsInv
<1> SUFFICES ASSUME ReadsInit PROVE ReadsInv
  OBVIOUS
<1> USE DEF ReadsInit, ReadsBlank
<1>1. FirstKeys \in [ChainUids -> Keys] /\ \A u, w \in ChainUids : FirstKeys[u] = FirstKeys[w] => u = w
  BY ReadsAssumption DEF FirstKeys
<1>2. FirstKeys[CHOOSE u \in ChainUids : TRUE] \in Keys
  BY <1>1, ReadsAssumption
<1> DEFINE first == [key |-> FirstKeys, since |-> [k \in Keys |-> 1],
                     com |-> [k \in Keys |-> Uncommitted],
                     owner |-> FirstKeys[CHOOSE u \in ChainUids : TRUE]]
<1>3. first \in ChainState
  BY <1>1, <1>2 DEF ChainState, Uncommitted
<1>4. first.key = FirstKeys /\ \A k \in Keys : first.com[k].block = 0
  BY DEF Uncommitted
<1>5. blocks = <<first>>
  OBVIOUS
<1> HIDE DEF first
<1>6. blocks \in Seq(ChainState) /\ Len(blocks) = 1 /\ blocks[1] = first
  BY <1>3, <1>5
<1>7. ReadsTypeOK
  BY <1>6, ReadsAssumption DEF ReadsTypeOK, NoBurn
<1>8. SoundChain
  BY <1>1, <1>4, <1>6, ReadsAssumption DEF SoundChain, Height
<1>9. Pins /\ Burns
  BY DEF Pins, PinsOf, Burns, BurnsOf, Past
<1> QED
  BY <1>7, <1>8, <1>9 DEF ReadsInv

(* The chain keeps what a validator has read. *)
Kept ==
  /\ blocks' \in Seq(ChainState) /\ Height <= Height'
  /\ \A i \in 1..Height : blocks'[i] = blocks[i]

(* What a validator reads at its blocks does not change as the chain grows. *)
LEMMA AsRead ==
  ASSUME ReadsInv, Kept, NEW v \in Readers, reader[v] # "idle",
         comBlock'[v] = comBlock[v], metaBlock'[v] = metaBlock[v]
  PROVE  /\ Accepted(v)' = Accepted(v)
         /\ OwnersUids(v)' = OwnersUids(v)
         /\ Metagraph(v)' = Metagraph(v)
<1>1. metaBlock[v] \in 1..Height /\ Boundary \in 1..Height
  BY ReadsAssumption DEF ReadsInv, ReadsTypeOK, SoundChain
<1>2. comBlock[v] = 0 \/ comBlock[v] \in 1..Height
  BY <1>1 DEF ReadsInv, Pins, PinsOf
<1>3. Metagraph(v)' = Metagraph(v) /\ OwnerAt' = OwnerAt
  BY <1>1 DEF Kept, Metagraph, OwnerAt
<1>4. \A u : Commitment(v, u)' = Commitment(v, u)
  BY <1>2, <1>3 DEF Kept, Commitment
<1>5. Accepted(v)' = Accepted(v)
  BY <1>4 DEF Accepted
<1> QED
  BY <1>3, <1>5 DEF OwnersUids, UidOf

(* A block is appended, in which hotkeys have a UID each still. *)
LEMMA BlockStep ==
  ASSUME ReadsInv, NEW s \in ChainState, Append1(s),
         \A u, w \in ChainUids : s.key[u] = s.key[w] => u = w,
         \A k \in Keys : s.com[k].block <= Height + 1
  PROVE  ReadsInv'
<1> USE DEF Append1, readerVars
<1>1. /\ Kept /\ Height' = Height + 1 /\ blocks'[Height'] = s /\ Height \in Nat
      /\ Height' \in 1..LastBlock
  BY ReadsAssumption DEF ReadsInv, ReadsTypeOK, SoundChain, Kept, Height
<1>2. ReadsTypeOK'
  BY <1>1, ReadsAssumption DEF ReadsInv, ReadsTypeOK, Kept
<1>3. SoundChain'
  <2>1. ASSUME NEW i \in 1..Height'
        PROVE  /\ \A u, w \in ChainUids : blocks'[i].key[u] = blocks'[i].key[w] => u = w
               /\ \A k \in Keys : blocks'[i].com[k].block <= i
    <3>1. CASE i \in 1..Height
      <4>1. blocks'[i] = blocks[i]
        BY <1>1, <3>1 DEF Kept
      <4> QED
        BY <3>1, <4>1 DEF ReadsInv, SoundChain
    <3>2. CASE i = Height'
      BY <1>1, <3>2
    <3>3. i \in 1..Height \/ i = Height'
      BY <1>1
    <3> QED
      BY <3>1, <3>2, <3>3
  <2> QED
    BY <1>1, <2>1 DEF SoundChain
<1>4. Pins'
  BY DEF ReadsInv, Pins, PinsOf
<1>5. Burns'
  BY <1>1, AsRead DEF ReadsInv, Burns, BurnsOf
<1> QED
  BY <1>2, <1>3, <1>4, <1>5 DEF ReadsInv

(* A new block leaves the earlier ones as they were. *)
LEMMA ChainStep == ASSUME ReadsInv, QuietBlock \/ CommitBlock \/ RecycleBlock \/ OwnerBlock PROVE ReadsInv'
<1>1. /\ Tip \in ChainState /\ Height \in Nat
      /\ \A u, w \in ChainUids : Tip.key[u] = Tip.key[w] => u = w
      /\ \A k \in Keys : Tip.com[k].block \in Nat /\ Tip.com[k].block <= Height
  <2>1. Height \in 1..Height /\ Height \in Nat
    BY ReadsAssumption DEF ReadsInv, SoundChain
  <2>2. Tip \in ChainState
    BY <2>1 DEF ReadsInv, ReadsTypeOK, Tip, Height
  <2>3. /\ \A u, w \in ChainUids : Tip.key[u] = Tip.key[w] => u = w
        /\ \A k \in Keys : Tip.com[k].block <= Height
    BY <2>1 DEF ReadsInv, SoundChain, Tip
  <2>4. \A k \in Keys : Tip.com[k].block \in Nat
    BY <2>2 DEF ChainState
  <2> QED
    BY <2>1, <2>2, <2>3, <2>4
<1>2. CASE QuietBlock
  BY <1>1, <1>2, BlockStep DEF QuietBlock
<1>3. CASE CommitBlock
  <2> PICK k \in Registered(Tip), matches \in BOOLEAN :
        Append1([Tip EXCEPT !.com[k] = [block |-> Height + 1, matches |-> matches]])
    BY <1>3 DEF CommitBlock
  <2> DEFINE c == [Tip.com EXCEPT ![k] = [block |-> Height + 1, matches |-> matches]]
             s == [Tip EXCEPT !.com = c]
  <2>0. Tip.com \in [Keys -> [block : Nat, matches : BOOLEAN]]
    BY <1>1 DEF ChainState
  <2>1. c \in [Keys -> [block : Nat, matches : BOOLEAN]]
    <3>1. [block |-> Height + 1, matches |-> matches] \in [block : Nat, matches : BOOLEAN]
      BY <1>1
    <3> QED
      BY <2>0, <3>1
  <2>2. ASSUME NEW l \in Keys PROVE c[l].block <= Height + 1
    <3>1. CASE l = k
      BY <1>1, <2>0, <3>1
    <3>2. CASE l # k
      <4>1. c[l] = Tip.com[l]
        BY <2>0, <3>2
      <4> QED
        BY <1>1, <4>1
    <3> QED
      BY <3>1, <3>2
  <2> HIDE DEF c
  <2>3. s \in ChainState /\ s.key = Tip.key /\ s.com = c
    BY <1>1, <2>1 DEF ChainState
  <2>4. Append1(s)
    BY DEF c
  <2> HIDE DEF s
  <2> QED
    BY <1>1, <2>2, <2>3, <2>4, BlockStep
<1>4. CASE RecycleBlock
  <2> PICK u \in ChainUids, k \in Keys \ Registered(Tip) :
        Append1([Tip EXCEPT !.key = [@ EXCEPT ![u] = k], !.since = [@ EXCEPT ![k] = Height + 1]])
    BY <1>4 DEF RecycleBlock
  <2> DEFINE key == [Tip.key EXCEPT ![u] = k]
             since == [Tip.since EXCEPT ![k] = Height + 1]
             s == [Tip EXCEPT !.key = key, !.since = since]
  <2>1. key \in [ChainUids -> Keys] /\ since \in [Keys -> Nat]
    BY <1>1 DEF ChainState
  <2>2. \A t, w \in ChainUids : key[t] = key[w] => t = w
    BY <1>1 DEF ChainState, Registered
  <2> HIDE DEF key, since
  <2>3. s \in ChainState /\ s.key = key /\ s.com = Tip.com
    BY <1>1, <2>1 DEF ChainState
  <2>4. Append1(s)
    BY DEF key, since
  <2> HIDE DEF s
  <2>5. \A l \in Keys : s.com[l].block <= Height + 1
    BY <1>1, <2>3
  <2> QED
    BY <2>2, <2>3, <2>4, <2>5, BlockStep
<1>5. CASE OwnerBlock
  <2> PICK k \in Keys : Append1([Tip EXCEPT !.owner = k])
    BY <1>5 DEF OwnerBlock
  <2> DEFINE s == [Tip EXCEPT !.owner = k]
  <2>1. s \in ChainState /\ s.key = Tip.key /\ s.com = Tip.com
    BY <1>1 DEF ChainState
  <2> HIDE DEF s
  <2>2. \A l \in Keys : s.com[l].block <= Height + 1
    BY <1>1, <2>1
  <2> QED
    BY <1>1, <2>1, <2>2, BlockStep DEF s
<1> QED
  BY <1>2, <1>3, <1>4, <1>5
-----------------------------------------------------------------------------
(* A step of one validator leaves the others, and the chain, as they are. *)
Alone(v) ==
  /\ UNCHANGED <<blocks, livePair>>
  /\ \A w \in Readers \ {v} :
       /\ reader'[w] = reader[w] /\ comBlock'[w] = comBlock[w] /\ metaBlock'[w] = metaBlock[w]
       /\ fellBack'[w] = fellBack[w] /\ burnUid'[w] = burnUid[w]

(* A step that leaves the chain alone keeps what is known of it. *)
LEMMA SameChain == ASSUME ReadsInv, UNCHANGED blocks PROVE Kept /\ SoundChain'
<1>1. SoundChain'
  BY DEF ReadsInv, SoundChain, Height
<1>2. Kept
  BY ReadsAssumption DEF ReadsInv, ReadsTypeOK, Kept, Height
<1> QED BY <1>1, <1>2

(* A step of one validator leaves the others' part of the invariant alone. *)
LEMMA AloneStep ==
  ASSUME ReadsInv, NEW v \in Readers, Alone(v), ReadsTypeOK', PinsOf(v)', livePair => BurnsOf(v)'
  PROVE  ReadsInv'
<1>1. Kept /\ SoundChain'
  BY SameChain DEF Alone
<1>2. Pins'
  <2> SUFFICES ASSUME NEW w \in Readers, w # v PROVE PinsOf(w)'
    BY DEF Pins
  <2> QED
    BY DEF ReadsInv, Pins, PinsOf, Alone
<1>3. Burns'
  <2> SUFFICES ASSUME livePair, NEW w \in Readers, w # v PROVE BurnsOf(w)'
    BY DEF Burns, Alone
  <2>1. reader[w] # "idle" => Accepted(w)' = Accepted(w) /\ OwnersUids(w)' = OwnersUids(w)
    BY <1>1, AsRead DEF Alone
  <2> QED
    BY <2>1 DEF ReadsInv, Burns, BurnsOf, Alone
<1> QED
  BY <1>1, <1>2, <1>3 DEF ReadsInv

(* A validator begins an epoch. *)
LEMMA BeginsStep == ASSUME ReadsInv, NEW v \in Readers, ReaderBegins(v) PROVE ReadsInv'
<1> USE DEF ReaderBegins, GoTo
<1>1. Height \in Boundary..LastBlock /\ Boundary \in Nat
  BY ReadsAssumption DEF ReadsInv, SoundChain
<1>2. ReadsTypeOK'
  <2>1. metaBlock' \in [Readers -> 0..LastBlock]
    BY <1>1 DEF ReadsInv, ReadsTypeOK
  <2>2. \A w \in Readers : reader'[w] # "idle" => metaBlock'[w] \in Boundary..Height
    BY <1>1 DEF ReadsInv, ReadsTypeOK
  <2> QED
    BY <1>1, <2>1, <2>2, ReadsAssumption DEF ReadsInv, ReadsTypeOK, Height
<1>3. Alone(v)
  BY DEF Alone, ReadsInv, ReadsTypeOK
<1>4. PinsOf(v)'
  BY DEF ReadsInv, PinsOf, Past, ReadsTypeOK
<1>5. livePair => BurnsOf(v)'
  BY DEF ReadsInv, Burns, BurnsOf, ReadsTypeOK
<1> QED
  BY <1>2, <1>3, <1>4, <1>5, AloneStep

(* The commitments are read. *)
LEMMA CommitmentsStep == ASSUME ReadsInv, NEW v \in Readers, ReadCommitments(v) PROVE ReadsInv'
<1> USE DEF ReadCommitments
<1>1. ReadsTypeOK'
  <2>1. comBlock' \in [Readers -> 0..LastBlock]
    BY ReadsAssumption DEF ReadsInv, ReadsTypeOK
  <2> QED
    BY <2>1 DEF ReadsInv, ReadsTypeOK, Height
<1>2. Alone(v)
  BY DEF Alone, ReadsInv, ReadsTypeOK
<1>3. PinsOf(v)'
  BY DEF ReadsInv, Pins, PinsOf, Past, ReadsTypeOK
<1>4. livePair => BurnsOf(v)'
  BY DEF ReadsInv, Burns, BurnsOf, ReadsTypeOK
<1> QED
  BY <1>1, <1>2, <1>3, <1>4, AloneStep

(* No more reads are refused than may be. *)
LEMMA RefusedInBound == ASSUME ReadsInv, Refused \/ UNCHANGED refused PROVE refused' \in 0..MaxRefused
  BY ReadsAssumption DEF ReadsInv, ReadsTypeOK, Refused

(* A read of the commitments is refused. *)
LEMMA CommitmentsFailStep == ASSUME ReadsInv, NEW v \in Readers, CommitmentsFail(v) PROVE ReadsInv'
<1>0. refused' \in 0..MaxRefused
  BY RefusedInBound DEF CommitmentsFail
<1> USE DEF CommitmentsFail, GoTo
<1>1. ReadsTypeOK'
  <2>1. reader' \in [Readers -> {"idle", "waiting", "querying", "scored", "done"}]
    BY DEF ReadsInv, ReadsTypeOK
  <2>2. \A w \in Readers : reader'[w] # "idle" => reader[w] # "idle"
    BY DEF ReadsInv, ReadsTypeOK
  <2> QED
    BY <1>0, <2>1, <2>2 DEF ReadsInv, ReadsTypeOK, Height
<1>2. Alone(v)
  BY DEF Alone, ReadsInv, ReadsTypeOK
<1>3. PinsOf(v)'
  BY DEF ReadsInv, Pins, PinsOf, Past, ReadsTypeOK
<1>4. livePair => BurnsOf(v)'
  BY DEF ReadsInv, Burns, BurnsOf, ReadsTypeOK
<1> QED
  BY <1>1, <1>2, <1>3, <1>4, AloneStep

(* The metagraph is read at the collection block, or the one the epoch began with
   is kept. *)
LEMMA MetagraphStep ==
  ASSUME ReadsInv, NEW v \in Readers, ReadMetagraph(v) \/ MetagraphFails(v) PROVE ReadsInv'
<1>0. refused' \in 0..MaxRefused
  BY RefusedInBound DEF ReadMetagraph, MetagraphFails
<1> USE DEF ReadMetagraph, MetagraphFails, GoTo, CollectionReached
<1>1. Height \in Collect..LastBlock
  BY ReadsAssumption DEF ReadsInv, SoundChain
<1>2. ReadsTypeOK'
  <2>1. metaBlock' \in [Readers -> 0..LastBlock] /\ fellBack' \in [Readers -> BOOLEAN]
    <3>1. CASE ReadMetagraph(v)
      <4>1. Collect \in 0..LastBlock
        BY ReadsAssumption
      <4> QED
        BY <3>1, <4>1 DEF ReadsInv, ReadsTypeOK
    <3>2. CASE MetagraphFails(v)
      BY <3>2 DEF ReadsInv, ReadsTypeOK
    <3> QED
      BY <3>1, <3>2
  <2>2. \A w \in Readers : reader'[w] # "idle" => metaBlock'[w] \in Boundary..Height
    BY <1>1, ReadsAssumption DEF ReadsInv, ReadsTypeOK
  <2>3. reader' \in [Readers -> {"idle", "waiting", "querying", "scored", "done"}]
    BY DEF ReadsInv, ReadsTypeOK
  <2> QED
    BY <1>0, <2>1, <2>2, <2>3 DEF ReadsInv, ReadsTypeOK, Height
<1>3. Alone(v)
  BY DEF Alone, ReadsInv, ReadsTypeOK
<1>4. PinsOf(v)'
  BY DEF ReadsInv, Pins, PinsOf, Past, ReadsTypeOK
<1>5. livePair => BurnsOf(v)'
  BY DEF ReadsInv, Burns, BurnsOf, ReadsTypeOK
<1> QED
  BY <1>2, <1>3, <1>4, <1>5, AloneStep

(* Scoring keeps the invariant. *)
LEMMA ScoreStep == ASSUME ReadsInv, NEW v \in Readers, Score(v) PROVE ReadsInv'
<1> USE DEF Score, GoTo
<1>1. ReadsTypeOK'
  BY DEF ReadsInv, ReadsTypeOK, Height
<1>2. Alone(v)
  BY DEF Alone, ReadsInv, ReadsTypeOK
<1>3. PinsOf(v)'
  BY DEF ReadsInv, Pins, PinsOf, Past, ReadsTypeOK
<1>4. Accepted(v)' = Accepted(v) /\ reader'[v] = IF Accepted(v) = {} THEN "done" ELSE "scored"
  BY SameChain, AsRead DEF ReadsInv, ReadsTypeOK
<1>5. livePair => BurnsOf(v)'
  BY <1>4 DEF ReadsInv, Burns, BurnsOf
<1> QED
  BY <1>1, <1>2, <1>3, <1>5, AloneStep

(* The burn UID is the owner's in the metagraph in use. *)
LEMMA ResolveStep == ASSUME ReadsInv, NEW v \in Readers, ResolveBurn(v) PROVE ReadsInv'
<1> USE DEF ResolveBurn, GoTo
<1> PICK u \in OwnersUids(v) : burnUid' = [burnUid EXCEPT ![v] = u]
  BY DEF OwnersUids
<1>1. u \in ChainUids
  BY DEF OwnersUids, UidOf
<1>2. ReadsTypeOK'
  <2>1. burnUid' \in [Readers -> ChainUids \cup {NoBurn}]
    BY <1>1 DEF ReadsInv, ReadsTypeOK
  <2> QED
    BY <2>1 DEF ReadsInv, ReadsTypeOK, Height
<1>3. Alone(v)
  BY DEF Alone, ReadsInv, ReadsTypeOK
<1>4. PinsOf(v)'
  BY DEF ReadsInv, Pins, PinsOf, Past, ReadsTypeOK
<1>5. Accepted(v)' = Accepted(v) /\ OwnersUids(v)' = OwnersUids(v)
  BY SameChain, AsRead
<1>6. livePair => BurnsOf(v)'
  BY <1>5 DEF ReadsInv, ReadsTypeOK, Burns, BurnsOf
<1> QED
  BY <1>2, <1>3, <1>4, <1>6, AloneStep

(* The first UID is a UID. *)
LEMMA FirstUidIsOne == FirstUid \in ChainUids
<1>1. \E u \in ChainUids : \A w \in ChainUids : u <= w
  <2> DEFINE R == OpToRel(<, Nat)
  <2>1. IsWellFoundedOn(R, Nat)
    BY NatLessThanWellFounded
  <2>2. \A x, y \in Nat : y < x => <<y, x>> \in R
    BY DEF OpToRel
  <2> HIDE DEF R
  <2>3. PICK u \in ChainUids : \A w \in ChainUids : ~ (<<w, u>> \in R)
    BY <2>1, WFMin, ReadsAssumption
  <2>4. \A w \in ChainUids : ~ (w < u)
    BY <2>2, <2>3, ReadsAssumption
  <2> QED
    BY <2>4, ReadsAssumption
<1> QED
  BY <1>1 DEF FirstUid

(* The owner is not found: live retries the epoch, mock burns to the first UID. *)
LEMMA UnknownStep == ASSUME ReadsInv, NEW v \in Readers, BurnUnknown(v) PROVE ReadsInv'
<1>0. refused' \in 0..MaxRefused
  BY RefusedInBound DEF BurnUnknown
<1> USE DEF BurnUnknown, GoTo
<1>1. FirstUid \in ChainUids
  BY FirstUidIsOne
<1>2. ReadsTypeOK'
  <2>1. burnUid' \in [Readers -> ChainUids \cup {NoBurn}]
    BY <1>1 DEF ReadsInv, ReadsTypeOK
  <2>2. reader' \in [Readers -> {"idle", "waiting", "querying", "scored", "done"}]
    BY DEF ReadsInv, ReadsTypeOK
  <2>3. \A w \in Readers : reader'[w] # "idle" => reader[w] # "idle"
    BY DEF ReadsInv, ReadsTypeOK
  <2> QED
    BY <1>0, <2>1, <2>2, <2>3 DEF ReadsInv, ReadsTypeOK, Height
<1>3. Alone(v)
  BY DEF Alone, ReadsInv, ReadsTypeOK
<1>4. PinsOf(v)'
  BY DEF ReadsInv, Pins, PinsOf, Past, ReadsTypeOK
<1>5. livePair => BurnsOf(v)'
  BY DEF ReadsInv, ReadsTypeOK, Burns, BurnsOf
<1> QED
  BY <1>2, <1>3, <1>4, <1>5, AloneStep

(* Every step keeps the invariant. *)
LEMMA ReadsStep == ReadsInv /\ [ReadsNext]_readsVars => ReadsInv'
<1> SUFFICES ASSUME ReadsInv, [ReadsNext]_readsVars PROVE ReadsInv'
  OBVIOUS
<1>1. CASE QuietBlock \/ CommitBlock \/ RecycleBlock \/ OwnerBlock
  BY <1>1, ChainStep
<1>2. CASE \E v \in Readers : ReaderBegins(v) \/ ReadCommitments(v) \/ CommitmentsFail(v)
  BY <1>2, BeginsStep, CommitmentsStep, CommitmentsFailStep
<1>3. CASE \E v \in Readers : ReadMetagraph(v) \/ MetagraphFails(v) \/ Score(v)
  BY <1>3, MetagraphStep, ScoreStep
<1>4. CASE \E v \in Readers : ResolveBurn(v) \/ BurnUnknown(v)
  BY <1>4, ResolveStep, UnknownStep
<1>5. CASE UNCHANGED readsVars
  <2> USE <1>5 DEF readsVars, readerVars
  <2>1. Kept /\ SoundChain'
    BY SameChain
  <2>2. ReadsTypeOK' /\ Pins'
    BY DEF ReadsInv, ReadsTypeOK, Pins, PinsOf, Height
  <2>3. Burns'
    BY <2>1, AsRead DEF ReadsInv, Burns, BurnsOf
  <2> QED
    BY <2>1, <2>2, <2>3 DEF ReadsInv
<1> QED
  BY <1>1, <1>2, <1>3, <1>4, <1>5 DEF ReadsNext

(* The invariant holds of every behaviour. *)
LEMMA ReadsInductive == ReadsSpec => []ReadsInv
  BY ReadsInitially, ReadsStep, PTL DEF ReadsSpec

-----------------------------------------------------------------------------
(* The chain's history and what validators hold of it stay well formed. *)
THEOREM ReadsTypeCorrect == ReadsSpec => []ReadsTypeOK
  BY ReadsInductive, PTL DEF ReadsInv

(* Two live validators that finish an epoch agree on it, whenever they read. *)
THEOREM ReadersAlwaysAgree == ReadsSpec => []ReadersAgree
<1>1. ReadsInv => ReadersAgree
  <2> SUFFICES ASSUME ReadsInv, NEW v \in Readers, NEW w \in Readers, livePair,
                      reader[v] = "done", reader[w] = "done", ~fellBack[v], ~fellBack[w]
               PROVE  Outcome(v) = Outcome(w)
    BY DEF ReadersAgree
  <2>1. /\ comBlock[v] = Boundary /\ comBlock[w] = Boundary
        /\ metaBlock[v] = Collect /\ metaBlock[w] = Collect
    BY DEF ReadsInv, Pins, PinsOf, Past
  <2>2. Metagraph(v) = Metagraph(w) /\ Metagraph(v) = blocks[Collect] /\ Collect \in 1..Height
    <3>1. Collect \in Boundary..Height /\ Boundary \in Nat \ {0}
      BY <2>1, ReadsAssumption DEF ReadsInv, ReadsTypeOK
    <3> QED
      BY <2>1, <3>1 DEF Metagraph
  <2>3. \A u : Commitment(v, u) = Commitment(w, u)
    BY <2>1, <2>2 DEF Commitment
  <2>4. Accepted(v) = Accepted(w) /\ \A u : Seniority(v, u) = Seniority(w, u)
    BY <2>2, <2>3 DEF Accepted, Seniority
  <2>5. OwnersUids(v) = OwnersUids(w)
    BY <2>2 DEF OwnersUids
  <2>6. \A t, u \in OwnersUids(v) : t = u
    BY <2>2 DEF ReadsInv, SoundChain, OwnersUids, UidOf
  <2>7. burnUid[v] = burnUid[w]
    BY <2>4, <2>5, <2>6 DEF ReadsInv, Burns, BurnsOf
  <2> QED
    BY <2>4, <2>7 DEF Outcome
<1> QED
  BY <1>1, ReadsInductive, PTL

(* A live validator refuses nobody for commitments it could not read. *)
THEOREM AlwaysJudgedAtBoundary == ReadsSpec => []JudgedAtBoundary
<1>1. ReadsInv => JudgedAtBoundary
  <2> SUFFICES ASSUME ReadsInv, NEW v \in Readers, livePair, reader[v] \in {"scored", "done"},
                      NEW u \in ChainUids
               PROVE  u \in Accepted(v) <=>
                        /\ blocks[Boundary].com[Metagraph(v).key[u]].matches
                        /\ blocks[Boundary].com[Metagraph(v).key[u]].block > 0
    BY DEF JudgedAtBoundary
  <2>1. comBlock[v] = Boundary /\ Boundary \in 1..Height /\ metaBlock[v] \in 1..Height
    BY ReadsAssumption DEF ReadsInv, Pins, PinsOf, Past, ReadsTypeOK, SoundChain
  <2>2. Metagraph(v).key[u] \in Keys
    <3>1. Metagraph(v) \in ChainState
      BY <2>1 DEF ReadsInv, ReadsTypeOK, Metagraph, Height
    <3> QED
      BY <3>1 DEF ChainState
  <2>3. Commitment(v, u) = blocks[Boundary].com[Metagraph(v).key[u]]
    BY <2>1, ReadsAssumption DEF Commitment
  <2>4. Commitment(v, u).block <= Boundary
    BY <2>1, <2>2, <2>3 DEF ReadsInv, SoundChain
  <2> QED
    BY <2>3, <2>4 DEF Accepted
<1> QED
  BY <1>1, ReadsInductive, PTL

(* A live validator burns to the owner's UID or to none. *)
THEOREM BurnIsAlwaysOwners == ReadsSpec => []BurnIsOwners
<1>1. ReadsInv => BurnIsOwners
  BY DEF ReadsInv, Burns, BurnsOf, BurnIsOwners, OwnersUids, UidOf, OwnerAt
<1> QED
  BY <1>1, ReadsInductive, PTL

(* Any number of live validators agree on what they read, whatever the chain
   does meanwhile. *)
THEOREM ReadsAlwaysSafe == ReadsSpec => []ReadsSafety
BY ReadsTypeCorrect, ReadersAlwaysAgree, AlwaysJudgedAtBoundary, BurnIsAlwaysOwners, PTL DEF ReadsSafety

(***************************************************************************)
(* NodeStartup                                                             *)
(***************************************************************************)

(* Where the checks are in the order of each main. *)
LastGate == IF role = "validator" THEN 8 ELSE 5
PoolGate == IF role = "validator" THEN 7 ELSE 2
GenesisGate == IF role = "validator" THEN 4 ELSE 3

(* What the pool is past its check. *)
PoolIsGood ==
  /\ manifest = "ok" /\ ~asked /\ source # "unpinned" => loaded = PinnedPool
  /\ source # "unpinned" => Cardinality(DOMAIN loaded) >= MinPool
  /\ source = "datasets" => DOMAIN loaded = Gradable \ skip
  /\ DOMAIN loaded \subseteq Gradable

(* What is skipped is what the pool file says, unless asked otherwise. *)
SkipIsRead == ~asked => skip = DefaultSkip

(* What is known of the pool before it is verified. *)
PoolOnItsWay ==
  /\ phase = "checking" /\ gate <= PoolGate => DOMAIN loaded = {}
  /\ phase = "loading" =>
       /\ gate = PoolGate /\ source = "datasets" /\ SkipIsRead
       /\ left \subseteq Benches \ skip /\ DOMAIN loaded = (Benches \ skip) \ left
  /\ phase = "verifying" =>
       /\ gate = PoolGate /\ source \in {"file", "datasets"} /\ SkipIsRead
       /\ DOMAIN loaded \subseteq Gradable
       /\ source = "datasets" => DOMAIN loaded = Gradable \ skip

(* Every check passed stays true: nothing it read is read again. *)
PoolHeld == gate > PoolGate => PoolIsGood
ChainHeld == gate > GenesisGate /\ finney => live /\ ~overrides
EntriesHeld == role = "validator" /\ live /\ gate > 1 => entries = "app"
EnvironmentHeld == role = "validator" /\ live /\ gate > 3 => (drifted => allowed)
WeightsHeld == role = "validator" /\ live /\ gate > 6 => ~dropped
FrameFits == start.frame = "cold" => start.by = "reveals"
FrameHeld == role = "validator" /\ live /\ gate > 8 => FrameFits

(* The invariant: what each gate found, from the gate on. *)
StartupInv ==
  /\ StartupTypeOK /\ PoolOnItsWay /\ PoolHeld /\ ChainHeld
  /\ EntriesHeld /\ EnvironmentHeld /\ WeightsHeld /\ FrameHeld

(* The gates are counted. *)
LEMMA LastGateNat == LastGate \in Nat
BY DEF LastGate

(* Which check stands at which gate. *)
LEMMA Gates ==
  ASSUME role \in DOMAIN Checks
  PROVE  /\ LastCheck = LastGate
         /\ role \in {"validator", "miner"}
         /\ \A check : At(check) /\ gate \in 1..LastCheck + 1 /\ (phase = "running" <=> gate = LastCheck + 1) =>
              /\ gate \in 1..LastGate
              /\ check = "pool" <=> gate = PoolGate
              /\ check = "genesis" <=> gate = GenesisGate
              /\ role = "validator" => (check = "entries" <=> gate = 1)
              /\ role = "validator" => (check = "environment" <=> gate = 3)
              /\ role = "validator" => (check = "weights" <=> gate = 6)
              /\ role = "validator" => (check = "frame" <=> gate = 8)
<1>1. role \in {"validator", "miner"}
  BY DEF Checks
<1>2. CASE role = "validator"
  <2>1. /\ Len(Checks[role]) = 8 /\ Checks[role][1] = "entries" /\ Checks[role][2] = "contract"
        /\ Checks[role][3] = "environment" /\ Checks[role][4] = "genesis"
        /\ Checks[role][5] = "registered" /\ Checks[role][6] = "weights"
        /\ Checks[role][7] = "pool" /\ Checks[role][8] = "frame"
    BY <1>2 DEF Checks
  <2>2. LastCheck = 8 /\ LastGate = 8 /\ PoolGate = 7 /\ GenesisGate = 4
    BY <1>2, <2>1 DEF LastCheck, LastGate, PoolGate, GenesisGate
  <2> QED BY <1>2, <2>1, <2>2 DEF At
<1>3. CASE role = "miner"
  <2>1. /\ Len(Checks[role]) = 5 /\ Checks[role][1] = "contract" /\ Checks[role][2] = "pool"
        /\ Checks[role][3] = "genesis" /\ Checks[role][4] = "registered" /\ Checks[role][5] = "stake"
    BY <1>3 DEF Checks
  <2>2. LastCheck = 5 /\ LastGate = 5 /\ PoolGate = 2 /\ GenesisGate = 3
    BY <1>3, <2>1 DEF LastCheck, LastGate, PoolGate, GenesisGate
  <2> QED BY <1>3, <2>1, <2>2 DEF At
<1> QED BY <1>1, <1>2, <1>3

(* Nothing is checked yet. *)
LEMMA StartupInitially == StartupInit => StartupInv
<1> SUFFICES ASSUME StartupInit PROVE StartupInv
  OBVIOUS
<1>1. role \in {"validator", "miner"} /\ LastCheck = LastGate
  BY Gates DEF StartupInit
<1>2. StartupTypeOK
  <2>1. \A b \in DOMAIN loaded : b \in Benches /\ loaded[b] \in {"pinned", "edited"}
    BY DEF StartupInit, StartupBlank, EmptyPool
  <2>2. gate \in 1..LastCheck + 1 /\ (phase = "running" <=> gate = LastCheck + 1)
    BY <1>1 DEF StartupInit, StartupBlank, LastGate
  <2> QED BY <2>1, <2>2 DEF StartupInit, StartupBlank, StartupTypeOK, Starts
<1>3. PoolOnItsWay
  BY DEF StartupInit, StartupBlank, PoolOnItsWay, EmptyPool
<1>4. PoolHeld /\ ChainHeld /\ EntriesHeld /\ EnvironmentHeld /\ WeightsHeld /\ FrameHeld
  BY DEF StartupInit, StartupBlank, PoolGate, GenesisGate, PoolHeld, ChainHeld, EntriesHeld,
         EnvironmentHeld, WeightsHeld, FrameHeld
<1> QED BY <1>2, <1>3, <1>4 DEF StartupInv

(* A check that reads nothing of the pool, whichever way it goes. *)
LEMMA ChecksPass ==
  ASSUME StartupInv, NEW check, At(check), NEW ok \in BOOLEAN, PassIf(ok), role' = role
  PROVE  /\ LastCheck' = LastCheck /\ LastCheck = LastGate /\ LastGate' = LastGate
         /\ PoolGate' = PoolGate /\ GenesisGate' = GenesisGate
         /\ PoolGate \in Nat /\ GenesisGate \in Nat
         /\ phase' \in {"checking", "running", "refused"} /\ gate' \in 1..LastGate + 1
         /\ phase' = "running" <=> gate' = LastCheck' + 1
         /\ gate \in 1..LastGate /\ phase = "checking"
         /\ gate' = gate \/ (ok /\ gate' = gate + 1)
         /\ ~ok => phase' = "refused" /\ gate' = gate
<1>1. LastCheck = LastGate /\ gate \in 1..LastGate /\ LastGate \in Nat
  BY Gates DEF StartupInv, StartupTypeOK, LastGate
<1>2. LastCheck' = LastCheck /\ LastGate' = LastGate /\ PoolGate' = PoolGate /\ GenesisGate' = GenesisGate
  BY DEF LastCheck, Checks, LastGate, PoolGate, GenesisGate
<1>3. PoolGate \in Nat /\ GenesisGate \in Nat
  BY DEF PoolGate, GenesisGate
<1> QED BY <1>1, <1>2, <1>3 DEF PassIf, Pass, Refuse, At

(* A check that leaves the pool alone, and what is known of it. *)
LEMMA PoolUntouched ==
  ASSUME StartupInv, NEW check, At(check), check # "pool", NEW ok \in BOOLEAN, PassIf(ok),
         UNCHANGED <<role, manifest, poolVars>>
  PROVE  PoolOnItsWay' /\ PoolHeld'
<1>1. /\ gate \in 1..LastGate /\ phase = "checking" /\ PoolGate' = PoolGate /\ PoolGate \in Nat
      /\ phase' \in {"checking", "running", "refused"}
      /\ gate' = gate \/ gate' = gate + 1
  BY ChecksPass DEF poolVars
<1>2. gate # PoolGate
  BY Gates DEF StartupInv, StartupTypeOK
<1>3. PoolIsGood => PoolIsGood'
  BY DEF PoolIsGood, poolVars, PinnedPool
<1>4. PoolHeld'
  BY <1>1, <1>2, <1>3, LastGateNat DEF PoolHeld, StartupInv
<1>5. gate' <= PoolGate => gate <= PoolGate
  BY <1>1, LastGateNat
<1>6. PoolOnItsWay'
  BY <1>1, <1>5 DEF PoolOnItsWay, StartupInv, poolVars
<1> QED BY <1>4, <1>6

(* The types after a check that leaves the pool alone. *)
LEMMA CheckTyped ==
  ASSUME StartupInv, NEW check, At(check), NEW ok \in BOOLEAN, PassIf(ok),
         UNCHANGED <<startupSettings, poolVars>>,
         entries' \in {"none", "bare", "app"}, drifted' \in BOOLEAN, allowed' \in BOOLEAN,
         dropped' \in BOOLEAN, start' \in Starts
  PROVE  StartupTypeOK'
<1>1. /\ phase' \in {"checking", "running", "refused"} /\ gate' \in 1..LastGate + 1
      /\ phase' = "running" <=> gate' = LastCheck' + 1
      /\ LastCheck' = LastGate
  BY ChecksPass DEF startupSettings
<1>2. /\ role' \in DOMAIN Checks /\ live' \in BOOLEAN /\ finney' \in BOOLEAN
      /\ overrides' \in BOOLEAN /\ manifest' \in {"ok", "broken", "absent"}
  BY DEF startupSettings, StartupInv, StartupTypeOK
<1>3. /\ skip' \subseteq Benches /\ asked' \in BOOLEAN
      /\ source' \in {"none", "file", "unpinned", "datasets"} /\ left' \subseteq Benches
      /\ \A b \in DOMAIN loaded' : b \in Benches /\ loaded'[b] \in {"pinned", "edited"}
  BY DEF poolVars, StartupInv, StartupTypeOK
<1> QED BY <1>1, <1>2, <1>3 DEF StartupTypeOK, Checks

(* A check passed by neither the chain's gate nor the validator's own. *)
LEMMA OtherChecks ==
  ASSUME StartupInv, NEW check \in {"contract", "registered", "stake"}, At(check),
         NEW ok \in BOOLEAN, PassIf(ok),
         UNCHANGED <<startupSettings, startupSeen, poolVars>>
  PROVE  StartupInv'
<1>1. /\ gate \in 1..LastGate /\ PoolGate' = PoolGate /\ GenesisGate' = GenesisGate
      /\ PoolGate \in Nat /\ GenesisGate \in Nat /\ LastGate \in Nat
      /\ gate' = gate \/ gate' = gate + 1
  BY ChecksPass, LastGateNat DEF startupSettings
<1>2. /\ gate # GenesisGate
      /\ role = "validator" => gate \notin {1, 3, 6, 8}
  BY Gates DEF StartupInv, StartupTypeOK
<1>3. StartupTypeOK'
  <2>1. /\ entries' \in {"none", "bare", "app"} /\ drifted' \in BOOLEAN /\ allowed' \in BOOLEAN
        /\ dropped' \in BOOLEAN /\ start' \in Starts
    BY DEF startupSeen, StartupInv, StartupTypeOK
  <2> QED BY <2>1, CheckTyped
<1>4. PoolOnItsWay' /\ PoolHeld'
  BY PoolUntouched DEF startupSettings
<1>5. ChainHeld'
  BY <1>1, <1>2 DEF ChainHeld, StartupInv, startupSettings
<1>6. EntriesHeld' /\ EnvironmentHeld' /\ WeightsHeld' /\ FrameHeld'
  BY <1>1, <1>2 DEF EntriesHeld, EnvironmentHeld, WeightsHeld, FrameHeld, FrameFits, StartupInv,
                    startupSettings, startupSeen
<1> QED BY <1>3, <1>4, <1>5, <1>6 DEF StartupInv

(* Each of the validator's own checks leaves what it found to be true. *)
LEMMA OwnChecks ==
  ASSUME StartupInv, CheckEntries \/ CheckEnvironment \/ CheckWeights \/ ChooseFrame
  PROVE  StartupInv'
<1>1. ASSUME NEW check \in {"entries", "environment", "weights", "frame"}, At(check),
             NEW ok \in BOOLEAN, PassIf(ok), UNCHANGED <<startupSettings, poolVars>>,
             entries' \in {"none", "bare", "app"}, drifted' \in BOOLEAN, allowed' \in BOOLEAN,
             dropped' \in BOOLEAN,
             start' \in Starts,
             role = "validator" /\ live =>
               /\ gate' > 1 => entries' = "app"
               /\ gate' > 3 => (drifted' => allowed')
               /\ gate' > 6 => ~dropped'
               /\ gate' > 8 => FrameFits'
      PROVE  StartupInv'
  <2>1. StartupTypeOK' /\ PoolOnItsWay' /\ PoolHeld'
    BY <1>1, CheckTyped, PoolUntouched DEF startupSettings
  <2>2. /\ gate \in 1..LastGate /\ GenesisGate' = GenesisGate /\ GenesisGate \in Nat
        /\ LastGate \in Nat
        /\ gate' = gate \/ (gate' = gate + 1 /\ gate # GenesisGate)
    <3>1. gate # GenesisGate
      BY <1>1, Gates DEF StartupInv, StartupTypeOK
    <3> QED BY <1>1, <3>1, ChecksPass, LastGateNat DEF startupSettings
  <2>3. ChainHeld'
    BY <1>1, <2>2 DEF ChainHeld, StartupInv, startupSettings
  <2>4. EntriesHeld' /\ EnvironmentHeld' /\ WeightsHeld' /\ FrameHeld'
    BY <1>1 DEF EntriesHeld, EnvironmentHeld, WeightsHeld, FrameHeld, FrameFits, startupSettings
  <2> QED BY <2>1, <2>3, <2>4 DEF StartupInv
<1>2. /\ entries \in {"none", "bare", "app"} /\ drifted \in BOOLEAN /\ allowed \in BOOLEAN
      /\ dropped \in BOOLEAN /\ live \in BOOLEAN
      /\ start \in Starts
      /\ gate \in 1..LastCheck + 1 /\ (phase = "running" <=> gate = LastCheck + 1)
      /\ role \in DOMAIN Checks
  BY DEF StartupInv, StartupTypeOK
<1>3. ASSUME NEW check \in {"entries", "environment", "weights", "frame"}, At(check),
             NEW ok \in BOOLEAN, PassIf(ok), role' = role
      PROVE  /\ gate \in Nat /\ gate' \in {gate, gate + 1} /\ (~ok => gate' = gate)
             /\ role = "validator" =>
                  /\ (check = "entries" => gate = 1) /\ (check = "environment" => gate = 3)
                  /\ (check = "weights" => gate = 6) /\ (check = "frame" => gate = 8)
  BY <1>2, <1>3, Gates, ChecksPass, LastGateNat
<1>4. CASE CheckEntries
  <2>1. PICK malformed \in BOOLEAN : PassIf(~malformed /\ (live => entries' = "app"))
    BY <1>4 DEF CheckEntries
  <2>2. (~malformed /\ (live => entries' = "app")) \in BOOLEAN
    OBVIOUS
  <2>3. /\ gate \in Nat /\ gate' \in {gate, gate + 1}
        /\ ~(~malformed /\ (live => entries' = "app")) => gate' = gate
        /\ role = "validator" => gate = 1
    BY <1>3, <1>4, <2>1, <2>2 DEF CheckEntries, startupSettings
  <2>4. UNCHANGED <<startupSettings, drifted, allowed, dropped, start, poolVars>>
        /\ entries' \in {"none", "bare", "app"} /\ At("entries")
    BY <1>4 DEF CheckEntries
  <2>5. role = "validator" /\ live =>
          /\ gate' > 1 => entries' = "app"
          /\ gate' > 3 => (drifted' => allowed')
          /\ gate' > 6 => ~dropped'
          /\ gate' > 8 => FrameFits'
    BY <2>3, <2>4
  <2>6. PassIf(~malformed /\ (live => entries' = "app"))
    BY <2>1
  <2> QED BY <1>1, <1>2, <2>2, <2>4, <2>5, <2>6
<1>5. CASE CheckEnvironment
  <2>1. /\ drifted' \in BOOLEAN /\ allowed' \in BOOLEAN /\ At("environment")
        /\ PassIf(live /\ drifted' => allowed')
        /\ UNCHANGED <<startupSettings, entries, dropped, start, poolVars>>
        /\ role' = role
    BY <1>5 DEF CheckEnvironment, startupSettings
  <2>2. (live /\ drifted' => allowed') \in BOOLEAN
    OBVIOUS
  <2>3. /\ gate \in Nat /\ gate' \in {gate, gate + 1}
        /\ ~(live /\ drifted' => allowed') => gate' = gate
        /\ role = "validator" => gate = 3
    BY <1>3, <2>1, <2>2
  <2>4. EntriesHeld
    BY DEF StartupInv
  <2>5. role = "validator" /\ live =>
          /\ gate' > 1 => entries' = "app"
          /\ gate' > 3 => (drifted' => allowed')
          /\ gate' > 6 => ~dropped'
          /\ gate' > 8 => FrameFits'
    BY <2>1, <2>3, <2>4 DEF EntriesHeld
  <2> QED BY <1>1, <1>2, <2>1, <2>2, <2>5
<1>6. CASE CheckWeights
  <2>1. /\ At("weights") /\ dropped' \in BOOLEAN /\ PassIf(live => ~dropped')
        /\ UNCHANGED <<startupSettings, entries, drifted, allowed, start, poolVars>>
        /\ role' = role
    BY <1>6 DEF CheckWeights, startupSettings
  <2>2. (live => ~dropped') \in BOOLEAN
    OBVIOUS
  <2>3. /\ gate \in Nat /\ gate' \in {gate, gate + 1} /\ (~(live => ~dropped') => gate' = gate)
        /\ role = "validator" => gate = 6
    BY <1>3, <2>1, <2>2
  <2>4. EntriesHeld /\ EnvironmentHeld
    BY DEF StartupInv
  <2>5. role = "validator" /\ live =>
          /\ gate' > 1 => entries' = "app"
          /\ gate' > 3 => (drifted' => allowed')
          /\ gate' > 6 => ~dropped'
          /\ gate' > 8 => FrameFits'
    BY <2>1, <2>3, <2>4 DEF EntriesHeld, EnvironmentHeld
  <2> QED BY <1>1, <1>2, <2>1, <2>2, <2>5
<1>7. CASE ChooseFrame
  <2>1. /\ At("frame") /\ role' = role
        /\ UNCHANGED <<startupSettings, entries, drifted, allowed, dropped, poolVars>>
    BY <1>7 DEF ChooseFrame, startupSettings
  <2>2. PICK ok \in BOOLEAN : PassIf(ok) /\ (ok /\ live => FrameFits')
                              /\ start' \in Starts
    <3>1. PassIf(TRUE) \/ ~Pass
      BY DEF PassIf
    <3>2. ASSUME StartsFrom("state", "accumulated") \/ StartsFrom("reveals", "accumulated")
                 \/ StartsFrom("reveals", "shipped") \/ StartsFrom("reveals", "cold")
                 \/ StartsFrom("bootstrap", "shipped")
                 \/ (StartsFrom("bootstrap", "cold") /\ ~live)
          PROVE  start' \in Starts /\ (live => FrameFits')
      BY <3>2 DEF StartsFrom, Starts, FrameFits
    <3>3. CASE NoFrame
      <4>1. PassIf(FALSE) /\ start' \in Starts
        BY <1>2, <3>3 DEF NoFrame, PassIf
      <4> QED BY <4>1
    <3>4. CASE ~NoFrame
      <4>1. Pass /\ start' \in Starts /\ (live => FrameFits')
        BY <1>7, <3>2, <3>4 DEF ChooseFrame, Rebuild, Bootstrap
      <4> QED BY <3>1, <4>1
    <3> QED BY <3>3, <3>4
  <2>3. /\ gate \in Nat /\ gate' \in {gate, gate + 1} /\ (~ok => gate' = gate)
        /\ role = "validator" => gate = 8
    BY <1>3, <2>1, <2>2
  <2>4. EntriesHeld /\ EnvironmentHeld /\ WeightsHeld
    BY DEF StartupInv
  <2> QED BY <1>1, <1>2, <2>1, <2>2, <2>3, <2>4 DEF EntriesHeld, EnvironmentHeld, WeightsHeld
<1> QED BY <1>4, <1>5, <1>6, <1>7

(* What every pool step relies on. *)
LEMMA AtThePool ==
  ASSUME StartupInv, At("pool")
  PROVE  gate = PoolGate /\ PoolGate \in Nat /\ DOMAIN loaded = {}
<1>1. gate = PoolGate /\ PoolGate \in Nat
  BY Gates DEF StartupInv, StartupTypeOK, PoolGate
<1> QED BY <1>1 DEF StartupInv, PoolOnItsWay, At

(* While the pool is being loaded or verified, no other check's finding is
   disturbed. *)
LEMMA OthersHold ==
  ASSUME StartupInv, UNCHANGED <<startupSettings, startupSeen>>, gate = PoolGate,
         gate' \in {gate, gate + 1}
  PROVE  ChainHeld' /\ EntriesHeld' /\ EnvironmentHeld' /\ WeightsHeld' /\ FrameHeld'
<1>1. role \in {"validator", "miner"}
  BY DEF StartupInv, StartupTypeOK, Checks
<1>2. CASE role = "validator"
  <2>1. gate = 7 /\ GenesisGate = 4 /\ GenesisGate' = 4
    BY <1>2 DEF PoolGate, GenesisGate, startupSettings
  <2> QED BY <1>2, <2>1 DEF ChainHeld, EntriesHeld, EnvironmentHeld, WeightsHeld, FrameHeld, FrameFits,
             StartupInv, startupSettings, startupSeen
<1>3. CASE role = "miner"
  <2>1. gate = 2 /\ GenesisGate' = 3
    BY <1>3 DEF PoolGate, GenesisGate, startupSettings
  <2> QED BY <1>3, <2>1 DEF ChainHeld, EntriesHeld, EnvironmentHeld, WeightsHeld, FrameHeld, FrameFits,
             startupSettings
<1> QED BY <1>1, <1>2, <1>3

(* The types after a step on the pool. *)
LEMMA PoolTyped ==
  ASSUME StartupInv, UNCHANGED <<startupSettings, startupSeen>>,
         gate = PoolGate, phase # "running",
         skip' \subseteq Benches, asked' \in BOOLEAN, left' \subseteq Benches,
         source' \in {"none", "file", "unpinned", "datasets"},
         \A b \in DOMAIN loaded' : b \in Benches /\ loaded'[b] \in {"pinned", "edited"},
         \/ phase' \in {"loading", "verifying"} /\ gate' = gate
         \/ Pass \/ Refuse
  PROVE  StartupTypeOK'
<1>1. LastCheck = LastGate /\ LastCheck' = LastCheck /\ role \in {"validator", "miner"}
  BY Gates DEF StartupInv, StartupTypeOK, LastCheck, Checks, startupSettings
<1>2. gate \in Nat /\ 1 <= gate /\ gate < LastGate /\ LastGate \in Nat
  <2>1. CASE role = "validator"
    <3>1. PoolGate = 7 /\ LastGate = 8
      BY <2>1 DEF PoolGate, LastGate
    <3> QED BY <3>1
  <2>2. CASE role = "miner"
    <3>1. PoolGate = 2 /\ LastGate = 5
      BY <2>2 DEF PoolGate, LastGate
    <3> QED BY <3>1
  <2> QED BY <1>1, <2>1, <2>2
<1>3. /\ gate' \in 1..LastCheck' + 1 /\ (phase' = "running" <=> gate' = LastCheck' + 1)
      /\ phase' \in {"checking", "loading", "verifying", "running", "refused"}
  <2>1. CASE phase' \in {"loading", "verifying"} /\ gate' = gate
    BY <1>1, <1>2, <2>1
  <2>2. CASE Pass
    <3>1. gate' = gate + 1 /\ phase' = IF gate = LastGate THEN "running" ELSE "checking"
      BY <1>1, <2>2 DEF Pass
    <3> QED BY <1>1, <1>2, <3>1
  <2>3. CASE Refuse
    <3>1. gate' = gate /\ phase' = "refused"
      BY <2>3 DEF Refuse
    <3> QED BY <1>1, <1>2, <3>1
  <2> QED BY <2>1, <2>2, <2>3
<1>4. /\ role' \in DOMAIN Checks /\ live' \in BOOLEAN /\ finney' \in BOOLEAN
      /\ overrides' \in BOOLEAN /\ manifest' \in {"ok", "broken", "absent"}
      /\ entries' \in {"none", "bare", "app"} /\ drifted' \in BOOLEAN /\ allowed' \in BOOLEAN
      /\ dropped' \in BOOLEAN /\ start' \in Starts
  BY DEF startupSettings, startupSeen, StartupInv, StartupTypeOK, Checks
<1> QED BY <1>3, <1>4 DEF StartupTypeOK, Checks

(* Each step on the pool keeps what is known of it on its way. *)
LEMMA PoolSteps ==
  ASSUME StartupInv, ReadPoolFile \/ BadPoolFile \/ StartLoading \/ LoadBenchmark
                     \/ LoadFails \/ EndLoading \/ VerifyPool
  PROVE  StartupInv'
<1>1. /\ skip \subseteq Benches /\ asked \in BOOLEAN /\ left \subseteq Benches
      /\ source \in {"none", "file", "unpinned", "datasets"} /\ gate \in Nat
      /\ \A b \in DOMAIN loaded : b \in Benches /\ loaded[b] \in {"pinned", "edited"}
  <2>1. gate \in 1..LastCheck + 1 /\ LastCheck = LastGate /\ LastGate \in Nat
    BY Gates, LastGateNat DEF StartupInv, StartupTypeOK
  <2>2. gate \in Nat
    BY <2>1
  <2> QED BY <2>2 DEF StartupInv, StartupTypeOK
<1>2. UNCHANGED <<startupSettings, startupSeen>>
  BY DEF ReadPoolFile, BadPoolFile, StartLoading, LoadBenchmark, LoadFails, EndLoading, VerifyPool
<1>3. PoolGate' = PoolGate /\ PoolGate \in Nat /\ manifest' = manifest
  BY <1>2 DEF PoolGate, startupSettings
<1>4. gate = PoolGate /\ phase # "running" /\ (At("pool") => DOMAIN loaded = {})
  <2>1. CASE At("pool")
    BY <2>1, AtThePool DEF At
  <2>2. CASE phase \in {"loading", "verifying"}
    <3>1. ~At("pool")
      BY <2>2 DEF At
    <3> QED BY <2>2, <3>1 DEF StartupInv, PoolOnItsWay
  <2> QED BY <2>1, <2>2 DEF ReadPoolFile, BadPoolFile, StartLoading, LoadBenchmark, LoadFails,
             EndLoading, VerifyPool
<1>5. ReadSkip => skip' \subseteq Benches /\ asked' \in BOOLEAN /\ SkipIsRead'
  BY <1>3, StartupAssumption DEF ReadSkip, DefaultSkip, SkipIsRead
<1>6. ASSUME Refuse, UNCHANGED poolVars PROVE StartupInv'
  <2>1. PoolOnItsWay' /\ PoolHeld'
    BY <1>6, <1>3, <1>4 DEF Refuse, PoolOnItsWay, PoolHeld
  <2>2. StartupTypeOK'
    BY <1>1, <1>2, <1>4, <1>6, PoolTyped DEF poolVars
  <2>3. gate' \in {gate, gate + 1}
    BY <1>6 DEF Refuse
  <2> QED BY <1>2, <1>4, <2>1, <2>2, <2>3, OthersHold DEF StartupInv
<1>7. CASE ReadPoolFile
  <2>1. PICK p \in Pools : loaded' = Drop(p)
    BY <1>7 DEF ReadPoolFile
  <2>2. DOMAIN p \subseteq Benches /\ \A b \in DOMAIN p : p[b] \in {"pinned", "edited"}
    BY DEF Pools
  <2>3. /\ DOMAIN loaded' \subseteq Gradable
        /\ \A b \in DOMAIN loaded' : b \in Benches /\ loaded'[b] \in {"pinned", "edited"}
    BY <2>1, <2>2 DEF Drop, Gradable
  <2>4. /\ source' \in {"file", "unpinned"} /\ ReadSkip /\ left' = left
        /\ \/ source' = "file" /\ phase' = "verifying" /\ gate' = gate
           \/ source' = "unpinned" /\ (Pass \/ Refuse)
    BY <1>7 DEF ReadPoolFile, PassIf
  <2>5. StartupTypeOK'
    BY <1>1, <1>2, <1>4, <1>5, <2>3, <2>4, PoolTyped
  <2>6. /\ gate' \in {gate, gate + 1} /\ phase' # "loading"
        /\ phase' = "verifying" => gate' = gate /\ source' = "file"
        /\ phase' = "checking" => gate' = gate + 1
        /\ gate' > gate => source' = "unpinned"
    <3>1. CASE source' = "file" /\ phase' = "verifying" /\ gate' = gate
      BY <1>1, <3>1
    <3>2. CASE source' = "unpinned" /\ Pass
      <4>1. gate' = gate + 1 /\ phase' \in {"running", "checking"}
        BY <3>2 DEF Pass
      <4> QED BY <1>1, <3>2, <4>1
    <3>3. CASE source' = "unpinned" /\ Refuse
      BY <1>1, <3>3 DEF Refuse
    <3> QED BY <2>4, <3>1, <3>2, <3>3
  <2>7. PoolOnItsWay'
    BY <1>3, <1>4, <1>5, <2>3, <2>4, <2>6 DEF PoolOnItsWay
  <2>8. PoolHeld'
    BY <1>3, <1>4, <2>3, <2>6 DEF PoolHeld, PoolIsGood, Gradable
  <2> QED BY <1>2, <1>4, <2>5, <2>6, <2>7, <2>8, OthersHold DEF StartupInv
<1>8. CASE BadPoolFile
  BY <1>6, <1>8 DEF BadPoolFile
<1>9. CASE StartLoading
  <2>1. /\ At("pool") /\ source' = "datasets" /\ ReadSkip /\ left' = Benches \ skip'
        /\ phase' = "loading" /\ gate' = gate /\ loaded' = loaded /\ DOMAIN loaded = {}
    BY <1>4, <1>9 DEF StartLoading
  <2>2. StartupTypeOK'
    BY <1>1, <1>2, <1>4, <1>5, <2>1, PoolTyped
  <2>3. PoolOnItsWay' /\ PoolHeld'
    BY <1>3, <1>4, <1>5, <2>1 DEF PoolOnItsWay, PoolHeld
  <2> QED BY <1>2, <1>4, <2>1, <2>2, <2>3, OthersHold DEF StartupInv
<1>10. CASE LoadBenchmark
  <2>1. PICK b \in left, content \in {"pinned", "edited"} :
          loaded' = Extend(loaded, b, content) /\ left' = left \ {b}
    BY <1>10 DEF LoadBenchmark
  <2>2. /\ phase = "loading" /\ phase' = phase /\ gate' = gate
        /\ skip' = skip /\ asked' = asked /\ source' = source
    BY <1>10 DEF LoadBenchmark
  <2>3. /\ source = "datasets" /\ SkipIsRead /\ left \subseteq Benches \ skip
        /\ DOMAIN loaded = (Benches \ skip) \ left
    BY <2>2 DEF StartupInv, PoolOnItsWay
  <2>4. /\ DOMAIN loaded' = DOMAIN loaded \cup {b}
        /\ \A c \in DOMAIN loaded' : c \in Benches /\ loaded'[c] \in {"pinned", "edited"}
    BY <1>1, <2>1 DEF Extend
  <2>5. SkipIsRead'
    BY <1>3, <2>2, <2>3 DEF SkipIsRead, DefaultSkip
  <2>6. StartupTypeOK'
    <3>1. left' \subseteq Benches
      BY <1>1, <2>1
    <3> QED BY <1>1, <1>2, <1>4, <2>2, <2>4, <3>1, PoolTyped
  <2>7. DOMAIN loaded' = (Benches \ skip') \ left' /\ left' \subseteq Benches \ skip'
    BY <2>1, <2>2, <2>3, <2>4
  <2>8. PoolOnItsWay' /\ PoolHeld'
    BY <1>3, <1>4, <2>2, <2>3, <2>5, <2>7 DEF PoolOnItsWay, PoolHeld
  <2> QED BY <1>2, <1>4, <2>2, <2>6, <2>8, OthersHold DEF StartupInv
<1>11. CASE LoadFails
  BY <1>6, <1>11 DEF LoadFails
<1>12. CASE EndLoading
  <2>1. /\ phase = "loading" /\ left = {} /\ loaded' = Drop(loaded) /\ phase' = "verifying"
        /\ gate' = gate /\ skip' = skip /\ asked' = asked /\ source' = source /\ left' = left
    BY <1>12 DEF EndLoading
  <2>2. source = "datasets" /\ SkipIsRead /\ DOMAIN loaded = Benches \ skip
    BY <2>1 DEF StartupInv, PoolOnItsWay
  <2>3. /\ DOMAIN loaded' = Gradable \ skip /\ DOMAIN loaded' \subseteq Gradable
        /\ \A c \in DOMAIN loaded' : c \in Benches /\ loaded'[c] \in {"pinned", "edited"}
    BY <1>1, <2>1, <2>2 DEF Drop, Gradable
  <2>4. SkipIsRead'
    BY <1>3, <2>1, <2>2 DEF SkipIsRead, DefaultSkip
  <2>5. StartupTypeOK'
    BY <1>1, <1>2, <1>4, <2>1, <2>3, PoolTyped
  <2>6. PoolOnItsWay' /\ PoolHeld'
    BY <1>3, <1>4, <2>1, <2>2, <2>3, <2>4 DEF PoolOnItsWay, PoolHeld, Gradable
  <2> QED BY <1>2, <1>4, <2>1, <2>5, <2>6, OthersHold DEF StartupInv
<1>13. CASE VerifyPool
  <2>1. phase = "verifying" /\ UNCHANGED poolVars
        /\ PassIf(ManifestAgrees /\ LargeEnough /\ DOMAIN loaded # {})
    BY <1>13 DEF VerifyPool
  <2>2. CASE ~(ManifestAgrees /\ LargeEnough /\ DOMAIN loaded # {})
    BY <1>6, <2>1, <2>2 DEF PassIf
  <2>3. CASE ManifestAgrees /\ LargeEnough /\ DOMAIN loaded # {}
    <3>1. Pass
      BY <2>1, <2>3 DEF PassIf
    <3>2. /\ SkipIsRead /\ DOMAIN loaded \subseteq Gradable
          /\ source = "datasets" => DOMAIN loaded = Gradable \ skip
      BY <2>1 DEF StartupInv, PoolOnItsWay
    <3>3. PoolIsGood
      BY <2>3, <3>2 DEF PoolIsGood, SkipIsRead, DefaultSkip, ManifestAgrees, LargeEnough
    <3>4. PoolIsGood'
      BY <1>3, <2>1, <3>3 DEF PoolIsGood, poolVars, PinnedPool
    <3>5. gate' = gate + 1 /\ phase' \in {"running", "checking"}
      BY <3>1 DEF Pass
    <3>6. PoolOnItsWay' /\ PoolHeld'
      BY <1>3, <1>4, <3>4, <3>5 DEF PoolOnItsWay, PoolHeld
    <3>7. StartupTypeOK'
      BY <1>1, <1>2, <1>4, <2>1, <3>1, PoolTyped DEF poolVars
    <3> QED BY <1>2, <1>4, <3>5, <3>6, <3>7, OthersHold DEF StartupInv
  <2> QED BY <2>2, <2>3
<1> QED BY <1>7, <1>8, <1>9, <1>10, <1>11, <1>12, <1>13

(* The chain's identity is read before the neuron runs, and one that cannot be
   read is not taken for a test chain. *)
LEMMA GenesisStep ==
  ASSUME StartupInv, CheckGenesis
  PROVE  StartupInv'
<1>1. PICK genesis \in GenesisRead : PassIf(ChainAllows(genesis))
  BY DEF CheckGenesis
<1>2. At("genesis") /\ UNCHANGED <<startupSettings, startupSeen, poolVars>>
  BY DEF CheckGenesis
<1>3. ChainAllows(genesis) \in BOOLEAN
  BY DEF ChainAllows
<1>4. finney /\ ChainAllows(genesis) => live /\ ~overrides
  BY DEF ChainAllows, GenesisRead, StartupInv, StartupTypeOK
<1>5. /\ gate = GenesisGate /\ GenesisGate' = GenesisGate /\ GenesisGate \in Nat
      /\ gate' = gate \/ (ChainAllows(genesis) /\ gate' = gate + 1)
      /\ role = "validator" => gate = 4
      /\ role = "miner" => gate = 3
  <2>1. gate = GenesisGate
    BY <1>2, Gates DEF StartupInv, StartupTypeOK
  <2> QED BY <1>1, <1>2, <1>3, <2>1, ChecksPass DEF startupSettings, GenesisGate
<1>6. StartupTypeOK'
  <2>1. /\ entries' \in {"none", "bare", "app"} /\ drifted' \in BOOLEAN /\ allowed' \in BOOLEAN
        /\ dropped' \in BOOLEAN /\ start' \in Starts
    BY <1>2 DEF startupSeen, StartupInv, StartupTypeOK
  <2> QED BY <1>1, <1>2, <1>3, <2>1, CheckTyped
<1>7. PoolOnItsWay' /\ PoolHeld'
  BY <1>1, <1>2, <1>3, PoolUntouched DEF startupSettings
<1>8. ChainHeld'
  BY <1>2, <1>4, <1>5 DEF ChainHeld, startupSettings
<1>9. EntriesHeld' /\ EnvironmentHeld' /\ WeightsHeld' /\ FrameHeld'
  BY <1>2, <1>5 DEF EntriesHeld, EnvironmentHeld, WeightsHeld, FrameHeld, FrameFits, StartupInv,
                    startupSettings, startupSeen
<1> QED BY <1>6, <1>7, <1>8, <1>9 DEF StartupInv

(* The invariant is inductive. *)
LEMMA StartupStep == StartupInv /\ [StartupNext]_startupVars => StartupInv'
<1> SUFFICES ASSUME StartupInv, [StartupNext]_startupVars PROVE StartupInv'
  OBVIOUS
<1>1. CASE CheckEntries \/ CheckEnvironment \/ CheckWeights \/ ChooseFrame
  BY <1>1, OwnChecks
<1>2. CASE CheckContract
  <2>1. PICK reviewed \in BOOLEAN : PassIf(live => reviewed)
    BY <1>2 DEF CheckContract
  <2>2. (live => reviewed) \in BOOLEAN
    OBVIOUS
  <2> QED BY <1>2, <2>1, <2>2, OtherChecks DEF CheckContract
<1>3. CASE CheckRegistered
  BY <1>3, OtherChecks DEF CheckRegistered
<1>4. CASE CheckStake
  <2>1. PICK floorSet \in BOOLEAN : PassIf(live => floorSet)
    BY <1>4 DEF CheckStake
  <2>2. (live => floorSet) \in BOOLEAN
    OBVIOUS
  <2> QED BY <1>4, <2>1, <2>2, OtherChecks DEF CheckStake
<1>5. CASE CheckGenesis
  BY <1>5, GenesisStep
<1>6. CASE ReadPoolFile \/ BadPoolFile \/ StartLoading \/ LoadBenchmark
           \/ LoadFails \/ EndLoading \/ VerifyPool
  BY <1>6, PoolSteps
<1>7. CASE UNCHANGED startupVars
  <2>1. /\ UNCHANGED <<role, live, finney, overrides, manifest>>
        /\ UNCHANGED <<gate, phase>> /\ UNCHANGED <<entries, drifted, allowed, dropped, start>>
        /\ UNCHANGED <<skip, asked, source, left, loaded>>
    BY <1>7 DEF startupVars, startupSettings, startupSeen, poolVars
  <2>2. StartupTypeOK'
    <3>1. LastCheck' = LastCheck
      BY <2>1 DEF LastCheck, Checks
    <3>2. gate' \in 1..LastCheck' + 1 /\ (phase' = "running" <=> gate' = LastCheck' + 1)
      BY <2>1, <3>1 DEF StartupInv, StartupTypeOK
    <3> QED BY <2>1, <3>2 DEF StartupInv, StartupTypeOK, Checks
  <2>3. PoolOnItsWay'
    BY <2>1 DEF StartupInv, PoolOnItsWay, PoolGate, SkipIsRead, DefaultSkip, Gradable
  <2>4. PoolHeld'
    BY <2>1 DEF StartupInv, PoolHeld, PoolGate, PoolIsGood, Gradable, PinnedPool
  <2>5. ChainHeld'
    BY <2>1 DEF StartupInv, ChainHeld, GenesisGate
  <2>6. EntriesHeld' /\ EnvironmentHeld' /\ WeightsHeld' /\ FrameHeld'
    BY <2>1 DEF StartupInv, EntriesHeld, EnvironmentHeld, WeightsHeld, FrameHeld, FrameFits
  <2> QED BY <2>2, <2>3, <2>4, <2>5, <2>6 DEF StartupInv
<1> QED BY <1>1, <1>2, <1>3, <1>4, <1>5, <1>6, <1>7 DEF StartupNext

(* A neuron that runs is past every gate, and what each gate found holds. *)
LEMMA StartupInvImplies == StartupInv => StartupSafety
<1> SUFFICES ASSUME StartupInv PROVE StartupSafety
  OBVIOUS
<1>1. StartupTypeOK /\ LastCheck = LastGate /\ role \in {"validator", "miner"}
  BY Gates DEF StartupInv, StartupTypeOK
<1>2. Running => gate > PoolGate /\ gate > GenesisGate /\ (role = "validator" => gate = 9)
  <2>1. Running => gate = LastGate + 1
    BY <1>1 DEF Running, StartupTypeOK
  <2>2. (LastGate = 8 /\ PoolGate = 7 /\ GenesisGate = 4) \/ role # "validator"
    BY DEF LastGate, PoolGate, GenesisGate
  <2>3. (LastGate = 5 /\ PoolGate = 2 /\ GenesisGate = 3) \/ role # "miner"
    BY DEF LastGate, PoolGate, GenesisGate
  <2> QED BY <1>1, <2>1, <2>2, <2>3
<1>3. Running => PoolIsGood
  BY <1>2 DEF StartupInv, PoolHeld
<1>4. UnconfiguredIsPinned /\ ShrinkIsDeclared /\ NothingUngradable
  BY <1>3 DEF UnconfiguredIsPinned, ShrinkIsDeclared, NothingUngradable, PoolIsGood
<1>5. FinneyIsStrict
  BY <1>2 DEF FinneyIsStrict, StartupInv, ChainHeld
<1>6. LiveValidatorIsPinned
  BY <1>2 DEF LiveValidatorIsPinned, StartupInv, EntriesHeld, EnvironmentHeld, WeightsHeld,
              FrameHeld, FrameFits
<1> QED BY <1>1, <1>4, <1>5, <1>6 DEF StartupSafety

(* Whatever the operator sets, the chain answers and the data sets hold, no
   neuron of either role runs with less than its start-up checks promise. *)
THEOREM StartupAlwaysSafe == StartupSpec => []StartupSafety
BY StartupInitially, StartupStep, StartupInvImplies, PTL DEF StartupSpec

(***************************************************************************)
(* CertChain                                                               *)
(***************************************************************************)

(* The intermediates in reach: the vendored one and the carried ones. *)
Certs == {Vendored} \cup Range(carried)

(* What is handed in does not change; the certificate of the walk comes from
   it, and has not been found expired. *)
ChainInput ==
  /\ leaf \in Leaf /\ carried \in Seq(Intermediate \cup {Junk}) /\ Len(carried) <= MaxCarried
  /\ walked \in 0..MaxWalk /\ chainVerdict \in {"walking", "chained", "verified", "refused"}
  /\ walked = MaxWalk => chainVerdict = "refused"

(* From the certificate of the walk down to the leaf, each was issued by the
   next; the last one's window is looked at in the next turn. *)
Descends ==
  \/ cert = leaf /\ walked = 0
  \/ /\ cert \in Intermediate \cap Certs /\ leaf.kind = "leaf" /\ cert.kind # "not_ca"
     /\ cert.kind = "ca" /\ Vouched(cert.signedBy, Certs) => Vouched(leaf.signedBy, Certs)

(* What the walk concludes is what SignedByPinnedRoot asks. *)
ChainedIsVouched ==
  /\ chainVerdict = "verified" => leaf.signs
  /\ chainVerdict \in {"chained", "verified"} => leaf.kind = "leaf" /\ Vouched(leaf.signedBy, Certs)

(* The pinned files alone chain the leaf. *)
PinnedChain ==
  /\ Parses /\ leaf.kind = "leaf"
  /\ <<leaf.issuer, leaf.signedBy>> \in {<<VendoredName, VendoredKey>>, <<RootName, RootKey>>}

(* Along the pinned files the walk climbs at most once. *)
PinnedWalk ==
  /\ PinnedChain /\ chainVerdict = "walking" =>
       (cert = leaf /\ walked = 0) \/ (cert = Vendored /\ walked = 1)
  /\ PinnedChain /\ leaf.signs => chainVerdict # "refused"

(* The invariant: ChainSafety says nothing of a walk that goes on. *)
ChainInv == ChainInput /\ Descends /\ ChainedIsVouched /\ PinnedWalk

(* The pool is the vendored intermediate and then the carried ones. *)
LEMMA PoolMembers ==
  ASSUME carried \in Seq(Intermediate \cup {Junk}), Parses
  PROVE  /\ Pool \in Seq(Intermediate) /\ Pool[1] = Vendored /\ 1 \in DOMAIN Pool
         /\ \A i \in DOMAIN Pool : Pool[i] \in Certs /\ Pool[i].subject # RootName
<1>1. Vendored \in Intermediate /\ Vendored.subject # RootName
  BY ChainAssumption DEF Vendored, Intermediate
<1>2. \A i \in DOMAIN carried : carried[i] \in Intermediate /\ carried[i] \in Range(carried)
  BY DEF Parses, Range
<1>3. carried \in Seq(Intermediate)
  BY <1>2
<1>4. /\ Pool \in Seq(Intermediate) /\ Len(Pool) = 1 + Len(carried)
      /\ \A i \in 1..Len(Pool) : Pool[i] = IF i = 1 THEN Vendored ELSE carried[i - 1]
  BY <1>1, <1>3 DEF Pool
<1>5. \A i \in 2..Len(Pool) : i - 1 \in DOMAIN carried
  BY <1>3, <1>4
<1>6. \A i \in DOMAIN Pool : Pool[i] \in Certs
  BY <1>2, <1>4, <1>5 DEF Certs
<1>7. \A c \in Intermediate : c.subject # RootName
  BY ChainAssumption DEF Intermediate
<1> QED BY <1>3, <1>4, <1>6, <1>7

(* A certificate authority among the certificates passes the root's word on. *)
LEMMA VouchedOn ==
  ASSUME NEW certs, NEW c \in certs, MayIssue(c), Vouched(c.signedBy, certs)
  PROVE  Vouched(c.key, certs)
BY DEF Vouched

(* The root vouches for itself. *)
LEMMA RootIsVouched == \A certs : Vouched(RootKey, certs)
BY DEF Vouched

(* The walk begins at the leaf. *)
LEMMA ChainInitially == ChainInit => ChainInv
<1> SUFFICES ASSUME ChainInit PROVE ChainInv
  OBVIOUS
<1> USE DEF ChainInit, ChainBlank
<1>1. PICK n \in 0..MaxCarried : carried \in [1..n -> Intermediate \cup {Junk}]
  OBVIOUS
<1>2. carried \in Seq(Intermediate \cup {Junk}) /\ Len(carried) = n
  BY <1>1, ChainAssumption
<1>3. ChainInput
  BY <1>2, ChainAssumption DEF ChainInput
<1>4. cert = leaf /\ walked = 0 /\ chainVerdict = "walking"
  OBVIOUS
<1>5. Descends
  BY <1>4 DEF Descends
<1>6. ChainedIsVouched
  BY <1>4 DEF ChainedIsVouched
<1>7. PinnedWalk
  BY <1>4 DEF PinnedWalk
<1> QED BY <1>3, <1>5, <1>6, <1>7 DEF ChainInv

(* A turn of the walk, and the signature after it, keep the invariant. *)
LEMMA ClimbStep == ChainInv /\ [ChainNext]_chainVars => ChainInv'
<1> SUFFICES ASSUME ChainInv, [ChainNext]_chainVars PROVE ChainInv'
  OBVIOUS
<1> USE DEF ChainInv
<1>0. Certs' = Certs /\ (PinnedChain' <=> PinnedChain) /\ leaf' = leaf /\ carried' = carried
  BY DEF ChainNext, chainVars, Climb, StopWalk, CheckSignature, QuoteIsSigned, Certs, PinnedChain, Parses
<1>1. CASE Climb
  <2>1. PICK issuer \in IssuersOf(cert.issuer) :
          /\ Issues(issuer, cert)
          /\ IF issuer = Root THEN chainVerdict' = "chained" /\ UNCHANGED <<cert, walked>>
             ELSE /\ cert' = issuer /\ walked' = walked + 1
                  /\ chainVerdict' = IF walked' = MaxWalk THEN "refused" ELSE "walking"
    BY <1>1 DEF Climb
  <2>2. chainVerdict = "walking" /\ Parses /\ cert.kind # "expired"
    BY <1>1 DEF Climb, CanClimb
  <2>3. leaf.kind = "leaf"
    BY <2>2 DEF Descends, ChainInput, Leaf
  <2>4. Vouched(cert.signedBy, Certs) => Vouched(leaf.signedBy, Certs)
    BY <2>2 DEF Descends, Intermediate
  <2>5. CASE cert.issuer = RootName
    <3>1. issuer = Root /\ cert.signedBy = RootKey
      <4>1. issuer = Root
        BY <2>1, <2>5 DEF IssuersOf
      <4> QED BY <2>1, <4>1 DEF Issues, Root
    <3>2. chainVerdict' = "chained" /\ UNCHANGED <<cert, walked>>
      BY <2>1, <3>1
    <3>3. Vouched(leaf.signedBy, Certs)
      BY <2>4, <3>1, RootIsVouched
    <3> QED BY <1>0, <2>2, <2>3, <3>2, <3>3
          DEF ChainInput, Descends, ChainedIsVouched, PinnedWalk, Vouched
  <2>6. CASE cert.issuer # RootName
    <3>1. PICK i \in DOMAIN Pool :
            /\ issuer = Pool[i] /\ Pool[i].subject = cert.issuer
            /\ \A j \in 1..i - 1 : Pool[j].subject # cert.issuer
      BY <2>1, <2>6 DEF IssuersOf
    <3>2. issuer \in Intermediate \cap Certs /\ issuer # Root
      BY <2>2, <3>1, PoolMembers DEF ChainInput, Root
    <3>3. /\ cert' = issuer /\ walked' = walked + 1
          /\ chainVerdict' = IF walked' = MaxWalk THEN "refused" ELSE "walking"
      BY <2>1, <3>2
    <3>4. ChainInput'
      BY <1>0, <2>2, <3>3, ChainAssumption DEF ChainInput
    <3>5. Vouched(issuer.signedBy, Certs) /\ issuer.kind = "ca" => Vouched(leaf.signedBy, Certs)
      BY <2>1, <2>4, <3>2, VouchedOn DEF MayIssue, Issues
    <3>6. Descends'
      BY <1>0, <2>1, <2>3, <3>2, <3>3, <3>5 DEF Descends, Issues, Vouched
    <3>7. ChainedIsVouched'
      BY <3>3 DEF ChainedIsVouched
    <3>8. ASSUME PinnedChain PROVE issuer = Vendored /\ walked = 0
      <4>1. cert = leaf /\ walked = 0
        BY <2>2, <2>6, <3>8 DEF PinnedWalk, Vendored
      <4>2. Pool[1].subject = VendoredName /\ Pool[1] = Vendored
        BY <2>2, PoolMembers DEF ChainInput, Vendored
      <4>3. cert.issuer = VendoredName
        BY <2>6, <3>8, <4>1 DEF PinnedChain
      <4>4. i = 1
        BY <2>2, <3>1, <4>2, <4>3, PoolMembers DEF ChainInput
      <4> QED BY <3>1, <4>1, <4>2, <4>4
    <3>9. PinnedWalk'
      BY <1>0, <3>3, <3>8, ChainAssumption DEF PinnedWalk
    <3> QED BY <3>4, <3>6, <3>7, <3>9
  <2> QED BY <2>5, <2>6
<1>2. CASE StopWalk
  <2>1. ~PinnedChain
    <3> SUFFICES ASSUME PinnedChain PROVE CanClimb
      BY <1>2 DEF StopWalk
    <3>0. chainVerdict = "walking" /\ Parses
      BY <1>2 DEF StopWalk, PinnedChain
    <3>1. CASE cert.issuer = RootName
      <4>1. cert.signedBy = RootKey /\ cert.kind # "expired"
        BY <3>0, <3>1, ChainAssumption DEF PinnedWalk, PinnedChain, Vendored
      <4> QED BY <3>0, <3>1, <4>1 DEF CanClimb, IssuersOf, Issues, Root
    <3>2. CASE cert.issuer # RootName
      <4>1. cert = leaf /\ cert.issuer = VendoredName /\ cert.signedBy = VendoredKey /\ cert.kind # "expired"
        BY <3>0, <3>2 DEF PinnedWalk, PinnedChain, Vendored
      <4>2. 1 \in DOMAIN Pool /\ Pool[1] = Vendored
        BY <3>0, PoolMembers DEF ChainInput
      <4>3. Vendored \in IssuersOf(cert.issuer)
        BY <3>2, <4>1, <4>2 DEF IssuersOf, Vendored
      <4> QED BY <3>0, <4>1, <4>3 DEF CanClimb, Issues, Vendored
    <3> QED BY <3>1, <3>2
  <2> QED BY <1>0, <1>2, <2>1
        DEF StopWalk, ChainInput, Descends, ChainedIsVouched, PinnedWalk, Vouched
<1>3. CASE CheckSignature
  BY <1>0, <1>3 DEF CheckSignature, QuoteIsSigned, ChainInput, Descends, ChainedIsVouched, PinnedWalk, Vouched
<1>4. CASE UNCHANGED chainVars
  BY <1>0, <1>4 DEF chainVars, ChainInput, Descends, ChainedIsVouched, PinnedWalk, Vouched
<1> QED BY <1>1, <1>2, <1>3, <1>4 DEF ChainNext

(* The invariant is stronger. *)
LEMMA ChainInvImplies == ChainInv => ChainSafety
<1> SUFFICES ASSUME ChainInv PROVE ChainSafety
  OBVIOUS
<1> USE DEF ChainInv
<1>1. ChainTypeOK
  <2>1. Range(carried) \subseteq Intermediate \cup {Junk}
    BY DEF ChainInput, Range
  <2>2. cert \in Leaf \cup Intermediate
    BY DEF ChainInput, Descends
  <2> QED BY <2>1, <2>2 DEF ChainInput, ChainTypeOK
<1>2. VerifiedIsVouched
  BY DEF ChainedIsVouched, VerifiedIsVouched, Certs
<1>3. VendoredIsNotShadowed
  BY DEF PinnedWalk, PinnedChain, VendoredIsNotShadowed
<1> QED BY <1>1, <1>2, <1>3 DEF ChainSafety

(* Whatever certificates the TPM carries, in whatever order: only a leaf that
   certificates lead from to the pinned root is accepted, and one that the
   pinned files chain is. *)
THEOREM ChainAlwaysSafe == ChainSpec => []ChainSafety
<1>1. ChainInit => ChainInv
  BY ChainInitially
<1>2. ChainInv /\ [ChainNext]_chainVars => ChainInv'
  BY ClimbStep
<1>3. ChainInv => ChainSafety
  BY ChainInvImplies
<1> QED BY <1>1, <1>2, <1>3, PTL DEF ChainSpec

(***************************************************************************)
(* ProofVerification                                                       *)
(***************************************************************************)

Share == Total \div N

(* What the four properties need: as long as a response is left, what is
   left of the budget is at least one share for each proof still expected. *)
Books ==
  /\ clock + remaining = Total
  /\ IsFiniteSet(todo) /\ Cardinality(todo) <= proofs_left
  /\ todo # {} => remaining >= Share * proofs_left

BudgetInv == TypeOK /\ Books /\ FairShare /\ UncheckedIsOwnFetch /\ VerdictIsEarned
        /\ \A u \in todo : verdict[u] = "pending"

(* Division: the quotient is the largest share that fits. *)
LEMMA Quotient ==
  ASSUME NEW r \in Nat, NEW l \in Nat \ {0}
  PROVE  /\ r \div l \in Nat
         /\ (r \div l) * l <= r
         /\ \A s \in Nat : r >= s * l => r \div l >= s
  OBVIOUS

(* Whatever a fetch costs within its share, the others keep theirs. *)
LEMMA ShareKept ==
  ASSUME NEW r \in Nat, NEW l \in Nat, NEW e \in Nat, NEW s \in Nat,
         l > 1, r >= s * l, e * l <= r
  PROVE  r - e >= s * (l - 1)
<1>1. CASE e <= s
  <2>1. s * (l - 1) = s * l - s
    OBVIOUS
  <2> QED
    BY <1>1, <2>1
<1>2. CASE e > s
  <2>1. e * (l - 1) = e * l - e
    OBVIOUS
  <2>2. e * (l - 1) >= s * (l - 1)
    BY <1>2
  <2> QED
    BY <2>1, <2>2
<1> QED
  BY <1>1, <1>2

(* The equal share is at least one, and all shares fit in the total. *)
LEMMA ShareIsPositive == Share \in Nat /\ Share >= 1 /\ Share * N <= Total
  BY Quotient, BudgetAssumption DEF Share

(* The next allowance is at least a share, at most what is left of it. *)
LEMMA AllowanceBounds ==
  ASSUME TypeOK, Books, todo # {}
  PROVE  /\ Allowance \in 0..Timeout /\ Allowance <= remaining
         /\ Allowance * proofs_left <= remaining
         /\ Allowance >= Least(Timeout, Share)
         /\ remaining >= 1
<1> USE BudgetAssumption
<1>1. /\ remaining \in Nat /\ proofs_left \in Nat \ {0}
      /\ remaining >= Share * proofs_left
  BY DEF TypeOK, Books
<1> DEFINE q == remaining \div proofs_left
<1>2. q \in Nat /\ q * proofs_left <= remaining /\ q >= Share
  BY <1>1, Quotient, ShareIsPositive
<1>3. remaining >= 1
  <2>1. Share * proofs_left >= 1
    BY <1>1, ShareIsPositive
  <2> QED
    BY <1>1, <2>1, ShareIsPositive
<1> HIDE DEF q
<1>4. Allowance = Least(Timeout, Least(remaining, q))
  BY DEF Allowance, q
<1>5. Allowance \in Nat /\ Allowance <= Timeout /\ Allowance <= remaining /\ Allowance <= q
  BY <1>1, <1>2, <1>4 DEF Least
<1>6. Allowance * proofs_left <= q * proofs_left
  BY <1>1, <1>2, <1>5
<1>7. Allowance * proofs_left \in Nat /\ q * proofs_left \in Nat
  BY <1>1, <1>2, <1>5
<1>8. Allowance >= Least(Timeout, Share)
  <2>1. q <= remaining
    BY <1>1, <1>2
  <2> QED
    BY <1>1, <1>2, <1>4, <2>1, ShareIsPositive DEF Least
<1> QED
  BY <1>1, <1>2, <1>3, <1>5, <1>6, <1>7, <1>8

(* One response less is to do. *)
LEMMA TodoShrinks ==
  ASSUME Books, NEW u \in todo
  PROVE  /\ IsFiniteSet(todo \ {u})
         /\ Cardinality(todo \ {u}) = Cardinality(todo) - 1
         /\ Cardinality(todo) \in Nat /\ Cardinality(todo) >= 1
         /\ Cardinality(todo) = 1 => todo \ {u} = {}
<1>1. IsFiniteSet(todo)
  BY DEF Books
<1>2. /\ IsFiniteSet(todo \ {u})
      /\ Cardinality(todo \ {u}) = Cardinality(todo) - 1
  BY <1>1, FS_RemoveElement
<1>3. Cardinality(todo) \in Nat /\ Cardinality(todo \ {u}) \in Nat
  BY <1>1, <1>2, FS_CardinalityType
<1>4. Cardinality(todo \ {u}) = 0 => todo \ {u} = {}
  BY <1>2, FS_EmptySet
<1> QED
  BY <1>2, <1>3, <1>4

(* A response dealt with without a fetch. *)
LEMMA NoFetch ==
  ASSUME BudgetInv, NEW u \in todo, NEW v \in Verdict, Record(u, v),
         UNCHANGED <<budget, dials, clock>>,
         v = "unverifiable" => timeouts >= MaxTimeouts,
         v = "invalid" => responses[u] = "local", v # "valid"
  PROVE  BudgetInv'
<1> USE DEF BudgetInv, Record, budget
<1>1. TypeOK'
  BY DEF TypeOK
<1>2. Books'
  <2>1. /\ todo' = todo \ {u} /\ IsFiniteSet(todo')
        /\ Cardinality(todo') = Cardinality(todo) - 1
        /\ Cardinality(todo) \in Nat
    BY TodoShrinks
  <2>2. proofs_left \in Nat /\ Cardinality(todo) <= proofs_left
    BY BudgetAssumption DEF Books, TypeOK
  <2>3. Cardinality(todo') <= proofs_left
    BY <2>1, <2>2
  <2> QED
    BY <2>1, <2>3 DEF Books
<1>3. FairShare'
  BY DEF FairShare
<1>4. UncheckedIsOwnFetch'
  BY DEF UncheckedIsOwnFetch, TypeOK
<1>5. VerdictIsEarned'
  BY DEF VerdictIsEarned, TypeOK
<1>6. (\A x \in todo : verdict[x] = "pending")'
  BY DEF TypeOK
<1> QED
  BY <1>1, <1>2, <1>3, <1>4, <1>5, <1>6

(* A response dealt with by a fetch of outcome o, of e ticks. *)
LEMMA Fetch ==
  ASSUME BudgetInv, ~Exhausted, NEW u \in todo, NEW v \in Verdict, Record(u, v),
         NEW o \in {"answered", "failed", "stalled"}, Dialled(u, o),
         NEW e \in 0..Allowance, Spend(e), timeouts' \in 0..MaxTimeouts,
         v = "unverifiable" => o # "answered",
         v = "invalid" => responses[u] \in {"quote", "image"},
         v = "valid" => responses[u] = "genuine" /\ o = "answered"
  PROVE  BudgetInv'
<1> USE BudgetAssumption
<1> DEFINE d == [uid |-> u, given |-> Allowance, outcome |-> o]
<1>1. /\ Allowance \in 0..Timeout /\ Allowance <= remaining
      /\ Allowance * proofs_left <= remaining
      /\ Allowance >= Least(Timeout, Share)
  BY AllowanceBounds DEF BudgetInv
<1>2. /\ d \in Dial /\ dials \in Seq(Dial) /\ dials' = Append(dials, d)
      /\ d.given = Allowance /\ d.uid = u /\ d.outcome = o
  BY <1>1 DEF BudgetInv, TypeOK, Dial, Dialled
<1>3. /\ dials' \in Seq(Dial) /\ Len(dials) \in Nat
      /\ Len(dials') = Len(dials) + 1 /\ dials'[Len(dials) + 1] = d
      /\ \A i \in 1..Len(dials) : dials'[i] = dials[i]
  <2> HIDE DEF d
  <2> QED
    BY <1>2
<1> HIDE DEF d
<1>4. \A i \in 1..Len(dials') : i \in 1..Len(dials) \/ i = Len(dials) + 1
  BY <1>3
<1>5. /\ remaining \in Nat /\ proofs_left \in Nat /\ e \in Nat /\ clock \in Nat
      /\ remaining' = remaining - e /\ clock' = clock + e
      /\ proofs_left' = IF proofs_left > 1 THEN proofs_left - 1 ELSE 1
      /\ e <= Allowance /\ Allowance \in Nat
  BY <1>1 DEF BudgetInv, TypeOK, Spend
<1>6. TypeOK'
  BY <1>1, <1>3, <1>5 DEF BudgetInv, TypeOK, Record
<1>7. Books'
  <2>1. todo' = todo \ {u}
    BY DEF Record
  <2>2. e * proofs_left <= remaining
    <3>1. e * proofs_left <= Allowance * proofs_left
      BY <1>5
    <3> QED
      BY <3>1, <1>1, <1>5
  <2>3. CASE proofs_left > 1
    <3>1. remaining' >= Share * proofs_left'
      BY <2>2, <2>3, <1>5, ShareKept, ShareIsPositive DEF BudgetInv, Books
    <3> QED
      BY <3>1, <2>1, <2>3, <1>5, TodoShrinks DEF BudgetInv, Books
  <2>4. CASE ~(proofs_left > 1)
    <3>1. todo' = {} /\ Cardinality(todo') = 0
      BY <2>1, <2>4, <1>5, TodoShrinks DEF BudgetInv, Books
    <3> QED
      BY <3>1, <2>1, <2>4, <1>5, TodoShrinks DEF BudgetInv, Books
  <2> QED
    BY <2>3, <2>4
<1>8. FairShare'
  BY <1>1, <1>2, <1>3, <1>4 DEF BudgetInv, FairShare, Share
<1>9. UncheckedIsOwnFetch'
  <2>1. ~(timeouts >= MaxTimeouts)
    BY DEF Exhausted
  <2> SUFFICES ASSUME NEW x \in Uids, verdict'[x] = "unverifiable"
               PROVE \E i \in 1..Len(dials') :
                       dials'[i].uid = x /\ dials'[i].outcome # "answered"
    BY DEF UncheckedIsOwnFetch
  <2>2. CASE x = u
    <3>1. v = "unverifiable"
      BY <2>2 DEF BudgetInv, TypeOK, Record
    <3> QED
      BY <3>1, <2>2, <1>2, <1>3
  <2>3. CASE x # u
    <3>1. verdict[x] = "unverifiable"
      BY <2>3 DEF BudgetInv, TypeOK, Record
    <3>2. PICK i \in 1..Len(dials) :
                 dials[i].uid = x /\ dials[i].outcome # "answered"
      BY <3>1, <2>1 DEF BudgetInv, UncheckedIsOwnFetch
    <3> QED
      BY <3>2, <1>3
  <2> QED
    BY <2>2, <2>3
<1>10. VerdictIsEarned'
  <2> SUFFICES ASSUME NEW x \in Uids
               PROVE /\ verdict'[x] = "invalid" =>
                          responses'[x] \in {"local", "quote", "image"}
                     /\ verdict'[x] = "valid" =>
                          /\ responses'[x] = "genuine"
                          /\ \E i \in 1..Len(dials') :
                               dials'[i].uid = x /\ dials'[i].outcome = "answered"
    BY DEF VerdictIsEarned
  <2>1. responses' = responses
    BY DEF Record
  <2>2. CASE x = u
    <3>1. verdict'[x] = v
      BY <2>2 DEF BudgetInv, TypeOK, Record
    <3> QED
      BY <3>1, <2>1, <2>2, <1>2, <1>3
  <2>3. CASE x # u
    <3>1. verdict'[x] = verdict[x]
      BY <2>3 DEF BudgetInv, TypeOK, Record
    <3> QED
      BY <3>1, <2>1, <1>3 DEF BudgetInv, VerdictIsEarned
  <2> QED
    BY <2>2, <2>3
<1>11. (\A x \in todo : verdict[x] = "pending")'
  BY DEF BudgetInv, TypeOK, Record
<1> QED
  BY <1>6, <1>7, <1>8, <1>9, <1>10, <1>11 DEF BudgetInv

(* The whole budget is there. *)
LEMMA BudgetInitially == Init => BudgetInv
<1> SUFFICES ASSUME Init PROVE BudgetInv
  OBVIOUS
<1> USE BudgetAssumption DEF Init
<1>1. TypeOK
  BY DEF TypeOK, Verdict
<1>2. Books
  <2>1. IsFiniteSet(1..N) /\ Cardinality(1..N) = N
    BY FS_Interval
  <2> QED
    BY <2>1, ShareIsPositive DEF Books, Uids
<1>3. FairShare /\ UncheckedIsOwnFetch /\ VerdictIsEarned
  BY DEF FairShare, UncheckedIsOwnFetch, VerdictIsEarned
<1> QED
  BY <1>1, <1>2, <1>3 DEF BudgetInv

(* Every step keeps the invariant. *)
LEMMA BudgetStep == BudgetInv /\ [Next]_vars => BudgetInv'
<1> SUFFICES ASSUME BudgetInv, [Next]_vars PROVE BudgetInv'
  OBVIOUS
<1>1. CASE UNCHANGED vars
  BY <1>1 DEF vars, budget, BudgetInv, TypeOK, Books, FairShare,
              UncheckedIsOwnFetch, VerdictIsEarned
<1>2. ASSUME NEW u \in todo, Check(u) PROVE BudgetInv'
  <2>1. CASE SkipAbsent(u)
    BY <2>1, NoFetch DEF SkipAbsent, Verdict
  <2>2. CASE RejectLocally(u)
    BY <2>2, NoFetch DEF RejectLocally, Verdict
  <2>3. CASE RefuseToDial(u)
    <3>1. timeouts >= MaxTimeouts
      <4>1. remaining >= 1 /\ remaining \in Nat
        BY AllowanceBounds DEF BudgetInv, TypeOK
      <4> QED
        BY <2>3, <4>1 DEF RefuseToDial, Exhausted
    <3> QED
      BY <2>3, <3>1, NoFetch DEF RefuseToDial, Verdict
  <2>4. CASE FetchAnswers(u)
    <3>1. PICK e \in 0..Allowance : Spend(e)
      BY <2>4 DEF FetchAnswers
    <3>2. timeouts' \in 0..MaxTimeouts
      BY <2>4, BudgetAssumption DEF FetchAnswers
    <3> QED
      BY <2>4, <3>1, <3>2, Fetch DEF FetchAnswers, NeedsCollateral, Verdict
  <2>5. CASE FetchFails(u)
    <3>1. PICK e \in 0..Allowance : Spend(e)
      BY <2>5 DEF FetchFails
    <3>2. timeouts' \in 0..MaxTimeouts
      BY <2>5, BudgetAssumption DEF FetchFails
    <3> QED
      BY <2>5, <3>1, <3>2, Fetch DEF FetchFails, Verdict
  <2>6. CASE FetchStalls(u)
    <3>1. Allowance \in 0..Allowance
      BY AllowanceBounds DEF BudgetInv
    <3>2. timeouts' \in 0..MaxTimeouts
      BY <2>6, BudgetAssumption DEF FetchStalls, Exhausted, BudgetInv, TypeOK
    <3> QED
      BY <2>6, <3>1, <3>2, Fetch DEF FetchStalls, Verdict
  <2> QED
    BY <1>2, <2>1, <2>2, <2>3, <2>4, <2>5, <2>6 DEF Check
<1> QED
  BY <1>1, <1>2 DEF Next

(* The invariant holds of every behaviour. *)
LEMMA BudgetInductive == Spec => []BudgetInv
  BY BudgetInitially, BudgetStep, PTL DEF Spec

-----------------------------------------------------------------------------
(* The breaker's count is that of the stalls given the whole timeout since the
   last answer. *)
FairStalls(s, k) == {i \in k + 1..Len(s) : FairlyStalled(s[i])}

Evidenced ==
  \E k \in 0..Len(dials) :
    /\ \A i \in k + 1..Len(dials) : Stalled(dials[i])
    /\ Cardinality(FairStalls(dials, k)) >= timeouts

(* The stalled fetches counted are finitely many. *)
LEMMA FairStallsFinite ==
  ASSUME NEW s \in Seq(Dial), NEW k \in Nat
  PROVE  IsFiniteSet(FairStalls(s, k)) /\ Cardinality(FairStalls(s, k)) \in Nat
<1>1. FairStalls(s, k) \in SUBSET (k + 1..Len(s)) /\ k + 1 \in Int /\ Len(s) \in Int
  BY DEF FairStalls
<1>2. IsFiniteSet(k + 1..Len(s))
  BY <1>1, FS_Interval
<1> QED
  BY <1>1, <1>2, FS_Subset, FS_CardinalityType

(* An answer, good or bad, starts the count afresh. *)
LEMMA AnswerEvidenced ==
  ASSUME TypeOK, TypeOK', timeouts' = 0
  PROVE  Evidenced'
<1>1. Len(dials') \in Nat /\ Len(dials') + 1..Len(dials') = {}
  BY DEF TypeOK
<1>2. FairStalls(dials', Len(dials')) = {}
  BY <1>1 DEF FairStalls
<1>3. Cardinality(FairStalls(dials', Len(dials'))) >= 0
  BY <1>2, FS_EmptySet
<1> QED
  BY <1>1, <1>3 DEF Evidenced

(* A stall adds one at most, and only if it was given the whole timeout. *)
LEMMA StallEvidenced ==
  ASSUME TypeOK, TypeOK', Evidenced, NEW u \in todo, FetchStalls(u)
  PROVE  Evidenced'
<1> DEFINE d == [uid |-> u, given |-> Allowance, outcome |-> "stalled"]
           n == Len(dials)
<1>1. dials \in Seq(Dial) /\ dials' = Append(dials, d) /\ n \in Nat /\ timeouts \in Nat
  BY DEF FetchStalls, Dialled, TypeOK
<1>2. /\ dials' \in Seq(Dial) /\ Len(dials') = n + 1 /\ dials'[n + 1] = d
      /\ \A i \in 1..n : dials'[i] = dials[i]
  <2> HIDE DEF d
  <2>1. dials' \in Seq(Dial)
    BY DEF TypeOK
  <2> QED
    BY <1>1, <2>1
<1>3. /\ Stalled(d) /\ (Allowance >= Timeout => FairlyStalled(d))
      /\ timeouts' = IF Allowance >= Timeout THEN timeouts + 1 ELSE timeouts
  BY DEF Stalled, FairlyStalled, FetchStalls
<1> HIDE DEF d
<1>4. PICK k \in 0..n : /\ \A i \in k + 1..n : Stalled(dials[i])
                        /\ Cardinality(FairStalls(dials, k)) >= timeouts
  BY DEF Evidenced
<1>5. k \in 0..Len(dials') /\ \A i \in k + 1..Len(dials') : Stalled(dials'[i])
  BY <1>1, <1>2, <1>3, <1>4
<1>6. /\ FairStalls(dials, k) \subseteq FairStalls(dials', k)
      /\ FairlyStalled(d) => n + 1 \in FairStalls(dials', k)
      /\ n + 1 \notin FairStalls(dials, k)
  BY <1>1, <1>2, <1>4 DEF FairStalls
<1>7. /\ IsFiniteSet(FairStalls(dials, k)) /\ Cardinality(FairStalls(dials, k)) \in Nat
      /\ IsFiniteSet(FairStalls(dials', k)) /\ Cardinality(FairStalls(dials', k)) \in Nat
  <2>1. k \in Nat /\ dials \in Seq(Dial) /\ dials' \in Seq(Dial)
    BY <1>1, <1>2, <1>4
  <2>2. IsFiniteSet(FairStalls(dials, k)) /\ Cardinality(FairStalls(dials, k)) \in Nat
    BY <2>1, FairStallsFinite
  <2>3. IsFiniteSet(FairStalls(dials', k)) /\ Cardinality(FairStalls(dials', k)) \in Nat
    BY <2>1, FairStallsFinite
  <2> QED
    BY <2>2, <2>3
<1>8. Cardinality(FairStalls(dials, k)) <= Cardinality(FairStalls(dials', k))
  BY <1>6, <1>7, FS_Subset
<1>9. ASSUME Allowance >= Timeout
      PROVE  Cardinality(FairStalls(dials, k)) + 1 <= Cardinality(FairStalls(dials', k))
  <2>1. FairStalls(dials, k) \cup {n + 1} \in SUBSET FairStalls(dials', k)
    BY <1>3, <1>6, <1>9
  <2>2. Cardinality(FairStalls(dials, k) \cup {n + 1}) = Cardinality(FairStalls(dials, k)) + 1
    BY <1>6, <1>7, FS_AddElement
  <2>3. Cardinality(FairStalls(dials, k) \cup {n + 1}) <= Cardinality(FairStalls(dials', k))
    BY <2>1, <1>7, FS_Subset
  <2> QED
    BY <2>2, <2>3
<1>10. Cardinality(FairStalls(dials', k)) >= timeouts'
  BY <1>1, <1>3, <1>4, <1>7, <1>8, <1>9
<1> QED
  BY <1>5, <1>10 DEF Evidenced

(* Nothing is counted yet. *)
LEMMA InitEvidenced == Init => Evidenced
<1> SUFFICES ASSUME Init PROVE Evidenced
  OBVIOUS
<1>1. Len(dials) = 0 /\ FairStalls(dials, 0) = {} /\ timeouts = 0
  BY DEF Init, FairStalls
<1>2. Cardinality(FairStalls(dials, 0)) >= timeouts
  BY <1>1, FS_EmptySet
<1> QED
  BY <1>1, <1>2 DEF Evidenced

(* Every step keeps the counts earned. *)
LEMMA StepEvidenced == TypeOK /\ TypeOK' /\ Evidenced /\ [Next]_vars => Evidenced'
<1> SUFFICES ASSUME TypeOK, TypeOK', Evidenced, [Next]_vars PROVE Evidenced'
  OBVIOUS
<1>1. CASE UNCHANGED <<dials, timeouts>>
  BY <1>1 DEF Evidenced, FairStalls
<1>2. ASSUME NEW u \in todo, Check(u) PROVE Evidenced'
  <2>1. CASE SkipAbsent(u) \/ RejectLocally(u) \/ RefuseToDial(u)
    BY <2>1, <1>1 DEF SkipAbsent, RejectLocally, RefuseToDial, budget
  <2>2. CASE FetchAnswers(u) \/ FetchFails(u)
    BY <2>2, AnswerEvidenced DEF FetchAnswers, FetchFails
  <2>3. CASE FetchStalls(u)
    BY <2>3, StallEvidenced
  <2> QED
    BY <1>2, <2>1, <2>2, <2>3 DEF Check
<1>3. CASE UNCHANGED vars
  BY <1>1, <1>3 DEF vars, budget
<1> QED
  BY <1>2, <1>3 DEF Next

(* The budget, the breaker and the verdicts keep their types. *)
THEOREM BudgetTypeCorrect == Spec => []TypeOK
<1>1. BudgetInv => TypeOK
  BY DEF BudgetInv
<1> QED
  BY BudgetInductive, <1>1, PTL

(* CollateralBudget.spend: no endpoint makes the phase wait longer than the
   epoch's budget. *)
THEOREM CeilingAlwaysHolds == Spec => []CeilingHolds
<1>1. BudgetInv => CeilingHolds
  BY BudgetAssumption DEF BudgetInv, TypeOK, Books, CeilingHolds
<1> QED
  BY BudgetInductive, <1>1, PTL

(* CollateralBudget.allowance: every fetch is given the timeout or an equal
   share of the budget, in whatever order the miners come. *)
THEOREM ShareAlwaysFair == Spec => []FairShare
<1>1. BudgetInv => FairShare
  BY DEF BudgetInv
<1> QED
  BY BudgetInductive, <1>1, PTL

(* verify_dcap: no proof goes unchecked on account of another miner's fetch,
   short of the breaker. *)
THEOREM UncheckedAlwaysOwnFetch == Spec => []UncheckedIsOwnFetch
<1>1. BudgetInv => UncheckedIsOwnFetch
  BY DEF BudgetInv
<1> QED
  BY BudgetInductive, <1>1, PTL

(* The verify loop: an outage is never called an invalid proof, and no proof
   passes without its collateral. *)
THEOREM VerdictAlwaysEarned == Spec => []VerdictIsEarned
<1>1. BudgetInv => VerdictIsEarned
  BY DEF BudgetInv
<1> QED
  BY BudgetInductive, <1>1, PTL

(* CollateralBudget.record_timeout, record_completion: the breaker opens only
   after the endpoint left MaxTimeouts fetches unanswered that were given the
   whole timeout, and answered none since. *)
THEOREM CircuitAlwaysEvidence == Spec => []CircuitIsEvidence
<1>1. Spec => []Evidenced
  BY InitEvidenced, StepEvidenced, BudgetTypeCorrect, PTL DEF Spec
<1>2. TypeOK /\ Evidenced => CircuitIsEvidence
  <2> SUFFICES ASSUME TypeOK, Evidenced, timeouts >= MaxTimeouts
               PROVE  \E k \in 0..Len(dials) :
                        /\ \A i \in k + 1..Len(dials) : Stalled(dials[i])
                        /\ Cardinality(FairStalls(dials, k)) >= MaxTimeouts
    BY DEF CircuitIsEvidence, FairStalls
  <2>1. PICK k \in 0..Len(dials) :
          /\ \A i \in k + 1..Len(dials) : Stalled(dials[i])
          /\ Cardinality(FairStalls(dials, k)) >= timeouts
    BY DEF Evidenced
  <2>2. Cardinality(FairStalls(dials, k)) \in Nat /\ timeouts \in Nat
    BY <2>1, FairStallsFinite DEF TypeOK
  <2> QED
    BY <2>1, <2>2, BudgetAssumption
<1> QED
  BY <1>1, <1>2, BudgetTypeCorrect, PTL

(* CollateralBudget bounds and shares the time of an epoch, for any field,
   budget and timeout. *)
THEOREM BudgetAlwaysFair == Spec => []BudgetIsFair
BY BudgetTypeCorrect, CeilingAlwaysHolds, ShareAlwaysFair, UncheckedAlwaysOwnFetch, PTL DEF BudgetIsFair

(***************************************************************************)
(* ProofChecks                                                             *)
(***************************************************************************)

(* A boot's events on a measured one *)
BootLog(n) == <<<<"compose-hash", app>>, <<"instance-id", n>>>>

(* What the register of a measured image holds: the boot's own events. *)
Register ==
  /\ image = "measured" => IF boot = 0 THEN extends = <<>> ELSE extends = BootLog(boot)
  /\ process # Stopped => boot > 0

(* A proof is covered by the quote of the machine and the boot it was made in. *)
MadeHere(b) ==
  /\ b.body \in Body /\ b.quote.report = b.body /\ b.quote.image = image /\ b.app = app
  /\ image = "measured" =>
       /\ b.log = b.quote.rtmr3
       /\ \E n \in 1..MaxBoots : b.quote.rtmr3 = BootLog(n)
  /\ image # "measured" => b.log = <<>>

(* Every proof there is was made here. *)
ProofsMadeHere == \A i \in 1..Len(bundles) : MadeHere(bundles[i])

(* What a proof is kept as. *)
Bundles == [body : Body, quote : [report : Body, image : Images, rtmr3 : Seq(Events)],
            log : Seq(Events), app : Apps]

(* The thirteen checks, by their place. *)
LEMMA Places ==
  /\ DOMAIN LocalOrder = 1..13
  /\ LocalOrder[1] = "hotkey" /\ LocalOrder[2] = "unwrap" /\ LocalOrder[3] = "report"
  /\ LocalOrder[4] = "nonce" /\ LocalOrder[5] = "questions" /\ LocalOrder[6] = "head"
  /\ LocalOrder[7] = "contract" /\ LocalOrder[8] = "advertised" /\ LocalOrder[9] = "failures"
  /\ LocalOrder[10] = "costs" /\ LocalOrder[11] = "hardware" /\ LocalOrder[12] = "image"
  /\ LocalOrder[13] = "app"
BY DEF LocalOrder

(* No name stands twice in the order. *)
LEMMA HardwareIsEleventh == Position("hardware") = 11
<1>1. \A i \in 1..13 : LocalOrder[i] = "hardware" => i = 11
  BY Places
<1> QED BY <1>1, Places DEF Position

(* Each check by its name. *)
LEMMA WhatPasses ==
  ASSUME NEW d, NEW by
  PROVE  /\ Passes("hotkey", d, by) <=> BodyOf(d).hotkey = AskedHotkey
         /\ Passes("unwrap", d, by) <=> Unwraps(d)
         /\ Passes("report", d, by) <=> QuoteOf(d).report = BodyOf(d)
         /\ Passes("nonce", d, by) <=> BodyOf(d).nonce = nonce
         /\ Passes("questions", d, by) <=> BodyOf(d).course # "other_pool"
         /\ Passes("head", d, by) <=> /\ BodyOf(d).head = "committed"
                                      /\ bundles[d.of["response"]].body.head = BodyOf(d).head
         /\ Passes("contract", d, by) <=> by = "validator"
         /\ Passes("advertised", d, by) <=> bundles[d.of["response"]].body = BodyOf(d)
         /\ Passes("failures", d, by) <=> BodyOf(d).course # "exploration_failed"
         /\ Passes("costs", d, by) <=> BodyOf(d).course # "record_late"
         /\ Passes("hardware", d, by) <=> QuoteOf(d).image # "none"
         /\ Passes("image", d, by) <=> Approved[QuoteOf(d).image] # {}
         /\ Passes("app", d, by) <=> AppMatches(d)
BY DEF Passes, MeasurementId

(* A part of a delivery is of a proof made here. *)
LEMMA PartsAreMade ==
  ASSUME ProofsMadeHere, NEW d \in [of : [Parts -> DOMAIN bundles], names : Apps],
         NEW part \in Parts, bundles \in Seq(Bundles)
  PROVE  MadeHere(bundles[d.of[part]])
<1>1. d.of[part] \in 1..Len(bundles)
  OBVIOUS
<1> QED BY <1>1 DEF ProofsMadeHere

(* A check that does not stop a proof was skipped or passed. *)
LEMMA NothingStops ==
  ASSUME NEW d, NEW mock, NEW by, Stops(d, mock, by) = {}, NEW i \in 1..13
  PROVE  LocalOrder[i] \in Skipped(mock, by) \/ Passes(LocalOrder[i], d, by)
BY Places DEF Stops

(* What the last check has found on either image: a log that reproduces the
   register and names an approved application, or one extend of an approved
   identity. *)
LEMMA MatchedSays ==
  ASSUME NEW q, MadeHere(q), NEW l, MadeHere(l), NEW d, QuoteOf(d) = q.quote, LogOf(d) = l.log,
         AppMatches(d), Approved[q.quote.image] # {}, image \in Images
  PROVE  /\ image # "none" /\ q.app = app
         /\ image = "measured" => l.quote.rtmr3 = q.quote.rtmr3 /\ d.names = "approved"
         /\ image = "plain" => q.quote.rtmr3 = <<RuntimeIdentity("approved")>>
<1>1. image # "none" /\ q.quote.image = image /\ q.app = app
  BY DEF MadeHere, Approved, Images
<1>2. ASSUME image = "measured"
      PROVE  l.quote.rtmr3 = q.quote.rtmr3 /\ d.names = "approved"
  <2>1. PICK n \in 1..MaxBoots : l.log = BootLog(n) /\ l.log = l.quote.rtmr3
    BY <1>2 DEF MadeHere
  <2>2. l.log # <<>>
    BY <2>1 DEF BootLog
  <2>3. l.log = q.quote.rtmr3 /\ d.names \in Approved["measured"]
    BY <2>2 DEF AppMatches
  <2> QED BY <2>1, <2>3 DEF Approved
<1>3. ASSUME image = "plain"
      PROVE  q.quote.rtmr3 = <<RuntimeIdentity("approved")>>
  <2>1. l.log = <<>>
    BY <1>3 DEF MadeHere
  <2> QED BY <2>1, <1>1, <1>3 DEF AppMatches, MeasurementId, ExpectedRtmr3, Approved
<1> QED BY <1>1, <1>2, <1>3

(* What no check stops is what it says it is. *)
LEMMA WhatValidMeans ==
  ASSUME ProofsMadeHere, bundles \in Seq(Bundles), image \in Images,
         NEW d \in [of : [Parts -> DOMAIN bundles], names : Apps], NEW mock \in BOOLEAN,
         NEW by \in {"validator", "script"}, Stops(d, mock, by) = {}
  PROVE  /\ bundles[d.of["body"]].body = bundles[d.of["quote"]].body
         /\ bundles[d.of["body"]].body.hotkey = AskedHotkey
         /\ bundles[d.of["body"]].body.nonce = nonce
         /\ by = "validator" => bundles[d.of["response"]].body.head = "committed"
         /\ ~mock =>
              /\ image # "none" /\ bundles[d.of["quote"]].app = app
              /\ image = "measured" =>
                   /\ bundles[d.of["tpm"]].quote = bundles[d.of["quote"]].quote
                   /\ bundles[d.of["log"]].quote.rtmr3 = bundles[d.of["quote"]].quote.rtmr3
                   /\ d.names = "approved"
              /\ image = "plain" =>
                   bundles[d.of["quote"]].quote.rtmr3 = <<RuntimeIdentity("approved")>>
<1>1. MadeHere(bundles[d.of["quote"]]) /\ MadeHere(bundles[d.of["log"]])
  BY PartsAreMade DEF Parts
<1> DEFINE Cleared(i) == LocalOrder[i] \in Skipped(mock, by) \/ Passes(LocalOrder[i], d, by)
<1>a. Cleared(1) /\ Cleared(2) /\ Cleared(3) /\ Cleared(4) /\ Cleared(6) /\ Cleared(12) /\ Cleared(13)
  BY NothingStops
<1>2. /\ Passes("hotkey", d, by) /\ Passes("unwrap", d, by) /\ Passes("report", d, by)
      /\ Passes("nonce", d, by)
  BY <1>a, Places, SMTT(30) DEF Skipped
<1>3. by = "validator" => Passes("head", d, by)
  BY <1>a, Places DEF Skipped
<1>4. ~mock => Passes("image", d, by) /\ Passes("app", d, by)
  BY <1>a, Places DEF Skipped
<1>5. /\ bundles[d.of["body"]].body = bundles[d.of["quote"]].body
      /\ bundles[d.of["body"]].body.hotkey = AskedHotkey
      /\ bundles[d.of["body"]].body.nonce = nonce
  BY <1>1, <1>2, WhatPasses DEF BodyOf, QuoteOf, FromDict, MadeHere
<1>6. by = "validator" => bundles[d.of["response"]].body.head = "committed"
  BY <1>3, WhatPasses DEF BodyOf, FromDict
<1>7. ASSUME ~mock
      PROVE  /\ image # "none" /\ bundles[d.of["quote"]].app = app
             /\ image = "measured" =>
                  /\ bundles[d.of["log"]].quote.rtmr3 = bundles[d.of["quote"]].quote.rtmr3
                  /\ d.names = "approved"
             /\ image = "plain" =>
                  bundles[d.of["quote"]].quote.rtmr3 = <<RuntimeIdentity("approved")>>
  <2>1. AppMatches(d) /\ Approved[QuoteOf(d).image] # {}
    BY <1>4, <1>7, WhatPasses
  <2> QED BY <2>1, <1>1, MatchedSays DEF QuoteOf, LogOf
<1>8. image = "measured" => bundles[d.of["tpm"]].quote = bundles[d.of["quote"]].quote
  BY <1>1, <1>2, WhatPasses DEF Unwraps, ExtraData, QuoteOf, MadeHere
<1> QED BY <1>5, <1>6, <1>7, <1>8

(* The hardware is asked when the first ten checks hold. *)
LEMMA WhatFetchMeans ==
  ASSUME ProofsMadeHere, bundles \in Seq(Bundles),
         NEW d \in [of : [Parts -> DOMAIN bundles], names : Apps], NEW mock \in BOOLEAN,
         NEW by \in {"validator", "script"}, Asked(Stops(d, mock, by), mock)
  PROVE  /\ bundles[d.of["body"]].body = bundles[d.of["quote"]].body
         /\ bundles[d.of["body"]].body.hotkey = AskedHotkey
         /\ bundles[d.of["body"]].body.nonce = nonce
         /\ bundles[d.of["body"]].body.course \in {"clean", "call_failed"}
<1>1. MadeHere(bundles[d.of["quote"]]) /\ MadeHere(bundles[d.of["body"]])
  BY PartsAreMade DEF Parts
<1>2. \A i \in 1..10 : i \notin Stops(d, mock, by)
  BY HardwareIsEleventh DEF Asked
<1>3. \A i \in 1..10 : LocalOrder[i] \in Skipped(mock, by) \/ Passes(LocalOrder[i], d, by)
  BY <1>2, Places DEF Stops
<1>4. /\ Passes("hotkey", d, by) /\ Passes("report", d, by) /\ Passes("nonce", d, by)
      /\ Passes("questions", d, by) /\ Passes("failures", d, by) /\ Passes("costs", d, by)
  BY <1>3, Places DEF Skipped
<1>5. bundles[d.of["body"]].body.course \in Courses
  BY <1>1 DEF MadeHere, Body
<1> QED BY <1>1, <1>4, <1>5, WhatPasses, Zenon DEF BodyOf, QuoteOf, FromDict, MadeHere, Courses

(* Nothing stops an honest proof of an approved application. *)
LEMMA HonestPasses ==
  ASSUME ProofsMadeHere, bundles \in Seq(Bundles), image \in Images, app \in Apps,
         NEW i \in DOMAIN bundles, NEW d, d = Unaltered(i),
         bundles[i].body.hotkey = AskedHotkey, bundles[i].body.nonce = nonce,
         bundles[i].body.head = "committed",
         bundles[i].body.course \in {"clean", "call_failed"},
         \/ image = "measured" /\ bundles[i].app = "approved"
         \/ image = "plain" /\ bundles[i].quote.rtmr3 = <<RuntimeIdentity("approved")>>
  PROVE  Stops(d, FALSE, "validator") = {}
<1> DEFINE b == bundles[i]
<1>1. MadeHere(b)
  BY DEF ProofsMadeHere
<1>2. /\ BodyOf(d) = b.body /\ QuoteOf(d) = b.quote /\ LogOf(d) = b.log /\ d.names = app
      /\ bundles[d.of["response"]] = b /\ bundles[d.of["tpm"]] = b
  BY DEF BodyOf, QuoteOf, LogOf, FromDict, Parts, Unaltered
<1>3. b.quote.report = b.body /\ b.quote.image = image /\ b.app = app
  BY <1>1 DEF MadeHere
<1>4. AppMatches(d)
  <2>1. CASE image = "measured"
    <3>1. PICK n \in 1..MaxBoots : b.log = BootLog(n) /\ b.quote.rtmr3 = BootLog(n)
      BY <1>1, <2>1 DEF MadeHere
    <3>2. b.log # <<>> /\ d.names = "approved"
      BY <3>1, <2>1, <1>2, <1>3 DEF BootLog
    <3> QED BY <3>1, <3>2, <1>2 DEF AppMatches, Approved
  <2>2. CASE image = "plain"
    <3>1. b.log = <<>> /\ b.quote.rtmr3 = <<RuntimeIdentity("approved")>>
      BY <1>1, <2>2 DEF MadeHere
    <3> QED BY <3>1, <1>2, <1>3, <2>2 DEF AppMatches, MeasurementId, ExpectedRtmr3, Approved
  <2> QED BY <2>1, <2>2
<1>5. Approved[QuoteOf(d).image] # {} /\ QuoteOf(d).image # "none"
  <2>1. QuoteOf(d).image \in {"measured", "plain"}
    BY <1>2, <1>3
  <2>2. Approved["measured"] = {"approved"} /\ Approved["plain"] = {"approved"}
    BY DEF Approved
  <2> QED BY <2>1, <2>2
<1>6. /\ Passes("hotkey", d, "validator") /\ Passes("unwrap", d, "validator")
      /\ Passes("report", d, "validator") /\ Passes("nonce", d, "validator")
      /\ Passes("questions", d, "validator") /\ Passes("head", d, "validator")
  BY <1>2, <1>3, WhatPasses DEF Unwraps, ExtraData
<1>7. /\ Passes("contract", d, "validator") /\ Passes("advertised", d, "validator")
      /\ Passes("failures", d, "validator") /\ Passes("costs", d, "validator")
  BY <1>2, <1>3, WhatPasses
<1>8. /\ Passes("hardware", d, "validator") /\ Passes("image", d, "validator")
      /\ Passes("app", d, "validator")
  BY <1>4, <1>5, WhatPasses
<1>9. \A k \in 1..13 : Passes(LocalOrder[k], d, "validator")
  <2> SUFFICES ASSUME NEW k \in 1..13 PROVE Passes(LocalOrder[k], d, "validator")
    OBVIOUS
  <2>1. k \in {1, 2, 3, 4, 5, 6} \/ k \in {7, 8, 9, 10, 11, 12, 13}
    OBVIOUS
  <2>2. CASE k \in {1, 2, 3, 4, 5, 6}
    BY <2>2, <1>6, Places
  <2>3. CASE k \in {7, 8, 9, 10, 11, 12, 13}
    BY <2>3, <1>7, <1>8, Places
  <2> QED BY <2>1, <2>2, <2>3
<1> QED BY <1>9, Places DEF Stops


(***************************************************************************)
(* The invariant                                                           *)
(***************************************************************************)

(* What ChecksSafety says of a verdict. *)
JudgedRightly == ValidIsAttested /\ FetchFollowsFreshQuote /\ HonestIsNotInvalid

(* What the checks find rests on where every proof and its register came
   from, not on the proofs in reach of one verdict. *)
ChecksInv ==
  /\ ChecksTypeOK /\ Register /\ ProofsMadeHere /\ bundles \in Seq(Bundles) /\ JudgedRightly

(* Before any verdict there is nothing to be wrong about. *)
LEMMA UnjudgedIsRight == judged = Unjudged => JudgedRightly
BY DEF JudgedRightly, ValidIsAttested, FetchFollowsFreshQuote, HonestIsNotInvalid, Judged

(* The machine has not booted yet. *)
LEMMA ChecksInitially == ChecksInit => ChecksInv
<1> SUFFICES ASSUME ChecksInit PROVE ChecksInv
  OBVIOUS
<1>1. ChecksTypeOK
  BY ChecksAssumption DEF ChecksInit, ChecksBlank, ChecksTypeOK
<1>2. Register
  BY DEF ChecksInit, ChecksBlank, Register, Stopped
<1>3. ProofsMadeHere /\ bundles \in Seq(Bundles)
  BY DEF ChecksInit, ChecksBlank, ProofsMadeHere
<1>4. JudgedRightly
  BY UnjudgedIsRight DEF ChecksInit, ChecksBlank
<1> QED BY <1>1, <1>2, <1>3, <1>4 DEF ChecksInv

(* The register of a measured image is rewritten by each boot. *)
LEMMA ChecksBoot ==
  ASSUME ChecksInv, Boot
  PROVE  ChecksInv'
<1>1. judged' = Unjudged /\ bundles' = bundles /\ image' = image /\ app' = app /\ nonce' = nonce
  BY DEF Boot, Goes
<1>2. boot \in 0..MaxBoots /\ boot' = boot + 1 /\ boot' \in 1..MaxBoots /\ starts' = 0
  BY ChecksAssumption DEF Boot, ChecksInv, ChecksTypeOK
<1>3. extends' = IF image = "measured" THEN BootLog(boot') ELSE <<>>
  BY <1>1 DEF Boot, BootEvents, BootLog
<1>4. BootLog(boot') \in Seq(Events)
  BY <1>2 DEF BootLog, Events, ChecksInv, ChecksTypeOK
<1>5. process' = Stopped
  BY DEF Boot
<1>6. ChecksTypeOK'
  <2>1. extends' \in Seq(Events) /\ (image = "plain" => Len(extends') <= starts')
    BY <1>2, <1>3, <1>4
  <2> QED BY <1>1, <1>2, <1>5, <2>1, ChecksAssumption DEF ChecksInv, ChecksTypeOK
<1>7. Register'
  BY <1>1, <1>2, <1>3, <1>5 DEF Register, BootLog
<1>8. ProofsMadeHere'
  BY <1>1 DEF ChecksInv, ProofsMadeHere, MadeHere, BootLog
<1> QED BY <1>1, <1>6, <1>7, <1>8, UnjudgedIsRight DEF ChecksInv, Bundles, JudgedRightly,
          ValidIsAttested, FetchFollowsFreshQuote, HonestIsNotInvalid, Judged

(* A process start extends the register of a plain machine alone. *)
LEMMA ChecksStart ==
  ASSUME ChecksInv, StartProcess
  PROVE  ChecksInv'
<1>1. judged' = Unjudged /\ bundles' = bundles /\ image' = image /\ app' = app /\ nonce' = nonce
      /\ boot' = boot /\ boot > 0
  BY DEF StartProcess, Goes
<1>2. starts' = starts + 1 /\ starts' \in 0..MaxStarts /\ starts' > 0 /\ starts \in 0..MaxStarts
  BY ChecksAssumption DEF StartProcess, ChecksInv, ChecksTypeOK
<1>3. process' \in Served
  BY DEF StartProcess
<1>4. extends \in Seq(Events) /\ (image = "plain" => Len(extends) <= starts)
  BY DEF ChecksInv, ChecksTypeOK
<1>5. \A a \in Apps : RuntimeIdentity(a) \in Events
  BY DEF RuntimeIdentity, Events
<1>6. \/ image = "plain" /\ \E a \in Apps : extends' = Append(extends, RuntimeIdentity(a))
      \/ extends' = extends
  BY DEF StartProcess
<1>7. extends' \in Seq(Events) /\ (image = "plain" => Len(extends') <= starts')
  BY <1>2, <1>4, <1>5, <1>6
<1>8. ChecksTypeOK'
  BY <1>1, <1>2, <1>3, <1>7 DEF ChecksInv, ChecksTypeOK
<1>9. Register'
  <2>1. image = "measured" => extends' = extends
    BY <1>6
  <2> QED BY <1>1, <2>1, <1>3 DEF ChecksInv, Register, BootLog
<1>10. ProofsMadeHere'
  BY <1>1 DEF ChecksInv, ProofsMadeHere, MadeHere, BootLog
<1> QED BY <1>1, <1>8, <1>9, <1>10, UnjudgedIsRight DEF ChecksInv, Bundles, JudgedRightly,
          ValidIsAttested, FetchFollowsFreshQuote, HonestIsNotInvalid, Judged

(* An epoch passes over what was made in it. *)
LEMMA ChecksEpoch ==
  ASSUME ChecksInv, NextEpoch
  PROVE  ChecksInv'
<1>1. judged' = Unjudged /\ UNCHANGED machineVars /\ bundles' = bundles
  BY DEF NextEpoch
<1>2. nonce' \in 1..LastNonce
  BY ChecksAssumption DEF NextEpoch, ChecksInv, ChecksTypeOK
<1>3. ChecksTypeOK'
  BY <1>1, <1>2 DEF ChecksInv, ChecksTypeOK, machineVars
<1>4. Register' /\ ProofsMadeHere'
  BY <1>1 DEF ChecksInv, Register, ProofsMadeHere, MadeHere, BootLog, machineVars
<1> QED BY <1>1, <1>3, <1>4, UnjudgedIsRight DEF ChecksInv, Bundles, JudgedRightly,
          ValidIsAttested, FetchFollowsFreshQuote, HonestIsNotInvalid, Judged

(* What the machine proves carries its own register. *)
LEMMA ChecksProve ==
  ASSUME ChecksInv, Prove
  PROVE  ChecksInv'
<1>1. judged' = Unjudged /\ UNCHANGED machineVars /\ nonce' = nonce
  BY DEF Prove, Goes
<1>2. PICK course \in Courses :
        LET body == [hotkey |-> process.hotkey, nonce |-> nonce, head |-> process.head,
                     course |-> course,
                     cost |-> IF course = "call_failed" THEN "int" ELSE "float"]
        IN  bundles' = Append(bundles, [body |-> body, quote |-> Attested(body), log |-> Log,
                                        app |-> app])
  BY DEF Prove
<1> DEFINE body == [hotkey |-> process.hotkey, nonce |-> nonce, head |-> process.head,
                    course |-> course,
                    cost |-> IF course = "call_failed" THEN "int" ELSE "float"]
           b == [body |-> body, quote |-> Attested(body), log |-> Log, app |-> app]
<1>3. bundles' = Append(bundles, b)
  BY <1>2
<1>4. process # Stopped /\ process \in Served /\ boot > 0 /\ boot \in 0..MaxBoots
      /\ nonce \in 1..LastNonce /\ extends \in Seq(Events) /\ image \in Images /\ app \in Apps
  BY DEF Prove, ChecksInv, ChecksTypeOK, Register
<1>5. process.hotkey \in ProofHotkeys /\ process.head \in ProvedHeads
  BY <1>4 DEF Served, ProofHotkeys, ProvedHeads
<1>6. body \in Body
  BY <1>4, <1>5 DEF Body
<1> HIDE DEF body
<1>7. Log \in Seq(Events) /\ Attested(body) \in [report : Body, image : Images, rtmr3 : Seq(Events)]
  BY <1>4, <1>6 DEF Log, Attested
<1>8. b \in Bundles
  BY <1>4, <1>6, <1>7 DEF Bundles
<1>9. MadeHere(b)
  <2>1. /\ b.body = body /\ b.quote.report = body /\ b.quote.image = image /\ b.app = app
        /\ b.log = Log /\ b.quote.rtmr3 = IF image = "none" THEN <<>> ELSE extends
    BY DEF Attested
  <2>2. image = "measured" => extends = BootLog(boot) /\ boot \in 1..MaxBoots
    BY <1>4 DEF ChecksInv, Register
  <2> HIDE DEF b
  <2>3. /\ image = "measured" => b.log = extends /\ b.quote.rtmr3 = extends
        /\ image # "measured" => b.log = <<>>
    BY <2>1 DEF Log
  <2> QED BY <2>1, <2>2, <2>3, <1>4, <1>6 DEF MadeHere
<1> HIDE DEF b
<1>10. bundles \in Seq(Bundles)
  BY DEF ChecksInv
<1>11. bundles' \in Seq(Bundles) /\ Len(bundles') = Len(bundles) + 1
       /\ (\A i \in 1..Len(bundles) : bundles'[i] = bundles[i]) /\ bundles'[Len(bundles) + 1] = b
  BY <1>3, <1>8, <1>10
<1>12. \A i \in 1..Len(bundles') : MadeHere(bundles'[i])
  BY <1>9, <1>10, <1>11 DEF ChecksInv, ProofsMadeHere
<1>13. ProofsMadeHere'
  BY <1>1, <1>12 DEF ProofsMadeHere, MadeHere, BootLog, machineVars
<1>14. ChecksTypeOK'
  <2>1. Len(bundles') <= MaxBundles
    BY <1>10, <1>11, ChecksAssumption DEF Prove, Goes, ChecksInv, ChecksTypeOK
  <2>2. \A i \in DOMAIN bundles' : bundles'[i].body \in Body
    <3>1. \A i \in DOMAIN bundles' : bundles'[i] \in Bundles
      BY <1>11, ElementOfSeq
    <3> QED BY <3>1 DEF Bundles
  <2> QED BY <1>1, <2>1, <2>2 DEF ChecksInv, ChecksTypeOK, machineVars
<1>15. Register'
  BY <1>1 DEF ChecksInv, Register, BootLog, machineVars
<1> QED BY <1>1, <1>11, <1>13, <1>14, <1>15, UnjudgedIsRight DEF ChecksInv, Bundles, JudgedRightly,
          ValidIsAttested, FetchFollowsFreshQuote, HonestIsNotInvalid, Judged

(* Whoever verifies, and whatever is delivered, the verdict is right. *)
LEMMA VerdictIsRight ==
  ASSUME ChecksInv, NEW d \in [of : [Parts -> DOMAIN bundles], names : Apps],
         NEW mock \in BOOLEAN, NEW by \in {"validator", "script"}, Verify(d, mock, by),
         UNCHANGED <<machineVars, nonce, bundles>>
  PROVE  ChecksInv'
<1>1. PICK collateral \in BOOLEAN :
        judged' = [verdict |-> VerdictOf(Stops(d, mock, by), mock, collateral), delivery |-> d,
                   mock |-> mock, fetched |-> Asked(Stops(d, mock, by), mock), by |-> by]
  BY DEF Verify
<1> DEFINE stops == Stops(d, mock, by)
<1>2. /\ judged'.verdict = VerdictOf(stops, mock, collateral) /\ judged'.delivery = d
      /\ judged'.mock = mock /\ judged'.fetched = Asked(stops, mock) /\ judged'.by = by
  BY <1>1
<1>3. /\ judged'.verdict \in Verdicts
      /\ judged'.verdict = "valid" => stops = {}
      /\ judged'.verdict = "invalid" => stops # {}
  BY <1>2 DEF VerdictOf, Verdicts
<1>4. image' = image /\ app' = app /\ nonce' = nonce /\ bundles' = bundles
  BY DEF machineVars
<1>5. ProofsMadeHere /\ bundles \in Seq(Bundles) /\ image \in Images
  BY DEF ChecksInv, ChecksTypeOK
<1>6. ValidIsAttested'
  <2> SUFFICES ASSUME judged'.verdict = "valid" PROVE ValidIsAttested'
    BY DEF ValidIsAttested
  <2>1. Stops(d, mock, by) = {}
    BY <1>3
  <2>2. /\ bundles[d.of["body"]].body = bundles[d.of["quote"]].body
        /\ bundles[d.of["body"]].body.hotkey = AskedHotkey
        /\ bundles[d.of["body"]].body.nonce = nonce
        /\ by = "validator" => bundles[d.of["response"]].body.head = "committed"
        /\ ~mock =>
             /\ image # "none"
             /\ image = "measured" =>
                  /\ bundles[d.of["tpm"]].quote = bundles[d.of["quote"]].quote
                  /\ bundles[d.of["log"]].quote.rtmr3 = bundles[d.of["quote"]].quote.rtmr3
                  /\ d.names = bundles[d.of["quote"]].app => bundles[d.of["quote"]].app = "approved"
             /\ image = "plain" =>
                  bundles[d.of["quote"]].quote.rtmr3 = <<RuntimeIdentity("approved")>>
    BY <2>1, <1>5, WhatValidMeans
  <2>3. \A part : Given(part)' = bundles[d.of[part]]
    BY <1>2, <1>4 DEF Given
  <2> QED BY <2>2, <2>3, <1>2, <1>4 DEF ValidIsAttested, RuntimeIdentity
<1>7. FetchFollowsFreshQuote'
  <2> SUFFICES ASSUME judged'.fetched PROVE FetchFollowsFreshQuote'
    BY DEF FetchFollowsFreshQuote
  <2>1. Asked(stops, mock)
    BY <1>2
  <2> QED BY <2>1, <1>2, <1>4, <1>5, WhatFetchMeans DEF FetchFollowsFreshQuote, Given
<1>8. HonestIsNotInvalid'
  <2> SUFFICES ASSUME judged'.by = "validator", Honest', ~judged'.mock
               PROVE  /\ (image = "measured" /\ Given("quote").app = "approved")' =>
                           judged'.verdict # "invalid"
                      /\ image' = "plain" =>
                           IF (Given("quote").quote.rtmr3)' = <<RuntimeIdentity("approved")>>
                           THEN judged'.verdict # "invalid" ELSE judged'.verdict # "valid"
    BY DEF HonestIsNotInvalid, RuntimeIdentity
  <2>1. PICK i \in DOMAIN bundles : d = Unaltered(i)
    BY <1>2, <1>4 DEF Honest, Unaltered
  <2>2. Given("body")' = bundles[i] /\ Given("quote")' = bundles[i]
    BY <2>1, <1>2, <1>4 DEF Given, Parts, Unaltered
  <2>3. /\ bundles[i].body.hotkey = AskedHotkey /\ bundles[i].body.nonce = nonce
        /\ bundles[i].body.head = "committed"
        /\ bundles[i].body.course \in {"clean", "call_failed"}
        /\ mock = FALSE /\ by = "validator"
    BY <2>2, <1>2, <1>4 DEF Honest
  <2>4. ASSUME \/ image = "measured" /\ bundles[i].app = "approved"
               \/ image = "plain" /\ bundles[i].quote.rtmr3 = <<RuntimeIdentity("approved")>>
        PROVE  judged'.verdict # "invalid"
    <3>1. Stops(d, FALSE, "validator") = {}
      BY <2>1, <2>3, <2>4, <1>5, HonestPasses DEF ChecksInv, ChecksTypeOK
    <3> QED BY <3>1, <2>3, <1>3
  <2>5. ASSUME image = "plain", judged'.verdict = "valid"
        PROVE  bundles[i].quote.rtmr3 = <<RuntimeIdentity("approved")>>
    <3>1. Stops(d, FALSE, "validator") = {}
      BY <2>5, <2>3, <1>3
    <3>2. d.of["quote"] = i
      BY <2>1 DEF Unaltered, Parts
    <3> QED BY <3>1, <3>2, <2>3, <2>5, <1>5, WhatValidMeans
  <2> QED BY <2>2, <2>4, <2>5, <1>4
<1>9. ChecksTypeOK'
  BY <1>3 DEF ChecksInv, ChecksTypeOK, machineVars
<1>10. Register' /\ ProofsMadeHere'
  BY DEF ChecksInv, Register, ProofsMadeHere, MadeHere, BootLog, machineVars
<1> QED BY <1>4, <1>6, <1>7, <1>8, <1>9, <1>10 DEF ChecksInv, JudgedRightly, Bundles

(* Every step keeps the invariant. *)
LEMMA ChecksStep == ChecksInv /\ [ChecksNext]_checksVars => ChecksInv'
<1> SUFFICES ASSUME ChecksInv, [ChecksNext]_checksVars PROVE ChecksInv'
  OBVIOUS
<1>1. CASE Boot
  BY <1>1, ChecksBoot
<1>2. CASE StartProcess
  BY <1>2, ChecksStart
<1>3. CASE NextEpoch
  BY <1>3, ChecksEpoch
<1>4. CASE Prove
  BY <1>4, ChecksProve
<1>5. CASE Judge
  <2>1. PICK d \in Deliveries, mock \in {FALSE, image = "none"} : Verify(d, mock, "validator")
    BY <1>5 DEF Judge
  <2>2. d \in [of : [Parts -> DOMAIN bundles], names : Apps] /\ mock \in BOOLEAN
    BY <2>1 DEF Deliveries
  <2>3. UNCHANGED <<machineVars, nonce, bundles>>
    BY <1>5 DEF Judge
  <2> QED BY <2>1, <2>2, <2>3, VerdictIsRight
<1>6. CASE LiveCheck
  <2>1. PICK i \in DOMAIN bundles, mock \in {FALSE, image = "none"} :
          Verify(Unaltered(i), mock, "script")
    BY <1>6 DEF LiveCheck
  <2> DEFINE d == Unaltered(i)
  <2>2. d \in [of : [Parts -> DOMAIN bundles], names : Apps] /\ mock \in BOOLEAN
    <3>1. app \in Apps /\ [part \in Parts |-> i] \in [Parts -> DOMAIN bundles]
      BY <2>1 DEF ChecksInv, ChecksTypeOK
    <3> QED BY <2>1, <3>1, Zenon DEF Unaltered
  <2>3. UNCHANGED <<machineVars, nonce, bundles>>
    BY <1>6 DEF LiveCheck
  <2>4. Verify(d, mock, "script")
    BY <2>1
  <2> HIDE DEF d
  <2> QED BY <2>2, <2>3, <2>4, VerdictIsRight
<1>7. CASE UNCHANGED checksVars
  BY <1>7 DEF ChecksInv, checksVars, machineVars, ChecksTypeOK, Register, ProofsMadeHere, MadeHere,
     BootLog, Bundles, JudgedRightly, ValidIsAttested, FetchFollowsFreshQuote,
     HonestIsNotInvalid, Judged, Given, Honest, Unaltered
<1> QED BY <1>1, <1>2, <1>3, <1>4, <1>5, <1>6, <1>7 DEF ChecksNext

(* A valid proof was made as received for the hotkey asked, in this epoch, by a
   machine whose own quote covers it, with the log and the TPM quote of its
   boot or one extend of an approved identity; only a proof with a fresh quote
   asks the collateral; an honest one from an approved application is never
   called invalid on a measured image: for any number of boots, process starts
   and epochs. *)
THEOREM ChecksAlwaysSafe == ChecksSpec => []ChecksSafety
<1>1. ChecksInv => ChecksSafety
  BY DEF ChecksInv, ChecksSafety, JudgedRightly
<1> QED BY <1>1, ChecksInitially, ChecksStep, PTL DEF ChecksSpec

=============================================================================
