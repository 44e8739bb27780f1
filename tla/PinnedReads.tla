----------------------------- MODULE PinnedReads -----------------------------
(***************************************************************************)
(* What two validators read of the chain in one epoch, and when: the       *)
(* commitments and the owner at the boundary block, the metagraph at the   *)
(* collection block (neurons/validator.py main, read_commitments_or_fail,  *)
(* wait_for_block, metagraph_at, resolve_burn_uid, registration_block_of;  *)
(* fugal_subnet/commitments.py).  Between the reads miners commit, UIDs    *)
(* are recycled and the subnet changes hands.                              *)
(*                                                                         *)
(* A hotkey serves one head all epoch; a commitment matches it or not.     *)
(***************************************************************************)
EXTENDS Integers, Sequences, FiniteSets

CONSTANTS
  Readers,     \* the validators
  ChainUids,   \* UIDs of the subnet
  Keys,        \* hotkeys, more than there are UIDs
  Boundary,    \* the epoch's first block
  Collect,     \* the collection block
  LastBlock,   \* bound: the epoch's last block
  MaxRefused   \* bound: reads that fail

ASSUME ReadsAssumption ==
  /\ Boundary \in Nat /\ Collect \in Nat /\ LastBlock \in Nat /\ MaxRefused \in Nat
  /\ 0 < Boundary /\ Boundary < Collect /\ Collect < LastBlock
  /\ ChainUids \subseteq Nat /\ ChainUids # {}
  /\ \E key \in [ChainUids -> Keys] : \A u, w \in ChainUids : key[u] = key[w] => u = w

VARIABLES
  blocks,      \* the chain's state at each block
  livePair,    \* both validators run --live
  reader,      \* where each validator is
  comBlock,    \* the block its commitments are of, 0 if it has none
  metaBlock,   \* the block its metagraph is of
  fellBack,    \* its metagraph is the one read when the epoch began
  burnUid,     \* the UID it burns to
  refused      \* reads that failed so far

readerVars == <<reader, comBlock, metaBlock, fellBack, burnUid>>
readsVars == <<blocks, livePair, readerVars, refused>>

Height == Len(blocks)
NoBurn == -1

ChainState == [key : [ChainUids -> Keys], since : [Keys -> Nat],
               com : [Keys -> [block : Nat, matches : BOOLEAN]], owner : Keys]

ReadsTypeOK ==
  /\ blocks \in Seq(ChainState) /\ livePair \in BOOLEAN
  /\ reader \in [Readers -> {"idle", "waiting", "querying", "scored", "done"}]
  /\ comBlock \in [Readers -> 0..LastBlock] /\ metaBlock \in [Readers -> 0..LastBlock]
  /\ \A v \in Readers : reader[v] # "idle" => metaBlock[v] \in Boundary..Height
  /\ fellBack \in [Readers -> BOOLEAN] /\ burnUid \in [Readers -> ChainUids \cup {NoBurn}]
  /\ refused \in 0..MaxRefused

Uncommitted == [block |-> 0, matches |-> FALSE]

(* The chain before the epoch; which hotkey has which UID is immaterial. *)
FirstKeys ==
  CHOOSE key \in [ChainUids -> Keys] : \A u, w \in ChainUids : key[u] = key[w] => u = w

ReadsBlank ==
  /\ blocks = <<[key |-> FirstKeys, since |-> [k \in Keys |-> 1],
                 com |-> [k \in Keys |-> Uncommitted],
                 owner |-> FirstKeys[CHOOSE u \in ChainUids : TRUE]]>>
  /\ reader = [v \in Readers |-> "idle"]
  /\ comBlock = [v \in Readers |-> 0] /\ metaBlock = [v \in Readers |-> 0]
  /\ fellBack = [v \in Readers |-> FALSE] /\ burnUid = [v \in Readers |-> NoBurn]
  /\ refused = 0

ReadsInit == ReadsBlank /\ livePair \in BOOLEAN

-----------------------------------------------------------------------------
(* The chain *)

Append1(state) ==
  /\ Height < LastBlock
  /\ blocks' = Append(blocks, state)
  /\ UNCHANGED <<livePair, readerVars, refused>>

Tip == blocks[Height]
Registered(state) == {state.key[u] : u \in ChainUids}

QuietBlock == Append1(Tip)

CommitBlock ==
  \E k \in Registered(Tip), matches \in BOOLEAN :
    Append1([Tip EXCEPT !.com[k] = [block |-> Height + 1, matches |-> matches]])

(* A new registration takes a UID; its commitment stays with the hotkey. *)
RecycleBlock ==
  \E u \in ChainUids, k \in Keys \ Registered(Tip) :
    Append1([Tip EXCEPT !.key = [@ EXCEPT ![u] = k], !.since = [@ EXCEPT ![k] = Height + 1]])

OwnerBlock == \E k \in Keys \ {Tip.owner} : Append1([Tip EXCEPT !.owner = k])

-----------------------------------------------------------------------------
(* A validator's epoch *)

GoTo(v, place) == reader' = [reader EXCEPT ![v] = place]

(* The epoch begins, at once or late: the metagraph of the moment. *)
ReaderBegins(v) ==
  /\ reader[v] = "idle" /\ Height >= Boundary
  /\ metaBlock' = [metaBlock EXCEPT ![v] = Height]
  /\ fellBack' = [fellBack EXCEPT ![v] = TRUE]
  /\ comBlock' = [comBlock EXCEPT ![v] = 0]
  /\ GoTo(v, "waiting")
  /\ UNCHANGED <<blocks, livePair, burnUid, refused>>

(* Mutant of ReadCommitments: at the head of the chain. *)
ReadCommitmentsAtHead(v) ==
  /\ reader[v] = "waiting" /\ comBlock[v] = 0
  /\ comBlock' = [comBlock EXCEPT ![v] = Height]
  /\ UNCHANGED <<blocks, livePair, reader, metaBlock, fellBack, burnUid, refused>>

(* get_commitments_with_blocks, pinned to the boundary *)
ReadCommitments(v) ==
  /\ reader[v] = "waiting" /\ comBlock[v] = 0
  /\ comBlock' = [comBlock EXCEPT ![v] = Boundary]
  /\ UNCHANGED <<blocks, livePair, reader, metaBlock, fellBack, burnUid, refused>>

(* A read fails: the node is gone, or has pruned that block. *)
Refused == refused < MaxRefused /\ refused' = refused + 1

(* read_commitments_or_fail raises in live, and the epoch is retried; mock
   goes on with no commitments. *)
CommitmentsFail(v) ==
  /\ reader[v] = "waiting" /\ comBlock[v] = 0 /\ Refused
  /\ IF livePair THEN GoTo(v, "idle") ELSE Height >= Collect /\ GoTo(v, "querying")
  /\ UNCHANGED <<blocks, livePair, comBlock, metaBlock, fellBack, burnUid>>

(* wait_for_block returns *)
CollectionReached == Height >= Collect

(* metagraph_at, pinned to the collection block *)
ReadMetagraph(v) ==
  /\ reader[v] = "waiting" /\ comBlock[v] # 0 /\ CollectionReached
  /\ metaBlock' = [metaBlock EXCEPT ![v] = Collect]
  /\ fellBack' = [fellBack EXCEPT ![v] = FALSE]
  /\ GoTo(v, "querying")
  /\ UNCHANGED <<blocks, livePair, comBlock, burnUid, refused>>

(* It fails: the metagraph the epoch began with. *)
MetagraphFails(v) ==
  /\ reader[v] = "waiting" /\ comBlock[v] # 0 /\ CollectionReached
  /\ Refused /\ GoTo(v, "querying")
  /\ UNCHANGED <<blocks, livePair, comBlock, metaBlock, fellBack, burnUid>>

Metagraph(v) == blocks[metaBlock[v]]
Commitment(v, u) ==
  IF comBlock[v] = 0 THEN Uncommitted ELSE blocks[comBlock[v]].com[Metagraph(v).key[u]]

(* A proof counts if its head was committed by its hotkey at or before the
   boundary (REQUIRE_COMMITMENT, as shipped). *)
Accepted(v) ==
  {u \in ChainUids : LET c == Commitment(v, u)
                     IN  c.matches /\ 0 < c.block /\ c.block <= Boundary}

(* seniority_key: the registration block, then the commitment's. *)
Seniority(v, u) == <<Metagraph(v).since[Metagraph(v).key[u]], Commitment(v, u).block>>

(* The epoch's proofs, if none is accepted, end it. *)
Score(v) ==
  /\ reader[v] = "querying"
  /\ GoTo(v, IF Accepted(v) = {} THEN "done" ELSE "scored")
  /\ UNCHANGED <<blocks, livePair, comBlock, metaBlock, fellBack, burnUid, refused>>

UidOf(state, k) == {u \in ChainUids : state.key[u] = k}

(* get_subnet_owner_hotkey, pinned to the boundary *)
OwnerAt == blocks[Boundary].owner

(* resolve_burn_uid *)
ResolveBurn(v) ==
  /\ reader[v] = "scored"
  /\ \E u \in UidOf(Metagraph(v), OwnerAt) : burnUid' = [burnUid EXCEPT ![v] = u]
  /\ GoTo(v, "done")
  /\ UNCHANGED <<blocks, livePair, comBlock, metaBlock, fellBack, refused>>

FirstUid == CHOOSE u \in ChainUids : \A w \in ChainUids : u <= w

(* The owner cannot be read or is not registered: live retries the epoch,
   mock burns to UID 0. *)
BurnUnknown(v) ==
  /\ reader[v] = "scored"
  /\ (UidOf(Metagraph(v), OwnerAt) = {} /\ UNCHANGED refused) \/ Refused
  /\ IF livePair THEN GoTo(v, "idle") /\ UNCHANGED burnUid
     ELSE GoTo(v, "done") /\ burnUid' = [burnUid EXCEPT ![v] = FirstUid]
  /\ UNCHANGED <<blocks, livePair, comBlock, metaBlock, fellBack>>

ReadsNext ==
  \/ QuietBlock \/ CommitBlock \/ RecycleBlock \/ OwnerBlock
  \/ \E v \in Readers :
       \/ ReaderBegins(v) \/ ReadCommitments(v) \/ CommitmentsFail(v)
       \/ ReadMetagraph(v) \/ MetagraphFails(v) \/ Score(v)
       \/ ResolveBurn(v) \/ BurnUnknown(v)

ReadsSpec == ReadsInit /\ [][ReadsNext]_readsVars

-----------------------------------------------------------------------------
Outcome(v) ==
  [accepted |-> Accepted(v), burn |-> burnUid[v],
   senior |-> [u \in Accepted(v) |-> Seniority(v, u)]]

(* docs/INVARIANTS.md I1: two live validators that finish an epoch accept the
   same miners, in the same order of seniority, and burn to the same UID,
   however late each began or retried it and whatever the chain did in
   between, unless one of them had to use another metagraph. *)
ReadersAgree ==
  \A v, w \in Readers :
    livePair /\ reader[v] = "done" /\ reader[w] = "done" /\ ~fellBack[v] /\ ~fellBack[w] =>
      Outcome(v) = Outcome(w)

(* No live validator judges a field it could not read: the miners it refuses
   had not committed their head at the boundary, and those it accepts had,
   its metagraph pinned or not. *)
JudgedAtBoundary ==
  \A v \in Readers : livePair /\ reader[v] \in {"scored", "done"} =>
    \A u \in ChainUids :
      u \in Accepted(v) <=> LET c == blocks[Boundary].com[Metagraph(v).key[u]]
                            IN  c.matches /\ c.block > 0

(* A live validator never burns to a UID it has not read to be the owner's
   ("burning to the wrong UID pays someone", resolve_burn_uid). *)
BurnIsOwners ==
  \A v \in Readers : livePair /\ burnUid[v] # NoBurn =>
    Metagraph(v).key[burnUid[v]] = blocks[Boundary].owner

(* What the reads of an epoch make validators agree on, however late and
   after whatever failures they are made. *)
ReadsSafety == ReadsTypeOK /\ ReadersAgree /\ JudgedAtBoundary /\ BurnIsOwners

=============================================================================
