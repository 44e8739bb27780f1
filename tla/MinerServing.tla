---------------------------- MODULE MinerServing ----------------------------
(***************************************************************************)
(* What a miner does before and around its loop (neurons/miner.py): the    *)
(* embeddings and their cache on disk, the port, the address it publishes, *)
(* and who may download its head.  The machine's other processes, the      *)
(* chain's stakes and its answers change meanwhile.                        *)
(***************************************************************************)
EXTENDS Naturals

CONSTANTS
  Callers,      \* hotkeys that query the axon
  ServeTries,   \* attempts to publish the address: 5
  LastProof,    \* bound: epochs
  MaxCrashes, MaxFaults, MaxMoves  \* bounds: crashes, of the disk, new addresses

ASSUME ServingAssumption ==
  /\ ServeTries \in Nat \ {0} /\ LastProof \in Nat
  /\ MaxCrashes \in Nat /\ MaxFaults \in Nat /\ MaxMoves \in Nat

VARIABLES
  cache,      \* the embeddings on disk
  stage,      \* of the process
  port,       \* who holds the axon's port
  published,  \* what the chain has for this UID: nothing, an old address, this one
  tries,      \* attempts of axon.serve that left it unpublished
  stake,      \* the chain: what a caller has at stake
  snapshot,   \* the metagraph the blacklist reads
  proofOf,    \* the epoch of the proof held, 0 without one
  asked,      \* history: the last query answered with a bundle
  faults      \* crashes, faults of the disk, moves to another address so far

servingVars == <<cache, stage, port, published, tries, stake, snapshot, proofOf, asked, faults>>
procVars == <<stage, tries, proofOf>>
stakeVars == <<stake, snapshot>>

Stakes == {"unregistered", "permit_only", "staked"}
Nothing == [caller |-> "nobody", of |-> 0, epoch |-> 0, now |-> "staked", stale |-> FALSE]
Stages == {"down", "started", "embedding", "writing", "embedded", "probed", "bound_to_start",
           "serving"}

ServingTypeOK ==
  /\ cache \in {"none", "torn", "whole"} /\ stage \in Stages
  /\ port \in {"free", "miner", "other", "other_late"}
  /\ published \in {"nothing", "old", "this"} /\ tries \in 0..ServeTries
  /\ stake \in [Callers -> Stakes] /\ snapshot \in [Callers -> Stakes]
  /\ proofOf \in 0..LastProof
  /\ asked.of \in 0..LastProof /\ asked.epoch \in 0..LastProof
  /\ faults \in [crashes : 0..MaxCrashes, disk : 0..MaxFaults, moves : 0..MaxMoves]
  /\ port = "miner" => stage = "serving"

ServingBlank ==
  /\ cache = "none" /\ stage = "down" /\ port = "free" /\ published = "nothing" /\ tries = 0
  /\ stake = [c \in Callers |-> "unregistered"] /\ snapshot = stake
  /\ proofOf = 0 /\ asked = Nothing
  /\ faults = [crashes |-> 0, disk |-> 0, moves |-> 0]

-----------------------------------------------------------------------------
(* Around it *)

StakeMoves ==
  /\ \E c \in Callers, s \in Stakes : stake[c] # s /\ stake' = [stake EXCEPT ![c] = s]
  /\ UNCHANGED <<cache, procVars, port, published, snapshot, asked, faults>>

(* Another process listens on the port, before or after the miner probed it,
   or leaves it. *)
OtherTakesPort ==
  /\ port = "free"
  /\ port' = IF stage \in {"probed", "bound_to_start", "serving"} THEN "other_late" ELSE "other"
  /\ UNCHANGED <<cache, procVars, published, stakeVars, asked, faults>>

OtherLeavesPort ==
  /\ port \in {"other", "other_late"} /\ port' = "free"
  /\ UNCHANGED <<cache, procVars, published, stakeVars, asked, faults>>

DiskFails ==
  /\ faults.disk < MaxFaults /\ faults' = [faults EXCEPT !.disk = @ + 1]
  /\ cache = "whole" /\ cache' = "torn"
  /\ UNCHANGED <<procVars, port, published, stakeVars, asked>>

(* The machine is made anew elsewhere; its disk goes with it. *)
Moves ==
  /\ stage = "down" /\ faults.moves < MaxMoves /\ faults' = [faults EXCEPT !.moves = @ + 1]
  /\ published' = IF published = "this" THEN "old" ELSE published
  /\ port' = "free"
  /\ UNCHANGED <<cache, procVars, stakeVars, asked>>

-----------------------------------------------------------------------------
(* The process *)

To(place) == stage' = place

Crash ==
  /\ stage # "down" /\ faults.crashes < MaxCrashes
  /\ faults' = [faults EXCEPT !.crashes = @ + 1]
  /\ To("down") /\ tries' = 0 /\ proofOf' = 0
  /\ port' = IF port = "miner" THEN "free" ELSE port
  /\ UNCHANGED <<cache, published, stakeVars, asked>>

(* The head is there: pushed (_await_provisioning) or from its path. *)
Start ==
  /\ stage = "down" /\ To("started")
  /\ UNCHANGED <<cache, tries, port, published, stakeVars, proofOf, asked, faults>>

(* _compute_hidden_states: the cache, if there is a file.  load_cache raises
   on one it cannot read, and the miner exits. *)
LoadEmbeddings ==
  /\ stage = "started" /\ cache # "none"
  /\ To(IF cache = "whole" THEN "embedded" ELSE "down")
  /\ UNCHANGED <<cache, tries, port, published, stakeVars, proofOf, asked, faults>>

ComputeEmbeddings ==
  /\ \/ stage = "started" /\ cache = "none" /\ To("embedding")
     \/ stage = "embedding" /\ To("writing")
  /\ UNCHANGED <<cache, tries, port, published, stakeVars, proofOf, asked, faults>>

(* Mutant of SaveCache: the file is written where it is read. *)
SaveCacheInPlace ==
  /\ stage = "writing"
  /\ \/ cache = "none" /\ cache' = "torn" /\ UNCHANGED stage
     \/ cache = "torn" /\ cache' = "whole" /\ To("embedded")
  /\ UNCHANGED <<tries, port, published, stakeVars, proofOf, asked, faults>>

(* Written beside it and renamed; a failure to is no failure. *)
SaveCache ==
  /\ stage = "writing" /\ To("embedded")
  /\ cache' \in {cache, "whole"}
  /\ UNCHANGED <<tries, port, published, stakeVars, proofOf, asked, faults>>

(* The metagraph at startup, then _assert_port_free: bound, and let go. *)
ProbePort ==
  /\ stage = "embedded"
  /\ To(IF port = "free" THEN "probed" ELSE "down")
  /\ snapshot' = stake
  /\ UNCHANGED <<cache, tries, port, published, stake, proofOf, asked, faults>>

(* axon.serve lands or not (the chain refuses an unroutable address, or one
   too soon), and what it did is looked up on the chain; an address of an
   earlier boot counts as well. *)
Serve ==
  /\ stage = "probed"
  /\ published' \in {published, "this"}
  /\ tries' = IF published' = "nothing" THEN tries + 1 ELSE tries
  /\ To(IF published' # "nothing" \/ tries' = ServeTries THEN "bound_to_start" ELSE "probed")
  /\ UNCHANGED <<cache, port, stakeVars, proofOf, asked, faults>>

(* axon.start: a bind that fails does not surface. *)
StartAxon ==
  /\ stage = "bound_to_start" /\ To("serving")
  /\ port' = IF port = "free" THEN "miner" ELSE port
  /\ UNCHANGED <<cache, published, tries, stakeVars, proofOf, asked, faults>>

(* The loop reads the metagraph every METAGRAPH_REFRESH_S; when that fails,
   the one it has stays. *)
Refresh ==
  /\ stage = "serving"
  /\ snapshot' = stake
  /\ UNCHANGED <<cache, procVars, port, published, stake, asked, faults>>

(* _run_epoch replaces the proof, its text and its epoch under the lock. *)
HoldProof ==
  /\ stage = "serving" /\ proofOf < LastProof
  /\ \E e \in proofOf + 1..LastProof : proofOf' = e
  /\ UNCHANGED <<cache, stage, tries, port, published, stakeVars, asked, faults>>

(* caller_allowed, live *)
CallerAllowed(c) == snapshot[c] = "staked"

(* forward: the epoch asked for, or any if none is named. *)
Matches(e) == proofOf # 0 /\ e \in {0, proofOf}

Query(c, e) ==
  /\ stage = "serving" /\ port = "miner" /\ published = "this"
  /\ CallerAllowed(c) /\ Matches(e)
  /\ asked' = [caller |-> c, of |-> e, epoch |-> proofOf, now |-> stake[c],
               stale |-> snapshot # stake]
  /\ UNCHANGED <<cache, procVars, port, published, stakeVars, faults>>

ServingNext ==
  \/ StakeMoves \/ OtherTakesPort \/ OtherLeavesPort \/ DiskFails \/ Moves
  \/ Crash \/ Start \/ LoadEmbeddings \/ ComputeEmbeddings \/ SaveCache
  \/ ProbePort \/ Serve \/ StartAxon \/ Refresh \/ HoldProof
  \/ \E c \in Callers, e \in 0..LastProof : Query(c, e)

ServingSpec == ServingBlank /\ [][ServingNext]_servingVars

-----------------------------------------------------------------------------
(* "Write-then-rename: a miner killed mid-write must not leave a truncated
   cache that the next start reads as complete": without a fault of the disk
   the file is absent or whole, wherever the process died. *)
CacheIsWhole == faults.disk = 0 => cache # "torn"

(* A miner that publishes an address behind which another process answers
   lost its port in the moment between the probe and the bind, never before
   (_assert_port_free). *)
PortLostLate == stage = "serving" => port # "other"

(* A miner that serves without an error in its log has an address on the
   chain; and it is the one it has now, unless it moved since. *)
QuietlyPublished ==
  stage = "serving" /\ tries < ServeTries =>
    published # "nothing" /\ (faults.moves = 0 => published = "this")

(* The full head goes to staked validators only: whoever got it has the
   stake, or lost it since the metagraph the miner reads was read; and the
   proof with it is of the epoch that was asked for. *)
HeadGoesToStaked ==
  /\ asked.now = "staked" \/ asked.stale
  /\ asked.of # 0 => asked.epoch = asked.of

(* What a miner has cached, bound, published and handed out. *)
ServingSafety ==
  ServingTypeOK /\ CacheIsWhole /\ PortLostLate /\ QuietlyPublished /\ HeadGoesToStaked

=============================================================================
