----------------------------- MODULE NodeStartup -----------------------------
(***************************************************************************)
(* What a neuron checks before it serves or scores: neurons/validator.py   *)
(* and neurons/miner.py main, fugal_subnet/fingerprint.py, and the pool    *)
(* they both load (fugal_subnet/benchmarks/loader.py).                     *)
(*                                                                         *)
(* A question is its benchmark and whether its content is the pinned one.  *)
(* What the operator set, what the chain answers and what the data sets    *)
(* hold is chosen at the step that reads it.                               *)
(***************************************************************************)
EXTENDS Naturals, Sequences, FiniteSets

CONSTANTS
  Benches,      \* benchmarks
  Ungradable,   \* those whose checker runs code
  PinnedSkip,   \* skip_benchmarks of the shipped manifest
  MinPool       \* BENCHMARK_POOL_MIN_SIZE, in benchmarks

ASSUME StartupAssumption ==
  /\ IsFiniteSet(Benches) /\ Ungradable \subseteq Benches /\ PinnedSkip \subseteq Benches
  /\ MinPool \in Nat

VARIABLES
  role,       \* validator or miner
  live,       \* --live
  finney,     \* the chain is finney
  overrides,  \* a consensus constant is set in the environment
  manifest,   \* pool_manifest.json: ok, broken or absent
  gate,       \* the next check
  phase,      \* checking, loading the data sets, verifying the pool, or the end
  entries,    \* the approved measurements
  drifted,    \* history: the environment was not the pinned one
  allowed,    \* FUGAL_ALLOW_ENV_DRIFT
  dropped,    \* history: the chain was seen to drop this SDK's weights
  skip,       \* benchmarks to skip
  asked,      \* history: FUGAL_SKIP_BENCHMARKS is set
  source,     \* where the pool is from: a file, one declared unpinned, the data sets
  left,       \* benchmarks not looked at yet
  loaded,     \* the pool
  start       \* where the reference frame is from, and what is in it

startupSettings == <<role, live, finney, overrides, manifest>>
startupSeen == <<entries, drifted, allowed, dropped, start>>
poolVars == <<skip, asked, source, left, loaded>>
startupVars == <<startupSettings, gate, phase, startupSeen, poolVars>>

Gradable == Benches \ Ungradable
Pools == UNION {[S -> {"pinned", "edited"}] : S \in SUBSET Benches}
Starts == [by : {"none", "state", "reveals", "bootstrap"},
           frame : {"none", "accumulated", "shipped", "cold"}]
EmptyPool == [b \in {} |-> "pinned"]
PinnedPool == [b \in Gradable \ PinnedSkip |-> "pinned"]
Extend(p, b, content) == [c \in DOMAIN p \cup {b} |-> IF c = b THEN content ELSE p[c]]

(* The order of the checks in the two mains. *)
Checks ==
  [validator |-> <<"entries", "contract", "environment", "genesis", "registered", "weights",
                  "pool", "frame">>,
   miner |-> <<"contract", "pool", "genesis", "registered", "stake">>]

LastCheck == Len(Checks[role])

StartupTypeOK ==
  /\ role \in DOMAIN Checks /\ live \in BOOLEAN /\ finney \in BOOLEAN
  /\ overrides \in BOOLEAN /\ manifest \in {"ok", "broken", "absent"}
  /\ gate \in 1..LastCheck + 1
  /\ phase \in {"checking", "loading", "verifying", "running", "refused"}
  /\ phase = "running" <=> gate = LastCheck + 1
  /\ entries \in {"none", "bare", "app"} /\ drifted \in BOOLEAN /\ allowed \in BOOLEAN
  /\ dropped \in BOOLEAN /\ start \in Starts
  /\ skip \subseteq Benches /\ asked \in BOOLEAN
  /\ source \in {"none", "file", "unpinned", "datasets"} /\ left \subseteq Benches
  /\ \A b \in DOMAIN loaded : b \in Benches /\ loaded[b] \in {"pinned", "edited"}

StartupBlank ==
  /\ gate = 1 /\ phase = "checking"
  /\ entries = "none" /\ drifted = FALSE /\ allowed = FALSE /\ dropped = FALSE
  /\ skip = {} /\ asked = FALSE /\ source = "none" /\ left = {} /\ loaded = EmptyPool
  /\ start = [by |-> "none", frame |-> "none"]

StartupInit ==
  /\ role \in DOMAIN Checks /\ live \in BOOLEAN /\ finney \in BOOLEAN
  /\ overrides \in BOOLEAN /\ manifest \in {"ok", "broken", "absent"}
  /\ StartupBlank

-----------------------------------------------------------------------------
At(check) == phase = "checking" /\ Checks[role][gate] = check

Pass ==
  /\ gate' = gate + 1
  /\ phase' = IF gate = LastCheck THEN "running" ELSE "checking"

Refuse == phase' = "refused" /\ UNCHANGED gate

PassIf(ok) == IF ok THEN Pass ELSE Refuse

(* parse_approved, and the refusals around it: live needs an entry, and one
   that names its application. *)
CheckEntries ==
  /\ At("entries")
  /\ entries' \in {"none", "bare", "app"}
  /\ \E malformed \in BOOLEAN :
       PassIf(~malformed /\ (live => entries' = "app"))
  /\ UNCHANGED <<startupSettings, drifted, allowed, dropped, start, poolVars>>

(* contract.validate_manifest, benchmark_costs: live needs reviewed prices. *)
CheckContract ==
  /\ At("contract")
  /\ \E reviewed \in BOOLEAN : PassIf(live => reviewed)
  /\ UNCHANGED <<startupSettings, startupSeen, poolVars>>

(* check_environment and assert_environment: package pins, CPU dispatch and
   threads, or a pyproject that cannot be read.  The overrides wait for the
   genesis. *)
CheckEnvironment ==
  /\ At("environment")
  /\ drifted' \in BOOLEAN /\ allowed' \in BOOLEAN
  /\ PassIf(live /\ drifted' => allowed')
  /\ UNCHANGED <<startupSettings, entries, dropped, start, poolVars>>

(* chain_genesis_hash: the first getter that answers, or neither. *)
GenesisRead == {IF finney THEN "finney" ELSE "other", "unknown"}

(* assert_mock_allowed, assert_consensus_overrides_allowed *)
ChainAllows(genesis) == (~live \/ overrides) => genesis = "other"

CheckGenesis ==
  /\ At("genesis")
  /\ \E genesis \in GenesisRead : PassIf(ChainAllows(genesis))
  /\ UNCHANGED <<startupSettings, startupSeen, poolVars>>

CheckRegistered ==
  /\ At("registered")
  /\ \E registered \in BOOLEAN : PassIf(registered)
  /\ UNCHANGED <<startupSettings, startupSeen, poolVars>>

(* assert_chain_weight_parameters: a parameter that cannot be read is no
   problem, one that shows the weights would be dropped is. *)
CheckWeights ==
  /\ At("weights")
  /\ \E crv \in {"unread", "off", "same", "other"}, version \in {"unread", "covered", "newer"} :
       dropped' = (crv = "other" \/ version = "newer")
  /\ PassIf(live => ~dropped')
  /\ UNCHANGED <<startupSettings, entries, drifted, allowed, start, poolVars>>

(* The miner's own floor: live and a stake of zero is refused. *)
CheckStake ==
  /\ At("stake")
  /\ \E floorSet \in BOOLEAN : PassIf(live => floorSet)
  /\ UNCHANGED <<startupSettings, startupSeen, poolVars>>

-----------------------------------------------------------------------------
(* load_all, strict in both neurons *)

(* Mutant of DefaultSkip: nothing is skipped by default. *)
DefaultSkipNothing == {}

(* _default_skip: the manifest's list, when it can be read. *)
DefaultSkip == IF manifest = "ok" THEN PinnedSkip ELSE {}

ReadSkip ==
  \/ asked' = FALSE /\ skip' = DefaultSkip
  \/ asked' = TRUE /\ skip' \in SUBSET Benches

(* _drop_unscoreable *)
Drop(p) == [b \in DOMAIN p \ Ungradable |-> p[b]]

(* A pool file, by FUGAL_BENCHMARK_POOL, --benchmark-pool or in its default
   place.  Declared unpinned, it is checked no further; an empty pool is
   refused by both mains. *)
ReadPoolFile ==
  /\ At("pool")
  /\ source' \in {"file", "unpinned"} /\ ReadSkip
  /\ \E p \in Pools : loaded' = Drop(p)
  /\ IF source' = "file" THEN phase' = "verifying" /\ UNCHANGED gate
     ELSE PassIf(DOMAIN loaded' # {})
  /\ UNCHANGED <<startupSettings, startupSeen, left>>

BadPoolFile ==
  /\ At("pool") /\ Refuse
  /\ UNCHANGED <<startupSettings, startupSeen, poolVars>>

(* No file: the benchmarks one by one. *)
StartLoading ==
  /\ At("pool")
  /\ source' = "datasets" /\ ReadSkip
  /\ left' = Benches \ skip' /\ phase' = "loading"
  /\ UNCHANGED <<startupSettings, startupSeen, gate, loaded>>

LoadBenchmark ==
  /\ phase = "loading"
  /\ \E b \in left, content \in {"pinned", "edited"} :
       /\ loaded' = Extend(loaded, b, content) /\ left' = left \ {b}
  /\ UNCHANGED <<startupSettings, startupSeen, gate, phase, skip, asked, source>>

(* A benchmark raises or is empty. *)
LoadFails ==
  /\ phase = "loading" /\ left # {}
  /\ Refuse
  /\ UNCHANGED <<startupSettings, startupSeen, poolVars>>

EndLoading ==
  /\ phase = "loading" /\ left = {}
  /\ loaded' = Drop(loaded) /\ phase' = "verifying"
  /\ UNCHANGED <<startupSettings, startupSeen, gate, skip, asked, source, left>>

(* _verify_against_manifest: a manifest that cannot be parsed, or one built
   with another skip list, verifies nothing. *)
ManifestAgrees ==
  /\ manifest # "absent"
  /\ manifest = "ok" /\ skip = PinnedSkip => loaded = PinnedPool

(* _verify_pool_is_large_enough_to_be_unmemorisable *)
LargeEnough == Cardinality(DOMAIN loaded) >= MinPool

VerifyPool ==
  /\ phase = "verifying"
  /\ PassIf(ManifestAgrees /\ LargeEnough /\ DOMAIN loaded # {})
  /\ UNCHANGED <<startupSettings, startupSeen, poolVars>>

-----------------------------------------------------------------------------

StartsFrom(by, frame) == start' = [by |-> by, frame |-> frame]

NoFrame == Refuse /\ UNCHANGED start

(* load_bootstrap: a frame that is not shipped is an empty one, unless it is
   required; one that cannot be read stops the neuron. *)
Bootstrap(by, require) ==
  \/ StartsFrom(by, "shipped") /\ Pass
  \/ StartsFrom(by, "cold") /\ ~require /\ Pass
  \/ NoFrame

(* rebuild_from_reveals: an unreadable reveal is skipped, one of another
   protocol raises, and where there is none the frame is load_bootstrap's,
   which a live validator does not require here. *)
Rebuild ==
  \/ StartsFrom("reveals", "accumulated") /\ Pass
  \/ Bootstrap("reveals", FALSE)

(* The saved frame, else one from the published reveals, when the operator
   names a directory of them, else the shipped one. *)
ChooseFrame ==
  /\ At("frame")
  /\ \/ StartsFrom("state", "accumulated") /\ Pass
     \/ Rebuild
     \/ Bootstrap("bootstrap", live)
  /\ UNCHANGED <<startupSettings, entries, drifted, allowed, dropped, poolVars>>

StartupNext ==
  \/ CheckEntries \/ CheckContract \/ CheckEnvironment \/ CheckGenesis \/ CheckRegistered
  \/ CheckWeights \/ CheckStake
  \/ ReadPoolFile \/ BadPoolFile \/ StartLoading \/ LoadBenchmark \/ LoadFails
  \/ EndLoading \/ VerifyPool
  \/ ChooseFrame

StartupSpec == StartupInit /\ [][StartupNext]_startupVars

-----------------------------------------------------------------------------
Running == phase = "running"

(* loader._default_skip: "an operator who configures nothing must get the
   pinned pool rather than whatever their machine happens to be able to load".
   A neuron that runs with the shipped manifest and without
   FUGAL_SKIP_BENCHMARKS or FUGAL_POOL_UNPINNED holds exactly the pinned
   questions, from a file or from the data sets, whatever either holds. *)
UnconfiguredIsPinned ==
  Running /\ manifest = "ok" /\ ~asked /\ source # "unpinned" => loaded = PinnedPool

(* No shrink goes unsaid: whatever the manifest says, only a pool declared
   unpinned is below the size floor, and nothing is missing from a pool built
   from the data sets but what the skip list names. *)
ShrinkIsDeclared ==
  Running /\ source # "unpinned" =>
    /\ Cardinality(DOMAIN loaded) >= MinPool
    /\ source = "datasets" => DOMAIN loaded = Gradable \ skip

(* No neuron asks, or is asked, a question the harness cannot grade, however
   its pool was loaded. *)
NothingUngradable == Running => DOMAIN loaded \subseteq Gradable

(* On finney a neuron runs live and with the shipped consensus constants, even
   when the chain's identity could not be read, and FUGAL_ALLOW_ENV_DRIFT
   does not lift it (assert_consensus_overrides_allowed). *)
FinneyIsStrict == Running /\ finney => live /\ ~overrides

(* A live validator scores with approved applications only, on the pinned
   packages unless its operator allowed the drift, submits weights the chain
   would not drop, and begins with an empty frame only where its operator told
   it to rebuild one (load_bootstrap: "one validator scoring the field against
   a different frame from every other validator"). *)
LiveValidatorIsPinned ==
  Running /\ live /\ role = "validator" =>
    /\ entries = "app" /\ (drifted => allowed)
    /\ ~dropped /\ (start.frame = "cold" => start.by = "reveals")

(* No neuron runs past its startup checks with less than they promise. *)
StartupSafety ==
  /\ StartupTypeOK /\ UnconfiguredIsPinned /\ ShrinkIsDeclared
  /\ NothingUngradable /\ FinneyIsStrict /\ LiveValidatorIsPinned

=============================================================================
