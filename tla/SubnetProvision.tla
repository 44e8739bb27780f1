-------------------------- MODULE SubnetProvision --------------------------
(***************************************************************************)
(* Provisioning a subnet (scripts/provision_subnet.py): create, identity,  *)
(* start_call, hyperparameters, register, stake.  A run is made again      *)
(* after a partial failure; an extrinsic may land without its answer, and  *)
(* others create subnets meanwhile.                                        *)
(***************************************************************************)
EXTENDS Naturals, Sequences

CONSTANTS
  Hotkeys,     \* --validators and --miners
  Validators,  \* --validators
  Params,      \* the hyperparameters it sets
  Amount,      \* --stake, in tenths of a TAO
  Yields,      \* what a stake of it may be held as: the price and fees are the chain's
  MaxSubnets,  \* bound: subnets on the chain
  MaxRuns      \* bound: runs of the script

ASSUME SubnetAssumption ==
  /\ Validators \subseteq Hotkeys /\ MaxSubnets \in Nat \ {0} /\ MaxRuns \in Nat
  /\ Amount \in Nat \ {0} /\ Yields \subseteq Nat

VARIABLES
  subnets,  \* the chain's, by netuid
  run,      \* the runs so far, and the arguments of this one
  at,       \* the step
  netuid,   \* the subnet it works on, 0 before there is one
  before,   \* netuids seen before the creation
  toSet,    \* hotkeys left in this step
  clean     \* history: every extrinsic of this run was heard to succeed

subnetVars == <<subnets, run, at, netuid, before, toSet, clean>>

Steps == {"none", "create", "find", "owner", "identity", "activate", "params", "check",
          "register", "stake", "report", "done"}
Netuids == 1..Len(subnets)

(* A validator's stakes that landed, what it holds, and the last one *)
Holdings == {s \in [landed : Nat, held : Nat, last : Nat] : s.landed = 0 => s.held = 0}
NoStake == [landed |-> 0, held |-> 0, last |-> 0]

Subnet == [owner : {"us", "other"}, active : BOOLEAN, params : SUBSET Params,
           keys : SUBSET Hotkeys, staked : [Validators -> Holdings]]
New(who) == [owner |-> who, active |-> FALSE, params |-> {}, keys |-> {},
             staked |-> [v \in Validators |-> NoStake]]
Ours == subnets[netuid]

SubnetTypeOK ==
  /\ subnets \in Seq(Subnet) /\ Len(subnets) <= MaxSubnets
  /\ run \in [made : 0..MaxRuns, create : BOOLEAN, owner : BOOLEAN, yes : BOOLEAN]
  /\ at \in Steps /\ netuid \in Netuids \cup {0} /\ before \subseteq Netuids
  /\ at \notin {"none", "create", "find", "done"} => netuid # 0
  /\ toSet \subseteq Hotkeys /\ clean \in BOOLEAN

SubnetBlank ==
  /\ subnets = <<>>
  /\ run = [made |-> 0, create |-> FALSE, owner |-> FALSE, yes |-> FALSE]
  /\ at = "none" /\ netuid = 0 /\ before = {} /\ toSet = {} /\ clean = FALSE

-----------------------------------------------------------------------------
(* The chain *)

AddSubnet(who) == subnets' = Append(subnets, New(who))
Room == Len(subnets) < MaxSubnets

(* Someone else creates a subnet, or activates one of theirs. *)
Foreign ==
  /\ \/ Room /\ AddSubnet("other")
     \/ \E n \in Netuids :
          /\ subnets[n].owner = "other" /\ ~subnets[n].active
          /\ subnets' = [subnets EXCEPT ![n] = [@ EXCEPT !.active = TRUE, !.params = Params]]
  /\ UNCHANGED <<run, at, netuid, before, toSet, clean>>

-----------------------------------------------------------------------------
(* A run *)

Go(step) == at' = step
Stop == at' = "done"

(* With --netuid, or with --create and the owner; --status changes nothing. *)
StartRun ==
  /\ at \in {"none", "done"} /\ run.made < MaxRuns
  /\ \E yes, owner \in BOOLEAN, n \in Netuids \cup {0} :
       /\ n = 0 => owner
       /\ run' = [made |-> run.made + 1, create |-> n = 0, owner |-> owner, yes |-> yes]
       /\ netuid' = n
       /\ Go(IF n = 0 THEN "create" ELSE IF owner THEN "owner" ELSE "check")
  /\ before' = {} /\ toSet' = Hotkeys /\ clean' = TRUE
  /\ UNCHANGED subnets

(* The websocket drops at a read. *)
Dropped ==
  /\ at \notin {"none", "done"} /\ Stop /\ clean' = FALSE
  /\ UNCHANGED <<subnets, run, netuid, before, toSet>>

(* What came of an extrinsic, and what the script was told. *)
Outcomes == {o \in [lands : BOOLEAN, heard : BOOLEAN] : o.heard => o.lands}
Told(o) == clean' = (clean /\ o.heard)

Create ==
  /\ at = "create"
  /\ before' = Netuids
  /\ IF ~run.yes THEN Stop /\ UNCHANGED <<subnets, clean>>
     ELSE \E o \in Outcomes :
            /\ Told(o)
            /\ IF o.lands THEN Room /\ AddSubnet("us")
               ELSE UNCHANGED subnets
            /\ IF o.heard THEN Go("find") ELSE Stop
  /\ UNCHANGED <<run, netuid, toSet>>

(* The highest of the netuids that were not there before. *)
FindNew ==
  /\ at = "find"
  /\ netuid' \in Netuids \ before /\ \A n \in Netuids \ before : n <= netuid'
  /\ Go("owner")
  /\ UNCHANGED <<subnets, run, before, toSet, clean>>

CheckOwner ==
  /\ at = "owner"
  /\ IF Ours.owner = "us" THEN Go("identity") ELSE Stop
  /\ UNCHANGED <<subnets, run, netuid, before, toSet, clean>>

(* A missing identity is cosmetic. *)
SetIdentity ==
  /\ at = "identity" /\ Go("activate")
  /\ UNCHANGED <<subnets, run, netuid, before, toSet, clean>>

(* start_call, and the wait until the subnet is active *)
Activate ==
  /\ at = "activate"
  /\ IF Ours.active THEN Go("params") /\ UNCHANGED <<subnets, clean>>
     ELSE \E o \in Outcomes :
            /\ Told(o) /\ subnets' = [subnets EXCEPT ![netuid].active = o.lands]
            /\ IF o.heard THEN Go("params") ELSE Stop
  /\ UNCHANGED <<run, netuid, before, toSet>>

(* Each parameter that is not set yet; a refusal is reported only. *)
SetParams ==
  /\ at = "params"
  /\ \E landed \in SUBSET (Params \ Ours.params), unheard \in BOOLEAN :
       /\ subnets' = [subnets EXCEPT ![netuid].params = @ \cup landed]
       /\ clean' = (clean /\ ~unheard /\ Ours.params \cup landed = Params)
  /\ Go("register")
  /\ UNCHANGED <<run, netuid, before, toSet>>

(* Without the owner: the subnet must be active, and its tempo aligned. *)
CheckOthers ==
  /\ at = "check"
  /\ IF Ours.active /\ "tempo" \in Ours.params THEN Go("register") ELSE Stop
  /\ UNCHANGED <<subnets, run, netuid, before, toSet, clean>>

(* burned_register, unless the chain has the hotkey; it refuses a second one
   and one while registration is not allowed. *)
Register(h) ==
  /\ at = "register" /\ h \in toSet /\ toSet' = toSet \ {h}
  /\ IF h \in Ours.keys \/ ~run.yes THEN UNCHANGED <<subnets, clean, at>>
     ELSE \E o \in Outcomes :
            /\ Told(o)
            /\ o.lands => "registration" \in Ours.params
            /\ subnets' = IF o.lands THEN [subnets EXCEPT ![netuid].keys = @ \cup {h}] ELSE subnets
            /\ at' \in IF o.heard THEN {at} ELSE {at, "done"}
  /\ UNCHANGED <<run, netuid, before>>

EndRegister ==
  /\ at = "register" /\ toSet = {}
  /\ Go("stake") /\ toSet' = Validators
  /\ UNCHANGED <<subnets, run, netuid, before, clean>>

(* Mutant of Staked: the stake is not read. *)
StakedNever(v) == FALSE

(* Alpha held, against TAO asked for *)
Enough(held) == 10 * held >= 9 * Amount

Staked(v) == Ours.staked[v].held > 0 /\ Enough(Ours.staked[v].held)

With(stakes, amount) ==
  [landed |-> stakes.landed + 1, held |-> stakes.held + amount, last |-> amount]

(* add_stake, unless the validator has it *)
Stake(v) ==
  /\ at = "stake" /\ v \in toSet /\ toSet' = toSet \ {v}
  /\ IF Staked(v) \/ ~run.yes THEN UNCHANGED <<subnets, clean, at>>
     ELSE \E o \in Outcomes :
            /\ Told(o)
            /\ o.lands => Ours.active
            /\ IF o.lands
               THEN \E y \in Yields : subnets' = [subnets EXCEPT ![netuid].staked[v] = With(@, y)]
               ELSE UNCHANGED subnets
            /\ at' \in IF o.heard THEN {at} ELSE {at, "done"}
  /\ UNCHANGED <<run, netuid, before>>

EndStake ==
  /\ at = "stake" /\ toSet = {} /\ Go("report")
  /\ UNCHANGED <<subnets, run, netuid, before, toSet, clean>>

Report ==
  /\ at = "report" /\ Stop
  /\ UNCHANGED <<subnets, run, netuid, before, toSet, clean>>

SubnetNext ==
  \/ Foreign \/ StartRun \/ Dropped
  \/ Create \/ FindNew \/ CheckOwner \/ SetIdentity \/ Activate \/ SetParams \/ CheckOthers
  \/ EndRegister \/ EndStake \/ Report
  \/ \E h \in Hotkeys : Register(h) \/ Stake(h)

SubnetSpec == SubnetBlank /\ [][SubnetNext]_subnetVars

-----------------------------------------------------------------------------
(* "Without it a subnet has no first-emission block ...  The pipeline runs,
   reports success, and lands nothing": whatever run died where, no hotkey is
   registered and nobody is staked in a subnet that is not active. *)
PaidIntoActive ==
  \A n \in Netuids :
    subnets[n].keys # {} \/ (\E v \in Validators : subnets[n].staked[v].landed > 0) => subnets[n].active

(* A subnet another party creates while this one waits for its netuid is
   never taken for its own: no owner's step and no burn goes to it. *)
CreatedIsOurs ==
  run.create /\ at \in {"identity", "activate", "params", "register", "stake", "report"} =>
    Ours.owner = "us"

(* "It is safe to re-run after a partial failure", of the stakes: a validator
   whose stakes have reached the threshold is never staked again, even when
   their answers were lost.  One whose stake is held as less, at a price that
   takes more than a tenth of it, is staked again by the next run. *)
StakedWhileShort ==
  \A n \in Netuids, v \in Validators :
    LET s == subnets[n].staked[v] IN s.landed > 1 => ~Enough(s.held - s.last)

(* A run that heard every extrinsic succeed and reports has provisioned all
   of it, whatever the runs before it left. *)
CleanRunProvisions ==
  at = "report" /\ clean /\ run.yes =>
    /\ Ours.active /\ Ours.keys = Hotkeys
    /\ \A v \in Validators : Ours.staked[v].landed > 0
    /\ run.owner => Ours.params = Params

(* What the runs of the script leave on the chain, wherever they died. *)
SubnetSafety ==
  SubnetTypeOK /\ PaidIntoActive /\ CreatedIsOurs /\ StakedWhileShort /\ CleanRunProvisions

=============================================================================
