--------------------------- MODULE SubnetProvisionProofs ---------------------------
(***************************************************************************)
(* Proofs about what runs beside the neurons: SubnetProvision, for any     *)
(* hotkeys, hyperparameters and number of runs, whatever becomes of their  *)
(* extrinsics; MinerServing, for any callers and faults; LogPull, for a    *)
(* ring of any size and any number of boots; SpendTracker, for any number  *)
(* of threads, any prices and any cap; SubnetWatch, for any validators,    *)
(* epochs and blocks; CallLog, for any plan, prices, cap and runs.         *)
(***************************************************************************)
EXTENDS SubnetProvision, MinerServing, LogPull, SpendTracker, SubnetWatch, CallLog,
        SumsProofs, SequenceTheorems, FunctionTheorems, FiniteSetTheorems, TLAPS

OwnersSteps == {"identity", "activate", "params"}
PayingSteps == {"register", "stake", "report"}

(* What is paid is paid in a subnet found active. *)
PayingIsActive == at \in PayingSteps \cup {"params"} => Ours.active

(* The owner's steps follow the owner's check; with --create so do those
   that pay. *)
OwnerChecked ==
  /\ at \in OwnersSteps => Ours.owner = "us" /\ run.owner
  /\ at \in {"create", "find", "owner"} => run.owner
  /\ at \in {"create", "find"} => run.create
  /\ run.create => run.owner
  /\ at = "check" => ~run.owner

(* No hotkey is handled before the registrations begin; validators are
   staked. *)
ToHandle ==
  /\ at \notin PayingSteps \cup {"none", "done"} => toSet = Hotkeys
  /\ at = "stake" => toSet \subseteq Validators

(* What a run whose every extrinsic was heard has done so far. *)
DoneSoFar ==
  clean /\ run.yes =>
    /\ at \in PayingSteps /\ run.owner => Ours.params = Params
    /\ at = "register" => Hotkeys \ toSet \subseteq Ours.keys
    /\ at \in {"stake", "report"} => Ours.keys = Hotkeys
    /\ at = "stake" => \A v \in Validators \ toSet : Ours.staked[v].landed > 0
    /\ at = "report" => \A v \in Validators : Ours.staked[v].landed > 0

IInv == /\ SubnetTypeOK /\ PayingIsActive /\ OwnerChecked /\ ToHandle /\ DoneSoFar
        /\ PaidIntoActive /\ CreatedIsOurs /\ StakedWhileShort /\ CleanRunProvisions

(* A subnet just created is one. *)
LEMMA NewSubnet == ASSUME NEW who \in {"us", "other"} PROVE New(who) \in Subnet
  BY DEF New, Subnet, Holdings, NoStake

(* There are no subnets yet. *)
LEMMA InitIInv == SubnetBlank => IInv
<1> SUFFICES ASSUME SubnetBlank PROVE IInv
  OBVIOUS
<1> USE DEF SubnetBlank
<1>1. Netuids = {}
  BY DEF Netuids
<1>2. SubnetTypeOK
  <2>1. subnets \in Seq(Subnet) /\ Len(subnets) = 0
    OBVIOUS
  <2>2. run \in [made : 0..MaxRuns, create : BOOLEAN, owner : BOOLEAN, yes : BOOLEAN]
    BY SubnetAssumption
  <2>3. at \in Steps /\ netuid = 0 /\ at = "none" /\ before \subseteq Netuids
    BY <1>1 DEF Steps
  <2>4. toSet \subseteq Hotkeys /\ clean \in BOOLEAN
    OBVIOUS
  <2> QED
    BY <1>1, <2>1, <2>2, <2>3, <2>4, SubnetAssumption DEF SubnetTypeOK
<1>3. PayingIsActive /\ OwnerChecked /\ ToHandle /\ DoneSoFar /\ CreatedIsOurs /\ CleanRunProvisions
  BY DEF PayingIsActive, OwnerChecked, ToHandle, DoneSoFar, CreatedIsOurs, CleanRunProvisions,
     OwnersSteps, PayingSteps
<1>4. PaidIntoActive /\ StakedWhileShort
  BY <1>1 DEF PaidIntoActive, StakedWhileShort
<1> QED
  BY <1>2, <1>3, <1>4 DEF IInv

(* A subnet is appended: those there were stay as they are. *)
LEMMA Appended == ASSUME SubnetTypeOK, NEW who \in {"us", "other"}, Room, AddSubnet(who)
                  PROVE  /\ subnets' \in Seq(Subnet) /\ Len(subnets') <= MaxSubnets
                         /\ \A n \in Netuids : n \in Netuids' /\ subnets'[n] = subnets[n]
                         /\ \A n \in Netuids' \ Netuids : subnets'[n] = New(who)
  BY SubnetAssumption, NewSubnet DEF SubnetTypeOK, Room, AddSubnet, Netuids

(* One is amended: so is nothing else. *)
Amended(n, s) ==
  /\ n \in Netuids /\ s \in Subnet
  /\ subnets' \in Seq(Subnet) /\ Netuids' = Netuids /\ Len(subnets') = Len(subnets)
  /\ subnets'[n] = s
  /\ \A m \in Netuids : m # n => subnets'[m] = subnets[m]

(* An EXCEPT of one subnet amends that one. *)
LEMMA Amending == ASSUME SubnetTypeOK, NEW n \in Netuids, NEW s \in Subnet,
                         subnets' = [subnets EXCEPT ![n] = s]
                  PROVE  Amended(n, s)
  BY DEF SubnetTypeOK, Netuids, Amended

(* What is on the chain is a subnet. *)
LEMMA OnChain == ASSUME SubnetTypeOK, NEW n \in Netuids
                 PROVE  subnets[n] \in Subnet
  BY DEF SubnetTypeOK, Netuids

(* A second stake was added to one that had not reached the threshold. *)
Short(stakes) == stakes.landed > 1 => ~Enough(stakes.held - stakes.last)

(* What an amendment may do and leave the invariants of the chain alone. *)
LEMMA AmendedPaid == ASSUME SubnetTypeOK, PaidIntoActive, StakedWhileShort, NEW n, NEW s, Amended(n, s),
                            s.keys # {} \/ (\E v \in Validators : s.staked[v].landed > 0) => s.active,
                            \A v \in Validators : Short(s.staked[v])
                     PROVE  PaidIntoActive' /\ StakedWhileShort'
  BY DEF PaidIntoActive, StakedWhileShort, Short, Amended

(* Others create subnets of their own. *)
LEMMA ForeignStep == ASSUME IInv, Foreign PROVE IInv'
<1> USE DEF IInv
<1>0. UNCHANGED <<run, at, netuid, before, toSet, clean>>
  BY DEF Foreign
<1>1. CASE Room /\ AddSubnet("other")
  <2>1. SubnetTypeOK'
    BY <1>0, <1>1, Appended DEF SubnetTypeOK
  <2>2. netuid # 0 => Ours' = Ours
    BY <1>0, <1>1, Appended DEF SubnetTypeOK, Ours
  <2>3. PayingIsActive' /\ OwnerChecked' /\ ToHandle' /\ DoneSoFar' /\ CreatedIsOurs' /\ CleanRunProvisions'
    BY <1>0, <2>2 DEF SubnetTypeOK, PayingIsActive, OwnerChecked, ToHandle, DoneSoFar, CreatedIsOurs,
       CleanRunProvisions, PayingSteps, OwnersSteps
  <2>4. PaidIntoActive' /\ StakedWhileShort'
    BY <1>1, Appended DEF PaidIntoActive, StakedWhileShort, Short, New, NoStake
  <2> QED
    BY <2>1, <2>3, <2>4
<1>2. CASE \E n \in Netuids :
             /\ subnets[n].owner = "other" /\ ~subnets[n].active
             /\ subnets' = [subnets EXCEPT ![n] = [@ EXCEPT !.active = TRUE, !.params = Params]]
  <2> PICK n \in Netuids :
             /\ subnets[n].owner = "other" /\ ~subnets[n].active
             /\ subnets' = [subnets EXCEPT ![n] = [@ EXCEPT !.active = TRUE, !.params = Params]]
    BY <1>2
  <2> DEFINE s == [subnets[n] EXCEPT !.active = TRUE, !.params = Params]
  <2>1. s \in Subnet /\ s.owner = subnets[n].owner /\ s.active = TRUE /\ s.params = Params
        /\ s.keys = subnets[n].keys /\ s.staked = subnets[n].staked
    BY OnChain DEF Subnet
  <2>2. subnets' = [subnets EXCEPT ![n] = s]
    OBVIOUS
  <2> HIDE DEF s
  <2>3. Amended(n, s)
    BY <2>1, <2>2, Amending
  <2>4. SubnetTypeOK'
    BY <1>0, <2>3 DEF SubnetTypeOK, Amended, Netuids
  <2>5. netuid # 0 /\ n # netuid => Ours' = Ours
    BY <1>0, <2>3 DEF SubnetTypeOK, Ours, Amended
  <2>6. n = netuid => Ours' = s /\ Ours = subnets[n]
    BY <1>0, <2>3 DEF SubnetTypeOK, Ours, Amended
  <2>7. PayingIsActive' /\ OwnerChecked' /\ ToHandle' /\ DoneSoFar' /\ CreatedIsOurs' /\ CleanRunProvisions'
    BY <1>0, <2>1, <2>5, <2>6 DEF SubnetTypeOK, PayingIsActive, OwnerChecked, ToHandle, DoneSoFar,
       CreatedIsOurs, CleanRunProvisions, PayingSteps, OwnersSteps
  <2>8. \A v \in Validators : Short(s.staked[v])
    BY <2>1 DEF StakedWhileShort, Short
  <2> QED
    BY <2>1, <2>3, <2>4, <2>7, <2>8, AmendedPaid
<1> QED
  BY <1>1, <1>2 DEF Foreign
(* A step that leaves the chain alone. *)
LEMMA ChainAlone == ASSUME IInv, UNCHANGED subnets
                    PROVE  PaidIntoActive' /\ StakedWhileShort' /\ Netuids' = Netuids
  BY DEF IInv, PaidIntoActive, StakedWhileShort, Netuids

(* A run starts with every hotkey still to handle. *)
LEMMA StartRunStep == ASSUME IInv, StartRun PROVE IInv'
<1> USE DEF IInv, StartRun, Go
<1>1. SubnetTypeOK'
  <2>1. run' \in [made : 0..MaxRuns, create : BOOLEAN, owner : BOOLEAN, yes : BOOLEAN]
    BY SubnetAssumption DEF SubnetTypeOK
  <2>2. /\ netuid' \in Netuids \cup {0} /\ at' \in {"create", "owner", "check"}
        /\ at' \notin {"none", "create", "find", "done"} => netuid' # 0
    OBVIOUS
  <2> QED
    BY <2>1, <2>2, ChainAlone DEF SubnetTypeOK, Steps
<1>2. PayingIsActive' /\ OwnerChecked' /\ ToHandle' /\ DoneSoFar' /\ CreatedIsOurs'
      /\ CleanRunProvisions'
  BY DEF PayingIsActive, OwnerChecked, ToHandle,
     DoneSoFar, CreatedIsOurs, CleanRunProvisions, PayingSteps, OwnersSteps
<1> QED
  BY <1>1, <1>2, ChainAlone

(* A run that stops changes nothing but where it is. *)
LEMMA StoppingStep == ASSUME IInv, Stop, UNCHANGED <<subnets, run, netuid, before, toSet>>,
                             clean' \in BOOLEAN
                      PROVE IInv'
<1> USE DEF IInv, Stop
<1>1. SubnetTypeOK'
  BY ChainAlone DEF SubnetTypeOK, Steps
<1>2. PayingIsActive' /\ OwnerChecked' /\ ToHandle' /\ DoneSoFar' /\ CreatedIsOurs'
      /\ CleanRunProvisions'
  BY DEF PayingIsActive, OwnerChecked, ToHandle,
     DoneSoFar, CreatedIsOurs, CleanRunProvisions, PayingSteps, OwnersSteps
<1> QED
  BY <1>1, <1>2, ChainAlone

(* An extrinsic whose answer is lost: the run ends unclean. *)
LEMMA DroppedStep == ASSUME IInv, Dropped PROVE IInv'
  BY StoppingStep DEF Dropped

(* A subnet that a run creates is ours. *)
LEMMA CreateStep == ASSUME IInv, Create PROVE IInv'
<1> USE DEF IInv
<1>1. clean' \in BOOLEAN /\ UNCHANGED <<run, netuid, toSet>> /\ at = "create"
      /\ before' = Netuids /\ at' \in {"find", "done"}
  BY DEF Create, Told, Go, Stop, SubnetTypeOK, Outcomes
<1>2. CASE UNCHANGED subnets
  <2>1. SubnetTypeOK'
    BY <1>1, <1>2, ChainAlone DEF SubnetTypeOK, Steps
  <2>2. PayingIsActive' /\ OwnerChecked' /\ ToHandle' /\ DoneSoFar' /\ CreatedIsOurs'
        /\ CleanRunProvisions'
    BY <1>1 DEF PayingIsActive, OwnerChecked, ToHandle,
     DoneSoFar, CreatedIsOurs, CleanRunProvisions, PayingSteps, OwnersSteps
  <2> QED
    BY <1>2, <2>1, <2>2, ChainAlone
<1>3. CASE Room /\ AddSubnet("us")
  <2>1. SubnetTypeOK'
    BY <1>1, <1>3, Appended DEF SubnetTypeOK, Steps
  <2>2. PayingIsActive' /\ OwnerChecked' /\ ToHandle' /\ DoneSoFar' /\ CreatedIsOurs'
        /\ CleanRunProvisions'
    BY <1>1 DEF PayingIsActive, OwnerChecked, ToHandle,
     DoneSoFar, CreatedIsOurs, CleanRunProvisions, PayingSteps, OwnersSteps
  <2>3. PaidIntoActive' /\ StakedWhileShort'
    BY <1>3, Appended DEF PaidIntoActive, StakedWhileShort, Short, New, NoStake
  <2> QED
    BY <2>1, <2>2, <2>3
<1> QED
  BY <1>2, <1>3 DEF Create

(* The subnet a run finds after it created one. *)
LEMMA FindNewStep == ASSUME IInv, FindNew PROVE IInv'
<1> USE DEF IInv, FindNew, Go
<1>1. SubnetTypeOK'
  BY ChainAlone DEF SubnetTypeOK, Steps, Netuids
<1>2. PayingIsActive' /\ OwnerChecked' /\ ToHandle' /\ DoneSoFar' /\ CreatedIsOurs'
      /\ CleanRunProvisions'
  BY DEF PayingIsActive, OwnerChecked, ToHandle,
     DoneSoFar, CreatedIsOurs, CleanRunProvisions, PayingSteps, OwnersSteps
<1> QED
  BY <1>1, <1>2, ChainAlone

(* A run goes past the owner check on a subnet of ours only. *)
LEMMA CheckOwnerStep == ASSUME IInv, CheckOwner PROVE IInv'
<1> USE DEF IInv, CheckOwner, Go, Stop
<1>1. SubnetTypeOK'
  BY ChainAlone DEF SubnetTypeOK, Steps
<1>2. PayingIsActive' /\ OwnerChecked' /\ ToHandle' /\ DoneSoFar' /\ CreatedIsOurs'
      /\ CleanRunProvisions'
  BY DEF Ours, PayingIsActive, OwnerChecked, ToHandle,
     DoneSoFar, CreatedIsOurs, CleanRunProvisions, PayingSteps, OwnersSteps
<1> QED
  BY <1>1, <1>2, ChainAlone

(* The identity is no part of what is kept here. *)
LEMMA SetIdentityStep == ASSUME IInv, SetIdentity PROVE IInv'
<1> USE DEF IInv, SetIdentity, Go
<1>1. SubnetTypeOK'
  BY ChainAlone DEF SubnetTypeOK, Steps
<1>2. PayingIsActive' /\ OwnerChecked' /\ ToHandle' /\ DoneSoFar' /\ CreatedIsOurs'
      /\ CleanRunProvisions'
  BY DEF Ours, PayingIsActive, OwnerChecked, ToHandle,
     DoneSoFar, CreatedIsOurs, CleanRunProvisions, PayingSteps, OwnersSteps
<1> QED
  BY <1>1, <1>2, ChainAlone

(* The subnet of the run is amended to s, where it stands in a step. *)
LEMMA OursAmended == ASSUME SubnetTypeOK, netuid # 0, NEW s, Amended(netuid, s), netuid' = netuid
                     PROVE  Ours' = s
  BY DEF Ours, Amended

(* A run goes on only when its subnet is active. *)
LEMMA ActivateStep == ASSUME IInv, Activate PROVE IInv'
<1> USE DEF IInv
<1>0. /\ at = "activate" /\ UNCHANGED <<run, netuid, before, toSet>>
      /\ netuid \in Netuids
  BY DEF Activate, SubnetTypeOK
<1>1. CASE Ours.active /\ Go("params") /\ UNCHANGED <<subnets, clean>>
  <2>1. SubnetTypeOK'
    BY <1>0, <1>1, ChainAlone DEF SubnetTypeOK, Steps, Go
  <2>2. PayingIsActive' /\ OwnerChecked' /\ ToHandle' /\ DoneSoFar' /\ CreatedIsOurs'
        /\ CleanRunProvisions'
    BY <1>0, <1>1 DEF Go, Ours, PayingIsActive, OwnerChecked, ToHandle,
     DoneSoFar, CreatedIsOurs, CleanRunProvisions, PayingSteps, OwnersSteps
  <2> QED
    BY <1>1, <2>1, <2>2, ChainAlone
<1>2. ASSUME ~Ours.active, NEW o \in Outcomes,
             Told(o), subnets' = [subnets EXCEPT ![netuid].active = o.lands],
             IF o.heard THEN Go("params") ELSE Stop
      PROVE  IInv'
  <2> DEFINE s == [Ours EXCEPT !.active = o.lands]
  <2>1. s \in Subnet /\ s.owner = Ours.owner /\ s.active = o.lands /\ s.params = Ours.params
        /\ s.keys = Ours.keys /\ s.staked = Ours.staked
    BY <1>0, OnChain DEF Subnet, Outcomes, Ours
  <2>2. subnets' = [subnets EXCEPT ![netuid] = s]
    BY <1>2 DEF Ours
  <2> HIDE DEF s
  <2>3. Amended(netuid, s) /\ Ours' = s
    BY <1>0, <2>1, <2>2, Amending, OursAmended DEF Amended, SubnetTypeOK
  <2>4. at' \in {"params", "done"} /\ clean' \in BOOLEAN /\ (at' = "params" => s.active)
    BY <1>2, <2>1 DEF Go, Stop, Told, Outcomes, SubnetTypeOK
  <2>5. SubnetTypeOK'
    BY <1>0, <2>3, <2>4 DEF SubnetTypeOK, Steps, Amended
  <2>6. PayingIsActive' /\ OwnerChecked' /\ ToHandle' /\ DoneSoFar' /\ CreatedIsOurs'
        /\ CleanRunProvisions'
    BY <1>0, <2>1, <2>3, <2>4 DEF PayingIsActive, OwnerChecked, ToHandle,
     DoneSoFar, CreatedIsOurs, CleanRunProvisions, PayingSteps, OwnersSteps
  <2>7. s.keys = {} /\ \A v \in Validators : Short(s.staked[v]) /\ ~(s.staked[v].landed > 0)
    BY <1>0, <1>2, <2>1 DEF PaidIntoActive, StakedWhileShort, Short, Ours
  <2>8. PaidIntoActive' /\ StakedWhileShort'
    BY <2>3, <2>7, AmendedPaid
  <2> QED
    BY <2>5, <2>6, <2>8
<1> QED
  BY <1>1, <1>2 DEF Activate

(* The parameters of our subnet are set. *)
LEMMA SetParamsStep == ASSUME IInv, SetParams PROVE IInv'
<1> USE DEF IInv
<1>0. /\ at = "params" /\ at' = "register" /\ UNCHANGED <<run, netuid, before, toSet>>
      /\ netuid \in Netuids /\ toSet = Hotkeys
  BY DEF SetParams, SubnetTypeOK, ToHandle, PayingSteps, Go
<1> PICK landed \in SUBSET (Params \ Ours.params), unheard \in BOOLEAN :
       /\ subnets' = [subnets EXCEPT ![netuid].params = @ \cup landed]
       /\ clean' = (clean /\ ~unheard /\ Ours.params \cup landed = Params)
  BY DEF SetParams
<1> DEFINE s == [Ours EXCEPT !.params = @ \cup landed]
<1>1. s \in Subnet /\ s.owner = Ours.owner /\ s.active = Ours.active
      /\ s.params = Ours.params \cup landed /\ s.keys = Ours.keys /\ s.staked = Ours.staked
  BY <1>0, OnChain DEF Subnet, Ours
<1>2. subnets' = [subnets EXCEPT ![netuid] = s]
  BY DEF Ours
<1> HIDE DEF s
<1>3. Amended(netuid, s) /\ Ours' = s
  BY <1>0, <1>1, <1>2, Amending, OursAmended DEF Amended, SubnetTypeOK
<1>4. SubnetTypeOK'
  <2>1. clean' \in BOOLEAN
    OBVIOUS
  <2> QED
    BY <1>0, <1>3, <2>1 DEF SubnetTypeOK, Steps, Amended
<1>5. s.active /\ (clean' => s.params = Params)
  BY <1>0, <1>1 DEF PayingIsActive
<1>6. PayingIsActive' /\ OwnerChecked' /\ ToHandle' /\ DoneSoFar' /\ CreatedIsOurs'
      /\ CleanRunProvisions'
  BY <1>0, <1>1, <1>3, <1>5 DEF PayingIsActive, OwnerChecked, ToHandle,
     DoneSoFar, CreatedIsOurs, CleanRunProvisions, PayingSteps, OwnersSteps
<1>7. PaidIntoActive' /\ StakedWhileShort'
  BY <1>0, <1>1, <1>3, <1>5, AmendedPaid DEF StakedWhileShort, Short, Ours
<1> QED
  BY <1>4, <1>6, <1>7

(* A run on another's subnet goes on only when it is active. *)
LEMMA CheckOthersStep == ASSUME IInv, CheckOthers PROVE IInv'
<1> USE DEF IInv, CheckOthers, Go, Stop
<1>1. SubnetTypeOK'
  BY ChainAlone DEF SubnetTypeOK, Steps
<1>2. PayingIsActive' /\ OwnerChecked' /\ ToHandle' /\ DoneSoFar' /\ CreatedIsOurs'
      /\ CleanRunProvisions'
  BY DEF Ours, PayingIsActive, OwnerChecked, ToHandle,
     DoneSoFar, CreatedIsOurs, CleanRunProvisions, PayingSteps, OwnersSteps
<1> QED
  BY <1>1, <1>2, ChainAlone

(* One hotkey is handled. *)
LEMMA RegisterStep == ASSUME IInv, NEW h \in Hotkeys, Register(h) PROVE IInv'
<1> USE DEF IInv
<1>0. /\ at = "register" /\ UNCHANGED <<run, netuid, before>> /\ netuid \in Netuids
      /\ h \in toSet /\ toSet' = toSet \ {h} /\ Ours.active
  BY DEF Register, SubnetTypeOK, PayingIsActive, PayingSteps
<1>1. CASE (h \in Ours.keys \/ ~run.yes) /\ UNCHANGED <<subnets, clean, at>>
  <2>1. SubnetTypeOK'
    BY <1>0, <1>1, ChainAlone DEF SubnetTypeOK
  <2>2. PayingIsActive' /\ OwnerChecked' /\ ToHandle' /\ DoneSoFar' /\ CreatedIsOurs'
        /\ CleanRunProvisions'
    BY <1>0, <1>1 DEF Ours, PayingIsActive, OwnerChecked, ToHandle,
     DoneSoFar, CreatedIsOurs, CleanRunProvisions, PayingSteps, OwnersSteps
  <2> QED
    BY <1>1, <2>1, <2>2, ChainAlone
<1>2. ASSUME NEW o \in Outcomes, Told(o),
             subnets' = IF o.lands THEN [subnets EXCEPT ![netuid].keys = @ \cup {h}] ELSE subnets,
             at' \in IF o.heard THEN {at} ELSE {at, "done"}
      PROVE  IInv'
  <2> DEFINE s == IF o.lands THEN [Ours EXCEPT !.keys = @ \cup {h}] ELSE Ours
  <2>0. Ours \in Subnet
    BY <1>0, OnChain DEF Ours
  <2>1. s \in Subnet /\ s.owner = Ours.owner /\ s.active = Ours.active /\ s.params = Ours.params
        /\ s.keys = (IF o.lands THEN Ours.keys \cup {h} ELSE Ours.keys) /\ s.staked = Ours.staked
    BY <2>0 DEF Subnet
  <2>2. subnets' = [subnets EXCEPT ![netuid] = s]
    <3>1. CASE o.lands
      BY <1>2, <3>1 DEF Ours
    <3>2. CASE ~o.lands
      BY <1>0, <1>2, <3>2 DEF Ours, SubnetTypeOK, Netuids
    <3> QED
      BY <3>1, <3>2
  <2> HIDE DEF s
  <2>3. Amended(netuid, s) /\ Ours' = s
    BY <1>0, <2>1, <2>2, Amending, OursAmended DEF Amended, SubnetTypeOK
  <2>4. /\ at' \in {"register", "done"} /\ clean' \in BOOLEAN
        /\ clean' => clean /\ o.lands
    BY <1>0, <1>2 DEF Told, Outcomes, SubnetTypeOK
  <2>5. SubnetTypeOK'
    BY <1>0, <2>3, <2>4 DEF SubnetTypeOK, Steps, Amended
  <2>6. PayingIsActive' /\ OwnerChecked' /\ ToHandle' /\ DoneSoFar' /\ CreatedIsOurs'
        /\ CleanRunProvisions'
    BY <1>0, <2>1, <2>3, <2>4 DEF PayingIsActive, OwnerChecked, ToHandle,
     DoneSoFar, CreatedIsOurs, CleanRunProvisions, PayingSteps, OwnersSteps
  <2>7. s.active /\ \A v \in Validators : Short(s.staked[v])
    BY <1>0, <2>1 DEF StakedWhileShort, Short, Ours
  <2>8. PaidIntoActive' /\ StakedWhileShort'
    BY <2>3, <2>7, AmendedPaid
  <2> QED
    BY <2>5, <2>6, <2>8
<1> QED
  BY <1>1, <1>2 DEF Register

(* The run goes on when every hotkey is handled. *)
LEMMA EndRegisterStep == ASSUME IInv, EndRegister PROVE IInv'
<1> USE DEF IInv, EndRegister, Go
<1>1. SubnetTypeOK'
  BY ChainAlone, SubnetAssumption DEF SubnetTypeOK, Steps
<1>2. at = "register" => Ours.keys \subseteq Hotkeys
  BY OnChain DEF Ours, SubnetTypeOK, Subnet
<1>3. PayingIsActive' /\ OwnerChecked' /\ ToHandle' /\ DoneSoFar' /\ CreatedIsOurs'
      /\ CleanRunProvisions'
  BY <1>2 DEF Ours, PayingIsActive, OwnerChecked, ToHandle,
     DoneSoFar, CreatedIsOurs, CleanRunProvisions, PayingSteps, OwnersSteps
<1> QED
  BY <1>1, <1>3, ChainAlone

(* One validator is staked, unless it was already. *)
LEMMA StakeStep == ASSUME IInv, NEW v \in Hotkeys, Stake(v) PROVE IInv'
<1> USE DEF IInv
<1>0. /\ at = "stake" /\ UNCHANGED <<run, netuid, before>> /\ netuid \in Netuids
      /\ v \in toSet /\ toSet' = toSet \ {v} /\ Ours.active /\ Ours \in Subnet
      /\ v \in Validators
  BY OnChain DEF Stake, SubnetTypeOK, PayingIsActive, PayingSteps, Ours, ToHandle
<1>1. CASE (Staked(v) \/ ~run.yes) /\ UNCHANGED <<subnets, clean, at>>
  <2>1. SubnetTypeOK'
    BY <1>0, <1>1, ChainAlone DEF SubnetTypeOK
  <2>2. run.yes => \A w \in Validators : w = v => Ours.staked[w].landed > 0
    BY <1>0, <1>1 DEF Staked, Subnet, Holdings
  <2>3. PayingIsActive' /\ OwnerChecked' /\ ToHandle' /\ DoneSoFar' /\ CreatedIsOurs'
        /\ CleanRunProvisions'
    BY <1>0, <1>1, <2>2 DEF Ours, PayingIsActive, OwnerChecked, ToHandle,
     DoneSoFar, CreatedIsOurs, CleanRunProvisions, PayingSteps, OwnersSteps
  <2> QED
    BY <1>1, <2>1, <2>3, ChainAlone
<1>2. ASSUME ~Staked(v), NEW o \in Outcomes, Told(o),
             IF o.lands
             THEN \E y \in Yields : subnets' = [subnets EXCEPT ![netuid].staked[v] = With(@, y)]
             ELSE UNCHANGED subnets,
             at' \in IF o.heard THEN {at} ELSE {at, "done"}
      PROVE  IInv'
  <2>1. /\ at' \in {"stake", "done"} /\ clean' \in BOOLEAN
        /\ clean' => clean /\ o.lands
    BY <1>0, <1>2 DEF Told, Outcomes, SubnetTypeOK
  <2>2. CASE o.lands
    <3> PICK y \in Yields : subnets' = [subnets EXCEPT ![netuid].staked[v] = With(@, y)]
      BY <1>2, <2>2
    <3> DEFINE mine == Ours.staked[v]
               t == [Ours.staked EXCEPT ![v] = With(mine, y)]
               s == [Ours EXCEPT !.staked = t]
    <3>1. mine \in Holdings /\ y \in Nat
      BY <1>0, SubnetAssumption DEF Subnet
    <3>2. /\ With(mine, y) \in Holdings /\ With(mine, y).landed > 0
          /\ Short(With(mine, y))
      <4>1. mine.landed \in Nat /\ mine.held \in Nat /\ (mine.landed = 0 => mine.held = 0)
        BY <3>1 DEF Holdings
      <4>2. /\ With(mine, y).landed = mine.landed + 1 /\ With(mine, y).last = y
            /\ With(mine, y).held = mine.held + y
        BY DEF With
      <4>3. With(mine, y) \in [landed : Nat, held : Nat, last : Nat]
        BY <3>1, <4>1 DEF With
      <4>4. ~Enough(mine.held)
        BY <1>2, <4>1, SubnetAssumption DEF Staked, Enough, mine
      <4>5. With(mine, y).held - With(mine, y).last = mine.held
        BY <3>1, <4>1, <4>2
      <4> QED
        BY <4>1, <4>2, <4>3, <4>4, <4>5 DEF Holdings, Short
    <3> HIDE DEF mine
    <3>3. t \in [Validators -> Holdings] /\ t[v] = With(mine, y)
          /\ \A w \in Validators : w # v => t[w] = Ours.staked[w]
      BY <1>0, <3>2 DEF Subnet
    <3>4. subnets' = [subnets EXCEPT ![netuid] = s]
      BY DEF Ours, mine
    <3> HIDE DEF t
    <3>5. s \in Subnet /\ s.owner = Ours.owner /\ s.active = Ours.active /\ s.params = Ours.params
          /\ s.keys = Ours.keys /\ s.staked = t
      BY <1>0, <3>3 DEF Subnet
    <3> HIDE DEF s
    <3>6. Amended(netuid, s) /\ Ours' = s
      BY <1>0, <3>5, <3>4, Amending, OursAmended DEF Amended, SubnetTypeOK
    <3>7. SubnetTypeOK'
      BY <1>0, <3>6, <2>1 DEF SubnetTypeOK, Steps, Amended
    <3>8. s.staked[v].landed > 0 /\ \A w \in Validators : w # v => s.staked[w] = Ours.staked[w]
      BY <3>2, <3>3, <3>5
    <3>9. PayingIsActive' /\ OwnerChecked' /\ ToHandle' /\ DoneSoFar' /\ CreatedIsOurs'
          /\ CleanRunProvisions'
      BY <1>0, <2>1, <3>5, <3>6, <3>8 DEF PayingIsActive, OwnerChecked, ToHandle,
         DoneSoFar, CreatedIsOurs, CleanRunProvisions, PayingSteps, OwnersSteps
    <3>10. \A w \in Validators : Short(s.staked[w])
      BY <1>0, <3>2, <3>3, <3>5 DEF StakedWhileShort, Short, Ours
    <3>11. PaidIntoActive' /\ StakedWhileShort'
      BY <1>0, <3>5, <3>6, <3>10, AmendedPaid
    <3> QED
      BY <3>7, <3>9, <3>11
  <2>3. CASE ~o.lands
    <3>1. UNCHANGED subnets /\ Ours' = Ours /\ ~clean'
      BY <1>0, <1>2, <2>1, <2>3 DEF Ours
    <3>2. SubnetTypeOK'
      BY <1>0, <3>1, <2>1, ChainAlone DEF SubnetTypeOK, Steps
    <3>3. PayingIsActive' /\ OwnerChecked' /\ ToHandle' /\ DoneSoFar' /\ CreatedIsOurs'
          /\ CleanRunProvisions'
      BY <1>0, <2>1, <3>1 DEF PayingIsActive, OwnerChecked, ToHandle,
         DoneSoFar, CreatedIsOurs, CleanRunProvisions, PayingSteps, OwnersSteps
    <3> QED
      BY <3>1, <3>2, <3>3, ChainAlone
  <2> QED
    BY <2>2, <2>3
<1> QED
  BY <1>1, <1>2 DEF Stake

(* The run goes on when every validator is handled. *)
LEMMA EndStakeStep == ASSUME IInv, EndStake PROVE IInv'
<1> USE DEF IInv, EndStake, Go
<1>1. SubnetTypeOK'
  BY ChainAlone DEF SubnetTypeOK, Steps
<1>2. PayingIsActive' /\ OwnerChecked' /\ ToHandle' /\ DoneSoFar' /\ CreatedIsOurs'
      /\ CleanRunProvisions'
  BY DEF Ours, PayingIsActive, OwnerChecked, ToHandle,
     DoneSoFar, CreatedIsOurs, CleanRunProvisions, PayingSteps, OwnersSteps
<1> QED
  BY <1>1, <1>2, ChainAlone

(* The report changes nothing on the chain. *)
LEMMA ReportStep == ASSUME IInv, Report PROVE IInv'
  BY StoppingStep DEF Report, IInv, SubnetTypeOK

(* Every step keeps the invariant. *)
LEMMA NextIInv == IInv /\ [SubnetNext]_subnetVars => IInv'
<1> SUFFICES ASSUME IInv, [SubnetNext]_subnetVars PROVE IInv'
  OBVIOUS
<1>1. CASE Foreign
  BY <1>1, ForeignStep
<1>2. CASE StartRun \/ Dropped
  BY <1>2, StartRunStep, DroppedStep
<1>3. CASE Create \/ FindNew \/ CheckOwner \/ SetIdentity
  BY <1>3, CreateStep, FindNewStep, CheckOwnerStep, SetIdentityStep
<1>4. CASE Activate \/ SetParams \/ CheckOthers
  BY <1>4, ActivateStep, SetParamsStep, CheckOthersStep
<1>5. CASE EndRegister \/ EndStake \/ Report
  BY <1>5, EndRegisterStep, EndStakeStep, ReportStep
<1>6. CASE \E h \in Hotkeys : Register(h) \/ Stake(h)
  BY <1>6, RegisterStep, StakeStep
<1>7. CASE UNCHANGED subnetVars
  BY <1>7 DEF subnetVars, IInv, SubnetTypeOK, Netuids, Ours, PaidIntoActive, StakedWhileShort, PayingIsActive, OwnerChecked, ToHandle,
     DoneSoFar, CreatedIsOurs, CleanRunProvisions, PayingSteps, OwnersSteps
<1> QED
  BY <1>1, <1>2, <1>3, <1>4, <1>5, <1>6, <1>7 DEF SubnetNext

-----------------------------------------------------------------------------
(* The invariant holds of every behaviour. *)
LEMMA Inductive == SubnetSpec => []IInv
  BY InitIInv, NextIInv, PTL DEF SubnetSpec

(* provision_subnet.py: the script's place, and the chain it acts on, stay
   well formed: from a step on, there is a subnet to act on. *)
THEOREM TypeCorrect == SubnetSpec => []SubnetTypeOK
  BY Inductive, PTL DEF IInv

(* No run, wherever it died, registers or stakes in a subnet that is not
   active. *)
THEOREM PaidIntoActiveOnly == SubnetSpec => []PaidIntoActive
  BY Inductive, PTL DEF IInv

(* Whoever creates subnets meanwhile, --create works on its own. *)
THEOREM CreatedIsAlwaysOurs == SubnetSpec => []CreatedIsOurs
  BY Inductive, PTL DEF IInv

(* However many runs there are, whatever answers are lost and whatever a stake
   is held as, no validator is staked again once its stakes have reached the
   threshold. *)
THEOREM AlwaysStakedWhileShort == SubnetSpec => []StakedWhileShort
  BY Inductive, PTL DEF IInv

(* A run that heard every extrinsic succeed has provisioned all of it. *)
THEOREM CleanRunAlwaysProvisions == SubnetSpec => []CleanRunProvisions
  BY Inductive, PTL DEF IInv

(* Any number of runs of the script, each dying anywhere, keep its promises. *)
THEOREM SubnetAlwaysSafe == SubnetSpec => []SubnetSafety
BY TypeCorrect, PaidIntoActiveOnly, CreatedIsAlwaysOurs, AlwaysStakedWhileShort, CleanRunAlwaysProvisions, PTL DEF SubnetSafety

(***************************************************************************)
(* MinerServing                                                            *)
(***************************************************************************)

(* What holds from the probe of the port on: the probe saw it free, and each
   attempt to publish left an address on the chain or was counted. *)
ProbedOn ==
  /\ stage \in {"probed", "bound_to_start", "serving"} => port # "other"
  /\ stage \notin {"probed", "bound_to_start", "serving"} => tries = 0
  /\ stage = "probed" => tries < ServeTries
  /\ stage \in {"bound_to_start", "serving"} => published # "nothing" \/ tries = ServeTries

(* An address becomes an old one only when the machine moves. *)
OldMoved == faults.moves = 0 => published # "old"

(* The invariant. *)
ServingInv == ServingTypeOK /\ CacheIsWhole /\ ProbedOn /\ OldMoved /\ HeadGoesToStaked

(* The machine is off. *)
LEMMA ServingInitially == ServingBlank => ServingInv
<1> SUFFICES ASSUME ServingBlank PROVE ServingInv
  OBVIOUS
<1>1. ServingTypeOK
  BY ServingAssumption DEF ServingBlank, ServingTypeOK, Stages, Stakes, Nothing
<1>2. CacheIsWhole /\ ProbedOn /\ OldMoved
  BY DEF ServingBlank, CacheIsWhole, ProbedOn, OldMoved
<1>3. HeadGoesToStaked
  BY DEF ServingBlank, HeadGoesToStaked, Nothing
<1> QED BY <1>1, <1>2, <1>3 DEF ServingInv

(* Every step keeps the types, whatever the machine and the chain do. *)
LEMMA ServingTyped == ServingInv /\ [ServingNext]_servingVars => ServingTypeOK'
<1> SUFFICES ASSUME ServingTypeOK, ProbedOn, [ServingNext]_servingVars PROVE ServingTypeOK'
  BY DEF ServingInv
<1> USE ServingAssumption DEF ServingTypeOK
<1>1. CASE StakeMoves
  <2>1. PICK c \in Callers, s \in Stakes : stake' = [stake EXCEPT ![c] = s]
    BY <1>1 DEF StakeMoves
  <2>2. stake' \in [Callers -> Stakes]
    BY <2>1
  <2> QED BY <1>1, <2>2 DEF StakeMoves, procVars
<1>2. CASE OtherTakesPort
  BY <1>2 DEF OtherTakesPort, procVars, stakeVars
<1>3. CASE OtherLeavesPort
  BY <1>3 DEF OtherLeavesPort, procVars, stakeVars
<1>4. CASE DiskFails
  BY <1>4 DEF DiskFails, procVars, stakeVars
<1>5. CASE Moves
  BY <1>5 DEF Moves, procVars, stakeVars
<1>6. CASE Crash
  BY <1>6 DEF Crash, stakeVars, To, Stages
<1>7. CASE Start
  BY <1>7 DEF Start, stakeVars, To, Stages
<1>8. CASE LoadEmbeddings
  BY <1>8 DEF LoadEmbeddings, stakeVars, To, Stages
<1>9. CASE ComputeEmbeddings
  BY <1>9 DEF ComputeEmbeddings, stakeVars, To, Stages
<1>10. CASE SaveCache
  BY <1>10 DEF SaveCache, stakeVars, To, Stages
<1>11. CASE ProbePort
  BY <1>11 DEF ProbePort, To, Stages
<1>12. CASE Serve
  BY <1>12 DEF Serve, stakeVars, To, Stages, ProbedOn
<1>13. CASE StartAxon
  BY <1>13 DEF StartAxon, stakeVars, To, Stages
<1>14. CASE Refresh
  BY <1>14 DEF Refresh, procVars
<1>15. CASE HoldProof
  BY <1>15 DEF HoldProof, stakeVars
<1>16. CASE \E c \in Callers, e \in 0..LastProof : Query(c, e)
  BY <1>16 DEF Query, procVars, stakeVars
<1>17. CASE UNCHANGED servingVars
  BY <1>17 DEF servingVars
<1> QED BY <1>1, <1>2, <1>3, <1>4, <1>5, <1>6, <1>7, <1>8, <1>9, <1>10, <1>11, <1>12, <1>13,
           <1>14, <1>15, <1>16, <1>17 DEF ServingNext

(* Every step keeps what holds of the cache, the port and the address. *)
LEMMA ServingKept == ServingInv /\ [ServingNext]_servingVars => (CacheIsWhole /\ ProbedOn /\ OldMoved)'
<1> SUFFICES ASSUME ServingTypeOK, CacheIsWhole, ProbedOn, OldMoved, [ServingNext]_servingVars
             PROVE (CacheIsWhole /\ ProbedOn /\ OldMoved)'
  BY DEF ServingInv
<1>0. /\ faults \in [crashes : 0..MaxCrashes, disk : 0..MaxFaults, moves : 0..MaxMoves]
      /\ tries \in 0..ServeTries /\ ServeTries \in Nat \ {0}
      /\ MaxFaults \in Nat /\ MaxMoves \in Nat
  BY ServingAssumption DEF ServingTypeOK
<1> USE DEF CacheIsWhole, ProbedOn, OldMoved
<1>1. CASE StakeMoves \/ Refresh \/ HoldProof \/ UNCHANGED servingVars
           \/ \E c \in Callers, e \in 0..LastProof : Query(c, e)
  BY <1>1 DEF StakeMoves, Refresh, HoldProof, servingVars, Query, procVars
<1>2. CASE OtherTakesPort
  BY <1>2 DEF OtherTakesPort, procVars
<1>3. CASE OtherLeavesPort
  BY <1>3 DEF OtherLeavesPort, procVars
<1>4. CASE DiskFails
  BY <1>0, <1>4 DEF DiskFails, procVars
<1>5. CASE Moves
  BY <1>0, <1>5 DEF Moves, procVars
<1>6. CASE Crash
  BY <1>0, <1>6 DEF Crash, To
<1>7. CASE Start
  BY <1>7 DEF Start, To
<1>8. CASE LoadEmbeddings
  BY <1>8 DEF LoadEmbeddings, To
<1>9. CASE ComputeEmbeddings
  BY <1>9 DEF ComputeEmbeddings, To
<1>10. CASE SaveCache
  BY <1>10 DEF SaveCache, To
<1>11. CASE ProbePort
  BY <1>0, <1>11 DEF ProbePort, To
<1>12. CASE Serve
  BY <1>0, <1>12 DEF Serve, To
<1>13. CASE StartAxon
  BY <1>13 DEF StartAxon, To
<1> QED BY <1>1, <1>2, <1>3, <1>4, <1>5, <1>6, <1>7, <1>8, <1>9, <1>10, <1>11, <1>12, <1>13
        DEF ServingNext

(* Who got the head had the stake in the metagraph that was read. *)
LEMMA HeadKept == ServingInv /\ [ServingNext]_servingVars => HeadGoesToStaked'
<1> SUFFICES ASSUME ServingTypeOK, HeadGoesToStaked, [ServingNext]_servingVars
             PROVE  HeadGoesToStaked'
  BY DEF ServingInv
<1>1. CASE UNCHANGED asked
  BY <1>1 DEF HeadGoesToStaked
<1>2. ASSUME NEW c \in Callers, NEW e \in 0..LastProof, Query(c, e) PROVE HeadGoesToStaked'
  <2>1. /\ asked' = [caller |-> c, of |-> e, epoch |-> proofOf, now |-> stake[c],
                     stale |-> snapshot # stake]
        /\ snapshot[c] = "staked" /\ e \in {0, proofOf}
    BY <1>2 DEF Query, CallerAllowed, Matches
  <2>2. CASE snapshot = stake
    BY <2>1, <2>2 DEF HeadGoesToStaked
  <2>3. CASE snapshot # stake
    BY <2>1, <2>3 DEF HeadGoesToStaked
  <2> QED BY <2>2, <2>3
<1>3. \/ UNCHANGED asked \/ \E c \in Callers, e \in 0..LastProof : Query(c, e)
  BY DEF ServingNext, servingVars, StakeMoves, OtherTakesPort, OtherLeavesPort, DiskFails, Moves,
         Crash, Start, LoadEmbeddings, ComputeEmbeddings, SaveCache, ProbePort, Serve, StartAxon,
         Refresh, HoldProof
<1> QED BY <1>1, <1>2, <1>3

(* The invariant is stronger. *)
LEMMA ServingInvImplies == ServingInv => ServingSafety
<1> SUFFICES ASSUME ServingInv PROVE ServingSafety
  OBVIOUS
<1>1. PortLostLate
  BY DEF ServingInv, ProbedOn, PortLostLate
<1>2. QuietlyPublished
  <2>1. published \in {"nothing", "old", "this"} /\ tries \in 0..ServeTries /\ ServeTries \in Nat
    BY ServingAssumption DEF ServingInv, ServingTypeOK
  <2> QED BY <2>1 DEF ServingInv, ProbedOn, OldMoved, QuietlyPublished
<1> QED BY <1>1, <1>2 DEF ServingInv, ServingSafety

(* However the machine crashes, moves or loses its disk, and whatever the chain
   answers: the cache a miner starts from is whole, its port and its address
   are what its log says, and its head went to staked callers. *)
THEOREM ServingAlwaysSafe == ServingSpec => []ServingSafety
<1>1. ServingInv /\ [ServingNext]_servingVars => ServingInv'
  BY ServingTyped, ServingKept, HeadKept DEF ServingInv
<1> QED BY <1>1, ServingInitially, ServingInvImplies, PTL DEF ServingSpec

(***************************************************************************)
(* LogPull                                                                 *)
(***************************************************************************)

(* The answer on its way is sealed with the key of the boot that runs, and has,
   from the number asked with on, every line that is not missed. *)
SealedReply ==
  reply.at = "sealed" =>
    /\ key.td = log.boot /\ key.operator = log.boot
    /\ reply.from \in {0, since.next} /\ reply.next \in 0..log.seq
    /\ reply.lines \subseteq reply.from + 1..reply.next
    /\ \A k \in reply.from + 1..reply.next : k \in reply.lines \/ <<log.boot, k>> \in missed
    /\ since.boot = log.boot => since.next <= reply.next

(* What was shown is of boots up to the last one shown, and of that one it
   ends at the number the operator was told. *)
ShownUpTo ==
  /\ \A b, k \in Nat : <<b, k>> \in shown => b < since.boot \/ (b = since.boot /\ k <= since.next)
  /\ since.boot = log.boot => since.next <= log.seq

(* The invariant. *)
LogInv == LogTypeOK /\ SealedReply /\ ShownUpTo /\ NothingTwice /\ NothingSkipped

(* The ring holds as many lines as its ends are apart. *)
LEMMA HeldSize ==
  ASSUME NEW a \in Nat, NEW b \in Nat, a <= b + 1
  PROVE  Cardinality(a..b) = b - a + 1
BY FS_Interval

(* Nothing was logged, nothing shown. *)
LEMMA LogInitially == LogInit => LogInv
<1> SUFFICES ASSUME LogInit PROVE LogInv
  OBVIOUS
<1>1. Cardinality(Held) = 0
  <2>1. Held = 1..0
    BY DEF LogInit, Held
  <2> QED BY <2>1, HeldSize
<1>2. LogTypeOK
  <2>1. /\ log \in [boot : 1..LastBoot, seq : 0..MaxLines, oldest : 1..MaxLines + 1]
        /\ log.oldest <= log.seq + 1 /\ Cardinality(Held) <= Capacity
        /\ key \in [td : {0, log.boot}, operator : 0..log.boot]
    BY <1>1, LogAssumption DEF LogInit
  <2>2. reply.at \in {"none", "refused", "sealed"} /\ again \in BOOLEAN
    BY DEF LogInit, NoReply
  <2>3. since.next \in 0..MaxLines /\ since.boot \in 0..log.boot /\ since.carried \in BOOLEAN
    BY LogAssumption DEF LogInit
  <2>4. shown \cup missed \subseteq (1..LastBoot) \X (1..MaxLines)
    BY DEF LogInit
  <2> QED BY <2>1, <2>2, <2>3, <2>4 DEF LogTypeOK
<1>3. SealedReply /\ ShownUpTo /\ NothingTwice /\ NothingSkipped
  BY DEF LogInit, SealedReply, ShownUpTo, NothingTwice, NothingSkipped, NoReply
<1> QED BY <1>2, <1>3 DEF LogInv

(* A new line may push the oldest out of the ring. *)
LEMMA EmitStep == LogInv /\ Emit => LogInv'
<1> SUFFICES ASSUME LogInv, Emit PROVE LogInv'
  OBVIOUS
<1>1. /\ log \in [boot : 1..LastBoot, seq : 0..MaxLines, oldest : 1..MaxLines + 1]
      /\ log.oldest <= log.seq + 1 /\ Cardinality(Held) <= Capacity
      /\ Capacity \in Nat \ {0} /\ MaxLines \in Nat /\ LastBoot \in Nat
  BY LogAssumption DEF LogInv, LogTypeOK
<1>2. Cardinality(Held) = log.seq - log.oldest + 1
  BY <1>1, HeldSize DEF Held
<1>3. /\ log.seq < MaxLines /\ log'.boot = log.boot /\ log'.seq = log.seq + 1
      /\ log'.oldest = IF Cardinality(Held) = Capacity THEN log.oldest + 1 ELSE log.oldest
      /\ log' \in [boot : 1..LastBoot, seq : 0..MaxLines, oldest : 1..MaxLines + 1]
  <2>1. log.seq < MaxLines /\ log' = [log EXCEPT !.seq = @ + 1,
                        !.oldest = IF Cardinality(Held) = Capacity THEN @ + 1 ELSE @]
    BY DEF Emit
  <2>2. log.oldest \in 1..MaxLines /\ log.seq + 1 \in 0..MaxLines
    BY <1>1, <2>1
  <2> DEFINE oldest == IF Cardinality(Held) = Capacity THEN log.oldest + 1 ELSE log.oldest
  <2>3. oldest \in 1..MaxLines + 1
    BY <1>1, <2>2
  <2>4. log' = [boot |-> log.boot, seq |-> log.seq + 1, oldest |-> oldest]
    BY <1>1, <2>1
  <2> HIDE DEF oldest
  <2>5. /\ log'.boot = log.boot /\ log'.seq = log.seq + 1 /\ log'.oldest = oldest
        /\ log' \in [boot : 1..LastBoot, seq : 0..MaxLines, oldest : 1..MaxLines + 1]
    BY <1>1, <2>2, <2>3, <2>4
  <2> QED BY <2>1, <2>5 DEF oldest
<1>4. log'.oldest <= log'.seq + 1 /\ log'.seq - log'.oldest + 1 <= Capacity
  BY <1>1, <1>2, <1>3
<1>5. Cardinality(Held') <= Capacity
  <2>1. Held' = log'.oldest..log'.seq
    BY DEF Held
  <2>2. log'.oldest \in Nat /\ log'.seq \in Nat
    BY <1>1, <1>3
  <2> QED BY <1>4, <2>1, <2>2, HeldSize
<1>6. LogTypeOK'
  BY <1>1, <1>3, <1>4, <1>5 DEF LogInv, LogTypeOK, Emit, Held
<1>7. SealedReply'
  BY <1>1, <1>3 DEF LogInv, SealedReply, Emit
<1>8. ShownUpTo'
  BY <1>1, <1>3 DEF LogInv, LogTypeOK, ShownUpTo, Emit
<1> QED BY <1>6, <1>7, <1>8 DEF LogInv, Emit, NothingTwice, NothingSkipped

(* A provisioning and a boot touch neither the shown nor the missed. *)
LEMMA OtherLogSteps == LogInv /\ (ProvisionTD \/ Reboot \/ UNCHANGED logVars) => LogInv'
<1> SUFFICES ASSUME LogInv, ProvisionTD \/ Reboot \/ UNCHANGED logVars PROVE LogInv'
  OBVIOUS
<1>1. /\ log \in [boot : 1..LastBoot, seq : 0..MaxLines, oldest : 1..MaxLines + 1]
      /\ key \in [td : {0, log.boot}, operator : 0..log.boot]
      /\ MaxLines \in Nat /\ LastBoot \in Nat /\ Capacity \in Nat
      /\ since.next \in 0..MaxLines /\ since.boot \in 0..log.boot
  BY LogAssumption DEF LogInv, LogTypeOK
<1>2. CASE ProvisionTD
  <2>1. /\ UNCHANGED <<log, reply, since, shown, missed, again>> /\ key.td = 0
        /\ key' \in [td : {0, log.boot}, operator : 0..log.boot]
    BY <1>1, <1>2 DEF ProvisionTD
  <2>2. LogTypeOK'
    BY <2>1 DEF LogInv, LogTypeOK, Held
  <2>3. SealedReply'
    BY <1>1, <2>1 DEF LogInv, SealedReply
  <2> QED BY <2>1, <2>2, <2>3 DEF LogInv, ShownUpTo, NothingTwice, NothingSkipped
<1>3. CASE Reboot
  <2>1. /\ log' = [boot |-> log.boot + 1, seq |-> 0, oldest |-> 1] /\ log.boot < LastBoot
        /\ key' = [td |-> 0, operator |-> key.operator] /\ reply'.at = "none"
        /\ UNCHANGED <<since, shown, missed, again>>
    BY <1>1, <1>3 DEF Reboot, NoReply
  <2>2. Cardinality(Held') <= Capacity
    <3>1. Held' = 1..0
      BY <2>1 DEF Held
    <3> QED BY <1>1, <3>1, HeldSize
  <2>3. LogTypeOK'
    BY <1>1, <2>1, <2>2 DEF LogInv, LogTypeOK
  <2>4. SealedReply' /\ ShownUpTo'
    BY <1>1, <2>1 DEF LogInv, SealedReply, ShownUpTo
  <2> QED BY <2>1, <2>3, <2>4 DEF LogInv, NothingTwice, NothingSkipped
<1>4. CASE UNCHANGED logVars
  BY <1>4 DEF logVars, LogInv, LogTypeOK, Held, SealedReply, ShownUpTo, NothingTwice, NothingSkipped
<1> QED BY <1>2, <1>3, <1>4

(* The endpoint seals what the ring holds from the number asked with on. *)
LEMMA AnswerStep == LogInv /\ Answer => LogInv'
<1> SUFFICES ASSUME LogInv, Answer PROVE LogInv'
  OBVIOUS
<1>1. /\ log \in [boot : 1..LastBoot, seq : 0..MaxLines, oldest : 1..MaxLines + 1]
      /\ log.oldest <= log.seq + 1
      /\ key \in [td : {0, log.boot}, operator : 0..log.boot]
      /\ MaxLines \in Nat /\ LastBoot \in Nat
      /\ since.next \in 0..MaxLines /\ since.boot \in 0..log.boot
      /\ shown \cup missed \subseteq (1..LastBoot) \X (1..MaxLines)
  BY LogAssumption DEF LogInv, LogTypeOK
<1>2. PICK n \in {0, since.next} :
       IF key.td # key.operator
       THEN reply' = [at |-> "refused"] /\ UNCHANGED missed
       ELSE /\ reply' = [at |-> "sealed", from |-> n, next |-> log.seq, lines |-> LinesAfter(n)]
            /\ missed' = missed \cup {<<log.boot, k>> : k \in n + 1..log.oldest - 1}
  BY DEF Answer
<1>3. key.operator # 0 /\ UNCHANGED <<log, key, since, shown, again>>
  BY DEF Answer
<1>4. CASE key.td # key.operator
  <2>1. reply'.at = "refused" /\ missed' = missed
    BY <1>2, <1>4
  <2>2. LogTypeOK'
    BY <1>3, <2>1 DEF LogInv, LogTypeOK, Held
  <2>3. SealedReply'
    BY <2>1 DEF SealedReply
  <2> QED BY <1>3, <2>1, <2>2, <2>3 DEF LogInv, ShownUpTo, NothingTwice, NothingSkipped
<1>5. CASE key.td = key.operator
  <2>1. /\ reply'.at = "sealed" /\ reply'.from = n /\ reply'.next = log.seq
        /\ reply'.lines = LinesAfter(n)
        /\ missed' = missed \cup {<<log.boot, k>> : k \in n + 1..log.oldest - 1}
    BY <1>2, <1>5
  <2>2. missed' \subseteq (1..LastBoot) \X (1..MaxLines) /\ n \in Nat
    BY <1>1, <2>1
  <2>3. LogTypeOK'
    BY <1>1, <1>3, <2>1, <2>2 DEF LogInv, LogTypeOK, Held
  <2>4. key.td = log.boot /\ key.operator = log.boot
    BY <1>1, <1>3, <1>5
  <2>5. LinesAfter(n) \subseteq n + 1..log.seq
    BY <1>1, <2>2 DEF LinesAfter, Held
  <2>6. \A k \in n + 1..log.seq : k \in LinesAfter(n) \/ <<log.boot, k>> \in missed'
    BY <1>1, <2>1, <2>2 DEF LinesAfter, Held
  <2>7. since.boot = log.boot => since.next <= log.seq
    BY DEF LogInv, ShownUpTo
  <2>8. SealedReply'
    BY <1>1, <1>3, <2>1, <2>2, <2>4, <2>5, <2>6, <2>7 DEF SealedReply
  <2> QED BY <1>3, <2>1, <2>3, <2>8 DEF LogInv, ShownUpTo, NothingTwice, NothingSkipped
<1> QED BY <1>4, <1>5

(* What is opened was not shown before, and is all there was. *)
LEMMA ShowStep == LogInv /\ ShowLines => LogInv'
<1> SUFFICES ASSUME LogInv, ShowLines PROVE LogInv'
  OBVIOUS
<1>1. /\ log \in [boot : 1..LastBoot, seq : 0..MaxLines, oldest : 1..MaxLines + 1]
      /\ key \in [td : {0, log.boot}, operator : 0..log.boot]
      /\ MaxLines \in Nat /\ LastBoot \in Nat
      /\ since.next \in 0..MaxLines /\ since.boot \in 0..log.boot /\ since.carried \in BOOLEAN
      /\ shown \cup missed \subseteq (1..LastBoot) \X (1..MaxLines) /\ again = FALSE
  BY LogAssumption DEF LogInv, LogTypeOK, NothingTwice
<1>2. UNCHANGED <<log, key, missed>> /\ reply'.at = "none"
  BY DEF ShowLines, NoReply
<1>3. CASE UNCHANGED <<since, shown, again>>
  BY <1>2, <1>3 DEF LogInv, LogTypeOK, Held, SealedReply, ShownUpTo, NothingTwice, NothingSkipped
<1>4. CASE ~UNCHANGED <<since, shown, again>>
  <2> DEFINE lines == {<<log.boot, k>> : k \in reply.lines}
  <2>1. reply.at = "sealed"
    BY <1>4 DEF ShowLines
  <2>2. /\ key.td = log.boot /\ key.operator = log.boot
        /\ reply.from \in {0, since.next} /\ reply.next \in 0..log.seq
        /\ reply.lines \subseteq reply.from + 1..reply.next
        /\ \A k \in reply.from + 1..reply.next : k \in reply.lines \/ <<log.boot, k>> \in missed
        /\ since.boot = log.boot => since.next <= reply.next
    BY <2>1 DEF LogInv, SealedReply
  <2>3. /\ since' = [next |-> reply.next, boot |-> log.boot,
                     carried |-> reply.from # 0 /\ (since.boot # log.boot \/ since.carried)]
        /\ shown' = shown \cup lines
        /\ again' = (again \/ (reply.from = since.next /\ lines \cap shown # {}))
    BY <1>4, <2>2 DEF ShowLines
  <2>4. \A b, k \in Nat : <<b, k>> \in shown => b < since.boot \/ (b = since.boot /\ k <= since.next)
    BY DEF LogInv, ShownUpTo
  <2>5. reply.from = since.next => lines \cap shown = {}
    <3> SUFFICES ASSUME reply.from = since.next, NEW k \in reply.lines, <<log.boot, k>> \in shown
                 PROVE  FALSE
      OBVIOUS
    <3>1. k \in Nat /\ k > since.next /\ log.boot \in Nat /\ log.boot >= since.boot
      BY <1>1, <2>2
    <3> QED BY <1>1, <2>4, <3>1
  <2>6. ~ again'
    BY <1>1, <2>3, <2>5
  <2>7. lines \subseteq (1..LastBoot) \X (1..MaxLines)
    BY <1>1, <2>2
  <2>8. /\ since'.next = reply.next /\ since'.boot = log.boot /\ since'.carried \in BOOLEAN
        /\ since'.carried <=> reply.from # 0 /\ (since.boot # log.boot \/ since.carried)
    BY <2>3
  <2>9. LogTypeOK'
    BY <1>1, <1>2, <2>2, <2>3, <2>6, <2>7, <2>8 DEF LogInv, LogTypeOK, Held
  <2>10. ShownUpTo'
    <3>1. ASSUME NEW b \in Nat, NEW k \in Nat, <<b, k>> \in shown'
          PROVE  b < log.boot \/ (b = log.boot /\ k <= reply.next)
      <4>1. CASE <<b, k>> \in shown
        BY <1>1, <2>2, <2>4, <4>1
      <4>2. CASE <<b, k>> \in lines
        BY <1>1, <2>2, <4>2
      <4> QED BY <2>3, <3>1, <4>1, <4>2
    <3> QED BY <1>2, <2>2, <2>8, <3>1 DEF ShownUpTo
  <2>11. NothingSkipped'
    <3> SUFFICES ASSUME ~since'.carried, NEW k \in 1..reply.next
                 PROVE  <<log.boot, k>> \in shown' \cup missed'
      BY <2>8 DEF NothingSkipped
    <3>1. CASE k > reply.from
      <4>1. k \in reply.from + 1..reply.next
        BY <1>1, <2>2, <3>1
      <4> QED BY <1>2, <2>2, <2>3, <4>1
    <3>2. CASE k <= reply.from
      <4>1. reply.from # 0 /\ reply.from = since.next /\ since.boot = log.boot /\ ~since.carried
        BY <1>1, <2>2, <2>8, <3>2
      <4>2. k \in 1..since.next /\ since.boot # 0
        BY <1>1, <2>2, <3>2, <4>1
      <4> QED BY <1>2, <2>3, <4>1, <4>2 DEF LogInv, NothingSkipped
    <3> QED BY <1>1, <2>2, <3>1, <3>2
  <2>12. SealedReply' /\ NothingTwice'
    BY <1>2, <2>6 DEF SealedReply, NothingTwice
  <2> QED BY <2>9, <2>10, <2>11, <2>12 DEF LogInv
<1> QED BY <1>3, <1>4

(* However answers are lost, the ring turns over and the TD reboots, an
   operator that passes on the number it is told sees no line twice, and none
   is skipped that the ring still held. *)
THEOREM LogAlwaysSafe == LogSpec => []LogSafety
<1>1. LogInv /\ [LogNext]_logVars => LogInv'
  BY EmitStep, OtherLogSteps, AnswerStep, ShowStep DEF LogNext
<1>2. LogInv => LogSafety
  BY DEF LogInv, LogSafety
<1> QED BY <1>1, <1>2, LogInitially, PTL DEF LogSpec

(***************************************************************************)
(* SpendTracker                                                            *)
(***************************************************************************)

(* A thread with a reservation holds one of its own, for what it needs. *)
EachItsOwn ==
  /\ IsFiniteSet(DOMAIN open) /\ {worker[w].id : w \in Workers} \ {0} = DOMAIN open
  /\ \A w \in Workers : worker[w].id # 0 =>
       open[worker[w].id] = Need(w) /\ \A v \in Workers : worker[v].id = worker[w].id => v = w

(* The overages there may have been since the budget was last held: those of
   the threads that hold no reservation now. *)
OverageBehind == [w \in Workers |-> IF worker[w].id = 0 THEN Overage[w] ELSE 0]
OverrunIsBehind == spent + held <= Cap + SumTo(OverageBehind, NumWorkers)

(* The invariant. *)
SpendInv ==
  /\ SpendTypeOK /\ EachItsOwn /\ BooksBalance /\ OverrunIsBehind /\ ChargedCoversBilled

(* A product of natural numbers is one, and grows with either. *)
LEMMA Products ==
  ASSUME NEW a \in Nat, NEW b \in Nat, NEW c \in Nat, b <= c
  PROVE  a * b \in Nat /\ a * b <= a * c /\ b * a <= c * a
<1>1. \A x, y \in Nat : x * y \in Nat
  OBVIOUS
<1>2. PICK d \in Nat : c = b + d
  <2>1. c - b \in Nat /\ c = b + (c - b)
    OBVIOUS
  <2> QED BY <2>1
<1>3. a * c = a * b + a * d /\ c * a = b * a + d * a
  BY <1>2
<1> QED BY <1>1, <1>3

(* What is spent and held stays within a sum that grows with it. *)
LEMMA Raised ==
  ASSUME NEW t \in Nat, NEW k \in Nat, NEW cap \in Nat, NEW b \in Nat, t + k <= cap
  PROVE  t + k <= cap + b
OBVIOUS

(* What is spent and held grew by no more than a thread's overage. *)
LEMMA Within ==
  ASSUME NEW s \in Nat, NEW h \in Nat, NEW t \in Nat, NEW k \in Nat, NEW cap \in Nat,
         NEW a \in Nat, NEW v \in Nat, t + k <= s + h + v, s + h <= cap + a
  PROVE  t + k <= cap + (a + v)
OBVIOUS

(* What an attempt needs and may use is a number. *)
LEMMA Amounts ==
  /\ Protected \in Nat /\ LivePrice \in Nat /\ LivePrice <= Protected /\ NumWorkers \in Nat
  /\ \A w \in Workers : Need(w) \in Nat /\ Overage[w] \in Nat
  /\ \A w \in Workers, tokens \in 0..MostTokens :
       /\ Protected * tokens \in Nat /\ LivePrice * tokens \in Nat
       /\ LivePrice * tokens <= Protected * tokens
       /\ Protected * tokens <= Need(w) + Overage[w]
<1>1. Protected \in Nat /\ LivePrice \in Nat /\ LivePrice <= Protected /\ NumWorkers \in Nat
  BY SpendAssumption DEF Protected, Top
<1>2. ASSUME NEW w \in Workers PROVE Need(w) \in Nat
  <2>1. WorstTokens[w] \in Nat
    BY SpendAssumption
  <2> QED BY <1>1, <2>1, Products DEF Need
<1>3. MostTokens \in Nat /\ Protected * MostTokens \in Nat
  <2>1. MostTokens \in Nat
    BY SpendAssumption
  <2> QED BY <1>1, <2>1, Products
<1>4. ASSUME NEW w \in Workers
      PROVE  Overage[w] \in Nat /\ Protected * MostTokens <= Need(w) + Overage[w]
  <2>1. Overage[w] = Top(0, Protected * MostTokens - Need(w))
    BY DEF Overage
  <2> DEFINE p == Protected * MostTokens
  <2>2. p \in Nat /\ Need(w) \in Nat
    BY <1>2, <1>3
  <2> HIDE DEF p
  <2>3. Top(0, p - Need(w)) \in Nat /\ p <= Need(w) + Top(0, p - Need(w))
    BY <2>2 DEF Top
  <2> QED BY <2>1, <2>3 DEF p
<1>5. ASSUME NEW w \in Workers, NEW tokens \in 0..MostTokens
      PROVE  /\ Protected * tokens \in Nat /\ LivePrice * tokens \in Nat
             /\ LivePrice * tokens <= Protected * tokens
             /\ Protected * tokens <= Need(w) + Overage[w]
  <2>1. tokens \in Nat /\ tokens <= MostTokens
    BY <1>3
  <2>2. /\ Protected * tokens \in Nat /\ LivePrice * tokens \in Nat
        /\ Protected * tokens <= Protected * MostTokens
    BY <1>1, <1>3, <2>1, Products
  <2>3. LivePrice * tokens <= Protected * tokens
    BY <1>1, <2>1, Products
  <2>4. Protected * MostTokens <= Need(w) + Overage[w] /\ Need(w) \in Nat /\ Overage[w] \in Nat
    BY <1>2, <1>4
  <2>5. \A a, b, c \in Nat : a <= b /\ b <= c => a <= c
    OBVIOUS
  <2> QED BY <1>3, <2>2, <2>3, <2>4, <2>5
<1> QED BY <1>1, <1>2, <1>4, <1>5

(* The sums are of natural numbers. *)
LEMMA SumsAreOf ==
  ASSUME SpendTypeOK
  PROVE  /\ Reserved \in [1..MaxReservations -> Int] /\ SumTo(Reserved, MaxReservations) \in Nat
         /\ OverageBehind \in [1..NumWorkers -> Int]
         /\ SumTo(OverageBehind, NumWorkers) \in Nat
         /\ SumTo(OverageBehind, NumWorkers) <= SumTo(Overage, NumWorkers)
<1>1. MaxReservations \in Nat /\ NumWorkers \in Nat
  BY SpendAssumption
<1>2. Reserved \in [1..MaxReservations -> Nat]
  BY DEF Reserved, SpendTypeOK
<1>3. OverageBehind \in [1..NumWorkers -> Nat] /\ Overage \in [1..NumWorkers -> Nat]
  <2>1. \A w \in Workers : Overage[w] \in Nat
    BY Amounts
  <2>2. Overage = [w \in Workers |-> Top(0, Protected * MostTokens - Need(w))]
    BY DEF Overage
  <2>3. Overage \in [Workers -> Nat]
    BY <2>1, <2>2
  <2> QED BY <2>1, <2>3 DEF OverageBehind, Workers
<1>4. \A n \in 1..NumWorkers : OverageBehind[n] <= Overage[n]
  BY <1>3 DEF OverageBehind, Workers
<1>5. /\ Reserved \in [1..MaxReservations -> Int] /\ OverageBehind \in [1..NumWorkers -> Int]
      /\ Overage \in [1..NumWorkers -> Int]
  BY <1>2, <1>3
<1>6. SumTo(Reserved, MaxReservations) \in Nat /\ SumTo(OverageBehind, NumWorkers) \in Nat
  BY <1>1, <1>2, <1>3, SumIsNat
<1>7. SumTo(OverageBehind, NumWorkers) <= SumTo(Overage, NumWorkers)
  BY <1>1, <1>4, <1>5, SumsInOrder
<1> QED BY <1>5, <1>6, <1>7

(* Nothing was reserved. *)
LEMMA SpendInitially == SpendInit => SpendInv
<1> SUFFICES ASSUME SpendInit PROVE SpendInv
  OBVIOUS
<1>0. MaxReservations \in Nat /\ Retries \in Nat \ {0} /\ Cap \in Nat
  BY SpendAssumption
<1>1. DOMAIN open = {} /\ \A w \in Workers : worker[w] = Idle /\ worker[w].id = 0
  BY DEF SpendInit, Idle
<1>2. SpendTypeOK
  BY <1>0, <1>1 DEF SpendInit, SpendTypeOK, Idle
<1>3. EachItsOwn
  <2>1. IsFiniteSet({})
    BY FS_EmptySet
  <2> QED BY <1>1, <2>1 DEF EachItsOwn
<1>4. BooksBalance
  <2>1. Cardinality({}) = 0
    BY FS_EmptySet
  <2>2. SumTo(Reserved, MaxReservations) = 0
    <3>1. Reserved \in [1..MaxReservations -> Int] /\ \A n \in 1..MaxReservations : Reserved[n] = 0
      BY <1>1 DEF Reserved
    <3> QED BY <1>0, <3>1, SumOfZeros
  <2>3. settled = 0 /\ issued = 0 /\ held = 0
    BY DEF SpendInit
  <2>4. {worker[w].id : w \in Workers} \ {0} = DOMAIN open
    BY <1>1
  <2> QED BY <1>1, <2>1, <2>2, <2>3, <2>4 DEF BooksBalance
<1>5. OverrunIsBehind /\ ChargedCoversBilled
  <2>1. SumTo(OverageBehind, NumWorkers) \in Nat
    BY <1>2, SumsAreOf
  <2> QED BY <1>0, <2>1 DEF SpendInit, OverrunIsBehind, ChargedCoversBilled
<1> QED BY <1>2, <1>3, <1>4, <1>5 DEF SpendInv

(* A reservation is settled: its thread holds it no more, the books balance,
   and what was held and spent grew by no more than the thread's overage. *)
LEMMA Settled ==
  ASSUME SpendInv, NEW w \in Workers, worker[w].id # 0, NEW charge \in Nat, NEW next,
         Close(worker[w].id, charge), charge <= open[worker[w].id] + Overage[w],
         worker' = [worker EXCEPT ![w] = next], next \in [attempt : 0..Retries, id : {0}],
         billed' \in Nat, unseen' \in Nat, billed' <= spent' + unseen'
  PROVE  SpendInv'
<1> DEFINE i == worker[w].id
<1>0. /\ MaxReservations \in Nat /\ NumWorkers \in Nat /\ Cap \in Nat /\ Retries \in Nat
      /\ worker \in [Workers -> [attempt : 0..Retries, id : 0..MaxReservations]]
      /\ issued \in 0..MaxReservations /\ DOMAIN open \subseteq 1..issued
      /\ \A j \in DOMAIN open : open[j] \in Nat
      /\ spent \in Nat /\ settled \in Nat /\ held \in Nat
  BY SpendAssumption DEF SpendInv, SpendTypeOK
<1>1. i \in DOMAIN open /\ i \in 1..MaxReservations
  BY <1>0 DEF Close
<1>2. /\ DOMAIN open' = DOMAIN open \ {i} /\ \A j \in DOMAIN open' : open'[j] = open[j]
      /\ held' = held - open[i] /\ spent' = spent + charge /\ settled' = settled + 1
      /\ issued' = issued
  BY DEF Close
<1>3. /\ \A v \in Workers \ {w} : worker'[v] = worker[v]
      /\ worker'[w].id = 0 /\ worker'[w] \in [attempt : 0..Retries, id : 0..MaxReservations]
  BY <1>0
<1>4. SpendTypeOK'
  <2>1. worker' \in [Workers -> [attempt : 0..Retries, id : 0..MaxReservations]]
    BY <1>0, <1>3
  <2>2. SumTo(Reserved, MaxReservations) = held
    BY DEF SpendInv, BooksBalance
  <2>3. open[i] <= held
    <3> DEFINE alone == [n \in 1..MaxReservations |-> 0]
               rest == [n \in 1..MaxReservations |-> IF n = i THEN 0 ELSE Reserved[n]]
    <3>1. Reserved \in [1..MaxReservations -> Nat]
      BY <1>0 DEF Reserved
    <3>2. rest \in [1..MaxReservations -> Nat] /\ rest \in [1..MaxReservations -> Int]
      BY <3>1
    <3>3. Reserved \in [1..MaxReservations -> Int] /\ Reserved[i] = open[i] /\ rest[i] = 0
          /\ \A n \in 1..MaxReservations : n # i => Reserved[n] = rest[n]
      BY <1>1, <3>1 DEF Reserved
    <3> HIDE DEF rest
    <3>4. SumTo(Reserved, MaxReservations)
            = SumTo(rest, MaxReservations) + Reserved[i] - rest[i]
      BY <1>0, <1>1, <3>2, <3>3, SumOfOneChange
    <3>5. SumTo(rest, MaxReservations) \in Nat
      BY <1>0, <3>2, SumIsNat
    <3> QED BY <1>0, <1>1, <2>2, <3>3, <3>4, <3>5
  <2>4. held' \in Nat /\ spent' \in Nat /\ settled' \in Nat
    BY <1>0, <1>1, <1>2, <2>3
  <2> QED BY <1>0, <1>2, <2>1, <2>4 DEF SpendTypeOK
<1>5. EachItsOwn'
  <2>1. IsFiniteSet(DOMAIN open')
    BY <1>2, FS_RemoveElement DEF SpendInv, EachItsOwn
  <2>2. \A v \in Workers : worker'[v].id # 0 => v # w /\ worker'[v] = worker[v] /\ worker[v].id # i
    BY <1>3 DEF SpendInv, EachItsOwn
  <2>3. \A v \in Workers : worker'[v].id # 0 => worker'[v].id \in DOMAIN open'
    BY <1>2, <2>2 DEF SpendInv, EachItsOwn
  <2>4. ASSUME NEW j \in DOMAIN open' PROVE \E v \in Workers : worker'[v].id = j /\ j # 0
    <3>1. PICK v \in Workers : worker[v].id = j /\ j # 0
      BY <1>2 DEF SpendInv, EachItsOwn
    <3>2. v # w
      BY <1>2, <3>1
    <3> QED BY <1>3, <3>1, <3>2
  <2>5. {worker'[v].id : v \in Workers} \ {0} = DOMAIN open'
    <3>1. {worker'[v].id : v \in Workers} \ {0} \subseteq DOMAIN open'
      BY <2>3
    <3>2. DOMAIN open' \subseteq {worker'[v].id : v \in Workers} \ {0}
      BY <2>4
    <3> QED BY <3>1, <3>2
  <2>6. ASSUME NEW v \in Workers, worker'[v].id # 0
        PROVE  /\ open'[worker'[v].id] = Need(v)
               /\ \A u \in Workers : worker'[u].id = worker'[v].id => u = v
    <3>1. worker'[v] = worker[v] /\ worker'[v].id \in DOMAIN open'
      BY <2>2, <2>3, <2>6
    <3>2. open'[worker'[v].id] = Need(v)
      BY <1>2, <2>6, <3>1 DEF SpendInv, EachItsOwn
    <3>3. ASSUME NEW u \in Workers, worker'[u].id = worker'[v].id PROVE u = v
      <4>1. worker'[u] = worker[u]
        BY <2>2, <2>6, <3>3
      <4> QED BY <2>6, <3>1, <3>3, <4>1 DEF SpendInv, EachItsOwn
    <3> QED BY <3>2, <3>3
  <2> QED BY <2>1, <2>5, <2>6 DEF EachItsOwn, Need
<1>6. BooksBalance'
  <2>1. settled' + Cardinality(DOMAIN open') = issued'
    <3>1. Cardinality(DOMAIN open') = Cardinality(DOMAIN open) - 1
      BY <1>1, <1>2, FS_RemoveElement DEF SpendInv, EachItsOwn
    <3>2. Cardinality(DOMAIN open) \in Nat
      BY FS_CardinalityType DEF SpendInv, EachItsOwn
    <3> QED BY <1>0, <1>2, <3>1, <3>2 DEF SpendInv, BooksBalance
  <2>2. held' = SumTo(Reserved', MaxReservations)
    <3>1. Reserved \in [1..MaxReservations -> Int] /\ Reserved' \in [1..MaxReservations -> Int]
      BY <1>4, SumsAreOf DEF SpendInv, Reserved, SpendTypeOK
    <3>2. /\ \A n \in 1..MaxReservations : n # i => Reserved'[n] = Reserved[n]
          /\ Reserved'[i] = 0 /\ Reserved[i] = open[i]
      BY <1>1, <1>2 DEF Reserved
    <3>3. SumTo(Reserved', MaxReservations)
            = SumTo(Reserved, MaxReservations) + Reserved'[i] - Reserved[i]
      BY <1>0, <1>1, <3>1, <3>2, SumOfOneChange
    <3>4. SumTo(Reserved, MaxReservations) = held
      BY DEF SpendInv, BooksBalance
    <3> QED BY <1>0, <1>1, <1>2, <3>2, <3>3, <3>4
  <2>3. {worker'[v].id : v \in Workers} \ {0} = DOMAIN open'
    BY <1>5 DEF EachItsOwn
  <2> QED BY <2>1, <2>2, <2>3 DEF BooksBalance
<1>7. OverrunIsBehind'
  <2>1. /\ OverageBehind \in [1..NumWorkers -> Int] /\ OverageBehind' \in [1..NumWorkers -> Int]
        /\ SumTo(OverageBehind, NumWorkers) \in Nat
    <3>1. SpendTypeOK
      BY DEF SpendInv
    <3>2. \A v \in Workers : Overage'[v] = Overage[v] /\ Overage[v] \in Nat
      BY Amounts DEF Overage, Need
    <3> QED BY <3>1, <3>2, SumsAreOf DEF OverageBehind, Workers
  <2>2. /\ \A n \in 1..NumWorkers : n # w => OverageBehind'[n] = OverageBehind[n]
        /\ OverageBehind'[w] = Overage[w] /\ OverageBehind[w] = 0 /\ w \in 1..NumWorkers
    BY <1>3 DEF OverageBehind, Overage, Need, Workers
  <2>3. SumTo(OverageBehind', NumWorkers)
          = SumTo(OverageBehind, NumWorkers) + OverageBehind'[w] - OverageBehind[w]
    BY <1>0, <2>1, <2>2, SumOfOneChange
  <2>4. Overage[w] \in Nat /\ open[i] \in Nat
    BY <1>0, <1>1, Amounts
  <2>5. spent + held <= Cap + SumTo(OverageBehind, NumWorkers)
    BY DEF SpendInv, OverrunIsBehind
  <2>6. SumTo(OverageBehind', NumWorkers) = SumTo(OverageBehind, NumWorkers) + Overage[w]
    BY <2>1, <2>2, <2>3, <2>4
  <2>a. spent' + held' <= spent + held + Overage[w]
    <3> DEFINE o == open[i]
               v == Overage[w]
    <3>1. o \in Nat /\ v \in Nat /\ charge <= o + v /\ spent' = spent + charge /\ held' = held - o
      BY <1>2, <2>4
    <3> HIDE DEF o, v
    <3>2. spent' + held' <= spent + held + v
      BY <1>0, <3>1
    <3> QED BY <3>2 DEF v
  <2>7. spent' + held' <= Cap + SumTo(OverageBehind', NumWorkers)
    <3> DEFINE a == SumTo(OverageBehind, NumWorkers)
               b == SumTo(OverageBehind', NumWorkers)
               v == Overage[w]
    <3>1. /\ a \in Nat /\ v \in Nat /\ b = a + v /\ spent + held <= Cap + a
          /\ spent' + held' <= spent + held + v /\ spent' \in Nat /\ held' \in Nat
      BY <1>4, <2>1, <2>4, <2>5, <2>6, <2>a DEF SpendTypeOK
    <3> HIDE DEF a, b, v
    <3>2. spent' + held' <= Cap + (a + v)
      BY <1>0, <3>1, Within
    <3> QED BY <3>1, <3>2 DEF b
  <2> QED BY <2>7 DEF OverrunIsBehind
<1> QED BY <1>4, <1>5, <1>6, <1>7 DEF SpendInv, ChargedCoversBilled

(* An attempt begins with a reservation that fits, so nothing is overrun. *)
LEMMA ReserveKeeps ==
  ASSUME SpendInv, NEW w \in Workers, Reserve(w)
  PROVE  SpendInv'
<1>0. /\ MaxReservations \in Nat /\ NumWorkers \in Nat /\ Cap \in Nat
      /\ worker \in [Workers -> [attempt : 0..Retries, id : 0..MaxReservations]]
      /\ issued \in 0..MaxReservations /\ DOMAIN open \subseteq 1..issued
      /\ \A j \in DOMAIN open : open[j] \in Nat
      /\ spent \in Nat /\ settled \in Nat /\ held \in Nat /\ Need(w) \in Nat
  BY SpendAssumption, Amounts DEF SpendInv, SpendTypeOK
<1>b. MaxReservations \in Nat /\ Cap \in Nat
  BY <1>0
<1> DEFINE i == issued + 1
<1>1. /\ issued' = i /\ i \in 1..MaxReservations /\ i \notin DOMAIN open
      /\ worker[w].id = 0 /\ worker[w].attempt \in 0..Retries /\ i = issued + 1
  BY <1>0 DEF Reserve
<1> HIDE DEF i
<1>2. /\ DOMAIN open' = DOMAIN open \cup {i} /\ open'[i] = Need(w)
      /\ \A j \in DOMAIN open : open'[j] = open[j]
      /\ held' = held + Need(w) /\ UNCHANGED <<spent, settled, billed, unseen>>
  BY <1>1 DEF Reserve
<1>3. /\ \A v \in Workers \ {w} : worker'[v] = worker[v]
      /\ worker'[w].id = i
      /\ worker' \in [Workers -> [attempt : 0..Retries, id : 0..MaxReservations]]
  <2>1. worker' = [worker EXCEPT ![w] = [attempt |-> worker[w].attempt, id |-> i]]
    BY <1>1 DEF Reserve
  <2> QED BY <1>0, <1>1, <2>1
<1>4. SpendTypeOK'
  <2>1. DOMAIN open' \subseteq 1..issued' /\ \A j \in DOMAIN open' : open'[j] \in Nat
    BY <1>0, <1>1, <1>2
  <2>2. held' \in Nat /\ issued' \in 0..MaxReservations
    BY <1>0, <1>1, <1>2
  <2> QED BY <1>2, <1>3, <2>1, <2>2 DEF SpendInv, SpendTypeOK
<1>5. EachItsOwn'
  <2>1. IsFiniteSet(DOMAIN open')
    BY <1>2, FS_AddElement DEF SpendInv, EachItsOwn
  <2>2. \A v \in Workers : worker'[v].id # 0 => worker'[v].id \in DOMAIN open'
    <3> SUFFICES ASSUME NEW v \in Workers, worker'[v].id # 0 PROVE worker'[v].id \in DOMAIN open'
      OBVIOUS
    <3>1. CASE v = w
      BY <1>2, <1>3, <3>1
    <3>2. CASE v # w
      BY <1>2, <1>3, <3>2 DEF SpendInv, EachItsOwn
    <3> QED BY <3>1, <3>2
  <2>3. ASSUME NEW j \in DOMAIN open' PROVE \E v \in Workers : worker'[v].id = j /\ j # 0
    <3>1. CASE j = i
      BY <1>1, <1>3, <3>1
    <3>2. CASE j # i
      <4>1. PICK v \in Workers : worker[v].id = j /\ j # 0
        BY <1>2, <3>2 DEF SpendInv, EachItsOwn
      <4>2. v # w
        BY <1>1, <4>1
      <4> QED BY <1>3, <4>1, <4>2
    <3> QED BY <3>1, <3>2
  <2>4. {worker'[v].id : v \in Workers} \ {0} = DOMAIN open'
    <3>1. {worker'[v].id : v \in Workers} \ {0} \subseteq DOMAIN open'
      BY <2>2
    <3>2. DOMAIN open' \subseteq {worker'[v].id : v \in Workers} \ {0}
      BY <2>3
    <3> QED BY <3>1, <3>2
  <2>5. \A v \in Workers \ {w} : worker[v].id # i
    BY <1>1 DEF SpendInv, EachItsOwn
  <2>6. ASSUME NEW v \in Workers, worker'[v].id # 0
        PROVE  /\ open'[worker'[v].id] = Need(v)
               /\ \A u \in Workers : worker'[u].id = worker'[v].id => u = v
    <3>1. CASE v = w
      BY <1>2, <1>3, <2>5, <3>1
    <3>2. CASE v # w
      <4>1. worker'[v] = worker[v] /\ worker[v].id # i /\ worker[v].id # 0
        BY <1>3, <2>5, <2>6, <3>2
      <4>2. worker[v].id \in DOMAIN open /\ open[worker[v].id] = Need(v)
            /\ \A u \in Workers : worker[u].id = worker[v].id => u = v
        BY <4>1 DEF SpendInv, EachItsOwn
      <4> QED BY <1>2, <1>3, <4>1, <4>2
    <3> QED BY <3>1, <3>2
  <2> QED BY <2>1, <2>4, <2>6 DEF EachItsOwn, Need
<1>6. BooksBalance'
  <2>1. settled' + Cardinality(DOMAIN open') = issued'
    <3>1. Cardinality(DOMAIN open') = Cardinality(DOMAIN open) + 1
      BY <1>1, <1>2, FS_AddElement DEF SpendInv, EachItsOwn
    <3>2. Cardinality(DOMAIN open) \in Nat
      BY FS_CardinalityType DEF SpendInv, EachItsOwn
    <3> QED BY <1>0, <1>1, <1>2, <3>1, <3>2 DEF SpendInv, BooksBalance
  <2>2. held' = SumTo(Reserved', MaxReservations)
    <3>1. Reserved \in [1..MaxReservations -> Int] /\ Reserved' \in [1..MaxReservations -> Int]
      BY <1>4, SumsAreOf DEF SpendInv, Reserved, SpendTypeOK
    <3>2. /\ \A n \in 1..MaxReservations : n # i => Reserved'[n] = Reserved[n]
          /\ Reserved'[i] = Need(w) /\ Reserved[i] = 0
      BY <1>1, <1>2 DEF Reserved
    <3>3. SumTo(Reserved', MaxReservations)
            = SumTo(Reserved, MaxReservations) + Reserved'[i] - Reserved[i]
      <4>1. i \in 1..MaxReservations
        BY <1>1
      <4> QED BY <1>b, <4>1, <3>1, <3>2, SumOfOneChange
    <3>4. SumTo(Reserved, MaxReservations) = held
      BY DEF SpendInv, BooksBalance
    <3> QED BY <1>0, <1>1, <1>2, <3>2, <3>3, <3>4
  <2>3. {worker'[v].id : v \in Workers} \ {0} = DOMAIN open'
    BY <1>5 DEF EachItsOwn
  <2> QED BY <2>1, <2>2, <2>3 DEF BooksBalance
<1>7. OverrunIsBehind'
  <2>1. SumTo(OverageBehind', NumWorkers) \in Nat
    <3>1. \A v \in Workers : Overage'[v] = Overage[v] /\ Overage[v] \in Nat
      BY Amounts DEF Overage, Need
    <3>2. OverageBehind' \in [1..NumWorkers -> Nat]
      BY <3>1 DEF OverageBehind, Workers
    <3> QED BY <1>0, <3>2, SumIsNat
  <2>2. spent + held + Need(w) <= Cap
    BY DEF Reserve, Fits
  <2>3. spent' + held' <= Cap
    BY <1>0, <1>2, <2>2
  <2>4. spent' \in Nat /\ held' \in Nat
    BY <1>4 DEF SpendTypeOK
  <2>5. spent' + held' <= Cap + SumTo(OverageBehind', NumWorkers)
    <3> DEFINE b == SumTo(OverageBehind', NumWorkers)
    <3>1. b \in Nat
      BY <2>1
    <3> HIDE DEF b
    <3>0. Cap \in Nat
      BY <1>b
    <3>2. spent' + held' <= Cap + b
      BY <2>3, <2>4, <3>0, <3>1, Raised
    <3> QED BY <3>2 DEF b
  <2> QED BY <2>5 DEF OverrunIsBehind
<1> QED BY <1>2, <1>4, <1>5, <1>6, <1>7 DEF SpendInv, ChargedCoversBilled

(* A thread without a reservation begins a call or ends one. *)
LEMMA CallKeeps ==
  ASSUME SpendInv, NEW w \in Workers, worker[w].id = 0, NEW next,
         next \in [attempt : 0..Retries, id : {0}], worker' = [worker EXCEPT ![w] = next],
         UNCHANGED <<spent, held, open, issued, settled, billed, unseen>>
  PROVE  SpendInv'
<1>1. worker \in [Workers -> [attempt : 0..Retries, id : 0..MaxReservations]]
      /\ MaxReservations \in Nat
  BY SpendAssumption DEF SpendInv, SpendTypeOK
<1>2. /\ worker' \in [Workers -> [attempt : 0..Retries, id : 0..MaxReservations]]
      /\ \A v \in Workers : worker'[v].id = worker[v].id
  BY <1>1
<1>3. SpendTypeOK'
  BY <1>2 DEF SpendInv, SpendTypeOK
<1>4. {worker'[v].id : v \in Workers} = {worker[v].id : v \in Workers}
  BY <1>2
<1>5. EachItsOwn' /\ BooksBalance'
  BY <1>2, <1>4 DEF SpendInv, EachItsOwn, BooksBalance, Reserved, Need
<1>6. OverageBehind' = OverageBehind
  BY <1>2 DEF OverageBehind, Overage, Need
<1> QED BY <1>3, <1>5, <1>6 DEF SpendInv, OverrunIsBehind, ChargedCoversBilled

(* The usage is charged, at no less than the provider bills it for. *)
LEMMA AnsweredKeeps ==
  ASSUME SpendInv, NEW w \in Workers, Answered(w) \/ AnsweredWithoutUsage(w)
  PROVE  SpendInv'
<1>0. /\ spent \in Nat /\ billed \in Nat /\ unseen \in Nat /\ billed <= spent + unseen
      /\ DOMAIN open \subseteq 1..issued /\ \A j \in DOMAIN open : open[j] \in Nat
      /\ Retries \in Nat
  BY SpendAssumption DEF SpendInv, SpendTypeOK, ChargedCoversBilled
<1>1. worker[w].id # 0 /\ worker' = [worker EXCEPT ![w] = Idle] /\ Idle \in [attempt : 0..Retries, id : {0}]
  BY <1>0 DEF Answered, AnsweredWithoutUsage, Ends, Idle
<1>2. open[worker[w].id] = Need(w) /\ worker[w].id \in DOMAIN open
  BY <1>1 DEF SpendInv, EachItsOwn
<1>3. CASE Answered(w)
  <2>1. PICK tokens \in 0..MostTokens : Bill(tokens) /\ Close(worker[w].id, Protected * tokens)
    BY <1>3 DEF Answered
  <2>2. /\ Protected * tokens \in Nat /\ LivePrice * tokens \in Nat
        /\ LivePrice * tokens <= Protected * tokens
        /\ Protected * tokens <= open[worker[w].id] + Overage[w]
    BY <1>2, Amounts
  <2>3. unseen' = unseen /\ billed' = billed + LivePrice * tokens /\ spent' = spent + Protected * tokens
    BY <1>3, <2>1 DEF Answered, Bill, Close
  <2> DEFINE p == Protected * tokens
             l == LivePrice * tokens
  <2>4. p \in Nat /\ l \in Nat /\ l <= p /\ p <= open[worker[w].id] + Overage[w]
        /\ unseen' = unseen /\ billed' = billed + l /\ spent' = spent + p
        /\ Close(worker[w].id, p)
    BY <2>1, <2>2, <2>3
  <2> HIDE DEF p, l
  <2>5. billed' \in Nat /\ unseen' \in Nat /\ billed' <= spent' + unseen'
    BY <1>0, <2>4
  <2> QED BY <1>1, <2>4, <2>5, Settled
<1>4. CASE AnsweredWithoutUsage(w)
  <2>1. PICK tokens \in 0..MostTokens :
          Bill(tokens) /\ Close(worker[w].id, 0) /\ unseen' = unseen + LivePrice * tokens
    BY <1>4 DEF AnsweredWithoutUsage
  <2> DEFINE l == LivePrice * tokens
  <2>2. l \in Nat /\ unseen' = unseen + l /\ billed' = billed + l /\ spent' = spent + 0
        /\ Close(worker[w].id, 0)
    BY <2>1, Amounts DEF Bill, Close
  <2> HIDE DEF l
  <2>3. billed' \in Nat /\ unseen' \in Nat /\ billed' <= spent' + unseen'
    BY <1>0, <2>2
  <2>4. 0 \in Nat /\ 0 <= open[worker[w].id] + Overage[w]
    <3>1. open[worker[w].id] \in Nat /\ Overage[w] \in Nat
      BY <1>2, Amounts
    <3> QED BY <3>1
  <2> QED BY <1>1, <2>2, <2>3, <2>4, Settled
<1> QED BY <1>3, <1>4

(* What went unanswered is charged as reserved. *)
LEMMA ForfeitKeeps ==
  ASSUME SpendInv, NEW w \in Workers, AttemptFails(w) \/ CallFails(w)
  PROVE  SpendInv'
<1>0. /\ spent \in Nat /\ billed \in Nat /\ unseen \in Nat /\ billed <= spent + unseen
      /\ DOMAIN open \subseteq 1..issued /\ (\A j \in DOMAIN open : open[j] \in Nat)
      /\ Retries \in Nat \ {0}
      /\ worker \in [Workers -> [attempt : 0..Retries, id : 0..MaxReservations]]
  BY SpendAssumption DEF SpendInv, SpendTypeOK, ChargedCoversBilled
<1>1. Forfeit(w) /\ worker[w].id # 0
  BY DEF AttemptFails, CallFails, Forfeit
<1>2. PICK next \in [attempt : 0..Retries, id : {0}] : worker' = [worker EXCEPT ![w] = next]
  <2>1. Idle \in [attempt : 0..Retries, id : {0}]
    BY <1>0 DEF Idle
  <2>2. CASE CallFails(w)
    BY <2>1, <2>2 DEF CallFails, Ends
  <2>3. CASE AttemptFails(w)
    <3> DEFINE next == IF worker[w].attempt < Retries
                       THEN [attempt |-> worker[w].attempt + 1, id |-> 0] ELSE Idle
    <3>1. worker' = [worker EXCEPT ![w] = next]
      BY <2>3 DEF AttemptFails
    <3>2. worker[w].attempt \in 0..Retries
      BY <1>0
    <3>3. next \in [attempt : 0..Retries, id : {0}]
      BY <1>0, <2>1, <3>2
    <3> QED BY <3>1, <3>3
  <2> QED BY <2>2, <2>3
<1>3. PICK tokens \in 0..MostTokens :
        /\ Bill(tokens) /\ Close(worker[w].id, open[worker[w].id])
        /\ unseen' = unseen + Top(0, LivePrice * tokens - open[worker[w].id])
  BY <1>1 DEF Forfeit
<1> DEFINE l == LivePrice * tokens
           o == open[worker[w].id]
<1>4. l \in Nat /\ o \in Nat /\ Overage[w] \in Nat
  BY <1>0, <1>1, Amounts DEF SpendInv, EachItsOwn
<1>5. unseen' = unseen + Top(0, l - o) /\ billed' = billed + l /\ spent' = spent + o
      /\ Close(worker[w].id, o)
  BY <1>3 DEF Bill, Close
<1>6. o <= open[worker[w].id] + Overage[w]
  BY <1>4
<1> HIDE DEF l, o
<1>7. billed' \in Nat /\ unseen' \in Nat /\ billed' <= spent' + unseen'
  BY <1>0, <1>4, <1>5 DEF Top
<1> QED BY <1>1, <1>2, <1>4, <1>5, <1>6, <1>7, Settled

(* Spending without a reservation is within the budget when it is recorded. *)
LEMMA RecordKeeps == SpendInv /\ RecordSpend => SpendInv'
<1> SUFFICES ASSUME SpendInv, RecordSpend PROVE SpendInv'
  OBVIOUS
<1>1. PICK cost \in 1..MostTokens : Fits(cost) /\ spent' = spent + cost
  BY DEF RecordSpend
<1>2. UNCHANGED <<held, open, issued, settled, worker, billed, unseen>>
  BY DEF RecordSpend
<1>3. /\ cost \in Nat /\ Cap \in Nat /\ spent \in Nat /\ held \in Nat /\ billed \in Nat
      /\ unseen \in Nat
  BY SpendAssumption DEF SpendInv, SpendTypeOK
<1>4. SpendTypeOK' /\ EachItsOwn' /\ BooksBalance'
  BY <1>1, <1>2, <1>3 DEF SpendInv, SpendTypeOK, EachItsOwn, BooksBalance, Reserved, Need
<1>5. SumTo(OverageBehind', NumWorkers) \in Nat /\ OverageBehind' = OverageBehind
  BY <1>2, SumsAreOf DEF SpendInv, OverageBehind, Overage, Need
<1>6. OverrunIsBehind'
  BY <1>1, <1>2, <1>3, <1>5 DEF Fits, OverrunIsBehind
<1>7. ChargedCoversBilled'
  BY <1>1, <1>2, <1>3 DEF SpendInv, ChargedCoversBilled
<1> QED BY <1>4, <1>6, <1>7 DEF SpendInv

(* Every step keeps the books. *)
LEMMA SpendStep == SpendInv /\ [SpendNext]_spendVars => SpendInv'
<1> SUFFICES ASSUME SpendInv, [SpendNext]_spendVars PROVE SpendInv'
  OBVIOUS
<1>0. Idle \in [attempt : 0..Retries, id : {0}]
      /\ [attempt |-> 1, id |-> 0] \in [attempt : 0..Retries, id : {0}]
  BY SpendAssumption DEF Idle
<1>1. ASSUME NEW w \in Workers, Call(w) PROVE SpendInv'
  <2>1. worker[w].id = 0 /\ worker' = [worker EXCEPT ![w] = [attempt |-> 1, id |-> 0]]
        /\ UNCHANGED <<spent, held, open, issued, settled, billed, unseen>>
    BY <1>1 DEF Call, Idle
  <2> QED BY <1>0, <2>1, CallKeeps
<1>2. ASSUME NEW w \in Workers, ReserveFails(w) PROVE SpendInv'
  <2>1. worker[w].id = 0 /\ worker' = [worker EXCEPT ![w] = Idle]
        /\ UNCHANGED <<spent, held, open, issued, settled, billed, unseen>>
    BY <1>2 DEF ReserveFails, Ends
  <2> QED BY <1>0, <2>1, CallKeeps
<1>3. CASE UNCHANGED spendVars
  BY <1>3 DEF SpendInv, spendVars, SpendTypeOK, EachItsOwn, BooksBalance, Reserved, OverrunIsBehind,
     OverageBehind, Overage, Need, ChargedCoversBilled
<1> QED BY <1>1, <1>2, <1>3, ReserveKeeps, AnsweredKeeps, ForfeitKeeps, RecordKeeps DEF SpendNext

(* However many threads share the budget and whatever becomes of their calls:
   each attempt is settled once, what is held is what the open reservations
   need, the budget is overrun at most by an overage of each thread, and what
   was charged covers what was billed. *)
THEOREM SpendAlwaysSafe == SpendSpec => []SpendSafety
<1>1. SpendInv => SpendSafety
  <2> SUFFICES ASSUME SpendInv PROVE OverrunIsInFlight
    BY DEF SpendInv, SpendSafety
  <2>1. /\ SumTo(OverageBehind, NumWorkers) \in Nat /\ SumTo(Overage, NumWorkers) \in Int
        /\ SumTo(OverageBehind, NumWorkers) <= SumTo(Overage, NumWorkers)
    <3>1. NumWorkers \in Nat /\ Overage \in [1..NumWorkers -> Int]
      <4>1. \A w \in Workers : Overage[w] \in Nat
        BY Amounts
      <4>2. Overage = [w \in Workers |-> Top(0, Protected * MostTokens - Need(w))]
        BY DEF Overage
      <4> QED BY <4>1, <4>2, SpendAssumption DEF Workers
    <3> QED BY <3>1, SumsAreOf, SumIsInt DEF SpendInv
  <2>2. spent \in Nat /\ held \in Nat /\ Cap \in Nat
    BY SpendAssumption DEF SpendInv, SpendTypeOK
  <2> QED BY <2>1, <2>2 DEF SpendInv, OverrunIsBehind, OverrunIsInFlight
<1> QED BY <1>1, SpendInitially, SpendStep, PTL DEF SpendSpec

(***************************************************************************)
(* SubnetWatch                                                             *)
(***************************************************************************)

-----------------------------------------------------------------------------
(* A block and its epoch: the epochs begun are those up to its own. *)
LEMMA EpochOf ==
  ASSUME NEW n \in Nat
  PROVE  /\ EpochAt(n) \in Nat
         /\ BoundaryOf(EpochAt(n)) <= n
         /\ n % EpochLength \in Nat
         /\ n = BoundaryOf(EpochAt(n)) + (n % EpochLength)
         /\ \A e \in Int : e <= EpochAt(n) <=> BoundaryOf(e) <= n
<1> DEFINE l == EpochLength
           q == n \div l
           r == n % l
<1>1. l \in Nat \ {0}
  BY WatchAssumption
<1> HIDE DEF l
<1>2. q \in Nat /\ r \in Nat /\ r < l /\ n = (l * q) + r
  BY <1>1
<1> HIDE DEF q, r
<1>3. q * l = l * q /\ q * l \in Nat
  BY <1>1, <1>2
<1>4. ASSUME NEW e \in Int PROVE e <= q <=> e * l <= n
  <2>1. CASE e <= q
    <3>1. e * l <= q * l
      BY <1>1, <1>2, <2>1
    <3>2. e * l \in Int
      BY <1>1
    <3> QED BY <3>1, <3>2, <2>1, <1>2, <1>3
  <2>2. CASE e >= q + 1
    <3>1. e * l >= (q + 1) * l
      BY <1>1, <1>2, <2>2
    <3>2. (q + 1) * l = (q * l) + l
      BY <1>1, <1>2
    <3>3. e * l \in Int
      BY <1>1
    <3> QED BY <3>1, <3>2, <3>3, <2>2, <1>1, <1>2, <1>3
  <2> QED BY <2>1, <2>2, <1>2
<1> QED BY <1>2, <1>3, <1>4 DEF EpochAt, BoundaryOf, q, r, l

(* Boundaries are blocks, one epoch after the other. *)
LEMMA Boundaries ==
  /\ \A e \in Int : BoundaryOf(e) \in Int
  /\ \A e \in Nat : BoundaryOf(e) \in Nat
  /\ \A d, e \in Int : d <= e => BoundaryOf(d) <= BoundaryOf(e)
  /\ \A e \in Int : BoundaryOf(e + 1) = BoundaryOf(e) + EpochLength
  /\ BoundaryOf(0) = 0
<1>1. EpochLength \in Nat \ {0}
  BY WatchAssumption
<1>2. \A d, e \in Int : d <= e => d * EpochLength <= e * EpochLength
  BY <1>1
<1>3. \A e \in Int : (e + 1) * EpochLength = (e * EpochLength) + EpochLength
  BY <1>1
<1> QED BY <1>1, <1>2, <1>3 DEF BoundaryOf

(* The epoch of the tip is one of the model's. *)
LEMMA TipInEpochs ==
  ASSUME NEW n \in 0..LastHead
  PROVE  EpochAt(n) \in WatchEpochs
<1>1. LastHead \in Nat
  BY WatchAssumption
<1>2. EpochAt(n) \in Nat /\ EpochAt(LastHead) \in Nat /\ BoundaryOf(EpochAt(n)) <= n
  BY <1>1, EpochOf
<1>3. BoundaryOf(EpochAt(n)) <= LastHead
  BY <1>1, <1>2, Boundaries
<1>4. EpochAt(n) <= EpochAt(LastHead)
  BY <1>1, <1>2, <1>3, EpochOf
<1>5. WatchEpochs = 0..EpochAt(LastHead)
  BY DEF WatchEpochs, EpochAt
<1> QED BY <1>2, <1>4, <1>5

(* Epochs are numbers. *)
LEMMA EpochsAreNumbers == \A e \in WatchEpochs : e \in Nat
<1>1. WatchEpochs = 0..EpochAt(LastHead)
  BY DEF WatchEpochs, EpochAt
<1> QED BY <1>1

-----------------------------------------------------------------------------
(* What the variables may be. *)
WatchStages == {"off", "settling", "looking", "commitments", "agreement", "crashed", "done"}
(* An epoch or none *)
Marked == WatchEpochs \cup {-1}
(* A weight update on the chain *)
Written == [block : -1..LastHead, epoch : Marked, slow : BOOLEAN]
(* An extrinsic that may still be included *)
Sent == [epoch : WatchEpochs, decided : 0..LastHead]
(* What a validator says of its weights *)
Claims == [epoch : Marked, of : Marked, unsure : BOOLEAN]
(* What a validator is at *)
Jobs == [epoch : Marked,
         at : {"waiting", "scoring", "scored", "submitting", "retrying", "confirming"},
         tries : 0..SubmitTries, decided : -1..LastHead, unsure : BOOLEAN]

(* The types of all of them. *)
WatchTypes ==
  /\ tip \in 0..LastHead /\ headAt \in 0..LastHead /\ headAt <= tip
  /\ pinned \in [WatchEpochs -> -1..LastHead]
  /\ update \in [Watched -> Written] /\ pool \in [Watched -> SUBSET Sent]
  /\ job \in [Watched -> Jobs]
  /\ claim \in [Watched -> Claims]
  /\ revealed \subseteq Watched \X WatchEpochs /\ late \subseteq Watched \X WatchEpochs
  /\ watch \in [at : WatchStages, hourly : BOOLEAN, reveals : BOOLEAN,
                seen : SUBSET WatchEpochs, settled : Marked]
  /\ saw \in [epoch : Marked, headAt : -1..LastHead, update : [Watched -> Written],
              failed : SUBSET {"commitment", "weights", "reveal"}]

(* What is on the chain for a validator was put there in its epoch, or it was
   late, or the chain was slow. *)
LandedInTime(v, u) ==
  /\ u.block = -1 => u.epoch = -1
  /\ u.block # -1 => /\ u.epoch # -1 /\ BoundaryOf(u.epoch) <= u.block
                     /\ u.block < BoundaryOf(u.epoch + 1) \/ <<v, u.epoch>> \in late \/ u.slow

(* What may still be included was decided on before its deadline, or was late. *)
SentInTime(v, x) ==
  /\ BoundaryOf(x.epoch) <= tip /\ x.decided <= tip
  /\ <<v, x.epoch>> \in late \/ x.decided < Deadline(x.epoch)

(* A validator that is sure of what it submitted has nothing else to come, and
   nothing else that is recent. *)
Sure(v) ==
  job[v].at \in {"submitting", "confirming"} /\ ~job[v].unsure =>
    /\ \A x \in pool[v] : x.epoch = job[v].epoch
    /\ update[v].epoch = job[v].epoch \/ LimitElapsed(v)

(* How far a validator is with its epoch. *)
OnTime(v) ==
  /\ update[v].block <= tip /\ LandedInTime(v, update[v])
  /\ \A x \in pool[v] : SentInTime(v, x)
  /\ job[v].at # "waiting" => job[v].epoch # -1 /\ BoundaryOf(job[v].epoch) <= tip
  /\ job[v].at \in {"scoring", "scored", "submitting", "retrying"} => job[v].tries < SubmitTries
  /\ job[v].at = "retrying" =>
       /\ job[v].decided # -1 /\ job[v].decided <= tip
       /\ job[v].decided < Deadline(job[v].epoch)
  /\ Sure(v)

(* The boundary of an epoch has the commitment validators pin. *)
PinnedThen == \A e \in WatchEpochs :
  BoundaryOf(e) <= tip /\ headAt <= BoundaryOf(e) => pinned[e] = headAt

(* What the watch saw, it saw after the boundary. *)
Looked ==
  /\ watch.at \in {"off", "settling"} => saw = Unseen
  /\ watch.at \in {"commitments", "agreement"} => saw.epoch # -1
  /\ saw.epoch # -1 => BoundaryOf(saw.epoch) < tip
  /\ saw.headAt # -1 => saw.epoch # -1
  /\ watch.settled # -1 => BoundaryOf(watch.settled) + Settle <= tip

(* Weights found missing once the epoch settled: somebody has none of that epoch,
   or had them late. *)
FoundMissing ==
  saw.epoch # -1 /\ saw.epoch = watch.settled /\ "weights" \in saw.failed =>
    \E v \in Watched :
      update[v].epoch # saw.epoch \/ update[v].block >= BoundaryOf(saw.epoch) + Settle

(* The invariant. *)
WatchInv ==
  /\ WatchTypes /\ (\A v \in Watched : OnTime(v)) /\ PinnedThen /\ Looked /\ FoundMissing
  /\ ConfirmedAreThisEpochs /\ PassedIsPinned /\ PassedWeightsAreThisEpochs

(* The constants' bounds, as the steps need them *)
LEMMA Windows ==
  /\ DeadlineMargin \in Nat /\ ConfirmSlack \in Nat /\ RateLimit \in Nat
  /\ SubmitTries \in Nat \ {0} /\ LastHead \in Nat /\ EpochLength \in Nat \ {0}
  /\ Grace \in Nat \ {0} /\ Settle \in Nat
  BY WatchAssumption

(* The invariant is stronger. *)
LEMMA WatchInvImplies == WatchInv => WatchSafety
<1> SUFFICES ASSUME WatchInv PROVE WatchSafety
  OBVIOUS
<1>1. WatchTypes /\ \A v \in Watched : OnTime(v)
  BY DEF WatchInv
<1>2. WatchTypeOK
  <2>1. \A v \in Watched : /\ update[v].block \in -1..tip /\ update[v].epoch \in Marked
                           /\ job[v] \in Jobs /\ claim[v] \in Claims
                           /\ \A x \in pool[v] : x.epoch \in WatchEpochs /\ x.decided \in 0..tip
    <3> TAKE v \in Watched
    <3>1. /\ update[v] \in Written /\ job[v] \in Jobs /\ claim[v] \in Claims
          /\ tip \in Nat /\ pool[v] \subseteq Sent
      BY <1>1 DEF WatchTypes
    <3>2. update[v].block <= tip /\ \A x \in pool[v] : x.decided <= tip
      BY <1>1 DEF OnTime, SentInTime
    <3>3. \A x \in pool[v] : x.epoch \in WatchEpochs /\ x.decided \in 0..tip
      BY <3>1, <3>2, Windows DEF Sent
    <3> QED BY <3>1, <3>2, <3>3, Windows DEF Written
  <2> QED BY <1>1, <2>1 DEF WatchTypeOK, WatchTypes, Jobs, Claims, Marked, WatchStages
<1>3. HourlyIsFair
  BY DEF WatchInv, FoundMissing, HourlyIsFair
<1> QED BY <1>2, <1>3 DEF WatchInv, WatchSafety

(* Nothing has begun. *)
LEMMA WatchInitially == WatchInit => WatchInv
<1> SUFFICES ASSUME WatchInit PROVE WatchInv
  OBVIOUS
<1>1. 0 \in WatchEpochs /\ 0 \in 0..LastHead /\ -1 \in -1..LastHead /\ 0 \in 0..SubmitTries /\ -1 \in Marked
  <2>1. 0 \in 0..LastHead /\ -1 \in -1..LastHead /\ 0 \in 0..SubmitTries
    BY Windows
  <2>2. EpochAt(0) = 0
    <3>1. EpochAt(0) \in Nat /\ BoundaryOf(EpochAt(0)) <= 0
      BY EpochOf
    <3>2. ~ (1 <= EpochAt(0))
      <4>1. BoundaryOf(1) = EpochLength
        BY Boundaries, Windows
      <4> QED BY <4>1, EpochOf, Windows
    <3> QED BY <3>1, <3>2
  <2> QED BY <2>1, <2>2, TipInEpochs DEF Marked
<1>2. /\ tip = 0 /\ headAt = 0 /\ pinned = [e \in WatchEpochs |-> IF e = 0 THEN 0 ELSE -1]
      /\ update = [v \in Watched |-> Unwritten] /\ pool = [v \in Watched |-> {}]
      /\ job = [v \in Watched |-> NoJob]
      /\ claim = [v \in Watched |-> [epoch |-> -1, of |-> -1, unsure |-> FALSE]]
      /\ revealed = {} /\ late = {}
      /\ watch = [at |-> "off", hourly |-> FALSE, reveals |-> FALSE, seen |-> {}, settled |-> -1]
      /\ saw = Unseen
  BY DEF WatchInit
<1>3. WatchTypes
  <2>1. pinned \in [WatchEpochs -> -1..LastHead]
    <3>1. 0 \in -1..LastHead
      BY Windows
    <3> QED BY <1>1, <1>2, <3>1
  <2>2. Unwritten \in Written
    BY <1>1 DEF Unwritten, Written
  <2>3. update \in [Watched -> Written] /\ Unseen.update \in [Watched -> Written]
    BY <1>2, <2>2 DEF Unseen
  <2>4. job \in [Watched -> Jobs] /\ pool \in [Watched -> SUBSET Sent]
    BY <1>1, <1>2 DEF Jobs, NoJob
  <2>5. saw \in [epoch : Marked, headAt : -1..LastHead, update : [Watched -> Written],
                 failed : SUBSET {"commitment", "weights", "reveal"}]
    BY <1>1, <1>2, <2>3 DEF Unseen
  <2>6. watch \in [at : WatchStages, hourly : BOOLEAN, reveals : BOOLEAN,
                   seen : SUBSET WatchEpochs, settled : Marked]
    BY <1>1, <1>2 DEF WatchStages
  <2>7. claim \in [Watched -> Claims]
    BY <1>1, <1>2 DEF Claims
  <2> QED BY <1>1, <1>2, <2>1, <2>3, <2>4, <2>5, <2>6, <2>7 DEF WatchTypes
<1>4. \A v \in Watched : OnTime(v)
  BY <1>2 DEF OnTime, LandedInTime, Sure, Unwritten, NoJob
<1>5. PinnedThen
  <2> SUFFICES ASSUME NEW e \in WatchEpochs, BoundaryOf(e) <= 0 PROVE pinned[e] = headAt
    BY <1>2 DEF PinnedThen
  <2>1. e = 0
    <3>1. e \in Nat
      BY EpochsAreNumbers
    <3>2. e >= 1 => BoundaryOf(1) <= BoundaryOf(e)
      BY <3>1, Boundaries
    <3>3. BoundaryOf(1) = EpochLength /\ BoundaryOf(e) \in Int
      BY <3>1, Boundaries, Windows
    <3> QED BY <3>1, <3>2, <3>3, Windows
  <2> QED BY <2>1, <1>2
<1>6. Looked /\ FoundMissing
  BY <1>2 DEF Looked, FoundMissing, Unseen
<1>7. ConfirmedAreThisEpochs /\ PassedIsPinned /\ PassedWeightsAreThisEpochs
  BY <1>2 DEF ConfirmedAreThisEpochs, PassedIsPinned, PassedWeightsAreThisEpochs, Unseen
<1> QED BY <1>3, <1>4, <1>5, <1>6, <1>7 DEF WatchInv

(* A validator that does nothing keeps its time, while none is found late. *)
LEMMA OnTimeKept ==
  ASSUME NEW v, OnTime(v), update'[v] = update[v], pool'[v] = pool[v], job'[v] = job[v],
         tip' = tip, late \subseteq late'
  PROVE  OnTime(v)'
<1>1. \A x \in pool'[v] : SentInTime(v, x)'
  BY DEF OnTime, SentInTime, Deadline, BoundaryOf
<1>2. LandedInTime(v, update[v])'
  BY DEF OnTime, LandedInTime, BoundaryOf
<1>3. Sure(v)'
  BY DEF OnTime, Sure, LimitElapsed
<1>4. BoundaryOf(job'[v].epoch) = BoundaryOf(job[v].epoch) /\ Deadline(job'[v].epoch) = Deadline(job[v].epoch)
  OBVIOUS
<1> QED BY <1>1, <1>2, <1>3, <1>4 DEF OnTime, BoundaryOf, Deadline

(* What a step of a validator leaves to the watch, when nothing is written. *)
LEMMA WatchUnmoved ==
  ASSUME WatchInv, UNCHANGED <<tip, headAt, pinned, update, watch, saw>>, late \subseteq late'
  PROVE  PinnedThen' /\ Looked' /\ FoundMissing' /\ PassedIsPinned' /\ PassedWeightsAreThisEpochs'
<1>1. PinnedThen' /\ Looked' /\ FoundMissing'
  BY DEF WatchInv, PinnedThen, Looked, FoundMissing
<1>2. PassedIsPinned' /\ PassedWeightsAreThisEpochs'
  BY DEF WatchInv, PassedIsPinned, PassedWeightsAreThisEpochs
<1> QED BY <1>1, <1>2

(* What is known of one validator. *)
LEMMA Rows ==
  ASSUME WatchInv, NEW v \in Watched
  PROVE  /\ OnTime(v) /\ tip \in Nat /\ tip <= LastHead
         /\ job[v] \in Jobs /\ job[v].epoch \in Marked /\ job[v].decided \in Int /\ job[v].tries \in 0..SubmitTries
         /\ job[v].unsure \in BOOLEAN
         /\ job[v].at \in {"waiting", "scoring", "scored", "submitting", "retrying", "confirming"}
         /\ update[v] \in Written /\ update[v].block \in Int /\ update[v].epoch \in Marked
         /\ pool[v] \subseteq Sent
         /\ (job[v].at # "waiting" => job[v].epoch \in WatchEpochs)
         /\ job[v].epoch \in Int
<1>1. OnTime(v) /\ tip \in 0..LastHead /\ job[v] \in Jobs /\ update[v] \in Written /\ pool[v] \subseteq Sent
  BY DEF WatchInv, WatchTypes
<1>2. tip \in Nat /\ tip <= LastHead
  BY <1>1, Windows
<1>3. /\ job[v].epoch \in Marked /\ job[v].decided \in Int /\ job[v].tries \in 0..SubmitTries
      /\ job[v].at \in {"waiting", "scoring", "scored", "submitting", "retrying", "confirming"}
      /\ job[v].unsure \in BOOLEAN
  BY <1>1, Windows DEF Jobs
<1>4. update[v].block \in Int /\ update[v].epoch \in Marked
  BY <1>1, Windows DEF Written
<1>5. job[v].at # "waiting" => job[v].epoch \in WatchEpochs
  BY <1>1, <1>3 DEF OnTime, Marked
<1>6. job[v].epoch \in Int
  BY <1>3, EpochsAreNumbers DEF Marked
<1> QED BY <1>1, <1>2, <1>3, <1>4, <1>5, <1>6

(* A step of v alone, which writes nothing on the chain: what is to be shown
   is that v keeps its time. *)
LEMMA JobStep ==
  ASSUME WatchInv, NEW v \in Watched, NEW j \in Jobs, job' = [job EXCEPT ![v] = j],
         UNCHANGED <<tip, headAt, pinned, update, claim, watch, saw>>, late \subseteq late',
         pool' \in [Watched -> SUBSET Sent], \A w \in Watched : w # v => pool'[w] = pool[w],
         late' \subseteq Watched \X WatchEpochs, revealed' \subseteq Watched \X WatchEpochs, OnTime(v)'
  PROVE  WatchInv'
<1>2. WatchTypes'
  BY DEF WatchInv, WatchTypes
<1>3. \A w \in Watched : OnTime(w)'
  <2> TAKE w \in Watched
  <2>1. CASE w = v
    BY <2>1
  <2>2. CASE w # v
    <3>1. job'[w] = job[w] /\ OnTime(w)
      BY <2>2 DEF WatchInv, WatchTypes
    <3> QED BY <2>2, <3>1, OnTimeKept
  <2> QED BY <2>1, <2>2
<1>4. PinnedThen' /\ Looked' /\ FoundMissing' /\ PassedIsPinned' /\ PassedWeightsAreThisEpochs'
  BY WatchUnmoved
<1>5. ConfirmedAreThisEpochs'
  BY DEF WatchInv, ConfirmedAreThisEpochs
<1> QED BY <1>2, <1>3, <1>4, <1>5 DEF WatchInv

(* The same of a step that submits nothing either, from where v is to where
   nothing is known of its submission. *)
LEMMA QuietStep ==
  ASSUME WatchInv, NEW v \in Watched, NEW j \in Jobs, job' = [job EXCEPT ![v] = j],
         UNCHANGED <<tipVars, claim, late, watch, saw>>,
         revealed' \subseteq Watched \X WatchEpochs,
         j.at # "waiting" => j.epoch # -1 /\ BoundaryOf(j.epoch) <= tip,
         j.at \in {"scoring", "scored", "submitting", "retrying"} => j.tries < SubmitTries,
         j.at = "retrying" => /\ j.decided # -1 /\ j.decided <= tip
                              /\ j.decided < Deadline(j.epoch),
         j.at = "submitting" => FALSE,
         j.at = "confirming" => /\ job[v].at = "submitting"
                                /\ j.unsure = job[v].unsure /\ j.epoch = job[v].epoch
  PROVE  WatchInv'
<1>1. UNCHANGED <<tip, headAt, pinned, update, pool>> /\ UNCHANGED <<claim, late, watch, saw>>
  BY DEF tipVars
<1>2. WatchTypes /\ OnTime(v)
  BY Rows DEF WatchInv
<1>3. job'[v] = j
  BY <1>2 DEF WatchTypes
<1>4. (\A x \in pool[v] : SentInTime(v, x))' /\ LandedInTime(v, update[v])' /\ update'[v].block <= tip'
  BY <1>1, <1>2 DEF OnTime, SentInTime, LandedInTime
<1>5. Sure(v)'
  BY <1>1, <1>2, <1>3 DEF OnTime, Sure, LimitElapsed
<1>6. OnTime(v)'
  BY <1>1, <1>3, <1>4, <1>5 DEF OnTime
<1>7. /\ pool' \in [Watched -> SUBSET Sent] /\ \A w \in Watched : w # v => pool'[w] = pool[w]
      /\ late' \subseteq Watched \X WatchEpochs /\ late \subseteq late'
  BY <1>1, <1>2 DEF WatchTypes
<1> QED BY <1>1, <1>6, <1>7, JobStep

-----------------------------------------------------------------------------
(* A validator that is at nothing, or begins to score *)
LEMMA Fresh ==
  ASSUME NEW e \in Marked
  PROVE  /\ [NoJob EXCEPT !.epoch = e] \in Jobs /\ [NoJob EXCEPT !.epoch = e].at = "waiting"
         /\ LET j == [NoJob EXCEPT !.epoch = e, !.at = "scoring"]
            IN j \in Jobs /\ j.at = "scoring" /\ j.epoch = e /\ j.tries = 0
<1>1. 0 \in 0..SubmitTries /\ -1 \in -1..LastHead /\ -1 \in Marked
  BY Windows DEF Marked
<1>2. NoJob \in Jobs /\ NoJob.at = "waiting" /\ NoJob.tries = 0
  BY <1>1 DEF NoJob, Jobs
<1> QED BY <1>2 DEF Jobs

(* An epoch begins to be scored. *)
LEMMA StartScoringStep == ASSUME WatchInv, NEW v \in Watched, StartScoring(v) PROVE WatchInv'
<1> DEFINE j == [NoJob EXCEPT !.epoch = TipEpoch, !.at = "scoring"]
<1>1. job' = [job EXCEPT ![v] = j] /\ UNCHANGED <<tipVars, revealed, claim, late, watch, saw>>
  BY DEF StartScoring
<1>2. WatchTypes /\ tip \in Nat /\ tip \in 0..LastHead
  BY Windows DEF WatchInv, WatchTypes
<1>3. TipEpoch \in WatchEpochs /\ TipEpoch \in Nat /\ BoundaryOf(TipEpoch) <= tip
  BY <1>2, TipInEpochs, EpochOf DEF TipEpoch
<1>4. j \in Jobs /\ j.at = "scoring" /\ j.epoch = TipEpoch /\ j.tries = 0
  BY <1>3, Fresh DEF Marked
<1>5. revealed' \subseteq Watched \X WatchEpochs
  BY <1>1, <1>2 DEF WatchTypes
<1> HIDE DEF j
<1>6. j.epoch # -1 /\ BoundaryOf(j.epoch) <= tip /\ j.tries < SubmitTries
  BY <1>3, <1>4, Windows
<1> QED BY <1>1, <1>4, <1>5, <1>6, QuietStep

(* A validator is done with its epoch. *)
LEMMA DoneStep ==
  ASSUME WatchInv, NEW v \in Watched, Done(v), UNCHANGED <<tipVars, revealed, claim, late, watch, saw>>
  PROVE  WatchInv'
<1> DEFINE j == [NoJob EXCEPT !.epoch = job[v].epoch]
<1>1. job' = [job EXCEPT ![v] = j]
  BY DEF Done
<1>2. WatchTypes /\ job[v].epoch \in Marked
  BY Rows DEF WatchInv
<1>3. j \in Jobs /\ j.at = "waiting"
  BY <1>2, Fresh
<1>4. revealed' \subseteq Watched \X WatchEpochs
  BY <1>2 DEF WatchTypes
<1> HIDE DEF j
<1> QED BY <1>1, <1>3, <1>4, QuietStep

(* An epoch without miners. *)
LEMMA NothingToScoreStep == ASSUME WatchInv, NEW v \in Watched, NothingToScore(v) PROVE WatchInv'
BY DoneStep DEF NothingToScore

(* A reveal is published. *)
LEMMA RevealStep == ASSUME WatchInv, NEW v \in Watched, Reveal(v) PROVE WatchInv'
<1> DEFINE j == [job[v] EXCEPT !.at = "scored"]
<1>1. /\ job' = [job EXCEPT ![v] = j] /\ UNCHANGED <<tipVars, claim, late, watch, saw>>
      /\ job[v].at = "scoring" /\ revealed' \in {revealed, revealed \cup {<<v, job[v].epoch>>}}
  BY DEF Reveal
<1>2. WatchTypes /\ OnTime(v) /\ job[v] \in Jobs /\ job[v].epoch \in WatchEpochs
  BY <1>1, Rows DEF WatchInv
<1>3. j \in Jobs /\ j.at = "scored" /\ j.epoch = job[v].epoch /\ j.tries = job[v].tries
  BY <1>2 DEF Jobs
<1>4. j.epoch # -1 /\ BoundaryOf(j.epoch) <= tip /\ j.tries < SubmitTries
  BY <1>1, <1>2, <1>3 DEF OnTime
<1>5. revealed' \subseteq Watched \X WatchEpochs
  BY <1>1, <1>2 DEF WatchTypes
<1> HIDE DEF j
<1> QED BY <1>1, <1>3, <1>4, <1>5, QuietStep

(* Whatever is submitted, its attempt was decided on in time, or is the first
   and late; and a validator that is sure has nothing else to come. *)
LEMMA SubmitStep == ASSUME WatchInv, NEW v \in Watched, Submit(v) PROVE WatchInv'
<1> DEFINE e == job[v].epoch
           first == job[v].at = "scored"
           decided == IF first THEN tip ELSE job[v].decided
           older == \E x \in pool[v] : x.epoch # e
           x0 == [epoch |-> e, decided |-> decided]
           j == [job[v] EXCEPT !.at = "submitting", !.decided = decided,
                               !.unsure = ~LimitElapsed(v) \/ older]
<1>1. /\ job[v].at \in {"scored", "retrying"}
      /\ late' = IF first /\ tip >= Deadline(e) THEN late \cup {<<v, e>>} ELSE late
      /\ UNCHANGED <<tip, headAt, pinned, update, revealed, claim, watch, saw>>
      /\ \/ pool' = [pool EXCEPT ![v] = @ \cup {x0}] /\ job' = [job EXCEPT ![v] = j]
         \/ Done(v) /\ UNCHANGED pool
  BY DEF Submit
<1>2. /\ WatchTypes /\ OnTime(v) /\ job[v] \in Jobs /\ e \in WatchEpochs /\ tip \in Nat
      /\ tip \in 0..LastHead /\ e \in Int /\ job[v].decided \in Int /\ pool[v] \subseteq Sent
  BY <1>1, Rows DEF WatchInv, WatchTypes
<1>3. Deadline(e) \in Int
  <2>1. BoundaryOf(e + 1) \in Int
    BY <1>2, Boundaries
  <2> QED BY <2>1, Windows DEF Deadline
<1>4. /\ decided \in 0..LastHead /\ decided <= tip
      /\ <<v, e>> \in late' \/ decided < Deadline(e)
  <2>1. CASE first
    BY <1>1, <1>2, <1>3, <2>1
  <2>2. CASE ~first
    <3>1. job[v].decided # -1 /\ job[v].decided <= tip /\ job[v].decided < Deadline(e)
      BY <1>1, <1>2, <2>2 DEF OnTime
    <3>2. job[v].decided \in -1..LastHead
      BY <1>2 DEF Jobs
    <3> QED BY <1>2, <2>2, <3>1, <3>2, Windows
  <2> QED BY <2>1, <2>2
<1>5. late' \subseteq Watched \X WatchEpochs /\ late \subseteq late' /\ revealed' \subseteq Watched \X WatchEpochs
  BY <1>1, <1>2 DEF WatchTypes
<1>6. x0 \in Sent
  BY <1>2, <1>4 DEF Sent
<1>7. /\ j \in Jobs /\ j.at = "submitting" /\ j.epoch = e /\ j.tries = job[v].tries
      /\ j.unsure = (~LimitElapsed(v) \/ older)
  <2>1. decided \in -1..LastHead /\ (~LimitElapsed(v) \/ older) \in BOOLEAN
    BY <1>4, Windows
  <2> HIDE DEF decided, older
  <2> QED BY <1>2, <2>1 DEF Jobs
<1>8. x0.epoch = e /\ x0.decided = decided
  OBVIOUS
<1> HIDE DEF j, x0, decided
<1>9. CASE pool' = [pool EXCEPT ![v] = @ \cup {x0}] /\ job' = [job EXCEPT ![v] = j]
  <2>1. /\ pool' \in [Watched -> SUBSET Sent] /\ pool'[v] = pool[v] \cup {x0}
        /\ \A w \in Watched : w # v => pool'[w] = pool[w]
    BY <1>2, <1>6, <1>9 DEF WatchTypes
  <2>2. job'[v] = j
    BY <1>2, <1>9 DEF WatchTypes
  <2>3. (\A x \in pool[v] : SentInTime(v, x))'
    <3> SUFFICES ASSUME NEW x \in pool'[v] PROVE SentInTime(v, x)'
      OBVIOUS
    <3>1. CASE x \in pool[v]
      <4>1. SentInTime(v, x)
        BY <1>2, <3>1 DEF OnTime
      <4> QED BY <4>1, <1>1, <1>5 DEF SentInTime, Deadline, BoundaryOf
    <3>2. CASE x = x0
      <4>1. BoundaryOf(e) <= tip
        BY <1>1, <1>2 DEF OnTime
      <4> QED BY <3>2, <4>1, <1>1, <1>4, <1>8 DEF SentInTime
    <3> QED BY <2>1, <3>1, <3>2
  <2>4. LandedInTime(v, update[v])' /\ update'[v].block <= tip'
    BY <1>1, <1>2, <1>5 DEF OnTime, LandedInTime
  <2>5. Sure(v)'
    <3> SUFFICES ASSUME ~j.unsure
                 PROVE  (\A x \in pool'[v] : x.epoch = e) /\ LimitElapsed(v)'
      BY <1>1, <1>7, <2>2 DEF Sure
    <3>1. LimitElapsed(v) /\ \A x \in pool[v] : x.epoch = e
      BY <1>7
    <3> QED BY <3>1, <1>1, <1>8, <2>1 DEF LimitElapsed
  <2>6. job'[v].epoch # -1 /\ BoundaryOf(job'[v].epoch) <= tip' /\ job'[v].tries < SubmitTries
    BY <1>1, <1>2, <1>7, <2>2 DEF OnTime
  <2>7. OnTime(v)'
    BY <1>7, <2>2, <2>3, <2>4, <2>5, <2>6 DEF OnTime
  <2> QED BY <1>1, <1>5, <1>7, <1>9, <2>1, <2>7, JobStep
<1>10. CASE Done(v) /\ UNCHANGED pool
  <2> DEFINE i == [NoJob EXCEPT !.epoch = e]
  <2>1. i \in Jobs /\ i.at = "waiting"
    BY <1>2, Fresh DEF Marked
  <2>2. job' = [job EXCEPT ![v] = i]
    BY <1>10 DEF Done
  <2> HIDE DEF i
  <2>3. job'[v] = i
    BY <1>2, <2>2 DEF WatchTypes
  <2>4. OnTime(v)'
    <3>1. (\A x \in pool[v] : SentInTime(v, x))'
      BY <1>1, <1>2, <1>5, <1>10 DEF OnTime, SentInTime
    <3>2. LandedInTime(v, update[v])' /\ update'[v].block <= tip'
      BY <1>1, <1>2, <1>5 DEF OnTime, LandedInTime
    <3> QED BY <2>1, <2>3, <3>1, <3>2 DEF OnTime, Sure
  <2>5. pool' \in [Watched -> SUBSET Sent] /\ \A w \in Watched : w # v => pool'[w] = pool[w]
    BY <1>2, <1>10 DEF WatchTypes
  <2> QED BY <1>1, <1>5, <2>1, <2>2, <2>4, <2>5, JobStep
<1> QED BY <1>1, <1>9, <1>10

(* An extrinsic that the chain takes is of the epoch of its block, unless its
   first attempt was late or it took longer than the margin. *)
LEMMA Landing ==
  ASSUME WatchInv, NEW v \in Watched, NEW x \in pool[v]
  PROVE  LET u == [block |-> tip, epoch |-> x.epoch, slow |-> tip - x.decided > DeadlineMargin]
         IN  LandedInTime(v, u) /\ u \in Written
<1> DEFINE e == x.epoch
           u == [block |-> tip, epoch |-> e, slow |-> tip - x.decided > DeadlineMargin]
<1>1. OnTime(v) /\ x \in Sent /\ tip \in Nat /\ tip <= LastHead
  BY Rows
<1>2. e \in WatchEpochs /\ x.decided \in Nat
  BY <1>1, Windows DEF Sent
<1>3. e \in Int /\ e # -1
  BY <1>2, EpochsAreNumbers
<1>4. BoundaryOf(e) <= tip /\ (<<v, e>> \in late \/ x.decided < Deadline(e))
  BY <1>1 DEF OnTime, SentInTime
<1>5. BoundaryOf(e + 1) \in Int
  BY <1>3, Boundaries
<1>6. u.block = tip /\ u.epoch = e /\ u.slow = (tip - x.decided > DeadlineMargin)
  OBVIOUS
<1>7. u \in Written
  <2>1. tip \in -1..LastHead /\ e \in Marked /\ (tip - x.decided > DeadlineMargin) \in BOOLEAN
    BY <1>1, <1>2, Windows DEF Marked
  <2> HIDE DEF e
  <2> QED BY <2>1 DEF Written
<1>8. tip < BoundaryOf(e + 1) \/ <<v, e>> \in late \/ tip - x.decided > DeadlineMargin
  <2> SUFFICES ASSUME x.decided < BoundaryOf(e + 1) - DeadlineMargin, ~(tip - x.decided > DeadlineMargin)
               PROVE  tip < BoundaryOf(e + 1)
    BY <1>4 DEF Deadline
  <2> HIDE DEF e
  <2> QED BY <1>1, <1>2, <1>5, Windows
<1> HIDE DEF u, e
<1>9. LandedInTime(v, u)
  <2>1. u.block # -1
    BY <1>1, <1>6
  <2>2. u.epoch # -1 /\ BoundaryOf(u.epoch) <= u.block
    BY <1>3, <1>4, <1>6
  <2>3. u.block < BoundaryOf(u.epoch + 1) \/ <<v, u.epoch>> \in late \/ u.slow
    BY <1>6, <1>8
  <2> QED BY <2>1, <2>2, <2>3 DEF LandedInTime
<1> QED BY <1>7, <1>9 DEF u, e

(* What is landed is of the epoch being settled only by the blocks it waits
   for. *)
LEMMA LandStep == ASSUME WatchInv, NEW v \in Watched, Land(v) PROVE WatchInv'
<1>1. PICK x \in pool[v] :
        /\ update' = [update EXCEPT ![v] = [block |-> tip, epoch |-> x.epoch,
                                            slow |-> tip - x.decided > DeadlineMargin]]
        /\ pool' = [pool EXCEPT ![v] = @ \ {x}]
  BY DEF Land
<1> DEFINE u == [block |-> tip, epoch |-> x.epoch, slow |-> tip - x.decided > DeadlineMargin]
<1>2. LandedInTime(v, u) /\ u \in Written /\ u.block = tip /\ u.epoch = x.epoch
  BY Landing
<1>3. WatchTypes /\ OnTime(v) /\ tip \in Nat
  BY Rows DEF WatchInv
<1>a. update' = [update EXCEPT ![v] = u]
  BY <1>1
<1> HIDE DEF u
<1>b. /\ UNCHANGED <<tip, headAt, pinned, watch, saw>>
      /\ UNCHANGED <<job, revealed, claim, late>>
  BY DEF Land, jobVars
<1>4. update' \in [Watched -> Written] /\ update'[v] = u /\ \A w \in Watched : w # v => update'[w] = update[w]
  BY <1>a, <1>2, <1>3 DEF WatchTypes
<1>5. /\ pool' \in [Watched -> SUBSET Sent] /\ pool'[v] = pool[v] \ {x}
      /\ \A w \in Watched : w # v => pool'[w] = pool[w]
  BY <1>1, <1>3 DEF WatchTypes
<1>6. WatchTypes'
  BY <1>3, <1>4, <1>5, <1>b DEF WatchTypes
<1>7. OnTime(v)'
  <2>1. LandedInTime(v, update[v])'
    BY <1>2, <1>4, <1>b DEF LandedInTime
  <2>2. update'[v].block <= tip'
    BY <1>2, <1>3, <1>4, <1>b
  <2>3. (\A y \in pool[v] : SentInTime(v, y))'
    BY <1>3, <1>5, <1>b DEF OnTime, SentInTime
  <2>4. Sure(v)'
    BY <1>2, <1>3, <1>4, <1>5, <1>b DEF OnTime, Sure
  <2>5. job'[v] = job[v] /\ tip' = tip
    BY <1>b
  <2> QED BY <1>3, <2>1, <2>2, <2>3, <2>4, <2>5 DEF OnTime, BoundaryOf, Deadline
<1>8. \A w \in Watched : OnTime(w)'
  <2> TAKE w \in Watched
  <2>1. CASE w # v
    <3>1. /\ OnTime(w) /\ update'[w] = update[w] /\ pool'[w] = pool[w] /\ job'[w] = job[w]
          /\ tip' = tip /\ late \subseteq late'
      BY <2>1, <1>4, <1>5, <1>b DEF WatchInv
    <3> QED BY <3>1, OnTimeKept
  <2> QED BY <2>1, <1>7
<1>9. PinnedThen' /\ Looked'
  BY <1>b DEF WatchInv, PinnedThen, Looked, BoundaryOf
<1>10. FoundMissing'
  <2> SUFFICES ASSUME saw.epoch # -1, saw.epoch = watch.settled
               PROVE  update'[v].epoch # saw.epoch \/ update'[v].block >= BoundaryOf(saw.epoch) + Settle
    BY <1>b DEF FoundMissing, BoundaryOf
  <2>1. BoundaryOf(saw.epoch) + Settle <= tip
    BY DEF WatchInv, Looked
  <2>2. BoundaryOf(saw.epoch) + Settle \in Int
    <3>1. saw.epoch \in Int
      BY <1>3, EpochsAreNumbers DEF WatchTypes, Marked
    <3>2. BoundaryOf(saw.epoch) \in Int
      BY ONLY <3>1, Boundaries
    <3>3. Settle \in Int
      BY ONLY Windows
    <3> QED BY ONLY <3>2, <3>3
  <2> QED BY <2>1, <2>2, <1>2, <1>3, <1>4
<1>11. ConfirmedAreThisEpochs' /\ PassedIsPinned' /\ PassedWeightsAreThisEpochs'
  BY <1>b DEF WatchInv, ConfirmedAreThisEpochs, PassedIsPinned, PassedWeightsAreThisEpochs
<1> QED BY <1>6, <1>8, <1>9, <1>10, <1>11 DEF WatchInv

(* A validator is told that its weights are there. *)
LEMMA SubmitSucceedsStep == ASSUME WatchInv, NEW v \in Watched, SubmitSucceeds(v) PROVE WatchInv'
<1> DEFINE j == [job[v] EXCEPT !.at = "confirming"]
<1>1. /\ job' = [job EXCEPT ![v] = j] /\ job[v].at = "submitting"
      /\ UNCHANGED <<tipVars, revealed, claim, late, watch, saw>>
  BY DEF SubmitSucceeds
<1>2. WatchTypes /\ OnTime(v) /\ job[v] \in Jobs
  BY Rows DEF WatchInv
<1>3. j \in Jobs /\ j.at = "confirming" /\ j.epoch = job[v].epoch /\ j.unsure = job[v].unsure
  BY <1>2 DEF Jobs
<1>4. j.epoch # -1 /\ BoundaryOf(j.epoch) <= tip
  BY <1>1, <1>2, <1>3 DEF OnTime
<1>5. revealed' \subseteq Watched \X WatchEpochs
  BY <1>1, <1>2 DEF WatchTypes
<1> HIDE DEF j
<1> QED BY <1>1, <1>3, <1>4, <1>5, QuietStep

(* It is told they are not, or nothing. *)
LEMMA SubmitFailsStep == ASSUME WatchInv, NEW v \in Watched, SubmitFails(v) PROVE WatchInv'
<1> DEFINE j == [job[v] EXCEPT !.at = "retrying", !.tries = @ + 1, !.decided = tip]
<1>1. /\ job[v].at = "submitting" /\ UNCHANGED <<tipVars, revealed, claim, late, watch, saw>>
      /\ \/ Done(v)
         \/ /\ job[v].tries + 1 < SubmitTries /\ tip < Deadline(job[v].epoch)
            /\ job' = [job EXCEPT ![v] = j]
  BY DEF SubmitFails
<1>2. /\ WatchTypes /\ OnTime(v) /\ job[v] \in Jobs /\ tip \in 0..LastHead /\ job[v].tries \in 0..SubmitTries
      /\ tip \in Nat
  BY Rows DEF WatchInv, WatchTypes
<1>3. CASE job[v].tries + 1 < SubmitTries /\ tip < Deadline(job[v].epoch) /\ job' = [job EXCEPT ![v] = j]
  <2>1. job[v].tries + 1 \in 0..SubmitTries /\ tip \in -1..LastHead
    BY <1>2, <1>3, Windows
  <2>2. /\ j \in Jobs /\ j.at = "retrying" /\ j.epoch = job[v].epoch /\ j.decided = tip
        /\ j.tries = job[v].tries + 1
    BY <1>2, <2>1 DEF Jobs
  <2>3. j.epoch # -1 /\ BoundaryOf(j.epoch) <= tip
    BY <1>1, <1>2, <2>2 DEF OnTime
  <2>4. revealed' \subseteq Watched \X WatchEpochs
    BY <1>1, <1>2 DEF WatchTypes
  <2> HIDE DEF j
  <2>5. j.decided # -1 /\ j.decided <= tip /\ j.decided < Deadline(j.epoch) /\ j.tries < SubmitTries
    BY <1>2, <1>3, <2>2
  <2> QED BY <1>1, <1>3, <2>2, <2>3, <2>4, <2>5, QuietStep
<1> QED BY <1>1, <1>3, DoneStep

(* What is recent on the chain is not older than the submission. *)
LEMMA ConfirmStep == ASSUME WatchInv, NEW v \in Watched, Confirm(v) PROVE WatchInv'
<1> DEFINE c == [epoch |-> job[v].epoch, of |-> update[v].epoch, unsure |-> job[v].unsure]
           j == [NoJob EXCEPT !.epoch = job[v].epoch]
<1>1. /\ job' = [job EXCEPT ![v] = j] /\ UNCHANGED <<tipVars, revealed, late, watch, saw>>
      /\ UNCHANGED <<tip, headAt, pinned, update, pool>> /\ job[v].at = "confirming"
      /\ claim' = IF Recorded(v) THEN [claim EXCEPT ![v] = c] ELSE claim
  BY DEF Confirm, Done, tipVars
<1>2. /\ WatchTypes /\ OnTime(v) /\ job[v] \in Jobs /\ job[v].epoch \in Marked /\ update[v].epoch \in Marked
      /\ update[v].block \in Int /\ tip \in Nat /\ job[v].unsure \in BOOLEAN
  BY Rows DEF WatchInv
<1>3. j \in Jobs /\ j.at = "waiting"
  BY <1>2, Fresh
<1> HIDE DEF j
<1>4. job'[v] = j /\ (\A w \in Watched : w # v => job'[w] = job[w]) /\ job' \in [Watched -> Jobs]
  BY <1>1, <1>2, <1>3 DEF WatchTypes
<1>5. Recorded(v) /\ ConfirmSlack <= RateLimit => c.unsure \/ c.epoch = c.of
  <2> SUFFICES ASSUME Recorded(v), ConfirmSlack <= RateLimit, ~job[v].unsure
               PROVE  update[v].epoch = job[v].epoch
    OBVIOUS
  <2>1. ~ LimitElapsed(v)
    BY <1>2, Windows DEF Recorded, LimitElapsed
  <2> QED BY <2>1, <1>1, <1>2 DEF OnTime, Sure
<1>6. c \in Claims
  BY <1>2 DEF Claims
<1> HIDE DEF c
<1>7. claim' \in [Watched -> Claims]
  BY <1>1, <1>2, <1>6 DEF WatchTypes
<1>8. ConfirmedAreThisEpochs'
  <2> SUFFICES ASSUME ConfirmSlack <= RateLimit, NEW w \in Watched
               PROVE  claim'[w].unsure \/ claim'[w].epoch = claim'[w].of
    BY DEF ConfirmedAreThisEpochs
  <2>1. claim[w].unsure \/ claim[w].epoch = claim[w].of
    BY DEF WatchInv, ConfirmedAreThisEpochs
  <2>2. claim \in [Watched -> Claims]
    BY <1>2 DEF WatchTypes
  <2> QED BY <2>1, <2>2, <1>1, <1>5
<1>9. WatchTypes'
  BY <1>1, <1>2, <1>4, <1>7 DEF WatchTypes
<1>10. \A w \in Watched : OnTime(w)'
  <2> TAKE w \in Watched
  <2>1. CASE w = v
    <3>1. (\A x \in pool[v] : SentInTime(v, x))' /\ LandedInTime(v, update[v])' /\ update'[v].block <= tip'
      BY <1>1, <1>2 DEF OnTime, SentInTime, LandedInTime
    <3> QED BY <2>1, <3>1, <1>3, <1>4 DEF OnTime, Sure
  <2>2. CASE w # v
    <3>1. OnTime(w) /\ job'[w] = job[w]
      BY <2>2, <1>4 DEF WatchInv
    <3> QED BY <3>1, <1>1, OnTimeKept
  <2> QED BY <2>1, <2>2
<1>11. PinnedThen' /\ Looked' /\ FoundMissing' /\ PassedIsPinned' /\ PassedWeightsAreThisEpochs'
  BY <1>1, WatchUnmoved
<1> QED BY <1>8, <1>9, <1>10, <1>11 DEF WatchInv

(* Only one epoch begins in a block, and it is the block's. *)
LEMMA AtBoundary ==
  ASSUME NEW n \in Nat, NEW e \in Int
  PROVE  /\ BoundaryOf(e) = n => n % EpochLength = 0 /\ EpochAt(n) = e
         /\ n % EpochLength = 0 => BoundaryOf(EpochAt(n)) = n
<1> DEFINE E == EpochAt(n)
<1>1. E \in Nat /\ BoundaryOf(E) <= n /\ n % EpochLength \in Nat
      /\ n = BoundaryOf(E) + (n % EpochLength) /\ (e <= E <=> BoundaryOf(e) <= n)
  BY ONLY EpochOf, n \in Nat, e \in Int
<1>2. BoundaryOf(E) \in Int /\ BoundaryOf(e) \in Int /\ BoundaryOf(e + 1) = BoundaryOf(e) + EpochLength
  BY <1>1, Boundaries
<1>3. e + 1 <= E => BoundaryOf(e + 1) <= BoundaryOf(E)
  BY <1>1, Boundaries
<1>4. e <= E => BoundaryOf(e) <= BoundaryOf(E)
  BY <1>1, Boundaries
<1> HIDE DEF E
<1>5. ASSUME BoundaryOf(e) = n PROVE n % EpochLength = 0 /\ E = e
  <2>1. e <= E
    BY <1>5, <1>1
  <2>2. ~ (e + 1 <= E)
    BY <1>5, <1>1, <1>2, <1>3, Windows
  <2> QED BY <2>1, <2>2, <1>1, <1>2, <1>4, <1>5
<1>6. n % EpochLength = 0 => BoundaryOf(E) = n
  BY <1>1, <1>2
<1> QED BY <1>5, <1>6 DEF E

(* What the watch read of its epoch is not changed by a block at a boundary:
   that one is of a later epoch. *)
LEMMA JudgedIsPast ==
  ASSUME WatchInv, saw.epoch # -1, NEW n \in Nat, tip <= n, n % EpochLength = 0
  PROVE  saw.epoch \in WatchEpochs /\ EpochAt(n) # saw.epoch
<1>1. saw.epoch \in WatchEpochs /\ saw.epoch \in Int /\ tip \in Nat
  BY EpochsAreNumbers, Windows DEF WatchInv, WatchTypes, Marked
<1>2. BoundaryOf(saw.epoch) < tip /\ BoundaryOf(saw.epoch) \in Int
  BY <1>1, Boundaries DEF WatchInv, Looked
<1>3. BoundaryOf(EpochAt(n)) = n
  BY <1>1, AtBoundary
<1> QED BY <1>1, <1>2, <1>3

-----------------------------------------------------------------------------
(* A block: perhaps the boundary of an epoch, perhaps a deadline that passes. *)
LEMMA TipMovesStep == ASSUME WatchInv, TipMoves PROVE WatchInv'
<1>1. /\ tip < LastHead /\ tip' = tip + 1 /\ UNCHANGED <<headAt, update, pool, watch, saw>>
      /\ UNCHANGED <<job, revealed, claim, late>>
      /\ pinned' = IF tip' % EpochLength = 0 THEN [pinned EXCEPT ![EpochAt(tip')] = headAt] ELSE pinned
  BY DEF TipMoves, jobVars
<1>2. WatchTypes /\ tip \in Nat /\ tip' \in Nat /\ tip' \in 0..LastHead /\ headAt \in Nat
  BY <1>1, Windows DEF WatchInv, WatchTypes
<1>3. EpochAt(tip') \in WatchEpochs
  BY <1>2, TipInEpochs
<1>4. WatchTypes'
  <2>1. headAt \in -1..LastHead
    BY <1>2, Windows DEF WatchTypes
  <2>2. pinned' \in [WatchEpochs -> -1..LastHead]
    BY <1>1, <1>2, <1>3, <2>1 DEF WatchTypes
  <2>3. headAt' <= tip'
    BY <1>1, <1>2 DEF WatchTypes
  <2> QED BY <1>1, <1>2, <2>2, <2>3 DEF WatchTypes
<1>5. \A v \in Watched : OnTime(v)'
  <2> TAKE v \in Watched
  <2>1. OnTime(v) /\ update[v].block \in Int /\ job[v].decided \in Int /\ job[v].epoch \in Int
        /\ pool[v] \subseteq Sent
    BY Rows
  <2>2. BoundaryOf(job[v].epoch) \in Int
    BY <2>1, Boundaries
  <2>3. LimitElapsed(v) => LimitElapsed(v)'
    BY <1>1, <1>2, <2>1, Windows DEF LimitElapsed
  <2>4. (update[v].block <= tip /\ LandedInTime(v, update[v]))'
    BY <1>1, <1>2, <2>1 DEF OnTime, LandedInTime
  <2>5. (job[v].at # "waiting" => job[v].epoch # -1 /\ BoundaryOf(job[v].epoch) <= tip)'
    BY <1>1, <1>2, <2>1, <2>2 DEF OnTime
  <2>6. (job[v].at \in {"scoring", "scored", "submitting", "retrying"} => job[v].tries < SubmitTries)'
    BY <1>1, <2>1 DEF OnTime
  <2>7. (\A x \in pool[v] : SentInTime(v, x))'
    <3> SUFFICES ASSUME NEW x \in pool[v] PROVE SentInTime(v, x)'
      BY <1>1
    <3>1. SentInTime(v, x) /\ x.epoch \in Int /\ x.decided \in Int
      BY <2>1, EpochsAreNumbers, Windows DEF OnTime, Sent
    <3>2. BoundaryOf(x.epoch) \in Int
      BY <3>1, Boundaries
    <3> QED BY <1>1, <1>2, <3>1, <3>2 DEF SentInTime
  <2>8. (job[v].at = "retrying" =>
          /\ job[v].decided # -1 /\ job[v].decided <= tip
          /\ job[v].decided < Deadline(job[v].epoch))'
    BY <1>1, <1>2, <2>1 DEF OnTime, Deadline, BoundaryOf
  <2>9. Sure(v)'
    BY <1>1, <2>1, <2>3 DEF OnTime, Sure
  <2> QED BY <2>4, <2>5, <2>6, <2>7, <2>8, <2>9 DEF OnTime
<1>6. PinnedThen'
  <2> SUFFICES ASSUME NEW e \in WatchEpochs, BoundaryOf(e) <= tip', headAt <= BoundaryOf(e)
               PROVE  pinned'[e] = headAt
    BY <1>1 DEF PinnedThen, BoundaryOf
  <2>1. e \in Int /\ BoundaryOf(e) \in Int
    BY EpochsAreNumbers, Boundaries
  <2>2. CASE BoundaryOf(e) <= tip
    <3>1. pinned[e] = headAt
      BY <2>2 DEF WatchInv, PinnedThen
    <3> QED BY <3>1, <1>1, <1>2, <1>3 DEF WatchTypes
  <2>3. CASE BoundaryOf(e) = tip'
    <3>1. tip' % EpochLength = 0 /\ EpochAt(tip') = e
      BY <2>1, <2>3, <1>2, AtBoundary
    <3> QED BY <3>1, <1>1, <1>2 DEF WatchTypes
  <2> QED BY <2>1, <2>2, <2>3, <1>1, <1>2
<1>7. Looked'
  <2>1. Looked /\ saw' = saw /\ watch' = watch
    BY <1>1 DEF WatchInv
  <2>2. saw.epoch # -1 => BoundaryOf(saw.epoch) < tip'
    <3>1. saw.epoch # -1 => saw.epoch \in Int
      BY <1>2, EpochsAreNumbers DEF WatchTypes, Marked
    <3>2. saw.epoch # -1 => BoundaryOf(saw.epoch) < tip
      BY <2>1 DEF Looked
    <3>3. tip \in Int /\ tip' = tip + 1 /\ (saw.epoch # -1 => BoundaryOf(saw.epoch) \in Int)
      BY <3>1, <1>1, <1>2, Boundaries
    <3> QED BY ONLY <3>2, <3>3
  <2>3. watch.settled # -1 => BoundaryOf(watch.settled) + Settle <= tip'
    <3>1. watch.settled # -1 => watch.settled \in Int
      BY <1>2, EpochsAreNumbers DEF WatchTypes, Marked
    <3>2. watch.settled # -1 => BoundaryOf(watch.settled) \in Int
      BY <3>1, Boundaries
    <3> QED BY <3>2, <2>1, <1>1, <1>2, Windows DEF Looked
  <2> QED BY <2>1, <2>2, <2>3 DEF Looked, BoundaryOf
<1>8. FoundMissing'
  BY <1>1 DEF WatchInv, FoundMissing, BoundaryOf
<1>9. PassedIsPinned'
  <2> SUFFICES ASSUME saw.headAt # -1, "commitment" \notin saw.failed PROVE saw.headAt = pinned'[saw.epoch]
    BY <1>1 DEF PassedIsPinned
  <2>1. saw.epoch # -1 /\ saw.headAt = pinned[saw.epoch]
    BY DEF WatchInv, Looked, PassedIsPinned
  <2>2. tip <= tip'
    BY <1>1, <1>2
  <2>3. tip' % EpochLength = 0 => saw.epoch \in WatchEpochs /\ EpochAt(tip') # saw.epoch
    BY <1>2, <2>1, <2>2, JudgedIsPast
  <2> QED BY <2>1, <2>3, <1>1, <1>2 DEF WatchTypes
<1>10. ConfirmedAreThisEpochs' /\ PassedWeightsAreThisEpochs'
  BY <1>1 DEF WatchInv, ConfirmedAreThisEpochs, PassedWeightsAreThisEpochs
<1> QED BY <1>4, <1>5, <1>6, <1>7, <1>8, <1>9, <1>10 DEF WatchInv

(* The miner commits a head. *)
LEMMA CommitHeadStep == ASSUME WatchInv, CommitHead PROVE WatchInv'
<1>1. /\ headAt' = tip /\ UNCHANGED <<tip, update, pool, watch, saw>> /\ UNCHANGED <<job, revealed, claim, late>>
      /\ pinned' = IF tip % EpochLength = 0 THEN [pinned EXCEPT ![TipEpoch] = tip] ELSE pinned
  BY DEF CommitHead, jobVars
<1>2. WatchTypes /\ tip \in Nat /\ tip \in 0..LastHead
  BY Windows DEF WatchInv, WatchTypes
<1>3. TipEpoch \in WatchEpochs
  BY <1>2, TipInEpochs DEF TipEpoch
<1>4. WatchTypes'
  <2>1. tip \in -1..LastHead /\ headAt' <= tip'
    BY <1>1, <1>2, Windows
  <2>2. pinned' \in [WatchEpochs -> -1..LastHead]
    BY <1>1, <1>2, <1>3, <2>1 DEF WatchTypes
  <2> QED BY <1>1, <1>2, <2>1, <2>2 DEF WatchTypes
<1>5. \A v \in Watched : OnTime(v)'
  <2> TAKE v \in Watched
  <2>1. /\ OnTime(v) /\ update'[v] = update[v] /\ pool'[v] = pool[v] /\ job'[v] = job[v]
        /\ tip' = tip /\ late \subseteq late'
    BY <1>1, Rows
  <2> QED BY <2>1, OnTimeKept
<1>6. PinnedThen'
  <2> SUFFICES ASSUME NEW e \in WatchEpochs, BoundaryOf(e) <= tip, tip <= BoundaryOf(e)
               PROVE  pinned'[e] = tip
    BY <1>1 DEF PinnedThen, BoundaryOf
  <2>1. e \in Int /\ BoundaryOf(e) \in Int
    BY EpochsAreNumbers, Boundaries
  <2>2. BoundaryOf(e) = tip
    BY <2>1, <1>2
  <2>3. tip % EpochLength = 0 /\ TipEpoch = e
    BY <2>1, <2>2, <1>2, AtBoundary DEF TipEpoch
  <2> QED BY <2>3, <1>1, <1>2 DEF WatchTypes
<1>7. Looked' /\ FoundMissing'
  BY <1>1 DEF WatchInv, Looked, FoundMissing, BoundaryOf
<1>9. PassedIsPinned'
  <2> SUFFICES ASSUME saw.headAt # -1, "commitment" \notin saw.failed PROVE saw.headAt = pinned'[saw.epoch]
    BY <1>1 DEF PassedIsPinned
  <2>1. saw.epoch # -1 /\ saw.headAt = pinned[saw.epoch]
    BY DEF WatchInv, Looked, PassedIsPinned
  <2>2. tip <= tip
    BY <1>2
  <2>3. tip % EpochLength = 0 => saw.epoch \in WatchEpochs /\ TipEpoch # saw.epoch
    BY <1>2, <2>1, <2>2, JudgedIsPast DEF TipEpoch
  <2> QED BY <2>1, <2>3, <1>1, <1>2 DEF WatchTypes
<1>10. ConfirmedAreThisEpochs' /\ PassedWeightsAreThisEpochs'
  BY <1>1 DEF WatchInv, ConfirmedAreThisEpochs, PassedWeightsAreThisEpochs
<1> QED BY <1>4, <1>5, <1>6, <1>7, <1>9, <1>10 DEF WatchInv

-----------------------------------------------------------------------------
(* A step of the watch changes nothing of the chain's or the validators':
   what is to be shown is about what it saw. *)
LEMMA WatchStep ==
  ASSUME WatchInv, UNCHANGED <<tipVars, jobVars>>, WatchTypes',
         Looked', FoundMissing', PassedIsPinned', PassedWeightsAreThisEpochs'
  PROVE  WatchInv'
<1>1. UNCHANGED <<tip, headAt, pinned, update, pool, job, revealed, claim, late>>
  BY DEF tipVars, jobVars
<1>2. \A v \in Watched : OnTime(v)'
  <2> TAKE v \in Watched
  <2>1. /\ OnTime(v) /\ update'[v] = update[v] /\ pool'[v] = pool[v] /\ job'[v] = job[v]
        /\ tip' = tip /\ late \subseteq late'
    BY <1>1, Rows
  <2> QED BY <2>1, OnTimeKept
<1>3. PinnedThen' /\ ConfirmedAreThisEpochs'
  BY <1>1 DEF WatchInv, PinnedThen, ConfirmedAreThisEpochs, BoundaryOf
<1> QED BY <1>2, <1>3 DEF WatchInv

(* The watch starts and waits for an epoch to settle. *)
LEMMA StartWatchStep == ASSUME WatchInv, StartWatch PROVE WatchInv'
<1>1. PICK hourly \in BOOLEAN, reveals \in BOOLEAN :
        watch' = [watch EXCEPT !.hourly = hourly, !.reveals = reveals,
                               !.at = IF hourly THEN "settling" ELSE "looking"]
  BY DEF StartWatch
<1>2. watch.at = "off" /\ UNCHANGED <<tipVars, jobVars, saw>> /\ UNCHANGED <<tip, headAt, pinned, update, pool>>
      /\ UNCHANGED <<job, revealed, claim, late>>
  BY DEF StartWatch, tipVars, jobVars
<1>3. WatchTypes /\ Looked
  BY DEF WatchInv
<1>4. saw = Unseen /\ Unseen.epoch = -1 /\ Unseen.headAt = -1
  BY <1>2, <1>3 DEF Looked, Unseen
<1>5. /\ watch' \in [at : WatchStages, hourly : BOOLEAN, reveals : BOOLEAN,
                     seen : SUBSET WatchEpochs, settled : Marked]
      /\ watch'.at \in {"settling", "looking"} /\ watch'.settled = watch.settled
  BY <1>1, <1>3 DEF WatchTypes, WatchStages
<1>6. WatchTypes'
  BY <1>2, <1>3, <1>5 DEF WatchTypes
<1>7. Looked' /\ FoundMissing' /\ PassedIsPinned' /\ PassedWeightsAreThisEpochs'
  BY <1>2, <1>3, <1>4, <1>5 DEF Looked, FoundMissing, PassedIsPinned, PassedWeightsAreThisEpochs, BoundaryOf, Unseen
<1> QED BY <1>2, <1>6, <1>7, WatchStep

(* The hourly watch waits until Settle blocks of its epoch are there. *)
LEMMA SettleWaitStep == ASSUME WatchInv, SettleWait PROVE WatchInv'
<1>1. watch.at = "settling" /\ UNCHANGED <<tipVars, jobVars, saw>> /\ UNCHANGED <<tip, headAt, pinned, update, pool>>
      /\ UNCHANGED <<job, revealed, claim, late>>
  BY DEF SettleWait, tipVars, jobVars
<1>2. \/ tip % EpochLength >= Settle /\ watch' = [watch EXCEPT !.at = "looking", !.settled = TipEpoch]
      \/ watch' = [watch EXCEPT !.at = "looking"]
  BY DEF SettleWait
<1>3. WatchTypes /\ Looked /\ tip \in Nat /\ tip \in 0..LastHead
  BY Windows DEF WatchInv, WatchTypes
<1>4. saw = Unseen /\ Unseen.epoch = -1 /\ Unseen.headAt = -1
  BY <1>1, <1>3 DEF Looked, Unseen
<1>5. TipEpoch \in WatchEpochs
  BY <1>3, TipInEpochs DEF TipEpoch
<1>6. /\ watch' \in [at : WatchStages, hourly : BOOLEAN, reveals : BOOLEAN,
                     seen : SUBSET WatchEpochs, settled : Marked]
      /\ watch'.at = "looking"
      /\ watch'.settled = watch.settled \/ ((tip % EpochLength) >= Settle /\ watch'.settled = TipEpoch)
  BY <1>2, <1>3, <1>5 DEF WatchTypes, WatchStages, Marked
<1>7. WatchTypes'
  BY <1>1, <1>3, <1>6 DEF WatchTypes
<1>8. watch'.settled # -1 => BoundaryOf(watch'.settled) + Settle <= tip
  <2>1. tip = BoundaryOf(TipEpoch) + (tip % EpochLength) /\ (tip % EpochLength) \in Nat /\ TipEpoch \in Nat
    BY <1>3, EpochOf DEF TipEpoch
  <2>2. BoundaryOf(TipEpoch) \in Int
    BY <2>1, Boundaries
  <2>3. tip % EpochLength >= Settle => BoundaryOf(TipEpoch) + Settle <= tip
    BY <2>1, <2>2, Windows
  <2> QED BY <2>3, <1>3, <1>6 DEF Looked
<1>9. Looked'
  BY <1>1, <1>4, <1>6, <1>8 DEF Looked, BoundaryOf, Unseen
<1>10. FoundMissing' /\ PassedIsPinned' /\ PassedWeightsAreThisEpochs'
  BY <1>1, <1>4 DEF FoundMissing, PassedIsPinned, PassedWeightsAreThisEpochs
<1> QED BY <1>1, <1>7, <1>9, <1>10, WatchStep

(* It looks at the epoch. *)
LEMMA LookAtStep == ASSUME WatchInv, LookAt PROVE WatchInv'
<1> DEFINE failed == IF \E v \in Watched : update[v].block < BoundaryOf(TipEpoch) THEN {"weights"} ELSE {}
<1>1. /\ watch' = [watch EXCEPT !.at = "commitments", !.seen = @ \cup {TipEpoch}]
      /\ saw' = [epoch |-> TipEpoch, headAt |-> -1, update |-> update, failed |-> failed]
      /\ tip - BoundaryOf(TipEpoch) >= Grace
      /\ UNCHANGED <<tipVars, jobVars>> /\ UNCHANGED <<tip, headAt, pinned, update, pool>>
      /\ UNCHANGED <<job, revealed, claim, late>>
  BY DEF LookAt, tipVars, jobVars
<1>2. WatchTypes /\ Looked /\ tip \in Nat /\ tip \in 0..LastHead
  BY Windows DEF WatchInv, WatchTypes
<1>3. TipEpoch \in WatchEpochs /\ TipEpoch \in Nat /\ \A e \in Int : e <= TipEpoch <=> BoundaryOf(e) <= tip
  BY <1>2, TipInEpochs, EpochOf DEF TipEpoch
<1>4. BoundaryOf(TipEpoch) \in Nat /\ BoundaryOf(TipEpoch) < tip
  <2>1. BoundaryOf(TipEpoch) \in Nat
    BY <1>3, Boundaries
  <2> QED BY <2>1, <1>1, <1>2, Windows
<1>5. failed \in SUBSET {"commitment", "weights", "reveal"}
  OBVIOUS
<1>6. ("weights" \in failed) <=> \E v \in Watched : update[v].block < BoundaryOf(TipEpoch)
  OBVIOUS
<1> HIDE DEF failed
<1>7. /\ watch' \in [at : WatchStages, hourly : BOOLEAN, reveals : BOOLEAN,
                     seen : SUBSET WatchEpochs, settled : Marked]
      /\ watch'.at = "commitments" /\ watch'.settled = watch.settled
  BY <1>1, <1>2, <1>3 DEF WatchTypes, WatchStages
<1>8. saw'.epoch = TipEpoch /\ saw'.headAt = -1 /\ saw'.update = update /\ saw'.failed = failed
  BY <1>1
<1>9. WatchTypes'
  <2>1. -1 \in -1..LastHead /\ TipEpoch \in Marked
    BY <1>3, Windows DEF Marked
  <2>2. saw' \in [epoch : Marked, headAt : -1..LastHead, update : [Watched -> Written],
                  failed : SUBSET {"commitment", "weights", "reveal"}]
    BY <1>1, <1>2, <1>5, <2>1 DEF WatchTypes
  <2> QED BY <1>1, <1>2, <1>7, <2>2 DEF WatchTypes
<1>10. Looked'
  BY <1>1, <1>2, <1>3, <1>4, <1>7, <1>8 DEF Looked, BoundaryOf
<1>11. FoundMissing'
  <2> SUFFICES ASSUME "weights" \in failed
               PROVE  \E v \in Watched : update[v].epoch # TipEpoch
                        \/ update[v].block >= BoundaryOf(TipEpoch) + Settle
    BY <1>1, <1>8 DEF FoundMissing, BoundaryOf
  <2>1. PICK v \in Watched : update[v].block < BoundaryOf(TipEpoch)
    BY <1>6
  <2>2. LandedInTime(v, update[v]) /\ update[v].block \in Int
    BY Rows DEF OnTime
  <2>3. update[v].epoch # TipEpoch
    BY <2>1, <2>2, <1>3, <1>4 DEF LandedInTime
  <2> QED BY <2>3
<1>12. PassedWeightsAreThisEpochs'
  <2> SUFFICES ASSUME "weights" \notin failed, NEW v \in Watched
               PROVE  update[v].epoch = TipEpoch \/ <<v, update[v].epoch>> \in late \/ update[v].slow
    BY <1>1, <1>8 DEF PassedWeightsAreThisEpochs
  <2>1. /\ LandedInTime(v, update[v]) /\ update[v].block \in Int /\ update[v].epoch \in Marked
        /\ update[v].block <= tip
    BY Rows DEF OnTime
  <2>2. update[v].block >= BoundaryOf(TipEpoch)
    BY <1>4, <1>6, <2>1
  <2>3. update[v].block # -1
    BY <2>2, <2>1, <1>4
  <2>4. update[v].epoch \in Int /\ BoundaryOf(update[v].epoch) <= update[v].block
        /\ \/ update[v].block < BoundaryOf(update[v].epoch + 1)
           \/ <<v, update[v].epoch>> \in late \/ update[v].slow
    BY <2>1, <2>3, EpochsAreNumbers DEF LandedInTime, Marked
  <2>5. BoundaryOf(update[v].epoch) \in Int /\ BoundaryOf(update[v].epoch + 1) \in Int
    BY <2>4, Boundaries
  <2>6. update[v].epoch <= TipEpoch
    BY <2>1, <2>4, <2>5, <1>2, <1>3
  <2>7. update[v].epoch + 1 <= TipEpoch => BoundaryOf(update[v].epoch + 1) <= BoundaryOf(TipEpoch)
    BY <2>4, <1>3, Boundaries
  <2> QED BY <2>1, <2>2, <2>4, <2>5, <2>6, <2>7, <1>3, <1>4
<1>13. PassedIsPinned'
  BY <1>8 DEF PassedIsPinned
<1> QED BY <1>1, <1>9, <1>10, <1>11, <1>12, <1>13, WatchStep

(* A commitment no later than the boundary is the one that was pinned there:
   the watch looks after the boundary's block. *)
LEMMA LookAtCommitmentsStep == ASSUME WatchInv, LookAtCommitments PROVE WatchInv'
<1> DEFINE failed == IF InTime(headAt) THEN saw.failed ELSE saw.failed \cup {"commitment"}
<1>1. /\ watch.at = "commitments" /\ saw' = [saw EXCEPT !.headAt = headAt, !.failed = failed]
      /\ watch' = [watch EXCEPT !.at = IF watch.reveals THEN "agreement" ELSE "looking"]
      /\ UNCHANGED <<tipVars, jobVars>> /\ UNCHANGED <<tip, headAt, pinned, update, pool>>
      /\ UNCHANGED <<job, revealed, claim, late>>
  BY DEF LookAtCommitments, tipVars, jobVars
<1>2. WatchTypes /\ Looked /\ headAt \in -1..LastHead
  BY Windows DEF WatchInv, WatchTypes
<1>3. saw.epoch # -1 /\ saw.epoch \in WatchEpochs /\ saw.epoch \in Int
  BY <1>1, <1>2, EpochsAreNumbers DEF Looked, WatchTypes, Marked
<1>4. failed \in SUBSET {"commitment", "weights", "reveal"}
  BY <1>2 DEF WatchTypes
<1>5. ("weights" \in failed <=> "weights" \in saw.failed) /\ ("commitment" \notin failed => InTime(headAt))
  OBVIOUS
<1> HIDE DEF failed
<1>6. /\ saw' \in [epoch : Marked, headAt : -1..LastHead, update : [Watched -> Written],
                   failed : SUBSET {"commitment", "weights", "reveal"}]
      /\ saw'.epoch = saw.epoch /\ saw'.headAt = headAt /\ saw'.update = saw.update /\ saw'.failed = failed
  BY <1>1, <1>2, <1>4 DEF WatchTypes
<1>7. /\ watch' \in [at : WatchStages, hourly : BOOLEAN, reveals : BOOLEAN,
                     seen : SUBSET WatchEpochs, settled : Marked]
      /\ watch'.at \in {"agreement", "looking"} /\ watch'.settled = watch.settled
  BY <1>1, <1>2 DEF WatchTypes, WatchStages
<1>8. WatchTypes'
  BY <1>1, <1>2, <1>6, <1>7 DEF WatchTypes
<1>9. Looked'
  BY <1>1, <1>2, <1>3, <1>6, <1>7 DEF Looked, BoundaryOf
<1>10. FoundMissing' /\ PassedWeightsAreThisEpochs'
  BY <1>1, <1>5, <1>6, <1>7 DEF WatchInv, FoundMissing, PassedWeightsAreThisEpochs, BoundaryOf
<1>11. PassedIsPinned'
  <2> SUFFICES ASSUME InTime(headAt) PROVE headAt = pinned[saw.epoch]
    BY <1>1, <1>5, <1>6 DEF PassedIsPinned
  <2>1. BoundaryOf(saw.epoch) < tip /\ BoundaryOf(saw.epoch) \in Int /\ tip \in Int
    BY <1>2, <1>3, Boundaries, Windows DEF Looked, WatchTypes
  <2>2. BoundaryOf(saw.epoch) <= tip
    BY ONLY <2>1
  <2>3. headAt <= BoundaryOf(saw.epoch)
    BY DEF InTime
  <2> QED BY <2>2, <2>3, <1>3 DEF WatchInv, PinnedThen
<1> QED BY <1>1, <1>8, <1>9, <1>10, <1>11, WatchStep

(* It looks at the reveals of the epoch. *)
LEMMA LookAtRevealsStep == ASSUME WatchInv, LookAtReveals PROVE WatchInv'
<1>1. /\ watch.at = "agreement"
      /\ \/ watch' = [watch EXCEPT !.at = "crashed"] /\ UNCHANGED saw
         \/ watch' = [watch EXCEPT !.at = "looking"] /\ saw' = [saw EXCEPT !.failed = @ \cup {"reveal"}]
      /\ UNCHANGED <<tipVars, jobVars>> /\ UNCHANGED <<tip, headAt, pinned, update, pool>>
      /\ UNCHANGED <<job, revealed, claim, late>>
  BY DEF LookAtReveals, tipVars, jobVars
<1>2. WatchTypes /\ Looked
  BY DEF WatchInv
<1>3. /\ saw' \in [epoch : Marked, headAt : -1..LastHead, update : [Watched -> Written],
                   failed : SUBSET {"commitment", "weights", "reveal"}]
      /\ saw'.epoch = saw.epoch /\ saw'.headAt = saw.headAt /\ saw'.update = saw.update
      /\ ("weights" \in saw'.failed <=> "weights" \in saw.failed)
      /\ ("commitment" \in saw'.failed <=> "commitment" \in saw.failed)
  BY <1>1, <1>2 DEF WatchTypes
<1>4. /\ watch' \in [at : WatchStages, hourly : BOOLEAN, reveals : BOOLEAN,
                     seen : SUBSET WatchEpochs, settled : Marked]
      /\ watch'.at \in {"crashed", "looking"} /\ watch'.settled = watch.settled
  BY <1>1, <1>2 DEF WatchTypes, WatchStages
<1>5. WatchTypes'
  BY <1>1, <1>2, <1>3, <1>4 DEF WatchTypes
<1>6. Looked'
  BY <1>1, <1>2, <1>3, <1>4 DEF Looked, BoundaryOf
<1>7. FoundMissing' /\ PassedWeightsAreThisEpochs' /\ PassedIsPinned'
  BY <1>1, <1>3, <1>4 DEF WatchInv, FoundMissing, PassedWeightsAreThisEpochs, PassedIsPinned, BoundaryOf
<1> QED BY <1>1, <1>5, <1>6, <1>7, WatchStep

(* It ends, or goes on in an hour. *)
LEMMA EndWatchStep == ASSUME WatchInv, EndWatch PROVE WatchInv'
<1>1. /\ watch.at = "looking" /\ watch' = [watch EXCEPT !.at = "done"]
      /\ UNCHANGED <<tipVars, jobVars, saw>> /\ UNCHANGED <<tip, headAt, pinned, update, pool>>
      /\ UNCHANGED <<job, revealed, claim, late>>
  BY DEF EndWatch, tipVars, jobVars
<1>2. WatchTypes /\ Looked
  BY DEF WatchInv
<1>3. /\ watch' \in [at : WatchStages, hourly : BOOLEAN, reveals : BOOLEAN,
                     seen : SUBSET WatchEpochs, settled : Marked]
      /\ watch'.at = "done" /\ watch'.settled = watch.settled
  BY <1>1, <1>2 DEF WatchTypes, WatchStages
<1>4. WatchTypes'
  BY <1>1, <1>2, <1>3 DEF WatchTypes
<1>5. Looked' /\ FoundMissing' /\ PassedWeightsAreThisEpochs' /\ PassedIsPinned'
  BY <1>1, <1>2, <1>3 DEF WatchInv, Looked, FoundMissing, PassedWeightsAreThisEpochs, PassedIsPinned, BoundaryOf
<1> QED BY <1>1, <1>4, <1>5, WatchStep

-----------------------------------------------------------------------------
(* What a run of the watch, or a validator's own confirmation, is trusted for
   holds whatever the validators, the epoch's length, the windows, the rate
   limit and the retries, and however long an attempt takes: weights called
   confirmed are of that epoch where the slack is within the rate limit and the
   validator was sure, a commitment that passes is the one scored, weights
   that pass are of this epoch or of a submission that was late or slow, and
   the hourly run fails nobody who was there in time. *)
THEOREM WatchAlwaysSafe == WatchSpec => []WatchSafety
<1>1. WatchInit => WatchInv
  BY WatchInitially
<1>2. WatchInv /\ [WatchNext]_watchVars => WatchInv'
  <2> SUFFICES ASSUME WatchInv, [WatchNext]_watchVars PROVE WatchInv'
    OBVIOUS
  <2>1. CASE TipMoves
    BY <2>1, TipMovesStep
  <2>2. CASE CommitHead
    BY <2>2, CommitHeadStep
  <2>3. ASSUME NEW v \in Watched,
               StartScoring(v) \/ NothingToScore(v) \/ Reveal(v) \/ Submit(v)
        PROVE  WatchInv'
    BY <2>3, StartScoringStep, NothingToScoreStep, RevealStep, SubmitStep
  <2>4. ASSUME NEW v \in Watched, Land(v) \/ SubmitSucceeds(v) \/ SubmitFails(v) \/ Confirm(v)
        PROVE  WatchInv'
    BY <2>4, LandStep, SubmitSucceedsStep, SubmitFailsStep, ConfirmStep
  <2>5. CASE StartWatch \/ SettleWait \/ LookAt
    BY <2>5, StartWatchStep, SettleWaitStep, LookAtStep
  <2>6. CASE LookAtCommitments \/ LookAtReveals \/ EndWatch
    BY <2>6, LookAtCommitmentsStep, LookAtRevealsStep, EndWatchStep
  <2>7. CASE UNCHANGED watchVars
    <3>1. UNCHANGED <<tipVars, jobVars, watch, saw>> /\ UNCHANGED <<tip, headAt, pinned, update, pool>>
          /\ UNCHANGED <<job, revealed, claim, late>>
      BY <2>7 DEF watchVars, tipVars, jobVars
    <3>2. WatchTypes'
      BY <3>1 DEF WatchInv, WatchTypes
    <3>3. PinnedThen' /\ Looked' /\ FoundMissing' /\ PassedIsPinned' /\ PassedWeightsAreThisEpochs'
      BY <3>1, WatchUnmoved
    <3> QED BY <3>1, <3>2, <3>3, WatchStep
  <2> QED BY <2>1, <2>2, <2>3, <2>4, <2>5, <2>6, <2>7 DEF WatchNext
<1>3. WatchInv => WatchSafety
  BY WatchInvImplies
<1> QED BY <1>1, <1>2, <1>3, PTL DEF WatchSpec

(***************************************************************************)
(* CallLog                                                                 *)
(***************************************************************************)

(* What comes before j in the order R of D. *)
Below(D, R, j) == {i \in D : <<i, j>> \in R}

(* R orders D, any two of them one way. *)
Orders(R, D) ==
  /\ \A i \in D : <<i, i>> \notin R
  /\ \A i, j \in D : i # j => <<i, j>> \in R \/ <<j, i>> \in R
  /\ \A i, j, k \in D : <<i, j>> \in R /\ <<j, k>> \in R => <<i, k>> \in R

(* Each has its own place, and each place is taken. *)
LEMMA PlacesAreOwn ==
  ASSUME NEW D, IsFiniteSet(D), NEW R, Orders(R, D)
  PROVE  /\ Cardinality(D) \in Nat
         /\ \A j \in D : Cardinality(Below(D, R, j)) + 1 \in 1..Cardinality(D)
         /\ \A i, j \in D : Cardinality(Below(D, R, i)) = Cardinality(Below(D, R, j)) => i = j
         /\ \A k \in 1..Cardinality(D) : \E j \in D : Cardinality(Below(D, R, j)) + 1 = k
<1> DEFINE B(j) == Below(D, R, j)
<1>1. Cardinality(D) \in Nat
  BY FS_CardinalityType
<1>2. \A j \in D : IsFiniteSet(B(j)) /\ Cardinality(B(j)) \in Nat
  <2> TAKE j \in D
  <2>1. B(j) \in SUBSET D
    BY DEF Below
  <2>2. IsFiniteSet(B(j))
    BY ONLY <2>1, IsFiniteSet(D), FS_Subset
  <2> QED BY ONLY <2>2, FS_CardinalityType
<1>3. \A j \in D : Cardinality(B(j)) < Cardinality(D)
  <2> TAKE j \in D
  <2>1. B(j) \in SUBSET D /\ j \notin B(j)
    BY DEF Below, Orders
  <2>2. Cardinality(B(j)) <= Cardinality(D) /\ (Cardinality(D) = Cardinality(B(j)) => D = B(j))
    BY ONLY <2>1, IsFiniteSet(D), FS_Subset
  <2>3. Cardinality(D) # Cardinality(B(j))
    BY <2>1, <2>2
  <2>4. Cardinality(B(j)) \in Nat
    BY <1>2
  <2> HIDE DEF B
  <2> QED BY ONLY <2>2, <2>3, <2>4, <1>1
<1>4. \A i, j \in D : <<i, j>> \in R => Cardinality(B(i)) < Cardinality(B(j))
  <2> TAKE i, j \in D
  <2> HAVE <<i, j>> \in R
  <2>1. B(i) \in SUBSET B(j) /\ i \in B(j) /\ i \notin B(i)
    BY DEF Below, Orders
  <2>2. IsFiniteSet(B(j)) /\ Cardinality(B(i)) \in Nat /\ Cardinality(B(j)) \in Nat
    BY <1>2
  <2> HIDE DEF B
  <2>3. Cardinality(B(i)) <= Cardinality(B(j)) /\ (Cardinality(B(j)) = Cardinality(B(i)) => B(j) = B(i))
    BY ONLY <2>1, <2>2, FS_Subset
  <2>4. Cardinality(B(j)) # Cardinality(B(i))
    BY <2>1, <2>3
  <2> QED BY ONLY <2>2, <2>3, <2>4
<1> HIDE DEF B
<1>5. \A i, j \in D : Cardinality(B(i)) = Cardinality(B(j)) => i = j
  <2> TAKE i, j \in D
  <2>1. i # j => Cardinality(B(i)) < Cardinality(B(j)) \/ Cardinality(B(j)) < Cardinality(B(i))
    BY <1>4 DEF Orders
  <2>2. Cardinality(B(i)) \in Nat /\ Cardinality(B(j)) \in Nat
    BY <1>2
  <2> QED BY ONLY <2>1, <2>2
<1> DEFINE n == Cardinality(D)
           place == [j \in D |-> Cardinality(B(j)) + 1]
<1>6. place \in [D -> 1..n]
  <2>1. \A j \in D : Cardinality(B(j)) + 1 \in 1..n
    BY <1>1, <1>2, <1>3
  <2> QED BY <2>1
<1>7. place \in Injection(D, 1..n)
  <2>1. \A i, j \in D : place[i] = place[j] => i = j
    <3> TAKE i, j \in D
    <3> HAVE place[i] = place[j]
    <3>1. Cardinality(B(i)) + 1 = Cardinality(B(j)) + 1 /\ Cardinality(B(i)) \in Nat /\ Cardinality(B(j)) \in Nat
      BY <1>2
    <3>2. Cardinality(B(i)) = Cardinality(B(j))
      BY ONLY <3>1
    <3> QED BY <3>2, <1>5
  <2> HIDE DEF place
  <2> QED BY ONLY <2>1, <1>6, Fun_IsInj
<1>8. IsFiniteSet(1..n) /\ Cardinality(1..n) = n
  <2>1. 1 \in Int /\ n \in Int
    BY <1>1
  <2>2. IsFiniteSet(1..n) /\ Cardinality(1..n) = IF 1 > n THEN 0 ELSE n - 1 + 1
    BY ONLY <2>1, FS_Interval
  <2> QED BY <2>2, <1>1
<1>9. place \in Surjection(D, 1..n)
  <2> HIDE DEF place
  <2>1. Cardinality(D) = Cardinality(1..n)
    BY <1>8
  <2> QED BY ONLY <2>1, <1>7, <1>8, FS_Injection
<1>10. \A k \in 1..n : \E j \in D : Cardinality(B(j)) + 1 = k
  <2>1. \A k \in 1..n : \E j \in D : place[j] = k
    <3> HIDE DEF place
    <3> QED BY ONLY <1>9, Fun_SurjectionProperties
  <2> QED BY <2>1
<1>11. \A j \in D : Cardinality(B(j)) + 1 \in 1..n
  BY <1>1, <1>2, <1>3
<1> QED BY <1>1, <1>5, <1>10, <1>11 DEF B

(* A call: a model, and a task. *)
Pairs == Nat \X Nat
(* The calls of each model, in the plan's order. *)
Lists == [m \in DOMAIN Chosen |-> [i \in DOMAIN Chosen[m] |-> <<m, Chosen[m][i]>>]]

(* The lists hold the calls of their models. *)
LEMMA ListsHold ==
  /\ Len(Chosen) \in Nat /\ DOMAIN Lists = 1..Len(Chosen) /\ Lists \in Seq(Seq(Pairs)) /\ Len(Lists) = Len(Chosen)
  /\ \A m \in 1..Len(Chosen) :
       /\ Lists[m] \in Seq(Pairs)
       /\ \A i \in DOMAIN Lists[m] : Lists[m][i][1] = m
       /\ \A i, j \in DOMAIN Lists[m] : Lists[m][i] = Lists[m][j] => i = j
<1>1. Chosen \in Seq(Seq(Nat)) /\ \A m \in DOMAIN Chosen : IsInjective(Chosen[m])
  BY CallLogAssumption
<1>2. Len(Chosen) \in Nat /\ DOMAIN Chosen = 1..Len(Chosen)
  BY <1>1
<1>3. ASSUME NEW m \in 1..Len(Chosen)
      PROVE  /\ Lists[m] \in Seq(Pairs)
             /\ \A i \in DOMAIN Lists[m] : Lists[m][i][1] = m
             /\ \A i, j \in DOMAIN Lists[m] : Lists[m][i] = Lists[m][j] => i = j
  <2> DEFINE c == Chosen[m]
  <2>a. m \in DOMAIN Chosen
    BY <1>2
  <2>b. IsInjective(c)
    BY <1>1, <2>a
  <2>c. c \in Seq(Nat)
    BY <1>1, <2>a
  <2>1. c \in Seq(Nat) /\ IsInjective(c)
    BY <2>b, <2>c
  <2>2. Lists[m] = [i \in DOMAIN c |-> <<m, c[i]>>]
    BY <1>2 DEF Lists
  <2>3. Len(c) \in Nat /\ DOMAIN c = 1..Len(c) /\ \A i \in DOMAIN c : c[i] \in Nat
    BY <2>1
  <2>4. \A i, j \in DOMAIN c : c[i] = c[j] => i = j
    BY <2>1 DEF IsInjective
  <2> HIDE DEF c
  <2>5. Lists[m] \in Seq(Pairs)
    BY <2>2, <2>3 DEF Pairs
  <2> QED BY <2>2, <2>3, <2>4, <2>5
<1>4. DOMAIN Lists = 1..Len(Chosen)
  BY <1>2 DEF Lists
<1>5. Lists \in Seq(Seq(Pairs)) /\ Len(Lists) = Len(Chosen)
  <2>1. Lists = [m \in 1..Len(Chosen) |-> Lists[m]]
    BY <1>2 DEF Lists
  <2> HIDE DEF Lists
  <2> QED BY <2>1, <1>2, <1>3
<1> QED BY <1>2, <1>3, <1>4, <1>5

(* What the list of the calls of the first models is. *)
Joined(g, m) == g = [i \in 1..m |-> IF i = 1 THEN Lists[i] ELSE g[i - 1] \o Lists[i]]

(* As many lists as there are can be joined. *)
LEMMA JoinedExists == \A n \in 1..Len(Chosen) : \E g : Joined(g, n)
<1> DEFINE Good(m) == \E g \in [1..m -> Seq(Pairs)] : \A i \in 1..m : g[i] = IF i = 1 THEN Lists[i] ELSE g[i - 1] \o Lists[i]
           All == {m \in 0..Len(Chosen) : Good(m)}
<1>1. Good(0)
  <2>1. [i \in 1..0 |-> <<>>] \in [1..0 -> Seq(Pairs)] /\ 1..0 = {}
    OBVIOUS
  <2> QED BY <2>1
<1>2. ASSUME NEW m \in 1..Len(Chosen), Good(m - 1) PROVE Good(m)
  <2>0. Lists[m] \in Seq(Pairs) /\ m \in Nat \ {0}
    BY ListsHold
  <2>1. PICK g \in [1..m - 1 -> Seq(Pairs)] :
          \A i \in 1..m - 1 : g[i] = IF i = 1 THEN Lists[i] ELSE g[i - 1] \o Lists[i]
    BY <1>2
  <2> DEFINE last == IF m = 1 THEN Lists[m] ELSE g[m - 1] \o Lists[m]
             h == [i \in 1..m |-> IF i = m THEN last ELSE g[i]]
  <2>2. last \in Seq(Pairs)
    <3>1. m # 1 => g[m - 1] \in Seq(Pairs)
      BY <2>0, <2>1
    <3> QED BY <2>0, <3>1
  <2> HIDE DEF last
  <2>3. h \in [1..m -> Seq(Pairs)]
    BY <2>0, <2>1, <2>2
  <2>4. \A i \in 1..m : h[i] = IF i = 1 THEN Lists[i] ELSE h[i - 1] \o Lists[i]
    <3> TAKE i \in 1..m
    <3>1. CASE i = m
      <4>1. m # 1 => h[m - 1] = g[m - 1]
        BY <2>0
      <4> QED BY <2>0, <3>1, <4>1 DEF last
    <3>2. CASE i # m
      <4>1. i \in 1..m - 1 /\ h[i] = g[i] /\ (i # 1 => h[i - 1] = g[i - 1])
        BY <2>0, <3>2
      <4> QED BY <2>1, <4>1
    <3> QED BY <3>1, <3>2
  <2> HIDE DEF h
  <2> QED BY <2>3, <2>4
<1> HIDE DEF Good
<1>3. 0 \in All /\ \A m \in 1..Len(Chosen) : m - 1 \in All => m \in All
  <2>1. Len(Chosen) \in Nat
    BY ListsHold
  <2> QED BY <1>1, <1>2, <2>1
<1>4. \A m \in 0..Len(Chosen) : m \in All
  <2> HIDE DEF All
  <2> QED BY ONLY <1>3, ListsHold, CountingUp
<1> TAKE n \in 1..Len(Chosen)
<1>5. Good(n)
  BY <1>4, ListsHold
<1>6. PICK g \in [1..n -> Seq(Pairs)] : \A i \in 1..n : g[i] = IF i = 1 THEN Lists[i] ELSE g[i - 1] \o Lists[i]
  BY <1>5 DEF Good
<1>7. Joined(g, n)
  BY <1>6 DEF Joined
<1> QED BY <1>7

(* The plan holds pairs, none twice. *)
LEMMA PlanIsList ==
  /\ Plan \in Seq(Pairs) /\ Len(Plan) \in Nat /\ Planned = 1..Len(Plan)
  /\ \A c, d \in Planned : Plan[c] = Plan[d] => c = d
<1> DEFINE n == Len(Chosen)
<1>1. /\ n \in Nat /\ DOMAIN Lists = 1..n /\ Lists \in Seq(Seq(Pairs)) /\ Len(Lists) = n
      /\ \A m \in 1..n : /\ Lists[m] \in Seq(Pairs)
                         /\ \A i \in DOMAIN Lists[m] : Lists[m][i][1] = m
                         /\ \A i, j \in DOMAIN Lists[m] : Lists[m][i] = Lists[m][j] => i = j
  BY ListsHold
<1>2. Plan = FlattenSeq(Lists)
  BY DEF Plan, Lists
<1> DEFINE Fine(x, m) == /\ x \in Seq(Pairs) /\ \A i \in DOMAIN x : x[i][1] <= m
                         /\ \A i, j \in DOMAIN x : x[i] = x[j] => i = j
<1>3. Fine(Plan, n)
  <2>1. CASE n = 0
    <3>1. Plan = Lists /\ DOMAIN Lists = {}
      BY <1>1, <1>2, <2>1 DEF FlattenSeq
    <3>2. Lists = << >>
      BY <3>1, <1>1, <2>1
    <3> QED BY <3>1, <3>2
  <2>2. CASE n # 0
    <3>1. PICK f : Joined(f, n) /\ Plan = f[n]
      <4>1. \E g : Joined(g, n)
        BY <1>1, <2>2, JoinedExists
      <4>2. Plan = (CHOOSE g : Joined(g, n))[n]
        BY <1>1, <1>2, <2>2 DEF FlattenSeq, Joined
      <4> QED BY <4>1, <4>2
    <3> DEFINE All == {m \in 0..n : m = 0 \/ Fine(f[m], m)}
    <3>2. \A i \in 1..n : f[i] = IF i = 1 THEN Lists[i] ELSE f[i - 1] \o Lists[i]
      BY <3>1 DEF Joined
    <3>3. ASSUME NEW m \in 1..n, m = 1 \/ Fine(f[m - 1], m - 1) PROVE Fine(f[m], m)
      <4>1. m \in Nat /\ Fine(Lists[m], m)
        BY <1>1
      <4>2. CASE m = 1
        BY <4>1, <4>2, <3>2
      <4>3. CASE m # 1
        <5> DEFINE x == f[m - 1]
                   y == Lists[m]
        <5>1. f[m] = x \o y
          BY <3>2, <4>3
        <5>2. Fine(x, m - 1) /\ y \in Seq(Pairs)
          BY <3>3, <4>3, <1>1
        <5>3. /\ \A i \in DOMAIN y : y[i][1] = m
              /\ \A i, j \in DOMAIN y : y[i] = y[j] => i = j
          BY <1>1
        <5> HIDE DEF x, y
        <5>4. /\ Len(x) \in Nat /\ Len(y) \in Nat /\ DOMAIN x = 1..Len(x) /\ DOMAIN y = 1..Len(y)
              /\ (x \o y) \in Seq(Pairs) /\ DOMAIN (x \o y) = 1..Len(x) + Len(y)
              /\ \A i \in 1..Len(x) + Len(y) : (x \o y)[i] = IF i <= Len(x) THEN x[i] ELSE y[i - Len(x)]
          BY <5>2
        <5>5. \A i \in 1..Len(x) : x[i] \in Pairs /\ x[i][1] \in Nat /\ x[i][1] <= m - 1
          <6> TAKE i \in 1..Len(x)
          <6>1. x[i] \in Pairs
            BY <5>2, <5>4
          <6>2. x[i][1] \in Nat
            BY <6>1 DEF Pairs
          <6>3. x[i][1] <= m - 1
            BY <5>2, <5>4
          <6> QED BY <6>1, <6>2, <6>3
        <5>6. \A i \in 1..Len(x) + Len(y) : (x \o y)[i][1] <= m
          <6> TAKE i \in 1..Len(x) + Len(y)
          <6>1. CASE i <= Len(x)
            BY <6>1, <5>4, <5>5, <4>1
          <6>2. CASE ~ (i <= Len(x))
            <7>1. i - Len(x) \in DOMAIN y
              BY <6>2, <5>4
            <7> QED BY <7>1, <6>2, <5>3, <5>4, <4>1
          <6> QED BY <6>1, <6>2
        <5>7. ASSUME NEW i \in 1..Len(x) + Len(y), NEW j \in 1..Len(x) + Len(y), (x \o y)[i] = (x \o y)[j]
              PROVE  i = j
          <6>1. CASE i <= Len(x) /\ j <= Len(x)
            <7>1. i \in DOMAIN x /\ j \in DOMAIN x /\ x[i] = x[j]
              BY <5>4, <5>7, <6>1
            <7> QED BY <7>1, <5>2
          <6>2. CASE i > Len(x) /\ j > Len(x)
            <7>1. i - Len(x) \in DOMAIN y /\ j - Len(x) \in DOMAIN y /\ y[i - Len(x)] = y[j - Len(x)]
              BY <5>4, <5>7, <6>2
            <7>2. i - Len(x) = j - Len(x)
              BY <7>1, <5>3
            <7> QED BY <7>2, <5>4
          <6>3. CASE i <= Len(x) /\ j > Len(x)
            <7>1. i \in 1..Len(x) /\ j - Len(x) \in DOMAIN y /\ x[i] = y[j - Len(x)]
              BY <5>4, <5>7, <6>3
            <7> QED BY <7>1, <5>3, <5>5, <4>1
          <6>4. CASE j <= Len(x) /\ i > Len(x)
            <7>1. j \in 1..Len(x) /\ i - Len(x) \in DOMAIN y /\ x[j] = y[i - Len(x)]
              BY <5>4, <5>7, <6>4
            <7> QED BY <7>1, <5>3, <5>5, <4>1
          <6> QED BY <6>1, <6>2, <6>3, <6>4, <5>4
        <5> QED BY <5>1, <5>4, <5>6, <5>7
      <4> QED BY <4>2, <4>3
    <3> HIDE DEF Fine
    <3>4. 0 \in All /\ \A m \in 1..n : m - 1 \in All => m \in All
      BY <1>1, <3>3
    <3>5. \A m \in 0..n : m \in All
      <4> HIDE DEF All, n
      <4> QED BY ONLY <3>4, <1>1, CountingUp
    <3>6. n \in All
      BY <3>5, <1>1
    <3> QED BY <3>6, <2>2, <3>1
  <2> QED BY <2>1, <2>2
<1>4. Plan \in Seq(Pairs) /\ \A i, j \in DOMAIN Plan : Plan[i] = Plan[j] => i = j
  BY <1>3
<1> QED BY <1>4 DEF Planned

(* A row of the log. *)
Row == [call : Planned, grade : Grades, under : Identities]

(* The order of the rows' keys. *)
KeyOrder(rows) == {ij \in (DOMAIN rows) \X (DOMAIN rows) : Before(rows[ij[1]], rows[ij[2]])}

(* Rows of different calls have different keys. *)
LEMMA KeysOrder ==
  ASSUME NEW rows \in Seq(Row), \A i, j \in DOMAIN rows : rows[i].call = rows[j].call => i = j
  PROVE  Orders(KeyOrder(rows), DOMAIN rows)
<1> DEFINE D == DOMAIN rows
           keyOf == [i \in D |-> Plan[rows[i].call]]
<1>1. \A i \in D : rows[i].call \in Planned
  <2> TAKE i \in D
  <2>1. rows[i] \in Row
    OBVIOUS
  <2> QED BY ONLY <2>1 DEF Row
<1>2. \A c \in Planned : Plan[c] \in Pairs
  BY PlanIsList
<1>3. \A i \in D : keyOf[i] \in Pairs /\ keyOf[i][1] \in Nat /\ keyOf[i][2] \in Nat /\ keyOf[i] = <<keyOf[i][1], keyOf[i][2]>>
  <2> TAKE i \in D
  <2>1. keyOf[i] \in Pairs
    BY <1>1, <1>2
  <2> HIDE DEF keyOf
  <2> QED BY <2>1 DEF Pairs
<1>4. \A i, j \in D : keyOf[i] = keyOf[j] => i = j
  <2> TAKE i, j \in D
  <2> HAVE keyOf[i] = keyOf[j]
  <2>1. rows[i].call = rows[j].call
    BY <1>1, PlanIsList
  <2> QED BY <2>1
<1>5. \A i, j \in D : Before(rows[i], rows[j]) <=>
        keyOf[i][1] < keyOf[j][1] \/ (keyOf[i][1] = keyOf[j][1] /\ keyOf[i][2] < keyOf[j][2])
  BY DEF Before
<1> HIDE DEF keyOf
<1>6. \A i, j \in D : <<i, j>> \in KeyOrder(rows) <=> Before(rows[i], rows[j])
  BY DEF KeyOrder
<1>7. \A i \in D : ~ Before(rows[i], rows[i])
  BY <1>3, <1>5
<1>8. \A i, j \in D : i # j => Before(rows[i], rows[j]) \/ Before(rows[j], rows[i])
  <2> TAKE i, j \in D
  <2> HAVE i # j
  <2>1. keyOf[i] # keyOf[j]
    BY <1>4
  <2>2. keyOf[i][1] # keyOf[j][1] \/ keyOf[i][2] # keyOf[j][2]
    BY <2>1, <1>3
  <2> QED BY <2>2, <1>3, <1>5
<1>9. \A i, j, k \in D : Before(rows[i], rows[j]) /\ Before(rows[j], rows[k]) => Before(rows[i], rows[k])
  BY <1>3, <1>5
<1> QED BY <1>6, <1>7, <1>8, <1>9 DEF Orders

(* So a row's place is how many keys come before its own. *)
LEMMA PlaceOfKey ==
  ASSUME NEW rows \in Seq(Row), Orders(KeyOrder(rows), DOMAIN rows), NEW j \in DOMAIN rows
  PROVE  Place(rows, j) = Cardinality(Below(DOMAIN rows, KeyOrder(rows), j)) + 1
<1>1. \A i \in DOMAIN rows : Ahead(rows, i, j) <=> <<i, j>> \in KeyOrder(rows)
  <2> TAKE i \in DOMAIN rows
  <2>1. i \in Nat /\ j \in Nat
    OBVIOUS
  <2>2. /\ <<i, j>> \in KeyOrder(rows) <=> Before(rows[i], rows[j])
        /\ <<j, i>> \in KeyOrder(rows) <=> Before(rows[j], rows[i])
    BY DEF KeyOrder
  <2> QED BY <2>1, <2>2 DEF Ahead, Orders
<1>2. {i \in DOMAIN rows : Ahead(rows, i, j)} = Below(DOMAIN rows, KeyOrder(rows), j)
  BY <1>1 DEF Below
<1> QED BY <1>2 DEF Place

(* Rows put into another order are sorted into the same one. *)
LEMMA SortedAlike ==
  ASSUME NEW rows \in Seq(Row), \A i, j \in DOMAIN rows : rows[i].call = rows[j].call => i = j,
         NEW p \in [DOMAIN rows -> DOMAIN rows], \A i, j \in DOMAIN rows : p[i] = p[j] => i = j,
         NEW other, other = [i \in DOMAIN rows |-> rows[p[i]]]
  PROVE  /\ other \in Seq(Row) /\ Len(other) = Len(rows) /\ DOMAIN other = DOMAIN rows
         /\ InOrderOf(other) = InOrderOf(rows)
         /\ \A i \in DOMAIN rows : \E j \in DOMAIN rows : p[j] = i
<1> DEFINE D == DOMAIN rows
<1>1. /\ D = 1..Len(rows) /\ Len(rows) \in Nat /\ (\A i \in D : rows[i] \in Row /\ p[i] \in D)
  OBVIOUS
<1>2. other \in Seq(Row) /\ Len(other) = Len(rows) /\ DOMAIN other = D
  <2>1. other \in [1..Len(rows) -> Row]
    BY <1>1
  <2> QED BY <2>1, <1>1
<1>3. \A i \in D : other[i] = rows[p[i]]
  OBVIOUS
<1>4. \A i, j \in DOMAIN other : other[i].call = other[j].call => i = j
  BY <1>1, <1>2, <1>3
<1>5. Orders(KeyOrder(rows), D) /\ Orders(KeyOrder(other), D)
  BY <1>2, <1>4, KeysOrder
<1>6. IsFiniteSet(D) /\ Cardinality(D) \in Nat
  <2>1. 1 \in Int /\ Len(rows) \in Int
    BY <1>1
  <2>2. IsFiniteSet(1..Len(rows))
    BY ONLY <2>1, FS_Interval
  <2>3. IsFiniteSet(D)
    BY <2>2, <1>1
  <2> QED BY ONLY <2>3, FS_CardinalityType
<1>7. \A i \in D : \E j \in D : p[j] = i
  <2>1. p \in [D -> D] /\ \A i, j \in D : p[i] = p[j] => i = j
    OBVIOUS
  <2>2. p \in Injection(D, D)
    BY ONLY <2>1, Fun_IsInj
  <2>3. p \in Surjection(D, D)
    BY ONLY <2>2, <1>6, FS_Injection
  <2> QED BY ONLY <2>3, Fun_SurjectionProperties
<1> DEFINE place == [j \in D |-> Cardinality(Below(D, KeyOrder(rows), j)) + 1]
<1>8. \A j \in D : Place(rows, j) = place[j]
  BY <1>5, PlaceOfKey
<1>9. \A j \in D : Place(other, j) = place[p[j]]
  <2> TAKE j \in D
  <2>1. Place(other, j) = Cardinality(Below(D, KeyOrder(other), j)) + 1
    BY <1>2, <1>5, PlaceOfKey
  <2> DEFINE A == Below(D, KeyOrder(other), j)
             B == Below(D, KeyOrder(rows), p[j])
             q == [i \in A |-> p[i]]
  <2>2. \A i \in D : i \in A <=> p[i] \in B
    BY <1>1, <1>2, <1>3 DEF Below, KeyOrder
  <2>3. A \in SUBSET D /\ B \in SUBSET D
    BY DEF Below
  <2> HIDE DEF A, B
  <2>4. q \in [A -> B] /\ \A a, b \in A : q[a] = q[b] => a = b
    BY <2>2, <2>3
  <2>5. \A b \in B : \E a \in A : q[a] = b
    <3> TAKE b \in B
    <3>1. PICK a \in D : p[a] = b
      BY <1>7, <2>3
    <3>2. a \in A
      BY <3>1, <2>2
    <3> QED BY <3>1, <3>2
  <2> HIDE DEF q
  <2>6. q \in Bijection(A, B)
    BY ONLY <2>4, <2>5, Fun_IsBij
  <2>7. ExistsBijection(A, B)
    BY ONLY <2>6, Fun_ExistsBij
  <2>8. IsFiniteSet(A)
    BY ONLY <2>3, <1>6, FS_Subset
  <2>9. Cardinality(B) = Cardinality(A)
    BY ONLY <2>7, <2>8, FS_Bijection
  <2>10. Cardinality(Below(D, KeyOrder(other), j)) = Cardinality(Below(D, KeyOrder(rows), p[j]))
    BY <2>9 DEF A, B
  <2>11. p[j] \in D
    BY <1>1
  <2> QED BY <2>1, <2>10, <2>11
<1>10. /\ \A i, j \in D : place[i] = place[j] => i = j
       /\ \A k \in D : \E j \in D : place[j] = k
  <2> DEFINE card == [j \in D |-> Cardinality(Below(D, KeyOrder(rows), j))]
  <2>1. /\ \A j \in D : card[j] + 1 \in 1..Cardinality(D)
        /\ \A i, j \in D : card[i] = card[j] => i = j
        /\ \A k \in 1..Cardinality(D) : \E j \in D : card[j] + 1 = k
    BY <1>5, <1>6, PlacesAreOwn
  <2>2. Cardinality(D) = Len(rows)
    <3>1. 1 \in Int /\ Len(rows) \in Int
      BY <1>1
    <3>2. Cardinality(1..Len(rows)) = IF 1 > Len(rows) THEN 0 ELSE Len(rows) - 1 + 1
      BY ONLY <3>1, FS_Interval
    <3> QED BY <3>2, <1>1
  <2>3. \A j \in D : place[j] = card[j] + 1 /\ card[j] \in Int
    <3> TAKE j \in D
    <3>1. IsFiniteSet(Below(D, KeyOrder(rows), j))
      <4>1. Below(D, KeyOrder(rows), j) \in SUBSET D
        BY DEF Below
      <4> QED BY ONLY <4>1, <1>6, FS_Subset
    <3>2. Cardinality(Below(D, KeyOrder(rows), j)) \in Nat
      BY ONLY <3>1, FS_CardinalityType
    <3> QED BY <3>2
  <2> HIDE DEF card, place
  <2>4. \A i, j \in D : place[i] = place[j] => i = j
    <3> TAKE i, j \in D
    <3> HAVE place[i] = place[j]
    <3>1. card[i] + 1 = card[j] + 1 /\ card[i] \in Int /\ card[j] \in Int
      BY <2>3
    <3>2. card[i] = card[j]
      BY ONLY <3>1
    <3> QED BY <3>2, <2>1
  <2>5. \A k \in D : \E j \in D : place[j] = k
    <3> TAKE k \in D
    <3>1. k \in 1..Cardinality(D)
      BY <1>1, <2>2
    <3>2. PICK j \in D : card[j] + 1 = k
      BY <2>1, <3>1
    <3> QED BY <3>2, <2>3
  <2> QED BY <2>4, <2>5
<1> HIDE DEF place
<1>11. ASSUME NEW k \in D PROVE InOrderOf(other)[k] = InOrderOf(rows)[k]
  <2> DEFINE Here(j) == j \in D /\ Place(rows, j) = k
             There(j) == j \in D /\ Place(other, j) = k
             here == CHOOSE j \in D : Place(rows, j) = k
             there == CHOOSE j \in D : Place(other, j) = k
  <2>1. here \in D /\ place[here] = k
    <3>1. \E j \in D : Place(rows, j) = k
      BY <1>8, <1>10
    <3> QED BY <3>1, <1>8
  <2>2. there \in D /\ place[p[there]] = k
    <3>1. PICK i \in D : place[i] = k
      BY <1>10
    <3>2. PICK j \in D : p[j] = i
      BY <1>7
    <3>3. \E m \in D : Place(other, m) = k
      BY <3>1, <3>2, <1>9
    <3> QED BY <3>3, <1>9
  <2>3. InOrderOf(rows)[k] = rows[here] /\ InOrderOf(other)[k] = other[there]
    BY <1>2 DEF InOrderOf
  <2> HIDE DEF here, there
  <2>4. p[there] = here
    <3>1. p[there] \in D
      BY <2>2, <1>1
    <3>2. place[p[there]] = place[here]
      BY <2>1, <2>2
    <3> QED BY ONLY <3>1, <3>2, <2>1, <1>10
  <2> QED BY <2>2, <2>3, <2>4, <1>3
<1>12. InOrderOf(other) = InOrderOf(rows)
  <2>1. /\ InOrderOf(rows) = [k \in D |-> InOrderOf(rows)[k]]
        /\ InOrderOf(other) = [k \in D |-> InOrderOf(other)[k]]
    BY <1>2 DEF InOrderOf
  <2> QED BY <2>1, <1>11
<1> QED BY <1>2, <1>7, <1>12

(* The frame of a log in which no call is twice does not depend on its order. *)
LEMMA FrameOfTheRows == recorded \in Seq(Row) /\ LoggedOnce => FrameReproducible
<1> SUFFICES ASSUME recorded \in Seq(Row), LoggedOnce,
                    NEW p \in [DOMAIN recorded -> DOMAIN recorded], IsInjective(p)
             PROVE  BuildFrame([i \in DOMAIN recorded |-> recorded[p[i]]]) = BuildFrame(recorded)
  BY DEF FrameReproducible
<1> DEFINE other == [i \in DOMAIN recorded |-> recorded[p[i]]]
<1>1. \A i, j \in DOMAIN recorded : p[i] = p[j] => i = j
  BY DEF IsInjective
<1>2. /\ Len(other) = Len(recorded) /\ DOMAIN other = DOMAIN recorded /\ other \in Seq(Row)
      /\ InOrderOf(other) = InOrderOf(recorded)
      /\ \A i \in DOMAIN recorded : \E j \in DOMAIN recorded : p[j] = i
  BY <1>1, SortedAlike DEF LoggedOnce
<1>3. \A i \in DOMAIN recorded : other[i] = recorded[p[i]] /\ p[i] \in DOMAIN recorded
  OBVIOUS
<1> HIDE DEF other
<1>4. Batches(other) = Batches(recorded)
  BY <1>2 DEF Batches
<1>5. Foldable(other) <=> Foldable(recorded)
  <2>1. other = <<>> <=> recorded = <<>>
    BY <1>2
  <2>2. ASSUME \A i \in DOMAIN other : other[i].under = identity
        PROVE  \A i \in DOMAIN recorded : recorded[i].under = identity
    <3> TAKE i \in DOMAIN recorded
    <3>1. PICK j \in DOMAIN recorded : p[j] = i
      BY <1>2
    <3>2. j \in DOMAIN other /\ other[j] = recorded[i]
      BY <1>2, <1>3, <3>1
    <3>3. other[j].under = identity
      BY <2>2, <3>2
    <3> QED BY <3>2, <3>3
  <2>3. ASSUME \A i \in DOMAIN recorded : recorded[i].under = identity
        PROVE  \A i \in DOMAIN other : other[i].under = identity
    <3> TAKE i \in DOMAIN other
    <3>1. i \in DOMAIN recorded
      BY <1>2
    <3>2. other[i] = recorded[p[i]] /\ p[i] \in DOMAIN recorded
      BY <1>3, <3>1
    <3> QED BY <2>3, <3>2
  <2> QED BY <2>1, <2>2, <2>3 DEF Foldable
<1>6. BuildFrame(other) = BuildFrame(recorded)
  BY <1>4, <1>5 DEF BuildFrame
<1> QED BY <1>6 DEF other

(* What is still to come has no row. *)
NotYetLogged == \A c \in Planned : state[c] \in Waiting => c \notin Logged

(* The calls that may still be charged are those without a record when the
   last one was let through. *)
OpenIsExposed == \A c \in Planned : state[c] = "calling" \/ c \in gaveUp => c \in paid \cup exposed

(* The invariant. *)
CallLogInv ==
  /\ CallLogTypeOK /\ NotYetLogged /\ OpenIsExposed
  /\ LoggedOnce /\ PaidIsLogged /\ WithinBudget

(* No calls cost nothing. *)
LEMMA CentsOfNothing == Cents({}) = 0
<1> DEFINE f == [c \in Planned |-> IF c \in {} THEN Price[c] ELSE 0]
<1>1. Len(Plan) \in Nat /\ Planned = 1..Len(Plan)
  BY PlanIsList
<1>2. f \in [1..Len(Plan) -> Int] /\ \A n \in 1..Len(Plan) : f[n] = 0
  BY <1>1
<1> HIDE DEF f
<1>3. SumTo(f, Len(Plan)) = 0
  BY ONLY <1>1, <1>2, SumOfZeros
<1> QED BY <1>3 DEF Cents, f

(* The plan is finite. *)
LEMMA PlannedIsFinite == IsFiniteSet(Planned)
<1>1. 1 \in Int /\ Len(Plan) \in Int
  BY PlanIsList
<1>2. IsFiniteSet(1..Len(Plan))
  BY ONLY <1>1, FS_Interval
<1> QED BY <1>2, PlanIsList

(* What the constants are. *)
LEMMA Bounds == /\ MaxUsd \in Nat \ {0} /\ Threads \in Nat \ {0} /\ MaxLogRuns \in Nat
  BY CallLogAssumption

(* No call is exposed, and none charged, in a run that begins or died. *)
LEMMA NothingCharged == Cents({} \ {}) < MaxUsd /\ Cardinality({} \ {}) <= Threads
<1>1. {} \ {} = {}
  OBVIOUS
<1>2. Cents({}) = 0 /\ Cardinality({}) = 0
  BY CentsOfNothing, FS_EmptySet
<1> QED BY <1>1, <1>2, Bounds

(* Nothing is logged. *)
LEMMA CallLogInitially == CallLogInit => CallLogInv
<1> SUFFICES ASSUME CallLogInit PROVE CallLogInv
  OBVIOUS
<1>1. /\ recorded = <<>> /\ torn = FALSE /\ runs = 0 /\ live = FALSE
      /\ state = [c \in Planned |-> "absent"]
      /\ paid = {} /\ gaveUp = {} /\ stop = FALSE /\ exposed = {} /\ identity \in Identities
  BY DEF CallLogInit
<1>2. CallLogTypeOK
  <2>1. runs \in 0..MaxLogRuns
    BY <1>1, Bounds
  <2>2. recorded \in Seq([call : Planned, grade : Grades, under : Identities])
    BY <1>1
  <2>3. state \in [Planned -> Waiting \cup {"absent", "consumed"}]
    BY <1>1
  <2> QED BY <1>1, <2>1, <2>2, <2>3 DEF CallLogTypeOK
<1>3. NotYetLogged /\ OpenIsExposed /\ LoggedOnce /\ PaidIsLogged
  BY <1>1 DEF NotYetLogged, OpenIsExposed, LoggedOnce, PaidIsLogged, Waiting
<1>4. WithinBudget
  BY <1>1, NothingCharged DEF WithinBudget
<1> QED BY <1>2, <1>3, <1>4 DEF CallLogInv

-----------------------------------------------------------------------------
(* A run reads the log of those before it. *)
LEMMA BeginRecordingStep == ASSUME CallLogInv, BeginRecording PROVE CallLogInv'
<1>1. /\ runs < MaxLogRuns /\ live' = TRUE /\ runs' = runs + 1
      /\ state' = [c \in Planned |-> IF c \in AlreadyRecorded THEN "absent" ELSE "queued"]
      /\ paid' = {} /\ gaveUp' = {} /\ stop' = FALSE /\ exposed' = {}
      /\ UNCHANGED <<recorded, torn, identity>>
  BY DEF BeginRecording
<1>2. CallLogTypeOK /\ LoggedOnce
  BY DEF CallLogInv
<1>3. CallLogTypeOK'
  <2>1. runs' \in 0..MaxLogRuns
    BY <1>1, <1>2, Bounds DEF CallLogTypeOK
  <2>2. state' \in [Planned -> Waiting \cup {"absent", "consumed"}]
    BY <1>1 DEF Waiting
  <2> QED BY <1>1, <1>2, <2>1, <2>2 DEF CallLogTypeOK
<1>4. NotYetLogged'
  BY <1>1 DEF NotYetLogged, Waiting, AlreadyRecorded, Logged
<1>5. OpenIsExposed' /\ LoggedOnce' /\ PaidIsLogged'
  BY <1>1, <1>2 DEF OpenIsExposed, LoggedOnce, PaidIsLogged
<1>6. WithinBudget'
  BY <1>1, NothingCharged DEF WithinBudget, Cents
<1> QED BY <1>3, <1>4, <1>5, <1>6 DEF CallLogInv

(* The process dies. *)
LEMMA DieStep == ASSUME CallLogInv, Die PROVE CallLogInv'
<1>1. /\ live' = FALSE /\ torn' \in {FALSE, \E c \in Planned : Foremost(c) /\ state[c] = "row"}
      /\ state' = [c \in Planned |-> "absent"]
      /\ paid' = {} /\ gaveUp' = {} /\ stop' = FALSE /\ exposed' = {}
      /\ UNCHANGED <<recorded, runs, identity>>
  BY DEF Die
<1>2. CallLogTypeOK /\ LoggedOnce
  BY DEF CallLogInv
<1>3. CallLogTypeOK'
  <2>1. state' \in [Planned -> Waiting \cup {"absent", "consumed"}]
    BY <1>1 DEF Waiting
  <2>2. torn' \in BOOLEAN
    BY <1>1
  <2> QED BY <1>1, <1>2, <2>1, <2>2 DEF CallLogTypeOK
<1>4. NotYetLogged' /\ OpenIsExposed' /\ LoggedOnce' /\ PaidIsLogged'
  BY <1>1, <1>2 DEF NotYetLogged, OpenIsExposed, LoggedOnce, PaidIsLogged, Waiting
<1>6. WithinBudget'
  BY <1>1, NothingCharged DEF WithinBudget, Cents
<1> QED BY <1>3, <1>4, <1>6 DEF CallLogInv

(* The calls let through and this one are those without a record: what is
   charged was under the budget, and each is in the hands of a thread. *)
LEMMA LetThroughStep == ASSUME CallLogInv, NEW c \in Planned, LetThrough(c) PROVE CallLogInv'
<1>1. /\ state[c] = "queued" /\ Cardinality(InHand(c)) <= Threads /\ Cents(paid) < MaxUsd
      /\ state' = [state EXCEPT ![c] = "calling"]
      /\ exposed' = (In({"calling"}) \cup gaveUp \cup {c}) \ paid
      /\ UNCHANGED <<recorded, torn, runs, live, paid, gaveUp, stop, identity>>
  BY DEF LetThrough, AtGate, BudgetLeft
<1>2. /\ CallLogTypeOK /\ NotYetLogged /\ OpenIsExposed /\ LoggedOnce /\ PaidIsLogged
  BY DEF CallLogInv
<1>3. In({"calling"}) \subseteq Planned
  BY DEF In
<1>4. CallLogTypeOK'
  <2>1. state' \in [Planned -> Waiting \cup {"absent", "consumed"}]
    BY <1>1, <1>2 DEF CallLogTypeOK, Waiting
  <2>2. paid' \cup gaveUp' \cup exposed' \subseteq Planned
    BY <1>1, <1>2, <1>3 DEF CallLogTypeOK
  <2> QED BY <1>1, <1>2, <2>1, <2>2 DEF CallLogTypeOK
<1>5. \A d \in Planned : d # c => state'[d] = state[d]
  BY <1>1, <1>2 DEF CallLogTypeOK
<1>6. state'[c] = "calling"
  BY <1>1, <1>2 DEF CallLogTypeOK
<1>7. NotYetLogged'
  BY <1>1, <1>2, <1>5 DEF NotYetLogged, Waiting, Logged
<1>8. OpenIsExposed'
  BY <1>1, <1>5 DEF OpenIsExposed, In
<1>9. LoggedOnce'
  BY <1>1, <1>2 DEF LoggedOnce
<1>10. PaidIsLogged'
  <2> SUFFICES ASSUME NEW d \in paid PROVE d \in Logged' \cup gaveUp' \/ state'[d] \in {"calling", "row"}
    BY <1>1 DEF PaidIsLogged
  <2>1. d \in Planned /\ (d \in Logged \cup gaveUp \/ state[d] \in {"calling", "row"})
    BY <1>2 DEF PaidIsLogged, CallLogTypeOK
  <2> QED BY <2>1, <1>1, <1>5, <1>6 DEF Logged
<1>11. WithinBudget'
  <2>1. paid' \ exposed' = paid
    BY <1>1
  <2>2. exposed' \ gaveUp' \in SUBSET InHand(c)
    BY <1>1, <1>3, PlanIsList DEF InHand, In
  <2>3. InHand(c) \in SUBSET Planned
    BY DEF InHand, In
  <2>4. IsFiniteSet(InHand(c))
    BY ONLY <2>3, PlannedIsFinite, FS_Subset
  <2>5. /\ Cardinality(exposed' \ gaveUp') <= Cardinality(InHand(c))
        /\ IsFiniteSet(exposed' \ gaveUp')
    BY ONLY <2>2, <2>4, FS_Subset
  <2>6. Cardinality(exposed' \ gaveUp') \in Nat /\ Cardinality(InHand(c)) \in Nat
    BY ONLY <2>4, <2>5, FS_CardinalityType
  <2>7. Cardinality(exposed' \ gaveUp') <= Threads
    BY ONLY <2>5, <2>6, <1>1, Bounds
  <2>8. Cents(paid)' = Cents(paid)
    BY <1>1 DEF Cents
  <2>9. Cents(paid \ exposed)' = Cents(paid)
    BY <1>1, <2>1 DEF Cents
  <2> QED BY <2>7, <2>9, <1>1 DEF WithinBudget
<1> QED BY <1>4, <1>7, <1>8, <1>9, <1>10, <1>11 DEF CallLogInv

(* A call charged is one of those exposed. *)
LEMMA ChargeStep == ASSUME CallLogInv, NEW c \in Planned, Charge(c) PROVE CallLogInv'
<1>1. /\ state[c] = "calling" \/ c \in gaveUp
      /\ c \notin paid /\ paid' = paid \cup {c}
      /\ UNCHANGED <<recorded, torn, runs, live, state, gaveUp, stop, exposed, identity>>
  BY DEF Charge
<1>2. /\ CallLogTypeOK /\ NotYetLogged /\ OpenIsExposed /\ LoggedOnce /\ PaidIsLogged /\ WithinBudget
  BY DEF CallLogInv
<1>3. CallLogTypeOK'
  BY <1>1, <1>2 DEF CallLogTypeOK
<1>4. NotYetLogged' /\ OpenIsExposed' /\ LoggedOnce'
  BY <1>1, <1>2 DEF NotYetLogged, OpenIsExposed, LoggedOnce, Logged
<1>5. PaidIsLogged'
  BY <1>1, <1>2 DEF PaidIsLogged, Logged
<1>6. WithinBudget'
  <2>1. c \in exposed
    BY <1>1, <1>2 DEF OpenIsExposed
  <2>2. paid' \ exposed' = paid \ exposed
    BY <1>1, <2>1
  <2>3. Cents(paid \ exposed)' = Cents(paid \ exposed)
    BY <2>2 DEF Cents
  <2> QED BY <1>1, <1>2, <2>3 DEF WithinBudget
<1> QED BY <1>3, <1>4, <1>5, <1>6 DEF CallLogInv

(* A call that moves on, none having been charged or let through. *)
LEMMA MovesOn ==
  ASSUME CallLogInv, NEW c \in Planned, NEW s \in Waiting \cup {"absent", "consumed"},
         state' = [state EXCEPT ![c] = s], s \in Waiting => state[c] \in Waiting, s # "calling",
         UNCHANGED <<recorded, torn, runs, live, paid, exposed, identity>>,
         stop' \in BOOLEAN, gaveUp' = gaveUp \/ (state[c] = "calling" /\ gaveUp' = gaveUp \cup {c}),
         c \in paid /\ state[c] \in {"calling", "row"} => s \in {"calling", "row"} \/ c \in gaveUp'
  PROVE  CallLogInv'
<1>2. /\ CallLogTypeOK /\ NotYetLogged /\ OpenIsExposed /\ LoggedOnce /\ PaidIsLogged /\ WithinBudget
  BY DEF CallLogInv
<1>3. CallLogTypeOK'
  <2>1. state' \in [Planned -> Waiting \cup {"absent", "consumed"}]
    BY <1>2 DEF CallLogTypeOK
  <2>2. {torn', live', stop'} \subseteq BOOLEAN
    BY <1>2 DEF CallLogTypeOK
  <2> QED BY <1>2, <2>1, <2>2 DEF CallLogTypeOK
<1>4. (\A d \in Planned : d # c => state'[d] = state[d]) /\ state'[c] = s
  BY <1>2 DEF CallLogTypeOK
<1>5. NotYetLogged'
  BY <1>2, <1>4 DEF NotYetLogged, Logged
<1>6. OpenIsExposed'
  BY <1>2, <1>4 DEF OpenIsExposed
<1>7. LoggedOnce'
  BY <1>2 DEF LoggedOnce
<1>8. PaidIsLogged'
  <2> SUFFICES ASSUME NEW d \in paid PROVE d \in Logged' \cup gaveUp' \/ state'[d] \in {"calling", "row"}
    BY DEF PaidIsLogged
  <2>1. d \in Planned /\ (d \in Logged \cup gaveUp \/ state[d] \in {"calling", "row"}) /\ Logged' = Logged
    BY <1>2 DEF PaidIsLogged, CallLogTypeOK, Logged
  <2>2. CASE d # c
    BY <2>1, <2>2, <1>4
  <2>3. CASE d = c
    BY <2>1, <2>3, <1>4
  <2> QED BY <2>2, <2>3
<1>9. WithinBudget'
  <2>1. exposed' \ gaveUp' \in SUBSET (exposed \ gaveUp)
    OBVIOUS
  <2>2. exposed \ gaveUp \in SUBSET Planned
    BY <1>2 DEF CallLogTypeOK
  <2>3. IsFiniteSet(exposed \ gaveUp)
    BY ONLY <2>2, PlannedIsFinite, FS_Subset
  <2>4. Cardinality(exposed' \ gaveUp') <= Cardinality(exposed \ gaveUp) /\ IsFiniteSet(exposed' \ gaveUp')
    BY ONLY <2>1, <2>3, FS_Subset
  <2>5. Cardinality(exposed' \ gaveUp') \in Nat /\ Cardinality(exposed \ gaveUp) \in Nat
    BY ONLY <2>3, <2>4, FS_CardinalityType
  <2>6. Cardinality(exposed \ gaveUp) <= Threads
    BY <1>2 DEF WithinBudget
  <2>7. Cardinality(exposed' \ gaveUp') <= Threads
    BY ONLY <2>4, <2>5, <2>6, Bounds
  <2>8. Cents(paid \ exposed)' = Cents(paid \ exposed)
    BY DEF Cents
  <2> QED BY <1>2, <2>7, <2>8 DEF WithinBudget
<1> QED BY <1>3, <1>5, <1>6, <1>7, <1>8, <1>9 DEF CallLogInv

(* The cap turns a call back. *)
LEMMA TurnBackStep == ASSUME CallLogInv, NEW c \in Planned, TurnBack(c) PROVE CallLogInv'
<1>1. /\ state[c] = "queued" /\ state' = [state EXCEPT ![c] = "refused"] /\ stop' = TRUE
      /\ UNCHANGED <<recorded, torn, runs, live, paid, gaveUp, exposed, identity>>
  BY DEF TurnBack, AtGate
<1>2. "refused" \in Waiting /\ state[c] \in Waiting
  BY <1>1 DEF Waiting
<1> QED BY <1>1, <1>2, MovesOn

(* A call is answered and its row written. *)
LEMMA CompleteStep == ASSUME CallLogInv, NEW c \in Planned, Complete(c) PROVE CallLogInv'
<1>1. /\ state[c] = "calling" /\ state' = [state EXCEPT ![c] = "row"]
      /\ UNCHANGED <<recorded, torn, runs, live, paid, gaveUp, stop, exposed, identity>>
  BY DEF Complete
<1>2. "row" \in Waiting /\ state[c] \in Waiting /\ stop' \in BOOLEAN
  BY <1>1 DEF Waiting, CallLogInv, CallLogTypeOK
<1> QED BY <1>1, <1>2, MovesOn

(* An answer without text. *)
LEMMA NoTextStep == ASSUME CallLogInv, NEW c \in Planned, NoText(c) PROVE CallLogInv'
<1>1. /\ state[c] = "calling" /\ state' = [state EXCEPT ![c] = "none"]
      /\ (c \notin paid /\ UNCHANGED gaveUp) \/ gaveUp' = gaveUp \cup {c}
      /\ UNCHANGED <<recorded, torn, runs, live, paid, stop, exposed, identity>>
  BY DEF NoText
<1>2. "none" \in Waiting /\ state[c] \in Waiting /\ stop' \in BOOLEAN
  BY <1>1 DEF Waiting, CallLogInv, CallLogTypeOK
<1> QED BY <1>1, <1>2, MovesOn

(* What is logged is not called again. *)
LEMMA SkipCallStep == ASSUME CallLogInv, NEW c \in Planned, SkipCall(c) PROVE CallLogInv'
<1>1. /\ state[c] \in {"none", "refused"} /\ state' = [state EXCEPT ![c] = "consumed"]
      /\ UNCHANGED <<recorded, torn, runs, live, paid, gaveUp, stop, exposed, identity>>
  BY DEF SkipCall
<1>2. "consumed" \notin Waiting /\ stop' \in BOOLEAN
  BY <1>1 DEF Waiting, CallLogInv, CallLogTypeOK
<1> QED BY <1>1, <1>2, MovesOn

(* A row is written of a call that had none. *)
LEMMA WriteRowStep == ASSUME CallLogInv, NEW c \in Planned, WriteRow(c) PROVE CallLogInv'
<1>1. PICK g \in Grades : recorded' = Append(recorded, [call |-> c, grade |-> g, under |-> identity])
  BY DEF WriteRow
<1>2. /\ state[c] = "row" /\ state' = [state EXCEPT ![c] = "consumed"]
      /\ UNCHANGED <<torn, runs, live, paid, gaveUp, stop, exposed, identity>>
  BY DEF WriteRow
<1>3. /\ CallLogTypeOK /\ NotYetLogged /\ OpenIsExposed /\ LoggedOnce /\ PaidIsLogged /\ WithinBudget
  BY DEF CallLogInv
<1> DEFINE row == [call |-> c, grade |-> g, under |-> identity]
           n == Len(recorded)
<1>4. row \in Row /\ recorded \in Seq(Row) /\ row.call = c
  BY <1>1, <1>3 DEF Row, CallLogTypeOK
<1> HIDE DEF row
<1>5. /\ recorded' \in Seq(Row) /\ n \in Nat /\ DOMAIN recorded = 1..n /\ DOMAIN recorded' = 1..n + 1
      /\ \A i \in 1..n : recorded'[i] = recorded[i]
      /\ recorded'[n + 1] = row
  BY <1>1, <1>4 DEF row
<1>6. Logged' = Logged \cup {c}
  <2>1. Logged' \subseteq Logged \cup {c}
    <3> SUFFICES ASSUME NEW i \in 1..n + 1 PROVE recorded'[i].call \in Logged \cup {c}
      BY <1>5 DEF Logged
    <3>1. CASE i \in 1..n
      BY <3>1, <1>5 DEF Logged
    <3>2. CASE i = n + 1
      BY <3>2, <1>4, <1>5
    <3> QED BY <3>1, <3>2, <1>5
  <2>2. Logged \cup {c} \subseteq Logged'
    <3>1. n + 1 \in 1..n + 1 /\ \A i \in 1..n : i \in 1..n + 1
      BY <1>5
    <3>2. c \in Logged'
      BY <3>1, <1>4, <1>5 DEF Logged
    <3>3. \A i \in 1..n : recorded[i].call \in Logged'
      BY <3>1, <1>5 DEF Logged
    <3>4. \A d \in Logged : \E i \in 1..n : d = recorded[i].call
      BY <1>5 DEF Logged
    <3> QED BY <3>2, <3>3, <3>4
  <2> QED BY <2>1, <2>2
<1>7. (\A d \in Planned : d # c => state'[d] = state[d]) /\ state'[c] = "consumed"
  BY <1>2, <1>3 DEF CallLogTypeOK
<1>8. CallLogTypeOK'
  <2>1. state' \in [Planned -> Waiting \cup {"absent", "consumed"}]
    BY <1>2, <1>3 DEF CallLogTypeOK
  <2> QED BY <1>2, <1>3, <1>5, <2>1 DEF CallLogTypeOK, Row
<1>9. NotYetLogged'
  BY <1>3, <1>6, <1>7 DEF NotYetLogged, Waiting
<1>10. OpenIsExposed'
  BY <1>2, <1>3, <1>7 DEF OpenIsExposed
<1>11. LoggedOnce'
  <2>1. c \notin Logged
    BY <1>2, <1>3 DEF NotYetLogged, Waiting
  <2>2. \A i \in 1..n : recorded[i].call # c
    BY <2>1, <1>5 DEF Logged
  <2> SUFFICES ASSUME NEW i \in 1..n + 1, NEW j \in 1..n + 1, recorded'[i].call = recorded'[j].call
               PROVE  i = j
    BY <1>5 DEF LoggedOnce
  <2>3. CASE i \in 1..n /\ j \in 1..n
    BY <2>3, <1>3, <1>5 DEF LoggedOnce
  <2>4. CASE i \in 1..n /\ j = n + 1
    BY <2>2, <2>4, <1>4, <1>5
  <2>5. CASE i = n + 1 /\ j \in 1..n
    BY <2>2, <2>5, <1>4, <1>5
  <2>6. CASE i = n + 1 /\ j = n + 1
    BY <2>6
  <2> QED BY <2>3, <2>4, <2>5, <2>6, <1>5
<1>12. PaidIsLogged'
  <2> SUFFICES ASSUME NEW d \in paid PROVE d \in Logged' \cup gaveUp' \/ state'[d] \in {"calling", "row"}
    BY <1>2 DEF PaidIsLogged
  <2>1. d \in Planned /\ (d \in Logged \cup gaveUp \/ state[d] \in {"calling", "row"})
    BY <1>3 DEF PaidIsLogged, CallLogTypeOK
  <2> QED BY <2>1, <1>2, <1>6, <1>7
<1>13. WithinBudget'
  BY <1>2, <1>3 DEF WithinBudget, Cents
<1> QED BY <1>8, <1>9, <1>10, <1>11, <1>12, <1>13 DEF CallLogInv

(* The end of a run, an upgrade, and a stutter. *)
LEMMA OtherSteps == ASSUME CallLogInv, EndRun \/ Upgrade \/ UNCHANGED callLogVars PROVE CallLogInv'
<1>1. /\ UNCHANGED <<recorded, torn, runs, state, paid, gaveUp, stop, exposed>>
      /\ live' \in BOOLEAN /\ identity' \in Identities
  BY DEF EndRun, Upgrade, callLogVars, CallLogInv, CallLogTypeOK
<1>2. /\ CallLogTypeOK /\ NotYetLogged /\ OpenIsExposed /\ LoggedOnce /\ PaidIsLogged /\ WithinBudget
  BY DEF CallLogInv
<1>3. CallLogTypeOK'
  BY <1>1, <1>2 DEF CallLogTypeOK
<1>4. NotYetLogged' /\ OpenIsExposed' /\ LoggedOnce'
  BY <1>1, <1>2 DEF NotYetLogged, OpenIsExposed, LoggedOnce, Logged
<1>5. PaidIsLogged' /\ WithinBudget'
  BY <1>1, <1>2 DEF PaidIsLogged, WithinBudget, Logged, Cents
<1> QED BY <1>3, <1>4, <1>5 DEF CallLogInv

(* Whatever is planned and priced, for any number of threads, runs and
   versions: a pair has one row, what was charged is logged or given up, the
   calls are charged within the budget but for one for each thread, and the
   frame does not depend on the order of the rows. *)
THEOREM CallLogAlwaysSafe == CallLogSpec => []CallLogSafety
<1>1. CallLogInit => CallLogInv
  BY CallLogInitially
<1>2. CallLogInv /\ [CallLogNext]_callLogVars => CallLogInv'
  <2> SUFFICES ASSUME CallLogInv, [CallLogNext]_callLogVars PROVE CallLogInv'
    OBVIOUS
  <2>1. CASE BeginRecording \/ Die
    BY <2>1, BeginRecordingStep, DieStep
  <2>2. CASE EndRun \/ Upgrade \/ UNCHANGED callLogVars
    BY <2>2, OtherSteps
  <2>3. ASSUME NEW c \in Planned, LetThrough(c) \/ TurnBack(c) \/ Charge(c)
        PROVE  CallLogInv'
    BY <2>3, LetThroughStep, TurnBackStep, ChargeStep
  <2>4. ASSUME NEW c \in Planned, Complete(c) \/ NoText(c) \/ WriteRow(c) \/ SkipCall(c)
        PROVE  CallLogInv'
    BY <2>4, CompleteStep, NoTextStep, WriteRowStep, SkipCallStep
  <2> QED BY <2>1, <2>2, <2>3, <2>4 DEF CallLogNext
<1>3. CallLogInv => CallLogSafety
  <2>1. CallLogTypeOK => recorded \in Seq(Row)
    BY DEF CallLogTypeOK, Row
  <2> QED BY <2>1, FrameOfTheRows DEF CallLogInv, CallLogSafety
<1> QED BY <1>1, <1>2, <1>3, PTL DEF CallLogSpec

=============================================================================
