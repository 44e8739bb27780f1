------------------------------- MODULE MCMiner -------------------------------
(***************************************************************************)
(* The miner's side, from the push of its head to the collection of its    *)
(* proof.  Provisioning ends before the main loop begins, and the loop     *)
(* sees a benchmark run only as one that ends or fails after any time: so  *)
(* the three are checked one at a time, while the others rest.             *)
(***************************************************************************)
EXTENDS Provision, Harness, MinerLoop

VARIABLE part  \* what is checked

(* A push with a head, and one without any field. *)
MCPayload == [o \in Operators |-> IF o = 1 THEN "full" ELSE "empty"]

(* The second question goes to a dear model, and the first is answered
   without usage. *)
MCCost == [c \in Calls |-> IF c = 2 THEN 30 ELSE c - 1]

(* Which head the miner begins with makes no difference. *)
MCInit ==
  /\ ProvisionInit /\ HarnessInit /\ LoopInit
  /\ part \in {"provision", "harness", "loop"}
  /\ miner.head = CHOOSE h \in HeadHashes : TRUE

MCVars == <<part, provisionVars, harnessVars, loopVars>>

Alone(p, others) == part = p /\ UNCHANGED <<part, others>>

ProvisionStep == Alone("provision", <<harnessVars, loopVars>>) /\ ProvisionNext
InTimeStep == Alone("harness", <<provisionVars, loopVars>>) /\ InTime
TooLateStep == Alone("harness", <<provisionVars, loopVars>>) /\ TooLate
LoopStep == Alone("loop", <<provisionVars, harnessVars>>) /\ LoopNext

MCNext == ProvisionStep \/ InTimeStep \/ TooLateStep \/ LoopStep

(* HarnessFairness and LoopFairness *)
MCSpec ==
  /\ MCInit /\ [][MCNext]_MCVars
  /\ WF_MCVars(InTimeStep)
  /\ WF_MCVars(Alone("loop", <<provisionVars, harnessVars>>) /\ AlreadyCommitted)
  /\ WF_MCVars(Alone("loop", <<provisionVars, harnessVars>>) /\ Commit)

(* CommitmentSticks, of the behaviours in which the loop runs *)
LoopCommitmentSticks == part = "loop" => CommitmentSticks

=============================================================================
