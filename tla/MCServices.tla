----------------------------- MODULE MCServices -----------------------------
(***************************************************************************)
(* The verify loop of the validator; the services beside the miner's loop: *)
(* its answers to queries and its log; the spending of the API; and the    *)
(* scripts that set up and watch the subnet and record calls.              *)
(* No two of these modules share a variable: so they are checked one at a  *)
(* time, while the others rest.  The watch reads the validators' weights   *)
(* and the miner's commitments, which have nothing to do with each other:  *)
(* it is checked with each.                                                *)
(***************************************************************************)
EXTENDS ProofVerification, SpendTracker, SubnetProvision, MinerServing,
        LogPull, SubnetWatch, CallLog

VARIABLE part  \* what is checked

(* The tokens each worker's worst answer may take. *)
MCWorst == [w \in Workers |-> w]

(* Three models; the first is asked a question that sorts last first. *)
MCChosen == <<<<2, 1>>, <<1>>, <<2>>>>
MCPrice == [c \in Planned |-> 2]

(* Responses differ only in what they are: every assignment of them, looked at
   in the order of their UIDs, stands for every order. *)
InOrder == \A u, v \in todo : u < v => v \in todo'

(* Those that rest are in one state. *)
MCInit ==
  /\ part \in {"verification", "spend", "subnet", "serving", "log", "watch", "commitments", "record"}
  /\ Init /\ (part # "verification" => responses = [u \in Uids |-> "absent"])
  /\ SpendInit
  /\ SubnetBlank
  /\ ServingBlank
  /\ LogInit
  /\ WatchInit
  /\ CallLogInit /\ (part # "record" => identity = CHOOSE i \in Identities : TRUE)

MCVars == <<part, vars, spendVars, subnetVars, servingVars, logVars, watchVars, callLogVars>>

Alone(p, others) == part = p /\ UNCHANGED <<part, others>>

MCNext ==
  \/ /\ Alone("verification", <<spendVars, subnetVars, servingVars, logVars, watchVars, callLogVars>>)
     /\ Next /\ InOrder
  \/ /\ Alone("spend", <<vars, subnetVars, servingVars, logVars, watchVars, callLogVars>>)
     /\ SpendNext
  \/ /\ Alone("subnet", <<vars, spendVars, servingVars, logVars, watchVars, callLogVars>>)
     /\ SubnetNext
  \/ /\ Alone("serving", <<vars, spendVars, subnetVars, logVars, watchVars, callLogVars>>)
     /\ ServingNext
  \/ /\ Alone("log", <<vars, spendVars, subnetVars, servingVars, watchVars, callLogVars>>)
     /\ LogNext
  \/ /\ Alone("watch", <<vars, spendVars, subnetVars, servingVars, logVars, callLogVars>>)
     /\ WatchNext /\ UNCHANGED headAt
  \/ /\ Alone("commitments", <<vars, spendVars, subnetVars, servingVars, logVars, callLogVars>>)
     /\ WatchNext /\ UNCHANGED job
  \/ /\ Alone("record", <<vars, spendVars, subnetVars, servingVars, logVars, watchVars>>)
     /\ CallLogNext

MCSpec == MCInit /\ [][MCNext]_MCVars
=============================================================================
