---------------------------- MODULE MCMinerRecords ----------------------------
(***************************************************************************)
(* Whether a proof counts, and what the proofs that count add up to: the   *)
(* evidence of the miners, and their weights.  The records see a check     *)
(* only as a proof verified or not, and evidence and weights see nothing   *)
(* of each other: so the three are checked one at a time, the evidence     *)
(* while no submission is taken, the weights while heads are not replaced, *)
(* the checks while one proof at most did not go clean.                    *)
(*                                                                         *)
(* Nothing tells two UIDs, two hotkeys or two heads of the records apart   *)
(* but what happens to them, so the model values of each set may be        *)
(* exchanged.                                                              *)
(***************************************************************************)
EXTENDS MinerRecords, ProofChecks, TLC

VARIABLE part  \* what is checked

Symmetry == Permutations(Uids) \cup Permutations(Hotkeys) \cup Permutations(Heads)

MCInit ==
  /\ part \in {"evidence", "weights", "checks"}
  /\ Init
  /\ ChecksInit /\ (part # "checks" => image = "measured" /\ app = "approved")

MCNext ==
  \/ part = "evidence" /\ Next /\ UNCHANGED <<part, weights, checksVars>>
  \/ /\ part = "weights" /\ Next /\ UNCHANGED <<part, checksVars>>
     /\ Cardinality({p[3] : p \in proved'}) <= 1
  \/ /\ part = "checks" /\ ChecksNext /\ UNCHANGED <<part, vars>>
     /\ Cardinality({i \in DOMAIN bundles' : bundles'[i].body.course # "clean"}) <= 1

MCSpec == MCInit /\ [][MCNext]_<<part, vars, checksVars>>
=============================================================================
