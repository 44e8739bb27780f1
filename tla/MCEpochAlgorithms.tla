-------------------------- MODULE MCEpochAlgorithms --------------------------
(***************************************************************************)
(* What an epoch computes: the slice and the exploration set, the          *)
(* reference frame, the frontier, the copies, the weights.  None writes    *)
(* what another reads except through the epoch loop, so one at a time is   *)
(* checked, on every input, while the others rest.                         *)
(***************************************************************************)
EXTENDS MCReferenceFrame, Dedup, Assignment, Frontier, Weights

VARIABLE part  \* the computation that is checked

AssignmentRests ==
  pool = [b \in Benches |-> Min(PoolSizes)] /\ size = [r \in Rounds |-> Min(Sizes)] /\ AssignmentInit
FrontierRests ==
  measured = [m \in Priced |-> [cost |-> 0, acc |-> 0, trials |-> 0]] /\ FrontierInit
DedupRests ==
  /\ alike = {} /\ near = {}
  /\ seniority = [u \in Verified |-> 1] /\ score = [u \in Verified |-> 0] /\ DedupInit
WeightsRest ==
  /\ prev = [u \in WeightUids |-> IF u = BurnUid THEN Units ELSE 0]
  /\ out = {} /\ paid = 0 /\ records = Unset /\ WeightsInit


(* Seniority is compared only: ranks without a gap stand for all others. *)
GapFree == \A u \in Verified : \A k \in 1..seniority[u] : \E v \in Verified : seniority[v] = k

(* Any likeness of all heads of one score, and of all but the last of any
   scores. *)
DedupCases ==
  /\ \/ score = [u \in Verified |-> 0]
     \/ /\ alike \in SUBSET {q \in Pairs : N \notin q} /\ near \in SUBSET {q \in Pairs : N \notin q}
        /\ score \in {f \in [Verified -> 0..MaxScore] : f[N] = 0}
  /\ DedupInit /\ GapFree

OthersRest(p) ==
  /\ part = p /\ FrameInit
  /\ p # "slice" => AssignmentRests
  /\ p # "frontier" => FrontierRests
  /\ p # "dedup" => DedupRests
  /\ p # "weights" => WeightsRest

MCInit ==
  \/ OthersRest("frame")
  \/ OthersRest("slice") /\ AssignmentInit
  \/ OthersRest("frontier") /\ FrontierInit
  \/ OthersRest("dedup") /\ DedupCases
  \/ OthersRest("weights") /\ WeightsInit

MCVars == <<part, frameVars, assignmentVars, frontierVars, dedupVars, weightsVars>>

MCNext ==
  \/ /\ part = "frame" /\ FrameNext
     /\ UNCHANGED <<part, assignmentVars, frontierVars, dedupVars, weightsVars>>
  \/ /\ part = "slice" /\ AssignmentNext
     /\ UNCHANGED <<part, frameVars, frontierVars, dedupVars, weightsVars>>
  \/ /\ part = "frontier" /\ FrontierNext
     /\ UNCHANGED <<part, frameVars, assignmentVars, dedupVars, weightsVars>>
  \/ /\ part = "dedup" /\ DedupNext
     /\ UNCHANGED <<part, frameVars, assignmentVars, frontierVars, weightsVars>>
  \/ /\ part = "weights" /\ WeightsNext
     /\ UNCHANGED <<part, frameVars, assignmentVars, frontierVars, dedupVars>>

MCSpec == MCInit /\ [][MCNext]_MCVars
=============================================================================
