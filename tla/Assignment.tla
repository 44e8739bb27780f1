----------------------------- MODULE Assignment -----------------------------
(***************************************************************************)
(* What an epoch asks of every miner: the scored slice and the exploration *)
(* set, each filled round-robin over the benchmarks under a cap            *)
(* (benchmarks/slicer.py: select_slice; exploration.py).  Which question   *)
(* of a benchmark is taken is the nonce's choice, and only counts matter;  *)
(* a benchmark is its place in the sorted order.                           *)
(***************************************************************************)
EXTENDS Sums, FiniteSetsExt

CONSTANTS
  NumBenches,
  PoolSizes,    \* the questions a benchmark may have
  Sizes,        \* the questions a slice may be asked for
  NumModels,    \* models of the price table
  FactorNum, FactorDen   \* SLICE_SHARE_FACTOR

ASSUME AssignmentAssumption ==
  /\ {NumBenches, NumModels, FactorDen} \cup PoolSizes \cup Sizes \subseteq Nat \ {0}
  /\ FactorNum \in Nat

VARIABLES
  pool,      \* benchmark |-> its questions
  size,      \* round |-> questions asked for
  round,     \* "scored", "explored", then "assigned"
  limited,   \* the caps are the limit of this pass
  last,      \* the benchmark that took the latest slot; 0 before a pass
  quotas,    \* round |-> benchmark |-> slots
  explored   \* model |-> exploration questions it must answer

assignmentVars == <<pool, size, round, limited, last, quotas, explored>>

Benches == 1..NumBenches
Rounds == {"scored", "explored"}
Total(f) == SumTo(f, NumBenches)
Least(a, b) == IF a <= b THEN a ELSE b

(* Mutant of Left: exploration draws from the whole pool *)
LeftWhole(r) == pool

(* Exploration draws from what the scored slice left. *)
Left(r) == IF r = "scored" THEN pool ELSE [b \in Benches |-> pool[b] - quotas.scored[b]]
Wanted(r) == Least(size[r], Total(Left(r)))

AtLeastOne(n) == IF n = 0 THEN 1 ELSE n

(* select_slice's caps; nothing is capped in an empty pool. *)
CapOf(r, b) ==
  IF Total(Left(r)) = 0 THEN 1
  ELSE AtLeastOne((FactorNum * Wanted(r) * Left(r)[b])
                    \div (FactorDen * Total(Left(r))))

Limit(r, b, capped) == IF capped THEN Least(CapOf(r, b), Left(r)[b]) ELSE Left(r)[b]

Open == {b \in Benches : quotas[round][b] < Limit(round, b, limited)}
Remaining == Wanted(round) - Total(quotas[round])

AssignmentInit ==
  /\ pool \in [Benches -> PoolSizes] /\ size \in [Rounds -> Sizes]
  /\ round = "scored" /\ limited = TRUE /\ last = 0
  /\ quotas = [r \in Rounds |-> [b \in Benches |-> 0]]
  /\ explored = [m \in 1..NumModels |-> 0]

(* One slot: the next benchmark in cyclic order that has room. *)
Slot ==
  /\ round \in Rounds /\ Remaining > 0 /\ Open # {}
  /\ last' = Min(IF \E b \in Open : b > last THEN {b \in Open : b > last} ELSE Open)
  /\ quotas' = [quotas EXCEPT ![round][last'] = @ + 1]
  /\ UNCHANGED <<pool, size, round, limited, explored>>

(* Every benchmark is at its cap and the slice is not full: the second pass. *)
Uncap ==
  /\ round \in Rounds /\ Remaining > 0 /\ Open = {} /\ limited
  /\ limited' = FALSE /\ last' = 0
  /\ UNCHANGED <<pool, size, round, quotas, explored>>

(* select_explore_set, on the questions the scored slice left *)
Explore ==
  /\ round = "scored" /\ Remaining = 0
  /\ round' = "explored" /\ limited' = TRUE /\ last' = 0
  /\ UNCHANGED <<pool, size, quotas, explored>>

(* expected_exploration: the i-th question gets the i-th of the permuted
   models, beginning again after the last. *)
Assign ==
  /\ round = "explored" /\ Remaining = 0
  /\ round' = "assigned"
  /\ explored' = [m \in 1..NumModels |->
       Cardinality({i \in 0..Total(quotas.explored) - 1 : i % NumModels = m - 1})]
  /\ UNCHANGED <<pool, size, limited, last, quotas>>

AssignmentNext == Slot \/ Uncap \/ Explore \/ Assign

AssignmentSpec == AssignmentInit /\ [][AssignmentNext]_assignmentVars

-----------------------------------------------------------------------------
Opened == IF round = "scored" THEN {"scored"} ELSE Rounds
Full(r) == Total(quotas[r]) = Wanted(r)
Complete == {r \in Rounds : r # round} \cap Opened

(* select_slice: "a small benchmark that runs out, or hits its cap, cedes its
   remaining slots to the others": a slice and an exploration set that are
   complete have every question asked for that exists, none of them twice. *)
SlicesAreFull ==
  round # "scored" =>
    /\ \A r \in Complete : Full(r)
    /\ \A b \in Benches : quotas.scored[b] + quotas.explored[b] <= pool[b]
    /\ round = "assigned" =>
         SumTo(explored, NumModels) = Wanted("explored")

(* "If every benchmark is capped before the slice is full (rounding), a second
   pass fills it": what the second pass gives a benchmark over its cap is
   rounding, one question at most, while the factor, 1.5, is not set below 1. *)
OverCapIsRounding ==
  last # 0 /\ FactorNum >= FactorDen =>
    \A r \in Opened : \A b \in Benches : quotas[r][b] <= CapOf(r, b) + 1

(* Slots are handed out in turn: a benchmark below its cap is never two slots
   behind another ("equal quotas" until a cap or the end of a pool). *)
InTurn ==
  last # 0 /\ limited /\ round \in Rounds =>
    \A a \in Open, b \in Benches : quotas[round][b] <= quotas[round][a] + 1

(* How the slots of a slice fall to the benchmarks, on every pool. *)
AssignmentSafety == SlicesAreFull /\ OverCapIsRounding /\ InTurn

=============================================================================
