-------------------------- MODULE ProofVerification --------------------------
(***************************************************************************)
(* The validator's verify loop (neurons/validator.py, VERIFY PROOFS) over  *)
(* the miners' responses, with the epoch's CollateralBudget and the        *)
(* collateral fetch of verify_dcap (fugal_subnet/tee/attestation.py).      *)
(*                                                                         *)
(* Responses are checked one after the other.  A check that needs no       *)
(* network refuses a response for free; the others need one fetch from the *)
(* PCCS, which answers, fails, or stalls until it is abandoned.  Time is   *)
(* in ticks, and a share is rounded down to one.                           *)
(***************************************************************************)
EXTENDS Integers, Sequences, FiniteSets

CONSTANTS
  N,            \* responses: len(responses), expected_proofs
  Total,        \* TEE_COLLATERAL_EPOCH_BUDGET
  Timeout,      \* TEE_COLLATERAL_TIMEOUT
  MaxTimeouts   \* TEE_COLLATERAL_MAX_TIMEOUTS

ASSUME BudgetAssumption ==
  /\ N \in Nat \ {0} /\ Timeout \in Nat \ {0} /\ MaxTimeouts \in Nat \ {0}
  /\ Total \in Nat /\ Total >= N

VARIABLES
  responses,    \* what each miner sent
  todo,         \* the responses not yet looked at
  verdict,      \* what the epoch's log says of each
  remaining,    \* CollateralBudget._remaining
  proofs_left,  \* CollateralBudget._proofs_left
  timeouts,     \* CollateralBudget._timeouts
  dials,        \* history: the fetches made, in order
  clock         \* history: ticks spent in them

budget == <<remaining, proofs_left, timeouts>>
vars == <<responses, todo, verdict, budget, dials, clock>>

Uids == 1..N

(* No proof; one refused by a check that needs no collateral (commitment,
   bundle, verify_proof up to DCAP, a quote that does not parse, an
   exception); a quote DCAP refuses; a genuine quote of another image or
   event log; a proof that is valid. *)
Response == {"absent", "local", "quote", "image", "genuine"}
Verdict == {"pending", "absent", "invalid", "unverifiable", "valid"}
Dial == [uid : Uids, given : 0..Timeout, outcome : {"answered", "failed", "stalled"}]

TypeOK ==
  /\ responses \in [Uids -> Response] /\ todo \subseteq Uids
  /\ verdict \in [Uids -> Verdict]
  /\ remaining \in 0..Total /\ proofs_left \in 1..N
  /\ timeouts \in 0..MaxTimeouts
  /\ dials \in Seq(Dial) /\ clock \in Nat

Init ==
  /\ responses \in [Uids -> Response] /\ todo = Uids
  /\ verdict = [u \in Uids |-> "pending"]
  /\ remaining = Total /\ proofs_left = N /\ timeouts = 0
  /\ dials = <<>> /\ clock = 0

-----------------------------------------------------------------------------
(* CollateralBudget *)

Least(a, b) == IF a < b THEN a ELSE b

Exhausted == remaining <= 0 \/ timeouts >= MaxTimeouts

Allowance == Least(Timeout, Least(remaining, remaining \div proofs_left))

(* Mutant of Spend: the share of the proofs left does not grow. *)
SpendKeepsShare(e) ==
  /\ remaining' = remaining - e
  /\ UNCHANGED proofs_left
  /\ clock' = clock + e

Spend(e) ==
  /\ remaining' = remaining - e
  /\ proofs_left' = IF proofs_left > 1 THEN proofs_left - 1 ELSE 1
  /\ clock' = clock + e

-----------------------------------------------------------------------------
(* One iteration of the loop.  verification_order is some order of the uids. *)

Record(u, v) ==
  /\ verdict' = [verdict EXCEPT ![u] = v] /\ todo' = todo \ {u}
  /\ UNCHANGED responses

Dialled(u, o) == dials' = Append(dials, [uid |-> u, given |-> Allowance, outcome |-> o])

SkipAbsent(u) ==
  /\ responses[u] = "absent" /\ Record(u, "absent")
  /\ UNCHANGED <<budget, dials, clock>>

RejectLocally(u) ==
  /\ responses[u] = "local" /\ Record(u, "invalid")
  /\ UNCHANGED <<budget, dials, clock>>

NeedsCollateral(u) == responses[u] \in {"quote", "image", "genuine"}

(* The budget or the breaker says not to dial: CollateralUnavailable. *)
RefuseToDial(u) ==
  /\ NeedsCollateral(u) /\ Exhausted /\ Record(u, "unverifiable")
  /\ UNCHANGED <<budget, dials, clock>>

(* The fetch returns collateral within its allowance: the quote is judged,
   and if it is genuine the image and the event log. *)
FetchAnswers(u) ==
  /\ NeedsCollateral(u) /\ ~Exhausted
  /\ Dialled(u, "answered") /\ timeouts' = 0
  /\ \E e \in 0..Allowance : Spend(e)
  /\ Record(u, IF responses[u] = "genuine" THEN "valid" ELSE "invalid")

(* Mutant of FetchFails: an error does not count as an answer. *)
FetchFailsKeepsCount(u) ==
  /\ NeedsCollateral(u) /\ ~Exhausted
  /\ Dialled(u, "failed") /\ UNCHANGED timeouts
  /\ \E e \in 0..Allowance : Spend(e)
  /\ Record(u, "unverifiable")

(* The fetch ends in an error (5xx, DNS, reset): the endpoint answered. *)
FetchFails(u) ==
  /\ NeedsCollateral(u) /\ ~Exhausted
  /\ Dialled(u, "failed") /\ timeouts' = 0
  /\ \E e \in 0..Allowance : Spend(e)
  /\ Record(u, "unverifiable")

(* Mutant of FetchStalls: a proof that could not be checked is rejected. *)
FetchStallsAccuses(u) ==
  /\ NeedsCollateral(u) /\ ~Exhausted
  /\ Dialled(u, "stalled")
  /\ timeouts' = IF Allowance >= Timeout THEN timeouts + 1 ELSE timeouts
  /\ Spend(Allowance)
  /\ Record(u, "invalid")

(* The fetch outlives its allowance and is abandoned.  It counts against the
   endpoint only when it was given the whole timeout. *)
FetchStalls(u) ==
  /\ NeedsCollateral(u) /\ ~Exhausted
  /\ Dialled(u, "stalled")
  /\ timeouts' = IF Allowance >= Timeout THEN timeouts + 1 ELSE timeouts
  /\ Spend(Allowance)
  /\ Record(u, "unverifiable")

Check(u) ==
  \/ SkipAbsent(u) \/ RejectLocally(u) \/ RefuseToDial(u)
  \/ FetchAnswers(u) \/ FetchFails(u) \/ FetchStalls(u)

Next == \E u \in todo : Check(u)

Spec == Init /\ [][Next]_vars

-----------------------------------------------------------------------------
(* The time spent waiting for collateral has a ceiling that no endpoint can
   raise, whatever each fetch does (CollateralBudget's docstring). *)
CeilingHolds == clock <= Total

(* No fetch is given less than the timeout or an equal share of the whole
   budget, wherever its miner stands in the order and whatever the fetches
   before it cost (I4; allowance's third limit). *)
FairShare ==
  \A i \in 1..Len(dials) : dials[i].given >= Least(Timeout, Total \div N)

(* A proof goes unchecked only because its own fetch got no answer, or
   because the breaker is open: never because the fetches of other miners
   used up the time (I4). *)
UncheckedIsOwnFetch ==
  \A u \in Uids : verdict[u] = "unverifiable" =>
    \/ timeouts >= MaxTimeouts
    \/ \E i \in 1..Len(dials) : dials[i].uid = u /\ dials[i].outcome # "answered"

(* Invalid is said only of a miner whose response is at fault, and valid only
   of a genuine proof whose collateral was fetched: an outage is never an
   accusation, nor a pass (n_unverifiable's comment). *)
VerdictIsEarned ==
  \A u \in Uids :
    /\ verdict[u] = "invalid" => responses[u] \in {"local", "quote", "image"}
    /\ verdict[u] = "valid" =>
         /\ responses[u] = "genuine"
         /\ \E i \in 1..Len(dials) :
              dials[i].uid = u /\ dials[i].outcome = "answered"

Stalled(d) == d.outcome = "stalled"
FairlyStalled(d) == Stalled(d) /\ d.given >= Timeout

(* The breaker opens on evidence about the endpoint alone: after the last
   fetch it answered, well or badly, it was given the whole timeout
   MaxTimeouts times and used it up (record_timeout, record_completion). *)
CircuitIsEvidence ==
  timeouts >= MaxTimeouts =>
    \E k \in 0..Len(dials) :
      /\ \A i \in k + 1..Len(dials) : Stalled(dials[i])
      /\ Cardinality({i \in k + 1..Len(dials) : FairlyStalled(dials[i])})
           >= MaxTimeouts

(* The time of an epoch is bounded, and shared fairly among its miners. *)
BudgetIsFair == TypeOK /\ CeilingHolds /\ FairShare /\ UncheckedIsOwnFetch

(* docs/INVARIANTS.md: the breaker "still caps a dead PCCS at 10 abandoned
   fetches": an endpoint that never answers is dialled MaxTimeouts times at
   most. *)
DeadEndpointCapped ==
  (\A i \in 1..Len(dials) : Stalled(dials[i])) => Len(dials) <= MaxTimeouts

=============================================================================
