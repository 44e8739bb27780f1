------------------------------- MODULE Harness -------------------------------
(***************************************************************************)
(* One benchmark run inside the miner: the harness calls the models        *)
(* several at a time (tee/harness.py), a metering proxy forwards each call *)
(* upstream on a thread of its own and records what it cost                *)
(* (tee/runtime.py), the harness bills each question by request id, and    *)
(* the proof's totals are read from the proxy last.                        *)
(*                                                                         *)
(* Time is in ticks of 20 s and counted for each call from its start.  A   *)
(* timeout of urlopen bounds one socket operation, and an upstream call    *)
(* has several: to connect, to wait for the answer, to read it.            *)
(***************************************************************************)
EXTENDS FiniteSets, Sums

CONSTANTS
  NumCalls,     \* questions, each known by its place in the schedule
  Cost,         \* what each call costs if it is answered; 0: the answer has no usage
  Concurrency,  \* HARNESS_CONCURRENCY
  Patience,     \* 200 s: the harness's wait for the proxy
  OpTimeout,    \* 180 s: the proxy's for one operation of its first try
  LeastTimeout, \* 20 s: ... of a late try
  MaxOps,       \* socket operations of one try
  MaxTries, RetryBudget, MaxWait,   \* PROXY_*
  TolNum, TolDen                    \* relative tolerance of _costs_consistent

Calls == 1..NumCalls

ASSUME HarnessAssumption ==
  /\ NumCalls \in Nat /\ Cost \in [Calls -> Nat]
  /\ {Concurrency, Patience, OpTimeout, LeastTimeout, MaxOps, MaxTries, TolDen} \subseteq Nat \ {0}
  /\ {RetryBudget, MaxWait, TolNum} \subseteq Nat

VARIABLES
  phase,    \* "idle", "calling", "billing", "totalled", "done"
  call,     \* question |-> what the harness has of it
  proxy,    \* question |-> its handler, tries, and when the try it makes ends
  records,  \* question |-> the sum of the records under its request id; 0: none, or one of 0
  bills,    \* question |-> cost_usd of its result; -1 before it is billed
  total, perModel   \* total_cost_usd, and the sum of per_model_costs

harnessVars == <<phase, call, proxy, records, bills, total, perModel>>

Answers == {"text", "none"}   \* "none": _call_model returned None

HarnessTypeOK ==
  /\ phase \in {"idle", "calling", "billing", "totalled", "done"}
  /\ call \in [Calls -> {"queued", "open"} \cup Answers]
  /\ proxy \in [Calls -> [at : {"idle", "asking", "recorded", "refused"},
                          tries : Nat, ends : Nat]]
  /\ \A c \in Calls : proxy[c].tries <= MaxTries
  /\ records \in [Calls -> Nat] /\ bills \in [Calls -> Nat \cup {-1}]
  /\ total \in Nat /\ perModel \in Nat

HarnessInit ==
  /\ phase = "idle"
  /\ call = [c \in Calls |-> "queued"]
  /\ proxy = [c \in Calls |-> [at |-> "idle", tries |-> 0, ends |-> 0]]
  /\ records = [c \in Calls |-> 0] /\ bills = [c \in Calls |-> -1]
  /\ total = 0 /\ perModel = 0

Sum2(f) == SumTo(f, NumCalls)
Finished == {c \in Calls : call[c] \in Answers}
InFlight == {c \in Calls : call[c] = "open"}
Most(a, b) == IF a >= b THEN a ELSE b

(* run_benchmark clears the proxy and schedules every call. *)
Begin ==
  /\ phase = "idle" /\ phase' = "calling"
  /\ records' = [c \in Calls |-> 0]
  /\ UNCHANGED <<call, proxy, bills, total, perModel>>

(* When a try that starts at a time can end: at once, or after operations
   that all but time out. *)
Timeout(start) == Most(LeastTimeout, OpTimeout - start)
Ends(start) == {start + 1, start + MaxOps * Timeout(start)}

(* The pool starts the next call, and the proxy a thread for it. *)
Open(c) ==
  /\ phase = "calling" /\ Cardinality(InFlight) < Concurrency
  /\ call[c] = "queued" /\ \A d \in Calls : d < c => call[d] # "queued"
  /\ call' = [call EXCEPT ![c] = "open"]
  /\ \E end \in Ends(0) : proxy' = [proxy EXCEPT ![c] = [at |-> "asking", tries |-> 1, ends |-> end]]
  /\ UNCHANGED <<phase, records, bills, total, perModel>>

(* _fetch_upstream, on a status that is retried *)
Retry(c) ==
  /\ proxy[c].at = "asking" /\ proxy[c].tries < MaxTries /\ proxy[c].ends < RetryBudget
  /\ \E wait \in {0, MaxWait} : \E end \in Ends(proxy[c].ends + wait) :
       proxy' = [proxy EXCEPT ![c] = [at |-> "asking", tries |-> @.tries + 1, ends |-> end]]
  /\ UNCHANGED <<phase, call, records, bills, total, perModel>>

(* A try that ends later than the harness waits ends after it gave up. *)
InOrder(c) == proxy[c].ends > Patience => call[c] # "open"

(* The upstream answered: priced, recorded under the lock, then sent back. *)
Record(c) ==
  /\ proxy[c].at = "asking" /\ InOrder(c)
  /\ proxy' = [proxy EXCEPT ![c].at = "recorded"]
  /\ records' = [records EXCEPT ![c] = Cost[c]]
  /\ UNCHANGED <<phase, call, bills, total, perModel>>

(* Every other end of it: a 502 for the harness, and no record *)
Refuse(c) ==
  /\ proxy[c].at = "asking" /\ InOrder(c)
  /\ proxy' = [proxy EXCEPT ![c].at = "refused"]
  /\ UNCHANGED <<phase, call, records, bills, total, perModel>>

Answered(c, answer) ==
  /\ call[c] = "open" /\ call' = [call EXCEPT ![c] = answer]
  /\ UNCHANGED <<phase, proxy, records, bills, total, perModel>>

(* Mutant of Receive: the reply is sent before it is recorded *)
ReceiveEarly(c) == proxy[c].at \in {"asking", "recorded"} /\ Answered(c, "text")

Receive(c) == proxy[c].at = "recorded" /\ Answered(c, "text")
Fail(c) == proxy[c].at = "refused" /\ Answered(c, "none")

(* Mutant of GiveUp: no timeout *)
GiveUpNever(c) == proxy[c].at = "recorded" /\ Answered(c, "none")

(* urlopen's timeout *)
GiveUp(c) == proxy[c].ends >= Patience /\ Answered(c, "none")

(* pool.map has returned *)
Gathered ==
  /\ phase = "calling" /\ Finished = Calls /\ phase' = "billing"
  /\ UNCHANGED <<call, proxy, records, bills, total, perModel>>

(* The records of this request id, as they are now *)
BillOf(c) == records[c]

(* Results are made in the order scheduled, each reading the records anew. *)
Bill(c) ==
  /\ phase = "billing" /\ bills[c] = -1 /\ \A d \in Calls : d < c => bills[d] # -1
  /\ bills' = [bills EXCEPT ![c] = BillOf(c)]
  /\ UNCHANGED <<phase, call, proxy, records, total, perModel>>

(* total_cost, then per_model_costs: two more reads *)
Total ==
  /\ phase = "billing" /\ \A c \in Calls : bills[c] # -1
  /\ total' = Sum2(records) /\ phase' = "totalled"
  /\ UNCHANGED <<call, proxy, records, bills, perModel>>

PerModel ==
  /\ phase = "totalled"
  /\ perModel' = Sum2(records) /\ phase' = "done"
  /\ UNCHANGED <<call, proxy, records, bills, total>>

InTime ==
  \/ Begin \/ Gathered \/ Total \/ PerModel
  \/ \E c \in Calls : Open(c) \/ Retry(c) \/ Receive(c) \/ Fail(c) \/ GiveUp(c) \/ Bill(c)
  \/ \E c \in Calls : call[c] = "open" /\ (Record(c) \/ Refuse(c))

(* A handler that outlived the harness's patience *)
TooLate == \E c \in Calls : call[c] # "open" /\ (Record(c) \/ Refuse(c))

HarnessNext == InTime \/ TooLate

(* Threads run and timeouts fire; a handler nobody waits for need not end. *)
HarnessFairness == WF_harnessVars(InTime)

HarnessSpec == HarnessInit /\ [][HarnessNext]_harnessVars /\ HarnessFairness

-----------------------------------------------------------------------------
Agree(a, b) == TolDen * Most(a - b, b - a) <= TolNum * Most(a, b)

(* Check 10 of verify_proof *)
CostsConsistent == Agree(Sum2(bills), total) /\ Agree(perModel, total)

(* A call that the harness counts as failed, and the proxy charged *)
FailedAndCharged == {c \in Calls : call[c] = "none" /\ records[c] # 0}

(* With any number of calls in flight nobody is billed for another's tokens
   ("interleaved calls cannot bill one question for another's tokens",
   harness.py:_call_all): a question that was answered is billed what its own
   call cost, and a failed one that or nothing. *)
BillsAreOwn ==
  \A c \in Calls : bills[c] # -1 =>
    bills[c] \in {0, Cost[c]} /\ (call[c] = "text" => bills[c] = Cost[c])

(* Records only grow, and they are read for the questions first: a proof
   never shows a question's cost that its totals lack. *)
TotalsCoverBills ==
  phase = "done" => Sum2(bills) <= total /\ total <= perModel

(* A proof whose costs do not add up is one of a run in which a call was
   charged that had failed: never of retries, refusals or interleaving. *)
InconsistentOnlyIfLate ==
  phase = "done" /\ ~CostsConsistent => FailedAndCharged # {}

(* Whatever the upstream does, the run ends. *)
BenchmarkEnds == phase = "calling" ~> phase = "done"

(* What a proof says of the cost of its calls, whenever the proxy wrote it. *)
HarnessSafety == HarnessTypeOK /\ BillsAreOwn /\ TotalsCoverBills /\ InconsistentOnlyIfLate

=============================================================================
