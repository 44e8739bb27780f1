---------------------------- MODULE SpendTracker ----------------------------
(***************************************************************************)
(* The spend tracker and the paid calls that share it from the threads of  *)
(* a matrix (fugal_subnet/api.py): an attempt reserves its worst case,     *)
(* calls, and settles.  The provider bills what it used, whatever becomes  *)
(* of its answer.  Amounts are in units; tokens are of one kind.           *)
(***************************************************************************)
EXTENDS FiniteSets, Sums

CONSTANTS
  NumWorkers,      \* threads
  WorstTokens,     \* what an attempt reserves for: [Workers -> Nat]
  MostTokens,      \* bound: what one can use (reasoning tokens come on top)
  CanonicalPrice, LivePrice,
  Cap,             \* budget_cap_usd
  Retries,         \* FUGAL_API_RETRIES
  MaxReservations  \* bound: attempts

Workers == 1..NumWorkers

ASSUME SpendAssumption ==
  /\ NumWorkers \in Nat /\ WorstTokens \in [Workers -> Nat] /\ MostTokens \in Nat
  /\ CanonicalPrice \in Nat /\ LivePrice \in Nat /\ Cap \in Nat \ {0}
  /\ Retries \in Nat \ {0} /\ MaxReservations \in Nat

VARIABLES
  spent,     \* total_cost_usd
  held,      \* reserved_cost_usd
  open,      \* _reservations: cost by id
  issued,    \* _next_reservation_id - 1
  settled,   \* total_calls with a reservation
  worker,    \* where each thread is: attempt and reservation
  billed,    \* history: what the provider billed
  unseen     \* history: of it, what it told nobody

spendVars == <<spent, held, open, issued, settled, worker, billed, unseen>>

Idle == [attempt |-> 0, id |-> 0]
Top(a, b) == IF a >= b THEN a ELSE b

(* build_spend_protection_prices *)
Protected == Top(CanonicalPrice, LivePrice)

Need(w) == Protected * WorstTokens[w]

SpendTypeOK ==
  /\ spent \in Nat /\ held \in Nat /\ billed \in Nat /\ unseen \in Nat
  /\ issued \in 0..MaxReservations /\ settled \in Nat
  /\ DOMAIN open \subseteq 1..issued /\ \A i \in DOMAIN open : open[i] \in Nat
  /\ worker \in [Workers -> [attempt : 0..Retries, id : 0..MaxReservations]]

SpendInit ==
  /\ spent = 0 /\ held = 0 /\ open = [i \in {} |-> 0] /\ issued = 0 /\ settled = 0
  /\ worker = [w \in Workers |-> Idle] /\ billed = 0 /\ unseen = 0

-----------------------------------------------------------------------------
(* Mutant of Fits: what other threads have in flight is not counted. *)
FitsSpent(cost) == spent + cost <= Cap

Fits(cost) == spent + held + cost <= Cap

(* A reservation is popped, under the lock, and charge takes its place. *)
Close(i, charge) ==
  /\ i \in DOMAIN open
  /\ held' = held - open[i] /\ open' = [j \in DOMAIN open \ {i} |-> open[j]]
  /\ spent' = spent + charge /\ settled' = settled + 1
  /\ UNCHANGED issued

Bill(tokens) == billed' = billed + LivePrice * tokens
Ends(w) == worker' = [worker EXCEPT ![w] = Idle]

(* call_model, live and with a price; without either it raises at once. *)
Call(w) ==
  /\ worker[w] = Idle
  /\ worker' = [worker EXCEPT ![w] = [attempt |-> 1, id |-> 0]]
  /\ UNCHANGED <<spent, held, open, issued, settled, billed, unseen>>

(* reserve, at the head of an attempt *)
Reserve(w) ==
  /\ worker[w].attempt > 0 /\ worker[w].id = 0
  /\ issued < MaxReservations /\ Fits(Need(w))
  /\ issued' = issued + 1
  /\ open' = [i \in DOMAIN open \cup {issued'} |-> IF i = issued' THEN Need(w) ELSE open[i]]
  /\ held' = held + Need(w)
  /\ worker' = [worker EXCEPT ![w] = [attempt |-> @.attempt, id |-> issued']]
  /\ UNCHANGED <<spent, settled, billed, unseen>>

(* BudgetExceeded leaves call_model. *)
ReserveFails(w) ==
  /\ worker[w].attempt > 0 /\ worker[w].id = 0 /\ ~Fits(Need(w))
  /\ Ends(w)
  /\ UNCHANGED <<spent, held, open, issued, settled, billed, unseen>>

(* reconcile: the usage is charged, over the reservation as well. *)
Answered(w) ==
  /\ worker[w].id # 0
  /\ \E tokens \in 0..MostTokens :
       Bill(tokens) /\ Close(worker[w].id, Protected * tokens)
  /\ Ends(w)
  /\ UNCHANGED unseen

(* An answer without usage counts as no tokens. *)
AnsweredWithoutUsage(w) ==
  /\ worker[w].id # 0
  /\ \E tokens \in 0..MostTokens :
       /\ Bill(tokens) /\ Close(worker[w].id, 0)
       /\ unseen' = unseen + LivePrice * tokens
  /\ Ends(w)

(* forfeit: the reservation is charged in full. *)
Forfeit(w) ==
  /\ worker[w].id # 0
  /\ \E tokens \in 0..MostTokens :
       /\ Bill(tokens) /\ Close(worker[w].id, open[worker[w].id])
       /\ unseen' = unseen + Top(0, LivePrice * tokens - open[worker[w].id])

(* A timeout, a network error or a status to retry: the next attempt
   reserves anew, after the last one the error is raised. *)
AttemptFails(w) ==
  /\ Forfeit(w)
  /\ worker' = [worker EXCEPT ![w] =
       IF @.attempt < Retries THEN [attempt |-> @.attempt + 1, id |-> 0] ELSE Idle]

(* Another status, no choices, a usage that is no number: raised at once. *)
CallFails(w) == Forfeit(w) /\ Ends(w)

(* record: usage without a reservation *)
RecordSpend ==
  /\ \E cost \in 1..MostTokens : Fits(cost) /\ spent' = spent + cost
  /\ UNCHANGED <<held, open, issued, settled, worker, billed, unseen>>

SpendNext ==
  \/ \E w \in Workers :
       \/ Call(w) \/ Reserve(w) \/ ReserveFails(w)
       \/ Answered(w) \/ AnsweredWithoutUsage(w) \/ AttemptFails(w) \/ CallFails(w)
  \/ RecordSpend

SpendSpec == SpendInit /\ [][SpendNext]_spendVars

-----------------------------------------------------------------------------
Reserved == [i \in 1..MaxReservations |-> IF i \in DOMAIN open THEN open[i] ELSE 0]

(* What an attempt of a worker may use beyond what it reserved *)
Overage == [w \in Workers |-> Top(0, Protected * MostTokens - Need(w))]

(* SpendTracker: "Thread-safe actual and reserved API spend": whatever the
   threads do, each attempt is settled exactly once, and what is held is
   what the open reservations need. *)
BooksBalance ==
  /\ settled + Cardinality(DOMAIN open) = issued
  /\ held = SumTo(Reserved, MaxReservations)
  /\ {worker[w].id : w \in Workers} \ {0} = DOMAIN open

(* reconcile: an overage is charged, "and the next reserve() fails if that
   pushed us over budget".  So however many calls a thread makes, the budget
   is overrun at most by the overages of attempts in flight at one time, one
   of each thread. *)
OverrunIsInFlight == spent + held <= Cap + SumTo(Overage, NumWorkers)

(* "Conservative spend tracking": what was charged covers what the provider
   billed, retried and unanswered attempts included, up to what it reported
   to nobody: an answer without usage, and an unanswered attempt's overage. *)
ChargedCoversBilled == billed <= spent + unseen

(* The books of the spending, whatever the threads and the provider do. *)
SpendSafety == SpendTypeOK /\ BooksBalance /\ OverrunIsInFlight /\ ChargedCoversBilled

=============================================================================
