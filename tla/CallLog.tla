------------------------------- MODULE CallLog -------------------------------
(***************************************************************************)
(* The recording scripts: scripts/record_token_observations.py and         *)
(* scripts/build_frame_from_calls.py make planned calls from a few threads *)
(* under a budget, append one row for each completed call to a log that    *)
(* later runs resume from, and the second folds the log into the bootstrap *)
(* reference frame.  One process runs at a time: nothing locks the log.    *)
(***************************************************************************)
EXTENDS Sums, SequencesExt

CONSTANTS
  Chosen,      \* model |-> the questions select_slice gives it, in its order
  Price,       \* what the proxy records for the k-th call planned
  MaxUsd,      \* --max-usd
  Threads,     \* HARNESS_CONCURRENCY
  Batch,       \* --batch
  Identities,  \* what routing_protocol.identity() has been
  MaxLogRuns   \* bound: runs of the script

VARIABLES
  recorded, \* the rows of the file
  torn,     \* its last line is half a row
  runs,     \* runs begun; live: one is in progress
  live,
  state,    \* where each call of the plan is in this run
  paid,     \* calls with a record in this run's proxy
  gaveUp,   \* calls whose answer the harness no longer waits for
  stop,     \* stop["budget"]
  exposed,  \* history: without a record when a call was last let through
  identity  \* of the protocol, of the sources installed

callLogVars == <<recorded, torn, runs, live, state, paid, gaveUp, stop, exposed, identity>>

(* Model by model; within one, no question comes twice. *)
Plan == FlattenSeq([m \in DOMAIN Chosen |-> [i \in DOMAIN Chosen[m] |-> <<m, Chosen[m][i]>>]])
Planned == DOMAIN Plan

ASSUME CallLogAssumption ==
  /\ Chosen \in Seq(Seq(Nat)) /\ \A m \in DOMAIN Chosen : IsInjective(Chosen[m])
  /\ Price \in [Planned -> Nat] /\ {MaxUsd, Threads, Batch} \subseteq Nat \ {0}
  /\ MaxLogRuns \in Nat

Waiting == {"queued", "calling", "row", "none", "refused"}  \* not yet consumed
Grades == {"right", "wrong"}

CallLogTypeOK ==
  /\ recorded \in Seq([call : Planned, grade : Grades, under : Identities])
  /\ runs \in 0..MaxLogRuns /\ state \in [Planned -> Waiting \cup {"absent", "consumed"}]
  /\ paid \cup gaveUp \cup exposed \subseteq Planned
  /\ {torn, live, stop} \subseteq BOOLEAN /\ identity \in Identities

CallLogInit ==
  /\ recorded = <<>> /\ torn = FALSE /\ runs = 0 /\ live = FALSE
  /\ state = [c \in Planned |-> "absent"]
  /\ paid = {} /\ gaveUp = {} /\ stop = FALSE /\ exposed = {}
  /\ identity \in Identities

-----------------------------------------------------------------------------
Logged == {recorded[i].call : i \in DOMAIN recorded}

(* Mutant of AlreadyRecorded: every run makes the whole plan. *)
NothingRecorded == {}

AlreadyRecorded == Logged

(* The pairs not recorded are called; a line that is not JSON ends the run
   before it begins. *)
BeginRecording ==
  /\ ~live /\ ~torn /\ runs < MaxLogRuns /\ Planned \ AlreadyRecorded # {}
  /\ live' = TRUE /\ runs' = runs + 1
  /\ state' = [c \in Planned |-> IF c \in AlreadyRecorded THEN "absent" ELSE "queued"]
  /\ paid' = {} /\ gaveUp' = {} /\ stop' = FALSE /\ exposed' = {}
  /\ UNCHANGED <<recorded, torn, identity>>

In(where) == {c \in Planned : state[c] \in where}
Cents(calls) == SumTo([c \in Planned |-> IF c \in calls THEN Price[c] ELSE 0], Len(Plan))

(* The threads take calls in the order planned, and reach the gate in any:
   the calls before c that wait at it are in the hands of other threads. *)
InHand(c) == In({"calling"}) \cup {d \in In({"queued"}) : d <= c}
AtGate(c) == live /\ state[c] = "queued" /\ Cardinality(InHand(c)) <= Threads

(* Under the gate, against the proxy's records *)
BudgetLeft == ~stop /\ Cents(paid) < MaxUsd

LetThrough(c) ==
  /\ AtGate(c) /\ BudgetLeft
  /\ state' = [state EXCEPT ![c] = "calling"]
  /\ exposed' = (In({"calling"}) \cup gaveUp \cup {c}) \ paid
  /\ UNCHANGED <<recorded, torn, runs, live, paid, gaveUp, stop, identity>>

TurnBack(c) ==
  /\ AtGate(c) /\ ~BudgetLeft
  /\ state' = [state EXCEPT ![c] = "refused"] /\ stop' = TRUE
  /\ UNCHANGED <<recorded, torn, runs, live, paid, gaveUp, exposed, identity>>

(* The proxy prices an answer and records it before it sends it back; of a
   call that the harness gave up, too. *)
Charge(c) ==
  /\ live /\ c \notin paid /\ (state[c] = "calling" \/ c \in gaveUp)
  /\ paid' = paid \cup {c}
  /\ UNCHANGED <<recorded, torn, runs, live, state, gaveUp, stop, exposed, identity>>

(* _call_model returns a text, or None *)
Complete(c) ==
  /\ state[c] = "calling" /\ c \in paid
  /\ state' = [state EXCEPT ![c] = "row"]
  /\ UNCHANGED <<recorded, torn, runs, live, paid, gaveUp, stop, exposed, identity>>

NoText(c) ==
  /\ state[c] = "calling"
  /\ state' = [state EXCEPT ![c] = "none"]
  /\ \/ c \notin paid /\ UNCHANGED gaveUp        \* the proxy's 502
     \/ gaveUp' = gaveUp \cup {c}                \* the harness's timeout
  /\ UNCHANGED <<recorded, torn, runs, live, paid, stop, exposed, identity>>

(* ex.map yields in the order planned. *)
Foremost(c) == live /\ \A d \in In(Waiting) : c <= d

WriteRow(c) ==
  /\ Foremost(c) /\ state[c] = "row"
  /\ \E g \in Grades : recorded' = Append(recorded, [call |-> c, grade |-> g, under |-> identity])
  /\ state' = [state EXCEPT ![c] = "consumed"]
  /\ UNCHANGED <<torn, runs, live, paid, gaveUp, stop, exposed, identity>>

SkipCall(c) ==
  /\ Foremost(c) /\ state[c] \in {"none", "refused"}
  /\ state' = [state EXCEPT ![c] = "consumed"]
  /\ UNCHANGED <<recorded, torn, runs, live, paid, gaveUp, stop, exposed, identity>>

EndRun ==
  /\ live /\ In(Waiting) = {} /\ live' = FALSE
  /\ UNCHANGED <<recorded, torn, runs, state, paid, gaveUp, stop, exposed, identity>>

(* The process dies, perhaps while it writes a row: what its proxy had
   recorded is lost with it. *)
Die ==
  /\ live /\ live' = FALSE
  /\ torn' \in {FALSE, \E c \in Planned : Foremost(c) /\ state[c] = "row"}
  /\ state' = [c \in Planned |-> "absent"] /\ paid' = {} /\ gaveUp' = {} /\ stop' = FALSE /\ exposed' = {}
  /\ UNCHANGED <<recorded, runs, identity>>

(* The sources, and the protocol with them, are another version's. *)
Upgrade ==
  /\ ~live /\ identity' \in Identities \ {identity}
  /\ UNCHANGED <<recorded, torn, runs, live, state, paid, gaveUp, stop, exposed>>

CallLogNext ==
  \/ BeginRecording \/ EndRun \/ Die \/ Upgrade
  \/ \E c \in Planned : LetThrough(c) \/ TurnBack(c) \/ Charge(c) \/ Complete(c)
       \/ NoText(c) \/ WriteRow(c) \/ SkipCall(c)

CallLogSpec == CallLogInit /\ [][CallLogNext]_callLogVars

-----------------------------------------------------------------------------
(* build_frame: by model, then question, in batches of an epoch's size; none
   with a row of another protocol's. *)
Before(r, s) ==
  LET p == Plan[r.call] q == Plan[s.call] IN p[1] < q[1] \/ (p[1] = q[1] /\ p[2] < q[2])

Foldable(rows) == rows # <<>> /\ \A i \in DOMAIN rows : rows[i].under = identity

(* rows.sort: rows of one key stay as they were. *)
Ahead(rows, i, j) == Before(rows[i], rows[j]) \/ (~Before(rows[j], rows[i]) /\ i < j)
Place(rows, j) == Cardinality({i \in DOMAIN rows : Ahead(rows, i, j)}) + 1
InOrderOf(rows) == [k \in DOMAIN rows |-> rows[CHOOSE j \in DOMAIN rows : Place(rows, j) = k]]

Batches(rows) ==
  LET sorted == InOrderOf(rows) IN
  [k \in 1..(Len(rows) + Batch - 1) \div Batch |->
     SubSeq(sorted, (k - 1) * Batch + 1, Min({k * Batch, Len(rows)}))]

BuildFrame(rows) == IF ~torn /\ Foldable(rows) THEN Batches(rows) ELSE <<>>

(* However runs are cut short, by the budget or a crash, and resumed, a pair
   of model and question has one row at most ("pairs already in --out are
   skipped", record_token_observations.py). *)
LoggedOnce == \A i, j \in DOMAIN recorded : recorded[i].call = recorded[j].call => i = j

(* What a run's proxy has charged is logged, or about to be, unless the
   harness had given the call up. *)
PaidIsLogged == \A c \in paid : c \in Logged \cup gaveUp \/ state[c] \in {"calling", "row"}

(* The calls charged, but for those without a record when the last one was
   let through, cost less than the budget; and those are at most one for each
   thread, the calls given up apart. *)
WithinBudget ==
  Cents(paid \ exposed) < MaxUsd /\ Cardinality(exposed \ gaveUp) <= Threads

(* The frame does not depend on the order in which the calls were made and
   recorded ("so the result is reproducible from the committed log"). *)
FrameReproducible ==
  \A p \in [DOMAIN recorded -> DOMAIN recorded] :
    IsInjective(p) => BuildFrame([i \in DOMAIN recorded |-> recorded[p[i]]]) = BuildFrame(recorded)

(* What the log and its frame can be trusted for *)
CallLogSafety ==
  CallLogTypeOK /\ LoggedOnce /\ PaidIsLogged /\ WithinBudget /\ FrameReproducible

=============================================================================
