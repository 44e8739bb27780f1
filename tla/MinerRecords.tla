----------------------------- MODULE MinerRecords -----------------------------
(***************************************************************************)
(* What the validator remembers of each miner from epoch to epoch, and     *)
(* whom it pays: fugal_subnet/scoring.py (update_scores),                  *)
(* fugal_subnet/evidence.py (accumulate_epoch, apply_miss) and             *)
(* fugal_subnet/rewards.py (compute_weights, cap_weight_change), as the    *)
(* epoch loop of neurons/validator.py calls them.                          *)
(*                                                                         *)
(* Records are kept by UID, and the chain gives a UID to another hotkey    *)
(* when its owner deregisters.  Evidence is the set of epochs it counts,   *)
(* answered or not; the sums the code keeps are decayed sums over them.    *)
(* Whether a score is positive depends on the answers, on the frontier     *)
(* and on the copies found that epoch: here any outcome is possible.       *)
(*                                                                         *)
(* A weight is told by the number of capped updates it may need to fall to *)
(* nothing: 0 is no weight, 1 at most MAX_WEIGHT_DELTA, more is above it.  *)
(* Each update that wants a weight gone takes it at least one step down:   *)
(* OutFallsByCap, in Weights, says how far.                                *)
(***************************************************************************)
EXTENDS Integers, FiniteSets

CONSTANTS
  Uids,       \* UIDs of miners (the burn UID is not one)
  Hotkeys,    \* operators' hotkeys
  Heads,      \* head hashes
  MaxEpoch,   \* bound: epochs processed
  MaxMissed,  \* LIVENESS_MAX_MISSED_EVIDENCE
  MaxFalls,   \* capped updates from all of the weight to none of it
  NoRecord    \* a UID without a record

ASSUME RecordAssumption ==
  /\ MaxEpoch \in Nat /\ {MaxMissed, MaxFalls} \subseteq Nat \ {0}
  /\ IsFiniteSet(Uids) /\ Uids # {}

VARIABLES
  epoch,     \* epochs processed
  occupant,  \* the metagraph: the hotkey registered at each UID
  records,   \* ScoringState.records
  prev,      \* prev_uids, prev_weights: the weights the chain took last
  taken,     \* history: the epochs whose vector the chain took
  scored,    \* history: the epochs update_scores ran for
  proved     \* history: <<epoch, hotkey, head>> of each proof verified

weights == <<prev, taken>>
vars == <<epoch, occupant, records, weights, scored, proved>>

Epochs == 1..MaxEpoch

(* MinerRecord, its Evidence inlined; at is the epoch whose frontier
   composite_score was computed from. *)
Record == [hotkey : Hotkeys, seen : Nat, missed : Nat, head : Heads,
           answered : SUBSET Epochs, unanswered : SUBSET Epochs, at : Epochs]

ASSUME NoRecordAssumption == NoRecord \notin Record

TypeOK ==
  /\ epoch \in 0..MaxEpoch
  /\ occupant \in [Uids -> Hotkeys]
  /\ records \in [Uids -> Record \cup {NoRecord}]
  /\ prev \in [Uids -> 0..MaxFalls]
  /\ taken \subseteq scored /\ scored \subseteq Epochs
  /\ proved \subseteq Epochs \X Hotkeys \X Heads

(* A hotkey is registered at one UID at most. *)
Metagraph == {o \in [Uids -> Hotkeys] : \A u, v \in Uids : o[u] = o[v] => u = v}

Init ==
  /\ epoch = 0 /\ occupant \in Metagraph
  /\ records = [u \in Uids |-> NoRecord]
  /\ prev = [u \in Uids |-> 0]
  /\ taken = {} /\ scored = {} /\ proved = {}

-----------------------------------------------------------------------------
(* The chain gives a UID to a newcomer. *)
Recycle ==
  \E u \in Uids : \E h \in Hotkeys \ {occupant[v] : v \in Uids} :
    /\ occupant' = [occupant EXCEPT ![u] = h]
    /\ UNCHANGED <<epoch, records, weights, scored, proved>>

-----------------------------------------------------------------------------
(* update_scores, for the epoch now = epoch + 1 *)

(* _refresh: the score is recomputed against this epoch's frontier. *)
Refresh(rec) == [rec EXCEPT !.at = epoch + 1]

Recycled(u) == records[u] # NoRecord /\ records[u].hotkey # occupant[u]

(* Mutant of Known: the record stays with the UID. *)
KnownByUid(u) == records[u] # NoRecord

(* The record of u, when its hotkey is still the one registered at u. *)
Known(u) == records[u] # NoRecord /\ ~Recycled(u)

Blank(u, head) ==
  [hotkey |-> occupant[u], head |-> head, seen |-> 0, missed |-> 0,
   answered |-> {}, unanswered |-> {}, at |-> epoch + 1]

(* accumulate_epoch: another head starts its evidence afresh. *)
Kept(u, head) ==
  IF ~Known(u) THEN Blank(u, head)
  ELSE IF records[u].head = head THEN records[u]
  ELSE [Blank(u, head) EXCEPT !.seen = records[u].seen]

(* The record of a UID whose proof verified. *)
Counted(u, head) ==
  Refresh([Kept(u, head) EXCEPT !.hotkey = occupant[u], !.seen = @ + 1, !.missed = 0,
                                !.answered = @ \cup {epoch + 1}])

(* Mutant of Missed: nothing is added once the miner is past the bound. *)
MissedUpToBound(rec) ==
  IF rec = NoRecord THEN NoRecord
  ELSE IF rec.missed >= MaxMissed THEN Refresh(rec)
  ELSE Refresh([rec EXCEPT !.missed = @ + 1, !.unanswered = @ \cup {epoch + 1}])

(* Mutant of Missed: the score is left as it was. *)
MissedNotRefreshed(rec) ==
  IF rec = NoRecord THEN NoRecord
  ELSE [rec EXCEPT !.missed = @ + 1, !.unanswered = @ \cup {epoch + 1}]

(* apply_miss: the epoch's questions count as answered wrong.  It applies to
   every record without a verified proof, and so to that of a hotkey no longer
   at the UID: only verified UIDs are compared with the metagraph. *)
Missed(rec) ==
  IF rec = NoRecord THEN NoRecord
  ELSE Refresh([rec EXCEPT !.missed = @ + 1, !.unanswered = @ \cup {epoch + 1}])

(* Mutant of Eligible: one epoch more. *)
EligibleLonger(rec) == rec # NoRecord /\ rec.missed <= MaxMissed

(* compute_weights: a record can earn weight unless its miner has been away. *)
Eligible(rec) == rec # NoRecord /\ rec.missed < MaxMissed

(* cap_weight_change: a weight above the cap is not taken at once, and what
   compute_weights leaves out falls from where it was. *)
Capped(u, rec) ==
  {c \in 0..MaxFalls :
     /\ prev[u] > 1 => c > 0
     /\ ~Eligible(rec) => c < prev[u] \/ (prev[u] = 0 /\ c = 0)}

(* compute_weights, cap_weight_change and set_weights_with_retry: the next
   vector is capped from this one only if the chain took it. *)
Submit ==
  \/ /\ prev' \in [Uids -> 0..MaxFalls]
     /\ \A u \in Uids : prev'[u] \in Capped(u, records'[u])
     /\ taken' = taken \cup {epoch + 1}
  \/ UNCHANGED <<prev, taken>>

(* An epoch with a verified proof, committed: update_scores and the
   submission. *)
Score ==
  /\ epoch < MaxEpoch
  /\ \E verified \in SUBSET Uids \ {{}} : \E head \in [verified -> Heads] :
       /\ records' = [u \in Uids |-> IF u \in verified THEN Counted(u, head[u])
                                                       ELSE Missed(records[u])]
       /\ proved' = proved \cup {<<epoch + 1, occupant[u], head[u]>> : u \in verified}
  /\ Submit
  /\ epoch' = epoch + 1 /\ scored' = scored \cup {epoch + 1}
  /\ UNCHANGED occupant

(* An epoch in which no proof verified is over before update_scores. *)
NoProofs ==
  /\ epoch < MaxEpoch /\ epoch' = epoch + 1
  /\ UNCHANGED <<occupant, records, weights, scored, proved>>

Next == Recycle \/ Score \/ NoProofs

Spec == Init /\ [][Next]_vars

-----------------------------------------------------------------------------
Paid == {u \in Uids : prev[u] > 0}

Held == {u \in Uids : records[u] # NoRecord}

Evidence(rec) == rec.answered \cup rec.unanswered

(* Whatever UIDs are recycled, heads replaced and epochs missed, every epoch a
   record counts as answered is one for which the record's own hotkey had a
   proof of the record's own head verified, and it claims no more epochs than
   that hotkey proved. *)
EvidenceIsOwn ==
  \A u \in Held :
    /\ \A e \in records[u].answered : <<e, records[u].hotkey, records[u].head>> \in proved
    /\ records[u].seen <= Cardinality({p \in proved : p[2] = records[u].hotkey})

(* From the first epoch a record counts, it counts every epoch the validator
   scored: a miner cannot choose the epochs it is judged by. *)
NoGaps ==
  \A u \in Held : \A e \in Evidence(records[u]), f \in scored :
    f > e => f \in Evidence(records[u])

(* A UID has weight on chain only if the hotkey on its record had its head proved, and
   fewer than MaxMissed + MaxFalls - 1 updates of the weights were taken since:
   the liveness bound ends what an absent or recycled miner earns, the cap
   lets go of what it held, and a submission that failed counts for neither. *)
PaidIsRecent ==
  \A u \in Paid : \E e \in scored :
    /\ <<e, records[u].hotkey, records[u].head>> \in proved
    /\ Cardinality({f \in taken : f > e}) < MaxMissed + MaxFalls - 1

(* The scores that share one weight vector are measured against one frontier,
   that of the last epoch scored, absent miners' included. *)
OneFrontier ==
  \A u \in Held : records[u].at \in scored /\ \A e \in scored : e <= records[u].at

(* What the validator remembers of each miner is that miner's own. *)
RecordsAreOwn == TypeOK /\ EvidenceIsOwn

=============================================================================
