-------------------------- MODULE MinerRecordsProofs --------------------------
(***************************************************************************)
(* Proofs about MinerRecords, for any number of UIDs, hotkeys, heads and   *)
(* epochs and any liveness bound; and about Dedup, for any heads and any   *)
(* relation of likeness between them.                                      *)
(***************************************************************************)
EXTENDS MinerRecords, Dedup, FiniteSetTheorems, TLAPS

(* The history is of the epochs processed, and finite. *)
History ==
  /\ \A e \in scored : e <= epoch
  /\ \A p \in proved : p[1] <= epoch
  /\ IsFiniteSet(proved)

(* A record counts only epochs scored; NoGaps needs it of the epoch to come. *)
CountsScored == \A u \in Held : Evidence(records[u]) \subseteq scored

(* What PaidIsRecent needs of every record, paid or not: the misses it states
   are at least the epochs scored since its head was last proved, and each
   update taken since then, from the liveness bound on, took its weight at
   least one step down. *)
LastAnswer ==
  \A u \in Held : \E e \in scored :
    /\ <<e, records[u].hotkey, records[u].head>> \in proved
    /\ Cardinality({f \in scored : f > e}) <= records[u].missed
    /\ prev[u] > 0 =>
         Cardinality({f \in taken : f > e}) + prev[u] <= MaxMissed + MaxFalls - 1

(* Whoever has weight has a record. *)
PaidAreHeld == Paid \subseteq Held

IInv == /\ TypeOK /\ History /\ CountsScored /\ LastAnswer /\ PaidAreHeld
        /\ EvidenceIsOwn /\ NoGaps /\ OneFrontier /\ PaidIsRecent

(* There are no records yet. *)
LEMMA InitIInv == Init => IInv
<1> SUFFICES ASSUME Init PROVE IInv
  OBVIOUS
<1> USE DEF Init
<1>1. Held = {}
  BY DEF Held
<1>2. TypeOK
  BY RecordAssumption DEF TypeOK, Metagraph
<1>3. History
  BY FS_EmptySet DEF History
<1>4. Paid = {}
  BY DEF Paid
<1> QED
  BY <1>1, <1>2, <1>3, <1>4
  DEF IInv, CountsScored, LastAnswer, PaidAreHeld, EvidenceIsOwn, NoGaps, OneFrontier,
      PaidIsRecent

-----------------------------------------------------------------------------
(* The epoch being scored is one, and follows all that were. *)
LEMMA NewEpoch ==
  ASSUME TypeOK, epoch < MaxEpoch
  PROVE  epoch \in Nat /\ epoch + 1 \in Epochs
  BY RecordAssumption DEF TypeOK, Epochs

Renewed(rec, h, s, a, e) ==
  [rec EXCEPT !.hotkey = h, !.seen = s, !.missed = 0, !.answered = a, !.at = e]

Absent(rec, m, n, e) == [rec EXCEPT !.missed = m, !.unanswered = n, !.at = e]

(* Replacing fields of a record by values of their kinds gives a record. *)
LEMMA RenewedFields ==
  ASSUME NEW rec \in Record, NEW h \in Hotkeys, NEW s \in Nat,
         NEW a \in SUBSET Epochs, NEW e \in Epochs
  PROVE  LET r == Renewed(rec, h, s, a, e)
         IN  /\ r \in Record
             /\ r.hotkey = h /\ r.seen = s /\ r.missed = 0 /\ r.answered = a /\ r.at = e
             /\ r.head = rec.head /\ r.unanswered = rec.unanswered
  BY DEF Record, Renewed

(* What an absence changes of a record. *)
LEMMA AbsentFields ==
  ASSUME NEW rec \in Record, NEW m \in Nat, NEW n \in SUBSET Epochs, NEW e \in Epochs
  PROVE  LET r == Absent(rec, m, n, e)
         IN  /\ r \in Record
             /\ r.missed = m /\ r.unanswered = n /\ r.at = e
             /\ r.hotkey = rec.hotkey /\ r.seen = rec.seen
             /\ r.head = rec.head /\ r.answered = rec.answered
  BY DEF Record, Absent

(* What accumulate_epoch makes of a record. *)
LEMMA CountedFields ==
  ASSUME TypeOK, epoch < MaxEpoch, NEW u \in Uids, NEW head \in Heads
  PROVE  LET rec == Counted(u, head)
             again == Known(u) /\ records[u].head = head
         IN  /\ rec \in Record
             /\ rec.hotkey = occupant[u] /\ rec.head = head
             /\ rec.missed = 0 /\ rec.at = epoch + 1
             /\ rec.seen = IF Known(u) THEN records[u].seen + 1 ELSE 1
             /\ again => /\ rec.answered = records[u].answered \cup {epoch + 1}
                         /\ rec.unanswered = records[u].unanswered
             /\ ~again => rec.answered = {epoch + 1} /\ rec.unanswered = {}
<1>1. epoch \in Nat /\ epoch + 1 \in Epochs /\ occupant[u] \in Hotkeys
  BY NewEpoch DEF TypeOK
<1>2. Known(u) => records[u] \in Record
  BY DEF Known, TypeOK
<1>3. Blank(u, head) \in Record
  BY <1>1 DEF Blank, Record
<1>4. /\ Kept(u, head) \in Record
      /\ Kept(u, head).head = head
      /\ Kept(u, head).seen = IF Known(u) THEN records[u].seen ELSE 0
      /\ Known(u) /\ records[u].head = head => Kept(u, head) = records[u]
      /\ ~(Known(u) /\ records[u].head = head) =>
           Kept(u, head).answered = {} /\ Kept(u, head).unanswered = {}
  <2>1. CASE ~Known(u)
    BY <2>1, <1>3 DEF Kept, Blank
  <2>2. CASE Known(u) /\ records[u].head = head
    BY <2>2, <1>2 DEF Kept
  <2>3. CASE Known(u) /\ records[u].head # head
    <3>1. Kept(u, head) = [Blank(u, head) EXCEPT !.seen = records[u].seen]
      BY <2>3 DEF Kept
    <3> QED
      BY <2>3, <3>1, <1>1, <1>2 DEF Blank, Record
  <2> QED
    BY <2>1, <2>2, <2>3
<1> DEFINE k == Kept(u, head)
<1> DEFINE all == k.answered \cup {epoch + 1}
<1>5. k \in Record /\ all \in SUBSET Epochs /\ k.seen + 1 \in Nat
  BY <1>1, <1>4 DEF Record
<1>6. Counted(u, head) = Renewed(k, occupant[u], k.seen + 1, all, epoch + 1)
  BY <1>4 DEF Counted, Refresh, Record, Renewed
<1> HIDE DEF k, all
<1>7. /\ Counted(u, head) \in Record
      /\ Counted(u, head).hotkey = occupant[u] /\ Counted(u, head).head = k.head
      /\ Counted(u, head).missed = 0 /\ Counted(u, head).at = epoch + 1
      /\ Counted(u, head).seen = k.seen + 1
      /\ Counted(u, head).answered = all /\ Counted(u, head).unanswered = k.unanswered
  BY <1>1, <1>5, <1>6, RenewedFields
<1>8. /\ Counted(u, head).head = head
      /\ Counted(u, head).seen = IF Known(u) THEN records[u].seen + 1 ELSE 1
  BY <1>2, <1>4, <1>7 DEF k, Record
<1>9. /\ Known(u) /\ records[u].head = head =>
           /\ Counted(u, head).answered = records[u].answered \cup {epoch + 1}
           /\ Counted(u, head).unanswered = records[u].unanswered
      /\ ~(Known(u) /\ records[u].head = head) =>
           Counted(u, head).answered = {epoch + 1} /\ Counted(u, head).unanswered = {}
  BY <1>4, <1>7 DEF k, all
<1> QED
  BY <1>7, <1>8, <1>9

(* What apply_miss makes of one. *)
LEMMA MissedFields ==
  ASSUME TypeOK, epoch < MaxEpoch, NEW rec \in Record, rec # NoRecord
  PROVE  /\ Missed(rec) \in Record
         /\ Missed(rec).hotkey = rec.hotkey /\ Missed(rec).head = rec.head
         /\ Missed(rec).missed = rec.missed + 1 /\ Missed(rec).at = epoch + 1
         /\ Missed(rec).seen = rec.seen /\ Missed(rec).answered = rec.answered
         /\ Missed(rec).unanswered = rec.unanswered \cup {epoch + 1}
<1> DEFINE away == rec.unanswered \cup {epoch + 1}
<1>1. epoch + 1 \in Epochs /\ away \in SUBSET Epochs /\ rec.missed + 1 \in Nat
  BY NewEpoch DEF Record
<1>2. Missed(rec) = Absent(rec, rec.missed + 1, away, epoch + 1)
  BY DEF Missed, Refresh, Record, Absent
<1> HIDE DEF away
<1>3. /\ Missed(rec) \in Record
      /\ Missed(rec).hotkey = rec.hotkey /\ Missed(rec).head = rec.head
      /\ Missed(rec).missed = rec.missed + 1 /\ Missed(rec).at = epoch + 1
      /\ Missed(rec).seen = rec.seen /\ Missed(rec).answered = rec.answered
      /\ Missed(rec).unanswered = away
  BY <1>1, <1>2, AbsentFields
<1> QED
  BY <1>3 DEF away

-----------------------------------------------------------------------------
Since(S, e) == {f \in S : f > e}
ProofsOf(S, h) == {p \in S : p[2] = h}

(* The epochs scored, or taken, since an epoch, when one more is. *)
LEMMA OneMoreSince ==
  ASSUME TypeOK, History, NEW S \in SUBSET scored, NEW e \in scored
  PROVE  /\ IsFiniteSet(S)
         /\ Cardinality(Since(S, e)) \in Nat
         /\ Cardinality(Since(S \cup {epoch + 1}, e)) \in Nat
         /\ Cardinality(Since(S \cup {epoch + 1}, e)) <= Cardinality(Since(S, e)) + 1
<1>1. IsFiniteSet(S)
  <2>1. epoch \in Int /\ S \in SUBSET (1..epoch)
    BY RecordAssumption DEF TypeOK, History, Epochs
  <2>2. IsFiniteSet(1..epoch)
    BY <2>1, FS_Interval
  <2> QED
    BY <2>1, <2>2, FS_Subset
<1>2. IsFiniteSet(Since(S, e)) /\ Cardinality(Since(S, e)) \in Nat
  <2>1. Since(S, e) \in SUBSET S
    BY DEF Since
  <2> QED
    BY <1>1, <2>1, FS_Subset, FS_CardinalityType
<1>3. Since(S \cup {epoch + 1}, e) = Since(S, e) \cup {epoch + 1}
  <2>1. epoch + 1 > e
    BY RecordAssumption DEF TypeOK, History, Epochs
  <2> QED
    BY <2>1 DEF Since
<1>4. /\ Cardinality(Since(S, e) \cup {epoch + 1}) <= Cardinality(Since(S, e)) + 1
      /\ Cardinality(Since(S, e) \cup {epoch + 1}) \in Nat
  <2> DEFINE Q == Since(S, e)
             R == Q \cup {epoch + 1}
  <2>1. IsFiniteSet(Q) /\ Cardinality(Q) \in Nat
    BY <1>2
  <2> SUFFICES Cardinality(R) <= Cardinality(Q) + 1 /\ Cardinality(R) \in Nat
    OBVIOUS
  <2> HIDE DEF Q
  <2>2. CASE epoch + 1 \in Q
    <3>1. R = Q
      BY <2>2
    <3> HIDE DEF R
    <3> QED BY <2>1, <3>1
  <2>3. CASE epoch + 1 \notin Q
    <3>1. Cardinality(R) = Cardinality(Q) + 1
      BY <2>1, <2>3, FS_AddElement
    <3> HIDE DEF R
    <3> QED BY <2>1, <3>1
  <2> QED BY <2>2, <2>3
<1> QED
  BY <1>1, <1>2, <1>3, <1>4

(* No more updates are taken since an epoch than epochs are scored. *)
LEMMA TakenAreScored ==
  ASSUME NEW S, IsFiniteSet(S), NEW T \in SUBSET S, NEW e
  PROVE  Cardinality(Since(T, e)) <= Cardinality(Since(S, e))
<1>1. Since(T, e) \in SUBSET Since(S, e) /\ Since(S, e) \in SUBSET S
  BY DEF Since
<1> QED
  BY <1>1, FS_Subset

(* Proofs once verified are never fewer. *)
LEMMA NoFewerProofs ==
  ASSUME History, NEW more, IsFiniteSet(more), proved \subseteq more, NEW h
  PROVE  /\ Cardinality(ProofsOf(proved, h)) \in Nat
         /\ Cardinality(ProofsOf(more, h)) \in Nat
         /\ Cardinality(ProofsOf(proved, h)) <= Cardinality(ProofsOf(more, h))
<1>1. /\ ProofsOf(more, h) \in SUBSET more
      /\ ProofsOf(proved, h) \in SUBSET ProofsOf(more, h)
  BY DEF ProofsOf
<1>2. IsFiniteSet(ProofsOf(more, h))
  BY <1>1, FS_Subset
<1> QED
  BY <1>1, <1>2, FS_Subset, FS_CardinalityType

(* One more proof of a hotkey is one more. *)
LEMMA OneMoreProof ==
  ASSUME History, epoch \in Nat, NEW more, IsFiniteSet(more), proved \subseteq more,
         NEW h, NEW d, <<epoch + 1, h, d>> \in more
  PROVE  Cardinality(ProofsOf(proved, h)) + 1 <= Cardinality(ProofsOf(more, h))
<1> DEFINE new == <<epoch + 1, h, d>>
           own == ProofsOf(proved, h)
<1>1. IsFiniteSet(own) /\ Cardinality(own) \in Nat /\ new \notin own
  <2>1. own \in SUBSET proved
    BY DEF ProofsOf
  <2> QED
    BY <2>1, FS_Subset, FS_CardinalityType DEF History
<1>2. Cardinality(own \cup {new}) = Cardinality(own) + 1
  BY <1>1, FS_AddElement
<1>3. /\ own \cup {new} \in SUBSET ProofsOf(more, h)
      /\ ProofsOf(more, h) \in SUBSET more
  BY DEF ProofsOf
<1>4. Cardinality(own \cup {new}) <= Cardinality(ProofsOf(more, h))
  BY <1>3, FS_Subset
<1> QED
  BY <1>2, <1>4

(* The epochs scored are numbers before the epoch being scored. *)
LEMMA PastEpochs ==
  ASSUME TypeOK, History
  PROVE  /\ epoch \in Nat
         /\ \A e \in scored : e \in Nat /\ e <= epoch /\ e < epoch + 1
<1>1. epoch \in Nat
  BY RecordAssumption DEF TypeOK
<1>2. \A e \in scored : e \in Nat
  BY RecordAssumption DEF TypeOK, Epochs
<1>3. \A e \in scored : e <= epoch
  BY DEF History
<1> QED
  BY <1>1, <1>2, <1>3

(* An epoch scored preserves everything. *)
LEMMA ScoreIInv ==
  ASSUME IInv, Score
  PROVE  IInv'
<1> DEFINE now == epoch + 1
<1>0. PICK verified \in SUBSET Uids \ {{}} : \E head \in [verified -> Heads] :
        /\ records' = [u \in Uids |-> IF u \in verified THEN Counted(u, head[u])
                                                        ELSE Missed(records[u])]
        /\ proved' = proved \cup {<<epoch + 1, occupant[u], head[u]>> : u \in verified}
  BY DEF Score
<1>1. PICK head \in [verified -> Heads] :
        /\ records' = [u \in Uids |-> IF u \in verified THEN Counted(u, head[u])
                                                        ELSE Missed(records[u])]
        /\ proved' = proved \cup {<<epoch + 1, occupant[u], head[u]>> : u \in verified}
  BY <1>0
<1>2. /\ epoch < MaxEpoch /\ epoch' = now /\ scored' = scored \cup {now}
      /\ occupant' = occupant
  BY DEF Score
<1>2a. \/ /\ prev' \in [Uids -> 0..MaxFalls] /\ taken' = taken \cup {now}
          /\ \A u \in Uids : prev'[u] \in Capped(u, records'[u])
       \/ prev' = prev /\ taken' = taken
  BY DEF Score, Submit
<1>3. TypeOK /\ epoch \in Nat /\ now \in Epochs
  BY <1>2, NewEpoch DEF IInv
<1>3a. \A e \in scored' : e \in Nat /\ e <= now
  <2>1. \A e \in scored : e \in Nat /\ e < now
    BY <1>3, PastEpochs DEF IInv
  <2> QED
    BY <2>1, <1>2, <1>3
<1>4. ASSUME NEW u \in verified
      PROVE  /\ records'[u] = Counted(u, head[u]) /\ head[u] \in Heads /\ u \in Uids
             /\ records'[u] \in Record
             /\ records'[u].hotkey = occupant[u] /\ records'[u].head = head[u]
             /\ records'[u].missed = 0 /\ records'[u].at = now
             /\ records'[u].seen = IF Known(u) THEN records[u].seen + 1 ELSE 1
             /\ Known(u) /\ records[u].head = head[u] =>
                  /\ records'[u].answered = records[u].answered \cup {now}
                  /\ records'[u].unanswered = records[u].unanswered
             /\ ~(Known(u) /\ records[u].head = head[u]) =>
                  records'[u].answered = {now} /\ records'[u].unanswered = {}
             /\ <<now, occupant[u], head[u]>> \in proved'
  <2>1. u \in Uids /\ head[u] \in Heads /\ records'[u] = Counted(u, head[u])
    BY <1>1
  <2>2. <<now, occupant[u], head[u]>> \in proved'
    BY <1>1
  <2> QED
    BY <1>2, <1>3, <2>1, <2>2, CountedFields
<1>5. ASSUME NEW u \in Uids, u \notin verified, records'[u] # NoRecord
      PROVE  /\ u \in Held /\ records[u] \in Record /\ records'[u] \in Record
             /\ records'[u].hotkey = records[u].hotkey /\ records'[u].head = records[u].head
             /\ records'[u].missed = records[u].missed + 1 /\ records'[u].at = now
             /\ records'[u].seen = records[u].seen
             /\ records'[u].answered = records[u].answered
             /\ records'[u].unanswered = records[u].unanswered \cup {now}
  <2>1. records'[u] = Missed(records[u])
    BY <1>1, <1>5
  <2>2. records[u] # NoRecord
    BY <1>5, <2>1 DEF Missed
  <2>3. u \in Held /\ records[u] \in Record
    BY <1>3, <2>2 DEF TypeOK, Held
  <2> QED
    BY <1>2, <1>3, <2>1, <2>2, <2>3, MissedFields
<1>6. TypeOK'
  <2>1. records' \in [Uids -> Record \cup {NoRecord}]
    BY <1>1, <1>4, <1>5
  <2>2. proved' \subseteq Epochs \X Hotkeys \X Heads
    BY <1>1, <1>3, <1>4 DEF TypeOK
  <2>3. epoch' \in 0..MaxEpoch /\ epoch' \in Epochs
    BY <1>2, <1>3, RecordAssumption DEF TypeOK, Epochs
  <2>4. /\ scored' \subseteq Epochs /\ taken' \subseteq scored'
        /\ prev' \in [Uids -> 0..MaxFalls]
    BY <1>2, <1>2a, <1>3, <2>3 DEF TypeOK
  <2> QED
    BY <1>2, <1>3, <2>1, <2>2, <2>3, <2>4 DEF TypeOK
<1>7. History'
  <2>1. \A p \in proved' : p[1] <= epoch'
    BY <1>1, <1>2, <1>3 DEF IInv, History, TypeOK, Epochs
  <2>2. \A e \in scored' : e <= epoch'
    BY <1>2, <1>3a
  <2> DEFINE new == {<<epoch + 1, occupant[u], head[u]>> : u \in verified}
             f == [u \in verified |-> <<epoch + 1, occupant[u], head[u]>>]
  <2>3. IsFiniteSet(verified)
    BY RecordAssumption, FS_Subset
  <2>4. f \in Surjection(verified, new)
    BY DEF Surjection
  <2>5. IsFiniteSet(new)
    BY <2>3, <2>4, FS_Surjection
  <2>6. IsFiniteSet(proved')
    BY <1>1, <2>5, FS_Union DEF IInv, History
  <2> QED
    BY <2>1, <2>2, <2>6 DEF History
<1>8. ASSUME NEW u \in Uids, Known(u)
      PROVE  u \in Held /\ records[u] \in Record /\ records[u].hotkey = occupant[u]
  BY <1>3, <1>8 DEF Known, Recycled, Held, TypeOK
<1> DEFINE same(u) == Known(u) /\ records[u].head = head[u]
<1>9. ASSUME NEW u \in verified, same(u)
      PROVE  /\ u \in Held
             /\ records'[u].answered = records[u].answered \cup {now}
             /\ records'[u].unanswered = records[u].unanswered
             /\ records'[u].hotkey = records[u].hotkey /\ records'[u].head = records[u].head
             /\ <<now, records'[u].hotkey, records'[u].head>> \in proved'
  <2>1. u \in Uids /\ Known(u) /\ records[u].head = head[u]
    BY <1>9, <1>4
  <2> QED
    BY <2>1, <1>4, <1>8
<1>10. ASSUME NEW u \in verified, ~same(u)
      PROVE  /\ records'[u].answered = {now} /\ records'[u].unanswered = {}
             /\ <<now, records'[u].hotkey, records'[u].head>> \in proved'
  BY <1>10, <1>4
<1> HIDE DEF same
<1>11. CountsScored'
  <2> SUFFICES ASSUME NEW u \in Uids, records'[u] # NoRecord
               PROVE  Evidence(records'[u]) \subseteq scored'
    BY DEF CountsScored, Held, Evidence
  <2>1. CASE u \in verified
    BY <2>1, <1>2, <1>4, <1>8 DEF IInv, CountsScored, Evidence
  <2>2. CASE u \notin verified
    BY <2>2, <1>2, <1>5 DEF IInv, CountsScored, Evidence
  <2> QED
    BY <2>1, <2>2
<1>12. NoGaps'
  <2> SUFFICES ASSUME NEW u \in Uids, records'[u] # NoRecord,
                      NEW e \in Evidence(records'[u]), NEW f \in scored', f > e
               PROVE  f \in Evidence(records'[u])
    BY DEF NoGaps, Held, Evidence
  <2>1. now \in Evidence(records'[u])
    BY <1>4, <1>5 DEF Evidence
  <2>2. CASE f = now
    BY <2>1, <2>2
  <2>3. CASE f \in scored
    <3>1. e # now
      <4>1. f \in Nat /\ f < now
        BY <2>3, <1>3, PastEpochs DEF IInv
      <4> QED
        BY <4>1, <1>3
    <3>2. /\ u \in Held /\ e \in Evidence(records[u])
          /\ Evidence(records[u]) \subseteq Evidence(records'[u])
      <4>1. CASE u \in verified /\ same(u)
        BY <4>1, <3>1, <1>9 DEF Evidence
      <4>2. CASE u \in verified /\ ~same(u)
        BY <4>2, <3>1, <1>10 DEF Evidence
      <4>3. CASE u \notin verified
        BY <4>3, <3>1, <1>5 DEF Evidence
      <4> QED
        BY <4>1, <4>2, <4>3
    <3> QED
      BY <2>3, <3>2 DEF IInv, NoGaps
  <2> QED
    BY <1>2, <2>2, <2>3
<1>13. EvidenceIsOwn'
  <2> SUFFICES ASSUME NEW u \in Uids, records'[u] # NoRecord
               PROVE  /\ \A e \in records'[u].answered :
                           <<e, records'[u].hotkey, records'[u].head>> \in proved'
                      /\ records'[u].seen <= Cardinality(ProofsOf(proved', records'[u].hotkey))
    BY DEF EvidenceIsOwn, Held, ProofsOf
  <2>1. proved \subseteq proved' /\ IsFiniteSet(proved') /\ History
    BY <1>1, <1>7 DEF History, IInv
  <2>2. ASSUME u \in Held
        PROVE  /\ records[u] \in Record
               /\ records[u].seen <= Cardinality(ProofsOf(proved, records[u].hotkey))
               /\ \A e \in records[u].answered :
                    <<e, records[u].hotkey, records[u].head>> \in proved'
    BY <2>1, <2>2, <1>3 DEF IInv, EvidenceIsOwn, ProofsOf, Held, TypeOK
  <2>3. CASE u \in verified
    <3>1. \A e \in records'[u].answered :
            <<e, records'[u].hotkey, records'[u].head>> \in proved'
      <4>1. CASE same(u)
        BY <4>1, <2>2, <2>3, <1>9
      <4>2. CASE ~same(u)
        BY <4>2, <2>3, <1>10
      <4> QED
        BY <4>1, <4>2
    <3>2. /\ Cardinality(ProofsOf(proved, occupant[u])) \in Nat
          /\ Cardinality(ProofsOf(proved', occupant[u])) \in Nat
          /\ Cardinality(ProofsOf(proved, occupant[u])) + 1
               <= Cardinality(ProofsOf(proved', occupant[u]))
      <4>1. <<epoch + 1, occupant[u], head[u]>> \in proved'
        BY <2>3, <1>4
      <4> QED
        BY <4>1, <2>1, <1>3, NoFewerProofs, OneMoreProof
    <3>3. CASE Known(u)
      <4>1. /\ records[u].hotkey = occupant[u] /\ records[u].seen \in Nat
            /\ records[u].seen <= Cardinality(ProofsOf(proved, occupant[u]))
        BY <3>3, <2>2, <1>8 DEF Record
      <4>2. records'[u].hotkey = occupant[u] /\ records'[u].seen = records[u].seen + 1
        BY <3>3, <2>3, <1>4
      <4> QED
        BY <4>1, <4>2, <3>1, <3>2
    <3>4. CASE ~Known(u)
      <4>1. records'[u].hotkey = occupant[u] /\ records'[u].seen = 1
        BY <3>4, <2>3, <1>4
      <4> QED
        BY <4>1, <3>1, <3>2
    <3> QED
      BY <3>3, <3>4
  <2>4. CASE u \notin verified
    <3>1. /\ records'[u].hotkey = records[u].hotkey /\ records'[u].head = records[u].head
          /\ records'[u].seen = records[u].seen /\ records'[u].answered = records[u].answered
          /\ u \in Held
      BY <2>4, <1>5
    <3>2. /\ records[u].seen \in Nat
          /\ records[u].seen <= Cardinality(ProofsOf(proved, records[u].hotkey))
          /\ \A e \in records[u].answered :
               <<e, records[u].hotkey, records[u].head>> \in proved'
      BY <3>1, <2>2 DEF Record
    <3>3. /\ Cardinality(ProofsOf(proved, records[u].hotkey)) \in Nat
          /\ Cardinality(ProofsOf(proved', records[u].hotkey)) \in Nat
          /\ Cardinality(ProofsOf(proved, records[u].hotkey))
               <= Cardinality(ProofsOf(proved', records[u].hotkey))
      BY <2>1, NoFewerProofs
    <3> QED
      BY <3>1, <3>2, <3>3
  <2> QED
    BY <2>3, <2>4
<1>14. ASSUME NEW u \in Uids, taken' = taken \cup {now}, prev'[u] > 0
       PROVE  \/ Eligible(records'[u])
              \/ prev'[u] < prev[u] /\ prev[u] > 0
  <2>1. prev'[u] \in Capped(u, records'[u])
    <3>1. now \notin taken
      <4>1. \A e \in scored : e < now
        BY <1>3, PastEpochs DEF IInv
      <4> QED BY <4>1, <1>3 DEF TypeOK
    <3> QED BY <1>2a, <1>14, <3>1
  <2>2. prev[u] \in 0..MaxFalls /\ prev'[u] \in 0..MaxFalls
    BY <1>3, <1>6, RecordAssumption DEF TypeOK
  <2> QED
    BY <2>1, <2>2, <1>14, RecordAssumption DEF Capped
<1>14a. LastAnswer'
  <2> DEFINE most == MaxMissed + MaxFalls - 1
  <2> SUFFICES ASSUME NEW u \in Uids, records'[u] # NoRecord
               PROVE  \E e \in scored' :
                        /\ <<e, records'[u].hotkey, records'[u].head>> \in proved'
                        /\ Cardinality(Since(scored', e)) <= records'[u].missed
                        /\ prev'[u] > 0 => Cardinality(Since(taken', e)) + prev'[u] <= most
    BY DEF LastAnswer, Held, Since
  <2>0. prev[u] \in 0..MaxFalls /\ prev'[u] \in 0..MaxFalls
    BY <1>3, <1>6 DEF TypeOK
  <2>1. CASE u \in verified
    <3>1. \A f \in scored' : ~(f > now)
      BY <1>3a, <1>3
    <3>2. Cardinality(Since(scored', now)) <= records'[u].missed
      <4>1. Since(scored', now) = {}
        BY <3>1 DEF Since
      <4>2. Cardinality(Since(scored', now)) = 0 /\ records'[u].missed = 0
        BY <4>1, <2>1, <1>4, FS_EmptySet
      <4> QED
        BY <4>2
    <3>3. Cardinality(Since(taken', now)) = 0
      <4>1. Since(taken', now) = {}
        BY <3>1, <1>6 DEF Since, TypeOK
      <4> QED
        BY <4>1, FS_EmptySet
    <3>4. /\ now \in scored'
          /\ <<now, records'[u].hotkey, records'[u].head>> \in proved'
      BY <2>1, <1>2, <1>4
    <3>5. Cardinality(Since(taken', now)) + prev'[u] <= most
      BY <2>0, <3>3, RecordAssumption
    <3> QED
      BY <3>2, <3>4, <3>5
  <2>2. CASE u \notin verified
    <3>1. u \in Held /\ records[u].missed \in Nat
      BY <2>2, <1>5 DEF Record
    <3>2. PICK e \in scored :
            /\ <<e, records[u].hotkey, records[u].head>> \in proved
            /\ Cardinality(Since(scored, e)) <= records[u].missed
            /\ prev[u] > 0 => Cardinality(Since(taken, e)) + prev[u] <= most
      BY <3>1 DEF IInv, LastAnswer, Since
    <3>3. /\ Cardinality(Since(scored, e)) \in Nat
          /\ Cardinality(Since(scored', e)) \in Nat
          /\ Cardinality(Since(scored', e)) <= Cardinality(Since(scored, e)) + 1
          /\ IsFiniteSet(scored')
      <4>1. IsFiniteSet(scored)
        BY OneMoreSince DEF IInv
      <4>2. IsFiniteSet(scored')
        BY <4>1, <1>2, FS_AddElement
      <4> QED
        BY <4>2, <1>2, OneMoreSince DEF IInv
    <3>4. Cardinality(Since(scored', e)) <= records'[u].missed
      BY <3>1, <3>2, <3>3, <2>2, <1>5
    <3>5. ASSUME prev'[u] > 0 PROVE Cardinality(Since(taken', e)) + prev'[u] <= most
      <4>0. taken \in SUBSET scored /\ Cardinality(Since(taken, e)) \in Nat
        BY <1>3, OneMoreSince DEF IInv, TypeOK
      <4>1. CASE prev' = prev /\ taken' = taken
        BY <4>1, <3>2, <3>5
      <4>2. CASE taken' = taken \cup {now}
        <5>1. /\ Cardinality(Since(taken', e)) \in Nat
              /\ Cardinality(Since(taken', e)) <= Cardinality(Since(taken, e)) + 1
          BY <4>0, <4>2, OneMoreSince DEF IInv
        <5>2. CASE Eligible(records'[u])
          <6>1. records'[u].missed < MaxMissed /\ records'[u].missed \in Nat
            BY <5>2, <2>2, <1>5 DEF Eligible, Record
          <6>2. Cardinality(Since(taken', e)) <= Cardinality(Since(scored', e))
            BY <3>3, <1>6, TakenAreScored DEF TypeOK
          <6> QED
            BY <2>0, <3>3, <3>4, <5>1, <6>1, <6>2, RecordAssumption
        <5>3. CASE prev'[u] < prev[u] /\ prev[u] > 0
          <6>1. Cardinality(Since(taken, e)) + prev[u] <= most
            BY <3>2, <5>3
          <6> QED
            BY <2>0, <4>0, <5>1, <5>3, <6>1, RecordAssumption
        <5> QED
          BY <4>2, <3>5, <5>2, <5>3, <1>14
      <4> QED
        BY <4>1, <4>2, <1>2a
    <3>6. /\ e \in scored'
          /\ <<e, records'[u].hotkey, records'[u].head>> \in proved'
      BY <2>2, <3>2, <1>1, <1>2, <1>5
    <3> QED
      BY <3>4, <3>5, <3>6
  <2> QED
    BY <2>1, <2>2
<1>14b. PaidAreHeld'
  <2> SUFFICES ASSUME NEW u \in Uids, prev'[u] > 0 PROVE records'[u] # NoRecord
    BY DEF PaidAreHeld, Paid, Held
  <2>1. CASE u \in verified
    <3>1. records'[u] \in Record
      BY <2>1, <1>4
    <3> QED BY <3>1, NoRecordAssumption
  <2>2. CASE u \notin verified /\ u \in Held
    <3>1. records[u] \in Record /\ records[u] # NoRecord
      BY <2>2, <1>3 DEF Held, TypeOK
    <3>2. records'[u] = Missed(records[u])
      BY <2>2, <1>1
    <3> QED
      BY <3>1, <3>2, <1>2, <1>3, MissedFields, NoRecordAssumption
  <2>3. CASE u \notin verified /\ u \notin Held
    <3>1. ~(prev[u] > 0)
      BY <2>3 DEF IInv, PaidAreHeld, Paid
    <3>2. records'[u] = NoRecord
      BY <2>3, <1>1 DEF Held, Missed
    <3> QED
      BY <3>1, <3>2, <1>2a, <1>14 DEF Eligible
  <2> QED BY <2>1, <2>2, <2>3
<1>15. OneFrontier'
  <2>1. \A u \in Uids : records'[u] # NoRecord => records'[u].at = now
    BY <1>4, <1>5
  <2>2. now \in scored' /\ \A e \in scored' : e <= now
    BY <1>2, <1>3a
  <2> QED
    BY <2>1, <2>2 DEF OneFrontier, Held
<1>16. PaidIsRecent'
  <2> SUFFICES ASSUME NEW u \in Paid'
               PROVE  \E e \in scored' :
                        /\ <<e, records'[u].hotkey, records'[u].head>> \in proved'
                        /\ Cardinality(Since(taken', e)) < MaxMissed + MaxFalls - 1
    BY DEF PaidIsRecent, Since
  <2>1. u \in Uids /\ records'[u] # NoRecord /\ prev'[u] > 0 /\ prev'[u] \in Nat
    BY <1>6, <1>14b, RecordAssumption DEF PaidAreHeld, Paid, Held, TypeOK
  <2>2. PICK e \in scored' :
          /\ <<e, records'[u].hotkey, records'[u].head>> \in proved'
          /\ Cardinality(Since(taken', e)) + prev'[u] <= MaxMissed + MaxFalls - 1
    BY <2>1, <1>14a DEF LastAnswer, Held, Since
  <2>3. Cardinality(Since(taken', e)) \in Nat
    <3>1. epoch' \in Int /\ Since(taken', e) \in SUBSET (1..epoch')
      <4>1. scored' \in SUBSET (1..epoch') /\ epoch' \in Int
        BY <1>6, <1>7, RecordAssumption DEF TypeOK, History, Epochs
      <4>2. taken' \in SUBSET scored'
        BY <1>6 DEF TypeOK
      <4> QED
        BY <4>1, <4>2 DEF Since
    <3>2. IsFiniteSet(1..epoch')
      BY <3>1, FS_Interval
    <3> QED
      BY <3>1, <3>2, FS_Subset, FS_CardinalityType
  <2> QED
    BY <2>1, <2>2, <2>3, RecordAssumption
<1> QED
  BY <1>6, <1>7, <1>11, <1>12, <1>13, <1>14a, <1>14b, <1>15, <1>16 DEF IInv

-----------------------------------------------------------------------------
(* Every step preserves the invariant: the chain's steps and an epoch without
   a proof leave the records and the history alone. *)
LEMMA NextIInv == IInv /\ [Next]_vars => IInv'
<1> SUFFICES ASSUME IInv, [Next]_vars PROVE IInv'
  OBVIOUS
<1>1. CASE Recycle
  <2>1. occupant' \in [Uids -> Hotkeys] /\ UNCHANGED <<epoch, records, weights, scored, proved>>
    BY <1>1 DEF Recycle, IInv, TypeOK
  <2> QED
    BY <2>1 DEF IInv, TypeOK, History, CountsScored, LastAnswer, EvidenceIsOwn, NoGaps,
                OneFrontier, PaidIsRecent, PaidAreHeld, Paid,
                Held, Evidence, weights
<1>2. CASE Score
  BY <1>2, ScoreIInv
<1>3. CASE NoProofs
  <2>1. epoch \in Nat /\ epoch' = epoch + 1 /\ epoch' \in 0..MaxEpoch
        /\ UNCHANGED <<occupant, records, weights, scored, proved>>
    BY <1>3, RecordAssumption DEF NoProofs, IInv, TypeOK
  <2>2. History'
    BY <2>1 DEF IInv, TypeOK, History, Epochs
  <2> QED
    BY <2>1, <2>2 DEF IInv, TypeOK, CountsScored, LastAnswer, EvidenceIsOwn, NoGaps,
                OneFrontier, PaidIsRecent, PaidAreHeld, Paid,
                Held, Evidence, weights
<1>4. CASE UNCHANGED vars
  BY <1>4 DEF vars, IInv, TypeOK, History, CountsScored, LastAnswer, EvidenceIsOwn, NoGaps,
              OneFrontier, PaidIsRecent, PaidAreHeld, Paid,
                Held, Evidence, weights
<1> QED
  BY <1>1, <1>2, <1>3, <1>4 DEF Next

(* The invariant holds of every behaviour. *)
LEMMA SpecIInv == Spec => []IInv
  BY InitIInv, NextIInv, PTL DEF Spec

(* Every record is well formed: the fields update_scores writes stay of their
   kinds. *)
THEOREM TypeCorrect == Spec => []TypeOK
<1>1. IInv => TypeOK
  BY DEF IInv
<1> QED
  BY <1>1, SpecIInv, PTL

(* However UIDs are recycled and heads replaced, a record counts only what its
   own hotkey and head proved (update_scores, accumulate_epoch). *)
THEOREM EvidenceAlwaysOwn == Spec => []EvidenceIsOwn
<1>1. IInv => EvidenceIsOwn
  BY DEF IInv
<1> QED
  BY <1>1, SpecIInv, PTL

(* No scored epoch is left out of a record once it has begun (apply_miss). *)
THEOREM NeverGaps == Spec => []NoGaps
<1>1. IInv => NoGaps
  BY DEF IInv
<1> QED
  BY <1>1, SpecIInv, PTL

(* Pay ends once the head on the record has gone unproved for the liveness
   bound of compute_weights and the updates that cap_weight_change needs. *)
THEOREM PaidAlwaysRecent == Spec => []PaidIsRecent
<1>1. IInv => PaidIsRecent
  BY DEF IInv
<1> QED
  BY <1>1, SpecIInv, PTL

(* All records are always scored against the same frontier (_refresh). *)
THEOREM FrontierAlwaysOne == Spec => []OneFrontier
<1>1. IInv => OneFrontier
  BY DEF IInv
<1> QED
  BY <1>1, SpecIInv, PTL

(* A record is of its own hotkey and head, however UIDs are recycled. *)
THEOREM RecordsAlwaysOwn == Spec => []RecordsAreOwn
BY TypeCorrect, EvidenceAlwaysOwn, PTL DEF RecordsAreOwn

(***************************************************************************)
(* Dedup                                                                   *)
(***************************************************************************)

(* Of two heads one is the senior, and what is given of them stays. *)
LEMMA SeniorityIsTotal ==
  ASSUME DedupTypeOK, NEW a \in Verified, NEW b \in Verified, a # b
  PROVE  Senior(a, b) \/ Senior(b, a)
<1>1. /\ seniority[a] \in 1..MaxKey /\ seniority[b] \in 1..MaxKey /\ MaxKey \in Nat
      /\ a \in Nat /\ b \in Nat
  BY DedupAssumption DEF DedupTypeOK, Verified
<1> QED BY <1>1 DEF Senior

(* A chain of two links, and one of a single link, connects. *)
LEMMA LinkedAreKin ==
  ASSUME NEW u \in Verified, NEW v \in Verified, NEW w \in Verified,
         u = w \/ {u, w} \in Linked, w = v \/ {w, v} \in Linked
  PROVE  v \in Kin(u)
<1>1. w \in Reaches({u})
  BY DEF Reaches
<1> QED BY <1>1 DEF Kin, Reaches

(* Every head of a cluster is the one that gathered it or alike to it. *)
LEMMA ClusterIsKin ==
  ASSUME NEW w \in Verified, NEW u \in Cluster(w), NEW v \in Cluster(w)
  PROVE  u \in Verified /\ v \in Verified /\ v \in Kin(u)
<1>1. u \in Verified /\ v \in Verified
  BY DEF Cluster
<1>2. (u = w \/ {u, w} \in Linked) /\ (w = v \/ {w, v} \in Linked)
  <2>1. {u, w} = {w, u}
    OBVIOUS
  <2> QED BY <2>1 DEF Cluster, Linked
<1> QED BY <1>1, <1>2, LinkedAreKin

(* Every step keeps the types. *)
LEMMA DedupTyped == DedupTypeOK /\ [DedupNext]_dedupVars => DedupTypeOK'
<1> SUFFICES ASSUME DedupTypeOK, [DedupNext]_dedupVars PROVE DedupTypeOK'
  OBVIOUS
<1>0. N \in Nat /\ next \in 1..N + 1 /\ clustered \subseteq Verified /\ disqualified \subseteq Verified
  BY DedupAssumption DEF DedupTypeOK
<1>1. UNCHANGED inputs
  BY DEF DedupNext, Visit, Epsilon, dedupVars
<1>2. /\ next' \in 1..N + 1 /\ clustered' \subseteq Verified /\ disqualified' \subseteq Verified
      /\ done' \in BOOLEAN
  <2>1. CASE Visit
    <3>1. next \in Verified /\ next' = next + 1 /\ next' \in 1..N + 1 /\ done' = done
      BY <1>0, <2>1 DEF Visit, Verified
    <3>2. Cluster(next) \subseteq Verified
      BY <3>1 DEF Cluster
    <3> QED BY <1>0, <2>1, <3>1, <3>2 DEF Visit, DedupTypeOK
  <2>2. CASE Epsilon
    BY <1>0, <2>2 DEF Epsilon
  <2>3. CASE UNCHANGED dedupVars
    BY <1>0, <2>3 DEF dedupVars, DedupTypeOK
  <2> QED BY <2>1, <2>2, <2>3 DEF DedupNext
<1> QED BY <1>1, <1>2 DEF DedupTypeOK, inputs, Pairs

(* Whoever is disqualified by a step has a senior among its kin. *)
LEMMA DisqualifiedHasSenior ==
  ASSUME DedupTypeOK, [DedupNext]_dedupVars, NEW u \in disqualified', u \notin disqualified
  PROVE  \E v \in Kin(u) : Senior(v, u)
<1>1. CASE Visit
  <2>1. next \in Verified
    BY <1>1, DedupAssumption DEF Visit, Verified, DedupTypeOK
  <2>2. u \in Cluster(next) /\ ~Survivor(Cluster(next), u)
    BY <1>1 DEF Visit
  <2>3. PICK v \in Cluster(next) \ {u} : ~Senior(u, v)
    BY <2>2 DEF Survivor
  <2>4. v \in Kin(u) /\ u \in Verified /\ v \in Verified
    BY <2>1, <2>2, <2>3, ClusterIsKin
  <2> QED BY <2>3, <2>4, SeniorityIsTotal
<1>2. CASE Epsilon
  <2>1. u \in Verified
    BY <1>2 DEF Epsilon
  <2>2. PICK a \in Verified : {a, u} \in near /\ Senior(a, u)
    BY <1>2 DEF Epsilon
  <2>3. {u, a} \in Linked
    <3>1. {u, a} = {a, u}
      OBVIOUS
    <3> QED BY <2>2, <3>1 DEF Linked
  <2>4. a \in Kin(u)
    BY <2>1, <2>2, <2>3, LinkedAreKin
  <2> QED BY <2>2, <2>4
<1>3. CASE UNCHANGED dedupVars
  BY <1>3 DEF dedupVars
<1> QED BY <1>1, <1>2, <1>3 DEF DedupNext

(* However the copies are chained, and whatever the order of the UIDs: a head is
   disqualified only when one senior to it is at most two links of likeness
   away. *)
THEOREM CopiesAlwaysSafe == DedupSpec => []CopiesSafety
<1>1. DedupInit => CopiesSafety
  <2> SUFFICES ASSUME DedupInit PROVE CopiesSafety
    OBVIOUS
  <2>1. next \in 1..N + 1 /\ clustered \subseteq Verified /\ disqualified = {} /\ done \in BOOLEAN
    <3>1. next = 1 /\ clustered = {} /\ disqualified = {} /\ done = FALSE
      BY DEF DedupInit
    <3>2. next \in 1..N + 1
      BY <3>1, DedupAssumption
    <3> QED BY <3>1, <3>2
  <2>2. /\ alike \subseteq Pairs /\ near \subseteq Pairs
        /\ seniority \in [Verified -> 1..MaxKey] /\ score \in [Verified -> 0..MaxScore]
    BY DEF DedupInit
  <2> QED BY <2>1, <2>2 DEF CopiesSafety, DedupTypeOK, KinKeepsSenior
<1>2. CopiesSafety /\ [DedupNext]_dedupVars => CopiesSafety'
  <2> SUFFICES ASSUME DedupTypeOK, KinKeepsSenior, [DedupNext]_dedupVars PROVE CopiesSafety'
    BY DEF CopiesSafety
  <2>1. UNCHANGED <<alike, near, seniority, score>>
    BY DEF DedupNext, Visit, Epsilon, dedupVars, inputs
  <2>2. \A u \in disqualified' : \E v \in Kin(u) : Senior(v, u)
    BY DisqualifiedHasSenior DEF KinKeepsSenior
  <2>3. ASSUME NEW u \in disqualified' PROVE \E v \in Kin(u)' : Senior(v, u)'
    <3>1. Kin(u)' = Kin(u) /\ \A v : Senior(v, u)' <=> Senior(v, u)
      BY <2>1 DEF Kin, Reaches, Linked, Senior
    <3> QED BY <2>2, <3>1
  <2>4. KinKeepsSenior'
    BY <2>3 DEF KinKeepsSenior
  <2> QED BY <2>4, DedupTyped DEF CopiesSafety
<1> QED BY <1>1, <1>2, PTL DEF DedupSpec

=============================================================================
