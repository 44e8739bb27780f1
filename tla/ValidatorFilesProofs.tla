--------------------------- MODULE ValidatorFilesProofs ---------------------------
(***************************************************************************)
(* Proofs about what a validator keeps on its disk: about StateFile, for   *)
(* any number of states, saves and faults; about HeadArchive, for any      *)
(* UIDs, heads and epochs; and about RevealPublisher, for any number of    *)
(* epochs and failures and any commit-reveal period.                       *)
(***************************************************************************)
EXTENDS StateFile, HeadArchive, RevealPublisher, SequenceTheorems,
        WellFoundedInduction, TLAPS

(* What each of the three names may hold, at every step.  LatestIsOnDisk is
   not inductive: it does not say that the name KeepPrevious moves over .bak
   is the last state saved, nor that .tmp holds the whole new state by the
   time it is renamed. *)
NamesHold ==
  /\ path \in {NoFile, Torn, saved}
  /\ path = NoFile => bak \in {NoFile, Torn, saved}
  /\ path # NoFile => bak \in {NoFile, Torn, kept}
  /\ pc \in {"synced", "moved"} => tmp = mem
  /\ pc = "moved" => path = NoFile
  /\ pc = "refused" => path = Torn /\ bak \in {NoFile, Torn}

SoundDisk ==
  ~damaged => /\ path # Torn /\ bak # Torn
              /\ path = NoFile /\ saved # EmptyState => bak = saved

DiskInv == TypeOK /\ NamesHold /\ SoundDisk

(* There are no files yet. *)
LEMMA DiskInitially == Init => DiskInv
<1> SUFFICES ASSUME Init PROVE DiskInv
  OBVIOUS
<1> USE FileAssumption DEF Init, EmptyState
<1>1. TypeOK
  <2>1. 0 # Down
    OBVIOUS
  <2>2. mem = Down <=> pc \in {"down", "refused"}
    BY <2>1
  <2> QED
    BY <2>2 DEF TypeOK, Content, InSave
<1>2. NamesHold
  BY DEF NamesHold
<1>3. SoundDisk
  BY DEF SoundDisk
<1> QED
  BY <1>1, <1>2, <1>3 DEF DiskInv

(* Every step keeps the invariant. *)
LEMMA DiskStep == DiskInv /\ [Next]_vars => DiskInv'
<1> SUFFICES ASSUME DiskInv, [Next]_vars PROVE DiskInv'
  OBVIOUS
<1> USE FileAssumption DEF DiskInv, TypeOK, NamesHold, SoundDisk, Content,
                           InSave, EmptyState
<1>1. CASE StartSave
  BY <1>1 DEF StartSave
<1>2. CASE SyncTmp
  BY <1>2 DEF SyncTmp
<1>3. CASE KeepPrevious
  BY <1>3 DEF KeepPrevious
<1>4. CASE PutInPlace
  BY <1>4 DEF PutInPlace
<1>5. CASE SaveRaises
  BY <1>5 DEF SaveRaises
<1>6. CASE Crash
  BY <1>6 DEF Crash
<1>7. CASE Damage
  BY <1>7 DEF Damage
<1>8. CASE Load
  <2>1. CASE LoadFile
    BY <2>1 DEF LoadFile, Resume
  <2>2. CASE LoadNothing
    BY <2>2 DEF LoadNothing, Resume
  <2>3. CASE LoadBackup
    BY <2>3 DEF LoadBackup, Resume
  <2>4. CASE LoadRefuses
    BY <2>4 DEF LoadRefuses
  <2> QED
    BY <1>8, <2>1, <2>2, <2>3, <2>4 DEF Load
<1>9. CASE OperatorDeletes
  BY <1>9 DEF OperatorDeletes
<1>10. CASE UNCHANGED vars
  BY <1>10 DEF vars
<1> QED
  BY <1>1, <1>2, <1>3, <1>4, <1>5, <1>6, <1>7, <1>8, <1>9, <1>10 DEF Next

(* The invariant holds of every behaviour. *)
LEMMA DiskInductive == Spec => []DiskInv
  BY DiskInitially, DiskStep, PTL DEF Spec

(* Every variable of the state file's model keeps its type. *)
THEOREM DiskTypeCorrect == Spec => []TypeOK
<1>1. DiskInv => TypeOK
  BY DEF DiskInv
<1> QED
  BY DiskInductive, <1>1, PTL

(* save_state: the last state saved is on a sound disk, under the state
   file's name or .bak's, between any two steps. *)
THEOREM LatestAlwaysOnDisk == Spec => []LatestIsOnDisk
<1>1. DiskInv => LatestIsOnDisk
  BY DEF DiskInv, NamesHold, SoundDisk, LatestIsOnDisk
<1> QED
  BY DiskInductive, <1>1, PTL

(* save_state: no crash and no failed write puts half a state under the name
   load_state reads. *)
THEOREM FileAlwaysWhole == Spec => []FileIsWhole
<1>1. DiskInv => FileIsWhole
  BY DEF DiskInv, SoundDisk, FileIsWhole
<1> QED
  BY DiskInductive, <1>1, PTL

(* save_state: .bak is the state saved before the one in place. *)
THEOREM BackupAlwaysPrevious == Spec => []BackupIsPrevious
<1>1. DiskInv => BackupIsPrevious
  BY DEF DiskInv, NamesHold, SoundDisk, BackupIsPrevious
<1> QED
  BY DiskInductive, <1>1, PTL

(* load_state and save_state implement the abstract store: a process resumes
   from the last state saved, the one before it, or the empty one. *)
THEOREM Implements == Spec => KeepsStoreContract
<1>1. Init => Store!Init
  BY DEF Init, Store!Init
<1>2. DiskInv /\ [Next]_vars => [Store!Next]_(Store!storeVars)
  <2> SUFFICES ASSUME DiskInv, [Next]_vars PROVE [Store!Next]_(Store!storeVars)
    OBVIOUS
  <2> USE FileAssumption DEF DiskInv, TypeOK, Store!storeVars
  <2>1. CASE StartSave
    <3>1. Store!Work
      BY <2>1 DEF StartSave, Store!Work
    <3> QED
      BY <3>1 DEF Store!Next
  <2>2. CASE SyncTmp \/ KeepPrevious \/ SaveRaises \/ Damage
    BY <2>2 DEF SyncTmp, KeepPrevious, SaveRaises, Damage
  <2>3. CASE PutInPlace
    <3>1. Store!Save
      BY <2>3 DEF PutInPlace, NamesHold, Store!Save
    <3> QED
      BY <3>1 DEF Store!Next
  <2>4. CASE Crash
    <3>1. Store!Stop
      BY <2>4 DEF Crash, Store!Stop
    <3> QED
      BY <3>1 DEF Store!Next
  <2>5. CASE LoadFile \/ LoadNothing \/ LoadBackup
    <3>1. Store!Resume
      BY <2>5 DEF LoadFile, LoadNothing, LoadBackup, Resume, NamesHold,
                  Store!Resume
    <3> QED
      BY <3>1 DEF Store!Next
  <2>6. CASE LoadRefuses \/ OperatorDeletes
    BY <2>6 DEF LoadRefuses, OperatorDeletes
  <2>7. CASE UNCHANGED vars
    BY <2>7 DEF vars
  <2> QED
    BY <2>1, <2>2, <2>3, <2>4, <2>5, <2>6, <2>7 DEF Next, Load
<1> QED
  BY DiskInductive, <1>1, <1>2, PTL DEF Spec, KeepsStoreContract, Store!Spec

(* Crashes, failed saves and damage, any number of them and in any order, leave
   the disk as load_state needs it. *)
THEOREM DiskAlwaysSafe == Spec => []DiskSafety
BY DiskTypeCorrect, LatestAlwaysOnDisk, FileAlwaysWhole, BackupAlwaysPrevious, PTL DEF DiskSafety

(***************************************************************************)
(* HeadArchive                                                             *)
(***************************************************************************)

(* What a line of the index may be. *)
Lines == Row \cup {Garbled}

(* A row is never what is left of one. *)
LEMMA RowIsWhole == \A row \in Row : row # Garbled /\ row.hash \in HeadHashes
BY ArchiveAssumption DEF Row, Garbled

(* The least number of a set of them. *)
LEMMA LeastUid ==
  ASSUME NEW T \in SUBSET Nat, T # {}
  PROVE  \E u \in T : \A w \in T : u <= w
<1> DEFINE R == OpToRel(<, Nat)
<1>1. IsWellFoundedOn(R, Nat)
  BY NatLessThanWellFounded
<1>2. \A x, y \in Nat : y < x => <<y, x>> \in R
  BY DEF OpToRel
<1> HIDE DEF R
<1>3. PICK u \in T : \A w \in T : ~ (<<w, u>> \in R)
  BY <1>1, WFMin
<1>4. \A w \in T : ~ (w < u)
  BY <1>2, <1>3
<1> QED BY <1>4

(* The next head to be written is one of those left. *)
LEMMA NextIsLeft ==
  ASSUME DOMAIN heads \subseteq HeadUids, DOMAIN heads # {}
  PROVE  NextUid \in DOMAIN heads
<1> DEFINE T == DOMAIN heads
<1>1. T \in SUBSET Nat /\ T # {}
  BY ArchiveAssumption
<1> HIDE DEF T
<1>2. \E u \in T : \A w \in T : u <= w
  BY <1>1, LeastUid
<1> QED BY <1>2 DEF NextUid, T

(* What an append leaves: the index as it was, then the new lines from the
   first or, where the last line was cut, from the second on. *)
LEMMA AppendedLines ==
  ASSUME index \in Seq(Lines), NEW new \in Seq(Lines)
  PROVE  LET x == Appended(new)
         IN /\ x \in Seq(Lines) /\ Len(x) \in Nat /\ Len(index) <= Len(x)
            /\ \A k \in 1..Len(index) : x[k] = index[k]
            /\ \E d \in {0, 1} :
                 /\ \A k \in Len(index) + 1..Len(x) :
                      k - Len(index) + d \in 1..Len(new) /\ x[k] = new[k - Len(index) + d]
                 /\ (\A k \in 1..Len(index) : index[k] # Garbled) =>
                       d = 0 /\ Len(x) = Len(index) + Len(new)
<1>1. Len(index) \in Nat /\ Len(new) \in Nat
  BY LenProperties
<1>2. CASE new # <<>> /\ index # <<>> /\ Last(index) = Garbled
  <2>1. Len(new) # 0 /\ Len(index) # 0
    BY <1>1, <1>2, EmptySeq
  <2>2. /\ Tail(new) \in Seq(Lines) /\ Len(Tail(new)) = Len(new) - 1
        /\ \A i \in 1..Len(Tail(new)) : Tail(new)[i] = new[i + 1]
    BY <1>2, HeadTailProperties
  <2> DEFINE t == Tail(new)
  <2>3. Appended(new) = index \o t
    BY <1>2 DEF Appended
  <2>4. /\ index \o t \in Seq(Lines) /\ Len(index \o t) = Len(index) + Len(t)
        /\ \A i \in 1..Len(index) + Len(t) :
             (index \o t)[i] = IF i <= Len(index) THEN index[i] ELSE t[i - Len(index)]
    BY <2>2, ConcatProperties
  <2>5. ~ \A k \in 1..Len(index) : index[k] # Garbled
    BY <1>1, <1>2, <2>1 DEF Last
  <2> DEFINE x == Appended(new)
  <2>6. Len(x) = Len(index) + Len(new) - 1
    BY <2>2, <2>3, <2>4, <1>1
  <2>7. \A k \in 1..Len(index) : x[k] = index[k]
    BY <1>1, <2>1, <2>2, <2>3, <2>4
  <2>8. \A k \in Len(index) + 1..Len(x) :
          k - Len(index) + 1 \in 1..Len(new) /\ x[k] = new[k - Len(index) + 1]
    <3> SUFFICES ASSUME NEW k \in Len(index) + 1..Len(x)
                 PROVE  k - Len(index) + 1 \in 1..Len(new) /\ x[k] = new[k - Len(index) + 1]
      OBVIOUS
    <3>1. /\ k \in 1..Len(index) + Len(t) /\ ~ (k <= Len(index)) /\ k - Len(index) \in 1..Len(t)
          /\ k - Len(index) + 1 \in 1..Len(new)
      BY <1>1, <2>1, <2>2, <2>6
    <3>2. x[k] = t[k - Len(index)]
      BY <2>3, <2>4, <3>1
    <3> QED BY <2>2, <3>1, <3>2
  <2>9. Len(x) \in Nat /\ Len(index) <= Len(x) /\ x \in Seq(Lines)
    BY <1>1, <2>1, <2>3, <2>4, <2>6
  <2> HIDE DEF x, t
  <2> QED BY <2>5, <2>7, <2>8, <2>9 DEF x
<1>3. CASE ~(new # <<>> /\ index # <<>> /\ Last(index) = Garbled)
  <2>1. Appended(new) = index \o new
    BY <1>3 DEF Appended
  <2>2. /\ index \o new \in Seq(Lines) /\ Len(index \o new) = Len(index) + Len(new)
        /\ \A i \in 1..Len(index) + Len(new) :
             (index \o new)[i] = IF i <= Len(index) THEN index[i] ELSE new[i - Len(index)]
    BY ConcatProperties
  <2> DEFINE x == Appended(new)
  <2>3. x \in Seq(Lines) /\ Len(x) = Len(index) + Len(new) /\ Len(x) \in Nat /\ Len(index) <= Len(x)
    BY <1>1, <2>1, <2>2
  <2>4. \A k \in 1..Len(index) : x[k] = index[k]
    BY <1>1, <2>1, <2>2
  <2>5. \A k \in Len(index) + 1..Len(x) :
          k - Len(index) + 0 \in 1..Len(new) /\ x[k] = new[k - Len(index) + 0]
    <3> SUFFICES ASSUME NEW k \in Len(index) + 1..Len(x)
                 PROVE  k - Len(index) + 0 \in 1..Len(new) /\ x[k] = new[k - Len(index) + 0]
      OBVIOUS
    <3>1. /\ k \in 1..Len(index) + Len(new) /\ ~ (k <= Len(index))
          /\ k - Len(index) \in 1..Len(new) /\ k - Len(index) + 0 = k - Len(index)
      BY <1>1, <2>3
    <3> QED BY <2>1, <2>2, <3>1
  <2> HIDE DEF x
  <2> QED BY <2>3, <2>4, <2>5 DEF x
<1> QED BY <1>2, <1>3

(* A line introduces a head. *)
Introduces(line, h) == line.hash = h /\ line.status = "first_seen"

(* A head is being written, and was never before. *)
WritesNew ==
  writing = "temporary" =>
    archived.at = "heads" /\ DOMAIN heads # {} /\ headFile[heads[NextUid]] = "none"

(* No head file is ever in part, and what a line will name is there. *)
FilesWhole ==
  /\ \A h \in HeadHashes : headFile[h] # "partial"
  /\ \A k \in 1..Len(rows) : headFile[rows[k].hash] = "whole"

(* What the rows of this call introduce nothing before them names. *)
RowsFirst ==
  \A k \in 1..Len(rows) : rows[k].status = "first_seen" =>
    /\ \A j \in 1..k - 1 : rows[j].hash # rows[k].hash
    /\ \A i \in Whole : index[i].hash # rows[k].hash

(* Without trouble no line is cut, every head file was introduced, and every
   row comes after the one that introduces its head. *)
AllIntroduced ==
  trouble = 0 =>
    /\ \A k \in 1..Len(index) : index[k] # Garbled
    /\ \A h \in HeadHashes : headFile[h] # "none" =>
         \/ \E j \in 1..Len(index) : Introduces(index[j], h)
         \/ \E j \in 1..Len(rows) : Introduces(rows[j], h)
    /\ \A k \in 1..Len(rows) :
         \/ \E j \in 1..Len(index) : Introduces(index[j], rows[k].hash)
         \/ \E j \in 1..k : Introduces(rows[j], rows[k].hash)

(* A call has an epoch, the rows wait for its heads, and nothing for the next
   call. *)
CallsApart ==
  /\ archived.at # "off" => archived.epoch \in 1..LastEpoch
  /\ archived.at = "off" => rows = <<>>
  /\ archived.at # "heads" => DOMAIN heads = {}

(* The invariant. *)
ArchiveInv ==
  /\ ArchiveTypeOK /\ CallsApart
  /\ WritesNew /\ FilesWhole /\ RowsFirst /\ AllIntroduced
  /\ IndexedIsWhole /\ FirstSeenOnce /\ IntroducedUnlessLost

(* Nothing is archived. *)
LEMMA ArchiveInitially == ArchiveInit => ArchiveInv
<1> SUFFICES ASSUME ArchiveInit PROVE ArchiveInv
  OBVIOUS
<1>0. /\ index = <<>> /\ rows = <<>> /\ Len(index) = 0 /\ Len(rows) = 0
      /\ Whole = {} /\ DOMAIN heads = {}
  BY DEF ArchiveInit, Whole
<1>1. ArchiveTypeOK
  <2>1. index \in Seq(Row \cup {Garbled}) /\ rows \in Seq(Row)
    BY <1>0, EmptySeq
  <2>2. archived \in [epoch : 0..LastEpoch, calls : 0..MaxCalls, at : {"off", "heads", "index"}]
        /\ trouble \in 0..MaxTrouble
    BY ArchiveAssumption DEF ArchiveInit
  <2>3. headFile \in [HeadHashes -> {"none", "partial", "whole"}] /\ writing \in {"none", "temporary"}
    BY DEF ArchiveInit
  <2> QED BY <1>0, <2>1, <2>2, <2>3 DEF ArchiveTypeOK
<1>2. WritesNew /\ CallsApart
  BY <1>0 DEF ArchiveInit, WritesNew, CallsApart
<1>3. FilesWhole /\ RowsFirst
  <2>1. \A h \in HeadHashes : headFile[h] # "partial"
    BY DEF ArchiveInit
  <2> QED BY <1>0, <2>1 DEF FilesWhole, RowsFirst
<1>4. AllIntroduced
  <2>1. \A h \in HeadHashes : headFile[h] = "none"
    BY DEF ArchiveInit
  <2> QED BY <1>0, <2>1 DEF AllIntroduced
<1>5. IndexedIsWhole /\ FirstSeenOnce /\ IntroducedUnlessLost
  BY <1>0 DEF IndexedIsWhole, FirstSeenOnce, IntroducedUnlessLost
<1> QED BY <1>1, <1>2, <1>3, <1>4, <1>5 DEF ArchiveInv

(* What the invariant says of the sequences, in one place. *)
LEMMA ArchiveFacts ==
  ASSUME ArchiveTypeOK
  PROVE  /\ Len(index) \in Nat /\ Len(rows) \in Nat /\ DOMAIN index = 1..Len(index)
         /\ \A k \in 1..Len(index) : index[k] \in Lines
         /\ \A k \in Whole : k \in 1..Len(index) /\ index[k] \in Row /\ index[k].hash \in HeadHashes
         /\ \A k \in 1..Len(rows) : rows[k] \in Row /\ rows[k].hash \in HeadHashes /\ rows[k] # Garbled
         /\ \A h \in HeadHashes : headFile[h] \in {"none", "partial", "whole"}
<1>1. Len(index) \in Nat /\ Len(rows) \in Nat /\ DOMAIN index = 1..Len(index)
  BY LenProperties DEF ArchiveTypeOK
<1>2. \A k \in 1..Len(index) : index[k] \in Lines
  BY ElementOfSeq DEF ArchiveTypeOK, Lines
<1>3. \A k \in 1..Len(rows) : rows[k] \in Row
  BY ElementOfSeq DEF ArchiveTypeOK
<1> QED BY <1>1, <1>2, <1>3, RowIsWhole DEF Whole, Lines, ArchiveTypeOK

(* A row more: of a head that is written, or written now. *)
LEMMA RowAdded ==
  ASSUME ArchiveInv, archived.at = "heads", DOMAIN heads # {},
         NEW status \in {"first_seen", "repeat"}, rows' = Append(rows, Here(status)),
         heads' = Left, UNCHANGED <<index, archived, trouble>>, writing' = "none",
         \/ status = "repeat" /\ headFile' = headFile /\ headFile[heads[NextUid]] # "none"
         \/ /\ status = "first_seen" /\ headFile[heads[NextUid]] = "none"
            /\ headFile' = [headFile EXCEPT ![heads[NextUid]] = "whole"]
  PROVE  ArchiveInv'
<1> DEFINE h == heads[NextUid]
<1>1. /\ NextUid \in DOMAIN heads /\ NextUid \in HeadUids /\ h \in HeadHashes
      /\ \A u \in DOMAIN heads : u \in HeadUids /\ heads[u] \in HeadHashes
  BY NextIsLeft DEF ArchiveInv, ArchiveTypeOK
<1>2. /\ Len(index) \in Nat /\ Len(rows) \in Nat /\ DOMAIN index = 1..Len(index)
      /\ \A k \in 1..Len(index) : index[k] \in Lines
      /\ \A k \in Whole : k \in 1..Len(index) /\ index[k] \in Row /\ index[k].hash \in HeadHashes
      /\ \A k \in 1..Len(rows) : rows[k] \in Row /\ rows[k].hash \in HeadHashes
      /\ \A g \in HeadHashes : headFile[g] \in {"none", "partial", "whole"}
  BY ArchiveFacts DEF ArchiveInv
<1>3. Here(status) \in Row /\ Here(status).hash = h /\ Here(status).status = status
  BY <1>1 DEF ArchiveInv, CallsApart, Here, Row
<1>4. /\ rows' \in Seq(Row) /\ Len(rows') = Len(rows) + 1 /\ rows'[Len(rows) + 1] = Here(status)
      /\ \A k \in 1..Len(rows) : rows'[k] = rows[k]
  BY <1>3 DEF ArchiveInv, ArchiveTypeOK
<1>5. /\ headFile' \in [HeadHashes -> {"none", "partial", "whole"}]
      /\ headFile'[h] = "whole" /\ \A g \in HeadHashes : g # h => headFile'[g] = headFile[g]
      /\ \A g \in HeadHashes : headFile[g] = "whole" => headFile'[g] = "whole"
  BY <1>1, <1>2 DEF ArchiveInv, ArchiveTypeOK, FilesWhole
<1> HIDE DEF h
<1>6. ArchiveTypeOK'
  <2>1. \A u \in DOMAIN heads' : u \in HeadUids /\ heads'[u] \in HeadHashes
    BY <1>1 DEF Left
  <2> QED BY <1>4, <1>5, <2>1 DEF ArchiveInv, ArchiveTypeOK, Row, Garbled
<1>7. WritesNew' /\ CallsApart'
  BY DEF WritesNew, ArchiveInv, CallsApart
<1>8. FilesWhole'
  <2>1. \A g \in HeadHashes : headFile'[g] # "partial"
    BY <1>5 DEF ArchiveInv, FilesWhole
  <2>2. ASSUME NEW k \in 1..Len(rows') PROVE headFile'[rows'[k].hash] = "whole"
    <3>1. CASE k \in 1..Len(rows)
      BY <1>2, <1>4, <1>5, <3>1 DEF ArchiveInv, FilesWhole
    <3>2. CASE k = Len(rows) + 1
      BY <1>3, <1>4, <1>5, <3>2
    <3> QED BY <1>2, <1>4, <3>1, <3>2
  <2> QED BY <2>1, <2>2 DEF FilesWhole
<1>9. Whole' = Whole
  BY DEF Whole, Garbled
<1>10. RowsFirst'
  <2> SUFFICES ASSUME NEW k \in 1..Len(rows'), rows'[k].status = "first_seen"
               PROVE  /\ \A j \in 1..k - 1 : rows'[j].hash # rows'[k].hash
                      /\ \A i \in Whole : index[i].hash # rows'[k].hash
    BY <1>9 DEF RowsFirst
  <2>1. CASE k \in 1..Len(rows)
    <3>1. rows'[k] = rows[k] /\ \A j \in 1..k - 1 : rows'[j] = rows[j]
      BY <1>2, <1>4, <2>1
    <3> QED BY <2>1, <3>1 DEF ArchiveInv, RowsFirst
  <2>2. CASE k = Len(rows) + 1
    <3>1. rows'[k].hash = h /\ headFile[h] = "none"
      BY <1>3, <1>4, <2>2 DEF h
    <3>2. \A j \in 1..Len(rows) : rows[j].hash # h
      BY <3>1 DEF ArchiveInv, FilesWhole
    <3>3. \A i \in Whole : index[i].hash # h
      BY <3>1 DEF ArchiveInv, IndexedIsWhole
    <3> QED BY <1>2, <1>4, <2>2, <3>1, <3>2, <3>3
  <2> QED BY <1>2, <1>4, <2>1, <2>2
<1>11. AllIntroduced'
  <2> SUFFICES ASSUME trouble = 0 PROVE AllIntroduced'
    BY DEF AllIntroduced
  <2>1. /\ \A k \in 1..Len(index) : index[k] # Garbled
        /\ \A g \in HeadHashes : headFile[g] # "none" =>
             \/ \E j \in 1..Len(index) : Introduces(index[j], g)
             \/ \E j \in 1..Len(rows) : Introduces(rows[j], g)
        /\ \A k \in 1..Len(rows) :
             \/ \E j \in 1..Len(index) : Introduces(index[j], rows[k].hash)
             \/ \E j \in 1..k : Introduces(rows[j], rows[k].hash)
    BY DEF ArchiveInv, AllIntroduced
  <2>2. ASSUME NEW g \in HeadHashes, headFile'[g] # "none"
        PROVE  \/ \E j \in 1..Len(index) : Introduces(index[j], g)
               \/ \E j \in 1..Len(rows') : Introduces(rows'[j], g)
    <3>1. CASE headFile[g] # "none"
      <4>1. CASE \E j \in 1..Len(index) : Introduces(index[j], g)
        BY <4>1
      <4>2. CASE \E j \in 1..Len(rows) : Introduces(rows[j], g)
        <5>1. PICK j \in 1..Len(rows) : Introduces(rows[j], g)
          BY <4>2
        <5>2. j \in 1..Len(rows') /\ rows'[j] = rows[j]
          BY <1>2, <1>4
        <5> QED BY <5>1, <5>2
      <4> QED BY <2>1, <3>1, <4>1, <4>2
    <3>2. CASE headFile[g] = "none"
      <4>1. g = h /\ status = "first_seen"
        BY <1>5, <2>2, <3>2 DEF h
      <4>2. Len(rows) + 1 \in 1..Len(rows') /\ Introduces(rows'[Len(rows) + 1], g)
        BY <1>2, <1>3, <1>4, <4>1 DEF Introduces
      <4> QED BY <4>2
    <3> QED BY <3>1, <3>2
  <2>3. ASSUME NEW k \in 1..Len(rows')
        PROVE  \/ \E j \in 1..Len(index) : Introduces(index[j], rows'[k].hash)
               \/ \E j \in 1..k : Introduces(rows'[j], rows'[k].hash)
    <3>1. CASE k \in 1..Len(rows)
      <4>1. rows'[k] = rows[k] /\ \A j \in 1..k : rows'[j] = rows[j]
        BY <1>2, <1>4, <3>1
      <4> QED BY <2>1, <3>1, <4>1
    <3>2. CASE k = Len(rows) + 1
      <4>1. rows'[k].hash = h
        BY <1>3, <1>4, <3>2
      <4>2. headFile'[h] # "none"
        BY <1>5
      <4>3. CASE \E j \in 1..Len(index) : Introduces(index[j], h)
        BY <4>1, <4>3
      <4>4. CASE \E j \in 1..Len(rows') : Introduces(rows'[j], h)
        BY <1>4, <3>2, <4>1, <4>4
      <4> QED BY <1>1, <2>2, <4>2, <4>3, <4>4 DEF h
    <3> QED BY <1>2, <1>4, <3>1, <3>2
  <2> QED BY <2>1, <2>2, <2>3 DEF AllIntroduced, Introduces, Garbled
<1>12. IndexedIsWhole'
  BY <1>2, <1>5, <1>9 DEF ArchiveInv, IndexedIsWhole
<1>13. FirstSeenOnce' /\ IntroducedUnlessLost'
  BY <1>9 DEF ArchiveInv, FirstSeenOnce, IntroducedUnlessLost
<1> QED BY <1>6, <1>7, <1>8, <1>10, <1>11, <1>12, <1>13 DEF ArchiveInv

(* A call ends, with its rows or some of them appended, the last perhaps cut. *)
LEMMA LinesAdded ==
  ASSUME ArchiveInv, NEW new \in Seq(Lines), index' = Appended(new),
         \A k \in 1..Len(new) : new[k] = Garbled \/ (k \in 1..Len(rows) /\ new[k] = rows[k]),
         rows' = <<>>, DOMAIN heads' = {}, writing' = "none", headFile' = headFile,
         archived' = [archived EXCEPT !.at = "off"], trouble' \in 0..MaxTrouble,
         trouble' # 0 \/ (trouble = 0 /\ new = rows)
  PROVE  ArchiveInv'
<1>1. /\ Len(index) \in Nat /\ Len(rows) \in Nat /\ DOMAIN index = 1..Len(index)
      /\ \A k \in 1..Len(index) : index[k] \in Lines
      /\ \A k \in Whole : k \in 1..Len(index) /\ index[k] \in Row /\ index[k].hash \in HeadHashes
      /\ \A k \in 1..Len(rows) : rows[k] \in Row /\ rows[k].hash \in HeadHashes /\ rows[k] # Garbled
      /\ \A g \in HeadHashes : headFile[g] \in {"none", "partial", "whole"}
  BY ArchiveFacts DEF ArchiveInv
<1>2. index \in Seq(Lines) /\ Len(new) \in Nat
  BY LenProperties DEF ArchiveInv, ArchiveTypeOK, Lines
<1>3. /\ index' \in Seq(Lines) /\ Len(index') \in Nat /\ Len(index) <= Len(index')
      /\ \A k \in 1..Len(index) : index'[k] = index[k]
      /\ \E d \in {0, 1} :
           /\ \A k \in Len(index) + 1..Len(index') :
                k - Len(index) + d \in 1..Len(new) /\ index'[k] = new[k - Len(index) + d]
           /\ (\A k \in 1..Len(index) : index[k] # Garbled) =>
                 d = 0 /\ Len(index') = Len(index) + Len(new)
  BY <1>2, AppendedLines
<1>4. PICK d \in {0, 1} :
        /\ \A k \in Len(index) + 1..Len(index') :
             k - Len(index) + d \in 1..Len(new) /\ index'[k] = new[k - Len(index) + d]
        /\ (\A k \in 1..Len(index) : index[k] # Garbled) =>
              d = 0 /\ Len(index') = Len(index) + Len(new)
  BY <1>3
<1> DEFINE at(k) == k - Len(index) + d
<1>5. DOMAIN index' = 1..Len(index')
  BY <1>3, LenProperties
<1>6. \A k \in Whole' : \/ k \in Whole /\ k \in 1..Len(index) /\ index'[k] = index[k]
                        \/ /\ k > Len(index) /\ k \in Nat /\ at(k) \in 1..Len(rows)
                           /\ index'[k] = rows[at(k)]
  <2> SUFFICES ASSUME NEW k \in 1..Len(index'), index'[k] # Garbled
               PROVE  \/ k \in Whole /\ k \in 1..Len(index) /\ index'[k] = index[k]
                      \/ /\ k > Len(index) /\ k \in Nat /\ at(k) \in 1..Len(rows)
                         /\ index'[k] = rows[at(k)]
    BY <1>5 DEF Whole, Garbled
  <2>1. CASE k \in 1..Len(index)
    BY <1>1, <1>3, <2>1 DEF Whole
  <2>2. CASE k \in Len(index) + 1..Len(index')
    <3>1. at(k) \in 1..Len(new) /\ index'[k] = new[at(k)]
      BY <1>4, <2>2
    <3>2. k > Len(index) /\ k \in Nat
      BY <1>1, <2>2
    <3> QED BY <3>1, <3>2
  <2> QED BY <1>1, <1>3, <2>1, <2>2
<1>7. /\ \A j, k \in Nat : j < k => at(j) < at(k)
      /\ \A k \in Nat : k > Len(index) => at(k) \in Int
  BY <1>1
<1>8. ArchiveTypeOK'
  <2>1. index' \in Seq(Row \cup {Garbled})
    BY <1>3 DEF Lines
  <2>2. rows' \in Seq(Row)
    BY EmptySeq
  <2>3. /\ archived' \in [epoch : 0..LastEpoch, calls : 0..MaxCalls, at : {"off", "heads", "index"}]
        /\ headFile' \in [HeadHashes -> {"none", "partial", "whole"}]
    BY DEF ArchiveInv, ArchiveTypeOK
  <2> QED BY <2>1, <2>2, <2>3 DEF ArchiveTypeOK, Row, Garbled
<1>9. /\ archived'.at = "off" /\ Len(rows') = 0
  BY DEF ArchiveInv, ArchiveTypeOK
<1>10. WritesNew' /\ FilesWhole' /\ RowsFirst' /\ CallsApart'
  <2>1. \A h \in HeadHashes : headFile[h] # "partial"
    BY DEF ArchiveInv, FilesWhole
  <2> QED BY <1>9, <2>1 DEF WritesNew, FilesWhole, RowsFirst, CallsApart
<1>11. IndexedIsWhole'
  <2>1. \A k \in 1..Len(rows) : headFile[rows[k].hash] = "whole"
    BY DEF ArchiveInv, FilesWhole
  <2>2. \A k \in Whole : headFile[index[k].hash] = "whole"
    BY DEF ArchiveInv, IndexedIsWhole
  <2> QED BY <1>6, <2>1, <2>2 DEF IndexedIsWhole
<1>12. FirstSeenOnce'
  <2> SUFFICES ASSUME NEW j \in Whole', NEW k \in Whole',
                      index'[j].hash = index'[k].hash, index'[j].status = "first_seen"
               PROVE  j <= k /\ (index'[k].status = "first_seen" => j = k)
    BY DEF FirstSeenOnce
  <2>1. \A m \in 1..Len(rows) : rows[m].status = "first_seen" =>
          /\ \A i \in 1..m - 1 : rows[i].hash # rows[m].hash
          /\ \A i \in Whole : index[i].hash # rows[m].hash
    BY DEF ArchiveInv, RowsFirst
  <2>2. CASE j \in Whole /\ k \in Whole
    <3>1. index'[j] = index[j] /\ index'[k] = index[k]
      BY <1>1, <1>3, <2>2
    <3> QED BY <2>2, <3>1 DEF ArchiveInv, FirstSeenOnce
  <2>3. CASE j \in Whole /\ k \notin Whole
    <3>1. k > Len(index) /\ at(k) \in 1..Len(rows) /\ index'[k] = rows[at(k)] /\ j \in 1..Len(index)
          /\ index'[j] = index[j]
      BY <1>1, <1>3, <1>6, <2>3
    <3>2. index'[k].status # "first_seen"
      BY <2>1, <2>3, <3>1
    <3>3. k \in Nat
      BY <1>6, <2>3
    <3> QED BY <1>1, <3>1, <3>2, <3>3
  <2>4. CASE j \notin Whole
    <3>1. j > Len(index) /\ j \in Nat /\ at(j) \in 1..Len(rows) /\ index'[j] = rows[at(j)]
      BY <1>6, <2>4
    <3>2. k \notin Whole
      <4>1. k \in Whole => index'[k] = index[k]
        BY <1>1, <1>3
      <4> QED BY <2>1, <3>1, <4>1
    <3>3. k > Len(index) /\ k \in Nat /\ at(k) \in 1..Len(rows) /\ index'[k] = rows[at(k)]
      BY <1>6, <3>2
    <3>4. ~ (k < j)
      <4>1. k < j => at(k) \in 1..at(j) - 1
        BY <1>1, <1>7, <3>1, <3>3
      <4> QED BY <2>1, <3>1, <3>3, <4>1
    <3>5. rows[at(k)].status = "first_seen" => ~ (j < k)
      <4>1. j < k => at(j) \in 1..at(k) - 1
        BY <1>1, <1>7, <3>1, <3>3
      <4> QED BY <2>1, <3>1, <3>3, <4>1
    <3> QED BY <3>1, <3>3, <3>4, <3>5
  <2> QED BY <2>2, <2>3, <2>4
<1>13. ASSUME trouble' = 0
       PROVE  /\ \A k \in 1..Len(index') : index'[k] # Garbled
              /\ \A h \in HeadHashes : headFile[h] # "none" =>
                   \E j \in 1..Len(index') : Introduces(index'[j], h)
              /\ \A k \in 1..Len(index') : \E j \in 1..k : Introduces(index'[j], index'[k].hash)
  <2>1. new = rows /\ trouble = 0
    BY <1>13
  <2>2. /\ \A k \in 1..Len(index) : index[k] # Garbled
        /\ \A g \in HeadHashes : headFile[g] # "none" =>
             \/ \E j \in 1..Len(index) : Introduces(index[j], g)
             \/ \E j \in 1..Len(rows) : Introduces(rows[j], g)
        /\ \A k \in 1..Len(rows) :
             \/ \E j \in 1..Len(index) : Introduces(index[j], rows[k].hash)
             \/ \E j \in 1..k : Introduces(rows[j], rows[k].hash)
    BY <2>1 DEF ArchiveInv, AllIntroduced
  <2>3. /\ Len(index') = Len(index) + Len(rows)
        /\ \A k \in Len(index) + 1..Len(index') :
             k - Len(index) \in 1..Len(rows) /\ index'[k] = rows[k - Len(index)]
    <3>1. d = 0 /\ Len(index') = Len(index) + Len(new)
      BY <1>4, <2>2
    <3>2. \A k \in Len(index) + 1..Len(index') : k - Len(index) + 0 = k - Len(index)
      BY <1>1, <1>3
    <3> QED BY <1>4, <2>1, <3>1, <3>2
  <2>4. \A j \in 1..Len(rows) :
          /\ Len(index) + j \in 1..Len(index') /\ index'[Len(index) + j] = rows[j]
    <3> SUFFICES ASSUME NEW j \in 1..Len(rows)
                 PROVE  Len(index) + j \in 1..Len(index') /\ index'[Len(index) + j] = rows[j]
      OBVIOUS
    <3>1. /\ Len(index) + j \in Len(index) + 1..Len(index') /\ Len(index) + j - Len(index) = j
          /\ Len(index) + j \in 1..Len(index')
      BY <1>1, <2>3
    <3> QED BY <2>3, <3>1
  <2>5. \A k \in 1..Len(index') : index'[k] # Garbled
    <3> SUFFICES ASSUME NEW k \in 1..Len(index') PROVE index'[k] # Garbled
      OBVIOUS
    <3>1. CASE k \in 1..Len(index)
      BY <1>3, <2>2, <3>1
    <3>2. CASE k \in Len(index) + 1..Len(index')
      BY <1>1, <2>3, <3>2
    <3> QED BY <1>1, <1>3, <3>1, <3>2
  <2>6. \A h \in HeadHashes : headFile[h] # "none" =>
          \E j \in 1..Len(index') : Introduces(index'[j], h)
    <3> SUFFICES ASSUME NEW h \in HeadHashes, headFile[h] # "none"
                 PROVE  \E j \in 1..Len(index') : Introduces(index'[j], h)
      OBVIOUS
    <3>1. CASE \E j \in 1..Len(index) : Introduces(index[j], h)
      <4>1. PICK j \in 1..Len(index) : Introduces(index[j], h)
        BY <3>1
      <4>2. j \in 1..Len(index') /\ index'[j] = index[j]
        BY <1>1, <1>3
      <4> QED BY <4>1, <4>2
    <3>2. CASE \E j \in 1..Len(rows) : Introduces(rows[j], h)
      BY <2>4, <3>2
    <3> QED BY <2>2, <3>1, <3>2
  <2>7. \A k \in 1..Len(index') : \E j \in 1..k : Introduces(index'[j], index'[k].hash)
    <3> SUFFICES ASSUME NEW k \in 1..Len(index')
                 PROVE  \E j \in 1..k : Introduces(index'[j], index'[k].hash)
      OBVIOUS
    <3>1. CASE k \in 1..Len(index)
      <4>1. k \in Whole
        BY <1>1, <2>2, <3>1 DEF Whole
      <4>2. PICK j \in Whole : j <= k /\ index[j].hash = index[k].hash /\ index[j].status = "first_seen"
        BY <2>1, <4>1 DEF ArchiveInv, IntroducedUnlessLost
      <4>3. j \in 1..k /\ index'[j] = index[j] /\ index'[k] = index[k]
        BY <1>1, <1>3, <3>1, <4>2
      <4> QED BY <4>2, <4>3 DEF Introduces
    <3>2. CASE k \in Len(index) + 1..Len(index')
      <4> DEFINE m == k - Len(index)
      <4>1. m \in 1..Len(rows) /\ index'[k] = rows[m]
        BY <2>3, <3>2
      <4>2. CASE \E j \in 1..Len(index) : Introduces(index[j], rows[m].hash)
        <5>1. PICK j \in 1..Len(index) : Introduces(index[j], rows[m].hash)
          BY <4>2
        <5>2. j \in 1..k /\ index'[j] = index[j]
          BY <1>1, <1>3, <3>2
        <5> QED BY <4>1, <5>1, <5>2
      <4>3. CASE \E j \in 1..m : Introduces(rows[j], rows[m].hash)
        <5>1. PICK j \in 1..m : Introduces(rows[j], rows[m].hash)
          BY <4>3
        <5>2. j \in 1..Len(rows) /\ Len(index) + j \in 1..k
          BY <1>1, <3>2, <4>1
        <5> QED BY <2>4, <4>1, <5>1, <5>2
      <4> HIDE DEF m
      <4> QED BY <2>2, <4>1, <4>2, <4>3
    <3> QED BY <1>1, <1>3, <3>1, <3>2
  <2> QED BY <2>5, <2>6, <2>7
<1>14. AllIntroduced'
  BY <1>9, <1>13 DEF AllIntroduced, Introduces, Garbled
<1>15. IntroducedUnlessLost'
  <2> SUFFICES ASSUME trouble' = 0, NEW k \in Whole'
               PROVE  \E j \in Whole' : j <= k /\ index'[j].hash = index'[k].hash
                                        /\ index'[j].status = "first_seen"
    BY DEF IntroducedUnlessLost
  <2>1. k \in 1..Len(index')
    BY <1>5 DEF Whole
  <2>2. PICK j \in 1..k : Introduces(index'[j], index'[k].hash)
    BY <1>13, <2>1
  <2>3. j \in 1..Len(index') /\ j <= k
    BY <1>3, <2>1
  <2>4. j \in Whole'
    BY <1>5, <1>13, <2>3 DEF Whole, Garbled
  <2> QED BY <2>2, <2>3, <2>4 DEF Introduces
<1> QED BY <1>8, <1>10, <1>11, <1>12, <1>14, <1>15 DEF ArchiveInv

(* A step that touches neither the index, the rows nor the head files. *)
LEMMA FilesAlone ==
  ASSUME ArchiveInv, UNCHANGED <<headFile, index, rows, trouble>>,
         ArchiveTypeOK', WritesNew', CallsApart'
  PROVE  ArchiveInv'
<1>1. Whole' = Whole
  BY DEF Whole, Garbled
<1>2. FilesWhole' /\ RowsFirst' /\ AllIntroduced'
  BY <1>1 DEF ArchiveInv, FilesWhole, RowsFirst, AllIntroduced, Introduces, Garbled
<1>3. IndexedIsWhole' /\ FirstSeenOnce' /\ IntroducedUnlessLost'
  BY <1>1 DEF ArchiveInv, IndexedIsWhole, FirstSeenOnce, IntroducedUnlessLost
<1> QED BY <1>2, <1>3 DEF ArchiveInv

(* A call begins. *)
LEMMA ArchiveBegins == ArchiveInv /\ Archive => ArchiveInv'
<1> SUFFICES ASSUME ArchiveInv, Archive PROVE ArchiveInv'
  OBVIOUS
<1>1. PICK e \in {archived.epoch, archived.epoch + 1} \cap 1..LastEpoch,
           uids \in SUBSET HeadUids \ {{}} :
        /\ archived' = [epoch |-> e, calls |-> archived.calls + 1, at |-> "heads"]
        /\ heads' \in [uids -> HeadHashes]
  BY DEF Archive
<1>2. /\ archived.at = "off" /\ archived.calls < MaxCalls /\ rows' = <<>>
      /\ UNCHANGED <<headFile, index, writing, trouble>>
  BY DEF Archive
<1>3. /\ archived' \in [epoch : 0..LastEpoch, calls : 0..MaxCalls, at : {"off", "heads", "index"}]
      /\ archived'.at = "heads" /\ archived'.epoch \in 1..LastEpoch
  <2>1. archived.calls \in 0..MaxCalls /\ MaxCalls \in Nat /\ LastEpoch \in Nat
    BY ArchiveAssumption DEF ArchiveInv, ArchiveTypeOK
  <2>2. e \in 1..LastEpoch /\ e \in 0..LastEpoch /\ archived.calls + 1 \in 0..MaxCalls
    BY <1>2, <2>1
  <2> QED BY <1>1, <2>2
<1>4. \A u \in DOMAIN heads' : u \in HeadUids /\ heads'[u] \in HeadHashes
  BY <1>1
<1>5. rows' \in Seq(Row) /\ Len(rows') = 0
  BY <1>2, EmptySeq
<1>6. ArchiveTypeOK'
  BY <1>2, <1>3, <1>4, <1>5 DEF ArchiveInv, ArchiveTypeOK, Row, Garbled
<1>7. writing = "none" /\ WritesNew'
  BY <1>2 DEF ArchiveInv, ArchiveTypeOK, WritesNew
<1>8. Whole' = Whole
  BY <1>2 DEF Whole, Garbled
<1>9. FilesWhole' /\ RowsFirst'
  BY <1>2, <1>5 DEF ArchiveInv, FilesWhole, RowsFirst
<1>10. IndexedIsWhole' /\ FirstSeenOnce' /\ IntroducedUnlessLost'
  BY <1>2, <1>8 DEF ArchiveInv, IndexedIsWhole, FirstSeenOnce, IntroducedUnlessLost
<1>11. rows' = rows
  BY <1>2 DEF ArchiveInv, CallsApart
<1>12. AllIntroduced'
  BY <1>2, <1>11 DEF ArchiveInv, AllIntroduced, Introduces, Garbled
<1>13. CallsApart'
  BY <1>3 DEF CallsApart
<1> QED BY <1>12, <1>13, <1>6, <1>7, <1>9, <1>10 DEF ArchiveInv

(* Every step of the archive, and of what may go wrong with it. *)
LEMMA ArchiveStep == ArchiveInv /\ [ArchiveNext]_archiveVars => ArchiveInv'
<1> SUFFICES ASSUME ArchiveInv, [ArchiveNext]_archiveVars PROVE ArchiveInv'
  OBVIOUS
<1>0. ArchiveTypeOK /\ WritesNew /\ CallsApart
  BY DEF ArchiveInv
<1>1. CASE Archive
  BY <1>1, ArchiveBegins
<1>2. CASE Repeat
  <2>1. /\ archived.at = "heads" /\ DOMAIN heads # {} /\ writing' = "none"
        /\ rows' = Append(rows, Here("repeat")) /\ heads' = Left
        /\ UNCHANGED <<index, archived, trouble>>
        /\ headFile' = headFile /\ headFile[heads[NextUid]] # "none"
    BY <1>2 DEF Repeat
  <2> QED BY <2>1, RowAdded
<1>3. CASE WriteHead
  <2>1. /\ archived.at = "heads" /\ DOMAIN heads # {} /\ headFile[heads[NextUid]] = "none"
        /\ writing' = "temporary" /\ UNCHANGED <<headFile, index, archived, heads, rows, trouble>>
    BY <1>3 DEF WriteHead
  <2>2. ArchiveTypeOK'
    BY <1>0, <2>1 DEF ArchiveTypeOK, Row, Garbled
  <2>3. WritesNew' /\ CallsApart'
    <3>1. NextUid' = NextUid
      BY <2>1 DEF NextUid
    <3> QED BY <1>0, <2>1, <3>1 DEF WritesNew, CallsApart
  <2> QED BY <2>1, <2>2, <2>3, FilesAlone
<1>4. CASE ReplaceHead
  <2>1. /\ writing = "temporary" /\ writing' = "none"
        /\ headFile' = [headFile EXCEPT ![heads[NextUid]] = "whole"]
        /\ rows' = Append(rows, Here("first_seen")) /\ heads' = Left
        /\ UNCHANGED <<index, archived, trouble>>
    BY <1>4 DEF ReplaceHead
  <2>2. archived.at = "heads" /\ DOMAIN heads # {} /\ headFile[heads[NextUid]] = "none"
    BY <1>0, <2>1 DEF WritesNew
  <2> QED BY <2>1, <2>2, RowAdded
<1>5. CASE OpenIndex
  <2>1. /\ archived.at = "heads" /\ DOMAIN heads = {}
        /\ archived' = [archived EXCEPT !.at = "index"]
        /\ UNCHANGED <<headFile, index, heads, writing, rows, trouble>>
    BY <1>5 DEF OpenIndex
  <2>2. /\ archived' \in [epoch : 0..LastEpoch, calls : 0..MaxCalls, at : {"off", "heads", "index"}]
        /\ archived'.at = "index" /\ archived'.epoch = archived.epoch
    BY <1>0, <2>1 DEF ArchiveTypeOK
  <2>3. ArchiveTypeOK'
    BY <1>0, <2>1, <2>2 DEF ArchiveTypeOK, Row, Garbled
  <2>4. WritesNew' /\ CallsApart'
    BY <1>0, <2>1, <2>2 DEF WritesNew, CallsApart
  <2> QED BY <2>1, <2>3, <2>4, FilesAlone
<1>6. CASE AppendRows
  <2>1. /\ archived.at = "index" /\ index' = Appended(rows)
        /\ archived' = [archived EXCEPT !.at = "off"] /\ rows' = <<>>
        /\ UNCHANGED <<headFile, heads, writing, trouble>>
    BY <1>6 DEF AppendRows
  <2>2. rows \in Seq(Lines)
    BY <1>0, SeqMonotonic DEF ArchiveTypeOK, Lines
  <2>3. writing' = "none"
    BY <1>0, <2>1 DEF WritesNew, ArchiveTypeOK
  <2>4. DOMAIN heads' = {}
    BY <1>0, <2>1 DEF CallsApart
  <2>5. trouble' \in 0..MaxTrouble
    BY <1>0, <2>1 DEF ArchiveTypeOK
  <2> QED BY <2>1, <2>2, <2>3, <2>4, <2>5, LinesAdded
<1>7. CASE CallFails
  <2>1. /\ archived.at # "off" /\ trouble' \in 1..MaxTrouble
        /\ archived' = [archived EXCEPT !.at = "off"] /\ writing' = "none" /\ rows' = <<>>
        /\ headFile' = headFile
    BY <1>0, <1>7, ArchiveAssumption DEF CallFails, CallEnds, ArchiveTypeOK
  <2>2. DOMAIN heads' = {}
    BY <1>7 DEF CallFails, CallEnds
  <2>3. CASE UNCHANGED index
    <3>1. <<>> \in Seq(Lines) /\ Len(<<>>) = 0
      BY EmptySeq
    <3>2. Appended(<<>>) = index \o <<>>
      BY DEF Appended
    <3>3. index \in Seq(Lines)
      BY <1>0 DEF ArchiveTypeOK, Lines
    <3>4. index' = Appended(<<>>)
      BY <2>3, <3>2, <3>3, ConcatEmptySeq
    <3>5. trouble' \in 0..MaxTrouble /\ trouble' # 0
      BY <2>1
    <3>6. \A k \in 1..Len(<<>>) : <<>>[k] = Garbled \/ (k \in 1..Len(rows) /\ <<>>[k] = rows[k])
      BY <3>1
    <3> QED BY <2>1, <2>2, <3>1, <3>4, <3>5, <3>6, LinesAdded
  <2>4. CASE ~UNCHANGED index
    <3>1. PICK k \in 1..Len(rows), torn \in BOOLEAN :
            index' = Appended(SubSeq(rows, 1, k - 1) \o <<IF torn THEN Garbled ELSE rows[k]>>)
      BY <1>7, <2>4 DEF CallFails
    <3> DEFINE whole == SubSeq(rows, 1, k - 1)
               end == <<IF torn THEN Garbled ELSE rows[k]>>
               new == whole \o end
    <3>2. /\ Len(rows) \in Nat /\ \A j \in 1..Len(rows) : rows[j] \in Lines
      BY <1>0, ArchiveFacts DEF Lines
    <3>3. /\ whole \in Seq(Lines) /\ Len(whole) = k - 1
          /\ \A j \in 1..k - 1 : whole[j] = rows[j]
      <4>1. \A j \in 1..k - 1 : rows[j] \in Lines
        BY <3>2
      <4>2. 1 \in Int /\ k - 1 \in Int /\ k - 1 - 1 + 1 = k - 1
        BY <3>2
      <4>3. /\ whole \in Seq(Lines) /\ Len(whole) = IF 1 <= k - 1 THEN k - 1 - 1 + 1 ELSE 0
            /\ \A j \in 1..k - 1 - 1 + 1 : whole[j] = rows[1 + j - 1]
        BY <4>1, <4>2, SubSeqProperties
      <4>4. \A j \in 1..k - 1 : 1 + j - 1 = j
        BY <3>2
      <4> HIDE DEF whole
      <4> QED BY <3>2, <4>2, <4>3, <4>4
    <3>4. /\ end \in Seq(Lines) /\ Len(end) = 1 /\ end[1] \in {Garbled, rows[k]}
      BY <3>2 DEF Lines
    <3> HIDE DEF whole, end
    <3>5. /\ new \in Seq(Lines) /\ Len(new) = k
          /\ \A i \in 1..k : new[i] = IF i <= k - 1 THEN whole[i] ELSE end[i - (k - 1)]
      <4>1. /\ new \in Seq(Lines) /\ Len(new) = Len(whole) + Len(end)
            /\ \A i \in 1..Len(whole) + Len(end) :
                 new[i] = IF i <= Len(whole) THEN whole[i] ELSE end[i - Len(whole)]
        BY <3>3, <3>4, ConcatProperties
      <4>2. Len(whole) + Len(end) = k
        BY <3>2, <3>3, <3>4
      <4> HIDE DEF new
      <4> QED BY <3>3, <4>1, <4>2
    <3>6. \A j \in 1..Len(new) : new[j] = Garbled \/ (j \in 1..Len(rows) /\ new[j] = rows[j])
      <4> SUFFICES ASSUME NEW j \in 1..k
                   PROVE  new[j] = Garbled \/ (j \in 1..Len(rows) /\ new[j] = rows[j])
        BY <3>5
      <4>1. j \in 1..Len(rows)
        BY <3>2
      <4>2. CASE j <= k - 1
        <5>1. j \in 1..k - 1 /\ new[j] = whole[j]
          BY <3>2, <3>5, <4>2
        <5> QED BY <3>3, <4>1, <5>1
      <4>3. CASE j = k
        <5>1. ~ (j <= k - 1) /\ j - (k - 1) = 1
          BY <3>2, <4>3
        <5>2. new[j] = end[j - (k - 1)]
          BY <3>5, <5>1
        <5>3. new[j] = end[1]
          BY <5>1, <5>2
        <5> QED BY <3>4, <4>1, <4>3, <5>3
      <4>4. k \in Int /\ j \in Int /\ j <= k
        BY <3>2
      <4>5. j <= k - 1 \/ j = k
        BY <4>4
      <4> QED BY <4>2, <4>3, <4>5
    <3>7. index' = Appended(new)
      BY <3>1 DEF whole, end
    <3> HIDE DEF new
    <3>8. new \in Seq(Lines) /\ trouble' \in 0..MaxTrouble /\ trouble' # 0
      BY <2>1, <3>5
    <3> QED BY <2>1, <2>2, <3>6, <3>7, <3>8, LinesAdded
  <2> QED BY <2>3, <2>4
<1>8. CASE UNCHANGED archiveVars
  <2>1. UNCHANGED <<headFile, index, archived, heads, writing, rows, trouble>>
    BY <1>8 DEF archiveVars
  <2>2. ArchiveTypeOK'
    BY <1>0, <2>1 DEF ArchiveTypeOK, Row, Garbled
  <2>3. WritesNew' /\ CallsApart'
    BY <1>0, <2>1 DEF WritesNew, CallsApart, NextUid
  <2> QED BY <2>1, <2>2, <2>3, FilesAlone
<1> QED BY <1>1, <1>2, <1>3, <1>4, <1>5, <1>6, <1>7, <1>8 DEF ArchiveNext

(* Wherever the process dies and whatever the disk refuses: every row of the
   index names a head that is there whole, one row alone introduces it, and
   without trouble one does. *)
THEOREM ArchiveAlwaysSafe == ArchiveSpec => []ArchiveSafety
<1>1. ArchiveInv => ArchiveSafety
  BY DEF ArchiveInv, ArchiveSafety
<1> QED BY <1>1, ArchiveInitially, ArchiveStep, PTL DEF ArchiveSpec

(***************************************************************************)
(* RevealPublisher                                                         *)
(***************************************************************************)

(* Files are written for the epoch being processed, which only advances. *)
Written ==
  /\ cur <= epoch
  /\ \A e \in Epochs : file[e] # NoReveal => e <= cur

(* What is marked is older than the epoch being processed, whose file a retry
   may still rewrite. *)
MarkedIsOld == \A e \in marker : e < cur /\ file[e] # NoReveal

(* What is due is old enough, not marked, and preceded by nothing that is
   neither due nor marked; between upload and mark the oldest is in the store. *)
DueInOrder ==
  /\ \A e \in due : e <= cur - delay /\ file[e] # NoReveal /\ e \notin marker
  /\ \A e \in due : \A f \in 1..e - 1 : file[f] # NoReveal => f \in due \cup marker
  /\ stage = "marking" => \A e \in due : IsOldest(e, due) => store[e] = file[e]

(* What is committed, or will be, is marked, and the newest of all. *)
CommitsMarked ==
  /\ newest # 0 => NewestMarked(newest)
  /\ pointer.epoch # 0 => pointer.epoch \in marker

(* Without a fault the pointer is behind only inside a run that has published. *)
PointerKeepsUp ==
  failures = 0 => PointerCurrent \/ (stage \in {"publishing", "marking"} /\ newest # 0)

(* The hold is the period, once it is known. *)
HoldKnown == known => delay >= period

RevealInv == /\ PublisherTypeOK /\ Written /\ MarkedIsOld /\ DueInOrder /\ CommitsMarked
        /\ PointerKeepsUp /\ HoldKnown
        /\ PublishedIsFinal /\ PublishedInOrder /\ PointerVerifies

(* The hold is positive and at least the period it was computed from. *)
LEMMA HoldIsLong == ASSUME period \in Periods
                    PROVE  Hold \in Nat \ {0} /\ Hold >= period
  BY PublisherAssumption DEF Hold

(* Nothing is revealed. *)
LEMMA RevealInitially == PublisherInit => RevealInv
<1> SUFFICES ASSUME PublisherInit PROVE RevealInv
  OBVIOUS
<1> USE PublisherAssumption, HoldIsLong DEF PublisherInit
<1>1. PublisherTypeOK
  <2>1. delay \in Nat \ {0} /\ known \in BOOLEAN
    <3>1. CASE delay = Hold /\ known = TRUE
      BY <3>1
    <3>2. CASE delay \in {1} \cup Overrides /\ known = FALSE
      <4>1. delay \in Nat \ {0}
        BY <3>2
      <4>2. known \in BOOLEAN
        BY <3>2, Zenon
      <4> QED
        BY <4>1, <4>2
    <3> QED
      BY <3>1, <3>2
  <2>2. file \in [Epochs -> RevealContent] /\ store \in [Epochs -> RevealContent]
    BY DEF RevealContent
  <2>3. pointer \in [epoch : 0..MaxEpoch, content : RevealContent]
    BY DEF RevealContent
  <2> QED
    BY <2>1, <2>2, <2>3 DEF PublisherTypeOK, Epochs
<1>2. Written /\ MarkedIsOld /\ DueInOrder /\ CommitsMarked /\ HoldKnown
  BY DEF Written, MarkedIsOld, DueInOrder, CommitsMarked, HoldKnown, Epochs, Hold
<1>3. PointerKeepsUp /\ PublishedIsFinal /\ PublishedInOrder /\ PointerVerifies
  BY DEF PointerKeepsUp, PointerCurrent, PublishedIsFinal, PublishedInOrder, PointerVerifies
<1> QED
  BY <1>1, <1>2, <1>3 DEF RevealInv

(* One action each. *)
LEMMA ChainStep == ASSUME RevealInv, ChainAdvances PROVE RevealInv'
<1> USE DEF ChainAdvances, startup, disk, run
<1>1. PublisherTypeOK'
  BY PublisherAssumption DEF RevealInv, PublisherTypeOK, Epochs
<1>2. Written'
  BY DEF RevealInv, PublisherTypeOK, Written, Epochs
<1> QED
  BY <1>1, <1>2 DEF RevealInv, MarkedIsOld, DueInOrder, CommitsMarked, PointerKeepsUp, HoldKnown,
    PublishedIsFinal, PublishedInOrder, PointerVerifies, PointerCurrent, NewestMarked, IsOldest

(* An epoch begins, later than the last. *)
LEMMA BeginStep == ASSUME RevealInv, BeginEpoch PROVE RevealInv'
<1> USE DEF BeginEpoch, startup, disk, run
<1>1. PublisherTypeOK'
  BY DEF RevealInv, PublisherTypeOK
<1>2. cur \in Int /\ cur' \in Int /\ cur <= cur' /\ cur' = epoch /\ delay \in Int
  BY DEF RevealInv, PublisherTypeOK, Written, Epochs
<1>3. Written' /\ MarkedIsOld'
  BY <1>2 DEF RevealInv, PublisherTypeOK, Written, MarkedIsOld, Epochs
<1>4. DueInOrder'
  BY <1>2 DEF RevealInv, PublisherTypeOK, DueInOrder, Epochs
<1> QED
  BY <1>1, <1>3, <1>4 DEF RevealInv, CommitsMarked, PointerKeepsUp, HoldKnown,
    PublishedIsFinal, PublishedInOrder, PointerVerifies, PointerCurrent, NewestMarked

(* The steps that move the loop on, or abandon the epoch, and publish nothing. *)
LEMMA LoopStep ==
  ASSUME RevealInv, NoProofs \/ NothingToCommit \/ EndEpoch \/ Fail
  PROVE  RevealInv'
<1>1. /\ UNCHANGED <<epoch, startup, cur, disk, store, run, pointer>>
      /\ stage' \in {"idle", "ending"} /\ last' \in {last, cur}
      /\ failures' \in {failures, failures + 1} /\ (failures' = 0 => failures = 0)
  BY DEF RevealInv, PublisherTypeOK, NoProofs, NothingToCommit, EndEpoch, Fail
<1>2. PublisherTypeOK'
  BY <1>1, PublisherAssumption DEF RevealInv, PublisherTypeOK, startup, disk, run, Epochs
<1>3. PointerKeepsUp'
  <2>1. CASE stage \in {"publishing", "marking"} /\ newest # 0
    BY <2>1 DEF NoProofs, NothingToCommit, EndEpoch, Fail
  <2>2. CASE ~(stage \in {"publishing", "marking"} /\ newest # 0)
    BY <2>2, <1>1 DEF RevealInv, PointerKeepsUp, PointerCurrent, NewestMarked, disk, run
  <2> QED
    BY <2>1, <2>2
<1> QED
  BY <1>1, <1>2, <1>3 DEF RevealInv, Written, MarkedIsOld, DueInOrder, CommitsMarked, HoldKnown,
    PublishedIsFinal, PublishedInOrder, PointerVerifies, NewestMarked, startup, disk, run

(* Writing the reveal touches a file that is not marked, due or committed. *)
LEMMA WriteStep ==
  ASSUME RevealInv, OpenReveal \/ WriteReveal
  PROVE  RevealInv'
<1>1. /\ \E c \in RevealContent \ {NoReveal} : file' = [file EXCEPT ![cur] = c]
      /\ writes' \in Nat /\ stage' \in {"writing", "revealed"} /\ stage \notin {"publishing", "marking"}
      /\ UNCHANGED <<epoch, startup, cur, last, marker, store, run, pointer, failures>>
  <2>1. CASE OpenReveal
    <3>1. HalfReveal \in RevealContent \ {NoReveal}
      BY PublisherAssumption DEF RevealContent
    <3> QED
      BY <2>1, <3>1 DEF OpenReveal, RevealInv, PublisherTypeOK
  <2>2. CASE WriteReveal
    <3>1. writes + 1 \in RevealContent \ {NoReveal} /\ writes + 1 \in Nat
      BY PublisherAssumption DEF RevealContent, RevealInv, PublisherTypeOK
    <3> QED
      BY <2>2, <3>1 DEF WriteReveal
  <2> QED
    BY <2>1, <2>2
<1>2. /\ cur \in Epochs /\ delay \in Nat \ {0} /\ due \subseteq Epochs /\ marker \subseteq Epochs
      /\ file \in [Epochs -> RevealContent]
  BY DEF RevealInv, PublisherTypeOK
<1>3. /\ file' \in [Epochs -> RevealContent] /\ file'[cur] # NoReveal
      /\ \A e \in Epochs \ {cur} : file'[e] = file[e]
  BY <1>1, <1>2
<1>4. PublisherTypeOK'
  BY <1>1, <1>3 DEF RevealInv, PublisherTypeOK, startup, run
<1>5. cur \notin marker /\ cur \notin due
  BY <1>2 DEF RevealInv, MarkedIsOld, DueInOrder, Epochs
<1>6. Written' /\ MarkedIsOld'
  BY <1>1, <1>2, <1>3, <1>5 DEF RevealInv, Written, MarkedIsOld, Epochs, run
<1>7. DueInOrder'
  <2>1. \A e \in due : e < cur
    BY <1>2 DEF RevealInv, DueInOrder, Epochs
  <2>2. \A e \in due : \A f \in 1..e - 1 : f \in Epochs \ {cur}
    BY <2>1, <1>2, PublisherAssumption DEF Epochs
  <2> QED
    BY <1>1, <1>2, <1>3, <1>5, <2>2 DEF RevealInv, DueInOrder, run, startup
<1>8. PublishedIsFinal' /\ PublishedInOrder'
  <2>1. \A e \in marker : \A f \in 1..e - 1 : f \in Epochs \ {cur}
    BY <1>2, PublisherAssumption DEF RevealInv, MarkedIsOld, Epochs
  <2> QED
    BY <2>1, <1>1, <1>2, <1>3, <1>5 DEF RevealInv, PublishedIsFinal, PublishedInOrder
<1>9. CommitsMarked' /\ PointerKeepsUp' /\ HoldKnown' /\ PointerVerifies'
  BY <1>1 DEF RevealInv, CommitsMarked, PointerKeepsUp, HoldKnown, PointerVerifies, PointerCurrent,
              NewestMarked, run, startup
<1> QED
  BY <1>4, <1>6, <1>7, <1>8, <1>9 DEF RevealInv

(* due_reveals takes what is old enough, in the order of the epochs. *)
LEMMA StartStep == ASSUME RevealInv, StartPublishing PROVE RevealInv'
<1> USE DEF StartPublishing, startup, disk
<1>1. cur \in Int /\ delay \in Int /\ Epochs \subseteq Int /\ marker \subseteq Epochs
  BY DEF RevealInv, PublisherTypeOK, Epochs
<1>2. PublisherTypeOK'
  BY PublisherAssumption DEF RevealInv, PublisherTypeOK
<1>3. DueInOrder'
  <2>1. \A e \in due' : e <= cur - delay /\ file[e] # NoReveal /\ e \notin marker
    OBVIOUS
  <2>2. \A e \in due' : \A f \in 1..e - 1 : file[f] # NoReveal => f \in due' \cup marker
    BY <1>1, PublisherAssumption DEF Epochs
  <2> QED
    BY <2>1, <2>2 DEF DueInOrder
<1>4. PointerKeepsUp'
  BY DEF RevealInv, PointerKeepsUp, PointerCurrent, NewestMarked
<1>5. CommitsMarked'
  BY DEF RevealInv, CommitsMarked, NewestMarked
<1> QED
  BY <1>2, <1>3, <1>4, <1>5 DEF RevealInv, Written, MarkedIsOld, HoldKnown,
    PublishedIsFinal, PublishedInOrder, PointerVerifies

(* What is uploaded is neither marked nor committed. *)
LEMMA UploadStep == ASSUME RevealInv, Upload PROVE RevealInv'
<1>1. PICK e \in due : IsOldest(e, due) /\ store' = [store EXCEPT ![e] = file[e]]
  BY DEF Upload
<1>2. /\ stage = "publishing" /\ stage' = "marking"
      /\ UNCHANGED <<epoch, startup, cur, last, disk, run, pointer, failures>>
  BY DEF Upload
<1> USE DEF startup, disk, run
<1>3. /\ e \in Epochs /\ store \in [Epochs -> RevealContent] /\ file[e] \in RevealContent
      /\ due \subseteq Epochs /\ marker \subseteq Epochs /\ e \notin marker
  BY DEF RevealInv, PublisherTypeOK, DueInOrder
<1>4. /\ store' \in [Epochs -> RevealContent] /\ store'[e] = file[e]
      /\ \A f \in Epochs \ {e} : store'[f] = store[f]
  BY <1>1, <1>3
<1>5. PublisherTypeOK'
  BY <1>2, <1>4 DEF RevealInv, PublisherTypeOK
<1>6. DueInOrder'
  <2>1. \A f \in due : IsOldest(f, due) => f = e
    BY <1>1, <1>3 DEF IsOldest, Epochs
  <2>2. \A f \in due : IsOldest(f, due) => store'[f] = file[f]
    BY <2>1, <1>4
  <2> QED
    BY <1>2, <2>2 DEF RevealInv, DueInOrder
<1>7. PublishedIsFinal' /\ PointerVerifies'
  BY <1>2, <1>3, <1>4 DEF RevealInv, PublishedIsFinal, PointerVerifies, CommitsMarked
<1>8. PointerKeepsUp'
  BY <1>2 DEF RevealInv, PointerKeepsUp, PointerCurrent, NewestMarked
<1> QED
  BY <1>2, <1>5, <1>6, <1>7, <1>8 DEF RevealInv, Written, MarkedIsOld, CommitsMarked, HoldKnown,
    PublishedInOrder, NewestMarked

(* Marking the oldest reveal due: all that is marked is older. *)
LEMMA MarkingIsOrdered ==
  ASSUME RevealInv, NEW e \in due, IsOldest(e, due)
  PROVE  /\ e \in Epochs /\ \A m \in marker : m < e
         /\ \A f \in 1..e - 1 : file[f] # NoReveal => f \in marker
         /\ e < cur /\ file[e] # NoReveal
<1>1. /\ due \subseteq Epochs /\ marker \subseteq Epochs /\ e \in Epochs /\ Epochs \subseteq Int
      /\ cur \in Int /\ delay \in Nat \ {0}
  BY DEF RevealInv, PublisherTypeOK, Epochs
<1>2. \A m \in marker : m < e
  <2> SUFFICES ASSUME NEW m \in marker, m > e PROVE FALSE
    BY <1>1 DEF RevealInv, DueInOrder
  <2>1. e \in 1..m - 1 /\ file[e] # NoReveal /\ e \notin marker
    BY <1>1 DEF RevealInv, DueInOrder, Epochs
  <2> QED
    BY <2>1 DEF RevealInv, PublishedInOrder
<1>3. \A f \in 1..e - 1 : file[f] # NoReveal => f \in marker
  BY <1>1 DEF RevealInv, DueInOrder, IsOldest
<1>4. e < cur /\ file[e] # NoReveal
  BY <1>1 DEF RevealInv, DueInOrder
<1> QED
  BY <1>1, <1>2, <1>3, <1>4

(* The oldest reveal that is due is marked. *)
LEMMA MarkStep == ASSUME RevealInv, Mark PROVE RevealInv'
<1>1. PICK e \in due : /\ IsOldest(e, due) /\ marker' = marker \cup {e}
                       /\ newest' = e /\ due' = due \ {e}
  BY DEF Mark
<1>2. /\ stage = "marking" /\ stage' = "publishing"
      /\ UNCHANGED <<epoch, startup, cur, last, file, writes, store, pointer, failures>>
  BY DEF Mark
<1> USE DEF startup
<1>3. /\ e \in Epochs /\ \A m \in marker : m < e
      /\ \A f \in 1..e - 1 : file[f] # NoReveal => f \in marker
      /\ e < cur /\ file[e] # NoReveal
  BY <1>1, MarkingIsOrdered
<1>4. marker \subseteq Epochs /\ due \subseteq Epochs /\ Epochs \subseteq Int
  BY DEF RevealInv, PublisherTypeOK, Epochs
<1>5. PublisherTypeOK'
  BY <1>1, <1>2, <1>3, PublisherAssumption DEF RevealInv, PublisherTypeOK, Epochs
<1>6. DueInOrder'
  BY <1>1, <1>2, <1>4 DEF RevealInv, DueInOrder
<1>7. CommitsMarked' /\ PointerKeepsUp'
  <2>1. NewestMarked(newest)'
    BY <1>1, <1>3, <1>4 DEF NewestMarked
  <2>2. newest' # 0
    BY <1>1, <1>3 DEF Epochs
  <2> QED
    BY <2>1, <2>2, <1>1, <1>2 DEF RevealInv, CommitsMarked, PointerKeepsUp
<1>8. PublishedIsFinal' /\ PublishedInOrder' /\ MarkedIsOld'
  BY <1>1, <1>2, <1>3 DEF RevealInv, DueInOrder, PublishedIsFinal, PublishedInOrder, MarkedIsOld
<1> QED
  BY <1>2, <1>5, <1>6, <1>7, <1>8 DEF RevealInv, Written, HoldKnown, PointerVerifies

(* The failures: the run ends, whether or not the marker was written. *)
LEMMA FailStep == ASSUME RevealInv, UploadFails \/ MarkFails \/ CommitFails PROVE RevealInv'
<1>1. /\ failures \in Nat /\ failures' = failures + 1
      /\ stage' \in {"publishing", "ending"}
      /\ due' = {} /\ newest' \in {0, newest}
      /\ UNCHANGED <<epoch, startup, cur, last, file, writes, store, pointer>>
  BY DEF UploadFails, MarkFails, CommitFails, disk, RevealInv, PublisherTypeOK
<1>2. \/ marker' = marker
      \/ /\ newest' = 0 /\ stage = "marking"
         /\ \E e \in due : IsOldest(e, due) /\ marker' = marker \cup {e}
  BY DEF UploadFails, MarkFails, CommitFails, disk
<1> USE DEF startup
<1>3. PointerKeepsUp' /\ DueInOrder'
  BY <1>1 DEF PointerKeepsUp, DueInOrder
<1>4. CASE marker' = marker
  <2>1. PublisherTypeOK'
    BY <1>1, <1>4, PublisherAssumption DEF RevealInv, PublisherTypeOK
  <2> QED
    BY <1>1, <1>3, <1>4, <2>1 DEF RevealInv, Written, MarkedIsOld, CommitsMarked, HoldKnown,
      PublishedIsFinal, PublishedInOrder, PointerVerifies, NewestMarked
<1>5. CASE newest' = 0 /\ stage = "marking"
           /\ \E e \in due : IsOldest(e, due) /\ marker' = marker \cup {e}
  <2>1. PICK e \in due : IsOldest(e, due) /\ marker' = marker \cup {e}
    BY <1>5
  <2>2. /\ e \in Epochs /\ e < cur /\ file[e] # NoReveal
        /\ \A f \in 1..e - 1 : file[f] # NoReveal => f \in marker
    BY <2>1, MarkingIsOrdered
  <2>3. PublisherTypeOK'
    BY <1>1, <2>1, <2>2, PublisherAssumption DEF RevealInv, PublisherTypeOK
  <2>4. PublishedIsFinal' /\ PublishedInOrder' /\ MarkedIsOld'
    BY <1>1, <1>5, <2>1, <2>2
    DEF RevealInv, DueInOrder, PublishedIsFinal, PublishedInOrder, MarkedIsOld
  <2>5. CommitsMarked'
    BY <1>1, <1>5, <2>1 DEF RevealInv, CommitsMarked
  <2> QED
    BY <1>1, <1>3, <2>3, <2>4, <2>5 DEF RevealInv, Written, HoldKnown, PointerVerifies
<1> QED
  BY <1>2, <1>4, <1>5

(* The pointer moves to the newest reveal this run published. *)
LEMMA CommitStep == ASSUME RevealInv, Commit PROVE RevealInv'
<1> USE DEF Commit, startup, disk, run
<1>1. newest # 0 /\ NewestMarked(newest) /\ newest \in Epochs /\ file[newest] \in RevealContent
      /\ store[newest] = file[newest]
  BY DEF RevealInv, PublisherTypeOK, CommitsMarked, NewestMarked, PublishedIsFinal
<1>2. pointer' \in [epoch : 0..MaxEpoch, content : RevealContent]
      /\ pointer'.epoch = newest /\ pointer'.content = file[newest]
  BY <1>1 DEF RevealInv, PublisherTypeOK
<1>3. PublisherTypeOK'
  BY <1>2 DEF RevealInv, PublisherTypeOK
<1>4. CommitsMarked' /\ PointerKeepsUp' /\ PointerVerifies'
  BY <1>1, <1>2 DEF CommitsMarked, PointerKeepsUp, PointerVerifies, PointerCurrent, NewestMarked
<1> QED
  BY <1>3, <1>4 DEF RevealInv, Written, MarkedIsOld, DueInOrder, HoldKnown,
    PublishedIsFinal, PublishedInOrder

(* A restart abandons the run and keeps what is on disk. *)
LEMMA RestartStep == ASSUME RevealInv, CrashAndRestart PROVE RevealInv'
<1> USE DEF CrashAndRestart, disk
<1>1. /\ delay' \in Nat \ {0} /\ known' \in BOOLEAN /\ (known' => delay' >= period)
      /\ failures' = failures + 1 /\ failures \in Nat
  <2>1. Hold \in Nat \ {0} /\ Hold >= period /\ failures' = failures + 1 /\ failures \in Nat
    BY HoldIsLong DEF RevealInv, PublisherTypeOK
  <2>2. CASE ReadPeriod
    BY <2>1, <2>2 DEF ReadPeriod
  <2>3. CASE ReadFails \/ Override
    <3>1. delay' \in {1} \cup Overrides /\ known' = FALSE
      BY <2>3 DEF ReadFails, Override
    <3>2. known' \in BOOLEAN /\ ~known'
      BY <3>1, Zenon
    <3>3. delay' \in Nat \ {0}
      BY <3>1, PublisherAssumption
    <3> QED
      BY <2>1, <3>2, <3>3
  <2> QED
    BY <2>2, <2>3
<1>2. PublisherTypeOK'
  BY <1>1, PublisherAssumption DEF RevealInv, PublisherTypeOK
<1>3. PointerKeepsUp' /\ DueInOrder' /\ HoldKnown' /\ CommitsMarked'
  BY <1>1 DEF RevealInv, PointerKeepsUp, DueInOrder, HoldKnown, CommitsMarked
<1> QED
  BY <1>2, <1>3 DEF RevealInv, Written, MarkedIsOld, PublishedIsFinal, PublishedInOrder, PointerVerifies

(* Every step keeps the invariant. *)
LEMMA RevealStep == RevealInv /\ [PublisherNext]_publisherVars => RevealInv'
<1> SUFFICES ASSUME RevealInv, [PublisherNext]_publisherVars PROVE RevealInv'
  OBVIOUS
<1>1. CASE PublisherNext
  BY <1>1, ChainStep, BeginStep, LoopStep, WriteStep, StartStep, UploadStep, MarkStep, FailStep,
     CommitStep, RestartStep DEF PublisherNext
<1>2. CASE UNCHANGED publisherVars
  BY <1>2 DEF publisherVars, startup, disk, run, RevealInv, PublisherTypeOK, Written, MarkedIsOld, DueInOrder,
    CommitsMarked, PointerKeepsUp, HoldKnown, PublishedIsFinal, PublishedInOrder, PointerVerifies,
    PointerCurrent, NewestMarked, IsOldest
<1> QED
  BY <1>1, <1>2

(* The invariant holds of every behaviour. *)
LEMMA RevealInductive == PublisherSpec => []RevealInv
  BY RevealInitially, RevealStep, PTL DEF PublisherSpec

-----------------------------------------------------------------------------
(* The files, the markers and the pointer are of their kinds. *)
THEOREM RevealTypeCorrect == PublisherSpec => []PublisherTypeOK
<1>1. RevealInv => PublisherTypeOK
  BY DEF RevealInv
<1> QED
  BY <1>1, RevealInductive, PTL

(* However epochs are retried, a published reveal is never rewritten
   (reveal_epoch, delay_epochs_for). *)
THEOREM PublishedAlwaysFinal == PublisherSpec => []PublishedIsFinal
<1>1. RevealInv => PublishedIsFinal
  BY DEF RevealInv
<1> QED
  BY <1>1, RevealInductive, PTL

(* However uploads fail, no reveal overtakes an older one
   (publish_due_reveals). *)
THEOREM AlwaysInOrder == PublisherSpec => []PublishedInOrder
<1>1. RevealInv => PublishedInOrder
  BY DEF RevealInv
<1> QED
  BY <1>1, RevealInductive, PTL

(* The hash on chain is always that of the file served. *)
THEOREM PointerAlwaysVerifies == PublisherSpec => []PointerVerifies
<1>1. RevealInv => PointerVerifies
  BY DEF RevealInv
<1> QED
  BY <1>1, RevealInductive, PTL

(* Without failures each run leaves the pointer on the newest reveal. *)
THEOREM PointerAlwaysNewest == PublisherSpec => []PointerIsNewest
<1>1. RevealInv => PointerIsNewest
  BY DEF RevealInv, PointerKeepsUp, PointerIsNewest
<1> QED
  BY <1>1, RevealInductive, PTL

(* The pointer moves forward only. *)
THEOREM PointerNeverBack == PublisherSpec => PointerNeverGoesBack
<1>1. RevealInv /\ [PublisherNext]_publisherVars => [pointer'.epoch >= pointer.epoch]_publisherVars
  <2> SUFFICES ASSUME RevealInv, PublisherNext PROVE pointer'.epoch >= pointer.epoch
    BY DEF publisherVars
  <2>1. pointer.epoch \in Int
    BY DEF RevealInv, PublisherTypeOK
  <2>2. CASE Commit
    <3>1. pointer'.epoch = newest /\ newest # 0 /\ newest \in Nat
      BY <2>2 DEF Commit, RevealInv, PublisherTypeOK
    <3>2. pointer.epoch = 0 \/ pointer.epoch <= newest
      BY <3>1 DEF RevealInv, CommitsMarked, NewestMarked
    <3> QED
      BY <2>1, <3>1, <3>2
  <2>3. CASE UNCHANGED pointer
    BY <2>1, <2>3
  <2> QED
    BY <2>2, <2>3 DEF PublisherNext, ChainAdvances, BeginEpoch, NoProofs, OpenReveal, WriteReveal,
      StartPublishing, Upload, UploadFails, Mark, MarkFails, CommitFails, NothingToCommit,
      EndEpoch, Fail, CrashAndRestart
<1> QED
  BY <1>1, RevealInductive, PTL DEF PublisherSpec, PointerNeverGoesBack

(* No reveal is in a store before the period is over, if it was read. *)
THEOREM AlwaysHeld == PublisherSpec => HeldForPeriod
<1> DEFINE Held == \A e \in Epochs : store'[e] # store[e] => epoch >= e + period \/ ~known
<1>1. RevealInv /\ [PublisherNext]_publisherVars => [Held]_publisherVars
  <2> SUFFICES ASSUME RevealInv, PublisherNext PROVE Held
    BY DEF publisherVars
  <2>1. CASE Upload
    <3>1. PICK e \in due : store' = [store EXCEPT ![e] = file[e]]
      BY <2>1 DEF Upload
    <3>2. /\ e \in Int /\ epoch \in Int /\ cur \in Int /\ delay \in Int /\ period \in Int
          /\ e <= cur - delay /\ cur <= epoch /\ (known => delay >= period)
      BY PublisherAssumption DEF RevealInv, PublisherTypeOK, DueInOrder, Written, HoldKnown, Epochs
    <3>3. \A f \in Epochs : store'[f] # store[f] => f = e
      BY <3>1 DEF RevealInv, PublisherTypeOK
    <3> QED
      BY <3>2, <3>3
  <2>2. CASE UNCHANGED store
    BY <2>2
  <2> QED
    BY <2>1, <2>2 DEF PublisherNext, ChainAdvances, BeginEpoch, NoProofs, OpenReveal, WriteReveal,
      StartPublishing, UploadFails, Mark, MarkFails, Commit, CommitFails, NothingToCommit,
      EndEpoch, Fail, CrashAndRestart
<1> QED
  BY <1>1, RevealInductive, PTL DEF PublisherSpec, HeldForPeriod

(* What is public of the reveals is final, in order and verifiable, for any
   number of epochs, failures and retries. *)
THEOREM RevealsAlwaysSafe == PublisherSpec => []RevealSafety
BY RevealTypeCorrect, PublishedAlwaysFinal, AlwaysInOrder, PointerAlwaysVerifies, PointerAlwaysNewest,
   PTL DEF RevealSafety

(* Neither does the hash on chain go back nor a reveal leave early. *)
THEOREM AlwaysHeldAndForward == PublisherSpec => HeldAndForward
BY AlwaysHeld, PointerNeverBack DEF HeldAndForward

=============================================================================
