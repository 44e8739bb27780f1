----------------------------- MODULE HeadArchive -----------------------------
(***************************************************************************)
(* The archive of verified heads: fugal_subnet/head_archive.py, called in  *)
(* each epoch by neurons/validator.py (_archive_heads).  The process may   *)
(* die at any step, and the disk refuse; the files outlive both.           *)
(***************************************************************************)
EXTENDS Integers, Sequences, SequencesExt

CONSTANTS
  HeadUids,     \* the miners' UIDs
  HeadHashes,   \* digests of heads
  LastEpoch,    \* bound: epochs
  MaxCalls,     \* bound: times heads are archived
  MaxTrouble    \* bound: crashes and disk errors

ASSUME ArchiveAssumption ==
  HeadUids \subseteq Nat /\ LastEpoch \in Nat /\ MaxCalls \in Nat /\ MaxTrouble \in Nat

VARIABLES
  headFile,  \* <hash>.npz: "none", "partial" or "whole"
  index,     \* index.jsonl, a line each: a row, or what is left of some
  archived,  \* the epoch, the calls so far, and how far the current one is
  heads,     \* UIDs still to be written, and the hash each served
  writing,   \* none, or how far the current head's temporary file is
  rows,      \* those of this call, of which a flush appends a part
  trouble    \* crashes and disk errors so far

archiveVars == <<headFile, index, archived, heads, writing, rows, trouble>>

Row == [epoch : 1..LastEpoch, uid : HeadUids, hash : HeadHashes, status : {"first_seen", "repeat"}]
Garbled == [epoch |-> 0]
Whole == {k \in DOMAIN index : index[k] # Garbled}

ArchiveTypeOK ==
  /\ headFile \in [HeadHashes -> {"none", "partial", "whole"}]
  /\ index \in Seq(Row \cup {Garbled}) /\ rows \in Seq(Row)
  /\ archived \in [epoch : 0..LastEpoch, calls : 0..MaxCalls, at : {"off", "heads", "index"}]
  /\ \A u \in DOMAIN heads : u \in HeadUids /\ heads[u] \in HeadHashes
  /\ writing \in {"none", "temporary"} /\ trouble \in 0..MaxTrouble

ArchiveInit ==
  /\ headFile = [h \in HeadHashes |-> "none"] /\ index = <<>> /\ rows = <<>>
  /\ archived = [epoch |-> 0, calls |-> 0, at |-> "off"] /\ heads = <<>> /\ writing = "none" /\ trouble = 0

-----------------------------------------------------------------------------

NextUid == CHOOSE u \in DOMAIN heads : \A w \in DOMAIN heads : u <= w
Left == [u \in DOMAIN heads \ {NextUid} |-> heads[u]]

Here(status) == [epoch |-> archived.epoch, uid |-> NextUid, hash |-> heads[NextUid], status |-> status]

(* The next epoch's verified heads, or the last one's: it is run again when
   the validator died before it was saved. *)
Archive ==
  /\ archived.at = "off" /\ archived.calls < MaxCalls
  /\ \E e \in {archived.epoch, archived.epoch + 1} \cap 1..LastEpoch, uids \in SUBSET HeadUids \ {{}} :
       /\ archived' = [epoch |-> e, calls |-> archived.calls + 1, at |-> "heads"]
       /\ heads' \in [uids -> HeadHashes]
  /\ rows' = <<>> /\ UNCHANGED <<headFile, index, writing, trouble>>

(* A head archived before, in this call or an earlier one. *)
Repeat ==
  /\ archived.at = "heads" /\ DOMAIN heads # {} /\ writing = "none" /\ headFile[heads[NextUid]] # "none"
  /\ rows' = Append(rows, Here("repeat")) /\ heads' = Left
  /\ UNCHANGED <<headFile, index, archived, writing, trouble>>

(* Mutant of WriteHead: the file itself is written, not a temporary one. *)
WriteHeadInPlace ==
  /\ archived.at = "heads" /\ DOMAIN heads # {} /\ writing = "none" /\ headFile[heads[NextUid]] = "none"
  /\ writing' = "temporary" /\ headFile' = [headFile EXCEPT ![heads[NextUid]] = "partial"]
  /\ UNCHANGED <<index, archived, heads, rows, trouble>>

(* The bytes are in <hash>.npz.tmp.<pid>, on the disk. *)
WriteHead ==
  /\ archived.at = "heads" /\ DOMAIN heads # {} /\ writing = "none" /\ headFile[heads[NextUid]] = "none"
  /\ writing' = "temporary"
  /\ UNCHANGED <<headFile, index, archived, heads, rows, trouble>>

ReplaceHead ==
  /\ writing = "temporary"
  /\ headFile' = [headFile EXCEPT ![heads[NextUid]] = "whole"] /\ writing' = "none"
  /\ rows' = Append(rows, Here("first_seen")) /\ heads' = Left
  /\ UNCHANGED <<index, archived, trouble>>

(* What is left of a line swallows the one appended after it. *)
Appended(new) ==
  IF new # <<>> /\ index # <<>> /\ Last(index) = Garbled
  THEN index \o Tail(new)
  ELSE index \o new

(* All heads are written: the rows are appended. *)
OpenIndex ==
  /\ archived.at = "heads" /\ DOMAIN heads = {}
  /\ archived' = [archived EXCEPT !.at = "index"]
  /\ UNCHANGED <<headFile, index, heads, writing, rows, trouble>>

AppendRows ==
  /\ archived.at = "index"
  /\ index' = Appended(rows) /\ archived' = [archived EXCEPT !.at = "off"] /\ rows' = <<>>
  /\ UNCHANGED <<headFile, heads, writing, trouble>>

CallEnds == archived' = [archived EXCEPT !.at = "off"] /\ heads' = <<>> /\ writing' = "none" /\ rows' = <<>>

(* A write fails, or the process dies: the rest of the call is lost, and of
   the rows written some prefix, perhaps with part of a line, is there. *)
CallFails ==
  /\ archived.at # "off" /\ trouble < MaxTrouble /\ trouble' = trouble + 1
  /\ CallEnds /\ UNCHANGED headFile
  /\ \/ UNCHANGED index
     \/ /\ archived.at = "index"
        /\ \E k \in 1..Len(rows), torn \in BOOLEAN :
             index' = Appended(SubSeq(rows, 1, k - 1) \o <<IF torn THEN Garbled ELSE rows[k]>>)

ArchiveNext == Archive \/ Repeat \/ WriteHead \/ ReplaceHead \/ OpenIndex \/ AppendRows \/ CallFails

ArchiveSpec == ArchiveInit /\ [][ArchiveNext]_archiveVars

-----------------------------------------------------------------------------
(* "Raw bytes, written once per hash": what a row of the index names is there
   whole, whenever the process died and whatever was lost with it. *)
IndexedIsWhole == \A k \in Whole : headFile[index[k].hash] = "whole"

(* One row calls a head first seen, of all the epochs' and all the miners'
   that serve it, and of an epoch that is archived twice; none may, when its
   rows were lost. *)
FirstSeenOnce ==
  \A j, k \in Whole :
    index[j].hash = index[k].hash /\ index[j].status = "first_seen" =>
      /\ j <= k /\ (index[k].status = "first_seen" => j = k)

(* The head whose rows were lost is a repeat of one no row introduces; that
   takes a failure. *)
IntroducedUnlessLost ==
  trouble = 0 => \A k \in Whole : \E j \in Whole :
    j <= k /\ index[j].hash = index[k].hash /\ index[j].status = "first_seen"

(* What the index and the head files say together after any crash. *)
ArchiveSafety == ArchiveTypeOK /\ IndexedIsWhole /\ FirstSeenOnce /\ IntroducedUnlessLost

=============================================================================
