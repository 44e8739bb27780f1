------------------------------ MODULE StateFile ------------------------------
(***************************************************************************)
(* The validator's durable state: neurons/validator.py save_state and      *)
(* load_state, one action per step at which the process can die.           *)
(*                                                                         *)
(* Three names in one directory: the state file, its `.bak` and its `.tmp`.*)
(* save_state writes the new state to .tmp and syncs it, renames the state *)
(* file to .bak, then renames .tmp to the state file.  A rename is atomic  *)
(* and survives a crash; bytes not yet synced do not.                      *)
(*                                                                         *)
(* A state is a number: 0 is the empty state, and each epoch's result is a *)
(* fresh one (nextState).  Only the identity of a state matters here.      *)
(***************************************************************************)
EXTENDS Naturals

CONSTANTS
  NoFile,      \* content of a name that does not exist
  Torn,        \* content that does not parse
  Down,        \* no process is running
  MaxStates,   \* bound: states computed
  MaxFaults    \* bound: crashes, failed saves and damaged files together

ASSUME FileAssumption ==
  /\ NoFile \notin Nat /\ Torn \notin Nat /\ Down \notin Nat
  /\ NoFile # Torn
  /\ MaxStates \in Nat /\ MaxFaults \in Nat

VARIABLES
  path,       \* content of the state file
  bak,        \* content of <path>.bak
  tmp,        \* content of <path>.tmp
  pc,         \* where the process is
  mem,        \* the state the process holds, or Down
  nextState,  \* the next fresh state
  saved,      \* history: the last state whose save completed (0: none yet)
  kept,       \* history: the one saved before it
  faults,     \* crashes, failed saves and damaged files so far
  damaged     \* history: the state file has been made unreadable on the disk

vars == <<path, bak, tmp, pc, mem, nextState, saved, kept, faults, damaged>>

EmptyState == 0
Content == Nat \cup {NoFile, Torn}
InSave == {"writing", "synced", "moved"}

TypeOK ==
  /\ path \in Content /\ bak \in Content /\ tmp \in Content
  /\ pc \in {"run", "down", "refused"} \cup InSave
  /\ mem \in Nat \cup {Down}
  /\ mem = Down <=> pc \in {"down", "refused"}
  /\ nextState \in Nat /\ saved \in Nat /\ kept \in Nat
  /\ faults \in Nat /\ damaged \in BOOLEAN

(* First start: load_state finds no file and returns the empty state. *)
Init ==
  /\ path = NoFile /\ bak = NoFile /\ tmp = NoFile
  /\ pc = "run" /\ mem = EmptyState /\ nextState = 1
  /\ saved = EmptyState /\ kept = EmptyState
  /\ faults = 0 /\ damaged = FALSE

-----------------------------------------------------------------------------
(* save_state *)

(* The epoch's result becomes the state held, and save_state opens .tmp for
   writing: whatever .tmp held is gone. *)
StartSave ==
  /\ pc = "run" /\ nextState <= MaxStates
  /\ mem' = nextState /\ nextState' = nextState + 1
  /\ tmp' = Torn
  /\ pc' = "writing"
  /\ UNCHANGED <<path, bak, saved, kept, faults, damaged>>

(* json.dump, flush, fsync. *)
SyncTmp ==
  /\ pc = "writing"
  /\ tmp' = mem
  /\ pc' = "synced"
  /\ UNCHANGED <<path, bak, mem, nextState, saved, kept, faults, damaged>>

(* Mutant of KeepPrevious: an existing .bak is never replaced. *)
KeepPreviousOnce ==
  /\ pc = "synced"
  /\ IF path = NoFile \/ bak # NoFile THEN UNCHANGED <<path, bak>>
                                      ELSE bak' = path /\ path' = NoFile
  /\ pc' = "moved"
  /\ UNCHANGED <<tmp, mem, nextState, saved, kept, faults, damaged>>

(* os.replace(path, path + ".bak"), when there is a state file. *)
KeepPrevious ==
  /\ pc = "synced"
  /\ IF path = NoFile THEN UNCHANGED <<path, bak>>
                      ELSE bak' = path /\ path' = NoFile
  /\ pc' = "moved"
  /\ UNCHANGED <<tmp, mem, nextState, saved, kept, faults, damaged>>

(* os.replace(tmp, path): the save is complete. *)
PutInPlace ==
  /\ pc = "moved"
  /\ path' = tmp /\ tmp' = NoFile
  /\ saved' = mem /\ kept' = saved
  /\ pc' = "run"
  /\ UNCHANGED <<bak, mem, nextState, faults, damaged>>

(* A step of save_state raises (disk full, permissions): the epoch loop logs
   it and goes on with the state it holds. *)
SaveRaises ==
  /\ pc \in InSave /\ faults < MaxFaults
  /\ faults' = faults + 1
  /\ pc' = "run"
  /\ UNCHANGED <<path, bak, tmp, mem, nextState, saved, kept, damaged>>

-----------------------------------------------------------------------------

(* The process dies, at any step. *)
Crash ==
  /\ pc \in {"run"} \cup InSave /\ faults < MaxFaults
  /\ faults' = faults + 1
  /\ mem' = Down /\ pc' = "down"
  /\ UNCHANGED <<path, bak, tmp, nextState, saved, kept, damaged>>

(* The state file becomes unreadable: a bad sector, a truncation, an edit. *)
Damage ==
  /\ path \in Nat /\ faults < MaxFaults
  /\ faults' = faults + 1
  /\ path' = Torn /\ damaged' = TRUE
  /\ UNCHANGED <<bak, tmp, pc, mem, nextState, saved, kept>>

-----------------------------------------------------------------------------
(* load_state, when a new process starts *)

Resume(state) ==
  /\ mem' = state /\ pc' = "run"
  /\ UNCHANGED <<path, bak, tmp, nextState, saved, kept, faults, damaged>>

LoadFile == pc = "down" /\ path \in Nat /\ Resume(path)

(* Mutant of LoadNothing: the interrupted save's .tmp is taken for a state. *)
LoadNothingSalvages ==
  pc = "down" /\ path = NoFile /\ Resume(IF tmp \in Nat THEN tmp ELSE EmptyState)

(* except FileNotFoundError: the empty state, whatever .bak holds. *)
LoadNothing == pc = "down" /\ path = NoFile /\ Resume(EmptyState)

(* except Exception: the previous copy, if there is one that parses. *)
LoadBackup == pc = "down" /\ path = Torn /\ bak \in Nat /\ Resume(bak)

(* Neither parses: ValueError (or the .bak's own error); the validator does
   not start. *)
LoadRefuses ==
  /\ pc = "down" /\ path = Torn /\ bak \notin Nat
  /\ pc' = "refused"
  /\ UNCHANGED <<path, bak, tmp, mem, nextState, saved, kept, faults, damaged>>

(* The operator deletes the unreadable file, the only way out. *)
OperatorDeletes ==
  /\ pc = "refused"
  /\ path' = NoFile /\ pc' = "down"
  /\ UNCHANGED <<bak, tmp, mem, nextState, saved, kept, faults, damaged>>

Load == LoadFile \/ LoadNothing \/ LoadBackup \/ LoadRefuses

Next ==
  \/ StartSave \/ SyncTmp \/ KeepPrevious \/ PutInPlace \/ SaveRaises
  \/ Crash \/ Damage
  \/ Load \/ OperatorDeletes

Spec == Init /\ [][Next]_vars

-----------------------------------------------------------------------------
(* The last state saved is on the disk, under the name load_state reads or
   under .bak, at every instant, so a crash between any two steps of
   save_state destroys nothing; unless the disk damaged it. *)
LatestIsOnDisk ==
  saved # EmptyState /\ ~damaged => saved \in {path, bak}

(* The state file never holds half a state: bytes reach that name only after
   they are synced, so only damage to the disk makes it unreadable. *)
FileIsWhole == path = Torn => damaged

(* While the disk is sound, .bak is exactly the state saved before the one in
   place, and the last state saved itself whenever the state file has been
   moved aside: a save that fails or is cut short, any number of times in a
   row, never rotates the only good copy out. *)
BackupIsPrevious ==
  ~damaged /\ bak # NoFile => bak = IF path = NoFile THEN saved ELSE kept

(* Contract: a process resumes from the last state saved, from the one before
   it, or from the empty state (load_state). *)
Store == INSTANCE StateStore
           WITH States <- Nat, Empty <- EmptyState,
                latest <- saved, previous <- kept, held <- mem
KeepsStoreContract == Store!Spec

(* docs/VALIDATOR_GUIDE.md: "State persistence - scoring state survives
   restarts".  On a sound disk, only a validator that never completed a save
   starts from the empty state. *)
StateSurvivesRestarts ==
  [][ LoadNothing /\ ~damaged => saved = EmptyState ]_vars

(* What is on the disk, whatever the interleaving of saves, failed saves,
   crashes and damage to the disk. *)
DiskSafety == TypeOK /\ LatestIsOnDisk /\ FileIsWhole /\ BackupIsPrevious

=============================================================================
