--------------------------- MODULE RevealPublisher ---------------------------
(***************************************************************************)
(* What becomes of an epoch's reveal: fugal_subnet/commit_reveal.py        *)
(* (reveal_epoch writes it), fugal_subnet/reveal_publisher.py (uploads it  *)
(* when it is old enough, marks it, and commits the newest one's hash on   *)
(* chain), called from the epoch loop of neurons/validator.py.             *)
(*                                                                         *)
(* A file's content is the number of the write that made it: an epoch that *)
(* is retried writes its reveal again.  last is saved state: how it        *)
(* survives a crash is ValidatorEpoch's.                                   *)
(***************************************************************************)
EXTENDS Integers, FiniteSets

CONSTANTS
  MaxEpoch,     \* bound: the chain's epochs are 1..MaxEpoch
  Periods,      \* values of commit_reveal_period, 0 when it is disabled
  Overrides,    \* values of FUGAL_REVEAL_DELAY_EPOCHS, where it is set
  MaxFailures,  \* bound: exceptions, crashes and failed calls
  NoReveal,     \* content of a file that does not exist
  HalfReveal    \* content of a file half written

ASSUME PublisherAssumption ==
  /\ MaxEpoch \in Nat \ {0} /\ Periods \subseteq Nat /\ MaxFailures \in Nat
  /\ Overrides \subseteq Nat \ {0}
  /\ NoReveal \notin Nat /\ HalfReveal \notin Nat /\ NoReveal # HalfReveal

VARIABLES
  epoch,    \* the chain's epoch
  period,   \* the subnet's commit_reveal_period
  delay,    \* reveal_delay, set at startup
  known,    \* history: the period was read at startup
  stage,    \* where the loop is
  cur,      \* the epoch being processed
  last,     \* the last epoch done
  file,     \* <epoch>/reveal.json
  writes,   \* reveals written so far
  marker,   \* the epochs with a .published marker
  store,    \* the public store
  due,      \* due_reveals not yet visited in this run
  newest,   \* the last reveal published in this run, 0 if none
  pointer,  \* the hash on chain: [epoch, content], epoch 0 if none
  failures  \* failures so far

disk == <<file, writes, marker>>
run == <<due, newest>>
startup == <<period, delay, known>>
publisherVars == <<epoch, startup, stage, cur, last, disk, store, run, pointer, failures>>

Epochs == 1..MaxEpoch
RevealContent == Nat \cup {NoReveal, HalfReveal}

PublisherTypeOK ==
  /\ epoch \in Epochs
  /\ period \in Periods /\ delay \in Nat \ {0} /\ known \in BOOLEAN
  /\ stage \in {"idle", "epoch", "writing", "revealed", "publishing", "marking", "ending"}
  /\ cur \in Epochs /\ last \in 0..MaxEpoch
  /\ file \in [Epochs -> RevealContent] /\ writes \in Nat
  /\ marker \subseteq Epochs /\ store \in [Epochs -> RevealContent]
  /\ due \subseteq Epochs /\ newest \in 0..MaxEpoch
  /\ pointer \in [epoch : 0..MaxEpoch, content : RevealContent]
  /\ failures \in Nat

(* delay_epochs_for, when the hyperparameters are read. *)
Hold == IF period > 1 THEN period ELSE 1

(* delay_epochs_for: one epoch when they cannot be read. *)
ReadFails == delay' = 1 /\ known' = FALSE

ReadPeriod == delay' = Hold /\ known' = TRUE

(* The operator's own delay: the chain is not asked. *)
Override == delay' \in Overrides /\ known' = FALSE

PublisherInit ==
  /\ epoch = 1 /\ stage = "idle" /\ cur = 1 /\ last = 0
  /\ period \in Periods
  /\ \/ delay = Hold /\ known = TRUE
     \/ delay \in {1} \cup Overrides /\ known = FALSE
  /\ file = [e \in Epochs |-> NoReveal] /\ writes = 0 /\ marker = {}
  /\ store = [e \in Epochs |-> NoReveal]
  /\ due = {} /\ newest = 0
  /\ pointer = [epoch |-> 0, content |-> NoReveal] /\ failures = 0

-----------------------------------------------------------------------------
ChainAdvances ==
  /\ epoch < MaxEpoch /\ epoch' = epoch + 1
  /\ UNCHANGED <<startup, stage, cur, last, disk, store, run, pointer, failures>>

BeginEpoch ==
  /\ stage = "idle" /\ epoch > last
  /\ cur' = epoch /\ stage' = "epoch"
  /\ UNCHANGED <<epoch, startup, last, disk, store, run, pointer, failures>>

(* No proof verified: nothing is revealed, and nothing is published. *)
NoProofs ==
  /\ stage = "epoch"
  /\ last' = cur /\ stage' = "idle"
  /\ UNCHANGED <<epoch, startup, cur, disk, store, run, pointer, failures>>

(* reveal_epoch opens reveal.json for writing, *)
OpenReveal ==
  /\ stage = "epoch"
  /\ file' = [file EXCEPT ![cur] = HalfReveal] /\ stage' = "writing"
  /\ UNCHANGED <<epoch, startup, cur, last, writes, marker, store, run, pointer, failures>>

(* and dumps the artifact into it. *)
WriteReveal ==
  /\ stage = "writing"
  /\ file' = [file EXCEPT ![cur] = writes + 1] /\ writes' = writes + 1
  /\ stage' = "revealed"
  /\ UNCHANGED <<epoch, startup, cur, last, marker, store, run, pointer, failures>>

-----------------------------------------------------------------------------
(* publish_due_reveals, once the weights are set *)

IsOldest(e, S) == e \in S /\ \A f \in S : e <= f

(* Mutant of StartPublishing: every epoch before this one is old enough. *)
StartPublishingAtOnce ==
  /\ stage = "revealed"
  /\ due' = {e \in Epochs : e < cur /\ file[e] # NoReveal} \ marker
  /\ newest' = 0 /\ stage' = "publishing"
  /\ UNCHANGED <<epoch, startup, cur, last, disk, store, pointer, failures>>

(* due_reveals: old enough, and not marked. *)
StartPublishing ==
  /\ stage = "revealed"
  /\ due' = {e \in Epochs : e <= cur - delay /\ file[e] # NoReveal} \ marker
  /\ newest' = 0 /\ stage' = "publishing"
  /\ UNCHANGED <<epoch, startup, cur, last, disk, store, pointer, failures>>

(* The oldest reveal due is uploaded. *)
Upload ==
  /\ stage = "publishing"
  /\ \E e \in due : IsOldest(e, due) /\ store' = [store EXCEPT ![e] = file[e]]
  /\ stage' = "marking"
  /\ UNCHANGED <<epoch, startup, cur, last, disk, run, pointer, failures>>

(* Mutant of UploadFails: the loop goes on with the next reveal. *)
UploadFailsSkips ==
  /\ stage = "publishing" /\ failures < MaxFailures
  /\ \E e \in due : IsOldest(e, due) /\ due' = due \ {e}
  /\ failures' = failures + 1
  /\ UNCHANGED <<epoch, startup, stage, cur, last, disk, store, newest, pointer>>

(* The upload fails: this reveal and the later ones wait for the next run. *)
UploadFails ==
  /\ stage = "publishing" /\ due # {} /\ failures < MaxFailures
  /\ due' = {} /\ failures' = failures + 1
  /\ UNCHANGED <<epoch, startup, stage, cur, last, disk, store, newest, pointer>>

Mark ==
  /\ stage = "marking"
  /\ \E e \in due : /\ IsOldest(e, due)
                    /\ marker' = marker \cup {e} /\ newest' = e /\ due' = due \ {e}
  /\ stage' = "publishing"
  /\ UNCHANGED <<epoch, startup, cur, last, file, writes, store, pointer, failures>>

(* Writing the marker raises, before or after creating the file: the run is
   abandoned, and the epoch goes on. *)
MarkFails ==
  /\ stage = "marking" /\ failures < MaxFailures
  /\ \E e \in due : IsOldest(e, due) /\ marker' \in {marker, marker \cup {e}}
  /\ due' = {} /\ newest' = 0 /\ failures' = failures + 1
  /\ stage' = "ending"
  /\ UNCHANGED <<epoch, startup, cur, last, file, writes, store, pointer>>

(* The hash of the newest reveal this run published goes on chain. *)
Commit ==
  /\ stage = "publishing" /\ due = {} /\ newest # 0
  /\ pointer' = [epoch |-> newest, content |-> file[newest]]
  /\ stage' = "ending"
  /\ UNCHANGED <<epoch, startup, cur, last, disk, store, run, failures>>

(* The chain refuses it, or the call raises: logged. *)
CommitFails ==
  /\ stage = "publishing" /\ due = {} /\ newest # 0 /\ failures < MaxFailures
  /\ failures' = failures + 1 /\ stage' = "ending"
  /\ UNCHANGED <<epoch, startup, cur, last, disk, store, due, newest, pointer>>

NothingToCommit ==
  /\ stage = "publishing" /\ due = {} /\ newest = 0
  /\ stage' = "ending"
  /\ UNCHANGED <<epoch, startup, cur, last, disk, store, run, pointer, failures>>

-----------------------------------------------------------------------------
EndEpoch ==
  /\ stage = "ending"
  /\ last' = cur /\ stage' = "idle"
  /\ UNCHANGED <<epoch, startup, cur, disk, store, run, pointer, failures>>

(* A step of the epoch raises, outside publishing: the epoch is retried, if
   it is still the newest. *)
Fail ==
  /\ stage \in {"epoch", "writing", "revealed", "ending"} /\ failures < MaxFailures
  /\ failures' = failures + 1 /\ stage' = "idle"
  /\ UNCHANGED <<epoch, startup, cur, last, disk, store, run, pointer>>

(* The process dies and is started again. *)
CrashAndRestart ==
  /\ failures < MaxFailures /\ failures' = failures + 1
  /\ stage' = "idle"
  /\ ReadPeriod \/ ReadFails \/ Override
  /\ due' = {} /\ newest' = 0
  /\ UNCHANGED <<epoch, period, cur, last, disk, store, pointer>>

PublisherNext ==
  \/ ChainAdvances \/ BeginEpoch \/ NoProofs \/ OpenReveal \/ WriteReveal
  \/ StartPublishing \/ Upload \/ UploadFails \/ Mark \/ MarkFails
  \/ Commit \/ CommitFails \/ NothingToCommit
  \/ EndEpoch \/ Fail \/ CrashAndRestart

PublisherSpec == PublisherInit /\ [][PublisherNext]_publisherVars

-----------------------------------------------------------------------------
(* A reveal once published is never written again: what the store serves is
   what the validator holds, although a retried epoch rewrites its reveal
   (delay_epochs_for holds a reveal for one epoch at least). *)
PublishedIsFinal == \A e \in marker : store[e] = file[e]

(* No reveal is published before an older one, whatever fails and however
   often the process restarts ("keep order", publish_due_reveals). *)
PublishedInOrder ==
  \A e \in marker : \A f \in 1..e - 1 : file[f] # NoReveal => f \in marker

(* The hash on chain is the hash of the file the store serves for that epoch
   ("anyone can fetch the file from the store and check it against the
   chain", the module's docstring). *)
PointerVerifies ==
  pointer.epoch # 0 => store[pointer.epoch] = pointer.content

NewestMarked(e) == e \in marker /\ \A f \in marker : f <= e
PointerCurrent == marker = {} \/ NewestMarked(pointer.epoch)

(* As long as nothing has failed, each run leaves the pointer on the newest
   reveal published. *)
PointerIsNewest == stage = "ending" /\ failures = 0 => PointerCurrent

(* The pointer never returns to an older epoch. *)
PointerNeverGoesBack == [][pointer'.epoch >= pointer.epoch]_publisherVars

(* The weights of an epoch stay secret for the commit-reveal period: when the
   period was read at startup, its reveal is in no store before ("a hold that
   is too short leaks weights", delay_epochs_for).  A delay the operator sets
   is the operator's. *)
HeldForPeriod ==
  [][ \A e \in Epochs :
        store'[e] # store[e] => epoch >= e + period \/ ~known ]_publisherVars

(* What the public sees of the reveals, in every state. *)
RevealSafety ==
  /\ PublisherTypeOK /\ PublishedIsFinal /\ PublishedInOrder
  /\ PointerVerifies /\ PointerIsNewest

(* What no run of the publisher may do to what it published before, or to what
   is still secret. *)
HeldAndForward == HeldForPeriod /\ PointerNeverGoesBack

=============================================================================
