----------------------------- MODULE StateStore -----------------------------
(***************************************************************************)
(* What the validator's state persistence promises the epoch loop          *)
(* (neurons/validator.py, load_state and save_state), without saying how.  *)
(*                                                                         *)
(* A process holds one state, works on it, and from time to time saves it. *)
(* When the process stops, a later one resumes from the last state saved,  *)
(* from the one saved before it, or from the empty state, and from nothing *)
(* else: never a state whose save did not complete, never half of one.     *)
(***************************************************************************)

CONSTANTS
  States,   \* the states a process may hold
  Empty,    \* the state of a validator that has never run
  Down      \* held by nobody: no process is running

VARIABLES
  latest,    \* the last state saved
  previous,  \* the state saved before it
  held       \* the state of the running process, or Down

storeVars == <<latest, previous, held>>

Init ==
  /\ latest = Empty
  /\ previous = Empty
  /\ held = Empty

(* The process computes: the state it holds becomes another one. *)
Work ==
  /\ held # Down
  /\ held' \in States
  /\ UNCHANGED <<latest, previous>>

(* The state held is saved, at one instant. *)
Save ==
  /\ held # Down
  /\ latest' = held
  /\ previous' = latest
  /\ UNCHANGED held

(* The process stops, with no warning. *)
Stop ==
  /\ held' = Down
  /\ UNCHANGED <<latest, previous>>

(* A new process resumes. *)
Resume ==
  /\ held = Down
  /\ held' \in {latest, previous, Empty}
  /\ UNCHANGED <<latest, previous>>

Next == Work \/ Save \/ Stop \/ Resume

Spec == Init /\ [][Next]_storeVars

=============================================================================
