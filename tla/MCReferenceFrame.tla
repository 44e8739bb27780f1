-------------------------- MODULE MCReferenceFrame --------------------------
EXTENDS ReferenceFrame

CONSTANTS u1, u2, u3, u4, m1, m2

(* An operator with two hotkeys, and two with one. *)
MCOwner == [u \in Uids |-> CASE u \in {u1, u2} -> 1 [] u = u3 -> 2 [] u = u4 -> 3]

(* Good and bad answers, and a network blocked for one of the models. *)
MCBehaviours ==
  {[m \in Models |-> "right"], [m \in Models |-> "wrong"],
   [m \in Models |-> IF m = m1 THEN "failed" ELSE "right"]}

(* Hotkeys of one operator, and operators with a hotkey each, can be exchanged
   in any epoch: answers in one order stand for the others. *)
Grade(b) == IF b[m2] = "wrong" THEN 0 ELSE IF b[m1] = "failed" THEN 1 ELSE 2
Ordered(a) == Grade(a[u1]) <= Grade(a[u2]) /\ Grade(a[u3]) <= Grade(a[u4])

(* Everyone, and a single miner. *)
MCAnswers == {a \in [Uids -> MCBehaviours] : Ordered(a)} \cup [{u3} -> MCBehaviours]

=============================================================================
