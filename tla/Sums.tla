---------------------------------- MODULE Sums ----------------------------------
(***************************************************************************)
(* Sums over numbered things, as a recursive function: the community       *)
(* modules fold with an operator, about which nothing can be proved for    *)
(* every input.                                                            *)
(***************************************************************************)
EXTENDS Integers

(* The sums of f[1], f[1] + f[2], ... *)
RunningSum(f, n) ==
  LET upTo[i \in 0..n] == IF i = 0 THEN 0 ELSE upTo[i - 1] + f[i]
  IN  upTo

SumTo(f, n) == RunningSum(f, n)[n]

=============================================================================
