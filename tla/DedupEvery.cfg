\* "Any one of the clauses marks a head a copy of a senior one", over chains of
\* likeness.
SPECIFICATION DedupSpec
CHECK_DEADLOCK FALSE
CONSTANTS
  N = 3
  MaxKey = 3
  MaxScore = 0
INVARIANT
  EveryCopyDisqualified
