--------------------------- MODULE ValidatorEpochProofs ---------------------------
(***************************************************************************)
(* Proofs about ValidatorEpoch, for any number of epochs, faults and       *)
(* attempts; and about ConsensusAudit, for any reports and thresholds. *)
(***************************************************************************)
EXTENDS ValidatorEpoch, ConsensusAudit, SumsProofs, FiniteSetTheorems, TLAPS

(* What AppliedOnce needs to be inductive: an epoch in progress is not yet
   in the state held, and the epoch-local state is that state and no more
   than this epoch. *)
Lineage ==
  ~once =>
    /\ Sound(disk) /\ Sound(prior)
    /\ pc # "down" => Sound(mem)
    /\ pc \in Busy => cur > mem.last
    /\ pc \in {"submitting", "submitted"} =>
         /\ scored.evid = Append(mem.evid, cur)
         /\ scored.frame = Append(mem.frame, cur)

(* What PrevTracksChain needs: before any fault, each name that stands for
   the previous weights is what the chain holds. *)
Base ==
  faults = 0 =>
    /\ pc # "down"
    /\ pc # "submitted" => mem.prev = chainW
    /\ pc = "submitting" => next_prev = mem.prev
    /\ pc = "submitted" => next_prev = chainW

(* What UpdatesBuildOnChain needs, faults or not: every state that is held,
   saved or can be resumed from remembers a vector the chain has held, and
   what is submitted is this epoch's change of it. *)
Bases ==
  /\ {chainW, NoWeights, disk.prev, prior.prev} \subseteq held
  /\ pc # "down" => mem.prev \in held
  /\ pc = "submitting" => next_prev = mem.prev /\ w = Append(mem.prev, cur)
  /\ pc = "submitted" => next_prev \in held

IInv == TypeOK /\ Lineage /\ Base /\ Bases

(* An epoch later than all of a sound history extends it soundly. *)
LEMMA AppendSound ==
  ASSUME NEW s \in Seq(Epochs), NEW e \in Epochs, Increasing(s),
         \A i \in 1..Len(s) : s[i] < e
  PROVE  /\ Increasing(Append(s, e))
         /\ \A i \in 1..Len(Append(s, e)) : Append(s, e)[i] <= e
<1> DEFINE t == Append(s, e)
<1>1. e \in Nat /\ Len(s) \in Nat
  BY EpochAssumption DEF Epochs
<1>2. Len(t) = Len(s) + 1 /\ t[Len(s) + 1] = e
  OBVIOUS
<1>3. \A i \in 1..Len(s) : t[i] = s[i]
  OBVIOUS
<1>4. \A i \in 1..Len(t) : i \in 1..Len(s) \/ i = Len(s) + 1
  BY <1>1, <1>2
<1>5. \A i \in 1..Len(s) : s[i] \in Nat
  <2>1. \A i \in 1..Len(s) : s[i] \in Epochs
    OBVIOUS
  <2> QED
    BY <2>1, EpochAssumption DEF Epochs
<1>6. \A i \in 1..Len(t) : t[i] <= e
  BY <1>1, <1>2, <1>3, <1>4, <1>5
<1>7. Increasing(t)
  <2> SUFFICES ASSUME NEW i \in 1..Len(t), NEW j \in 1..Len(t), i < j
               PROVE  t[i] < t[j]
    BY DEF Increasing
  <2>1. i \in 1..Len(s)
    BY <1>1, <1>2
  <2>2. CASE j \in 1..Len(s)
    BY <2>1, <2>2, <1>3 DEF Increasing
  <2>3. CASE j = Len(s) + 1
    BY <2>1, <2>3, <1>2, <1>3
  <2> QED
    BY <2>2, <2>3, <1>4
<1> QED
  BY <1>6, <1>7

(* What the updates of a state record give. *)
LEMMA StateUpdates ==
  ASSUME NEW st \in State, NEW e \in Epochs,
         NEW prev \in Vectors
  PROVE  /\ [st EXCEPT !.last = e] \in State
         /\ [st EXCEPT !.prev = prev, !.last = e] \in State
         /\ [st EXCEPT !.evid = Append(@, e), !.frame = Append(@, e)] \in State
<1>1. e \in 0..MaxEpoch
  BY EpochAssumption DEF Epochs
<1>2. Append(st.evid, e) \in Seq(Epochs) /\ Append(st.frame, e) \in Seq(Epochs)
  BY DEF State
<1> HIDE DEF Epochs, Vectors
<1> DEFINE S == Seq(Epochs)
<1>3. Append(st.evid, e) \in S /\ Append(st.frame, e) \in S
  BY <1>2
<1>4. State = [evid : S, frame : S, prev : Vectors, last : 0..MaxEpoch]
  BY DEF State
<1> HIDE DEF S
<1> QED
  BY <1>1, <1>3, <1>4

(* The fresh state counts no epoch. *)
LEMMA EmptyIsSound == EmptyState \in State /\ Sound(EmptyState)
  BY EpochAssumption DEF EmptyState, State, Sound, Increasing, Vectors, NoWeights

(* Nothing has been scored. *)
LEMMA InitIInv == Init => IInv
<1> SUFFICES ASSUME Init PROVE IInv
  OBVIOUS
<1>1. TypeOK
  BY EpochAssumption, EmptyIsSound DEF Init, TypeOK, Epochs, Vectors, NoWeights
<1>2. Lineage
  BY EmptyIsSound DEF Init, Lineage, Busy
<1>3. Base
  BY EpochAssumption DEF Init, Base, EmptyState
<1>4. Bases
  BY DEF Init, Bases, EmptyState
<1> QED
  BY <1>1, <1>2, <1>3, <1>4 DEF IInv

(* Each step keeps every variable in its type. *)
LEMMA StepType == IInv /\ [Next]_vars => TypeOK'
<1> SUFFICES ASSUME IInv, [Next]_vars PROVE TypeOK'
  OBVIOUS
<1>0. once' = once
  BY DEF Next, vars
<1> USE <1>0, EpochAssumption DEF IInv, TypeOK, Busy
<1>1. CASE Tick
  BY <1>1 DEF Tick, chain, store, work, Epochs
<1>2. CASE BeginEpoch
  BY <1>2 DEF BeginEpoch, chain, store, work
<1>3. CASE CollectNone
  BY <1>3, StateUpdates DEF CollectNone, chain, store, work
<1>4. CASE CollectProofs
  BY <1>4 DEF CollectProofs, chain, store, work
<1>5. CASE Score
  <2>1. scored' \in State
    BY <1>5, StateUpdates DEF Score
  <2>2. next_prev' \in Vectors
    BY <1>5 DEF Score, State
  <2>3. w' \in Vectors
    BY <1>5, <2>2 DEF Score, Vectors
  <2> QED
    BY <1>5, <2>1, <2>2, <2>3 DEF Score, chain, store
<1>6. CASE RateLimited
  BY <1>6 DEF RateLimited, chain, store, work
<1>7. CASE SubmitAccepted
  BY <1>7 DEF SubmitAccepted, TakeWeights, store
<1>8. CASE SubmitFailed
  BY <1>8 DEF SubmitFailed, AttemptFailed, chain, store
<1>9. CASE SubmitReplyLost
  BY <1>9 DEF SubmitReplyLost, TakeWeights, AttemptFailed, store
<1>10. CASE Adopt
  BY <1>10, StateUpdates DEF Adopt, chain, store, work
<1>11. CASE SaveDone
  BY <1>11 DEF SaveDone, AfterEpoch, chain, work
<1>12. CASE Fail
  BY <1>12 DEF Fail, AfterEpoch, chain, store, work
<1>13. CASE Crash
  BY <1>13 DEF Crash, chain, store, work
<1>14. CASE Restart
  BY <1>14, EmptyIsSound DEF Restart, chain, store, work
<1>15. CASE UNCHANGED vars
  BY <1>15 DEF vars, chain, store, work
<1> QED
  BY <1>1, <1>2, <1>3, <1>4, <1>5, <1>6, <1>7, <1>8, <1>9, <1>10, <1>11,
     <1>12, <1>13, <1>14, <1>15 DEF Next, Step

(* Each step keeps the histories sound. *)
LEMMA StepLineage == IInv /\ [Next]_vars => Lineage'
<1> SUFFICES ASSUME IInv, [Next]_vars, ~once' PROVE Lineage'
  BY DEF Lineage
<1>0. ~once
  BY DEF Next, vars
<1> USE <1>0, EpochAssumption DEF IInv, TypeOK, Lineage
<1>1. CASE Tick \/ CollectProofs \/ RateLimited \/ SubmitAccepted
           \/ SubmitFailed \/ SubmitReplyLost
  BY <1>1 DEF Tick, CollectProofs, RateLimited, SubmitAccepted, SubmitFailed,
              SubmitReplyLost, TakeWeights, AttemptFailed, chain, store,
              work, Busy
<1>2. CASE BeginEpoch
  BY <1>2 DEF BeginEpoch, chain, store, Busy
<1>3. CASE CollectNone
  <2>1. Sound(mem')
    <3>1. mem \in State /\ Sound(mem) /\ cur > mem.last
      BY <1>3 DEF CollectNone, Busy
    <3>2. /\ mem'.evid = mem.evid /\ mem'.frame = mem.frame
          /\ mem'.last = cur
      BY <1>3, <3>1 DEF CollectNone, State
    <3>3. mem.evid \in Seq(Epochs) /\ mem.last \in Nat /\ cur \in Nat
      BY <3>1 DEF State, Epochs
    <3>4. \A i \in 1..Len(mem.evid) : mem.evid[i] \in Epochs
      BY <3>3
    <3>5. \A i \in 1..Len(mem.evid) : mem.evid[i] \in Nat
      BY <3>4 DEF Epochs
    <3> QED
      BY <3>1, <3>2, <3>3, <3>5 DEF Sound
  <2> QED
    BY <1>3, <2>1 DEF CollectNone, store, work, Busy
<1>4. CASE Score
  BY <1>4 DEF Score, store, State, Busy
<1>5. CASE Adopt
  <2>1. /\ mem'.evid = Append(mem.evid, cur)
        /\ mem'.frame = Append(mem.frame, cur)
        /\ mem'.last = cur
    BY <1>5 DEF Adopt, State
  <2>2. /\ mem.evid \in Seq(Epochs) /\ cur \in Epochs
        /\ Increasing(mem.evid) /\ mem.frame = mem.evid
        /\ \A i \in 1..Len(mem.evid) : mem.evid[i] < cur
    <3>1. mem \in State /\ Sound(mem) /\ cur > mem.last
      BY <1>5 DEF Adopt, Busy
    <3>2. mem.evid \in Seq(Epochs) /\ mem.last \in Nat /\ cur \in Nat
      BY <3>1 DEF State, Epochs
    <3>3. \A i \in 1..Len(mem.evid) : mem.evid[i] \in Epochs
      BY <3>2
    <3>4. \A i \in 1..Len(mem.evid) : mem.evid[i] \in Nat
      BY <3>3 DEF Epochs
    <3> QED
      BY <3>1, <3>2, <3>4 DEF Sound
  <2>3. Sound(mem')
    BY <2>1, <2>2, AppendSound DEF Sound
  <2> QED
    BY <1>5, <2>3 DEF Adopt, store, work, Busy
<1>6. CASE SaveDone
  BY <1>6 DEF SaveDone, AfterEpoch, Busy
<1>7. CASE Fail
  BY <1>7 DEF Fail, AfterEpoch, store, Busy
<1>8. CASE Crash
  BY <1>8 DEF Crash, store, Busy
<1>9. CASE Restart
  BY <1>9, EmptyIsSound DEF Restart, store, Busy
<1>10. CASE UNCHANGED vars
  BY <1>10 DEF vars, chain, store, work
<1> QED
  BY <1>1, <1>2, <1>3, <1>4, <1>5, <1>6, <1>7, <1>8, <1>9, <1>10
  DEF Next, Step

(* Each step keeps the base of the cap, while there is no fault. *)
LEMMA StepBase == IInv /\ [Next]_vars => Base'
<1> SUFFICES ASSUME IInv, [Next]_vars PROVE Base'
  OBVIOUS
<1> USE EpochAssumption DEF IInv, TypeOK, Base
<1>1. CASE Tick \/ CollectProofs \/ RateLimited
  BY <1>1 DEF Tick, CollectProofs, RateLimited, chain, store, work
<1>2. CASE BeginEpoch
  BY <1>2 DEF BeginEpoch, chain
<1>3. CASE CollectNone
  BY <1>3 DEF CollectNone, chain, work, State
<1>4. CASE Score
  BY <1>4 DEF Score, chain, State
<1>5. CASE SubmitAccepted
  BY <1>5 DEF SubmitAccepted, TakeWeights
<1>6. CASE SubmitFailed
  BY <1>6 DEF SubmitFailed, AttemptFailed, chain
<1>7. CASE Adopt
  BY <1>7 DEF Adopt, chain, work, State
<1>8. CASE SaveDone
  BY <1>8 DEF SaveDone, AfterEpoch, chain, work
<1>9. CASE Fail \/ Crash \/ SubmitReplyLost
  BY <1>9 DEF Fail, Crash, SubmitReplyLost
<1>10. CASE Restart
  BY <1>10 DEF Restart
<1>11. CASE UNCHANGED vars
  BY <1>11 DEF vars, chain, work
<1> QED
  BY <1>1, <1>2, <1>3, <1>4, <1>5, <1>6, <1>7, <1>8, <1>9, <1>10, <1>11
  DEF Next, Step

(* Each step keeps every remembered vector one that the chain has held. *)
LEMMA StepBases == IInv /\ [Next]_vars => Bases'
<1> SUFFICES ASSUME IInv, [Next]_vars PROVE Bases'
  OBVIOUS
<1> USE DEF IInv, TypeOK, Bases
<1>1. CASE Tick \/ BeginEpoch \/ CollectProofs \/ RateLimited \/ Fail \/ Crash
  BY <1>1 DEF Tick, BeginEpoch, CollectProofs, RateLimited, Fail, Crash,
              AfterEpoch, Busy, chain, store, work
<1>2. CASE CollectNone
  BY <1>2 DEF CollectNone, chain, store, work, State
<1>3. CASE Score
  BY <1>3 DEF Score, chain, store
<1>4. CASE SubmitAccepted \/ SubmitReplyLost
  BY <1>4 DEF SubmitAccepted, SubmitReplyLost, TakeWeights, AttemptFailed, store
<1>5. CASE SubmitFailed
  BY <1>5 DEF SubmitFailed, AttemptFailed, chain, store
<1>6. CASE Adopt
  BY <1>6 DEF Adopt, chain, store, work, State
<1>7. CASE SaveDone
  BY <1>7 DEF SaveDone, AfterEpoch, chain, work
<1>8. CASE Restart
  BY <1>8 DEF Restart, EmptyState, chain, store, work
<1>9. CASE UNCHANGED vars
  BY <1>9 DEF vars, chain, store, work
<1> QED
  BY <1>1, <1>2, <1>3, <1>4, <1>5, <1>6, <1>7, <1>8, <1>9 DEF Next, Step

(* The invariant holds of every behaviour. *)
LEMMA Inductive == Spec => []IInv
<1>1. IInv /\ [Next]_vars => IInv'
  BY StepType, StepLineage, StepBase, StepBases DEF IInv
<1> QED
  BY InitIInv, <1>1, PTL DEF Spec

(* Every variable of the epoch loop keeps its type; with it, no epoch makes
   more submissions than WEIGHTS_SET_RETRIES. *)
THEOREM TypeCorrect == Spec => []TypeOK
<1>1. IInv => TypeOK
  BY DEF IInv
<1> QED
  BY Inductive, <1>1, PTL

(* main's COMMIT block: an epoch is applied once or not at all, to evidence
   and frame alike, in every state held, saved or resumed from, whatever
   raises or dies. *)
THEOREM AlwaysAppliedOnce == Spec => []AppliedOnce
<1>1. IInv => AppliedOnce
  BY DEF IInv, TypeOK, Lineage, AppliedOnce
<1> QED
  BY Inductive, <1>1, PTL

(* next_prev_weights: until the first fault the cap is measured from the
   weights the chain holds. *)
THEOREM PrevAlwaysTracks == Spec => []PrevTracksChain
<1>1. IInv => PrevTracksChain
  BY DEF IInv, Base, PrevTracksChain
<1> QED
  BY Inductive, <1>1, PTL

(* set_weights_with_retry and the COMMIT block: what the chain takes is this
   epoch's change of a vector it has itself held, whatever fails, and of the
   one it holds until the first fault. *)
THEOREM UpdatesAlwaysBuild == Spec => UpdatesBuildOnChain
<1>1. IInv /\ [Next]_vars =>
        [chainW' # chainW =>
           \E base \in held :
             /\ chainW' = Append(base, cur)
             /\ faults' = 0 => base = chainW]_vars
  <2> SUFFICES ASSUME IInv, [Next]_vars, chainW' # chainW
               PROVE  \E base \in held : /\ chainW' = Append(base, cur)
                                          /\ (faults' = 0 => base = chainW)
    OBVIOUS
  <2> USE DEF IInv, TypeOK
  <2>1. SubmitAccepted \/ SubmitReplyLost
    BY DEF Next, Step, Tick, BeginEpoch, CollectNone, CollectProofs, Score,
           RateLimited, SubmitFailed, Adopt, SaveDone, Restart, Fail, Crash,
           chain, vars
  <2>2. mem.prev \in held /\ chainW' = Append(mem.prev, cur)
    BY <2>1 DEF SubmitAccepted, SubmitReplyLost, TakeWeights, Bases
  <2>3. faults' = 0 => mem.prev = chainW
    BY <2>1, EpochAssumption DEF SubmitAccepted, SubmitReplyLost, Base
  <2> QED
    BY <2>2, <2>3
<1> QED
  BY Inductive, <1>1, PTL DEF Spec, UpdatesBuildOnChain

(* No fault at any step makes the loop apply an epoch twice or in one place
   only, and without one the base of the cap is what the chain holds. *)
THEOREM EpochAlwaysSafe == Spec => []EpochSafety
BY TypeCorrect, AlwaysAppliedOnce, PrevAlwaysTracks, PTL DEF EpochSafety

(***************************************************************************)
(* ConsensusAudit                                                          *)
(***************************************************************************)

(* The UIDs or reports whose value is below x, and at most x. *)
Under(f, x) == {i \in DOMAIN f : f[i] < x}
(* And those at most x. *)
UpTo(f, x) == {i \in DOMAIN f : f[i] <= x}

(* A smaller part has no more members. *)
LEMMA PartsCount ==
  ASSUME NEW S, IsFiniteSet(S), NEW T \in SUBSET S
  PROVE  IsFiniteSet(T) /\ Cardinality(T) \in Nat /\ Cardinality(S) \in Nat
         /\ Cardinality(T) <= Cardinality(S)
<1>1. IsFiniteSet(T) /\ Cardinality(T) <= Cardinality(S)
  BY ONLY IsFiniteSet(S), T \in SUBSET S, FS_Subset
<1> QED BY <1>1, FS_CardinalityType

(* Two parts with nothing in common have no more members together than the whole. *)
LEMMA ApartCount ==
  ASSUME NEW S, IsFiniteSet(S), NEW T \in SUBSET S, NEW U \in SUBSET S, T \cap U = {}
  PROVE  Cardinality(T) + Cardinality(U) <= Cardinality(S)
<1>1. IsFiniteSet(T) /\ IsFiniteSet(U) /\ Cardinality(T) \in Nat /\ Cardinality(U) \in Nat
  BY PartsCount
<1>2. Cardinality(T \cup U) = Cardinality(T) + Cardinality(U) - Cardinality({})
  BY <1>1, FS_Union
<1>3. Cardinality({}) = 0
  BY FS_EmptySet
<1>4. T \cup U \in SUBSET S
  OBVIOUS
<1>5. Cardinality(T \cup U) <= Cardinality(S)
  BY <1>4, PartsCount
<1> QED BY <1>1, <1>2, <1>3, <1>5

(* Only one value can be the k-th smallest. *)
LEMMA KthIsOne ==
  ASSUME NEW f, IsFiniteSet(DOMAIN f), NEW k \in Int, Range(f) \subseteq Int,
         NEW v \in Range(f), Cardinality(Under(f, v)) < k, Cardinality(UpTo(f, v)) >= k
  PROVE  Kth(f, k) = v
<1>1. \A i \in DOMAIN f : f[i] \in Int
  BY DEF Range
<1>2. ASSUME NEW x \in Range(f), NEW y \in Range(f), x < y,
             Cardinality(UpTo(f, x)) >= k, Cardinality(Under(f, y)) < k
      PROVE  FALSE
  <2>1. x \in Int /\ y \in Int
    OBVIOUS
  <2>2. UpTo(f, x) \in SUBSET Under(f, y) /\ Under(f, y) \in SUBSET DOMAIN f
    BY <1>1, <1>2, <2>1 DEF UpTo, Under
  <2>3. IsFiniteSet(Under(f, y))
    BY <2>2, PartsCount
  <2>4. /\ Cardinality(UpTo(f, x)) \in Nat /\ Cardinality(Under(f, y)) \in Nat
        /\ Cardinality(UpTo(f, x)) <= Cardinality(Under(f, y))
    BY <2>2, <2>3, PartsCount
  <2> QED BY <1>2, <2>4
<1> DEFINE IsKth(x) == Cardinality(Under(f, x)) < k /\ Cardinality(UpTo(f, x)) >= k
<1>3. Kth(f, k) = CHOOSE x \in Range(f) : IsKth(x)
  BY DEF Kth, Under, UpTo
<1>4. IsKth(v)
  OBVIOUS
<1>5. ASSUME NEW x \in Range(f), IsKth(x) PROVE x = v
  <2>1. ~ (x < v) /\ ~ (v < x)
    BY <1>2, <1>4, <1>5
  <2> QED BY <2>1
<1> HIDE DEF IsKth
<1> QED BY <1>3, <1>4, <1>5

(* Among percents there is a k-th smallest. *)
LEMMA KthIsPercent ==
  ASSUME NEW f, IsFiniteSet(DOMAIN f), Range(f) \subseteq 0..100, NEW k \in Int,
         1 <= k, k <= Cardinality(DOMAIN f)
  PROVE  Kth(f, k) \in 0..100
<1> DEFINE T == {x \in Nat : Cardinality(UpTo(f, x)) >= k}
<1>1. \A i \in DOMAIN f : f[i] \in 0..100 /\ f[i] \in Int
  BY DEF Range
<1>2. \A x \in Nat : /\ UpTo(f, x) \in SUBSET DOMAIN f /\ Under(f, x) \in SUBSET DOMAIN f
                     /\ Cardinality(UpTo(f, x)) \in Nat /\ Cardinality(Under(f, x)) \in Nat
  <2>1. \A x \in Nat : UpTo(f, x) \in SUBSET DOMAIN f /\ Under(f, x) \in SUBSET DOMAIN f
    BY DEF UpTo, Under
  <2> QED BY <2>1, PartsCount
<1>3. UpTo(f, 100) = DOMAIN f
  BY <1>1 DEF UpTo
<1>4. 100 \in T /\ T \in SUBSET Nat
  BY <1>3
<1>5. PICK n \in T : \A m \in T : n <= m
  BY <1>4, LeastOf
<1> HIDE DEF T
<1>6. n \in Nat /\ Cardinality(UpTo(f, n)) >= k
  BY <1>5 DEF T
<1>7. Cardinality(Under(f, n)) < k
  <2>1. CASE n = 0
    <3>1. Under(f, n) = {}
      BY <1>1, <2>1 DEF Under
    <3> QED BY <3>1, FS_EmptySet
  <2>2. CASE n # 0
    <3>1. n - 1 \in Nat /\ ~ (n <= n - 1)
      BY <1>6, <2>2
    <3>2. n - 1 \notin T
      BY <1>5, <3>1
    <3>3. Under(f, n) = UpTo(f, n - 1)
      BY <1>1, <1>6 DEF Under, UpTo
    <3>4. Cardinality(UpTo(f, n - 1)) \in Nat
      BY <1>2, <3>1
    <3>5. ~ (Cardinality(UpTo(f, n - 1)) >= k)
      BY <3>1, <3>2 DEF T
    <3> QED BY <3>3, <3>4, <3>5
  <2> QED BY <2>1, <2>2
<1>8. n \in Range(f)
  <2>1. SUFFICES ASSUME n \notin Range(f) PROVE FALSE
    OBVIOUS
  <2>2. UpTo(f, n) = Under(f, n)
    BY <1>1, <1>6, <2>1 DEF UpTo, Under, Range
  <2>3. Cardinality(Under(f, n)) \in Nat
    BY <1>2, <1>6
  <2> QED BY <1>6, <1>7, <2>2, <2>3
<1>9. Range(f) \subseteq Int
  OBVIOUS
<1>10. Kth(f, k) = n
  BY <1>6, <1>7, <1>8, <1>9, KthIsOne
<1> QED BY <1>8, <1>10

(* The ranks whose values the median adds up. *)
LEMMA MiddleRanks ==
  ASSUME NEW n \in Nat
  PROVE  /\ (n + 1) \div 2 \in Nat /\ n \div 2 + 1 \in Nat
         /\ 2 * ((n + 1) \div 2) >= n /\ 2 * ((n + 1) \div 2) <= n + 1
         /\ 2 * (n \div 2 + 1) >= n + 1 /\ 2 * (n \div 2 + 1) <= n + 2
OBVIOUS

(* The doubled median of percents is at most twice a hundred. *)
LEMMA DoubledIsPercent ==
  ASSUME NEW f, IsFiniteSet(DOMAIN f), DOMAIN f # {}, Range(f) \subseteq 0..100
  PROVE  Doubled(f) \in 0..200
<1> DEFINE n == Cardinality(DOMAIN f)
<1>1. n \in Nat /\ n # 0
  BY FS_CardinalityType, FS_EmptySet
<1> HIDE DEF n
<1>2. /\ (n + 1) \div 2 \in Int /\ 1 <= (n + 1) \div 2 /\ (n + 1) \div 2 <= n
      /\ n \div 2 + 1 \in Int /\ 1 <= n \div 2 + 1 /\ n \div 2 + 1 <= n
  BY <1>1
<1>3. Kth(f, (n + 1) \div 2) \in 0..100 /\ Kth(f, n \div 2 + 1) \in 0..100
  BY <1>2, KthIsPercent DEF n
<1> QED BY <1>3 DEF Doubled, n

(* What more than half of the values are is their median. *)
LEMMA MedianOfMajority ==
  ASSUME NEW f, IsFiniteSet(DOMAIN f), Range(f) \subseteq Int, NEW z \in Int,
         NEW S \in SUBSET DOMAIN f, \A i \in S : f[i] = z,
         2 * Cardinality(S) > Cardinality(DOMAIN f)
  PROVE  Doubled(f) = 2 * z
<1> DEFINE n == Cardinality(DOMAIN f)
           s == Cardinality(S)
           a == Cardinality(Under(f, z))
           b == Cardinality(UpTo(f, z))
<1>1. \A i \in DOMAIN f : f[i] \in Int
  BY DEF Range
<1>2. Under(f, z) \in SUBSET DOMAIN f /\ UpTo(f, z) \in SUBSET DOMAIN f
  BY DEF Under, UpTo
<1>3. n \in Nat /\ s \in Nat /\ a \in Nat /\ b \in Nat /\ IsFiniteSet(UpTo(f, z))
  BY <1>2, PartsCount
<1>4. Under(f, z) \cap S = {} /\ S \in SUBSET UpTo(f, z)
  BY <1>1 DEF Under, UpTo
<1>5. a + s <= n
  BY <1>2, <1>4, ApartCount
<1>6. s <= b
  BY <1>3, <1>4, PartsCount
<1>7. 2 * s > n
  OBVIOUS
<1>8. z \in Range(f)
  <2>1. S # {}
    <3>1. SUFFICES ASSUME S = {} PROVE FALSE
      OBVIOUS
    <3>2. s = 0
      BY <3>1, FS_EmptySet
    <3> QED BY <1>3, <1>7, <3>2
  <2> QED BY <2>1 DEF Range
<1> DEFINE k == (n + 1) \div 2
           l == n \div 2 + 1
<1> HIDE DEF n, s, a, b
<1>9. k \in Int /\ l \in Int /\ a < k /\ a < l /\ b >= k /\ b >= l
  BY <1>3, <1>5, <1>6, <1>7
<1> HIDE DEF k, l
<1>10. Kth(f, k) = z
  BY <1>8, <1>9, KthIsOne DEF a, b
<1>11. Kth(f, l) = z
  BY <1>8, <1>9, KthIsOne DEF a, b
<1>12. Doubled(f) = Kth(f, k) + Kth(f, l)
  BY DEF Doubled, k, l, n
<1> QED BY <1>10, <1>11, <1>12

(* The median of two is half their sum. *)
LEMMA MedianOfTwo ==
  ASSUME NEW f, DOMAIN f = {1, 2}, f[1] \in Int, f[2] \in Int
  PROVE  Doubled(f) = f[1] + f[2]
<1>1. IsFiniteSet({1, 2}) /\ Cardinality({1, 2}) = 2
  <2>1. IsFiniteSet({1}) /\ Cardinality({1}) = 1
    BY FS_Singleton
  <2>2. IsFiniteSet({1} \cup {2}) /\ Cardinality({1} \cup {2}) = Cardinality({1}) + 1
    <3>1. 2 \notin {1}
      OBVIOUS
    <3> QED BY ONLY <2>1, <3>1, FS_AddElement
  <2>3. {1} \cup {2} = {1, 2}
    OBVIOUS
  <2> QED BY <2>1, <2>2, <2>3
<1>2. \A x : Cardinality({x}) = 1
  BY FS_Singleton
<1>3. Cardinality({}) = 0
  BY FS_EmptySet
<1>4. Range(f) = {f[1], f[2]} /\ Range(f) \subseteq Int
  BY DEF Range
<1>5. (2 + 1) \div 2 = 1 /\ 2 \div 2 + 1 = 2
  OBVIOUS
<1>6. Doubled(f) = Kth(f, 1) + Kth(f, 2)
  BY <1>1, <1>5 DEF Doubled
<1>7. ASSUME NEW i \in {1, 2}, NEW j \in {1, 2}, i # j, f[i] <= f[j]
      PROVE  Kth(f, 1) = f[i] /\ Kth(f, 2) = f[j]
  <2>1. Under(f, f[i]) = {} /\ UpTo(f, f[i]) \in {{i}, {1, 2}}
    BY <1>7 DEF Under, UpTo
  <2>2. Under(f, f[j]) \in {{}, {i}} /\ UpTo(f, f[j]) = {1, 2}
    BY <1>7 DEF Under, UpTo
  <2>0. Cardinality({i}) = 1
    BY <1>2
  <2>3. Cardinality(Under(f, f[i])) < 1 /\ Cardinality(UpTo(f, f[i])) >= 1
    <3>1. Cardinality(Under(f, f[i])) = 0
      BY ONLY <1>3, <2>1
    <3>2. Cardinality(UpTo(f, f[i])) = 1 \/ Cardinality(UpTo(f, f[i])) = 2
      BY ONLY <1>1, <2>0, <2>1
    <3> QED BY ONLY <3>1, <3>2
  <2>4. Cardinality(Under(f, f[j])) < 2 /\ Cardinality(UpTo(f, f[j])) >= 2
    <3>1. Cardinality(Under(f, f[j])) = 0 \/ Cardinality(Under(f, f[j])) = 1
      BY ONLY <1>3, <2>0, <2>2
    <3>2. Cardinality(UpTo(f, f[j])) = 2
      BY ONLY <1>1, <2>2
    <3> QED BY ONLY <3>1, <3>2
  <2>5. f[i] \in Range(f) /\ f[j] \in Range(f)
    BY <1>4
  <2> QED BY <1>1, <1>4, <2>3, <2>4, <2>5, KthIsOne
<1>8. CASE f[1] <= f[2]
  BY <1>6, <1>7, <1>8
<1>9. CASE f[2] <= f[1]
  BY <1>6, <1>7, <1>9
<1> QED BY <1>8, <1>9

(* A function's value for a UID, nothing where it has none. *)
At(f, u) == IF u \in DOMAIN f THEN f[u] ELSE 0

(* Two sums, when every UID of one counts c times what it counts in the other. *)
LEMMA SummedTimes ==
  ASSUME NEW f, NEW g, NEW c \in Nat, SubnetUids \in Nat,
         \A u \in 0..SubnetUids - 1 : At(f, u) \in Int /\ At(g, u) = c * At(f, u)
  PROVE  Summed(g) = c * Summed(f) /\ Summed(f) \in Int
<1> DEFINE N == SubnetUids
           F == [n \in 1..N |-> At(f, n - 1)]
           G == [n \in 1..N |-> At(g, n - 1)]
<1>1. \A n \in 1..N : n - 1 \in 0..N - 1
  OBVIOUS
<1>2. \A n \in 1..N : At(f, n - 1) \in Int /\ At(g, n - 1) = c * At(f, n - 1)
  BY <1>1
<1>3. F \in [1..N -> Int] /\ G \in [1..N -> Int] /\ \A n \in 1..N : G[n] = c * F[n]
  <2>1. \A n \in 1..N : At(g, n - 1) \in Int
    BY <1>2
  <2> QED BY <1>2, <2>1
<1>4. Summed(f) = SumTo(F, N) /\ Summed(g) = SumTo(G, N)
  BY DEF Summed, At
<1> HIDE DEF F, G
<1>5. SumTo(G, N) = c * SumTo(F, N)
  <2>1. N \in Nat /\ c \in Int
    OBVIOUS
  <2> HIDE DEF N
  <2> QED BY ONLY <1>3, <2>1, SumScaled
<1>6. SumTo(F, N) \in Int
  BY <1>3, SumIsInt
<1> QED BY <1>4, <1>5, <1>6

(* Nothing for any UID adds up to nothing. *)
LEMMA SummedNothing ==
  ASSUME NEW f, SubnetUids \in Nat, \A u \in DOMAIN f : f[u] = 0
  PROVE  Summed(f) = 0
<1>1. \A u \in 0..SubnetUids - 1 : At(f, u) \in Int /\ At(f, u) = 0 * At(f, u)
  BY DEF At
<1>2. Summed(f) = 0 * Summed(f) /\ Summed(f) \in Int
  BY <1>1, SummedTimes
<1> QED BY <1>2

(* A report, as the assumption says it. *)
LEMMA ReportShape ==
  ASSUME AuditAssumption, NEW r \in ReportChoices
  PROVE  /\ r.scores = [u \in DOMAIN r.scores |-> r.scores[u]]
         /\ \A u \in DOMAIN r.scores : r.scores[u] \in 0..100 /\ r.scores[u] \in Int
         /\ \A u \in DOMAIN r.weights : r.weights[u] \in Nat
         /\ DOMAIN r.scores \subseteq 0..SubnetUids - 1 /\ DOMAIN r.weights \subseteq 0..SubnetUids - 1
         /\ \A u : Paid(r, u) \in Nat
<1>1. r.scores \in [DOMAIN r.scores -> 0..100] /\ r.weights \in [DOMAIN r.weights -> Nat]
      /\ DOMAIN r.scores \cup DOMAIN r.weights \subseteq 0..SubnetUids - 1
  BY DEF AuditAssumption
<1>2. \A u \in DOMAIN r.weights : r.weights[u] \in Nat
  BY ONLY <1>1
<1>3. \A u : Paid(r, u) \in Nat
  BY ONLY <1>2 DEF Paid
<1> QED BY <1>1, <1>2, <1>3

(* What TooFew and Audit make of the reports. *)
AsReported ==
  [None EXCEPT !.scores = [u \in DOMAIN reports[1].scores |-> 2 * reports[1].scores[u]],
               !.weights = [u \in DOMAIN reports[1].weights |-> 2 * reports[1].weights[u]]]
(* And when there are enough. *)
Compared ==
  [scores |-> ConsensusScores, weights |-> ConsensusWeights,
   scoreOutliers |-> {i \in DOMAIN reports : ScoreDiverges(reports[i].scores, ConsensusScores)},
   weightOutliers |-> {i \in DOMAIN reports : WeightDiverges(reports[i], ConsensusWeights)},
   valid |-> Cardinality({reports[i].hash : i \in DOMAIN reports} \ {""}) <= 1]

(* The reports, bounded. *)
ReportsOK == reports \in Seq(ReportChoices) /\ Len(reports) <= MaxReports
(* The result, once there is one, is a function of the reports. *)
ResultIsOfTheReports ==
  result # None =>
    \/ Len(reports) \in 1..MinValidators - 1 /\ result = AsReported
    \/ Len(reports) >= MinValidators /\ result = Compared

(* The invariant: AuditSafety says nothing of where the result comes from. *)
AuditInv ==
  /\ ReportsOK /\ ResultIsOfTheReports
  /\ warnings \subseteq {"divergence", "gap", "rank"} /\ (result = None => warnings = {})
  /\ AgreeingIsNotWarned

(* The reports are a finite sequence of them. *)
LEMMA ReportsAre ==
  ASSUME AuditAssumption, ReportsOK
  PROVE  /\ DOMAIN reports = 1..Len(reports) /\ Len(reports) \in Nat
         /\ IsFiniteSet(DOMAIN reports) /\ Cardinality(DOMAIN reports) = Len(reports)
         /\ \A i \in DOMAIN reports : reports[i] \in ReportChoices
<1>1. reports \in Seq(ReportChoices)
  BY DEF ReportsOK
<1>2. DOMAIN reports = 1..Len(reports) /\ Len(reports) \in Nat
      /\ \A i \in DOMAIN reports : reports[i] \in ReportChoices
  BY <1>1
<1>3. IsFiniteSet(1..Len(reports)) /\ Cardinality(1..Len(reports)) = Len(reports)
  <2>1. 1 \in Int /\ Len(reports) \in Int
    BY <1>2
  <2>2. IsFiniteSet(1..Len(reports)) /\ Cardinality(1..Len(reports)) = IF 1 > Len(reports) THEN 0 ELSE Len(reports) - 1 + 1
    BY <2>1, FS_Interval
  <2> QED BY <1>2, <2>2
<1> QED BY <1>2, <1>3

(* What the reports that score u say of it. *)
Said(u) == [i \in {j \in DOMAIN reports : u \in DOMAIN reports[j].scores} |-> reports[i].scores[u]]
(* What all reports pay u. *)
Given(u) == [i \in DOMAIN reports |-> Paid(reports[i], u)]

(* They are percents, one at least, and no more than the reports. *)
LEMMA SaidAre ==
  ASSUME AuditAssumption, ReportsOK, NEW u \in Scored
  PROVE  /\ IsFiniteSet(DOMAIN Said(u)) /\ DOMAIN Said(u) # {} /\ Range(Said(u)) \subseteq 0..100
         /\ DOMAIN Said(u) \in SUBSET DOMAIN reports
         /\ Cardinality(DOMAIN Said(u)) <= Len(reports) /\ Cardinality(DOMAIN Said(u)) \in Nat
<1>1. DOMAIN Said(u) = {j \in DOMAIN reports : u \in DOMAIN reports[j].scores}
  BY DEF Said
<1>2. DOMAIN Said(u) # {}
  BY <1>1 DEF Scored
<1>3. \A i \in DOMAIN Said(u) : Said(u)[i] \in 0..100
  <2> TAKE i \in DOMAIN Said(u)
  <2>1. reports[i] \in ReportChoices /\ u \in DOMAIN reports[i].scores
    BY <1>1, ReportsAre
  <2>2. reports[i].scores[u] \in 0..100
    BY <2>1, ReportShape
  <2> QED BY <1>1, <2>2 DEF Said
<1>4. DOMAIN Said(u) \in SUBSET DOMAIN reports
  BY <1>1
<1>5. IsFiniteSet(DOMAIN reports) /\ Cardinality(DOMAIN reports) = Len(reports)
  BY ReportsAre
<1>6. IsFiniteSet(DOMAIN Said(u)) /\ Cardinality(DOMAIN Said(u)) <= Len(reports)
      /\ Cardinality(DOMAIN Said(u)) \in Nat
  BY <1>4, <1>5, PartsCount
<1> QED BY <1>2, <1>3, <1>4, <1>6 DEF Range

(* The consensus of a scored UID is their median. *)
LEMMA ConsensusScoresAre ==
  ASSUME AuditAssumption, ReportsOK
  PROVE  /\ DOMAIN ConsensusScores = Scored
         /\ \A u \in Scored : ConsensusScores[u] = Doubled(Said(u)) /\ ConsensusScores[u] \in 0..200
<1>1. DOMAIN ConsensusScores = Scored /\ \A u \in Scored : ConsensusScores[u] = Doubled(Said(u))
  BY DEF ConsensusScores, Said
<1>2. ASSUME NEW u \in Scored PROVE Doubled(Said(u)) \in 0..200
  BY SaidAre, DoubledIsPercent
<1> QED BY <1>1, <1>2

(* More than half of the reports, the same: the consensus is theirs. *)
LEMMA MajorityRules ==
  ASSUME AuditAssumption, ReportsOK, NEW i \in DOMAIN reports, Majority(i)
  PROVE  /\ \A u \in DOMAIN reports[i].scores :
              u \in Scored /\ ConsensusScores[u] = 2 * reports[i].scores[u]
         /\ \A u \in Scored : ConsensusWeights[u] = 2 * Paid(reports[i], u)
<1> DEFINE S == Alike(i)
<1>1. reports[i] \in ReportChoices
  BY ReportsAre
<1>2. 2 * Cardinality(S) > Len(reports) /\ S \in SUBSET DOMAIN reports
      /\ \A j \in S : reports[j] = reports[i]
  BY DEF Majority, Alike
<1>3. IsFiniteSet(DOMAIN reports) /\ Len(reports) \in Nat /\ Cardinality(DOMAIN reports) = Len(reports)
  BY ReportsAre
<1>4. Cardinality(S) \in Nat
  BY <1>2, <1>3, PartsCount
<1> HIDE DEF S
<1>5. ASSUME NEW u \in DOMAIN reports[i].scores
      PROVE  u \in Scored /\ ConsensusScores[u] = 2 * reports[i].scores[u]
  <2>1. u \in Scored
    BY DEF Scored
  <2>2. S \in SUBSET DOMAIN Said(u) /\ \A j \in S : Said(u)[j] = reports[i].scores[u]
    BY <1>2 DEF Said
  <2>3. 2 * Cardinality(S) > Cardinality(DOMAIN Said(u))
    <3>1. Cardinality(DOMAIN Said(u)) <= Len(reports) /\ Cardinality(DOMAIN Said(u)) \in Nat
      BY <2>1, SaidAre
    <3> QED BY ONLY <1>2, <1>3, <1>4, <3>1
  <2>4. reports[i].scores[u] \in Int
    BY <1>1, ReportShape
  <2>5. IsFiniteSet(DOMAIN Said(u)) /\ Range(Said(u)) \subseteq Int
    <3>1. IsFiniteSet(DOMAIN Said(u)) /\ Range(Said(u)) \subseteq 0..100
      BY <2>1, SaidAre
    <3> QED BY <3>1
  <2>6. Doubled(Said(u)) = 2 * reports[i].scores[u]
    BY ONLY <2>2, <2>3, <2>4, <2>5, MedianOfMajority
  <2> QED BY <2>1, <2>6, ConsensusScoresAre
<1>6. ASSUME NEW u \in Scored
      PROVE  ConsensusWeights[u] = 2 * Paid(reports[i], u)
  <2>1. DOMAIN Given(u) = DOMAIN reports /\ \A j \in DOMAIN reports : Given(u)[j] = Paid(reports[j], u)
    BY DEF Given
  <2>2. S \in SUBSET DOMAIN Given(u) /\ \A j \in S : Given(u)[j] = Paid(reports[i], u)
    BY <1>2, <2>1
  <2>3. 2 * Cardinality(S) > Cardinality(DOMAIN Given(u)) /\ IsFiniteSet(DOMAIN Given(u))
    BY <1>2, <1>3, <2>1
  <2>4. Paid(reports[i], u) \in Int
    <3>1. Paid(reports[i], u) \in Nat
      BY <1>1, ReportShape
    <3> QED BY <3>1
  <2>5. Range(Given(u)) \subseteq Int
    <3>1. \A j \in DOMAIN reports : Paid(reports[j], u) \in Nat
      BY ReportsAre, ReportShape
    <3> QED BY <2>1, <3>1 DEF Range
  <2>6. Doubled(Given(u)) = 2 * Paid(reports[i], u)
    BY ONLY <2>2, <2>3, <2>4, <2>5, MedianOfMajority
  <2>7. ConsensusWeights[u] = Doubled(Given(u))
    BY DEF ConsensusWeights, Given
  <2> QED BY <2>6, <2>7
<1> QED BY <1>5, <1>6

(* Scores that are the consensus's do not diverge from it. *)
LEMMA SameScoresAgree ==
  ASSUME AuditAssumption, NEW mine, NEW doubled, DOMAIN mine \subseteq 0..SubnetUids - 1,
         \A u \in DOMAIN mine : mine[u] \in Int,
         \A u \in DOMAIN mine \cap DOMAIN doubled : doubled[u] = 2 * mine[u]
  PROVE  ~ ScoreDiverges(mine, doubled)
<1> DEFINE common == DOMAIN mine \cap DOMAIN doubled
           gaps == [u \in common |-> Gap(2 * mine[u], doubled[u])]
<1>1. SubnetUids \in Nat /\ ScoreThreshold \in Nat
  BY DEF AuditAssumption
<1>2. \A u \in DOMAIN gaps : gaps[u] = 0
  BY DEF Gap
<1>3. Summed(gaps) = 0
  <2> HIDE DEF gaps
  <2> QED BY <1>1, <1>2, SummedNothing
<1>4. IsFiniteSet(0..SubnetUids - 1)
  <2>1. 0 \in Int /\ SubnetUids - 1 \in Int
    BY <1>1
  <2> QED BY <2>1, FS_Interval
<1>5. common \in SUBSET (0..SubnetUids - 1)
  OBVIOUS
<1>6. Cardinality(common) \in Nat
  BY <1>4, <1>5, PartsCount
<1>7. ScoreDiverges(mine, doubled) <=> Summed(gaps) > 2 * ScoreThreshold * Cardinality(common)
  BY DEF ScoreDiverges
<1>8. 2 * ScoreThreshold * Cardinality(common) \in Nat
  <2> HIDE DEF common
  <2>1. 2 * ScoreThreshold \in Nat
    BY <1>1
  <2> QED BY ONLY <1>6, <2>1
<1> HIDE DEF gaps, common
<1> QED BY <1>3, <1>7, <1>8

(* The weights of a majority: a matter of the UIDs no report scores. *)
LEMMA MajoritysWeights ==
  ASSUME AuditAssumption, ReportsOK, NEW i \in DOMAIN reports, Majority(i)
  PROVE  WeightDiverges(reports[i], ConsensusWeights) <=>
           Summed([u \in DOMAIN reports[i].weights \ Scored |-> reports[i].weights[u]]) > WeightThreshold
<1> DEFINE r == reports[i]
           f == [u \in DOMAIN r.weights \ Scored |-> r.weights[u]]
           D == DOMAIN r.weights \cup DOMAIN ConsensusWeights
           g == [u \in D |->
                   Gap(2 * Paid(r, u), IF u \in DOMAIN ConsensusWeights THEN ConsensusWeights[u] ELSE 0)]
<1>1. SubnetUids \in Nat /\ WeightThreshold \in Nat
  BY DEF AuditAssumption
<1>2. r \in ReportChoices
  BY ReportsAre
<1>3. (\A u \in DOMAIN r.weights : r.weights[u] \in Nat) /\ \A u : Paid(r, u) \in Nat
  BY <1>2, ReportShape
<1>4. DOMAIN ConsensusWeights = Scored
  BY DEF ConsensusWeights
<1>5. \A u \in Scored : ConsensusWeights[u] = 2 * Paid(r, u)
  BY MajorityRules
<1> HIDE DEF r
<1>6. ASSUME NEW u \in 0..SubnetUids - 1
      PROVE  At(f, u) \in Int /\ At(g, u) = 2 * At(f, u)
  <2>1. CASE u \in Scored
    <3>1. At(f, u) = 0
      BY <2>1 DEF At
    <3>2. At(g, u) = Gap(2 * Paid(r, u), 2 * Paid(r, u))
      BY <1>4, <1>5, <2>1 DEF At
    <3>3. Paid(r, u) \in Nat
      BY <1>3
    <3>4. Gap(2 * Paid(r, u), 2 * Paid(r, u)) = 0
      BY <3>3 DEF Gap
    <3> QED BY <3>1, <3>2, <3>4
  <2>2. CASE u \notin Scored /\ u \in DOMAIN r.weights
    <3>1. At(f, u) = r.weights[u]
      BY <2>2 DEF At
    <3>2. At(g, u) = Gap(2 * r.weights[u], 0)
      BY <1>4, <2>2 DEF At, Paid
    <3>3. r.weights[u] \in Nat
      BY <1>3, <2>2
    <3>4. Gap(2 * r.weights[u], 0) = 2 * r.weights[u]
      BY <3>3 DEF Gap
    <3> QED BY <3>1, <3>2, <3>3, <3>4
  <2>3. CASE u \notin Scored /\ u \notin DOMAIN r.weights
    BY <1>4, <2>3 DEF At
  <2> QED BY <2>1, <2>2, <2>3
<1>7. WeightDiverges(r, ConsensusWeights) <=> Summed(g) > 2 * WeightThreshold
  BY DEF WeightDiverges
<1> HIDE DEF f, g
<1>8. Summed(g) = 2 * Summed(f) /\ Summed(f) \in Int
  <2>1. 2 \in Nat
    OBVIOUS
  <2> QED BY <1>1, <1>6, <2>1, SummedTimes
<1>9. Summed(g) > 2 * WeightThreshold <=> Summed(f) > WeightThreshold
  BY <1>1, <1>8
<1> QED BY <1>7, <1>9 DEF f, r

(* Two reports that score the same UIDs. *)
LEMMA TwoAreAlike ==
  ASSUME AuditAssumption, ReportsOK, Len(reports) = 2,
         DOMAIN reports[1].scores = DOMAIN reports[2].scores, NEW i \in {1, 2}
  PROVE  ScoreDiverges(reports[i].scores, ConsensusScores) <=>
           Summed([u \in DOMAIN reports[1].scores |-> Gap(reports[1].scores[u], reports[2].scores[u])])
             > 2 * ScoreThreshold * Cardinality(DOMAIN reports[1].scores)
<1> DEFINE uids == DOMAIN reports[1].scores
           a == reports[1].scores
           b == reports[2].scores
           m == reports[i].scores
<1>1. DOMAIN reports = {1, 2} /\ reports[1] \in ReportChoices /\ reports[2] \in ReportChoices
  BY ReportsAre
<1>2. Scored = uids
  BY <1>1 DEF Scored
<1>3. \A u \in uids : a[u] \in Int /\ b[u] \in Int
  BY <1>1, ReportShape
<1>4. ASSUME NEW u \in uids PROVE ConsensusScores[u] = a[u] + b[u]
  <2>1. DOMAIN Said(u) = {1, 2} /\ Said(u)[1] = a[u] /\ Said(u)[2] = b[u]
    BY <1>1 DEF Said
  <2>2. Doubled(Said(u)) = a[u] + b[u]
    <3>1. Said(u)[1] \in Int /\ Said(u)[2] \in Int
      BY <1>3, <2>1
    <3>2. Doubled(Said(u)) = Said(u)[1] + Said(u)[2]
      BY ONLY <2>1, <3>1, MedianOfTwo
    <3> QED BY <2>1, <3>2
  <2> QED BY <1>2, <2>2, ConsensusScoresAre
<1>5. DOMAIN ConsensusScores = uids /\ DOMAIN m = uids
  BY <1>2, ConsensusScoresAre
<1>6. \A u \in uids : Gap(2 * m[u], ConsensusScores[u]) = Gap(a[u], b[u])
  <2> TAKE u \in uids
  <2>1. a[u] \in Int /\ b[u] \in Int /\ ConsensusScores[u] = a[u] + b[u]
    BY <1>3, <1>4
  <2>2. m[u] = a[u] \/ m[u] = b[u]
    OBVIOUS
  <2> QED BY ONLY <2>1, <2>2 DEF Gap
<1>7. [u \in DOMAIN m \cap DOMAIN ConsensusScores |-> Gap(2 * m[u], ConsensusScores[u])]
        = [u \in uids |-> Gap(a[u], b[u])]
  <2>1. DOMAIN m \cap DOMAIN ConsensusScores = uids
    BY <1>5
  <2> HIDE DEF m, a, b, uids
  <2> QED BY <1>6, <2>1
<1>8. DOMAIN m \cap DOMAIN ConsensusScores = uids
  BY <1>5
<1> QED BY <1>7, <1>8 DEF ScoreDiverges

(* Scores that differ are ranked as they are. *)
LEMMA RanksFollowScores ==
  ASSUME NEW f, NEW pos, IsFiniteSet(DOMAIN f), \A x \in DOMAIN f : f[x] \in Int /\ pos[x] \in Int,
         NEW u \in DOMAIN f, NEW z \in DOMAIN f, f[u] > f[z]
  PROVE  RankOrder(f, pos)[u] < RankOrder(f, pos)[z]
<1> DEFINE Before(x) == {y \in DOMAIN f : f[y] > f[x] \/ (f[y] = f[x] /\ pos[y] < pos[x])}
<1>1. \A x \in DOMAIN f : RankOrder(f, pos)[x] = Cardinality(Before(x))
  BY DEF RankOrder
<1>2. Before(u) \in SUBSET Before(z) /\ u \in Before(z) /\ Before(z) \in SUBSET DOMAIN f
  OBVIOUS
<1>3. u \notin Before(u)
  OBVIOUS
<1>4. {u} \in SUBSET Before(z) /\ Before(u) \cap {u} = {}
  BY <1>2, <1>3
<1> HIDE DEF Before
<1>5. IsFiniteSet(Before(z))
  BY <1>2, PartsCount
<1>6. Cardinality(Before(u)) + Cardinality({u}) <= Cardinality(Before(z))
  BY ONLY <1>2, <1>4, <1>5, ApartCount
<1>7. Cardinality({u}) = 1 /\ Cardinality(Before(u)) \in Nat /\ Cardinality(Before(z)) \in Nat
  BY <1>2, <1>5, PartsCount, FS_Singleton
<1> QED BY <1>1, <1>6, <1>7

(* Two are not one: a pair has two members that differ. *)
LEMMA PairHasTwo ==
  ASSUME NEW p, IsFiniteSet(p), Cardinality(p) = 2
  PROVE  \E u, z \in p : u # z
<1>1. p # {}
  BY FS_EmptySet
<1>2. PICK u \in p : TRUE
  BY <1>1
<1>3. SUFFICES ASSUME \A z \in p : z = u PROVE FALSE
  OBVIOUS
<1>4. p = {u}
  BY <1>2, <1>3
<1> QED BY <1>4, FS_Singleton

(* Rankings of the same order, of things that are all ranked apart, do not disagree. *)
LEMMA SameOrderAgrees ==
  ASSUME NEW common, IsFiniteSet(common), NEW a, NEW b,
         \A u, z \in common : u # z => (a[u] < a[z] /\ b[u] < b[z]) \/ (a[z] < a[u] /\ b[z] < b[u])
  PROVE  ~ RanksDisagree(a, b, common)
<1> DEFINE pairs == kSubset(2, common)
           concordant == {p \in pairs : \E u, z \in p : a[u] < a[z] /\ b[u] < b[z]}
<1>1. pairs \in SUBSET SUBSET common /\ \A p \in pairs : Cardinality(p) = 2
  BY DEF kSubset
<1>2. IsFiniteSet(SUBSET common)
  BY FS_SUBSET
<1>3. Cardinality(pairs) \in Nat
  BY <1>1, <1>2, PartsCount
<1> HIDE DEF pairs
<1>4. ASSUME NEW p \in pairs PROVE \E u, z \in p : a[u] < a[z] /\ b[u] < b[z]
  <2>1. p \in SUBSET common /\ Cardinality(p) = 2
    BY <1>1
  <2>2. IsFiniteSet(p)
    BY <2>1, PartsCount
  <2>3. PICK u \in p, z \in p : u # z
    BY <2>1, <2>2, PairHasTwo
  <2>4. u \in common /\ z \in common
    BY <2>1
  <2> QED BY <2>3, <2>4
<1>5. concordant = pairs
  BY <1>4
<1>6. RanksDisagree(a, b, common) <=>
        2 * (2 * Cardinality(concordant) - Cardinality(pairs)) < Cardinality(pairs)
  BY DEF RanksDisagree, pairs
<1> HIDE DEF concordant
<1> QED BY <1>3, <1>5, <1>6

(* The result has a score for each UID of the auditing report. *)
LEMMA ResultScores ==
  ASSUME AuditAssumption, ReportsOK, ResultIsOfTheReports, result # None
  PROVE  /\ Len(reports) >= 1 /\ reports[1] \in ReportChoices
         /\ DOMAIN result.scores \subseteq 0..SubnetUids - 1
         /\ \A u \in DOMAIN result.scores : result.scores[u] \in 0..200 /\ result.scores[u] \in Int
         /\ result.scoreOutliers \cup result.weightOutliers \subseteq DOMAIN reports
<1>1. MinValidators \in Nat /\ MinValidators >= 2
  BY DEF AuditAssumption
<1>2. Len(reports) >= 1 /\ Len(reports) \in Nat
  <2>1. Len(reports) \in Nat
    BY ReportsAre
  <2>2. Len(reports) \in 1..MinValidators - 1 \/ Len(reports) >= MinValidators
    BY DEF ResultIsOfTheReports
  <2> QED BY ONLY <1>1, <2>1, <2>2
<1>3. reports[1] \in ReportChoices
  <2>1. DOMAIN reports = 1..Len(reports) /\ \A i \in DOMAIN reports : reports[i] \in ReportChoices
    BY ReportsAre
  <2>2. 1 \in DOMAIN reports
    BY ONLY <1>2, <2>1
  <2> QED BY <2>1, <2>2
<1>4. CASE result = AsReported
  <2>1. /\ result.scores = [u \in DOMAIN reports[1].scores |-> 2 * reports[1].scores[u]]
        /\ result.scoreOutliers = {} /\ result.weightOutliers = {}
    BY <1>4 DEF AsReported, None
  <2>2. /\ DOMAIN reports[1].scores \subseteq 0..SubnetUids - 1
        /\ \A u \in DOMAIN reports[1].scores : reports[1].scores[u] \in 0..100
    BY <1>3, ReportShape
  <2>3. \A u \in DOMAIN result.scores : result.scores[u] \in 0..200
    <3>1. \A u \in DOMAIN reports[1].scores : 2 * reports[1].scores[u] \in 0..200
      BY <2>2
    <3> QED BY <2>1, <3>1
  <2>4. DOMAIN result.scores \subseteq 0..SubnetUids - 1
    BY <2>1, <2>2
  <2>5. \A u \in DOMAIN result.scores : result.scores[u] \in Int
    BY ONLY <2>3
  <2>6. result.scoreOutliers \cup result.weightOutliers \subseteq DOMAIN reports
    BY <2>1
  <2> QED BY ONLY <1>2, <1>3, <2>3, <2>4, <2>5, <2>6
<1>5. CASE result = Compared
  <2>1. /\ result.scores = ConsensusScores
        /\ result.scoreOutliers \cup result.weightOutliers \subseteq DOMAIN reports
    BY <1>5 DEF Compared
  <2>2. Scored \subseteq 0..SubnetUids - 1
    <3>1. \A i \in DOMAIN reports : DOMAIN reports[i].scores \subseteq 0..SubnetUids - 1
      BY ReportsAre, ReportShape
    <3> QED BY <3>1 DEF Scored
  <2>3. DOMAIN ConsensusScores = Scored /\ \A u \in Scored : ConsensusScores[u] \in 0..200
    BY ConsensusScoresAre
  <2>4. DOMAIN result.scores \subseteq 0..SubnetUids - 1
    BY <2>1, <2>2, <2>3
  <2>5. \A u \in DOMAIN result.scores : result.scores[u] \in 0..200
    BY <2>1, <2>3
  <2>6. \A u \in DOMAIN result.scores : result.scores[u] \in Int
    BY ONLY <2>5
  <2> QED BY ONLY <1>2, <1>3, <2>1, <2>4, <2>5, <2>6
<1> QED BY <1>4, <1>5 DEF ResultIsOfTheReports

(* What check_self_consistency says when the scores are the consensus's and
   differ from each other: nothing. *)
LEMMA NothingToWarnOf ==
  ASSUME AuditAssumption, ReportsOK, ResultIsOfTheReports, result # None,
         NEW pos \in Positions(DOMAIN reports[1].scores), NEW theirs,
         theirs = IF Len(reports) < MinValidators THEN pos ELSE [u \in DOMAIN result.scores |-> u],
         \A u \in DOMAIN result.scores \cap DOMAIN reports[1].scores :
            result.scores[u] = 2 * reports[1].scores[u],
         \A u, z \in DOMAIN reports[1].scores :
            u # z => reports[1].scores[u] # reports[1].scores[z]
  PROVE  LET mine == reports[1].scores
             common == DOMAIN mine \cap DOMAIN result.scores
         IN /\ ~ ScoreDiverges(mine, result.scores)
            /\ ~ \E u \in common : Gap(2 * mine[u], result.scores[u]) > 2 * GapThreshold
            /\ ~ RanksDisagree(RankOrder(mine, pos), RankOrder(result.scores, theirs), common)
<1> DEFINE mine == reports[1].scores
           all == result.scores
           common == DOMAIN mine \cap DOMAIN all
<1>1. reports[1] \in ReportChoices /\ DOMAIN all \subseteq 0..SubnetUids - 1
      /\ \A u \in DOMAIN all : all[u] \in Int
  BY ResultScores
<1>2. DOMAIN mine \subseteq 0..SubnetUids - 1 /\ \A u \in DOMAIN mine : mine[u] \in Int
  BY <1>1, ReportShape
<1>3. \A u \in common : all[u] = 2 * mine[u]
  OBVIOUS
<1>4. \A u, z \in DOMAIN mine : u # z => mine[u] # mine[z]
  OBVIOUS
<1>5. SubnetUids \in Nat /\ GapThreshold \in Nat
  BY DEF AuditAssumption
<1>6. IsFiniteSet(DOMAIN mine) /\ IsFiniteSet(DOMAIN all) /\ IsFiniteSet(common)
  <2>1. IsFiniteSet(0..SubnetUids - 1)
    <3>1. 0 \in Int /\ SubnetUids - 1 \in Int
      BY <1>5
    <3> QED BY <3>1, FS_Interval
  <2>2. DOMAIN mine \in SUBSET (0..SubnetUids - 1) /\ DOMAIN all \in SUBSET (0..SubnetUids - 1)
        /\ common \in SUBSET (0..SubnetUids - 1)
    BY <1>1, <1>2
  <2> QED BY <2>1, <2>2, PartsCount
<1>7. \A x \in DOMAIN mine : pos[x] \in Int
  <2>1. pos \in [DOMAIN mine -> 1..Cardinality(DOMAIN mine)]
    BY DEF Positions
  <2>2. \A x \in DOMAIN mine : pos[x] \in 1..Cardinality(DOMAIN mine)
    BY ONLY <2>1
  <2> QED BY <2>2
<1>8. \A x \in DOMAIN all : theirs[x] \in Int
  <2>1. CASE Len(reports) < MinValidators
    <3>1. DOMAIN all = DOMAIN mine
      <4>1. ~ (Len(reports) >= MinValidators)
        <5>1. Len(reports) \in Nat /\ MinValidators \in Nat
          BY ReportsAre DEF AuditAssumption
        <5> QED BY <2>1, <5>1
      <4>2. result = AsReported
        BY <4>1 DEF ResultIsOfTheReports
      <4> QED BY <4>2 DEF AsReported, None
    <3> QED BY <1>7, <2>1, <3>1
  <2>2. CASE ~ (Len(reports) < MinValidators)
    BY <1>1, <2>2
  <2> QED BY <2>1, <2>2
<1> HIDE DEF mine, all
<1>9. ~ ScoreDiverges(mine, all)
  <2>1. \A u \in DOMAIN mine \cap DOMAIN all : all[u] = 2 * mine[u]
    BY <1>3
  <2> QED BY <1>2, <2>1, SameScoresAgree
<1>10. ~ \E u \in common : Gap(2 * mine[u], all[u]) > 2 * GapThreshold
  <2>1. \A u \in common : Gap(2 * mine[u], all[u]) = 0
    BY <1>2, <1>3 DEF Gap
  <2> QED BY <1>5, <2>1
<1>11. ASSUME NEW u \in common, NEW z \in common, mine[u] > mine[z]
       PROVE  /\ RankOrder(mine, pos)[u] < RankOrder(mine, pos)[z]
              /\ RankOrder(all, theirs)[u] < RankOrder(all, theirs)[z]
  <2>1. u \in DOMAIN mine /\ z \in DOMAIN mine /\ u \in DOMAIN all /\ z \in DOMAIN all
    OBVIOUS
  <2>2. all[u] > all[z]
    <3>1. mine[u] \in Int /\ mine[z] \in Int /\ all[u] = 2 * mine[u] /\ all[z] = 2 * mine[z]
      BY <1>2, <1>3, <2>1
    <3> QED BY ONLY <3>1, mine[u] > mine[z]
  <2>3. RankOrder(mine, pos)[u] < RankOrder(mine, pos)[z]
    BY ONLY <1>2, <1>6, <1>7, <2>1, mine[u] > mine[z], RanksFollowScores
  <2>4. RankOrder(all, theirs)[u] < RankOrder(all, theirs)[z]
    BY ONLY <1>1, <1>6, <1>8, <2>1, <2>2, RanksFollowScores
  <2> QED BY <2>3, <2>4
<1> DEFINE a == RankOrder(mine, pos)
           b == RankOrder(all, theirs)
<1>12. \A u, z \in common : u # z => (a[u] < a[z] /\ b[u] < b[z]) \/ (a[z] < a[u] /\ b[z] < b[u])
  <2> TAKE u, z \in common
  <2> HAVE u # z
  <2>1. mine[u] \in Int /\ mine[z] \in Int /\ mine[u] # mine[z]
    BY <1>2, <1>4
  <2>2. mine[u] > mine[z] \/ mine[z] > mine[u]
    BY ONLY <2>1
  <2> QED BY <1>11, <2>2
<1> HIDE DEF a, b, common
<1>13. ~ RanksDisagree(a, b, common)
  BY ONLY <1>6, <1>12, SameOrderAgrees
<1> QED BY <1>9, <1>10, <1>13 DEF mine, all, common, a, b

(* The same reports are compared the same. *)
LEMMA SameReports ==
  ASSUME reports' = reports
  PROVE  /\ AsReported' = AsReported /\ Compared' = Compared /\ (ReportsOK' <=> ReportsOK)
         /\ result' = result => (ResultIsOfTheReports' <=> ResultIsOfTheReports)
<1>1. AsReported' = AsReported
  BY DEF AsReported, None
<1>2. Compared' = Compared
  BY DEF Compared, ConsensusScores, ConsensusWeights, Scored
<1>3. ReportsOK' <=> ReportsOK
  BY DEF ReportsOK
<1>4. result' = result => (ResultIsOfTheReports' <=> ResultIsOfTheReports)
  BY <1>1, <1>2 DEF ResultIsOfTheReports
<1> QED BY <1>1, <1>2, <1>3, <1>4

(* What the comparison does with every report it is given. *)
LEMMA AuditStep ==
  ASSUME AuditAssumption, AuditInv, [AuditNext]_auditVars
  PROVE  AuditInv'
<1>1. ReportsOK /\ ResultIsOfTheReports
  BY DEF AuditInv
<1>2. CASE UNCHANGED auditVars
  <2>1. reports' = reports /\ result' = result /\ warnings' = warnings
    BY <1>2 DEF auditVars
  <2>2. ReportsOK' /\ ResultIsOfTheReports'
    BY <1>1, <2>1, SameReports
  <2>3. AgreeingIsNotWarned'
    BY <2>1 DEF AuditInv, AgreeingIsNotWarned
  <2> QED BY <2>1, <2>2, <2>3 DEF AuditInv
<1>3. CASE AddReport
  <2>1. PICK r \in ReportChoices : reports' = Append(reports, r)
    BY <1>3 DEF AddReport
  <2>2. ReportsOK'
    <3>1. reports \in Seq(ReportChoices) /\ Len(reports) < MaxReports /\ MaxReports \in Nat
      BY <1>1, <1>3 DEF ReportsOK, AddReport, AuditAssumption
    <3> QED BY <2>1, <3>1 DEF ReportsOK
  <2>3. result = None /\ result' = None /\ warnings' = warnings /\ warnings = {}
    BY <1>3 DEF AddReport, AuditInv
  <2> QED BY <2>2, <2>3 DEF AuditInv, ResultIsOfTheReports, AgreeingIsNotWarned
<1>4. CASE TooFew
  <2>1. reports' = reports /\ warnings' = warnings /\ warnings = {}
    BY <1>4 DEF TooFew, AuditInv
  <2>2. result' = AsReported' /\ Len(reports') \in 1..MinValidators - 1
    BY <1>4, <2>1 DEF TooFew, AsReported
  <2>3. ReportsOK'
    BY <1>1, <2>1 DEF ReportsOK
  <2>4. ResultIsOfTheReports'
    BY <2>2 DEF ResultIsOfTheReports
  <2> QED BY <2>1, <2>3, <2>4 DEF AuditInv, AgreeingIsNotWarned
<1>5. CASE Audit
  <2>1. reports' = reports /\ warnings' = warnings /\ warnings = {}
    BY <1>5 DEF Audit, AuditInv
  <2>2. result' = Compared' /\ Len(reports') >= MinValidators
    <3>1. result' = Compared
      BY <1>5 DEF Audit, Compared
    <3>2. Compared' = Compared
      BY <2>1, SameReports
    <3> QED BY <1>5, <2>1, <3>1, <3>2 DEF Audit
  <2>3. ReportsOK'
    BY <1>1, <2>1 DEF ReportsOK
  <2>4. ResultIsOfTheReports'
    BY <2>2 DEF ResultIsOfTheReports
  <2> QED BY <2>1, <2>3, <2>4 DEF AuditInv, AgreeingIsNotWarned
<1>6. CASE SelfCheck
  <2>1. result # None /\ reports' = reports /\ result' = result
    BY <1>6 DEF SelfCheck
  <2>2. ReportsOK' /\ ResultIsOfTheReports'
    BY <1>1, <2>1, SameReports
  <2> DEFINE mine == reports[1].scores
             common == DOMAIN mine \cap DOMAIN result.scores
             Theirs(p) == IF Len(reports) < MinValidators THEN p ELSE [u \in DOMAIN result.scores |-> u]
  <2>3. PICK pos \in Positions(DOMAIN mine) :
          warnings' =
            IF result.scores = <<>> THEN {}
            ELSE (IF ScoreDiverges(mine, result.scores) THEN {"divergence"} ELSE {})
                 \cup (IF \E u \in common : Gap(2 * mine[u], result.scores[u]) > 2 * GapThreshold
                       THEN {"gap"} ELSE {})
                 \cup (IF /\ Cardinality(common) >= 3
                          /\ RanksDisagree(RankOrder(mine, pos), RankOrder(result.scores, Theirs(pos)), common)
                       THEN {"rank"} ELSE {})
    BY <1>6 DEF SelfCheck
  <2>4. warnings' \subseteq {"divergence", "gap", "rank"}
    BY <2>3
  <2>5. AgreeingIsNotWarned'
    <3>1. SUFFICES ASSUME \A u \in DOMAIN result.scores \cap DOMAIN mine : result.scores[u] = 2 * mine[u],
                          \A u, z \in DOMAIN mine : u # z => mine[u] # mine[z]
                   PROVE  warnings' = {}
      BY <2>1 DEF AgreeingIsNotWarned
    <3>2. /\ ~ ScoreDiverges(mine, result.scores)
          /\ ~ \E u \in common : Gap(2 * mine[u], result.scores[u]) > 2 * GapThreshold
          /\ ~ RanksDisagree(RankOrder(mine, pos), RankOrder(result.scores, Theirs(pos)), common)
      BY <1>1, <2>1, <3>1, NothingToWarnOf
    <3> HIDE DEF mine, common, Theirs
    <3> QED BY <2>3, <3>2
  <2> QED BY <2>1, <2>2, <2>4, <2>5 DEF AuditInv
<1> QED BY <1>2, <1>3, <1>4, <1>5, <1>6 DEF AuditNext

(* What the invariant says of whom the comparison accuses. *)
LEMMA AuditInvIsSafe ==
  ASSUME AuditAssumption, AuditInv
  PROVE  AuditSafety
<1>1. ReportsOK /\ ResultIsOfTheReports /\ warnings \subseteq {"divergence", "gap", "rank"}
      /\ AgreeingIsNotWarned
  BY DEF AuditInv
<1>2. MinValidators \in Nat /\ Len(reports) \in Nat /\ DOMAIN reports = 1..Len(reports)
  BY <1>1, ReportsAre DEF AuditAssumption
<1>3. ASSUME Audited PROVE result = Compared /\ result # None
  BY <1>1, <1>2, <1>3 DEF Audited, ResultIsOfTheReports
<1>8. ASSUME Audited
      PROVE  /\ result.scoreOutliers = {i \in DOMAIN reports : ScoreDiverges(reports[i].scores, ConsensusScores)}
             /\ result.weightOutliers = {i \in DOMAIN reports : WeightDiverges(reports[i], ConsensusWeights)}
  <2>1. result = Compared
    BY <1>3, <1>8
  <2> QED BY ONLY <2>1 DEF Compared
<1>4. AuditTypeOK
  <2>1. CASE result = None
    BY <1>1, <2>1 DEF AuditTypeOK, ReportsOK, None
  <2>2. CASE result # None
    BY <1>1, <2>2, ResultScores DEF AuditTypeOK, ReportsOK
  <2> QED BY <2>1, <2>2
<1>5. MajorityIsNotAccused
  <2>1. SUFFICES ASSUME Audited, NEW i \in DOMAIN reports, Majority(i)
                 PROVE  ~ ScoreDiverges(reports[i].scores, ConsensusScores)
    BY <1>8 DEF MajorityIsNotAccused
  <2> DEFINE mine == reports[i].scores
  <2>2. reports[i] \in ReportChoices
    BY <1>1, ReportsAre
  <2>3. DOMAIN mine \subseteq 0..SubnetUids - 1 /\ \A u \in DOMAIN mine : mine[u] \in Int
    BY <2>2, ReportShape
  <2>4. \A u \in DOMAIN mine \cap DOMAIN ConsensusScores : ConsensusScores[u] = 2 * mine[u]
    BY <1>1, <2>1, MajorityRules
  <2> QED BY <2>3, <2>4, SameScoresAgree
<1>6. AccusedForTheUnscored
  <2>1. SUFFICES ASSUME Audited, NEW i \in DOMAIN reports, Majority(i)
                 PROVE  WeightDiverges(reports[i], ConsensusWeights) <=>
                          Summed([u \in DOMAIN reports[i].weights \ Scored |-> reports[i].weights[u]])
                            > WeightThreshold
    BY <1>8 DEF AccusedForTheUnscored
  <2> QED BY <1>1, <2>1, MajoritysWeights
<1>7. TwoDivergeByHalf
  <2> DEFINE uids == DOMAIN reports[1].scores
             apart == Summed([u \in uids |-> Gap(reports[1].scores[u], reports[2].scores[u])])
             Far == apart > 2 * ScoreThreshold * Cardinality(uids)
  <2>1. SUFFICES ASSUME Audited, Len(reports) = 2, DOMAIN reports[1].scores = DOMAIN reports[2].scores
                 PROVE  result.scoreOutliers = IF Far THEN {1, 2} ELSE {}
    BY DEF TwoDivergeByHalf
  <2>2. result.scoreOutliers = {i \in {1, 2} : ScoreDiverges(reports[i].scores, ConsensusScores)}
    <3>1. DOMAIN reports = {1, 2}
      BY <1>2, <2>1
    <3> QED BY <1>8, <2>1, <3>1
  <2>3. \A i \in {1, 2} : ScoreDiverges(reports[i].scores, ConsensusScores) <=> Far
    BY <1>1, <2>1, TwoAreAlike
  <2> HIDE DEF Far
  <2> QED BY <2>2, <2>3
<1> QED BY <1>1, <1>4, <1>5, <1>6, <1>7 DEF AuditSafety

(* Whatever the reports say: the scores of a majority are never outliers,
   its weights only for what they pay to UIDs nobody scores, two are outliers
   together, and who agrees is warned only of equal scores. *)
THEOREM AuditAlwaysSafe == AuditSpec => []AuditSafety
<1> USE AuditAssumption
<1>1. AuditInit => AuditInv
  BY DEF AuditInit, AuditInv, ReportsOK, ResultIsOfTheReports, AgreeingIsNotWarned, AuditAssumption
<1>2. AuditInv /\ [AuditNext]_auditVars => AuditInv'
  BY AuditStep
<1>3. AuditInv => AuditSafety
  BY AuditInvIsSafe
<1> QED BY <1>1, <1>2, <1>3, PTL DEF AuditSpec

=============================================================================
