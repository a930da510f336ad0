---------------------- MODULE BackgroundTargetsProofs ----------------------
(***************************************************************************)
(* Proofs about BackgroundTargets, for every set of commands, calls,       *)
(* agents and sessions and every window size.  The first part proves what  *)
(* the order statistics of a window are, the second one that the types are *)
(* kept, the third that the registry counts the work in progress when no   *)
(* two calls of one signature run at once, the fourth that a request then  *)
(* tells the relay the session's own work, and the fifth that a row of the *)
(* history summarises the runs of its command.                             *)
(***************************************************************************)
EXTENDS BackgroundTargets, FiniteSetTheorems, WellFoundedInduction, TLAPS

-----------------------------------------------------------------------------
(* Order statistics *)

\* A nonempty set of natural numbers has a least element, and Min is it.
LEMMA MinFacts ==
    ASSUME NEW S \in SUBSET Nat, S # {}
    PROVE  Min(S) \in S /\ \A y \in S : Min(S) <= y
  <1>1. PICK x \in S : \A y \in S : ~(<<y, x>> \in OpToRel(<, Nat))
    BY WFMin, NatLessThanWellFounded
  <1>2. \A y \in S : ~(y < x)
    BY <1>1, Zenon DEF OpToRel
  <1>3. x \in Nat /\ \A y \in S : y \in Nat
    OBVIOUS
  <1>4. \A y \in S : x =< y
    BY <1>2, <1>3
  <1> QED
    BY <1>4 DEF Min

\* The positions of a window whose sample is at most x, and those below x.
UpTo(w, x) == {i \in DOMAIN w : w[i] <= x}
Below(w, x) == {i \in DOMAIN w : w[i] < x}

\* The positions of a window up to a value are finitely many, at most its length.
LEMMA PositionFacts ==
    ASSUME NEW w \in Seq(Nat), NEW x \in Int
    PROVE  /\ IsFiniteSet(UpTo(w, x)) /\ Cardinality(UpTo(w, x)) \in Nat
           /\ IsFiniteSet(Below(w, x)) /\ Cardinality(Below(w, x)) \in Nat
           /\ Cardinality(UpTo(w, x)) <= Len(w)
           /\ IsFiniteSet(DOMAIN w) /\ Cardinality(DOMAIN w) = Len(w)
  <1>1. DOMAIN w = 1..Len(w) /\ Len(w) \in Nat
    OBVIOUS
  <1>2. IsFiniteSet(1..Len(w)) /\ Cardinality(1..Len(w)) = Len(w)
    <2>1. Len(w) \in Int /\ 1 \in Int
      BY <1>1
    <2>2. /\ IsFiniteSet(1..Len(w))
          /\ Cardinality(1..Len(w)) = IF 1 > Len(w) THEN 0 ELSE Len(w) - 1 + 1
      BY <2>1, FS_Interval, Zenon
    <2> QED
      BY <1>1, <2>2
  <1>3. UpTo(w, x) \in SUBSET (1..Len(w)) /\ Below(w, x) \in SUBSET (1..Len(w))
    BY <1>1 DEF UpTo, Below
  <1> QED
    BY <1>1, <1>2, <1>3, FS_Subset, FS_CardinalityType

\* Among any positions of a window there is one with the largest sample.
LEMMA LargestSample ==
    ASSUME NEW w \in Seq(Nat), NEW T \in SUBSET DOMAIN w, T # {}
    PROVE  \E i \in T : \A j \in T : w[j] <= w[i]
  <1> DEFINE C(i) == Cardinality(UpTo(w, w[i]))
             D == {m \in Nat : \E i \in T : m = Len(w) - C(i)}
  <1>1. \A i \in DOMAIN w : w[i] \in Nat
    OBVIOUS
  <1>2. ASSUME NEW i \in T
        PROVE  C(i) \in Nat /\ C(i) <= Len(w) /\ Len(w) \in Nat
    <2>1. w[i] \in Int /\ Len(w) \in Nat
      BY <1>1
    <2>2. /\ Cardinality(UpTo(w, w[i])) \in Nat
          /\ Cardinality(UpTo(w, w[i])) <= Len(w)
      BY <2>1, PositionFacts
    <2> QED
      BY <2>1, <2>2
  <1> HIDE DEF C
  <1>3. D # {}
    <2>1. PICK i \in T : TRUE
      OBVIOUS
    <2>2. Len(w) - C(i) \in Nat
      BY <1>2
    <2> QED
      BY <2>2
  <1>4. Min(D) \in D /\ \A d \in D : Min(D) <= d
    <2>1. D \in SUBSET Nat
      OBVIOUS
    <2> HIDE DEF D
    <2> QED
      BY <1>3, <2>1, MinFacts
  <1>5. PICK i \in T : Min(D) = Len(w) - C(i)
    BY <1>4
  <1>6. ASSUME NEW j \in T, w[j] > w[i]
        PROVE  FALSE
    <2>1. w[i] \in Nat /\ w[j] \in Nat
      BY <1>1
    <2>2. UpTo(w, w[i]) \in SUBSET UpTo(w, w[j])
      BY <1>1, <1>6, <2>1 DEF UpTo
    <2>3. j \in UpTo(w, w[j]) /\ j \notin UpTo(w, w[i])
      BY <1>1, <1>6, <2>1 DEF UpTo
    <2>4. IsFiniteSet(UpTo(w, w[j]))
      BY <2>1, PositionFacts
    <2>5. C(i) <= C(j) /\ C(i) # C(j)
      BY <2>2, <2>3, <2>4, FS_Subset DEF C
    <2>6. Len(w) - C(j) \in Nat
      BY <1>2
    <2>7. Min(D) <= Len(w) - C(j)
      BY <1>4, <2>6
    <2> QED
      BY <1>2, <1>5, <2>5, <2>7
  <1>7. \A j \in T : w[j] <= w[i]
    BY <1>1, <1>6
  <1> QED
    BY <1>7

\* Ordered(w, k) is a sample of the window; more than k samples are at most as
\* large, and at most k are smaller.
LEMMA OrderedFacts ==
    ASSUME NEW w \in Seq(Nat), NEW k \in Nat, k < Len(w)
    PROVE  LET x == Ordered(w, k)
           IN  /\ x \in Nat
               /\ Cardinality(UpTo(w, x)) > k
               /\ Cardinality(Below(w, x)) <= k
               /\ \A y \in Nat : Cardinality(UpTo(w, y)) > k => x <= y
  <1> DEFINE S == {x \in Range(w) : Cardinality(UpTo(w, x)) > k}
             x == Min(S)
  <1>1. DOMAIN w = 1..Len(w) /\ Len(w) \in Nat /\ \A i \in DOMAIN w : w[i] \in Nat
    OBVIOUS
  <1>2. \A y : y \in Range(w) <=> \E i \in DOMAIN w : w[i] = y
    BY DEF Range
  <1>3. Ordered(w, k) = x
    BY DEF Ordered, UpTo
  <1>4. S \in SUBSET Nat
    BY <1>1, <1>2
  <1>5. S # {}
    <2>1. DOMAIN w # {}
      BY <1>1
    <2>2. PICK i \in DOMAIN w : \A j \in DOMAIN w : w[j] <= w[i]
      BY <2>1, LargestSample
    <2>3. UpTo(w, w[i]) = DOMAIN w
      BY <2>2 DEF UpTo
    <2>4. Cardinality(UpTo(w, w[i])) = Len(w)
      BY <2>3, PositionFacts
    <2>5. w[i] \in Range(w)
      BY <1>2
    <2> QED
      BY <1>1, <2>4, <2>5
  <1>6. x \in S /\ \A y \in S : x <= y
    <2> HIDE DEF S
    <2> QED
      BY <1>4, <1>5, MinFacts
  <1>7. x \in Nat /\ Cardinality(UpTo(w, x)) > k
    BY <1>4, <1>6
  <1> HIDE DEF x
  <1>8. ASSUME NEW y \in Nat, Cardinality(UpTo(w, y)) > k
        PROVE  x <= y
    <2>1. UpTo(w, y) # {} /\ UpTo(w, y) \in SUBSET DOMAIN w
      <3>1. Cardinality(UpTo(w, y)) # 0
        BY <1>8, PositionFacts
      <3> QED
        BY <3>1, FS_EmptySet DEF UpTo
    <2>2. PICK i \in UpTo(w, y) : \A j \in UpTo(w, y) : w[j] <= w[i]
      BY <2>1, LargestSample
    <2>3. w[i] \in Nat /\ w[i] <= y /\ i \in DOMAIN w
      BY <1>1, <2>2 DEF UpTo
    <2>4. UpTo(w, w[i]) = UpTo(w, y)
      BY <1>1, <2>2, <2>3 DEF UpTo
    <2>5. w[i] \in S
      BY <1>2, <1>8, <2>3, <2>4
    <2> QED
      BY <1>6, <1>7, <2>3, <2>5
  <1>9. Cardinality(Below(w, x)) <= k
    <2>1. CASE Below(w, x) = {}
      BY <2>1, FS_EmptySet
    <2>2. CASE Below(w, x) # {}
      <3>1. Below(w, x) \in SUBSET DOMAIN w
        BY DEF Below
      <3>2. PICK i \in Below(w, x) : \A j \in Below(w, x) : w[j] <= w[i]
        BY <2>2, <3>1, LargestSample
      <3>3. w[i] \in Nat /\ w[i] < x
        BY <1>1, <3>2 DEF Below
      <3>4. Below(w, x) \in SUBSET UpTo(w, w[i])
        BY <3>1, <3>2 DEF UpTo
      <3>5. ~(Cardinality(UpTo(w, w[i])) > k)
        BY <1>7, <1>8, <3>3
      <3>6. w[i] \in Int /\ x \in Int
        BY <1>7, <3>3
      <3>7. /\ Cardinality(UpTo(w, w[i])) \in Nat /\ Cardinality(Below(w, x)) \in Nat
            /\ IsFiniteSet(UpTo(w, w[i]))
        BY <3>6, PositionFacts
      <3>8. Cardinality(Below(w, x)) <= Cardinality(UpTo(w, w[i]))
        BY <3>4, <3>7, FS_Subset
      <3> QED
        BY <3>5, <3>7, <3>8
    <2> QED
      BY <2>1, <2>2
  <1> QED
    BY <1>3, <1>7, <1>8, <1>9

\* The product of a digit and a difference lies within ten times the difference.
LEMMA DigitTimes ==
    ASSUME NEW m \in 0..9, NEW d \in Nat
    PROVE  m * d \in Nat /\ m * d <= 10 * d
  <1>1. \/ m = 0 \/ m = 1 \/ m = 2 \/ m = 3 \/ m = 4
        \/ m = 5 \/ m = 6 \/ m = 7 \/ m = 8 \/ m = 9
    OBVIOUS
  <1> QED
    BY <1>1

\* The percentile of a window has at most a tenth of the samples above it and nine
\* tenths below it, up to the rounding of the ranks.
LEMMA P90Facts ==
    ASSUME NEW w \in Seq(Nat), Len(w) >= 1
    PROVE  LET n == Len(w)
               p == P90(w)
               above == {i \in DOMAIN w : 10 * w[i] > p}
               below == {i \in DOMAIN w : 10 * w[i] < p}
           IN  /\ p \in Nat
               /\ 10 * Cardinality(above) <= n + 8
               /\ 10 * Cardinality(below) <= 9 * (n - 1) + 10
  <1> DEFINE n == Len(w)
             rank == 9 * (n - 1)
             lower == rank \div 10
             upper == Min({lower + 1, n - 1})
             low == Ordered(w, lower)
             high == Ordered(w, upper)
             p == P90(w)
             above == {i \in DOMAIN w : 10 * w[i] > p}
             below == {i \in DOMAIN w : 10 * w[i] < p}
  <1>0. n \in Nat /\ n >= 1 /\ \A i \in DOMAIN w : w[i] \in Nat
    OBVIOUS
  <1> HIDE DEF n
  <1>1. rank \in Nat /\ lower \in Nat /\ rank % 10 \in 0..9
        /\ 10 * lower <= rank /\ rank < 10 * lower + 10
    <2>1. rank \in Nat
      BY <1>0
    <2> HIDE DEF rank
    <2> QED
      BY <2>1
  <1>2. lower < n
    <2>1. rank \in Nat /\ rank = 9 * n - 9
      BY <1>0, <1>1
    <2> HIDE DEF lower, rank
    <2> QED
      BY <1>0, <1>1, <2>1
  <1>3. upper \in Nat /\ lower <= upper /\ upper <= lower + 1 /\ upper < n
    <2>1. lower + 1 \in Nat /\ n - 1 \in Nat
      BY <1>0, <1>1
    <2> HIDE DEF lower
    <2>2. {lower + 1, n - 1} \in SUBSET Nat
      BY <2>1
    <2>3. upper \in {lower + 1, n - 1} /\ \A y \in {lower + 1, n - 1} : upper <= y
      BY <2>2, MinFacts
    <2> QED
      BY <1>0, <1>1, <1>2, <2>1, <2>3
  <1>4. p = 10 * low + (rank % 10) * (high - low)
    BY DEF P90, n
  <1> HIDE DEF rank, lower, upper, p
  <1>5. /\ low \in Nat /\ Cardinality(UpTo(w, low)) > lower
        /\ \A y \in Nat : Cardinality(UpTo(w, y)) > lower => low <= y
    BY <1>1, <1>2, OrderedFacts DEF n
  <1>6. /\ high \in Nat /\ Cardinality(UpTo(w, high)) > upper
        /\ Cardinality(Below(w, high)) <= upper
    BY <1>3, OrderedFacts DEF n
  <1> HIDE DEF low, high
  <1>7. low <= high
    <2>1. Cardinality(UpTo(w, high)) \in Nat
      BY <1>6, PositionFacts
    <2>2. Cardinality(UpTo(w, high)) > lower
      BY <1>1, <1>3, <1>6, <2>1
    <2> QED
      BY <1>5, <1>6, <2>2
  <1>8. p \in Nat /\ p >= 10 * low /\ p <= 10 * high
    <2> DEFINE d == high - low
    <2>1. d \in Nat /\ high = low + d
      BY <1>5, <1>6, <1>7
    <2> HIDE DEF d
    <2>2. (rank % 10) * d \in Nat /\ (rank % 10) * d <= 10 * d
      BY <1>1, <2>1, DigitTimes
    <2>3. p = 10 * low + (rank % 10) * d
      BY <1>4 DEF d
    <2> DEFINE q == (rank % 10) * d
    <2> HIDE DEF q
    <2>4. q \in Nat /\ q <= 10 * d /\ p = 10 * low + q
      BY <2>2, <2>3 DEF q
    <2> QED
      BY <1>5, <2>1, <2>4
  <1>9. 10 * Cardinality(above) <= n + 8
    <2>1. above \in SUBSET (DOMAIN w \ UpTo(w, low))
      BY <1>0, <1>5, <1>8 DEF UpTo
    <2>2. /\ IsFiniteSet(DOMAIN w) /\ Cardinality(DOMAIN w) = n
          /\ IsFiniteSet(UpTo(w, low)) /\ Cardinality(UpTo(w, low)) \in Nat
      BY <1>5, PositionFacts DEF n
    <2>3. UpTo(w, low) \in SUBSET DOMAIN w
      BY DEF UpTo
    <2>4. /\ IsFiniteSet(DOMAIN w \ UpTo(w, low))
          /\ Cardinality(DOMAIN w \ UpTo(w, low)) = n - Cardinality(UpTo(w, low))
      <3>1. DOMAIN w \cap UpTo(w, low) = UpTo(w, low)
        BY <2>3
      <3> QED
        BY <2>2, <3>1, FS_Difference
    <2>5. /\ Cardinality(above) <= Cardinality(DOMAIN w \ UpTo(w, low))
          /\ Cardinality(above) \in Nat
      <3> HIDE DEF above
      <3> QED
        BY <2>1, <2>4, FS_Subset, FS_CardinalityType
    <2> QED
      BY <1>0, <1>1, <1>5, <2>2, <2>4, <2>5 DEF rank
  <1>10. 10 * Cardinality(below) <= 9 * (n - 1) + 10
    <2>1. below \in SUBSET Below(w, high)
      BY <1>0, <1>6, <1>8 DEF Below
    <2>2. IsFiniteSet(Below(w, high)) /\ Cardinality(Below(w, high)) \in Nat
      BY <1>6, PositionFacts
    <2>3. /\ Cardinality(below) <= Cardinality(Below(w, high))
          /\ Cardinality(below) \in Nat
      <3> HIDE DEF below
      <3> QED
        BY <2>1, <2>2, FS_Subset, FS_CardinalityType
    <2> QED
      BY <1>0, <1>1, <1>3, <1>6, <2>2, <2>3 DEF rank
  <1> QED
    BY <1>8, <1>9, <1>10 DEF p, n

-----------------------------------------------------------------------------
(* Types *)

\* One more sample: the last WindowSize samples are kept, in their order.
LEMMA Append1Facts ==
    ASSUME NEW w \in Seq(Nat), Len(w) <= WindowSize, NEW d \in Nat
    PROVE  LET v == Append1(w, d)
               k == Len(w) + 1 - Len(v)
           IN  /\ v \in Seq(Nat) /\ Len(v) >= 1
               /\ Len(v) = IF Len(w) < WindowSize THEN Len(w) + 1 ELSE WindowSize
               /\ v[Len(v)] = d
               /\ \A i \in 1 .. Len(v) - 1 : i + k \in 1 .. Len(w) /\ v[i] = w[i + k]
  <1> DEFINE all == Append(w, d)
             m == Max({1, Len(all) - WindowSize + 1})
  <1>0. WindowSize \in Nat /\ WindowSize >= 1 /\ Len(w) \in Nat
    BY HistoryAssumption
  <1>1. /\ all \in Seq(Nat) /\ Len(all) = Len(w) + 1
        /\ all[Len(w) + 1] = d /\ \A i \in 1..Len(w) : all[i] = w[i]
    OBVIOUS
  <1> HIDE DEF all
  <1>2. m = IF Len(w) < WindowSize THEN 1 ELSE 2
    <2> DEFINE x == Len(all) - WindowSize + 1
    <2>1. x \in Int /\ (IF Len(w) < WindowSize THEN x <= 1 ELSE x = 2)
      BY <1>0, <1>1
    <2> HIDE DEF x
    <2>2. \E y \in {1, x} : \A z \in {1, x} : y >= z
      BY <2>1
    <2>3. Max({1, x}) \in {1, x} /\ \A z \in {1, x} : Max({1, x}) >= z
      BY <2>2 DEF Max
    <2>4. Max({1, x}) = IF Len(w) < WindowSize THEN 1 ELSE 2
      BY <2>1, <2>3
    <2> QED
      BY <2>4 DEF x
  <1>3. Append1(w, d) = SubSeq(all, m, Len(all))
    BY DEF Append1, all
  <1> HIDE DEF m
  <1>4. m \in 1..2 /\ m <= Len(all)
    BY <1>0, <1>1, <1>2
  <1> DEFINE v == SubSeq(all, m, Len(all))
  <1>5. /\ v \in Seq(Nat) /\ Len(v) = Len(all) - m + 1
        /\ \A i \in 1..Len(v) : v[i] = all[m + i - 1]
    BY <1>0, <1>1, <1>4
  <1> HIDE DEF v
  <1>6. /\ Len(v) >= 1
        /\ Len(v) = IF Len(w) < WindowSize THEN Len(w) + 1 ELSE WindowSize
    BY <1>0, <1>1, <1>2, <1>5
  <1>7. v[Len(v)] = d
    <2>1. Len(v) \in 1..Len(v) /\ m + Len(v) - 1 = Len(w) + 1
      BY <1>0, <1>1, <1>4, <1>5, <1>6
    <2>2. v[Len(v)] = all[m + Len(v) - 1]
      BY <1>5, <2>1
    <2> QED
      BY <1>1, <2>1, <2>2
  <1>8. ASSUME NEW i \in 1 .. Len(v) - 1
        PROVE  /\ i + (Len(w) + 1 - Len(v)) \in 1 .. Len(w)
               /\ v[i] = w[i + (Len(w) + 1 - Len(v))]
    <2>0. m \in Nat /\ m >= 1 /\ Len(v) = Len(w) + 2 - m /\ Len(v) \in Nat
      BY <1>0, <1>1, <1>4, <1>5
    <2>1. m + i - 1 = i + (Len(w) + 1 - Len(v)) /\ m + i - 1 \in 1..Len(w) /\ i \in 1..Len(v)
      BY <1>0, <2>0
    <2> QED
      BY <1>1, <1>5, <2>1
  <1> QED
    BY <1>3, <1>5, <1>6, <1>7, <1>8 DEF v

\* What the stage of a call says of its record, n restarts into the run.
CallFine(R, n) ==
    /\ R.pc \in {"chosen", "running", "ended", "recording", "lost"} => R.sig \in Signatures
    /\ R.pc = "chosen" => R.promoted
    /\ R.pc \notin {"over", "failing", "unstored"} => R.duration = -1
    /\ R.pc \in {"asking", "chosen", "running"} => R.session # NoSession
    /\ R.epoch <= n

\* TypeOK with the windows' types and the stages of the calls.
Typed ==
    /\ TypeOK
    /\ window \in [Signatures -> Seq(Nat)]
    /\ \A c \in Calls : CallFine(call[c], restarts)

\* The types of what a step on a call or an agent needs.
LEMMA TypeFacts ==
    ASSUME Typed
    PROVE  /\ refcount \in [Targets -> Nat]
           /\ owner \in [Targets -> Sessions \cup {NoSession, ProcessSession}]
           /\ identity \in Sessions \cup {NoSession} /\ session \in Sessions \cup {NoSession}
           /\ row \in [Signatures -> [count: Nat, p90: Nat]]
           /\ window \in [Signatures -> Seq(Nat)]
           /\ \A sig \in Signatures : Len(window[sig]) <= WindowSize
           /\ disabled \in BOOLEAN /\ restarts \in 0..MaxRestarts /\ restarts \in Nat
           /\ call \in [Calls -> CallRecords] /\ agent \in [Agents -> AgentRecords]
           /\ CurrentSession \in Sessions \cup {ProcessSession}
  BY TargetsAssumption DEF Typed, TypeOK, CurrentSession

\* A registration and a release keep the registry's types.
LEMMA RegisterTypes ==
    ASSUME Typed, NEW t \in Targets, NEW s \in Sessions \cup {ProcessSession}, Register(t, s)
    PROVE  /\ refcount' \in [Targets -> Nat]
           /\ owner' \in [Targets -> Sessions \cup {NoSession, ProcessSession}]
  BY TypeFacts DEF Register

\* A release takes one off the count of its target, if there is one, and keeps the types.
LEMMA ReleaseTypes ==
    ASSUME Typed, NEW t \in Targets, Release(t)
    PROVE  /\ refcount' \in [Targets -> Nat]
           /\ owner' \in [Targets -> Sessions \cup {NoSession, ProcessSession}]
           /\ refcount' = [refcount EXCEPT ![t] = IF @ = 0 THEN 0 ELSE @ - 1]
  <1>0. /\ refcount \in [Targets -> Nat] /\ refcount[t] \in Nat
        /\ owner \in [Targets -> Sessions \cup {NoSession, ProcessSession}]
    BY TypeFacts
  <1>1. Max({0, refcount[t] - 1}) = IF refcount[t] = 0 THEN 0 ELSE refcount[t] - 1
    <2> DEFINE x == refcount[t] - 1
    <2>1. x \in Int /\ (IF refcount[t] = 0 THEN x = -1 ELSE x >= 0)
      BY <1>0
    <2> HIDE DEF x
    <2>2. \E y \in {0, x} : \A z \in {0, x} : y >= z
      BY <2>1
    <2>3. Max({0, x}) \in {0, x} /\ \A z \in {0, x} : Max({0, x}) >= z
      BY <2>2 DEF Max
    <2>4. Max({0, x}) = IF refcount[t] = 0 THEN 0 ELSE x
      BY <2>1, <2>3
    <2> QED
      BY <2>4 DEF x
  <1>2. refcount' = [refcount EXCEPT ![t] = IF @ = 0 THEN 0 ELSE @ - 1]
    BY <1>1 DEF Release
  <1>3. owner' \in [Targets -> Sessions \cup {NoSession, ProcessSession}]
    BY <1>0 DEF Release
  <1>4. (IF refcount[t] = 0 THEN 0 ELSE refcount[t] - 1) \in Nat
    BY <1>0
  <1>5. refcount' \in [Targets -> Nat]
    BY <1>0, <1>2, <1>4
  <1> QED
    BY <1>2, <1>3, <1>5

\* A step that changes one call's record, the registry or the history, each within
\* its type, keeps the types.
LEMMA CallTypes ==
    ASSUME Typed, NEW c \in Calls, NEW R \in CallRecords, CallFine(R, restarts),
           call' = [call EXCEPT ![c] = R], agent' = agent, session' = session,
           restarts' = restarts,
           refcount' \in [Targets -> Nat],
           owner' \in [Targets -> Sessions \cup {NoSession, ProcessSession}],
           identity' \in Sessions \cup {NoSession},
           window' \in [Signatures -> Seq(Nat)],
           \A sig \in Signatures : Len(window'[sig]) <= WindowSize,
           row' \in [Signatures -> [count: Nat, p90: Nat]], disabled' \in BOOLEAN
    PROVE  Typed'
  <1>1. call \in [Calls -> CallRecords] /\ \A d \in Calls : CallFine(call[d], restarts)
    BY TypeFacts DEF Typed
  <1>2. call' \in [Calls -> CallRecords] /\ \A d \in Calls : CallFine(call'[d], restarts)
    BY <1>1
  <1>3. TypeOK'
    BY <1>2, TypeFacts DEF TypeOK
  <1>4. \A d \in Calls : CallFine(call[d], restarts)'
    BY <1>2 DEF CallFine
  <1> QED
    BY <1>3, <1>4 DEF Typed

\* The records a call goes through.
LEMMA RecordFacts ==
    ASSUME Typed, NEW c \in Calls
    PROVE  /\ call[c] \in CallRecords /\ CallFine(call[c], restarts)
           /\ NewCall \in CallRecords /\ Over \in CallRecords /\ CallFine(Over, restarts)
           /\ call[c].pc = "chosen" =>
                LET R == [call[c] EXCEPT !.pc = "running"]
                IN  R \in CallRecords /\ CallFine(R, restarts)
           /\ call[c].pc = "running" =>
                \A x \in {"ended", "lost"} :
                    LET R == [call[c] EXCEPT !.pc = x]
                    IN  R \in CallRecords /\ CallFine(R, restarts)
  <1>1. /\ call[c] \in CallRecords /\ CallFine(call[c], restarts)
        /\ restarts \in Nat /\ 0 \in 0..MaxRestarts
    BY TypeFacts, TargetsAssumption DEF Typed
  <1>2. NewCall \in CallRecords
    BY <1>1 DEF NewCall, CallRecords, CallStates
  <1>3. Over \in CallRecords /\ Over.pc = "over" /\ Over.epoch = 0
    BY <1>1, <1>2 DEF Over, NewCall, CallRecords, CallStates
  <1>4. CallFine(Over, restarts)
    BY <1>1, <1>3 DEF CallFine
  <1>5. ASSUME NEW x \in {"running", "ended", "lost"}
        PROVE  LET R == [call[c] EXCEPT !.pc = x]
               IN  /\ R \in CallRecords /\ R.pc = x /\ R.sig = call[c].sig
                   /\ R.session = call[c].session /\ R.duration = call[c].duration
                   /\ R.epoch = call[c].epoch /\ R.promoted = call[c].promoted
    BY <1>1 DEF CallRecords, CallStates
  <1>6. call[c].pc = "chosen" =>
           LET R == [call[c] EXCEPT !.pc = "running"]
           IN  R \in CallRecords /\ CallFine(R, restarts)
    BY <1>1, <1>5 DEF CallFine
  <1>7. call[c].pc = "running" =>
           \A x \in {"ended", "lost"} :
               LET R == [call[c] EXCEPT !.pc = x]
               IN  R \in CallRecords /\ CallFine(R, restarts)
    BY <1>1, <1>5 DEF CallFine
  <1> QED
    BY <1>1, <1>2, <1>3, <1>4, <1>6, <1>7

\* The steps of a call that leave the registry alone: before it is classified, and
\* after post_tool_call released its target.
QuietStep(c) ==
    \/ AskHistory(c) \/ \E args \in Args, read \in BOOLEAN : ToolRequest(c, args, read)
    \/ CheckHistory(c) \/ NotRecorded(c) \/ Disable(c)
    \/ \E d \in Durations : Record(c, d) \/ RecordFails(c, d)

\* What such a step does with the call's record: R keeps the session that asked, is
\* no promoted work yet, and starts only a call that may start.
QuietRecord(c, R) ==
    /\ CallFine(R, restarts)
    /\ call[c].pc \notin {"chosen", "running", "lost"}
    /\ R.pc # "lost"
    /\ R.pc = "running" => ~R.promoted
    /\ R.pc \in {"chosen", "running"} => MayCall(R.sig)
    /\ R.pc \in {"asking", "chosen", "running"} =>
          R.session = IF call[c].pc = "asking" THEN call[c].session ELSE session
    /\ call[c].pc \notin {"recording", "failing"} => R.duration = -1

\* Only the call's record and the history move.
LEMMA QuietKeeps ==
    ASSUME NEW c \in Calls, QuietStep(c)
    PROVE  /\ refcount' = refcount /\ owner' = owner /\ identity' = identity
           /\ agent' = agent /\ session' = session /\ restarts' = restarts
  BY DEF QuietStep, AskHistory, ToolRequest, CheckHistory, NotRecorded, Disable, Record,
         RecordFails, registry

\* The record such a step leaves.
LEMMA QuietMoves ==
    ASSUME Typed, NEW c \in Calls, QuietStep(c)
    PROVE  \E R \in CallRecords : call' = [call EXCEPT ![c] = R] /\ QuietRecord(c, R)
  <1>0. /\ call[c] \in CallRecords /\ CallFine(call[c], restarts)
        /\ NewCall \in CallRecords /\ Over \in CallRecords /\ CallFine(Over, restarts)
        /\ session \in Sessions \cup {NoSession}
        /\ restarts \in Nat /\ restarts \in 0..MaxRestarts
    BY RecordFacts, TypeFacts
  <1>1. CASE AskHistory(c)
    <2> DEFINE R == [NewCall EXCEPT !.pc = "asking", !.session = session]
    <2>1. call' = [call EXCEPT ![c] = R] /\ call[c].pc = "idle" /\ session # NoSession
      BY <1>1 DEF AskHistory
    <2>2. R \in CallRecords /\ R.pc = "asking" /\ R.session = session
          /\ R.duration = -1 /\ R.epoch = 0
      BY <1>0 DEF CallRecords, CallStates, NewCall
    <2> HIDE DEF R
    <2>3. QuietRecord(c, R)
      BY <1>0, <2>1, <2>2 DEF QuietRecord, CallFine
    <2> QED
      BY <2>1, <2>2, <2>3
  <1>2. ASSUME NEW args \in Args, NEW read \in BOOLEAN, ToolRequest(c, args, read)
        PROVE  \E R \in CallRecords : call' = [call EXCEPT ![c] = R] /\ QuietRecord(c, R)
    <2> DEFINE sig == NormalizeSignature(args.command)
               asked == call[c].pc = "asking" /\ sig # NoSignature
               long == Classify(args, IF asked /\ read THEN row[sig] ELSE NoRow)
               s == IF call[c].pc = "asking" THEN call[c].session ELSE session
               R == [NewCall EXCEPT !.pc = IF long THEN "chosen" ELSE "running",
                                    !.sig = sig, !.promoted = long, !.session = s]
    <2>1. sig \in Signatures
      BY DEF Args, Signatures
    <2>2. long \in BOOLEAN
      BY DEF Classify
    <2>3. /\ call' = [call EXCEPT ![c] = R] /\ MayCall(sig)
          /\ call[c].pc = "asking" \/ (call[c].pc = "idle" /\ session # NoSession)
      BY <1>2 DEF ToolRequest
    <2> HIDE DEF sig, long
    <2>4. s \in Sessions \cup {NoSession} /\ s # NoSession
      BY <1>0, <2>3 DEF CallFine, CallRecords
    <2>5. s = IF call[c].pc = "asking" THEN call[c].session ELSE session
      OBVIOUS
    <2> HIDE DEF s
    <2>6. /\ R \in CallRecords /\ R.pc = (IF long THEN "chosen" ELSE "running")
          /\ R.sig = sig /\ R.promoted = long /\ R.session = s
          /\ R.duration = -1 /\ R.epoch = 0
      BY <1>0, <2>1, <2>2, <2>4 DEF CallRecords, CallStates, NewCall
    <2> HIDE DEF R
    <2>7. CallFine(R, restarts)
      BY <1>0, <2>1, <2>2, <2>4, <2>6 DEF CallFine
    <2>8. QuietRecord(c, R)
      BY <2>2, <2>3, <2>5, <2>6, <2>7 DEF QuietRecord
    <2> QED
      BY <2>3, <2>6, <2>8
  <1>3. CASE CheckHistory(c)
    <2> DEFINE R == [call[c] EXCEPT !.pc = "recording"]
    <2>1. /\ call' = [call EXCEPT ![c] = R] /\ call[c].pc = "ended"
          /\ call[c].sig # NoSignature
      BY <1>3 DEF CheckHistory
    <2>2. /\ R \in CallRecords /\ R.pc = "recording" /\ R.sig = call[c].sig
          /\ R.duration = call[c].duration /\ R.epoch = call[c].epoch
      BY <1>0 DEF CallRecords, CallStates
    <2> HIDE DEF R
    <2>3. QuietRecord(c, R)
      BY <1>0, <2>1, <2>2 DEF QuietRecord, CallFine
    <2> QED
      BY <2>1, <2>2, <2>3
  <1>4. CASE NotRecorded(c)
    <2>1. call' = [call EXCEPT ![c] = Over] /\ call[c].pc = "ended"
      BY <1>4 DEF NotRecorded
    <2>2. Over.pc = "over" /\ Over.duration = -1
      BY DEF Over, NewCall
    <2>3. QuietRecord(c, Over)
      BY <1>0, <2>1, <2>2 DEF QuietRecord
    <2> QED
      BY <1>0, <2>1, <2>3
  <1>5. CASE Disable(c)
    <2> DEFINE R == [call[c] EXCEPT !.pc = "unstored"]
    <2>1. call' = [call EXCEPT ![c] = R] /\ call[c].pc = "failing"
      BY <1>5 DEF Disable
    <2>2. R \in CallRecords /\ R.pc = "unstored" /\ R.epoch = call[c].epoch
      BY <1>0 DEF CallRecords, CallStates
    <2> HIDE DEF R
    <2>3. QuietRecord(c, R)
      BY <1>0, <2>1, <2>2 DEF QuietRecord, CallFine
    <2> QED
      BY <2>1, <2>2, <2>3
  <1>6. ASSUME NEW d \in Durations, Record(c, d) \/ RecordFails(c, d)
        PROVE  \E R \in CallRecords : call' = [call EXCEPT ![c] = R] /\ QuietRecord(c, R)
    <2>1. PICK x \in {"over", "failing"} :
             call' = [call EXCEPT ![c] = [Over EXCEPT !.pc = x, !.sig = call[c].sig,
                                                      !.duration = d, !.epoch = restarts]]
      <3>1. [Over EXCEPT !.sig = call[c].sig, !.duration = d, !.epoch = restarts]
              = [Over EXCEPT !.pc = "over", !.sig = call[c].sig, !.duration = d,
                             !.epoch = restarts]
        BY <1>0 DEF Over, NewCall
      <3> QED
        BY <1>6, <3>1 DEF Record, RecordFails
    <2> DEFINE R == [Over EXCEPT !.pc = x, !.sig = call[c].sig, !.duration = d,
                                 !.epoch = restarts]
    <2>2. call' = [call EXCEPT ![c] = R] /\ call[c].pc = "recording"
      BY <1>6, <2>1 DEF Record, RecordFails
    <2>3. R \in CallRecords /\ R.pc = x /\ R.epoch = restarts
      BY <1>0 DEF CallRecords, CallStates, Over, NewCall
    <2> HIDE DEF R
    <2>4. QuietRecord(c, R)
      BY <1>0, <2>2, <2>3 DEF QuietRecord, CallFine
    <2> QED
      BY <2>2, <2>3, <2>4
  <1> QED
    BY <1>1, <1>2, <1>3, <1>4, <1>5, <1>6 DEF QuietStep

\* The steps of a call while it is under way.
LEMMA CallStepTyped ==
    ASSUME Typed, NEW c \in Calls, RegisterProcess(c) \/ PostToolCall(c) \/ CallLost(c)
    PROVE  Typed'
  <1>0. call[c].pc \in {"chosen", "running"} => ProcessTarget(call[c].sig) \in Targets
    BY RecordFacts DEF CallFine, Targets
  <1>1. CASE RegisterProcess(c)
    <2> DEFINE R == [call[c] EXCEPT !.pc = "running"]
    <2>1. /\ call' = [call EXCEPT ![c] = R] /\ call[c].pc = "chosen"
          /\ Register(ProcessTarget(call[c].sig), CurrentSession)
          /\ window' = window /\ row' = row /\ disabled' = disabled
          /\ identity' = identity /\ agent' = agent /\ session' = session
          /\ restarts' = restarts
      BY <1>1 DEF RegisterProcess, history
    <2>2. R \in CallRecords /\ CallFine(R, restarts)
      BY <2>1, RecordFacts
    <2> HIDE DEF R
    <2>3. /\ refcount' \in [Targets -> Nat]
          /\ owner' \in [Targets -> Sessions \cup {NoSession, ProcessSession}]
      BY <1>0, <2>1, RegisterTypes, TypeFacts
    <2> QED
      BY <2>1, <2>2, <2>3, CallTypes, TypeFacts
  <1>2. CASE PostToolCall(c)
    <2> DEFINE R == [call[c] EXCEPT !.pc = "ended"]
    <2>1. /\ call' = [call EXCEPT ![c] = R] /\ call[c].pc = "running"
          /\ Release(ProcessTarget(call[c].sig)) /\ identity' = call[c].session
          /\ window' = window /\ row' = row /\ disabled' = disabled
          /\ agent' = agent /\ session' = session /\ restarts' = restarts
      BY <1>2 DEF PostToolCall, history
    <2>2. R \in CallRecords /\ CallFine(R, restarts)
      BY <2>1, RecordFacts
    <2> HIDE DEF R
    <2>3. /\ refcount' \in [Targets -> Nat]
          /\ owner' \in [Targets -> Sessions \cup {NoSession, ProcessSession}]
      BY <1>0, <2>1, ReleaseTypes
    <2>4. identity' \in Sessions \cup {NoSession}
      BY <2>1, RecordFacts DEF CallRecords
    <2> QED
      BY <2>1, <2>2, <2>3, <2>4, CallTypes, TypeFacts
  <1>4. CASE CallLost(c)
    <2> DEFINE R == [call[c] EXCEPT !.pc = "lost"]
    <2>1. /\ call' = [call EXCEPT ![c] = R] /\ call[c].pc = "running"
          /\ refcount' = refcount /\ owner' = owner /\ window' = window /\ row' = row
          /\ disabled' = disabled /\ identity' = identity /\ agent' = agent
          /\ session' = session /\ restarts' = restarts
      BY <1>4 DEF CallLost, registry, history
    <2>2. R \in CallRecords /\ CallFine(R, restarts)
      BY <2>1, RecordFacts
    <2> HIDE DEF R
    <2> QED
      BY <2>1, <2>2, CallTypes, TypeFacts
  <1> QED
    BY <1>1, <1>2, <1>4

\* A sample is added to the window of the call's signature.
LEMMA WindowTypes ==
    ASSUME Typed, NEW sig \in Signatures, NEW d \in Durations,
           window' = [window EXCEPT ![sig] = Append1(@, d)]
    PROVE  /\ window' \in [Signatures -> Seq(Nat)]
           /\ \A s \in Signatures : Len(window'[s]) <= WindowSize
           /\ P90(Append1(window[sig], d)) \in Nat
  <1>0. /\ window \in [Signatures -> Seq(Nat)] /\ window[sig] \in Seq(Nat)
        /\ \A s \in Signatures : Len(window[s]) <= WindowSize
        /\ d \in Nat
    BY TypeFacts, TargetsAssumption
  <1> DEFINE v == Append1(window[sig], d)
  <1>1. /\ v \in Seq(Nat) /\ Len(v) >= 1
        /\ Len(v) = IF Len(window[sig]) < WindowSize THEN Len(window[sig]) + 1
                    ELSE WindowSize
    BY <1>0, Append1Facts
  <1> HIDE DEF v
  <1>2. P90(v) \in Nat
    BY <1>1, P90Facts
  <1>3. Len(v) <= WindowSize
    BY <1>0, <1>1, HistoryAssumption
  <1>4. window' = [window EXCEPT ![sig] = v]
    BY DEF v
  <1>5. window' \in [Signatures -> Seq(Nat)]
    BY <1>0, <1>1, <1>4
  <1>6. ASSUME NEW s \in Signatures PROVE Len(window'[s]) <= WindowSize
    <2>1. window'[s] = IF s = sig THEN v ELSE window[s]
      BY <1>0, <1>4
    <2> QED
      BY <1>0, <1>3, <2>1
  <1> QED
    BY <1>2, <1>5, <1>6 DEF v

\* The history keeps its types: a sample is recorded, or its row is refused.
LEMMA HistoryTypes ==
    ASSUME Typed, NEW c \in Calls, QuietStep(c)
    PROVE  /\ window' \in [Signatures -> Seq(Nat)]
           /\ \A sig \in Signatures : Len(window'[sig]) <= WindowSize
           /\ row' \in [Signatures -> [count: Nat, p90: Nat]] /\ disabled' \in BOOLEAN
  <1>0. /\ window \in [Signatures -> Seq(Nat)]
        /\ \A sig \in Signatures : Len(window[sig]) <= WindowSize
        /\ row \in [Signatures -> [count: Nat, p90: Nat]] /\ disabled \in BOOLEAN
    BY TypeFacts
  <1>1. CASE AskHistory(c) \/ CheckHistory(c) \/ NotRecorded(c)
    BY <1>0, <1>1 DEF AskHistory, CheckHistory, NotRecorded, history
  <1>2. CASE Disable(c)
    BY <1>0, <1>2 DEF Disable
  <1>3. ASSUME NEW args \in Args, NEW read \in BOOLEAN, ToolRequest(c, args, read)
        PROVE  window' = window /\ row' = row /\ disabled' \in BOOLEAN
    BY <1>0, <1>3 DEF ToolRequest
  <1>4. ASSUME NEW d \in Durations, Record(c, d) \/ RecordFails(c, d)
        PROVE  /\ window' \in [Signatures -> Seq(Nat)]
               /\ \A sig \in Signatures : Len(window'[sig]) <= WindowSize
               /\ row' \in [Signatures -> [count: Nat, p90: Nat]] /\ disabled' = disabled
    <2> DEFINE sig == call[c].sig
               w == Append1(window[sig], d)
    <2>1. /\ sig \in Signatures /\ window' = [window EXCEPT ![sig] = w]
          /\ row' \in {row, [row EXCEPT ![sig] = Upserted(@, w)]} /\ disabled' = disabled
      BY <1>4, RecordFacts DEF Record, RecordFails, CallFine
    <2> HIDE DEF sig
    <2>2. /\ window' \in [Signatures -> Seq(Nat)]
          /\ \A s \in Signatures : Len(window'[s]) <= WindowSize
          /\ P90(w) \in Nat
      BY <2>1, WindowTypes
    <2> HIDE DEF w
    <2>3. row[sig].count + 1 \in Nat
      BY <1>0, <2>1
    <2>4. Upserted(row[sig], w) \in [count: Nat, p90: Nat]
      BY <2>2, <2>3 DEF Upserted
    <2>5. row' \in [Signatures -> [count: Nat, p90: Nat]]
      BY <1>0, <2>1, <2>4
    <2> QED
      BY <2>1, <2>2, <2>5
  <1> QED
    BY <1>0, <1>1, <1>2, <1>3, <1>4 DEF QuietStep

\* The steps that leave the registry alone keep the types.
LEMMA QuietTyped ==
    ASSUME Typed, NEW c \in Calls, QuietStep(c)
    PROVE  Typed'
  <1>1. PICK R \in CallRecords : call' = [call EXCEPT ![c] = R] /\ QuietRecord(c, R)
    BY QuietMoves
  <1>2. CallFine(R, restarts)
    BY <1>1 DEF QuietRecord
  <1>3. /\ refcount' \in [Targets -> Nat]
        /\ owner' \in [Targets -> Sessions \cup {NoSession, ProcessSession}]
        /\ identity' \in Sessions \cup {NoSession}
    BY QuietKeeps, TypeFacts
  <1> QED
    BY <1>1, <1>2, <1>3, QuietKeeps, HistoryTypes, CallTypes

\* The steps of agents and sessions, and a restart.
LEMMA AgentStepTyped ==
    ASSUME Typed, NEW a \in Agents, SubagentStart(a) \/ SubagentStop(a)
    PROVE  Typed'
  <1>0. /\ AgentTarget(a) \in Targets /\ NamelessTarget(a) \in Targets
        /\ agent \in [Agents -> AgentRecords] /\ session \in Sessions \cup {NoSession}
        /\ identity \in Sessions \cup {NoSession}
    BY TypeFacts DEF Targets
  <1>1. /\ refcount' \in [Targets -> Nat]
        /\ owner' \in [Targets -> Sessions \cup {NoSession, ProcessSession}]
        /\ identity' \in Sessions \cup {NoSession}
        /\ agent' \in [Agents -> AgentRecords]
    <2>1. CASE SubagentStart(a)
      <3> DEFINE t == IF a \in Nameless THEN NamelessTarget(a) ELSE AgentTarget(a)
      <3>1. /\ t \in Targets /\ session \in Sessions \cup {ProcessSession}
            /\ Register(t, session)
            /\ identity' = session
            /\ agent' = [agent EXCEPT ![a] = [pc |-> "running", parent |-> session]]
        BY <1>0, <2>1 DEF SubagentStart
      <3> HIDE DEF t
      <3>2. [pc |-> "running", parent |-> session] \in AgentRecords
        BY <1>0 DEF AgentRecords, AgentStates
      <3>3. agent' \in [Agents -> AgentRecords]
        BY <1>0, <3>1, <3>2
      <3> QED
        BY <1>0, <3>1, <3>3, RegisterTypes
    <2>2. CASE SubagentStop(a)
      <3>1. /\ Release(AgentTarget(a)) /\ identity' = identity
            /\ agent' = [agent EXCEPT ![a] = [NewAgent EXCEPT !.pc = "over"]]
        BY <2>2 DEF SubagentStop
      <3>2. [NewAgent EXCEPT !.pc = "over"] \in AgentRecords
        BY DEF AgentRecords, AgentStates, NewAgent
      <3>3. agent' \in [Agents -> AgentRecords]
        BY <1>0, <3>1, <3>2
      <3> QED
        BY <1>0, <3>1, <3>3, ReleaseTypes
    <2> QED
      BY <2>1, <2>2
  <1>2. /\ window' = window /\ row' = row /\ disabled' = disabled /\ call' = call
        /\ session' = session /\ restarts' = restarts
    BY DEF SubagentStart, SubagentStop, history
  <1>3. TypeOK'
    BY <1>1, <1>2 DEF TypeOK, Typed
  <1> QED
    BY <1>2, <1>3 DEF Typed

\* A restart of the agent keeps the types.
LEMMA RestartTyped ==
    ASSUME Typed, Restart
    PROVE  Typed'
  <1>1. /\ restarts \in Nat /\ restarts' = restarts + 1 /\ restarts' \in 0..MaxRestarts
        /\ call \in [Calls -> CallRecords] /\ agent \in [Agents -> AgentRecords]
        /\ \A c \in Calls : CallFine(call[c], restarts)
    BY TypeFacts, TargetsAssumption DEF Restart, Typed
  <1>2. /\ refcount' \in [Targets -> Nat]
        /\ owner' \in [Targets -> Sessions \cup {NoSession, ProcessSession}]
        /\ identity' = NoSession /\ session' = NoSession
        /\ disabled' \in BOOLEAN /\ row' = row
    BY DEF Restart
  <1>3. /\ window' \in [Signatures -> Seq(Nat)]
        /\ \A sig \in Signatures : Len(window'[sig]) <= WindowSize
    BY HistoryAssumption DEF Restart
  <1>4. /\ call' \in [Calls -> CallRecords]
        /\ \A c \in Calls : CallFine(call'[c], restarts')
    <2>1. ASSUME NEW c \in Calls
          PROVE  call'[c] \in CallRecords /\ CallFine(call'[c], restarts')
      <3>1. call'[c] \in {call[c], Over}
        BY DEF Restart
      <3>2. /\ call[c] \in CallRecords /\ CallFine(call[c], restarts)
            /\ Over \in CallRecords /\ CallFine(Over, restarts)
        BY RecordFacts
      <3>3. \A R \in CallRecords : CallFine(R, restarts) => CallFine(R, restarts')
        BY <1>1, TargetsAssumption DEF CallFine, CallRecords
      <3> QED
        BY <3>1, <3>2, <3>3
    <2>2. call' = [c \in Calls |-> call'[c]]
      BY DEF Restart
    <2> QED
      BY <2>1, <2>2
  <1>5. agent' \in [Agents -> AgentRecords]
    <2>1. [NewAgent EXCEPT !.pc = "over"] \in AgentRecords
      BY DEF AgentRecords, AgentStates, NewAgent
    <2> QED
      BY <1>1, <2>1 DEF Restart
  <1>6. TypeOK'
    BY <1>1, <1>2, <1>3, <1>4, <1>5 DEF TypeOK, Typed
  <1>7. \A c \in Calls : CallFine(call[c], restarts)'
    BY <1>4
  <1> QED
    BY <1>3, <1>6, <1>7 DEF Typed

\* The agent starts with the types.
LEMMA TypedInit ==
    ASSUME Init
    PROVE  Typed
  <1>1. NewCall \in CallRecords /\ NewAgent \in AgentRecords /\ NoRow \in [count: Nat, p90: Nat]
    BY TargetsAssumption
       DEF CallRecords, CallStates, NewCall, AgentRecords, AgentStates, NewAgent, NoRow
  <1>2. CallFine(NewCall, 0)
    BY DEF CallFine, NewCall
  <1>3. TypeOK
    <2>1. \A sig \in Signatures : Len(window[sig]) <= WindowSize
      BY HistoryAssumption DEF Init
    <2>2. row \in [Signatures -> [count: Nat, p90: Nat]]
      BY <1>1, Zenon DEF Init
    <2>3. restarts \in 0..MaxRestarts
      BY TargetsAssumption DEF Init
    <2>4. call \in [Calls -> CallRecords] /\ agent \in [Agents -> AgentRecords]
      BY <1>1 DEF Init
    <2>5. /\ refcount \in [Targets -> Nat]
          /\ owner \in [Targets -> Sessions \cup {NoSession, ProcessSession}]
      BY DEF Init
    <2> QED
      BY <2>1, <2>2, <2>3, <2>4, <2>5 DEF Init, TypeOK
  <1>4. window \in [Signatures -> Seq(Nat)] /\ \A c \in Calls : CallFine(call[c], restarts)
    BY <1>2 DEF Init
  <1> QED
    BY <1>3, <1>4 DEF Typed

\* Every step keeps the types.
LEMMA TypedNext ==
    ASSUME Typed, [Next]_vars
    PROVE  Typed'
  <1>1. CASE UNCHANGED vars
    BY <1>1 DEF vars, Typed, TypeOK
  <1>2. ASSUME NEW c \in Calls, CallStep(c)
        PROVE  Typed'
    BY <1>2, CallStepTyped, QuietTyped DEF CallStep, QuietStep
  <1>3. ASSUME NEW a \in Agents, SubagentStart(a) \/ SubagentStop(a)
        PROVE  Typed'
    BY <1>3, AgentStepTyped
  <1>4. ASSUME NEW s \in Sessions, SessionBegins(s)
        PROVE  Typed'
    BY <1>4 DEF SessionBegins, registry, history, Typed, TypeOK
  <1> QED
    BY <1>1, <1>2, <1>3, <1>4, RestartTyped DEF Next

\* Every variable keeps its type, whatever hooks fire from whatever threads: no
\* reference count is negative, no window holds more than WINDOW_SIZE samples and
\* the percentile of a window is a number.
THEOREM TypeCorrect == Spec => []TypeOK
  <1>1. Init => Typed
    BY TypedInit
  <1>2. Typed /\ [Next]_vars => Typed'
    BY TypedNext
  <1>3. Typed => TypeOK
    BY DEF Typed
  <1> QED
    BY <1>1, <1>2, <1>3, PTL DEF Spec

-----------------------------------------------------------------------------
(* The registry counts the work in progress *)

\* The calls and the agents that a target stands for, and those that leak it.
CallWork(t) == {c \in Calls : /\ call[c].pc = "running" /\ call[c].promoted
                              /\ t = ProcessTarget(call[c].sig)}
CallLeaks(t) == {c \in Calls : /\ call[c].pc = "lost" /\ call[c].promoted
                               /\ t = ProcessTarget(call[c].sig)}
AgentWork(t) == {a \in Agents : agent[a].pc = "running" /\ t = TargetOf(a)}
AgentLeaks(t) == {a \in Nameless : agent[a].pc = "over" /\ t = NamelessTarget(a)}

\* A count r between the work and the work and the leaks.
Balance(W, L, r) ==
    /\ Cardinality(W) <= r
    /\ r <= Cardinality(W) + Cardinality(L)

Balanced ==
    \A t \in Targets :
        IF t.kind = "process" THEN Balance(CallWork(t), CallLeaks(t), refcount[t])
        ELSE Balance(AgentWork(t), AgentLeaks(t), refcount[t])

\* The agent waits for a command before it repeats it.
OneUnderWay ==
    \A c, d \in Calls : UnderWay(c) /\ UnderWay(d) /\ call[c].sig = call[d].sig => c = d

Counted == Typed /\ OneUnderWay /\ Balanced

\* Terminal calls are the work of process targets, agents that of the others.
LEMMA WorkByKind ==
    ASSUME NEW t \in Targets
    PROVE  /\ Work(t) = IF t.kind = "process" THEN CallWork(t) ELSE AgentWork(t)
           /\ Leaks(t) = IF t.kind = "process" THEN CallLeaks(t) ELSE AgentLeaks(t)
           /\ IsFiniteSet(CallWork(t)) /\ IsFiniteSet(CallLeaks(t))
           /\ IsFiniteSet(AgentWork(t)) /\ IsFiniteSet(AgentLeaks(t))
  <1>1. \A sig : ProcessTarget(sig).kind = "process"
    BY DEF ProcessTarget
  <1>2. \A a : TargetOf(a).kind # "process" /\ NamelessTarget(a).kind # "process"
    BY DEF TargetOf, NamelessTarget, AgentTarget
  <1>3. /\ CallWork(t) \in SUBSET Calls /\ CallLeaks(t) \in SUBSET Calls
        /\ AgentWork(t) \in SUBSET Agents /\ AgentLeaks(t) \in SUBSET Agents
    BY TargetsAssumption DEF CallWork, CallLeaks, AgentWork, AgentLeaks
  <1>4. /\ IsFiniteSet(CallWork(t)) /\ IsFiniteSet(CallLeaks(t))
        /\ IsFiniteSet(AgentWork(t)) /\ IsFiniteSet(AgentLeaks(t))
    BY <1>3, TargetsAssumption, FS_Subset
  <1>5. /\ Work(t) = CallWork(t) \cup AgentWork(t)
        /\ Leaks(t) = CallLeaks(t) \cup AgentLeaks(t)
    BY Zenon DEF Work, Leaks, CallWork, CallLeaks, AgentWork, AgentLeaks
  <1>6. CASE t.kind = "process"
    <2>1. AgentWork(t) = {} /\ AgentLeaks(t) = {}
      BY <1>2, <1>6 DEF AgentWork, AgentLeaks
    <2> QED
      BY <1>5, <1>6, <1>4, <2>1
  <1>7. CASE t.kind # "process"
    <2>1. CallWork(t) = {} /\ CallLeaks(t) = {}
      BY <1>1, <1>7 DEF CallWork, CallLeaks
    <2> QED
      BY <1>5, <1>7, <1>4, <2>1
  <1> QED
    BY <1>6, <1>7

\* How the balance moves: work is registered, released, lost, or a count that no
\* work holds is released.
LEMMA BalanceSteps ==
    ASSUME NEW W, NEW L, IsFiniteSet(W), IsFiniteSet(L), NEW r \in Nat,
           Balance(W, L, r), NEW x
    PROVE  /\ x \notin W => Balance(W \cup {x}, L, r + 1)
           /\ x \in W => r # 0 /\ Balance(W \ {x}, L, r - 1)
           /\ x \in W /\ x \notin L => Balance(W \ {x}, L \cup {x}, r)
           /\ W = {} => Balance(W, L, IF r = 0 THEN 0 ELSE r - 1)
           /\ (W # {}) => r > 0
           /\ (r > 0 /\ L = {}) => W # {}
  <1> DEFINE w == Cardinality(W)
             l == Cardinality(L)
  <1>1. w \in Nat /\ l \in Nat /\ w <= r /\ r <= w + l
    BY FS_CardinalityType DEF Balance
  <1>2. x \notin W => Cardinality(W \cup {x}) = w + 1
    BY FS_AddElement
  <1>3. x \in W => Cardinality(W \ {x}) = w - 1
    BY FS_RemoveElement
  <1>4. x \notin L => Cardinality(L \cup {x}) = l + 1
    BY FS_AddElement
  <1>5. (W = {}) <=> (w = 0)
    BY FS_EmptySet
  <1>6. (L = {}) <=> (l = 0)
    BY FS_EmptySet
  <1> HIDE DEF w, l
  <1>7. x \notin W => Balance(W \cup {x}, L, r + 1)
    BY <1>1, <1>2 DEF Balance, l
  <1>8. x \in W => r # 0 /\ Balance(W \ {x}, L, r - 1)
    BY <1>1, <1>3, <1>5 DEF Balance, l
  <1>9. x \in W /\ x \notin L => Balance(W \ {x}, L \cup {x}, r)
    BY <1>1, <1>3, <1>4 DEF Balance
  <1>10. W = {} => Balance(W, L, IF r = 0 THEN 0 ELSE r - 1)
    <2>1. ASSUME W = {} PROVE Balance(W, L, IF r = 0 THEN 0 ELSE r - 1)
      <3>1. w = 0 BY <1>5, <2>1
      <3> QED BY <1>1, <3>1 DEF Balance, w, l
    <2> QED BY <2>1
  <1> QED
    BY <1>1, <1>5, <1>6, <1>7, <1>8, <1>9, <1>10

\* The work and the leaks of a target after one call's record changes.
LEMMA CallWorkMoves ==
    ASSUME Typed, NEW c \in Calls, NEW R, call' = [call EXCEPT ![c] = R],
           NEW t \in Targets
    PROVE  /\ CallWork(t)' = (CallWork(t) \ {c})
                \cup (IF R.pc = "running" /\ R.promoted /\ t = ProcessTarget(R.sig)
                      THEN {c} ELSE {})
           /\ CallLeaks(t)' = (CallLeaks(t) \ {c})
                \cup (IF R.pc = "lost" /\ R.promoted /\ t = ProcessTarget(R.sig)
                      THEN {c} ELSE {})
  <1>1. \A d \in Calls : call'[d] = IF d = c THEN R ELSE call[d]
    BY TypeFacts
  <1> QED
    BY <1>1, Zenon DEF CallWork, CallLeaks

\* The same for one agent's record.
LEMMA AgentWorkMoves ==
    ASSUME Typed, NEW a \in Agents, NEW R, agent' = [agent EXCEPT ![a] = R],
           NEW t \in Targets
    PROVE  /\ AgentWork(t)' = (AgentWork(t) \ {a})
                \cup (IF R.pc = "running" /\ t = TargetOf(a) THEN {a} ELSE {})
           /\ AgentLeaks(t)' = (AgentLeaks(t) \ {a})
                \cup (IF a \in Nameless /\ R.pc = "over" /\ t = NamelessTarget(a)
                      THEN {a} ELSE {})
  <1>1. \A b \in Agents : agent'[b] = IF b = a THEN R ELSE agent[b]
    BY TypeFacts
  <1> QED
    BY <1>1, TargetsAssumption, Zenon DEF AgentWork, AgentLeaks

\* A step of a call that leaves the registry alone and neither starts, ends nor
\* loses promoted work keeps the balance.
LEMMA QuietCallBalanced ==
    ASSUME Counted, NEW c \in Calls, NEW R, call' = [call EXCEPT ![c] = R],
           agent' = agent, refcount' = refcount,
           ~(call[c].pc \in {"running", "lost"} /\ call[c].promoted),
           ~(R.pc \in {"running", "lost"} /\ R.promoted)
    PROVE  Balanced'
  <1> SUFFICES ASSUME NEW t \in Targets
               PROVE  IF t.kind = "process"
                      THEN Balance(CallWork(t)', CallLeaks(t)', refcount'[t])
                      ELSE Balance(AgentWork(t)', AgentLeaks(t)', refcount'[t])
    BY DEF Balanced
  <1>1. CallWork(t)' = CallWork(t) /\ CallLeaks(t)' = CallLeaks(t)
    BY CallWorkMoves DEF CallWork, CallLeaks, Counted
  <1>2. AgentWork(t)' = AgentWork(t) /\ AgentLeaks(t)' = AgentLeaks(t)
    BY DEF AgentWork, AgentLeaks
  <1> QED
    BY <1>1, <1>2 DEF Counted, Balanced

\* A promoted call is registered as it starts.
LEMMA RegisterBalanced ==
    ASSUME Counted, NEW c \in Calls, RegisterProcess(c)
    PROVE  Balanced'
  <1> DEFINE u == ProcessTarget(call[c].sig)
             R == [call[c] EXCEPT !.pc = "running"]
  <1>0. /\ Typed /\ call[c] \in CallRecords /\ call[c].pc = "chosen" /\ call[c].promoted
        /\ u \in Targets /\ u.kind = "process"
    BY RecordFacts DEF Counted, RegisterProcess, CallFine, Targets, ProcessTarget
  <1>1. /\ call' = [call EXCEPT ![c] = R] /\ agent' = agent
        /\ refcount' = [refcount EXCEPT ![u] = @ + 1]
        /\ refcount \in [Targets -> Nat]
    BY <1>0, TypeFacts DEF RegisterProcess, Register
  <1>2. R.pc = "running" /\ R.promoted /\ R.sig = call[c].sig
    BY <1>0 DEF CallRecords
  <1> HIDE DEF R
  <1> SUFFICES ASSUME NEW t \in Targets
               PROVE  IF t.kind = "process"
                      THEN Balance(CallWork(t)', CallLeaks(t)', refcount'[t])
                      ELSE Balance(AgentWork(t)', AgentLeaks(t)', refcount'[t])
    BY DEF Balanced
  <1>3. AgentWork(t)' = AgentWork(t) /\ AgentLeaks(t)' = AgentLeaks(t)
    BY <1>1 DEF AgentWork, AgentLeaks
  <1>4. /\ c \notin CallWork(t) /\ c \notin CallLeaks(t)
        /\ CallWork(t)' = CallWork(t) \cup (IF t = u THEN {c} ELSE {})
        /\ CallLeaks(t)' = CallLeaks(t)
    <2>1. c \notin CallWork(t) /\ c \notin CallLeaks(t)
      BY <1>0 DEF CallWork, CallLeaks
    <2>2. /\ CallWork(t)' = (CallWork(t) \ {c}) \cup (IF t = u THEN {c} ELSE {})
          /\ CallLeaks(t)' = CallLeaks(t) \ {c}
      <3>1. /\ CallWork(t)' = (CallWork(t) \ {c})
                 \cup (IF R.pc = "running" /\ R.promoted /\ t = ProcessTarget(R.sig)
                       THEN {c} ELSE {})
            /\ CallLeaks(t)' = (CallLeaks(t) \ {c})
                 \cup (IF R.pc = "lost" /\ R.promoted /\ t = ProcessTarget(R.sig)
                       THEN {c} ELSE {})
        BY <1>0, <1>1, CallWorkMoves, Zenon
      <3> QED
        BY <1>2, <3>1
    <2> QED
      BY <2>1, <2>2
  <1> HIDE DEF u
  <1>5. /\ t.kind = "process" => Balance(CallWork(t), CallLeaks(t), refcount[t])
        /\ t.kind # "process" => Balance(AgentWork(t), AgentLeaks(t), refcount[t])
        /\ IsFiniteSet(CallWork(t)) /\ IsFiniteSet(CallLeaks(t)) /\ refcount[t] \in Nat
    BY <1>1, WorkByKind DEF Counted, Balanced
  <1>6. CASE t = u
    <2>1. refcount'[t] = refcount[t] + 1
      BY <1>1, <1>6
    <2>2. Balance(CallWork(t) \cup {c}, CallLeaks(t), refcount[t] + 1)
      BY <1>0, <1>4, <1>5, <1>6, BalanceSteps
    <2> QED
      BY <1>0, <1>4, <1>6, <2>1, <2>2
  <1>7. CASE t # u
    <2>1. refcount'[t] = refcount[t]
      BY <1>1, <1>7
    <2> QED
      BY <1>3, <1>4, <1>5, <1>7, <2>1
  <1> QED
    BY <1>6, <1>7

\* post_tool_call releases the target of a call that was promoted, and otherwise
\* finds no work of another call under it.
LEMMA PostBalanced ==
    ASSUME Counted, NEW c \in Calls, PostToolCall(c)
    PROVE  Balanced'
  <1> DEFINE u == ProcessTarget(call[c].sig)
             R == [call[c] EXCEPT !.pc = "ended"]
  <1>0. /\ Typed /\ call[c] \in CallRecords /\ call[c].pc = "running"
        /\ u \in Targets /\ u.kind = "process"
    BY RecordFacts DEF Counted, PostToolCall, CallFine, Targets, ProcessTarget
  <1>1. /\ call' = [call EXCEPT ![c] = R] /\ agent' = agent
        /\ refcount' = [refcount EXCEPT ![u] = IF @ = 0 THEN 0 ELSE @ - 1]
        /\ refcount \in [Targets -> Nat]
    BY <1>0, TypeFacts, ReleaseTypes DEF PostToolCall
  <1>2. R.pc = "ended"
    BY <1>0 DEF CallRecords
  <1> HIDE DEF R
  <1> SUFFICES ASSUME NEW t \in Targets
               PROVE  IF t.kind = "process"
                      THEN Balance(CallWork(t)', CallLeaks(t)', refcount'[t])
                      ELSE Balance(AgentWork(t)', AgentLeaks(t)', refcount'[t])
    BY DEF Balanced
  <1>3. AgentWork(t)' = AgentWork(t) /\ AgentLeaks(t)' = AgentLeaks(t)
    BY <1>1 DEF AgentWork, AgentLeaks
  <1>4. CallWork(t)' = CallWork(t) \ {c} /\ CallLeaks(t)' = CallLeaks(t)
    <2>1. c \notin CallLeaks(t)
      BY <1>0 DEF CallLeaks
    <2>2. CallWork(t)' = CallWork(t) \ {c} /\ CallLeaks(t)' = CallLeaks(t) \ {c}
      <3>1. /\ CallWork(t)' = (CallWork(t) \ {c})
                 \cup (IF R.pc = "running" /\ R.promoted /\ t = ProcessTarget(R.sig)
                       THEN {c} ELSE {})
            /\ CallLeaks(t)' = (CallLeaks(t) \ {c})
                 \cup (IF R.pc = "lost" /\ R.promoted /\ t = ProcessTarget(R.sig)
                       THEN {c} ELSE {})
        BY <1>0, <1>1, CallWorkMoves, Zenon
      <3> QED
        BY <1>2, <3>1
    <2> QED
      BY <2>1, <2>2
  <1>5. /\ t.kind = "process" => Balance(CallWork(t), CallLeaks(t), refcount[t])
        /\ t.kind # "process" => Balance(AgentWork(t), AgentLeaks(t), refcount[t])
        /\ IsFiniteSet(CallWork(t)) /\ IsFiniteSet(CallLeaks(t)) /\ refcount[t] \in Nat
    BY <1>1, WorkByKind DEF Counted, Balanced
  <1>6. CASE t = u
    <2>1. refcount'[t] = IF refcount[t] = 0 THEN 0 ELSE refcount[t] - 1
      BY <1>1, <1>6
    <2>2. CASE c \in CallWork(t)
      <3>1. refcount[t] # 0 /\ Balance(CallWork(t) \ {c}, CallLeaks(t), refcount[t] - 1)
        BY <1>0, <1>5, <1>6, <2>2, BalanceSteps
      <3> QED
        BY <1>0, <1>4, <1>6, <2>1, <3>1
    <2>3. CASE c \notin CallWork(t)
      <3>1. CallWork(t) = {}
        BY <1>0, <1>6, <2>3 DEF CallWork, Counted, OneUnderWay, UnderWay, ProcessTarget
      <3>2. Balance(CallWork(t), CallLeaks(t),
                    IF refcount[t] = 0 THEN 0 ELSE refcount[t] - 1)
        BY <1>0, <1>5, <1>6, <3>1, BalanceSteps
      <3>3. CallWork(t)' = CallWork(t)
        BY <1>4, <2>3
      <3> QED
        BY <1>0, <1>4, <1>6, <2>1, <3>2, <3>3
    <2> QED
      BY <2>2, <2>3
  <1>7. CASE t # u
    <2>1. refcount'[t] = refcount[t]
      BY <1>1, <1>7
    <2>2. c \notin CallWork(t)
      BY <1>7 DEF CallWork
    <2>3. CallWork(t)' = CallWork(t)
      BY <1>4, <2>2
    <2> QED
      BY <1>3, <1>4, <1>5, <1>7, <2>1, <2>3
  <1> QED
    BY <1>6, <1>7

\* A promoted call that is dropped leaves its target behind.
LEMMA LostBalanced ==
    ASSUME Counted, NEW c \in Calls, CallLost(c)
    PROVE  Balanced'
  <1> DEFINE R == [call[c] EXCEPT !.pc = "lost"]
  <1>0. Typed /\ call[c] \in CallRecords /\ call[c].pc = "running"
    BY RecordFacts DEF Counted, CallLost
  <1>1. /\ call' = [call EXCEPT ![c] = R] /\ agent' = agent /\ refcount' = refcount
        /\ refcount \in [Targets -> Nat]
    BY <1>0, TypeFacts DEF CallLost, registry
  <1>2. R.pc = "lost" /\ R.promoted = call[c].promoted /\ R.sig = call[c].sig
    BY <1>0 DEF CallRecords
  <1> HIDE DEF R
  <1> SUFFICES ASSUME NEW t \in Targets
               PROVE  IF t.kind = "process"
                      THEN Balance(CallWork(t)', CallLeaks(t)', refcount'[t])
                      ELSE Balance(AgentWork(t)', AgentLeaks(t)', refcount'[t])
    BY DEF Balanced
  <1>3. AgentWork(t)' = AgentWork(t) /\ AgentLeaks(t)' = AgentLeaks(t)
    BY <1>1 DEF AgentWork, AgentLeaks
  <1>4. /\ c \notin CallLeaks(t)
        /\ CallWork(t)' = CallWork(t) \ {c}
        /\ CallLeaks(t)' = CallLeaks(t) \cup (IF c \in CallWork(t) THEN {c} ELSE {})
    <2>1. c \notin CallLeaks(t)
      BY <1>0 DEF CallLeaks
    <2>2. c \in CallWork(t) <=> call[c].promoted /\ t = ProcessTarget(call[c].sig)
      BY <1>0 DEF CallWork
    <2>3. /\ CallWork(t)' = CallWork(t) \ {c}
          /\ CallLeaks(t)' = (CallLeaks(t) \ {c})
               \cup (IF call[c].promoted /\ t = ProcessTarget(call[c].sig) THEN {c} ELSE {})
      <3>1. /\ CallWork(t)' = (CallWork(t) \ {c})
                 \cup (IF R.pc = "running" /\ R.promoted /\ t = ProcessTarget(R.sig)
                       THEN {c} ELSE {})
            /\ CallLeaks(t)' = (CallLeaks(t) \ {c})
                 \cup (IF R.pc = "lost" /\ R.promoted /\ t = ProcessTarget(R.sig)
                       THEN {c} ELSE {})
        BY <1>0, <1>1, CallWorkMoves, Zenon
      <3> QED
        BY <1>2, <3>1
    <2> QED
      BY <2>1, <2>2, <2>3
  <1>5. /\ t.kind = "process" => Balance(CallWork(t), CallLeaks(t), refcount[t])
        /\ t.kind # "process" => Balance(AgentWork(t), AgentLeaks(t), refcount[t])
        /\ IsFiniteSet(CallWork(t)) /\ IsFiniteSet(CallLeaks(t)) /\ refcount[t] \in Nat
    BY <1>1, WorkByKind DEF Counted, Balanced
  <1>6. t.kind = "process" => Balance(CallWork(t)', CallLeaks(t)', refcount[t])
    <2>1. CASE c \in CallWork(t)
      BY <1>4, <1>5, <2>1, BalanceSteps
    <2>2. CASE c \notin CallWork(t)
      <3>1. CallWork(t)' = CallWork(t) /\ CallLeaks(t)' = CallLeaks(t)
        BY <1>4, <2>2
      <3> QED
        BY <1>5, <3>1
    <2> QED
      BY <2>1, <2>2
  <1> QED
    BY <1>1, <1>3, <1>5, <1>6

\* The steps of agents: subagent_stop releases the name an agent with a known
\* session was registered under, and leaves the other name behind.
LEMMA AgentBalanced ==
    ASSUME Counted, NEW a \in Agents, SubagentStart(a) \/ SubagentStop(a)
    PROVE  Balanced'
  <1> DEFINE u == TargetOf(a)
  <1>0. /\ Typed /\ u \in Targets /\ u.kind # "process" /\ AgentTarget(a) \in Targets
        /\ AgentTarget(a).kind # "process" /\ refcount \in [Targets -> Nat]
    BY TypeFacts DEF Counted, Targets, TargetOf, AgentTarget, NamelessTarget
  <1>1. call' = call
    BY DEF SubagentStart, SubagentStop
  <1> SUFFICES ASSUME NEW t \in Targets
               PROVE  IF t.kind = "process"
                      THEN Balance(CallWork(t)', CallLeaks(t)', refcount'[t])
                      ELSE Balance(AgentWork(t)', AgentLeaks(t)', refcount'[t])
    BY DEF Balanced
  <1>2. CallWork(t)' = CallWork(t) /\ CallLeaks(t)' = CallLeaks(t)
    BY <1>1 DEF CallWork, CallLeaks
  <1>3. /\ t.kind = "process" => Balance(CallWork(t), CallLeaks(t), refcount[t])
        /\ t.kind # "process" => Balance(AgentWork(t), AgentLeaks(t), refcount[t])
        /\ IsFiniteSet(AgentWork(t)) /\ IsFiniteSet(AgentLeaks(t)) /\ refcount[t] \in Nat
    BY <1>0, WorkByKind DEF Counted, Balanced
  <1>4. CASE SubagentStart(a)
    <2>1. /\ agent[a].pc = "idle" /\ refcount' = [refcount EXCEPT ![u] = @ + 1]
          /\ agent' = [agent EXCEPT ![a] = [pc |-> "running", parent |-> session]]
      BY <1>4 DEF SubagentStart, Register, TargetOf
    <2>2. a \notin AgentWork(t) /\ a \notin AgentLeaks(t)
      BY <2>1 DEF AgentWork, AgentLeaks
    <2>3. /\ AgentWork(t)' = AgentWork(t) \cup (IF t = u THEN {a} ELSE {})
          /\ AgentLeaks(t)' = AgentLeaks(t)
      <3> DEFINE S == [pc |-> "running", parent |-> session]
      <3>1. S.pc = "running" /\ agent' = [agent EXCEPT ![a] = S]
        BY <2>1
      <3> HIDE DEF S
      <3>2. /\ AgentWork(t)' = (AgentWork(t) \ {a}) \cup (IF t = u THEN {a} ELSE {})
            /\ AgentLeaks(t)' = AgentLeaks(t) \ {a}
        <4>1. /\ AgentWork(t)' = (AgentWork(t) \ {a})
                   \cup (IF S.pc = "running" /\ t = TargetOf(a) THEN {a} ELSE {})
              /\ AgentLeaks(t)' = (AgentLeaks(t) \ {a})
                   \cup (IF a \in Nameless /\ S.pc = "over" /\ t = NamelessTarget(a)
                         THEN {a} ELSE {})
          BY <1>0, <3>1, AgentWorkMoves, Zenon
        <4> QED
          BY <3>1, <4>1
      <3> QED
        BY <2>2, <3>2
    <2> HIDE DEF u
    <2>4. CASE t = u
      <3>1. refcount'[t] = refcount[t] + 1
        BY <1>0, <2>1, <2>4
      <3>2. Balance(AgentWork(t) \cup {a}, AgentLeaks(t), refcount[t] + 1)
        BY <1>0, <1>3, <2>2, <2>4, BalanceSteps
      <3> QED
        BY <1>0, <2>3, <2>4, <3>1, <3>2
    <2>5. CASE t # u
      <3>1. refcount'[t] = refcount[t]
        BY <1>0, <2>1, <2>5
      <3> QED
        BY <1>2, <1>3, <2>3, <2>5, <3>1
    <2> QED
      BY <2>4, <2>5
  <1>5. CASE SubagentStop(a)
    <2> DEFINE v == AgentTarget(a)
    <2>1. /\ agent[a].pc = "running"
          /\ refcount' = [refcount EXCEPT ![v] = IF @ = 0 THEN 0 ELSE @ - 1]
          /\ agent' = [agent EXCEPT ![a] = [NewAgent EXCEPT !.pc = "over"]]
      BY <1>0, <1>5, ReleaseTypes DEF SubagentStop
    <2>2. a \notin AgentLeaks(t) /\ (a \in AgentWork(t) <=> t = u)
      BY <2>1 DEF AgentWork, AgentLeaks
    <2>3. /\ AgentWork(t)' = AgentWork(t) \ {a}
          /\ AgentLeaks(t)' = AgentLeaks(t)
               \cup (IF a \in Nameless /\ t = NamelessTarget(a) THEN {a} ELSE {})
      <3> DEFINE S == [NewAgent EXCEPT !.pc = "over"]
      <3>1. S.pc = "over" /\ agent' = [agent EXCEPT ![a] = S]
        BY <2>1 DEF NewAgent
      <3> HIDE DEF S
      <3>2. /\ AgentWork(t)' = (AgentWork(t) \ {a})
            /\ AgentLeaks(t)' = (AgentLeaks(t) \ {a})
                 \cup (IF a \in Nameless /\ t = NamelessTarget(a) THEN {a} ELSE {})
        <4>1. /\ AgentWork(t)' = (AgentWork(t) \ {a})
                   \cup (IF S.pc = "running" /\ t = TargetOf(a) THEN {a} ELSE {})
              /\ AgentLeaks(t)' = (AgentLeaks(t) \ {a})
                   \cup (IF a \in Nameless /\ S.pc = "over" /\ t = NamelessTarget(a)
                         THEN {a} ELSE {})
          BY <1>0, <3>1, AgentWorkMoves, Zenon
        <4> QED
          BY <3>1, <4>1
      <3> QED
        BY <2>2, <3>2
    <2>4. CASE t = v
      <3>1. refcount'[t] = IF refcount[t] = 0 THEN 0 ELSE refcount[t] - 1
        BY <1>0, <2>1, <2>4
      <3>2. t # NamelessTarget(a) /\ AgentLeaks(t)' = AgentLeaks(t)
        <4>1. t # NamelessTarget(a)
          BY <2>4 DEF AgentTarget, NamelessTarget
        <4> QED
          BY <2>3, <4>1
      <3>3. CASE a \in AgentWork(t)
        <4>1. refcount[t] # 0 /\ Balance(AgentWork(t) \ {a}, AgentLeaks(t), refcount[t] - 1)
          BY <1>0, <1>3, <2>4, <3>3, BalanceSteps
        <4> QED
          BY <1>0, <2>3, <2>4, <3>1, <3>2, <4>1
      <3>4. CASE a \notin AgentWork(t)
        <4>1. AgentWork(t) = {}
          BY <2>1, <2>4, <3>4 DEF AgentWork, TargetOf, AgentTarget, NamelessTarget
        <4>2. Balance(AgentWork(t), AgentLeaks(t),
                      IF refcount[t] = 0 THEN 0 ELSE refcount[t] - 1)
          BY <1>0, <1>3, <2>4, <4>1, BalanceSteps
        <4>3. AgentWork(t)' = AgentWork(t)
          BY <2>3, <3>4
        <4> QED
          BY <1>0, <2>4, <3>1, <3>2, <4>2, <4>3
      <3> QED
        BY <3>3, <3>4
    <2>5. CASE t # v
      <3>1. refcount'[t] = refcount[t]
        BY <1>0, <2>1, <2>5
      <3>2. (a \in Nameless /\ t = NamelessTarget(a)) <=> a \in AgentWork(t)
        BY <2>2, <2>5 DEF TargetOf
      <3>3. t.kind # "process" => Balance(AgentWork(t)', AgentLeaks(t)', refcount[t])
        <4>1. CASE a \in AgentWork(t)
          <5>1. AgentLeaks(t)' = AgentLeaks(t) \cup {a}
            BY <2>3, <3>2, <4>1
          <5>2. t.kind # "process" =>
                  Balance(AgentWork(t) \ {a}, AgentLeaks(t) \cup {a}, refcount[t])
            BY <1>3, <2>2, <4>1, BalanceSteps
          <5> QED
            BY <2>3, <5>1, <5>2
        <4>2. CASE a \notin AgentWork(t)
          <5>1. AgentWork(t)' = AgentWork(t) /\ AgentLeaks(t)' = AgentLeaks(t)
            BY <2>3, <3>2, <4>2
          <5> QED
            BY <1>3, <5>1
        <4> QED
          BY <4>1, <4>2
      <3> QED
        BY <1>2, <1>3, <3>1, <3>3
    <2> QED
      BY <2>4, <2>5
  <1> QED
    BY <1>4, <1>5

\* No call starts while another one of its signature is under way.
LEMMA OneUnderWayKept ==
    ASSUME Concurrent = FALSE, Typed, OneUnderWay, [Next]_vars
    PROVE  OneUnderWay'
  <1>0. call \in [Calls -> CallRecords]
    BY TypeFacts
  <1>1. CASE call' = call
    BY <1>1 DEF OneUnderWay, UnderWay
  <1>2. ASSUME NEW c \in Calls, NEW R, call' = [call EXCEPT ![c] = R],
               \/ R.pc \notin {"chosen", "running"}
               \/ UnderWay(c) /\ R.sig = call[c].sig
               \/ MayCall(R.sig)
        PROVE  OneUnderWay'
    <2>1. \A d \in Calls : call'[d] = IF d = c THEN R ELSE call[d]
      BY <1>0, <1>2
    <2>2. \A d \in Calls :
             /\ d # c /\ UnderWay(d) /\ R.pc \in {"chosen", "running"} => call[d].sig # R.sig
             /\ UnderWay(d)' <=> IF d = c THEN R.pc \in {"chosen", "running"} ELSE UnderWay(d)
      BY <1>2, <2>1 DEF OneUnderWay, UnderWay, MayCall
    <2> QED
      BY <2>1, <2>2 DEF OneUnderWay
  <1>3. ASSUME NEW c \in Calls, CallStep(c)
        PROVE  OneUnderWay'
    <2>0. call[c] \in CallRecords /\ Over.pc = "over" /\ Over \in CallRecords
      BY RecordFacts DEF Over, NewCall
    <2>1. CASE QuietStep(c)
      <3>1. PICK R \in CallRecords : call' = [call EXCEPT ![c] = R] /\ QuietRecord(c, R)
        BY <2>1, QuietMoves
      <3>2. R.pc \notin {"chosen", "running"} \/ MayCall(R.sig)
        BY <3>1 DEF QuietRecord
      <3> QED
        BY <1>2, <3>1, <3>2
    <2>2. CASE RegisterProcess(c)
      <3> DEFINE R == [call[c] EXCEPT !.pc = "running"]
      <3>1. call' = [call EXCEPT ![c] = R] /\ UnderWay(c)
        BY <2>2 DEF RegisterProcess, UnderWay
      <3>2. R.sig = call[c].sig
        BY <2>0 DEF CallRecords
      <3> HIDE DEF R
      <3> QED
        BY <1>2, <3>1, <3>2
    <2>3. CASE PostToolCall(c)
      <3> DEFINE R == [call[c] EXCEPT !.pc = "ended"]
      <3>1. call' = [call EXCEPT ![c] = R]
        BY <2>3 DEF PostToolCall
      <3>2. R.pc \notin {"chosen", "running"}
        BY <2>0 DEF CallRecords
      <3> HIDE DEF R
      <3> QED
        BY <1>2, <3>1, <3>2
    <2>4. CASE CallLost(c)
      <3> DEFINE R == [call[c] EXCEPT !.pc = "lost"]
      <3>1. call' = [call EXCEPT ![c] = R]
        BY <2>4 DEF CallLost
      <3>2. R.pc \notin {"chosen", "running"}
        BY <2>0 DEF CallRecords
      <3> HIDE DEF R
      <3> QED
        BY <1>2, <3>1, <3>2
    <2> QED
      BY <1>3, <2>1, <2>2, <2>3, <2>4 DEF CallStep, QuietStep
  <1>4. CASE Restart
    <2>1. \A d \in Calls : call'[d].pc \notin {"chosen", "running"}
      BY <1>4 DEF Restart, Over, NewCall
    <2> QED
      BY <2>1 DEF OneUnderWay, UnderWay
  <1>5. CASE \E a \in Agents : SubagentStart(a) \/ SubagentStop(a)
    BY <1>1, <1>5 DEF SubagentStart, SubagentStop
  <1>6. CASE \E s \in Sessions : SessionBegins(s)
    BY <1>1, <1>6 DEF SessionBegins
  <1>7. CASE UNCHANGED vars
    BY <1>1, <1>7 DEF vars
  <1> QED
    BY <1>3, <1>4, <1>5, <1>6, <1>7 DEF Next

\* A restarted process has no work, and its registry is empty.
LEMMA RestartBalanced ==
    ASSUME Counted, Restart
    PROVE  Balanced'
  <1> SUFFICES ASSUME NEW t \in Targets
               PROVE  IF t.kind = "process"
                      THEN Balance(CallWork(t)', CallLeaks(t)', refcount'[t])
                      ELSE Balance(AgentWork(t)', AgentLeaks(t)', refcount'[t])
    BY DEF Balanced
  <1>1. refcount'[t] = 0
    BY DEF Restart
  <1>2. CallWork(t)' = {} /\ CallLeaks(t)' = {}
    <2>1. \A d \in Calls : call'[d].pc \in {"idle", "over"}
      BY DEF Restart, Over, NewCall
    <2> QED
      BY <2>1 DEF CallWork, CallLeaks
  <1>3. AgentWork(t)' = {}
    <2>1. \A a \in Agents : agent'[a].pc # "running"
      BY DEF Restart, NewAgent
    <2> QED
      BY <2>1 DEF AgentWork
  <1>4. Cardinality({}) = 0
    BY FS_EmptySet
  <1>5. Cardinality(AgentLeaks(t)') \in Nat
    <2>1. AgentLeaks(t)' \in SUBSET Agents
      BY TargetsAssumption DEF AgentLeaks
    <2> QED
      BY <2>1, TargetsAssumption, FS_Subset, FS_CardinalityType
  <1> QED
    BY <1>1, <1>2, <1>3, <1>4, <1>5 DEF Balance

\* The steps of a call keep the balance.
LEMMA CallStepBalanced ==
    ASSUME Counted, NEW c \in Calls, CallStep(c)
    PROVE  Balanced'
  <1>1. CASE QuietStep(c)
    <2>1. PICK R \in CallRecords : call' = [call EXCEPT ![c] = R] /\ QuietRecord(c, R)
      BY <1>1, QuietMoves DEF Counted
    <2>2. /\ call[c].pc \notin {"running", "lost"}
          /\ ~(R.pc \in {"running", "lost"} /\ R.promoted)
      BY <2>1 DEF QuietRecord
    <2>3. agent' = agent /\ refcount' = refcount
      BY <1>1, QuietKeeps
    <2> QED
      BY <2>1, <2>2, <2>3, QuietCallBalanced
  <1> QED
    BY <1>1, RegisterBalanced, PostBalanced, LostBalanced DEF CallStep, QuietStep

\* At the start no work is under way and every count is 0.
LEMMA CountedInit ==
    ASSUME Init
    PROVE  Counted
  <1>1. OneUnderWay
    BY DEF Init, OneUnderWay, UnderWay, NewCall
  <1>2. ASSUME NEW t \in Targets
        PROVE  /\ CallWork(t) = {} /\ CallLeaks(t) = {} /\ AgentWork(t) = {}
               /\ AgentLeaks(t) = {} /\ refcount[t] = 0
    BY TargetsAssumption
       DEF Init, CallWork, CallLeaks, AgentWork, AgentLeaks, NewCall, NewAgent
  <1>3. Cardinality({}) = 0
    BY FS_EmptySet
  <1>4. Balanced
    BY <1>2, <1>3 DEF Balanced, Balance
  <1> QED
    BY <1>1, <1>4, TypedInit DEF Counted

\* Every step keeps the counts balanced, if calls of one signature do not overlap.
LEMMA CountedNext ==
    ASSUME Concurrent = FALSE, Counted, [Next]_vars
    PROVE  Counted'
  <1>1. Typed' /\ OneUnderWay'
    BY TypedNext, OneUnderWayKept DEF Counted
  <1>2. CASE UNCHANGED vars
    <2>1. Balanced'
      BY <1>2 DEF vars, Counted, Balanced, CallWork, CallLeaks, AgentWork, AgentLeaks
    <2> QED
      BY <1>1, <2>1 DEF Counted
  <1>3. ASSUME NEW s \in Sessions, SessionBegins(s)
        PROVE  Balanced'
    BY <1>3 DEF SessionBegins, registry, Counted, Balanced, CallWork, CallLeaks,
                AgentWork, AgentLeaks
  <1>4. CASE Next
    <2>1. Balanced'
      BY <1>3, <1>4, CallStepBalanced, AgentBalanced, RestartBalanced DEF Next
    <2> QED
      BY <1>1, <2>1 DEF Counted
  <1> QED
    BY <1>2, <1>4

\* An agent that waits for a command before it repeats it finds the registry exact:
\* no target is gone while its work runs, and none outlives its work but by a call
\* or an agent whose end was never reported, whichever threads the hooks run on and
\* however calls of different commands, agents and sessions interleave.
THEOREM RegistryCountsWork ==
    ASSUME Concurrent = FALSE
    PROVE  Spec => []RefcountsExact
  <1>1. Init => Counted
    BY CountedInit
  <1>2. Counted /\ [Next]_vars => Counted'
    BY CountedNext
  <1>3. Counted => RefcountsExact
    <2> SUFFICES ASSUME Counted, NEW t \in Targets
                 PROVE  /\ Cardinality(Work(t)) <= refcount[t]
                        /\ refcount[t] <= Cardinality(Work(t)) + Cardinality(Leaks(t))
      BY DEF RefcountsExact
    <2>1. CASE t.kind = "process"
      <3>1. Work(t) = CallWork(t) /\ Leaks(t) = CallLeaks(t)
        BY <2>1, WorkByKind
      <3> QED
        BY <2>1, <3>1 DEF Counted, Balanced, Balance
    <2>2. CASE t.kind # "process"
      <3>1. Work(t) = AgentWork(t) /\ Leaks(t) = AgentLeaks(t)
        BY <2>2, WorkByKind
      <3> QED
        BY <2>2, <3>1 DEF Counted, Balanced, Balance
    <2> QED
      BY <2>1, <2>2
  <1> QED
    BY <1>1, <1>2, <1>3, PTL DEF Spec

-----------------------------------------------------------------------------
(* What a request tells the relay *)

\* Everything asked for or under way belongs to the session that runs, whose id is published and
\* whose name is on the targets of its work.
Owned ==
    /\ identity = session
    /\ \A c \in Calls : call[c].pc = "asking" \/ UnderWay(c) => call[c].session = session
    /\ \A a \in Agents : agent[a].pc = "running" => agent[a].parent = session
    /\ \A t \in Targets : CallWork(t) # {} \/ AgentWork(t) # {} => owner[t] = session

\* A call is under way, or starts, for the session that runs; work registered now
\* is registered for that session and no target with work left changes hands.
LEMMA OwnedByCall ==
    ASSUME Counted, Owned, NEW c \in Calls, CallStep(c)
    PROVE  Owned'
  <1>0. /\ Typed /\ OneUnderWay
        /\ call[c] \in CallRecords /\ CallFine(call[c], restarts)
        /\ Over \in CallRecords /\ Over.pc = "over" /\ NewCall \in CallRecords
        /\ owner \in [Targets -> Sessions \cup {NoSession, ProcessSession}]
        /\ call \in [Calls -> CallRecords]
    BY RecordFacts, TypeFacts DEF Counted, Over, NewCall
  <1>1. ASSUME NEW R, call' = [call EXCEPT ![c] = R], agent' = agent, session' = session,
               identity' = session,
               R.pc \in {"asking", "chosen", "running"} => R.session = session,
               NEW u \in Targets,
               \A t \in Targets : t # u => owner'[t] = owner[t],
               R.pc = "running" /\ R.promoted => u = ProcessTarget(R.sig),
               owner'[u] = session \/ CallWork(u)' \cup AgentWork(u)' = {}
                   \/ (owner'[u] = owner[u] /\ ~(R.pc = "running" /\ R.promoted))
        PROVE  Owned'
    <2>1. \A d \in Calls : call'[d] = IF d = c THEN R ELSE call[d]
      BY <1>0, <1>1
    <2>2. \A d \in Calls : call'[d].pc = "asking" \/ UnderWay(d)'
                             => call'[d].session = session'
      BY <1>1, <2>1 DEF Owned, UnderWay
    <2>3. ASSUME NEW t \in Targets, CallWork(t)' # {} \/ AgentWork(t)' # {}
          PROVE  owner'[t] = session'
      <3>1. AgentWork(t)' = AgentWork(t)
        BY <1>1 DEF AgentWork
      <3>2. CallWork(t)' = (CallWork(t) \ {c})
               \cup (IF R.pc = "running" /\ R.promoted /\ t = ProcessTarget(R.sig)
                     THEN {c} ELSE {})
        BY <1>0, <1>1, CallWorkMoves, Zenon
      <3>3. (t # u \/ ~(R.pc = "running" /\ R.promoted)) =>
               CallWork(t) # {} \/ AgentWork(t) # {}
        BY <1>1, <2>3, <3>1, <3>2
      <3>4. CASE t # u
        BY <1>1, <3>3, <3>4 DEF Owned
      <3>5. CASE t = u
        BY <1>1, <2>3, <3>3, <3>5 DEF Owned
      <3> QED
        BY <3>4, <3>5
    <2>4. \A a \in Agents : agent'[a].pc = "running" => agent'[a].parent = session'
      BY <1>1 DEF Owned
    <2> QED
      BY <1>1, <2>2, <2>3, <2>4 DEF Owned
  <1>2. ASSUME NEW R, call' = [call EXCEPT ![c] = R], agent' = agent, session' = session,
               identity' = identity, owner' = owner,
               R.pc \in {"asking", "chosen", "running"} => R.session = session,
               ~(R.pc = "running" /\ R.promoted)
        PROVE  Owned'
    <2>1. CASE Targets = {}
      <3>1. \A d \in Calls : call'[d] = IF d = c THEN R ELSE call[d]
        BY <1>0, <1>2
      <3>2. \A d \in Calls : call'[d].pc = "asking" \/ UnderWay(d)'
                               => call'[d].session = session'
        BY <1>2, <3>1 DEF Owned, UnderWay
      <3> QED
        BY <1>2, <2>1, <3>2 DEF Owned
    <2>2. CASE Targets # {}
      <3>1. PICK u \in Targets : TRUE
        BY <2>2
      <3>2. identity' = session
        BY <1>2 DEF Owned
      <3> QED
        BY <1>1, <1>2, <3>1, <3>2
    <2> QED
      BY <2>1, <2>2
  <1>3. CASE QuietStep(c)
    <2>1. PICK R \in CallRecords : call' = [call EXCEPT ![c] = R] /\ QuietRecord(c, R)
      BY <1>0, <1>3, QuietMoves
    <2>2. /\ R.pc \in {"asking", "chosen", "running"} => R.session = session
          /\ ~(R.pc = "running" /\ R.promoted)
      BY <2>1 DEF QuietRecord, Owned
    <2>3. /\ agent' = agent /\ owner' = owner
          /\ session' = session /\ identity' = identity
      BY <1>3, QuietKeeps
    <2> QED
      BY <1>2, <2>1, <2>2, <2>3
  <1>4. CASE RegisterProcess(c)
    <2> DEFINE R == [call[c] EXCEPT !.pc = "running"]
               u == ProcessTarget(call[c].sig)
    <2>1. call' = [call EXCEPT ![c] = R] /\ call[c].pc = "chosen" /\ agent' = agent
          /\ session' = session /\ identity' = identity
          /\ owner' = [owner EXCEPT ![u] = CurrentSession]
      BY <1>4 DEF RegisterProcess, Register
    <2>2. u \in Targets /\ call[c].session = session /\ session # NoSession
      BY <1>0, <2>1 DEF CallFine, Targets, Owned, UnderWay
    <2>3. CurrentSession = session /\ identity' = session
      BY <2>1, <2>2 DEF CurrentSession, Owned
    <2>4. R.session = session /\ R.sig = call[c].sig
      BY <1>0, <2>2 DEF CallRecords
    <2>5. owner'[u] = session /\ \A t \in Targets : t # u => owner'[t] = owner[t]
      BY <1>0, <2>1, <2>2, <2>3
    <2>6. u = ProcessTarget(R.sig)
      BY <2>4
    <2> HIDE DEF R, u
    <2> QED
      BY <1>1, <2>1, <2>2, <2>3, <2>4, <2>5, <2>6
  <1>5. CASE PostToolCall(c)
    <2> DEFINE R == [call[c] EXCEPT !.pc = "ended"]
    <2>1. /\ call' = [call EXCEPT ![c] = R] /\ call[c].pc = "running" /\ agent' = agent
          /\ session' = session /\ identity' = call[c].session
          /\ Release(ProcessTarget(call[c].sig))
      BY <1>5 DEF PostToolCall
    <2>2. PICK u \in Targets : u = ProcessTarget(call[c].sig)
      BY <1>0, <2>1 DEF CallFine, Targets
    <2>3. call[c].session = session
      BY <2>1 DEF Owned, UnderWay
    <2>4. R.pc = "ended"
      BY <1>0 DEF CallRecords
    <2>5. \A t \in Targets : t # u => owner'[t] = owner[t]
      BY <1>0, <2>1, <2>2 DEF Release
    <2>6. CallWork(u) \subseteq {c} /\ AgentWork(u) = {}
      BY <1>0, <2>1, <2>2 DEF CallWork, OneUnderWay, UnderWay, ProcessTarget,
                              AgentWork, TargetOf, AgentTarget, NamelessTarget
    <2> HIDE DEF R
    <2>7. CallWork(u)' = (CallWork(u) \ {c})
             \cup (IF R.pc = "running" /\ R.promoted /\ u = ProcessTarget(R.sig)
                   THEN {c} ELSE {})
      BY <1>0, <2>1, CallWorkMoves, Zenon
    <2>8. AgentWork(u)' = {}
      BY <2>1, <2>6 DEF AgentWork
    <2>9. CallWork(u)' \cup AgentWork(u)' = {}
      BY <2>4, <2>6, <2>7, <2>8
    <2> QED
      BY <1>1, <2>1, <2>3, <2>4, <2>5, <2>9
  <1>6. CASE CallLost(c)
    <2> DEFINE R == [call[c] EXCEPT !.pc = "lost"]
    <2>1. /\ call' = [call EXCEPT ![c] = R] /\ agent' = agent /\ owner' = owner
          /\ session' = session /\ identity' = identity
      BY <1>6 DEF CallLost, registry
    <2>2. R.pc = "lost"
      BY <1>0 DEF CallRecords
    <2> HIDE DEF R
    <2> QED
      BY <1>2, <2>1, <2>2
  <1> QED
    BY <1>3, <1>4, <1>5, <1>6 DEF CallStep, QuietStep

\* The same for the steps of agents: an agent's name is its own.
LEMMA OwnedByAgent ==
    ASSUME Counted, Owned, NEW a \in Agents, SubagentStart(a) \/ SubagentStop(a)
    PROVE  Owned'
  <1>0. /\ Typed /\ agent \in [Agents -> AgentRecords]
        /\ owner \in [Targets -> Sessions \cup {NoSession, ProcessSession}]
    BY TypeFacts DEF Counted
  <1>1. call' = call /\ session' = session /\ identity' = session
    BY DEF SubagentStart, SubagentStop, Owned
  <1>2. \A c \in Calls : call'[c].pc = "asking" \/ UnderWay(c)'
                          => call'[c].session = session'
    BY <1>1 DEF Owned, UnderWay
  <1>3. \A b \in Agents : agent'[b].pc = "running" => agent'[b].parent = session'
    BY <1>0, <1>1 DEF Owned, SubagentStart, SubagentStop, NewAgent
  <1>4. ASSUME NEW t \in Targets, CallWork(t)' # {} \/ AgentWork(t)' # {}
        PROVE  owner'[t] = session'
    <2>1. CallWork(t)' = CallWork(t)
      BY <1>1 DEF CallWork
    <2>2. CASE SubagentStart(a)
      <3>1. /\ owner' = [owner EXCEPT ![TargetOf(a)] = session]
            /\ agent' = [agent EXCEPT ![a] = [pc |-> "running", parent |-> session]]
        BY <2>2 DEF SubagentStart, Register, TargetOf
      <3>2. CASE t = TargetOf(a)
        BY <1>0, <1>1, <3>1, <3>2
      <3>3. CASE t # TargetOf(a)
        <4>1. AgentWork(t)' \subseteq AgentWork(t)
          BY <1>0, <3>1, <3>3 DEF AgentWork
        <4>2. owner'[t] = owner[t]
          BY <1>0, <3>1, <3>3
        <4> QED
          BY <1>1, <1>4, <2>1, <4>1, <4>2 DEF Owned
      <3> QED
        BY <3>2, <3>3
    <2>3. CASE SubagentStop(a)
      <3>1. /\ \A u \in Targets : u # AgentTarget(a) => owner'[u] = owner[u]
            /\ agent' = [agent EXCEPT ![a] = [NewAgent EXCEPT !.pc = "over"]]
        BY <1>0, <2>3 DEF SubagentStop, Release
      <3>2. AgentWork(t)' \subseteq AgentWork(t) /\ a \notin AgentWork(t)'
        BY <1>0, <3>1 DEF AgentWork, NewAgent
      <3>3. CASE t = AgentTarget(a)
        <4>1. CallWork(t) = {}
          BY <3>3 DEF CallWork, AgentTarget, ProcessTarget
        <4>2. AgentWork(t) \subseteq {a}
          BY <3>3 DEF AgentWork, TargetOf, AgentTarget, NamelessTarget
        <4> QED
          BY <1>4, <2>1, <3>2, <4>1, <4>2
      <3>4. CASE t # AgentTarget(a)
        BY <1>1, <1>4, <2>1, <3>1, <3>2, <3>4 DEF Owned
      <3> QED
        BY <3>3, <3>4
    <2> QED
      BY <2>2, <2>3
  <1> QED
    BY <1>1, <1>2, <1>3, <1>4 DEF Owned

\* A session that begins finds nothing of another one under way.
LEMMA OwnedBySession ==
    ASSUME OneSession = TRUE, Owned, NEW s \in Sessions, SessionBegins(s)
    PROVE  Owned'
  <1>1. /\ session # s /\ MaySwitch(s) /\ session' = s /\ identity' = s
        /\ call' = call /\ agent' = agent
    BY DEF SessionBegins
  <1>2. \A c \in Calls : call[c].pc # "asking" /\ ~UnderWay(c)
    BY <1>1 DEF Owned, MaySwitch
  <1>3. \A a \in Agents : agent[a].pc # "running"
    BY <1>1 DEF Owned, MaySwitch
  <1>4. \A c \in Calls : call'[c].pc # "asking" /\ ~UnderWay(c)'
    BY <1>1, <1>2 DEF UnderWay
  <1>5. \A t \in Targets : CallWork(t)' = {} /\ AgentWork(t)' = {}
    BY <1>1, <1>2, <1>3 DEF CallWork, AgentWork, UnderWay
  <1>6. \A a \in Agents : agent'[a].pc # "running"
    BY <1>1, <1>3
  <1> QED
    BY <1>1, <1>4, <1>5, <1>6 DEF Owned

\* After a restart no work is left to own.
LEMMA OwnedByRestart ==
    ASSUME Restart
    PROVE  Owned'
  <1>1. \A d \in Calls : call'[d].pc \in {"idle", "over"}
    BY DEF Restart, Over, NewCall
  <1>2. \A a \in Agents : agent'[a].pc # "running"
    BY DEF Restart, NewAgent
  <1>3. \A t \in Targets : CallWork(t)' = {} /\ AgentWork(t)' = {}
    BY <1>1, <1>2 DEF CallWork, AgentWork
  <1>4. \A d \in Calls : call'[d].pc # "asking" /\ ~UnderWay(d)'
    BY <1>1 DEF UnderWay
  <1>5. identity' = session'
    BY DEF Restart
  <1> QED
    BY <1>2, <1>3, <1>4, <1>5 DEF Owned

\* Every step keeps the work in progress the session's own, if sessions take turns.
LEMMA OwnedNext ==
    ASSUME OneSession = TRUE, Counted, Owned, [Next]_vars
    PROVE  Owned'
  <1>1. CASE UNCHANGED vars
    BY <1>1 DEF vars, Owned, UnderWay, CallWork, AgentWork
  <1>2. CASE Next
    BY <1>2, OwnedByCall, OwnedByAgent, OwnedBySession, OwnedByRestart DEF Next
  <1> QED
    BY <1>1, <1>2

\* What Owned and the balance say of a request sent now.
LEMMA OwnedHeaders ==
    ASSUME Counted, Owned, session # NoSession
    PROVE  LET work == {t \in Targets :
                           \/ \E c \in Calls \cap Work(t) : call[c].session = session
                           \/ \E a \in Agents \cap Work(t) : agent[a].parent = session}
           IN  /\ Headers.session = session
               /\ work \subseteq Headers.targets
               /\ \A t \in Headers.targets \ work : Leaks(t) # {}
  <1> DEFINE work == {t \in Targets :
                           \/ \E c \in Calls \cap Work(t) : call[c].session = session
                           \/ \E a \in Agents \cap Work(t) : agent[a].parent = session}
  <1>1. CurrentSession = session
    BY DEF CurrentSession, Owned
  <1>2. Headers.session = session /\ Headers.targets = ActiveTargets(session)
    BY <1>1 DEF Headers
  <1>3. ASSUME NEW t \in Targets
        PROVE  /\ Work(t) # {} => refcount[t] > 0 /\ owner[t] = session
               /\ refcount[t] > 0 /\ Leaks(t) = {} => Work(t) # {}
    <2>0. refcount[t] \in Nat
      BY TypeFacts DEF Counted
    <2>1. /\ IsFiniteSet(CallWork(t)) /\ IsFiniteSet(CallLeaks(t))
          /\ IsFiniteSet(AgentWork(t)) /\ IsFiniteSet(AgentLeaks(t))
      BY WorkByKind
    <2>2. CASE t.kind = "process"
      <3>1. /\ Work(t) = CallWork(t) /\ Leaks(t) = CallLeaks(t)
            /\ Balance(CallWork(t), CallLeaks(t), refcount[t])
        BY <2>2, WorkByKind DEF Counted, Balanced
      <3>2. /\ CallWork(t) # {} => refcount[t] > 0
            /\ refcount[t] > 0 /\ CallLeaks(t) = {} => CallWork(t) # {}
        BY <2>0, <2>1, <3>1, BalanceSteps
      <3> QED
        BY <3>1, <3>2 DEF Owned
    <2>3. CASE t.kind # "process"
      <3>1. /\ Work(t) = AgentWork(t) /\ Leaks(t) = AgentLeaks(t)
            /\ Balance(AgentWork(t), AgentLeaks(t), refcount[t])
        BY <2>3, WorkByKind DEF Counted, Balanced
      <3>2. /\ AgentWork(t) # {} => refcount[t] > 0
            /\ refcount[t] > 0 /\ AgentLeaks(t) = {} => AgentWork(t) # {}
        BY <2>0, <2>1, <3>1, BalanceSteps
      <3> QED
        BY <3>1, <3>2 DEF Owned
    <2> QED
      BY <2>2, <2>3
  <1>4. ASSUME NEW t \in Targets
        PROVE  t \in work <=> Work(t) # {}
    <2>1. ASSUME NEW x \in Work(t)
          PROVE  t \in work
      <3>1. CASE x \in Calls /\ call[x].pc = "running"
        BY <2>1, <3>1 DEF Owned, UnderWay
      <3>2. CASE x \in Agents /\ agent[x].pc = "running"
        BY <2>1, <3>2 DEF Owned
      <3> QED
        BY <2>1, <3>1, <3>2 DEF Work
    <2>2. t \in work => Work(t) # {}
      OBVIOUS
    <2> QED
      BY <2>1, <2>2
  <1>5. \A t : t \in work => t \in Targets
    OBVIOUS
  <1> HIDE DEF work
  <1>6. work \subseteq ActiveTargets(session)
    BY <1>3, <1>4, <1>5 DEF ActiveTargets
  <1>7. \A t \in ActiveTargets(session) \ work : Leaks(t) # {}
    BY <1>3, <1>4 DEF ActiveTargets
  <1> QED
    BY <1>2, <1>6, <1>7 DEF work

\* A process that finishes a session's work before the next session begins, and
\* waits for a command before it repeats it, sends headers that carry the session's
\* id and count its own work: every target of it, and no other but a leaked one.
\* The relay then neither disarms a lease under running work nor keeps one armed
\* for work whose end was reported.
THEOREM HeadersAreTrue ==
    ASSUME Concurrent = FALSE, OneSession = TRUE
    PROVE  Spec => []HeadersTellWork
  <1>1. Init => Counted /\ Owned
    <2> SUFFICES ASSUME Init PROVE Owned
      BY CountedInit
    <2>1. \A t \in Targets : CallWork(t) = {} /\ AgentWork(t) = {}
      BY DEF Init, CallWork, AgentWork, NewCall, NewAgent
    <2> QED
      BY <2>1 DEF Init, Owned, UnderWay, NewCall, NewAgent
  <1>2. Counted /\ Owned /\ [Next]_vars => (Counted /\ Owned)'
    BY CountedNext, OwnedNext
  <1>3. Counted /\ Owned => HeadersTellWork
    BY OwnedHeaders DEF HeadersTellWork
  <1> QED
    BY <1>1, <1>2, <1>3, PTL DEF Spec

-----------------------------------------------------------------------------
(* What a row of the history says *)

\* How long each call ran, as it was recorded.
Lasted == [c \in Calls |-> call[c].duration]

\* The samples of a window are those of different calls of D.
SampledBy(D, f, w) ==
    \E g \in [1..Len(w) -> D] :
        /\ \A i, j \in 1..Len(w) : g[i] = g[j] => i = j
        /\ \A i \in 1..Len(w) : f[g[i]] = w[i]

\* p is a percentile of runs of D: of k of them or more, or of a full window.
Summarised(D, f, p, k) ==
    \E S \in SUBSET D :
        LET n == Cardinality(S)
            above == {c \in S : 10 * f[c] > p}
            below == {c \in S : 10 * f[c] < p}
        IN  /\ n <= WindowSize
            /\ n >= Min({WindowSize, k})
            /\ 10 * Cardinality(above) <= n + 8
            /\ 10 * Cardinality(below) <= 9 * (n - 1) + 10

\* The count is that of the recorded runs; the window holds the latest samples of
\* this process, those of runs that could not be stored among them; and the
\* percentile is one of samples.
RowFine(sig) ==
    /\ row[sig].count = Cardinality(Recorded(sig))
    /\ SampledBy(Sampled(sig), Lasted, window[sig])
    /\ Len(window[sig]) = Min({WindowSize, Cardinality(Sampled(sig))})
    /\ RecordedNow(sig) # {} =>
          Summarised(Sampled(sig), Lasted, row[sig].p90, Cardinality(RecordedNow(sig)))

RowsFine == \A sig \in Signatures : RowFine(sig)

\* Min of two numbers.
LEMMA MinOfTwo ==
    ASSUME NEW a \in Nat, NEW b \in Nat
    PROVE  Min({a, b}) = IF a <= b THEN a ELSE b
  <1>1. {a, b} \in SUBSET Nat /\ {a, b} # {}
    OBVIOUS
  <1>2. Min({a, b}) \in {a, b} /\ \A y \in {a, b} : Min({a, b}) <= y
    BY <1>1, MinFacts
  <1> QED
    BY <1>2

\* An injective image has as many elements as its domain.
LEMMA ImageCardinality ==
    ASSUME NEW T, IsFiniteSet(T), NEW g, \A i, j \in T : g[i] = g[j] => i = j,
           NEW U, \A i \in T : g[i] \in U, \A u \in U : \E i \in T : u = g[i]
    PROVE  IsFiniteSet(U) /\ Cardinality(U) = Cardinality(T)
  <1> DEFINE f == [i \in T |-> g[i]]
  <1>1. f \in [T -> U] /\ \A i \in T : f[i] = g[i]
    OBVIOUS
  <1>2. f \in Injection(T, U)
    BY <1>1 DEF Injection, IsInjective
  <1>3. f \in Surjection(T, U)
    BY <1>1 DEF Surjection
  <1> HIDE DEF f
  <1>4. ExistsBijection(T, U)
    BY <1>2, <1>3 DEF ExistsBijection, Bijection
  <1> QED
    BY <1>4, FS_Bijection

\* The percentile of a window summarises the runs the window's samples come from.
LEMMA WindowSummarises ==
    ASSUME NEW v \in Seq(Nat), Len(v) >= 1, NEW D, IsFiniteSet(D), NEW f,
           SampledBy(D, f, v), Len(v) = Min({WindowSize, Cardinality(D)}),
           NEW k \in Nat, k <= Cardinality(D)
    PROVE  Summarised(D, f, P90(v), k)
  <1> DEFINE n == Len(v)
             p == P90(v)
  <1>0. n \in Nat /\ DOMAIN v = 1..n
    OBVIOUS
  <1>1. PICK g \in [1..n -> D] :
            /\ \A i, j \in 1..n : g[i] = g[j] => i = j
            /\ \A i \in 1..n : f[g[i]] = v[i]
    BY DEF SampledBy
  <1> DEFINE S == {g[i] : i \in 1..n}
             high == {i \in 1..n : 10 * v[i] > p}
             low == {i \in 1..n : 10 * v[i] < p}
  <1>2. /\ 10 * Cardinality(high) <= n + 8
        /\ 10 * Cardinality(low) <= 9 * (n - 1) + 10
    BY <1>0, P90Facts
  <1>3. IsFiniteSet(1..n) /\ Cardinality(1..n) = n
    <2>1. 0 \in Int
      OBVIOUS
    <2> QED
      BY <1>0, <2>1, PositionFacts
  <1>4. high \in SUBSET (1..n) /\ low \in SUBSET (1..n)
    OBVIOUS
  <1>5. IsFiniteSet(high) /\ IsFiniteSet(low)
    BY <1>3, <1>4, FS_Subset
  <1> HIDE DEF n, p
  <1>6. Cardinality(S) = n
    <2> DEFINE I == 1..n
    <2>1. (\A i \in I : g[i] \in S) /\ \A u \in S : \E i \in I : u = g[i]
      OBVIOUS
    <2>2. /\ IsFiniteSet(I) /\ Cardinality(I) = n
          /\ \A i, j \in I : g[i] = g[j] => i = j
      BY <1>1, <1>3
    <2> HIDE DEF S, I
    <2> QED
      BY <2>1, <2>2, ImageCardinality
  <1> DEFINE above == {c \in S : 10 * f[c] > p}
             below == {c \in S : 10 * f[c] < p}
  <1>7. Cardinality(above) = Cardinality(high)
    <2>1. \A i, j \in high : g[i] = g[j] => i = j
      BY <1>1
    <2>2. \A i \in high : g[i] \in above
      BY <1>1
    <2>3. ASSUME NEW u \in above
          PROVE  \E i \in high : u = g[i]
      <3>1. PICK i \in 1..n : u = g[i]
        OBVIOUS
      <3>2. 10 * f[u] > p /\ f[u] = v[i]
        BY <1>1, <3>1
      <3> QED
        BY <3>1, <3>2
    <2> HIDE DEF high, above
    <2> QED
      BY <1>5, <2>1, <2>2, <2>3, ImageCardinality
  <1>8. Cardinality(below) = Cardinality(low)
    <2>1. \A i, j \in low : g[i] = g[j] => i = j
      BY <1>1
    <2>2. \A i \in low : g[i] \in below
      BY <1>1
    <2>3. ASSUME NEW u \in below
          PROVE  \E i \in low : u = g[i]
      <3>1. PICK i \in 1..n : u = g[i]
        OBVIOUS
      <3>2. 10 * f[u] < p /\ f[u] = v[i]
        BY <1>1, <3>1
      <3> QED
        BY <3>1, <3>2
    <2> HIDE DEF low, below
    <2> QED
      BY <1>5, <2>1, <2>2, <2>3, ImageCardinality
  <1>9. S \in SUBSET D
    BY <1>1
  <1>10. n <= WindowSize /\ n >= Min({WindowSize, k})
    <2>1. WindowSize \in Nat /\ Cardinality(D) \in Nat
      BY HistoryAssumption, FS_CardinalityType
    <2>2. Min({WindowSize, Cardinality(D)}) =
             IF WindowSize <= Cardinality(D) THEN WindowSize ELSE Cardinality(D)
      BY <2>1, MinOfTwo
    <2>3. Min({WindowSize, k}) = IF WindowSize <= k THEN WindowSize ELSE k
      BY <2>1, MinOfTwo
    <2> QED
      BY <2>1, <2>2, <2>3 DEF n
  <1> HIDE DEF S, high, low
  <1>11. Summarised(D, f, p, k)
    BY <1>2, <1>6, <1>7, <1>8, <1>9, <1>10 DEF Summarised
  <1> QED
    BY <1>11 DEF p

\* The window w holds as many samples of D as there are, up to its size.
Filled(D, w) == Len(w) = Min({WindowSize, Cardinality(D)})

\* The window w holds the samples D, of durations f, and c joins them with the
\* duration d, which h gives it.
NewSample(D, f, w, c, d, h) ==
    /\ w \in Seq(Nat) /\ Len(w) <= WindowSize /\ d \in Nat
    /\ IsFiniteSet(D) /\ c \notin D
    /\ SampledBy(D, f, w) /\ Len(w) = Min({WindowSize, Cardinality(D)})
    /\ (\A x \in D : h[x] = f[x]) /\ h[c] = d

\* One more run: the window holds the latest samples, the new one last.
LEMMA SampleAdded ==
    ASSUME NEW D, NEW f, NEW w, NEW c, NEW d, NEW h, NewSample(D, f, w, c, d, h)
    PROVE  /\ SampledBy(D \cup {c}, h, Append1(w, d))
           /\ Filled(D \cup {c}, Append1(w, d))
  <1> USE DEF NewSample, Filled
  <1> DEFINE v == Append1(w, d)
             k == Len(w) + 1 - Len(v)
  <1>0. /\ WindowSize \in Nat /\ WindowSize >= 1 /\ Len(w) \in Nat
        /\ Cardinality(D) \in Nat /\ Cardinality(D \cup {c}) = Cardinality(D) + 1
    BY HistoryAssumption, FS_CardinalityType, FS_AddElement
  <1>1. /\ v \in Seq(Nat) /\ Len(v) >= 1
        /\ Len(v) = IF Len(w) < WindowSize THEN Len(w) + 1 ELSE WindowSize
        /\ v[Len(v)] = d
        /\ \A i \in 1 .. Len(v) - 1 : i + k \in 1 .. Len(w) /\ v[i] = w[i + k]
    BY Append1Facts
  <1>2. Len(v) \in Nat /\ k \in Int
    BY <1>0, <1>1
  <1> HIDE DEF v, k
  <1>3. Len(v) = Min({WindowSize, Cardinality(D \cup {c})})
    <2>1. Min({WindowSize, Cardinality(D)}) =
             IF WindowSize <= Cardinality(D) THEN WindowSize ELSE Cardinality(D)
      BY <1>0, MinOfTwo
    <2>2. Cardinality(D \cup {c}) \in Nat
      BY <1>0
    <2>3. Min({WindowSize, Cardinality(D \cup {c})}) =
             IF WindowSize <= Cardinality(D \cup {c}) THEN WindowSize
             ELSE Cardinality(D \cup {c})
      BY <1>0, <2>2, MinOfTwo
    <2> QED
      BY <1>0, <1>1, <2>1, <2>3
  <1>4. PICK g \in [1..Len(w) -> D] :
            /\ \A i, j \in 1..Len(w) : g[i] = g[j] => i = j
            /\ \A i \in 1..Len(w) : f[g[i]] = w[i]
    BY DEF SampledBy
  <1> DEFINE G == [i \in 1..Len(v) |-> IF i = Len(v) THEN c ELSE g[i + k]]
  <1>5. ASSUME NEW i \in 1..Len(v)
        PROVE  /\ i # Len(v) => i + k \in 1..Len(w) /\ G[i] = g[i + k] /\ G[i] \in D
                                /\ h[G[i]] = v[i]
               /\ i = Len(v) => G[i] = c /\ h[G[i]] = v[i]
    <2>1. i # Len(v) => i \in 1 .. Len(v) - 1
      BY <1>2
    <2>2. i # Len(v) => i + k \in 1..Len(w) /\ v[i] = w[i + k]
      BY <1>1, <2>1
    <2>3. G[i] = IF i = Len(v) THEN c ELSE g[i + k]
      OBVIOUS
    <2> HIDE DEF G
    <2>4. CASE i # Len(v)
      <3>1. PICK m \in 1..Len(w) : m = i + k
        BY <2>2, <2>4
      <3>2. G[i] = g[m] /\ v[i] = w[m]
        BY <2>2, <2>3, <2>4, <3>1
      <3>3. g[m] \in D /\ f[g[m]] = w[m]
        BY <1>4
      <3> QED
        BY <2>4, <3>1, <3>2, <3>3
    <2>5. CASE i = Len(v)
      BY <1>1, <2>3, <2>5
    <2> QED
      BY <2>4, <2>5
  <1>6. G \in [1..Len(v) -> D \cup {c}]
    <2>1. \A i \in 1..Len(v) : G[i] \in D \cup {c}
      BY <1>5
    <2>2. G = [i \in 1..Len(v) |-> G[i]]
      OBVIOUS
    <2> HIDE DEF G
    <2> QED
      BY <2>1, <2>2
  <1> HIDE DEF G
  <1>7. ASSUME NEW i \in 1..Len(v), NEW j \in 1..Len(v), G[i] = G[j]
        PROVE  i = j
    <2>1. CASE i = Len(v) \/ j = Len(v)
      BY <1>5, <1>7, <2>1
    <2>2. CASE i # Len(v) /\ j # Len(v)
      <3>1. PICK x \in 1..Len(w) : x = i + k /\ G[i] = g[x]
        BY <1>5, <2>2
      <3>2. PICK y \in 1..Len(w) : y = j + k /\ G[j] = g[y]
        BY <1>5, <2>2
      <3>3. x = y
        BY <1>4, <1>7, <3>1, <3>2
      <3> QED
        BY <1>2, <3>1, <3>2, <3>3
    <2> QED
      BY <2>1, <2>2
  <1>8. \A i \in 1..Len(v) : h[G[i]] = v[i]
    BY <1>5
  <1>9. SampledBy(D \cup {c}, h, v)
    BY <1>6, <1>7, <1>8 DEF SampledBy
  <1> QED
    BY <1>3, <1>9 DEF v

\* No window: no samples.
LEMMA NothingSampled ==
    ASSUME NEW f
    PROVE  SampledBy({}, f, <<>>) /\ Len(<<>>) = Min({WindowSize, Cardinality({})})
  <1>1. Len(<<>>) = 0 /\ 1..0 = {}
    OBVIOUS
  <1> DEFINE g == [i \in 1..Len(<<>>) |-> 0]
  <1>2. /\ g \in [1..Len(<<>>) -> {}]
        /\ \A i, j \in 1..Len(<<>>) : g[i] = g[j] => i = j
        /\ \A i \in 1..Len(<<>>) : f[g[i]] = <<>>[i]
    BY <1>1
  <1>3. SampledBy({}, f, <<>>)
    BY <1>2 DEF SampledBy
  <1>4. Cardinality({}) = 0
    BY FS_EmptySet
  <1>5. WindowSize \in Nat /\ 0 \in Nat /\ WindowSize >= 1
    BY HistoryAssumption
  <1>6. Min({WindowSize, 0}) = 0
    BY <1>5, MinOfTwo
  <1> QED
    BY <1>1, <1>3, <1>4, <1>6

\* Samples stay those of their calls while no call's duration changes.
LEMMA SampledKept ==
    ASSUME NEW D, NEW f, NEW h, \A x \in D : h[x] = f[x], NEW w, SampledBy(D, f, w)
    PROVE  SampledBy(D, h, w)
  <1>1. PICK g \in [1..Len(w) -> D] :
            /\ \A i, j \in 1..Len(w) : g[i] = g[j] => i = j
            /\ \A i \in 1..Len(w) : f[g[i]] = w[i]
    BY DEF SampledBy
  <1>2. \A i \in 1..Len(w) : h[g[i]] = w[i]
    BY <1>1
  <1> QED
    BY <1>1, <1>2 DEF SampledBy

\* A summary stays one when more runs are sampled.
LEMMA SummaryKept ==
    ASSUME NEW D, NEW E, D \subseteq E, NEW f, NEW h, \A x \in D : h[x] = f[x],
           NEW p, NEW k, Summarised(D, f, p, k)
    PROVE  Summarised(E, h, p, k)
  <1>1. PICK S \in SUBSET D :
            LET n == Cardinality(S)
                above == {e \in S : 10 * f[e] > p}
                below == {e \in S : 10 * f[e] < p}
            IN  /\ n <= WindowSize
                /\ n >= Min({WindowSize, k})
                /\ 10 * Cardinality(above) <= n + 8
                /\ 10 * Cardinality(below) <= 9 * (n - 1) + 10
    BY DEF Summarised
  <1>2. /\ {e \in S : 10 * h[e] > p} = {e \in S : 10 * f[e] > p}
        /\ {e \in S : 10 * h[e] < p} = {e \in S : 10 * f[e] < p}
    OBVIOUS
  <1>3. S \in SUBSET E
    OBVIOUS
  <1> QED
    BY <1>1, <1>2, <1>3 DEF Summarised

\* A step that samples nothing keeps the rows.
LEMMA RowsKept ==
    ASSUME RowsFine, row' = row, window' = window, restarts' = restarts,
           \A d \in Calls :
              /\ call'[d].duration = call[d].duration
              /\ call[d].duration # -1 =>
                   /\ call'[d].sig = call[d].sig /\ call'[d].epoch = call[d].epoch
                   /\ (call'[d].pc = "over") <=> (call[d].pc = "over")
    PROVE  RowsFine'
  <1> SUFFICES ASSUME NEW sig \in Signatures
               PROVE  RowFine(sig)'
    BY DEF RowsFine
  <1>1. RowFine(sig)
    BY DEF RowsFine
  <1>2. Lasted' = Lasted
    BY DEF Lasted
  <1>3. Recorded(sig)' = Recorded(sig)
    BY DEF Recorded
  <1>4. RecordedNow(sig)' = RecordedNow(sig)
    BY <1>3 DEF RecordedNow, Recorded
  <1>5. Sampled(sig)' = Sampled(sig)
    BY DEF Sampled
  <1> QED
    BY <1>1, <1>2, <1>3, <1>4, <1>5 DEF RowFine

\* The sets of runs are finite, and a run that is recorded was sampled.
LEMMA RunSets ==
    ASSUME NEW sig \in Signatures
    PROVE  /\ Recorded(sig) \in SUBSET Calls /\ IsFiniteSet(Recorded(sig))
           /\ Sampled(sig) \in SUBSET Calls /\ IsFiniteSet(Sampled(sig))
           /\ RecordedNow(sig) \subseteq Sampled(sig) /\ IsFiniteSet(RecordedNow(sig))
  <1>1. /\ Recorded(sig) \in SUBSET Calls /\ Sampled(sig) \in SUBSET Calls
        /\ RecordedNow(sig) \in SUBSET Calls /\ RecordedNow(sig) \subseteq Sampled(sig)
    BY DEF Recorded, Sampled, RecordedNow
  <1> QED
    BY <1>1, TargetsAssumption, FS_Subset

\* A step that samples the run c of u, whether its row is written then or not.
Samples(c, d, u, R) ==
    /\ c \in Calls /\ call[c].pc = "recording" /\ d \in Durations /\ u \in Signatures
    /\ R.sig = u /\ R.duration = d /\ R.epoch = restarts
    /\ call' = [call EXCEPT ![c] = R] /\ restarts' = restarts
    /\ window' = [window EXCEPT ![u] = Append1(@, d)]

\* The run joins the samples, and the window takes its duration.
LEMMA SampleTaken ==
    ASSUME Typed, RowsFine, NEW c, NEW d, NEW u, NEW R, Samples(c, d, u, R),
           NEW sig \in Signatures
    PROVE  /\ c \notin Recorded(sig) /\ c \notin Sampled(sig)
           /\ Recorded(sig)' = Recorded(sig)
                \cup (IF u = sig /\ R.pc = "over" THEN {c} ELSE {})
           /\ RecordedNow(sig)' = RecordedNow(sig)
                \cup (IF u = sig /\ R.pc = "over" THEN {c} ELSE {})
           /\ Sampled(sig)' = Sampled(sig) \cup (IF u = sig THEN {c} ELSE {})
           /\ \A e \in Sampled(sig) : Lasted'[e] = Lasted[e]
           /\ SampledBy(Sampled(sig)', Lasted', window'[sig])
           /\ Len(window'[sig]) = Min({WindowSize, Cardinality(Sampled(sig)')})
  <1> USE DEF Samples
  <1>0. /\ call[c].duration = -1 /\ d \in Nat /\ d # -1
        /\ window \in [Signatures -> Seq(Nat)]
        /\ \A s \in Signatures : Len(window[s]) <= WindowSize
        /\ \A e \in Calls : call'[e] = IF e = c THEN R ELSE call[e]
    <2>1. call[c].duration = -1
      BY RecordFacts DEF CallFine
    <2>2. d \in Nat /\ d # -1
      BY TargetsAssumption
    <2>3. /\ window \in [Signatures -> Seq(Nat)] /\ call \in [Calls -> CallRecords]
          /\ \A s \in Signatures : Len(window[s]) <= WindowSize
      BY TypeFacts
    <2> QED
      BY <2>1, <2>2, <2>3
  <1>1. c \notin Recorded(sig) /\ c \notin Sampled(sig)
    BY <1>0 DEF Recorded, Sampled
  <1>2. Recorded(sig)' = Recorded(sig)
           \cup (IF u = sig /\ R.pc = "over" THEN {c} ELSE {})
    BY <1>0 DEF Recorded
  <1>3. RecordedNow(sig)' = RecordedNow(sig)
           \cup (IF u = sig /\ R.pc = "over" THEN {c} ELSE {})
    <2>1. \A e : e \in RecordedNow(sig)' <=>
                    e \in Recorded(sig)' /\ call'[e].epoch = restarts
      BY DEF RecordedNow
    <2>2. \A e : e \in RecordedNow(sig) <=>
                    e \in Recorded(sig) /\ call[e].epoch = restarts
      BY DEF RecordedNow
    <2>3. (\A e \in Recorded(sig) : call'[e] = call[e]) /\ call'[c] = R
      BY <1>0, <1>1 DEF Recorded
    <2>4. \A e : e \in RecordedNow(sig)' <=>
                    e \in RecordedNow(sig)
                          \cup (IF u = sig /\ R.pc = "over" THEN {c} ELSE {})
      BY <1>2, <2>1, <2>2, <2>3
    <2> QED
      BY <2>4
  <1>4. Sampled(sig)' = Sampled(sig) \cup (IF u = sig THEN {c} ELSE {})
    BY <1>0 DEF Sampled
  <1>5. Lasted'[c] = d /\ \A e \in Sampled(sig) : Lasted'[e] = Lasted[e]
    <2>1. \A e \in Calls : Lasted[e] = call[e].duration /\ Lasted'[e] = call'[e].duration
      BY DEF Lasted
    <2> QED
      BY <1>0, <1>1, <2>1, RunSets
  <1>6. /\ IsFiniteSet(Sampled(sig)) /\ window[sig] \in Seq(Nat)
        /\ Len(window[sig]) <= WindowSize
        /\ SampledBy(Sampled(sig), Lasted, window[sig])
        /\ Len(window[sig]) = Min({WindowSize, Cardinality(Sampled(sig))})
    BY <1>0, RunSets DEF RowsFine, RowFine
  <1>7. /\ SampledBy(Sampled(sig)', Lasted', window'[sig])
        /\ Len(window'[sig]) = Min({WindowSize, Cardinality(Sampled(sig)')})
    <2>1. CASE u # sig
      <3>1. window'[sig] = window[sig] /\ Sampled(sig)' = Sampled(sig)
        BY <1>0, <1>4, <2>1
      <3>2. PICK H : H = Lasted'
        OBVIOUS
      <3>3. \A e \in Sampled(sig) : H[e] = Lasted[e]
        BY <1>5, <3>2
      <3>4. SampledBy(Sampled(sig), H, window[sig])
        BY <1>6, <3>3, SampledKept
      <3> QED
        BY <1>6, <3>1, <3>2, <3>4
    <2>2. CASE u = sig
      <3>1. PICK H : H = Lasted'
        OBVIOUS
      <3>2. PICK F : F = Lasted
        OBVIOUS
      <3>3. PICK W \in Seq(Nat) : W = window[sig]
        BY <1>6
      <3>4. PICK D : D = Sampled(sig)
        OBVIOUS
      <3>5. NewSample(D, F, W, c, d, H)
        BY <1>0, <1>1, <1>5, <1>6, <3>1, <3>2, <3>3, <3>4 DEF NewSample
      <3>6. /\ SampledBy(D \cup {c}, H, Append1(W, d))
            /\ Len(Append1(W, d)) = Min({WindowSize, Cardinality(D \cup {c})})
        <4>1. SampledBy(D \cup {c}, H, Append1(W, d))
          BY <3>5, SampleAdded
        <4>2. Filled(D \cup {c}, Append1(W, d))
          BY <3>5, SampleAdded
        <4> QED
          BY <4>1, <4>2 DEF Filled
      <3>7. window'[sig] = Append1(W, d) /\ Sampled(sig)' = D \cup {c}
        BY <1>0, <1>4, <2>2, <3>3, <3>4
      <3> QED
        BY <3>1, <3>6, <3>7
    <2> QED
      BY <2>1, <2>2
  <1> QED
    BY <1>1, <1>2, <1>3, <1>4, <1>5, <1>7

\* A summary of the samples so far is one of the samples then, as long as no run was
\* recorded.
LEMMA SummaryStays ==
    ASSUME NEW sig \in Signatures, RowFine(sig), row'[sig] = row[sig],
           RecordedNow(sig)' = RecordedNow(sig), Sampled(sig) \subseteq Sampled(sig)',
           \A e \in Sampled(sig) : Lasted'[e] = Lasted[e]
    PROVE  RecordedNow(sig)' # {} =>
             Summarised(Sampled(sig)', Lasted', row'[sig].p90, Cardinality(RecordedNow(sig)'))
  <1> SUFFICES ASSUME RecordedNow(sig) # {}
               PROVE  Summarised(Sampled(sig)', Lasted', row[sig].p90,
                                 Cardinality(RecordedNow(sig)))
    OBVIOUS
  <1>1. PICK H : H = Lasted'
    OBVIOUS
  <1>2. PICK F : F = Lasted
    OBVIOUS
  <1>3. PICK E : E = Sampled(sig)'
    OBVIOUS
  <1>4. PICK D : D = Sampled(sig)
    OBVIOUS
  <1>5. PICK p : p = row[sig].p90
    OBVIOUS
  <1>6. PICK k : k = Cardinality(RecordedNow(sig))
    OBVIOUS
  <1>7. D \subseteq E /\ (\A e \in D : H[e] = F[e]) /\ Summarised(D, F, p, k)
    BY <1>1, <1>2, <1>3, <1>4, <1>5, <1>6 DEF RowFine
  <1>8. Summarised(E, H, p, k)
    BY <1>7, SummaryKept
  <1> QED
    BY <1>1, <1>3, <1>5, <1>6, <1>8

\* A run that the store refuses is in the window; the row and what it counts stay.
LEMMA RecordFailsRows ==
    ASSUME Typed, RowsFine, NEW c \in Calls, NEW d \in Durations, RecordFails(c, d)
    PROVE  RowsFine'
  <1> DEFINE R == [Over EXCEPT !.pc = "failing", !.sig = call[c].sig, !.duration = d,
                               !.epoch = restarts]
  <1>0. /\ call[c].pc = "recording" /\ call[c].sig \in Signatures /\ Over \in CallRecords
    BY RecordFacts DEF RecordFails, CallFine
  <1>1. PICK u \in Signatures : u = call[c].sig
    BY <1>0
  <1>2. /\ call' = [call EXCEPT ![c] = R] /\ restarts' = restarts
        /\ window' = [window EXCEPT ![u] = Append1(@, d)] /\ row' = row
    BY <1>1 DEF RecordFails
  <1>3. R.sig = u /\ R.duration = d /\ R.epoch = restarts /\ R.pc = "failing"
    BY <1>1 DEF Over, NewCall
  <1> HIDE DEF R
  <1> SUFFICES ASSUME NEW sig \in Signatures
               PROVE  RowFine(sig)'
    BY DEF RowsFine
  <1>4. /\ Recorded(sig)' = Recorded(sig) /\ RecordedNow(sig)' = RecordedNow(sig)
        /\ Sampled(sig) \subseteq Sampled(sig)'
        /\ \A e \in Sampled(sig) : Lasted'[e] = Lasted[e]
        /\ SampledBy(Sampled(sig)', Lasted', window'[sig])
        /\ Len(window'[sig]) = Min({WindowSize, Cardinality(Sampled(sig)')})
    <2>1. /\ Recorded(sig)' = Recorded(sig)
                \cup (IF u = sig /\ R.pc = "over" THEN {c} ELSE {})
          /\ RecordedNow(sig)' = RecordedNow(sig)
                \cup (IF u = sig /\ R.pc = "over" THEN {c} ELSE {})
          /\ Sampled(sig)' = Sampled(sig) \cup (IF u = sig THEN {c} ELSE {})
          /\ \A e \in Sampled(sig) : Lasted'[e] = Lasted[e]
          /\ SampledBy(Sampled(sig)', Lasted', window'[sig])
          /\ Len(window'[sig]) = Min({WindowSize, Cardinality(Sampled(sig)')})
      <3>1. PICK X : X = R
        OBVIOUS
      <3>2. Samples(c, d, u, X)
        BY <1>0, <1>2, <1>3, <3>1 DEF Samples
      <3> QED
        BY <3>1, <3>2, SampleTaken
    <2> QED
      BY <1>3, <2>1
  <1>5. RowFine(sig)
    BY DEF RowsFine
  <1>6. row'[sig].count = Cardinality(Recorded(sig)')
    BY <1>2, <1>4, <1>5 DEF RowFine
  <1>7. RecordedNow(sig)' # {} =>
          Summarised(Sampled(sig)', Lasted', row'[sig].p90, Cardinality(RecordedNow(sig)'))
    BY <1>2, <1>4, <1>5, SummaryStays
  <1> QED
    BY <1>4, <1>6, <1>7 DEF RowFine

\* A recorded run is counted, sampled and summarised.
LEMMA RecordRows ==
    ASSUME Typed, RowsFine, NEW c \in Calls, NEW d \in Durations, Record(c, d)
    PROVE  RowsFine'
  <1> DEFINE R == [Over EXCEPT !.sig = call[c].sig, !.duration = d, !.epoch = restarts]
  <1>0. /\ call[c].pc = "recording" /\ call[c].sig \in Signatures /\ d \in Nat
        /\ window \in [Signatures -> Seq(Nat)]
        /\ row \in [Signatures -> [count: Nat, p90: Nat]]
        /\ \A s \in Signatures : Len(window[s]) <= WindowSize
    <2>1. call[c].pc = "recording" /\ call[c].sig \in Signatures
      BY RecordFacts DEF Record, CallFine
    <2>2. /\ window \in [Signatures -> Seq(Nat)]
          /\ row \in [Signatures -> [count: Nat, p90: Nat]]
          /\ \A s \in Signatures : Len(window[s]) <= WindowSize
      BY TypeFacts
    <2>3. d \in Nat
      BY TargetsAssumption
    <2> QED
      BY <2>1, <2>2, <2>3
  <1>1. PICK u \in Signatures : u = call[c].sig
    BY <1>0
  <1> DEFINE v == Append1(window[u], d)
  <1>2. /\ call' = [call EXCEPT ![c] = R] /\ restarts' = restarts
        /\ window' = [window EXCEPT ![u] = Append1(@, d)]
        /\ row' = [row EXCEPT ![u] = Upserted(@, v)]
    BY <1>1 DEF Record
  <1>3. R.sig = u /\ R.duration = d /\ R.epoch = restarts /\ R.pc = "over"
    BY <1>1 DEF Over, NewCall
  <1> HIDE DEF R
  <1> SUFFICES ASSUME NEW sig \in Signatures
               PROVE  RowFine(sig)'
    BY DEF RowsFine
  <1>4. /\ c \notin Recorded(sig) /\ c \notin Sampled(sig)
        /\ Recorded(sig)' = Recorded(sig) \cup (IF u = sig THEN {c} ELSE {})
        /\ RecordedNow(sig)' = RecordedNow(sig) \cup (IF u = sig THEN {c} ELSE {})
        /\ Sampled(sig)' = Sampled(sig) \cup (IF u = sig THEN {c} ELSE {})
        /\ \A e \in Sampled(sig) : Lasted'[e] = Lasted[e]
        /\ SampledBy(Sampled(sig)', Lasted', window'[sig])
        /\ Len(window'[sig]) = Min({WindowSize, Cardinality(Sampled(sig)')})
    <2>1. /\ c \notin Recorded(sig) /\ c \notin Sampled(sig)
          /\ Recorded(sig)' = Recorded(sig)
                \cup (IF u = sig /\ R.pc = "over" THEN {c} ELSE {})
          /\ RecordedNow(sig)' = RecordedNow(sig)
                \cup (IF u = sig /\ R.pc = "over" THEN {c} ELSE {})
          /\ Sampled(sig)' = Sampled(sig) \cup (IF u = sig THEN {c} ELSE {})
          /\ \A e \in Sampled(sig) : Lasted'[e] = Lasted[e]
          /\ SampledBy(Sampled(sig)', Lasted', window'[sig])
          /\ Len(window'[sig]) = Min({WindowSize, Cardinality(Sampled(sig)')})
      <3>1. PICK X : X = R
        OBVIOUS
      <3>2. Samples(c, d, u, X)
        BY <1>0, <1>2, <1>3, <3>1 DEF Samples
      <3> QED
        BY <3>1, <3>2, SampleTaken
    <2> QED
      BY <1>3, <2>1
  <1>5. RowFine(sig)
    BY DEF RowsFine
  <1>6. CASE sig # u
    <2>1. /\ Recorded(sig)' = Recorded(sig) /\ RecordedNow(sig)' = RecordedNow(sig)
          /\ Sampled(sig)' = Sampled(sig) /\ row'[sig] = row[sig]
      BY <1>0, <1>2, <1>4, <1>6
    <2>2. row'[sig].count = Cardinality(Recorded(sig)')
      BY <1>5, <2>1 DEF RowFine
    <2>3. RecordedNow(sig)' # {} =>
            Summarised(Sampled(sig)', Lasted', row'[sig].p90, Cardinality(RecordedNow(sig)'))
      BY <1>4, <1>5, <2>1, SummaryStays
    <2> QED
      BY <1>4, <2>2, <2>3 DEF RowFine
  <1>7. CASE sig = u
    <2>1. /\ Recorded(sig)' = Recorded(sig) \cup {c}
          /\ window'[sig] = v /\ row'[sig].count = row[sig].count + 1
          /\ row'[sig].p90 = P90(v)
      BY <1>0, <1>2, <1>4, <1>7 DEF Upserted
    <2>2. row'[sig].count = Cardinality(Recorded(sig)')
      <3>1. Cardinality(Recorded(sig) \cup {c}) = Cardinality(Recorded(sig)) + 1
        BY <1>4, RunSets, FS_AddElement
      <3> QED
        BY <1>5, <2>1, <3>1 DEF RowFine
    <2>3. v \in Seq(Nat) /\ Len(v) >= 1
      BY <1>0, Append1Facts
    <2> HIDE DEF v
    <2>4. PICK D : D = Sampled(sig)'
      OBVIOUS
    <2>5. PICK K : K = RecordedNow(sig)'
      OBVIOUS
    <2>6. PICK H : H = Lasted'
      OBVIOUS
    <2>7. IsFiniteSet(D) /\ K \subseteq D
      <3>1. D = Sampled(sig) \cup {c} /\ K = RecordedNow(sig) \cup {c}
        BY <1>4, <1>7, <2>4, <2>5
      <3> QED
        BY <3>1, RunSets, FS_AddElement
    <2>8. Cardinality(K) \in Nat /\ Cardinality(K) <= Cardinality(D)
      BY <2>7, FS_Subset, FS_CardinalityType
    <2>9. SampledBy(D, H, v) /\ Len(v) = Min({WindowSize, Cardinality(D)})
      BY <1>4, <2>1, <2>4, <2>6
    <2>10. Summarised(D, H, P90(v), Cardinality(K))
      BY <2>3, <2>7, <2>8, <2>9, WindowSummarises
    <2>11. Summarised(Sampled(sig)', Lasted', row'[sig].p90, Cardinality(RecordedNow(sig)'))
      BY <2>1, <2>4, <2>5, <2>6, <2>10
    <2> QED
      BY <1>4, <2>2, <2>11 DEF RowFine
  <1> QED
    BY <1>6, <1>7

\* Every step keeps the rows in agreement with the windows and the runs.
LEMMA RowsNext ==
    ASSUME Typed, RowsFine, [Next]_vars
    PROVE  RowsFine'
  <1>1. ASSUME call' = call, window' = window, row' = row, restarts' = restarts
        PROVE  RowsFine'
    BY <1>1, RowsKept
  <1>2. ASSUME NEW c \in Calls, NEW R, R.duration = -1, call[c].duration = -1,
               call' = [call EXCEPT ![c] = R], row' = row, window' = window,
               restarts' = restarts
        PROVE  RowsFine'
    <2>1. \A d \in Calls : call'[d] = IF d = c THEN R ELSE call[d]
      BY <1>2, TypeFacts
    <2> QED
      BY <1>2, <2>1, RowsKept
  <1>3. ASSUME NEW c \in Calls, CallStep(c)
        PROVE  RowsFine'
    <2>0. call[c] \in CallRecords /\ CallFine(call[c], restarts)
      BY RecordFacts
    <2>1. CASE \/ AskHistory(c) \/ CheckHistory(c) \/ NotRecorded(c)
               \/ \E args \in Args, read \in BOOLEAN : ToolRequest(c, args, read)
      <3>1. QuietStep(c)
        BY <2>1 DEF QuietStep
      <3>2. PICK R \in CallRecords : call' = [call EXCEPT ![c] = R] /\ QuietRecord(c, R)
        BY <3>1, QuietMoves
      <3>3. /\ call[c].pc \in {"idle", "asking", "ended"}
            /\ row' = row /\ window' = window
        BY <2>1 DEF AskHistory, CheckHistory, NotRecorded, ToolRequest, history
      <3>4. R.duration = -1 /\ call[c].duration = -1
        BY <2>0, <3>2, <3>3 DEF QuietRecord, CallFine
      <3> QED
        BY <1>2, <3>1, <3>2, <3>3, <3>4, QuietKeeps
    <2>2. ASSUME NEW x, call' = [call EXCEPT ![c].pc = x],
                 call[c].pc \in {"chosen", "running"}, UNCHANGED history,
                 restarts' = restarts
          PROVE  RowsFine'
      <3> DEFINE R == [call[c] EXCEPT !.pc = x]
      <3>1. call' = [call EXCEPT ![c] = R] /\ row' = row /\ window' = window
        BY <2>2 DEF history
      <3>2. R.duration = -1 /\ call[c].duration = -1
        BY <2>0, <2>2 DEF CallRecords, CallFine
      <3> HIDE DEF R
      <3> QED
        BY <1>2, <2>2, <3>1, <3>2
    <2>3. CASE RegisterProcess(c)
      BY <2>2, <2>3 DEF RegisterProcess
    <2>4. CASE PostToolCall(c)
      BY <2>2, <2>4 DEF PostToolCall
    <2>5. CASE CallLost(c)
      BY <2>2, <2>5 DEF CallLost
    <2>6. CASE Disable(c)
      <3> DEFINE R == [call[c] EXCEPT !.pc = "unstored"]
      <3>1. /\ call' = [call EXCEPT ![c] = R] /\ call[c].pc = "failing"
            /\ row' = row /\ window' = window /\ restarts' = restarts
        BY <2>6 DEF Disable
      <3>2. /\ R.duration = call[c].duration /\ R.sig = call[c].sig
            /\ R.epoch = call[c].epoch /\ R.pc = "unstored"
        BY <2>0 DEF CallRecords
      <3> HIDE DEF R
      <3>3. \A d \in Calls : call'[d] = IF d = c THEN R ELSE call[d]
        BY <3>1, TypeFacts
      <3>4. \A d \in Calls :
               /\ call'[d].duration = call[d].duration
               /\ call'[d].sig = call[d].sig /\ call'[d].epoch = call[d].epoch
               /\ (call'[d].pc = "over") <=> (call[d].pc = "over")
        BY <3>1, <3>2, <3>3
      <3> QED
        BY <3>1, <3>4, RowsKept
    <2> QED
      BY <1>3, <2>1, <2>3, <2>4, <2>5, <2>6, RecordRows, RecordFailsRows DEF CallStep
  <1>4. CASE Restart
    <2>0. /\ \A c \in Calls : CallFine(call[c], restarts) /\ call[c] \in CallRecords
          /\ restarts \in Nat /\ restarts' = restarts + 1 /\ MaxRestarts \in Nat
          /\ Over.duration = -1 /\ Over.epoch = 0 /\ row' = row
          /\ call' = [c \in Calls |-> IF call[c].pc \in {"idle", "over"} THEN call[c]
                                      ELSE Over]
      BY <1>4, TypeFacts, TargetsAssumption DEF Typed, Restart, Over, NewCall
    <2>1. \A c \in Calls :
             (call'[c].pc = "over" /\ call'[c].duration # -1)
                <=> (call[c].pc = "over" /\ call[c].duration # -1)
      BY <2>0 DEF CallFine
    <2>2. \A c \in Calls : call[c].pc = "over" => call'[c] = call[c]
      BY <2>0
    <2> SUFFICES ASSUME NEW sig \in Signatures
                 PROVE  RowFine(sig)'
      BY DEF RowsFine
    <2>3. Recorded(sig)' = Recorded(sig)
      BY <2>1, <2>2 DEF Recorded
    <2>4. Sampled(sig)' = {}
      <3>1. \A c \in Calls : call'[c].epoch \in Nat /\ call'[c].epoch <= restarts
        BY <2>0 DEF CallFine, CallRecords
      <3>2. \A c \in Calls : call'[c].epoch # restarts'
        BY <2>0, <3>1
      <3> QED
        BY <3>2 DEF Sampled
    <2>5. RecordedNow(sig)' = {}
      BY <2>4 DEF RecordedNow, Recorded, Sampled
    <2>6. window'[sig] = <<>>
      BY <1>4 DEF Restart
    <2>7. row'[sig].count = Cardinality(Recorded(sig)')
      BY <2>0, <2>3 DEF RowsFine, RowFine
    <2>8. /\ SampledBy(Sampled(sig)', Lasted', window'[sig])
          /\ Len(window'[sig]) = Min({WindowSize, Cardinality(Sampled(sig)')})
      BY <2>4, <2>6, NothingSampled
    <2> QED
      BY <2>5, <2>7, <2>8 DEF RowFine
  <1>5. CASE \E a \in Agents : SubagentStart(a) \/ SubagentStop(a)
    BY <1>1, <1>5 DEF SubagentStart, SubagentStop, history
  <1>6. CASE \E s \in Sessions : SessionBegins(s)
    BY <1>1, <1>6 DEF SessionBegins, history
  <1>7. CASE UNCHANGED vars
    BY <1>1, <1>7 DEF vars
  <1> QED
    BY <1>3, <1>4, <1>5, <1>6, <1>7 DEF Next

\* What the learned promotion rests on: a row counts every run that was recorded,
\* across restarts of the process, and once this process has recorded a run its p90
\* is a ninetieth percentile of observed runs: of a full window of them, or of all
\* it recorded.  A store that fails leaves the row at the runs it counts; the run it
\* refused stays in the window, and another thread that was past the test of the
\* switch records a percentile over it before or after the history is off.
THEOREM RowsSummariseRuns == Spec => []RowSummarisesRuns
  <1>1. Init => Typed /\ RowsFine
    <2> SUFFICES ASSUME Init, NEW sig \in Signatures PROVE RowFine(sig)
      BY TypedInit DEF RowsFine
    <2>1. Recorded(sig) = {} /\ Sampled(sig) = {} /\ RecordedNow(sig) = {}
      BY DEF Init, Recorded, RecordedNow, Sampled, NewCall
    <2>2. row[sig].count = 0 /\ window[sig] = <<>>
      BY DEF Init, NoRow
    <2>3. Cardinality({}) = 0
      BY FS_EmptySet
    <2> QED
      BY <2>1, <2>2, <2>3, NothingSampled DEF RowFine
  <1>2. Typed /\ RowsFine /\ [Next]_vars => (Typed /\ RowsFine)'
    BY TypedNext, RowsNext
  <1>3. Typed /\ RowsFine => RowSummarisesRuns
    <2> SUFFICES ASSUME RowsFine, NEW sig \in Signatures, RecordedNow(sig) # {}
                 PROVE  \E S \in SUBSET Sampled(sig) :
                           LET n == Cardinality(S)
                               above == {c \in S : 10 * call[c].duration > row[sig].p90}
                               below == {c \in S : 10 * call[c].duration < row[sig].p90}
                           IN  /\ n <= WindowSize
                               /\ n >= Min({WindowSize, Cardinality(RecordedNow(sig))})
                               /\ 10 * Cardinality(above) <= n + 8
                               /\ 10 * Cardinality(below) <= 9 * (n - 1) + 10
      BY DEF RowSummarisesRuns, RowsFine, RowFine
    <2> DEFINE p == row[sig].p90
    <2>1. PICK S \in SUBSET Sampled(sig) :
              LET n == Cardinality(S)
                  above == {c \in S : 10 * Lasted[c] > p}
                  below == {c \in S : 10 * Lasted[c] < p}
              IN  /\ n <= WindowSize
                  /\ n >= Min({WindowSize, Cardinality(RecordedNow(sig))})
                  /\ 10 * Cardinality(above) <= n + 8
                  /\ 10 * Cardinality(below) <= 9 * (n - 1) + 10
      BY DEF RowsFine, RowFine, Summarised
    <2>2. \A c \in S : Lasted[c] = call[c].duration
      BY DEF Lasted, Sampled
    <2>3. /\ {c \in S : 10 * Lasted[c] > p} = {c \in S : 10 * call[c].duration > p}
          /\ {c \in S : 10 * Lasted[c] < p} = {c \in S : 10 * call[c].duration < p}
      BY <2>2
    <2> QED
      BY <2>1, <2>3
  <1> QED
    BY <1>1, <1>2, <1>3, PTL DEF Spec

=============================================================================
