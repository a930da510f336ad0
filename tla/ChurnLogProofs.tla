--------------------------- MODULE ChurnLogProofs ---------------------------
(***************************************************************************)
(* Proofs about ChurnLog, for every set of sessions and requests, every    *)
(* pattern table and every bound of the body cache.  The first part is     *)
(* about the detector alone: which causes it can give and with what        *)
(* confidence.  The second one proves the types, among them that the body  *)
(* cache holds a session once and no more sessions than its bound.  The    *)
(* third relates the body cache to the log and concludes that the causes   *)
(* and the attribution that are stored are true of the requests, and that  *)
(* what is counted from them is within what the requests themselves show.  *)
(***************************************************************************)
EXTENDS ChurnLog, FiniteSetTheorems, WellFoundedInduction, TLAPS

-----------------------------------------------------------------------------
(* Least and greatest positions *)

\* A nonempty set of natural numbers has a least element, and Min is it.
LEMMA LeastOf ==
    ASSUME NEW S \in SUBSET Nat, S # {}
    PROVE  Min(S) \in S /\ \A y \in S : Min(S) <= y
  <1>1. PICK x \in S : \A y \in S : ~(<<y, x>> \in OpToRel(<, Nat))
    BY WFMin, NatLessThanWellFounded
  <1>2. \A y \in S : ~(y < x)
    BY <1>1, Zenon DEF OpToRel
  <1>3. x \in Nat /\ \A y \in S : y \in Nat
    OBVIOUS
  <1>4. \A y \in S : x =< y
    BY <1>2, <1>3
  <1> QED
    BY <1>4 DEF Min

\* A nonempty set of positions has a last one, and Max is it.
LEMMA LastOf ==
    ASSUME NEW n \in Nat, NEW S \in SUBSET (1..n), S # {}
    PROVE  Max(S) \in S /\ \A y \in S : Max(S) >= y
  <1> DEFINE D == {m \in Nat : \E x \in S : m = n - x}
  <1>1. \A x \in S : x \in Nat /\ n - x \in Nat
    OBVIOUS
  <1>2. D \in SUBSET Nat /\ D # {}
    <2>1. PICK x \in S : TRUE
      OBVIOUS
    <2>2. n - x \in D
      BY <1>1
    <2> QED
      BY <2>2
  <1>3. Min(D) \in D /\ \A y \in D : Min(D) <= y
    <2> HIDE DEF D
    <2> QED
      BY <1>2, LeastOf
  <1>4. PICK x \in S : Min(D) = n - x
    BY <1>3
  <1>5. ASSUME NEW y \in S
        PROVE  x >= y
    <2>1. n - y \in D
      BY <1>1
    <2>2. n - x <= n - y
      BY <1>3, <1>4, <2>1
    <2> QED
      BY <1>1, <2>2
  <1> QED
    BY <1>5 DEF Max

-----------------------------------------------------------------------------
(* The detector *)

\* A confidence lies between 0.50 and the largest base of the table.
LEMMA ConfidenceBounds ==
    ASSUME NEW f, IsFiniteSet(f.flat), NEW base \in 50 .. 92
    PROVE  Confidence(base, f) \in 50 .. 92
  <1> DEFINE n == Cardinality(f.flat) - 1
             extra == Max({0, n})
             x == base - 10 * extra
  <1>1. Cardinality(f.flat) \in Nat
    BY FS_CardinalityType
  <1>2. n \in Int
    BY <1>1
  <1> HIDE DEF n
  <1>3. extra \in Nat
    <2>1. \E y \in {0, n} : \A z \in {0, n} : y >= z
      BY <1>2
    <2>2. extra \in {0, n} /\ \A z \in {0, n} : extra >= z
      BY <2>1 DEF Max
    <2> QED
      BY <1>2, <2>2
  <1> HIDE DEF extra
  <1>4. x \in Int /\ x <= 92
    BY <1>3
  <1> HIDE DEF x
  <1>5. \E y \in {50, x} : \A z \in {50, x} : y >= z
    BY <1>4
  <1>6. Max({50, x}) \in {50, x} /\ \A z \in {50, x} : Max({50, x}) >= z
    BY <1>5 DEF Max
  <1>7. Max({50, x}) \in 50 .. 92
    BY <1>4, <1>6
  <1> QED
    BY <1>7 DEF Confidence, x, extra, n

\* The five layers of a prompt.
LEMMA LayerNames ==
    /\ Len(Layers) = 5 /\ DOMAIN Layers = 1..5
    /\ Layers[1] = "system prefix" /\ Layers[2] = "system suffix"
    /\ Layers[3] = "tools" /\ Layers[4] = "history" /\ Layers[5] = "tail"
    /\ \A l : l \in ToSet(Layers) <=>
               l \in {"system prefix", "system suffix", "tools", "history", "tail"}
  <1>1. /\ Len(Layers) = 5 /\ DOMAIN Layers = 1..5
        /\ Layers[1] = "system prefix" /\ Layers[2] = "system suffix"
        /\ Layers[3] = "tools" /\ Layers[4] = "history" /\ Layers[5] = "tail"
    BY DEF Layers
  <1>2. \A l : l \in ToSet(Layers) <=> \E i \in 1..5 : l = Layers[i]
    BY <1>1 DEF ToSet
  <1>3. \A i \in 1..5 : i = 1 \/ i = 2 \/ i = 3 \/ i = 4 \/ i = 5
    OBVIOUS
  <1>4. ASSUME NEW l, l \in ToSet(Layers)
        PROVE  l \in {"system prefix", "system suffix", "tools", "history", "tail"}
    BY <1>1, <1>2, <1>3, <1>4
  <1>5. ASSUME NEW l, l \in {"system prefix", "system suffix", "tools", "history", "tail"}
        PROVE  l \in ToSet(Layers)
    <2>1. 1 \in 1..5 /\ 2 \in 1..5 /\ 3 \in 1..5 /\ 4 \in 1..5 /\ 5 \in 1..5
      OBVIOUS
    <2> QED
      BY <1>1, <1>2, <1>5, <2>1
  <1> QED
    BY <1>1, <1>4, <1>5

\* Which cause is found for a pair whose fingerprints differ, and what holds then.
CauseFits(f, cause) ==
    \/ cause \in {"route", "model", "key"} /\ cause \in f.flat
    \/ cause = "isolated suffix" /\ OnlySystemChanged(f)
    \/ cause \in ToSet(Layers) /\ f.layer[cause] = "changed"
    \/ cause = "flat system" /\ "system" \in f.flat
    \/ cause = "flat history" /\ "history" \in f.flat
    \/ /\ cause = "residual" /\ f.layer["tools"] # "changed"
       /\ f.flat \cap {"route", "model", "system", "history", "key"} = {}

\* The cause that is found fits what changed, with a confidence of the stated range.
LEMMA PrimaryFits ==
    ASSUME NEW f, IsFiniteSet(f.flat)
    PROVE  LET k == PrimaryCause(f, CauseTable(f, TRUE))
           IN  k.confidence \in 50 .. 92 /\ CauseFits(f, k.cause)
  <1> DEFINE T == CauseTable(f, TRUE)
             I == {j \in 1..Len(T) : T[j].holds}
             i == SelectInSeq(T, LAMBDA c : c.holds)
  <1>0. Len(T) = 13
    BY DEF CauseTable
  <1>r1. T[1].cause = "route" /\ T[1].base = 92 /\ (T[1].holds <=> "route" \in f.flat)
    BY DEF CauseTable
  <1>r2. T[2].cause = "model" /\ T[2].base = 85 /\ (T[2].holds <=> "model" \in f.flat)
    BY DEF CauseTable
  <1>r3. T[3].cause = "isolated suffix" /\ T[3].base = 85 /\ (T[3].holds => OnlySystemChanged(f))
    BY DEF CauseTable
  <1>r4. T[4].cause = "system suffix" /\ T[4].base = 85
       /\ (T[4].holds => f.layer["system suffix"] = "changed")
    BY DEF CauseTable
  <1>r5. T[5].cause = "system prefix" /\ T[5].base = 90
       /\ (T[5].holds <=> f.layer["system prefix"] = "changed")
    BY DEF CauseTable
  <1>r6. T[6].cause = "system suffix" /\ T[6].base = 85
       /\ (T[6].holds <=> f.layer["system suffix"] = "changed")
    BY DEF CauseTable
  <1>r7. T[7].cause = "tools" /\ T[7].base = 80 /\ (T[7].holds <=> f.layer["tools"] = "changed")
    BY DEF CauseTable
  <1>r8. T[8].cause = "history" /\ T[8].base = 75 /\ (T[8].holds <=> f.layer["history"] = "changed")
    BY DEF CauseTable
  <1>r9. T[9].cause = "tail" /\ T[9].base = 70 /\ (T[9].holds <=> f.layer["tail"] = "changed")
    BY DEF CauseTable
  <1>r10. T[10].cause = "flat system" /\ T[10].base = 65 /\ (T[10].holds <=> "system" \in f.flat)
    BY DEF CauseTable
  <1>r11. T[11].cause = "flat history" /\ T[11].base = 65 /\ (T[11].holds <=> "history" \in f.flat)
    BY DEF CauseTable
  <1>r12. T[12].cause = "key" /\ T[12].base = 70 /\ (T[12].holds <=> "key" \in f.flat)
    BY DEF CauseTable
  <1>r13. T[13].cause = "residual" /\ T[13].base = 60 /\ (T[13].holds)
    BY DEF CauseTable
  <1>1. Len(T) = 13 /\ T[13].holds
    BY <1>0, <1>r13
  <1>2. PrimaryCause(f, T) = IF i = 0 THEN [cause |-> "none", confidence |-> Absent]
                             ELSE [cause |-> T[i].cause,
                                   confidence |-> Confidence(T[i].base, f)]
    BY DEF PrimaryCause
  <1>3. i = IF I # {} THEN Min(I) ELSE 0
    BY DEF SelectInSeq
  <1> HIDE DEF T, i
  <1>4. I \in SUBSET Nat /\ 13 \in I
    BY <1>1
  <1>5. i \in I /\ \A j \in I : i <= j
    <2> HIDE DEF I
    <2> QED
      BY <1>3, <1>4, LeastOf
  <1>6. i \in 1..13 /\ T[i].holds /\ \A j \in 1..13 : T[j].holds => i <= j
    BY <1>1, <1>5
  <1>7. \/ i = 1 \/ i = 2 \/ i = 3 \/ i = 4 \/ i = 5 \/ i = 6 \/ i = 7
        \/ i = 8 \/ i = 9 \/ i = 10 \/ i = 11 \/ i = 12 \/ i = 13
    BY <1>6
  <1>8. T[i].base \in 50 .. 92 /\ CauseFits(f, T[i].cause)
    <2>1. CASE i = 13
      <3>1. T[13].cause = "residual"
        BY <1>r13
      <3>2. ~T[1].holds /\ ~T[2].holds /\ ~T[7].holds /\ ~T[10].holds /\ ~T[11].holds
            /\ ~T[12].holds
        BY <1>6, <2>1
      <3>3. /\ f.layer["tools"] # "changed" /\ "route" \notin f.flat /\ "model" \notin f.flat
            /\ "system" \notin f.flat /\ "history" \notin f.flat /\ "key" \notin f.flat
        BY <3>2, <1>r1, <1>r2, <1>r7, <1>r10, <1>r11, <1>r12
      <3> QED
        BY <2>1, <3>1, <3>3, <1>r13 DEF CauseFits
    <2>2. CASE i = 1
      <3>1. T[1].cause = "route" /\ (T[1].holds => "route" \in f.flat)
        BY <1>r1
      <3>2. T[i].base = 92
        BY <2>2, <1>r1, Zenon
      <3>3. CauseFits(f, T[i].cause)
        BY <1>6, <2>2, <3>1 DEF CauseFits
      <3> QED
        BY <3>2, <3>3
    <2>3. CASE i = 2
      <3>1. T[2].cause = "model" /\ (T[2].holds => "model" \in f.flat)
        BY <1>r2
      <3>2. T[i].base = 85
        BY <2>3, <1>r2, Zenon
      <3>3. CauseFits(f, T[i].cause)
        BY <1>6, <2>3, <3>1 DEF CauseFits
      <3> QED
        BY <3>2, <3>3
    <2>4. CASE i = 3
      <3>1. T[3].cause = "isolated suffix" /\ (T[3].holds => OnlySystemChanged(f))
        BY <1>r3
      <3>2. T[i].base = 85
        BY <2>4, <1>r3, Zenon
      <3>3. CauseFits(f, T[i].cause)
        BY <1>6, <2>4, <3>1 DEF CauseFits
      <3> QED
        BY <3>2, <3>3
    <2>5. CASE i = 4
      <3>1. T[4].cause = "system suffix" /\ (T[4].holds => f.layer["system suffix"] = "changed")
        BY <1>r4
      <3>2. T[i].base = 85
        BY <2>5, <1>r4, Zenon
      <3>3. CauseFits(f, T[i].cause)
        BY <1>6, <2>5, <3>1, LayerNames DEF CauseFits
      <3> QED
        BY <3>2, <3>3
    <2>6. CASE i = 5
      <3>1. T[5].cause = "system prefix" /\ (T[5].holds => f.layer["system prefix"] = "changed")
        BY <1>r5
      <3>2. T[i].base = 90
        BY <2>6, <1>r5, Zenon
      <3>3. CauseFits(f, T[i].cause)
        BY <1>6, <2>6, <3>1, LayerNames DEF CauseFits
      <3> QED
        BY <3>2, <3>3
    <2>7. CASE i = 6
      <3>1. T[6].cause = "system suffix" /\ (T[6].holds => f.layer["system suffix"] = "changed")
        BY <1>r6
      <3>2. T[i].base = 85
        BY <2>7, <1>r6, Zenon
      <3>3. CauseFits(f, T[i].cause)
        BY <1>6, <2>7, <3>1, LayerNames DEF CauseFits
      <3> QED
        BY <3>2, <3>3
    <2>8. CASE i = 7
      <3>1. T[7].cause = "tools" /\ (T[7].holds => f.layer["tools"] = "changed")
        BY <1>r7
      <3>2. T[i].base = 80
        BY <2>8, <1>r7, Zenon
      <3>3. CauseFits(f, T[i].cause)
        BY <1>6, <2>8, <3>1, LayerNames DEF CauseFits
      <3> QED
        BY <3>2, <3>3
    <2>9. CASE i = 8
      <3>1. T[8].cause = "history" /\ (T[8].holds => f.layer["history"] = "changed")
        BY <1>r8
      <3>2. T[i].base = 75
        BY <2>9, <1>r8, Zenon
      <3>3. CauseFits(f, T[i].cause)
        BY <1>6, <2>9, <3>1, LayerNames DEF CauseFits
      <3> QED
        BY <3>2, <3>3
    <2>10. CASE i = 9
      <3>1. T[9].cause = "tail" /\ (T[9].holds => f.layer["tail"] = "changed")
        BY <1>r9
      <3>2. T[i].base = 70
        BY <2>10, <1>r9, Zenon
      <3>3. CauseFits(f, T[i].cause)
        BY <1>6, <2>10, <3>1, LayerNames DEF CauseFits
      <3> QED
        BY <3>2, <3>3
    <2>11. CASE i = 10
      <3>1. T[10].cause = "flat system" /\ (T[10].holds => "system" \in f.flat)
        BY <1>r10
      <3>2. T[i].base = 65
        BY <2>11, <1>r10, Zenon
      <3>3. CauseFits(f, T[i].cause)
        BY <1>6, <2>11, <3>1 DEF CauseFits
      <3> QED
        BY <3>2, <3>3
    <2>12. CASE i = 11
      <3>1. T[11].cause = "flat history" /\ (T[11].holds => "history" \in f.flat)
        BY <1>r11
      <3>2. T[i].base = 65
        BY <2>12, <1>r11, Zenon
      <3>3. CauseFits(f, T[i].cause)
        BY <1>6, <2>12, <3>1 DEF CauseFits
      <3> QED
        BY <3>2, <3>3
    <2>13. CASE i = 12
      <3>1. T[12].cause = "key" /\ (T[12].holds => "key" \in f.flat)
        BY <1>r12
      <3>2. T[i].base = 70
        BY <2>13, <1>r12, Zenon
      <3>3. CauseFits(f, T[i].cause)
        BY <1>6, <2>13, <3>1 DEF CauseFits
      <3> QED
        BY <3>2, <3>3
    <2> QED
      BY <1>7, <2>1, <2>2, <2>3, <2>4, <2>5, <2>6, <2>7,
         <2>8, <2>9, <2>10, <2>11, <2>12, <2>13
  <1>9. Confidence(T[i].base, f) \in 50 .. 92
    BY <1>8, ConfidenceBounds
  <1>10. /\ PrimaryCause(f, T).cause = T[i].cause
         /\ PrimaryCause(f, T).confidence = Confidence(T[i].base, f)
    <2>1. i # 0
      BY <1>6
    <2> QED
      BY <1>2, <2>1
  <1>11. PrimaryCause(f, T).confidence \in 50 .. 92 /\ CauseFits(f, PrimaryCause(f, T).cause)
    BY <1>8, <1>9, <1>10
  <1> QED
    BY <1>11 DEF T

\* A sequence of pieces, as RequestsAssumption says of the parts of a request.
Given(x) == x \in Seq(ToSet(x)) /\ Absent \notin Seq(ToSet(x))

\* A part of a sequence of pieces is a digest that is not absent.
LEMMA PartGiven ==
    ASSUME NEW x, Given(x), NEW m \in Nat, m >= 1, NEW n \in Int, n <= Len(x)
    PROVE  SubSeq(x, m, n) # Absent
  <1> DEFINE S == ToSet(x)
  <1>1. x \in Seq(S) /\ Absent \notin Seq(S)
    BY DEF Given
  <1> HIDE DEF S
  <1>2. SubSeq(x, m, n) \in Seq(S)
    BY <1>1
  <1> QED
    BY <1>1, <1>2

\* The boundary of the system prompt lies within it.
LEMMA PrefixWithin ==
    ASSUME NEW x, Given(x)
    PROVE  PrefixLength(x) \in 0 .. Len(x) /\ Len(x) \in Nat
  <1> DEFINE first(k) == SelectInSeq(x, LAMBDA p : Kind[p] = k)
             hit == SelectInSeq(Patterns, LAMBDA k : first(k) # 0)
             J == {i \in 1..Len(Patterns) : first(Patterns[i]) # 0}
  <1>1. Len(x) \in Nat /\ Len(Patterns) \in Nat
    <2>1. x \in Seq(ToSet(x)) /\ Patterns \in Seq(ToSet(Patterns))
      BY ChurnAssumption DEF Given
    <2> QED
      BY <2>1
  <1>2. ASSUME NEW k
        PROVE  first(k) \in 0 .. Len(x)
    <2> DEFINE I == {i \in 1..Len(x) : Kind[x[i]] = k}
    <2>1. first(k) = IF I # {} THEN Min(I) ELSE 0
      BY DEF SelectInSeq
    <2>2. I \in SUBSET Nat /\ \A i \in I : i \in 1..Len(x)
      BY <1>1
    <2> HIDE DEF I
    <2>3. I # {} => Min(I) \in I
      BY <2>2, LeastOf
    <2> QED
      BY <1>1, <2>1, <2>2, <2>3
  <1>3. PrefixLength(x) = IF hit = 0 THEN Len(x) ELSE first(Patterns[hit]) - 1
    BY DEF PrefixLength
  <1>4. hit = IF J # {} THEN Min(J) ELSE 0
    BY DEF SelectInSeq
  <1> HIDE DEF hit, first
  <1>5. J \in SUBSET Nat /\ \A i \in J : first(Patterns[i]) # 0
    BY <1>1
  <1> HIDE DEF J
  <1>6. hit # 0 => first(Patterns[hit]) # 0
    BY <1>4, <1>5, LeastOf
  <1>7. first(Patterns[hit]) \in 0 .. Len(x)
    BY <1>2
  <1> QED
    BY <1>1, <1>3, <1>6, <1>7

\* What a snapshot holds: every layer has a text, which the prompt, the tools or the
\* conversation determine, and the flat fields are the content's.
LEMMA HashesFacts ==
    ASSUME NEW c, Given(c.system), Given(c.tools), Given(c.messages)
    PROVE  LET h == ToHashes(c)
               n == Len(c.messages)
           IN  /\ h.texts["system prefix"] = SplitSystem(c.system)[1]
               /\ h.texts["system suffix"] = SplitSystem(c.system)[2]
               /\ h.texts["tools"] = c.tools
               /\ h.texts["history"] = SubSeq(c.messages, 1, n - 1)
               /\ h.texts["tail"] = SubSeq(c.messages, Max({1, n}), n)
               /\ \A l \in ToSet(Layers) : h.texts[l] # Absent
               /\ h.system = c.system /\ h.tools = c.tools /\ h.history = c.messages
               /\ h.route = c.route /\ h.model = c.model /\ h.key = c.key
  <1> DEFINE h == ToHashes(c)
             n == Len(c.messages)
             m == PrefixLength(c.system)
  <1>1. /\ "system prefix" \in ToSet(Layers) /\ "system suffix" \in ToSet(Layers)
        /\ "tools" \in ToSet(Layers) /\ "history" \in ToSet(Layers)
        /\ "tail" \in ToSet(Layers)
    BY LayerNames
  <1>2. /\ h.texts["system prefix"] = SplitSystem(c.system)[1]
        /\ h.texts["system suffix"] = SplitSystem(c.system)[2]
        /\ h.texts["tools"] = c.tools
        /\ h.texts["history"] = SubSeq(c.messages, 1, n - 1)
        /\ h.texts["tail"] = SubSeq(c.messages, Max({1, n}), n)
    BY <1>1 DEF ToHashes
  <1>3. /\ h.system = c.system /\ h.tools = c.tools /\ h.history = c.messages
        /\ h.route = c.route /\ h.model = c.model /\ h.key = c.key
    BY DEF ToHashes
  <1> HIDE DEF h
  <1>4. n \in Nat
    BY DEF Given
  <1>5. m \in 0 .. Len(c.system) /\ Len(c.system) \in Nat
    BY PrefixWithin
  <1>6. SplitSystem(c.system)[1] # Absent /\ SplitSystem(c.system)[2] # Absent
    <2>1. /\ SplitSystem(c.system)[1] = SubSeq(c.system, 1, m)
          /\ SplitSystem(c.system)[2] = SubSeq(c.system, m + 1, Len(c.system))
      BY DEF SplitSystem
    <2> HIDE DEF m
    <2>2. m \in Int /\ m <= Len(c.system) /\ m + 1 \in Nat /\ m + 1 >= 1
          /\ Len(c.system) \in Int
      BY <1>5
    <2> DEFINE x == c.system
    <2>x. Given(x) /\ m <= Len(x) /\ Len(x) \in Int /\ Len(x) <= Len(x) /\ 1 \in Nat /\ 1 >= 1
      BY <2>2
    <2> HIDE DEF x
    <2>a. SubSeq(x, 1, m) # Absent
      BY <2>2, <2>x, PartGiven
    <2>b. SubSeq(x, m + 1, Len(x)) # Absent
      BY <2>2, <2>x, PartGiven
    <2>3. SubSeq(c.system, 1, m) # Absent
      BY <2>a DEF x
    <2>4. SubSeq(c.system, m + 1, Len(c.system)) # Absent
      BY <2>b DEF x
    <2> QED
      BY <2>1, <2>3, <2>4
  <1>7. Max({1, n}) \in Nat /\ Max({1, n}) >= 1
    <2> HIDE DEF n
    <2>1. \E y \in {1, n} : \A z \in {1, n} : y >= z
      BY <1>4
    <2>2. Max({1, n}) \in {1, n} /\ \A z \in {1, n} : Max({1, n}) >= z
      BY <2>1 DEF Max
    <2> QED
      BY <1>4, <2>2
  <1>8. SubSeq(c.messages, 1, n - 1) # Absent /\ SubSeq(c.messages, Max({1, n}), n) # Absent
    <2>1. n - 1 \in Int /\ n - 1 <= Len(c.messages) /\ n \in Int /\ n <= Len(c.messages)
      BY <1>4
    <2> DEFINE x == c.messages
    <2>a. Given(x) /\ n - 1 <= Len(x) /\ 1 \in Nat /\ 1 >= 1
      BY <2>1
    <2> HIDE DEF x, n
    <2>b. SubSeq(x, 1, n - 1) # Absent
      BY <2>1, <2>a, PartGiven
    <2>2. SubSeq(c.messages, 1, n - 1) # Absent
      BY <2>b DEF x
    <2>3. SubSeq(c.messages, Max({1, n}), n) # Absent
      BY <1>7, <2>1, PartGiven
    <2> QED
      BY <2>2, <2>3
  <1>9. c.tools # Absent
    BY DEF Given
  <1>10. \A l \in ToSet(Layers) : h.texts[l] # Absent
    BY <1>2, <1>6, <1>8, <1>9, LayerNames
  <1> QED
    BY <1>2, <1>3, <1>10 DEF h

\* The first divergent layer, and that the layers before it are equal.
LEMMA DivergenceFacts ==
    ASSUME NEW a, NEW b
    PROVE  LET d == FirstDivergence(a, b)
           IN  /\ d \in 0..5
               /\ d # 0 => a.texts[Layers[d]] # b.texts[Layers[d]]
               /\ \A i \in 1..5 : d # 0 /\ i < d => a.texts[Layers[i]] = b.texts[Layers[i]]
  <1> DEFINE I == {i \in 1..Len(Layers) : a.texts[Layers[i]] # b.texts[Layers[i]]}
             d == FirstDivergence(a, b)
  <1>1. d = IF I # {} THEN Min(I) ELSE 0
    BY DEF FirstDivergence, SelectInSeq
  <1> HIDE DEF d
  <1>2. Len(Layers) = 5
    BY LayerNames
  <1>3. /\ I \in SUBSET Nat /\ \A i : i \in I =>
                i \in 1..5 /\ a.texts[Layers[i]] # b.texts[Layers[i]]
        /\ \A i \in 1..5 : a.texts[Layers[i]] # b.texts[Layers[i]] => i \in I
    BY <1>2
  <1> HIDE DEF I
  <1>4. I # {} => Min(I) \in I /\ \A i \in I : Min(I) <= i
    BY <1>3, LeastOf
  <1>5. /\ d \in 0..5
        /\ d # 0 => a.texts[Layers[d]] # b.texts[Layers[d]]
    BY <1>1, <1>3, <1>4
  <1>6. ASSUME NEW i \in 1..5, d # 0, i < d
        PROVE  a.texts[Layers[i]] = b.texts[Layers[i]]
    <2>1. I # {} /\ d = Min(I)
      BY <1>1, <1>6
    <2>2. i \notin I
      BY <1>4, <1>5, <1>6, <2>1
    <2> QED
      BY <1>3, <2>2
  <1> QED
    BY <1>5, <1>6 DEF d

\* The flat digests are finitely many.
LEMMA FlatFinite == IsFiniteSet(FlatFields)
  <1>1. IsFiniteSet({})
    BY FS_EmptySet
  <1>2. IsFiniteSet({"system"} \cup {})
    BY <1>1, FS_AddElement
  <1>3. IsFiniteSet({"system"} \cup {"tools"})
    BY <1>2, FS_AddElement
  <1>4. IsFiniteSet(({"system"} \cup {"tools"}) \cup {"history"})
    BY <1>3, FS_AddElement
  <1>5. IsFiniteSet((({"system"} \cup {"tools"}) \cup {"history"}) \cup {"route"})
    BY <1>4, FS_AddElement
  <1>6. IsFiniteSet(((({"system"} \cup {"tools"}) \cup {"history"}) \cup {"route"})
                      \cup {"model"})
    BY <1>5, FS_AddElement
  <1>7. IsFiniteSet((((({"system"} \cup {"tools"}) \cup {"history"}) \cup {"route"})
                      \cup {"model"}) \cup {"key"})
    BY <1>6, FS_AddElement
  <1>8. FlatFields = (((({"system"} \cup {"tools"}) \cup {"history"}) \cup {"route"})
                      \cup {"model"}) \cup {"key"}
    BY DEF FlatFields
  <1> QED
    BY <1>7, <1>8

\* The causes a churn row can have, by digests and by content.
LEMMA HashesClassified ==
    ASSUME NEW a, NEW b
    PROVE  LET f == Flags(a, b)
               k == ClassifyHashes(a, b, TRUE)
           IN  /\ k.confidence \in 50 .. 92 /\ CauseFits(f, k.cause)
               /\ k.layer = Absent
  <1> DEFINE f == Flags(a, b)
             q == PrimaryCause(f, CauseTable(f, TRUE))
             k == ClassifyHashes(a, b, TRUE)
  <1>1. IsFiniteSet(f.flat)
    <2>1. f.flat \in SUBSET FlatFields
      BY DEF Flags
    <2> QED
      BY <2>1, FlatFinite, FS_Subset
  <1>2. k.confidence = q.confidence /\ k.cause = q.cause /\ k.layer = Absent
    BY DEF ClassifyHashes
  <1> HIDE DEF f
  <1>3. q.confidence \in 50 .. 92 /\ CauseFits(f, q.cause)
    BY <1>1, PrimaryFits
  <1> HIDE DEF q, k
  <1>4. k.confidence \in 50 .. 92 /\ CauseFits(f, k.cause)
    BY <1>2, <1>3
  <1> QED
    BY <1>2, <1>4 DEF k, f

\* A cause found from two contents also fits; the layer is the first that diverges.
LEMMA ContentClassified ==
    ASSUME NEW p, NEW c
    PROVE  LET a == ToHashes(p)
               b == ToHashes(c)
               f == Flags(a, b)
               d == FirstDivergence(a, b)
               k == Classify(p, c, TRUE)
           IN  /\ k.confidence \in 50 .. 92
               /\ CauseFits(f, k.cause) \/ (k.cause = "volatile prefix" /\ OnlySystemChanged(f))
               /\ k.layer = IF d = 0 THEN Absent ELSE Layers[d]
  <1> DEFINE a == ToHashes(p)
             b == ToHashes(c)
             f == Flags(a, b)
             d == FirstDivergence(a, b)
             q == PrimaryCause(f, CauseTable(f, TRUE))
             where == Divergence(a, b, p, c)
             v == RefinePrefixVolatility(f, q, b.texts["system prefix"], where.offset)
             k == Classify(p, c, TRUE)
  <1>1. IsFiniteSet(f.flat)
    <2>1. f.flat \in SUBSET FlatFields
      BY DEF Flags
    <2> QED
      BY <2>1, FlatFinite, FS_Subset
  <1>2. k.confidence = v.confidence /\ k.cause = v.cause /\ k.layer = where.layer
    BY DEF Classify
  <1>3. where.layer = IF d = 0 THEN Absent ELSE Layers[d]
    BY DEF Divergence
  <1> HIDE DEF f, where
  <1>4. q.confidence \in 50 .. 92 /\ CauseFits(f, q.cause)
    BY <1>1, PrimaryFits
  <1>5. Confidence(85, f) \in 50 .. 92
    BY <1>1, ConfidenceBounds
  <1> HIDE DEF q
  <1>6. \/ v = q
        \/ /\ v = [cause |-> "volatile prefix", confidence |-> Confidence(85, f)]
           /\ OnlySystemChanged(f)
    BY DEF RefinePrefixVolatility
  <1> HIDE DEF v, k
  <1>7. \/ v.confidence = q.confidence /\ v.cause = q.cause
        \/ /\ v.confidence = Confidence(85, f) /\ v.cause = "volatile prefix"
           /\ OnlySystemChanged(f)
    <2>1. CASE v = q
      BY <2>1, Zenon
    <2>2. CASE v = [cause |-> "volatile prefix", confidence |-> Confidence(85, f)]
      <3>1. v.confidence = Confidence(85, f) /\ v.cause = "volatile prefix"
        BY <2>2
      <3> QED
        BY <1>6, <2>1, <3>1, Zenon
    <2> QED
      BY <1>6, <2>1, <2>2, Zenon
  <1>8. /\ v.confidence \in 50 .. 92
        /\ CauseFits(f, v.cause) \/ (v.cause = "volatile prefix" /\ OnlySystemChanged(f))
    BY <1>4, <1>5, <1>7, Zenon
  <1>9. k.confidence \in 50 .. 92
        /\ (CauseFits(f, k.cause) \/ (k.cause = "volatile prefix" /\ OnlySystemChanged(f)))
    BY <1>2, <1>8, Zenon
  <1> QED
    BY <1>2, <1>3, <1>9 DEF k, f

-----------------------------------------------------------------------------
(* Types *)

\* The events that requests leave.
Events == {Event(s, r) : s \in Sessions \cup {Absent}, r \in Requests}

\* What an event says of its request.
LEMMA EventFacts ==
    ASSUME NEW e \in Events
    PROVE  /\ e.session \in Sessions \cup {Absent} /\ e.fp \in Requests
           /\ e.system = SystemText(e.fp) /\ e.tools = e.fp.tools
           /\ e.history = e.fp.messages /\ e.route = e.fp.route /\ e.model = e.fp.model
  <1>1. PICK s \in Sessions \cup {Absent}, r \in Requests : e = Event(s, r)
    BY DEF Events
  <1>2. e.session = s /\ e.fp = r /\ e.system = SystemText(r) /\ e.tools = r.tools
        /\ e.history = r.messages /\ e.route = r.route /\ e.model = r.model
    BY <1>1 DEF Event
  <1> QED
    BY <1>2

\* All rows the detector could leave for two events and a body.
AnyRows == {ChurnRow(a, b, p, r) : a \in Events, b \in Events,
                                   p \in Requests \cup {Absent}, r \in Requests}

\* A churn row is of two events of a session with different fingerprints; the body
\* it was found from is one the session sent, or none.
IsRow(c) ==
    \E a, b \in Events, p \in Requests \cup {Absent} :
        /\ c = ChurnRow(a, b, p, b.fp)
        /\ a.fp # b.fp /\ a.session = b.session /\ b.session \in Sessions

Bodies == [session: Sessions, body: Requests]

Typed ==
    /\ log \in Seq(Events)
    /\ churn \in Seq(AnyRows) /\ \A i \in DOMAIN churn : IsRow(churn[i])
    /\ bodies \in Seq(Bodies) /\ Len(bodies) <= MaxSessions
    /\ \A i, j \in DOMAIN bodies : bodies[i].session = bodies[j].session => i = j

\* What the fields of a row are.
LEMMA RowFields ==
    ASSUME NEW a, NEW b, NEW p, NEW r
    PROVE  LET c == ChurnRow(a, b, p, r)
               k == ClassifyChurn(a, b, p, r)
           IN  /\ c.session = b.session /\ c.previous = a.fp /\ c.new = b.fp
               /\ c.flat = StoredFlags(a, b) /\ c.cause = k.cause
               /\ c.confidence = k.confidence /\ c.layer = k.layer
  BY DEF ChurnRow

\* A row's confidence lies within the detector's range.
LEMMA RowConfidence ==
    ASSUME NEW a, NEW b, NEW p, NEW r
    PROVE  ChurnRow(a, b, p, r).confidence \in 50 .. 92
  <1>1. ChurnRow(a, b, p, r).confidence = ClassifyChurn(a, b, p, r).confidence
    BY RowFields
  <1>2. CASE p = Absent
    <2>1. ClassifyChurn(a, b, p, r) = ClassifyHashes(StoredHashes(a), StoredHashes(b), TRUE)
      BY <1>2 DEF ClassifyChurn
    <2>2. ClassifyHashes(StoredHashes(a), StoredHashes(b), TRUE).confidence \in 50 .. 92
      BY HashesClassified
    <2> QED
      BY <1>1, <2>1, <2>2
  <1>3. CASE p # Absent
    <2>1. ClassifyChurn(a, b, p, r) = Classify(Content(p, a), Content(r, b), TRUE)
      BY <1>3 DEF ClassifyChurn
    <2>2. Classify(Content(p, a), Content(r, b), TRUE).confidence \in 50 .. 92
      BY ContentClassified
    <2> QED
      BY <1>1, <2>1, <2>2
  <1> QED
    BY <1>2, <1>3

\* Typed is what TypeOK promises.
LEMMA TypedImpliesTypeOK ==
    ASSUME Typed
    PROVE  TypeOK
  <1>1. \A i \in DOMAIN log : log[i].session \in Sessions \cup {Absent} /\ log[i].fp \in Requests
    BY EventFacts DEF Typed
  <1>2. ASSUME NEW i \in DOMAIN churn
        PROVE  /\ churn[i].session \in Sessions /\ churn[i].previous # churn[i].new
               /\ churn[i].confidence \in 50 .. 92
    <2>1. PICK a \in Events, b \in Events, p \in Requests \cup {Absent} :
              /\ churn[i] = ChurnRow(a, b, p, b.fp)
              /\ a.fp # b.fp /\ a.session = b.session /\ b.session \in Sessions
      BY DEF Typed, IsRow
    <2>2. /\ churn[i].session = b.session /\ churn[i].previous = a.fp
          /\ churn[i].new = b.fp
      BY <2>1, RowFields
    <2>3. churn[i].confidence \in 50 .. 92
      BY <2>1, RowConfidence
    <2> QED
      BY <2>1, <2>2, <2>3
  <1> QED
    BY <1>1, <1>2 DEF Typed, TypeOK

\* Where a session's body is in the cache.
LEMMA BodyAtFacts ==
    ASSUME Typed, NEW s
    PROVE  /\ BodyAt(s) \in 0 .. Len(bodies)
           /\ BodyAt(s) # 0 => bodies[BodyAt(s)].session = s
           /\ BodyAt(s) = 0 => \A i \in DOMAIN bodies : bodies[i].session # s
  <1> DEFINE I == {i \in 1..Len(bodies) : bodies[i].session = s}
  <1>1. Len(bodies) \in Nat /\ DOMAIN bodies = 1..Len(bodies)
    BY DEF Typed
  <1>2. BodyAt(s) = IF I # {} THEN Min(I) ELSE 0
    BY DEF BodyAt, SelectInSeq
  <1>3. /\ I \in SUBSET Nat /\ \A i \in I : i \in 1..Len(bodies) /\ bodies[i].session = s
        /\ \A i \in 1..Len(bodies) : bodies[i].session = s => i \in I
    BY <1>1
  <1> HIDE DEF I
  <1>4. I # {} => Min(I) \in I
    BY <1>3, LeastOf
  <1>5. CASE I # {}
    <2>1. BodyAt(s) \in 1..Len(bodies) /\ bodies[BodyAt(s)].session = s
      BY <1>2, <1>3, <1>4, <1>5
    <2> QED
      BY <1>1, <2>1
  <1>6. CASE I = {}
    <2>1. BodyAt(s) = 0 /\ \A i \in 1..Len(bodies) : bodies[i].session # s
      BY <1>2, <1>3, <1>6
    <2> QED
      BY <1>1, <2>1
  <1> QED
    BY <1>5, <1>6

\* The tail of a sequence is the sequence from its second position on.
LEMMA TailFacts ==
    ASSUME NEW S, NEW q \in Seq(S), q # <<>>
    PROVE  /\ Tail(q) \in Seq(S) /\ Len(Tail(q)) = Len(q) - 1
           /\ \A i \in 1 .. Len(q) - 1 : Tail(q)[i] = q[i + 1]
  OBVIOUS

\* The session's latest event is the last entry of the log with its name.
LEMMA LastEventFacts ==
    ASSUME Typed, NEW s, LastEvent(s) # Absent
    PROVE  s # Absent /\ \E i \in DOMAIN log :
               /\ LastEvent(s) = log[i] /\ log[i].session = s
               /\ \A j \in DOMAIN log : log[j].session = s => j <= i
  <1> DEFINE I == {i \in 1..Len(log) : log[i].session = s}
             n == Len(log)
             k == SelectLastInSeq(log, LAMBDA e : e.session = s)
  <1>1. n \in Nat /\ DOMAIN log = 1..n
    BY DEF Typed
  <1>2. k = IF I # {} THEN Max(I) ELSE 0
    BY DEF SelectLastInSeq
  <1>3. LastEvent(s) = IF s = Absent \/ k = 0 THEN Absent ELSE log[k]
    BY DEF LastEvent
  <1> HIDE DEF k
  <1>4. s # Absent /\ k # 0 /\ LastEvent(s) = log[k]
    BY <1>3
  <1>5. /\ I \in SUBSET (1..n) /\ \A i \in I : log[i].session = s
        /\ \A i \in 1..n : log[i].session = s => i \in I
    OBVIOUS
  <1> HIDE DEF I, n
  <1>6. I # {} /\ k = Max(I)
    BY <1>2, <1>4
  <1>7. k \in I /\ \A j \in I : k >= j
    BY <1>1, <1>5, <1>6, LastOf
  <1>8. k \in 1..n /\ log[k].session = s /\ \A j \in 1..n : log[j].session = s => j <= k
    BY <1>1, <1>5, <1>7
  <1> QED
    BY <1>1, <1>4, <1>8

\* A body that is remembered is the request's, or was there before; the cache keeps
\* its bound and holds a session once.
LEMMA Remembered ==
    ASSUME Typed, NEW s \in Sessions \cup {Absent}, NEW r \in Requests
    PROVE  LET m == RememberBody(s, r)
           IN  /\ m \in Seq(Bodies) /\ Len(m) <= MaxSessions
               /\ \A i, j \in DOMAIN m : m[i].session = m[j].session => i = j
               /\ \A i \in DOMAIN m :
                    \/ Cacheable(s, r) /\ m[i] = [session |-> s, body |-> r]
                    \/ /\ Cacheable(s, r) => m[i].session # s
                       /\ \E j \in DOMAIN bodies : m[i] = bodies[j]
  <1> DEFINE m == RememberBody(s, r)
             new == [session |-> s, body |-> r]
             at == BodyAt(s)
             n == Len(bodies)
             room == IF n >= MaxSessions THEN Tail(bodies) ELSE bodies
  <1>1. /\ bodies \in Seq(Bodies) /\ n \in Nat /\ n <= MaxSessions
        /\ DOMAIN bodies = 1..n /\ MaxSessions \in Nat \ {0}
        /\ \A i, j \in 1..n : bodies[i].session = bodies[j].session => i = j
    BY LogAssumption DEF Typed
  <1>2. CASE ~Cacheable(s, r)
    <2>1. m = bodies
      BY <1>2 DEF RememberBody
    <2> QED
      BY <1>1, <1>2, <2>1
  <1>3. CASE Cacheable(s, r) /\ at # 0
    <2>1. m = [bodies EXCEPT ![at].body = r]
      BY <1>3 DEF RememberBody
    <2>2. at \in 1..n /\ bodies[at].session = s
      BY <1>1, <1>3, BodyAtFacts
    <2>3. bodies[at] \in Bodies
      BY <1>1, <2>2
    <2>4. [bodies[at] EXCEPT !.body = r] = new
      BY <2>2, <2>3 DEF Bodies
    <2>5. s \in Sessions
      BY <2>2, <2>3 DEF Bodies
    <2>6. new \in Bodies
      BY <2>5 DEF Bodies
    <2> HIDE DEF m, new, at, n
    <2>7. m = [bodies EXCEPT ![at] = new]
      BY <2>1, <2>4
    <2>8. m \in Seq(Bodies) /\ Len(m) = n /\ DOMAIN m = 1..n
      BY <1>1, <2>2, <2>6, <2>7 DEF n
    <2>9. \A i \in 1..n : m[i] = IF i = at THEN new ELSE bodies[i]
      BY <1>1, <2>2, <2>7
    <2>10. new.session = s
      BY DEF new
    <2>11. \A i \in 1..n : m[i].session = bodies[i].session
      BY <2>2, <2>9, <2>10
    <2>12. \A i \in 1..n : i # at => bodies[i].session # s
      BY <1>1, <2>2
    <2>13. ASSUME NEW i \in 1..n
           PROVE  \/ Cacheable(s, r) /\ m[i] = new
                  \/ /\ Cacheable(s, r) => m[i].session # s
                     /\ \E j \in DOMAIN bodies : m[i] = bodies[j]
      BY <1>1, <1>3, <2>9, <2>12
    <2> QED
      BY <1>1, <2>8, <2>11, <2>13 DEF m, new
  <1>4. CASE Cacheable(s, r) /\ at = 0
    <2>1. m = Append(room, new)
      BY <1>4 DEF RememberBody
    <2>2. s \in Sessions
      BY <1>4 DEF Cacheable
    <2>3. new \in Bodies /\ new.session = s
      BY <2>2 DEF Bodies
    <2>4. \A i \in 1..n : bodies[i].session # s
      BY <1>1, <1>4, BodyAtFacts
    <2>5. PICK d \in {0, 1} : /\ room \in Seq(Bodies) /\ Len(room) = n - d
                              /\ n - d < MaxSessions /\ n - d \in Nat
                              /\ \A i \in 1 .. n - d : room[i] = bodies[i + d]
      <3>1. CASE n >= MaxSessions
        <4>1. room = Tail(bodies) /\ bodies # <<>> /\ n - 1 \in Nat /\ n - 1 < MaxSessions
          BY <1>1, <3>1
        <4>2. room \in Seq(Bodies) /\ Len(room) = n - 1
              /\ \A i \in 1 .. n - 1 : room[i] = bodies[i + 1]
          BY <1>1, <4>1, TailFacts, Zenon
        <4> QED
          BY <4>1, <4>2
      <3>2. CASE ~(n >= MaxSessions)
        <4>1. room = bodies /\ n - 0 = n /\ n < MaxSessions
          BY <1>1, <3>2
        <4>2. \A i \in 1 .. n - 0 : i + 0 = i
          BY <1>1
        <4>3. \A i \in 1 .. n - 0 : room[i] = bodies[i + 0]
          BY <4>1, <4>2
        <4>4. room \in Seq(Bodies) /\ Len(room) = n - 0 /\ n - 0 < MaxSessions /\ n - 0 \in Nat
          BY <1>1, <4>1
        <4>5. 0 \in {0, 1}
          OBVIOUS
        <4> QED
          BY <4>3, <4>4, <4>5, Zenon
      <3> QED
        BY <3>1, <3>2
    <2> HIDE DEF m, new, at, room, n
    <2>6. /\ m \in Seq(Bodies) /\ Len(m) = n - d + 1 /\ DOMAIN m = 1 .. n - d + 1
          /\ \A i \in 1 .. n - d : m[i] = room[i]
          /\ m[n - d + 1] = new
      BY <2>1, <2>3, <2>5
    <2>7. \A i \in 1 .. n - d : i + d \in 1..n /\ m[i] = bodies[i + d]
      BY <1>1, <2>5, <2>6
    <2>8. Len(m) <= MaxSessions
      BY <1>1, <2>5, <2>6
    <2>9. \A i \in 1 .. n - d : m[i].session # s
      BY <2>4, <2>7
    <2>10. \A i \in DOMAIN m : i \in 1 .. n - d \/ i = n - d + 1
      BY <1>1, <2>5, <2>6
    <2>11. ASSUME NEW i \in DOMAIN m, NEW j \in DOMAIN m, m[i].session = m[j].session
           PROVE  i = j
      <3>1. CASE i \in 1 .. n - d /\ j \in 1 .. n - d
        <4>0. i + d \in 1..n /\ j + d \in 1..n
              /\ m[i] = bodies[i + d] /\ m[j] = bodies[j + d]
          BY <2>7, <3>1, Zenon
        <4>00. bodies[i + d].session = bodies[j + d].session
          BY <2>11, <4>0, Zenon
        <4>1. i + d = j + d
          BY <1>1, <4>0, <4>00, Zenon
        <4> QED
          BY <3>1, <4>1, <1>1, <2>5
      <3>2. CASE i = n - d + 1
        BY <2>3, <2>6, <2>9, <2>10, <2>11, <3>2
      <3>3. CASE j = n - d + 1
        BY <2>3, <2>6, <2>9, <2>10, <2>11, <3>3
      <3> QED
        BY <2>10, <3>1, <3>2, <3>3
    <2>12. ASSUME NEW i \in DOMAIN m
           PROVE  \/ Cacheable(s, r) /\ m[i] = new
                  \/ /\ Cacheable(s, r) => m[i].session # s
                     /\ \E j \in DOMAIN bodies : m[i] = bodies[j]
      BY <1>1, <1>4, <2>6, <2>7, <2>9, <2>10
    <2> QED
      BY <2>6, <2>8, <2>11, <2>12 DEF m, new
  <1> QED
    BY <1>2, <1>3, <1>4

\* The body a pair is classified from is one the session sent.
LEMMA PreviousBodyFacts ==
    ASSUME Typed, NEW s, NEW r
    PROVE  \/ PreviousBody(s, r) = Absent
           \/ \E i \in DOMAIN bodies :
                 /\ bodies[i].session = s /\ bodies[i].body \in Requests
                 /\ PreviousBody(s, r) = bodies[i].body
  <1>1. CASE Cacheable(s, r) /\ BodyAt(s) # 0
    <2>1. PreviousBody(s, r) = bodies[BodyAt(s)].body
      BY <1>1 DEF PreviousBody
    <2>2. BodyAt(s) \in DOMAIN bodies /\ bodies[BodyAt(s)].session = s
      BY <1>1, BodyAtFacts DEF Typed
    <2>3. bodies[BodyAt(s)] \in Bodies
      BY <2>2 DEF Typed
    <2>4. bodies[BodyAt(s)].body \in Requests
      BY <2>3 DEF Bodies
    <2> QED
      BY <2>1, <2>2, <2>4
  <1>2. CASE ~(Cacheable(s, r) /\ BodyAt(s) # 0)
    BY <1>2 DEF PreviousBody
  <1> QED
    BY <1>1, <1>2

\* The row of a move of the fingerprint.
LEMMA NewRow ==
    ASSUME Typed, NEW s \in Sessions \cup {Absent}, NEW r \in Requests, Moved(s, r)
    PROVE  LET c == ChurnRow(LastEvent(s), Event(s, r), PreviousBody(s, r), r)
           IN  c \in AnyRows /\ IsRow(c)
  <1> DEFINE a == LastEvent(s)
             b == Event(s, r)
             p == PreviousBody(s, r)
  <1>1. a # Absent /\ a.fp # r
    BY DEF Moved
  <1>2. s # Absent /\ a \in Events /\ a.session = s
    <2>1. PICK i \in DOMAIN log : a = log[i] /\ log[i].session = s
      BY <1>1, LastEventFacts
    <2> QED
      BY <1>1, <2>1, LastEventFacts DEF Typed
  <1>3. b \in Events /\ b.session = s /\ b.fp = r
    BY DEF Events, Event
  <1>4. p \in Requests \cup {Absent}
    BY PreviousBodyFacts
  <1> HIDE DEF a, b, p
  <1>5. ChurnRow(a, b, p, r) \in AnyRows
    BY <1>2, <1>3, <1>4 DEF AnyRows
  <1>6. ChurnRow(a, b, p, r) = ChurnRow(a, b, p, b.fp)
    BY <1>3
  <1>7. a.fp # b.fp /\ a.session = b.session /\ b.session \in Sessions
    BY <1>1, <1>2, <1>3
  <1>8. IsRow(ChurnRow(a, b, p, r))
    BY <1>2, <1>3, <1>4, <1>6, <1>7 DEF IsRow
  <1> QED
    BY <1>5, <1>8 DEF a, b, p

\* A request that is recorded, with or without its row, keeps the types.
LEMMA RecordTyped ==
    ASSUME Typed, NEW s \in Sessions \cup {Absent}, NEW r \in Requests,
           Record(s, r) \/ ChurnNotStored(s, r)
    PROVE  Typed'
  <1> DEFINE m == RememberBody(s, r)
             c == ChurnRow(LastEvent(s), Event(s, r), PreviousBody(s, r), r)
             e == Event(s, r)
  <1>1. log' = Append(log, e) /\ bodies' = m
    BY DEF Record, ChurnNotStored
  <1>2. churn' = churn \/ (churn' = Append(churn, c) /\ Moved(s, r))
    BY DEF Record, ChurnNotStored
  <1>3. e \in Events
    BY DEF Events
  <1>4. Moved(s, r) => c \in AnyRows /\ IsRow(c)
    BY NewRow
  <1>5. /\ m \in Seq(Bodies) /\ Len(m) <= MaxSessions
        /\ \A i, j \in DOMAIN m : m[i].session = m[j].session => i = j
    BY Remembered
  <1> HIDE DEF m, c, e
  <1>6. log' \in Seq(Events)
    BY <1>1, <1>3 DEF Typed
  <1>7. churn' \in Seq(AnyRows) /\ \A i \in DOMAIN churn' : IsRow(churn'[i])
    <2>1. CASE churn' = churn
      BY <2>1 DEF Typed
    <2>2. CASE churn' = Append(churn, c) /\ Moved(s, r)
      <3>0. churn \in Seq(AnyRows) /\ \A i \in DOMAIN churn : IsRow(churn[i])
        BY DEF Typed
      <3>1. churn' \in Seq(AnyRows)
        BY <1>4, <2>2, <3>0
      <3>2. \A i \in DOMAIN churn' : churn'[i] = c \/ \E j \in DOMAIN churn : churn'[i] = churn[j]
        BY <1>4, <2>2, <3>0
      <3> QED
        BY <1>4, <2>2, <3>0, <3>1, <3>2
    <2> QED
      BY <1>2, <2>1, <2>2
  <1> QED
    BY <1>1, <1>5, <1>6, <1>7 DEF Typed

\* Every step keeps the types.
LEMMA TypedNext ==
    ASSUME Typed, [Next]_vars
    PROVE  Typed'
  <1>1. CASE \E s \in Sessions, r \in Requests : Record(s, r) \/ ChurnNotStored(s, r)
    BY <1>1, RecordTyped
  <1>2. CASE \E r \in Anonymous : Record(Absent, r)
    <2>1. PICK r \in Anonymous : Record(Absent, r)
      BY <1>2
    <2>2. r \in Requests
      BY LogAssumption
    <2> QED
      BY <2>1, <2>2, RecordTyped
  <1>3. CASE Restart
    <2>1. bodies' = <<>> /\ log' = log /\ churn' = churn
      BY <1>3 DEF Restart
    <2>2. <<>> \in Seq(Bodies) /\ Len(<<>>) = 0 /\ DOMAIN <<>> = {} /\ 0 <= MaxSessions
      BY LogAssumption
    <2> QED
      BY <2>1, <2>2 DEF Typed
  <1>4. CASE UNCHANGED vars
    BY <1>4 DEF vars, Typed
  <1> QED
    BY <1>1, <1>2, <1>3, <1>4 DEF Next

\* Nothing is recorded at the start.
LEMMA TypedInit ==
    ASSUME Init
    PROVE  Typed
  <1>1. log = <<>> /\ churn = <<>> /\ bodies = <<>>
    BY DEF Init
  <1>2. Len(<<>>) = 0 /\ DOMAIN <<>> = {} /\ 0 <= MaxSessions
    BY LogAssumption
  <1>3. log \in Seq(Events) /\ churn \in Seq(AnyRows) /\ bodies \in Seq(Bodies)
    BY <1>1
  <1> QED
    BY <1>1, <1>2, <1>3 DEF Typed

\* For every detector table, every set of requests and every bound, the body cache
\* holds each session once and no more sessions than its bound, and every churn row
\* is a move of a session's fingerprint with a confidence from 0.50 to 0.92
\* (observation.py:746-763, churn.py:433-454).
THEOREM TypeCorrect == Spec => []TypeOK
  <1>1. Init => Typed
    BY TypedInit
  <1>2. Typed /\ [Next]_vars => Typed'
    BY TypedNext
  <1>3. Typed => TypeOK
    BY TypedImpliesTypeOK
  <1> QED
    BY <1>1, <1>2, <1>3, PTL DEF Spec

-----------------------------------------------------------------------------
(* The body cache and the log *)

\* No system prompt comes as blocks, which the detector does not read, and every
\* body fits the cache: a larger one would leave its predecessor in place.
BodiesRead == \A r \in Requests : ~r.blocks /\ Size(r) <= MaxBody

\* A body in the cache is that of its session's latest event.
BodiesLatest ==
    /\ ChurnDetection = FALSE => bodies = <<>>
    /\ \A i \in DOMAIN bodies : \E k \in DOMAIN log :
          /\ log[k].session = bodies[i].session /\ log[k].fp = bodies[i].body
          /\ \A j \in DOMAIN log : log[j].session = bodies[i].session => j <= k

\* A row that was found from the stored digests, or from the two requests it names.
IsTrueRow(c) ==
    \E a, b \in Events : \E p \in {a.fp, Absent} : c = ChurnRow(a, b, p, b.fp)

Traced ==
    /\ Typed
    /\ BodiesLatest
    /\ \A i \in DOMAIN churn : IsTrueRow(churn[i])

\* The row of a move is found from the session's latest request or from its digests.
LEMMA NewRowTrue ==
    ASSUME Traced, NEW s \in Sessions \cup {Absent}, NEW r \in Requests, Moved(s, r)
    PROVE  IsTrueRow(ChurnRow(LastEvent(s), Event(s, r), PreviousBody(s, r), r))
  <1> DEFINE a == LastEvent(s)
             b == Event(s, r)
             p == PreviousBody(s, r)
  <1>0. Typed /\ BodiesLatest
    BY DEF Traced
  <1>1. a # Absent
    BY DEF Moved
  <1>2. PICK i \in DOMAIN log :
              /\ a = log[i] /\ log[i].session = s
              /\ \A j \in DOMAIN log : log[j].session = s => j <= i
    BY <1>0, <1>1, LastEventFacts
  <1>3. a \in Events
    BY <1>0, <1>2 DEF Typed
  <1>4. b \in Events /\ b.fp = r
    BY DEF Events, Event
  <1>5. p = Absent \/ p = a.fp
    <2>1. CASE p # Absent
      <3>1. PICK x \in DOMAIN bodies : bodies[x].session = s /\ p = bodies[x].body
        BY <1>0, <2>1, PreviousBodyFacts
      <3>2. PICK k \in DOMAIN log :
              /\ log[k].session = s /\ log[k].fp = p
              /\ \A j \in DOMAIN log : log[j].session = s => j <= k
        BY <1>0, <3>1 DEF BodiesLatest
      <3>3. i <= k /\ k <= i
        BY <1>2, <3>2
      <3>4. i \in Nat /\ k \in Nat
        BY <1>0 DEF Typed
      <3>5. i = k
        BY <3>3, <3>4
      <3> QED
        BY <1>2, <3>2, <3>5
    <2> QED
      BY <2>1
  <1> HIDE DEF a, b, p
  <1>6. ChurnRow(a, b, p, r) = ChurnRow(a, b, p, b.fp) /\ p \in {a.fp, Absent}
    BY <1>4, <1>5
  <1>7. IsTrueRow(ChurnRow(a, b, p, r))
    BY <1>3, <1>4, <1>6 DEF IsTrueRow
  <1> QED
    BY <1>7 DEF a, b, p

\* A recorded request replaces its session's body and leaves the others the latest.
LEMMA RecordLatest ==
    ASSUME BodiesRead, Traced, NEW s \in Sessions \cup {Absent}, NEW r \in Requests,
           log' = Append(log, Event(s, r)), bodies' = RememberBody(s, r)
    PROVE  BodiesLatest'
  <1> DEFINE m == RememberBody(s, r)
             e == Event(s, r)
             n == Len(log)
             new == [session |-> s, body |-> r]
  <1>1. Typed /\ BodiesLatest
    BY DEF Traced
  <1>2. log \in Seq(Events) /\ n \in Nat /\ DOMAIN log = 1..n
    BY <1>1 DEF Typed
  <1>3. e.session = s /\ e.fp = r
    BY DEF Event
  <1>4. \A i \in DOMAIN m :
            \/ Cacheable(s, r) /\ m[i] = new
            \/ /\ Cacheable(s, r) => m[i].session # s
               /\ \E j \in DOMAIN bodies : m[i] = bodies[j]
    BY <1>1, Remembered
  <1>5. Cacheable(s, r) <=> ChurnDetection /\ s # Absent
    BY DEF Cacheable, BodiesRead
  <1>6. ~Cacheable(s, r) => m = bodies
    BY DEF RememberBody
  <1>7. new.session = s /\ new.body = r
    OBVIOUS
  <1>8. log' = Append(log, e) /\ bodies' = m
    OBVIOUS
  <1> HIDE DEF m, e, new
  <1>e. e \in Events
    BY DEF Events, e
  <1> HIDE DEF n
  <1>9. /\ DOMAIN log' = 1 .. n + 1 /\ log'[n + 1] = e
        /\ \A k \in 1..n : log'[k] = log[k]
    BY <1>2, <1>8, <1>e DEF n
  <1>10. ChurnDetection = FALSE => bodies' = <<>>
    BY <1>1, <1>5, <1>6, <1>8 DEF BodiesLatest
  <1>11. ASSUME NEW i \in DOMAIN m
         PROVE  \E k \in 1 .. n + 1 :
                  /\ log'[k].session = m[i].session /\ log'[k].fp = m[i].body
                  /\ \A j \in 1 .. n + 1 : log'[j].session = m[i].session => j <= k
    <2>1. CASE Cacheable(s, r) /\ m[i] = new
      <3>1. n + 1 \in 1 .. n + 1 /\ \A j \in 1 .. n + 1 : j <= n + 1
        BY <1>2
      <3>2. log'[n + 1].session = m[i].session /\ log'[n + 1].fp = m[i].body
        BY <1>3, <1>7, <1>9, <2>1
      <3> QED
        BY <3>1, <3>2
    <2>2. CASE \E j \in DOMAIN bodies : m[i] = bodies[j] /\ m[i].session # s
      <3>1. PICK x \in DOMAIN bodies : m[i] = bodies[x]
        BY <2>2
      <3>2. PICK k \in 1..n :
               /\ log[k].session = m[i].session /\ log[k].fp = m[i].body
               /\ \A j \in 1..n : log[j].session = m[i].session => j <= k
        BY <1>1, <1>2, <3>1 DEF BodiesLatest
      <3>3. k \in 1 .. n + 1 /\ log'[k] = log[k]
        BY <1>2, <1>9, <3>2
      <3>4. ASSUME NEW j \in 1 .. n + 1, log'[j].session = m[i].session
            PROVE  j <= k
        <4>1. j # n + 1
          BY <1>3, <1>9, <2>2, <3>4
        <4>2. j \in 1..n /\ log'[j] = log[j]
          BY <1>2, <1>9, <4>1
        <4> QED
          BY <3>2, <3>4, <4>2
      <3> QED
        BY <3>2, <3>3, <3>4
    <2>3. CASE ~Cacheable(s, r)
      <3>2. ChurnDetection \in BOOLEAN
        BY LogAssumption
      <3>3. bodies # <<>>
        BY <1>6, <2>3
      <3>4. ChurnDetection = TRUE
        BY <1>1, <3>2, <3>3 DEF BodiesLatest
      <3>5. s = Absent
        BY <1>5, <2>3, <3>4
      <3>6. m[i] \in Bodies /\ m[i] = bodies[i] /\ i \in DOMAIN bodies
        BY <1>1, <1>6, <2>3 DEF Typed
      <3>7. m[i].session # s
        BY <3>5, <3>6, LogAssumption DEF Bodies
      <3> QED
        BY <2>2, <3>6, <3>7
    <2> QED
      BY <1>4, <2>1, <2>2, <2>3
  <1>12. \A i \in DOMAIN bodies' : \E k \in DOMAIN log' :
            /\ log'[k].session = bodies'[i].session /\ log'[k].fp = bodies'[i].body
            /\ \A j \in DOMAIN log' : log'[j].session = bodies'[i].session => j <= k
    BY <1>8, <1>9, <1>11
  <1> QED
    BY <1>10, <1>12 DEF BodiesLatest

\* A recorded request, with its row or without, keeps the whole invariant.
LEMMA RecordTraced ==
    ASSUME BodiesRead, Traced, NEW s \in Sessions \cup {Absent}, NEW r \in Requests,
           Record(s, r) \/ ChurnNotStored(s, r)
    PROVE  Traced'
  <1> DEFINE c == ChurnRow(LastEvent(s), Event(s, r), PreviousBody(s, r), r)
  <1>0. Typed
    BY DEF Traced
  <1>1. Typed'
    BY <1>0, RecordTyped
  <1>2. log' = Append(log, Event(s, r)) /\ bodies' = RememberBody(s, r)
    BY DEF Record, ChurnNotStored
  <1>3. BodiesLatest'
    BY <1>2, RecordLatest
  <1>4. churn' = churn \/ (churn' = Append(churn, c) /\ Moved(s, r))
    BY DEF Record, ChurnNotStored
  <1>5. Moved(s, r) => IsTrueRow(c) /\ c \in AnyRows
    BY <1>0, NewRow, NewRowTrue
  <1> HIDE DEF c
  <1>6. \A i \in DOMAIN churn' : IsTrueRow(churn'[i])
    <2>1. CASE churn' = churn
      BY <2>1 DEF Traced
    <2>2. CASE churn' = Append(churn, c) /\ Moved(s, r)
      <3>1. churn \in Seq(AnyRows)
        BY <1>0 DEF Typed
      <3>2. \A i \in DOMAIN churn' : churn'[i] = c \/ \E j \in DOMAIN churn : churn'[i] = churn[j]
        BY <1>5, <2>2, <3>1
      <3> QED
        BY <1>5, <2>2, <3>2 DEF Traced
    <2> QED
      BY <1>4, <2>1, <2>2
  <1> QED
    BY <1>1, <1>3, <1>6 DEF Traced

\* Every step keeps the whole invariant.
LEMMA TracedNext ==
    ASSUME BodiesRead, Traced, [Next]_vars
    PROVE  Traced'
  <1>0. Typed /\ BodiesLatest /\ \A i \in DOMAIN churn : IsTrueRow(churn[i])
    BY DEF Traced
  <1>1. CASE \E s \in Sessions, r \in Requests : Record(s, r) \/ ChurnNotStored(s, r)
    BY <1>1, RecordTraced
  <1>2. CASE \E r \in Anonymous : Record(Absent, r)
    <2>1. PICK r \in Anonymous : Record(Absent, r)
      BY <1>2
    <2>2. r \in Requests
      BY LogAssumption
    <2> QED
      BY <2>1, <2>2, RecordTraced
  <1>3. CASE Restart
    <2>1. bodies' = <<>> /\ log' = log /\ churn' = churn
      BY <1>3 DEF Restart
    <2>2. Typed'
      BY <1>0, <1>3, TypedNext DEF Next
    <2>3. DOMAIN bodies' = {}
      BY <2>1
    <2> QED
      BY <1>0, <2>1, <2>2, <2>3 DEF Traced, BodiesLatest
  <1>4. CASE UNCHANGED vars
    <2>1. Typed'
      BY <1>0, <1>4, TypedNext
    <2> QED
      BY <1>0, <1>4, <2>1 DEF vars, Traced, BodiesLatest
  <1> QED
    BY <1>1, <1>2, <1>3, <1>4 DEF Next

\* At the start there are no bodies and no rows.
LEMMA TracedInit ==
    ASSUME Init
    PROVE  Traced
  <1>1. Typed
    BY TypedInit
  <1>2. churn = <<>> /\ bodies = <<>> /\ DOMAIN <<>> = {}
    BY DEF Init
  <1> QED
    BY <1>1, <1>2 DEF Traced, BodiesLatest

-----------------------------------------------------------------------------
(* Causes *)

\* The flat digests, other than the cache key's, that two events differ in.
ChangedFields(a, b) == {x \in FlatFields \ {"key"} : a[x] # b[x]}

\* Snapshots with the flat digests of two events and the same key have their flags.
LEMMA FlatOf ==
    ASSUME NEW h, NEW g, NEW a, NEW b,
           h.system = a.system, h.tools = a.tools, h.history = a.history,
           h.route = a.route, h.model = a.model,
           g.system = b.system, g.tools = b.tools, g.history = b.history,
           g.route = b.route, g.model = b.model, h.key = g.key
    PROVE  Flags(h, g).flat = ChangedFields(a, b)
  <1>1. Flags(h, g).flat = {x \in FlatFields : h[x] # g[x]}
    BY DEF Flags
  <1>2. \A x \in FlatFields \ {"key"} : h[x] = a[x] /\ g[x] = b[x]
    BY DEF FlatFields
  <1>3. "key" \notin {x \in FlatFields : h[x] # g[x]}
    OBVIOUS
  <1>4. {x \in FlatFields : h[x] # g[x]} = ChangedFields(a, b)
    BY <1>2, <1>3 DEF ChangedFields
  <1> QED
    BY <1>1, <1>4

\* What the flags say of a layer.
LEMMA LayerFlag ==
    ASSUME NEW h, NEW g, NEW l \in ToSet(Layers)
    PROVE  Flags(h, g).layer[l] = MaybeDiffers(h.texts[l], g.texts[l])
  BY DEF Flags

\* The parts of a request are sequences of pieces.
LEMMA RequestGiven ==
    ASSUME NEW r \in Requests
    PROVE  Given(r.system) /\ Given(r.tools) /\ Given(r.messages)
  BY RequestsAssumption DEF Given

\* The texts that the detector reads from a body, whatever event it is laid to.
LEMMA ContentTexts ==
    ASSUME NEW r \in Requests, ~r.blocks, NEW e
    PROVE  LET h == ToHashes(Content(r, e))
               n == Len(r.messages)
           IN  /\ h.texts["system prefix"] = SplitSystem(r.system)[1]
               /\ h.texts["system suffix"] = SplitSystem(r.system)[2]
               /\ h.texts["tools"] = r.tools
               /\ h.texts["history"] = SubSeq(r.messages, 1, n - 1)
               /\ h.texts["tail"] = SubSeq(r.messages, Max({1, n}), n)
               /\ \A l \in ToSet(Layers) : h.texts[l] # Absent
               /\ h.system = r.system /\ h.tools = r.tools /\ h.history = r.messages
               /\ h.route = e.route /\ h.model = e.model /\ h.key = Absent
  <1> DEFINE c == Content(r, e)
  <1>1. /\ c.system = r.system /\ c.tools = r.tools /\ c.messages = r.messages
        /\ c.route = e.route /\ c.model = e.model /\ c.key = Absent
    BY DEF Content
  <1> HIDE DEF c
  <1>2. Given(c.system) /\ Given(c.tools) /\ Given(c.messages)
    BY <1>1, RequestGiven
  <1> DEFINE h == ToHashes(c)
             k == Len(c.messages)
  <1>3. /\ h.texts["system prefix"] = SplitSystem(c.system)[1]
        /\ h.texts["system suffix"] = SplitSystem(c.system)[2]
        /\ h.texts["tools"] = c.tools
        /\ h.texts["history"] = SubSeq(c.messages, 1, k - 1)
        /\ h.texts["tail"] = SubSeq(c.messages, Max({1, k}), k)
        /\ \A l \in ToSet(Layers) : h.texts[l] # Absent
        /\ h.system = c.system /\ h.tools = c.tools /\ h.history = c.messages
        /\ h.route = c.route /\ h.model = c.model /\ h.key = c.key
    BY <1>2, HashesFacts, Zenon
  <1> HIDE DEF h
  <1>4. /\ h.texts["system prefix"] = SplitSystem(r.system)[1]
        /\ h.texts["system suffix"] = SplitSystem(r.system)[2]
        /\ h.texts["tools"] = r.tools
        /\ h.texts["history"] = SubSeq(r.messages, 1, Len(r.messages) - 1)
        /\ h.texts["tail"] = SubSeq(r.messages, Max({1, Len(r.messages)}), Len(r.messages))
        /\ \A l \in ToSet(Layers) : h.texts[l] # Absent
        /\ h.system = r.system /\ h.tools = r.tools /\ h.history = r.messages
        /\ h.route = e.route /\ h.model = e.model /\ h.key = Absent
    BY <1>1, <1>3, Zenon
  <1> QED
    BY <1>4, Zenon DEF h, c

\* Which flat digest a cause is about.
LEMMA CauseLayers ==
    /\ CauseLayer("route") = "route" /\ CauseLayer("model") = "model"
    /\ CauseLayer("key") = "key" /\ CauseLayer("tools") = "tools"
    /\ CauseLayer("system prefix") = "system" /\ CauseLayer("system suffix") = "system"
    /\ CauseLayer("isolated suffix") = "system" /\ CauseLayer("volatile prefix") = "system"
    /\ CauseLayer("flat system") = "system" /\ CauseLayer("flat history") = "history"
    /\ CauseLayer("history") = "history" /\ CauseLayer("tail") = "history"
    /\ CauseLayer("residual") = "key"
  BY DEF CauseLayer, SystemLayers, HistoryLayers

\* A layer is changed only where its flat digest is; the tools' layer is their digest.
LayersWithinFlat(f) ==
    /\ f.layer["system prefix"] = "changed" => "system" \in f.flat
    /\ f.layer["system suffix"] = "changed" => "system" \in f.flat
    /\ f.layer["tools"] = "changed" <=> "tools" \in f.flat
    /\ f.layer["history"] = "changed" => "history" \in f.flat
    /\ f.layer["tail"] = "changed" => "history" \in f.flat

\* A cause that fits the flags of two events names a digest their row says changed.
LEMMA CauseTold ==
    ASSUME NEW a, NEW b, NEW f, f.flat = ChangedFields(a, b), LayersWithinFlat(f), NEW cause,
           CauseFits(f, cause) \/ (cause = "volatile prefix" /\ OnlySystemChanged(f))
    PROVE  /\ CauseLayer(cause) \in StoredFlags(a, b)
           /\ cause \in {"isolated suffix", "volatile prefix"} => StoredFlags(a, b) = {"system"}
  <1> DEFINE moved == ChangedFields(a, b)
             flags == StoredFlags(a, b)
  <1>1. flags = IF moved = {} THEN {"key"} ELSE moved
    BY DEF StoredFlags, ChangedFields
  <1>2. moved \subseteq {"system", "tools", "history", "route", "model"}
    BY DEF ChangedFields, FlatFields
  <1>3. f.flat = moved
    OBVIOUS
  <1> HIDE DEF moved, flags
  <1>4. OnlySystemChanged(f) => flags = {"system"}
    BY <1>1, <1>3 DEF OnlySystemChanged
  <1>5. \A x \in f.flat : x \in flags
    BY <1>1, <1>3
  <1>6. cause \in {"isolated suffix", "volatile prefix"} => OnlySystemChanged(f)
    <2>1. cause = "isolated suffix" => cause \notin ToSet(Layers)
      BY LayerNames
    <2>2. cause = "volatile prefix" => cause \notin ToSet(Layers)
      BY LayerNames
    <2> QED
      BY <2>1, <2>2 DEF CauseFits
  <1>7. CASE cause \in {"isolated suffix", "volatile prefix"}
    BY <1>4, <1>6, <1>7, CauseLayers DEF flags
  <1>8. CASE cause \in {"route", "model", "key"} /\ cause \in f.flat
    <2>1. CauseLayer(cause) = cause
      BY <1>8, CauseLayers
    <2> QED
      BY <1>4, <1>5, <1>6, <1>8, <2>1 DEF flags
  <1>9. CASE cause \in ToSet(Layers) /\ f.layer[cause] = "changed"
    <2>1. cause \in {"system prefix", "system suffix", "tools", "history", "tail"}
      BY <1>9, LayerNames
    <2>2. CauseLayer(cause) \in f.flat
      BY <1>9, <2>1, CauseLayers DEF LayersWithinFlat
    <2> QED
      BY <1>4, <1>5, <1>6, <2>2 DEF flags
  <1>10. CASE (cause = "flat system" /\ "system" \in f.flat)
              \/ (cause = "flat history" /\ "history" \in f.flat)
    <2>1. CauseLayer(cause) \in f.flat
      BY <1>10, CauseLayers
    <2> QED
      BY <1>4, <1>5, <1>6, <2>1 DEF flags
  <1>11. CASE /\ cause = "residual" /\ f.layer["tools"] # "changed"
              /\ f.flat \cap {"route", "model", "system", "history", "key"} = {}
    <2>1. "tools" \notin moved
      BY <1>3, <1>11 DEF LayersWithinFlat
    <2>2. moved = {}
      BY <1>2, <1>3, <1>11, <2>1
    <2>3. CauseLayer(cause) = "key"
      BY <1>11, CauseLayers
    <2> QED
      BY <1>1, <1>11, <2>2, <2>3 DEF flags
  <1> QED
    BY <1>7, <1>8, <1>9, <1>10, <1>11 DEF CauseFits

\* The flags of two requests' contents.
LEMMA ContentFlags ==
    ASSUME BodiesRead, NEW a \in Events, NEW b \in Events
    PROVE  LET f == Flags(ToHashes(Content(a.fp, a)), ToHashes(Content(b.fp, b)))
           IN  f.flat = ChangedFields(a, b) /\ LayersWithinFlat(f)
  <1> DEFINE h == ToHashes(Content(a.fp, a))
             g == ToHashes(Content(b.fp, b))
             f == Flags(h, g)
             r == a.fp
             q == b.fp
             n == Len(r.messages)
             k == Len(q.messages)
  <1>1. /\ r \in Requests /\ q \in Requests /\ ~r.blocks /\ ~q.blocks
        /\ a.system = SystemText(r) /\ b.system = SystemText(q)
        /\ a.tools = r.tools /\ a.history = r.messages
        /\ b.tools = q.tools /\ b.history = q.messages
    BY EventFacts DEF BodiesRead
  <1>2. a.system = r.system /\ b.system = q.system
    BY <1>1 DEF SystemText
  <1> HIDE DEF r, q
  <1>3. /\ h.texts["system prefix"] = SplitSystem(r.system)[1]
        /\ h.texts["system suffix"] = SplitSystem(r.system)[2]
        /\ h.texts["tools"] = r.tools
        /\ h.texts["history"] = SubSeq(r.messages, 1, n - 1)
        /\ h.texts["tail"] = SubSeq(r.messages, Max({1, n}), n)
        /\ \A l \in ToSet(Layers) : h.texts[l] # Absent
        /\ h.system = r.system /\ h.tools = r.tools /\ h.history = r.messages
        /\ h.route = a.route /\ h.model = a.model /\ h.key = Absent
    BY <1>1, ContentTexts, Zenon DEF r
  <1>4. /\ g.texts["system prefix"] = SplitSystem(q.system)[1]
        /\ g.texts["system suffix"] = SplitSystem(q.system)[2]
        /\ g.texts["tools"] = q.tools
        /\ g.texts["history"] = SubSeq(q.messages, 1, k - 1)
        /\ g.texts["tail"] = SubSeq(q.messages, Max({1, k}), k)
        /\ \A l \in ToSet(Layers) : g.texts[l] # Absent
        /\ g.system = q.system /\ g.tools = q.tools /\ g.history = q.messages
        /\ g.route = b.route /\ g.model = b.model /\ g.key = Absent
    BY <1>1, ContentTexts, Zenon DEF q
  <1> HIDE DEF h, g
  <1>a. /\ h.system = a.system /\ h.tools = a.tools /\ h.history = a.history
        /\ h.route = a.route /\ h.model = a.model
        /\ g.system = b.system /\ g.tools = b.tools /\ g.history = b.history
        /\ g.route = b.route /\ g.model = b.model /\ h.key = g.key
    BY <1>1, <1>2, <1>3, <1>4, Zenon
  <1>b. \A l \in ToSet(Layers) : h.texts[l] # Absent /\ g.texts[l] # Absent
    BY <1>3, <1>4, Zenon
  <1>c. /\ r.system = q.system => h.texts["system prefix"] = g.texts["system prefix"]
                                /\ h.texts["system suffix"] = g.texts["system suffix"]
        /\ h.texts["tools"] = r.tools /\ g.texts["tools"] = q.tools
    BY <1>3, <1>4, Zenon
  <1>d. r.messages = q.messages => h.texts["history"] = g.texts["history"]
                                   /\ h.texts["tail"] = g.texts["tail"]
    BY <1>3, <1>4, Zenon
  <1>5. f.flat = ChangedFields(a, b)
    BY <1>a, FlatOf
  <1>6. \A l \in ToSet(Layers) : f.layer[l] = IF h.texts[l] # g.texts[l] THEN "changed" ELSE "same"
    BY <1>b, LayerFlag DEF MaybeDiffers
  <1>7. \A x \in {"system", "tools", "history"} : x \in ChangedFields(a, b) <=> a[x] # b[x]
    BY DEF ChangedFields, FlatFields
  <1> HIDE DEF f
  <1>8. /\ "system" \in f.flat <=> r.system # q.system
        /\ "tools" \in f.flat <=> r.tools # q.tools
        /\ "history" \in f.flat <=> r.messages # q.messages
    BY <1>1, <1>2, <1>5, <1>7
  <1>9. /\ f.layer["system prefix"] = "changed" => r.system # q.system
        /\ f.layer["system suffix"] = "changed" => r.system # q.system
        /\ f.layer["tools"] = "changed" <=> r.tools # q.tools
        /\ f.layer["history"] = "changed" => r.messages # q.messages
        /\ f.layer["tail"] = "changed" => r.messages # q.messages
    <2>1. /\ "system prefix" \in ToSet(Layers) /\ "system suffix" \in ToSet(Layers)
          /\ "tools" \in ToSet(Layers) /\ "history" \in ToSet(Layers)
          /\ "tail" \in ToSet(Layers)
      BY LayerNames
    <2> QED
      BY <1>6, <1>c, <1>d, <2>1
  <1>10. LayersWithinFlat(f)
    BY <1>8, <1>9 DEF LayersWithinFlat
  <1> QED
    BY <1>5, <1>10 DEF f, h, g

\* The flags of two stored events.
LEMMA StoredEventFlags ==
    ASSUME NEW a \in Events, NEW b \in Events
    PROVE  LET f == Flags(StoredHashes(a), StoredHashes(b))
           IN  f.flat = ChangedFields(a, b) /\ LayersWithinFlat(f)
  <1> DEFINE h == StoredHashes(a)
             g == StoredHashes(b)
             f == Flags(h, g)
  <1>1. /\ h.system = a.system /\ h.tools = a.tools /\ h.history = a.history
        /\ h.route = a.route /\ h.model = a.model /\ h.key = Absent
        /\ \A l \in ToSet(Layers) : h.texts[l] = IF l = "tools" THEN a.tools ELSE Absent
    BY DEF StoredHashes
  <1>2. /\ g.system = b.system /\ g.tools = b.tools /\ g.history = b.history
        /\ g.route = b.route /\ g.model = b.model /\ g.key = Absent
        /\ \A l \in ToSet(Layers) : g.texts[l] = IF l = "tools" THEN b.tools ELSE Absent
    BY DEF StoredHashes
  <1>3. a.tools # Absent /\ b.tools # Absent
    <2>1. a.fp \in Requests /\ b.fp \in Requests /\ a.tools = a.fp.tools /\ b.tools = b.fp.tools
      BY EventFacts
    <2>2. Given(a.tools) /\ Given(b.tools)
      BY <2>1, RequestGiven
    <2> QED
      BY <2>2 DEF Given
  <1> HIDE DEF h, g
  <1>4. f.flat = ChangedFields(a, b)
    BY <1>1, <1>2, FlatOf
  <1>5. \A l \in ToSet(Layers) : f.layer[l] = MaybeDiffers(h.texts[l], g.texts[l])
    BY LayerFlag
  <1> HIDE DEF f
  <1>6. \A l \in ToSet(Layers) \ {"tools"} : f.layer[l] = "unknown"
    BY <1>1, <1>2, <1>5 DEF MaybeDiffers
  <1>7. "tools" \in ToSet(Layers)
    BY LayerNames
  <1>8. f.layer["tools"] = "changed" <=> a.tools # b.tools
    BY <1>1, <1>2, <1>3, <1>5, <1>7 DEF MaybeDiffers
  <1>9. "tools" \in f.flat <=> a.tools # b.tools
    BY <1>4 DEF ChangedFields, FlatFields
  <1>10. LayersWithinFlat(f)
    BY <1>6, <1>8, <1>9, LayerNames DEF LayersWithinFlat
  <1> QED
    BY <1>4, <1>10 DEF f, h, g

\* A true row's cause is a digest of the row that changed.
LEMMA RowCause ==
    ASSUME BodiesRead, NEW c, IsTrueRow(c)
    PROVE  /\ CauseLayer(c.cause) \in c.flat
           /\ c.cause \in {"isolated suffix", "volatile prefix"} => c.flat = {"system"}
  <1>1. PICK a \in Events, b \in Events : \E p \in {a.fp, Absent} : c = ChurnRow(a, b, p, b.fp)
    BY DEF IsTrueRow
  <1>2. PICK p \in {a.fp, Absent} : c = ChurnRow(a, b, p, b.fp)
    BY <1>1
  <1> DEFINE k == ClassifyChurn(a, b, p, b.fp)
  <1>3. c.flat = StoredFlags(a, b) /\ c.cause = k.cause
    BY <1>2, RowFields
  <1>4. PICK f : /\ f.flat = ChangedFields(a, b) /\ LayersWithinFlat(f)
                 /\ CauseFits(f, k.cause) \/ (k.cause = "volatile prefix" /\ OnlySystemChanged(f))
    <2>1. CASE p = Absent
      <3>1. k = ClassifyHashes(StoredHashes(a), StoredHashes(b), TRUE)
        BY <2>1 DEF ClassifyChurn
      <3> DEFINE f == Flags(StoredHashes(a), StoredHashes(b))
      <3>2. f.flat = ChangedFields(a, b) /\ LayersWithinFlat(f)
        BY StoredEventFlags
      <3>3. CauseFits(f, ClassifyHashes(StoredHashes(a), StoredHashes(b), TRUE).cause)
        BY HashesClassified, Zenon
      <3> HIDE DEF f, k
      <3> QED
        BY <3>1, <3>2, <3>3, Zenon
    <2>2. CASE p # Absent
      <3>0. p = a.fp
        BY <2>2
      <3> DEFINE x == Content(a.fp, a)
                 y == Content(b.fp, b)
                 f == Flags(ToHashes(x), ToHashes(y))
      <3>1. k = Classify(x, y, TRUE)
        BY <2>2, <3>0 DEF ClassifyChurn
      <3>2. f.flat = ChangedFields(a, b) /\ LayersWithinFlat(f)
        BY ContentFlags
      <3> HIDE DEF x, y, k
      <3>3. \/ CauseFits(f, Classify(x, y, TRUE).cause)
            \/ Classify(x, y, TRUE).cause = "volatile prefix" /\ OnlySystemChanged(f)
        BY ContentClassified, Zenon
      <3> HIDE DEF f
      <3> QED
        BY <3>1, <3>2, <3>3, Zenon
    <2> QED
      BY <2>1, <2>2
  <1> HIDE DEF k
  <1>5. /\ CauseLayer(k.cause) \in StoredFlags(a, b)
        /\ k.cause \in {"isolated suffix", "volatile prefix"} => StoredFlags(a, b) = {"system"}
    BY <1>4, CauseTold
  <1> QED
    BY <1>3, <1>5

\* When no system prompt comes as blocks and every body fits the cache, the cause
\* that a churn row gives, found from the bodies in memory or from the stored digests,
\* is a layer that the digests of the row say changed, across restarts, evicted
\* bodies, lost rows and sessions that interleave (observation.py:847-862).
THEOREM CausesAreTrue ==
    ASSUME BodiesRead
    PROVE  Spec => []CauseNamesChange
  <1>1. Init => Traced
    BY TracedInit
  <1>2. Traced /\ [Next]_vars => Traced'
    BY TracedNext
  <1>3. Traced => CauseNamesChange
    BY RowCause DEF Traced, CauseNamesChange
  <1> QED
    BY <1>1, <1>2, <1>3, PTL DEF Spec

-----------------------------------------------------------------------------
(* Attribution *)

\* The texts of a request's snapshot are what the detector reads, whatever event the
\* body is laid to.
LEMMA SnapshotTexts ==
    ASSUME NEW r \in Requests, ~r.blocks, NEW e
    PROVE  \A l \in ToSet(Layers) :
               /\ ToHashes(Content(r, e)).texts[l] = Snapshots[r].texts[l]
               /\ Snapshots[r].texts[l] # Absent
  <1> DEFINE h == ToHashes(Content(r, e))
             d == Event(Absent, r)
             g == ToHashes(Content(r, d))
             n == Len(r.messages)
  <1>1. Snapshots[r] = g
    BY DEF Snapshots
  <1> HIDE DEF d
  <1>2. /\ h.texts["system prefix"] = SplitSystem(r.system)[1]
        /\ h.texts["system suffix"] = SplitSystem(r.system)[2]
        /\ h.texts["tools"] = r.tools
        /\ h.texts["history"] = SubSeq(r.messages, 1, n - 1)
        /\ h.texts["tail"] = SubSeq(r.messages, Max({1, n}), n)
    BY ContentTexts, Zenon
  <1>3. /\ g.texts["system prefix"] = SplitSystem(r.system)[1]
        /\ g.texts["system suffix"] = SplitSystem(r.system)[2]
        /\ g.texts["tools"] = r.tools
        /\ g.texts["history"] = SubSeq(r.messages, 1, n - 1)
        /\ g.texts["tail"] = SubSeq(r.messages, Max({1, n}), n)
        /\ \A l \in ToSet(Layers) : g.texts[l] # Absent
    BY ContentTexts, Zenon
  <1> HIDE DEF h, g
  <1>4. /\ h.texts["system prefix"] = g.texts["system prefix"]
        /\ h.texts["system suffix"] = g.texts["system suffix"]
        /\ h.texts["tools"] = g.texts["tools"]
        /\ h.texts["history"] = g.texts["history"] /\ h.texts["tail"] = g.texts["tail"]
    BY <1>2, <1>3, Zenon
  <1>5. \A l \in ToSet(Layers) : h.texts[l] = g.texts[l]
    BY <1>4, LayerNames
  <1>6. \A l \in ToSet(Layers) : g.texts[l] # Absent
    BY <1>3, Zenon
  <1> QED
    BY <1>1, <1>5, <1>6 DEF h

\* The layer is the first one in which the two requests differ, or is not known.
LayerIsTrue(layer, r, q) ==
    \/ layer = Absent
    \/ \E d \in 1..5 :
          /\ layer = Layers[d]
          /\ Snapshots[r].texts[layer] # Snapshots[q].texts[layer]
          /\ \A i \in 1..5 : i < d => Snapshots[r].texts[Layers[i]] = Snapshots[q].texts[Layers[i]]

\* A true row names the first layer in which its requests differ, or none.
LEMMA RowLayer ==
    ASSUME BodiesRead, NEW c, IsTrueRow(c)
    PROVE  c.previous \in Requests /\ c.new \in Requests /\ LayerIsTrue(c.layer, c.previous, c.new)
  <1>1. PICK a \in Events, b \in Events : \E p \in {a.fp, Absent} : c = ChurnRow(a, b, p, b.fp)
    BY DEF IsTrueRow
  <1>2. PICK p \in {a.fp, Absent} : c = ChurnRow(a, b, p, b.fp)
    BY <1>1
  <1> DEFINE k == ClassifyChurn(a, b, p, b.fp)
             r == a.fp
             q == b.fp
  <1>3. c.layer = k.layer /\ c.previous = r /\ c.new = q
    BY <1>2, RowFields
  <1>4. r \in Requests /\ q \in Requests /\ ~r.blocks /\ ~q.blocks
    BY EventFacts DEF BodiesRead
  <1>5. LayerIsTrue(k.layer, r, q)
    <2>1. CASE p = Absent
      <3>1. k = ClassifyHashes(StoredHashes(a), StoredHashes(b), TRUE)
        BY <2>1 DEF ClassifyChurn
      <3>2. ClassifyHashes(StoredHashes(a), StoredHashes(b), TRUE).layer = Absent
        BY HashesClassified, Zenon
      <3> HIDE DEF k
      <3> QED
        BY <3>1, <3>2 DEF LayerIsTrue
    <2>2. CASE p # Absent
      <3>0. p = r
        BY <2>2
      <3> DEFINE x == Content(r, a)
                 y == Content(q, b)
                 h == ToHashes(x)
                 g == ToHashes(y)
                 d == FirstDivergence(h, g)
      <3>1. k = Classify(x, y, TRUE)
        BY <2>2, <3>0 DEF ClassifyChurn
      <3> HIDE DEF k, r, q
      <3>2. \A l \in ToSet(Layers) : h.texts[l] = Snapshots[r].texts[l]
        BY <1>4, SnapshotTexts, Zenon
      <3>3. \A l \in ToSet(Layers) : g.texts[l] = Snapshots[q].texts[l]
        BY <1>4, SnapshotTexts, Zenon
      <3> HIDE DEF x, y
      <3>4. Classify(x, y, TRUE).layer = IF d = 0 THEN Absent ELSE Layers[d]
        BY ContentClassified, Zenon
      <3> HIDE DEF h, g
      <3>5. /\ d \in 0..5
            /\ d # 0 => h.texts[Layers[d]] # g.texts[Layers[d]]
            /\ \A i \in 1..5 : d # 0 /\ i < d => h.texts[Layers[i]] = g.texts[Layers[i]]
        BY DivergenceFacts, Zenon
      <3> HIDE DEF d
      <3>6. \A i \in 1..5 : Layers[i] \in ToSet(Layers)
        BY LayerNames DEF ToSet
      <3>7. CASE d = 0
        BY <3>1, <3>4, <3>7 DEF LayerIsTrue
      <3>8. CASE d # 0
        <4>0. d \in 1..5
          BY <3>5, <3>8
        <4>1. d \in 1..5 /\ k.layer = Layers[d]
          BY <3>1, <3>4, <3>8, <4>0, Zenon
        <4>2. Snapshots[r].texts[k.layer] # Snapshots[q].texts[k.layer]
          BY <3>2, <3>3, <3>5, <3>6, <3>8, <4>1
        <4>3. \A i \in 1..5 : i < d =>
                 Snapshots[r].texts[Layers[i]] = Snapshots[q].texts[Layers[i]]
          BY <3>2, <3>3, <3>5, <3>6, <3>8
        <4> QED
          BY <4>1, <4>2, <4>3, Zenon DEF LayerIsTrue
      <3> QED
        BY <3>7, <3>8
    <2> QED
      BY <2>1, <2>2
  <1> QED
    BY <1>3, <1>4, <1>5

\* From a true layer the stored view says of a sub-layer what the snapshots say, or
\* that it does not know; a conversation after the divergence is the exception.
LEMMA SubLayersAttributed ==
    ASSUME BodiesRead, NEW a \in Events, NEW b \in Events, NEW divergent,
           LayerIsTrue(divergent, a.fp, b.fp), NEW l \in SystemLayers \cup HistoryLayers
    PROVE  \/ SubLayerStatus(a, b, divergent)[l]
                \in {"unknown", SnapshotStatus(Snapshots[a.fp], Snapshots[b.fp])[l]}
           \/ l \in HistoryLayers /\ divergent \in SystemLayers \cup {"tools"}
  <1> DEFINE r == a.fp
             q == b.fp
             h == Snapshots[r]
             g == Snapshots[q]
             stored == SubLayerStatus(a, b, divergent)[l]
             exact == SnapshotStatus(h, g)[l]
             sameSystem == DiffField(a, b, "system") = "same"
             sameHistory == DiffHistory(a, b) = "same"
             inSystem == divergent \in SystemLayers
             inHistory == divergent \in HistoryLayers
             settled == \/ l \in SystemLayers  /\ (sameSystem \/ inHistory \/ divergent = "tools")
                        \/ l \in HistoryLayers /\ (sameHistory \/ inSystem \/ divergent = "tools")
                        \/ l = "system prefix" /\ divergent = "system suffix"
                        \/ l = "history" /\ divergent = "tail"
  <1>1. /\ r \in Requests /\ q \in Requests /\ ~r.blocks /\ ~q.blocks
        /\ a.system = SystemText(r) /\ b.system = SystemText(q)
        /\ a.history = r.messages /\ b.history = q.messages
    BY EventFacts DEF BodiesRead
  <1>2. a.system = r.system /\ b.system = q.system
    BY <1>1 DEF SystemText
  <1>3. stored = IF l = divergent THEN "changed" ELSE IF settled THEN "same" ELSE "unknown"
    BY DEF SubLayerStatus
  <1>4. l \in ToSet(Layers)
    BY LayerNames DEF SystemLayers, HistoryLayers
  <1>t. LayerIsTrue(divergent, r, q)
    OBVIOUS
  <1> HIDE DEF r, q, stored
  <1>5. /\ \A j \in ToSet(Layers) : h.texts[j] # Absent
        /\ \A j \in ToSet(Layers) : g.texts[j] # Absent
    BY <1>1, SnapshotTexts
  <1>6. exact = IF h.texts[l] # g.texts[l] THEN "changed" ELSE "same"
    <2> HIDE DEF h, g
    <2>1. exact = MaybeDiffers(h.texts[l], g.texts[l])
      BY <1>4 DEF SnapshotStatus, TopologyLayers
    <2> HIDE DEF exact
    <2> QED
      BY <1>4, <1>5, <2>1 DEF MaybeDiffers
  <1>7. /\ r.system = q.system =>
              /\ h.texts["system prefix"] = g.texts["system prefix"]
              /\ h.texts["system suffix"] = g.texts["system suffix"]
        /\ r.messages = q.messages =>
              /\ h.texts["history"] = g.texts["history"] /\ h.texts["tail"] = g.texts["tail"]
    <2> DEFINE n == Len(r.messages)
               k == Len(q.messages)
    <2>1. h = ToHashes(Content(r, Event(Absent, r))) /\ g = ToHashes(Content(q, Event(Absent, q)))
      BY <1>1 DEF Snapshots
    <2>2. /\ h.texts["system prefix"] = SplitSystem(r.system)[1]
          /\ h.texts["system suffix"] = SplitSystem(r.system)[2]
          /\ h.texts["history"] = SubSeq(r.messages, 1, n - 1)
          /\ h.texts["tail"] = SubSeq(r.messages, Max({1, n}), n)
      <3> HIDE DEF h
      <3> QED
        BY <1>1, <2>1, ContentTexts, Zenon
    <2>3. /\ g.texts["system prefix"] = SplitSystem(q.system)[1]
          /\ g.texts["system suffix"] = SplitSystem(q.system)[2]
          /\ g.texts["history"] = SubSeq(q.messages, 1, k - 1)
          /\ g.texts["tail"] = SubSeq(q.messages, Max({1, k}), k)
      <3> HIDE DEF g
      <3> QED
        BY <1>1, <2>1, ContentTexts, Zenon
    <2> QED
      BY <2>2, <2>3, Zenon
  <1>8. divergent = Absent \/ \E d \in 1..5 :
              /\ divergent = Layers[d] /\ h.texts[divergent] # g.texts[divergent]
              /\ \A i \in 1..5 : i < d => h.texts[Layers[i]] = g.texts[Layers[i]]
    BY <1>t DEF LayerIsTrue
  <1> HIDE DEF h, g, exact
  <1>9. Absent \notin ToSet(Layers)
    BY LogAssumption
  <1>10. CASE l = divergent
    <2>1. h.texts[l] # g.texts[l]
      BY <1>4, <1>8, <1>9, <1>10
    <2> QED
      BY <1>3, <1>6, <1>10, <2>1 DEF stored, exact, h, g, r, q
  <1>11. CASE l # divergent /\ settled
    <2>0. stored = "same"
      BY <1>3, <1>11
    <2>1. CASE l \in SystemLayers /\ sameSystem
      <3>1. r.system = q.system
        BY <1>2, <2>1 DEF DiffField
      <3>2. h.texts[l] = g.texts[l]
        BY <1>7, <2>1, <3>1 DEF SystemLayers
      <3> QED
        BY <1>6, <2>0, <3>2 DEF stored, exact, h, g, r, q
    <2>2. CASE l \in HistoryLayers /\ sameHistory
      <3>1. r.messages = q.messages
        BY <1>1, <2>2 DEF DiffHistory
      <3>2. h.texts[l] = g.texts[l]
        BY <1>7, <2>2, <3>1 DEF HistoryLayers
      <3> QED
        BY <1>6, <2>0, <3>2 DEF stored, exact, h, g, r, q
    <2>3. CASE l \in HistoryLayers /\ (inSystem \/ divergent = "tools")
      BY <2>3
    <2>4. CASE \/ l \in SystemLayers /\ (inHistory \/ divergent = "tools")
               \/ l = "system prefix" /\ divergent = "system suffix"
               \/ l = "history" /\ divergent = "tail"
      <3>1. divergent \in ToSet(Layers)
        BY <2>4, LayerNames DEF HistoryLayers
      <3>2. PICK d \in 1..5 :
              /\ divergent = Layers[d]
              /\ \A i \in 1..5 : i < d => h.texts[Layers[i]] = g.texts[Layers[i]]
        BY <1>8, <1>9, <3>1
      <3>3. d = 1 \/ d = 2 \/ d = 3 \/ d = 4 \/ d = 5
        BY <3>2
      <3>4. /\ d > 2 => h.texts["system prefix"] = g.texts["system prefix"]
                        /\ h.texts["system suffix"] = g.texts["system suffix"]
            /\ d > 1 => h.texts["system prefix"] = g.texts["system prefix"]
            /\ d > 4 => h.texts["history"] = g.texts["history"]
        <4>1. 1 \in 1..5 /\ 2 \in 1..5 /\ 4 \in 1..5
          OBVIOUS
        <4>2. /\ 1 < d => h.texts[Layers[1]] = g.texts[Layers[1]]
              /\ 2 < d => h.texts[Layers[2]] = g.texts[Layers[2]]
              /\ 4 < d => h.texts[Layers[4]] = g.texts[Layers[4]]
          BY <3>2, <4>1, Zenon
        <4>3. (d > 2 => 1 < d /\ 2 < d) /\ (d > 1 => 1 < d) /\ (d > 4 => 4 < d)
          BY <3>2
        <4>4. Layers[1] = "system prefix" /\ Layers[2] = "system suffix" /\ Layers[4] = "history"
          BY LayerNames
        <4> QED
          BY <4>2, <4>3, <4>4, Zenon
      <3>5. h.texts[l] = g.texts[l]
        <4>1. CASE l \in SystemLayers /\ (inHistory \/ divergent = "tools")
          <5>1. d = 3 \/ d = 4 \/ d = 5
            BY <3>2, <3>3, <4>1, LayerNames DEF HistoryLayers
          <5>2. d > 2
            BY <5>1
          <5> QED
            BY <3>4, <4>1, <5>2 DEF SystemLayers
        <4>2. CASE l = "system prefix" /\ divergent = "system suffix"
          <5>1. d = 2
            BY <3>2, <3>3, <4>2, LayerNames
          <5>2. d > 1
            BY <5>1
          <5> QED
            BY <3>4, <4>2, <5>2
        <4>3. CASE l = "history" /\ divergent = "tail"
          <5>1. d = 5
            BY <3>2, <3>3, <4>3, LayerNames
          <5>2. d > 4
            BY <5>1
          <5> QED
            BY <3>4, <4>3, <5>2
        <4> QED
          BY <2>4, <4>1, <4>2, <4>3
      <3> QED
        BY <1>6, <2>0, <3>5 DEF stored, exact, h, g, r, q
    <2> QED
      BY <1>11, <2>1, <2>2, <2>3, <2>4
  <1>12. CASE l # divergent /\ ~settled
    <2>1. stored = "unknown"
      BY <1>3, <1>12
    <2> QED
      BY <2>1 DEF stored
  <1> QED
    BY <1>10, <1>11, <1>12

\* The newest entries of a table are entries of it.
LEMMA NewestWithin ==
    ASSUME NEW S, NEW table \in Seq(S), NEW limit \in Nat
    PROVE  /\ Newest(table, limit) \in Seq(S)
           /\ \A i \in DOMAIN Newest(table, limit) :
                 \E j \in DOMAIN table : Newest(table, limit)[i] = table[j]
  <1> DEFINE n == Len(table)
             x == n - limit + 1
             m == Max({1, x})
  <1>1. n \in Nat /\ x \in Int /\ DOMAIN table = 1..n
    OBVIOUS
  <1> HIDE DEF x
  <1>2. m \in Nat /\ m >= 1
    <2>1. \E y \in {1, x} : \A z \in {1, x} : y >= z
      BY <1>1
    <2>2. m \in {1, x} /\ \A z \in {1, x} : m >= z
      BY <2>1 DEF Max
    <2> QED
      BY <1>1, <2>2
  <1> HIDE DEF m
  <1>3. Newest(table, limit) = SubSeq(table, m, n)
    BY DEF Newest, m, x
  <1>4. /\ SubSeq(table, m, n) \in Seq(S)
        /\ DOMAIN SubSeq(table, m, n) = IF m <= n THEN 1 .. n - m + 1 ELSE {}
        /\ \A i \in 1 .. n - m + 1 : SubSeq(table, m, n)[i] = table[m + i - 1]
    BY <1>1, <1>2
  <1>5. ASSUME NEW i \in DOMAIN SubSeq(table, m, n)
        PROVE  \E j \in DOMAIN table : SubSeq(table, m, n)[i] = table[j]
    <2>1. i \in 1 .. n - m + 1
      BY <1>4
    <2>2. m + i - 1 \in 1..n
      BY <1>1, <1>2, <2>1
    <2> QED
      BY <1>1, <1>4, <2>1, <2>2
  <1> QED
    BY <1>3, <1>4, <1>5

\* The row that is found for a transition is of that transition.
LEMMA ChurnOfFacts ==
    ASSUME NEW S, NEW rows \in Seq(S), NEW a, NEW b, ChurnOf(rows, a, b) # 0
    PROVE  LET i == ChurnOf(rows, a, b)
           IN  i \in DOMAIN rows /\ rows[i].previous = a.fp /\ rows[i].new = b.fp
  <1> DEFINE I == {i \in 1..Len(rows) :
                      rows[i].session = a.session /\ rows[i].previous = a.fp
                      /\ rows[i].new = b.fp}
             k == ChurnOf(rows, a, b)
  <1>1. k = IF I # {} THEN Min(I) ELSE 0
    BY DEF ChurnOf, SelectInSeq
  <1>2. /\ I \in SUBSET Nat
        /\ \A i \in I : i \in DOMAIN rows /\ rows[i].previous = a.fp /\ rows[i].new = b.fp
    OBVIOUS
  <1>3. k # 0
    OBVIOUS
  <1> HIDE DEF I, k
  <1>4. I # {} /\ k = Min(I)
    BY <1>1, <1>3
  <1>5. k \in I
    BY <1>2, <1>4, LeastOf
  <1> QED
    BY <1>2, <1>5 DEF k

\* What the invariant says of the stored view.
LEMMA TracedAttribution ==
    ASSUME BodiesRead, Traced
    PROVE  AttributionSound
  <1> DEFINE rows == Newest(churn, Limit)
             events == Newest(log, Limit)
  <1>0. log \in Seq(Events) /\ churn \in Seq(AnyRows) /\ Limit \in Nat
    BY LogAssumption DEF Traced, Typed
  <1> HIDE DEF rows, events
  <1>1. events \in Seq(Events)
    <2>1. Newest(log, Limit) \in Seq(Events)
      BY <1>0, NewestWithin
    <2> QED
      BY <2>1 DEF events
  <1>2. rows \in Seq(AnyRows) /\ \A i \in DOMAIN rows : \E j \in DOMAIN churn : rows[i] = churn[j]
    <2>1. Newest(churn, Limit) \in Seq(AnyRows)
      BY <1>0, NewestWithin
    <2>2. \A i \in DOMAIN Newest(churn, Limit) :
             \E j \in DOMAIN churn : Newest(churn, Limit)[i] = churn[j]
      BY <1>0, NewestWithin
    <2> QED
      BY <2>1, <2>2 DEF rows
  <1>3. \A i \in DOMAIN rows : IsTrueRow(rows[i])
    BY <1>2 DEF Traced
  <1>4. ASSUME NEW p \in SessionPairs(events), NEW l \in SystemLayers \cup HistoryLayers
        PROVE  LET a == events[p[1]]
                   b == events[p[2]]
                   i == ChurnOf(rows, a, b)
                   divergent == IF i = 0 THEN Absent ELSE rows[i].layer
                   stored == SubLayerStatus(a, b, divergent)
                   exact == SnapshotStatus(Snapshots[a.fp], Snapshots[b.fp])
               IN  \/ stored[l] \in {"unknown", exact[l]}
                   \/ l \in HistoryLayers /\ divergent \in SystemLayers \cup {"tools"}
    <2> DEFINE a == events[p[1]]
               b == events[p[2]]
               i == ChurnOf(rows, a, b)
               divergent == IF i = 0 THEN Absent ELSE rows[i].layer
    <2>1. p[1] \in DOMAIN events /\ p[2] \in DOMAIN events
      BY DEF SessionPairs
    <2>2. a \in Events /\ b \in Events
      BY <1>1, <2>1
    <2> HIDE DEF a, b
    <2>3. LayerIsTrue(divergent, a.fp, b.fp)
      <3>1. CASE i = 0
        BY <3>1 DEF LayerIsTrue
      <3>2. CASE i # 0
        <4>1. i \in DOMAIN rows /\ rows[i].previous = a.fp /\ rows[i].new = b.fp
          BY <1>2, <3>2, ChurnOfFacts
        <4> HIDE DEF i
        <4>2. LayerIsTrue(rows[i].layer, rows[i].previous, rows[i].new)
          BY <1>3, <4>1, RowLayer
        <4>3. divergent = rows[i].layer
          BY <3>2
        <4> QED
          BY <4>1, <4>2, <4>3
      <3> QED
        BY <3>1, <3>2
    <2> HIDE DEF divergent
    <2>4. \/ SubLayerStatus(a, b, divergent)[l]
                \in {"unknown", SnapshotStatus(Snapshots[a.fp], Snapshots[b.fp])[l]}
          \/ l \in HistoryLayers /\ divergent \in SystemLayers \cup {"tools"}
      BY <2>2, <2>3, SubLayersAttributed
    <2> QED
      BY <2>4, Zenon DEF a, b, i, divergent
  <1> QED
    BY <1>4, Zenon DEF AttributionSound, rows, events

\* When no system prompt comes as blocks and every body fits the cache, what the
\* stored topology says of the parts of the system prompt and of the conversation is
\* what the requests themselves show, for every window and every order of requests,
\* restarts and lost rows; only a conversation that follows the divergence may have
\* changed although it is called unchanged (topology.py:210-216).
THEOREM AttributionIsSound ==
    ASSUME BodiesRead
    PROVE  Spec => []AttributionSound
  <1>1. Init => Traced
    BY TracedInit
  <1>2. Traced /\ [Next]_vars => Traced'
    BY TracedNext
  <1>3. Traced => AttributionSound
    BY TracedAttribution
  <1> QED
    BY <1>1, <1>2, <1>3, PTL DEF Spec

-----------------------------------------------------------------------------
(* The topology of one session *)

\* f is defined by recursion: b before the first step, G[n] for step n.
Obeys(f, b, G) == \A n \in Nat : f[n] = G[n][IF n = 0 THEN b ELSE f[n - 1]]

\* A function on the naturals may be defined by what it is at each number in terms
\* of the number before it.
LEMMA NatRecursion ==
    ASSUME NEW T, NEW b \in T, NEW G \in [Nat -> [T -> T]]
    PROVE  \E f \in [Nat -> T] : Obeys(f, b, G)
  <1> DEFINE UpTo(g, n) == \A m \in 0..n : g[m] = G[m][IF m = 0 THEN b ELSE g[m - 1]]
             Start(n) == \E g \in [Nat -> T] : UpTo(g, n)
             Bad == {n \in Nat : ~Start(n)}
  <1>1. \A n \in Nat, x \in T : G[n][x] \in T
    OBVIOUS
  <1>2. Start(0)
    <2> DEFINE g == [m \in Nat |-> G[0][b]]
    <2>1. 0 \in Nat
      OBVIOUS
    <2>2. g \in [Nat -> T]
      BY <1>1, <2>1
    <2>3. UpTo(g, 0)
      <3>1. \A m \in 0..0 : m = 0
        OBVIOUS
      <3> QED
        BY <2>1, <3>1
    <2> HIDE DEF g, UpTo
    <2> QED
      BY <2>2, <2>3
  <1>3. ASSUME NEW n \in Nat, Start(n)
        PROVE  Start(n + 1)
    <2>1. PICK g \in [Nat -> T] : UpTo(g, n)
      BY <1>3
    <2> DEFINE h == [g EXCEPT ![n + 1] = G[n + 1][g[n]]]
    <2>2. n + 1 \in Nat /\ g[n] \in T /\ G[n + 1][g[n]] \in T
      BY <1>1
    <2>3. h \in [Nat -> T] /\ h[n + 1] = G[n + 1][g[n]] /\ \A m \in 0..n : h[m] = g[m]
      BY <2>2
    <2>4. UpTo(h, n + 1)
      <3> SUFFICES ASSUME NEW m \in 0..n + 1
                   PROVE  h[m] = G[m][IF m = 0 THEN b ELSE h[m - 1]]
        OBVIOUS
      <3> HIDE DEF h
      <3>1. CASE m = n + 1
        <4>1. m # 0 /\ m - 1 = n /\ n \in 0..n
          BY <3>1
        <4>2. h[m - 1] = g[n]
          BY <2>3, <4>1
        <4> QED
          BY <2>3, <3>1, <4>1, <4>2
      <3>2. CASE m # n + 1
        <4>1. m \in 0..n /\ (m # 0 => m - 1 \in 0..n)
          BY <3>2
        <4>2. h[m] = g[m] /\ (m # 0 => h[m - 1] = g[m - 1])
          BY <2>3, <4>1
        <4>3. g[m] = G[m][IF m = 0 THEN b ELSE g[m - 1]]
          BY <2>1, <4>1
        <4> QED
          BY <4>2, <4>3
      <3> QED
        BY <3>1, <3>2
    <2> HIDE DEF h, UpTo
    <2> QED
      BY <2>3, <2>4
  <1>4. \A n \in Nat : Start(n)
    <2> HIDE DEF Start
    <2> SUFFICES ASSUME Bad # {}
                 PROVE  FALSE
      OBVIOUS
    <2>1. PICK n \in Bad : \A m \in Bad : n <= m
      BY LeastOf
    <2>2. n \in Nat /\ n # 0 /\ ~Start(n)
      BY <1>2, <2>1
    <2>3. n - 1 \in Nat /\ n - 1 \notin Bad
      BY <2>1, <2>2
    <2>4. Start(n - 1)
      BY <2>3
    <2>5. (n - 1) + 1 = n
      BY <2>2
    <2> QED
      BY <1>3, <2>2, <2>3, <2>4, <2>5
  <1>5. ASSUME NEW g, NEW h, NEW n \in Nat, NEW k \in Nat, UpTo(g, n), UpTo(h, k)
        PROVE  \A m \in 0..n : m \in 0..k => g[m] = h[m]
    <2> DEFINE Differ == {m \in Nat : m <= n /\ m <= k /\ g[m] # h[m]}
    <2> SUFFICES ASSUME Differ # {}
                 PROVE  FALSE
      OBVIOUS
    <2>1. PICK m \in Differ : \A i \in Differ : m <= i
      BY LeastOf
    <2>2. m \in Nat /\ m \in 0..n /\ m \in 0..k /\ g[m] # h[m]
      BY <2>1
    <2>3. /\ g[m] = G[m][IF m = 0 THEN b ELSE g[m - 1]]
          /\ h[m] = G[m][IF m = 0 THEN b ELSE h[m - 1]]
      BY <1>5, <2>2
    <2>4. m # 0
      BY <2>2, <2>3
    <2>5. m - 1 \in Nat /\ m - 1 <= n /\ m - 1 <= k /\ ~(m <= m - 1)
      BY <2>2, <2>4
    <2>6. g[m - 1] = h[m - 1]
      BY <2>1, <2>5
    <2> QED
      BY <2>2, <2>3, <2>4, <2>6
  <1> DEFINE part(n) == CHOOSE g \in [Nat -> T] : UpTo(g, n)
             f == [n \in Nat |-> part(n)[n]]
  <1>6. \A n \in Nat : part(n) \in [Nat -> T] /\ UpTo(part(n), n)
    <2> HIDE DEF UpTo
    <2> QED
      BY <1>4
  <1> HIDE DEF part
  <1>7. f \in [Nat -> T]
    BY <1>6
  <1>8. ASSUME NEW n \in Nat
        PROVE  f[n] = G[n][IF n = 0 THEN b ELSE f[n - 1]]
    <2>1. f[n] = part(n)[n] /\ n \in 0..n
      OBVIOUS
    <2>2. part(n)[n] = G[n][IF n = 0 THEN b ELSE part(n)[n - 1]]
      BY <1>6, <2>1
    <2>3. ASSUME n # 0
          PROVE  f[n - 1] = part(n)[n - 1]
      <3>1. n - 1 \in Nat /\ n - 1 \in 0..n /\ n - 1 \in 0..n - 1
        BY <2>3
      <3>2. f[n - 1] = part(n - 1)[n - 1]
        BY <3>1
      <3> HIDE DEF UpTo, f
      <3>3. UpTo(part(n - 1), n - 1) /\ UpTo(part(n), n)
        BY <1>6, <3>1
      <3>4. part(n - 1)[n - 1] = part(n)[n - 1]
        BY <1>5, <3>1, <3>3
      <3> QED
        BY <3>2, <3>4
    <2> HIDE DEF f
    <2> QED
      BY <2>1, <2>2, <2>3
  <1>9. Obeys(f, b, G)
    BY <1>8 DEF Obeys
  <1> HIDE DEF f
  <1> QED
    BY <1>7, <1>9

\* The entries of a session are entries of the table, each of that session.
LEMMA OfSessionWithin ==
    ASSUME NEW S, NEW table \in Seq(S), NEW s
    PROVE  OfSession(table, s) \in Seq({x \in S : x.session = s})
  <1> DEFINE Mine == {x \in S : x.session = s}
             T == Seq(Mine)
             N == Len(table)
             next(n, x) == IF n \in 1..N /\ table[n].session = s THEN Append(x, table[n]) ELSE x
             G == [n \in Nat |-> [x \in T |-> next(n, x)]]
             Rec(f) == [n \in 0..N |->
                          IF n = 0 THEN <<>>
                          ELSE IF table[n].session = s THEN Append(f[n - 1], table[n])
                          ELSE f[n - 1]]
             kept == CHOOSE f : f = Rec(f)
  <1>1. N \in Nat /\ \A n \in 1..N : table[n] \in S
    OBVIOUS
  <1>2. <<>> \in T
    OBVIOUS
  <1>3. \A n \in Nat, x \in T : next(n, x) \in T
    <2> SUFFICES ASSUME NEW n \in Nat, NEW x \in T
                 PROVE  next(n, x) \in T
      OBVIOUS
    <2>1. CASE n \in 1..N /\ table[n].session = s
      <3>1. table[n] \in Mine
        BY <1>1, <2>1
      <3> HIDE DEF Mine
      <3>2. Append(x, table[n]) \in T
        BY <3>1
      <3> QED
        BY <2>1, <3>2
    <2>2. CASE ~(n \in 1..N /\ table[n].session = s)
      BY <2>2
    <2> QED
      BY <2>1, <2>2
  <1>4. G \in [Nat -> [T -> T]]
    <2> HIDE DEF T, next
    <2> QED
      BY <1>3
  <1>5. PICK f \in [Nat -> T] : Obeys(f, <<>>, G)
    <2> DEFINE b == <<>>
    <2>1. b \in T
      BY <1>2
    <2> HIDE DEF T, G, b
    <2>2. \E f \in [Nat -> T] : Obeys(f, b, G)
      BY <1>4, <2>1, NatRecursion, Zenon
    <2> QED
      BY <2>2 DEF b
  <1>6. \A n \in Nat : f[n] = next(n, IF n = 0 THEN <<>> ELSE f[n - 1])
    <2> HIDE DEF T, next
    <2>1. \A n \in Nat : n # 0 => n - 1 \in Nat
      OBVIOUS
    <2>2. \A n \in Nat : (IF n = 0 THEN <<>> ELSE f[n - 1]) \in T
      BY <1>2, <2>1
    <2>3. \A n \in Nat, x \in T : G[n][x] = next(n, x)
      OBVIOUS
    <2> HIDE DEF G
    <2> QED
      BY <1>5, <2>2, <2>3 DEF Obeys
  <1> DEFINE g == [n \in 0..N |-> f[n]]
  <1>7. g = Rec(g)
    <2>1. ASSUME NEW n \in 0..N
          PROVE  g[n] = Rec(g)[n]
      <3>1. n \in Nat /\ g[n] = f[n] /\ (n # 0 => n \in 1..N /\ g[n - 1] = f[n - 1])
        BY <1>1
      <3>2. f[n] = next(n, IF n = 0 THEN <<>> ELSE f[n - 1])
        BY <1>6, <3>1
      <3>3. CASE n = 0
        <4>1. ~(0 \in 1..N)
          BY <1>1
        <4>2. g[n] = <<>>
          BY <3>1, <3>2, <3>3, <4>1
        <4> HIDE DEF g
        <4> QED
          BY <3>3, <4>2
      <3>4. CASE n # 0
        <4> HIDE DEF g
        <4> QED
          BY <3>1, <3>2, <3>4
      <3> QED
        BY <3>3, <3>4
    <2> QED
      BY <2>1
  <1>8. kept = Rec(kept)
    <2> HIDE DEF Rec, g
    <2> QED
      BY <1>7
  <1>9. OfSession(table, s) = kept[N]
    BY Zenon DEF OfSession
  <1> HIDE DEF kept
  <1> DEFINE Bad == {n \in Nat : n <= N /\ kept[n] \notin T}
  <1>10. Bad = {}
    <2> SUFFICES ASSUME Bad # {}
                 PROVE  FALSE
      OBVIOUS
    <2>1. PICK n \in Bad : \A m \in Bad : n <= m
      BY LeastOf
    <2>2. n \in 0..N /\ n \in Nat /\ kept[n] \notin T
      BY <1>1, <2>1
    <2>3. kept[n] = IF n = 0 THEN <<>>
                    ELSE IF table[n].session = s THEN Append(kept[n - 1], table[n])
                    ELSE kept[n - 1]
      <3>1. kept[n] = Rec(kept)[n]
        BY <1>8
      <3> HIDE DEF T
      <3> QED
        BY <2>2, <3>1
    <2>4. n # 0
      <3> HIDE DEF T
      <3> QED
        BY <1>2, <2>2, <2>3
    <2>5. n \in 1..N /\ n - 1 \in Nat /\ n - 1 <= N /\ ~(n <= n - 1)
      BY <1>1, <2>2, <2>4
    <2>6. kept[n - 1] \in T
      <3> HIDE DEF T
      <3> QED
        BY <2>1, <2>5
    <2>7. kept[n] = next(n, kept[n - 1])
      <3> HIDE DEF T
      <3> QED
        BY <2>3, <2>4, <2>5
    <2> HIDE DEF T, next
    <2>8. next(n, kept[n - 1]) \in T
      BY <1>3, <2>2, <2>6
    <2> QED
      BY <2>2, <2>7, <2>8
  <1>11. kept[N] \in T
    <2> HIDE DEF T
    <2>1. N <= N
      BY <1>1
    <2> QED
      BY <1>1, <1>10, <2>1
  <1> QED
    BY <1>9, <1>11

\* In a window of one session the pairs are the neighbours.
LEMMA NeighbourPairs ==
    ASSUME NEW S, NEW events \in Seq(S), NEW s, \A i \in DOMAIN events : events[i].session = s
    PROVE  /\ SessionPairs(events) = {<<i, i + 1>> : i \in 1 .. Len(events) - 1}
           /\ IsFiniteSet(SessionPairs(events))
  <1> DEFINE n == Len(events)
             I == 1 .. n - 1
             pairs == {<<i, i + 1>> : i \in I}
  <1>1. n \in Nat /\ DOMAIN events = 1..n
    OBVIOUS
  <1>2. ASSUME NEW p \in SessionPairs(events)
        PROVE  p \in pairs
    <2>1. /\ p \in (1..n) \X (1..n) /\ p[1] < p[2]
          /\ \A k \in p[1] + 1 .. p[2] - 1 : events[k].session # events[p[1]].session
      BY <1>1 DEF SessionPairs
    <2> DEFINE i == p[1]
               j == p[2]
    <2>2. p = <<i, j>> /\ i \in 1..n /\ j \in 1..n /\ i < j
      BY <2>1
    <2>3. \A k \in i + 1 .. j - 1 : events[k].session # events[i].session
      BY <2>1
    <2> HIDE DEF i, j
    <2>4. j = i + 1
      <3> SUFFICES ASSUME j # i + 1
                   PROVE  FALSE
        OBVIOUS
      <3>1. i + 1 \in i + 1 .. j - 1 /\ i + 1 \in 1..n
        BY <1>1, <2>2
      <3> QED
        BY <1>1, <2>2, <2>3, <3>1
    <2>5. i \in I
      BY <1>1, <2>2, <2>4
    <2> QED
      BY <2>2, <2>4, <2>5
  <1>3. ASSUME NEW i \in I
        PROVE  <<i, i + 1>> \in SessionPairs(events)
    <2> DEFINE p == <<i, i + 1>>
    <2>1. i \in 1..n /\ i + 1 \in 1..n /\ i < i + 1 /\ i + 1 .. (i + 1) - 1 = {}
      BY <1>1
    <2>2. p \in (1..n) \X (1..n) /\ p[1] = i /\ p[2] = i + 1
      BY <2>1
    <2>3. events[i].session = events[i + 1].session
      BY <1>1, <2>1
    <2>4. /\ p[1] < p[2] /\ events[p[1]].session = events[p[2]].session
          /\ p[1] + 1 .. p[2] - 1 = {}
      BY <2>1, <2>2, <2>3
    <2> HIDE DEF p
    <2> QED
      BY <1>1, <2>2, <2>4 DEF SessionPairs, p
  <1>4. SessionPairs(events) = pairs
    BY <1>2, <1>3
  <1>5. IsFiniteSet(pairs)
    <2>1. IsFiniteSet(I)
      BY <1>1, FS_Interval
    <2> DEFINE f == [i \in I |-> <<i, i + 1>>]
    <2> HIDE DEF I
    <2>2. f \in [I -> pairs] /\ \A p \in pairs : \E i \in I : f[i] = p
      OBVIOUS
    <2> HIDE DEF f, pairs
    <2>3. f \in Surjection(I, pairs)
      BY <2>2 DEF Surjection
    <2> QED
      BY <2>1, <2>3, FS_Surjection
  <1> QED
    BY <1>4, <1>5

\* What two views say of every pair: the one of the layers in Same the same, and of
\* those in Less no change that the other does not see.
PairsWithin(P, st, ord, rt, mv, st2, ord2, rt2, mv2, Same, Less) ==
    \A p \in P :
        /\ ord[p] = ord2[p] /\ rt[p] = rt2[p] /\ (mv2[p] => mv[p])
        /\ \A l \in Same : st[p][l] = st2[p][l]
        /\ \A l \in Less : st[p][l] = "changed" => st2[p][l] = "changed"

\* The same of their counts.
CountsWithin(A, B, Same, Less) ==
    /\ A.total = B.total /\ A.tools = B.tools /\ A.churned >= B.churned
    /\ \A l \in Same : A.pairs[l] = B.pairs[l] /\ A.changes[l] = B.changes[l]
    /\ \A l \in Less : A.changes[l] <= B.changes[l]

\* What holds of every pair holds of the counts.
LEMMA ReportsCompared ==
    ASSUME NEW P, IsFiniteSet(P),
           NEW st, NEW ord, NEW rt, NEW mv, NEW st2, NEW ord2, NEW rt2, NEW mv2,
           NEW Same, NEW Less, Same \subseteq TopologyLayers, Less \subseteq TopologyLayers,
           PairsWithin(P, st, ord, rt, mv, st2, ord2, rt2, mv2, Same, Less)
    PROVE  CountsWithin(Report(P, st, ord, rt, mv), Report(P, st2, ord2, rt2, mv2), Same, Less)
  <1>0. /\ \A p \in P : ord[p] = ord2[p] /\ rt[p] = rt2[p] /\ (mv2[p] => mv[p])
        /\ \A p \in P : \A l \in Same : st[p][l] = st2[p][l]
        /\ \A p \in P : \A l \in Less : st[p][l] = "changed" => st2[p][l] = "changed"
    BY DEF PairsWithin
  <1> DEFINE A == Report(P, st, ord, rt, mv)
             B == Report(P, st2, ord2, rt2, mv2)
  <1>1. A.total = B.total
    BY DEF Report
  <1>2. A.tools = B.tools
    <2>1. {rt[p] : p \in P} = {rt2[p] : p \in P}
      BY <1>0
    <2>2. \A r, o : {p \in P : rt[p] = r /\ ord[p] = o} = {p \in P : rt2[p] = r /\ ord2[p] = o}
      BY <1>0
    <2>3. /\ A.tools = [r \in {rt[p] : p \in P} |-> [o \in {"permuted", "mutated"} |->
                          Cardinality({p \in P : rt[p] = r /\ ord[p] = o})]]
          /\ B.tools = [r \in {rt2[p] : p \in P} |-> [o \in {"permuted", "mutated"} |->
                          Cardinality({p \in P : rt2[p] = r /\ ord2[p] = o})]]
      BY DEF Report
    <2> HIDE DEF A, B
    <2> DEFINE R == {rt[p] : p \in P}
               c(r, o) == Cardinality({p \in P : rt[p] = r /\ ord[p] = o})
               c2(r, o) == Cardinality({p \in P : rt2[p] = r /\ ord2[p] = o})
    <2>4. \A r, o : c(r, o) = c2(r, o)
      BY <2>2
    <2>5. /\ A.tools = [r \in R |-> [o \in {"permuted", "mutated"} |-> c(r, o)]]
          /\ B.tools = [r \in R |-> [o \in {"permuted", "mutated"} |-> c2(r, o)]]
      BY <2>1, <2>3
    <2> HIDE DEF R, c, c2
    <2> QED
      BY <2>4, <2>5
  <1>3. A.churned >= B.churned
    <2> DEFINE M == {p \in P : mv[p]}
               N == {p \in P : mv2[p]}
    <2>1. N \subseteq M /\ M \subseteq P
      BY <1>0
    <2>2. IsFiniteSet(M) /\ Cardinality(M) \in Nat
      BY <2>1, FS_Subset, FS_CardinalityType
    <2>3. Cardinality(N) \in Nat /\ Cardinality(N) <= Cardinality(M)
      BY <2>1, <2>2, FS_Subset, FS_CardinalityType
    <2>4. A.churned = Cardinality(M) /\ B.churned = Cardinality(N)
      BY DEF Report
    <2> HIDE DEF A, B, M, N
    <2> QED
      BY <2>2, <2>3, <2>4
  <1>4. ASSUME NEW l \in TopologyLayers
        PROVE  /\ A.pairs[l] = Cardinality({p \in P : st[p][l] # "unknown"})
               /\ B.pairs[l] = Cardinality({p \in P : st2[p][l] # "unknown"})
               /\ A.changes[l] = Cardinality({p \in P : st[p][l] = "changed"})
               /\ B.changes[l] = Cardinality({p \in P : st2[p][l] = "changed"})
    BY DEF Report
  <1> HIDE DEF A, B
  <1>5. ASSUME NEW l \in Same
        PROVE  A.pairs[l] = B.pairs[l] /\ A.changes[l] = B.changes[l]
    <2> DEFINE K == {p \in P : st[p][l] # "unknown"}
               K2 == {p \in P : st2[p][l] # "unknown"}
               M == {p \in P : st[p][l] = "changed"}
               M2 == {p \in P : st2[p][l] = "changed"}
    <2>1. K = K2 /\ M = M2
      BY <1>0
    <2>2. /\ A.pairs[l] = Cardinality(K) /\ B.pairs[l] = Cardinality(K2)
          /\ A.changes[l] = Cardinality(M) /\ B.changes[l] = Cardinality(M2)
      BY <1>4
    <2> HIDE DEF K, K2, M, M2
    <2> QED
      BY <2>1, <2>2
  <1>6. ASSUME NEW l \in Less
        PROVE  A.changes[l] <= B.changes[l]
    <2> DEFINE M == {p \in P : st[p][l] = "changed"}
               N == {p \in P : st2[p][l] = "changed"}
    <2>1. M \subseteq N /\ N \subseteq P
      BY <1>0
    <2>2. IsFiniteSet(N)
      BY <2>1, FS_Subset
    <2>3. Cardinality(M) <= Cardinality(N)
      BY <2>1, <2>2, FS_Subset
    <2>4. A.changes[l] = Cardinality(M) /\ B.changes[l] = Cardinality(N)
      BY <1>4
    <2> HIDE DEF M, N
    <2> QED
      BY <2>3, <2>4
  <1> QED
    BY <1>1, <1>2, <1>3, <1>5, <1>6 DEF CountsWithin, A, B

\* What the store and the snapshots say of two requests of a session: the same of
\* the tools, the model, the route and the order of the tools; a part of the system
\* prompt or of the conversation that the store says changed did; and requests that
\* differ have different fingerprints.
LEMMA PairCompared ==
    ASSUME BodiesRead, NEW a \in Events, NEW b \in Events, NEW divergent,
           LayerIsTrue(divergent, a.fp, b.fp)
    PROVE  LET h == Snapshots[a.fp]
               g == Snapshots[b.fp]
           IN  /\ ToolOrdering(a, b) = ToolOrdering(h, g) /\ b.route = g.route
               /\ \A l \in {"tools", "model", "route"} :
                     StoredStatus(a, b, divergent)[l] = SnapshotStatus(h, g)[l]
               /\ \A l \in SystemLayers \cup HistoryLayers :
                     StoredStatus(a, b, divergent)[l] = "changed"
                        => SnapshotStatus(h, g)[l] = "changed"
               /\ (\E l \in TopologyLayers : SnapshotStatus(h, g)[l] = "changed")
                     => a.fp # b.fp
  <1> DEFINE h == Snapshots[a.fp]
             g == Snapshots[b.fp]
             r == a.fp
             q == b.fp
  <1>1. /\ r \in Requests /\ q \in Requests /\ ~r.blocks /\ ~q.blocks
        /\ a.tools = r.tools /\ b.tools = q.tools /\ a.route = r.route /\ b.route = q.route
        /\ a.model = r.model /\ b.model = q.model
    BY EventFacts DEF BodiesRead
  <1>2. /\ \A l \in ToSet(Layers) : h.texts[l] # Absent
        /\ \A l \in ToSet(Layers) : g.texts[l] # Absent
    BY <1>1, SnapshotTexts
  <1>3. ASSUME NEW x \in Requests, ~x.blocks
        PROVE  /\ Snapshots[x].texts["tools"] = x.tools /\ Snapshots[x].tools = x.tools
               /\ Snapshots[x].route = x.route /\ Snapshots[x].model = x.model
    <2> DEFINE e == Event(Absent, x)
               k == ToHashes(Content(x, e))
    <2>1. e.route = x.route /\ e.model = x.model
      BY DEF Event
    <2>2. Snapshots[x] = k
      BY DEF Snapshots
    <2> HIDE DEF e
    <2>3. k.texts["tools"] = x.tools /\ k.tools = x.tools /\ k.route = e.route /\ k.model = e.model
      BY <1>3, ContentTexts, Zenon
    <2> HIDE DEF k
    <2> QED
      BY <2>1, <2>2, <2>3
  <1>4. /\ h.texts["tools"] = a.tools /\ h.tools = a.tools /\ h.route = a.route /\ h.model = a.model
        /\ g.texts["tools"] = b.tools /\ g.tools = b.tools /\ g.route = b.route /\ g.model = b.model
    BY <1>1, <1>3
  <1>5. /\ {"tools", "model", "route"} \subseteq TopologyLayers
        /\ SystemLayers \cup HistoryLayers \subseteq ToSet(Layers)
        /\ ToSet(Layers) \subseteq TopologyLayers
        /\ "tools" \in ToSet(Layers) /\ "model" \notin ToSet(Layers) /\ "route" \notin ToSet(Layers)
    <2>1. /\ SystemLayers \cup HistoryLayers \subseteq ToSet(Layers)
          /\ "tools" \in ToSet(Layers) /\ "model" \notin ToSet(Layers)
          /\ "route" \notin ToSet(Layers)
      <3> DEFINE N == {"system prefix", "system suffix", "tools", "history", "tail"}
      <3>1. \A l : l \in ToSet(Layers) <=> l \in N
        BY LayerNames, Zenon
      <3>2. SystemLayers \cup HistoryLayers \subseteq N
        BY DEF SystemLayers, HistoryLayers
      <3>3. "tools" \in N /\ "model" \notin N /\ "route" \notin N
        OBVIOUS
      <3> HIDE DEF N
      <3> QED
        BY <3>1, <3>2, <3>3, Zenon
    <2>2. TopologyLayers = ToSet(Layers) \cup {"route", "model", "key"}
      BY DEF TopologyLayers
    <2> QED
      BY <2>1, <2>2, Zenon
  <1> HIDE DEF h, g
  <1>6. ToolOrdering(a, b) = ToolOrdering(h, g)
    BY <1>4 DEF ToolOrdering
  <1>7. \A l \in TopologyLayers :
            SnapshotStatus(h, g)[l] = IF l \in ToSet(Layers) THEN MaybeDiffers(h.texts[l], g.texts[l])
                                      ELSE IF h[l] # g[l] THEN "changed" ELSE "same"
    BY DEF SnapshotStatus
  <1>8. \A l \in {"tools", "model", "route"} :
            StoredStatus(a, b, divergent)[l] = IF a[l] # b[l] THEN "changed" ELSE "same"
    BY <1>5 DEF StoredStatus, DiffField
  <1>9. SnapshotStatus(h, g)["tools"] = StoredStatus(a, b, divergent)["tools"]
    <2>1. h.texts["tools"] # Absent /\ g.texts["tools"] # Absent
      BY <1>2, <1>5 DEF h, g
    <2>2. SnapshotStatus(h, g)["tools"]
             = IF h.texts["tools"] # g.texts["tools"] THEN "changed" ELSE "same"
      BY <1>5, <1>7, <2>1 DEF MaybeDiffers
    <2>3. StoredStatus(a, b, divergent)["tools"] = IF a.tools # b.tools THEN "changed" ELSE "same"
      BY <1>8
    <2> QED
      BY <1>4, <2>2, <2>3
  <1>10. /\ SnapshotStatus(h, g)["model"] = StoredStatus(a, b, divergent)["model"]
         /\ SnapshotStatus(h, g)["route"] = StoredStatus(a, b, divergent)["route"]
    <2>1. /\ StoredStatus(a, b, divergent)["model"] = IF a.model # b.model THEN "changed" ELSE "same"
          /\ StoredStatus(a, b, divergent)["route"] = IF a.route # b.route THEN "changed" ELSE "same"
      BY <1>8
    <2>2. /\ SnapshotStatus(h, g)["model"] = IF h.model # g.model THEN "changed" ELSE "same"
          /\ SnapshotStatus(h, g)["route"] = IF h.route # g.route THEN "changed" ELSE "same"
      BY <1>5, <1>7
    <2> QED
      BY <1>4, <2>1, <2>2
  <1>11. ASSUME NEW l \in SystemLayers \cup HistoryLayers,
                StoredStatus(a, b, divergent)[l] = "changed"
         PROVE  SnapshotStatus(h, g)[l] = "changed"
    <2>1. StoredStatus(a, b, divergent)[l] = SubLayerStatus(a, b, divergent)[l]
      <3>1. l \in TopologyLayers /\ l \notin {"tools", "route", "model"} /\ l # "key"
        BY <1>5 DEF SystemLayers, HistoryLayers
      <3> QED
        BY <3>1 DEF StoredStatus
    <2>2. l = divergent
      BY <1>11, <2>1 DEF SubLayerStatus
    <2>3. l # Absent
      BY <1>5, LogAssumption
    <2>4. h.texts[l] # g.texts[l]
      BY <2>2, <2>3 DEF LayerIsTrue, h, g
    <2>5. SnapshotStatus(h, g)[l] = MaybeDiffers(h.texts[l], g.texts[l])
      BY <1>5, <1>7
    <2>6. h.texts[l] # Absent /\ g.texts[l] # Absent
      BY <1>2, <1>5 DEF h, g
    <2> QED
      BY <2>4, <2>5, <2>6 DEF MaybeDiffers
  <1>12. ASSUME a.fp = b.fp, NEW l \in TopologyLayers
         PROVE  SnapshotStatus(h, g)[l] # "changed"
    <2>1. h = g
      BY <1>12 DEF h, g
    <2> QED
      BY <1>7, <2>1 DEF MaybeDiffers
  <1>13. /\ ToolOrdering(a, b) = ToolOrdering(h, g) /\ b.route = g.route
         /\ \A l \in {"tools", "model", "route"} :
               StoredStatus(a, b, divergent)[l] = SnapshotStatus(h, g)[l]
         /\ \A l \in SystemLayers \cup HistoryLayers :
               StoredStatus(a, b, divergent)[l] = "changed" => SnapshotStatus(h, g)[l] = "changed"
         /\ (\E l \in TopologyLayers : SnapshotStatus(h, g)[l] = "changed") => a.fp # b.fp
    BY <1>4, <1>6, <1>9, <1>10, <1>11, <1>12
  <1> QED
    BY <1>13, Zenon DEF h, g

\* What the invariant says of the counts over the requests of one session.
LEMMA TracedTopology ==
    ASSUME BodiesRead, Traced
    PROVE  StoredWithinSnapshots
  <1> SUFFICES ASSUME NEW s \in Sessions
               PROVE  LET mine == OfSession(log, s)
                          window == Newest(mine, Limit)
                          stored == TopologyFromStore(mine, OfSession(churn, s), Limit)
                          exact == TopologyFromSnapshots(
                                     [i \in DOMAIN window |-> Snapshots[window[i].fp]])
                      IN  /\ stored.total = exact.total
                          /\ stored.tools = exact.tools
                          /\ stored.churned >= exact.churned
                          /\ \A l \in {"tools", "model", "route"} :
                                stored.pairs[l] = exact.pairs[l]
                                /\ stored.changes[l] = exact.changes[l]
                          /\ \A l \in SystemLayers \cup HistoryLayers :
                                stored.changes[l] <= exact.changes[l]
    BY Zenon DEF StoredWithinSnapshots
  <1> DEFINE mine == OfSession(log, s)
             ours == OfSession(churn, s)
             window == Newest(mine, Limit)
             rows == Newest(ours, Limit)
             snaps == [i \in DOMAIN window |-> Snapshots[window[i].fp]]
             pairs == SessionPairs(window)
             row(p) == ChurnOf(rows, window[p[1]], window[p[2]])
             divergent == [p \in pairs |-> IF row(p) = 0 THEN Absent ELSE rows[row(p)].layer]
             st == [p \in pairs |-> StoredStatus(window[p[1]], window[p[2]], divergent[p])]
             ord == [p \in pairs |-> ToolOrdering(window[p[1]], window[p[2]])]
             rt == [p \in pairs |-> window[p[2]].route]
             mv == [p \in pairs |-> window[p[1]].fp # window[p[2]].fp]
             st2 == [p \in pairs |-> SnapshotStatus(snaps[p[1]], snaps[p[2]])]
             ord2 == [p \in pairs |-> ToolOrdering(snaps[p[1]], snaps[p[2]])]
             rt2 == [p \in pairs |-> snaps[p[2]].route]
             mv2 == [p \in pairs |-> \E l \in TopologyLayers : st2[p][l] = "changed"]
             A == Report(pairs, st, ord, rt, mv)
             B == Report(pairs, st2, ord2, rt2, mv2)
             stored == TopologyFromStore(mine, ours, Limit)
             exact == TopologyFromSnapshots(snaps)
             TrueRows == {c \in AnyRows : IsTrueRow(c)}
             Of(S) == {x \in S : x.session = s}
  <1>1. stored.total = A.total /\ stored.tools = A.tools /\ stored.churned = A.churned
        /\ stored.pairs = A.pairs /\ stored.changes = A.changes
    <2> HIDE DEF mine, ours
    <2> QED
      BY DEF TopologyFromStore
  <1>2. Limit \in Nat /\ log \in Seq(Events) /\ churn \in Seq(TrueRows)
    <2>1. churn \in Seq(AnyRows) /\ \A i \in DOMAIN churn : IsTrueRow(churn[i])
      BY DEF Traced, Typed
    <2>2. \A i \in 1..Len(churn) : churn[i] \in TrueRows
      BY <2>1
    <2>3. churn \in Seq(TrueRows)
      BY <2>1, <2>2
    <2> QED
      BY <2>3, LogAssumption DEF Traced, Typed
  <1> HIDE DEF TrueRows
  <1>3. mine \in Seq(Of(Events)) /\ ours \in Seq(Of(TrueRows))
    BY <1>2, OfSessionWithin
  <1> HIDE DEF mine, ours, Of
  <1>4. window \in Seq(Of(Events)) /\ rows \in Seq(Of(TrueRows))
    BY <1>2, <1>3, NewestWithin
  <1> HIDE DEF window, rows
  <1>5. \A i \in DOMAIN window : window[i] \in Events /\ window[i].session = s
    BY <1>4 DEF Of
  <1>6. pairs = {<<i, i + 1>> : i \in 1 .. Len(window) - 1} /\ IsFiniteSet(pairs)
    BY <1>4, <1>5, NeighbourPairs
  <1>7. exact = B
    <2>1. Len(snaps) = Len(window)
      <3>1. DOMAIN window = 1..Len(window) /\ Len(window) \in Nat
        BY <1>4
      <3> QED
        BY <3>1
    <2>2. {<<i, i + 1>> : i \in 1 .. Len(snaps) - 1} = pairs
      BY <1>6, <2>1
    <2> HIDE DEF snaps, pairs
    <2> QED
      BY <2>2 DEF TopologyFromSnapshots
  <1>8. ASSUME NEW p \in pairs
        PROVE  /\ p[1] \in DOMAIN window /\ p[2] \in DOMAIN window
               /\ snaps[p[1]] = Snapshots[window[p[1]].fp]
               /\ snaps[p[2]] = Snapshots[window[p[2]].fp]
    BY DEF SessionPairs
  <1>9. ASSUME NEW p \in pairs
        PROVE  LayerIsTrue(divergent[p], window[p[1]].fp, window[p[2]].fp)
    <2> DEFINE a == window[p[1]]
               b == window[p[2]]
               k == ChurnOf(rows, a, b)
    <2>1. divergent[p] = IF k = 0 THEN Absent ELSE rows[k].layer
      OBVIOUS
    <2> HIDE DEF divergent, a, b
    <2>2. CASE k = 0
      BY <2>1, <2>2 DEF LayerIsTrue, a, b
    <2>3. CASE k # 0
      <3>1. k \in DOMAIN rows /\ rows[k].previous = a.fp /\ rows[k].new = b.fp
        BY <1>4, <2>3, ChurnOfFacts
      <3> HIDE DEF k
      <3>2. IsTrueRow(rows[k])
        BY <1>4, <3>1 DEF Of, TrueRows
      <3>3. LayerIsTrue(rows[k].layer, rows[k].previous, rows[k].new)
        BY <3>2, RowLayer
      <3> QED
        BY <2>1, <2>3, <3>1, <3>3 DEF a, b
    <2> QED
      BY <2>2, <2>3
  <1>10. ASSUME NEW p \in pairs
         PROVE  /\ ord[p] = ord2[p] /\ rt[p] = rt2[p] /\ (mv2[p] => mv[p])
                /\ \A l \in {"tools", "model", "route"} : st[p][l] = st2[p][l]
                /\ \A l \in SystemLayers \cup HistoryLayers :
                      st[p][l] = "changed" => st2[p][l] = "changed"
    <2> DEFINE a == window[p[1]]
               b == window[p[2]]
               d == divergent[p]
               h == Snapshots[a.fp]
               g == Snapshots[b.fp]
    <2>1. a \in Events /\ b \in Events
      BY <1>5, <1>8
    <2>2. snaps[p[1]] = h /\ snaps[p[2]] = g
      BY <1>8
    <2>3. LayerIsTrue(d, a.fp, b.fp)
      BY <1>9
    <2> HIDE DEF divergent, snaps
    <2>4. /\ st[p] = StoredStatus(a, b, d) /\ ord[p] = ToolOrdering(a, b) /\ rt[p] = b.route
          /\ mv[p] <=> a.fp # b.fp
      OBVIOUS
    <2>5. /\ st2[p] = SnapshotStatus(h, g) /\ ord2[p] = ToolOrdering(h, g) /\ rt2[p] = g.route
      BY <2>2
    <2>6. mv2[p] <=> \E l \in TopologyLayers : st2[p][l] = "changed"
      <3> HIDE DEF st2
      <3> QED
        OBVIOUS
    <2> HIDE DEF a, b, d, st, st2, ord, ord2, rt, rt2, mv, mv2
    <2>7. /\ ToolOrdering(a, b) = ToolOrdering(h, g) /\ b.route = g.route
          /\ \A l \in {"tools", "model", "route"} :
                StoredStatus(a, b, d)[l] = SnapshotStatus(h, g)[l]
          /\ \A l \in SystemLayers \cup HistoryLayers :
                StoredStatus(a, b, d)[l] = "changed" => SnapshotStatus(h, g)[l] = "changed"
          /\ (\E l \in TopologyLayers : SnapshotStatus(h, g)[l] = "changed") => a.fp # b.fp
      BY <2>1, <2>3, PairCompared, Zenon
    <2> HIDE DEF h, g
    <2> QED
      BY <2>4, <2>5, <2>6, <2>7
  <1> DEFINE Same == {"tools", "model", "route"}
             Less == SystemLayers \cup HistoryLayers
  <1>11. Same \subseteq TopologyLayers /\ Less \subseteq TopologyLayers
    <2>1. "tools" \in ToSet(Layers) /\ SystemLayers \cup HistoryLayers \subseteq ToSet(Layers)
      BY LayerNames DEF SystemLayers, HistoryLayers
    <2>2. TopologyLayers = ToSet(Layers) \cup {"route", "model", "key"}
      BY DEF TopologyLayers
    <2> QED
      BY <2>1, <2>2, Zenon
  <1>12. CountsWithin(A, B, Same, Less)
    <2> HIDE DEF st, st2, ord, ord2, rt, rt2, mv, mv2, pairs, Same, Less
    <2>1. PairsWithin(pairs, st, ord, rt, mv, st2, ord2, rt2, mv2, Same, Less)
      BY <1>10 DEF PairsWithin, Same, Less
    <2> QED
      BY <1>6, <1>11, <2>1, ReportsCompared, Zenon
  <1> HIDE DEF A, B, stored, exact
  <1>13. /\ stored.total = exact.total /\ stored.tools = exact.tools
         /\ stored.churned >= exact.churned
         /\ \A l \in Same : stored.pairs[l] = exact.pairs[l] /\ stored.changes[l] = exact.changes[l]
         /\ \A l \in Less : stored.changes[l] <= exact.changes[l]
    <2> HIDE DEF Same, Less
    <2> QED
      BY <1>1, <1>7, <1>12, Zenon DEF CountsWithin
  <1> QED
    BY <1>13, Zenon DEF mine, ours, window, snaps, stored, exact

\* When no system prompt comes as blocks and every body fits the cache, the topology
\* that is rebuilt from the store for the requests of one session (topology.py:359-477)
\* counts its pairs, the changes of tools, model and route and the permutations of
\* the tools exactly as the view from snapshots does, and never more changes of a part
\* of the system prompt or of the conversation, however many rows were lost.
THEOREM StoredClaimsNoMore ==
    ASSUME BodiesRead
    PROVE  Spec => []StoredWithinSnapshots
  <1>1. Init => Traced
    BY TracedInit
  <1>2. Traced /\ [Next]_vars => Traced'
    BY TracedNext
  <1>3. Traced => StoredWithinSnapshots
    BY TracedTopology
  <1> QED
    BY <1>1, <1>2, <1>3, PTL DEF Spec

=============================================================================
