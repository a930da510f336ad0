------------------------ MODULE CacheLearningProofs ------------------------
(***************************************************************************)
(* Proofs about CacheLearning, for every TTL of the provider, latency and  *)
(* set of sessions, contents and routes.  The first part (Sound) is types  *)
(* and the order of times; with it goes what a contradicted profile can    *)
(* never regain and what a miss of the route never refines.  The second    *)
(* part (Truthful) relates rows and profile to the provider's caches, and  *)
(* the third says what of the rows the profile and the curve are.          *)
(***************************************************************************)
EXTENDS CacheLearning, FiniteSetTheorems, WellFoundedInduction, TLAPS

\* A nonempty set of natural numbers has a least element.
LEMMA LeastNatural ==
    ASSUME NEW S \in SUBSET Nat, S # {}
    PROVE  \E x \in S : \A y \in S : x <= y
  <1>1. PICK x \in S : \A y \in S : ~(<<y, x>> \in OpToRel(<, Nat))
    BY WFMin, NatLessThanWellFounded
  <1>2. \A y \in S : ~(y < x)
    BY <1>1, Zenon DEF OpToRel
  <1>3. x \in Nat /\ \A y \in S : y \in Nat
    OBVIOUS
  <1> QED
    BY <1>2, <1>3

\* Max of a nonempty set of integers with an upper bound is its greatest element.
LEMMA MaxFacts ==
    ASSUME NEW n \in Int, NEW S \in SUBSET Int, S # {}, \A x \in S : x <= n
    PROVE  Max(S) \in S /\ \A y \in S : y <= Max(S)
  <1> DEFINE D == {m \in Nat : n - m \in S}
  <1>1. PICK z \in S : TRUE
    OBVIOUS
  <1>2. n - z \in Nat /\ n - (n - z) = z
    OBVIOUS
  <1>3. D \in SUBSET Nat /\ D # {}
    BY <1>2
  <1>4. PICK d \in D : \A e \in D : d <= e
    BY <1>3, LeastNatural
  <1>5. ASSUME NEW y \in S
        PROVE  n - d >= y
    <2>1. y \in Int /\ n - y \in Nat /\ n - (n - y) = y
      OBVIOUS
    <2>2. n - y \in D
      BY <2>1
    <2>3. d <= n - y /\ d \in Nat
      BY <1>4, <2>2
    <2> QED
      BY <2>1, <2>3
  <1>6. n - d \in S
    OBVIOUS
  <1>7. \A y \in S : Max(S) >= y /\ Max(S) \in S
    BY <1>5, <1>6 DEF Max
  <1> QED
    BY <1>6, <1>7

-----------------------------------------------------------------------------
(* Profiles *)

\* A confidence stays within its clamp, and a negative adjustment never raises it.
LEMMA AdjustedFacts ==
    ASSUME NEW P \in Profile, NEW d \in Int
    PROVE  \E c \in 5..95 :
               /\ Adjusted(P, d) = [P EXCEPT !.confidence = c]
               /\ d <= 0 => c <= P.confidence
  <1> DEFINE x == P.confidence + d
             m == Max({5, x})
             c == Min({95, m})
  <1>1. P.confidence \in 5..95 /\ x \in Int
    BY DEF Profile
  <1>2. m \in {5, x} /\ m >= 5 /\ m >= x
    <2>1. \E y \in {5, x} : \A z \in {5, x} : y >= z
      BY <1>1
    <2> QED
      BY <2>1 DEF Max
  <1>3. m \in Int
    BY <1>1, <1>2
  <1> HIDE DEF m
  <1>4. c \in {95, m} /\ c <= 95 /\ c <= m
    <2>1. \E y \in {95, m} : \A z \in {95, m} : y =< z
      BY <1>3
    <2> QED
      BY <2>1 DEF Min
  <1>5. c \in 5..95 /\ (d <= 0 => c <= P.confidence)
    BY <1>1, <1>2, <1>3, <1>4
  <1>6. Adjusted(P, d) = [P EXCEPT !.confidence = c]
    BY DEF Adjusted, m
  <1> QED
    BY <1>5, <1>6

\* The greater and the lesser of two bounds.
Greater(a, b) == IF a >= b THEN a ELSE b
Lesser(a, b) == IF a <= b THEN a ELSE b

\* What an observation does to a profile: a hit raises the lower bound, a miss
\* lowers the upper one, both count as a sample, and nothing else does either.
\* Once the bounds have crossed, no observation raises the confidence.
LEMMA ObserveFacts ==
    ASSUME NEW P \in Profile, NEW outcome \in Outcomes, NEW age \in Nat
    PROVE  LET Q == Observe(P, outcome, age)
           IN  /\ Q \in Profile
               /\ Q.lower = IF outcome = "confirmed_hit" THEN Greater(P.lower, age)
                            ELSE P.lower
               /\ Q.upper = IF outcome # "miss_rebuilt" THEN P.upper
                            ELSE IF P.upper = Unknown THEN age ELSE Lesser(P.upper, age)
               /\ Q.samples = IF outcome \in {"confirmed_hit", "miss_rebuilt"}
                              THEN P.samples + 1 ELSE P.samples
               /\ P.upper # Unknown /\ P.lower > P.upper
                    => Q.confidence <= P.confidence
  <1> DEFINE lower == Max({P.lower, 0, age})
             upper == IF P.upper = Unknown THEN age ELSE Min({P.upper, age})
  <1>0. /\ P.lower \in Nat \cup {-1} /\ P.upper \in Nat \cup {-1} /\ P.samples \in Nat
        /\ P.confidence \in 5..95
    BY DEF Profile, Unknown
  <1>1. lower = Greater(P.lower, age)
    <2>1. \E y \in {P.lower, 0, age} : \A z \in {P.lower, 0, age} : y >= z
      BY <1>0
    <2>2. lower \in {P.lower, 0, age} /\ \A z \in {P.lower, 0, age} : lower >= z
      BY <2>1 DEF Max
    <2> HIDE DEF lower
    <2> QED
      BY <1>0, <2>2 DEF Greater
  <1>2. upper = IF P.upper = Unknown THEN age ELSE Lesser(P.upper, age)
    <2>1. \E y \in {P.upper, age} : \A z \in {P.upper, age} : y =< z
      BY <1>0
    <2>2. Min({P.upper, age}) \in {P.upper, age}
          /\ \A z \in {P.upper, age} : Min({P.upper, age}) =< z
      BY <2>1 DEF Min
    <2>3. Min({P.upper, age}) = Lesser(P.upper, age)
      BY <1>0, <2>2 DEF Lesser
    <2> QED
      BY <2>3
  <1> HIDE DEF lower, upper
  <1>3. CASE outcome = "failed"
    <2>1. Observe(P, outcome, age) = P
      BY <1>3 DEF Observe
    <2> QED
      BY <1>0, <1>3, <2>1
  <1>4. CASE outcome = "success_unverified"
    <2>1. Observe(P, outcome, age) = Adjusted(P, -5)
      BY <1>4 DEF Observe
    <2>2. PICK c \in 5..95 : Adjusted(P, -5) = [P EXCEPT !.confidence = c]
                             /\ c <= P.confidence
      BY AdjustedFacts
    <2>3. LET Q == [P EXCEPT !.confidence = c]
          IN  /\ Q \in Profile /\ Q.lower = P.lower /\ Q.upper = P.upper
              /\ Q.samples = P.samples /\ Q.confidence = c
      BY DEF Profile
    <2> QED
      BY <1>4, <2>1, <2>2, <2>3
  <1>5. CASE outcome = "confirmed_hit"
    <2> DEFINE R == [P EXCEPT !.samples = @ + 1, !.lower = lower]
               d == IF P.upper = Unknown \/ lower <= P.upper THEN 5 ELSE -5
    <2>1. Observe(P, outcome, age) = Adjusted(R, d)
      BY <1>5 DEF Observe, lower
    <2>2. lower \in Nat
      BY <1>0, <1>1 DEF Greater
    <2>3. R \in Profile /\ d \in Int
      <3>1. P.samples + 1 \in Nat /\ d \in Int
        BY <1>0
      <3> HIDE DEF d
      <3> QED
        BY <2>2, <3>1 DEF Profile
    <2>4. PICK c \in 5..95 : /\ Adjusted(R, d) = [R EXCEPT !.confidence = c]
                             /\ d <= 0 => c <= R.confidence
      BY <2>3, AdjustedFacts
    <2>6. P.upper # Unknown /\ P.lower > P.upper => d <= 0
      BY <1>0, <1>1 DEF Greater, Unknown
    <2>7. /\ R.lower = lower /\ R.upper = P.upper /\ R.samples = P.samples + 1
          /\ R.confidence = P.confidence
      BY DEF Profile
    <2>8. LET Q == [R EXCEPT !.confidence = c]
          IN  /\ Q \in Profile /\ Q.lower = R.lower /\ Q.upper = R.upper
              /\ Q.samples = R.samples /\ Q.confidence = c
      BY <2>3 DEF Profile
    <2> HIDE DEF d, R
    <2> QED
      BY <1>1, <1>5, <2>1, <2>4, <2>6, <2>7, <2>8
  <1>6. CASE outcome = "miss_rebuilt"
    <2> DEFINE R == [P EXCEPT !.samples = @ + 1, !.upper = upper]
               d == IF upper >= P.lower THEN 2 ELSE -5
    <2>1. Observe(P, outcome, age) = Adjusted(R, d)
      BY <1>6 DEF Observe, upper
    <2>2. upper \in Nat
      BY <1>0, <1>2 DEF Lesser, Unknown
    <2>3. R \in Profile /\ d \in Int
      <3>1. P.samples + 1 \in Nat /\ d \in Int
        BY <1>0
      <3> HIDE DEF d
      <3> QED
        BY <2>2, <3>1 DEF Profile
    <2>4. PICK c \in 5..95 : /\ Adjusted(R, d) = [R EXCEPT !.confidence = c]
                             /\ d <= 0 => c <= R.confidence
      BY <2>3, AdjustedFacts
    <2>6. P.upper # Unknown /\ P.lower > P.upper => d <= 0
      BY <1>0, <1>2 DEF Lesser, Unknown
    <2>7. /\ R.lower = P.lower /\ R.upper = upper /\ R.samples = P.samples + 1
          /\ R.confidence = P.confidence
      BY DEF Profile
    <2>8. LET Q == [R EXCEPT !.confidence = c]
          IN  /\ Q \in Profile /\ Q.lower = R.lower /\ Q.upper = R.upper
              /\ Q.samples = R.samples /\ Q.confidence = c
      BY <2>3 DEF Profile
    <2> HIDE DEF d, R
    <2> QED
      BY <1>2, <1>6, <2>1, <2>4, <2>6, <2>7, <2>8
  <1> QED
    BY <1>3, <1>4, <1>5, <1>6 DEF Outcomes

-----------------------------------------------------------------------------
(* The inductive invariant *)

Flights == [content: Contents, route: Routes, served: BOOLEAN, hit: BOOLEAN,
            at: 0..MaxTime]
RowRecords == [fp: Fingerprints, at: 0..MaxTime, age: 0..MaxTime \cup {Unknown},
               outcome: Outcomes, clean: BOOLEAN, learned: BOOLEAN]
EventRecords == [fp: Fingerprints, outcome: Outcomes]

\* The types that TypeOK leaves open.
Typed ==
    /\ TypeOK
    /\ flight \in [Sessions -> Flights \cup {NoFlight}]
    /\ last \in [Sessions -> EventRecords \cup {NoEvent}]
    /\ rows \in Seq(RowRecords)

\* Rows are inserted in the order of their times; nothing lies in the future, and
\* no request is in flight for longer than Latency.
Clocked ==
    /\ \A i \in DOMAIN rows : rows[i].at <= now
    /\ \A i, j \in DOMAIN rows : i < j => rows[i].at < rows[j].at
    /\ \A f \in Fingerprints : touched[f] <= now
    /\ \A s \in Sessions : ~Idle(s) => flight[s].at <= now /\ now <= flight[s].at + Latency

\* A content is in flight once.
Apart ==
    \A s, q \in Sessions :
        ~Idle(s) /\ flight[s].content = flight[q].content => s = q

\* On a route without unseen uses, the provider used a cache no later than the
\* cache's latest row, unless the request that did is still in flight.
TouchIsSeen ==
    \A f \in Fingerprints :
        f.route \notin unseen /\ touched[f] # Unknown =>
            \/ \E s \in Sessions : ~Idle(s) /\ flight[s].served /\ Observed(s) = f
            \/ \E i \in DOMAIN rows : rows[i].fp = f /\ rows[i].at >= touched[f]

\* A hit that is under way there was served less than a TTL after some row.
HitIsYoung ==
    \A s \in Sessions :
        ~Idle(s) /\ flight[s].hit /\ flight[s].route \notin unseen =>
            \E i \in DOMAIN rows :
                /\ rows[i].fp = Observed(s)
                /\ flight[s].at < rows[i].at + TrueTTL[flight[s].route]

\* The request behind a row that is no failure had used the cache, at most Latency
\* before the row; so has a served request in flight.
RowIsTouch ==
    /\ \A s \in Sessions : ~Idle(s) /\ flight[s].served
                             => touched[Observed(s)] >= flight[s].at
    /\ \A i \in DOMAIN rows : rows[i].outcome # "failed"
                             => touched[rows[i].fp] + Latency >= rows[i].at
                                /\ touched[rows[i].fp] # Unknown

\* A miss that is under way came at least a TTL, less the latency, after every row
\* of its cache that is no failure.
MissIsOld ==
    \A s \in Sessions :
        ~Idle(s) /\ ~flight[s].hit =>
            \A i \in DOMAIN rows :
                rows[i].fp = Observed(s) /\ rows[i].outcome # "failed" =>
                    flight[s].at + Latency >= rows[i].at + TrueTTL[flight[s].route]

Truthful ==
    /\ Typed /\ Clocked /\ Apart
    /\ TouchIsSeen /\ HitIsYoung /\ RowIsTouch /\ MissIsOld
    /\ BoundsSound

-----------------------------------------------------------------------------
(* What a recording does to the tables *)

\* The types of the tables and of the clock.
LEMMA TableFacts ==
    ASSUME Typed
    PROVE  /\ Len(rows) \in Nat /\ DOMAIN rows = 1..Len(rows) /\ now \in Nat
           /\ \A i \in DOMAIN rows :
                 /\ rows[i] \in RowRecords /\ rows[i].at \in Nat
                 /\ rows[i].fp \in Fingerprints /\ rows[i].outcome \in Outcomes
  <1>1. rows \in Seq(RowRecords) /\ now \in Nat
    BY LearningAssumption DEF Typed, TypeOK
  <1>2. \A i \in DOMAIN rows : rows[i] \in RowRecords
    BY <1>1
  <1>3. \A r \in RowRecords : r.at \in Nat /\ r.fp \in Fingerprints /\ r.outcome \in Outcomes
    BY LearningAssumption DEF RowRecords
  <1> QED
    BY <1>1, <1>2, <1>3

\* LastRow finds the latest row of a fingerprint, if there is one.
LEMMA LastRowFacts ==
    ASSUME Typed, Clocked, NEW f \in Fingerprints
    PROVE  /\ LastRow(f) \in Nat
           /\ LastRow(f) = 0 => \A j \in DOMAIN rows : rows[j].fp # f
           /\ LastRow(f) # 0 =>
                /\ LastRow(f) \in DOMAIN rows /\ rows[LastRow(f)].fp = f
                /\ \A j \in DOMAIN rows : rows[j].fp = f => rows[j].at <= rows[LastRow(f)].at
  <1> DEFINE S == {0} \cup {i \in DOMAIN rows : rows[i].fp = f}
             m == Max(S)
  <1>0. Len(rows) \in Nat /\ DOMAIN rows = 1..Len(rows)
    BY TableFacts
  <1>1. S \in SUBSET Int /\ S # {} /\ \A x \in S : x <= Len(rows)
    BY <1>0
  <1>2. m \in S /\ \A y \in S : y <= m
    <2> HIDE DEF S
    <2>1. Len(rows) \in Int
      BY <1>0
    <2> QED
      BY <1>1, <2>1, MaxFacts, Zenon
  <1>3. LastRow(f) = m
    BY DEF LastRow
  <1> HIDE DEF m
  <1>4. m \in Nat /\ (m # 0 => m \in DOMAIN rows /\ rows[m].fp = f)
    BY <1>0, <1>2
  <1>5. ASSUME NEW j \in DOMAIN rows, rows[j].fp = f
        PROVE  m # 0 /\ rows[j].at <= rows[m].at
    <2>1. j \in S /\ j \in 1..Len(rows)
      BY <1>0, <1>5
    <2>2. j <= m /\ m # 0
      BY <1>0, <1>2, <1>4, <2>1
    <2>3. rows[j].at \in Int /\ rows[m].at \in Int
      BY <1>4, <2>2, TableFacts
    <2>4. j < m \/ j = m
      BY <1>4, <2>1, <2>2
    <2>5. j < m => rows[j].at < rows[m].at
      BY <1>4, <2>2 DEF Clocked
    <2> QED
      BY <2>2, <2>3, <2>4, <2>5
  <1> QED
    BY <1>3, <1>4, <1>5

\* The row a recording inserts.
NewRow(f, age, outcome, clean, learned) ==
    [fp |-> f, at |-> now, age |-> age, outcome |-> outcome, clean |-> clean,
     learned |-> learned]

\* Everything a recording that gets as far as the row says of the tables: one row is
\* added at the end; if it is clean its age is the time since the latest row of the
\* fingerprint; if it is learned it is clean and the profile of the route observes
\* it, and otherwise no profile changes.
LEMMA LearnFacts ==
    ASSUME Typed, Clocked, NEW f \in Fingerprints, NEW outcome \in Outcomes,
           NEW churnAt, NEW writes \in 3..4, Learn(f, outcome, churnAt, writes)
    PROVE  \E age \in Nat \cup {Unknown}, clean \in BOOLEAN, learned \in BOOLEAN :
               /\ rows' = Append(rows, NewRow(f, age, outcome, clean, learned))
               /\ age <= MaxTime /\ (learned => clean)
               /\ clean =>
                    /\ age \in Nat
                    /\ \E i \in DOMAIN rows :
                          /\ rows[i].fp = f /\ age = now - rows[i].at
                          /\ ~ChurnBetween(churnAt, f, rows[i].at, now)
                          /\ \A j \in DOMAIN rows :
                                rows[j].fp = f => rows[j].at <= rows[i].at
               /\ profile' = IF learned
                             THEN [profile EXCEPT ![f.route] = Observe(@, outcome, age)]
                             ELSE profile
  <1> DEFINE i == LastRow(f)
             age == IF i = 0 THEN Unknown ELSE now - rows[i].at
             clean == i # 0 /\ ~ChurnBetween(churnAt, f, rows[i].at, now)
             learned == clean /\ writes = 4
  <1>0. now \in Nat /\ now <= MaxTime /\ MaxTime \in Nat
    BY TableFacts, LearningAssumption DEF Typed, TypeOK
  <1>1. i # 0 => /\ i \in DOMAIN rows /\ rows[i].fp = f
                 /\ \A j \in DOMAIN rows : rows[j].fp = f => rows[j].at <= rows[i].at
    BY LastRowFacts
  <1>2. i # 0 => rows[i].at \in Nat /\ rows[i].at <= now
    BY <1>1, TableFacts DEF Clocked
  <1>3. /\ age \in Nat \cup {Unknown} /\ age <= MaxTime
        /\ i # 0 => age \in Nat /\ age = now - rows[i].at
    BY <1>0, <1>2 DEF Unknown
  <1>4. /\ rows' = Append(rows, NewRow(f, age, outcome, clean, learned))
        /\ profile' = IF learned
                      THEN [profile EXCEPT ![f.route] = Observe(@, outcome, age)]
                      ELSE profile
    <2>1. ~(writes < 3)
      OBVIOUS
    <2> QED
      BY <2>1 DEF Learn, NewRow
  <1>5. /\ clean \in BOOLEAN /\ (clean => i # 0 /\ ~ChurnBetween(churnAt, f, rows[i].at, now))
        /\ learned \in BOOLEAN /\ (learned => clean)
    OBVIOUS
  <1> HIDE DEF i, age, clean, learned
  <1>6. clean =>
           /\ age \in Nat
           /\ \E k \in DOMAIN rows :
                 /\ rows[k].fp = f /\ age = now - rows[k].at
                 /\ ~ChurnBetween(churnAt, f, rows[k].at, now)
                 /\ \A j \in DOMAIN rows : rows[j].fp = f => rows[j].at <= rows[k].at
    BY <1>1, <1>3, <1>5
  <1> QED
    BY <1>3, <1>4, <1>5, <1>6

\* A row added at the end leaves the others where they are.
LEMMA RowsGrow ==
    ASSUME Typed, NEW row \in RowRecords, rows' = Append(rows, row)
    PROVE  /\ rows' \in Seq(RowRecords)
           /\ Len(rows) + 1 \in DOMAIN rows' /\ rows'[Len(rows) + 1] = row
           /\ \A i \in DOMAIN rows : i \in DOMAIN rows' /\ rows'[i] = rows[i] /\ i < Len(rows) + 1
           /\ \A i \in DOMAIN rows' : i \in DOMAIN rows \/ i = Len(rows) + 1
  BY DEF Typed

\* A request in flight is one of Flights, and its fingerprint is one of a route.
LEMMA FlightFacts ==
    ASSUME Typed, NEW s \in Sessions, ~Idle(s)
    PROVE  /\ flight[s] \in Flights /\ flight[s].at \in Nat
           /\ flight[s].content \in Contents /\ flight[s].route \in Routes
           /\ Observed(s) \in Fingerprints
           /\ Fp(flight[s].content, BaseRoute) \in Fingerprints
           /\ Observed(s).route = flight[s].route
           /\ Observed(s).content = flight[s].content
  <1>1. flight[s] \in Flights
    BY DEF Typed, Idle
  <1>2. /\ flight[s].at \in Nat /\ flight[s].content \in Contents
        /\ flight[s].route \in Routes
    BY <1>1, LearningAssumption DEF Flights
  <1> QED
    BY <1>1, <1>2 DEF Observed, Fp, Fingerprints, AllRoutes

\* The types and the clock are kept, for every client.
Sound == Typed /\ Clocked

\* A request that is sent keeps the types and the order of times.
LEMMA SendSound ==
    ASSUME Sound, NEW s \in Sessions, NEW k \in Contents, NEW r \in Routes,
           NEW served \in BOOLEAN, Send(s, k, r, served)
    PROVE  Sound'
  <1> DEFINE new == [content |-> k, route |-> r, served |-> served,
                     hit |-> Alive(Fp(k, r)), at |-> now]
  <1>0. /\ now' = now /\ rows' = rows /\ churned' = churned /\ profile' = profile
        /\ last' = last /\ unseen' = unseen /\ sent' = sent + 1 /\ sent < MaxRequests
        /\ flight' = [flight EXCEPT ![s] = new]
        /\ touched' = IF served THEN [touched EXCEPT ![Fp(k, r)] = now] ELSE touched
    BY DEF Send
  <1>1. Typed /\ Clocked /\ TypeOK /\ now \in 0..MaxTime /\ now \in Nat
    BY LearningAssumption DEF Sound, Typed, TypeOK
  <1>2. Fp(k, r) \in Fingerprints
    BY DEF Fp, Fingerprints, AllRoutes
  <1>3. Alive(Fp(k, r)) \in BOOLEAN
    BY DEF Alive
  <1>4. new \in Flights
    BY <1>1, <1>3 DEF Flights
  <1> HIDE DEF new
  <1>5. touched' \in [Fingerprints -> 0..MaxTime \cup {Unknown}]
    BY <1>0, <1>1, <1>2 DEF TypeOK
  <1>6. TypeOK'
    BY <1>0, <1>1, <1>5, LearningAssumption DEF TypeOK
  <1>7. Typed'
    BY <1>0, <1>1, <1>4, <1>6 DEF Typed
  <1>8. \A f \in Fingerprints : touched'[f] <= now
    BY <1>0, <1>1, <1>2 DEF Clocked, TypeOK
  <1>9. ASSUME NEW q \in Sessions, ~Idle(q)'
        PROVE  flight'[q].at <= now /\ now <= flight'[q].at + Latency
    <2>1. q = s => flight'[q] = new
      BY <1>0, <1>1 DEF Typed
    <2>2. new.at = now
      BY DEF new
    <2>3. q # s => flight'[q] = flight[q]
      BY <1>0, <1>1 DEF Typed
    <2>4. q # s => ~Idle(q)
      BY <1>9, <2>3 DEF Idle
    <2> QED
      BY <1>1, <2>1, <2>2, <2>3, <2>4, LearningAssumption DEF Clocked
  <1>10. Clocked'
    BY <1>0, <1>1, <1>8, <1>9 DEF Clocked
  <1> QED
    BY <1>7, <1>10 DEF Sound

\* The clock keeps the types and the order of times.
LEMMA AdvanceSound ==
    ASSUME Sound, Advance
    PROVE  Sound'
  <1>0. /\ touched' = touched /\ flight' = flight /\ sent' = sent /\ last' = last
        /\ rows' = rows /\ churned' = churned /\ profile' = profile /\ unseen' = unseen
        /\ now' = now + 1 /\ now < MaxTime
        /\ \A s \in Sessions : Idle(s) \/ now - flight[s].at < Latency
    BY DEF Advance
  <1>1. Typed /\ Clocked /\ now \in 0..MaxTime /\ now \in Nat
    BY LearningAssumption DEF Sound, Typed, TypeOK
  <1>2. now' \in 0..MaxTime /\ now' = now + 1
    BY <1>0, <1>1, LearningAssumption
  <1>3. Typed'
    BY <1>0, <1>1, <1>2 DEF Typed, TypeOK
  <1>4. \A i \in DOMAIN rows : rows[i].at <= now'
    BY <1>1, <1>2, TableFacts DEF Clocked
  <1>5. ASSUME NEW f \in Fingerprints
        PROVE  touched[f] <= now'
    <2>1. touched[f] \in Int /\ touched[f] <= now
      BY <1>1, LearningAssumption DEF Clocked, Typed, TypeOK, Unknown
    <2> QED
      BY <1>1, <1>2, <2>1
  <1>6. ASSUME NEW s \in Sessions, ~Idle(s)
        PROVE  flight[s].at <= now' /\ now' <= flight[s].at + Latency
    <2>1. flight[s].at \in Nat
      BY <1>1, <1>6, FlightFacts
    <2>2. flight[s].at <= now /\ now - flight[s].at < Latency
      BY <1>0, <1>1, <1>6 DEF Clocked
    <2> QED
      BY <1>1, <1>2, <2>1, <2>2, LearningAssumption
  <1>7. Clocked'
    BY <1>0, <1>1, <1>4, <1>5, <1>6 DEF Clocked, Idle
  <1> QED
    BY <1>3, <1>7 DEF Sound

\* A recorded response or failure keeps the types and the order of times.
LEMMA RecordSound ==
    ASSUME Sound, NEW s \in Sessions, NEW f \in Fingerprints, NEW outcome \in Outcomes,
           NEW writes \in 3..4, Record(s, f, outcome, writes)
    PROVE  Sound'
  <1>0. /\ now' = now /\ touched' = touched /\ sent' = sent
        /\ flight' = [flight EXCEPT ![s] = NoFlight]
        /\ last' = [last EXCEPT ![s] = [fp |-> f, outcome |-> outcome]]
        /\ churned' = ChurnAfter(s, f)
        /\ Learn(f, outcome, churned', writes)
        /\ \A i \in DOMAIN rows : rows[i].at < now
        /\ ~Idle(s) /\ unseen' \subseteq unseen \cup {flight[s].route}
    <2>1. ~(writes < 2)
      OBVIOUS
    <2> QED
      BY <2>1 DEF Record, Unseen
  <1>1. Typed /\ Clocked /\ TypeOK /\ now \in 0..MaxTime /\ now \in Nat
    BY LearningAssumption DEF Sound, Typed, TypeOK
  <1>2. PICK age \in Nat \cup {Unknown}, clean \in BOOLEAN, learned \in BOOLEAN :
           /\ rows' = Append(rows, NewRow(f, age, outcome, clean, learned))
           /\ age <= MaxTime /\ (learned => clean) /\ (clean => age \in Nat)
           /\ profile' = IF learned
                         THEN [profile EXCEPT ![f.route] = Observe(@, outcome, age)]
                         ELSE profile
    BY <1>0, <1>1, LearnFacts
  <1> DEFINE row == NewRow(f, age, outcome, clean, learned)
  <1>3. row \in RowRecords /\ row.at = now /\ row.fp = f /\ row.outcome = outcome
    <2>1. age \in 0..MaxTime \cup {Unknown}
      BY <1>2, LearningAssumption DEF Unknown
    <2> QED
      BY <1>1, <2>1 DEF NewRow, RowRecords
  <1> HIDE DEF row
  <1>4. /\ rows' \in Seq(RowRecords)
        /\ Len(rows) + 1 \in DOMAIN rows' /\ rows'[Len(rows) + 1] = row
        /\ \A i \in DOMAIN rows : i \in DOMAIN rows' /\ rows'[i] = rows[i] /\ i < Len(rows) + 1
        /\ \A i \in DOMAIN rows' : i \in DOMAIN rows \/ i = Len(rows) + 1
    BY <1>1, <1>2, <1>3, RowsGrow DEF row
  <1>5. profile' \in [AllRoutes -> Profile]
    <2>1. f.route \in AllRoutes /\ profile \in [AllRoutes -> Profile]
      BY <1>1 DEF Fingerprints, TypeOK
    <2>2. learned => Observe(profile[f.route], outcome, age) \in Profile
      BY <1>2, <2>1, ObserveFacts
    <2> QED
      BY <1>2, <2>1, <2>2
  <1>6. churned' \in [Fingerprints -> 0..MaxTime \cup {Unknown}]
    BY <1>0, <1>1 DEF ChurnAfter, TypeOK
  <1>7. /\ flight' \in [Sessions -> Flights \cup {NoFlight}]
        /\ last' \in [Sessions -> EventRecords \cup {NoEvent}]
    BY <1>0, <1>1 DEF Typed, EventRecords
  <1>8. \A q \in Sessions : last'[q] = NoEvent \/ last'[q].fp \in Fingerprints
    BY <1>7 DEF EventRecords
  <1>9. \A i \in DOMAIN rows' : rows'[i].fp \in Fingerprints /\ rows'[i].outcome \in Outcomes
    BY <1>3, <1>4, <1>1, TableFacts
  <1>16. unseen' \subseteq Routes
    <2>1. flight[s].route \in Routes
      BY <1>0, <1>1, FlightFacts
    <2> QED
      BY <1>0, <1>1, <2>1 DEF TypeOK
  <1>10. TypeOK'
    BY <1>0, <1>1, <1>5, <1>6, <1>8, <1>9, <1>16 DEF TypeOK
  <1>11. Typed'
    BY <1>4, <1>7, <1>10 DEF Typed
  <1>12. /\ \A i \in DOMAIN rows' : rows'[i].at <= now
         /\ \A i, j \in DOMAIN rows' : i < j => rows'[i].at < rows'[j].at
    <2>1. \A i \in DOMAIN rows : rows[i].at \in Nat /\ i \in Nat /\ Len(rows) \in Nat
      BY <1>1, TableFacts
    <2>2. ASSUME NEW i \in DOMAIN rows'
          PROVE  rows'[i].at <= now
      BY <1>0, <1>1, <1>3, <1>4, <2>1
    <2>3. ASSUME NEW i \in DOMAIN rows', NEW j \in DOMAIN rows', i < j
          PROVE  rows'[i].at < rows'[j].at
      <3>1. CASE j \in DOMAIN rows
        <4>1. i \in DOMAIN rows
          BY <1>4, <2>1, <2>3, <3>1
        <4> QED
          BY <1>1, <1>4, <2>3, <3>1, <4>1 DEF Clocked
      <3>2. CASE j = Len(rows) + 1
        <4>1. i \in DOMAIN rows
          BY <1>4, <2>3, <3>2
        <4> QED
          BY <1>0, <1>3, <1>4, <3>2, <4>1
      <3> QED
        BY <1>4, <3>1, <3>2
    <2> QED
      BY <2>2, <2>3
  <1>13. \A q \in Sessions : ~Idle(q)' => ~Idle(q) /\ flight'[q] = flight[q]
    BY <1>0, <1>1 DEF Typed, Idle
  <1>14. Clocked'
    BY <1>0, <1>1, <1>12, <1>13 DEF Clocked
  <1> QED
    BY <1>11, <1>14 DEF Sound

\* A request whose recording leaves no row, if it leaves anything at all.
Dropped(s) ==
    /\ ~Idle(s)
    /\ flight' = [flight EXCEPT ![s] = NoFlight]
    /\ unseen' = Unseen(s, FALSE)
    /\ UNCHANGED <<now, touched, sent, rows, profile>>
    /\ \/ UNCHANGED <<last, churned>>
       \/ \E f \in Fingerprints, outcome \in Outcomes :
             /\ last' = [last EXCEPT ![s] = [fp |-> f, outcome |-> outcome]]
             /\ churned' \in {churned, ChurnAfter(s, f)}

\* A request without a row keeps the types and the order of times.
LEMMA DroppedSound ==
    ASSUME Sound, NEW s \in Sessions, Dropped(s)
    PROVE  Sound'
  <1>0. /\ now' = now /\ touched' = touched /\ sent' = sent /\ rows' = rows
        /\ profile' = profile /\ ~Idle(s)
        /\ flight' = [flight EXCEPT ![s] = NoFlight]
    BY DEF Dropped
  <1>1. Typed /\ Clocked /\ TypeOK
    BY DEF Sound, Typed
  <1>2. unseen' \subseteq Routes
    <2>1. flight[s].route \in Routes
      BY <1>0, <1>1, FlightFacts
    <2> QED
      BY <1>1, <2>1 DEF Dropped, Unseen, TypeOK
  <1>3. churned' \in [Fingerprints -> 0..MaxTime \cup {Unknown}]
    <2>1. \A f \in Fingerprints : ChurnAfter(s, f) \in [Fingerprints -> 0..MaxTime \cup {Unknown}]
      BY <1>1 DEF ChurnAfter, TypeOK
    <2> QED
      BY <1>1, <2>1 DEF Dropped, TypeOK
  <1>4. /\ flight' \in [Sessions -> Flights \cup {NoFlight}]
        /\ last' \in [Sessions -> EventRecords \cup {NoEvent}]
    <2>1. \A f \in Fingerprints, outcome \in Outcomes :
             [fp |-> f, outcome |-> outcome] \in EventRecords
      BY DEF EventRecords
    <2> QED
      BY <1>0, <1>1, <2>1 DEF Typed, Dropped
  <1>5. \A q \in Sessions : last'[q] = NoEvent \/ last'[q].fp \in Fingerprints
    BY <1>4 DEF EventRecords
  <1>6. TypeOK'
    BY <1>0, <1>1, <1>2, <1>3, <1>5 DEF TypeOK
  <1>7. Typed'
    BY <1>0, <1>1, <1>4, <1>6 DEF Typed
  <1>8. \A q \in Sessions : ~Idle(q)' => ~Idle(q) /\ flight'[q] = flight[q]
    BY <1>0, <1>1 DEF Typed, Idle
  <1>9. Clocked'
    BY <1>0, <1>1, <1>8 DEF Clocked
  <1> QED
    BY <1>7, <1>9 DEF Sound

-----------------------------------------------------------------------------
(* The steps *)

\* What is recorded of the request of s: its fingerprint with the outcome the
\* provider gave it, as far as it was seen, or a failure on the gateway's route.
Faithful(s, f, outcome) ==
    \/ /\ f = Observed(s)
       /\ outcome # "failed" => flight[s].served
       /\ outcome = "confirmed_hit" => flight[s].hit
       /\ outcome = "miss_rebuilt" => ~flight[s].hit
    \/ f = Fp(flight[s].content, BaseRoute) /\ outcome = "failed"

RecordStep ==
    \E s \in Sessions, f \in Fingerprints, outcome \in Outcomes, writes \in 3..4 :
        Record(s, f, outcome, writes) /\ Faithful(s, f, outcome)

DropStep == \E s \in Sessions : Dropped(s)

\* A step sends a request, records one, drops one, lets time pass or changes nothing.
LEMMA StepCases ==
    ASSUME Sound, [Next]_vars
    PROVE  \/ \E s \in Sessions, k \in Contents, r \in Routes, served \in BOOLEAN :
                 Send(s, k, r, served)
           \/ RecordStep
           \/ DropStep
           \/ Advance
           \/ UNCHANGED vars
  <1>0. Typed
    BY DEF Sound
  <1>1. ASSUME NEW s \in Sessions, NEW f \in Fingerprints, NEW outcome \in Outcomes,
               NEW writes \in Writes, Record(s, f, outcome, writes), Faithful(s, f, outcome)
        PROVE  RecordStep \/ DropStep
    <2>1. CASE writes \in 3..4
      BY <1>1, <2>1 DEF RecordStep
    <2>2. CASE writes \notin 3..4
      <3>1. writes < 3 /\ writes # 4 /\ ~(writes >= 3)
        BY <2>2 DEF Writes
      <3>2. rows' = rows /\ profile' = profile
        BY <1>1, <3>1 DEF Record, Learn
      <3>3. /\ ~Idle(s) /\ flight' = [flight EXCEPT ![s] = NoFlight]
            /\ last' = [last EXCEPT ![s] = [fp |-> f, outcome |-> outcome]]
            /\ churned' \in {churned, ChurnAfter(s, f)}
            /\ UNCHANGED <<now, touched, sent>>
        BY <1>1 DEF Record
      <3>4. unseen' = Unseen(s, FALSE)
        BY <1>1, <3>1 DEF Record, Unseen
      <3>5. Dropped(s)
        BY <3>2, <3>3, <3>4 DEF Dropped
      <3> QED
        BY <3>5 DEF DropStep
    <2> QED
      BY <2>1, <2>2
  <1>2. ASSUME NEW s \in Sessions, NEW telemetry \in BOOLEAN, NEW hit \in BOOLEAN,
               NEW writes \in Writes, telemetry => hit = flight[s].hit,
               Record(s, Observed(s), ClassifyOutcome(flight[s].served, telemetry, hit),
                      writes)
        PROVE  RecordStep \/ DropStep
    <2> DEFINE o == ClassifyOutcome(flight[s].served, telemetry, hit)
    <2>1. ~Idle(s)
      BY <1>2 DEF Record
    <2>2. Observed(s) \in Fingerprints
      BY <1>0, <2>1, FlightFacts
    <2>3. o \in Outcomes
      BY DEF ClassifyOutcome, Outcomes
    <2>4. Faithful(s, Observed(s), o)
      BY <1>2 DEF Faithful, ClassifyOutcome
    <2> HIDE DEF o
    <2>5. Record(s, Observed(s), o, writes)
      BY <1>2 DEF o
    <2> QED
      BY <1>1, <2>2, <2>3, <2>4, <2>5
  <1>3. ASSUME NEW s \in Sessions, NEW telemetry \in BOOLEAN, NEW writes \in Writes,
               ObserveBounded(s, telemetry, writes)
        PROVE  RecordStep \/ DropStep
    <2>1. ~Idle(s)
      BY <1>3 DEF ObserveBounded, Record
    <2>2. flight[s].hit \in BOOLEAN
      BY <1>0, <2>1, FlightFacts DEF Flights
    <2>3. Record(s, Observed(s),
                 ClassifyOutcome(flight[s].served, telemetry, flight[s].hit), writes)
      BY <1>3 DEF ObserveBounded
    <2> QED
      BY <1>2, <2>2, <2>3
  <1>4. ASSUME NEW s \in Sessions, NEW writes \in Writes, ObserveStreaming(s, writes)
        PROVE  RecordStep \/ DropStep
    <2>1. Record(s, Observed(s), ClassifyOutcome(flight[s].served, FALSE, FALSE), writes)
      BY <1>4 DEF ObserveStreaming
    <2> QED
      BY <1>2, <2>1
  <1>5. ASSUME NEW s \in Sessions, NEW writes \in Writes, ObserveFailure(s, writes)
        PROVE  RecordStep \/ DropStep
    <2>1. ~Idle(s) /\ Record(s, Fp(flight[s].content, BaseRoute), "failed", writes)
      BY <1>5 DEF ObserveFailure, Record
    <2>2. Fp(flight[s].content, BaseRoute) \in Fingerprints /\ "failed" \in Outcomes
      BY <1>0, <2>1, FlightFacts DEF Outcomes
    <2>3. Faithful(s, Fp(flight[s].content, BaseRoute), "failed")
      BY DEF Faithful
    <2> QED
      BY <1>1, <2>1, <2>2, <2>3
  <1>6. ASSUME NEW s \in Sessions, NotRecorded(s)
        PROVE  DropStep
    <2>1. Dropped(s)
      BY <1>6 DEF NotRecorded, Dropped
    <2> QED
      BY <2>1 DEF DropStep
  <1>7. Ended => UNCHANGED vars
    BY DEF Ended
  <1> QED
    BY <1>3, <1>4, <1>5, <1>6, <1>7 DEF Next

\* The types and the order of times hold at the start.
LEMMA SoundInit == Init => Sound
  <1> SUFFICES ASSUME Init PROVE Sound
    OBVIOUS
  <1>1. rows = <<>> /\ DOMAIN rows = {}
    BY DEF Init
  <1>2. NewProfile \in Profile
    BY DEF NewProfile, Profile, Unknown
  <1>3. TypeOK
    BY <1>1, <1>2, LearningAssumption DEF Init, TypeOK
  <1>4. rows \in Seq(RowRecords)
    BY <1>1
  <1>5. Typed
    BY <1>3, <1>4 DEF Init, Typed
  <1>6. Clocked
    BY <1>1 DEF Init, Clocked, Idle, Unknown
  <1> QED
    BY <1>5, <1>6 DEF Sound

\* Every step keeps the types and the order of times.
LEMMA SoundNext ==
    ASSUME Sound, [Next]_vars
    PROVE  Sound'
  <1>1. CASE \E s \in Sessions, k \in Contents, r \in Routes, served \in BOOLEAN :
                Send(s, k, r, served)
    BY <1>1, SendSound
  <1>2. CASE RecordStep
    BY <1>2, RecordSound DEF RecordStep
  <1>5. CASE DropStep
    BY <1>5, DroppedSound DEF DropStep
  <1>3. CASE Advance
    BY <1>3, AdvanceSound
  <1>4. CASE UNCHANGED vars
    BY <1>4 DEF Sound, Typed, TypeOK, Clocked, Idle, vars
  <1> QED
    BY <1>1, <1>2, <1>3, <1>4, <1>5, StepCases

\* The types are kept and the clock and the tables stay in step, whatever the
\* clients do.
LEMMA SoundInvariant == Spec => []Sound
  <1>1. Init => Sound
    BY SoundInit
  <1>2. Sound /\ [Next]_vars => Sound'
    BY SoundNext
  <1> QED
    BY <1>1, <1>2, PTL DEF Spec

\* Every variable of the observer and the learner keeps its type, and a confidence
\* its clamp (TTLProfile._adjust_confidence), for any number of sessions, routes
\* and contents and whether requests overlap or not.
THEOREM TypeCorrect == Spec => []TypeOK
  <1>1. Sound => TypeOK
    BY DEF Sound, Typed
  <1> QED
    BY <1>1, SoundInvariant, PTL

\* A recording refines at most the profile of the recorded route, by Observe.
LEMMA RecordProfile ==
    ASSUME Sound, NEW s \in Sessions, NEW f \in Fingerprints, NEW outcome \in Outcomes,
           NEW writes \in 3..4, Record(s, f, outcome, writes), NEW r \in AllRoutes
    PROVE  \/ profile'[r] = profile[r]
           \/ r = f.route /\ \E age \in Nat : profile'[r] = Observe(profile[r], outcome, age)
  <1>1. Typed /\ Clocked /\ profile \in [AllRoutes -> Profile]
    BY DEF Sound, Typed, TypeOK
  <1>2. PICK age \in Nat \cup {Unknown}, clean \in BOOLEAN, learned \in BOOLEAN :
           /\ learned => age \in Nat
           /\ profile' = IF learned
                         THEN [profile EXCEPT ![f.route] = Observe(@, outcome, age)]
                         ELSE profile
    BY <1>1, LearnFacts DEF Record
  <1> QED
    BY <1>1, <1>2

\* Once a route's evidence has contradicted itself, no observation of any session
\* raises the confidence in the route again (TTLProfile.observe).
THEOREM TrustOnlyFalls == Spec => CrossedNeverRegainsTrust
  <1> DEFINE Falls == \A r \in Routes :
                profile[r].upper # Unknown /\ profile[r].lower > profile[r].upper
                    => profile'[r].confidence <= profile[r].confidence
  <1>1. ASSUME Sound, [Next]_vars
        PROVE  [Falls]_vars
    <2>0. /\ \A r \in Routes : r \in AllRoutes
          /\ profile \in [AllRoutes -> Profile]
          /\ \A r \in Routes : profile[r].confidence <= profile[r].confidence
      <3>1. profile \in [AllRoutes -> Profile] /\ \A r \in Routes : r \in AllRoutes
        BY <1>1 DEF Sound, Typed, TypeOK, AllRoutes
      <3>2. \A P \in Profile : P.confidence \in Int
        BY DEF Profile
      <3> QED
        BY <3>1, <3>2
    <2>1. CASE profile' = profile
      BY <2>0, <2>1
    <2>2. CASE RecordStep
      <3>1. PICK s \in Sessions, f \in Fingerprints, outcome \in Outcomes, writes \in 3..4 :
               Record(s, f, outcome, writes)
        BY <2>2 DEF RecordStep
      <3>2. ASSUME NEW r \in Routes, profile[r].upper # Unknown,
                   profile[r].lower > profile[r].upper
            PROVE  profile'[r].confidence <= profile[r].confidence
        <4>1. CASE profile'[r] = profile[r]
          BY <2>0, <4>1
        <4>2. CASE \E age \in Nat : profile'[r] = Observe(profile[r], outcome, age)
          BY <2>0, <3>2, <4>2, ObserveFacts
        <4> QED
          BY <1>1, <2>0, <3>1, <4>1, <4>2, RecordProfile
      <3> QED
        BY <3>2
    <2>3. profile' = profile \/ RecordStep
      BY <1>1, StepCases DEF Send, Advance, DropStep, Dropped, vars
    <2> QED
      BY <2>1, <2>2, <2>3
  <1>2. Sound /\ [Next]_vars => [Falls]_vars
    BY <1>1
  <1> QED
    BY <1>2, SoundInvariant, PTL DEF Spec, CrossedNeverRegainsTrust

\* With churn detection on, the request whose miss is blamed on a route change
\* refines no profile: the session's own churn row lies between its two
\* observations, so the pair is never clean (_record_churn before learn).
THEOREM InstabilityIsNoEvidence ==
    ASSUME ChurnDetection = TRUE
    PROVE  Spec => InstabilityRefinesNothing
  <1> DEFINE Idles == \A s \in Sessions :
                last'[s] # last[s] /\ Verdict(last[s], last'[s]) = "route_instability"
                    => profile' = profile
  <1>1. ASSUME Sound, [Next]_vars
        PROVE  [Idles]_vars
    <2>1. CASE profile' = profile
      BY <2>1
    <2>2. CASE RecordStep
      <3>1. PICK s \in Sessions, f \in Fingerprints, outcome \in Outcomes, writes \in 3..4 :
               Record(s, f, outcome, writes)
        BY <2>2 DEF RecordStep
      <3>2. SUFFICES ASSUME NEW q \in Sessions, last'[q] # last[q],
                            Verdict(last[q], last'[q]) = "route_instability"
                     PROVE  profile' = profile
        OBVIOUS
      <3>3. last[s] # NoEvent /\ last[s].fp.route # f.route
        <4>1. last' = [last EXCEPT ![s] = [fp |-> f, outcome |-> outcome]]
          BY <3>1 DEF Record
        <4>2. q = s /\ last'[s] = [fp |-> f, outcome |-> outcome]
          BY <1>1, <3>2, <4>1 DEF Sound, Typed
        <4> QED
          BY <3>2, <4>2 DEF Verdict
      <3>4. /\ churned \in [Fingerprints -> 0..MaxTime \cup {Unknown}]
            /\ Typed /\ Clocked /\ now \in Nat /\ last[s] \in EventRecords
        BY <1>1, <3>3, TableFacts DEF Sound, Typed, TypeOK
      <3>5. churned'[f] = now
        <4>1. ~(writes < 2)
          OBVIOUS
        <4>2. last[s].fp \in Fingerprints
          BY <3>4 DEF EventRecords
        <4>3. churned' = [churned EXCEPT ![f] = now, ![last[s].fp] = now]
          BY <3>1, <3>3, <4>1 DEF Record, ChurnAfter, ChurnDue
        <4> QED
          BY <3>4, <4>2, <4>3
      <3>6. \A i \in DOMAIN rows : ChurnBetween(churned', f, rows[i].at, now)
        BY <3>4, <3>5, TableFacts DEF Clocked, ChurnBetween
      <3>7. Learn(f, outcome, churned', writes)
        BY <3>1 DEF Record
      <3>8. PICK age \in Nat \cup {Unknown}, clean \in BOOLEAN, learned \in BOOLEAN :
               /\ learned => \E i \in DOMAIN rows :
                                ~ChurnBetween(churned', f, rows[i].at, now)
               /\ profile' = IF learned
                             THEN [profile EXCEPT ![f.route] = Observe(@, outcome, age)]
                             ELSE profile
        BY <3>4, <3>7, LearnFacts
      <3> QED
        BY <3>6, <3>8
    <2>3. profile' = profile \/ RecordStep
      BY <1>1, StepCases DEF Send, Advance, DropStep, Dropped, vars
    <2> QED
      BY <2>1, <2>2, <2>3
  <1>2. Sound /\ [Next]_vars => [Idles]_vars
    BY <1>1
  <1> QED
    BY <1>2, SoundInvariant, PTL DEF Spec, InstabilityRefinesNothing

-----------------------------------------------------------------------------
(* The bounds enclose the provider's TTL *)

\* Sending keeps what is known of the caches: the new request finds its content
\* in no other flight, so the latest use of its cache has a row already.
LEMMA SendTruthful ==
    ASSUME Overlap = FALSE, Truthful, Sound',
           NEW s \in Sessions, NEW k \in Contents, NEW r \in Routes,
           NEW served \in BOOLEAN, Send(s, k, r, served)
    PROVE  Truthful'
  <1> DEFINE g == Fp(k, r)
             new == [content |-> k, route |-> r, served |-> served,
                     hit |-> Alive(g), at |-> now]
  <1>0. /\ now' = now /\ rows' = rows /\ profile' = profile /\ unseen' = unseen /\ Idle(s)
        /\ flight' = [flight EXCEPT ![s] = new]
        /\ touched' = IF served THEN [touched EXCEPT ![g] = now] ELSE touched
        /\ \A q \in Sessions : flight[q].content # k
    BY DEF Send
  <1>1. /\ Typed /\ Clocked /\ now \in Nat /\ TrueTTL[r] \in Nat /\ Latency \in Nat
        /\ touched \in [Fingerprints -> 0..MaxTime \cup {Unknown}]
        /\ \A f \in Fingerprints : touched[f] \in Int
    BY TableFacts, LearningAssumption DEF Truthful, Typed, TypeOK, Unknown
  <1>2. g \in Fingerprints /\ g.content = k /\ g.route = r
    BY DEF Fp, Fingerprints, AllRoutes
  <1>3. /\ new.content = k /\ new.route = r /\ new.served = served
        /\ new.hit = Alive(g) /\ new.at = now
    OBVIOUS
  <1>4. Alive(g) <=> touched[g] # Unknown /\ now - touched[g] < TrueTTL[r]
    BY <1>2 DEF Alive
  <1> HIDE DEF g, new
  <1>5. /\ flight'[s] = new
        /\ \A q \in Sessions : q # s => flight'[q] = flight[q]
    BY <1>0, <1>1 DEF Typed
  <1>6. new # NoFlight
    <2>1. NoFlight.content = NoContent
      BY DEF NoFlight
    <2> QED
      BY <1>3, <2>1, LearningAssumption
  <1>7. /\ \A q \in Sessions : Idle(q)' <=> (q # s /\ Idle(q))
        /\ \A q \in Sessions : q # s => Observed(q)' = Observed(q)
        /\ Observed(s)' = g
    <2>1. Observed(s)' = g
      BY <1>3, <1>5 DEF Observed, g
    <2> QED
      BY <2>1, <1>5, <1>6 DEF Idle, Observed
  <1>8. /\ touched'[g] >= touched[g] /\ (served => touched'[g] = now)
        /\ touched'[g] \in {touched[g], now}
        /\ \A f \in Fingerprints : f # g => touched'[f] = touched[f]
    BY <1>0, <1>1, <1>2 DEF Clocked
  <1>9. \A q \in Sessions : ~Idle(q) => Observed(q) # g
    BY <1>0, <1>2, <1>1, FlightFacts
  <1>10. Apart'
    <2> SUFFICES ASSUME NEW p \in Sessions, NEW q \in Sessions, ~Idle(p)',
                        flight'[p].content = flight'[q].content
                 PROVE  p = q
      BY DEF Apart
    <2>1. CASE p = s
      BY <1>0, <1>3, <1>5, <2>1
    <2>2. CASE p # s /\ q = s
      BY <1>0, <1>3, <1>5, <2>2
    <2>3. CASE p # s /\ q # s
      BY <1>5, <1>7, <2>3 DEF Apart, Truthful
    <2> QED
      BY <2>1, <2>2, <2>3
  <1>11. TouchIsSeen'
    <2> SUFFICES ASSUME NEW f \in Fingerprints, f.route \notin unseen,
                        touched'[f] # Unknown
                 PROVE  \/ \E q \in Sessions :
                              ~Idle(q)' /\ flight'[q].served /\ Observed(q)' = f
                        \/ \E i \in DOMAIN rows : rows[i].fp = f /\ rows[i].at >= touched'[f]
      BY <1>0 DEF TouchIsSeen
    <2>1. CASE f = g /\ served
      BY <1>3, <1>5, <1>7, <2>1
    <2>3. CASE f = g /\ ~served
      <3>1. touched' = touched
        BY <1>0, <2>3
      <3>2. \E i \in DOMAIN rows : rows[i].fp = f /\ rows[i].at >= touched[f]
        BY <1>9, <2>3, <3>1 DEF Truthful, TouchIsSeen
      <3> QED
        BY <3>1, <3>2
    <2>2. CASE f # g
      <3>1. \/ \E q \in Sessions : ~Idle(q) /\ flight[q].served /\ Observed(q) = f
            \/ \E i \in DOMAIN rows : rows[i].fp = f /\ rows[i].at >= touched[f]
        BY <1>8, <2>2 DEF Truthful, TouchIsSeen
      <3>2. ASSUME NEW q \in Sessions, ~Idle(q), flight[q].served, Observed(q) = f
            PROVE  ~Idle(q)' /\ flight'[q].served /\ Observed(q)' = f
        BY <1>0, <1>5, <1>7, <3>2
      <3> QED
        BY <1>8, <2>2, <3>1, <3>2
    <2> QED
      BY <2>1, <2>2, <2>3
  <1>12. HitIsYoung'
    <2> SUFFICES ASSUME NEW q \in Sessions, ~Idle(q)', flight'[q].hit,
                        flight'[q].route \notin unseen
                 PROVE  \E i \in DOMAIN rows :
                           /\ rows[i].fp = Observed(q)'
                           /\ flight'[q].at < rows[i].at + TrueTTL[flight'[q].route]
      BY <1>0 DEF HitIsYoung
    <2>1. CASE q # s
      BY <1>5, <1>7, <2>1 DEF Truthful, HitIsYoung
    <2>2. CASE q = s
      <3>1. touched[g] # Unknown /\ now - touched[g] < TrueTTL[r]
        BY <1>3, <1>4, <1>5, <2>2
      <3>2. PICK i \in DOMAIN rows : rows[i].fp = g /\ rows[i].at >= touched[g]
        BY <1>2, <1>3, <1>5, <1>9, <2>2, <3>1 DEF Truthful, TouchIsSeen
      <3>3. rows[i].at \in Nat /\ touched[g] \in Int
        BY <1>1, <1>2, TableFacts
      <3>4. now < rows[i].at + TrueTTL[r]
        BY <1>1, <3>1, <3>2, <3>3
      <3> QED
        BY <1>3, <1>5, <1>7, <2>2, <3>2, <3>4
    <2> QED
      BY <2>1, <2>2
  <1>13. RowIsTouch'
    <2>1. ASSUME NEW q \in Sessions, ~Idle(q)', flight'[q].served
          PROVE  touched'[Observed(q)'] >= flight'[q].at
      <3>1. CASE q = s
        BY <1>1, <1>3, <1>5, <1>7, <1>8, <2>1, <3>1
      <3>2. CASE q # s
        <4>1. ~Idle(q) /\ flight'[q] = flight[q] /\ Observed(q)' = Observed(q)
          BY <1>5, <1>7, <2>1, <3>2
        <4>2. Observed(q) # g /\ Observed(q) \in Fingerprints
          BY <1>1, <1>9, <4>1, FlightFacts
        <4> QED
          BY <1>8, <2>1, <4>1, <4>2 DEF Truthful, RowIsTouch
      <3> QED
        BY <3>1, <3>2
    <2>2. ASSUME NEW i \in DOMAIN rows, rows[i].outcome # "failed"
          PROVE  /\ touched'[rows[i].fp] + Latency >= rows[i].at
                 /\ touched'[rows[i].fp] # Unknown
      <3>1. /\ touched[rows[i].fp] + Latency >= rows[i].at
            /\ touched[rows[i].fp] # Unknown
        BY <2>2 DEF Truthful, RowIsTouch
      <3>2. rows[i].fp \in Fingerprints /\ rows[i].at \in Nat
        BY <1>1, TableFacts
      <3>3. CASE rows[i].fp # g
        BY <1>8, <3>1, <3>2, <3>3
      <3>4. CASE rows[i].fp = g
        <4>1. touched[g] \in Int /\ touched'[g] \in Int /\ touched'[g] >= touched[g]
          BY <1>1, <1>2, <1>8
        <4>2. touched'[g] # Unknown
          BY <1>1, <1>8, <3>1, <3>4 DEF Unknown
        <4> QED
          BY <1>1, <3>1, <3>2, <3>4, <4>1, <4>2
      <3> QED
        BY <3>3, <3>4
    <2> QED
      BY <1>0, <2>1, <2>2 DEF RowIsTouch
  <1>14. MissIsOld'
    <2> SUFFICES ASSUME NEW q \in Sessions, ~Idle(q)', ~flight'[q].hit,
                        NEW i \in DOMAIN rows, rows[i].fp = Observed(q)',
                        rows[i].outcome # "failed"
                 PROVE  flight'[q].at + Latency >= rows[i].at + TrueTTL[flight'[q].route]
      BY <1>0 DEF MissIsOld
    <2>1. CASE q # s
      BY <1>5, <1>7, <2>1 DEF Truthful, MissIsOld
    <2>2. CASE q = s
      <3>1. touched[g] + Latency >= rows[i].at /\ touched[g] # Unknown
        BY <1>7, <2>2 DEF Truthful, RowIsTouch
      <3>2. now - touched[g] >= TrueTTL[r]
        BY <1>1, <1>2, <1>3, <1>4, <1>5, <2>2, <3>1
      <3>3. rows[i].at \in Nat /\ touched[g] \in Int
        BY <1>1, <1>2, TableFacts
      <3>4. now + Latency >= rows[i].at + TrueTTL[r]
        BY <1>1, <3>1, <3>2, <3>3
      <3> QED
        BY <1>3, <1>5, <2>2, <3>4
    <2> QED
      BY <2>1, <2>2
  <1>15. BoundsSound'
    BY <1>0 DEF Truthful, BoundsSound
  <1> QED
    BY <1>10, <1>11, <1>12, <1>13, <1>14, <1>15 DEF Truthful, Sound

\* Recording keeps it: the row is the trace of the request's own use of the cache,
\* and the age it is learned at is measured from the row before.
LEMMA RecordTruthful ==
    ASSUME Truthful, Sound', NEW s \in Sessions, NEW f \in Fingerprints,
           NEW outcome \in Outcomes, NEW writes \in 3..4, Record(s, f, outcome, writes),
           Faithful(s, f, outcome)
    PROVE  Truthful'
  <1> DEFINE n == Len(rows) + 1
  <1>0. /\ now' = now /\ touched' = touched /\ ~Idle(s)
        /\ flight' = [flight EXCEPT ![s] = NoFlight]
        /\ Learn(f, outcome, churned', writes)
        /\ unseen' = Unseen(s, f.route = flight[s].route)
    <2>1. writes >= 3
      OBVIOUS
    <2> QED
      BY <2>1 DEF Record
  <1>1. /\ Typed /\ Clocked /\ now \in Nat /\ Latency \in Nat
        /\ \A g \in Fingerprints : touched[g] \in Int
        /\ \A r \in Routes : r \in AllRoutes /\ r # BaseRoute /\ TrueTTL[r] \in Nat
                             /\ TrueTTL[r] > 0
    BY TableFacts, LearningAssumption DEF Truthful, Typed, TypeOK, Unknown, AllRoutes
  <1>2. PICK age \in Nat \cup {Unknown}, clean \in BOOLEAN, learned \in BOOLEAN :
           /\ rows' = Append(rows, NewRow(f, age, outcome, clean, learned))
           /\ age <= MaxTime
           /\ learned =>
                /\ age \in Nat
                /\ \E i \in DOMAIN rows :
                      /\ rows[i].fp = f /\ age = now - rows[i].at
                      /\ \A j \in DOMAIN rows : rows[j].fp = f => rows[j].at <= rows[i].at
           /\ profile' = IF learned
                         THEN [profile EXCEPT ![f.route] = Observe(@, outcome, age)]
                         ELSE profile
    BY <1>0, <1>1, LearnFacts
  <1> DEFINE row == NewRow(f, age, outcome, clean, learned)
  <1>3. row \in RowRecords /\ row.at = now /\ row.fp = f /\ row.outcome = outcome
    <2>1. age \in 0..MaxTime \cup {Unknown}
      BY <1>2, LearningAssumption DEF Unknown
    <2> QED
      BY <1>1, <2>1 DEF NewRow, RowRecords, Typed, TypeOK
  <1> HIDE DEF row
  <1>4. /\ n \in DOMAIN rows' /\ rows'[n] = row
        /\ \A i \in DOMAIN rows : i \in DOMAIN rows' /\ rows'[i] = rows[i]
        /\ \A i \in DOMAIN rows' : i \in DOMAIN rows \/ i = n
    BY <1>1, <1>2, <1>3, RowsGrow DEF row
  <1> HIDE DEF n
  <1>5. /\ \A q \in Sessions : ~Idle(q)' =>
              q # s /\ ~Idle(q) /\ flight'[q] = flight[q] /\ Observed(q)' = Observed(q)
        /\ \A q \in Sessions : ~Idle(q) /\ q # s => ~Idle(q)' /\ Observed(q)' = Observed(q)
    BY <1>0, <1>1 DEF Typed, Idle, Observed
  <1>6. /\ flight[s].at \in Nat /\ flight[s].at <= now /\ now <= flight[s].at + Latency
        /\ Observed(s) \in Fingerprints
        /\ flight[s].route \in Routes /\ Observed(s).route = flight[s].route
        /\ Observed(s).content = flight[s].content /\ f.content = flight[s].content
    <2>1. f.content = flight[s].content
      BY DEF Faithful, Observed, Fp
    <2> QED
      BY <1>0, <1>1, <2>1, FlightFacts DEF Clocked
  <1>7. /\ unseen \subseteq unseen'
        /\ flight[s].route \notin unseen' /\ flight[s].served => f = Observed(s)
    <2>1. unseen \subseteq unseen'
      BY <1>0 DEF Unseen
    <2>2. ASSUME flight[s].route \notin unseen', flight[s].served
          PROVE  f.route = flight[s].route
      BY <1>0, <2>2 DEF Unseen
    <2>3. Fp(flight[s].content, BaseRoute).route = BaseRoute
      BY DEF Fp
    <2> QED
      BY <1>1, <1>6, <2>1, <2>2, <2>3 DEF Faithful
  <1>8. \A q \in Sessions : ~Idle(q) /\ q # s => Observed(q) # f
    <2> SUFFICES ASSUME NEW q \in Sessions, ~Idle(q), q # s, Observed(q) = f PROVE FALSE
      OBVIOUS
    <2>1. flight[q].content = flight[s].content
      BY <1>1, <1>6, FlightFacts
    <2> QED
      BY <2>1 DEF Truthful, Apart
  <1>9. Apart'
    <2> SUFFICES ASSUME NEW p \in Sessions, NEW q \in Sessions, ~Idle(p)',
                        flight'[p].content = flight'[q].content
                 PROVE  p = q
      BY DEF Apart
    <2>1. ~Idle(p) /\ flight'[p] = flight[p]
      BY <1>5
    <2>2. flight[p].content \in Contents
      BY <1>1, <2>1, FlightFacts
    <2>3. CASE q = s
      <3>1. flight'[q].content = NoContent
        BY <1>0, <1>1, <2>3 DEF Typed, NoFlight
      <3> QED
        BY <2>1, <2>2, <3>1, LearningAssumption
    <2>4. CASE q # s
      <3>1. flight'[q] = flight[q]
        BY <1>0, <1>1, <2>4 DEF Typed
      <3> QED
        BY <2>1, <3>1 DEF Truthful, Apart
    <2> QED
      BY <2>3, <2>4
  <1>10. TouchIsSeen'
    <2> SUFFICES ASSUME NEW g \in Fingerprints, g.route \notin unseen', touched[g] # Unknown
                 PROVE  \/ \E q \in Sessions :
                              ~Idle(q)' /\ flight'[q].served /\ Observed(q)' = g
                        \/ \E i \in DOMAIN rows' :
                              rows'[i].fp = g /\ rows'[i].at >= touched[g]
      BY <1>0 DEF TouchIsSeen
    <2>1. CASE g = f
      <3>1. rows'[n].fp = g /\ rows'[n].at >= touched[g]
        BY <1>1, <1>3, <1>4, <2>1 DEF Clocked
      <3> QED
        BY <1>4, <3>1
    <2>2. CASE g # f
      <3>1. \/ \E q \in Sessions : ~Idle(q) /\ flight[q].served /\ Observed(q) = g
            \/ \E i \in DOMAIN rows : rows[i].fp = g /\ rows[i].at >= touched[g]
        BY <1>7 DEF Truthful, TouchIsSeen
      <3>2. ASSUME NEW q \in Sessions, ~Idle(q), flight[q].served, Observed(q) = g
            PROVE  ~Idle(q)' /\ flight'[q].served /\ Observed(q)' = g
        <4>1. q # s
          BY <1>6, <1>7, <2>2, <3>2
        <4> QED
          BY <1>5, <3>2, <4>1
      <3> QED
        BY <1>4, <3>1, <3>2
    <2> QED
      BY <2>1, <2>2
  <1>11. HitIsYoung'
    <2> SUFFICES ASSUME NEW q \in Sessions, ~Idle(q)', flight'[q].hit,
                        flight'[q].route \notin unseen'
                 PROVE  \E i \in DOMAIN rows' :
                           /\ rows'[i].fp = Observed(q)'
                           /\ flight'[q].at < rows'[i].at + TrueTTL[flight'[q].route]
      BY <1>0 DEF HitIsYoung
    <2>1. ~Idle(q) /\ flight'[q] = flight[q] /\ Observed(q)' = Observed(q)
      BY <1>5
    <2>2. PICK i \in DOMAIN rows : /\ rows[i].fp = Observed(q)
                                   /\ flight[q].at < rows[i].at + TrueTTL[flight[q].route]
      BY <1>7, <2>1 DEF Truthful, HitIsYoung
    <2> QED
      BY <1>4, <2>1, <2>2
  <1>12. RowIsTouch'
    <2>1. ASSUME NEW q \in Sessions, ~Idle(q)', flight'[q].served
          PROVE  touched[Observed(q)'] >= flight'[q].at
      BY <1>5, <2>1 DEF Truthful, RowIsTouch
    <2>2. ASSUME NEW i \in DOMAIN rows', rows'[i].outcome # "failed"
          PROVE  /\ touched[rows'[i].fp] + Latency >= rows'[i].at
                 /\ touched[rows'[i].fp] # Unknown
      <3>1. CASE i \in DOMAIN rows
        BY <1>4, <2>2, <3>1 DEF Truthful, RowIsTouch
      <3>2. CASE i = n
        <4>1. f = Observed(s) /\ flight[s].served
          BY <1>3, <1>4, <2>2, <3>2 DEF Faithful
        <4>2. touched[f] >= flight[s].at
          BY <1>0, <4>1 DEF Truthful, RowIsTouch
        <4>3. touched[f] \in Int /\ touched[f] >= 0
          BY <1>1, <1>6, <4>2
        <4>4. touched[f] + Latency >= now /\ touched[f] # Unknown
          BY <1>1, <1>6, <4>2, <4>3 DEF Unknown
        <4> QED
          BY <1>3, <1>4, <3>2, <4>4
      <3> QED
        BY <1>4, <3>1, <3>2
    <2> QED
      BY <1>0, <2>1, <2>2 DEF RowIsTouch
  <1>13. MissIsOld'
    <2> SUFFICES ASSUME NEW q \in Sessions, ~Idle(q)', ~flight'[q].hit,
                        NEW i \in DOMAIN rows', rows'[i].fp = Observed(q)',
                        rows'[i].outcome # "failed"
                 PROVE  flight'[q].at + Latency >= rows'[i].at + TrueTTL[flight'[q].route]
      BY <1>0 DEF MissIsOld
    <2>1. q # s /\ ~Idle(q) /\ flight'[q] = flight[q] /\ Observed(q)' = Observed(q)
      BY <1>5
    <2>2. i \in DOMAIN rows /\ rows'[i] = rows[i]
      BY <1>3, <1>4, <1>8, <2>1
    <2> QED
      BY <2>1, <2>2 DEF Truthful, MissIsOld
  <1>14. BoundsSound'
    <2> SUFFICES ASSUME NEW r \in Routes
                 PROVE  /\ r \notin unseen' => profile'[r].lower < TrueTTL[r] + Latency
                        /\ (\A i \in DOMAIN rows' :
                               rows'[i].fp.route = r => rows'[i].outcome # "failed")
                             => profile'[r].upper = Unknown
                                \/ profile'[r].upper >= TrueTTL[r] - Latency
      BY DEF BoundsSound
    <2> DEFINE P == profile[r]
               Q == Observe(P, outcome, age)
    <2>0. /\ P \in Profile /\ P.lower \in Int /\ P.upper \in Int
          /\ TrueTTL[r] \in Nat /\ TrueTTL[r] > 0 /\ r \in AllRoutes
      <3>1. P \in Profile /\ r \in AllRoutes /\ TrueTTL[r] \in Nat /\ TrueTTL[r] > 0
        BY <1>1 DEF Typed, TypeOK
      <3>2. \A R \in Profile : R.lower \in Int /\ R.upper \in Int
        BY DEF Profile, Unknown
      <3> QED
        BY <3>1, <3>2
    <2>1. /\ r \notin unseen' => P.lower < TrueTTL[r] + Latency
          /\ (\A i \in DOMAIN rows' : rows'[i].fp.route = r => rows'[i].outcome # "failed")
               => P.upper = Unknown \/ P.upper >= TrueTTL[r] - Latency
      <3>1. (\A i \in DOMAIN rows' : rows'[i].fp.route = r => rows'[i].outcome # "failed")
              => (\A i \in DOMAIN rows : rows[i].fp.route = r => rows[i].outcome # "failed")
        BY <1>4
      <3>2. r \notin unseen => P.lower < TrueTTL[r] + Latency
        BY DEF Truthful, BoundsSound
      <3>3. (\A i \in DOMAIN rows : rows[i].fp.route = r => rows[i].outcome # "failed")
               => P.upper = Unknown \/ P.upper >= TrueTTL[r] - Latency
        BY DEF Truthful, BoundsSound
      <3> QED
        BY <1>7, <3>1, <3>2, <3>3
    <2>2. CASE profile'[r] = P
      BY <2>1, <2>2
    <2>3. CASE learned /\ r = f.route /\ profile'[r] = Q
      <3>1. PICK i \in DOMAIN rows :
               /\ rows[i].fp = f /\ age = now - rows[i].at
               /\ \A j \in DOMAIN rows : rows[j].fp = f => rows[j].at <= rows[i].at
        BY <1>2, <2>3
      <3>2. age \in Nat /\ rows[i].at \in Nat
        BY <1>1, <1>2, <2>3, TableFacts
      <3>3. f = Observed(s)
        <4>1. Fp(flight[s].content, BaseRoute).route = BaseRoute
          BY DEF Fp
        <4> QED
          BY <1>1, <2>3, <4>1 DEF Faithful
      <3>4. ASSUME r \notin unseen'
            PROVE  Q.lower < TrueTTL[r] + Latency
        <4>1. CASE outcome = "confirmed_hit"
          <5>1. flight[s].hit
            BY <4>1 DEF Faithful
          <5>2. PICK j \in DOMAIN rows :
                   rows[j].fp = f /\ flight[s].at < rows[j].at + TrueTTL[r]
            BY <1>0, <1>6, <1>7, <2>3, <3>3, <3>4, <5>1 DEF Truthful, HitIsYoung
          <5>3. rows[j].at \in Nat /\ rows[j].at <= rows[i].at
            BY <1>1, <3>1, <5>2, TableFacts
          <5>4. age < TrueTTL[r] + Latency
            BY <1>1, <1>6, <2>0, <3>1, <3>2, <5>2, <5>3
          <5>5. Q.lower = Greater(P.lower, age)
            BY <2>0, <3>2, <4>1, ObserveFacts
          <5> QED
            BY <2>1, <3>4, <5>4, <5>5 DEF Greater
        <4>2. CASE outcome # "confirmed_hit"
          <5>1. Q.lower = P.lower
            BY <2>0, <3>2, <4>2, ObserveFacts
          <5> QED
            BY <2>1, <3>4, <5>1
        <4> QED
          BY <4>1, <4>2
      <3>5. ASSUME \A j \in DOMAIN rows' :
                      rows'[j].fp.route = r => rows'[j].outcome # "failed"
            PROVE  Q.upper = Unknown \/ Q.upper >= TrueTTL[r] - Latency
        <4>1. CASE outcome = "miss_rebuilt"
          <5>1. ~flight[s].hit
            BY <4>1 DEF Faithful
          <5>2. rows[i].outcome # "failed"
            BY <1>4, <2>3, <3>1, <3>5
          <5>3. flight[s].at + Latency >= rows[i].at + TrueTTL[r]
            BY <1>0, <1>6, <2>3, <3>1, <3>3, <5>1, <5>2 DEF Truthful, MissIsOld
          <5>4. age >= TrueTTL[r] - Latency
            BY <1>1, <1>6, <2>0, <3>1, <3>2, <5>3
          <5>5. Q.upper = IF P.upper = Unknown THEN age ELSE Lesser(P.upper, age)
            BY <2>0, <3>2, <4>1, ObserveFacts
          <5> QED
            BY <2>1, <3>5, <5>4, <5>5 DEF Lesser
        <4>2. CASE outcome # "miss_rebuilt"
          <5>1. Q.upper = P.upper
            BY <2>0, <3>2, <4>2, ObserveFacts
          <5> QED
            BY <2>1, <3>5, <5>1
        <4> QED
          BY <4>1, <4>2
      <3> QED
        BY <2>3, <3>4, <3>5
    <2>4. \/ profile'[r] = P
          \/ learned /\ r = f.route /\ profile'[r] = Q
      BY <1>1, <1>2, <2>0 DEF Typed, TypeOK
    <2> QED
      BY <2>2, <2>3, <2>4
  <1> QED
    BY <1>9, <1>10, <1>11, <1>12, <1>13, <1>14 DEF Truthful, Sound

\* A request without a row changes nothing that the rows say of the provider, except
\* that the route it used is no longer one of whose uses all have rows.
LEMMA DroppedTruthful ==
    ASSUME Truthful, Sound', NEW s \in Sessions, Dropped(s)
    PROVE  Truthful'
  <1>0. /\ now' = now /\ touched' = touched /\ rows' = rows /\ profile' = profile
        /\ flight' = [flight EXCEPT ![s] = NoFlight] /\ ~Idle(s)
        /\ unseen \subseteq unseen'
        /\ flight[s].served => flight[s].route \in unseen'
    BY DEF Dropped, Unseen
  <1>1. Typed
    BY DEF Truthful
  <1>2. /\ \A q \in Sessions : ~Idle(q)' =>
              q # s /\ ~Idle(q) /\ flight'[q] = flight[q] /\ Observed(q)' = Observed(q)
        /\ \A q \in Sessions : ~Idle(q) /\ q # s =>
              ~Idle(q)' /\ flight'[q] = flight[q] /\ Observed(q)' = Observed(q)
    BY <1>0, <1>1 DEF Typed, Idle, Observed
  <1>3. Apart'
    <2> SUFFICES ASSUME NEW p \in Sessions, NEW q \in Sessions, ~Idle(p)',
                        flight'[p].content = flight'[q].content
                 PROVE  p = q
      BY DEF Apart
    <2>1. ~Idle(p) /\ flight'[p] = flight[p]
      BY <1>2
    <2>2. flight[p].content \in Contents
      BY <1>1, <2>1, FlightFacts
    <2>3. CASE q = s
      <3>1. flight'[q].content = NoContent
        BY <1>0, <1>1, <2>3 DEF Typed, NoFlight
      <3> QED
        BY <2>1, <2>2, <3>1, LearningAssumption
    <2>4. CASE q # s
      <3>1. flight'[q] = flight[q]
        BY <1>0, <1>1, <2>4 DEF Typed
      <3> QED
        BY <2>1, <3>1 DEF Truthful, Apart
    <2> QED
      BY <2>3, <2>4
  <1>4. TouchIsSeen'
    <2> SUFFICES ASSUME NEW g \in Fingerprints, g.route \notin unseen', touched[g] # Unknown
                 PROVE  \/ \E q \in Sessions :
                              ~Idle(q)' /\ flight'[q].served /\ Observed(q)' = g
                        \/ \E i \in DOMAIN rows : rows[i].fp = g /\ rows[i].at >= touched[g]
      BY <1>0 DEF TouchIsSeen
    <2>1. \/ \E q \in Sessions : ~Idle(q) /\ flight[q].served /\ Observed(q) = g
          \/ \E i \in DOMAIN rows : rows[i].fp = g /\ rows[i].at >= touched[g]
      BY <1>0 DEF Truthful, TouchIsSeen
    <2>2. ASSUME NEW q \in Sessions, ~Idle(q), flight[q].served, Observed(q) = g
          PROVE  ~Idle(q)' /\ flight'[q].served /\ Observed(q)' = g
      <3>1. q # s
        BY <1>0, <1>1, <2>2, FlightFacts
      <3> QED
        BY <1>2, <2>2, <3>1
    <2> QED
      BY <2>1, <2>2
  <1>5. HitIsYoung'
    BY <1>0, <1>2 DEF Truthful, HitIsYoung
  <1>6. RowIsTouch'
    BY <1>0, <1>2 DEF Truthful, RowIsTouch
  <1>7. MissIsOld'
    BY <1>0, <1>2 DEF Truthful, MissIsOld
  <1>8. BoundsSound'
    BY <1>0 DEF Truthful, BoundsSound
  <1> QED
    BY <1>3, <1>4, <1>5, <1>6, <1>7, <1>8 DEF Truthful, Sound

\* The clock changes nothing that the rows say of the provider.
LEMMA AdvanceTruthful ==
    ASSUME Truthful, Sound', Advance
    PROVE  Truthful'
  <1>1. /\ touched' = touched /\ flight' = flight /\ rows' = rows /\ profile' = profile
        /\ unseen' = unseen
    BY DEF Advance
  <1> QED
    BY <1>1 DEF Truthful, Sound, Apart, TouchIsSeen, HitIsYoung, RowIsTouch,
                MissIsOld, BoundsSound, Idle, Observed

\* Without rows there is nothing to be true of the provider.
LEMMA TruthfulInit ==
    ASSUME Init
    PROVE  Truthful
  <1>1. Sound
    BY SoundInit
  <1>2. /\ rows = <<>> /\ DOMAIN rows = {} /\ \A s \in Sessions : Idle(s)
        /\ \A f \in Fingerprints : touched[f] = Unknown
        /\ \A r \in Routes : profile[r].lower = Unknown /\ profile[r].upper = Unknown
    BY DEF Init, Idle, NewProfile, AllRoutes
  <1>3. \A r \in Routes : Unknown < TrueTTL[r] + Latency
    BY LearningAssumption DEF Unknown
  <1> QED
    BY <1>1, <1>2, <1>3 DEF Truthful, Sound, Apart, TouchIsSeen, HitIsYoung, RowIsTouch,
                            MissIsOld, BoundsSound

\* "a verified cache HIT at idle age A proves TTL > A" and "a MISS at idle age A
\* caps TTL <= A" (ttl.py:5-9), up to the latency of a response: the learned bounds
\* enclose the TTL the provider really has, for any number of sessions that share
\* the caches, routes that move and requests, with or without churn detection and
\* wherever recordings break off, as long as a content is not in flight twice: the
\* lower bound of every route all of whose cache uses have a row there, the upper
\* bound of every route without a failed row.
THEOREM BoundsEncloseTTL ==
    ASSUME Overlap = FALSE
    PROVE  Spec => []BoundsSound
  <1>1. Init => Truthful
    BY TruthfulInit
  <1>2. ASSUME Truthful, [Next]_vars
        PROVE  Truthful'
    <2>1. Sound /\ Sound'
      BY <1>2, SoundNext DEF Truthful, Sound
    <2>2. CASE \E s \in Sessions, k \in Contents, r \in Routes, served \in BOOLEAN :
                  Send(s, k, r, served)
      BY <1>2, <2>1, <2>2, SendTruthful
    <2>3. CASE RecordStep
      BY <1>2, <2>1, <2>3, RecordTruthful DEF RecordStep
    <2>6. CASE DropStep
      BY <1>2, <2>1, <2>6, DroppedTruthful DEF DropStep
    <2>4. CASE Advance
      BY <1>2, <2>1, <2>4, AdvanceTruthful
    <2>5. CASE UNCHANGED vars
      BY <1>2, <2>1, <2>5 DEF Truthful, Sound, Apart, TouchIsSeen, HitIsYoung,
                              RowIsTouch, MissIsOld, BoundsSound, Idle, Observed, vars
    <2> QED
      BY <1>2, <2>1, <2>2, <2>3, <2>4, <2>5, <2>6, StepCases
  <1>3. Truthful /\ [Next]_vars => Truthful'
    BY <1>2
  <1>4. Truthful => BoundsSound
    BY DEF Truthful
  <1> QED
    BY <1>1, <1>3, <1>4, PTL DEF Spec

-----------------------------------------------------------------------------
(* A profile says what the rows it was refined with say *)

\* The rows the profile of a route was refined with, alive and dead.
UsedRow(i, r) ==
    i \in DOMAIN rows /\ rows[i].clean /\ rows[i].learned /\ rows[i].fp.route = r
HitRow(i, r) == UsedRow(i, r) /\ rows[i].outcome = "confirmed_hit"
MissRow(i, r) == UsedRow(i, r) /\ rows[i].outcome = "miss_rebuilt"

\* Clean rows have an age.
Aged == \A i \in DOMAIN rows : rows[i].clean => rows[i].age \in Nat

\* The bounds of a profile are the extremes of its rows, and its samples their number.
Extreme ==
  /\ Aged
  /\ \A r \in AllRoutes :
        LET P == profile[r]
            E == Evidence(LearnedRows(r))
        IN  /\ IsFiniteSet(E) /\ P.samples = Cardinality(E)
            /\ \A i \in DOMAIN rows : UsedRow(i, r) => rows[i].age \in Nat
            /\ \A i \in DOMAIN rows : HitRow(i, r) => rows[i].age <= P.lower
            /\ P.lower # Unknown => \E i \in DOMAIN rows : HitRow(i, r) /\ rows[i].age = P.lower
            /\ \A i \in DOMAIN rows : MissRow(i, r) => P.upper # Unknown /\ P.upper <= rows[i].age
            /\ P.upper # Unknown => \E i \in DOMAIN rows : MissRow(i, r) /\ rows[i].age = P.upper

\* An observation of one more clean row keeps the bounds extreme.
LEMMA RecordExtreme ==
    ASSUME Sound, Extreme, NEW s \in Sessions, NEW f \in Fingerprints,
           NEW outcome \in Outcomes, NEW writes \in 3..4, Record(s, f, outcome, writes)
    PROVE  Extreme'
  <1>1. Typed /\ Clocked /\ profile \in [AllRoutes -> Profile] /\ f.route \in AllRoutes
    BY DEF Sound, Typed, TypeOK, Fingerprints
  <1>0. PICK n \in Nat : n = Len(rows) + 1
    BY <1>1, TableFacts
  <1>2. PICK age \in Nat \cup {Unknown}, clean \in BOOLEAN, learned \in BOOLEAN :
           /\ rows' = Append(rows, NewRow(f, age, outcome, clean, learned))
           /\ age <= MaxTime /\ (learned => clean) /\ (clean => age \in Nat)
           /\ profile' = IF learned
                         THEN [profile EXCEPT ![f.route] = Observe(@, outcome, age)]
                         ELSE profile
    BY <1>1, LearnFacts DEF Record
  <1> DEFINE row == NewRow(f, age, outcome, clean, learned)
  <1>3. /\ row \in RowRecords /\ row.fp = f /\ row.outcome = outcome
        /\ row.age = age /\ row.clean = clean /\ row.learned = learned
    <2>1. age \in 0..MaxTime \cup {Unknown}
      BY <1>2, LearningAssumption DEF Unknown
    <2> QED
      BY <1>1, <2>1 DEF NewRow, RowRecords, Typed, TypeOK
  <1> HIDE DEF row
  <1>4. /\ n \in DOMAIN rows' /\ rows'[n] = row /\ n \notin DOMAIN rows
        /\ \A i \in DOMAIN rows : i \in DOMAIN rows' /\ rows'[i] = rows[i]
        /\ \A i \in DOMAIN rows' : i \in DOMAIN rows \/ i = n
    <2>1. \A i \in DOMAIN rows : i \in Nat
      BY <1>1, TableFacts
    <2> QED
      BY <1>0, <1>1, <1>2, <1>3, <2>1, RowsGrow DEF row
  <1>20. Aged'
    BY <1>2, <1>3, <1>4 DEF Extreme, Aged
  <1>5. SUFFICES ASSUME NEW r \in AllRoutes
                 PROVE  LET P == profile'[r]
                            E == Evidence(LearnedRows(r)')
                        IN  /\ IsFiniteSet(E) /\ P.samples = Cardinality(E)
                            /\ \A i \in DOMAIN rows' : UsedRow(i, r)' => rows'[i].age \in Nat
                            /\ \A i \in DOMAIN rows' : HitRow(i, r)' => rows'[i].age <= P.lower
                            /\ P.lower # Unknown =>
                                 \E i \in DOMAIN rows' : HitRow(i, r)' /\ rows'[i].age = P.lower
                            /\ \A i \in DOMAIN rows' : MissRow(i, r)' =>
                                 P.upper # Unknown /\ P.upper <= rows'[i].age
                            /\ P.upper # Unknown =>
                                 \E i \in DOMAIN rows' : MissRow(i, r)' /\ rows'[i].age = P.upper
    BY <1>20 DEF Extreme
  <1> DEFINE P == profile[r]
             Q == profile'[r]
             E == Evidence(LearnedRows(r))
             F == Evidence(LearnedRows(r)')
             e == [id |-> n, age |-> age, outcome |-> outcome]
             mine == learned /\ f.route = r
             verified == outcome \in {"confirmed_hit", "miss_rebuilt"}
  <1>6. /\ IsFiniteSet(E) /\ P.samples = Cardinality(E)
        /\ \A i \in DOMAIN rows : UsedRow(i, r) => rows[i].age \in Nat
        /\ \A i \in DOMAIN rows : HitRow(i, r) => rows[i].age <= P.lower
        /\ P.lower # Unknown => \E i \in DOMAIN rows : HitRow(i, r) /\ rows[i].age = P.lower
        /\ \A i \in DOMAIN rows : MissRow(i, r) => P.upper # Unknown /\ P.upper <= rows[i].age
        /\ P.upper # Unknown => \E i \in DOMAIN rows : MissRow(i, r) /\ rows[i].age = P.upper
    BY DEF Extreme
  <1>7. P \in Profile /\ P.lower \in Int /\ P.lower >= -1 /\ P.upper \in Int /\ P.upper >= -1
    <2>1. P \in Profile
      BY <1>1
    <2>2. \A R \in Profile : /\ R.lower \in Int /\ R.upper \in Int
                             /\ R.lower >= -1 /\ R.upper >= -1
      BY DEF Profile, Unknown
    <2> QED
      BY <2>1, <2>2
  <1>8. IF mine THEN age \in Nat /\ Q = Observe(P, outcome, age) ELSE Q = P
    BY <1>1, <1>2
  <1>9. /\ \A i \in DOMAIN rows : /\ UsedRow(i, r)' <=> UsedRow(i, r)
                                  /\ HitRow(i, r)' <=> HitRow(i, r)
                                  /\ MissRow(i, r)' <=> MissRow(i, r)
        /\ UsedRow(n, r)' <=> mine
        /\ HitRow(n, r)' <=> mine /\ outcome = "confirmed_hit"
        /\ MissRow(n, r)' <=> mine /\ outcome = "miss_rebuilt"
    BY <1>2, <1>3, <1>4 DEF UsedRow, HitRow, MissRow
  <1>10. IF mine /\ verified THEN F = E \cup {e} /\ e \notin E ELSE F = E
    <2> DEFINE C == {j \in DOMAIN rows : rows[j].clean /\ rows[j].learned /\ rows[j].fp.route = r}
               D == {j \in DOMAIN rows' :
                        rows'[j].clean /\ rows'[j].learned /\ rows'[j].fp.route = r}
    <2>1. D = IF mine THEN C \cup {n} ELSE C
      BY <1>2, <1>3, <1>4
    <2>2. E = {o \in {[id |-> i, age |-> rows[i].age, outcome |-> rows[i].outcome] : i \in C} :
                  o.outcome \in {"confirmed_hit", "miss_rebuilt"}}
      BY DEF Evidence, LearnedRows, Observations
    <2>3. F = {o \in {[id |-> i, age |-> rows'[i].age, outcome |-> rows'[i].outcome] : i \in D} :
                  o.outcome \in {"confirmed_hit", "miss_rebuilt"}}
      BY DEF Evidence, LearnedRows, Observations
    <2>4. \A i \in C : rows'[i] = rows[i] /\ i # n
      BY <1>4
    <2>5. rows'[n].age = age /\ rows'[n].outcome = outcome
      BY <1>3, <1>4
    <2>6. ASSUME NEW o
          PROVE  o \in F <=> o \in E \/ (mine /\ verified /\ o = e)
      <3>1. o \in E <=> \E i \in C :
                /\ o = [id |-> i, age |-> rows[i].age, outcome |-> rows[i].outcome]
                /\ rows[i].outcome \in {"confirmed_hit", "miss_rebuilt"}
        BY <2>2
      <3>2. o \in F <=> \E i \in D :
                /\ o = [id |-> i, age |-> rows'[i].age, outcome |-> rows'[i].outcome]
                /\ rows'[i].outcome \in {"confirmed_hit", "miss_rebuilt"}
        BY <2>3
      <3> QED
        BY <2>1, <2>4, <2>5, <3>1, <3>2
    <2>7. e \notin E
      <3>1. \A o \in E : \E i \in C : o.id = i
        BY <2>2
      <3> QED
        BY <2>4, <3>1
    <2> QED
      BY <2>6, <2>7
  <1> HIDE DEF E, F, e
  <1>11. /\ IsFiniteSet(F)
         /\ Cardinality(F) = IF mine /\ verified THEN Cardinality(E) + 1 ELSE Cardinality(E)
    BY <1>6, <1>10, FS_AddElement
  <1>12. IsFiniteSet(F) /\ Q.samples = Cardinality(F)
    BY <1>6, <1>7, <1>8, <1>11, ObserveFacts
  <1>13. \A i \in DOMAIN rows' : UsedRow(i, r)' => rows'[i].age \in Nat
    BY <1>3, <1>4, <1>6, <1>8, <1>9
  <1>14. Q.lower = IF mine /\ outcome = "confirmed_hit" THEN Greater(P.lower, age)
                   ELSE P.lower
    BY <1>7, <1>8, ObserveFacts
  <1>15. \A i \in DOMAIN rows' : HitRow(i, r)' => rows'[i].age <= Q.lower
    <2> SUFFICES ASSUME NEW i \in DOMAIN rows', HitRow(i, r)'
                 PROVE  rows'[i].age <= Q.lower
      OBVIOUS
    <2>1. CASE i = n
      BY <1>3, <1>4, <1>7, <1>8, <1>9, <1>14, <2>1 DEF Greater
    <2>2. CASE i \in DOMAIN rows
      <3>1. rows[i].age \in Nat /\ rows[i].age <= P.lower /\ rows'[i] = rows[i]
        BY <1>4, <1>6, <1>9, <2>2 DEF HitRow
      <3> QED
        BY <1>7, <1>8, <1>14, <3>1 DEF Greater
    <2> QED
      BY <1>4, <2>1, <2>2
  <1>16. Q.lower # Unknown =>
            \E i \in DOMAIN rows' : HitRow(i, r)' /\ rows'[i].age = Q.lower
    <2>1. CASE Q.lower = P.lower
      BY <1>4, <1>6, <1>9, <2>1
    <2>2. CASE Q.lower # P.lower
      BY <1>3, <1>4, <1>9, <1>14, <2>2 DEF Greater
    <2> QED
      BY <2>1, <2>2
  <1>17. Q.upper = IF mine /\ outcome = "miss_rebuilt"
                   THEN IF P.upper = Unknown THEN age ELSE Lesser(P.upper, age)
                   ELSE P.upper
    BY <1>7, <1>8, ObserveFacts
  <1>18. \A i \in DOMAIN rows' : MissRow(i, r)' => Q.upper # Unknown /\ Q.upper <= rows'[i].age
    <2> SUFFICES ASSUME NEW i \in DOMAIN rows', MissRow(i, r)'
                 PROVE  Q.upper # Unknown /\ Q.upper <= rows'[i].age
      OBVIOUS
    <2>1. CASE i = n
      BY <1>3, <1>4, <1>7, <1>8, <1>9, <1>17, <2>1 DEF Lesser, Unknown
    <2>2. CASE i \in DOMAIN rows
      <3>1. /\ rows[i].age \in Nat /\ P.upper # Unknown /\ P.upper <= rows[i].age
            /\ rows'[i] = rows[i]
        BY <1>4, <1>6, <1>9, <2>2 DEF MissRow
      <3> QED
        BY <1>7, <1>8, <1>17, <3>1 DEF Lesser, Unknown
    <2> QED
      BY <1>4, <2>1, <2>2
  <1>19. Q.upper # Unknown =>
            \E i \in DOMAIN rows' : MissRow(i, r)' /\ rows'[i].age = Q.upper
    <2>1. CASE Q.upper = P.upper
      BY <1>4, <1>6, <1>9, <2>1
    <2>2. CASE Q.upper # P.upper
      BY <1>3, <1>4, <1>9, <1>17, <2>2 DEF Lesser
    <2> QED
      BY <2>1, <2>2
  <1> QED
    BY <1>12, <1>13, <1>15, <1>16, <1>18, <1>19 DEF F

\* The verified rows and the profile agree in every reachable state.
LEMMA ExtremeInvariant == Spec => [](Sound /\ Extreme)
  <1>1. ASSUME Init
        PROVE  Extreme
    <2>1. rows = <<>> /\ DOMAIN rows = {}
      BY <1>1 DEF Init
    <2>2. \A r \in AllRoutes : LearnedRows(r) = {}
      BY <2>1 DEF LearnedRows, Observations
    <2>3. \A r \in AllRoutes : Evidence(LearnedRows(r)) = {}
      BY <2>2 DEF Evidence
    <2>4. \A r \in AllRoutes : /\ profile[r].lower = Unknown /\ profile[r].upper = Unknown
                               /\ profile[r].samples = 0
      BY <1>1 DEF Init, NewProfile
    <2> QED
      BY <2>1, <2>3, <2>4, FS_EmptySet DEF Extreme, Aged
  <1>2. ASSUME Sound, Extreme, [Next]_vars
        PROVE  Extreme'
    <2>1. CASE rows' = rows /\ profile' = profile
      <3>1. \A r \in AllRoutes : LearnedRows(r)' = LearnedRows(r)
        BY <2>1 DEF LearnedRows, Observations
      <3>2. \A r \in AllRoutes, i \in DOMAIN rows :
               /\ UsedRow(i, r)' <=> UsedRow(i, r)
               /\ HitRow(i, r)' <=> HitRow(i, r)
               /\ MissRow(i, r)' <=> MissRow(i, r)
        BY <2>1 DEF UsedRow, HitRow, MissRow
      <3> QED
        BY <1>2, <2>1, <3>1, <3>2 DEF Extreme, Aged
    <2>2. CASE RecordStep
      BY <1>2, <2>2, RecordExtreme DEF RecordStep
    <2> QED
      BY <1>2, <2>1, <2>2, StepCases DEF Send, Advance, DropStep, Dropped, vars
  <1>3. Init => Extreme
    BY <1>1
  <1>4. Sound /\ Extreme /\ [Next]_vars => Extreme'
    BY <1>2
  <1> QED
    BY <1>3, <1>4, SoundInvariant, PTL DEF Spec

\* Max and Min of a set of integers that has a greatest or a least element.
LEMMA MaxIs ==
    ASSUME NEW S \in SUBSET Int, NEW x \in S, \A y \in S : y <= x
    PROVE  Max(S) = x
  <1>1. Max(S) \in S /\ \A y \in S : Max(S) >= y
    BY DEF Max
  <1>2. Max(S) >= x /\ Max(S) <= x /\ Max(S) \in Int /\ x \in Int
    BY <1>1
  <1> QED
    BY <1>2

\* An element below all the others is Min.
LEMMA MinIs ==
    ASSUME NEW S \in SUBSET Int, NEW x \in S, \A y \in S : x <= y
    PROVE  Min(S) = x
  <1>1. Min(S) \in S /\ \A y \in S : Min(S) =< y
    BY DEF Min
  <1>2. Min(S) >= x /\ Min(S) <= x /\ Min(S) \in Int /\ x \in Int
    BY <1>1
  <1> QED
    BY <1>2

\* The profile of a route, refined one observation at a time, is what the rows it
\* was refined with say when they are read back: the number of verified ones, the
\* latest age a cache was seen alive and the earliest age one was seen dead.  A row
\* whose profile update was lost (ttl.py commits the row first) changes nothing.
THEOREM ProfileIsEvidence == Spec => []ProfileMatchesRows
  <1>1. ASSUME Sound, Extreme
        PROVE  ProfileMatchesRows
    <2> SUFFICES ASSUME NEW r \in AllRoutes
                 PROVE  LET O == LearnedRows(r)
                            P == profile[r]
                            alive == {o.age : o \in Evidence(O) \ Deaths(O)}
                        IN  /\ P.samples = Cardinality(Evidence(O))
                            /\ P.lower = (IF alive = {} THEN Unknown ELSE Max(alive))
                            /\ P.upper = (IF DeathAges(O) = {} THEN Unknown
                                          ELSE Min(DeathAges(O)))
      BY DEF ProfileMatchesRows
    <2> DEFINE O == LearnedRows(r)
               P == profile[r]
               alive == {o.age : o \in Evidence(O) \ Deaths(O)}
               dead == DeathAges(O)
    <2>1. /\ P.samples = Cardinality(Evidence(O))
          /\ \A i \in DOMAIN rows : UsedRow(i, r) => rows[i].age \in Nat
          /\ \A i \in DOMAIN rows : HitRow(i, r) => rows[i].age <= P.lower
          /\ P.lower # Unknown => \E i \in DOMAIN rows : HitRow(i, r) /\ rows[i].age = P.lower
          /\ \A i \in DOMAIN rows : MissRow(i, r) => P.upper # Unknown /\ P.upper <= rows[i].age
          /\ P.upper # Unknown => \E i \in DOMAIN rows : MissRow(i, r) /\ rows[i].age = P.upper
      BY <1>1 DEF Extreme
    <2>2. P.lower \in Int /\ P.lower >= -1 /\ P.upper \in Int /\ P.upper >= -1
      <3>1. P \in Profile
        BY <1>1 DEF Sound, Typed, TypeOK
      <3>2. \A R \in Profile : /\ R.lower \in Int /\ R.upper \in Int
                               /\ R.lower >= -1 /\ R.upper >= -1
        BY DEF Profile, Unknown
      <3> QED
        BY <3>1, <3>2
    <2>3. /\ \A a : a \in alive <=> \E i \in DOMAIN rows : HitRow(i, r) /\ rows[i].age = a
          /\ \A a : a \in dead <=> \E i \in DOMAIN rows : MissRow(i, r) /\ rows[i].age = a
      <3>1. O = {[id |-> i, age |-> rows[i].age, outcome |-> rows[i].outcome] :
                   i \in {j \in DOMAIN rows : UsedRow(j, r)}}
        BY DEF LearnedRows, Observations, UsedRow
      <3>2. \A o : o \in Evidence(O) \ Deaths(O) <=>
                \E i \in DOMAIN rows :
                   /\ HitRow(i, r)
                   /\ o = [id |-> i, age |-> rows[i].age, outcome |-> rows[i].outcome]
        BY <3>1 DEF Evidence, Deaths, HitRow
      <3>3. \A o : o \in Deaths(O) <=>
                \E i \in DOMAIN rows :
                   /\ MissRow(i, r)
                   /\ o = [id |-> i, age |-> rows[i].age, outcome |-> rows[i].outcome]
        BY <3>1 DEF Deaths, MissRow
      <3>5. ASSUME NEW a
            PROVE  a \in alive <=> \E i \in DOMAIN rows : HitRow(i, r) /\ rows[i].age = a
        <4>1. a \in alive <=> \E o \in Evidence(O) \ Deaths(O) : o.age = a
          OBVIOUS
        <4> HIDE DEF O, alive
        <4>2. ASSUME NEW o \in Evidence(O) \ Deaths(O)
              PROVE  \E i \in DOMAIN rows : HitRow(i, r) /\ rows[i].age = o.age
          BY <3>2
        <4>3. ASSUME NEW i \in DOMAIN rows, HitRow(i, r)
              PROVE  \E o \in Evidence(O) \ Deaths(O) : o.age = rows[i].age
          <5> DEFINE o == [id |-> i, age |-> rows[i].age, outcome |-> rows[i].outcome]
          <5>1. o \in Evidence(O) \ Deaths(O)
            BY <3>2, <4>3
          <5>2. o.age = rows[i].age
            OBVIOUS
          <5> HIDE DEF o
          <5> QED
            BY <5>1, <5>2
        <4> QED
          BY <4>1, <4>2, <4>3
      <3>6. ASSUME NEW a
            PROVE  a \in dead <=> \E i \in DOMAIN rows : MissRow(i, r) /\ rows[i].age = a
        <4>1. a \in dead <=> \E o \in Deaths(O) : o.age = a
          BY DEF DeathAges
        <4> HIDE DEF O, dead
        <4>2. ASSUME NEW o \in Deaths(O)
              PROVE  \E i \in DOMAIN rows : MissRow(i, r) /\ rows[i].age = o.age
          BY <3>3
        <4>3. ASSUME NEW i \in DOMAIN rows, MissRow(i, r)
              PROVE  \E o \in Deaths(O) : o.age = rows[i].age
          <5> DEFINE o == [id |-> i, age |-> rows[i].age, outcome |-> rows[i].outcome]
          <5>1. o \in Deaths(O)
            BY <3>3, <4>3
          <5>2. o.age = rows[i].age
            OBVIOUS
          <5> HIDE DEF o
          <5> QED
            BY <5>1, <5>2
        <4> QED
          BY <4>1, <4>2, <4>3
      <3> QED
        BY <3>5, <3>6
    <2> HIDE DEF O, alive, dead, P
    <2>5. alive \in SUBSET Nat /\ dead \in SUBSET Nat
      BY <2>1, <2>3 DEF HitRow, MissRow
    <2>6. P.lower = (IF alive = {} THEN Unknown ELSE Max(alive))
      <3>1. CASE P.lower = Unknown
        <4>1. alive = {}
          BY <2>1, <2>3, <2>5, <3>1 DEF Unknown
        <4> QED
          BY <3>1, <4>1
      <3>2. CASE P.lower # Unknown
        <4>1. P.lower \in alive /\ \A a \in alive : a <= P.lower
          BY <2>1, <2>3, <3>2
        <4>2. alive \in SUBSET Int
          BY <2>5
        <4>3. Max(alive) = P.lower
          BY <4>1, <4>2, MaxIs
        <4> QED
          BY <4>1, <4>3
      <3> QED
        BY <3>1, <3>2
    <2>7. P.upper = (IF dead = {} THEN Unknown ELSE Min(dead))
      <3>1. CASE P.upper = Unknown
        BY <2>1, <2>3, <3>1
      <3>2. CASE P.upper # Unknown
        <4>1. P.upper \in dead /\ \A a \in dead : P.upper <= a
          BY <2>1, <2>3, <3>2
        <4>2. dead \in SUBSET Int
          BY <2>5
        <4>3. Min(dead) = P.upper
          BY <4>1, <4>2, MinIs
        <4> QED
          BY <4>1, <4>3
      <3> QED
        BY <3>1, <3>2
    <2> QED
      BY <2>1, <2>6, <2>7 DEF O, alive, dead, P
  <1>2. Sound /\ Extreme => ProfileMatchesRows
    BY <1>1
  <1> QED
    BY <1>2, ExtremeInvariant, PTL

\* The clean rows of a route are finitely many, and the rows its profile was refined
\* with are some of them.
LEMMA CleanFacts ==
    ASSUME Sound, Extreme, NEW r \in AllRoutes
    PROVE  /\ IsFiniteSet(Evidence(CleanRows(r)))
           /\ LearnedRows(r) \subseteq CleanRows(r)
           /\ DeathAges(CleanRows(r)) \in SUBSET Nat
           /\ Cardinality(Evidence(LearnedRows(r))) \in Nat
           /\ Cardinality(Evidence(CleanRows(r))) \in Nat
           /\ Cardinality(Evidence(LearnedRows(r))) <= Cardinality(Evidence(CleanRows(r)))
  <1> DEFINE C == {i \in DOMAIN rows : rows[i].clean /\ rows[i].fp.route = r}
  <1>1. IsFiniteSet(C)
    <2>1. Len(rows) \in Nat /\ DOMAIN rows = 1..Len(rows)
      BY TableFacts DEF Sound
    <2>2. IsFiniteSet(1..Len(rows))
      BY <2>1, FS_Interval
    <2>3. C \subseteq 1..Len(rows)
      BY <2>1
    <2> QED
      BY <2>2, <2>3, FS_Subset
  <1>2. CleanRows(r) = {[id |-> i, age |-> rows[i].age, outcome |-> rows[i].outcome] : i \in C}
    BY DEF CleanRows, Observations
  <1>3. \A o \in CleanRows(r) : \E i \in C : o.age = rows[i].age /\ o = [id |-> i,
                                    age |-> rows[i].age, outcome |-> rows[i].outcome]
    BY <1>2
  <1>4. IsFiniteSet(CleanRows(r))
    <2> DEFINE T == CleanRows(r)
               g == [i \in C |-> [id |-> i, age |-> rows[i].age, outcome |-> rows[i].outcome]]
    <2>1. g \in [C -> T]
      BY <1>2
    <2>2. \A o \in T : \E i \in C : g[i] = o
      BY <1>3
    <2>3. g \in Surjection(C, T)
      <3> HIDE DEF g, C, T
      <3> QED
        BY <2>1, <2>2 DEF Surjection
    <2> HIDE DEF g, C, T
    <2>4. IsFiniteSet(T)
      BY <1>1, <2>3, FS_Surjection
    <2> QED
      BY <2>4 DEF T
  <1>5. IsFiniteSet(Evidence(CleanRows(r)))
    <2>1. Evidence(CleanRows(r)) \subseteq CleanRows(r)
      BY DEF Evidence
    <2> QED
      BY <1>4, <2>1, FS_Subset
  <1>6. LearnedRows(r) \subseteq CleanRows(r)
    BY DEF LearnedRows, CleanRows, Observations
  <1>7. DeathAges(CleanRows(r)) \in SUBSET Nat
    <2>1. \A i \in C : rows[i].age \in Nat
      BY DEF Extreme, Aged
    <2>2. \A o \in CleanRows(r) : o.age \in Nat
      BY <1>3, <2>1
    <2> QED
      BY <2>2 DEF DeathAges, Deaths
  <1>8. Evidence(LearnedRows(r)) \subseteq Evidence(CleanRows(r))
    BY <1>6 DEF Evidence
  <1>9. /\ IsFiniteSet(Evidence(LearnedRows(r)))
        /\ Cardinality(Evidence(LearnedRows(r))) <= Cardinality(Evidence(CleanRows(r)))
    BY <1>5, <1>8, FS_Subset
  <1> QED
    BY <1>5, <1>6, <1>7, <1>9, FS_CardinalityType

\* A TTL the resolver takes from what was learned (TTLResolver.resolve) rests on at
\* least minimum_samples verified clean rows of that very route, and lies between
\* the bounds they set when these do not contradict each other.
THEOREM LearnedRestsOnRows == Spec => []LearnedHasEvidence
  <1>1. ASSUME Sound, Extreme
        PROVE  LearnedHasEvidence
    <2> SUFFICES ASSUME NEW r \in AllRoutes, Resolve(profile[r]).source = "learned"
                 PROVE  /\ Cardinality(Evidence(CleanRows(r))) >= MinimumSamples
                        /\ profile[r].upper # Unknown /\ profile[r].lower <= profile[r].upper
                             => /\ 100 * profile[r].lower <= Resolve(profile[r]).ttl
                                /\ Resolve(profile[r]).ttl <= 100 * profile[r].upper
      BY DEF LearnedHasEvidence
    <2> DEFINE P == profile[r]
    <2>1. P.lower \in Int /\ P.lower >= -1 /\ P.upper \in Int /\ P.upper >= -1
      <3>1. P \in Profile
        BY <1>1 DEF Sound, Typed, TypeOK
      <3>2. \A R \in Profile : /\ R.lower \in Int /\ R.upper \in Int
                               /\ R.lower >= -1 /\ R.upper >= -1
        BY DEF Profile, Unknown
      <3> QED
        BY <3>1, <3>2
    <2>2. P.samples = Cardinality(Evidence(LearnedRows(r)))
      BY <1>1 DEF Extreme
    <2>3. Resolve(P).ttl = Estimate(P) /\ P.samples >= MinimumSamples
      BY DEF Resolve
    <2>5. Cardinality(Evidence(CleanRows(r))) >= MinimumSamples
      BY <1>1, <2>2, <2>3, CleanFacts, ProfilesAssumption
    <2>4. ASSUME P.upper # Unknown, P.lower <= P.upper
          PROVE  100 * P.lower <= Estimate(P) /\ Estimate(P) <= 100 * P.upper
      <3> DEFINE lower == Max({0, P.lower})
      <3>1. \E y \in {0, P.lower} : \A z \in {0, P.lower} : y >= z
        BY <2>1
      <3>2. lower \in {0, P.lower} /\ \A z \in {0, P.lower} : lower >= z
        BY <3>1 DEF Max
      <3>3. Estimate(P) = 100 * lower + 35 * (P.upper - lower)
        BY <2>4 DEF Estimate
      <3> HIDE DEF lower
      <3>4. lower \in Int /\ lower >= P.lower /\ lower <= P.upper
        BY <2>1, <2>4, <3>2 DEF Unknown
      <3> HIDE DEF P
      <3> QED
        BY <2>1, <3>3, <3>4
    <2> QED
      BY <2>3, <2>4, <2>5
  <1>2. Sound /\ Extreme => LearnedHasEvidence
    BY <1>1
  <1> QED
    BY <1>2, ExtremeInvariant, PTL

-----------------------------------------------------------------------------
(* The survival curve *)

\* A function on the naturals may be defined by what it is at each number in terms
\* of the number before it.
LEMMA NatRecursion ==
    ASSUME NEW T, NEW b \in T, NEW G \in [Nat -> [T -> T]]
    PROVE  \E f \in [Nat -> T] : \A n \in Nat : f[n] = G[n][IF n = 0 THEN b ELSE f[n - 1]]
  <1> DEFINE Obeys(g, n) == \A m \in 0..n : g[m] = G[m][IF m = 0 THEN b ELSE g[m - 1]]
             Start(n) == \E g \in [Nat -> T] : Obeys(g, n)
             Bad == {n \in Nat : ~Start(n)}
  <1>1. \A n \in Nat, x \in T : G[n][x] \in T
    OBVIOUS
  <1>2. Start(0)
    <2> DEFINE g == [m \in Nat |-> G[0][b]]
    <2>1. 0 \in Nat
      OBVIOUS
    <2>2. g \in [Nat -> T]
      BY <1>1, <2>1
    <2>3. Obeys(g, 0)
      <3>1. \A m \in 0..0 : m = 0
        OBVIOUS
      <3> QED
        BY <2>1, <3>1
    <2> HIDE DEF g, Obeys
    <2> QED
      BY <2>2, <2>3
  <1>3. ASSUME NEW n \in Nat, Start(n)
        PROVE  Start(n + 1)
    <2>1. PICK g \in [Nat -> T] : Obeys(g, n)
      BY <1>3
    <2> DEFINE h == [g EXCEPT ![n + 1] = G[n + 1][g[n]]]
    <2>2. n + 1 \in Nat /\ g[n] \in T /\ G[n + 1][g[n]] \in T
      BY <1>1
    <2>3. h \in [Nat -> T] /\ h[n + 1] = G[n + 1][g[n]] /\ \A m \in 0..n : h[m] = g[m]
      BY <2>2
    <2>4. Obeys(h, n + 1)
      <3> SUFFICES ASSUME NEW m \in 0..n + 1
                   PROVE  h[m] = G[m][IF m = 0 THEN b ELSE h[m - 1]]
        OBVIOUS
      <3> HIDE DEF h
      <3>1. CASE m = n + 1
        <4>1. m # 0 /\ m - 1 = n /\ n \in 0..n
          BY <3>1
        <4>2. h[m - 1] = g[n]
          BY <2>3, <4>1
        <4> QED
          BY <2>3, <3>1, <4>1, <4>2
      <3>2. CASE m # n + 1
        <4>1. m \in 0..n /\ (m # 0 => m - 1 \in 0..n)
          BY <3>2
        <4>2. h[m] = g[m] /\ (m # 0 => h[m - 1] = g[m - 1])
          BY <2>3, <4>1
        <4>3. g[m] = G[m][IF m = 0 THEN b ELSE g[m - 1]]
          BY <2>1, <4>1
        <4> QED
          BY <4>2, <4>3
      <3> QED
        BY <3>1, <3>2
    <2> HIDE DEF h, Obeys
    <2> QED
      BY <2>3, <2>4
  <1>4. \A n \in Nat : Start(n)
    <2> HIDE DEF Start
    <2> SUFFICES ASSUME Bad # {}
                 PROVE  FALSE
      OBVIOUS
    <2>1. PICK n \in Bad : \A m \in Bad : n <= m
      BY LeastNatural
    <2>2. n \in Nat /\ n # 0 /\ ~Start(n)
      BY <1>2, <2>1
    <2>3. n - 1 \in Nat /\ n - 1 \notin Bad
      BY <2>1, <2>2
    <2>4. Start(n - 1)
      BY <2>3
    <2>5. (n - 1) + 1 = n
      BY <2>2
    <2> QED
      BY <1>3, <2>2, <2>3, <2>4, <2>5
  <1>5. ASSUME NEW g, NEW h, NEW n \in Nat, NEW k \in Nat, Obeys(g, n), Obeys(h, k)
        PROVE  \A m \in 0..n : m \in 0..k => g[m] = h[m]
    <2> DEFINE Differ == {m \in Nat : m <= n /\ m <= k /\ g[m] # h[m]}
    <2> SUFFICES ASSUME Differ # {}
                 PROVE  FALSE
      OBVIOUS
    <2>1. PICK m \in Differ : \A i \in Differ : m <= i
      BY LeastNatural
    <2>2. m \in Nat /\ m \in 0..n /\ m \in 0..k /\ g[m] # h[m]
      BY <2>1
    <2>3. /\ g[m] = G[m][IF m = 0 THEN b ELSE g[m - 1]]
          /\ h[m] = G[m][IF m = 0 THEN b ELSE h[m - 1]]
      BY <1>5, <2>2
    <2>4. m # 0
      BY <2>2, <2>3
    <2>5. m - 1 \in Nat /\ m - 1 <= n /\ m - 1 <= k /\ ~(m <= m - 1)
      BY <2>2, <2>4
    <2>6. g[m - 1] = h[m - 1]
      BY <2>1, <2>5
    <2> QED
      BY <2>2, <2>3, <2>4, <2>6
  <1> DEFINE part(n) == CHOOSE g \in [Nat -> T] : Obeys(g, n)
             f == [n \in Nat |-> part(n)[n]]
  <1>6. \A n \in Nat : part(n) \in [Nat -> T] /\ Obeys(part(n), n)
    <2> HIDE DEF Obeys
    <2> QED
      BY <1>4
  <1> HIDE DEF part
  <1>7. f \in [Nat -> T]
    BY <1>6
  <1>8. ASSUME NEW n \in Nat
        PROVE  f[n] = G[n][IF n = 0 THEN b ELSE f[n - 1]]
    <2>1. f[n] = part(n)[n] /\ n \in 0..n
      OBVIOUS
    <2>2. part(n)[n] = G[n][IF n = 0 THEN b ELSE part(n)[n - 1]]
      BY <1>6, <2>1
    <2>3. ASSUME n # 0
          PROVE  f[n - 1] = part(n)[n - 1]
      <3>1. n - 1 \in Nat /\ n - 1 \in 0..n /\ n - 1 \in 0..n - 1
        BY <2>3
      <3>2. f[n - 1] = part(n - 1)[n - 1]
        BY <3>1
      <3> HIDE DEF Obeys, f
      <3>3. Obeys(part(n - 1), n - 1) /\ Obeys(part(n), n)
        BY <1>6, <3>1
      <3>4. part(n - 1)[n - 1] = part(n)[n - 1]
        BY <1>5, <3>1, <3>3
      <3> QED
        BY <3>2, <3>4
    <2> HIDE DEF f
    <2> QED
      BY <2>1, <2>2, <2>3
  <1> QED
    BY <1>7, <1>8

\* One step of the product: e of the n at risk die.
LEMMA ProductStep ==
    ASSUME NEW p \in Nat, NEW q \in Nat, NEW n \in Nat, NEW e \in Nat,
           p <= q, q > 0, e > 0, e <= n
    PROVE  /\ p * (n - e) \in Nat /\ q * n \in Nat
           /\ p * (n - e) < q * n
           /\ (p * (n - e)) * q <= p * (q * n)
  <1> DEFINE k == n - e
  <1>1. k \in Nat /\ n = k + e /\ n > 0 /\ k < n
    OBVIOUS
  <1> HIDE DEF k
  <1>2. p * k \in Nat /\ q * n \in Nat /\ q * k \in Nat /\ q * e \in Nat /\ p * q \in Nat
    BY <1>1
  <1>3. p * k <= q * k
    BY <1>1
  <1>4. q * n = q * k + q * e
    BY <1>1
  <1>5. q * e > 0
    OBVIOUS
  <1>6. p * k < q * n
    BY <1>2, <1>3, <1>4, <1>5
  <1>7. (p * k) * q <= p * (q * n)
    <2>1. (p * k) * q = (p * q) * k /\ p * (q * n) = (p * q) * n
      BY <1>1
    <2>2. (p * q) * n = (p * q) * k + (p * q) * e
      BY <1>1, <1>2
    <2>3. (p * q) * e \in Nat /\ (p * q) * k \in Nat
      BY <1>1, <1>2
    <2> QED
      BY <2>1, <2>2, <2>3
  <1> QED
    BY <1>2, <1>6, <1>7 DEF k

Before(O, t) == IF t = 0 THEN [num |-> 1, den |-> 1] ELSE Survival(O, t - 1)

\* At an age at which caches died, the dead are some of those at risk.
LEMMA DeadAtRisk ==
    ASSUME NEW O, IsFiniteSet(Evidence(O)), NEW a \in Nat
    PROVE  /\ AtRisk(O, a) \in Nat /\ Events(O, a) \in Nat
           /\ a \in DeathAges(O) => Events(O, a) > 0 /\ Events(O, a) <= AtRisk(O, a)
  <1> DEFINE R == {o \in Evidence(O) : o.age >= a}
             D == {o \in Deaths(O) : o.age = a}
  <1>1. IsFiniteSet(R) /\ Cardinality(R) \in Nat
    BY FS_Subset, FS_CardinalityType
  <1>2. D \subseteq R
    <2>1. Deaths(O) \subseteq Evidence(O)
      BY DEF Deaths, Evidence
    <2>2. a >= a
      OBVIOUS
    <2> QED
      BY <2>1, <2>2
  <1>3. IsFiniteSet(D) /\ Cardinality(D) \in Nat /\ Cardinality(D) <= Cardinality(R)
    BY <1>1, <1>2, FS_Subset, FS_CardinalityType
  <1>4. ASSUME a \in DeathAges(O)
        PROVE  Cardinality(D) > 0
    <2>1. D # {}
      BY <1>4 DEF DeathAges
    <2>2. Cardinality(D) # 0
      BY <1>3, <2>1, FS_EmptySet
    <2> QED
      BY <1>3, <2>2
  <1> QED
    BY <1>1, <1>3, <1>4 DEF AtRisk, Events

\* The curve obeys its definition: it changes at the ages of a death only.
LEMMA SurvivalStep ==
    ASSUME NEW O, IsFiniteSet(Evidence(O)), NEW t \in Nat
    PROVE  Survival(O, t) =
             IF t \notin DeathAges(O) THEN Before(O, t)
             ELSE [num |-> Before(O, t).num * (AtRisk(O, t) - Events(O, t)),
                   den |-> Before(O, t).den * AtRisk(O, t)]
  <1> DEFINE T == [num: Int, den: Int]
             b == [num |-> 1, den |-> 1]
             next(a, x) == IF a \notin DeathAges(O) THEN x
                           ELSE [num |-> x.num * (AtRisk(O, a) - Events(O, a)),
                                 den |-> x.den * AtRisk(O, a)]
             G == [a \in Nat |-> [x \in T |-> next(a, x)]]
             Rec(f) == [a \in Nat |->
                LET before == IF a = 0 THEN [num |-> 1, den |-> 1] ELSE f[a - 1]
                IN  IF a \notin DeathAges(O) THEN before
                    ELSE [num |-> before.num * (AtRisk(O, a) - Events(O, a)),
                          den |-> before.den * AtRisk(O, a)]]
             curve == CHOOSE f : f = Rec(f)
  <1>1. b \in T
    OBVIOUS
  <1>2. \A a \in Nat, x \in T : next(a, x) \in T
    <2> SUFFICES ASSUME NEW a \in Nat, NEW x \in T
                 PROVE  next(a, x) \in T
      OBVIOUS
    <2>1. AtRisk(O, a) \in Int /\ Events(O, a) \in Int /\ x.num \in Int /\ x.den \in Int
      BY DeadAtRisk
    <2> QED
      BY <2>1
  <1>3. G \in [Nat -> [T -> T]]
    <2> HIDE DEF next, T
    <2> QED
      BY <1>2
  <1>4. PICK f \in [Nat -> T] : \A n \in Nat : f[n] = G[n][IF n = 0 THEN b ELSE f[n - 1]]
    <2> HIDE DEF T, b, G
    <2> QED
      BY <1>1, <1>3, NatRecursion
  <1>5. \A a \in Nat : (IF a = 0 THEN b ELSE f[a - 1]) \in T
    <2> HIDE DEF T, b
    <2>1. \A a \in Nat : a # 0 => a - 1 \in Nat
      OBVIOUS
    <2> QED
      BY <1>1, <2>1
  <1>6. \A n \in Nat : f[n] = next(n, IF n = 0 THEN b ELSE f[n - 1])
    <2> HIDE DEF T, b, next
    <2> QED
      BY <1>4, <1>5
  <1>7. f = Rec(f)
    <2>1. \A n \in Nat : f[n] = Rec(f)[n]
      BY <1>6, Zenon
    <2> HIDE DEF T
    <2> QED
      BY <2>1
  <1>8. curve = Rec(curve)
    <2> HIDE DEF Rec
    <2> QED
      BY <1>7
  <1>9. \A n : Survival(O, n) = curve[n]
    BY Zenon DEF Survival
  <1> HIDE DEF curve
  <1>10. curve[t] = next(t, IF t = 0 THEN b ELSE curve[t - 1])
    <2>1. curve[t] = Rec(curve)[t]
      BY <1>8
    <2> QED
      BY <2>1, Zenon
  <1>11. Before(O, t) = IF t = 0 THEN b ELSE curve[t - 1]
    BY <1>9, Zenon DEF Before
  <1> QED
    BY <1>9, <1>10, <1>11, Zenon

\* A share of the caches, all of them exactly as long as none was seen to die.
IsShare(O, c, t) ==
    /\ c.num \in Nat /\ c.den \in Nat /\ c.den > 0 /\ c.num <= c.den
    /\ (c.num = c.den) <=> \A a \in DeathAges(O) : a > t

\* The curve never rises and falls at every age of a death.
LEMMA SurvivalFacts ==
    ASSUME NEW O, IsFiniteSet(Evidence(O)), DeathAges(O) \subseteq Nat
    PROVE  \A t \in Nat :
              /\ IsShare(O, Survival(O, t), t)
              /\ Survival(O, t + 1).num * Survival(O, t).den
                    <= Survival(O, t).num * Survival(O, t + 1).den
  <1>1. ASSUME NEW t \in Nat, IsShare(O, Before(O, t), t - 1)
        PROVE  /\ IsShare(O, Survival(O, t), t)
               /\ Survival(O, t).num * Before(O, t).den
                     <= Before(O, t).num * Survival(O, t).den
    <2> DEFINE p == Before(O, t).num
               q == Before(O, t).den
               n == AtRisk(O, t)
               e == Events(O, t)
               c == Survival(O, t)
    <2>1. /\ p \in Nat /\ q \in Nat /\ q > 0 /\ p <= q
          /\ (p = q) <=> \A a \in DeathAges(O) : a > t - 1
      BY <1>1 DEF IsShare
    <2>2. /\ n \in Nat /\ e \in Nat
          /\ t \in DeathAges(O) => e > 0 /\ e <= n
      BY DeadAtRisk
    <2>3. CASE t \in DeathAges(O)
      <3>1. c = [num |-> p * (n - e), den |-> q * n]
        BY <2>3, SurvivalStep
      <3>2. c.num = p * (n - e) /\ c.den = q * n
        BY <3>1
      <3> HIDE DEF p, q, n, e, c
      <3>3. /\ p * (n - e) \in Nat /\ q * n \in Nat
            /\ p * (n - e) < q * n
            /\ (p * (n - e)) * q <= p * (q * n)
        BY <2>1, <2>2, <2>3, ProductStep
      <3>4. c.num \in Nat /\ c.den \in Nat /\ c.num < c.den /\ c.num * q <= p * c.den
        BY <3>2, <3>3
      <3>5. c.den > 0 /\ c.num <= c.den /\ c.num # c.den
        BY <3>4
      <3>6. ~(t > t)
        OBVIOUS
      <3>7. IsShare(O, c, t)
        BY <2>3, <3>4, <3>5, <3>6 DEF IsShare
      <3> QED
        BY <3>4, <3>7 DEF p, q, c
    <2>4. CASE t \notin DeathAges(O)
      <3>1. c = Before(O, t)
        BY <2>4, SurvivalStep
      <3>2. \A a \in DeathAges(O) : a > t <=> a > t - 1
        BY <2>4
      <3>3. IsShare(O, c, t)
        BY <1>1, <3>1, <3>2 DEF IsShare
      <3>4. c.num * q <= p * c.den
        <4>1. c.num = p /\ c.den = q
          BY <3>1
        <4> HIDE DEF p, q, c
        <4>2. p * q \in Nat
          BY <2>1
        <4> QED
          BY <4>1, <4>2
      <3> QED
        BY <3>3, <3>4
    <2> QED
      BY <2>3, <2>4
  <1> DEFINE Bad == {t \in Nat : ~IsShare(O, Before(O, t), t - 1)}
  <1>2. IsShare(O, Before(O, 0), 0 - 1)
    <2>1. Before(O, 0) = [num |-> 1, den |-> 1]
      BY DEF Before
    <2>2. Before(O, 0).num = 1 /\ Before(O, 0).den = 1
      BY <2>1
    <2>3. \A a \in DeathAges(O) : a > 0 - 1
      OBVIOUS
    <2> QED
      BY <2>2, <2>3 DEF IsShare
  <1>3. \A t \in Nat : Before(O, t + 1) = Survival(O, t) /\ (t + 1) - 1 = t
    BY DEF Before
  <1>4. Bad = {}
    <2> SUFFICES ASSUME Bad # {}
                 PROVE  FALSE
      OBVIOUS
    <2>1. PICK t \in Bad : \A m \in Bad : t <= m
      BY LeastNatural
    <2>2. t \in Nat /\ t # 0
      BY <1>2, <2>1
    <2>3. t - 1 \in Nat /\ t - 1 \notin Bad /\ (t - 1) + 1 = t
      BY <2>1, <2>2
    <2>4. IsShare(O, Before(O, t - 1), (t - 1) - 1)
      BY <2>3
    <2>5. IsShare(O, Survival(O, t - 1), t - 1)
      BY <1>1, <2>3, <2>4
    <2> QED
      BY <1>3, <2>1, <2>3, <2>5
  <1>5. \A t \in Nat : IsShare(O, Before(O, t), t - 1)
    BY <1>4
  <1> SUFFICES ASSUME NEW t \in Nat
               PROVE  /\ IsShare(O, Survival(O, t), t)
                      /\ Survival(O, t + 1).num * Survival(O, t).den
                            <= Survival(O, t).num * Survival(O, t + 1).den
    OBVIOUS
  <1>6. IsShare(O, Survival(O, t), t)
    BY <1>1, <1>5
  <1>7. t + 1 \in Nat
    OBVIOUS
  <1>8. Survival(O, t + 1).num * Before(O, t + 1).den
            <= Before(O, t + 1).num * Survival(O, t + 1).den
    BY <1>1, <1>5, <1>7
  <1> QED
    BY <1>3, <1>6, <1>8

\* The two things learned of a route agree in every reachable state: the profile,
\* refined one observation at a time (TTLProfile.observe), is what the rows it was
\* refined with say; the curve recomputed from all the clean rows (estimate_survival,
\* survival_at) never rises and is below one from the profile's upper bound on at the
\* latest, exactly from there on if no profile update was lost after its row.
THEOREM CurveAgrees == Spec => []CurveMatchesProfile
  <1>1. ASSUME Sound, Extreme, ProfileMatchesRows
        PROVE  CurveMatchesProfile
    <2> SUFFICES ASSUME NEW r \in AllRoutes, NEW t \in 0..Horizon(CleanRows(r))
                 PROVE  LET c == Survival(CleanRows(r), t)
                            d == Survival(CleanRows(r), t + 1)
                            upper == profile[r].upper
                        IN  /\ c.num = c.den => upper = Unknown \/ t < upper
                            /\ InStep(r) /\ (upper = Unknown \/ t < upper) => c.num = c.den
                            /\ d.num * c.den <= c.num * d.den
      BY <1>1 DEF CurveMatchesProfile
    <2> DEFINE O == CleanRows(r)
               upper == profile[r].upper
               dead == DeathAges(O)
               used == DeathAges(LearnedRows(r))
    <2>1. t \in Nat
      OBVIOUS
    <2>2. IsFiniteSet(Evidence(O)) /\ dead \in SUBSET Nat
      BY <1>1, CleanFacts
    <2>3. used \subseteq dead /\ (InStep(r) => used = dead)
      BY <1>1, CleanFacts DEF DeathAges, Deaths, InStep
    <2>4. upper = IF used = {} THEN Unknown ELSE Min(used)
      BY <1>1 DEF ProfileMatchesRows
    <2>6. /\ IsShare(O, Survival(O, t), t)
          /\ Survival(O, t + 1).num * Survival(O, t).den
                <= Survival(O, t).num * Survival(O, t + 1).den
      BY <2>1, <2>2, SurvivalFacts
    <2>7. (Survival(O, t).num = Survival(O, t).den) <=> \A a \in dead : a > t
      BY <2>6 DEF IsShare
    <2> HIDE DEF O, upper, dead, used
    <2>5. (\A a \in used : a > t) <=> (upper = Unknown \/ t < upper)
      <3>1. CASE used = {}
        BY <2>4, <3>1
      <3>2. CASE used # {}
        <4>0. used \in SUBSET Nat
          BY <2>2, <2>3
        <4>1. PICK x \in used : \A y \in used : x <= y
          BY <3>2, <4>0, LeastNatural
        <4>2. used \in SUBSET Int
          BY <4>0
        <4>3. upper = x /\ x \in Nat
          BY <2>4, <3>2, <4>0, <4>1, <4>2, MinIs
        <4> QED
          BY <2>1, <4>0, <4>1, <4>3 DEF Unknown
      <3> QED
        BY <3>1, <3>2
    <2>8. Survival(O, t).num = Survival(O, t).den => upper = Unknown \/ t < upper
      BY <2>3, <2>5, <2>7
    <2>9. InStep(r) /\ (upper = Unknown \/ t < upper)
             => Survival(O, t).num = Survival(O, t).den
      BY <2>3, <2>5, <2>7
    <2> QED
      BY <2>6, <2>8, <2>9 DEF O, upper
  <1>2. Sound /\ Extreme /\ ProfileMatchesRows => CurveMatchesProfile
    BY <1>1
  <1> QED
    BY <1>2, ExtremeInvariant, ProfileIsEvidence, PTL

=============================================================================
