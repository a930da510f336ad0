--------------------------- MODULE SpendingProofs ---------------------------
(***************************************************************************)
(* What warming costs, proved for every value of LeaseRelay's constants    *)
(* and every client, overlapping or not: the stored rows show the spending *)
(* as far as they could be written (WarmCostStored), and the economic gate *)
(* bounds it (WithinBudget).                                               *)
(***************************************************************************)
EXTENDS LeaseRelayProofs

-----------------------------------------------------------------------------
(* The rows show the spending *)

\* k warms cost at most Lag(k).
Lag(k) == DearestWarm * k

\* The warms the row of l may lag by: one for each failed write since it was last
\* written, and one if the tick under way warmed l and has not come to its writes.
Behind(l) == stored[l].missed + (IF l \in sched.dirty THEN 1 ELSE 0)

\* The leases a tick will persist are those it has dealt with, so one it warms is
\* not among them; between ticks there are none.  A lease yet to be created has
\* cost nothing, and none is created under a warm.
DirtyIsBehind ==
    /\ sched.pc \in {"tick", "warming"} => \A l \in sched.dirty : l < sched.at
    /\ sched.pc \in {"ready", "asleep"} => sched.dirty = {}
WarmIsListed == sched.pc = "warming" => sched.at <= sched.upto
FutureUnspent == \A l \in LeaseIds : l > count => lease[l].warmCost = 0
RowsLag ==
    \A l \in LeaseIds : /\ stored[l].warmCost <= lease[l].warmCost
                        /\ lease[l].warmCost <= stored[l].warmCost + Lag(Behind(l))

CostsKept == DirtyIsBehind /\ WarmIsListed /\ FutureUnspent /\ RowsLag

\* DearestWarm is a cost, and no warm costs more.
LEMMA DearestFacts ==
    /\ DearestWarm \in Nat
    /\ \A c \in WarmCosts : c <= DearestWarm
  <1>1. PICK c \in WarmCosts : \A d \in WarmCosts : d <= c
    BY BoundedAssumption
  <1>2. DearestWarm \in WarmCosts /\ \A d \in WarmCosts : d <= DearestWarm
    BY <1>1 DEF DearestWarm
  <1> QED
    BY <1>2, LeasesAssumption

\* One more warm adds its cost.
LEMMA LagFacts ==
    /\ Lag(0) = 0
    /\ \A k \in Nat : Lag(k) \in Nat /\ Lag(k + 1) = Lag(k) + DearestWarm
  <1>1. DearestWarm \in Nat
    BY DearestFacts
  <1>2. \A d, k \in Nat : d * 0 = 0 /\ d * k \in Nat /\ d * (k + 1) = d * k + d
    OBVIOUS
  <1> QED
    BY <1>1, <1>2 DEF Lag

\* Costs are numbers, on the lease and in its row.
LEMMA CostTypes ==
    ASSUME Safe, NEW l \in LeaseIds
    PROVE  /\ lease[l].warmCost \in Nat /\ stored[l].warmCost \in Nat /\ lease[l] \in Lease
           /\ stored[l] \in Rows /\ stored[l].missed \in Nat /\ Behind(l) \in Nat
  <1>1. stored[l] \in Rows /\ lease[l] \in Lease
    BY DEF Safe, TypeOK
  <1>2. lease[l].warmCost \in Nat /\ stored[l].warmCost \in Nat /\ stored[l].missed \in Nat
    BY <1>1 DEF Lease, Rows
  <1> QED
    BY <1>1, <1>2 DEF Behind

\* A row that is written shows all that was spent; one that is not keeps what it
\* shows and counts the failure.
LEMMA PersistFacts ==
    ASSUME NEW row \in Rows, NEW L, NEW saved \in BOOLEAN, NEW new,
           new = Persist(row, L, saved)
    PROVE  \/ new.warmCost = L.warmCost
           \/ new.warmCost = row.warmCost /\ new.missed = row.missed + 1
  <1>1. CASE saved
    BY <1>1 DEF Persist, Row
  <1>2. CASE ~saved
    BY <1>2 DEF Persist, Rows
  <1> QED
    BY <1>1, <1>2

\* More warms cost no less.
LEMMA LagGrows ==
    ASSUME NEW j \in Nat, NEW k \in Nat, j <= k
    PROVE  Lag(j) <= Lag(k)
  <1>1. DearestWarm \in Nat
    BY DearestFacts
  <1>2. \A d, a, b \in Nat : a <= b => d * a <= d * b
    OBVIOUS
  <1> QED
    BY <1>1, <1>2 DEF Lag

\* The types of the next state.
LEMMA SafeAgain ==
    ASSUME Safe', NEW l \in LeaseIds
    PROVE  lease'[l].warmCost \in Nat /\ stored'[l].missed \in Nat
  <1>1. stored'[l] \in Rows /\ lease'[l] \in Lease
    BY DEF Safe, TypeOK
  <1> QED
    BY <1>1 DEF Lease, Rows

\* A step that moves no spending and no row, and lets no row lag that did not.
LEMMA QuietCosts ==
    ASSUME Safe, CostsKept, stored' = stored, sched.dirty \subseteq sched'.dirty,
           DirtyIsBehind', WarmIsListed', count' = count,
           \A l \in LeaseIds : lease'[l].warmCost = lease[l].warmCost
    PROVE  CostsKept'
  <1>1. FutureUnspent'
    BY DEF CostsKept, FutureUnspent
  <1>2. ASSUME NEW l \in LeaseIds
        PROVE  /\ stored'[l].warmCost <= lease'[l].warmCost
               /\ lease'[l].warmCost <= stored'[l].warmCost + Lag(Behind(l)')
    <2>1. /\ stored[l].warmCost <= lease[l].warmCost
          /\ lease[l].warmCost <= stored[l].warmCost + Lag(Behind(l))
          /\ lease[l].warmCost \in Nat /\ stored[l].warmCost \in Nat
          /\ stored[l].missed \in Nat /\ Behind(l) \in Nat
      BY CostTypes DEF CostsKept, RowsLag
    <2>2. Behind(l)' \in Nat /\ Behind(l) <= Behind(l)'
      BY <2>1 DEF Behind
    <2>3. Lag(Behind(l)) <= Lag(Behind(l)') /\ Lag(Behind(l)) \in Nat /\ Lag(Behind(l)') \in Nat
      BY <2>1, <2>2, LagGrows, LagFacts
    <2> QED
      BY <2>1, <2>3
  <1> QED
    BY <1>1, <1>2 DEF CostsKept, RowsLag

\* A write of the row of l, good or failed, while it lags by at most k warms.
LEMMA WriteLag ==
    ASSUME NEW row \in Rows, NEW L, NEW saved \in BOOLEAN, NEW k \in Nat, NEW d \in Nat,
           L.warmCost \in Nat, row.warmCost <= L.warmCost,
           L.warmCost <= row.warmCost + Lag(k), k <= row.missed + d,
           NEW new, new = Persist(row, L, saved), new.missed \in Nat
    PROVE  /\ new.warmCost <= L.warmCost
           /\ L.warmCost <= new.warmCost + Lag(new.missed + d)
  <1>0. row.warmCost \in Nat /\ row.missed \in Nat
    BY DEF Rows
  <1>1. CASE new.warmCost = L.warmCost
    <2>1. Lag(new.missed + d) \in Nat
      BY LagFacts
    <2> QED
      BY <1>1, <2>1
  <1>2. CASE new.warmCost = row.warmCost /\ new.missed = row.missed + 1
    <2>1. new.warmCost = row.warmCost /\ new.missed + d = row.missed + 1 + d
      BY <1>2
    <2>2. Lag(k) <= Lag(new.missed + d)
      BY <1>0, <2>1, LagGrows
    <2>3. Lag(k) \in Nat /\ Lag(new.missed + d) \in Nat
      BY LagFacts
    <2> QED
      BY <1>0, <2>1, <2>2, <2>3
  <1> QED
    BY <1>1, <1>2, PersistFacts

\* A request's step: at most the row of one lease is written, nothing is spent and
\* the scheduler does not move.
LEMMA WriteRow ==
    ASSUME Safe, Safe', CostsKept, NEW l \in LeaseIds, sched' = sched, count <= count',
           \/ stored' = stored
           \/ \E saved \in BOOLEAN :
                 stored' = [stored EXCEPT ![l] = Persist(stored[l], lease'[l], saved)],
           \A k \in LeaseIds : lease'[k].warmCost = lease[k].warmCost
    PROVE  CostsKept'
  <1>1. DirtyIsBehind' /\ WarmIsListed'
    BY DEF CostsKept, DirtyIsBehind, WarmIsListed
  <1>2. FutureUnspent'
    <2>1. count \in Nat /\ count' \in Nat /\ LeaseIds \subseteq Nat
      BY DEF Safe, TypeOK, LeaseIds
    <2>2. \A k \in LeaseIds : k > count' => k > count
      BY <2>1
    <2> QED
      BY <2>2 DEF CostsKept, FutureUnspent
  <1>3. RowsLag'
    <2> SUFFICES ASSUME NEW k \in LeaseIds
                 PROVE  /\ stored'[k].warmCost <= lease'[k].warmCost
                        /\ lease'[k].warmCost <= stored'[k].warmCost + Lag(Behind(k)')
      BY DEF RowsLag
    <2>0. /\ stored[k].warmCost <= lease[k].warmCost
          /\ lease[k].warmCost <= stored[k].warmCost + Lag(Behind(k))
      BY DEF CostsKept, RowsLag
    <2>1. CASE stored'[k] = stored[k]
      BY <2>0, <2>1 DEF Behind
    <2>2. CASE stored'[k] # stored[k]
      <3>1. PICK saved \in BOOLEAN : stored'[k] = Persist(stored[k], lease'[k], saved)
        BY <2>2 DEF Safe, TypeOK
      <3> DEFINE d == IF k \in sched.dirty THEN 1 ELSE 0
      <3>2. /\ lease'[k].warmCost \in Nat /\ stored'[k].missed \in Nat
            /\ stored[k] \in Rows /\ stored[k].missed \in Nat
            /\ Behind(k) \in Nat /\ d \in Nat
        BY CostTypes, SafeAgain
      <3>3. Behind(k) = stored[k].missed + d /\ Behind(k)' = stored'[k].missed + d
        BY DEF Behind
      <3> HIDE DEF d
      <3>4. Behind(k) <= stored[k].missed + d
        BY <3>2, <3>3
      <3> QED
        BY <2>0, <3>1, <3>2, <3>3, <3>4, WriteLag
    <2> QED
      BY <2>1, <2>2
  <1> QED
    BY <1>1, <1>2, <1>3 DEF CostsKept

\* Requests write the row of their lease, or try to.
LEMMA RequestCosts ==
    ASSUME Safe, Safe', CostsKept, RequestStep
    PROVE  CostsKept'
  <1>0. count \in Nat
    BY DEF Safe, TypeOK
  <1>1. PICK r \in Requests :
              \/ \E s \in Sessions, f \in Fingerprints, l \in LeaseIds :
                    RequestBegins(r, s, f, l)
              \/ \E outcome \in Outcomes, prefix \in Prefixes \cup {0},
                    unstable \in BOOLEAN, pc \in {"ok", "failed", "streaming"} :
                    RequestEnds(r, outcome, prefix, unstable, pc)
              \/ StreamEnds(r) \/ BodyReadFails(r) \/ RequestUntracked(r)
    BY RequestEffect
  <1>2. ASSUME NEW s \in Sessions, NEW f \in Fingerprints, NEW l \in LeaseIds,
               RequestBegins(r, s, f, l)
        PROVE  CostsKept'
    <2>0. \E saved \in BOOLEAN :
             stored' = [stored EXCEPT ![l] = Persist(stored[l], lease'[l], saved)]
      BY <1>2, Zenon DEF RequestBegins
    <2>1. /\ sched' = sched /\ count <= count'
          /\ \A k \in LeaseIds \ {l} : lease'[k].warmCost = lease[k].warmCost
          /\ \/ lease'[l].warmCost = lease[l].warmCost
             \/ l = count + 1 /\ lease'[l].warmCost = 0
      BY <1>0, <1>2 DEF RequestBegins, SameBooks
    <2>2. l = count + 1 => lease[l].warmCost = 0
      BY <1>0 DEF CostsKept, FutureUnspent
    <2>3. \A k \in LeaseIds : lease'[k].warmCost = lease[k].warmCost
      BY <2>1, <2>2
    <2> QED
      BY <2>0, <2>1, <2>3, WriteRow
  <1>3. ASSUME NEW outcome, NEW prefix, NEW unstable, NEW pc,
               RequestEnds(r, outcome, prefix, unstable, pc)
        PROVE  CostsKept'
    <2>1. PICK l \in LeaseIds : l = req[r].lease
      BY <1>3 DEF RequestEnds
    <2>2. /\ sched' = sched /\ count <= count'
          /\ \/ stored' = stored
             \/ \E saved \in BOOLEAN :
                   stored' = [stored EXCEPT ![l] = Persist(stored[l], lease'[l], saved)]
          /\ \A k \in LeaseIds : lease'[k].warmCost = lease[k].warmCost
      BY <1>0, <1>3, <2>1 DEF RequestEnds
    <2> QED
      BY <2>2, WriteRow
  <1>4. ASSUME StreamEnds(r) \/ BodyReadFails(r) \/ RequestUntracked(r)
        PROVE  CostsKept'
    <2>1. /\ UNCHANGED <<count, stored, sched>>
          /\ \A k \in LeaseIds : lease'[k].warmCost = lease[k].warmCost
      BY <1>4 DEF StreamEnds, BodyReadFails, RequestUntracked, SameBooks
    <2> QED
      BY <2>1, QuietCosts DEF CostsKept, DirtyIsBehind, WarmIsListed
  <1> QED
    BY <1>1, <1>2, <1>3, <1>4

\* The result of a warm charges a lease the tick had not dealt with before.
LEMMA ReturnCosts ==
    ASSUME Safe, CostsKept, NEW res \in WarmResults, WarmReturns(res)
    PROVE  CostsKept'
  <1>1. PICK k \in LeaseIds : k = sched.at
    BY ReturnEffect
  <1>2. /\ sched.pc = "warming" /\ sched'.pc = "tick" /\ sched'.at = k + 1
        /\ sched'.dirty = sched.dirty \cup {k} /\ stored' = stored /\ count' = count
        /\ \A l \in LeaseIds \ {k} : lease'[l].warmCost = lease[l].warmCost
        /\ lease'[k].warmCost = lease[k].warmCost + res.cost
    BY <1>1, ReturnEffect DEF Untouched, SameBooks
  <1>3. k \in Nat /\ sched.dirty \subseteq LeaseIds /\ LeaseIds \subseteq Nat
    BY DEF LeaseIds, Safe, TypeOK, Scheds
  <1>4. k \notin sched.dirty /\ DirtyIsBehind' /\ WarmIsListed'
    BY <1>1, <1>2, <1>3 DEF CostsKept, DirtyIsBehind, WarmIsListed
  <1>5. FutureUnspent'
    <2>1. k <= sched.upto /\ sched.upto <= count /\ sched.upto \in Nat /\ count \in Nat
      BY <1>1, <1>2, SchedFacts DEF CostsKept, WarmIsListed, Safe, WarmHasLease, TypeOK
    <2> QED
      BY <1>2, <1>3, <2>1 DEF CostsKept, FutureUnspent
  <1>6. /\ lease[k].warmCost \in Nat /\ stored[k].warmCost \in Nat /\ stored[k].missed \in Nat
        /\ res.cost \in Nat /\ res.cost <= DearestWarm /\ DearestWarm \in Nat
    BY CostTypes, DearestFacts, LeasesAssumption DEF WarmResults
  <1>7. RowsLag'
    <2> SUFFICES ASSUME NEW l \in LeaseIds
                 PROVE  /\ stored'[l].warmCost <= lease'[l].warmCost
                        /\ lease'[l].warmCost <= stored'[l].warmCost + Lag(Behind(l)')
      BY DEF RowsLag
    <2>1. /\ stored[l].warmCost <= lease[l].warmCost
          /\ lease[l].warmCost <= stored[l].warmCost + Lag(Behind(l))
      BY DEF CostsKept, RowsLag
    <2>2. CASE l # k
      BY <1>2, <2>1, <2>2 DEF Behind
    <2>3. CASE l = k
      <3>1. Behind(k) = stored[k].missed /\ Behind(k)' = stored[k].missed + 1
        BY <1>2, <1>4, <1>6 DEF Behind
      <3>2. /\ Lag(Behind(k)') = Lag(Behind(k)) + DearestWarm /\ Lag(Behind(k)) \in Nat
        BY <1>6, <3>1, LagFacts
      <3> QED
        BY <1>2, <1>6, <2>1, <2>3, <3>2
    <2> QED
      BY <2>2, <2>3
  <1> QED
    BY <1>4, <1>5, <1>7 DEF CostsKept

\* The end of a tick: each of its rows is written or counts a failure.
LEMMA TickEndCosts ==
    ASSUME Safe, Safe', CostsKept, TickEnds
    PROVE  CostsKept'
  <1>1. PICK saved \in SUBSET LeaseIds : stored' = Persisted(saved)
    BY TickEffect DEF TickEnds, TickBegins
  <1>2. /\ sched'.pc = "asleep" /\ sched'.dirty = {} /\ lease' = lease /\ count' = count
    BY DEF TickEnds, Safe, TypeOK, Scheds
  <1>3. RowsLag'
    <2> SUFFICES ASSUME NEW l \in LeaseIds
                 PROVE  /\ stored'[l].warmCost <= lease'[l].warmCost
                        /\ lease'[l].warmCost <= stored'[l].warmCost + Lag(Behind(l)')
      BY DEF RowsLag
    <2>0. /\ stored[l].warmCost <= lease[l].warmCost
          /\ lease[l].warmCost <= stored[l].warmCost + Lag(Behind(l))
      BY DEF CostsKept, RowsLag
    <2>1. /\ lease[l].warmCost \in Nat /\ stored[l] \in Rows /\ stored[l].missed \in Nat
          /\ stored'[l].missed \in Nat /\ Behind(l) \in Nat
      BY CostTypes, SafeAgain
    <2>2. Behind(l)' = stored'[l].missed + 0
      BY <1>2, <2>1 DEF Behind
    <2>3. CASE l \in sched.dirty
      <3>1. PICK b \in BOOLEAN : stored'[l] = Persist(stored[l], lease[l], b)
        <4>1. stored'[l] = Persist(stored[l], lease[l], l \in saved) /\ (l \in saved) \in BOOLEAN
          BY <1>1, <2>3 DEF Persisted
        <4> QED
          BY <4>1
      <3>2. Behind(l) = stored[l].missed + 1
        BY <2>3 DEF Behind
      <3>3. CASE stored'[l].warmCost = lease[l].warmCost
        <4>1. Lag(Behind(l)') \in Nat
          BY <2>1, <2>2, LagFacts
        <4> QED
          BY <1>2, <2>1, <3>3, <4>1
      <3>4. CASE stored'[l].warmCost = stored[l].warmCost /\ stored'[l].missed = stored[l].missed + 1
        <4>2. Behind(l)' = Behind(l)
          BY <2>1, <2>2, <3>2, <3>4
        <4> QED
          BY <1>2, <2>0, <3>4, <4>2
      <3> QED
        BY <2>1, <3>1, <3>3, <3>4, PersistFacts
    <2>4. CASE l \notin sched.dirty
      <3>1. stored'[l] = stored[l]
        BY <1>1, <2>4 DEF Persisted
      <3>2. Behind(l)' = Behind(l)
        BY <2>1, <2>2, <2>4, <3>1 DEF Behind
      <3> QED
        BY <1>2, <2>0, <3>1, <3>2
    <2> QED
      BY <2>3, <2>4
  <1> QED
    BY <1>2, <1>3 DEF CostsKept, DirtyIsBehind, WarmIsListed, FutureUnspent

\* Every other step.
LEMMA OtherCosts ==
    ASSUME Safe, Safe', CostsKept,
           SchedulerStep \/ Advance \/ Stop \/ Stopped \/ UNCHANGED vars
    PROVE  CostsKept'
  <1>0. /\ LeaseIds \subseteq Nat /\ sched.dirty \subseteq LeaseIds /\ sched.at \in Nat
    BY DEF LeaseIds, Safe, TypeOK, Scheds
  <1>1. CASE TickBegins
    <2>1. /\ sched.pc = "ready" /\ sched'.pc = "tick" /\ sched'.dirty = {}
          /\ stored' = stored /\ lease' = lease /\ count' = count
      BY <1>1 DEF TickBegins, Safe, TypeOK, Scheds
    <2>2. DirtyIsBehind' /\ WarmIsListed' /\ sched.dirty \subseteq sched'.dirty
      BY <2>1 DEF DirtyIsBehind, CostsKept, WarmIsListed
    <2> QED
      BY <2>1, <2>2, QuietCosts
  <1>3. ASSUME NEW k \in LeaseIds, EvaluateLease(k)
        PROVE  CostsKept'
    <2>1. /\ sched.pc = "tick" /\ sched.at = k /\ stored' = stored /\ count' = count
          /\ k <= sched.upto /\ sched'.upto = sched.upto
          /\ \A l \in LeaseIds : lease'[l].warmCost = lease[l].warmCost
          /\ \/ sched'.pc = "warming" /\ sched'.at = k /\ sched'.dirty = sched.dirty
             \/ /\ sched'.pc = "tick" /\ sched'.at = k + 1
                /\ \/ sched'.dirty = sched.dirty
                   \/ sched'.dirty = sched.dirty \cup {k}
      BY <1>3, EvaluateEffect, SendEffect DEF EvaluateLease, Untouched, SameBooks
    <2>2. DirtyIsBehind' /\ WarmIsListed' /\ sched.dirty \subseteq sched'.dirty
      BY <1>0, <2>1 DEF DirtyIsBehind, CostsKept, WarmIsListed
    <2> QED
      BY <2>1, <2>2, QuietCosts
  <1>4. CASE Advance
    <2>1. /\ sched'.at = sched.at /\ sched'.dirty = sched.dirty /\ stored' = stored
          /\ sched'.upto = sched.upto /\ count' = count
          /\ \A l \in LeaseIds : lease'[l].warmCost = lease[l].warmCost
          /\ \/ sched.pc = "asleep" /\ sched'.pc = "ready"
             \/ sched.pc = "warming" /\ sched'.pc = "warming"
      BY <1>4, AdvanceEffect DEF Untouched, SameBooks
    <2> QED
      BY <2>1, QuietCosts DEF DirtyIsBehind, CostsKept, WarmIsListed
  <1>5. CASE Stop
    <2>1. /\ sched'.pc = "stopped" /\ sched'.dirty = sched.dirty /\ stored' = stored
          /\ count' = count
          /\ \A l \in LeaseIds : lease'[l].warmCost = lease[l].warmCost
      BY <1>5, StopEffect DEF Untouched, SameBooks
    <2> QED
      BY <2>1, QuietCosts DEF DirtyIsBehind, WarmIsListed
  <1>6. CASE Stopped \/ UNCHANGED vars
    <2>1. UNCHANGED <<count, lease, stored, sched>>
      BY <1>6 DEF Stopped, vars
    <2> QED
      BY <2>1, QuietCosts DEF CostsKept, DirtyIsBehind, WarmIsListed
  <1> QED
    BY <1>1, <1>3, <1>4, <1>5, <1>6, TickEndCosts DEF SchedulerStep

\* "Warm costs are visible, never hidden" (WarmCostStored), although a failing write
\* is only logged: a row never shows more than was spent, and what it does not show
\* is at most a warm for each write that failed since, and one until the tick ends.
THEOREM SpendingStored == Spec => []WarmCostStored
  <1>1. Init => CostsKept
    <2> SUFFICES ASSUME Init PROVE CostsKept
      OBVIOUS
    <2>1. \A l \in LeaseIds : /\ stored[l].warmCost = 0 /\ lease[l].warmCost = 0
                              /\ stored[l].missed = 0
      BY DEF Init, Row, EmptyLease
    <2>2. sched.dirty = {} /\ sched.pc = "ready"
      BY DEF Init
    <2>3. \A l \in LeaseIds : Behind(l) = 0
      BY <2>1, <2>2 DEF Behind
    <2> QED
      BY <2>1, <2>2, <2>3, LagFacts
         DEF CostsKept, DirtyIsBehind, WarmIsListed, FutureUnspent, RowsLag
  <1>2. Safe /\ Safe' /\ CostsKept /\ [Next]_vars => CostsKept'
    BY RequestCosts, ReturnCosts, OtherCosts DEF Next, WarmStep
  <1>3. CostsKept => WarmCostStored
    BY DEF CostsKept, RowsLag, Behind, Lag, WarmCostStored
  <1> QED
    BY <1>1, <1>2, <1>3, Safety, PTL DEF Spec

-----------------------------------------------------------------------------
(* The gate bounds the spending *)

\* What one cached token saves.
Saving == (IF CacheWriteRate > 0 THEN CacheWriteRate ELSE InputRate) - CacheReadRate

\* What the prices say of a prompt is linear in its size.
LEMMA AvoidableLinear ==
    ASSUME NEW p \in Nat
    PROVE  /\ ColdResumeCost(p) \in Nat /\ CachedResumeCost(p) \in Nat
           /\ ColdResumeCost(p) - CachedResumeCost(p) = p * Saving
           /\ NextWarmCost(p) \in Nat
  <1>0. /\ InputRate \in Nat /\ OutputRate \in Nat /\ CacheReadRate \in Nat
        /\ CacheWriteRate \in Nat
    BY EconomicsAssumption
  <1>1. ColdResumeCost(p) = p * (IF CacheWriteRate > 0 THEN CacheWriteRate ELSE InputRate)
    BY <1>0 DEF ColdResumeCost, EstimateCost, Usage, Floor
  <1>2. CachedResumeCost(p) = p * CacheReadRate
    BY <1>0 DEF CachedResumeCost, EstimateCost, Usage, Floor
  <1>3. NextWarmCost(p) = p * CacheReadRate + OutputRate
    BY <1>0 DEF NextWarmCost, EstimateCost, Usage, Floor
  <1>4. \A a, b, c \in Int : a * b - a * c = a * (b - c)
    OBVIOUS
  <1>5. \A a, b \in Nat : a * b \in Nat
    OBVIOUS
  <1> QED
    BY <1>0, <1>1, <1>2, <1>3, <1>4, <1>5 DEF Saving

\* The budget of a prompt, scaled by 10000.
Budget(p) == ResumePct * BudgetPct * (ColdResumeCost(p) - CachedResumeCost(p))

\* A larger prompt has the larger budget, when caching saves anything at all.
LEMMA BudgetGrows ==
    ASSUME NEW p \in Nat, NEW q \in Nat, p <= q,
           ColdResumeCost(p) - CachedResumeCost(p) > 0
    PROVE  Budget(p) <= Budget(q) /\ Budget(p) \in Nat /\ Budget(q) \in Nat
  <1>1. Saving \in Int
    BY EconomicsAssumption DEF Saving
  <1>2. p * Saving > 0
    BY AvoidableLinear
  <1>3. \A a \in Nat, d \in Int : a * d > 0 => d > 0
    OBVIOUS
  <1>4. Saving \in Nat
    BY <1>1, <1>2, <1>3
  <1>5. \A a, b, c \in Nat : a <= b => a * c <= b * c /\ a * c \in Nat /\ b * c \in Nat
    OBVIOUS
  <1>6. p * Saving <= q * Saving /\ p * Saving \in Nat /\ q * Saving \in Nat
    BY <1>4, <1>5
  <1>7. ResumePct * BudgetPct \in Nat
    BY <1>5, LeasesAssumption, EconomicsAssumption
  <1>8. \A a, b, c \in Nat : a <= b => c * a <= c * b /\ c * a \in Nat /\ c * b \in Nat
    OBVIOUS
  <1>9. ASSUME NEW a \in Nat, NEW b \in Nat, a <= b
        PROVE  /\ ResumePct * BudgetPct * a <= ResumePct * BudgetPct * b
               /\ ResumePct * BudgetPct * a \in Nat /\ ResumePct * BudgetPct * b \in Nat
    BY <1>7, <1>8, <1>9
  <1> QED
    BY <1>6, <1>9, AvoidableLinear DEF Budget

\* A warm that passes the gate is for a prompt whose size is known, which caching
\* makes cheaper, and what was spent before is below its budget.
LEMMA GateFacts ==
    ASSUME NEW L \in Lease, EconomicsEnabled, EconomicGate(L)
    PROVE  /\ L.prefix > 0 /\ ColdResumeCost(L.prefix) - CachedResumeCost(L.prefix) > 0
           /\ 10000 * L.warmCost < Budget(L.prefix)
  <1> DEFINE cold == ColdResumeCost(L.prefix)
             cached == CachedResumeCost(L.prefix)
             next == NextWarmCost(L.prefix)
             pct == ResumeProbability(L)
  <1>0. L.prefix \in Nat /\ L.warmCost \in Nat
    BY DEF Lease
  <1>1. cold \in Nat /\ cached \in Nat /\ next \in Nat
    BY <1>0, AvoidableLinear
  <1>2. Evaluate(cold, cached, next, L.warmCost, pct, PricingKnown /\ L.prefix > 0) = "warm"
    BY DEF EconomicGate
  <1>3. pct \in Int /\ (pct > 0 => pct = ResumePct) /\ BudgetPct \in Int
    BY LeasesAssumption, EconomicsAssumption DEF ResumeProbability
  <1> HIDE DEF cold, cached, next, pct
  <1>4. /\ L.prefix > 0 /\ pct > 0 /\ cold - cached > 0
        /\ ~(10000 * next >= pct * (cold - cached) * BudgetPct - 10000 * L.warmCost)
    BY <1>0, <1>1, <1>2, <1>3 DEF Evaluate
  <1>5. \A a, b, c \in Int : a * c * b = a * b * c
    OBVIOUS
  <1>6. pct * (cold - cached) * BudgetPct = pct * BudgetPct * (cold - cached)
    BY <1>1, <1>3, <1>5
  <1>7. pct * (cold - cached) * BudgetPct \in Int
    BY <1>1, <1>3
  <1>8. 10000 * L.warmCost < pct * BudgetPct * (cold - cached)
    BY <1>0, <1>1, <1>4, <1>6, <1>7
  <1> QED
    BY <1>3, <1>4, <1>8 DEF Budget, cold, cached

\* A lease's prompt size is one a response reported; while a warm is in flight,
\* what was spent before it is below the budget of the largest prompt.  The size
\* may shrink meanwhile: a response can change it, and no one asks the gate again.
SizesReported == \A l \in LeaseIds : lease[l].prefix \in Prefixes \cup {0}
SpentBeforeWarm ==
    EconomicsEnabled /\ sched.pc = "warming"
        => /\ Prefixes # {}
           /\ 10000 * lease[sched.at].warmCost < Budget(LargestPrefix)

BudgetKept == SizesReported /\ SpentBeforeWarm /\ WarmIsListed /\ WithinBudget

\* The largest prompt, if there is one.
LEMMA LargestFacts ==
    ASSUME NEW p \in Prefixes
    PROVE  LargestPrefix \in Nat /\ p \in Nat /\ p <= LargestPrefix
  <1>1. PICK q \in Prefixes : \A o \in Prefixes : o <= q
    BY BoundedAssumption
  <1>2. LargestPrefix \in Prefixes /\ \A o \in Prefixes : o <= LargestPrefix
    BY <1>1 DEF LargestPrefix
  <1> QED
    BY <1>2, LeasesAssumption

\* A step that spends nothing and starts no warm.
LEMMA QuietBudget ==
    ASSUME BudgetKept, SizesReported',
           \A l \in LeaseIds : lease'[l].warmCost = lease[l].warmCost
                                 \/ lease'[l].warmCost = 0,
           sched'.pc = "warming" => /\ sched.pc = "warming" /\ sched'.at = sched.at
                                    /\ sched'.upto = sched.upto
                                    /\ lease'[sched.at].warmCost = lease[sched.at].warmCost
    PROVE  BudgetKept'
  <1>1. SpentBeforeWarm'
    BY DEF BudgetKept, SpentBeforeWarm
  <1>2. WithinBudget'
    BY DEF BudgetKept, WithinBudget
  <1>3. WarmIsListed'
    BY DEF BudgetKept, WarmIsListed
  <1> QED
    BY <1>1, <1>2, <1>3 DEF BudgetKept

\* Requests spend nothing.  The lease of a warm in flight is not a new one.
LEMMA RequestBudget ==
    ASSUME Safe, BudgetKept, RequestStep
    PROVE  BudgetKept'
  <1>0. sched.pc = "warming" => sched.at \in LeaseIds
    BY DEF Safe, WarmHasLease
  <1>1. PICK r \in Requests :
              \/ \E s \in Sessions, f \in Fingerprints, l \in LeaseIds :
                    RequestBegins(r, s, f, l)
              \/ \E outcome \in Outcomes, prefix \in Prefixes \cup {0},
                    unstable \in BOOLEAN, pc \in {"ok", "failed", "streaming"} :
                    RequestEnds(r, outcome, prefix, unstable, pc)
              \/ StreamEnds(r) \/ BodyReadFails(r) \/ RequestUntracked(r)
    BY RequestEffect
  <1>2. ASSUME NEW s \in Sessions, NEW f \in Fingerprints, NEW l \in LeaseIds,
               RequestBegins(r, s, f, l)
        PROVE  BudgetKept'
    <2>1. /\ sched' = sched
          /\ \A k \in LeaseIds \ {l} : /\ lease'[k].warmCost = lease[k].warmCost
                                       /\ lease'[k].prefix = lease[k].prefix
          /\ \/ /\ lease'[l].warmCost = lease[l].warmCost
                /\ lease'[l].prefix = lease[l].prefix
             \/ l = count + 1 /\ lease'[l].warmCost = 0 /\ lease'[l].prefix = 0
      BY <1>2 DEF RequestBegins, SameBooks
    <2>2. SizesReported'
      BY <2>1 DEF BudgetKept, SizesReported
    <2>3. sched.pc = "warming" => sched.at # count + 1
      BY <1>0, RelayAssumption
         DEF BudgetKept, WarmIsListed, Safe, WarmHasLease, TypeOK, Scheds, LeaseIds
    <2> QED
      BY <1>0, <2>1, <2>2, <2>3, QuietBudget
  <1>3. ASSUME NEW outcome, NEW prefix \in Prefixes \cup {0}, NEW unstable, NEW pc,
               RequestEnds(r, outcome, prefix, unstable, pc)
        PROVE  BudgetKept'
    <2>1. /\ sched' = sched
          /\ \A k \in LeaseIds : /\ lease'[k].warmCost = lease[k].warmCost
                                 /\ \/ lease'[k].prefix = lease[k].prefix
                                    \/ lease'[k].prefix = prefix
      BY <1>3 DEF RequestEnds
    <2>2. SizesReported'
      BY <2>1 DEF BudgetKept, SizesReported
    <2> QED
      BY <1>0, <2>1, <2>2, QuietBudget
  <1>4. ASSUME StreamEnds(r) \/ BodyReadFails(r) \/ RequestUntracked(r)
        PROVE  BudgetKept'
    <2>1. /\ sched' = sched
          /\ \A k \in LeaseIds : /\ lease'[k].warmCost = lease[k].warmCost
                                 /\ lease'[k].prefix = lease[k].prefix
      BY <1>4 DEF StreamEnds, BodyReadFails, RequestUntracked, SameBooks
    <2>2. SizesReported'
      BY <2>1 DEF BudgetKept, SizesReported
    <2> QED
      BY <1>0, <2>1, <2>2, QuietBudget
  <1> QED
    BY <1>1, <1>2, <1>3, <1>4

\* Sending a warm: the gate has just been passed.
LEMMA SendBudget ==
    ASSUME Safe, BudgetKept, NEW k \in LeaseIds, SendWarm(k)
    PROVE  BudgetKept'
  <1>1. /\ sched'.pc = "warming" /\ sched'.at = k
        /\ sched'.upto = sched.upto /\ k <= sched.upto
        /\ \A l \in LeaseIds : /\ lease'[l].warmCost = lease[l].warmCost
                               /\ lease'[l].prefix = lease[l].prefix
    BY SendEffect DEF Untouched, SameBooks
  <1>2. lease[k] \in Lease /\ EconomicGate(lease[k])
    BY DEF SendWarm, WarmDue, Safe, TypeOK
  <1>3. ASSUME EconomicsEnabled
        PROVE  Prefixes # {} /\ 10000 * lease[k].warmCost < Budget(LargestPrefix)
    <2> DEFINE p == lease[k].prefix
    <2>1. /\ p > 0 /\ ColdResumeCost(p) - CachedResumeCost(p) > 0
          /\ 10000 * lease[k].warmCost < Budget(p)
      BY <1>2, <1>3, GateFacts
    <2>2. p \in Prefixes
      BY <2>1 DEF BudgetKept, SizesReported
    <2>3. LargestPrefix \in Nat /\ p \in Nat /\ p <= LargestPrefix
      BY <2>2, LargestFacts
    <2>4. Budget(p) <= Budget(LargestPrefix) /\ Budget(p) \in Nat /\ Budget(LargestPrefix) \in Nat
      BY <2>1, <2>3, BudgetGrows
    <2>5. 10000 * lease[k].warmCost \in Nat
      BY <1>2 DEF Lease
    <2> HIDE DEF p
    <2> QED
      BY <2>1, <2>2, <2>4, <2>5
  <1>4. SpentBeforeWarm'
    BY <1>1, <1>3 DEF SpentBeforeWarm
  <1>5. SizesReported' /\ WarmIsListed' /\ WithinBudget'
    BY <1>1 DEF BudgetKept, SizesReported, WarmIsListed, WithinBudget
  <1> QED
    BY <1>4, <1>5 DEF BudgetKept

\* The result of a warm: what was spent before it was below the budget.
LEMMA ReturnBudget ==
    ASSUME Safe, BudgetKept, NEW res \in WarmResults, WarmReturns(res)
    PROVE  BudgetKept'
  <1>1. PICK k \in LeaseIds : k = sched.at
    BY ReturnEffect
  <1>2. /\ sched.pc = "warming" /\ sched'.pc = "tick"
        /\ \A l \in LeaseIds \ {k} : /\ lease'[l].warmCost = lease[l].warmCost
                                     /\ lease'[l].prefix = lease[l].prefix
        /\ lease'[k].warmCost = lease[k].warmCost + res.cost
        /\ lease'[k].prefix = lease[k].prefix
    BY <1>1, ReturnEffect DEF Untouched, SameBooks
  <1>3. SizesReported' /\ SpentBeforeWarm' /\ WarmIsListed'
    BY <1>2 DEF BudgetKept, SizesReported, SpentBeforeWarm, WarmIsListed
  <1>4. /\ lease[k].warmCost \in Nat /\ res.cost \in Nat /\ res.cost <= DearestWarm
        /\ DearestWarm \in Nat
    BY CostTypes, DearestFacts, LeasesAssumption DEF WarmResults
  <1>5. ASSUME EconomicsEnabled
        PROVE  10000 * lease'[k].warmCost < Budget(LargestPrefix) + 10000 * DearestWarm
    <2>1. Prefixes # {} /\ 10000 * lease[k].warmCost < Budget(LargestPrefix)
      BY <1>1, <1>2, <1>5 DEF BudgetKept, SpentBeforeWarm
    <2>2. Budget(LargestPrefix) \in Int
      <3>1. LargestPrefix \in Nat
        BY <2>1, LargestFacts
      <3>2. ColdResumeCost(LargestPrefix) \in Int /\ CachedResumeCost(LargestPrefix) \in Int
            /\ ResumePct \in Int /\ BudgetPct \in Int
        BY <3>1, AvoidableLinear, LeasesAssumption, EconomicsAssumption
      <3> QED
        BY <3>2 DEF Budget
    <2> QED
      BY <1>2, <1>4, <2>1, <2>2
  <1>6. WithinBudget'
    BY <1>2, <1>5 DEF BudgetKept, WithinBudget, Budget
  <1> QED
    BY <1>3, <1>6 DEF BudgetKept

\* Every other step.
LEMMA OtherBudget ==
    ASSUME Safe, BudgetKept,
           SchedulerStep \/ Advance \/ Stop \/ Stopped \/ UNCHANGED vars
    PROVE  BudgetKept'
  <1>0. sched.pc = "warming" => sched.at \in LeaseIds
    BY DEF Safe, WarmHasLease
  <1>1. ASSUME \A l \in LeaseIds : Untouched(l),
               sched'.pc = "warming" => /\ sched.pc = "warming" /\ sched'.at = sched.at
                                        /\ sched'.upto = sched.upto
        PROVE  BudgetKept'
    <2>1. \A l \in LeaseIds : /\ lease'[l].warmCost = lease[l].warmCost
                              /\ lease'[l].prefix = lease[l].prefix
      BY <1>1 DEF Untouched, SameBooks
    <2>2. SizesReported'
      BY <2>1 DEF BudgetKept, SizesReported
    <2> QED
      BY <1>0, <1>1, <2>1, <2>2, QuietBudget
  <1>2. CASE TickBegins \/ TickEnds
    BY <1>1, <1>2, TickEffect
  <1>3. ASSUME NEW k \in LeaseIds, EvaluateLease(k), ~SendWarm(k)
        PROVE  BudgetKept'
    BY <1>1, <1>3, EvaluateEffect DEF EvaluateLease
  <1>4. CASE Advance
    BY <1>1, <1>4, AdvanceEffect
  <1>5. CASE Stop
    BY <1>1, <1>5, StopEffect
  <1>6. CASE Stopped \/ UNCHANGED vars
    BY <1>6 DEF Stopped, vars, BudgetKept, SizesReported, SpentBeforeWarm, WarmIsListed,
                WithinBudget
  <1> QED
    BY <1>2, <1>3, <1>4, <1>5, <1>6, SendBudget DEF SchedulerStep

\* "Warming can never continue forever" (WithinBudget): whatever prices, prompt
\* sizes, warm results and interleavings of requests there are, the spending on a
\* lease stays below the budget of the largest prompt plus one warm.
THEOREM SpendingBounded == Spec => []WithinBudget
  <1>1. Init => BudgetKept
    <2> SUFFICES ASSUME Init PROVE BudgetKept
      OBVIOUS
    <2>1. \A l \in LeaseIds : lease[l].warmCost = 0 /\ lease[l].prefix = 0
      BY DEF Init, EmptyLease
    <2>2. sched.pc = "ready"
      BY DEF Init
    <2> QED
      BY <2>1, <2>2 DEF BudgetKept, SizesReported, SpentBeforeWarm, WarmIsListed, WithinBudget
  <1>2. Safe /\ BudgetKept /\ [Next]_vars => BudgetKept'
    BY RequestBudget, ReturnBudget, OtherBudget DEF Next, WarmStep
  <1> QED
    BY <1>1, <1>2, Safety, PTL DEF Spec, BudgetKept

=============================================================================
