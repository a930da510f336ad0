---------------------------- MODULE TimingProofs ----------------------------
(***************************************************************************)
(* When a warm is sent, proved for every number of leases and every client *)
(* of LeaseRelay: no warmable cache expires unattended (ServedInTime) if   *)
(* the deadline leaves room for one round of the scheduler.                *)
(*                                                                         *)
(* The argument is a budget: the age of a lease and the longest time until *)
(* the scheduler comes to it add up to less than its TTL.  Time moves the  *)
(* one into the other, an evaluation pays for the next round, and whatever *)
(* makes a lease warmable again (an answer, a warm's result) touches it.   *)
(* The last part says which settings leave that room.                      *)
(***************************************************************************)
EXTENDS LeaseRelayProofs

-----------------------------------------------------------------------------
(* How long the scheduler takes *)

\* The time k warms take at most.
Warms(k) == k * WarmTimeout

\* The longest time between two evaluations of a lease: one sleep and the warms
\* of the other leases.  From the end of a request to the next evaluation it may
\* be two ticks, for a lease created while the first of them is under way.
Round == Warms(MaxLeases - 1) + 1
Fresh == Warms(2 * MaxLeases - 1) + 1

\* The deadline leaves room for a round on both sides: a lease just touched is
\* not due when it is evaluated, and one not yet due lives to be evaluated again.
RoundFits ==
    \A L \in Lease :
        L.fp \in Fingerprints /\ L.ttl \in TTLs /\ L.age \in Nat =>
            /\ L.age <= Fresh => ~Due(L)
            /\ ~Due(L) => L.age + Round < L.ttl

\* What is left of the warm in flight at most, and the next lease in line.
Left == IF sched.pc = "warming" THEN WarmTimeout - sched.elapsed ELSE 0
First == IF sched.pc = "warming" THEN sched.at + 1 ELSE sched.at

\* The longest time until lease l is evaluated: in this tick if it is still to
\* come, else after the rest of the tick, a sleep and the leases before it.
Delay(l) ==
    IF sched.pc = "ready" THEN Warms(l - 1)
    ELSE IF First <= l /\ l <= sched.upto THEN Left + Warms(l - First)
    ELSE Left + Warms(sched.upto + 1 - First) + 1 + Warms(l - 1)

\* The scheduler's positions: a tick ends just past its last lease.
InLine ==
    /\ sched.pc # "stopped" => First \in 1..(sched.upto + 1)
    /\ sched.pc = "asleep" => sched.upto = 0
    /\ sched.elapsed <= WarmTimeout
    /\ sched.pc # "warming" => sched.elapsed = 0

\* Leases that exist have a resolved TTL, and slots without a lease no touch.
TTLKnown ==
    \A l \in LeaseIds : IF l <= count THEN lease[l].ttl \in TTLs
                                      ELSE lease[l].age = Never

\* A schedule record of an earlier generation, which costs the next warm.
Stale(l) == runtime[l].scheduledGeneration \notin {Never, lease[l].generation}

\* Lease l is evaluated before its TTL has passed, and if its schedule record is
\* stale, before it is due.
OnTime(l) ==
    Warmable(l) /\ KeepsOwn(l) /\ runtime[l].misses = 0 =>
        /\ lease[l].age + Delay(l) < lease[l].ttl
        /\ Stale(l) => lease[l].age + Delay(l) <= Fresh

Timed == InLine /\ TTLKnown /\ \A l \in LeaseIds : OnTime(l)

\* The time a warm may take.
LEMMA TimeoutFacts == WarmTimeout \in Nat /\ WarmTimeout > 0
  BY RelayAssumption

\* Warms take time, and more of them take more.
LEMMA WarmsMore ==
    ASSUME NEW j \in Int, NEW k \in Int, j <= k
    PROVE  Warms(j) \in Int /\ Warms(k) \in Int /\ Warms(j) <= Warms(k)
  <1>1. \A w \in Nat : \A m \in Int, d \in Nat :
           m * w \in Int /\ d * w >= 0 /\ (m + d) * w = m * w + d * w
    OBVIOUS
  <1>2. PICK d \in Nat : k = j + d
    BY k - j \in Nat, k = j + (k - j)
  <1> QED
    BY <1>1, <1>2, TimeoutFacts DEF Warms

\* Their times add up.
LEMMA WarmsSum ==
    ASSUME NEW j \in Int, NEW k \in Int
    PROVE  Warms(j + k) = Warms(j) + Warms(k)
  <1>1. \A w \in Nat : \A m, n \in Int : (m + n) * w = m * w + n * w
    OBVIOUS
  <1> QED
    BY <1>1, TimeoutFacts DEF Warms

\* One warm more.
LEMMA WarmsNext ==
    ASSUME NEW k \in Int
    PROVE  Warms(k) = Warms(k - 1) + WarmTimeout
  <1>1. \A w \in Nat : \A m \in Int : m * w = (m - 1) * w + w
    OBVIOUS
  <1> QED
    BY <1>1, TimeoutFacts DEF Warms

\* No warm takes no time.
LEMMA WarmsNone == Warms(0) = 0 /\ \A k \in Nat : Warms(k) \in Nat
  <1>1. \A w \in Nat : 0 * w = 0 /\ \A k \in Nat : k * w \in Nat
    OBVIOUS
  <1> QED
    BY <1>1, TimeoutFacts DEF Warms

\* The scheduler's numbers.
LEMMA SchedTypes ==
    ASSUME Safe
    PROVE  /\ sched.at \in Nat /\ sched.upto \in Nat /\ sched.elapsed \in Nat
           /\ sched.upto <= MaxLeases /\ sched.pc \in SchedStates
           /\ count \in Nat /\ count <= MaxLeases /\ MaxLeases \in Nat /\ MaxLeases >= 1
           /\ sched.upto <= count
           /\ sched.pc = "warming" => sched.at >= 1 /\ sched.at <= MaxLeases
           /\ \A l \in LeaseIds : l \in Nat /\ l >= 1 /\ l <= MaxLeases
  <1>1. /\ sched.at \in Nat /\ sched.upto \in 0..MaxLeases /\ sched.elapsed \in Nat
        /\ sched.pc \in SchedStates
    BY DEF Safe, TypeOK, Scheds
  <1>2. MaxLeases \in Nat /\ MaxLeases >= 1
    BY RelayAssumption
  <1>3. \A l \in LeaseIds : l \in Nat /\ l >= 1 /\ l <= MaxLeases
    BY <1>2 DEF LeaseIds
  <1>4. sched.pc = "warming" => sched.at \in LeaseIds
    BY DEF Safe, WarmHasLease
  <1>5. sched.upto <= count /\ count \in 0..MaxLeases
    BY DEF Safe, WarmHasLease, TypeOK
  <1> QED
    BY <1>1, <1>2, <1>3, <1>4, <1>5

\* A lease in line is evaluated within two ticks, and the delay is a number.
LEMMA DelayBound ==
    ASSUME Safe, InLine, sched.pc # "stopped", NEW l \in LeaseIds
    PROVE  Delay(l) \in Nat /\ Delay(l) <= Fresh
  <1> DEFINE u == sched.upto
             F == First
             N == MaxLeases
  <1>0. /\ l \in Nat /\ l >= 1 /\ l <= N /\ u \in Nat /\ u <= N /\ N \in Nat /\ N >= 1
        /\ F \in Nat /\ F >= 1 /\ F <= u + 1
    BY SchedTypes DEF InLine
  <1>1. /\ Left \in Nat /\ Left <= WarmTimeout
        /\ Left = 0 \/ F >= 2
    BY SchedTypes, TimeoutFacts DEF InLine, Left, First
  <1> HIDE DEF u, N, F
  <1>2. Warms(l - 1) \in Nat /\ Warms(l - 1) <= Warms(2 * N - 1) /\ Warms(2 * N - 1) \in Int
    BY <1>0, WarmsNone, WarmsMore
  <1>3. CASE sched.pc = "ready"
    BY <1>2, <1>3 DEF Delay, Fresh, N
  <1>4. CASE sched.pc # "ready" /\ F <= l /\ l <= u
    <2>1. Delay(l) = Left + Warms(l - F)
      BY <1>4 DEF Delay, u, F
    <2>2. Warms(l - F) \in Nat
      BY <1>0, <1>4, WarmsNone
    <2>3. Warms(l - F) <= Warms(N - 1) /\ Warms(N - 1) \in Int
      BY <1>0, <1>4, WarmsMore
    <2>4. Warms(N) = Warms(N - 1) + WarmTimeout
      BY <1>0, WarmsNext
    <2>5. Warms(N) <= Warms(2 * N - 1)
      BY <1>0, WarmsMore
    <2> QED
      BY <1>1, <1>2, <2>1, <2>2, <2>3, <2>4, <2>5, TimeoutFacts DEF Fresh, N
  <1>5. CASE sched.pc # "ready" /\ ~(F <= l /\ l <= u)
    <2>1. Delay(l) = Left + Warms(u + 1 - F) + 1 + Warms(l - 1)
      BY <1>5 DEF Delay, u, F
    <2>2. Warms(u + 1 - F) \in Nat
      BY <1>0, WarmsNone
    <2>3. Warms(u + 1 - F) <= Warms(u) /\ Warms(u) \in Int
      BY <1>0, WarmsMore
    <2>4. F >= 2 => Left + Warms(u + 1 - F) <= Warms(u)
      <3> SUFFICES ASSUME F >= 2 PROVE Left + Warms(u + 1 - F) <= Warms(u)
        OBVIOUS
      <3>1. Warms(u + 1 - F) <= Warms(u - 1) /\ Warms(u - 1) \in Int
        BY <1>0, WarmsMore
      <3>2. Warms(u) = Warms(u - 1) + WarmTimeout
        BY <1>0, WarmsNext
      <3> QED
        BY <1>1, <2>2, <2>3, <3>1, <3>2, TimeoutFacts
    <2>5. Left + Warms(u + 1 - F) <= Warms(u)
      BY <1>1, <2>2, <2>3, <2>4
    <2>6. Warms(u + (l - 1)) = Warms(u) + Warms(l - 1)
      BY <1>0, WarmsSum
    <2>7. Warms(u + (l - 1)) <= Warms(2 * N - 1)
      BY <1>0, WarmsMore
    <2> QED
      BY <1>1, <1>2, <2>1, <2>2, <2>3, <2>5, <2>6, <2>7 DEF Fresh, N
  <1> QED
    BY <1>3, <1>4, <1>5 DEF u, F

\* Delays of the state a step leads to.
DelaysBounded ==
    Safe /\ InLine /\ sched.pc # "stopped"
        => \A l \in LeaseIds : Delay(l) \in Nat /\ Delay(l) <= Fresh

\* The bound on delays holds in every state, the next one too.
LEMMA DelaysNext == DelaysBounded /\ DelaysBounded'
  <1>1. DelaysBounded
    BY DelayBound DEF DelaysBounded
  <1> QED
    BY <1>1, PTL

\* The tick goes on to the next lease: the others have come closer, and the one
\* just evaluated is due again after a round.
LEMMA EvaluatedDelay ==
    ASSUME Safe, InLine, NEW l \in LeaseIds, sched.pc = "tick", sched.at <= sched.upto,
           sched'.pc = "tick", sched'.at = sched.at + 1, sched'.upto = sched.upto
    PROVE  /\ l # sched.at => Delay(l)' <= Delay(l)
           /\ l = sched.at => Delay(l) = 0 /\ Delay(l)' <= Round
           /\ Delay(l)' \in Int
  <1> DEFINE u == sched.upto
             k == sched.at
  <1>0. /\ l \in Nat /\ l >= 1 /\ l <= MaxLeases /\ u \in Nat /\ u <= MaxLeases
        /\ MaxLeases \in Nat /\ k \in Nat /\ k >= 1 /\ k <= u
    BY SchedTypes DEF InLine, First
  <1>1. /\ Delay(l) = IF k <= l /\ l <= u THEN Warms(l - k)
                      ELSE Warms(u + 1 - k) + 1 + Warms(l - 1)
        /\ Delay(l)' = IF k + 1 <= l /\ l <= u THEN Warms(l - (k + 1))
                       ELSE Warms(u + 1 - (k + 1)) + 1 + Warms(l - 1)
    <2>1. Left = 0 /\ First = k /\ Left' = 0 /\ First' = k + 1
      BY DEF Left, First
    <2>2. /\ Delay(l) = IF k <= l /\ l <= u THEN 0 + Warms(l - k)
                        ELSE 0 + Warms(u + 1 - k) + 1 + Warms(l - 1)
          /\ Delay(l)' = IF k + 1 <= l /\ l <= u THEN 0 + Warms(l - (k + 1))
                         ELSE 0 + Warms(u + 1 - (k + 1)) + 1 + Warms(l - 1)
      BY <2>1 DEF Delay
    <2>3. /\ Warms(l - k) \in Int /\ Warms(u + 1 - k) \in Int
          /\ Warms(l - (k + 1)) \in Int /\ Warms(u + 1 - (k + 1)) \in Int
      BY <1>0, WarmsMore
    <2> QED
      BY <2>2, <2>3
  <1> HIDE DEF u, k
  <1>2. /\ Warms(l - (k + 1)) <= Warms(l - k)
        /\ Warms(u + 1 - (k + 1)) <= Warms(u + 1 - k)
        /\ Warms(l - k) \in Int /\ Warms(l - (k + 1)) \in Int
        /\ Warms(u + 1 - (k + 1)) \in Int /\ Warms(u + 1 - k) \in Int
        /\ Warms(l - 1) \in Int
    BY <1>0, WarmsMore
  <1>3. l # k => Delay(l)' <= Delay(l)
    BY <1>0, <1>1, <1>2
  <1>4. ASSUME l = k
        PROVE  Delay(l) = 0 /\ Delay(l)' <= Round
    <2>1. l - k = 0 /\ u + 1 - (k + 1) = u - k /\ Delay(l)' = Warms(u - k) + 1 + Warms(k - 1)
      BY <1>0, <1>1, <1>4
    <2>2. Warms((u - k) + (k - 1)) = Warms(u - k) + Warms(k - 1)
      BY <1>0, WarmsSum
    <2>3. Warms((u - k) + (k - 1)) <= Warms(MaxLeases - 1) /\ Warms(MaxLeases - 1) \in Int
      BY <1>0, WarmsMore
    <2>4. Warms(u - k) \in Int /\ Warms(k - 1) \in Int
      BY <1>0, WarmsMore
    <2> QED
      BY <1>0, <1>1, <1>4, <2>1, <2>2, <2>3, <2>4, WarmsNone DEF Round
  <1> QED
    BY <1>1, <1>2, <1>3, <1>4 DEF k

\* A warm leaves: its time was reserved.
LEMMA SentDelay ==
    ASSUME Safe, InLine, NEW l \in LeaseIds, sched.pc = "tick", sched.at <= sched.upto,
           sched'.pc = "warming", sched'.at = sched.at, sched'.upto = sched.upto,
           sched'.elapsed = 0, l # sched.at
    PROVE  Delay(l)' = Delay(l)
  <1> DEFINE u == sched.upto
             k == sched.at
  <1>0. l \in Nat /\ l >= 1 /\ u \in Nat /\ k \in Nat /\ k >= 1 /\ k <= u
    BY SchedTypes DEF InLine, First
  <1>1. Left = 0 /\ First = k /\ Left' = WarmTimeout /\ First' = k + 1
    BY TimeoutFacts DEF Left, First
  <1>2. /\ Warms(l - k) = Warms(l - k - 1) + WarmTimeout
        /\ Warms(u + 1 - k) = Warms(u + 1 - k - 1) + WarmTimeout
    BY <1>0, WarmsNext
  <1>3. /\ l - k - 1 = l - (k + 1) /\ u + 1 - k - 1 = u + 1 - (k + 1)
        /\ Warms(l - (k + 1)) \in Int /\ Warms(u + 1 - (k + 1)) \in Int /\ Warms(l - 1) \in Int
    BY <1>0, WarmsMore
  <1>4. /\ Delay(l) = IF k <= l /\ l <= u THEN 0 + Warms(l - k)
                      ELSE 0 + Warms(u + 1 - k) + 1 + Warms(l - 1)
        /\ Delay(l)' = IF k + 1 <= l /\ l <= u THEN WarmTimeout + Warms(l - (k + 1))
                       ELSE WarmTimeout + Warms(u + 1 - (k + 1)) + 1 + Warms(l - 1)
    BY <1>1 DEF Delay
  <1> HIDE DEF u, k
  <1>5. l # k
    BY DEF k
  <1> QED
    BY <1>0, <1>2, <1>3, <1>4, <1>5, TimeoutFacts

\* A warm returns before its time is up.
LEMMA ReturnedDelay ==
    ASSUME Safe, InLine, NEW l \in LeaseIds, sched.pc = "warming",
           sched'.pc = "tick", sched'.at = sched.at + 1, sched'.upto = sched.upto
    PROVE  Delay(l)' <= Delay(l) /\ Delay(l)' \in Int
  <1> DEFINE u == sched.upto
             k == sched.at
  <1>0. /\ l \in Nat /\ u \in Nat /\ k \in Nat /\ Left \in Nat
        /\ First = k + 1 /\ First' = k + 1 /\ Left' = 0
    BY SchedTypes, TimeoutFacts DEF InLine, First, Left
  <1>1. Warms(l - (k + 1)) \in Int /\ Warms(u + 1 - (k + 1)) \in Int /\ Warms(l - 1) \in Int
    BY <1>0, WarmsMore
  <1>2. /\ Delay(l) = IF k + 1 <= l /\ l <= u THEN Left + Warms(l - (k + 1))
                      ELSE Left + Warms(u + 1 - (k + 1)) + 1 + Warms(l - 1)
        /\ Delay(l)' = IF k + 1 <= l /\ l <= u THEN 0 + Warms(l - (k + 1))
                       ELSE 0 + Warms(u + 1 - (k + 1)) + 1 + Warms(l - 1)
    BY <1>0 DEF Delay
  <1> QED
    BY <1>0, <1>1, <1>2

\* Time passes, asleep or waiting for a warm.
LEMMA AdvancedDelay ==
    ASSUME Safe, InLine, NEW l \in LeaseIds,
           \/ sched.pc = "asleep" /\ sched' = [sched EXCEPT !.pc = "ready"]
           \/ sched.pc = "warming" /\ sched' = [sched EXCEPT !.elapsed = @ + 1]
    PROVE  Delay(l)' + 1 = Delay(l)
  <1>1. CASE sched.pc = "asleep" /\ sched' = [sched EXCEPT !.pc = "ready"]
    <2>1. /\ sched'.pc = "ready" /\ First = 1 /\ Left = 0 /\ sched.upto = 0
          /\ ~(First <= l /\ l <= sched.upto) /\ sched.upto + 1 - First = 0
      BY <1>1, SchedTypes DEF InLine, First, Left, Safe, TypeOK, Scheds
    <2>2. Delay(l)' = Warms(l - 1) /\ Delay(l) = 0 + Warms(0) + 1 + Warms(l - 1)
      BY <1>1, <2>1 DEF Delay
    <2>3. Warms(l - 1) \in Int
      BY SchedTypes, WarmsMore
    <2> QED
      BY <2>2, <2>3, WarmsNone
  <1>2. CASE sched.pc = "warming" /\ sched' = [sched EXCEPT !.elapsed = @ + 1]
    <2>1. /\ sched'.pc = "warming" /\ First' = First /\ sched'.upto = sched.upto
          /\ Left \in Int /\ Left' \in Int /\ Left' + 1 = Left
          /\ First \in Nat /\ sched.upto \in Nat /\ l \in Nat
      BY <1>2, SchedTypes, TimeoutFacts DEF First, Left, Safe, TypeOK, Scheds
    <2>2. Warms(l - First) \in Int /\ Warms(sched.upto + 1 - First) \in Int /\ Warms(l - 1) \in Int
      BY <2>1, WarmsMore
    <2>3. /\ Delay(l) = IF First <= l /\ l <= sched.upto THEN Left + Warms(l - First)
                        ELSE Left + Warms(sched.upto + 1 - First) + 1 + Warms(l - 1)
          /\ Delay(l)' = IF First <= l /\ l <= sched.upto THEN Left' + Warms(l - First)
                         ELSE Left' + Warms(sched.upto + 1 - First) + 1 + Warms(l - 1)
      BY <1>2, <2>1 DEF Delay
    <2> QED
      BY <2>1, <2>2, <2>3
  <1> QED
    BY <1>1, <1>2

\* A tick begins with every lease in line, and ends when none is.
LEMMA TickDelay ==
    ASSUME Safe, InLine, NEW l \in LeaseIds, TickBegins \/ TickEnds
    PROVE  (TickBegins /\ l > count) \/ Delay(l)' = Delay(l)
  <1>0. l \in Nat /\ l >= 1 /\ sched.upto \in Nat /\ count \in Nat /\ sched \in Scheds
    BY SchedTypes DEF Safe, TypeOK
  <1>1. CASE TickBegins /\ l <= count
    <2>1. /\ sched.pc = "ready" /\ sched'.pc = "tick" /\ sched'.upto = count
          /\ First' = 1 /\ Left' = 0
      BY <1>0, <1>1 DEF TickBegins, First, Left, Scheds
    <2>2. Delay(l) = Warms(l - 1) /\ Delay(l)' = 0 + Warms(l - 1)
      BY <1>0, <1>1, <2>1 DEF Delay
    <2>3. Warms(l - 1) \in Int
      BY <1>0, WarmsMore
    <2> QED
      BY <2>2, <2>3
  <1>2. CASE TickEnds
    <2>1. /\ sched.pc = "tick" /\ sched.at = sched.upto + 1 /\ First = sched.at /\ Left = 0
          /\ sched'.pc = "asleep" /\ sched'.upto = 0 /\ First' = 1 /\ Left' = 0
      BY <1>0, <1>2, SchedTypes DEF TickEnds, InLine, First, Left, Scheds
    <2>2. Delay(l) = 0 + Warms(sched.upto + 1 - First) + 1 + Warms(l - 1)
      BY <1>0, <2>1 DEF Delay
    <2>3. Delay(l)' = 0 + Warms(0 + 1 - 1) + 1 + Warms(l - 1)
      BY <1>0, <2>1 DEF Delay
    <2>4. sched.upto + 1 - First = 0 + 1 - 1
      BY <1>0, <2>1
    <2> QED
      BY <2>2, <2>3, <2>4
  <1> QED
    BY <1>0, <1>1, <1>2

-----------------------------------------------------------------------------
(* The steps *)

\* An evaluation moves the scheduler on and no lease but its own.
LEMMA EvaluateMoves ==
    ASSUME Safe, NEW k \in LeaseIds, EvaluateLease(k)
    PROVE  /\ sched.pc = "tick" /\ sched.at = k /\ k <= sched.upto
           /\ sched'.upto = sched.upto
           /\ IF SendWarm(k)
              THEN sched'.pc = "warming" /\ sched'.at = k /\ sched'.elapsed = 0
              ELSE /\ sched'.pc = "tick" /\ sched'.at = k + 1
                   /\ sched'.elapsed = sched.elapsed
           /\ UNCHANGED <<count, snapshot, req>>
           /\ \A l \in LeaseIds : l # k => lease'[l] = lease[l] /\ runtime'[l] = runtime[l]
  <1>0. /\ lease \in [LeaseIds -> Lease] /\ runtime \in [LeaseIds -> Runtime]
        /\ sched \in Scheds
    BY DEF Safe, TypeOK
  <1>1. CASE SendWarm(k)
    BY <1>0, <1>1, SendEffect DEF SendWarm, Scheds
  <1>2. CASE ~SendWarm(k)
    <2>1. \/ EvaluateSkip(k) \/ EvaluateSchedule(k) \/ EvaluateEconomicStop(k)
          \/ EvaluateRefuse(k) \/ EvaluateDecline(k)
      BY <1>2 DEF EvaluateLease
    <2>2. \/ sched' = [sched EXCEPT !.at = @ + 1]
          \/ sched' = [sched EXCEPT !.at = @ + 1, !.dirty = @ \cup {k}]
      BY <2>1 DEF EvaluateSkip, EvaluateSchedule, EvaluateEconomicStop, EvaluateRefuse,
                  EvaluateDecline
    <2>3. sched'.elapsed = sched.elapsed
      BY <1>0, <2>2 DEF Scheds
    <2>4. \A l \in LeaseIds : l # k => lease'[l] = lease[l] /\ runtime'[l] = runtime[l]
      BY <1>0, <2>1 DEF EvaluateSkip, EvaluateSchedule, EvaluateEconomicStop,
                        EvaluateRefuse, EvaluateDecline
    <2> QED
      BY <1>2, <2>1, <2>3, <2>4, EvaluateEffect
  <1> QED
    BY <1>1, <1>2

\* The result of a warm moves the scheduler on and no lease but its own.
LEMMA ReturnMoves ==
    ASSUME Safe, NEW res \in WarmResults, WarmReturns(res)
    PROVE  /\ sched.pc = "warming" /\ sched.at \in LeaseIds
           /\ sched'.pc = "tick" /\ sched'.at = sched.at + 1 /\ sched'.upto = sched.upto
           /\ sched'.elapsed = 0
           /\ UNCHANGED <<count, snapshot, req>>
           /\ \A l \in LeaseIds : l # sched.at => /\ lease'[l] = lease[l]
                                                  /\ runtime'[l] = runtime[l]
  <1>0. lease \in [LeaseIds -> Lease] /\ runtime \in [LeaseIds -> Runtime]
    BY DEF Safe, TypeOK
  <1>1. sched'.elapsed = 0
    <2>1. /\ NotWarming("tick") \in Scheds /\ NotWarming("tick").elapsed = 0
      BY SchedFacts DEF SchedStates, NotWarming, Safe, TypeOK, Scheds
    <2>2. sched' = [NotWarming("tick") EXCEPT !.at = @ + 1, !.dirty = @ \cup {sched.at}]
      BY DEF WarmReturns
    <2> HIDE DEF NotWarming
    <2> QED
      BY <2>1, <2>2 DEF Scheds
  <1>2. \A l \in LeaseIds : l # sched.at => lease'[l] = lease[l] /\ runtime'[l] = runtime[l]
    BY <1>0 DEF WarmReturns
  <1> QED
    BY <1>1, <1>2, ReturnEffect

\* The scheduler keeps its place in line.
LEMMA InLineKept ==
    ASSUME Safe, Safe', InLine, [Next]_vars
    PROVE  InLine'
  <1>0. sched \in Scheds /\ sched' \in Scheds
    BY DEF Safe, TypeOK
  <1>1. ASSUME sched' = sched
        PROVE  InLine'
    BY <1>1 DEF InLine, First
  <1>2. CASE RequestStep
    <2>1. sched' = sched
      BY <1>2, RequestEffect
         DEF RequestBegins, RequestEnds, StreamEnds, BodyReadFails, RequestUntracked
    <2> QED
      BY <1>1, <2>1
  <1>3. CASE TickBegins
    <2>1. /\ sched'.pc = "tick" /\ sched'.at = 1 /\ sched'.upto = count
          /\ sched'.elapsed = sched.elapsed /\ sched.pc = "ready" /\ count \in Nat
      BY <1>0, <1>3, SchedTypes DEF TickBegins, Scheds
    <2> QED
      BY <2>1 DEF InLine, First
  <1>4. CASE TickEnds
    <2>1. /\ sched'.pc = "asleep" /\ sched'.at = 1 /\ sched'.upto = 0
          /\ sched'.elapsed = sched.elapsed /\ sched.pc = "tick"
      BY <1>0, <1>4 DEF TickEnds, Scheds
    <2> QED
      BY <2>1 DEF InLine, First
  <1>5. ASSUME NEW k \in LeaseIds, EvaluateLease(k)
        PROVE  InLine'
    <2>1. k \in Nat /\ k >= 1 /\ sched.upto \in Nat /\ k <= sched.upto
      BY <1>5, EvaluateMoves, SchedTypes
    <2>2. CASE SendWarm(k)
      BY <1>5, <2>1, <2>2, EvaluateMoves, TimeoutFacts DEF InLine, First
    <2>3. CASE ~SendWarm(k)
      BY <1>5, <2>1, <2>3, EvaluateMoves DEF InLine, First
    <2> QED
      BY <2>2, <2>3
  <1>6. ASSUME NEW res \in WarmResults, WarmReturns(res)
        PROVE  InLine'
    BY <1>6, ReturnMoves, SchedTypes, TimeoutFacts DEF InLine, First
  <1>7. CASE Advance
    <2>1. \/ /\ sched.pc = "asleep" /\ sched' = [sched EXCEPT !.pc = "ready"]
          \/ /\ sched.pc = "warming" /\ sched' = [sched EXCEPT !.elapsed = @ + 1]
             /\ sched.elapsed < WarmTimeout
      BY <1>7 DEF Advance
    <2> QED
      BY <1>0, <2>1, SchedTypes, TimeoutFacts DEF InLine, First, Scheds
  <1>8. CASE Stop
    <2>1. sched' = NotWarming("stopped")
      BY <1>8 DEF Stop
    <2>2. sched'.pc = "stopped" /\ sched'.elapsed = 0
      BY <1>0, <2>1 DEF NotWarming, Scheds
    <2> QED
      BY <2>2, TimeoutFacts DEF InLine, First
  <1>9. CASE Stopped \/ UNCHANGED vars
    BY <1>1, <1>9 DEF Stopped, vars
  <1> QED
    BY <1>2, <1>3, <1>4, <1>5, <1>6, <1>7, <1>8, <1>9
       DEF Next, SchedulerStep, WarmStep

\* What the gate looks at.
LEMMA GateSame ==
    ASSUME NEW L, NEW M, M.prefix = L.prefix, M.warmCost = L.warmCost, M.targets = L.targets
    PROVE  EconomicGate(M) <=> EconomicGate(L)
  BY DEF EconomicGate, ResumeProbability

\* A lease that a step leaves alone, but for its age, stays on time if the time
\* until its evaluation shrinks by as much as the age has grown.
LEMMA SteadyOnTime ==
    ASSUME Safe, NEW l \in LeaseIds, OnTime(l), InLine, InLine', Safe', sched.pc # "stopped",
           NEW a \in Nat \cup {Never}, lease'[l] = [lease[l] EXCEPT !.age = a],
           a = Never <=> lease[l].age = Never,
           runtime'[l] = runtime[l],
           KeepsOwn(l)' => /\ KeepsOwn(l)
                           /\ snapshot'[lease[l].fp] = snapshot[lease[l].fp],
           lease[l].age \in Nat => a + Delay(l)' <= lease[l].age + Delay(l)
    PROVE  OnTime(l)'
  <1>0. lease[l] \in Lease
    BY DEF Safe, TypeOK
  <1>1. /\ lease'[l].fp = lease[l].fp /\ lease'[l].state = lease[l].state
        /\ lease'[l].targets = lease[l].targets /\ lease'[l].generation = lease[l].generation
        /\ lease'[l].age = a /\ lease'[l].ttl = lease[l].ttl
        /\ lease'[l].prefix = lease[l].prefix /\ lease'[l].warmCost = lease[l].warmCost
    BY <1>0 DEF Lease
  <1>2. EconomicGate(lease'[l]) <=> EconomicGate(lease[l])
    BY <1>1, GateSame
  <1>3. Skips(l)' <=> Skips(l)
    BY <1>1 DEF Skips
  <1> SUFFICES ASSUME Warmable(l)', KeepsOwn(l)', runtime'[l].misses = 0
               PROVE  /\ lease'[l].age + Delay(l)' < lease'[l].ttl
                      /\ Stale(l)' => lease'[l].age + Delay(l)' <= Fresh
    BY DEF OnTime
  <1>4. Warmable(l) /\ KeepsOwn(l) /\ runtime[l].misses = 0
    BY <1>1, <1>2, <1>3 DEF Warmable
  <1>5. lease[l].age \in Nat /\ a \in Nat
    BY <1>0, <1>4 DEF Warmable, Skips, Lease
  <1>6. Stale(l)' <=> Stale(l)
    BY <1>1 DEF Stale
  <1>7. /\ lease[l].age + Delay(l) < lease[l].ttl
        /\ Stale(l) => lease[l].age + Delay(l) <= Fresh
    BY <1>4 DEF OnTime
  <1>8. Delay(l) \in Nat /\ Delay(l)' \in Nat /\ lease[l].ttl \in Nat
    <2>1. sched'.pc # "stopped"
      BY DEF Warmable
    <2>2. Delay(l)' \in Nat
      BY <2>1, DelaysNext DEF DelaysBounded
    <2> QED
      BY <1>0, <2>2, DelayBound DEF Lease
  <1>9. Fresh \in Int
    BY SchedTypes, WarmsMore DEF Fresh
  <1> QED
    BY <1>1, <1>5, <1>6, <1>7, <1>8, <1>9

\* The lease record, read back.
LEMMA SameAge ==
    ASSUME NEW L \in Lease
    PROVE  /\ L = [L EXCEPT !.age = L.age] /\ L.age \in Nat \cup {Never}
           /\ L.ttl \in Nat /\ (L.age # Never => L.age \in Nat)
  BY DEF Lease

\* A lease evaluated now is a lease the hypothesis speaks of.
LEMMA RoundApplies ==
    ASSUME Safe, TTLKnown, RoundFits, NEW l \in LeaseIds, l <= count,
           lease[l].age # Never
    PROVE  /\ lease[l].age <= Fresh => ~Due(lease[l])
           /\ ~Due(lease[l]) => lease[l].age + Round < lease[l].ttl
  <1>1. /\ lease[l] \in Lease /\ lease[l].fp \in Fingerprints /\ lease[l].ttl \in TTLs
    BY DEF Safe, TypeOK, LeaseHasCache, TTLKnown
  <1> QED
    BY <1>1, SameAge DEF RoundFits

\* A lease just touched is on time whenever it is evaluated.
LEMMA TouchedOnTime ==
    ASSUME RoundFits, Safe', InLine', sched'.pc # "stopped", NEW l \in LeaseIds,
           lease'[l].age = 0, lease'[l].ttl \in TTLs, lease'[l].fp \in Fingerprints
    PROVE  /\ lease'[l].age + Delay(l)' < lease'[l].ttl
           /\ lease'[l].age + Delay(l)' <= Fresh
  <1>1. Delay(l)' \in Nat /\ Delay(l)' <= Fresh
    BY DelaysNext DEF DelaysBounded
  <1>2. Fresh \in Nat /\ Round \in Nat
    <2>1. MaxLeases - 1 \in Nat /\ 2 * MaxLeases - 1 \in Nat
      BY RelayAssumption
    <2> QED
      BY <2>1, WarmsNone DEF Fresh, Round
  <1> DEFINE L == [lease'[l] EXCEPT !.age = Fresh]
  <1>3. lease'[l] \in Lease
    BY DEF Safe, TypeOK
  <1>4. L \in Lease /\ L.fp = lease'[l].fp /\ L.ttl = lease'[l].ttl /\ L.age = Fresh
    BY <1>2, <1>3 DEF Lease
  <1> HIDE DEF L
  <1>5. Fresh + Round < lease'[l].ttl
    BY <1>2, <1>4 DEF RoundFits
  <1>6. lease'[l].ttl \in Nat
    BY <1>3, SameAge
  <1> QED
    BY <1>1, <1>2, <1>5, <1>6

\* An evaluation keeps every lease on time: it sends a warm, puts the lease off
\* by one round that its TTL has room for, or finds it not warmable.
LEMMA EvaluateOnTime ==
    ASSUME RoundFits, Safe, Safe', InLine, InLine', TTLKnown,
           \A l \in LeaseIds : OnTime(l),
           NEW k \in LeaseIds, EvaluateLease(k), NEW l \in LeaseIds
    PROVE  OnTime(l)'
  <1>0. /\ lease[l] \in Lease /\ runtime[l] \in Runtime
        /\ lease \in [LeaseIds -> Lease] /\ runtime \in [LeaseIds -> Runtime]
        /\ UNCHANGED <<count, snapshot, req>> /\ sched.pc = "tick" /\ sched.at = k
        /\ k <= sched.upto /\ sched.upto <= count /\ k <= count
    BY EvaluateMoves, SchedTypes DEF Safe, TypeOK
  <1>1. CASE l # k
    <2>1. lease'[l] = lease[l] /\ runtime'[l] = runtime[l]
      BY <1>1, EvaluateMoves
    <2>2. Delay(l)' <= Delay(l)
      <3>1. CASE SendWarm(k)
        <4>1. Delay(l)' = Delay(l) /\ Delay(l) \in Nat
          BY <1>0, <1>1, <3>1, EvaluateMoves, SentDelay, DelayBound
        <4> QED
          BY <4>1
      <3>2. CASE ~SendWarm(k)
        BY <1>0, <1>1, <3>2, EvaluateMoves, EvaluatedDelay
      <3> QED
        BY <3>1, <3>2
    <2>3. Delay(l) \in Nat /\ Delay(l)' \in Nat
      <3>1. sched'.pc # "stopped"
        BY EvaluateMoves
      <3> QED
        BY <1>0, <3>1, DelaysNext DEF DelaysBounded
    <2>4. KeepsOwn(l)' => KeepsOwn(l) /\ snapshot'[lease[l].fp] = snapshot[lease[l].fp]
      BY <1>0, <2>1 DEF KeepsOwn
    <2> QED
      BY <1>0, <2>1, <2>2, <2>3, <2>4, SameAge, SteadyOnTime
  <1>2. CASE l = k
    <2> SUFFICES ASSUME Warmable(k)', KeepsOwn(k)', runtime'[k].misses = 0
                 PROVE  /\ lease'[k].age + Delay(k)' < lease'[k].ttl
                        /\ Stale(k)' => lease'[k].age + Delay(k)' <= Fresh
      BY <1>2 DEF OnTime
    <2>1. CASE EvaluateSkip(k)
      BY <2>1 DEF EvaluateSkip, Skips, Warmable
    <2>2. CASE EvaluateSchedule(k)
      <3>1. PICK st \in {lease[k].state, "warm_scheduled"} :
               lease'[k] = [lease[k] EXCEPT !.state = st]
        BY <1>0, <2>2 DEF EvaluateSchedule, Lease
      <3>2. runtime'[k].scheduledGeneration = lease[k].generation
        BY <1>0, <1>2, <2>2 DEF EvaluateSchedule, Runtime
      <3>3. /\ lease'[k].age = lease[k].age /\ lease'[k].ttl = lease[k].ttl
            /\ lease'[k].generation = lease[k].generation
        BY <1>0, <1>2, <3>1 DEF Lease
      <3>4. ~Due(lease[k]) /\ lease[k].age # Never
        BY <2>2 DEF EvaluateSchedule, Skips
      <3>5. lease[k].age + Round < lease[k].ttl
        BY <1>0, <3>4, RoundApplies
      <3>6. ~SendWarm(k)
        BY <2>2 DEF EvaluateSchedule, SendWarm, WarmDue
      <3>7. Delay(k)' <= Round /\ Delay(k)' \in Int
        BY <1>0, <3>6, EvaluateMoves, EvaluatedDelay
      <3>8. lease[k].age \in Nat /\ lease[k].ttl \in Nat /\ Round \in Int
        BY <1>0, <1>2, <3>4, SameAge, SchedTypes, WarmsMore DEF Round
      <3> QED
        BY <3>2, <3>3, <3>5, <3>7, <3>8 DEF Stale
    <2>3. CASE EvaluateEconomicStop(k)
      <3>1. lease'[k] = [lease[k] EXCEPT !.state = "economic_stop"]
        BY <1>0, <2>3 DEF EvaluateEconomicStop
      <3>2. /\ lease'[k].prefix = lease[k].prefix /\ lease'[k].warmCost = lease[k].warmCost
            /\ lease'[k].targets = lease[k].targets
        BY <1>0, <1>2, <3>1 DEF Lease
      <3>3. ~EconomicGate(lease'[k])
        BY <2>3, <3>2, GateSame DEF EvaluateEconomicStop
      <3> QED
        BY <3>3 DEF Warmable
    <2>4. CASE EvaluateRefuse(k)
      <3>1. lease' = lease /\ Due(lease[k]) /\ EconomicGate(lease[k]) /\ ~Skips(k) /\ Refused(k)
        BY <2>4 DEF EvaluateRefuse, WarmDue
      <3>2. runtime'[k].misses = runtime[k].misses
        BY <1>0, <1>2, <2>4 DEF EvaluateRefuse, Runtime
      <3>3. Stale(k)
        BY <1>0, <3>1 DEF Refused, Warmable, Stale
      <3>4. Warmable(k) /\ KeepsOwn(k) /\ runtime[k].misses = 0
        BY <1>0, <3>1, <3>2 DEF Warmable, KeepsOwn
      <3>5. lease[k].age + Delay(k) <= Fresh
        BY <3>3, <3>4 DEF OnTime
      <3>6. ~SendWarm(k)
        BY <3>1 DEF SendWarm
      <3>7. Delay(k) = 0
        BY <1>0, <3>6, EvaluateMoves, EvaluatedDelay
      <3>8. lease[k].age \in Nat /\ lease[k].age # Never
        BY <1>0, <1>2, <3>1, SameAge DEF Skips
      <3>9. ~Due(lease[k])
        BY <1>0, <3>5, <3>7, <3>8, RoundApplies
      <3> QED
        BY <3>1, <3>9
    <2>5. CASE EvaluateDecline(k)
      <3>1. lease'[k] = Arm(lease[k]) /\ snapshot[lease[k].fp] \in Unboundable
        BY <1>0, <2>5 DEF EvaluateDecline
      <3>2. lease'[k].fp = lease[k].fp
        BY <1>0, <1>2, <3>1, ArmFacts
      <3> QED
        BY <1>0, <3>1, <3>2 DEF Warmable
    <2>6. CASE SendWarm(k)
      <3>1. runtime'[k].warmActive
        BY <1>0, <1>2, <2>6 DEF SendWarm, Runtime
      <3> QED
        BY <3>1 DEF Warmable, Skips
    <2> QED
      BY <2>1, <2>2, <2>3, <2>4, <2>5, <2>6 DEF EvaluateLease
  <1> QED
    BY <1>1, <1>2

\* The result of a warm: verified, it touches the lease; otherwise it is a miss.
LEMMA ResultTouches ==
    ASSUME NEW L \in Lease, NEW R \in Runtime, NEW res
    PROVE  LET M == ApplyWarmResult(WarmOver(L), res)
           IN  /\ M.ttl = L.ttl /\ M.fp = L.fp
               /\ ApplyWarmRuntime(WarmOverRuntime(R), res).misses = 0 => M.age = 0
  <1>1. WarmOver(L) \in Lease /\ WarmOver(L).ttl = L.ttl /\ WarmOver(L).fp = L.fp
    BY DEF WarmOver, Arm, Lease, LeaseStates
  <1>2. ASSUME NEW K \in Lease
        PROVE  LET M == ApplyWarmResult(K, res)
               IN  /\ M.ttl = K.ttl /\ M.fp = K.fp
                   /\ res.outcome = "confirmed_hit" => M.age = 0
    BY DEF ApplyWarmResult, Lease
  <1>3. WarmOverRuntime(R) \in Runtime
    BY DEF WarmOverRuntime, Runtime
  <1>4. ASSUME NEW S \in Runtime, ApplyWarmRuntime(S, res).misses = 0
        PROVE  res.outcome = "confirmed_hit"
    BY <1>4 DEF ApplyWarmRuntime, Runtime
  <1> QED
    BY <1>1, <1>2, <1>3, <1>4

\* The result of a warm keeps every lease on time.
LEMMA ReturnOnTime ==
    ASSUME RoundFits, Safe, Safe', InLine, InLine', TTLKnown,
           \A l \in LeaseIds : OnTime(l),
           NEW res \in WarmResults, WarmReturns(res), NEW l \in LeaseIds
    PROVE  OnTime(l)'
  <1>0. /\ lease[l] \in Lease /\ runtime[l] \in Runtime
        /\ lease \in [LeaseIds -> Lease] /\ runtime \in [LeaseIds -> Runtime]
        /\ UNCHANGED <<count, snapshot, req>> /\ sched.pc = "warming" /\ sched'.pc = "tick"
    BY ReturnMoves DEF Safe, TypeOK
  <1>1. CASE l # sched.at
    <2>1. lease'[l] = lease[l] /\ runtime'[l] = runtime[l]
      BY <1>1, ReturnMoves
    <2>2. Delay(l)' <= Delay(l)
      BY ReturnMoves, ReturnedDelay
    <2>3. Delay(l) \in Nat /\ Delay(l)' \in Nat
      BY <1>0, DelaysNext DEF DelaysBounded
    <2>4. KeepsOwn(l)' => KeepsOwn(l) /\ snapshot'[lease[l].fp] = snapshot[lease[l].fp]
      BY <1>0, <2>1 DEF KeepsOwn
    <2> QED
      BY <1>0, <2>1, <2>2, <2>3, <2>4, SameAge, SteadyOnTime
  <1>2. CASE l = sched.at
    <2>1. /\ lease'[l] = ApplyWarmResult(WarmOver(lease[l]), res)
          /\ runtime'[l] = ApplyWarmRuntime(WarmOverRuntime(runtime[l]), res)
      BY <1>0, <1>2 DEF WarmReturns
    <2>2. l <= count
      BY <1>0, <1>2, SchedTypes DEF InLine, First
    <2>3. lease[l].ttl \in TTLs /\ lease[l].fp \in Fingerprints
      BY <2>2 DEF Safe, LeaseHasCache, TTLKnown
    <2>4. /\ lease'[l].ttl \in TTLs /\ lease'[l].fp \in Fingerprints
          /\ runtime'[l].misses = 0 => lease'[l].age = 0
      BY <1>0, <2>1, <2>3, ResultTouches
    <2> QED
      BY <1>0, <2>4, TouchedOnTime DEF OnTime
  <1> QED
    BY <1>1, <1>2

\* Time passes for every lease alike.
LEMMA AdvanceOnTime ==
    ASSUME Safe, Safe', InLine, InLine', NEW l \in LeaseIds, OnTime(l), Advance
    PROVE  OnTime(l)'
  <1> DEFINE a == IF lease[l].age = Never \/ lease[l].age >= MaxAge THEN lease[l].age
                  ELSE lease[l].age + 1
  <1>0. lease[l] \in Lease /\ lease[l].age \in Nat \cup {Never} /\ MaxAge \in Nat
    BY LeasesAssumption DEF Safe, TypeOK, Lease
  <1>1. /\ lease'[l] = [lease[l] EXCEPT !.age = a] /\ runtime' = runtime
        /\ UNCHANGED <<snapshot, req>>
        /\ \/ sched.pc = "asleep" /\ sched' = [sched EXCEPT !.pc = "ready"]
           \/ sched.pc = "warming" /\ sched' = [sched EXCEPT !.elapsed = @ + 1]
    BY DEF Advance
  <1>2. /\ a \in Nat \cup {Never} /\ (a = Never <=> lease[l].age = Never)
        /\ lease[l].age \in Nat => a \in Nat /\ a <= lease[l].age + 1
    BY <1>0 DEF Never
  <1>3. sched.pc # "stopped" /\ sched'.pc # "stopped"
    BY <1>1, AdvanceEffect
  <1>4. Delay(l)' + 1 = Delay(l) /\ Delay(l)' \in Nat
    BY <1>1, <1>3, AdvancedDelay, DelaysNext DEF DelaysBounded
  <1> HIDE DEF a
  <1>5. lease'[l].fp = lease[l].fp
    BY <1>0, <1>1 DEF Lease
  <1>6. KeepsOwn(l)' => KeepsOwn(l) /\ snapshot'[lease[l].fp] = snapshot[lease[l].fp]
    BY <1>1, <1>5 DEF KeepsOwn
  <1>7. lease[l].age \in Nat => a + Delay(l)' <= lease[l].age + Delay(l)
    BY <1>2, <1>4
  <1> QED
    BY <1>1, <1>2, <1>3, <1>6, <1>7, SteadyOnTime

\* A tick begins and ends without delay.
LEMMA TickOnTime ==
    ASSUME Safe, Safe', InLine, InLine', TTLKnown, NEW l \in LeaseIds, OnTime(l),
           TickBegins \/ TickEnds
    PROVE  OnTime(l)'
  <1>0. /\ lease[l] \in Lease /\ UNCHANGED <<count, lease, runtime, snapshot, req>>
        /\ sched.pc # "stopped" /\ sched'.pc # "stopped"
    BY TickEffect DEF Safe, TypeOK
  <1>1. CASE l > count
    <2>1. lease'[l].age = Never
      BY <1>0, <1>1, SchedTypes DEF TTLKnown
    <2> QED
      BY <2>1 DEF OnTime, Warmable, Skips
  <1>2. CASE ~(l > count)
    <2>1. Delay(l)' = Delay(l) /\ Delay(l) \in Nat
      BY <1>0, <1>2, TickDelay, DelayBound
    <2>2. KeepsOwn(l)' => KeepsOwn(l) /\ snapshot'[lease[l].fp] = snapshot[lease[l].fp]
      BY <1>0 DEF KeepsOwn
    <2> QED
      BY <1>0, <2>1, <2>2, SameAge, SteadyOnTime
  <1> QED
    BY <1>1, <1>2

\* The start of a request keeps the TTL; an invalidation also keeps the age.
LEMMA StartTimes ==
    ASSUME NEW L \in Lease, NEW n \in 0..MaxTargets
    PROVE  /\ BeforeNormalRequest(SyncTargets(L, n)).ttl = L.ttl
           /\ Invalidate(L).ttl = L.ttl /\ Invalidate(L).age = L.age
           /\ Invalidate(L).state = "invalidated"
  <1> DEFINE S == [L EXCEPT !.targets = 1..n]
  <1>1. S \in Lease /\ S.ttl = L.ttl
    <2>1. 1..n \in SUBSET (1..MaxTargets)
      BY LeasesAssumption
    <2> QED
      BY <2>1 DEF Lease
  <1>2. \A K \in Lease : /\ Arm(K) \in Lease /\ Disarm(K) \in Lease
                         /\ Arm(K).ttl = K.ttl /\ Disarm(K).ttl = K.ttl
    BY DEF Arm, Disarm, Lease, LeaseStates
  <1>3. SyncTargets(L, n) \in Lease /\ SyncTargets(L, n).ttl = L.ttl
    BY <1>1, <1>2 DEF SyncTargets
  <1>4. \A K \in Lease : BeforeNormalRequest(K).ttl = K.ttl
    BY DEF BeforeNormalRequest, Lease
  <1>5. /\ Invalidate(L).ttl = L.ttl /\ Invalidate(L).age = L.age
        /\ Invalidate(L).state = "invalidated"
    BY DEF Invalidate, Lease
  <1> QED
    BY <1>3, <1>4, <1>5

\* What the start of request r on lease l does to the clocks: the lease is busy,
\* and the others are invalidated or as they were.
BeginMoves(r, l) ==
    /\ sched.pc # "stopped" /\ sched' = sched
    /\ l <= count' /\ \A k \in LeaseIds \ {l} : k <= count' <=> k <= count
    /\ runtime'[l].realActive /\ lease'[l].ttl \in TTLs
    /\ \A k \in LeaseIds \ {l} :
          \/ lease'[k] = lease[k] /\ runtime'[k] = runtime[k]
          \/ /\ lease'[k].state = "invalidated" /\ lease'[k].ttl = lease[k].ttl
             /\ lease'[k].age = lease[k].age
    /\ req'[r].lease = l /\ \A q \in Requests \ {r} : req'[q] = req[q]
    /\ \A g \in Fingerprints : snapshot'[g] \in {snapshot[g], r}

\* ... from Begin, ...
LEMMA BeginTimes ==
    ASSUME Safe, TTLKnown, NEW r \in Requests, NEW f \in Fingerprints,
           NEW n \in 0..MaxTargets,
           NEW l \in LeaseIds, NEW lease1 \in [LeaseIds -> Lease],
           NEW runtime1 \in [LeaseIds -> Runtime],
           Begin(r, f, n, l, lease1, runtime1)
    PROVE  /\ runtime'[l].realActive /\ lease'[l].ttl = lease1[l].ttl
           /\ \A k \in LeaseIds \ {l} : lease'[k] = lease1[k] /\ runtime'[k] = runtime1[k]
           /\ req'[r].lease = l /\ \A q \in Requests \ {r} : req'[q] = req[q]
           /\ \A g \in Fingerprints : snapshot'[g] \in {snapshot[g], r}
  <1> DEFINE L == BeforeNormalRequest(SyncTargets(lease1[l], n))
             R == BeforeNormalRuntime(runtime1[l])
  <1>1. /\ lease' = [lease1 EXCEPT ![l] = L] /\ runtime' = [runtime1 EXCEPT ![l] = R]
        /\ snapshot' = IF f \in Opaque THEN snapshot ELSE [snapshot EXCEPT ![f] = r]
        /\ req' = [req EXCEPT ![r] = [pc |-> "sent", lease |-> l,
                                      generation |-> L.generation]]
    BY DEF Begin
  <1>2. L.ttl = lease1[l].ttl /\ R.realActive
    BY StartTimes DEF BeforeNormalRuntime, Runtime
  <1> HIDE DEF L, R
  <1>3. /\ lease'[l] = L /\ runtime'[l] = R
        /\ \A k \in LeaseIds \ {l} : lease'[k] = lease1[k] /\ runtime'[k] = runtime1[k]
    BY <1>1
  <1>4. req \in [Requests -> Reqs] /\ snapshot \in [Fingerprints -> Requests \cup {NoRequest}]
    BY DEF Safe, TypeOK
  <1>5. /\ req'[r].lease = l /\ \A q \in Requests \ {r} : req'[q] = req[q]
        /\ \A g \in Fingerprints : snapshot'[g] \in {snapshot[g], r}
    BY <1>1, <1>4
  <1> QED
    BY <1>2, <1>3, <1>5

\* ... for both starts.
LEMMA StartMoves ==
    ASSUME Safe, TTLKnown, NEW r \in Requests, NEW s \in Sessions, NEW f \in Fingerprints,
           NEW n \in 0..MaxTargets, NEW ttl \in TTLs,
           StartOnLease(r, s, f, n) \/ StartNewLease(r, s, f, n, ttl)
    PROVE  \E l \in LeaseIds : BeginMoves(r, l)
  <1>0. lease \in [LeaseIds -> Lease] /\ runtime \in [LeaseIds -> Runtime] /\ count \in Nat
        /\ MaxLeases \in Nat
    BY RelayAssumption DEF Safe, TypeOK
  <1>1. CASE StartOnLease(r, s, f, n)
    <2> DEFINE l == byFp[f]
    <2>1. /\ l \in 1..count /\ count' = count /\ sched' = sched /\ LoopFree
          /\ Begin(r, f, n, l, lease, runtime)
      BY <1>1 DEF StartOnLease, Found, Safe, TypeOK, TableHasLease
    <2>2. l \in LeaseIds
      BY <2>1 DEF Safe, TypeOK, LeaseIds
    <2> HIDE DEF l
    <2>3. lease[l].ttl \in TTLs
      BY <2>1, <2>2 DEF TTLKnown
    <2>4. /\ runtime'[l].realActive /\ lease'[l].ttl = lease[l].ttl
          /\ \A k \in LeaseIds \ {l} : lease'[k] = lease[k] /\ runtime'[k] = runtime[k]
          /\ req'[r].lease = l /\ \A q \in Requests \ {r} : req'[q] = req[q]
          /\ \A g \in Fingerprints : snapshot'[g] \in {snapshot[g], r}
      BY <1>0, <2>1, <2>2, BeginTimes
    <2>5. BeginMoves(r, l)
      BY <1>0, <2>1, <2>3, <2>4 DEF BeginMoves, LoopFree
    <2> QED
      BY <2>2, <2>5
  <1>2. CASE StartNewLease(r, s, f, n, ttl)
    <2> DEFINE old == Superseded(s, f)
               lease1 == [k \in LeaseIds |->
                     IF k = count + 1 THEN NewLease(s, f, ttl)
                     ELSE IF k \in old THEN Invalidate(lease[k]) ELSE lease[k]]
               runtime1 == [k \in LeaseIds |->
                     IF k \in old THEN InvalidateRuntime(runtime[k]) ELSE runtime[k]]
               l == count + 1
    <2>1. Begin(r, f, n, l, lease1, runtime1)
      BY <1>2, Zenon DEF StartNewLease
    <2>2. /\ l \in LeaseIds /\ LoopFree /\ sched' = sched /\ count' = l
      BY <1>0, <1>2 DEF StartNewLease, LeaseIds
    <2>3. /\ lease1 \in [LeaseIds -> Lease] /\ lease1[l] = NewLease(s, f, ttl)
          /\ \A k \in LeaseIds \ {l} :
                lease1[k] = IF k \in old THEN Invalidate(lease[k]) ELSE lease[k]
      BY <1>0, <2>2, ArmFacts, NewLeaseFacts
    <2>4. \A R \in Runtime : InvalidateRuntime(R) \in Runtime
      BY DEF InvalidateRuntime, Runtime
    <2>5. /\ runtime1 \in [LeaseIds -> Runtime]
          /\ \A k \in LeaseIds : k \notin old => runtime1[k] = runtime[k]
      BY <1>0, <2>4
    <2>6. NewLease(s, f, ttl).ttl = ttl
      BY DEF NewLease, EmptyLease
    <2> HIDE DEF lease1, runtime1, l, old
    <2>7. /\ runtime'[l].realActive /\ lease'[l].ttl = lease1[l].ttl
          /\ \A k \in LeaseIds \ {l} : lease'[k] = lease1[k] /\ runtime'[k] = runtime1[k]
          /\ req'[r].lease = l /\ \A q \in Requests \ {r} : req'[q] = req[q]
          /\ \A g \in Fingerprints : snapshot'[g] \in {snapshot[g], r}
      BY <2>1, <2>2, <2>3, <2>5, BeginTimes
    <2>8. ASSUME NEW k \in LeaseIds \ {l}
          PROVE  \/ lease'[k] = lease[k] /\ runtime'[k] = runtime[k]
                 \/ /\ lease'[k].state = "invalidated" /\ lease'[k].ttl = lease[k].ttl
                    /\ lease'[k].age = lease[k].age
      <3>1. lease[k] \in Lease
        BY <1>0
      <3>2. CASE k \in old
        BY <2>3, <2>7, <3>1, <3>2, StartTimes
      <3>3. CASE k \notin old
        BY <2>3, <2>5, <2>7, <3>3
      <3> QED
        BY <3>2, <3>3
    <2>9. \A k \in LeaseIds \ {l} : k <= count' <=> k <= count
      BY <1>0, <2>2 DEF l, LeaseIds
    <2>10. l <= count'
      BY <1>0, <2>2 DEF l
    <2>11. BeginMoves(r, l)
      BY <2>2, <2>3, <2>6, <2>7, <2>8, <2>9, <2>10 DEF BeginMoves, LoopFree
    <2> QED
      BY <2>2, <2>11
  <1> QED
    BY <1>1, <1>2

\* A request that starts keeps the other leases on time; its own is busy.
LEMMA BeginOnTime ==
    ASSUME Safe, Safe', InLine, InLine', NEW r \in Requests, NEW l \in LeaseIds,
           BeginMoves(r, l), NEW k \in LeaseIds, OnTime(k), k <= count
    PROVE  OnTime(k)'
  <1>0. lease[k] \in Lease /\ lease[k].fp \in Fingerprints
    BY DEF Safe, TypeOK, LeaseHasCache
  <1>1. CASE k = l \/ lease'[k].state = "invalidated"
    BY <1>1 DEF BeginMoves, OnTime, Warmable, Skips
  <1>2. CASE k # l /\ lease'[k].state # "invalidated"
    <2>1. lease'[k] = lease[k] /\ runtime'[k] = runtime[k]
      BY <1>2 DEF BeginMoves
    <2>2. Delay(k)' = Delay(k) /\ Delay(k) \in Nat
      <3>1. sched' = sched /\ sched.pc # "stopped"
        BY DEF BeginMoves
      <3> QED
        BY <3>1, DelayBound DEF Delay, First, Left
    <2>3. KeepsOwn(k)' => KeepsOwn(k) /\ snapshot'[lease[k].fp] = snapshot[lease[k].fp]
      <3> SUFFICES ASSUME KeepsOwn(k)'
                   PROVE  KeepsOwn(k) /\ snapshot'[lease[k].fp] = snapshot[lease[k].fp]
        OBVIOUS
      <3>1. /\ snapshot'[lease[k].fp] \in Requests
            /\ req'[snapshot'[lease[k].fp]].lease = k
        BY <2>1 DEF KeepsOwn
      <3>2. snapshot'[lease[k].fp] # r
        BY <1>2, <3>1 DEF BeginMoves
      <3>3. snapshot'[lease[k].fp] = snapshot[lease[k].fp]
        BY <1>0, <3>2 DEF BeginMoves
      <3> QED
        BY <3>1, <3>2, <3>3 DEF BeginMoves, KeepsOwn
    <2>4. sched.pc # "stopped"
      BY DEF BeginMoves
    <2> QED
      BY <1>0, <2>1, <2>2, <2>3, <2>4, SameAge, SteadyOnTime
  <1> QED
    BY <1>1, <1>2

\* The end of a request: the TTL resolved now, and a touch unless the request
\* failed or the lease is invalidated.
LEMMA EndTouches ==
    ASSUME NEW L \in Lease, NEW outcome, NEW prefix \in Prefixes \cup {0}, NEW ttl \in TTLs
    PROVE  LET M == RefreshTTL(UpdateCostEstimates(AfterNormalRequest(L, outcome),
                                                   prefix), ttl)
           IN  /\ M.ttl = ttl /\ M.fp = L.fp
               /\ L.state = "invalidated" => M.state = "invalidated"
               /\ L.state # "invalidated" /\ outcome # "failed" => M.age = 0
  <1> DEFINE A == AfterNormalRequest(L, outcome)
             T == [L EXCEPT !.age = 0]
  <1>1. T \in Lease /\ T.age = 0 /\ T.fp = L.fp
    BY DEF Lease
  <1>2. \A K \in Lease : /\ Arm(K) \in Lease /\ Disarm(K) \in Lease
                         /\ Arm(K).age = K.age /\ Disarm(K).age = K.age
                         /\ Arm(K).fp = K.fp /\ Disarm(K).fp = K.fp
    BY DEF Arm, Disarm, Lease, LeaseStates
  <1>3. /\ A \in Lease /\ A.fp = L.fp
        /\ L.state = "invalidated" => A.state = "invalidated"
        /\ L.state # "invalidated" /\ outcome # "failed" => A.age = 0
    BY <1>1, <1>2 DEF AfterNormalRequest
  <1>4. prefix \in Nat /\ ttl \in Nat
    BY LeasesAssumption
  <1>5. ASSUME NEW M \in Lease
        PROVE  LET N == RefreshTTL(UpdateCostEstimates(M, prefix), ttl)
               IN  N.ttl = ttl /\ N.fp = M.fp /\ N.state = M.state /\ N.age = M.age
    BY <1>4 DEF RefreshTTL, UpdateCostEstimates, Lease
  <1> HIDE DEF A
  <1> QED
    BY <1>3, <1>5 DEF A

\* What the end of a request on lease l does to the clocks: the lease is touched
\* unless there is nothing to warm it with or for, and the others stay.
EndMoves(l) ==
    /\ sched.pc # "stopped" /\ sched' = sched /\ count' = count /\ l <= count
    /\ \A k \in LeaseIds \ {l} : lease'[k] = lease[k] /\ runtime'[k] = runtime[k]
    /\ lease'[l].ttl \in TTLs /\ lease'[l].fp = lease[l].fp
    /\ \/ lease'[l].state = "invalidated"
       \/ snapshot'[lease[l].fp] = NoRequest
       \/ lease'[l].age = 0
    /\ \A g \in Fingerprints : snapshot'[g] \in {snapshot[g], NoRequest}
    /\ \A q \in Requests : req'[q].lease = req[q].lease

\* ... for every way a request ends of which the resolver is asked without an error.
LEMMA EndTimes ==
    ASSUME Unresolved = {}, Safe, NEW r \in Requests, NEW outcome,
           NEW prefix \in Prefixes \cup {0}, NEW ttl \in TTLs, NEW unstable, NEW pc,
           LoopFree, req[r].pc = "sent", End(r, outcome, prefix, ttl, unstable),
           req' = [req EXCEPT ![r].pc = pc]
    PROVE  \E l \in LeaseIds : EndMoves(l)
  <1> DEFINE l == req[r].lease
             L == RefreshTTL(UpdateCostEstimates(AfterNormalRequest(lease[l], outcome),
                                                 prefix), ttl)
             R == AfterNormalRuntime(runtime[l], lease[l], outcome)
  <1>0. /\ l \in LeaseIds /\ l <= count /\ lease[l] \in Lease
        /\ lease \in [LeaseIds -> Lease] /\ runtime \in [LeaseIds -> Runtime]
        /\ req \in [Requests -> Reqs]
        /\ snapshot \in [Fingerprints -> Requests \cup {NoRequest}]
    <2>1. l \in 1..count /\ count \in 0..MaxLeases
      BY DEF Safe, RequestHasLease, TypeOK
    <2>2. l \in LeaseIds /\ l <= count
      BY <2>1, RelayAssumption DEF LeaseIds
    <2> QED
      BY <2>2 DEF Safe, TypeOK
  <1>1. lease[l].fp \in Fingerprints
    BY <1>0 DEF Safe, LeaseHasCache
  <1>2. /\ lease' = [lease EXCEPT ![l] = L] /\ runtime' = [runtime EXCEPT ![l] = R]
        /\ snapshot' = SnapshotAfter(lease[l].fp, outcome)
        /\ UNCHANGED <<count, sched>>
    BY EndSplit DEF Told
  <1>3. /\ L.ttl = ttl /\ L.fp = lease[l].fp
        /\ lease[l].state = "invalidated" => L.state = "invalidated"
        /\ lease[l].state # "invalidated" /\ outcome # "failed" => L.age = 0
    BY <1>0, EndTouches
  <1>4. \A q \in Requests : req'[q].lease = req[q].lease
    BY <1>0 DEF Reqs
  <1>5. /\ \A g \in Fingerprints : snapshot'[g] \in {snapshot[g], NoRequest}
        /\ outcome = "failed" => snapshot'[lease[l].fp] = NoRequest
    BY <1>0, <1>1, <1>2 DEF SnapshotAfter
  <1> HIDE DEF L, R, l
  <1>6. /\ lease'[l] = L
        /\ \A k \in LeaseIds \ {l} : lease'[k] = lease[k] /\ runtime'[k] = runtime[k]
    BY <1>0, <1>2
  <1>7. EndMoves(l)
    BY <1>0, <1>2, <1>3, <1>4, <1>5, <1>6 DEF EndMoves, LoopFree
  <1> QED
    BY <1>0, <1>7

\* A request that ends keeps every lease on time.
LEMMA EndOnTime ==
    ASSUME RoundFits, Safe, Safe', InLine, InLine', NEW l \in LeaseIds, EndMoves(l),
           NEW k \in LeaseIds, OnTime(k), k <= count
    PROVE  OnTime(k)'
  <1>0. lease[k] \in Lease /\ lease[k].fp \in Fingerprints /\ NoRequest \notin Requests
    BY LeasesAssumption DEF Safe, TypeOK, LeaseHasCache
  <1>1. CASE k = l
    <2> SUFFICES ASSUME Warmable(l)', KeepsOwn(l)'
                 PROVE  /\ lease'[l].age + Delay(l)' < lease'[l].ttl
                        /\ lease'[l].age + Delay(l)' <= Fresh
      BY <1>1 DEF OnTime
    <2>1. lease'[l].age = 0
      BY DEF EndMoves, Warmable, Skips
    <2> QED
      BY <1>0, <1>1, <2>1, TouchedOnTime DEF EndMoves
  <1>2. CASE k # l
    <2>1. lease'[k] = lease[k] /\ runtime'[k] = runtime[k]
      BY <1>2 DEF EndMoves
    <2>2. Delay(k)' = Delay(k) /\ Delay(k) \in Nat
      <3>1. sched' = sched /\ sched.pc # "stopped"
        BY DEF EndMoves
      <3> QED
        BY <3>1, DelayBound DEF Delay, First, Left
    <2>3. KeepsOwn(k)' => KeepsOwn(k) /\ snapshot'[lease[k].fp] = snapshot[lease[k].fp]
      BY <1>0, <2>1 DEF EndMoves, KeepsOwn
    <2>4. sched.pc # "stopped"
      BY DEF EndMoves
    <2> QED
      BY <1>0, <2>1, <2>2, <2>3, <2>4, SameAge, SteadyOnTime
  <1> QED
    BY <1>1, <1>2

\* A lease that does not exist is not warmable.
LEMMA NoneOnTime ==
    ASSUME NEW k \in LeaseIds, lease'[k].age = Never
    PROVE  OnTime(k)'
  BY DEF OnTime, Warmable, Skips

\* Every step of a request.
LEMMA RequestOnTime ==
    ASSUME RoundFits, Unresolved = {}, Safe, Safe', Timed, InLine', RequestStep
    PROVE  TTLKnown' /\ \A k \in LeaseIds : OnTime(k)'
  <1>0. count \in Nat /\ count' \in Nat /\ LeaseIds \subseteq Nat
    BY SchedTypes DEF Safe, TypeOK, LeaseIds
  <1>1. ASSUME NEW r \in Requests, NEW l \in LeaseIds, BeginMoves(r, l)
        PROVE  TTLKnown' /\ \A k \in LeaseIds : OnTime(k)'
    <2>1. TTLKnown'
      BY <1>1 DEF BeginMoves, Timed, TTLKnown
    <2>2. ASSUME NEW k \in LeaseIds PROVE OnTime(k)'
      <3>1. CASE k <= count
        BY <1>1, <3>1, BeginOnTime DEF Timed
      <3>2. CASE ~(k <= count) /\ k # l
        <4>1. lease'[k].age = Never
          BY <1>1, <3>2 DEF BeginMoves, Timed, TTLKnown
        <4> QED
          BY <4>1, NoneOnTime
      <3>3. CASE k = l
        BY <1>1, <3>3 DEF BeginMoves, OnTime, Warmable, Skips
      <3> QED
        BY <3>1, <3>2, <3>3
    <2> QED
      BY <2>1, <2>2
  <1>2. ASSUME NEW l \in LeaseIds, EndMoves(l)
        PROVE  TTLKnown' /\ \A k \in LeaseIds : OnTime(k)'
    <2>1. TTLKnown'
      BY <1>2 DEF EndMoves, Timed, TTLKnown
    <2>2. ASSUME NEW k \in LeaseIds PROVE OnTime(k)'
      <3>1. CASE k <= count
        BY <1>2, <3>1, EndOnTime DEF Timed
      <3>2. CASE ~(k <= count)
        <4>1. lease'[k].age = Never
          BY <1>2, <3>2 DEF EndMoves, Timed, TTLKnown
        <4> QED
          BY <4>1, NoneOnTime
      <3> QED
        BY <3>1, <3>2
    <2> QED
      BY <2>1, <2>2
  <1>3. ASSUME NEW r \in Requests, StreamEnds(r) \/ BodyReadFails(r)
        PROVE  TTLKnown' /\ \A k \in LeaseIds : OnTime(k)'
    <2>1. /\ UNCHANGED <<count, lease, runtime, snapshot, sched>>
          /\ \A q \in Requests : req'[q].lease = req[q].lease
      BY <1>3 DEF StreamEnds, BodyReadFails, Safe, TypeOK, Reqs
    <2>2. ASSUME NEW k \in LeaseIds PROVE OnTime(k)'
      <3>1. Delay(k)' = Delay(k) /\ (Warmable(k)' <=> Warmable(k)) /\ (Stale(k)' <=> Stale(k))
        BY <2>1 DEF Delay, First, Left, Warmable, Skips, Stale
      <3>2. KeepsOwn(k)' <=> KeepsOwn(k)
        BY <2>1 DEF KeepsOwn
      <3> QED
        BY <2>1, <3>1, <3>2 DEF Timed, OnTime
    <2> QED
      BY <2>1, <2>2 DEF Timed, TTLKnown
  <1>4. PICK r \in Requests :
           \/ \E s \in Sessions, f \in Fingerprints, n \in 0..MaxTargets :
                 \/ StartOnLease(r, s, f, n)
                 \/ \E ttl \in TTLs : StartNewLease(r, s, f, n, ttl)
           \/ \E s \in Sessions, f \in Fingerprints : StartUntracked(r, s, f)
           \/ \E ttl \in TTLs :
                 \/ RequestFails(r, ttl)
                 \/ \E unstable \in BOOLEAN :
                       \/ ErrorUnobserved(r, ttl, unstable)
                       \/ StreamingResponse(r, ttl, unstable)
                       \/ \E outcome \in Outcomes, prefix \in Prefixes \cup {0} :
                             BoundedResponse(r, outcome, prefix, ttl, unstable)
           \/ StreamEnds(r)
           \/ BodyReadFails(r)
    BY Zenon DEF RequestStep
  <1>5. ASSUME NEW s \in Sessions, NEW f \in Fingerprints, NEW n \in 0..MaxTargets,
               \/ StartOnLease(r, s, f, n)
               \/ \E ttl \in TTLs : StartNewLease(r, s, f, n, ttl)
        PROVE  \E l \in LeaseIds : BeginMoves(r, l)
    <2>1. PICK ttl \in TTLs : StartOnLease(r, s, f, n) \/ StartNewLease(r, s, f, n, ttl)
      BY <1>5, LeasesAssumption, Zenon
    <2> QED
      BY <2>1, StartMoves DEF Timed
  <1>6. ASSUME NEW ttl \in TTLs,
               \/ RequestFails(r, ttl)
               \/ \E unstable \in BOOLEAN :
                     \/ ErrorUnobserved(r, ttl, unstable)
                     \/ StreamingResponse(r, ttl, unstable)
                     \/ \E outcome \in Outcomes, prefix \in Prefixes \cup {0} :
                           BoundedResponse(r, outcome, prefix, ttl, unstable)
        PROVE  \E l \in LeaseIds : EndMoves(l)
    <2>1. \E outcome, unstable, pc : \E prefix \in Prefixes \cup {0} :
             /\ LoopFree /\ req[r].pc = "sent" /\ End(r, outcome, prefix, ttl, unstable)
             /\ req' = [req EXCEPT ![r].pc = pc]
      <3>1. 0 \in Prefixes \cup {0}
        OBVIOUS
      <3> QED
        BY <1>6, <3>1, Zenon
           DEF RequestFails, ErrorUnobserved, StreamingResponse, BoundedResponse
    <2> QED
      BY <2>1, EndTimes
  <1>7. \A s, f : ~StartUntracked(r, s, f)
    BY DEF StartUntracked
  <1> QED
    BY <1>1, <1>2, <1>3, <1>4, <1>5, <1>6, <1>7

\* Every other step.
LEMMA OtherOnTime ==
    ASSUME RoundFits, Safe, Safe', Timed, InLine',
           SchedulerStep \/ WarmStep \/ Advance \/ Stop \/ Stopped \/ UNCHANGED vars
    PROVE  TTLKnown' /\ \A k \in LeaseIds : OnTime(k)'
  <1>0. /\ lease \in [LeaseIds -> Lease] /\ InLine /\ TTLKnown /\ \A l \in LeaseIds : OnTime(l)
        /\ count \in Nat /\ LeaseIds \subseteq Nat
    BY SchedTypes DEF Safe, TypeOK, Timed, LeaseIds
  \* The TTLs are the requests' business.
  <1>1. ASSUME count' = count,
               \A l \in LeaseIds : /\ lease'[l].ttl = lease[l].ttl
                                   /\ l <= count \/ lease'[l].age = lease[l].age
        PROVE  TTLKnown'
    BY <1>0, <1>1 DEF TTLKnown
  <1>2. CASE TickBegins \/ TickEnds
    BY <1>0, <1>1, <1>2, TickEffect, TickOnTime
  <1>3. ASSUME NEW k \in LeaseIds, EvaluateLease(k)
        PROVE  TTLKnown' /\ \A l \in LeaseIds : OnTime(l)'
    <2>1. k <= count /\ count' = count
          /\ \A l \in LeaseIds : l # k => lease'[l] = lease[l]
      BY <1>3, EvaluateMoves, SchedTypes
    <2>2. lease[k] \in Lease
      BY <1>0
    <2>3. \/ lease'[k] = lease[k] \/ lease'[k] = Arm(lease[k])
          \/ \E st : lease'[k] = [lease[k] EXCEPT !.state = st]
      BY <1>0, <1>3, <2>2
         DEF EvaluateLease, EvaluateSkip, EvaluateSchedule, EvaluateEconomicStop,
             EvaluateRefuse, EvaluateDecline, SendWarm
    <2>4. lease'[k].ttl = lease[k].ttl
      BY <2>2, <2>3 DEF Arm, Lease
    <2>5. TTLKnown'
      BY <1>1, <2>1, <2>4
    <2> QED
      BY <1>0, <1>3, <2>5, EvaluateOnTime
  <1>4. ASSUME NEW res \in WarmResults, WarmReturns(res)
        PROVE  TTLKnown' /\ \A l \in LeaseIds : OnTime(l)'
    <2>1. PICK k \in LeaseIds : k = sched.at
      BY <1>4, ReturnMoves
    <2>2. k <= count /\ count' = count
          /\ \A l \in LeaseIds : l # k => lease'[l] = lease[l]
      BY <1>0, <1>4, <2>1, ReturnMoves, SchedTypes DEF InLine, First
    <2>3. /\ lease[k] \in Lease /\ runtime[k] \in Runtime
          /\ lease'[k] = ApplyWarmResult(WarmOver(lease[k]), res)
      BY <1>0, <1>4, <2>1 DEF WarmReturns, Safe, TypeOK
    <2>4. lease'[k].ttl = lease[k].ttl
      BY <2>3, ResultTouches
    <2>5. TTLKnown'
      BY <1>1, <2>2, <2>4
    <2> QED
      BY <1>0, <1>4, <2>5, ReturnOnTime
  <1>5. CASE Advance
    <2>1. /\ count' = count
          /\ \A l \in LeaseIds :
                lease'[l] = [lease[l] EXCEPT !.age = IF @ = Never \/ @ >= MaxAge THEN @ ELSE @ + 1]
      BY <1>5 DEF Advance
    <2>2. \A l \in LeaseIds : /\ lease'[l].ttl = lease[l].ttl
                              /\ lease[l].age = Never => lease'[l].age = Never
      BY <1>0, <2>1 DEF Lease
    <2>3. TTLKnown'
      BY <1>0, <2>1, <2>2 DEF TTLKnown
    <2> QED
      BY <1>0, <1>5, <2>3, AdvanceOnTime
  <1>6. CASE Stop
    <2>1. sched'.pc = "stopped" /\ count' = count
      BY <1>6, StopEffect
    <2>2. \A K \in Lease : WarmOver(K).ttl = K.ttl /\ WarmOver(K).age = K.age
      BY DEF WarmOver, Arm, Lease
    <2>3. \A l \in LeaseIds : lease'[l] = lease[l] \/ lease'[l] = WarmOver(lease[l])
      BY <1>0, <1>6 DEF Stop
    <2>4. TTLKnown'
      BY <1>0, <1>1, <2>1, <2>2, <2>3
    <2> QED
      BY <2>1, <2>4 DEF OnTime, Warmable
  <1>7. CASE Stopped \/ UNCHANGED vars
    <2>1. UNCHANGED vars
      BY <1>7 DEF Stopped
    <2>2. \A l \in LeaseIds : OnTime(l)' <=> OnTime(l)
      BY <2>1 DEF vars, OnTime, Warmable, Skips, KeepsOwn, Stale, Delay, First, Left
    <2> QED
      BY <1>0, <2>1, <2>2 DEF vars, TTLKnown
  <1> QED
    BY <1>2, <1>3, <1>4, <1>5, <1>6, <1>7 DEF SchedulerStep, WarmStep

\* No warmable cache expires unattended (ServedInTime), however many leases
\* share the scheduler and whatever clients, responses and warms do, if the
\* deadline leaves room for a round of the scheduler (RoundFits) and the end of no
\* request is cut short, which would leave a lease that is not fresh to be warmed.
THEOREM NoCacheExpires ==
    ASSUME RoundFits, Unresolved = {}
    PROVE  Spec => []ServedInTime
  <1>1. Init => Timed
    <2> SUFFICES ASSUME Init PROVE Timed
      OBVIOUS
    <2>1. /\ sched.pc = "ready" /\ sched.at = 1 /\ sched.upto = 0 /\ sched.elapsed = 0
          /\ count = 0 /\ \A l \in LeaseIds : lease[l].age = Never
      BY DEF Init, EmptyLease
    <2>2. InLine
      BY <2>1, TimeoutFacts DEF InLine, First
    <2>3. TTLKnown
      BY <2>1 DEF TTLKnown, LeaseIds
    <2>4. \A l \in LeaseIds : OnTime(l)
      BY <2>1 DEF OnTime, Warmable, Skips
    <2> QED
      BY <2>2, <2>3, <2>4 DEF Timed
  <1>2. Safe /\ Safe' /\ Timed /\ [Next]_vars => Timed'
    <2> SUFFICES ASSUME Safe, Safe', Timed, [Next]_vars PROVE Timed'
      OBVIOUS
    <2>1. InLine'
      BY InLineKept DEF Timed
    <2>2. TTLKnown' /\ \A l \in LeaseIds : OnTime(l)'
      BY <2>1, RequestOnTime, OtherOnTime DEF Next
    <2> QED
      BY <2>1, <2>2 DEF Timed
  <1>3. Safe /\ Timed => ServedInTime
    <2> SUFFICES ASSUME Safe, Timed, NEW l \in LeaseIds,
                        Warmable(l), KeepsOwn(l), runtime[l].misses = 0
                 PROVE  lease[l].age < lease[l].ttl
      BY DEF ServedInTime
    <2>1. sched.pc # "stopped" /\ lease[l].age # Never
      BY DEF Warmable, Skips
    <2>2. Delay(l) \in Nat
      BY <2>1, DelayBound DEF Timed
    <2>3. lease[l].age \in Nat /\ lease[l].ttl \in Nat
      BY <2>1, SameAge DEF Safe, TypeOK
    <2>4. lease[l].age + Delay(l) < lease[l].ttl
      BY DEF Timed, OnTime
    <2> QED
      BY <2>2, <2>3, <2>4
  <1> QED
    BY <1>1, <1>2, <1>3, Safety, PTL DEF Spec

-----------------------------------------------------------------------------
(* Settings that leave room for a round *)

\* For every TTL and jitter: the deadline, whether warm_fraction or the margin sets
\* it, comes after the longest wait for the first evaluation of a lease just
\* touched, and one of the two sets it a round of the scheduler before the TTL.
SettingsFit ==
    \A ttl \in TTLs, f \in Fingerprints :
        LET scale == 100 + JitterPct[f]
        IN  /\ (ttl * WarmPct) * scale > 10000 * Fresh
            /\ (100 * (ttl - Margin)) * scale > 10000 * Fresh
            /\ \/ (ttl * WarmPct) * scale + 10000 * Round <= 10000 * ttl
               \/ (100 * (ttl - Margin)) * scale + 10000 * Round <= 10000 * ttl

\* A factor keeps the order.
LEMMA Scaled ==
    ASSUME NEW x \in Int, NEW y \in Int, NEW k \in Nat, x <= y
    PROVE  x * k <= y * k
  <1> DEFINE d == y - x
  <1>1. d \in Nat /\ y = x + d
    OBVIOUS
  <1> HIDE DEF d
  <1>2. d * k \in Nat /\ x * k \in Int
    BY <1>1
  <1>3. y * k = x * k + d * k
    BY <1>1
  <1> QED
    BY <1>2, <1>3

\* The rounds are numbers.
LEMMA RoundTypes == Round \in Nat /\ Fresh \in Nat
  <1>1. MaxLeases - 1 \in Nat /\ 2 * MaxLeases - 1 \in Nat
    BY RelayAssumption
  <1> QED
    BY <1>1, WarmsNone DEF Round, Fresh

\* Settings that fit leave room for a round.
LEMMA SettingsGiveRound ==
    ASSUME SettingsFit
    PROVE  RoundFits
  <1> SUFFICES ASSUME NEW L \in Lease, L.fp \in Fingerprints, L.ttl \in TTLs, L.age \in Nat
               PROVE  /\ L.age <= Fresh => ~Due(L)
                      /\ ~Due(L) => L.age + Round < L.ttl
    BY DEF RoundFits
  <1> DEFINE age == L.age
             ttl == L.ttl
             k == 100 + JitterPct[L.fp]
             bf == ttl * WarmPct
             bm == 100 * (ttl - Margin)
             w == IF bf < bm THEN bf ELSE bm
  <1>1. age \in Nat /\ ttl \in Nat /\ k \in Nat /\ bf \in Int /\ bm \in Int
    <2>1. JitterPct[L.fp] \in -100..100 /\ WarmPct \in 1..100 /\ Margin \in Nat /\ ttl \in Nat
      BY LeasesAssumption
    <2> QED
      BY <2>1
  <1>2. Due(L) <=> 10000 * age >= w * k
    BY DEF Due
  <1>3. /\ bf * k > 10000 * Fresh /\ bm * k > 10000 * Fresh
        /\ bf * k + 10000 * Round <= 10000 * ttl \/ bm * k + 10000 * Round <= 10000 * ttl
    BY DEF SettingsFit
  <1> HIDE DEF age, ttl, k, bf, bm
  <1>4. w \in Int /\ w <= bf /\ w <= bm /\ (w = bf \/ w = bm)
    BY <1>1
  <1> HIDE DEF w
  <1>5. w * k \in Int /\ w * k > 10000 * Fresh
    BY <1>1, <1>3, <1>4
  <1>6. w * k + 10000 * Round <= 10000 * ttl
    <2>1. w * k <= bf * k /\ w * k <= bm * k
      BY <1>1, <1>4, Scaled
    <2>2. bf * k \in Int /\ bm * k \in Int
      BY <1>1
    <2> DEFINE x == w * k
               y == bf * k
               z == bm * k
    <2> HIDE DEF x, y, z
    <2>3. x \in Int /\ y \in Int /\ z \in Int /\ x <= y /\ x <= z
          /\ (y + 10000 * Round <= 10000 * ttl \/ z + 10000 * Round <= 10000 * ttl)
      BY <1>3, <1>5, <2>1, <2>2 DEF x, y, z
    <2>4. x + 10000 * Round <= 10000 * ttl
      BY <1>1, <2>3, RoundTypes
    <2> QED
      BY <2>4 DEF x
  <1>7. ASSUME age <= Fresh
        PROVE  ~Due(L)
    <2> DEFINE x == w * k
    <2>1. x \in Int /\ x > 10000 * Fresh
      BY <1>5
    <2> HIDE DEF x
    <2>2. ~(10000 * age >= x)
      BY <1>1, <1>7, <2>1, RoundTypes
    <2> QED
      BY <1>2, <2>2 DEF x
  <1>8. ASSUME ~Due(L)
        PROVE  age + Round < ttl
    <2> DEFINE x == w * k
    <2>1. x \in Int /\ x + 10000 * Round <= 10000 * ttl /\ ~(10000 * age >= x)
      BY <1>2, <1>5, <1>6, <1>8
    <2> HIDE DEF x
    <2> QED
      BY <1>1, <2>1, RoundTypes
  <1> QED
    BY <1>7, <1>8 DEF age, ttl

\* No warmable cache expires unattended under settings whose deadline leaves room for
\* a round: what LeaseSettings and the warm timeout must satisfy for the scheduler
\* (next_deadline, tick) to serve every lease in time.
THEOREM SettingsServeInTime ==
    ASSUME SettingsFit, Unresolved = {}
    PROVE  Spec => []ServedInTime
  BY SettingsGiveRound, NoCacheExpires

\* The defaults of LeaseSettings (leases.py:207-212): warm_fraction 0.80, jitter up to
\* 3%, one interval a second and TTLs of 300 seconds or more, with a network margin
\* of at most a minute, the warms of the other leases taking no longer than 51
\* seconds together, and those of a tick and the next one no longer than 231.
DefaultSettings ==
    /\ WarmPct = 80 /\ Margin <= 60
    /\ \A ttl \in TTLs : ttl >= 300
    /\ \A f \in Fingerprints : JitterPct[f] \in -3..3
    /\ Warms(MaxLeases - 1) <= 51 /\ Warms(2 * MaxLeases - 1) <= 231

\* With the default settings no warmable cache expires unattended.
THEOREM DefaultsServeInTime ==
    ASSUME DefaultSettings, Unresolved = {}
    PROVE  Spec => []ServedInTime
  <1>1. SettingsFit
    <2> SUFFICES ASSUME NEW ttl \in TTLs, NEW f \in Fingerprints
                 PROVE  LET scale == 100 + JitterPct[f]
                        IN  /\ (ttl * WarmPct) * scale > 10000 * Fresh
                            /\ (100 * (ttl - Margin)) * scale > 10000 * Fresh
                            /\ \/ (ttl * WarmPct) * scale + 10000 * Round <= 10000 * ttl
                               \/ (100 * (ttl - Margin)) * scale + 10000 * Round <= 10000 * ttl
      BY DEF SettingsFit
    <2> DEFINE k == 100 + JitterPct[f]
               m == ttl - Margin
    <2>1. /\ ttl \in Nat /\ ttl >= 300 /\ WarmPct = 80
          /\ k \in Nat /\ 97 <= k /\ k <= 103 /\ m \in Int /\ m >= 240
      <3>1. ttl \in Nat /\ Margin \in Nat
        BY LeasesAssumption
      <3> QED
        BY <3>1 DEF DefaultSettings
    <2>2. Round \in Nat /\ Fresh \in Nat /\ Round <= 52 /\ Fresh <= 232
      <3>1. MaxLeases - 1 \in Nat /\ 2 * MaxLeases - 1 \in Nat
        BY RelayAssumption
      <3>2. Warms(MaxLeases - 1) \in Nat /\ Warms(2 * MaxLeases - 1) \in Nat
        BY <3>1, WarmsNone
      <3> QED
        BY <3>2 DEF DefaultSettings, Round, Fresh
    <2> HIDE DEF k, m
    <2>3. /\ (ttl * 80) * 97 <= (ttl * 80) * k
          /\ (ttl * 80) * k <= (ttl * 80) * 103
          /\ (100 * m) * 97 <= (100 * m) * k
      <3>1. ttl * 80 \in Nat /\ 100 * m \in Nat
        BY <2>1
      <3>2. 97 * (ttl * 80) <= k * (ttl * 80) /\ k * (ttl * 80) <= 103 * (ttl * 80)
            /\ 97 * (100 * m) <= k * (100 * m)
        BY <2>1, <3>1, Scaled
      <3>3. \A x, y \in Int : x * y = y * x
        OBVIOUS
      <3> QED
        BY <2>1, <3>1, <3>2, <3>3
    <2> DEFINE x == (ttl * 80) * k
               y == (100 * m) * k
    <2>4. x \in Int /\ y \in Int /\ 7760 * ttl <= x /\ x <= 8240 * ttl /\ 9700 * m <= y
      BY <2>1, <2>3
    <2> HIDE DEF x, y
    <2>5. x > 10000 * Fresh /\ y > 10000 * Fresh /\ x + 10000 * Round <= 10000 * ttl
      BY <2>1, <2>2, <2>4
    <2> QED
      BY <2>1, <2>5 DEF x, y, k, m
  <1> QED
    BY <1>1, SettingsServeInTime

=============================================================================
