-------------------------- MODULE LeaseRelayProofs --------------------------
(***************************************************************************)
(* Proofs about LeaseRelay, for every value of its constants.              *)
(*                                                                         *)
(* Safe is inductive for every client; Safe /\ Serial is for clients that  *)
(* wait for an answer before they send again.  Requests and warms race on  *)
(* one lease, so the lemmas on the operators (first part) say of each what *)
(* it may do to a record a warm is using: it keeps the breaker sound, sets *)
(* no warm flag and leaves session and cache alone.  The second part has   *)
(* one lemma per action or group of actions of the same shape.             *)
(***************************************************************************)
EXTENDS LeaseRelay, TLAPS

-----------------------------------------------------------------------------
(* Operators on one lease and on one runtime record *)

\* Arm and Disarm return leases, and neither starts a warm.
LEMMA ArmFacts ==
    ASSUME NEW L \in Lease
    PROVE  /\ Arm(L) \in Lease /\ Disarm(L) \in Lease /\ Invalidate(L) \in Lease
           /\ Arm(L).state # "warming"
           /\ Disarm(L).state # "warming"
           /\ Invalidate(L).state # "warming"
           /\ Arm(L).session = L.session
           /\ Disarm(L).session = L.session
           /\ Invalidate(L).session = L.session
           /\ Arm(L).fp = L.fp /\ Disarm(L).fp = L.fp /\ Invalidate(L).fp = L.fp
  BY DEF Arm, Disarm, Invalidate, Lease, LeaseStates

\* The lease part of on_request_start returns a lease of the same session and
\* starts no warm.
LEMMA StartFacts ==
    ASSUME NEW L \in Lease, NEW n \in 0..MaxTargets
    PROVE  LET M == BeforeNormalRequest(SyncTargets(L, n))
           IN  /\ M \in Lease
               /\ M.state = "warming" => L.state = "warming"
               /\ M.session = L.session /\ M.fp = L.fp
  <1> DEFINE S == [L EXCEPT !.targets = 1..n]
  <1>0. 1..n \in SUBSET (1..MaxTargets)
    BY LeasesAssumption
  <1>1. S \in Lease /\ S.state = L.state /\ S.session = L.session /\ S.fp = L.fp
    BY <1>0 DEF Lease
  <1>2. /\ SyncTargets(L, n) \in Lease
        /\ SyncTargets(L, n).state = "warming" => L.state = "warming"
        /\ SyncTargets(L, n).session = L.session /\ SyncTargets(L, n).fp = L.fp
    BY <1>1, ArmFacts DEF SyncTargets
  <1>3. ASSUME NEW M \in Lease
        PROVE  /\ BeforeNormalRequest(M) \in Lease
               /\ BeforeNormalRequest(M).state = M.state
               /\ BeforeNormalRequest(M).session = M.session
               /\ BeforeNormalRequest(M).fp = M.fp
    BY DEF BeforeNormalRequest, Lease
  <1> QED
    BY <1>2, <1>3

\* What on_request_end tells the lease before it asks for the TTL.
Told(L, outcome, prefix) == UpdateCostEstimates(AfterNormalRequest(L, outcome), prefix)

\* The lease part of on_request_end, likewise, whether the resolver answers or raises.
LEMMA EndFacts ==
    ASSUME NEW L \in Lease, NEW outcome \in Outcomes,
           NEW prefix \in Prefixes \cup {0}, NEW ttl \in TTLs,
           NEW M \in {Told(L, outcome, prefix), RefreshTTL(Told(L, outcome, prefix), ttl)}
    PROVE  /\ M \in Lease
           /\ M.state = "warming" => L.state = "warming"
           /\ M.session = L.session /\ M.fp = L.fp
  <1> DEFINE A == AfterNormalRequest(L, outcome)
             T == [L EXCEPT !.age = 0]
  <1>1. T \in Lease /\ T.state = L.state /\ T.session = L.session /\ T.fp = L.fp
    BY DEF Lease
  <1>2. A \in Lease /\ (A.state = "warming" => L.state = "warming")
        /\ A.session = L.session /\ A.fp = L.fp
    BY <1>1, ArmFacts DEF AfterNormalRequest
  <1>3. prefix \in Nat /\ ttl \in Nat
    BY LeasesAssumption
  <1>4. ASSUME NEW K \in Lease
        PROVE  LET N == UpdateCostEstimates(K, prefix)
               IN  N \in Lease /\ N.state = K.state /\ N.session = K.session /\ N.fp = K.fp
    BY <1>3 DEF UpdateCostEstimates, Lease
  <1>5. ASSUME NEW K \in Lease
        PROVE  LET N == RefreshTTL(K, ttl)
               IN  N \in Lease /\ N.state = K.state /\ N.session = K.session /\ N.fp = K.fp
    BY <1>3 DEF RefreshTTL, Lease
  <1> HIDE DEF A
  <1> QED
    BY <1>2, <1>4, <1>5 DEF A, Told

\* The two ways on_request_end goes: to its end, or until the resolver raises.
LEMMA EndSplit ==
    ASSUME NEW r, NEW outcome, NEW prefix, NEW ttl, NEW unstable,
           End(r, outcome, prefix, ttl, unstable)
    PROVE  LET l == req[r].lease
               T == Told(lease[l], outcome, prefix)
               L == RefreshTTL(T, ttl)
           IN  /\ runtime' = [runtime EXCEPT ![l] =
                                 AfterNormalRuntime(runtime[l], lease[l], outcome)]
               /\ UNCHANGED <<count, byFp, sched>>
               /\ \/ /\ lease' = [lease EXCEPT ![l] = L]
                     /\ \E saved \in BOOLEAN :
                           stored' = [stored EXCEPT ![l] = Persist(stored[l], L, saved)]
                     /\ snapshot' = SnapshotAfter(lease[l].fp, outcome)
                     /\ pin' = [pin EXCEPT ![l] =
                                   ReconcileAffinity(pin[l], L, outcome, unstable)]
                  \/ /\ r \in Unresolved
                     /\ lease' = [lease EXCEPT ![l] = T]
                     /\ UNCHANGED <<stored, snapshot, pin>>
  BY DEF End, Told

\* A freshly created lease is a lease, of its session, and inactive.
LEMMA NewLeaseFacts ==
    ASSUME NEW s \in Sessions, NEW f \in Fingerprints, NEW ttl \in TTLs
    PROVE  /\ NewLease(s, f, ttl) \in Lease
           /\ NewLease(s, f, ttl).state = "inactive"
           /\ NewLease(s, f, ttl).session = s /\ NewLease(s, f, ttl).fp = f
  BY LeasesAssumption DEF NewLease, EmptyLease, Lease, LeaseStates, Never

\* The result of a warm turns a lease into a lease that is not warming.
LEMMA WarmResultFacts ==
    ASSUME NEW L \in Lease, NEW res \in WarmResults
    PROVE  LET M == ApplyWarmResult(WarmOver(L), res)
           IN  M \in Lease /\ M.state # "warming" /\ M.session = L.session
                 /\ M.fp = L.fp
  <1>1. res.cost \in Nat
    BY LeasesAssumption DEF WarmResults
  <1>2. WarmOver(L) \in Lease /\ WarmOver(L).state # "warming"
        /\ WarmOver(L).session = L.session /\ WarmOver(L).fp = L.fp
    BY ArmFacts DEF WarmOver
  <1>3. ASSUME NEW M \in Lease
        PROVE  /\ ApplyWarmResult(M, res) \in Lease
               /\ ApplyWarmResult(M, res).state = M.state
               /\ ApplyWarmResult(M, res).session = M.session
               /\ ApplyWarmResult(M, res).fp = M.fp
    <2>1. M.warmCost + res.cost \in Nat
      BY <1>1 DEF Lease
    <2>2. PICK a \in Nat \cup {Never} :
             ApplyWarmResult(M, res)
               = [M EXCEPT !.warmCost = M.warmCost + res.cost, !.age = a]
      BY DEF ApplyWarmResult, Lease
    <2> QED
      BY <2>1, <2>2 DEF Lease
  <1> QED
    BY <1>2, <1>3

\* The breaker part of BreakerBound for one runtime record.
BreakerOK(R) == R.misses <= 2 /\ (R.circuitOpen <=> R.misses = 2)

\* S is a record with a sound breaker that, next to R, has no new warm flag and
\* no newly opened circuit.
Tamer(S, R) ==
    /\ S \in Runtime /\ BreakerOK(S)
    /\ S.warmActive => R.warmActive
    /\ S.circuitOpen => R.circuitOpen

\* Requests, invalidations and the end of a warm keep the breaker sound, close
\* but never open it, and set no warm flag.
LEMMA RuntimeFacts ==
    ASSUME NEW R \in Runtime, NEW L \in Lease, NEW outcome \in Outcomes, BreakerOK(R)
    PROVE  /\ Tamer(BeforeNormalRuntime(R), R)
           /\ Tamer(InvalidateRuntime(R), R)
           /\ Tamer(AfterNormalRuntime(R, L, outcome), R)
           /\ Tamer(WarmOverRuntime(R), R)
           /\ WarmOverRuntime(R).warmActive = FALSE
           /\ BeforeNormalRuntime(R).realActive = TRUE
  <1>1. Tamer(BeforeNormalRuntime(R), R) /\ BeforeNormalRuntime(R).realActive = TRUE
    BY DEF BeforeNormalRuntime, Runtime, BreakerOK, Tamer
  <1>2. Tamer(InvalidateRuntime(R), R)
    BY DEF InvalidateRuntime, Runtime, BreakerOK, Tamer
  <1>3. Tamer(WarmOverRuntime(R), R) /\ WarmOverRuntime(R).warmActive = FALSE
    BY DEF WarmOverRuntime, Runtime, BreakerOK, Tamer
  <1>4. Tamer(AfterNormalRuntime(R, L, outcome), R)
    <2> DEFINE I == [R EXCEPT !.realActive = FALSE]
               Z == [I EXCEPT !.circuitOpen = FALSE, !.misses = 0]
    <2>1. Tamer(I, R)
      BY DEF Runtime, BreakerOK, Tamer
    <2>2. Tamer(Z, R)
      <3>1. /\ Z \in Runtime
            /\ Z.misses = 0 /\ Z.circuitOpen = FALSE /\ Z.warmActive = R.warmActive
        BY DEF Runtime
      <3> HIDE DEF Z
      <3> QED
        BY <3>1 DEF BreakerOK, Tamer
    <2>3. AfterNormalRuntime(R, L, outcome) \in {I, Z}
      BY DEF AfterNormalRuntime
    <2> QED
      BY <2>1, <2>2, <2>3
  <1> QED
    BY <1>1, <1>2, <1>3, <1>4

\* Writing the breaker's two fields touches no other.
LEMMA BreakerWrite ==
    ASSUME NEW R \in Runtime, NEW m \in Nat, NEW b \in BOOLEAN
    PROVE  LET S == [R EXCEPT !.misses = m, !.circuitOpen = b]
           IN  /\ S \in Runtime /\ S.misses = m /\ S.circuitOpen = b
               /\ S.warmActive = R.warmActive /\ S.realActive = R.realActive
  BY DEF Runtime

\* A warm's result keeps the breaker sound if the circuit was closed.
LEMMA WarmRuntimeFacts ==
    ASSUME NEW R \in Runtime, NEW res \in WarmResults, BreakerOK(R),
           R.circuitOpen = FALSE
    PROVE  LET S == ApplyWarmRuntime(WarmOverRuntime(R), res)
           IN  S \in Runtime /\ BreakerOK(S) /\ S.warmActive = FALSE
                 /\ S.realActive = R.realActive
  <1> DEFINE W == WarmOverRuntime(R)
             Z == [W EXCEPT !.misses = 0]
             O == [W EXCEPT !.misses = 1, !.circuitOpen = W.circuitOpen]
             T == [W EXCEPT !.misses = 2, !.circuitOpen = TRUE]
  <1>1. W \in Runtime /\ W.misses = R.misses /\ W.circuitOpen = R.circuitOpen
        /\ W.warmActive = FALSE /\ W.realActive = R.realActive
    BY DEF WarmOverRuntime, Runtime
  <1>2. R.misses = 0 \/ R.misses = 1
    BY DEF Runtime, BreakerOK
  <1> HIDE DEF W
  <1>3. ApplyWarmRuntime(W, res) \in {Z, O, T}
    <2>1. CASE res.outcome = "confirmed_hit"
      <3>1. ApplyWarmRuntime(W, res) = Z
        BY <1>1, <2>1 DEF ApplyWarmRuntime, Runtime
      <3> QED BY <3>1
    <2>2. CASE res.outcome # "confirmed_hit" /\ R.misses = 0
      <3>1. ApplyWarmRuntime(W, res) = O
        BY <1>1, <2>2 DEF ApplyWarmRuntime, Runtime
      <3> QED BY <3>1
    <2>3. CASE res.outcome # "confirmed_hit" /\ R.misses = 1
      <3>1. ApplyWarmRuntime(W, res) = T
        BY <1>1, <2>3 DEF ApplyWarmRuntime, Runtime
      <3> QED BY <3>1
    <2> QED
      BY <1>2, <2>1, <2>2, <2>3
  <1>4. /\ Z \in Runtime /\ Z.misses = 0 /\ Z.circuitOpen = FALSE
        /\ Z.warmActive = FALSE /\ Z.realActive = R.realActive
    BY <1>1 DEF Runtime
  <1>5. /\ O \in Runtime /\ O.misses = 1 /\ O.circuitOpen = FALSE
        /\ O.warmActive = FALSE /\ O.realActive = R.realActive
    BY <1>1 DEF Runtime
  <1>6. /\ T \in Runtime /\ T.misses = 2 /\ T.circuitOpen = TRUE
        /\ T.warmActive = FALSE /\ T.realActive = R.realActive
    BY <1>1, BreakerWrite
  <1> HIDE DEF Z, O, T
  <1>7. BreakerOK(Z) /\ BreakerOK(O) /\ BreakerOK(T)
    BY <1>4, <1>5, <1>6 DEF BreakerOK
  <1> QED
    BY <1>3, <1>4, <1>5, <1>6, <1>7 DEF W

-----------------------------------------------------------------------------
(* The inductive invariant *)

\* Rows and pins built from a lease are well typed.
LEMMA PinRowFacts ==
    ASSUME NEW L \in Lease, NEW p \in Pins, NEW outcome, NEW unstable
    PROVE  /\ \A row \in Rows, saved \in BOOLEAN : Persist(row, L, saved) \in Rows
           /\ LookUpPin(p) \in Pins
           /\ ReconcileAffinity(p, L, outcome, unstable) \in Pins
  <1>1. NoPin \in Pins
    BY DEF NoPin, Pins
  <1>2. [generation |-> L.generation, left |-> L.ttl] \in Pins
    BY DEF Pins, Lease
  <1>3. Row(L) \in Rows
    BY DEF Row, Rows, Lease
  <1>4. \A row \in Rows : [row EXCEPT !.missed = row.missed + 1] \in Rows
    BY DEF Rows
  <1> QED
    BY <1>1, <1>2, <1>3, <1>4 DEF LookUpPin, ReconcileAffinity, Persist

\* The breaker conjunct of BreakerBound, lease by lease.
LEMMA BreakerLocal ==
    ASSUME BreakerBound
    PROVE  \A l \in LeaseIds : BreakerOK(runtime[l])
  BY DEF BreakerBound, BreakerOK

\* The initial state.
LEMMA InitSafe == Init => Safe
  <1> SUFFICES ASSUME Init PROVE Safe
    OBVIOUS
  <1> USE DEF Init
  <1>1. EmptyLease \in Lease /\ EmptyLease.state = "inactive"
    BY DEF EmptyLease, Lease, LeaseStates, Never
  <1>2. NewRuntime \in Runtime /\ NewRuntime.misses = 0
        /\ NewRuntime.circuitOpen = FALSE /\ NewRuntime.warmActive = FALSE
    BY DEF NewRuntime, Runtime, Never
  <1>3. NoPin \in Pins /\ Row(EmptyLease) \in Rows
    BY <1>1 DEF NoPin, Pins, Row, Rows, Lease
  <1>4. sched \in Scheds /\ req \in [Requests -> Reqs]
    BY RelayAssumption DEF Scheds, SchedStates, Reqs, ReqStates, Never
  <1>5. TypeOK
    BY <1>1, <1>2, <1>3, <1>4, RelayAssumption DEF TypeOK, LeaseIds
  <1>6. WarmHasLease /\ LeaseHasCache /\ RequestHasLease /\ TableHasLease
    BY RelayAssumption
       DEF WarmHasLease, LeaseHasCache, RequestHasLease, TableHasLease, LeaseIds
  <1>7. WarmingIsInFlight /\ BreakerBound
    BY <1>1, <1>2 DEF WarmingIsInFlight, BreakerBound
  <1> QED
    BY <1>5, <1>6, <1>7 DEF Safe

\* The lease a request names has a slot.
LEMMA RequestLease ==
    ASSUME Safe, NEW r \in Requests, req[r].pc \notin {"idle", "untracked"}
    PROVE  req[r].lease \in LeaseIds /\ req[r].lease <= count
  <1>1. req[r].lease \in 1..count
    BY DEF Safe, RequestHasLease
  <1>2. count \in 0..MaxLeases
    BY DEF Safe, TypeOK
  <1> QED
    BY <1>1, <1>2, RelayAssumption DEF LeaseIds

\* on_request_end: the invariant survives the end of a request, whatever the
\* outcome and whether or not a warm of the lease is in flight.
LEMMA EndSafe ==
    ASSUME Safe, NEW r \in Requests, NEW outcome \in Outcomes,
           NEW prefix \in Prefixes \cup {0}, NEW ttl \in TTLs, NEW unstable,
           req[r].pc = "sent", End(r, outcome, prefix, ttl, unstable),
           NEW pc \in ReqStates, pc # "idle", req' = [req EXCEPT ![r].pc = pc]
    PROVE  Safe'
  <1> DEFINE l == req[r].lease
             T == Told(lease[l], outcome, prefix)
             N == RefreshTTL(T, ttl)
             R == AfterNormalRuntime(runtime[l], lease[l], outcome)
  <1> USE DEF Safe
  <1>0. /\ l \in LeaseIds /\ lease[l] \in Lease /\ runtime[l] \in Runtime
        /\ pin[l] \in Pins /\ stored[l] \in Rows
    BY RequestLease DEF TypeOK
  <1>1. \A M \in {T, N} : /\ M \in Lease
                          /\ M.state = "warming" => lease[l].state = "warming"
                          /\ M.fp = lease[l].fp
    BY <1>0, EndFacts
  <1>2. Tamer(R, runtime[l])
    BY <1>0, RuntimeFacts, BreakerLocal
  <1>3. /\ \A saved \in BOOLEAN : Persist(stored[l], N, saved) \in Rows
        /\ ReconcileAffinity(pin[l], N, outcome, unstable) \in Pins
    BY <1>0, <1>1, PinRowFacts
  <1>4. PICK L \in {T, N} :
           /\ lease' = [lease EXCEPT ![l] = L]
           /\ runtime' = [runtime EXCEPT ![l] = R]
           /\ stored' \in [LeaseIds -> Rows]
           /\ snapshot' \in [Fingerprints -> Requests \cup {NoRequest}]
           /\ pin' \in [LeaseIds -> Pins]
           /\ UNCHANGED <<count, byFp, sched>>
    <2> HIDE DEF T, N, R
    <2>1. /\ runtime' = [runtime EXCEPT ![l] = R]
          /\ UNCHANGED <<count, byFp, sched>>
          /\ \/ /\ lease' = [lease EXCEPT ![l] = N]
                /\ \E saved \in BOOLEAN :
                      stored' = [stored EXCEPT ![l] = Persist(stored[l], N, saved)]
                /\ snapshot' = SnapshotAfter(lease[l].fp, outcome)
                /\ pin' = [pin EXCEPT ![l] = ReconcileAffinity(pin[l], N, outcome, unstable)]
             \/ lease' = [lease EXCEPT ![l] = T] /\ UNCHANGED <<stored, snapshot, pin>>
      BY EndSplit DEF T, N, R
    <2>2. SnapshotAfter(lease[l].fp, outcome) \in [Fingerprints -> Requests \cup {NoRequest}]
      BY DEF SnapshotAfter, TypeOK
    <2>3. /\ stored \in [LeaseIds -> Rows] /\ pin \in [LeaseIds -> Pins]
          /\ snapshot \in [Fingerprints -> Requests \cup {NoRequest}]
      BY DEF TypeOK
    <2>4. CASE lease' = [lease EXCEPT ![l] = T] /\ UNCHANGED <<stored, snapshot, pin>>
      BY <2>1, <2>3, <2>4
    <2> QED
      BY <1>3, <2>1, <2>2, <2>3, <2>4
  <1>5. L \in Lease /\ (L.state = "warming" => lease[l].state = "warming")
        /\ L.fp = lease[l].fp
    BY <1>1
  <1>6. req' \in [Requests -> Reqs] /\ RequestHasLease'
    BY <1>4 DEF RequestHasLease, TypeOK, Reqs, LeaseIds
  <1> HIDE DEF T, N, R
  <1>7. TypeOK'
    BY <1>0, <1>2, <1>4, <1>5, <1>6 DEF TypeOK, Tamer
  <1>8. WarmHasLease' /\ TableHasLease' /\ LeaseHasCache'
    BY <1>0, <1>4, <1>5 DEF WarmHasLease, TableHasLease, LeaseHasCache, TypeOK
  <1>9. WarmingIsInFlight'
    BY <1>0, <1>2, <1>4, <1>5 DEF WarmingIsInFlight, TypeOK, Tamer
  <1>10. BreakerBound'
    BY <1>0, <1>2, <1>4 DEF BreakerBound, TypeOK, Tamer, BreakerOK
  <1> QED
    BY <1>6, <1>7, <1>8, <1>9, <1>10

\* on_request_start: the invariant survives the start of a request on lease l,
\* given the tables find_or_create_lease leaves.
LEMMA BeginSafe ==
    ASSUME Safe, NEW r \in Requests, NEW f \in Fingerprints, NEW n \in 0..MaxTargets,
           NEW l \in 1..count', NEW lease1, NEW runtime1,
           lease1 \in [LeaseIds -> Lease], runtime1 \in [LeaseIds -> Runtime],
           \A k \in LeaseIds : lease1[k].state = "warming" => lease[k].state = "warming",
           \A k \in LeaseIds : Tamer(runtime1[k], runtime[k]),
           \A k \in LeaseIds : k <= count' => lease1[k].fp \in Fingerprints,
           count' \in 0..MaxLeases, count <= count',
           byFp' \in [Fingerprints -> 0..count'], sched' = sched,
           Begin(r, f, n, l, lease1, runtime1)
    PROVE  Safe'
  <1> DEFINE L == BeforeNormalRequest(SyncTargets(lease1[l], n))
             R == BeforeNormalRuntime(runtime1[l])
  <1> USE DEF Safe
  <1>0. /\ l \in LeaseIds /\ lease1[l] \in Lease /\ runtime1[l] \in Runtime
        /\ pin[l] \in Pins /\ stored[l] \in Rows
    BY RelayAssumption DEF TypeOK, LeaseIds
  <1>1. L \in Lease /\ (L.state = "warming" => lease1[l].state = "warming")
        /\ L.fp = lease1[l].fp
    BY <1>0, StartFacts
  <1>2. Tamer(R, runtime1[l])
    <2>1. BreakerOK(runtime1[l])
      BY <1>0 DEF Tamer
    <2>2. "failed" \in Outcomes
      BY DEF Outcomes
    <2> QED
      BY <1>0, <2>1, <2>2, RuntimeFacts
  <1>3. /\ \A saved \in BOOLEAN : Persist(stored[l], L, saved) \in Rows
        /\ LookUpPin(pin[l]) \in Pins
    BY <1>0, <1>1, PinRowFacts
  <1>4. /\ lease' = [lease1 EXCEPT ![l] = L]
        /\ runtime' = [runtime1 EXCEPT ![l] = R]
        /\ \E saved \in BOOLEAN :
              stored' = [stored EXCEPT ![l] = Persist(stored[l], L, saved)]
        /\ snapshot' \in [Fingerprints -> Requests \cup {NoRequest}]
        /\ pin' = [pin EXCEPT ![l] = LookUpPin(pin[l])]
        /\ req' = [req EXCEPT ![r] = [pc |-> "sent", lease |-> l,
                                      generation |-> L.generation]]
    BY DEF Begin, TypeOK
  <1>5. L.generation \in Nat
    BY <1>1 DEF Lease
  <1> HIDE DEF L, R
  <1>6. req' \in [Requests -> Reqs]
    BY <1>0, <1>4, <1>5 DEF TypeOK, Reqs, ReqStates, LeaseIds
  <1>7. RequestHasLease' /\ TableHasLease'
    BY <1>4 DEF RequestHasLease, TableHasLease, TypeOK, Reqs
  <1>8. TypeOK'
    <2>1. byFp' \in [Fingerprints -> 0..MaxLeases]
      BY RelayAssumption
    <2> QED
      BY <1>0, <1>1, <1>2, <1>3, <1>4, <1>6, <2>1 DEF TypeOK, Tamer
  <1>9. WarmHasLease' /\ LeaseHasCache'
    BY <1>0, <1>1, <1>4 DEF WarmHasLease, LeaseHasCache, TypeOK, Scheds
  <1>10. WarmingIsInFlight'
    BY <1>0, <1>1, <1>2, <1>4 DEF WarmingIsInFlight, TypeOK, Tamer
  <1>11. BreakerBound'
    BY <1>0, <1>2, <1>4 DEF BreakerBound, TypeOK, Tamer, BreakerOK
  <1> QED
    BY <1>6, <1>7, <1>8, <1>9, <1>10, <1>11

\* A record is no wilder than itself.
LEMMA SelfTamer ==
    ASSUME Safe
    PROVE  \A k \in LeaseIds : Tamer(runtime[k], runtime[k])
  BY BreakerLocal DEF Safe, TypeOK, Tamer

\* The two starts of a request.
LEMMA StartSafe ==
    ASSUME Safe, NEW r \in Requests, NEW s \in Sessions, NEW f \in Fingerprints,
           NEW n \in 0..MaxTargets
    PROVE  /\ StartOnLease(r, s, f, n) => Safe'
           /\ \A ttl \in TTLs : StartNewLease(r, s, f, n, ttl) => Safe'
  <1>1. ASSUME StartOnLease(r, s, f, n) PROVE Safe'
    <2>1. /\ byFp[f] \in 1..count' /\ count' = count /\ sched' = sched
          /\ count' \in 0..MaxLeases /\ byFp' \in [Fingerprints -> 0..count']
      BY <1>1 DEF StartOnLease, Found, Safe, TypeOK, TableHasLease
    <2>2. /\ lease \in [LeaseIds -> Lease] /\ runtime \in [LeaseIds -> Runtime]
          /\ count <= count'
          /\ \A k \in LeaseIds : k <= count' => lease[k].fp \in Fingerprints
      BY <2>1 DEF Safe, TypeOK, LeaseHasCache
    <2>3. Begin(r, f, n, byFp[f], lease, runtime)
      BY <1>1 DEF StartOnLease
    <2> QED
      BY <2>1, <2>2, <2>3, SelfTamer, BeginSafe
  <1>2. ASSUME NEW ttl \in TTLs, StartNewLease(r, s, f, n, ttl) PROVE Safe'
    <2> DEFINE old == Superseded(s, f)
               lease1 == [l \in LeaseIds |->
                     IF l = count + 1 THEN NewLease(s, f, ttl)
                     ELSE IF l \in old THEN Invalidate(lease[l]) ELSE lease[l]]
               runtime1 == [l \in LeaseIds |->
                     IF l \in old THEN InvalidateRuntime(runtime[l]) ELSE runtime[l]]
    <2>0. Begin(r, f, n, count + 1, lease1, runtime1)
      BY <1>2, Zenon DEF StartNewLease
    <2>1. /\ count' = count + 1 /\ count' \in 0..MaxLeases /\ sched' = sched
          /\ count \in Nat
          /\ byFp' = [byFp EXCEPT ![f] = count + 1]
      BY <1>2, RelayAssumption DEF StartNewLease, Safe, TypeOK
    <2>2. count + 1 \in 1..count' /\ count <= count'
      BY <2>1
    <2>3. byFp' \in [Fingerprints -> 0..count']
      BY <2>1 DEF Safe, TypeOK, TableHasLease
    <2>4. /\ lease1 \in [LeaseIds -> Lease]
          /\ \A k \in LeaseIds : lease1[k].state = "warming" => lease[k].state = "warming"
          /\ \A k \in LeaseIds : k # count + 1 => lease1[k].fp = lease[k].fp
          /\ count + 1 \in LeaseIds => lease1[count + 1].fp = f
      BY ArmFacts, NewLeaseFacts DEF Safe, TypeOK
    <2>5. "failed" \in Outcomes
      BY DEF Outcomes
    <2>6. \A k \in LeaseIds : Tamer(InvalidateRuntime(runtime[k]), runtime[k])
      BY <2>5, RuntimeFacts, BreakerLocal DEF Safe, TypeOK
    <2>7. /\ runtime1 \in [LeaseIds -> Runtime]
          /\ \A k \in LeaseIds : Tamer(runtime1[k], runtime[k])
      BY <2>6, SelfTamer DEF Safe, TypeOK, Tamer
    <2> HIDE DEF lease1, runtime1
    <2>8. \A k \in LeaseIds : k <= count' => lease1[k].fp \in Fingerprints
      BY <2>1, <2>4 DEF Safe, LeaseHasCache, LeaseIds
    <2> QED
      BY <2>0, <2>1, <2>2, <2>3, <2>4, <2>7, <2>8, BeginSafe
  <1> QED
    BY <1>1, <1>2

\* What find_or_create_lease does to the superseded leases: it invalidates them.
LEMMA SupersedeFacts ==
    ASSUME Safe, NEW old
    PROVE  LET lease1 == [k \in LeaseIds |->
                             IF k \in old THEN Invalidate(lease[k]) ELSE lease[k]]
               runtime1 == [k \in LeaseIds |->
                             IF k \in old THEN InvalidateRuntime(runtime[k]) ELSE runtime[k]]
           IN  /\ lease1 \in [LeaseIds -> Lease]
               /\ \A k \in LeaseIds :
                     /\ lease1[k].state = "warming" => lease[k].state = "warming"
                     /\ lease1[k].fp = lease[k].fp /\ lease1[k].session = lease[k].session
                     /\ Tamer(runtime1[k], runtime[k])
               /\ runtime1 \in [LeaseIds -> Runtime]
  <1>1. "failed" \in Outcomes
    BY DEF Outcomes
  <1>2. \A k \in LeaseIds : Tamer(InvalidateRuntime(runtime[k]), runtime[k])
    BY <1>1, RuntimeFacts, BreakerLocal DEF Safe, TypeOK
  <1> QED
    BY <1>2, SelfTamer, ArmFacts DEF Safe, TypeOK, Tamer

\* A request without a lease: only the superseded leases change.
LEMMA UntrackedSafe ==
    ASSUME Safe, NEW r \in Requests, NEW s, NEW f, StartUntracked(r, s, f)
    PROVE  Safe'
  <1> USE DEF Safe
  <1>1. /\ lease' \in [LeaseIds -> Lease] /\ runtime' \in [LeaseIds -> Runtime]
        /\ \A k \in LeaseIds :
              /\ lease'[k].state = "warming" => lease[k].state = "warming"
              /\ lease'[k].fp = lease[k].fp /\ Tamer(runtime'[k], runtime[k])
    BY SupersedeFacts DEF StartUntracked
  <1>2. /\ UNCHANGED <<count, byFp, snapshot, pin, stored, sched>>
        /\ req' = [req EXCEPT ![r].pc = "untracked"]
    BY DEF StartUntracked
  <1>3. req' \in [Requests -> Reqs] /\ RequestHasLease'
    BY <1>2 DEF RequestHasLease, TypeOK, Reqs, ReqStates
  <1>4. TypeOK' /\ WarmHasLease' /\ TableHasLease' /\ LeaseHasCache'
    BY <1>1, <1>2, <1>3 DEF TypeOK, WarmHasLease, TableHasLease, LeaseHasCache
  <1>5. WarmingIsInFlight'
    BY <1>1, <1>2 DEF WarmingIsInFlight, Tamer
  <1>6. BreakerBound'
    BY <1>1, <1>2 DEF BreakerBound, Tamer, BreakerOK
  <1> QED
    BY <1>3, <1>4, <1>5, <1>6

\* The steps that move only the requests' own records.
LEMMA RequestOverSafe ==
    ASSUME Safe, NEW r \in Requests, StreamEnds(r) \/ BodyReadFails(r)
    PROVE  Safe'
  <1> USE DEF Safe
  <1>1. PICK pc \in {"ok", "aborted"} : req' = [req EXCEPT ![r].pc = pc]
    BY DEF StreamEnds, BodyReadFails
  <1>2. UNCHANGED <<count, lease, runtime, byFp, snapshot, pin, stored, sched>>
    BY DEF StreamEnds, BodyReadFails
  <1>3. req[r].pc \notin {"idle", "untracked"}
    BY DEF StreamEnds, BodyReadFails
  <1>4. req' \in [Requests -> Reqs] /\ RequestHasLease'
    BY <1>1, <1>2, <1>3 DEF RequestHasLease, TypeOK, Reqs, ReqStates
  <1> QED
    BY <1>2, <1>4
       DEF TypeOK, WarmHasLease, LeaseHasCache, TableHasLease, WarmingIsInFlight, BreakerBound

\* Every step of RequestStep.
LEMMA RequestSafe == Safe /\ RequestStep => Safe'
  <1> SUFFICES ASSUME Safe, RequestStep PROVE Safe'
    OBVIOUS
  <1>1. PICK r \in Requests :
           \/ \E s \in Sessions, f \in Fingerprints, n \in 0..MaxTargets :
                 \/ StartOnLease(r, s, f, n)
                 \/ \E ttl \in TTLs : StartNewLease(r, s, f, n, ttl)
           \/ \E s \in Sessions, f \in Fingerprints : StartUntracked(r, s, f)
           \/ \E ttl \in TTLs :
                 \/ RequestFails(r, ttl)
                 \/ \E unstable \in BOOLEAN :
                       \/ ErrorUnobserved(r, ttl, unstable)
                       \/ StreamingResponse(r, ttl, unstable)
                       \/ \E outcome \in Outcomes, prefix \in Prefixes \cup {0} :
                             BoundedResponse(r, outcome, prefix, ttl, unstable)
           \/ StreamEnds(r)
           \/ BodyReadFails(r)
    BY Zenon DEF RequestStep
  <1>2. /\ "failed" \in Outcomes /\ "success_unverified" \in Outcomes
        /\ {"ok", "failed", "streaming"} \subseteq ReqStates
    BY DEF Outcomes, ReqStates
  <1>3. ASSUME NEW ttl \in TTLs, RequestFails(r, ttl) PROVE Safe'
    BY <1>2, <1>3, EndSafe DEF RequestFails
  <1>4. ASSUME NEW ttl \in TTLs, NEW unstable,
               ErrorUnobserved(r, ttl, unstable) \/ StreamingResponse(r, ttl, unstable)
        PROVE  Safe'
    BY <1>2, <1>4, EndSafe DEF ErrorUnobserved, StreamingResponse
  <1>5. ASSUME NEW ttl \in TTLs, NEW unstable, NEW outcome \in Outcomes,
               NEW prefix \in Prefixes \cup {0},
               BoundedResponse(r, outcome, prefix, ttl, unstable)
        PROVE  Safe'
    BY <1>2, <1>5, EndSafe DEF BoundedResponse
  <1> QED
    BY <1>1, <1>3, <1>4, <1>5, StartSafe, UntrackedSafe, RequestOverSafe

\* Moving on to the next lease.
LEMMA NextLeaseFacts ==
    ASSUME NEW S \in Scheds, NEW d \in SUBSET LeaseIds
    PROVE  LET T == [S EXCEPT !.at = S.at + 1, !.dirty = d]
           IN  T \in Scheds /\ T.pc = S.pc /\ T.upto = S.upto
  <1>1. S.at + 1 \in Nat
    BY DEF Scheds
  <1> QED
    BY <1>1 DEF Scheds

\* A step of the tick that writes the lease it evaluates and its record, and
\* neither starts a warm nor opens the circuit.
LEMMA EvaluateSafe ==
    ASSUME Safe, NEW l \in LeaseIds, NEW L \in Lease, NEW R, NEW d \in SUBSET LeaseIds,
           sched.pc = "tick", L.state # "warming", L.fp = lease[l].fp, Tamer(R, runtime[l]),
           lease' = [lease EXCEPT ![l] = L], runtime' = [runtime EXCEPT ![l] = R],
           sched' = [sched EXCEPT !.at = @ + 1, !.dirty = d],
           UNCHANGED <<count, byFp, snapshot, pin, stored, req>>
    PROVE  Safe'
  <1> USE DEF Safe
  <1>1. sched' \in Scheds /\ sched'.pc = "tick" /\ sched'.upto = sched.upto
    BY NextLeaseFacts DEF TypeOK
  <1>2. TypeOK'
    BY <1>1 DEF TypeOK, Tamer
  <1>3. RequestHasLease' /\ TableHasLease' /\ WarmHasLease' /\ LeaseHasCache'
    BY <1>1 DEF RequestHasLease, TableHasLease, WarmHasLease, LeaseHasCache, TypeOK
  <1>4. WarmingIsInFlight'
    BY <1>1 DEF WarmingIsInFlight, TypeOK, Tamer
  <1>5. BreakerBound'
    BY <1>1 DEF BreakerBound, TypeOK, Tamer, BreakerOK
  <1> QED
    BY <1>2, <1>3, <1>4, <1>5

\* Recording a generation leaves the breaker and the flags alone.
LEMMA ScheduleFacts ==
    ASSUME NEW R \in Runtime, NEW g \in Nat \cup {Never}, BreakerOK(R)
    PROVE  Tamer([R EXCEPT !.scheduledGeneration = g], R)
  BY DEF Runtime, BreakerOK, Tamer

\* Every evaluation that does not send a warm.
LEMMA EvaluateLeaseSafe ==
    ASSUME Safe, NEW l \in LeaseIds,
           \/ EvaluateSkip(l) \/ EvaluateSchedule(l) \/ EvaluateEconomicStop(l)
           \/ EvaluateRefuse(l) \/ EvaluateDecline(l)
    PROVE  Safe'
  <1> DEFINE R(g) == [runtime[l] EXCEPT !.scheduledGeneration = g]
  <1>1. /\ lease[l] \in Lease /\ runtime[l] \in Runtime /\ BreakerOK(runtime[l])
        /\ sched \in Scheds /\ sched.pc = "tick" /\ lease[l].state # "warming"
        /\ lease \in [LeaseIds -> Lease] /\ runtime \in [LeaseIds -> Runtime]
    BY BreakerLocal DEF Safe, TypeOK, WarmingIsInFlight, Evaluating, EvaluateSkip,
       EvaluateSchedule, EvaluateEconomicStop, WarmDue, EvaluateRefuse, EvaluateDecline
  <1>2. sched.dirty \in SUBSET LeaseIds /\ sched.dirty \cup {l} \in SUBSET LeaseIds
    BY <1>1 DEF Scheds
  <1>3. /\ sched = [sched EXCEPT !.dirty = sched.dirty]
        /\ [sched EXCEPT !.at = @ + 1] = [sched EXCEPT !.at = @ + 1, !.dirty = sched.dirty]
    BY <1>1 DEF Scheds
  <1>4. /\ lease = [lease EXCEPT ![l] = lease[l]]
        /\ runtime = [runtime EXCEPT ![l] = runtime[l]]
    BY <1>1
  <1>5. Tamer(runtime[l], runtime[l]) /\ Tamer(R(Never), runtime[l])
    BY <1>1, SelfTamer, ScheduleFacts
  <1>6. CASE EvaluateSkip(l)
    <2>1. /\ sched' = [sched EXCEPT !.at = @ + 1]
          /\ UNCHANGED <<count, lease, runtime, byFp, snapshot, pin, stored, req>>
      BY <1>6 DEF EvaluateSkip
    <2> QED
      BY <1>1, <1>2, <1>3, <1>4, <1>5, <2>1, EvaluateSafe
  <1>7. CASE EvaluateSchedule(l)
    <2> DEFINE L == [lease[l] EXCEPT !.state =
                        IF lease[l].state = "economic_stop" THEN lease[l].state
                        ELSE "warm_scheduled"]
    <2>1. /\ L \in Lease /\ L.state # "warming" /\ L.fp = lease[l].fp
          /\ lease[l].generation \in Nat
      BY <1>1 DEF Lease, LeaseStates
    <2>2. Tamer(R(lease[l].generation), runtime[l])
      BY <1>1, <2>1, ScheduleFacts
    <2>3. /\ sched' = [sched EXCEPT !.at = @ + 1, !.dirty = sched.dirty \cup {l}]
          /\ UNCHANGED <<count, byFp, snapshot, pin, stored, req>>
          /\ lease' = [lease EXCEPT ![l] = L]
          /\ runtime' = [runtime EXCEPT ![l] = R(lease[l].generation)]
      BY <1>7 DEF EvaluateSchedule
    <2> QED
      BY <1>1, <1>2, <2>1, <2>2, <2>3, EvaluateSafe
  <1>8. CASE EvaluateEconomicStop(l)
    <2> DEFINE L == [lease[l] EXCEPT !.state = "economic_stop"]
    <2>1. L \in Lease /\ L.state # "warming" /\ L.fp = lease[l].fp
      BY <1>1 DEF Lease, LeaseStates
    <2>2. /\ sched' = [sched EXCEPT !.at = @ + 1]
          /\ UNCHANGED <<count, runtime, byFp, snapshot, pin, stored, req>>
          /\ lease' = [lease EXCEPT ![l] = L]
      BY <1>8 DEF EvaluateEconomicStop
    <2> QED
      BY <1>1, <1>2, <1>3, <1>4, <1>5, <2>1, <2>2, EvaluateSafe
  <1>9. CASE EvaluateRefuse(l)
    <2>1. /\ sched' = [sched EXCEPT !.at = @ + 1]
          /\ UNCHANGED <<count, lease, byFp, snapshot, pin, stored, req>>
          /\ runtime' = [runtime EXCEPT ![l] = R(Never)]
      BY <1>9 DEF EvaluateRefuse
    <2> QED
      BY <1>1, <1>2, <1>3, <1>4, <1>5, <2>1, EvaluateSafe
  <1>10. CASE EvaluateDecline(l)
    <2>1. /\ sched' = [sched EXCEPT !.at = @ + 1]
          /\ UNCHANGED <<count, byFp, snapshot, pin, stored, req>>
          /\ lease' = [lease EXCEPT ![l] = Arm(lease[l])]
          /\ runtime' = [runtime EXCEPT ![l] = R(Never)]
      BY <1>10 DEF EvaluateDecline
    <2> QED
      BY <1>1, <1>2, <1>3, <1>5, <2>1, ArmFacts, EvaluateSafe
  <1> QED
    BY <1>6, <1>7, <1>8, <1>9, <1>10

\* Sending a warm: the lease is not skipped, so its circuit is closed.
LEMMA SendWarmSafe ==
    ASSUME Safe, NEW l \in LeaseIds, SendWarm(l)
    PROVE  Safe'
  <1> DEFINE L == [lease[l] EXCEPT !.state = "warming"]
             R == [runtime[l] EXCEPT !.scheduledGeneration = Never, !.warmActive = TRUE]
  <1> USE DEF Safe
  <1>0. /\ lease[l] \in Lease /\ runtime[l] \in Runtime /\ sched \in Scheds
        /\ runtime[l].circuitOpen = FALSE /\ sched.at = l /\ sched.pc = "tick"
    BY DEF TypeOK, SendWarm, WarmDue, Evaluating, Skips, Runtime
  <1>1. L \in Lease /\ L.fp = lease[l].fp
    BY <1>0 DEF Lease, LeaseStates
  <1>2. /\ R \in Runtime /\ R.misses = runtime[l].misses
        /\ R.circuitOpen = runtime[l].circuitOpen
    BY <1>0 DEF Runtime
  <1>3. /\ lease' = [lease EXCEPT ![l] = L] /\ runtime' = [runtime EXCEPT ![l] = R]
        /\ UNCHANGED <<count, byFp, snapshot, pin, stored, req>>
    BY DEF SendWarm
  <1>4. /\ snapshot[lease[l].fp] \in Requests \cup {NoRequest}
        /\ lease[l].age \in Nat \cup {Never}
    <2>1. lease[l].age \in Nat \cup {Never}
      BY <1>0 DEF Lease
    <2>2. lease[l].fp \in Fingerprints
      BY <1>0, RelayAssumption
         DEF SendWarm, WarmDue, Evaluating, WarmHasLease, LeaseHasCache, LeaseIds, Scheds, TypeOK
    <2> QED
      BY <2>1, <2>2 DEF TypeOK
  <1>5. /\ sched' \in Scheds /\ sched'.pc = "warming" /\ sched'.at = l
        /\ sched'.upto = sched.upto
    BY <1>0, <1>4 DEF SendWarm, Scheds, SchedStates
  <1> HIDE DEF L, R
  <1>6. TypeOK'
    BY <1>1, <1>2, <1>3, <1>5 DEF TypeOK
  <1>7. RequestHasLease' /\ TableHasLease' /\ WarmHasLease' /\ LeaseHasCache'
    BY <1>1, <1>3, <1>5 DEF RequestHasLease, TableHasLease, WarmHasLease, LeaseHasCache, TypeOK
  <1>8. WarmingIsInFlight'
    BY <1>0, <1>3, <1>5 DEF WarmingIsInFlight, TypeOK
  <1>9. BreakerBound'
    BY <1>0, <1>2, <1>3, <1>5 DEF BreakerBound, TypeOK
  <1> QED
    BY <1>6, <1>7, <1>8, <1>9

\* Records of the scheduler when no warm is in flight.
LEMMA SchedFacts ==
    ASSUME Safe
    PROVE  /\ \A pc \in SchedStates :
                 /\ NotWarming(pc) \in Scheds /\ NotWarming(pc).pc = pc
                 /\ NotWarming(pc).upto = sched.upto
                 /\ NotWarming(pc).dirty = sched.dirty
                 /\ NotWarming(pc).at = sched.at
           /\ sched.upto \in Nat /\ sched.at \in Nat
  <1>1. sched \in Scheds
    BY DEF Safe, TypeOK
  <1>2. sched.upto \in Nat /\ sched.at \in Nat
    BY <1>1, RelayAssumption DEF Scheds
  <1>3. Never \in Nat \cup {Never} /\ NoRequest \in Requests \cup {NoRequest} /\ 0 \in Nat
    OBVIOUS
  <1>4. ASSUME NEW pc \in SchedStates
        PROVE  /\ NotWarming(pc) \in Scheds /\ NotWarming(pc).pc = pc
               /\ NotWarming(pc).upto = sched.upto
               /\ NotWarming(pc).dirty = sched.dirty
               /\ NotWarming(pc).at = sched.at
    BY <1>1, <1>3 DEF NotWarming, Scheds
  <1> QED
    BY <1>2, <1>4

\* The response of a warm: its lease exists and its circuit is closed, so the
\* result fits both records and leaves no trace of the warm.
LEMMA WarmReturnsSafe ==
    ASSUME Safe, NEW res \in WarmResults, WarmReturns(res)
    PROVE  Safe'
  <1> DEFINE l == sched.at
             L == ApplyWarmResult(WarmOver(lease[l]), res)
             R == ApplyWarmRuntime(WarmOverRuntime(runtime[l]), res)
             N == NotWarming("tick")
  <1> USE DEF Safe
  <1>0. /\ l \in LeaseIds /\ lease[l] \in Lease /\ runtime[l] \in Runtime
        /\ runtime[l].circuitOpen = FALSE /\ sched.pc = "warming"
    BY DEF TypeOK, WarmReturns, WarmHasLease, BreakerBound, Runtime
  <1>1. L \in Lease /\ L.state # "warming" /\ L.fp = lease[l].fp
    BY <1>0, WarmResultFacts
  <1>2. R \in Runtime /\ BreakerOK(R) /\ R.warmActive = FALSE
    BY <1>0, WarmRuntimeFacts, BreakerLocal
  <1>3. /\ lease' = [lease EXCEPT ![l] = L] /\ runtime' = [runtime EXCEPT ![l] = R]
        /\ sched' = [N EXCEPT !.at = N.at + 1, !.dirty = N.dirty \cup {l}]
        /\ UNCHANGED <<count, byFp, snapshot, pin, stored, req>>
    BY DEF WarmReturns
  <1>4. N \in Scheds /\ N.pc = "tick" /\ N.upto = sched.upto /\ N.dirty \cup {l} \in SUBSET LeaseIds
    BY <1>0, SchedFacts DEF SchedStates, TypeOK, Scheds
  <1> HIDE DEF L, R, N
  <1>5. sched' \in Scheds /\ sched'.pc = "tick" /\ sched'.upto = sched.upto
    BY <1>3, <1>4, NextLeaseFacts
  <1>6. TypeOK'
    BY <1>1, <1>2, <1>3, <1>5 DEF TypeOK
  <1>7. RequestHasLease' /\ TableHasLease' /\ WarmHasLease' /\ LeaseHasCache'
    BY <1>0, <1>1, <1>3, <1>5
       DEF RequestHasLease, TableHasLease, WarmHasLease, LeaseHasCache, TypeOK
  <1>8. WarmingIsInFlight'
    BY <1>0, <1>1, <1>2, <1>3, <1>5 DEF WarmingIsInFlight, TypeOK
  <1>9. BreakerBound'
    BY <1>0, <1>2, <1>3, <1>5 DEF BreakerBound, BreakerOK, TypeOK
  <1> QED
    BY <1>6, <1>7, <1>8, <1>9

\* The beginning and the end of a tick.
LEMMA TickSafe ==
    ASSUME Safe, TickBegins \/ TickEnds
    PROVE  Safe'
  <1> USE DEF Safe
  <1>0. sched \in Scheds /\ count \in 0..MaxLeases /\ 0 \in 0..MaxLeases /\ 0 <= count
        /\ count <= count /\ {} \in SUBSET LeaseIds
    BY RelayAssumption DEF TypeOK
  <1>1. /\ sched.pc # "warming" /\ sched'.pc # "warming"
        /\ sched' \in Scheds /\ sched'.upto <= count
    <2>1. CASE TickBegins
      BY <1>0, <2>1 DEF TickBegins, Scheds, SchedStates
    <2>2. CASE TickEnds
      BY <1>0, <2>2 DEF TickEnds, Scheds, SchedStates
    <2> QED
      BY <2>1, <2>2
  <1>2. UNCHANGED <<count, lease, runtime, byFp, snapshot, pin, req>>
    BY DEF TickBegins, TickEnds
  <1>3. stored' \in [LeaseIds -> Rows]
    <2>1. \A l \in LeaseIds, saved \in BOOLEAN :
             Persist(stored[l], lease[l], saved) \in Rows
      BY PinRowFacts DEF TypeOK
    <2>2. \A saved : Persisted(saved) \in [LeaseIds -> Rows]
      <3> SUFFICES ASSUME NEW saved, NEW l \in LeaseIds
                   PROVE  Persist(stored[l], lease[l], l \in saved) \in Rows /\ stored[l] \in Rows
        BY DEF Persisted
      <3>1. (l \in saved) \in BOOLEAN
        OBVIOUS
      <3> QED
        BY <2>1, <3>1 DEF TypeOK
    <2> QED
      BY <2>2 DEF TickBegins, TickEnds, TypeOK
  <1> QED
    BY <1>1, <1>2, <1>3
       DEF TypeOK, WarmHasLease, LeaseHasCache, RequestHasLease, TableHasLease,
           WarmingIsInFlight, BreakerBound

\* stop: the finally of a warm in flight runs.
LEMMA StopSafe ==
    ASSUME Safe, Stop
    PROVE  Safe'
  <1> USE DEF Safe
  <1> DEFINE l == sched.at
  <1>1. /\ sched' \in Scheds /\ sched'.pc = "stopped" /\ sched'.upto = sched.upto
        /\ UNCHANGED <<count, byFp, snapshot, pin, stored, req>>
    BY SchedFacts DEF Stop, SchedStates
  <1>2. CASE sched.pc # "warming"
    <2>1. UNCHANGED <<lease, runtime>>
      BY <1>2 DEF Stop
    <2> QED
      BY <1>1, <1>2, <2>1
         DEF TypeOK, WarmHasLease, LeaseHasCache, RequestHasLease, TableHasLease,
             WarmingIsInFlight, BreakerBound
  <1>3. CASE sched.pc = "warming"
    <2>0. /\ l \in LeaseIds /\ lease[l] \in Lease /\ runtime[l] \in Runtime
          /\ "failed" \in Outcomes
      BY <1>3 DEF TypeOK, WarmHasLease, Outcomes
    <2>1. /\ WarmOver(lease[l]) \in Lease /\ WarmOver(lease[l]).state # "warming"
          /\ WarmOver(lease[l]).fp = lease[l].fp
      BY <2>0, ArmFacts DEF WarmOver
    <2>2. /\ Tamer(WarmOverRuntime(runtime[l]), runtime[l])
          /\ WarmOverRuntime(runtime[l]).warmActive = FALSE
      BY <2>0, RuntimeFacts, BreakerLocal
    <2>3. /\ lease' = [lease EXCEPT ![l] = WarmOver(lease[l])]
          /\ runtime' = [runtime EXCEPT ![l] = WarmOverRuntime(runtime[l])]
      BY <1>3 DEF Stop
    <2>4. TypeOK'
      BY <1>1, <2>1, <2>2, <2>3 DEF TypeOK, Tamer
    <2>5. RequestHasLease' /\ TableHasLease' /\ WarmHasLease' /\ LeaseHasCache'
      BY <1>1, <2>0, <2>1, <2>3
         DEF RequestHasLease, TableHasLease, WarmHasLease, LeaseHasCache, TypeOK
    <2>6. WarmingIsInFlight'
      BY <1>1, <2>0, <2>1, <2>2, <2>3 DEF WarmingIsInFlight, TypeOK
    <2>7. BreakerBound'
      BY <1>1, <2>0, <2>2, <2>3 DEF BreakerBound, BreakerOK, Tamer, TypeOK
    <2> QED
      BY <2>4, <2>5, <2>6, <2>7
  <1> QED
    BY <1>2, <1>3

\* An interval of time ages the leases and the pins.
LEMMA AdvanceSafe ==
    ASSUME Safe, Advance
    PROVE  Safe'
  <1> USE DEF Safe
  <1> DEFINE Aged(L) == [L EXCEPT !.age = IF L.age = Never \/ L.age >= MaxAge
                                          THEN L.age ELSE L.age + 1]
  <1>1. ASSUME NEW L \in Lease
        PROVE  Aged(L) \in Lease /\ Aged(L).state = L.state /\ Aged(L).fp = L.fp
    <2>1. /\ L.age \in Nat \cup {Never}
          /\ (IF L.age = Never \/ L.age >= MaxAge THEN L.age ELSE L.age + 1)
                \in Nat \cup {Never}
      BY DEF Lease, Never
    <2> QED
      BY <2>1 DEF Lease
  <1>2. ASSUME NEW p \in Pins
        PROVE  [p EXCEPT !.left = Floor(p.left - 1)] \in Pins
    BY DEF Pins, Floor
  <1>3. /\ lease' = [l \in LeaseIds |-> Aged(lease[l])]
        /\ pin' = [l \in LeaseIds |-> [pin[l] EXCEPT !.left = Floor(pin[l].left - 1)]]
        /\ UNCHANGED <<count, runtime, byFp, snapshot, stored, req>>
    BY DEF Advance
  <1>4. /\ sched' \in Scheds /\ sched'.at = sched.at /\ sched'.upto = sched.upto
        /\ sched'.pc = "warming" <=> sched.pc = "warming"
    <2>1. sched \in Scheds /\ sched.elapsed + 1 \in Nat
      BY DEF TypeOK, Scheds
    <2>2. CASE sched.pc = "asleep"
      <3>1. sched' = [sched EXCEPT !.pc = "ready"]
        BY <2>2 DEF Advance
      <3> QED
        BY <2>1, <2>2, <3>1 DEF Scheds, SchedStates
    <2>3. CASE sched.pc = "warming"
      <3>1. sched' = [sched EXCEPT !.elapsed = sched.elapsed + 1]
        BY <2>3 DEF Advance
      <3> QED
        BY <2>1, <2>3, <3>1 DEF Scheds
    <2> QED
      BY <2>2, <2>3 DEF Advance
  <1> HIDE DEF Aged
  <1>5. TypeOK'
    BY <1>1, <1>2, <1>3, <1>4 DEF TypeOK
  <1>6. RequestHasLease' /\ TableHasLease' /\ WarmHasLease' /\ LeaseHasCache'
    BY <1>1, <1>3, <1>4 DEF RequestHasLease, TableHasLease, WarmHasLease, LeaseHasCache, TypeOK
  <1>7. WarmingIsInFlight'
    BY <1>1, <1>3, <1>4 DEF WarmingIsInFlight, TypeOK
  <1>8. BreakerBound'
    BY <1>3, <1>4 DEF BreakerBound
  <1> QED
    BY <1>5, <1>6, <1>7, <1>8

\* Steps that change nothing.
LEMMA StutterSafe ==
    ASSUME Safe, UNCHANGED vars
    PROVE  Safe'
  BY DEF vars, Safe, TypeOK, WarmHasLease, LeaseHasCache, RequestHasLease, TableHasLease,
         WarmingIsInFlight, BreakerBound

\* Safe is inductive, with or without overlapping requests.
THEOREM Safety == Spec => []Safe
  <1>1. Safe /\ [Next]_vars => Safe'
    <2> SUFFICES ASSUME Safe, [Next]_vars PROVE Safe'
      OBVIOUS
    <2>1. CASE SchedulerStep
      BY <2>1, TickSafe, EvaluateLeaseSafe, SendWarmSafe DEF SchedulerStep, EvaluateLease
    <2>2. CASE WarmStep
      BY <2>2, WarmReturnsSafe DEF WarmStep
    <2>3. CASE Stopped \/ UNCHANGED vars
      BY <2>3, StutterSafe DEF Stopped
    <2> QED
      BY <2>1, <2>2, <2>3, RequestSafe, AdvanceSafe, StopSafe DEF Next
  <1> QED
    BY <1>1, InitSafe, PTL DEF Spec

\* Every variable of the relay keeps its type (TypeOK), for any number of
\* sessions, caches and requests.
THEOREM TypeCorrect == Spec => []TypeOK
  BY Safety, PTL DEF Safe

\* No lease is left WARMING, or flagged so, once its warm is over
\* (WarmingIsInFlight), whatever races _warm_if_due.
THEOREM WarmsLeaveNoTrace == Spec => []WarmingIsInFlight
  BY Safety, PTL DEF Safe

\* The circuit breaker never lets a third unverified warm out (BreakerBound).
THEOREM BreakerHolds == Spec => []BreakerBound
  BY Safety, PTL DEF Safe

-----------------------------------------------------------------------------
(* Clients that do not overlap their requests *)

\* The invariant such clients add to Safe.
Serial == BusyIsMarked /\ OneAtATime

\* A step that leaves the requests, the busy marks and the sessions alone.
LEMMA QuietSerial ==
    ASSUME Safe, Serial, req' = req,
           \A l \in LeaseIds : /\ runtime'[l].realActive = runtime[l].realActive
                               /\ lease'[l].session = lease[l].session
    PROVE  Serial'
  <1>1. \A r \in Requests : InFlight(r) => req[r].lease \in LeaseIds
    BY RequestLease DEF InFlight
  <1>2. BusyIsMarked'
    BY <1>1 DEF Serial, BusyIsMarked, InFlight
  <1>3. OneAtATime'
    <2>1. \A r \in Requests : /\ InFlight(r)' <=> InFlight(r)
                              /\ InFlight(r) => lease'[req[r].lease].session
                                                   = lease[req[r].lease].session
      BY <1>1 DEF InFlight
    <2> QED
      BY <2>1 DEF Serial, OneAtATime
  <1> QED
    BY <1>2, <1>3 DEF Serial

\* The end of a request: no other request waits on its lease.
LEMMA EndSerial ==
    ASSUME Safe, Serial, NEW r \in Requests, NEW outcome \in Outcomes,
           NEW prefix \in Prefixes \cup {0}, NEW ttl \in TTLs, NEW unstable,
           req[r].pc = "sent", End(r, outcome, prefix, ttl, unstable),
           NEW pc, pc \in {"ok", "failed", "streaming"},
           req' = [req EXCEPT ![r].pc = pc]
    PROVE  Serial'
  <1> DEFINE l == req[r].lease
             T == Told(lease[l], outcome, prefix)
             N == RefreshTTL(T, ttl)
             R == AfterNormalRuntime(runtime[l], lease[l], outcome)
  <1>0. l \in LeaseIds /\ lease[l] \in Lease
    BY RequestLease DEF Safe, TypeOK
  <1>1. \A M \in {T, N} : M.session = lease[l].session
    BY <1>0, EndFacts
  <1> HIDE DEF T, N, R
  <1>2. PICK L \in {T, N} :
           lease' = [lease EXCEPT ![l] = L] /\ runtime' = [runtime EXCEPT ![l] = R]
    BY EndSplit DEF T, N, R
  <1>3. \A k \in LeaseIds : /\ lease'[k].session = lease[k].session
                            /\ k # l => runtime'[k] = runtime[k]
    BY <1>0, <1>1, <1>2 DEF Safe, TypeOK
  <1>4. \A q \in Requests : /\ req'[q].lease = req[q].lease
                            /\ q # r => req'[q] = req[q]
                            /\ req'[r].pc = pc
    BY DEF Safe, TypeOK, Reqs
  <1>5. \A q \in Requests : InFlight(q) => req[q].lease \in LeaseIds
    BY RequestLease DEF InFlight
  <1>6. BusyIsMarked'
    <2> SUFFICES ASSUME NEW q \in Requests, req'[q].pc = "sent"
                 PROVE  runtime'[req'[q].lease].realActive
      BY DEF BusyIsMarked
    <2>1. q # r /\ req[q].pc = "sent"
      BY <1>4
    <2>2. req[q].lease # l
      BY <2>1 DEF Serial, OneAtATime, InFlight
    <2> QED
      BY <1>3, <1>4, <1>5, <2>1, <2>2 DEF Serial, BusyIsMarked, InFlight
  <1>7. OneAtATime'
    <2>1. \A q \in Requests : InFlight(q)' => InFlight(q)
      BY <1>4 DEF InFlight
    <2>2. \A q \in Requests : InFlight(q) => lease'[req'[q].lease].session
                                               = lease[req[q].lease].session
      BY <1>3, <1>4, <1>5 DEF InFlight
    <2> QED
      BY <2>1, <2>2 DEF Serial, OneAtATime
  <1> QED
    BY <1>6, <1>7 DEF Serial

\* find_or_create_lease for session s gives no existing lease away and clears
\* only busy marks of that session.
OwnOnly(s, lease1, runtime1) ==
    /\ \A k \in LeaseIds : k <= count => lease1[k].session = lease[k].session
    /\ \A k \in LeaseIds : k <= count /\ lease[k].session # s
                               => runtime1[k].realActive = runtime[k].realActive

\* The start of a request of session s, which has none in flight: only busy
\* marks of its own leases may be lost.
LEMMA BeginSerial ==
    ASSUME Overlap = FALSE, Safe, Serial, NEW r \in Requests, NEW s, NEW f, NEW n,
           n \in 0..MaxTargets, NEW l \in 1..count', NEW lease1, NEW runtime1,
           lease1 \in [LeaseIds -> Lease], runtime1 \in [LeaseIds -> Runtime],
           count' \in 0..MaxLeases, MaySend(s), lease1[l].session = s,
           OwnOnly(s, lease1, runtime1),
           Begin(r, f, n, l, lease1, runtime1)
    PROVE  Serial'
  <1> DEFINE L == BeforeNormalRequest(SyncTargets(lease1[l], n))
             R == BeforeNormalRuntime(runtime1[l])
  <1> USE DEF OwnOnly
  <1>0. l \in LeaseIds /\ lease1[l] \in Lease /\ runtime1[l] \in Runtime
    BY RelayAssumption DEF LeaseIds
  <1>1. L.session = s
    BY <1>0, StartFacts
  <1>2. R.realActive = TRUE
    BY <1>0 DEF BeforeNormalRuntime, Runtime
  <1>3. /\ lease' = [lease1 EXCEPT ![l] = L] /\ runtime' = [runtime1 EXCEPT ![l] = R]
        /\ req' = [req EXCEPT ![r] = [pc |-> "sent", lease |-> l,
                                      generation |-> L.generation]]
    BY DEF Begin
  <1> HIDE DEF L, R
  <1>4. /\ req'[r].pc = "sent" /\ req'[r].lease = l
        /\ \A q \in Requests : q # r => req'[q] = req[q]
    BY <1>3 DEF Safe, TypeOK
  <1>5. /\ lease'[l].session = s /\ runtime'[l].realActive
        /\ \A k \in LeaseIds : k # l => lease'[k] = lease1[k] /\ runtime'[k] = runtime1[k]
    BY <1>0, <1>1, <1>2, <1>3
  <1>6. \A q \in Requests : InFlight(q) =>
            /\ req[q].lease \in LeaseIds /\ req[q].lease <= count
            /\ lease[req[q].lease].session # s
            /\ req[q].lease # l
            /\ lease'[req[q].lease].session = lease[req[q].lease].session
    <2> SUFFICES ASSUME NEW q \in Requests, InFlight(q)
                 PROVE  /\ req[q].lease \in LeaseIds /\ req[q].lease <= count
                        /\ lease[req[q].lease].session # s
                        /\ req[q].lease # l
                        /\ lease'[req[q].lease].session = lease[req[q].lease].session
      OBVIOUS
    <2>1. req[q].lease \in LeaseIds /\ req[q].lease <= count
      BY RequestLease DEF InFlight
    <2>2. lease[req[q].lease].session # s
      BY DEF MaySend
    <2> QED
      BY <1>5, <2>1, <2>2
  <1>7. BusyIsMarked'
    <2> SUFFICES ASSUME NEW q \in Requests, req'[q].pc = "sent"
                 PROVE  runtime'[req'[q].lease].realActive
      BY DEF BusyIsMarked
    <2>1. CASE q # r
      <3>1. InFlight(q) /\ req[q].pc = "sent" /\ req'[q] = req[q]
        BY <1>4, <2>1 DEF InFlight
      <3>2. runtime[req[q].lease].realActive
        BY <3>1 DEF Serial, BusyIsMarked
      <3> QED
        BY <1>5, <1>6, <3>1, <3>2
    <2> QED
      BY <1>4, <1>5, <2>1
  <1>8. OneAtATime'
    <2> SUFFICES ASSUME NEW p \in Requests, NEW q \in Requests, p # q,
                        InFlight(p)', InFlight(q)'
                 PROVE  lease'[req'[p].lease].session # lease'[req'[q].lease].session
      BY DEF OneAtATime
    <2>1. /\ p # r => InFlight(p) /\ req'[p] = req[p]
          /\ q # r => InFlight(q) /\ req'[q] = req[q]
      BY <1>4 DEF InFlight
    <2>2. CASE p # r /\ q # r
      BY <1>6, <2>1, <2>2 DEF Serial, OneAtATime
    <2>3. CASE p = r \/ q = r
      BY <1>4, <1>5, <1>6, <2>1, <2>3
    <2> QED
      BY <2>2, <2>3
  <1> QED
    BY <1>7, <1>8 DEF Serial

\* Every step of a request.
LEMMA RequestSerial ==
    ASSUME Overlap = FALSE, Safe, Serial, RequestStep
    PROVE  Serial'
  <1>1. PICK r \in Requests :
           \/ \E s \in Sessions, f \in Fingerprints, n \in 0..MaxTargets :
                 \/ StartOnLease(r, s, f, n)
                 \/ \E ttl \in TTLs : StartNewLease(r, s, f, n, ttl)
           \/ \E s \in Sessions, f \in Fingerprints : StartUntracked(r, s, f)
           \/ \E ttl \in TTLs :
                 \/ RequestFails(r, ttl)
                 \/ \E unstable \in BOOLEAN :
                       \/ ErrorUnobserved(r, ttl, unstable)
                       \/ StreamingResponse(r, ttl, unstable)
                       \/ \E outcome \in Outcomes, prefix \in Prefixes \cup {0} :
                             BoundedResponse(r, outcome, prefix, ttl, unstable)
           \/ StreamEnds(r)
           \/ BodyReadFails(r)
    BY Zenon DEF RequestStep
  <1>2. "failed" \in Outcomes /\ "success_unverified" \in Outcomes
    BY DEF Outcomes
  <1>3. ASSUME NEW ttl \in TTLs, RequestFails(r, ttl) PROVE Serial'
    BY <1>2, <1>3, EndSerial DEF RequestFails
  <1>4. ASSUME NEW ttl \in TTLs, NEW unstable,
               ErrorUnobserved(r, ttl, unstable) \/ StreamingResponse(r, ttl, unstable)
        PROVE  Serial'
    BY <1>2, <1>4, EndSerial DEF ErrorUnobserved, StreamingResponse
  <1>5. ASSUME NEW ttl \in TTLs, NEW unstable, NEW outcome \in Outcomes,
               NEW prefix \in Prefixes \cup {0},
               BoundedResponse(r, outcome, prefix, ttl, unstable)
        PROVE  Serial'
    BY <1>2, <1>5, EndSerial DEF BoundedResponse
  <1>6. ASSUME StreamEnds(r) \/ BodyReadFails(r) PROVE Serial'
    <2>1. /\ UNCHANGED <<lease, runtime>>
          /\ req' = [req EXCEPT ![r].pc = "ok"] \/ req' = [req EXCEPT ![r].pc = "aborted"]
      BY <1>6 DEF StreamEnds, BodyReadFails
    <2>2. \A q \in Requests : /\ req'[q].lease = req[q].lease
                              /\ q # r => req'[q] = req[q]
                              /\ req'[r].pc \in {"ok", "aborted"}
      BY <2>1 DEF Safe, TypeOK, Reqs
    <2>3. BusyIsMarked'
      BY <2>1, <2>2 DEF Serial, BusyIsMarked
    <2>4. OneAtATime'
      BY <2>1, <2>2 DEF Serial, OneAtATime, InFlight
    <2> QED
      BY <2>3, <2>4 DEF Serial
  <1>7. ASSUME NEW s \in Sessions, NEW f \in Fingerprints, NEW n \in 0..MaxTargets,
               StartOnLease(r, s, f, n)
        PROVE  Serial'
    <2>1. /\ byFp[f] \in 1..count' /\ count' \in 0..MaxLeases
          /\ lease[byFp[f]].session = s /\ MaySend(s)
          /\ Begin(r, f, n, byFp[f], lease, runtime)
      BY <1>7 DEF StartOnLease, Found, Safe, TypeOK, TableHasLease
    <2>2. lease \in [LeaseIds -> Lease] /\ runtime \in [LeaseIds -> Runtime]
      BY DEF Safe, TypeOK
    <2>3. OwnOnly(s, lease, runtime)
      BY DEF OwnOnly
    <2> QED
      BY <2>1, <2>2, <2>3, BeginSerial
  <1>8. ASSUME NEW s \in Sessions, NEW f \in Fingerprints, NEW n \in 0..MaxTargets,
               NEW ttl \in TTLs, StartNewLease(r, s, f, n, ttl)
        PROVE  Serial'
    <2> DEFINE old == Superseded(s, f)
               lease1 == [l \in LeaseIds |->
                     IF l = count + 1 THEN NewLease(s, f, ttl)
                     ELSE IF l \in old THEN Invalidate(lease[l]) ELSE lease[l]]
               runtime1 == [l \in LeaseIds |->
                     IF l \in old THEN InvalidateRuntime(runtime[l]) ELSE runtime[l]]
    <2>1. Begin(r, f, n, count + 1, lease1, runtime1)
      BY <1>8, Zenon DEF StartNewLease
    <2>2. /\ count + 1 \in 1..count' /\ count' \in 0..MaxLeases /\ MaySend(s)
          /\ count + 1 \in LeaseIds /\ count \in Nat
      BY <1>8, RelayAssumption DEF StartNewLease, Safe, TypeOK, LeaseIds
    <2>3. /\ lease1 \in [LeaseIds -> Lease]
          /\ lease1[count + 1].session = s
          /\ \A k \in LeaseIds : k # count + 1 => lease1[k].session = lease[k].session
      BY <2>2, ArmFacts, NewLeaseFacts DEF Safe, TypeOK
    <2>4. /\ runtime1 \in [LeaseIds -> Runtime]
          /\ \A k \in LeaseIds : lease[k].session # s => runtime1[k] = runtime[k]
      <3>1. \A R \in Runtime : InvalidateRuntime(R) \in Runtime
        BY DEF InvalidateRuntime, Runtime
      <3>2. \A k \in old : lease[k].session = s
        BY DEF Superseded
      <3> QED
        BY <3>1, <3>2 DEF Safe, TypeOK
    <2> HIDE DEF lease1, runtime1
    <2>5. OwnOnly(s, lease1, runtime1)
      BY <2>2, <2>3, <2>4 DEF LeaseIds, OwnOnly
    <2>6. /\ lease1 \in [LeaseIds -> Lease] /\ runtime1 \in [LeaseIds -> Runtime]
          /\ lease1[count + 1].session = s
      BY <2>3, <2>4
    <2> QED
      BY <2>1, <2>2, <2>5, <2>6, BeginSerial
  <1>9. ASSUME NEW s \in Sessions, NEW f \in Fingerprints, StartUntracked(r, s, f)
        PROVE  Serial'
    <2> DEFINE old == Superseded(s, f)
    <2>1. /\ MaySend(s) /\ req' = [req EXCEPT ![r].pc = "untracked"]
          /\ runtime' = [l \in LeaseIds |->
                IF l \in old THEN InvalidateRuntime(runtime[l]) ELSE runtime[l]]
          /\ \A l \in LeaseIds : lease'[l].session = lease[l].session
      BY <1>9, SupersedeFacts DEF StartUntracked
    <2>2. /\ \A q \in Requests : /\ req'[q].lease = req[q].lease
                                 /\ q # r => req'[q] = req[q]
          /\ req'[r].pc = "untracked"
      BY <2>1 DEF Safe, TypeOK, Reqs
    <2>3. \A q \in Requests : InFlight(q)' => InFlight(q) /\ req'[q] = req[q]
      BY <2>2 DEF InFlight
    <2>4. \A q \in Requests : InFlight(q) => /\ req[q].lease \in LeaseIds
                                             /\ lease[req[q].lease].session # s
      BY <2>1, RequestLease DEF MaySend, InFlight
    <2>5. \A k \in LeaseIds : lease[k].session # s => runtime'[k] = runtime[k]
      BY <2>1 DEF Superseded
    <2>6. BusyIsMarked'
      <3> SUFFICES ASSUME NEW q \in Requests, req'[q].pc = "sent"
                   PROVE  runtime'[req'[q].lease].realActive
        BY DEF BusyIsMarked
      <3>1. req'[q] = req[q] /\ InFlight(q)
        BY <2>2, <2>3 DEF InFlight
      <3> QED
        BY <2>4, <2>5, <3>1 DEF Serial, BusyIsMarked
    <2>7. OneAtATime'
      BY <2>1, <2>3, <2>4 DEF Serial, OneAtATime
    <2> QED
      BY <2>6, <2>7 DEF Serial
  <1> QED
    BY <1>1, <1>3, <1>4, <1>5, <1>6, <1>7, <1>8, <1>9

\* The scheduler and time move no request, no busy mark and no session.
LEMMA OtherSerial ==
    ASSUME Safe, Serial,
           SchedulerStep \/ WarmStep \/ Advance \/ Stop \/ Stopped \/ UNCHANGED vars
    PROVE  Serial'
  <1>1. \A R \in Runtime : WarmOverRuntime(R).realActive = R.realActive
    BY DEF WarmOverRuntime, Runtime
  <1>2. \A L \in Lease : WarmOver(L).session = L.session
    BY ArmFacts DEF WarmOver
  <1>3. \A l \in LeaseIds : lease[l] \in Lease /\ runtime[l] \in Runtime
    BY DEF Safe, TypeOK
  <1>4. lease \in [LeaseIds -> Lease] /\ runtime \in [LeaseIds -> Runtime]
    BY DEF Safe, TypeOK
  <1>5. ASSUME NEW k \in LeaseIds, EvaluateLease(k)
        PROVE  /\ req' = req
               /\ \A l \in LeaseIds : /\ runtime'[l].realActive = runtime[l].realActive
                                      /\ lease'[l].session = lease[l].session
    <2>1. /\ req' = req
          /\ \A l \in LeaseIds : l # k => runtime'[l] = runtime[l] /\ lease'[l] = lease[l]
      BY <1>4, <1>5
         DEF EvaluateLease, EvaluateSkip, EvaluateSchedule, EvaluateEconomicStop,
             EvaluateRefuse, EvaluateDecline, SendWarm
    <2>2. runtime'[k].realActive = runtime[k].realActive
      BY <1>3, <1>4, <1>5
         DEF EvaluateLease, EvaluateSkip, EvaluateSchedule, EvaluateEconomicStop,
             EvaluateRefuse, EvaluateDecline, SendWarm, Runtime
    <2>3. lease'[k].session = lease[k].session
      <3>1. CASE EvaluateSchedule(k)
        BY <1>3, <1>4, <3>1 DEF EvaluateSchedule, Lease
      <3>2. CASE EvaluateEconomicStop(k)
        BY <1>3, <1>4, <3>2 DEF EvaluateEconomicStop, Lease
      <3>3. CASE EvaluateDecline(k)
        BY <1>3, <1>4, <3>3, ArmFacts DEF EvaluateDecline
      <3>4. CASE SendWarm(k)
        BY <1>3, <1>4, <3>4 DEF SendWarm, Lease
      <3>5. CASE EvaluateSkip(k) \/ EvaluateRefuse(k)
        BY <3>5 DEF EvaluateSkip, EvaluateRefuse
      <3> QED
        BY <1>5, <3>1, <3>2, <3>3, <3>4, <3>5 DEF EvaluateLease
    <2> QED
      BY <2>1, <2>2, <2>3
  <1>6. ASSUME NEW res \in WarmResults, WarmReturns(res)
        PROVE  /\ req' = req
               /\ \A l \in LeaseIds : /\ runtime'[l].realActive = runtime[l].realActive
                                      /\ lease'[l].session = lease[l].session
    <2>1. sched.at \in LeaseIds /\ runtime[sched.at].circuitOpen = FALSE
      BY <1>3, <1>6 DEF WarmReturns, Safe, WarmHasLease, BreakerBound, Runtime
    <2>2. /\ ApplyWarmRuntime(WarmOverRuntime(runtime[sched.at]), res).realActive
               = runtime[sched.at].realActive
          /\ ApplyWarmResult(WarmOver(lease[sched.at]), res).session
               = lease[sched.at].session
      BY <1>3, <2>1, WarmRuntimeFacts, WarmResultFacts, BreakerLocal DEF Safe
    <2> QED
      BY <1>4, <1>6, <2>1, <2>2 DEF WarmReturns
  <1>7. ASSUME TickBegins \/ TickEnds \/ Stopped \/ UNCHANGED vars
        PROVE  req' = req /\ runtime' = runtime /\ lease' = lease
    BY <1>7 DEF TickBegins, TickEnds, Stopped, vars
  <1>8. ASSUME Advance
        PROVE  /\ req' = req /\ runtime' = runtime
               /\ \A l \in LeaseIds : lease'[l].session = lease[l].session
    <2>1. /\ req' = req /\ runtime' = runtime
          /\ lease' = [l \in LeaseIds |->
                        [lease[l] EXCEPT !.age = IF @ = Never \/ @ >= MaxAge THEN @ ELSE @ + 1]]
      BY <1>8 DEF Advance
    <2>2. ASSUME NEW l \in LeaseIds PROVE lease'[l].session = lease[l].session
      BY <1>3, <2>1 DEF Lease
    <2> QED
      BY <2>1, <2>2
  <1>9. ASSUME Stop
        PROVE  /\ req' = req
               /\ \A l \in LeaseIds : /\ runtime'[l].realActive = runtime[l].realActive
                                      /\ lease'[l].session = lease[l].session
    BY <1>1, <1>2, <1>3, <1>4, <1>9 DEF Stop, Safe, WarmHasLease
  <1> QED
    BY <1>5, <1>6, <1>7, <1>8, <1>9, QuietSerial DEF SchedulerStep, WarmStep

\* A client that waits for its answers keeps Serial.
LEMMA SerialInductive ==
    ASSUME Overlap = FALSE
    PROVE  /\ Init => Serial
           /\ Safe /\ Serial /\ [Next]_vars => Serial'
  <1>1. Init => Serial
    BY DEF Init, Serial, BusyIsMarked, OneAtATime, InFlight
  <1>2. Safe /\ Serial /\ [Next]_vars => Serial'
    BY RequestSerial, OtherSerial DEF Next
  <1> QED
    BY <1>1, <1>2

\* Only SendWarm starts a warm.
LEMMA SendsIsSendWarm ==
    ASSUME Safe, Next, NEW l \in LeaseIds, Sends(l)
    PROVE  SendWarm(l)
  <1>1. \E k \in LeaseIds : SendWarm(k)
    <2>1. ~RequestStep
      <3>1. ASSUME NEW x \in Requests, NEW outcome, NEW prefix, NEW ttl, NEW unstable
            PROVE  /\ RequestFails(x, ttl) => sched' = sched
                   /\ ErrorUnobserved(x, ttl, unstable) => sched' = sched
                   /\ StreamingResponse(x, ttl, unstable) => sched' = sched
                   /\ BoundedResponse(x, outcome, prefix, ttl, unstable) => sched' = sched
                   /\ StreamEnds(x) \/ BodyReadFails(x) => sched' = sched
        BY DEF End, RequestFails, ErrorUnobserved, StreamingResponse, BoundedResponse,
               StreamEnds, BodyReadFails
      <3>2. ASSUME NEW x \in Requests, NEW s, NEW f, NEW n, NEW ttl
            PROVE  /\ StartOnLease(x, s, f, n) => sched' = sched
                   /\ StartNewLease(x, s, f, n, ttl) => sched' = sched
                   /\ StartUntracked(x, s, f) => sched' = sched
        BY DEF StartOnLease, StartNewLease, StartUntracked
      <3>3. RequestStep => sched' = sched
        BY <3>1, <3>2, Zenon DEF RequestStep
      <3> QED
        BY <3>3 DEF Sends
    <2>2. ~WarmStep /\ ~Advance /\ ~Stop /\ ~Stopped /\ ~TickBegins /\ ~TickEnds
      BY SchedFacts DEF Sends, WarmStep, WarmReturns, Advance, Stop, Stopped, vars, TickBegins,
             TickEnds, Safe, TypeOK, Scheds, SchedStates
    <2>3. \A k \in LeaseIds : EvaluateLease(k) => SendWarm(k)
      BY DEF Sends, EvaluateLease, EvaluateSkip, EvaluateSchedule, EvaluateEconomicStop,
             EvaluateRefuse, EvaluateDecline, Safe, TypeOK, Scheds
    <2> QED
      BY <2>1, <2>2, <2>3 DEF Next, SchedulerStep
  <1>2. SendWarm(l)
    <2>1. PICK k \in LeaseIds : SendWarm(k)
      BY <1>1
    <2>2. k = sched.at /\ sched'.at = sched.at
      BY <2>1 DEF SendWarm, WarmDue, Evaluating, Safe, TypeOK, Scheds
    <2> QED
      BY <2>1, <2>2 DEF Sends
  <1> QED
    BY <1>2

\* Real requests always win (RealRequestWins) as long as no session overlaps
\* its requests: no warm of a lease is sent while one of its own requests waits
\* for the upstream, whatever other sessions, time and earlier warms do.
THEOREM RealRequestsWin ==
    ASSUME Overlap = FALSE
    PROVE  Spec => RealRequestWins
  <1>1. Safe /\ Serial /\ [Next]_vars =>
           [\A l \in LeaseIds, r \in Requests :
               Sends(l) => ~(req[r].pc = "sent" /\ req[r].lease = l)]_vars
    <2> SUFFICES ASSUME Safe, Serial, Next, NEW l \in LeaseIds, NEW r \in Requests,
                        Sends(l), req[r].pc = "sent", req[r].lease = l
                 PROVE  FALSE
      OBVIOUS
    <2>1. ~runtime[l].realActive
      BY SendsIsSendWarm DEF SendWarm, WarmDue, Skips
    <2> QED
      BY <2>1 DEF Serial, BusyIsMarked
  <1> QED
    BY <1>1, SerialInductive, Safety, PTL DEF Spec, RealRequestWins

-----------------------------------------------------------------------------
(* What a step does to the books: the facts the further invariants need *)

\* M has the generation, the prompt size and the spending of L.
SameBooks(M, L) ==
    /\ M.generation = L.generation /\ M.prefix = L.prefix /\ M.warmCost = L.warmCost

\* Arming, disarming and invalidating move only the state.
LEMMA ArmBooks ==
    ASSUME NEW L \in Lease
    PROVE  SameBooks(Arm(L), L) /\ SameBooks(Disarm(L), L) /\ SameBooks(Invalidate(L), L)
  BY DEF Arm, Disarm, Invalidate, Lease, SameBooks

\* The start of a request counts a generation and nothing else.
LEMMA StartBooks ==
    ASSUME NEW L \in Lease, NEW n \in 0..MaxTargets
    PROVE  LET M == BeforeNormalRequest(SyncTargets(L, n))
           IN  /\ M.generation = L.generation + 1
               /\ M.prefix = L.prefix /\ M.warmCost = L.warmCost
  <1> DEFINE S == [L EXCEPT !.targets = 1..n]
  <1>0. 1..n \in SUBSET (1..MaxTargets)
    BY LeasesAssumption
  <1>1. S \in Lease /\ SameBooks(S, L)
    BY <1>0 DEF Lease, SameBooks
  <1>2. SyncTargets(L, n) \in Lease /\ SameBooks(SyncTargets(L, n), L)
    BY <1>1, ArmFacts, ArmBooks DEF SyncTargets, SameBooks
  <1>3. ASSUME NEW M \in Lease
        PROVE  /\ BeforeNormalRequest(M).generation = M.generation + 1
               /\ BeforeNormalRequest(M).prefix = M.prefix
               /\ BeforeNormalRequest(M).warmCost = M.warmCost
    BY DEF BeforeNormalRequest, Lease
  <1> QED
    BY <1>2, <1>3 DEF SameBooks

\* The end of a request may bring a new prompt size.
LEMMA EndBooks ==
    ASSUME NEW L \in Lease, NEW outcome \in Outcomes,
           NEW prefix \in Prefixes \cup {0}, NEW ttl \in TTLs,
           NEW M \in {Told(L, outcome, prefix), RefreshTTL(Told(L, outcome, prefix), ttl)}
    PROVE  /\ M.generation = L.generation /\ M.warmCost = L.warmCost
           /\ M.prefix = L.prefix \/ M.prefix = prefix
  <1> DEFINE A == AfterNormalRequest(L, outcome)
             T == [L EXCEPT !.age = 0]
  <1>1. T \in Lease /\ SameBooks(T, L)
    BY DEF Lease, SameBooks
  <1>2. A \in Lease /\ SameBooks(A, L)
    BY <1>1, ArmFacts, ArmBooks DEF AfterNormalRequest, SameBooks
  <1>3. prefix \in Nat /\ ttl \in Nat
    BY LeasesAssumption
  <1>4. ASSUME NEW K \in Lease
        PROVE  LET N == UpdateCostEstimates(K, prefix)
               IN  /\ N \in Lease /\ N.generation = K.generation /\ N.warmCost = K.warmCost
                   /\ N.prefix = K.prefix \/ N.prefix = prefix
    BY <1>3 DEF UpdateCostEstimates, Lease
  <1>5. ASSUME NEW K \in Lease
        PROVE  SameBooks(RefreshTTL(K, ttl), K)
    BY <1>3 DEF RefreshTTL, Lease, SameBooks
  <1> HIDE DEF A
  <1> QED
    BY <1>2, <1>4, <1>5 DEF A, SameBooks, Told

\* The result of a warm charges its cost.
LEMMA WarmBooks ==
    ASSUME NEW L \in Lease, NEW res \in WarmResults
    PROVE  LET M == ApplyWarmResult(WarmOver(L), res)
           IN  /\ M.generation = L.generation /\ M.prefix = L.prefix
               /\ M.warmCost = L.warmCost + res.cost
  <1>1. WarmOver(L) \in Lease /\ SameBooks(WarmOver(L), L)
    BY ArmFacts, ArmBooks DEF WarmOver
  <1>2. ASSUME NEW M \in Lease
        PROVE  /\ ApplyWarmResult(M, res).generation = M.generation
               /\ ApplyWarmResult(M, res).prefix = M.prefix
               /\ ApplyWarmResult(M, res).warmCost = M.warmCost + res.cost
    BY DEF ApplyWarmResult, Lease
  <1> QED
    BY <1>1, <1>2 DEF SameBooks

\* Requests and invalidations leave the misses alone, but for the evidence a
\* response brings.
LEMMA MissFacts ==
    ASSUME NEW R \in Runtime, NEW L, NEW outcome
    PROVE  /\ BeforeNormalRuntime(R).misses = R.misses
           /\ InvalidateRuntime(R).misses = R.misses
           /\ WarmOverRuntime(R).misses = R.misses
           /\ \/ AfterNormalRuntime(R, L, outcome).misses = R.misses
              \/ AfterNormalRuntime(R, L, outcome).misses = 0
  <1>1. /\ BeforeNormalRuntime(R).misses = R.misses
        /\ InvalidateRuntime(R).misses = R.misses
        /\ WarmOverRuntime(R).misses = R.misses
    BY DEF BeforeNormalRuntime, InvalidateRuntime, WarmOverRuntime, Runtime
  <1>2. [R EXCEPT !.realActive = FALSE] \in Runtime
    BY DEF Runtime
  <1>3. \/ AfterNormalRuntime(R, L, outcome).misses = R.misses
        \/ AfterNormalRuntime(R, L, outcome).misses = 0
    BY <1>2 DEF AfterNormalRuntime, Runtime
  <1> QED
    BY <1>1, <1>3

\* on_request_start of request r, of session s for cache f, on lease l: one that
\* exists or the next one.  The other leases may be superseded, nothing else.
RequestBegins(r, s, f, l) ==
    /\ LoopFree /\ sched' = sched /\ req[r].pc = "idle" /\ MaySend(s)
    /\ l \in LeaseIds
    /\ \/ /\ l = byFp[f] /\ l \in 1..count /\ count' = count /\ byFp' = byFp
          /\ lease[l].session = s /\ lease'[l].fp = lease[l].fp
          /\ lease'[l].generation = lease[l].generation + 1
          /\ lease'[l].prefix = lease[l].prefix /\ lease'[l].warmCost = lease[l].warmCost
       \/ /\ l = count + 1 /\ count' = count + 1 /\ ~Found(s, f)
          /\ byFp' = [byFp EXCEPT ![f] = l] /\ lease'[l].fp = f
          /\ lease'[l].generation = 1
          /\ lease'[l].prefix = 0 /\ lease'[l].warmCost = 0
    /\ lease'[l].session = s
    /\ \E saved \in BOOLEAN :
          stored' = [stored EXCEPT ![l] = Persist(stored[l], lease'[l], saved)]
    /\ snapshot' = IF f \in Opaque THEN snapshot ELSE [snapshot EXCEPT ![f] = r]
    /\ pin' = [pin EXCEPT ![l] = LookUpPin(@)]
    /\ req' = [req EXCEPT ![r] = [pc |-> "sent", lease |-> l,
                                  generation |-> lease'[l].generation]]
    /\ \A k \in LeaseIds : runtime'[k].misses = runtime[k].misses
    /\ \A k \in LeaseIds \ {l} :
          /\ SameBooks(lease'[k], lease[k])
          /\ lease'[k].session = lease[k].session /\ lease'[k].fp = lease[k].fp
          /\ lease'[k].state \in {lease[k].state, "invalidated"}
          /\ \/ runtime'[k].realActive = runtime[k].realActive
             \/ lease'[k].state = "invalidated"

\* A request r forwarded without a lease: leases may be superseded, nothing else.
RequestUntracked(r) ==
    /\ LoopFree /\ sched' = sched /\ req[r].pc = "idle" /\ r \in Unresolved
    /\ req' = [req EXCEPT ![r].pc = "untracked"]
    /\ UNCHANGED <<count, byFp, snapshot, pin, stored>>
    /\ \A k \in LeaseIds :
          /\ SameBooks(lease'[k], lease[k])
          /\ lease'[k].session = lease[k].session /\ lease'[k].fp = lease[k].fp
          /\ lease'[k].state \in {lease[k].state, "invalidated"}
          /\ runtime'[k].misses = runtime[k].misses
          /\ \/ runtime'[k].realActive = runtime[k].realActive
             \/ lease'[k].state = "invalidated"

\* on_request_end of request r, which goes on to pc.
RequestEnds(r, outcome, prefix, unstable, pc) ==
    LET l == req[r].lease
    IN  /\ LoopFree /\ sched' = sched /\ req[r].pc = "sent"
        /\ l \in LeaseIds /\ l <= count /\ count' = count /\ byFp' = byFp
        /\ pc \in {"ok", "failed", "streaming"}
        /\ outcome = "failed" => pc = "failed"
        /\ pc = "failed" => outcome = "failed" \/ r \in Unobserved
        /\ req' = [req EXCEPT ![r].pc = pc]
        /\ \/ /\ \E saved \in BOOLEAN :
                    stored' = [stored EXCEPT ![l] = Persist(stored[l], lease'[l], saved)]
              /\ snapshot' = SnapshotAfter(lease[l].fp, outcome)
              /\ pin' = [pin EXCEPT ![l] =
                            ReconcileAffinity(pin[l], lease'[l], outcome, unstable)]
           \/ r \in Unresolved /\ UNCHANGED <<stored, snapshot, pin>>
        /\ lease'[l].session = lease[l].session /\ lease'[l].fp = lease[l].fp
        /\ lease'[l].generation = lease[l].generation
        /\ lease'[l].warmCost = lease[l].warmCost
        /\ lease'[l].prefix = lease[l].prefix \/ lease'[l].prefix = prefix
        /\ runtime'[l].misses = runtime[l].misses \/ runtime'[l].misses = 0
        /\ \A k \in LeaseIds \ {l} : lease'[k] = lease[k] /\ runtime'[k] = runtime[k]

\* The part of Begin that is common to both starts.
LEMMA BeginEffect ==
    ASSUME Safe, NEW r \in Requests, NEW f \in Fingerprints, NEW n \in 0..MaxTargets,
           NEW l \in LeaseIds, NEW lease1 \in [LeaseIds -> Lease],
           NEW runtime1 \in [LeaseIds -> Runtime],
           Begin(r, f, n, l, lease1, runtime1)
    PROVE  /\ lease'[l].generation = lease1[l].generation + 1
           /\ lease'[l].prefix = lease1[l].prefix
           /\ lease'[l].warmCost = lease1[l].warmCost
           /\ lease'[l].session = lease1[l].session /\ lease'[l].fp = lease1[l].fp
           /\ runtime'[l].misses = runtime1[l].misses
           /\ \A k \in LeaseIds \ {l} : lease'[k] = lease1[k] /\ runtime'[k] = runtime1[k]
           /\ \E saved \in BOOLEAN :
                 stored' = [stored EXCEPT ![l] = Persist(stored[l], lease'[l], saved)]
           /\ snapshot' = IF f \in Opaque THEN snapshot ELSE [snapshot EXCEPT ![f] = r]
           /\ pin' = [pin EXCEPT ![l] = LookUpPin(@)]
           /\ req' = [req EXCEPT ![r] = [pc |-> "sent", lease |-> l,
                                         generation |-> lease'[l].generation]]
  <1> DEFINE L == BeforeNormalRequest(SyncTargets(lease1[l], n))
             R == BeforeNormalRuntime(runtime1[l])
  <1>1. /\ lease' = [lease1 EXCEPT ![l] = L]
        /\ runtime' = [runtime1 EXCEPT ![l] = R]
        /\ \E saved \in BOOLEAN :
              stored' = [stored EXCEPT ![l] = Persist(stored[l], L, saved)]
        /\ snapshot' = IF f \in Opaque THEN snapshot ELSE [snapshot EXCEPT ![f] = r]
        /\ pin' = [pin EXCEPT ![l] = LookUpPin(@)]
        /\ req' = [req EXCEPT ![r] = [pc |-> "sent", lease |-> l,
                                      generation |-> L.generation]]
    BY DEF Begin
  <1>2. /\ L.generation = lease1[l].generation + 1 /\ L.prefix = lease1[l].prefix
        /\ L.warmCost = lease1[l].warmCost
    BY StartBooks
  <1>3. L.session = lease1[l].session /\ L.fp = lease1[l].fp
    BY StartFacts
  <1>4. R.misses = runtime1[l].misses
    BY MissFacts
  <1> HIDE DEF L, R
  <1>5. /\ lease'[l] = L /\ runtime'[l] = R
        /\ \A k \in LeaseIds \ {l} : lease'[k] = lease1[k] /\ runtime'[k] = runtime1[k]
    BY <1>1
  <1> QED
    BY <1>1, <1>2, <1>3, <1>4, <1>5

\* A new lease starts with empty books.
LEMMA NewLeaseBooks ==
    ASSUME NEW s, NEW f, NEW ttl
    PROVE  /\ NewLease(s, f, ttl).generation = 0 /\ NewLease(s, f, ttl).prefix = 0
           /\ NewLease(s, f, ttl).warmCost = 0
  BY DEF NewLease, EmptyLease

\* Both starts.
LEMMA StartEffect ==
    ASSUME Safe, NEW r \in Requests, NEW s \in Sessions, NEW f \in Fingerprints,
           NEW n \in 0..MaxTargets
    PROVE  /\ StartOnLease(r, s, f, n) => \E l \in LeaseIds : RequestBegins(r, s, f, l)
           /\ \A ttl \in TTLs : StartNewLease(r, s, f, n, ttl)
                                   => \E l \in LeaseIds : RequestBegins(r, s, f, l)
  <1>0. lease \in [LeaseIds -> Lease] /\ runtime \in [LeaseIds -> Runtime]
    BY DEF Safe, TypeOK
  <1>1. ASSUME StartOnLease(r, s, f, n)
        PROVE  RequestBegins(r, s, f, byFp[f])
    <2> DEFINE l == byFp[f]
    <2>1. /\ l \in 1..count /\ count' = count /\ byFp' = byFp /\ sched' = sched
          /\ LoopFree /\ req[r].pc = "idle" /\ MaySend(s) /\ lease[l].session = s
          /\ Begin(r, f, n, l, lease, runtime)
      BY <1>1 DEF StartOnLease, Found, Safe, TypeOK, TableHasLease
    <2>2. l \in LeaseIds
      BY <2>1 DEF Safe, TypeOK, LeaseIds
    <2> HIDE DEF l
    <2>3. /\ lease'[l].generation = lease[l].generation + 1
          /\ lease'[l].prefix = lease[l].prefix /\ lease'[l].warmCost = lease[l].warmCost
          /\ lease'[l].session = lease[l].session /\ lease'[l].fp = lease[l].fp
          /\ runtime'[l].misses = runtime[l].misses
          /\ \A k \in LeaseIds \ {l} : lease'[k] = lease[k] /\ runtime'[k] = runtime[k]
      BY <1>0, <2>1, <2>2, BeginEffect
    <2>4. /\ \E saved \in BOOLEAN :
                stored' = [stored EXCEPT ![l] = Persist(stored[l], lease'[l], saved)]
          /\ snapshot' = IF f \in Opaque THEN snapshot ELSE [snapshot EXCEPT ![f] = r]
          /\ pin' = [pin EXCEPT ![l] = LookUpPin(@)]
          /\ req' = [req EXCEPT ![r] = [pc |-> "sent", lease |-> l,
                                        generation |-> lease'[l].generation]]
      BY <1>0, <2>1, <2>2, BeginEffect
    <2> QED
      BY <1>0, <2>1, <2>2, <2>3, <2>4 DEF RequestBegins, l, SameBooks
  <1>2. ASSUME NEW ttl \in TTLs, StartNewLease(r, s, f, n, ttl)
        PROVE  RequestBegins(r, s, f, count + 1) /\ count + 1 \in LeaseIds
    <2> DEFINE old == Superseded(s, f)
               lease1 == [k \in LeaseIds |->
                     IF k = count + 1 THEN NewLease(s, f, ttl)
                     ELSE IF k \in old THEN Invalidate(lease[k]) ELSE lease[k]]
               runtime1 == [k \in LeaseIds |->
                     IF k \in old THEN InvalidateRuntime(runtime[k]) ELSE runtime[k]]
               l == count + 1
    <2>1. Begin(r, f, n, l, lease1, runtime1)
      BY <1>2, Zenon DEF StartNewLease
    <2>2. /\ l \in LeaseIds /\ LoopFree /\ req[r].pc = "idle" /\ MaySend(s)
          /\ ~Found(s, f) /\ sched' = sched /\ count' = l
          /\ byFp' = [byFp EXCEPT ![f] = l] /\ l \notin old
      BY <1>2, RelayAssumption DEF StartNewLease, Safe, TypeOK, LeaseIds, Superseded
    <2>3. /\ lease1 \in [LeaseIds -> Lease]
          /\ lease1[l] = NewLease(s, f, ttl)
          /\ \A k \in LeaseIds \ {l} :
                lease1[k] = IF k \in old THEN Invalidate(lease[k]) ELSE lease[k]
      BY <1>0, <2>2, ArmFacts, NewLeaseFacts
    <2>4. ASSUME NEW R \in Runtime
          PROVE  InvalidateRuntime(R) \in Runtime /\ InvalidateRuntime(R).misses = R.misses
      BY DEF InvalidateRuntime, Runtime
    <2>5. /\ runtime1 \in [LeaseIds -> Runtime]
          /\ \A k \in LeaseIds : /\ runtime1[k].misses = runtime[k].misses
                                 /\ k \notin old => runtime1[k] = runtime[k]
      BY <1>0, <2>4
    <2> HIDE DEF lease1, runtime1, l, old
    <2>6. /\ \A k \in LeaseIds \ {l} : lease'[k] = lease1[k] /\ runtime'[k] = runtime1[k]
          /\ runtime'[l].misses = runtime1[l].misses
          /\ lease'[l].generation = 0 + 1 /\ lease'[l].prefix = 0 /\ lease'[l].warmCost = 0
          /\ lease'[l].session = s /\ lease'[l].fp = f
      BY <2>1, <2>2, <2>3, <2>5, BeginEffect, NewLeaseBooks, NewLeaseFacts
    <2>7. ASSUME NEW k \in LeaseIds \ {l}
          PROVE  /\ SameBooks(lease'[k], lease[k])
                 /\ lease'[k].session = lease[k].session /\ lease'[k].fp = lease[k].fp
                 /\ lease'[k].state \in {lease[k].state, "invalidated"}
                 /\ \/ runtime'[k].realActive = runtime[k].realActive
                    \/ lease'[k].state = "invalidated"
      <3>1. CASE k \notin old
        BY <2>3, <2>5, <2>6, <3>1 DEF SameBooks
      <3>2. CASE k \in old
        <4>1. lease'[k] = Invalidate(lease[k]) /\ lease[k] \in Lease
          BY <1>0, <2>3, <2>6, <3>2
        <4>2. Invalidate(lease[k]).state = "invalidated"
          BY <4>1 DEF Invalidate, Lease
        <4> QED
          BY <4>1, <4>2, ArmFacts, ArmBooks
      <3> QED
        BY <3>1, <3>2
    <2>8. \A k \in LeaseIds : runtime'[k].misses = runtime[k].misses
      BY <2>5, <2>6
    <2>9. /\ \E saved \in BOOLEAN :
                stored' = [stored EXCEPT ![l] = Persist(stored[l], lease'[l], saved)]
          /\ snapshot' = IF f \in Opaque THEN snapshot ELSE [snapshot EXCEPT ![f] = r]
          /\ pin' = [pin EXCEPT ![l] = LookUpPin(@)]
          /\ req' = [req EXCEPT ![r] = [pc |-> "sent", lease |-> l,
                                        generation |-> lease'[l].generation]]
      BY <2>1, <2>2, <2>3, <2>5, BeginEffect
    <2>10. l = count + 1
      BY DEF l
    <2>11. l \in LeaseIds /\ count' = count + 1 /\ lease'[l].generation = 1
      BY <2>2, <2>6, <2>10
    <2>12. RequestBegins(r, s, f, l)
      BY <2>2, <2>6, <2>7, <2>8, <2>9, <2>10, <2>11, Zenon DEF RequestBegins
    <2> QED
      BY <2>10, <2>11, <2>12
  <1>3. StartOnLease(r, s, f, n) => byFp[f] \in LeaseIds
    BY DEF StartOnLease, Found, Safe, TypeOK, LeaseIds
  <1> QED
    BY <1>1, <1>2, <1>3

\* The ends of a request.
LEMMA EndEffect ==
    ASSUME Safe, NEW r \in Requests, NEW outcome \in Outcomes,
           NEW prefix \in Prefixes \cup {0}, NEW ttl \in TTLs, NEW unstable,
           LoopFree, req[r].pc = "sent", End(r, outcome, prefix, ttl, unstable),
           NEW pc \in {"ok", "failed", "streaming"}, req' = [req EXCEPT ![r].pc = pc],
           outcome = "failed" => pc = "failed",
           pc = "failed" => outcome = "failed" \/ r \in Unobserved
    PROVE  RequestEnds(r, outcome, prefix, unstable, pc)
  <1> DEFINE l == req[r].lease
             T == Told(lease[l], outcome, prefix)
             N == RefreshTTL(T, ttl)
             R == AfterNormalRuntime(runtime[l], lease[l], outcome)
  <1>0. /\ l \in LeaseIds /\ l <= count /\ lease[l] \in Lease /\ runtime[l] \in Runtime
        /\ lease \in [LeaseIds -> Lease] /\ runtime \in [LeaseIds -> Runtime]
    BY RequestLease DEF Safe, TypeOK
  <1>1. ASSUME NEW M \in {T, N}
        PROVE  /\ M.generation = lease[l].generation /\ M.warmCost = lease[l].warmCost
               /\ M.prefix = lease[l].prefix \/ M.prefix = prefix
               /\ M.session = lease[l].session /\ M.fp = lease[l].fp
    BY <1>0, EndBooks, EndFacts
  <1>2. R.misses = runtime[l].misses \/ R.misses = 0
    BY <1>0, MissFacts
  <1> HIDE DEF T, N, R
  <1>3. PICK L \in {T, N} :
           /\ lease' = [lease EXCEPT ![l] = L]
           /\ runtime' = [runtime EXCEPT ![l] = R]
           /\ UNCHANGED <<count, byFp, sched>>
           /\ \/ /\ \E saved \in BOOLEAN :
                       stored' = [stored EXCEPT ![l] = Persist(stored[l], L, saved)]
                 /\ snapshot' = SnapshotAfter(lease[l].fp, outcome)
                 /\ pin' = [pin EXCEPT ![l] = ReconcileAffinity(pin[l], L, outcome, unstable)]
              \/ r \in Unresolved /\ UNCHANGED <<stored, snapshot, pin>>
    BY EndSplit DEF T, N, R
  <1>4. /\ lease'[l] = L /\ runtime'[l] = R
        /\ \A k \in LeaseIds \ {l} : lease'[k] = lease[k] /\ runtime'[k] = runtime[k]
    BY <1>0, <1>3
  <1> QED
    BY <1>0, <1>1, <1>2, <1>3, <1>4 DEF RequestEnds

\* A request forwarded without a lease.
LEMMA UntrackedEffect ==
    ASSUME Safe, NEW r \in Requests, NEW s, NEW f, StartUntracked(r, s, f)
    PROVE  RequestUntracked(r)
  <1> DEFINE old == Superseded(s, f)
  <1>1. /\ LoopFree /\ sched' = sched /\ req[r].pc = "idle" /\ r \in Unresolved
        /\ req' = [req EXCEPT ![r].pc = "untracked"]
        /\ UNCHANGED <<count, byFp, snapshot, pin, stored>>
    BY DEF StartUntracked
  <1>2. ASSUME NEW k \in LeaseIds
        PROVE  /\ lease'[k] = IF k \in old THEN Invalidate(lease[k]) ELSE lease[k]
               /\ runtime'[k] = IF k \in old THEN InvalidateRuntime(runtime[k]) ELSE runtime[k]
    BY DEF StartUntracked
  <1>3. ASSUME NEW k \in LeaseIds
        PROVE  /\ SameBooks(lease'[k], lease[k])
               /\ lease'[k].session = lease[k].session /\ lease'[k].fp = lease[k].fp
               /\ lease'[k].state \in {lease[k].state, "invalidated"}
               /\ runtime'[k].misses = runtime[k].misses
               /\ \/ runtime'[k].realActive = runtime[k].realActive
                  \/ lease'[k].state = "invalidated"
    <2>0. lease[k] \in Lease /\ runtime[k] \in Runtime
      BY DEF Safe, TypeOK
    <2>1. Invalidate(lease[k]).state = "invalidated"
      BY <2>0 DEF Invalidate, Lease
    <2>2. CASE k \in old
      BY <1>2, <2>0, <2>1, <2>2, ArmFacts, ArmBooks, MissFacts
    <2>3. CASE k \notin old
      BY <1>2, <2>3 DEF SameBooks
    <2> QED
      BY <2>2, <2>3
  <1> QED
    BY <1>1, <1>3 DEF RequestUntracked

\* Every step of a request begins it, ends it or changes its own record alone.
LEMMA RequestEffect ==
    ASSUME Safe, RequestStep
    PROVE  \E r \in Requests :
              \/ \E s \in Sessions, f \in Fingerprints, l \in LeaseIds :
                    RequestBegins(r, s, f, l)
              \/ \E outcome \in Outcomes, prefix \in Prefixes \cup {0},
                    unstable \in BOOLEAN, pc \in {"ok", "failed", "streaming"} :
                    RequestEnds(r, outcome, prefix, unstable, pc)
              \/ StreamEnds(r) \/ BodyReadFails(r) \/ RequestUntracked(r)
  <1>1. PICK r \in Requests :
           \/ \E s \in Sessions, f \in Fingerprints, n \in 0..MaxTargets :
                 \/ StartOnLease(r, s, f, n)
                 \/ \E ttl \in TTLs : StartNewLease(r, s, f, n, ttl)
           \/ \E s \in Sessions, f \in Fingerprints : StartUntracked(r, s, f)
           \/ \E ttl \in TTLs :
                 \/ RequestFails(r, ttl)
                 \/ \E unstable \in BOOLEAN :
                       \/ ErrorUnobserved(r, ttl, unstable)
                       \/ StreamingResponse(r, ttl, unstable)
                       \/ \E outcome \in Outcomes, prefix \in Prefixes \cup {0} :
                             BoundedResponse(r, outcome, prefix, ttl, unstable)
           \/ StreamEnds(r)
           \/ BodyReadFails(r)
    BY Zenon DEF RequestStep
  <1>2. "failed" \in Outcomes /\ "success_unverified" \in Outcomes
    BY DEF Outcomes
  <1>3. ASSUME NEW ttl \in TTLs, RequestFails(r, ttl)
        PROVE  RequestEnds(r, "failed", 0, FALSE, "failed")
    BY <1>2, <1>3, EndEffect DEF RequestFails
  <1>4. ASSUME NEW ttl \in TTLs, NEW unstable \in BOOLEAN,
               ErrorUnobserved(r, ttl, unstable)
        PROVE  RequestEnds(r, "success_unverified", 0, unstable, "failed")
    BY <1>2, <1>4, EndEffect DEF ErrorUnobserved
  <1>5. ASSUME NEW ttl \in TTLs, NEW unstable \in BOOLEAN,
               StreamingResponse(r, ttl, unstable)
        PROVE  RequestEnds(r, "success_unverified", 0, unstable, "streaming")
    BY <1>2, <1>5, EndEffect DEF StreamingResponse
  <1>6. ASSUME NEW ttl \in TTLs, NEW unstable \in BOOLEAN, NEW outcome \in Outcomes,
               NEW prefix \in Prefixes \cup {0},
               BoundedResponse(r, outcome, prefix, ttl, unstable)
        PROVE  RequestEnds(r, outcome, prefix, unstable, "ok")
    BY <1>6, EndEffect DEF BoundedResponse
  <1>7. CASE \E s \in Sessions, f \in Fingerprints, n \in 0..MaxTargets :
                 \/ StartOnLease(r, s, f, n)
                 \/ \E ttl \in TTLs : StartNewLease(r, s, f, n, ttl)
    <2>1. \E s \in Sessions, f \in Fingerprints, l \in LeaseIds : RequestBegins(r, s, f, l)
      BY <1>7, StartEffect
    <2> QED
      BY <2>1
  <1>8. CASE \E ttl \in TTLs :
                 \/ RequestFails(r, ttl)
                 \/ \E unstable \in BOOLEAN :
                       \/ ErrorUnobserved(r, ttl, unstable)
                       \/ StreamingResponse(r, ttl, unstable)
                       \/ \E outcome \in Outcomes, prefix \in Prefixes \cup {0} :
                             BoundedResponse(r, outcome, prefix, ttl, unstable)
    <2>1. \E outcome \in Outcomes, prefix \in Prefixes \cup {0},
             unstable \in BOOLEAN, pc \in {"ok", "failed", "streaming"} :
             RequestEnds(r, outcome, prefix, unstable, pc)
      <3>1. 0 \in Prefixes \cup {0} /\ FALSE \in BOOLEAN
            /\ "ok" \in {"ok", "failed", "streaming"}
            /\ "failed" \in {"ok", "failed", "streaming"}
            /\ "streaming" \in {"ok", "failed", "streaming"}
        OBVIOUS
      <3> QED
        BY <1>2, <1>3, <1>4, <1>5, <1>6, <1>8, <3>1, Zenon
    <2> QED
      BY <2>1
  <1> QED
    BY <1>1, <1>7, <1>8, UntrackedEffect

\* What lease l keeps in a step of the scheduler or of time: its books, its
\* owner, its busy mark, its misses and an invalidation.
Untouched(l) ==
    /\ SameBooks(lease'[l], lease[l])
    /\ lease'[l].session = lease[l].session /\ lease'[l].fp = lease[l].fp
    /\ lease[l].state = "invalidated" => lease'[l].state = "invalidated"
    /\ runtime'[l].realActive = runtime[l].realActive
    /\ runtime'[l].misses = runtime[l].misses

\* An evaluation that sends no warm.
LEMMA EvaluateEffect ==
    ASSUME Safe, NEW k \in LeaseIds,
           \/ EvaluateSkip(k) \/ EvaluateSchedule(k) \/ EvaluateEconomicStop(k)
           \/ EvaluateRefuse(k) \/ EvaluateDecline(k)
    PROVE  /\ sched.pc = "tick" /\ sched.at = k /\ k <= sched.upto
           /\ sched'.pc = "tick" /\ sched'.at = k + 1 /\ sched'.upto = sched.upto
           /\ sched'.dirty = sched.dirty \/ sched'.dirty = sched.dirty \cup {k}
           /\ UNCHANGED <<count, byFp, snapshot, pin, stored, req>>
           /\ \A l \in LeaseIds : Untouched(l)
  <1>0. /\ lease \in [LeaseIds -> Lease] /\ runtime \in [LeaseIds -> Runtime]
        /\ sched \in Scheds
    BY DEF Safe, TypeOK
  <1>1. sched.pc = "tick" /\ sched.at = k /\ k <= sched.upto
    BY DEF EvaluateSkip, EvaluateSchedule, EvaluateEconomicStop, EvaluateRefuse,
           EvaluateDecline, WarmDue, Evaluating
  <1>2. /\ UNCHANGED <<count, byFp, snapshot, pin, stored, req>>
        /\ \/ sched' = [sched EXCEPT !.at = @ + 1]
           \/ sched' = [sched EXCEPT !.at = @ + 1, !.dirty = @ \cup {k}]
    BY DEF EvaluateSkip, EvaluateSchedule, EvaluateEconomicStop, EvaluateRefuse,
           EvaluateDecline
  <1>3. /\ sched'.pc = "tick" /\ sched'.at = k + 1 /\ sched'.upto = sched.upto
        /\ sched'.dirty = sched.dirty \/ sched'.dirty = sched.dirty \cup {k}
    BY <1>0, <1>1, <1>2 DEF Scheds
  <1>4. \A l \in LeaseIds : l # k => lease'[l] = lease[l] /\ runtime'[l] = runtime[l]
    BY <1>0 DEF EvaluateSkip, EvaluateSchedule, EvaluateEconomicStop, EvaluateRefuse,
                EvaluateDecline
  <1>5. Untouched(k)
    <2>0. lease[k] \in Lease /\ runtime[k] \in Runtime
      BY <1>0
    <2>1. CASE EvaluateSkip(k)
      BY <2>1 DEF EvaluateSkip, Untouched, SameBooks
    <2>2. CASE EvaluateSchedule(k)
      <3>1. PICK st \in {lease[k].state, "warm_scheduled"} :
               /\ lease'[k] = [lease[k] EXCEPT !.state = st]
               /\ runtime'[k] = [runtime[k] EXCEPT !.scheduledGeneration = lease[k].generation]
        BY <1>0, <2>2 DEF EvaluateSchedule, Lease
      <3>2. lease[k].state # "invalidated"
        BY <2>2 DEF EvaluateSchedule, Skips
      <3> QED
        BY <2>0, <3>1, <3>2 DEF Untouched, SameBooks, Lease, Runtime
    <2>3. CASE EvaluateEconomicStop(k)
      <3>1. /\ lease'[k] = [lease[k] EXCEPT !.state = "economic_stop"]
            /\ runtime'[k] = runtime[k]
        BY <1>0, <2>3 DEF EvaluateEconomicStop
      <3>2. lease[k].state # "invalidated"
        BY <2>3 DEF EvaluateEconomicStop, Skips
      <3> QED
        BY <2>0, <3>1, <3>2 DEF Untouched, SameBooks, Lease
    <2>4. CASE EvaluateRefuse(k)
      <3>1. /\ lease'[k] = lease[k]
            /\ runtime'[k] = [runtime[k] EXCEPT !.scheduledGeneration = Never]
        BY <1>0, <2>4 DEF EvaluateRefuse
      <3> QED
        BY <2>0, <3>1 DEF Untouched, SameBooks, Runtime
    <2>5. CASE EvaluateDecline(k)
      <3>1. /\ lease'[k] = Arm(lease[k])
            /\ runtime'[k] = [runtime[k] EXCEPT !.scheduledGeneration = Never]
        BY <1>0, <2>5 DEF EvaluateDecline
      <3>2. lease[k].state # "invalidated"
        BY <2>5 DEF EvaluateDecline, WarmDue, Skips
      <3>3. /\ runtime'[k].realActive = runtime[k].realActive
            /\ runtime'[k].misses = runtime[k].misses
        BY <2>0, <3>1 DEF Runtime
      <3> QED
        BY <2>0, <3>1, <3>2, <3>3, ArmFacts, ArmBooks DEF Untouched
    <2> QED
      BY <2>1, <2>2, <2>3, <2>4, <2>5
  <1>6. \A l \in LeaseIds : Untouched(l)
    BY <1>4, <1>5 DEF Untouched, SameBooks
  <1> QED
    BY <1>1, <1>2, <1>3, <1>6

\* The sending of a warm, which the tick stops at.
LEMMA SendEffect ==
    ASSUME Safe, NEW k \in LeaseIds, SendWarm(k)
    PROVE  /\ sched.pc = "tick" /\ sched.at = k /\ k <= sched.upto
           /\ sched'.pc = "warming" /\ sched'.at = k /\ sched'.upto = sched.upto
           /\ sched'.dirty = sched.dirty /\ sched'.snap = snapshot[lease[k].fp]
           /\ UNCHANGED <<count, byFp, snapshot, pin, stored, req>>
           /\ \A l \in LeaseIds : Untouched(l)
  <1>0. /\ lease \in [LeaseIds -> Lease] /\ runtime \in [LeaseIds -> Runtime]
        /\ sched \in Scheds /\ lease[k] \in Lease /\ runtime[k] \in Runtime
    BY DEF Safe, TypeOK
  <1>1. /\ sched.pc = "tick" /\ sched.at = k /\ k <= sched.upto
        /\ lease[k].state # "invalidated"
        /\ UNCHANGED <<count, byFp, snapshot, pin, stored, req>>
    BY DEF SendWarm, WarmDue, Evaluating, Skips
  <1>2. /\ sched'.pc = "warming" /\ sched'.at = k /\ sched'.upto = sched.upto
        /\ sched'.dirty = sched.dirty /\ sched'.snap = snapshot[lease[k].fp]
    BY <1>0, <1>1 DEF SendWarm, Scheds
  <1>3. /\ lease'[k] = [lease[k] EXCEPT !.state = "warming"]
        /\ runtime'[k] = [runtime[k] EXCEPT !.scheduledGeneration = Never,
                                            !.warmActive = TRUE]
        /\ \A l \in LeaseIds : l # k => lease'[l] = lease[l] /\ runtime'[l] = runtime[l]
    BY <1>0 DEF SendWarm
  <1>4. Untouched(k)
    BY <1>0, <1>1, <1>3 DEF Untouched, SameBooks, Lease, Runtime
  <1>5. \A l \in LeaseIds : Untouched(l)
    BY <1>3, <1>4 DEF Untouched, SameBooks
  <1> QED
    BY <1>1, <1>2, <1>5

\* What the result of a warm does to the misses.
LEMMA ResultMisses ==
    ASSUME NEW R \in Runtime, NEW res
    PROVE  \/ ApplyWarmRuntime(WarmOverRuntime(R), res).misses = 0
           \/ ApplyWarmRuntime(WarmOverRuntime(R), res).misses = R.misses + 1
  <1>1. WarmOverRuntime(R) \in Runtime /\ WarmOverRuntime(R).misses = R.misses
    BY DEF WarmOverRuntime, Runtime
  <1>2. ASSUME NEW S \in Runtime
        PROVE  ApplyWarmRuntime(S, res).misses \in {0, S.misses + 1}
    BY DEF ApplyWarmRuntime, Runtime
  <1> QED
    BY <1>1, <1>2

\* The result of a warm of lease k is charged to it, and the tick goes on.
LEMMA ReturnEffect ==
    ASSUME Safe, NEW res \in WarmResults, WarmReturns(res)
    PROVE  LET k == sched.at
           IN  /\ sched.pc = "warming" /\ k \in LeaseIds
               /\ sched'.pc = "tick" /\ sched'.at = k + 1 /\ sched'.upto = sched.upto
               /\ sched'.dirty = sched.dirty \cup {k}
               /\ UNCHANGED <<count, byFp, snapshot, pin, stored, req>>
               /\ \A l \in LeaseIds \ {k} : Untouched(l)
               /\ lease'[k].warmCost = lease[k].warmCost + res.cost
               /\ lease'[k].generation = lease[k].generation
               /\ lease'[k].prefix = lease[k].prefix
               /\ lease'[k].session = lease[k].session /\ lease'[k].fp = lease[k].fp
               /\ lease[k].state = "invalidated" => lease'[k].state = "invalidated"
               /\ runtime'[k].realActive = runtime[k].realActive
               /\ runtime'[k].misses = 0 \/ runtime'[k].misses = runtime[k].misses + 1
  <1> DEFINE k == sched.at
             L == ApplyWarmResult(WarmOver(lease[k]), res)
             R == ApplyWarmRuntime(WarmOverRuntime(runtime[k]), res)
             N == NotWarming("tick")
  <1>0. /\ k \in LeaseIds /\ lease[k] \in Lease /\ runtime[k] \in Runtime
        /\ lease \in [LeaseIds -> Lease] /\ runtime \in [LeaseIds -> Runtime]
        /\ runtime[k].circuitOpen = FALSE /\ sched.pc = "warming"
    BY DEF Safe, TypeOK, WarmReturns, WarmHasLease, BreakerBound, Runtime
  <1>1. /\ lease' = [lease EXCEPT ![k] = L] /\ runtime' = [runtime EXCEPT ![k] = R]
        /\ sched' = [N EXCEPT !.at = N.at + 1, !.dirty = N.dirty \cup {k}]
        /\ UNCHANGED <<count, byFp, snapshot, pin, stored, req>>
    BY DEF WarmReturns
  <1>2. /\ L.warmCost = lease[k].warmCost + res.cost /\ L.prefix = lease[k].prefix
        /\ L.generation = lease[k].generation
        /\ L.session = lease[k].session /\ L.fp = lease[k].fp
    BY <1>0, WarmBooks, WarmResultFacts
  <1>3. lease[k].state = "invalidated" => L.state = "invalidated"
    BY <1>0 DEF WarmOver, Arm, ApplyWarmResult, Lease
  <1>4. R.realActive = runtime[k].realActive
        /\ (R.misses = 0 \/ R.misses = runtime[k].misses + 1)
    BY <1>0, WarmRuntimeFacts, BreakerLocal, ResultMisses DEF Safe
  <1>5. /\ N \in Scheds /\ N.pc = "tick" /\ N.upto = sched.upto /\ N.at = k
        /\ N.dirty = sched.dirty
    BY SchedFacts DEF SchedStates
  <1> HIDE DEF L, R, N
  <1>6. /\ sched'.pc = "tick" /\ sched'.at = k + 1 /\ sched'.upto = sched.upto
        /\ sched'.dirty = sched.dirty \cup {k}
    BY <1>1, <1>5 DEF Scheds
  <1>7. /\ lease'[k] = L /\ runtime'[k] = R
        /\ \A l \in LeaseIds \ {k} : lease'[l] = lease[l] /\ runtime'[l] = runtime[l]
    BY <1>0, <1>1
  <1>8. \A l \in LeaseIds \ {k} : Untouched(l)
    BY <1>7 DEF Untouched, SameBooks
  <1> QED
    BY <1>0, <1>1, <1>2, <1>3, <1>4, <1>6, <1>7, <1>8

\* A stop drops a warm in flight and keeps the list of rows to persist.
LEMMA StopEffect ==
    ASSUME Safe, Stop
    PROVE  /\ sched.pc \in {"ready", "asleep", "warming"}
           /\ \A r \in Requests : ~InFlight(r)
           /\ sched'.pc = "stopped" /\ sched'.at = sched.at /\ sched'.upto = sched.upto
           /\ sched'.dirty = sched.dirty
           /\ UNCHANGED <<count, byFp, snapshot, pin, stored, req>>
           /\ \A l \in LeaseIds : Untouched(l)
  <1>0. lease \in [LeaseIds -> Lease] /\ runtime \in [LeaseIds -> Runtime]
    BY DEF Safe, TypeOK
  <1>1. /\ sched.pc \in {"ready", "asleep", "warming"}
        /\ \A r \in Requests : ~InFlight(r)
        /\ sched' = NotWarming("stopped")
        /\ UNCHANGED <<count, byFp, snapshot, pin, stored, req>>
    BY DEF Stop
  <1>2. /\ sched'.pc = "stopped" /\ sched'.at = sched.at /\ sched'.upto = sched.upto
        /\ sched'.dirty = sched.dirty
    BY <1>1, SchedFacts DEF SchedStates
  <1>3. \A L \in Lease :
           /\ SameBooks(WarmOver(L), L) /\ WarmOver(L).session = L.session
           /\ WarmOver(L).fp = L.fp
           /\ L.state = "invalidated" => WarmOver(L).state = "invalidated"
    BY ArmFacts, ArmBooks DEF WarmOver, Arm
  <1>4. \A R \in Runtime : /\ WarmOverRuntime(R).realActive = R.realActive
                           /\ WarmOverRuntime(R).misses = R.misses
    BY DEF WarmOverRuntime, Runtime
  <1>5. ASSUME NEW l \in LeaseIds
        PROVE  /\ lease'[l] = lease[l] \/ lease'[l] = WarmOver(lease[l])
               /\ runtime'[l] = runtime[l] \/ runtime'[l] = WarmOverRuntime(runtime[l])
    BY <1>0 DEF Stop
  <1>6. \A l \in LeaseIds : Untouched(l)
    BY <1>0, <1>3, <1>4, <1>5 DEF Untouched, SameBooks
  <1> QED
    BY <1>1, <1>2, <1>6

\* Time moves the ages, and the pins towards their end.
LEMMA AdvanceEffect ==
    ASSUME Safe, Advance
    PROVE  /\ \/ sched.pc = "asleep" /\ sched'.pc = "ready"
              \/ sched.pc = "warming" /\ sched'.pc = "warming"
           /\ sched'.at = sched.at /\ sched'.upto = sched.upto
           /\ sched'.dirty = sched.dirty
           /\ UNCHANGED <<count, byFp, snapshot, stored, req>>
           /\ \A l \in LeaseIds : /\ Untouched(l)
                                  /\ pin'[l].generation = pin[l].generation
                                  /\ pin[l] = NoPin => pin'[l] = NoPin
  <1> DEFINE Aged(L) == [L EXCEPT !.age = IF L.age = Never \/ L.age >= MaxAge
                                          THEN L.age ELSE L.age + 1]
  <1>0. /\ lease \in [LeaseIds -> Lease] /\ runtime \in [LeaseIds -> Runtime]
        /\ pin \in [LeaseIds -> Pins] /\ sched \in Scheds
    BY DEF Safe, TypeOK
  <1>1. /\ sched.pc \in {"asleep", "warming"}
        /\ sched' = IF sched.pc = "asleep" THEN [sched EXCEPT !.pc = "ready"]
                    ELSE [sched EXCEPT !.elapsed = @ + 1]
        /\ runtime' = runtime /\ UNCHANGED <<count, byFp, snapshot, stored, req>>
        /\ lease' = [l \in LeaseIds |-> Aged(lease[l])]
        /\ pin' = [l \in LeaseIds |-> [pin[l] EXCEPT !.left = Floor(pin[l].left - 1)]]
    BY DEF Advance
  <1>2. /\ \/ sched.pc = "asleep" /\ sched'.pc = "ready"
           \/ sched.pc = "warming" /\ sched'.pc = "warming"
        /\ sched'.at = sched.at /\ sched'.upto = sched.upto
        /\ sched'.dirty = sched.dirty
    BY <1>0, <1>1 DEF Scheds
  <1>3. ASSUME NEW L \in Lease
        PROVE  /\ SameBooks(Aged(L), L) /\ Aged(L).session = L.session
               /\ Aged(L).fp = L.fp /\ Aged(L).state = L.state
    BY DEF Lease, SameBooks
  <1> HIDE DEF Aged
  <1>4. \A l \in LeaseIds : Untouched(l)
    BY <1>0, <1>1, <1>3 DEF Untouched
  <1>5. ASSUME NEW l \in LeaseIds
        PROVE  /\ pin'[l].generation = pin[l].generation
               /\ pin[l] = NoPin => pin'[l] = NoPin
    <2>1. pin[l] \in Pins /\ pin'[l] = [pin[l] EXCEPT !.left = Floor(pin[l].left - 1)]
      BY <1>0, <1>1
    <2>2. [NoPin EXCEPT !.left = Floor(NoPin.left - 1)] = NoPin
      BY DEF NoPin, Floor
    <2>3. pin'[l].generation = pin[l].generation
      BY <2>1 DEF Pins
    <2> QED
      BY <2>1, <2>2, <2>3
  <1> QED
    BY <1>1, <1>2, <1>4, <1>5

\* The beginning and the end of a tick, and steps that change nothing.
LEMMA TickEffect ==
    ASSUME Safe, TickBegins \/ TickEnds
    PROVE  /\ UNCHANGED <<count, lease, runtime, byFp, snapshot, pin, req>>
           /\ \/ /\ TickBegins /\ sched.pc = "ready" /\ sched'.pc = "tick" /\ sched'.at = 1
                 /\ sched'.upto = count /\ sched'.dirty = {} /\ stored' = stored
              \/ /\ TickEnds /\ sched.pc = "tick" /\ sched'.pc = "asleep" /\ sched'.dirty = {}
                 /\ \E saved \in SUBSET LeaseIds : stored' = Persisted(saved)
           /\ \A l \in LeaseIds : Untouched(l)
  <1>1. UNCHANGED <<count, lease, runtime, byFp, snapshot, pin, req>>
    BY DEF TickBegins, TickEnds
  <1>2. \A l \in LeaseIds : Untouched(l)
    BY <1>1 DEF Untouched, SameBooks
  <1>3. \/ /\ TickBegins /\ sched.pc = "ready" /\ sched'.pc = "tick" /\ sched'.at = 1
           /\ sched'.upto = count /\ sched'.dirty = {} /\ stored' = stored
        \/ /\ TickEnds /\ sched.pc = "tick" /\ sched'.pc = "asleep" /\ sched'.dirty = {}
           /\ \E saved \in SUBSET LeaseIds : stored' = Persisted(saved)
    <2>1. SUBSET sched.dirty \subseteq SUBSET LeaseIds
      BY DEF Safe, TypeOK, Scheds
    <2> QED
      BY <2>1 DEF TickBegins, TickEnds, Safe, TypeOK, Scheds
  <1> QED
    BY <1>1, <1>2, <1>3

=============================================================================
