----------------------------- MODULE LeaseRelay -----------------------------
(***************************************************************************)
(* The relay process: the request path (proxy.py), the lease controller    *)
(* (lease_controller.py), the lease manager (leases.py), the snapshot      *)
(* store, the affinity registry and the scheduler task with its warm       *)
(* requests, all on one asyncio event loop.                                *)
(*                                                                         *)
(* What is atomic is what the code does between two awaits.  A request     *)
(* awaits only the upstream, so on_request_start and on_request_end are    *)
(* one step each.  A tick awaits only the response of a warm: the          *)
(* per-fingerprint lock is taken by the scheduler alone and never          *)
(* contended, so from waking up (or from a warm's response) to the next    *)
(* warm or to sleep() nothing else runs.  A tick is split into one step    *)
(* per lease, and LoopFree keeps the other steps out of it.                *)
(*                                                                         *)
(* Leases are never removed from the manager; lease ids are numbered in    *)
(* the insertion order of the dictionary, which is the order of a tick.    *)
(* _prune_target_ids and _prune_snapshots therefore find nothing to drop.  *)
(***************************************************************************)
EXTENDS Leases

CONSTANTS
    MaxLeases,          \* bound on the leases a behaviour creates
    Overlap,            \* may a session send a request while one is in flight?
    Abortable,          \* requests whose upstream body may break while it is read
    Unobserved,         \* requests whose telemetry observation fails
    Opaque,             \* fingerprints of requests whose body is not a JSON object
    Unboundable,        \* requests without an output-bound field
    DryRun,             \* LeaseSettings.dry_run
    Unresolved,         \* requests during which the TTL resolver's lookup may raise
    MaxMissed,          \* bound on the failed writes of a lease's row in a row
    WarmTimeout,        \* longest warm, in scheduler intervals
    AffinityEnabled,    \* AffinityConfig.enabled, and an adapter that can pin
    RouteCost           \* affinity_extra_cost_usd + AffinityConfig.safety_margin

ASSUME RelayAssumption ==
    /\ MaxLeases \in Nat \ {0} /\ WarmTimeout \in Nat \ {0} /\ RouteCost \in Nat
    /\ Overlap \in BOOLEAN /\ DryRun \in BOOLEAN /\ AffinityEnabled \in BOOLEAN
    /\ Abortable \subseteq Requests /\ Unobserved \subseteq Requests
    /\ Opaque \subseteq Fingerprints /\ Unboundable \subseteq Requests
    /\ Unresolved \subseteq Requests /\ MaxMissed \in Nat

VARIABLES
    count,      \* number of leases: ids 1..count exist
    lease,      \* LeaseManager._leases
    runtime,    \* LeaseManager._runtime
    byFp,       \* LeaseManager._by_cache_fingerprint (0: absent)
    snapshot,   \* SnapshotStore: the request kept for a fingerprint
    pin,        \* RouteAffinityRegistry: generation and time left of an entry
    stored,     \* the lease row of the telemetry store: its state and warm cost, and
                \* (history) the writes of it that failed since it was last written
    req,        \* the requests in RelayProxy.forward
    sched       \* the scheduler task

vars == <<count, lease, runtime, byFp, snapshot, pin, stored, req, sched>>

LeaseIds == 1..MaxLeases
NoPin == [generation |-> Never, left |-> 0]
Pins == [generation: Nat \cup {Never}, left: Nat]
Row(L) == [state |-> L.state, warmCost |-> L.warmCost, missed |-> 0]
Rows == [state: LeaseStates, warmCost: Nat, missed: Nat]

\* A request: not sent, waiting for the upstream, relaying a stream, answered
\* (by a usable or by a failed response), given up without on_request_end, or
\* forwarded without a lease.
ReqStates == {"idle", "sent", "streaming", "ok", "failed", "aborted", "untracked"}
Reqs == [pc: ReqStates, lease: 0..MaxLeases, generation: Nat]

\* The scheduler: at is the lease evaluated, upto the last one of this tick,
\* dirty the leases to persist after it; snap, age and elapsed describe the
\* warm in flight: the request replayed, the lease's age at sending, the wait.
SchedStates == {"ready", "tick", "warming", "asleep", "stopped"}
Scheds == [pc: SchedStates, at: Nat, upto: 0..MaxLeases, dirty: SUBSET LeaseIds,
           snap: Requests \cup {NoRequest}, age: Nat \cup {Never}, elapsed: Nat]

Init ==
    /\ count = 0
    /\ lease = [l \in LeaseIds |-> EmptyLease]
    /\ runtime = [l \in LeaseIds |-> NewRuntime]
    /\ byFp = [f \in Fingerprints |-> 0]
    /\ snapshot = [f \in Fingerprints |-> NoRequest]
    /\ pin = [l \in LeaseIds |-> NoPin]
    /\ stored = [l \in LeaseIds |-> Row(EmptyLease)]
    /\ req = [r \in Requests |-> [pc |-> "idle", lease |-> 0, generation |-> 0]]
    /\ sched = [pc |-> "ready", at |-> 1, upto |-> 0, dirty |-> {},
                snap |-> NoRequest, age |-> Never, elapsed |-> 0]

\* _persist of lease L over its row: written, or the store raises, which is only
\* logged.
Persist(row, L, saved) == IF saved THEN Row(L) ELSE [row EXCEPT !.missed = @ + 1]
MayFail(l) == stored[l].missed < MaxMissed

-----------------------------------------------------------------------------
(* Requests *)

LoopFree == sched.pc \in {"ready", "asleep", "warming"}

InFlight(r) == req[r].pc \in {"sent", "streaming"}

\* A client that does not overlap waits for the whole answer first.
MaySend(s) ==
    \/ Overlap
    \/ \A r \in Requests : InFlight(r) => lease[req[r].lease].session # s

\* find_or_create_lease: the lease this fingerprint's entry names, if it is
\* the session's own.
Found(s, f) == byFp[f] # 0 /\ lease[byFp[f]].session = s

\* ... otherwise the session's live leases on the same provider are superseded.
Superseded(s, f) ==
    {l \in 1..count : /\ lease[l].session = s
                      /\ Provider[lease[l].fp] = Provider[f]
                      /\ lease[l].fp # f
                      /\ lease[l].state # "invalidated"}

\* active_affinity_route: looking an expired entry up removes it.
LookUpPin(p) == IF p.left = 0 THEN NoPin ELSE p

\* on_request_start on lease l, the part that follows find_or_create_lease, then
\* the lookup of _apply_affinity.  lease1, runtime1 are the tables found so far.
Begin(r, f, n, l, lease1, runtime1) ==
    LET L == BeforeNormalRequest(SyncTargets(lease1[l], n))
    IN  /\ lease' = [lease1 EXCEPT ![l] = L]
        /\ runtime' = [runtime1 EXCEPT ![l] = BeforeNormalRuntime(@)]
        /\ snapshot' = IF f \in Opaque THEN snapshot ELSE [snapshot EXCEPT ![f] = r]
        /\ pin' = [pin EXCEPT ![l] = LookUpPin(@)]
        /\ \E saved \in BOOLEAN :
              /\ saved \/ MayFail(l)
              /\ stored' = [stored EXCEPT ![l] = Persist(@, L, saved)]
        /\ req' = [req EXCEPT ![r] = [pc |-> "sent", lease |-> l,
                                      generation |-> L.generation]]

\* A request of a session whose lease for this cache exists.
StartOnLease(r, s, f, n) ==
    /\ LoopFree /\ req[r].pc = "idle" /\ MaySend(s)
    /\ Found(s, f)
    /\ Begin(r, f, n, byFp[f], lease, runtime)
    /\ UNCHANGED <<count, byFp, sched>>

\* A request that creates the lease and invalidates those it supersedes.
StartNewLease(r, s, f, n, ttl) ==
    /\ LoopFree /\ req[r].pc = "idle" /\ MaySend(s)
    /\ ~Found(s, f)
    /\ count < MaxLeases
    /\ count' = count + 1
    /\ byFp' = [byFp EXCEPT ![f] = count + 1]
    /\ LET old == Superseded(s, f)
       IN  Begin(r, f, n, count + 1,
                 [l \in LeaseIds |->
                     IF l = count + 1 THEN NewLease(s, f, ttl)
                     ELSE IF l \in old THEN Invalidate(lease[l]) ELSE lease[l]],
                 [l \in LeaseIds |->
                     IF l \in old THEN InvalidateRuntime(runtime[l]) ELSE runtime[l]])
    /\ UNCHANGED sched

\* A request whose on_request_start raises: the resolver is asked for the TTL of the
\* new lease after the old ones were invalidated.  It is forwarded without a context,
\* so no later step of it reaches the leases.
StartUntracked(r, s, f) ==
    /\ LoopFree /\ req[r].pc = "idle" /\ MaySend(s)
    /\ ~Found(s, f) /\ r \in Unresolved
    /\ LET old == Superseded(s, f)
       IN  /\ lease' = [l \in LeaseIds |->
                           IF l \in old THEN Invalidate(lease[l]) ELSE lease[l]]
           /\ runtime' = [l \in LeaseIds |->
                           IF l \in old THEN InvalidateRuntime(runtime[l]) ELSE runtime[l]]
    /\ req' = [req EXCEPT ![r].pc = "untracked"]
    /\ UNCHANGED <<count, byFp, snapshot, pin, stored, sched>>

\* _maybe_set_affinity's gate: savings known, and above the route's extra cost.
AffinityPays(L) ==
    /\ PricingKnown /\ L.prefix > 0
    /\ ResumePct * (ColdResumeCost(L.prefix) - CachedResumeCost(L.prefix))
         > 100 * RouteCost

\* Entries are set and expire, and no request consumes them.
ReconcileAffinityKeeping(p, L, outcome, unstable) ==
    IF ~AffinityEnabled THEN p
    ELSE IF outcome = "failed" THEN NoPin
    ELSE IF unstable /\ AffinityPays(L) THEN [generation |-> L.generation, left |-> L.ttl]
    ELSE p

\* _reconcile_affinity: a failure clears the entry, a later generation has
\* consumed it, and a route instability of this session sets a fresh one.
ReconcileAffinity(p, L, outcome, unstable) ==
    IF ~AffinityEnabled THEN p
    ELSE IF outcome = "failed" THEN NoPin
    ELSE IF unstable /\ AffinityPays(L) THEN [generation |-> L.generation, left |-> L.ttl]
    ELSE IF p.generation < L.generation THEN NoPin
    ELSE p

\* A failed request leaves its snapshot behind.
SnapshotAfterKept(f, outcome) == snapshot
\* on_request_end: the snapshot of a failed request is dropped.
SnapshotAfter(f, outcome) ==
    IF outcome = "failed" THEN [snapshot EXCEPT ![f] = NoRequest] ELSE snapshot

\* on_request_end: the lease's record of the outcome, the prompt size (0: no
\* usage), the TTL the resolver now returns and the route verdict.  If the resolver
\* raises, the rest is skipped: the row, the snapshot and the pin stay as they are.
End(r, outcome, prefix, ttl, unstable) ==
    LET l == req[r].lease
        told == UpdateCostEstimates(AfterNormalRequest(lease[l], outcome), prefix)
        L == RefreshTTL(told, ttl)
    IN  /\ runtime' = [runtime EXCEPT ![l] = AfterNormalRuntime(@, lease[l], outcome)]
        /\ \/ /\ lease' = [lease EXCEPT ![l] = L]
              /\ \E saved \in BOOLEAN :
                    /\ saved \/ MayFail(l)
                    /\ stored' = [stored EXCEPT ![l] = Persist(@, L, saved)]
              /\ snapshot' = SnapshotAfter(lease[l].fp, outcome)
              /\ pin' = [pin EXCEPT ![l] = ReconcileAffinity(@, L, outcome, unstable)]
           \/ /\ r \in Unresolved
              /\ lease' = [lease EXCEPT ![l] = told]
              /\ UNCHANGED <<stored, snapshot, pin>>
        /\ UNCHANGED <<count, byFp, sched>>

\* No response, or an observed response that is not 2xx.
RequestFails(r, ttl) ==
    /\ LoopFree /\ req[r].pc = "sent"
    /\ End(r, "failed", 0, ttl, FALSE)
    /\ req' = [req EXCEPT ![r].pc = "failed"]

\* A response that is not 2xx while the telemetry store is missing or raises:
\* the observer returns None and forward falls back to SUCCESS_UNVERIFIED.
ErrorUnobserved(r, ttl, unstable) ==
    /\ LoopFree /\ req[r].pc = "sent" /\ r \in Unobserved
    /\ End(r, "success_unverified", 0, ttl, unstable)
    /\ req' = [req EXCEPT ![r].pc = "failed"]

\* A buffered 2xx response, classified from its telemetry.
BoundedResponse(r, outcome, prefix, ttl, unstable) ==
    /\ LoopFree /\ req[r].pc = "sent"
    /\ outcome # "failed"
    /\ End(r, outcome, prefix, ttl, unstable)
    /\ req' = [req EXCEPT ![r].pc = "ok"]

\* A streamed 2xx response ends the lease's request at its headers.
StreamingResponse(r, ttl, unstable) ==
    /\ LoopFree /\ req[r].pc = "sent"
    /\ End(r, "success_unverified", 0, ttl, unstable)
    /\ req' = [req EXCEPT ![r].pc = "streaming"]

StreamEnds(r) ==
    /\ LoopFree /\ req[r].pc = "streaming"
    /\ req' = [req EXCEPT ![r].pc = "ok"]
    /\ UNCHANGED <<count, lease, runtime, byFp, snapshot, pin, stored, sched>>

\* The buffered body breaks while it is read, outside the try of
\* forward: the exception leaves the handler and on_request_end is not called.
BodyReadFails(r) ==
    /\ LoopFree /\ req[r].pc = "sent" /\ r \in Abortable
    /\ req' = [req EXCEPT ![r].pc = "aborted"]
    /\ UNCHANGED <<count, lease, runtime, byFp, snapshot, pin, stored, sched>>

-----------------------------------------------------------------------------
(* The scheduler *)

\* tick: the leases of this moment, in order.
TickBegins ==
    /\ sched.pc = "ready"
    /\ sched' = [sched EXCEPT !.pc = "tick", !.at = 1, !.upto = count, !.dirty = {}]
    /\ UNCHANGED <<count, lease, runtime, byFp, snapshot, pin, stored, req>>

\* evaluate_lease's early returns, in one guard: none of them changes anything.
Skips(l) ==
    \/ lease[l].targets = {}
    \/ runtime[l].realActive
    \/ runtime[l].warmActive
    \/ lease[l].state = "invalidated"
    \/ runtime[l].circuitOpen
    \/ lease[l].age = Never

\* _warm_if_due's refusals once the gate is passed.  Its other checks repeat
\* evaluate_lease's without an await in between.
Refused(l) ==
    \/ /\ runtime[l].scheduledGeneration # Never
       /\ runtime[l].scheduledGeneration # lease[l].generation
    \/ DryRun
    \/ snapshot[lease[l].fp] = NoRequest

Evaluating(l) == sched.pc = "tick" /\ l = sched.at /\ l <= sched.upto

EvaluateSkip(l) ==
    /\ Evaluating(l) /\ Skips(l)
    /\ sched' = [sched EXCEPT !.at = @ + 1]
    /\ UNCHANGED <<count, lease, runtime, byFp, snapshot, pin, stored, req>>

\* SCHEDULED: the generation a warm will be valid for is recorded.
EvaluateSchedule(l) ==
    /\ Evaluating(l) /\ ~Skips(l) /\ ~Due(lease[l])
    /\ runtime' = [runtime EXCEPT ![l].scheduledGeneration = lease[l].generation]
    /\ lease' = [lease EXCEPT ![l].state =
                    IF @ = "economic_stop" THEN @ ELSE "warm_scheduled"]
    /\ sched' = [sched EXCEPT !.at = @ + 1, !.dirty = @ \cup {l}]
    /\ UNCHANGED <<count, byFp, snapshot, pin, stored, req>>

EvaluateEconomicStop(l) ==
    /\ Evaluating(l) /\ ~Skips(l) /\ Due(lease[l]) /\ ~EconomicGate(lease[l])
    /\ lease' = [lease EXCEPT ![l].state = "economic_stop"]
    /\ sched' = [sched EXCEPT !.at = @ + 1]
    /\ UNCHANGED <<count, runtime, byFp, snapshot, pin, stored, req>>

\* The tick reaches _warm_if_due, which consumes the schedule record whether
\* the warm goes out or not.
WarmDue(l) == Evaluating(l) /\ ~Skips(l) /\ Due(lease[l]) /\ EconomicGate(lease[l])

\* A refusal that keeps the stale record.
EvaluateRefuseKeeping(l) ==
    /\ WarmDue(l) /\ Refused(l)
    /\ sched' = [sched EXCEPT !.at = @ + 1]
    /\ UNCHANGED <<count, lease, runtime, byFp, snapshot, pin, stored, req>>

EvaluateRefuse(l) ==
    /\ WarmDue(l) /\ Refused(l)
    /\ runtime' = [runtime EXCEPT ![l].scheduledGeneration = Never]
    /\ sched' = [sched EXCEPT !.at = @ + 1]
    /\ UNCHANGED <<count, lease, byFp, snapshot, pin, stored, req>>

\* build_warm_request returns None: WARMING and back without an await.
EvaluateDecline(l) ==
    /\ WarmDue(l) /\ ~Refused(l) /\ snapshot[lease[l].fp] \in Unboundable
    /\ runtime' = [runtime EXCEPT ![l].scheduledGeneration = Never]
    /\ lease' = [lease EXCEPT ![l] = Arm(@)]
    /\ sched' = [sched EXCEPT !.at = @ + 1]
    /\ UNCHANGED <<count, byFp, snapshot, pin, stored, req>>

\* The warm request leaves; the tick waits for its response.
SendWarm(l) ==
    /\ WarmDue(l) /\ ~Refused(l) /\ snapshot[lease[l].fp] \notin Unboundable
    /\ runtime' = [runtime EXCEPT ![l].scheduledGeneration = Never,
                                  ![l].warmActive = TRUE]
    /\ lease' = [lease EXCEPT ![l].state = "warming"]
    /\ sched' = [sched EXCEPT !.pc = "warming", !.snap = snapshot[lease[l].fp],
                              !.age = lease[l].age, !.elapsed = 0]
    /\ UNCHANGED <<count, byFp, snapshot, pin, stored, req>>

\* A finally that clears the flag and leaves the state.
WarmOverUnarmed(L) == L

\* The finally of _warm_if_due.
WarmOver(L) == Arm(L)
WarmOverRuntime(R) == [R EXCEPT !.warmActive = FALSE]

NotWarming(pc) == [sched EXCEPT !.pc = pc, !.snap = NoRequest,
                                !.age = Never, !.elapsed = 0]

\* The response (or the executor's failure): the result is applied and the
\* tick goes on with the next lease.
WarmReturns(res) ==
    /\ sched.pc = "warming"
    /\ LET l == sched.at
       IN  /\ lease' = [lease EXCEPT ![l] = ApplyWarmResult(WarmOver(@), res)]
           /\ runtime' = [runtime EXCEPT ![l] = ApplyWarmRuntime(WarmOverRuntime(@), res)]
           /\ sched' = [NotWarming("tick") EXCEPT !.at = @ + 1, !.dirty = @ \cup {l}]
    /\ UNCHANGED <<count, byFp, snapshot, pin, stored, req>>

\* The rows of a tick, without those of the leases it warmed.
PersistedScheduledOnly(saved) ==
    [l \in LeaseIds |-> IF l \in sched.dirty /\ lease[l].state = "warm_scheduled"
                        THEN Persist(stored[l], lease[l], l \in saved) ELSE stored[l]]
\* tick's persistence: the leases whose decision is in _PERSIST_ON, of which those
\* in saved are written.
Persisted(saved) ==
    [l \in LeaseIds |-> IF l \in sched.dirty
                        THEN Persist(stored[l], lease[l], l \in saved) ELSE stored[l]]

TickEnds ==
    /\ sched.pc = "tick" /\ sched.at > sched.upto
    /\ \E saved \in SUBSET sched.dirty :
          /\ \A l \in sched.dirty \ saved : MayFail(l)
          /\ stored' = Persisted(saved)
    /\ sched' = [sched EXCEPT !.pc = "asleep", !.at = 1, !.upto = 0, !.dirty = {}]
    /\ UNCHANGED <<count, lease, runtime, byFp, snapshot, pin, req>>

\* stop: the task is cancelled at its await, once the server has drained its
\* connections.  A warm in flight is dropped with the decisions of its tick.
Stop ==
    /\ sched.pc \in {"ready", "asleep", "warming"}
    /\ \A r \in Requests : ~InFlight(r)
    /\ lease' = IF sched.pc = "warming"
                THEN [lease EXCEPT ![sched.at] = WarmOver(@)] ELSE lease
    /\ runtime' = IF sched.pc = "warming"
                  THEN [runtime EXCEPT ![sched.at] = WarmOverRuntime(@)] ELSE runtime
    /\ sched' = NotWarming("stopped")
    /\ UNCHANGED <<count, byFp, snapshot, pin, stored, req>>

Stopped == sched.pc = "stopped" /\ UNCHANGED vars

\* One scheduler interval passes.  sleep() is over after exactly one; a tick
\* takes no time but the wait for its warms, each at most WarmTimeout: an assumption
\* on the upstream, since the client's timeout is one of inactivity and ends no
\* response that keeps trickling.
Advance ==
    /\ sched.pc \in {"asleep", "warming"}
    /\ sched.elapsed < WarmTimeout
    /\ lease' = [l \in LeaseIds |->
                   [lease[l] EXCEPT !.age = IF @ = Never \/ @ >= MaxAge THEN @ ELSE @ + 1]]
    /\ pin' = [l \in LeaseIds |-> [pin[l] EXCEPT !.left = Floor(@ - 1)]]
    /\ sched' = IF sched.pc = "asleep" THEN [sched EXCEPT !.pc = "ready"]
                ELSE [sched EXCEPT !.elapsed = @ + 1]
    /\ UNCHANGED <<count, runtime, byFp, snapshot, stored, req>>

-----------------------------------------------------------------------------
RequestStep ==
    \E r \in Requests :
        \/ \E s \in Sessions, f \in Fingerprints, n \in 0..MaxTargets :
              \/ StartOnLease(r, s, f, n)
              \/ \E ttl \in TTLs : StartNewLease(r, s, f, n, ttl)
        \/ \E s \in Sessions, f \in Fingerprints : StartUntracked(r, s, f)
        \/ \E ttl \in TTLs :
              \/ RequestFails(r, ttl)
              \/ \E unstable \in BOOLEAN :
                    \/ ErrorUnobserved(r, ttl, unstable)
                    \/ StreamingResponse(r, ttl, unstable)
                    \/ \E outcome \in Outcomes, prefix \in Prefixes \cup {0} :
                          BoundedResponse(r, outcome, prefix, ttl, unstable)
        \/ StreamEnds(r)
        \/ BodyReadFails(r)

EvaluateLease(l) ==
    \/ EvaluateSkip(l) \/ EvaluateSchedule(l) \/ EvaluateEconomicStop(l)
    \/ EvaluateRefuse(l) \/ EvaluateDecline(l) \/ SendWarm(l)

\* A step of the scheduler that waits for nothing but the event loop.
SchedulerStep == TickBegins \/ TickEnds \/ \E l \in LeaseIds : EvaluateLease(l)

WarmStep == \E res \in WarmResults : WarmReturns(res)

Next == RequestStep \/ SchedulerStep \/ WarmStep \/ Advance \/ Stop \/ Stopped

Spec == Init /\ [][Next]_vars

\* The event loop runs what is ready, every warm is answered, fails or falls silent
\* and times out, and time passes.  Nothing is assumed of the clients.
Fairness == WF_vars(SchedulerStep) /\ WF_vars(WarmStep) /\ WF_vars(Advance)

FairSpec == Spec /\ Fairness

\* Under UpstreamFairness every request in flight is also answered, or breaks.
Answered(r) ==
    \/ \E ttl \in TTLs :
          \/ RequestFails(r, ttl)
          \/ \E unstable \in BOOLEAN :
                \/ ErrorUnobserved(r, ttl, unstable)
                \/ StreamingResponse(r, ttl, unstable)
                \/ \E outcome \in Outcomes, prefix \in Prefixes \cup {0} :
                      BoundedResponse(r, outcome, prefix, ttl, unstable)
    \/ StreamEnds(r)
    \/ BodyReadFails(r)

UpstreamFairSpec == FairSpec /\ \A r \in Requests : WF_vars(Answered(r))

-----------------------------------------------------------------------------
(* Properties *)

\* Every variable keeps its type: in particular a lease's targets are among
\* bg-1..bg-n for the largest count n, and the tables point at leases.
TypeOK ==
    /\ count \in 0..MaxLeases
    /\ lease \in [LeaseIds -> Lease]
    /\ runtime \in [LeaseIds -> Runtime]
    /\ byFp \in [Fingerprints -> 0..MaxLeases]
    /\ snapshot \in [Fingerprints -> Requests \cup {NoRequest}]
    /\ pin \in [LeaseIds -> Pins]
    /\ stored \in [LeaseIds -> Rows]
    /\ req \in [Requests -> Reqs]
    /\ sched \in Scheds

\* A lease shows WARMING, or its warm flag is set, only while the scheduler
\* waits for the response of a warm of that lease (leases.py:933-936), whatever
\* requests, invalidations and target changes happen meanwhile.
WarmingIsInFlight ==
    \A l \in LeaseIds :
        lease[l].state = "warming" \/ runtime[l].warmActive
            => sched.pc = "warming" /\ sched.at = l

\* The circuit breaker is open exactly when two warms in a row verified
\* nothing, so no lease ever gets a third, and it is closed while a warm of the
\* lease is in flight: requests that reset it may not race the warm's result.
BreakerBound ==
    \A l \in LeaseIds :
        /\ runtime[l].misses <= 2
        /\ runtime[l].circuitOpen <=> runtime[l].misses = 2
        /\ sched.pc = "warming" /\ sched.at = l => ~runtime[l].circuitOpen

\* What the invariants rest on: the scheduler evaluates and warms, requests name
\* and the fingerprint table lists leases that exist, and these have a cache.
WarmHasLease == /\ sched.upto <= count
                /\ sched.pc = "warming" => sched.at \in LeaseIds
LeaseHasCache == \A l \in LeaseIds : l <= count => lease[l].fp \in Fingerprints
RequestHasLease ==
    \A r \in Requests : req[r].pc \notin {"idle", "untracked"} => req[r].lease \in 1..count
TableHasLease == \A f \in Fingerprints : byFp[f] \in 0..count

\* The inductive invariant of every configuration.
Safe == /\ TypeOK /\ WarmHasLease /\ LeaseHasCache /\ RequestHasLease /\ TableHasLease
        /\ WarmingIsInFlight /\ BreakerBound

\* The part a client that does not overlap adds: a lease is marked busy while
\* its request waits, and a session has one request in flight.
BusyIsMarked ==
    \A r \in Requests : req[r].pc = "sent" => runtime[req[r].lease].realActive
OneAtATime ==
    \A q, r \in Requests :
        InFlight(q) /\ InFlight(r) /\ q # r
            => lease[req[q].lease].session # lease[req[r].lease].session

\* This step sends a warm of l.
Sends(l) == sched.pc # "warming" /\ sched'.pc = "warming" /\ sched'.at = l

\* Real requests win: no warm of a lease is sent while one of its own requests
\* waits for the upstream.
RealRequestWins ==
    [][\A l \in LeaseIds, r \in Requests :
          Sends(l) => ~(req[r].pc = "sent" /\ req[r].lease = l)]_vars

\* A warm replays the lease's latest request, and that request succeeded: never
\* one that is still waiting for its answer or was overtaken since, nor one that
\* failed, unless the end of it was cut short before its snapshot was dropped.
WarmReplaysLatest ==
    [][\A l \in LeaseIds :
          Sends(l) => LET q == req[sched'.snap]
                      IN  /\ q.lease = l
                          /\ q.generation = lease[l].generation
                          /\ \/ q.pc \in {"ok", "streaming"}
                             \/ q.pc = "failed" /\ sched'.snap \in Unresolved]_vars

DearestWarm == CHOOSE c \in WarmCosts : \A d \in WarmCosts : d <= c

\* The stored row of a lease hides none of its warm spending for long ("warm costs
\* are visible, never hidden"): the row lags by at most one warm for each write of it
\* that failed since the last one that did not, and one more while the tick that
\* warmed it has not come to its writes.  One successful write catches up with all.
WarmCostStored ==
    \A l \in LeaseIds :
        /\ stored[l].warmCost <= lease[l].warmCost
        /\ lease[l].warmCost <= stored[l].warmCost + DearestWarm *
               (stored[l].missed + (IF l \in sched.dirty THEN 1 ELSE 0))

\* A route pin waits for the very next request of its lease: it was set by the latest
\* one, unless that one still waits for its answer or its end was cut short.
PinIsForNextRequest ==
    \A l \in LeaseIds :
        \/ pin[l] = NoPin
        \/ pin[l].generation = lease[l].generation
        \/ \E r \in Requests : /\ req[r].lease = l
                               /\ req[r].generation = lease[l].generation
                               /\ req[r].pc = "sent" \/ r \in Unresolved

\* Cumulative spending on a lease never passes the budget of the largest prefix
\* by as much as the dearest warm, however many warms,
\* misses and prompt-size changes there are ("warming can never continue
\* forever").  Scaled by 10000.
LargestPrefix == CHOOSE p \in Prefixes : \A q \in Prefixes : q <= p
WithinBudget ==
    EconomicsEnabled =>
        \A l \in LeaseIds :
            \/ lease[l].warmCost = 0
            \/ 10000 * lease[l].warmCost <
                 ResumePct * BudgetPct * (ColdResumeCost(LargestPrefix)
                                            - CachedResumeCost(LargestPrefix))
                   + 10000 * DearestWarm

\* Nothing but time keeps the scheduler from warming l.
Warmable(l) ==
    /\ sched.pc # "stopped" /\ ~Skips(l) /\ EconomicGate(lease[l]) /\ ~DryRun
    /\ snapshot[lease[l].fp] \notin Unboundable \cup {NoRequest}

\* The request a warm of l would replay is one of l's own: leases of several
\* sessions may share a cache and the request kept for it.
KeepsOwn(l) ==
    /\ snapshot[lease[l].fp] \in Requests
    /\ req[snapshot[lease[l].fp]].lease = l

\* The cache of a warmable lease does not expire unattended: while no warm of it
\* went unverified, it is warmed before its TTL has passed since the last touch,
\* whatever the tick, the warms of other leases and a stale schedule record cost.
ServedInTime ==
    \A l \in LeaseIds :
        Warmable(l) /\ KeepsOwn(l) /\ runtime[l].misses = 0
            => lease[l].age < lease[l].ttl

\* The relay implements WarmGuard, the contract of warming: a request waits from
\* its sending to its answer or its breaking, a warm from its sending to its
\* result, and the misses are those of the circuit breaker (leases.py:1013).
Guard == INSTANCE WarmGuard WITH
    Ids <- LeaseIds,
    Limit <- 2,
    waiting <- {l \in LeaseIds : \E r \in Requests :
                                   req[r].pc = "sent" /\ req[r].lease = l},
    warmed <- {l \in LeaseIds : sched.pc = "warming" /\ sched.at = l},
    misses <- [l \in LeaseIds |-> runtime[l].misses]

\* Every behaviour of a relay whose clients do not overlap their requests is a
\* behaviour of WarmGuard.
ImplementsGuard == Guard!Spec

Ripe(l) == Warmable(l) /\ Due(lease[l])

\* A warmable lease that is due is eventually warmed or stops being so; a stale
\* schedule record or the warms of other leases do not hold it back for ever.
DueLeaseServed == \A l \in LeaseIds : Ripe(l) ~> ~Ripe(l)

\* "An invalidated lease is never re-armed" (leases.py:520-521).
InvalidatedIsFinal ==
    [][\A l \in LeaseIds :
          lease[l].state = "invalidated" => lease'[l].state = "invalidated"]_vars

\* A lease does not stay busy once its request is over ("After failure:
\* lease.real_request_active = False", PRD section 148).
BusyEnds ==
    \A l \in LeaseIds : runtime[l].realActive ~> ~runtime[l].realActive

=============================================================================
