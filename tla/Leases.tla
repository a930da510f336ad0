------------------------------- MODULE Leases -------------------------------
(***************************************************************************)
(* The cache lease and its process-local runtime record (leases.py), as    *)
(* values: one operator per method of CacheLease / LeaseManager that reads *)
(* or writes a single lease.  The state machine that calls them is         *)
(* LeaseRelay.                                                             *)
(*                                                                         *)
(* Time is discrete: one unit is one scheduler interval.  A lease keeps    *)
(* the age of its last cache touch instead of its timestamp; ages saturate *)
(* at MaxAge, beyond which nothing distinguishes them.  The three sets of  *)
(* fingerprints in the code play no part in any decision: a lease is known *)
(* by its session and its cache fingerprint, which determines the provider.*)
(* pending_warm is written and never read (leases.py:322-326 calls it      *)
(* diagnostic), so it is left out.                                         *)
(***************************************************************************)
EXTENDS Economics

CONSTANTS
    Sessions, Fingerprints,
    Provider,           \* Provider[f]: the provider of a cache fingerprint
    Requests,           \* the client's requests, each sent at most once
    NoSession, NoFingerprint, NoRequest,   \* "not set" markers
    MaxTargets,         \* bound on the X-CachePilot-Targets count
    TTLs,               \* TTLs the resolver may return
    MaxAge,             \* ages saturate here
    WarmPct,            \* LeaseSettings.warm_fraction, in percent
    Margin,             \* network_margin()
    JitterPct,          \* JitterPct[f]: the fingerprint's jitter, in percent
    ResumePct,          \* LeaseSettings.resume_probability, in percent
    Prefixes,           \* prompt sizes a response may report
    WarmCosts           \* costs a warm may turn out to have

ASSUME LeasesAssumption ==
    /\ NoSession \notin Sessions
    /\ NoFingerprint \notin Fingerprints
    /\ NoRequest \notin Requests
    /\ MaxTargets \in Nat /\ MaxAge \in Nat
    /\ TTLs \subseteq Nat \ {0} /\ TTLs # {}
    /\ WarmPct \in 1..100 /\ Margin \in Nat
    /\ JitterPct \in [Fingerprints -> -100..100]
    /\ ResumePct \in 0..100
    /\ Prefixes \subseteq Nat \ {0}
    /\ WarmCosts \subseteq Nat

\* A prompt fits a context window and a warm bounds its output, so there is a
\* dearest warm and, if responses report usage at all, a largest prompt.
ASSUME BoundedAssumption ==
    /\ \E c \in WarmCosts : \A d \in WarmCosts : d <= c
    /\ Prefixes = {} \/ \E p \in Prefixes : \A q \in Prefixes : q <= p

Never == -1     \* no timestamp, no recorded generation

-----------------------------------------------------------------------------
(* Records *)

LeaseStates == {"inactive", "armed", "warm_scheduled", "warming",
                "economic_stop", "invalidated"}

Outcomes == {"confirmed_hit", "miss_rebuilt", "success_unverified", "failed"}

\* CacheLease, and the slot no lease has been created in yet.
Lease == [session: Sessions \cup {NoSession},
          fp: Fingerprints \cup {NoFingerprint},
          state: LeaseStates,
          targets: SUBSET (1..MaxTargets),
          generation: Nat,
          age: Nat \cup {Never},
          ttl: Nat,
          prefix: Nat,
          warmCost: Nat]

EmptyLease == [session |-> NoSession, fp |-> NoFingerprint, state |-> "inactive",
               targets |-> {}, generation |-> 0, age |-> Never, ttl |-> 0,
               prefix |-> 0, warmCost |-> 0]

NewLease(s, f, ttl) == [EmptyLease EXCEPT !.session = s, !.fp = f, !.ttl = ttl]

\* _LeaseRuntime.
Runtime == [realActive: BOOLEAN, warmActive: BOOLEAN,
            scheduledGeneration: Nat \cup {Never},
            misses: Nat, circuitOpen: BOOLEAN]

NewRuntime == [realActive |-> FALSE, warmActive |-> FALSE,
               scheduledGeneration |-> Never, misses |-> 0, circuitOpen |-> FALSE]

-----------------------------------------------------------------------------
(* State transitions *)

\* CacheLease.arm: a no-op once invalidated.
Arm(L) == IF L.state = "invalidated" THEN L ELSE [L EXCEPT !.state = "armed"]

\* CacheLease.disarm: unconditional.
Disarm(L) == [L EXCEPT !.state = "inactive"]

\* LeaseManager.invalidate.
Invalidate(L) == [L EXCEPT !.state = "invalidated"]
InvalidateRuntime(R) == [R EXCEPT !.realActive = FALSE, !.warmActive = FALSE]

\* Synthetic ids that start at bg-0.
SyncTargetsFromZero(L, n) == [L EXCEPT !.targets = 0..n]

\* LeaseController._sync_targets with target_started / target_finished: the
\* synthetic ids are 1..n, so the last one goes only when n = 0 and the first
\* one comes only when there was none.  The controller's own copy of the ids
\* is written here only and always equals the lease's.
SyncTargets(L, n) ==
    LET synced == [L EXCEPT !.targets = 1..n]
    IN  IF n = 0 /\ L.targets # {} THEN Disarm(synced)
        ELSE IF n > 0 /\ L.targets = {} THEN Arm(synced)
        ELSE synced

\* before_normal_request.
BeforeNormalRequest(L) == [L EXCEPT !.generation = @ + 1]

\* The record is not marked busy.
BeforeNormalRuntimeUnmarked(R) == R
BeforeNormalRuntime(R) == [R EXCEPT !.realActive = TRUE]

\* after_normal_request: a failed call or an invalidated lease refreshes nothing.
AfterNormalRequest(L, outcome) ==
    IF L.state = "invalidated" \/ outcome = "failed" THEN L
    ELSE LET touched == [L EXCEPT !.age = 0]
         IN  IF L.targets # {} THEN Arm(touched) ELSE Disarm(touched)

\* ... and only cache evidence resets the circuit breaker.
AfterNormalRuntime(R, L, outcome) ==
    LET idle == [R EXCEPT !.realActive = FALSE]
    IN  IF L.state # "invalidated" /\ outcome \in {"confirmed_hit", "miss_rebuilt"}
        THEN [idle EXCEPT !.circuitOpen = FALSE, !.misses = 0]
        ELSE idle

\* update_cost_estimates: a response without usage keeps the last estimates.
UpdateCostEstimates(L, prefix) ==
    IF prefix > 0 THEN [L EXCEPT !.prefix = prefix] ELSE L

\* refresh_ttl with what the resolver returned.
RefreshTTL(L, ttl) == [L EXCEPT !.ttl = ttl]

-----------------------------------------------------------------------------
(* The deadline and the economic gate *)

\* A deadline at the whole TTL: neither warm_fraction nor the margin.
DueAtExpiry(L) == 100 * L.age >= L.ttl * (100 + JitterPct[L.fp])

\* next_deadline has passed: age >= min(ttl * fraction, ttl - margin) * (1 + jitter),
\* both sides scaled by 10000.
Due(L) ==
    LET byFraction == L.ttl * WarmPct
        byMargin   == 100 * (L.ttl - Margin)
        wait       == IF byFraction < byMargin THEN byFraction ELSE byMargin
    IN  10000 * L.age >= wait * (100 + JitterPct[L.fp])

\* resume_probability; the relay's synthetic targets are never detached.
ResumeProbability(L) == IF L.targets = {} THEN 0 ELSE ResumePct

\* economic_gate over evaluate_economics; without usage no cost is known.
EconomicGate(L) ==
    \/ ~EconomicsEnabled
    \/ Evaluate(ColdResumeCost(L.prefix), CachedResumeCost(L.prefix),
                NextWarmCost(L.prefix), L.warmCost, ResumeProbability(L),
                PricingKnown /\ L.prefix > 0) = "warm"

-----------------------------------------------------------------------------
(* Warm results *)

\* What the executor reports: the outcome, whether cache_write_tokens > 0, the cost.
WarmResults == [outcome: Outcomes, wrote: BOOLEAN, cost: WarmCosts]

\* _apply_warm_result: only a verified touch refreshes the age.
ApplyWarmResult(L, res) ==
    [L EXCEPT !.warmCost = @ + res.cost,
              !.age = IF \/ res.outcome = "confirmed_hit"
                         \/ res.outcome = "miss_rebuilt" /\ res.wrote
                      THEN 0 ELSE @]

\* A breaker that opens one miss late.
ApplyWarmRuntimeLate(R, res) ==
    IF res.outcome = "confirmed_hit" THEN [R EXCEPT !.misses = 0]
    ELSE [R EXCEPT !.misses = @ + 1,
                   !.circuitOpen = IF R.misses + 1 > 2 THEN TRUE ELSE @]

\* _apply_warm_result: everything but a hit counts towards the breaker.
ApplyWarmRuntime(R, res) ==
    IF res.outcome = "confirmed_hit" THEN [R EXCEPT !.misses = 0]
    ELSE [R EXCEPT !.misses = @ + 1,
                   !.circuitOpen = IF R.misses + 1 >= 2 THEN TRUE ELSE @]

=============================================================================
