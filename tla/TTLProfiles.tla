---------------------------- MODULE TTLProfiles ----------------------------
(***************************************************************************)
(* What is learned of a route's cache lifetime, as operators: the bounds   *)
(* and the confidence of a profile (ttl.py), the resolution of a TTL, the  *)
(* verdict on a miss after a route change (route_intel.py), the outcome of *)
(* a response (telemetry.py) and the Kaplan-Meier curve of a route         *)
(* (survival.py).  Times are integers, confidences are in hundredths.      *)
(***************************************************************************)
EXTENDS Integers, FiniteSets, FiniteSetsExt

CONSTANTS
    HighConfidence,     \* HIGH_CONFIDENCE_THRESHOLD
    MinimumSamples,     \* minimum_samples
    ForcedTTL,          \* force_seconds (Unknown: not set)
    HintTTL,            \* the adapter's ttl_hint() (Unknown: none)
    DefaultTTL          \* default_ttl_s

Unknown == -1

ASSUME ProfilesAssumption ==
    /\ HighConfidence \in 51..95 /\ MinimumSamples \in Nat
    /\ ForcedTTL \in Nat \cup {Unknown} /\ HintTTL \in Nat \cup {Unknown}
    /\ DefaultTTL \in Nat

Outcomes == {"confirmed_hit", "miss_rebuilt", "success_unverified", "failed"}

\* classify_outcome: a failed status, then the telemetry, if there is any.
ClassifyOutcome(ok, telemetry, hit) ==
    IF ~ok THEN "failed"
    ELSE IF ~telemetry THEN "success_unverified"
    ELSE IF hit THEN "confirmed_hit" ELSE "miss_rebuilt"

-----------------------------------------------------------------------------
(* Profiles *)

Profile == [lower: Nat \cup {Unknown}, upper: Nat \cup {Unknown},
            confidence: 5..95, samples: Nat]
\* A new route trusted from the start.
NewProfileSure == [lower |-> Unknown, upper |-> Unknown, confidence |-> 100, samples |-> 0]
NewProfile == [lower |-> Unknown, upper |-> Unknown, confidence |-> 50, samples |-> 0]

\* _adjust_confidence.
Adjusted(P, delta) == [P EXCEPT !.confidence = Min({95, Max({5, @ + delta})})]

\* Consistency judged by the age just seen instead of the bound it led to.
ObserveByAge(P, outcome, age) ==
    CASE outcome = "failed" -> P
      [] outcome = "success_unverified" -> Adjusted(P, -5)
      [] outcome = "confirmed_hit" ->
           Adjusted([P EXCEPT !.samples = @ + 1, !.lower = Max({@, 0, age})],
                    IF P.upper = Unknown \/ age <= P.upper THEN 5 ELSE -5)
      [] outcome = "miss_rebuilt" ->
           Adjusted([P EXCEPT !.samples = @ + 1,
                              !.upper = IF @ = Unknown THEN age ELSE Min({@, age})],
                    IF age >= P.lower THEN 2 ELSE -5)

\* TTLProfile.observe of a clean observation at an idle age.
Observe(P, outcome, age) ==
    LET lower == Max({P.lower, 0, age})
        upper == IF P.upper = Unknown THEN age ELSE Min({P.upper, age})
    IN  CASE outcome = "failed" -> P
          [] outcome = "success_unverified" -> Adjusted(P, -5)
          [] outcome = "confirmed_hit" ->
               Adjusted([P EXCEPT !.samples = @ + 1, !.lower = lower],
                        IF P.upper = Unknown \/ lower <= P.upper THEN 5 ELSE -5)
          [] outcome = "miss_rebuilt" ->
               Adjusted([P EXCEPT !.samples = @ + 1, !.upper = upper],
                        IF upper >= P.lower THEN 2 ELSE -5)

\* TTLProfile.estimate with the adapter's hint, times 100 (Unknown: None).
Estimate(P) ==
    LET lower == Max({0, P.lower})
    IN  IF P.upper # Unknown THEN 100 * lower + 35 * (P.upper - lower)
        ELSE IF HintTTL = Unknown /\ P.lower = Unknown THEN Unknown
        ELSE 100 * Max({0, HintTTL, P.lower})

\* A resolver that asks for confidence only.
ResolveUnsampled(P) ==
    IF ForcedTTL # Unknown THEN [ttl |-> 100 * ForcedTTL, source |-> "force"]
    ELSE IF Estimate(P) # Unknown /\ P.confidence >= 50
         THEN [ttl |-> Estimate(P), source |-> "learned"]
    ELSE IF HintTTL > 0 THEN [ttl |-> 100 * HintTTL, source |-> "adapter_hint"]
    ELSE [ttl |-> 100 * DefaultTTL, source |-> "default"]

\* TTLResolver.resolve, the TTL times 100.  A route without a row has NewProfile,
\* whose confidence is below the threshold.
Resolve(P) ==
    IF ForcedTTL # Unknown THEN [ttl |-> 100 * ForcedTTL, source |-> "force"]
    ELSE IF /\ Estimate(P) # Unknown /\ P.confidence >= HighConfidence
            /\ P.samples >= MinimumSamples
         THEN [ttl |-> Estimate(P), source |-> "learned"]
    ELSE IF HintTTL > 0 THEN [ttl |-> 100 * HintTTL, source |-> "adapter_hint"]
    ELSE [ttl |-> 100 * DefaultTTL, source |-> "default"]

-----------------------------------------------------------------------------
(* Route verdicts *)

\* RouterMissClassifier.classify for a request whose route differs from that of
\* the session's previous one; both routes are observable.
RouteVerdict(previousOutcome, outcome, identityStable) ==
    IF /\ identityStable /\ previousOutcome = "confirmed_hit"
       /\ outcome = "miss_rebuilt"
    THEN "route_instability" ELSE "clean"

-----------------------------------------------------------------------------
(* The survival curve of a set of clean observations [id, age, outcome] *)

Evidence(rows) == {o \in rows : o.outcome \in {"confirmed_hit", "miss_rebuilt"}}
Deaths(rows) == {o \in rows : o.outcome = "miss_rebuilt"}
DeathAges(rows) == {o.age : o \in Deaths(rows)}

\* estimate_survival: at a death age, those at risk are the observations that
\* reached it, censored hits of the same age among them.
AtRisk(rows, a) == Cardinality({o \in Evidence(rows) : o.age >= a})
Events(rows, a) == Cardinality({o \in Deaths(rows) : o.age = a})

\* survival_at, as a fraction: the product-limit estimate after the steps up to t,
\* one for every age of a death, undefined beyond the horizon.
Horizon(rows) == IF Evidence(rows) = {} THEN Unknown
                 ELSE Max({o.age : o \in Evidence(rows)})
Survival(rows, t) ==
    LET curve[a \in Nat] ==
            LET before == IF a = 0 THEN [num |-> 1, den |-> 1] ELSE curve[a - 1]
            IN  IF a \notin DeathAges(rows) THEN before
                ELSE [num |-> before.num * (AtRisk(rows, a) - Events(rows, a)),
                      den |-> before.den * AtRisk(rows, a)]
    IN  curve[t]

=============================================================================
