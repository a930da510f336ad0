--------------------------- MODULE CacheLearning ---------------------------
(***************************************************************************)
(* The observer and the learner against a provider whose caches really     *)
(* expire.  Sessions send requests; the provider routes each one, serves   *)
(* it from the route's cache if that was touched less than TrueTTL ago,    *)
(* and touches it.  When the response (or the failure) reaches the relay,  *)
(* RequestObserver._record writes the event, the churn row, the route      *)
(* event and the TTL observation and refines the route's profile, in one   *)
(* step of the event loop but with a commit each: an error ends the        *)
(* recording after any of them, is logged and leaves what was written.  A  *)
(* relay that dies there leaves the same, and its requests in flight are   *)
(* never recorded.                                                         *)
(*                                                                         *)
(* A cache is known by its fingerprint: the request's content and the      *)
(* route (the route hash enters the fingerprint).  Timestamps are taken    *)
(* at recording and are finer than any two recordings, so at most one      *)
(* request is recorded per unit of time.  Rows are never deleted.          *)
(***************************************************************************)
EXTENDS TTLProfiles, Sequences

CONSTANTS
    Sessions, Contents, NoContent,
    Routes,             \* the routes a response may name
    BaseRoute,          \* the identity of a request that got no response headers
    TrueTTL,            \* TrueTTL[r]: how long the provider keeps a cache on r
    Latency,            \* longest time from sending to recording
    ChurnDetection,     \* churn_detection_enabled
    Overlap,            \* may a content be in flight twice?
    MaxTime, MaxRequests,   \* bounds
    Outage                  \* numbers of requests sent at which recordings may break

ASSUME LearningAssumption ==
    /\ BaseRoute \notin Routes /\ NoContent \notin Contents
    /\ TrueTTL \in [Routes -> Nat \ {0}]
    /\ Latency \in Nat /\ MaxTime \in Nat /\ MaxRequests \in Nat
    /\ Outage \subseteq Nat
    /\ ChurnDetection \in BOOLEAN /\ Overlap \in BOOLEAN

VARIABLES
    now,
    touched,    \* touched[f]: when the provider last used the cache (Unknown: never)
    flight,     \* flight[s]: the request of s at the provider
    sent,       \* number of requests sent
    last,       \* last_event_for_session
    rows,       \* the ttl_observations table, in the order of insertion
    churned,    \* churned[f]: time of the latest churn row that names f
    profile,    \* the route_profiles table
    unseen      \* history: routes whose cache was used by a request without a row

vars == <<now, touched, flight, sent, last, rows, churned, profile, unseen>>

AllRoutes == Routes \cup {BaseRoute}
Fingerprints == [content: Contents, route: AllRoutes]
Fp(k, r) == [content |-> k, route |-> r]

NoFlight == [content |-> NoContent, route |-> BaseRoute, served |-> FALSE,
             hit |-> FALSE, at |-> Unknown]
NoEvent == [fp |-> Fp(NoContent, BaseRoute), outcome |-> "none"]

Init ==
    /\ now = 0
    /\ touched = [f \in Fingerprints |-> Unknown]
    /\ flight = [s \in Sessions |-> NoFlight]
    /\ sent = 0
    /\ last = [s \in Sessions |-> NoEvent]
    /\ rows = <<>>
    /\ churned = [f \in Fingerprints |-> Unknown]
    /\ profile = [r \in AllRoutes |-> NewProfile]
    /\ unseen = {}

-----------------------------------------------------------------------------
(* The provider *)

Idle(s) == flight[s] = NoFlight

\* A cache hit: touched, and not as long ago as the route's TTL.
Alive(f) == touched[f] # Unknown /\ now - touched[f] < TrueTTL[f.route]

\* A request of s reaches the provider on route r, which serves it or turns it
\* away without using the cache.
Send(s, k, r, served) ==
    /\ Idle(s) /\ sent < MaxRequests
    /\ Overlap \/ \A q \in Sessions : flight[q].content # k
    /\ sent' = sent + 1
    /\ flight' = [flight EXCEPT ![s] = [content |-> k, route |-> r, served |-> served,
                                        hit |-> Alive(Fp(k, r)), at |-> now]]
    /\ touched' = IF served THEN [touched EXCEPT ![Fp(k, r)] = now] ELSE touched
    /\ UNCHANGED <<now, last, rows, churned, profile, unseen>>

\* A warm touches the cache of its route; nothing records it.
Warm(k, r) ==
    /\ touched[Fp(k, r)] # Unknown
    /\ touched' = [touched EXCEPT ![Fp(k, r)] = now]
    /\ UNCHANGED <<now, flight, sent, last, rows, churned, profile, unseen>>

\* Time passes, up to the latency of the requests in flight.
Advance ==
    /\ now < MaxTime
    /\ \A s \in Sessions : Idle(s) \/ now - flight[s].at < Latency
    /\ now' = now + 1
    /\ UNCHANGED <<touched, flight, sent, last, rows, churned, profile, unseen>>

\* The bound of the model, not an end of the program.
Ended == now = MaxTime /\ UNCHANGED vars

-----------------------------------------------------------------------------
(* The observer *)

\* churn_between with strict ends.
ChurnBetweenStrict(churnAt, f, start, end) == churnAt[f] > start /\ churnAt[f] < end
\* churn_between; rows are in the past, so the latest one decides.
ChurnBetween(churnAt, f, start, end) == churnAt[f] >= start /\ churnAt[f] <= end

\* The rows of the fingerprint sorted the wrong way.
FirstRow(f) ==
    LET own == {i \in DOMAIN rows : rows[i].fp = f}
    IN  IF own = {} THEN 0 ELSE Min(own)

\* last_ttl_observation: the latest row of the fingerprint, whatever its outcome.
LastRow(f) == Max({0} \cup {i \in DOMAIN rows : rows[i].fp = f})

\* _record_churn: a row that names the fingerprint left and the new one.
ChurnDue(s, f) == ChurnDetection /\ last[s] # NoEvent /\ last[s].fp # f
ChurnAfter(s, f) ==
    IF ChurnDue(s, f)
    THEN [churned EXCEPT ![f] = now, ![last[s].fp] = now] ELSE churned

\* _run_route_intel: the route event of two consecutive events of a session.
Verdict(e, d) ==
    IF e = NoEvent \/ e.fp.route = d.fp.route THEN "none"
    ELSE RouteVerdict(e.outcome, d.outcome, e.fp.content = d.fp.content)

\* The writes of _record in their order: the event, the churn row, the TTL row and
\* the profile.  A recording is known by how many of them succeed.
Writes == 1..4

\* A learner that takes any pair for evidence.
LearnAny(f, outcome, churnAt, writes) ==
    LET i == LastRow(f)
        age == IF i = 0 THEN Unknown ELSE now - rows[i].at
        clean == i # 0 /\ ~ChurnBetween(churnAt, f, rows[i].at, now)
        learned == i # 0 /\ writes = 4
    IN  /\ rows' = IF writes < 3 THEN rows
                   ELSE Append(rows, [fp |-> f, at |-> now, age |-> age,
                                      outcome |-> outcome, clean |-> clean,
                                      learned |-> learned])
        /\ profile' = IF learned
                      THEN [profile EXCEPT ![f.route] = Observe(@, outcome, age)]
                      ELSE profile

\* TTLLearner.learn: the idle age is the time since the fingerprint's last row, and
\* the pair is clean if no churn row names the fingerprint in between.  The route
\* is part of the fingerprint, so the two rows have the same one and the branch
\* that starts the confidence afresh is never taken.  The row is committed before
\* the profile; the field learned, which the table has not, says whether the
\* profile followed.
Learn(f, outcome, churnAt, writes) ==
    LET i == LastRow(f)
        age == IF i = 0 THEN Unknown ELSE now - rows[i].at
        clean == i # 0 /\ ~ChurnBetween(churnAt, f, rows[i].at, now)
        learned == clean /\ writes = 4
    IN  /\ rows' = IF writes < 3 THEN rows
                   ELSE Append(rows, [fp |-> f, at |-> now, age |-> age,
                                      outcome |-> outcome, clean |-> clean,
                                      learned |-> learned])
        /\ profile' = IF learned
                      THEN [profile EXCEPT ![f.route] = Observe(@, outcome, age)]
                      ELSE profile

\* Is the cache use of the request of s among those no row of its route tells of?
Unseen(s, seen) == IF flight[s].served /\ ~seen THEN unseen \cup {flight[s].route}
                   ELSE unseen

\* _record of the request of s, observed as fingerprint f.  A churn row fails only
\* where one is due.  The route event is a function of the session's two events and
\* enters no decision here; _run_route_intel logs its own errors.
Record(s, f, outcome, writes) ==
    /\ ~Idle(s)
    /\ \A i \in DOMAIN rows : rows[i].at < now
    /\ writes < 4 => sent \in Outage
    /\ writes = 1 => ChurnDue(s, f)
    /\ flight' = [flight EXCEPT ![s] = NoFlight]
    /\ last' = [last EXCEPT ![s] = [fp |-> f, outcome |-> outcome]]
    /\ churned' = IF writes < 2 THEN churned ELSE ChurnAfter(s, f)
    /\ Learn(f, outcome, churned', writes)
    /\ unseen' = Unseen(s, writes >= 3 /\ f.route = flight[s].route)
    /\ UNCHANGED <<now, touched, sent>>

\* The request of s leaves nothing in the store: its body breaks while it is read,
\* the observation or its first write raises, or the relay dies.
NotRecorded(s) ==
    /\ ~Idle(s) /\ sent \in Outage
    /\ flight' = [flight EXCEPT ![s] = NoFlight]
    /\ unseen' = Unseen(s, FALSE)
    /\ UNCHANGED <<now, touched, sent, last, rows, churned, profile>>

Observed(s) == Fp(flight[s].content, flight[s].route)

\* observe_bounded: a usable response with or without cache telemetry, or an error
\* response, which names its route as well.
ObserveBounded(s, telemetry, writes) ==
    Record(s, Observed(s), ClassifyOutcome(flight[s].served, telemetry, flight[s].hit),
           writes)

\* observe_streaming: the headers name the route, the usage is not seen.
ObserveStreaming(s, writes) ==
    Record(s, Observed(s), ClassifyOutcome(flight[s].served, FALSE, FALSE), writes)

\* observe_failure: no response, so the route is the gateway's alone, whether the
\* provider used the cache or not.
ObserveFailure(s, writes) ==
    Record(s, Fp(flight[s].content, BaseRoute), "failed", writes)

-----------------------------------------------------------------------------
Next ==
    \/ Advance \/ Ended
    \/ \E s \in Sessions :
          \/ \E k \in Contents, r \in Routes, served \in BOOLEAN : Send(s, k, r, served)
          \/ \E writes \in Writes :
                \/ \E telemetry \in BOOLEAN : ObserveBounded(s, telemetry, writes)
                \/ ObserveStreaming(s, writes)
                \/ ObserveFailure(s, writes)
          \/ NotRecorded(s)

Spec == Init /\ [][Next]_vars

\* With the relay's own warms.
WarmSpec == Init /\ [][Next \/ \E k \in Contents, r \in Routes : Warm(k, r)]_vars

-----------------------------------------------------------------------------
(* Properties *)

\* Every variable keeps its type; confidences stay within their clamp.
TypeOK ==
    /\ now \in 0..MaxTime /\ sent \in 0..MaxRequests
    /\ touched \in [Fingerprints -> 0..MaxTime \cup {Unknown}]
    /\ churned \in [Fingerprints -> 0..MaxTime \cup {Unknown}]
    /\ profile \in [AllRoutes -> Profile]
    /\ \A s \in Sessions : last[s] = NoEvent \/ last[s].fp \in Fingerprints
    /\ \A i \in DOMAIN rows : /\ rows[i].fp \in Fingerprints
                              /\ rows[i].outcome \in Outcomes
    /\ unseen \subseteq Routes

\* "a verified cache HIT at idle age A proves TTL > A" and "a MISS at idle age A
\* caps TTL <= A" (ttl.py:5-9), up to the latency of a response: the learned bounds
\* enclose the provider's real TTL, whichever sessions share the cache, however
\* the route moves and wherever recordings break off.  The lower bound of a route
\* may be wrong once a request that used a cache there left no row of it (its
\* response was lost, its body broke, its recording stopped before the row), the
\* upper bound once the route answered with an error.
BoundsSound ==
    \A r \in Routes :
        /\ r \notin unseen => profile[r].lower < TrueTTL[r] + Latency
        /\ (\A i \in DOMAIN rows : rows[i].fp.route = r => rows[i].outcome # "failed")
              => profile[r].upper = Unknown \/ profile[r].upper >= TrueTTL[r] - Latency

\* The clean rows of a route (clean_observations_for_profile), as a set, and those
\* of them the profile was refined with.
Observations(I) == {[id |-> i, age |-> rows[i].age, outcome |-> rows[i].outcome] : i \in I}
CleanRows(r) == Observations({i \in DOMAIN rows : rows[i].clean /\ rows[i].fp.route = r})
LearnedRows(r) ==
    Observations({i \in DOMAIN rows : rows[i].clean /\ rows[i].learned /\ rows[i].fp.route = r})

\* A profile, refined in place, says what the rows it was refined with say: it
\* counts the verified ones, its lower bound is the latest age a cache was seen
\* alive and its upper bound the earliest age one was seen dead.
ProfileMatchesRows ==
    \A r \in AllRoutes :
        LET O == LearnedRows(r)
            P == profile[r]
            alive == {o.age : o \in Evidence(O) \ Deaths(O)}
        IN  /\ P.samples = Cardinality(Evidence(O))
            /\ P.lower = (IF alive = {} THEN Unknown ELSE Max(alive))
            /\ P.upper = (IF DeathAges(O) = {} THEN Unknown ELSE Min(DeathAges(O)))

\* Every clean row of r reached its profile.
InStep(r) == CleanRows(r) = LearnedRows(r)

\* The two things learned of a route agree, although one is refined in place and
\* the other is recomputed from the rows: the curve never rises and is below one
\* from the profile's upper bound on at the latest.  If no profile update was lost
\* the upper bound is exactly the curve's first step; a lost one leaves the profile
\* behind the curve, never ahead of it.
CurveMatchesProfile ==
    /\ ProfileMatchesRows
    /\ \A r \in AllRoutes :
          LET O == CleanRows(r)
              upper == profile[r].upper
          IN  \A t \in 0..Horizon(O) :
                 LET c == Survival(O, t)
                     d == Survival(O, t + 1)
                 IN  /\ c.num = c.den => upper = Unknown \/ t < upper
                     /\ InStep(r) /\ (upper = Unknown \/ t < upper) => c.num = c.den
                     /\ d.num * c.den <= c.num * d.den

\* A route whose evidence contradicts itself (a cache alive at an age at which
\* another was dead) is trusted less and less: nothing seen later raises its
\* confidence (ttl.py:171-175).
CrossedNeverRegainsTrust ==
    [][\A r \in Routes :
          profile[r].upper # Unknown /\ profile[r].lower > profile[r].upper
              => profile'[r].confidence <= profile[r].confidence]_vars

\* A miss blamed on a route change is never TTL evidence (route_intel.py:150-152):
\* the request that gets the verdict refines no profile.
InstabilityRefinesNothing ==
    [][\A s \in Sessions :
          last'[s] # last[s] /\ Verdict(last[s], last'[s]) = "route_instability"
              => profile' = profile]_vars

\* A TTL resolved from what was learned rests on verified rows of the route, and
\* lies between the bounds they set when these do not contradict each other.
LearnedHasEvidence ==
    \A r \in AllRoutes :
        LET P == profile[r]
            res == Resolve(P)
        IN  res.source = "learned" =>
              /\ Cardinality(Evidence(CleanRows(r))) >= MinimumSamples
              /\ P.upper # Unknown /\ P.lower <= P.upper
                    => 100 * P.lower <= res.ttl /\ res.ttl <= 100 * P.upper

=============================================================================
