------------------------------ MODULE ChurnLog ------------------------------
(***************************************************************************)
(* The observer's churn detection (observation.py): every observed request *)
(* is stored as an event; the body of the latest request of a session is   *)
(* kept in memory, bounded and lost with the process; when the cache       *)
(* fingerprint of a session moves, the pair is classified, from the two    *)
(* bodies if the earlier one is still there and from the stored digests    *)
(* otherwise, and stored as a churn row.                                   *)
(*                                                                         *)
(* A request's fingerprint is its whole identity: the prompt, the model,   *)
(* the route and the fields the detector does not track (the scope).       *)
(***************************************************************************)
EXTENDS Topology

CONSTANTS
    Sessions,
    Requests,       \* records [system, blocks, tools, messages, model, route, scope]
    Anonymous,      \* the requests that may come without a session header
    MaxBody,        \* _BODY_CACHE_MAX_BYTES, in pieces
    MaxSessions,    \* _BODY_CACHE_MAX_SESSIONS
    ChurnDetection, \* churn_detection_enabled
    Limit,          \* the window of the topology
    MaxEvents       \* bound

ASSUME LogAssumption ==
    /\ Absent \notin Sessions /\ Absent \notin ToSet(Layers) /\ Anonymous \subseteq Requests
    /\ MaxBody \in Nat /\ MaxSessions \in Nat \ {0} /\ Limit \in Nat /\ MaxEvents \in Nat
    /\ ChurnDetection \in BOOLEAN

\* Prompts, tools and conversations are sequences, and None is none of their parts.
ASSUME RequestsAssumption ==
    \A r \in Requests : \A x \in {r.system, r.tools, r.messages} :
        x \in Seq(ToSet(x)) /\ Absent \notin Seq(ToSet(x))

VARIABLES
    log,        \* the request_events table
    churn,      \* the churn_events table
    bodies      \* _last_body: [session, body] in the order of insertion

vars == <<log, churn, bodies>>

Init == log = <<>> /\ churn = <<>> /\ bodies = <<>>

-----------------------------------------------------------------------------
(* What is read from a request *)

\* _system_content: a system prompt given as blocks is its JSON text.
SystemText(r) == IF r.blocks THEN <<"json">> \o r.system ELSE r.system

\* build_canonical_request and _record.
Event(s, r) ==
    [session |-> s, fp |-> r, system |-> SystemText(r), tools |-> r.tools,
     history |-> r.messages, route |-> r.route, model |-> r.model]

\* request_content_from_payload: a system prompt given as blocks is not read.
\* Route and model are those of the stored event.
Content(body, e) ==
    [system |-> IF body.blocks THEN <<>> ELSE body.system, tools |-> body.tools,
     messages |-> body.messages, route |-> e.route, model |-> e.model, key |-> Absent]

Size(r) == Len(r.system) + Len(r.tools) + Len(r.messages)

-----------------------------------------------------------------------------
(* The body cache *)

BodyAt(s) == SelectInSeq(bodies, LAMBDA b : b.session = s)
Cacheable(s, r) == ChurnDetection /\ s # Absent /\ Size(r) <= MaxBody

PreviousBody(s, r) ==
    IF Cacheable(s, r) /\ BodyAt(s) # 0 THEN bodies[BodyAt(s)].body ELSE Absent

\* A cache that keeps the first body of a session.
RememberBodyOnce(s, r) ==
    IF Cacheable(s, r) /\ BodyAt(s) = 0
    THEN Append(bodies, [session |-> s, body |-> r]) ELSE bodies

\* A cache without a bound.
RememberBodyAlways(s, r) ==
    IF ~Cacheable(s, r) THEN bodies
    ELSE IF BodyAt(s) # 0 THEN [bodies EXCEPT ![BodyAt(s)].body = r]
    ELSE Append(bodies, [session |-> s, body |-> r])

\* A body that is too large leaves the one before it in place; a new session
\* beyond the bound evicts the session that was inserted first.
RememberBody(s, r) ==
    LET room == IF Len(bodies) >= MaxSessions THEN Tail(bodies) ELSE bodies
    IN  IF ~Cacheable(s, r) THEN bodies
        ELSE IF BodyAt(s) # 0 THEN [bodies EXCEPT ![BodyAt(s)].body = r]
        ELSE Append(room, [session |-> s, body |-> r])

-----------------------------------------------------------------------------
(* Recording *)

LastEvent(s) ==
    LET i == SelectLastInSeq(log, LAMBDA e : e.session = s)
    IN  IF s = Absent \/ i = 0 THEN Absent ELSE log[i]

\* _record_churn's own flags: the fingerprint moved, so what no flat digest
\* explains is laid to the cache key.
StoredFlags(a, b) ==
    LET moved == {x \in FlatFields \ {"key"} : a[x] # b[x]}
    IN  IF moved = {} THEN {"key"} ELSE moved

ClassifyChurn(a, b, previousBody, body) ==
    IF previousBody = Absent
    THEN ClassifyHashes(StoredHashes(a), StoredHashes(b), TRUE)
    ELSE Classify(Content(previousBody, a), Content(body, b), TRUE)

ChurnRow(a, b, previousBody, body) ==
    LET k == ClassifyChurn(a, b, previousBody, body)
    IN  [session |-> b.session, previous |-> a.fp, new |-> b.fp, flat |-> StoredFlags(a, b),
         cause |-> k.cause, confidence |-> k.confidence,
         layer |-> k.layer, offset |-> k.offset, loss |-> k.loss]

Moved(s, r) == ChurnDetection /\ LastEvent(s) # Absent /\ LastEvent(s).fp # r

\* _record, for a response, a stream or a failure alike.
Record(s, r) ==
    /\ Len(log) < MaxEvents
    /\ log' = Append(log, Event(s, r))
    /\ bodies' = RememberBody(s, r)
    /\ churn' = IF Moved(s, r)
                THEN Append(churn, ChurnRow(LastEvent(s), Event(s, r),
                                            PreviousBody(s, r), r))
                ELSE churn

\* The churn row cannot be stored: the event has been by then.
ChurnNotStored(s, r) ==
    /\ Moved(s, r)
    /\ Len(log) < MaxEvents
    /\ log' = Append(log, Event(s, r))
    /\ bodies' = RememberBody(s, r)
    /\ UNCHANGED churn

\* The relay is started again on the same store (and more requests follow).
Restart ==
    /\ bodies # <<>> /\ Len(log) < MaxEvents
    /\ bodies' = <<>>
    /\ UNCHANGED <<log, churn>>

Next ==
    \/ \E s \in Sessions, r \in Requests :
          Record(s, r) \/ ChurnNotStored(s, r)
    \/ \E r \in Anonymous : Record(Absent, r)
    \/ Restart

Spec == Init /\ [][Next]_vars

-----------------------------------------------------------------------------
(* Properties *)

\* The body cache holds each session once and no more sessions than its bound,
\* and every churn row is a move of the fingerprint with a confidence from 0.50 to
\* 0.92 (observation.py:746-763, churn.py:433-454).
TypeOK ==
    /\ \A i \in DOMAIN log : log[i].session \in Sessions \cup {Absent}
                             /\ log[i].fp \in Requests
    /\ Len(bodies) <= MaxSessions
    /\ \A i, j \in DOMAIN bodies : bodies[i].session = bodies[j].session => i = j
    /\ \A i \in DOMAIN churn :
          /\ churn[i].session \in Sessions /\ churn[i].previous # churn[i].new
          /\ churn[i].confidence \in 50 .. 92

CauseLayer(cause) ==
    CASE cause \in SystemLayers \cup {"isolated suffix", "volatile prefix", "flat system"}
                                                           -> "system"
      [] cause \in HistoryLayers \cup {"flat history"}     -> "history"
      [] cause = "residual"                                -> "key"
      [] OTHER                                             -> cause

\* The cause stored in a churn row, found from the bodies in memory, is a layer
\* that the stored digests of the same row say changed; an isolated cause is given
\* only when they say that nothing else did (observation.py:858-862 against 847-857).
CauseNamesChange ==
    \A i \in DOMAIN churn :
        LET c == churn[i] IN
        /\ CauseLayer(c.cause) \in c.flat
        /\ c.cause \in {"isolated suffix", "volatile prefix"} => c.flat = {"system"}

\* The layers of every request, as the detector sees its body.
Snapshots == [r \in Requests |-> ToHashes(Content(r, Event(Absent, r)))]

\* A sub-layer that the stored view reports changed did change, and one that it
\* reports unchanged did not, unless the divergence lies before it: the view then
\* takes the conversation as unchanged without knowing (topology.py:210-216).
AttributionSound ==
    LET rows == Newest(churn, Limit)
        events == Newest(log, Limit)
    IN  \A p \in SessionPairs(events) :
            LET a == events[p[1]]
                b == events[p[2]]
                i == ChurnOf(rows, a, b)
                divergent == IF i = 0 THEN Absent ELSE rows[i].layer
                stored == SubLayerStatus(a, b, divergent)
                exact == SnapshotStatus(Snapshots[a.fp], Snapshots[b.fp])
            IN  \A l \in SystemLayers \cup HistoryLayers :
                    \/ stored[l] \in {"unknown", exact[l]}
                    \/ l \in HistoryLayers /\ divergent \in SystemLayers \cup {"tools"}

\* The entries of a table that are of a session, in their order.
OfSession(table, s) ==
    LET kept[n \in 0 .. Len(table)] ==
            IF n = 0 THEN <<>>
            ELSE IF table[n].session = s THEN Append(kept[n - 1], table[n]) ELSE kept[n - 1]
    IN  kept[Len(table)]

\* Over the same requests of one session the stored view counts the pairs and the
\* changes of tools, model and route, and the permutations of the tools, exactly
\* as the view from snapshots does, and never more changes of a sub-layer
\* (topology.py:359-477 against 283-327).
StoredWithinSnapshots ==
    \A s \in Sessions :
        LET mine == OfSession(log, s)
            rows == OfSession(churn, s)
            window == Newest(mine, Limit)
            stored == TopologyFromStore(mine, rows, Limit)
            exact == TopologyFromSnapshots([i \in DOMAIN window |-> Snapshots[window[i].fp]])
        IN  Len(mine) > 1 =>
            /\ stored.total = exact.total
            /\ stored.tools = exact.tools
            /\ stored.churned >= exact.churned
            /\ \A l \in {"tools", "model", "route"} :
                  stored.pairs[l] = exact.pairs[l] /\ stored.changes[l] = exact.changes[l]
            /\ \A l \in SystemLayers \cup HistoryLayers :
                  stored.changes[l] <= exact.changes[l]

=============================================================================
