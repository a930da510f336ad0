------------------------------ MODULE Topology ------------------------------
(***************************************************************************)
(* The prompt topology (topology.py): how often each layer of the prompt   *)
(* changed between consecutive requests of a session, once exactly from    *)
(* snapshots held in memory and once from what the store kept: the flat    *)
(* digests of the events and the first divergent layer of the churn rows.  *)
(*                                                                         *)
(* A pair of requests gives every layer a status, "changed", "same" or     *)
(* "unknown" (None); percentages and phrasing are left out.                *)
(***************************************************************************)
EXTENDS PromptChurn

SystemLayers == {"system prefix", "system suffix"}
HistoryLayers == {"history", "tail"}
TopologyLayers == ToSet(Layers) \cup {"route", "model", "key"}

-----------------------------------------------------------------------------
(* Pairs of requests *)

\* _diff on the digest of the conversation: an empty one has none.
DiffHistory(a, b) ==
    IF a.history = <<>> \/ b.history = <<>> THEN "unknown"
    ELSE IF a.history # b.history THEN "changed" ELSE "same"

DiffField(a, b, x) ==
    IF x = "history" THEN DiffHistory(a, b)
    ELSE IF a[x] # b[x] THEN "changed" ELSE "same"

\* The status with the sub-layer after the divergent one taken as unchanged.
SubLayerStatusEager(a, b, divergent) ==
    [l \in SystemLayers \cup HistoryLayers |->
        IF l = divergent THEN "changed" ELSE "same"]

\* What the first divergent layer and the flat digests say of the sub-layers.  A
\* conversation is taken as unchanged whenever the divergence lies before it,
\* even when its own digests differ.
SubLayerStatus(a, b, divergent) ==
    LET sameSystem == DiffField(a, b, "system") = "same"
        sameHistory == DiffHistory(a, b) = "same"
        inSystem == divergent \in SystemLayers
        inHistory == divergent \in HistoryLayers
        settled(l) ==
            \/ l \in SystemLayers  /\ (sameSystem \/ inHistory \/ divergent = "tools")
            \/ l \in HistoryLayers /\ (sameHistory \/ inSystem \/ divergent = "tools")
            \/ l = "system prefix" /\ divergent = "system suffix"
            \/ l = "history" /\ divergent = "tail"
    IN  [l \in SystemLayers \cup HistoryLayers |->
            IF l = divergent THEN "changed" ELSE IF settled(l) THEN "same" ELSE "unknown"]

\* The residual: the fingerprint moved and no flat digest did.
KeyStatus(a, b) ==
    IF a.fp = b.fp THEN "unknown"
    ELSE IF \E x \in FlatFields \ {"key"} : DiffField(a, b, x) = "changed"
         THEN "same" ELSE "changed"

StoredStatus(a, b, divergent) ==
    [l \in TopologyLayers |->
        CASE l \in {"tools", "route", "model"} -> DiffField(a, b, l)
          [] l = "key"                         -> KeyStatus(a, b)
          [] OTHER -> SubLayerStatus(a, b, divergent)[l]]

\* _pair_flags_from_hashes, on two snapshots.
SnapshotStatus(a, b) ==
    [l \in TopologyLayers |->
        IF l \in ToSet(Layers) THEN MaybeDiffers(a.texts[l], b.texts[l])
        ELSE IF a[l] # b[l] THEN "changed" ELSE "same"]

\* Tools that only changed places are a permutation, not another set.
ToolOrdering(a, b) ==
    IF a.tools = b.tools THEN "stable"
    ELSE IF ToSet(a.tools) = ToSet(b.tools) THEN "permuted" ELSE "mutated"

-----------------------------------------------------------------------------
(* Reports *)

\* status[p], ordering[p] and route[p] of every pair p, counted.
Report(pairs, status, ordering, route, moved) ==
    [pairs   |-> [l \in TopologyLayers |->
                    Cardinality({p \in pairs : status[p][l] # "unknown"})],
     changes |-> [l \in TopologyLayers |->
                    Cardinality({p \in pairs : status[p][l] = "changed"})],
     total   |-> Cardinality(pairs),
     churned |-> Cardinality({p \in pairs : moved[p]}),
     tools   |-> [r \in {route[p] : p \in pairs} |->
                    [o \in {"permuted", "mutated"} |->
                        Cardinality({p \in pairs : route[p] = r /\ ordering[p] = o})]]]

TopologyFromSnapshots(snaps) ==
    LET pairs == {<<i, i + 1>> : i \in 1 .. Len(snaps) - 1}
        status == [p \in pairs |-> SnapshotStatus(snaps[p[1]], snaps[p[2]])]
    IN  Report(pairs, status,
               [p \in pairs |-> ToolOrdering(snaps[p[1]], snaps[p[2]])],
               [p \in pairs |-> snaps[p[2]].route],
               [p \in pairs |-> \E l \in TopologyLayers : status[p][l] = "changed"])

\* The newest `limit` entries of a table (recent_events, churn_list).
Newest(table, limit) == SubSeq(table, Max({1, Len(table) - limit + 1}), Len(table))

\* Consecutive events of one session in the window, by position.
SessionPairs(events) ==
    {p \in (DOMAIN events) \X (DOMAIN events) :
        /\ p[1] < p[2]
        /\ events[p[1]].session = events[p[2]].session
        /\ \A k \in p[1] + 1 .. p[2] - 1 : events[k].session # events[p[1]].session}

\* A look-up that forgets where the transition went.
ChurnOfPrevious(rows, a, b) ==
    SelectInSeq(rows, LAMBDA c : c.session = a.session /\ c.previous = a.fp)

\* _churn_index reads the rows newest first and lets later ones overwrite: of
\* several rows for a transition the OLDEST in the window is kept.
ChurnOf(rows, a, b) ==
    SelectInSeq(rows, LAMBDA c : c.session = a.session /\ c.previous = a.fp /\ c.new = b.fp)

TopologyFromStore(log, churn, limit) ==
    LET events == Newest(log, limit)
        rows == Newest(churn, limit)
        pairs == SessionPairs(events)
        row(p) == ChurnOf(rows, events[p[1]], events[p[2]])
        divergent == [p \in pairs |-> IF row(p) = 0 THEN Absent ELSE rows[row(p)].layer]
        loss(p) == IF row(p) = 0 \/ rows[row(p)].loss = Absent THEN 0 ELSE rows[row(p)].loss
        report == Report(pairs,
               [p \in pairs |-> StoredStatus(events[p[1]], events[p[2]], divergent[p])],
               [p \in pairs |-> ToolOrdering(events[p[1]], events[p[2]])],
               [p \in pairs |-> events[p[2]].route],
               [p \in pairs |-> events[p[1]].fp # events[p[2]].fp])
    IN  [pairs |-> report.pairs, changes |-> report.changes, total |-> report.total,
         churned |-> report.churned, tools |-> report.tools,
         sessions |-> Cardinality({events[i].session : i \in DOMAIN events}),
         gaps |-> Cardinality({p \in pairs :
                    /\ \E x \in {"system", "history"} :
                          DiffField(events[p[1]], events[p[2]], x) = "changed"
                    /\ divergent[p] \notin SystemLayers \cup HistoryLayers}),
         losses |-> [l \in ToSet(Layers) |->
                       MapThenSumSet(loss, {p \in pairs : divergent[p] = l})],
         unattributed |-> MapThenSumSet(loss, {p \in pairs : divergent[p] = Absent})]

=============================================================================
