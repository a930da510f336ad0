---------------------------- MODULE ReplayProofs ----------------------------
(***************************************************************************)
(* What a request leaves for later, proved for every value of the other    *)
(* constants of LeaseRelay: the route pin serves the next request only     *)
(* (PinIsForNextRequest) and the snapshot a warm replays is the lease's    *)
(* latest successful request (WarmReplaysLatest).                          *)
(***************************************************************************)
EXTENDS LeaseRelayProofs

\* What every step of the scheduler and of time keeps of lease l.
Kept(l) ==
    /\ lease'[l].generation = lease[l].generation
    /\ lease'[l].session = lease[l].session /\ lease'[l].fp = lease[l].fp
    /\ lease[l].state = "invalidated" => lease'[l].state = "invalidated"
    /\ runtime'[l].realActive = runtime[l].realActive
    /\ pin'[l].generation = pin[l].generation
    /\ pin[l] = NoPin => pin'[l] = NoPin

\* Only requests move the tables, the snapshots and what a lease has to keep.
LEMMA OtherEffect ==
    ASSUME Safe, SchedulerStep \/ WarmStep \/ Advance \/ Stop \/ Stopped \/ UNCHANGED vars
    PROVE  /\ UNCHANGED <<count, byFp, snapshot, req>>
           /\ \A l \in LeaseIds : Kept(l)
  <1>1. CASE TickBegins \/ TickEnds
    BY <1>1, TickEffect DEF Untouched, SameBooks, Kept
  <1>2. ASSUME NEW k \in LeaseIds, EvaluateLease(k)
        PROVE  /\ UNCHANGED <<count, byFp, snapshot, req>>
               /\ \A l \in LeaseIds : Kept(l)
    BY <1>2, EvaluateEffect, SendEffect DEF EvaluateLease, Untouched, SameBooks, Kept
  <1>3. ASSUME NEW res \in WarmResults, WarmReturns(res)
        PROVE  /\ UNCHANGED <<count, byFp, snapshot, req>>
               /\ \A l \in LeaseIds : Kept(l)
    <2>1. PICK k \in LeaseIds : k = sched.at
      BY <1>3, ReturnEffect
    <2>2. /\ UNCHANGED <<count, byFp, snapshot, pin, req>> /\ Kept(k)
          /\ \A l \in LeaseIds \ {k} : Untouched(l)
      BY <1>3, <2>1, ReturnEffect DEF Kept
    <2> QED
      BY <2>2 DEF Untouched, SameBooks, Kept
  <1>4. CASE Advance
    BY <1>4, AdvanceEffect DEF Untouched, SameBooks, Kept
  <1>5. CASE Stop
    BY <1>5, StopEffect DEF Untouched, SameBooks, Kept
  <1>6. CASE Stopped \/ UNCHANGED vars
    BY <1>6 DEF Stopped, vars, Kept
  <1> QED
    BY <1>1, <1>2, <1>3, <1>4, <1>5, <1>6 DEF SchedulerStep, WarmStep

-----------------------------------------------------------------------------
(* The route pin *)

\* A pin belongs to a lease that exists and to a generation it has reached.
PinIsPast == \A l \in LeaseIds : pin[l].generation <= lease[l].generation
PinHasLease == \A l \in LeaseIds : l > count => pin[l] = NoPin
PinNeedsAffinity == ~AffinityEnabled => \A l \in LeaseIds : pin[l] = NoPin

\* A request that was not sent names no lease.
IdleHasNone == \A r \in Requests : req[r].pc = "idle" => req[r].lease = 0

\* The latest request of l waits for its answer, or its end may be cut short.
LatestIsOpen(l) ==
    \E r \in Requests : /\ req[r].lease = l
                        /\ req[r].generation = lease[l].generation
                        /\ req[r].pc = "sent" \/ r \in Unresolved

PinsKept == /\ PinIsPast /\ PinHasLease /\ PinNeedsAffinity /\ IdleHasNone
            /\ \A l \in LeaseIds : \/ pin[l] = NoPin
                                  \/ pin[l].generation = lease[l].generation
                                  \/ LatestIsOpen(l)

\* The reconciliation at the end of a request leaves a pin of its generation.
LEMMA ReconcileFacts ==
    ASSUME NEW p \in Pins, NEW L \in Lease, NEW outcome, NEW unstable,
           AffinityEnabled, p.generation <= L.generation
    PROVE  LET q == ReconcileAffinity(p, L, outcome, unstable)
           IN  q = NoPin \/ q.generation = L.generation
  BY DEF ReconcileAffinity, Pins, Lease, NoPin, Never

\* The types the pin proofs use.
LEMMA PinTypes ==
    ASSUME Safe
    PROVE  /\ pin \in [LeaseIds -> Pins] /\ LeaseIds \subseteq Nat /\ count \in Nat
           /\ \A l \in LeaseIds : /\ lease[l] \in Lease /\ lease[l].generation \in Nat
                                  /\ pin[l].generation \in Nat \cup {Never}
           /\ NoPin.generation = Never /\ Never = -1
  <1>1. /\ pin \in [LeaseIds -> Pins] /\ lease \in [LeaseIds -> Lease]
        /\ LeaseIds \subseteq Nat /\ count \in Nat
    BY RelayAssumption DEF Safe, TypeOK, LeaseIds
  <1>2. NoPin.generation = Never /\ Never = -1
    BY DEF NoPin, Never
  <1>3. \A L \in Lease : L.generation \in Nat
    BY DEF Lease
  <1>4. \A p \in Pins : p.generation \in Nat \cup {Never}
    BY DEF Pins
  <1> QED
    BY <1>1, <1>2, <1>3, <1>4

\* The start of a request looks the pin up, and waits.
LEMMA BeginPins ==
    ASSUME Safe, Safe', PinsKept, NEW r \in Requests, NEW s, NEW f, NEW l \in LeaseIds,
           RequestBegins(r, s, f, l)
    PROVE  PinsKept'
  <1>1. /\ \A k \in LeaseIds \ {l} : /\ pin'[k] = pin[k]
                                     /\ lease'[k].generation = lease[k].generation
        /\ pin'[l] = NoPin \/ pin'[l] = pin[l]
        /\ l <= count' /\ count' >= count
        /\ lease'[l].generation >= lease[l].generation \/ pin[l] = NoPin
    BY PinTypes DEF RequestBegins, LookUpPin, SameBooks, PinsKept, PinHasLease
  <1>2. /\ req'[r].pc = "sent" /\ req'[r].lease = l /\ req[r].pc = "idle"
        /\ req'[r].generation = lease'[l].generation
        /\ \A q \in Requests \ {r} : req'[q] = req[q]
    BY DEF RequestBegins, Safe, TypeOK
  <1>3. ASSUME NEW k \in LeaseIds
        PROVE  pin'[k] = NoPin \/ pin'[k].generation = lease'[k].generation \/ LatestIsOpen(k)'
    <2>1. CASE k = l
      BY <1>2, <2>1 DEF LatestIsOpen
    <2>2. CASE k # l
      <3>1. CASE LatestIsOpen(k)
        <4>1. PICK q \in Requests : /\ req[q].lease = k
                                    /\ req[q].generation = lease[k].generation
                                    /\ req[q].pc = "sent" \/ q \in Unresolved
          BY <3>1 DEF LatestIsOpen
        <4>2. q # r
          BY <1>2, <4>1 DEF PinsKept, IdleHasNone, LeaseIds
        <4>3. req'[q] = req[q] /\ lease'[k].generation = lease[k].generation
          BY <1>1, <1>2, <2>2, <4>2
        <4> QED
          BY <4>1, <4>3 DEF LatestIsOpen
      <3> QED
        BY <1>1, <2>2, <3>1 DEF PinsKept
    <2> QED
      BY <2>1, <2>2
  <1>4. PinIsPast'
    <2>1. \A k \in LeaseIds : lease'[k].generation \in Nat
      BY DEF Safe, TypeOK, Lease
    <2>2. ASSUME NEW k \in LeaseIds
          PROVE  pin'[k].generation <= lease'[k].generation
      <3> DEFINE p == pin[k].generation
                 g == lease[k].generation
                 h == lease'[k].generation
      <3>1. p \in Nat \cup {-1} /\ g \in Nat /\ h \in Nat /\ p <= g
        BY <2>1, PinTypes DEF PinsKept, PinIsPast
      <3>2. pin'[k].generation = -1 \/ (pin'[k].generation = p /\ (h >= g \/ p = -1))
        BY <1>1, <3>1, PinTypes
      <3> QED
        BY <3>1, <3>2
    <2> QED
      BY <2>2 DEF PinIsPast
  <1>5. count' \in Nat
    BY DEF Safe, TypeOK
  <1>6. PinHasLease'
    BY <1>1, <1>5, PinTypes DEF PinsKept, PinHasLease
  <1>7. PinNeedsAffinity'
    BY <1>1 DEF PinsKept, PinNeedsAffinity
  <1>8. IdleHasNone'
    BY <1>2 DEF PinsKept, IdleHasNone
  <1> QED
    BY <1>3, <1>4, <1>6, <1>7, <1>8 DEF PinsKept

\* The end of a request clears, consumes or renews the pin.
LEMMA EndPins ==
    ASSUME Safe, Safe', PinsKept, NEW r \in Requests, NEW outcome, NEW prefix,
           NEW unstable, NEW pc, RequestEnds(r, outcome, prefix, unstable, pc)
    PROVE  PinsKept'
  <1>1. PICK l \in LeaseIds : l = req[r].lease
    BY DEF RequestEnds
  <1>2. /\ \A k \in LeaseIds \ {l} : pin'[k] = pin[k] /\ lease'[k] = lease[k]
        /\ \/ pin'[l] = ReconcileAffinity(pin[l], lease'[l], outcome, unstable)
           \/ r \in Unresolved /\ pin'[l] = pin[l]
        /\ lease'[l].generation = lease[l].generation
        /\ count' = count /\ l <= count
    BY <1>1, PinTypes DEF RequestEnds
  <1>3. /\ \A q \in Requests \ {r} : req'[q] = req[q]
        /\ req'[r].lease = l /\ req'[r].generation = req[r].generation
        /\ req'[r].pc # "idle"
    BY <1>1 DEF RequestEnds, Safe, TypeOK, Reqs
  <1>4. lease'[l] \in Lease /\ pin[l] \in Pins
    BY PinTypes DEF Safe, TypeOK
  \* A pin the end leaves alone is as open as it was.
  <1>5. ASSUME NEW k \in LeaseIds, LatestIsOpen(k), k # l \/ r \in Unresolved
        PROVE  LatestIsOpen(k)'
    <2>1. PICK q \in Requests : /\ req[q].lease = k
                                /\ req[q].generation = lease[k].generation
                                /\ req[q].pc = "sent" \/ q \in Unresolved
      BY <1>5 DEF LatestIsOpen
    <2>2. lease'[k].generation = lease[k].generation
      BY <1>2
    <2>3. CASE q = r
      BY <1>1, <1>3, <1>5, <2>1, <2>2, <2>3 DEF LatestIsOpen
    <2>4. CASE q # r
      BY <1>3, <2>1, <2>2, <2>4 DEF LatestIsOpen
    <2> QED
      BY <2>3, <2>4
  <1>6. \/ pin'[l] = NoPin \/ pin'[l].generation = lease'[l].generation
        \/ r \in Unresolved /\ pin'[l] = pin[l]
        \/ ~AffinityEnabled /\ pin'[l] = NoPin
    <2>1. CASE AffinityEnabled
      BY <1>2, <1>4, <2>1, ReconcileFacts DEF PinsKept, PinIsPast
    <2>2. CASE ~AffinityEnabled
      BY <1>2, <2>2 DEF PinsKept, PinNeedsAffinity, ReconcileAffinity
    <2> QED
      BY <2>1, <2>2
  <1>7. ASSUME NEW k \in LeaseIds
        PROVE  pin'[k] = NoPin \/ pin'[k].generation = lease'[k].generation \/ LatestIsOpen(k)'
    <2>1. CASE pin'[k] = pin[k] /\ (k # l \/ r \in Unresolved)
      BY <1>2, <1>5, <2>1 DEF PinsKept
    <2> QED
      BY <1>2, <1>6, <2>1
  <1>8. PinIsPast'
    <2>1. \A k \in LeaseIds : lease'[k].generation = lease[k].generation
      BY <1>2
    <2> QED
      BY <1>2, <1>6, <2>1, PinTypes DEF PinsKept, PinIsPast
  <1>9. PinHasLease' /\ IdleHasNone'
    BY <1>2, <1>3, PinTypes DEF PinsKept, PinHasLease, IdleHasNone
  <1>10. PinNeedsAffinity'
    BY <1>2 DEF PinsKept, PinNeedsAffinity, ReconcileAffinity
  <1> QED
    BY <1>7, <1>8, <1>9, <1>10 DEF PinsKept

\* A step of a request that leaves every pin, its lease's generation and the lease of
\* every request leaves the pins as open as they were.
LEMMA SamePins ==
    ASSUME PinsKept, NEW r \in Requests, req \in [Requests -> Reqs],
           req[r].pc # "sent", req'[r].pc # "idle",
           \A q \in Requests \ {r} : req'[q] = req[q],
           req'[r].lease = req[r].lease, req'[r].generation = req[r].generation,
           UNCHANGED <<count, pin>>,
           \A l \in LeaseIds : lease'[l].generation = lease[l].generation
    PROVE  PinsKept'
  <1>1. ASSUME NEW l \in LeaseIds, LatestIsOpen(l)
        PROVE  LatestIsOpen(l)'
    <2>1. PICK q \in Requests : /\ req[q].lease = l
                                /\ req[q].generation = lease[l].generation
                                /\ req[q].pc = "sent" \/ q \in Unresolved
      BY <1>1 DEF LatestIsOpen
    <2> QED
      BY <2>1 DEF LatestIsOpen
  <1> QED
    BY <1>1 DEF PinsKept, PinIsPast, PinHasLease, PinNeedsAffinity, IdleHasNone

\* A route pin waits for the very next request of its lease
\* (PinIsForNextRequest), for every interleaving of requests and responses,
\* overlapping ones and those whose end is cut short included, of which none breaks
\* while its body is read.
THEOREM PinServesNext ==
    ASSUME Abortable = {}
    PROVE  Spec => []PinIsForNextRequest
  <1>1. Init => PinsKept
    <2> SUFFICES ASSUME Init PROVE PinsKept
      OBVIOUS
    <2>1. /\ \A l \in LeaseIds : pin[l] = NoPin /\ lease[l].generation = 0
          /\ \A r \in Requests : req[r].lease = 0
      BY DEF Init, EmptyLease
    <2> QED
      BY <2>1 DEF PinsKept, PinIsPast, PinHasLease, PinNeedsAffinity, IdleHasNone,
                  NoPin, Never
  <1>2. Safe /\ Safe' /\ PinsKept /\ [Next]_vars => PinsKept'
    <2> SUFFICES ASSUME Safe, Safe', PinsKept, [Next]_vars PROVE PinsKept'
      OBVIOUS
    <2>1. CASE RequestStep
      <3>1. PICK r \in Requests :
              \/ \E s \in Sessions, f \in Fingerprints, l \in LeaseIds :
                    RequestBegins(r, s, f, l)
              \/ \E outcome \in Outcomes, prefix \in Prefixes \cup {0},
                    unstable \in BOOLEAN, pc \in {"ok", "failed", "streaming"} :
                    RequestEnds(r, outcome, prefix, unstable, pc)
              \/ StreamEnds(r) \/ BodyReadFails(r) \/ RequestUntracked(r)
        BY <2>1, RequestEffect
      <3>0. req \in [Requests -> Reqs]
        BY DEF Safe, TypeOK
      <3>2. CASE StreamEnds(r)
        <4>1. /\ UNCHANGED <<count, lease, pin>>
              /\ req[r].pc = "streaming" /\ req'[r].pc = "ok"
              /\ \A q \in Requests \ {r} : req'[q] = req[q]
              /\ req'[r].lease = req[r].lease /\ req'[r].generation = req[r].generation
          BY <3>0, <3>2 DEF StreamEnds, Reqs
        <4> QED
          BY <3>0, <4>1, SamePins
      <3>3. ~BodyReadFails(r)
        BY DEF BodyReadFails
      <3>4. CASE RequestUntracked(r)
        <4>1. /\ UNCHANGED <<count, pin>>
              /\ req[r].pc = "idle" /\ req'[r].pc = "untracked"
              /\ \A q \in Requests \ {r} : req'[q] = req[q]
              /\ req'[r].lease = req[r].lease /\ req'[r].generation = req[r].generation
          BY <3>0, <3>4 DEF RequestUntracked, Reqs
        <4>2. \A l \in LeaseIds : lease'[l].generation = lease[l].generation
          BY <3>4 DEF RequestUntracked, SameBooks
        <4> QED
          BY <3>0, <4>1, <4>2, SamePins
      <3> QED
        BY <3>1, <3>2, <3>3, <3>4, BeginPins, EndPins
    <2>2. CASE SchedulerStep \/ WarmStep \/ Advance \/ Stop \/ Stopped \/ UNCHANGED vars
      <3>1. /\ UNCHANGED <<count, req>>
            /\ \A l \in LeaseIds : Kept(l)
        BY <2>2, OtherEffect
      <3>2. \A l \in LeaseIds : LatestIsOpen(l) => LatestIsOpen(l)'
        BY <3>1 DEF Kept, LatestIsOpen
      <3> QED
        BY <3>1, <3>2 DEF Kept, PinsKept, PinIsPast, PinHasLease, PinNeedsAffinity,
                          IdleHasNone
    <2> QED
      BY <2>1, <2>2 DEF Next
  <1>3. PinsKept => PinIsForNextRequest
    BY DEF PinsKept, LatestIsOpen, PinIsForNextRequest
  <1> QED
    BY <1>1, <1>2, <1>3, Safety, PTL DEF Spec

-----------------------------------------------------------------------------
(* The request a warm replays *)

\* With one session the fingerprint table names every lease, each by its cache.
TableIsInverse ==
    /\ \A l \in 1..count : lease[l].session \in Sessions /\ byFp[lease[l].fp] = l
    /\ \A f \in Fingerprints : byFp[f] # 0 => lease[byFp[f]].fp = f
\* A body that is not a JSON object is never kept.
OpaqueIsNotKept == \A f \in Opaque : snapshot[f] = NoRequest
\* The snapshot of a cache is the latest request of its lease, and one that did
\* not fail, unless its end was cut short.  If its body broke, the lease is still
\* marked busy or is given up.
MayBeKept(r) ==
    \/ req[r].pc \in {"sent", "streaming", "ok", "aborted"}
    \/ req[r].pc = "failed" /\ r \in Unresolved
KeptIsLatest ==
    \A f \in Fingerprints, r \in Requests :
        snapshot[f] = r =>
            /\ byFp[f] # 0 /\ req[r].lease = byFp[f]
            /\ req[r].generation = lease[byFp[f]].generation
            /\ MayBeKept(r)
            /\ req[r].pc = "aborted" => \/ runtime[byFp[f]].realActive
                                        \/ lease[byFp[f]].state = "invalidated"
\* A request that waits is the one kept for its cache, if any is.
WaitingIsKept ==
    \A r \in Requests : req[r].pc = "sent"
        => snapshot[lease[req[r].lease].fp] \in {r, NoRequest}

SnapshotsKept == TableIsInverse /\ OpaqueIsNotKept /\ KeptIsLatest /\ WaitingIsKept

\* The types the snapshot proofs use.
LEMMA SnapshotTypes ==
    ASSUME Safe
    PROVE  /\ count \in Nat /\ 1..count \subseteq LeaseIds /\ LeaseIds \subseteq Nat
           /\ byFp \in [Fingerprints -> 0..count]
           /\ \A l \in 1..count : lease[l].fp \in Fingerprints
           /\ snapshot \in [Fingerprints -> Requests \cup {NoRequest}]
           /\ \A r \in Requests : req[r].pc \notin {"idle", "untracked"} => req[r].lease \in 1..count
           /\ NoRequest \notin Requests
           /\ \A l \in LeaseIds : lease[l].generation \in Nat
  <1>1. /\ count \in 0..MaxLeases /\ byFp \in [Fingerprints -> 0..MaxLeases]
        /\ snapshot \in [Fingerprints -> Requests \cup {NoRequest}]
        /\ lease \in [LeaseIds -> Lease]
    BY DEF Safe, TypeOK
  <1>2. \A L \in Lease : L.generation \in Nat
    BY DEF Lease
  <1>3. count \in Nat /\ 1..count \subseteq LeaseIds /\ LeaseIds \subseteq Nat
    BY <1>1, RelayAssumption DEF LeaseIds
  <1>4. /\ \A r \in Requests : req[r].pc \notin {"idle", "untracked"} => req[r].lease \in 1..count
        /\ \A f \in Fingerprints : byFp[f] \in 0..count
        /\ \A l \in 1..count : lease[l].fp \in Fingerprints
    BY <1>3 DEF Safe, RequestHasLease, TableHasLease, LeaseHasCache
  <1> QED
    BY <1>1, <1>2, <1>3, <1>4, LeasesAssumption

\* The start of a request replaces the snapshot of its cache.  Its session has
\* no request in flight, so none that waits loses its snapshot.
LEMMA BeginSnapshots ==
    ASSUME Overlap = FALSE, \A s, t \in Sessions : s = t,
           Safe, Safe', SnapshotsKept, NEW r \in Requests, NEW s \in Sessions,
           NEW f \in Fingerprints, NEW l \in LeaseIds, RequestBegins(r, s, f, l)
    PROVE  SnapshotsKept'
  <1>0. /\ LeaseIds \subseteq Nat /\ count \in Nat /\ l \in Nat
        /\ req \in [Requests -> Reqs] /\ \A k \in 1..count : k \in LeaseIds
    BY SnapshotTypes DEF Safe, TypeOK
  <1>1. /\ req'[r].pc = "sent" /\ req'[r].lease = l
        /\ req'[r].generation = lease'[l].generation /\ req[r].pc = "idle"
        /\ \A q \in Requests \ {r} : req'[q] = req[q]
    BY <1>0 DEF RequestBegins
  <1>2. /\ lease'[l].session = s
        /\ \A k \in LeaseIds \ {l} :
              /\ lease'[k].generation = lease[k].generation
              /\ lease'[k].session = lease[k].session /\ lease'[k].fp = lease[k].fp
              /\ \/ runtime'[k].realActive = runtime[k].realActive
                 \/ lease'[k].state = "invalidated"
              /\ lease[k].state = "invalidated" => lease'[k].state = "invalidated"
    BY DEF RequestBegins, SameBooks
  \* The lease is the table's: no other session could own the entry.
  <1>3. /\ byFp'[f] = l /\ lease'[l].fp = f /\ l \in 1..count'
        /\ \A g \in Fingerprints \ {f} : byFp'[g] = byFp[g]
        /\ \A k \in 1..count' : k # l => k \in 1..count
        /\ \A k \in 1..count : k # l => lease[k].fp # f
        /\ \A k \in 1..count : k # l => k \in LeaseIds \ {l}
    <2>1. /\ \A k \in 1..count : lease[k].session = s /\ byFp[lease[k].fp] = k
          /\ \A g \in Fingerprints : byFp[g] # 0 => lease[byFp[g]].fp = g
          /\ \A g \in Fingerprints : byFp[g] # 0 => byFp[g] \in 1..count
      BY SnapshotTypes DEF SnapshotsKept, TableIsInverse
    <2>2. CASE /\ l = byFp[f] /\ l \in 1..count /\ count' = count /\ byFp' = byFp
               /\ lease'[l].fp = lease[l].fp
      BY <1>0, <2>1, <2>2
    <2>3. CASE /\ l = count + 1 /\ count' = count + 1 /\ ~Found(s, f)
               /\ byFp' = [byFp EXCEPT ![f] = l] /\ lease'[l].fp = f
      <3>1. byFp[f] = 0
        BY <2>1, <2>3 DEF Found
      <3>2. byFp'[f] = l /\ \A g \in Fingerprints \ {f} : byFp'[g] = byFp[g]
        BY <2>3, SnapshotTypes
      <3> QED
        BY <1>0, <2>1, <2>3, <3>1, <3>2
    <2> QED
      BY <2>2, <2>3 DEF RequestBegins
  <1>4. /\ f \in Opaque => snapshot' = snapshot
        /\ f \notin Opaque => snapshot'[f] = r
        /\ \A g \in Fingerprints \ {f} : snapshot'[g] = snapshot[g]
    BY SnapshotTypes DEF RequestBegins
  <1>5. \A q \in Requests : req[q].pc # "sent"
    <2> SUFFICES ASSUME NEW q \in Requests, req[q].pc = "sent" PROVE FALSE
      OBVIOUS
    <2>1. lease[req[q].lease].session # s
      BY DEF RequestBegins, MaySend, InFlight
    <2>2. req[q].lease \in 1..count
      BY SnapshotTypes
    <2> QED
      BY <2>1, <2>2 DEF SnapshotsKept, TableIsInverse
  <1>6. TableIsInverse'
    <2>1. ASSUME NEW k \in 1..count'
          PROVE  lease'[k].session \in Sessions /\ byFp'[lease'[k].fp] = k
      BY <1>2, <1>3, <2>1, SnapshotTypes DEF SnapshotsKept, TableIsInverse
    <2>2. ASSUME NEW g \in Fingerprints, byFp'[g] # 0
          PROVE  lease'[byFp'[g]].fp = g
      <3>1. CASE g = f
        BY <1>3, <3>1
      <3>2. CASE g # f
        <4>1. byFp'[g] = byFp[g] /\ byFp[g] \in 1..count /\ lease[byFp[g]].fp = g
          BY <1>3, <2>2, <3>2, SnapshotTypes DEF SnapshotsKept, TableIsInverse
        <4>2. byFp[g] # l => byFp[g] \in LeaseIds \ {l}
          BY <1>3, <4>1
        <4>3. byFp[g] # l
          BY <1>3, <3>2, <4>1, SnapshotTypes DEF RequestBegins
        <4> QED
          BY <1>2, <4>1, <4>2, <4>3
      <3> QED
        BY <3>1, <3>2
    <2> QED
      BY <2>1, <2>2 DEF TableIsInverse
  <1>7. OpaqueIsNotKept'
    BY <1>4, RelayAssumption DEF SnapshotsKept, OpaqueIsNotKept
  <1>8. KeptIsLatest'
    <2> SUFFICES ASSUME NEW g \in Fingerprints, NEW q \in Requests, snapshot'[g] = q
                 PROVE  /\ byFp'[g] # 0 /\ req'[q].lease = byFp'[g]
                        /\ req'[q].generation = lease'[byFp'[g]].generation
                        /\ MayBeKept(q)'
                        /\ req'[q].pc = "aborted"
                              => \/ runtime'[byFp'[g]].realActive
                                 \/ lease'[byFp'[g]].state = "invalidated"
      BY DEF KeptIsLatest
    <2>1. CASE g = f
      <3>1. q = r
        BY <1>4, <2>1, SnapshotTypes DEF SnapshotsKept, OpaqueIsNotKept
      <3> QED
        BY <1>0, <1>1, <1>3, <2>1, <3>1 DEF MayBeKept
    <2>2. CASE g # f
      <3>1. /\ snapshot[g] = q /\ byFp'[g] = byFp[g]
        BY <1>3, <1>4, <2>2
      <3>2. /\ byFp[g] # 0 /\ req[q].lease = byFp[g]
            /\ req[q].generation = lease[byFp[g]].generation
            /\ MayBeKept(q)
            /\ req[q].pc = "aborted" => \/ runtime[byFp[g]].realActive
                                        \/ lease[byFp[g]].state = "invalidated"
            /\ lease[byFp[g]].fp = g
        BY <3>1 DEF SnapshotsKept, KeptIsLatest, TableIsInverse
      <3>3. req'[q] = req[q]
        BY <1>1, <3>2 DEF MayBeKept
      <3>4. byFp[g] \in 1..count /\ byFp[g] # l
        BY <1>3, <2>2, <3>1, <3>2, SnapshotTypes DEF RequestBegins
      <3>5. byFp[g] \in LeaseIds \ {l}
        BY <1>3, <3>4
      <3>6. MayBeKept(q)'
        BY <3>2, <3>3 DEF MayBeKept
      <3> QED
        BY <1>2, <3>1, <3>2, <3>3, <3>5, <3>6
    <2> QED
      BY <2>1, <2>2
  <1>9. WaitingIsKept'
    <2> SUFFICES ASSUME NEW q \in Requests, req'[q].pc = "sent"
                 PROVE  snapshot'[lease'[req'[q].lease].fp] \in {q, NoRequest}
      BY DEF WaitingIsKept
    <2>1. q = r
      BY <1>1, <1>5
    <2>2. snapshot'[f] \in {r, NoRequest}
      BY <1>4 DEF SnapshotsKept, OpaqueIsNotKept
    <2> QED
      BY <1>1, <1>3, <2>1, <2>2
  <1> QED
    BY <1>6, <1>7, <1>8, <1>9 DEF SnapshotsKept

\* The end of a request drops the snapshot of a failure and keeps its own.
LEMMA EndSnapshots ==
    ASSUME Unobserved = {},
           Safe, SnapshotsKept, NEW r \in Requests, NEW outcome, NEW prefix,
           NEW unstable, NEW pc, RequestEnds(r, outcome, prefix, unstable, pc)
    PROVE  SnapshotsKept'
  <1>0. /\ req \in [Requests -> Reqs]
        /\ \A k \in 1..count : k \in LeaseIds
    BY SnapshotTypes DEF Safe, TypeOK
  <1>1. PICK l \in LeaseIds : l = req[r].lease
    BY DEF RequestEnds
  <1>2. /\ l \in 1..count /\ lease[l].fp \in Fingerprints
    BY <1>1, SnapshotTypes DEF RequestEnds
  <1>3. /\ count' = count /\ byFp' = byFp /\ req[r].pc = "sent"
        /\ lease'[l].session = lease[l].session /\ lease'[l].fp = lease[l].fp
        /\ lease'[l].generation = lease[l].generation
        /\ \A k \in LeaseIds \ {l} : lease'[k] = lease[k] /\ runtime'[k] = runtime[k]
        /\ \/ snapshot' = SnapshotAfter(lease[l].fp, outcome)
           \/ r \in Unresolved /\ snapshot' = snapshot
        /\ outcome # "failed" => pc \in {"ok", "streaming"}
    BY <1>1 DEF RequestEnds
  <1>4. /\ req'[r].pc = pc /\ req'[r].lease = l /\ req'[r].generation = req[r].generation
        /\ \A q \in Requests \ {r} : req'[q] = req[q]
        /\ pc \in {"ok", "failed", "streaming"}
    BY <1>0, <1>1 DEF RequestEnds, Reqs
  <1>5. \A k \in LeaseIds : /\ lease'[k].session = lease[k].session
                            /\ lease'[k].fp = lease[k].fp
                            /\ lease'[k].generation = lease[k].generation
    BY <1>3
  <1>6. TableIsInverse'
    BY <1>0, <1>3, <1>5, SnapshotTypes DEF SnapshotsKept, TableIsInverse
  <1>7. /\ \A g \in Fingerprints : snapshot'[g] \in {snapshot[g], NoRequest}
        /\ \/ outcome = "failed" => snapshot'[lease[l].fp] = NoRequest
           \/ r \in Unresolved
    BY <1>2, <1>3, SnapshotTypes DEF SnapshotAfter
  <1>8. OpaqueIsNotKept'
    BY <1>7, RelayAssumption DEF SnapshotsKept, OpaqueIsNotKept
  <1>9. KeptIsLatest'
    <2> SUFFICES ASSUME NEW g \in Fingerprints, NEW q \in Requests, snapshot'[g] = q
                 PROVE  /\ byFp'[g] # 0 /\ req'[q].lease = byFp'[g]
                        /\ req'[q].generation = lease'[byFp'[g]].generation
                        /\ MayBeKept(q)'
                        /\ req'[q].pc = "aborted"
                              => \/ runtime'[byFp'[g]].realActive
                                 \/ lease'[byFp'[g]].state = "invalidated"
      BY DEF KeptIsLatest
    <2>1. snapshot[g] = q
      BY <1>7, SnapshotTypes
    <2>2. /\ byFp[g] # 0 /\ req[q].lease = byFp[g]
          /\ req[q].generation = lease[byFp[g]].generation
          /\ MayBeKept(q)
          /\ req[q].pc = "aborted" => \/ runtime[byFp[g]].realActive
                                      \/ lease[byFp[g]].state = "invalidated"
          /\ lease[byFp[g]].fp = g
      BY <2>1 DEF SnapshotsKept, KeptIsLatest, TableIsInverse
    <2>3. byFp[g] \in LeaseIds
      BY <1>0, <2>2, SnapshotTypes
    <2>4. CASE byFp[g] = l
      <3>1. lease[l].fp = g /\ snapshot[g] \in {r, NoRequest}
        BY <1>1, <1>3, <2>2, <2>4 DEF SnapshotsKept, WaitingIsKept
      <3>2. q = r
        BY <2>1, <3>1, SnapshotTypes
      <3>3. outcome # "failed" \/ r \in Unresolved
        BY <1>7, <3>1, SnapshotTypes
      <3>4. MayBeKept(q)' /\ req'[q].pc # "aborted"
        BY <1>3, <1>4, <3>2, <3>3 DEF MayBeKept
      <3> QED
        BY <1>3, <1>4, <2>2, <2>4, <3>2, <3>4
    <2>5. CASE byFp[g] # l
      <3>1. q # r /\ req'[q] = req[q]
        BY <1>1, <1>4, <2>2, <2>5
      <3>2. MayBeKept(q)'
        BY <2>2, <3>1 DEF MayBeKept
      <3> QED
        BY <1>3, <2>2, <2>3, <2>5, <3>1, <3>2
    <2> QED
      BY <2>4, <2>5
  <1>10. WaitingIsKept'
    <2> SUFFICES ASSUME NEW q \in Requests, req'[q].pc = "sent"
                 PROVE  snapshot'[lease'[req'[q].lease].fp] \in {q, NoRequest}
      BY DEF WaitingIsKept
    <2>1. q # r /\ req'[q] = req[q]
      BY <1>4
    <2>2. req[q].lease \in LeaseIds /\ lease[req[q].lease].fp \in Fingerprints
      BY <1>0, <2>1, SnapshotTypes
    <2> QED
      BY <1>5, <1>7, <2>1, <2>2 DEF SnapshotsKept, WaitingIsKept
  <1> QED
    BY <1>6, <1>8, <1>9, <1>10 DEF SnapshotsKept

\* The end of a stream, and a body that breaks: the lease stays marked busy.
LEMMA OverSnapshots ==
    ASSUME Safe, Serial, SnapshotsKept, NEW r \in Requests,
           StreamEnds(r) \/ BodyReadFails(r)
    PROVE  SnapshotsKept'
  <1>1. /\ UNCHANGED <<count, lease, runtime, byFp, snapshot>>
        /\ \A q \in Requests \ {r} : req'[q] = req[q]
        /\ req'[r].lease = req[r].lease /\ req'[r].generation = req[r].generation
        /\ \/ req[r].pc = "streaming" /\ req'[r].pc = "ok"
           \/ req[r].pc = "sent" /\ req'[r].pc = "aborted"
    BY DEF StreamEnds, BodyReadFails, Safe, TypeOK, Reqs
  <1>2. req[r].pc = "sent" => runtime[req[r].lease].realActive
    BY DEF Serial, BusyIsMarked
  <1>3. KeptIsLatest'
    <2> SUFFICES ASSUME NEW g \in Fingerprints, NEW q \in Requests, snapshot[g] = q
                 PROVE  /\ byFp[g] # 0 /\ req'[q].lease = byFp[g]
                        /\ req'[q].generation = lease[byFp[g]].generation
                        /\ MayBeKept(q)'
                        /\ req'[q].pc = "aborted"
                              => \/ runtime[byFp[g]].realActive
                                 \/ lease[byFp[g]].state = "invalidated"
      BY <1>1 DEF KeptIsLatest
    <2>1. MayBeKept(q)'
      BY <1>1 DEF SnapshotsKept, KeptIsLatest, MayBeKept
    <2> QED
      BY <1>1, <1>2, <2>1 DEF SnapshotsKept, KeptIsLatest
  <1>4. WaitingIsKept'
    BY <1>1 DEF SnapshotsKept, WaitingIsKept
  <1> QED
    BY <1>1, <1>3, <1>4 DEF SnapshotsKept, TableIsInverse, OpaqueIsNotKept

\* A request without a lease keeps nothing, and gives up leases at most.
LEMMA UntrackedSnapshots ==
    ASSUME Safe, SnapshotsKept, NEW r \in Requests, RequestUntracked(r)
    PROVE  SnapshotsKept'
  <1>1. /\ UNCHANGED <<count, byFp, snapshot>>
        /\ \A q \in Requests \ {r} : req'[q] = req[q]
        /\ req[r].pc = "idle" /\ req'[r].pc = "untracked"
    BY DEF RequestUntracked, Safe, TypeOK, Reqs
  <1>2. /\ \A l \in 1..count : l \in LeaseIds
        /\ \A f \in Fingerprints : byFp[f] # 0 => byFp[f] \in LeaseIds
        /\ \A q \in Requests : req[q].pc = "sent" => req[q].lease \in LeaseIds
    BY SnapshotTypes
  <1>3. ASSUME NEW l \in LeaseIds
        PROVE  /\ lease'[l].generation = lease[l].generation
               /\ lease'[l].session = lease[l].session /\ lease'[l].fp = lease[l].fp
               /\ lease[l].state = "invalidated" => lease'[l].state = "invalidated"
               /\ runtime'[l].realActive = runtime[l].realActive
                     \/ lease'[l].state = "invalidated"
    BY DEF RequestUntracked, SameBooks
  <1>4. TableIsInverse'
    BY <1>1, <1>2, <1>3 DEF SnapshotsKept, TableIsInverse
  <1>5. OpaqueIsNotKept'
    BY <1>1 DEF SnapshotsKept, OpaqueIsNotKept
  <1>6. KeptIsLatest'
    <2> SUFFICES ASSUME NEW g \in Fingerprints, NEW q \in Requests, snapshot[g] = q
                 PROVE  /\ byFp[g] # 0 /\ req'[q].lease = byFp[g]
                        /\ req'[q].generation = lease'[byFp[g]].generation
                        /\ MayBeKept(q)'
                        /\ req'[q].pc = "aborted"
                              => \/ runtime'[byFp[g]].realActive
                                 \/ lease'[byFp[g]].state = "invalidated"
      BY <1>1 DEF KeptIsLatest
    <2>1. q # r /\ req'[q] = req[q]
      BY <1>1 DEF SnapshotsKept, KeptIsLatest, MayBeKept
    <2>2. MayBeKept(q)'
      BY <2>1 DEF SnapshotsKept, KeptIsLatest, MayBeKept
    <2> QED
      BY <1>2, <1>3, <2>1, <2>2 DEF SnapshotsKept, KeptIsLatest
  <1>7. WaitingIsKept'
    BY <1>1, <1>2, <1>3 DEF SnapshotsKept, WaitingIsKept
  <1> QED
    BY <1>4, <1>5, <1>6, <1>7 DEF SnapshotsKept

\* The scheduler and time leave the snapshots to the requests.
LEMMA OtherSnapshots ==
    ASSUME Safe, SnapshotsKept,
           SchedulerStep \/ WarmStep \/ Advance \/ Stop \/ Stopped \/ UNCHANGED vars
    PROVE  SnapshotsKept'
  <1>1. /\ UNCHANGED <<count, byFp, snapshot, req>>
        /\ \A l \in LeaseIds : Kept(l)
    BY OtherEffect
  <1>2. /\ \A l \in 1..count : l \in LeaseIds
        /\ \A f \in Fingerprints : byFp[f] # 0 => byFp[f] \in LeaseIds
        /\ \A r \in Requests : req[r].pc = "sent" => req[r].lease \in LeaseIds
    BY SnapshotTypes
  <1>3. TableIsInverse'
    BY <1>1, <1>2 DEF Kept, SnapshotsKept, TableIsInverse
  <1>4. OpaqueIsNotKept'
    BY <1>1 DEF SnapshotsKept, OpaqueIsNotKept
  <1>5. KeptIsLatest'
    BY <1>1, <1>2 DEF Kept, SnapshotsKept, KeptIsLatest, MayBeKept
  <1>6. WaitingIsKept'
    BY <1>1, <1>2 DEF Kept, SnapshotsKept, WaitingIsKept
  <1> QED
    BY <1>3, <1>4, <1>5, <1>6 DEF SnapshotsKept

\* A warm replays the lease's latest request, one that succeeded or whose end was
\* cut short (WarmReplaysLatest): for one session that waits for its answers,
\* whatever caches it moves between, whichever responses fail or break and whichever
\* lookups of the TTL raise, as long as every response is observed.
THEOREM ReplaysLatest ==
    ASSUME Overlap = FALSE, Unobserved = {}, \A s, t \in Sessions : s = t
    PROVE  Spec => WarmReplaysLatest
  <1>1. Init => SnapshotsKept
    BY LeasesAssumption, RelayAssumption
       DEF Init, SnapshotsKept, TableIsInverse, OpaqueIsNotKept, KeptIsLatest, WaitingIsKept
  <1>2. Safe /\ Safe' /\ Serial /\ SnapshotsKept /\ [Next]_vars => SnapshotsKept'
    <2> SUFFICES ASSUME Safe, Safe', Serial, SnapshotsKept, [Next]_vars
                 PROVE  SnapshotsKept'
      OBVIOUS
    <2>1. CASE RequestStep
      BY <2>1, RequestEffect, BeginSnapshots, EndSnapshots, OverSnapshots,
         UntrackedSnapshots
    <2> QED
      BY <2>1, OtherSnapshots DEF Next
  <1>3. Safe /\ Serial /\ SnapshotsKept /\ [Next]_vars =>
           [\A l \in LeaseIds :
               Sends(l) => LET q == req[sched'.snap]
                           IN  /\ q.lease = l
                               /\ q.generation = lease[l].generation
                               /\ \/ q.pc \in {"ok", "streaming"}
                                  \/ q.pc = "failed" /\ sched'.snap \in Unresolved]_vars
    <2> SUFFICES ASSUME Safe, Serial, SnapshotsKept, Next, NEW l \in LeaseIds, Sends(l)
                 PROVE  LET q == req[sched'.snap]
                        IN  /\ q.lease = l
                            /\ q.generation = lease[l].generation
                            /\ \/ q.pc \in {"ok", "streaming"}
                               \/ q.pc = "failed" /\ sched'.snap \in Unresolved
      OBVIOUS
    <2>1. SendWarm(l)
      BY SendsIsSendWarm
    <2>2. /\ l \in 1..count /\ sched'.snap = snapshot[lease[l].fp]
          /\ snapshot[lease[l].fp] # NoRequest
          /\ ~runtime[l].realActive /\ lease[l].state # "invalidated"
      <3>1. l <= sched.upto /\ sched.upto <= count /\ sched.upto \in Nat /\ count \in Nat
        BY <2>1, SendEffect, SnapshotTypes DEF Safe, WarmHasLease, TypeOK, Scheds
      <3>2. l \in Nat /\ l >= 1
        BY DEF LeaseIds
      <3>3. /\ snapshot[lease[l].fp] # NoRequest
            /\ ~runtime[l].realActive /\ lease[l].state # "invalidated"
        BY <2>1 DEF SendWarm, WarmDue, Skips, Refused
      <3> QED
        BY <2>1, <3>1, <3>2, <3>3, SendEffect
    <2>3. PICK f \in Fingerprints : f = lease[l].fp /\ byFp[f] = l
      BY <2>2, SnapshotTypes DEF SnapshotsKept, TableIsInverse
    <2>4. PICK r \in Requests : r = snapshot[f]
      BY <2>2, <2>3, SnapshotTypes
    <2>5. /\ req[r].lease = l /\ req[r].generation = lease[l].generation
          /\ MayBeKept(r) /\ req[r].pc # "aborted"
      BY <2>2, <2>3, <2>4 DEF SnapshotsKept, KeptIsLatest
    <2>6. req[r].pc # "sent"
      BY <2>2, <2>5 DEF Serial, BusyIsMarked
    <2> QED
      BY <2>2, <2>3, <2>4, <2>5, <2>6 DEF MayBeKept
  <1> QED
    BY <1>1, <1>2, <1>3, SerialInductive, Safety, PTL DEF Spec, WarmReplaysLatest

=============================================================================
