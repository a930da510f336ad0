-------------------------- MODULE WarmGuardProofs --------------------------
(***************************************************************************)
(* LeaseRelay implements WarmGuard, for every value of the constants, as   *)
(* long as no session overlaps its requests.  Safe and Serial hold in      *)
(* every state (LeaseRelayProofs); under them each step of the relay is,   *)
(* through the refinement mapping of LeaseRelay!Guard, a step of WarmGuard *)
(* or leaves its variables alone.                                          *)
(***************************************************************************)
EXTENDS LeaseRelayProofs

\* The refinement mapping.
Waiting == {l \in LeaseIds : \E r \in Requests : req[r].pc = "sent" /\ req[r].lease = l}
Warmed == {l \in LeaseIds : sched.pc = "warming" /\ sched.at = l}
Misses == [l \in LeaseIds |-> runtime[l].misses]

\* The variables of the abstract specification do not move.
GuardStutters == Waiting' = Waiting /\ Warmed' = Warmed /\ Misses' = Misses

\* The misses stay where every lease keeps its own.
LEMMA MissesStay ==
    ASSUME \A l \in LeaseIds : runtime'[l].misses = runtime[l].misses
    PROVE  Misses' = Misses
  BY DEF Misses

\* Initial states map to initial states.
LEMMA InitGuard == Init => Guard!Init
  <1> SUFFICES ASSUME Init PROVE Guard!Init
    OBVIOUS
  <1>1. Waiting = {} /\ Warmed = {}
    BY DEF Init, Waiting, Warmed
  <1>2. Misses = [l \in LeaseIds |-> 0]
    BY DEF Init, Misses, NewRuntime
  <1> QED
    BY <1>1, <1>2 DEF Guard!Init, Waiting, Warmed, Misses

\* on_request_start is Request: the session had no request in flight, so none
\* waits on the lease.
LEMMA BeginsGuard ==
    ASSUME Safe, Overlap = FALSE, NEW r \in Requests, NEW s \in Sessions,
           NEW f \in Fingerprints, NEW l \in LeaseIds, RequestBegins(r, s, f, l)
    PROVE  Guard!Request(l)
  <1>1. /\ req[r].pc = "idle" /\ MaySend(s) /\ sched' = sched
        /\ req' = [req EXCEPT ![r] = [pc |-> "sent", lease |-> l,
                                      generation |-> lease'[l].generation]]
        /\ \A k \in LeaseIds : runtime'[k].misses = runtime[k].misses
        /\ lease[l].session = s \/ l = count + 1
    BY DEF RequestBegins
  <1>2. l \notin Waiting
    <2> SUFFICES ASSUME NEW q \in Requests, req[q].pc = "sent", req[q].lease = l
                 PROVE  FALSE
      BY DEF Waiting
    <2>1. l \in 1..count /\ count \in Nat
      BY DEF Safe, RequestHasLease, TypeOK
    <2>2. InFlight(q)
      BY DEF InFlight
    <2> QED
      BY <1>1, <2>1, <2>2 DEF MaySend
  <1>3. Waiting' = Waiting \cup {l}
    <2>1. /\ req'[r].pc = "sent" /\ req'[r].lease = l
          /\ \A q \in Requests : q # r => req'[q] = req[q]
      BY <1>1 DEF Safe, TypeOK
    <2> QED
      BY <1>1, <2>1 DEF Waiting
  <1>4. Warmed' = Warmed /\ Misses' = Misses
    BY <1>1, MissesStay DEF Warmed
  <1> QED
    BY <1>2, <1>3, <1>4 DEF Guard!Request, Waiting, Warmed, Misses

\* A request that stops waiting was the only one of its lease to wait.
LEMMA LeavesWaiting ==
    ASSUME Safe, Serial, NEW r \in Requests, req[r].pc = "sent",
           NEW pc \in ReqStates, pc # "sent", req' = [req EXCEPT ![r].pc = pc]
    PROVE  /\ req[r].lease \in Waiting
           /\ Waiting' = Waiting \ {req[r].lease}
  <1>0. req[r].lease \in LeaseIds /\ req \in [Requests -> Reqs]
    BY RequestLease DEF Safe, TypeOK
  <1>1. \A q \in Requests : q # r /\ req[q].pc = "sent" => req[q].lease # req[r].lease
    BY DEF Serial, OneAtATime, InFlight
  <1>2. /\ req'[r].pc # "sent"
        /\ \A q \in Requests : q # r => req'[q] = req[q]
    BY <1>0 DEF Reqs
  <1>3. Waiting' = Waiting \ {req[r].lease}
    BY <1>1, <1>2 DEF Waiting
  <1> QED
    BY <1>0, <1>3 DEF Waiting

\* on_request_end is Answer, with evidence or without.
LEMMA EndsGuard ==
    ASSUME Safe, Serial, NEW r \in Requests, NEW outcome, NEW prefix, NEW unstable, NEW pc,
           RequestEnds(r, outcome, prefix, unstable, pc)
    PROVE  \E l \in LeaseIds : Guard!Answer(l)
  <1>0. PICK l \in LeaseIds : l = req[r].lease
    BY DEF RequestEnds
  <1>1. /\ req[r].pc = "sent" /\ sched' = sched
        /\ pc \in {"ok", "failed", "streaming"} /\ req' = [req EXCEPT ![r].pc = pc]
        /\ runtime'[l].misses = runtime[l].misses \/ runtime'[l].misses = 0
        /\ \A k \in LeaseIds \ {l} : runtime'[k] = runtime[k]
    BY <1>0 DEF RequestEnds
  <1>2. pc \in ReqStates /\ pc # "sent"
    BY <1>1 DEF ReqStates
  <1>3. l \in Waiting /\ Waiting' = Waiting \ {l}
    BY <1>0, <1>1, <1>2, LeavesWaiting
  <1>4. Warmed' = Warmed
    BY <1>1 DEF Warmed
  <1>5. Misses' = [Misses EXCEPT ![l] = 0] \/ Misses' = Misses
    BY <1>1 DEF Misses
  <1>6. Guard!Answer(l)
    BY <1>3, <1>4, <1>5 DEF Guard!Answer, Waiting, Warmed, Misses
  <1> QED
    BY <1>6

\* The end of a stream is invisible, since the lease stopped waiting at its
\* headers; a body that breaks is an Answer without evidence.
LEMMA OverGuard ==
    ASSUME Safe, Serial, NEW r \in Requests, StreamEnds(r) \/ BodyReadFails(r)
    PROVE  GuardStutters \/ \E l \in LeaseIds : Guard!Answer(l)
  <1>1. UNCHANGED <<runtime, sched>>
    BY DEF StreamEnds, BodyReadFails
  <1>2. Warmed' = Warmed /\ Misses' = Misses
    BY <1>1 DEF Warmed, Misses
  <1>3. CASE StreamEnds(r)
    <2>1. req[r].pc = "streaming" /\ req' = [req EXCEPT ![r].pc = "ok"]
      BY <1>3 DEF StreamEnds
    <2>2. /\ req'[r].pc = "ok" /\ \A q \in Requests : q # r => req'[q] = req[q]
      BY <2>1 DEF Safe, TypeOK, Reqs
    <2>3. Waiting' = Waiting
      BY <2>1, <2>2 DEF Waiting
    <2> QED
      BY <1>2, <2>3 DEF GuardStutters
  <1>4. CASE BodyReadFails(r)
    <2>1. req[r].pc = "sent" /\ req' = [req EXCEPT ![r].pc = "aborted"]
      BY <1>4 DEF BodyReadFails
    <2>2. "aborted" \in ReqStates
      BY DEF ReqStates
    <2>3. req[r].lease \in Waiting /\ Waiting' = Waiting \ {req[r].lease}
      BY <2>1, <2>2, LeavesWaiting
    <2> PICK l \in LeaseIds : l = req[r].lease
      BY <2>1, RequestLease
    <2>4. Guard!Answer(l)
      BY <1>2, <2>3 DEF Guard!Answer, Waiting, Warmed, Misses
    <2> QED
      BY <2>4
  <1> QED
    BY <1>3, <1>4

\* A request that is forwarded without a lease is invisible: nobody waits on a lease
\* for it.
LEMMA UntrackedGuard ==
    ASSUME Safe, NEW r \in Requests, RequestUntracked(r)
    PROVE  GuardStutters
  <1>1. /\ sched' = sched /\ req[r].pc = "idle"
        /\ req'[r].pc = "untracked" /\ \A q \in Requests : q # r => req'[q] = req[q]
    BY DEF RequestUntracked, Safe, TypeOK, Reqs
  <1>2. \A l \in LeaseIds : runtime'[l].misses = runtime[l].misses
    BY DEF RequestUntracked
  <1>3. Waiting' = Waiting /\ Warmed' = Warmed
    BY <1>1 DEF Waiting, Warmed
  <1> QED
    BY <1>2, <1>3, MissesStay DEF GuardStutters

\* A warm is sent for a lease that is not skipped: it is not busy, so nothing of
\* it waits, and its circuit is closed, so it has fewer than two misses.
LEMMA SendGuard ==
    ASSUME Safe, Serial, NEW l \in LeaseIds, SendWarm(l)
    PROVE  Guard!Warm(l)
  <1>1. /\ sched.pc = "tick" /\ sched'.pc = "warming" /\ sched'.at = l /\ req' = req
        /\ \A k \in LeaseIds : runtime'[k].misses = runtime[k].misses
    BY SendEffect DEF Untouched
  <1>2. ~runtime[l].realActive /\ ~runtime[l].circuitOpen
    BY DEF SendWarm, WarmDue, Skips
  <1>3. Warmed = {} /\ Warmed' = {l}
    BY <1>1 DEF Warmed
  <1>4. l \notin Waiting /\ Waiting' = Waiting
    BY <1>1, <1>2 DEF Waiting, Serial, BusyIsMarked
  <1>5. Misses[l] < 2
    <2>1. runtime[l].misses \in Nat /\ runtime[l].misses <= 2 /\ runtime[l].misses # 2
      BY <1>2 DEF Safe, BreakerBound, TypeOK, Runtime
    <2> QED
      BY <2>1 DEF Misses
  <1>6. Misses' = Misses
    BY <1>1, MissesStay
  <1> QED
    BY <1>3, <1>4, <1>5, <1>6 DEF Guard!Warm, Waiting, Warmed, Misses

\* The result of a warm is Warmed.
LEMMA ReturnGuard ==
    ASSUME Safe, NEW res \in WarmResults, WarmReturns(res)
    PROVE  \E k \in LeaseIds : Guard!Warmed(k)
  <1>0. PICK k \in LeaseIds : k = sched.at
    BY ReturnEffect
  <1>1. /\ sched.pc = "warming" /\ sched'.pc = "tick" /\ req' = req
        /\ \A l \in LeaseIds \ {k} : runtime'[l].misses = runtime[l].misses
        /\ runtime'[k].misses = 0 \/ runtime'[k].misses = runtime[k].misses + 1
    BY <1>0, ReturnEffect DEF Untouched
  <1>2. k \in Warmed /\ Warmed' = {} /\ Waiting' = Waiting
    BY <1>0, <1>1 DEF Warmed, Waiting
  <1>3. Misses' = [Misses EXCEPT ![k] = 0] \/ Misses' = [Misses EXCEPT ![k] = @ + 1]
    BY <1>1 DEF Misses
  <1>4. Guard!Warmed(k)
    BY <1>2, <1>3 DEF Guard!Warmed, Waiting, Warmed, Misses
  <1> QED
    BY <1>4

\* A stop ends the warm in flight, if there is one.
LEMMA StopGuard ==
    ASSUME Safe, Stop
    PROVE  GuardStutters \/ \E l \in LeaseIds : Guard!Warmed(l)
  <1>1. /\ sched'.pc = "stopped" /\ req' = req
        /\ \A l \in LeaseIds : runtime'[l].misses = runtime[l].misses
    BY StopEffect DEF Untouched
  <1>2. Waiting' = Waiting /\ Misses' = Misses /\ Warmed' = {}
    BY <1>1, MissesStay DEF Waiting, Warmed
  <1>3. CASE sched.pc = "warming"
    <2>1. PICK k \in LeaseIds : k = sched.at /\ k \in Warmed
      BY <1>3 DEF Safe, WarmHasLease, Warmed
    <2>2. Guard!Warmed(k)
      BY <1>2, <2>1 DEF Guard!Warmed, Waiting, Warmed, Misses
    <2> QED
      BY <2>2
  <1>4. CASE sched.pc # "warming"
    <2>1. Warmed = {}
      BY <1>4 DEF Warmed
    <2> QED
      BY <1>2, <2>1 DEF GuardStutters
  <1> QED
    BY <1>3, <1>4

\* Every other step leaves the abstract variables alone.
LEMMA QuietGuard ==
    ASSUME Safe,
           \/ TickBegins \/ TickEnds \/ Advance \/ Stopped \/ UNCHANGED vars
           \/ \E k \in LeaseIds : \/ EvaluateSkip(k) \/ EvaluateSchedule(k)
                                  \/ EvaluateEconomicStop(k) \/ EvaluateRefuse(k)
                                  \/ EvaluateDecline(k)
    PROVE  GuardStutters
  <1>1. /\ req' = req
        /\ \A l \in LeaseIds : runtime'[l].misses = runtime[l].misses
        /\ \/ sched'.pc = sched.pc /\ sched'.at = sched.at
           \/ sched'.pc # "warming" /\ sched.pc # "warming"
    <2>1. CASE TickBegins \/ TickEnds
      BY <2>1, TickEffect DEF Untouched
    <2>2. CASE Advance
      BY <2>2, AdvanceEffect DEF Untouched
    <2>3. CASE Stopped \/ UNCHANGED vars
      BY <2>3 DEF Stopped, vars
    <2>4. ASSUME NEW k \in LeaseIds,
                 \/ EvaluateSkip(k) \/ EvaluateSchedule(k) \/ EvaluateEconomicStop(k)
                 \/ EvaluateRefuse(k) \/ EvaluateDecline(k)
          PROVE  /\ req' = req
                 /\ \A l \in LeaseIds : runtime'[l].misses = runtime[l].misses
                 /\ sched'.pc # "warming" /\ sched.pc # "warming"
      BY <2>4, EvaluateEffect DEF Untouched
    <2> QED
      BY <2>1, <2>2, <2>3, <2>4
  <1>2. Waiting' = Waiting /\ Warmed' = Warmed
    BY <1>1 DEF Waiting, Warmed
  <1> QED
    BY <1>1, <1>2, MissesStay DEF GuardStutters

\* Every step of the relay is a step of the guard, or none.
LEMMA NextGuard ==
    ASSUME Overlap = FALSE, Safe, Serial, [Next]_vars
    PROVE  [Guard!Next]_(Guard!vars)
  <1>1. SUFFICES GuardStutters \/ Guard!Next
    BY DEF GuardStutters, Waiting, Warmed, Misses, Guard!vars
  <1>2. CASE RequestStep
    <2>1. PICK r \in Requests :
              \/ \E s \in Sessions, f \in Fingerprints, l \in LeaseIds :
                    RequestBegins(r, s, f, l)
              \/ \E outcome \in Outcomes, prefix \in Prefixes \cup {0},
                    unstable \in BOOLEAN, pc \in {"ok", "failed", "streaming"} :
                    RequestEnds(r, outcome, prefix, unstable, pc)
              \/ StreamEnds(r) \/ BodyReadFails(r) \/ RequestUntracked(r)
      BY <1>2, RequestEffect
    <2>2. CASE \E s \in Sessions, f \in Fingerprints, l \in LeaseIds :
                    RequestBegins(r, s, f, l)
      BY <2>2, BeginsGuard DEF Guard!Next
    <2>3. CASE \E outcome \in Outcomes, prefix \in Prefixes \cup {0},
                    unstable \in BOOLEAN, pc \in {"ok", "failed", "streaming"} :
                    RequestEnds(r, outcome, prefix, unstable, pc)
      BY <2>3, EndsGuard DEF Guard!Next
    <2>4. CASE StreamEnds(r) \/ BodyReadFails(r)
      BY <2>4, OverGuard DEF Guard!Next
    <2>5. CASE RequestUntracked(r)
      BY <2>5, UntrackedGuard
    <2> QED
      BY <2>1, <2>2, <2>3, <2>4, <2>5
  <1>3. CASE SchedulerStep
    BY <1>3, QuietGuard, SendGuard DEF SchedulerStep, EvaluateLease, Guard!Next
  <1>4. CASE WarmStep
    BY <1>4, ReturnGuard DEF WarmStep, Guard!Next
  <1>5. CASE Stop
    BY <1>5, StopGuard DEF Guard!Next
  <1>6. CASE Advance \/ Stopped \/ UNCHANGED vars
    BY <1>6, QuietGuard
  <1> QED
    BY <1>2, <1>3, <1>4, <1>5, <1>6 DEF Next

\* The relay implements the contract of warming (ImplementsGuard) for every
\* number of sessions, caches, leases and requests: warms go out one at a time,
\* never against a lease with a request at the provider, and never a third time
\* after two that verified nothing.
THEOREM RelayImplementsGuard ==
    ASSUME Overlap = FALSE
    PROVE  Spec => ImplementsGuard
  <1>1. Safe /\ Serial /\ [Next]_vars => [Guard!Next]_(Guard!vars)
    BY NextGuard
  <1> QED
    BY <1>1, InitGuard, SerialInductive, Safety, PTL DEF Spec, ImplementsGuard, Guard!Spec

=============================================================================
