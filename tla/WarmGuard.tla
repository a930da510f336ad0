------------------------------ MODULE WarmGuard ------------------------------
(***************************************************************************)
(* What warming promises, without saying how: warms go out one at a time,  *)
(* never against a lease whose own request waits for the provider, and a   *)
(* lease whose last Limit warms verified nothing gets no more until one of *)
(* its requests brings cache evidence.  LeaseRelay implements this         *)
(* specification (LeaseRelay!Guard) through the scheduler, the busy flags, *)
(* the schedule records and the circuit breaker.                           *)
(***************************************************************************)
EXTENDS Naturals

CONSTANTS
    Ids,        \* the leases
    Limit       \* unverified warms in a row a lease may get

VARIABLES
    waiting,    \* leases with a request at the provider
    warmed,     \* leases with a warm at the provider
    misses      \* unverified warms since the last evidence

vars == <<waiting, warmed, misses>>

Init ==
    /\ waiting = {} /\ warmed = {}
    /\ misses = [l \in Ids |-> 0]

\* A request leaves; it does not care whether a warm of its lease is under way.
Request(l) ==
    /\ l \notin waiting
    /\ waiting' = waiting \cup {l}
    /\ UNCHANGED <<warmed, misses>>

\* It is answered, with cache evidence or without, or breaks.
Answer(l) ==
    /\ l \in waiting
    /\ waiting' = waiting \ {l}
    /\ \/ misses' = [misses EXCEPT ![l] = 0]
       \/ UNCHANGED misses
    /\ UNCHANGED warmed

Warm(l) ==
    /\ warmed = {} /\ l \notin waiting /\ misses[l] < Limit
    /\ warmed' = {l}
    /\ UNCHANGED <<waiting, misses>>

\* The warm verifies the cache, or does not, or is cancelled with the relay.
Warmed(l) ==
    /\ l \in warmed
    /\ warmed' = {}
    /\ \/ misses' = [misses EXCEPT ![l] = 0]
       \/ misses' = [misses EXCEPT ![l] = @ + 1]
       \/ UNCHANGED misses
    /\ UNCHANGED waiting

Next == \E l \in Ids : Request(l) \/ Answer(l) \/ Warm(l) \/ Warmed(l)

Spec == Init /\ [][Next]_vars

=============================================================================
