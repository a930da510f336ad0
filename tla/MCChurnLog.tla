----------------------------- MODULE MCChurnLog -----------------------------
(***************************************************************************)
(* Constant values for model checking ChurnLog.                            *)
(***************************************************************************)
EXTENDS ChurnLog

\* A plain piece, two clock times and a UUID, which the boundary misses when a
\* clock time comes after it.
MCKind == [a |-> "plain", t1 |-> "clock", t2 |-> "clock", id |-> "uuid"]
MCPatterns == <<"clock", "uuid">>

Base == [system |-> <<"a", "t1">>, blocks |-> FALSE, tools |-> <<"x", "y">>,
         messages |-> <<"u1", "u2">>, model |-> "m1", route |-> "r1", scope |-> "k1"]

\* What may change between two requests: the tail, a value that leaked into the
\* prefix, the order of the tools, the suffix, the scope, the route and the history.
MCRequests ==
    {Base,
     [Base EXCEPT !.messages = <<"u1", "u3">>],
     [Base EXCEPT !.system = <<"id", "t1">>, !.messages = <<"u1", "u3">>],
     [Base EXCEPT !.messages = <<>>, !.route = "r2"],
     [Base EXCEPT !.system = <<"a", "t2">>],
     [Base EXCEPT !.system = <<"a", "t2">>, !.scope = "k2"],
     [Base EXCEPT !.tools = <<"y", "x">>, !.messages = <<"u1", "u2", "u3">>]}
MCAnonymous == {Base}

\* Two requests whose system prompts are given as blocks.
BlockRequests ==
    {[Base EXCEPT !.blocks = TRUE], [Base EXCEPT !.blocks = TRUE, !.system = <<"a", "t2">>]}

Symmetry == Permutations(Sessions)

=============================================================================
