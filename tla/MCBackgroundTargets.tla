------------------------ MODULE MCBackgroundTargets ------------------------
(***************************************************************************)
(* Constant values for model checking BackgroundTargets.                   *)
(***************************************************************************)
EXTENDS BackgroundTargets

\* Two commands of one signature, the first of a long family and the second of a
\* fast one, and a line of which nothing persistable remains.
MCSafeWords == {"test"}
MCFast == {<<"npm", "run">>}
MCLong == {<<"npm">>}
MCCommands ==
    {<<Word("npm"), Word("test"), Word("a"), Flag("-v")>>,
     <<Word("npm"), Word("run"), Flag("-v"), Dash, Word("test"), Operator, Word("ls")>>,
     <<Operator>>}

\* No timeout, or one that is long exactly at the threshold.
MCTimeouts == {-1, Threshold}

Symmetry == Permutations(Calls) \cup Permutations(Sessions)

=============================================================================
