------------------------- MODULE MCExecutionHistory -------------------------
(* A runtime of a capability that takes the default configuration, and     *)
(* one of a capability that needs its own.                                 *)
EXTENDS ExecutionHistory, TLC

CONSTANTS s1, s2, r1, w1, k, o

Sessions == {s1, s2}
Runtimes == {r1, w1}
Profiles == {"read", "write"}
ProfileOfRuntime == [r \in Runtimes |-> IF r = w1 THEN "write" ELSE "read"]
TaskOfProfile == [p \in Profiles |-> IF p = "write" THEN "tests" ELSE "review"]
FitsBoth == {<<k, "read">>, <<k, "write">>}
OptionTasks == [x \in {o} |-> "review"]

(* Bound: a run is rated beside one edit of its first revision; verdicts   *)
(* and what revisions hold have no row in common.                          *)
RatedEarly == runs # <<>> => Len(revisions) <= 1

Symmetry == Permutations(Sessions) \cup Permutations(Finding)

=============================================================================
