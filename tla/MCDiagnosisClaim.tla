-------------------------- MODULE MCDiagnosisClaim --------------------------
(* Small instances of DiagnosisClaim: several launches for one failure,    *)
(* and launches for failures of different builds and stages.               *)
EXTENDS DiagnosisClaim, TLC

Symmetry == Permutations(Agent)

=============================================================================
