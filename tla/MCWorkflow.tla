----------------------------- MODULE MCWorkflow -----------------------------
(* Small instances of Workflow: a template of two steps to which one more   *)
(* can be added, one case at a time on it, two requests at a time.          *)
EXTENDS Workflow, TLC

CONSTANTS draft, review

MCFirstSteps == draft :> 1 @@ review :> 2

Symmetry == Permutations(Cases) \cup Permutations(Sessions)

=============================================================================
