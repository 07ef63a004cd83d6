---------------------------- MODULE MCTaskBlocks ----------------------------
(***************************************************************************)
(* Instances of TaskBlocks for TLC: ann and ben do the department's work,  *)
(* ann reports to ben, and hal is the HR administrator, who creates the    *)
(* tasks unless a workflow does.                                           *)
(***************************************************************************)
EXTENDS TaskBlocks, TLC

CONSTANTS ann, ben, hal, Count

MCPeople    == {ann, ben, hal}
MCEmployees == {ann, ben}
MCJustAnn   == {ann}
MCHr        == {hal}
MCNone      == {}
MCBossOf    == (ann :> ben) @@ (ben :> Nobody) @@ (hal :> Nobody)
MCTasks     == 1 .. Count
MCByPerson  == [t \in MCTasks |-> hal]
MCByWorkflow == [t \in MCTasks |-> Nobody]

MCDueLater    == {2}
MCDueSoon     == {0, 1}
MCDueNow      == {0}
MCDueOrNone   == {0, Null}

Symmetry == Permutations(Blocks) \cup Permutations(Sessions)

=============================================================================
