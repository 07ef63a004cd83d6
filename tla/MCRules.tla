------------------------------ MODULE MCRules ------------------------------
(***************************************************************************)
(* What a company lays down about its work, in small instances: the        *)
(* templates its cases run on, its KPIs and the pages that show them, its  *)
(* objectives and its Business DNA.  These models share no variables: a    *)
(* behaviour belongs to one of them, the part chosen at its start, and the *)
(* others stand still, so that the state spaces add up and do not          *)
(* multiply.                                                               *)
(***************************************************************************)
EXTENDS MCWorkflow, Kpis, Objectives, BusinessDna, Standings

CONSTANTS d1, d2, g1, g2, g3     \* Standings: two departments and three KPIs

VARIABLE part

rulesVars == <<part, vars, kpiVars, okrVars, dnaVars, readVars>>

\* Weights in halves of a hundredth, of which four are the whole; one is negative.
MCWeights == {-1, 1, 3}
MCRepeats == {1}

\* What is saved in the Business DNA: a field, two of them, or one and the name.
MCForms ==
  {"vision" :> "a", [vision |-> "b", mission |-> "a"],
   [mission |-> "b", name |-> "a"], "name" :> "b"}

\* The KPIs of a department and one of another, and two people with some tasks in the
\* first quarter.
MCTeamOf  == (g1 :> d1) @@ (g2 :> d1) @@ (g3 :> d2)
SomeTasks == [on |-> 1, late |-> 1, missed |-> 0]
LateTasks == [on |-> 0, late |-> 1, missed |-> 1]
MCTallies == {[on |-> 1, late |-> 2, missed |-> 1]}
MCFirstCounts ==
  {<<>>, (<<1, 1, g2>> :> LateTasks) @@ (<<1, 2, g1>> :> SomeTasks),
   (<<1, 1, g1>> :> SomeTasks) @@ (<<1, 1, g2>> :> LateTasks) @@ (<<1, 2, g1>> :> SomeTasks)}

\* The pages choose among first rows, the first KPI being there and weighing
\* something; elsewhere there are none.
RulesInit ==
  /\ part \in {"cases", "kpis", "okrs", "dna", "pages"}
  /\ Init /\ KpiInit /\ OkrInit /\ DnaInit /\ StandingsInit
  /\ part = "pages" => goal[g1] # NoData /\ goal[g1].weight > 0
  /\ part # "pages" => counts = <<>> /\ \A g \in Goals : goal[g] = NoData

RulesNext ==
  /\ UNCHANGED part
  /\ \/ part = "cases" /\ Next /\ UNCHANGED <<kpiVars, okrVars, dnaVars, readVars>>
     \/ part = "kpis" /\ KpiNext /\ UNCHANGED <<vars, okrVars, dnaVars, readVars>>
     \/ part = "okrs" /\ OkrNext /\ UNCHANGED <<vars, kpiVars, dnaVars, readVars>>
     \/ part = "dna" /\ DnaNext /\ UNCHANGED <<vars, kpiVars, okrVars, readVars>>
     \/ part = "pages" /\ StandingsNext /\ UNCHANGED <<vars, kpiVars, okrVars, dnaVars>>
     \/ part # "cases" /\ UNCHANGED rulesVars                     \* the others come to an end

RulesSpec == RulesInit /\ [][RulesNext]_rulesVars

\* A state in which an overtaken request has committed is checked, but nothing that
\* follows it: what holds only without overlap has nothing left to say there.
UntilFirstRace == ~(kpiRaced \/ okrRaced)

\* The requests of all parts share their names, and so do ids of some tables.
RulesSymmetry == Permutations(Sessions) \cup Permutations(Kpi) \cup Permutations(Figures)

\* The tables have their types.
RulesTypeOK == TypeOK /\ KpiTypeOK /\ OkrTypeOK /\ DnaTypeOK

=============================================================================
