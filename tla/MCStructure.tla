----------------------------- MODULE MCStructure -----------------------------
(***************************************************************************)
(* Small instances of the modules about the organization's own records:    *)
(* its people, its chart with the suggestions about it, its blueprint and  *)
(* how a batch of that comes about.                                        *)
(* These models share no variables.  A behaviour belongs to one of them,   *)
(* the part chosen at its start; the others stand still, so that the state *)
(* spaces add up and do not multiply.                                      *)
(***************************************************************************)
EXTENDS Staff, Suggestions, MCBlueprint, Plan

CONSTANTS own, pat, hire1, hire2,    \* Staff: the owner, another person, two records
          hq, annex, headName, otherName   \* Hierarchy: departments and their names

MCFolk      == {own, pat}
MCHires     == {hire1, hire2}
MCWorkEmail == [e \in MCHires |-> pat]

\* Answers of the model: positions only, which may report in a circle of three;
\* departments and positions; departments that share the capital; an objective with a
\* key result and KPIs; more KPIs and a clean-up.  The company has a department with a
\* position and room for KPIs, and one with no room.
Answer(departments, positions, objectives, kpis, cleanups) ==
  [departments |-> departments, positions |-> positions, objectives |-> objectives,
   kpis |-> kpis, cleanups |-> cleanups]
MCShapes == {Answer(0, 3, 0, 0, 0), Answer(1, 2, 0, 0, 0), Answer(3, 0, 0, 0, 0),
             Answer(1, 0, 2, 1, 0), Answer(1, 0, 0, 3, 1)}
MCPlaceOf == "EP1" :> "ED1"
MCRoomOf  == ("ED1" :> 4000) @@ ("ED2" :> 0)

VARIABLE part

(***************************************************************************)
(* The chart has three parts, each with an initial state that the chart    *)
(* itself reaches, and bounds of its own:                                  *)
(*   positions: headquarters came from an approved suggestion, another one *)
(*     was rejected, and neither id is left; all positions are to come;    *)
(*   reviews: two positions have been deleted, one is to come; all         *)
(*     suggestions are to come;                                            *)
(*   names: all positions have been deleted, headquarters came from an     *)
(*     approved suggestion; a second department and one suggestion are to  *)
(*     come.                                                               *)
(***************************************************************************)
ChartParts == {"positions", "reviews", "names"}
Parts      == {"staff", "blueprint", "plan"} \cup ChartParts

OldPosition == [dept |-> hq, boss |-> Void, live |-> FALSE]
OldSuggestion(x, status) == [target |-> x, status |-> status, made |-> 0, reviewed |-> 0]

DeletedAtFirst ==
  CASE part = "positions" -> {}
    [] part = "reviews"   -> Seats \ {CHOOSE p \in Seats : TRUE}
    [] OTHER              -> Seats

ChartPartInit ==
  /\ dept = [d \in Depts |-> IF d = hq THEN [name |-> headName, live |-> TRUE] ELSE Void]
  /\ seat = [p \in Seats |-> IF p \in DeletedAtFirst THEN OldPosition ELSE Void]
  /\ \E i \in Suggestions :
       /\ effects = [j \in Suggestions |-> IF part # "reviews" /\ j = i THEN 1 ELSE 0]
       /\ suggestion = [j \in Suggestions |->
            IF part # "reviews" /\ j = i THEN OldSuggestion(headName, "approved")
            ELSE IF part = "positions" THEN OldSuggestion(hq, "rejected")
            ELSE Void]
  /\ post = [w \in Workers |-> Void] /\ clerk = [c \in Clerks |-> Void]
  /\ quarter = 0 /\ chartRaced = FALSE /\ late = {}

Init ==
  /\ part \in Parts
  /\ StaffInit /\ BlueprintInit /\ PlanInit
  /\ part # "plan" => shape = Answer(0, 3, 0, 0, 0)
  /\ IF part \in ChartParts THEN ChartPartInit ELSE ChartInit

Next ==
  /\ UNCHANGED part
  /\ \/ /\ part = "staff" /\ StaffNext
        /\ UNCHANGED <<chartVars, blueprintVars, planVars>>
     \/ /\ part \in ChartParts /\ (ChartNext \/ SuggestionsNext)
        /\ UNCHANGED <<staffVars, blueprintVars, planVars>>
     \/ /\ part = "blueprint" /\ BlueprintNext
        /\ UNCHANGED <<staffVars, chartVars, planVars>>
     \/ /\ part = "plan" /\ PlanNext
        /\ UNCHANGED <<staffVars, chartVars, blueprintVars>>

Spec == Init /\ [][Next]_<<part, staffVars, chartVars, blueprintVars, planVars>>

\* A suggestion of the other name, made or about to be made.
MeansOtherName ==
  \/ \E i \in Suggestions : suggestion[i] # Void /\ suggestion[i].target = otherName
  \/ \E c \in Clerks : ClerkDoes(c, "generate") /\ clerk[c].todo.x = otherName
  \/ \E c \in Clerks : ClerkDoes(c, "insert") /\ clerk[c].todo.x = otherName

\* Bounds of the parts.  Of the chart's: one department, two departments with two positions,
\* or no new employees; and one request at a time where all the properties are about what
\* does not overlap.
WithinPart ==
  /\ part = "positions" => Cardinality({c \in Clerks : clerk[c] # Void}) <= 1
  /\ part \in {"positions", "reviews"} => dept[hq].name = headName /\ ~MeansOtherName
  /\ part = "positions" =>
       dept[annex] = Void \/ (dept[annex].name = otherName /\ \E p \in Seats : seat[p] = Void)
  /\ part = "reviews" => dept[annex] = Void
  /\ part \in {"reviews", "names"} => \A w \in Workers : post[w] = Void
  /\ BlueprintBounds

\* A state in which an overtaken request has committed is checked, but nothing that
\* follows it: what holds only without overlap has nothing left to say there.
UntilFirstRace == ~(staffRaced \/ chartRaced \/ blueprintRaced)

\* The requests of all parts share their names, and so do some other ids, which keeps
\* the permutations few.
Symmetry == Permutations(Desks) \cup Permutations(Invites) \cup Permutations(MCHires)

\* The tables have their types.
StructureTypeOK ==
  /\ part \in Parts
  /\ StaffTypeOK /\ ChartTypeOK /\ BlueprintTypeOK

=============================================================================
