------------------------------ MODULE MCLateness ------------------------------
(***************************************************************************)
(* What lateness means, in small instances of four modules: the deadline   *)
(* that is worked out for a task, the alert when it has passed, and the    *)
(* mark the task gets for it in the scores, and the lists, page by page,   *)
(* of what is to be scored.  The models share no variables: a behaviour    *)
(* belongs to one of them, the part chosen at its start, and the others    *)
(* stand still.                                                            *)
(***************************************************************************)
EXTENDS MCTaskBlocks, Scoring, Deadlines, Lists

VARIABLE part

\* Two weekends, every hour of the day, and turnarounds of up to three days.
MCStarts      == 0 .. 191
MCTurnarounds == 1 .. 20
MCDueDates    == {1, 2}

\* The calculation that the other parts leave alone.
NoCalculation ==
  sum = [start |-> 0, hours |-> 0, current |-> 0, remaining |-> 0, result |-> 0]

LatenessInit ==
  /\ part \in {"deadlines", "alerts", "scores", "lists"}
  /\ Init /\ ScoringInit /\ ListsInit
  /\ part # "scores" => \A t \in Jobs : job[t].due = 1
  /\ IF part = "deadlines" THEN DeadlinesInit ELSE NoCalculation

LatenessNext ==
  /\ UNCHANGED part
  /\ \/ part = "deadlines" /\ DeadlinesNext /\ UNCHANGED <<vars, scoringVars, listVars>>
     \/ part = "alerts" /\ Next /\ UNCHANGED <<scoringVars, sum, listVars>>
     \/ part = "scores" /\ ScoringNext /\ UNCHANGED <<vars, sum, listVars>>
     \/ part = "lists" /\ ListsNext /\ UNCHANGED <<vars, scoringVars, sum>>
     \/ part # "alerts" /\ UNCHANGED <<vars, scoringVars, sum, listVars>>   \* these come to an end

LatenessSpec == LatenessInit /\ [][LatenessNext]_<<part, vars, scoringVars, sum, listVars>>

\* A state in which an overtaken nightly run has committed is checked, but nothing
\* that follows it.
UntilFirstRace == ~nightRaced

LatenessSymmetry == Permutations(Sessions) \cup Permutations(Holders)

=============================================================================
