------------------------------- MODULE MCDuties -------------------------------
(***************************************************************************)
(* What the background jobs owe, in small instances of two modules: the    *)
(* task scan hands over and announces, the attendance job ends forgotten   *)
(* records.  The models share no variables (the scan's question whether    *)
(* somebody has clocked in is a free choice in TaskBlocks): a behaviour    *)
(* belongs to one of them, the part chosen at its start, and the other     *)
(* stands still.                                                           *)
(***************************************************************************)
EXTENDS MCTaskBlocks, Attendance

VARIABLE part

dutiesVars == <<part, vars, attendanceVars>>

DutiesInit == part \in {"tasks", "attendance"} /\ Init /\ AttendanceInit

DutiesNext ==
  /\ UNCHANGED part
  /\ \/ part = "tasks" /\ Next /\ UNCHANGED attendanceVars
     \/ part = "attendance" /\ AttendanceNext /\ UNCHANGED vars

\* A part has the fairness of its module.  Where the other part stands still it asks
\* for nothing, except that the scan is always ready to start: of that, for the tasks
\* only.
DutiesSpec ==
  /\ DutiesInit /\ [][DutiesNext]_dutiesVars
  /\ StepFairness /\ AttendanceFairness
  /\ SF_vars(part = "tasks" /\ \E s \in Sessions : StartScan(s))

=============================================================================
