------------------------------ MODULE CaseLife ------------------------------
(***************************************************************************)
(* What a workflow case promises the people who follow it: it is started   *)
(* on one step, sits on exactly one step at a time, never comes back to a  *)
(* step it has left, and ends once, completed or cancelled.                *)
(* Workflow.tla shows that the code keeps this promise.                    *)
(***************************************************************************)
CONSTANTS
  Cases, Steps,
  None            \* no step

VARIABLES
  status,         \* each case: absent, in_progress, completed or cancelled
  at,             \* the step the case is waiting on
  past            \* the steps it has left behind

vars == <<status, at, past>>

Init ==
  /\ status = [c \in Cases |-> "absent"]
  /\ at = [c \in Cases |-> None]
  /\ past = [c \in Cases |-> {}]

Become(c, newStatus, step) ==
  /\ status' = [status EXCEPT ![c] = newStatus]
  /\ at' = [at EXCEPT ![c] = step]

Start(c, step) ==
  /\ status[c] = "absent"
  /\ Become(c, "in_progress", step)
  /\ UNCHANGED past

LeaveBehind(c) ==
  /\ status[c] = "in_progress"
  /\ past' = [past EXCEPT ![c] = @ \cup {at[c]}]

MoveOn(c, step) ==
  /\ LeaveBehind(c)
  /\ step \notin past[c] \cup {at[c]}
  /\ Become(c, "in_progress", step)

End(c, outcome) ==
  /\ LeaveBehind(c)
  /\ Become(c, outcome, None)

Next ==
  \E c \in Cases :
    \/ \E step \in Steps : Start(c, step) \/ MoveOn(c, step)
    \/ \E outcome \in {"completed", "cancelled"} : End(c, outcome)

Spec == Init /\ [][Next]_vars

=============================================================================
