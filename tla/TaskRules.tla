----------------------------- MODULE TaskRules -----------------------------
(***************************************************************************)
(* Who may do what to a task, and when a task is overdue: the questions    *)
(* TaskService asks of a caller and of a task row before it writes         *)
(* anything (backend/app/modules/tasks/service.py and overdue.py).         *)
(*                                                                         *)
(* The tasks of this specification belong to one department.  A person is  *)
(* a login and an employee record at once; Employees are the people with   *)
(* an employee record, the only ones a task can be assigned to.            *)
(***************************************************************************)
EXTENDS Integers

CONSTANTS
  People,        \* every login of the organization
  Employees,     \* the people with an employee record
  Hr,            \* the HR administrators
  Executives,    \* the business executives: they see every task
  Heads,         \* the named head of the department (at most one person)
  Managers,      \* everyone whose role is "manager", in whatever department
  DeptStaff,     \* people who work in the tasks' department
  BossOf,        \* each person's reporting manager
  Tasks,         \* the department's tasks, in order of creation
  Creator,       \* who created each task (Nobody: a workflow did)
  Nobody,        \* no person
  Null           \* an empty column

ASSUME PeopleAssumption ==
  /\ Employees \subseteq People
  /\ Hr \subseteq People
  /\ Executives \subseteq People
  /\ Heads \subseteq Employees
  /\ Managers \subseteq People
  /\ DeptStaff \subseteq Employees
  /\ BossOf \in [People -> People \cup {Nobody}]
  /\ Tasks \subseteq Nat
  /\ Creator \in [Tasks -> People \cup {Nobody}]
  /\ Nobody \notin People
  /\ Null \notin Int

(* "absent" stands for a row not inserted yet.  The code never writes the  *)
(* status in_progress, so "open" is all of OPEN_STATUSES.                  *)
Statuses     == {"absent", "open", "completed", "cancelled"}
IsOpen(row)  == row.status = "open"
IsOver(row)  == row.status \in {"completed", "cancelled"}

Time         == Nat
TimeOrNull   == Time \cup {Null}

-----------------------------------------------------------------------------
(* What a caller may see.  The "assigned to me" clause, and only that one,  *)
(* needs an open attendance record: "never shown before clock-in".          *)
Allows(p, t, row, clockedIn) ==
  \/ p \in Hr \cup Executives
  \/ clockedIn /\ row.assignee = p
  \/ Creator[t] = p
  \/ p \in Heads \cup (Managers \cap DeptStaff)

(* Create: HR, any manager, and the head.  Someone outside the department  *)
(* cannot name the assignee; the head receives the task (Heads is empty or *)
(* one person).                                                            *)
CanCreate(p)    == p \in Hr \cup Managers \cup Heads
Outsider(p)     == p \notin Hr \cup Heads \cup DeptStaff
DepartmentHead  == IF Heads = {} THEN Nobody ELSE CHOOSE h \in Heads : TRUE

(* Edit and cancel. *)
CanManage(p, t) == p \in Hr \cup Heads \/ Creator[t] = p

(* Reassign: a creator only when the task's department is their own. *)
CanReassign(p, t) == p \in Hr \cup Heads \/ (Creator[t] = p /\ p \in DeptStaff)

(* Complete and unblock. *)
CanFinish(p, row) == p = row.assignee \/ p \in Hr \cup Heads

(* Approve or reject a block recorded by "by": never one's own. *)
CanReview(p, by) == p # by /\ (p \in Hr \cup Heads \/ BossOf[by] = p)

-----------------------------------------------------------------------------
(* due_at never moves; approved blocked time is added on top of it. *)
RealDeadline(row) == row.due + row.credit

(* Strictly after the real deadline, not finished, not blocked right now. *)
IsOverdue(row, at) ==
  /\ row.due # Null
  /\ IsOpen(row)
  /\ row.blocked = Null
  /\ RealDeadline(row) < at

=============================================================================
