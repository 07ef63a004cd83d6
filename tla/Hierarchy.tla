------------------------------ MODULE Hierarchy ------------------------------
(***************************************************************************)
(* The chart of one organization: departments, positions, who reports to   *)
(* whom, and what may be deleted.  Rows are soft-deleted, so nothing but   *)
(* the service's own checks keeps a reference from outliving its target.   *)
(*                                                                         *)
(* A check reads committed rows and locks none; the write and the commit   *)
(* follow.  Between the two steps any other request may commit, and chartRaced  *)
(* remembers that this happened to a request that then committed too.  The *)
(* reads of one check are one step: another commit between two of them     *)
(* falls between check and commit as well.                                 *)
(*                                                                         *)
(* Suggestions.tla adds the AI suggestions, whose rows block a deletion.   *)
(***************************************************************************)
EXTENDS Integers, FiniteSets, Requests

CONSTANTS
  Depts, Seats, Suggestions,   \* the pools of department, position, suggestion ids
  Workers,                     \* employees
  Names,                       \* department names, normalized
  MaxHierarchyDepth,           \* _MAX_HIERARCHY_DEPTH
  Clerks,                      \* concurrent requests and generation runs
  Void                         \* null, a row not created yet, an idle clerk

VARIABLES
  dept, seat, suggestion,      \* the tables
  post,                        \* employees.position_id
  clerk,                       \* what each request has read and is about to write
  quarter,                     \* the fiscal quarter of the present moment
  chartRaced,                       \* history: an overtaken request has committed
  late,                        \* history: attached to a row already deleted
  effects                      \* history: how often a suggestion was applied

chartVars == <<dept, seat, suggestion, post, clerk, quarter, chartRaced, late, effects>>
chartHistory == <<quarter, effects>>

Targets == Seats \cup Depts \cup Names

DeptRow == [name : Names, live : BOOLEAN]
SeatRow == [dept : Depts, boss : Seats \cup {Void}, live : BOOLEAN]
SuggestionRow ==
  [target : Targets, status : {"pending", "approved", "edited", "rejected"},
   made : Nat, reviewed : Nat \cup {Void}]

ASSUME ChartAssumption ==
  /\ Void \notin Seats \cup SuggestionRow \cup DeptRow \cup SeatRow
  /\ Seats \cap (Depts \cup Names \cup Workers) = {} /\ Depts \cap Names = {}
  /\ MaxHierarchyDepth \in Nat

ChartTypeOK ==
  /\ dept \in [Depts -> DeptRow \cup {Void}]
  /\ seat \in [Seats -> SeatRow \cup {Void}]
  /\ suggestion \in [Suggestions -> SuggestionRow \cup {Void}]
  /\ post \in [Workers -> Seats \cup {Void}]
  /\ quarter \in Nat
  /\ chartRaced \in BOOLEAN
  /\ late \subseteq Seats \cup Workers
  /\ effects \in [Suggestions -> Nat]

ChartInit ==
  /\ dept = [d \in Depts |-> Void]
  /\ seat = [p \in Seats |-> Void]
  /\ suggestion = [i \in Suggestions |-> Void]
  /\ post = [w \in Workers |-> Void]
  /\ clerk = [c \in Clerks |-> Void]
  /\ quarter = 0 /\ chartRaced = FALSE /\ late = {}
  /\ effects = [i \in Suggestions |-> 0]

(***************************************************************************)
(* The statements of the repositories                                      *)
(***************************************************************************)
\* get_department_by_id and get_position_by_id find a row that is not deleted.
LiveDept(d) == dept[d] # Void /\ dept[d].live
LiveSeat(p) == seat[p] # Void /\ seat[p].live

\* The unique index on the names of departments that are not deleted.
NameIsFree(n) == \A d \in Depts : LiveDept(d) => dept[d].name # n

\* What the two delete checks count.
PositionsIn(d) == {p \in Seats : LiveSeat(p) /\ seat[p].dept = d}
ReportsTo(p)   == {q \in Seats : LiveSeat(q) /\ seat[q].boss = p}
HoldersOf(p)   == {w \in Workers : post[w] = p}
HasPendingSuggestion(x) ==
  \E i \in Suggestions :
    suggestion[i] # Void /\ suggestion[i].target = x /\ suggestion[i].status = "pending"

(***************************************************************************)
(* Requests                                                                *)
(***************************************************************************)
ClerkReady(c, r) ==
  /\ clerk[c] = Void
  /\ clerk' = Checked(clerk, c, r)
  /\ UNCHANGED <<dept, seat, suggestion, post, chartRaced, late, chartHistory>>

ClerkDoes(c, op) == clerk[c] # Void /\ clerk[c].todo.op = op

\* The commit of c, which overtakes every request that has already checked.
Settles(c) ==
  /\ clerk' = Committed(clerk, c, Void)
  /\ chartRaced' = (chartRaced \/ Overtaken(clerk, c, Void))

\* A request of a single statement, which nobody overtakes, commits.
SettlesAtOnce ==
  /\ clerk' = Committed(clerk, Void, Void)
  /\ UNCHANGED chartRaced

\* A refusal after the check, a lost connection: everything is rolled back.
AbandonClerk(c) ==
  /\ clerk[c] # Void
  /\ clerk' = [clerk EXCEPT ![c] = Void]
  /\ UNCHANGED <<dept, seat, suggestion, post, chartRaced, late, chartHistory>>

(***************************************************************************)
(* Departments                                                             *)
(***************************************************************************)
\* create_department inserts inside a savepoint: a name in use is refused.
Created(d, n) ==
  /\ dept[d] = Void
  /\ NameIsFree(n)
  /\ dept' = [dept EXCEPT ![d] = [name |-> n, live |-> TRUE]]

CreateDepartment(d, n) ==
  /\ Created(d, n)
  /\ SettlesAtOnce
  /\ UNCHANGED <<seat, suggestion, post, late, chartHistory>>

\* update_department, as far as the name goes; other fields carry no property here
\* and the head is in Staff.tla.
RenameDepartment(d, n) ==
  /\ LiveDept(d) /\ dept[d].name # n
  /\ NameIsFree(n)
  /\ dept' = [dept EXCEPT ![d].name = n]
  /\ SettlesAtOnce
  /\ UNCHANGED <<seat, suggestion, post, late, chartHistory>>

\* delete_department: refused while positions or a pending suggestion refer to it.
BeginDeleteDepartment(c, d) ==
  /\ LiveDept(d)
  /\ PositionsIn(d) = {}
  /\ ~HasPendingSuggestion(d)
  /\ ClerkReady(c, [op |-> "delete department", d |-> d])

FinishDeleteDepartment(c) ==
  /\ ClerkDoes(c, "delete department")
  /\ dept' = [dept EXCEPT ![clerk[c].todo.d].live = FALSE]
  /\ Settles(c)
  /\ UNCHANGED <<seat, suggestion, post, late, chartHistory>>

(***************************************************************************)
(* Positions                                                               *)
(***************************************************************************)
\* The position n steps up the chart from q, as far as the walk can follow it.
Above(q) ==
  LET up[n \in 0 .. MaxHierarchyDepth] ==
        IF n = 0 THEN q
        ELSE IF up[n - 1] = Void \/ ~LiveSeat(up[n - 1]) THEN Void
        ELSE seat[up[n - 1]].boss
  IN  {up[n] : n \in 1 .. MaxHierarchyDepth}

\* Mutant of MayReportTo: only the boss's own boss is looked at.
MayReportToOneStep(p, q) == LiveSeat(q) /\ q # p /\ seat[q].boss # p

\* _validate_reports_to: the new boss exists, is not p itself, and nobody on the
\* way up from the boss reports to p.
MayReportTo(p, q) == LiveSeat(q) /\ q # p /\ p \notin Above(q)

\* create_position checks the boss only; the department need not be a live one.
BeginCreatePosition(c, p, d, q) ==
  /\ seat[p] = Void /\ dept[d] # Void
  /\ q \in {b \in Seats : LiveSeat(b)} \cup {Void}
  /\ ClerkReady(c, [op |-> "create position", p |-> p, d |-> d, q |-> q])

FinishCreatePosition(c) ==
  /\ ClerkDoes(c, "create position")
  /\ LET r == clerk[c].todo IN
       /\ seat[r.p] = Void
       /\ seat' = [seat EXCEPT ![r.p] = [dept |-> r.d, boss |-> r.q, live |-> TRUE]]
       /\ late' = IF LiveDept(r.d) THEN late ELSE late \cup {r.p}
  /\ Settles(c)
  /\ UNCHANGED <<dept, suggestion, post, chartHistory>>

\* update_position, to another boss or none, to another department, or both.  A boss is
\* looked at if it is given; a department need not be a live one.
BeginMovePosition(c, p, d, q) ==
  /\ LiveSeat(p)
  /\ dept[d] # Void
  /\ q \in {b \in Seats : MayReportTo(p, b)} \cup {seat[p].boss, Void}
  /\ <<d, q>> # <<seat[p].dept, seat[p].boss>>
  /\ ClerkReady(c, [op |-> "move position", p |-> p, d |-> d, q |-> q,
                    transfers |-> d # seat[p].dept, reports |-> q # seat[p].boss])

\* Only what differs from the row as it was loaded is written.
FinishMovePosition(c) ==
  /\ ClerkDoes(c, "move position")
  /\ LET r == clerk[c].todo IN
       /\ seat' = [seat EXCEPT ![r.p].dept = IF r.transfers THEN r.d ELSE @,
                               ![r.p].boss = IF r.reports THEN r.q ELSE @]
       /\ late' = IF ~r.transfers THEN late
                  ELSE IF LiveDept(r.d) THEN late \ {r.p} ELSE late \cup {r.p}
  /\ Settles(c)
  /\ UNCHANGED <<dept, suggestion, post, chartHistory>>

\* Mutant of MayDeletePosition: the positions that report to it are not counted.
MayDeletePositionAnyway(p) ==
  /\ LiveSeat(p)
  /\ HoldersOf(p) = {}
  /\ ~HasPendingSuggestion(p)

\* delete_position: refused while employees, reports or a pending suggestion refer
\* to it.
MayDeletePosition(p) ==
  /\ LiveSeat(p)
  /\ HoldersOf(p) = {}
  /\ ReportsTo(p) = {}
  /\ ~HasPendingSuggestion(p)

BeginDeletePosition(c, p) ==
  MayDeletePosition(p) /\ ClerkReady(c, [op |-> "delete position", p |-> p])

FinishDeletePosition(c) ==
  /\ ClerkDoes(c, "delete position")
  /\ seat' = [seat EXCEPT ![clerk[c].todo.p].live = FALSE]
  /\ Settles(c)
  /\ UNCHANGED <<dept, suggestion, post, late, chartHistory>>

\* create_employee and update_employee take any position that was ever created.
AssignWorker(w, p) ==
  /\ seat[p] # Void /\ post[w] # p
  /\ post' = [post EXCEPT ![w] = p]
  /\ late' = IF LiveSeat(p) THEN late \ {w} ELSE late \cup {w}
  /\ SettlesAtOnce
  /\ UNCHANGED <<dept, seat, suggestion, chartHistory>>

ChartNext ==
  \/ \E c \in Clerks :
       \/ AbandonClerk(c)
       \/ \E d \in Depts : BeginDeleteDepartment(c, d)
       \/ \E p \in Seats, d \in Depts, q \in Seats \cup {Void} :
            BeginCreatePosition(c, p, d, q) \/ BeginMovePosition(c, p, d, q)
       \/ \E p \in Seats : BeginDeletePosition(c, p)
       \/ FinishDeleteDepartment(c) \/ FinishCreatePosition(c)
       \/ FinishMovePosition(c) \/ FinishDeletePosition(c)
  \/ \E d \in Depts, n \in Names : CreateDepartment(d, n) \/ RenameDepartment(d, n)
  \/ \E w \in Workers, p \in Seats : AssignWorker(w, p)

(***************************************************************************)
(* What the chart promises                                                 *)
(***************************************************************************)
\* The chart has no reporting loop unless two requests overlapped: whatever moves,
\* creations and deletions follow one another, no set of positions reports only to
\* itself (_validate_reports_to walks up one chain, as it was when it looked).
NoReportingLoops ==
  ~chartRaced => \A R \in SUBSET {p \in Seats : LiveSeat(p)} :
              R # {} => \E p \in R : seat[p].boss \notin R

\* "Blocked while referenced": unless requests overlapped, nothing that is in use
\* was deleted.  A live position has a live boss and a live department, an employee
\* a live position, a pending suggestion a live target, except where the reference
\* was made after the deletion, which create_position and update_position allow of a
\* department, and create_employee and update_employee of a position.
NothingDangles ==
  ~chartRaced =>
    /\ \A p \in Seats : LiveSeat(p) =>
         /\ seat[p].boss # Void => LiveSeat(seat[p].boss)
         /\ p \notin late => LiveDept(seat[p].dept)
    /\ \A w \in Workers : post[w] # Void /\ w \notin late => LiveSeat(post[w])
    /\ \A x \in Depts : HasPendingSuggestion(x) => LiveDept(x)
    /\ \A x \in Seats : HasPendingSuggestion(x) => LiveSeat(x)

=============================================================================
