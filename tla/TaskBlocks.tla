----------------------------- MODULE TaskBlocks -----------------------------
(***************************************************************************)
(* The life of a department's tasks and of their blocks, as the handlers   *)
(* of TaskService run concurrently against PostgreSQL at READ COMMITTED.   *)
(*                                                                         *)
(* A request (or the background scan) is one transaction.  Each SQL        *)
(* statement of a handler is one step, so any other transaction may run    *)
(* between two of them.  A SELECT reads what is committed (or what the     *)
(* transaction itself wrote); an UPDATE waits until no other transaction   *)
(* holds the row, checks its WHERE clause on the row it then finds, and    *)
(* holds the row until the transaction ends.  A failed check, an exception *)
(* or a crash rolls the whole transaction back: nothing it wrote stays.    *)
(*                                                                         *)
(* task and block are the committed tables.  taskTip and blockTip are the  *)
(* newest version of each row, which differs from the committed one only   *)
(* while taskLock / blockLock name the transaction that wrote it.          *)
(***************************************************************************)
EXTENDS TaskRules, FiniteSets, FiniteSetsExt

CONSTANTS
  Blocks,     \* ids of task_blocks rows
  Sessions,   \* database transactions that may run at the same time
  Free,       \* the holder of a row nobody holds
  Ops,        \* the operations exercised by an instance of this module
  Deadlines,  \* values of due_at that callers send (Null: no deadline)
  MaxNow      \* bound of the clock

AllOps ==
  {"create", "update", "complete", "cancel", "reassign", "block", "unblock",
   "approve", "reject", "scan", "staffing"}

ASSUME BlocksAssumption ==
  /\ Ops \subseteq AllOps
  /\ Deadlines \subseteq TimeOrNull
  /\ MaxNow \in Nat
  /\ Free \notin Sessions
  /\ Null \notin Blocks

(* However many blocks there ever are, they are finitely many. *)
ASSUME PoolAssumption == IsFiniteSet(Blocks)

VARIABLES
  task, taskTip, taskLock,      \* table tasks
  block, blockTip, blockLock,   \* table task_blocks
  call,                         \* what each transaction is doing
  active,                       \* employees who have not been offboarded
  now                           \* the clock

tables == <<task, taskTip, taskLock, block, blockTip, blockLock>>
vars   == <<tables, call, active, now>>

-----------------------------------------------------------------------------
(* Rows.  "alertFor" (the due_at the last alert was sent for), "moved"     *)
(* (the task has been reassigned) and "paid" (how often a block's length   *)
(* was added to its task) are history: no step of the code reads them.     *)

TaskRow ==
  [status   : Statuses,
   assignee : Employees \cup {Nobody},
   due      : TimeOrNull,
   credit   : Nat,            \* approved_blocked_seconds
   told     : TimeOrNull,     \* overdue_notified_at
   blocked  : TimeOrNull,     \* blocked_since
   done     : TimeOrNull,     \* completed_at
   alertFor : TimeOrNull,
   moved    : BOOLEAN]

NoTask ==
  [status |-> "absent", assignee |-> Nobody, due |-> Null, credit |-> 0,
   told |-> Null, blocked |-> Null, done |-> Null, alertFor |-> Null,
   moved |-> FALSE]

BlockRow ==
  [of     : Tasks \cup {Null},        \* task_id (Null: not inserted yet)
   by     : People \cup {Nobody},     \* blocked_by_user_id
   start  : TimeOrNull,               \* blocked_at
   end    : TimeOrNull,               \* unblocked_at
   review : {"pending", "approved", "rejected"},
   paid   : Nat]

NoBlock ==
  [of |-> Null, by |-> Nobody, start |-> Null, end |-> Null,
   review |-> "pending", paid |-> 0]

Exists(blk)      == blk.of # Null
Open(blk, t)     == blk.of = t /\ blk.end = Null
Approved(blk)    == blk.review = "approved"
Length(blk)      == blk.end - blk.start
ClosedIn(blk)    == Exists(blk) /\ blk.end # Null

Forgotten(row)   == [row EXCEPT !.told = Null, !.alertFor = Null]

(* Tasks and the leavers they were assigned to. *)
Orphans == SUBSET (Tasks \X Employees)

(* What a transaction remembers between its statements. *)
Call ==
  [op   : AllOps \cup {"none"},
   pc   : {"idle", "insert", "find_block", "close_block", "clear_block", "write",
           "insert_block", "review", "credit", "next_orphan", "claim", "commit"},
   t    : Tasks \cup {Null},
   b    : Blocks \cup {Null},
   by   : People \cup {Nobody},              \* the caller, for a new block
   from : Employees \cup {Nobody},           \* the assignee that was read
   to   : Employees \cup {Nobody},           \* the assignee asked for
   due  : TimeOrNull,                        \* the deadline asked for
   old  : [due : TimeOrNull, told : TimeOrNull],  \* the columns that were read
   at   : TimeOrNull,                        \* the moment the handler took as "now"
   todo : Orphans]             \* leavers' tasks the scan still has to release

Idle ==
  [op |-> "none", pc |-> "idle", t |-> Null, b |-> Null, by |-> Nobody,
   from |-> Nobody, to |-> Nobody, due |-> Null,
   old |-> [due |-> Null, told |-> Null], at |-> Null, todo |-> {}]

TypeOK ==
  /\ task \in [Tasks -> TaskRow] /\ taskTip \in [Tasks -> TaskRow]
  /\ block \in [Blocks -> BlockRow] /\ blockTip \in [Blocks -> BlockRow]
  /\ taskLock \in [Tasks -> Sessions \cup {Free}]
  /\ blockLock \in [Blocks -> Sessions \cup {Free}]
  /\ call \in [Sessions -> Call]
  /\ active \subseteq Employees
  /\ now \in Nat

Init ==
  /\ task = [t \in Tasks |-> NoTask] /\ taskTip = task
  /\ block = [b \in Blocks |-> NoBlock] /\ blockTip = block
  /\ taskLock = [t \in Tasks |-> Free]
  /\ blockLock = [b \in Blocks |-> Free]
  /\ call = [s \in Sessions |-> Idle]
  /\ active = Employees
  /\ now = 0

-----------------------------------------------------------------------------
(* The database. *)

(* What a SELECT of transaction s sees. *)
SeenTask(s, t)  == IF taskLock[t] = s THEN taskTip[t] ELSE task[t]
SeenBlock(s, b) == IF blockLock[b] = s THEN blockTip[b] ELSE block[b]

CanLockTask(s, t)  == taskLock[t] \in {s, Free}
CanLockBlock(s, b) == blockLock[b] \in {s, Free}

WriteTask(s, t, row) ==
  /\ taskTip' = [taskTip EXCEPT ![t] = row]
  /\ taskLock' = [taskLock EXCEPT ![t] = s]
  /\ UNCHANGED <<task, block, blockTip, blockLock>>

WriteBlock(s, b, row) ==
  /\ blockTip' = [blockTip EXCEPT ![b] = row]
  /\ blockLock' = [blockLock EXCEPT ![b] = s]
  /\ UNCHANGED <<block, task, taskTip, taskLock>>

Goto(s, pc) == call' = [call EXCEPT ![s].pc = pc]

(* The transaction ends without a trace: an exception reached get_db, the  *)
(* connection was lost, or PostgreSQL chose it as a deadlock victim.       *)
RolledBack(s) ==
  /\ taskTip' = [t \in Tasks |-> IF taskLock[t] = s THEN task[t] ELSE taskTip[t]]
  /\ blockTip' = [b \in Blocks |-> IF blockLock[b] = s THEN block[b] ELSE blockTip[b]]
  /\ taskLock' = [t \in Tasks |-> IF taskLock[t] = s THEN Free ELSE taskLock[t]]
  /\ blockLock' = [b \in Blocks |-> IF blockLock[b] = s THEN Free ELSE blockLock[b]]
  /\ call' = [call EXCEPT ![s] = Idle]
  /\ UNCHANGED <<task, block>>

Rollback(s) ==
  /\ call[s].pc # "idle"
  /\ RolledBack(s)
  /\ UNCHANGED <<active, now>>

(* The router (or the scan job) commits: everything written is now seen. *)
Commit(s) ==
  /\ call[s].pc = "commit"
  /\ task' = [t \in Tasks |-> IF taskLock[t] = s THEN taskTip[t] ELSE task[t]]
  /\ block' = [b \in Blocks |-> IF blockLock[b] = s THEN blockTip[b] ELSE block[b]]
  /\ taskLock' = [t \in Tasks |-> IF taskLock[t] = s THEN Free ELSE taskLock[t]]
  /\ blockLock' = [b \in Blocks |-> IF blockLock[b] = s THEN Free ELSE blockLock[b]]
  /\ call' = [call EXCEPT ![s] = Idle]
  /\ UNCHANGED <<taskTip, blockTip, active, now>>

-----------------------------------------------------------------------------
(* Requests.  Each Start action is everything a handler does up to its     *)
(* first write: it reads the caller's context and the row, and either      *)
(* raises (no step) or goes on with what it read.  clockedIn is the answer *)
(* of the attendance module, free to be either.                            *)

Begin(s, op, c) ==
  /\ op \in Ops
  /\ call[s] = Idle
  /\ call' = [call EXCEPT ![s] = c]
  /\ UNCHANGED <<tables, active, now>>

Visible(p, t) ==
  /\ task[t].status # "absent"
  /\ \E clockedIn \in BOOLEAN : Allows(p, t, task[t], clockedIn)

Request(op, pc, t) == [Idle EXCEPT !.op = op, !.pc = pc, !.t = t]
Timed(op, pc, t)   == [Request(op, pc, t) EXCEPT !.at = now]

(* Ids of rows to be inserted are drawn from a bounded pool. *)
NewId(t)      == task[t].status = "absent" /\ \A r \in Sessions : call[r].t # t
NewBlockId(b) == ~Exists(block[b]) /\ \A r \in Sessions : call[r].b # b

(* A person creates a task; an outsider's goes to the head, who delegates. *)
StartCreate(s, p, t, to, due) ==
  /\ NewId(t) /\ p = Creator[t]
  /\ CanCreate(p)
  /\ Outsider(p) => to = Nobody
  /\ to \in active \cup {Nobody}
  /\ LET assignee == IF to = Nobody /\ Outsider(p) THEN DepartmentHead ELSE to
     IN  Begin(s, "create", [Request("create", "insert", t)
                              EXCEPT !.to = assignee, !.due = due])

(* A workflow creates a task: a departed default assignee is not an error. *)
StartCreateWorkflowTask(s, t, to, due) ==
  /\ NewId(t) /\ Creator[t] = Nobody
  /\ LET assignee == IF to \in active THEN to ELSE Nobody
     IN  Begin(s, "create", [Request("create", "insert", t)
                              EXCEPT !.to = assignee, !.due = due])

StartUpdate(s, p, t, due) ==
  /\ Visible(p, t) /\ CanManage(p, t)
  /\ IsOpen(task[t])
  /\ Begin(s, "update", [Request("update", "write", t)
                           EXCEPT !.due = due,
                                  !.old = [due |-> task[t].due, told |-> task[t].told]])

StartComplete(s, p, t) ==
  /\ Visible(p, t) /\ CanFinish(p, task[t])
  /\ Begin(s, "complete", Timed("complete", "find_block", t))

StartCancel(s, p, t) ==
  /\ Visible(p, t) /\ CanManage(p, t)
  /\ Begin(s, "cancel", Timed("cancel", "find_block", t))

StartReassign(s, p, t, to, due) ==
  /\ Visible(p, t) /\ CanReassign(p, t)
  /\ IsOpen(task[t])
  /\ due # Null /\ due > now
  /\ to # task[t].assignee /\ to \in active
  /\ Begin(s, "reassign", [Timed("reassign", "find_block", t)
                             EXCEPT !.from = task[t].assignee, !.to = to, !.due = due])

StartBlock(s, p, t, b) ==
  /\ Visible(p, t) /\ p = task[t].assignee
  /\ IsOpen(task[t]) /\ task[t].blocked = Null
  /\ NewBlockId(b)
  /\ Begin(s, "block", [Timed("block", "write", t) EXCEPT !.by = p, !.b = b])

StartUnblock(s, p, t) ==
  /\ Visible(p, t) /\ CanFinish(p, task[t])
  /\ Begin(s, "unblock", Request("unblock", "find_block", t))

StartReview(s, p, b, decision) ==
  /\ Exists(block[b]) /\ CanReview(p, block[b].by)
  /\ block[b].review = "pending"
  /\ Begin(s, decision, [Request(decision, "review", block[b].of) EXCEPT !.b = b])

(* Mutant: a task that waits for something is left where it is. *)
LeaversUnblockedTasks ==
  {t \in Tasks : /\ IsOpen(task[t]) /\ task[t].assignee \in Employees \ active
                 /\ task[t].blocked = Null}

(* list_open_tasks_of_inactive *)
LeaversTasks == {t \in Tasks : IsOpen(task[t]) /\ task[t].assignee \in Employees \ active}

(* The background job of one organization: first the leavers' tasks, then  *)
(* the overdue ones, in one transaction.  The two parts take their moment  *)
(* a statement apart; here it is one moment.                               *)
StartScan(s) ==
  LET orphans == {<<t, task[t].assignee>> : t \in LeaversTasks}
  IN  Begin(s, "scan", [Timed("scan", "next_orphan", Null) EXCEPT !.todo = orphans])

-----------------------------------------------------------------------------
(* Statements.  A statement whose WHERE clause finds no row makes the      *)
(* handler raise (and the transaction roll back) unless it says otherwise. *)

At(s, pc) == call[s].pc = pc /\ UNCHANGED <<active, now>>

InsertTask(s) ==
  LET c == call[s] IN
  /\ At(s, "insert")
  /\ WriteTask(s, c.t, [NoTask EXCEPT !.status = "open", !.assignee = c.to, !.due = c.due])
  /\ Goto(s, "commit")

(* get_open_block.  Unblocking takes its "now" after this read, ending a   *)
(* block on the way to something else before it.                           *)
GetOpenBlock(s) ==
  LET c      == call[s]
      opened == {b \in Blocks : Open(SeenBlock(s, b), c.t)}
  IN
  /\ At(s, "find_block")
  /\ \/ \E b \in opened :
          /\ call' = [call EXCEPT ![s].pc = "close_block", ![s].b = b,
                                  ![s].at = IF c.op = "unblock" THEN now ELSE c.at]
          /\ UNCHANGED tables
     \/ /\ opened = {} /\ c.op = "unblock"
        /\ RolledBack(s)
     \/ /\ opened = {} /\ c.op # "unblock"
        /\ Goto(s, "write")
        /\ UNCHANGED tables

(* Mutants: no CHECK constraint; no "still open?" in the UPDATE. *)
ClosableAnyTime(blk, at) == blk.end = Null
ClosableAgain(blk, at)   == at >= blk.start

(* close_block: still open, and the CHECK constraint refuses an end before *)
(* the start.                                                              *)
Closable(blk, at) == blk.end = Null /\ at >= blk.start

CloseBlock(s) ==
  LET c == call[s]  blk == blockTip[c.b] IN
  /\ At(s, "close_block") /\ CanLockBlock(s, c.b)
  /\ IF Closable(blk, c.at)
     THEN WriteBlock(s, c.b, [blk EXCEPT !.end = c.at]) /\ Goto(s, "clear_block")
     ELSE RolledBack(s)

(* Mutant: the total is overwritten, not added to. *)
CreditedAnew(row, blk) == [Forgotten(row) EXCEPT !.credit = Length(blk)]

(* Adding a block's length to its task: the deadline moves, so the alert   *)
(* may be sent again.                                                      *)
Credited(row, blk) == [Forgotten(row) EXCEPT !.credit = @ + Length(blk)]

(* clear_blocked_state: an approved block is credited as it ends. *)
ClearBlockedState(s) ==
  LET c   == call[s]
      blk == blockTip[c.b]
      row == [taskTip[c.t] EXCEPT !.blocked = Null]
  IN
  /\ At(s, "clear_block") /\ CanLockTask(s, c.t)
  /\ taskLock' = [taskLock EXCEPT ![c.t] = s]
  /\ taskTip' = [taskTip EXCEPT ![c.t] =
                   IF Approved(blk) /\ Length(blk) > 0 THEN Credited(row, blk) ELSE row]
  /\ blockTip' = [blockTip EXCEPT ![c.b].paid = IF Approved(blk) THEN @ + 1 ELSE @]
  /\ Goto(s, IF c.op = "unblock" THEN "commit" ELSE "write")
  /\ UNCHANGED <<task, block, blockLock>>

(* Mutant: "still open?" is not part of the UPDATE. *)
CompleteTaskAnyway(s) ==
  LET c == call[s] IN
  /\ At(s, "write") /\ c.op = "complete" /\ CanLockTask(s, c.t)
  /\ WriteTask(s, c.t, [taskTip[c.t] EXCEPT !.status = "completed", !.done = c.at])
  /\ Goto(s, "commit")

(* complete_task, cancel_task: "still open?" is part of the UPDATE. *)
CompleteTask(s) ==
  LET c == call[s]  row == taskTip[c.t] IN
  /\ At(s, "write") /\ c.op = "complete" /\ CanLockTask(s, c.t)
  /\ IF IsOpen(row)
     THEN /\ WriteTask(s, c.t, [row EXCEPT !.status = "completed", !.done = c.at])
          /\ Goto(s, "commit")
     ELSE RolledBack(s)

CancelTask(s) ==
  LET c == call[s]  row == taskTip[c.t] IN
  /\ At(s, "write") /\ c.op = "cancel" /\ CanLockTask(s, c.t)
  /\ IF IsOpen(row)
     THEN WriteTask(s, c.t, [row EXCEPT !.status = "cancelled"]) /\ Goto(s, "commit")
     ELSE RolledBack(s)

(* reassign_task: still open, and still assigned to whoever was read. *)
ReassignTask(s) ==
  LET c == call[s]  row == taskTip[c.t] IN
  /\ At(s, "write") /\ c.op = "reassign" /\ CanLockTask(s, c.t)
  /\ IF IsOpen(row) /\ row.assignee = c.from
     THEN /\ WriteTask(s, c.t, [Forgotten(row) EXCEPT
                                  !.assignee = c.to, !.due = c.due, !.blocked = Null,
                                  !.credit = 0, !.moved = TRUE])
          /\ Goto(s, "commit")
     ELSE RolledBack(s)

(* update_task: a write of the loaded object, whatever the row is by now.  *)
(* Only columns that differ from what was loaded are sent, so an alert     *)
(* mark that was empty when loaded is not cleared.                         *)
UpdateTask(s) ==
  LET c    == call[s]
      row  == taskTip[c.t]
      kept == IF c.old.told = Null THEN row ELSE Forgotten(row)
  IN
  /\ At(s, "write") /\ c.op = "update"
  /\ Goto(s, "commit")
  /\ IF c.due = c.old.due /\ c.old.told = Null
     THEN UNCHANGED tables
     ELSE /\ CanLockTask(s, c.t)
          /\ WriteTask(s, c.t, IF c.due = c.old.due THEN kept ELSE [kept EXCEPT !.due = c.due])

(* mark_task_blocked: open and not already blocked. *)
MarkTaskBlocked(s) ==
  LET c == call[s]  row == taskTip[c.t] IN
  /\ At(s, "write") /\ c.op = "block" /\ CanLockTask(s, c.t)
  /\ IF IsOpen(row) /\ row.blocked = Null
     THEN WriteTask(s, c.t, [row EXCEPT !.blocked = c.at]) /\ Goto(s, "insert_block")
     ELSE RolledBack(s)

(* Mutant: no unique index. *)
CreateAnotherBlock(s) ==
  LET c == call[s] IN
  /\ At(s, "insert_block")
  /\ WriteBlock(s, c.b, [NoBlock EXCEPT !.of = c.t, !.by = c.by, !.start = c.at])
  /\ Goto(s, "commit")

(* Open blocks of a task, committed or about to be: what the unique index  *)
(* compares an INSERT with.                                                *)
Rivals(t) == {b \in Blocks : Open(block[b], t) \/ Open(blockTip[b], t)}

(* create_block.  The unique index uq_task_blocks_one_open_per_task makes  *)
(* the INSERT wait for a transaction that holds another open block of the  *)
(* task, and refuses it if such a block is still there.                    *)
CreateBlock(s) ==
  LET c == call[s]  rivals == Rivals(c.t) IN
  /\ At(s, "insert_block")
  /\ \A b \in rivals : CanLockBlock(s, b)
  /\ IF rivals = {}
     THEN /\ WriteBlock(s, c.b, [NoBlock EXCEPT !.of = c.t, !.by = c.by, !.start = c.at])
          /\ Goto(s, "commit")
     ELSE RolledBack(s)

(* Mutant: "still pending?" is only asked by the handler, not by the UPDATE. *)
ReviewBlockAnyway(s) ==
  LET c == call[s]  blk == blockTip[c.b] IN
  /\ At(s, "review") /\ CanLockBlock(s, c.b)
  /\ WriteBlock(s, c.b, [blk EXCEPT !.review = IF c.op = "approve" THEN "approved" ELSE "rejected"])
  /\ Goto(s, IF c.op = "approve" /\ blk.end # Null THEN "credit" ELSE "commit")

(* review_block: only while pending; approving a block that has ended      *)
(* goes on to credit it.                                                   *)
ReviewBlock(s) ==
  LET c   == call[s]
      blk == blockTip[c.b]
      verdict == IF c.op = "approve" THEN "approved" ELSE "rejected"
  IN
  /\ At(s, "review") /\ CanLockBlock(s, c.b)
  /\ IF blk.review = "pending"
     THEN /\ WriteBlock(s, c.b, [blk EXCEPT !.review = verdict])
          /\ Goto(s, IF c.op = "approve" /\ blk.end # Null THEN "credit" ELSE "commit")
     ELSE RolledBack(s)

(* add_approved_seconds *)
AddApprovedSeconds(s) ==
  LET c == call[s]  blk == blockTip[c.b] IN
  /\ At(s, "credit") /\ CanLockTask(s, c.t)
  /\ taskLock' = [taskLock EXCEPT ![c.t] = s]
  /\ taskTip' = [taskTip EXCEPT ![c.t] = Credited(@, blk)]
  /\ blockTip' = [blockTip EXCEPT ![c.b].paid = @ + 1]
  /\ Goto(s, "commit")
  /\ UNCHANGED <<task, block, blockLock>>

(* The scan's loop over leavers' tasks, oldest first. *)
NextOrphan(s) ==
  LET c == call[s] IN
  /\ At(s, "next_orphan")
  /\ IF c.todo = {}
     THEN Goto(s, "claim")
     ELSE \E o \in c.todo :
            /\ \A other \in c.todo : o[1] <= other[1]
            /\ call' = [call EXCEPT ![s].pc = "find_block", ![s].t = o[1],
                                    ![s].from = o[2], ![s].todo = @ \ {o}]
  /\ UNCHANGED tables

(* unassign_task: somebody else's reassignment is left alone. *)
UnassignTask(s) ==
  LET c == call[s]  row == taskTip[c.t] IN
  /\ At(s, "write") /\ c.op = "scan" /\ CanLockTask(s, c.t)
  /\ Goto(s, "next_orphan")
  /\ IF IsOpen(row) /\ row.assignee = c.from
     THEN WriteTask(s, c.t, [row EXCEPT !.assignee = Nobody])
     ELSE UNCHANGED tables

(* Mutants: told already or not; only tasks somebody is assigned to. *)
ClaimableAgain(s, t) == IsOverdue(SeenTask(s, t), call[s].at)

ClaimableIfAssigned(s, t) ==
  LET row == SeenTask(s, t) IN
  IsOverdue(row, call[s].at) /\ row.told = Null /\ row.assignee # Nobody

Claimable(s, t) ==
  LET row == SeenTask(s, t) IN IsOverdue(row, call[s].at) /\ row.told = Null

(* claim_unannounced_overdue_tasks: one UPDATE finds and marks.  It waits  *)
(* for every row it found; the alerts are sent by this same transaction.   *)
ClaimOverdue(s) ==
  LET c     == call[s]
      found == {t \in Tasks : Claimable(s, t)}
  IN
  /\ At(s, "claim")
  /\ \A t \in found : CanLockTask(s, t)
  /\ taskTip' = [t \in Tasks |->
                   IF t \in found
                   THEN [taskTip[t] EXCEPT !.told = c.at, !.alertFor = taskTip[t].due]
                   ELSE taskTip[t]]
  /\ taskLock' = [t \in Tasks |-> IF t \in found THEN s ELSE taskLock[t]]
  /\ Goto(s, "commit")
  /\ UNCHANGED <<task, block, blockTip, blockLock>>

-----------------------------------------------------------------------------
(* The rest of the system: time passes, people leave and come back. *)

Tick ==
  /\ now < MaxNow
  /\ now' = now + 1
  /\ UNCHANGED <<tables, call, active>>

Offboard(e) ==
  /\ "staffing" \in Ops /\ e \in active
  /\ active' = active \ {e}
  /\ UNCHANGED <<tables, call, now>>

Reinstate(e) ==
  /\ "staffing" \in Ops /\ e \in Employees \ active
  /\ active' = active \cup {e}
  /\ UNCHANGED <<tables, call, now>>

StartUserRequest(s) ==
  \E p \in People, t \in Tasks :
    \/ StartComplete(s, p, t)
    \/ StartCancel(s, p, t)
    \/ \E b \in Blocks : StartBlock(s, p, t, b)
    \/ StartUnblock(s, p, t)
    \/ \E due \in Deadlines : StartUpdate(s, p, t, due)
    \/ \E due \in Deadlines, to \in Employees : StartReassign(s, p, t, to, due)
    \/ \E due \in Deadlines, to \in Employees \cup {Nobody} : StartCreate(s, p, t, to, due)

StartOther(s) ==
  \/ StartScan(s)
  \/ \E p \in People, b \in Blocks, decision \in {"approve", "reject"} :
       StartReview(s, p, b, decision)
  \/ \E t \in Tasks, due \in Deadlines, to \in Employees \cup {Nobody} :
       StartCreateWorkflowTask(s, t, to, due)

(* The next statement of a transaction that has begun. *)
Statement(s) ==
  \/ InsertTask(s)
  \/ GetOpenBlock(s)
  \/ CloseBlock(s)
  \/ ClearBlockedState(s)
  \/ CompleteTask(s)
  \/ CancelTask(s)
  \/ ReassignTask(s)
  \/ UpdateTask(s)
  \/ MarkTaskBlocked(s)
  \/ CreateBlock(s)
  \/ ReviewBlock(s)
  \/ AddApprovedSeconds(s)
  \/ NextOrphan(s)
  \/ UnassignTask(s)
  \/ ClaimOverdue(s)

Next ==
  \/ \E s \in Sessions :
       StartUserRequest(s) \/ StartOther(s) \/ Statement(s) \/ Commit(s) \/ Rollback(s)
  \/ \E e \in Employees : Offboard(e) \/ Reinstate(e)
  \/ Tick

Spec == Init /\ [][Next]_vars

(* Fairness.  A transaction that can go on does: uvicorn and Celery run    *)
(* every handler to its end.  PostgreSQL grants a row lock in the order it *)
(* was asked for, so others cannot keep a scan waiting forever, and rolls  *)
(* back one of a set of transactions that wait for each other.  Celery     *)
(* Beat starts the scan again and again; a scan that crashed is retried,   *)
(* and crashes do not go on forever (a scan that commits nothing, or gives *)
(* up on a check of its own, looks like a rollback and is not a crash).    *)
(* Nothing is assumed of people.                                           *)
Proceed(s)  == Statement(s) \/ Commit(s)
InScan(s)   == call[s].op = "scan"

(* The transactions that hold a row the next statement of s has to wait for. *)
WaitsFor(s) ==
  LET c == call[s]
      tasks  == IF c.pc \in {"clear_block", "write", "credit"} THEN {c.t}
                ELSE IF c.pc = "claim" THEN {t \in Tasks : Claimable(s, t)} ELSE {}
      blocks == IF c.pc \in {"close_block", "review"} THEN {c.b}
                ELSE IF c.pc = "insert_block" THEN Rivals(c.t) ELSE {}
  IN  ({taskLock[t] : t \in tasks} \cup {blockLock[b] : b \in blocks}) \ {s, Free}

Deadlocked(s) ==
  \E S \in SUBSET Sessions : s \in S /\ \A r \in S : WaitsFor(r) \cap S # {}

StepFairness ==
  /\ \A s \in Sessions :
       /\ WF_vars(Proceed(s))
       /\ SF_vars(InScan(s) /\ Proceed(s))
       /\ WF_vars(Deadlocked(s) /\ Rollback(s))
  /\ <>[][\A s \in Sessions : InScan(s) /\ Rollback(s) => Deadlocked(s) \/ Proceed(s)]_vars

Fairness == StepFairness /\ SF_vars(\E s \in Sessions : StartScan(s))

FairSpec == Spec /\ Fairness

-----------------------------------------------------------------------------
(* Properties of what is committed, which is what everyone else sees. *)

(* A task marked blocked has exactly one open block, the one recorded at   *)
(* that moment: block_task writes both, and whoever ends a block clears    *)
(* the mark, in one transaction.                                           *)
BlockedMeansOpenBlock ==
  \A t \in Tasks : task[t].blocked # Null =>
    \E b \in Blocks :
      /\ Open(block[b], t) /\ block[b].start = task[t].blocked
      /\ \A other \in Blocks : Open(block[other], t) => other = b

(* A block's length is added to its task exactly once, when it is both     *)
(* approved and over, whichever came last and however the two raced        *)
(* (_close_block and _review_block each credit only in their own order).   *)
PaidExactlyOnce ==
  \A b \in Blocks :
    block[b].paid = IF Approved(block[b]) /\ block[b].end # Null THEN 1 ELSE 0

(* The committed rows of task_blocks behave like the ledger of blocks that *)
(* reviewers and scoring rely on: whatever the interleaving, a block is    *)
(* recorded once, ended once, reviewed once, paid once, in a legal order.  *)
Ledger == INSTANCE BlockLedger WITH Owners <- Tasks, Authors <- People

BlocksFormALedger == Ledger!Spec

(* The running total of a task is the time of its approved, ended blocks;  *)
(* a reassignment may reset it but nothing inflates it.                    *)
Earned(t) ==
  MapThenSumSet(LAMBDA b : Length(block[b]),
                {b \in Blocks : block[b].of = t /\ ClosedIn(block[b]) /\ Approved(block[b])})

CreditMatchesBlocks ==
  \A t \in Tasks :
    /\ task[t].credit <= Earned(t)
    /\ ~task[t].moved => task[t].credit = Earned(t)

(* "COMPLETED and CANCELLED are final": whoever races, the first ending    *)
(* and its time stand, and the history stays on the person's name.         *)
FinalIsFinal ==
  [][\A t \in Tasks : IsOver(task[t]) =>
       /\ task'[t].status = task[t].status
       /\ task'[t].done = task[t].done
       /\ task'[t].assignee = task[t].assignee]_vars

(* An alert only goes out for a task that is late at that moment: open,    *)
(* not blocked, past its deadline and past all the blocked time approved   *)
(* so far, whatever else committed while the scan was running.  Nobody is  *)
(* told twice of the same lateness: a task that was announced is announced *)
(* again only if approved time has moved its deadline since, which a scan  *)
(* does itself when it ends a leaver's approved block.                     *)
AlertOnlyWhenLate ==
  [][\A t \in Tasks : task'[t].told \notin {Null, task[t].told} =>
       /\ task[t].told = Null \/ task'[t].credit > task[t].credit
       /\ IsOverdue(task'[t], task'[t].told)]_vars

(* service.py, _end_open_block: "a block shouldn't outlive the situation   *)
(* it describes".  The open block is looked up before the task is locked.  *)
NoBlockOutlivesItsTask ==
  \A t \in Tasks, b \in Blocks : IsOver(task[t]) => ~Open(block[b], t)

(* repository.py, reassign_task: "a clean slate for the new assignee:      *)
(* blocked time approved for the previous person belonged to their         *)
(* deadline, not this one".                                                *)
CleanSlateForNewAssignee ==
  \A t \in Tasks :
    task[t].moved /\ task[t].credit > 0 =>
      \E b \in Blocks : block[b].of = t /\ block[b].by = task[t].assignee

(* repository.py, update_task: "a new deadline gets its own 'overdue'      *)
(* alert, so forget the old one".                                          *)
AlertIsForThisDeadline ==
  \A t \in Tasks : IsOpen(task[t]) /\ task[t].told # Null => task[t].alertFor = task[t].due

(* An open task of somebody who left does not stay with them: the scan     *)
(* hands it over, unless it ends, they return or someone reassigns it      *)
(* first (release_orphaned_tasks; "a departure is a handover").  One       *)
(* leaver at a time: people may pass a task on to the next one who leaves  *)
(* for ever.                                                               *)
Orphaned(t, e) == IsOpen(task[t]) /\ task[t].assignee = e /\ e \notin active

OrphansAreHandedOver ==
  \A t \in Tasks, e \in Employees : Orphaned(t, e) ~> ~Orphaned(t, e)

(* A task that is late and that nobody was told about is announced, unless *)
(* it stops being late first.                                              *)
Unannounced(t) == IsOverdue(task[t], now) /\ task[t].told = Null

OverdueIsAnnounced == \A t \in Tasks : Unannounced(t) ~> ~Unannounced(t)

=============================================================================
