--------------------------- MODULE TaskRowsProofs ---------------------------
(***************************************************************************)
(* What the rows of a task and of its blocks say of each other, for any    *)
(* number of people, tasks, blocks and concurrent transactions: alerts are *)
(* for tasks that are late, a task's mark is its open block, and a task has*)
(* been credited with each approved block once.                            *)
(*                                                                         *)
(* Each part adds an invariant to those of TaskBlocksProofs.  All three are*)
(* about the newest versions of the rows, because the next commit publishes*)
(* them; a statement has often changed one of two rows and not yet the     *)
(* other, and then the invariant says who holds both.                      *)
(***************************************************************************)
EXTENDS TaskBlocksProofs, FoldTheorems

-----------------------------------------------------------------------------
(* Alerts. *)

(* A row nobody holds is the committed one. *)
TaskHeldOK(t) == taskLock[t] = Free => taskTip[t] = task[t]

(* What the holder of a task has done to its alert mark.  A mark is set as *)
(* the last thing a scan does, on a row that is late and whose mark is     *)
(* empty; before that, a transaction empties a mark only as it adds to the *)
(* approved time, unless that is the last thing it does.                   *)
AlertOK(s, t) ==
  LET old == task[t]  new == taskTip[t]  c == call[s] IN
  taskLock[t] = s =>
    /\ new.told \notin {Null, old.told} =>
         /\ c.pc = "commit"
         /\ IsOverdue(new, new.told)
         /\ old.told = Null \/ new.credit > old.credit
    /\ c.pc # "commit" =>
         /\ new.credit >= old.credit
         /\ old.told # Null /\ new.told = Null => new.credit > old.credit

(* The invariant. *)
AlertsOK ==
  /\ \A t \in Tasks : TaskHeldOK(t)
  /\ \A s \in Sessions, t \in Tasks : AlertOK(s, t)

(* What a statement after which s is at pc may do to a task's alert mark.  *)
MovesAlert(s, pc, t) ==
  LET row == taskTip[t]  new == taskTip'[t] IN
  \/ new = row /\ taskLock'[t] = taskLock[t]
  \/ new = task[t] /\ taskLock'[t] = Free
  \/ /\ taskLock[t] \in {s, Free} /\ taskLock'[t] = s
     /\ \/ new.told = row.told /\ new.credit >= row.credit
        \/ new.told = Null /\ new.credit > row.credit
        \/ pc = "commit" /\ new.told = Null
        \/ pc = "commit" /\ row.told = Null /\ new.credit = row.credit
           /\ IsOverdue(new, new.told)

(* A statement that moves alert marks in these ways keeps it. *)
LEMMA AlertStep ==
  ASSUME IInv, AlertsOK, NEW s \in Sessions, NEW c,
         call' = [call EXCEPT ![s] = c], UNCHANGED task, TypeOK',
         call[s].pc # "commit" \/ \A t \in Tasks : taskLock'[t] # s,
         \A t \in Tasks : MovesAlert(s, c.pc, t)
  PROVE  AlertsOK'
<1>1. /\ call'[s] = c /\ \A r \in Sessions \ {s} : call'[r] = call[r]
      /\ Free \notin Sessions /\ Null \notin Nat
  BY BlocksAssumption, PeopleAssumption DEF IInv, TypeOK
<1>2. ASSUME NEW t \in Tasks PROVE TaskHeldOK(t)'
  BY <1>1, <1>2 DEF AlertsOK, TaskHeldOK, MovesAlert
<1>3. ASSUME NEW r \in Sessions, NEW t \in Tasks PROVE AlertOK(r, t)'
  <2> DEFINE old == task[t]  row == taskTip[t]  new == taskTip'[t]
  <2>1. old \in TaskRow /\ row \in TaskRow /\ new \in TaskRow /\ task'[t] = old
    BY DEF IInv, TypeOK
  <2>2. /\ old.told \in TimeOrNull /\ row.told \in TimeOrNull /\ new.told \in TimeOrNull
        /\ old.credit \in Nat /\ row.credit \in Nat /\ new.credit \in Nat
    BY <2>1 DEF TaskRow
  <2>3. /\ taskLock[t] = s => AlertOK(s, t)
        /\ taskLock[t] = r => AlertOK(r, t)
        /\ taskLock[t] = Free => row = old
    BY DEF AlertsOK, TaskHeldOK
  <2>4. MovesAlert(s, c.pc, t)
    OBVIOUS
  <2>5. CASE new = row /\ taskLock'[t] = taskLock[t]
    <3>1. CASE r # s
      BY <1>1, <2>1, <2>3, <2>5, <3>1 DEF AlertOK
    <3>2. CASE r = s
      BY <1>1, <2>1, <2>3, <2>5, <3>2 DEF AlertOK
    <3> QED BY <3>1, <3>2
  <2>6. CASE new = old /\ taskLock'[t] = Free
    BY <1>1, <2>6 DEF AlertOK
  <2>7. CASE taskLock[t] \in {s, Free} /\ taskLock'[t] = s
    <3>1. CASE r # s
      BY <2>7, <3>1 DEF AlertOK
    <3>2. CASE r = s
      <4> HIDE DEF old, row, new
      <4>1. /\ call[s].pc # "commit"
            /\ row.told \in {Null, old.told}
            /\ row.credit >= old.credit
            /\ old.told # Null /\ row.told = Null => row.credit > old.credit
        BY <2>2, <2>3, <2>7, <1>1 DEF AlertOK, old, row, new
      <4>2. /\ new.told \notin {Null, old.told} =>
                 /\ c.pc = "commit"
                 /\ IsOverdue(new, new.told)
                 /\ old.told = Null \/ new.credit > old.credit
            /\ c.pc # "commit" =>
                 /\ new.credit >= old.credit
                 /\ old.told # Null /\ new.told = Null => new.credit > old.credit
        <5>1. CASE new.told = row.told /\ new.credit >= row.credit
          BY <2>2, <4>1, <5>1
        <5>2. CASE new.told = Null /\ new.credit > row.credit
          BY <2>2, <4>1, <5>2
        <5>3. CASE c.pc = "commit" /\ new.told = Null
          BY <5>3
        <5>4. CASE /\ c.pc = "commit" /\ row.told = Null /\ new.credit = row.credit
                   /\ IsOverdue(new, new.told)
          BY <2>2, <4>1, <5>4
        <5>5. new = row \/ new = old \/ 
              \/ new.told = row.told /\ new.credit >= row.credit
              \/ new.told = Null /\ new.credit > row.credit
              \/ c.pc = "commit" /\ new.told = Null
              \/ c.pc = "commit" /\ row.told = Null /\ new.credit = row.credit
                 /\ IsOverdue(new, new.told)
          BY <2>4 DEF MovesAlert, old, row, new
        <5>6. CASE new = row
          BY <2>2, <4>1, <5>6
        <5>7. CASE new = old
          BY <2>2, <4>1, <5>7
        <5> QED BY <5>1, <5>2, <5>3, <5>4, <5>5, <5>6, <5>7
      <4>3. task'[t] = old /\ taskTip'[t] = new /\ call'[s] = c
        BY <1>1, <2>1 DEF old, new
      <4> QED BY <3>2, <4>2, <4>3 DEF AlertOK
    <3> QED BY <3>1, <3>2
  <2> QED BY <2>4, <2>5, <2>6, <2>7 DEF MovesAlert
<1> QED BY <1>2, <1>3 DEF AlertsOK

(* Requests touch no row. *)
LEMMA RequestsBegin ==
  ASSUME NEW s \in Sessions, StartUserRequest(s) \/ StartOther(s)
  PROVE  /\ call[s] = Idle /\ UNCHANGED <<tables, active, now>>
         /\ \E c : c.pc # "commit" /\ call' = [call EXCEPT ![s] = c]
<1> DEFINE Q == /\ call[s] = Idle /\ UNCHANGED <<tables, active, now>>
                /\ \E c : c.pc # "commit" /\ call' = [call EXCEPT ![s] = c]
<1>1. ASSUME NEW op, NEW c, c.pc # "commit", Begin(s, op, c) PROVE Q
  BY <1>1 DEF Begin
<1>2. ASSUME NEW op, NEW pc, NEW t
      PROVE  Request(op, pc, t).pc = pc /\ Timed(op, pc, t).pc = pc
  BY DEF Request, Timed, Idle
<1>3. ASSUME NEW p \in People, NEW t \in Tasks,
             StartComplete(s, p, t) \/ StartCancel(s, p, t) \/ StartUnblock(s, p, t)
      PROVE  Q
  <2> HIDE DEF Q
  <2> QED BY <1>1, <1>2, <1>3 DEF StartComplete, StartCancel, StartUnblock
<1>4. ASSUME NEW p \in People, NEW t \in Tasks, NEW b \in Blocks, StartBlock(s, p, t, b)
      PROVE  Q
  <2> DEFINE c == [Timed("block", "write", t) EXCEPT !.by = p, !.b = b]
  <2>1. c.pc = "write" /\ Begin(s, "block", c)
    BY <1>4 DEF Timed, Request, Idle, StartBlock
  <2> HIDE DEF c, Q
  <2> QED BY <2>1, <1>1
<1>5. ASSUME NEW p \in People, NEW t \in Tasks, NEW due \in Deadlines, StartUpdate(s, p, t, due)
      PROVE  Q
  <2> DEFINE c == [Request("update", "write", t) EXCEPT !.due = due,
                     !.old = [due |-> task[t].due, told |-> task[t].told]]
  <2>1. c.pc = "write" /\ Begin(s, "update", c)
    BY <1>5 DEF Timed, Request, Idle, StartUpdate
  <2> HIDE DEF c, Q
  <2> QED BY <2>1, <1>1
<1>6. ASSUME NEW p \in People, NEW t \in Tasks, NEW due \in Deadlines, NEW to \in Employees,
             StartReassign(s, p, t, to, due)
      PROVE  Q
  <2> DEFINE c == [Timed("reassign", "find_block", t)
                     EXCEPT !.from = task[t].assignee, !.to = to, !.due = due]
  <2>1. c.pc = "find_block" /\ Begin(s, "reassign", c)
    BY <1>6 DEF Timed, Request, Idle, StartReassign
  <2> HIDE DEF c, Q
  <2> QED BY <2>1, <1>1
<1>7. ASSUME NEW t \in Tasks, NEW due \in Deadlines, NEW to \in Employees \cup {Nobody},
             \/ \E p \in People : StartCreate(s, p, t, to, due)
             \/ StartCreateWorkflowTask(s, t, to, due)
      PROVE  Q
  <2>1. PICK who :
          Begin(s, "create", [Request("create", "insert", t) EXCEPT !.to = who, !.due = due])
    BY <1>7 DEF StartCreate, StartCreateWorkflowTask
  <2> DEFINE c == [Request("create", "insert", t) EXCEPT !.to = who, !.due = due]
  <2>2. c.pc = "insert" /\ Begin(s, "create", c)
    BY <2>1 DEF Request, Idle
  <2> HIDE DEF c, Q
  <2> QED BY <2>2, <1>1
<1>8. ASSUME NEW p \in People, NEW b \in Blocks, NEW decision \in {"approve", "reject"},
             StartReview(s, p, b, decision)
      PROVE  Q
  <2> DEFINE c == [Request(decision, "review", block[b].of) EXCEPT !.b = b]
  <2>1. c.pc = "review" /\ Begin(s, decision, c)
    BY <1>8 DEF Timed, Request, Idle, StartReview
  <2> HIDE DEF c, Q
  <2> QED BY <2>1, <1>1
<1>9. ASSUME StartScan(s)
      PROVE  Q
  <2>1. \A orphans : [Timed("scan", "next_orphan", Null) EXCEPT !.todo = orphans].pc = "next_orphan"
    BY DEF Timed, Request, Idle
  <2> HIDE DEF Q
  <2> QED BY <1>1, <1>9, <2>1 DEF StartScan
<1> HIDE DEF Q
<1>10. Q
  BY <1>3, <1>4, <1>5, <1>6, <1>7, <1>8, <1>9 DEF StartUserRequest, StartOther
<1> QED BY <1>10 DEF Q

(* Moving on without touching a task. *)
LEMMA AlertGoto ==
  ASSUME IInv, AlertsOK, NEW s \in Sessions, NEW c, call' = [call EXCEPT ![s] = c],
         UNCHANGED <<task, taskTip, taskLock>>, TypeOK', call[s].pc # "commit"
  PROVE  AlertsOK'
<1>1. \A t \in Tasks : MovesAlert(s, c.pc, t)
  BY DEF MovesAlert
<1> QED BY <1>1, AlertStep

(* The end of a request that fails. *)
LEMMA AlertRollback ==
  ASSUME IInv, AlertsOK, NEW s \in Sessions, RolledBack(s), TypeOK'
  PROVE  AlertsOK'
<1>1. \A t \in Tasks : MovesAlert(s, Idle.pc, t) /\ taskLock'[t] # s
  BY BlocksAssumption DEF RolledBack, MovesAlert, IInv, TypeOK
<1> QED BY <1>1, AlertStep DEF RolledBack

(* Writing the task the transaction works on. *)
LEMMA AlertWrite ==
  ASSUME IInv, AlertsOK, NEW s \in Sessions, NEW pc, NEW row, Goto(s, pc), TypeOK',
         call[s].pc # "commit", call[s].t \in Tasks, CanLockTask(s, call[s].t),
         taskTip' = [taskTip EXCEPT ![call[s].t] = row],
         taskLock' = [taskLock EXCEPT ![call[s].t] = s],
         UNCHANGED task,
         LET old == taskTip[call[s].t] IN
           \/ row.told = old.told /\ row.credit >= old.credit
           \/ row.told = Null /\ row.credit > old.credit
           \/ row.told = Null /\ pc = "commit"
  PROVE  AlertsOK'
<1> DEFINE c == [call[s] EXCEPT !.pc = pc]
<1>1. call' = [call EXCEPT ![s] = c] /\ c.pc = pc
  BY DEF Goto, IInv, TypeOK, Call
<1>2. \A t \in Tasks : MovesAlert(s, pc, t)
  BY DEF MovesAlert, IInv, TypeOK, CanLockTask
<1> HIDE DEF c
<1> QED BY <1>1, <1>2, AlertStep

(* The statements of people about a task, ... *)
LEMMA AlertTaskStatements ==
  ASSUME IInv, IInv', AlertsOK, NEW s \in Sessions,
         InsertTask(s) \/ CompleteTask(s) \/ CancelTask(s) \/ ReassignTask(s)
           \/ UpdateTask(s) \/ MarkTaskBlocked(s) \/ UnassignTask(s),
         FInv
  PROVE  AlertsOK'
<1> DEFINE c == call[s]  row == taskTip[c.t]
<1>0. /\ c.t \in Tasks /\ row \in TaskRow /\ c.pc \in {"insert", "write"} /\ TypeOK' /\ c \in Call
      /\ row.credit \in Nat
  BY DEF IInv, TypeOK, CallsOK, CallOK, InsertTask, CompleteTask, CancelTask, ReassignTask,
         UpdateTask, MarkTaskBlocked, UnassignTask, At, TaskRow
<1>1. CASE RolledBack(s)
  BY <1>0, <1>1, AlertRollback
<1>2. ASSUME UNCHANGED tables, NEW pc, Goto(s, pc) PROVE AlertsOK'
  BY <1>0, <1>2, AlertGoto DEF Goto, tables
<1>3. ASSUME NEW pc, Goto(s, pc), NEW new, WriteTask(s, c.t, new), CanLockTask(s, c.t),
             \/ new.told = row.told /\ new.credit = row.credit
             \/ new.told = Null /\ pc = "commit"
      PROVE  AlertsOK'
  <2>1. \/ new.told = row.told /\ new.credit >= row.credit
        \/ new.told = Null /\ pc = "commit"
    <3> HIDE DEF row
    <3> QED BY <1>0, <1>3
  <2>2. /\ taskTip' = [taskTip EXCEPT ![c.t] = new]
        /\ taskLock' = [taskLock EXCEPT ![c.t] = s]
        /\ UNCHANGED task /\ c.pc # "commit"
    BY <1>0, <1>3 DEF WriteTask
  <2> QED BY <1>0, <1>3, <2>1, <2>2, AlertWrite
<1>4. CASE InsertTask(s)
  <2> DEFINE new == [NoTask EXCEPT !.status = "open", !.assignee = c.to, !.due = c.due]
  <2>1. new.told = Null /\ WriteTask(s, c.t, new) /\ Goto(s, "commit") /\ taskLock[c.t] = Free
    BY <1>4 DEF InsertTask, NoTask, FInv, TargetOK, At
  <2> HIDE DEF new
  <2> QED BY <1>3, <2>1 DEF CanLockTask
<1>5. CASE CompleteTask(s)
  <2> DEFINE new == [row EXCEPT !.status = "completed", !.done = c.at]
  <2>1. new.told = row.told /\ new.credit = row.credit
    BY <1>0 DEF TaskRow
  <2> HIDE DEF new
  <2> QED BY <1>1, <1>3, <1>5, <2>1 DEF CompleteTask, new
<1>6. CASE CancelTask(s)
  <2> DEFINE new == [row EXCEPT !.status = "cancelled"]
  <2>1. new.told = row.told /\ new.credit = row.credit
    BY <1>0 DEF TaskRow
  <2> HIDE DEF new
  <2> QED BY <1>1, <1>3, <1>6, <2>1 DEF CancelTask, new
<1>7. CASE ReassignTask(s)
  <2> DEFINE new == [Forgotten(row) EXCEPT
                        !.assignee = c.to, !.due = c.due, !.blocked = Null,
                        !.credit = 0, !.moved = TRUE]
  <2>1. new.told = Null
    BY <1>0 DEF TaskRow, Forgotten
  <2> HIDE DEF new
  <2> QED BY <1>1, <1>3, <1>7, <2>1 DEF ReassignTask, new
<1>8. CASE UpdateTask(s)
  <2> DEFINE kept == IF c.old.told = Null THEN row ELSE Forgotten(row)
             new  == IF c.due = c.old.due THEN kept ELSE [kept EXCEPT !.due = c.due]
  <2>1. Forgotten(row) \in TaskRow /\ Forgotten(row).told = Null
    BY <1>0 DEF TaskRow, Forgotten, TimeOrNull
  <2>2. \A r \in TaskRow : /\ [r EXCEPT !.due = c.due].told = r.told
                           /\ [r EXCEPT !.due = c.due].credit = r.credit
    BY DEF TaskRow
  <2>3. \/ new.told = row.told /\ new.credit = row.credit
        \/ new.told = Null
    BY <1>0, <2>1, <2>2
  <2>4. \/ UNCHANGED tables
        \/ CanLockTask(s, c.t) /\ WriteTask(s, c.t, new)
    BY <1>8, Zenon DEF UpdateTask
  <2>5. Goto(s, "commit")
    BY <1>8 DEF UpdateTask
  <2> HIDE DEF new
  <2> QED BY <1>2, <1>3, <2>3, <2>4, <2>5
<1>9. CASE MarkTaskBlocked(s)
  <2> DEFINE new == [row EXCEPT !.blocked = c.at]
  <2>1. new.told = row.told /\ new.credit = row.credit
    BY <1>0 DEF TaskRow
  <2> HIDE DEF new
  <2> QED BY <1>1, <1>3, <1>9, <2>1 DEF MarkTaskBlocked, new
<1>10. CASE UnassignTask(s)
  <2> DEFINE new == [row EXCEPT !.assignee = Nobody]
  <2>1. new.told = row.told /\ new.credit = row.credit
    BY <1>0 DEF TaskRow
  <2> HIDE DEF new
  <2> QED BY <1>2, <1>3, <1>10, <2>1 DEF UnassignTask, new
<1> QED BY <1>4, <1>5, <1>6, <1>7, <1>8, <1>9, <1>10

(* What crediting does to a row. *)
LEMMA WhatCreditingDoes ==
  ASSUME NEW row \in TaskRow, NEW blk, Length(blk) \in Nat
  PROVE  /\ Credited(row, blk).told = Null
         /\ Credited(row, blk).credit = row.credit + Length(blk)
         /\ Credited(row, blk).blocked = row.blocked
         /\ Credited(row, blk).moved = row.moved
<1> DEFINE n == Length(blk)  f == Forgotten(row)
<1>1. f \in TaskRow /\ f.told = Null /\ f.credit = row.credit /\ f.blocked = row.blocked /\ f.moved = row.moved
  BY DEF TaskRow, Forgotten, TimeOrNull
<1>2. Credited(row, blk) = [f EXCEPT !.credit = @ + n]
  BY DEF Credited
<1> HIDE DEF f, n
<1> QED BY <1>1, <1>2 DEF TaskRow, n

(* ... those that add to its approved time, ... *)
LEMMA AlertCrediting ==
  ASSUME IInv, IInv', AlertsOK, NEW s \in Sessions, ClearBlockedState(s) \/ AddApprovedSeconds(s)
  PROVE  AlertsOK'
<1> DEFINE c == call[s]  blk == blockTip[c.b]  old == taskTip[c.t]
<1>1. /\ c.t \in Tasks /\ old \in TaskRow /\ c.pc # "commit" /\ c.b \in Blocks
      /\ blk.end # Null /\ old.credit \in Nat /\ CanLockTask(s, c.t) /\ TypeOK'
  BY DEF IInv, TypeOK, CallsOK, CallOK, RefOK, ClearBlockedState, AddApprovedSeconds, At, TaskRow
<1>2. Length(blk) \in Nat
  BY <1>1, LengthOfEnded
<1>3. CASE AddApprovedSeconds(s)
  <2>1. Credited(old, blk).told = Null
    BY <1>1, <1>2, WhatCreditingDoes
  <2>2. /\ Goto(s, "commit") /\ UNCHANGED task
        /\ taskTip' = [taskTip EXCEPT ![c.t] = Credited(old, blk)]
        /\ taskLock' = [taskLock EXCEPT ![c.t] = s]
    BY <1>3 DEF AddApprovedSeconds
  <2> QED BY <1>1, <2>1, <2>2, AlertWrite
<1>4. CASE ClearBlockedState(s)
  <2> DEFINE row == [old EXCEPT !.blocked = Null]
             new == IF Approved(blk) /\ Length(blk) > 0 THEN Credited(row, blk) ELSE row
  <2>1. row \in TaskRow /\ row.told = old.told /\ row.credit = old.credit
    BY <1>1 DEF TaskRow, TimeOrNull
  <2>2. Credited(row, blk).told = Null /\ Credited(row, blk).credit = row.credit + Length(blk)
    BY <2>1, <1>2, WhatCreditingDoes
  <2>3. \/ new.told = old.told /\ new.credit = old.credit
        \/ new.told = Null /\ new.credit > old.credit
    <3> HIDE DEF row
    <3>1. CASE Approved(blk) /\ Length(blk) > 0
      BY <1>1, <1>2, <2>1, <2>2, <3>1
    <3>2. CASE ~(Approved(blk) /\ Length(blk) > 0)
      BY <2>1, <3>2
    <3> QED BY <3>1, <3>2
  <2> DEFINE pc == IF c.op = "unblock" THEN "commit" ELSE "write"
  <2>4. /\ Goto(s, pc) /\ UNCHANGED task
        /\ taskTip' = [taskTip EXCEPT ![c.t] = new]
        /\ taskLock' = [taskLock EXCEPT ![c.t] = s]
    BY <1>4 DEF ClearBlockedState
  <2> HIDE DEF new, pc
  <2>5. \/ new.told = old.told /\ new.credit >= old.credit
        \/ new.told = Null /\ new.credit > old.credit
    <3> HIDE DEF old
    <3> QED BY <1>1, <2>3
  <2>6. CASE new.told = old.told /\ new.credit >= old.credit
    BY <1>1, <2>4, <2>6, AlertWrite
  <2>7. CASE new.told = Null /\ new.credit > old.credit
    BY <1>1, <2>4, <2>7, AlertWrite
  <2> QED BY <2>5, <2>6, <2>7
<1> QED BY <1>3, <1>4

(* ... the scan that claims it, ... *)
LEMMA AlertClaim ==
  ASSUME IInv, IInv', AlertsOK, NEW s \in Sessions, ClaimOverdue(s)
  PROVE  AlertsOK'
<1> DEFINE c == call[s]
           found == {t \in Tasks : Claimable(s, t)}
           new(t) == [taskTip[t] EXCEPT !.told = c.at, !.alertFor = taskTip[t].due]
           d == [c EXCEPT !.pc = "commit"]
<1>1. /\ c.pc = "claim" /\ c \in Call /\ d.pc = "commit" /\ call' = [call EXCEPT ![s] = d]
      /\ UNCHANGED task /\ TypeOK'
  BY DEF ClaimOverdue, At, IInv, TypeOK, Goto, Call
<1>2. ASSUME NEW t \in Tasks PROVE MovesAlert(s, d.pc, t)
  <2>1. taskTip[t] \in TaskRow /\ TaskHeldOK(t)
    BY DEF IInv, TypeOK, AlertsOK
  <2>2. CASE t \notin found
    BY <2>2 DEF ClaimOverdue, MovesAlert
  <2>3. CASE t \in found
    <3>1. taskTip'[t] = new(t) /\ taskLock'[t] = s /\ taskLock[t] \in {s, Free}
      BY <2>3 DEF ClaimOverdue, CanLockTask
    <3>2. IsOverdue(taskTip[t], c.at) /\ taskTip[t].told = Null
      BY <2>1, <2>3, <3>1 DEF Claimable, SeenTask, TaskHeldOK
    <3>3. /\ new(t).told = c.at /\ new(t).credit = taskTip[t].credit
          /\ new(t).due = taskTip[t].due /\ new(t).status = taskTip[t].status
          /\ new(t).blocked = taskTip[t].blocked
      BY <2>1 DEF TaskRow
    <3> HIDE DEF new, found
    <3>4. IsOverdue(new(t), new(t).told)
      BY <3>2, <3>3 DEF IsOverdue, IsOpen, RealDeadline
    <3> QED BY <1>1, <3>1, <3>2, <3>3, <3>4 DEF MovesAlert
  <2> QED BY <2>2, <2>3
<1> HIDE DEF d
<1> QED BY <1>1, <1>2, AlertStep

(* ... and those about blocks only. *)
LEMMA AlertOtherStatements ==
  ASSUME IInv, IInv', AlertsOK, NEW s \in Sessions,
         GetOpenBlock(s) \/ CloseBlock(s) \/ CreateBlock(s) \/ ReviewBlock(s) \/ NextOrphan(s)
  PROVE  AlertsOK'
<1>1. call[s].pc # "commit" /\ TypeOK'
  BY DEF IInv, GetOpenBlock, CloseBlock, CreateBlock, ReviewBlock, NextOrphan, At
<1>2. CASE RolledBack(s)
  BY <1>1, <1>2, AlertRollback
<1>3. ASSUME NEW c, call' = [call EXCEPT ![s] = c], UNCHANGED <<task, taskTip, taskLock>>
      PROVE  AlertsOK'
  BY <1>1, <1>3, AlertGoto
<1>4. ASSUME NEW pc, Goto(s, pc), UNCHANGED <<task, taskTip, taskLock>> PROVE AlertsOK'
  BY <1>3, <1>4 DEF Goto
<1> QED BY <1>2, <1>3, <1>4
        DEF GetOpenBlock, CloseBlock, CreateBlock, ReviewBlock, NextOrphan, WriteBlock, tables

(* What a commit publishes about alerts. *)
LEMMA AlertCommit ==
  ASSUME IInv, AlertsOK, NEW s \in Sessions, Commit(s)
  PROVE  /\ AlertsOK'
         /\ \A t \in Tasks : task'[t].told \notin {Null, task[t].told} =>
              /\ task[t].told = Null \/ task'[t].credit > task[t].credit
              /\ IsOverdue(task'[t], task'[t].told)
<1>1. /\ \A r \in Sessions \ {s} : call'[r] = call[r]
      /\ Free \notin Sessions
  BY BlocksAssumption DEF IInv, TypeOK, Commit
<1>2. \A t \in Tasks :
        /\ taskTip'[t] = taskTip[t]
        /\ taskLock[t] = s => task'[t] = taskTip[t] /\ taskLock'[t] = Free
        /\ taskLock[t] # s => task'[t] = task[t] /\ taskLock'[t] = taskLock[t]
  BY DEF Commit
<1>3. \A t \in Tasks : TaskHeldOK(t)'
  BY <1>2 DEF AlertsOK, TaskHeldOK
<1>4. ASSUME NEW r \in Sessions, NEW t \in Tasks PROVE AlertOK(r, t)'
  BY <1>1, <1>2 DEF AlertsOK, AlertOK
<1>5. ASSUME NEW t \in Tasks, task'[t].told \notin {Null, task[t].told}
      PROVE  /\ task[t].told = Null \/ task'[t].credit > task[t].credit
             /\ IsOverdue(task'[t], task'[t].told)
  BY <1>2, <1>5 DEF AlertsOK, AlertOK
<1> QED BY <1>3, <1>4, <1>5 DEF AlertsOK

(* The rest of the system leaves the tables alone. *)
LEMMA AlertOthers ==
  ASSUME AlertsOK, UNCHANGED <<tables, call>>
  PROVE  AlertsOK'
BY DEF AlertsOK, AlertOK, TaskHeldOK, tables

(* IInv /\ FInv /\ AlertsOK /\ [Next]_vars => AlertsOK'. *)
LEMMA AlertNext == IInv /\ FInv /\ AlertsOK /\ [Next]_vars => AlertsOK'
<1> SUFFICES ASSUME IInv, FInv, AlertsOK, [Next]_vars PROVE AlertsOK'
  OBVIOUS
<1>1. IInv'
  BY NextIInv
<1>2. ASSUME NEW s \in Sessions, StartUserRequest(s) \/ StartOther(s) PROVE AlertsOK'
  <2>1. call[s] = Idle /\ UNCHANGED <<task, taskTip, taskLock>> /\ Idle.pc # "commit"
    BY <1>2, RequestsBegin DEF tables, Idle
  <2>2. PICK c : call' = [call EXCEPT ![s] = c]
    BY <1>2, RequestsBegin
  <2> QED BY <1>1, <2>1, <2>2, AlertGoto DEF IInv
<1>3. ASSUME NEW s \in Sessions, Statement(s) PROVE AlertsOK'
  BY <1>1, <1>3, AlertTaskStatements, AlertCrediting, AlertClaim, AlertOtherStatements DEF Statement
<1>4. ASSUME NEW s \in Sessions, Commit(s) \/ Rollback(s) PROVE AlertsOK'
  BY <1>1, <1>4, AlertCommit, AlertRollback DEF Rollback, IInv
<1>5. CASE Tick \/ \E e \in Employees : Offboard(e) \/ Reinstate(e)
  BY <1>5, AlertOthers DEF Tick, Offboard, Reinstate
<1>6. CASE UNCHANGED vars
  BY <1>6, AlertOthers DEF vars
<1> QED BY <1>2, <1>3, <1>4, <1>5, <1>6 DEF Next

(* Init => AlertsOK. *)
LEMMA AlertInit == Init => AlertsOK
BY BlocksAssumption DEF Init, AlertsOK, AlertOK, TaskHeldOK

(* Whatever commits while a scan runs, an alert goes out only for a task   *)
(* that is late when it is sent, and twice for one task only after         *)
(* approved time has moved its deadline (claim_unannounced_overdue_tasks   *)
(* against every handler that moves a deadline or clears the mark).        *)
THEOREM AlertsAreForLateTasks == Spec => AlertOnlyWhenLate
<1>1. IInv /\ FInv /\ AlertsOK /\ [Next]_vars =>
        [\A t \in Tasks : task'[t].told \notin {Null, task[t].told} =>
           /\ task[t].told = Null \/ task'[t].credit > task[t].credit
           /\ IsOverdue(task'[t], task'[t].told)]_vars
  BY OnlyCommitPublishes, AlertCommit
<1> QED
  BY <1>1, InitIInv, NextIInv, InitFInv, NextFInv, AlertInit, AlertNext, PTL
  DEF Spec, AlertOnlyWhenLate

-----------------------------------------------------------------------------
(* The mark of a blocked task. *)

(* A transaction that works on a block works on its task too. *)
PayeeOK(s) == LET c == call[s] IN
  c.pc \in {"close_block", "clear_block", "review", "credit"} => c.t = blockTip[c.b].of

(* Between the mark and the block it stands for, the task is held. *)
InsertingOK(s) == LET c == call[s] IN
  c.pc = "insert_block" => taskLock[c.t] = s /\ taskTip[c.t].blocked = c.at

(* Who records a block, or has ended one, holds its task too; only the     *)
(* statement between the end of a block and the mark does not yet.         *)
KeeperOK(s, b) == LET blk == block[b]  new == blockTip[b]  c == call[s] IN
  blockLock[b] = s =>
    /\ Exists(new) /\ ~Exists(blk) => taskLock[new.of] = s
    /\ Exists(blk) /\ blk.end = Null /\ new.end # Null =>
         taskLock[new.of] = s \/ (c.pc = "clear_block" /\ c.b = b)

(* The block that some transaction has ended and not yet cleared. *)
Clearing(b, t) ==
  /\ block[b].end = Null /\ Exists(block[b])
  /\ \E r \in Sessions : call[r].pc = "clear_block" /\ call[r].b = b /\ call[r].t = t

(* A mark stands for a block: in the committed tables ... *)
MarkOK(t) == task[t].blocked # Null =>
  \E b \in Blocks : Open(block[b], t) /\ block[b].start = task[t].blocked

(* ... and in their newest version, but for the moment before the block is *)
(* recorded and the moment before the mark of an ended block is cleared.   *)
TipMarkOK(t) == taskTip[t].blocked # Null =>
  \/ \E s \in Sessions : taskLock[t] = s /\ call[s].pc = "insert_block" /\ call[s].t = t
  \/ \E b \in Blocks :
       /\ blockTip[b].of = t /\ blockTip[b].start = taskTip[t].blocked
       /\ blockTip[b].end = Null \/ Clearing(b, t)

(* A task has one open block, or block to be. *)
OneRival(t) == \A b, d \in Rivals(t) : b = d

(* The invariant. *)
MarksOK ==
  /\ \A t \in Tasks : TaskHeldOK(t) /\ MarkOK(t) /\ TipMarkOK(t) /\ OneRival(t)
  /\ \A s \in Sessions : PayeeOK(s) /\ InsertingOK(s)
  /\ \A s \in Sessions, b \in Blocks : KeeperOK(s, b)

(* The newest version of a committed block is about the same task and      *)
(* since the same moment; an end, once committed, stays.                   *)
LEMMA SameBlock ==
  ASSUME IInv, NEW b \in Blocks
  PROVE  /\ Exists(block[b]) =>
              /\ blockTip[b].of = block[b].of /\ blockTip[b].start = block[b].start
              /\ block[b].end # Null => blockTip[b].end = block[b].end
         /\ blockLock[b] = Free => blockTip[b] = block[b]
<1> DEFINE old == block[b]  tip == blockTip[b]  new == Settled(tip)
<1>1. old \in BlockRow /\ tip \in BlockRow /\ TipOK(b) /\ RowOK(old)
  BY DEF IInv, TypeOK, RowsOK
<1>2. new.of = tip.of /\ new.start = tip.start /\ new.end = tip.end
  BY <1>1 DEF Settled, PaidInFull, BlockRow
<1>3. new = old \/ Ledger!Step(old, new)
  BY <1>1 DEF TipOK
<1>4. blockLock[b] = Free => tip = old
  BY <1>1 DEF TipOK
<1> HIDE DEF new, tip, old
<1>5. ASSUME Exists(old), Ledger!Step(old, new)
      PROVE  new.of = old.of /\ new.start = old.start /\ (old.end # Null => new.end = old.end)
  <2>1. CASE Ledger!Ended(old, new)
    BY <1>1, <2>1 DEF Ledger!Ended, Ledger!Running, BlockRow
  <2>2. CASE Ledger!Reviewed(old, new)
    BY <1>1, <2>2 DEF Ledger!Reviewed, BlockRow
  <2> QED BY <1>5, <2>1, <2>2 DEF Ledger!Step, Ledger!Blank, Exists
<1> QED BY <1>2, <1>3, <1>4, <1>5 DEF tip, old

(* Init => MarksOK. *)
LEMMA MarksInit == Init => MarksOK
<1> SUFFICES ASSUME Init PROVE MarksOK
  OBVIOUS
<1>1. \A t \in Tasks : task[t].blocked = Null /\ taskTip[t].blocked = Null /\ t # Null
  BY TaskIdsAreNumbers DEF Init, NoTask
<1>2. \A b \in Blocks : block[b].of = Null /\ blockTip[b].of = Null /\ blockLock[b] = Free
  BY DEF Init, NoBlock
<1>3. \A s \in Sessions : call[s].pc = "idle"
  BY DEF Init, Idle
<1>4. \A t \in Tasks : TaskHeldOK(t) /\ MarkOK(t) /\ TipMarkOK(t) /\ OneRival(t)
  BY <1>1, <1>2 DEF Init, TaskHeldOK, MarkOK, TipMarkOK, OneRival, Rivals, Open
<1>5. \A s \in Sessions : PayeeOK(s) /\ InsertingOK(s)
  BY <1>3 DEF PayeeOK, InsertingOK
<1>6. \A s \in Sessions, b \in Blocks : KeeperOK(s, b)
  BY <1>2, BlocksAssumption DEF KeeperOK
<1> QED BY <1>4, <1>5, <1>6 DEF MarksOK

(* What most statements do: they change no block's beginning or end, and   *)
(* set no mark.                                                            *)
SameSpan(b) ==
  /\ blockTip'[b].of = blockTip[b].of /\ blockTip'[b].start = blockTip[b].start
  /\ blockTip'[b].end = blockTip[b].end
  /\ \/ blockLock'[b] = blockLock[b]
     \/ blockLock[b] = Free

(* They leave a task alone, or hold it and leave its mark or clear it.     *)
Keeps(s, t) ==
  \/ taskTip'[t] = taskTip[t] /\ taskLock'[t] = taskLock[t]
  \/ /\ taskLock[t] \in {s, Free} /\ taskLock'[t] = s
     /\ taskTip'[t].blocked \in {taskTip[t].blocked, Null}

(* Such a statement keeps the invariant, if the one that clears a mark clears it.*)
LEMMA MarksKept ==
  ASSUME IInv, IInv', MarksOK, NEW s \in Sessions, NEW c,
         call' = [call EXCEPT ![s] = c], UNCHANGED <<task, block>>,
         \A b \in Blocks : SameSpan(b), \A t \in Tasks : Keeps(s, t),
         c.pc \notin {"insert_block", "clear_block"}, call[s].pc # "insert_block",
         call[s].pc = "clear_block" =>
           taskTip'[call[s].t].blocked = Null /\ taskLock'[call[s].t] = s,
         c.pc \in {"close_block", "review", "credit"} => c.t = blockTip[c.b].of
  PROVE  MarksOK'
<1>1. /\ call'[s] = c /\ \A r \in Sessions \ {s} : call'[r] = call[r]
      /\ Free \notin Sessions
  BY BlocksAssumption DEF IInv, TypeOK
<1>2. \A r \in Sessions : CallOK(call[r]) /\ CallOK(call'[r]) /\ RefOK(r)
  BY DEF IInv, CallsOK
<1>3. \A b \in Blocks : Exists(blockTip'[b]) <=> Exists(blockTip[b])
  BY DEF Exists, SameSpan
<1>4. ASSUME NEW t \in Tasks PROVE TaskHeldOK(t)' /\ MarkOK(t)' /\ OneRival(t)'
  <2>1. TaskHeldOK(t)'
    BY <1>1 DEF MarksOK, TaskHeldOK, Keeps
  <2>2. MarkOK(t)'
    BY DEF MarksOK, MarkOK
  <2>3. Rivals(t)' = Rivals(t)
    BY DEF Rivals, SameSpan, Open
  <2>4. OneRival(t)'
    BY <2>3 DEF MarksOK, OneRival
  <2> QED BY <2>1, <2>2, <2>4
<1>5. ASSUME NEW t \in Tasks PROVE TipMarkOK(t)'
  <2> SUFFICES ASSUME taskTip'[t].blocked # Null PROVE TipMarkOK(t)'
    BY DEF TipMarkOK
  <2>1. taskTip'[t].blocked = taskTip[t].blocked /\ TipMarkOK(t)
    BY DEF Keeps, MarksOK
  <2>2. ASSUME NEW r \in Sessions, taskLock[t] = r, call[r].pc = "insert_block", call[r].t = t
        PROVE  taskLock'[t] = r /\ call'[r].pc = "insert_block" /\ call'[r].t = t
    BY <1>1, <2>2 DEF Keeps
  <2>3. ASSUME NEW b \in Blocks, Clearing(b, t) PROVE Clearing(b, t)'
    BY <1>1, <2>3 DEF Clearing, Exists
  <2>4. ASSUME NEW b \in Blocks,
               blockTip[b].of = t, blockTip[b].start = taskTip[t].blocked,
               blockTip[b].end = Null \/ Clearing(b, t)
        PROVE  /\ blockTip'[b].of = t /\ blockTip'[b].start = taskTip'[t].blocked
               /\ blockTip'[b].end = Null \/ Clearing(b, t)'
    BY <2>1, <2>3, <2>4 DEF SameSpan
  <2> QED BY <2>1, <2>2, <2>4 DEF TipMarkOK
<1>6. ASSUME NEW r \in Sessions PROVE PayeeOK(r)' /\ InsertingOK(r)'
  <2>1. CASE r = s
    BY <1>1, <1>2, <2>1 DEF PayeeOK, InsertingOK, CallOK, SameSpan
  <2>2. CASE r # s
    <3>1. PayeeOK(r) /\ InsertingOK(r) /\ call'[r] = call[r]
      BY <1>1, <2>2 DEF MarksOK
    <3>2. PayeeOK(r)'
      BY <1>2, <3>1 DEF PayeeOK, CallOK, SameSpan
    <3>3. InsertingOK(r)'
      BY <1>1, <1>2, <2>2, <3>1 DEF InsertingOK, CallOK, Keeps
    <3> QED BY <3>2, <3>3
  <2> QED BY <2>1, <2>2
<1>7. ASSUME NEW r \in Sessions, NEW b \in Blocks PROVE KeeperOK(r, b)'
  <2> SUFFICES ASSUME blockLock'[b] = r PROVE KeeperOK(r, b)'
    BY DEF KeeperOK
  <2> DEFINE t == blockTip[b].of
  <2>1. SameSpan(b) /\ KeeperOK(r, b) /\ PayeeOK(r) /\ (blockLock[b] = Free => blockTip[b] = block[b])
    BY SameBlock DEF MarksOK
  <2>2. Exists(blockTip[b]) => t \in Tasks
    BY DEF IInv, TypeOK, BlockRow, Exists
  <2>3. Exists(block[b]) => Exists(blockTip[b])
    BY SettledTip
  <2>4. ASSUME blockLock[b] = r, Exists(blockTip[b]), taskLock[t] = r PROVE taskLock'[t] = r
    BY <1>1, <2>2, <2>4 DEF Keeps
  <2>5. CASE blockLock[b] = Free
    BY <2>1, <2>5 DEF KeeperOK, SameSpan, Exists
  <2>6. CASE blockLock[b] = r
    <3>1. ASSUME Exists(blockTip'[b]), ~Exists(block[b])
          PROVE  taskLock'[blockTip'[b].of] = r
      BY <1>3, <2>1, <2>4, <2>6, <3>1 DEF KeeperOK, SameSpan
    <3>2. ASSUME Exists(block[b]), block[b].end = Null, blockTip'[b].end # Null
          PROVE  taskLock'[blockTip'[b].of] = r \/ (call'[r].pc = "clear_block" /\ call'[r].b = b)
      <4>1. taskLock[t] = r \/ (call[r].pc = "clear_block" /\ call[r].b = b)
        BY <2>1, <2>6, <3>2 DEF KeeperOK, SameSpan
      <4>2. CASE taskLock[t] = r
        BY <2>1, <2>3, <2>4, <2>6, <3>2, <4>2 DEF SameSpan
      <4>3. CASE call[r].pc = "clear_block" /\ call[r].b = b
        BY <1>1, <2>1, <4>3 DEF PayeeOK, SameSpan
      <4> QED BY <4>1, <4>2, <4>3
    <3> QED BY <3>1, <3>2 DEF KeeperOK
  <2> QED BY <2>1, <2>5, <2>6 DEF SameSpan
<1> QED BY <1>4, <1>5, <1>6, <1>7 DEF MarksOK

(* Ending a block: until its mark is cleared, the transaction that ended   *)
(* it is about to do so.                                                   *)
LEMMA MarksClose ==
  ASSUME IInv, MarksOK, NEW s \in Sessions, call[s].pc = "close_block", NEW at,
         blockTip[call[s].b].end = Null, CanLockBlock(s, call[s].b),
         WriteBlock(s, call[s].b, [blockTip[call[s].b] EXCEPT !.end = at]),
         Goto(s, "clear_block")
  PROVE  MarksOK'
<1> DEFINE d == call[s].b
<1>1. /\ call'[s].pc = "clear_block" /\ call'[s].t = call[s].t /\ call'[s].b = d
      /\ \A r \in Sessions \ {s} : call'[r] = call[r]
      /\ Free \notin Sessions
  BY BlocksAssumption DEF IInv, TypeOK, Goto, Call
<1>2. \A r \in Sessions : CallOK(call[r]) /\ RefOK(r)
  BY DEF IInv, CallsOK
<1>3. /\ d \in Blocks /\ Exists(block[d]) /\ call[s].t = blockTip[d].of /\ call[s].t \in Tasks
      /\ blockTip[d] \in BlockRow
  BY <1>2 DEF CallOK, RefOK, MarksOK, PayeeOK, IInv, TypeOK
<1>4. block[d].end = Null /\ Exists(blockTip[d]) /\ block[d].of = blockTip[d].of
  BY <1>3, SameBlock DEF Exists
<1>5. /\ UNCHANGED <<task, taskTip, taskLock, block>>
      /\ blockTip'[d].of = blockTip[d].of /\ blockTip'[d].start = blockTip[d].start
      /\ blockLock'[d] = s /\ blockLock[d] \in {s, Free}
      /\ \A b \in Blocks \ {d} : blockTip'[b] = blockTip[b] /\ blockLock'[b] = blockLock[b]
  BY <1>3 DEF WriteBlock, CanLockBlock, BlockRow, IInv, TypeOK
<1>6. ASSUME NEW t \in Tasks PROVE TaskHeldOK(t)' /\ MarkOK(t)' /\ OneRival(t)'
  <2>1. TaskHeldOK(t)' /\ MarkOK(t)'
    BY <1>5 DEF MarksOK, TaskHeldOK, MarkOK
  <2>2. Rivals(t)' \subseteq Rivals(t)
    BY <1>3, <1>4, <1>5 DEF Rivals, Open
  <2> QED BY <2>1, <2>2 DEF MarksOK, OneRival
<1>7. ASSUME NEW t \in Tasks PROVE TipMarkOK(t)'
  <2> SUFFICES ASSUME taskTip[t].blocked # Null PROVE TipMarkOK(t)'
    BY <1>5 DEF TipMarkOK
  <2>1. TipMarkOK(t)
    BY DEF MarksOK
  <2>2. ASSUME NEW r \in Sessions, taskLock[t] = r, call[r].pc = "insert_block", call[r].t = t
        PROVE  taskLock'[t] = r /\ call'[r].pc = "insert_block" /\ call'[r].t = t
    BY <1>1, <1>5, <2>2
  <2>3. ASSUME NEW b \in Blocks, Clearing(b, t) PROVE Clearing(b, t)'
    BY <1>1, <1>5, <2>3 DEF Clearing, Exists
  <2>4. ASSUME NEW b \in Blocks,
               blockTip[b].of = t, blockTip[b].start = taskTip[t].blocked,
               blockTip[b].end = Null \/ Clearing(b, t)
        PROVE  /\ blockTip'[b].of = t /\ blockTip'[b].start = taskTip'[t].blocked
               /\ blockTip'[b].end = Null \/ Clearing(b, t)'
    <3>1. CASE b = d
      <4>1. Clearing(b, t)'
        BY <1>1, <1>3, <1>4, <1>5, <2>4, <3>1 DEF Clearing, Exists
      <4> QED BY <1>5, <2>4, <3>1, <4>1
    <3>2. CASE b # d
      BY <1>5, <2>3, <2>4, <3>2
    <3> QED BY <3>1, <3>2
  <2> QED BY <1>5, <2>1, <2>2, <2>4 DEF TipMarkOK
<1>8. ASSUME NEW r \in Sessions PROVE PayeeOK(r)' /\ InsertingOK(r)'
  <2>1. CASE r = s
    BY <1>1, <1>3, <1>5, <2>1 DEF PayeeOK, InsertingOK
  <2>2. CASE r # s
    BY <1>1, <1>2, <1>5, <2>2 DEF PayeeOK, InsertingOK, MarksOK, CallOK
  <2> QED BY <2>1, <2>2
<1>9. ASSUME NEW r \in Sessions, NEW b \in Blocks PROVE KeeperOK(r, b)'
  <2>1. CASE b = d
    BY <1>1, <1>3, <1>4, <1>5, <2>1 DEF KeeperOK, Exists
  <2>2. CASE b # d
    <3>1. KeeperOK(r, b)
      BY DEF MarksOK
    <3>2. r # s => call'[r] = call[r]
      BY <1>1
    <3> QED BY <1>1, <1>5, <2>2, <3>1, <3>2 DEF KeeperOK, Exists
  <2> QED BY <2>1, <2>2
<1> QED BY <1>6, <1>7, <1>8, <1>9 DEF MarksOK

(* Setting the mark. *)
LEMMA MarksMark ==
  ASSUME IInv, MarksOK, NEW s \in Sessions, MarkTaskBlocked(s), ~RolledBack(s)
  PROVE  MarksOK'
<1> DEFINE u == call[s].t
<1>1. /\ call[s].pc = "write" /\ call'[s].pc = "insert_block"
      /\ call'[s].t = u /\ call'[s].at = call[s].at
      /\ \A r \in Sessions \ {s} : call'[r] = call[r]
      /\ Free \notin Sessions
  BY BlocksAssumption DEF MarkTaskBlocked, At, IInv, TypeOK, Goto, Call
<1>2. \A r \in Sessions : CallOK(call[r]) /\ RefOK(r)
  BY DEF IInv, CallsOK
<1>3. u \in Tasks /\ taskTip[u] \in TaskRow
  BY <1>1, <1>2 DEF CallOK, IInv, TypeOK
<1>4. /\ UNCHANGED <<task, block, blockTip, blockLock>>
      /\ taskTip'[u].blocked = call[s].at
      /\ taskLock'[u] = s /\ taskLock[u] \in {s, Free}
      /\ \A t \in Tasks \ {u} : taskTip'[t] = taskTip[t] /\ taskLock'[t] = taskLock[t]
  BY <1>3 DEF MarkTaskBlocked, WriteTask, CanLockTask, TaskRow, IInv, TypeOK
<1>5. ASSUME NEW t \in Tasks PROVE TaskHeldOK(t)' /\ MarkOK(t)' /\ OneRival(t)'
  <2>1. TaskHeldOK(t)' /\ MarkOK(t)'
    BY <1>1, <1>4 DEF MarksOK, TaskHeldOK, MarkOK
  <2>2. Rivals(t)' = Rivals(t)
    BY <1>4 DEF Rivals
  <2> QED BY <2>1, <2>2 DEF MarksOK, OneRival
<1>6. ASSUME NEW t \in Tasks PROVE TipMarkOK(t)'
  <2>1. CASE t = u
    BY <1>1, <1>4, <2>1 DEF TipMarkOK
  <2>2. CASE t # u
    <3> SUFFICES ASSUME taskTip[t].blocked # Null PROVE TipMarkOK(t)'
      BY <1>4, <2>2 DEF TipMarkOK
    <3>1. TipMarkOK(t)
      BY DEF MarksOK
    <3>2. ASSUME NEW r \in Sessions, taskLock[t] = r, call[r].pc = "insert_block", call[r].t = t
          PROVE  taskLock'[t] = r /\ call'[r].pc = "insert_block" /\ call'[r].t = t
      BY <1>1, <1>4, <2>2, <3>2
    <3>3. ASSUME NEW b \in Blocks, Clearing(b, t) PROVE Clearing(b, t)'
      BY <1>1, <1>4, <3>3 DEF Clearing, Exists
    <3> QED BY <1>4, <2>2, <3>1, <3>2, <3>3 DEF TipMarkOK
  <2> QED BY <2>1, <2>2
<1>7. ASSUME NEW r \in Sessions PROVE PayeeOK(r)' /\ InsertingOK(r)'
  <2>1. CASE r = s
    BY <1>1, <1>4, <2>1 DEF PayeeOK, InsertingOK
  <2>2. CASE r # s
    BY <1>1, <1>2, <1>4, <2>2 DEF PayeeOK, InsertingOK, MarksOK, CallOK
  <2> QED BY <2>1, <2>2
<1>8. ASSUME NEW r \in Sessions, NEW b \in Blocks PROVE KeeperOK(r, b)'
  <2> SUFFICES ASSUME blockLock[b] = r PROVE KeeperOK(r, b)'
    BY <1>4 DEF KeeperOK
  <2> DEFINE t == blockTip[b].of
  <2>1. KeeperOK(r, b) /\ (r # s => call'[r] = call[r])
    BY <1>1 DEF MarksOK
  <2>2. (Exists(blockTip[b]) => t \in Tasks) /\ (Exists(block[b]) => Exists(blockTip[b]))
    BY SettledTip DEF IInv, TypeOK, BlockRow, Exists
  <2>3. t \in Tasks /\ taskLock[t] = r => taskLock'[t] = r
    BY <1>1, <1>4
  <2> QED BY <1>1, <1>4, <2>1, <2>2, <2>3 DEF KeeperOK, Exists
<1> QED BY <1>5, <1>6, <1>7, <1>8 DEF MarksOK

(* Recording the block the mark stands for. *)
LEMMA MarksCreate ==
  ASSUME IInv, MarksOK, NEW s \in Sessions, CreateBlock(s), ~RolledBack(s)
  PROVE  MarksOK'
<1> DEFINE d == call[s].b  u == call[s].t
<1>1. /\ call[s].pc = "insert_block" /\ call'[s].pc = "commit" /\ Rivals(u) = {}
      /\ \A r \in Sessions \ {s} : call'[r] = call[r]
      /\ Free \notin Sessions
  BY BlocksAssumption DEF CreateBlock, At, IInv, TypeOK, Goto, Call
<1>2. \A r \in Sessions : CallOK(call[r]) /\ RefOK(r) /\ ReservedOK(r)
  BY DEF IInv, CallsOK
<1>3. /\ d \in Blocks /\ u \in Tasks /\ ~Exists(block[d]) /\ ~Exists(blockTip[d])
      /\ taskLock[u] = s /\ taskTip[u].blocked = call[s].at
      /\ \A r \in Sessions \ {s} : call[r].b # d
  BY <1>1, <1>2 DEF CallOK, ReservedOK, Reserves, MarksOK, InsertingOK
<1>4. /\ UNCHANGED <<task, taskTip, taskLock, block>>
      /\ blockTip'[d].of = u /\ blockTip'[d].start = call[s].at /\ blockTip'[d].end = Null
      /\ blockLock'[d] = s
      /\ \A b \in Blocks \ {d} : blockTip'[b] = blockTip[b] /\ blockLock'[b] = blockLock[b]
  <2> DEFINE row == [NoBlock EXCEPT !.of = u, !.by = call[s].by, !.start = call[s].at]
  <2>1. WriteBlock(s, d, row)
    BY <1>1 DEF CreateBlock
  <2>2. row.of = u /\ row.start = call[s].at /\ row.end = Null
    BY DEF NoBlock
  <2> HIDE DEF row
  <2> QED BY <1>3, <2>1, <2>2 DEF WriteBlock, IInv, TypeOK
<1>5. ASSUME NEW t \in Tasks PROVE TaskHeldOK(t)' /\ MarkOK(t)' /\ OneRival(t)'
  <2>1. TaskHeldOK(t)' /\ MarkOK(t)'
    BY <1>4 DEF MarksOK, TaskHeldOK, MarkOK
  <2>2. Rivals(t)' \subseteq Rivals(t) \cup (IF t = u THEN {d} ELSE {})
    BY <1>3, <1>4 DEF Rivals, Open, Exists
  <2> QED BY <1>1, <2>1, <2>2 DEF MarksOK, OneRival
<1>6. ASSUME NEW t \in Tasks PROVE TipMarkOK(t)'
  <2> SUFFICES ASSUME taskTip[t].blocked # Null PROVE TipMarkOK(t)'
    BY <1>4 DEF TipMarkOK
  <2>1. CASE t = u
    BY <1>3, <1>4, <2>1 DEF TipMarkOK
  <2>2. CASE t # u
    <3>1. TipMarkOK(t)
      BY DEF MarksOK
    <3>2. ASSUME NEW r \in Sessions, taskLock[t] = r, call[r].pc = "insert_block", call[r].t = t
          PROVE  taskLock'[t] = r /\ call'[r].pc = "insert_block" /\ call'[r].t = t
      BY <1>1, <1>4, <2>2, <3>2
    <3>3. ASSUME NEW b \in Blocks, Clearing(b, t) PROVE Clearing(b, t)'
      BY <1>1, <1>4, <3>3 DEF Clearing, Exists
    <3>4. ASSUME NEW b \in Blocks, blockTip[b].of = t PROVE blockTip'[b] = blockTip[b]
      BY <1>3, <1>4, <3>4, TaskIdsAreNumbers DEF Exists
    <3> QED BY <1>4, <3>1, <3>2, <3>3, <3>4 DEF TipMarkOK
  <2> QED BY <2>1, <2>2
<1>7. ASSUME NEW r \in Sessions PROVE PayeeOK(r)' /\ InsertingOK(r)'
  <2>1. CASE r = s
    BY <1>1, <1>4, <2>1 DEF PayeeOK, InsertingOK
  <2>2. CASE r # s
    BY <1>1, <1>2, <1>3, <1>4, <2>2 DEF PayeeOK, InsertingOK, MarksOK, CallOK
  <2> QED BY <2>1, <2>2
<1>8. ASSUME NEW r \in Sessions, NEW b \in Blocks PROVE KeeperOK(r, b)'
  <2>1. CASE b = d
    BY <1>1, <1>3, <1>4, <2>1 DEF KeeperOK
  <2>2. CASE b # d
    <3>1. KeeperOK(r, b)
      BY DEF MarksOK
    <3>2. /\ blockTip'[b] = blockTip[b] /\ blockLock'[b] = blockLock[b] /\ block'[b] = block[b]
          /\ taskLock' = taskLock
      BY <1>4, <2>2
    <3>3. call'[r].pc = "clear_block" /\ call'[r].b = b <=> call[r].pc = "clear_block" /\ call[r].b = b
      BY <1>1
    <3> QED BY <3>1, <3>2, <3>3 DEF KeeperOK, Exists
  <2> QED BY <2>1, <2>2
<1> QED BY <1>5, <1>6, <1>7, <1>8 DEF MarksOK

(* A transaction that gives up takes its marks with it, and the blocks     *)
(* they stand for.                                                         *)
LEMMA MarksRollback ==
  ASSUME IInv, MarksOK, NEW s \in Sessions, RolledBack(s)
  PROVE  MarksOK'
<1>1. /\ call'[s] = Idle /\ \A r \in Sessions \ {s} : call'[r] = call[r]
      /\ Free \notin Sessions /\ UNCHANGED <<task, block>>
      /\ Idle.pc = "idle"
  BY BlocksAssumption DEF IInv, TypeOK, RolledBack, Idle
<1>2. \A r \in Sessions : CallOK(call[r]) /\ RefOK(r) /\ PayeeOK(r)
  BY DEF IInv, CallsOK, MarksOK
<1>3. \A t \in Tasks :
         /\ taskLock[t] = s => taskTip'[t] = task[t] /\ taskLock'[t] = Free
         /\ taskLock[t] # s => taskTip'[t] = taskTip[t] /\ taskLock'[t] = taskLock[t]
  BY DEF RolledBack
<1>4. \A b \in Blocks :
         /\ blockLock[b] = s => blockTip'[b] = block[b] /\ blockLock'[b] = Free
         /\ blockLock[b] # s => blockTip'[b] = blockTip[b] /\ blockLock'[b] = blockLock[b]
  BY DEF RolledBack
<1>5. ASSUME NEW t \in Tasks PROVE TaskHeldOK(t)' /\ MarkOK(t)' /\ OneRival(t)'
  <2>1. TaskHeldOK(t)' /\ MarkOK(t)'
    BY <1>1, <1>3 DEF MarksOK, TaskHeldOK, MarkOK
  <2>2. Rivals(t)' \subseteq Rivals(t)
    BY <1>1, <1>4 DEF Rivals, Open
  <2> QED BY <2>1, <2>2 DEF MarksOK, OneRival
<1>6. ASSUME NEW t \in Tasks, NEW b \in Blocks, Clearing(b, t), blockLock[b] # s
      PROVE  Clearing(b, t)'
  <2>1. PICK r \in Sessions : call[r].pc = "clear_block" /\ call[r].b = b /\ call[r].t = t
    BY <1>6 DEF Clearing
  <2>2. r # s
    BY <1>2, <1>6, <2>1 DEF RefOK
  <2> QED BY <1>1, <1>6, <2>1, <2>2 DEF Clearing, Exists
<1>7. ASSUME NEW t \in Tasks PROVE TipMarkOK(t)'
  <2> SUFFICES ASSUME taskTip'[t].blocked # Null PROVE TipMarkOK(t)'
    BY DEF TipMarkOK
  <2>1. CASE taskLock[t] = s
    <3>1. PICK b \in Blocks : Open(block[b], t) /\ block[b].start = task[t].blocked
      BY <1>3, <2>1 DEF MarksOK, MarkOK
    <3>2. /\ Exists(block[b]) /\ block[b].end = Null
          /\ blockTip[b].of = t /\ blockTip[b].start = task[t].blocked
      BY <3>1, SameBlock, TaskIdsAreNumbers DEF Open, Exists
    <3>3. CASE blockLock[b] \in {s, Free}
      BY <1>3, <1>4, <2>1, <3>1, <3>2, <3>3, SameBlock DEF TipMarkOK, Open
    <3>4. ASSUME NEW q \in Sessions \ {s}, blockLock[b] = q PROVE TipMarkOK(t)'
      <4>1. blockTip[b].end = Null \/ (call[q].pc = "clear_block" /\ call[q].b = b)
        BY <2>1, <3>2, <3>4 DEF MarksOK, KeeperOK
      <4>2. call[q].pc = "clear_block" /\ call[q].b = b => Clearing(b, t)
        BY <1>2, <3>2, <3>4 DEF Clearing, PayeeOK
      <4>3. blockTip[b].end = Null \/ Clearing(b, t)'
        BY <1>6, <3>4, <4>1, <4>2
      <4> QED BY <1>3, <1>4, <2>1, <3>2, <3>4, <4>3 DEF TipMarkOK
    <3> QED BY <3>3, <3>4 DEF IInv, TypeOK
  <2>2. CASE taskLock[t] # s
    <3>1. TipMarkOK(t) /\ taskTip'[t] = taskTip[t] /\ taskLock'[t] = taskLock[t]
      BY <1>3, <2>2 DEF MarksOK
    <3>2. ASSUME NEW r \in Sessions, taskLock[t] = r, call[r].pc = "insert_block", call[r].t = t
          PROVE  taskLock'[t] = r /\ call'[r].pc = "insert_block" /\ call'[r].t = t
      BY <1>1, <2>2, <3>1, <3>2
    <3>3. ASSUME NEW b \in Blocks,
                 blockTip[b].of = t, blockTip[b].start = taskTip[t].blocked,
                 blockTip[b].end = Null \/ Clearing(b, t)
          PROVE  /\ blockTip'[b].of = t /\ blockTip'[b].start = taskTip'[t].blocked
                 /\ blockTip'[b].end = Null \/ Clearing(b, t)'
      <4>1. CASE blockLock[b] # s
        BY <1>4, <1>6, <3>1, <3>3, <4>1
      <4>2. CASE blockLock[b] = s
        <5>1. Exists(blockTip[b])
          BY <3>3, TaskIdsAreNumbers DEF Exists
        <5>2. Exists(block[b])
          BY <2>2, <3>3, <4>2, <5>1 DEF MarksOK, KeeperOK
        <5>3. block[b].end = Null
          BY <3>3, <5>2, SameBlock DEF Clearing
        <5> QED BY <1>4, <3>1, <3>3, <4>2, <5>2, <5>3, SameBlock
      <4> QED BY <4>1, <4>2
    <3> QED BY <3>1, <3>2, <3>3 DEF TipMarkOK
  <2> QED BY <2>1, <2>2
<1>8. ASSUME NEW r \in Sessions PROVE PayeeOK(r)' /\ InsertingOK(r)'
  <2>1. CASE r = s
    BY <1>1, <2>1 DEF PayeeOK, InsertingOK
  <2>2. CASE r # s
    <3>1. PayeeOK(r) /\ InsertingOK(r) /\ call'[r] = call[r] /\ CallOK(call[r]) /\ RefOK(r)
      BY <1>1, <1>2, <2>2 DEF MarksOK
    <3>2. InsertingOK(r)'
      BY <1>3, <2>2, <3>1 DEF InsertingOK, CallOK
    <3>3. ASSUME call[r].pc \in {"close_block", "clear_block", "review", "credit"}
          PROVE  call[r].t = blockTip'[call[r].b].of
      <4>1. call[r].b \in Blocks /\ call[r].t = blockTip[call[r].b].of
        BY <3>1, <3>3 DEF CallOK, PayeeOK
      <4>2. CASE blockLock[call[r].b] = s
        BY <1>4, <2>2, <3>1, <3>3, <4>1, <4>2, SameBlock DEF RefOK
      <4>3. CASE blockLock[call[r].b] # s
        BY <1>4, <4>1, <4>3
      <4> QED BY <4>2, <4>3
    <3> QED BY <3>1, <3>2, <3>3 DEF PayeeOK
  <2> QED BY <2>1, <2>2
<1>9. ASSUME NEW r \in Sessions, NEW b \in Blocks PROVE KeeperOK(r, b)'
  <2> SUFFICES ASSUME blockLock'[b] = r PROVE KeeperOK(r, b)'
    BY DEF KeeperOK
  <2>1. blockLock[b] = r /\ r # s /\ blockTip'[b] = blockTip[b] /\ call'[r] = call[r]
    BY <1>1, <1>4
  <2>2. KeeperOK(r, b) /\ (Exists(block[b]) => Exists(blockTip[b]))
    BY SettledTip DEF MarksOK
  <2>3. Exists(blockTip[b]) => blockTip[b].of \in Tasks
    BY DEF IInv, TypeOK, BlockRow, Exists
  <2> QED BY <1>1, <1>3, <2>1, <2>2, <2>3 DEF KeeperOK, Exists
<1> QED BY <1>5, <1>7, <1>8, <1>9 DEF MarksOK

(* A commit publishes a mark and its block, or the end of the block and    *)
(* no mark, together.                                                      *)
LEMMA MarksCommit ==
  ASSUME IInv, MarksOK, NEW s \in Sessions, Commit(s)
  PROVE  MarksOK'
<1>1. /\ call'[s] = Idle /\ \A r \in Sessions \ {s} : call'[r] = call[r]
      /\ Free \notin Sessions /\ UNCHANGED <<taskTip, blockTip>>
      /\ Idle.pc = "idle" /\ call[s].pc = "commit"
  BY BlocksAssumption DEF IInv, TypeOK, Commit, Idle
<1>2. \A r \in Sessions : CallOK(call[r]) /\ RefOK(r) /\ PayeeOK(r)
  BY DEF IInv, CallsOK, MarksOK
<1>3. \A t \in Tasks :
         /\ taskLock[t] = s => task'[t] = taskTip[t] /\ taskLock'[t] = Free
         /\ taskLock[t] # s => task'[t] = task[t] /\ taskLock'[t] = taskLock[t]
  BY DEF Commit
<1>4. \A b \in Blocks :
         /\ blockLock[b] = s => block'[b] = blockTip[b] /\ blockLock'[b] = Free
         /\ blockLock[b] # s => block'[b] = block[b] /\ blockLock'[b] = blockLock[b]
  BY DEF Commit
<1>5. ASSUME NEW t \in Tasks, NEW b \in Blocks, Clearing(b, t) PROVE Clearing(b, t)' /\ blockLock[b] # s
  <2>1. PICK r \in Sessions : call[r].pc = "clear_block" /\ call[r].b = b /\ call[r].t = t
    BY <1>5 DEF Clearing
  <2>2. r # s /\ blockLock[b] = r
    BY <1>1, <1>2, <2>1 DEF RefOK
  <2> QED BY <1>1, <1>4, <1>5, <2>1, <2>2 DEF Clearing, Exists
<1>6. ASSUME NEW t \in Tasks PROVE MarkOK(t)'
  <2> SUFFICES ASSUME task'[t].blocked # Null
               PROVE  \E b \in Blocks : Open(block'[b], t) /\ block'[b].start = task'[t].blocked
    BY DEF MarkOK
  <2>1. CASE taskLock[t] = s
    <3>1. PICK b \in Blocks :
            /\ blockTip[b].of = t /\ blockTip[b].start = taskTip[t].blocked
            /\ blockTip[b].end = Null \/ Clearing(b, t)
      BY <1>1, <1>3, <2>1 DEF MarksOK, TipMarkOK
    <3>2. Exists(blockTip[b])
      BY <3>1, TaskIdsAreNumbers DEF Exists
    <3>3. CASE blockLock[b] = s
      BY <1>3, <1>4, <1>5, <2>1, <3>1, <3>3 DEF Open
    <3>4. CASE blockLock[b] = Free
      <4>1. blockTip[b] = block[b] /\ block'[b] = block[b]
        BY <1>1, <1>4, <3>4, SameBlock
      <4> QED BY <1>3, <2>1, <3>1, <4>1 DEF Open, Clearing
    <3>5. ASSUME NEW q \in Sessions \ {s}, blockLock[b] = q
          PROVE  Open(block'[b], t) /\ block'[b].start = task'[t].blocked
      <4>1. Exists(block[b])
        BY <2>1, <3>1, <3>2, <3>5 DEF MarksOK, KeeperOK
      <4>2. block[b].end = Null
        BY <3>1, <4>1, SameBlock DEF Clearing
      <4> QED BY <1>3, <1>4, <2>1, <3>1, <3>5, <4>1, <4>2, SameBlock DEF Open
    <3> QED BY <3>3, <3>4, <3>5 DEF IInv, TypeOK
  <2>2. CASE taskLock[t] # s
    <3>1. PICK b \in Blocks : Open(block[b], t) /\ block[b].start = task[t].blocked
      BY <1>3, <2>2 DEF MarksOK, MarkOK
    <3>2. Exists(block[b]) /\ block[b].end = Null /\ blockTip[b].of = t
          /\ blockTip[b].start = task[t].blocked
      BY <3>1, SameBlock, TaskIdsAreNumbers DEF Open, Exists
    <3>3. blockLock[b] = s => blockTip[b].end = Null
      BY <1>1, <2>2, <3>2 DEF MarksOK, KeeperOK
    <3> QED BY <1>3, <1>4, <2>2, <3>1, <3>2, <3>3 DEF Open
  <2> QED BY <2>1, <2>2
<1>7. ASSUME NEW t \in Tasks PROVE TaskHeldOK(t)' /\ OneRival(t)'
  <2>1. TaskHeldOK(t)'
    BY <1>1, <1>3 DEF MarksOK, TaskHeldOK
  <2>2. Rivals(t)' \subseteq Rivals(t)
    BY <1>1, <1>4 DEF Rivals, Open
  <2> QED BY <2>1, <2>2 DEF MarksOK, OneRival
<1>8. ASSUME NEW t \in Tasks PROVE TipMarkOK(t)'
  <2> SUFFICES ASSUME taskTip[t].blocked # Null PROVE TipMarkOK(t)'
    BY <1>1 DEF TipMarkOK
  <2>1. TipMarkOK(t)
    BY DEF MarksOK
  <2>2. ASSUME NEW r \in Sessions, taskLock[t] = r, call[r].pc = "insert_block", call[r].t = t
        PROVE  taskLock'[t] = r /\ call'[r].pc = "insert_block" /\ call'[r].t = t
    BY <1>1, <1>3, <2>2
  <2> QED BY <1>1, <1>5, <2>1, <2>2 DEF TipMarkOK
<1>9. ASSUME NEW r \in Sessions PROVE PayeeOK(r)' /\ InsertingOK(r)'
  <2>1. CASE r = s
    BY <1>1, <2>1 DEF PayeeOK, InsertingOK
  <2>2. CASE r # s
    <3>1. PayeeOK(r) /\ InsertingOK(r) /\ call'[r] = call[r] /\ CallOK(call[r])
      BY <1>1, <1>2, <2>2 DEF MarksOK
    <3> QED BY <1>1, <1>3, <2>2, <3>1 DEF InsertingOK, CallOK, PayeeOK
  <2> QED BY <2>1, <2>2
<1>10. ASSUME NEW r \in Sessions, NEW b \in Blocks PROVE KeeperOK(r, b)'
  <2> SUFFICES ASSUME blockLock'[b] = r PROVE KeeperOK(r, b)'
    BY DEF KeeperOK
  <2>1. blockLock[b] = r /\ r # s /\ block'[b] = block[b] /\ call'[r] = call[r]
    BY <1>1, <1>4
  <2>2. KeeperOK(r, b) /\ (Exists(block[b]) => Exists(blockTip[b]))
    BY SettledTip DEF MarksOK
  <2>3. Exists(blockTip[b]) => blockTip[b].of \in Tasks
    BY DEF IInv, TypeOK, BlockRow, Exists
  <2> QED BY <1>1, <1>3, <2>1, <2>2, <2>3 DEF KeeperOK, Exists
<1> QED BY <1>6, <1>7, <1>8, <1>9, <1>10 DEF MarksOK

(* Moving on without writing. *)
LEMMA MarksGoto ==
  ASSUME IInv, IInv', MarksOK, NEW s \in Sessions, NEW c,
         call' = [call EXCEPT ![s] = c],
         UNCHANGED <<task, taskTip, taskLock, block, blockTip, blockLock>>,
         c.pc \notin {"insert_block", "clear_block"},
         call[s].pc \notin {"insert_block", "clear_block"},
         c.pc \in {"close_block", "review", "credit"} => c.t = blockTip[c.b].of
  PROVE  MarksOK'
<1>1. (\A b \in Blocks : SameSpan(b)) /\ (\A t \in Tasks : Keeps(s, t))
  BY DEF SameSpan, Keeps
<1> QED BY <1>1, MarksKept

(* Writing the task the transaction works on. *)
LEMMA MarksWrite ==
  ASSUME IInv, IInv', MarksOK, NEW s \in Sessions, NEW pc \in {"write", "commit", "next_orphan"},
         Goto(s, pc), call[s].t \in Tasks, CanLockTask(s, call[s].t), NEW row,
         taskTip' = [taskTip EXCEPT ![call[s].t] = row],
         taskLock' = [taskLock EXCEPT ![call[s].t] = s],
         UNCHANGED <<task, block>>, \A b \in Blocks : SameSpan(b),
         call[s].pc # "insert_block",
         row.blocked \in {taskTip[call[s].t].blocked, Null},
         call[s].pc = "clear_block" => row.blocked = Null
  PROVE  MarksOK'
<1> DEFINE c == [call[s] EXCEPT !.pc = pc]
<1>1. call' = [call EXCEPT ![s] = c] /\ c.pc = pc
  BY DEF Goto, IInv, TypeOK, Call
<1>2. \A t \in Tasks : Keeps(s, t)
  BY DEF Keeps, IInv, TypeOK, CanLockTask
<1>3. taskTip'[call[s].t] = row /\ taskLock'[call[s].t] = s
  BY DEF IInv, TypeOK
<1> HIDE DEF c
<1> QED BY <1>1, <1>2, <1>3, MarksKept

(* The statements of people about a task, ... *)
LEMMA MarksTaskStatements ==
  ASSUME IInv, IInv', MarksOK, FInv, NEW s \in Sessions,
         InsertTask(s) \/ CompleteTask(s) \/ CancelTask(s) \/ ReassignTask(s)
           \/ UpdateTask(s) \/ UnassignTask(s)
  PROVE  MarksOK'
<1> DEFINE c == call[s]  row == taskTip[c.t]
<1>0. c.t \in Tasks /\ row \in TaskRow /\ c.pc \in {"insert", "write"}
  BY DEF IInv, TypeOK, CallsOK, CallOK, InsertTask, CompleteTask, CancelTask, ReassignTask,
         UpdateTask, UnassignTask, At
<1>1. CASE RolledBack(s)
  BY <1>1, MarksRollback
<1>2. ASSUME UNCHANGED tables, NEW pc \in {"commit", "next_orphan"}, Goto(s, pc) PROVE MarksOK'
  <2> DEFINE d == [call[s] EXCEPT !.pc = pc]
  <2>1. call' = [call EXCEPT ![s] = d] /\ d.pc = pc
    BY <1>2 DEF Goto, IInv, TypeOK, Call
  <2> HIDE DEF d
  <2> QED BY <1>0, <1>2, <2>1, MarksGoto DEF tables
<1>3. ASSUME NEW pc \in {"commit", "next_orphan"}, Goto(s, pc), NEW new,
             WriteTask(s, c.t, new), CanLockTask(s, c.t),
             new.blocked \in {row.blocked, Null}
      PROVE  MarksOK'
  <2>1. /\ taskTip' = [taskTip EXCEPT ![c.t] = new]
        /\ taskLock' = [taskLock EXCEPT ![c.t] = s]
        /\ UNCHANGED <<task, block>> /\ \A b \in Blocks : SameSpan(b)
    BY <1>3 DEF WriteTask, SameSpan
  <2> QED BY <1>0, <1>3, <2>1, MarksWrite
<1>4. CASE InsertTask(s)
  <2> DEFINE new == [NoTask EXCEPT !.status = "open", !.assignee = c.to, !.due = c.due]
  <2>1. new.blocked = Null /\ WriteTask(s, c.t, new) /\ Goto(s, "commit") /\ taskLock[c.t] = Free
    BY <1>4 DEF InsertTask, NoTask, FInv, TargetOK, At
  <2> HIDE DEF new
  <2> QED BY <1>3, <2>1 DEF CanLockTask
<1>5. CASE CompleteTask(s)
  <2> DEFINE new == [row EXCEPT !.status = "completed", !.done = c.at]
  <2>1. new.blocked = row.blocked
    BY <1>0 DEF TaskRow
  <2> HIDE DEF new
  <2> QED BY <1>1, <1>3, <1>5, <2>1 DEF CompleteTask, new
<1>6. CASE CancelTask(s)
  <2> DEFINE new == [row EXCEPT !.status = "cancelled"]
  <2>1. new.blocked = row.blocked
    BY <1>0 DEF TaskRow
  <2> HIDE DEF new
  <2> QED BY <1>1, <1>3, <1>6, <2>1 DEF CancelTask, new
<1>7. CASE ReassignTask(s)
  <2> DEFINE new == [Forgotten(row) EXCEPT
                        !.assignee = c.to, !.due = c.due, !.blocked = Null,
                        !.credit = 0, !.moved = TRUE]
  <2>1. new.blocked = Null
    BY <1>0 DEF TaskRow, Forgotten
  <2> HIDE DEF new
  <2> QED BY <1>1, <1>3, <1>7, <2>1 DEF ReassignTask, new
<1>8. CASE UpdateTask(s)
  <2> DEFINE kept == IF c.old.told = Null THEN row ELSE Forgotten(row)
             new  == IF c.due = c.old.due THEN kept ELSE [kept EXCEPT !.due = c.due]
  <2>1. Forgotten(row) \in TaskRow /\ Forgotten(row).blocked = row.blocked
    BY <1>0 DEF TaskRow, Forgotten, TimeOrNull
  <2>2. \A r \in TaskRow : [r EXCEPT !.due = c.due].blocked = r.blocked
    BY DEF TaskRow
  <2>3. new.blocked = row.blocked
    BY <1>0, <2>1, <2>2
  <2>4. \/ UNCHANGED tables
        \/ CanLockTask(s, c.t) /\ WriteTask(s, c.t, new)
    BY <1>8, Zenon DEF UpdateTask
  <2>5. Goto(s, "commit")
    BY <1>8 DEF UpdateTask
  <2> HIDE DEF new
  <2> QED BY <1>2, <1>3, <2>3, <2>4, <2>5
<1>9. CASE UnassignTask(s)
  <2> DEFINE new == [row EXCEPT !.assignee = Nobody]
  <2>1. new.blocked = row.blocked
    BY <1>0 DEF TaskRow
  <2> HIDE DEF new
  <2> QED BY <1>2, <1>3, <1>9, <2>1 DEF UnassignTask, new
<1> QED BY <1>4, <1>5, <1>6, <1>7, <1>8, <1>9

(* ... those that clear its mark or add to its approved time, ... *)
LEMMA MarksCrediting ==
  ASSUME IInv, IInv', MarksOK, NEW s \in Sessions, ClearBlockedState(s) \/ AddApprovedSeconds(s)
  PROVE  MarksOK'
<1> DEFINE c == call[s]  blk == blockTip[c.b]  old == taskTip[c.t]
<1>1. /\ c.t \in Tasks /\ old \in TaskRow /\ c.b \in Blocks /\ c.pc # "insert_block"
      /\ blk \in BlockRow /\ blk.end # Null /\ CanLockTask(s, c.t)
  BY DEF IInv, TypeOK, CallsOK, CallOK, RefOK, ClearBlockedState, AddApprovedSeconds, At
<1>2. Length(blk) \in Nat
  BY <1>1, LengthOfEnded
<1>3. UNCHANGED <<task, block, blockLock>> /\ \A b \in Blocks : SameSpan(b)
  <2>1. \A r \in BlockRow : \A n :
          /\ [r EXCEPT !.paid = n].of = r.of /\ [r EXCEPT !.paid = n].start = r.start
          /\ [r EXCEPT !.paid = n].end = r.end
    BY DEF BlockRow
  <2>2. PICK n : blockTip' = [blockTip EXCEPT ![c.b] = [@ EXCEPT !.paid = n]]
    BY DEF ClearBlockedState, AddApprovedSeconds
  <2>3. UNCHANGED <<task, block, blockLock>>
    BY DEF ClearBlockedState, AddApprovedSeconds
  <2> QED BY <1>1, <2>1, <2>2, <2>3 DEF SameSpan, IInv, TypeOK
<1>4. CASE AddApprovedSeconds(s)
  <2>1. Credited(old, blk).blocked = old.blocked
    BY <1>1, <1>2, WhatCreditingDoes
  <2>2. /\ Goto(s, "commit") /\ c.pc = "credit"
        /\ taskTip' = [taskTip EXCEPT ![c.t] = Credited(old, blk)]
        /\ taskLock' = [taskLock EXCEPT ![c.t] = s]
    BY <1>4 DEF AddApprovedSeconds, At
  <2> QED BY <1>1, <1>3, <2>1, <2>2, MarksWrite
<1>5. CASE ClearBlockedState(s)
  <2> DEFINE row == [old EXCEPT !.blocked = Null]
             new == IF Approved(blk) /\ Length(blk) > 0 THEN Credited(row, blk) ELSE row
             pc  == IF c.op = "unblock" THEN "commit" ELSE "write"
  <2>1. row \in TaskRow /\ row.blocked = Null
    BY <1>1 DEF TaskRow, TimeOrNull
  <2>2. Credited(row, blk).blocked = row.blocked
    BY <2>1, <1>2, WhatCreditingDoes
  <2>3. new.blocked = Null
    BY <2>1, <2>2
  <2>4. /\ Goto(s, pc) /\ pc \in {"commit", "write"}
        /\ taskTip' = [taskTip EXCEPT ![c.t] = new]
        /\ taskLock' = [taskLock EXCEPT ![c.t] = s]
    BY <1>5 DEF ClearBlockedState
  <2> HIDE DEF new, pc
  <2> QED BY <1>1, <1>3, <2>3, <2>4, MarksWrite
<1> QED BY <1>4, <1>5

(* ... the scan that claims it, ... *)
LEMMA MarksClaim ==
  ASSUME IInv, IInv', MarksOK, NEW s \in Sessions, ClaimOverdue(s)
  PROVE  MarksOK'
<1> DEFINE c == call[s]
           found == {t \in Tasks : Claimable(s, t)}
           new(t) == [taskTip[t] EXCEPT !.told = c.at, !.alertFor = taskTip[t].due]
           d == [c EXCEPT !.pc = "commit"]
<1>1. /\ c.pc = "claim" /\ c \in Call /\ d.pc = "commit" /\ call' = [call EXCEPT ![s] = d]
      /\ UNCHANGED <<task, block, blockTip, blockLock>>
  BY DEF ClaimOverdue, At, IInv, TypeOK, Goto, Call
<1>2. ASSUME NEW t \in Tasks PROVE Keeps(s, t)
  <2>1. taskTip[t] \in TaskRow
    BY DEF IInv, TypeOK
  <2>2. CASE t \notin found
    BY <2>2 DEF ClaimOverdue, Keeps
  <2>3. CASE t \in found
    <3>1. taskTip'[t] = new(t) /\ taskLock'[t] = s /\ taskLock[t] \in {s, Free}
      BY <2>3 DEF ClaimOverdue, CanLockTask
    <3>2. new(t).blocked = taskTip[t].blocked
      BY <2>1 DEF TaskRow
    <3> HIDE DEF new, found
    <3> QED BY <3>1, <3>2 DEF Keeps
  <2> QED BY <2>2, <2>3
<1>3. \A b \in Blocks : SameSpan(b)
  BY <1>1 DEF SameSpan
<1> HIDE DEF d
<1> QED BY <1>1, <1>2, <1>3, MarksKept

(* ... and those that end or review a block. *)
LEMMA MarksOtherStatements ==
  ASSUME IInv, IInv', MarksOK, NEW s \in Sessions,
         GetOpenBlock(s) \/ CloseBlock(s) \/ ReviewBlock(s) \/ NextOrphan(s)
  PROVE  MarksOK'
<1> DEFINE c == call[s]
<1>1. /\ c \in Call /\ c.pc \in {"find_block", "close_block", "review", "next_orphan"}
      /\ PayeeOK(s) /\ CallOK(c)
  BY DEF IInv, TypeOK, CallsOK, MarksOK, GetOpenBlock, CloseBlock, ReviewBlock, NextOrphan, At
<1>2. CASE RolledBack(s)
  BY <1>2, MarksRollback
<1>3. ASSUME NEW pc \in {"write", "claim"}, Goto(s, pc), UNCHANGED tables PROVE MarksOK'
  <2> DEFINE d == [call[s] EXCEPT !.pc = pc]
  <2>1. call' = [call EXCEPT ![s] = d] /\ d.pc = pc
    BY <1>3 DEF Goto, IInv, TypeOK, Call
  <2> HIDE DEF d
  <2> QED BY <1>1, <1>3, <2>1, MarksGoto DEF tables
<1>4. CASE GetOpenBlock(s)
  <2>1. ASSUME NEW b \in Blocks, Open(SeenBlock(s, b), c.t), NEW at, UNCHANGED tables,
               call' = [call EXCEPT ![s].pc = "close_block", ![s].b = b, ![s].at = at]
        PROVE  MarksOK'
    <3> DEFINE d == [call[s] EXCEPT !.pc = "close_block", !.b = b, !.at = at]
    <3>1. call' = [call EXCEPT ![s] = d]
      BY <2>1 DEF IInv, TypeOK
    <3>2. d.pc = "close_block" /\ d.t = c.t /\ d.b = b
      BY <1>1 DEF Call
    <3>3. c.t \in Tasks
      BY <1>1, <1>4 DEF CallOK, GetOpenBlock, At
    <3>4. c.t = blockTip[b].of
      BY <2>1, <3>3, SameBlock, TaskIdsAreNumbers DEF SeenBlock, Open, Exists
    <3> HIDE DEF d
    <3> QED BY <1>1, <1>4, <2>1, <3>1, <3>2, <3>4, MarksGoto DEF tables, GetOpenBlock, At
  <2> QED BY <1>2, <1>3, <1>4, <2>1 DEF GetOpenBlock
<1>5. CASE CloseBlock(s)
  BY <1>2, <1>5, MarksClose DEF CloseBlock, Closable, At
<1>6. CASE ReviewBlock(s)
  <2> DEFINE blk == blockTip[c.b]  verdict == IF c.op = "approve" THEN "approved" ELSE "rejected"
             new == [blk EXCEPT !.review = verdict]
             pc == IF c.op = "approve" /\ blk.end # Null THEN "credit" ELSE "commit"
             d == [call[s] EXCEPT !.pc = pc]
  <2> SUFFICES ASSUME WriteBlock(s, c.b, new), Goto(s, pc), CanLockBlock(s, c.b) PROVE MarksOK'
    BY <1>2, <1>6 DEF ReviewBlock
  <2>1. c.b \in Blocks /\ c.pc = "review" /\ blk \in BlockRow
    BY <1>1, <1>6 DEF CallOK, ReviewBlock, At, IInv, TypeOK
  <2>2. new.of = blk.of /\ new.start = blk.start /\ new.end = blk.end
    BY <2>1 DEF BlockRow
  <2>3. /\ call' = [call EXCEPT ![s] = d] /\ d.pc = pc /\ d.t = c.t /\ d.b = c.b
        /\ pc \in {"credit", "commit"}
    BY <1>1 DEF Goto, IInv, TypeOK, Call
  <2> HIDE DEF d, pc, new
  <2>4. \A b \in Blocks : SameSpan(b)
    BY <2>1, <2>2 DEF SameSpan, WriteBlock, CanLockBlock, IInv, TypeOK
  <2>5. \A t \in Tasks : Keeps(s, t)
    BY DEF Keeps, WriteBlock
  <2>6. d.t = blockTip[d.b].of
    BY <1>1, <2>1, <2>3 DEF PayeeOK
  <2>7. UNCHANGED <<task, block>>
    BY DEF WriteBlock
  <2> QED BY <2>1, <2>3, <2>4, <2>5, <2>6, <2>7, MarksKept
<1>7. CASE NextOrphan(s)
  <2>1. ASSUME NEW o \in c.todo, UNCHANGED tables,
               call' = [call EXCEPT ![s].pc = "find_block", ![s].t = o[1],
                                    ![s].from = o[2], ![s].todo = @ \ {o}]
        PROVE  MarksOK'
    <3> DEFINE d == [call[s] EXCEPT !.pc = "find_block", !.t = o[1],
                                    !.from = o[2], !.todo = @ \ {o}]
    <3>1. call' = [call EXCEPT ![s] = d] /\ d.pc = "find_block"
      BY <1>1, <2>1 DEF IInv, TypeOK, Call
    <3> HIDE DEF d
    <3> QED BY <1>1, <1>7, <2>1, <3>1, MarksGoto DEF tables, NextOrphan, At
  <2> QED BY <1>3, <1>7, <2>1 DEF NextOrphan
<1> QED BY <1>4, <1>5, <1>6, <1>7

(* Beginning a request. *)
LEMMA MarksRequests ==
  ASSUME IInv, IInv', MarksOK, NEW s \in Sessions, StartUserRequest(s) \/ StartOther(s)
  PROVE  MarksOK'
<1>1. /\ call[s] = Idle /\ UNCHANGED <<task, taskTip, taskLock, block, blockTip, blockLock>>
      /\ Idle.pc = "idle"
  BY RequestsBegin DEF tables, Idle
<1>2. ASSUME NEW p \in People, NEW b \in Blocks, NEW decision \in {"approve", "reject"},
             StartReview(s, p, b, decision)
      PROVE  MarksOK'
  <2> DEFINE c == [Request(decision, "review", block[b].of) EXCEPT !.b = b]
  <2>1. c.pc = "review" /\ c.t = block[b].of /\ c.b = b
    BY DEF Request, Idle
  <2>2. call' = [call EXCEPT ![s] = c] /\ block[b].of = blockTip[b].of
    BY <1>2, SameBlock DEF StartReview, Begin
  <2> HIDE DEF c
  <2> QED BY <1>1, <2>1, <2>2, MarksGoto
<1>4. ASSUME NEW op, NEW c, c.pc \in {"insert", "find_block", "write", "next_orphan"},
             Begin(s, op, c)
      PROVE  MarksOK'
  <2>1. call' = [call EXCEPT ![s] = c]
    BY <1>4 DEF Begin
  <2> QED BY <1>1, <1>4, <2>1, MarksGoto
<1>5. ASSUME NEW p \in People, NEW t \in Tasks,
             StartComplete(s, p, t) \/ StartCancel(s, p, t) \/ StartUnblock(s, p, t)
      PROVE  MarksOK'
  <2>1. Timed("complete", "find_block", t).pc = "find_block" /\ Timed("cancel", "find_block", t).pc = "find_block"
        /\ Request("unblock", "find_block", t).pc = "find_block"
    BY DEF Timed, Request, Idle
  <2> QED BY <1>4, <1>5, <2>1 DEF StartComplete, StartCancel, StartUnblock
<1>6. ASSUME NEW p \in People, NEW t \in Tasks, NEW b \in Blocks, StartBlock(s, p, t, b)
      PROVE  MarksOK'
  <2> DEFINE c == [Timed("block", "write", t) EXCEPT !.by = p, !.b = b]
  <2>1. c.pc = "write" /\ Begin(s, "block", c)
    BY <1>6 DEF Timed, Request, Idle, StartBlock
  <2> HIDE DEF c
  <2> QED BY <1>4, <2>1
<1>7. ASSUME NEW p \in People, NEW t \in Tasks, NEW due \in Deadlines, StartUpdate(s, p, t, due)
      PROVE  MarksOK'
  <2> DEFINE c == [Request("update", "write", t) EXCEPT !.due = due,
                     !.old = [due |-> task[t].due, told |-> task[t].told]]
  <2>1. c.pc = "write" /\ Begin(s, "update", c)
    BY <1>7 DEF Timed, Request, Idle, StartUpdate
  <2> HIDE DEF c
  <2> QED BY <1>4, <2>1
<1>8. ASSUME NEW p \in People, NEW t \in Tasks, NEW due \in Deadlines, NEW to \in Employees,
             StartReassign(s, p, t, to, due)
      PROVE  MarksOK'
  <2> DEFINE c == [Timed("reassign", "find_block", t)
                     EXCEPT !.from = task[t].assignee, !.to = to, !.due = due]
  <2>1. c.pc = "find_block" /\ Begin(s, "reassign", c)
    BY <1>8 DEF Timed, Request, Idle, StartReassign
  <2> HIDE DEF c
  <2> QED BY <1>4, <2>1
<1>9. ASSUME NEW t \in Tasks, NEW due \in Deadlines, NEW to \in Employees \cup {Nobody},
             \/ \E p \in People : StartCreate(s, p, t, to, due)
             \/ StartCreateWorkflowTask(s, t, to, due)
      PROVE  MarksOK'
  <2>1. PICK who :
          Begin(s, "create", [Request("create", "insert", t) EXCEPT !.to = who, !.due = due])
    BY <1>9 DEF StartCreate, StartCreateWorkflowTask
  <2> DEFINE c == [Request("create", "insert", t) EXCEPT !.to = who, !.due = due]
  <2>2. c.pc = "insert" /\ Begin(s, "create", c)
    BY <2>1 DEF Request, Idle
  <2> HIDE DEF c
  <2> QED BY <1>4, <2>2
<1>10. ASSUME StartScan(s)
       PROVE  MarksOK'
  <2> DEFINE orphans == {<<t, task[t].assignee>> : t \in LeaversTasks}
             c       == [Timed("scan", "next_orphan", Null) EXCEPT !.todo = orphans]
  <2>1. Begin(s, "scan", c)
    BY <1>10, Zenon DEF StartScan
  <2> HIDE DEF orphans
  <2>2. c.pc = "next_orphan"
    BY DEF Timed, Request, Idle
  <2> HIDE DEF c
  <2> QED BY <1>4, <2>1, <2>2
<1> QED BY <1>2, <1>5, <1>6, <1>7, <1>8, <1>9, <1>10 DEF StartUserRequest, StartOther

(* The clock and the staff. *)
LEMMA MarksOthers ==
  ASSUME MarksOK, UNCHANGED <<tables, call>>
  PROVE  MarksOK'
<1>1. UNCHANGED <<task, taskTip, taskLock, block, blockTip, blockLock, call>>
  BY DEF tables
<1>2. \A t \in Tasks : (TaskHeldOK(t) /\ MarkOK(t) /\ OneRival(t))'
  BY <1>1 DEF MarksOK, TaskHeldOK, MarkOK, OneRival, Rivals
<1>3. \A t \in Tasks : TipMarkOK(t)'
  BY <1>1 DEF MarksOK, TipMarkOK, Clearing
<1>4. \A s \in Sessions : (PayeeOK(s) /\ InsertingOK(s))'
  BY <1>1 DEF MarksOK, PayeeOK, InsertingOK
<1>5. \A s \in Sessions, b \in Blocks : KeeperOK(s, b)'
  BY <1>1 DEF MarksOK, KeeperOK
<1> QED BY <1>2, <1>3, <1>4, <1>5 DEF MarksOK

(* IInv /\ FInv /\ MarksOK /\ [Next]_vars => MarksOK'. *)
LEMMA MarksNext == IInv /\ FInv /\ MarksOK /\ [Next]_vars => MarksOK'
<1> SUFFICES ASSUME IInv, FInv, MarksOK, [Next]_vars PROVE MarksOK'
  OBVIOUS
<1>1. IInv'
  BY NextIInv
<1>2. ASSUME NEW s \in Sessions, StartUserRequest(s) \/ StartOther(s) PROVE MarksOK'
  BY <1>1, <1>2, MarksRequests
<1>3. ASSUME NEW s \in Sessions, MarkTaskBlocked(s) \/ CreateBlock(s) PROVE MarksOK'
  BY <1>3, MarksMark, MarksCreate, MarksRollback
<1>4. ASSUME NEW s \in Sessions, Statement(s) PROVE MarksOK'
  BY <1>1, <1>3, <1>4, MarksTaskStatements, MarksCrediting, MarksClaim, MarksOtherStatements DEF Statement
<1>5. ASSUME NEW s \in Sessions, Commit(s) \/ Rollback(s) PROVE MarksOK'
  BY <1>5, MarksCommit, MarksRollback DEF Rollback
<1>6. CASE Tick \/ \E e \in Employees : Offboard(e) \/ Reinstate(e)
  BY <1>6, MarksOthers DEF Tick, Offboard, Reinstate
<1>7. CASE UNCHANGED vars
  BY <1>7, MarksOthers DEF vars
<1> QED BY <1>2, <1>4, <1>5, <1>6, <1>7 DEF Next

(* A task whose row says it is blocked has exactly one open block, the one *)
(* recorded with the mark, however the requests that block, unblock, end   *)
(* or reassign the task interleave (mark_task_blocked and create_block;    *)
(* close_block and clear_blocked_state; the index on open blocks).         *)
THEOREM BlockedTasksHaveTheirBlock == Spec => []BlockedMeansOpenBlock
<1>1. MarksOK => BlockedMeansOpenBlock
  BY DEF MarksOK, MarkOK, OneRival, Rivals, BlockedMeansOpenBlock
<1> QED BY <1>1, InitIInv, NextIInv, InitFInv, NextFInv, MarksInit, MarksNext, PTL DEF Spec

-----------------------------------------------------------------------------
(* The running total of approved blocked time. *)

(* The blocks of a task that were added to its total, in either version of *)
(* the table, and what they come to.                                       *)
Lengths(T)   == [b \in Blocks |-> Length(T[b])]
PaidOf(T, t) == {b \in Blocks : T[b].of = t /\ T[b].paid = 1}
Total(T, t)  == SumOver(Lengths(T), PaidOf(T, t))

(* A row agrees with the total; after a reassignment it may be behind.     *)
CreditOK(row, T, t) ==
  /\ row.credit <= Total(T, t)
  /\ ~row.moved => row.credit = Total(T, t)

(* Whoever has added a block to a total holds the total's row. *)
PayerOK(s, b) ==
  blockLock[b] = s /\ blockTip[b].paid # block[b].paid => taskLock[blockTip[b].of] = s

(* The invariant. *)
CreditsOK ==
  /\ \A t \in Tasks : CreditOK(task[t], block, t) /\ CreditOK(taskTip[t], blockTip, t)
  /\ \A s \in Sessions, b \in Blocks : PayerOK(s, b)

(* What has been paid has ended. *)
LEMMA PaidHasEnded ==
  ASSUME IInv, NEW b \in Blocks
  PROVE  /\ block[b].paid = 1 => block[b].end # Null /\ Exists(block[b]) /\ Length(block[b]) \in Nat
         /\ blockTip[b].paid = 1 => blockTip[b].end # Null /\ Length(blockTip[b]) \in Nat
         /\ block[b].paid \in {0, 1} /\ blockTip[b].paid \in {0, 1}
<1>1. RowOK(block[b]) /\ TipOK(b)
  BY DEF IInv, RowsOK
<1>2. block[b].paid = PaidInFull(block[b])
  BY <1>1 DEF RowOK
<1>3. blockTip[b].paid \in {0, PaidInFull(blockTip[b])}
  <2>1. blockTip[b] \in BlockRow
    BY DEF IInv, TypeOK
  <2>2. Settled(blockTip[b]).paid = PaidInFull(blockTip[b])
    BY <2>1 DEF Settled, BlockRow
  <2> QED BY <1>1, <2>2 DEF TipOK
<1>4. block[b].end # Null => Length(block[b]) \in Nat /\ Exists(block[b])
  BY <1>1 DEF RowOK, Length, NoBlock
<1> QED BY <1>2, <1>3, <1>4, LengthOfEnded DEF PaidInFull

(* What has just been paid is about a task. *)
LEMMA PaidIsOfATask ==
  ASSUME IInv, NEW b \in Blocks, blockTip[b].paid # block[b].paid
  PROVE  blockTip[b].of \in Tasks
<1>1. blockTip[b].paid = 1 \/ block[b].paid = 1
  BY PaidHasEnded
<1>2. block[b].paid = 1 => Exists(blockTip[b])
  BY PaidHasEnded, SettledTip
<1>3. blockTip[b].paid = 1 => Exists(blockTip[b])
  <2>1. RowOK(Settled(blockTip[b])) /\ blockTip[b] \in BlockRow
    BY SettledTip DEF IInv, TypeOK
  <2>2. Settled(blockTip[b]).of = blockTip[b].of /\ Settled(blockTip[b]).end = blockTip[b].end
    BY <2>1 DEF Settled, BlockRow
  <2> QED BY <2>1, <2>2, PaidHasEnded DEF RowOK, Exists, NoBlock
<1> QED BY <1>1, <1>2, <1>3 DEF IInv, TypeOK, BlockRow, Exists

(* Totals are numbers. *)
LEMMA TotalIsNat ==
  ASSUME IInv, NEW t
  PROVE  Total(block, t) \in Nat /\ Total(blockTip, t) \in Nat
<1>1. IsFiniteSet(PaidOf(block, t)) /\ IsFiniteSet(PaidOf(blockTip, t))
  BY PoolAssumption, FS_Subset DEF PaidOf
<1>2. \A b \in PaidOf(block, t) : Lengths(block)[b] \in Nat
  BY PaidHasEnded DEF PaidOf, Lengths
<1>3. \A b \in PaidOf(blockTip, t) : Lengths(blockTip)[b] \in Nat
  BY PaidHasEnded DEF PaidOf, Lengths
<1>4. Total(block, t) \in Nat
  BY <1>1, <1>2, SumIsNat DEF Total
<1>5. Total(blockTip, t) \in Nat
  BY <1>1, <1>3, SumIsNat DEF Total
<1> QED BY <1>4, <1>5

(* Two tables that agree on what was paid for a task agree on its total. *)
LEMMA SameTotal ==
  ASSUME NEW T, NEW U, NEW t,
         \A b \in Blocks : U[b].of = t /\ U[b].paid = 1 <=> T[b].of = t /\ T[b].paid = 1,
         \A b \in Blocks : T[b].of = t /\ T[b].paid = 1 =>
                             U[b].start = T[b].start /\ U[b].end = T[b].end
  PROVE  Total(U, t) = Total(T, t)
<1>1. PaidOf(U, t) = PaidOf(T, t)
  BY DEF PaidOf
<1>2. IsFiniteSet(PaidOf(T, t))
  BY PoolAssumption, FS_Subset DEF PaidOf
<1>3. \A b \in PaidOf(T, t) : Lengths(U)[b] = Lengths(T)[b]
  BY DEF PaidOf, Lengths, Length
<1>4. SumOver(Lengths(U), PaidOf(T, t)) = SumOver(Lengths(T), PaidOf(T, t))
  BY <1>2, <1>3, SumsAgree
<1> QED BY <1>1, <1>4 DEF Total

(* Paying a block adds its length to the total of its task. *)
LEMMA PaidTotal ==
  ASSUME IInv, NEW U, NEW d \in Blocks, blockTip[d].paid = 0, Length(blockTip[d]) \in Nat,
         \A b \in Blocks \ {d} : U[b] = blockTip[b],
         U[d].of = blockTip[d].of, U[d].start = blockTip[d].start, U[d].end = blockTip[d].end,
         U[d].paid = 1
  PROVE  /\ Total(U, blockTip[d].of) = Total(blockTip, blockTip[d].of) + Length(blockTip[d])
         /\ \A t : t # blockTip[d].of => Total(U, t) = Total(blockTip, t)
<1> DEFINE u == blockTip[d].of  S == PaidOf(blockTip, u)
<1>1. PaidOf(U, u) = S \cup {d} /\ d \notin S
  BY DEF PaidOf
<1>2. IsFiniteSet(S) /\ IsFiniteSet(PaidOf(U, u))
  BY PoolAssumption, FS_Subset DEF PaidOf
<1>3. \A b \in S \cup {d} : Lengths(U)[b] \in Int
  BY PaidHasEnded DEF PaidOf, Lengths, Length
<1>4. \A b \in S : Lengths(U)[b] = Lengths(blockTip)[b]
  BY <1>1 DEF PaidOf, Lengths
<1>5. Lengths(U)[d] = Length(blockTip[d])
  BY DEF Lengths, Length
<1>6. SumOver(Lengths(U), S \cup {d}) = Lengths(U)[d] + SumOver(Lengths(U), S)
  <2> HIDE DEF S
  <2> QED BY <1>1, <1>2, <1>3, SumAdd
<1>7. SumOver(Lengths(U), S) = SumOver(Lengths(blockTip), S)
  <2> HIDE DEF S
  <2> QED BY <1>2, <1>4, SumsAgree
<1>8. Total(blockTip, u) \in Nat
  BY TotalIsNat
<1>9. Total(U, u) = Total(blockTip, u) + Length(blockTip[d])
  <2>1. Total(U, u) = SumOver(Lengths(U), S \cup {d})
    BY <1>1 DEF Total
  <2>2. Total(blockTip, u) = SumOver(Lengths(blockTip), S)
    BY DEF Total
  <2> HIDE DEF S, u
  <2> QED BY <1>5, <1>6, <1>7, <1>8, <2>1, <2>2
<1>10. ASSUME NEW t, t # u PROVE Total(U, t) = Total(blockTip, t)
  <2>1. \A b \in Blocks : U[b].of = t /\ U[b].paid = 1 <=> blockTip[b].of = t /\ blockTip[b].paid = 1
    BY <1>10
  <2>2. \A b \in Blocks : blockTip[b].of = t /\ blockTip[b].paid = 1 =>
          U[b].start = blockTip[b].start /\ U[b].end = blockTip[b].end
    BY <1>10
  <2> QED BY <2>1, <2>2, SameTotal
<1> QED BY <1>9, <1>10

(* Init => CreditsOK. *)
LEMMA CreditsInit == Init => CreditsOK
<1> SUFFICES ASSUME Init PROVE CreditsOK
  OBVIOUS
<1>1. ASSUME NEW t \in Tasks PROVE Total(block, t) = 0
  <2>1. PaidOf(block, t) = {}
    BY DEF Init, NoBlock, PaidOf
  <2> QED BY <2>1, SumOfNone DEF Total
<1>2. block = blockTip /\ task = taskTip /\ \A t \in Tasks : task[t].credit = 0
  BY DEF Init, NoTask
<1>3. \A t \in Tasks : CreditOK(task[t], block, t)
  BY <1>1, <1>2 DEF CreditOK
<1>4. \A t \in Tasks : CreditOK(taskTip[t], blockTip, t)
  BY <1>2, <1>3, Zenon
<1>5. \A s \in Sessions, b \in Blocks : PayerOK(s, b)
  BY BlocksAssumption DEF Init, PayerOK
<1> QED BY <1>3, <1>4, <1>5 DEF CreditsOK

(* What every statement but a payment does: it leaves what was paid, and a *)
(* total, unless it starts a new one for a new assignee or a new task.     *)
PaysNothing(s, b) ==
  /\ blockTip'[b].paid = blockTip[b].paid
  /\ blockTip[b].paid = 1 => /\ blockTip'[b].start = blockTip[b].start
                             /\ blockTip'[b].end = blockTip[b].end
  /\ blockTip'[b].of = blockTip[b].of \/ (blockTip[b].paid = 0 /\ block[b].paid = 0)
  /\ blockLock'[b] \in {blockLock[b], s}
  /\ blockLock[b] \in {blockLock'[b], Free}

(* They leave its total, or take a task over with none. *)
KeepsTotal(s, t) ==
  LET row == taskTip[t]  new == taskTip'[t] IN
  /\ \/ new.credit = row.credit /\ new.moved = row.moved
     \/ new.credit = 0 /\ (new.moved \/ \A b \in Blocks : blockTip[b].of # t)
  /\ taskLock[t] \in {taskLock'[t], Free}

(* Such a statement keeps the invariant. *)
LEMMA CreditsKept ==
  ASSUME IInv, IInv', CreditsOK, NEW s \in Sessions, UNCHANGED <<task, block>>,
         \A b \in Blocks : PaysNothing(s, b), \A t \in Tasks : KeepsTotal(s, t)
  PROVE  CreditsOK'
<1>0. Free \notin Sessions
  BY BlocksAssumption
<1>1. ASSUME NEW t \in Tasks PROVE CreditOK(task[t], block, t)'
  BY DEF CreditsOK, CreditOK, Total, PaidOf, Lengths
<1>2. ASSUME NEW t \in Tasks PROVE CreditOK(taskTip'[t], blockTip', t)
  <2>1. Total(blockTip', t) = Total(blockTip, t)
    <3>1. \A b \in Blocks : blockTip'[b].of = t /\ blockTip'[b].paid = 1
                           <=> blockTip[b].of = t /\ blockTip[b].paid = 1
      BY DEF PaysNothing
    <3>2. \A b \in Blocks : blockTip[b].of = t /\ blockTip[b].paid = 1 =>
            blockTip'[b].start = blockTip[b].start /\ blockTip'[b].end = blockTip[b].end
      BY DEF PaysNothing
    <3> QED BY <3>1, <3>2, SameTotal
  <2>2. CASE taskTip'[t].credit = taskTip[t].credit /\ taskTip'[t].moved = taskTip[t].moved
    BY <2>1, <2>2 DEF CreditsOK, CreditOK
  <2>3. CASE taskTip'[t].credit = 0 /\ taskTip'[t].moved
    BY <2>1, <2>3, TotalIsNat DEF CreditOK
  <2>4. CASE taskTip'[t].credit = 0 /\ \A b \in Blocks : blockTip[b].of # t
    <3>1. PaidOf(blockTip, t) = {}
      BY <2>4 DEF PaidOf
    <3>2. Total(blockTip, t) = 0
      BY <3>1, SumOfNone DEF Total
    <3> QED BY <2>1, <2>4, <3>2 DEF CreditOK
  <2> QED BY <2>2, <2>3, <2>4 DEF KeepsTotal
<1>3. ASSUME NEW r \in Sessions, NEW b \in Blocks PROVE PayerOK(r, b)'
  <2> SUFFICES ASSUME blockLock'[b] = r, blockTip'[b].paid # block[b].paid
               PROVE  taskLock'[blockTip'[b].of] = r
    BY DEF PayerOK
  <2>1. blockTip[b].paid # block[b].paid
    BY DEF PaysNothing
  <2>2. blockLock[b] = r
    BY <2>1, SameBlock DEF PaysNothing
  <2>3. taskLock[blockTip[b].of] = r
    BY <2>1, <2>2 DEF CreditsOK, PayerOK
  <2>4. blockTip'[b].of = blockTip[b].of
    BY <2>1, PaidHasEnded DEF PaysNothing
  <2>5. blockTip[b].of \in Tasks
    BY <2>1, PaidIsOfATask
  <2> QED BY <1>0, <2>3, <2>4, <2>5 DEF KeepsTotal
<1> QED BY <1>1, <1>2, <1>3 DEF CreditsOK

(* A payment: the statement that makes a block's length count adds it to   *)
(* the total of its task in the same step.                                 *)
LEMMA CreditsPaid ==
  ASSUME IInv, IInv', MarksOK, CreditsOK, NEW s \in Sessions,
         call[s].pc \in {"clear_block", "credit"}, CanLockTask(s, call[s].t),
         blockTip' = [blockTip EXCEPT ![call[s].b].paid = @ + 1],
         taskLock' = [taskLock EXCEPT ![call[s].t] = s],
         NEW row, taskTip' = [taskTip EXCEPT ![call[s].t] = row],
         row.credit = taskTip[call[s].t].credit + Length(blockTip[call[s].b]),
         row.moved = taskTip[call[s].t].moved,
         UNCHANGED <<task, block, blockLock>>
  PROVE  CreditsOK'
<1> DEFINE d == call[s].b  u == call[s].t
<1>1. /\ d \in Blocks /\ u \in Tasks /\ u = blockTip[d].of /\ blockLock[d] = s
      /\ blockTip[d].end # Null /\ blockTip[d] \in BlockRow /\ blockTip[d].paid = 0
      /\ taskTip[u] \in TaskRow
  <2>1. CallOK(call[s]) /\ RefOK(s) /\ PayeeOK(s)
    BY DEF IInv, CallsOK, MarksOK
  <2>2. d \in Blocks /\ u \in Tasks /\ u = blockTip[d].of /\ blockLock[d] = s /\ blockTip[d].end # Null
    BY <2>1 DEF CallOK, RefOK, PayeeOK
  <2>3. blockTip[d].paid = 0
    BY <2>2 DEF IInv, RowsOK, TipOK, Owes
  <2> QED BY <2>2, <2>3 DEF IInv, TypeOK
<1>2. Length(blockTip[d]) \in Nat
  BY <1>1, LengthOfEnded
<1>3. /\ blockTip'[d].of = u /\ blockTip'[d].start = blockTip[d].start
      /\ blockTip'[d].end = blockTip[d].end /\ blockTip'[d].paid = 1
      /\ \A b \in Blocks \ {d} : blockTip'[b] = blockTip[b]
  BY <1>1 DEF IInv, TypeOK, BlockRow
<1>4. /\ Total(blockTip', u) = Total(blockTip, u) + Length(blockTip[d])
      /\ \A t : t # u => Total(blockTip', t) = Total(blockTip, t)
  <2> DEFINE U == blockTip'
  <2>1. /\ \A b \in Blocks \ {d} : U[b] = blockTip[b]
        /\ U[d].of = blockTip[d].of /\ U[d].start = blockTip[d].start /\ U[d].end = blockTip[d].end
        /\ U[d].paid = 1
    BY <1>1, <1>3
  <2> HIDE DEF U, d, u
  <2>2. /\ Total(U, blockTip[d].of) = Total(blockTip, blockTip[d].of) + Length(blockTip[d])
        /\ \A t : t # blockTip[d].of => Total(U, t) = Total(blockTip, t)
    BY <1>1, <1>2, <2>1, PaidTotal
  <2> QED BY <1>1, <2>2 DEF U
<1>5. ASSUME NEW t \in Tasks PROVE CreditOK(task[t], block, t)'
  BY DEF CreditsOK, CreditOK, Total, PaidOf, Lengths
<1>6. ASSUME NEW t \in Tasks PROVE CreditOK(taskTip'[t], blockTip', t)
  <2>1. CreditOK(taskTip[t], blockTip, t)
    BY DEF CreditsOK
  <2>2. CASE t # u
    BY <1>4, <2>1, <2>2 DEF CreditOK, IInv, TypeOK
  <2>3. CASE t = u
    <3>1. taskTip'[t] = row
      BY <1>1, <2>3 DEF IInv, TypeOK
    <3>2. taskTip[t].credit \in Nat /\ Total(blockTip, t) \in Nat
      BY <1>1, <2>3, TotalIsNat DEF TaskRow
    <3> DEFINE n == Length(blockTip[d])  T == Total(blockTip', u)
    <3>3. row.credit = taskTip[t].credit + n /\ n \in Nat /\ row.moved = taskTip[t].moved
          /\ T = Total(blockTip, t) + n
      BY <1>2, <1>4, <2>3
    <3> HIDE DEF n, T
    <3>4. row.credit <= T /\ (~row.moved => row.credit = T)
      BY <2>1, <3>2, <3>3 DEF CreditOK
    <3> QED BY <2>3, <3>1, <3>4 DEF CreditOK, T
  <2> QED BY <2>2, <2>3
<1>7. ASSUME NEW r \in Sessions, NEW b \in Blocks PROVE PayerOK(r, b)'
  <2>1. CASE b = d
    BY <1>1, <1>3, <2>1 DEF PayerOK, IInv, TypeOK
  <2>2. CASE b # d
    <3> SUFFICES ASSUME blockLock[b] = r, blockTip[b].paid # block[b].paid
                 PROVE  taskLock'[blockTip[b].of] = r
      BY <1>3, <2>2 DEF PayerOK
    <3>1. taskLock[blockTip[b].of] = r
      BY DEF CreditsOK, PayerOK
    <3> QED BY <3>1, BlocksAssumption DEF CanLockTask, IInv, TypeOK
  <2> QED BY <2>1, <2>2
<1> QED BY <1>5, <1>6, <1>7 DEF CreditsOK

(* A block counts the same in both versions of the table, unless it has    *)
(* just been paid.                                                         *)
LEMMA CountsAlike ==
  ASSUME IInv, NEW t \in Tasks, NEW b \in Blocks,
         block[b].paid = blockTip[b].paid \/ blockTip[b].of # t
  PROVE  /\ blockTip[b].of = t /\ blockTip[b].paid = 1 <=> block[b].of = t /\ block[b].paid = 1
         /\ block[b].of = t /\ block[b].paid = 1 =>
              blockTip[b].start = block[b].start /\ blockTip[b].end = block[b].end
<1>1. t # Null
  BY TaskIdsAreNumbers
<1> QED BY <1>1, SameBlock, PaidHasEnded DEF Exists

(* Rolling back restores a total together with the payments made into it.  *)
LEMMA CreditsRollback ==
  ASSUME IInv, IInv', MarksOK, CreditsOK, NEW s \in Sessions, RolledBack(s)
  PROVE  CreditsOK'
<1>0. Free \notin Sessions /\ UNCHANGED <<task, block>>
  BY BlocksAssumption DEF RolledBack
<1>1. \A t \in Tasks :
         /\ taskLock[t] = s => taskTip'[t] = task[t] /\ taskLock'[t] = Free
         /\ taskLock[t] # s => taskTip'[t] = taskTip[t] /\ taskLock'[t] = taskLock[t]
  BY DEF RolledBack
<1>2. \A b \in Blocks :
         /\ blockLock[b] = s => blockTip'[b] = block[b] /\ blockLock'[b] = Free
         /\ blockLock[b] # s => blockTip'[b] = blockTip[b] /\ blockLock'[b] = blockLock[b]
  BY DEF RolledBack
<1>3. ASSUME NEW t \in Tasks PROVE CreditOK(task[t], block, t)'
  BY <1>0 DEF CreditsOK, CreditOK, Total, PaidOf, Lengths
<1>4. ASSUME NEW t \in Tasks PROVE CreditOK(taskTip'[t], blockTip', t)
  <2>1. CASE taskLock[t] = s
    <3>1. ASSUME NEW b \in Blocks
          PROVE  /\ blockTip'[b].of = t /\ blockTip'[b].paid = 1 <=> block[b].of = t /\ block[b].paid = 1
                 /\ block[b].of = t /\ block[b].paid = 1 =>
                      blockTip'[b].start = block[b].start /\ blockTip'[b].end = block[b].end
      <4>1. CASE blockLock[b] \in {s, Free}
        BY <1>2, <4>1, SameBlock
      <4>2. ASSUME NEW q \in Sessions \ {s}, blockLock[b] = q
            PROVE  block[b].paid = blockTip[b].paid \/ blockTip[b].of # t
        BY <2>1, <4>2 DEF CreditsOK, PayerOK
      <4>3. CASE blockLock[b] \in Sessions \ {s}
        BY <1>0, <1>2, <4>2, <4>3, CountsAlike
      <4> QED BY <4>1, <4>3 DEF IInv, TypeOK
    <3>2. Total(blockTip', t) = Total(block, t)
      BY <3>1, SameTotal
    <3> QED BY <1>1, <2>1, <3>2 DEF CreditsOK, CreditOK
  <2>2. CASE taskLock[t] # s
    <3>1. ASSUME NEW b \in Blocks
          PROVE  /\ blockTip'[b].of = t /\ blockTip'[b].paid = 1 <=> blockTip[b].of = t /\ blockTip[b].paid = 1
                 /\ blockTip[b].of = t /\ blockTip[b].paid = 1 =>
                      blockTip'[b].start = blockTip[b].start /\ blockTip'[b].end = blockTip[b].end
      <4>1. CASE blockLock[b] # s
        BY <1>2, <4>1
      <4>2. CASE blockLock[b] = s
        <5>1. block[b].paid = blockTip[b].paid \/ blockTip[b].of # t
          BY <2>2, <4>2 DEF CreditsOK, PayerOK
        <5> QED BY <1>2, <4>2, <5>1, CountsAlike
      <4> QED BY <4>1, <4>2
    <3>2. Total(blockTip', t) = Total(blockTip, t)
      BY <3>1, SameTotal
    <3> QED BY <1>1, <2>2, <3>2 DEF CreditsOK, CreditOK
  <2> QED BY <2>1, <2>2
<1>5. ASSUME NEW r \in Sessions, NEW b \in Blocks PROVE PayerOK(r, b)'
  <2> SUFFICES ASSUME blockLock'[b] = r, blockTip'[b].paid # block[b].paid
               PROVE  taskLock'[blockTip'[b].of] = r
    BY <1>0 DEF PayerOK
  <2>1. r # s /\ blockLock[b] = r /\ blockTip'[b] = blockTip[b]
    BY <1>0, <1>2
  <2>2. taskLock[blockTip[b].of] = r
    BY <2>1 DEF CreditsOK, PayerOK
  <2>3. blockTip[b].of \in Tasks
    BY <2>1, PaidIsOfATask
  <2> QED BY <1>1, <2>1, <2>2, <2>3
<1> QED BY <1>3, <1>4, <1>5 DEF CreditsOK

(* A commit publishes a total together with the payments made into it.     *)
LEMMA CreditsCommit ==
  ASSUME IInv, IInv', MarksOK, CreditsOK, NEW s \in Sessions, Commit(s)
  PROVE  CreditsOK'
<1>0. Free \notin Sessions /\ UNCHANGED <<taskTip, blockTip>>
  BY BlocksAssumption DEF Commit
<1>1. \A t \in Tasks :
         /\ taskLock[t] = s => task'[t] = taskTip[t] /\ taskLock'[t] = Free
         /\ taskLock[t] # s => task'[t] = task[t] /\ taskLock'[t] = taskLock[t]
  BY DEF Commit
<1>2. \A b \in Blocks :
         /\ blockLock[b] = s => block'[b] = blockTip[b] /\ blockLock'[b] = Free
         /\ blockLock[b] # s => block'[b] = block[b] /\ blockLock'[b] = blockLock[b]
  BY DEF Commit
<1>3. ASSUME NEW t \in Tasks PROVE CreditOK(taskTip[t], blockTip, t)'
  BY <1>0 DEF CreditsOK, CreditOK, Total, PaidOf, Lengths
<1>4. ASSUME NEW t \in Tasks PROVE CreditOK(task'[t], block', t)
  <2>1. CASE taskLock[t] = s
    <3>1. ASSUME NEW b \in Blocks
          PROVE  /\ block'[b].of = t /\ block'[b].paid = 1 <=> blockTip[b].of = t /\ blockTip[b].paid = 1
                 /\ blockTip[b].of = t /\ blockTip[b].paid = 1 =>
                      block'[b].start = blockTip[b].start /\ block'[b].end = blockTip[b].end
      <4>1. CASE blockLock[b] \in {s, Free}
        BY <1>0, <1>2, <4>1, SameBlock
      <4>2. ASSUME NEW q \in Sessions \ {s}, blockLock[b] = q
            PROVE  block[b].paid = blockTip[b].paid \/ blockTip[b].of # t
        BY <2>1, <4>2 DEF CreditsOK, PayerOK
      <4>3. CASE blockLock[b] \in Sessions \ {s}
        BY <1>0, <1>2, <4>2, <4>3, CountsAlike
      <4> QED BY <4>1, <4>3 DEF IInv, TypeOK
    <3>2. Total(block', t) = Total(blockTip, t)
      BY <3>1, SameTotal
    <3> QED BY <1>1, <2>1, <3>2 DEF CreditsOK, CreditOK
  <2>2. CASE taskLock[t] # s
    <3>1. ASSUME NEW b \in Blocks
          PROVE  /\ block'[b].of = t /\ block'[b].paid = 1 <=> block[b].of = t /\ block[b].paid = 1
                 /\ block[b].of = t /\ block[b].paid = 1 =>
                      block'[b].start = block[b].start /\ block'[b].end = block[b].end
      <4>1. CASE blockLock[b] # s
        BY <1>2, <4>1
      <4>2. CASE blockLock[b] = s
        <5>1. block[b].paid = blockTip[b].paid \/ blockTip[b].of # t
          BY <2>2, <4>2 DEF CreditsOK, PayerOK
        <5> QED BY <1>2, <4>2, <5>1, CountsAlike
      <4> QED BY <4>1, <4>2
    <3>2. Total(block', t) = Total(block, t)
      BY <3>1, SameTotal
    <3> QED BY <1>1, <2>2, <3>2 DEF CreditsOK, CreditOK
  <2> QED BY <2>1, <2>2
<1>5. ASSUME NEW r \in Sessions, NEW b \in Blocks PROVE PayerOK(r, b)'
  <2> SUFFICES ASSUME blockLock'[b] = r, blockTip[b].paid # block'[b].paid
               PROVE  taskLock'[blockTip[b].of] = r
    BY <1>0 DEF PayerOK
  <2>1. r # s /\ blockLock[b] = r /\ block'[b] = block[b]
    BY <1>0, <1>2
  <2>2. taskLock[blockTip[b].of] = r
    BY <2>1 DEF CreditsOK, PayerOK
  <2>3. blockTip[b].of \in Tasks
    BY <2>1, PaidIsOfATask
  <2> QED BY <1>1, <2>1, <2>2, <2>3
<1> QED BY <1>3, <1>4, <1>5 DEF CreditsOK

(* A statement that writes one task and pays no block. *)
LEMMA CreditsWrite ==
  ASSUME IInv, IInv', CreditsOK, NEW s \in Sessions, call[s].t \in Tasks,
         CanLockTask(s, call[s].t), NEW row,
         taskTip' = [taskTip EXCEPT ![call[s].t] = row],
         taskLock' = [taskLock EXCEPT ![call[s].t] = s],
         UNCHANGED <<task, block, blockTip, blockLock>>,
         LET old == taskTip[call[s].t] IN
           \/ row.credit = old.credit /\ row.moved = old.moved
           \/ row.credit = 0 /\ (row.moved \/ \A b \in Blocks : blockTip[b].of # call[s].t)
  PROVE  CreditsOK'
<1>1. \A b \in Blocks : PaysNothing(s, b)
  BY DEF PaysNothing
<1>2. \A t \in Tasks : KeepsTotal(s, t)
  BY DEF KeepsTotal, CanLockTask, IInv, TypeOK
<1> QED BY <1>1, <1>2, CreditsKept

(* One that writes nothing. *)
LEMMA CreditsGoto ==
  ASSUME IInv, IInv', CreditsOK, NEW s \in Sessions, UNCHANGED tables
  PROVE  CreditsOK'
<1>1. \A b \in Blocks : PaysNothing(s, b)
  BY DEF PaysNothing, tables
<1>2. \A t \in Tasks : KeepsTotal(s, t)
  BY DEF KeepsTotal, tables
<1> QED BY <1>1, <1>2, CreditsKept DEF tables

(* The statements of people about a task, ... *)
LEMMA CreditsTaskStatements ==
  ASSUME IInv, IInv', MarksOK, CreditsOK, FInv, NEW s \in Sessions,
         InsertTask(s) \/ CompleteTask(s) \/ CancelTask(s) \/ ReassignTask(s)
           \/ UpdateTask(s) \/ MarkTaskBlocked(s) \/ UnassignTask(s)
  PROVE  CreditsOK'
<1> DEFINE c == call[s]  row == taskTip[c.t]
<1>0. c.t \in Tasks /\ row \in TaskRow /\ c.pc \in {"insert", "write"}
  BY DEF IInv, TypeOK, CallsOK, CallOK, InsertTask, CompleteTask, CancelTask, ReassignTask,
         UpdateTask, MarkTaskBlocked, UnassignTask, At
<1>1. CASE RolledBack(s)
  BY <1>1, CreditsRollback
<1>2. CASE UNCHANGED tables
  BY <1>2, CreditsGoto
<1>3. ASSUME NEW new, WriteTask(s, c.t, new), CanLockTask(s, c.t),
             \/ new.credit = row.credit /\ new.moved = row.moved
             \/ new.credit = 0 /\ (new.moved \/ \A b \in Blocks : blockTip[b].of # c.t)
      PROVE  CreditsOK'
  BY <1>0, <1>3, CreditsWrite DEF WriteTask
<1>4. CASE InsertTask(s)
  <2> DEFINE new == [NoTask EXCEPT !.status = "open", !.assignee = c.to, !.due = c.due]
  <2>1. new.credit = 0 /\ WriteTask(s, c.t, new) /\ taskLock[c.t] = Free /\ ~Known(c.t)
    BY <1>4 DEF InsertTask, NoTask, FInv, TargetOK, At
  <2>2. \A b \in Blocks : blockTip[b].of # c.t
    BY <1>0, <2>1, TaskIdsAreNumbers DEF FInv, BlocksOfKnown, Exists
  <2> HIDE DEF new
  <2> QED BY <1>3, <2>1, <2>2 DEF CanLockTask
<1>5. CASE CompleteTask(s)
  <2> DEFINE new == [row EXCEPT !.status = "completed", !.done = c.at]
  <2>1. new.credit = row.credit /\ new.moved = row.moved
    BY <1>0 DEF TaskRow
  <2> HIDE DEF new
  <2> QED BY <1>1, <1>3, <1>5, <2>1 DEF CompleteTask, new
<1>6. CASE CancelTask(s)
  <2> DEFINE new == [row EXCEPT !.status = "cancelled"]
  <2>1. new.credit = row.credit /\ new.moved = row.moved
    BY <1>0 DEF TaskRow
  <2> HIDE DEF new
  <2> QED BY <1>1, <1>3, <1>6, <2>1 DEF CancelTask, new
<1>7. CASE ReassignTask(s)
  <2> DEFINE new == [Forgotten(row) EXCEPT
                        !.assignee = c.to, !.due = c.due, !.blocked = Null,
                        !.credit = 0, !.moved = TRUE]
  <2>1. new.credit = 0 /\ new.moved = TRUE
    BY <1>0 DEF TaskRow, Forgotten
  <2> HIDE DEF new
  <2> QED BY <1>1, <1>3, <1>7, <2>1 DEF ReassignTask, new
<1>8. CASE UpdateTask(s)
  <2> DEFINE kept == IF c.old.told = Null THEN row ELSE Forgotten(row)
             new  == IF c.due = c.old.due THEN kept ELSE [kept EXCEPT !.due = c.due]
  <2>1. /\ Forgotten(row) \in TaskRow
        /\ Forgotten(row).credit = row.credit /\ Forgotten(row).moved = row.moved
    BY <1>0 DEF TaskRow, Forgotten, TimeOrNull
  <2>2. \A r \in TaskRow : /\ [r EXCEPT !.due = c.due].credit = r.credit
                           /\ [r EXCEPT !.due = c.due].moved = r.moved
    BY DEF TaskRow
  <2>3. new.credit = row.credit /\ new.moved = row.moved
    BY <1>0, <2>1, <2>2
  <2>4. \/ UNCHANGED tables
        \/ CanLockTask(s, c.t) /\ WriteTask(s, c.t, new)
    BY <1>8, Zenon DEF UpdateTask
  <2> HIDE DEF new
  <2> QED BY <1>2, <1>3, <2>3, <2>4
<1>9. CASE MarkTaskBlocked(s)
  <2> DEFINE new == [row EXCEPT !.blocked = c.at]
  <2>1. new.credit = row.credit /\ new.moved = row.moved
    BY <1>0 DEF TaskRow
  <2> HIDE DEF new
  <2> QED BY <1>1, <1>3, <1>9, <2>1 DEF MarkTaskBlocked, new
<1>10. CASE UnassignTask(s)
  <2> DEFINE new == [row EXCEPT !.assignee = Nobody]
  <2>1. new.credit = row.credit /\ new.moved = row.moved
    BY <1>0 DEF TaskRow
  <2> HIDE DEF new
  <2> QED BY <1>2, <1>3, <1>10, <2>1 DEF UnassignTask, new
<1> QED BY <1>4, <1>5, <1>6, <1>7, <1>8, <1>9, <1>10

(* ... the scan that claims it, ... *)
LEMMA CreditsClaim ==
  ASSUME IInv, IInv', CreditsOK, NEW s \in Sessions, ClaimOverdue(s)
  PROVE  CreditsOK'
<1> DEFINE found == {t \in Tasks : Claimable(s, t)}
           new(t) == [taskTip[t] EXCEPT !.told = call[s].at, !.alertFor = taskTip[t].due]
<1>1. UNCHANGED <<task, block, blockTip, blockLock>>
  BY DEF ClaimOverdue
<1>2. ASSUME NEW t \in Tasks PROVE KeepsTotal(s, t)
  <2>1. taskTip[t] \in TaskRow
    BY DEF IInv, TypeOK
  <2>2. CASE t \notin found
    BY <2>2 DEF ClaimOverdue, KeepsTotal
  <2>3. CASE t \in found
    <3>1. taskTip'[t] = new(t) /\ taskLock'[t] = s /\ taskLock[t] \in {s, Free}
      BY <2>3 DEF ClaimOverdue, CanLockTask
    <3>2. new(t).credit = taskTip[t].credit /\ new(t).moved = taskTip[t].moved
      BY <2>1 DEF TaskRow
    <3> HIDE DEF new, found
    <3> QED BY <3>1, <3>2 DEF KeepsTotal
  <2> QED BY <2>2, <2>3
<1>3. \A b \in Blocks : PaysNothing(s, b)
  BY <1>1 DEF PaysNothing
<1> QED BY <1>1, <1>2, <1>3, CreditsKept

(* ... those about a block ... *)
LEMMA CreditsBlockStatements ==
  ASSUME IInv, IInv', MarksOK, CreditsOK, NEW s \in Sessions,
         CloseBlock(s) \/ ReviewBlock(s) \/ CreateBlock(s)
  PROVE  CreditsOK'
<1> DEFINE c == call[s]  d == c.b  blk == blockTip[d]
<1>1. /\ d \in Blocks /\ blk \in BlockRow /\ CallOK(c) /\ ReservedOK(s)
  BY DEF IInv, TypeOK, CallsOK, CallOK, CloseBlock, ReviewBlock, CreateBlock, At
<1>2. CASE RolledBack(s)
  BY <1>2, CreditsRollback
<1>3. ASSUME NEW row, WriteBlock(s, d, row), CanLockBlock(s, d), row.paid = blk.paid,
             blk.paid = 1 => row.start = blk.start /\ row.end = blk.end,
             row.of = blk.of \/ (blk.paid = 0 /\ block[d].paid = 0)
      PROVE  CreditsOK'
  <2>1. \A b \in Blocks : PaysNothing(s, b)
    BY <1>1, <1>3 DEF PaysNothing, WriteBlock, CanLockBlock, IInv, TypeOK
  <2>2. \A t \in Tasks : KeepsTotal(s, t)
    BY <1>3 DEF KeepsTotal, WriteBlock
  <2> QED BY <1>3, <2>1, <2>2, CreditsKept DEF WriteBlock
<1>4. CASE CloseBlock(s)
  <2> DEFINE new == [blk EXCEPT !.end = c.at]
  <2>1. new.paid = blk.paid /\ new.start = blk.start /\ new.of = blk.of
    BY <1>1 DEF BlockRow
  <2>2. CASE blk.end = Null /\ WriteBlock(s, d, new) /\ CanLockBlock(s, d)
    <3> HIDE DEF new
    <3> QED BY <1>1, <1>3, <2>1, <2>2, PaidHasEnded
  <2> QED BY <1>2, <1>4, <2>2 DEF CloseBlock, Closable
<1>5. CASE ReviewBlock(s)
  <2> DEFINE new == [blk EXCEPT !.review = IF c.op = "approve" THEN "approved" ELSE "rejected"]
  <2>1. new.paid = blk.paid /\ new.start = blk.start /\ new.of = blk.of /\ new.end = blk.end
    BY <1>1 DEF BlockRow
  <2>2. CASE WriteBlock(s, d, new) /\ CanLockBlock(s, d)
    <3> HIDE DEF new
    <3> QED BY <1>3, <2>1, <2>2
  <2> QED BY <1>2, <1>5, <2>2 DEF ReviewBlock
<1>6. CASE CreateBlock(s)
  <2> DEFINE new == [NoBlock EXCEPT !.of = c.t, !.by = c.by, !.start = c.at]
  <2>1. new.paid = 0
    BY DEF NoBlock
  <2>2. ~Exists(block[d]) /\ ~Exists(blk)
    BY <1>1, <1>6 DEF ReservedOK, Reserves, CallOK, CreateBlock, At
  <2>3. blk.paid = 0 /\ block[d].paid = 0
    <3>1. block[d].paid = 0
      BY <1>1, <2>2, PaidHasEnded
    <3> QED BY <1>1, <2>2, <3>1, PaidHasEnded, PaidIsOfATask, TaskIdsAreNumbers DEF Exists
  <2>4. blockLock[d] = Free
    <3>1. \A q \in Sessions : HolderOK(q, d)
      BY <1>1 DEF IInv, HoldersOK
    <3> QED BY <1>1, <2>2, <3>1 DEF HolderOK, IInv, TypeOK
  <2>5. CASE WriteBlock(s, d, new)
    <3> HIDE DEF new
    <3> QED BY <1>3, <2>1, <2>3, <2>4, <2>5 DEF CanLockBlock
  <2> QED BY <1>2, <1>6, <2>5 DEF CreateBlock
<1> QED BY <1>4, <1>5, <1>6

(* ... and the two that pay for one. *)
LEMMA CreditsCrediting ==
  ASSUME IInv, IInv', MarksOK, CreditsOK, NEW s \in Sessions, ClearBlockedState(s) \/ AddApprovedSeconds(s)
  PROVE  CreditsOK'
<1> DEFINE c == call[s]  blk == blockTip[c.b]  old == taskTip[c.t]
<1>1. /\ c.t \in Tasks /\ old \in TaskRow /\ c.b \in Blocks /\ c.pc \in {"clear_block", "credit"}
      /\ blk \in BlockRow /\ blk.end # Null /\ CanLockTask(s, c.t) /\ old.credit \in Nat
      /\ UNCHANGED <<task, block, blockLock>>
      /\ taskLock' = [taskLock EXCEPT ![c.t] = s]
  BY DEF IInv, TypeOK, CallsOK, CallOK, RefOK, ClearBlockedState, AddApprovedSeconds, At, TaskRow
<1>2. Length(blk) \in Nat
  BY <1>1, LengthOfEnded
<1>3. CASE AddApprovedSeconds(s)
  <2>1. /\ Credited(old, blk).credit = old.credit + Length(blk)
        /\ Credited(old, blk).moved = old.moved
    BY <1>1, <1>2, WhatCreditingDoes
  <2>2. /\ taskTip' = [taskTip EXCEPT ![c.t] = Credited(old, blk)]
        /\ blockTip' = [blockTip EXCEPT ![c.b].paid = @ + 1]
    BY <1>3 DEF AddApprovedSeconds
  <2> QED BY <1>1, <2>1, <2>2, CreditsPaid
<1>4. CASE ClearBlockedState(s)
  <2> DEFINE row == [old EXCEPT !.blocked = Null]
             new == IF Approved(blk) /\ Length(blk) > 0 THEN Credited(row, blk) ELSE row
  <2>1. row \in TaskRow /\ row.credit = old.credit /\ row.moved = old.moved
    BY <1>1 DEF TaskRow, TimeOrNull
  <2>2. /\ Credited(row, blk).credit = row.credit + Length(blk)
        /\ Credited(row, blk).moved = row.moved
    BY <2>1, <1>2, WhatCreditingDoes
  <2>3. taskTip' = [taskTip EXCEPT ![c.t] = new]
    BY <1>4 DEF ClearBlockedState
  <2>4. CASE Approved(blk)
    <3>1. new.credit = old.credit + Length(blk) /\ new.moved = old.moved
      <4> DEFINE n == Length(blk)
      <4>1. n \in Nat /\ (n > 0 => new = Credited(row, blk)) /\ (n = 0 => new = row)
        BY <1>2, <2>4
      <4>2. /\ Credited(row, blk).credit = old.credit + n /\ Credited(row, blk).moved = old.moved
            /\ row.credit = old.credit /\ row.moved = old.moved
        BY <2>1, <2>2
      <4> HIDE DEF n, new, row
      <4>3. new.credit = old.credit + n /\ new.moved = old.moved
        BY <1>1, <4>1, <4>2
      <4> QED BY <4>3 DEF n
    <3>2. blockTip' = [blockTip EXCEPT ![c.b].paid = @ + 1]
      BY <1>4, <2>4 DEF ClearBlockedState
    <3> HIDE DEF new
    <3> QED BY <1>1, <2>3, <3>1, <3>2, CreditsPaid
  <2>5. CASE ~Approved(blk)
    <3>1. new.credit = old.credit /\ new.moved = old.moved
      BY <2>1, <2>5
    <3>2. blockTip' = blockTip
      <4>1. blockTip' = [blockTip EXCEPT ![c.b].paid = @]
        BY <1>4, <2>5 DEF ClearBlockedState
      <4>2. [blk EXCEPT !.paid = @] = blk
        BY <1>1 DEF BlockRow
      <4> QED BY <1>1, <4>1, <4>2 DEF IInv, TypeOK
    <3> HIDE DEF new
    <3> QED BY <1>1, <2>3, <3>1, <3>2, CreditsWrite
  <2> QED BY <2>4, <2>5
<1> QED BY <1>3, <1>4

(* The clock and the staff. *)
LEMMA CreditsOthers ==
  ASSUME CreditsOK, UNCHANGED <<tables, call>>
  PROVE  CreditsOK'
BY DEF CreditsOK, CreditOK, Total, PaidOf, Lengths, PayerOK, tables

(* IInv /\ FInv /\ MarksOK /\ CreditsOK /\ [Next]_vars => CreditsOK'. *)
LEMMA CreditsNext == IInv /\ FInv /\ MarksOK /\ CreditsOK /\ [Next]_vars => CreditsOK'
<1> SUFFICES ASSUME IInv, FInv, MarksOK, CreditsOK, [Next]_vars PROVE CreditsOK'
  OBVIOUS
<1>1. IInv'
  BY NextIInv
<1>2. ASSUME NEW s \in Sessions, StartUserRequest(s) \/ StartOther(s) PROVE CreditsOK'
  BY <1>1, <1>2, RequestsBegin, CreditsGoto
<1>3. ASSUME NEW s \in Sessions, GetOpenBlock(s) \/ NextOrphan(s) PROVE CreditsOK'
  BY <1>1, <1>3, CreditsGoto, CreditsRollback DEF GetOpenBlock, NextOrphan
<1>4. ASSUME NEW s \in Sessions, Statement(s) PROVE CreditsOK'
  BY <1>1, <1>3, <1>4, CreditsTaskStatements, CreditsClaim, CreditsBlockStatements, CreditsCrediting
  DEF Statement
<1>5. ASSUME NEW s \in Sessions, Commit(s) \/ Rollback(s) PROVE CreditsOK'
  BY <1>1, <1>5, CreditsCommit, CreditsRollback DEF Rollback
<1>6. CASE Tick \/ \E e \in Employees : Offboard(e) \/ Reinstate(e)
  BY <1>6, CreditsOthers DEF Tick, Offboard, Reinstate
<1>7. CASE UNCHANGED vars
  BY <1>7, CreditsOthers DEF vars
<1> QED BY <1>2, <1>4, <1>5, <1>6, <1>7 DEF Next

(* What a task has earned is the total of its paid blocks. *)
LEMMA EarnedIsTotal ==
  ASSUME IInv, NEW t \in Tasks
  PROVE  Earned(t) = Total(block, t)
<1> DEFINE S == {b \in Blocks : block[b].of = t /\ ClosedIn(block[b]) /\ Approved(block[b])}
<1>1. Earned(t) = SumOver(Lengths(block), S)
  BY DEF Earned, SumOver, MapThenSumSet, MapThenFoldSet, Lengths
<1>2. S = PaidOf(block, t)
  BY TaskIdsAreNumbers DEF PaidOf, ClosedIn, Exists, IInv, RowsOK, RowOK, PaidInFull
<1> QED BY <1>1, <1>2 DEF Total

(* The approved blocked time on a task is the length of its approved,      *)
(* ended blocks, each counted once (clear_blocked_state and                *)
(* add_approved_seconds against every other writer of the row); after a    *)
(* reassignment it is no more than that.                                   *)
THEOREM CreditIsEarned == Spec => []CreditMatchesBlocks
<1>1. IInv /\ CreditsOK => CreditMatchesBlocks
  BY EarnedIsTotal DEF CreditsOK, CreditOK, CreditMatchesBlocks
<1> QED BY <1>1, InitIInv, NextIInv, InitFInv, NextFInv, MarksInit, MarksNext, CreditsInit, CreditsNext, PTL
        DEF Spec

=============================================================================
