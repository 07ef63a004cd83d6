------------------------------ MODULE Workflow ------------------------------
(***************************************************************************)
(* Running cases of one workflow template: TemplateService, StepService    *)
(* and InstanceService of backend/app/modules/workflow, with the ending of *)
(* a task (modules/tasks) that moves a case on through the event listeners *)
(* in the same transaction.                                                *)
(*                                                                         *)
(* Transactions are those of TaskBlocks: one step per statement that can   *)
(* wait or be overtaken, READ COMMITTED reads, row locks until the end.    *)
(* Statements a transaction runs while it holds the lock that protects     *)
(* what they read and write are one step.  Steps of a template are only    *)
(* renumbered, added or deleted under the lock of the template's row.      *)
(*                                                                         *)
(* template, step, case and task are the committed tables, the ...Tip      *)
(* variables their newest versions, lock the holder of each row.           *)
(***************************************************************************)
EXTENDS Integers, FiniteSets, Functions

CONSTANTS
  Cases,        \* ids of workflow_instances rows
  Steps,        \* ids of workflow_steps rows
  FirstSteps,   \* the steps the template is built with, each with its position
  MaxTasks,     \* bound of the tasks of one case
  Sessions,     \* database transactions that may run at the same time
  Template,     \* the row of the template
  Free,         \* the holder of a row nobody holds
  Null,         \* no value
  Ops           \* the operations exercised by an instance of this module

StepOps     == {"add_step", "reorder_steps", "delete_step"}
TemplateOps == {"delete_template", "archive", "unarchive"}
AllOps      == StepOps \cup TemplateOps \cup {"start", "end_task", "cancel_case"}

ASSUME WorkflowAssumption ==
  /\ DOMAIN FirstSteps \subseteq Steps
  /\ IsInjective(FirstSteps)
  /\ Range(FirstSteps) = 1..Cardinality(DOMAIN FirstSteps)
  /\ IsFiniteSet(Steps)
  /\ MaxTasks \in Nat
  /\ Ops \subseteq AllOps
  /\ Free \notin Sessions
  /\ Null \notin Steps \cup Cases

(* The tasks of a case, in order of creation. *)
Tasks      == Cases \X (1..MaxTasks)
TasksOf(c) == {c} \X (1..MaxTasks)
Rows       == {Template} \cup Cases \cup Tasks

(* Rows of different tables are different rows. *)
ASSUME RowsAssumption ==
  /\ Template \notin Cases \cup Tasks
  /\ Cases \cap Tasks = {}

VARIABLES
  template, templateTip,
  step, stepTip,
  case, caseTip,
  task, taskTip,
  lock,
  call              \* what each transaction is doing

committed == <<template, step, case, task>>
tips      == <<templateTip, stepTip, caseTip, taskTip>>
tables    == <<committed, tips, lock>>
vars      == <<tables, call>>

TemplateRow == [archived : BOOLEAN, deleted : BOOLEAN]
StepRow     == [state : {"absent", "live", "deleted"}, order : Nat]
CaseStatus  == {"absent", "in_progress", "completed", "cancelled"}
(* Nothing here depends on whether a task was completed or cancelled. *)
TaskRow     == [status : {"absent", "open", "ended"}, step : Steps \cup {Null}]

NoTask      == [status |-> "absent", step |-> Null]

IsOpen(row) == row.status = "open"
Running(c)  == case[c] = "in_progress"

Call ==
  [op   : AllOps \cup {"none"},
   pc   : {"idle", "lock_template", "write_template", "end_task", "lock_case",
           "move_on", "list_tasks", "cancel_tasks", "commit"},
   c    : Cases \cup {Null},
   t    : Tasks \cup {Null},       \* the task being ended
   st   : Steps \cup {Null},       \* the step being added or deleted
   todo : SUBSET Tasks]            \* open tasks of the case being cancelled

Idle == [op |-> "none", pc |-> "idle", c |-> Null, t |-> Null, st |-> Null, todo |-> {}]

TypeOK ==
  /\ template \in TemplateRow /\ templateTip \in TemplateRow
  /\ step \in [Steps -> StepRow] /\ stepTip \in [Steps -> StepRow]
  /\ case \in [Cases -> CaseStatus] /\ caseTip \in [Cases -> CaseStatus]
  /\ task \in [Tasks -> TaskRow] /\ taskTip \in [Tasks -> TaskRow]
  /\ lock \in [Rows -> Sessions \cup {Free}]
  /\ call \in [Sessions -> Call]

Init ==
  /\ template = [archived |-> FALSE, deleted |-> FALSE] /\ templateTip = template
  /\ step = [st \in Steps |->
               IF st \in DOMAIN FirstSteps
               THEN [state |-> "live", order |-> FirstSteps[st]]
               ELSE [state |-> "absent", order |-> 0]]
  /\ stepTip = step
  /\ case = [c \in Cases |-> "absent"] /\ caseTip = case
  /\ task = [t \in Tasks |-> NoTask] /\ taskTip = task
  /\ lock = [r \in Rows |-> Free]
  /\ call = [s \in Sessions |-> Idle]

-----------------------------------------------------------------------------
(* The database. *)

CanLock(s, r)   == lock[r] \in {s, Free}
Take(s, rows)   == lock' = [r \in Rows |-> IF r \in rows THEN s ELSE lock[r]]
Goto(s, pc)     == call' = [call EXCEPT ![s].pc = pc]
At(s, pc)       == call[s].pc = pc /\ UNCHANGED committed

Newest(s, r, new, old) == IF lock[r] = s THEN new ELSE old
Release(s)      == lock' = [r \in Rows |-> IF lock[r] = s THEN Free ELSE lock[r]]

(* An exception, a lost connection or a deadlock: nothing written stays. *)
RolledBack(s) ==
  /\ templateTip' = Newest(s, Template, template, templateTip)
  /\ stepTip' = Newest(s, Template, step, stepTip)
  /\ caseTip' = [c \in Cases |-> Newest(s, c, case[c], caseTip[c])]
  /\ taskTip' = [t \in Tasks |-> Newest(s, t, task[t], taskTip[t])]
  /\ Release(s)
  /\ call' = [call EXCEPT ![s] = Idle]

Rollback(s) ==
  /\ call[s].pc # "idle"
  /\ RolledBack(s)
  /\ UNCHANGED committed

Commit(s) ==
  /\ call[s].pc = "commit"
  /\ template' = Newest(s, Template, templateTip, template)
  /\ step' = Newest(s, Template, stepTip, step)
  /\ case' = [c \in Cases |-> Newest(s, c, caseTip[c], case[c])]
  /\ task' = [t \in Tasks |-> Newest(s, t, taskTip[t], task[t])]
  /\ Release(s)
  /\ call' = [call EXCEPT ![s] = Idle]
  /\ UNCHANGED tips

-----------------------------------------------------------------------------
(* Requests: what a handler does before its first lock or write.           *)

Begin(s, op, pc, c, t, st) ==
  /\ op \in Ops
  /\ call[s] = Idle
  /\ call' = [call EXCEPT ![s] =
                [Idle EXCEPT !.op = op, !.pc = pc, !.c = c, !.t = t, !.st = st]]
  /\ UNCHANGED tables

StartInstance(s, c) ==
  /\ case[c] = "absent" /\ \A r \in Sessions : call[r].c # c
  /\ Begin(s, "start", "lock_template", c, Null, Null)

(* complete_task, or cancel_task by hand: the task is read first; whether  *)
(* it is still open is only asked by the UPDATE.                           *)
StartEndTask(s, t) ==
  /\ task[t].status # "absent"
  /\ Begin(s, "end_task", "end_task", t[1], t, Null)

StartCancelInstance(s, c) ==
  /\ case[c] # "absent"
  /\ Begin(s, "cancel_case", "lock_case", c, Null, Null)

StartAddStep(s, st) ==
  /\ step[st].state = "absent" /\ \A r \in Sessions : call[r].st # st
  /\ Begin(s, "add_step", "lock_template", Null, Null, st)

StartReorderSteps(s) == Begin(s, "reorder_steps", "lock_template", Null, Null, Null)

StartDeleteStep(s, st) ==
  /\ ~template.deleted /\ step[st].state = "live"
  /\ Begin(s, "delete_step", "lock_template", Null, Null, st)

(* delete_template, archive_template and unarchive_template read the       *)
(* template without locking it, check, and write.                          *)
StartDeleteTemplate(s) ==
  /\ ~template.deleted
  /\ \A c \in Cases : ~Running(c)
  /\ Begin(s, "delete_template", "write_template", Null, Null, Null)

StartSetArchived(s, op) ==
  /\ ~template.deleted
  /\ op = IF template.archived THEN "unarchive" ELSE "archive"
  /\ Begin(s, op, "write_template", Null, Null, Null)

-----------------------------------------------------------------------------
(* Statements. *)

Live(rows)   == {st \in Steps : rows[st].state = "live"}

(* get_template_by_id with lock: a deleted template is not found, not      *)
(* waited for, and not locked.                                             *)
GetTemplate(s, op, pc) ==
  /\ At(s, pc) /\ call[s].op = op
  /\ template.deleted \/ CanLock(s, Template)

NewTask(st)  == [status |-> "open", step |-> st]
NextTask(c)  == {t \in TasksOf(c) : /\ taskTip[t].status = "absent"
                                    /\ \A u \in TasksOf(c) : u[2] < t[2] => taskTip[u].status # "absent"}

(* Mutant: the row is read without lock=True. *)
TemplateLockForgotten == {}

TemplateLock == IF template.deleted THEN {} ELSE {Template}

First(steps) == CHOOSE st \in steps : \A u \in steps : step[st].order <= step[u].order

(* start_instance *)
CreateInstance(s) ==
  LET c == call[s].c IN
  /\ GetTemplate(s, "start", "lock_template")
  /\ IF template.deleted \/ template.archived \/ Live(step) = {}
     THEN RolledBack(s)
     ELSE \E t \in NextTask(c) :
            /\ caseTip' = [caseTip EXCEPT ![c] = "in_progress"]
            /\ taskTip' = [taskTip EXCEPT ![t] = NewTask(First(Live(step)))]
            /\ Take(s, TemplateLock \cup {c, t})
            /\ Goto(s, "commit")
            /\ UNCHANGED <<templateTip, stepTip>>

(* Mutant: "still open?" is not part of the UPDATE. *)
EndTaskAnyway(s) ==
  LET k == call[s] IN
  /\ At(s, "end_task") /\ CanLock(s, k.t)
  /\ taskTip' = [taskTip EXCEPT ![k.t].status = "ended"]
  /\ Take(s, {k.t})
  /\ Goto(s, "lock_case")
  /\ UNCHANGED <<templateTip, stepTip, caseTip>>

(* complete_task, cancel_task: the UPDATE asks "still open?" *)
EndTask(s) ==
  LET k == call[s] IN
  /\ At(s, "end_task") /\ CanLock(s, k.t)
  /\ IF IsOpen(taskTip[k.t])
     THEN /\ taskTip' = [taskTip EXCEPT ![k.t].status = "ended"]
          /\ Take(s, {k.t})
          /\ Goto(s, "lock_case")
          /\ UNCHANGED <<templateTip, stepTip, caseTip>>
     ELSE RolledBack(s)

(* move_on_after_task, its first lock: a case that is over stays over. *)
LockCase(s) ==
  LET c == call[s].c IN
  /\ At(s, "lock_case") /\ call[s].op = "end_task" /\ CanLock(s, c)
  /\ Take(s, {c})
  /\ Goto(s, IF caseTip[c] = "in_progress" THEN "move_on" ELSE "commit")
  /\ UNCHANGED tips

StepsAfter(st) == {u \in Live(step) : step[u].order > step[st].order}

(* move_on_after_task, the rest.  A task whose step is gone is an error;   *)
(* so is the next step of a deleted template, whose name the new task's    *)
(* description needs.                                                      *)
MoveOn(s) ==
  LET c == call[s].c
      finished == task[call[s].t].step
      after == StepsAfter(finished)
  IN
  /\ GetTemplate(s, "end_task", "move_on")
  /\ IF finished \notin Live(step) \/ (after # {} /\ template.deleted)
     THEN RolledBack(s)
     ELSE /\ Goto(s, "commit")
          /\ \/ \E t \in NextTask(c) :
                  /\ after # {}
                  /\ taskTip' = [taskTip EXCEPT ![t] = NewTask(First(after))]
                  /\ Take(s, TemplateLock \cup {t})
                  /\ UNCHANGED caseTip
             \/ /\ after = {}
                /\ caseTip' = [caseTip EXCEPT ![c] = "completed"]
                /\ Take(s, TemplateLock)
                /\ UNCHANGED taskTip
          /\ UNCHANGED <<templateTip, stepTip>>

(* cancel_instance: lock, look again, mark cancelled; then its tasks. *)
CancelInstance(s) ==
  LET c == call[s].c IN
  /\ At(s, "lock_case") /\ call[s].op = "cancel_case" /\ CanLock(s, c)
  /\ IF caseTip[c] = "in_progress"
     THEN /\ caseTip' = [caseTip EXCEPT ![c] = "cancelled"]
          /\ Take(s, {c})
          /\ Goto(s, "list_tasks")
          /\ UNCHANGED <<templateTip, stepTip, taskTip>>
     ELSE RolledBack(s)

ListTasks(s) ==
  /\ At(s, "list_tasks")
  /\ call' = [call EXCEPT ![s].pc = "cancel_tasks",
                          ![s].todo = {t \in TasksOf(call[s].c) : IsOpen(task[t])}]
  /\ UNCHANGED <<tips, lock>>

(* cancel_open_tasks_for_workflow_instance: a task that ended meanwhile is *)
(* left alone.  The announcement of each cancel finds the case cancelled   *)
(* and does nothing.                                                       *)
CancelOpenTasks(s) ==
  LET todo == call[s].todo IN
  /\ At(s, "cancel_tasks")
  /\ UNCHANGED <<templateTip, stepTip, caseTip>>
  /\ \/ /\ todo = {}
        /\ Goto(s, "commit")
        /\ UNCHANGED <<taskTip, lock>>
     \/ \E t \in todo :
          /\ CanLock(s, t)
          /\ call' = [call EXCEPT ![s].todo = @ \ {t}]
          /\ IF IsOpen(taskTip[t])
             THEN /\ taskTip' = [taskTip EXCEPT ![t].status = "ended"]
                  /\ Take(s, {t})
             ELSE UNCHANGED <<taskTip, lock>>

WriteSteps(s, rows) ==
  /\ stepTip' = rows
  /\ Take(s, {Template})
  /\ Goto(s, "commit")
  /\ UNCHANGED <<templateTip, caseTip, taskTip>>

(* The live steps from a position onward move by some places. *)
Moved(rows, position, by) ==
  [st \in Steps |-> IF rows[st].state = "live" /\ rows[st].order >= position
                    THEN [rows[st] EXCEPT !.order = @ + by] ELSE rows[st]]

(* add_step: make_room_at, then create_step. *)
AddStep(s) ==
  /\ GetTemplate(s, "add_step", "lock_template")
  /\ IF template.deleted
     THEN RolledBack(s)
     ELSE \E position \in 1..Cardinality(Live(step)) + 1 :
            WriteSteps(s, [Moved(step, position, 1) EXCEPT
                             ![call[s].st] = [state |-> "live", order |-> position]])

Reordered(s) ==
  \E position \in Bijection(Live(step), 1..Cardinality(Live(step))) :
    WriteSteps(s, [st \in Steps |-> IF st \in Live(step)
                                    THEN [step[st] EXCEPT !.order = position[st]]
                                    ELSE step[st]])

(* Mutant: running cases are not asked about. *)
ReorderStepsAnyway(s) ==
  /\ GetTemplate(s, "reorder_steps", "lock_template")
  /\ IF template.deleted THEN RolledBack(s) ELSE Reordered(s)

(* reorder_steps: refused while a case is running on the template. *)
ReorderSteps(s) ==
  /\ GetTemplate(s, "reorder_steps", "lock_template")
  /\ IF template.deleted \/ \E c \in Cases : Running(c)
     THEN RolledBack(s)
     ELSE Reordered(s)

(* Mutant: open tasks on the step are not counted. *)
NeverInUse(st) == FALSE

InUse(st) == \E t \in Tasks : IsOpen(task[t]) /\ task[t].step = st

(* Mutant: every step moves up, not only the later ones. *)
WithoutButAllMoveUp(st) ==
  Moved([step EXCEPT ![st].state = "deleted"], 0, -1)

(* close_gap_after *)
Without(st) ==
  Moved([step EXCEPT ![st].state = "deleted"], step[st].order + 1, -1)

(* Mutant: the step is not looked up again under the lock. *)
DeleteStepBlindly(s) ==
  LET st == call[s].st IN
  /\ GetTemplate(s, "delete_step", "lock_template")
  /\ IF template.deleted \/ InUse(st) THEN RolledBack(s) ELSE WriteSteps(s, Without(st))

(* delete_step: looked up again under the lock, refused while a task is    *)
(* open on it; the later steps move up.                                    *)
DeleteStep(s) ==
  LET st == call[s].st IN
  /\ GetTemplate(s, "delete_step", "lock_template")
  /\ IF template.deleted \/ step[st].state # "live" \/ InUse(st)
     THEN RolledBack(s)
     ELSE WriteSteps(s, Without(st))

(* update_template, as deleting and archiving use it: waits for the row,   *)
(* writes the one column, asks nothing.                                    *)
WriteTemplate(s) ==
  LET op == call[s].op IN
  /\ At(s, "write_template") /\ CanLock(s, Template)
  /\ templateTip' = [archived |-> IF op = "delete_template" THEN templateTip.archived ELSE op = "archive",
                     deleted  |-> templateTip.deleted \/ op = "delete_template"]
  /\ Take(s, {Template})
  /\ Goto(s, "commit")
  /\ UNCHANGED <<stepTip, caseTip, taskTip>>

-----------------------------------------------------------------------------
Request(s) ==
  \/ \E c \in Cases : StartInstance(s, c) \/ StartCancelInstance(s, c)
  \/ \E t \in Tasks : StartEndTask(s, t)
  \/ \E st \in Steps : StartAddStep(s, st) \/ StartDeleteStep(s, st)
  \/ StartReorderSteps(s)
  \/ StartDeleteTemplate(s)
  \/ \E op \in TemplateOps : StartSetArchived(s, op)

Statement(s) ==
  \/ CreateInstance(s)
  \/ EndTask(s)
  \/ LockCase(s)
  \/ MoveOn(s)
  \/ CancelInstance(s)
  \/ ListTasks(s)
  \/ CancelOpenTasks(s)
  \/ AddStep(s)
  \/ ReorderSteps(s)
  \/ DeleteStep(s)
  \/ WriteTemplate(s)

Next == \E s \in Sessions : Request(s) \/ Statement(s) \/ Commit(s) \/ Rollback(s)

Spec == Init /\ [][Next]_vars

-----------------------------------------------------------------------------
(* Properties of what is committed. *)

OpenTasks(c)  == {t \in TasksOf(c) : IsOpen(task[t])}
EndedTasks(c) == {t \in TasksOf(c) : task[t].status = "ended"}

(* A running case is waiting on exactly one task and a case that is over   *)
(* on none, however task completions, hand cancels and the cancel of the   *)
(* whole case race: "a case that was cancelled at the same moment must not *)
(* grow a new task" (move_on_after_task, cancel_instance).                 *)
OneTaskWhileRunning ==
  \A c \in Cases : Cardinality(OpenTasks(c)) = IF Running(c) THEN 1 ELSE 0

(* The live steps are numbered 1..n without gap or repeat, though nothing  *)
(* in the database says so: adds, deletes and reorders take turns on the   *)
(* template's row (add_step, delete_step, reorder_steps).                  *)
StepsAreNumbered ==
  /\ \A st, u \in Live(step) : step[st].order = step[u].order => st = u
  /\ {step[st].order : st \in Live(step)} = 1..Cardinality(Live(step))

(* The step an open task was made from is still in the template, so its    *)
(* case can move on: delete_step and move_on_after_task exclude each other *)
(* ("it should not happen: a step with an open task cannot be deleted").   *)
OpenTaskKeepsItsStep ==
  \A t \in Tasks : IsOpen(task[t]) => task[t].step \in Live(step)

(* What comes next is read from the template as it is when the task ends:  *)
(* at the commit no live step lies between the finished one and the one    *)
(* the case moves to, nor after the one it finishes on.                    *)
NextInLine(c, t) ==
  LET after == StepsAfter(task[t].step) IN
  IF case[c] = "completed"
  THEN after = {}
  ELSE after # {} /\ \E u \in OpenTasks(c) : task[u].step = First(after)

NoStepIsPassedOver ==
  [][\A c \in Cases, t \in Tasks :
       t \in OpenTasks(c) /\ ~IsOpen(task'[t]) /\ case'[c] # "cancelled"
       => NextInLine(c, t)']_vars

(* However requests interleave, each case lives the life of CaseLife: one  *)
(* step at a time, none of them twice, and one ending.                     *)
Life == INSTANCE CaseLife WITH
          None   <- Null,
          status <- case,
          at     <- [c \in Cases |-> IF OpenTasks(c) = {} THEN Null
                                     ELSE task[CHOOSE t \in OpenTasks(c) : TRUE].step],
          past   <- [c \in Cases |-> {task[t].step : t \in EndedTasks(c)}]

CasesKeepTheirPromise == Life!Spec

(* repository.py, get_instance_for_update: "The lock makes a task          *)
(* completing and the case being cancelled at the same moment take turns". *)
(* Each may instead wait for the row the other holds.                      *)
Wanted(s) ==
  CASE call[s].pc \in {"lock_template", "move_on", "write_template"} -> {Template}
    [] call[s].pc = "lock_case"    -> {call[s].c}
    [] call[s].pc = "end_task"     -> {call[s].t}
    [] call[s].pc = "cancel_tasks" -> call[s].todo
    [] OTHER                       -> {}

WaitsFor(s, r) == s # r /\ \E row \in Wanted(s) : lock[row] = r

TakeTurns ==
  \A s, r \in Sessions :
    call[s].op = "end_task" /\ call[r].op = "cancel_case" => ~(WaitsFor(s, r) /\ WaitsFor(r, s))

(* service.py, start_instance: "The template is locked while this runs, so *)
(* an archive or delete at the same moment can't slip past the checks".    *)
(* delete_template counts the running cases before it holds that lock.     *)
RunningCaseHasTemplate ==
  template.deleted => \A c \in Cases : ~Running(c)

=============================================================================
